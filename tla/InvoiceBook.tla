---------------------------- MODULE InvoiceBook ----------------------------
(***************************************************************************)
(* createInvoice, listInvoices and getInvoice of invoice.service.js, next  *)
(* to the life cycle of the invoices.                                      *)
(*                                                                         *)
(* An invoice is created in a transaction that holds the row lock of the   *)
(* tenant's invoice_sequences row from the allocation of its number to the *)
(* end.  A reader takes several statements, each of which sees what is     *)
(* committed at that time: no transaction spans them.  Issues, payments,   *)
(* voids and overdue sweeps are the atomic steps of InvoiceLifecycle.      *)
(***************************************************************************)
EXTENDS InvoiceLifecycle, FiniteSetsExt

CONSTANTS
    Creators,      \* concurrent createInvoice requests
    Filters,       \* status filters a client lists with
    PageSize,      \* limit of listInvoices
    MaxRollbacks,  \* bound: creations that fail after the allocation
    NoInvoice

ASSUME BookAssumption ==
    /\ Filters \subseteq SUBSET Status
    /\ PageSize \in Nat \ {0}
    /\ MaxRollbacks \in Nat
    /\ NoInvoice \notin Invoices

VARIABLES
    number,     \* invoices.sequence_number, 0 before createInvoice commits
    lastValue,  \* invoice_sequences.last_value, 0 before the row exists
    creating,   \* the invoice a createInvoice has allocated a number for
    sequence,   \* that number
    reached,    \* the to_status values in invoice_status_history
    rollbacks,
    reader,     \* the list or the single invoice a client is reading
    steady      \* ghost: invoices that match the filter since the list began

creation == <<number, lastValue, creating, sequence, rollbacks>>
bookVars == <<vars, creation, reached, reader, steady>>

Created == {i \in Invoices : number[i] > 0}

NoReader == [pc |-> "idle", filter |-> {}, below |-> 0, more |-> FALSE,
             page |-> <<>>, left |-> {}, shown |-> <<>>]

BookInit ==
    /\ Init
    /\ status = [i \in Invoices |-> "DRAFT"]
    /\ due = [i \in Invoices |-> FALSE]
    /\ number = [i \in Invoices |-> 0]
    /\ lastValue = 0
    /\ creating = [c \in Creators |-> NoInvoice]
    /\ sequence = [c \in Creators |-> 0]
    /\ reached = [i \in Invoices |-> {}]
    /\ rollbacks = 0
    /\ reader = NoReader
    /\ steady = {}

-----------------------------------------------------------------------------
(* createInvoice *)

\* Mutation: the number is taken in a transaction of its own.
Allocate_OwnTransaction(c, i) ==
    /\ creating[c] = NoInvoice
    /\ i \notin Created /\ \A d \in Creators : creating[d] # i
    /\ creating' = [creating EXCEPT ![c] = i]
    /\ sequence' = [sequence EXCEPT ![c] = lastValue + 1]
    /\ lastValue' = lastValue + 1
    /\ UNCHANGED <<number, rollbacks>>

\* INSERT ... ON CONFLICT DO UPDATE ... RETURNING last_value: waits for the
\* transaction that has the row, or has inserted it.
Allocate(c, i) ==
    /\ creating[c] = NoInvoice
    /\ i \notin Created /\ \A d \in Creators : creating[d] # i
    /\ \A d \in Creators : creating[d] = NoInvoice
    /\ creating' = [creating EXCEPT ![c] = i]
    /\ sequence' = [sequence EXCEPT ![c] = lastValue + 1]
    /\ UNCHANGED <<number, lastValue, rollbacks>>

EndCreate(c) ==
    /\ creating[c] # NoInvoice
    /\ creating' = [creating EXCEPT ![c] = NoInvoice]
    /\ sequence' = [sequence EXCEPT ![c] = 0]

\* The invoice, its items, its history row and the counter, in one commit.
CommitCreate(c) ==
    /\ EndCreate(c)
    /\ number' = [number EXCEPT ![creating[c]] = sequence[c]]
    /\ lastValue' = sequence[c]
    /\ UNCHANGED rollbacks

RollbackCreate(c) ==
    /\ rollbacks < MaxRollbacks
    /\ EndCreate(c)
    /\ rollbacks' = rollbacks + 1
    /\ UNCHANGED <<number, lastValue>>

CreateStep ==
    /\ \E c \in Creators :
          (\E i \in Invoices : Allocate(c, i)) \/ CommitCreate(c) \/ RollbackCreate(c)
    /\ UNCHANGED vars

\* Only a created invoice has a life; MarkOverdue does not touch a draft.
LifeStep ==
    /\ (\E i \in Created : Issue(i) \/ Pay(i) \/ Void(i) \/ DueDatePasses(i)) \/ MarkOverdue
    /\ UNCHANGED creation

-----------------------------------------------------------------------------
(* listInvoices and getInvoice *)

\* What a reader shows of an invoice, next to columns that never change.
Column(c) == [status |-> status, paid |-> paid, history |-> reached][c]

\* f @@ g of the module TLC, which is not defined for the proofs.
Over(f, g) == [x \in DOMAIN f \cup DOMAIN g |-> IF x \in DOMAIN f THEN f[x] ELSE g[x]]

Read(S, columns) == [i \in S |-> [c \in columns |-> Column(c)[i]]]

\* Mutation: the sums of the payments are read before the rows.
FirstStatement_Sums == {"paid"}

\* Columns of the first statement; every other column has one of its own.
FirstStatement == {"status"}

StartList(filter) ==
    /\ reader.pc = "idle"
    /\ reader' = [NoReader EXCEPT !.pc = "page", !.filter = filter]
    /\ steady' = {i \in Created : status[i] \in filter}

\* Mutation: the page starts at the row of the cursor.
BelowCursor_Inclusive(i) == reader.below = 0 \/ number[i] <= reader.below

\* sequence_number < cursor; the first request has none.
BelowCursor(i) == reader.below = 0 \/ number[i] < reader.below

\* Mutation: the cursor is the row that was read ahead.
NextCursor_Ahead(page, matching) ==
    Max({number[i] : i \in IF page = matching THEN page ELSE matching \ page})

\* nextCursor: the number of the last row of the page.
NextCursor(page, matching) == Min({number[i] : i \in page})

\* SELECT ... WHERE status IN ... AND sequence_number < cursor
\* ORDER BY sequence_number DESC LIMIT limit + 1: the row too many says that
\* there is another page.
SelectPage ==
    LET matching == {i \in Created : status[i] \in reader.filter /\ BelowCursor(i)}
        page == {i \in matching : Cardinality({j \in matching : number[j] > number[i]}) < PageSize}
    IN
    /\ reader.pc = "page"
    /\ reader' = [reader EXCEPT
          !.pc = "rest", !.left = {"status", "paid"} \ FirstStatement,
          !.page = Read(page, FirstStatement),
          !.more = page # matching,
          !.below = IF page = {} THEN @ ELSE NextCursor(page, matching)]

\* The first statement of getInvoice.
SelectInvoice(i) ==
    /\ reader.pc = "idle"
    /\ reader' = [NoReader EXCEPT
          !.pc = "rest", !.left = {"status", "paid", "history"} \ FirstStatement,
          !.page = Read({i}, FirstStatement)]

\* The statements that complete the page: the sums of listInvoices, the
\* payments and the history of getInvoice, in Promise.all and so in any order.
\* After the last one the page is shown, and the client asks for the next.
SelectColumn(c) ==
    LET full == [i \in DOMAIN reader.page |-> Over(reader.page[i], [d \in {c} |-> Column(c)[i]])] IN
    /\ reader.pc = "rest"
    /\ c \in reader.left
    /\ reader' = IF reader.left # {c}
                 THEN [reader EXCEPT !.page = full, !.left = @ \ {c}]
                 ELSE [reader EXCEPT !.page = <<>>, !.left = {}, !.shown = Over(@, full),
                                     !.pc = IF reader.more THEN "page" ELSE "done"]

CloseReader ==
    /\ reader.pc = "done"
    /\ reader' = NoReader

ReaderStep == SelectPage \/ (\E c \in reader.left : SelectColumn(c)) \/ CloseReader

-----------------------------------------------------------------------------
\* The history gets a row with every change of status, in the same commit.
Recorded == reached' = [i \in Invoices |-> IF i \in Created' THEN reached[i] \cup {status'[i]} ELSE {}]

BookNext ==
    \/ /\ CreateStep \/ LifeStep
       /\ Recorded
       /\ steady' = {i \in steady : status'[i] \in reader.filter}
       /\ UNCHANGED reader
    \/ /\ \/ \E f \in Filters : StartList(f)
          \/ ((\E i \in Created : SelectInvoice(i)) \/ ReaderStep) /\ UNCHANGED steady
       /\ UNCHANGED <<vars, creation, reached>>

BookSpec == BookInit /\ [][BookNext]_bookVars

\* The event loop runs every continuation of a reader, and the client goes on.
BookFairness == WF_bookVars(ReaderStep /\ UNCHANGED <<vars, creation, reached, steady>>)

-----------------------------------------------------------------------------
(* Properties *)

\* README.md:25 "gapless": the numbers of the invoices are 1, 2, 3, ... without
\* a gap and without a number twice, although creations run at the same time
\* and are rolled back after they have got their number.
GaplessNumbers ==
    /\ {number[i] : i \in Created} = 1 .. lastValue
    /\ \A i, j \in Created : number[i] = number[j] => i = j

\* What a reader shows makes sense although its statements see different
\* commits: an invoice shown PAID has nothing outstanding, one shown VOID no
\* payments, none is shown overpaid, and the history leads to the status.
ShownIsConsistent ==
    \A i \in DOMAIN reader.shown :
        LET r == reader.shown[i] IN
        /\ r.paid <= Total[i]
        /\ r.status = "PAID" => r.paid = Total[i]
        /\ r.status = "VOID" => r.paid = 0
        /\ r.status = "PARTIALLY_PAID" => r.paid > 0
        /\ "history" \in DOMAIN r => r.status \in r.history

\* A client that walks the list to its end has been shown every invoice that
\* matched its filter all along, whatever was created, paid or voided between
\* the pages, and no invoice is on two pages.
ListIsComplete ==
    /\ reader.pc = "done" /\ reader.filter # {} => steady \subseteq DOMAIN reader.shown
    /\ DOMAIN reader.page \cap DOMAIN reader.shown = {}

\* A walk ends although invoices are created all the time.
ListEnds == reader.pc = "page" ~> reader.pc = "done"
=============================================================================
