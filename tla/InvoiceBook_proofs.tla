------------------------- MODULE InvoiceBook_proofs -------------------------
(***************************************************************************)
(* What holds for every value of the constants: of the life cycle of the   *)
(* invoices, of their numbers, of what a client reads of them, and of the  *)
(* other lists (Pagination).                                               *)
(***************************************************************************)
EXTENDS InvoiceBook, Pagination, SumTheorems

-----------------------------------------------------------------------------
(* The life cycle (InvoiceLifecycle) *)

\* StatusMatchesPaid says of every status what it allows to be paid, so it is
\* inductive together with the types.
LifeInv == TypeOK /\ StatusMatchesPaid

\* The state machine, status by status (invoice.state.js).
LEMMA Transitions ==
    /\ AllowedTransitions \in [Status -> SUBSET Status]
    /\ \A s \in Status : CanTransition(s, "ISSUED") <=> s = "DRAFT"
    /\ \A s \in Status : CanTransition(s, "OVERDUE") <=> s \in {"ISSUED", "PARTIALLY_PAID"}
    /\ \A s \in Status : CanTransition(s, "VOID") =>
                            s \in {"DRAFT", "ISSUED", "PARTIALLY_PAID", "OVERDUE"}
    /\ \A s \in Status, t \in {"PAID", "PARTIALLY_PAID"} :
          CanTransition(s, t) <=> s \in {"ISSUED", "PARTIALLY_PAID", "OVERDUE"}
  BY DEF AllowedTransitions, CanTransition, Status

\* Every invoice starts as a draft with nothing paid.
LEMMA LifeInit == Init => LifeInv
  BY TotalAssumption DEF Init, LifeInv, TypeOK, StatusMatchesPaid, Status

\* An issue.
LEMMA IssueInv ==
    ASSUME LifeInv, NEW i \in Invoices, Issue(i)
    PROVE  LifeInv'
  BY Transitions, TotalAssumption
     DEF LifeInv, TypeOK, StatusMatchesPaid, Issue, Status

\* A payment: its sum decides the status.
LEMMA PayInv ==
    ASSUME LifeInv, NEW i \in Invoices, Pay(i)
    PROVE  LifeInv'
<1>1. PICK amount \in 1 .. (Total[i] - paid[i]) :
         LET t == StatusAfter(i, paid[i] + amount) IN
         /\ CanTransition(status[i], t)
         /\ paid' = [paid EXCEPT ![i] = @ + amount]
         /\ status' = [status EXCEPT ![i] = t]
         /\ UNCHANGED due
  BY DEF Pay
<1> DEFINE sum == paid[i] + amount
<1>2. Total[i] \in Nat /\ paid[i] \in Nat /\ sum \in Nat /\ sum > 0 /\ sum <= Total[i]
  BY TotalAssumption DEF LifeInv, TypeOK
<1>3. CASE sum = Total[i]
  <2>1. status' = [status EXCEPT ![i] = "PAID"] /\ paid' = [paid EXCEPT ![i] = sum]
    BY <1>1, <1>3 DEF StatusAfter
  <2> QED  BY <1>1, <1>2, <1>3, <2>1 DEF LifeInv, TypeOK, StatusMatchesPaid, Status
<1>4. CASE sum # Total[i]
  <2>1. /\ status' = [status EXCEPT ![i] = "PARTIALLY_PAID"]
        /\ paid' = [paid EXCEPT ![i] = sum]
    BY <1>1, <1>4 DEF StatusAfter
  <2> QED  BY <1>1, <1>2, <1>4, <2>1 DEF LifeInv, TypeOK, StatusMatchesPaid, Status
<1> QED  BY <1>3, <1>4

\* A void.
LEMMA VoidInv ==
    ASSUME LifeInv, NEW i \in Invoices, Void(i)
    PROVE  LifeInv'
  BY TotalAssumption DEF LifeInv, TypeOK, StatusMatchesPaid, Void, Status

\* The overdue sweep.
LEMMA MarkOverdueInv ==
    ASSUME LifeInv, MarkOverdue
    PROVE  LifeInv'
<1>1. PICK marked \in SUBSET {i \in Invoices : due[i] /\ CanTransition(status[i], "OVERDUE")} :
         status' = [i \in Invoices |-> IF i \in marked THEN "OVERDUE" ELSE status[i]]
  BY DEF MarkOverdue
<1>2. \A i \in marked : i \in Invoices /\ status[i] \in {"ISSUED", "PARTIALLY_PAID"}
  BY Transitions DEF LifeInv, TypeOK
<1>3. UNCHANGED <<paid, due>>
  BY DEF MarkOverdue
<1> QED  BY <1>1, <1>2, <1>3, TotalAssumption DEF LifeInv, TypeOK, StatusMatchesPaid, Status

\* Every step of the life cycle.
LEMMA LifeNext == LifeInv /\ [Next]_vars => LifeInv'
<1> SUFFICES ASSUME LifeInv, [Next]_vars PROVE LifeInv'
  OBVIOUS
<1>1. CASE UNCHANGED vars
  BY <1>1 DEF vars, LifeInv, TypeOK, StatusMatchesPaid
<1>2. ASSUME NEW i \in Invoices, DueDatePasses(i) PROVE LifeInv'
  BY <1>2 DEF DueDatePasses, LifeInv, TypeOK, StatusMatchesPaid
<1> QED  BY <1>1, <1>2, IssueInv, PayInv, VoidInv, MarkOverdueInv DEF Next

\* The types of the life cycle.
THEOREM LifeTypesAlways == Spec => []TypeOK
<1>1. LifeInv => TypeOK
  BY DEF LifeInv
<1> QED  BY LifeInit, LifeNext, <1>1, PTL DEF Spec

\* The status column and the payments of every invoice agree at all times.
THEOREM StatusMatchesPaidAlways == Spec => []StatusMatchesPaid
<1>1. LifeInv => StatusMatchesPaid
  BY DEF LifeInv
<1> QED  BY LifeInit, LifeNext, <1>1, PTL DEF Spec

\* PAID and VOID are final and no step takes a forbidden transition.
LEMMA StatusMoves ==
  ASSUME LifeInv, [Next]_vars
  PROVE  \A i \in Invoices : status'[i] # status[i] => CanTransition(status[i], status'[i])
<1>1. ASSUME NEW i \in Invoices, Issue(i) \/ Void(i) \/ Pay(i)
      PROVE  \A j \in Invoices : status'[j] # status[j] =>
               CanTransition(status[j], status'[j])
  BY <1>1 DEF Issue, Void, Pay, LifeInv, TypeOK
<1>2. ASSUME MarkOverdue
      PROVE  \A j \in Invoices : status'[j] # status[j] =>
               CanTransition(status[j], status'[j])
  BY <1>2 DEF MarkOverdue
<1>3. ASSUME NEW i \in Invoices, DueDatePasses(i) PROVE UNCHANGED status
  BY <1>3 DEF DueDatePasses
<1> QED  BY <1>1, <1>2, <1>3 DEF Next, vars

\* Payments are only added, and only to open invoices.
LEMMA PaidGrows ==
  ASSUME LifeInv, [Next]_vars
  PROVE  \A i \in Invoices :
             /\ paid'[i] >= paid[i]
             /\ status[i] \in {"DRAFT", "PAID", "VOID"} => paid'[i] = paid[i]
<1>1. ASSUME NEW i \in Invoices, Pay(i)
      PROVE  \A j \in Invoices :
               /\ paid'[j] >= paid[j]
               /\ status[j] \in {"DRAFT", "PAID", "VOID"} => paid'[j] = paid[j]
  <2>1. PICK amount \in 1 .. (Total[i] - paid[i]) :
           /\ CanTransition(status[i], StatusAfter(i, paid[i] + amount))
           /\ paid' = [paid EXCEPT ![i] = @ + amount]
    BY <1>1 DEF Pay
  <2>2. StatusAfter(i, paid[i] + amount) \in {"PAID", "PARTIALLY_PAID"}
    BY DEF StatusAfter
  <2>3. status[i] \in {"ISSUED", "PARTIALLY_PAID", "OVERDUE"}
    BY <2>1, <2>2, Transitions DEF LifeInv, TypeOK
  <2>4. amount \in Nat /\ paid \in [Invoices -> Nat]
    BY TotalAssumption DEF LifeInv, TypeOK
  <2> QED  BY <2>1, <2>3, <2>4
<1>2. ASSUME UNCHANGED paid
      PROVE  \A j \in Invoices :
               /\ paid'[j] >= paid[j]
               /\ status[j] \in {"DRAFT", "PAID", "VOID"} => paid'[j] = paid[j]
  BY <1>2 DEF LifeInv, TypeOK
<1>3. ASSUME NEW i \in Invoices, Issue(i) \/ Void(i) \/ DueDatePasses(i)
      PROVE  UNCHANGED paid
  BY <1>3 DEF Issue, Void, DueDatePasses
<1>4. ASSUME MarkOverdue PROVE UNCHANGED paid
  BY <1>4 DEF MarkOverdue
<1> QED  BY <1>1, <1>2, <1>3, <1>4 DEF Next, vars

\* PAID and VOID are final: invoice.state.js is obeyed by every operation.
THEOREM TransitionsAreLegal == Spec => LegalTransitions
BY LifeInit, LifeNext, StatusMoves, PTL DEF Spec, LegalTransitions

\* No step lowers what was paid, and none adds to a draft, paid or voided invoice.
THEOREM PaymentsOnlyGrowAlways == Spec => PaymentsOnlyGrow
BY LifeInit, LifeNext, PaidGrows, PTL DEF Spec, PaymentsOnlyGrow

-----------------------------------------------------------------------------
(* The numbers of the invoices *)

Types ==
    /\ number \in [Invoices -> Nat]
    /\ lastValue \in Nat
    /\ creating \in [Creators -> Invoices \cup {NoInvoice}]
    /\ sequence \in [Creators -> Nat]

\* A transaction that has allocated a number is alone, has the next one, and
\* has it for an invoice without a number.
CounterIsLocked ==
    \A c \in Creators : creating[c] # NoInvoice =>
        /\ \A d \in Creators : creating[d] # NoInvoice => d = c
        /\ sequence[c] = lastValue + 1
        /\ number[creating[c]] = 0

Inv == Types /\ CounterIsLocked /\ GaplessNumbers

-----------------------------------------------------------------------------
\* No invoice has been created.
LEMMA InitInv == BookInit => Inv
<1> SUFFICES ASSUME BookInit PROVE Inv
  OBVIOUS
<1> USE DEF BookInit
<1>1. Types /\ CounterIsLocked
  BY DEF Types, CounterIsLocked
<1>2. GaplessNumbers
  BY DEF GaplessNumbers, Created
<1> QED
  BY <1>1, <1>2 DEF Inv

\* INSERT ... ON CONFLICT DO UPDATE ... RETURNING last_value.
LEMMA AllocateKeepsInv ==
  ASSUME Inv, NEW c \in Creators, NEW i \in Invoices, Allocate(c, i)
  PROVE  Inv'
<1> USE BookAssumption DEF Inv
<1>1. /\ creating' = [creating EXCEPT ![c] = i] /\ sequence' = [sequence EXCEPT ![c] = lastValue + 1]
      /\ \A d \in Creators : creating[d] = NoInvoice
      /\ UNCHANGED <<number, lastValue>>
  BY DEF Allocate
<1>2. number[i] = 0
  BY DEF Allocate, Created, Types
<1>3. Types' /\ CounterIsLocked'
  BY <1>1, <1>2 DEF Types, CounterIsLocked
<1>4. GaplessNumbers'
  BY <1>1 DEF GaplessNumbers, Created
<1> QED
  BY <1>3, <1>4

\* The number becomes visible together with the counter, or neither does.
LEMMA EndKeepsInv ==
  ASSUME Inv, NEW c \in Creators, CommitCreate(c) \/ RollbackCreate(c)
  PROVE  Inv'
<1> USE BookAssumption DEF Inv
<1>1. /\ creating[c] # NoInvoice
      /\ creating' = [creating EXCEPT ![c] = NoInvoice]
      /\ sequence' = [sequence EXCEPT ![c] = 0]
  BY DEF CommitCreate, RollbackCreate, EndCreate
<1>2. \A d \in Creators : creating'[d] = NoInvoice
  BY <1>1 DEF Types, CounterIsLocked
<1>3. CASE UNCHANGED <<number, lastValue>>
  BY <1>1, <1>2, <1>3 DEF Types, CounterIsLocked, GaplessNumbers, Created
<1>4. CASE /\ number' = [number EXCEPT ![creating[c]] = sequence[c]]
           /\ lastValue' = sequence[c]
  <2> DEFINE i == creating[c]
  <2>1. i \in Invoices /\ number[i] = 0 /\ sequence[c] = lastValue + 1 /\ lastValue \in Nat
    BY <1>1 DEF Types, CounterIsLocked
  <2>2. /\ number'[i] = lastValue + 1 /\ lastValue' = lastValue + 1
        /\ \A j \in Invoices : j # i => number'[j] = number[j]
    BY <1>4, <2>1 DEF Types
  <2>3. Types' /\ CounterIsLocked'
    BY <1>1, <1>2, <1>4, <2>1 DEF Types, CounterIsLocked
  <2> HIDE DEF i
  <2>4. Created' = Created \cup {i} /\ i \notin Created
    BY <2>1, <2>2 DEF Created
  <2>5. {number[j] : j \in Created}' = {number[j] : j \in Created} \cup {lastValue + 1}
    BY <2>1, <2>2, <2>4 DEF Created
  <2>6. 1 .. lastValue' = 1 .. lastValue \cup {lastValue + 1}
    BY <2>1, <2>2
  <2>7. \A j \in Created : number[j] \in 1 .. lastValue
    BY DEF GaplessNumbers
  <2>8. \A j, k \in Created' : number'[j] = number'[k] => j = k
    BY <2>1, <2>2, <2>4, <2>7 DEF GaplessNumbers, Created
  <2> QED
    BY <2>3, <2>5, <2>6, <2>8 DEF GaplessNumbers
<1> QED
  BY <1>3, <1>4 DEF CommitCreate, RollbackCreate

\* Every step of the specification.
LEMMA NextInv == Inv /\ [BookNext]_bookVars => Inv'
<1> SUFFICES ASSUME Inv, [BookNext]_bookVars PROVE Inv'
  OBVIOUS
<1>1. CASE UNCHANGED creation
  BY <1>1 DEF creation, Inv, Types, CounterIsLocked, GaplessNumbers, Created
<1>2. CASE CreateStep
  BY <1>2, AllocateKeepsInv, EndKeepsInv DEF CreateStep
<1> QED
  BY <1>1, <1>2 DEF BookNext, LifeStep, bookVars

-----------------------------------------------------------------------------
\* createInvoice: the numbers of a tenant are gapless for any number of
\* concurrent creations and rollbacks.
THEOREM NumbersAlwaysGapless == BookSpec => []GaplessNumbers
<1>1. BookSpec => []Inv
  BY InitInv, NextInv, PTL DEF BookSpec
<1> QED
  BY <1>1, PTL DEF Inv
-----------------------------------------------------------------------------
(* What a client reads *)

ReaderTypes ==
    /\ reader = [pc |-> reader.pc, filter |-> reader.filter, below |-> reader.below,
                 more |-> reader.more, page |-> reader.page, left |-> reader.left,
                 shown |-> reader.shown]
    /\ reader.pc \in {"idle", "page", "rest", "done"}
    /\ reader.below \in Nat
    /\ reader.more \in BOOLEAN
    /\ reader.left \subseteq {"paid", "history"}
    /\ DOMAIN reader.page \subseteq Created
    /\ DOMAIN reader.shown \subseteq Created

\* What a status read earlier still says of the invoice: PAID and VOID are
\* final, a payment is not taken back, and the history is not cut.
StillHolds(i, r) ==
    /\ "status" \in DOMAIN r
    /\ r.status \in reached[i]
    /\ r.status = "PAID" => status[i] = "PAID"
    /\ r.status = "VOID" => status[i] = "VOID"
    /\ r.status = "PARTIALLY_PAID" => paid[i] > 0

\* The columns read so far fit together.
Fits(i, r) ==
    /\ "paid" \in DOMAIN r =>
          /\ r.paid <= Total[i]
          /\ r.status = "PAID" => r.paid = Total[i]
          /\ r.status = "VOID" => r.paid = 0
          /\ r.status = "PARTIALLY_PAID" => r.paid > 0
    /\ "history" \in DOMAIN r => r.status \in r.history

RowsFit ==
    /\ \A i \in Created : status[i] \in reached[i]
    /\ \A i \in DOMAIN reader.page :
          /\ StillHolds(i, reader.page[i])
          /\ Fits(i, reader.page[i])
          /\ "paid" \in DOMAIN reader.page[i] \cup reader.left
    /\ \A i \in DOMAIN reader.shown :
          "paid" \in DOMAIN reader.shown[i] /\ Fits(i, reader.shown[i])

Seen == DOMAIN reader.page \cup DOMAIN reader.shown

\* Another page is to come.
GoesOn == reader.pc = "page" \/ (reader.pc = "rest" /\ reader.more)

\* The cursor divides what has been seen from what is to come.
CursorDivides ==
    GoesOn =>
        /\ \A i \in Seen : reader.below # 0 /\ number[i] >= reader.below
        /\ reader.filter # {} =>
              \A i \in steady : reader.below # 0 /\ number[i] >= reader.below => i \in Seen

\* A list that is at its end has seen all it should.
ListEnded ==
    reader.pc # "idle" /\ ~GoesOn /\ reader.filter # {} => steady \subseteq Seen

PagesAreDisjoint ==
    /\ reader.pc # "rest" => DOMAIN reader.page = {}
    /\ DOMAIN reader.page \cap DOMAIN reader.shown = {}

SteadyMatches ==
    reader.pc # "idle" /\ reader.filter # {} =>
        \A i \in steady : i \in Created /\ status[i] \in reader.filter

ReaderInv ==
    ReaderTypes /\ RowsFit /\ CursorDivides /\ ListEnded /\ PagesAreDisjoint /\ SteadyMatches

-----------------------------------------------------------------------------
\* There are as many invoices as there are numbers.
LEMMA CreatedIsFinite == Inv => IsFiniteSet(Created)
<1> SUFFICES ASSUME Inv PROVE IsFiniteSet(Created)
  OBVIOUS
<1>1. PICK f, n : f = [i \in Created |-> number[i]] /\ n = lastValue
  OBVIOUS
<1>2. n \in Nat /\ IsFiniteSet(1 .. n)
  <2>1. n \in Nat
    BY <1>1 DEF Inv, Types
  <2> QED
    BY <2>1, FS_Interval
<1>3. f \in Injection(Created, 1 .. n)
  <2>1. \A i \in Created : number[i] \in 1 .. n
    BY <1>1 DEF Inv, GaplessNumbers
  <2>2. f \in [Created -> 1 .. n]
    BY <1>1, <2>1
  <2>3. \A i, j \in Created : f[i] = f[j] => i = j
    BY <1>1 DEF Inv, GaplessNumbers
  <2> QED
    BY <2>2, <2>3 DEF Injection, IsInjective
<1> QED
  BY <1>2, <1>3, FS_Injection

\* Whatever is above a row of the page is on the page.
LEMMA PageTakesTheTop ==
  ASSUME NEW M, IsFiniteSet(M), NEW f, \A m \in M : f[m] \in Nat,
         NEW P, P = {m \in M : Cardinality({j \in M : f[j] > f[m]}) < PageSize},
         NEW p \in P, NEW i \in M, f[i] >= f[p]
  PROVE  i \in P
<1>1. PICK A, B : A = {j \in M : f[j] > f[i]} /\ B = {j \in M : f[j] > f[p]}
  OBVIOUS
<1>2. A \subseteq B /\ B \subseteq M
  BY <1>1
<1>3. IsFiniteSet(A) /\ IsFiniteSet(B) /\ Cardinality(A) <= Cardinality(B)
  BY <1>2, FS_Subset
<1>4. Cardinality(A) \in Nat /\ Cardinality(B) \in Nat
  BY <1>3, FS_CardinalityType
<1>5. \A m \in M : m \in P <=> Cardinality({j \in M : f[j] > f[m]}) < PageSize
  OBVIOUS
<1>6. Cardinality(A) < PageSize
  <2>1. Cardinality(B) < PageSize
    BY <1>1, <1>5
  <2> QED
    BY <1>3, <1>4, <2>1, BookAssumption
<1> QED
  BY <1>1, <1>5, <1>6

\* A step of another request, seen by a reader between two statements: what
\* the status read earlier says still holds, and no number changes.
LEMMA WritesKeepReader ==
  ASSUME Inv, LifeInv, ReaderInv, LifeInv',
         CreateStep \/ LifeStep, Recorded,
         steady' = {i \in steady : status'[i] \in reader.filter}, UNCHANGED reader
  PROVE  ReaderInv'
<1>1. [Next]_vars
  BY DEF CreateStep, LifeStep, Next, Created
<1>2. \A i \in Created : i \in Created' /\ number'[i] = number[i]
  <2>1. CASE UNCHANGED number
    BY <2>1 DEF Created
  <2>2. ASSUME NEW c \in Creators, CommitCreate(c)
        PROVE  \A i \in Created : i \in Created' /\ number'[i] = number[i]
    <3>1. number[creating[c]] = 0 /\ number' = [number EXCEPT ![creating[c]] = sequence[c]]
      BY <2>2 DEF CommitCreate, EndCreate, Inv, CounterIsLocked
    <3> QED
      BY <3>1 DEF Created, Inv, Types
  <2> QED
    BY <2>1, <2>2 DEF CreateStep, LifeStep, creation, Allocate, RollbackCreate
<1>3. /\ \A i \in Created : reached[i] \subseteq reached'[i]
      /\ \A i \in Created' : status'[i] \in reached'[i]
  BY <1>2 DEF Recorded, Created
<1>4. \A i \in Invoices : /\ status[i] \in {"PAID", "VOID"} => status'[i] = status[i]
                          /\ paid[i] > 0 => paid'[i] > 0
  <2>1. ASSUME NEW i \in Invoices, status[i] \in {"PAID", "VOID"} PROVE status'[i] = status[i]
    <3>1. ~CanTransition(status[i], status'[i])
      BY <2>1 DEF CanTransition, AllowedTransitions, Status
    <3> QED
      BY <1>1, <3>1, StatusMoves
  <2>2. \A i \in Invoices : paid[i] \in Nat /\ paid'[i] \in Nat
    BY DEF LifeInv, TypeOK
  <2> QED
    BY <1>1, <2>1, <2>2, PaidGrows
<1>5. ReaderTypes'
  BY <1>2 DEF ReaderInv, ReaderTypes
<1>6. RowsFit'
  <2>1. ASSUME NEW i \in DOMAIN reader.page PROVE StillHolds(i, reader.page[i])'
    <3>1. i \in Created /\ i \in Invoices /\ StillHolds(i, reader.page[i])
      BY DEF ReaderInv, ReaderTypes, RowsFit, Created
    <3> QED
      BY <1>3, <1>4, <3>1 DEF StillHolds
  <2> QED
    BY <1>3, <2>1 DEF ReaderInv, RowsFit, Fits
<1>7. CursorDivides'
  <2>1. \A i \in Seen : i \in Created /\ number'[i] = number[i]
    BY <1>2 DEF ReaderInv, ReaderTypes, Seen
  <2>2. ASSUME GoesOn, reader.filter # {}, NEW i \in steady PROVE number'[i] = number[i]
    BY <1>2, <2>2 DEF ReaderInv, SteadyMatches, GoesOn
  <2> QED
    BY <2>1, <2>2 DEF ReaderInv, CursorDivides, Seen, GoesOn
<1>8. ListEnded' /\ PagesAreDisjoint'
  BY DEF ReaderInv, ListEnded, PagesAreDisjoint, Seen, GoesOn
<1>9. SteadyMatches'
  BY <1>2 DEF ReaderInv, SteadyMatches
<1> QED
  BY <1>5, <1>6, <1>7, <1>8, <1>9 DEF ReaderInv

\* A reader at rest, and one that has begun.
LEMMA NoReaderFields ==
    /\ NoReader.pc = "idle" /\ NoReader.filter = {} /\ NoReader.below = 0 /\ NoReader.more = FALSE
    /\ NoReader.left = {} /\ DOMAIN NoReader.page = {} /\ DOMAIN NoReader.shown = {}
BY DEF NoReader

\* The reader before the first row, or after the last page has been shown.
LEMMA EmptyReader ==
  ASSUME ReaderInv, UNCHANGED <<vars, number, reached>>,
         NEW pc \in {"idle", "page"}, NEW filter,
         reader' = [pc |-> pc, filter |-> filter, below |-> 0, more |-> FALSE,
                    page |-> <<>>, left |-> {}, shown |-> <<>>],
         pc = "page" => \A i \in steady' : i \in Created /\ status[i] \in filter
  PROVE  ReaderInv'
<1>1. /\ reader'.pc = pc /\ reader'.filter = filter /\ reader'.below = 0 /\ reader'.more = FALSE
      /\ reader'.left = {} /\ DOMAIN reader'.page = {} /\ DOMAIN reader'.shown = {}
  OBVIOUS
<1>2. Created' = Created
  BY DEF Created
<1>3. ReaderTypes'
  <2>1. reader' = [pc |-> reader'.pc, filter |-> reader'.filter, below |-> reader'.below,
                   more |-> reader'.more, page |-> reader'.page, left |-> reader'.left,
                   shown |-> reader'.shown]
    OBVIOUS
  <2>2. /\ reader'.pc \in {"idle", "page", "rest", "done"} /\ reader'.below \in Nat
        /\ reader'.left \subseteq {"paid", "history"}
    BY <1>1
  <2>4. reader'.more \in BOOLEAN
    BY <1>1, Zenon
  <2>3. DOMAIN reader'.page \subseteq Created' /\ DOMAIN reader'.shown \subseteq Created'
    BY <1>1
  <2> QED
    BY <2>1, <2>2, <2>3, <2>4, Zenon DEF ReaderTypes
<1>4. RowsFit'
  BY <1>1, <1>2 DEF ReaderInv, RowsFit, vars
<1>5. CursorDivides' /\ PagesAreDisjoint'
  BY <1>1 DEF CursorDivides, PagesAreDisjoint, Seen
<1>6. ListEnded'
  BY <1>1 DEF ListEnded, GoesOn
<1>7. SteadyMatches'
  BY <1>1, <1>2 DEF SteadyMatches, vars
<1> QED
  BY <1>3, <1>4, <1>5, <1>6, <1>7 DEF ReaderInv

\* What a status says of its invoice at the moment it is read.
LEMMA StatusIsRead ==
  ASSUME LifeInv, RowsFit, NEW i \in Created
  PROVE  LET r == [c \in FirstStatement |-> Column(c)[i]]
         IN  DOMAIN r = {"status"} /\ StillHolds(i, r) /\ Fits(i, r)
<1>1. PICK r : r = [c \in FirstStatement |-> Column(c)[i]]
  OBVIOUS
<1>2. Column("status") = status
  BY DEF Column
<1>3. DOMAIN r = {"status"} /\ r.status = status[i]
  BY <1>1, <1>2 DEF FirstStatement
<1>4. i \in Invoices /\ status[i] \in reached[i]
  BY DEF Created, RowsFit
<1>5. StillHolds(i, r)
  BY <1>3, <1>4 DEF StillHolds, LifeInv, TypeOK, StatusMatchesPaid
<1>6. Fits(i, r)
  BY <1>3 DEF Fits
<1> QED
  BY <1>1, <1>3, <1>5, <1>6

\* The first statement of getInvoice.
LEMMA SelectInvoiceKeeps ==
  ASSUME LifeInv, ReaderInv, UNCHANGED <<vars, number, reached>>,
         NEW i \in Created, SelectInvoice(i)
  PROVE  ReaderInv'
<1>1. /\ reader' = [pc |-> "rest", filter |-> {}, below |-> 0, more |-> FALSE,
                    page |-> Read({i}, FirstStatement), left |-> {"paid", "history"}, shown |-> <<>>]
  BY DEF SelectInvoice, NoReader, FirstStatement
<1>2. Created' = Created
  BY DEF Created
<1>3. PICK r : r = [c \in FirstStatement |-> Column(c)[i]]
  OBVIOUS
<1>4. /\ reader'.pc = "rest" /\ reader'.filter = {} /\ reader'.more = FALSE /\ reader'.below = 0
      /\ reader'.left = {"paid", "history"} /\ DOMAIN reader'.shown = {}
      /\ reader'.page = [j \in {i} |-> r]
  BY <1>1, <1>3 DEF Read
<1>5. DOMAIN r = {"status"} /\ StillHolds(i, r) /\ Fits(i, r)
  BY <1>3, StatusIsRead DEF ReaderInv
<1>6. ReaderTypes'
  BY <1>1, <1>2, <1>4 DEF ReaderTypes
<1>7. RowsFit'
  <2>1. StillHolds(i, r)'
    BY <1>5 DEF StillHolds, vars
  <2>2. DOMAIN reader'.page = {i} /\ reader'.page[i] = r
    BY <1>4
  <2>3. \A j \in Created : status'[j] \in reached'[j]
    BY DEF ReaderInv, RowsFit, vars
  <2> QED
    BY <1>2, <1>4, <1>5, <2>1, <2>2, <2>3 DEF RowsFit, Fits
<1>8. CursorDivides' /\ ListEnded' /\ PagesAreDisjoint' /\ SteadyMatches'
  BY <1>4 DEF CursorDivides, ListEnded, PagesAreDisjoint, SteadyMatches, GoesOn
<1> QED
  BY <1>6, <1>7, <1>8 DEF ReaderInv

\* A page of listInvoices: the rows below the cursor that match, from the top.
LEMMA SelectPageKeeps ==
  ASSUME Inv, LifeInv, ReaderInv, UNCHANGED <<vars, number, reached, steady>>, SelectPage
  PROVE  ReaderInv'
<1>1. PICK M, P :
        /\ M = {i \in Created : status[i] \in reader.filter /\ BelowCursor(i)}
        /\ P = {i \in M : Cardinality({j \in M : number[j] > number[i]}) < PageSize}
        /\ reader' = [reader EXCEPT
              !.pc = "rest", !.left = {"status", "paid"} \ FirstStatement,
              !.page = Read(P, FirstStatement),
              !.more = P # M,
              !.below = IF P = {} THEN @ ELSE NextCursor(P, M)]
  BY DEF SelectPage
<1>2. reader.pc = "page"
  BY DEF SelectPage
<1>3. PICK below : below = IF P = {} THEN reader.below ELSE NextCursor(P, M)
  OBVIOUS
<1>4. reader' = [pc |-> "rest", filter |-> reader.filter, below |-> below, more |-> P # M,
                 page |-> Read(P, FirstStatement), left |-> {"paid"}, shown |-> reader.shown]
  BY <1>1, <1>3 DEF ReaderInv, ReaderTypes, FirstStatement
<1>5. /\ reader'.pc = "rest" /\ reader'.filter = reader.filter /\ reader'.below = below
      /\ reader'.more = (P # M) /\ reader'.left = {"paid"} /\ reader'.shown = reader.shown
      /\ reader'.page = Read(P, FirstStatement)
  BY <1>4
<1>6. DOMAIN reader'.page = P
  BY <1>5 DEF Read
<1>7. Created' = Created /\ M \subseteq Created /\ P \subseteq M
  BY <1>1 DEF Created
<1>8. \A i \in Created : number[i] \in Nat
  BY DEF Inv, Types, Created
<1>9. below \in Nat /\ (P # {} => (\E p \in P : below = number[p]) /\ \A i \in P : below <= number[i])
  <2>1. CASE P = {}
    BY <1>3, <2>1 DEF ReaderInv, ReaderTypes
  <2>2. CASE P # {}
    <3>1. PICK S : S = {number[i] : i \in P}
      OBVIOUS
    <3>2. S \in SUBSET Nat /\ S # {}
      BY <1>7, <1>8, <2>2, <3>1
    <3>3. below = Min(S)
      BY <1>3, <2>2, <3>1 DEF NextCursor
    <3>4. Min(S) \in S /\ \A n \in S : Min(S) <= n
      BY <3>2, MinIsLeast
    <3>5. below \in S /\ \A n \in S : below <= n
      BY <3>3, <3>4
    <3> QED
      BY <3>1, <3>2, <3>5
  <2> QED
    BY <2>1, <2>2
<1>10. /\ \A i \in DOMAIN reader.shown : i \in Created /\ reader.below # 0 /\ number[i] >= reader.below
       /\ reader.filter # {} => \A i \in steady : reader.below # 0 /\ number[i] >= reader.below =>
                                    i \in DOMAIN reader.shown
       /\ reader.below \in Nat
  <2>1. DOMAIN reader.page = {}
    BY <1>2 DEF ReaderInv, PagesAreDisjoint
  <2> QED
    BY <1>2, <2>1 DEF ReaderInv, ReaderTypes, CursorDivides, GoesOn, Seen
<1>11. \A i \in M : reader.below = 0 \/ number[i] < reader.below
  BY <1>1 DEF BelowCursor
<1>12. ReaderTypes'
  BY <1>4, <1>5, <1>6, <1>7, <1>9 DEF ReaderInv, ReaderTypes
<1>13. RowsFit'
  <2>1. ASSUME NEW i \in P
        PROVE  /\ StillHolds(i, reader.page[i])'
               /\ Fits(i, reader.page[i])'
               /\ "paid" \in DOMAIN reader'.page[i] \cup reader'.left
    <3>1. PICK r : r = [c \in FirstStatement |-> Column(c)[i]]
      OBVIOUS
    <3>2. StillHolds(i, r) /\ Fits(i, r)
      BY <1>7, <3>1, StatusIsRead DEF ReaderInv
    <3>3. reader'.page[i] = r
      BY <1>5, <3>1 DEF Read
    <3>4. StillHolds(i, r)'
      BY <3>2 DEF StillHolds, vars
    <3>5. Fits(i, r)'
      BY <3>2 DEF Fits
    <3> QED
      BY <1>5, <3>3, <3>4, <3>5 DEF StillHolds, Fits
  <2>2. \A j \in Created : status'[j] \in reached'[j]
    BY DEF ReaderInv, RowsFit, vars
  <2>3. \A i \in DOMAIN reader'.shown :
          "paid" \in DOMAIN reader'.shown[i] /\ Fits(i, reader'.shown[i])
    BY <1>5 DEF ReaderInv, RowsFit
  <2> QED
    BY <1>6, <1>7, <2>1, <2>2, <2>3 DEF RowsFit, Fits
<1>14. PagesAreDisjoint'
  <2>1. \A i \in P : i \notin DOMAIN reader.shown
    BY <1>7, <1>8, <1>10, <1>11
  <2> QED
    BY <1>5, <1>6, <2>1 DEF PagesAreDisjoint
<1>15. SteadyMatches'
  BY <1>2, <1>5, <1>7 DEF ReaderInv, SteadyMatches, vars
<1>16. ASSUME reader.filter # {}, NEW i \in steady, i \notin DOMAIN reader.shown
       PROVE  i \in M
  <2>1. i \in Created /\ status[i] \in reader.filter
    BY <1>2, <1>16 DEF ReaderInv, SteadyMatches
  <2>2. reader.below = 0 \/ number[i] < reader.below
    BY <1>8, <1>10, <1>16, <2>1
  <2> QED
    BY <1>1, <2>1, <2>2 DEF BelowCursor
<1>17. CursorDivides'
  <2>1. \A i \in P \cup DOMAIN reader.shown : below # 0 /\ number[i] >= below
    <3>1. ASSUME NEW i \in P PROVE below # 0 /\ number[i] >= below
      <4>1. \A j \in P : number[j] > 0
        BY <1>7 DEF Created
      <4> QED
        BY <1>7, <1>8, <1>9, <4>1
    <3>2. ASSUME NEW i \in DOMAIN reader.shown PROVE below # 0 /\ number[i] >= below
      <4>1. CASE P = {}
        BY <1>3, <1>10, <4>1
      <4>2. CASE P # {}
        <5>1. PICK p \in P : below = number[p]
          BY <1>9, <4>2
        <5>2. number[p] < reader.below /\ number[p] > 0 /\ number[i] >= reader.below
          BY <1>7, <1>10, <1>11, <5>1 DEF Created
        <5>3. number[p] \in Nat /\ number[i] \in Nat /\ reader.below \in Nat
          BY <1>7, <1>8, <1>10
        <5> QED
          BY <5>1, <5>2, <5>3
      <4> QED
        BY <4>1, <4>2
    <3> QED
      BY <3>1, <3>2
  <2>2. ASSUME reader.filter # {}, NEW i \in steady, number[i] >= below, below # 0
        PROVE  i \in P \cup DOMAIN reader.shown
    <3>1. CASE i \in DOMAIN reader.shown
      BY <3>1
    <3>2. CASE i \notin DOMAIN reader.shown
      <4>1. i \in M
        BY <1>16, <2>2, <3>2
      <4>2. CASE P = {}
        BY <1>3, <1>10, <2>2, <4>2
      <4>3. CASE P # {}
        <5>1. PICK p \in P : below = number[p]
          BY <1>9, <4>3
        <5>2. IsFiniteSet(M) /\ \A m \in M : number[m] \in Nat
          BY <1>7, <1>8, CreatedIsFinite, FS_Subset
        <5>3. number[i] >= number[p]
          BY <2>2, <5>1
        <5>4. i \in P
          <6>1. P = {m \in M : Cardinality({j \in M : number[j] > number[m]}) < PageSize}
            BY <1>1
          <6> QED
            BY <4>1, <5>2, <5>3, <6>1, PageTakesTheTop
        <5> QED
          BY <5>4
      <4> QED
        BY <4>2, <4>3
    <3> QED
      BY <3>1, <3>2
  <2>3. Seen' = P \cup DOMAIN reader.shown
    BY <1>5, <1>6 DEF Seen
  <2> QED
    BY <1>5, <2>1, <2>2, <2>3 DEF CursorDivides
<1>18. ListEnded'
  <2>1. Seen' = P \cup DOMAIN reader.shown
    BY <1>5, <1>6 DEF Seen
  <2>2. ASSUME P = M, reader.filter # {} PROVE steady \subseteq Seen'
    BY <1>16, <2>1, <2>2
  <2> QED
    BY <1>5, <2>2 DEF ListEnded, GoesOn
<1> QED
  BY <1>12, <1>13, <1>14, <1>15, <1>17, <1>18 DEF ReaderInv

\* Row s is row r with column c, as it is now.
Completes(i, r, c, s) ==
    /\ DOMAIN s = DOMAIN r \cup {c}
    /\ \A d \in DOMAIN r : s[d] = r[d]
    /\ c \notin DOMAIN r => s[c] = Column(c)[i]

\* A statement that completes a row: what it reads fits the status that the
\* row already has, however old that is.
LEMMA ColumnFits ==
  ASSUME LifeInv, NEW i \in Created, NEW r, StillHolds(i, r), Fits(i, r),
         NEW c \in {"paid", "history"}, NEW s, Completes(i, r, c, s)
  PROVE  StillHolds(i, s) /\ Fits(i, s)
<1>3. /\ DOMAIN s = DOMAIN r \cup {c}
      /\ \A d \in DOMAIN r : s[d] = r[d]
      /\ c \notin DOMAIN r => s[c] = Column(c)[i]
  BY DEF Completes
<1>4. "status" \in DOMAIN r /\ s.status = r.status
  BY <1>3 DEF StillHolds
<1>5. StillHolds(i, s)
  BY <1>3, <1>4 DEF StillHolds
<1>6. /\ "paid" \in DOMAIN r => s.paid = r.paid
      /\ "history" \in DOMAIN r => s.history = r.history
  BY <1>3
<1>7. CASE c = "paid"
  <2>1. Column("paid") = paid
    BY DEF Column
  <2>2. "paid" \notin DOMAIN r => s.paid = paid[i]
    BY <1>3, <1>7, <2>1
  <2>3. i \in Invoices /\ paid[i] \in Nat /\ Total[i] \in Nat /\ Total[i] > 0
    BY TotalAssumption DEF Created, LifeInv, TypeOK
  <2>4. /\ paid[i] <= Total[i]
        /\ r.status = "PAID" => paid[i] = Total[i]
        /\ r.status = "VOID" => paid[i] = 0
        /\ r.status = "PARTIALLY_PAID" => paid[i] > 0
    BY <2>3 DEF StillHolds, LifeInv, StatusMatchesPaid
  <2>5. "history" \in DOMAIN s => "history" \in DOMAIN r
    BY <1>3, <1>7
  <2> QED
    BY <1>3, <1>4, <1>5, <1>6, <2>2, <2>4, <2>5 DEF Fits
<1>8. CASE c = "history"
  <2>1. Column("history") = reached
    BY DEF Column
  <2>2. "history" \notin DOMAIN r => s.history = reached[i]
    BY <1>3, <1>8, <2>1
  <2>3. r.status \in reached[i]
    BY DEF StillHolds
  <2>4. "paid" \in DOMAIN s => "paid" \in DOMAIN r
    BY <1>3, <1>8
  <2> QED
    BY <1>3, <1>4, <1>5, <1>6, <2>2, <2>3, <2>4 DEF Fits
<1> QED
  BY <1>7, <1>8

\* The sums of listInvoices, the payments and the history of getInvoice.
LEMMA SelectColumnKeeps ==
  ASSUME LifeInv, ReaderInv, UNCHANGED <<vars, number, reached, steady>>,
         NEW c \in reader.left, SelectColumn(c)
  PROVE  ReaderInv'
<1>1. PICK full : full = [i \in DOMAIN reader.page |->
                            Over(reader.page[i], [d \in {c} |-> Column(c)[i]])]
  OBVIOUS
<1>2. /\ reader.pc = "rest"
      /\ reader' = IF reader.left # {c}
                   THEN [reader EXCEPT !.page = full, !.left = @ \ {c}]
                   ELSE [reader EXCEPT !.page = <<>>, !.left = {}, !.shown = Over(@, full),
                                       !.pc = IF reader.more THEN "page" ELSE "done"]
  BY <1>1 DEF SelectColumn
<1>3. Created' = Created
  BY DEF Created
<1>4. c \in {"paid", "history"}
  BY DEF ReaderInv, ReaderTypes
<1>5. DOMAIN full = DOMAIN reader.page
  BY <1>1
<1>6. ASSUME NEW i \in DOMAIN full
      PROVE  /\ i \in Created
             /\ StillHolds(i, full[i]) /\ StillHolds(i, full[i])'
             /\ Fits(i, full[i]) /\ Fits(i, full[i])'
             /\ "paid" \in DOMAIN full[i] \cup (reader.left \ {c})
  <2>1. PICK r, s : r = reader.page[i] /\ s = full[i]
    OBVIOUS
  <2>2. i \in Created /\ StillHolds(i, r) /\ Fits(i, r) /\ "paid" \in DOMAIN r \cup reader.left
    BY <1>5, <2>1 DEF ReaderInv, ReaderTypes, RowsFit
  <2>3. PICK e : e = [d \in {c} |-> Column(c)[i]]
    OBVIOUS
  <2>4. StillHolds(i, s) /\ Fits(i, s) /\ DOMAIN s = DOMAIN r \cup {c}
    <3>1. s = Over(r, e) /\ DOMAIN e = {c} /\ e[c] = Column(c)[i]
      BY <1>1, <1>5, <2>1, <2>3
    <3>2. Completes(i, r, c, s)
      BY <3>1 DEF Over, Completes
    <3>3. DOMAIN s = DOMAIN r \cup {c}
      BY <3>2 DEF Completes
    <3>4. i \in Created /\ StillHolds(i, r) /\ Fits(i, r)
      BY <2>2
    <3> QED
      BY <1>4, <3>2, <3>3, <3>4, ColumnFits
  <2>5. StillHolds(i, s)' /\ Fits(i, s)'
    BY <2>4 DEF StillHolds, Fits, vars
  <2>6. s' = s
    OBVIOUS
  <2>7. /\ StillHolds(i, full[i]) /\ StillHolds(i, full[i])'
        /\ Fits(i, full[i]) /\ Fits(i, full[i])'
    BY <2>1, <2>4, <2>5 DEF StillHolds, Fits
  <2>8. "paid" \in DOMAIN full[i] \cup (reader.left \ {c})
    BY <2>1, <2>2, <2>4
  <2> QED
    BY <2>2, <2>7, <2>8
<1>7. \A j \in Created' : status'[j] \in reached'[j]
  BY <1>3 DEF ReaderInv, RowsFit, vars
<1>8. \A i \in DOMAIN reader.shown : "paid" \in DOMAIN reader.shown[i] /\ Fits(i, reader.shown[i])
  BY DEF ReaderInv, RowsFit
<1>9. DOMAIN reader.page \cap DOMAIN reader.shown = {}
  BY DEF ReaderInv, PagesAreDisjoint
<1>10. CASE reader.left # {c}
  <2>1. reader' = [pc |-> "rest", filter |-> reader.filter, below |-> reader.below,
                   more |-> reader.more, page |-> full, left |-> reader.left \ {c},
                   shown |-> reader.shown]
    BY <1>2, <1>10 DEF ReaderInv, ReaderTypes
  <2>2. /\ reader'.pc = "rest" /\ reader'.filter = reader.filter /\ reader'.below = reader.below
        /\ reader'.more = reader.more /\ reader'.page = full
        /\ reader'.left = reader.left \ {c} /\ reader'.shown = reader.shown
    BY <2>1
  <2>3. ReaderTypes'
    BY <1>3, <1>5, <2>1, <2>2 DEF ReaderInv, ReaderTypes
  <2>4. RowsFit'
    <3>1. ASSUME NEW i \in DOMAIN reader'.page
          PROVE  /\ StillHolds(i, reader.page[i])' /\ Fits(i, reader.page[i])'
                 /\ "paid" \in DOMAIN reader'.page[i] \cup reader'.left
      BY <1>6, <2>2 DEF StillHolds, Fits
    <3> QED
      BY <1>7, <1>8, <2>2, <3>1 DEF RowsFit, Fits
  <2>5. Seen' = Seen /\ GoesOn' = GoesOn
    BY <1>2, <1>5, <2>2 DEF Seen, GoesOn
  <2>6. CursorDivides' /\ ListEnded'
    BY <1>2, <2>2, <2>5 DEF ReaderInv, CursorDivides, ListEnded
  <2>7. PagesAreDisjoint' /\ SteadyMatches'
    BY <1>2, <1>3, <1>5, <1>9, <2>2 DEF ReaderInv, PagesAreDisjoint, SteadyMatches, vars
  <2> QED
    BY <2>3, <2>4, <2>6, <2>7 DEF ReaderInv
<1>11. CASE reader.left = {c}
  <2>0. PICK shown, pc : /\ shown = Over(reader.shown, full)
                         /\ pc = IF reader.more THEN "page" ELSE "done"
    OBVIOUS
  <2>1. reader' = [pc |-> pc, filter |-> reader.filter, below |-> reader.below,
                   more |-> reader.more, page |-> <<>>, left |-> {}, shown |-> shown]
    BY <1>2, <1>11, <2>0 DEF ReaderInv, ReaderTypes
  <2>2. /\ reader'.pc = pc /\ reader'.filter = reader.filter /\ reader'.below = reader.below
        /\ reader'.more = reader.more /\ DOMAIN reader'.page = {}
        /\ reader'.left = {} /\ reader'.shown = shown
    BY <2>1
  <2>3. /\ DOMAIN shown = DOMAIN reader.shown \cup DOMAIN full
        /\ \A i \in DOMAIN reader.shown : shown[i] = reader.shown[i]
        /\ \A i \in DOMAIN full : shown[i] = full[i]
    BY <1>5, <1>9, <2>0 DEF Over
  <2>4. pc \in {"page", "done"} /\ (pc = "page" <=> reader.more)
    BY <2>0
  <2>5. ReaderTypes'
    BY <1>3, <1>5, <2>1, <2>2, <2>3, <2>4 DEF ReaderInv, ReaderTypes
  <2>6. RowsFit'
    <3>1. ASSUME NEW i \in DOMAIN shown
          PROVE  "paid" \in DOMAIN shown[i] /\ Fits(i, shown[i])
      <4>1. CASE i \in DOMAIN reader.shown
        BY <1>8, <2>3, <4>1
      <4>2. CASE i \in DOMAIN full
        BY <1>6, <1>11, <2>3, <4>2
      <4> QED
        BY <2>3, <4>1, <4>2
    <3> QED
      BY <1>7, <2>2, <3>1 DEF RowsFit, Fits
  <2>7. Seen' = Seen /\ (GoesOn' <=> GoesOn)
    BY <1>2, <1>5, <2>2, <2>3, <2>4 DEF Seen, GoesOn
  <2>8. CursorDivides' /\ ListEnded'
    BY <1>2, <2>2, <2>7 DEF ReaderInv, CursorDivides, ListEnded
  <2>9. PagesAreDisjoint' /\ SteadyMatches'
    BY <1>2, <1>3, <2>2 DEF ReaderInv, PagesAreDisjoint, SteadyMatches, vars
  <2> QED
    BY <2>5, <2>6, <2>8, <2>9 DEF ReaderInv
<1> QED
  BY <1>10, <1>11

\* Every step of the specification.
LEMMA ReaderNext ==
  Inv /\ LifeInv /\ ReaderInv /\ [BookNext]_bookVars => LifeInv' /\ ReaderInv'
<1> SUFFICES ASSUME Inv, LifeInv, ReaderInv, [BookNext]_bookVars PROVE LifeInv' /\ ReaderInv'
  OBVIOUS
<1>1. LifeInv'
  <2>1. [Next]_vars
    BY DEF BookNext, CreateStep, LifeStep, Next, Created, bookVars
  <2> QED
    BY <2>1, LifeNext
<1>2. CASE UNCHANGED bookVars
  <2>1. /\ UNCHANGED <<status, paid, number, reached, reader, steady>>
        /\ Created' = Created
    BY <1>2 DEF bookVars, vars, creation, Created
  <2>2. ReaderTypes' /\ PagesAreDisjoint' /\ SteadyMatches'
    BY <2>1 DEF ReaderInv, ReaderTypes, PagesAreDisjoint, SteadyMatches
  <2>3. RowsFit'
    BY <2>1 DEF ReaderInv, RowsFit, StillHolds, Fits
  <2>4. CursorDivides' /\ ListEnded'
    BY <2>1 DEF ReaderInv, CursorDivides, ListEnded, Seen, GoesOn
  <2> QED
    BY <1>1, <2>2, <2>3, <2>4 DEF ReaderInv
<1>3. CASE (CreateStep \/ LifeStep) /\ Recorded /\ UNCHANGED reader
           /\ steady' = {i \in steady : status'[i] \in reader.filter}
  BY <1>1, <1>3, WritesKeepReader
<1>4. ASSUME NEW f \in Filters, StartList(f), UNCHANGED <<vars, creation, reached>>
      PROVE  ReaderInv'
  <2>1. /\ reader' = [pc |-> "page", filter |-> f, below |-> 0, more |-> FALSE,
                      page |-> <<>>, left |-> {}, shown |-> <<>>]
        /\ steady' = {i \in Created : status[i] \in f}
        /\ UNCHANGED <<vars, number, reached>>
    BY <1>4 DEF StartList, NoReader, creation
  <2> QED
    BY <2>1, EmptyReader
<1>5. ASSUME NEW i \in Created, SelectInvoice(i), UNCHANGED <<vars, creation, reached>>
      PROVE  ReaderInv'
  BY <1>5, SelectInvoiceKeeps DEF creation
<1>6. ASSUME SelectPage, UNCHANGED <<vars, creation, reached, steady>> PROVE ReaderInv'
  BY <1>6, SelectPageKeeps DEF creation
<1>7. ASSUME NEW c \in reader.left, SelectColumn(c), UNCHANGED <<vars, creation, reached, steady>>
      PROVE  ReaderInv'
  BY <1>7, SelectColumnKeeps DEF creation
<1>8. ASSUME CloseReader, UNCHANGED <<vars, creation, reached>> PROVE ReaderInv'
  <2>1. reader' = [pc |-> "idle", filter |-> {}, below |-> 0, more |-> FALSE,
                   page |-> <<>>, left |-> {}, shown |-> <<>>]
    BY <1>8 DEF CloseReader, NoReader
  <2>2. UNCHANGED <<vars, number, reached>>
    BY <1>8 DEF creation
  <2> QED
    BY <2>1, <2>2, EmptyReader
<1> QED
  BY <1>1, <1>2, <1>3, <1>4, <1>5, <1>6, <1>7, <1>8 DEF BookNext, ReaderStep

\* Nobody reads.
LEMMA ReaderInit == BookInit => LifeInv /\ ReaderInv
<1> SUFFICES ASSUME BookInit PROVE LifeInv /\ ReaderInv
  OBVIOUS
<1>1. LifeInv
  BY LifeInit DEF BookInit
<1>2. Created = {} /\ reader = NoReader
  BY DEF BookInit, Created
<1>3. reader = [pc |-> reader.pc, filter |-> reader.filter, below |-> reader.below,
                more |-> reader.more, page |-> reader.page, left |-> reader.left,
                shown |-> reader.shown]
  BY <1>2 DEF NoReader
<1>4. ReaderTypes
  <2>1. /\ reader.pc \in {"idle", "page", "rest", "done"} /\ reader.below \in Nat
        /\ reader.left \subseteq {"paid", "history"}
        /\ DOMAIN reader.page \subseteq Created /\ DOMAIN reader.shown \subseteq Created
    BY <1>2, NoReaderFields
  <2>2. reader.more \in BOOLEAN
    BY <1>2, NoReaderFields, Zenon
  <2> QED
    BY <1>3, <2>1, <2>2, Zenon DEF ReaderTypes
<1>5. RowsFit
  BY <1>2, NoReaderFields DEF RowsFit
<1>6. CursorDivides /\ ListEnded /\ PagesAreDisjoint /\ SteadyMatches
  BY <1>2, NoReaderFields DEF CursorDivides, ListEnded, PagesAreDisjoint, SteadyMatches, GoesOn
<1> QED
  BY <1>1, <1>4, <1>5, <1>6 DEF ReaderInv

\* The invariants of the life cycle and of its readers.
LEMMA ReaderInvAlways == BookSpec => [](LifeInv /\ ReaderInv)
BY InitInv, NextInv, ReaderInit, ReaderNext, PTL DEF BookSpec

\* getInvoice and listInvoices: what several statements have read fits
\* together, for any invoices and whatever is committed between the statements.
THEOREM ShownAlwaysConsistent == BookSpec => []ShownIsConsistent
<1>1. ReaderInv => ShownIsConsistent
  BY DEF ReaderInv, RowsFit, Fits, ShownIsConsistent
<1> QED
  BY <1>1, ReaderInvAlways, PTL

\* listInvoices: a walk to the end has shown all that matched all along, and
\* shows no invoice twice, for any page size, filter and number of invoices.
THEOREM ListAlwaysComplete == BookSpec => []ListIsComplete
<1>1. ReaderInv => ListIsComplete
  BY DEF ReaderInv, ListEnded, PagesAreDisjoint, ListIsComplete, Seen, GoesOn
<1> QED
  BY <1>1, ReaderInvAlways, PTL

-----------------------------------------------------------------------------
(* The lists of documents and entries (Pagination) *)

\* The types, and that rows are finitely many.
WalkTypes ==
    /\ list \in {"documents", "entries"}
    /\ walk \in {"idle", "walking", "done"}
    /\ rows \in SUBSET Row
    /\ listed \in SUBSET Row
    /\ lasting \subseteq rows
    /\ IsFiniteSet(rows)
    /\ \A r \in rows : Possible(r)

\* The cursor divides the rows: what has been listed is not below it, and what
\* lasts and has not been listed is.
WalkDivides ==
    /\ walk = "idle" => cursor = {} /\ listed = {}
    /\ walk = "walking" =>
          \E c \in Row :
              /\ cursor = {c}
              /\ \A r \in listed : r = c \/ Before(c, r)
              /\ \A r \in lasting : r \in listed \/ Before(r, c)

WalkInv == WalkTypes /\ WalkDivides /\ WalkIsComplete /\ WalkShowsOnce

-----------------------------------------------------------------------------
\* No rows, and no walk.
LEMMA WalkInit == PageInit => WalkInv
<1> SUFFICES ASSUME PageInit PROVE WalkInv
  OBVIOUS
<1>1. IsFiniteSet(rows)
  BY FS_EmptySet DEF PageInit
<1> QED
  BY <1>1 DEF PageInit, WalkInv, WalkTypes, WalkDivides, WalkIsComplete, WalkShowsOnce

\* (created_at, id) orders rows totally.
LEMMA RowOrder ==
    /\ \A r \in Row : ~Before(r, r)
    /\ \A r, s \in Row : r = s \/ Before(r, s) \/ Before(s, r)
    /\ \A r, s \in Row : ~(Before(r, s) /\ Before(s, r))
    /\ \A r, s, t \in Row : Before(r, s) /\ Before(s, t) => Before(r, t)
<1>1. \A r \in Row : r.time \in Nat /\ r.id \in Nat
  BY PaginationAssumption DEF Row
<1>2. \A r, s \in Row : r.time = s.time /\ r.id = s.id => r = s
  BY DEF Row
<1> QED
  BY <1>1, <1>2 DEF Before

Oldest(T, r) == r \in T /\ \A s \in T : s = r \/ Before(r, s)
Newest(T, r) == r \in T /\ \A s \in T : s = r \/ Before(s, r)

\* Of finitely many rows one is the newest and one the oldest.
LEMMA EndsExist ==
  ASSUME NEW S \in SUBSET Row, IsFiniteSet(S), S # {}
  PROVE  (\E r \in S : Oldest(S, r)) /\ \E r \in S : Newest(S, r)
<1> DEFINE P == {T \in SUBSET S : T = {} \/ ((\E r \in T : Oldest(T, r)) /\ \E r \in T : Newest(T, r))}
<1>1. {} \in P
  OBVIOUS
<1>2. ASSUME NEW T \in SUBSET S, NEW x \in S \ T, T \in P
      PROVE  T \cup {x} \in P
  <2>1. PICK U : U = T \cup {x}
    OBVIOUS
  <2>2. x \in Row /\ x \in U /\ \A r \in T : r \in Row /\ r \in U
    BY <2>1
  <2>3. CASE T = {}
    <3>1. Oldest(U, x) /\ Newest(U, x)
      BY <2>1, <2>3 DEF Oldest, Newest
    <3> QED
      BY <2>1, <2>2, <3>1
  <2>4. CASE T # {}
    <3>1. PICK r \in T : Oldest(T, r)
      BY <1>2, <2>4
    <3>2. PICK s \in T : Newest(T, s)
      BY <1>2, <2>4
    <3>3. \E t \in U : Oldest(U, t)
      <4>1. CASE Before(x, r)
        <5>1. Oldest(U, x)
          BY <2>1, <2>2, <3>1, <4>1, RowOrder DEF Oldest
        <5> QED
          BY <2>2, <5>1
      <4>2. CASE x = r \/ Before(r, x)
        <5>1. Oldest(U, r)
          BY <2>1, <2>2, <3>1, <4>2 DEF Oldest
        <5> QED
          BY <2>2, <5>1
      <4> QED
        BY <2>2, <4>1, <4>2, RowOrder
    <3>4. \E t \in U : Newest(U, t)
      <4>1. CASE Before(s, x)
        <5>1. Newest(U, x)
          BY <2>1, <2>2, <3>2, <4>1, RowOrder DEF Newest
        <5> QED
          BY <2>2, <5>1
      <4>2. CASE x = s \/ Before(x, s)
        <5>1. Newest(U, s)
          BY <2>1, <2>2, <3>2, <4>2 DEF Newest
        <5> QED
          BY <2>2, <5>1
      <4> QED
        BY <2>2, <4>1, <4>2, RowOrder
    <3> QED
      BY <2>1, <3>3, <3>4
  <2> QED
    BY <2>3, <2>4
<1> HIDE DEF P
<1>3. SUBSET S \subseteq P
  BY <1>1, <1>2, InsertInduction
<1>4. S \in P
  BY <1>3
<1> QED
  BY <1>4 DEF P

Top(M) == {r \in M : Cardinality({s \in M : Before(r, s)}) < Limit}

\* The page is the top of what matches: not empty, and above all it leaves.
LEMMA PageIsTheTop ==
  ASSUME NEW M \in SUBSET Row, IsFiniteSet(M), M # {}
  PROVE  /\ Top(M) # {} /\ IsFiniteSet(Top(M))
         /\ \A p \in Top(M), r \in M \ Top(M) : Before(r, p)
<1>1. PICK r \in M : Newest(M, r)
  BY EndsExist
<1>2. r \in Top(M)
  <2>1. {s \in M : Before(r, s)} = {}
    <3>1. ASSUME NEW s \in M PROVE ~Before(r, s)
      BY <1>1, RowOrder DEF Newest
    <3> QED
      BY <3>1
  <2> QED
    BY <2>1, FS_EmptySet, PaginationAssumption DEF Top
<1>3. IsFiniteSet(Top(M))
  BY FS_Subset DEF Top
<1>4. ASSUME NEW p \in Top(M), NEW q \in M \ Top(M), ~Before(q, p)
      PROVE  FALSE
  <2>1. PICK A, B : A = {s \in M : Before(q, s)} /\ B = {s \in M : Before(p, s)}
    OBVIOUS
  <2>2. A \subseteq B
    <3>1. p \in M /\ (q = p \/ Before(p, q))
      BY <1>4, RowOrder DEF Top
    <3> QED
      BY <2>1, <3>1, RowOrder
  <2>3. IsFiniteSet(A) /\ IsFiniteSet(B) /\ Cardinality(A) <= Cardinality(B)
    BY <2>1, <2>2, FS_Subset
  <2>4. Cardinality(A) \in Nat /\ Cardinality(B) \in Nat
    BY <2>3, FS_CardinalityType
  <2>5. Cardinality(B) < Limit
    BY <2>1 DEF Top
  <2>6. ~(Cardinality(A) < Limit)
    BY <1>4, <2>1 DEF Top
  <2> QED
    BY <2>3, <2>4, <2>5, <2>6, PaginationAssumption
<1> QED
  BY <1>2, <1>3, <1>4

\* A cursor names its row: documents are carried to the microsecond, and the
\* times of entries are whole milliseconds.
LEMMA CursorIsExact ==
  ASSUME NEW r \in Row, Possible(r), list = "documents" \/ list = "entries"
  PROVE  CursorOf(r) = {r}
<1>1. CASE list = "documents"
  BY <1>1 DEF CursorOf, encodeCursor
<1>2. CASE list = "entries"
  <2>1. PICK t \in Nat, m \in Nat \ {0} : t = r.time /\ m = MS
    BY PaginationAssumption DEF Row
  <2>2. t % m = 0
    BY <1>2, <2>1 DEF Possible
  <2>3. m * (t \div m) = t
    BY <2>2
  <2>4. [r EXCEPT !.time = t] = r
    BY <2>1 DEF Row
  <2> QED
    BY <1>2, <2>1, <2>3, <2>4 DEF CursorOf, encodeCursor
<1> QED
  BY <1>1, <1>2

\* A page, and the cursor of the next one.
LEMMA NextPageKeepsWalk ==
  ASSUME WalkInv, NextPage
  PROVE  WalkInv'
<1>1. PICK M, P : M = Below(cursor) /\ P = Top(M)
  OBVIOUS
<1>2. /\ walk # "done"
      /\ listed' = listed \cup P
      /\ repeated' = (repeated \/ P \cap listed # {})
      /\ cursor' = IF P # M THEN CursorOf(CHOOSE r \in P : \A s \in P : s = r \/ Before(r, s))
                            ELSE {}
      /\ walk' = IF P # M THEN "walking" ELSE "done"
      /\ lasting' = IF walk = "idle" THEN rows ELSE lasting
      /\ UNCHANGED <<list, rows, inserts>>
  BY <1>1 DEF NextPage, Top
<1>3. M \in SUBSET Row /\ M \subseteq rows /\ IsFiniteSet(M) /\ P \subseteq M
  <2>1. M \subseteq rows
    BY <1>1 DEF Below
  <2>2. IsFiniteSet(M)
    BY <2>1, FS_Subset DEF WalkInv, WalkTypes
  <2> QED
    BY <1>1, <2>1, <2>2 DEF WalkInv, WalkTypes, Top
<1>4. WalkTypes'
  BY <1>2, <1>3 DEF WalkInv, WalkTypes, Possible
<1>5. lasting' \subseteq rows
  BY <1>2 DEF WalkInv, WalkTypes
<1>6. \A r \in listed : r \notin M
  <2>1. CASE walk = "idle"
    BY <2>1 DEF WalkInv, WalkDivides
  <2>2. CASE walk = "walking"
    <3>1. PICK c \in Row : cursor = {c} /\ \A r \in listed : r = c \/ Before(c, r)
      BY <2>2 DEF WalkInv, WalkDivides
    <3>2. \A r \in M : r \in Row /\ Before(r, c)
      BY <1>1, <1>3, <3>1 DEF Below
    <3> QED
      BY <3>1, <3>2, RowOrder
  <2> QED
    BY <1>2, <2>1, <2>2 DEF WalkInv, WalkTypes
<1>7. \A r \in lasting' : r \in listed \/ r \in M
  <2>1. CASE walk = "idle"
    <3>1. cursor = {} /\ lasting' = rows
      BY <1>2, <2>1 DEF WalkInv, WalkDivides
    <3> QED
      BY <1>1, <3>1 DEF Below
  <2>2. CASE walk = "walking"
    <3>1. PICK c \in Row : cursor = {c} /\ \A r \in lasting : r \in listed \/ Before(r, c)
      BY <2>2 DEF WalkInv, WalkDivides
    <3>2. lasting' = lasting
      BY <1>2, <2>2
    <3> QED
      BY <1>1, <1>5, <3>1, <3>2 DEF Below
  <2> QED
    BY <1>2, <2>1, <2>2 DEF WalkInv, WalkTypes
<1>8. WalkShowsOnce'
  BY <1>2, <1>3, <1>6 DEF WalkInv, WalkShowsOnce
<1>9. CASE P = M
  BY <1>2, <1>4, <1>7, <1>8, <1>9 DEF WalkInv, WalkDivides, WalkIsComplete
<1>10. CASE P # M
  <2>1. PICK c : c = CHOOSE r \in P : \A s \in P : s = r \/ Before(r, s)
    OBVIOUS
  <2>2. P # {} /\ IsFiniteSet(P) /\ \A p \in P, r \in M \ P : Before(r, p)
    <3>1. M # {}
      BY <1>3, <1>10
    <3> QED
      BY <1>1, <1>3, <3>1, PageIsTheTop
  <2>3. c \in P /\ \A s \in P : s = c \/ Before(c, s)
    <3>1. \E r \in P : \A s \in P : s = r \/ Before(r, s)
      BY <1>3, <2>2, EndsExist DEF Oldest
    <3> QED
      BY <2>1, <3>1
  <2>4. c \in Row /\ c \in M /\ Possible(c)
    BY <1>3, <2>3 DEF WalkInv, WalkTypes
  <2>5. cursor' = {c}
    <3>1. list = "documents" \/ list = "entries"
      BY DEF WalkInv, WalkTypes
    <3>2. cursor' = CursorOf(c)
      BY <1>2, <1>10, <2>1
    <3> QED
      BY <2>4, <3>1, <3>2, CursorIsExact
  <2>6. \A r \in listed' : r = c \/ Before(c, r)
    <3>1. ASSUME NEW r \in listed PROVE Before(c, r)
      <4>1. walk = "walking"
        BY <1>2, <3>1 DEF WalkInv, WalkTypes, WalkDivides
      <4>2. PICK d \in Row : cursor = {d} /\ (r = d \/ Before(d, r))
        BY <3>1, <4>1 DEF WalkInv, WalkDivides
      <4>3. Before(c, d) /\ r \in Row
        BY <1>1, <2>4, <4>2 DEF Below, WalkInv, WalkTypes
      <4> QED
        BY <2>4, <4>2, <4>3, RowOrder
    <3> QED
      BY <1>2, <2>3, <3>1
  <2>7. \A r \in lasting' : r \in listed' \/ Before(r, c)
    BY <1>2, <1>7, <2>2, <2>3
  <2>8. walk' = "walking"
    BY <1>2, <1>10
  <2>9. WalkDivides'
    BY <2>4, <2>5, <2>6, <2>7, <2>8 DEF WalkDivides
  <2> QED
    BY <1>4, <1>8, <2>8, <2>9 DEF WalkInv, WalkIsComplete
<1> QED
  BY <1>9, <1>10

\* Rows that come and go between the pages.
LEMMA RowsKeepWalk ==
  ASSUME WalkInv, NEW r \in Row, Insert(r) \/ Remove(r)
  PROVE  WalkInv'
<1>1. UNCHANGED <<list, cursor, walk, listed, repeated>> /\ lasting' \subseteq lasting
  BY DEF Insert, Remove, walkVars
<1>2. WalkTypes'
  <2>1. CASE Insert(r)
    <3>1. IsFiniteSet(rows')
      BY <2>1, FS_AddElement DEF Insert, WalkInv, WalkTypes
    <3> QED
      BY <1>1, <2>1, <3>1 DEF Insert, WalkInv, WalkTypes, Possible
  <2>2. CASE Remove(r)
    <3>1. IsFiniteSet(rows')
      BY <2>2, FS_RemoveElement DEF Remove, WalkInv, WalkTypes
    <3> QED
      BY <1>1, <2>2, <3>1 DEF Remove, WalkInv, WalkTypes, Possible
  <2> QED
    BY <2>1, <2>2
<1>3. WalkDivides'
  BY <1>1 DEF WalkInv, WalkDivides
<1>4. WalkIsComplete' /\ WalkShowsOnce'
  BY <1>1 DEF WalkInv, WalkIsComplete, WalkShowsOnce
<1> QED
  BY <1>2, <1>3, <1>4 DEF WalkInv

\* Every step of the specification.
LEMMA WalkNext == WalkInv /\ [PageNext]_pageVars => WalkInv'
<1> SUFFICES ASSUME WalkInv, [PageNext]_pageVars PROVE WalkInv'
  OBVIOUS
<1>1. CASE UNCHANGED pageVars
  BY <1>1 DEF pageVars, walkVars, WalkInv, WalkTypes, Possible, WalkDivides, WalkIsComplete, WalkShowsOnce
<1> QED
  BY <1>1, NextPageKeepsWalk, RowsKeepWalk DEF PageNext

\* The invariant of every behaviour.
LEMMA WalkInvAlways == PageSpec => []WalkInv
BY WalkInit, WalkNext, PTL DEF PageSpec

\* lib/cursor.js with listDocuments and listEntries: a walk to the end has
\* shown every row that was there all along, for any rows, times and page size.
THEOREM WalkAlwaysComplete == PageSpec => []WalkIsComplete
BY WalkInvAlways, PTL DEF WalkInv

\* No row is on two pages, whatever is inserted or removed between them.
THEOREM WalkAlwaysShowsOnce == PageSpec => []WalkShowsOnce
BY WalkInvAlways, PTL DEF WalkInv
=============================================================================
