------------------------------- MODULE Ledger -------------------------------
(***************************************************************************)
(* modules/ledger/ledger.service.js over PostgreSQL at READ COMMITTED.     *)
(*                                                                         *)
(* A poster is a request that runs createJournalEntryTx in a transaction:  *)
(* POST /api/ledger/entries, or the issue of an invoice, which posts under *)
(* the key invoice-issue:<id> and so shares its key space with the keys of *)
(* clients.  One tenant and one invoice.                                   *)
(***************************************************************************)
EXTENDS Integers, Sequences, FiniteSetsExt

CONSTANTS
    Posters,      \* concurrent requests
    ClientKeys,   \* Idempotency-Key values of clients
    IssueKey,     \* invoice-issue:<id>, which a client may use too
    Bodies,       \* bodies of clients' entries: lines, occurred_at, description
    IssueBody,    \* the entry of the invoice, which a client may post too
    Chart,        \* accounts that may be created, with type and currency
    MaxLost,      \* bound: transactions that end with their connection
    NoEntry

ASSUME LedgerAssumption ==
    /\ MaxLost \in Nat
    /\ NoEntry \notin Nat
    \* amountMinor is an integer (ledger.schema.js).
    /\ \A body \in Bodies \cup {IssueBody} :
          /\ IsFiniteSet(DOMAIN body.lines)
          /\ \A n \in DOMAIN body.lines : body.lines[n].amount \in Int

Keys == ClientKeys \cup {IssueKey}

IssueRequest == [op |-> "issue", key |-> IssueKey, body |-> IssueBody]

Posting == [op: {"post"}, key: Keys, body: Bodies] \cup {IssueRequest}

VARIABLES
    entries,       \* journal_entries with their entry_lines, in commit order
    accounts,      \* accounts of the tenant
    invoiceEntry,  \* invoices.issue_journal_entry_id: a position in entries
    posting,       \* the request of a poster
    stage,         \* the statement it executes next, or what it was answered
    found,         \* the entry an issue has been given as its own
    lost

ledgerVars == <<entries, accounts, invoiceEntry, posting, stage, found, lost>>

Answered == {"idle", "created", "replayed", "refused"}

LedgerInit ==
    /\ entries = <<>>
    /\ accounts = {}
    /\ invoiceEntry = NoEntry
    /\ posting = [p \in Posters |-> IssueRequest]
    /\ stage = [p \in Posters |-> "idle"]
    /\ found = [p \in Posters |-> NoEntry]
    /\ lost = 0

-----------------------------------------------------------------------------
SumOfLines(lines) ==
    SumFunctionOnSet([n \in DOMAIN lines |-> lines[n].amount], DOMAIN lines)

AccountsOf(body) == {body.lines[n].account : n \in DOMAIN body.lines}

\* p has inserted an entry under key k and has not committed it.
HoldsEntryKey(p, k) == stage[p] \in {"check", "commit"} /\ posting[p].key = k

\* SELECT ... FOR UPDATE on the invoice.
HoldsInvoice(p) ==
    posting[p].op = "issue" /\ stage[p] \in {"insert", "check", "commit", "adopt"}

Goes(p, next) ==
    /\ stage' = [stage EXCEPT ![p] = next]
    /\ UNCHANGED posting

createAccount(a) ==
    /\ a \notin accounts
    /\ accounts' = accounts \cup {a}
    /\ UNCHANGED <<entries, invoiceEntry, posting, stage, found, lost>>

\* A request: an entry that does not balance is refused before any statement.
StartPosting(p, r) ==
    /\ stage[p] \in Answered
    /\ posting' = [posting EXCEPT ![p] = r]
    /\ stage' = [stage EXCEPT ![p] =
                    IF SumOfLines(r.body.lines) # 0 THEN "refused"
                    ELSE IF r.op = "issue" THEN "lock" ELSE "insert"]
    /\ UNCHANGED <<entries, accounts, invoiceEntry, found, lost>>

\* issueInvoice: the row lock, then assertTransition.
LockIssue(p) ==
    /\ stage[p] = "lock"
    /\ \A q \in Posters : ~HoldsInvoice(q)
    /\ Goes(p, IF invoiceEntry = NoEntry THEN "insert" ELSE "refused")
    /\ UNCHANGED <<entries, accounts, invoiceEntry, found, lost>>

\* Mutation: the key alone makes a request a repetition.
SameRequest_AnyBody(r, e) == r.key = e.key

\* Mutation: the fingerprint leaves occurredAt out.
SameRequest_Lines(r, e) == r.body.lines = e.body.lines

\* The fingerprint is taken of the whole body.
SameRequest(r, e) == r.body = e.body

\* Mutation: the key is looked up before the INSERT, which does not wait.
InsertEntry_SelectFirst(p) ==
    LET used == {n \in DOMAIN entries : entries[n].key = posting[p].key} IN
    /\ stage[p] = "insert"
    /\ Goes(p, IF used = {} THEN "check"
               ELSE IF \E n \in used : SameRequest(posting[p], entries[n]) THEN "replayed"
               ELSE "refused")
    /\ UNCHANGED <<entries, accounts, invoiceEntry, found, lost>>

\* INSERT ... ON CONFLICT (tenant_id, idempotency_key) DO NOTHING waits for a
\* transaction that has the key in flight.  A key in use is replayed to the
\* same request and refused to another; issueInvoice takes whatever entry it
\* gets for its own.
InsertEntry(p) ==
    LET used == {n \in DOMAIN entries : entries[n].key = posting[p].key} IN
    /\ stage[p] = "insert"
    /\ \A q \in Posters \ {p} : ~HoldsEntryKey(q, posting[p].key)
    /\ \/ used = {} /\ Goes(p, "check") /\ UNCHANGED found
       \/ \E n \in used :
             IF ~SameRequest(posting[p], entries[n])
             THEN Goes(p, "refused") /\ UNCHANGED found
             ELSE IF posting[p].op = "post"
             THEN Goes(p, "replayed") /\ UNCHANGED found
             ELSE Goes(p, "adopt") /\ found' = [found EXCEPT ![p] = n]
    /\ UNCHANGED <<entries, accounts, invoiceEntry, lost>>

\* Mutation: the accounts may be in several currencies.
CheckAccounts_AnyCurrency(p) ==
    /\ stage[p] = "check"
    /\ Goes(p, IF AccountsOf(posting[p].body) \subseteq accounts THEN "commit" ELSE "refused")
    /\ UNCHANGED <<entries, accounts, invoiceEntry, found, lost>>

\* Mutation: the error is answered, and the transaction stays open.
CheckAccounts_StaysOpen(p) ==
    LET used == AccountsOf(posting[p].body) IN
    /\ stage[p] = "check"
    /\ used \subseteq accounts
    /\ Goes(p, IF \A a, b \in used : a.currency = b.currency THEN "commit" ELSE "refused")
    /\ UNCHANGED <<entries, accounts, invoiceEntry, found, lost>>

\* The accounts must be the tenant's and share one currency; otherwise the
\* transaction rolls back, and its key is free again.
CheckAccounts(p) ==
    LET used == AccountsOf(posting[p].body) IN
    /\ stage[p] = "check"
    /\ Goes(p, IF used \subseteq accounts /\ \A a, b \in used : a.currency = b.currency
               THEN "commit" ELSE "refused")
    /\ UNCHANGED <<entries, accounts, invoiceEntry, found, lost>>

\* The lines, and COMMIT, at which the deferred trigger of migration 0007 sums
\* them; an issue writes its entry into the invoice in the same transaction.
CommitEntry(p) ==
    /\ stage[p] = "commit"
    /\ IF SumOfLines(posting[p].body.lines) = 0
       THEN /\ entries' = Append(entries, [key |-> posting[p].key, body |-> posting[p].body])
            /\ invoiceEntry' = IF posting[p].op = "issue" THEN Len(entries) + 1 ELSE invoiceEntry
            /\ Goes(p, "created")
       ELSE Goes(p, "refused") /\ UNCHANGED <<entries, invoiceEntry>>
    /\ UNCHANGED <<accounts, found, lost>>

\* An issue that was given an entry another request had posted.
CommitAdopted(p) ==
    /\ stage[p] = "adopt"
    /\ invoiceEntry' = found[p]
    /\ found' = [found EXCEPT ![p] = NoEntry]
    /\ Goes(p, "created")
    /\ UNCHANGED <<entries, accounts, lost>>

\* The connection is lost: PostgreSQL rolls back, and the client knows nothing.
LosePosting(p) ==
    /\ stage[p] \notin Answered
    /\ lost < MaxLost
    /\ lost' = lost + 1
    /\ found' = [found EXCEPT ![p] = NoEntry]
    /\ Goes(p, "idle")
    /\ UNCHANGED <<entries, accounts, invoiceEntry>>

PosterStep(p) ==
    LockIssue(p) \/ InsertEntry(p) \/ CheckAccounts(p) \/ CommitEntry(p) \/ CommitAdopted(p)

LedgerNext ==
    \/ \E a \in Chart : createAccount(a)
    \/ \E p \in Posters :
          (\E r \in Posting : StartPosting(p, r)) \/ PosterStep(p) \/ LosePosting(p)

LedgerSpec == LedgerInit /\ [][LedgerNext]_ledgerVars

\* The event loop runs every continuation, and PostgreSQL serves the waiters of
\* a key or of a row in turn.
LedgerFairness == \A p \in Posters : SF_ledgerVars(PosterStep(p))

-----------------------------------------------------------------------------
(* Balances *)

CreditNormal == {"LIABILITY", "EQUITY", "REVENUE"}

AmountTo(a, lines) ==
    SumFunctionOnSet([l \in DOMAIN lines |-> IF lines[l].account = a THEN lines[l].amount ELSE 0],
                     DOMAIN lines)

\* Lines of account a in entries that had occurred by asOf.
RawBalance(a, asOf) ==
    LET counted == {n \in DOMAIN entries : entries[n].body.at <= asOf}
    IN  SumFunctionOnSet([n \in counted |-> AmountTo(a, entries[n].body.lines)], counted)

signedBalance(a, raw) == IF a.type \in CreditNormal THEN -raw ELSE raw

\* listAccountBalances: one statement.
Balances(asOf) == [a \in accounts |-> signedBalance(a, RawBalance(a, asOf))]

-----------------------------------------------------------------------------
(* Properties *)

\* An idempotency key has at most one entry, whoever races with it: two
\* requests of clients, or a client and the issue of an invoice.
KeyPostsOnce ==
    \A m, n \in DOMAIN entries : entries[m].key = entries[n].key => m = n

\* A client that was answered 201 or 200 finds an entry with its key and
\* exactly its body in the ledger, whatever happened to other requests with
\* the key in the meantime: in particular none was refused into a posting.
AnswerIsPosted ==
    \A p \in Posters :
        stage[p] \in {"created", "replayed"} =>
            \E n \in DOMAIN entries :
                entries[n].key = posting[p].key /\ entries[n].body = posting[p].body

\* invoice.service.js:60-80: the receivable of an issued invoice is in the
\* ledger once, and as its issue asked for it.  A client that used the key
\* invoice-issue:<id> before either makes the issue fail or, when it posted the
\* very same entry, has its entry taken for the issue's.
IssueIsPostedOnce ==
    invoiceEntry # NoEntry =>
        /\ {n \in DOMAIN entries : entries[n].key = IssueKey} = {invoiceEntry}
        /\ entries[invoiceEntry].body = IssueBody

InBalance(asOf, currency) ==
    LET of == {a \in accounts : a.currency = currency}
    IN  SumFunctionOnSet(Balances(asOf), {a \in of : a.type \notin CreditNormal})
            = SumFunctionOnSet(Balances(asOf), {a \in of : a.type \in CreditNormal})

\* README.md:18 balances "as of a point in time": at any date, and in each
\* currency, the balances of debit-normal accounts add up to those of
\* credit-normal ones.
TrialBalance ==
    \A asOf \in {entries[n].body.at : n \in DOMAIN entries} :
        \A currency \in {a.currency : a \in accounts} : InBalance(asOf, currency)

\* Every request is answered, although it may wait for a key in flight.
PostingsEnd == \A p \in Posters : stage[p] \notin Answered ~> stage[p] \in Answered
=============================================================================
