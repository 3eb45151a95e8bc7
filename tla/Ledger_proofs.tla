---------------------------- MODULE Ledger_proofs ----------------------------
(* What holds of Ledger for every value of its constants. *)
EXTENDS Ledger, SumTheorems

Entry == [key: Keys, body: Bodies \cup {IssueBody}]

Stages == Answered \cup {"lock", "insert", "check", "commit", "adopt"}

\* What is stored, and what a poster may be at.
Types ==
    /\ entries \in Seq(Entry)
    /\ invoiceEntry \in Nat \cup {NoEntry}
    /\ posting \in [Posters -> Posting]
    /\ stage \in [Posters -> Stages]
    /\ found \in [Posters -> Nat \cup {NoEntry}]

\* A transaction past its INSERT has its key for itself: no committed entry
\* has it, and no other transaction in flight.
KeyIsHeld ==
    \A p \in Posters : stage[p] \in {"check", "commit"} =>
        /\ \A n \in DOMAIN entries : entries[n].key # posting[p].key
        /\ \A q \in Posters : HoldsEntryKey(q, posting[p].key) => q = p

\* What an issue was given is an entry with its key and its body.
AdoptedMatches ==
    \A p \in Posters : stage[p] = "adopt" =>
        /\ posting[p].op = "issue"
        /\ found[p] \in DOMAIN entries
        /\ entries[found[p]].key = posting[p].key
        /\ entries[found[p]].body = posting[p].body

Inv ==
    /\ Types
    /\ KeyPostsOnce
    /\ KeyIsHeld
    /\ AdoptedMatches
    /\ AnswerIsPosted
    /\ IssueIsPostedOnce


-----------------------------------------------------------------------------
\* An empty ledger.
LEMMA InitInv == LedgerInit => Inv
<1> SUFFICES ASSUME LedgerInit PROVE Inv
  OBVIOUS
<1> USE LedgerAssumption DEF LedgerInit
<1>1. Types
  BY DEF Types, Posting, Stages, Answered
<1>2. KeyPostsOnce /\ IssueIsPostedOnce
  BY DEF KeyPostsOnce, IssueIsPostedOnce
<1>3. KeyIsHeld /\ AdoptedMatches /\ AnswerIsPosted
  BY DEF KeyIsHeld, AdoptedMatches, AnswerIsPosted
<1> QED
  BY <1>1, <1>2, <1>3 DEF Inv

\* What a request posts.
LEMMA PostingFacts ==
  \A r \in Posting :
      /\ r.op \in {"post", "issue"} /\ r.key \in Keys
      /\ r.op = "issue" => r.key = IssueKey /\ r.body = IssueBody
      /\ r.op = "post" => r.body \in Bodies
BY DEF Posting, IssueRequest, Keys

\* A poster that neither takes a key nor is answered, or is refused.
LEMMA QuietStep ==
  ASSUME Inv, NEW p \in Posters, NEW next \in Stages \ {"check", "adopt", "created", "replayed"},
         stage' = [stage EXCEPT ![p] = next],
         next = "commit" => stage[p] = "check",
         \A q \in Posters \ {p} : posting'[q] = posting[q],
         \A q \in Posters \ {p} : found'[q] = found[q],
         next = "commit" => posting'[p] = posting[p],
         posting' \in [Posters -> Posting],
         found' \in [Posters -> Nat \cup {NoEntry}],
         UNCHANGED <<entries, invoiceEntry>>
  PROVE  Inv'
<1> USE LedgerAssumption DEF Inv
<1>1. stage'[p] = next /\ \A q \in Posters \ {p} : stage'[q] = stage[q]
  BY DEF Types
<1>2. Types'
  BY DEF Types
<1>3. KeyPostsOnce' /\ IssueIsPostedOnce'
  BY DEF KeyPostsOnce, IssueIsPostedOnce
<1>4. KeyIsHeld'
  BY <1>1 DEF KeyIsHeld, HoldsEntryKey
<1>5. AdoptedMatches'
  BY <1>1 DEF AdoptedMatches
<1>6. AnswerIsPosted'
  BY <1>1 DEF AnswerIsPosted
<1> QED
  BY <1>2, <1>3, <1>4, <1>5, <1>6

\* A new request, which is refused if its lines do not add up to 0.
LEMMA StartKeepsInv ==
  ASSUME Inv, NEW p \in Posters, NEW r \in Posting, StartPosting(p, r)
  PROVE  Inv'
<1>1. PICK next \in {"refused", "lock", "insert"} : stage' = [stage EXCEPT ![p] = next]
  BY DEF StartPosting
<1>2. posting' = [posting EXCEPT ![p] = r] /\ UNCHANGED <<entries, invoiceEntry, found>>
  BY DEF StartPosting
<1> QED
  BY <1>1, <1>2, QuietStep DEF Inv, Types, Stages, Answered

\* The statements that read, and a rollback.
LEMMA WaitKeepsInv ==
  ASSUME Inv, NEW p \in Posters, LockIssue(p) \/ CheckAccounts(p) \/ LosePosting(p)
  PROVE  Inv'
<1>1. PICK next \in {"refused", "insert", "commit", "idle"} :
        /\ stage' = [stage EXCEPT ![p] = next]
        /\ next = "commit" => stage[p] = "check"
  BY DEF LockIssue, CheckAccounts, LosePosting, Goes
<1>2. UNCHANGED <<entries, invoiceEntry, posting>>
  BY DEF LockIssue, CheckAccounts, LosePosting, Goes
<1>3. found' = found \/ found' = [found EXCEPT ![p] = NoEntry]
  BY DEF LockIssue, CheckAccounts, LosePosting
<1> QED
  BY <1>1, <1>2, <1>3, QuietStep DEF Inv, Types, Stages, Answered

\* The INSERT takes a free key, or is answered by the entry that has it.
LEMMA InsertKeepsInv ==
  ASSUME Inv, NEW p \in Posters, InsertEntry(p)
  PROVE  Inv'
<1> USE LedgerAssumption DEF Inv
<1> DEFINE used == {n \in DOMAIN entries : entries[n].key = posting[p].key}
<1>1. UNCHANGED <<entries, invoiceEntry, posting>>
  BY DEF InsertEntry, Goes
<1>2. CASE stage' = [stage EXCEPT ![p] = "refused"] /\ UNCHANGED found
  BY <1>1, <1>2, QuietStep DEF Types, Stages, Answered
<1>3. ASSUME NEW next \in {"check", "replayed", "adopt"},
             stage' = [stage EXCEPT ![p] = next],
             \A q \in Posters \ {p} : found'[q] = found[q],
             found' \in [Posters -> Nat \cup {NoEntry}],
             next = "check" => used = {} /\ \A q \in Posters \ {p} : ~HoldsEntryKey(q, posting[p].key),
             next \in {"replayed", "adopt"} =>
                 \E n \in used : /\ entries[n].body = posting[p].body
                                 /\ next = "adopt" => found'[p] = n /\ posting[p].op = "issue"
      PROVE  Inv'
  <2>1. stage'[p] = next /\ \A q \in Posters \ {p} : stage'[q] = stage[q]
    BY <1>3 DEF Types
  <2>2. Types'
    BY <1>1, <1>3 DEF Types, Stages, Answered
  <2>3. KeyPostsOnce' /\ IssueIsPostedOnce'
    BY <1>1 DEF KeyPostsOnce, IssueIsPostedOnce
  <2>4. KeyIsHeld'
    BY <1>1, <1>3, <2>1 DEF KeyIsHeld, HoldsEntryKey
  <2>5. AdoptedMatches'
    BY <1>1, <1>3, <2>1 DEF AdoptedMatches
  <2>6. AnswerIsPosted'
    BY <1>1, <1>3, <2>1 DEF AnswerIsPosted
  <2> QED
    BY <2>2, <2>3, <2>4, <2>5, <2>6
<1>4. CASE used = {} /\ stage' = [stage EXCEPT ![p] = "check"] /\ UNCHANGED found
  BY <1>3, <1>4 DEF InsertEntry, Types
<1>5. ASSUME NEW n \in used, entries[n].body = posting[p].body, posting[p].op = "post",
             stage' = [stage EXCEPT ![p] = "replayed"], UNCHANGED found
      PROVE  Inv'
  BY <1>3, <1>5 DEF Types
<1>6. ASSUME NEW n \in used, entries[n].body = posting[p].body, posting[p].op = "issue",
             stage' = [stage EXCEPT ![p] = "adopt"], found' = [found EXCEPT ![p] = n]
      PROVE  Inv'
  BY <1>3, <1>6 DEF Types
<1>7. posting[p].op \in {"post", "issue"}
  BY PostingFacts DEF Types
<1> QED
  BY <1>2, <1>4, <1>5, <1>6, <1>7 DEF InsertEntry, SameRequest, Goes

\* COMMIT of a new entry, with the invoice when it is of an issue.
LEMMA CommitKeepsInv ==
  ASSUME Inv, NEW p \in Posters, CommitEntry(p)
  PROVE  Inv'
<1> USE LedgerAssumption DEF Inv
<1>1. UNCHANGED <<posting, found>> /\ stage[p] = "commit"
  BY DEF CommitEntry, Goes
<1>2. CASE stage' = [stage EXCEPT ![p] = "refused"] /\ UNCHANGED <<entries, invoiceEntry>>
  BY <1>1, <1>2, QuietStep DEF Types, Stages, Answered
<1>3. ASSUME entries' = Append(entries, [key |-> posting[p].key, body |-> posting[p].body]),
             invoiceEntry' = IF posting[p].op = "issue" THEN Len(entries) + 1 ELSE invoiceEntry,
             stage' = [stage EXCEPT ![p] = "created"]
      PROVE  Inv'
  <2> DEFINE entry == [key |-> posting[p].key, body |-> posting[p].body]
             last == Len(entries) + 1
  <2>1. posting[p] \in Posting
    BY DEF Types
  <2>2. /\ entry.key = posting[p].key /\ entry.body = posting[p].body
        /\ entry \in Entry
    BY <2>1, PostingFacts DEF Entry
  <2>3. last \in Nat /\ last \notin DOMAIN entries
    BY DEF Types
  <2>4. /\ entries' \in Seq(Entry) /\ DOMAIN entries' = DOMAIN entries \cup {last}
        /\ entries'[last] = entry /\ \A n \in DOMAIN entries : entries'[n] = entries[n]
    BY <1>3, <2>2 DEF Types
  <2> HIDE DEF entry, last
  <2>5. stage'[p] = "created" /\ \A q \in Posters \ {p} : stage'[q] = stage[q]
    BY <1>3 DEF Types
  <2>6. Types'
    BY <1>1, <1>3, <2>3, <2>4 DEF Types, Stages, Answered, last
  <2>8. \A n \in DOMAIN entries : entries[n].key # entry.key
    BY <1>1, <2>2 DEF KeyIsHeld
  <2>9. KeyPostsOnce'
    BY <2>3, <2>4, <2>8 DEF KeyPostsOnce
  <2>10. KeyIsHeld'
    BY <1>1, <2>2, <2>4, <2>5 DEF KeyIsHeld, HoldsEntryKey
  <2>11. AdoptedMatches'
    BY <1>1, <2>4, <2>5 DEF AdoptedMatches
  <2>12. AnswerIsPosted'
    BY <1>1, <2>2, <2>4, <2>5 DEF AnswerIsPosted
  <2>13. IssueIsPostedOnce'
    <3>1. CASE posting[p].op = "issue"
      <4>1. entry.key = IssueKey /\ entry.body = IssueBody
        BY <2>1, <2>2, <3>1, PostingFacts
      <4>2. invoiceEntry' = last
        BY <1>3, <3>1 DEF last
      <4> QED
        BY <2>4, <2>8, <4>1, <4>2 DEF IssueIsPostedOnce
    <3>2. CASE posting[p].op # "issue"
      <4>1. invoiceEntry' = invoiceEntry
        BY <1>3, <3>2
      <4>2. CASE invoiceEntry # NoEntry
        <5>1. invoiceEntry \in DOMAIN entries /\ entries[invoiceEntry].key = IssueKey
          BY <4>2 DEF IssueIsPostedOnce
        <5>2. entry.key # IssueKey
          BY <2>8, <5>1
        <5> QED
          BY <2>2, <2>4, <4>1, <5>1, <5>2 DEF IssueIsPostedOnce
      <4> QED
        BY <4>1, <4>2 DEF IssueIsPostedOnce
    <3> QED
      BY <3>1, <3>2
  <2> QED
    BY <2>6, <2>9, <2>10, <2>11, <2>12, <2>13
<1> QED
  BY <1>2, <1>3 DEF CommitEntry, Goes

\* COMMIT of an issue that was given an entry.
LEMMA AdoptKeepsInv ==
  ASSUME Inv, NEW p \in Posters, CommitAdopted(p)
  PROVE  Inv'
<1> USE LedgerAssumption DEF Inv
<1>1. /\ stage[p] = "adopt"
      /\ invoiceEntry' = found[p]
      /\ found' = [found EXCEPT ![p] = NoEntry]
      /\ stage' = [stage EXCEPT ![p] = "created"]
      /\ UNCHANGED <<entries, posting>>
  BY DEF CommitAdopted, Goes
<1>2. /\ posting[p] \in Posting /\ posting[p].op = "issue" /\ found[p] \in DOMAIN entries
      /\ entries[found[p]].key = posting[p].key /\ entries[found[p]].body = posting[p].body
      /\ entries[found[p]] \in Entry
  BY <1>1 DEF AdoptedMatches, Types
<1>3. /\ stage'[p] = "created"
      /\ \A q \in Posters \ {p} : stage'[q] = stage[q] /\ found'[q] = found[q]
  BY <1>1 DEF Types
<1>4. Types'
  BY <1>1, <1>2 DEF Types, Stages, Answered
<1>5. KeyPostsOnce'
  BY <1>1 DEF KeyPostsOnce
<1>6. KeyIsHeld'
  BY <1>1, <1>3 DEF KeyIsHeld, HoldsEntryKey
<1>7. AdoptedMatches'
  BY <1>1, <1>3 DEF AdoptedMatches
<1>8. AnswerIsPosted'
  BY <1>1, <1>2, <1>3 DEF AnswerIsPosted
<1>9. IssueIsPostedOnce'
  <2>1. entries[found[p]].body = IssueBody /\ entries[found[p]].key = IssueKey
    BY <1>2, PostingFacts
  <2>2. \A n \in DOMAIN entries : entries[n].key = IssueKey => n = found[p]
    BY <1>2, <2>1 DEF KeyPostsOnce
  <2> QED
    BY <1>1, <1>2, <2>1, <2>2 DEF IssueIsPostedOnce
<1> QED
  BY <1>4, <1>5, <1>6, <1>7, <1>8, <1>9

\* Every step of the specification.
LEMMA NextInv == Inv /\ [LedgerNext]_ledgerVars => Inv'
<1> SUFFICES ASSUME Inv, [LedgerNext]_ledgerVars PROVE Inv'
  OBVIOUS
<1>1. CASE UNCHANGED <<entries, invoiceEntry, posting, stage, found>>
  BY <1>1 DEF Inv, Types, KeyPostsOnce, KeyIsHeld, AdoptedMatches, AnswerIsPosted,
              IssueIsPostedOnce, HoldsEntryKey
<1>2. ASSUME NEW a \in Chart, createAccount(a) PROVE Inv'
  BY <1>1, <1>2 DEF createAccount
<1>3. ASSUME NEW p \in Posters, \E r \in Posting : StartPosting(p, r) PROVE Inv'
  BY <1>3, StartKeepsInv
<1>4. ASSUME NEW p \in Posters, PosterStep(p) \/ LosePosting(p) PROVE Inv'
  BY <1>4, WaitKeepsInv, InsertKeepsInv, CommitKeepsInv, AdoptKeepsInv DEF PosterStep
<1> QED
  BY <1>1, <1>2, <1>3, <1>4 DEF LedgerNext, ledgerVars

-----------------------------------------------------------------------------
\* The invariant of every behaviour.
LEMMA InvAlways == LedgerSpec => []Inv
BY InitInv, NextInv, PTL DEF LedgerSpec

\* createJournalEntryTx: a key has one entry, for any number of posters that
\* race for it, issues of invoices among them.
THEOREM KeyAlwaysPostsOnce == LedgerSpec => []KeyPostsOnce
BY InvAlways, PTL DEF Inv

\* An answer of 201 or 200 means that an entry with the key and the body of the
\* request is in the ledger.
THEOREM AnswerAlwaysPosted == LedgerSpec => []AnswerIsPosted
BY InvAlways, PTL DEF Inv

\* issueInvoice: the receivable of an issued invoice is posted once, with the
\* accounts, the total and the time of its issue, whatever keys and bodies
\* clients choose, those of the issue among them.
THEOREM IssueIsAlwaysPostedOnce == LedgerSpec => []IssueIsPostedOnce
BY InvAlways, PTL DEF Inv

-----------------------------------------------------------------------------
(* The trial balance *)

\* What the checks of createJournalEntryTx leave true of a body: its lines add
\* up to 0, on accounts of the tenant in one currency.
Balanced(body) ==
    /\ SumOfLines(body.lines) = 0
    /\ AccountsOf(body) \subseteq accounts
    /\ \A a, b \in AccountsOf(body) : a.currency = b.currency

\* All that has been posted has passed them, and a poster that is about to
\* COMMIT has passed those that the trigger does not repeat.
PostedBalances ==
    /\ IsFiniteSet(accounts)
    /\ \A n \in DOMAIN entries : Balanced(entries[n].body)
    /\ \A p \in Posters : stage[p] = "commit" =>
          /\ AccountsOf(posting[p].body) \subseteq accounts
          /\ \A a, b \in AccountsOf(posting[p].body) : a.currency = b.currency

\* An empty ledger.
LEMMA PostedInit == LedgerInit => PostedBalances
<1> SUFFICES ASSUME LedgerInit PROVE PostedBalances
  OBVIOUS
<1>1. IsFiniteSet(accounts) /\ DOMAIN entries = {}
  BY FS_EmptySet DEF LedgerInit
<1> QED
  BY <1>1 DEF LedgerInit, PostedBalances

\* Accounts are only added, and a check before COMMIT is still good at it.
LEMMA PostedStep == Inv /\ PostedBalances /\ [LedgerNext]_ledgerVars => PostedBalances'
<1> SUFFICES ASSUME Inv, PostedBalances, [LedgerNext]_ledgerVars PROVE PostedBalances'
  OBVIOUS
<1>1. ASSUME accounts \subseteq accounts', IsFiniteSet(accounts'), UNCHANGED entries,
             \A p \in Posters : stage'[p] = "commit" =>
                 stage[p] = "commit" /\ posting'[p] = posting[p]
      PROVE  PostedBalances'
  <2>1. \A n \in DOMAIN entries' : Balanced(entries[n].body)'
    BY <1>1 DEF PostedBalances, Balanced
  <2> QED
    BY <1>1, <2>1 DEF PostedBalances
<1>2. CASE UNCHANGED ledgerVars
  BY <1>1, <1>2 DEF ledgerVars, PostedBalances
<1>3. ASSUME NEW a \in Chart, createAccount(a) PROVE PostedBalances'
  <2>1. IsFiniteSet(accounts')
    BY <1>3, FS_AddElement DEF createAccount, PostedBalances
  <2> QED
    BY <1>1, <1>3, <2>1 DEF createAccount
<1>4. ASSUME NEW p \in Posters, NEW next \in Stages \ {"commit"},
             stage' = [stage EXCEPT ![p] = next],
             \A q \in Posters \ {p} : posting'[q] = posting[q],
             UNCHANGED <<entries, accounts>>
      PROVE  PostedBalances'
  <2>1. \A q \in Posters : stage'[q] = "commit" => q # p /\ stage[q] = "commit"
    BY <1>4 DEF Inv, Types
  <2> QED
    BY <1>1, <1>4, <2>1 DEF PostedBalances
<1>5. ASSUME NEW p \in Posters, NEW r \in Posting, StartPosting(p, r) PROVE PostedBalances'
  <2>1. PICK next \in {"refused", "lock", "insert"} : stage' = [stage EXCEPT ![p] = next]
    BY <1>5 DEF StartPosting
  <2>2. \A q \in Posters \ {p} : posting'[q] = posting[q]
    BY <1>5 DEF StartPosting, Inv, Types
  <2> QED
    BY <1>4, <1>5, <2>1, <2>2 DEF StartPosting, Stages, Answered
<1>6. ASSUME NEW p \in Posters,
             LockIssue(p) \/ InsertEntry(p) \/ CommitAdopted(p) \/ LosePosting(p)
      PROVE  PostedBalances'
  <2>1. PICK next \in {"refused", "insert", "check", "replayed", "adopt", "created", "idle"} :
          stage' = [stage EXCEPT ![p] = next]
    <3>1. ASSUME InsertEntry(p)
          PROVE  \E to \in {"refused", "check", "replayed", "adopt"} : Goes(p, to)
      BY <3>1, ZenonT(60) DEF InsertEntry
    <3> QED
      BY <1>6, <3>1 DEF LockIssue, CommitAdopted, LosePosting, Goes
  <2>2. UNCHANGED <<entries, accounts, posting>>
    <3>1. ASSUME InsertEntry(p)
          PROVE  UNCHANGED <<entries, accounts>> /\ \E to : Goes(p, to)
      BY <3>1, ZenonT(60) DEF InsertEntry
    <3> QED
      BY <1>6, <3>1 DEF LockIssue, CommitAdopted, LosePosting, Goes
  <2> QED
    BY <1>4, <2>1, <2>2 DEF Stages, Answered
<1>7. ASSUME NEW p \in Posters, CheckAccounts(p) PROVE PostedBalances'
  <2>1. UNCHANGED <<entries, accounts, posting>>
    BY <1>7 DEF CheckAccounts, Goes
  <2>2. CASE stage' = [stage EXCEPT ![p] = "refused"]
    BY <1>4, <2>1, <2>2 DEF Stages, Answered
  <2>3. CASE stage' = [stage EXCEPT ![p] = "commit"]
    <3>1. /\ AccountsOf(posting[p].body) \subseteq accounts
          /\ \A a, b \in AccountsOf(posting[p].body) : a.currency = b.currency
      <4>1. stage'[p] = "commit" /\ stage' # [stage EXCEPT ![p] = "refused"]
        BY <2>3 DEF Inv, Types
      <4> QED
        BY <1>7, <4>1 DEF CheckAccounts, Goes
    <3>2. \A q \in Posters \ {p} : stage'[q] = stage[q]
      BY <2>3 DEF Inv, Types
    <3>3. \A n \in DOMAIN entries' : Balanced(entries[n].body)'
      BY <2>1 DEF PostedBalances, Balanced
    <3> QED
      BY <2>1, <3>1, <3>2, <3>3 DEF PostedBalances
  <2> QED
    BY <1>7, <2>2, <2>3 DEF CheckAccounts, Goes
<1>8. ASSUME NEW p \in Posters, CommitEntry(p) PROVE PostedBalances'
  <2>1. UNCHANGED <<accounts, posting>> /\ stage[p] = "commit"
    BY <1>8 DEF CommitEntry, Goes
  <2>2. CASE SumOfLines(posting[p].body.lines) # 0
    <3>1. UNCHANGED entries /\ stage' = [stage EXCEPT ![p] = "refused"]
      BY <1>8, <2>2 DEF CommitEntry, Goes
    <3> QED
      BY <1>4, <2>1, <3>1 DEF Stages, Answered
  <2>3. CASE SumOfLines(posting[p].body.lines) = 0
    <3>0. PICK entry : entry = [key |-> posting[p].key, body |-> posting[p].body]
      OBVIOUS
    <3>1. entry.body = posting[p].body /\ entry \in Entry
      <4>1. posting[p] \in Posting
        BY DEF Inv, Types
      <4> QED
        BY <3>0, <4>1, PostingFacts DEF Entry
    <3>2. entries' = Append(entries, entry) /\ stage' = [stage EXCEPT ![p] = "created"]
      BY <1>8, <2>3, <3>0 DEF CommitEntry, Goes
    <3>3. \A n \in DOMAIN entries' :
            entries'[n] = entry \/ (n \in DOMAIN entries /\ entries'[n] = entries[n])
      <4>1. entries \in Seq(Entry)
        BY DEF Inv, Types
      <4>2. /\ DOMAIN Append(entries, entry) = DOMAIN entries \cup {Len(entries) + 1}
            /\ Append(entries, entry)[Len(entries) + 1] = entry
            /\ \A n \in DOMAIN entries : Append(entries, entry)[n] = entries[n]
        BY <3>1, <4>1
      <4>3. entries' = Append(entries, entry)
        BY <3>2
      <4> QED
        BY <4>2, <4>3, ZenonT(60)
    <3>4. Balanced(posting[p].body)
      BY <2>1, <2>3 DEF PostedBalances, Balanced
    <3>5. \A n \in DOMAIN entries' : Balanced(entries'[n].body)
      BY <3>1, <3>3, <3>4 DEF PostedBalances
    <3>6. \A n \in DOMAIN entries' : Balanced(entries[n].body)'
      BY <2>1, <3>5 DEF Balanced
    <3>7. \A q \in Posters : stage'[q] = "commit" => stage[q] = "commit"
      BY <3>2 DEF Inv, Types
    <3> QED
      BY <2>1, <3>6, <3>7 DEF PostedBalances
  <2> QED
    BY <2>2, <2>3
<1> QED
  BY <1>2, <1>3, <1>5, <1>6, <1>7, <1>8 DEF LedgerNext, PosterStep

\* What each line of an entry posts to each account.
Postings(A, lines) ==
    [a \in A |-> [l \in DOMAIN lines |-> IF lines[l].account = a THEN lines[l].amount ELSE 0]]

Amounts(lines) == [l \in DOMAIN lines |-> lines[l].amount]

\* The accounts an entry has its lines on are changed by 0 in all, and so are
\* accounts it has none on.
LEMMA EntryAddsUp ==
  ASSUME NEW A, IsFiniteSet(A), NEW lines, IsFiniteSet(DOMAIN lines),
         \A l \in DOMAIN lines : lines[l].amount \in Int, SumOfLines(lines) = 0,
         \/ \A l \in DOMAIN lines : lines[l].account \in A
         \/ \A l \in DOMAIN lines : lines[l].account \notin A
  PROVE  SumFunctionOnSet([a \in A |-> AmountTo(a, lines)], A) = 0
<1>1. PICK m, D : m = Postings(A, lines) /\ D = DOMAIN lines
  OBVIOUS
<1>2. IntegerTable(m, A, D)
  BY <1>1 DEF IntegerTable, IntegersOn, Postings
<1>3. SumFunctionOnSet(RowSums(m, A, D), A) = SumFunctionOnSet(ColumnSums(m, A, D), D)
  <2>1. IsFiniteSet(A) /\ IsFiniteSet(D)
    BY <1>1
  <2> QED
    BY <1>2, <2>1, SumExchange
<1>4. RowSums(m, A, D) = [a \in A |-> AmountTo(a, lines)]
  BY <1>1 DEF RowSums, AmountTo, Postings
<1>5. CASE \A l \in D : lines[l].account \in A
  <2>1. ASSUME NEW l \in D PROVE ColumnSums(m, A, D)[l] = Amounts(lines)[l]
    <3>1. PICK c, a : c = ColumnOf(m, l, A) /\ a = lines[l].account
      OBVIOUS
    <3>2. /\ a \in A /\ c[a] = Amounts(lines)[l] /\ c[a] \in Int
          /\ \A b \in A \ {a} : c[b] = 0
      BY <1>1, <1>5, <3>1 DEF ColumnOf, Postings, Amounts
    <3>3. SumFunctionOnSet(c, A) = c[a]
      BY <3>2, SumSingle
    <3> QED
      BY <3>1, <3>2, <3>3 DEF ColumnSums
  <2>2. SumFunctionOnSet(ColumnSums(m, A, D), D) = SumFunctionOnSet(Amounts(lines), D)
    <3>1. IsFiniteSet(D)
      BY <1>1
    <3> QED
      BY <2>1, <3>1, SumCongruence
  <2>3. SumFunctionOnSet(Amounts(lines), D) = 0
    BY <1>1 DEF SumOfLines, Amounts
  <2> QED
    BY <1>3, <1>4, <2>2, <2>3
<1>6. CASE \A l \in D : lines[l].account \notin A
  <2>1. ASSUME NEW l \in D PROVE ColumnSums(m, A, D)[l] = 0
    <3>1. PICK c : c = ColumnOf(m, l, A)
      OBVIOUS
    <3>2. \A b \in A : c[b] = 0
      BY <1>1, <1>6, <3>1 DEF ColumnOf, Postings
    <3>3. SumFunctionOnSet(c, A) = 0
      BY <3>2, SumZero
    <3> QED
      BY <3>1, <3>3 DEF ColumnSums
  <2>2. SumFunctionOnSet(ColumnSums(m, A, D), D) = 0
    <3>1. IsFiniteSet(D)
      BY <1>1
    <3> QED
      BY <2>1, <3>1, SumZero
  <2> QED
    BY <1>3, <1>4, <2>2
<1> QED
  BY <1>1, <1>5, <1>6

\* The amount an entry posts to an account is an integer.
LEMMA AmountTypes ==
  ASSUME NEW lines, IsFiniteSet(DOMAIN lines), \A l \in DOMAIN lines : lines[l].amount \in Int, NEW a
  PROVE  AmountTo(a, lines) \in Int
<1>1. PICK f : f = [l \in DOMAIN lines |-> IF lines[l].account = a THEN lines[l].amount ELSE 0]
  OBVIOUS
<1>2. \A l \in DOMAIN lines : f[l] \in Int
  BY <1>1
<1>3. SumFunctionOnSet(f, DOMAIN lines) \in Int
  BY <1>2, SumTakesOut
<1> QED
  BY <1>1, <1>3 DEF AmountTo

\* What each counted entry posts to each account.
Entered(A, N) == [a \in A |-> [n \in N |-> AmountTo(a, entries[n].body.lines)]]

CountedBy(asOf) == {n \in DOMAIN entries : entries[n].body.at <= asOf}

\* In one currency the sums of all lines, signs aside, add up to 0.
LEMMA RawBalancesAddUp ==
  ASSUME Inv, PostedBalances, NEW asOf, NEW currency, NEW A,
         A = {a \in accounts : a.currency = currency}
  PROVE  /\ \A a \in A : RawBalance(a, asOf) \in Int
         /\ SumFunctionOnSet([a \in A |-> RawBalance(a, asOf)], A) = 0
<1>1. PICK N, m : N = CountedBy(asOf) /\ m = Entered(A, N)
  OBVIOUS
<1>2. IsFiniteSet(A)
  BY FS_Subset DEF PostedBalances
<1>3. IsFiniteSet(N)
  <2>1. DOMAIN entries = 1..Len(entries) /\ Len(entries) \in Nat
    BY DEF Inv, Types
  <2>2. IsFiniteSet(DOMAIN entries)
    <3>1. PICK k \in Nat : k = Len(entries)
      BY <2>1
    <3>2. IsFiniteSet(1..k)
      BY FS_Interval
    <3> QED
      BY <2>1, <3>1, <3>2
  <2> QED
    BY <1>1, <2>2, FS_Subset DEF CountedBy
<1>4. \A n \in N : n \in DOMAIN entries
  BY <1>1 DEF CountedBy
<1>5. ASSUME NEW n \in N
      PROVE  /\ IsFiniteSet(DOMAIN entries[n].body.lines)
             /\ \A l \in DOMAIN entries[n].body.lines : entries[n].body.lines[l].amount \in Int
  <2>1. entries[n].body \in Bodies \cup {IssueBody}
    <3>1. entries \in Seq(Entry) /\ n \in DOMAIN entries
      BY <1>4 DEF Inv, Types
    <3>2. entries[n] \in Entry
      BY <3>1
    <3> QED
      BY <3>2 DEF Entry
  <2> QED
    BY <2>1, LedgerAssumption
<1>6. \A a \in A, n \in N : AmountTo(a, entries[n].body.lines) \in Int
  BY <1>5, AmountTypes
<1>7. IntegerTable(m, A, N)
  BY <1>1, <1>6 DEF IntegerTable, IntegersOn, Entered
<1>8. RowSums(m, A, N) = [a \in A |-> RawBalance(a, asOf)]
  BY <1>1 DEF RowSums, RawBalance, Entered, CountedBy
<1>9. \A a \in A : RawBalance(a, asOf) \in Int
  <2>1. IntegersOn(RowSums(m, A, N), A)
    BY <1>2, <1>3, <1>7, TableTypes
  <2> QED
    BY <1>8, <2>1 DEF IntegersOn
<1>10. ASSUME NEW n \in N PROVE ColumnSums(m, A, N)[n] = 0
  <2>1. PICK lines : lines = entries[n].body.lines
    OBVIOUS
  <2>2. ColumnOf(m, n, A) = [a \in A |-> AmountTo(a, lines)]
    BY <1>1, <2>1 DEF ColumnOf, Entered
  <2>3. Balanced(entries[n].body)
    BY <1>4 DEF PostedBalances
  <2>4. /\ SumOfLines(lines) = 0
        /\ \A l \in DOMAIN lines : lines[l].account \in accounts
        /\ \A k, l \in DOMAIN lines : lines[k].account.currency = lines[l].account.currency
    BY <2>1, <2>3 DEF Balanced, AccountsOf
  <2>5. \/ \A l \in DOMAIN lines : lines[l].account \in A
        \/ \A l \in DOMAIN lines : lines[l].account \notin A
    BY <2>4
  <2>6. SumFunctionOnSet([a \in A |-> AmountTo(a, lines)], A) = 0
    <3>1. IsFiniteSet(DOMAIN lines) /\ \A l \in DOMAIN lines : lines[l].amount \in Int
      BY <1>5, <2>1
    <3>2. SumOfLines(lines) = 0
      BY <2>4
    <3> QED
      BY <1>2, <2>5, <3>1, <3>2, EntryAddsUp
  <2> QED
    BY <2>2, <2>6 DEF ColumnSums
<1>11. SumFunctionOnSet(ColumnSums(m, A, N), N) = 0
  BY <1>3, <1>10, SumZero
<1>12. SumFunctionOnSet(RowSums(m, A, N), A) = SumFunctionOnSet(ColumnSums(m, A, N), N)
  BY <1>2, <1>3, <1>7, SumExchange
<1> QED
  BY <1>8, <1>9, <1>11, <1>12

\* The sign of the credit-normal accounts makes two equal sums of a sum of 0.
LEMMA PostedMeansBalance == Inv /\ PostedBalances => TrialBalance
<1> SUFFICES ASSUME Inv, PostedBalances, NEW asOf, NEW currency
             PROVE  InBalance(asOf, currency)
  BY DEF TrialBalance
<1>1. PICK A, D, C, B, R :
        /\ A = {a \in accounts : a.currency = currency}
        /\ D = {a \in A : a.type \notin CreditNormal}
        /\ C = {a \in A : a.type \in CreditNormal}
        /\ B = Balances(asOf)
        /\ R = [a \in A |-> RawBalance(a, asOf)]
  OBVIOUS
<1>2. /\ A = D \cup C /\ D \cap C = {} /\ D \in SUBSET A /\ C \in SUBSET A
      /\ A \subseteq accounts
  BY <1>1
<1>3. IsFiniteSet(A) /\ IsFiniteSet(D) /\ IsFiniteSet(C)
  BY <1>2, FS_Subset DEF PostedBalances
<1>4. IntegersOn(R, A) /\ SumFunctionOnSet(R, A) = 0
  BY <1>1, RawBalancesAddUp DEF IntegersOn
<1>5. (\A a \in D : B[a] = R[a]) /\ \A a \in C : B[a] = -R[a]
  <2>1. \A a \in A : B[a] = signedBalance(a, R[a])
    BY <1>1, <1>2 DEF Balances
  <2>2. (\A a \in D : a.type \notin CreditNormal) /\ \A a \in C : a.type \in CreditNormal
    BY <1>1
  <2> QED
    BY <1>2, <2>1, <2>2 DEF signedBalance
<1>6. SumFunctionOnSet(B, D) = SumFunctionOnSet(R, D)
  BY <1>3, <1>5, SumCongruence
<1>7. SumFunctionOnSet(B, C) = -SumFunctionOnSet(R, C)
  <2>1. IntegersOn(R, C)
    BY <1>2, <1>4 DEF IntegersOn
  <2> QED
    BY <1>3, <1>5, <2>1, SumNegate
<1>8. SumFunctionOnSet(R, A) = SumFunctionOnSet(R, D) + SumFunctionOnSet(R, C)
  <2>1. SumFunctionOnSet(R, D \cup C) = SumFunctionOnSet(R, D) + SumFunctionOnSet(R, C)
    BY <1>2, <1>3, <1>4, SumUnion
  <2> QED
    BY <1>2, <2>1
<1>9. PICK d \in Int, c \in Int : d = SumFunctionOnSet(R, D) /\ c = SumFunctionOnSet(R, C)
  <2>1. \A a \in D : R[a] \in Int
    BY <1>2, <1>4 DEF IntegersOn
  <2>2. \A a \in C : R[a] \in Int
    BY <1>2, <1>4 DEF IntegersOn
  <2>3. SumFunctionOnSet(R, D) \in Int
    BY <1>3, <2>1, SumTakesOut
  <2>4. SumFunctionOnSet(R, C) \in Int
    BY <1>3, <2>2, SumTakesOut
  <2> QED
    BY <2>3, <2>4
<1>10. d + c = 0
  BY <1>4, <1>8, <1>9
<1>11. SumFunctionOnSet(B, D) = SumFunctionOnSet(B, C)
  BY <1>6, <1>7, <1>9, <1>10
<1> QED
  BY <1>1, <1>11 DEF InBalance

\* listAccountBalances: at any date the books balance in every currency, for
\* any number of accounts and entries, and whatever is being posted.
THEOREM LedgerAlwaysBalances == LedgerSpec => []TrialBalance
<1>1. LedgerSpec => [](Inv /\ PostedBalances)
  BY InitInv, NextInv, PostedInit, PostedStep, PTL DEF LedgerSpec
<1> QED
  BY <1>1, PostedMeansBalance, PTL
=============================================================================
