-------------------------------- MODULE Ask --------------------------------
(***************************************************************************)
(* POST /api/ask over the documents of one tenant: modules/ask,            *)
(* documents/retrieval and the LLM client of infrastructure/llm.  Every    *)
(* await is a step; documents move along their life cycle meanwhile.       *)
(*                                                                         *)
(* One chunk stands for the chunks of a document.  Scores, block lengths,  *)
(* the text of an answer and what the provider replies are arbitrary.  The *)
(* abstentions below the score floor and after the model are one outcome   *)
(* here, and so are the errors of the LLM client.                          *)
(***************************************************************************)
EXTENDS DocumentLifecycle, Naturals, SequencesExt

CONSTANTS
    Askers,    \* requests
    MaxK,      \* largest k, the chunks a question asks for
    Budget     \* LLM_DAILY_BUDGET_PER_TENANT; one day is modelled

ASSUME AskAssumption ==
    /\ IsFiniteSet(Askers)
    /\ MaxK \in Nat \ {0}
    /\ Budget \in Nat

VARIABLES
    configured,  \* the LLM's address and key are in the environment
    ask,         \* the await a request is in, or how it ended
    retrieved,   \* chunks: what retrieval returned, best first
    sent,        \* used: the chunks in the prompt
    cited,       \* the chunks behind the citations of the answer
    tries,       \* HTTP calls made for a request
    charged,     \* the request counted itself in the budget's key
    unmetered,   \* the limiter failed open for the request
    spent        \* the budget's counter in Redis

askVars == <<configured, ask, retrieved, sent, cited, tries, charged, unmetered, spent>>

AskInit ==
    /\ Init
    /\ configured \in BOOLEAN
    /\ ask = [a \in Askers |-> "idle"]
    /\ retrieved = [a \in Askers |-> <<>>]
    /\ sent = [a \in Askers |-> <<>>]
    /\ cited = [a \in Askers |-> {}]
    /\ tries = [a \in Askers |-> 0]
    /\ charged = [a \in Askers |-> FALSE]
    /\ unmetered = [a \in Askers |-> FALSE]
    /\ spent = 0

Continue(a, from, to) ==
    /\ ask[a] = from
    /\ ask' = [ask EXCEPT ![a] = to]

\* The variables of a handler that has nothing to cite.
Forget(a) ==
    /\ retrieved' = [retrieved EXCEPT ![a] = <<>>]
    /\ sent' = [sent EXCEPT ![a] = <<>>]
    /\ UNCHANGED cited

-----------------------------------------------------------------------------
ReadyDocs == {d \in Docs : status[d] = "ready" /\ d \in searchable}

\* searchChunks: the k nearest chunks of ready documents.
Nearest(k) ==
    IF ReadyDocs = {} THEN {<<>>}
    ELSE UNION {SetToSeqs(S) : S \in kSubset(Min({k, Cardinality(ReadyDocs)}), ReadyDocs)}

Retrieve(a) ==
    /\ ask[a] = "idle"
    /\ \E k \in 1 .. MaxK : \E chunks \in Nearest(k) :
          /\ retrieved' = [retrieved EXCEPT ![a] = chunks]
          /\ Continue(a, "idle", IF chunks = <<>> THEN "empty" ELSE "floor")
    /\ UNCHANGED <<vars, configured, sent, cited, tries, charged, unmetered, spent>>

\* hasDocumentsInProgress reads the documents again, in a statement of its own.
ReasonForEmpty(a) ==
    LET inProgress == \E d \in Docs : status[d] \in {"pending", "processing"} IN
    /\ Continue(a, "empty", IF inProgress THEN "documents_processing" ELSE "no_documents")
    /\ UNCHANGED <<vars, configured, retrieved, sent, cited, tries, charged, unmetered, spent>>

BelowFloor(a) ==
    /\ Continue(a, "floor", "abstained")
    /\ Forget(a)
    /\ UNCHANGED <<vars, configured, tries, charged, unmetered, spent>>

\* buildPrompt takes the best chunks until the context is full, at least one.
BuildPrompt(a) ==
    /\ ask[a] = "floor"
    /\ \E n \in 1 .. Len(retrieved[a]) : sent' = [sent EXCEPT ![a] = SubSeq(retrieved[a], 1, n)]

\* Mutation: the budget is charged before the configuration is looked at.
BuildAndLoad_AfterBudget(a) ==
    /\ BuildPrompt(a)
    /\ Continue(a, "floor", IF configured THEN "budget" ELSE "failed")
    /\ charged' = [charged EXCEPT ![a] = TRUE]
    /\ spent' = spent + 1
    /\ UNCHANGED <<vars, configured, retrieved, cited, tries, unmetered>>

\* getGenerator throws without configuration, before the budget is charged.
BuildAndLoad(a) ==
    /\ BuildPrompt(a)
    /\ Continue(a, "floor", IF configured THEN "budget" ELSE "failed")
    /\ UNCHANGED <<vars, configured, retrieved, cited, tries, charged, unmetered, spent>>

\* Mutation: the call does not wait for the budget's answer.
Spend_NotAwaited(a) ==
    /\ Continue(a, "budget", "call")
    /\ spent' = spent + 1
    /\ charged' = [charged EXCEPT ![a] = TRUE]
    /\ UNCHANGED <<vars, configured, retrieved, sent, cited, tries, unmetered>>

Spend(a) ==
    /\ Continue(a, "budget", IF spent + 1 > Budget THEN "LLM_BUDGET_EXCEEDED" ELSE "call")
    /\ spent' = spent + 1
    /\ charged' = [charged EXCEPT ![a] = TRUE]
    /\ UNCHANGED <<vars, configured, retrieved, sent, cited, tries, unmetered>>

\* Redis fails or is slow: the call is made, and was counted or was not.
SpendFails(a) ==
    /\ Continue(a, "budget", "call")
    /\ unmetered' = [unmetered EXCEPT ![a] = TRUE]
    /\ spent' \in {spent, spent + 1}
    /\ UNCHANGED <<vars, configured, retrieved, sent, cited, tries, charged>>

\* callOnce sends the prompt.
CallOnce(a) ==
    /\ Continue(a, "call", "calling")
    /\ tries' = [tries EXCEPT ![a] = @ + 1]
    /\ UNCHANGED <<vars, configured, retrieved, sent, cited, charged, unmetered, spent>>

\* A connection that fails and the statuses 429 and 5xx are retryable, once; a
\* timeout, another status and a body without an answer are not.
RetryCall(a) ==
    /\ tries[a] = 1
    /\ Continue(a, "calling", "call")
    /\ UNCHANGED <<vars, configured, retrieved, sent, cited, tries, charged, unmetered, spent>>

CallFails(a) ==
    /\ Continue(a, "calling", "failed")
    /\ Forget(a)
    /\ UNCHANGED <<vars, configured, tries, charged, unmetered, spent>>

\* Mutation: the markers are looked up in what was retrieved.
SourcesOf_Retrieved(a) == retrieved[a]

SourcesOf(a) == sent[a]

\* parseAnswer: the markers that number a source become citations.
Answer(a) ==
    \E markers \in SUBSET (1 .. MaxK) :
        LET valid == markers \cap DOMAIN SourcesOf(a) IN
        /\ valid # {}
        /\ Continue(a, "calling", "answered")
        /\ cited' = [cited EXCEPT ![a] = {SourcesOf(a)[n] : n \in valid}]
        /\ retrieved' = [retrieved EXCEPT ![a] = <<>>]
        /\ UNCHANGED <<vars, configured, sent, tries, charged, unmetered, spent>>

\* An empty text, INSUFFICIENT_CONTEXT, or no marker that numbers a source.
AbstainAfterModel(a) ==
    /\ Continue(a, "calling", "abstained")
    /\ Forget(a)
    /\ UNCHANGED <<vars, configured, tries, charged, unmetered, spent>>

AskStep(a) ==
    \/ ReasonForEmpty(a) \/ BelowFloor(a) \/ BuildAndLoad(a) \/ Spend(a) \/ SpendFails(a)
    \/ CallOnce(a) \/ RetryCall(a) \/ CallFails(a) \/ Answer(a) \/ AbstainAfterModel(a)

AskNext ==
    \/ \E a \in Askers : Retrieve(a) \/ AskStep(a)
    \/ \E d \in Docs : DocumentStep(d) /\ UNCHANGED askVars

AskSpec == AskInit /\ [][AskNext]_<<vars, askVars>>

-----------------------------------------------------------------------------
(* Properties *)

\* README.md:113 "Citation markers are validated on the server against the
\* sources actually sent".  An answer has citations, all of chunks in its own
\* prompt, whatever the model writes.
CitesWhatWasSent ==
    \A a \in Askers :
        /\ ask[a] = "answered" => cited[a] # {}
        /\ cited[a] \subseteq ToSet(sent[a])

\* Calls to the provider, retries included, are at most two for each unit of
\* the day's budget and each request the limiter failed open for.
CallsAreBudgeted ==
    SumFunction(tries)
        <= 2 * (Min({spent, Budget}) + Cardinality({a \in Askers : unmetered[a]}))

\* README.md:286 "Only requests that reach the model count against it": a
\* request that abstains before the model, or meets a server without one, is
\* not charged, and a charged one calls the model or is over the budget.
AbstainingIsFree ==
    \A a \in Askers :
        charged[a] => \/ ask[a] = "LLM_BUDGET_EXCEEDED"
                      \/ ask[a] = "call"
                      \/ tries[a] > 0

\* README.md:436, of no_documents: "Retrieval returned no chunks and no document
\* is `pending` or `processing`: nothing has been uploaded, or every upload
\* `failed`".
NoDocumentsMeansNone ==
    [][\A a \in Askers :
          ask[a] = "empty" /\ ask'[a] = "no_documents" =>
              \A d \in Docs : status[d] \in {"absent", "failed", "deleted"}]_<<vars, askVars>>
=============================================================================
