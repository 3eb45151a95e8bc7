------------------------- MODULE DocumentLifecycle -------------------------
(***************************************************************************)
(* What the documents component promises to its readers, without queue,    *)
(* workers or retries of a job: a document moves along its life cycle, and *)
(* retrieval finds it exactly while it is ready.  DocumentIngestion is     *)
(* shown to implement this specification; Ask reads it.                    *)
(***************************************************************************)

CONSTANT Docs    \* documents.id, never used twice

VARIABLES
    status,      \* documents.status, "absent" before and "deleted" after the row
    searchable   \* the documents with document_chunks

vars == <<status, searchable>>

Init ==
    /\ status = [d \in Docs |-> "absent"]
    /\ searchable = {}

Move(d, from, to) ==
    /\ status[d] \in from
    /\ status' = [status EXCEPT ![d] = to]

Upload(d) == Move(d, {"absent"}, "pending") /\ UNCHANGED searchable

Claim(d) == Move(d, {"pending"}, "processing") /\ UNCHANGED searchable

Succeed(d) == Move(d, {"processing"}, "ready") /\ searchable' = searchable \cup {d}

Fail(d) == Move(d, {"pending", "processing"}, "failed") /\ UNCHANGED searchable

Retry(d) == Move(d, {"failed"}, "pending") /\ UNCHANGED searchable

\* A document is not deleted while it is processing.
Delete(d) ==
    /\ Move(d, {"pending", "ready", "failed"}, "deleted")
    /\ searchable' = searchable \ {d}

DocumentStep(d) ==
    Upload(d) \/ Claim(d) \/ Succeed(d) \/ Fail(d) \/ Retry(d) \/ Delete(d)

Next == \E d \in Docs : DocumentStep(d)

Spec == Init /\ [][Next]_vars
=============================================================================
