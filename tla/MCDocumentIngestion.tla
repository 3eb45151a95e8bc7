------------------------ MODULE MCDocumentIngestion ------------------------
(* DocumentIngestion on small instances: the .cfg files say all there is. *)
EXTENDS DocumentIngestion
=============================================================================
