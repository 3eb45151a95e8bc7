---------------------------- MODULE InvoiceState ----------------------------
(***************************************************************************)
(* The invoice state machine of modules/invoices/invoice.state.js: which   *)
(* status an invoice may move to.  Every write of invoices.status in       *)
(* invoice.service.js is guarded by one of the two operators at the end.   *)
(***************************************************************************)

Status == {"DRAFT", "ISSUED", "PARTIALLY_PAID", "OVERDUE", "PAID", "VOID"}

AllowedTransitions ==
    [from \in Status |->
        CASE from = "DRAFT"          -> {"ISSUED", "VOID"}
          [] from = "ISSUED"         -> {"PARTIALLY_PAID", "PAID", "OVERDUE", "VOID"}
          [] from = "PARTIALLY_PAID" -> {"PARTIALLY_PAID", "PAID", "OVERDUE", "VOID"}
          [] from = "OVERDUE"        -> {"PARTIALLY_PAID", "PAID", "VOID"}
          [] OTHER                   -> {}]

CanTransition(from, to) == to \in AllowedTransitions[from]

StatusThatCanReach(to) == {from \in Status : CanTransition(from, to)}
=============================================================================
