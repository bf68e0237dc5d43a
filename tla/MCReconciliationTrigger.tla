----------------------- MODULE MCReconciliationTrigger -----------------------
(* The reconciliation trigger with a few waiting callers. *)
EXTENDS ReconciliationTrigger
=============================================================================
