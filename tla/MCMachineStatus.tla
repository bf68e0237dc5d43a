--------------------------- MODULE MCMachineStatus ---------------------------
(* MachineStatus on one issue, with the bounds of the .cfg files. *)
EXTENDS MachineStatus

=============================================================================
