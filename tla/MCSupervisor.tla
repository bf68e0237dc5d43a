---------------------------- MODULE MCSupervisor ----------------------------
(* One troubled attempt, one operator's call, one proposal and one restart:  *)
(* each of the supervisor's activities meets each of the others.             *)
EXTENDS Supervisor
=============================================================================
