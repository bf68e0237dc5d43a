--------------------------- MODULE MCAttemptLaunch ---------------------------
(* AttemptLaunch for TLC: launch tokens are interchangeable. *)
EXTENDS AttemptLaunch, TLC

NonceSymmetry == Permutations(Nonces)
=============================================================================
