---------------------------- MODULE MCStateOwner ----------------------------
(***************************************************************************)
(* An instance of StateOwner for TLC: commands and callers are model       *)
(* values. The recoveries after a second start are left to the proofs,     *)
(* which hold for any number of starts.                                    *)
(***************************************************************************)
EXTENDS StateOwner
=============================================================================
