---------------------------- MODULE MCClientKeys ----------------------------
(***************************************************************************)
(* Instances of ClientKeys for TLC.                                        *)
(***************************************************************************)
EXTENDS ClientKeys, TLC

SameCalls == Permutations(Calls)
=============================================================================
