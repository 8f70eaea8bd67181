--------------------------- MODULE MCProviderKeys ---------------------------
(***************************************************************************)
(* Instances of ProviderKeys for TLC.                                      *)
(***************************************************************************)
EXTENDS ProviderKeys, TLC

SameCalls == Permutations(Calls)
=============================================================================
