--------------------------- MODULE MCUsageLedger ----------------------------
(***************************************************************************)
(* Instances of UsageLedger for TLC.                                       *)
(***************************************************************************)
EXTENDS UsageLedger, TLC

SameRequests == Permutations(Requests)
=============================================================================
