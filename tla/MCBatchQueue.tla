---------------------------- MODULE MCBatchQueue ----------------------------
(***************************************************************************)
(* Instances of BatchQueue for TLC.                                        *)
(***************************************************************************)
EXTENDS BatchQueue, TLC

Identical == Permutations(Jobs) \cup Permutations(Workers)
=============================================================================
