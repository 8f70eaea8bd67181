------------------------------ MODULE MCRouter ------------------------------
(***************************************************************************)
(* Instances of Router for TLC.                                            *)
(***************************************************************************)
EXTENDS Router, TLC

\* claude is configured; local is a provider without a configuration entry; absent
\* has no key, so it is not registered.
MCProvider == {"claude", "local", "absent"}
MCRegistered == {"claude", "local"}

OneSlot == [p \in Configured |-> 1]

MixedChains == { <<"claude", "local">>, <<"absent", "claude">> }

Identical == Permutations(Requests)
=============================================================================
