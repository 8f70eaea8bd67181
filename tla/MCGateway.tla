------------------------------ MODULE MCGateway -----------------------------
(***************************************************************************)
(* Instances of Gateway for TLC.                                           *)
(***************************************************************************)
EXTENDS Gateway, TLC

\* absent has a configuration entry but no key: the streaming path takes a slot
\* for it before it finds that out.  local has a key and no entry.
MCProvider == {"claude", "absent", "local"}
MCRegistered == {"claude", "local"}

OneSlot == [p \in Configured |-> 1]
\* A capacity that is not positive counts as one.
ZeroSlots == [p \in Configured |-> 0]

MCChains == { <<"claude">> }
\* A chain may name a provider twice: its two calls wait for, or race for, one slot.
TwiceChain == { <<"claude", "claude">> }
MixedStreamChains == { <<"absent", "claude">>, <<"local", "claude">> }
SoleStreamChain == { <<"claude">> }

SameStreams == Permutations(Streams)
=============================================================================
