------------------------------ MODULE Gateway -------------------------------
(***************************************************************************)
(* The request paths of the gateway together: the router's chat and batch  *)
(* requests and the streaming handler over the same breakers and slots.    *)
(***************************************************************************)
EXTENDS Router, Stream

gatewayVars == <<poolVars, routerVars, streamVars>>

GatewayTypeOK == TypeOK /\ StreamTypeOK

GatewayInit == Init /\ StreamInit

GatewayNext ==
    \/ Next /\ UNCHANGED streamVars
    \/ StreamNext /\ UNCHANGED routerVars

GatewaySpec == GatewayInit /\ [][GatewayNext]_gatewayVars

\* The stream waits for its provider: in ChatStream, whose SDK sends the request before
\* it returns, or for the next chunk.  No timeout bounds this (stream.go), so a silent
\* provider keeps the stream, and its slot, for as long as the client stays.
WithProvider(s) ==
    \/ stage[s] = "connect" /\ Current(s) \in Registered
    \/ stage[s] = "relay"

\* What a stream does when its provider moves, or when its client has left: the
\* cancelled context ends both waits (StreamSource).
ProviderStep(s) ==
    StreamConnects(s) \/ StreamConnectFails(s) \/ StreamEnds(s) \/ StreamBreaks(s)

\* Goroutines run, and a chat call is answered, by its timeout at the latest.  Nothing
\* makes a provider go on with a stream whose client stays.  Blocked senders of a Go
\* channel are served in order, so nobody who waits for a slot that keeps coming back
\* is overtaken for ever.
GatewayFairness ==
    /\ \A a \in Calls :
         /\ WF_gatewayVars(Progress(a) /\ UNCHANGED streamVars)
         /\ SF_gatewayVars((Acquire(a) \/ AcquireCancelled(a)) /\ UNCHANGED streamVars)
    /\ \A r \in Requests : WF_gatewayVars(RequestStep(r) /\ UNCHANGED streamVars)
    /\ \A s \in Streams :
         /\ WF_gatewayVars(~WithProvider(s) /\ StreamProgress(s) /\ UNCHANGED routerVars)
         /\ WF_gatewayVars(left[s] /\ ProviderStep(s) /\ UNCHANGED routerVars)
         /\ SF_gatewayVars((StreamAcquire(s) \/ StreamAcquireCancelled(s))
                             /\ UNCHANGED routerVars)

FairGatewaySpec == GatewaySpec /\ GatewayFairness

-----------------------------------------------------------------------------

\* Chat calls and streams together account for every taken slot of a provider,
\* and never take more than its limit, although the two paths acquire and
\* release at different points of their work.
SharedSlotsAccounted ==
    \A p \in Configured :
        /\ sem[p] = Cardinality(Holders(p)) + Cardinality(StreamHolders(p))
        /\ sem[p] <= Capacity(p)

\* Every provider moves on with every stream in the end.
StreamsMove == \A s \in Streams : []<>(~WithProvider(s))

\* Provided that no stream is stuck with its provider for ever, whatever the mix of chat
\* calls and streams over the same slots, every request is answered and every stream
\* comes to an end: nobody waits for a slot for ever, although a chain may name a
\* provider twice (Router.Execute, StreamHandler.Stream).
EverybodyServed ==
    StreamsMove =>
        /\ \A r \in Requests : phase[r] = "running" ~> phase[r] # "running"
        /\ \A s \in Streams : stage[s] = "check" ~> stage[s] \in {"done", "failed"}
=============================================================================
