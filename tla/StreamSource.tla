---------------------------- MODULE StreamSource ----------------------------
(***************************************************************************)
(* One streamed answer, from the provider to the client: the goroutine     *)
(* that ChatStream of a provider starts (internal/provider), the channel,  *)
(* and the handler's loop over it (handler/stream.go).  The goroutine is   *)
(*                                                                         *)
(*   "next"    waiting for the provider, in stream.Next                    *)
(*   "send"    sending the chunks it made of an event                      *)
(*   "closed"  ended, the channel closed                                   *)
(*                                                                         *)
(* An event is a piece of text, the usage, both or neither; the provider   *)
(* ends the stream regularly or with an error, or goes silent.             *)
(***************************************************************************)
EXTENDS Integers, Sequences, Functions

CONSTANTS
    Kinds,          \* the providers that may serve the stream
    Scripts,        \* kind -> the sequences of events its provider may send
    BufSize         \* capacity of the channel

Event == [text : BOOLEAN, usage : BOOLEAN]

\* Claude's events are of one type each: text (content_block_delta), the usage
\* (message_delta), or one that is passed over.
ASSUME SourceConfig ==
    /\ BufSize \in Nat \ {0}
    /\ Kinds \subseteq {"claude", "gpt", "perplexity", "ollama", "gemini"}
    /\ \A k \in Kinds : \A s \in Scripts[k] :
          /\ s \in Seq(Event)
          /\ k = "claude" => \A n \in DOMAIN s : ~(s[n].text /\ s[n].usage)

VARIABLES
    kind,       \* the provider
    script,     \* the events it sends
    breaks,     \* it ends the stream with an error
    pos,        \* events read so far
    gpc,        \* where the goroutine is
    todo,       \* chunks it has to send
    ch,         \* the channel
    ctxDone,    \* the context of the request is cancelled
    expired,    \* the write deadline of the stream has passed
    left,       \* the client is gone, as far as the server can tell
    hpc,        \* the handler's loop: "loop", "recv" or "ended"
    got,        \* the pieces of text the client received
    final       \* how the loop ended: "none", "usage", "done", "error" or "gone"

sourceVars == <<pos, gpc, todo>>
handlerVars == <<hpc, got, final>>
vars == <<kind, script, breaks, sourceVars, ch, ctxDone, expired, left, handlerVars>>

\* Chunks: the piece of text of an event, or the last chunk.
Text(n) == <<"text", n>>
Usage == <<"usage", 0>>
Done == <<"done", 0>>
Error == <<"error", 0>>
LastChunks == {Usage, Done, Error}

TypeOK ==
    /\ kind \in Kinds /\ script \in Scripts[kind] /\ pos \in 0..Len(script)
    /\ gpc \in {"next", "send", "closed"} /\ hpc \in {"loop", "recv", "ended"}
    /\ Len(ch) <= BufSize /\ Len(todo) <= 2
    /\ \A c \in Range(ch) \cup Range(todo) : c \in LastChunks \/ c[2] \in 1..Len(script)
    /\ expired \in BOOLEAN
    /\ final \in {"none", "usage", "done", "error", "gone"}

\* ChatStream has returned the channel.  The SDKs of all but Gemini send the request before
\* that, the goroutine's first wait stands for it.
Init ==
    /\ kind \in Kinds
    /\ script \in Scripts[kind]
    /\ breaks \in BOOLEAN
    /\ pos = 0 /\ gpc = "next" /\ todo = <<>> /\ ch = <<>>
    /\ ctxDone = FALSE /\ expired = FALSE /\ left = FALSE
    /\ hpc = "loop" /\ got = <<>> /\ final = "none"

-----------------------------------------------------------------------------
\* The goroutines of the providers: the chunks they make of the n-th event.

\* Claude sends the usage in an event of its own (message_delta).
ClaudeChunks(e, n) ==
    IF e.usage THEN <<Usage>> ELSE IF e.text THEN <<Text(n)>> ELSE <<>>

\* Faulty: an event with the usage ends the stream before its text is sent.
GPTChunksCut(e, n) == IF e.usage THEN <<Usage>> ELSE IF e.text THEN <<Text(n)>> ELSE <<>>

GPTChunks(e, n) ==
    (IF e.text THEN <<Text(n)>> ELSE <<>>) \o (IF e.usage THEN <<Usage>> ELSE <<>>)

PerplexityChunks(e, n) ==
    (IF e.text THEN <<Text(n)>> ELSE <<>>) \o (IF e.usage THEN <<Usage>> ELSE <<>>)

OllamaChunks(e, n) ==
    (IF e.text THEN <<Text(n)>> ELSE <<>>) \o (IF e.usage THEN <<Usage>> ELSE <<>>)

\* Gemini sends the usage along with text; the first one with output tokens ends it.
GeminiChunks(e, n) ==
    (IF e.text THEN <<Text(n)>> ELSE <<>>) \o (IF e.usage THEN <<Usage>> ELSE <<>>)

Chunks(e, n) ==
    CASE kind = "claude"     -> ClaudeChunks(e, n)
      [] kind = "gpt"        -> GPTChunks(e, n)
      [] kind = "perplexity" -> PerplexityChunks(e, n)
      [] kind = "ollama"     -> OllamaChunks(e, n)
      [] kind = "gemini"     -> GeminiChunks(e, n)

Close == gpc' = "closed" /\ todo' = <<>>

\* stream.Next has an event.  The context is looked at before the event.
Receive ==
    /\ gpc = "next" /\ pos < Len(script)
    /\ pos' = pos + 1
    /\ IF ctxDone
       THEN Close
       ELSE /\ todo' = Chunks(script[pos + 1], pos + 1)
            /\ gpc' = IF todo' = <<>> THEN "next" ELSE "send"
    /\ UNCHANGED <<kind, script, breaks, ch, ctxDone, expired, left, handlerVars>>

\* Faulty: the error of the stream is not looked at.
EndUnchecked ==
    /\ gpc = "next" /\ pos = Len(script)
    /\ todo' = <<Done>> /\ gpc' = "send"
    /\ UNCHANGED <<kind, script, breaks, pos, ch, ctxDone, expired, left, handlerVars>>

\* The provider ends the stream: stream.Err tells whether regularly.  Gemini gets the
\* error as one more element of its loop, which looks at the context first.
End ==
    /\ gpc = "next" /\ pos = Len(script)
    /\ IF kind = "gemini" /\ breaks /\ ctxDone
       THEN Close
       ELSE todo' = <<IF breaks THEN Error ELSE Done>> /\ gpc' = "send"
    /\ UNCHANGED <<kind, script, breaks, pos, ch, ctxDone, expired, left, handlerVars>>

\* Faulty: the SDK's call runs under a context of its own.
InterruptedNever == FALSE /\ UNCHANGED vars

\* The SDK's call fails with the cancelled context: an error like any other.
Interrupted ==
    /\ gpc = "next" /\ ctxDone
    /\ IF kind = "gemini" THEN Close ELSE todo' = <<Error>> /\ gpc' = "send"
    /\ UNCHANGED <<kind, script, breaks, pos, ch, ctxDone, expired, left, handlerVars>>

\* Faulty: an unbounded buffer between the two.
SendUnbounded ==
    /\ gpc = "send"
    /\ ch' = Append(ch, Head(todo))
    /\ IF Head(todo) \in LastChunks
       THEN Close
       ELSE todo' = Tail(todo) /\ gpc' = IF Tail(todo) = <<>> THEN "next" ELSE "send"
    /\ UNCHANGED <<kind, script, breaks, pos, ctxDone, expired, left, handlerVars>>

\* One case of the select: the channel has room.
Send ==
    /\ gpc = "send" /\ Len(ch) < BufSize
    /\ ch' = Append(ch, Head(todo))
    /\ IF Head(todo) \in LastChunks
       THEN Close
       ELSE todo' = Tail(todo) /\ gpc' = IF Tail(todo) = <<>> THEN "next" ELSE "send"
    /\ UNCHANGED <<kind, script, breaks, pos, ctxDone, expired, left, handlerVars>>

\* Faulty: the send does not listen for the cancellation.
GiveUpNever == FALSE /\ UNCHANGED vars

\* The other case, ctx.Done: taken at random when the channel has room, too.
GiveUp ==
    /\ gpc = "send" /\ ctxDone
    /\ Close
    /\ UNCHANGED <<kind, script, breaks, pos, ch, ctxDone, expired, left, handlerVars>>

-----------------------------------------------------------------------------
\* The handler's loop (gin's Context.Stream) and the client.

\* net/http reads that the client is gone, tells gin and cancels the context.
Disconnect ==
    /\ ~left /\ hpc # "ended"
    /\ left' = TRUE /\ ctxDone' = TRUE
    /\ UNCHANGED <<kind, script, breaks, sourceVars, ch, expired, handlerVars>>

\* The write deadline the handler set at the start of the stream: by itself it ends nothing.
DeadlinePasses ==
    /\ ~expired /\ hpc # "ended"
    /\ expired' = TRUE
    /\ UNCHANGED <<kind, script, breaks, sourceVars, ch, ctxDone, left, handlerVars>>

\* When the handler returns, net/http cancels the context.
EndLoop(how) == hpc' = "ended" /\ final' = how /\ ctxDone' = TRUE

\* Between two chunks the loop looks whether the client is gone.
CheckClient ==
    /\ hpc = "loop"
    /\ IF left THEN EndLoop("gone") ELSE hpc' = "recv" /\ UNCHANGED <<final, ctxDone>>
    /\ UNCHANGED <<kind, script, breaks, sourceVars, ch, expired, left, got>>

\* A piece of text is written to the connection.  A write after the deadline fails:
\* net/http cancels the context, and the loop, which looks at no error, goes on.
Write(n) ==
    IF expired
    THEN ctxDone' = TRUE /\ UNCHANGED got
    ELSE got' = Append(got, n) /\ UNCHANGED ctxDone

\* One call of the step function, which blocks until there is a chunk.
Relay ==
    /\ hpc = "recv" /\ ch # <<>>
    /\ ch' = Tail(ch)
    /\ IF Head(ch) \in LastChunks
       THEN EndLoop(Head(ch)[1]) /\ UNCHANGED got
       ELSE Write(Head(ch)[2]) /\ hpc' = "loop" /\ UNCHANGED final
    /\ UNCHANGED <<kind, script, breaks, sourceVars, expired, left>>

\* The channel is closed without a last chunk.
RelayClosed ==
    /\ hpc = "recv" /\ ch = <<>> /\ gpc = "closed"
    /\ EndLoop("done")
    /\ UNCHANGED <<kind, script, breaks, sourceVars, ch, expired, left, got>>

-----------------------------------------------------------------------------

Source == Interrupted \/ Send \/ GiveUp

Handler == CheckClient \/ Relay \/ RelayClosed

Next == Receive \/ End \/ Source \/ Handler \/ Disconnect \/ DeadlinePasses

Spec == Init /\ [][Next]_vars

\* Goroutines run, and the SDK's calls return when their context is cancelled.  The
\* provider may go silent: there is no fairness for Receive and End.
FairSpec == Spec /\ WF_vars(Source) /\ WF_vars(Handler)

-----------------------------------------------------------------------------

\* The pieces of text in the events up to the first one with the usage.
Wanted == {n \in DOMAIN script : script[n].text /\ \A m \in 1..(n - 1) : ~script[m].usage}

\* The usage arrives before the provider's end of the stream.
HasUsage == \E n \in DOMAIN script : script[n].usage

\* The client gets the pieces of text in order, once and without gaps, whatever the pace
\* of the two goroutines; a client that stayed and is told within the write deadline that
\* the answer is complete has all of it, up to the event with the usage (ChatStream,
\* StreamHandler.Stream).
RelayExact ==
    /\ \A i, j \in DOMAIN got : i < j => got[i] < got[j]
    /\ Range(got) \subseteq Wanted
    /\ \A n \in Range(got), m \in Wanted : m < n => m \in Range(got)
    /\ final \in {"usage", "done"} /\ ~left /\ ~expired => Wanted \subseteq Range(got)

\* For a client that stayed, a stream that ends before its write deadline ends in an error
\* exactly when the provider broke it off before the usage; this is what the breaker and
\* the log record.  After the deadline it need not: a failed write cancels the call.
VerdictFaithful ==
    final # "none" /\ ~left /\ ~expired => (final = "error" <=> breaks /\ ~HasUsage)

\* A client that leaves, or a write that fails, sets everybody free although the provider
\* is silent and the channel is full: the handler returns, and with it the slot it holds.
HandlerReturns == ctxDone ~> hpc = "ended"

\* No goroutine outlives its handler for ever.
SourceEnds == hpc = "ended" ~> gpc = "closed"
=============================================================================
