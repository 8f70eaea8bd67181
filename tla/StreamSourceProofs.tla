------------------------- MODULE StreamSourceProofs -------------------------
(***************************************************************************)
(* Theorems about StreamSource.  A piece of text moves from todo through   *)
(* the channel to the client; as long as nobody gives up and the write     *)
(* deadline has not passed, the pieces that passed the goroutine are just  *)
(* the wanted ones of the events it read, and a last chunk in the channel  *)
(* says truly how the provider ended.                                      *)
(***************************************************************************)
EXTENDS StreamSource, SequenceTheorems, TLAPS

Chunk == ({"text"} \X Nat) \cup LastChunks

Typed ==
    /\ kind \in Kinds /\ script \in Scripts[kind] /\ script \in Seq(Event)
    /\ breaks \in BOOLEAN /\ ctxDone \in BOOLEAN /\ expired \in BOOLEAN /\ left \in BOOLEAN
    /\ pos \in 0..Len(script) /\ ch \in Seq(Chunk) /\ Len(ch) <= BufSize /\ got \in Seq(Nat)
    /\ gpc \in {"next", "send", "closed"} /\ hpc \in {"loop", "recv", "ended"}
    /\ final \in {"none", "usage", "done", "error", "gone"}

\* No event up to the n-th carries the usage.
NoUsage(n) == \A m \in 1..n : ~script[m].usage

\* What a last chunk says is so.
Justified(c) ==
    /\ c = Usage => pos \in DOMAIN script /\ script[pos].usage
    /\ c = Done => pos = Len(script) /\ ~breaks /\ ~HasUsage
    /\ c = Error => ctxDone \/ (breaks /\ ~HasUsage)

\* The chunks the goroutine has to send are those of the last event it read.
Todo ==
    /\ gpc \in {"next", "closed"} => todo = <<>>
    /\ gpc = "next" => NoUsage(pos)
    /\ gpc = "send" =>
          \/ todo = <<Text(pos)>> /\ pos \in Wanted /\ NoUsage(pos)
          \/ todo = <<Text(pos), Usage>> /\ pos \in Wanted /\ script[pos].usage
          \/ \E c \in LastChunks : todo = <<c>> /\ Justified(c)

\* The event whose text is still to be sent.
Pending == IF todo # <<>> /\ Head(todo) = Text(pos) THEN {pos} ELSE {}

InChannel == {ch[i][2] : i \in {j \in DOMAIN ch : ch[j] \notin LastChunks}}

\* The pieces that passed the goroutine, but for those whose write failed.
Passed == Range(got) \cup InChannel

\* The pieces are in order: what the client has, what is in the channel, what comes.  Only
\* the last chunk is behind the pieces, and it closes the channel.
InOrder ==
    /\ \A i, j \in DOMAIN got : i < j => got[i] < got[j]
    /\ \A m \in Range(got), n \in InChannel : m < n
    /\ \A i, j \in DOMAIN ch : i < j => ch[i] \notin LastChunks
    /\ \A i, j \in DOMAIN ch : i < j /\ ch[j] \notin LastChunks => ch[i][2] < ch[j][2]

\* The last chunk is in the channel.
Told == \E i \in DOMAIN ch : ch[i] \in LastChunks

\* Nothing wanted is left out while the goroutine works, and none when it has said so,
\* unless the deadline has passed.
Complete ==
    /\ Passed \subseteq {n \in Wanted : n <= pos} \ Pending
    /\ ~expired => \A n \in Passed, m \in Wanted : m < n => m \in Passed
    /\ ~expired /\ (gpc # "closed" \/ Told) => Passed = {n \in Wanted : n <= pos} \ Pending

\* The goroutine ends with a last chunk, unless the context is cancelled.
Ending ==
    /\ Told => gpc = "closed"
    /\ \A i \in DOMAIN ch : ch[i] \in LastChunks => Justified(ch[i])
    /\ gpc = "closed" => Told \/ ctxDone
    /\ hpc # "ended" => final = "none" /\ (ctxDone => left \/ expired)
    /\ hpc = "ended" => ctxDone

Verdict == RelayExact /\ VerdictFaithful

SourceInv == Typed /\ Todo /\ InOrder /\ Complete /\ Ending /\ Verdict

-----------------------------------------------------------------------------
\* Chunks and sequences.

LEMMA ChunkFacts ==
    /\ \A n \in Nat : Text(n) \in Chunk /\ Text(n) \notin LastChunks /\ Text(n)[2] = n
    /\ \A c \in Chunk : c \notin LastChunks => c[2] \in Nat /\ c = Text(c[2])
    /\ LastChunks \subseteq Chunk /\ Usage # Done /\ Usage # Error /\ Done # Error
    /\ Usage[1] = "usage" /\ Done[1] = "done" /\ Error[1] = "error"
<1>1. \A n \in Nat : Text(n) \in Chunk /\ Text(n) \notin LastChunks /\ Text(n)[2] = n
  BY DEF Chunk, Text, LastChunks, Usage, Done, Error
<1>2. \A c \in Chunk : c \notin LastChunks => c[2] \in Nat /\ c = Text(c[2])
  BY DEF Chunk, Text
<1>3. /\ LastChunks \subseteq Chunk /\ Usage # Done /\ Usage # Error /\ Done # Error
      /\ Usage[1] = "usage" /\ Done[1] = "done" /\ Error[1] = "error"
  BY DEF Chunk, LastChunks, Usage, Done, Error
<1>4. QED
  BY <1>1, <1>2, <1>3

\* A send adds its chunk behind the others.
LEMMA Appended ==
    ASSUME NEW S, NEW s \in Seq(S), NEW x \in S
    PROVE  /\ Append(s, x) \in Seq(S) /\ Len(Append(s, x)) = Len(s) + 1 /\ Len(s) \in Nat
           /\ DOMAIN s = 1..Len(s) /\ DOMAIN Append(s, x) = 1..(Len(s) + 1)
           /\ \A i \in DOMAIN s : Append(s, x)[i] = s[i]
           /\ Append(s, x)[Len(s) + 1] = x
           /\ Range(Append(s, x)) = Range(s) \cup {x}
<1>1. /\ Append(s, x) \in Seq(S) /\ Len(Append(s, x)) = Len(s) + 1
      /\ \A i \in 1..Len(s) : Append(s, x)[i] = s[i]
      /\ Append(s, x)[Len(s) + 1] = x
  BY AppendProperties
<1>2. Len(s) \in Nat /\ DOMAIN s = 1..Len(s) /\ DOMAIN Append(s, x) = 1..(Len(s) + 1)
  BY <1>1, LenProperties
<1>3. \A i \in 1..(Len(s) + 1) : i \in 1..Len(s) \/ i = Len(s) + 1
  BY <1>2
<1>4. Range(Append(s, x)) = Range(s) \cup {x}
  <2>1. Range(Append(s, x)) \subseteq Range(s) \cup {x}
    BY <1>1, <1>2, <1>3 DEF Range
  <2>2. Range(s) \cup {x} \subseteq Range(Append(s, x))
    <3>1. 1..Len(s) \subseteq 1..(Len(s) + 1) /\ Len(s) + 1 \in 1..(Len(s) + 1)
      BY <1>2
    <3>2. QED
      BY <1>1, <1>2, <3>1 DEF Range
  <2>3. QED
    BY <2>1, <2>2
<1>5. QED
  BY <1>1, <1>2, <1>4

\* A receive takes the first chunk and moves the others up.
LEMMA Received ==
    ASSUME NEW S, NEW s \in Seq(S), s # <<>>
    PROVE  /\ Tail(s) \in Seq(S) /\ Len(Tail(s)) = Len(s) - 1 /\ Len(s) \in Nat \ {0}
           /\ Head(s) = s[1] /\ Head(s) \in S
           /\ DOMAIN s = 1..Len(s) /\ DOMAIN Tail(s) = 1..(Len(s) - 1)
           /\ \A i \in DOMAIN Tail(s) : Tail(s)[i] = s[i + 1]
<1>1. /\ Tail(s) \in Seq(S) /\ Len(Tail(s)) = Len(s) - 1 /\ Head(s) \in S
      /\ \A i \in 1..Len(Tail(s)) : Tail(s)[i] = s[i + 1]
  BY HeadTailProperties
<1>2. Len(s) \in Nat \ {0} /\ DOMAIN s = 1..Len(s) /\ DOMAIN Tail(s) = 1..(Len(s) - 1)
  BY <1>1, LenProperties, EmptySeq
<1>3. QED
  BY <1>1, <1>2

\* The two chunks of an event, one after the other.
LEMMA OneOrTwo ==
    ASSUME NEW a, NEW b
    PROVE  /\ <<a>> # <<>> /\ Head(<<a>>) = a /\ Tail(<<a>>) = <<>> /\ Len(<<a>>) = 1
           /\ Range(<<a>>) = {a}
           /\ <<a, b>> # <<>> /\ Head(<<a, b>>) = a /\ Tail(<<a, b>>) = <<b>>
           /\ Len(<<a, b>>) = 2 /\ Range(<<a, b>>) = {a, b}
           /\ Range(<<>>) = {} /\ Len(<<>>) = 0
BY DEF Range

\* What the goroutine makes of the event it reads next, whichever provider it serves.
LEMMA ChunksCases ==
    ASSUME Typed, NEW n \in DOMAIN script
    PROVE  LET e == script[n] IN
           Chunks(e, n) = IF e.text
                          THEN IF e.usage THEN <<Text(n), Usage>> ELSE <<Text(n)>>
                          ELSE IF e.usage THEN <<Usage>> ELSE <<>>
<1> DEFINE e == script[n]
           both == (IF e.text THEN <<Text(n)>> ELSE <<>>) \o (IF e.usage THEN <<Usage>> ELSE <<>>)
<1>1. /\ kind \in {"claude", "gpt", "perplexity", "ollama", "gemini"}
      /\ kind = "claude" => ~(e.text /\ e.usage)
  BY SourceConfig DEF Typed
<1>2. CASE kind = "claude"
  <2>1. Chunks(e, n) = ClaudeChunks(e, n)
    BY <1>2 DEF Chunks
  <2>2. QED
    BY <1>1, <1>2, <2>1 DEF ClaudeChunks
<1>3. CASE kind # "claude"
  <2>1. Chunks(e, n) = both
    BY <1>1, <1>3 DEF Chunks, GPTChunks, PerplexityChunks, OllamaChunks, GeminiChunks
  <2>2. QED
    BY <2>1
<1>4. QED
  BY <1>2, <1>3

\* The wanted pieces are events of the script; an event is wanted when it has text and no
\* usage came before, and none after the usage is.
LEMMA WantedFacts ==
    ASSUME Typed
    PROVE  /\ pos \in Nat /\ Len(script) \in Nat /\ DOMAIN script = 1..Len(script)
           /\ Wanted \subseteq DOMAIN script
           /\ \A n \in DOMAIN script : n \in Wanted <=> script[n].text /\ NoUsage(n - 1)
           /\ \A n \in DOMAIN script : script[n].usage => \A m \in Wanted : m <= n
           /\ NoUsage(Len(script)) => ~HasUsage
<1>1. pos \in Nat /\ Len(script) \in Nat /\ DOMAIN script = 1..Len(script)
  BY LenProperties DEF Typed
<1>2. \A n \in DOMAIN script : n \in Wanted <=> script[n].text /\ NoUsage(n - 1)
  BY DEF Wanted, NoUsage
<1>3. ASSUME NEW n \in DOMAIN script, script[n].usage, NEW m \in Wanted
      PROVE  m <= n
  <2>1. m \in 1..Len(script) /\ n \in 1..Len(script) /\ ~(n \in 1..(m - 1))
    BY <1>1, <1>3 DEF Wanted
  <2>2. QED
    BY <1>1, <2>1
<1>4. NoUsage(Len(script)) => ~HasUsage
  BY <1>1 DEF NoUsage, HasUsage
<1>5. QED
  BY <1>1, <1>2, <1>3, <1>4 DEF Wanted

-----------------------------------------------------------------------------
\* The goroutine.

LEMMA ScriptStays ==
    ASSUME UNCHANGED script
    PROVE  Wanted' = Wanted /\ HasUsage' = HasUsage /\ \A n : NoUsage(n)' = NoUsage(n)
BY DEF Wanted, HasUsage, NoUsage

LEMMA ChannelStays ==
    ASSUME UNCHANGED <<ch, got>>
    PROVE  /\ InChannel' = InChannel /\ Passed' = Passed /\ Told' = Told
           /\ InOrder => InOrder'
BY DEF InChannel, Passed, Told, InOrder

\* What a step of the goroutine that sends nothing has to show.
LEMMA GoroutineStep ==
    ASSUME SourceInv, UNCHANGED <<kind, script, breaks, ch, ctxDone, expired, left, hpc, got, final>>,
           gpc # "closed", gpc' \in {"next", "send", "closed"}, gpc' = "closed" => ctxDone, Todo',
           pos' \in 0..Len(script), pos <= pos',
           gpc' # "closed" =>
               {n \in Wanted : n <= pos'} \ Pending' = {n \in Wanted : n <= pos} \ Pending
    PROVE  SourceInv'
<1>0. Typed /\ InOrder /\ Complete /\ Ending /\ Verdict
  BY DEF SourceInv
<1>1. Wanted' = Wanted /\ HasUsage' = HasUsage /\ \A n : NoUsage(n)' = NoUsage(n)
  BY ScriptStays
<1>2. InChannel' = InChannel /\ Passed' = Passed /\ Told' = Told /\ InOrder'
  BY <1>0, ChannelStays
<1>3. ~Told
  BY <1>0 DEF Ending
<1>4. Typed'
  BY <1>0 DEF Typed
<1>5. Complete'
  <2>1. pos \in Nat /\ pos' \in Nat /\ \A n \in Wanted : n \in Nat
    BY <1>0, WantedFacts
  <2>2. {n \in Wanted : n <= pos} \subseteq {n \in Wanted : n <= pos'}
    BY <2>1
  <2>3. gpc' = "closed" => Pending' = {}
    BY DEF Todo, Pending
  <2>4. Passed \subseteq {n \in Wanted : n <= pos'} \ Pending'
    BY <1>0, <2>2, <2>3 DEF Complete
  <2>5. QED
    BY <1>0, <1>1, <1>2, <1>3, <2>4 DEF Complete
<1>6. Ending'
  BY <1>0, <1>2, <1>3 DEF Ending, Told
<1>7. Verdict'
  BY <1>0, <1>1 DEF Verdict, RelayExact, VerdictFaithful
<1>8. QED
  BY <1>2, <1>4, <1>5, <1>6, <1>7 DEF SourceInv

LEMMA ReceiveStep == SourceInv /\ Receive => SourceInv'
<1> SUFFICES ASSUME SourceInv, Receive PROVE SourceInv'
  OBVIOUS
<1> DEFINE n == pos + 1
<1>0. Typed /\ Todo
  BY DEF SourceInv
<1>1. /\ gpc = "next" /\ pos < Len(script) /\ pos' = n
      /\ UNCHANGED <<kind, script, breaks, ch, ctxDone, expired, left, hpc, got, final>>
  BY DEF Receive, handlerVars
<1>2. /\ pos \in Nat /\ n \in Nat /\ n \in DOMAIN script /\ n \in 0..Len(script) /\ pos <= n
      /\ n - 1 = pos
  BY <1>0, <1>1, WantedFacts
<1>3. todo = <<>> /\ NoUsage(pos) /\ Pending = {}
  BY <1>0, <1>1 DEF Todo, Pending
<1>4. Wanted' = Wanted /\ \A m : NoUsage(m)' = NoUsage(m)
  BY <1>1, ScriptStays
<1>5. CASE ctxDone /\ Close
  <2>1. Todo' /\ gpc' = "closed"
    BY <1>5 DEF Close, Todo
  <2>2. QED
    BY <1>1, <1>2, <1>5, <2>1, GoroutineStep
<1>6. CASE /\ ~ctxDone /\ todo' = Chunks(script[n], n)
           /\ gpc' = IF todo' = <<>> THEN "next" ELSE "send"
  <2>1. /\ n \in Wanted <=> script[n].text
        /\ script[n].text \in BOOLEAN /\ script[n].usage \in BOOLEAN
        /\ ~script[n].usage => NoUsage(n)
    <3>1. n \in Wanted <=> script[n].text
      BY <1>0, <1>2, <1>3, WantedFacts
    <3>2. script[n] \in Event
      BY <1>0, <1>2, ElementOfSeq, WantedFacts DEF Typed
    <3>3. \A m \in 1..n : m \in 1..pos \/ m = n
      BY <1>2
    <3>4. QED
      BY <1>3, <3>1, <3>2, <3>3 DEF Event, NoUsage
  <2>2. todo' = IF script[n].text
                THEN IF script[n].usage THEN <<Text(n), Usage>> ELSE <<Text(n)>>
                ELSE IF script[n].usage THEN <<Usage>> ELSE <<>>
    BY <1>0, <1>2, <1>6, ChunksCases
  <2>3. \A m \in Wanted : m <= n <=> m <= pos \/ m = n
    BY <1>0, <1>2, WantedFacts
  <2>4. ~(n <= pos)
    BY <1>2
  <2> HIDE DEF n
  <2>5. CASE script[n].text
    <3>1. todo' # <<>> /\ Head(todo') = Text(n) /\ gpc' = "send"
      BY <1>6, <2>2, <2>5, OneOrTwo
    <3>2. Pending' = {n}
      BY <1>1, <3>1 DEF Pending
    <3>3. Todo'
      <4>1. CASE script[n].usage
        BY <1>1, <1>4, <2>1, <2>2, <2>5, <3>1, <4>1 DEF Todo
      <4>2. CASE ~script[n].usage
        BY <1>1, <1>4, <2>1, <2>2, <2>5, <3>1, <4>2 DEF Todo
      <4>3. QED
        BY <4>1, <4>2
    <3>4. {m \in Wanted : m <= n} \ {n} = {m \in Wanted : m <= pos}
      BY <2>3, <2>4
    <3>5. QED
      BY <1>1, <1>2, <1>3, <3>1, <3>2, <3>3, <3>4, GoroutineStep
  <2>6. CASE ~script[n].text
    <3>1. {m \in Wanted : m <= n} = {m \in Wanted : m <= pos}
      BY <2>1, <2>3, <2>6
    <3>2. CASE script[n].usage
      <4>1. todo' = <<Usage>> /\ todo' # <<>> /\ gpc' = "send" /\ Head(todo') = Usage
        BY <1>6, <2>2, <2>6, <3>2, OneOrTwo
      <4>2. Pending' = {}
        BY <1>1, <1>2, <4>1, ChunkFacts DEF Pending, LastChunks
      <4>3. Justified(Usage)'
        BY <1>1, <1>2, <3>2, ChunkFacts DEF Justified
      <4>4. Todo'
        BY <4>1, <4>3 DEF Todo, LastChunks
      <4>5. QED
        BY <1>1, <1>2, <1>3, <3>1, <4>1, <4>2, <4>4, GoroutineStep
    <3>3. CASE ~script[n].usage
      <4>1. todo' = <<>> /\ gpc' = "next"
        BY <1>6, <2>2, <2>6, <3>3
      <4>2. Pending' = {} /\ Todo'
        BY <1>1, <1>4, <2>1, <3>3, <4>1 DEF Pending, Todo
      <4>3. QED
        BY <1>1, <1>2, <1>3, <3>1, <4>1, <4>2, GoroutineStep
    <3>4. QED
      BY <3>2, <3>3
  <2>7. QED
    BY <2>5, <2>6
<1>7. QED
  BY <1>5, <1>6 DEF Receive

\* The goroutine turns to a last chunk that is justified, or ends.
LEMMA TurnsToLast ==
    ASSUME SourceInv, gpc = "next",
           UNCHANGED <<kind, script, breaks, pos, ch, ctxDone, expired, left, hpc, got, final>>,
           \/ ctxDone /\ Close
           \/ \E c \in LastChunks : todo' = <<c>> /\ gpc' = "send" /\ Justified(c)
    PROVE  SourceInv'
<1>0. Typed /\ Todo
  BY DEF SourceInv
<1>1. pos \in Nat /\ pos \in 0..Len(script) /\ pos <= pos /\ Pending = {}
  BY <1>0, WantedFacts DEF Todo, Pending, Typed
<1>2. CASE ctxDone /\ Close
  BY <1>1, <1>2, GoroutineStep DEF Close, Todo
<1>3. ASSUME NEW c \in LastChunks, todo' = <<c>>, gpc' = "send", Justified(c)
      PROVE  SourceInv'
  <2>1. Justified(c)'
    BY <1>3, ScriptStays DEF Justified
  <2>2. Todo'
    BY <1>3, <2>1 DEF Todo
  <2>3. Head(todo') = c /\ c # Text(pos)
    BY <1>1, <1>3, OneOrTwo, ChunkFacts
  <2>4. Pending' = {}
    BY <2>3 DEF Pending
  <2>5. QED
    BY <1>1, <1>3, <2>2, <2>4, GoroutineStep
<1>4. QED
  BY <1>2, <1>3

LEMMA EndStep == SourceInv /\ End => SourceInv'
<1> SUFFICES ASSUME SourceInv, End PROVE SourceInv'
  OBVIOUS
<1>1. /\ gpc = "next" /\ pos = Len(script)
      /\ UNCHANGED <<kind, script, breaks, pos, ch, ctxDone, expired, left, hpc, got, final>>
  BY DEF End, handlerVars
<1>2. ~HasUsage
  BY <1>1, WantedFacts DEF SourceInv, Todo
<1>3. Justified(IF breaks THEN Error ELSE Done)
  BY <1>1, <1>2, ChunkFacts DEF Justified
<1>4. (IF breaks THEN Error ELSE Done) \in LastChunks
  BY DEF LastChunks
<1>5. QED
  BY <1>1, <1>3, <1>4, TurnsToLast DEF End

LEMMA InterruptedStep == SourceInv /\ Interrupted => SourceInv'
<1> SUFFICES ASSUME SourceInv, Interrupted PROVE SourceInv'
  OBVIOUS
<1>1. /\ gpc = "next" /\ ctxDone
      /\ UNCHANGED <<kind, script, breaks, pos, ch, ctxDone, expired, left, hpc, got, final>>
  BY DEF Interrupted, handlerVars
<1>2. Justified(Error) /\ Error \in LastChunks
  BY <1>1, ChunkFacts DEF Justified, LastChunks
<1>3. QED
  BY <1>1, <1>2, TurnsToLast DEF Interrupted

LEMMA GiveUpStep == SourceInv /\ GiveUp => SourceInv'
<1> SUFFICES ASSUME SourceInv, GiveUp PROVE SourceInv'
  OBVIOUS
<1>1. /\ gpc = "send" /\ ctxDone /\ gpc' = "closed" /\ todo' = <<>>
      /\ UNCHANGED <<kind, script, breaks, pos, ch, ctxDone, expired, left, hpc, got, final>>
  BY DEF GiveUp, Close, handlerVars
<1>2. pos \in Nat /\ pos \in 0..Len(script) /\ pos <= pos
  BY WantedFacts DEF SourceInv, Typed
<1>3. Todo'
  BY <1>1 DEF Todo
<1>4. QED
  BY <1>1, <1>2, <1>3, GoroutineStep

\* Everything in the channel is a chunk; the pieces there are numbers.
LEMMA InChannelFacts ==
    ASSUME Typed
    PROVE  /\ \A i \in DOMAIN ch : ch[i] \in Chunk
           /\ \A i \in DOMAIN ch : ch[i] \notin LastChunks => ch[i][2] \in InChannel
           /\ InChannel \subseteq Nat /\ Range(got) \subseteq Nat /\ Passed \subseteq Nat
           /\ \A n \in InChannel : \E i \in DOMAIN ch : ch[i] \notin LastChunks /\ ch[i][2] = n
<1>1. \A i \in DOMAIN ch : ch[i] \in Chunk
  BY ElementOfSeq, LenProperties DEF Typed
<1>2. Range(got) \subseteq Nat
  BY ElementOfSeq, LenProperties DEF Typed, Range
<1>3. InChannel \subseteq Nat
  BY <1>1, ChunkFacts DEF InChannel
<1>4. QED
  BY <1>1, <1>2, <1>3 DEF InChannel, Passed

LEMMA SendStep == SourceInv /\ Send => SourceInv'
<1> SUFFICES ASSUME SourceInv, Send PROVE SourceInv'
  OBVIOUS
<1> DEFINE c == Head(todo)
<1>0. Typed /\ Todo /\ InOrder /\ Complete /\ Ending /\ Verdict
  BY DEF SourceInv
<1>1. /\ gpc = "send" /\ Len(ch) < BufSize /\ ch' = Append(ch, c)
      /\ UNCHANGED <<kind, script, breaks, pos, ctxDone, expired, left, hpc, got, final>>
  BY DEF Send, handlerVars
<1>2. Wanted' = Wanted /\ HasUsage' = HasUsage /\ \A n : NoUsage(n)' = NoUsage(n)
  BY <1>1, ScriptStays
<1>3. pos \in Nat /\ DOMAIN script \subseteq Nat /\ Wanted \subseteq Nat
  BY <1>0, WantedFacts
<1>4. \/ /\ c = Text(pos) /\ pos \in Wanted /\ c \notin LastChunks
         /\ \/ Tail(todo) = <<>> /\ NoUsage(pos)
            \/ Tail(todo) = <<Usage>> /\ script[pos].usage
         /\ Pending = {pos}
      \/ c \in LastChunks /\ Justified(c) /\ Pending = {}
  <2>1. CASE todo = <<Text(pos)>> /\ pos \in Wanted /\ NoUsage(pos)
    BY <1>3, <2>1, OneOrTwo, ChunkFacts DEF Pending
  <2>2. CASE todo = <<Text(pos), Usage>> /\ pos \in Wanted /\ script[pos].usage
    BY <1>3, <2>2, OneOrTwo, ChunkFacts DEF Pending
  <2>3. ASSUME NEW d \in LastChunks, todo = <<d>>, Justified(d)
        PROVE  c \in LastChunks /\ Justified(c) /\ Pending = {}
    BY <1>3, <2>3, OneOrTwo, ChunkFacts DEF Pending
  <2>4. QED
    BY <1>0, <1>1, <2>1, <2>2, <2>3 DEF Todo
<1>5. c \in Chunk
  BY <1>3, <1>4, ChunkFacts
<1>6. IF c \in LastChunks
      THEN gpc' = "closed" /\ todo' = <<>>
      ELSE todo' = Tail(todo) /\ gpc' = IF Tail(todo) = <<>> THEN "next" ELSE "send"
  BY DEF Send, Close
<1> HIDE DEF c
<1>7. /\ ch' \in Seq(Chunk) /\ Len(ch') = Len(ch) + 1 /\ Len(ch) \in Nat
      /\ DOMAIN ch = 1..Len(ch) /\ DOMAIN ch' = 1..(Len(ch) + 1)
      /\ \A i \in DOMAIN ch : ch'[i] = ch[i]
      /\ ch'[Len(ch) + 1] = c
  BY <1>0, <1>1, <1>5, Appended DEF Typed
<1>8. /\ DOMAIN ch' = DOMAIN ch \cup {Len(ch) + 1} /\ Len(ch) + 1 \notin DOMAIN ch
      /\ \A i \in DOMAIN ch : i \in Nat /\ i < Len(ch) + 1 /\ ~(Len(ch) + 1 < i)
      /\ ~(Len(ch) + 1 < Len(ch) + 1)
  BY <1>7
<1>9. \A i \in DOMAIN ch : ch[i] \notin LastChunks
  BY <1>0, <1>1 DEF Ending, Told
<1>10. /\ Passed \subseteq {n \in Wanted : n <= pos} \ Pending
       /\ ~expired => Passed = {n \in Wanted : n <= pos} \ Pending
  BY <1>0, <1>1 DEF Complete
<1>11. gpc' \in {"next", "send", "closed"} /\ Typed'
  <2>1. Len(ch') <= BufSize
    BY <1>1, <1>7, SourceConfig
  <2>2. gpc' \in {"next", "send", "closed"}
    BY <1>6
  <2>3. QED
    BY <1>0, <1>1, <1>7, <2>1, <2>2 DEF Typed
<1>12. Verdict'
  BY <1>0, <1>1, <1>2 DEF Verdict, RelayExact, VerdictFaithful
<1>13. \A i, j \in DOMAIN ch' : i < j => ch'[i] \notin LastChunks
  BY <1>7, <1>8, <1>9
<1>14. CASE c \in LastChunks
  <2>1. InChannel' = InChannel
    BY <1>7, <1>8, <1>14 DEF InChannel
  <2>2. Passed' = Passed
    BY <1>1, <2>1 DEF Passed
  <2>3. Pending' = {} /\ Todo' /\ Pending = {} /\ Justified(c)
    BY <1>4, <1>6, <1>14 DEF Pending, Todo
  <2>4. InOrder'
    <3>1. \A i, j \in DOMAIN ch' : i < j /\ ch'[j] \notin LastChunks => ch'[i][2] < ch'[j][2]
      BY <1>0, <1>7, <1>8, <1>14 DEF InOrder
    <3>2. QED
      BY <1>0, <1>1, <1>13, <2>1, <3>1 DEF InOrder
  <2>5. Complete'
    BY <1>0, <1>1, <1>2, <1>10, <2>2, <2>3 DEF Complete
  <2>6. Ending'
    <3>1. \A i \in DOMAIN ch' : ch'[i] \in LastChunks => ch'[i] = c
      BY <1>7, <1>8, <1>9
    <3>2. \A i \in DOMAIN ch' : ch'[i] \in LastChunks => Justified(ch'[i])
      BY <2>3, <3>1
    <3>3. Told'
      BY <1>7, <1>8, <1>14 DEF Told
    <3>4. gpc' = "closed"
      BY <1>6, <1>14
    <3>5. (\A i \in DOMAIN ch : ch[i] \in LastChunks => Justified(ch[i]))'
      BY <1>1, <1>2, <3>2 DEF Justified
    <3>6. QED
      BY <1>0, <1>1, <3>3, <3>4, <3>5 DEF Ending
  <2>7. QED
    BY <1>11, <1>12, <2>3, <2>4, <2>5, <2>6 DEF SourceInv
<1>15. CASE c \notin LastChunks
  <2>1. c = Text(pos) /\ c[2] = pos /\ pos \in Wanted /\ Pending = {pos}
    BY <1>3, <1>4, <1>15, ChunkFacts
  <2>2. InChannel' = InChannel \cup {pos}
    BY <1>7, <1>8, <1>15, <2>1 DEF InChannel
  <2>3. Passed' = Passed \cup {pos}
    BY <1>1, <2>2 DEF Passed
  <2>4. \A n \in Passed : n < pos
    BY <1>3, <1>10, <2>1
  <2>5. Pending' = {} /\ Todo'
    <3>1. CASE Tail(todo) = <<>> /\ NoUsage(pos)
      BY <1>1, <1>2, <1>6, <1>15, <3>1 DEF Pending, Todo
    <3>2. CASE Tail(todo) = <<Usage>> /\ script[pos].usage
      <4>1. todo' = <<Usage>> /\ gpc' = "send"
        BY <1>6, <1>15, <3>2, OneOrTwo
      <4>2. Justified(Usage)' /\ Usage \in LastChunks
        BY <1>1, <2>1, <3>2, ChunkFacts DEF Justified, Wanted, LastChunks
      <4>3. Pending' = {}
        BY <1>1, <1>3, <4>1, <4>2, OneOrTwo, ChunkFacts DEF Pending
      <4>4. QED
        BY <4>1, <4>2, <4>3 DEF Todo
    <3>3. QED
      BY <1>4, <1>15, <3>1, <3>2
  <2>6. InOrder'
    <3>1. \A i \in DOMAIN ch : ch[i][2] < pos
      BY <1>0, <1>9, <2>4, InChannelFacts DEF Passed
    <3>2. \A i, j \in DOMAIN ch' : i < j /\ ch'[j] \notin LastChunks => ch'[i][2] < ch'[j][2]
      BY <1>0, <1>7, <1>8, <2>1, <3>1 DEF InOrder
    <3>3. \A m \in Range(got), n \in InChannel \cup {pos} : m < n
      BY <1>0, <2>4 DEF InOrder, Passed
    <3>4. QED
      BY <1>0, <1>1, <1>13, <2>2, <3>2, <3>3 DEF InOrder
  <2>7. Complete'
    <3>1. /\ Passed' \subseteq {n \in Wanted : n <= pos}
          /\ ~expired => Passed' = {n \in Wanted : n <= pos}
      BY <1>3, <1>10, <2>1, <2>3
    <3>2. ~expired => \A n \in Passed', m \in Wanted : m < n => m \in Passed'
      BY <1>3, <3>1
    <3>3. QED
      BY <1>1, <1>2, <2>5, <3>1, <3>2 DEF Complete
  <2>8. Ending'
    <3>1. \A i \in DOMAIN ch' : ch'[i] \notin LastChunks
      BY <1>7, <1>8, <1>9, <1>15
    <3>2. gpc' # "closed" /\ ~Told'
      BY <1>6, <1>15, <3>1 DEF Told
    <3>3. QED
      BY <1>0, <1>1, <3>1, <3>2 DEF Ending
  <2>9. QED
    BY <1>11, <1>12, <2>5, <2>6, <2>7, <2>8 DEF SourceInv
<1>16. QED
  BY <1>14, <1>15

-----------------------------------------------------------------------------
\* The handler's loop and the client.

\* What a step that leaves the goroutine alone has to show of it.
LEMMA GoroutineStays ==
    ASSUME SourceInv, UNCHANGED <<script, breaks, pos, gpc, todo>>, ctxDone => ctxDone'
    PROVE  Todo' /\ Pending' = Pending
<1>1. /\ Wanted' = Wanted /\ HasUsage' = HasUsage /\ \A n : NoUsage(n)' = NoUsage(n)
      /\ Pending' = Pending
  BY ScriptStays DEF Pending
<1>2. \A c \in LastChunks : Justified(c) => Justified(c)'
  BY <1>1 DEF Justified
<1>3. Todo
  BY DEF SourceInv
<1>4. CASE gpc = "send"
  <2>1. CASE todo = <<Text(pos)>> /\ pos \in Wanted /\ NoUsage(pos)
    BY <1>1, <1>4, <2>1 DEF Todo
  <2>2. CASE todo = <<Text(pos), Usage>> /\ pos \in Wanted /\ script[pos].usage
    BY <1>1, <1>4, <2>2 DEF Todo
  <2>3. CASE \E c \in LastChunks : todo = <<c>> /\ Justified(c)
    <3>1. \E c \in LastChunks : todo' = <<c>> /\ Justified(c)'
      BY <1>2, <2>3
    <3>2. QED
      BY <1>1, <1>4, <3>1 DEF Todo
  <2>4. QED
    BY <1>3, <1>4, <2>1, <2>2, <2>3 DEF Todo
<1>5. CASE gpc # "send"
  BY <1>1, <1>3, <1>5 DEF Todo
<1>6. QED
  BY <1>1, <1>4, <1>5

\* What a step of the handler or the client has to show when it takes no chunk.
LEMMA HandlerStep ==
    ASSUME SourceInv, UNCHANGED <<kind, script, breaks, pos, gpc, todo, ch, got>>,
           ctxDone => ctxDone', ctxDone' \in BOOLEAN, left' \in BOOLEAN,
           expired => expired', expired' \in BOOLEAN,
           hpc' \in {"loop", "recv", "ended"},
           final' \in {"none", "usage", "done", "error", "gone"},
           hpc' # "ended" => final' = "none" /\ (ctxDone' => left' \/ expired'),
           hpc' = "ended" => ctxDone',
           Verdict'
    PROVE  SourceInv'
<1>0. Typed /\ InOrder /\ Complete /\ Ending
  BY DEF SourceInv
<1>1. Wanted' = Wanted /\ HasUsage' = HasUsage /\ Todo' /\ Pending' = Pending
  BY ScriptStays, GoroutineStays
<1>2. InChannel' = InChannel /\ Passed' = Passed /\ Told' = Told /\ InOrder'
  BY <1>0, ChannelStays
<1>3. Typed'
  BY <1>0 DEF Typed
<1>4. Complete'
  BY <1>0, <1>1, <1>2 DEF Complete
<1>5. Ending'
  <2>1. (\A i \in DOMAIN ch : ch[i] \in LastChunks => Justified(ch[i]))'
    BY <1>0, <1>1 DEF Ending, Justified
  <2>2. QED
    BY <1>0, <1>2, <2>1 DEF Ending
<1>6. QED
  BY <1>1, <1>2, <1>3, <1>4, <1>5 DEF SourceInv

LEMMA DisconnectStep == SourceInv /\ Disconnect => SourceInv'
<1> SUFFICES ASSUME SourceInv, Disconnect PROVE SourceInv'
  OBVIOUS
<1>1. /\ hpc # "ended" /\ left' = TRUE /\ ctxDone' = TRUE
      /\ UNCHANGED <<kind, script, breaks, pos, gpc, todo, ch, expired, got, hpc, final>>
  BY DEF Disconnect, sourceVars, handlerVars
<1>2. /\ final = "none" /\ hpc \in {"loop", "recv", "ended"} /\ expired \in BOOLEAN
      /\ RelayExact
  BY <1>1 DEF SourceInv, Ending, Typed, Verdict
<1>3. Wanted' = Wanted
  BY <1>1, ScriptStays
<1>4. Verdict'
  BY <1>1, <1>2, <1>3 DEF Verdict, RelayExact, VerdictFaithful
<1>5. QED
  BY <1>1, <1>2, <1>4, HandlerStep

LEMMA DeadlineStep == SourceInv /\ DeadlinePasses => SourceInv'
<1> SUFFICES ASSUME SourceInv, DeadlinePasses PROVE SourceInv'
  OBVIOUS
<1>1. /\ hpc # "ended" /\ expired' = TRUE
      /\ UNCHANGED <<kind, script, breaks, pos, gpc, todo, ch, ctxDone, left, got, hpc, final>>
  BY DEF DeadlinePasses, sourceVars, handlerVars
<1>2. /\ final = "none" /\ hpc \in {"loop", "recv", "ended"} /\ RelayExact
      /\ ctxDone \in BOOLEAN /\ left \in BOOLEAN
  BY <1>1 DEF SourceInv, Ending, Typed, Verdict
<1>3. Wanted' = Wanted
  BY <1>1, ScriptStays
<1>4. Verdict'
  BY <1>1, <1>2, <1>3 DEF Verdict, RelayExact, VerdictFaithful
<1>5. QED
  BY <1>1, <1>2, <1>4, HandlerStep

LEMMA CheckClientStep == SourceInv /\ CheckClient => SourceInv'
<1> SUFFICES ASSUME SourceInv, CheckClient PROVE SourceInv'
  OBVIOUS
<1>1. /\ hpc = "loop"
      /\ UNCHANGED <<kind, script, breaks, pos, gpc, todo, ch, expired, left, got>>
  BY DEF CheckClient, sourceVars
<1>2. /\ final = "none" /\ (ctxDone => left \/ expired) /\ RelayExact
      /\ left \in BOOLEAN /\ ctxDone \in BOOLEAN /\ expired \in BOOLEAN
  BY <1>1 DEF SourceInv, Ending, Typed, Verdict
<1>3. Wanted' = Wanted
  BY <1>1, ScriptStays
<1>4. \/ left /\ hpc' = "ended" /\ final' = "gone" /\ ctxDone' = TRUE
      \/ hpc' = "recv" /\ final' = final /\ ctxDone' = ctxDone
  BY DEF CheckClient, EndLoop
<1>5. Verdict'
  BY <1>1, <1>2, <1>3, <1>4 DEF Verdict, RelayExact, VerdictFaithful
<1>6. /\ ctxDone => ctxDone'
      /\ ctxDone' \in BOOLEAN /\ left' \in BOOLEAN /\ hpc' \in {"loop", "recv", "ended"}
      /\ final' \in {"none", "usage", "done", "error", "gone"}
      /\ hpc' # "ended" => final' = "none" /\ (ctxDone' => left' \/ expired')
      /\ hpc' = "ended" => ctxDone'
  <2>1. CASE left /\ hpc' = "ended" /\ final' = "gone" /\ ctxDone' = TRUE
    BY <1>1, <1>2, <2>1
  <2>2. CASE hpc' = "recv" /\ final' = final /\ ctxDone' = ctxDone
    <3>1. left' = left /\ (ctxDone' => left' \/ expired')
      BY <1>1, <1>2, <2>2, Zenon
    <3>2. QED
      BY <1>2, <2>2, <3>1
  <2>3. QED
    BY <1>4, <2>1, <2>2
<1>7. (expired => expired') /\ expired' \in BOOLEAN
  BY <1>1, <1>2
<1>8. QED
  BY <1>1, <1>5, <1>6, <1>7, HandlerStep

LEMMA RelayClosedStep == SourceInv /\ RelayClosed => SourceInv'
<1> SUFFICES ASSUME SourceInv, RelayClosed PROVE SourceInv'
  OBVIOUS
<1>1. /\ hpc = "recv" /\ ch = <<>> /\ gpc = "closed"
      /\ hpc' = "ended" /\ final' = "done" /\ ctxDone' = TRUE
      /\ UNCHANGED <<kind, script, breaks, pos, gpc, todo, ch, expired, left, got>>
  BY DEF RelayClosed, EndLoop, sourceVars
<1>2. (left \/ expired) /\ left \in BOOLEAN /\ expired \in BOOLEAN
  <2>1. ~Told
    BY <1>1 DEF Told
  <2>2. QED
    BY <1>1, <2>1 DEF SourceInv, Ending, Typed
<1>3. Wanted' = Wanted
  BY <1>1, ScriptStays
<1>4. Verdict'
  BY <1>1, <1>2, <1>3 DEF SourceInv, Verdict, RelayExact, VerdictFaithful
<1>5. QED
  BY <1>1, <1>2, <1>4, HandlerStep

\* Before the deadline the client is told how the answer ended, and has all that passed.
LEMMA LastChunkRelayed ==
    ASSUME SourceInv, ch # <<>>, hpc # "ended", NEW c \in LastChunks, Head(ch) = c, ~expired
    PROVE  /\ ~left => c # Error \/ (breaks /\ ~HasUsage)
           /\ c = Usage => HasUsage
           /\ c = Done => ~breaks
           /\ c # Error => Wanted \subseteq Range(got)
<1>0. Typed /\ Todo /\ InOrder /\ Complete /\ Ending
  BY DEF SourceInv
<1>1. Len(ch) \in Nat \ {0} /\ Head(ch) = ch[1] /\ DOMAIN ch = 1..Len(ch)
  BY <1>0, Received DEF Typed
<1>2. 1 \in DOMAIN ch
  BY <1>1
<1>3. \A i \in DOMAIN ch : i = 1
  <2>1. \A i \in DOMAIN ch : i = 1 \/ 1 < i
    BY <1>1
  <2>2. QED
    BY <1>0, <1>1, <1>2, <2>1 DEF InOrder
<1>4. Told /\ gpc = "closed" /\ Justified(c) /\ InChannel = {}
  BY <1>0, <1>1, <1>2, <1>3 DEF Told, Ending, InChannel
<1>5. ctxDone => left
  BY <1>0 DEF Ending
<1>6. Range(got) = {n \in Wanted : n <= pos}
  <2>1. Pending = {}
    BY <1>0, <1>4 DEF Pending, Todo
  <2>2. QED
    BY <1>0, <1>4, <2>1 DEF Complete, Passed
<1>7. c = Usage => HasUsage /\ \A n \in Wanted : n <= pos
  BY <1>0, <1>4, WantedFacts DEF Justified, HasUsage
<1>8. c = Done => ~breaks /\ \A n \in Wanted : n <= pos
  <2>1. \A n \in Wanted : n <= Len(script)
    BY <1>0, WantedFacts
  <2>2. QED
    BY <1>4, <2>1 DEF Justified
<1>9. QED
  BY <1>4, <1>5, <1>6, <1>7, <1>8 DEF Justified, LastChunks

LEMMA RelayStep == SourceInv /\ Relay => SourceInv'
<1> SUFFICES ASSUME SourceInv, Relay PROVE SourceInv'
  OBVIOUS
<1> DEFINE c == Head(ch)
<1>0. Typed /\ Todo /\ InOrder /\ Complete /\ Ending /\ Verdict
  BY DEF SourceInv
<1>1. /\ hpc = "recv" /\ ch # <<>> /\ ch' = Tail(ch)
      /\ UNCHANGED <<kind, script, breaks, pos, gpc, todo, expired, left>>
  BY DEF Relay, sourceVars
<1>2. Wanted' = Wanted /\ HasUsage' = HasUsage
  BY <1>1, ScriptStays
<1>3. /\ ctxDone => ctxDone'
      /\ \/ /\ c \in LastChunks
            /\ hpc' = "ended" /\ final' = c[1] /\ ctxDone' = TRUE /\ got' = got
         \/ c \notin LastChunks /\ hpc' = "loop" /\ final' = final /\ Write(c[2])
  BY DEF Relay, EndLoop, Write
<1>4. /\ ch' \in Seq(Chunk) /\ Len(ch') = Len(ch) - 1 /\ Len(ch) \in Nat \ {0}
      /\ c = ch[1] /\ c \in Chunk
      /\ DOMAIN ch = 1..Len(ch) /\ DOMAIN ch' = 1..(Len(ch) - 1)
      /\ \A i \in DOMAIN ch' : ch'[i] = ch[i + 1]
  BY <1>0, <1>1, Received DEF Typed
<1>5. /\ 1 \in DOMAIN ch
      /\ \A i \in DOMAIN ch' : i + 1 \in DOMAIN ch /\ i \in Nat /\ 1 < i + 1
      /\ \A i \in DOMAIN ch : i = 1 \/ (i - 1 \in DOMAIN ch' /\ (i - 1) + 1 = i)
      /\ \A i, j \in DOMAIN ch' : i < j => i + 1 < j + 1
  BY <1>4
<1>6. Len(ch') <= BufSize
  BY <1>0, <1>4, SourceConfig DEF Typed
<1>7. Todo' /\ Pending' = Pending
  BY <1>1, <1>3, GoroutineStays
<1>8. /\ final = "none" /\ (ctxDone => left \/ expired)
      /\ left \in BOOLEAN /\ ctxDone \in BOOLEAN /\ expired \in BOOLEAN
  BY <1>0, <1>1 DEF Ending, Typed
<1> HIDE DEF c
<1>9. /\ \A i, j \in DOMAIN ch' : i < j => ch'[i] \notin LastChunks
      /\ \A i, j \in DOMAIN ch' : i < j /\ ch'[j] \notin LastChunks => ch'[i][2] < ch'[j][2]
  <2>1. \A i, j \in DOMAIN ch' : i < j => ch'[i] \notin LastChunks
    BY <1>0, <1>4, <1>5 DEF InOrder
  <2>2. ASSUME NEW i \in DOMAIN ch', NEW j \in DOMAIN ch', i < j, ch'[j] \notin LastChunks
        PROVE  ch'[i][2] < ch'[j][2]
    <3>1. i + 1 \in DOMAIN ch /\ j + 1 \in DOMAIN ch /\ i + 1 < j + 1
      BY <1>5, <2>2
    <3>2. ch'[i] = ch[i + 1] /\ ch'[j] = ch[j + 1]
      BY <1>4
    <3>3. ch[i + 1][2] < ch[j + 1][2]
      BY <1>0, <2>2, <3>1, <3>2 DEF InOrder
    <3>4. QED
      BY <3>2, <3>3
  <2>3. QED
    BY <2>1, <2>2
<1>10. (\A i \in DOMAIN ch : ch[i] \in LastChunks => Justified(ch[i]))'
  <2>1. \A i \in DOMAIN ch' : ch'[i] \in LastChunks => Justified(ch'[i])
    BY <1>0, <1>4, <1>5 DEF Ending
  <2>2. ctxDone => ctxDone'
    BY <1>3
  <2>3. QED
    BY <1>1, <1>2, <2>1, <2>2 DEF Justified
<1>11. CASE c \in LastChunks
  <2>1. hpc' = "ended" /\ final' = c[1] /\ ctxDone' = TRUE /\ got' = got
    BY <1>3, <1>11
  <2>2. \A i \in DOMAIN ch : i = 1
    <3>1. \A i \in DOMAIN ch : i = 1 \/ 1 < i
      BY <1>4
    <3>2. QED
      BY <1>0, <1>4, <1>5, <1>11, <3>1 DEF InOrder
  <2>3. DOMAIN ch' = {} /\ InChannel' = {} /\ InChannel = {} /\ ~Told'
    <3>1. DOMAIN ch' = {}
      <4>1. Len(ch) \in DOMAIN ch
        BY <1>4
      <4>2. Len(ch) = 1
        BY <2>2, <4>1
      <4>3. DOMAIN ch' = 1..0
        BY <1>4, <4>2
      <4>4. QED
        BY <4>3
    <3>2. QED
      BY <1>4, <1>11, <2>2, <3>1 DEF InChannel, Told
  <2>4. Passed' = Passed /\ gpc = "closed" /\ Told
    BY <1>0, <1>4, <1>5, <1>11, <2>1, <2>3 DEF Passed, Told, Ending
  <2>5. c \in {Usage, Done, Error} /\ final' \in {"usage", "done", "error"}
        /\ (final' = "usage" <=> c = Usage) /\ (final' = "error" <=> c = Error)
    BY <1>11, <2>1, ChunkFacts DEF LastChunks
  <2>6. ~expired => /\ ~left => c # Error \/ (breaks /\ ~HasUsage)
                    /\ c = Usage => HasUsage
                    /\ c = Done => ~breaks
                    /\ c # Error => Wanted \subseteq Range(got)
    BY <1>1, <1>11, LastChunkRelayed DEF c
  <2>7. Typed'
    BY <1>0, <1>1, <1>4, <1>6, <2>1, <2>5 DEF Typed
  <2>8. InOrder'
    BY <1>0, <1>9, <2>1, <2>3 DEF InOrder
  <2>9. Complete'
    BY <1>0, <1>1, <1>2, <1>7, <2>4 DEF Complete
  <2>10. Ending'
    BY <1>10, <2>1, <2>3 DEF Ending
  <2>11. RelayExact'
    <3>1. final' \in {"usage", "done"} /\ ~expired => Wanted \subseteq Range(got)
      BY <2>5, <2>6
    <3>2. RelayExact
      BY <1>0 DEF Verdict
    <3>3. QED
      BY <1>1, <1>2, <2>1, <3>1, <3>2 DEF RelayExact
  <2>12. VerdictFaithful'
    <3>1. ~left /\ ~expired => (c = Error <=> breaks /\ ~HasUsage)
      BY <2>5, <2>6, ChunkFacts
    <3>2. QED
      BY <1>1, <1>2, <2>5, <3>1 DEF VerdictFaithful
  <2>13. QED
    BY <1>7, <2>7, <2>8, <2>9, <2>10, <2>11, <2>12 DEF SourceInv, Verdict
<1>12. ASSUME c \notin LastChunks
       PROVE  /\ c[2] \in Nat /\ c[2] \in InChannel
              /\ InChannel = InChannel' \cup {c[2]}
              /\ \A m \in InChannel' : c[2] < m
              /\ Told' <=> Told
  <2> DEFINE n == c[2]
  <2>1. n \in Nat /\ n \in InChannel
    BY <1>4, <1>5, <1>12, ChunkFacts DEF InChannel
  <2> HIDE DEF n
  <2>2. InChannel = InChannel' \cup {n} /\ \A m \in InChannel' : n < m
    <3>1. InChannel' \subseteq InChannel
      BY <1>4, <1>5 DEF InChannel
    <3>2. InChannel \subseteq InChannel' \cup {n}
      <4> SUFFICES ASSUME NEW i \in DOMAIN ch, ch[i] \notin LastChunks
                   PROVE  ch[i][2] \in InChannel' \cup {n}
        BY DEF InChannel
      <4>1. CASE i = 1
        BY <1>4, <4>1 DEF n
      <4>2. CASE i # 1
        <5>1. i - 1 \in DOMAIN ch' /\ ch'[i - 1] = ch[i]
          BY <1>4, <1>5, <4>2
        <5>2. QED
          BY <5>1 DEF InChannel
      <4>3. QED
        BY <4>1, <4>2
    <3>3. ASSUME NEW m \in InChannel' PROVE n < m
      <4>1. PICK i \in DOMAIN ch' : ch'[i] \notin LastChunks /\ ch'[i][2] = m
        BY <3>3 DEF InChannel
      <4>2. ch'[i] = ch[i + 1] /\ i + 1 \in DOMAIN ch /\ 1 < i + 1
        BY <1>4, <1>5
      <4>3. ch[1][2] < ch[i + 1][2]
        BY <1>0, <1>5, <4>1, <4>2 DEF InOrder
      <4>4. QED
        BY <1>4, <4>1, <4>2, <4>3 DEF n
    <3>4. QED
      BY <2>1, <3>1, <3>2, <3>3
  <2>3. Told' <=> Told
    <3>1. Told' => Told
      BY <1>4, <1>5 DEF Told
    <3>2. Told => Told'
      <4> SUFFICES ASSUME NEW i \in DOMAIN ch, ch[i] \in LastChunks PROVE Told'
        BY DEF Told
      <4>1. i # 1
        BY <1>4, <1>12
      <4>2. i - 1 \in DOMAIN ch' /\ ch'[i - 1] = ch[i]
        BY <1>4, <1>5, <4>1
      <4>3. QED
        BY <4>2 DEF Told
    <3>3. QED
      BY <3>1, <3>2
  <2>4. QED
    BY <2>1, <2>2, <2>3 DEF n
<1>13. CASE c \notin LastChunks /\ ~expired
  <2> DEFINE n == c[2]
  <2>1. got' = Append(got, n) /\ hpc' = "loop" /\ final' = final /\ ctxDone' = ctxDone
    BY <1>3, <1>13 DEF Write
  <2>2. n \in Nat /\ n \in InChannel
    BY <1>12, <1>13
  <2>3. InChannel = InChannel' \cup {n} /\ \A m \in InChannel' : n < m
    BY <1>12, <1>13
  <2>4. Told' <=> Told
    BY <1>12, <1>13
  <2> HIDE DEF n
  <2>5. /\ got' \in Seq(Nat) /\ Len(got) \in Nat
        /\ DOMAIN got = 1..Len(got) /\ DOMAIN got' = 1..(Len(got) + 1)
        /\ \A i \in DOMAIN got : got'[i] = got[i]
        /\ got'[Len(got) + 1] = n
        /\ Range(got') = Range(got) \cup {n}
    <3>1. got \in Seq(Nat) /\ n \in Nat
      BY <1>0, <2>2 DEF Typed
    <3>2. QED
      BY <2>1, <3>1, Appended
  <2>6. Passed' = Passed
    BY <2>5, <2>3 DEF Passed
  <2>7. Typed'
    BY <1>0, <1>1, <1>4, <1>6, <2>1, <2>5 DEF Typed
  <2>8. \A i, j \in DOMAIN got' : i < j => got'[i] < got'[j]
    <3>1. \A i \in DOMAIN got : got[i] < n
      BY <1>0, <2>2 DEF InOrder, Range
    <3>2. \A i \in DOMAIN got' : i \in DOMAIN got \/ i = Len(got) + 1
      BY <2>5
    <3>3. \A i, j \in DOMAIN got' : i < j => i \in DOMAIN got
      BY <2>5
    <3>4. QED
      BY <1>0, <2>5, <3>1, <3>2, <3>3 DEF InOrder
  <2>9. \A m \in Range(got'), k \in InChannel' : m < k
    BY <1>0, <2>5, <2>3 DEF InOrder
  <2>10. InOrder'
    BY <1>9, <2>8, <2>9 DEF InOrder
  <2>11. Complete'
    BY <1>0, <1>1, <1>2, <1>7, <1>13, <2>6, <2>4 DEF Complete
  <2>12. Ending'
    BY <1>0, <1>1, <1>8, <1>10, <2>1, <2>4 DEF Ending
  <2>13. Verdict'
    <3>1. final' = "none"
      BY <1>8, <2>1
    <3>2. n \in Wanted
      BY <1>0, <2>2 DEF Complete, Passed
    <3>3. \A m \in Wanted : m < n => m \in Range(got)
      <4>1. \A m \in Wanted : m < n => m \in Passed /\ m \in Nat
        BY <1>0, <1>13, <2>2, WantedFacts DEF Complete, Passed
      <4>2. \A m \in InChannel : m \in Nat /\ ~(m < n)
        BY <1>0, <2>2, <2>3, InChannelFacts
      <4>3. QED
        BY <4>1, <4>2 DEF Passed
    <3>4. /\ Range(got) \subseteq Wanted
          /\ \A k \in Range(got), m \in Wanted : m < k => m \in Range(got)
      BY <1>0 DEF Verdict, RelayExact
    <3>5. QED
      BY <1>2, <2>5, <2>8, <3>1, <3>2, <3>3, <3>4 DEF Verdict, RelayExact, VerdictFaithful
  <2>14. QED
    BY <1>7, <2>7, <2>10, <2>11, <2>12, <2>13 DEF SourceInv
<1>14. CASE c \notin LastChunks /\ expired
  <2>1. got' = got /\ hpc' = "loop" /\ final' = final /\ ctxDone' = TRUE /\ expired'
    BY <1>1, <1>3, <1>14 DEF Write
  <2>2. InChannel' \subseteq InChannel /\ Passed' \subseteq Passed /\ (Told' <=> Told)
    BY <1>12, <1>14, <2>1 DEF Passed
  <2>3. Typed'
    BY <1>0, <1>1, <1>4, <1>6, <2>1 DEF Typed
  <2>4. InOrder'
    BY <1>0, <1>9, <2>1, <2>2 DEF InOrder
  <2>5. Complete'
    BY <1>0, <1>1, <1>2, <1>7, <2>1, <2>2 DEF Complete
  <2>6. Ending'
    BY <1>0, <1>1, <1>8, <1>10, <2>1, <2>2 DEF Ending
  <2>7. Verdict'
    BY <1>0, <1>2, <1>8, <2>1 DEF Verdict, RelayExact, VerdictFaithful
  <2>8. QED
    BY <1>7, <2>3, <2>4, <2>5, <2>6, <2>7 DEF SourceInv
<1>15. QED
  BY <1>11, <1>13, <1>14

-----------------------------------------------------------------------------
\* The theorems.

LEMMA SourceInvInit == Init => SourceInv
<1> SUFFICES ASSUME Init PROVE SourceInv
  OBVIOUS
<1>1. /\ kind \in Kinds /\ script \in Scripts[kind] /\ breaks \in BOOLEAN
      /\ pos = 0 /\ gpc = "next" /\ todo = <<>> /\ ch = <<>>
      /\ ctxDone = FALSE /\ expired = FALSE /\ left = FALSE
      /\ hpc = "loop" /\ got = <<>> /\ final = "none"
  BY DEF Init
<1>2. script \in Seq(Event) /\ Len(script) \in Nat /\ 0 \in 0..Len(script)
  <2>1. script \in Seq(Event)
    BY <1>1, SourceConfig
  <2>2. Len(script) \in Nat
    BY <2>1, LenProperties
  <2>3. QED
    BY <2>1, <2>2
<1>3. ch \in Seq(Chunk) /\ got \in Seq(Nat) /\ Len(ch) <= BufSize
      /\ DOMAIN ch = {} /\ DOMAIN got = {} /\ Range(got) = {}
  BY <1>1, EmptySeq, SourceConfig DEF Range
<1>4. Typed
  BY <1>1, <1>2, <1>3 DEF Typed
<1>5. InChannel = {} /\ ~Told /\ Passed = {}
  BY <1>3 DEF InChannel, Told, Passed
<1>6. Todo
  BY <1>1 DEF Todo, NoUsage
<1>7. Complete
  <2>1. \A n \in Wanted : ~(n <= 0)
    BY <1>4, WantedFacts
  <2>2. QED
    BY <1>1, <1>5, <2>1 DEF Complete
<1>8. InOrder /\ Ending /\ Verdict
  BY <1>1, <1>3, <1>5 DEF InOrder, Ending, Verdict, RelayExact, VerdictFaithful
<1>9. QED
  BY <1>4, <1>6, <1>7, <1>8 DEF SourceInv

LEMMA SourceInvStep == SourceInv /\ [Next]_vars => SourceInv'
<1> SUFFICES ASSUME SourceInv, [Next]_vars PROVE SourceInv'
  OBVIOUS
<1>1. CASE Next
  BY <1>1, ReceiveStep, EndStep, InterruptedStep, SendStep, GiveUpStep, CheckClientStep,
     RelayStep, RelayClosedStep, DisconnectStep, DeadlineStep DEF Next, Source, Handler
<1>2. CASE UNCHANGED vars
  <2>1. UNCHANGED <<kind, script, breaks, pos, gpc, todo, ch, ctxDone, expired, left, hpc, got, final>>
    BY <1>2 DEF vars, sourceVars, handlerVars
  <2>2. Verdict'
    BY <2>1, ScriptStays DEF SourceInv, Verdict, RelayExact, VerdictFaithful
  <2>3. QED
    BY <2>1, <2>2, HandlerStep DEF SourceInv, Typed, Ending
<1>3. QED
  BY <1>1, <1>2

LEMMA SourceInvHolds == Spec => []SourceInv
BY SourceInvInit, SourceInvStep, PTL DEF Spec

\* The channel never holds more than its capacity, and everything in it or about to be sent
\* is a piece of text of the script or a last chunk.
THEOREM SourceTypeCorrect == Spec => []TypeOK
<1>1. SourceInv => TypeOK
  <2> SUFFICES ASSUME SourceInv PROVE TypeOK
    OBVIOUS
  <2>1. Typed /\ Todo /\ Complete
    BY DEF SourceInv
  <2>2. Passed \subseteq 1..Len(script) /\ Wanted \subseteq 1..Len(script)
    BY <2>1, WantedFacts DEF Complete
  <2>3. \A i \in DOMAIN ch : ch[i] \in LastChunks \/ ch[i][2] \in 1..Len(script)
    BY <2>1, <2>2, InChannelFacts DEF Passed
  <2>4. \A n \in Wanted : Text(n)[2] \in 1..Len(script)
    BY <2>2, ChunkFacts
  <2>5. Len(todo) <= 2 /\ \A d \in Range(todo) : d \in LastChunks \/ d[2] \in 1..Len(script)
    <3>1. CASE todo = <<>>
      <4>1. Len(todo) = 0 /\ Range(todo) = {}
        BY <3>1, OneOrTwo
      <4>2. QED
        BY <4>1
    <3>2. CASE todo = <<Text(pos)>> /\ pos \in Wanted
      <4>1. Len(todo) = 1 /\ Range(todo) = {Text(pos)}
        BY <3>2, OneOrTwo
      <4>2. QED
        BY <2>4, <3>2, <4>1
    <3>3. CASE todo = <<Text(pos), Usage>> /\ pos \in Wanted
      <4>1. Len(todo) = 2 /\ Range(todo) = {Text(pos), Usage}
        BY <3>3, OneOrTwo
      <4>2. QED
        BY <2>4, <3>3, <4>1 DEF LastChunks
    <3>4. ASSUME NEW c \in LastChunks, todo = <<c>>
          PROVE  Len(todo) <= 2 /\ \A d \in Range(todo) : d \in LastChunks
      <4>1. Len(todo) = 1 /\ Range(todo) = {c}
        BY <3>4, OneOrTwo
      <4>2. QED
        BY <3>4, <4>1
    <3>5. gpc = "send" \/ todo = <<>>
      BY <2>1 DEF Todo, Typed
    <3>6. CASE gpc = "send"
      <4>1. \/ todo = <<Text(pos)>> /\ pos \in Wanted
            \/ todo = <<Text(pos), Usage>> /\ pos \in Wanted
            \/ \E c \in LastChunks : todo = <<c>>
        BY <2>1, <3>6 DEF Todo
      <4>2. CASE \E c \in LastChunks : todo = <<c>>
        BY <3>4, <4>2
      <4>3. QED
        BY <3>2, <3>3, <4>1, <4>2
    <3>7. QED
      BY <3>1, <3>5, <3>6
  <2>6. \A d \in Range(ch) : d \in LastChunks \/ d[2] \in 1..Len(script)
    BY <2>3 DEF Range
  <2>7. QED
    BY <2>1, <2>5, <2>6 DEF Typed, TypeOK
<1>2. QED
  BY <1>1, SourceInvHolds, PTL

\* However goroutine, loop and disconnection interleave, the client gets the wanted pieces
\* in order and without gaps, and all of them when it is told that the answer is complete.
THEOREM SourceRelayExact == Spec => []RelayExact
<1>1. SourceInv => RelayExact
  BY DEF SourceInv, Verdict
<1>2. QED
  BY <1>1, SourceInvHolds, PTL

\* Before its write deadline a stream never tells a client that stayed of an error that only
\* a cancellation brought about, and it never loses an error of the provider.
THEOREM SourceVerdictFaithful == Spec => []VerdictFaithful
<1>1. SourceInv => VerdictFaithful
  BY DEF SourceInv, Verdict
<1>2. QED
  BY <1>1, SourceInvHolds, PTL
=============================================================================
