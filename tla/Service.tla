------------------------------ MODULE Service -------------------------------
(***************************************************************************)
(* The server process: chat requests with the response cache               *)
(* (handler/chat.go, cache/cache.go) and streams, each writing a record    *)
(* into the request log, and the end of the process: Server.Shutdown,      *)
(* started by a signal, against main, which returns with Server.Start.     *)
(* A request is at                                                         *)
(*                                                                         *)
(*   "none", "lookup", "execute", "log", "save"                            *)
(*                                                                         *)
(* and ends "answered", or "panicked" when it writes its record into the   *)
(* closed log.                                                             *)
(***************************************************************************)
EXTENDS RequestLog

CONSTANTS
    Prompts,        \* what buildKey joins: provider, model, messages and max_tokens
    Queries         \* what requests ask: a prompt with its options

\* The text of a prompt in the pieces between its NUL bytes; ends are the pieces whose NUL
\* byte separates fields, the others lie within a field.  A temperature, with which top_p
\* goes, counts ten-millionths; <<>> if it is not set.
ASSUME QueryConfig ==
    /\ Prompts \subseteq [text : Seq(STRING), ends : SUBSET (Nat \ {0})]
    /\ Queries \subseteq [prompt : Prompts, temperature : Seq(Nat), grounding : BOOLEAN, stream : BOOLEAN]
    /\ \A q \in Queries : Len(q.temperature) <= 1
    /\ Queries # {}

VARIABLES
    pc,         \* request -> where it is
    req,        \* request -> what it asks
    resp,       \* request -> the query its answer was made for; <<>> without one
    hit,        \* request -> its answer came from the cache
    cache,      \* key -> the query the cached answer was made for; <<>> without one
    shut,       \* where Server.Shutdown is
    main,       \* where main is
    timedOut    \* http.Server.Shutdown gave up on requests under way

requestVars == <<pc, req, resp, hit>>
exitVars == <<shut, main, timedOut>>
vars == <<logVars, requestVars, cache, exitVars>>

NoQuery == CHOOSE q \in Queries : TRUE

\* %f prints six decimals.
Printed(t) == [i \in DOMAIN t |-> (t[i] + 5) \div 10]

\* What buildKey hashes.  It writes a separator like any other NUL byte.
buildKey(q) == <<q.prompt.text, Printed(q.temperature), q.stream>>

CacheKeys == {buildKey(q) : q \in Queries}

InFlight == {r \in Requests : pc[r] \in {"lookup", "execute", "log", "save"}}

Alive == main # "exited"

TypeOK ==
    /\ RequestLogTypeOK
    /\ pc \in [Requests -> {"none", "lookup", "execute", "log", "save", "answered", "panicked"}]
    /\ req \in [Requests -> Queries]
    /\ \A r \in Requests : resp[r] = <<>> \/ resp[r][1] \in Queries
    /\ \A k \in CacheKeys : cache[k] = <<>> \/ cache[k][1] \in Queries
    /\ shut \in {"up", "draining", "stopping", "closing", "flushing", "redis", "down"}
    /\ main \in {"serving", "returned", "closed", "exited"}

Init ==
    /\ NewRequestLogWriter
    /\ pc = [r \in Requests |-> "none"]
    /\ req = [r \in Requests |-> NoQuery]
    /\ resp = [r \in Requests |-> <<>>]
    /\ hit = [r \in Requests |-> FALSE]
    /\ cache = [k \in CacheKeys |-> <<>>]
    /\ shut = "up" /\ main = "serving" /\ timedOut = FALSE

-----------------------------------------------------------------------------
\* Requests.

\* The listener is open until Shutdown begins.
Arrive(r, q) ==
    /\ pc[r] = "none" /\ shut = "up"
    /\ pc' = [pc EXCEPT ![r] = IF q.stream THEN "execute" ELSE "lookup"]
    /\ req' = [req EXCEPT ![r] = q]
    /\ UNCHANGED <<resp, hit, cache, exitVars, logVars>>

\* Faulty: grounded answers are cached, too.
CanCacheAll(q) == ~q.stream

\* Streams and answers with search grounding are not cached.
CanCache(q) == ~q.stream /\ ~q.grounding

Hit(r) == CanCache(req[r]) /\ cache[buildKey(req[r])] # <<>>

Lookup(r) ==
    /\ pc[r] = "lookup"
    /\ IF Hit(r)
       THEN /\ pc' = [pc EXCEPT ![r] = "log"]
            /\ resp' = [resp EXCEPT ![r] = cache[buildKey(req[r])]]
            /\ hit' = [hit EXCEPT ![r] = TRUE]
       ELSE pc' = [pc EXCEPT ![r] = "execute"] /\ UNCHANGED <<resp, hit>>
    /\ UNCHANGED <<req, cache, exitVars, logVars>>

\* An error of Redis counts as a miss.
LookupFails(r) ==
    /\ pc[r] = "lookup" /\ CanCache(req[r])
    /\ pc' = [pc EXCEPT ![r] = "execute"]
    /\ UNCHANGED <<req, resp, hit, cache, exitVars, logVars>>

\* Router.Execute, or the relay of a stream, ends well or with an error.
Execute(r, ok) ==
    /\ pc[r] = "execute"
    /\ pc' = [pc EXCEPT ![r] = "log"]
    /\ resp' = [resp EXCEPT ![r] = IF ok THEN <<req[r]>> ELSE <<>>]
    /\ UNCHANGED <<req, hit, cache, exitVars, logVars>>

\* The record writeLog or writeStreamLog makes, not dated yet.
RecordOf(r) ==
    [id |-> r, status |-> IF resp[r] = <<>> THEN "error" ELSE "success", day |-> 0]

\* Only a fresh answer is saved.
Saves(r) == resp[r] # <<>> /\ ~hit[r] /\ CanCache(req[r])

WriteLog(r) ==
    /\ pc[r] = "log"
    /\ Write(RecordOf(r))
    /\ pc' = [pc EXCEPT ![r] = IF Saves(r) THEN "save" ELSE "answered"]
    /\ UNCHANGED <<req, resp, hit, cache, exitVars>>

\* The send on the closed channel panics; Recovery answers, or drops the stream.
Recovery(r) ==
    /\ pc[r] = "log" /\ ~open
    /\ pc' = [pc EXCEPT ![r] = "panicked"]
    /\ UNCHANGED <<req, resp, hit, cache, exitVars, logVars>>

\* Cache.Set, whose error is ignored.  Redis is closed at the end of Shutdown.
Save(r) ==
    /\ pc[r] = "save"
    /\ pc' = [pc EXCEPT ![r] = "answered"]
    /\ \/ shut # "down" /\ cache' = [cache EXCEPT ![buildKey(req[r])] = resp[r]]
       \/ UNCHANGED cache
    /\ UNCHANGED <<req, resp, hit, exitVars, logVars>>

\* The time to live of an entry ends.
Expire(k) ==
    /\ cache[k] # <<>>
    /\ cache' = [cache EXCEPT ![k] = <<>>]
    /\ UNCHANGED <<requestVars, exitVars, logVars>>

-----------------------------------------------------------------------------
\* Server.Shutdown.

ShutStep(from, to) ==
    /\ shut = from
    /\ shut' = to
    /\ UNCHANGED <<requestVars, cache, main>>

\* The signal; http.Server.Shutdown closes the listener first.
Signal == ShutStep("up", "draining") /\ UNCHANGED <<timedOut, logVars>>

\* Faulty: nobody waits for the requests under way.
DrainedAtOnce == ShutStep("draining", "stopping") /\ UNCHANGED <<timedOut, logVars>>

Drained == InFlight = {} /\ ShutStep("draining", "stopping") /\ UNCHANGED <<timedOut, logVars>>

DrainTimesOut ==
    /\ InFlight # {}
    /\ ShutStep("draining", "stopping")
    /\ timedOut' = TRUE
    /\ UNCHANGED logVars

\* Consumer.Stop: see BatchQueue.  Batch jobs write no records.
ConsumerStopped == ShutStep("stopping", "closing") /\ UNCHANGED <<timedOut, logVars>>

CloseLog == CloseChannel /\ ShutStep("closing", "flushing") /\ UNCHANGED timedOut

Flushed == done /\ ShutStep("flushing", "redis") /\ UNCHANGED <<timedOut, logVars>>

CloseRedis == ShutStep("redis", "down") /\ UNCHANGED <<timedOut, logVars>>

\* ListenAndServe returns as soon as the listener is closed, and main with it.
StartReturns ==
    /\ main = "serving" /\ shut # "up"
    /\ main' = "returned"
    /\ UNCHANGED <<requestVars, cache, shut, timedOut, logVars>>

\* The deferred logsDB.Close.
CloseDB ==
    /\ main = "returned"
    /\ main' = "closed" /\ dbOpen' = FALSE
    /\ UNCHANGED <<requestVars, cache, shut, timedOut>>
    /\ UNCHANGED <<buf, open, hand, done, rows, today, dbErrors, dropped, failed>>

Exit ==
    /\ main = "closed"
    /\ main' = "exited"
    /\ UNCHANGED <<requestVars, cache, shut, timedOut, logVars>>

-----------------------------------------------------------------------------

Handle(r) ==
    \/ Lookup(r) \/ LookupFails(r) \/ \E ok \in BOOLEAN : Execute(r, ok)
    \/ WriteLog(r) \/ Recovery(r) \/ Save(r)

Writer == (Consume \/ ConsumeEnds) /\ UNCHANGED <<requestVars, cache, exitVars>>

Shutdown ==
    \/ Drained \/ DrainTimesOut \/ ConsumerStopped \/ CloseLog \/ Flushed \/ CloseRedis

Main == StartReturns \/ CloseDB \/ Exit

Next ==
    /\ Alive
    /\ \/ \E r \in Requests : (\E q \in Queries : Arrive(r, q)) \/ Handle(r)
       \/ \E k \in CacheKeys : Expire(k)
       \/ Writer \/ Signal \/ Shutdown \/ Main

Spec == Init /\ [][Next]_vars

\* Goroutines run, and provider calls return.  Nothing makes the operator send the
\* signal.
Fairness ==
    /\ \A r \in Requests : WF_vars(Alive /\ Handle(r))
    /\ WF_vars(Alive /\ Writer) /\ WF_vars(Alive /\ Shutdown) /\ WF_vars(Alive /\ Main)

FairSpec == Spec /\ Fairness

-----------------------------------------------------------------------------

\* The record of every request that was answered, or is about to be, is in exactly one
\* place, whichever of the overlapping requests, consume and Shutdown is ahead; once
\* Close has returned, that is neither the channel nor the hand of consume.
AnswersRecorded ==
    /\ RecordInOnePlace({r \in Requests : pc[r] \in {"save", "answered"}})
    /\ shut \in {"redis", "down"} => buf = <<>> /\ hand = <<>>

\* No field of a prompt holds a NUL byte.
Plain(prompt) == prompt.ends = DOMAIN prompt.text

\* Two temperatures are both unset, or less than a millionth apart.
Near(t, u) == DOMAIN t = DOMAIN u /\ \A i \in DOMAIN t : t[i] - u[i] \in -9..9

\* However requests overlap between lookup and save, a fresh answer is one to the request's
\* own query, and one from the cache was made for the same prompt, unless a NUL byte is
\* inside one, and for nearly the same temperature, with search grounding on neither side
\* (ChatHandler.Chat, Cache.buildKey).
HitMatchesRequest ==
    \A r \in Requests : resp[r] # <<>> =>
        LET q == resp[r][1]
        IN  IF ~hit[r] THEN q = req[r]
            ELSE /\ Plain(q.prompt) /\ Plain(req[r].prompt) => q.prompt = req[r].prompt
                 /\ Near(q.temperature, req[r].temperature)
                 /\ ~(q.grounding \/ req[r].grounding \/ q.stream \/ req[r].stream)

\* Shutdown closes the log after the requests: a handler meets the closed channel only
\* when http.Server.Shutdown gave up waiting for it.
PanicOnlyAfterTimeout == \A r \in Requests : pc[r] = "panicked" => timedOut

\* A record that was accepted is stored or given up, also after failing INSERTs, unless
\* the process exits first.
AcceptedRecordSettles == \A r \in Requests : r \in Buffered ~> (r \in Stored \cup failed \/ ~Alive)

\* The records of answered requests survive the end of the process: nothing is left in
\* the buffer when it exits (Server.Shutdown: the log writer is closed, buffer flushed).
ShutdownFlushes == main = "exited" => buf = <<>> /\ hand = <<>>
=============================================================================
