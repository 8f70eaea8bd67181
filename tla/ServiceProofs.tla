---------------------------- MODULE ServiceProofs ---------------------------
(***************************************************************************)
(* Theorems about Service.  The properties speak of answered requests      *)
(* only; the invariant also says where the records of the others are       *)
(* (nowhere), that the five places a record can be in are disjoint, what   *)
(* the cache may hold, and how far the writer and the requests can be when *)
(* Shutdown is at a given point.                                           *)
(***************************************************************************)
EXTENDS Service, FiniteSetTheorems, SequenceTheorems, TLAPS

\* The requests whose handler has been through Write.
Written == {r \in Requests : pc[r] \in {"save", "answered"}}

Records == [id : Requests, status : {"error", "success"}, day : Nat]

\* TypeOK, with the records and the answers typed as a whole.
Typed ==
    /\ TypeOK
    /\ buf \in Seq(Records) /\ hand \in Seq(Records) /\ rows \subseteq Records
    /\ resp \in [Requests -> Seq(Queries)] /\ cache \in [CacheKeys -> Seq(Queries)]
    /\ hit \in [Requests -> BOOLEAN] /\ timedOut \in BOOLEAN

\* A request wrote one record, which is in one of five places; nobody else wrote any.
Placed ==
    /\ Buffered \cup InHand \cup Stored \cup failed \cup dropped = Written
    /\ Buffered \cap InHand = {} /\ Buffered \cap Stored = {} /\ InHand \cap Stored = {}
    /\ failed \cap (Buffered \cup InHand \cup Stored) = {}
    /\ dropped \cap (Buffered \cup InHand \cup Stored \cup failed) = {}
    /\ \A i, j \in DOMAIN buf : buf[i].id = buf[j].id => i = j
    /\ \A x, y \in rows : x.id = y.id => x = y

\* Two queries that are cached, and under the same key.
Interchangeable(q, p) == CanCache(q) /\ CanCache(p) /\ buildKey(q) = buildKey(p)

\* A fresh answer was made for the question; one from the cache for a question of its key.
AnswersMatch ==
    /\ \A r \in Requests : resp[r] # <<>> /\ ~hit[r] => resp[r][1] = req[r]
    /\ \A r \in Requests : resp[r] # <<>> /\ hit[r] => Interchangeable(resp[r][1], req[r])
    /\ \A r \in Requests : pc[r] = "none" => resp[r] = <<>>
    /\ \A r \in Requests : pc[r] \in {"none", "lookup", "execute"} => ~hit[r]
    /\ \A r \in Requests : pc[r] = "save" => CanCache(req[r]) /\ ~hit[r]
    /\ \A k \in CacheKeys : cache[k] # <<>> => CanCache(cache[k][1]) /\ buildKey(cache[k][1]) = k

\* How far everybody is while Shutdown proceeds.
ShutdownOrder ==
    /\ ~open <=> shut \in {"flushing", "redis", "down"}
    /\ shut \in {"redis", "down"} => done
    /\ done => ~open /\ buf = <<>> /\ hand = <<>>
    /\ shut \in {"stopping", "closing", "flushing", "redis", "down"} /\ ~timedOut => InFlight = {}
    /\ PanicOnlyAfterTimeout

ServiceInv == Typed /\ Placed /\ AnswersMatch /\ ShutdownOrder

-----------------------------------------------------------------------------
\* The channel as a set of records: what a send and a receive do to it.

\* A send adds its record behind the others.
LEMMA Sent ==
    ASSUME NEW s \in Seq(Records), NEW x \in Records
    PROVE  /\ Append(s, x) \in Seq(Records) /\ Len(Append(s, x)) = Len(s) + 1
           /\ DOMAIN Append(s, x) = DOMAIN s \cup {Len(s) + 1} /\ Len(s) + 1 \notin DOMAIN s
           /\ \A i \in DOMAIN s : Append(s, x)[i] = s[i]
           /\ Append(s, x)[Len(s) + 1] = x
<1>1. /\ Append(s, x) \in Seq(Records) /\ Len(Append(s, x)) = Len(s) + 1
      /\ \A i \in 1..Len(s) : Append(s, x)[i] = s[i]
      /\ Append(s, x)[Len(s) + 1] = x
  BY AppendProperties
<1>2. Len(s) \in Nat /\ DOMAIN s = 1..Len(s) /\ DOMAIN Append(s, x) = 1..(Len(s) + 1)
  BY <1>1, LenProperties
<1>3. QED
  BY <1>1, <1>2

\* A receive takes the first record and moves the others up.
LEMMA Received ==
    ASSUME NEW s \in Seq(Records), s # <<>>
    PROVE  /\ Tail(s) \in Seq(Records) /\ Len(Tail(s)) = Len(s) - 1
           /\ Head(s) = s[1] /\ Head(s) \in Records /\ 1 \in DOMAIN s
           /\ \A i \in DOMAIN Tail(s) : i \in Nat /\ i + 1 \in DOMAIN s /\ Tail(s)[i] = s[i + 1]
           /\ \A i \in DOMAIN s : i = 1 \/ (i - 1 \in DOMAIN Tail(s) /\ Tail(s)[i - 1] = s[i])
<1>1. /\ Tail(s) \in Seq(Records) /\ Len(Tail(s)) = Len(s) - 1 /\ Head(s) \in Records
      /\ \A i \in 1..Len(Tail(s)) : Tail(s)[i] = s[i + 1]
  BY HeadTailProperties
<1>2. Len(s) \in Nat \ {0} /\ DOMAIN s = 1..Len(s) /\ DOMAIN Tail(s) = 1..(Len(s) - 1)
  BY <1>1, LenProperties, EmptySeq
<1>3. QED
  BY <1>1, <1>2

\* The hand of consume holds at most one record.
LEMMA OneRecord ==
    ASSUME NEW s \in Seq(Records), s # <<>>, Len(s) <= 1
    PROVE  Len(s) = 1 /\ DOMAIN s = {1} /\ s[1] \in Records
<1>1. Len(s) = 1
  <2>1. Len(s) \in Nat /\ Len(s) # 0
    BY EmptySeq
  <2>2. \A n \in Nat : n # 0 /\ n <= 1 => n = 1
    OBVIOUS
  <2>3. QED
    BY <2>1, <2>2
<1>2. DOMAIN s = 1..1 /\ s[1] \in Records
  BY <1>1, LenProperties, ElementOfSeq
<1>3. QED
  BY <1>1, <1>2

-----------------------------------------------------------------------------
\* The steps, as seen by the log.

\* What leaves the log alone and takes nobody into or out of Written.
LEMMA PlacedKept ==
    ASSUME Placed, UNCHANGED <<buf, hand, rows, failed, dropped>>, UNCHANGED Written
    PROVE  Placed'
<1>1. Buffered' = Buffered /\ InHand' = InHand /\ Stored' = Stored
  BY DEF Buffered, InHand, Stored
<1>2. QED
  BY <1>1 DEF Placed

\* A handler writes its record: it goes into the channel, or is dropped.
LEMMA PlacedWrite == ASSUME ServiceInv, NEW r \in Requests, WriteLog(r) PROVE Placed' /\ Typed'
<1>1. RecordOf(r) \in Records /\ RecordOf(r).id = r
  BY DEF RecordOf, Records
<1>2. r \notin Written /\ Written' = Written \cup {r}
  BY DEF WriteLog, Written, ServiceInv, Typed, TypeOK
<1>3. Written' \subseteq Requests
  BY <1>2 DEF Written
<1>4. UNCHANGED <<open, hand, done, rows, dbOpen, today, dbErrors, failed, req, resp, hit, cache,
                  shut, main, timedOut>>
  BY DEF WriteLog, Write, exitVars
<1>5. CASE buf' = Append(buf, RecordOf(r)) /\ UNCHANGED dropped /\ Len(buf) < BufSize
  <2>1. /\ buf' \in Seq(Records) /\ Len(buf') = Len(buf) + 1
        /\ DOMAIN buf' = DOMAIN buf \cup {Len(buf) + 1} /\ Len(buf) + 1 \notin DOMAIN buf
        /\ \A i \in DOMAIN buf : buf'[i] = buf[i]
        /\ buf'[Len(buf) + 1] = RecordOf(r)
    BY <1>1, <1>5, Sent DEF ServiceInv, Typed
  <2>2. Buffered' = Buffered \cup {r}
    BY <1>1, <2>1 DEF Buffered
  <2>3. InHand' = InHand /\ Stored' = Stored
    BY <1>4 DEF InHand, Stored
  <2>4. \A i \in DOMAIN buf : buf[i].id # r
    BY <1>2 DEF ServiceInv, Placed, Buffered
  <2>5. \A i, j \in DOMAIN buf' : buf'[i].id = buf'[j].id => i = j
    BY <1>1, <2>1, <2>4 DEF ServiceInv, Placed
  <2>6. Placed'
    BY <1>2, <1>4, <1>5, <2>2, <2>3, <2>5 DEF ServiceInv, Placed
  <2>7. Len(buf') <= BufSize
    BY <1>5, <2>1, RequestLogConfig, LenProperties DEF ServiceInv, Typed
  <2>8. QED
    BY <1>3, <1>4, <2>1, <2>6, <2>7
       DEF ServiceInv, Typed, TypeOK, RequestLogTypeOK, WriteLog, Placed
<1>6. CASE dropped' = dropped \cup {r} /\ UNCHANGED buf
  <2>1. Buffered' = Buffered /\ InHand' = InHand /\ Stored' = Stored
    BY <1>4, <1>6 DEF Buffered, InHand, Stored
  <2>2. Placed'
    BY <1>2, <1>4, <1>6, <2>1 DEF ServiceInv, Placed
  <2>3. QED
    BY <1>3, <1>4, <1>6, <2>2 DEF ServiceInv, Typed, TypeOK, RequestLogTypeOK, WriteLog, Placed
<1>7. QED
  BY <1>1, <1>5, <1>6 DEF WriteLog, Write

\* consume moves a record from the channel into its hand, and from there into the table
\* or to the failures.
LEMMA PlacedConsume ==
    ASSUME ServiceInv, Consume, UNCHANGED <<requestVars, cache, exitVars>>
    PROVE  Placed' /\ Typed'
<1>1. /\ UNCHANGED <<pc, req, resp, hit, cache, shut, main, timedOut, open, done, dbOpen, today, dropped>>
      /\ UNCHANGED Written
  BY DEF Consume, Take, Stamp, Insert, InsertFails, requestVars, exitVars, Written
<1>2. Written \subseteq Requests
  BY DEF Written
<1>3. CASE Take
  <2>1. /\ buf' \in Seq(Records) /\ Len(buf') = Len(buf) - 1
        /\ Head(buf) = buf[1] /\ Head(buf) \in Records /\ 1 \in DOMAIN buf
        /\ \A i \in DOMAIN buf' : i \in Nat /\ i + 1 \in DOMAIN buf /\ buf'[i] = buf[i + 1]
        /\ \A i \in DOMAIN buf : i = 1 \/ (i - 1 \in DOMAIN buf' /\ buf'[i - 1] = buf[i])
    BY <1>3, Received DEF Take, ServiceInv, Typed
  <2>2. hand' \in Seq(Records) /\ Len(hand') = 1 /\ DOMAIN hand' = {1} /\ hand'[1] = buf[1]
    BY <1>3, <2>1 DEF Take
  <2>3. InHand = {} /\ InHand' = {buf[1].id} /\ Stored' = Stored
    BY <1>3, <2>2 DEF Take, InHand, Stored
  <2>4. \A i, j \in DOMAIN buf : buf[i].id = buf[j].id => i = j
    BY DEF ServiceInv, Placed
  <2>5. Buffered' = Buffered \ {buf[1].id} /\ buf[1].id \in Buffered
    <3>1. ASSUME NEW i \in DOMAIN buf' PROVE buf'[i].id \in Buffered /\ buf'[i].id # buf[1].id
      <4>1. i + 1 \in DOMAIN buf /\ i + 1 # 1 /\ buf'[i] = buf[i + 1]
        BY <2>1
      <4>2. QED
        BY <2>1, <2>4, <4>1 DEF Buffered
    <3>2. ASSUME NEW i \in DOMAIN buf, i # 1 PROVE \E j \in DOMAIN buf' : buf'[j] = buf[i]
      BY <2>1, <3>2
    <3>3. Buffered' \subseteq Buffered \ {buf[1].id}
      BY <3>1 DEF Buffered
    <3>4. Buffered \ {buf[1].id} \subseteq Buffered'
      BY <3>2 DEF Buffered
    <3>5. QED
      BY <2>1, <3>3, <3>4 DEF Buffered
  <2>6. \A i, j \in DOMAIN buf' : buf'[i].id = buf'[j].id => i = j
    <3>1. SUFFICES ASSUME NEW i \in DOMAIN buf', NEW j \in DOMAIN buf', buf'[i].id = buf'[j].id
                   PROVE  i = j
      OBVIOUS
    <3>2. i \in Nat /\ j \in Nat /\ i + 1 = j + 1
      BY <2>1, <2>4, <3>1
    <3>3. QED
      BY <3>2
  <2>7. UNCHANGED <<rows, dbErrors, failed>>
    BY <1>3 DEF Take
  <2>8. Placed'
    BY <1>1, <2>3, <2>5, <2>6, <2>7 DEF ServiceInv, Placed
  <2>9. Len(buf') <= BufSize /\ Len(hand') <= 1
    BY <2>1, <2>2, LenProperties, RequestLogConfig DEF ServiceInv, Typed, TypeOK, RequestLogTypeOK
  <2>10. QED
    BY <1>1, <1>2, <2>1, <2>2, <2>7, <2>8, <2>9
       DEF ServiceInv, Typed, TypeOK, RequestLogTypeOK, Placed
<1>4. CASE Insert \/ InsertFails
  <2>1. hand # <<>> /\ hand' = <<>> /\ UNCHANGED buf
    BY <1>4 DEF Insert, InsertFails, Dated
  <2>2. Len(hand) = 1 /\ DOMAIN hand = {1} /\ hand[1] \in Records
    BY <2>1, OneRecord DEF ServiceInv, Typed, TypeOK, RequestLogTypeOK
  <2>3. /\ InHand = {hand[1].id} /\ InHand' = {} /\ Buffered' = Buffered
        /\ hand' \in Seq(Records) /\ Len(hand') <= 1
    BY <2>1, <2>2 DEF InHand, Buffered
  <2>4. CASE Insert
    <3>2. /\ rows' = rows \cup {hand[1]} /\ rows' \subseteq Records
          /\ UNCHANGED <<failed, dbErrors>>
      BY <2>2, <2>4 DEF Insert, ServiceInv, Typed
    <3>3. Stored' = Stored \cup {hand[1].id}
      BY <3>2 DEF Stored
    <3>4. hand[1].id \notin Stored
      BY <2>3 DEF ServiceInv, Placed
    <3>5. \A x, y \in rows' : x.id = y.id => x = y
      BY <3>2, <3>4 DEF ServiceInv, Placed, Stored
    <3>6. Placed'
      BY <1>1, <2>1, <2>3, <3>2, <3>3, <3>5 DEF ServiceInv, Placed
    <3>7. QED
      BY <1>1, <1>2, <2>1, <2>3, <3>2, <3>6
         DEF ServiceInv, Typed, TypeOK, RequestLogTypeOK, Placed
  <2>5. CASE InsertFails
    <3>1. failed' = failed \cup {hand[1].id} /\ UNCHANGED rows /\ dbErrors' \in 0..MaxDbErrors
      BY <2>5, RequestLogConfig DEF InsertFails, ServiceInv, Typed, TypeOK, RequestLogTypeOK
    <3>2. Stored' = Stored
      BY <3>1 DEF Stored
    <3>3. Placed'
      BY <1>1, <2>1, <2>3, <3>1, <3>2 DEF ServiceInv, Placed
    <3>4. QED
      BY <1>1, <1>2, <2>1, <2>3, <3>1, <3>3
         DEF ServiceInv, Typed, TypeOK, RequestLogTypeOK, Placed
  <2>6. QED
    BY <1>4, <2>4, <2>5
<1>5. CASE Stamp
  <2>1. hand # <<>> /\ hand' = <<RowOf(hand[1])>> /\ UNCHANGED <<buf, rows, failed, dbErrors>>
    BY <1>5 DEF Stamp
  <2>2. DOMAIN hand = {1} /\ hand[1] \in Records
    BY <2>1, OneRecord DEF ServiceInv, Typed, TypeOK, RequestLogTypeOK
  <2>3. RowOf(hand[1]) \in Records /\ RowOf(hand[1]).id = hand[1].id
    BY <2>2 DEF RowOf, Records, ServiceInv, Typed, TypeOK, RequestLogTypeOK
  <2>4. hand' \in Seq(Records) /\ Len(hand') = 1 /\ DOMAIN hand' = {1} /\ hand'[1].id = hand[1].id
    BY <2>1, <2>3
  <2>5. InHand' = InHand /\ Buffered' = Buffered /\ Stored' = Stored
    BY <2>1, <2>2, <2>4 DEF InHand, Buffered, Stored
  <2>6. Placed'
    BY <1>1, <2>1, <2>5 DEF ServiceInv, Placed
  <2>7. QED
    BY <1>1, <1>2, <2>1, <2>4, <2>5, <2>6 DEF ServiceInv, Typed, TypeOK, RequestLogTypeOK
<1>6. QED
  BY <1>3, <1>4, <1>5 DEF Consume

\* The steps of a handler that write no record: the log stays as it is.
LEMMA HandlerLeavesLog ==
    ASSUME ServiceInv, NEW r \in Requests,
           \/ \E q \in Queries : Arrive(r, q)
           \/ Lookup(r) \/ LookupFails(r) \/ (\E ok \in BOOLEAN : Execute(r, ok))
           \/ Recovery(r) \/ Save(r)
    PROVE  Placed' /\ Typed'
<1>1. UNCHANGED logVars /\ UNCHANGED exitVars
  BY DEF Arrive, Lookup, LookupFails, Execute, Recovery, Save
<1>2. UNCHANGED Written
  BY DEF Arrive, Lookup, LookupFails, Execute, Recovery, Save, ServiceInv, Typed, TypeOK, Written
<1>3. Placed'
  BY <1>1, <1>2, PlacedKept DEF logVars, ServiceInv
<1>4. RequestLogTypeOK'
  BY <1>1 DEF logVars, ServiceInv, Typed, TypeOK, RequestLogTypeOK, Buffered, InHand, Stored
<1>5. /\ pc' \in [Requests -> {"none", "lookup", "execute", "log", "save", "answered", "panicked"}]
      /\ req' \in [Requests -> Queries]
  BY DEF Arrive, Lookup, LookupFails, Execute, Recovery, Save, ServiceInv, Typed, TypeOK
<1>6. \A q \in Queries : buildKey(q) \in CacheKeys
  BY DEF CacheKeys
<1>7. resp' \in [Requests -> Seq(Queries)] /\ hit' \in [Requests -> BOOLEAN]
  <2>1. req[r] \in Queries /\ resp \in [Requests -> Seq(Queries)] /\ hit \in [Requests -> BOOLEAN]
    BY DEF ServiceInv, Typed, TypeOK
  <2>2. cache[buildKey(req[r])] \in Seq(Queries) /\ <<req[r]>> \in Seq(Queries) /\ <<>> \in Seq(Queries)
    BY <1>6, <2>1 DEF ServiceInv, Typed
  <2>3. /\ \/ UNCHANGED resp
           \/ \E x \in Seq(Queries) : resp' = [resp EXCEPT ![r] = x]
        /\ UNCHANGED hit \/ hit' = [hit EXCEPT ![r] = TRUE]
    BY <2>2 DEF Arrive, Lookup, LookupFails, Execute, Recovery, Save
  <2>4. QED
    BY <2>1, <2>3
<1>8. cache' \in [CacheKeys -> Seq(Queries)]
  BY <1>6 DEF Arrive, Lookup, LookupFails, Execute, Recovery, Save, ServiceInv, Typed, TypeOK
<1>9. /\ \A q \in Requests : resp'[q] = <<>> \/ resp'[q][1] \in Queries
      /\ \A k \in CacheKeys : cache'[k] = <<>> \/ cache'[k][1] \in Queries
  BY <1>7, <1>8, EmptySeq, ElementOfSeq
<1>10. QED
  BY <1>1, <1>3, <1>4, <1>5, <1>7, <1>8, <1>9 DEF logVars, exitVars, ServiceInv, Typed, TypeOK

\* The steps of nobody's request: entries of the cache expire, consume ends, Shutdown
\* and main proceed.
LEMMA OthersLeaveLog ==
    ASSUME ServiceInv,
           \/ \E k \in CacheKeys : Expire(k)
           \/ ConsumeEnds /\ UNCHANGED <<requestVars, cache, exitVars>>
           \/ Signal \/ Shutdown \/ Main
    PROVE  Placed' /\ Typed'
<1> USE DEF Expire, ConsumeEnds, Signal, Shutdown, Main, Drained, DrainTimesOut, ConsumerStopped,
            CloseLog, CloseChannel, Flushed, CloseRedis, StartReturns, CloseDB, Exit, ShutStep,
            requestVars, exitVars, logVars
<1>1. UNCHANGED <<buf, hand, rows, failed, dropped, today, dbErrors, pc, req, resp, hit>>
  OBVIOUS
<1>2. UNCHANGED Written
  BY <1>1 DEF Written
<1>3. Placed'
  BY <1>1, <1>2, PlacedKept DEF ServiceInv
<1>4. /\ open' \in BOOLEAN /\ done' \in BOOLEAN /\ dbOpen' \in BOOLEAN /\ timedOut' \in BOOLEAN
      /\ shut' \in {"up", "draining", "stopping", "closing", "flushing", "redis", "down"}
      /\ main' \in {"serving", "returned", "closed", "exited"}
  BY DEF ServiceInv, Typed, TypeOK, RequestLogTypeOK
<1>5. cache' \in [CacheKeys -> Seq(Queries)]
  <2>1. UNCHANGED cache \/ \E k \in CacheKeys : cache' = [cache EXCEPT ![k] = <<>>]
    OBVIOUS
  <2>2. cache \in [CacheKeys -> Seq(Queries)] /\ <<>> \in Seq(Queries)
    BY DEF ServiceInv, Typed
  <2>3. QED
    BY <2>1, <2>2
<1>6. \A k \in CacheKeys : cache'[k] = <<>> \/ cache'[k][1] \in Queries
  BY <1>5, EmptySeq, ElementOfSeq
<1>7. QED
  BY <1>1, <1>3, <1>4, <1>5, <1>6
     DEF ServiceInv, Typed, TypeOK, RequestLogTypeOK, Buffered, InHand, Stored

-----------------------------------------------------------------------------

\* Temperatures that are printed alike are near each other.
LEMMA PrintedNear ==
    ASSUME NEW t \in Seq(Nat), NEW u \in Seq(Nat), Printed(t) = Printed(u)
    PROVE  Near(t, u)
<1>1. DOMAIN Printed(t) = DOMAIN t /\ DOMAIN Printed(u) = DOMAIN u
  BY DEF Printed
<1>2. \A a, b \in Nat : (a + 5) \div 10 = (b + 5) \div 10 => a - b \in -9..9
  OBVIOUS
<1>3. ASSUME NEW i \in DOMAIN t PROVE t[i] - u[i] \in -9..9
  <2>1. i \in DOMAIN t /\ i \in DOMAIN u /\ t[i] \in Nat /\ u[i] \in Nat
    <3>1. i \in DOMAIN t /\ i \in DOMAIN u
      BY <1>1, <1>3
    <3>2. i \in 1..Len(t) /\ i \in 1..Len(u)
      BY <3>1, LenProperties
    <3>3. QED
      BY <3>1, <3>2, ElementOfSeq
  <2>2. Printed(t)[i] = (t[i] + 5) \div 10 /\ Printed(u)[i] = (u[i] + 5) \div 10
    BY <2>1 DEF Printed
  <2>3. QED
    BY <1>2, <2>1, <2>2
<1>4. QED
  BY <1>1, <1>3 DEF Near

\* What the key of two cached queries tells.
LEMMA KeyTells ==
    ASSUME NEW q \in Queries, NEW p \in Queries, Interchangeable(q, p)
    PROVE  /\ Plain(q.prompt) /\ Plain(p.prompt) => q.prompt = p.prompt
           /\ Near(q.temperature, p.temperature)
           /\ ~(q.grounding \/ p.grounding \/ q.stream \/ p.stream)
<1>1. /\ q.prompt \in Prompts /\ p.prompt \in Prompts
      /\ q.temperature \in Seq(Nat) /\ p.temperature \in Seq(Nat)
  BY QueryConfig
<1>2. q.prompt.text = p.prompt.text /\ Printed(q.temperature) = Printed(p.temperature)
  BY DEF Interchangeable, buildKey
<1>3. \A x \in Prompts : x = [text |-> x.text, ends |-> x.ends]
  BY QueryConfig
<1>4. Plain(q.prompt) /\ Plain(p.prompt) => q.prompt = p.prompt
  BY <1>1, <1>2, <1>3 DEF Plain
<1>5. Near(q.temperature, p.temperature)
  BY <1>1, <1>2, PrintedNear
<1>6. QED
  BY <1>4, <1>5 DEF Interchangeable, CanCache

-----------------------------------------------------------------------------

\* The cache and the answers made from it stay right: only an answer to a question that
\* can be cached gets into it, under the key of that question.
LEMMA AnswersMatchStep == ASSUME ServiceInv, Next PROVE AnswersMatch'
<1> USE DEF ServiceInv, Typed, TypeOK, AnswersMatch
<1>1. \A q \in Queries : buildKey(q) \in CacheKeys
  BY DEF CacheKeys
<1>2. ASSUME NEW r \in Requests, NEW q \in Queries, Arrive(r, q) PROVE AnswersMatch'
  BY <1>2 DEF Arrive
<1>3. ASSUME NEW r \in Requests, Lookup(r) PROVE AnswersMatch'
  <2>1. CASE Hit(r)
    <3>1. buildKey(req[r]) \in CacheKeys /\ cache[buildKey(req[r])] \in Seq(Queries)
      BY <1>1
    <3>2. cache[buildKey(req[r])] # <<>> /\ Interchangeable(cache[buildKey(req[r])][1], req[r])
      BY <2>1, <3>1 DEF Hit, Interchangeable
    <3>3. QED
      BY <1>3, <2>1, <3>2 DEF Lookup
  <2>2. CASE ~Hit(r)
    BY <1>3, <2>2 DEF Lookup
  <2>3. QED
    BY <2>1, <2>2
<1>4. ASSUME NEW r \in Requests, LookupFails(r) \/ Recovery(r) PROVE AnswersMatch'
  BY <1>4 DEF LookupFails, Recovery
<1>5. ASSUME NEW r \in Requests, NEW ok \in BOOLEAN, Execute(r, ok) PROVE AnswersMatch'
  BY <1>5 DEF Execute
<1>6. ASSUME NEW r \in Requests, WriteLog(r) PROVE AnswersMatch'
  BY <1>6 DEF WriteLog, Saves
<1>7. ASSUME NEW r \in Requests, Save(r) PROVE AnswersMatch'
  <2>1. resp[r] # <<>> => resp[r][1] = req[r] /\ CanCache(req[r]) /\ buildKey(req[r]) \in CacheKeys
    BY <1>1, <1>7 DEF Save
  <2>2. QED
    BY <1>7, <2>1 DEF Save
<1>8. ASSUME NEW k \in CacheKeys, Expire(k) PROVE AnswersMatch'
  BY <1>8 DEF Expire, requestVars
<1>9. CASE Writer \/ Signal \/ Shutdown \/ Main
  BY <1>9 DEF Writer, Signal, Shutdown, Main, Drained, DrainTimesOut, ConsumerStopped, CloseLog,
     Flushed, CloseRedis, StartReturns, CloseDB, Exit, ShutStep, requestVars
<1>10. QED
  BY <1>2, <1>3, <1>4, <1>5, <1>6, <1>7, <1>8, <1>9 DEF Next, Handle

\* Requests and consume fall in with the order of Shutdown.
LEMMA ShutdownOrderStep == ASSUME ServiceInv, Next PROVE ShutdownOrder'
<1> USE DEF ServiceInv, Typed, TypeOK, RequestLogTypeOK, ShutdownOrder, InFlight,
            PanicOnlyAfterTimeout
<1>1. ASSUME NEW r \in Requests, NEW q \in Queries, Arrive(r, q) PROVE ShutdownOrder'
  BY <1>1 DEF Arrive, exitVars, logVars
<1>2. ASSUME NEW r \in Requests, Handle(r) PROVE ShutdownOrder'
  <2>1. UNCHANGED <<shut, timedOut, open, done, hand>> /\ (~open => UNCHANGED buf)
    BY <1>2 DEF Handle, Lookup, LookupFails, Execute, WriteLog, Write, Recovery, Save, exitVars,
       logVars
  <2>2. /\ r \in InFlight /\ InFlight' \subseteq InFlight
        /\ \A q \in Requests : pc'[q] = "panicked" => pc[q] = "panicked" \/ (pc[r] = "log" /\ ~open)
    BY <1>2 DEF Handle, Lookup, LookupFails, Execute, WriteLog, Recovery, Save
  <2>3. QED
    BY <2>1, <2>2
<1>3. ASSUME NEW k \in CacheKeys, Expire(k) PROVE ShutdownOrder'
  BY <1>3 DEF Expire, requestVars, exitVars, logVars
<1>4. CASE Writer
  BY <1>4 DEF Writer, Consume, Take, Stamp, Insert, InsertFails, Dated, ConsumeEnds, requestVars,
     exitVars
<1>5. CASE Signal \/ Shutdown
  BY <1>5 DEF Signal, Shutdown, Drained, DrainTimesOut, ConsumerStopped, CloseLog, CloseChannel,
     Flushed, CloseRedis, ShutStep, requestVars, logVars
<1>6. CASE Main
  BY <1>6 DEF Main, StartReturns, CloseDB, Exit, requestVars, logVars
<1>7. QED
  BY <1>1, <1>2, <1>3, <1>4, <1>5, <1>6 DEF Next

-----------------------------------------------------------------------------

\* Initially no request has come, nothing is cached, and Shutdown has not begun.
LEMMA ServiceInvInit == Init => ServiceInv
<1> SUFFICES ASSUME Init PROVE ServiceInv
  OBVIOUS
<1> USE DEF Init, NewRequestLogWriter
<1>1. Typed
  <2>1. NoQuery \in Queries
    BY QueryConfig DEF NoQuery
  <2>2. Buffered = {} /\ InHand = {} /\ Stored = {} /\ dbErrors \in 0..MaxDbErrors
    BY RequestLogConfig DEF Buffered, InHand, Stored
  <2>3. TypeOK
    <3>1. RequestLogTypeOK
      <4>1. Len(buf) <= BufSize /\ Len(hand) <= 1
        BY RequestLogConfig
      <4>2. Buffered \cup InHand \cup Stored \cup dropped \cup failed \subseteq Requests
        BY <2>2
      <4>3. open \in BOOLEAN /\ done \in BOOLEAN /\ dbOpen \in BOOLEAN
        OBVIOUS
      <4>4. today \in Nat \ {0}
        OBVIOUS
      <4>5. QED
        BY <2>2, <4>1, <4>2, <4>3, <4>4, Zenon DEF RequestLogTypeOK
    <3>2. QED
      BY <2>1, <3>1 DEF TypeOK
  <2>4. /\ buf \in Seq(Records) /\ hand \in Seq(Records) /\ rows \subseteq Records
        /\ resp \in [Requests -> Seq(Queries)] /\ cache \in [CacheKeys -> Seq(Queries)]
    <3>1. <<>> \in Seq(Records) /\ <<>> \in Seq(Queries)
      BY EmptySeq
    <3>2. QED
      BY <3>1
  <2>5. QED
    BY <2>3, <2>4 DEF Typed
<1>2. Placed
  BY DEF Placed, Written, Buffered, InHand, Stored
<1>3. AnswersMatch /\ ShutdownOrder
  BY DEF AnswersMatch, ShutdownOrder, InFlight, PanicOnlyAfterTimeout
<1>4. QED
  BY <1>1, <1>2, <1>3 DEF ServiceInv

\* The invariant is inductive.
LEMMA ServiceInvStep == ASSUME ServiceInv, [Next]_vars PROVE ServiceInv'
<1>1. CASE Next
  <2>1. Placed' /\ Typed'
    BY <1>1, PlacedWrite, PlacedConsume, HandlerLeavesLog, OthersLeaveLog
       DEF Next, Handle, Writer
  <2>2. QED
    BY <1>1, <2>1, AnswersMatchStep, ShutdownOrderStep DEF ServiceInv
<1>2. CASE UNCHANGED vars
  <2>1. /\ UNCHANGED <<buf, open, hand, done, rows, dbOpen, today, dbErrors, dropped, failed>>
        /\ UNCHANGED <<pc, req, resp, hit, cache, shut, main, timedOut>>
    BY <1>2 DEF vars, logVars, requestVars, exitVars
  <2>2. UNCHANGED <<Buffered, InHand, Stored, Written, InFlight>>
    BY <2>1 DEF Buffered, InHand, Stored, Written, InFlight
  <2>3. Typed' /\ Placed'
    BY <2>1, <2>2 DEF ServiceInv, Typed, TypeOK, RequestLogTypeOK, Placed
  <2>4. AnswersMatch' /\ ShutdownOrder'
    BY <2>1, <2>2 DEF ServiceInv, AnswersMatch, ShutdownOrder, PanicOnlyAfterTimeout
  <2>5. QED
    BY <2>3, <2>4 DEF ServiceInv
<1>3. QED
  BY <1>1, <1>2

\* Hence it always holds.
LEMMA ServiceInvAlways == Spec => []ServiceInv
<1>1. QED
  BY ServiceInvInit, ServiceInvStep, PTL DEF Spec

-----------------------------------------------------------------------------

\* The invariant counts: one place out of five is one record.
LEMMA PlacedOnce == ASSUME ServiceInv PROVE AnswersRecorded
<1>1. ASSUME NEW r \in Written
      PROVE  Cardinality({i \in DOMAIN buf : buf[i].id = r})
             + Cardinality({i \in DOMAIN hand : hand[i].id = r})
             + Cardinality({x \in rows : x.id = r})
             + (IF r \in failed THEN 1 ELSE 0) + (IF r \in dropped THEN 1 ELSE 0) = 1
  <2>1. Cardinality({i \in DOMAIN buf : buf[i].id = r}) = IF r \in Buffered THEN 1 ELSE 0
    <3>1. CASE r \in Buffered
      <4>1. PICK i \in DOMAIN buf : buf[i].id = r
        BY <3>1 DEF Buffered
      <4>2. {j \in DOMAIN buf : buf[j].id = r} = {i}
        BY <4>1 DEF ServiceInv, Placed
      <4>3. QED
        BY <3>1, <4>2, FS_Singleton
    <3>2. CASE r \notin Buffered
      <4>1. {i \in DOMAIN buf : buf[i].id = r} = {}
        BY <3>2 DEF Buffered
      <4>2. QED
        BY <3>2, <4>1, FS_EmptySet
    <3>3. QED
      BY <3>1, <3>2
  <2>2. Cardinality({i \in DOMAIN hand : hand[i].id = r}) = IF r \in InHand THEN 1 ELSE 0
    <3>1. CASE r \in InHand
      <4>1. hand # <<>>
        BY <3>1 DEF InHand
      <4>2. DOMAIN hand = {1}
        BY <4>1, OneRecord DEF ServiceInv, Typed, TypeOK, RequestLogTypeOK
      <4>3. {i \in DOMAIN hand : hand[i].id = r} = {1}
        BY <3>1, <4>2 DEF InHand
      <4>4. QED
        BY <3>1, <4>3, FS_Singleton
    <3>2. CASE r \notin InHand
      <4>1. {i \in DOMAIN hand : hand[i].id = r} = {}
        BY <3>2 DEF InHand
      <4>2. QED
        BY <3>2, <4>1, FS_EmptySet
    <3>3. QED
      BY <3>1, <3>2
  <2>3. Cardinality({x \in rows : x.id = r}) = IF r \in Stored THEN 1 ELSE 0
    <3>1. CASE r \in Stored
      <4>1. PICK x \in rows : x.id = r
        BY <3>1 DEF Stored
      <4>2. {y \in rows : y.id = r} = {x}
        BY <4>1 DEF ServiceInv, Placed
      <4>3. QED
        BY <3>1, <4>2, FS_Singleton
    <3>2. CASE r \notin Stored
      <4>1. {x \in rows : x.id = r} = {}
        BY <3>2 DEF Stored
      <4>2. QED
        BY <3>2, <4>1, FS_EmptySet
    <3>3. QED
      BY <3>1, <3>2
  <2>4. /\ r \in Buffered \/ r \in InHand \/ r \in Stored \/ r \in failed \/ r \in dropped
        /\ r \in Buffered => r \notin InHand /\ r \notin Stored /\ r \notin failed /\ r \notin dropped
        /\ r \in InHand => r \notin Stored /\ r \notin failed /\ r \notin dropped
        /\ r \in Stored => r \notin failed /\ r \notin dropped
        /\ r \in failed => r \notin dropped
    BY DEF ServiceInv, Placed
  <2>5. QED
    BY <2>1, <2>2, <2>3, <2>4
<1>2. RecordInOnePlace(Written)
  BY <1>1 DEF RecordInOnePlace
<1>3. shut \in {"redis", "down"} => buf = <<>> /\ hand = <<>>
  BY DEF ServiceInv, ShutdownOrder
<1>4. QED
  BY <1>2, <1>3 DEF AnswersRecorded, Written

-----------------------------------------------------------------------------

\* For any number of requests and any size of the buffer, the channel is never
\* overfull, consume works on one record at a time, and every record found anywhere
\* belongs to a request (RequestLogWriter).
THEOREM ServiceTypeCorrect == Spec => []TypeOK
<1>1. ServiceInv => TypeOK
  BY DEF ServiceInv, Typed
<1>2. QED
  BY <1>1, ServiceInvAlways, PTL

\* For any number of overlapping requests, any size of the buffer and any number of
\* failing INSERTs, the record of an answered request is in exactly one place, and none
\* is left in the channel once Close has returned (Write, consume, Close, Shutdown).
THEOREM ServiceAnswersRecorded == Spec => []AnswersRecorded
<1>1. ServiceInv => AnswersRecorded
  BY PlacedOnce
<1>2. QED
  BY <1>1, ServiceInvAlways, PTL

\* For any prompts, temperatures and NUL bytes, and however lookups, saves and expiries of
\* overlapping requests interleave, an answer from the cache was made for a question that
\* differs from the request's only in what its key cannot tell: where NUL bytes separate
\* fields, and less than a millionth of the temperature (ChatHandler.Chat, Cache.buildKey).
THEOREM ServiceHitMatchesRequest == Spec => []HitMatchesRequest
<1>1. ServiceInv => HitMatchesRequest
  <2>1. ASSUME ServiceInv, NEW r \in Requests, resp[r] # <<>>
        PROVE  resp[r][1] \in Queries /\ req[r] \in Queries
    BY <2>1 DEF ServiceInv, Typed, TypeOK
  <2>2. QED
    BY <2>1, KeyTells DEF ServiceInv, AnswersMatch, HitMatchesRequest
<1>2. QED
  BY <1>1, ServiceInvAlways, PTL

\* However many requests are under way when the signal comes, none meets the closed
\* channel unless http.Server.Shutdown gave up waiting (Server.Shutdown, Write).
THEOREM ServicePanicOnlyAfterTimeout == Spec => []PanicOnlyAfterTimeout
<1>1. ServiceInv => PanicOnlyAfterTimeout
  BY DEF ServiceInv, ShutdownOrder
<1>2. QED
  BY <1>1, ServiceInvAlways, PTL
=============================================================================
