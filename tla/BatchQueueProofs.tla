-------------------------- MODULE BatchQueueProofs --------------------------
(***************************************************************************)
(* Theorems about batch processing: where a job's item is, who owns the    *)
(* job, and who may change what became of it.                              *)
(***************************************************************************)
EXTENDS BatchQueue, FiniteSetTheorems, SequenceTheorems, TLAPS

\* What the code relies on without saying so: a worker has an item exactly while it
\* processes one, it waits for a retry only while it has one left, the reaper knows
\* the job it fails, and a process that is down has no goroutines.
Placed ==
    /\ \A w \in Workers : /\ wpc[w] = "idle" => item[w] = NoJob
                          /\ wpc[w] # "idle" => item[w] \in Jobs
                          /\ wpc[w] = "backoff" => attempt[w] < MaxRetries
    /\ rpc \in {"fail", "clear"} => rjob \in Jobs
    /\ up \in {"stopped", "crashed"} => rpc = "idle" /\ \A w \in Workers : wpc[w] = "idle"

\* The locations of a worker that knows the owner of its job and has yet to save it.
Owning == {"mark", "track", "run", "backoff", "complete", "fail"}

\* The job has a hash in Redis.
Known(j) == job[j].status # "none"

\* Only jobs with a hash are queued, processed or watched.
Saved ==
    /\ \A j \in Jobs : /\ enq[j] \in {"saved", "accepted"} => Known(j)
                       /\ tracked[j] # -1 => Known(j)
    /\ \A j \in Range(queue) : Known(j)
    /\ \A w \in Workers : wpc[w] # "idle" => Known(item[w])
    /\ \A j \in stale : Known(j)
    /\ rpc \in {"fail", "clear"} => Known(rjob)

\* As long as no command failed, every hash has its owner, and so have the workers and
\* the reaper whose commands can still succeed.  A read that the cancelled context
\* failed leaves no owner, but then nothing can be saved either.
Owned ==
    redisErrors = 0 =>
        /\ \A j \in Jobs : Known(j) => job[j].owner = "client"
        /\ up = "running" =>
             /\ \A w \in Workers : wpc[w] \in Owning => owner[w] = "client"
             /\ rpc = "fail" => rowner = "client"

\* As long as no reply was lost, an item is in one place, and only when its job was
\* accepted.
OnePlace ==
    lostReplies = 0 =>
        /\ IsInjective(queue)
        /\ \A w, v \in Workers : item[w] = item[v] /\ item[w] # NoJob => w = v
        /\ \A w \in Workers : item[w] \notin Range(queue)
        /\ \A j \in Range(queue) : enq[j] = "accepted"
        /\ \A w \in Workers : item[w] # NoJob => enq[item[w]] = "accepted"

\* As long as no reply was lost, the job of an item that is queued or under way has no
\* answer yet, nor has a job that was not queued.
Unanswered ==
    lostReplies = 0 =>
        /\ \A j \in Jobs : enq[j] \in {"new", "saved"} \/ j \in Range(queue) =>
                              job[j].status # "completed"
        /\ \A w \in Workers : wpc[w] \in Owning \cup {"read"} =>
                                 job[item[w]].status # "completed"

\* The inductive invariant.
BatchInv == TypeOK /\ Placed /\ Saved /\ Owned /\ OnePlace /\ Unanswered

-----------------------------------------------------------------------------
(* Types.                                                                  *)

TypeOfRedis ==
    /\ job \in [Jobs -> [status : Statuses, owner : Owners]]
    /\ queue \in Seq(Jobs)
    /\ tracked \in [Jobs -> -1..StaleAfter]
    /\ enq \in [Jobs -> {"new", "saved", "accepted", "rejected"}]

TypeOfWorkers ==
    /\ wpc \in [Workers -> {"idle", "read", "mark", "track", "run", "backoff",
                            "complete", "fail", "clear"}]
    /\ item \in [Workers -> Jobs \cup {NoJob}]
    /\ owner \in [Workers -> Owners]
    /\ attempt \in [Workers -> 0..MaxRetries]

TypeOfReaper ==
    /\ rpc \in {"idle", "next", "fail", "clear"}
    /\ stale \in SUBSET Jobs
    /\ rjob \in Jobs \cup {NoJob}
    /\ rowner \in Owners

TypeOfEnv ==
    /\ up \in {"running", "stopping", "stopped", "crashed"}
    /\ outages \in 0..MaxOutages
    /\ redisErrors \in 0..MaxRedisErrors
    /\ lostReplies \in 0..MaxLostReplies

\* The typing invariant, in the parts the steps below treat apart.
LEMMA TypeParts == TypeOK <=> TypeOfRedis /\ TypeOfWorkers /\ TypeOfReaper /\ TypeOfEnv
BY DEF TypeOK, TypeOfRedis, TypeOfWorkers, TypeOfReaper, TypeOfEnv

\* The locations of a worker.
Locations == {"idle", "read", "mark", "track", "run", "backoff", "complete", "fail", "clear"}

\* A worker that goes on keeps its item, and one that is done gives it up.
LEMMA WorkerMoves ==
    ASSUME TypeOfWorkers, NEW w \in Workers
    PROVE  /\ \A l \in Locations : GoTo(w, l) =>
                TypeOfWorkers' /\ wpc'[w] = l /\ UNCHANGED <<item, owner, attempt>>
           /\ Finish(w) => TypeOfWorkers' /\ wpc'[w] = "idle" /\ item'[w] = NoJob
<1>1. ASSUME NEW l \in Locations, GoTo(w, l)
      PROVE  TypeOfWorkers' /\ wpc'[w] = l /\ UNCHANGED <<item, owner, attempt>>
  BY <1>1 DEF TypeOfWorkers, GoTo, Locations
<1>2. ASSUME Finish(w)
      PROVE  TypeOfWorkers' /\ wpc'[w] = "idle" /\ item'[w] = NoJob
  <2>1. wpc' \in [Workers -> Locations] /\ wpc'[w] = "idle"
    BY <1>2 DEF TypeOfWorkers, Finish, Locations
  <2>2. item' \in [Workers -> Jobs \cup {NoJob}] /\ item'[w] = NoJob
    BY <1>2 DEF TypeOfWorkers, Finish
  <2>3. owner' \in [Workers -> Owners]
    BY <1>2 DEF TypeOfWorkers, Finish, Owners
  <2>4. attempt' \in [Workers -> 0..MaxRetries]
    <3>1. 0 \in 0..MaxRetries
      BY BatchConfig
    <3>2. QED
      BY <1>2, <3>1 DEF TypeOfWorkers, Finish
  <2>5. QED
    BY <2>1, <2>2, <2>3, <2>4 DEF TypeOfWorkers, Locations
<1>3. QED
  BY <1>1, <1>2

\* What the commands on a hash do.
LEMMA SaveResult ==
    ASSUME TypeOfRedis, NEW j \in Jobs, NEW st \in Statuses, NEW own \in Owners, Save(j, st, own)
    PROVE  /\ job' \in [Jobs -> [status : Statuses, owner : Owners]]
           /\ job'[j].status = st /\ job'[j].owner = own
           /\ \A i \in Jobs \ {j} : job'[i] = job[i]
BY DEF TypeOfRedis, Save

LEMMA SetStatusResult ==
    ASSUME TypeOfRedis, NEW j \in Jobs, job' = [job EXCEPT ![j].status = "processing"]
    PROVE  /\ job' \in [Jobs -> [status : Statuses, owner : Owners]]
           /\ job'[j].status = "processing" /\ job'[j].owner = job[j].owner
           /\ \A i \in Jobs \ {j} : job'[i] = job[i]
<1>1. job[j] \in [status : Statuses, owner : Owners]
  BY DEF TypeOfRedis
<1>2. [job[j] EXCEPT !.status = "processing"] \in [status : Statuses, owner : Owners]
  BY <1>1 DEF Statuses
<1>3. QED
  BY <1>1, <1>2 DEF TypeOfRedis

LEMMA SetTrackedResult ==
    ASSUME TypeOfRedis, NEW j \in Jobs, NEW t \in {-1, 0}, tracked' = [tracked EXCEPT ![j] = t]
    PROVE  /\ tracked' \in [Jobs -> -1..StaleAfter]
           /\ tracked'[j] = t /\ \A i \in Jobs \ {j} : tracked'[i] = tracked[i]
BY BatchConfig DEF TypeOfRedis

\* A command leaves the process up, and the counts of failures only grow.
LEMMA CommandEnv ==
    ASSUME TypeOfEnv, RedisOK \/ RedisFails \/ LostReply
    PROVE  /\ TypeOfEnv' /\ UNCHANGED <<up, outages>> /\ up \in {"running", "stopping"}
           /\ redisErrors' = 0 => redisErrors = 0
           /\ lostReplies' = 0 => lostReplies = 0
BY BatchConfig DEF TypeOfEnv, RedisOK, RedisFails, LostReply, Cancelled, envVars

\* What a step of worker w leaves alone.
WorkerFrame(w) ==
    /\ UNCHANGED <<enq, rpc, stale, rjob, rowner, up, outages>>
    /\ up \in {"running", "stopping"}
    /\ redisErrors' = 0 => redisErrors = 0
    /\ lostReplies' = 0 => lostReplies = 0
    /\ \A v \in Workers \ {w} : /\ wpc'[v] = wpc[v] /\ item'[v] = item[v]
                                /\ owner'[v] = owner[v] /\ attempt'[v] = attempt[v]

LEMMA WorkerFrameStep ==
    ASSUME TypeOK, NEW w \in Workers, WorkerStep(w)
    PROVE  WorkerFrame(w) /\ TypeOfEnv'
<1> USE TypeParts DEF WorkerFrame
<1>1. CASE Pop(w)
  <2>1. RedisOK \/ LostReply
    BY <1>1 DEF Pop
  <2>2. TypeOfEnv' /\ UNCHANGED <<up, outages>> /\ up \in {"running", "stopping"}
        /\ (redisErrors' = 0 => redisErrors = 0) /\ (lostReplies' = 0 => lostReplies = 0)
    BY <2>1, CommandEnv
  <2>3. QED
    BY <1>1, <2>2 DEF Pop, TypeOfWorkers, reaperVars
<1>2. CASE ReadJob(w) \/ MarkStatus(w) \/ MarkTracked(w) \/ Complete(w) \/ FailJob(w)
           \/ ClearProcessing(w)
  <2>1. RedisOK \/ RedisFails \/ LostReply
    BY <1>2 DEF ReadJob, MarkStatus, MarkTracked, Complete, FailJob, ClearProcessing
  <2>2. TypeOfEnv' /\ UNCHANGED <<up, outages>> /\ up \in {"running", "stopping"}
        /\ (redisErrors' = 0 => redisErrors = 0) /\ (lostReplies' = 0 => lostReplies = 0)
    BY <2>1, CommandEnv
  <2>3. UNCHANGED <<enq, rpc, stale, rjob, rowner>>
    BY <1>2 DEF ReadJob, MarkStatus, MarkTracked, Complete, FailJob, ClearProcessing, reaperVars
  <2>4. \A v \in Workers \ {w} : /\ wpc'[v] = wpc[v] /\ item'[v] = item[v]
                                 /\ owner'[v] = owner[v] /\ attempt'[v] = attempt[v]
    BY <1>2 DEF ReadJob, MarkStatus, MarkTracked, Complete, FailJob, ClearProcessing, GoTo,
       Finish, TypeOfWorkers
  <2>5. QED
    BY <2>2, <2>3, <2>4
<1>3. CASE RunSucceeds(w) \/ (\E retryable \in BOOLEAN : RunFails(w, retryable)) \/ Backoff(w)
  <2>1. UNCHANGED <<enq, rpc, stale, rjob, rowner, up, outages, redisErrors, lostReplies>>
        /\ up \in {"running", "stopping"}
    BY <1>3 DEF RunSucceeds, RunFails, Backoff, reaperVars, envVars, Serving
  <2>2. \A v \in Workers \ {w} : /\ wpc'[v] = wpc[v] /\ item'[v] = item[v]
                                 /\ owner'[v] = owner[v] /\ attempt'[v] = attempt[v]
    BY <1>3 DEF RunSucceeds, RunFails, Backoff, GoTo, TypeOfWorkers
  <2>3. QED
    BY <2>1, <2>2 DEF TypeOfEnv
<1>4. QED
  BY <1>1, <1>2, <1>3 DEF WorkerStep

\* The steps of a worker keep the types and the places of its item.
LEMMA WorkerTypeStep ==
    ASSUME TypeOK, Placed, NEW w \in Workers, WorkerStep(w)
    PROVE  TypeOK' /\ Placed'
<1> USE TypeParts
<1>1. WorkerFrame(w) /\ TypeOfEnv'
  BY WorkerFrameStep
<1>2. TypeOfReaper'
  BY <1>1 DEF WorkerFrame, TypeOfReaper
<1> DEFINE Own == /\ wpc'[w] = "idle" => item'[w] = NoJob
                  /\ wpc'[w] # "idle" => item'[w] \in Jobs
                  /\ wpc'[w] = "backoff" => attempt'[w] < MaxRetries
<1>3. ASSUME Own PROVE Placed'
  <2>1. wpc[w] # "idle" \/ up \in {"running", "stopping"}
    BY <1>1 DEF WorkerFrame
  <2>2. QED
    BY <1>1, <1>3 DEF Placed, WorkerFrame
<1>4. CASE Pop(w)
  <2>1. /\ queue[Len(queue)] \in Jobs /\ SubSeq(queue, 1, Len(queue) - 1) \in Seq(Jobs)
    BY <1>4 DEF Pop, TypeOfRedis
  <2>2. TypeOfRedis'
    BY <1>4, <2>1 DEF Pop, TypeOfRedis
  <2>3. TypeOfWorkers' /\ Own
    BY <1>4, <2>1 DEF Pop, TypeOfWorkers, Placed
  <2>4. QED
    BY <1>1, <1>2, <1>3, <2>2, <2>3 DEF TypeOK, TypeOfRedis, TypeOfWorkers, TypeOfReaper, TypeOfEnv
<1>5. CASE ReadJob(w)
  <2>1. item[w] \in Jobs /\ job[item[w]].owner \in Owners
    BY <1>5 DEF ReadJob, Placed, TypeOfRedis
  <2>2. TypeOfRedis'
    BY <1>5 DEF ReadJob, TypeOfRedis, redisVars
  <2>3. TypeOfWorkers' /\ Own
    <3>1. CASE Finish(w)
      BY <3>1, WorkerMoves
    <3>2. CASE GoTo(w, "mark")
      BY <2>1, <3>2, WorkerMoves DEF Locations
    <3>3. CASE /\ owner' = [owner EXCEPT ![w] = job[item[w]].owner]
               /\ wpc' = [wpc EXCEPT ![w] = "mark"] /\ UNCHANGED <<item, attempt>>
      BY <2>1, <3>3 DEF TypeOfWorkers
    <3>4. QED
      BY <1>5, <3>1, <3>2, <3>3 DEF ReadJob
  <2>4. QED
    BY <1>1, <1>2, <1>3, <2>2, <2>3 DEF TypeOK, TypeOfRedis, TypeOfWorkers, TypeOfReaper, TypeOfEnv
<1>6. CASE MarkStatus(w) \/ MarkTracked(w) \/ RunSucceeds(w)
  <2>1. item[w] \in Jobs /\ wpc[w] # "idle"
    BY <1>6 DEF MarkStatus, MarkTracked, RunSucceeds, Placed
  <2>2. TypeOfRedis'
    <3>1. CASE MarkStatus(w)
      BY <2>1, <3>1, SetStatusResult DEF MarkStatus, TypeOfRedis
    <3>2. CASE MarkTracked(w)
      BY <2>1, <3>2, SetTrackedResult DEF MarkTracked, TypeOfRedis
    <3>3. CASE RunSucceeds(w)
      BY <3>3 DEF RunSucceeds, TypeOfRedis, redisVars
    <3>4. QED
      BY <1>6, <3>1, <3>2, <3>3
  <2>3. TypeOfWorkers' /\ Own
    BY <1>6, <2>1 DEF MarkStatus, MarkTracked, RunSucceeds, TypeOfWorkers, GoTo
  <2>4. QED
    BY <1>1, <1>2, <1>3, <2>2, <2>3 DEF TypeOK, TypeOfRedis, TypeOfWorkers, TypeOfReaper, TypeOfEnv
<1>7. CASE (\E retryable \in BOOLEAN : RunFails(w, retryable)) \/ Backoff(w)
  <2>1. item[w] \in Jobs /\ wpc[w] # "idle"
    BY <1>7 DEF RunFails, Backoff, Placed
  <2>2. TypeOfRedis'
    BY <1>7 DEF RunFails, Backoff, TypeOfRedis, redisVars
  <2>3. TypeOfWorkers' /\ Own
    <3>1. CASE \E retryable \in BOOLEAN : RunFails(w, retryable)
      BY <2>1, <3>1 DEF RunFails, TypeOfWorkers, GoTo
    <3>2. CASE Backoff(w)
      <4>1. attempt[w] + 1 \in 0..MaxRetries
        BY <3>2, BatchConfig DEF Backoff, Placed, TypeOfWorkers
      <4>2. QED
        BY <2>1, <3>2, <4>1 DEF Backoff, TypeOfWorkers, GoTo
    <3>3. QED
      BY <1>7, <3>1, <3>2
  <2>4. QED
    BY <1>1, <1>2, <1>3, <2>2, <2>3 DEF TypeOK, TypeOfRedis, TypeOfWorkers, TypeOfReaper, TypeOfEnv
<1>8. CASE Complete(w) \/ FailJob(w) \/ ClearProcessing(w)
  <2>1. item[w] \in Jobs /\ wpc[w] # "idle" /\ owner[w] \in Owners
    BY <1>8 DEF Complete, FailJob, ClearProcessing, Placed, TypeOfWorkers
  <2>2. TypeOfRedis'
    <3>1. CASE Complete(w) \/ FailJob(w)
      <4>1. \/ UNCHANGED job
            \/ \E st \in Statuses : Save(item[w], st, owner[w])
        BY <3>1 DEF Complete, FailJob, Statuses
      <4>2. UNCHANGED <<queue, tracked, enq>>
        BY <3>1 DEF Complete, FailJob
      <4>3. QED
        BY <2>1, <4>1, <4>2, SaveResult DEF TypeOfRedis
    <3>2. CASE ClearProcessing(w)
      BY <2>1, <3>2, SetTrackedResult DEF ClearProcessing, TypeOfRedis
    <3>3. QED
      BY <1>8, <3>1, <3>2
  <2>3. TypeOfWorkers' /\ Own
    <3>1. GoTo(w, "clear") \/ Finish(w)
      BY <1>8 DEF Complete, FailJob, ClearProcessing
    <3>2. QED
      BY <2>1, <3>1, WorkerMoves DEF Locations
  <2>4. QED
    BY <1>1, <1>2, <1>3, <2>2, <2>3 DEF TypeOK, TypeOfRedis, TypeOfWorkers, TypeOfReaper, TypeOfEnv
<1>9. QED
  BY <1>4, <1>5, <1>6, <1>7, <1>8 DEF WorkerStep

\* What a step of the producer, the reaper or the clock leaves alone.
OthersFrame ==
    /\ UNCHANGED <<wpc, item, owner, attempt, up, outages>>
    /\ redisErrors' = 0 => redisErrors = 0
    /\ lostReplies' = 0 => lostReplies = 0

\* The steps of the producer keep the types.
LEMMA ProducerTypeStep ==
    ASSUME TypeOK, Placed, NEW j \in Jobs, ProducerStep(j)
    PROVE  TypeOK' /\ Placed' /\ OthersFrame /\ UNCHANGED <<rpc, stale, rjob, rowner, tracked>>
<1> USE TypeParts
<1>1. UNCHANGED <<wpc, item, owner, attempt, rpc, stale, rjob, rowner, tracked>>
  BY DEF ProducerStep, EnqueueSave, EnqueuePush, workerVars, reaperVars
<1>2. TypeOfEnv' /\ OthersFrame
  <2>1. UNCHANGED envVars \/ LostReply
    BY DEF ProducerStep, EnqueueSave, EnqueuePush
  <2>2. CASE UNCHANGED envVars
    BY <1>1, <2>2 DEF envVars, TypeOfEnv, OthersFrame
  <2>3. CASE LostReply
    BY <1>1, <2>3, CommandEnv DEF OthersFrame
  <2>4. QED
    BY <2>1, <2>2, <2>3
<1>3. TypeOfRedis'
  <2>1. CASE EnqueueSave(j)
    <3>1. job' \in [Jobs -> [status : Statuses, owner : Owners]]
      BY <2>1, SaveResult DEF EnqueueSave, TypeOfRedis, Statuses, Owners
    <3>2. QED
      BY <2>1, <3>1 DEF EnqueueSave, TypeOfRedis
  <2>2. CASE EnqueuePush(j)
    <3>1. <<j>> \o queue \in Seq(Jobs) /\ <<j, j>> \o queue \in Seq(Jobs)
      BY DEF TypeOfRedis
    <3>2. queue' \in Seq(Jobs)
      BY <2>2, <3>1 DEF EnqueuePush, TypeOfRedis
    <3>3. QED
      BY <2>2, <3>2 DEF EnqueuePush, TypeOfRedis
  <2>3. QED
    BY <2>1, <2>2 DEF ProducerStep
<1>4. TypeOK'
  BY <1>1, <1>2, <1>3 DEF TypeOK, TypeOfRedis, TypeOfWorkers, TypeOfReaper, TypeOfEnv
<1>5. Placed'
  BY <1>1, <1>2 DEF Placed, OthersFrame
<1>6. QED
  BY <1>1, <1>2, <1>4, <1>5

\* The steps of the reaper keep the types.
LEMMA ReaperTypeStep ==
    ASSUME TypeOK, Placed, ReaperStep
    PROVE  TypeOK' /\ Placed' /\ OthersFrame /\ UNCHANGED <<enq, queue>>
<1> USE TypeParts
<1>1. UNCHANGED <<wpc, item, owner, attempt, enq, queue>>
  BY DEF ReaperStep, ReaperScan, ReaperRead, ReaperFails, ReaperClears, workerVars, redisVars
<1>2. RedisOK \/ RedisFails
  BY DEF ReaperStep, ReaperScan, ReaperRead, ReaperFails, ReaperClears
<1>3. TypeOfEnv' /\ OthersFrame /\ up \in {"running", "stopping"}
  BY <1>1, <1>2, CommandEnv DEF OthersFrame
<1>4. TypeOfRedis'
  <2>1. CASE ReaperScan \/ \E j \in Jobs : ReaperRead(j)
    BY <2>1 DEF ReaperScan, ReaperRead, redisVars, TypeOfRedis
  <2>2. CASE ReaperFails
    BY <2>2, SaveResult DEF ReaperFails, TypeOfRedis, TypeOfReaper, Placed, Statuses
  <2>3. CASE ReaperClears
    BY <2>3, SetTrackedResult DEF ReaperClears, TypeOfRedis, Placed
  <2>4. QED
    BY <2>1, <2>2, <2>3 DEF ReaperStep
<1>5. TypeOfReaper' /\ (rpc' \in {"fail", "clear"} => rjob' \in Jobs)
  <2>1. CASE ReaperScan
    BY <2>1 DEF ReaperScan, TypeOfReaper
  <2>2. ASSUME NEW j \in Jobs, ReaperRead(j)
        PROVE  TypeOfReaper' /\ (rpc' \in {"fail", "clear"} => rjob' \in Jobs)
    <3>1. job[j].owner \in Owners /\ "" \in Owners
      BY DEF TypeOfRedis, Owners
    <3>2. QED
      BY <2>2, <3>1 DEF ReaperRead, TypeOfReaper
  <2>3. CASE ReaperFails
    BY <2>3 DEF ReaperFails, TypeOfReaper, Placed
  <2>4. CASE ReaperClears
    BY <2>4 DEF ReaperClears, TypeOfReaper, Owners
  <2>5. QED
    BY <2>1, <2>2, <2>3, <2>4 DEF ReaperStep
<1>6. TypeOK'
  BY <1>1, <1>3, <1>4, <1>5 DEF TypeOK, TypeOfRedis, TypeOfWorkers, TypeOfReaper, TypeOfEnv
<1>7. Placed'
  BY <1>1, <1>3, <1>5 DEF Placed, OthersFrame
<1>8. QED
  BY <1>1, <1>3, <1>6, <1>7

\* Time, stops, crashes and restarts keep the types.
LEMMA ProcessTypeStep ==
    ASSUME TypeOK, Placed, Tick \/ Stop \/ Stopped \/ Crash \/ Start
    PROVE  TypeOK' /\ Placed'
<1> USE TypeParts
<1>1. CASE Tick
  <2>1. tracked' \in [Jobs -> -1..StaleAfter]
    BY <1>1, BatchConfig DEF Tick, TypeOfRedis
  <2>2. QED
    BY <1>1, <2>1 DEF Tick, TypeOK, Placed, workerVars, reaperVars, envVars
<1>2. CASE Stop \/ Start
  <2>1. TypeOfEnv'
    BY <1>2, BatchConfig DEF Stop, Start, TypeOfEnv
  <2>2. /\ UNCHANGED <<redisVars, enq, workerVars, reaperVars>>
        /\ up' \in {"running", "stopping"}
    BY <1>2 DEF Stop, Start
  <2>3. QED
    BY <2>1, <2>2 DEF TypeOK, TypeOfEnv, Placed, redisVars, workerVars, reaperVars
<1>3. CASE Stopped
  <2>1. enq' \in [Jobs -> {"new", "saved", "accepted", "rejected"}]
    BY <1>3 DEF Stopped, TypeOfRedis
  <2>2. QED
    BY <1>3, <2>1 DEF Stopped, TypeOK, Placed, redisVars, workerVars, reaperVars
<1>4. CASE Crash
  <2>1. enq' \in [Jobs -> {"new", "saved", "accepted", "rejected"}] /\ TypeOfRedis'
    BY <1>4 DEF Crash, TypeOfRedis, redisVars
  <2>2. TypeOfEnv'
    <3>1. outages' \in 0..MaxOutages
      <4>1. outages' = outages \/ (outages < MaxOutages /\ outages' = outages + 1)
        BY <1>4 DEF Crash
      <4>2. QED
        BY <4>1, BatchConfig DEF TypeOfEnv
    <3>2. QED
      BY <1>4, <3>1 DEF Crash, TypeOfEnv
  <2>3. 0 \in 0..MaxRetries
    BY BatchConfig
  <2>4. TypeOfWorkers' /\ TypeOfReaper'
    BY <1>4, <2>3 DEF Crash, TypeOfWorkers, TypeOfReaper, Owners
  <2>5. Placed'
    BY <1>4 DEF Crash, Placed
  <2>6. QED
    BY <2>1, <2>2, <2>4, <2>5 DEF TypeOK, TypeOfRedis, TypeOfWorkers, TypeOfReaper, TypeOfEnv
<1>5. QED
  BY <1>1, <1>2, <1>3, <1>4

-----------------------------------------------------------------------------
(* Hashes and owners.                                                      *)

\* What a worker's step does to the hashes: nothing, a new status, or a save with the
\* owner it read, and the latter two only while commands succeed.
WorkerWrites(w) ==
    \/ UNCHANGED job
    \/ /\ wpc[w] = "mark" /\ up = "running"
       /\ job' = [job EXCEPT ![item[w]].status = "processing"]
    \/ /\ wpc[w] \in {"complete", "fail"} /\ up = "running"
       /\ \/ wpc[w] = "complete" /\ Save(item[w], "completed", owner[w])
          \/ wpc[w] = "fail" /\ Save(item[w], "failed", owner[w])

LEMMA WorkerWritesStep ==
    ASSUME NEW w \in Workers, WorkerStep(w)
    PROVE  WorkerWrites(w)
<1>1. CASE MarkStatus(w)
  BY <1>1 DEF MarkStatus, WorkerWrites, RedisOK, LostReply
<1>2. CASE Complete(w)
  BY <1>2 DEF Complete, WorkerWrites, RedisOK, LostReply
<1>3. CASE FailJob(w)
  BY <1>3 DEF FailJob, WorkerWrites, RedisOK
<1>4. CASE ~MarkStatus(w) /\ ~Complete(w) /\ ~FailJob(w)
  BY <1>4 DEF WorkerStep, Pop, ReadJob, MarkTracked, RunSucceeds, RunFails, Backoff,
     ClearProcessing, WorkerWrites, redisVars
<1>5. QED
  BY <1>1, <1>2, <1>3, <1>4

\* What those writes mean for every job.
LEMMA WorkerWritesResult ==
    ASSUME TypeOK, Placed, NEW w \in Workers, WorkerWrites(w)
    PROVE  \A j \in Jobs :
              \/ job'[j] = job[j]
              \/ /\ j = item[w] /\ up = "running" /\ wpc[w] \in {"mark", "complete", "fail"}
                 /\ job'[j].status \in {"processing", "completed", "failed"}
                 /\ job'[j].status = "completed" => wpc[w] = "complete"
                 /\ job'[j].owner \in {job[j].owner, owner[w]}
<1>1. TypeOfRedis /\ owner[w] \in Owners
  BY TypeParts DEF TypeOfWorkers
<1>2. wpc[w] \in {"mark", "complete", "fail"} => item[w] \in Jobs
  BY DEF Placed
<1>3. CASE UNCHANGED job
  BY <1>3
<1>4. CASE /\ wpc[w] = "mark" /\ up = "running"
           /\ job' = [job EXCEPT ![item[w]].status = "processing"]
  BY <1>1, <1>2, <1>4, SetStatusResult
<1>5. CASE wpc[w] = "complete" /\ up = "running" /\ Save(item[w], "completed", owner[w])
  BY <1>1, <1>2, <1>5, SaveResult DEF Statuses
<1>6. CASE wpc[w] = "fail" /\ up = "running" /\ Save(item[w], "failed", owner[w])
  BY <1>1, <1>2, <1>6, SaveResult DEF Statuses
<1>7. QED
  BY <1>3, <1>4, <1>5, <1>6 DEF WorkerWrites

\* The range of the queue when an item is pushed or popped.
LEMMA PushRange ==
    ASSUME NEW q \in Seq(Jobs), NEW j \in Jobs
    PROVE  /\ Range(<<j>> \o q) = Range(q) \cup {j}
           /\ Range(<<j, j>> \o q) = Range(q) \cup {j}
           /\ IsInjective(q) /\ j \notin Range(q) => IsInjective(<<j>> \o q)
<1>1. /\ Len(q) \in Nat /\ DOMAIN q = 1..Len(q)
      /\ DOMAIN (<<j>> \o q) = 1..(Len(q) + 1) /\ (<<j>> \o q)[1] = j
      /\ \A k \in 2..(Len(q) + 1) : (<<j>> \o q)[k] = q[k - 1]
  OBVIOUS
<1>2. /\ DOMAIN (<<j, j>> \o q) = 1..(Len(q) + 2)
      /\ (<<j, j>> \o q)[1] = j /\ (<<j, j>> \o q)[2] = j
      /\ \A k \in 3..(Len(q) + 2) : (<<j, j>> \o q)[k] = q[k - 2]
  OBVIOUS
<1>3. /\ \A k \in 1..(Len(q) + 1) : k = 1 \/ (k \in 2..(Len(q) + 1) /\ k - 1 \in 1..Len(q))
      /\ \A k \in 1..(Len(q) + 2) : k = 1 \/ k = 2 \/ (k \in 3..(Len(q) + 2) /\ k - 2 \in 1..Len(q))
      /\ \A k \in 1..Len(q) : k + 1 \in 2..(Len(q) + 1) /\ (k + 1) - 1 = k /\ k + 1 \in 1..(Len(q) + 1)
      /\ \A k \in 1..Len(q) : k + 2 \in 3..(Len(q) + 2) /\ (k + 2) - 2 = k /\ k + 2 \in 1..(Len(q) + 2)
      /\ 1 \in 1..(Len(q) + 1) /\ 1 \in 1..(Len(q) + 2)
  BY <1>1
<1>4. Range(<<j>> \o q) = Range(q) \cup {j}
  <2>1. ASSUME NEW x \in Range(<<j>> \o q) PROVE x \in Range(q) \cup {j}
    BY <1>1, <1>3 DEF Range
  <2>2. ASSUME NEW k \in 1..Len(q) PROVE q[k] \in Range(<<j>> \o q)
    <3>1. (<<j>> \o q)[k + 1] = q[k] /\ k + 1 \in DOMAIN (<<j>> \o q)
      BY <1>1, <1>3
    <3>2. QED
      BY <3>1 DEF Range
  <2>3. j \in Range(<<j>> \o q)
    BY <1>1, <1>3 DEF Range
  <2>4. Range(q) \subseteq Range(<<j>> \o q)
    BY <1>1, <2>2 DEF Range
  <2>5. QED
    BY <2>1, <2>3, <2>4
<1>5. Range(<<j, j>> \o q) = Range(q) \cup {j}
  <2>1. ASSUME NEW x \in Range(<<j, j>> \o q) PROVE x \in Range(q) \cup {j}
    BY <1>1, <1>2, <1>3 DEF Range
  <2>2. ASSUME NEW k \in 1..Len(q) PROVE q[k] \in Range(<<j, j>> \o q)
    <3>1. (<<j, j>> \o q)[k + 2] = q[k] /\ k + 2 \in DOMAIN (<<j, j>> \o q)
      BY <1>2, <1>3
    <3>2. QED
      BY <3>1 DEF Range
  <2>3. j \in Range(<<j, j>> \o q)
    BY <1>2, <1>3 DEF Range
  <2>4. Range(q) \subseteq Range(<<j, j>> \o q)
    BY <1>1, <2>2 DEF Range
  <2>5. QED
    BY <2>1, <2>3, <2>4
<1>6. ASSUME IsInjective(q), j \notin Range(q) PROVE IsInjective(<<j>> \o q)
  <2> SUFFICES ASSUME NEW k \in 1..(Len(q) + 1), NEW l \in 1..(Len(q) + 1),
                      (<<j>> \o q)[k] = (<<j>> \o q)[l]
               PROVE  k = l
    BY <1>1 DEF IsInjective
  <2>0. \A m \in 1..(Len(q) + 1) : m # 1 => (<<j>> \o q)[m] \in Range(q)
    BY <1>1, <1>3 DEF Range
  <2>1. CASE k = 1 \/ l = 1
    BY <1>1, <1>6, <2>0, <2>1
  <2>2. CASE k # 1 /\ l # 1
    <3>1. k - 1 = l - 1
      BY <1>1, <1>3, <1>6, <2>2 DEF IsInjective
    <3>2. QED
      BY <1>1, <3>1
  <2>3. QED
    BY <2>1, <2>2
<1>7. QED
  BY <1>4, <1>5, <1>6

LEMMA PopRange ==
    ASSUME NEW q \in Seq(Jobs), q # <<>>
    PROVE  LET front == SubSeq(q, 1, Len(q) - 1) IN
           /\ q[Len(q)] \in Range(q) /\ Range(front) \subseteq Range(q)
           /\ IsInjective(q) => IsInjective(front) /\ q[Len(q)] \notin Range(front)
<1> DEFINE front == SubSeq(q, 1, Len(q) - 1)
<1>1. /\ Len(q) \in Nat /\ Len(q) > 0 /\ DOMAIN q = 1..Len(q)
      /\ DOMAIN front = 1..(Len(q) - 1)
      /\ \A k \in 1..(Len(q) - 1) : front[k] = q[k]
  OBVIOUS
<1> HIDE DEF front
<1>2. /\ \A k \in 1..(Len(q) - 1) : k \in 1..Len(q) /\ k # Len(q)
      /\ Len(q) \in 1..Len(q)
  <2>1. \A n \in Nat : n > 0 => /\ \A k \in 1..(n - 1) : k \in 1..n /\ k # n
                                /\ n \in 1..n
    OBVIOUS
  <2>2. QED
    BY <1>1, <2>1
<1>3. QED
  BY <1>1, <1>2 DEF Range, IsInjective, front

\* What a worker that has an item does with it: it keeps it until it is done, and takes
\* its owner over from the hash or has none.
WorkerGoesOn(w) ==
    /\ wpc[w] # "idle" /\ UNCHANGED queue
    /\ wpc'[w] # "idle" => item'[w] = item[w]
    /\ wpc'[w] = "idle" => item'[w] = NoJob
    /\ wpc'[w] # "read"
    /\ wpc'[w] \in Owning =>
         /\ wpc[w] \in {"read", "mark", "track", "run", "backoff"}
         /\ \/ wpc[w] # "read" /\ owner'[w] = owner[w]
            \/ wpc[w] = "read" /\ RedisOK /\ owner'[w] = job[item[w]].owner
            \/ RedisFails
    /\ \/ UNCHANGED tracked
       \/ \E t \in {-1, 0} : tracked' = [tracked EXCEPT ![item[w]] = t]

LEMMA WorkerGoesOnStep ==
    ASSUME TypeOK, Placed, NEW w \in Workers, WorkerStep(w), ~Pop(w)
    PROVE  WorkerGoesOn(w)
<1>1. TypeOfWorkers
  BY TypeParts
<1>2. CASE ReadJob(w)
  <2>1. wpc[w] = "read" /\ UNCHANGED <<queue, tracked>>
    BY <1>2 DEF ReadJob, redisVars
  <2>2. CASE Finish(w)
    BY <1>1, <2>1, <2>2, WorkerMoves DEF WorkerGoesOn, Owning
  <2>3. CASE RedisFails /\ GoTo(w, "mark")
    BY <1>1, <2>1, <2>3, WorkerMoves DEF WorkerGoesOn, Locations
  <2>4. CASE /\ RedisOK /\ owner' = [owner EXCEPT ![w] = job[item[w]].owner]
             /\ wpc' = [wpc EXCEPT ![w] = "mark"] /\ UNCHANGED <<item, attempt>>
    BY <1>1, <2>1, <2>4 DEF WorkerGoesOn, TypeOfWorkers
  <2>5. QED
    BY <1>2, <2>2, <2>3, <2>4 DEF ReadJob
<1>3. CASE MarkStatus(w) \/ MarkTracked(w)
  <2>1. /\ wpc[w] \in {"mark", "track"} /\ UNCHANGED queue
        /\ GoTo(w, "track") \/ GoTo(w, "run")
        /\ UNCHANGED tracked \/ tracked' = [tracked EXCEPT ![item[w]] = 0]
    BY <1>3 DEF MarkStatus, MarkTracked
  <2>2. QED
    BY <1>1, <2>1, WorkerMoves DEF WorkerGoesOn, Locations
<1>4. CASE RunSucceeds(w) \/ \E retryable \in BOOLEAN : RunFails(w, retryable)
  <2>1. /\ wpc[w] = "run" /\ UNCHANGED <<queue, tracked>>
        /\ GoTo(w, "complete") \/ GoTo(w, "backoff") \/ GoTo(w, "fail")
    BY <1>4 DEF RunSucceeds, RunFails, redisVars
  <2>2. QED
    BY <1>1, <2>1, WorkerMoves DEF WorkerGoesOn, Locations
<1>5. CASE Backoff(w)
  <2>1. wpc[w] = "backoff" /\ UNCHANGED <<queue, tracked, item, owner>>
        /\ wpc'[w] \in {"run", "fail"}
    BY <1>1, <1>5 DEF Backoff, redisVars, GoTo, TypeOfWorkers
  <2>2. QED
    BY <2>1 DEF WorkerGoesOn
<1>6. CASE Complete(w) \/ FailJob(w) \/ ClearProcessing(w)
  <2>1. /\ wpc[w] \in {"complete", "fail", "clear"} /\ UNCHANGED queue
        /\ GoTo(w, "clear") \/ Finish(w)
        /\ UNCHANGED tracked \/ tracked' = [tracked EXCEPT ![item[w]] = -1]
    BY <1>6 DEF Complete, FailJob, ClearProcessing
  <2>2. QED
    BY <1>1, <2>1, WorkerMoves DEF WorkerGoesOn, Locations, Owning
<1>7. QED
  BY <1>2, <1>3, <1>4, <1>5, <1>6 DEF WorkerStep

\* A hash is never deleted.
LEMMA KnownStep ==
    ASSUME TypeOK, Placed, Next
    PROVE  \A j \in Jobs : Known(j) => job'[j].status # "none"
<1> SUFFICES ASSUME NEW j \in Jobs, Known(j) PROVE job'[j].status # "none"
  OBVIOUS
<1> USE DEF Known
<1>1. ASSUME NEW w \in Workers, WorkerStep(w) PROVE job'[j].status # "none"
  BY <1>1, WorkerWritesStep, WorkerWritesResult
<1>2. ASSUME NEW i \in Jobs, ProducerStep(i) PROVE job'[j].status # "none"
  <2>1. UNCHANGED job \/ Save(i, "pending", "client")
    BY <1>2 DEF ProducerStep, EnqueueSave, EnqueuePush
  <2>2. QED
    BY <2>1, TypeParts, SaveResult DEF Statuses, Owners
<1>3. CASE ReaperStep
  <2>1. UNCHANGED job \/ (rpc = "fail" /\ Save(rjob, "failed", rowner))
    BY <1>3 DEF ReaperStep, ReaperScan, ReaperRead, ReaperFails, ReaperClears, redisVars
  <2>2. CASE rpc = "fail" /\ Save(rjob, "failed", rowner)
    <3>1. rjob \in Jobs /\ rowner \in Owners
      BY <2>2 DEF Placed, TypeOK
    <3>2. QED
      BY <2>2, <3>1, TypeParts, SaveResult DEF Statuses
  <2>3. QED
    BY <2>1, <2>2
<1>4. CASE Tick \/ Stop \/ Stopped \/ Crash \/ Start
  BY <1>4 DEF Tick, Stop, Stopped, Crash, Start, redisVars
<1>5. QED
  BY <1>1, <1>2, <1>3, <1>4 DEF Next

\* Only jobs with a hash are ever queued, processed or watched.
LEMMA SavedStep ==
    ASSUME TypeOK, Placed, Saved, Next
    PROVE  Saved'
<1> DEFINE Kept(j) == job'[j].status # "none"
<1>0. \A j \in Jobs : Known(j) => Kept(j)
  BY KnownStep
<1>00. /\ Range(queue) \subseteq Jobs /\ stale \subseteq Jobs
       /\ \A w \in Workers : wpc[w] # "idle" => item[w] \in Jobs
       /\ rpc \in {"fail", "clear"} => rjob \in Jobs
  BY DEF TypeOK, Placed, Range
<1>1. ASSUME /\ \A j \in Jobs : /\ enq'[j] \in {"saved", "accepted"} => Kept(j)
                                /\ tracked'[j] # -1 => Kept(j)
             /\ \A j \in Range(queue') : Kept(j)
             /\ \A w \in Workers : wpc'[w] # "idle" => Kept(item'[w])
             /\ \A j \in stale' : Kept(j)
             /\ rpc' \in {"fail", "clear"} => Kept(rjob')
      PROVE  Saved'
  BY <1>1 DEF Saved, Known
<1> HIDE DEF Kept
<1>2. ASSUME NEW w \in Workers, WorkerStep(w) PROVE Saved'
  <2>1. WorkerFrame(w)
    BY <1>2, WorkerFrameStep
  <2>2. CASE Pop(w)
    <3>1. /\ queue # <<>> /\ queue' = SubSeq(queue, 1, Len(queue) - 1) /\ UNCHANGED tracked
          /\ wpc[w] = "idle"
          /\ wpc'[w] = "idle" \/ item'[w] = queue[Len(queue)]
      BY <2>2 DEF Pop, TypeOK
    <3>2. queue[Len(queue)] \in Range(queue) /\ Range(queue') \subseteq Range(queue)
      BY <3>1, PopRange DEF TypeOK
    <3>3. \A v \in Workers : wpc'[v] # "idle" => Kept(item'[v])
      BY <1>0, <1>00, <2>1, <3>1, <3>2 DEF WorkerFrame, Saved
    <3>4. QED
      BY <1>0, <1>00, <1>1, <2>1, <3>1, <3>2, <3>3 DEF WorkerFrame, Saved
  <2>3. CASE ~Pop(w)
    <3>1. WorkerGoesOn(w)
      BY <1>2, <2>3, WorkerGoesOnStep
    <3>2. \A v \in Workers : wpc'[v] # "idle" => Kept(item'[v])
      BY <1>0, <1>00, <2>1, <3>1 DEF WorkerFrame, WorkerGoesOn, Saved
    <3>3. \A j \in Jobs : tracked'[j] # -1 => Kept(j)
      BY <1>0, <1>00, <3>1 DEF WorkerGoesOn, Saved, TypeOK
    <3>4. QED
      BY <1>0, <1>00, <1>1, <2>1, <3>1, <3>2, <3>3 DEF WorkerFrame, WorkerGoesOn, Saved
  <2>4. QED
    BY <2>2, <2>3
<1>3. ASSUME NEW i \in Jobs, ProducerStep(i) PROVE Saved'
  <2>1. OthersFrame /\ UNCHANGED <<rpc, stale, rjob, rowner, tracked>>
    BY <1>3, ProducerTypeStep
  <2>2. CASE EnqueueSave(i)
    <3>1. UNCHANGED queue /\ \A j \in Jobs : enq'[j] \in {"saved", "accepted"} => Kept(j)
      <4> SUFFICES ASSUME NEW j \in Jobs, enq'[j] \in {"saved", "accepted"} PROVE Kept(j)
        BY <2>2 DEF EnqueueSave
      <4>1. CASE j = i
        <5>1. Save(i, "pending", "client")
          BY <2>2, <4>1 DEF EnqueueSave, TypeOK
        <5>2. QED
          BY <4>1, <5>1, TypeParts, SaveResult DEF Statuses, Owners, Kept
      <4>2. CASE j # i
        BY <1>0, <2>2, <4>2 DEF EnqueueSave, TypeOK, Saved
      <4>3. QED
        BY <4>1, <4>2
    <3>2. QED
      BY <1>0, <1>00, <1>1, <2>1, <3>1 DEF OthersFrame, Saved
  <2>3. CASE EnqueuePush(i)
    <3>1. Kept(i) /\ \A j \in Jobs : enq'[j] \in {"saved", "accepted"} => Kept(j)
      BY <1>0, <2>3 DEF EnqueuePush, TypeOK, Saved
    <3>2. Range(queue') \subseteq Range(queue) \cup {i}
      <4>1. queue' = queue \/ queue' = <<i>> \o queue \/ queue' = <<i, i>> \o queue
        BY <2>3 DEF EnqueuePush
      <4>2. queue \in Seq(Jobs)
        BY DEF TypeOK
      <4>3. QED
        BY <4>1, <4>2, PushRange
    <3>3. \A j \in Range(queue') : Kept(j)
      BY <1>0, <1>00, <3>1, <3>2 DEF Saved
    <3>4. QED
      BY <1>0, <1>00, <1>1, <2>1, <3>1, <3>3 DEF OthersFrame, Saved
  <2>4. QED
    BY <1>3, <2>2, <2>3 DEF ProducerStep
<1>4. CASE ReaperStep
  <2>1. OthersFrame /\ UNCHANGED <<enq, queue>>
    BY <1>4, ReaperTypeStep
  <2>2. \A j \in Jobs : tracked'[j] # -1 => Kept(j)
    <3>1. UNCHANGED tracked \/ (rpc = "clear" /\ tracked' = [tracked EXCEPT ![rjob] = -1])
      BY <1>4 DEF ReaperStep, ReaperScan, ReaperRead, ReaperFails, ReaperClears, redisVars
    <3>2. QED
      BY <1>0, <1>00, <3>1 DEF Saved, TypeOK
  <2>3. /\ \A j \in stale' : Kept(j)
        /\ rpc' \in {"fail", "clear"} => Kept(rjob')
    <3>1. CASE ReaperScan
      <4>1. StaleAfter # -1
        BY BatchConfig
      <4>2. rpc' = "next" /\ \A j \in stale' : j \in Jobs /\ tracked[j] # -1
        BY <3>1, <4>1 DEF ReaperScan
      <4>3. QED
        BY <1>0, <4>2 DEF Saved
    <3>2. ASSUME NEW j \in Jobs, ReaperRead(j)
          PROVE  (\A k \in stale' : Kept(k)) /\ Kept(rjob')
      BY <1>0, <1>00, <3>2 DEF ReaperRead, Saved
    <3>3. CASE ReaperFails \/ ReaperClears
      BY <1>0, <1>00, <3>3 DEF ReaperFails, ReaperClears, Saved
    <3>4. QED
      BY <1>4, <3>1, <3>2, <3>3 DEF ReaperStep
  <2>4. QED
    BY <1>0, <1>00, <1>1, <2>1, <2>2, <2>3 DEF OthersFrame, Saved
<1>5. CASE Tick \/ Stop \/ Stopped \/ Crash \/ Start
  <2>1. /\ UNCHANGED <<job, queue>>
        /\ \A j \in Jobs : /\ enq'[j] \in {"saved", "accepted"} => enq[j] \in {"saved", "accepted"}
                           /\ tracked'[j] # -1 => tracked[j] # -1
    <3>1. CASE Tick
      BY <3>1 DEF Tick, TypeOK
    <3>2. CASE Stop \/ Start
      BY <3>2 DEF Stop, Start, redisVars
    <3>3. CASE Stopped \/ Crash
      BY <3>3 DEF Stopped, Crash, redisVars
    <3>4. QED
      BY <1>5, <3>1, <3>2, <3>3
  <2>2. \/ UNCHANGED <<wpc, item, stale, rpc, rjob>>
        \/ /\ \A w \in Workers : wpc'[w] = "idle"
           /\ stale' = {} /\ rpc' = "idle"
    BY <1>5 DEF Tick, Stop, Stopped, Crash, Start, workerVars, reaperVars
  <2>3. QED
    BY <1>0, <1>00, <1>1, <2>1, <2>2 DEF Saved
<1>6. QED
  BY <1>2, <1>3, <1>4, <1>5 DEF Next

\* Nobody loses the owner of a job while no command fails.
LEMMA OwnedStep ==
    ASSUME TypeOK, Placed, Saved, Owned, Next
    PROVE  Owned'
<1> DEFINE Hashes == \A j \in Jobs : job'[j].status # "none" => job'[j].owner = "client"
           Hands == up' = "running" =>
                      /\ \A w \in Workers : wpc'[w] \in Owning => owner'[w] = "client"
                      /\ rpc' = "fail" => rowner' = "client"
<1>0. ASSUME redisErrors' = 0 => Hashes /\ Hands PROVE Owned'
  BY <1>0 DEF Owned, Known
<1> SUFFICES ASSUME redisErrors' = 0 PROVE Hashes /\ Hands
  BY <1>0
<1> DEFINE Before == /\ \A j \in Jobs : Known(j) => job[j].owner = "client"
                     /\ up = "running" =>
                          /\ \A w \in Workers : wpc[w] \in Owning => owner[w] = "client"
                          /\ rpc = "fail" => rowner = "client"
<1>1. ASSUME redisErrors = 0 PROVE Before
  BY <1>1 DEF Owned
<1>2. up = "running" => ~RedisFails
  <2>1. redisErrors \in Nat
    BY DEF TypeOK
  <2>2. QED
    BY <2>1 DEF RedisFails, Cancelled
<1> HIDE DEF Hashes, Hands, Before
<1>3. ASSUME NEW w \in Workers, WorkerStep(w) PROVE Hashes /\ Hands
  <2>1. WorkerFrame(w) /\ Before
    BY <1>1, <1>3, WorkerFrameStep DEF WorkerFrame
  <2>2. Hashes
    <3> SUFFICES ASSUME NEW j \in Jobs, job'[j].status # "none" PROVE job'[j].owner = "client"
      BY DEF Hashes
    <3>1. CASE job'[j] = job[j]
      BY <2>1, <3>1 DEF Before, Known
    <3>2. CASE /\ j = item[w] /\ up = "running" /\ wpc[w] \in {"mark", "complete", "fail"}
               /\ job'[j].owner \in {job[j].owner, owner[w]}
      <4>1. Known(j)
        BY <3>2 DEF Saved
      <4>2. job[j].owner = "client" /\ owner[w] = "client"
        BY <2>1, <3>2, <4>1 DEF Before, Owning
      <4>3. QED
        BY <3>2, <4>2
    <3>3. QED
      BY <1>3, <3>1, <3>2, WorkerWritesStep, WorkerWritesResult
  <2>3. ASSUME up = "running", wpc'[w] \in Owning PROVE owner'[w] = "client"
    <3>1. ~Pop(w)
      BY <2>3 DEF Pop, TypeOK, Owning
    <3>2. WorkerGoesOn(w) /\ ~RedisFails
      BY <1>2, <1>3, <2>3, <3>1, WorkerGoesOnStep
    <3>3. CASE wpc[w] # "read" /\ owner'[w] = owner[w]
      BY <2>1, <2>3, <3>2, <3>3 DEF WorkerGoesOn, Before, Owning
    <3>4. CASE wpc[w] = "read" /\ owner'[w] = job[item[w]].owner
      BY <2>1, <3>4 DEF Before, Saved, Placed
    <3>5. QED
      BY <2>3, <3>2, <3>3, <3>4 DEF WorkerGoesOn
  <2>4. QED
    BY <2>1, <2>2, <2>3 DEF WorkerFrame, Before, Hands
<1>4. ASSUME NEW i \in Jobs, ProducerStep(i) PROVE Hashes /\ Hands
  <2>1. OthersFrame /\ UNCHANGED <<rpc, rowner>> /\ Before
    BY <1>1, <1>4, ProducerTypeStep DEF OthersFrame
  <2>2. UNCHANGED job \/ Save(i, "pending", "client")
    BY <1>4 DEF ProducerStep, EnqueueSave, EnqueuePush
  <2>3. Hashes
    <3>1. CASE UNCHANGED job
      BY <2>1, <3>1 DEF Hashes, Before, Known
    <3>2. CASE Save(i, "pending", "client")
      BY <2>1, <3>2, TypeParts, SaveResult DEF Statuses, Owners, Hashes, Before, Known
    <3>3. QED
      BY <2>2, <3>1, <3>2
  <2>4. QED
    BY <2>1, <2>3 DEF OthersFrame, Before, Hands
<1>5. CASE ReaperStep
  <2>1. OthersFrame /\ Before
    BY <1>1, <1>5, ReaperTypeStep DEF OthersFrame
  <2>2. Hashes
    <3>1. CASE UNCHANGED job
      BY <2>1, <3>1 DEF Hashes, Before, Known
    <3>2. CASE RedisOK /\ rpc = "fail" /\ Save(rjob, "failed", rowner)
      <4>1. rjob \in Jobs /\ rowner \in Owners /\ rowner = "client"
        BY <2>1, <3>2 DEF Placed, TypeOK, RedisOK, Before
      <4>2. QED
        BY <2>1, <3>2, <4>1, TypeParts, SaveResult DEF Statuses, Hashes, Before, Known
    <3>3. QED
      BY <1>5, <3>1, <3>2
         DEF ReaperStep, ReaperScan, ReaperRead, ReaperFails, ReaperClears, redisVars
  <2>3. ASSUME up = "running", rpc' = "fail" PROVE rowner' = "client"
    <3>1. PICK j \in Jobs : ReaperRead(j)
      BY <1>5, <2>3 DEF ReaperStep, ReaperScan, ReaperFails, ReaperClears
    <3>2. j \in stale /\ rowner' = job[j].owner
      BY <1>2, <2>3, <3>1 DEF ReaperRead
    <3>3. QED
      BY <2>1, <3>2 DEF Saved, Before
  <2>4. QED
    BY <2>1, <2>2, <2>3 DEF OthersFrame, Before, Hands
<1>6. CASE Tick \/ Stop \/ Stopped \/ Crash \/ Start
  <2>1. UNCHANGED <<job, redisErrors>>
    BY <1>6 DEF Tick, Stop, Stopped, Crash, Start, redisVars, envVars
  <2>2. Before /\ Hashes
    BY <1>1, <2>1 DEF Hashes, Before, Known
  <2>3. CASE Tick
    <3>1. UNCHANGED <<up, wpc, owner, rpc, rowner>>
      BY <2>3 DEF Tick, workerVars, reaperVars, envVars
    <3>2. QED
      BY <2>2, <3>1 DEF Before, Hands
  <2>4. CASE Stop \/ Stopped \/ Crash
    BY <2>2, <2>4 DEF Stop, Stopped, Crash, Hands
  <2>5. CASE Start
    BY <2>2, <2>5 DEF Start, workerVars, reaperVars, Placed, Hands, Owning
  <2>6. QED
    BY <1>6, <2>2, <2>3, <2>4, <2>5
<1>7. QED
  BY <1>3, <1>4, <1>5, <1>6 DEF Next

-----------------------------------------------------------------------------
(* Items and answers.                                                      *)

\* An item stays in one place.
LEMMA OnePlaceStep ==
    ASSUME TypeOK, Placed, OnePlace, Next
    PROVE  OnePlace'
<1> DEFINE After == /\ IsInjective(queue')
                    /\ \A w, v \in Workers : item'[w] = item'[v] /\ item'[w] # NoJob => w = v
                    /\ \A w \in Workers : item'[w] \notin Range(queue')
                    /\ \A j \in Range(queue') : enq'[j] = "accepted"
                    /\ \A w \in Workers : item'[w] # NoJob => enq'[item'[w]] = "accepted"
           Before == /\ IsInjective(queue)
                     /\ \A w, v \in Workers : item[w] = item[v] /\ item[w] # NoJob => w = v
                     /\ \A w \in Workers : item[w] \notin Range(queue)
                     /\ \A j \in Range(queue) : enq[j] = "accepted"
                     /\ \A w \in Workers : item[w] # NoJob => enq[item[w]] = "accepted"
<1>0. ASSUME lostReplies' = 0 => After PROVE OnePlace'
  BY <1>0 DEF OnePlace
<1> SUFFICES ASSUME lostReplies' = 0 PROVE After
  BY <1>0
<1>1. ASSUME lostReplies = 0 PROVE Before
  BY <1>1 DEF OnePlace
<1>2. /\ ~LostReply /\ Range(queue) \subseteq Jobs /\ NoJob \notin Range(queue)
      /\ queue \in Seq(Jobs)
      /\ \A w \in Workers : item[w] # NoJob => item[w] \in Jobs
  <2>1. lostReplies \in Nat /\ queue \in Seq(Jobs)
    BY DEF TypeOK
  <2>2. ~LostReply
    BY <2>1 DEF LostReply
  <2>3. Range(queue) \subseteq Jobs
    BY <2>1 DEF Range
  <2>4. QED
    BY <2>1, <2>2, <2>3, BatchConfig DEF TypeOK
<1> HIDE DEF After, Before
<1>3. ASSUME NEW w \in Workers, WorkerStep(w) PROVE After
  <2>1. WorkerFrame(w) /\ Before
    BY <1>1, <1>3, WorkerFrameStep DEF WorkerFrame
  <2>2. CASE Pop(w)
    <3>1. /\ queue # <<>> /\ queue' = SubSeq(queue, 1, Len(queue) - 1)
          /\ item'[w] = queue[Len(queue)]
      BY <1>2, <2>2 DEF Pop, TypeOK
    <3>2. /\ queue[Len(queue)] \in Range(queue) /\ Range(queue') \subseteq Range(queue)
          /\ IsInjective(queue') /\ queue[Len(queue)] \notin Range(queue')
      BY <1>2, <2>1, <3>1, PopRange DEF Before
    <3>3. \A v \in Workers \ {w} : item'[v] = item[v] /\ item'[v] # item'[w]
      BY <2>1, <3>1, <3>2 DEF WorkerFrame, Before
    <3>4. \A v, u \in Workers : item'[v] = item'[u] /\ item'[v] # NoJob => v = u
      BY <2>1, <3>3 DEF Before
    <3>5. QED
      BY <2>1, <3>1, <3>2, <3>3, <3>4 DEF WorkerFrame, Before, After
  <2>3. CASE ~Pop(w)
    <3>1. UNCHANGED queue /\ item'[w] \in {item[w], NoJob}
      BY <1>3, <2>3, WorkerGoesOnStep DEF WorkerGoesOn
    <3>2. QED
      BY <1>2, <2>1, <3>1 DEF WorkerFrame, Before, After
  <2>4. QED
    BY <2>2, <2>3
<1>4. ASSUME NEW i \in Jobs, ProducerStep(i) PROVE After
  <2>1. UNCHANGED item /\ Before
    BY <1>1, <1>4, ProducerTypeStep DEF OthersFrame
  <2>2. enq[i] # "accepted" /\ \A j \in Jobs \ {i} : enq'[j] = enq[j]
    BY <1>4 DEF ProducerStep, EnqueueSave, EnqueuePush, TypeOK
  <2>3. i \notin Range(queue) /\ \A w \in Workers : item[w] # i
    BY <2>1, <2>2, BatchConfig DEF Before
  <2>4. CASE UNCHANGED queue
    BY <1>2, <2>1, <2>2, <2>3, <2>4 DEF Before, After
  <2>5. CASE queue' = <<i>> \o queue /\ enq'[i] = "accepted"
    <3>1. Range(queue') = Range(queue) \cup {i} /\ IsInjective(queue')
      BY <1>2, <2>1, <2>3, <2>5, PushRange DEF Before
    <3>2. QED
      BY <1>2, <2>1, <2>2, <2>3, <2>5, <3>1 DEF Before, After
  <2>6. QED
    BY <1>2, <1>4, <2>4, <2>5 DEF ProducerStep, EnqueueSave, EnqueuePush, TypeOK
<1>5. CASE ReaperStep
  BY <1>1, <1>5, ReaperTypeStep DEF OthersFrame, Before, After
<1>6. CASE Tick \/ Stop \/ Stopped \/ Crash \/ Start
  <2>1. UNCHANGED <<queue, lostReplies>> /\ Before
    BY <1>1, <1>6 DEF Tick, Stop, Stopped, Crash, Start, redisVars, envVars
  <2>2. UNCHANGED item \/ \A w \in Workers : item'[w] = NoJob
    BY <1>6 DEF Tick, Stop, Stopped, Crash, Start, workerVars
  <2>3. \A j \in Jobs : enq[j] = "accepted" => enq'[j] = "accepted"
    BY <1>6 DEF Tick, Stop, Stopped, Crash, Start
  <2>4. QED
    BY <1>2, <2>1, <2>2, <2>3 DEF Before, After
<1>7. QED
  BY <1>3, <1>4, <1>5, <1>6 DEF Next

\* No job that is queued or under way, or not queued yet, gets an answer.
LEMMA UnansweredStep ==
    ASSUME TypeOK, Placed, OnePlace, Unanswered, Next
    PROVE  Unanswered'
<1> DEFINE Open(j) == job'[j].status # "completed"
           After == /\ \A j \in Jobs : enq'[j] \in {"new", "saved"} \/ j \in Range(queue') => Open(j)
                    /\ \A w \in Workers : wpc'[w] \in Owning \cup {"read"} => Open(item'[w])
           Before == /\ \A j \in Jobs : enq[j] \in {"new", "saved"} \/ j \in Range(queue) =>
                                           job[j].status # "completed"
                     /\ \A w \in Workers : wpc[w] \in Owning \cup {"read"} =>
                                              job[item[w]].status # "completed"
<1>0. ASSUME lostReplies' = 0 => After PROVE Unanswered'
  BY <1>0 DEF Unanswered
<1> SUFFICES ASSUME lostReplies' = 0 PROVE After
  BY <1>0
<1>1. ASSUME lostReplies = 0 PROVE Before
  BY <1>1 DEF Unanswered
<1>2. /\ queue \in Seq(Jobs) /\ Range(queue) \subseteq Jobs
      /\ \A w \in Workers : wpc[w] # "idle" => item[w] \in Jobs /\ item[w] # NoJob
  <2>1. queue \in Seq(Jobs)
    BY DEF TypeOK
  <2>2. Range(queue) \subseteq Jobs
    BY <2>1 DEF Range
  <2>3. QED
    BY <2>1, <2>2, BatchConfig DEF Placed
<1> HIDE DEF After, Before
<1>3. ASSUME NEW w \in Workers, WorkerStep(w) PROVE After
  <2>1. WorkerFrame(w) /\ Before /\ lostReplies = 0
    BY <1>1, <1>3, WorkerFrameStep DEF WorkerFrame
  <2>2. CASE Pop(w)
    <3>1. /\ queue # <<>> /\ queue' = SubSeq(queue, 1, Len(queue) - 1) /\ UNCHANGED job
          /\ wpc'[w] = "idle" \/ item'[w] = queue[Len(queue)]
      BY <2>2 DEF Pop, TypeOK
    <3>2. queue[Len(queue)] \in Range(queue) /\ Range(queue') \subseteq Range(queue)
      BY <1>2, <3>1, PopRange
    <3>3. \A v \in Workers : wpc'[v] \in Owning \cup {"read"} => Open(item'[v])
      BY <1>2, <2>1, <3>1, <3>2 DEF WorkerFrame, Before, Owning
    <3>4. QED
      BY <1>2, <2>1, <3>1, <3>2, <3>3 DEF WorkerFrame, Before, After
  <2>3. CASE ~Pop(w)
    <3>1. WorkerGoesOn(w)
      BY <1>3, <2>3, WorkerGoesOnStep
    <3>2. /\ item[w] \in Jobs /\ item[w] # NoJob /\ enq[item[w]] = "accepted"
          /\ item[w] \notin Range(queue)
          /\ \A v \in Workers \ {w} : item[v] # item[w]
      BY <1>2, <2>1, <3>1 DEF WorkerGoesOn, OnePlace
    <3>3. \A j \in Jobs \ {item[w]} : job'[j] = job[j]
      BY <1>3, WorkerWritesStep, WorkerWritesResult
    <3>4. ASSUME wpc'[w] \in Owning \cup {"read"} PROVE Open(item'[w])
      <4>1. /\ item'[w] = item[w] /\ wpc[w] \in {"read", "mark", "track", "run", "backoff"}
        BY <3>1, <3>4 DEF WorkerGoesOn, Owning
      <4>2. job[item[w]].status # "completed"
        BY <2>1, <4>1 DEF Before, Owning
      <4>3. QED
        BY <1>3, <3>2, <4>1, <4>2, WorkerWritesStep, WorkerWritesResult
    <3>5. ASSUME NEW v \in Workers, v # w, wpc'[v] \in Owning \cup {"read"} PROVE Open(item'[v])
      <4>1. item'[v] = item[v] /\ wpc[v] \in Owning \cup {"read"}
        BY <2>1, <3>5 DEF WorkerFrame
      <4>2. item[v] \in Jobs \ {item[w]}
        BY <1>2, <3>2, <3>5, <4>1 DEF Owning
      <4>3. QED
        BY <2>1, <3>3, <4>1, <4>2 DEF Before
    <3>6. ASSUME NEW j \in Jobs, enq'[j] \in {"new", "saved"} \/ j \in Range(queue') PROVE Open(j)
      <4>1. j # item[w] /\ (enq[j] \in {"new", "saved"} \/ j \in Range(queue))
        BY <2>1, <3>1, <3>2, <3>6 DEF WorkerFrame, WorkerGoesOn
      <4>2. QED
        BY <2>1, <3>3, <4>1 DEF Before
    <3>7. QED
      BY <3>4, <3>5, <3>6 DEF After
  <2>4. QED
    BY <2>2, <2>3
<1>4. ASSUME NEW i \in Jobs, ProducerStep(i) PROVE After
  <2>1. UNCHANGED <<wpc, item>> /\ Before
    BY <1>1, <1>4, ProducerTypeStep DEF OthersFrame
  <2>2. /\ job[i].status # "completed" /\ \A j \in Jobs \ {i} : enq'[j] = enq[j]
    BY <1>4, <2>1 DEF ProducerStep, EnqueueSave, EnqueuePush, TypeOK, Before
  <2>3. \A j \in Jobs : job[j].status # "completed" => Open(j)
    <3>1. UNCHANGED job \/ Save(i, "pending", "client")
      BY <1>4 DEF ProducerStep, EnqueueSave, EnqueuePush
    <3>2. QED
      BY <3>1, TypeParts, SaveResult DEF Statuses, Owners
  <2>4. Range(queue') \subseteq Range(queue) \cup {i}
    <3>1. queue' = queue \/ queue' = <<i>> \o queue \/ queue' = <<i, i>> \o queue
      BY <1>4 DEF ProducerStep, EnqueueSave, EnqueuePush
    <3>2. QED
      BY <1>2, <3>1, PushRange
  <2>5. \A w \in Workers : wpc'[w] \in Owning \cup {"read"} => Open(item'[w])
    BY <1>2, <2>1, <2>3 DEF Before, Owning
  <2>6. QED
    BY <1>2, <2>1, <2>2, <2>3, <2>4, <2>5 DEF Before, After
<1>5. CASE ReaperStep
  <2>1. UNCHANGED <<wpc, item, enq, queue>> /\ Before
    BY <1>1, <1>5, ReaperTypeStep DEF OthersFrame
  <2>2. \A j \in Jobs : job[j].status # "completed" => Open(j)
    <3>1. UNCHANGED job \/ (rpc = "fail" /\ Save(rjob, "failed", rowner))
      BY <1>5 DEF ReaperStep, ReaperScan, ReaperRead, ReaperFails, ReaperClears, redisVars
    <3>2. rpc = "fail" => rjob \in Jobs /\ rowner \in Owners
      BY DEF Placed, TypeOK
    <3>3. QED
      BY <3>1, <3>2, TypeParts, SaveResult DEF Statuses
  <2>3. \A w \in Workers : wpc'[w] \in Owning \cup {"read"} => Open(item'[w])
    BY <1>2, <2>1, <2>2 DEF Before, Owning
  <2>4. QED
    BY <2>1, <2>2, <2>3 DEF Before, After
<1>6. CASE Tick \/ Stop \/ Stopped \/ Crash \/ Start
  <2>1. UNCHANGED <<job, queue, lostReplies>> /\ Before
    BY <1>1, <1>6 DEF Tick, Stop, Stopped, Crash, Start, redisVars, envVars
  <2>2. UNCHANGED <<wpc, item>> \/ \A w \in Workers : wpc'[w] = "idle"
    BY <1>6 DEF Tick, Stop, Stopped, Crash, Start, workerVars
  <2>3. \A j \in Jobs : enq'[j] \in {"new", "saved"} => enq[j] \in {"new", "saved"}
    BY <1>6 DEF Tick, Stop, Stopped, Crash, Start
  <2>4. QED
    BY <2>1, <2>2, <2>3 DEF Before, After, Owning
<1>7. QED
  BY <1>3, <1>4, <1>5, <1>6 DEF Next

-----------------------------------------------------------------------------
(* The theorems.                                                           *)

LEMMA BatchInvInit == Init => BatchInv
<1> SUFFICES ASSUME Init PROVE BatchInv
  OBVIOUS
<1>1. Range(queue) = {} /\ IsInjective(queue)
  <2>1. queue = <<>> /\ queue \in Seq(Jobs) /\ Len(queue) = 0
    BY EmptySeq DEF Init
  <2>2. DOMAIN queue = {}
    BY <2>1
  <2>3. QED
    BY <2>2 DEF Range, IsInjective
<1>2. 0 \in 0..MaxRetries /\ 0 \in 0..MaxOutages /\ 0 \in 0..MaxRedisErrors
      /\ 0 \in 0..MaxLostReplies /\ -1 \in -1..StaleAfter
  BY BatchConfig
<1>3. TypeOK
  <2>1. TypeOfRedis
    <3>1. job \in [Jobs -> [status : Statuses, owner : Owners]]
      BY DEF Init, Statuses, Owners
    <3>2. queue \in Seq(Jobs)
      BY EmptySeq DEF Init
    <3>3. QED
      BY <1>2, <3>1, <3>2 DEF Init, TypeOfRedis
  <2>2. TypeOfWorkers
    BY <1>2 DEF Init, TypeOfWorkers, Owners
  <2>3. TypeOfReaper /\ TypeOfEnv
    BY <1>2 DEF Init, TypeOfReaper, TypeOfEnv, Owners
  <2>4. QED
    BY <2>1, <2>2, <2>3, TypeParts
<1>4. Placed /\ Saved
  BY <1>1 DEF Init, Placed, Saved, Known
<1>5. Owned
  BY DEF Init, Owned, Known, Owning
<1>6. OnePlace
  BY <1>1 DEF Init, OnePlace
<1>7. Unanswered
  BY <1>1 DEF Init, Unanswered, Owning
<1>8. QED
  BY <1>3, <1>4, <1>5, <1>6, <1>7 DEF BatchInv

LEMMA BatchInvStep == BatchInv /\ [Next]_vars => BatchInv'
<1> SUFFICES ASSUME BatchInv, [Next]_vars PROVE BatchInv'
  OBVIOUS
<1> USE DEF BatchInv
<1>1. CASE Next
  <2>1. TypeOK' /\ Placed'
    BY <1>1, WorkerTypeStep, ProducerTypeStep, ReaperTypeStep, ProcessTypeStep DEF Next
  <2>2. QED
    BY <1>1, <2>1, SavedStep, OwnedStep, OnePlaceStep, UnansweredStep
<1>2. CASE UNCHANGED vars
  BY <1>2 DEF vars, redisVars, workerVars, reaperVars, envVars, TypeOK, Placed, Saved, Owned,
     OnePlace, Unanswered, Known
<1>3. QED
  BY <1>1, <1>2

LEMMA BatchInvHolds == Spec => []BatchInv
BY BatchInvInit, BatchInvStep, PTL DEF Spec

\* Every variable of the queue, its workers and its reaper stays in its domain.
THEOREM BatchTypeCorrect == Spec => []TypeOK
<1>1. BatchInv => TypeOK
  BY DEF BatchInv
<1>2. QED
  BY <1>1, BatchInvHolds, PTL

\* As long as no reply was lost, the item of a job is in the queue or with one worker:
\* no two workers process the same job at the same time.
THEOREM BatchItemInOnePlace == Spec => []ItemInOnePlace
<1>1. BatchInv => ItemInOnePlace
  <2> SUFFICES ASSUME BatchInv, lostReplies = 0, NEW j \in Jobs
               PROVE  Cardinality({k \in DOMAIN queue : queue[k] = j})
                      + Cardinality({w \in Workers : item[w] = j})
                        <= IF enq[j] = "accepted" THEN 1 ELSE 0
    BY DEF ItemInOnePlace
  <2> DEFINE Q == {k \in DOMAIN queue : queue[k] = j}
             W == {w \in Workers : item[w] = j}
  <2>1. OnePlace /\ queue \in Seq(Jobs) /\ j # NoJob
    BY BatchConfig DEF BatchInv, TypeOK
  <2>2. Q = {} \/ \E k : Q = {k}
    BY <2>1 DEF OnePlace, IsInjective
  <2>3. W = {} \/ \E w : W = {w}
    BY <2>1 DEF OnePlace
  <2>4. Q = {} \/ W = {}
    BY <2>1 DEF OnePlace, Range
  <2>5. enq[j] # "accepted" => Q = {} /\ W = {}
    BY <2>1 DEF OnePlace, Range
  <2> HIDE DEF Q, W
  <2>6. Cardinality(Q) \in {0, 1} /\ (Q = {} => Cardinality(Q) = 0)
    BY <2>2, FS_EmptySet, FS_Singleton
  <2>7. Cardinality(W) \in {0, 1} /\ (W = {} => Cardinality(W) = 0)
    BY <2>3, FS_EmptySet, FS_Singleton
  <2>8. Cardinality(Q) + Cardinality(W) <= IF enq[j] = "accepted" THEN 1 ELSE 0
    BY <2>4, <2>5, <2>6, <2>7
  <2>9. QED
    BY <2>8 DEF Q, W
<1>2. QED
  BY <1>1, BatchInvHolds, PTL

\* As long as no command failed, whoever settles an accepted job keeps its owner, so that
\* its client still finds it.
THEOREM BatchOwnerKept == Spec => []OwnerKept
<1>1. BatchInv => OwnerKept
  BY DEF BatchInv, OwnerKept, Owned, Saved
<1>2. QED
  BY <1>1, BatchInvHolds, PTL

\* As long as no reply was lost, only the reaper takes a completed answer back.
THEOREM BatchWorkersKeepAnswers == Spec => WorkersKeepAnswers
<1> DEFINE Kept == lostReplies = 0 =>
                     \A j \in Jobs : job[j].status = "completed" /\ job'[j].status # "completed"
                                       => rpc = "fail" /\ rjob = j
<1>1. BatchInv /\ [Next]_vars => [Kept]_vars
  <2> SUFFICES ASSUME BatchInv, Next, lostReplies = 0, NEW j \in Jobs,
                      job[j].status = "completed", job'[j].status # "completed"
               PROVE  rpc = "fail" /\ rjob = j
    OBVIOUS
  <2> USE DEF BatchInv
  <2>1. ASSUME NEW w \in Workers, WorkerStep(w) PROVE FALSE
    <3>1. j = item[w] /\ wpc[w] \in {"mark", "complete", "fail"}
      BY <2>1, WorkerWritesStep, WorkerWritesResult
    <3>2. QED
      BY <3>1 DEF Unanswered, Owning
  <2>2. ASSUME NEW i \in Jobs, ProducerStep(i) PROVE FALSE
    <3>1. UNCHANGED job \/ (enq[i] = "new" /\ Save(i, "pending", "client"))
      BY <2>2 DEF ProducerStep, EnqueueSave, EnqueuePush
    <3>2. enq[i] = "new" /\ j = i
      BY <3>1, TypeParts, SaveResult DEF Statuses, Owners
    <3>3. QED
      BY <3>2 DEF Unanswered
  <2>3. CASE ReaperStep
    <3>1. UNCHANGED job \/ (rpc = "fail" /\ Save(rjob, "failed", rowner))
      BY <2>3 DEF ReaperStep, ReaperScan, ReaperRead, ReaperFails, ReaperClears, redisVars
    <3>2. rpc = "fail" => rjob \in Jobs /\ rowner \in Owners
      BY DEF Placed, TypeOK
    <3>3. QED
      BY <3>1, <3>2, TypeParts, SaveResult DEF Statuses
  <2>4. CASE Tick \/ Stop \/ Stopped \/ Crash \/ Start
    BY <2>4 DEF Tick, Stop, Stopped, Crash, Start, redisVars
  <2>5. QED
    BY <2>1, <2>2, <2>3, <2>4 DEF Next
<1>2. QED
  BY <1>1, BatchInvHolds, PTL DEF Spec, WorkersKeepAnswers
=============================================================================
