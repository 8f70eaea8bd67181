----------------------------- MODULE BatchQueue -----------------------------
(***************************************************************************)
(* Batch processing (internal/queue): the producer behind POST /batch, the *)
(* consumer's workers and its reaper, and what they keep in Redis: a hash  *)
(* per job, the list of queued items and the sorted set of jobs being      *)
(* processed.  Each Redis command (or pipeline) is one step, because other *)
(* workers, the reaper, a crash or Consumer.Stop may come between two.     *)
(*                                                                         *)
(* Redis outlives the process.  A command fails without effect when the    *)
(* consumer's context is cancelled or when Redis is briefly unreachable.   *)
(* A reply may also be lost after the command took effect; the client      *)
(* library (go-redis, three retries by default) then sends the command     *)
(* again, which matters for the two that are not idempotent, LPUSH and     *)
(* BRPOP, or reports an error all the same.                                *)
(***************************************************************************)
EXTENDS Integers, Sequences, FiniteSets

CONSTANTS
    Jobs,           \* job identifiers
    Workers,        \* worker goroutines of one consumer
    MaxRetries,     \* retries of processItem after the first attempt
    StaleAfter,     \* ticks after which the reaper takes a job for orphaned
    MaxOutages,     \* bound on crashes and stops of the process
    MaxRedisErrors, \* bound on commands that fail without effect
    MaxLostReplies, \* bound on commands that take effect and lose their reply
    NoJob           \* not a job

ASSUME BatchConfig ==
    /\ IsFiniteSet(Jobs) /\ IsFiniteSet(Workers)
    /\ MaxRetries \in Nat /\ StaleAfter \in Nat
    /\ MaxOutages \in Nat /\ MaxRedisErrors \in Nat /\ MaxLostReplies \in Nat
    /\ NoJob \notin Jobs

VARIABLES
    \* in Redis
    job,        \* job -> its hash: status and owner, "none" before Enqueue
    queue,      \* the list; LPUSH adds at the front, BRPOP takes the back
    tracked,    \* the sorted set: job -> ticks since it was added, or -1
    \* in the process
    up,         \* "running", "stopping" (context cancelled), "stopped", "crashed"
    enq,        \* job -> progress of its Enqueue
    wpc, item, owner, attempt,  \* worker -> location, job, its owner, retry count
    rpc, stale, rjob, rowner,   \* the reaper's location and locals
    \* bounds on the environment
    outages, redisErrors, lostReplies

redisVars == <<job, queue, tracked>>
workerVars == <<wpc, item, owner, attempt>>
reaperVars == <<rpc, stale, rjob, rowner>>
envVars == <<up, outages, redisErrors, lostReplies>>
vars == <<redisVars, enq, workerVars, reaperVars, envVars>>

Statuses == {"none", "pending", "processing", "completed", "failed"}
Terminal == {"completed", "failed"}
\* The client that submitted the job, or nobody.
Owners == {"client", ""}

\* Every variable stays in its domain.
TypeOK ==
    /\ job \in [Jobs -> [status : Statuses, owner : Owners]]
    /\ queue \in Seq(Jobs)
    /\ tracked \in [Jobs -> -1..StaleAfter]
    /\ up \in {"running", "stopping", "stopped", "crashed"}
    /\ enq \in [Jobs -> {"new", "saved", "accepted", "rejected"}]
    /\ wpc \in [Workers -> {"idle", "read", "mark", "track", "run", "backoff",
                            "complete", "fail", "clear"}]
    /\ item \in [Workers -> Jobs \cup {NoJob}]
    /\ owner \in [Workers -> Owners]
    /\ attempt \in [Workers -> 0..MaxRetries]
    /\ rpc \in {"idle", "next", "fail", "clear"}
    /\ stale \in SUBSET Jobs
    /\ rjob \in Jobs \cup {NoJob}
    /\ rowner \in Owners
    /\ outages \in 0..MaxOutages
    /\ redisErrors \in 0..MaxRedisErrors
    /\ lostReplies \in 0..MaxLostReplies

Init ==
    /\ job = [j \in Jobs |-> [status |-> "none", owner |-> ""]]
    /\ queue = <<>>
    /\ tracked = [j \in Jobs |-> -1]
    /\ up = "running"
    /\ enq = [j \in Jobs |-> "new"]
    /\ wpc = [w \in Workers |-> "idle"]
    /\ item = [w \in Workers |-> NoJob]
    /\ owner = [w \in Workers |-> ""]
    /\ attempt = [w \in Workers |-> 0]
    /\ rpc = "idle" /\ stale = {} /\ rjob = NoJob /\ rowner = ""
    /\ outages = 0 /\ redisErrors = 0 /\ lostReplies = 0

-----------------------------------------------------------------------------
(* Redis.                                                                  *)

Cancelled == up = "stopping"

\* A command of the consumer succeeds.
RedisOK == up = "running" /\ UNCHANGED envVars

\* A command of the consumer fails without effect.
RedisFails ==
    \/ Cancelled /\ UNCHANGED envVars
    \/ /\ up = "running"
       /\ redisErrors < MaxRedisErrors
       /\ redisErrors' = redisErrors + 1
       /\ UNCHANGED <<up, outages, lostReplies>>

\* A command takes effect and its reply is lost.
LostReply ==
    /\ up = "running"
    /\ lostReplies < MaxLostReplies
    /\ lostReplies' = lostReplies + 1
    /\ UNCHANGED <<up, outages, redisErrors>>

\* JobStore.Save
Save(j, st, own) == job' = [job EXCEPT ![j] = [status |-> st, owner |-> own]]

-----------------------------------------------------------------------------
(* Producer.Enqueue: the hash first, then the queue item.  It runs under   *)
(* the context of the HTTP request, which ends when the client disconnects *)
(* and may outlast the consumer's.                                         *)

Serving == up \in {"running", "stopping"}

EnqueueSave(j) ==
    /\ enq[j] = "new"
    /\ Serving
    /\ \/ Save(j, "pending", "client") /\ enq' = [enq EXCEPT ![j] = "saved"]
       \/ UNCHANGED job /\ enq' = [enq EXCEPT ![j] = "rejected"]
    /\ UNCHANGED <<queue, tracked, workerVars, reaperVars, envVars>>

\* With a lost reply the retry pushes the item a second time, or the client is
\* told of a failure although the item is queued.
EnqueuePush(j) ==
    /\ enq[j] = "saved"
    /\ Serving
    /\ \/ /\ queue' = <<j>> \o queue
          /\ enq' = [enq EXCEPT ![j] = "accepted"]
          /\ UNCHANGED envVars
       \/ /\ enq' = [enq EXCEPT ![j] = "rejected"]
          /\ UNCHANGED <<queue, envVars>>
       \/ /\ LostReply
          /\ \/ queue' = <<j, j>> \o queue /\ enq' = [enq EXCEPT ![j] = "accepted"]
             \/ queue' = <<j>> \o queue /\ enq' = [enq EXCEPT ![j] = "rejected"]
    /\ UNCHANGED <<job, tracked, workerVars, reaperVars>>

-----------------------------------------------------------------------------
(* A worker: BRPOP, then processItem.                                      *)

\* The worker goes on at location l with the same item.
GoTo(w, l) ==
    /\ wpc' = [wpc EXCEPT ![w] = l]
    /\ UNCHANGED <<item, owner, attempt>>

\* processItem returns; the worker goes back to BRPOP.
Finish(w) ==
    /\ wpc' = [wpc EXCEPT ![w] = "idle"]
    /\ item' = [item EXCEPT ![w] = NoJob]
    /\ owner' = [owner EXCEPT ![w] = ""]
    /\ attempt' = [attempt EXCEPT ![w] = 0]

\* Faulty: the item is read and left in the list.
PopKeeps(w) ==
    /\ wpc[w] = "idle"
    /\ queue # <<>>
    /\ RedisOK
    /\ item' = [item EXCEPT ![w] = queue[Len(queue)]]
    /\ wpc' = [wpc EXCEPT ![w] = "read"]
    /\ UNCHANGED <<redisVars, enq, owner, attempt, reaperVars>>

\* BRPOP.  An item whose reply is lost is gone.
Pop(w) ==
    /\ wpc[w] = "idle"
    /\ queue # <<>>
    /\ queue' = SubSeq(queue, 1, Len(queue) - 1)
    /\ \/ /\ RedisOK
          /\ item' = [item EXCEPT ![w] = queue[Len(queue)]]
          /\ wpc' = [wpc EXCEPT ![w] = "read"]
       \/ LostReply /\ UNCHANGED <<item, wpc>>
    /\ UNCHANGED <<job, tracked, enq, owner, attempt, reaperVars>>

\* jobStore.Get: a job that is already settled is skipped; when the read fails
\* the worker goes on without an owner.
ReadJob(w) ==
    LET j == item[w] IN
    /\ wpc[w] = "read"
    /\ \/ RedisOK /\ job[j].status \in Terminal /\ Finish(w)
       \/ /\ RedisOK /\ job[j].status \notin Terminal
          /\ owner' = [owner EXCEPT ![w] = job[j].owner]
          /\ wpc' = [wpc EXCEPT ![w] = "mark"]
          /\ UNCHANGED <<item, attempt>>
       \/ RedisFails /\ GoTo(w, "mark")
    /\ UNCHANGED <<redisVars, enq, reaperVars>>

\* MarkProcessing: the status first; when that fails the set is left alone.
MarkStatus(w) ==
    LET j == item[w] IN
    /\ wpc[w] = "mark"
    /\ \/ RedisOK /\ job' = [job EXCEPT ![j].status = "processing"] /\ GoTo(w, "track")
       \/ RedisFails /\ UNCHANGED job /\ GoTo(w, "run")
       \/ LostReply /\ job' = [job EXCEPT ![j].status = "processing"] /\ GoTo(w, "run")
    /\ UNCHANGED <<queue, tracked, enq, reaperVars>>

MarkTracked(w) ==
    /\ wpc[w] = "track"
    /\ \/ RedisOK /\ tracked' = [tracked EXCEPT ![item[w]] = 0]
       \/ RedisFails /\ UNCHANGED tracked
    /\ GoTo(w, "run")
    /\ UNCHANGED <<job, queue, enq, reaperVars>>

\* router.Execute returns: an answer, an error worth a retry, or another error
\* (a cancelled context is one of those).
RunSucceeds(w) ==
    /\ wpc[w] = "run"
    /\ Serving
    /\ GoTo(w, "complete")
    /\ UNCHANGED <<redisVars, enq, reaperVars, envVars>>

\* Faulty: one retry too many.
RunFailsOnceMore(w, retryable) ==
    /\ wpc[w] = "run"
    /\ Serving
    /\ GoTo(w, IF retryable /\ attempt[w] <= MaxRetries THEN "backoff" ELSE "fail")
    /\ UNCHANGED <<redisVars, enq, reaperVars, envVars>>

\* Faulty: the item also goes back to the queue while the worker retries it.
RunFailsRequeues(w, retryable) ==
    /\ wpc[w] = "run"
    /\ Serving
    /\ GoTo(w, IF retryable /\ attempt[w] < MaxRetries THEN "backoff" ELSE "fail")
    /\ queue' = IF wpc'[w] = "backoff" THEN <<item[w]>> \o queue ELSE queue
    /\ UNCHANGED <<job, tracked, enq, reaperVars, envVars>>

\* Faulty: the failure is not saved when the retries are used up.
RunFailsSilently(w, retryable) ==
    /\ wpc[w] = "run"
    /\ Serving
    /\ GoTo(w, IF retryable /\ attempt[w] < MaxRetries THEN "backoff" ELSE "clear")
    /\ UNCHANGED <<redisVars, enq, reaperVars, envVars>>

RunFails(w, retryable) ==
    /\ wpc[w] = "run"
    /\ Serving
    /\ GoTo(w, IF retryable /\ attempt[w] < MaxRetries THEN "backoff" ELSE "fail")
    /\ UNCHANGED <<redisVars, enq, reaperVars, envVars>>

\* The backoff timer, or the cancelled context, whichever select picks.
Backoff(w) ==
    /\ wpc[w] = "backoff"
    /\ Serving
    /\ \/ /\ wpc' = [wpc EXCEPT ![w] = "run"]
          /\ attempt' = [attempt EXCEPT ![w] = @ + 1]
          /\ UNCHANGED <<item, owner>>
       \/ Cancelled /\ GoTo(w, "fail")
    /\ UNCHANGED <<redisVars, enq, reaperVars, envVars>>

\* The answer is saved; when that fails the job is abandoned as it is.
Complete(w) ==
    /\ wpc[w] = "complete"
    /\ \/ RedisOK /\ Save(item[w], "completed", owner[w]) /\ GoTo(w, "clear")
       \/ RedisFails /\ UNCHANGED job /\ Finish(w)
       \/ LostReply /\ Save(item[w], "completed", owner[w]) /\ Finish(w)
    /\ UNCHANGED <<queue, tracked, enq, reaperVars>>

\* failJob: a failed save is only logged.
FailJob(w) ==
    /\ wpc[w] = "fail"
    /\ \/ RedisOK /\ Save(item[w], "failed", owner[w])
       \/ RedisFails /\ UNCHANGED job
    /\ GoTo(w, "clear")
    /\ UNCHANGED <<queue, tracked, enq, reaperVars>>

ClearProcessing(w) ==
    /\ wpc[w] = "clear"
    /\ \/ RedisOK /\ tracked' = [tracked EXCEPT ![item[w]] = -1]
       \/ RedisFails /\ UNCHANGED tracked
    /\ Finish(w)
    /\ UNCHANGED <<job, queue, enq, reaperVars>>

-----------------------------------------------------------------------------
(* The reaper.                                                             *)

\* Faulty: jobs exactly at the threshold, the oldest there are, are passed over.
ReaperScanLate ==
    /\ rpc = "idle"
    /\ RedisOK
    /\ stale' = {j \in Jobs : tracked[j] > StaleAfter}
    /\ stale' # {}
    /\ rpc' = "next"
    /\ UNCHANGED <<redisVars, enq, workerVars, rjob, rowner>>

ReaperScan ==
    /\ rpc = "idle"
    /\ RedisOK
    /\ stale' = {j \in Jobs : tracked[j] = StaleAfter}
    /\ stale' # {}
    /\ rpc' = "next"
    /\ UNCHANGED <<redisVars, enq, workerVars, rjob, rowner>>

\* Faulty: the owner is not read before the job is saved as failed.
ReaperReadBlind(j) ==
    /\ rpc = "next"
    /\ j \in stale
    /\ stale' = stale \ {j}
    /\ rjob' = j
    /\ rowner' = ""
    /\ rpc' = "fail"
    /\ UNCHANGED <<redisVars, enq, workerVars, envVars>>

\* The next stale job, with its owner if the read succeeds.
ReaperRead(j) ==
    /\ rpc = "next"
    /\ j \in stale
    /\ stale' = stale \ {j}
    /\ rjob' = j
    /\ \/ RedisOK /\ rowner' = job[j].owner
       \/ RedisFails /\ rowner' = ""
    /\ rpc' = "fail"
    /\ UNCHANGED <<redisVars, enq, workerVars>>

ReaperFails ==
    /\ rpc = "fail"
    /\ \/ RedisOK /\ Save(rjob, "failed", rowner)
       \/ RedisFails /\ UNCHANGED job
    /\ rpc' = "clear"
    /\ UNCHANGED <<queue, tracked, enq, workerVars, stale, rjob, rowner>>

ReaperClears ==
    /\ rpc = "clear"
    /\ \/ RedisOK /\ tracked' = [tracked EXCEPT ![rjob] = -1]
       \/ RedisFails /\ UNCHANGED tracked
    /\ rpc' = IF stale = {} THEN "idle" ELSE "next"
    /\ rjob' = NoJob /\ rowner' = ""
    /\ UNCHANGED <<job, queue, enq, workerVars, stale>>

-----------------------------------------------------------------------------
(* Time, Consumer.Stop, crashes and restarts.                              *)

Tick ==
    /\ tracked' = [j \in Jobs |-> IF tracked[j] \in 0..StaleAfter - 1
                                  THEN tracked[j] + 1 ELSE tracked[j]]
    /\ tracked' # tracked
    /\ UNCHANGED <<job, queue, enq, workerVars, reaperVars, envVars>>

\* Consumer.Stop cancels the context and waits for the goroutines.
Stop ==
    /\ up = "running"
    /\ outages < MaxOutages
    /\ up' = "stopping"
    /\ outages' = outages + 1
    /\ UNCHANGED <<redisVars, enq, workerVars, reaperVars, redisErrors, lostReplies>>

Stopped ==
    /\ up = "stopping"
    /\ \A w \in Workers : wpc[w] = "idle"
    /\ rpc = "idle"
    /\ up' = "stopped"
    /\ enq' = [j \in Jobs |-> IF enq[j] = "saved" THEN "rejected" ELSE enq[j]]
    /\ UNCHANGED <<redisVars, workerVars, reaperVars, outages, redisErrors, lostReplies>>

\* The process dies; only Redis is left.  It may die while it stops: main
\* returns as soon as the listener is closed, without waiting for Stop.
Crash ==
    /\ \/ up = "running" /\ outages < MaxOutages /\ outages' = outages + 1
       \/ up = "stopping" /\ UNCHANGED outages
    /\ up' = "crashed"
    /\ enq' = [j \in Jobs |-> IF enq[j] = "saved" THEN "rejected" ELSE enq[j]]
    /\ wpc' = [w \in Workers |-> "idle"]
    /\ item' = [w \in Workers |-> NoJob]
    /\ owner' = [w \in Workers |-> ""]
    /\ attempt' = [w \in Workers |-> 0]
    /\ rpc' = "idle" /\ stale' = {} /\ rjob' = NoJob /\ rowner' = ""
    /\ UNCHANGED <<redisVars, redisErrors, lostReplies>>

\* Consumer.Start in a new process.
Start ==
    /\ up \in {"stopped", "crashed"}
    /\ up' = "running"
    /\ UNCHANGED <<redisVars, enq, workerVars, reaperVars, outages, redisErrors, lostReplies>>

-----------------------------------------------------------------------------

WorkerStep(w) ==
    \/ Pop(w) \/ ReadJob(w) \/ MarkStatus(w) \/ MarkTracked(w)
    \/ RunSucceeds(w) \/ \E retryable \in BOOLEAN : RunFails(w, retryable)
    \/ Backoff(w) \/ Complete(w) \/ FailJob(w) \/ ClearProcessing(w)

ReaperStep ==
    ReaperScan \/ (\E j \in Jobs : ReaperRead(j)) \/ ReaperFails \/ ReaperClears

ProducerStep(j) == EnqueueSave(j) \/ EnqueuePush(j)

Next ==
    \/ \E j \in Jobs : ProducerStep(j)
    \/ \E w \in Workers : WorkerStep(w)
    \/ ReaperStep
    \/ Tick \/ Stop \/ Stopped \/ Crash \/ Start

Spec == Init /\ [][Next]_vars

\* The goroutines run, provider calls return, time passes, and a process that
\* went down is started again.  Nobody has to submit jobs.
Fairness ==
    /\ \A w \in Workers : WF_vars(WorkerStep(w))
    /\ \A j \in Jobs : WF_vars(EnqueuePush(j))
    /\ WF_vars(ReaperStep)
    /\ WF_vars(Tick) /\ WF_vars(Stopped) /\ WF_vars(Start)

FairSpec == Spec /\ Fairness

-----------------------------------------------------------------------------
(* Correctness.                                                            *)

\* As long as no reply was lost, a job is never processed twice at the same time:
\* its item is in the queue or with one worker, and with none before it was
\* queued.
ItemInOnePlace ==
    lostReplies = 0 => \A j \in Jobs :
        LET places == Cardinality({k \in DOMAIN queue : queue[k] = j})
                      + Cardinality({w \in Workers : item[w] = j})
        IN  places <= IF enq[j] = "accepted" THEN 1 ELSE 0

\* As long as no command failed, whoever settles an accepted job (a worker, one of
\* two workers that got the same item, the reaper, a new process after a crash)
\* keeps its owner, so that GET /batch/:job_id still finds it.
OwnerKept ==
    redisErrors = 0 =>
        \A j \in Jobs : enq[j] = "accepted" => job[j].owner = "client"

\* As long as no reply was lost, no worker takes a completed answer back.  Only
\* the reaper, which may have listed the job before it was completed, does.
WorkersKeepAnswers ==
    [][lostReplies = 0 =>
         \A j \in Jobs : job[j].status = "completed" /\ job'[j].status # "completed"
                           => rpc = "fail" /\ rjob = j]_vars

\* The job is about to leave the sorted set, where a reaper would see it, without having
\* settled: failJob or the reaper could not save its failure, or a second delivery of its
\* item (a lost reply of LPUSH) has set it to processing again.
FailureLost(j) ==
    /\ redisErrors + lostReplies > 0
    /\ job[j].status \notin Terminal
    /\ \/ \E w \in Workers : wpc[w] = "clear" /\ item[w] = j
       \/ rpc = "clear" /\ rjob = j

\* BRPOP took the item of j and its reply was lost.
ItemLost(j) ==
    /\ lostReplies > 0
    /\ job[j].status = "pending"
    /\ \A k \in DOMAIN queue : queue[k] # j
    /\ \A w \in Workers : item[w] # j

\* Every job accepted with 202 ends completed or failed although a command may fail or
\* lose its reply, with three exceptions: the process goes down in the meantime, its
\* item or its failure is what got lost, or more than one command goes wrong.
AcceptedJobSettles ==
    \A j \in Jobs : <>(enq[j] = "accepted") =>
        \/ <>[](job[j].status \in Terminal)
        \/ <>\/ outages > 0
             \/ FailureLost(j) \/ ItemLost(j)
             \/ redisErrors + lostReplies > 1

\* A job that entered the sorted set ends completed or failed, even when the process
\* crashes or is stopped while it works on it, or commands fail or lose their replies:
\* the reaper of this process or the next one finds it.  Only a failure that is lost before
\* the job leaves the set stays without a trace.  A crash or a lost reply before the job is
\* in the set is out of the reaper's reach.
TrackedJobSettles ==
    \A j \in Jobs : tracked[j] # -1 ~> job[j].status \in Terminal \/ FailureLost(j)
=============================================================================
