----------------------------- MODULE TaskQueue -----------------------------
(***************************************************************************)
(* The task queue at work: worker processes (cmd/worker, internal/worker)  *)
(* and request handlers of the API server (internal/api) that use the      *)
(* queue of module RedisQueue, with the passing of time, Redis errors,     *)
(* crashes, shutdowns and restarts around them.                            *)
(***************************************************************************)
EXTENDS RedisQueue, FiniteSets

CONSTANTS
  CrashAt,       \* the points of a client at which its process may be killed
  ErrorAt,       \* the points at which a Redis call may return an error
  SlowJobs,      \* TRUE: a handler may outlast staleJobTimeout
  Shutdowns,     \* TRUE: a worker process may receive SIGTERM
  MaxFaults,     \* bound on errors, crashes, shutdowns and slow handlers
  MaxRetryCalls, \* bound on POST /jobs/:id/retry calls
  MaxFailures    \* bound on stats:failed + stats:dead; past it no handler
                 \* returns an error

VARIABLES faults, retryCalls

vars == <<qvars, faults, retryCalls>>

ProgramPoints ==
  { "idle", "hset", "get", "mark", "run", "complete", "fail", "requeue",
    "sweep", "hdel", "lrem", "decr", "enqueue" }

Points == ProgramPoints \cup {"pipeline"}

ASSUME SystemAssumption ==
  /\ CrashAt \subseteq Points
  /\ ErrorAt \subseteq Points
  /\ SlowJobs \in BOOLEAN
  /\ Shutdowns \in BOOLEAN
  /\ MaxFaults \in Nat
  /\ MaxRetryCalls \in Nat
  /\ MaxFailures \in Nat

Init ==
  /\ job        = [j \in Jobs |-> NoRecord]
  /\ pending    = {}
  /\ processing = [j \in Jobs |-> "none"]
  /\ dead       = [j \in Jobs |-> 0]
  /\ stats      = [k \in Counters |-> 0]
  /\ pc         = [c \in Clients |-> "idle"]
  /\ hand       = [c \in Clients |-> NoJob]
  /\ copy       = [c \in Clients |-> NoRecord]
  /\ wire       = [c \in Clients |-> <<>>]
  /\ todo       = [s \in Pools |-> {}]
  /\ ctx        = [p \in Pools |-> "live"]
  /\ issued     = {}
  /\ accepted   = {}
  /\ faults     = 0
  /\ retryCalls = 0

-----------------------------------------------------------------------------
(***************************************************************************)
(* Workers: processNext.  The handler returns nil or an error; an unknown  *)
(* job type counts as an error.  A cancelled context does not stop it.     *)
(***************************************************************************)
Run(w) ==
  /\ pc[w] = "run"
  /\ \/ Goto(w, "complete")
     \/ stats["failed"] + stats["dead"] < MaxFailures /\ Goto(w, "fail")
  /\ UNCHANGED <<keys, hand, copy, wire, todo, ctx, issued, accepted>>

WorkerStep(w) ==
  \/ DequeuePop(w) \/ DequeueClaim(w) \/ DequeueRead(w) \/ DequeueMark(w)
  \/ Run(w) \/ Complete(w) \/ Fail(w) \/ Requeue(w) \/ ExecCommand(w)

SweepOn(s) ==
  SweepRead(s) \/ SweepRelease(s) \/ Requeue(s) \/ SweepDone(s) \/ ExecCommand(s)

SweeperStep(s) == SweepSnapshot(s) \/ SweepOn(s)

(***************************************************************************)
(* The API server: SubmitJob and RetryJob.                                 *)
(***************************************************************************)
Submit(r, j) ==
  /\ pc[r] = "idle" /\ wire[r] = <<>>
  /\ j \notin issued
  /\ issued' = issued \cup {j}
  /\ Take(r, j)
  /\ Load(r, FreshJob)
  /\ Goto(r, "enqueue")
  /\ UNCHANGED <<keys, wire, todo, ctx, accepted, retryCalls>>

RetryJob(r, j) ==
  /\ retryCalls < MaxRetryCalls
  /\ RetryRead(r, j)
  /\ retryCalls' = retryCalls + 1

RequestStep(r) ==
  RetryUnlist(r) \/ RetryCount(r) \/ Enqueue(r) \/ ExecCommand(r)

-----------------------------------------------------------------------------
(***************************************************************************)
(* Time.  A claim turns stale five minutes after HSET.  The clients finish *)
(* their operations in less, unless a slow handler holds them up.          *)
(***************************************************************************)
GoStale(j) ==
  /\ processing[j] = "fresh"
  /\ \A w \in Workers : hand[w] # j
  /\ processing' = [processing EXCEPT ![j] = "stale"]
  /\ UNCHANGED <<job, pending, dead, stats, memory, ctx, issued, accepted>>

Fault == faults < MaxFaults /\ faults' = faults + 1

Overrun(j) ==
  /\ SlowJobs
  /\ processing[j] = "fresh"
  /\ \E w \in Workers : hand[w] = j /\ pc[w] = "run"
  /\ processing' = [processing EXCEPT ![j] = "stale"]
  /\ UNCHANGED <<job, pending, dead, stats, memory, ctx, issued, accepted>>

(***************************************************************************)
(* Failures.  A process takes its clients' memory with it and is started   *)
(* again, by supervisord or Kubernetes; an API request is a process of its *)
(* own here, for the replica that serves it.                               *)
(***************************************************************************)
Process(p) == {p} \cup {w \in Workers : PoolOf[w] = p}

RedisError(c) == Point(c) \in ErrorAt /\ Live(c) /\ CallError(c)

Crash(p) ==
  LET process == Process(p) IN
  /\ \A c \in process : Point(c) \in CrashAt
  /\ \E c \in process : Point(c) # "idle"
  /\ pc'   = [c \in Clients |-> IF c \in process THEN "idle" ELSE pc[c]]
  /\ hand' = [c \in Clients |-> IF c \in process THEN NoJob ELSE hand[c]]
  /\ copy' = [c \in Clients |-> IF c \in process THEN NoRecord ELSE copy[c]]
  /\ wire' = [c \in Clients |-> IF c \in process THEN <<>> ELSE wire[c]]
  /\ todo' = [s \in Pools |-> IF s = p THEN {} ELSE todo[s]]
  /\ ctx'  = [s \in Pools |-> IF s = p THEN "live" ELSE ctx[s]]
  /\ UNCHANGED <<keys, issued, accepted>>

\* SIGTERM cancels the context of the process.
Shutdown(p) ==
  /\ Shutdowns
  /\ ctx[p] = "live"
  /\ ctx' = [ctx EXCEPT ![p] = "cancelled"]
  /\ UNCHANGED <<keys, memory, issued, accepted>>

\* A call with a cancelled context fails; a pipeline under way is finished.
CtxError(c) == ~Live(c) /\ wire[c] = <<>> /\ CallError(c)

\* Every goroutine of the process has returned, and a new process starts.
Restart(p) ==
  /\ ctx[p] = "cancelled"
  /\ \A c \in Process(p) : Point(c) = "idle"
  /\ ctx' = [ctx EXCEPT ![p] = "live"]
  /\ UNCHANGED <<keys, memory, issued, accepted>>

-----------------------------------------------------------------------------
Calm == UNCHANGED <<faults, retryCalls>>

\* All steps but the start of a sweep and of a retry.
Continue ==
  \/ \E w \in Workers : (DequeueEmpty(w) \/ WorkerStep(w)) /\ Calm
  \/ \E s \in Pools : SweepOn(s) /\ Calm
  \/ \E r \in Requests : RequestStep(r) /\ Calm
  \/ \E r \in Requests, j \in Jobs : Submit(r, j) /\ UNCHANGED faults
  \/ \E j \in Jobs : (GoStale(j) \/ Expire(j)) /\ Calm
  \/ \E j \in Jobs : Overrun(j) /\ Fault /\ UNCHANGED retryCalls
  \/ \E c \in Clients : RedisError(c) /\ Fault /\ UNCHANGED retryCalls
  \/ \E p \in Pools \cup Requests : Crash(p) /\ Fault /\ UNCHANGED retryCalls
  \/ \E p \in Pools : Shutdown(p) /\ Fault /\ UNCHANGED retryCalls
  \/ \E c \in Workers \cup Pools : CtxError(c) /\ Calm
  \/ \E p \in Pools : Restart(p) /\ Calm

Next ==
  \/ Continue
  \/ \E s \in Pools : SweepSnapshot(s) /\ Calm
  \/ \E r \in Requests, j \in Jobs : RetryJob(r, j) /\ UNCHANGED faults

Spec == Init /\ [][Next]_vars

(***************************************************************************)
(* When work on one job does not overlap.  Every process sweeps every 30   *)
(* seconds and a sweep takes milliseconds, so those of two processes       *)
(* overlap only if their tickers started together.  A dead job is retried  *)
(* by two requests at once only if two users press the button together,    *)
(* and while its pipeline still lists it only by one who knows its id.     *)
(***************************************************************************)
Alone(s) == \A q \in Pools \ {s} : pc[q] = "idle"

Unheld(r, j) == \A c \in Clients \ {r} : hand[c] # j

ApartNext ==
  \/ Continue
  \/ \E s \in Pools : SweepSnapshot(s) /\ Alone(s) /\ Calm
  \/ \E r \in Requests, j \in Jobs : RetryJob(r, j) /\ Unheld(r, j) /\ UNCHANGED faults

ApartSpec == Init /\ [][ApartNext]_vars

(***************************************************************************)
(* Fairness.  Workers poll in a tight loop, the sweeper's ticker fires     *)
(* every 30 seconds, net/http runs every request it has accepted, time     *)
(* passes, and a process that was told to stop is replaced.  Clients of    *)
(* the API and faults owe nothing.                                         *)
(***************************************************************************)
Fairness ==
  /\ \A w \in Workers : WF_vars(WorkerStep(w) /\ Calm)
  /\ \A s \in Pools : WF_vars(SweeperStep(s) /\ Calm)
  /\ \A r \in Requests : WF_vars(RequestStep(r) /\ Calm)
  /\ \A j \in Jobs : WF_vars(GoStale(j) /\ Calm)
  /\ \A c \in Workers \cup Pools : WF_vars(CtxError(c) /\ Calm)
  /\ \A p \in Pools : WF_vars(Restart(p) /\ Calm)

FairSpec == Spec /\ Fairness

-----------------------------------------------------------------------------
(***************************************************************************)
(* Properties.                                                             *)
(***************************************************************************)

\* Type invariant: what the Redis keys, the memory of each client and the
\* history may hold.
TypeOK ==
  /\ job \in [Jobs -> Records]
  /\ pending \subseteq Jobs
  /\ processing \in [Jobs -> {"none", "fresh", "stale"}]
  /\ dead \in [Jobs -> Nat]
  /\ stats \in [Counters -> Int]
  /\ pc \in [Clients -> ProgramPoints]
  /\ hand \in [Clients -> Jobs \cup {NoJob}]
  /\ copy \in [Clients -> Records]
  /\ wire \in [Clients -> Pipelines]
  /\ todo \in [Pools -> SUBSET Jobs]
  /\ ctx \in [Pools -> {"live", "cancelled"}]
  /\ issued \subseteq Jobs
  /\ accepted \subseteq Jobs
  /\ faults \in Nat
  /\ retryCalls \in Nat

Busy(c) == hand[c] # NoJob

Settled(j) == job[j].status \in {"none", "completed", "dead"}

\* Client c will put job j back into the pending set or settle it.
Carries(c, j) ==
  /\ hand[c] = j
  /\ \/ wire[c] \in {EnqueuePipe, <<"ZADD">>, CompletePipe, DeadPipe}
     \/ pc[c] = "requeue"
     \/ /\ pc[c] \in {"hset", "get", "mark", "run", "complete", "fail",
                      "hdel", "enqueue"}
        /\ wire[c] = <<>>

\* No job is lost (Dequeue, Fail, Requeue, RecoverStale): a job that has ever
\* been in the pending set is settled, or is in the pending set, or has a claim
\* the sweeper will find, or is carried by a client that is still working.
NothingLost ==
  \A j \in accepted :
    \/ Settled(j)
    \/ j \in pending
    \/ processing[j] # "none"
    \/ \E c \in Clients : Carries(c, j)

\* A job is in one place (Dequeue, RecoverStale): two goroutines never hold the
\* same job, and one that a goroutine works on is not in the pending set.
Exclusive ==
  /\ \A c, d \in Clients : c # d /\ Busy(c) => hand[c] # hand[d]
  /\ \A c \in Workers \cup Pools : Busy(c) => hand[c] \notin pending

\* The attempts a job has: MaxRetries counts attempts, and there is always one.
Attempts == IF MaxRetries > 1 THEN MaxRetries ELSE 1

\* The retry budget is kept across crashes and rescues (Fail, RecoverStale,
\* RetryDead): a job with an attempt to come has failed fewer than Attempts
\* times, and a dead one exactly that often.
RetryBudget ==
  \A j \in Jobs :
    /\ job[j].status \in {"pending", "processing", "failed"} => job[j].retries < Attempts
    /\ job[j].status = "dead" => job[j].retries = Attempts

\* A job is completed once (Complete, RecoverStale): the counter behind
\* GET /stats never exceeds the number of jobs that have been accepted.
CompletedAtMostOnce == stats["completed"] <= Cardinality(accepted)

\* The dead-letter list mirrors the statuses (MoveToDeadLetter, RetryDead): no
\* id is listed twice, and with no client working on it a dead job is listed
\* and a job in any other status that is still stored is not.
DeadLetterExact ==
  \A j \in Jobs :
    /\ dead[j] <= 1
    /\ (\A c \in Clients : hand[c] # j) /\ job[j] # NoRecord
         => (dead[j] = 1 <=> job[j].status = "dead")

\* A completed job stays completed until its record expires (README.md, "Job
\* Lifecycle": no arrow leaves "completed").
CompletedIsFinal ==
  [][\A j \in Jobs : job[j].status = "completed"
                        => job'[j].status \in {"completed", "none"}]_vars

\* The statuses a client of GET /jobs/:id sees follow the lifecycle of README.md.
Lifecycle ==
  INSTANCE JobLifecycle WITH
    status  <- [j \in Jobs |->
                 IF job[j].status # "none" THEN job[j].status
                 ELSE IF j \in accepted THEN "gone" ELSE "new"],
    retries <- [j \in Jobs |-> job[j].retries]

\* Every step of the system is a step of the abstract lifecycle or changes no
\* status: nothing re-opens a completed job, only a retry call re-opens a dead
\* one, and no failed attempt goes uncounted (Dequeue, Complete, Fail, Requeue,
\* RecoverStale, RetryDead).
FollowsLifecycle == Lifecycle!LifecycleSpec

\* Where a reader of the Redis keys finds each job.
PlaceOf(j) ==
  IF j \in pending THEN "pending"
  ELSE IF processing[j] # "none" THEN "processing"
  ELSE IF dead[j] > 0 THEN "dead"
  ELSE IF j \notin accepted THEN "absent"
  ELSE IF job[j].status \in {"completed", "none"} THEN "ended"
  ELSE "moving"

Keys == INSTANCE JobPlaces WITH place <- [j \in Jobs |-> PlaceOf(j)]

\* The keys of Redis tell where a job is (Dequeue, Complete, Fail, Requeue,
\* MoveToDeadLetter, RecoverStale, RetryDead): it is listed under one of them at
\* most, moves one move at a time, and leaves for good only when it is completed.
\* A retry that is cut short, or an LREM that fails, is an exception.
FollowsPlaces == Keys!Spec

\* Every accepted job is settled in the end (Worker.Run, the sweeper of
\* Pool.Run): completed, dead, or settled long enough to have expired.
EventuallySettled ==
  \A j \in Jobs : (j \in accepted) ~> (Settled(j) /\ \A c \in Clients : hand[c] # j)

=============================================================================
