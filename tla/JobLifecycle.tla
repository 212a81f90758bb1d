--------------------------- MODULE JobLifecycle ---------------------------
(***************************************************************************)
(* What the queue promises about one job, whatever the number of workers:  *)
(* the "Job Lifecycle" diagram of README.md and of docs/index.html, read   *)
(* off the statuses that internal/queue/redis_queue.go writes.  A job that *)
(* is at rest in "completed" never moves again, one that is "dead" moves   *)
(* only by a retry call, and each failed attempt is counted once.          *)
(***************************************************************************)
EXTENDS Integers

CONSTANTS Jobs, MaxRetries

VARIABLES
  status,   \* of each job; "new" before it is submitted, "gone" once expired
  retries   \* failed attempts since the job was submitted or retried

LifecycleVars == <<status, retries>>

LifecycleInit ==
  /\ status  = [j \in Jobs |-> "new"]
  /\ retries = [j \in Jobs |-> 0]

Move(j, from, to) == status[j] \in from /\ status' = [status EXCEPT ![j] = to]
Keep  == UNCHANGED retries
Count(j) == retries' = [retries EXCEPT ![j] = @ + 1]
Reset(j) == retries' = [retries EXCEPT ![j] = 0]

Submitted(j) == Move(j, {"new"}, "pending") /\ Keep
Started(j)   == Move(j, {"pending"}, "processing") /\ Keep
Completed(j) == Move(j, {"processing"}, "completed") /\ Keep
Failed(j)    == /\ Move(j, {"processing"}, "failed") /\ Count(j)
                /\ retries[j] + 1 < MaxRetries
Exhausted(j) == /\ Move(j, {"processing"}, "dead") /\ Count(j)
                /\ retries[j] + 1 >= MaxRetries
Requeued(j)  == Move(j, {"failed"}, "pending") /\ Keep
Rescued(j)   == Move(j, {"processing"}, "pending") /\ Keep
Retried(j)   == Move(j, {"dead"}, "pending") /\ Reset(j)
Expired(j)   == Move(j, {"completed", "dead"}, "gone") /\ Reset(j)

LifecycleNext ==
  \E j \in Jobs :
    \/ Submitted(j) \/ Started(j) \/ Completed(j) \/ Failed(j) \/ Exhausted(j)
    \/ Requeued(j) \/ Rescued(j) \/ Retried(j) \/ Expired(j)

LifecycleSpec == LifecycleInit /\ [][LifecycleNext]_LifecycleVars

=============================================================================
