---------------------------- MODULE PendingOrder ----------------------------
(***************************************************************************)
(* The order of the pending sorted set, which module RedisQueue abstracts: *)
(* SubmitJob's priorities, the scores of Enqueue and Requeue, and ZPOPMIN. *)
(* A client reads the clock when it computes a score and adds the job      *)
(* later, so scores do not enter the set in their order.                   *)
(***************************************************************************)
EXTENDS Integers

CONSTANTS
  Jobs,
  MaxRetries,  \* Job.MaxRetries
  Step,        \* what a priority level weighs in the score, 1e10
  BackOff,     \* the penalty for a retry, 5000
  Asked,       \* the priorities that clients of POST /jobs send
  Start,       \* the clock at first, in units of Step and BackOff
  MaxClock     \* bound on the clock

\* How often a job can fail before it is dead.
Attempts == IF MaxRetries > 1 THEN MaxRetries ELSE 1

\* The clock may be far above Step: UnixMilli is.
ASSUME OrderAssumption ==
  /\ MaxRetries \in Int \ {0}
  /\ Step \in Nat
  /\ BackOff \in Nat
  /\ Asked \subseteq Int
  /\ Start \in Nat
  /\ MaxClock \in Nat /\ Start <= MaxClock

VARIABLES
  clock,
  place,     \* where a job is; "sending": its score is computed, not yet added
  asked,     \* the priority its client asked for
  priority,  \* Job.Priority
  retries,   \* Job.Retries
  stamp,     \* history: the clock when its score was computed
  score      \* its score, computed or in the set

vars == <<clock, place, asked, priority, retries, stamp, score>>

Places == {"new", "sending", "pending", "taken", "completed", "dead"}

Init ==
  /\ clock    = Start
  /\ place    = [j \in Jobs |-> "new"]
  /\ asked    = [j \in Jobs |-> 2]
  /\ priority = [j \in Jobs |-> 2]
  /\ retries  = [j \in Jobs |-> 0]
  /\ stamp    = [j \in Jobs |-> Start]
  /\ score    = [j \in Jobs |-> 2 * Step]

Tick ==
  /\ clock < MaxClock
  /\ clock' = clock + 1
  /\ UNCHANGED <<place, asked, priority, retries, stamp, score>>

Move(j, from, to) == place[j] = from /\ place' = [place EXCEPT ![j] = to]

\* Mutant: a priority out of range is taken as it is.
PriorityUnchecked(p) == p

\* SubmitJob: a priority out of range becomes medium.
Priority(p) == IF p \in 1..3 THEN p ELSE 2

\* Mutants: no penalty; the score puts the time first.
NoPenalty(r) == 0
TimeFirst(p, now, penalty) == p + now * Step + penalty

Penalty(r) == r * BackOff
Score(p, now, penalty) == p * Step + now + penalty

\* A client computes the score of j, after the r-th failure, with what it adds.
Rank(j, p, r, penalty) ==
  /\ priority' = [priority EXCEPT ![j] = p]
  /\ retries'  = [retries EXCEPT ![j] = r]
  /\ stamp'    = [stamp EXCEPT ![j] = clock]
  /\ score'    = [score EXCEPT ![j] = Score(p, clock, penalty)]
  /\ UNCHANGED clock

SubmitJob(j, p) ==
  /\ Move(j, "new", "sending")
  /\ asked' = [asked EXCEPT ![j] = p]
  /\ Rank(j, Priority(p), 0, 0)

\* ZADD, by Enqueue or Requeue.
Add(j) ==
  /\ Move(j, "sending", "pending")
  /\ UNCHANGED <<clock, asked, priority, retries, stamp, score>>

LowestScore(j) == \A i \in Jobs : place[i] = "pending" => score[j] <= score[i]

\* ZPOPMIN.  Redis breaks a tie by id, and ids are random.
Dequeue(j) ==
  /\ Move(j, "pending", "taken")
  /\ LowestScore(j)
  /\ UNCHANGED <<clock, asked, priority, retries, stamp, score>>

Complete(j) ==
  /\ Move(j, "taken", "completed")
  /\ UNCHANGED <<clock, asked, priority, retries, stamp, score>>

\* Fail, with MoveToDeadLetter or Requeue.
MoveToDeadLetter(j) ==
  /\ Move(j, "taken", "dead")
  /\ retries[j] + 1 >= MaxRetries
  /\ retries' = [retries EXCEPT ![j] = @ + 1]
  /\ UNCHANGED <<clock, asked, priority, stamp, score>>

Fail(j) ==
  /\ Move(j, "taken", "sending")
  /\ retries[j] + 1 < MaxRetries
  /\ Rank(j, priority[j], retries[j] + 1, Penalty(retries[j] + 1))
  /\ UNCHANGED asked

\* RecoverStale requeues with the retries it read.
RecoverStale(j) ==
  /\ Move(j, "taken", "sending")
  /\ Rank(j, priority[j], retries[j], Penalty(retries[j]))
  /\ UNCHANGED asked

RetryDead(j) ==
  /\ Move(j, "dead", "sending")
  /\ Rank(j, priority[j], 0, 0)
  /\ UNCHANGED asked

Next ==
  \/ Tick
  \/ \E j \in Jobs, p \in Asked : SubmitJob(j, p)
  \/ \E j \in Jobs :
       \/ Add(j) \/ Dequeue(j) \/ Complete(j) \/ MoveToDeadLetter(j)
       \/ Fail(j) \/ RecoverStale(j) \/ RetryDead(j)

Spec == Init /\ [][Next]_vars

-----------------------------------------------------------------------------
\* Type invariant: places, priorities of three levels, and no more failures
\* than the retries allow.
TypeOK ==
  /\ clock \in Start..MaxClock
  /\ place \in [Jobs -> Places]
  /\ asked \in [Jobs -> Asked \cup {2}]
  /\ priority \in [Jobs -> 1..3]
  /\ retries \in [Jobs -> 0..Attempts]
  /\ stamp \in [Jobs -> Start..MaxClock]
  /\ score \in [Jobs -> Int]

Served(j) == place[j] = "pending" /\ place'[j] = "taken"

Order ==
  INSTANCE PriorityFifo WITH
    Patience <- Step,
    waiting  <- {j \in Jobs : place[j] = "pending"},
    turn     <- [j \in Jobs |-> stamp[j] + retries[j] * BackOff]

\* Jobs are served by priority and then by turn (Enqueue, Requeue, Dequeue),
\* although the queue compares one number and jobs are added late.  A turn is the
\* time of the submission or the last retry, later by BackOff for each failure.
\* Only a job whose turn is Step earlier, 116 days, goes before one of a higher
\* priority.
ServesInOrder == Order!FifoSpec

\* "Penalty pushes retried jobs slightly behind fresh jobs of the same
\* priority" (Requeue): when a retried job is served, a job of its priority
\* that waits and never failed was submitted after its penalty was over.
RetriedBehindFresh ==
  [][\A i, j \in Jobs :
       Served(j) /\ place[i] = "pending" /\ priority[i] = priority[j] /\ retries[i] = 0
         => stamp[i] >= stamp[j] + retries[j] * BackOff]_vars

\* No job waits for what a level weighs, less the penalties.
Prompt ==
  \A j \in Jobs : place[j] = "pending" => clock - stamp[j] + Penalty(Attempts) < Step

\* "Jobs sorted by priority (P1-P4)" (README.md): a job is not served while one
\* waits whose client asked for a higher priority.
ServesAsAsked ==
  [][\A i, j \in Jobs :
       Served(j) /\ place[i] = "pending" => asked[j] <= asked[i]]_vars

=============================================================================
