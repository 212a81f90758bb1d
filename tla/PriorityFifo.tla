---------------------------- MODULE PriorityFifo ----------------------------
(***************************************************************************)
(* What the pending queue promises: a job keeps its priority and its turn  *)
(* while it waits.  "Sorted by priority first, then FIFO" (redis_queue.go): *)
(* the one served is of the highest priority there is (1 before 3) and has *)
(* the earliest turn of that priority.  Nobody is starved: a job whose     *)
(* turn is earlier by Patience may go before one of a higher priority.     *)
(***************************************************************************)
EXTENDS Integers

CONSTANTS Jobs, Patience

VARIABLES waiting, priority, turn

FifoVars == <<waiting, priority, turn>>

FifoInit == waiting = {}

Precedes(i, j) ==
  \/ priority[i] < priority[j] /\ turn[i] < turn[j] + Patience
  \/ priority[i] = priority[j] /\ turn[i] < turn[j]

\* A job outside the queue is given a priority and a turn.
Prepare(j) ==
  /\ j \notin waiting
  /\ \A i \in Jobs \ {j} : priority'[i] = priority[i] /\ turn'[i] = turn[i]
  /\ UNCHANGED waiting

Join(j) ==
  /\ j \notin waiting
  /\ waiting' = waiting \cup {j}
  /\ UNCHANGED <<priority, turn>>

Serve(j) ==
  /\ j \in waiting
  /\ \A i \in waiting : ~Precedes(i, j)
  /\ waiting' = waiting \ {j}
  /\ UNCHANGED <<priority, turn>>

FifoNext == \E j \in Jobs : Prepare(j) \/ Join(j) \/ Serve(j)

FifoSpec == FifoInit /\ [][FifoNext]_FifoVars

=============================================================================
