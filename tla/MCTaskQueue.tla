---------------------------- MODULE MCTaskQueue ----------------------------
(***************************************************************************)
(* Small instances of TaskQueue for TLC.  The .cfg files choose how many   *)
(* jobs, workers and processes there are; each worker belongs to the       *)
(* process its number says.                                                *)
(***************************************************************************)
EXTENDS TaskQueue, TLC

CONSTANTS j1, j2, w1, w2, p1, p2, r1, r2

\* One worker process with one or two goroutines.
OnePool == [w \in Workers |-> p1]

\* Two worker processes with a goroutine each.
TwoPools == [w \in Workers |-> IF w = w1 THEN p1 ELSE p2]

\* The points at which a crash or an error costs no job and leaves the dead-letter
\* list exact: all but the ones between ZPOPMIN and HSET, between HDEL and ZADD,
\* inside a pipeline, and where RetryDead has begun to change something.
SafePoints == ProgramPoints \ {"hset", "requeue", "lrem", "decr", "enqueue"}

AllPoints == ProgramPoints

\* Dequeue ignores the error of its last SET, which leaves the status behind.
ReportedErrors == ProgramPoints \ {"mark"}

NoPoints == {}

\* For the run that shows what a crash in a handler may lead to.
OnlyRun == {"idle", "run"}

\* Workers of different processes are not alike.
Symmetry == Permutations(Jobs) \cup Permutations(Requests)
=============================================================================
