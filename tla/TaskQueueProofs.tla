-------------------------- MODULE TaskQueueProofs --------------------------
(***************************************************************************)
(* Theorems about TaskQueue for every number of jobs, workers, worker      *)
(* processes and requests, and every choice of its other constants.        *)
(***************************************************************************)
EXTENDS TaskQueue, TLAPS

-----------------------------------------------------------------------------
(***************************************************************************)
(* Pipelines.                                                              *)
(***************************************************************************)

Commands == {"SET", "ZADD", "HDEL", "LPUSH"} \cup Counters

\* The pipelines that the code sends are lists of commands a wire can hold.
LEMMA PipelinesSent ==
  /\ <<>> \in Pipelines
  /\ EnqueuePipe \in Pipelines
  /\ CompletePipe \in Pipelines
  /\ FailPipe \in Pipelines
  /\ DeadPipe \in Pipelines
BY DEF Pipelines

\* What is left of a pipeline after its first command, and what that command is.
LEMMA PipelineTails ==
  ASSUME NEW p \in Pipelines, p # <<>>
  PROVE  /\ Tail(p) \in Pipelines
         /\ Head(p) \in Commands
         /\ Head(p) = "SET" => p \in {EnqueuePipe, CompletePipe, FailPipe, DeadPipe}
         /\ Head(p) = "ZADD" => p = <<"ZADD">>
         /\ p = EnqueuePipe => Tail(p) = <<"ZADD">>
         /\ p \in {EnqueuePipe, CompletePipe, FailPipe, DeadPipe} => Tail(p) # <<>>
         /\ Tail(p) \notin {EnqueuePipe, CompletePipe, FailPipe, DeadPipe}
         /\ Tail(p) = <<"ZADD">> => p = EnqueuePipe
<1>1. CASE p = EnqueuePipe
  BY <1>1 DEF Pipelines, EnqueuePipe, CompletePipe, FailPipe, DeadPipe, Commands, Counters
<1>2. CASE p = <<"ZADD">>
  BY <1>2 DEF Pipelines, EnqueuePipe, CompletePipe, FailPipe, DeadPipe, Commands, Counters
<1>3. CASE p = CompletePipe
  BY <1>3 DEF Pipelines, EnqueuePipe, CompletePipe, FailPipe, DeadPipe, Commands, Counters
<1>4. CASE p = <<"HDEL", "completed">>
  BY <1>4 DEF Pipelines, EnqueuePipe, CompletePipe, FailPipe, DeadPipe, Commands, Counters
<1>5. CASE p = <<"completed">>
  BY <1>5 DEF Pipelines, EnqueuePipe, CompletePipe, FailPipe, DeadPipe, Commands, Counters
<1>6. CASE p = FailPipe
  BY <1>6 DEF Pipelines, EnqueuePipe, CompletePipe, FailPipe, DeadPipe, Commands, Counters
<1>7. CASE p = <<"HDEL", "failed">>
  BY <1>7 DEF Pipelines, EnqueuePipe, CompletePipe, FailPipe, DeadPipe, Commands, Counters
<1>8. CASE p = <<"failed">>
  BY <1>8 DEF Pipelines, EnqueuePipe, CompletePipe, FailPipe, DeadPipe, Commands, Counters
<1>9. CASE p = DeadPipe
  BY <1>9 DEF Pipelines, EnqueuePipe, CompletePipe, FailPipe, DeadPipe, Commands, Counters
<1>10. CASE p = <<"HDEL", "LPUSH", "dead">>
  BY <1>10 DEF Pipelines, EnqueuePipe, CompletePipe, FailPipe, DeadPipe, Commands, Counters
<1>11. CASE p = <<"LPUSH", "dead">>
  BY <1>11 DEF Pipelines, EnqueuePipe, CompletePipe, FailPipe, DeadPipe, Commands, Counters
<1>12. CASE p = <<"dead">>
  BY <1>12 DEF Pipelines, EnqueuePipe, CompletePipe, FailPipe, DeadPipe, Commands, Counters
<1>13. QED
  BY <1>1, <1>2, <1>3, <1>4, <1>5, <1>6, <1>7, <1>8, <1>9, <1>10, <1>11, <1>12
  DEF Pipelines

-----------------------------------------------------------------------------
(***************************************************************************)
(* Type correctness.  TypeOK alone is not inductive: ZADD would add the    *)
(* client's NoJob to the pending set if it had no job in hand.             *)
(***************************************************************************)

\* A client in the middle of an operation has a job in hand, and a pipeline is
\* sent by the last call of an operation or by the first half of Fail.
Coherent ==
  \A c \in Clients :
    /\ wire[c] # <<>> => pc[c] \in {"idle", "sweep", "requeue"}
    /\ Point(c) \notin {"idle", "sweep"} => hand[c] \in Jobs

TypeInv == TypeOK /\ Coherent

\* A worker, a sweeper and a request are clients, and each is only that.
LEMMA ClientKinds ==
  /\ Workers \subseteq Clients
  /\ Pools \subseteq Clients
  /\ Requests \subseteq Clients
  /\ \A w \in Workers : w \notin Pools /\ PoolOf[w] \in Pools
BY ClientsAssumption DEF Clients

\* The records that the operations build from a stored one are records.
LEMMA RecordTypes ==
  /\ NoRecord \in Records
  /\ FreshJob \in Records
  /\ \A r \in Records, s \in Statuses, t \in BOOLEAN : WithStatus(r, s, t) \in Records
  /\ \A r \in Records : Failures(r) \in Nat
  /\ \A n \in Nat : [status |-> "dead", retries |-> n, ttl |-> TRUE] \in Records
  /\ \A n \in Nat : [status |-> "failed", retries |-> n, ttl |-> FALSE] \in Records
<1>1. NoRecord \in Records /\ FreshJob \in Records
  BY DEF Records, NoRecord, FreshJob, Statuses
<1>2. ASSUME NEW r \in Records, NEW s \in Statuses, NEW t \in BOOLEAN
      PROVE  WithStatus(r, s, t) \in Records
  BY DEF Records, WithStatus
<1>3. ASSUME NEW r \in Records PROVE Failures(r) \in Nat
  BY DEF Records, Failures
<1>4. ASSUME NEW n \in Nat
      PROVE  /\ [status |-> "dead", retries |-> n, ttl |-> TRUE] \in Records
             /\ [status |-> "failed", retries |-> n, ttl |-> FALSE] \in Records
  BY DEF Records, Statuses
<1>5. QED
  BY <1>1, <1>2, <1>3, <1>4

LEMMA TypeInit == Init => TypeInv
<1> SUFFICES ASSUME Init PROVE TypeInv
  OBVIOUS
<1>1. TypeOK
  BY PipelinesSent, RecordTypes DEF Init, TypeOK, ProgramPoints
<1>2. Coherent
  BY DEF Init, Coherent, Point
<1>3. QED
  BY <1>1, <1>2 DEF TypeInv

\* Redis executes a command.
LEMMA ExecType ==
  ASSUME TypeInv, NEW c \in Clients, ExecCommand(c), Calm
  PROVE  TypeInv'
<1> USE DEF TypeInv
<1>1. /\ wire[c] \in Pipelines
      /\ wire[c] # <<>>
      /\ Tail(wire[c]) \in Pipelines
      /\ hand[c] \in Jobs
      /\ pc[c] \in {"idle", "sweep", "requeue"}
      /\ copy[c] \in Records
  BY PipelineTails DEF ExecCommand, ExecSet, ExecZAdd, ExecHDel, ExecLPush, ExecIncr,
     Execute, TypeOK, Coherent, Point
<1>2. /\ wire' \in [Clients -> Pipelines]
      /\ wire' = [wire EXCEPT ![c] = Tail(wire[c])]
      /\ hand' \in [Clients -> Jobs \cup {NoJob}]
      /\ copy' \in [Clients -> Records]
      /\ \A d \in Clients : hand'[d] # hand[d] => /\ d = c
                                                  /\ Tail(wire[c]) = <<>>
                                                  /\ pc[c] # "requeue"
      /\ UNCHANGED <<pc, todo, ctx, issued>>
  BY <1>1, RecordTypes DEF ExecCommand, ExecSet, ExecZAdd, ExecHDel, ExecLPush, ExecIncr,
     Execute, TypeOK, Send, Drop, Take, Load
<1>3. Coherent'
  BY <1>1, <1>2 DEF Coherent, Point, TypeOK
<1>4. /\ job' \in [Jobs -> Records]
      /\ pending' \subseteq Jobs
      /\ processing' \in [Jobs -> {"none", "fresh", "stale"}]
      /\ dead' \in [Jobs -> Nat]
      /\ stats' \in [Counters -> Int]
      /\ accepted' \subseteq Jobs
  <2>1. CASE ExecSet(c)
    BY <1>1, <2>1 DEF ExecSet, TypeOK
  <2>2. CASE ExecZAdd(c)
    BY <1>1, <2>2 DEF ExecZAdd, TypeOK
  <2>3. CASE ExecHDel(c)
    BY <1>1, <2>3 DEF ExecHDel, TypeOK
  <2>4. CASE ExecLPush(c)
    BY <1>1, <2>4 DEF ExecLPush, TypeOK
  <2>5. CASE ExecIncr(c)
    <3>1. Head(wire[c]) \in Counters
      BY <2>5 DEF ExecIncr, Execute
    <3>2. stats[Head(wire[c])] + 1 \in Int
      BY <3>1 DEF TypeOK
    <3>3. QED
      BY <2>5, <3>2 DEF ExecIncr, TypeOK
  <2>6. QED
    BY <2>1, <2>2, <2>3, <2>4, <2>5 DEF ExecCommand
<1>5. QED
  BY <1>2, <1>3, <1>4 DEF TypeOK, Calm

\* A client forgets its job after an error.
LEMMA AbandonType ==
  ASSUME TypeInv, NEW c \in Clients, Abandon(c), Calm,
         todo' \in [Pools -> SUBSET Jobs],
         UNCHANGED <<keys, ctx, issued, accepted>>
  PROVE  TypeInv'
BY PipelinesSent, RecordTypes
DEF TypeInv, Abandon, Home, Drop, Goto, Send, Take, Load, keys, TypeOK, Coherent, Calm,
    Point, ProgramPoints

\* A step of a worker.
LEMMA WorkerType ==
  ASSUME TypeInv, NEW w \in Workers, WorkerStep(w), Calm
  PROVE  TypeInv'
<1> USE DEF TypeInv
<1>0. w \in Clients
  BY ClientKinds
<1>1. CASE DequeuePop(w)
  BY <1>0, <1>1, ClientKinds, PipelinesSent, RecordTypes
  DEF DequeuePop, At, Goto, Send, Take, Load, TypeOK, Coherent, Calm,
      Point, ProgramPoints, Statuses
<1>2. CASE DequeueClaim(w)
  BY <1>0, <1>2, ClientKinds, PipelinesSent, RecordTypes
  DEF DequeueClaim, At, Goto, Send, Take, Load, TypeOK, Coherent, Calm,
      Point, ProgramPoints, Statuses
<1>3. CASE DequeueRead(w)
  <2>1. hand[w] \in Jobs /\ job[hand[w]] \in Records
    BY <1>0, <1>3 DEF DequeueRead, At, Point, TypeOK, Coherent
  <2>2. CASE job[hand[w]] = NoRecord
    <3>1. Abandon(w) /\ UNCHANGED <<keys, todo, ctx, issued, accepted>>
      BY <1>3, <2>2 DEF DequeueRead
    <3>2. QED
      BY <1>0, <3>1, AbandonType DEF TypeOK
  <2>3. CASE job[hand[w]] # NoRecord
    <3>1. WithStatus(job[hand[w]], "processing", FALSE) \in Records
      BY <2>1, RecordTypes DEF Statuses
    <3>2. QED
      BY <1>0, <1>3, <2>1, <2>3, <3>1
      DEF DequeueRead, At, Goto, Send, Take, Load, keys, TypeOK, Coherent, Calm,
        Point, ProgramPoints, Statuses
  <2>4. QED
    BY <2>2, <2>3
<1>4. CASE DequeueMark(w)
  BY <1>0, <1>4, ClientKinds, PipelinesSent, RecordTypes
  DEF DequeueMark, At, Goto, Send, Take, Load, TypeOK, Coherent, Calm,
      Point, ProgramPoints, Statuses
<1>5. CASE Run(w)
  BY <1>0, <1>5, ClientKinds, PipelinesSent, RecordTypes
  DEF Run, At, Goto, Send, Take, Load, keys, TypeOK, Coherent, Calm,
      Point, ProgramPoints, Statuses
<1>6. CASE Complete(w)
  <2>1. hand[w] \in Jobs /\ job[hand[w]] \in Records
    BY <1>0, <1>6 DEF Complete, At, Point, TypeOK, Coherent
  <2>2. CASE job[hand[w]] = NoRecord
    <3>1. Abandon(w) /\ UNCHANGED <<keys, todo, ctx, issued, accepted>>
      BY <1>6, <2>2 DEF Complete
    <3>2. QED
      BY <1>0, <3>1, AbandonType DEF TypeOK
  <2>3. CASE job[hand[w]] # NoRecord
    <3>1. WithStatus(job[hand[w]], "completed", TRUE) \in Records
      BY <2>1, RecordTypes DEF Statuses
    <3>2. QED
      BY <1>0, <1>6, <2>1, <2>3, <3>1, PipelinesSent
      DEF Complete, At, Goto, Send, Take, Load, keys, TypeOK, Coherent, Calm,
        Point, ProgramPoints, Statuses
  <2>4. QED
    BY <2>2, <2>3
<1>7. CASE Fail(w)
  <2>1. hand[w] \in Jobs /\ job[hand[w]] \in Records
    BY <1>0, <1>7 DEF Fail, At, Point, TypeOK, Coherent
  <2>2. CASE job[hand[w]] = NoRecord
    <3>1. Abandon(w) /\ UNCHANGED <<keys, todo, ctx, issued, accepted>>
      BY <1>7, <2>2 DEF Fail
    <3>2. QED
      BY <1>0, <3>1, AbandonType DEF TypeOK
  <2>3. CASE job[hand[w]] # NoRecord
    <3> DEFINE n == Failures(job[hand[w]])
    <3>1. /\ [status |-> "dead", retries |-> n, ttl |-> TRUE] \in Records
          /\ [status |-> "failed", retries |-> n, ttl |-> FALSE] \in Records
      BY <2>1, RecordTypes
    <3> DEFINE Leaves(r, p, l) ==
                 /\ copy' = [copy EXCEPT ![w] = r]
                 /\ wire' = [wire EXCEPT ![w] = p]
                 /\ pc' = [pc EXCEPT ![w] = l]
    <3>2. UNCHANGED <<keys, hand, todo, ctx, issued, accepted>>
      BY <1>7, <2>3 DEF Fail
    <3>3. ASSUME Exhausted(n)
          PROVE  \E r \in Records, p \in Pipelines, l \in {"idle", "requeue"} : Leaves(r, p, l)
      BY <1>7, <2>3, <3>1, <3>3, PipelinesSent DEF Fail, Load, Send, Goto
    <3>4. ASSUME ~Exhausted(n)
          PROVE  \E r \in Records, p \in Pipelines, l \in {"idle", "requeue"} : Leaves(r, p, l)
      BY <1>7, <2>3, <3>1, <3>4, PipelinesSent DEF Fail, Load, Send, Goto
    <3> HIDE DEF n
    <3>5. PICK r \in Records, p \in Pipelines, l \in {"idle", "requeue"} : Leaves(r, p, l)
      BY <3>3, <3>4
    <3>6. TypeOK'
      BY <1>0, <3>2, <3>5 DEF TypeOK, Calm, keys, ProgramPoints
    <3>7. Coherent'
      BY <1>0, <2>1, <3>2, <3>5 DEF TypeOK, Coherent, Point
    <3>8. QED
      BY <3>6, <3>7
  <2>4. QED
    BY <2>2, <2>3
<1>8. CASE Requeue(w)
  BY <1>0, <1>8, ClientKinds, PipelinesSent, RecordTypes
  DEF Requeue, At, Goto, Send, Take, Load, Home, keys, TypeOK, Coherent, Calm,
      Point, ProgramPoints, Statuses
<1>9. CASE ExecCommand(w)
  BY <1>0, <1>9, ExecType
<1>10. QED
  BY <1>1, <1>2, <1>3, <1>4, <1>5, <1>6, <1>7, <1>8, <1>9 DEF WorkerStep

\* A step of a sweeper.
LEMMA SweeperType ==
  ASSUME TypeInv, NEW s \in Pools, SweeperStep(s), Calm
  PROVE  TypeInv'
<1> USE DEF TypeInv
<1>0. s \in Clients
  BY ClientKinds
<1>1. CASE SweepSnapshot(s)
  BY <1>0, <1>1, ClientKinds, PipelinesSent, RecordTypes
  DEF SweepSnapshot, At, Goto, Send, Take, Load, StaleClaims, keys, TypeOK, Coherent, Calm,
      Point, ProgramPoints, Statuses
<1>2. CASE SweepRead(s)
  <2>1. PICK j \in todo[s] :
          /\ todo' = [todo EXCEPT ![s] = @ \ {j}]
          /\ IF job[j] = NoRecord
               THEN UNCHANGED <<pc, hand, copy>>
               ELSE Take(s, j) /\ Load(s, job[j]) /\ Goto(s, "hdel")
    BY <1>2 DEF SweepRead
  <2>2. j \in Jobs /\ todo[s] \subseteq Jobs
    BY <2>1 DEF TypeOK
  <2>3. todo' \in [Pools -> SUBSET Jobs]
    BY <2>1, <2>2 DEF TypeOK
  <2>4. CASE job[j] = NoRecord
    BY <1>0, <1>2, <2>1, <2>3, <2>4
    DEF SweepRead, At, Goto, Send, Take, Load, keys, TypeOK, Coherent, Calm,
        Point, ProgramPoints, Statuses
  <2>5. CASE job[j] # NoRecord
    <3>1. /\ hand' = [hand EXCEPT ![s] = j]
          /\ copy' = [copy EXCEPT ![s] = job[j]]
          /\ pc' = [pc EXCEPT ![s] = "hdel"]
          /\ UNCHANGED <<keys, wire, ctx, issued, accepted>>
      BY <1>2, <2>1, <2>5 DEF SweepRead, Take, Load, Goto
    <3>2. TypeOK'
      BY <1>0, <2>2, <2>3, <3>1 DEF TypeOK, Calm, keys, ProgramPoints
    <3>3. Coherent'
      BY <1>0, <1>2, <2>2, <3>1 DEF SweepRead, At, TypeOK, Coherent, Point
    <3>4. QED
      BY <3>2, <3>3
  <2>6. QED
    BY <2>4, <2>5
<1>3. CASE SweepRelease(s)
  BY <1>0, <1>3, ClientKinds, PipelinesSent, RecordTypes
  DEF SweepRelease, At, Goto, Send, Take, Load, TypeOK, Coherent, Calm,
      Point, ProgramPoints, Statuses
<1>4. CASE Requeue(s)
  BY <1>0, <1>4, ClientKinds, PipelinesSent, RecordTypes
  DEF Requeue, At, Goto, Send, Take, Load, Home, keys, TypeOK, Coherent, Calm,
      Point, ProgramPoints, Statuses
<1>5. CASE SweepDone(s)
  BY <1>0, <1>5, ClientKinds, PipelinesSent, RecordTypes
  DEF SweepDone, At, Goto, Send, Take, Load, keys, TypeOK, Coherent, Calm,
      Point, ProgramPoints, Statuses
<1>6. CASE ExecCommand(s)
  BY <1>0, <1>6, ExecType
<1>7. QED
  BY <1>1, <1>2, <1>3, <1>4, <1>5, <1>6 DEF SweeperStep, SweepOn

\* A step of a request under way.
LEMMA RequestType ==
  ASSUME TypeInv, NEW r \in Requests, RequestStep(r), Calm
  PROVE  TypeInv'
<1> USE DEF TypeInv
<1>0. r \in Clients
  BY ClientKinds
<1>1. CASE RetryUnlist(r)
  BY <1>0, <1>1, ClientKinds, PipelinesSent, RecordTypes
  DEF RetryUnlist, At, Goto, Send, Take, Load, TypeOK, Coherent, Calm,
      Point, ProgramPoints, Statuses
<1>2. CASE RetryCount(r)
  BY <1>0, <1>2, ClientKinds, PipelinesSent, RecordTypes
  DEF RetryCount, Counters, At, Goto, Send, Take, Load, TypeOK, Coherent, Calm,
      Point, ProgramPoints, Statuses
<1>3. CASE Enqueue(r)
  BY <1>0, <1>3, ClientKinds, PipelinesSent, RecordTypes
  DEF Enqueue, At, Goto, Send, Take, Load, keys, TypeOK, Coherent, Calm,
      Point, ProgramPoints, Statuses
<1>4. CASE ExecCommand(r)
  BY <1>0, <1>4, ExecType
<1>5. QED
  BY <1>1, <1>2, <1>3, <1>4 DEF RequestStep

\* A call of a request handler, of either kind.
LEMMA CallType ==
  ASSUME TypeInv, NEW r \in Requests, NEW j \in Jobs, UNCHANGED faults,
         Submit(r, j) \/ RetryJob(r, j)
  PROVE  TypeInv'
<1> USE DEF TypeInv
<1>0. r \in Clients
  BY ClientKinds
<1>1. CASE Submit(r, j)
  BY <1>0, <1>1, RecordTypes
  DEF Submit, At, Goto, Send, Take, Load, keys, TypeOK, Coherent,
      Point, ProgramPoints, Statuses
<1>2. CASE RetryJob(r, j)
  BY <1>0, <1>2
  DEF RetryJob, RetryRead, At, Goto, Send, Take, Load, keys, TypeOK, Coherent,
      Point, ProgramPoints, Statuses
<1>3. QED
  BY <1>1, <1>2

\* A failed call.
LEMMA ErrorType ==
  ASSUME TypeInv, NEW c \in Clients, CallError(c), faults' \in Nat, UNCHANGED retryCalls
  PROVE  TypeInv'
<1> USE DEF TypeInv
<1>1. CASE Point(c) = "mark" /\ Load(c, NoRecord) /\ Goto(c, "run") /\ UNCHANGED <<hand, wire, todo>>
  BY <1>1, RecordTypes
  DEF CallError, At, Goto, Send, Take, Load, keys, TypeOK, Coherent,
      Point, ProgramPoints, Statuses
<1>2. CASE Point(c) = "lrem" /\ Goto(c, "decr") /\ UNCHANGED <<hand, copy, wire, todo>>
  BY <1>2
  DEF CallError, At, Goto, Send, Take, Load, keys, TypeOK, Coherent,
      Point, ProgramPoints, Statuses
<1>3. CASE Point(c) = "decr" /\ Load(c, FreshJob) /\ Goto(c, "enqueue") /\ UNCHANGED <<hand, wire, todo>>
  BY <1>3, RecordTypes
  DEF CallError, At, Goto, Send, Take, Load, keys, TypeOK, Coherent,
      Point, ProgramPoints, Statuses
<1>4. CASE /\ \E j \in todo[c] : todo' = [todo EXCEPT ![c] = @ \ {j}]
           /\ UNCHANGED <<pc, hand, copy, wire>>
  BY <1>4
  DEF CallError, At, Goto, Send, Take, Load, keys, TypeOK, Coherent,
      Point, ProgramPoints, Statuses
<1>5. CASE Abandon(c) /\ UNCHANGED todo
  BY <1>5, PipelinesSent, RecordTypes
  DEF CallError, Abandon, Home, Drop, At, Goto, Send, Take, Load, keys, TypeOK, Coherent,
      Point, ProgramPoints, Statuses
<1>6. QED
  BY <1>1, <1>2, <1>3, <1>4, <1>5 DEF CallError

\* A killed process.
LEMMA CrashType ==
  ASSUME TypeInv, NEW p \in Pools \cup Requests, Crash(p), faults' \in Nat, UNCHANGED retryCalls
  PROVE  TypeInv'
BY PipelinesSent, RecordTypes
DEF TypeInv, Crash, At, Goto, Send, Take, Load, keys, TypeOK, Coherent,
      Point, ProgramPoints, Statuses

\* Time passing, a signal, and a new process.
LEMMA TimeType ==
  ASSUME TypeInv, faults' \in Nat, UNCHANGED retryCalls,
         \/ \E j \in Jobs : GoStale(j) \/ Expire(j) \/ Overrun(j)
         \/ \E p \in Pools : Shutdown(p) \/ Restart(p)
  PROVE  TypeInv'
<1>1. ASSUME NEW j \in Jobs, GoStale(j) \/ Overrun(j) PROVE TypeInv'
  BY <1>1 DEF TypeInv, GoStale, Overrun, memory, TypeOK, Coherent, Point
<1>2. ASSUME NEW j \in Jobs, Expire(j) PROVE TypeInv'
  BY <1>2, RecordTypes DEF TypeInv, Expire, memory, TypeOK, Coherent, Point
<1>3. ASSUME NEW p \in Pools, Shutdown(p) \/ Restart(p) PROVE TypeInv'
  BY <1>3 DEF TypeInv, Shutdown, Restart, keys, memory, TypeOK, Coherent, Point
<1>4. QED
  BY <1>1, <1>2, <1>3

LEMMA TypeNext == TypeInv /\ [Next]_vars => TypeInv'
<1> SUFFICES ASSUME TypeInv, [Next]_vars PROVE TypeInv'
  OBVIOUS
<1>1. ASSUME NEW w \in Workers, DequeueEmpty(w), Calm PROVE TypeInv'
  BY <1>1 DEF DequeueEmpty, Calm, qvars, keys, memory, TypeInv, TypeOK, Coherent, Point
<1>2. ASSUME Fault PROVE faults' \in Nat
  BY <1>2 DEF Fault, TypeInv, TypeOK
<1>3. ASSUME Calm PROVE faults' \in Nat /\ UNCHANGED retryCalls
  BY <1>3 DEF Calm, TypeInv, TypeOK
<1>4. ASSUME NEW w \in Workers, WorkerStep(w), Calm PROVE TypeInv'
  BY <1>4, WorkerType
<1>5. ASSUME NEW s \in Pools, SweeperStep(s), Calm PROVE TypeInv'
  BY <1>5, SweeperType
<1>6. ASSUME NEW r \in Requests, RequestStep(r), Calm PROVE TypeInv'
  BY <1>6, RequestType
<1>7. ASSUME NEW r \in Requests, NEW j \in Jobs, UNCHANGED faults,
             Submit(r, j) \/ RetryJob(r, j)
      PROVE  TypeInv'
  BY <1>7, CallType
<1>8. ASSUME NEW j \in Jobs, (GoStale(j) \/ Expire(j)) /\ Calm
      PROVE  TypeInv'
  BY <1>3, <1>8, TimeType
<1>9. ASSUME NEW j \in Jobs, Overrun(j) /\ Fault /\ UNCHANGED retryCalls
      PROVE  TypeInv'
  BY <1>2, <1>9, TimeType
<1>10. ASSUME NEW c \in Clients, RedisError(c) /\ Fault /\ UNCHANGED retryCalls
       PROVE  TypeInv'
  BY <1>2, <1>10, ErrorType DEF RedisError
<1>11. ASSUME NEW p \in Pools \cup Requests, Crash(p) /\ Fault /\ UNCHANGED retryCalls
       PROVE  TypeInv'
  BY <1>2, <1>11, CrashType
<1>12. ASSUME NEW p \in Pools, Shutdown(p) /\ Fault /\ UNCHANGED retryCalls
       PROVE  TypeInv'
  BY <1>2, <1>12, TimeType
<1>13. ASSUME NEW p \in Pools, Restart(p) /\ Calm PROVE TypeInv'
  BY <1>3, <1>13, TimeType
<1>14. ASSUME NEW c \in Workers \cup Pools, CtxError(c) /\ Calm PROVE TypeInv'
  BY <1>3, <1>14, ErrorType, ClientKinds DEF CtxError
<1>15. CASE UNCHANGED vars
  BY <1>15 DEF vars, qvars, keys, memory, TypeInv, TypeOK, Coherent, Point
<1>16. CASE \/ \E w \in Workers : (DequeueEmpty(w) \/ WorkerStep(w)) /\ Calm
            \/ \E s \in Pools : SweeperStep(s) /\ Calm
            \/ \E r \in Requests : RequestStep(r) /\ Calm
            \/ \E r \in Requests, j \in Jobs : Submit(r, j) /\ UNCHANGED faults
            \/ \E r \in Requests, j \in Jobs : RetryJob(r, j) /\ UNCHANGED faults
  BY <1>1, <1>4, <1>5, <1>6, <1>7, <1>16
<1>17. CASE \/ \E j \in Jobs : (GoStale(j) \/ Expire(j)) /\ Calm
            \/ \E j \in Jobs : Overrun(j) /\ Fault /\ UNCHANGED retryCalls
            \/ \E c \in Clients : RedisError(c) /\ Fault /\ UNCHANGED retryCalls
            \/ \E p \in Pools \cup Requests : Crash(p) /\ Fault /\ UNCHANGED retryCalls
            \/ \E p \in Pools : Shutdown(p) /\ Fault /\ UNCHANGED retryCalls
            \/ \E c \in Workers \cup Pools : CtxError(c) /\ Calm
            \/ \E p \in Pools : Restart(p) /\ Calm
  BY <1>8, <1>9, <1>10, <1>11, <1>12, <1>14, <1>17, <1>13
<1>18. QED
  BY <1>15, <1>16, <1>17 DEF Next, Continue, SweeperStep

\* Every reachable state is type correct, whatever fails: the queue's keys and
\* the memory of every client keep their shape (RedisQueue, Worker, Pool, Handler).
THEOREM TypeCorrect == Spec => []TypeOK
<1>1. TypeInv => TypeOK
  BY DEF TypeInv
<1>2. QED
  BY <1>1, TypeInit, TypeNext, PTL DEF Spec

-----------------------------------------------------------------------------
(***************************************************************************)
(* No job is lost.  With crashes and errors kept away from the points      *)
(* where a client carries a job, a claim is never what keeps a job alive:  *)
(* the stronger Accounted, which does not mention queue:processing, is     *)
(* inductive.  Claims may turn stale at any time, any number of sweepers   *)
(* may race with the workers, and pipelines may be interleaved.            *)
(***************************************************************************)

\* The failures left: an error the code ignores (Dequeue's last SET, LREM, DECR)
\* or skips (an entry of RecoverStale), and a crash with no job in flight.
Mild ==
  /\ ErrorAt \subseteq {"mark", "lrem", "decr", "sweep"}
  /\ CrashAt \subseteq {"idle", "lrem", "decr", "sweep"}
  /\ ~Shutdowns

\* A pipeline that settles a job carries its final status, and Requeue follows
\* the pipeline of Fail.
Faithful ==
  \A c \in Clients :
    /\ wire[c] = CompletePipe => copy[c].status = "completed"
    /\ wire[c] = DeadPipe => copy[c].status = "dead"
    /\ wire[c] = FailPipe => pc[c] = "requeue"

AllLive == \A p \in Pools : ctx[p] = "live"

Kept(j) == Settled(j) \/ j \in pending

Accounted == \A j \in accepted : Kept(j) \/ \E c \in Clients : Carries(c, j)

AccountInv == TypeInv /\ Faithful /\ AllLive /\ Accounted

\* The pipelines and the empty one differ.
LEMMA PipelinesDiffer ==
  /\ <<>> \notin {EnqueuePipe, CompletePipe, FailPipe, DeadPipe, <<"ZADD">>}
  /\ EnqueuePipe \notin {CompletePipe, FailPipe, DeadPipe, <<"ZADD">>}
  /\ CompletePipe \notin {FailPipe, DeadPipe, <<"ZADD">>}
  /\ FailPipe \notin {DeadPipe, <<"ZADD">>}
  /\ DeadPipe # <<"ZADD">>
BY DEF EnqueuePipe, CompletePipe, FailPipe, DeadPipe

\* A step of client c keeps every job accounted for if it does so for the jobs
\* that c carried, the settled ones and the pending ones.
LEMMA KeepAccount ==
  ASSUME Accounted, NEW c \in Clients,
         \A d \in Clients \ {c} : /\ hand'[d] = hand[d]
                                  /\ pc'[d] = pc[d]
                                  /\ wire'[d] = wire[d],
         \A j \in accepted : Kept(j) \/ Carries(c, j) => (Kept(j) \/ Carries(c, j))',
         accepted' \subseteq accepted \cup pending'
  PROVE  Accounted'
<1> SUFFICES ASSUME NEW j \in accepted'
             PROVE  (Kept(j) \/ \E d \in Clients : Carries(d, j))'
  BY DEF Accounted
<1>1. CASE j \notin accepted
  BY <1>1 DEF Kept
<1>2. CASE j \in accepted /\ (Kept(j) \/ Carries(c, j))
  BY <1>2
<1>3. ASSUME NEW d \in Clients \ {c}, Carries(d, j) PROVE Carries(d, j)'
  BY <1>3 DEF Carries
<1>4. QED
  BY <1>1, <1>2, <1>3 DEF Accounted

\* The same for a step that leaves the records and the pending set alone.
LEMMA KeepInMemory ==
  ASSUME Accounted, NEW c \in Clients,
         \A d \in Clients \ {c} : /\ hand'[d] = hand[d]
                                  /\ pc'[d] = pc[d]
                                  /\ wire'[d] = wire[d],
         UNCHANGED <<job, pending, accepted>>,
         \A j \in Jobs : Carries(c, j) => Kept(j) \/ Carries(c, j)',
         accepted \subseteq Jobs
  PROVE  Accounted'
<1>1. \A j \in accepted : Kept(j)' <=> Kept(j)
  BY DEF Kept, Settled
<1>2. \A j \in accepted : Kept(j) \/ Carries(c, j) => (Kept(j) \/ Carries(c, j))'
  BY <1>1
<1>3. QED
  BY <1>2, KeepAccount

LEMMA AccountInit == Init => AccountInv
<1> SUFFICES ASSUME Init PROVE AccountInv
  OBVIOUS
<1>1. TypeInv
  BY TypeInit
<1>2. Faithful
  BY PipelinesDiffer DEF Init, Faithful
<1>3. AllLive /\ Accounted
  BY DEF Init, AllLive, Accounted
<1>4. QED
  BY <1>1, <1>2, <1>3 DEF AccountInv

\* Redis executes a command.
LEMMA ExecAccount ==
  ASSUME AccountInv, NEW c \in Clients, ExecCommand(c)
  PROVE  Faithful' /\ AllLive' /\ Accounted'
<1> USE DEF AccountInv
<1> DEFINE p == wire[c]
<1>1. /\ p \in Pipelines /\ p # <<>>
      /\ hand[c] \in Jobs
      /\ pc[c] \in {"idle", "sweep", "requeue"}
  BY DEF TypeInv, ExecCommand, ExecSet, ExecZAdd, ExecHDel, ExecLPush, ExecIncr,
     Execute, TypeOK, Coherent, Point
<1>2. /\ wire' = [wire EXCEPT ![c] = Tail(p)]
      /\ \A d \in Clients \ {c} : hand'[d] = hand[d] /\ copy'[d] = copy[d]
      /\ \/ Tail(p) = <<>> /\ pc[c] # "requeue"
         \/ UNCHANGED <<hand, copy>>
      /\ UNCHANGED <<pc, todo, ctx, issued>>
  BY DEF ExecCommand, ExecSet, ExecZAdd, ExecHDel, ExecLPush, ExecIncr,
     Execute, TypeInv, TypeOK, Send, Drop, Take, Load
<1>3. Tail(p) \notin {EnqueuePipe, CompletePipe, FailPipe, DeadPipe}
  BY <1>1, PipelineTails
<1>4. Faithful' /\ AllLive'
  BY <1>2, <1>3 DEF Faithful, AllLive, TypeInv, TypeOK
<1>5. PICK j \in Jobs : j = hand[c]
  BY <1>1
<1>6. /\ wire'[c] = Tail(p)
      /\ \A d \in Clients \ {c} : /\ hand'[d] = hand[d]
                                  /\ pc'[d] = pc[d]
                                  /\ wire'[d] = wire[d]
      /\ \A i \in accepted : Carries(c, i) => i = j
  BY <1>2, <1>5 DEF TypeInv, TypeOK, Carries
<1> SUFFICES Accounted'
  BY <1>4
<1>7. CASE ExecSet(c)
  <2>1. /\ p \in {EnqueuePipe, CompletePipe, FailPipe, DeadPipe}
        /\ p = EnqueuePipe => Tail(p) = <<"ZADD">>
    BY <1>1, <1>7, PipelineTails DEF ExecSet, Execute
  <2>2. job' = [job EXCEPT ![j] = copy[c]] /\ UNCHANGED <<pending, accepted>>
    BY <1>7, <1>5 DEF ExecSet
  <2>3. Tail(p) # <<>>
    BY <1>1, <2>1, PipelineTails
  <2>4. hand'[c] = j
    BY <1>2, <1>5, <2>3
  <2>5. Settled(j)' \/ Carries(c, j)'
    <3>1. CASE p = EnqueuePipe
      BY <1>6, <2>1, <2>4, <3>1 DEF Carries
    <3>2. CASE p = FailPipe
      BY <1>2, <2>4, <3>2 DEF Carries, Faithful
    <3>3. CASE p = CompletePipe \/ p = DeadPipe
      <4>1. copy[c].status \in {"completed", "dead"}
        BY <3>3 DEF Faithful
      <4>2. job'[j] = copy[c]
        BY <2>2 DEF TypeInv, TypeOK
      <4>3. QED
        BY <4>1, <4>2 DEF Settled
    <3>4. QED
      BY <2>1, <3>1, <3>2, <3>3
  <2>6. \A i \in accepted \ {j} : Kept(i) => Kept(i)'
    BY <2>2 DEF Kept, Settled, TypeInv, TypeOK
  <2>7. \A i \in accepted : Kept(i) \/ Carries(c, i) => (Kept(i) \/ Carries(c, i))'
    BY <1>6, <2>5, <2>6 DEF Kept
  <2>8. QED
    BY <1>6, <2>2, <2>7, KeepAccount
<1>8. CASE ExecZAdd(c)
  <2>1. pending' = pending \cup {j} /\ accepted' = accepted \cup {j} /\ UNCHANGED job
    BY <1>8, <1>5 DEF ExecZAdd
  <2>2. \A i \in accepted : Kept(i) \/ Carries(c, i) => Kept(i)'
    BY <1>6, <2>1 DEF Kept, Settled
  <2>3. QED
    BY <1>6, <2>1, <2>2, KeepAccount
<1>9. CASE ExecHDel(c) \/ ExecLPush(c) \/ ExecIncr(c)
  <2>1. UNCHANGED <<job, pending, accepted>>
    BY <1>9 DEF ExecHDel, ExecLPush, ExecIncr
  <2>2. p \notin {EnqueuePipe, CompletePipe, DeadPipe, <<"ZADD">>}
    BY <1>9 DEF ExecHDel, ExecLPush, ExecIncr, Execute, Counters,
       EnqueuePipe, CompletePipe, DeadPipe
  <2>3. Carries(c, j) => Carries(c, j)'
    BY <1>1, <1>2, <2>2 DEF Carries
  <2>4. \A i \in accepted : Kept(i) => Kept(i)'
    BY <2>1 DEF Kept, Settled
  <2>5. \A i \in accepted : Kept(i) \/ Carries(c, i) => (Kept(i) \/ Carries(c, i))'
    BY <1>6, <2>3, <2>4
  <2>6. QED
    BY <1>6, <2>1, <2>5, KeepAccount
<1>10. QED
  BY <1>7, <1>8, <1>9 DEF ExecCommand

\* A client that forgets a job whose record is gone, or that it did not carry.
LEMMA AbandonAccount ==
  ASSUME AccountInv, NEW c \in Clients, Abandon(c),
         UNCHANGED <<keys, ctx, accepted>>,
         \A j \in Jobs : Carries(c, j) => job[j] = NoRecord
  PROVE  Faithful' /\ AllLive' /\ Accounted'
<1> USE DEF AccountInv, TypeInv
<1>1. Faithful' /\ AllLive'
  BY PipelinesDiffer DEF Abandon, Drop, Goto, Send, Take, Load, Faithful, AllLive, TypeOK
<1>2. \A d \in Clients \ {c} : /\ hand'[d] = hand[d]
                               /\ pc'[d] = pc[d]
                               /\ wire'[d] = wire[d]
  BY DEF Abandon, Drop, Goto, Send, Take, TypeOK
<1>3. \A j \in Jobs : Carries(c, j) => Kept(j)
  BY DEF Kept, Settled, NoRecord
<1>4. QED
  BY <1>1, <1>2, <1>3, KeepInMemory DEF keys, TypeOK

\* Requeue, called by a worker or by a sweeper.
LEMMA RequeueAccount ==
  ASSUME AccountInv, NEW c \in Clients, Requeue(c)
  PROVE  Faithful' /\ AllLive' /\ Accounted'
<1> USE DEF AccountInv, TypeInv
<1>1. /\ wire' = [wire EXCEPT ![c] = EnqueuePipe]
      /\ \A d \in Clients \ {c} : copy'[d] = copy[d] /\ pc'[d] = pc[d]
      /\ UNCHANGED <<keys, hand, ctx, accepted>>
  BY DEF Requeue, Send, Load, Goto, TypeOK
<1>2. \A i \in Jobs : Carries(c, i) => Carries(c, i)'
  BY <1>1 DEF Carries, TypeOK
<1>3. Accounted'
  BY <1>1, <1>2, KeepInMemory DEF keys, TypeOK
<1>4. QED
  BY <1>1, <1>3, PipelinesDiffer DEF Faithful, AllLive, TypeOK

\* A step of a worker.
LEMMA WorkerAccount ==
  ASSUME AccountInv, NEW w \in Workers, WorkerStep(w)
  PROVE  Faithful' /\ AllLive' /\ Accounted'
<1> USE DEF AccountInv, TypeInv
<1>0. w \in Clients
  BY ClientKinds
<1>1. CASE DequeuePop(w)
  <2>1. PICK j \in pending : pending' = pending \ {j} /\ Take(w, j)
    BY <1>1 DEF DequeuePop
  <2>2. Carries(w, j)'
    BY <1>0, <1>1, <2>1 DEF DequeuePop, At, Goto, Take, Carries, TypeOK
  <2>3. \A i \in Jobs : ~Carries(w, i)
    BY <1>1, PipelinesDiffer DEF DequeuePop, At, Carries
  <2>4. \A i \in accepted : Kept(i) \/ Carries(w, i) => (Kept(i) \/ Carries(w, i))'
    BY <1>1, <2>1, <2>2, <2>3 DEF DequeuePop, Kept, Settled, TypeOK
  <2>5. Accounted'
    BY <1>0, <1>1, <2>1, <2>4, KeepAccount DEF DequeuePop, Goto, Take, TypeOK
  <2>6. QED
    BY <1>0, <1>1, <2>5 DEF DequeuePop, At, Goto, Faithful, AllLive, TypeOK
<1>2. CASE DequeueClaim(w)
  <2>1. \A i \in Jobs : Carries(w, i) => Carries(w, i)'
    BY <1>0, <1>2 DEF DequeueClaim, At, Goto, Carries, TypeOK
  <2>2. Accounted'
    BY <1>0, <1>2, <2>1, KeepInMemory DEF DequeueClaim, Goto, TypeOK
  <2>3. QED
    BY <1>0, <1>2, <2>2, PipelinesDiffer DEF DequeueClaim, At, Goto, Faithful, AllLive, TypeOK
<1>3. CASE DequeueRead(w)
  <2>1. CASE job[hand[w]] = NoRecord
    BY <1>0, <1>3, <2>1, AbandonAccount DEF DequeueRead, Carries
  <2>2. CASE job[hand[w]] # NoRecord
    <3>1. \A i \in Jobs : Carries(w, i) => Carries(w, i)'
      BY <1>0, <1>3, <2>2 DEF DequeueRead, At, Goto, Carries, TypeOK
    <3>2. Accounted'
      BY <1>0, <1>3, <2>2, <3>1, KeepInMemory DEF DequeueRead, Goto, keys, TypeOK
    <3>3. QED
      BY <1>0, <1>3, <2>2, <3>2, PipelinesDiffer
      DEF DequeueRead, At, Goto, Load, Faithful, AllLive, TypeOK
  <2>3. QED
    BY <2>1, <2>2
<1>4. CASE DequeueMark(w)
  <2>1. PICK j \in Jobs : j = hand[w]
    BY <1>0, <1>4 DEF DequeueMark, At, Coherent, Point
  <2>2. Carries(w, j)'
    BY <1>0, <1>4, <2>1 DEF DequeueMark, At, Goto, Carries, TypeOK
  <2>3. \A i \in accepted : i # j => (Carries(w, i) <=> FALSE) /\ (Kept(i) => Kept(i)')
    BY <1>4, <2>1 DEF DequeueMark, Carries, Kept, Settled, TypeOK
  <2>4. \A i \in accepted : Kept(i) \/ Carries(w, i) => (Kept(i) \/ Carries(w, i))'
    BY <2>2, <2>3
  <2>5. Accounted'
    BY <1>0, <1>4, <2>4, KeepAccount DEF DequeueMark, Goto, TypeOK
  <2>6. QED
    BY <1>0, <1>4, <2>5, PipelinesDiffer DEF DequeueMark, At, Goto, Load, Faithful, AllLive, TypeOK
<1>5. CASE Run(w)
  <2>1. \A i \in Jobs : Carries(w, i) => Carries(w, i)'
    BY <1>0, <1>5 DEF Run, Goto, Carries, TypeOK
  <2>2. Accounted'
    BY <1>0, <1>5, <2>1, KeepInMemory DEF Run, Goto, keys, TypeOK
  <2>3. wire[w] = <<>>
    BY <1>0, <1>5 DEF Run, Coherent
  <2>4. QED
    BY <1>0, <1>5, <2>2, <2>3, PipelinesDiffer DEF Run, Goto, Faithful, AllLive, TypeOK
<1>6. CASE Complete(w)
  <2>1. CASE job[hand[w]] = NoRecord
    BY <1>0, <1>6, <2>1, AbandonAccount DEF Complete, Carries
  <2>2. CASE job[hand[w]] # NoRecord
    <3>1. /\ wire' = [wire EXCEPT ![w] = CompletePipe]
          /\ copy' = [copy EXCEPT ![w] = WithStatus(job[hand[w]], "completed", TRUE)]
          /\ pc' = [pc EXCEPT ![w] = "idle"]
          /\ UNCHANGED <<keys, hand, ctx, accepted>>
      BY <1>6, <2>2 DEF Complete, Send, Load, Goto
    <3>2. \A i \in Jobs : Carries(w, i) => Carries(w, i)'
      BY <1>0, <3>1 DEF Carries, TypeOK
    <3>3. Accounted'
      BY <1>0, <3>1, <3>2, KeepInMemory DEF keys, TypeOK
    <3>4. QED
      BY <1>0, <3>1, <3>3, PipelinesDiffer DEF WithStatus, Faithful, AllLive, TypeOK
  <2>3. QED
    BY <2>1, <2>2
<1>7. CASE Fail(w)
  <2>1. CASE job[hand[w]] = NoRecord
    BY <1>0, <1>7, <2>1, AbandonAccount DEF Fail, Carries
  <2>2. CASE job[hand[w]] # NoRecord /\ Exhausted(Failures(job[hand[w]]))
    <3>1. PICK r : /\ r.status = "dead"
                   /\ copy' = [copy EXCEPT ![w] = r]
      BY <1>7, <2>2 DEF Fail, Load
    <3>2. /\ wire' = [wire EXCEPT ![w] = DeadPipe]
          /\ pc' = [pc EXCEPT ![w] = "idle"]
          /\ UNCHANGED <<keys, hand, ctx, accepted>>
      BY <1>7, <2>2 DEF Fail, Send, Goto
    <3>3. \A i \in Jobs : Carries(w, i) => Carries(w, i)'
      BY <1>0, <3>2 DEF Carries, TypeOK
    <3>4. Accounted'
      BY <1>0, <3>2, <3>3, KeepInMemory DEF keys, TypeOK
    <3>5. QED
      BY <1>0, <3>1, <3>2, <3>4, PipelinesDiffer DEF Faithful, AllLive, TypeOK
  <2>3. CASE job[hand[w]] # NoRecord /\ ~Exhausted(Failures(job[hand[w]]))
    <3>1. /\ wire' = [wire EXCEPT ![w] = FailPipe]
          /\ pc' = [pc EXCEPT ![w] = "requeue"]
          /\ \A d \in Clients \ {w} : copy'[d] = copy[d]
          /\ UNCHANGED <<keys, hand, ctx, accepted>>
      BY <1>7, <2>3 DEF Fail, Send, Load, Goto, TypeOK
    <3>2. \A i \in Jobs : Carries(w, i) => Carries(w, i)'
      BY <1>0, <3>1 DEF Carries, TypeOK
    <3>3. Accounted'
      BY <1>0, <3>1, <3>2, KeepInMemory DEF keys, TypeOK
    <3>4. QED
      BY <1>0, <3>1, <3>3, PipelinesDiffer DEF Faithful, AllLive, TypeOK
  <2>4. QED
    BY <2>1, <2>2, <2>3
<1>8. CASE Requeue(w)
  BY <1>0, <1>8, RequeueAccount
<1>9. CASE ExecCommand(w)
  BY <1>0, <1>9, ExecAccount
<1>10. QED
  BY <1>1, <1>2, <1>3, <1>4, <1>5, <1>6, <1>7, <1>8, <1>9 DEF WorkerStep

\* A step of a sweeper.
LEMMA SweeperAccount ==
  ASSUME AccountInv, NEW s \in Pools, SweeperStep(s)
  PROVE  Faithful' /\ AllLive' /\ Accounted'
<1> USE DEF AccountInv, TypeInv
<1>0. s \in Clients
  BY ClientKinds
<1>1. CASE SweepSnapshot(s)
  <2>1. \A i \in Jobs : Carries(s, i) => Kept(i) \/ Carries(s, i)'
    BY <1>0, <1>1, PipelinesDiffer DEF SweepSnapshot, At, Goto, Send, Take, Carries, TypeOK
  <2>2. Accounted'
    BY <1>0, <1>1, <2>1, KeepInMemory DEF SweepSnapshot, Goto, Send, Take, keys, TypeOK
  <2>3. QED
    BY <1>0, <1>1, <2>2, PipelinesDiffer
    DEF SweepSnapshot, At, Goto, Send, Load, Faithful, AllLive, TypeOK
<1>2. CASE SweepRead(s)
  <2>1. \A i \in Jobs : Carries(s, i) => Kept(i) \/ Carries(s, i)'
    BY <1>0, <1>2, PipelinesDiffer DEF SweepRead, At, Goto, Send, Take, Carries, TypeOK
  <2>2. Accounted'
    BY <1>0, <1>2, <2>1, KeepInMemory DEF SweepRead, Goto, Send, Take, keys, TypeOK
  <2>3. QED
    BY <1>0, <1>2, <2>2, PipelinesDiffer
    DEF SweepRead, At, Goto, Send, Load, Faithful, AllLive, TypeOK
<1>3. CASE SweepRelease(s)
  <2>1. \A i \in Jobs : Carries(s, i) => Kept(i) \/ Carries(s, i)'
    BY <1>0, <1>3, PipelinesDiffer DEF SweepRelease, At, Goto, Send, Take, Carries, TypeOK
  <2>2. Accounted'
    BY <1>0, <1>3, <2>1, KeepInMemory DEF SweepRelease, Goto, Send, Take, keys, TypeOK
  <2>3. QED
    BY <1>0, <1>3, <2>2, PipelinesDiffer
    DEF SweepRelease, At, Goto, Send, Load, Faithful, AllLive, TypeOK
<1>4. CASE Requeue(s)
  BY <1>0, <1>4, RequeueAccount
<1>5. CASE SweepDone(s)
  <2>1. \A i \in Jobs : Carries(s, i) => Kept(i) \/ Carries(s, i)'
    BY <1>0, <1>5, PipelinesDiffer DEF SweepDone, At, Goto, Send, Take, Carries, TypeOK
  <2>2. Accounted'
    BY <1>0, <1>5, <2>1, KeepInMemory DEF SweepDone, Goto, Send, Take, keys, TypeOK
  <2>3. QED
    BY <1>0, <1>5, <2>2, PipelinesDiffer
    DEF SweepDone, At, Goto, Send, Load, Faithful, AllLive, TypeOK
<1>6. CASE ExecCommand(s)
  BY <1>0, <1>6, ExecAccount
<1>7. QED
  BY <1>1, <1>2, <1>3, <1>4, <1>5, <1>6 DEF SweeperStep, SweepOn

\* A step of a request under way.
LEMMA RequestAccount ==
  ASSUME AccountInv, NEW r \in Requests, RequestStep(r)
  PROVE  Faithful' /\ AllLive' /\ Accounted'
<1> USE DEF AccountInv, TypeInv
<1>0. r \in Clients
  BY ClientKinds
<1>1. CASE RetryUnlist(r)
  <2>1. \A i \in Jobs : Carries(r, i) => Kept(i) \/ Carries(r, i)'
    BY <1>0, <1>1, PipelinesDiffer DEF RetryUnlist, At, Goto, Send, Take, Carries, TypeOK
  <2>2. Accounted'
    BY <1>0, <1>1, <2>1, KeepInMemory DEF RetryUnlist, Goto, Send, Take, keys, TypeOK
  <2>3. QED
    BY <1>0, <1>1, <2>2, PipelinesDiffer
    DEF RetryUnlist, At, Goto, Send, Load, Faithful, AllLive, TypeOK
<1>2. CASE RetryCount(r)
  <2>1. \A i \in Jobs : Carries(r, i) => Kept(i) \/ Carries(r, i)'
    BY <1>0, <1>2, PipelinesDiffer DEF RetryCount, At, Goto, Send, Take, Carries, TypeOK
  <2>2. Accounted'
    BY <1>0, <1>2, <2>1, KeepInMemory DEF RetryCount, Goto, Send, Take, keys, TypeOK
  <2>3. QED
    BY <1>0, <1>2, <2>2, PipelinesDiffer
    DEF RetryCount, At, Goto, Send, Load, Faithful, AllLive, TypeOK
<1>3. CASE Enqueue(r)
  <2>1. \A i \in Jobs : Carries(r, i) => Kept(i) \/ Carries(r, i)'
    BY <1>0, <1>3, PipelinesDiffer DEF Enqueue, At, Goto, Send, Take, Carries, TypeOK
  <2>2. Accounted'
    BY <1>0, <1>3, <2>1, KeepInMemory DEF Enqueue, Goto, Send, Take, keys, TypeOK
  <2>3. QED
    BY <1>0, <1>3, <2>2, PipelinesDiffer
    DEF Enqueue, At, Goto, Send, Load, Faithful, AllLive, TypeOK
<1>4. CASE ExecCommand(r)
  BY <1>0, <1>4, ExecAccount
<1>5. QED
  BY <1>1, <1>2, <1>3, <1>4 DEF RequestStep

\* A call of a request handler, of either kind.
LEMMA CallAccount ==
  ASSUME AccountInv, NEW r \in Requests, NEW j \in Jobs, Submit(r, j) \/ RetryJob(r, j)
  PROVE  Faithful' /\ AllLive' /\ Accounted'
<1> USE DEF AccountInv, TypeInv
<1>0. r \in Clients
  BY ClientKinds
<1>1. CASE Submit(r, j)
  <2>1. \A i \in Jobs : Carries(r, i) => Kept(i) \/ Carries(r, i)'
    BY <1>0, <1>1, PipelinesDiffer DEF Submit, At, Goto, Send, Take, Carries, TypeOK
  <2>2. Accounted'
    BY <1>0, <1>1, <2>1, KeepInMemory DEF Submit, Goto, Send, Take, keys, TypeOK
  <2>3. QED
    BY <1>0, <1>1, <2>2, PipelinesDiffer
    DEF Submit, At, Goto, Send, Load, Faithful, AllLive, TypeOK
<1>2. CASE RetryJob(r, j)
  <2>1. \A i \in Jobs : Carries(r, i) => Kept(i) \/ Carries(r, i)'
    BY <1>0, <1>2, PipelinesDiffer DEF RetryJob, RetryRead, At, Goto, Send, Take, Carries, TypeOK
  <2>2. Accounted'
    BY <1>0, <1>2, <2>1, KeepInMemory DEF RetryJob, RetryRead, Goto, Send, Take, keys, TypeOK
  <2>3. QED
    BY <1>0, <1>2, <2>2, PipelinesDiffer
    DEF RetryJob, RetryRead, At, Goto, Send, Load, Faithful, AllLive, TypeOK
<1>3. QED
  BY <1>1, <1>2

\* A failed call, of the kinds that Mild leaves.
LEMMA ErrorAccount ==
  ASSUME AccountInv, Mild, NEW c \in Clients, RedisError(c)
  PROVE  Faithful' /\ AllLive' /\ Accounted'
<1> USE DEF AccountInv, TypeInv
<1>1. Point(c) \in {"mark", "lrem", "decr", "sweep"} /\ wire[c] = <<>> /\ CallError(c)
  BY DEF RedisError, Mild, Point
<1>2. /\ \A d \in Clients \ {c} : /\ hand'[d] = hand[d]
                                  /\ pc'[d] = pc[d]
                                  /\ wire'[d] = wire[d]
                                  /\ copy'[d] = copy[d]
      /\ pc'[c] \in {"run", "decr", "enqueue", "sweep"}
      /\ pc[c] = "mark" => pc'[c] = "run"
      /\ UNCHANGED <<keys, hand, wire, ctx, accepted>>
  BY <1>1 DEF CallError, Goto, Load, Point, TypeOK
<1>3. \A i \in Jobs : Carries(c, i) => Carries(c, i)'
  BY <1>1, <1>2, PipelinesDiffer DEF Carries, Point
<1>4. Accounted'
  BY <1>2, <1>3, KeepInMemory DEF keys, TypeOK
<1>5. QED
  BY <1>1, <1>2, <1>4, PipelinesDiffer DEF Faithful, AllLive

\* A crash of a process that carries no job.
LEMMA CrashAccount ==
  ASSUME AccountInv, Mild, NEW p \in Pools \cup Requests, Crash(p)
  PROVE  Faithful' /\ AllLive' /\ Accounted'
<1> USE DEF AccountInv, TypeInv
<1>1. Faithful' /\ AllLive'
  BY PipelinesDiffer DEF Crash, Faithful, AllLive, TypeOK
<1>2. \A c \in Process(p), j \in Jobs : c \in Clients => ~Carries(c, j)
  BY PipelinesDiffer DEF Crash, Mild, Point, Carries
<1>3. \A c \in Clients \ Process(p), j \in Jobs : Carries(c, j) => Carries(c, j)'
  BY DEF Crash, Carries
<1>4. \A j \in accepted : Kept(j) => Kept(j)'
  BY DEF Crash, keys, Kept, Settled
<1>5. Accounted'
  BY <1>2, <1>3, <1>4 DEF Accounted, Crash, TypeOK
<1>6. QED
  BY <1>1, <1>5

\* Time passing.
LEMMA TimeAccount ==
  ASSUME AccountInv, NEW j \in Jobs, GoStale(j) \/ Expire(j) \/ Overrun(j)
  PROVE  Faithful' /\ AllLive' /\ Accounted'
<1> USE DEF AccountInv, TypeInv
<1>1. UNCHANGED <<pc, hand, copy, wire, ctx, pending, accepted>>
  BY DEF GoStale, Expire, Overrun, memory
<1>2. \A i \in accepted : Kept(i) => Kept(i)'
  BY <1>1 DEF GoStale, Expire, Overrun, Kept, Settled, NoRecord, TypeOK
<1>3. \A c \in Clients, i \in Jobs : Carries(c, i) => Carries(c, i)'
  BY <1>1 DEF Carries
<1>4. Accounted'
  BY <1>1, <1>2, <1>3 DEF Accounted, TypeOK
<1>5. QED
  BY <1>1, <1>4 DEF Faithful, AllLive

LEMMA AccountNext == Mild /\ AccountInv /\ [Next]_vars => AccountInv'
<1> SUFFICES ASSUME Mild, AccountInv, [Next]_vars PROVE AccountInv'
  OBVIOUS
<1>1. TypeInv'
  BY TypeNext DEF AccountInv
<1> SUFFICES Faithful' /\ AllLive' /\ Accounted'
  BY <1>1 DEF AccountInv
<1>2. CASE UNCHANGED qvars
  BY <1>2 DEF qvars, keys, memory, AccountInv, Faithful, AllLive, Accounted, Kept, Settled, Carries
<1>3. ASSUME NEW w \in Workers, DequeueEmpty(w) \/ WorkerStep(w)
      PROVE  Faithful' /\ AllLive' /\ Accounted'
  BY <1>2, <1>3, WorkerAccount DEF DequeueEmpty
<1>4. ASSUME NEW p \in Pools, Shutdown(p) \/ Restart(p)
      PROVE  FALSE
  BY <1>4 DEF Shutdown, Restart, Mild, AccountInv, AllLive
<1>5. ASSUME NEW c \in Workers \cup Pools, CtxError(c)
      PROVE  FALSE
  BY <1>5, ClientKinds DEF CtxError, Live, AccountInv, AllLive
<1>6. CASE \/ \E w \in Workers : (DequeueEmpty(w) \/ WorkerStep(w)) /\ Calm
           \/ \E s \in Pools : SweeperStep(s) /\ Calm
           \/ \E r \in Requests : RequestStep(r) /\ Calm
           \/ \E r \in Requests, j \in Jobs : Submit(r, j) /\ UNCHANGED faults
           \/ \E r \in Requests, j \in Jobs : RetryJob(r, j) /\ UNCHANGED faults
  BY <1>3, <1>6, SweeperAccount, RequestAccount, CallAccount
<1>7. CASE \/ \E j \in Jobs : (GoStale(j) \/ Expire(j)) /\ Calm
           \/ \E j \in Jobs : Overrun(j) /\ Fault /\ UNCHANGED retryCalls
           \/ \E c \in Clients : RedisError(c) /\ Fault /\ UNCHANGED retryCalls
           \/ \E p \in Pools \cup Requests : Crash(p) /\ Fault /\ UNCHANGED retryCalls
           \/ \E p \in Pools : Shutdown(p) /\ Fault /\ UNCHANGED retryCalls
           \/ \E c \in Workers \cup Pools : CtxError(c) /\ Calm
           \/ \E p \in Pools : Restart(p) /\ Calm
  BY <1>4, <1>5, <1>7, TimeAccount, ErrorAccount, CrashAccount
<1>8. QED
  BY <1>2, <1>6, <1>7 DEF Next, Continue, SweeperStep, vars

\* No accepted job is ever lost while failures stay mild, for any number of jobs,
\* workers, sweepers and requests, however slow the handlers are and however the
\* pipelines of different clients interleave (RedisQueue, Worker, Pool, Handler).
THEOREM NoJobLost == ASSUME Mild PROVE Spec => []NothingLost
<1>1. AccountInv => NothingLost
  BY DEF AccountInv, Accounted, Kept, NothingLost
<1>2. AccountInv /\ [Next]_vars => AccountInv'
  BY AccountNext
<1>3. QED
  BY <1>1, <1>2, AccountInit, PTL DEF Spec

=============================================================================
