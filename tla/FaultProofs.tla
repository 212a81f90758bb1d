---------------------------- MODULE FaultProofs ----------------------------
(***************************************************************************)
(* Theorems about TaskQueue for every number of worker processes,          *)
(* goroutines, requests and jobs and every bound: crashes, Redis errors,   *)
(* shutdowns and restarts may strike between any two round trips, and the  *)
(* commands of pipelines may interleave.  Two sweeps do not overlap, and a *)
(* job is retried when nobody works on it (ApartSpec).  The invariant      *)
(* PlaceInv follows each job through the keys of Redis and the memory of   *)
(* the client that has it in hand; what must be excluded for more than     *)
(* that is named by Safe, Whole and Marked.                                *)
(***************************************************************************)
EXTENDS TaskQueueProofs, FiniteSetTheorems

-----------------------------------------------------------------------------
(***************************************************************************)
(* The assumptions, and the invariant.                                     *)
(***************************************************************************)

\* A pipeline is not cut short, and handlers are done before their claim turns stale.
Orderly ==
  /\ ~SlowJobs
  /\ "pipeline" \notin CrashAt \cup ErrorAt

\* No failure where a popped or released job is in no key.
Safe ==
  /\ "hset" \notin CrashAt \cup ErrorAt
  /\ "requeue" \notin CrashAt \cup ErrorAt
  /\ ~Shutdowns

\* A retry is not cut short, and its LREM does not fail.
Whole ==
  /\ {"lrem", "decr", "enqueue"} \cap CrashAt = {}
  /\ {"lrem", "enqueue"} \cap ErrorAt = {}

\* The status "processing" is stored unless the process is shutting down.
Marked == "mark" \notin ErrorAt

\* What is left of a pipeline.
EnqueueLast  == <<"ZADD">>
CompleteRest == <<"HDEL", "completed">>
CompleteLast == <<"completed">>
FailRest     == <<"HDEL", "failed">>
FailLast     == <<"failed">>
DeadRest     == <<"HDEL", "LPUSH", "dead">>
DeadUnlisted == <<"LPUSH", "dead">>
DeadLast     == <<"dead">>

\* The records of a job with an attempt to come, of a completed job and of a dead one.
Going(r) ==
  /\ r.status \in {"pending", "processing", "failed"}
  /\ r.retries < Attempts
  /\ ~r.ttl

Done(r) == r.status = "completed" /\ r.ttl

Dead(r) == r.status = "dead" /\ r.retries = Attempts /\ r.ttl

\* No client works on job j.
Free(j) == \A c \in Clients : hand[c] # j

\* Client c is about to make a call, no pipeline of its own being under way.
Calls(c, points) == wire[c] = <<>> /\ pc[c] \in points

\* The job of client c has a claim.
Claiming(c) ==
  \/ Calls(c, {"get", "mark", "run", "complete", "fail", "hdel"})
  \/ wire[c] \in {CompletePipe, CompleteRest, FailPipe, FailRest, DeadPipe, DeadRest}

\* Where a client of each kind can be, and with which pipeline.
KindOK(c) ==
  /\ c \in Workers => pc[c] \in {"idle", "hset", "get", "mark", "run", "complete", "fail", "requeue"}
  /\ c \in Pools => pc[c] \in {"idle", "sweep", "hdel", "requeue"}
  /\ c \in Requests => pc[c] \in {"idle", "lrem", "decr", "enqueue"}
  /\ c \in Pools \cup Requests => wire[c] \in {<<>>, EnqueuePipe, EnqueueLast}
  /\ wire[c] \in {FailPipe, FailRest, FailLast} => pc[c] = "requeue"
  /\ wire[c] \in {EnqueuePipe, EnqueueLast, CompletePipe, CompleteRest, CompleteLast,
                  DeadPipe, DeadRest, DeadUnlisted, DeadLast} => pc[c] = Home(c)
  /\ Calls(c, {"idle", "sweep"}) => hand[c] = NoJob

\* The keys that name job j while client c has it in hand.
PlaceOK(c, j) ==
  /\ j \notin pending /\ j \in issued
  /\ c \notin Requests => j \in accepted
  /\ processing[j] # "none" <=> Claiming(c)
  /\ c \in Workers => processing[j] # "stale"

\* The record r of that job, and the value that c has read or built.
RecordOK(c, r) ==
  /\ wire[c] \in {CompleteRest, CompleteLast} => Done(r)
  /\ wire[c] \in {DeadRest, DeadUnlisted, DeadLast} => Dead(r)
  /\ wire[c] \in {CompletePipe, FailPipe, DeadPipe, FailRest, FailLast, EnqueueLast} => Going(r)
  /\ wire[c] = EnqueueLast \/ Calls(c, {"hset", "get", "mark"}) => r.status = "pending"
  /\ wire[c] \in {FailRest, FailLast} => r.status = "failed"
  /\ c \in Workers /\ (wire[c] = EnqueuePipe \/ Calls(c, {"requeue"})) => r.status = "failed"
  /\ c \in Pools \/ Calls(c, {"run", "complete", "fail"}) => r.status # "failed"
  /\ c \notin Requests /\ wire[c] \in {<<>>, EnqueuePipe} => Going(r)
  /\ c \in Requests /\ wire[c] # EnqueueLast => Dead(r) \/ r = NoRecord
  /\ Calls(c, {"lrem", "decr"}) => Dead(r)
  /\ Marked /\ Live(c) /\ Calls(c, {"run", "complete", "fail"}) => r.status = "processing"
  /\ Marked /\ wire[c] \in {CompletePipe, FailPipe, DeadPipe} => r.status = "processing"

CopyOK(c, r) ==
  /\ Calls(c, {"mark"}) => copy[c] = WithStatus(r, "processing", FALSE)
  /\ Calls(c, {"hdel", "requeue"}) \/ wire[c] \in {FailRest, FailLast} => copy[c] = r
  /\ wire[c] = CompletePipe => copy[c] = WithStatus(r, "completed", TRUE)
  /\ wire[c] = FailPipe =>
       /\ copy[c] = [status |-> "failed", retries |-> r.retries + 1, ttl |-> FALSE]
       /\ r.retries + 1 < MaxRetries
  /\ wire[c] = DeadPipe =>
       /\ copy[c] = [status |-> "dead", retries |-> r.retries + 1, ttl |-> TRUE]
       /\ r.retries + 1 >= MaxRetries
  /\ c \notin Requests /\ wire[c] = EnqueuePipe => copy[c] = WithStatus(r, "pending", FALSE)
  /\ Calls(c, {"enqueue"}) \/ (c \in Requests /\ wire[c] = EnqueuePipe) => copy[c] = FreshJob

\* The job of client c is not in the dead-letter list.
Unlisted(c) == wire[c] # DeadLast /\ ~Calls(c, {"lrem"})

ListOK(c, j) ==
  /\ c \in Requests /\ job[j] = NoRecord => j \notin accepted
  /\ Whole => dead[j] = (IF Unlisted(c) THEN 0 ELSE 1)

HeldOK(c) ==
  hand[c] \in Jobs =>
    /\ PlaceOK(c, hand[c])
    /\ RecordOK(c, job[hand[c]])
    /\ CopyOK(c, job[hand[c]])
    /\ ListOK(c, hand[c])

\* What the keys say of job j.
StoredOK(j) ==
  /\ job[j] = NoRecord \/ Done(job[j]) \/ Dead(job[j]) \/ Going(job[j])
  /\ Done(job[j]) \/ Dead(job[j]) => j \in accepted
  /\ j \notin issued => /\ job[j] = NoRecord /\ processing[j] = "none" /\ dead[j] = 0
                        /\ j \notin accepted

QueuedOK(j) ==
  /\ j \in pending => /\ Going(job[j]) /\ job[j].status = "pending"
                      /\ processing[j] = "none"
                      /\ j \in accepted
  /\ Free(j) /\ processing[j] # "none" => /\ Going(job[j]) /\ job[j].status # "failed"
                                          /\ j \in accepted

ListedOK(j) ==
  Whole => /\ dead[j] <= 1
           /\ Free(j) /\ job[j] # NoRecord => (dead[j] = 1 <=> Dead(job[j]))

\* Without a fault where a job is in no key, one that nobody holds can be found.
KeptOK(j) ==
  Safe /\ Free(j) /\ j \in accepted /\ Going(job[j]) => j \in pending \/ processing[j] # "none"

JobOK(j) == StoredOK(j) /\ QueuedOK(j) /\ ListedOK(j) /\ KeptOK(j)

\* A job is in the hands of one client, and a sweeper is the only one to take up the
\* claims of its snapshot.
Unique == \A c, d \in Clients : hand[c] \in Jobs /\ hand[c] = hand[d] => c = d

TodoOK == \A s \in Pools : \A j \in todo[s] : processing[j] = "stale" /\ Free(j)

PlaceInv ==
  /\ Unique /\ TodoOK
  /\ \A c \in Clients : KindOK(c) /\ HeldOK(c)
  /\ \A j \in Jobs : JobOK(j)
  /\ ~Shutdowns => \A p \in Pools : ctx[p] = "live"

\* One process sweeps at a time, and only a sweep under way has a snapshot.
OneSweep ==
  /\ \A s \in Pools : todo[s] # {} => pc[s] # "idle"
  /\ \A s, q \in Pools : pc[s] # "idle" /\ pc[q] # "idle" => s = q

\* The pipelines: what a wire can hold, and what it holds after a command.
LEMMA Pipes ==
  /\ Pipelines = { <<>>, EnqueuePipe, EnqueueLast, CompletePipe, CompleteRest, CompleteLast,
                   FailPipe, FailRest, FailLast, DeadPipe, DeadRest, DeadUnlisted, DeadLast }
  /\ Head(EnqueuePipe) = "SET" /\ Tail(EnqueuePipe) = EnqueueLast
  /\ Head(EnqueueLast) = "ZADD" /\ Tail(EnqueueLast) = <<>>
  /\ Head(CompletePipe) = "SET" /\ Tail(CompletePipe) = CompleteRest
  /\ Head(CompleteRest) = "HDEL" /\ Tail(CompleteRest) = CompleteLast
  /\ Head(CompleteLast) = "completed" /\ Tail(CompleteLast) = <<>>
  /\ Head(FailPipe) = "SET" /\ Tail(FailPipe) = FailRest
  /\ Head(FailRest) = "HDEL" /\ Tail(FailRest) = FailLast
  /\ Head(FailLast) = "failed" /\ Tail(FailLast) = <<>>
  /\ Head(DeadPipe) = "SET" /\ Tail(DeadPipe) = DeadRest
  /\ Head(DeadRest) = "HDEL" /\ Tail(DeadRest) = DeadUnlisted
  /\ Head(DeadUnlisted) = "LPUSH" /\ Tail(DeadUnlisted) = DeadLast
  /\ Head(DeadLast) = "dead" /\ Tail(DeadLast) = <<>>
BY DEF Pipelines, EnqueuePipe, CompletePipe, FailPipe, DeadPipe, EnqueueLast, CompleteRest,
   CompleteLast, FailRest, FailLast, DeadRest, DeadUnlisted, DeadLast

\* No two of them are the same.
LEMMA PipesDiffer ==
  /\ <<>> \notin {EnqueuePipe, EnqueueLast, CompletePipe, CompleteRest, CompleteLast,
                  FailPipe, FailRest, FailLast, DeadPipe, DeadRest, DeadUnlisted, DeadLast}
  /\ EnqueuePipe \notin {EnqueueLast, CompletePipe, CompleteRest, CompleteLast,
                  FailPipe, FailRest, FailLast, DeadPipe, DeadRest, DeadUnlisted, DeadLast}
  /\ EnqueueLast \notin {CompletePipe, CompleteRest, CompleteLast,
                  FailPipe, FailRest, FailLast, DeadPipe, DeadRest, DeadUnlisted, DeadLast}
  /\ CompletePipe \notin {CompleteRest, CompleteLast,
                  FailPipe, FailRest, FailLast, DeadPipe, DeadRest, DeadUnlisted, DeadLast}
  /\ CompleteRest \notin {CompleteLast,
                  FailPipe, FailRest, FailLast, DeadPipe, DeadRest, DeadUnlisted, DeadLast}
  /\ CompleteLast \notin {FailPipe, FailRest, FailLast, DeadPipe, DeadRest, DeadUnlisted, DeadLast}
  /\ FailPipe \notin {FailRest, FailLast, DeadPipe, DeadRest, DeadUnlisted, DeadLast}
  /\ FailRest \notin {FailLast, DeadPipe, DeadRest, DeadUnlisted, DeadLast}
  /\ FailLast \notin {DeadPipe, DeadRest, DeadUnlisted, DeadLast}
  /\ DeadPipe \notin {DeadRest, DeadUnlisted, DeadLast}
  /\ DeadRest \notin {DeadUnlisted, DeadLast}
  /\ DeadUnlisted # DeadLast
BY DEF EnqueuePipe, CompletePipe, FailPipe, DeadPipe, EnqueueLast, CompleteRest,
   CompleteLast, FailRest, FailLast, DeadRest, DeadUnlisted, DeadLast

\* The records of the four kinds differ, and a job has an attempt.
LEMMA RecordKinds ==
  /\ Attempts \in Nat \ {0}
  /\ ~Going(NoRecord) /\ ~Done(NoRecord) /\ ~Dead(NoRecord)
  /\ \A r : Going(r) => ~Done(r) /\ ~Dead(r)
  /\ \A r : Done(r) => ~Dead(r)
  /\ Going(FreshJob) /\ FreshJob.status = "pending"
BY QueueAssumption DEF Attempts, Going, Done, Dead, NoRecord, FreshJob

-----------------------------------------------------------------------------
(***************************************************************************)
(* Frames.                                                                 *)
(***************************************************************************)

\* Client d, and the job j, are left alone by a step.
Same(d) ==
  /\ pc'[d] = pc[d] /\ hand'[d] = hand[d] /\ copy'[d] = copy[d] /\ wire'[d] = wire[d]
  /\ Live(d)' => Live(d)

Untouched(j) ==
  /\ job'[j] = job[j] /\ processing'[j] = processing[j] /\ dead'[j] = dead[j]
  /\ j \in pending' <=> j \in pending
  /\ j \in accepted' <=> j \in accepted
  /\ j \in issued' <=> j \in issued

\* A client that a step leaves alone, with the job in its hand, stays in order.
LEMMA ClientKept ==
  ASSUME NEW d \in Clients, Same(d), KindOK(d), HeldOK(d), hand[d] \in Jobs => Untouched(hand[d])
  PROVE  KindOK(d)' /\ HeldOK(d)'
<1>1. KindOK(d)'
  BY DEF Same, KindOK, Calls, Home
<1>2. SUFFICES ASSUME hand[d] \in Jobs PROVE HeldOK(d)'
  BY <1>1 DEF HeldOK, Same
<1> DEFINE j == hand[d]
<1>3. hand'[d] = j
  BY DEF Same
<1>4. PlaceOK(d, j)'
  BY <1>2, <1>3 DEF HeldOK, PlaceOK, Claiming, Calls, Same, Untouched
<1>5. RecordOK(d, job[j])'
  BY <1>2, <1>3 DEF HeldOK, RecordOK, Calls, Same, Untouched
<1>6. CopyOK(d, job[j])'
  BY <1>2, <1>3 DEF HeldOK, CopyOK, Calls, Same, Untouched
<1>7. ListOK(d, j)'
  BY <1>2, <1>3 DEF HeldOK, ListOK, Unlisted, Calls, Same, Untouched
<1>8. QED
  BY <1>3, <1>4, <1>5, <1>6, <1>7 DEF HeldOK

\* So does a job that the step leaves alone.
LEMMA JobKept ==
  ASSUME NEW j \in Jobs, JobOK(j), Untouched(j), Free(j)' => Free(j)
  PROVE  JobOK(j)'
<1>1. StoredOK(j)'
  BY DEF JobOK, StoredOK, Untouched
<1>2. QueuedOK(j)'
  BY DEF JobOK, QueuedOK, Untouched
<1>3. ListedOK(j)'
  BY DEF JobOK, ListedOK, Untouched
<1>4. KeptOK(j)'
  BY DEF JobOK, KeptOK, Untouched
<1>5. QED
  BY <1>1, <1>2, <1>3, <1>4 DEF JobOK

\* A step of client c about job k; with k = NoJob, about none.
Frame(c, k) ==
  /\ \A d \in Clients \ {c} : Same(d) /\ (k \in Jobs => hand[d] # k)
  /\ hand[c] \in {k, NoJob} /\ hand'[c] \in {k, NoJob}
  /\ \A j \in Jobs \ {k} : Untouched(j)
  /\ \A s \in Pools : todo'[s] \subseteq todo[s] \ {k}
  /\ UNCHANGED ctx

\* Such a step keeps the invariant if it does for c and k.
LEMMA StepKeeps ==
  ASSUME PlaceInv, TypeInv, TypeInv', NEW c \in Clients, NEW k \in Jobs \cup {NoJob}, Frame(c, k),
         KindOK(c)', HeldOK(c)', k \in Jobs => JobOK(k)'
  PROVE  PlaceInv'
<1>0. NoJob \notin Jobs
  BY QueueAssumption
<1>1. Unique'
  BY <1>0 DEF PlaceInv, Unique, Frame, Same
<1>2. \A j \in Jobs \ {k} : Free(j)' <=> Free(j)
  BY <1>0 DEF Free, Frame, Same
<1>3. TodoOK'
  <2> SUFFICES ASSUME NEW s \in Pools, NEW j \in todo'[s] PROVE (processing[j] = "stale" /\ Free(j))'
    BY DEF TodoOK
  <2>1. j \in todo[s] /\ j # k
    BY DEF Frame
  <2>2. j \in Jobs
    BY <2>1 DEF TypeInv, TypeOK
  <2>3. QED
    BY <1>2, <2>1, <2>2 DEF PlaceInv, TodoOK, Frame, Untouched
<1>4. ASSUME NEW d \in Clients \ {c} PROVE KindOK(d)' /\ HeldOK(d)'
  BY <1>4, ClientKept DEF PlaceInv, Frame
<1>5. ASSUME NEW j \in Jobs \ {k} PROVE JobOK(j)'
  BY <1>2, <1>5, JobKept DEF PlaceInv, Frame
<1>6. QED
  BY <1>1, <1>3, <1>4, <1>5 DEF PlaceInv, Frame

-----------------------------------------------------------------------------
(***************************************************************************)
(* Redis executes a command.                                               *)
(***************************************************************************)

\* What all commands have in common.
LEMMA ExecFrame ==
  ASSUME PlaceInv, TypeInv, TypeInv', NEW c \in Clients, ExecCommand(c), NEW k, k = hand[c]
  PROVE  /\ k \in Jobs
         /\ Frame(c, k)
         /\ KindOK(c)'
         /\ wire[c] # <<>> /\ wire'[c] = Tail(wire[c]) /\ pc'[c] = pc[c]
         /\ hand'[c] \in Jobs => hand'[c] = k /\ copy'[c] = copy[c]
         /\ Free(k)' <=> hand'[c] = NoJob
         /\ hand'[c] = NoJob <=> Tail(wire[c]) = <<>> /\ pc[c] # "requeue"
         /\ issued' = issued
<1> USE DEF TypeInv
<1>0. NoJob \notin Jobs
  BY QueueAssumption
<1>1. /\ wire[c] # <<>> /\ wire[c] \in Pipelines
      /\ hand[c] \in Jobs
      /\ Execute(c, Commands)
  BY DEF ExecCommand, ExecSet, ExecZAdd, ExecHDel, ExecLPush, ExecIncr, Commands,
     Execute, TypeOK, Coherent, Point
<1>2. /\ wire' = [wire EXCEPT ![c] = Tail(wire[c])]
      /\ UNCHANGED <<pc, todo, ctx, issued>>
      /\ Tail(wire[c]) = <<>> /\ pc[c] # "requeue" => /\ hand' = [hand EXCEPT ![c] = NoJob]
                                                      /\ copy' = [copy EXCEPT ![c] = NoRecord]
      /\ ~(Tail(wire[c]) = <<>> /\ pc[c] # "requeue") => UNCHANGED <<hand, copy>>
  BY <1>1 DEF Execute, Send, Drop, Take, Load
<1>3. \A d \in Clients \ {c} : Same(d) /\ hand[d] # hand[c]
  BY <1>1, <1>2 DEF Same, TypeOK, PlaceInv, Unique, Live
<1>4. \A j \in Jobs \ {hand[c]} : Untouched(j)
  BY <1>1, <1>2 DEF Untouched, ExecCommand, ExecSet, ExecZAdd, ExecHDel, ExecLPush, ExecIncr, TypeOK
<1>5. \A s \in Pools : hand[c] \notin todo[s]
  BY <1>1 DEF PlaceInv, TodoOK, Free
<1>6. Frame(c, k)
  BY <1>1, <1>2, <1>3, <1>4, <1>5 DEF Frame, TypeOK
<1>7. Free(k)' <=> hand'[c] = NoJob
  BY <1>0, <1>1, <1>2, <1>3 DEF Free, Same, TypeOK
<1>8. KindOK(c)
  BY DEF PlaceInv
<1>9. KindOK(c)'
  <2>1. pc'[c] = pc[c] /\ wire'[c] = Tail(wire[c]) /\ (hand'[c] = hand[c] \/ hand'[c] = NoJob)
    BY <1>2 DEF TypeOK
  <2>2. wire'[c] # <<>> =>
          \/ wire'[c] \in {FailRest, FailLast} /\ wire[c] \in {FailPipe, FailRest}
          \/ wire'[c] = EnqueueLast /\ wire[c] = EnqueuePipe
          \/ /\ wire'[c] \in {CompleteRest, CompleteLast, DeadRest, DeadUnlisted, DeadLast}
             /\ wire[c] \in {CompletePipe, CompleteRest, DeadPipe, DeadRest, DeadUnlisted}
    BY <1>1, <2>1, Pipes, PipesDiffer
  <2>3. wire'[c] = <<>> /\ pc[c] # "requeue" => hand'[c] = NoJob
    BY <1>2, <2>1 DEF TypeOK
  <2>4. QED
    BY <1>8, <2>1, <2>2, <2>3, PipesDiffer DEF KindOK, Calls, Home
<1>10. QED
  BY <1>0, <1>1, <1>2, <1>6, <1>7, <1>9 DEF TypeOK

\* What each command does to the job in hand.
Effect(c, k) ==
  \/ /\ wire[c] = EnqueuePipe /\ wire'[c] = EnqueueLast
     /\ job'[k] = copy[c] /\ processing'[k] = processing[k] /\ dead'[k] = dead[k]
     /\ pending' = pending /\ accepted' = accepted
  \/ /\ wire[c] = EnqueueLast /\ wire'[c] = <<>>
     /\ job'[k] = job[k] /\ processing'[k] = processing[k] /\ dead'[k] = dead[k]
     /\ k \in pending' /\ k \in accepted'
  \/ /\ \/ wire[c] = CompletePipe /\ wire'[c] = CompleteRest
        \/ wire[c] = FailPipe /\ wire'[c] = FailRest
        \/ wire[c] = DeadPipe /\ wire'[c] = DeadRest
     /\ job'[k] = copy[c] /\ processing'[k] = processing[k] /\ dead'[k] = dead[k]
     /\ pending' = pending /\ accepted' = accepted
  \/ /\ \/ wire[c] = CompleteRest /\ wire'[c] = CompleteLast
        \/ wire[c] = FailRest /\ wire'[c] = FailLast
        \/ wire[c] = DeadRest /\ wire'[c] = DeadUnlisted
     /\ job'[k] = job[k] /\ processing'[k] = "none" /\ dead'[k] = dead[k]
     /\ pending' = pending /\ accepted' = accepted
  \/ /\ wire[c] = DeadUnlisted /\ wire'[c] = DeadLast
     /\ job'[k] = job[k] /\ processing'[k] = processing[k] /\ dead'[k] = dead[k] + 1
     /\ pending' = pending /\ accepted' = accepted
  \/ /\ wire[c] \in {CompleteLast, FailLast, DeadLast} /\ wire'[c] = <<>>
     /\ job'[k] = job[k] /\ processing'[k] = processing[k] /\ dead'[k] = dead[k]
     /\ pending' = pending /\ accepted' = accepted

\* A command does one of the things that Effect lists.
LEMMA ExecEffect ==
  ASSUME TypeInv, NEW c \in Clients, ExecCommand(c), NEW k \in Jobs, k = hand[c]
  PROVE  Effect(c, k)
<1> USE DEF TypeInv
<1>1. /\ wire[c] \in Pipelines /\ wire[c] # <<>>
      /\ wire'[c] = Tail(wire[c])
  BY DEF ExecCommand, ExecSet, ExecZAdd, ExecHDel, ExecLPush, ExecIncr, Execute, Send, TypeOK
<1>2. CASE ExecSet(c)
  <2>1. wire[c] \in {EnqueuePipe, CompletePipe, FailPipe, DeadPipe}
    BY <1>1, <1>2, Pipes DEF ExecSet, Execute
  <2>2. QED
    BY <1>1, <1>2, <2>1, Pipes DEF ExecSet, Effect, TypeOK
<1>3. CASE ExecZAdd(c)
  <2>1. wire[c] = EnqueueLast
    BY <1>1, <1>3, Pipes DEF ExecZAdd, Execute
  <2>2. QED
    BY <1>1, <1>3, <2>1, Pipes DEF ExecZAdd, Effect, TypeOK
<1>4. CASE ExecHDel(c)
  <2>1. wire[c] \in {CompleteRest, FailRest, DeadRest}
    BY <1>1, <1>4, Pipes DEF ExecHDel, Execute
  <2>2. QED
    BY <1>1, <1>4, <2>1, Pipes DEF ExecHDel, Effect, TypeOK
<1>5. CASE ExecLPush(c)
  <2>1. wire[c] = DeadUnlisted
    BY <1>1, <1>5, Pipes DEF ExecLPush, Execute
  <2>2. QED
    BY <1>1, <1>5, <2>1, Pipes DEF ExecLPush, Effect, TypeOK
<1>6. CASE ExecIncr(c)
  <2>1. wire[c] \in {CompleteLast, FailLast, DeadLast}
    BY <1>1, <1>6, Pipes DEF ExecIncr, Execute, Counters
  <2>2. QED
    BY <1>1, <1>6, <2>1, Pipes DEF ExecIncr, Effect, TypeOK
<1>7. QED
  BY <1>2, <1>3, <1>4, <1>5, <1>6 DEF ExecCommand

\* A SET of a pipeline stores what its copy says.
LEMMA CopiesFit ==
  ASSUME TypeInv, PlaceInv, NEW c \in Clients, NEW k \in Jobs, k = hand[c]
  PROVE  /\ wire[c] = EnqueuePipe => Going(copy[c]) /\ copy[c].status = "pending"
         /\ wire[c] = CompletePipe => Done(copy[c])
         /\ wire[c] = FailPipe => Going(copy[c]) /\ copy[c].status = "failed"
         /\ wire[c] = DeadPipe => Dead(copy[c])
<1>1. job[k] \in Records /\ RecordOK(c, job[k]) /\ CopyOK(c, job[k])
  BY DEF TypeInv, TypeOK, PlaceInv, HeldOK
<1>2. CASE wire[c] = EnqueuePipe
  <2>1. CASE c \in Requests
    BY <1>1, <1>2, <2>1, PipesDiffer, RecordKinds DEF CopyOK
  <2>2. CASE c \notin Requests
    BY <1>1, <1>2, <2>2, PipesDiffer DEF CopyOK, RecordOK, Going, WithStatus
  <2>3. QED
    BY <1>2, <2>1, <2>2, PipesDiffer
<1>3. CASE wire[c] = CompletePipe
  BY <1>1, <1>3, PipesDiffer DEF CopyOK, Done, WithStatus
<1>4. CASE wire[c] = FailPipe
  BY <1>1, <1>4, PipesDiffer, QueueAssumption DEF CopyOK, Going, Attempts, Records
<1>5. CASE wire[c] = DeadPipe
  BY <1>1, <1>5, PipesDiffer, QueueAssumption DEF RecordOK, CopyOK, Going, Dead, Attempts, Records
<1>6. QED
  BY <1>2, <1>3, <1>4, <1>5, PipesDiffer

\* A command of a pipeline keeps the invariant.
LEMMA ExecKeeps ==
  ASSUME PlaceInv, TypeInv, TypeInv', NEW c \in Clients, ExecCommand(c)
  PROVE  PlaceInv'
<1> USE DEF TypeInv
<1>1. PICK k : k = hand[c]
  OBVIOUS
<1>2. /\ k \in Jobs
      /\ Frame(c, k)
      /\ KindOK(c)'
      /\ wire[c] # <<>> /\ wire'[c] = Tail(wire[c]) /\ pc'[c] = pc[c]
      /\ hand'[c] \in Jobs => hand'[c] = k /\ copy'[c] = copy[c]
      /\ Free(k)' <=> hand'[c] = NoJob
      /\ hand'[c] = NoJob <=> Tail(wire[c]) = <<>> /\ pc[c] # "requeue"
      /\ issued' = issued
  BY <1>1, ExecFrame
<1>3. Effect(c, k) /\ ~Free(k)
  BY <1>1, <1>2, ExecEffect DEF Free
<1>4. /\ KindOK(c) /\ JobOK(k)
      /\ PlaceOK(c, k) /\ RecordOK(c, job[k]) /\ CopyOK(c, job[k]) /\ ListOK(c, k)
  BY <1>1, <1>2 DEF PlaceInv, HeldOK
<1>5. ASSUME hand'[c] \in Jobs
      PROVE  PlaceOK(c, k)' /\ ListOK(c, k)'
  <2>1. \/ wire'[c] \in {EnqueueLast, CompleteRest, CompleteLast, FailRest, FailLast,
                       DeadRest, DeadUnlisted, DeadLast}
        \/ wire[c] = FailLast /\ wire'[c] = <<>> /\ pc'[c] = "requeue"
    BY <1>2, <1>3, <1>4, <1>5, PipesDiffer, QueueAssumption DEF Effect, KindOK, Home
  <2>2. PlaceOK(c, k)'
    BY <1>2, <1>3, <1>4, <2>1, PipesDiffer DEF Effect, KindOK, PlaceOK, Claiming, Calls
  <2>3. ListOK(c, k)'
    <3>1. c \in Requests => (job[k] # NoRecord)'
      BY <1>1, <1>2, <1>3, <1>4, <2>1, PipesDiffer, CopiesFit, RecordKinds
      DEF Effect, KindOK, RecordOK
    <3>2. ~Calls(c, {"lrem"})' /\ Unlisted(c)
      BY <1>2, <1>3, <1>4, <2>1, PipesDiffer DEF Effect, KindOK, Unlisted, Calls
    <3>3. Whole => dead[k] = 0
      BY <1>4, <3>2 DEF ListOK
    <3>4. Whole => dead'[k] = (IF wire'[c] # DeadLast THEN 0 ELSE 1)
      <4>1. CASE wire[c] = DeadUnlisted
        <5>1. wire'[c] = DeadLast /\ dead'[k] = dead[k] + 1
          BY <1>3, <4>1, PipesDiffer DEF Effect
        <5>2. QED
          BY <3>3, <5>1
      <4>2. CASE wire[c] # DeadUnlisted
        <5>1. wire'[c] # DeadLast /\ dead'[k] = dead[k]
          BY <1>3, <2>1, <4>2, PipesDiffer DEF Effect
        <5>2. QED
          BY <3>3, <5>1
      <4>3. QED
        BY <4>1, <4>2
    <3>5. QED
      BY <3>1, <3>2, <3>4 DEF ListOK, Unlisted
  <2>4. QED
    BY <2>2, <2>3
<1>6. ASSUME hand'[c] \in Jobs
      PROVE  (RecordOK(c, job[k]) /\ CopyOK(c, job[k]))'
  <2>1. \/ wire'[c] \in {EnqueueLast, CompleteRest, CompleteLast, FailRest, FailLast,
                       DeadRest, DeadUnlisted, DeadLast}
        \/ wire[c] = FailLast /\ wire'[c] = <<>> /\ pc'[c] = "requeue"
    BY <1>2, <1>3, <1>4, <1>6, PipesDiffer, QueueAssumption DEF Effect, KindOK, Home
  <2>2. RecordOK(c, job[k])'
    BY <1>1, <1>2, <1>3, <1>4, <2>1, PipesDiffer, CopiesFit, RecordKinds, ClientsAssumption
    DEF Effect, KindOK, RecordOK, Calls, Clients
  <2>3. CopyOK(c, job[k])'
    BY <1>2, <1>3, <1>4, <1>6, <2>1, PipesDiffer DEF Effect, KindOK, CopyOK, Calls
  <2>4. QED
    BY <2>2, <2>3
<1>7. JobOK(k)'
  <2>1. StoredOK(k)'
    BY <1>1, <1>2, <1>3, <1>4, PipesDiffer, CopiesFit, RecordKinds
    DEF Effect, JobOK, StoredOK, PlaceOK, KindOK, RecordOK
  <2>2. QueuedOK(k)'
    BY <1>1, <1>2, <1>3, <1>4, PipesDiffer, CopiesFit, RecordKinds
    DEF Effect, JobOK, QueuedOK, PlaceOK, Claiming, Calls, KindOK, RecordOK
  <2>3. ListedOK(k)'
    <3>1. Whole => dead'[k] <= 1
      BY <1>2, <1>3, <1>4, PipesDiffer DEF Effect, JobOK, ListedOK, ListOK, Unlisted, Calls, TypeOK
    <3>2. ASSUME Whole, hand'[c] = NoJob
          PROVE  dead'[k] = 1 <=> Dead(job'[k])
      <4>1. wire[c] \in {EnqueueLast, CompleteLast, DeadLast} /\ dead'[k] = dead[k]
        BY <1>2, <1>3, <1>4, <3>2, PipesDiffer DEF Effect, KindOK
      <4>2. Dead(job'[k]) <=> wire[c] = DeadLast
        BY <1>3, <1>4, <4>1, PipesDiffer, RecordKinds DEF Effect, RecordOK
      <4>3. dead[k] = (IF wire[c] = DeadLast THEN 1 ELSE 0)
        BY <1>4, <3>2, <4>1, PipesDiffer DEF ListOK, Unlisted, Calls
      <4>4. QED
        BY <4>1, <4>2, <4>3
    <3>3. QED
      BY <1>2, <3>1, <3>2 DEF ListedOK
  <2>4. KeptOK(k)'
    BY <1>1, <1>2, <1>3, <1>4, PipesDiffer, RecordKinds
    DEF Effect, KeptOK, KindOK, RecordOK
  <2>5. QED
    BY <2>1, <2>2, <2>3, <2>4 DEF JobOK
<1>8. HeldOK(c)'
  BY <1>2, <1>5, <1>6 DEF HeldOK
<1>9. QED
  BY <1>2, <1>7, <1>8, StepKeeps

-----------------------------------------------------------------------------
(***************************************************************************)
(* The calls of a client.                                                  *)
(***************************************************************************)

\* A client lets go of its job between two round trips.
LEMMA ForgetJob ==
  ASSUME PlaceInv, TypeInv, NEW c \in Clients, NEW k \in Jobs, k = hand[c], wire[c] = <<>>,
         UNCHANGED <<keys, issued, accepted>>,
         Safe => pc[c] \notin {"hset", "requeue"},
         Whole => pc[c] \notin {"lrem", "decr", "enqueue"}
  PROVE  JobOK(k)'
<1> USE DEF TypeInv
<1>0. NoJob \notin Jobs
  BY QueueAssumption
<1>1. /\ JobOK(k) /\ KindOK(c)
      /\ PlaceOK(c, k) /\ RecordOK(c, job[k]) /\ CopyOK(c, job[k]) /\ ListOK(c, k)
  BY DEF PlaceInv, HeldOK
<1>2. UNCHANGED keys /\ UNCHANGED <<issued, accepted>>
  OBVIOUS
<1>3. StoredOK(k)'
  BY <1>1, <1>2 DEF keys, JobOK, StoredOK
<1>4. QueuedOK(k)'
  <2>1. processing[k] # "none" =>
          /\ c \notin Requests
          /\ c \in Pools \/ Calls(c, {"get", "mark", "run", "complete", "fail"})
    BY <1>1, PipesDiffer DEF PlaceOK, Claiming, Calls, KindOK, Clients
  <2>2. processing[k] # "none" => Going(job[k]) /\ job[k].status # "failed" /\ k \in accepted
    BY <1>1, <2>1 DEF PlaceOK, RecordOK, Calls
  <2>3. QED
    BY <1>1, <1>2, <2>2 DEF keys, JobOK, QueuedOK
<1>5. ListedOK(k)'
  <2>1. Whole => dead[k] = 0 /\ dead[k] <= 1
    BY <1>1, PipesDiffer DEF ListOK, Unlisted, Calls
  <2>2. Whole => ~Dead(job[k])
    BY <1>0, <1>1, PipesDiffer, RecordKinds, ClientsAssumption
    DEF KindOK, RecordOK, Calls, Clients
  <2>3. QED
    BY <1>2, <2>1, <2>2 DEF keys, ListedOK
<1>6. KeptOK(k)'
  BY <1>0, <1>1, <1>2, PipesDiffer, RecordKinds
  DEF keys, KeptOK, PlaceOK, Claiming, Calls, KindOK, RecordOK, Clients
<1>7. QED
  BY <1>3, <1>4, <1>5, <1>6 DEF JobOK

\* A client that forgets its job after an error.
LEMMA AbandonKeeps ==
  ASSUME PlaceInv, TypeInv, TypeInv', NEW c \in Clients, wire[c] = <<>>, Abandon(c),
         UNCHANGED <<keys, ctx, issued, accepted>>,
         \A s \in Pools : todo'[s] \subseteq todo[s],
         Safe => pc[c] \notin {"hset", "requeue"},
         Whole => pc[c] \notin {"lrem", "decr", "enqueue"}
  PROVE  PlaceInv'
<1> USE DEF TypeInv
<1>0. NoJob \notin Jobs
  BY QueueAssumption
<1>1. PICK k : k = hand[c]
  OBVIOUS
<1>2. k \in Jobs \cup {NoJob}
  BY <1>1 DEF TypeOK
<1>3. /\ pc'[c] = Home(c) /\ hand'[c] = NoJob /\ copy'[c] = NoRecord /\ wire'[c] = <<>>
      /\ \A d \in Clients \ {c} : Same(d)
      /\ \A j \in Jobs : Untouched(j)
  BY DEF Abandon, Drop, Goto, Take, Load, Send, keys, TypeOK, Same, Untouched, Live
<1>4. Frame(c, k)
  BY <1>0, <1>1, <1>2, <1>3 DEF Frame, PlaceInv, Unique, TodoOK, Free, TypeOK
<1>5. KindOK(c)' /\ HeldOK(c)'
  BY <1>0, <1>3, PipesDiffer, ClientsAssumption DEF KindOK, HeldOK, Home, Calls
<1>6. k \in Jobs => JobOK(k)'
  BY <1>1, ForgetJob
<1>7. QED
  BY <1>2, <1>4, <1>5, <1>6, StepKeeps

\* A call after which the client still holds its job, and that changes no key but
\* a counter.
LEMMA HoldKeeps ==
  ASSUME PlaceInv, TypeInv, TypeInv', NEW c \in Clients, NEW k \in Jobs, k = hand[c], hand'[c] = k,
         \A d \in Clients \ {c} : Same(d),
         \A j \in Jobs : Untouched(j),
         UNCHANGED <<ctx, todo>>,
         KindOK(c)', PlaceOK(c, k)', RecordOK(c, job[k])', CopyOK(c, job[k])', ListOK(c, k)'
  PROVE  PlaceInv'
<1> USE DEF TypeInv
<1>1. Frame(c, k)
  BY QueueAssumption DEF Frame, PlaceInv, Unique, TodoOK, Free, TypeOK
<1>2. HeldOK(c)'
  BY DEF HeldOK
<1>3. JobOK(k)'
  BY JobKept DEF PlaceInv, Free
<1>4. QED
  BY <1>1, <1>2, <1>3, StepKeeps

\* GET of Dequeue: the record is there, since a popped job has one.
LEMMA ReadKeeps ==
  ASSUME PlaceInv, TypeInv, TypeInv', NEW w \in Workers, DequeueRead(w)
  PROVE  PlaceInv'
<1> USE DEF TypeInv
<1>0. w \in Clients
  BY ClientKinds
<1>1. PICK k : k = hand[w]
  OBVIOUS
<1>2. wire[w] = <<>> /\ pc[w] = "get" /\ k \in Jobs
  BY <1>0, <1>1 DEF DequeueRead, At, Coherent, Point
<1>3. /\ KindOK(w)
      /\ PlaceOK(w, k) /\ RecordOK(w, job[k]) /\ CopyOK(w, job[k]) /\ ListOK(w, k)
  BY <1>0, <1>1, <1>2 DEF PlaceInv, HeldOK
<1>4. job[k] # NoRecord
  BY <1>2, <1>3, RecordKinds, ClientsAssumption DEF RecordOK
<1>5. /\ pc'[w] = "mark" /\ hand'[w] = k /\ wire'[w] = <<>>
      /\ copy'[w] = WithStatus(job[k], "processing", FALSE)
      /\ \A d \in Clients \ {w} : Same(d)
      /\ \A j \in Jobs : Untouched(j)
      /\ UNCHANGED <<keys, ctx, todo, issued, accepted>>
  BY <1>0, <1>1, <1>2, <1>4 DEF DequeueRead, Goto, Load, keys, TypeOK, Same, Untouched, Live
<1>6. KindOK(w)'
  BY <1>3, <1>5, PipesDiffer, ClientsAssumption DEF KindOK, Calls
<1>7. PlaceOK(w, k)'
  BY <1>2, <1>3, <1>5, PipesDiffer DEF keys, PlaceOK, Claiming, Calls
<1>8. RecordOK(w, job[k])'
  BY <1>2, <1>3, <1>5, PipesDiffer, ClientsAssumption DEF keys, RecordOK, Calls
<1>9. CopyOK(w, job[k])'
  BY <1>2, <1>3, <1>5, PipesDiffer, ClientsAssumption DEF keys, CopyOK, Calls
<1>10. ListOK(w, k)'
  BY <1>2, <1>3, <1>5, PipesDiffer DEF keys, ListOK, Unlisted, Calls
<1>11. QED
  BY <1>0, <1>1, <1>2, <1>5, <1>6, <1>7, <1>8, <1>9, <1>10, HoldKeeps

\* A call after which the client still holds its job, and that may change its keys.
LEMMA WorkKeeps ==
  ASSUME PlaceInv, TypeInv, TypeInv', NEW c \in Clients, NEW k \in Jobs, k = hand[c], hand'[c] = k,
         \A d \in Clients \ {c} : Same(d),
         \A j \in Jobs \ {k} : Untouched(j),
         UNCHANGED <<ctx, todo>>,
         KindOK(c)', PlaceOK(c, k)', RecordOK(c, job[k])', CopyOK(c, job[k])', ListOK(c, k)',
         JobOK(k)'
  PROVE  PlaceInv'
<1> USE DEF TypeInv
<1>1. Frame(c, k)
  BY QueueAssumption DEF Frame, PlaceInv, Unique, TodoOK, Free, TypeOK
<1>2. HeldOK(c)'
  BY DEF HeldOK
<1>3. QED
  BY <1>1, <1>2, StepKeeps

\* HSET of Dequeue.
LEMMA ClaimKeeps ==
  ASSUME PlaceInv, TypeInv, TypeInv', NEW w \in Workers, DequeueClaim(w)
  PROVE  PlaceInv'
<1> USE DEF TypeInv
<1>0. w \in Clients
  BY ClientKinds
<1>1. PICK k : k = hand[w]
  OBVIOUS
<1>2. wire[w] = <<>> /\ pc[w] = "hset" /\ k \in Jobs
  BY <1>0, <1>1 DEF DequeueClaim, At, Coherent, Point
<1>3. /\ KindOK(w) /\ JobOK(k)
      /\ PlaceOK(w, k) /\ RecordOK(w, job[k]) /\ CopyOK(w, job[k]) /\ ListOK(w, k)
  BY <1>0, <1>1, <1>2 DEF PlaceInv, HeldOK
<1>4. /\ pc'[w] = "get" /\ hand'[w] = k /\ wire'[w] = <<>> /\ copy'[w] = copy[w]
      /\ processing'[k] = "fresh" /\ dead'[k] = dead[k]
      /\ \A d \in Clients \ {w} : Same(d)
      /\ \A j \in Jobs \ {k} : Untouched(j)
      /\ UNCHANGED <<job, pending, ctx, todo, issued, accepted>>
  BY <1>0, <1>1, <1>2 DEF DequeueClaim, Goto, TypeOK, Same, Untouched, Live
<1>5. KindOK(w)'
  BY <1>3, <1>4, PipesDiffer, ClientsAssumption DEF KindOK, Calls
<1>6. PlaceOK(w, k)'
  BY <1>2, <1>3, <1>4, PipesDiffer DEF PlaceOK, Claiming, Calls
<1>7. RecordOK(w, job[k])'
  BY <1>2, <1>3, <1>4, PipesDiffer, ClientsAssumption DEF RecordOK, Calls
<1>8. CopyOK(w, job[k])'
  BY <1>2, <1>3, <1>4, PipesDiffer, ClientsAssumption DEF CopyOK, Calls
<1>9. ListOK(w, k)'
  BY <1>2, <1>3, <1>4, PipesDiffer DEF ListOK, Unlisted, Calls
<1>10. JobOK(k)'
  <2>1. ~Free(k)' /\ k \notin pending /\ k \in issued
    BY <1>0, <1>3, <1>4 DEF Free, PlaceOK
  <2>2. QED
    BY <1>3, <1>4, <2>1 DEF JobOK, StoredOK, QueuedOK, ListedOK, KeptOK
<1>11. QED
  BY <1>0, <1>1, <1>2, <1>4, <1>5, <1>6, <1>7, <1>8, <1>9, <1>10, WorkKeeps

\* SET "processing" of Dequeue.
LEMMA MarkKeeps ==
  ASSUME PlaceInv, TypeInv, TypeInv', NEW w \in Workers, DequeueMark(w)
  PROVE  PlaceInv'
<1> USE DEF TypeInv
<1>0. w \in Clients
  BY ClientKinds
<1>1. PICK k : k = hand[w]
  OBVIOUS
<1>2. wire[w] = <<>> /\ pc[w] = "mark" /\ k \in Jobs
  BY <1>0, <1>1 DEF DequeueMark, At, Coherent, Point
<1>3. /\ KindOK(w) /\ JobOK(k)
      /\ PlaceOK(w, k) /\ RecordOK(w, job[k]) /\ CopyOK(w, job[k]) /\ ListOK(w, k)
  BY <1>0, <1>1, <1>2 DEF PlaceInv, HeldOK
<1>4. /\ pc'[w] = "run" /\ hand'[w] = k /\ wire'[w] = <<>>
      /\ job'[k] = copy[w] /\ dead'[k] = dead[k]
      /\ \A d \in Clients \ {w} : Same(d)
      /\ \A j \in Jobs \ {k} : Untouched(j)
      /\ UNCHANGED <<processing, pending, ctx, todo, issued, accepted>>
  BY <1>0, <1>1, <1>2 DEF DequeueMark, Goto, Load, TypeOK, Same, Untouched, Live
<1>5. /\ Going(job'[k]) /\ job'[k].status = "processing"
      /\ w \notin Requests /\ w \notin Pools
  BY <1>2, <1>3, <1>4, PipesDiffer, ClientsAssumption DEF CopyOK, RecordOK, Calls, Going, WithStatus
<1>6. KindOK(w)'
  BY <1>3, <1>4, PipesDiffer, ClientsAssumption DEF KindOK, Calls
<1>7. PlaceOK(w, k)'
  BY <1>2, <1>3, <1>4, PipesDiffer DEF PlaceOK, Claiming, Calls
<1>8. RecordOK(w, job[k])'
  BY <1>4, <1>5, PipesDiffer DEF RecordOK, Calls
<1>9. CopyOK(w, job[k])'
  BY <1>4, <1>5, PipesDiffer DEF CopyOK, Calls
<1>10. ListOK(w, k)'
  BY <1>2, <1>3, <1>4, <1>5, PipesDiffer DEF ListOK, Unlisted, Calls
<1>11. JobOK(k)'
  <2>1. ~Free(k)' /\ k \notin pending /\ k \in issued
    BY <1>0, <1>3, <1>4 DEF Free, PlaceOK
  <2>2. QED
    BY <1>3, <1>4, <1>5, <2>1, RecordKinds DEF JobOK, StoredOK, QueuedOK, ListedOK, KeptOK
<1>12. QED
  BY <1>0, <1>1, <1>2, <1>4, <1>6, <1>7, <1>8, <1>9, <1>10, <1>11, WorkKeeps

\* The handler returns.
LEMMA RunKeeps ==
  ASSUME PlaceInv, TypeInv, TypeInv', NEW w \in Workers, Run(w)
  PROVE  PlaceInv'
<1> USE DEF TypeInv
<1>0. w \in Clients
  BY ClientKinds
<1>1. PICK k : k = hand[w]
  OBVIOUS
<1>2. wire[w] = <<>> /\ pc[w] = "run" /\ k \in Jobs
  BY <1>0, <1>1 DEF Run, Coherent, Point
<1>3. /\ KindOK(w)
      /\ PlaceOK(w, k) /\ RecordOK(w, job[k]) /\ CopyOK(w, job[k]) /\ ListOK(w, k)
  BY <1>0, <1>1, <1>2 DEF PlaceInv, HeldOK
<1>4. /\ pc'[w] \in {"complete", "fail"} /\ hand'[w] = k /\ wire'[w] = <<>>
      /\ \A d \in Clients \ {w} : Same(d)
      /\ \A j \in Jobs : Untouched(j)
      /\ UNCHANGED <<keys, ctx, todo, issued, accepted>>
  BY <1>0, <1>1, <1>2 DEF Run, Goto, keys, TypeOK, Same, Untouched, Live
<1>5. KindOK(w)'
  BY <1>3, <1>4, PipesDiffer, ClientsAssumption DEF KindOK, Calls
<1>6. PlaceOK(w, k)'
  BY <1>2, <1>3, <1>4, PipesDiffer DEF keys, PlaceOK, Claiming, Calls
<1>7. RecordOK(w, job[k])'
  BY <1>2, <1>3, <1>4, PipesDiffer, ClientsAssumption DEF keys, RecordOK, Calls, Live
<1>8. CopyOK(w, job[k])'
  BY <1>2, <1>3, <1>4, PipesDiffer, ClientsAssumption DEF keys, CopyOK, Calls
<1>9. ListOK(w, k)'
  BY <1>2, <1>3, <1>4, PipesDiffer DEF keys, ListOK, Unlisted, Calls
<1>10. QED
  BY <1>0, <1>1, <1>2, <1>4, <1>5, <1>6, <1>7, <1>8, <1>9, HoldKeeps

\* GET of Complete, which builds its pipeline.
LEMMA CompleteKeeps ==
  ASSUME PlaceInv, TypeInv, TypeInv', NEW w \in Workers, Complete(w)
  PROVE  PlaceInv'
<1> USE DEF TypeInv
<1>0. w \in Clients /\ w \notin Pools /\ w \notin Requests
  BY ClientKinds, ClientsAssumption
<1>1. PICK k : k = hand[w]
  OBVIOUS
<1>2. wire[w] = <<>> /\ pc[w] = "complete" /\ k \in Jobs /\ Live(w)
  BY <1>0, <1>1 DEF Complete, At, Coherent, Point
<1>3. /\ KindOK(w)
      /\ PlaceOK(w, k) /\ RecordOK(w, job[k]) /\ CopyOK(w, job[k]) /\ ListOK(w, k)
  BY <1>0, <1>1, <1>2 DEF PlaceInv, HeldOK
<1>4. job[k] # NoRecord
  BY <1>0, <1>2, <1>3, RecordKinds DEF RecordOK
<1>5. /\ pc'[w] = "idle" /\ hand'[w] = k /\ wire'[w] = CompletePipe
      /\ copy'[w] = WithStatus(job[k], "completed", TRUE)
      /\ \A d \in Clients \ {w} : Same(d)
      /\ \A j \in Jobs : Untouched(j)
      /\ UNCHANGED <<keys, ctx, todo, issued, accepted>>
  BY <1>0, <1>1, <1>2, <1>4 DEF Complete, Goto, Load, Send, keys, TypeOK, Same, Untouched, Live
<1>6. KindOK(w)'
  BY <1>0, <1>5, PipesDiffer DEF KindOK, Calls, Home
<1>7. PlaceOK(w, k)'
  BY <1>2, <1>3, <1>5, PipesDiffer DEF keys, PlaceOK, Claiming, Calls
<1>8. RecordOK(w, job[k])'
  BY <1>0, <1>2, <1>3, <1>5, PipesDiffer DEF keys, RecordOK, Calls
<1>9. CopyOK(w, job[k])'
  BY <1>2, <1>3, <1>5, PipesDiffer DEF keys, CopyOK, Calls
<1>10. ListOK(w, k)'
  BY <1>0, <1>2, <1>3, <1>5, PipesDiffer DEF keys, ListOK, Unlisted, Calls
<1>11. QED
  BY <1>0, <1>1, <1>2, <1>5, <1>6, <1>7, <1>8, <1>9, <1>10, HoldKeeps

\* GET of Fail, which builds the pipeline of a failure or of the dead letter.
LEMMA FailKeeps ==
  ASSUME PlaceInv, TypeInv, TypeInv', NEW w \in Workers, Fail(w)
  PROVE  PlaceInv'
<1> USE DEF TypeInv
<1>0. w \in Clients /\ w \notin Pools /\ w \notin Requests
  BY ClientKinds, ClientsAssumption
<1>1. PICK k : k = hand[w]
  OBVIOUS
<1>2. wire[w] = <<>> /\ pc[w] = "fail" /\ k \in Jobs /\ Live(w)
  BY <1>0, <1>1 DEF Fail, At, Coherent, Point
<1>3. /\ KindOK(w)
      /\ PlaceOK(w, k) /\ RecordOK(w, job[k]) /\ CopyOK(w, job[k]) /\ ListOK(w, k)
  BY <1>0, <1>1, <1>2 DEF PlaceInv, HeldOK
<1>4. job[k] # NoRecord /\ job[k].retries \in Nat
  BY <1>0, <1>2, <1>3, RecordKinds DEF RecordOK, TypeOK, Records
<1>5. /\ hand'[w] = k
      /\ \/ /\ pc'[w] = "idle" /\ wire'[w] = DeadPipe
            /\ copy'[w] = [status |-> "dead", retries |-> job[k].retries + 1, ttl |-> TRUE]
            /\ job[k].retries + 1 >= MaxRetries
         \/ /\ pc'[w] = "requeue" /\ wire'[w] = FailPipe
            /\ copy'[w] = [status |-> "failed", retries |-> job[k].retries + 1, ttl |-> FALSE]
            /\ job[k].retries + 1 < MaxRetries
      /\ \A d \in Clients \ {w} : Same(d)
      /\ \A j \in Jobs : Untouched(j)
      /\ UNCHANGED <<keys, ctx, todo, issued, accepted>>
  BY <1>0, <1>1, <1>2, <1>4, QueueAssumption
  DEF Fail, Goto, Load, Send, keys, TypeOK, Same, Untouched, Live, Failures, Exhausted
<1>6. KindOK(w)'
  BY <1>0, <1>5, PipesDiffer DEF KindOK, Calls, Home
<1>7. PlaceOK(w, k)'
  BY <1>2, <1>3, <1>5, PipesDiffer DEF keys, PlaceOK, Claiming, Calls
<1>8. RecordOK(w, job[k])'
  BY <1>0, <1>2, <1>3, <1>5, PipesDiffer DEF keys, RecordOK, Calls
<1>9. CopyOK(w, job[k])'
  BY <1>2, <1>3, <1>5, PipesDiffer DEF keys, CopyOK, Calls
<1>10. ListOK(w, k)'
  BY <1>0, <1>2, <1>3, <1>5, PipesDiffer DEF keys, ListOK, Unlisted, Calls
<1>11. QED
  BY <1>0, <1>1, <1>2, <1>5, <1>6, <1>7, <1>8, <1>9, <1>10, HoldKeeps

\* Requeue builds the pipeline of Enqueue from the copy in hand.
LEMMA RequeueKeeps ==
  ASSUME PlaceInv, TypeInv, TypeInv', NEW c \in Workers \cup Pools, Requeue(c)
  PROVE  PlaceInv'
<1> USE DEF TypeInv
<1>0. c \in Clients /\ c \notin Requests
  BY ClientKinds, ClientsAssumption
<1>1. PICK k : k = hand[c]
  OBVIOUS
<1>2. wire[c] = <<>> /\ pc[c] = "requeue" /\ k \in Jobs
  BY <1>0, <1>1 DEF Requeue, At, Coherent, Point
<1>3. /\ KindOK(c)
      /\ PlaceOK(c, k) /\ RecordOK(c, job[k]) /\ CopyOK(c, job[k]) /\ ListOK(c, k)
  BY <1>0, <1>1, <1>2 DEF PlaceInv, HeldOK
<1>4. /\ pc'[c] = Home(c) /\ hand'[c] = k /\ wire'[c] = EnqueuePipe
      /\ copy'[c] = WithStatus(copy[c], "pending", FALSE)
      /\ \A d \in Clients \ {c} : Same(d)
      /\ \A j \in Jobs : Untouched(j)
      /\ UNCHANGED <<keys, ctx, todo, issued, accepted>>
  BY <1>0, <1>1, <1>2 DEF Requeue, Goto, Load, Send, keys, TypeOK, Same, Untouched, Live
<1>5. KindOK(c)'
  BY <1>0, <1>4, PipesDiffer, ClientsAssumption DEF KindOK, Calls, Home
<1>6. PlaceOK(c, k)'
  BY <1>2, <1>3, <1>4, PipesDiffer DEF keys, PlaceOK, Claiming, Calls
<1>7. RecordOK(c, job[k])'
  BY <1>0, <1>2, <1>3, <1>4, PipesDiffer DEF keys, RecordOK, Calls
<1>8. CopyOK(c, job[k])'
  BY <1>0, <1>2, <1>3, <1>4, PipesDiffer DEF keys, CopyOK, Calls
<1>9. ListOK(c, k)'
  BY <1>0, <1>2, <1>3, <1>4, PipesDiffer DEF keys, ListOK, Unlisted, Calls
<1>10. QED
  BY <1>0, <1>1, <1>2, <1>4, <1>5, <1>6, <1>7, <1>8, <1>9, HoldKeeps

\* ZPOPMIN of Dequeue.
LEMMA PopKeeps ==
  ASSUME PlaceInv, TypeInv, TypeInv', NEW w \in Workers, DequeuePop(w)
  PROVE  PlaceInv'
<1> USE DEF TypeInv
<1>0. w \in Clients /\ w \notin Pools /\ w \notin Requests /\ NoJob \notin Jobs
  BY ClientKinds, ClientsAssumption, QueueAssumption
<1>1. PICK k \in pending : pending' = pending \ {k} /\ Take(w, k)
  BY DEF DequeuePop
<1>2. /\ wire[w] = <<>> /\ pc[w] = "idle" /\ k \in Jobs /\ hand[w] = NoJob
  BY <1>0, <1>1 DEF DequeuePop, At, TypeOK, PlaceInv, KindOK, Calls
<1>3. /\ JobOK(k) /\ KindOK(w)
      /\ Going(job[k]) /\ job[k].status = "pending" /\ processing[k] = "none"
      /\ k \in accepted /\ k \in issued
  BY <1>0, <1>1, <1>2 DEF PlaceInv, JobOK, QueuedOK, StoredOK
<1>4. Free(k)
  BY <1>1, <1>2 DEF PlaceInv, HeldOK, PlaceOK, Free
<1>5. /\ pc'[w] = "hset" /\ hand'[w] = k /\ wire'[w] = <<>> /\ copy'[w] = copy[w]
      /\ \A d \in Clients \ {w} : Same(d)
      /\ \A j \in Jobs \ {k} : Untouched(j)
      /\ UNCHANGED <<job, processing, dead, ctx, todo, issued, accepted>>
      /\ k \notin pending'
  BY <1>0, <1>1, <1>2 DEF DequeuePop, Goto, Take, TypeOK, Same, Untouched, Live
<1>6. Frame(w, k)
  BY <1>2, <1>3, <1>4, <1>5 DEF Frame, Free, PlaceInv, TodoOK, TypeOK
<1>7. KindOK(w)'
  BY <1>0, <1>5, PipesDiffer DEF KindOK, Calls
<1>8. Whole => dead[k] = 0
  BY <1>2, <1>3, <1>4, RecordKinds DEF JobOK, ListedOK, TypeOK
<1>9. PlaceOK(w, k)' /\ RecordOK(w, job[k])' /\ CopyOK(w, job[k])' /\ ListOK(w, k)'
  <2>1. PlaceOK(w, k)'
    BY <1>0, <1>3, <1>5, PipesDiffer DEF PlaceOK, Claiming, Calls
  <2>2. RecordOK(w, job[k])'
    BY <1>0, <1>3, <1>5, PipesDiffer DEF RecordOK, Calls
  <2>3. CopyOK(w, job[k])'
    BY <1>0, <1>5, PipesDiffer DEF CopyOK, Calls
  <2>4. ListOK(w, k)'
    BY <1>0, <1>5, <1>8, PipesDiffer DEF ListOK, Unlisted, Calls
  <2>5. QED
    BY <2>1, <2>2, <2>3, <2>4
<1>10. JobOK(k)'
  <2>1. ~Free(k)'
    BY <1>0, <1>5 DEF Free
  <2>2. QED
    BY <1>3, <1>5, <2>1 DEF JobOK, StoredOK, QueuedOK, ListedOK, KeptOK
<1>11. QED
  BY <1>0, <1>2, <1>5, <1>6, <1>7, <1>9, <1>10, StepKeeps DEF HeldOK

\* HDEL of RecoverStale.
LEMMA ReleaseKeeps ==
  ASSUME PlaceInv, TypeInv, TypeInv', NEW s \in Pools, SweepRelease(s)
  PROVE  PlaceInv'
<1> USE DEF TypeInv
<1>0. s \in Clients /\ s \notin Workers /\ s \notin Requests
  BY ClientKinds, ClientsAssumption
<1>1. PICK k : k = hand[s]
  OBVIOUS
<1>2. wire[s] = <<>> /\ pc[s] = "hdel" /\ k \in Jobs
  BY <1>0, <1>1 DEF SweepRelease, At, Coherent, Point
<1>3. /\ KindOK(s) /\ JobOK(k)
      /\ PlaceOK(s, k) /\ RecordOK(s, job[k]) /\ CopyOK(s, job[k]) /\ ListOK(s, k)
  BY <1>0, <1>1, <1>2 DEF PlaceInv, HeldOK
<1>4. /\ pc'[s] = "requeue" /\ hand'[s] = k /\ wire'[s] = <<>> /\ copy'[s] = copy[s]
      /\ processing'[k] = "none" /\ dead'[k] = dead[k]
      /\ \A d \in Clients \ {s} : Same(d)
      /\ \A j \in Jobs \ {k} : Untouched(j)
      /\ UNCHANGED <<job, pending, ctx, todo, issued, accepted>>
  BY <1>0, <1>1, <1>2 DEF SweepRelease, Goto, TypeOK, Same, Untouched, Live
<1>5. KindOK(s)'
  BY <1>0, <1>3, <1>4, PipesDiffer DEF KindOK, Calls
<1>6. PlaceOK(s, k)'
  BY <1>0, <1>2, <1>3, <1>4, PipesDiffer DEF PlaceOK, Claiming, Calls
<1>7. RecordOK(s, job[k])'
  BY <1>0, <1>2, <1>3, <1>4, PipesDiffer DEF RecordOK, Calls
<1>8. CopyOK(s, job[k])'
  BY <1>0, <1>2, <1>3, <1>4, PipesDiffer DEF CopyOK, Calls
<1>9. ListOK(s, k)'
  BY <1>0, <1>2, <1>3, <1>4, PipesDiffer DEF ListOK, Unlisted, Calls
<1>10. JobOK(k)'
  <2>1. ~Free(k)' /\ k \notin pending /\ k \in issued
    BY <1>0, <1>3, <1>4 DEF Free, PlaceOK
  <2>2. QED
    BY <1>3, <1>4, <2>1 DEF JobOK, StoredOK, QueuedOK, ListedOK, KeptOK
<1>11. QED
  BY <1>0, <1>1, <1>2, <1>4, <1>5, <1>6, <1>7, <1>8, <1>9, <1>10, WorkKeeps

\* The sweeper takes the next stale claim of its snapshot.
LEMMA SweepReadKeeps ==
  ASSUME OneSweep, PlaceInv, TypeInv, TypeInv', NEW s \in Pools, SweepRead(s)
  PROVE  PlaceInv'
<1> USE DEF TypeInv
<1>0. s \in Clients /\ s \notin Workers /\ s \notin Requests /\ NoJob \notin Jobs
  BY ClientKinds, ClientsAssumption, QueueAssumption
<1>1. PICK k \in todo[s] :
        /\ todo' = [todo EXCEPT ![s] = @ \ {k}]
        /\ IF job[k] = NoRecord
             THEN UNCHANGED <<pc, hand, copy>>
             ELSE Take(s, k) /\ Load(s, job[k]) /\ Goto(s, "hdel")
  BY DEF SweepRead
<1>2. /\ wire[s] = <<>> /\ pc[s] = "sweep" /\ k \in Jobs /\ hand[s] = NoJob
      /\ processing[k] = "stale" /\ Free(k)
  BY <1>0, <1>1 DEF SweepRead, At, TypeOK, PlaceInv, KindOK, Calls, TodoOK
<1>3. /\ JobOK(k) /\ KindOK(s)
      /\ Going(job[k]) /\ job[k].status # "failed" /\ k \notin pending
      /\ k \in accepted /\ k \in issued /\ job[k] # NoRecord
  BY <1>0, <1>1, <1>2, RecordKinds DEF PlaceInv, JobOK, QueuedOK, StoredOK
<1>4. /\ pc'[s] = "hdel" /\ hand'[s] = k /\ wire'[s] = <<>> /\ copy'[s] = job[k]
      /\ \A d \in Clients \ {s} : Same(d)
      /\ \A j \in Jobs : Untouched(j)
      /\ UNCHANGED <<keys, ctx, issued, accepted>>
      /\ todo'[s] = todo[s] \ {k}
  BY <1>0, <1>1, <1>2, <1>3
  DEF SweepRead, Goto, Take, Load, keys, TypeOK, Same, Untouched, Live
<1>5. Frame(s, k)
  <2>1. \A q \in Pools : todo'[q] \subseteq todo[q] \ {k}
    BY <1>1, <1>2 DEF OneSweep, TypeOK
  <2>2. QED
    BY <1>0, <1>2, <1>4, <2>1 DEF Frame, Free
<1>6. KindOK(s)'
  BY <1>0, <1>4, PipesDiffer DEF KindOK, Calls
<1>7. Whole => dead[k] = 0
  BY <1>2, <1>3, RecordKinds DEF JobOK, ListedOK, TypeOK
<1>8. PlaceOK(s, k)' /\ RecordOK(s, job[k])' /\ CopyOK(s, job[k])' /\ ListOK(s, k)'
  <2>1. PlaceOK(s, k)'
    BY <1>0, <1>2, <1>3, <1>4, PipesDiffer DEF keys, PlaceOK, Claiming, Calls
  <2>2. RecordOK(s, job[k])'
    BY <1>0, <1>3, <1>4, PipesDiffer DEF keys, RecordOK, Calls
  <2>3. CopyOK(s, job[k])'
    BY <1>0, <1>4, PipesDiffer DEF keys, CopyOK, Calls
  <2>4. ListOK(s, k)'
    BY <1>0, <1>4, <1>7, PipesDiffer DEF keys, ListOK, Unlisted, Calls
  <2>5. QED
    BY <2>1, <2>2, <2>3, <2>4
<1>9. JobOK(k)'
  <2>1. ~Free(k)'
    BY <1>0, <1>4 DEF Free
  <2>2. QED
    BY <1>2, <1>3, <1>4, <2>1, JobKept
<1>10. QED
  BY <1>0, <1>2, <1>4, <1>5, <1>6, <1>8, <1>9, StepKeeps DEF HeldOK

\* A call by a client without a job that changes nothing but where the client is and
\* what it has yet to sweep.
LEMMA IdleKeeps ==
  ASSUME PlaceInv, TypeInv, TypeInv', NEW c \in Clients, hand[c] = NoJob,
         UNCHANGED <<keys, hand, copy, wire, ctx, issued, accepted>>,
         \A d \in Clients \ {c} : pc'[d] = pc[d],
         \A s \in Pools : todo'[s] \subseteq todo[s],
         KindOK(c)'
  PROVE  PlaceInv'
<1> USE DEF TypeInv
<1>0. NoJob \notin Jobs
  BY QueueAssumption
<1>1. /\ \A d \in Clients \ {c} : Same(d)
      /\ \A j \in Jobs : Untouched(j)
      /\ hand'[c] = NoJob
  BY DEF keys, Same, Untouched, Live
<1>2. Frame(c, NoJob)
  BY <1>0, <1>1 DEF Frame, TypeOK
<1>3. QED
  BY <1>0, <1>1, <1>2, StepKeeps DEF HeldOK

\* RecoverStale returns.
LEMMA SweepDoneKeeps ==
  ASSUME PlaceInv, TypeInv, TypeInv', NEW s \in Pools, SweepDone(s)
  PROVE  PlaceInv'
<1> USE DEF TypeInv
<1>0. s \in Clients /\ s \notin Workers /\ s \notin Requests
  BY ClientKinds, ClientsAssumption
<1>1. /\ wire[s] = <<>> /\ hand[s] = NoJob /\ KindOK(s)
      /\ UNCHANGED <<keys, hand, copy, wire, todo, ctx, issued, accepted>>
      /\ pc'[s] = "idle" /\ \A d \in Clients \ {s} : pc'[d] = pc[d]
  BY <1>0 DEF SweepDone, Goto, TypeOK, PlaceInv, KindOK, Calls
<1>2. KindOK(s)'
  BY <1>0, <1>1, PipesDiffer DEF KindOK, Calls
<1>3. QED
  BY <1>0, <1>1, <1>2, IdleKeeps

\* A claim is stale only when no worker holds its job, and while nobody sweeps no
\* sweeper does.
LEMMA StaleIsFree ==
  ASSUME PlaceInv, \A s \in Pools : pc[s] = "idle", NEW j \in Jobs, processing[j] = "stale"
  PROVE  Free(j)
<1> SUFFICES ASSUME NEW c \in Clients, hand[c] = j PROVE FALSE
  BY DEF Free
<1>1. PlaceOK(c, j) /\ KindOK(c)
  BY DEF PlaceInv, HeldOK
<1>2. c \notin Workers
  BY <1>1 DEF PlaceOK
<1>3. c \notin Pools
  BY <1>1, PipesDiffer, ClientsAssumption DEF PlaceOK, KindOK, Claiming, Calls
<1>4. c \notin Requests
  BY <1>1, PipesDiffer DEF PlaceOK, KindOK, Claiming, Calls
<1>5. QED
  BY <1>2, <1>3, <1>4 DEF Clients

\* HGETALL of RecoverStale.
LEMMA SnapshotKeeps ==
  ASSUME OneSweep, PlaceInv, TypeInv, TypeInv', NEW s \in Pools, SweepSnapshot(s),
         \A q \in Pools \ {s} : pc[q] = "idle"
  PROVE  PlaceInv'
<1> USE DEF TypeInv
<1>0. s \in Clients /\ s \notin Workers /\ s \notin Requests
  BY ClientKinds, ClientsAssumption
<1>1. /\ wire[s] = <<>> /\ hand[s] = NoJob
      /\ UNCHANGED <<keys, hand, copy, wire, ctx, issued, accepted>>
      /\ pc[s] = "idle" /\ pc'[s] = "sweep" /\ \A d \in Clients \ {s} : Same(d)
      /\ \A q \in Pools : todo'[q] \subseteq StaleClaims
  BY <1>0 DEF SweepSnapshot, At, Goto, TypeOK, PlaceInv, KindOK, Calls, OneSweep, Same, Live
<1>2. \A j \in Jobs : Untouched(j) /\ (Free(j)' <=> Free(j))
  BY <1>1 DEF keys, Untouched, Free
<1>3. Unique'
  BY <1>1 DEF PlaceInv, Unique
<1>4. TodoOK'
  <2> SUFFICES ASSUME NEW q \in Pools, NEW j \in todo'[q] PROVE processing'[j] = "stale" /\ Free(j)'
    BY DEF TodoOK
  <2>1. j \in Jobs /\ processing[j] = "stale"
    BY <1>1 DEF StaleClaims
  <2>2. QED
    BY <1>1, <1>2, <2>1, StaleIsFree DEF keys
<1>5. KindOK(s)' /\ HeldOK(s)'
  BY <1>0, <1>1, PipesDiffer, QueueAssumption DEF KindOK, Calls, HeldOK
<1>6. ASSUME NEW d \in Clients \ {s} PROVE KindOK(d)' /\ HeldOK(d)'
  BY <1>1, <1>2, ClientKept DEF PlaceInv
<1>7. ASSUME NEW j \in Jobs PROVE JobOK(j)'
  BY <1>2, JobKept DEF PlaceInv
<1>8. QED
  BY <1>1, <1>3, <1>4, <1>5, <1>6, <1>7 DEF PlaceInv

\* Enqueue builds its pipeline.
LEMMA EnqueueKeeps ==
  ASSUME PlaceInv, TypeInv, TypeInv', NEW r \in Requests, Enqueue(r)
  PROVE  PlaceInv'
<1> USE DEF TypeInv
<1>0. r \in Clients /\ r \notin Workers /\ r \notin Pools
  BY ClientKinds, ClientsAssumption
<1>1. PICK k : k = hand[r]
  OBVIOUS
<1>2. wire[r] = <<>> /\ pc[r] = "enqueue" /\ k \in Jobs
  BY <1>0, <1>1 DEF Enqueue, At, Coherent, Point
<1>3. /\ KindOK(r)
      /\ PlaceOK(r, k) /\ RecordOK(r, job[k]) /\ CopyOK(r, job[k]) /\ ListOK(r, k)
  BY <1>0, <1>1, <1>2 DEF PlaceInv, HeldOK
<1>4. /\ pc'[r] = "idle" /\ hand'[r] = k /\ wire'[r] = EnqueuePipe /\ copy'[r] = copy[r]
      /\ \A d \in Clients \ {r} : Same(d)
      /\ \A j \in Jobs : Untouched(j)
      /\ UNCHANGED <<keys, ctx, todo, issued, accepted>>
  BY <1>0, <1>1, <1>2 DEF Enqueue, Goto, Send, keys, TypeOK, Same, Untouched, Live
<1>5. KindOK(r)'
  BY <1>0, <1>4, PipesDiffer DEF KindOK, Calls, Home
<1>6. PlaceOK(r, k)'
  BY <1>0, <1>2, <1>3, <1>4, PipesDiffer DEF keys, PlaceOK, Claiming, Calls
<1>7. RecordOK(r, job[k])'
  BY <1>0, <1>2, <1>3, <1>4, PipesDiffer DEF keys, RecordOK, Calls
<1>8. CopyOK(r, job[k])'
  BY <1>0, <1>2, <1>3, <1>4, PipesDiffer DEF keys, CopyOK, Calls
<1>9. ListOK(r, k)'
  BY <1>0, <1>2, <1>3, <1>4, PipesDiffer DEF keys, ListOK, Unlisted, Calls
<1>10. QED
  BY <1>0, <1>1, <1>2, <1>4, <1>5, <1>6, <1>7, <1>8, <1>9, HoldKeeps

\* LREM of RetryDead.
LEMMA UnlistKeeps ==
  ASSUME PlaceInv, TypeInv, TypeInv', NEW r \in Requests, RetryUnlist(r)
  PROVE  PlaceInv'
<1> USE DEF TypeInv
<1>0. r \in Clients /\ r \notin Workers /\ r \notin Pools
  BY ClientKinds, ClientsAssumption
<1>1. PICK k : k = hand[r]
  OBVIOUS
<1>2. wire[r] = <<>> /\ pc[r] = "lrem" /\ k \in Jobs
  BY <1>0, <1>1 DEF RetryUnlist, At, Coherent, Point
<1>3. /\ KindOK(r) /\ JobOK(k)
      /\ PlaceOK(r, k) /\ RecordOK(r, job[k]) /\ CopyOK(r, job[k]) /\ ListOK(r, k)
  BY <1>0, <1>1, <1>2 DEF PlaceInv, HeldOK
<1>4. /\ pc'[r] = "decr" /\ hand'[r] = k /\ wire'[r] = <<>> /\ copy'[r] = copy[r]
      /\ dead'[k] = 0 /\ processing'[k] = processing[k]
      /\ \A d \in Clients \ {r} : Same(d)
      /\ \A j \in Jobs \ {k} : Untouched(j)
      /\ UNCHANGED <<job, pending, processing, ctx, todo, issued, accepted>>
  BY <1>0, <1>1, <1>2 DEF RetryUnlist, Goto, TypeOK, Same, Untouched, Live
<1>5. KindOK(r)'
  BY <1>0, <1>4, PipesDiffer DEF KindOK, Calls
<1>6. PlaceOK(r, k)'
  BY <1>0, <1>2, <1>3, <1>4, PipesDiffer DEF PlaceOK, Claiming, Calls
<1>7. RecordOK(r, job[k])'
  BY <1>0, <1>2, <1>3, <1>4, PipesDiffer DEF RecordOK, Calls
<1>8. CopyOK(r, job[k])'
  BY <1>0, <1>2, <1>3, <1>4, PipesDiffer DEF CopyOK, Calls
<1>9. ListOK(r, k)'
  BY <1>0, <1>2, <1>3, <1>4, PipesDiffer, RecordKinds DEF ListOK, Unlisted, Calls, RecordOK
<1>10. JobOK(k)'
  <2>1. ~Free(k)' /\ k \notin pending /\ k \in issued
    BY <1>0, <1>3, <1>4 DEF Free, PlaceOK
  <2>2. QED
    BY <1>3, <1>4, <2>1 DEF JobOK, StoredOK, QueuedOK, ListedOK, KeptOK
<1>11. QED
  BY <1>0, <1>1, <1>2, <1>4, <1>5, <1>6, <1>7, <1>8, <1>9, <1>10, WorkKeeps

\* RetryDead goes on to Enqueue, whatever DECR returns.
LEMMA CountKeeps ==
  ASSUME PlaceInv, TypeInv, TypeInv', NEW r \in Requests,
         pc[r] = "decr", wire[r] = <<>>, Load(r, FreshJob), Goto(r, "enqueue"),
         UNCHANGED <<job, pending, processing, dead, hand, wire, todo, ctx, issued, accepted>>
  PROVE  PlaceInv'
<1> USE DEF TypeInv
<1>0. r \in Clients /\ r \notin Workers /\ r \notin Pools
  BY ClientKinds, ClientsAssumption
<1>1. PICK k : k = hand[r]
  OBVIOUS
<1>2. k \in Jobs
  BY <1>0, <1>1 DEF Coherent, Point
<1>3. /\ KindOK(r)
      /\ PlaceOK(r, k) /\ RecordOK(r, job[k]) /\ CopyOK(r, job[k]) /\ ListOK(r, k)
  BY <1>0, <1>1, <1>2 DEF PlaceInv, HeldOK
<1>4. /\ pc'[r] = "enqueue" /\ hand'[r] = k /\ wire'[r] = <<>> /\ copy'[r] = FreshJob
      /\ \A d \in Clients \ {r} : Same(d)
      /\ \A j \in Jobs : Untouched(j)
  BY <1>0, <1>1, <1>2 DEF Goto, Load, TypeOK, Same, Untouched, Live
<1>5. KindOK(r)'
  BY <1>0, <1>4, PipesDiffer DEF KindOK, Calls
<1>6. PlaceOK(r, k)'
  BY <1>0, <1>2, <1>3, <1>4, PipesDiffer DEF PlaceOK, Claiming, Calls
<1>7. RecordOK(r, job[k])'
  BY <1>0, <1>2, <1>3, <1>4, PipesDiffer DEF RecordOK, Calls
<1>8. CopyOK(r, job[k])'
  BY <1>0, <1>2, <1>3, <1>4, PipesDiffer DEF CopyOK, Calls
<1>9. ListOK(r, k)'
  BY <1>0, <1>2, <1>3, <1>4, PipesDiffer DEF ListOK, Unlisted, Calls
<1>10. QED
  BY <1>0, <1>1, <1>2, <1>4, <1>5, <1>6, <1>7, <1>8, <1>9, HoldKeeps

\* SubmitJob makes a new id.
LEMMA SubmitKeeps ==
  ASSUME PlaceInv, TypeInv, TypeInv', NEW r \in Requests, NEW k \in Jobs, Submit(r, k)
  PROVE  PlaceInv'
<1> USE DEF TypeInv
<1>0. r \in Clients /\ r \notin Workers /\ r \notin Pools /\ NoJob \notin Jobs
  BY ClientKinds, ClientsAssumption, QueueAssumption
<1>1. /\ wire[r] = <<>> /\ pc[r] = "idle" /\ hand[r] = NoJob /\ k \notin issued
  BY <1>0 DEF Submit, PlaceInv, KindOK, Calls
<1>2. /\ JobOK(k) /\ KindOK(r)
      /\ job[k] = NoRecord /\ processing[k] = "none" /\ dead[k] = 0 /\ k \notin accepted
      /\ k \notin pending
  BY <1>0, <1>1 DEF PlaceInv, JobOK, QueuedOK, StoredOK
<1>3. Free(k)
  BY <1>1 DEF PlaceInv, HeldOK, PlaceOK, Free
<1>4. /\ pc'[r] = "enqueue" /\ hand'[r] = k /\ wire'[r] = <<>> /\ copy'[r] = FreshJob
      /\ \A d \in Clients \ {r} : Same(d)
      /\ \A j \in Jobs \ {k} : Untouched(j)
      /\ UNCHANGED <<keys, ctx, todo, accepted>>
      /\ k \in issued'
  BY <1>0, <1>1 DEF Submit, Goto, Take, Load, keys, TypeOK, Same, Untouched, Live
<1>5. Frame(r, k)
  BY <1>1, <1>2, <1>3, <1>4 DEF Frame, Free, PlaceInv, TodoOK, TypeOK
<1>6. KindOK(r)'
  BY <1>0, <1>4, PipesDiffer DEF KindOK, Calls
<1>7. PlaceOK(r, k)' /\ RecordOK(r, job[k])' /\ CopyOK(r, job[k])' /\ ListOK(r, k)'
  <2>1. PlaceOK(r, k)'
    BY <1>0, <1>2, <1>4, PipesDiffer DEF keys, PlaceOK, Claiming, Calls
  <2>2. RecordOK(r, job[k])'
    BY <1>0, <1>2, <1>4, PipesDiffer DEF keys, RecordOK, Calls
  <2>3. CopyOK(r, job[k])'
    BY <1>0, <1>4, PipesDiffer DEF keys, CopyOK, Calls
  <2>4. ListOK(r, k)'
    BY <1>0, <1>2, <1>4, PipesDiffer DEF keys, ListOK, Unlisted, Calls
  <2>5. QED
    BY <2>1, <2>2, <2>3, <2>4
<1>8. JobOK(k)'
  <2>1. ~Free(k)'
    BY <1>0, <1>4 DEF Free
  <2>2. QED
    BY <1>2, <1>4, <2>1, RecordKinds DEF keys, JobOK, StoredOK, QueuedOK, ListedOK, KeptOK
<1>9. QED
  BY <1>0, <1>1, <1>4, <1>5, <1>6, <1>7, <1>8, StepKeeps DEF HeldOK

\* RetryDead takes up a dead job that nobody else works on.
LEMMA RetryReadKeeps ==
  ASSUME PlaceInv, TypeInv, TypeInv', NEW r \in Requests, NEW k \in Jobs, RetryRead(r, k),
         \A c \in Clients \ {r} : hand[c] # k
  PROVE  PlaceInv'
<1> USE DEF TypeInv
<1>0. r \in Clients /\ r \notin Workers /\ r \notin Pools /\ NoJob \notin Jobs
  BY ClientKinds, ClientsAssumption, QueueAssumption
<1>1. wire[r] = <<>> /\ pc[r] = "idle" /\ hand[r] = NoJob /\ job[k].status = "dead"
  BY <1>0 DEF RetryRead, At, PlaceInv, KindOK, Calls
<1>2. /\ JobOK(k) /\ KindOK(r)
      /\ job[k] # NoRecord /\ Dead(job[k]) /\ ~Going(job[k])
  BY <1>0, <1>1 DEF PlaceInv, JobOK, StoredOK, NoRecord, Done, Going
<1>3. Free(k)
  BY <1>0, <1>1 DEF Free
<1>4. k \notin pending /\ processing[k] = "none" /\ k \in accepted /\ k \in issued
  BY <1>2, <1>3 DEF JobOK, QueuedOK, StoredOK
<1>5. /\ pc'[r] = "lrem" /\ hand'[r] = k /\ wire'[r] = <<>> /\ copy'[r] = copy[r]
      /\ \A d \in Clients \ {r} : Same(d)
      /\ \A j \in Jobs : Untouched(j)
      /\ UNCHANGED <<keys, ctx, todo, issued, accepted>>
  BY <1>0, <1>1 DEF RetryRead, Goto, Take, keys, TypeOK, Same, Untouched, Live
<1>6. Frame(r, k)
  BY <1>1, <1>3, <1>4, <1>5 DEF Frame, Free, PlaceInv, TodoOK, TypeOK
<1>7. KindOK(r)'
  BY <1>0, <1>5, PipesDiffer DEF KindOK, Calls
<1>8. PlaceOK(r, k)' /\ RecordOK(r, job[k])' /\ CopyOK(r, job[k])' /\ ListOK(r, k)'
  <2>1. PlaceOK(r, k)'
    BY <1>0, <1>4, <1>5, PipesDiffer DEF keys, PlaceOK, Claiming, Calls
  <2>2. RecordOK(r, job[k])'
    BY <1>0, <1>2, <1>5, PipesDiffer DEF keys, RecordOK, Calls
  <2>3. CopyOK(r, job[k])'
    BY <1>0, <1>5, PipesDiffer DEF keys, CopyOK, Calls
  <2>4. Whole => dead[k] = 1
    BY <1>2, <1>3 DEF JobOK, ListedOK
  <2>5. ListOK(r, k)'
    BY <1>0, <1>2, <1>5, <2>4, PipesDiffer DEF keys, ListOK, Unlisted, Calls
  <2>6. QED
    BY <2>1, <2>2, <2>3, <2>5
<1>9. JobOK(k)'
  <2>1. ~Free(k)'
    BY <1>0, <1>5 DEF Free
  <2>2. QED
    BY <1>2, <1>5, <2>1, JobKept
<1>10. QED
  BY <1>0, <1>1, <1>5, <1>6, <1>7, <1>8, <1>9, StepKeeps DEF HeldOK

-----------------------------------------------------------------------------
(***************************************************************************)
(* Errors, time and failures.                                              *)
(***************************************************************************)

\* The context of a live process: without shutdowns every process is live.
LEMMA AlwaysLive ==
  ASSUME PlaceInv, NEW c \in Clients, ~Shutdowns
  PROVE  Live(c)
BY ClientKinds DEF PlaceInv, Live

\* Dequeue ignores the error of the SET that stores "processing".
LEMMA MarkErrorKeeps ==
  ASSUME PlaceInv, TypeInv, TypeInv', NEW w \in Clients, ~(Marked /\ Live(w)),
         pc[w] = "mark", wire[w] = <<>>, Load(w, NoRecord), Goto(w, "run"),
         UNCHANGED <<keys, hand, wire, todo, ctx, issued, accepted>>
  PROVE  PlaceInv'
<1> USE DEF TypeInv
<1>0. KindOK(w) /\ w \in Workers /\ w \notin Pools /\ w \notin Requests
  BY ClientsAssumption DEF PlaceInv, KindOK, Clients
<1>1. PICK k : k = hand[w]
  OBVIOUS
<1>2. k \in Jobs
  BY <1>1 DEF Coherent, Point
<1>3. PlaceOK(w, k) /\ RecordOK(w, job[k]) /\ CopyOK(w, job[k]) /\ ListOK(w, k)
  BY <1>0, <1>1, <1>2 DEF PlaceInv, HeldOK
<1>4. /\ pc'[w] = "run" /\ hand'[w] = k /\ wire'[w] = <<>>
      /\ \A d \in Clients \ {w} : Same(d)
      /\ \A j \in Jobs : Untouched(j)
      /\ ~(Marked /\ Live(w)')
  BY <1>0, <1>1, <1>2 DEF Goto, Load, keys, TypeOK, Same, Untouched, Live
<1>5. KindOK(w)'
  BY <1>0, <1>4, PipesDiffer DEF KindOK, Calls
<1>6. PlaceOK(w, k)'
  BY <1>0, <1>3, <1>4, PipesDiffer DEF keys, PlaceOK, Claiming, Calls
<1>7. RecordOK(w, job[k])'
  BY <1>0, <1>3, <1>4, PipesDiffer DEF keys, RecordOK, Calls
<1>8. CopyOK(w, job[k])'
  BY <1>0, <1>3, <1>4, PipesDiffer DEF keys, CopyOK, Calls
<1>9. ListOK(w, k)'
  BY <1>0, <1>3, <1>4, PipesDiffer DEF keys, ListOK, Unlisted, Calls
<1>10. QED
  BY <1>0, <1>1, <1>2, <1>4, <1>5, <1>6, <1>7, <1>8, <1>9, HoldKeeps

\* RetryDead ignores the error of LREM, and the id stays in the list.
LEMMA UnlistErrorKeeps ==
  ASSUME PlaceInv, TypeInv, TypeInv', NEW r \in Clients, ~Whole,
         pc[r] = "lrem", wire[r] = <<>>, Goto(r, "decr"),
         UNCHANGED <<keys, hand, copy, wire, todo, ctx, issued, accepted>>
  PROVE  PlaceInv'
<1> USE DEF TypeInv
<1>0. KindOK(r) /\ r \in Requests /\ r \notin Pools /\ r \notin Workers
  BY ClientsAssumption DEF PlaceInv, KindOK, Clients
<1>1. PICK k : k = hand[r]
  OBVIOUS
<1>2. k \in Jobs
  BY <1>1 DEF Coherent, Point
<1>3. PlaceOK(r, k) /\ RecordOK(r, job[k]) /\ CopyOK(r, job[k]) /\ ListOK(r, k)
  BY <1>0, <1>1, <1>2 DEF PlaceInv, HeldOK
<1>4. /\ pc'[r] = "decr" /\ hand'[r] = k /\ wire'[r] = <<>> /\ copy'[r] = copy[r]
      /\ \A d \in Clients \ {r} : Same(d)
      /\ \A j \in Jobs : Untouched(j)
  BY <1>0, <1>1, <1>2 DEF Goto, keys, TypeOK, Same, Untouched, Live
<1>5. KindOK(r)'
  BY <1>0, <1>4, PipesDiffer DEF KindOK, Calls
<1>6. PlaceOK(r, k)'
  BY <1>0, <1>3, <1>4, PipesDiffer DEF keys, PlaceOK, Claiming, Calls
<1>7. RecordOK(r, job[k])'
  BY <1>0, <1>3, <1>4, PipesDiffer DEF keys, RecordOK, Calls
<1>8. CopyOK(r, job[k])'
  BY <1>0, <1>3, <1>4, PipesDiffer DEF keys, CopyOK, Calls
<1>9. ListOK(r, k)'
  BY <1>0, <1>3, <1>4 DEF keys, ListOK
<1>10. QED
  BY <1>0, <1>1, <1>2, <1>4, <1>5, <1>6, <1>7, <1>8, <1>9, HoldKeeps

\* A call fails: Redis returns an error, or the context is cancelled.
LEMMA ErrorKeeps ==
  ASSUME PlaceInv, TypeInv, TypeInv', NEW c \in Clients, CallError(c), wire[c] = <<>>,
         \/ pc[c] \in ErrorAt
         \/ ~Live(c) /\ c \in Workers \cup Pools
  PROVE  PlaceInv'
<1> USE DEF TypeInv
<1>0. /\ UNCHANGED <<keys, ctx, issued, accepted>>
      /\ Point(c) = pc[c]
  BY DEF CallError, Point
<1>1. /\ Marked => pc[c] # "mark" \/ ~Live(c)
      /\ Safe => pc[c] \notin {"hset", "requeue"}
      /\ Whole => pc[c] \notin {"lrem", "decr", "enqueue"} \/ pc[c] = "decr"
      /\ Whole => pc[c] # "lrem"
  <2>1. CASE pc[c] \in ErrorAt
    BY <2>1 DEF Marked, Safe, Whole
  <2>2. CASE ~Live(c) /\ c \in Workers \cup Pools
    BY <2>2, AlwaysLive, ClientsAssumption DEF Safe, PlaceInv, KindOK
  <2>3. QED
    BY <2>1, <2>2
<1>2. CASE pc[c] = "mark"
  BY <1>0, <1>1, <1>2, MarkErrorKeeps DEF CallError
<1>3. CASE pc[c] = "lrem"
  BY <1>0, <1>1, <1>3, UnlistErrorKeeps DEF CallError
<1>4. CASE pc[c] = "decr"
  <2>1. c \in Requests
    BY <1>4 DEF PlaceInv, KindOK, Clients
  <2>2. /\ Load(c, FreshJob) /\ Goto(c, "enqueue")
        /\ UNCHANGED <<job, pending, processing, dead, hand, wire, todo, ctx, issued, accepted>>
    BY <1>0, <1>4 DEF CallError, keys
  <2>3. QED
    BY <1>4, <2>1, <2>2, CountKeeps
<1>5. CASE pc[c] = "sweep"
  <2>1. PICK k \in todo[c] : todo' = [todo EXCEPT ![c] = @ \ {k}]
    BY <1>0, <1>5 DEF CallError
  <2>2. UNCHANGED <<pc, hand, copy, wire>>
    BY <1>0, <1>5 DEF CallError
  <2>3. \A s \in Pools : todo'[s] \subseteq todo[s]
    BY <2>1 DEF TypeOK
  <2>4. hand[c] = NoJob /\ KindOK(c)'
    BY <1>5, <2>2 DEF PlaceInv, KindOK, Calls, Home
  <2>5. QED
    BY <1>0, <2>2, <2>3, <2>4, IdleKeeps
<1>6. CASE pc[c] \in {"hset", "get", "complete", "fail", "requeue", "hdel", "enqueue"}
  <2>1. Abandon(c) /\ UNCHANGED todo
    BY <1>0, <1>6 DEF CallError
  <2>2. \A s \in Pools : todo'[s] \subseteq todo[s]
    BY <2>1
  <2>3. Whole => pc[c] \notin {"lrem", "decr", "enqueue"}
    BY <1>1, <1>6
  <2>4. QED
    BY <1>0, <1>1, <2>1, <2>2, <2>3, AbandonKeeps
<1>7. pc[c] \in {"mark", "lrem", "decr", "sweep", "hset", "get", "complete", "fail", "requeue",
                "hdel", "enqueue", "pipeline"}
  BY <1>0 DEF CallError
<1>8. pc[c] # "pipeline"
  BY DEF TypeOK, ProgramPoints
<1>9. QED
  BY <1>2, <1>3, <1>4, <1>5, <1>6, <1>7, <1>8

\* Nothing that the invariant speaks of changes.
LEMMA QuietKeeps ==
  ASSUME PlaceInv, TypeInv,
         UNCHANGED <<job, pending, processing, dead, memory, ctx, issued, accepted>>
  PROVE  PlaceInv'
<1>1. \A c \in Clients : Same(c)
  BY DEF memory, Same, Live
<1>2. \A j \in Jobs : Untouched(j) /\ (Free(j)' <=> Free(j))
  BY DEF memory, Untouched, Free
<1>3. Unique' /\ TodoOK'
  BY <1>2 DEF memory, PlaceInv, Unique, TodoOK, TypeInv, TypeOK, Free
<1>4. \A c \in Clients : KindOK(c)' /\ HeldOK(c)'
  BY <1>1, <1>2, ClientKept DEF PlaceInv
<1>5. \A j \in Jobs : JobOK(j)'
  BY <1>2, JobKept DEF PlaceInv
<1>6. QED
  BY <1>3, <1>4, <1>5 DEF PlaceInv

\* Five minutes pass for a claim that no worker is working on.
LEMMA GoStaleKeeps ==
  ASSUME PlaceInv, TypeInv, NEW k \in Jobs, GoStale(k)
  PROVE  PlaceInv'
<1> USE DEF TypeInv
<1>1. /\ processing[k] = "fresh" /\ processing'[k] = "stale"
      /\ \A w \in Workers : hand[w] # k
      /\ UNCHANGED <<job, pending, dead, memory, ctx, issued, accepted>>
      /\ \A j \in Jobs \ {k} : processing'[j] = processing[j]
  BY DEF GoStale, TypeOK
<1>2. \A c \in Clients : Same(c)
  BY <1>1 DEF memory, Same, Live
<1>3. /\ \A j \in Jobs \ {k} : Untouched(j)
      /\ \A j \in Jobs : Free(j)' <=> Free(j)
  BY <1>1 DEF memory, Untouched, Free
<1>4. Unique' /\ TodoOK'
  BY <1>1, <1>3 DEF memory, PlaceInv, Unique, TodoOK, TypeOK, Free
<1>5. ASSUME NEW c \in Clients PROVE KindOK(c)' /\ HeldOK(c)'
  <2>1. CASE hand[c] # k
    BY <1>2, <1>3, <2>1, ClientKept DEF PlaceInv
  <2>2. CASE hand[c] = k
    <3>1. /\ KindOK(c) /\ c \notin Workers
          /\ PlaceOK(c, k) /\ RecordOK(c, job[k]) /\ CopyOK(c, job[k]) /\ ListOK(c, k)
      BY <1>1, <2>2 DEF PlaceInv, HeldOK
    <3>2. KindOK(c)'
      BY <1>1, <3>1 DEF memory, KindOK, Calls
    <3>3. PlaceOK(c, k)'
      BY <1>1, <3>1 DEF memory, PlaceOK, Claiming, Calls
    <3>4. RecordOK(c, job[k])' /\ CopyOK(c, job[k])' /\ ListOK(c, k)'
      <4>1. UNCHANGED <<job, dead, pc, wire, copy, ctx, accepted>>
        BY <1>1 DEF memory
      <4>2. RecordOK(c, job[k])'
        BY <3>1, <4>1 DEF RecordOK, Calls, Live
      <4>3. CopyOK(c, job[k])'
        BY <3>1, <4>1 DEF CopyOK, Calls
      <4>4. ListOK(c, k)'
        BY <3>1, <4>1 DEF ListOK, Unlisted, Calls
      <4>5. QED
        BY <4>2, <4>3, <4>4
    <3>5. hand'[c] = k
      BY <1>1, <2>2 DEF memory
    <3>6. QED
      BY <3>2, <3>3, <3>4, <3>5 DEF HeldOK
  <2>3. QED
    BY <2>1, <2>2
<1>6. ASSUME NEW j \in Jobs PROVE JobOK(j)'
  <2>1. CASE j # k
    BY <1>3, <2>1, JobKept DEF PlaceInv
  <2>2. CASE j = k
    BY <1>1, <1>3, <2>2 DEF PlaceInv, JobOK, StoredOK, QueuedOK, ListedOK, KeptOK
  <2>3. QED
    BY <2>1, <2>2
<1>7. QED
  BY <1>1, <1>4, <1>5, <1>6 DEF PlaceInv

\* A record expires: its job is settled, so nobody holds it.
LEMMA ExpireKeeps ==
  ASSUME PlaceInv, TypeInv, NEW k \in Jobs, Expire(k)
  PROVE  PlaceInv'
<1> USE DEF TypeInv
<1>1. /\ job[k].ttl /\ job'[k] = NoRecord
      /\ \A j \in Jobs \ {k} : job'[j] = job[j]
      /\ UNCHANGED <<pending, processing, dead, memory, ctx, issued, accepted>>
  BY DEF Expire, TypeOK
<1>2. ~Going(job[k]) /\ job[k] # NoRecord /\ JobOK(k)
  BY <1>1 DEF Going, NoRecord, PlaceInv
<1>3. Free(k)
  <2> SUFFICES ASSUME NEW c \in Clients, hand[c] = k PROVE FALSE
    BY DEF Free
  <2>1. pc[c] = "run" /\ wire[c] = <<>>
    BY DEF Expire, Coherent
  <2>2. KindOK(c) /\ RecordOK(c, job[k])
    BY DEF PlaceInv, HeldOK
  <2>3. c \notin Requests
    BY <2>1, <2>2 DEF KindOK
  <2>4. QED
    BY <1>2, <2>1, <2>2, <2>3 DEF RecordOK
<1>4. k \notin pending /\ processing[k] = "none"
  BY <1>2, <1>3 DEF JobOK, QueuedOK
<1>5. /\ \A c \in Clients : Same(c)
      /\ \A j \in Jobs \ {k} : Untouched(j)
      /\ \A j \in Jobs : Free(j)' <=> Free(j)
  BY <1>1 DEF memory, Same, Live, Untouched, Free
<1>6. Unique' /\ TodoOK'
  BY <1>1, <1>5 DEF memory, PlaceInv, Unique, TodoOK, TypeOK, Free
<1>7. \A c \in Clients : KindOK(c)' /\ HeldOK(c)'
  BY <1>3, <1>5, ClientKept DEF PlaceInv, Free
<1>8. ASSUME NEW j \in Jobs PROVE JobOK(j)'
  <2>1. CASE j # k
    BY <1>5, <2>1, JobKept DEF PlaceInv
  <2>2. CASE j = k
    BY <1>1, <1>2, <1>4, <2>2, RecordKinds DEF JobOK, StoredOK, QueuedOK, ListedOK, KeptOK
  <2>3. QED
    BY <2>1, <2>2
<1>9. QED
  BY <1>1, <1>6, <1>7, <1>8 DEF PlaceInv

\* SIGTERM changes nothing but the context.
LEMMA ShutdownKeeps ==
  ASSUME PlaceInv, TypeInv, NEW p \in Pools, Shutdown(p)
  PROVE  PlaceInv'
<1> USE DEF TypeInv
<1>1. /\ Shutdowns /\ UNCHANGED <<keys, memory, issued, accepted>>
      /\ \A q \in Pools : ctx'[q] = "live" => ctx[q] = "live"
  BY DEF Shutdown, TypeOK
<1>2. \A c \in Clients : Same(c)
  BY <1>1, ClientKinds DEF memory, Same, Live
<1>3. \A j \in Jobs : Untouched(j) /\ (Free(j)' <=> Free(j))
  BY <1>1 DEF memory, keys, Untouched, Free
<1>4. Unique' /\ TodoOK'
  BY <1>1, <1>3 DEF memory, keys, PlaceInv, Unique, TodoOK, TypeOK, Free
<1>5. \A c \in Clients : KindOK(c)' /\ HeldOK(c)'
  BY <1>2, <1>3, ClientKept DEF PlaceInv
<1>6. \A j \in Jobs : JobOK(j)'
  BY <1>3, JobKept DEF PlaceInv
<1>7. QED
  BY <1>1, <1>4, <1>5, <1>6 DEF PlaceInv

\* A new process has no goroutine in the middle of an operation.
LEMMA RestartKeeps ==
  ASSUME PlaceInv, TypeInv, NEW p \in Pools, Restart(p)
  PROVE  PlaceInv'
<1> USE DEF TypeInv
<1>1. /\ UNCHANGED <<keys, memory, issued, accepted>>
      /\ \A c \in Process(p) : Point(c) = "idle"
      /\ \A q \in Pools : ctx'[q] = (IF q = p THEN "live" ELSE ctx[q])
  BY DEF Restart, TypeOK
<1>2. \A j \in Jobs : Untouched(j) /\ (Free(j)' <=> Free(j))
  BY <1>1 DEF memory, keys, Untouched, Free
<1>3. Unique' /\ TodoOK'
  BY <1>1, <1>2 DEF memory, keys, PlaceInv, Unique, TodoOK, TypeOK, Free
<1>4. UNCHANGED <<job, pending, processing, dead, pc, hand, wire, copy, issued, accepted>>
  BY <1>1 DEF memory, keys
<1>5. ASSUME NEW c \in Clients PROVE KindOK(c)' /\ HeldOK(c)'
  <2>1. KindOK(c)'
    BY <1>4 DEF PlaceInv, KindOK, Calls
  <2>2. ASSUME NEW k \in Jobs, hand[c] = k
        PROVE  PlaceOK(c, k)' /\ RecordOK(c, job[k])' /\ CopyOK(c, job[k])' /\ ListOK(c, k)'
    <3>1. /\ KindOK(c)
          /\ PlaceOK(c, k) /\ RecordOK(c, job[k]) /\ CopyOK(c, job[k]) /\ ListOK(c, k)
      BY <2>2 DEF PlaceInv, HeldOK
    <3>2. Calls(c, {"run", "complete", "fail"}) /\ Live(c)' => Live(c)
      <4> SUFFICES ASSUME Calls(c, {"run", "complete", "fail"}) PROVE Live(c)' => Live(c)
        OBVIOUS
      <4>1. c \in Workers
        BY <3>1 DEF Calls, KindOK, Clients
      <4>2. PoolOf[c] # p
        BY <1>1, <4>1 DEF Process, Point, Calls
      <4>3. QED
        BY <1>1, <4>1, <4>2, ClientKinds DEF Live
    <3>3. PlaceOK(c, k)'
      BY <1>4, <3>1 DEF PlaceOK, Claiming, Calls
    <3>4. RecordOK(c, job[k])'
      BY <1>4, <3>1, <3>2 DEF RecordOK, Calls
    <3>5. CopyOK(c, job[k])'
      BY <1>4, <3>1 DEF CopyOK, Calls
    <3>6. ListOK(c, k)'
      BY <1>4, <3>1 DEF ListOK, Unlisted, Calls
    <3>7. QED
      BY <3>3, <3>4, <3>5, <3>6
  <2>3. QED
    BY <1>4, <2>1, <2>2 DEF HeldOK
<1>6. \A j \in Jobs : JobOK(j)'
  BY <1>2, JobKept DEF PlaceInv
<1>7. QED
  BY <1>1, <1>3, <1>5, <1>6 DEF PlaceInv

\* A process is killed between two round trips of each of its clients.
LEMMA CrashKeeps ==
  ASSUME Orderly, PlaceInv, TypeInv, NEW p \in Pools \cup Requests, Crash(p)
  PROVE  PlaceInv'
<1> USE DEF TypeInv
<1>0. NoJob \notin Jobs
  BY QueueAssumption
<1> DEFINE killed == Process(p)
<1>1. /\ \A c \in killed : c \in Clients /\ wire[c] = <<>> /\ pc[c] \in CrashAt
      /\ \A c \in killed : pc'[c] = "idle" /\ hand'[c] = NoJob /\ wire'[c] = <<>>
      /\ \A c \in Clients \ killed : pc'[c] = pc[c] /\ hand'[c] = hand[c]
                                     /\ copy'[c] = copy[c] /\ wire'[c] = wire[c]
      /\ \A s \in Pools : todo'[s] \subseteq todo[s]
      /\ \A s \in Pools : ctx'[s] = (IF s = p THEN "live" ELSE ctx[s])
      /\ UNCHANGED <<keys, issued, accepted>>
  <2>1. \A c \in killed : c \in Clients
    BY ClientKinds DEF Process
  <2>2. \A c \in killed : wire[c] = <<>> /\ pc[c] \in CrashAt
    BY DEF Crash, Point, Orderly
  <2>3. \A c \in Clients : /\ pc'[c] = IF c \in killed THEN "idle" ELSE pc[c]
                           /\ hand'[c] = IF c \in killed THEN NoJob ELSE hand[c]
                           /\ copy'[c] = IF c \in killed THEN NoRecord ELSE copy[c]
                           /\ wire'[c] = IF c \in killed THEN <<>> ELSE wire[c]
    BY DEF Crash
  <2>4. QED
    BY <2>1, <2>2, <2>3 DEF Crash
<1>2. \A d \in Clients \ killed : Same(d)
  <2> SUFFICES ASSUME NEW d \in Clients \ killed PROVE Live(d)' => Live(d)
    BY <1>1 DEF Same
  <2>1. d \in Pools => d # p
    BY DEF Process
  <2>2. d \in Workers => PoolOf[d] \in Pools /\ PoolOf[d] # p
    BY ClientKinds DEF Process
  <2>3. QED
    BY <1>1, <2>1, <2>2 DEF Live
<1> HIDE DEF killed
<1>3. \A j \in Jobs : Untouched(j)
  BY <1>1 DEF keys, Untouched
<1>4. ASSUME NEW j \in Jobs, \A c \in killed : hand[c] # j
      PROVE  Free(j)' => Free(j)
  BY <1>0, <1>1, <1>4 DEF Free
<1>5. Unique'
  BY <1>0, <1>1 DEF PlaceInv, Unique
<1>6. TodoOK'
  <2> SUFFICES ASSUME NEW s \in Pools, NEW j \in todo'[s] PROVE processing'[j] = "stale" /\ Free(j)'
    BY DEF TodoOK
  <2>1. j \in Jobs /\ processing[j] = "stale" /\ Free(j)
    BY <1>1 DEF TypeOK, PlaceInv, TodoOK
  <2>2. Free(j)'
    BY <1>0, <1>1, <2>1 DEF Free
  <2>3. QED
    BY <1>1, <2>1, <2>2 DEF keys
<1>7. ASSUME NEW c \in Clients PROVE KindOK(c)' /\ HeldOK(c)'
  <2>1. CASE c \in killed
    BY <1>0, <1>1, <2>1, PipesDiffer DEF KindOK, HeldOK, Calls
  <2>2. CASE c \notin killed
    BY <1>2, <1>3, <2>2, ClientKept DEF PlaceInv
  <2>3. QED
    BY <2>1, <2>2
<1>8. ASSUME NEW j \in Jobs PROVE JobOK(j)'
  <2>1. CASE \E c \in killed : hand[c] = j
    <3>1. PICK c \in killed : hand[c] = j
      BY <2>1
    <3>2. /\ c \in Clients /\ wire[c] = <<>>
          /\ Safe => pc[c] \notin {"hset", "requeue"}
          /\ Whole => pc[c] \notin {"lrem", "decr", "enqueue"}
      BY <1>1 DEF Safe, Whole
    <3>3. QED
      BY <1>1, <3>1, <3>2, ForgetJob
  <2>2. CASE \A c \in killed : hand[c] # j
    BY <1>3, <1>4, <2>2, JobKept DEF PlaceInv
  <2>3. QED
    BY <2>1, <2>2
<1>9. QED
  BY <1>1, <1>5, <1>6, <1>7, <1>8 DEF PlaceInv

-----------------------------------------------------------------------------
(***************************************************************************)
(* The invariant, and what it implies.                                     *)
(***************************************************************************)

\* The invariant holds at first, and every step keeps it.
LEMMA PlaceInit == Init => PlaceInv
<1> SUFFICES ASSUME Init PROVE PlaceInv
  OBVIOUS
<1>0. NoJob \notin Jobs
  BY QueueAssumption
<1>1. Unique /\ TodoOK
  BY <1>0 DEF Init, Unique, TodoOK
<1>2. \A c \in Clients : KindOK(c) /\ HeldOK(c)
  BY <1>0, PipesDiffer DEF Init, KindOK, HeldOK, Calls
<1>3. ASSUME NEW j \in Jobs PROVE JobOK(j)
  <2>1. job[j] = NoRecord /\ processing[j] = "none" /\ dead[j] = 0 /\ pending = {} /\ accepted = {}
    BY DEF Init
  <2>2. QED
    BY <2>1, RecordKinds DEF JobOK, StoredOK, QueuedOK, ListedOK, KeptOK
<1>4. QED
  BY <1>1, <1>2, <1>3 DEF Init, PlaceInv

\* A step that starts no sweep: no process enters one, and a snapshot is only used up.
SweepsGoOn ==
  \A s \in Pools : /\ pc'[s] # "idle" => pc[s] # "idle"
                   /\ todo'[s] # {} => todo[s] # {} /\ pc'[s] # "idle"

\* A sweep is entered only through its snapshot.
LEMMA SweepSteps ==
  ASSUME PlaceInv, TypeInv, OneSweep,
         Continue \/ \E r \in Requests, j \in Jobs : RetryJob(r, j)
  PROVE  SweepsGoOn
<1> USE ClientKinds, ClientsAssumption DEF TypeInv, TypeOK, OneSweep, SweepsGoOn
<1>1. ASSUME NEW c \in Clients, ExecCommand(c) PROVE SweepsGoOn
  BY <1>1 DEF ExecCommand, ExecSet, ExecZAdd, ExecHDel, ExecLPush, ExecIncr, Execute
<1>2. ASSUME NEW w \in Workers, DequeueEmpty(w) \/ WorkerStep(w) PROVE SweepsGoOn
  <2>1. CASE ExecCommand(w)
    BY <1>1, <2>1
  <2>2. CASE ~ExecCommand(w)
    <3>1. /\ UNCHANGED todo
          /\ pc' = pc \/ \E l : pc' = [pc EXCEPT ![w] = l]
      BY <1>2, <2>2 DEF DequeueEmpty, qvars, memory, WorkerStep, DequeuePop, DequeueClaim,
         DequeueRead, DequeueMark, Run, Complete, Fail, Requeue, Abandon, Goto
    <3>2. \A s \in Pools : pc'[s] = pc[s]
      BY <3>1
    <3>3. QED
      BY <3>1, <3>2
  <2>3. QED
    BY <2>1, <2>2
<1>3. ASSUME NEW s \in Pools, SweepOn(s) PROVE SweepsGoOn
  <2>1. CASE SweepDone(s)
    BY <2>1 DEF SweepDone, Goto
  <2>2. CASE SweepRead(s)
    BY <2>2 DEF SweepRead, At, Goto
  <2>3. CASE SweepRelease(s) \/ Requeue(s)
    BY <2>3 DEF SweepRelease, Requeue, At, Goto, Home
  <2>4. QED
    BY <1>1, <1>3, <2>1, <2>2, <2>3 DEF SweepOn
<1>4. ASSUME NEW r \in Requests, RequestStep(r) PROVE SweepsGoOn
  BY <1>1, <1>4 DEF RequestStep, RetryUnlist, RetryCount, Enqueue, Goto
<1>5. ASSUME NEW r \in Requests, NEW j \in Jobs, Submit(r, j) \/ RetryJob(r, j) PROVE SweepsGoOn
  BY <1>5 DEF Submit, RetryJob, RetryRead, Goto
<1>6. ASSUME NEW j \in Jobs, GoStale(j) \/ Expire(j) \/ Overrun(j) PROVE SweepsGoOn
  BY <1>6 DEF GoStale, Expire, Overrun, memory
<1>7. ASSUME NEW c \in Clients, RedisError(c) \/ CtxError(c) PROVE SweepsGoOn
  <2>1. CallError(c)
    BY <1>7 DEF RedisError, CtxError
  <2>2. CASE c \in Pools
    <3>1. pc[c] # "idle" /\ Home(c) = "sweep" /\ pc[c] \notin {"mark", "lrem", "decr"}
      BY <2>1, <2>2, PipesDiffer DEF PlaceInv, KindOK, CallError, Point, Home
    <3>2. QED
      BY <2>1, <2>2, <3>1 DEF CallError, Point, Abandon, Goto
  <2>3. CASE c \notin Pools
    <3>1. pc[c] # "sweep"
      BY <2>3 DEF PlaceInv, KindOK, Clients
    <3>2. QED
      BY <2>1, <2>3, <3>1 DEF CallError, Point, Abandon, Goto
  <2>4. QED
    BY <2>2, <2>3
<1>8. ASSUME NEW p \in Pools \cup Requests, Crash(p) PROVE SweepsGoOn
  BY <1>8 DEF Crash, Process
<1>9. ASSUME NEW p \in Pools, Shutdown(p) \/ Restart(p) PROVE SweepsGoOn
  BY <1>9 DEF Shutdown, Restart, memory
<1> HIDE DEF SweepsGoOn, OneSweep, TypeInv, TypeOK
<1>10. QED
  BY <1>2, <1>3, <1>4, <1>5, <1>6, <1>7, <1>8, <1>9 DEF Continue

\* So there is never more than one.
LEMMA SweepKept ==
  ASSUME PlaceInv, TypeInv, OneSweep, [ApartNext]_vars
  PROVE  OneSweep'
<1>1. CASE UNCHANGED vars
  BY <1>1 DEF vars, qvars, memory, OneSweep
<1>2. ASSUME NEW s \in Pools, SweepSnapshot(s), Alone(s) PROVE OneSweep'
  <2>1. \A q \in Pools \ {s} : pc'[q] = "idle" /\ todo'[q] = {}
    BY <1>2, ClientsAssumption, ClientKinds DEF SweepSnapshot, Goto, Alone, OneSweep, TypeInv, TypeOK
  <2>2. pc'[s] = "sweep"
    BY <1>2, ClientKinds DEF SweepSnapshot, Goto, TypeInv, TypeOK
  <2>3. QED
    BY <2>1, <2>2 DEF OneSweep
<1>3. CASE Continue \/ \E r \in Requests, j \in Jobs : RetryJob(r, j)
  BY <1>3, SweepSteps DEF SweepsGoOn, OneSweep
<1>4. QED
  BY <1>1, <1>2, <1>3 DEF ApartNext

\* Every step keeps the invariant.
LEMMA PlaceStep ==
  ASSUME Orderly, OneSweep, PlaceInv, TypeInv, TypeInv', [ApartNext]_vars
  PROVE  PlaceInv'
<1> SUFFICES ASSUME ApartNext PROVE PlaceInv'
  BY QuietKeeps DEF vars, qvars, keys
<1> USE ClientKinds
<1>1. ASSUME NEW w \in Workers, DequeueEmpty(w) \/ WorkerStep(w) PROVE PlaceInv'
  <2>1. CASE DequeueEmpty(w)
    BY <2>1, QuietKeeps DEF DequeueEmpty, qvars, keys
  <2>2. CASE WorkerStep(w)
    BY <2>2, PopKeeps, ClaimKeeps, ReadKeeps, MarkKeeps, RunKeeps, CompleteKeeps, FailKeeps,
       RequeueKeeps, ExecKeeps DEF WorkerStep
  <2>3. QED
    BY <1>1, <2>1, <2>2
<1>2. ASSUME NEW s \in Pools, SweepOn(s) \/ (SweepSnapshot(s) /\ Alone(s)) PROVE PlaceInv'
  <2>1. CASE SweepSnapshot(s) /\ Alone(s)
    BY <2>1, SnapshotKeeps DEF Alone
  <2>2. CASE SweepOn(s)
    BY <2>2, SweepReadKeeps, ReleaseKeeps, RequeueKeeps, SweepDoneKeeps, ExecKeeps
       DEF SweepOn
  <2>3. QED
    BY <1>2, <2>1, <2>2
<1>3. ASSUME NEW r \in Requests, RequestStep(r) PROVE PlaceInv'
  <2>1. CASE RetryCount(r)
    <3>1. /\ pc[r] = "decr" /\ wire[r] = <<>> /\ Load(r, FreshJob) /\ Goto(r, "enqueue")
          /\ UNCHANGED <<job, pending, processing, dead, hand, wire, todo, ctx, issued, accepted>>
      BY <2>1 DEF RetryCount, At
    <3>2. QED
      BY <3>1, CountKeeps
  <2>2. QED
    BY <1>3, <2>1, UnlistKeeps, EnqueueKeeps, ExecKeeps DEF RequestStep
<1>4. ASSUME NEW r \in Requests, NEW j \in Jobs, Submit(r, j) PROVE PlaceInv'
  BY <1>4, SubmitKeeps
<1>5. ASSUME NEW r \in Requests, NEW j \in Jobs, RetryJob(r, j), Unheld(r, j) PROVE PlaceInv'
  BY <1>5, RetryReadKeeps DEF RetryJob, Unheld
<1>6. ASSUME NEW j \in Jobs, GoStale(j) \/ Expire(j) PROVE PlaceInv'
  BY <1>6, GoStaleKeeps, ExpireKeeps
<1>7. ASSUME NEW j \in Jobs, Overrun(j) PROVE FALSE
  BY <1>7 DEF Overrun, Orderly
<1>8. ASSUME NEW c \in Clients, RedisError(c) PROVE PlaceInv'
  <2>1. wire[c] = <<>> /\ pc[c] \in ErrorAt /\ CallError(c)
    BY <1>8 DEF RedisError, Point, Orderly
  <2>2. QED
    BY <2>1, ErrorKeeps
<1>9. ASSUME NEW p \in Pools \cup Requests, Crash(p) PROVE PlaceInv'
  BY <1>9, CrashKeeps
<1>10. ASSUME NEW p \in Pools, Shutdown(p) \/ Restart(p) PROVE PlaceInv'
  BY <1>10, ShutdownKeeps, RestartKeeps
<1>11. ASSUME NEW c \in Workers \cup Pools, CtxError(c) PROVE PlaceInv'
  BY <1>11, ErrorKeeps DEF CtxError
<1>12. QED
  BY <1>1, <1>2, <1>3, <1>4, <1>5, <1>6, <1>7, <1>8, <1>9, <1>10, <1>11
     DEF ApartNext, Continue

\* A step of ApartSpec is a step of Spec.
LEMMA ApartStep == [ApartNext]_vars => [Next]_vars
  BY DEF ApartNext, Next

\* The invariant holds whenever the assumption on the system does.
LEMMA PlaceNext ==
  Orderly /\ OneSweep /\ PlaceInv /\ TypeInv /\ [ApartNext]_vars
    => OneSweep' /\ PlaceInv' /\ TypeInv'
<1> SUFFICES ASSUME Orderly, OneSweep, PlaceInv, TypeInv, [ApartNext]_vars
             PROVE  OneSweep' /\ PlaceInv' /\ TypeInv'
  OBVIOUS
<1>1. TypeInv'
  BY ApartStep, TypeNext
<1>2. QED
  BY <1>1, PlaceStep, SweepKept

\* So it always holds.
LEMMA PlaceAlways == ASSUME Orderly PROVE ApartSpec => [](PlaceInv /\ TypeInv)
<1>1. Init => OneSweep
  BY ClientKinds DEF Init, OneSweep
<1>2. OneSweep /\ PlaceInv /\ TypeInv /\ [ApartNext]_vars
        => OneSweep' /\ PlaceInv' /\ TypeInv'
  BY PlaceNext
<1>3. QED
  BY <1>1, <1>2, PlaceInit, TypeInit, PTL DEF ApartSpec

\* Steps that do not overlap are steps of the system.
LEMMA ApartIsSpec == ApartSpec => Spec
  BY ApartStep, PTL DEF ApartSpec, Spec

\* No two goroutines of any process, and no request, ever work on the same job, and a
\* job in their hands is not in the pending set: whatever crashes, errors, shutdowns
\* and restarts happen between the round trips of Dequeue, Complete, Fail, Requeue,
\* RecoverStale and RetryDead.
THEOREM OneHolder == ASSUME Orderly PROVE ApartSpec => []Exclusive
<1>1. ASSUME PlaceInv, TypeInv PROVE Exclusive
  BY <1>1 DEF Exclusive, Busy, PlaceInv, Unique, HeldOK, PlaceOK, TypeInv, TypeOK, Clients
<1>2. QED
  BY <1>1, PlaceAlways, PTL

\* A job never gets more attempts than it has, and is dead only after the last one:
\* a rescue or a crash neither adds an attempt nor takes one away (Fail, RecoverStale,
\* RetryDead).
THEOREM BudgetKept == ASSUME Orderly PROVE ApartSpec => []RetryBudget
<1>1. ASSUME PlaceInv PROVE RetryBudget
  <2> SUFFICES ASSUME NEW j \in Jobs
               PROVE  /\ job[j].status \in {"pending", "processing", "failed"} => job[j].retries < Attempts
                      /\ job[j].status = "dead" => job[j].retries = Attempts
    BY DEF RetryBudget
  <2>1. StoredOK(j)
    BY <1>1 DEF PlaceInv, JobOK
  <2>2. QED
    BY <2>1 DEF StoredOK, NoRecord, Going, Done, Dead
<1>2. QED
  BY <1>1, PlaceAlways, PTL

\* The dead-letter list mirrors the statuses as long as a retry is not cut short and
\* its LREM does not fail (MoveToDeadLetter, RetryDead).
THEOREM DeadLettersListed == ASSUME Orderly, Whole PROVE ApartSpec => []DeadLetterExact
<1>1. ASSUME PlaceInv PROVE DeadLetterExact
  <2> SUFFICES ASSUME NEW j \in Jobs
               PROVE  /\ dead[j] <= 1
                      /\ Free(j) /\ job[j] # NoRecord => (dead[j] = 1 <=> job[j].status = "dead")
    BY DEF DeadLetterExact, Free
  <2>1. StoredOK(j) /\ ListedOK(j)
    BY <1>1 DEF PlaceInv, JobOK
  <2>2. job[j] # NoRecord => (job[j].status = "dead" <=> Dead(job[j]))
    BY <2>1 DEF StoredOK, Going, Done, Dead
  <2>3. QED
    BY <2>1, <2>2 DEF ListedOK
<1>2. QED
  BY <1>1, PlaceAlways, PTL

\* No accepted job is lost to a crash or an error, at whatever point it strikes but
\* the two where the job is in no key: between ZPOPMIN and HSET, and between the two
\* pipelines of Fail or the HDEL and the pipeline of RecoverStale.
THEOREM NoJobLostToFaults == ASSUME Orderly, Safe PROVE ApartSpec => []NothingLost
<1>1. ASSUME PlaceInv, TypeInv PROVE NothingLost
  <2> SUFFICES ASSUME NEW j \in accepted, ~Settled(j), j \notin pending, processing[j] = "none"
               PROVE  \E c \in Clients : Carries(c, j)
    BY DEF NothingLost
  <2>1. j \in Jobs /\ StoredOK(j) /\ KeptOK(j)
    BY <1>1 DEF PlaceInv, JobOK, TypeInv, TypeOK
  <2>2. Going(job[j])
    BY <2>1 DEF StoredOK, Settled, NoRecord, Done, Dead
  <2>3. PICK c \in Clients : hand[c] = j
    BY <2>1, <2>2 DEF KeptOK, Free
  <2>4. KindOK(c) /\ RecordOK(c, job[j]) /\ PlaceOK(c, j) /\ wire[c] \in Pipelines
    BY <1>1, <2>1, <2>3 DEF PlaceInv, HeldOK, TypeInv, TypeOK
  <2>5. CASE wire[c] # <<>>
    <3>1. wire[c] \in {EnqueuePipe, EnqueueLast, CompletePipe, DeadPipe} \/ pc[c] = "requeue"
      BY <2>2, <2>4, <2>5, Pipes, RecordKinds DEF KindOK, RecordOK
    <3>2. QED
      BY <2>3, <3>1 DEF Carries, EnqueueLast
  <2>6. CASE wire[c] = <<>>
    <3>1. hand[c] # NoJob
      BY <2>1, <2>3, QueueAssumption
    <3>2. c \notin Requests
      BY <2>2, <2>4, <2>6, PipesDiffer, RecordKinds DEF RecordOK
    <3>3. pc[c] \in {"hset", "get", "mark", "run", "complete", "fail", "requeue", "hdel"}
      BY <2>4, <2>6, <3>1, <3>2 DEF KindOK, Calls, Clients
    <3>4. QED
      BY <2>3, <2>6, <3>3 DEF Carries
  <2>7. QED
    BY <2>5, <2>6
<1>2. QED
  BY <1>1, PlaceAlways, PTL

-----------------------------------------------------------------------------
(***************************************************************************)
(* What a step can do to the records and to the hands of the clients.      *)
(***************************************************************************)

\* Records and the set of accepted jobs change only by these actions.
Writes ==
  \/ UNCHANGED <<job, accepted>>
  \/ \E c \in Clients : ExecSet(c) \/ ExecZAdd(c)
  \/ \E w \in Workers : DequeueMark(w)
  \/ \E j \in Jobs : Expire(j)

\* No other action writes a record.
LEMMA RecordWrites == ASSUME [Next]_vars PROVE Writes
<1> USE ClientKinds DEF keys, Writes
<1>1. ASSUME NEW c \in Clients, ExecCommand(c) PROVE Writes
  BY <1>1 DEF ExecCommand, ExecHDel, ExecLPush, ExecIncr
<1>2. ASSUME NEW w \in Workers, DequeueEmpty(w) \/ WorkerStep(w) PROVE Writes
  BY <1>1, <1>2 DEF DequeueEmpty, qvars, WorkerStep, DequeuePop, DequeueClaim, DequeueRead, Run,
     Complete, Fail, Requeue
<1>3. ASSUME NEW s \in Pools, SweeperStep(s) PROVE Writes
  BY <1>1, <1>3 DEF SweeperStep, SweepOn, SweepSnapshot, SweepRead, SweepRelease, Requeue, SweepDone
<1>4. ASSUME NEW r \in Requests, RequestStep(r) PROVE Writes
  BY <1>1, <1>4 DEF RequestStep, RetryUnlist, RetryCount, Enqueue
<1>5. ASSUME NEW r \in Requests, NEW j \in Jobs, Submit(r, j) \/ RetryJob(r, j) PROVE Writes
  BY <1>5 DEF Submit, RetryJob, RetryRead
<1>6. ASSUME NEW j \in Jobs, GoStale(j) \/ Expire(j) \/ Overrun(j) PROVE Writes
  BY <1>6 DEF GoStale, Overrun
<1>7. ASSUME NEW c \in Clients, RedisError(c) \/ CtxError(c) PROVE Writes
  BY <1>7 DEF RedisError, CtxError, CallError
<1>8. ASSUME NEW p \in Pools \cup Requests, Crash(p) PROVE Writes
  BY <1>8 DEF Crash
<1>9. ASSUME NEW p \in Pools, Shutdown(p) \/ Restart(p) PROVE Writes
  BY <1>9 DEF Shutdown, Restart
<1>10. CASE UNCHANGED vars
  BY <1>10 DEF vars, qvars
<1> HIDE DEF Writes, keys
<1>11. QED
  BY <1>2, <1>3, <1>4, <1>5, <1>6, <1>7, <1>8, <1>9, <1>10 DEF Next, Continue, SweeperStep

\* A client takes a job out of the pending set, out of its snapshot of stale claims,
\* under a new id, or because it is dead.
Takeable(c, k) ==
  \/ k \in pending
  \/ c \in Pools /\ k \in todo[c]
  \/ k \notin issued
  \/ job[k].status = "dead"

Takes(d) == hand'[d] \in {hand[d], NoJob} \/ Takeable(d, hand'[d])

\* The hands of the clients change in no other way than Takes says.
LEMMA Takings ==
  ASSUME TypeInv, [Next]_vars, NEW d \in Clients
  PROVE  Takes(d)
<1> USE ClientKinds DEF TypeInv, TypeOK, Takes
<1>1. ASSUME NEW c \in Clients, ExecCommand(c) PROVE Takes(d)
  BY <1>1 DEF ExecCommand, ExecSet, ExecZAdd, ExecHDel, ExecLPush, ExecIncr, Execute, Drop, Take
<1>2. ASSUME NEW w \in Workers, DequeueEmpty(w) \/ WorkerStep(w) PROVE Takes(d)
  <2>1. CASE DequeuePop(w)
    BY <2>1 DEF DequeuePop, Take, Takeable
  <2>2. CASE ~DequeuePop(w)
    BY <1>1, <1>2, <2>2 DEF DequeueEmpty, qvars, memory, WorkerStep, DequeueClaim, DequeueRead,
       DequeueMark, Run, Complete, Fail, Requeue, Abandon, Drop, Take
  <2>3. QED
    BY <2>1, <2>2
<1>3. ASSUME NEW s \in Pools, SweeperStep(s) PROVE Takes(d)
  <2>1. CASE SweepRead(s)
    BY <2>1 DEF SweepRead, Take, Takeable
  <2>2. CASE ~SweepRead(s)
    BY <1>1, <1>3, <2>2 DEF SweeperStep, SweepOn, SweepSnapshot, SweepRelease, Requeue, SweepDone
  <2>3. QED
    BY <2>1, <2>2
<1>4. ASSUME NEW r \in Requests, RequestStep(r) PROVE Takes(d)
  BY <1>1, <1>4 DEF RequestStep, RetryUnlist, RetryCount, Enqueue
<1>5. ASSUME NEW r \in Requests, NEW j \in Jobs, Submit(r, j) \/ RetryJob(r, j) PROVE Takes(d)
  BY <1>5 DEF Submit, RetryJob, RetryRead, Take, Takeable
<1>6. ASSUME NEW j \in Jobs, GoStale(j) \/ Expire(j) \/ Overrun(j) PROVE Takes(d)
  BY <1>6 DEF GoStale, Expire, Overrun, memory
<1>7. ASSUME NEW c \in Clients, RedisError(c) \/ CtxError(c) PROVE Takes(d)
  BY <1>7 DEF RedisError, CtxError, CallError, Abandon, Drop, Take
<1>8. ASSUME NEW p \in Pools \cup Requests, Crash(p) PROVE Takes(d)
  BY <1>8 DEF Crash
<1>9. ASSUME NEW p \in Pools, Shutdown(p) \/ Restart(p) PROVE Takes(d)
  BY <1>9 DEF Shutdown, Restart, memory
<1>10. CASE UNCHANGED vars
  BY <1>10 DEF vars, qvars, memory
<1> HIDE DEF Takes, TypeInv, TypeOK
<1>11. QED
  BY <1>2, <1>3, <1>4, <1>5, <1>6, <1>7, <1>8, <1>9, <1>10 DEF Next, Continue, SweeperStep

\* The counter of completions.
Counts ==
  \/ stats'["completed"] = stats["completed"]
  \/ \E c \in Clients : /\ ExecCommand(c) /\ wire[c] = CompleteLast
                        /\ stats'["completed"] = stats["completed"] + 1

\* stats:completed changes only by the INCR of Complete.
LEMMA CompletionsCounted == ASSUME TypeInv, [Next]_vars PROVE Counts
<1> USE ClientKinds DEF TypeInv, TypeOK, keys, Counters, Counts
<1>1. ASSUME NEW c \in Clients, ExecCommand(c) PROVE Counts
  <2>1. CASE ExecIncr(c)
    <3>1. wire[c] \in Pipelines /\ wire[c] # <<>> /\ Head(wire[c]) \in Counters
      BY <2>1 DEF ExecIncr, Execute
    <3>2. Head(wire[c]) = "completed" => wire[c] = CompleteLast
      BY <3>1, Pipes
    <3>3. CASE Head(wire[c]) = "completed"
      BY <1>1, <2>1, <3>2, <3>3 DEF ExecIncr
    <3>4. CASE Head(wire[c]) # "completed"
      BY <2>1, <3>4 DEF ExecIncr
    <3>5. QED
      BY <3>3, <3>4
  <2>2. CASE ~ExecIncr(c)
    BY <1>1, <2>2 DEF ExecCommand, ExecSet, ExecZAdd, ExecHDel, ExecLPush
  <2>3. QED
    BY <2>1, <2>2
<1>2. ASSUME NEW w \in Workers, DequeueEmpty(w) \/ WorkerStep(w) PROVE Counts
  BY <1>1, <1>2 DEF DequeueEmpty, qvars, WorkerStep, DequeuePop, DequeueClaim, DequeueRead,
     DequeueMark, Run, Complete, Fail, Requeue
<1>3. ASSUME NEW s \in Pools, SweeperStep(s) PROVE Counts
  BY <1>1, <1>3 DEF SweeperStep, SweepOn, SweepSnapshot, SweepRead, SweepRelease, Requeue, SweepDone
<1>4. ASSUME NEW r \in Requests, RequestStep(r) PROVE Counts
  BY <1>1, <1>4 DEF RequestStep, RetryUnlist, RetryCount, Enqueue
<1>5. ASSUME NEW r \in Requests, NEW j \in Jobs, Submit(r, j) \/ RetryJob(r, j) PROVE Counts
  BY <1>5 DEF Submit, RetryJob, RetryRead
<1>6. ASSUME NEW j \in Jobs, GoStale(j) \/ Expire(j) \/ Overrun(j) PROVE Counts
  BY <1>6 DEF GoStale, Expire, Overrun
<1>7. ASSUME NEW c \in Clients, RedisError(c) \/ CtxError(c) PROVE Counts
  BY <1>7 DEF RedisError, CtxError, CallError
<1>8. ASSUME NEW p \in Pools \cup Requests, Crash(p) PROVE Counts
  BY <1>8 DEF Crash
<1>9. ASSUME NEW p \in Pools, Shutdown(p) \/ Restart(p) PROVE Counts
  BY <1>9 DEF Shutdown, Restart
<1>10. CASE UNCHANGED vars
  BY <1>10 DEF vars, qvars
<1> HIDE DEF Counts, TypeInv, TypeOK, keys, Counters
<1>11. QED
  BY <1>2, <1>3, <1>4, <1>5, <1>6, <1>7, <1>8, <1>9, <1>10 DEF Next, Continue, SweeperStep

-----------------------------------------------------------------------------
(***************************************************************************)
(* Completions are counted once: for each of them there is a job that has  *)
(* been let go of as completed, and such a job is never taken up again.    *)
(***************************************************************************)

Finished == {j \in accepted : Free(j) /\ job[j].status \in {"none", "completed"}}

CountInv ==
  /\ IsFiniteSet(accepted)
  /\ stats["completed"] <= Cardinality(Finished)

\* A command stores what its client holds, and no free job.
LEMMA FreeKept ==
  ASSUME TypeInv, NEW j \in Jobs, Free(j),
         \/ \E c \in Clients : ExecSet(c) \/ ExecZAdd(c)
         \/ \E w \in Workers : DequeueMark(w)
  PROVE  job'[j] = job[j] /\ accepted \subseteq accepted'
<1>1. ASSUME NEW c \in Clients, ExecSet(c) PROVE job'[j] = job[j] /\ accepted' = accepted
  BY <1>1 DEF ExecSet, Free, TypeInv, TypeOK
<1>2. ASSUME NEW c \in Clients, ExecZAdd(c) PROVE job'[j] = job[j] /\ accepted \subseteq accepted'
  BY <1>2 DEF ExecZAdd
<1>3. ASSUME NEW w \in Workers, DequeueMark(w) PROVE job'[j] = job[j] /\ accepted' = accepted
  BY <1>3, ClientKinds DEF DequeueMark, Free, TypeInv, TypeOK
<1>4. QED
  BY <1>1, <1>2, <1>3

\* A finished job stays finished: nothing that a client takes up is one.
LEMMA FinishedStays ==
  ASSUME PlaceInv, TypeInv, [Next]_vars
  PROVE  Finished \subseteq Finished'
<1> SUFFICES ASSUME NEW j \in Finished PROVE j \in Finished'
  OBVIOUS
<1>1. /\ j \in accepted /\ j \in Jobs /\ Free(j) /\ job[j].status \in {"none", "completed"}
      /\ JobOK(j) /\ ~Going(job[j])
  BY DEF Finished, PlaceInv, TypeInv, TypeOK, Going
<1>2. j \in accepted' /\ job'[j].status \in {"none", "completed"}
  <2>1. CASE UNCHANGED <<job, accepted>>
    BY <1>1, <2>1
  <2>2. CASE \E k \in Jobs : Expire(k)
    BY <1>1, <2>2 DEF Expire, NoRecord, TypeInv, TypeOK
  <2>3. QED
    BY <1>1, <2>1, <2>2, FreeKept, RecordWrites DEF Writes
<1>3. ASSUME NEW d \in Clients PROVE hand'[d] # j
  <2>1. j \notin pending /\ (d \in Pools => j \notin todo[d])
    BY <1>1 DEF JobOK, QueuedOK, PlaceInv, TodoOK
  <2>2. ~Takeable(d, j)
    BY <1>1, <2>1 DEF Takeable, JobOK, StoredOK
  <2>3. QED
    BY <1>1, <2>2, Takings, QueueAssumption DEF Takes, Free
<1>4. QED
  BY <1>2, <1>3 DEF Finished, Free

\* So the count of completions stays within the number of finished jobs.
LEMMA CountStep ==
  ASSUME PlaceInv, TypeInv, TypeInv', CountInv, [Next]_vars
  PROVE  CountInv'
<1>1. IsFiniteSet(accepted') /\ accepted \subseteq accepted'
  <2>1. CASE \E c \in Clients : ExecZAdd(c)
    BY <2>1, FS_AddElement DEF ExecZAdd, CountInv
  <2>2. CASE accepted' = accepted
    BY <2>2 DEF CountInv
  <2>3. QED
    BY <2>1, <2>2, RecordWrites DEF Writes, ExecSet, DequeueMark, Expire
<1>2. /\ Finished \subseteq Finished' /\ Finished' \subseteq accepted'
      /\ IsFiniteSet(Finished) /\ IsFiniteSet(Finished')
  BY <1>1, FinishedStays, FS_Subset DEF Finished, CountInv
<1>3. /\ Cardinality(Finished) \in Nat /\ Cardinality(Finished') \in Nat
      /\ Cardinality(Finished) <= Cardinality(Finished')
  BY <1>2, FS_Subset, FS_CardinalityType
<1>4. stats["completed"] \in Int
  BY DEF TypeInv, TypeOK, Counters
<1>5. CASE stats'["completed"] = stats["completed"]
  BY <1>1, <1>3, <1>4, <1>5 DEF CountInv
<1>6. ASSUME NEW c \in Clients, ExecCommand(c), wire[c] = CompleteLast,
             stats'["completed"] = stats["completed"] + 1
      PROVE  CountInv'
  <2>1. PICK k : k = hand[c]
    OBVIOUS
  <2>2. KindOK(c) /\ c \notin Requests /\ pc[c] # "requeue"
    BY <1>6, PipesDiffer DEF PlaceInv, KindOK, Home
  <2>3. k \in Jobs /\ Free(k)' /\ Effect(c, k)
    BY <1>6, <2>1, <2>2, ExecFrame, ExecEffect, Pipes
  <2>4. job'[k] = job[k] /\ accepted' = accepted
    BY <1>6, <2>3, PipesDiffer DEF Effect
  <2>5. k \in accepted /\ job[k].status = "completed"
    BY <1>6, <2>1, <2>2, <2>3 DEF PlaceInv, HeldOK, PlaceOK, RecordOK, Done
  <2>6. k \in Finished' /\ k \notin Finished
    BY <2>1, <2>3, <2>4, <2>5 DEF Finished, Free
  <2>7. Finished \cup {k} \subseteq Finished'
    BY <1>2, <2>6
  <2>8. Cardinality(Finished \cup {k}) = Cardinality(Finished) + 1
    BY <1>2, <2>6, FS_AddElement
  <2>9. Cardinality(Finished \cup {k}) <= Cardinality(Finished')
    BY <1>2, <2>7, FS_Subset
  <2>10. QED
    BY <1>1, <1>3, <1>4, <1>6, <2>8, <2>9 DEF CountInv
<1>7. QED
  BY <1>5, <1>6, CompletionsCounted DEF Counts

\* The counter behind GET /stats counts no job twice: completions never outnumber the
\* jobs that have been accepted (Complete, RecoverStale).
THEOREM CountedOnce == ASSUME Orderly PROVE ApartSpec => []CompletedAtMostOnce
<1>1. Init => CountInv
  <2> SUFFICES ASSUME Init PROVE CountInv
    OBVIOUS
  <2>1. accepted = {} /\ stats["completed"] = 0 /\ Finished = {}
    BY DEF Init, Finished, Counters
  <2>2. QED
    BY <2>1, FS_EmptySet DEF CountInv
<1>2. PlaceInv /\ TypeInv /\ CountInv /\ [Next]_vars => CountInv'
  BY CountStep, TypeNext
<1>3. ASSUME TypeInv, CountInv PROVE CompletedAtMostOnce
  <2>1. /\ Cardinality(Finished) <= Cardinality(accepted)
        /\ IsFiniteSet(Finished)
    BY <1>3, FS_Subset DEF CountInv, Finished
  <2>2. Cardinality(Finished) \in Nat /\ Cardinality(accepted) \in Nat /\ stats["completed"] \in Int
    BY <1>3, <2>1, FS_CardinalityType DEF CountInv, TypeInv, TypeOK, Counters
  <2>3. QED
    BY <1>3, <2>1, <2>2 DEF CountInv, CompletedAtMostOnce
<1>4. QED
  BY <1>1, <1>2, <1>3, PlaceAlways, ApartIsSpec, PTL DEF Spec

\* A completed job is never re-opened, whatever fails: the record that a client
\* replaces is one it read while the job was still to be settled (Dequeue, Fail,
\* Complete, Requeue, RecoverStale, RetryDead).
THEOREM CompletedStays == ASSUME Orderly PROVE ApartSpec => CompletedIsFinal
<1> DEFINE Final == \A j \in Jobs : job[j].status = "completed"
                                   => job'[j].status \in {"completed", "none"}
<1>1. ASSUME PlaceInv, TypeInv, [Next]_vars PROVE Final
  <2> SUFFICES ASSUME NEW j \in Jobs, job[j].status = "completed", job'[j] # job[j]
               PROVE  job'[j].status = "none"
    OBVIOUS
  <2>1. ~Going(job[j]) /\ ~Dead(job[j]) /\ job[j] # NoRecord
    BY DEF Going, Dead, NoRecord
  <2>2. ASSUME NEW c \in Clients, ExecSet(c) PROVE FALSE
    <3>1. hand[c] = j /\ Head(wire[c]) = "SET" /\ wire[c] # <<>> /\ wire[c] \in Pipelines
      BY <1>1, <2>2 DEF ExecSet, Execute, TypeInv, TypeOK
    <3>2. wire[c] \in {EnqueuePipe, CompletePipe, FailPipe, DeadPipe}
      BY <3>1, Pipes
    <3>3. RecordOK(c, job[j])
      BY <1>1, <3>1 DEF PlaceInv, HeldOK
    <3>4. QED
      BY <2>1, <3>2, <3>3, PipesDiffer DEF RecordOK
  <2>3. ASSUME NEW w \in Workers, DequeueMark(w) PROVE FALSE
    <3>1. hand[w] = j /\ Calls(w, {"mark"}) /\ w \in Clients
      BY <1>1, <2>3, ClientKinds DEF DequeueMark, At, Calls, TypeInv, TypeOK
    <3>2. RecordOK(w, job[j])
      BY <1>1, <3>1 DEF PlaceInv, HeldOK
    <3>3. QED
      BY <3>1, <3>2 DEF RecordOK, Calls
  <2>4. ASSUME NEW k \in Jobs, Expire(k) PROVE job'[j].status = "none"
    BY <1>1, <2>4 DEF Expire, NoRecord, TypeInv, TypeOK
  <2>5. QED
    BY <1>1, <2>2, <2>3, <2>4, RecordWrites DEF Writes, ExecZAdd
<1>2. QED
  BY <1>1, PlaceAlways, ApartIsSpec, PTL DEF Spec, CompletedIsFinal

\* With pipelines that arrive whole, what a retry finds dead is not in the hand of a
\* worker or of the sweeper.
LEMMA DeadIsFree ==
  ASSUME Batched, PlaceInv, NEW r \in Requests, NEW k \in Jobs, RetryRead(r, k),
         NEW c \in Clients, hand[c] = k
  PROVE  c \in Requests
<1>1. job[k].status = "dead" /\ wire[r] = <<>> /\ \A d \in Clients \ {r} : wire[d] = <<>>
  BY DEF RetryRead, At, Turn
<1>2. JobOK(k) /\ RecordOK(c, job[k]) /\ wire[c] = <<>>
  BY <1>1 DEF PlaceInv, HeldOK
<1>3. ~Going(job[k])
  BY <1>1 DEF Going
<1>4. QED
  BY <1>2, <1>3 DEF RecordOK

\* With one worker process, one request at a time and pipelines that arrive whole
\* nothing overlaps, so what the theorems say holds of every behaviour of the system
\* (Pool.Run, Server.Run).
THEOREM OneProcess ==
  ASSUME Orderly, Batched, \A p, q \in Pools : p = q, \A r, q \in Requests : r = q
  PROVE  Spec => [](Exclusive /\ RetryBudget /\ CompletedAtMostOnce) /\ CompletedIsFinal
<1>1. PlaceInv /\ [Next]_vars => [ApartNext]_vars
  BY DeadIsFree DEF Alone, Unheld, ApartNext, Next, RetryJob
<1>2. Init => OneSweep
  BY ClientKinds DEF Init, OneSweep
<1>3. OneSweep /\ PlaceInv /\ TypeInv /\ [Next]_vars
        => OneSweep' /\ PlaceInv' /\ TypeInv' /\ [ApartNext]_vars
  BY <1>1, PlaceNext
<1>4. Spec => ApartSpec
  BY <1>2, <1>3, PlaceInit, TypeInit, PTL DEF Spec, ApartSpec
<1>5. QED
  BY <1>4, OneHolder, BudgetKept, CountedOnce, CompletedStays, PTL

-----------------------------------------------------------------------------
(***************************************************************************)
(* The abstract lifecycle.                                                 *)
(***************************************************************************)

StatusOf(j) == IF job[j].status # "none" THEN job[j].status
               ELSE IF j \in accepted THEN "gone" ELSE "new"

\* The status of job k becomes s and its retries n, and no other job moves.
Moves(k, s, n) ==
  /\ StatusOf(k)' = s /\ job'[k].retries = n
  /\ \A j \in Jobs \ {k} : StatusOf(j)' = StatusOf(j) /\ job'[j].retries = job[j].retries

\* A step that stores a record for one job.
LEMMA StoreMoves ==
  ASSUME TypeInv, NEW k \in Jobs, NEW r, r.status # "none",
         job' = [job EXCEPT ![k] = r], accepted' = accepted
  PROVE  Moves(k, r.status, r.retries)
BY DEF Moves, StatusOf, TypeInv, TypeOK

\* The moves of the abstract lifecycle, for job k.
Lawful(k) ==
  \/ StatusOf(k) = "new" /\ Moves(k, "pending", job[k].retries)
  \/ StatusOf(k) = "pending" /\ Moves(k, "processing", job[k].retries)
  \/ StatusOf(k) = "processing" /\ Moves(k, "completed", job[k].retries)
  \/ StatusOf(k) = "processing" /\ Moves(k, "failed", job[k].retries + 1) /\ job[k].retries + 1 < MaxRetries
  \/ StatusOf(k) = "processing" /\ Moves(k, "dead", job[k].retries + 1) /\ job[k].retries + 1 >= MaxRetries
  \/ StatusOf(k) = "failed" /\ Moves(k, "pending", job[k].retries)
  \/ StatusOf(k) = "processing" /\ Moves(k, "pending", job[k].retries)
  \/ StatusOf(k) = "dead" /\ Moves(k, "pending", 0)
  \/ StatusOf(k) \in {"completed", "dead"} /\ Moves(k, "gone", 0)
  \/ Moves(k, StatusOf(k), job[k].retries)

\* A lawful move is a step of the abstract lifecycle.
LEMMA LawfulSteps ==
  ASSUME TypeInv, NEW k \in Jobs, Lawful(k)
  PROVE  Lifecycle!LifecycleNext \/ UNCHANGED Lifecycle!LifecycleVars
<1> DEFINE status == [j \in Jobs |-> IF job[j].status # "none" THEN job[j].status
                                     ELSE IF j \in accepted THEN "gone" ELSE "new"]
           retries == [j \in Jobs |-> job[j].retries]
<1>1. status = [j \in Jobs |-> StatusOf(j)] /\ status[k] = StatusOf(k) /\ retries[k] = job[k].retries
  BY DEF StatusOf
<1>2. ASSUME NEW s, NEW n, Moves(k, s, n)
      PROVE  status' = [status EXCEPT ![k] = s] /\ retries' = [retries EXCEPT ![k] = n]
  BY <1>2 DEF Moves, StatusOf
<1>3. retries = [retries EXCEPT ![k] = job[k].retries]
  OBVIOUS
<1>4. CASE Moves(k, StatusOf(k), job[k].retries)
  <2>1. status' = [status EXCEPT ![k] = StatusOf(k)] /\ retries' = [retries EXCEPT ![k] = job[k].retries]
    BY <1>2, <1>4
  <2>2. [status EXCEPT ![k] = StatusOf(k)] = status
    BY <1>1
  <2>3. status' = status /\ retries' = retries
    BY <1>3, <2>1, <2>2
  <2>4. QED
    BY <2>3 DEF Lifecycle!LifecycleVars
<1>5. CASE ~Moves(k, StatusOf(k), job[k].retries)
  <2>1. \/ Lifecycle!Submitted(k) \/ Lifecycle!Started(k) \/ Lifecycle!Completed(k)
        \/ Lifecycle!Failed(k) \/ Lifecycle!Exhausted(k) \/ Lifecycle!Requeued(k)
        \/ Lifecycle!Rescued(k) \/ Lifecycle!Retried(k) \/ Lifecycle!Expired(k)
    <3>1. \A from, to : status[k] \in from /\ status' = [status EXCEPT ![k] = to] => Lifecycle!Move(k, from, to)
      BY DEF Lifecycle!Move
    <3>2. retries' = [retries EXCEPT ![k] = job[k].retries] => Lifecycle!Keep
      BY <1>3 DEF Lifecycle!Keep
    <3>3. retries' = [retries EXCEPT ![k] = job[k].retries + 1] => Lifecycle!Count(k)
      BY DEF Lifecycle!Count
    <3>4. retries' = [retries EXCEPT ![k] = 0] => Lifecycle!Reset(k)
      BY DEF Lifecycle!Reset
    <3> HIDE DEF status, retries
    <3>5. QED
      BY <1>1, <1>2, <1>5, <3>1, <3>2, <3>3, <3>4
      DEF Lawful, Lifecycle!Submitted, Lifecycle!Started, Lifecycle!Completed, Lifecycle!Failed,
          Lifecycle!Exhausted, Lifecycle!Requeued, Lifecycle!Rescued, Lifecycle!Retried, Lifecycle!Expired
  <2>2. QED
    BY <2>1 DEF Lifecycle!LifecycleNext
<1>6. QED
  BY <1>4, <1>5

\* Every action that writes a record makes a lawful move.
LEMMA SetIsLawful ==
  ASSUME Marked, PlaceInv, TypeInv, NEW c \in Clients, ExecSet(c)
  PROVE  \E k \in Jobs : Lawful(k)
<1>1. PICK k : k = hand[c]
  OBVIOUS
<1>2. /\ k \in Jobs /\ copy[c] \in Records /\ wire[c] \in {EnqueuePipe, CompletePipe, FailPipe, DeadPipe}
      /\ job' = [job EXCEPT ![k] = copy[c]] /\ accepted' = accepted
  <2>1. wire[c] \in Pipelines /\ wire[c] # <<>> /\ Head(wire[c]) = "SET"
    BY DEF ExecSet, Execute, TypeInv, TypeOK
  <2>2. QED
    BY <1>1, <2>1, Pipes DEF ExecSet, TypeInv, TypeOK, Coherent, Point
<1>3. /\ KindOK(c) /\ JobOK(k)
      /\ PlaceOK(c, k) /\ RecordOK(c, job[k]) /\ CopyOK(c, job[k]) /\ ListOK(c, k)
  BY <1>1, <1>2 DEF PlaceInv, HeldOK
<1>4. copy[c].status # "none" => Moves(k, copy[c].status, copy[c].retries)
  BY <1>2, StoreMoves
<1>5. CASE wire[c] = EnqueuePipe /\ c \in Requests
  <2>1. copy[c] = FreshJob /\ (Dead(job[k]) \/ (job[k] = NoRecord /\ k \notin accepted))
    BY <1>3, <1>5, PipesDiffer DEF CopyOK, RecordOK, ListOK
  <2>2. Moves(k, "pending", 0)
    BY <1>4, <2>1 DEF FreshJob
  <2>3. StatusOf(k) = "dead" \/ (StatusOf(k) = "new" /\ job[k].retries = 0)
    BY <2>1 DEF StatusOf, Dead, NoRecord
  <2>4. QED
    BY <1>2, <2>2, <2>3 DEF Lawful
<1>6. CASE wire[c] = EnqueuePipe /\ c \notin Requests
  <2>1. copy[c] = WithStatus(job[k], "pending", FALSE) /\ Going(job[k])
    BY <1>3, <1>6, PipesDiffer DEF CopyOK, RecordOK
  <2>2. Moves(k, "pending", job[k].retries)
    BY <1>4, <2>1 DEF WithStatus
  <2>3. StatusOf(k) \in {"pending", "processing", "failed"}
    BY <2>1 DEF StatusOf, Going
  <2>4. QED
    BY <1>2, <2>2, <2>3 DEF Lawful
<1>7. CASE wire[c] = CompletePipe
  <2>1. copy[c] = WithStatus(job[k], "completed", TRUE) /\ job[k].status = "processing"
    BY <1>3, <1>7, PipesDiffer DEF CopyOK, RecordOK
  <2>2. Moves(k, "completed", job[k].retries)
    BY <1>4, <2>1 DEF WithStatus
  <2>3. StatusOf(k) = "processing"
    BY <2>1 DEF StatusOf
  <2>4. QED
    BY <1>2, <2>2, <2>3 DEF Lawful
<1>8. CASE wire[c] \in {FailPipe, DeadPipe}
  <2>1. StatusOf(k) = "processing"
    BY <1>3, <1>8, PipesDiffer DEF RecordOK, StatusOf
  <2>2. CASE wire[c] = FailPipe
    BY <1>2, <1>3, <1>4, <2>1, <2>2, PipesDiffer DEF CopyOK, Lawful
  <2>3. CASE wire[c] = DeadPipe
    BY <1>2, <1>3, <1>4, <2>1, <2>3, PipesDiffer DEF CopyOK, Lawful
  <2>4. QED
    BY <1>8, <2>2, <2>3
<1>9. QED
  BY <1>2, <1>5, <1>6, <1>7, <1>8

\* SET "processing" of Dequeue.
LEMMA MarkIsLawful ==
  ASSUME PlaceInv, TypeInv, NEW w \in Workers, DequeueMark(w)
  PROVE  \E k \in Jobs : Lawful(k)
<1>0. w \in Clients
  BY ClientKinds
<1>1. PICK k : k = hand[w]
  OBVIOUS
<1>2. /\ k \in Jobs /\ wire[w] = <<>> /\ pc[w] = "mark"
      /\ job' = [job EXCEPT ![k] = copy[w]] /\ accepted' = accepted
  BY <1>0, <1>1 DEF DequeueMark, At, TypeInv, Coherent, Point
<1>3. RecordOK(w, job[k]) /\ CopyOK(w, job[k])
  BY <1>0, <1>1, <1>2 DEF PlaceInv, HeldOK
<1>4. copy[w] = WithStatus(job[k], "processing", FALSE) /\ StatusOf(k) = "pending"
  BY <1>2, <1>3 DEF CopyOK, RecordOK, Calls, StatusOf
<1>5. Moves(k, "processing", job[k].retries)
  BY <1>2, <1>4, StoreMoves DEF WithStatus
<1>6. QED
  BY <1>2, <1>4, <1>5 DEF Lawful

\* A record expires.
LEMMA ExpireIsLawful ==
  ASSUME PlaceInv, TypeInv, NEW k \in Jobs, Expire(k)
  PROVE  Lawful(k)
<1>1. job' = [job EXCEPT ![k] = NoRecord] /\ accepted' = accepted /\ job[k].ttl
  BY DEF Expire
<1>2. (Done(job[k]) \/ Dead(job[k])) /\ k \in accepted
  BY <1>1 DEF PlaceInv, JobOK, StoredOK, Going, NoRecord
<1>3. Moves(k, "gone", 0)
  BY <1>1, <1>2 DEF Moves, StatusOf, NoRecord, TypeInv, TypeOK
<1>4. StatusOf(k) \in {"completed", "dead"}
  BY <1>2 DEF StatusOf, Done, Dead
<1>5. QED
  BY <1>3, <1>4 DEF Lawful

\* ZADD adds a pending job to the accepted ones.
LEMMA ZAddIsLawful ==
  ASSUME PlaceInv, TypeInv, NEW c \in Clients, ExecZAdd(c)
  PROVE  \E k \in Jobs : Lawful(k)
<1>1. PICK k : k = hand[c]
  OBVIOUS
<1>2. /\ k \in Jobs /\ wire[c] = EnqueueLast
      /\ job' = job /\ accepted' = accepted \cup {k}
  <2>1. wire[c] \in Pipelines /\ wire[c] # <<>> /\ Head(wire[c]) = "ZADD"
    BY DEF ExecZAdd, Execute, TypeInv, TypeOK
  <2>2. QED
    BY <1>1, <2>1, Pipes DEF ExecZAdd, TypeInv, TypeOK, Coherent, Point
<1>3. job[k].status = "pending"
  BY <1>1, <1>2 DEF PlaceInv, HeldOK, RecordOK
<1>4. Moves(k, StatusOf(k), job[k].retries)
  BY <1>2, <1>3 DEF Moves, StatusOf
<1>5. QED
  BY <1>2, <1>4 DEF Lawful

\* So every step is one of the lifecycle or changes no status.
LEMMA LifecycleStep ==
  ASSUME Marked, PlaceInv, TypeInv, [Next]_vars
  PROVE  Lifecycle!LifecycleNext \/ UNCHANGED Lifecycle!LifecycleVars
<1>1. CASE UNCHANGED <<job, accepted>>
  BY <1>1 DEF Lifecycle!LifecycleVars
<1>2. CASE ~UNCHANGED <<job, accepted>>
  BY <1>2, RecordWrites, SetIsLawful, ZAddIsLawful, MarkIsLawful, ExpireIsLawful, LawfulSteps
  DEF Writes
<1>3. QED
  BY <1>1, <1>2

\* The queue implements the lifecycle of README.md when Dequeue stores "processing":
\* no crash, error, shutdown or rescue re-opens a completed job, loses a failed
\* attempt, or moves a dead job other than by a retry (Dequeue, Complete, Fail,
\* Requeue, MoveToDeadLetter, RecoverStale, RetryDead).
THEOREM ImplementsLifecycle == ASSUME Orderly, Marked PROVE ApartSpec => FollowsLifecycle
<1>1. Init => Lifecycle!LifecycleInit
  BY DEF Init, Lifecycle!LifecycleInit, NoRecord
<1>2. PlaceInv /\ TypeInv /\ [Next]_vars => [Lifecycle!LifecycleNext]_(Lifecycle!LifecycleVars)
  BY LifecycleStep
<1>3. QED
  BY <1>1, <1>2, PlaceAlways, ApartIsSpec, PTL DEF Spec, FollowsLifecycle, Lifecycle!LifecycleSpec

-----------------------------------------------------------------------------
(***************************************************************************)
(* Where the jobs are.                                                     *)
(***************************************************************************)

\* The keys change only by these actions.
KeySteps ==
  \/ UNCHANGED <<job, pending, processing, dead, accepted>>
  \/ \E c \in Clients : ExecCommand(c)
  \/ \E w \in Workers : DequeuePop(w) \/ DequeueClaim(w) \/ DequeueMark(w)
  \/ \E s \in Pools : SweepRelease(s)
  \/ \E r \in Requests : RetryUnlist(r)
  \/ \E j \in Jobs : GoStale(j) \/ Expire(j)

\* No other action changes a key.
LEMMA KeyWrites == ASSUME Orderly, [Next]_vars PROVE KeySteps
<1> USE ClientKinds DEF keys, KeySteps
<1>1. ASSUME NEW w \in Workers, DequeueEmpty(w) \/ WorkerStep(w) PROVE KeySteps
  BY <1>1 DEF DequeueEmpty, qvars, WorkerStep, DequeueRead, Run, Complete, Fail, Requeue
<1>2. ASSUME NEW s \in Pools, SweeperStep(s) PROVE KeySteps
  BY <1>2 DEF SweeperStep, SweepOn, SweepSnapshot, SweepRead, Requeue, SweepDone
<1>3. ASSUME NEW r \in Requests, RequestStep(r) PROVE KeySteps
  BY <1>3 DEF RequestStep, RetryCount, Enqueue
<1>4. ASSUME NEW r \in Requests, NEW j \in Jobs, Submit(r, j) \/ RetryJob(r, j) PROVE KeySteps
  BY <1>4 DEF Submit, RetryJob, RetryRead
<1>5. ASSUME NEW j \in Jobs, GoStale(j) \/ Expire(j) \/ Overrun(j) PROVE KeySteps
  BY <1>5 DEF Overrun, Orderly
<1>6. ASSUME NEW c \in Clients, RedisError(c) \/ CtxError(c) PROVE KeySteps
  BY <1>6 DEF RedisError, CtxError, CallError
<1>7. ASSUME NEW p \in Pools \cup Requests, Crash(p) PROVE KeySteps
  BY <1>7 DEF Crash
<1>8. ASSUME NEW p \in Pools, Shutdown(p) \/ Restart(p) PROVE KeySteps
  BY <1>8 DEF Shutdown, Restart
<1>9. CASE UNCHANGED vars
  BY <1>9 DEF vars, qvars
<1> HIDE DEF KeySteps, keys
<1>10. QED
  BY <1>1, <1>2, <1>3, <1>4, <1>5, <1>6, <1>7, <1>8, <1>9 DEF Next, Continue, SweeperStep

\* Job k goes to place p, and no other job moves.
Shifts(k, p) == PlaceOf(k)' = p /\ \A j \in Jobs \ {k} : PlaceOf(j)' = PlaceOf(j)

Legal(k) ==
  \/ Shifts(k, PlaceOf(k))
  \/ PlaceOf(k) = "absent" /\ Shifts(k, "pending")
  \/ PlaceOf(k) = "pending" /\ Shifts(k, "moving")
  \/ PlaceOf(k) = "moving" /\ (Shifts(k, "processing") \/ Shifts(k, "pending") \/ Shifts(k, "dead"))
  \/ PlaceOf(k) = "processing" /\ (Shifts(k, "ended") \/ Shifts(k, "moving"))
  \/ PlaceOf(k) = "dead" /\ Shifts(k, "moving")

\* A job that a step leaves alone stays where it is.
LEMMA PlaceKept ==
  ASSUME NEW j, Untouched(j)
  PROVE  PlaceOf(j)' = PlaceOf(j)
BY DEF Untouched, PlaceOf

\* A command moves the job in hand.
LEMMA ExecIsLegal ==
  ASSUME Whole, PlaceInv, TypeInv, TypeInv', NEW c \in Clients, ExecCommand(c)
  PROVE  \E k \in Jobs : Legal(k)
<1>1. PICK k : k = hand[c]
  OBVIOUS
<1>2. k \in Jobs /\ Frame(c, k) /\ Effect(c, k)
  BY <1>1, ExecFrame, ExecEffect
<1>3. \A j \in Jobs \ {k} : PlaceOf(j)' = PlaceOf(j)
  BY <1>2, PlaceKept DEF Frame
<1>4. /\ KindOK(c) /\ JobOK(k)
      /\ PlaceOK(c, k) /\ RecordOK(c, job[k]) /\ CopyOK(c, job[k]) /\ ListOK(c, k)
  BY <1>1, <1>2 DEF PlaceInv, HeldOK
<1>5. /\ k \notin pending
      /\ c \notin Requests => k \in accepted
      /\ dead[k] = (IF Unlisted(c) THEN 0 ELSE 1)
  BY <1>4 DEF PlaceOK, ListOK
<1>6. CASE wire[c] = EnqueuePipe /\ wire'[c] = EnqueueLast
  <2>1. processing[k] = "none" /\ dead[k] = 0
    BY <1>4, <1>5, <1>6, PipesDiffer DEF PlaceOK, Claiming, Calls, Unlisted
  <2>2. k \in accepted => job[k].status \notin {"completed", "none"}
    BY <1>4, <1>5, <1>6, PipesDiffer DEF RecordOK, ListOK, Going, Dead
  <2>3. job'[k].status = "pending" /\ processing'[k] = "none" /\ dead'[k] = 0
        /\ pending' = pending /\ accepted' = accepted
    BY <1>1, <1>2, <1>6, <2>1, CopiesFit, PipesDiffer DEF Effect
  <2>4. PlaceOf(k)' = PlaceOf(k)
    BY <1>5, <2>1, <2>2, <2>3 DEF PlaceOf
  <2>5. QED
    BY <1>2, <1>3, <2>4 DEF Legal, Shifts
<1>7. CASE wire[c] = EnqueueLast /\ wire'[c] = <<>>
  <2>1. processing[k] = "none" /\ dead[k] = 0 /\ job[k].status = "pending"
    BY <1>4, <1>5, <1>7, PipesDiffer DEF PlaceOK, Claiming, Calls, Unlisted, RecordOK
  <2>2. PlaceOf(k) \in {"moving", "absent"}
    BY <1>5, <2>1 DEF PlaceOf
  <2>3. PlaceOf(k)' = "pending"
    BY <1>2, <1>7, PipesDiffer DEF Effect, PlaceOf
  <2>4. QED
    BY <1>2, <1>3, <2>2, <2>3 DEF Legal, Shifts
<1>8. CASE wire[c] \in {CompletePipe, FailPipe, DeadPipe}
  <2>1. processing[k] # "none"
    BY <1>4, <1>8 DEF PlaceOK, Claiming
  <2>2. PlaceOf(k)' = PlaceOf(k)
    BY <1>2, <1>5, <1>8, <2>1, PipesDiffer DEF Effect, PlaceOf
  <2>3. QED
    BY <1>2, <1>3, <2>2 DEF Legal, Shifts
<1>9. CASE wire[c] \in {CompleteRest, FailRest, DeadRest}
  <2>1. processing[k] # "none" /\ dead[k] = 0 /\ k \in accepted
    BY <1>4, <1>5, <1>9, PipesDiffer DEF PlaceOK, Claiming, Calls, Unlisted, KindOK
  <2>2. job[k].status \in {"completed", "failed", "dead"}
    BY <1>4, <1>9 DEF RecordOK, Done, Dead
  <2>3. PlaceOf(k) = "processing"
    BY <1>5, <2>1 DEF PlaceOf
  <2>4. PlaceOf(k)' \in {"ended", "moving"}
    BY <1>2, <1>5, <1>9, <2>1, <2>2, PipesDiffer DEF Effect, PlaceOf
  <2>5. QED
    BY <1>2, <1>3, <2>3, <2>4 DEF Legal, Shifts
<1>10. CASE wire[c] = DeadUnlisted
  <2>1. processing[k] = "none" /\ dead[k] = 0 /\ k \in accepted /\ job[k].status = "dead"
    BY <1>4, <1>5, <1>10, PipesDiffer DEF PlaceOK, Claiming, Calls, Unlisted, KindOK, RecordOK, Dead
  <2>2. PlaceOf(k) = "moving"
    BY <1>5, <2>1 DEF PlaceOf
  <2>3. PlaceOf(k)' = "dead"
    BY <1>2, <1>5, <1>10, <2>1, PipesDiffer DEF Effect, PlaceOf
  <2>4. QED
    BY <1>2, <1>3, <2>2, <2>3 DEF Legal, Shifts
<1>11. CASE wire[c] \in {CompleteLast, FailLast, DeadLast}
  <2>1. PlaceOf(k)' = PlaceOf(k)
    BY <1>2, <1>11, PipesDiffer DEF Effect, PlaceOf
  <2>2. QED
    BY <1>2, <1>3, <2>1 DEF Legal, Shifts
<1>12. QED
  BY <1>2, <1>6, <1>7, <1>8, <1>9, <1>10, <1>11 DEF Effect

\* A call of a worker, a sweeper or a request moves the job in hand.
LEMMA PopIsLegal ==
  ASSUME Whole, PlaceInv, TypeInv, NEW w \in Workers, DequeuePop(w)
  PROVE  \E k \in Jobs : Legal(k)
<1>1. PICK k \in pending : pending' = pending \ {k}
  BY DEF DequeuePop
<1>2. k \in Jobs /\ JobOK(k)
  BY <1>1 DEF TypeInv, TypeOK, PlaceInv
<1>3. Free(k)
  BY <1>1, <1>2 DEF PlaceInv, HeldOK, PlaceOK, Free
<1>4. /\ job[k].status = "pending" /\ processing[k] = "none" /\ k \in accepted
      /\ dead[k] = 0
  BY <1>1, <1>2, <1>3, RecordKinds DEF JobOK, QueuedOK, ListedOK, TypeInv, TypeOK
<1>5. UNCHANGED <<job, processing, dead, accepted>>
  BY DEF DequeuePop
<1>6. PlaceOf(k) = "pending" /\ PlaceOf(k)' = "moving"
  BY <1>1, <1>4, <1>5 DEF PlaceOf
<1>7. \A j \in Jobs \ {k} : PlaceOf(j)' = PlaceOf(j)
  BY <1>1, <1>5 DEF PlaceOf
<1>8. QED
  BY <1>2, <1>6, <1>7 DEF Legal, Shifts

\* So does a call that takes away a claim, adds one, or shortens the dead-letter list.
LEMMA CallIsLegal ==
  ASSUME Whole, PlaceInv, TypeInv, NEW c \in Clients,
         \/ c \in Workers /\ (DequeueClaim(c) \/ DequeueMark(c))
         \/ c \in Pools /\ SweepRelease(c)
         \/ c \in Requests /\ RetryUnlist(c)
  PROVE  \E k \in Jobs : Legal(k)
<1> USE DEF TypeInv
<1>1. PICK k : k = hand[c]
  OBVIOUS
<1>2. k \in Jobs /\ wire[c] = <<>> /\ pc[c] \in {"hset", "mark", "hdel", "lrem"}
  BY <1>1 DEF DequeueClaim, DequeueMark, SweepRelease, RetryUnlist, At, Coherent, Point
<1>3. /\ KindOK(c) /\ JobOK(k)
      /\ PlaceOK(c, k) /\ RecordOK(c, job[k]) /\ CopyOK(c, job[k]) /\ ListOK(c, k)
  BY <1>1, <1>2 DEF PlaceInv, HeldOK
<1>4. /\ k \notin pending
      /\ c \notin Requests => k \in accepted /\ Going(job[k])
      /\ dead[k] = (IF pc[c] = "lrem" THEN 1 ELSE 0)
  BY <1>2, <1>3, PipesDiffer DEF PlaceOK, ListOK, RecordOK, Unlisted, Calls
<1>5. CASE DequeueClaim(c) /\ c \in Workers
  <2>1. /\ pc[c] = "hset" /\ c \notin Requests
        /\ processing' = [processing EXCEPT ![k] = "fresh"] /\ UNCHANGED <<job, pending, dead, accepted>>
    BY <1>1, <1>5, ClientsAssumption DEF DequeueClaim, At
  <2>2. processing[k] = "none"
    BY <1>2, <1>3, <2>1, PipesDiffer DEF PlaceOK, Claiming, Calls
  <2>3. PlaceOf(k) = "moving" /\ PlaceOf(k)' = "processing"
    BY <1>2, <1>4, <2>1, <2>2 DEF PlaceOf, Going, TypeOK
  <2>4. \A j \in Jobs \ {k} : PlaceOf(j)' = PlaceOf(j)
    BY <2>1 DEF PlaceOf, TypeOK
  <2>5. QED
    BY <1>2, <2>3, <2>4 DEF Legal, Shifts
<1>6. CASE DequeueMark(c) /\ c \in Workers
  <2>1. /\ pc[c] = "mark"
        /\ job' = [job EXCEPT ![k] = copy[c]] /\ UNCHANGED <<processing, pending, dead, accepted>>
    BY <1>1, <1>6 DEF DequeueMark, At
  <2>2. processing[k] # "none"
    BY <1>2, <1>3, <2>1 DEF PlaceOK, Claiming, Calls
  <2>3. PlaceOf(k)' = PlaceOf(k)
    BY <1>4, <2>1, <2>2 DEF PlaceOf
  <2>4. \A j \in Jobs \ {k} : PlaceOf(j)' = PlaceOf(j)
    BY <2>1 DEF PlaceOf, TypeOK
  <2>5. QED
    BY <1>2, <2>3, <2>4 DEF Legal, Shifts
<1>7. CASE SweepRelease(c) /\ c \in Pools
  <2>1. /\ pc[c] = "hdel" /\ c \notin Requests
        /\ processing' = [processing EXCEPT ![k] = "none"] /\ UNCHANGED <<job, pending, dead, accepted>>
    BY <1>1, <1>7, ClientsAssumption DEF SweepRelease, At
  <2>2. processing[k] # "none"
    BY <1>2, <1>3, <2>1 DEF PlaceOK, Claiming, Calls
  <2>3. PlaceOf(k) = "processing" /\ PlaceOf(k)' = "moving"
    BY <1>2, <1>4, <2>1, <2>2 DEF PlaceOf, Going, TypeOK
  <2>4. \A j \in Jobs \ {k} : PlaceOf(j)' = PlaceOf(j)
    BY <2>1 DEF PlaceOf, TypeOK
  <2>5. QED
    BY <1>2, <2>3, <2>4 DEF Legal, Shifts
<1>8. CASE RetryUnlist(c) /\ c \in Requests
  <2>1. /\ pc[c] = "lrem"
        /\ dead' = [dead EXCEPT ![k] = 0] /\ UNCHANGED <<job, pending, processing, accepted>>
    BY <1>1, <1>8 DEF RetryUnlist, At
  <2>2. processing[k] = "none"
    BY <1>2, <1>3, <2>1, PipesDiffer DEF PlaceOK, Claiming, Calls
  <2>3. job[k].status = "dead" /\ k \in accepted
    BY <1>2, <1>3, <2>1 DEF RecordOK, Calls, Dead, JobOK, StoredOK
  <2>4. PlaceOf(k) = "dead" /\ PlaceOf(k)' = "moving"
    BY <1>2, <1>4, <2>1, <2>2, <2>3 DEF PlaceOf, TypeOK
  <2>5. \A j \in Jobs \ {k} : PlaceOf(j)' = PlaceOf(j)
    BY <2>1 DEF PlaceOf, TypeOK
  <2>6. QED
    BY <1>2, <2>4, <2>5 DEF Legal, Shifts
<1>9. QED
  BY <1>5, <1>6, <1>7, <1>8, ClientsAssumption

\* Time moves no job: a claim that turns stale is a claim, and a record that expires
\* is that of a completed job, or of a dead one that stays in the list.
LEMMA TimeIsLegal ==
  ASSUME Whole, PlaceInv, TypeInv, NEW k \in Jobs, GoStale(k) \/ Expire(k)
  PROVE  Legal(k)
<1> USE DEF TypeInv
<1>1. CASE GoStale(k)
  BY <1>1 DEF GoStale, PlaceOf, Legal, Shifts, TypeOK
<1>2. CASE Expire(k)
  <2>1. /\ job' = [job EXCEPT ![k] = NoRecord] /\ job[k].ttl
        /\ UNCHANGED <<pending, processing, dead, accepted, hand>>
    BY <1>2 DEF Expire, memory
  <2>2. (Done(job[k]) \/ Dead(job[k])) /\ k \in accepted /\ JobOK(k)
    BY <2>1 DEF PlaceInv, JobOK, StoredOK, Going, NoRecord
  <2>3. Free(k)
    <3> SUFFICES ASSUME NEW c \in Clients, hand[c] = k PROVE FALSE
      BY DEF Free
    <3>1. pc[c] = "run" /\ wire[c] = <<>>
      BY <1>2 DEF Expire, Coherent
    <3>2. KindOK(c) /\ RecordOK(c, job[k])
      BY DEF PlaceInv, HeldOK
    <3>3. QED
      BY <2>2, <3>1, <3>2, RecordKinds DEF RecordOK, KindOK
  <2>4. Dead(job[k]) => dead[k] = 1
    BY <2>2, <2>3, RecordKinds DEF JobOK, ListedOK
  <2>5. PlaceOf(k)' = PlaceOf(k)
    BY <2>1, <2>2, <2>4 DEF PlaceOf, NoRecord, Done, TypeOK
  <2>6. \A j \in Jobs \ {k} : PlaceOf(j)' = PlaceOf(j)
    BY <2>1 DEF PlaceOf, TypeOK
  <2>7. QED
    BY <2>5, <2>6 DEF Legal, Shifts
<1>3. QED
  BY <1>1, <1>2

\* A legal move is a step of JobPlaces.
LEMMA LegalSteps ==
  ASSUME NEW k \in Jobs, Legal(k)
  PROVE  Keys!Next \/ UNCHANGED [j \in Jobs |-> PlaceOf(j)]
<1> DEFINE place == [j \in Jobs |-> PlaceOf(j)]
<1>1. ASSUME NEW p, Shifts(k, p) PROVE place' = [place EXCEPT ![k] = p]
  BY <1>1 DEF Shifts
<1>2. ASSUME NEW from, NEW to, PlaceOf(k) = from, Shifts(k, to) PROVE Keys!Go(k, from, to)
  BY <1>1, <1>2 DEF Keys!Go
<1>3. CASE Shifts(k, PlaceOf(k))
  BY <1>1, <1>3
<1>4. CASE ~Shifts(k, PlaceOf(k))
  BY <1>2, <1>4 DEF Legal, Keys!Next, Keys!Submit, Keys!Dequeue, Keys!Leave, Keys!Settle, Keys!RetryDead
<1>5. QED
  BY <1>3, <1>4

\* The keys of Redis tell where every job is: a retry that is not cut short moves it
\* from one key to the next, and whatever else fails moves it nowhere (Dequeue,
\* Complete, Fail, Requeue, MoveToDeadLetter, RecoverStale, RetryDead).
THEOREM ImplementsPlaces == ASSUME Orderly, Whole PROVE ApartSpec => FollowsPlaces
<1>1. Init => Keys!Init
  BY DEF Init, Keys!Init, PlaceOf
<1>2. ASSUME PlaceInv, TypeInv, [Next]_vars
      PROVE  Keys!Next \/ UNCHANGED [j \in Jobs |-> PlaceOf(j)]
  <2>1. TypeInv'
    BY <1>2, TypeNext
  <2>2. CASE UNCHANGED <<job, pending, processing, dead, accepted>>
    BY <2>2 DEF PlaceOf
  <2>3. CASE ~UNCHANGED <<job, pending, processing, dead, accepted>>
    <3>1. \E k \in Jobs : Legal(k)
      BY <1>2, <2>1, <2>3, KeyWrites, ExecIsLegal, PopIsLegal, CallIsLegal, TimeIsLegal, ClientKinds
      DEF KeySteps
    <3>2. QED
      BY <3>1, LegalSteps
  <2>4. QED
    BY <2>2, <2>3
<1>3. QED
  BY <1>1, <1>2, PlaceAlways, ApartIsSpec, PTL DEF Spec, FollowsPlaces, Keys!Spec

=============================================================================
