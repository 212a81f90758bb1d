---------------------------- MODULE RedisQueue ----------------------------
(***************************************************************************)
(* The job queue of internal/queue/redis_queue.go and the Redis keys it    *)
(* lives in.  Every operation of the queue is a sequence of Redis round    *)
(* trips made by a client: a worker goroutine, the stale-job sweeper of a  *)
(* worker process, or a request handler of the API server.  Redis makes    *)
(* one command atomic and nothing larger, so a round trip of one command   *)
(* is one action, and a pipeline is a list of commands on the client's     *)
(* wire that Redis executes one by one.                                    *)
(*                                                                         *)
(* The order of the pending sorted set is abstracted here: ZPOPMIN may     *)
(* return any member.  A job's payload, type, priority, error text and     *)
(* timestamps are left out.                                                *)
(***************************************************************************)
EXTENDS Integers, Sequences

CONSTANTS
  Jobs,        \* the job ids that uuid.New may hand out
  Workers,     \* worker goroutines
  Pools,       \* worker processes; each also runs one sweeper goroutine
  Requests,    \* request handlers of the API server
  PoolOf,      \* the worker process a worker goroutine belongs to
  NoJob,       \* what a client holds when it works on no job
  MaxRetries,  \* Job.MaxRetries, after SubmitJob replaced 0 by 3
  Batched      \* TRUE: a pipeline reaches Redis in one read and is not
               \* interleaved.  FALSE: Redis may serve others in between.

Clients == Workers \cup Pools \cup Requests

ASSUME ClientsAssumption ==
  /\ Workers \cap Pools = {}
  /\ Workers \cap Requests = {}
  /\ Pools \cap Requests = {}
  /\ PoolOf \in [Workers -> Pools]

ASSUME QueueAssumption ==
  /\ NoJob \notin Jobs
  /\ MaxRetries \in Int \ {0}
  /\ Batched \in BOOLEAN

VARIABLES
  \* The keys in Redis.
  job,         \* job:<id>, the stored record; NoRecord when the key is absent
  pending,     \* queue:pending, the members of the sorted set
  processing,  \* queue:processing, per id: no field, or a claim and its age
  dead,        \* queue:dead, how often an id occurs in the list
  stats,       \* stats:completed, stats:failed, stats:dead
  \* The state of each client.
  pc,          \* the round trip the client makes next
  hand,        \* the id it works on
  copy,        \* the Go value `job` it has unmarshalled or built
  wire,        \* the commands of its pipeline that Redis has not executed yet
  todo,        \* RecoverStale: snapshot entries still to be handled
  ctx,         \* per worker process, whether its context is cancelled
  \* History.
  issued,      \* ids given to a submission
  accepted     \* ids that have been added to the pending set

keys   == <<job, pending, processing, dead, stats>>
memory == <<pc, hand, copy, wire, todo>>
qvars  == <<keys, memory, ctx, issued, accepted>>

Statuses == {"pending", "processing", "completed", "failed", "dead"}
Counters == {"completed", "failed", "dead"}

\* ttl: the key expires, 24 hours after Complete, 7 days after MoveToDeadLetter.
Records  == [status : Statuses \cup {"none"}, retries : Nat, ttl : BOOLEAN]
NoRecord == [status |-> "none", retries |-> 0, ttl |-> FALSE]

\* What an operation marshals: the job it read, with a new status, for a SET
\* with a time to live or without.
WithStatus(r, s, ttl) == [status |-> s, retries |-> r.retries, ttl |-> ttl]

(***************************************************************************)
(* The pipelines.  Each is about the job in the client's hand: SET writes  *)
(* its copy, ZADD, HDEL and LPUSH name its id, and the name of a counter   *)
(* stands for INCR stats:<name>.                                           *)
(***************************************************************************)
\* Mutants of CompletePipe: the claim stays behind; the status is not stored.
CompletePipeKeepsClaim == <<"SET", "completed">>
CompletePipeKeepsStatus == <<"HDEL", "completed">>

EnqueuePipe  == <<"SET", "ZADD">>
CompletePipe == <<"SET", "HDEL", "completed">>
FailPipe     == <<"SET", "HDEL", "failed">>
DeadPipe     == <<"SET", "HDEL", "LPUSH", "dead">>

\* Every list of commands a wire can hold: the pipelines and their suffixes.
Pipelines ==
  { <<>>,
    EnqueuePipe,  <<"ZADD">>,
    CompletePipe, <<"HDEL", "completed">>, <<"completed">>,
    FailPipe,     <<"HDEL", "failed">>, <<"failed">>,
    DeadPipe,     <<"HDEL", "LPUSH", "dead">>, <<"LPUSH", "dead">>, <<"dead">> }

-----------------------------------------------------------------------------
\* A pipeline that arrived in one read keeps the other clients waiting.
Turn(c) == Batched => \A d \in Clients \ {c} : wire[d] = <<>>

\* The context handed to every call of a worker or sweeper is its process's;
\* a cancelled context makes a call fail before it is sent.
Live(c) == /\ c \in Workers => ctx[PoolOf[c]] = "live"
           /\ c \in Pools   => ctx[c] = "live"

\* Client c is about to make the call l, and may.
At(c, l) == pc[c] = l /\ wire[c] = <<>> /\ Live(c) /\ Turn(c)

Goto(c, l) == pc' = [pc EXCEPT ![c] = l]
Send(c, p) == wire' = [wire EXCEPT ![c] = p]
Take(c, j) == hand' = [hand EXCEPT ![c] = j]
Load(c, r) == copy' = [copy EXCEPT ![c] = r]

\* Where a client goes when an operation is over: the sweeper to the next
\* entry of its snapshot, a worker to its loop, a request is answered.
Home(c) == IF c \in Pools THEN "sweep" ELSE "idle"

Drop(c) == Take(c, NoJob) /\ Load(c, NoRecord)

\* Every error path of the queue: forget the job and return.
Abandon(c) == Goto(c, Home(c)) /\ Drop(c) /\ Send(c, <<>>)

-----------------------------------------------------------------------------
(***************************************************************************)
(* Redis executes the next command of a pipeline.  When the last one is    *)
(* done the operation is over and the client lets go of the job, except    *)
(* after the first pipeline of Fail, which Requeue follows.                *)
(***************************************************************************)
Execute(c, commands) ==
  /\ wire[c] # <<>>
  /\ Head(wire[c]) \in commands
  /\ Turn(c)
  /\ Send(c, Tail(wire[c]))
  /\ IF Tail(wire[c]) = <<>> /\ pc[c] # "requeue"
       THEN Drop(c)
       ELSE UNCHANGED <<hand, copy>>
  /\ UNCHANGED <<pc, todo, ctx, issued>>

ExecSet(c) ==
  /\ Execute(c, {"SET"})
  /\ job' = [job EXCEPT ![hand[c]] = copy[c]]
  /\ UNCHANGED <<pending, processing, dead, stats, accepted>>

ExecZAdd(c) ==
  /\ Execute(c, {"ZADD"})
  /\ pending' = pending \cup {hand[c]}
  /\ accepted' = accepted \cup {hand[c]}
  /\ UNCHANGED <<job, processing, dead, stats>>

ExecHDel(c) ==
  /\ Execute(c, {"HDEL"})
  /\ processing' = [processing EXCEPT ![hand[c]] = "none"]
  /\ UNCHANGED <<job, pending, dead, stats, accepted>>

ExecLPush(c) ==
  /\ Execute(c, {"LPUSH"})
  /\ dead' = [dead EXCEPT ![hand[c]] = @ + 1]
  /\ UNCHANGED <<job, pending, processing, stats, accepted>>

ExecIncr(c) ==
  /\ Execute(c, Counters)
  /\ stats' = [stats EXCEPT ![Head(wire[c])] = @ + 1]
  /\ UNCHANGED <<job, pending, processing, dead, accepted>>

ExecCommand(c) ==
  ExecSet(c) \/ ExecZAdd(c) \/ ExecHDel(c) \/ ExecLPush(c) \/ ExecIncr(c)

\* A key with a time to live is removed once it has passed.  That takes a day
\* at least, and only a handler can keep a client busy on a job for so long.
Expire(j) ==
  /\ job[j].ttl
  /\ \A c \in Clients : hand[c] = j => pc[c] = "run"
  /\ job' = [job EXCEPT ![j] = NoRecord]
  /\ UNCHANGED <<pending, processing, dead, stats, memory, ctx, issued, accepted>>

-----------------------------------------------------------------------------
(***************************************************************************)
(* Dequeue: ZPOPMIN, HSET, GET and SET, one round trip each.               *)
(***************************************************************************)
\* ZPOPMIN finds the set empty; the worker sleeps and polls again.
DequeueEmpty(w) ==
  /\ At(w, "idle")
  /\ pending = {}
  /\ UNCHANGED qvars

DequeuePop(w) ==
  /\ At(w, "idle")
  /\ \E j \in pending : pending' = pending \ {j} /\ Take(w, j)
  /\ Goto(w, "hset")
  /\ UNCHANGED <<job, processing, dead, stats, copy, wire, todo, ctx, issued, accepted>>

\* Mutant of DequeueClaim: the claim is not recorded.
DequeueClaimForgotten(w) ==
  /\ At(w, "hset")
  /\ Goto(w, "get")
  /\ UNCHANGED <<keys, hand, copy, wire, todo, ctx, issued, accepted>>

DequeueClaim(w) ==
  /\ At(w, "hset")
  /\ processing' = [processing EXCEPT ![hand[w]] = "fresh"]
  /\ Goto(w, "get")
  /\ UNCHANGED <<job, pending, dead, stats, hand, copy, wire, todo, ctx, issued, accepted>>

\* GET: a missing record is an error, which leaves the claim behind.
DequeueRead(w) ==
  /\ At(w, "get")
  /\ IF job[hand[w]] = NoRecord
       THEN Abandon(w)
       ELSE /\ Load(w, WithStatus(job[hand[w]], "processing", FALSE))
            /\ Goto(w, "mark")
            /\ UNCHANGED <<hand, wire>>
  /\ UNCHANGED <<keys, todo, ctx, issued, accepted>>

DequeueMark(w) ==
  /\ At(w, "mark")
  /\ job' = [job EXCEPT ![hand[w]] = copy[w]]
  /\ Load(w, NoRecord)
  /\ Goto(w, "run")
  /\ UNCHANGED <<pending, processing, dead, stats, hand, wire, todo, ctx, issued, accepted>>

(***************************************************************************)
(* Complete and Fail read the record again; what they write goes out in a  *)
(* pipeline.                                                               *)
(***************************************************************************)
Complete(w) ==
  /\ At(w, "complete")
  /\ IF job[hand[w]] = NoRecord
       THEN Abandon(w)
       ELSE /\ Load(w, WithStatus(job[hand[w]], "completed", TRUE))
            /\ Send(w, CompletePipe)
            /\ Goto(w, "idle")
            /\ UNCHANGED hand
  /\ UNCHANGED <<keys, todo, ctx, issued, accepted>>

\* Mutants: the attempts are counted down; the last attempt is one too many.
FailuresCountedDown(r) == r.retries - 1
ExhaustedLate(retries) == retries > MaxRetries

Failures(r) == r.retries + 1
Exhausted(retries) == retries >= MaxRetries

\* Requeue or MoveToDeadLetter, by the number of retries after this failure.
Fail(w) ==
  LET stored  == job[hand[w]]
      retries == Failures(stored)
  IN
  /\ At(w, "fail")
  /\ \/ /\ stored = NoRecord
        /\ Abandon(w)
     \/ /\ stored # NoRecord
        /\ Exhausted(retries)
        /\ Load(w, [status |-> "dead", retries |-> retries, ttl |-> TRUE])
        /\ Send(w, DeadPipe)
        /\ Goto(w, "idle")
        /\ UNCHANGED hand
     \/ /\ stored # NoRecord
        /\ ~Exhausted(retries)
        /\ Load(w, [status |-> "failed", retries |-> retries, ttl |-> FALSE])
        /\ Send(w, FailPipe)
        /\ Goto(w, "requeue")
        /\ UNCHANGED hand
  /\ UNCHANGED <<keys, todo, ctx, issued, accepted>>

\* Requeue, called by Fail and by RecoverStale with the copy they hold.
Requeue(c) ==
  /\ At(c, "requeue")
  /\ Load(c, WithStatus(copy[c], "pending", FALSE))
  /\ Send(c, EnqueuePipe)
  /\ Goto(c, Home(c))
  /\ UNCHANGED <<keys, hand, todo, ctx, issued, accepted>>

(***************************************************************************)
(* RecoverStale: HGETALL, then per entry that was stale in that snapshot   *)
(* GET, HDEL and Requeue.  A pass that finds nothing changes nothing.      *)
(***************************************************************************)
\* Mutants of StaleClaims: the cutoff is ignored; it is compared the wrong way.
AllClaims   == {j \in Jobs : processing[j] # "none"}
FreshClaims == {j \in Jobs : processing[j] = "fresh"}

StaleClaims == {j \in Jobs : processing[j] = "stale"}

SweepSnapshot(s) ==
  /\ At(s, "idle")
  /\ StaleClaims # {}
  /\ todo' = [todo EXCEPT ![s] = StaleClaims]
  /\ Goto(s, "sweep")
  /\ UNCHANGED <<keys, hand, copy, wire, ctx, issued, accepted>>

SweepRead(s) ==
  /\ At(s, "sweep")
  /\ \E j \in todo[s] :
       /\ todo' = [todo EXCEPT ![s] = @ \ {j}]
       /\ IF job[j] = NoRecord
            THEN UNCHANGED <<pc, hand, copy>>
            ELSE Take(s, j) /\ Load(s, job[j]) /\ Goto(s, "hdel")
  /\ UNCHANGED <<keys, wire, ctx, issued, accepted>>

SweepRelease(s) ==
  /\ At(s, "hdel")
  /\ processing' = [processing EXCEPT ![hand[s]] = "none"]
  /\ Goto(s, "requeue")
  /\ UNCHANGED <<job, pending, dead, stats, hand, copy, wire, todo, ctx, issued, accepted>>

SweepDone(s) ==
  /\ pc[s] = "sweep" /\ wire[s] = <<>> /\ todo[s] = {}
  /\ Goto(s, "idle")
  /\ UNCHANGED <<keys, hand, copy, wire, todo, ctx, issued, accepted>>

(***************************************************************************)
(* Enqueue, and RetryDead: GET, LREM, DECR and Enqueue with a fresh copy.  *)
(***************************************************************************)
Enqueue(r) ==
  /\ At(r, "enqueue")
  /\ Send(r, EnqueuePipe)
  /\ Goto(r, "idle")
  /\ UNCHANGED <<keys, hand, copy, todo, ctx, issued, accepted>>

\* Mutant of RetryRead: the status of the job is not checked.
RetryReadUnchecked(r, j) ==
  /\ At(r, "idle")
  /\ job[j] # NoRecord
  /\ Take(r, j)
  /\ Goto(r, "lrem")
  /\ UNCHANGED <<keys, copy, wire, todo, ctx, issued, accepted>>

RetryRead(r, j) ==
  /\ At(r, "idle")
  /\ job[j].status = "dead"
  /\ Take(r, j)
  /\ Goto(r, "lrem")
  /\ UNCHANGED <<keys, copy, wire, todo, ctx, issued, accepted>>

\* Mutant of RetryUnlist: the id stays in the list.
RetryUnlistForgotten(r) ==
  /\ At(r, "lrem")
  /\ Goto(r, "decr")
  /\ UNCHANGED <<keys, hand, copy, wire, todo, ctx, issued, accepted>>

RetryUnlist(r) ==
  /\ At(r, "lrem")
  /\ dead' = [dead EXCEPT ![hand[r]] = 0]
  /\ Goto(r, "decr")
  /\ UNCHANGED <<job, pending, processing, stats, hand, copy, wire, todo, ctx, issued, accepted>>

FreshJob == [status |-> "pending", retries |-> 0, ttl |-> FALSE]

RetryCount(r) ==
  /\ At(r, "decr")
  /\ stats' = [stats EXCEPT !["dead"] = @ - 1]
  /\ Load(r, FreshJob)
  /\ Goto(r, "enqueue")
  /\ UNCHANGED <<job, pending, processing, dead, hand, wire, todo, ctx, issued, accepted>>

(***************************************************************************)
(* A Redis call of client c returns an error, or finds its context         *)
(* cancelled.  Dequeue ignores the outcome of its last SET, RetryDead that *)
(* of LREM and DECR, and the sweeper goes on with the next entry.  A lost  *)
(* reply to a command that was executed is the command followed by an      *)
(* error at the next point.                                                *)
(***************************************************************************)
Point(c) == IF wire[c] # <<>> THEN "pipeline" ELSE pc[c]

CallError(c) ==
  /\ \/ /\ Point(c) = "mark"
        /\ Load(c, NoRecord) /\ Goto(c, "run") /\ UNCHANGED <<hand, wire, todo>>
     \/ /\ Point(c) = "lrem"
        /\ Goto(c, "decr") /\ UNCHANGED <<hand, copy, wire, todo>>
     \/ /\ Point(c) = "decr"
        /\ Load(c, FreshJob) /\ Goto(c, "enqueue") /\ UNCHANGED <<hand, wire, todo>>
     \/ /\ Point(c) = "sweep"
        /\ \E j \in todo[c] : todo' = [todo EXCEPT ![c] = @ \ {j}]
        /\ UNCHANGED <<pc, hand, copy, wire>>
     \/ /\ Point(c) \in {"hset", "get", "complete", "fail", "requeue", "hdel",
                         "enqueue", "pipeline"}
        /\ Abandon(c) /\ UNCHANGED todo
  /\ UNCHANGED <<keys, ctx, issued, accepted>>

=============================================================================
