----------------------------- MODULE JobPlaces -----------------------------
(***************************************************************************)
(* Where the jobs of the queue are, as a reader of the Redis keys sees it. *)
(* TaskQueue implements this specification, and QueuePanel looks at it.    *)
(***************************************************************************)
CONSTANT Jobs

VARIABLE place

\* "pending": in queue:pending.  "processing": it has a claim.  "dead": in
\* queue:dead.  "ended": in none of them, for good, as it is completed.
\* "moving": in none of them, while a client carries it from one to another.
Places == {"absent", "pending", "moving", "processing", "dead", "ended"}

At(p) == {j \in Jobs : place[j] = p}

Init == place = [j \in Jobs |-> "absent"]

Go(j, from, to) ==
  /\ place[j] = from
  /\ place' = [place EXCEPT ![j] = to]

Submit(j) == Go(j, "absent", "pending")

\* Taken from the pending set, or claimed.
Dequeue(j) == Go(j, "pending", "moving") \/ Go(j, "moving", "processing")

\* The claim is removed: by Complete, or by Fail and RecoverStale.
Leave(j) == Go(j, "processing", "ended") \/ Go(j, "processing", "moving")

\* A job that was let go of is queued again or parked.
Settle(j) == Go(j, "moving", "pending") \/ Go(j, "moving", "dead")

RetryDead(j) == Go(j, "dead", "moving")

Next == \E j \in Jobs : Submit(j) \/ Dequeue(j) \/ Leave(j) \/ Settle(j) \/ RetryDead(j)

Spec == Init /\ [][Next]_place
=============================================================================
