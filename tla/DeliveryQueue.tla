--------------------------- MODULE DeliveryQueue ---------------------------
(***************************************************************************)
(* What the transactional outbox promises its producers, with leases,      *)
(* tokens, attempts and crashes left out: a message put in the queue is    *)
(* either done or buried, a done message is never worked on again, and     *)
(* only an operator revives a buried one.                                  *)
(***************************************************************************)
CONSTANT Messages

VARIABLE queue        \* the standing of every message

Standing == {"absent", "queued", "done", "buried", "forgotten"}

QueueInit == queue = [m \in Messages |-> "absent"]

Move(m, from, to) == queue[m] = from /\ queue' = [queue EXCEPT ![m] = to]

Put(m) == Move(m, "absent", "queued")
Settle(m) == Move(m, "queued", "done") \/ Move(m, "queued", "buried")
Revive(m) == Move(m, "buried", "queued")
Forget(m) == Move(m, "done", "forgotten")

QueueNext == \E m \in Messages : Put(m) \/ Settle(m) \/ Revive(m) \/ Forget(m)

QueueSafety == QueueInit /\ [][QueueNext]_queue

\* Every queued message is eventually settled.
QueueSpec == QueueSafety /\ \A m \in Messages : WF_queue(Settle(m))
=============================================================================
