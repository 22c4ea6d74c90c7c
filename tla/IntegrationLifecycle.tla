------------------------ MODULE IntegrationLifecycle ------------------------
(***************************************************************************)
(* What an external operation looks like to those who requested it, with   *)
(* the outbox, its workers and the callback transactions left out.  An     *)
(* open operation is one the system still owes a delivery; an accepted one *)
(* waits for the provider.                                                 *)
(***************************************************************************)
CONSTANTS
  Operations,
  Processed            \* operations a durable process requested and may retry

VARIABLE phase

Phase == {"none", "open", "accepted", "succeeded", "failed"}

LifeInit == phase = [o \in Operations |-> "none"]

Become(o, from, to) == phase[o] \in from /\ phase' = [phase EXCEPT ![o] = to]

Request(o) == Become(o, {"none"}, "open")
Settle(o) == \E to \in {"accepted", "succeeded", "failed"} : Become(o, {"open"}, to)
Report(o) == \E to \in {"succeeded", "failed"} : Become(o, {"open", "accepted", "failed"}, to)
Reopen(o) == Become(o, {"failed"}, "open")

\* The retry of a process may race with a late callback and reopen a success.
Undo(o) == o \in Processed /\ Become(o, {"succeeded"}, "open")

LifeNext == \E o \in Operations : Request(o) \/ Settle(o) \/ Report(o) \/ Reopen(o) \/ Undo(o)

LifeSafety == LifeInit /\ [][LifeNext]_phase

\* An open operation does not stay open: it is settled or reported on.
LifeSpec == LifeSafety /\ \A o \in Operations : WF_phase(Settle(o))
=============================================================================
