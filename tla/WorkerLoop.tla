----------------------------- MODULE WorkerLoop -----------------------------
(***************************************************************************)
(* The worker process (worker.ts): one loop that in turn advances durable  *)
(* processes, escalates overdue tasks and delivers from the outbox, while  *)
(* people and workflows change Tasks and Cases.  An error anywhere in an   *)
(* iteration ends the iteration.  Of the processes and the outbox only     *)
(* that the loop comes to them is kept; ProcessManager and Outbox say what *)
(* happens then.                                                           *)
(***************************************************************************)
EXTENDS Work

CONSTANTS
  MaxFaults,        \* bound on iterations that a database error ends
  EscalatesInWorld  \* whether the escalation acts in a World ("no" in the code)

ASSUME LoopAssumption ==
  MaxFaults \in Nat /\ EscalatesInWorld \in {"yes", "no"}

VARIABLES
  stage,      \* where the loop is
  due,        \* whether the interval of the escalation has elapsed
  late,       \* tasks whose reactivity deadline has passed
  waiting,    \* whether an outbox message waits for its delivery
  failures

loopVars == <<stage, due, late, waiting, failures>>
vars == <<workVars, loopVars>>

Init ==
  /\ WorkInit
  /\ stage = "processes"
  /\ due = "yes"
  /\ late = {}
  /\ waiting = "no"
  /\ failures = 0

Overdue == {t \in late : Exists(t) /\ tasks[t].status = "IN_PROGRESS"}

AdvanceProcesses ==
  /\ stage = "processes"
  /\ stage' = "escalation"
  /\ UNCHANGED <<workVars, due, late, waiting, failures>>

\* Faulty variant: a message that waits goes before the escalation.
EscalateWhenIdle ==
  /\ stage = "escalation"
  /\ stage' = "outbox"
  /\ IF due = "no" \/ waiting = "yes" THEN UNCHANGED <<workVars, due>>
                                     ELSE EscalateAll(Overdue) /\ due' = "no"
  /\ UNCHANGED <<late, waiting, failures>>

\* One transaction for all overdue tasks; in no World none of them can be read, and
\* the iteration ends.  The interval starts again only when the tick succeeds.
Escalate ==
  /\ stage = "escalation"
  /\ IF due = "no" THEN stage' = "outbox" /\ UNCHANGED <<workVars, due>>
     ELSE IF EscalatesInWorld = "yes" \/ Overdue = {}
       THEN EscalateAll(Overdue) /\ stage' = "outbox" /\ due' = "no"
       ELSE stage' = "processes" /\ UNCHANGED <<workVars, due>>
  /\ UNCHANGED <<late, waiting, failures>>

\* Faulty variant: the delivery gives way when the interval has elapsed meanwhile.
DeliverAfterEscalation ==
  /\ stage = "outbox"
  /\ stage' = "processes"
  /\ waiting' = IF due = "yes" THEN waiting ELSE "no"
  /\ UNCHANGED <<workVars, due, late, failures>>

Deliver ==
  /\ stage = "outbox"
  /\ stage' = "processes"
  /\ waiting' = "no"
  /\ UNCHANGED <<workVars, due, late, failures>>

\* A database error, or the restart of the worker, in any stage.
Fault ==
  /\ failures < MaxFaults
  /\ failures' = failures + 1
  /\ stage' = "processes"
  /\ UNCHANGED <<workVars, due, late, waiting>>

Loop == AdvanceProcesses \/ Escalate \/ Deliver

IntervalElapses ==
  /\ due = "no" /\ due' = "yes"
  /\ UNCHANGED <<workVars, stage, late, waiting, failures>>

DeadlinePasses(t) ==
  /\ Exists(t) /\ t \notin late
  /\ late' = late \cup {t}
  /\ UNCHANGED <<workVars, stage, due, waiting, failures>>

Enqueue ==
  /\ waiting = "no" /\ waiting' = "yes"
  /\ UNCHANGED <<workVars, stage, due, late, failures>>

Next ==
  \/ WorkNext /\ UNCHANGED loopVars
  \/ Loop \/ Fault \/ IntervalElapses \/ Enqueue
  \/ \E t \in TaskIds : DeadlinePasses(t)

Fairness == WF_vars(Loop) /\ WF_vars(IntervalElapses)

Spec == Init /\ [][Next]_vars /\ Fairness

-----------------------------------------------------------------------------
\* Every task overdue in progress is escalated, or has moved on by itself, though
\* people keep changing tasks and iterations fail.
OverdueEscalated == \A t \in TaskIds : t \in Overdue ~> t \notin Overdue

\* The stages before it do not starve the outbox: what waits is served.
MessagesServed == waiting = "yes" ~> waiting = "no"
=============================================================================
