--------------------------- MODULE ProcessManager ---------------------------
(***************************************************************************)
(* Durable processes (orchestration/process-manager.service.ts): frozen    *)
(* plans of external, approval and timer steps, advanced by the worker     *)
(* loops, decided on by people, cancelled, adopted and compensated.        *)
(*                                                                         *)
(* The external operations are those of IntegrationLifecycle, which the    *)
(* detailed IntegrationOperations implements.  Every transaction on a      *)
(* process runs under the advisory lock process:id and is one action here, *)
(* except where something that takes no lock can come between its read and *)
(* its write: a report on the operation that a retry reopens, and the      *)
(* refusal of a worker that blocks the row an advance or a cancellation    *)
(* has just read.                                                          *)
(***************************************************************************)
EXTENDS Naturals, Sequences, FiniteSets

CONSTANTS
  Processes,       \* rows of durable_processes
  Compensations,   \* those among them that only a compensation creates
  Workers,         \* worker loops
  Nobody,          \* null
  Plans,           \* plans people start processes with
  MaxLength,       \* of a plan
  MaxDecisions,    \* bound on decisions, adoptions and compensations
  MaxFaults,       \* bound on refused principals plus interrupted ticks
  ResumedInWorld   \* whether a resumed principal acts in a World ("no" in the code)

Kinds == {"integration", "reversible", "approval", "timer"}

\* A step of kind "reversible" is an integration that declares a compensation;
\* a compensating step undoes the step of that index of the parent's plan.
Step == [kind : Kinds, undoes : 0 .. MaxLength]

ASSUME ProcessAssumption ==
  /\ Nobody \notin Processes /\ Compensations \subseteq Processes
  /\ Plans \subseteq UNION {[1 .. n -> Step] : n \in 1 .. MaxLength}
  /\ MaxLength \in Nat /\ MaxDecisions \in Nat /\ MaxFaults \in Nat
  /\ ResumedInWorld \in {"yes", "no"}

VARIABLES
  proc,        \* durable_processes
  phase,       \* of the operation each process requests for each step
  tick,        \* the row each worker picked from its batch, as it was then
  seen,        \* what the person deciding on a process last read of it
  deciding,    \* the decision whose transaction has read a process, not yet written it
  decisions,
  faults

vars == <<proc, phase, tick, seen, deciding, decisions, faults>>

Index == 1 .. MaxLength
Intents == Processes \X Index    \* idempotency_key `process:step_index`

Life == INSTANCE IntegrationLifecycle WITH Operations <- Intents, Processed <- Intents

Active == {"RUNNING", "WAITING_EXTERNAL", "WAITING_TIMER"}
Ended == {"COMPLETED", "CANCELLED"}
Statuses == {"none", "WAITING_HUMAN", "BLOCKED"} \cup Active \cup Ended

External == {"integration", "reversible"}

Absent == [status |-> "none", plan |-> <<>>, step |-> 1, intent |-> "none", wake |-> "none",
           revision |-> 0, results |-> <<>>, compensates |-> Nobody]

\* status is what an open transaction read under the lock, "none" outside one.
Idle == [process |-> Nobody, revision |-> 0, status |-> "none", refused |-> "no"]

Sight(p) == [status |-> proc[p].status, step |-> proc[p].step, revision |-> proc[p].revision]

Init ==
  /\ proc = [p \in Processes |-> Absent]
  /\ Life!LifeInit
  /\ tick = [w \in Workers |-> Idle]
  /\ seen = [p \in Processes |-> Sight(p)]
  /\ deciding = [p \in Processes |-> "none"]
  /\ decisions = 0
  /\ faults = 0

-----------------------------------------------------------------------------
(* The pieces of a transaction.                                             *)

Current(p) == <<p, proc[p].step>>
Exhausted(p) == proc[p].step > Len(proc[p].plan)
At(p, kinds) == ~Exhausted(p) /\ proc[p].plan[proc[p].step].kind \in kinds

\* Faulty variant: the row changes under a revision somebody has read.
AmendSilently(p, row) == proc' = [proc EXCEPT ![p] = row]

\* Every change of a row increments its revision.
Amend(p, row) == proc' = [proc EXCEPT ![p] = [row EXCEPT !.revision = @ + 1]]

Finish(p) ==
  Amend(p, [proc[p] EXCEPT !.status = "RUNNING", !.step = @ + 1, !.wake = "none",
                           !.intent = "none", !.results = Append(@, proc[p].step)])

Become(p, status) == Amend(p, [proc[p] EXCEPT !.status = status])

\* The advisory lock process:id is free.
Unlocked(p) ==
  /\ deciding[p] = "none"
  /\ \A w \in Workers : tick[w].process = p => tick[w].status = "none"

LetGo(w) == tick' = [tick EXCEPT ![w] = Idle]

-----------------------------------------------------------------------------
(* The worker: tick() and advance().                                        *)

Start(p, plan, parent) ==
  /\ proc[p].status = "none"
  /\ proc' = [proc EXCEPT ![p] = [Absent EXCEPT !.status = "RUNNING", !.plan = plan,
                                                !.compensates = parent]]

Create(p) ==
  /\ p \notin Compensations
  /\ \E plan \in Plans : Start(p, plan, Nobody)
  /\ UNCHANGED <<phase, tick, seen, deciding, decisions, faults>>

\* tick() reads a batch of rows; by the time it reaches one, it may have changed.
Pick(w, p) ==
  /\ tick[w] = Idle
  /\ proc[p].status \in Active
  /\ tick' = [tick EXCEPT ![w] = [Idle EXCEPT !.process = p, !.revision = proc[p].revision]]
  /\ UNCHANGED <<proc, phase, seen, deciding, decisions, faults>>

\* The lock is taken and the row read again: only an active one is advanced.
Enter(w) ==
  LET p == tick[w].process IN
  /\ p # Nobody /\ tick[w].refused = "no" /\ tick[w].status = "none"
  /\ Unlocked(p)
  /\ IF proc[p].status \in Active
       THEN tick' = [tick EXCEPT ![w].status = proc[p].status]
       ELSE LetGo(w)
  /\ UNCHANGED <<proc, phase, seen, deciding, decisions, faults>>

AdvanceTimer(p, status) ==
  /\ At(p, {"timer"})
  /\ \/ /\ status = "RUNNING"
        /\ Amend(p, [proc[p] EXCEPT !.status = "WAITING_TIMER", !.wake = "armed"])
     \/ /\ status = "WAITING_TIMER"
        /\ IF proc[p].wake = "due" THEN Finish(p) ELSE UNCHANGED proc
  /\ UNCHANGED phase

\* Faulty variant: the plan moves on when the operation is accepted.
AwaitOperationLoosely(p) ==
  /\ At(p, External)
  /\ proc[p].intent = "set"
  /\ \/ phase[Current(p)] \in {"accepted", "succeeded"} /\ Finish(p)
     \/ phase[Current(p)] \in {"failed", "open"} /\ Become(p, "BLOCKED")
  /\ UNCHANGED phase

\* Faulty variant: nothing limits the wait for the provider.
AwaitOperationForever(p) ==
  /\ At(p, External)
  /\ proc[p].intent = "set"
  /\ \/ phase[Current(p)] = "succeeded" /\ Finish(p)
     \/ phase[Current(p)] = "failed" /\ Become(p, "BLOCKED")
     \/ phase[Current(p)] \in {"open", "accepted"} /\ UNCHANGED proc
  /\ UNCHANGED phase

\* The receipt of a succeeded operation may miss what the step expects of it.
AwaitOperation(p) ==
  /\ At(p, External)
  /\ proc[p].intent = "set"
  /\ \/ phase[Current(p)] = "succeeded" /\ (Finish(p) \/ Become(p, "BLOCKED"))
     \/ phase[Current(p)] = "failed" /\ Become(p, "BLOCKED")
     \/ /\ phase[Current(p)] \in {"open", "accepted"}
        /\ IF proc[p].wake = "due" THEN Become(p, "BLOCKED") ELSE UNCHANGED proc
  /\ UNCHANGED phase

\* Faulty variant: the process takes the status of its operation.
RequestStepAsOperation(p) ==
  /\ At(p, External)
  /\ proc[p].intent = "none"
  /\ Life!Request(Current(p))
  /\ Amend(p, [proc[p] EXCEPT !.status = "PENDING", !.intent = "set", !.wake = "armed"])

RequestStep(p) ==
  /\ At(p, External)
  /\ proc[p].intent = "none"
  /\ Life!Request(Current(p))
  /\ Amend(p, [proc[p] EXCEPT !.status = "WAITING_EXTERNAL", !.intent = "set", !.wake = "armed"])

\* It acts on the status it read, though a refusal may have blocked the row since.
Advance(w) ==
  LET p == tick[w].process IN
  /\ tick[w].status # "none"
  /\ ResumedInWorld = "yes"
  /\ \/ /\ Exhausted(p)
        /\ Amend(p, [proc[p] EXCEPT !.status = "COMPLETED", !.wake = "none"])
        /\ UNCHANGED phase
     \/ At(p, {"approval"}) /\ Become(p, "WAITING_HUMAN") /\ UNCHANGED phase
     \/ AdvanceTimer(p, tick[w].status)
     \/ AwaitOperation(p)
     \/ RequestStep(p)
  /\ LetGo(w)
  /\ UNCHANGED <<seen, deciding, decisions, faults>>

\* The principal is revoked, or lacks a permission, at the time of the tick; or the
\* context resumed for it names no World, in which no subject can be read.
Refuse(w) ==
  /\ tick[w].process # Nobody
  /\ tick[w].refused = "no"
  /\ IF ResumedInWorld = "yes" THEN faults < MaxFaults /\ faults' = faults + 1
                               ELSE UNCHANGED faults
  /\ tick' = [tick EXCEPT ![w].refused = "yes", ![w].status = "none"]
  /\ UNCHANGED <<proc, phase, seen, deciding, decisions>>

\* Faulty variant: the refusal blocks whatever the row has become.
BlockBlindly(w) ==
  LET p == tick[w].process IN
  /\ tick[w].refused = "yes"
  /\ Become(p, "BLOCKED")
  /\ LetGo(w)
  /\ UNCHANGED <<phase, seen, deciding, decisions, faults>>

\* The refusal is recorded outside the lock, by a comparison of revisions.
Block(w) ==
  LET p == tick[w].process IN
  /\ tick[w].refused = "yes"
  /\ IF proc[p].revision = tick[w].revision THEN Become(p, "BLOCKED") ELSE UNCHANGED proc
  /\ LetGo(w)
  /\ UNCHANGED <<phase, seen, deciding, decisions, faults>>

\* A database error ends the batch; so does the death of the worker.
Interrupt(w) ==
  /\ tick[w] # Idle
  /\ faults < MaxFaults
  /\ faults' = faults + 1
  /\ LetGo(w)
  /\ UNCHANGED <<proc, phase, seen, deciding, decisions>>

WakeUp(p) ==
  /\ proc[p].wake = "armed"
  /\ proc' = [proc EXCEPT ![p].wake = "due"]
  /\ UNCHANGED <<phase, tick, seen, deciding, decisions, faults>>

-----------------------------------------------------------------------------
(* People: decide(), adopt() and compensate().                              *)

Look(p) ==
  /\ proc[p].status # "none"
  /\ seen' = [seen EXCEPT ![p] = Sight(p)]
  /\ UNCHANGED <<proc, phase, tick, deciding, decisions, faults>>

Counted == decisions < MaxDecisions /\ decisions' = decisions + 1

\* The decision names the revision it was taken on.
Decidable(p) ==
  /\ Unlocked(p)
  /\ seen[p].status # "none"
  /\ seen[p].revision = proc[p].revision
  /\ Counted

Approve(p) ==
  /\ Decidable(p)
  /\ proc[p].status = "WAITING_HUMAN" /\ At(p, {"approval"})
  /\ Amend(p, [proc[p] EXCEPT !.status = "RUNNING", !.step = @ + 1,
                              !.results = Append(@, proc[p].step)])
  /\ UNCHANGED <<phase, tick, seen, deciding, faults>>

Reject(p) ==
  /\ Decidable(p)
  /\ proc[p].status = "WAITING_HUMAN" /\ At(p, {"approval"})
  /\ Become(p, "BLOCKED")
  /\ UNCHANGED <<phase, tick, seen, deciding, faults>>

CancelRead(p) ==
  /\ Decidable(p)
  /\ proc[p].status \notin Ended
  /\ deciding' = [deciding EXCEPT ![p] = "cancel"]
  /\ UNCHANGED <<proc, phase, tick, seen, faults>>

CancelWrite(p) ==
  /\ deciding[p] = "cancel"
  /\ deciding' = [deciding EXCEPT ![p] = "none"]
  /\ Amend(p, [proc[p] EXCEPT !.status = "CANCELLED", !.wake = "none"])
  /\ UNCHANGED <<phase, tick, seen, decisions, faults>>

\* Faulty variant: a blocked process starts its step afresh.
ResumeAfresh(p) ==
  Amend(p, [proc[p] EXCEPT !.wake = "armed", !.status = "RUNNING", !.intent = "none"])

Resume(p) ==
  Amend(p, [proc[p] EXCEPT !.wake = "armed",
                           !.status = IF proc[p].intent = "set" THEN "WAITING_EXTERNAL"
                                                                ELSE "RUNNING"])

\* Faulty variant: a retry reopens the operation without a look at it.
RetryReopening(p) ==
  /\ Decidable(p)
  /\ proc[p].status = "BLOCKED"
  /\ phase' = [phase EXCEPT ![Current(p)] = IF proc[p].intent = "set" THEN "open" ELSE @]
  /\ Resume(p)
  /\ UNCHANGED <<tick, seen, deciding, faults>>

\* A retry with no failed operation to reopen.
Retry(p) ==
  /\ Decidable(p)
  /\ proc[p].status = "BLOCKED"
  /\ proc[p].intent = "set" => phase[Current(p)] # "failed"
  /\ Resume(p)
  /\ UNCHANGED <<phase, tick, seen, deciding, faults>>

RetryRead(p) ==
  /\ Decidable(p)
  /\ proc[p].status = "BLOCKED"
  /\ proc[p].intent = "set" /\ phase[Current(p)] = "failed"
  /\ deciding' = [deciding EXCEPT ![p] = "retry"]
  /\ UNCHANGED <<proc, phase, tick, seen, faults>>

\* The operation is reopened, or, with no dead message to redrive, nothing happens.
RetryWrite(p) ==
  /\ deciding[p] = "retry"
  /\ deciding' = [deciding EXCEPT ![p] = "none"]
  /\ \/ /\ Life!Reopen(Current(p)) \/ Life!Undo(Current(p))
        /\ Resume(p)
     \/ UNCHANGED <<proc, phase>>
  /\ UNCHANGED <<tick, seen, decisions, faults>>

\* Another principal takes the process over; its revision is all that shows here.
Adopt(p) ==
  /\ Decidable(p)
  /\ proc[p].status = "BLOCKED"
  /\ Amend(p, proc[p])
  /\ UNCHANGED <<phase, tick, seen, deciding, faults>>

\* Faulty variant: a step that was requested counts as done.
DoneStepsRequested(p) ==
  {proc[p].results[n] : n \in DOMAIN proc[p].results}
    \cup {i \in Index : i = proc[p].step /\ proc[p].intent = "set"}

\* Steps with a result, and the current one when its operation has succeeded since.
DoneSteps(p) ==
  {proc[p].results[n] : n \in DOMAIN proc[p].results}
    \cup {i \in Index : i = proc[p].step /\ proc[p].intent = "set" /\ phase[<<p, i>>] = "succeeded"}

\* The reversed plan: for every reversible step done, a step that undoes it.
Undoing(p) ==
  LET undone == {i \in DoneSteps(p) : i <= Len(proc[p].plan) /\ proc[p].plan[i].kind = "reversible"}
      later(i) == Cardinality({j \in undone : j > i})
  IN  [n \in 1 .. Cardinality(undone) |->
         [kind |-> "integration", undoes |-> CHOOSE i \in undone : later(i) = n - 1]]

\* A process is compensated once, when it has stopped and its operation has settled.
Compensate(p, child) ==
  /\ Unlocked(p)
  /\ \A c \in Processes : proc[c].compensates # p
  /\ proc[p].status \in Ended \cup {"BLOCKED"}
  /\ proc[p].intent = "set" => phase[Current(p)] \notin {"open", "accepted"}
  /\ Undoing(p) # <<>>
  /\ Start(child, Undoing(p), p)
  /\ Counted
  /\ UNCHANGED <<phase, tick, seen, deciding, faults>>

\* Deliveries, callbacks and the operator's redrive.
OperationMoves ==
  /\ \E o \in Intents : Life!Settle(o) \/ Life!Report(o) \/ Life!Reopen(o)
  /\ UNCHANGED <<proc, tick, seen, deciding, decisions, faults>>

Decide(p) == Approve(p) \/ Reject(p) \/ CancelRead(p) \/ Retry(p) \/ RetryRead(p) \/ Adopt(p)

Next ==
  \/ \E p \in Processes :
       \/ Create(p) \/ WakeUp(p) \/ Look(p) \/ Decide(p) \/ CancelWrite(p) \/ RetryWrite(p)
       \/ \E child \in Compensations : Compensate(p, child)
  \/ \E w \in Workers :
       \/ \E p \in Processes : Pick(w, p)
       \/ Enter(w) \/ Advance(w) \/ Refuse(w) \/ Block(w) \/ Interrupt(w)
  \/ OperationMoves

Safety == Init /\ [][Next]_vars

\* Batches are ordered by updated_at, which every advance renews, so each active row
\* is picked again; a picked row is dealt with; transactions end; time passes.
Fairness ==
  /\ \A w \in Workers : WF_vars(Enter(w) \/ Advance(w) \/ Refuse(w) \/ Block(w))
  /\ \A p \in Processes :
       /\ SF_vars(\E w \in Workers : Pick(w, p))
       /\ WF_vars(CancelWrite(p) \/ RetryWrite(p))
       /\ WF_vars(WakeUp(p))

Spec == Safety /\ Fairness

-----------------------------------------------------------------------------
(* Properties.                                                              *)

\* Type invariant.
TypeOK ==
  /\ \A p \in Processes :
       /\ proc[p].status \in Statuses
       /\ proc[p].plan \in Seq(Step)
       /\ proc[p].step \in 1 .. Len(proc[p].plan) + 1
       /\ proc[p].intent \in {"none", "set"}
       /\ proc[p].wake \in {"none", "armed", "due"}
       /\ proc[p].revision \in Nat
       /\ proc[p].results \in Seq(Index)
       /\ proc[p].compensates \in Processes \cup {Nobody}
  /\ phase \in [Intents -> Life!Phase]
  /\ \A w \in Workers :
       /\ tick[w].process \in Processes \cup {Nobody}
       /\ tick[w].status \in Active \cup {"none"}
       /\ tick[w].refused \in {"no", "yes"}
  /\ deciding \in [Processes -> {"none", "cancel", "retry"}]
  /\ decisions \in 0 .. MaxDecisions /\ faults \in 0 .. MaxFaults

\* The results of a process are those of the steps before its current one, each
\* once and in order, and every external one among them has succeeded and stays
\* so, whatever late callbacks, redrives and retries happen.
CompletedInOrder ==
  \A p \in Processes :
    /\ proc[p].results = [n \in 1 .. proc[p].step - 1 |-> n]
    /\ \A i \in 1 .. proc[p].step - 1 :
         proc[p].plan[i].kind \in External => phase[<<p, i>>] = "succeeded"

\* No external intent is forgotten or requested ahead of its turn: an operation
\* belongs to a completed step, or is the one its process is waiting for.
IntentsTracked ==
  \A p \in Processes, i \in Index :
    phase[<<p, i>>] # "none" => i < proc[p].step \/ (i = proc[p].step /\ proc[p].intent = "set")

\* A compensation undoes each reversible step at most once, last one first, and only
\* steps whose operation succeeded, and no process is compensated twice.
CompensationSound ==
  \A c \in Processes :
    LET p == proc[c].compensates IN
    p # Nobody =>
      /\ \A n \in 1 .. Len(proc[c].plan) : phase[<<p, proc[c].plan[n].undoes>>] = "succeeded"
      /\ \A m, n \in 1 .. Len(proc[c].plan) :
           m < n => proc[c].plan[m].undoes > proc[c].plan[n].undoes
      /\ \A d \in Processes \ {c} : proc[d].compensates # p

\* A process that completed or was cancelled stays as it is, though workers hold
\* earlier copies of its row and refusals are recorded outside the lock.
EndIsFinal ==
  [][\A p \in Processes : proc[p].status \in Ended => proc'[p] = proc[p]]_proc

\* A decision is taken on the status and the step the person saw.
DecidedAsSeen ==
  [][\A p \in Processes :
       Decide(p) => seen[p].status = proc[p].status /\ seen[p].step = proc[p].step]_vars

\* The composition drives the operations only in ways their lifecycle allows.
ImplementsLife == Life!LifeSafety

\* No process hangs: it completes, is blocked, or waits for a person, even when a
\* provider never answers.
NeverHangs == \A p \in Processes : proc[p].status \in Active ~> proc[p].status \notin Active

\* Expected by runtime.test.ts:1094-1096: a process that has come to an approval step
\* asks a person.
GateReached ==
  \A p \in Processes :
    proc[p].status = "RUNNING" /\ At(p, {"approval"}) ~>
      proc[p].status \in {"WAITING_HUMAN", "CANCELLED"}
=============================================================================
