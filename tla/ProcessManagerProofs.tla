------------------------ MODULE ProcessManagerProofs ------------------------
(***************************************************************************)
(* Durable processes keep their invariants and drive their operations only *)
(* as the lifecycle of an operation allows, for all sets of processes,     *)
(* compensations and workers and for all plans.                            *)
(***************************************************************************)
EXTENDS ProcessManager, FiniteSetTheorems, TLAPS

-----------------------------------------------------------------------------
(* The inductive invariant.                                                 *)

Row == [status : Statuses, plan : Seq(Step), step : Nat, intent : {"none", "set"},
        wake : {"none", "armed", "due"}, revision : Nat, results : Seq(Index),
        compensates : Processes \cup {Nobody}]

Batch == [process : Processes \cup {Nobody}, revision : Nat, status : Active \cup {"none"},
          refused : {"no", "yes"}]

SightOf(row) == [status |-> row.status, step |-> row.step, revision |-> row.revision]

TypeInv ==
  /\ proc \in [Processes -> Row]
  /\ phase \in [Intents -> Life!Phase]
  /\ tick \in [Workers -> Batch]
  /\ seen \in [Processes -> [status : Statuses, step : Nat, revision : Nat]]
  /\ deciding \in [Processes -> {"none", "cancel", "retry"}]
  /\ decisions \in 0 .. MaxDecisions /\ faults \in 0 .. MaxFaults

\* Where a process is in its plan: what it has completed, and the operation it has
\* requested, if any, for the step it is at.
Placed(p, row, ph) ==
  /\ Len(row.plan) <= MaxLength
  /\ row.step \in 1 .. Len(row.plan) + 1
  /\ row.results = [n \in 1 .. row.step - 1 |-> n]
  /\ \A i \in 1 .. row.step - 1 : row.plan[i].kind \in External => ph[<<p, i>>] = "succeeded"
  /\ \A i \in Index :
       ph[<<p, i>>] # "none" => i < row.step \/ (i = row.step /\ row.intent = "set")
  /\ row.intent = "set" =>
       row.step <= Len(row.plan) /\ row.plan[row.step].kind \in External
  /\ row.status = "none" => row = Absent
  /\ row.status \in Ended => row.wake = "none"

\* A compensating plan undoes operations of its parent that succeeded, last one first,
\* and none of them is being reopened.
Undoes(row, parent, ph, lock) ==
  /\ \A n \in 1 .. Len(row.plan) :
       /\ row.plan[n].undoes \in Index
       /\ ph[<<row.compensates, row.plan[n].undoes>>] = "succeeded"
       /\ lock = "retry" => row.plan[n].undoes # parent.step
  /\ \A m, n \in 1 .. Len(row.plan) : m < n => row.plan[m].undoes > row.plan[n].undoes

Compensated ==
  \A c \in Processes : proc[c].compensates # Nobody =>
    /\ Undoes(proc[c], proc[proc[c].compensates], phase, deciding[proc[c].compensates])
    /\ \A d \in Processes \ {c} : proc[d].compensates # proc[c].compensates

\* A copy somebody has of a row: with the same revision it says what the row says.
Picked(x, row) ==
  /\ row.status # "none" /\ x.revision <= row.revision
  /\ x.revision = row.revision => row.status \in Active

Looked(s, row) ==
  s.status # "none" =>
    /\ row.status # "none" /\ s.revision <= row.revision
    /\ s.revision = row.revision => s = SightOf(row)

Copies ==
  /\ \A w \in Workers : tick[w].process # Nobody => Picked(tick[w], proc[tick[w].process])
  /\ \A p \in Processes : Looked(seen[p], proc[p])

\* Who is inside a transaction on a process is alone there; the row it has read can
\* only have been blocked meanwhile.
Locking ==
  /\ \A w \in Workers : tick[w].status # "none" =>
       /\ tick[w].process # Nobody /\ tick[w].refused = "no"
       /\ proc[tick[w].process].status \in Active \cup {"BLOCKED"}
       /\ deciding[tick[w].process] = "none"
       /\ \A v \in Workers \ {w} : tick[v].process = tick[w].process => tick[v].status = "none"
  /\ \A p \in Processes :
       /\ deciding[p] = "cancel" => proc[p].status \notin Ended \cup {"none"}
       /\ deciding[p] = "retry" => proc[p].status = "BLOCKED" /\ proc[p].intent = "set"

IInv ==
  /\ TypeInv /\ Compensated /\ Copies /\ Locking
  /\ \A p \in Processes : Placed(p, proc[p], phase)

-----------------------------------------------------------------------------
(* Facts about rows, plans and operations.                                  *)

LEMMA StatusSets ==
  /\ Active = {"RUNNING", "WAITING_EXTERNAL", "WAITING_TIMER"}
  /\ Ended = {"COMPLETED", "CANCELLED"}
  /\ Statuses = {"none", "WAITING_HUMAN", "BLOCKED", "RUNNING", "WAITING_EXTERNAL",
                 "WAITING_TIMER", "COMPLETED", "CANCELLED"}
BY DEF Active, Ended, Statuses

LEMMA Tables ==
  /\ External = {"integration", "reversible"}
  /\ Life!Phase = {"none", "open", "accepted", "succeeded", "failed"}
  /\ \A p \in Processes, i \in Index : <<p, i>> \in Intents
BY DEF External, Life!Phase, Intents

\* The results of the steps done, and what one more step makes of them.
Counting(k) == [n \in 1 .. k |-> n]

LEMMA CountingOn ==
  ASSUME NEW k \in 0 .. MaxLength
  PROVE  /\ Counting(k) \in Seq(Index)
         /\ k < MaxLength => Append(Counting(k), k + 1) = Counting(k + 1)
<1>1. k \in Nat /\ \A n \in 1 .. k : n \in Index
  BY ProcessAssumption DEF Index, ProcessAssumption
<1>2. Counting(k) \in Seq(Index) /\ Len(Counting(k)) = k
  BY <1>1 DEF Counting
<1>3. Append(Counting(k), k + 1) = Counting(k + 1)
  BY <1>1, <1>2 DEF Counting
<1> QED  BY <1>2, <1>3

LEMMA AbsentRow == Absent \in Row /\ Counting(0) = <<>>
BY ProcessAssumption DEF Absent, Row, Counting, Statuses, ProcessAssumption

LEMMA AbsentPlaced ==
  ASSUME NEW p \in Processes, NEW ph, \A i \in Index : ph[<<p, i>>] = "none"
  PROVE  Placed(p, Absent, ph)
<1>1. /\ Absent.plan = <<>> /\ Absent.step = 1 /\ Absent.results = <<>> /\ Absent.intent = "none"
      /\ Absent.status = "none" /\ Absent.wake = "none"
  BY DEF Absent
<1> QED  BY <1>1, AbsentRow, ProcessAssumption DEF Placed, Counting, ProcessAssumption, Index

\* The operation of the current step is one of the intents.
LEMMA CurrentIntent ==
  ASSUME IInv, NEW p \in Processes, ~Exhausted(p)
  PROVE  proc[p].step \in Index /\ Current(p) \in Intents /\ Current(p) = <<p, proc[p].step>>
<1>1. proc[p] \in Row /\ Placed(p, proc[p], phase)
  BY DEF IInv, TypeInv
<1>2. Len(proc[p].plan) \in Nat /\ proc[p].step \in 1 .. Len(proc[p].plan)
  BY <1>1 DEF Placed, Exhausted, Row
<1>3. proc[p].step \in Index
  BY <1>1, <1>2, ProcessAssumption DEF Placed, Index, ProcessAssumption
<1> QED  BY <1>3, Tables DEF Current

-----------------------------------------------------------------------------
(* The parts of the invariant, under what a step may do.                    *)

LEMMA CompensatedStep ==
  ASSUME IInv, TypeInv',
         \A c \in Processes :
           /\ proc'[c].compensates = proc[c].compensates
           /\ proc[c].compensates # Nobody => proc'[c].plan = proc[c].plan,
         \A p \in Processes, i \in Index : phase[<<p, i>>] = "succeeded" =>
           \/ phase'[<<p, i>>] = "succeeded"
           \/ deciding[p] = "retry" /\ i = proc[p].step,
         \A p \in Processes : deciding'[p] = "retry" =>
           \/ deciding[p] = "retry" /\ proc'[p].step = proc[p].step
           \/ phase[<<p, proc'[p].step>>] # "succeeded"
  PROVE  Compensated'
<1> SUFFICES ASSUME NEW c \in Processes, proc[c].compensates # Nobody
             PROVE  /\ Undoes(proc[c], proc'[proc[c].compensates], phase', deciding'[proc[c].compensates])
                    /\ \A d \in Processes \ {c} : proc'[d].compensates # proc[c].compensates
  <2> SUFFICES ASSUME NEW c \in Processes, proc'[c].compensates # Nobody
               PROVE  /\ Undoes(proc'[c], proc'[proc'[c].compensates], phase',
                                deciding'[proc'[c].compensates])
                      /\ \A d \in Processes \ {c} : proc'[d].compensates # proc'[c].compensates
    BY DEF Compensated
  <2>1. proc'[c].compensates = proc[c].compensates /\ proc'[c].plan = proc[c].plan
    OBVIOUS
  <2> QED  BY <2>1 DEF Undoes
<1> DEFINE p == proc[c].compensates
<1>1. p \in Processes /\ Undoes(proc[c], proc[p], phase, deciding[p])
  BY DEF IInv, TypeInv, Row, Compensated
<1>2. \A d \in Processes \ {c} : proc'[d].compensates # proc[c].compensates
  BY DEF IInv, Compensated
<1> HIDE DEF p
<1>3. ASSUME NEW n \in 1 .. Len(proc[c].plan)
      PROVE  /\ proc[c].plan[n].undoes \in Index
             /\ phase'[<<p, proc[c].plan[n].undoes>>] = "succeeded"
             /\ deciding'[p] = "retry" => proc[c].plan[n].undoes # proc'[p].step
  <2> DEFINE i == proc[c].plan[n].undoes
  <2>1. /\ i \in Index /\ phase[<<p, i>>] = "succeeded"
        /\ deciding[p] = "retry" => i # proc[p].step
    BY <1>1 DEF Undoes, p
  <2> HIDE DEF i
  <2>2. phase'[<<p, i>>] = "succeeded" /\ (deciding'[p] = "retry" => i # proc'[p].step)
    BY <1>1, <2>1
  <2> QED  BY <2>1, <2>2 DEF i
<1> QED  BY <1>1, <1>2, <1>3 DEF Undoes, p

\* A row that exists stays, and either gets a higher revision or looks as before.
Onward(old, new) ==
  old.status # "none" =>
    new.status # "none" /\ (new.revision > old.revision \/ SightOf(new) = SightOf(old))

LEMMA CopiesStep ==
  ASSUME IInv, TypeInv', \A p \in Processes : Onward(proc[p], proc'[p]),
         \A w \in Workers : tick'[w].process # Nobody =>
           tick'[w].process = tick[w].process /\ tick'[w].revision = tick[w].revision,
         seen' = seen
  PROVE  Copies'
<1>1. \A p \in Processes : proc[p] \in Row /\ proc'[p] \in Row
  BY DEF IInv, TypeInv
<1>2. ASSUME NEW w \in Workers, tick'[w].process # Nobody
      PROVE  Picked(tick'[w], proc'[tick'[w].process])
  <2> DEFINE p == tick[w].process
  <2>1. /\ p \in Processes /\ tick'[w].process = p /\ tick'[w].revision = tick[w].revision
        /\ tick[w].revision \in Nat
    BY <1>2 DEF IInv, TypeInv, Batch
  <2>2. Picked(tick[w], proc[p]) /\ Onward(proc[p], proc'[p])
    BY <1>2, <2>1 DEF IInv, Copies
  <2> HIDE DEF p
  <2> QED  BY <1>1, <2>1, <2>2 DEF Picked, Onward, SightOf, Row
<1>3. ASSUME NEW p \in Processes PROVE Looked(seen[p], proc'[p])
  <2>1. /\ Looked(seen[p], proc[p]) /\ Onward(proc[p], proc'[p])
        /\ seen[p] \in [status : Statuses, step : Nat, revision : Nat]
    BY DEF IInv, Copies, TypeInv
  <2> QED  BY <1>1, <2>1, SMTT(30) DEF Looked, Onward, SightOf, Row
<1> QED  BY <1>2, <1>3 DEF Copies

\* Nobody has the process locked after the step.
Freed(p) == deciding'[p] = "none" /\ \A w \in Workers : tick'[w].process = p => tick'[w].status = "none"

LEMMA LockingStep ==
  ASSUME IInv, TypeInv', \A w \in Workers : tick'[w] = tick[w] \/ tick'[w].status = "none",
         \A p \in Processes : deciding'[p] \in {deciding[p], "none"},
         \A p \in Processes :
           \/ Freed(p)
           \/ /\ proc'[p].status \in {proc[p].status, "BLOCKED"}
              /\ proc'[p].intent = proc[p].intent
  PROVE  Locking'
<1>1. ASSUME NEW w \in Workers, tick'[w].status # "none"
      PROVE  /\ tick'[w].process # Nobody /\ tick'[w].refused = "no"
             /\ proc'[tick'[w].process].status \in Active \cup {"BLOCKED"}
             /\ deciding'[tick'[w].process] = "none"
             /\ \A v \in Workers \ {w} : tick'[v].process = tick'[w].process => tick'[v].status = "none"
  <2> DEFINE p == tick[w].process
  <2>1. /\ tick'[w] = tick[w] /\ p \in Processes /\ tick[w].refused = "no"
        /\ proc[p].status \in Active \cup {"BLOCKED"} /\ deciding[p] = "none"
        /\ \A v \in Workers \ {w} : tick[v].process = p => tick[v].status = "none"
    BY <1>1 DEF IInv, Locking, TypeInv, Batch
  <2>2. ~Freed(p)
    BY <1>1, <2>1 DEF Freed
  <2> HIDE DEF p
  <2> QED  BY <2>1, <2>2, ProcessAssumption DEF p, ProcessAssumption
<1>2. ASSUME NEW p \in Processes
      PROVE  /\ deciding'[p] = "cancel" => proc'[p].status \notin Ended \cup {"none"}
             /\ deciding'[p] = "retry" => proc'[p].status = "BLOCKED" /\ proc'[p].intent = "set"
  BY StatusSets DEF IInv, Locking, Freed
<1> QED  BY <1>1, <1>2 DEF Locking

LEMMA PlacedStep ==
  ASSUME IInv, NEW p \in Processes, NEW ph,
         \A i \in Index :
           /\ phase[<<p, i>>] = "none" <=> ph[<<p, i>>] = "none"
           /\ phase[<<p, i>>] = "succeeded" /\ i < proc[p].step => ph[<<p, i>>] = "succeeded"
  PROVE  Placed(p, proc[p], ph)
<1>1. Placed(p, proc[p], phase) /\ proc[p] \in Row
  BY DEF IInv, TypeInv
<1>2. \A i \in 1 .. proc[p].step - 1 : i \in Index /\ i < proc[p].step
  BY <1>1, ProcessAssumption DEF Placed, Row, Index, ProcessAssumption
<1> QED  BY <1>1, <1>2 DEF Placed

-----------------------------------------------------------------------------
(* The steps.                                                               *)

\* The operation of one step moves on; only a retry may take a success back.
PhaseStep(p) ==
  \/ phase' = phase
  \/ \E to \in Life!Phase \ {"none"} :
       /\ phase' = [phase EXCEPT ![<<p, proc[p].step>>] = to]
       /\ phase[<<p, proc[p].step>>] # "succeeded" \/ deciding[p] = "retry"

Others == seen' = seen /\ decisions' \in 0 .. MaxDecisions /\ faults' \in 0 .. MaxFaults

LEMMA PhaseStepFacts ==
  ASSUME IInv, NEW p \in Processes, PhaseStep(p)
  PROVE  /\ phase' \in [Intents -> Life!Phase]
         /\ \A q \in Processes, i \in Index :
              q # p \/ i # proc[p].step => phase'[<<q, i>>] = phase[<<q, i>>]
         /\ \A q \in Processes, i \in Index : phase[<<q, i>>] = "succeeded" =>
              phase'[<<q, i>>] = "succeeded" \/ (deciding[q] = "retry" /\ i = proc[q].step)
<1>1. CASE phase' = phase
  BY <1>1 DEF IInv, TypeInv
<1>2. ASSUME NEW to \in Life!Phase \ {"none"}, phase' = [phase EXCEPT ![<<p, proc[p].step>>] = to],
             phase[<<p, proc[p].step>>] # "succeeded" \/ deciding[p] = "retry"
      PROVE  /\ phase' \in [Intents -> Life!Phase]
             /\ \A q \in Processes, i \in Index :
                  q # p \/ i # proc[p].step => phase'[<<q, i>>] = phase[<<q, i>>]
             /\ \A q \in Processes, i \in Index : phase[<<q, i>>] = "succeeded" =>
                  phase'[<<q, i>>] = "succeeded" \/ (deciding[q] = "retry" /\ i = proc[q].step)
  <2>1. phase \in [Intents -> Life!Phase]
    BY DEF IInv, TypeInv
  <2>2. phase' \in [Intents -> Life!Phase]
    BY <1>2, <2>1
  <2>3. ASSUME NEW q \in Processes, NEW i \in Index, q # p \/ i # proc[p].step
        PROVE  phase'[<<q, i>>] = phase[<<q, i>>]
    <3>1. <<q, i>> \in Intents /\ <<q, i>> # <<p, proc[p].step>>
      BY <2>3, Tables
    <3> QED  BY <1>2, <2>1, <3>1
  <2> QED  BY <1>2, <2>2, <2>3
<1> QED  BY <1>1, <1>2 DEF PhaseStep

\* A transaction on a process writes its row, with the next revision.
LEMMA AmendKeeps ==
  ASSUME IInv, NEW p \in Processes, NEW x \in Row, Amend(p, x), x.plan = proc[p].plan,
         x.compensates = proc[p].compensates, x.revision = proc[p].revision,
         x.status # "none", proc[p].status # "none",
         PhaseStep(p), Placed(p, x, phase'), Others,
         tick' \in [Workers -> Batch], deciding' \in [Processes -> {"none", "cancel", "retry"}],
         \A w \in Workers :
           /\ tick'[w] = tick[w] \/ tick'[w].status = "none"
           /\ tick'[w].process # Nobody =>
                tick'[w].process = tick[w].process /\ tick'[w].revision = tick[w].revision,
         \A q \in Processes : deciding'[q] \in {deciding[q], "none"},
         \/ Freed(p)
         \/ x.status = "BLOCKED" /\ x.intent = proc[p].intent /\ x.step = proc[p].step
  PROVE  IInv'
<1> DEFINE new == [x EXCEPT !.revision = @ + 1]
<1>1. /\ new \in Row /\ new.status = x.status /\ new.plan = x.plan /\ new.step = x.step
      /\ new.intent = x.intent /\ new.wake = x.wake /\ new.results = x.results
      /\ new.compensates = x.compensates /\ new.revision = x.revision + 1
  BY DEF Row
<1>2. proc' = [proc EXCEPT ![p] = new] /\ proc \in [Processes -> Row]
  BY DEF Amend, IInv, TypeInv
<1> HIDE DEF new
<1>3. proc'[p] = new /\ \A q \in Processes \ {p} : proc'[q] = proc[q]
  BY <1>2
<1>4. TypeInv'
  BY <1>1, <1>2, PhaseStepFacts DEF IInv, TypeInv, Others
<1>5. Compensated'
  <2>1. \A c \in Processes :
          /\ proc'[c].compensates = proc[c].compensates
          /\ proc[c].compensates # Nobody => proc'[c].plan = proc[c].plan
    BY <1>1, <1>3
  <2>2. \A q \in Processes : deciding'[q] = "retry" =>
          deciding[q] = "retry" /\ proc'[q].step = proc[q].step
    BY <1>1, <1>3 DEF Freed
  <2> QED  BY <1>4, <2>1, <2>2, PhaseStepFacts, CompensatedStep
<1>6. Copies'
  <2>1. \A q \in Processes : Onward(proc[q], proc'[q])
    BY <1>1, <1>2, <1>3 DEF Onward, Row
  <2> QED  BY <1>4, <2>1, CopiesStep DEF Others
<1>7. Locking'
  <2>1. \A q \in Processes : Freed(q) \/ (proc'[q].status \in {proc[q].status, "BLOCKED"}
                                          /\ proc'[q].intent = proc[q].intent)
    BY <1>1, <1>3
  <2> QED  BY <1>4, <2>1, LockingStep
<1>8. ASSUME NEW q \in Processes PROVE Placed(q, proc'[q], phase')
  <2>1. CASE q = p
    BY <1>1, <1>3, <2>1 DEF Placed, Absent
  <2>2. CASE q # p
    BY <1>3, <2>2, PhaseStepFacts, PlacedStep
  <2> QED  BY <2>1, <2>2
<1> QED  BY <1>4, <1>5, <1>6, <1>7, <1>8 DEF IInv

\* A step that leaves the rows as they are.
LEMMA QuietKeeps ==
  ASSUME IInv, proc' = proc, TypeInv', Copies', Locking',
         \A p \in Processes, i \in Index :
           /\ phase[<<p, i>>] = "none" <=> phase'[<<p, i>>] = "none"
           /\ phase[<<p, i>>] = "succeeded" => phase'[<<p, i>>] = "succeeded",
         \A p \in Processes : deciding'[p] = "retry" =>
           deciding[p] = "retry" \/ phase[<<p, proc[p].step>>] # "succeeded"
  PROVE  IInv'
<1>1. Compensated'
  BY CompensatedStep
<1>2. \A p \in Processes : Placed(p, proc[p], phase')
  BY PlacedStep
<1> QED  BY <1>1, <1>2 DEF IInv

LEMMA InitIInv == Init => IInv
<1> SUFFICES ASSUME Init PROVE IInv
  OBVIOUS
<1>1. /\ proc = [p \in Processes |-> Absent] /\ phase = [o \in Intents |-> "none"]
      /\ tick = [w \in Workers |-> Idle] /\ seen = [p \in Processes |-> SightOf(Absent)]
      /\ deciding = [p \in Processes |-> "none"] /\ decisions = 0 /\ faults = 0
  BY DEF Init, Life!LifeInit, Sight, SightOf
<1>2. /\ Absent.status = "none" /\ Absent.step = 1 /\ Absent.revision = 0
      /\ Absent.compensates = Nobody
  BY DEF Absent
<1>3. /\ Idle \in Batch /\ Idle.process = Nobody /\ Idle.status = "none"
      /\ SightOf(Absent) \in [status : Statuses, step : Nat, revision : Nat]
      /\ SightOf(Absent).status = "none"
  BY <1>2, StatusSets DEF Idle, Batch, SightOf
<1>4. TypeInv
  BY <1>1, <1>3, AbsentRow, Tables, ProcessAssumption DEF TypeInv, ProcessAssumption
<1>5. Compensated /\ Copies /\ Locking
  BY <1>1, <1>2, <1>3 DEF Compensated, Copies, Looked, Locking
<1>6. \A p \in Processes : Placed(p, proc[p], phase)
  BY <1>1, AbsentPlaced, Tables
<1> QED  BY <1>4, <1>5, <1>6 DEF IInv

LEMMA RowTyped ==
  ASSUME IInv, NEW p \in Processes
  PROVE  /\ proc[p] \in Row /\ Placed(p, proc[p], phase)
         /\ Len(proc[p].plan) \in Nat /\ proc[p].step \in Nat
BY DEF IInv, TypeInv, Row

\* A row whose place in the plan stays.
LEMMA PlacedLike ==
  ASSUME IInv, NEW p \in Processes, NEW x \in Row, x.plan = proc[p].plan, x.step = proc[p].step,
         x.results = proc[p].results, x.intent = proc[p].intent, x.status # "none",
         x.status \in Ended => x.wake = "none",
         PhaseStep(p), phase' = phase \/ proc[p].intent = "set"
  PROVE  Placed(p, x, phase')
<1>1. proc[p] \in Row /\ Placed(p, proc[p], phase)
  BY RowTyped
<1>2. \A i \in 1 .. proc[p].step - 1 : i \in Index /\ i # proc[p].step
  BY <1>1, ProcessAssumption, SMTT(30) DEF Placed, Row, Index, ProcessAssumption
<1>3. \A i \in Index : i # proc[p].step => phase'[<<p, i>>] = phase[<<p, i>>]
  BY PhaseStepFacts
<1> QED  BY <1>1, <1>2, <1>3 DEF Placed

\* A row whose current step is done.
LEMMA PlacedNext ==
  ASSUME IInv, NEW p \in Processes, ~Exhausted(p), NEW x \in Row, x.plan = proc[p].plan,
         x.step = proc[p].step + 1, x.results = Append(proc[p].results, proc[p].step),
         x.intent = "none", x.status = "RUNNING",
         proc[p].plan[proc[p].step].kind \in External => phase[Current(p)] = "succeeded"
  PROVE  Placed(p, x, phase)
<1>1. proc[p] \in Row /\ Placed(p, proc[p], phase) /\ proc[p].step \in Index
      /\ Current(p) = <<p, proc[p].step>>
  BY RowTyped, CurrentIntent
<1>2. /\ proc[p].step \in Nat /\ proc[p].step >= 1 /\ Len(proc[p].plan) \in Nat
      /\ proc[p].step <= Len(proc[p].plan) /\ Len(proc[p].plan) <= MaxLength /\ MaxLength \in Nat
  BY <1>1, ProcessAssumption, SMTT(30) DEF Placed, Row, Exhausted, ProcessAssumption
<1>3. x.results = Counting(x.step - 1)
  <2> DEFINE k == proc[p].step - 1
  <2>1. proc[p].results = Counting(k)
    BY <1>1 DEF Placed, Counting
  <2>2. k \in 0 .. MaxLength /\ k < MaxLength /\ k + 1 = proc[p].step /\ x.step - 1 = k + 1
    BY <1>2, SMTT(30)
  <2> HIDE DEF k
  <2>3. Append(Counting(k), k + 1) = Counting(k + 1)
    BY <2>2, CountingOn
  <2> QED  BY <2>1, <2>2, <2>3
<1>4. ASSUME NEW i \in 1 .. x.step - 1, x.plan[i].kind \in External
      PROVE  phase[<<p, i>>] = "succeeded"
  <2>1. CASE i = proc[p].step
    BY <1>1, <1>4, <2>1
  <2>2. CASE i # proc[p].step
    <3>1. i \in 1 .. proc[p].step - 1
      BY <1>2, <2>2
    <3> QED  BY <1>1, <1>4, <3>1 DEF Placed
  <2> QED  BY <2>1, <2>2
<1>5. \A i \in Index : phase[<<p, i>>] # "none" => i < x.step
  BY <1>1, <1>2, ProcessAssumption DEF Placed, Index, ProcessAssumption
<1>6. x.step \in 1 .. Len(x.plan) + 1
  BY <1>2
<1> QED  BY <1>2, <1>3, <1>4, <1>5, <1>6, StatusSets DEF Placed, Counting

LEMMA LetGoFacts ==
  ASSUME IInv, NEW w \in Workers, LetGo(w)
  PROVE  /\ tick' \in [Workers -> Batch]
         /\ tick'[w] = Idle /\ \A v \in Workers \ {w} : tick'[v] = tick[v]
         /\ \A v \in Workers :
              /\ tick'[v] = tick[v] \/ tick'[v].status = "none"
              /\ tick'[v].process # Nobody =>
                   tick'[v].process = tick[v].process /\ tick'[v].revision = tick[v].revision
         /\ tick[w].status # "none" /\ deciding' = deciding
              => tick[w].process \in Processes /\ Freed(tick[w].process)
<1>1. Idle \in Batch /\ Idle.process = Nobody /\ Idle.status = "none"
  BY DEF Idle, Batch
<1>2. tick' \in [Workers -> Batch] /\ tick'[w] = Idle /\ \A v \in Workers \ {w} : tick'[v] = tick[v]
  BY <1>1 DEF LetGo, IInv, TypeInv
<1>3. ASSUME tick[w].status # "none", deciding' = deciding
      PROVE  tick[w].process \in Processes /\ Freed(tick[w].process)
  BY <1>1, <1>2, <1>3 DEF IInv, TypeInv, Batch, Locking, Freed
<1> QED  BY <1>1, <1>2, <1>3

\* A worker writes the row of the process it has locked.
LEMMA AdvanceWrites ==
  ASSUME IInv, NEW w \in Workers, tick[w].status # "none", LetGo(w),
         UNCHANGED <<seen, deciding, decisions, faults>>,
         NEW p \in Processes, p = tick[w].process, NEW x \in Row, Amend(p, x),
         x.plan = proc[p].plan, x.compensates = proc[p].compensates,
         x.revision = proc[p].revision, x.status # "none", PhaseStep(p), Placed(p, x, phase')
  PROVE  IInv'
<1>1. proc[p].status # "none"
  BY StatusSets DEF IInv, Locking
<1>2. Others /\ deciding' \in [Processes -> {"none", "cancel", "retry"}]
  BY DEF Others, IInv, TypeInv
<1> QED  BY <1>1, <1>2, LetGoFacts, AmendKeeps

\* The row a status is given to.
LEMMA BecomeRow ==
  ASSUME IInv, NEW p \in Processes, NEW status \in Statuses \ {"none"}, Become(p, status)
  PROVE  \E x \in Row :
           /\ Amend(p, x) /\ x.status = status /\ x.plan = proc[p].plan /\ x.step = proc[p].step
           /\ x.results = proc[p].results /\ x.intent = proc[p].intent /\ x.wake = proc[p].wake
           /\ x.compensates = proc[p].compensates /\ x.revision = proc[p].revision
<1> DEFINE x == [proc[p] EXCEPT !.status = status]
<1>1. /\ x \in Row /\ x.status = status /\ x.plan = proc[p].plan /\ x.step = proc[p].step
      /\ x.results = proc[p].results /\ x.intent = proc[p].intent /\ x.wake = proc[p].wake
      /\ x.compensates = proc[p].compensates /\ x.revision = proc[p].revision
  BY RowTyped DEF Row
<1>2. Amend(p, x)
  BY DEF Become
<1> HIDE DEF x
<1> QED  BY <1>1, <1>2

LEMMA FinishRow ==
  ASSUME IInv, NEW p \in Processes, ~Exhausted(p), Finish(p),
         proc[p].plan[proc[p].step].kind \in External => phase[Current(p)] = "succeeded"
  PROVE  \E x \in Row :
           /\ Amend(p, x) /\ x.status = "RUNNING" /\ x.plan = proc[p].plan
           /\ Placed(p, x, phase)
           /\ x.compensates = proc[p].compensates /\ x.revision = proc[p].revision
<1> DEFINE done == Append(proc[p].results, proc[p].step)
           next == proc[p].step + 1
           x == [proc[p] EXCEPT !.status = "RUNNING", !.step = next, !.wake = "none",
                                !.intent = "none", !.results = done]
<1>1. done \in Seq(Index) /\ next \in Nat
  BY RowTyped, CurrentIntent DEF Row
<1>2. Amend(p, x)
  BY RowTyped DEF Finish, Row
<1> HIDE DEF done, next
<1>3. /\ x \in Row /\ x.status = "RUNNING" /\ x.plan = proc[p].plan /\ x.step = next
      /\ x.results = done /\ x.intent = "none"
      /\ x.compensates = proc[p].compensates /\ x.revision = proc[p].revision
  BY <1>1, RowTyped, StatusSets DEF Row
<1> HIDE DEF x
<1>4. Placed(p, x, phase)
  BY <1>3, PlacedNext DEF done, next
<1> QED  BY <1>2, <1>3, <1>4

\* A status and an alarm are given to a row.
Mark(p, status, wake) == Amend(p, [proc[p] EXCEPT !.status = status, !.wake = wake])

LEMMA MarkRow ==
  ASSUME IInv, NEW p \in Processes, NEW status \in Statuses \ {"none"},
         NEW wake \in {"none", "armed", "due"}, Mark(p, status, wake)
  PROVE  \E x \in Row :
           /\ Amend(p, x) /\ x.status = status /\ x.plan = proc[p].plan /\ x.step = proc[p].step
           /\ x.results = proc[p].results /\ x.intent = proc[p].intent /\ x.wake = wake
           /\ x.compensates = proc[p].compensates /\ x.revision = proc[p].revision
<1> DEFINE x == [proc[p] EXCEPT !.status = status, !.wake = wake]
<1>1. /\ x \in Row /\ x.status = status /\ x.plan = proc[p].plan /\ x.step = proc[p].step
      /\ x.results = proc[p].results /\ x.intent = proc[p].intent /\ x.wake = wake
      /\ x.compensates = proc[p].compensates /\ x.revision = proc[p].revision
  BY RowTyped DEF Row
<1>2. Amend(p, x)
  BY DEF Mark
<1> HIDE DEF x
<1> QED  BY <1>1, <1>2

\* The worker lets go of a process and has changed nothing.
LEMMA ReleaseKeeps ==
  ASSUME IInv, NEW w \in Workers, LetGo(w), UNCHANGED <<proc, phase, seen, deciding, decisions>>,
         faults' \in 0 .. MaxFaults
  PROVE  IInv'
<1>1. TypeInv'
  BY LetGoFacts DEF IInv, TypeInv
<1>2. Copies'
  BY <1>1, LetGoFacts, CopiesStep DEF Onward
<1>3. Locking'
  BY <1>1, LetGoFacts, LockingStep
<1> QED  BY <1>1, <1>2, <1>3, QuietKeeps

LEMMA RequestedRow ==
  ASSUME IInv, NEW p \in Processes, RequestStep(p)
  PROVE  /\ PhaseStep(p)
         /\ \E x \in Row :
              /\ Amend(p, x) /\ x.status = "WAITING_EXTERNAL" /\ x.plan = proc[p].plan
              /\ Placed(p, x, phase')
              /\ x.compensates = proc[p].compensates /\ x.revision = proc[p].revision
<1>1. /\ ~Exhausted(p) /\ proc[p].plan[proc[p].step].kind \in External /\ proc[p].intent = "none"
      /\ phase[Current(p)] = "none" /\ phase' = [phase EXCEPT ![Current(p)] = "open"]
  BY DEF RequestStep, At, Life!Request, Life!Become
<1>2. proc[p].step \in Index /\ Current(p) = <<p, proc[p].step>>
  BY <1>1, CurrentIntent
<1>3. PhaseStep(p)
  BY <1>1, <1>2, Tables DEF PhaseStep
<1> DEFINE x == [proc[p] EXCEPT !.status = "WAITING_EXTERNAL", !.intent = "set", !.wake = "armed"]
<1>4. /\ x \in Row /\ x.status = "WAITING_EXTERNAL" /\ x.plan = proc[p].plan
      /\ x.step = proc[p].step /\ x.results = proc[p].results /\ x.intent = "set"
      /\ x.compensates = proc[p].compensates /\ x.revision = proc[p].revision
  BY RowTyped, StatusSets DEF Row
<1>5. Amend(p, x)
  BY DEF RequestStep
<1> HIDE DEF x
<1>6. Placed(p, x, phase')
  <2>1. proc[p] \in Row /\ Placed(p, proc[p], phase)
    BY RowTyped
  <2>2. \A i \in 1 .. proc[p].step - 1 : i \in Index /\ i # proc[p].step
    BY <2>1, ProcessAssumption DEF Placed, Row, Index, ProcessAssumption
  <2>3. \A i \in Index : i # proc[p].step => phase'[<<p, i>>] = phase[<<p, i>>]
    BY <1>3, PhaseStepFacts
  <2>4. proc[p].step <= Len(proc[p].plan)
    BY <1>1, RowTyped DEF Exhausted
  <2> QED  BY <1>1, <1>4, <2>1, <2>2, <2>3, <2>4, StatusSets DEF Placed
<1> QED  BY <1>3, <1>4, <1>5, <1>6

LEMMA AdvanceKeeps ==
  ASSUME IInv, NEW w \in Workers, Advance(w)
  PROVE  IInv'
<1> DEFINE p == tick[w].process
<1>1. /\ tick[w].status # "none" /\ LetGo(w) /\ p \in Processes
      /\ UNCHANGED <<seen, deciding, decisions, faults>>
  BY LetGoFacts DEF Advance
<1> HIDE DEF p
<1>2. ASSUME NEW x \in Row, Amend(p, x), x.plan = proc[p].plan, x.compensates = proc[p].compensates,
             x.revision = proc[p].revision, x.status # "none", PhaseStep(p), Placed(p, x, phase')
      PROVE  IInv'
  BY <1>1, <1>2, AdvanceWrites DEF p
<1>3. ASSUME proc' = proc, phase' = phase PROVE IInv'
  BY <1>1, <1>3, ReleaseKeeps DEF IInv, TypeInv
<1>4. ASSUME NEW status \in Statuses \ {"none"}, NEW wake \in {"none", "armed", "due"},
             Mark(p, status, wake), phase' = phase, status \in Ended => wake = "none"
      PROVE  IInv'
  <2>1. PICK x \in Row :
           /\ Amend(p, x) /\ x.status = status /\ x.plan = proc[p].plan /\ x.step = proc[p].step
           /\ x.results = proc[p].results /\ x.intent = proc[p].intent /\ x.wake = wake
           /\ x.compensates = proc[p].compensates /\ x.revision = proc[p].revision
    BY <1>1, <1>4, MarkRow
  <2>2. PhaseStep(p) /\ Placed(p, x, phase')
    BY <1>1, <1>4, <2>1, PlacedLike DEF PhaseStep
  <2> QED  BY <1>2, <1>4, <2>1, <2>2
<1>5. ASSUME NEW status \in {"WAITING_HUMAN", "BLOCKED"}, Become(p, status), phase' = phase
      PROVE  IInv'
  <2>1. PICK x \in Row :
           /\ Amend(p, x) /\ x.status = status /\ x.plan = proc[p].plan /\ x.step = proc[p].step
           /\ x.results = proc[p].results /\ x.intent = proc[p].intent /\ x.wake = proc[p].wake
           /\ x.compensates = proc[p].compensates /\ x.revision = proc[p].revision
    BY <1>1, <1>5, BecomeRow, StatusSets
  <2>2. PhaseStep(p) /\ Placed(p, x, phase')
    BY <1>1, <1>5, <2>1, PlacedLike, StatusSets DEF PhaseStep
  <2> QED  BY <1>2, <2>1, <2>2
<1>6. ASSUME ~Exhausted(p), Finish(p), phase' = phase,
             proc[p].plan[proc[p].step].kind \in External => phase[Current(p)] = "succeeded"
      PROVE  IInv'
  BY <1>1, <1>2, <1>6, FinishRow DEF PhaseStep
<1>7. CASE Mark(p, "COMPLETED", "none") /\ UNCHANGED phase
  BY <1>4, <1>7, StatusSets
<1>8. CASE Become(p, "WAITING_HUMAN") /\ UNCHANGED phase
  BY <1>5, <1>8
<1>9. CASE AdvanceTimer(p, tick[w].status)
  <2>1. At(p, {"timer"}) /\ phase' = phase
    BY <1>9 DEF AdvanceTimer
  <2>2. CASE Mark(p, "WAITING_TIMER", "armed")
    BY <1>4, <2>1, <2>2, StatusSets
  <2>3. CASE Finish(p)
    BY <1>6, <2>1, <2>3, Tables DEF At
  <2> QED  BY <1>3, <1>9, <2>1, <2>2, <2>3 DEF AdvanceTimer, Mark
<1>10. CASE AwaitOperation(p)
  <2>1. At(p, External) /\ phase' = phase
    BY <1>10 DEF AwaitOperation
  <2>2. CASE phase[Current(p)] = "succeeded" /\ Finish(p)
    BY <1>6, <2>1, <2>2 DEF At
  <2> QED  BY <1>3, <1>5, <1>10, <2>1, <2>2 DEF AwaitOperation
<1>11. CASE RequestStep(p)
  BY <1>1, <1>2, <1>11, RequestedRow
<1> QED  BY <1>7, <1>8, <1>9, <1>10, <1>11 DEF Advance, Mark, p

\* A decision writes the row of a process nobody has locked, or that it has locked itself.
LEMMA DecisionWrites ==
  ASSUME IInv, NEW p \in Processes, proc[p].status # "none", tick' = tick, Others,
         \/ Unlocked(p) /\ deciding' = deciding
         \/ deciding[p] # "none" /\ deciding' = [deciding EXCEPT ![p] = "none"],
         NEW x \in Row, Amend(p, x), x.plan = proc[p].plan,
         x.compensates = proc[p].compensates, x.revision = proc[p].revision,
         x.status # "none", PhaseStep(p), Placed(p, x, phase')
  PROVE  IInv'
<1>1. /\ tick' \in [Workers -> Batch] /\ deciding' \in [Processes -> {"none", "cancel", "retry"}]
      /\ \A q \in Processes : deciding'[q] \in {deciding[q], "none"}
  BY DEF IInv, TypeInv
<1>2. Freed(p)
  BY DEF Freed, Unlocked, IInv, TypeInv, Locking
<1> QED  BY <1>1, <1>2, AmendKeeps

LEMMA DecidableFacts ==
  ASSUME IInv, NEW p \in Processes, Decidable(p)
  PROVE  /\ Unlocked(p) /\ proc[p].status # "none" /\ seen[p] = SightOf(proc[p])
         /\ decisions' \in 0 .. MaxDecisions
BY ProcessAssumption
   DEF Decidable, Counted, IInv, Copies, Looked, TypeInv, ProcessAssumption

LEMMA ApproveKeeps ==
  ASSUME IInv, NEW p \in Processes, Approve(p)
  PROVE  IInv'
<1> DEFINE done == Append(proc[p].results, proc[p].step)
           next == proc[p].step + 1
           x == [proc[p] EXCEPT !.status = "RUNNING", !.step = next, !.results = done]
<1>1. /\ Decidable(p) /\ ~Exhausted(p) /\ proc[p].plan[proc[p].step].kind = "approval"
      /\ UNCHANGED <<phase, tick, seen, deciding, faults>>
  BY DEF Approve, At
<1>2. proc[p].intent = "none"
  BY <1>1, RowTyped, Tables DEF Placed, Row
<1>3. done \in Seq(Index) /\ next \in Nat
  BY <1>1, RowTyped, CurrentIntent DEF Row
<1>4. Amend(p, x)
  BY RowTyped DEF Approve, Row
<1> HIDE DEF done, next
<1>5. /\ x \in Row /\ x.status = "RUNNING" /\ x.plan = proc[p].plan /\ x.step = next
      /\ x.results = done /\ x.intent = proc[p].intent
      /\ x.compensates = proc[p].compensates /\ x.revision = proc[p].revision
  BY <1>3, RowTyped, StatusSets DEF Row
<1> HIDE DEF x
<1>6. Placed(p, x, phase)
  BY <1>1, <1>2, <1>5, PlacedNext, Tables DEF done, next
<1>7. Others
  BY <1>1, DecidableFacts DEF Others, IInv, TypeInv
<1> QED  BY <1>1, <1>4, <1>5, <1>6, <1>7, DecidableFacts, DecisionWrites DEF PhaseStep

LEMMA RejectKeeps ==
  ASSUME IInv, NEW p \in Processes, Reject(p)
  PROVE  IInv'
<1>1. Decidable(p) /\ Become(p, "BLOCKED") /\ UNCHANGED <<phase, tick, seen, deciding, faults>>
  BY DEF Reject
<1>2. PICK x \in Row :
        /\ Amend(p, x) /\ x.status = "BLOCKED" /\ x.plan = proc[p].plan /\ x.step = proc[p].step
        /\ x.results = proc[p].results /\ x.intent = proc[p].intent /\ x.wake = proc[p].wake
        /\ x.compensates = proc[p].compensates /\ x.revision = proc[p].revision
  BY <1>1, BecomeRow, StatusSets
<1>3. PhaseStep(p) /\ Placed(p, x, phase')
  BY <1>1, <1>2, PlacedLike, StatusSets DEF PhaseStep
<1>4. Others
  BY <1>1, DecidableFacts DEF Others, IInv, TypeInv
<1> QED  BY <1>1, <1>2, <1>3, <1>4, DecidableFacts, DecisionWrites

LEMMA CancelWriteKeeps ==
  ASSUME IInv, NEW p \in Processes, CancelWrite(p)
  PROVE  IInv'
<1>1. /\ deciding[p] = "cancel" /\ deciding' = [deciding EXCEPT ![p] = "none"]
      /\ Mark(p, "CANCELLED", "none") /\ UNCHANGED <<phase, tick, seen, decisions, faults>>
  BY DEF CancelWrite, Mark
<1>2. PICK x \in Row :
        /\ Amend(p, x) /\ x.status = "CANCELLED" /\ x.plan = proc[p].plan /\ x.step = proc[p].step
        /\ x.results = proc[p].results /\ x.intent = proc[p].intent /\ x.wake = "none"
        /\ x.compensates = proc[p].compensates /\ x.revision = proc[p].revision
  BY <1>1, MarkRow, StatusSets
<1>3. PhaseStep(p) /\ Placed(p, x, phase')
  BY <1>1, <1>2, PlacedLike, StatusSets DEF PhaseStep
<1>4. Others /\ proc[p].status # "none"
  BY <1>1 DEF Others, IInv, TypeInv, Locking
<1> QED  BY <1>1, <1>2, <1>3, <1>4, DecisionWrites

LEMMA ResumeRow ==
  ASSUME IInv, NEW p \in Processes, Resume(p)
  PROVE  \E x \in Row :
           /\ Amend(p, x) /\ x.status \in {"WAITING_EXTERNAL", "RUNNING"} /\ x.plan = proc[p].plan
           /\ x.step = proc[p].step /\ x.results = proc[p].results /\ x.intent = proc[p].intent
           /\ x.compensates = proc[p].compensates /\ x.revision = proc[p].revision
<1> DEFINE status == IF proc[p].intent = "set" THEN "WAITING_EXTERNAL" ELSE "RUNNING"
           x == [proc[p] EXCEPT !.wake = "armed", !.status = status]
<1>1. status \in {"WAITING_EXTERNAL", "RUNNING"} /\ status \in Statuses
  BY StatusSets
<1>2. Amend(p, x)
  BY DEF Resume
<1> HIDE DEF status
<1>3. /\ x \in Row /\ x.status = status /\ x.plan = proc[p].plan
      /\ x.step = proc[p].step /\ x.results = proc[p].results /\ x.intent = proc[p].intent
      /\ x.compensates = proc[p].compensates /\ x.revision = proc[p].revision
  BY <1>1, RowTyped DEF Row
<1> HIDE DEF x
<1> QED  BY <1>1, <1>2, <1>3

LEMMA ResumeKeeps ==
  ASSUME IInv, NEW p \in Processes, Resume(p), proc[p].status # "none", tick' = tick, Others,
         \/ Unlocked(p) /\ deciding' = deciding
         \/ deciding[p] # "none" /\ deciding' = [deciding EXCEPT ![p] = "none"],
         PhaseStep(p), phase' = phase \/ proc[p].intent = "set"
  PROVE  IInv'
<1>1. PICK x \in Row :
        /\ Amend(p, x) /\ x.status \in {"WAITING_EXTERNAL", "RUNNING"} /\ x.plan = proc[p].plan
        /\ x.step = proc[p].step /\ x.results = proc[p].results /\ x.intent = proc[p].intent
        /\ x.compensates = proc[p].compensates /\ x.revision = proc[p].revision
  BY ResumeRow
<1>2. Placed(p, x, phase')
  BY <1>1, PlacedLike, StatusSets
<1> QED  BY <1>1, <1>2, DecisionWrites

LEMMA RetryKeeps ==
  ASSUME IInv, NEW p \in Processes, Retry(p)
  PROVE  IInv'
<1>1. Decidable(p) /\ Resume(p) /\ UNCHANGED <<phase, tick, seen, deciding, faults>>
  BY DEF Retry
<1>2. Others
  BY <1>1, DecidableFacts DEF Others, IInv, TypeInv
<1> QED  BY <1>1, <1>2, DecidableFacts, ResumeKeeps DEF PhaseStep

LEMMA AdoptKeeps ==
  ASSUME IInv, NEW p \in Processes, Adopt(p)
  PROVE  IInv'
<1>1. /\ Decidable(p) /\ Amend(p, proc[p]) /\ UNCHANGED <<phase, tick, seen, deciding, faults>>
  BY DEF Adopt
<1>2. Others
  BY <1>1, DecidableFacts DEF Others, IInv, TypeInv
<1> QED  BY <1>1, <1>2, RowTyped, DecidableFacts, DecisionWrites DEF PhaseStep

LEMMA RetryWriteKeeps ==
  ASSUME IInv, NEW p \in Processes, RetryWrite(p)
  PROVE  IInv'
<1>1. /\ deciding[p] = "retry" /\ deciding' = [deciding EXCEPT ![p] = "none"]
      /\ UNCHANGED <<tick, seen, decisions, faults>>
  BY DEF RetryWrite
<1>2. /\ proc[p].status = "BLOCKED" /\ proc[p].intent = "set"
      /\ Current(p) = <<p, proc[p].step>>
  BY <1>1 DEF IInv, Locking, Current
<1>3. Others
  BY <1>1 DEF Others, IInv, TypeInv
<1>4. CASE UNCHANGED <<proc, phase>>
  <2>1. TypeInv'
    BY <1>1, <1>4 DEF IInv, TypeInv
  <2>2. \A q \in Processes : deciding'[q] \in {deciding[q], "none"}
    BY <1>1 DEF IInv, TypeInv
  <2>3. Copies'
    BY <1>1, <1>4, <2>1, CopiesStep DEF Onward
  <2>4. Locking'
    BY <1>1, <1>4, <2>1, <2>2, LockingStep
  <2> QED  BY <1>4, <2>1, <2>2, <2>3, <2>4, QuietKeeps
<1>5. CASE (Life!Reopen(Current(p)) \/ Life!Undo(Current(p))) /\ Resume(p)
  <2>1. phase' = [phase EXCEPT ![Current(p)] = "open"]
    BY <1>5 DEF Life!Reopen, Life!Undo, Life!Become
  <2>2. PhaseStep(p)
    BY <1>1, <1>2, <2>1, Tables DEF PhaseStep
  <2> QED  BY <1>1, <1>2, <1>3, <1>5, <2>2, ResumeKeeps
<1> QED  BY <1>4, <1>5 DEF RetryWrite

\* A decision that has read the row and now waits for its write.
LEMMA DecisionReadKeeps ==
  ASSUME IInv, NEW p \in Processes, CancelRead(p) \/ RetryRead(p)
  PROVE  IInv'
<1>1. /\ Decidable(p) /\ UNCHANGED <<proc, phase, tick, seen, faults>>
      /\ \/ /\ deciding' = [deciding EXCEPT ![p] = "cancel"] /\ proc[p].status \notin Ended
         \/ /\ deciding' = [deciding EXCEPT ![p] = "retry"] /\ proc[p].status = "BLOCKED"
            /\ proc[p].intent = "set" /\ phase[Current(p)] = "failed"
  BY DEF CancelRead, RetryRead
<1>2. /\ deciding'[p] \in {"cancel", "retry"}
      /\ \A q \in Processes \ {p} : deciding'[q] = deciding[q]
      /\ deciding' \in [Processes -> {"none", "cancel", "retry"}]
      /\ deciding'[p] = "cancel" => proc[p].status \notin Ended
      /\ deciding'[p] = "retry" =>
           /\ proc[p].status = "BLOCKED" /\ proc[p].intent = "set" /\ phase[Current(p)] = "failed"
  BY <1>1 DEF IInv, TypeInv
<1>3. TypeInv'
  BY <1>1, <1>2, DecidableFacts DEF IInv, TypeInv
<1>4. Copies'
  BY <1>1, <1>3, CopiesStep DEF Onward
<1>5. Locking'
  <2>1. ASSUME NEW w \in Workers, tick[w].status # "none"
        PROVE  tick[w].process # p /\ tick[w].process \in Processes
    BY <1>1, <2>1, DecidableFacts DEF IInv, TypeInv, Batch, Locking, Unlocked
  <2>2. \A w \in Workers : tick[w].status # "none" => deciding'[tick[w].process] = "none"
    BY <1>2, <2>1 DEF IInv, Locking
  <2>3. \A q \in Processes :
          /\ deciding'[q] = "cancel" => proc[q].status \notin Ended \cup {"none"}
          /\ deciding'[q] = "retry" => proc[q].status = "BLOCKED" /\ proc[q].intent = "set"
    BY <1>1, <1>2, DecidableFacts DEF IInv, Locking
  <2> QED  BY <1>1, <2>2, <2>3 DEF IInv, Locking
<1>6. deciding'[p] = "retry" => phase[<<p, proc[p].step>>] # "succeeded"
  BY <1>2 DEF Current
<1> QED  BY <1>1, <1>2, <1>3, <1>4, <1>5, <1>6, QuietKeeps

LEMMA WakeUpKeeps ==
  ASSUME IInv, NEW p \in Processes, WakeUp(p)
  PROVE  IInv'
<1> DEFINE x == [proc[p] EXCEPT !.wake = "due"]
<1>1. /\ x \in Row /\ x.status = proc[p].status /\ x.plan = proc[p].plan
      /\ x.step = proc[p].step /\ x.results = proc[p].results /\ x.intent = proc[p].intent
      /\ x.compensates = proc[p].compensates /\ x.revision = proc[p].revision
  BY RowTyped DEF Row
<1>2. /\ proc' = [proc EXCEPT ![p] = x] /\ proc[p].wake = "armed"
      /\ UNCHANGED <<phase, tick, seen, deciding, decisions, faults>>
  BY DEF WakeUp, IInv, TypeInv
<1>3. proc'[p] = x /\ \A q \in Processes \ {p} : proc'[q] = proc[q]
  BY <1>2 DEF IInv, TypeInv
<1> HIDE DEF x
<1>4. TypeInv'
  BY <1>1, <1>2 DEF IInv, TypeInv
<1>5. Compensated'
  BY <1>1, <1>2, <1>3, <1>4, CompensatedStep
<1>6. \A q \in Processes : Onward(proc[q], proc'[q])
  BY <1>1, <1>3 DEF Onward, SightOf
<1>7. Copies'
  BY <1>2, <1>4, <1>6, CopiesStep
<1>8. Locking'
  BY <1>1, <1>2, <1>3, <1>4, LockingStep
<1>9. Placed(p, x, phase)
  <2>1. Absent.wake = "none"
    BY DEF Absent
  <2>2. proc[p].status \notin Ended /\ proc[p].status # "none"
    BY <1>2, <2>1, RowTyped DEF Placed
  <2> QED  BY <1>1, <2>2, RowTyped DEF Placed
<1>10. \A q \in Processes : Placed(q, proc'[q], phase')
  BY <1>2, <1>3, <1>9 DEF IInv
<1> QED  BY <1>4, <1>5, <1>7, <1>8, <1>10 DEF IInv

LEMMA LookKeeps ==
  ASSUME IInv, NEW p \in Processes, Look(p)
  PROVE  IInv'
<1>1. /\ seen' = [seen EXCEPT ![p] = SightOf(proc[p])] /\ proc[p].status # "none"
      /\ UNCHANGED <<proc, phase, tick, deciding, decisions, faults>>
  BY DEF Look, Sight, SightOf
<1>2. SightOf(proc[p]) \in [status : Statuses, step : Nat, revision : Nat]
  BY RowTyped DEF SightOf, Row
<1>3. TypeInv'
  BY <1>1, <1>2 DEF IInv, TypeInv
<1>4. Looked(SightOf(proc[p]), proc[p])
  BY <1>1, RowTyped DEF Looked, SightOf, Row
<1>5. Copies'
  BY <1>1, <1>4 DEF IInv, TypeInv, Copies
<1>6. Locking'
  BY <1>1 DEF IInv, Locking
<1> QED  BY <1>1, <1>3, <1>5, <1>6, QuietKeeps

LEMMA PickKeeps ==
  ASSUME IInv, NEW w \in Workers, NEW p \in Processes, Pick(w, p)
  PROVE  IInv'
<1> DEFINE x == [Idle EXCEPT !.process = p, !.revision = proc[p].revision]
<1>1. /\ x \in Batch /\ x.process = p /\ x.revision = proc[p].revision /\ x.status = "none"
  BY RowTyped DEF Idle, Batch, Row
<1>2. /\ tick' = [tick EXCEPT ![w] = x] /\ proc[p].status \in Active
      /\ UNCHANGED <<proc, phase, seen, deciding, decisions, faults>>
  BY DEF Pick
<1> HIDE DEF x
<1>3. tick'[w] = x /\ \A v \in Workers \ {w} : tick'[v] = tick[v]
  BY <1>2 DEF IInv, TypeInv
<1>4. TypeInv'
  BY <1>1, <1>2 DEF IInv, TypeInv
<1>5. Picked(x, proc[p])
  BY <1>1, <1>2, RowTyped, StatusSets DEF Picked, Row
<1>6. Copies'
  BY <1>1, <1>2, <1>3, <1>5 DEF IInv, Copies
<1>7. Locking'
  BY <1>1, <1>2, <1>3, <1>4, LockingStep
<1> QED  BY <1>2, <1>4, <1>6, <1>7, QuietKeeps

LEMMA EnterKeeps ==
  ASSUME IInv, NEW w \in Workers, Enter(w)
  PROVE  IInv'
<1> DEFINE p == tick[w].process
<1>1. /\ p \in Processes /\ tick[w].refused = "no" /\ Unlocked(p)
      /\ UNCHANGED <<proc, phase, seen, deciding, decisions, faults>>
  BY DEF Enter, IInv, TypeInv, Batch
<1>2. CASE proc[p].status \notin Active
  BY <1>1, <1>2, ReleaseKeeps DEF Enter, IInv, TypeInv
<1>3. CASE proc[p].status \in Active
  <2> DEFINE x == [tick[w] EXCEPT !.status = proc[p].status]
  <2>1. /\ x \in Batch /\ x.process = p /\ x.revision = tick[w].revision
        /\ x.refused = "no" /\ x.status = proc[p].status
    BY <1>1, <1>3 DEF IInv, TypeInv, Batch
  <2>2. tick' = [tick EXCEPT ![w] = x]
    BY <1>3 DEF Enter, IInv, TypeInv
  <2> HIDE DEF x
  <2>3. tick'[w] = x /\ \A v \in Workers \ {w} : tick'[v] = tick[v]
    BY <2>2 DEF IInv, TypeInv
  <2>4. TypeInv'
    BY <1>1, <2>1, <2>2 DEF IInv, TypeInv
  <2>5. Copies'
    <3>1. \A v \in Workers :
            tick'[v].process = tick[v].process /\ tick'[v].revision = tick[v].revision
      BY <2>1, <2>3
    <3> QED  BY <1>1, <2>4, <3>1, CopiesStep DEF Onward
  <2>6. Locking'
    BY <1>1, <1>3, <2>1, <2>3, ProcessAssumption
       DEF IInv, Locking, Unlocked, ProcessAssumption
  <2> HIDE DEF p
  <2> QED  BY <1>1, <2>4, <2>5, <2>6, QuietKeeps
<1> QED  BY <1>2, <1>3

LEMMA RefuseKeeps ==
  ASSUME IInv, NEW w \in Workers, Refuse(w)
  PROVE  IInv'
<1> DEFINE x == [tick[w] EXCEPT !.refused = "yes", !.status = "none"]
<1>1. x \in Batch /\ x.process = tick[w].process /\ x.revision = tick[w].revision /\ x.status = "none"
  BY DEF IInv, TypeInv, Batch
<1>2. /\ tick' = [tick EXCEPT ![w] = x] /\ UNCHANGED <<proc, phase, seen, deciding, decisions>>
      /\ faults' \in 0 .. MaxFaults
  <2>1. tick' = [tick EXCEPT ![w] = x]
    BY DEF Refuse, IInv, TypeInv, Batch
  <2>2. faults \in 0 .. MaxFaults /\ MaxFaults \in Nat
    BY ProcessAssumption DEF IInv, TypeInv, ProcessAssumption
  <2>3. faults' = faults \/ (faults < MaxFaults /\ faults' = faults + 1)
    BY DEF Refuse
  <2>4. faults' \in 0 .. MaxFaults
    BY <2>2, <2>3
  <2> QED  BY <2>1, <2>4 DEF Refuse
<1> HIDE DEF x
<1>3. tick'[w] = x /\ \A v \in Workers \ {w} : tick'[v] = tick[v]
  BY <1>2 DEF IInv, TypeInv
<1>4. TypeInv'
  BY <1>1, <1>2 DEF IInv, TypeInv
<1>5. Copies'
  BY <1>1, <1>2, <1>3, <1>4, CopiesStep DEF Onward
<1>6. Locking'
  BY <1>1, <1>2, <1>3, <1>4, LockingStep
<1> QED  BY <1>2, <1>4, <1>5, <1>6, QuietKeeps

LEMMA BlockKeeps ==
  ASSUME IInv, NEW w \in Workers, Block(w)
  PROVE  IInv'
<1> DEFINE p == tick[w].process
<1>1. /\ tick[w].refused = "yes" /\ LetGo(w) /\ UNCHANGED <<phase, seen, deciding, decisions, faults>>
      /\ Others /\ deciding' \in [Processes -> {"none", "cancel", "retry"}]
  BY DEF Block, Others, IInv, TypeInv
<1>2. CASE proc' = proc
  BY <1>1, <1>2, ReleaseKeeps DEF IInv, TypeInv
<1>3. CASE p \in Processes /\ Become(p, "BLOCKED") /\ proc[p].revision = tick[w].revision
  <2>1. PICK x \in Row :
        /\ Amend(p, x) /\ x.status = "BLOCKED" /\ x.plan = proc[p].plan /\ x.step = proc[p].step
        /\ x.results = proc[p].results /\ x.intent = proc[p].intent /\ x.wake = proc[p].wake
        /\ x.compensates = proc[p].compensates /\ x.revision = proc[p].revision
    BY <1>3, BecomeRow, StatusSets
  <2>2. PhaseStep(p) /\ Placed(p, x, phase')
    BY <1>1, <1>3, <2>1, PlacedLike, StatusSets DEF PhaseStep
  <2>3. proc[p].status # "none"
    BY <1>3, ProcessAssumption DEF IInv, Copies, Picked, ProcessAssumption
  <2> HIDE DEF p
  <2> QED  BY <1>1, <1>3, <2>1, <2>2, <2>3, LetGoFacts, AmendKeeps
<1>4. CASE p \notin Processes /\ Become(p, "BLOCKED")
  <2>1. proc' = proc
    BY <1>4 DEF Become, Amend, IInv, TypeInv
  <2> QED  BY <1>2, <2>1
<1> QED  BY <1>2, <1>3, <1>4 DEF Block

LEMMA InterruptKeeps ==
  ASSUME IInv, NEW w \in Workers, Interrupt(w)
  PROVE  IInv'
BY ReleaseKeeps, ProcessAssumption DEF Interrupt, IInv, TypeInv, ProcessAssumption

LEMMA OperationMovesKeep ==
  ASSUME IInv, OperationMoves
  PROVE  IInv'
<1>1. PICK o \in Intents : Life!Settle(o) \/ Life!Report(o) \/ Life!Reopen(o)
  BY DEF OperationMoves
<1>2. PICK to \in Life!Phase \ {"none"} :
        phase' = [phase EXCEPT ![o] = to] /\ phase[o] \notin {"none", "succeeded"}
  BY <1>1, Tables DEF Life!Settle, Life!Report, Life!Reopen, Life!Become
<1>3. UNCHANGED <<proc, tick, seen, deciding, decisions, faults>>
  BY DEF OperationMoves
<1>4. TypeInv'
  BY <1>2, <1>3 DEF IInv, TypeInv
<1>5. Copies' /\ Locking'
  BY <1>3 DEF IInv, Copies, Locking
<1>6. \A i \in Intents : /\ phase[i] = "none" <=> phase'[i] = "none"
                         /\ phase[i] = "succeeded" => phase'[i] = "succeeded"
  BY <1>2 DEF IInv, TypeInv
<1> QED  BY <1>3, <1>4, <1>5, <1>6, Tables, QuietKeeps

-----------------------------------------------------------------------------
(* Processes that start, and the plan of a compensation.                    *)

LEMMA PlanTyped ==
  ASSUME NEW plan \in Plans
  PROVE  plan \in Seq(Step) /\ Len(plan) <= MaxLength
<1>1. PICK n \in 1 .. MaxLength : plan \in [1 .. n -> Step]
  BY ProcessAssumption DEF ProcessAssumption
<1>2. n \in Nat /\ n <= MaxLength
  BY ProcessAssumption DEF ProcessAssumption
<1>3. plan \in Seq(Step)
  BY <1>1, <1>2
<1>4. Len(plan) = n
  BY <1>1, <1>2, <1>3
<1> QED  BY <1>2, <1>3, <1>4

LEMMA StartKeeps ==
  ASSUME IInv, NEW p \in Processes, NEW plan \in Seq(Step), Len(plan) <= MaxLength,
         NEW parent \in Processes \cup {Nobody}, Start(p, plan, parent),
         UNCHANGED <<phase, tick, seen, deciding, faults>>, decisions' \in 0 .. MaxDecisions,
         TypeInv' /\ (\A q \in Processes \ {p} : proc'[q] = proc[q]) /\ Freed(p)
           /\ proc'[p].plan = plan /\ proc'[p].compensates = parent
           /\ proc[p].compensates = Nobody => Compensated'
  PROVE  IInv'
<1> DEFINE x == [Absent EXCEPT !.status = "RUNNING", !.plan = plan, !.compensates = parent]
<1>1. /\ x \in Row /\ x.status = "RUNNING" /\ x.plan = plan /\ x.step = 1 /\ x.intent = "none"
      /\ x.results = <<>> /\ x.compensates = parent
  <2>1. /\ x.status = "RUNNING" /\ x.plan = plan /\ x.step = 1 /\ x.intent = "none"
        /\ x.results = <<>> /\ x.compensates = parent
    BY DEF Absent
  <2>2. x \in Row
    BY AbsentRow, StatusSets DEF Row
  <2> QED  BY <2>1, <2>2
<1>2. proc' = [proc EXCEPT ![p] = x] /\ proc[p].status = "none"
  BY DEF Start
<1> HIDE DEF x
<1>3. proc'[p] = x /\ \A q \in Processes \ {p} : proc'[q] = proc[q]
  BY <1>2 DEF IInv, TypeInv
<1>4. TypeInv'
  BY <1>1, <1>2 DEF IInv, TypeInv
<1>5. Freed(p)
  <2>1. \A w \in Workers : tick[w].process = p => tick[w].status = "none"
    BY <1>2, StatusSets DEF IInv, Locking
  <2>2. deciding[p] \in {"none", "cancel", "retry"} /\ deciding[p] \notin {"cancel", "retry"}
    BY <1>2 DEF IInv, Locking, TypeInv
  <2> QED  BY <2>1, <2>2 DEF Freed
<1>6. proc[p] = Absent /\ proc[p].compensates = Nobody /\ proc[p].step = 1 /\ proc[p].intent = "none"
  <2>1. proc[p] = Absent
    BY <1>2, RowTyped DEF Placed
  <2> QED  BY <2>1 DEF Absent
<1>7. Compensated'
  BY <1>1, <1>3, <1>4, <1>5, <1>6
<1>8. Copies'
  <2>1. \A q \in Processes : Onward(proc[q], proc'[q])
    BY <1>2, <1>3 DEF Onward
  <2> QED  BY <1>4, <2>1, CopiesStep
<1>9. Locking'
  BY <1>3, <1>4, <1>5, LockingStep
<1>10. Placed(p, x, phase)
  <2>1. \A i \in Index : phase[<<p, i>>] = "none"
    <3>1. \A i \in Index :
            phase[<<p, i>>] # "none" =>
              i < proc[p].step \/ (i = proc[p].step /\ proc[p].intent = "set")
      BY RowTyped DEF Placed
    <3>2. \A i \in Index : i \in Nat /\ ~(i < 1)
      BY ProcessAssumption DEF Index, ProcessAssumption
    <3> QED  BY <1>6, <3>1, <3>2
  <2>2. Len(plan) \in Nat
    OBVIOUS
  <2>3. x.results = [n \in 1 .. x.step - 1 |-> n]
    BY <1>1, AbsentRow DEF Counting
  <2> QED  BY <1>1, <2>1, <2>2, <2>3, StatusSets DEF Placed
<1>11. \A q \in Processes : Placed(q, proc'[q], phase')
  BY <1>3, <1>10 DEF IInv
<1> QED  BY <1>4, <1>7, <1>8, <1>9, <1>11 DEF IInv

LEMMA CreateKeeps ==
  ASSUME IInv, NEW p \in Processes, Create(p)
  PROVE  IInv'
<1>1. PICK plan \in Plans : Start(p, plan, Nobody)
  BY DEF Create
<1>2. UNCHANGED <<phase, tick, seen, deciding, decisions, faults>>
  BY DEF Create
<1>3. ASSUME TypeInv', \A q \in Processes \ {p} : proc'[q] = proc[q], Freed(p),
             proc'[p].compensates = Nobody, proc[p].compensates = Nobody
      PROVE  Compensated'
  <2>1. \A c \in Processes :
           /\ proc'[c].compensates = proc[c].compensates
           /\ proc[c].compensates # Nobody => proc'[c].plan = proc[c].plan
    BY <1>3
  <2>2. \A q \in Processes : deciding'[q] = "retry" =>
           deciding[q] = "retry" /\ proc'[q].step = proc[q].step
    BY <1>2, <1>3 DEF Freed
  <2> QED  BY <1>2, <1>3, <2>1, <2>2, CompensatedStep
<1>4. decisions' \in 0 .. MaxDecisions
  BY <1>2 DEF IInv, TypeInv
<1> QED  BY <1>1, <1>2, <1>3, <1>4, PlanTyped, StartKeeps

\* The elements of a finite set of numbers are numbered by how many are greater.
Greater(S, i) == {k \in S : k > i}
Later(S, i) == Cardinality(Greater(S, i))

LEMMA LaterNumbers ==
  ASSUME NEW S \in SUBSET Index
  PROVE  /\ IsFiniteSet(S) /\ Cardinality(S) \in Nat /\ Cardinality(S) <= MaxLength
         /\ \A i, j \in S : Later(S, i) < Later(S, j) => i > j
         /\ \A n \in 1 .. Cardinality(S) : \E i \in S : Later(S, i) = n - 1
<1> DEFINE size == Cardinality(S)
           f == [i \in S |-> Later(S, i)]
<1>1. IsFiniteSet(Index) /\ Cardinality(Index) = MaxLength /\ \A i \in Index : i \in Nat
  BY FS_Interval, ProcessAssumption DEF Index, ProcessAssumption
<1>2. IsFiniteSet(S) /\ size \in Nat /\ size <= MaxLength
  BY <1>1, FS_Subset, FS_CardinalityType
<1>3. ASSUME NEW i \in S
      PROVE  IsFiniteSet(Greater(S, i)) /\ Later(S, i) \in Nat /\ Later(S, i) < size
  <2>1. Greater(S, i) \in SUBSET S /\ i \notin Greater(S, i)
    BY <1>1 DEF Greater
  <2>2. IsFiniteSet(Greater(S, i)) /\ Later(S, i) <= size /\ Later(S, i) # size
    BY <1>2, <2>1, FS_Subset DEF Later
  <2>3. Later(S, i) \in Nat
    BY <2>2, FS_CardinalityType DEF Later
  <2> QED  BY <1>2, <2>2, <2>3
<1>4. ASSUME NEW i \in S, NEW j \in S, i < j PROVE Later(S, j) < Later(S, i)
  <2>1. i \in Nat /\ j \in Nat
    BY <1>1
  <2>2. \A k \in S : k \in Nat /\ (k > j => k > i)
    BY <1>1, <1>4
  <2>3. Greater(S, j) \in SUBSET Greater(S, i) /\ j \in Greater(S, i) /\ j \notin Greater(S, j)
    <3>1. Greater(S, j) \in SUBSET Greater(S, i)
      BY <2>2 DEF Greater
    <3>2. j \in Greater(S, i) /\ j \notin Greater(S, j)
      BY <1>4, <2>1 DEF Greater
    <3> QED  BY <3>1, <3>2
  <2>4. Later(S, j) <= Later(S, i) /\ Later(S, j) # Later(S, i)
    BY <1>3, <2>3, FS_Subset DEF Later
  <2> QED  BY <1>3, <2>4
<1>5. ASSUME NEW i \in S, NEW j \in S, ~(i > j) PROVE Later(S, j) <= Later(S, i)
  <2>1. i < j \/ i = j
    BY <1>1, <1>5
  <2> QED  BY <1>3, <1>4, <2>1
<1>6. f \in [S -> 0 .. size - 1]
  BY <1>2, <1>3
<1>7. ASSUME NEW i \in S, NEW j \in S, Later(S, i) = Later(S, j) PROVE i = j
  <2>1. i \in Nat /\ j \in Nat
    BY <1>1
  <2>2. Later(S, i) \in Nat /\ ~(Later(S, i) < Later(S, j)) /\ ~(Later(S, j) < Later(S, i))
    BY <1>3, <1>7
  <2>3. ~(i < j) /\ ~(j < i)
    BY <1>4, <2>2
  <2> QED  BY <2>1, <2>3
<1>8. f \in Injection(S, 0 .. size - 1)
  BY <1>6, <1>7 DEF Injection, IsInjective
<1>9. IsFiniteSet(0 .. size - 1) /\ Cardinality(0 .. size - 1) = size
  <2> HIDE DEF size
  <2>1. size - 1 \in Int /\ 0 \in Int
    BY <1>2
  <2>2. /\ IsFiniteSet(0 .. size - 1)
        /\ Cardinality(0 .. size - 1) = IF 0 > size - 1 THEN 0 ELSE (size - 1) - 0 + 1
    BY ONLY <2>1, FS_Interval, Zenon
  <2> QED  BY <1>2, <2>2
<1>10. f \in Surjection(S, 0 .. size - 1)
  BY <1>8, <1>9, FS_Injection
<1>11. ASSUME NEW n \in 1 .. size PROVE \E i \in S : Later(S, i) = n - 1
  <2>1. n - 1 \in 0 .. size - 1
    BY <1>2
  <2>2. PICK i \in S : f[i] = n - 1
    BY <1>10, <2>1 DEF Surjection
  <2> QED  BY <2>2
<1>12. ASSUME NEW i \in S, NEW j \in S, Later(S, i) < Later(S, j) PROVE i > j
  BY <1>3, <1>5, <1>12
<1> QED  BY <1>2, <1>11, <1>12

\* The reversible steps of a process that are done, and the plan that undoes them.
Undone(p) == {i \in DoneSteps(p) : i <= Len(proc[p].plan) /\ proc[p].plan[i].kind = "reversible"}

LEMMA DoneSucceeded ==
  ASSUME IInv, NEW p \in Processes, NEW i \in DoneSteps(p)
  PROVE  /\ i \in Index
         /\ i <= Len(proc[p].plan) /\ proc[p].plan[i].kind = "reversible"
              => phase[<<p, i>>] = "succeeded"
<1>1. /\ proc[p].results = Counting(proc[p].step - 1) /\ proc[p].step \in Nat
      /\ Len(proc[p].plan) \in Nat
      /\ \A k \in 1 .. proc[p].step - 1 :
           k \in Index /\ (proc[p].plan[k].kind \in External => phase[<<p, k>>] = "succeeded")
  BY RowTyped, ProcessAssumption DEF Placed, Index, Counting, ProcessAssumption
<1>2. CASE i \in {proc[p].results[n] : n \in DOMAIN proc[p].results}
  <2>1. i \in 1 .. proc[p].step - 1
    BY <1>1, <1>2 DEF Counting
  <2> QED  BY <1>1, <2>1, Tables
<1>3. CASE i \in {k \in Index :
                    k = proc[p].step /\ proc[p].intent = "set" /\ phase[<<p, k>>] = "succeeded"}
  BY <1>3
<1> QED  BY <1>2, <1>3 DEF DoneSteps

LEMMA UndoingSound ==
  ASSUME IInv, NEW p \in Processes
  PROVE  /\ Undoing(p) \in Seq(Step) /\ Len(Undoing(p)) <= MaxLength
         /\ \A n \in 1 .. Len(Undoing(p)) :
              Undoing(p)[n].undoes \in Index /\ phase[<<p, Undoing(p)[n].undoes>>] = "succeeded"
         /\ \A m, n \in 1 .. Len(Undoing(p)) :
              m < n => Undoing(p)[m].undoes > Undoing(p)[n].undoes
<1> DEFINE S == Undone(p)
           size == Cardinality(S)
           nth(n) == CHOOSE i \in S : Later(S, i) = n - 1
<1>1. Undoing(p) = [n \in 1 .. size |-> [kind |-> "integration", undoes |-> nth(n)]]
  BY DEF Undoing, Undone, Later, Greater
<1>2. S \in SUBSET Index /\ \A i \in S : phase[<<p, i>>] = "succeeded"
  BY DoneSucceeded DEF Undone
<1> HIDE DEF S
<1>3. size \in Nat /\ size <= MaxLength
  BY <1>2, LaterNumbers
<1>4. \A n \in 1 .. size : nth(n) \in S /\ Later(S, nth(n)) = n - 1
  BY <1>2, LaterNumbers
<1> HIDE DEF size, nth
<1>5. ASSUME NEW n \in 1 .. size
      PROVE  [kind |-> "integration", undoes |-> nth(n)] \in Step
  <2>1. nth(n) \in 0 .. MaxLength
    <3>1. nth(n) \in Index
      BY <1>2, <1>4
    <3> QED  BY <3>1, ProcessAssumption DEF Index, ProcessAssumption
  <2> QED  BY <2>1 DEF Step, Kinds
<1>6. Undoing(p) \in Seq(Step) /\ Len(Undoing(p)) = size
  BY <1>1, <1>3, <1>5
<1>7. \A n \in 1 .. size : Undoing(p)[n].undoes = nth(n)
  BY <1>1
<1>8. ASSUME NEW m \in 1 .. size, NEW n \in 1 .. size, m < n
      PROVE  nth(m) > nth(n)
  <2>1. nth(m) \in S /\ nth(n) \in S /\ Later(S, nth(m)) < Later(S, nth(n))
    BY <1>3, <1>4, <1>8
  <2>2. \A i, j \in S : Later(S, i) < Later(S, j) => i > j
    BY <1>2, LaterNumbers
  <2> QED  BY <2>1, <2>2
<1> QED  BY <1>2, <1>3, <1>4, <1>6, <1>7, <1>8

LEMMA CompensateKeeps ==
  ASSUME IInv, NEW p \in Processes, NEW child \in Compensations, Compensate(p, child)
  PROVE  IInv'
<1>1. /\ child \in Processes /\ Start(child, Undoing(p), p) /\ Unlocked(p)
      /\ \A c \in Processes : proc[c].compensates # p
      /\ UNCHANGED <<phase, tick, seen, deciding, faults>>
  BY ProcessAssumption DEF Compensate, ProcessAssumption
<1>2. decisions' \in 0 .. MaxDecisions
  BY ProcessAssumption DEF Compensate, Counted, IInv, TypeInv, ProcessAssumption
<1>3. ASSUME TypeInv', \A q \in Processes \ {child} : proc'[q] = proc[q], Freed(child),
             proc'[child].plan = Undoing(p), proc'[child].compensates = p,
             proc[child].compensates = Nobody
      PROVE  Compensated'
  <2>1. Undoes(proc'[child], proc'[p], phase', deciding'[p])
    BY <1>1, <1>3, UndoingSound DEF Undoes, Unlocked
  <2>2. ASSUME NEW c \in Processes \ {child}, proc[c].compensates # Nobody
        PROVE  /\ Undoes(proc[c], proc'[proc[c].compensates], phase', deciding'[proc[c].compensates])
               /\ proc[c].compensates # p
               /\ \A d \in Processes \ {c, child} : proc[d].compensates # proc[c].compensates
    <3> DEFINE q == proc[c].compensates
    <3>1. /\ q \in Processes /\ Undoes(proc[c], proc[q], phase, deciding[q])
          /\ \A d \in Processes \ {c} : proc[d].compensates # q
      BY <2>2 DEF IInv, TypeInv, Row, Compensated
    <3> HIDE DEF q
    <3>2. q = child => deciding'[q] = "none"
      BY <1>3 DEF Freed
    <3>3. Undoes(proc[c], proc'[q], phase', deciding'[q])
      BY <1>1, <1>3, <3>1, <3>2 DEF Undoes
    <3> QED  BY <1>1, <3>1, <3>3 DEF q
  <2>3. ASSUME NEW c \in Processes, proc'[c].compensates # Nobody
        PROVE  /\ Undoes(proc'[c], proc'[proc'[c].compensates], phase',
                         deciding'[proc'[c].compensates])
               /\ \A d \in Processes \ {c} : proc'[d].compensates # proc'[c].compensates
    <3>1. CASE c = child
      BY <1>1, <1>3, <2>1, <3>1
    <3>2. CASE c # child
      BY <1>3, <2>2, <2>3, <3>2
    <3> QED  BY <3>1, <3>2
  <2> QED  BY <2>3 DEF Compensated
<1> QED  BY <1>1, <1>2, <1>3, UndoingSound, StartKeeps

-----------------------------------------------------------------------------
(* The theorems.                                                            *)

LEMMA NextIInv == IInv /\ [Next]_vars => IInv'
<1> SUFFICES ASSUME IInv, [Next]_vars PROVE IInv'
  OBVIOUS
<1>1. ASSUME NEW p \in Processes,
             Create(p) \/ WakeUp(p) \/ Look(p) \/ Decide(p) \/ CancelWrite(p) \/ RetryWrite(p)
      PROVE  IInv'
  BY <1>1, CreateKeeps, WakeUpKeeps, LookKeeps, ApproveKeeps, RejectKeeps, DecisionReadKeeps,
     RetryKeeps, AdoptKeeps, CancelWriteKeeps, RetryWriteKeeps DEF Decide
<1>2. ASSUME NEW w \in Workers,
             Enter(w) \/ Advance(w) \/ Refuse(w) \/ Block(w) \/ Interrupt(w)
      PROVE  IInv'
  BY <1>2, EnterKeeps, AdvanceKeeps, RefuseKeeps, BlockKeeps, InterruptKeeps
<1>3. CASE UNCHANGED vars
  BY <1>3 DEF vars, IInv, TypeInv, Compensated, Copies, Locking
<1> QED  BY <1>1, <1>2, <1>3, CompensateKeeps, PickKeeps, OperationMovesKeep DEF Next

LEMMA Invariance == Safety => []IInv
BY InitIInv, NextIInv, PTL DEF Safety

\* Rows, operations and the copies workers and people hold are of their types.
THEOREM ProcessTyped == Spec => []TypeOK
<1>1. IInv => TypeOK
  <2> SUFFICES ASSUME IInv PROVE TypeOK
    OBVIOUS
  <2>1. \A p \in Processes : proc[p] \in Row /\ proc[p].step \in 1 .. Len(proc[p].plan) + 1
    BY RowTyped DEF Placed
  <2> QED  BY <2>1 DEF IInv, TypeInv, TypeOK, Row, Batch
<1> QED  BY <1>1, Invariance, PTL DEF Spec

\* A process has the results of exactly the steps before its current one, in order, and
\* the external ones among them have succeeded and stay so.
THEOREM ResultsInOrder == Spec => []CompletedInOrder
<1>1. IInv => CompletedInOrder
  BY DEF IInv, Placed, CompletedInOrder
<1> QED  BY <1>1, Invariance, PTL DEF Spec

\* An operation belongs to a completed step or to the one its process waits at.
THEOREM IntentsKept == Spec => []IntentsTracked
<1>1. IInv => IntentsTracked
  BY DEF IInv, Placed, IntentsTracked
<1> QED  BY <1>1, Invariance, PTL DEF Spec

\* A compensation undoes each succeeded reversible step at most once, last one first; no
\* process is compensated twice, and no retry reopens what is being undone.
THEOREM CompensatedSoundly == Spec => []CompensationSound
<1>1. IInv => CompensationSound
  BY DEF IInv, Compensated, Undoes, CompensationSound
<1> QED  BY <1>1, Invariance, PTL DEF Spec

LEMMA EndedStays ==
  ASSUME IInv, [Next]_vars, NEW p \in Processes, proc[p].status \in Ended
  PROVE  proc'[p] = proc[p]
<1>1. ASSUME NEW q, NEW x, Amend(q, x), q # p PROVE proc'[p] = proc[p]
  BY <1>1 DEF Amend, IInv, TypeInv
<1>2. ASSUME NEW q \in Processes, NEW plan, NEW parent, Start(q, plan, parent)
      PROVE  proc'[p] = proc[p]
  <2>1. p # q
    BY <1>2, StatusSets DEF Start
  <2> QED  BY <1>2, <2>1 DEF Start, IInv, TypeInv
<1>3. ASSUME NEW q \in Processes,
             Create(q) \/ WakeUp(q) \/ Look(q) \/ Decide(q) \/ CancelWrite(q) \/ RetryWrite(q)
      PROVE  proc'[p] = proc[p]
  <2>1. CASE Create(q)
    BY <1>2, <2>1 DEF Create
  <2>2. CASE WakeUp(q)
    <3>1. p # q
      BY <2>2, RowTyped DEF WakeUp, Placed
    <3> QED  BY <2>2, <3>1 DEF WakeUp, IInv, TypeInv
  <2>3. CASE Look(q) \/ CancelRead(q) \/ RetryRead(q)
    BY <2>3 DEF Look, CancelRead, RetryRead
  <2>4. CASE Approve(q) \/ Reject(q) \/ Retry(q) \/ Adopt(q)
    <3>1. p # q
      BY <2>4, StatusSets DEF Approve, Reject, Retry, Adopt
    <3> QED  BY <1>1, <2>4, <3>1 DEF Approve, Reject, Retry, Resume, Adopt, Become
  <2>5. CASE CancelWrite(q)
    <3>1. p # q
      BY <2>5 DEF CancelWrite, IInv, Locking
    <3> QED  BY <1>1, <2>5, <3>1 DEF CancelWrite
  <2>6. CASE RetryWrite(q)
    <3>1. p # q
      BY <2>6, StatusSets DEF RetryWrite, IInv, Locking
    <3> QED  BY <1>1, <2>6, <3>1 DEF RetryWrite, Resume
  <2> QED  BY <1>3, <2>1, <2>2, <2>3, <2>4, <2>5, <2>6 DEF Decide
<1>4. ASSUME NEW w \in Workers, Advance(w) PROVE proc'[p] = proc[p]
  <2>1. tick[w].process # p
    BY <1>4, StatusSets DEF Advance, IInv, Locking
  <2> QED
    BY <1>1, <1>4, <2>1
       DEF Advance, AdvanceTimer, AwaitOperation, RequestStep, Finish, Become
<1>5. ASSUME NEW w \in Workers, Block(w) PROVE proc'[p] = proc[p]
  <2>1. tick[w].process = p => proc[p].revision # tick[w].revision
    BY StatusSets, ProcessAssumption DEF IInv, Copies, Picked, ProcessAssumption
  <2> QED  BY <1>1, <1>5, <2>1 DEF Block, Become
<1>6. ASSUME NEW w \in Workers, Enter(w) \/ Refuse(w) \/ Interrupt(w) PROVE proc'[p] = proc[p]
  BY <1>6 DEF Enter, Refuse, Interrupt
<1>7. ASSUME NEW q \in Processes, NEW child \in Compensations, Compensate(q, child)
      PROVE  proc'[p] = proc[p]
  BY <1>2, <1>7, ProcessAssumption DEF Compensate, ProcessAssumption
<1>8. CASE OperationMoves \/ UNCHANGED vars \/ \E w \in Workers, q \in Processes : Pick(w, q)
  BY <1>8 DEF OperationMoves, vars, Pick
<1> QED  BY <1>3, <1>4, <1>5, <1>6, <1>7, <1>8 DEF Next

\* A process that completed or was cancelled stays as it is.
THEOREM EndedIsFinal == Spec => EndIsFinal
<1>1. IInv /\ [Next]_vars =>
        [\A p \in Processes : proc[p].status \in Ended => proc'[p] = proc[p]]_proc
  BY EndedStays
<1> QED  BY <1>1, Invariance, PTL DEF Spec, Safety, EndIsFinal

\* A decision is taken on the status and the step the person has seen.
THEOREM DecidedOnSight == Spec => DecidedAsSeen
<1>1. ASSUME IInv, NEW p \in Processes, Decide(p)
      PROVE  seen[p].status = proc[p].status /\ seen[p].step = proc[p].step
  <2>1. Decidable(p)
    BY <1>1 DEF Decide, Approve, Reject, CancelRead, Retry, RetryRead, Adopt
  <2>2. seen[p] = SightOf(proc[p])
    BY <1>1, <2>1, DecidableFacts
  <2> QED  BY <2>2 DEF SightOf
<1>2. IInv /\ [Next]_vars =>
        [\A p \in Processes :
           Decide(p) => seen[p].status = proc[p].status /\ seen[p].step = proc[p].step]_vars
  BY <1>1
<1> QED  BY <1>2, Invariance, PTL DEF Spec, Safety, DecidedAsSeen

LEMMA LifeStep ==
  ASSUME IInv, [Next]_vars
  PROVE  [Life!LifeNext]_phase
<1>1. ASSUME NEW w \in Workers, Advance(w) PROVE [Life!LifeNext]_phase
  <2> DEFINE p == tick[w].process
  <2>1. p \in Processes
    BY <1>1, LetGoFacts DEF Advance
  <2>2. CASE RequestStep(p)
    <3>1. Current(p) \in Intents
      BY <2>1, <2>2, CurrentIntent DEF RequestStep, At
    <3> QED  BY <2>2, <3>1 DEF RequestStep, Life!LifeNext
  <2>3. CASE phase' = phase
    BY <2>3
  <2> QED  BY <1>1, <2>2, <2>3 DEF Advance, AdvanceTimer, AwaitOperation
<1>2. ASSUME NEW p \in Processes, RetryWrite(p) PROVE [Life!LifeNext]_phase
  <2>1. proc[p].intent = "set" /\ proc[p].status = "BLOCKED"
    BY <1>2 DEF RetryWrite, IInv, Locking
  <2>2. ~Exhausted(p)
    <3>1. proc[p].step <= Len(proc[p].plan)
      BY <2>1, RowTyped DEF Placed
    <3>2. Len(proc[p].plan) \in Nat /\ proc[p].step \in Nat
      BY RowTyped
    <3> QED  BY <3>1, <3>2 DEF Exhausted
  <2>3. Current(p) \in Intents
    BY <1>2, <2>2, CurrentIntent
  <2> QED  BY <1>2, <2>3 DEF RetryWrite, Life!LifeNext
<1>3. CASE OperationMoves
  BY <1>3 DEF OperationMoves, Life!LifeNext
<1>4. ASSUME NEW p \in Processes,
             \/ Create(p) \/ WakeUp(p) \/ Look(p) \/ Decide(p) \/ CancelWrite(p)
             \/ \E child \in Compensations : Compensate(p, child)
      PROVE  phase' = phase
  BY <1>4 DEF Create, WakeUp, Look, Decide, Approve, Reject, CancelRead, Retry, RetryRead, Adopt,
              CancelWrite, Compensate
<1>5. ASSUME NEW w \in Workers,
             \/ Enter(w) \/ Refuse(w) \/ Block(w) \/ Interrupt(w)
             \/ \E p \in Processes : Pick(w, p)
      PROVE  phase' = phase
  BY <1>5 DEF Enter, Refuse, Block, Interrupt, Pick
<1>6. CASE UNCHANGED vars
  BY <1>6 DEF vars
<1> QED  BY <1>1, <1>2, <1>3, <1>4, <1>5, <1>6 DEF Next

\* Processes drive their operations only as the lifecycle of an operation allows: each is
\* requested once, and reopened only when it failed or a retry races its late answer.
THEOREM ProcessesImplementLife == Spec => ImplementsLife
<1>1. Init => Life!LifeInit
  BY DEF Init
<1>2. IInv /\ [Next]_vars => [Life!LifeNext]_phase
  BY LifeStep
<1> QED  BY <1>1, <1>2, Invariance, PTL DEF Spec, Safety, ImplementsLife, Life!LifeSafety

-----------------------------------------------------------------------------
(* Processes whose principal is resumed without a World.                    *)

\* No step is done, nothing has been requested and nobody asked.
Unmoved(row) ==
  /\ row.status \in {"none", "RUNNING", "BLOCKED", "CANCELLED"}
  /\ row.step = 1 /\ row.intent = "none"

Halted ==
  /\ \A p \in Processes : Unmoved(proc[p])
  /\ \A i \in Intents : phase[i] = "none"

\* The operations follow from the places.
LEMMA NoneRequested ==
  ASSUME NEW table, NEW ph,
         \A p \in Processes : Placed(p, table[p], ph) /\ Unmoved(table[p])
  PROVE  \A i \in Intents : ph[i] = "none"
<1>1. ASSUME NEW p \in Processes, NEW i \in Index PROVE ph[<<p, i>>] = "none"
  <2>1. ph[<<p, i>>] # "none" =>
          i < table[p].step \/ (i = table[p].step /\ table[p].intent = "set")
    BY DEF Placed
  <2>2. ~(i < 1)
    BY ProcessAssumption DEF Index, ProcessAssumption
  <2> QED  BY <2>1, <2>2 DEF Unmoved
<1> QED  BY <1>1 DEF Intents

LEMMA HaltedRows ==
  ASSUME IInv', \A p \in Processes : Unmoved(proc'[p])
  PROVE  Halted'
<1>1. \A i \in Intents : phase'[i] = "none"
  BY NoneRequested DEF IInv
<1> QED  BY <1>1 DEF Halted, Unmoved

LEMMA HaltedWrite ==
  ASSUME IInv, IInv', Halted, NEW p \in Processes, NEW x \in Row, Amend(p, x), Unmoved(x)
  PROVE  Halted'
<1> DEFINE y == [x EXCEPT !.revision = x.revision + 1]
<1>1. y.status = x.status /\ y.step = x.step /\ y.intent = x.intent
  BY DEF Row
<1>2. proc' = [proc EXCEPT ![p] = y]
  BY DEF Amend
<1> HIDE DEF y
<1>3. proc'[p] = y /\ \A q \in Processes \ {p} : proc'[q] = proc[q]
  BY <1>2 DEF IInv, TypeInv
<1>4. \A q \in Processes : Unmoved(proc'[q])
  BY <1>1, <1>3 DEF Halted, Unmoved
<1> QED  BY <1>4, HaltedRows

\* With nothing done there is nothing to undo.
LEMMA NothingToUndo ==
  ASSUME IInv, Halted, NEW p \in Processes
  PROVE  Undoing(p) = <<>>
<1>1. proc[p].results = <<>>
  <2>1. proc[p].results = Counting(proc[p].step - 1) /\ proc[p].step - 1 = 0
    BY DEF IInv, Placed, Counting, Halted, Unmoved
  <2> QED  BY <2>1, AbsentRow
<1>2. Undone(p) = {}
  BY <1>1 DEF Undone, DoneSteps, Halted, Unmoved
<1>3. Cardinality(Undone(p)) = 0
  BY <1>2, FS_EmptySet
<1>4. 1 .. Cardinality(Undone(p)) = {}
  BY <1>3
<1> QED  BY <1>4 DEF Undoing, Undone

LEMMA HaltedStep ==
  ASSUME ResumedInWorld = "no", IInv, IInv', Halted, [Next]_vars
  PROVE  Halted'
<1>1. ASSUME proc' = proc PROVE Halted'
  BY <1>1, HaltedRows DEF Halted, Unmoved
<1>2. ASSUME NEW p \in Processes, NEW status \in {"BLOCKED", "CANCELLED"}, Become(p, status)
      PROVE  Halted'
  BY <1>2, BecomeRow, HaltedWrite, StatusSets DEF Halted, Unmoved
<1>3. ASSUME NEW p \in Processes, NEW plan \in Seq(Step), NEW parent \in Processes \cup {Nobody},
             Start(p, plan, parent)
      PROVE  Halted'
  <2> DEFINE x == [Absent EXCEPT !.status = "RUNNING", !.plan = plan, !.compensates = parent]
  <2>1. x.status = "RUNNING" /\ x.step = 1 /\ x.intent = "none"
    BY DEF Absent
  <2>2. proc' = [proc EXCEPT ![p] = x]
    BY <1>3 DEF Start
  <2> HIDE DEF x
  <2>3. \A q \in Processes : proc'[q] = x \/ proc'[q] = proc[q]
    BY <2>2 DEF IInv, TypeInv
  <2> QED  BY <2>1, <2>3, HaltedRows DEF Halted, Unmoved
<1>4. ASSUME NEW p \in Processes, Create(p) PROVE Halted'
  BY <1>3, <1>4, PlanTyped DEF Create
<1>5. ASSUME NEW p \in Processes, WakeUp(p) PROVE Halted'
  <2> DEFINE x == [proc[p] EXCEPT !.wake = "due"]
  <2>1. x.status = proc[p].status /\ x.step = proc[p].step /\ x.intent = proc[p].intent
    BY RowTyped DEF Row
  <2>2. proc' = [proc EXCEPT ![p] = x]
    BY <1>5 DEF WakeUp, IInv, TypeInv
  <2> HIDE DEF x
  <2>3. proc'[p] = x /\ \A q \in Processes \ {p} : proc'[q] = proc[q]
    BY <2>2 DEF IInv, TypeInv
  <2>4. \A q \in Processes : Unmoved(proc'[q])
    BY <2>1, <2>3 DEF Halted, Unmoved
  <2> QED  BY <2>4, HaltedRows
<1>6. ASSUME NEW p \in Processes, Approve(p) \/ Reject(p) \/ RetryRead(p) \/ RetryWrite(p)
      PROVE  Halted'
  <2>1. proc[p].status # "WAITING_HUMAN" /\ proc[p].intent # "set"
    BY DEF Halted, Unmoved
  <2>2. deciding[p] # "retry"
    BY <2>1 DEF IInv, Locking
  <2> QED  BY <1>6, <2>1, <2>2 DEF Approve, Reject, RetryRead, RetryWrite
<1>7. ASSUME NEW p \in Processes, Retry(p) PROVE Halted'
  <2> DEFINE x == [proc[p] EXCEPT !.wake = "armed", !.status = "RUNNING"]
  <2>1. x \in Row /\ x.status = "RUNNING" /\ x.step = proc[p].step /\ x.intent = proc[p].intent
    BY RowTyped, StatusSets DEF Row
  <2>2. proc[p].intent # "set"
    BY DEF Halted, Unmoved
  <2>3. Amend(p, x)
    BY <1>7, <2>2 DEF Retry, Resume
  <2> HIDE DEF x
  <2> QED  BY <2>1, <2>3, HaltedWrite DEF Halted, Unmoved
<1>8. ASSUME NEW p \in Processes, Adopt(p) PROVE Halted'
  BY <1>8, RowTyped, HaltedWrite DEF Adopt, Halted
<1>9. ASSUME NEW p \in Processes, CancelWrite(p) PROVE Halted'
  <2>1. Mark(p, "CANCELLED", "none")
    BY <1>9 DEF CancelWrite, Mark
  <2> QED  BY <2>1, MarkRow, HaltedWrite, StatusSets DEF Halted, Unmoved
<1>10. ASSUME NEW p \in Processes, NEW child \in Compensations, Compensate(p, child)
       PROVE  Halted'
  BY <1>10, NothingToUndo DEF Compensate
<1>11. ASSUME NEW w \in Workers, Block(w) PROVE Halted'
  <2>1. CASE tick[w].process \in Processes
    BY <1>1, <1>2, <1>11, <2>1 DEF Block
  <2>2. CASE tick[w].process \notin Processes
    <3>1. proc' = proc
      BY <1>11, <2>2 DEF Block, Become, Amend, IInv, TypeInv
    <3> QED  BY <1>1, <3>1
  <2> QED  BY <2>1, <2>2
<1>12. ASSUME \/ UNCHANGED vars \/ OperationMoves
              \/ \E p \in Processes : Look(p) \/ CancelRead(p)
              \/ \E w \in Workers :
                   \/ Enter(w) \/ Refuse(w) \/ Interrupt(w)
                   \/ \E p \in Processes : Pick(w, p)
       PROVE  Halted'
  BY <1>1, <1>12
     DEF vars, OperationMoves, Look, CancelRead, Enter, Refuse, Interrupt, Pick
<1>13. \A w \in Workers : ~Advance(w)
  BY DEF Advance
<1> QED
  BY <1>4, <1>5, <1>6, <1>7, <1>8, <1>9, <1>10, <1>11, <1>12, <1>13 DEF Next, Decide

\* As the code of this commit resumes a principal, no process of whatever plan ever does a
\* step, asks a person or requests an operation, and none is ever compensated or
\* completed: what the run `gate` shows of one process holds of all.
THEOREM NothingRunsWithoutWorld ==
  ASSUME ResumedInWorld = "no"
  PROVE  Spec => []Halted
<1>1. Init => Halted
  <2> SUFFICES ASSUME Init PROVE Halted
    OBVIOUS
  <2>1. \A p \in Processes : proc[p] = Absent
    BY DEF Init
  <2>2. \A p \in Processes : Unmoved(proc[p])
    BY <2>1 DEF Absent, Unmoved
  <2>3. IInv
    BY InitIInv
  <2>4. \A i \in Intents : phase[i] = "none"
    BY <2>2, <2>3, NoneRequested DEF IInv
  <2> QED  BY <2>2, <2>4 DEF Halted
<1>2. IInv /\ IInv' /\ Halted /\ [Next]_vars => Halted'
  BY HaltedStep
<1> QED  BY <1>1, <1>2, Invariance, PTL DEF Spec, Safety
=============================================================================
