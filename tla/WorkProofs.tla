----------------------------- MODULE WorkProofs -----------------------------
(***************************************************************************)
(* Tasks, Cases and the worker loop keep their invariants, for all sets of *)
(* tasks, cases and concurrent requests; and, in the last sections, so do  *)
(* the rows of Domains, which share no state with them but the discipline: *)
(* locks taken by name, revisions compared when a row is written.          *)
(***************************************************************************)
EXTENDS WorkerLoop, Domains, TLAPS

-----------------------------------------------------------------------------
(* The inductive invariant.                                                 *)

TaskOps == {"status", "amend", "linking", "link"}
CaseOps == {"case_status", "case_patch"}

Txn == [op : {"none", "create"} \cup TaskOps \cup CaseOps,
        on : TaskIds \cup CaseIds \cup {Nothing},
        to : TaskStatus \cup CaseStatus \cup CaseIds \cup {Nothing},
        asked : Nat, seen : Task \cup Case \cup {Nothing}, locks : CaseIds \cup {Nothing}]

\* A row a request has read: the row has the same revision only if it is the same, and
\* the revision asked for is at most so far ahead of what was read.
ReadOf(x, row) ==
  /\ x.seen.revision <= row.revision
  /\ x.seen.revision = row.revision => x.seen = row
  /\ x.asked <= x.seen.revision + Ahead

\* What a request on a task, on a case, or for a new task has read and judged.
JudgedTask(x, ts) ==
  x.op \in TaskOps =>
    /\ x.on \in TaskIds /\ ts[x.on] # Nothing /\ x.seen \in Task
    /\ ReadOf(x, ts[x.on])
    /\ IF x.op = "status" THEN x.to \in TaskMoves[x.seen.status]
                          ELSE x.seen.status \notin TerminalTask

JudgedCase(x, cs) ==
  x.op \in CaseOps =>
    /\ x.on \in CaseIds /\ x.seen \in Case
    /\ ReadOf(x, cs[x.on])
    /\ x.seen.status # "archived"
    /\ x.op = "case_status" => x.to \in CaseStatus /\ x.locks = x.on

Fresh(x, ts) == x.op = "create" => x.on \in TaskIds /\ ts[x.on] = Nothing

\* A new parent is locked and not archived.
Parented(x, cs) ==
  /\ x.op = "linking" => x.to \in CaseIds
  /\ x.op \in {"create", "link"} =>
       x.to = x.locks /\ (x.to # Nothing => cs[x.to].status # "archived")

Judged(x, ts, cs) ==
  JudgedTask(x, ts) /\ JudgedCase(x, cs) /\ Fresh(x, ts) /\ Parented(x, cs)

\* Two requests neither create the same task nor hold the lock of the same case.
Apart(x, y) ==
  /\ x.op = "create" /\ y.op = "create" => x.on # y.on
  /\ x.locks # Nothing => x.locks # y.locks

Sheltering ==
  \A t \in sheltered :
    tasks[t] # Nothing /\ (tasks[t].case \in RestrictedCases \/ tasks[t].restricted = "yes")

TypeInv ==
  /\ tasks \in [TaskIds -> Task \cup {Nothing}]
  /\ cases \in [CaseIds -> Case]
  /\ txn \in [Requests -> Txn]
  /\ sheltered \subseteq TaskIds
  /\ made \in 0 .. MaxRequests

IInv ==
  /\ TypeInv
  /\ \A q \in Requests : Judged(txn[q], tasks, cases)
  /\ \A q, r \in Requests : q # r => Apart(txn[q], txn[r])

-----------------------------------------------------------------------------
(* Facts about the tables of moves and about rows.                          *)

LEMMA Moves ==
  /\ TaskStatus = {"PENDING", "IN_PROGRESS", "ON_HOLD", "ESCALATED", "COMPLETED", "FAILED",
                   "CANCELLED"}
  /\ TerminalTask = {"COMPLETED", "FAILED", "CANCELLED"}
  /\ \A s \in TaskStatus : TaskMoves[s] \subseteq TaskStatus
  /\ \A s \in TerminalTask : TaskMoves[s] = {}
  /\ CaseStatus = {"open", "in_progress", "resolved", "archived"}
  /\ \A s \in CaseStatus : CaseMoves[s] \subseteq CaseStatus
  /\ CaseMoves["archived"] = {}
<1>1. /\ TaskStatus = {"PENDING", "IN_PROGRESS", "ON_HOLD", "ESCALATED", "COMPLETED", "FAILED",
                       "CANCELLED"}
      /\ CaseStatus = {"open", "in_progress", "resolved", "archived"}
  BY DEF TaskStatus, CaseStatus, TaskMoves, CaseMoves
<1>2. /\ TaskMoves["PENDING"] = {"IN_PROGRESS", "CANCELLED"}
      /\ TaskMoves["IN_PROGRESS"] = {"ON_HOLD", "COMPLETED", "FAILED", "ESCALATED"}
      /\ TaskMoves["ON_HOLD"] = {"IN_PROGRESS", "CANCELLED"}
      /\ TaskMoves["ESCALATED"] = {"IN_PROGRESS", "COMPLETED", "FAILED"}
      /\ TaskMoves["COMPLETED"] = {} /\ TaskMoves["FAILED"] = {} /\ TaskMoves["CANCELLED"] = {}
  BY DEF TaskMoves
<1>3. /\ CaseMoves["open"] = {"in_progress", "resolved", "archived"}
      /\ CaseMoves["in_progress"] = {"resolved", "archived"}
      /\ CaseMoves["resolved"] = {"in_progress", "archived"}
      /\ CaseMoves["archived"] = {}
  BY DEF CaseMoves
<1>4. TerminalTask = {"COMPLETED", "FAILED", "CANCELLED"}
  <2>1. \A s \in TaskStatus : TaskMoves[s] = {} <=> s \in {"COMPLETED", "FAILED", "CANCELLED"}
    BY <1>1, <1>2
  <2> QED  BY <1>1, <2>1 DEF TerminalTask
<1>5. \A s \in TaskStatus : TaskMoves[s] \subseteq TaskStatus
  BY <1>1, <1>2
<1>6. \A s \in CaseStatus : CaseMoves[s] \subseteq CaseStatus
  BY <1>1, <1>3
<1> QED  BY <1>1, <1>2, <1>3, <1>4, <1>5, <1>6

LEMMA IdleIsTxn == Idle \in Txn /\ Idle.op = "none" /\ Idle.locks = Nothing
BY DEF Idle, Txn

LEMMA IdleJudged == \A ts, cs : Judged(Idle, ts, cs)
BY IdleIsTxn DEF Judged, JudgedTask, JudgedCase, Fresh, Parented, TaskOps, CaseOps

LEMMA IdleApart == \A x \in Txn : Apart(x, Idle) /\ Apart(Idle, x)
BY IdleIsTxn DEF Apart, Txn

LEMMA MovedRow ==
  ASSUME NEW row \in Task, NEW to \in TaskStatus
  PROVE  /\ Moved(row, to) \in Task /\ Moved(row, to).status = to
         /\ Moved(row, to).revision = row.revision /\ Moved(row, to).case = row.case
         /\ Moved(row, to).restricted = row.restricted
<1> DEFINE level == IF to = "ESCALATED" THEN row.level + 1 ELSE row.level
<1>1. level \in Nat
  BY DEF Task
<1>2. Moved(row, to) = [row EXCEPT !.status = to, !.level = level]
  BY DEF Moved, Task
<1> HIDE DEF level
<1> QED  BY <1>1, <1>2 DEF Task

\* Rows only move forward: what changes gets a higher revision, and stays.
TasksForward(ts, us) ==
  \A t \in TaskIds : ts[t] # Nothing =>
    us[t] \in Task /\ (us[t] = ts[t] \/ us[t].revision > ts[t].revision)

CasesForward(cs, ds) ==
  \A c \in CaseIds : ds[c] = cs[c] \/ ds[c].revision > cs[c].revision

\* What was judged stays judged while rows move forward, if the task is not created and
\* the case not archived by others.
LEMMA JudgedStays ==
  ASSUME NEW ts \in [TaskIds -> Task \cup {Nothing}], NEW us \in [TaskIds -> Task \cup {Nothing}],
         NEW cs \in [CaseIds -> Case], NEW ds \in [CaseIds -> Case], NEW x \in Txn,
         TasksForward(ts, us), CasesForward(cs, ds), Judged(x, ts, cs),
         x.op = "create" => us[x.on] = ts[x.on],
         x.locks # Nothing => ds[x.locks].status = cs[x.locks].status
  PROVE  Judged(x, us, ds)
<1>1. JudgedTask(x, us)
  <2> SUFFICES ASSUME x.op \in TaskOps PROVE JudgedTask(x, us)
    BY DEF JudgedTask
  <2>1. x.on \in TaskIds /\ ts[x.on] \in Task /\ x.seen \in Task /\ ReadOf(x, ts[x.on])
    BY DEF Judged, JudgedTask
  <2>2. us[x.on] \in Task /\ (us[x.on] = ts[x.on] \/ us[x.on].revision > ts[x.on].revision)
    BY <2>1, WorkAssumption DEF TasksForward, WorkAssumption
  <2>3. ReadOf(x, us[x.on])
    BY <2>1, <2>2 DEF ReadOf, Task
  <2> QED  BY <2>1, <2>2, <2>3, WorkAssumption DEF Judged, JudgedTask, WorkAssumption
<1>2. JudgedCase(x, ds)
  <2> SUFFICES ASSUME x.op \in CaseOps PROVE JudgedCase(x, ds)
    BY DEF JudgedCase
  <2>1. x.on \in CaseIds /\ x.seen \in Case /\ ReadOf(x, cs[x.on])
    BY DEF Judged, JudgedCase
  <2>2. cs[x.on] \in Case /\ ds[x.on] \in Case
        /\ (ds[x.on] = cs[x.on] \/ ds[x.on].revision > cs[x.on].revision)
    BY <2>1 DEF CasesForward
  <2>3. ReadOf(x, ds[x.on])
    BY <2>1, <2>2 DEF ReadOf, Case
  <2> QED  BY <2>1, <2>3 DEF Judged, JudgedCase
<1>3. Fresh(x, us) /\ Parented(x, ds)
  BY DEF Judged, Fresh, Parented
<1> QED  BY <1>1, <1>2, <1>3 DEF Judged

-----------------------------------------------------------------------------
(* The steps of a request.                                                  *)

LEMMA InitIInv == Init => IInv
<1> SUFFICES ASSUME Init PROVE IInv
  OBVIOUS
<1>1. /\ tasks = [t \in TaskIds |-> Nothing]
      /\ cases = [c \in CaseIds |-> [status |-> "open", revision |-> 0]]
      /\ txn = [q \in Requests |-> Idle] /\ sheltered = {} /\ made = 0
  BY DEF Init, WorkInit
<1>2. [status |-> "open", revision |-> 0] \in Case
  BY Moves DEF Case
<1>3. TypeInv
  BY <1>1, <1>2, IdleIsTxn, WorkAssumption DEF TypeInv, WorkAssumption
<1> QED  BY <1>1, <1>3, IdleIsTxn, IdleJudged, IdleApart DEF IInv

\* A request begins with what it has just read and judged.
LEMMA BeginKeeps ==
  ASSUME IInv, NEW q \in Requests, NEW x \in Txn, Begin(q, x), Judged(x, tasks, cases),
         \A r \in Requests \ {q} : Apart(x, txn[r]) /\ Apart(txn[r], x)
  PROVE  IInv'
<1>1. /\ txn' = [txn EXCEPT ![q] = x] /\ UNCHANGED <<tasks, cases, sheltered>>
      /\ made < MaxRequests /\ made' = made + 1
  BY DEF Begin
<1>2. TypeInv'
  BY <1>1, WorkAssumption DEF IInv, TypeInv, WorkAssumption
<1>3. txn'[q] = x /\ \A r \in Requests \ {q} : txn'[r] = txn[r]
  BY <1>1 DEF IInv, TypeInv
<1>4. \A r \in Requests : Judged(txn'[r], tasks', cases')
  BY <1>1, <1>3 DEF IInv
<1>5. \A r, p \in Requests : r # p => Apart(txn'[r], txn'[p])
  BY <1>3 DEF IInv
<1> QED  BY <1>2, <1>4, <1>5 DEF IInv

\* A request ends, and leaves rows that have moved forward.
LEMMA EndKeeps ==
  ASSUME IInv, NEW q \in Requests, End(q), made' = made, sheltered' \subseteq TaskIds,
         tasks' \in [TaskIds -> Task \cup {Nothing}], cases' \in [CaseIds -> Case],
         TasksForward(tasks, tasks'), CasesForward(cases, cases'),
         \A r \in Requests \ {q} :
           /\ txn[r].op = "create" => tasks'[txn[r].on] = tasks[txn[r].on]
           /\ txn[r].locks # Nothing => cases'[txn[r].locks].status = cases[txn[r].locks].status
  PROVE  IInv'
<1>1. txn' = [txn EXCEPT ![q] = Idle]
  BY DEF End
<1>2. TypeInv'
  BY <1>1, IdleIsTxn DEF IInv, TypeInv
<1>3. txn'[q] = Idle /\ \A r \in Requests \ {q} : txn'[r] = txn[r]
  BY <1>1 DEF IInv, TypeInv
<1>4. ASSUME NEW r \in Requests PROVE Judged(txn'[r], tasks', cases')
  <2>1. CASE r = q
    BY <1>3, <2>1, IdleJudged
  <2>2. CASE r # q
    <3>1. txn[r] \in Txn /\ Judged(txn[r], tasks, cases)
      BY DEF IInv, TypeInv
    <3>2. Judged(txn[r], tasks', cases')
      BY <2>2, <3>1, JudgedStays DEF IInv, TypeInv
    <3> QED  BY <1>3, <2>2, <3>2
  <2> QED  BY <2>1, <2>2
<1>5. \A r, p \in Requests : r # p => Apart(txn'[r], txn'[p])
  BY <1>3, IdleApart DEF IInv, TypeInv
<1> QED  BY <1>2, <1>4, <1>5 DEF IInv

\* The conditional update of a task, with a row made from the one it finds.
LEMMA WriteTaskKeeps ==
  ASSUME IInv, NEW q \in Requests, txn[q].op \in TaskOps, NEW row \in Task,
         row.revision = tasks[txn[q].on].revision, WriteTask(q, row)
  PROVE  IInv'
<1> DEFINE t == txn[q].on
           new == [row EXCEPT !.revision = @ + 1]
<1>1. t \in TaskIds /\ tasks[t] \in Task
  BY WorkAssumption DEF IInv, Judged, JudgedTask, TypeInv, WorkAssumption
<1>2. new \in Task /\ new.revision = row.revision + 1
  BY DEF Task
<1>3. /\ tasks' = [tasks EXCEPT ![t] = new] \/ tasks' = tasks
      /\ cases' = cases /\ made' = made /\ End(q)
      /\ sheltered' = sheltered \cup {s \in TaskIds : tasks'[s] # Nothing
                                                        /\ tasks'[s].case \in RestrictedCases}
  BY DEF WriteTask
<1>4. /\ tasks' \in [TaskIds -> Task \cup {Nothing}]
      /\ \A s \in TaskIds : tasks'[s] = tasks[s] \/ (s = t /\ tasks'[s] = new)
  BY <1>1, <1>2, <1>3 DEF IInv, TypeInv
<1>5. new.revision > tasks[t].revision
  BY <1>1, <1>2 DEF Task
<1>6. TasksForward(tasks, tasks')
  BY <1>2, <1>4, <1>5, WorkAssumption DEF TasksForward, IInv, TypeInv, WorkAssumption
<1>7. CasesForward(cases, cases') /\ cases' \in [CaseIds -> Case]
  BY <1>3 DEF CasesForward, IInv, TypeInv
<1>8. \A r \in Requests : txn[r].op = "create" => tasks'[txn[r].on] = tasks[txn[r].on]
  BY <1>1, <1>4, WorkAssumption DEF IInv, Judged, Fresh, WorkAssumption
<1> HIDE DEF t, new
<1> QED  BY <1>3, <1>4, <1>6, <1>7, <1>8, EndKeeps DEF IInv, TypeInv

LEMMA WriteCaseKeeps ==
  ASSUME IInv, NEW q \in Requests, txn[q].op \in CaseOps, NEW row \in Case,
         row.revision = cases[txn[q].on].revision, WriteCase(q, row),
         row.status = cases[txn[q].on].status \/ txn[q].locks = txn[q].on
  PROVE  IInv'
<1> DEFINE c == txn[q].on
           new == [row EXCEPT !.revision = @ + 1]
<1>1. c \in CaseIds /\ cases[c] \in Case
  BY DEF IInv, Judged, JudgedCase, TypeInv
<1>2. new \in Case /\ new.revision = row.revision + 1 /\ new.status = row.status
  BY DEF Case
<1>3. /\ cases' = [cases EXCEPT ![c] = new] \/ cases' = cases
      /\ tasks' = tasks /\ sheltered' = sheltered /\ made' = made /\ End(q)
  BY DEF WriteCase
<1>4. /\ cases' \in [CaseIds -> Case]
      /\ \A d \in CaseIds : cases'[d] = cases[d] \/ (d = c /\ cases'[d] = new)
  BY <1>1, <1>2, <1>3 DEF IInv, TypeInv
<1>5. new.revision > cases[c].revision
  BY <1>1, <1>2 DEF Case
<1>6. CasesForward(cases, cases')
  BY <1>4, <1>5 DEF CasesForward
<1>7. TasksForward(tasks, tasks')
  BY <1>3, WorkAssumption DEF TasksForward, IInv, TypeInv, WorkAssumption
<1>8. ASSUME NEW r \in Requests \ {q}, txn[r].locks # Nothing
      PROVE  cases'[txn[r].locks].status = cases[txn[r].locks].status
  <2>1. Apart(txn[q], txn[r]) /\ txn[r] \in Txn
    BY DEF IInv, TypeInv
  <2>2. CASE row.status = cases[c].status
    <3>1. txn[r].locks \in CaseIds
      BY <2>1, <1>8 DEF Txn
    <3> QED  BY <1>2, <1>4, <2>2, <3>1
  <2>3. CASE txn[q].locks = c
    <3>1. txn[r].locks # c
      BY <2>1, <2>3, <1>1, WorkAssumption DEF Apart, WorkAssumption
    <3>2. txn[r].locks \in CaseIds
      BY <2>1, <1>8 DEF Txn
    <3> QED  BY <1>4, <3>1, <3>2
  <2> QED  BY <2>2, <2>3
<1> HIDE DEF c, new
<1> QED  BY <1>3, <1>4, <1>6, <1>7, <1>8, EndKeeps DEF IInv, TypeInv

LEMMA CreateWriteKeeps ==
  ASSUME IInv, NEW q \in Requests, CreateWrite(q)
  PROVE  IInv'
<1> DEFINE t == txn[q].on
<1>1. txn[q].op = "create" /\ t \in TaskIds /\ tasks[t] = Nothing /\ txn[q] \in Txn
      /\ txn[q].to \in CaseIds \cup {Nothing}
  BY DEF CreateWrite, IInv, TypeInv, Judged, Fresh, Parented, Txn
<1>2. PICK restricted \in {"yes", "no"} :
        tasks' = [tasks EXCEPT ![t] = [status |-> "PENDING", revision |-> 0, case |-> txn[q].to,
                                       restricted |-> restricted, level |-> 0]]
  BY DEF CreateWrite
<1>3. [status |-> "PENDING", revision |-> 0, case |-> txn[q].to,
       restricted |-> restricted, level |-> 0] \in Task
  BY <1>1, Moves DEF Task
<1>4. /\ cases' = cases /\ made' = made /\ End(q)
      /\ sheltered' \subseteq TaskIds
  BY <1>1 DEF CreateWrite, IInv, TypeInv
<1>5. /\ tasks' \in [TaskIds -> Task \cup {Nothing}]
      /\ \A s \in TaskIds \ {t} : tasks'[s] = tasks[s]
  BY <1>1, <1>2, <1>3 DEF IInv, TypeInv
<1>6. TasksForward(tasks, tasks')
  BY <1>1, <1>5 DEF TasksForward, IInv, TypeInv
<1>7. CasesForward(cases, cases') /\ cases' \in [CaseIds -> Case]
  BY <1>4 DEF CasesForward, IInv, TypeInv
<1>8. ASSUME NEW r \in Requests \ {q}, txn[r].op = "create"
      PROVE  tasks'[txn[r].on] = tasks[txn[r].on]
  <2>1. Apart(txn[q], txn[r]) /\ txn[r].on \in TaskIds
    BY <1>8 DEF IInv, Judged, Fresh
  <2> QED  BY <1>1, <1>5, <1>8, <2>1 DEF Apart
<1>9. \A r \in Requests : cases'[txn[r].locks].status = cases[txn[r].locks].status
  BY <1>4
<1> HIDE DEF t
<1> QED  BY <1>4, <1>5, <1>6, <1>7, <1>8, <1>9, EndKeeps

\* A request reads its new parent again under the lock, or ends.
LEMMA LinkLockKeeps ==
  ASSUME IInv, NEW q \in Requests, LinkLock(q)
  PROVE  IInv'
<1> DEFINE c == txn[q].to
<1>1. /\ txn[q] \in Txn /\ c \in CaseIds /\ txn[q].op = "linking"
      /\ Judged(txn[q], tasks, cases)
  BY DEF LinkLock, IInv, TypeInv, Judged, Parented
<1>2. /\ \A r \in Requests : txn[r].locks # c
      /\ UNCHANGED <<tasks, cases, sheltered, made>>
  BY DEF LinkLock, LockFree
<1>3. CASE cases[c].status = "archived"
  <2>1. End(q)
    BY <1>3 DEF LinkLock
  <2>2. TasksForward(tasks, tasks') /\ CasesForward(cases, cases')
    BY <1>2, WorkAssumption DEF TasksForward, CasesForward, IInv, TypeInv, WorkAssumption
  <2> QED  BY <1>2, <2>1, <2>2, EndKeeps DEF IInv, TypeInv
<1>4. CASE cases[c].status # "archived"
  <2> DEFINE x == [txn[q] EXCEPT !.op = "link", !.locks = c]
  <2>1. txn' = [txn EXCEPT ![q] = x]
    BY <1>4 DEF LinkLock, IInv, TypeInv
  <2>2. /\ x \in Txn /\ x.op = "link" /\ x.locks = c /\ x.on = txn[q].on /\ x.to = c
        /\ x.seen = txn[q].seen /\ x.asked = txn[q].asked
    BY <1>1 DEF Txn, TaskOps
  <2> HIDE DEF x
  <2>3. Judged(x, tasks, cases)
    BY <1>1, <1>4, <2>2
       DEF Judged, JudgedTask, JudgedCase, Fresh, Parented, ReadOf, TaskOps, CaseOps
  <2>4. txn'[q] = x /\ \A r \in Requests \ {q} : txn'[r] = txn[r]
    BY <2>1 DEF IInv, TypeInv
  <2>5. TypeInv'
    BY <1>2, <2>1, <2>2 DEF IInv, TypeInv
  <2>6. \A r \in Requests : Judged(txn'[r], tasks', cases')
    BY <1>2, <2>3, <2>4 DEF IInv
  <2>7. \A r \in Requests \ {q} : Apart(x, txn[r]) /\ Apart(txn[r], x)
    BY <1>2, <2>2 DEF Apart
  <2>8. \A r, p \in Requests : r # p => Apart(txn'[r], txn'[p])
    BY <2>4, <2>7 DEF IInv
  <2> QED  BY <2>5, <2>6, <2>8 DEF IInv
<1> QED  BY <1>3, <1>4

LEMMA AbortKeeps ==
  ASSUME IInv, NEW q \in Requests, Abort(q)
  PROVE  IInv'
<1>1. End(q) /\ UNCHANGED <<tasks, cases, sheltered, made>>
  BY DEF Abort
<1>2. TasksForward(tasks, tasks') /\ CasesForward(cases, cases')
  BY <1>1, WorkAssumption DEF TasksForward, CasesForward, IInv, TypeInv, WorkAssumption
<1> QED  BY <1>1, <1>2, EndKeeps DEF IInv, TypeInv

\* Escalated tasks get a higher revision too.
LEMMA EscalateKeeps ==
  ASSUME IInv, NEW overdue \in SUBSET {t \in TaskIds : Exists(t)}, EscalateAll(overdue)
  PROVE  /\ IInv' /\ TasksForward(tasks, tasks') /\ UNCHANGED <<cases, txn, sheltered>>
         /\ \A t \in TaskIds \ overdue : tasks'[t] = tasks[t]
         /\ \A t \in overdue : /\ tasks'[t].case = tasks[t].case
                               /\ tasks'[t].restricted = tasks[t].restricted
                               /\ tasks'[t] \in Task
<1>1. /\ tasks' = [t \in TaskIds |->
                     IF t \in overdue
                       THEN [Moved(tasks[t], "ESCALATED") EXCEPT !.revision = @ + 1] ELSE tasks[t]]
      /\ UNCHANGED <<cases, txn, sheltered, made>>
  BY DEF EscalateAll
<1>2. ASSUME NEW t \in overdue
      PROVE  /\ tasks'[t] \in Task /\ tasks'[t].revision = tasks[t].revision + 1
             /\ tasks'[t].case = tasks[t].case /\ tasks'[t].restricted = tasks[t].restricted
             /\ tasks[t] \in Task
  <2>1. tasks[t] \in Task /\ t \in TaskIds
    BY DEF Exists, IInv, TypeInv
  <2> DEFINE moved == Moved(tasks[t], "ESCALATED")
  <2>2. /\ moved \in Task /\ moved.revision = tasks[t].revision
        /\ moved.case = tasks[t].case /\ moved.restricted = tasks[t].restricted
    BY <2>1, MovedRow, Moves
  <2>3. tasks'[t] = [moved EXCEPT !.revision = @ + 1]
    BY <1>1, <2>1
  <2> HIDE DEF moved
  <2> QED  BY <2>1, <2>2, <2>3 DEF Task
<1>3. \A t \in TaskIds \ overdue : tasks'[t] = tasks[t]
  BY <1>1
<1>4. tasks' \in [TaskIds -> Task \cup {Nothing}]
  <2>1. \A t \in TaskIds : tasks'[t] \in Task \cup {Nothing}
    BY <1>2, <1>3 DEF IInv, TypeInv
  <2> QED  BY <1>1, <2>1
<1>5. TasksForward(tasks, tasks')
  <2>1. ASSUME NEW t \in TaskIds, tasks[t] # Nothing
        PROVE  tasks'[t] \in Task /\ (tasks'[t] = tasks[t] \/ tasks'[t].revision > tasks[t].revision)
    <3>1. CASE t \in overdue
      BY <1>2, <3>1 DEF Task
    <3>2. CASE t \notin overdue
      BY <1>3, <2>1, <3>2 DEF IInv, TypeInv
    <3> QED  BY <3>1, <3>2
  <2> QED  BY <2>1 DEF TasksForward
<1>6. CasesForward(cases, cases')
  BY <1>1 DEF CasesForward
<1>7. \A q \in Requests : txn[q].op = "create" => tasks'[txn[q].on] = tasks[txn[q].on]
  BY <1>3 DEF Exists, IInv, Judged, Fresh
<1>8. \A q \in Requests : Judged(txn'[q], tasks', cases')
  BY <1>1, <1>4, <1>5, <1>6, <1>7, JudgedStays DEF IInv, TypeInv
<1>9. IInv'
  BY <1>1, <1>4, <1>8 DEF IInv, TypeInv
<1> QED  BY <1>1, <1>2, <1>3, <1>5, <1>9
-----------------------------------------------------------------------------
(* The reads, and the inductive step.                                       *)

LEMMA CreateReadKeeps ==
  ASSUME IInv, NEW q \in Requests, NEW t \in TaskIds, NEW c \in CaseIds \cup {Nothing},
         CreateRead(q, t, c)
  PROVE  IInv'
<1> DEFINE x == [Idle EXCEPT !.op = "create", !.on = t, !.to = c, !.locks = c]
<1>1. /\ x \in Txn /\ x.op = "create" /\ x.on = t /\ x.to = c /\ x.locks = c
  BY DEF Idle, Txn
<1>2. Begin(q, x)
  BY DEF CreateRead
<1> HIDE DEF x
<1>3. Judged(x, tasks, cases)
  BY <1>1 DEF CreateRead, Exists, Judged, JudgedTask, JudgedCase, Fresh, Parented, TaskOps, CaseOps
<1>4. ASSUME NEW r \in Requests \ {q} PROVE Apart(x, txn[r]) /\ Apart(txn[r], x)
  BY <1>1 DEF CreateRead, LockFree, Apart
<1> QED  BY <1>1, <1>2, <1>3, <1>4, BeginKeeps

\* What is read at the moment is read as it is.
LEMMA ReadNow ==
  ASSUME IInv, NEW x \in Txn, NEW row, row.revision \in Nat, x.seen = row,
         x.asked \in Askable(row)
  PROVE  ReadOf(x, row)
BY WorkAssumption DEF Askable, ReadOf, WorkAssumption

LEMMA TaskReadKeeps ==
  ASSUME IInv, NEW q \in Requests, NEW t \in TaskIds, NEW x \in Txn, Begin(q, x), Exists(t),
         x.op \in TaskOps, x.on = t, x.seen = tasks[t], x.asked \in Askable(tasks[t]),
         x.locks = Nothing, x.op = "linking" => x.to \in CaseIds, x.op = "link" => x.to = Nothing,
         IF x.op = "status" THEN x.to \in TaskMoves[tasks[t].status]
                            ELSE tasks[t].status \notin TerminalTask
  PROVE  IInv'
<1>1. tasks[t] \in Task
  BY DEF Exists, IInv, TypeInv
<1>2. ReadOf(x, tasks[t])
  BY <1>1, ReadNow DEF Task
<1>3. Judged(x, tasks, cases)
  BY <1>1, <1>2 DEF Exists, Judged, JudgedTask, JudgedCase, Fresh, Parented, TaskOps, CaseOps
<1>4. \A r \in Requests \ {q} : Apart(x, txn[r]) /\ Apart(txn[r], x)
  BY DEF Apart, TaskOps
<1> QED  BY <1>3, <1>4, BeginKeeps

LEMMA CaseReadKeeps ==
  ASSUME IInv, NEW q \in Requests, NEW c \in CaseIds, NEW x \in Txn, Begin(q, x),
         x.op \in CaseOps, x.on = c, x.seen = cases[c], x.asked \in Askable(cases[c]),
         cases[c].status # "archived",
         \/ x.op = "case_status" /\ x.locks = c /\ x.to \in CaseStatus /\ LockFree(c)
         \/ x.op = "case_patch" /\ x.locks = Nothing
  PROVE  IInv'
<1>1. cases[c] \in Case
  BY DEF IInv, TypeInv
<1>2. ReadOf(x, cases[c])
  BY <1>1, ReadNow DEF Case
<1>3. Judged(x, tasks, cases)
  BY <1>1, <1>2 DEF Judged, JudgedTask, JudgedCase, Fresh, Parented, TaskOps, CaseOps
<1>4. \A r \in Requests \ {q} : Apart(x, txn[r]) /\ Apart(txn[r], x)
  BY WorkAssumption DEF Apart, CaseOps, LockFree, WorkAssumption
<1> QED  BY <1>3, <1>4, BeginKeeps

\* A transaction is made from the idle one field by field.
LEMMA TxnFields ==
  ASSUME NEW op \in {"none", "create"} \cup TaskOps \cup CaseOps,
         NEW on \in TaskIds \cup CaseIds, NEW asked \in 0 .. MaxRequests + Ahead,
         NEW to \in TaskStatus \cup CaseStatus \cup CaseIds \cup {Nothing},
         NEW locks \in CaseIds \cup {Nothing}, NEW seen \in Task \cup Case
  PROVE  /\ [Idle EXCEPT !.op = op, !.on = on, !.to = to, !.asked = asked, !.seen = seen,
                         !.locks = locks] \in Txn
         /\ [Idle EXCEPT !.op = op, !.on = on, !.to = to, !.asked = asked, !.seen = seen] \in Txn
         /\ [Idle EXCEPT !.op = op, !.on = on, !.asked = asked, !.seen = seen] \in Txn
<1>1. asked \in Nat
  BY WorkAssumption DEF WorkAssumption
<1>2. seen \in Task \cup Case \cup {Nothing} /\ on \in TaskIds \cup CaseIds \cup {Nothing}
  OBVIOUS
<1> DEFINE Ops == {"none", "create"} \cup TaskOps \cup CaseOps
           Ons == TaskIds \cup CaseIds \cup {Nothing}
           Tos == TaskStatus \cup CaseStatus \cup CaseIds \cup {Nothing}
           Rows == Task \cup Case \cup {Nothing}
           Locks == CaseIds \cup {Nothing}
<1>3. Txn = [op : Ops, on : Ons, to : Tos, asked : Nat, seen : Rows, locks : Locks]
  BY DEF Txn
<1>4. op \in Ops /\ on \in Ons /\ to \in Tos /\ seen \in Rows /\ locks \in Locks
  BY <1>2
<1> HIDE DEF Ops, Ons, Tos, Rows, Locks
<1> QED  BY <1>1, <1>3, <1>4, IdleIsTxn

LEMMA RowRead ==
  ASSUME IInv
  PROVE  /\ \A t \in TaskIds : Exists(t) => tasks[t] \in Task
         /\ \A c \in CaseIds : cases[c] \in Case
BY DEF IInv, TypeInv, Exists

LEMMA ReadKeeps ==
  ASSUME IInv, NEW q \in Requests, Read(q)
  PROVE  IInv'
<1>1. ASSUME NEW t \in TaskIds, NEW c \in CaseIds \cup {Nothing}, CreateRead(q, t, c)
      PROVE  IInv'
  BY <1>1, CreateReadKeeps
<1>2. ASSUME NEW t \in TaskIds, NEW asked \in 0 .. MaxRequests + Ahead, NEW to \in TaskStatus,
             StatusRead(q, t, to, asked)
      PROVE  IInv'
  <2> DEFINE x == [Idle EXCEPT !.op = "status", !.on = t, !.to = to, !.asked = asked,
                           !.seen = tasks[t]]
  <2>1. /\ x.op = "status" /\ x.on = t /\ x.to = to /\ x.asked = asked
        /\ x.seen = tasks[t] /\ x.locks = Nothing
    BY DEF Idle
  <2>2. Begin(q, x)
    BY <1>2 DEF StatusRead
  <2>3. x \in Txn
    BY <1>2, RowRead, TxnFields DEF StatusRead, TaskOps
  <2> HIDE DEF x
  <2> QED  BY <1>2, <2>1, <2>2, <2>3, TaskReadKeeps DEF StatusRead, TaskOps
<1>3. ASSUME NEW t \in TaskIds, NEW asked \in 0 .. MaxRequests + Ahead, AmendRead(q, t, asked)
      PROVE  IInv'
  <2> DEFINE x == [Idle EXCEPT !.op = "amend", !.on = t, !.asked = asked, !.seen = tasks[t]]
  <2>1. /\ x.op = "amend" /\ x.on = t /\ x.asked = asked
        /\ x.seen = tasks[t] /\ x.locks = Nothing
    BY DEF Idle
  <2>2. Begin(q, x)
    BY <1>3 DEF AmendRead
  <2>3. x \in Txn
    BY <1>3, RowRead, TxnFields DEF AmendRead, TaskOps
  <2> HIDE DEF x
  <2> QED  BY <1>3, <2>1, <2>2, <2>3, TaskReadKeeps DEF AmendRead, TaskOps
<1>4. ASSUME NEW t \in TaskIds, NEW asked \in 0 .. MaxRequests + Ahead,
             NEW c \in CaseIds \cup {Nothing}, LinkRead(q, t, c, asked)
      PROVE  IInv'
  <2> DEFINE x == [Idle EXCEPT !.op = IF c = Nothing THEN "link" ELSE "linking", !.on = t, !.to = c,
                           !.asked = asked, !.seen = tasks[t]]
  <2>1. /\ x.op \in {"link", "linking"} /\ (x.op = "link" <=> c = Nothing) /\ x.on = t
        /\ x.to = c /\ x.asked = asked /\ x.seen = tasks[t] /\ x.locks = Nothing
    BY DEF Idle
  <2>2. Begin(q, x)
    BY <1>4 DEF LinkRead
  <2>3. x \in Txn
    BY <1>4, RowRead, TxnFields, ZenonT(40) DEF LinkRead, TaskOps
  <2> HIDE DEF x
  <2> QED  BY <1>4, <2>1, <2>2, <2>3, TaskReadKeeps DEF LinkRead, TaskOps
<1>5. ASSUME NEW c \in CaseIds, NEW asked \in 0 .. MaxRequests + Ahead, NEW to \in CaseStatus,
             CaseStatusRead(q, c, to, asked)
      PROVE  IInv'
  <2> DEFINE x == [Idle EXCEPT !.op = "case_status", !.on = c, !.to = to, !.asked = asked,
                           !.seen = cases[c], !.locks = c]
  <2>1. /\ x.op = "case_status" /\ x.on = c /\ x.to = to /\ x.asked = asked
        /\ x.seen = cases[c] /\ x.locks = c
    BY DEF Idle
  <2>2. Begin(q, x) /\ LockFree(c) /\ asked \in Askable(cases[c])
    BY <1>5 DEF CaseStatusRead
  <2>3. cases[c].status # "archived"
    BY <1>5, Moves DEF CaseStatusRead
  <2>4. x \in Txn
    BY RowRead, TxnFields DEF CaseOps
  <2> HIDE DEF x
  <2> QED  BY <2>1, <2>2, <2>3, <2>4, CaseReadKeeps DEF CaseOps
<1>6. ASSUME NEW c \in CaseIds, NEW asked \in 0 .. MaxRequests + Ahead, CasePatchRead(q, c, asked)
      PROVE  IInv'
  <2> DEFINE x == [Idle EXCEPT !.op = "case_patch", !.on = c, !.asked = asked, !.seen = cases[c]]
  <2>1. /\ x.op = "case_patch" /\ x.on = c /\ x.asked = asked
        /\ x.seen = cases[c] /\ x.locks = Nothing
    BY DEF Idle
  <2>2. Begin(q, x) /\ cases[c].status # "archived" /\ asked \in Askable(cases[c])
    BY <1>6 DEF CasePatchRead
  <2>3. x \in Txn
    BY RowRead, TxnFields DEF CaseOps
  <2> HIDE DEF x
  <2> QED  BY <2>1, <2>2, <2>3, CaseReadKeeps DEF CaseOps
<1> QED  BY <1>1, <1>2, <1>3, <1>4, <1>5, <1>6 DEF Read

\* The row and the copy a request has of what it works on.
LEMMA HeldTask ==
  ASSUME IInv, NEW q \in Requests, txn[q].op \in TaskOps
  PROVE  /\ txn[q] \in Txn /\ txn[q].on \in TaskIds /\ Exists(txn[q].on)
         /\ tasks[txn[q].on] \in Task
         /\ JudgedTask(txn[q], tasks) /\ ReadOf(txn[q], tasks[txn[q].on]) /\ txn[q].seen \in Task
BY WorkAssumption DEF IInv, TypeInv, Judged, JudgedTask, Exists, WorkAssumption

LEMMA HeldCase ==
  ASSUME IInv, NEW q \in Requests, txn[q].op \in CaseOps
  PROVE  /\ txn[q] \in Txn /\ txn[q].on \in CaseIds /\ cases[txn[q].on] \in Case
         /\ JudgedCase(txn[q], cases) /\ ReadOf(txn[q], cases[txn[q].on]) /\ txn[q].seen \in Case
BY DEF IInv, TypeInv, Judged, JudgedCase

LEMMA ReparentedRow ==
  ASSUME NEW row \in Task, NEW seen \in Task, NEW c \in CaseIds \cup {Nothing}
  PROVE  /\ Reparented(row, seen, c) \in Task /\ Reparented(row, seen, c).case = c
         /\ Reparented(row, seen, c).revision = row.revision
         /\ Reparented(row, seen, c).status = row.status
         /\ Reparented(row, seen, c).restricted =
              (IF seen.case \in RestrictedCases THEN "yes" ELSE seen.restricted)
<1> DEFINE restricted == IF seen.case \in RestrictedCases THEN "yes" ELSE seen.restricted
<1>1. restricted \in {"yes", "no"}
  BY DEF Task
<1>2. Reparented(row, seen, c) = [row EXCEPT !.case = c, !.restricted = restricted]
  BY DEF Reparented
<1> HIDE DEF restricted
<1>3. /\ Reparented(row, seen, c) \in Task /\ Reparented(row, seen, c).case = c
      /\ Reparented(row, seen, c).revision = row.revision
      /\ Reparented(row, seen, c).status = row.status
      /\ Reparented(row, seen, c).restricted = restricted
  BY <1>1, <1>2 DEF Task
<1> QED  BY <1>3 DEF restricted

LEMMA WriteKeeps ==
  ASSUME IInv, NEW q \in Requests, Write(q)
  PROVE  IInv'
<1>1. CASE StatusWrite(q)
  <2>1. txn[q].op = "status" /\ WriteTask(q, Moved(tasks[txn[q].on], txn[q].to))
    BY <1>1 DEF StatusWrite
  <2>2. txn[q].to \in TaskStatus
    BY <2>1, HeldTask, Moves DEF TaskOps, JudgedTask, Task
  <2> QED  BY <2>1, <2>2, HeldTask, MovedRow, WriteTaskKeeps DEF TaskOps
<1>2. CASE AmendWrite(q)
  BY <1>2, HeldTask, WriteTaskKeeps DEF AmendWrite, TaskOps
<1>3. CASE LinkWrite(q)
  <2>1. /\ txn[q].op = "link" /\ txn[q].to \in CaseIds \cup {Nothing}
        /\ WriteTask(q, Reparented(tasks[txn[q].on], txn[q].seen, txn[q].to))
    BY <1>3 DEF LinkWrite, IInv, TypeInv, Judged, Parented, Txn
  <2> QED  BY <2>1, HeldTask, ReparentedRow, WriteTaskKeeps, ZenonT(40) DEF TaskOps
<1>4. CASE CaseStatusWrite(q)
  <2> DEFINE row == [cases[txn[q].on] EXCEPT !.status = txn[q].to]
  <2>1. txn[q].op = "case_status" /\ WriteCase(q, row)
    BY <1>4 DEF CaseStatusWrite
  <2>2. txn[q].to \in CaseStatus /\ txn[q].locks = txn[q].on /\ cases[txn[q].on] \in Case
    BY <2>1, HeldCase DEF CaseOps, JudgedCase
  <2>3. row \in Case /\ row.revision = cases[txn[q].on].revision
    BY <2>2 DEF Case
  <2> HIDE DEF row
  <2> QED  BY <2>1, <2>2, <2>3, WriteCaseKeeps DEF CaseOps
<1>5. CASE CasePatchWrite(q)
  BY <1>5, HeldCase, WriteCaseKeeps DEF CasePatchWrite, CaseOps
<1> QED  BY <1>1, <1>2, <1>3, <1>4, <1>5, CreateWriteKeeps, LinkLockKeeps DEF Write

\* A step of the loop is an escalation of rows that exist, or touches no work.
LEMMA LoopIsEscalation ==
  ASSUME Loop \/ Fault \/ IntervalElapses \/ Enqueue \/ \E t \in TaskIds : DeadlinePasses(t)
  PROVE  \/ UNCHANGED workVars
         \/ \E overdue \in SUBSET {t \in TaskIds : Exists(t)} :
              /\ \A t \in overdue : tasks[t].status = "IN_PROGRESS"
              /\ EscalateAll(overdue)
<1>1. CASE AdvanceProcesses \/ Deliver \/ Fault \/ IntervalElapses \/ Enqueue
             \/ \E t \in TaskIds : DeadlinePasses(t)
  BY <1>1 DEF AdvanceProcesses, Deliver, Fault, IntervalElapses, Enqueue, DeadlinePasses
<1>2. CASE Escalate
  <2>1. UNCHANGED workVars \/ EscalateAll(Overdue)
    BY <1>2 DEF Escalate
  <2>2. CASE EscalateAll(Overdue)
    <3> DEFINE overdue == {t \in TaskIds : t \in Overdue}
    <3>1. /\ overdue \in SUBSET {t \in TaskIds : Exists(t)}
          /\ \A t \in overdue : tasks[t].status = "IN_PROGRESS"
      BY DEF Overdue
    <3>2. EscalateAll(overdue)
      BY <2>2 DEF EscalateAll
    <3> QED  BY <3>1, <3>2
  <2> QED  BY <2>1, <2>2
<1> QED  BY <1>1, <1>2 DEF Loop

LEMMA NextIInv == IInv /\ [Next]_vars => IInv'
<1> SUFFICES ASSUME IInv, [Next]_vars PROVE IInv'
  OBVIOUS
<1>1. ASSUME UNCHANGED workVars PROVE IInv'
  BY <1>1 DEF workVars, IInv, TypeInv
<1>2. CASE WorkNext
  BY <1>2, ReadKeeps, WriteKeeps, AbortKeeps DEF WorkNext
<1>3. CASE Loop \/ Fault \/ IntervalElapses \/ Enqueue \/ \E t \in TaskIds : DeadlinePasses(t)
  BY <1>1, <1>3, LoopIsEscalation, EscalateKeeps
<1> QED  BY <1>1, <1>2, <1>3 DEF Next, vars

LEMMA Invariance == Spec => []IInv
BY InitIInv, NextIInv, PTL DEF Spec

\* Every row of a task, a case and a transaction is of its type, in all states.
THEOREM TypeCorrect == Spec => []WorkTypeOK
<1>1. IInv => WorkTypeOK
  BY DEF IInv, TypeInv, WorkTypeOK, Txn
<1> QED  BY <1>1, Invariance, PTL

-----------------------------------------------------------------------------
(* What a step changes.                                                     *)

LEMMA QuietStep ==
  ASSUME NEW q \in Requests, Read(q) \/ Abort(q) \/ LinkLock(q)
  PROVE  UNCHANGED <<tasks, cases, sheltered>>
<1>1. CASE Read(q)
  <2>1. \A x : Begin(q, x) => UNCHANGED <<tasks, cases, sheltered>>
    BY DEF Begin
  <2> QED  BY <1>1, <2>1 DEF Read, CreateRead, StatusRead, AmendRead, LinkRead, CaseStatusRead,
                             CasePatchRead
<1> QED  BY <1>1 DEF Abort, LinkLock

\* A task is created by the request that chose it.
Created(t, q) ==
  /\ txn[q].op = "create" /\ txn[q].on = t /\ tasks[t] = Nothing
  /\ tasks'[t] \in Task /\ tasks'[t].case = txn[q].to

\* A request that still knows its revision changes a task; only a link moves it.
Accepted(t, q) ==
  /\ txn[q].op \in {"status", "amend", "link"} /\ txn[q].on = t
  /\ txn[q].asked = tasks[t].revision /\ tasks'[t] \in Task
  /\ IF txn[q].op = "link"
       THEN tasks'[t].case = txn[q].to
            /\ tasks'[t].restricted =
                 (IF txn[q].seen.case \in RestrictedCases THEN "yes" ELSE txn[q].seen.restricted)
       ELSE tasks'[t].case = tasks[t].case /\ tasks'[t].restricted = tasks[t].restricted

\* A task overdue in progress is escalated, where it is.
EscalatedTask(t) ==
  /\ tasks[t].status = "IN_PROGRESS" /\ tasks[t] # Nothing /\ tasks'[t] \in Task
  /\ tasks'[t].case = tasks[t].case /\ tasks'[t].restricted = tasks[t].restricted

LEMMA WrittenTask ==
  ASSUME IInv, NEW q \in Requests, txn[q].op \in TaskOps, NEW row \in Task, WriteTask(q, row),
         NEW t \in TaskIds, tasks'[t] # tasks[t]
  PROVE  /\ txn[q].on = t /\ txn[q].asked = tasks[t].revision /\ tasks'[t] \in Task
         /\ tasks'[t].case = row.case /\ tasks'[t].restricted = row.restricted
<1> DEFINE new == [row EXCEPT !.revision = @ + 1]
<1>1. new \in Task /\ new.case = row.case /\ new.restricted = row.restricted
  BY DEF Task
<1>2. txn[q].asked = tasks[txn[q].on].revision /\ tasks' = [tasks EXCEPT ![txn[q].on] = new]
  BY DEF WriteTask, Matches
<1> HIDE DEF new
<1> QED  BY <1>1, <1>2, HeldTask DEF IInv, TypeInv

LEMMA TaskStep ==
  ASSUME IInv, [Next]_vars, NEW t \in TaskIds, tasks'[t] # tasks[t]
  PROVE  EscalatedTask(t) \/ \E q \in Requests : Created(t, q) \/ Accepted(t, q)
<1>1. ASSUME NEW q \in Requests, CreateWrite(q) PROVE Created(t, q)
  <2>1. txn[q].op = "create" /\ txn[q].on \in TaskIds /\ tasks[txn[q].on] = Nothing
    BY <1>1 DEF CreateWrite, IInv, Judged, Fresh
  <2>2. PICK restricted \in {"yes", "no"} :
          tasks' = [tasks EXCEPT ![txn[q].on] =
                      [status |-> "PENDING", revision |-> 0, case |-> txn[q].to,
                       restricted |-> restricted, level |-> 0]]
    BY <1>1 DEF CreateWrite
  <2>3. /\ txn[q].on = t
        /\ tasks'[t] = [status |-> "PENDING", revision |-> 0, case |-> txn[q].to,
                        restricted |-> restricted, level |-> 0]
    BY <2>1, <2>2 DEF IInv, TypeInv
  <2>4. tasks'[t] # Nothing
    BY <2>1, <2>3
  <2>5. tasks'[t] \in Task
    BY <1>1, <2>4, CreateWriteKeeps DEF IInv, TypeInv
  <2> QED  BY <2>1, <2>3, <2>5 DEF Created
<1>2. ASSUME NEW q \in Requests, StatusWrite(q) PROVE Accepted(t, q)
  <2>1. txn[q].op = "status" /\ WriteTask(q, Moved(tasks[txn[q].on], txn[q].to))
    BY <1>2 DEF StatusWrite
  <2>2. txn[q].to \in TaskStatus /\ tasks[txn[q].on] \in Task
    BY <2>1, HeldTask, Moves DEF TaskOps, JudgedTask, Task
  <2>3. Moved(tasks[txn[q].on], txn[q].to) \in Task
    BY <2>2, MovedRow
  <2>4. /\ txn[q].on = t /\ txn[q].asked = tasks[t].revision /\ tasks'[t] \in Task
        /\ tasks'[t].case = Moved(tasks[t], txn[q].to).case
        /\ tasks'[t].restricted = Moved(tasks[t], txn[q].to).restricted
    BY <2>1, <2>3, WrittenTask DEF TaskOps
  <2> QED  BY <2>1, <2>2, <2>4, MovedRow DEF Accepted
<1>3. ASSUME NEW q \in Requests, AmendWrite(q) PROVE Accepted(t, q)
  BY <1>3, HeldTask, WrittenTask DEF AmendWrite, Accepted, TaskOps
<1>4. ASSUME NEW q \in Requests, LinkWrite(q) PROVE Accepted(t, q)
  <2>1. /\ txn[q].op = "link" /\ txn[q].to \in CaseIds \cup {Nothing}
        /\ WriteTask(q, Reparented(tasks[txn[q].on], txn[q].seen, txn[q].to))
    BY <1>4 DEF LinkWrite, IInv, TypeInv, Judged, Parented, Txn
  <2>2. tasks[txn[q].on] \in Task /\ txn[q].seen \in Task
    BY <2>1, HeldTask DEF TaskOps
  <2>3. Reparented(tasks[txn[q].on], txn[q].seen, txn[q].to) \in Task
    BY <2>1, <2>2, ReparentedRow
  <2>4. /\ txn[q].on = t /\ txn[q].asked = tasks[t].revision /\ tasks'[t] \in Task
        /\ tasks'[t].case = Reparented(tasks[t], txn[q].seen, txn[q].to).case
        /\ tasks'[t].restricted = Reparented(tasks[t], txn[q].seen, txn[q].to).restricted
    BY <2>1, <2>3, WrittenTask DEF TaskOps
  <2> QED  BY <2>1, <2>2, <2>4, ReparentedRow DEF Accepted
<1>5. ASSUME NEW q \in Requests, CaseStatusWrite(q) \/ CasePatchWrite(q) PROVE FALSE
  BY <1>5 DEF CaseStatusWrite, CasePatchWrite, WriteCase
<1>6. ASSUME NEW overdue \in SUBSET {s \in TaskIds : Exists(s)}, EscalateAll(overdue),
             \A s \in overdue : tasks[s].status = "IN_PROGRESS"
      PROVE  EscalatedTask(t)
  BY <1>6, EscalateKeeps DEF EscalatedTask, Exists
<1>7. CASE WorkNext
  BY <1>1, <1>2, <1>3, <1>4, <1>5, <1>7, QuietStep DEF WorkNext, Write
<1>8. CASE Loop \/ Fault \/ IntervalElapses \/ Enqueue \/ \E s \in TaskIds : DeadlinePasses(s)
  BY <1>6, <1>8, LoopIsEscalation DEF workVars
<1> QED  BY <1>7, <1>8 DEF Next, vars, workVars

LEMMA ShelteredStep ==
  ASSUME IInv, [Next]_vars, NEW t \in sheltered' \ sheltered
  PROVE  t \in TaskIds /\ tasks'[t] # Nothing /\ tasks'[t].case \in RestrictedCases
<1>1. ASSUME NEW q \in Requests, CreateWrite(q)
      PROVE  t \in TaskIds /\ tasks'[t] # Nothing /\ tasks'[t].case \in RestrictedCases
  <2>1. t = txn[q].on /\ txn[q].to \in RestrictedCases
    BY <1>1 DEF CreateWrite
  <2>2. t \in TaskIds
    BY <1>1, <2>1 DEF CreateWrite, IInv, Judged, Fresh
  <2>3. tasks'[t].case = txn[q].to
    BY <1>1, <2>1, <2>2 DEF CreateWrite, IInv, TypeInv
  <2>4. tasks'[t] \in Task
    <3>1. PICK restricted \in {"yes", "no"} :
            tasks'[t] = [status |-> "PENDING", revision |-> 0, case |-> txn[q].to,
                         restricted |-> restricted, level |-> 0]
      BY <1>1, <2>1, <2>2 DEF CreateWrite, IInv, TypeInv
    <3>2. tasks'[t] \in Task
      BY <2>1, <3>1, Moves, WorkAssumption DEF Task, WorkAssumption
    <3> QED  BY <3>2
  <2> QED  BY <2>1, <2>2, <2>3, <2>4, WorkAssumption DEF WorkAssumption
<1>2. ASSUME NEW q \in Requests, NEW row, WriteTask(q, row)
      PROVE  t \in TaskIds /\ tasks'[t] # Nothing /\ tasks'[t].case \in RestrictedCases
  BY <1>2 DEF WriteTask
<1>3. ASSUME NEW q \in Requests, NEW row, WriteCase(q, row) PROVE FALSE
  BY <1>3 DEF WriteCase
<1>4. CASE WorkNext
  BY <1>1, <1>2, <1>3, <1>4, QuietStep
     DEF WorkNext, Write, StatusWrite, AmendWrite, LinkWrite, CaseStatusWrite, CasePatchWrite
<1>5. CASE Loop \/ Fault \/ IntervalElapses \/ Enqueue \/ \E s \in TaskIds : DeadlinePasses(s)
  BY <1>5, LoopIsEscalation DEF workVars, EscalateAll
<1> QED  BY <1>4, <1>5 DEF Next, vars, workVars

LEMMA CaseStep ==
  ASSUME IInv, [Next]_vars, NEW c \in CaseIds, cases'[c] # cases[c]
  PROVE  \E q \in Requests :
           txn[q].op \in CaseOps /\ txn[q].on = c /\ txn[q].asked = cases[c].revision
<1>1. ASSUME NEW q \in Requests, NEW row, WriteCase(q, row), txn[q].op \in CaseOps
      PROVE  txn[q].on = c /\ txn[q].asked = cases[c].revision
  BY <1>1, HeldCase DEF WriteCase, Matches, IInv, TypeInv
<1>2. ASSUME NEW q \in Requests, NEW row, WriteTask(q, row) PROVE FALSE
  BY <1>2 DEF WriteTask
<1>3. ASSUME NEW q \in Requests, CreateWrite(q) PROVE FALSE
  BY <1>3 DEF CreateWrite
<1>4. CASE WorkNext
  BY <1>1, <1>2, <1>3, <1>4, QuietStep
     DEF WorkNext, Write, StatusWrite, AmendWrite, LinkWrite, CaseStatusWrite, CasePatchWrite, CaseOps
<1>5. CASE Loop \/ Fault \/ IntervalElapses \/ Enqueue \/ \E s \in TaskIds : DeadlinePasses(s)
  BY <1>5, LoopIsEscalation DEF workVars, EscalateAll
<1> QED  BY <1>4, <1>5 DEF Next, vars, workVars

\* Unless revisions are named ahead, a request whose revision is that of the row has
\* read the row as it is.
LEMMA AcceptedIsCurrent ==
  ASSUME IInv, Ahead = 0, NEW q \in Requests
  PROVE  /\ txn[q].op \in TaskOps /\ txn[q].asked = tasks[txn[q].on].revision
              => txn[q].seen = tasks[txn[q].on]
         /\ txn[q].op \in CaseOps /\ txn[q].asked = cases[txn[q].on].revision
              => txn[q].seen = cases[txn[q].on]
BY HeldTask, HeldCase DEF ReadOf, Task, Case, Txn

-----------------------------------------------------------------------------
(* The theorems.                                                            *)

\* Whatever requests do at the same time, nothing is created in, or moved to, an archived
\* case: the lock of the case covers the judgement and the write.
THEOREM ArchivedStaysEmpty == Spec => NoWorkForArchived
<1>1. ASSUME IInv, [Next]_vars, NEW t \in TaskIds, tasks'[t] # Nothing, tasks'[t].case # Nothing,
             Exists(t) => tasks[t].case # tasks'[t].case
      PROVE  cases[tasks'[t].case].status # "archived"
  <2>1. tasks'[t] # tasks[t]
    BY <1>1 DEF Exists
  <2>2. ~EscalatedTask(t)
    BY <1>1 DEF EscalatedTask, Exists
  <2>3. PICK q \in Requests : Created(t, q) \/ Accepted(t, q)
    BY <1>1, <2>1, <2>2, TaskStep
  <2>4. txn[q].op \in {"create", "link"} /\ tasks'[t].case = txn[q].to
    <3>1. CASE Created(t, q)
      BY <3>1 DEF Created
    <3>2. CASE Accepted(t, q)
      <4>1. Exists(t)
        BY <1>1, <3>2, HeldTask DEF Accepted, TaskOps
      <4> QED  BY <1>1, <3>2, <4>1 DEF Accepted
    <3> QED  BY <2>3, <3>1, <3>2
  <2> QED  BY <1>1, <2>4 DEF IInv, Judged, Parented
<1>2. IInv /\ [Next]_vars =>
        [\A t \in TaskIds :
           /\ tasks'[t] # Nothing /\ tasks'[t].case # Nothing
           /\ Exists(t) => tasks[t].case # tasks'[t].case
           => cases[tasks'[t].case].status # "archived"]_workVars
  BY <1>1
<1> QED  BY <1>2, Invariance, PTL DEF Spec, NoWorkForArchived

\* An accepted request changes the very row it has read and judged, if clients name
\* only revisions they were given.
THEOREM AcceptedAsRead == ASSUME Ahead = 0 PROVE Spec => NoLostUpdate
<1>1. ASSUME IInv, NEW q \in Requests, StatusWrite(q) \/ AmendWrite(q) \/ LinkWrite(q), tasks' # tasks
      PROVE  txn[q].seen = tasks[txn[q].on]
  <2>1. txn[q].op \in TaskOps /\ txn[q].asked = tasks[txn[q].on].revision
    BY <1>1 DEF StatusWrite, AmendWrite, LinkWrite, WriteTask, Matches, TaskOps
  <2> QED  BY <1>1, <2>1, AcceptedIsCurrent
<1>2. ASSUME IInv, NEW q \in Requests, CaseStatusWrite(q) \/ CasePatchWrite(q), cases' # cases
      PROVE  txn[q].seen = cases[txn[q].on]
  <2>1. txn[q].op \in CaseOps /\ txn[q].asked = cases[txn[q].on].revision
    BY <1>2 DEF CaseStatusWrite, CasePatchWrite, WriteCase, Matches, CaseOps
  <2> QED  BY <1>2, <2>1, AcceptedIsCurrent
<1>3. IInv /\ [Next]_vars =>
        [\A q \in Requests :
           LET x == txn[q].on IN
           /\ (StatusWrite(q) \/ AmendWrite(q) \/ LinkWrite(q)) /\ tasks' # tasks
                => txn[q].seen = tasks[x]
           /\ (CaseStatusWrite(q) \/ CasePatchWrite(q)) /\ cases' # cases
                => txn[q].seen = cases[x]]_workVars
  BY <1>1, <1>2
<1> QED  BY <1>3, Invariance, PTL DEF Spec, NoLostUpdate

\* Neither a request that judged it open nor the escalation changes a task in a terminal
\* status or an archived case.
THEOREM ClosedStays == ASSUME Ahead = 0 PROVE Spec => ClosedIsFinal
<1>1. ASSUME IInv, [Next]_vars, NEW t \in TaskIds, Exists(t), tasks[t].status \in TerminalTask,
             tasks'[t] # tasks[t]
      PROVE  FALSE
  <2>1. ~EscalatedTask(t)
    BY <1>1, Moves DEF EscalatedTask
  <2>2. PICK q \in Requests : Accepted(t, q)
    BY <1>1, <2>1, TaskStep DEF Created, Exists
  <2>3. txn[q].op \in TaskOps /\ txn[q].seen = tasks[t]
    BY <1>1, <2>2, AcceptedIsCurrent DEF Accepted, TaskOps
  <2>4. JudgedTask(txn[q], tasks)
    BY <1>1, <2>3, HeldTask
  <2> QED  BY <1>1, <2>3, <2>4, Moves DEF JudgedTask
<1>2. ASSUME IInv, [Next]_vars, NEW c \in CaseIds, cases[c].status = "archived", cases'[c] # cases[c]
      PROVE  FALSE
  <2>1. PICK q \in Requests :
          txn[q].op \in CaseOps /\ txn[q].on = c /\ txn[q].asked = cases[c].revision
    BY <1>2, CaseStep
  <2>2. txn[q].seen = cases[c] /\ JudgedCase(txn[q], cases)
    BY <1>2, <2>1, AcceptedIsCurrent, HeldCase
  <2> QED  BY <1>2, <2>1, <2>2 DEF JudgedCase
<1>3. IInv /\ [Next]_vars =>
        [/\ \A t \in TaskIds : Exists(t) /\ tasks[t].status \in TerminalTask => tasks'[t] = tasks[t]
         /\ \A c \in CaseIds : cases[c].status = "archived" => cases'[c] = cases[c]]_workVars
  BY <1>1, <1>2
<1> QED  BY <1>3, Invariance, PTL DEF Spec, ClosedIsFinal

\* A task that has been part of a restricted case is shielded by its case or by its own
\* visibility, wherever requests move it.
THEOREM Shielded == ASSUME Ahead = 0 PROVE Spec => []ShelterKept
<1>1. Init => Sheltering
  BY DEF Init, WorkInit, Sheltering
<1>2. ASSUME IInv, Sheltering, [Next]_vars PROVE Sheltering'
  <2> SUFFICES ASSUME NEW t \in sheltered'
               PROVE  /\ tasks'[t] # Nothing
                      /\ tasks'[t].case \in RestrictedCases \/ tasks'[t].restricted = "yes"
    BY DEF Sheltering
  <2>1. CASE t \notin sheltered
    BY <1>2, <2>1, ShelteredStep
  <2>2. CASE t \in sheltered
    <3>1. t \in TaskIds /\ tasks[t] # Nothing
          /\ (tasks[t].case \in RestrictedCases \/ tasks[t].restricted = "yes")
      BY <1>2, <2>2 DEF Sheltering, IInv, TypeInv
    <3>2. CASE tasks'[t] = tasks[t]
      BY <3>1, <3>2
    <3>3. CASE EscalatedTask(t)
      BY <3>1, <3>3, WorkAssumption DEF EscalatedTask, WorkAssumption
    <3>4. ASSUME NEW q \in Requests, Accepted(t, q)
          PROVE  /\ tasks'[t] # Nothing
                 /\ tasks'[t].case \in RestrictedCases \/ tasks'[t].restricted = "yes"
      <4>1. txn[q].seen = tasks[t]
        BY <1>2, <3>4, AcceptedIsCurrent DEF Accepted, TaskOps
      <4> QED  BY <3>1, <3>4, <4>1, WorkAssumption DEF Accepted, WorkAssumption
    <3> QED  BY <1>2, <3>1, <3>2, <3>3, <3>4, TaskStep DEF Created
  <2> QED  BY <2>1, <2>2
<1>3. Sheltering => ShelterKept
  BY DEF Sheltering, ShelterKept
<1> QED  BY <1>1, <1>2, <1>3, Invariance, PTL DEF Spec

\* The loop changes no task, and from the moment one is overdue when the interval has
\* elapsed it does not come to the outbox any more: what waits goes on waiting.
Starving ==
  /\ Loop => UNCHANGED workVars
  /\ due = "yes" /\ Overdue # {} /\ stage # "outbox" =>
       /\ stage' # "outbox" /\ due' = "yes"
       /\ waiting = "yes" => waiting' = "yes"

\* As the escalation of this commit acts, in no World, it never escalates a task, and one
\* overdue task keeps the worker from the messages of everybody, until a person moves it:
\* what the run `escalation` shows of one task holds of any.
THEOREM OverdueStopsOutbox ==
  ASSUME EscalatesInWorld = "no"
  PROVE  Spec => [][Starving]_vars
<1>1. ASSUME IInv, Loop PROVE UNCHANGED workVars
  <2>1. EscalateAll({}) => UNCHANGED workVars
    BY <1>1 DEF EscalateAll, workVars, IInv, TypeInv
  <2> QED  BY <1>1, <2>1 DEF Loop, AdvanceProcesses, Escalate, Deliver
<1>2. ASSUME [Next]_vars, due = "yes", Overdue # {}, stage # "outbox"
      PROVE  stage' # "outbox" /\ due' = "yes" /\ (waiting = "yes" => waiting' = "yes")
  BY <1>2
     DEF Next, Loop, AdvanceProcesses, Escalate, Deliver, Fault, IntervalElapses, Enqueue,
         DeadlinePasses, loopVars, vars
<1>3. IInv /\ [Next]_vars => [Starving]_vars
  BY <1>1, <1>2 DEF Starving
<1> QED  BY <1>3, Invariance, PTL DEF Spec

-----------------------------------------------------------------------------
(* Domains: its inductive invariant.  Its rows are kept apart like tasks    *)
(* and cases, by locks taken by name and by revisions compared.             *)

EditOps == {"none", "schedule", "slot", "admitted", "participant", "review", "member"}
EditObjects == Assets \cup Slots \cup People \cup {None}
EditStatus == {"none"} \cup DOMAIN NextOfSlot \cup DOMAIN NextOfReview

Edit == [op : EditOps, on : EditObjects, start : 0 .. Horizon, end : 0 .. Horizon,
         to : EditStatus, seen : Nat]

Stands(row) == row.status \in {"planned", "in_progress", "completed"}

\* The row keeps asset a from being reserved between start and end.
Blocks(row, a, start, end) ==
  Stands(row) /\ row.asset = a /\ row.start < end /\ row.end > start

Clear(row, other) ==
  Stands(other) /\ other.asset # None => ~ Blocks(row, other.asset, other.start, other.end)

\* What an open request is about to write still fits the rows: nothing blocks the reservation
\* it has looked for; a row has the revision it has seen only if the transition is one of that
\* row's; the person it has looked for is not in the list.
ScheduleFits(x, ss) ==
  x.op = "schedule" =>
    /\ x.on \in Assets \cup {None}
    /\ x.on # None => \A s \in Slots : ~ Blocks(ss[s], x.on, x.start, x.end)

SlotFits(x, ss) ==
  x.op = "slot" =>
    /\ x.on \in Slots /\ ss[x.on] # NoSlot /\ x.seen <= ss[x.on].revision
    /\ x.seen = ss[x.on].revision => x.to \in NextOfSlot[ss[x.on].status]

ReviewFits(x, rv) ==
  x.op = "review" =>
    /\ x.seen <= rv.revision
    /\ x.seen = rv.revision => x.to \in NextOfReview[rv.status]

PersonFits(x, ps, ms) ==
  /\ x.op \in {"admitted", "participant", "member"} => x.on \in People
  /\ x.op = "participant" => ps[x.on] = 0
  /\ x.op = "member" => ms[x.on] = 0

Fits(x, ss, rv, ps, ms) ==
  ScheduleFits(x, ss) /\ SlotFits(x, ss) /\ ReviewFits(x, rv) /\ PersonFits(x, ps, ms)

\* Two requests do not hold the lock of the same calendar or of the same person in a list.
OwnLocks(x, y) ==
  x.op = y.op /\ x.on = y.on =>
    x.op \notin {"schedule", "participant", "member"} \/ (x.op = "schedule" /\ x.on = None)

RowsInv ==
  /\ slots \in [Slots -> Slot]
  /\ \A s \in Slots : slots[s] # NoSlot => slots[s].status # "absent"
  /\ review \in [status : DOMAIN NextOfReview, revision : Nat]
  /\ participants \in [People -> 0 .. 1] /\ members \in [People -> 0 .. 1]
  /\ \A s, t \in Slots : s # t => Clear(slots[s], slots[t])

EditsInv ==
  /\ RowsInv
  /\ requests \in [Editors -> Edit] /\ edits \in 0 .. MaxEdits
  /\ \A q \in Editors : Fits(requests[q], slots, review, participants, members)
  /\ \A q, r \in Editors : q # r => OwnLocks(requests[q], requests[r])

LEMMA EditTables ==
  /\ DOMAIN NextOfSlot = {"planned", "in_progress", "completed", "cancelled"}
  /\ DOMAIN NextOfReview = {"open", "under_review", "resolved", "dismissed"}
  /\ \A s \in DOMAIN NextOfSlot : NextOfSlot[s] \subseteq DOMAIN NextOfSlot
  /\ \A s \in DOMAIN NextOfReview : NextOfReview[s] \subseteq DOMAIN NextOfReview
  /\ NextOfSlot["cancelled"] = {}
<1>1. /\ NextOfSlot["planned"] = {"in_progress", "cancelled"}
      /\ NextOfSlot["in_progress"] = {"completed", "cancelled"}
      /\ NextOfSlot["completed"] = {} /\ NextOfSlot["cancelled"] = {}
      /\ DOMAIN NextOfSlot = {"planned", "in_progress", "completed", "cancelled"}
  BY DEF NextOfSlot
<1>2. /\ NextOfReview["open"] = {"under_review", "dismissed"}
      /\ NextOfReview["under_review"] = {"open", "resolved", "dismissed"}
      /\ NextOfReview["resolved"] = {"open"} /\ NextOfReview["dismissed"] = {"open"}
      /\ DOMAIN NextOfReview = {"open", "under_review", "resolved", "dismissed"}
  BY DEF NextOfReview
<1> QED  BY <1>1, <1>2

LEMMA EditSets ==
  /\ EditOps = {"none", "schedule", "slot", "admitted", "participant", "review", "member"}
  /\ Assets \subseteq EditObjects /\ Slots \subseteq EditObjects
  /\ People \subseteq EditObjects /\ None \in EditObjects
  /\ "none" \in EditStatus /\ DOMAIN NextOfSlot \subseteq EditStatus
  /\ DOMAIN NextOfReview \subseteq EditStatus
  /\ 0 \in Nat /\ 0 \in 0 .. Horizon
BY DomainsAssumption DEF EditOps, EditObjects, EditStatus

LEMMA NoRequestFits ==
  /\ NoRequest \in Edit /\ NoRequest.op = "none"
  /\ \A ss, rv, ps, ms : Fits(NoRequest, ss, rv, ps, ms)
  /\ \A x : OwnLocks(NoRequest, x)
<1>1. NoRequest \in Edit /\ NoRequest.op = "none"
  BY EditSets DEF NoRequest, Edit
<1> QED  BY <1>1 DEF Fits, ScheduleFits, SlotFits, ReviewFits, PersonFits, OwnLocks

LEMMA InitEdits == DomainsInit => EditsInv
<1> SUFFICES ASSUME DomainsInit PROVE EditsInv
  OBVIOUS
<1> USE DEF DomainsInit
<1>1. NoSlot \in Slot /\ ~ Stands(NoSlot)
  BY EditTables, DomainsAssumption DEF NoSlot, Slot, Stands
<1>2. review \in [status : DOMAIN NextOfReview, revision : Nat]
  BY EditTables
<1>3. RowsInv
  BY <1>1, <1>2 DEF RowsInv, Clear
<1>4. /\ requests \in [Editors -> Edit] /\ edits \in 0 .. MaxEdits
  BY NoRequestFits, DomainsAssumption
<1>5. \A q \in Editors : requests[q] = NoRequest
  OBVIOUS
<1> HIDE DEF DomainsInit
<1> QED  BY <1>3, <1>4, <1>5, NoRequestFits DEF EditsInv

\* A request takes on another record, while the rows change or not.
LEMMA EditReplaced ==
  ASSUME EditsInv, RowsInv', edits' \in 0 .. MaxEdits,
         NEW q \in Editors, NEW x \in Edit, requests' = [requests EXCEPT ![q] = x],
         Fits(x, slots', review', participants', members'),
         \A r \in Editors \ {q} :
           /\ Fits(requests[r], slots', review', participants', members')
           /\ OwnLocks(x, requests[r])
  PROVE  EditsInv'
<1>1. /\ requests' \in [Editors -> Edit] /\ requests'[q] = x
      /\ \A r \in Editors \ {q} : requests'[r] = requests[r]
  BY DEF EditsInv
<1>2. \A r \in Editors : Fits(requests'[r], slots', review', participants', members')
  BY <1>1
<1>3. \A r, u \in Editors : r # u => OwnLocks(requests'[r], requests'[u])
  <2> SUFFICES ASSUME NEW r \in Editors, NEW u \in Editors, r # u
               PROVE OwnLocks(requests'[r], requests'[u])
    OBVIOUS
  <2>1. CASE r = q
    BY <1>1, <2>1
  <2>2. CASE u = q
    <3>1. OwnLocks(x, requests[r])
      BY <2>2
    <3> QED  BY <1>1, <2>2, <3>1 DEF OwnLocks
  <2>3. CASE r # q /\ u # q
    BY <1>1, <2>3 DEF EditsInv
  <2> QED  BY <2>1, <2>2, <2>3
<1> QED  BY <1>1, <1>2, <1>3 DEF EditsInv

\* A request begins, goes on or ends without a write.
LEMMA EditMoves ==
  ASSUME EditsInv, UNCHANGED <<slots, review, participants, members>>, edits' \in 0 .. MaxEdits,
         NEW q \in Editors, NEW x \in Edit, requests' = [requests EXCEPT ![q] = x],
         Fits(x, slots, review, participants, members),
         \A r \in Editors \ {q} : OwnLocks(x, requests[r])
  PROVE  EditsInv'
<1>1. RowsInv'
  BY DEF EditsInv, RowsInv
<1>2. /\ slots' = slots /\ review' = review
      /\ participants' = participants /\ members' = members
  OBVIOUS
<1>3. \A r \in Editors : Fits(requests[r], slots', review', participants', members')
  BY <1>2 DEF EditsInv
<1> QED  BY <1>1, <1>2, <1>3, EditReplaced

\* A request writes and is over.
LEMMA EditWrites ==
  ASSUME EditsInv, RowsInv', edits' = edits, NEW q \in Editors, Finish(q),
         \A r \in Editors \ {q} : Fits(requests[r], slots', review', participants', members')
  PROVE  EditsInv'
<1>1. requests' = [requests EXCEPT ![q] = NoRequest] /\ edits' \in 0 .. MaxEdits
  BY DEF Finish, EditsInv
<1>2. Fits(NoRequest, slots', review', participants', members')
  BY NoRequestFits
<1>3. NoRequest \in Edit /\ \A r \in Editors \ {q} : OwnLocks(NoRequest, requests[r])
  BY NoRequestFits
<1> QED  BY <1>1, <1>2, <1>3, EditReplaced

LEMMA EditOpens ==
  ASSUME EditsInv, NEW q \in Editors, NEW x, Open(q, x)
  PROVE  requests' = [requests EXCEPT ![q] = x] /\ edits' \in 0 .. MaxEdits
BY DomainsAssumption DEF Open, EditsInv

-----------------------------------------------------------------------------
(* Domains: its steps.                                                      *)

LEMMA ScheduleReadKeeps ==
  ASSUME EditsInv, NEW q \in Editors, NEW a \in Assets \cup {None},
         NEW start \in 0 .. Horizon, NEW end \in 0 .. Horizon, ScheduleRead(q, a, start, end)
  PROVE  EditsInv'
<1> DEFINE x == [NoRequest EXCEPT !.op = "schedule", !.on = a, !.start = start, !.end = end]
<1>1. /\ x \in Edit /\ x.op = "schedule" /\ x.on = a /\ x.start = start /\ x.end = end
  BY EditSets, NoRequestFits DEF Edit
<1>2. Open(q, x) /\ UNCHANGED <<slots, review, participants, members>>
  BY DEF ScheduleRead
<1>3. a # None => \A s \in Slots : ~ Blocks(slots[s], a, start, end)
  BY DEF ScheduleRead, Taken, Standing, Overlaps, Blocks, Stands
<1>4. a # None => \A r \in Editors : requests[r].op = "schedule" => requests[r].on # a
  BY DEF ScheduleRead, Unlocked
<1> HIDE DEF x
<1>5. Fits(x, slots, review, participants, members)
  BY <1>1, <1>3 DEF Fits, ScheduleFits, SlotFits, ReviewFits, PersonFits
<1>6. \A r \in Editors : OwnLocks(x, requests[r])
  BY <1>1, <1>4 DEF OwnLocks
<1> QED  BY <1>1, <1>2, <1>5, <1>6, EditOpens, EditMoves

LEMMA SlotReadKeeps ==
  ASSUME EditsInv, NEW q \in Editors, NEW s \in Slots, NEW to, SlotRead(q, s, to)
  PROVE  EditsInv'
<1> DEFINE x == [NoRequest EXCEPT !.op = "slot", !.on = s, !.to = to, !.seen = slots[s].revision]
<1>1. /\ slots[s] # NoSlot /\ slots[s].status \in DOMAIN NextOfSlot /\ slots[s].revision \in Nat
      /\ to \in NextOfSlot[slots[s].status] /\ to \in DOMAIN NextOfSlot
  BY EditTables DEF SlotRead, EditsInv, RowsInv, Slot
<1>2. x \in Edit /\ x.op = "slot" /\ x.on = s /\ x.to = to /\ x.seen = slots[s].revision
  BY <1>1, EditSets, NoRequestFits DEF Edit
<1>3. Open(q, x) /\ UNCHANGED <<slots, review, participants, members>>
  BY DEF SlotRead
<1> HIDE DEF x
<1>4. Fits(x, slots, review, participants, members)
  BY <1>1, <1>2 DEF Fits, ScheduleFits, SlotFits, ReviewFits, PersonFits
<1>5. \A r \in Editors : OwnLocks(x, requests[r])
  BY <1>2 DEF OwnLocks
<1> QED  BY <1>2, <1>3, <1>4, <1>5, EditOpens, EditMoves

LEMMA ReviewReadKeeps ==
  ASSUME EditsInv, NEW q \in Editors, NEW to, ReviewRead(q, to)
  PROVE  EditsInv'
<1> DEFINE x == [NoRequest EXCEPT !.op = "review", !.to = to, !.seen = review.revision]
<1>1. /\ review.revision \in Nat /\ to \in NextOfReview[review.status] /\ to \in DOMAIN NextOfReview
  BY EditTables DEF ReviewRead, EditsInv, RowsInv
<1>2. x \in Edit /\ x.op = "review" /\ x.to = to /\ x.seen = review.revision
  BY <1>1, EditSets, NoRequestFits DEF Edit
<1>3. Open(q, x) /\ UNCHANGED <<slots, review, participants, members>>
  BY DEF ReviewRead
<1> HIDE DEF x
<1>4. Fits(x, slots, review, participants, members)
  BY <1>1, <1>2 DEF Fits, ScheduleFits, SlotFits, ReviewFits, PersonFits
<1>5. \A r \in Editors : OwnLocks(x, requests[r])
  BY <1>2 DEF OwnLocks
<1> QED  BY <1>2, <1>3, <1>4, <1>5, EditOpens, EditMoves

LEMMA PersonReadKeeps ==
  ASSUME EditsInv, NEW q \in Editors, NEW p \in People,
         ParticipantRead(q, p) \/ MemberLook(q, p)
  PROVE  EditsInv'
<1> DEFINE x(op) == [NoRequest EXCEPT !.op = op, !.on = p]
<1>1. ASSUME NEW op \in {"admitted", "member"}
      PROVE  x(op) \in Edit /\ x(op).op = op /\ x(op).on = p
  BY EditSets, NoRequestFits DEF Edit
<1>2. PICK op \in {"admitted", "member"} :
        /\ Open(q, x(op)) /\ UNCHANGED <<slots, review, participants, members>>
        /\ op = "member" => members[p] = 0 /\ Unlocked("member", p)
  <2>1. CASE ParticipantRead(q, p)
    BY <2>1 DEF ParticipantRead
  <2>2. CASE MemberLook(q, p)
    BY <2>2 DEF MemberLook
  <2> QED  BY <2>1, <2>2
<1> HIDE DEF x
<1>3. Fits(x(op), slots, review, participants, members)
  BY <1>1, <1>2 DEF Fits, ScheduleFits, SlotFits, ReviewFits, PersonFits
<1>4. \A r \in Editors : OwnLocks(x(op), requests[r])
  BY <1>1, <1>2 DEF OwnLocks, Unlocked
<1> QED  BY <1>1, <1>2, <1>3, <1>4, EditOpens, EditMoves

LEMMA ParticipantLookKeeps ==
  ASSUME EditsInv, NEW q \in Editors, ParticipantLook(q)
  PROVE  EditsInv'
<1> DEFINE x == [requests[q] EXCEPT !.op = "participant"]
<1>1. requests[q] \in Edit /\ requests[q].on \in People /\ participants[requests[q].on] = 0
  BY DEF EditsInv, Fits, PersonFits, ParticipantLook
<1>2. x \in Edit /\ x.op = "participant" /\ x.on = requests[q].on
  BY <1>1, EditSets DEF Edit
<1>3. /\ requests' = [requests EXCEPT ![q] = x] /\ edits' \in 0 .. MaxEdits
      /\ UNCHANGED <<slots, review, participants, members>>
  BY DEF ParticipantLook, EditsInv
<1> HIDE DEF x
<1>4. Fits(x, slots, review, participants, members)
  BY <1>1, <1>2 DEF Fits, ScheduleFits, SlotFits, ReviewFits, PersonFits
<1>5. \A r \in Editors : OwnLocks(x, requests[r])
  BY <1>2 DEF OwnLocks, Unlocked, ParticipantLook
<1> QED  BY <1>2, <1>3, <1>4, <1>5, EditMoves

\* A new reservation blocks no other: who has looked at the calendar of its asset holds the lock.
LEMMA ScheduleCommitKeeps ==
  ASSUME EditsInv, NEW q \in Editors, NEW s \in Slots, ScheduleCommit(q, s)
  PROVE  EditsInv'
<1> DEFINE x == requests[q]
           row == [status |-> "planned", asset |-> x.on, revision |-> 1,
                   start |-> x.start, end |-> x.end]
<1>1. /\ x \in Edit /\ x.op = "schedule" /\ x.on \in Assets \cup {None}
      /\ x.on # None => \A t \in Slots : ~ Blocks(slots[t], x.on, x.start, x.end)
  BY DEF ScheduleCommit, EditsInv, Fits, ScheduleFits
<1>2. /\ row \in Slot /\ row # NoSlot /\ row.status = "planned" /\ row.asset = x.on
      /\ row.start = x.start /\ row.end = x.end
  BY <1>1, EditTables DEF Slot, Edit, NoSlot
<1>3. /\ slots \in [Slots -> Slot] /\ slots[s] = NoSlot /\ slots' = [slots EXCEPT ![s] = row]
      /\ UNCHANGED <<review, participants, members, edits>> /\ Finish(q)
  BY DEF ScheduleCommit, EditsInv, RowsInv
<1>4. \A r \in Editors \ {q} : OwnLocks(requests[r], x)
  BY DEF EditsInv
<1> HIDE DEF x, row
<1>5. /\ slots' \in [Slots -> Slot] /\ slots'[s] = row
      /\ \A t \in Slots \ {s} : slots'[t] = slots[t]
  BY <1>2, <1>3
<1>6. \A t \in Slots \ {s} : Clear(row, slots[t]) /\ Clear(slots[t], row)
  <2> SUFFICES ASSUME NEW t \in Slots \ {s} PROVE Clear(row, slots[t]) /\ Clear(slots[t], row)
    OBVIOUS
  <2>1. slots[t] \in Slot /\ x.start \in Nat /\ x.end \in Nat
    BY <1>1, <1>3, DomainsAssumption DEF Edit
  <2>2. slots[t].start \in Nat /\ slots[t].end \in Nat
    BY <2>1, DomainsAssumption DEF Slot
  <2> QED  BY <1>1, <1>2, <2>1, <2>2 DEF Clear, Blocks, Stands
<1>7. RowsInv'
  <2>1. \A t \in Slots : slots'[t] # NoSlot => slots'[t].status # "absent"
    BY <1>2, <1>5 DEF EditsInv, RowsInv
  <2>2. \A t, u \in Slots : t # u => Clear(slots'[t], slots'[u])
    BY <1>5, <1>6 DEF EditsInv, RowsInv
  <2> QED  BY <1>3, <1>5, <2>1, <2>2 DEF EditsInv, RowsInv
<1>8. \A r \in Editors \ {q} : Fits(requests[r], slots', review', participants', members')
  <2> SUFFICES ASSUME NEW r \in Editors \ {q}
               PROVE Fits(requests[r], slots', review', participants', members')
    OBVIOUS
  <2>1. Fits(requests[r], slots, review, participants, members)
    BY DEF EditsInv
  <2>2. ScheduleFits(requests[r], slots')
    BY <1>1, <1>2, <1>4, <1>5, <2>1 DEF Fits, ScheduleFits, OwnLocks, Blocks
  <2>3. SlotFits(requests[r], slots')
    BY <1>3, <1>5, <2>1 DEF Fits, SlotFits
  <2> QED  BY <1>3, <2>1, <2>2, <2>3 DEF Fits
<1> QED  BY <1>3, <1>7, <1>8, EditWrites

Changed(row, to, n) == [row EXCEPT !.status = to, !.revision = n]

LEMMA ChangedSlot ==
  ASSUME NEW row \in Slot, NEW to \in DOMAIN NextOfSlot, NEW n \in Nat
  PROVE  /\ Changed(row, to, n) \in Slot
         /\ Changed(row, to, n).status = to /\ Changed(row, to, n).revision = n
         /\ Changed(row, to, n).asset = row.asset
         /\ Changed(row, to, n).start = row.start /\ Changed(row, to, n).end = row.end
<1> DEFINE Statuses == {"absent"} \cup DOMAIN NextOfSlot
           Held == Assets \cup {None}
<1>1. /\ Slot = [status : Statuses, asset : Held, start : 0 .. Horizon, end : 0 .. Horizon,
                 revision : Nat]
      /\ to \in Statuses
  BY DEF Slot
<1> HIDE DEF Statuses, Held
<1> QED  BY <1>1 DEF Changed

\* The row a transition is written to: a reservation that does not stand is never taken up again.
LEMMA SlotWritten ==
  ASSUME EditsInv, NEW q \in Editors, SlotCommit(q)
  PROVE  \E s \in Slots, row \in Slot :
           /\ slots[s] # NoSlot /\ row.status \in NextOfSlot[slots[s].status]
           /\ slots' = [slots EXCEPT ![s] = row]
           /\ row.status # "absent" /\ row.revision = slots[s].revision + 1
           /\ Stands(row) => Stands(slots[s])
           /\ row.asset = slots[s].asset /\ row.start = slots[s].start /\ row.end = slots[s].end
<1> DEFINE x == requests[q]
           s == x.on
           next == slots[s].revision + 1
           row == Changed(slots[s], x.to, next)
<1>1. /\ s \in Slots /\ slots[s] # NoSlot /\ slots[s] \in Slot
      /\ x.to \in NextOfSlot[slots[s].status] /\ slots[s].status # "absent"
  BY DEF EditsInv, RowsInv, Fits, SlotFits, SlotCommit, SlotUnchanged
<1>2. /\ slots[s].revision \in Nat /\ slots[s].status \in DOMAIN NextOfSlot
      /\ x.to \in DOMAIN NextOfSlot
  BY <1>1, EditTables DEF Slot
<1>3. slots' = [slots EXCEPT ![s] = row]
  <2>1. slots' = [slots EXCEPT ![s].status = x.to, ![s].revision = @ + 1]
    BY DEF SlotCommit
  <2> QED  BY <1>1, <2>1 DEF EditsInv, RowsInv, Slot, Changed
<1>4. /\ row \in Slot /\ row.status = x.to /\ row.revision = next
      /\ row.asset = slots[s].asset /\ row.start = slots[s].start /\ row.end = slots[s].end
  <2>1. next \in Nat
    BY <1>2
  <2>2. slots[s] \in Slot /\ x.to \in DOMAIN NextOfSlot
    BY <1>1, <1>2
  <2> HIDE DEF next, s
  <2> QED  BY <2>1, <2>2, ChangedSlot
<1>5. Stands(row) => Stands(slots[s])
  BY <1>1, <1>2, EditTables DEF Stands
<1>6. row.status # "absent"
  BY <1>2, <1>4, EditTables
<1> HIDE DEF row, s
<1> QED  BY <1>1, <1>3, <1>4, <1>5, <1>6

LEMMA SlotCommitKeeps ==
  ASSUME EditsInv, NEW q \in Editors, SlotCommit(q)
  PROVE  EditsInv'
<1>1. PICK s \in Slots, row \in Slot :
        /\ slots[s] # NoSlot /\ slots' = [slots EXCEPT ![s] = row]
        /\ row.status # "absent" /\ row.revision = slots[s].revision + 1
        /\ Stands(row) => Stands(slots[s])
        /\ row.asset = slots[s].asset /\ row.start = slots[s].start /\ row.end = slots[s].end
  BY SlotWritten
<1>2. /\ slots' \in [Slots -> Slot] /\ slots'[s] = row
      /\ \A t \in Slots \ {s} : slots'[t] = slots[t]
  BY <1>1 DEF EditsInv, RowsInv
<1>3. UNCHANGED <<review, participants, members, edits>> /\ Finish(q)
  BY DEF SlotCommit
<1>4. \A a, start, end : Blocks(row, a, start, end) => Blocks(slots[s], a, start, end)
  BY <1>1 DEF Blocks
<1>5. RowsInv'
  <2>1. \A t \in Slots : slots'[t] # NoSlot => slots'[t].status # "absent"
    BY <1>1, <1>2 DEF EditsInv, RowsInv
  <2>2. \A t, u \in Slots : t # u => Clear(slots'[t], slots'[u])
    BY <1>1, <1>2, <1>4 DEF EditsInv, RowsInv, Clear
  <2> QED  BY <1>2, <1>3, <2>1, <2>2 DEF EditsInv, RowsInv
<1>6. \A r \in Editors \ {q} : Fits(requests[r], slots', review', participants', members')
  <2> SUFFICES ASSUME NEW r \in Editors \ {q}
               PROVE Fits(requests[r], slots', review', participants', members')
    OBVIOUS
  <2>1. Fits(requests[r], slots, review, participants, members) /\ requests[r].seen \in Nat
    BY DEF EditsInv, Edit
  <2>2. ScheduleFits(requests[r], slots')
    BY <1>2, <1>4, <2>1 DEF Fits, ScheduleFits
  <2>3. SlotFits(requests[r], slots')
    <3>1. slots[s].revision \in Nat /\ row # NoSlot
      BY <1>1 DEF EditsInv, RowsInv, Slot, NoSlot
    <3> QED  BY <1>1, <1>2, <2>1, <3>1 DEF Fits, SlotFits
  <2> QED  BY <1>3, <2>1, <2>2, <2>3 DEF Fits
<1> QED  BY <1>3, <1>5, <1>6, EditWrites

LEMMA ReviewCommitKeeps ==
  ASSUME EditsInv, NEW q \in Editors, ReviewCommit(q)
  PROVE  EditsInv' /\ review'.status \in NextOfReview[review.status]
<1>1. /\ requests[q].to \in NextOfReview[review.status]
      /\ review.revision \in Nat /\ review.status \in DOMAIN NextOfReview
  BY DEF EditsInv, RowsInv, Fits, ReviewFits, ReviewCommit, ReviewUnchanged
<1>2. /\ review'.status = requests[q].to /\ review'.revision = review.revision + 1
      /\ review' \in [status : DOMAIN NextOfReview, revision : Nat]
  BY <1>1, EditTables DEF ReviewCommit
<1>3. UNCHANGED <<slots, participants, members, edits>> /\ Finish(q)
  BY DEF ReviewCommit
<1>4. RowsInv'
  BY <1>2, <1>3 DEF EditsInv, RowsInv
<1>5. \A r \in Editors \ {q} : Fits(requests[r], slots', review', participants', members')
  <2> SUFFICES ASSUME NEW r \in Editors \ {q}
               PROVE Fits(requests[r], slots', review', participants', members')
    OBVIOUS
  <2>1. Fits(requests[r], slots, review, participants, members) /\ requests[r].seen \in Nat
    BY DEF EditsInv, Edit
  <2>2. ReviewFits(requests[r], review')
    BY <1>1, <1>2, <2>1 DEF Fits, ReviewFits
  <2> QED  BY <1>3, <2>1, <2>2 DEF Fits
<1> QED  BY <1>1, <1>2, <1>3, <1>4, <1>5, EditWrites

\* Who adds a person holds the lock of that person, and alone.
LEMMA PersonCommitKeeps ==
  ASSUME EditsInv, NEW q \in Editors, ParticipantCommit(q) \/ MemberCommit(q)
  PROVE  EditsInv'
<1> DEFINE p == requests[q].on
<1>1. /\ UNCHANGED <<slots, review, edits>> /\ Finish(q)
      /\ \A r \in Editors \ {q} :
           /\ Fits(requests[r], slots, review, participants, members)
           /\ OwnLocks(requests[r], requests[q])
  BY DEF EditsInv, ParticipantCommit, MemberCommit
<1>2. p \in People /\ participants \in [People -> 0 .. 1] /\ members \in [People -> 0 .. 1]
  BY DEF EditsInv, RowsInv, Fits, PersonFits, ParticipantCommit, MemberCommit
<1>3. CASE ParticipantCommit(q)
  <2>1. requests[q].op = "participant" /\ participants[p] = 0
    BY <1>3 DEF ParticipantCommit, EditsInv, Fits, PersonFits
  <2>2. participants' = [participants EXCEPT ![p] = 1] /\ members' = members
    BY <1>3, <2>1 DEF ParticipantCommit
  <2> HIDE DEF p
  <2>3. RowsInv'
    BY <1>1, <1>2, <2>2 DEF EditsInv, RowsInv
  <2>4. \A r \in Editors \ {q} : requests[r].op = "participant" => requests[r].on # p
    BY <1>1, <2>1 DEF OwnLocks, p
  <2>5. \A r \in Editors \ {q} : Fits(requests[r], slots', review', participants', members')
    BY <1>1, <1>2, <2>2, <2>4 DEF Fits, PersonFits
  <2> QED  BY <1>1, <2>3, <2>5, EditWrites
<1>4. CASE MemberCommit(q)
  <2>1. requests[q].op = "member" /\ members[p] = 0
    BY <1>4 DEF MemberCommit, EditsInv, Fits, PersonFits
  <2>2. members' = [members EXCEPT ![p] = 1] /\ participants' = participants
    BY <1>4, <2>1 DEF MemberCommit
  <2> HIDE DEF p
  <2>3. RowsInv'
    BY <1>1, <1>2, <2>2 DEF EditsInv, RowsInv
  <2>4. \A r \in Editors \ {q} : requests[r].op = "member" => requests[r].on # p
    BY <1>1, <2>1 DEF OwnLocks, p
  <2>5. \A r \in Editors \ {q} : Fits(requests[r], slots', review', participants', members')
    BY <1>1, <1>2, <2>2, <2>4 DEF Fits, PersonFits
  <2> QED  BY <1>1, <2>3, <2>5, EditWrites
<1> QED  BY <1>3, <1>4

LEMMA RemoveMemberKeeps ==
  ASSUME EditsInv, NEW q \in Editors, NEW p \in People, RemoveMember(q, p)
  PROVE  EditsInv'
<1>1. /\ UNCHANGED <<slots, review, participants>>
      /\ requests' = [requests EXCEPT ![q] = NoRequest] /\ edits' \in 0 .. MaxEdits
  BY EditOpens DEF RemoveMember
<1>2. members \in [People -> 0 .. 1] /\ members[p] > 0
  BY DEF EditsInv, RowsInv, RemoveMember
<1>3. members' = [members EXCEPT ![p] = 0]
  <2>1. members[p] = 1 /\ members[p] - 1 = 0
    BY <1>2
  <2> QED  BY <2>1 DEF RemoveMember
<1>4. RowsInv'
  BY <1>1, <1>2, <1>3 DEF EditsInv, RowsInv
<1>5. \A r \in Editors : Fits(requests[r], slots', review', participants', members')
  <2>1. \A r \in Editors : Fits(requests[r], slots, review, participants, members)
    BY DEF EditsInv
  <2> QED  BY <1>1, <1>2, <1>3, <2>1 DEF Fits, PersonFits
<1>6. /\ NoRequest \in Edit /\ Fits(NoRequest, slots', review', participants', members')
      /\ \A r \in Editors \ {q} : OwnLocks(NoRequest, requests[r])
  BY NoRequestFits
<1> QED  BY <1>1, <1>4, <1>5, <1>6, EditReplaced

LEMMA LeaveKeeps ==
  ASSUME EditsInv, NEW q \in Editors, Leave(q)
  PROVE  EditsInv'
<1>1. /\ UNCHANGED <<slots, review, participants, members>> /\ edits' \in 0 .. MaxEdits
      /\ requests' = [requests EXCEPT ![q] = NoRequest]
  BY DEF Leave, Finish, EditsInv
<1>2. /\ NoRequest \in Edit /\ Fits(NoRequest, slots, review, participants, members)
      /\ \A r \in Editors \ {q} : OwnLocks(NoRequest, requests[r])
  BY NoRequestFits
<1> QED  BY <1>1, <1>2, EditMoves

LEMMA NextEdits == EditsInv /\ [DomainsNext]_domainsVars => EditsInv'
<1> SUFFICES ASSUME EditsInv, [DomainsNext]_domainsVars PROVE EditsInv'
  OBVIOUS
<1>1. CASE UNCHANGED domainsVars
  BY <1>1 DEF domainsVars, EditsInv, RowsInv
<1>2. CASE DomainsNext
  <2> PICK q \in Editors :
        \/ \E a \in Assets \cup {None}, start, end \in 0 .. Horizon :
             ScheduleRead(q, a, start, end)
        \/ \E s \in Slots :
             \/ ScheduleCommit(q, s)
             \/ \E to \in {"in_progress", "completed", "cancelled"} : SlotRead(q, s, to)
        \/ \E to \in {"open", "under_review", "resolved", "dismissed"} : ReviewRead(q, to)
        \/ \E p \in People : ParticipantRead(q, p) \/ MemberLook(q, p) \/ RemoveMember(q, p)
        \/ SlotCommit(q) \/ ParticipantLook(q) \/ ParticipantCommit(q) \/ ReviewCommit(q)
        \/ MemberCommit(q) \/ Leave(q)
    BY <1>2 DEF DomainsNext
  <2> QED
    BY ScheduleReadKeeps, ScheduleCommitKeeps, SlotReadKeeps, SlotCommitKeeps, ReviewReadKeeps,
       ReviewCommitKeeps, PersonReadKeeps, ParticipantLookKeeps, PersonCommitKeeps,
       RemoveMemberKeeps, LeaveKeeps
<1> QED  BY <1>1, <1>2

LEMMA EditsInvariance == DomainsSpec => []EditsInv
BY InitEdits, NextEdits, PTL DEF DomainsSpec

\* Rows and requests of the domains keep their types.
THEOREM DomainsTypeCorrect == DomainsSpec => []DomainsTypeOK
<1>1. EditsInv => DomainsTypeOK
  <2> SUFFICES ASSUME EditsInv PROVE DomainsTypeOK
    OBVIOUS
  <2>1. \A q \in Editors : requests[q].on \in Assets \cup Slots \cup People \cup {None}
    BY DEF EditsInv, Edit, EditObjects
  <2>2. participants \in [People -> Nat] /\ members \in [People -> Nat]
    BY DEF EditsInv, RowsInv
  <2> QED  BY <2>1, <2>2 DEF DomainsTypeOK, EditsInv, RowsInv
<1> QED  BY <1>1, EditsInvariance, PTL

\* No two reservations of an asset that stand overlap, and nobody is twice in a review or in a
\* group, for any number of requests, reservations, assets and people.
THEOREM NothingTwice == DomainsSpec => []Exclusive
<1>1. EditsInv => Exclusive
  <2> SUFFICES ASSUME EditsInv PROVE Exclusive
    OBVIOUS
  <2>1. \A s, t \in Slots : s # t => Clear(slots[s], slots[t])
    BY DEF EditsInv, RowsInv
  <2>2. \A p \in People : participants[p] \in 0 .. 1 /\ members[p] \in 0 .. 1
    BY DEF EditsInv, RowsInv
  <2> QED  BY <2>1, <2>2 DEF Exclusive, Clear, Blocks, Stands, Standing, Overlaps
<1> QED  BY <1>1, EditsInvariance, PTL

\* A step that is not a commit of a reservation or of a review changes no status of one that is
\* there.
LEMMA StatusesStay ==
  ASSUME EditsInv, [DomainsNext]_domainsVars
  PROVE  \/ UNCHANGED <<slots, review>>
         \/ \E q \in Editors :
              \/ UNCHANGED review /\ SlotCommit(q)
              \/ UNCHANGED review /\ \E s \in Slots : ScheduleCommit(q, s)
              \/ UNCHANGED slots /\ ReviewCommit(q)
<1>1. CASE UNCHANGED domainsVars
  BY <1>1 DEF domainsVars
<1>2. CASE DomainsNext
  BY <1>2 DEF DomainsNext, ScheduleRead, ScheduleCommit, SlotRead, SlotCommit, ReviewRead,
       ReviewCommit, ParticipantRead, ParticipantLook, ParticipantCommit, MemberLook,
       MemberCommit, RemoveMember, Leave
<1> QED  BY <1>1, <1>2

\* No transition is applied to a reservation or a review it was not judged by.
THEOREM TransitionsAsRead == DomainsSpec => JudgedAsRead
<1> DEFINE Step ==
      /\ review'.status # review.status => review'.status \in NextOfReview[review.status]
      /\ \A s \in Slots : slots[s] # NoSlot /\ slots'[s].status # slots[s].status =>
           slots'[s].status \in NextOfSlot[slots[s].status]
<1>1. EditsInv /\ [DomainsNext]_domainsVars => [Step]_domainsVars
  <2> SUFFICES ASSUME EditsInv, [DomainsNext]_domainsVars PROVE Step
    OBVIOUS
  <2> HIDE DEF Step
  <2>0. slots \in [Slots -> Slot]
    BY DEF EditsInv, RowsInv
  <2>1. CASE UNCHANGED <<slots, review>>
    BY <2>1 DEF Step
  <2>2. ASSUME NEW q \in Editors, UNCHANGED review, SlotCommit(q) PROVE Step
    <3>1. PICK s \in Slots, row \in Slot :
            /\ row.status \in NextOfSlot[slots[s].status] /\ slots' = [slots EXCEPT ![s] = row]
      BY <2>2, SlotWritten
    <3> QED  BY <2>0, <2>2, <3>1 DEF Step
  <2>3. ASSUME NEW q \in Editors, UNCHANGED review, NEW s \in Slots, ScheduleCommit(q, s)
        PROVE Step
    BY <2>0, <2>3 DEF Step, ScheduleCommit
  <2>4. ASSUME NEW q \in Editors, UNCHANGED slots, ReviewCommit(q) PROVE Step
    BY <2>4, ReviewCommitKeeps DEF Step
  <2> QED  BY <2>1, <2>2, <2>3, <2>4, StatusesStay
<1>2. DomainsSpec => [][Step]_domainsVars
  BY <1>1, EditsInvariance, PTL DEF DomainsSpec
<1> QED  BY <1>2 DEF JudgedAsRead
=============================================================================
