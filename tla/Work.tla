-------------------------------- MODULE Work --------------------------------
(***************************************************************************)
(* Tasks and Cases (modules/work/work.service.ts).  A request reads rows,  *)
(* judges what it read and then writes by comparing the revision it was    *)
(* asked to act on with that of the row; several requests do so at once at *)
(* read-committed isolation.  The comparison and the commit are one step,  *)
(* for the update keeps the row locked.  What attaches work to a Case, and *)
(* what changes the status of a Case, does so under the lock of the Case.  *)
(*                                                                         *)
(* Access checks, owners and the fields an edit may change are left out:   *)
(* an edit, an assignment and a reroute differ in nothing that is kept.    *)
(***************************************************************************)
EXTENDS Naturals, FiniteSets

CONSTANTS
  TaskIds, CaseIds,
  RestrictedCases,    \* cases of RESTRICTED visibility
  Requests,           \* transactions that can be open at the same time
  Nothing,            \* null
  MaxRequests,        \* bound on the requests people and workflows make
  Ahead               \* how far a request may name a revision not yet written

VARIABLES
  tasks,       \* rows of tasks, Nothing until created
  cases,       \* rows of cases
  txn,         \* the transaction of each open request
  sheltered,   \* tasks that have been part of a restricted case
  made         \* requests made so far

workVars == <<tasks, cases, txn, sheltered, made>>

TaskMoves ==
  [PENDING     |-> {"IN_PROGRESS", "CANCELLED"},
   IN_PROGRESS |-> {"ON_HOLD", "COMPLETED", "FAILED", "ESCALATED"},
   ON_HOLD     |-> {"IN_PROGRESS", "CANCELLED"},
   ESCALATED   |-> {"IN_PROGRESS", "COMPLETED", "FAILED"},
   COMPLETED   |-> {}, FAILED |-> {}, CANCELLED |-> {}]

CaseMoves ==
  [open        |-> {"in_progress", "resolved", "archived"},
   in_progress |-> {"resolved", "archived"},
   resolved    |-> {"in_progress", "archived"},
   archived    |-> {}]

TaskStatus == DOMAIN TaskMoves
CaseStatus == DOMAIN CaseMoves
TerminalTask == {s \in TaskStatus : TaskMoves[s] = {}}

Task == [status : TaskStatus, revision : Nat, case : CaseIds \cup {Nothing},
         restricted : {"yes", "no"}, level : Nat]
Case == [status : CaseStatus, revision : Nat]

\* Null is neither an identity nor a row.
ASSUME WorkAssumption ==
  /\ Nothing \notin TaskIds /\ Nothing \notin CaseIds /\ Nothing \notin Task
  /\ RestrictedCases \subseteq CaseIds
  /\ MaxRequests \in Nat /\ Ahead \in Nat

Idle == [op |-> "none", on |-> Nothing, to |-> Nothing, asked |-> 0, seen |-> Nothing,
         locks |-> Nothing]

WorkInit ==
  /\ tasks = [t \in TaskIds |-> Nothing]
  /\ cases = [c \in CaseIds |-> [status |-> "open", revision |-> 0]]
  /\ txn = [q \in Requests |-> Idle]
  /\ sheltered = {}
  /\ made = 0

-----------------------------------------------------------------------------
(* The pieces of a transaction.                                             *)

Exists(t) == tasks[t] # Nothing

\* Faulty variant: nobody waits for the lock of a case.
LockUnheeded(c) == c \in CaseIds

LockFree(c) == \A q \in Requests : txn[q].locks # c

\* A request names a revision its sender was given, unless it is ahead of the row.
Askable(row) == 0 .. row.revision + Ahead

Begin(q, t) ==
  /\ txn[q] = Idle
  /\ made < MaxRequests
  /\ made' = made + 1
  /\ txn' = [txn EXCEPT ![q] = t]
  /\ UNCHANGED <<tasks, cases, sheltered>>

End(q) == txn' = [txn EXCEPT ![q] = Idle]

\* Faulty variant: the update does not compare revisions.
MatchesUnchecked(q, row) == txn[q].asked \in Nat

Matches(q, row) == txn[q].asked = row.revision

\* The conditional update of a task; without a match nothing changes.
WriteTask(q, row) ==
  /\ tasks' = IF Matches(q, tasks[txn[q].on])
                THEN [tasks EXCEPT ![txn[q].on] = [row EXCEPT !.revision = @ + 1]]
                ELSE tasks
  /\ sheltered' = sheltered \cup {t \in TaskIds : tasks'[t] # Nothing
                                                   /\ tasks'[t].case \in RestrictedCases}
  /\ End(q)
  /\ UNCHANGED <<cases, made>>

WriteCase(q, row) ==
  /\ cases' = IF Matches(q, cases[txn[q].on])
                THEN [cases EXCEPT ![txn[q].on] = [row EXCEPT !.revision = @ + 1]]
                ELSE cases
  /\ End(q)
  /\ UNCHANGED <<tasks, sheltered, made>>

-----------------------------------------------------------------------------
(* Tasks.                                                                   *)

\* The parent is read and judged under its lock; the task has a fresh identity.
CreateRead(q, t, c) ==
  /\ ~Exists(t)
  /\ \A r \in Requests : txn[r].op = "create" => txn[r].on # t
  /\ c # Nothing => LockFree(c) /\ cases[c].status # "archived"
  /\ Begin(q, [Idle EXCEPT !.op = "create", !.on = t, !.to = c, !.locks = c])

CreateWrite(q) ==
  LET t == txn[q].on IN
  /\ txn[q].op = "create"
  /\ \E restricted \in {"yes", "no"} :
       tasks' = [tasks EXCEPT ![t] = [status |-> "PENDING", revision |-> 0, case |-> txn[q].to,
                                      restricted |-> restricted, level |-> 0]]
  /\ sheltered' = sheltered \cup (IF txn[q].to \in RestrictedCases THEN {t} ELSE {})
  /\ End(q)
  /\ UNCHANGED <<cases, made>>

StatusRead(q, t, to, asked) ==
  /\ Exists(t)
  /\ to \in TaskMoves[tasks[t].status]
  /\ asked \in Askable(tasks[t])
  /\ Begin(q, [Idle EXCEPT !.op = "status", !.on = t, !.to = to, !.asked = asked,
                           !.seen = tasks[t]])

Moved(row, to) ==
  [row EXCEPT !.status = to, !.level = IF to = "ESCALATED" THEN @ + 1 ELSE @]

StatusWrite(q) ==
  /\ txn[q].op = "status"
  /\ WriteTask(q, Moved(tasks[txn[q].on], txn[q].to))

\* assign, patchTask and the reroute of a task.
AmendRead(q, t, asked) ==
  /\ Exists(t)
  /\ tasks[t].status \notin TerminalTask
  /\ asked \in Askable(tasks[t])
  /\ Begin(q, [Idle EXCEPT !.op = "amend", !.on = t, !.asked = asked, !.seen = tasks[t]])

AmendWrite(q) == txn[q].op = "amend" /\ WriteTask(q, tasks[txn[q].on])

\* The task is read before the lock of the new parent is waited for.
LinkRead(q, t, c, asked) ==
  /\ Exists(t)
  /\ tasks[t].status \notin TerminalTask
  /\ asked \in Askable(tasks[t])
  /\ Begin(q, [Idle EXCEPT !.op = IF c = Nothing THEN "link" ELSE "linking", !.on = t, !.to = c,
                           !.asked = asked, !.seen = tasks[t]])

\* Under the lock the parent is read again; an archived one ends the request.
LinkLock(q) ==
  LET c == txn[q].to IN
  /\ txn[q].op = "linking"
  /\ LockFree(c)
  /\ IF cases[c].status = "archived" THEN End(q)
       ELSE txn' = [txn EXCEPT ![q].op = "link", ![q].locks = c]
  /\ UNCHANGED <<tasks, cases, sheltered, made>>

\* Faulty variant: the visibility of the former parent is left behind.
ReparentedBare(row, seen, c) == [row EXCEPT !.case = c]

\* What leaves a restricted case becomes restricted itself.
Reparented(row, seen, c) ==
  [row EXCEPT !.case = c,
              !.restricted = IF seen.case \in RestrictedCases THEN "yes" ELSE seen.restricted]

LinkWrite(q) ==
  /\ txn[q].op = "link"
  /\ WriteTask(q, Reparented(tasks[txn[q].on], txn[q].seen, txn[q].to))

\* Faulty variant: the escalation writes a status of its own.
EscalateAllAsOverdue(overdue) ==
  /\ tasks' = [t \in TaskIds |->
                 IF t \in overdue THEN [tasks[t] EXCEPT !.status = "OVERDUE"] ELSE tasks[t]]
  /\ UNCHANGED <<cases, txn, sheltered, made>>

\* The escalation of overdue tasks locks their rows, so that nothing intervenes.  A tick
\* takes 25 of them and skips rows that are locked, which leaves a task to a later tick:
\* here no row lock outlasts a step, and a tick takes all there are.
EscalateAll(overdue) ==
  /\ tasks' = [t \in TaskIds |->
                 IF t \in overdue
                   THEN [Moved(tasks[t], "ESCALATED") EXCEPT !.revision = @ + 1] ELSE tasks[t]]
  /\ UNCHANGED <<cases, txn, sheltered, made>>

-----------------------------------------------------------------------------
(* Cases.                                                                   *)

CaseStatusRead(q, c, to, asked) ==
  /\ LockFree(c)
  /\ to \in CaseMoves[cases[c].status]
  /\ asked \in Askable(cases[c])
  /\ Begin(q, [Idle EXCEPT !.op = "case_status", !.on = c, !.to = to, !.asked = asked,
                           !.seen = cases[c], !.locks = c])

CaseStatusWrite(q) ==
  /\ txn[q].op = "case_status"
  /\ WriteCase(q, [cases[txn[q].on] EXCEPT !.status = txn[q].to])

CasePatchRead(q, c, asked) ==
  /\ cases[c].status # "archived"
  /\ asked \in Askable(cases[c])
  /\ Begin(q, [Idle EXCEPT !.op = "case_patch", !.on = c, !.asked = asked, !.seen = cases[c]])

CasePatchWrite(q) == txn[q].op = "case_patch" /\ WriteCase(q, cases[txn[q].on])

\* A later check fails, the request times out, or its process dies.
Abort(q) ==
  /\ txn[q] # Idle
  /\ End(q)
  /\ UNCHANGED <<tasks, cases, sheltered, made>>

Read(q) ==
  \/ \E t \in TaskIds :
       \/ \E c \in CaseIds \cup {Nothing} : CreateRead(q, t, c)
       \/ \E asked \in 0 .. MaxRequests + Ahead :
            \/ \E to \in TaskStatus : StatusRead(q, t, to, asked)
            \/ AmendRead(q, t, asked)
            \/ \E c \in CaseIds \cup {Nothing} : LinkRead(q, t, c, asked)
  \/ \E c \in CaseIds, asked \in 0 .. MaxRequests + Ahead :
       \/ \E to \in CaseStatus : CaseStatusRead(q, c, to, asked)
       \/ CasePatchRead(q, c, asked)

Write(q) ==
  \/ CreateWrite(q) \/ StatusWrite(q) \/ AmendWrite(q) \/ LinkLock(q) \/ LinkWrite(q)
  \/ CaseStatusWrite(q) \/ CasePatchWrite(q)

WorkNext == \E q \in Requests : Read(q) \/ Write(q) \/ Abort(q)

-----------------------------------------------------------------------------
(* Properties.                                                              *)

\* Type invariant.
WorkTypeOK ==
  /\ tasks \in [TaskIds -> Task \cup {Nothing}]
  /\ cases \in [CaseIds -> Case]
  /\ \A q \in Requests :
       /\ txn[q].on \in TaskIds \cup CaseIds \cup {Nothing}
       /\ txn[q].asked \in Nat
       /\ txn[q].seen \in Task \cup Case \cup {Nothing}
       /\ txn[q].locks \in CaseIds \cup {Nothing}
  /\ sheltered \subseteq TaskIds
  /\ made \in 0 .. MaxRequests

\* Compare-and-update loses no update: an accepted request changed the very row it
\* had read and judged, whoever else was writing it meanwhile.
NoLostUpdate ==
  [][\A q \in Requests :
       LET x == txn[q].on IN
       /\ (StatusWrite(q) \/ AmendWrite(q) \/ LinkWrite(q)) /\ tasks' # tasks
            => txn[q].seen = tasks[x]
       /\ (CaseStatusWrite(q) \/ CasePatchWrite(q)) /\ cases' # cases
            => txn[q].seen = cases[x]]_workVars

\* Closed work stays as it is: no request that judged it open changes a task in a
\* terminal status or an archived case.
ClosedIsFinal ==
  [][/\ \A t \in TaskIds : Exists(t) /\ tasks[t].status \in TerminalTask => tasks'[t] = tasks[t]
     /\ \A c \in CaseIds : cases[c].status = "archived" => cases'[c] = cases[c]]_workVars

\* Case archival and task attachment share the lock of the case: nothing is
\* created in, or moved to, an archived case.
NoWorkForArchived ==
  [][\A t \in TaskIds :
       /\ tasks'[t] # Nothing /\ tasks'[t].case # Nothing
       /\ Exists(t) => tasks[t].case # tasks'[t].case
       => cases[tasks'[t].case].status # "archived"]_workVars

\* A task that has been part of a restricted case stays shielded: by a restricted
\* case it is in, or by its own visibility, however often it is moved.
ShelterKept ==
  \A t \in sheltered : tasks[t].case \in RestrictedCases \/ tasks[t].restricted = "yes"
=============================================================================
