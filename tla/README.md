# Orgo Worlds in TLA+

Orgo Worlds is a multi-tenant work-management service. People and other systems
send commands over HTTP; commands change Tasks, Cases and Signals; whatever has to
happen outside the database (a call to a provider, a notification, the processing
of a signal) is put in a transactional outbox and delivered by worker loops;
durable processes drive external operations, approvals and timers one step at a
time; a browser queues commands while it is offline and replays them later.

This directory holds TLA+ models of the parts whose correctness depends on what
happens between two statements: other requests, other workers, crashes, expired
leases, late callbacks, promotions, retries. TLC checks them on small instances, and TLAPS
proves their safety for every value of the constants.

Paths below are relative to `src/apps/api/src/orgo` unless they start with `web/`
(`src/apps/web/src/orgo`), `docs/` (`src/docs`) or name a test.

## 1. The system

| Component | State | Operations | Talks to |
| --- | --- | --- | --- |
| Commands (`platform/database.ts`) | idempotency records, event log | `Commands.run`, `recordEvent`, `enqueue` | every mutation runs through it |
| Outbox (`platform/outbox/worker.service.ts`) | messages with status, attempts, lease, token | enqueue, claim, heartbeat, complete, fail, redrive, retention | operations, notifications, intake |
| External operations (`modules/integrations`) | operation with status and receipt | request, deliver, callback, redrive | outbox, processes, providers |
| Durable processes (`modules/orchestration/process-manager.service.ts`) | frozen plan, step, status, revision, results | create, tick/advance, decide, adopt, compensate | external operations, people |
| Worker loop (`src/worker.ts`) | time of last process tick, escalation, cleanup | one iteration after another | processes, escalation, outbox |
| Escalation (`modules/orchestration/escalation.service.ts`) | none of its own | escalate overdue tasks | Tasks |
| Tasks and Cases (`modules/work`) | rows with status, revision, parent, visibility | create, change status, edit, assign, label, reparent, archive | everything |
| Intake (`modules/intake`) | signals | accept, queue, process | outbox, workflows |
| Workflows, actions, routing (`modules/orchestration`) | definitions, versions, instances, rules | publish, execute, route | Tasks, operations, processes, notifications |
| Notifications (`modules/communications`) | notification rows | request, deliver | outbox, mail and HTTP gateways |
| Worlds (`modules/worlds`) | Worlds, releases, memberships | resolve, create, release, promote, grant and remove members, archive | the guard of every request |
| Identity (`modules/identity`) | users, sessions, tokens, challenges, OIDC attempts | login, authenticate, invite, recover, consume | every request, resumed principals |
| Domains (`modules/domains`) | reservations, HR reviews and participants, group memberships | schedule, change status, review, join, leave | Tasks and Cases |
| Evidence, insights | attachments, relations | single inserts, reads | Tasks and Cases |
| Interaction kernel (`modules/interaction-kernel`) | idempotency records of decisions, artifact links, build and release records | receive and route decisions, export, record | Worlds, workflows, intake, worker |
| Offline queue (`web/offline.ts`) | commands in localStorage | add, remove, replace, replay | `sync.controller.ts`, Commands |

What is shared is the PostgreSQL database at read-committed isolation, advisory
locks taken by name for the length of a transaction, and rows locked by the
statement that updates them. Nothing else orders two requests or two workers. The
behaviours that are hard to test follow from this:

* a row is read, judged, and written by a later statement, with or without a lock
  that the other writers take too;
* a worker calls a provider with no transaction open, and its lease may expire
  while it waits, so that two workers are at work on the same message;
* the provider reports back before, during or long after the call returns;
* a worker or a server dies anywhere, and everything it did in its open
  transaction is gone while everything before is not;
* a person or a client repeats what may or may not have happened.

What makes each component correct, and therefore what the properties say:

* *Outbox*: an acknowledged message is never revived; a claimed row can always be
  taken over; every message is acknowledged or buried after a bounded number of
  attempts.
* *External operations*: no open operation without a message that will deliver it;
  a receipt once final is not overwritten by an older answer; an operation and
  its message change together; every request comes to an end.
* *Processes*: steps complete in order and only on success; no external effect is
  requested twice or forgotten; an ended process does not move; a decision is
  taken on what the person saw; compensation undoes exactly what was done, once.
* *Work*: no lost update; terminal tasks and archived cases stay as they are;
  nothing enters an archived case; confidentiality survives reparenting.
* *Worker loop*: no stage starves another; what is overdue is escalated.
* *Commands and offline queue*: each command takes effect at most once in its
  World, none is lost, and one whose failure is answered does not hold up the rest.
* *Intake and notifications*: a signal's workflow takes effect once or not at all; a
  notification says of itself what is true of its message.
* *Worlds*: releases are numbered without gaps, and one is current.
* *Interaction kernel*: a decision runs in the generation its request was resolved in,
  and acts once, however often and under whatever key it is sent.
* *Identity*: an account has one link at most, and it works once; a password gives way
  to whoever knew it or holds the link; no session outlives the disabling of its
  account.
* *Domains*: an asset is not reserved twice at a time; nobody is twice in a review or
  a group.

## 2. The modules

```
DeliveryQueue  <--implements--  Outbox  <--extends--  IntegrationOperations  --implements-->  IntegrationLifecycle
                                  ^                          ^                                        ^
                             OutboxProofs        IntegrationOperationsProofs                          | instance
                                                                                              ProcessManager <- MCProcessManager
Outbox  <--extends--  Intake <-- IntakeProofs                          ProcessManager <-- ProcessManagerProofs
Work  <--extends--  WorkerLoop <-- WorkProofs --> Domains       OfflineReplay <-- OfflineReplayProofs
Worlds  <--extends--  InteractionKernel <- MCInteractionKernel         Identity <-- IdentityProofs
                              ^
                     InteractionKernelProofs
```

**DeliveryQueue** is what the outbox promises: a message put in the queue is done
or buried, a done one is never worked on again, an operator may revive a buried
one.

**Outbox** is the claim protocol. `rows` are `outbox_messages`, `hands` the copies
of rows the workers got from their claims. `Claim` is the single UPDATE over a
`FOR UPDATE SKIP LOCKED` subquery (worker.service.ts:40-51); `Owns` is `owned()`
(66-71); `Complete` and `Fail` are the final transactions of `handle`, which write
only under the fence; `Forfeit` is the same transaction finding the claim taken
over; `Heartbeat`, `LeaseLapses`, `LeaseMissed` and `BackoffEnds` are what time
does; `Redrive` and `Purge` are the operator's endpoints. The token of a claim is
named by the worker that drew it: a worker handles one message at a time, so two
tokens of one worker on one row never meet. Time is kept as what the queries can
tell apart: due or not, live or expired.

**IntegrationLifecycle** is an external operation as its requesters see it: none,
open, accepted, succeeded, failed, and the moves between them.

**IntegrationOperations** extends the outbox with `integration_operations`.
`Read`, `Mark`, `Execute` and the acknowledgement or failure of a delivery are
separate steps because they are separate statements, with a provider's call in
between; so are the read and the write of a callback and of a process retry, whose
updates name the row only. The acknowledgement waits for the advisory lock
`integration:id` (`callback[m] = "idle"`) and reads the row again; the `RUNNING`
mark is outside any fence. An operation and its only message share a name. That a
provider reports only on what it has been sent (`started`, in the guard of
`CallbackRead`) is assumed of the providers; the code does not check it.

**Intake** extends the outbox with `signals` and `notifications`. A signal is
accepted in one transaction (`Accept`) and processed in another: `Begin` is the
fence, the advisory lock `process-signal` and the read of the status
(intake.service.ts:147-149), `Commit` is everything the processing transaction
leaves (the workflow instance, the notices its actions queue, the status, the
acknowledgement), and `Throw` from there leaves nothing. Between the two the row of
the message is locked (`Locked`), so that claims skip it even when its lease has
expired. `QueueRead`/`QueueWrite` are the request that queues a signal without a
lock. `ReadNotice`, `Send` and `AcknowledgeNotice` are the delivery of a
notification; the first two are outside the fence. What a workflow does to tasks,
operations and processes is represented by its instance; those have modules of
their own.

**ProcessManager** runs plans over the abstract lifecycle, so it need not repeat
the delivery. Transactions on a process hold the advisory lock `process:id` and are
one action, with two exceptions the code has: a refusal is written outside the lock
by a comparison of revisions (`Block`), and a late report may come between the read
and the write of a retry. `Enter`/`Advance`, `CancelRead`/`CancelWrite` and
`RetryRead`/`RetryWrite` are split for these. The plan's data are reduced to the
kind of each step, and a compensating step names the step it undoes.

**Work** keeps Tasks and Cases with the columns that decide anything: status,
revision, parent, visibility, escalation level. A request reads (`...Read`: judged
on the row as it was), and writes by compare-and-update (`...Write`); the
advisory lock `case:id` is `txn[q].locks`. **WorkerLoop** extends it with the loop
of the worker process and the transaction of the escalation, which locks the rows
it selects (`EscalateAll`). The code takes at most 25 of them in a tick and skips those
another transaction holds, the oldest deadline first: both leave a task to a later tick,
and in the model, where the write of a request is its commit and there is one task, no
tick has anything to leave.

**OfflineReplay** is the browser's queue, the replay endpoint and `Commands.run`.
`Enter` takes the lock of organization, World, operation and key and looks the
record up; `Answer` returns the stored reply or the conflict; `Execute` commits
effect and record together. A broken connection leaves the server working
(`Break`); a dying server rolls back (`Die`). A command that fails with a `DomainError`
is answered in its place in the batch; anything else is thrown on (sync.controller.ts:89)
and ends the batch without results, the commands before it committed. The error may pass
(`Die`), or come each time the command is executed, as for a revision beyond the range of
its column: which commands are like that is chosen at the start (`raising`), and `Raise`
is what they do, without bound. What `filter` keeps of a list is
enumerated by position (`QueueAt`) and not with `SelectSeq`, of which the provers know
nothing.

**Worlds** is the control plane and the guard. `Arrive` is `AuthGuard`
(boundary.ts:35-69): it resolves World, role and current release into the context of
the request, and everything the request does later happens in other transactions.
`Manage` resolves a World again and checks the role; `NumberRead`/`CreateRelease` and
`PromoteRead`/`PromoteWrite` are the two transactions under the lock of the releases;
`ArriveFirst`/`FoundMain` are `ensureDefaultWorld`, which looks again under its lock.
Membership and archiving are one step, since nothing they read is kept.

**InteractionKernel** extends it with the boundary that receives decisions and what
that stands on. `Publish` is the publication of a workflow through `Commands.run`,
which pins the version to the release of the context; the fingerprint compared there is
that of author, authority (permissions, roles, grants and token as one value), release
and input. `Route` is the transaction of
`receive` up to the lock of the idempotency key and the choice of the version
(interaction-kernel.service.ts:154-251), `LookUp` is `IntakeService.accept` under the
lock of the external reference, `Admit` its commit, and `Process` the worker that runs
the signal later, in the World and release its message carries.

**Identity** has accounts, passwords, links (`identity_challenges`) and sessions. A
transaction that first updates the row of the account holds it until it commits
(`RowFree`); the change of a password and the use of a link are therefore one step
after their reads, and the enabling or disabling of an account is two, because the
opening of a session does not wait for an account that is not active
(identity.service.ts:59). A password is the number of the request that set it. An
account has one federated identity; the single-use rows of a login attempt, which one
conditional update takes, are left out.

**Domains** has the reservations of assets, one HR case with its participants, and one
group. A transaction is its reads under the lock, and its commit. Rows that must not be
there twice are counted, so that a second one can be seen. It shares no state with Work,
only its discipline (locks taken by name, revisions compared by the update); its proofs
stand in `WorkProofs` beside those of Work.

Operators marked "Faulty variant" are plausible bugs of the definition that follows
them (a dropped guard, a forgotten half of an update). No specification uses them;
each is put in the place of the correct definition to see that a property fails.

## 3. What is checked

| Run | Module and bounds | Distinct states | Properties |
| --- | --- | --- | --- |
| `operations` | IntegrationOperations; 1 operation of a process, 2 workers, 2 attempts, 2 faults | 63 545 | `TypeOK`, `NoOrphan`, `AcceptedWaits`, `SuccessIsFinal`, `OperationSettles`, `ImplementsLifecycle`, `ImplementsQueue` |
| `intake` | Intake; 1 signal, 2 messages about it, 1 notification, 2 workers, 1 attempt, 1 fault | 109 476 | `TypeOK`, `RunsOnce`, `NoticesTrue`, `SignalsAnswered` |
| `processes` | ProcessManager; a process of three steps or of two, and its compensation, 1 worker, 2 decisions, 2 faults | 89 107 | `TypeOK`, `CompletedInOrder`, `IntentsTracked`, `CompensationSound`, `EndIsFinal`, `DecidedAsSeen`, `ImplementsLife`, `NeverHangs` |
| `work` | WorkerLoop; 1 task, 2 cases (one restricted), 3 requests, 2 at a time | 342 624 | `WorkTypeOK`, `ShelterKept`, `NoLostUpdate`, `NoWorkForArchived`, `OverdueEscalated`, `MessagesServed` |
| `offline` | OfflineReplay; 2 identities, each raising or not, 2 Worlds, 2 contexts, 2 replays at a time | 389 424 | `TypeOK`, `AppliedAtMostOnce`, `NothingLost`, `EveryCommandAnswered` |
| `kernel` | InteractionKernel; the default World and another, 1 manager, 3 releases each, 6 requests, 2 at a time, 2 keys, 2 contents, 2 envelopes of 1 decision | 224 743 (up to symmetry) | `TypeOK`, `ReleaseLine`, `OneGeneration`, `ActsOnce` |
| `identity` | Identity; 1 account, 2 links, 2 sessions, 7 requests, 2 at a time | 536 292 | `TypeOK`, `LinksSingle`, `PasswordEarned`, `SessionsFresh` |
| `domains` | Domains; 1 asset, 2 reservations, 1 person, 6 requests, 2 at a time | 811 189 | `DomainsTypeOK`, `Exclusive`, `JudgedAsRead` |
| `gate` | ProcessManager as the code resumes it | violated | `GateReached` |
| `escalation` | WorkerLoop as the code escalates | violated | `OverdueEscalated` |
| `replay` | InteractionKernel; 1 World, 2 releases, 2 authorities | violated | `ReplayAnswered` |
| `recovery` | Identity as the code recovers | violated | `LinkHonoured` |

The outbox has no run of its own: `operations` checks that the composition implements
the abstract queue, liveness included, and the invariants of the outbox by itself
(`TokenMarksClaim`, `SnapshotCurrent`, `AcknowledgedIsFinal`) are proved, and so are
`SuccessHasReceipt`, `SettledStaysSettled` and `OutcomeWithAcknowledgement` of the
operations (section 4).

Each property stands in its module with a comment that says what code behaviour it
is about. What the runs show:

* The fence holds. A worker that lost its lease cannot undo what another one
  acknowledged, and it decides between retry and dead letter by the current number
  of attempts as long as it owns its claim. Its unfenced `RUNNING` mark does no harm,
  because it is conditional on the operation being open and every step after it
  copes with `RUNNING`.
* No operation is stranded, the provider is not called again once it has accepted,
  and a success is final but for one case: the retry of a process, which read its
  operation as failed, may race with a late callback and reopen the success.
  `IntegrationLifecycle!Undo` is there because the code allows it, and
  `ProcessManager` takes it into account.
* A signal's workflow takes effect once, whatever number of messages is queued for it:
  a message queued after the signal was processed, which the unlocked read allows, is
  acknowledged and does nothing. A refusal, a crash or a lost claim leaves neither an
  instance nor a notice. A notification may be handed to its transport twice, as
  docs/Technical-Reference/IMPLEMENTATION_DECISIONS.md:35 says, but its status stays
  that of its message.
* A process never completes a step whose operation has not succeeded, never asks
  for an effect twice, and never hangs, though a provider may never answer.
* The compare-and-update of Work loses no update for requests that name a revision
  somebody was given (`Ahead = 0`). The update compares the revision of the request
  and not that of the row judged; a request that names a revision not written yet
  can have an old judgement applied, which TLC shows with `Ahead = 1`. The clients
  in the repository send the revision they read.
* A replay may be running twice, be answered late or never, and still each command
  takes effect at most once in a World. A command that is refused is marked and holds up
  no other. One whose execution always raises something else than a `DomainError` does:
  every replay of a batch it is in fails, it is never marked, those before it take effect
  without being reported, and those behind it are not executed, until its user takes it
  off the queue or corrects it. `EveryCommandAnswered` therefore says that a
  command is answered or that there is such a one in the batch (which may be the command
  itself). No doc says what should happen.
* A request keeps the release the guard gave it, and what it starts runs in that
  release, also after a promotion. A decision sent again under its own key is answered
  from its record, under another key it finds its signal by the external reference, and
  it never acts twice. Two things follow from the same rules, which no doc decides:
  unchanged content published again after a promotion stays the version of the old
  release, so that the kernel finds no version to route to in the new one; and an
  archived World still finishes what was queued in it.
* No session outlives the disabling of its account. The opening of a session inserts its
  row only after an update of the row of an active account, for which it waits while the
  disabling is open, so that it is either among the sessions that are ended or comes
  after, when the account is not active. What comes after is not prevented: the update
  names the row only, the session is inserted and then refused for as long as the
  account is not active, and one inserted between the begin and the commit of the
  enabling is there, open, when the account is back. In the same way a login admitted
  with the old password may open its session after a change of the password has ended
  the others. A change of the password itself loses no race. The use of a link does not look at the account again: it
  makes an account active that was disabled after the link was read.
* Reservations do not overlap. A cancelled one cannot be taken up again by a request
  that saw it planned, for which the lock of the calendar would not be enough. A person
  may join a review that was closed after the request had looked at it.

### Disagreements with documentation and tests

* `gate`: `ProcessManager.tick` resumes a principal without a World
  (process-manager.service.ts:503), and `advance` reads the subject in a World, so
  every process is blocked by its first tick. runtime.test.ts:1094-1096 expects
  `WAITING_HUMAN`.
* `escalation`: the escalation's context has no World either
  (escalation.service.ts:22), so a single overdue task makes every tick throw, and
  the iteration ends before the outbox. runtime.test.ts:831-851 expects `ESCALATED`.

* `replay`: the fingerprint of a command includes the release of its context
  (database.ts:44), so that after a promotion the retry of a committed command is
  answered `IDEMPOTENCY_CONFLICT`.
  docs/Technical-Reference/IMPLEMENTATION_DECISIONS.md:31 has it conflict only when the
  input or the authorization context changed. The boundary of the kernel leaves the
  context out of its fingerprint and answers the replay.
* `recovery`: the reset of a password records its event in a context without a World
  (identity-admin.service.ts:348-360), `recordEvent` throws, and the transaction rolls
  back, so that no invitation and no recovery link ever sets a password.
  docs/Technical-Reference/COMMON_IDENTITY.md:31 lists both as implemented.

Three constants say which program is meant. `ResumedInWorld`, `EscalatesInWorld` and
`RecoversInWorld` are "no" in the code of this commit, and the runs `gate`,
`escalation` and `recovery` show what that does. With "no", no process ever takes a
step, no task is ever escalated and no link is ever used, and everything else about
them would hold vacuously; the runs `processes`, `work` and `identity` therefore set
"yes", which is the design the tests and docs describe: the context carries the World
of the row, as that of a signal's delivery does (worker.service.ts:129).

### Bounds

The constants that cut an unbounded space off are named in the modules
(`MaxAttempts`, `MaxFaults`, `MaxDecisions`, `MaxLength`, `MaxRequests`, `MaxChanges`,
`MaxEdits`, `BatchSize`). Two attempts instead of eight: all that the code compares is whether
the limit is reached and whether it is passed, and both happen; in `intake` one
attempt and a redrive of the dead message do the same. Two workers: a
hazard of the outbox is between the holder of an old claim and the one of the
current claim. Two faults let a claim be lost, taken over, and lost again. Three
requests on a task: one to create it and two to race, while the escalation is a
third writer; an update is lost between two requests and confidentiality between
a reparenting and the move before it. A plan of two requests has a step before and
a step after the one in question, and an approval between them; a timer has a plan of
its own. One worker loop ticks the processes: ticks lock the process, and the refusal
that does not is raced by decisions and reports. Two identities of commands allow a command and its correction.
Two messages about one signal are what the lock of
processing is for; the notification may be asked for by a person or by the workflow.
Faults are counted only so that they do not happen for ever: liveness is claimed
for systems that eventually stop failing.

Three releases: a request of the first can meet the promotion of the second and a
draft of the third. Two links let one be asked for while another is open; seven requests
create an account, give it a link, a session, a login and a change that race. Two
reservations, a cancellation and a late start between them are what an overlap takes.

Only `kernel` declares a symmetry (requests, keys, contents and envelopes, which appear
in no action by name), because it checks invariants only; it is unsound for liveness.

### Fairness

* A worker that holds a message goes on with `handle` (weak fairness): every wait in
  it has a timeout, the adapter's ten seconds and the transactions' own.
* Leases lapse, back-off ends, timers come due (weak fairness): clocks advance.
* A claimable message, and an active process, is not passed over for ever (strong
  fairness): claims are ordered by `available_at`, batches by `updated_at`, which
  each tick renews, so that the oldest comes first, whoever claims in between.
* Transactions end: they commit, abort or time out (weak fairness).
* The worker loop runs (weak fairness on the whole loop, not on its stages: which
  stage comes next is the code's order).
* A user who has queued commands goes on synchronising, and the server answers.
* Nothing is assumed of providers, callbacks, operators or people: a provider may
  accept and never report, and nobody need decide on a process.

## 4. What is proved

Assumptions are those named in the modules: `OutboxAssumption` (null is not a worker
or a message, the limits are numbers), `ProcessOpsAssumption`, `IntakeAssumption`
(notifications are messages, null is not a signal), `WorldsAssumption` (the default
World is one of the Worlds, administrators are managers and these are users),
`KernelAssumption` (null is neither a key nor a row), `WorkAssumption` (null is neither
an identity nor a row), `LoopAssumption`, `ProcessAssumption` (compensations are
processes, plans are sequences of steps), `ReplayAssumption`, `IdentityAssumption` and
`DomainsAssumption` (null is none of the values it stands beside, bounds are numbers). Nothing is bounded
but what the modules themselves bound; the sets of messages, workers, Worlds, users,
requests, keys, decisions, processes and commands are arbitrary. Every inductive
invariant was first checked by TLC on the instance of its component's run.

The safety theorems do not assume that the code is repaired: those about processes, work
and identity hold whichever of "yes" and "no" `ResumedInWorld`, `EscalatesInWorld` and
`RecoversInWorld` are. Beside them, three theorems are about the code of this commit, and
say of every instance what a violated run shows of one:

* `gate`: with `ResumedInWorld = "no"`, `NothingRunsWithoutWorld`: every process stays at
  its first step, no operation is requested and nobody is asked to decide, and none is
  completed or compensated. A tick blocks it, a retry makes it running, and the next tick
  blocks it again.
* `escalation`: with `EscalatesInWorld = "no"`, `OverdueStopsOutbox`: the loop changes no
  task, and one that finds an overdue task when the interval has elapsed never comes to
  the outbox again, whatever waits there, unless a person moves the task.
* `recovery`: with `RecoversInWorld = "no"`, `LinksWithoutEffect`: no link is ever used.

`OutboxProofs`: `OutboxInv` (types, `TokenMarksClaim`, `SnapshotCurrent`) is
inductive. The step that needs thought is the takeover: the token of the new claim is
not the old worker's, so the old worker owns nothing, and the row's attempts are those
the new worker has in hand. From it follow the three invariants,
`OutboxAcknowledgedIsFinal` (only rows in process are written by workers, and
`TokenMarksClaim` says which these are), and `OutboxRefinesQueue`: each action maps to
a step of the abstract queue or to a stutter.

`IntegrationOperationsProofs`: every step of the composition is a step of the outbox
(`OperationsImplementOutbox`), which brings `OutboxInv` with it. The invariants the
runs check are not inductive by themselves; `IInv` adds

* `Requested`: an operation exists exactly when its message does;
* `CallbackOpen`: a callback that has read its operation as open finds it requested
  and not succeeded when it writes. It needs the advisory lock that the
  acknowledgement waits for;
* `RetryOfProcess`: only operations of processes are being retried.

`NoOrphan` and `AcceptedWaits` carry each other: an accepted operation has an
acknowledged message, so neither a redrive nor a failure touches it, and an open
operation that has not been accepted has its message still to come because the two
halves of each transaction change together. `SettledStaysSettled` needs the fence.
From `IInv` come the five invariants, the action properties
`OperationsSuccessIsFinal` and `OperationsOutcomeWithAcknowledgement`, and
`OperationsRefineLifecycle`, the safety part of the refinement. `OperationsServeProcesses`
says more than that: who makes the abstract move. A request opens an operation, the retry
of a process reopens or undoes one, and whatever else happens (deliveries, callbacks,
redrives, crashes) is on the abstract operations a step that
`ProcessManager!OperationMoves` lets its environment make, or none. That is what the
process manager assumes of the operations it drives; `ProcessesImplementLife` is what it
gives them, so that the two models fit at `IntegrationLifecycle` without a product of
their states.

`IntakeProofs`: all steps but one are steps of the outbox; the commit of a processing
transaction acknowledges one message and queues others at once, so `OutboxInv` is
shown for it separately (`CommitOutboxInv`, `IntakeKeepsOutbox`). `RunsOnce` is not
inductive: one has to know that the status read at the beginning still holds at the
commit. `Processing` says so: an open processing transaction owns its message, its
signal is still received, and no other is open for that signal. The first part
needs the row lock (`ProcessingKeepsClaim`: nobody takes the message away, not even
after the lease expired), the others the advisory lock (`BeginFinds`). `Queued` (a
message of a signal names it) and `Sending` (what counts as delivered has been taken
by a transport) complete `IInv`, from which `IntakeRunsOnce` and `IntakeNoticesTrue`
follow. Intake does not implement `DeliveryQueue`, which moves one message at a time:
`IntakeServesQueue` says what it does instead, one move or the commit's `Exchange` of the
message of a signal for the notices its workflow asked for, and
`IntakeAcknowledgedIsFinal` that the promise holds all the same. `IntakeProcessedOnce` is
about the step: a signal becomes processed only together with the acknowledgement, by the
owner of the message, and its workflow is not run again.

`InteractionKernelProofs`: the invariant has two halves. `WorldsInv` is about the
control plane: `Scoped` (a request that passed the guard has a World that exists and a
release of it), `Unwritten` (a row that was not written is empty), `ReleaseLine`, and
`Numbering`, which says what the lock of the releases gives: one request at a time
numbers or promotes in a World, the releases before its number are written, and what it
saw as current is still current when it writes. Each operation of the control plane is
shown to keep it (`WorldsSteps`), and everything the boundary does is for the control
plane a request that moves on or ends (`CalmStep`). For the boundary, `Admitting` says
what an open admission has read and may still rely on: no record under its key, no
other admission of its key or, past the look-up, of its decision in its World, the
version of the workflow and the route it chose, and for its decision the signal it
found or none. The control plane keeps this because it touches no context but that of
the request itself and never takes a route from a release (`WorldsKeep`), and
publications only append versions (`PublishedExtends`). `Receipted` (a signal was
admitted with the record of its key) makes sure that an admission overwrites no signal.
`OneGeneration` and `ActsOnce` follow step by step.

`WorkProofs` is about the whole of `WorkerLoop`, escalation included. Its invariant
says what a copy is worth: one that names a revision is not newer than its row, and
equal to it when the revisions are equal, because every write increments the revision;
who holds the lock of a case is alone with it, so that what it has read of the case
still holds; and no two open requests create the same task. `ArchivedStaysEmpty`
rests on the lock and needs nothing else. `AcceptedAsRead`, `ClosedStays` (a terminal
task and an archived case stay as they are, which no run checks) and `Shielded` assume
`Ahead = 0`, requests that name a revision somebody was given: section 3 says what
happens otherwise. With it an accepted request has read the row it changes
(`AcceptedIsCurrent`), so that a reparenting copies the visibility of the case the task
really leaves.

`ProcessManagerProofs`: `IInv` has five parts. `Placed` ties the place of a process in
its plan to its results (one for each step before it, in order), to its operations (the
external ones before it have succeeded, none beyond it exists, and the one at it is
recorded in the row) and to its status. `Copies` says what a worker's or a person's copy
is worth, as in Work. `Locking` says who is inside a transaction on a process and what
it may still rely on there: a worker that has entered is alone, a person's decision
shuts workers out, and the only thing that may change the row meanwhile is a refusal,
which is written outside the lock. `Compensated` says that a compensating plan undoes
operations that have succeeded and that none of them is being reopened. This is where
`IntegrationLifecycle!Undo` might have hurt: a late report may settle an operation
between the two halves of a retry, which then reopens a success. It cannot be one that a
compensation undoes: a process is compensated under the lock the retry holds, and the
retry began when its operation had failed, which no compensation made before it undoes. That the compensation undoes the last step first and each
once is a fact about the numbering of a finite set (`LaterNumbers`: an injection into as
many numbers is onto them). `EndedIsFinal` needs `Copies` for the refusal: an ended row
has another revision than the one a worker has picked as active. `ProcessesImplementLife`
maps each step to one of `IntegrationLifecycle` or to a stutter, and brings the process
manager and the operations together at the same abstraction.

`OfflineReplayProofs`: a transaction under the lock of a key has read the record there
still is (`Locked`), so that an execution is the first; and an outcome reported as a
success is on record, whoever waits for it (`Served`), so that what the merge takes off
the queue has taken effect. `AppliedOnce` follows from the first part, `NoCommandLost`
from both and from what the merge keeps (`QueueAtFacts`, `MergeFacts`): it is for queues,
batches and plans of edits of any length.

`IdentityProofs`: `Issuing` says that who issues a link for an account is alone with its
links and has read all that are open, `Consuming` that a link is unused until its only
consumer commits, though a change of the password or another link may have closed it
meanwhile, and `Owned` that only accounts that exist have links, which keeps an
invitation out of the way of both. `SingleLinks` and `EarnedPassword` follow;
`Holding` is the
argument of `FreshSessions`: a transaction that changes the status of an account is alone
with its row from its begin, and as long as the account is active it has read every open
session there is, because an opening waits for that row; so its commit ends them all.

The proofs of `Domains` rest on `EditsInv`, which says what a request may still rely on
when it commits. The rows are looked through first and written later, so `Exclusive` is not
inductive: for a reservation, nothing that stands overlaps the interval it has looked for
(`ScheduleFits`), since only who holds the lock of the asset's calendar adds to it
(`OwnLocks`) and a reservation that was cancelled never stands again; a person who was not
in the list is not in it yet (`PersonFits`), for the same reason; and a row has the
revision a transition has seen only while it has the status the transition was judged by
(`SlotFits`, `ReviewFits`), as every write increments it. `NothingTwice` and
`TransitionsAsRead` follow, for any number of assets, reservations and people.

Only model-checked: liveness (`ImplementsQueue` and `ImplementsLifecycle` beyond
safety, `OperationSettles`, `NeverHangs`, `OverdueEscalated`, `MessagesServed`,
`EveryCommandAnswered`, `SignalsAnswered`), which is out of the prover's reach. Every
safety property of a passing run is a theorem.

## 5. What is left out

Left out on purpose: the evaluation of workflow conditions and of expectations on
receipts (pure functions of data; their outcomes are choices), access checks and
permissions beyond the roles of a World (a refusal is a choice), labels, comments,
attachments and relations, well-being records, API tokens (single inserts that nothing
else depends on), token cryptography and the attempts of a federated login, rate limits
and the circuit of the HTTP bridge (their windows are real time; what they cause, a
refusal or an answer to try again, may happen at any time in the models), validation
of envelopes, exports and the append-only build and release records of the kernel,
message texts and transports, the user interface and operator scripts. Insights and
telemetry have no state whose interleavings matter.

`src/legacy` is three quarters of the lines of the repository. Its README calls it
"retained as reference, excluded from active compilation and deployment": it has no
behaviour in the running system, so there is nothing to model, and the share of the
repository the models translate is small for that reason.

Not modelled because the code gives nothing to model them against: two tabs of a browser
that write the same item of localStorage (`web/offline.ts:28`).

Not done: one inductive invariant for the composition of process manager, operations and
outbox, whose product TLC cannot explore. The composition is reasoned about at its
interface (`OperationsServeProcesses`, `ProcessesImplementLife`). A change of the code
that these models depend on shows first in their guards: the fence (`Owns`), the advisory
locks (`Begin`, `LockFree`, `ReferenceFree`, `LinkLockFree`) and the comparisons of
revisions (`Block`, `Matches`, `Unchanged`, `SlotUnchanged`), each of which has a faulty
variant that TLC finds out.
