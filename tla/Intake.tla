------------------------------- MODULE Intake -------------------------------
(***************************************************************************)
(* Signals and notifications, on top of the outbox.  A signal is accepted  *)
(* in one transaction (IntakeService.accept) and processed in another, the *)
(* one that acknowledges the message queued for it (IntakeService.process  *)
(* as the effect of OutboxWorker.complete): its workflow creates work and  *)
(* queues notifications, or nothing of it remains.  A notification and its *)
(* only message are created together and share a name here.                *)
(*                                                                         *)
(* The processing transaction is open for as long as the workflow takes,   *)
(* so its begin and its commit are separate actions; so are the read, the  *)
(* transport and the acknowledgement of a notification, and the read and   *)
(* the write of a request that queues a signal, which locks nothing.       *)
(***************************************************************************)
EXTENDS Outbox

CONSTANTS
  Signals,       \* signals by their identity: World, source and external reference
  Notices        \* the messages of type 'notification'; the others are of type 'signal'

ASSUME IntakeAssumption == Notices \subseteq Messages /\ Nobody \notin Signals

VARIABLES
  signals,       \* signals.status
  instances,     \* workflow instances committed for each signal
  about,         \* the signal a message processes, or whose workflow queued the notice
  notices,       \* notifications.status
  handed,        \* notices that a transport has taken at least once
  queuing,       \* signals that an open request has read as RECEIVED
  stage          \* where each worker is in handle()

intakeVars == <<signals, instances, about, notices, handed, queuing, stage>>
vars == <<rows, hands, faults, signals, instances, about, notices, handed, queuing, stage>>

NoticeStatus == {"absent", "queued", "sent", "failed"}

\* "refused" and "broken" are the errors that handle() catches: another attempt
\* would only repeat the first.
Errors == {"refused", "broken"}
Stage == {"idle", "claimed", "processing", "sending", "delivered"} \cup Errors

Init ==
  /\ OutboxInit
  /\ signals = [s \in Signals |-> "absent"]
  /\ instances = [s \in Signals |-> 0]
  /\ about = [m \in Messages |-> Nobody]
  /\ notices = [n \in Notices |-> "absent"]
  /\ handed = {}
  /\ queuing = {}
  /\ stage = [w \in Workers |-> "idle"]

AtStage(w, s) == Busy(w) /\ stage[w] = s
ToStage(w, s) == stage' = [stage EXCEPT ![w] = s]

\* FOR UPDATE in owned() holds the row until the processing transaction ends:
\* claims skip it and heartbeats wait for it.
Locked(m) == \E w \in Workers : AtStage(w, "processing") /\ hands[w].message = m

-----------------------------------------------------------------------------
(* Requests.                                                                *)

\* Under the lock of the external reference: a second request with the same
\* content finds the first one's signal, one with other content is refused, and
\* neither writes anything.  The message for a requested workflow commits with it.
Accept(s) ==
  /\ signals[s] = "absent"
  /\ signals' = [signals EXCEPT ![s] = "RECEIVED"]
  /\ \/ UNCHANGED <<rows, hands, faults, about>>
     \/ \E m \in Messages \ Notices : Enqueue(m) /\ about' = [about EXCEPT ![m] = s]
  /\ UNCHANGED <<instances, notices, handed, queuing, stage>>

\* POST signals/:id/process reads the signal without a lock...
QueueRead(s) ==
  /\ s \notin queuing
  /\ signals[s] = "RECEIVED"
  /\ queuing' = queuing \cup {s}
  /\ UNCHANGED <<rows, hands, faults, signals, instances, about, notices, handed, stage>>

\* ...and queues a message although the signal may have been processed meanwhile.
QueueWrite(s) ==
  /\ s \in queuing
  /\ queuing' = queuing \ {s}
  /\ \E m \in Messages \ Notices : Enqueue(m) /\ about' = [about EXCEPT ![m] = s]
  /\ UNCHANGED <<signals, instances, notices, handed, stage>>

\* POST notifications, POST templates/:code/send and the link of an invitation.
RequestNotice(n) ==
  /\ Enqueue(n)
  /\ notices' = [notices EXCEPT ![n] = "queued"]
  /\ UNCHANGED <<signals, instances, about, handed, queuing, stage>>

-----------------------------------------------------------------------------
(* Processing of a signal.                                                  *)

ClaimMessage(w, m) ==
  /\ ~Locked(m)
  /\ Claim(w, m)
  /\ ToStage(w, "claimed")
  /\ UNCHANGED <<signals, instances, about, notices, handed, queuing>>

SignalOf(w) == about[hands[w].message]

\* The transaction of complete() starts, for a claim that still stands.
Opens(w) ==
  /\ AtStage(w, "claimed")
  /\ hands[w].message \notin Notices
  /\ ~Exhausted(w)
  /\ Owns(w)

\* The advisory lock process-signal.
SignalFree(s) ==
  \A w \in Workers : ~(AtStage(w, "processing") /\ SignalOf(w) = s)

\* Faulty variant: processing takes no lock.
BeginUnlocked(w) ==
  /\ Opens(w)
  /\ signals[SignalOf(w)] = "RECEIVED"
  /\ ToStage(w, "processing")
  /\ UNCHANGED <<rows, hands, faults, signals, instances, about, notices, handed, queuing>>

Begin(w) ==
  /\ Opens(w)
  /\ SignalFree(SignalOf(w))
  /\ signals[SignalOf(w)] = "RECEIVED"
  /\ ToStage(w, "processing")
  /\ UNCHANGED <<rows, hands, faults, signals, instances, about, notices, handed, queuing>>

\* Another message about the signal came first: acknowledge, run nothing.
SkipProcessed(w) ==
  /\ Opens(w)
  /\ SignalFree(SignalOf(w))
  /\ signals[SignalOf(w)] = "PROCESSED"
  /\ Complete(w)
  /\ ToStage(w, "idle")
  /\ UNCHANGED <<signals, instances, about, notices, handed, queuing>>

\* CommunicationsService.request, for each NOTIFY among the actions.
QueueNotices(new, s) ==
  /\ notices' = [n \in Notices |-> IF n \in new THEN "queued" ELSE notices[n]]
  /\ about' = [m \in Messages |-> IF m \in new THEN s ELSE about[m]]

\* WorkflowService.execute: the instance of this run, which stands for the work, the
\* operations and the processes that its actions create in the same transaction.
RunWorkflow(s) == instances' = [instances EXCEPT ![s] = @ + 1]

\* ActionExecutor.execute: the notices that the resolved actions ask for.
Requested == SUBSET {n \in Notices : rows[n].status = "absent"}

\* Faulty variant: the signal keeps its status.
CommitUnmarked(w) ==
  LET s == SignalOf(w) IN
  /\ AtStage(w, "processing")
  /\ RunWorkflow(s)
  /\ Complete(w)
  /\ ToStage(w, "idle")
  /\ UNCHANGED <<signals, about, notices, handed, queuing>>

\* The signal, the instance, what the actions queued and the acknowledgement, at once.
Commit(w) ==
  LET s == SignalOf(w)
      own == hands[w].message IN
  /\ AtStage(w, "processing")
  /\ signals' = [signals EXCEPT ![s] = "PROCESSED"]
  /\ RunWorkflow(s)
  /\ \E new \in Requested :
       /\ QueueNotices(new, s)
       /\ rows' = [m \in Messages |->
            CASE m = own -> [rows[m] EXCEPT !.status = "SUCCEEDED", !.clock = "none", !.token = Nobody]
              [] m \in new -> [rows[m] EXCEPT !.status = "PENDING", !.clock = "due"]
              [] OTHER -> rows[m]]
  /\ LetGo(w)
  /\ ToStage(w, "idle")
  /\ UNCHANGED <<faults, handed, queuing>>

-----------------------------------------------------------------------------
(* Delivery of a notification.                                              *)

\* One already sent needs only the acknowledgement; the read is not fenced.
ReadNotice(w) ==
  /\ AtStage(w, "claimed")
  /\ hands[w].message \in Notices
  /\ ~Exhausted(w)
  /\ ToStage(w, IF notices[hands[w].message] = "sent" THEN "delivered" ELSE "sending")
  /\ UNCHANGED <<rows, hands, faults, signals, instances, about, notices, handed, queuing>>

\* The mail server or the HTTP channel takes it (for in_app the row is all there is).
Send(w) ==
  /\ AtStage(w, "sending")
  /\ handed' = handed \cup {hands[w].message}
  /\ ToStage(w, "delivered")
  /\ UNCHANGED <<rows, hands, faults, signals, instances, about, notices, queuing>>

\* Faulty variant: the acknowledgement sets a status the row does not know.
AcknowledgeDelivered(w) ==
  /\ AtStage(w, "delivered")
  /\ Complete(w)
  /\ notices' = [notices EXCEPT ![hands[w].message] = "delivered"]
  /\ ToStage(w, "idle")
  /\ UNCHANGED <<signals, instances, about, handed, queuing>>

AcknowledgeNotice(w) ==
  /\ AtStage(w, "delivered")
  /\ Complete(w)
  /\ notices' = [notices EXCEPT ![hands[w].message] = "sent"]
  /\ ToStage(w, "idle")
  /\ UNCHANGED <<signals, instances, about, handed, queuing>>

-----------------------------------------------------------------------------
(* Errors.                                                                  *)

\* Whatever throws, an open transaction is rolled back: a refusal of the domain
\* (an action that is not allowed, a revision that has changed, an actor who is
\* gone), or a failure of the database, of a transport, of a time limit.
Throw(w, error) ==
  /\ Busy(w)
  /\ stage[w] \notin Errors
  /\ Exhausted(w) => error = "refused"
  /\ ToStage(w, error)
  /\ UNCHANGED <<rows, hands, faults, signals, instances, about, notices, handed, queuing>>

\* Faulty variant: the notice is not told of its message's end.
RecordOnMessage(w) ==
  /\ Busy(w)
  /\ stage[w] \in Errors
  /\ Fail(w, stage[w] = "broken")
  /\ ToStage(w, "idle")
  /\ UNCHANGED <<signals, instances, about, notices, handed, queuing>>

\* handle()'s failure transaction: a dead notification has failed.
RecordFailure(w) ==
  LET m == hands[w].message IN
  /\ Busy(w)
  /\ stage[w] \in Errors
  /\ Fail(w, stage[w] = "broken")
  /\ notices' = IF m \in Notices /\ Dead(w, stage[w] = "broken") /\ notices[m] # "sent"
                  THEN [notices EXCEPT ![m] = "failed"] ELSE notices
  /\ ToStage(w, "idle")
  /\ UNCHANGED <<signals, instances, about, handed, queuing>>

\* The claim was taken over: complete() or the failure transaction writes nothing.
ForfeitDelivery(w) ==
  /\ \/ stage[w] \in {"delivered"} \cup Errors
     \/ AtStage(w, "claimed") /\ hands[w].message \notin Notices
  /\ Forfeit(w)
  /\ ToStage(w, "idle")
  /\ UNCHANGED <<signals, instances, about, notices, handed, queuing>>

\* An open transaction of the dead process is rolled back.
CrashWorker(w) ==
  /\ Crash(w)
  /\ ToStage(w, "idle")
  /\ UNCHANGED <<signals, instances, about, notices, handed, queuing>>

\* Steps of the outbox alone; a redriven notification keeps its status.
Background ==
  /\ \/ \E m \in Messages :
          LeaseLapses(m) \/ LeaseMissed(m) \/ BackoffEnds(m) \/ Redrive(m) \/ Purge(m)
     \/ \E w \in Workers : stage[w] # "processing" /\ Heartbeat(w)
  /\ UNCHANGED intakeVars

Handle(w) ==
  \/ Begin(w)
  \/ SkipProcessed(w)
  \/ Commit(w)
  \/ ReadNotice(w)
  \/ Send(w)
  \/ AcknowledgeNotice(w)
  \/ \E error \in Errors : Throw(w, error)
  \/ RecordFailure(w)
  \/ ForfeitDelivery(w)

Next ==
  \/ \E s \in Signals : Accept(s) \/ QueueRead(s) \/ QueueWrite(s)
  \/ \E n \in Notices : RequestNotice(n)
  \/ \E w \in Workers : Handle(w) \/ CrashWorker(w) \/ \E m \in Messages : ClaimMessage(w, m)
  \/ Background

Safety == Init /\ [][Next]_vars

\* A worker keeps executing handle(): the time limits of transactions and
\* transports end every wait in it.  Clocks and the claim order are as in Outbox.
Fairness ==
  /\ \A w \in Workers : WF_vars(Handle(w))
  /\ \A m \in Messages :
       /\ WF_vars(LeaseLapses(m) /\ UNCHANGED intakeVars)
       /\ WF_vars(BackoffEnds(m) /\ UNCHANGED intakeVars)
       /\ SF_vars(\E w \in Workers : ClaimMessage(w, m))

Spec == Safety /\ Fairness

-----------------------------------------------------------------------------
(* Properties.                                                              *)

\* Type invariant, with the agreement between a worker's place in handle() and
\* the message in its hands.
TypeOK ==
  /\ OutboxTypeOK
  /\ signals \in [Signals -> {"absent", "RECEIVED", "PROCESSED"}]
  /\ instances \in [Signals -> Nat]
  /\ about \in [Messages -> Signals \cup {Nobody}]
  /\ notices \in [Notices -> NoticeStatus]
  /\ handed \subseteq Notices
  /\ queuing \subseteq Signals
  /\ stage \in [Workers -> Stage]
  /\ \A w \in Workers : Busy(w) <=> stage[w] # "idle"

\* However many messages are queued for a signal and however often each of them is
\* delivered, its workflow takes effect exactly once when the signal is processed
\* and not at all before: refusals, crashes and lost claims leave no instance and
\* no queued notice behind.
RunsOnce ==
  /\ \A s \in Signals : instances[s] = IF signals[s] = "PROCESSED" THEN 1 ELSE 0
  /\ \A n \in Notices : about[n] # Nobody => signals[about[n]] = "PROCESSED"

\* What a notification says of itself is true of its message: sent exactly when the
\* message is acknowledged, and then a transport took it; failed when the message
\* is dead; queued only while it will still be delivered.
NoticesTrue ==
  \A n \in Notices :
    /\ notices[n] = "sent" <=> rows[n].status \in {"SUCCEEDED", "purged"}
    /\ notices[n] = "sent" => n \in handed
    /\ rows[n].status = "DEAD" => notices[n] = "failed"
    /\ notices[n] = "queued" => rows[n].status \in {"PENDING", "PROCESSING"}

\* A signal with a message is processed in the end, unless a message about it is
\* dead and waits for an operator.
SignalsAnswered ==
  \A s \in Signals :
    (\E m \in Messages : about[m] = s) ~>
      (signals[s] = "PROCESSED" \/ \E m \in Messages : about[m] = s /\ rows[m].status = "DEAD")
=============================================================================
