----------------------- MODULE IntegrationOperations -----------------------
(***************************************************************************)
(* External operations: the rows of integration_operations, driven by      *)
(* outbox messages of type 'integration' (OutboxWorker.deliver), by the    *)
(* provider's authenticated callback (OperationsService.callback), by the  *)
(* operator's redrive and by the retry of a blocked process.  An operation *)
(* and its only message are created together and share a name here.        *)
(*                                                                         *)
(* Statements that other transactions may come between are separate        *)
(* actions: the read of the operation, its RUNNING mark, the call of the   *)
(* adapter and the final transaction of a delivery; the read and the write *)
(* of a callback and of a retry, which do not lock the row they read.      *)
(***************************************************************************)
EXTENDS Outbox

CONSTANT ProcessOps      \* operations requested by a durable process

ASSUME ProcessOpsAssumption == ProcessOps \subseteq Messages

VARIABLES
  op,         \* integration_operations
  stage,      \* where each worker is in deliver()
  callback,   \* the outcome an open callback transaction is about to write
  retry       \* whether a process retry that read the operation as FAILED is open

opVars == <<op, stage, callback, retry>>
vars == <<rows, hands, faults, op, stage, callback, retry>>

OpStatus == {"none", "PENDING", "RUNNING", "SUCCEEDED", "FAILED"}
Receipt == {"none", "accepted", "succeeded", "failed"}
Operation == [status : OpStatus, receipt : Receipt, started : BOOLEAN]

Open == {"PENDING", "RUNNING"}
Terminal == {"SUCCEEDED", "FAILED"}

\* claimed -> (settled | marking -> sending -> an answer) -> idle
Answers == {"accepted", "succeeded", "retryable", "rejected"}
Stage == {"idle", "claimed", "settled", "marking", "sending"} \cup Answers

Init ==
  /\ OutboxInit
  /\ op = [m \in Messages |-> [status |-> "none", receipt |-> "none", started |-> FALSE]]
  /\ stage = [w \in Workers |-> "idle"]
  /\ callback = [m \in Messages |-> "idle"]
  /\ retry = [m \in Messages |-> "idle"]

AtStage(w, s) == Busy(w) /\ stage[w] = s
ToStage(w, s) == stage' = [stage EXCEPT ![w] = s]

-----------------------------------------------------------------------------
(* Commands.                                                                *)

\* OperationsService.request: the row, its message and its event commit together.
RequestOperation(m) ==
  /\ Enqueue(m)
  /\ op' = [op EXCEPT ![m].status = "PENDING"]
  /\ UNCHANGED <<stage, callback, retry>>

\* Faulty variant: a terminal operation takes another receipt.
CallbackReadAnyTime(m) ==
  /\ callback[m] = "idle"
  /\ op[m].status # "none"
  /\ op[m].started
  /\ \E outcome \in {"succeeded", "failed"} : callback' = [callback EXCEPT ![m] = outcome]
  /\ UNCHANGED <<rows, hands, faults, op, stage, retry>>

\* The callback transaction takes the advisory lock integration:id, reads the row
\* and leaves without writing when it is terminal.  That a provider reports only on what it
\* has been sent (started) is the environment's: the code does not check it.
CallbackRead(m) ==
  /\ callback[m] = "idle"
  /\ op[m].status \in Open
  /\ op[m].started
  /\ \E outcome \in {"succeeded", "failed"} : callback' = [callback EXCEPT ![m] = outcome]
  /\ UNCHANGED <<rows, hands, faults, op, stage, retry>>

\* Its update names the row only: what the row has become meanwhile is overwritten.
CallbackWrite(m) ==
  /\ callback[m] # "idle"
  /\ op' = [op EXCEPT ![m] =
               [@ EXCEPT !.status = IF callback[m] = "succeeded" THEN "SUCCEEDED" ELSE "FAILED",
                         !.receipt = callback[m]]]
  /\ callback' = [callback EXCEPT ![m] = "idle"]
  /\ UNCHANGED <<rows, hands, faults, stage, retry>>

\* The process that serves it dies, or its transaction times out.
CallbackAbort(m) ==
  /\ callback[m] # "idle"
  /\ callback' = [callback EXCEPT ![m] = "idle"]
  /\ UNCHANGED <<rows, hands, faults, op, stage, retry>>

\* POST outbox/:id/redrive: both updates are conditional.
RedriveOperation(m) ==
  /\ Redrive(m)
  /\ op' = [op EXCEPT ![m].status = IF @ = "FAILED" THEN "PENDING" ELSE @]
  /\ UNCHANGED <<stage, callback, retry>>

\* ProcessManager.decide, decision 'retry', on a process blocked on this operation.
RetryRead(m) ==
  /\ m \in ProcessOps
  /\ op[m].status = "FAILED"
  /\ retry[m] = "idle"
  /\ retry' = [retry EXCEPT ![m] = "reopening"]
  /\ UNCHANGED <<rows, hands, faults, op, stage, callback>>

\* Faulty variant: the message is redriven whether or not it is dead.
RetryWriteForced(m) ==
  /\ retry[m] = "reopening"
  /\ retry' = [retry EXCEPT ![m] = "idle"]
  /\ rows' = [rows EXCEPT ![m] = [@ EXCEPT !.status = "PENDING", !.attempts = 0, !.clock = "due"]]
  /\ op' = [op EXCEPT ![m].status = "PENDING"]
  /\ UNCHANGED <<hands, faults, stage, callback>>

\* With a dead message to redrive, the operation is reopened by an update that
\* names the row only; with none, RECEIPT_FAILED rolls the transaction back.
RetryWrite(m) ==
  /\ retry[m] = "reopening"
  /\ retry' = [retry EXCEPT ![m] = "idle"]
  /\ \/ /\ Redrive(m)
        /\ op' = [op EXCEPT ![m].status = "PENDING"]
     \/ /\ rows[m].status # "DEAD"
        /\ UNCHANGED <<rows, hands, faults, op>>
  /\ UNCHANGED <<stage, callback>>

-----------------------------------------------------------------------------
(* Delivery by a worker.                                                    *)

ClaimOperation(w, m) ==
  /\ Claim(w, m)
  /\ ToStage(w, "claimed")
  /\ UNCHANGED <<op, callback, retry>>

\* deliver() reads the operation; a terminal one, and one the provider has
\* accepted, need no further call.
Read(w) ==
  LET o == op[hands[w].message] IN
  /\ AtStage(w, "claimed")
  /\ ~Exhausted(w)
  /\ ToStage(w, IF o.status \in Terminal \/ o.receipt = "accepted" THEN "settled" ELSE "marking")
  /\ UNCHANGED <<rows, hands, faults, op, callback, retry>>

\* A conditional update, outside the fence: a worker that has lost its claim
\* still marks the operation.
Mark(w) ==
  LET m == hands[w].message IN
  /\ AtStage(w, "marking")
  /\ op' = IF op[m].status \in Open
             THEN [op EXCEPT ![m].status = "RUNNING", ![m].started = TRUE] ELSE op
  /\ ToStage(w, "sending")
  /\ UNCHANGED <<rows, hands, faults, callback, retry>>

\* adapter.execute(): the provider answers, or the call fails one way or another.
Execute(w) ==
  /\ AtStage(w, "sending")
  /\ \E answer \in Answers : ToStage(w, answer)
  /\ UNCHANGED <<rows, hands, faults, op, callback, retry>>

\* complete() without an effect.
AcknowledgeSettled(w) ==
  /\ AtStage(w, "settled")
  /\ Complete(w)
  /\ ToStage(w, "idle")
  /\ UNCHANGED <<op, callback, retry>>

\* Faulty variant: the operation is not read again under the lock.
AcknowledgeStale(w) ==
  LET m == hands[w].message IN
  /\ Busy(w)
  /\ stage[w] \in {"accepted", "succeeded"}
  /\ Complete(w)
  /\ op' = [op EXCEPT ![m].status = IF stage[w] = "accepted" THEN "RUNNING" ELSE "SUCCEEDED",
                      ![m].receipt = stage[w]]
  /\ ToStage(w, "idle")
  /\ UNCHANGED <<callback, retry>>

\* complete() with the answer: under the fence and the advisory lock that open
\* callbacks hold, the row is read again, so a final receipt that arrived during
\* the call wins.
AcknowledgeAnswer(w) ==
  LET m == hands[w].message IN
  /\ Busy(w)
  /\ stage[w] \in {"accepted", "succeeded"}
  /\ callback[m] = "idle"
  /\ Complete(w)
  /\ op' = IF op[m].status \in Terminal THEN op
           ELSE [op EXCEPT ![m].status = IF stage[w] = "accepted" THEN "RUNNING" ELSE "SUCCEEDED",
                           ![m].receipt = stage[w]]
  /\ ToStage(w, "idle")
  /\ UNCHANGED <<callback, retry>>

\* Faulty variants: the failure is recorded on the message alone; the operation is
\* given the message's status.
FailMessageOnly(w, retryable) ==
  /\ Fail(w, retryable)
  /\ ToStage(w, "idle")
  /\ UNCHANGED <<op, callback, retry>>
FailWithMessageStatus(w, retryable) ==
  LET m == hands[w].message IN
  /\ Fail(w, retryable)
  /\ op' = IF op[m].status \in Open
             THEN [op EXCEPT ![m].status = IF Dead(w, retryable) THEN "DEAD" ELSE "PENDING"]
             ELSE op
  /\ ToStage(w, "idle")
  /\ UNCHANGED <<callback, retry>>

\* handle()'s failure transaction.
FailDelivery(w, retryable) ==
  LET m == hands[w].message IN
  /\ Fail(w, retryable)
  /\ op' = IF op[m].status \in Open
             THEN [op EXCEPT ![m].status = IF Dead(w, retryable) THEN "FAILED" ELSE "PENDING"]
             ELSE op
  /\ ToStage(w, "idle")
  /\ UNCHANGED <<callback, retry>>

\* The organization is inactive, the attempts are exhausted, the provider rejects
\* the request for good.
FailForGood(w) ==
  /\ Busy(w)
  /\ stage[w] \in {"claimed", "rejected"}
  /\ FailDelivery(w, FALSE)

\* The call failed in a way worth repeating, or the database failed at any stage.
FailForNow(w) ==
  /\ Busy(w)
  /\ stage[w] # "rejected"
  /\ FailDelivery(w, TRUE)

\* Wherever the worker is when its claim is taken over, what it does last, the
\* final transaction of an answer or of a failure, writes nothing.
ForfeitDelivery(w) ==
  /\ Forfeit(w)
  /\ ToStage(w, "idle")
  /\ UNCHANGED <<op, callback, retry>>

CrashWorker(w) ==
  /\ Crash(w)
  /\ ToStage(w, "idle")
  /\ UNCHANGED <<op, callback, retry>>

\* Steps of the outbox that touch no operation.
Background ==
  /\ \/ \E m \in Messages : LeaseLapses(m) \/ LeaseMissed(m) \/ BackoffEnds(m) \/ Purge(m)
     \/ \E w \in Workers : Heartbeat(w)
  /\ UNCHANGED opVars

Handle(w) ==
  \/ Read(w)
  \/ Mark(w)
  \/ Execute(w)
  \/ AcknowledgeSettled(w)
  \/ AcknowledgeAnswer(w)
  \/ FailForGood(w)
  \/ FailForNow(w)
  \/ ForfeitDelivery(w)

Command(m) ==
  \/ RequestOperation(m)
  \/ CallbackRead(m)
  \/ CallbackWrite(m)
  \/ CallbackAbort(m)
  \/ RedriveOperation(m)
  \/ RetryRead(m)
  \/ RetryWrite(m)

Next ==
  \/ \E m \in Messages : Command(m)
  \/ \E w \in Workers : Handle(w) \/ CrashWorker(w) \/ \E m \in Messages : ClaimOperation(w, m)
  \/ Background

Safety == Init /\ [][Next]_vars

\* A worker keeps executing handle(); the adapter's and the transactions' timeouts
\* bound every wait in it; clocks and the claim order are as in Outbox.
Fairness ==
  /\ \A w \in Workers : WF_vars(Handle(w))
  /\ \A m \in Messages :
       /\ WF_vars(CallbackWrite(m) \/ CallbackAbort(m))
       /\ WF_vars(LeaseLapses(m) /\ UNCHANGED opVars)
       /\ WF_vars(BackoffEnds(m) /\ UNCHANGED opVars)
       /\ SF_vars(\E w \in Workers : ClaimOperation(w, m))

Spec == Safety /\ Fairness

-----------------------------------------------------------------------------
(* Properties.                                                              *)

\* Type invariant, with the agreement between a worker's place in deliver() and
\* the message in its hands.
TypeOK ==
  /\ OutboxTypeOK
  /\ op \in [Messages -> Operation]
  /\ stage \in [Workers -> Stage]
  /\ callback \in [Messages -> {"idle", "succeeded", "failed"}]
  /\ retry \in [Messages -> {"idle", "reopening"}]
  /\ \A w \in Workers : Busy(w) <=> stage[w] # "idle"

\* No orphans: an operation that is still open, and that the provider has not
\* accepted, has a message that will be delivered.  It takes an unfenced write, a
\* lost acknowledgement or a forgotten half of a failure to strand one.
NoOrphan ==
  \A m \in Messages :
    op[m].status \in Open /\ op[m].receipt # "accepted" =>
      rows[m].status \in {"PENDING", "PROCESSING"}

\* The provider's acceptance is recorded together with the acknowledgement, and
\* nothing calls the provider again or reverts the operation while its final
\* receipt is awaited.
AcceptedWaits ==
  \A m \in Messages :
    op[m].receipt = "accepted" =>
      op[m].status = "RUNNING" /\ rows[m].status \in {"SUCCEEDED", "purged"}

\* A succeeded operation always carries the receipt it succeeded by, which is what
\* a process evaluates its expectations against.
SuccessHasReceipt ==
  \A m \in Messages : op[m].status = "SUCCEEDED" => op[m].receipt = "succeeded"

\* An acknowledgement in the middle of a redelivery is never wasted: a worker that
\* found the operation settled and still owns its message is right to skip the call.
SettledStaysSettled ==
  \A w \in Workers :
    AtStage(w, "settled") /\ Owns(w) =>
      op[hands[w].message].status \in Terminal \/ op[hands[w].message].receipt = "accepted"

\* A success is final, whatever stale workers, redrives and late or repeated
\* callbacks do: nothing but the decision to retry a blocked process, which read the
\* operation while it was FAILED, ever takes it back, and only for an operation that
\* belongs to a process.
SuccessIsFinal ==
  [][\A m \in Messages :
       op[m].status = "SUCCEEDED" /\ op'[m].status # "SUCCEEDED" =>
         m \in ProcessOps /\ retry[m] = "reopening" /\ retry'[m] = "idle"]_vars

\* Unless a callback writes it, the outcome of an operation changes only in the
\* transaction that takes its message out of process.
OutcomeWithAcknowledgement ==
  [][\A m \in Messages :
       op'[m].status \in Terminal /\ op'[m].status # op[m].status /\ callback'[m] = callback[m]
         => rows[m].status = "PROCESSING" /\ rows'[m].status \in {"SUCCEEDED", "DEAD"}]_vars

\* Every request is settled: it succeeds, fails, or is accepted by the provider.
OperationSettles ==
  \A m \in Messages :
    op[m].status \in Open ~> op[m].status \in Terminal \/ op[m].receipt = "accepted"

\* Refinement mapping to the lifecycle its requesters see.
PhaseOf(m) ==
  CASE op[m].status \in Open /\ op[m].receipt = "accepted" -> "accepted"
    [] op[m].status \in Open /\ op[m].receipt # "accepted" -> "open"
    [] op[m].status = "SUCCEEDED" -> "succeeded"
    [] op[m].status = "FAILED" -> "failed"
    [] OTHER -> "none"

Life == INSTANCE IntegrationLifecycle
          WITH Operations <- Messages, Processed <- ProcessOps,
               phase <- [m \in Messages |-> PhaseOf(m)]

\* The operations implement the abstract lifecycle, with its liveness.
ImplementsLifecycle == Life!LifeSpec

\* The composed steps are steps of the outbox protocol.
ImplementsOutbox == OutboxSafety
=============================================================================
