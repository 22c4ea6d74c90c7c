-------------------- MODULE IntegrationOperationsProofs --------------------
(* Safety of external operations for any messages, workers and processes.   *)
EXTENDS IntegrationOperations, OutboxProofs

\* Every composed step is a step of the outbox protocol, or leaves it alone.
LEMMA StepIsOutboxStep ==
  ASSUME [Next]_vars
  PROVE  [OutboxNext]_outboxVars
<1> USE DEF outboxVars
<1>1. ASSUME NEW m \in Messages, Command(m) PROVE [OutboxNext]_outboxVars
  <2>1. CASE RequestOperation(m)
    BY <2>1 DEF RequestOperation, OutboxNext
  <2>2. CASE RedriveOperation(m)
    BY <2>2 DEF RedriveOperation, OutboxNext
  <2>3. CASE RetryWrite(m)
    BY <2>3 DEF RetryWrite, OutboxNext
  <2>4. CASE CallbackRead(m) \/ CallbackWrite(m) \/ CallbackAbort(m) \/ RetryRead(m)
    BY <2>4 DEF CallbackRead, CallbackWrite, CallbackAbort, RetryRead
  <2> QED
    BY <1>1, <2>1, <2>2, <2>3, <2>4 DEF Command
<1>2. ASSUME NEW w \in Workers, Handle(w) PROVE [OutboxNext]_outboxVars
  <2>1. CASE Read(w) \/ Mark(w) \/ Execute(w)
    BY <2>1 DEF Read, Mark, Execute
  <2>2. CASE AcknowledgeSettled(w) \/ AcknowledgeAnswer(w)
    BY <2>2 DEF AcknowledgeSettled, AcknowledgeAnswer, OutboxNext
  <2>3. CASE FailForGood(w) \/ FailForNow(w)
    BY <2>3 DEF FailForGood, FailForNow, FailDelivery, OutboxNext
  <2>4. CASE ForfeitDelivery(w)
    BY <2>4 DEF ForfeitDelivery, OutboxNext
  <2> QED
    BY <1>2, <2>1, <2>2, <2>3, <2>4 DEF Handle
<1>3. ASSUME NEW w \in Workers, CrashWorker(w) PROVE [OutboxNext]_outboxVars
  BY <1>3 DEF CrashWorker, OutboxNext
<1>4. ASSUME NEW w \in Workers, NEW m \in Messages, ClaimOperation(w, m)
      PROVE  [OutboxNext]_outboxVars
  BY <1>4 DEF ClaimOperation, OutboxNext
<1>5. CASE Background
  BY <1>5 DEF Background, OutboxNext
<1>6. CASE UNCHANGED vars
  BY <1>6 DEF vars
<1> QED
  BY <1>1, <1>2, <1>3, <1>4, <1>5, <1>6 DEF Next

LEMMA InitTypeOK == Init => TypeOK /\ OutboxInv
<1> SUFFICES ASSUME Init PROVE TypeOK /\ OutboxInv
  OBVIOUS
<1>1. OutboxInv
  BY OutboxInitInv DEF Init
<1>2. TypeOK
  BY <1>1 DEF Init, OutboxInit, Empty, OutboxInv, TypeOK, Operation, OpStatus, Receipt, Stage, Busy
<1> QED
  BY <1>1, <1>2

\* Every step keeps the operations, the stages and the open transactions typed.
LEMMA StepTypeOK ==
  ASSUME TypeOK, [Next]_vars
  PROVE  TypeOK'
<1>0. OutboxTypeOK'
  BY StepIsOutboxStep, OutboxStepType DEF TypeOK
<1>h. \A w \in Workers : Busy(w) => hands[w].message \in Messages
  BY HeldMessage DEF TypeOK
<1>t. /\ hands \in [Workers -> Hand] /\ op \in [Messages -> Operation]
      /\ stage \in [Workers -> Stage] /\ Empty.message = Nobody
      /\ callback \in [Messages -> {"idle", "succeeded", "failed"}]
      /\ retry \in [Messages -> {"idle", "reopening"}]
      /\ \A w \in Workers : Busy(w) <=> stage[w] # "idle"
  BY DEF TypeOK, OutboxTypeOK, Empty
<1>n. Nobody \notin Messages
  BY OutboxAssumption DEF OutboxAssumption
<1> DEFINE Rest == /\ op' \in [Messages -> Operation]
                   /\ stage' \in [Workers -> Stage]
                   /\ callback' \in [Messages -> {"idle", "succeeded", "failed"}]
                   /\ retry' \in [Messages -> {"idle", "reopening"}]
                   /\ \A w \in Workers : Busy(w)' <=> stage'[w] # "idle"
<1> SUFFICES Rest
  BY <1>0 DEF TypeOK
<1> USE <1>t
<1>1. ASSUME NEW m \in Messages, Command(m) PROVE Rest
  <2>1. CASE RequestOperation(m)
    BY <2>1 DEF RequestOperation, Enqueue, Busy, Operation, OpStatus
  <2>2. CASE CallbackRead(m)
    BY <2>2 DEF CallbackRead, Busy
  <2>3. CASE CallbackWrite(m)
    <3>1. op' \in [Messages -> Operation]
      <4>1. callback[m] \in Receipt
        BY <2>3 DEF CallbackWrite, Receipt
      <4>2. (IF callback[m] = "succeeded" THEN "SUCCEEDED" ELSE "FAILED") \in OpStatus
        BY DEF OpStatus
      <4> QED
        BY <2>3, <4>1, <4>2 DEF CallbackWrite, Operation
    <3> QED
      BY <2>3, <3>1 DEF CallbackWrite, Busy
  <2>4. CASE CallbackAbort(m)
    BY <2>4 DEF CallbackAbort, Busy
  <2>5. CASE RedriveOperation(m)
    BY <2>5 DEF RedriveOperation, Redrive, Busy, Operation, OpStatus
  <2>6. CASE RetryRead(m)
    BY <2>6 DEF RetryRead, Busy
  <2>7. CASE RetryWrite(m)
    <3>1. op' \in [Messages -> Operation]
      BY <2>7 DEF RetryWrite, Operation, OpStatus
    <3> QED
      BY <2>7, <3>1 DEF RetryWrite, Redrive, Busy
  <2> QED
    BY <1>1, <2>1, <2>2, <2>3, <2>4, <2>5, <2>6, <2>7 DEF Command
<1>2. ASSUME NEW w \in Workers, Handle(w) PROVE Rest
  <2>1. CASE Read(w)
    BY <2>1 DEF Read, AtStage, ToStage, Busy, Stage
  <2>2. CASE Mark(w)
    BY <1>h, <2>2 DEF Mark, AtStage, ToStage, Busy, Stage, Operation, OpStatus
  <2>3. CASE Execute(w)
    BY <2>3 DEF Execute, AtStage, ToStage, Busy, Stage, Answers
  <2>4. CASE AcknowledgeSettled(w)
    BY <2>4 DEF AcknowledgeSettled, Complete, LetGo, ToStage, Busy, Stage
  <2>5. CASE AcknowledgeAnswer(w)
    <3>1. op' \in [Messages -> Operation]
      BY <1>h, <2>5 DEF AcknowledgeAnswer, Operation, OpStatus, Receipt
    <3> QED
      BY <2>5, <3>1 DEF AcknowledgeAnswer, Complete, LetGo, ToStage, Busy, Stage
  <2>6. CASE \E retryable \in BOOLEAN : FailDelivery(w, retryable)
    <3>1. op' \in [Messages -> Operation]
      BY <1>h, <2>6, SMTT(30) DEF FailDelivery, Fail, Owns, Operation, OpStatus
    <3> QED
      BY <2>6, <3>1 DEF FailDelivery, Fail, LetGo, ToStage, Busy, Stage
  <2>7. CASE ForfeitDelivery(w)
    BY <2>7 DEF ForfeitDelivery, Forfeit, LetGo, ToStage, Busy, Stage
  <2> QED
    BY <1>2, <2>1, <2>2, <2>3, <2>4, <2>5, <2>6, <2>7 DEF Handle, FailForGood, FailForNow
<1>3. ASSUME NEW w \in Workers, CrashWorker(w) PROVE Rest
  BY <1>3 DEF CrashWorker, Crash, LetGo, ToStage, Busy, Stage
<1>4. ASSUME NEW w \in Workers, NEW m \in Messages, ClaimOperation(w, m) PROVE Rest
  BY <1>n, <1>4 DEF ClaimOperation, Claim, ToStage, Busy, Stage
<1>5. CASE Background
  BY <1>5 DEF Background, opVars, LeaseLapses, LeaseMissed, BackoffEnds, Purge, Heartbeat, Busy
<1>6. CASE UNCHANGED vars
  BY <1>6 DEF vars, Busy
<1> QED
  BY <1>1, <1>2, <1>3, <1>4, <1>5, <1>6 DEF Next

-----------------------------------------------------------------------------
(* The inductive invariant: the four properties the runs check, which need   *)
(* one another, and what absent rows and open callbacks imply.               *)

Requested == \A m \in Messages : rows[m].status = "absent" <=> op[m].status = "none"

CallbackOpen == \A m \in Messages : callback[m] # "idle" => op[m].status \notin {"none", "SUCCEEDED"}

RetryOfProcess == \A m \in Messages : retry[m] # "idle" => m \in ProcessOps

IInv ==
  /\ TypeOK
  /\ OutboxInv
  /\ NoOrphan
  /\ AcceptedWaits
  /\ SuccessHasReceipt
  /\ SettledStaysSettled
  /\ Requested
  /\ CallbackOpen
  /\ RetryOfProcess

LEMMA InitIInv == Init => IInv
<1> SUFFICES ASSUME Init PROVE IInv
  OBVIOUS
<1>1. TypeOK /\ OutboxInv
  BY InitTypeOK
<1>2. /\ NoOrphan /\ AcceptedWaits /\ SuccessHasReceipt /\ Requested /\ CallbackOpen /\ RetryOfProcess
  BY DEF Init, OutboxInit, NoOrphan, AcceptedWaits, SuccessHasReceipt, Requested, CallbackOpen,
         RetryOfProcess, Open
<1>3. SettledStaysSettled
  BY DEF Init, SettledStaysSettled, AtStage
<1> QED
  BY <1>1, <1>2, <1>3 DEF IInv

\* What the invariant says of one message, so that a step that moves one message
\* is checked on that message only.
Sound(m) ==
  /\ op[m].status \in Open /\ op[m].receipt # "accepted" => rows[m].status \in {"PENDING", "PROCESSING"}
  /\ op[m].receipt = "accepted" => op[m].status = "RUNNING" /\ rows[m].status \in {"SUCCEEDED", "purged"}
  /\ op[m].status = "SUCCEEDED" => op[m].receipt = "succeeded"
  /\ rows[m].status = "absent" <=> op[m].status = "none"
  /\ callback[m] # "idle" => op[m].status \notin {"none", "SUCCEEDED"}
  /\ retry[m] # "idle" => m \in ProcessOps

LEMMA SoundInv ==
  (\A m \in Messages : Sound(m)) <=>
     NoOrphan /\ AcceptedWaits /\ SuccessHasReceipt /\ Requested /\ CallbackOpen /\ RetryOfProcess
BY DEF Sound, NoOrphan, AcceptedWaits, SuccessHasReceipt, Requested, CallbackOpen, RetryOfProcess

\* Commands keep every message sound.
LEMMA CommandSound ==
  ASSUME IInv, NEW m \in Messages, Command(m), NEW n \in Messages
  PROVE  Sound(n)'
<1>1. Sound(m) /\ Sound(n)
  BY SoundInv DEF IInv
<1>2. /\ rows \in [Messages -> Row] /\ op \in [Messages -> Operation]
      /\ callback \in [Messages -> {"idle", "succeeded", "failed"}]
      /\ retry \in [Messages -> {"idle", "reopening"}]
  BY DEF IInv, TypeOK, OutboxTypeOK
<1> USE <1>1, <1>2 DEF Sound, Row, Operation
<1>3. CASE RequestOperation(m)
  BY <1>3 DEF RequestOperation, Enqueue
<1>4. CASE CallbackRead(m)
  BY <1>4 DEF CallbackRead, Open
<1>5. CASE CallbackWrite(m)
  BY <1>5 DEF CallbackWrite, Open
<1>6. CASE CallbackAbort(m)
  BY <1>6 DEF CallbackAbort
<1>7. CASE RedriveOperation(m)
  BY <1>7 DEF RedriveOperation, Redrive, Open
<1>8. CASE RetryRead(m)
  BY <1>8 DEF RetryRead
<1>9. CASE RetryWrite(m)
  <2>1. /\ retry' = [retry EXCEPT ![m] = "idle"]
        /\ UNCHANGED callback
    BY <1>9 DEF RetryWrite
  <2>2. CASE Redrive(m) /\ op' = [op EXCEPT ![m].status = "PENDING"]
    BY <2>1, <2>2 DEF Redrive, Open
  <2>3. CASE UNCHANGED <<rows, op>>
    BY <2>1, <2>3
  <2> QED
    BY <1>9, <2>2, <2>3 DEF RetryWrite
<1> QED
  BY <1>3, <1>4, <1>5, <1>6, <1>7, <1>8, <1>9 DEF Command

\* The steps of a worker keep every message sound.
LEMMA HandleSound ==
  ASSUME IInv, NEW w \in Workers, Handle(w), NEW n \in Messages
  PROVE  Sound(n)'
<1>2. /\ rows \in [Messages -> Row] /\ op \in [Messages -> Operation]
      /\ callback \in [Messages -> {"idle", "succeeded", "failed"}]
      /\ \A v \in Workers : Busy(v) <=> stage[v] # "idle"
  BY DEF IInv, TypeOK, OutboxTypeOK
<1>3. Busy(w)
  BY DEF Handle, Read, Mark, Execute, AcknowledgeSettled, AcknowledgeAnswer, FailForGood, FailForNow,
         ForfeitDelivery, Forfeit, AtStage
<1>4. PICK m \in Messages : m = hands[w].message
  BY <1>3, HeldMessage DEF IInv, TypeOK
<1>5. Sound(m) /\ Sound(n)
  BY SoundInv DEF IInv
<1> USE <1>2, <1>5 DEF Sound, Row, Operation
<1>6. CASE Read(w) \/ Execute(w)
  BY <1>6 DEF Read, Execute
<1>7. CASE Mark(w)
  BY <1>4, <1>7, ZenonT(40) DEF Mark, Open
<1>8. CASE AcknowledgeSettled(w)
  <2>1. op[m].status \in Terminal \/ op[m].receipt = "accepted"
    BY <1>4, <1>8 DEF IInv, SettledStaysSettled, AcknowledgeSettled, Complete
  <2> QED
    BY <1>4, <1>8, <2>1 DEF AcknowledgeSettled, Complete, Owns, Acknowledge, Terminal, Open
<1>9. CASE AcknowledgeAnswer(w)
  <2>1. /\ rows[m].status = "PROCESSING" /\ stage[w] \in {"accepted", "succeeded"}
        /\ callback[m] = "idle" /\ UNCHANGED <<callback, retry>>
        /\ rows' = [rows EXCEPT ![m] = [@ EXCEPT !.status = "SUCCEEDED", !.clock = "none", !.token = Nobody]]
    BY <1>4, <1>9 DEF AcknowledgeAnswer, Complete, Owns, Acknowledge
  <2>2. CASE op[m].status \in Terminal
    <3>1. op' = op
      BY <1>4, <1>9, <2>2 DEF AcknowledgeAnswer
    <3> QED
      BY <2>1, <2>2, <3>1 DEF Terminal, Open
  <2>3. CASE op[m].status \notin Terminal
    <3>1. op' = [op EXCEPT ![m].status = IF stage[w] = "accepted" THEN "RUNNING" ELSE "SUCCEEDED",
                           ![m].receipt = stage[w]]
      BY <1>4, <1>9, <2>3 DEF AcknowledgeAnswer
    <3> QED
      BY <2>1, <3>1 DEF Open
  <2> QED
    BY <2>2, <2>3
<1>10. CASE \E retryable \in BOOLEAN : FailDelivery(w, retryable)
  BY <1>4, <1>10, SMTT(30) DEF FailDelivery, Fail, Owns, Reject, Open
<1>11. CASE ForfeitDelivery(w)
  BY <1>11 DEF ForfeitDelivery, Forfeit
<1> QED
  BY <1>6, <1>7, <1>8, <1>9, <1>10, <1>11 DEF Handle, FailForGood, FailForNow

\* Every step keeps every message sound.
LEMMA StepSound ==
  ASSUME IInv, [Next]_vars, NEW n \in Messages
  PROVE  Sound(n)'
<1>1. Sound(n)
  BY SoundInv DEF IInv
<1>2. rows \in [Messages -> Row]
  BY DEF IInv, TypeOK, OutboxTypeOK
<1>3. ASSUME NEW w \in Workers, CrashWorker(w) PROVE Sound(n)'
  BY <1>1, <1>3 DEF CrashWorker, Crash, Sound
<1>4. ASSUME NEW w \in Workers, NEW m \in Messages, ClaimOperation(w, m) PROVE Sound(n)'
  <2>1. rows[m].status \in {"PENDING", "PROCESSING"} /\ UNCHANGED <<op, callback, retry>>
    BY <1>4 DEF ClaimOperation, Claim, Claimable
  <2>2. \/ rows'[n].status = rows[n].status
        \/ rows[n].status \in {"PENDING", "PROCESSING"} /\ rows'[n].status = "PROCESSING"
    <3>1. CASE n = m
      BY <1>2, <1>4, <2>1, <3>1 DEF ClaimOperation, Claim, Row
    <3>2. CASE n # m
      BY <1>2, <1>4, <3>2 DEF ClaimOperation, Claim
    <3> QED
      BY <3>1, <3>2
  <2> QED
    BY <1>1, <2>1, <2>2 DEF Sound
<1>5. CASE Background
  <2>1. ASSUME NEW m \in Messages, LeaseLapses(m) \/ LeaseMissed(m) \/ BackoffEnds(m)
        PROVE  rows'[n].status = rows[n].status
    BY <1>2, <2>1 DEF LeaseLapses, LeaseMissed, BackoffEnds, Row
  <2>2. ASSUME NEW m \in Messages, Purge(m)
        PROVE  rows'[n].status = rows[n].status \/ (rows[n].status = "SUCCEEDED" /\ rows'[n].status = "purged")
    <3>1. CASE n = m
      BY <1>2, <2>2, <3>1 DEF Purge, Row
    <3>2. CASE n # m
      BY <1>2, <2>2, <3>2 DEF Purge
    <3> QED
      BY <3>1, <3>2
  <2>3. ASSUME NEW w \in Workers, Heartbeat(w)
        PROVE  rows'[n].status = rows[n].status
    BY <1>2, <2>3 DEF Heartbeat, Row
  <2>4. rows'[n].status = rows[n].status \/ (rows[n].status = "SUCCEEDED" /\ rows'[n].status = "purged")
    <3>1. CASE \E m \in Messages : LeaseLapses(m) \/ LeaseMissed(m) \/ BackoffEnds(m) \/ Purge(m)
      BY <2>1, <2>2, <3>1
    <3>2. CASE \E w \in Workers : Heartbeat(w)
      BY <2>3, <3>2
    <3> QED
      BY <1>5, <3>1, <3>2 DEF Background
  <2> QED
    BY <1>1, <1>5, <2>4 DEF Background, opVars, Sound
<1>6. CASE UNCHANGED vars
  BY <1>1, <1>6 DEF vars, Sound
<1> QED
  BY <1>3, <1>4, <1>5, <1>6, CommandSound, HandleSound DEF Next

\* An operation that a worker found settled, and whose message it still owns, can
\* only be reopened by a redrive, and a message in process is not dead.
LEMMA StepSettled ==
  ASSUME IInv, [Next]_vars
  PROVE  SettledStaysSettled'
<1>t. /\ rows \in [Messages -> Row] /\ op \in [Messages -> Operation]
      /\ hands \in [Workers -> Hand] /\ stage \in [Workers -> Stage]
      /\ callback \in [Messages -> {"idle", "succeeded", "failed"}]
      /\ Nobody \notin Messages
  BY OutboxAssumption DEF IInv, TypeOK, OutboxTypeOK, OutboxAssumption
<1>h. hands' \in [Workers -> Hand]
  BY StepTypeOK DEF IInv, TypeOK, OutboxTypeOK
<1> SUFFICES ASSUME NEW v \in Workers, NEW n \in Messages, n = hands'[v].message, stage'[v] = "settled",
                    rows'[n].status = "PROCESSING", rows'[n].token = v
             PROVE  op'[n].status \in Terminal \/ op'[n].receipt = "accepted"
  BY <1>h DEF SettledStaysSettled, AtStage, Owns, Busy, Hand
<1> DEFINE Settled == op[n].status \in Terminal \/ op[n].receipt = "accepted"
           Kept == /\ hands[v] = hands'[v] /\ stage[v] = "settled"
                   /\ rows[n].status = "PROCESSING" /\ rows[n].token = v
<1>s. Kept => Settled
  BY <1>t DEF IInv, SettledStaysSettled, AtStage, Owns, Busy
<1> USE <1>t
<1>1. ASSUME NEW m \in Messages, Command(m) PROVE Settled'
  <2>1. CASE RequestOperation(m)
    BY <1>s, <2>1 DEF RequestOperation, Enqueue, Row
  <2>2. CASE CallbackRead(m) \/ CallbackAbort(m) \/ RetryRead(m)
    BY <1>s, <2>2 DEF CallbackRead, CallbackAbort, RetryRead
  <2>3. CASE CallbackWrite(m)
    <3>1. Settled
      BY <1>s, <2>3 DEF CallbackWrite
    <3> QED
      BY <2>3, <3>1 DEF CallbackWrite, Terminal, Operation
  <2>4. CASE RedriveOperation(m)
    BY <1>s, <2>4 DEF RedriveOperation, Redrive, Row
  <2>5. CASE RetryWrite(m)
    <3>1. CASE Redrive(m) /\ op' = [op EXCEPT ![m].status = "PENDING"]
      BY <1>s, <2>5, <3>1 DEF RetryWrite, Redrive, Row
    <3>2. CASE UNCHANGED <<rows, hands, op>>
      BY <1>s, <2>5, <3>2 DEF RetryWrite
    <3> QED
      BY <2>5, <3>1, <3>2 DEF RetryWrite
  <2> QED
    BY <1>1, <2>1, <2>2, <2>3, <2>4, <2>5 DEF Command
<1>2. ASSUME NEW w \in Workers, Handle(w) PROVE Settled'
  <2>1. CASE Read(w)
    <3>1. CASE w = v
      BY <2>1, <3>1 DEF Read, ToStage
    <3>2. CASE w # v
      BY <1>s, <2>1, <3>2 DEF Read, ToStage
    <3> QED
      BY <3>1, <3>2
  <2>2. CASE Mark(w)
    <3>1. Settled
      BY <1>s, <2>2 DEF Mark, ToStage
    <3> QED
      BY <2>2, <3>1 DEF Mark, Open, Terminal, Operation
  <2>3. CASE Execute(w)
    BY <1>s, <2>3 DEF Execute, ToStage, Answers
  <2>4. CASE AcknowledgeSettled(w) \/ AcknowledgeAnswer(w) \/ \E retryable \in BOOLEAN : FailDelivery(w, retryable)
    <3>1. Owns(w) /\ stage' = [stage EXCEPT ![w] = "idle"] /\ hands' = [hands EXCEPT ![w] = Empty]
      BY <2>4 DEF AcknowledgeSettled, AcknowledgeAnswer, FailDelivery, Complete, Fail, LetGo, ToStage
    <3>2. PICK m \in Messages : m = hands[w].message
      BY <3>1 DEF Owns, Busy, Hand
    <3>3. rows'[m].status # "PROCESSING" /\ (m # n => rows'[n] = rows[n])
      <4>1. CASE AcknowledgeSettled(w) \/ AcknowledgeAnswer(w)
        <5>1. rows' = [rows EXCEPT ![m] = [@ EXCEPT !.status = "SUCCEEDED", !.clock = "none", !.token = Nobody]]
          BY <3>2, <4>1 DEF AcknowledgeSettled, AcknowledgeAnswer, Complete, Acknowledge
        <5> QED
          BY <5>1
      <4>2. ASSUME NEW retryable \in BOOLEAN, FailDelivery(w, retryable)
            PROVE  rows'[m].status # "PROCESSING" /\ (m # n => rows'[n] = rows[n])
        <5>1. Reject(w, retryable)
          BY <4>2 DEF FailDelivery, Fail
        <5> QED
          BY <3>2, <5>1 DEF Reject
      <4> QED
        BY <2>4, <4>1, <4>2
    <3>4. m # n
      BY <3>3
    <3>5. op'[n] = op[n]
      BY <2>4, <3>2, <3>4 DEF AcknowledgeSettled, AcknowledgeAnswer, FailDelivery
    <3>6. Settled
      BY <1>s, <3>1, <3>3, <3>4
    <3> QED
      BY <3>5, <3>6
  <2>5. CASE ForfeitDelivery(w)
    BY <1>s, <2>5 DEF ForfeitDelivery, Forfeit, LetGo, ToStage
  <2> QED
    BY <1>2, <2>1, <2>2, <2>3, <2>4, <2>5 DEF Handle, FailForGood, FailForNow
<1>3. ASSUME NEW w \in Workers, CrashWorker(w) PROVE Settled'
  BY <1>s, <1>3 DEF CrashWorker, Crash, LetGo, ToStage
<1>4. ASSUME NEW w \in Workers, NEW m \in Messages, ClaimOperation(w, m) PROVE Settled'
  <2>1. v # w
    BY <1>4 DEF ClaimOperation, ToStage
  <2>2. m # n
    BY <1>4, <2>1 DEF ClaimOperation, Claim
  <2> QED
    BY <1>s, <1>4, <2>1, <2>2 DEF ClaimOperation, Claim, ToStage
<1>5. CASE Background
  <2>1. hands' = hands /\ stage' = stage /\ op' = op
    BY <1>5 DEF Background, opVars, LeaseLapses, LeaseMissed, BackoffEnds, Purge, Heartbeat
  <2>2. ASSUME NEW m \in Messages, LeaseLapses(m) \/ LeaseMissed(m) \/ BackoffEnds(m) \/ Purge(m)
        PROVE  rows[n].status = "PROCESSING" /\ rows[n].token = v
    BY <2>2 DEF LeaseLapses, LeaseMissed, BackoffEnds, Purge, Row
  <2>3. ASSUME NEW w \in Workers, Heartbeat(w)
        PROVE  rows[n].status = "PROCESSING" /\ rows[n].token = v
    BY <2>3 DEF Heartbeat, Row
  <2>4. rows[n].status = "PROCESSING" /\ rows[n].token = v
    BY <1>5, <2>2, <2>3 DEF Background
  <2> QED
    BY <1>s, <2>1, <2>4
<1>6. CASE UNCHANGED vars
  BY <1>s, <1>6 DEF vars
<1> QED
  BY <1>1, <1>2, <1>3, <1>4, <1>5, <1>6 DEF Next

\* The invariant is inductive.
LEMMA StepIInv == IInv /\ [Next]_vars => IInv'
<1> SUFFICES ASSUME IInv, [Next]_vars PROVE IInv'
  OBVIOUS
<1>1. TypeOK'
  BY StepTypeOK DEF IInv
<1>2. OutboxInv'
  BY StepIsOutboxStep, OutboxStepInv DEF IInv
<1>3. (NoOrphan /\ AcceptedWaits /\ SuccessHasReceipt /\ Requested /\ CallbackOpen /\ RetryOfProcess)'
  BY StepSound DEF Sound, NoOrphan, AcceptedWaits, SuccessHasReceipt, Requested, CallbackOpen, RetryOfProcess
<1>4. SettledStaysSettled'
  BY StepSettled
<1> QED
  BY <1>1, <1>2, <1>3, <1>4 DEF IInv

LEMMA Invariance == Spec => []IInv
BY InitIInv, StepIInv, PTL DEF Spec, Safety

-----------------------------------------------------------------------------
(* The theorems.                                                             *)

\* Type correctness, with the agreement between a worker's place in deliver() and
\* the message it holds.
THEOREM OperationsTypeOK == Spec => []TypeOK
BY Invariance, PTL DEF IInv

\* No operation is stranded: while the system still owes it a delivery, its message
\* waits in the outbox or is in process.
THEOREM OperationsNoOrphan == Spec => []NoOrphan
BY Invariance, PTL DEF IInv

\* An operation the provider accepted waits for its final receipt, undisturbed.
THEOREM OperationsAcceptedWaits == Spec => []AcceptedWaits
BY Invariance, PTL DEF IInv

\* Every success carries the receipt it succeeded by.
THEOREM OperationsSuccessHasReceipt == Spec => []SuccessHasReceipt
BY Invariance, PTL DEF IInv

\* A worker that skips the call of the adapter is right to, as long as it owns
\* the message.
THEOREM OperationsSettledStaysSettled == Spec => []SettledStaysSettled
BY Invariance, PTL DEF IInv

\* No step but the retry of a process takes an operation out of SUCCEEDED.
LEMMA StepSuccess ==
  ASSUME IInv, [Next]_vars, NEW m \in Messages, op[m].status = "SUCCEEDED",
         op'[m].status # "SUCCEEDED"
  PROVE  m \in ProcessOps /\ RetryWrite(m) /\ op' = [op EXCEPT ![m].status = "PENDING"]
<1>t. /\ op \in [Messages -> Operation] /\ Sound(m)
      /\ op[m].status \in Terminal /\ op[m].status \notin Open
  BY SoundInv DEF IInv, TypeOK, Terminal, Open
<1>1. ASSUME NEW n \in Messages, Command(n)
      PROVE  m \in ProcessOps /\ RetryWrite(m) /\ op' = [op EXCEPT ![m].status = "PENDING"]
  <2>1. CASE RequestOperation(n)
    BY <1>t, <2>1 DEF RequestOperation, Enqueue, Sound, Operation
  <2>2. CASE CallbackRead(n) \/ CallbackAbort(n) \/ RetryRead(n)
    BY <2>2 DEF CallbackRead, CallbackAbort, RetryRead
  <2>3. CASE CallbackWrite(n)
    <3>1. callback[m] = "idle"
      BY <1>t DEF Sound
    <3> QED
      BY <1>t, <2>3, <3>1 DEF CallbackWrite
  <2>4. CASE RedriveOperation(n)
    BY <1>t, <2>4 DEF RedriveOperation, Operation
  <2>5. CASE RetryWrite(n)
    <3>1. n = m
      BY <1>t, <2>5 DEF RetryWrite, Operation
    <3>2. op' = [op EXCEPT ![m].status = "PENDING"]
      BY <2>5, <3>1 DEF RetryWrite
    <3> QED
      BY <1>t, <2>5, <3>1, <3>2 DEF RetryWrite, Sound
  <2> QED
    BY <1>1, <2>1, <2>2, <2>3, <2>4, <2>5 DEF Command
<1>2. ASSUME NEW w \in Workers, Handle(w) PROVE FALSE
  <2>1. CASE Read(w) \/ Execute(w) \/ AcknowledgeSettled(w) \/ ForfeitDelivery(w)
    BY <2>1 DEF Read, Execute, AcknowledgeSettled, ForfeitDelivery
  <2>2. CASE Mark(w)
    BY <1>t, <2>2 DEF Mark
  <2>3. CASE AcknowledgeAnswer(w)
    BY <1>t, <2>3 DEF AcknowledgeAnswer
  <2>4. CASE \E retryable \in BOOLEAN : FailDelivery(w, retryable)
    BY <1>t, <2>4 DEF FailDelivery
  <2> QED
    BY <1>2, <2>1, <2>2, <2>3, <2>4 DEF Handle, FailForGood, FailForNow
<1>3. CASE \/ Background
           \/ UNCHANGED vars
           \/ \E w \in Workers : CrashWorker(w) \/ \E n \in Messages : ClaimOperation(w, n)
  BY <1>3 DEF Background, opVars, vars, CrashWorker, ClaimOperation
<1> QED
  BY <1>1, <1>2, <1>3 DEF Next

\* A success is final but for the decision to retry the process it belongs to,
\* whatever stale workers, redrives and late or repeated callbacks do.
THEOREM OperationsSuccessIsFinal == Spec => SuccessIsFinal
<1> DEFINE TakenBack(m) == op[m].status = "SUCCEEDED" /\ op'[m].status # "SUCCEEDED"
           Retried(m) == m \in ProcessOps /\ retry[m] = "reopening" /\ retry'[m] = "idle"
<1>1. ASSUME IInv, [Next]_vars, NEW m \in Messages, TakenBack(m) PROVE Retried(m)
  <2>1. m \in ProcessOps /\ RetryWrite(m)
    BY <1>1, StepSuccess
  <2> QED
    BY <1>1, <2>1 DEF RetryWrite, IInv, TypeOK
<1>2. IInv /\ [Next]_vars => [\A m \in Messages : TakenBack(m) => Retried(m)]_vars
  BY <1>1
<1> QED
  BY <1>2, Invariance, PTL DEF Spec, Safety, SuccessIsFinal

\* Unless a callback writes it, an outcome commits with the end of its delivery.
LEMMA StepOutcome ==
  ASSUME IInv, [Next]_vars, NEW m \in Messages,
         op'[m].status \in Terminal, op'[m].status # op[m].status, callback'[m] = callback[m]
  PROVE  rows[m].status = "PROCESSING" /\ rows'[m].status \in {"SUCCEEDED", "DEAD"}
<1>t. op \in [Messages -> Operation] /\ rows \in [Messages -> Row]
  BY DEF IInv, TypeOK, OutboxTypeOK
<1>1. ASSUME NEW n \in Messages, Command(n) PROVE FALSE
  <2>1. CASE RequestOperation(n)
    BY <1>t, <2>1 DEF RequestOperation, Terminal, Operation
  <2>2. CASE CallbackRead(n) \/ CallbackAbort(n) \/ RetryRead(n)
    BY <2>2 DEF CallbackRead, CallbackAbort, RetryRead
  <2>3. CASE CallbackWrite(n)
    <3>1. n = m
      BY <1>t, <2>3 DEF CallbackWrite
    <3>2. callback \in [Messages -> {"idle", "succeeded", "failed"}]
      BY DEF IInv, TypeOK
    <3> QED
      BY <2>3, <3>1, <3>2 DEF CallbackWrite
  <2>4. CASE RedriveOperation(n)
    BY <1>t, <2>4 DEF RedriveOperation, Terminal, Operation
  <2>5. CASE RetryWrite(n)
    BY <1>t, <2>5 DEF RetryWrite, Terminal, Operation
  <2> QED
    BY <1>1, <2>1, <2>2, <2>3, <2>4, <2>5 DEF Command
<1>2. ASSUME NEW w \in Workers, Handle(w)
      PROVE  rows[m].status = "PROCESSING" /\ rows'[m].status \in {"SUCCEEDED", "DEAD"}
  <2>1. CASE Read(w) \/ Execute(w) \/ AcknowledgeSettled(w) \/ ForfeitDelivery(w)
    BY <2>1 DEF Read, Execute, AcknowledgeSettled, ForfeitDelivery
  <2>2. CASE Mark(w)
    BY <1>t, <2>2 DEF Mark, Terminal, Operation
  <2>3. CASE AcknowledgeAnswer(w)
    <3>1. m = hands[w].message
      BY <1>t, <2>3 DEF AcknowledgeAnswer
    <3> QED
      BY <1>t, <2>3, <3>1 DEF AcknowledgeAnswer, Complete, Owns, Acknowledge, Row
  <2>4. ASSUME NEW retryable \in BOOLEAN, FailDelivery(w, retryable)
        PROVE  rows[m].status = "PROCESSING" /\ rows'[m].status \in {"SUCCEEDED", "DEAD"}
    <3>1. m = hands[w].message /\ Dead(w, retryable)
      BY <1>t, <2>4 DEF FailDelivery, Terminal, Operation
    <3> QED
      BY <1>t, <2>4, <3>1 DEF FailDelivery, Fail, Owns, Reject, Row
  <2> QED
    BY <1>2, <2>1, <2>2, <2>3, <2>4 DEF Handle, FailForGood, FailForNow
<1>3. CASE \/ Background
           \/ UNCHANGED vars
           \/ \E w \in Workers : CrashWorker(w) \/ \E n \in Messages : ClaimOperation(w, n)
  BY <1>3 DEF Background, opVars, vars, CrashWorker, ClaimOperation
<1> QED
  BY <1>1, <1>2, <1>3 DEF Next

\* The outcome of a delivery and the end of its message commit together.
THEOREM OperationsOutcomeWithAcknowledgement == Spec => OutcomeWithAcknowledgement
<1>1. IInv /\ [Next]_vars =>
        [\A m \in Messages :
           op'[m].status \in Terminal /\ op'[m].status # op[m].status /\ callback'[m] = callback[m]
             => rows[m].status = "PROCESSING" /\ rows'[m].status \in {"SUCCEEDED", "DEAD"}]_vars
  BY StepOutcome
<1> QED
  BY <1>1, Invariance, PTL DEF Spec, Safety, OutcomeWithAcknowledgement

\* The outbox below the operations behaves as the outbox alone: everything proved of
\* it holds of the composition.
THEOREM OperationsImplementOutbox == Spec => ImplementsOutbox
<1>1. Init => OutboxInit
  BY DEF Init
<1>2. [Next]_vars => [OutboxNext]_outboxVars
  BY StepIsOutboxStep
<1> QED
  BY <1>1, <1>2, PTL DEF Spec, Safety, ImplementsOutbox, OutboxSafety

-----------------------------------------------------------------------------
(* The refinement of the lifecycle.                                          *)

Phases == [m \in Messages |-> PhaseOf(m)]

\* The moves of one operation: those its requester makes, and those made for it.
Shift(m, from, to) == PhaseOf(m) \in from /\ PhaseOf(m)' \in to

Begun(m) == Shift(m, {"none"}, {"open"})
Served(m) ==
  \/ PhaseOf(m)' = PhaseOf(m)
  \/ Shift(m, {"open"}, {"accepted", "succeeded", "failed"})
  \/ Shift(m, {"open", "accepted", "failed"}, {"succeeded", "failed"})
  \/ Shift(m, {"failed"}, {"open"})
Retried(m) ==
  \/ PhaseOf(m)' = PhaseOf(m)
  \/ Shift(m, {"failed"}, {"open"})
  \/ m \in ProcessOps /\ Shift(m, {"succeeded"}, {"open"})

\* When nothing else changes, a move of one operation is one of the lifecycle.
LEMMA OneMoves ==
  ASSUME NEW m \in Messages, \A n \in Messages : n # m => op'[n] = op[n]
  PROVE  /\ PhaseOf(m)' = PhaseOf(m) => Phases' = Phases
         /\ Begun(m) => Life!Request(m)
         /\ Served(m) => Life!Settle(m) \/ Life!Report(m) \/ Life!Reopen(m) \/ Phases' = Phases
         /\ Retried(m) => Life!Reopen(m) \/ Life!Undo(m) \/ Phases' = Phases
<1>1. \A n \in Messages : n # m => PhaseOf(n)' = PhaseOf(n)
  BY DEF PhaseOf
<1>2. Phases' = [Phases EXCEPT ![m] = PhaseOf(m)']
  BY <1>1 DEF Phases
<1>3. Phases[m] = PhaseOf(m)
  BY DEF Phases
<1>4. PhaseOf(m)' = PhaseOf(m) => Phases' = Phases
  BY <1>1 DEF Phases
<1>5. Begun(m) => Life!Request(m)
  BY <1>2, <1>3 DEF Begun, Shift, Life!Request, Life!Become, Phases
<1>6. Shift(m, {"open"}, {"accepted", "succeeded", "failed"}) => Life!Settle(m)
  BY <1>2, <1>3 DEF Shift, Life!Settle, Life!Become, Phases
<1>7. Shift(m, {"open", "accepted", "failed"}, {"succeeded", "failed"}) => Life!Report(m)
  BY <1>2, <1>3 DEF Shift, Life!Report, Life!Become, Phases
<1>8. Shift(m, {"failed"}, {"open"}) => Life!Reopen(m)
  BY <1>2, <1>3 DEF Shift, Life!Reopen, Life!Become, Phases
<1>9. m \in ProcessOps /\ Shift(m, {"succeeded"}, {"open"}) => Life!Undo(m)
  BY <1>2, <1>3 DEF Shift, Life!Undo, Life!Become, Phases
<1> QED
  BY <1>4, <1>5, <1>6, <1>7, <1>8, <1>9 DEF Served, Retried

Alone(m) == \A n \in Messages : n # m => op'[n] = op[n]

LEMMA OperationTables ==
  ASSUME IInv, IInv', [Next]_vars
  PROVE  /\ op \in [Messages -> Operation] /\ op' \in [Messages -> Operation]
         /\ \A m \in Messages : Sound(m) /\ Sound(m)'
BY SoundInv, StepSound DEF IInv, TypeOK

\* A request opens its operation, which was not there.
LEMMA RequestMoves ==
  ASSUME IInv, IInv', [Next]_vars, NEW m \in Messages, RequestOperation(m)
  PROVE  Begun(m) /\ Alone(m)
<1>t. op \in [Messages -> Operation] /\ Sound(m)
  BY OperationTables
<1>1. op[m].status = "none" /\ op' = [op EXCEPT ![m].status = "PENDING"]
  BY <1>t DEF RequestOperation, Enqueue, Sound
<1>2. op[m].receipt # "accepted"
  BY <1>t, <1>1 DEF Sound, Open
<1> QED
  BY <1>t, <1>1, <1>2 DEF Operation, Begun, Shift, PhaseOf, Open, Alone

\* The retry of a process reopens a failed operation, or one that succeeded meanwhile.
LEMMA RetryMoves ==
  ASSUME IInv, IInv', [Next]_vars, NEW m \in Messages, RetryWrite(m)
  PROVE  Retried(m) /\ Alone(m)
<1>t. op \in [Messages -> Operation] /\ Sound(m)
  BY OperationTables
<1>1. CASE op' = op
  BY <1>1 DEF Retried, PhaseOf, Alone
<1>2. CASE Redrive(m) /\ op' = [op EXCEPT ![m].status = "PENDING"]
  <2>1. op'[m].status = "PENDING" /\ op'[m].receipt = op[m].receipt /\ Alone(m)
    BY <1>t, <1>2 DEF Operation, Alone
  <2>2. op[m].receipt # "accepted" /\ op[m].status # "none" /\ m \in ProcessOps
    BY <1>t, <1>2 DEF Sound, Redrive, RetryWrite
  <2>3. op[m].status \in {"PENDING", "RUNNING", "SUCCEEDED", "FAILED"}
    BY <1>t, <2>2 DEF Operation, OpStatus
  <2> QED
    BY <2>1, <2>2, <2>3 DEF Retried, Shift, PhaseOf, Open
<1> QED
  BY <1>1, <1>2 DEF RetryWrite

\* Whoever else takes a step -- a worker, a callback, an operator -- settles one open
\* operation, reports on one that has not succeeded, reopens a failed one, or moves none.
LEMMA ServiceMoves ==
  ASSUME IInv, IInv', [Next]_vars, op' # op,
         \A m \in Messages : ~RequestOperation(m) /\ ~RetryWrite(m)
  PROVE  \E m \in Messages : Served(m) /\ Alone(m)
<1>t. /\ op \in [Messages -> Operation] /\ op' \in [Messages -> Operation]
      /\ \A m \in Messages : Sound(m) /\ Sound(m)'
  BY OperationTables
<1> USE DEF PhaseOf, Served, Shift, Open, Terminal, Alone
<1>1. ASSUME NEW m \in Messages, Command(m) PROVE Served(m) /\ Alone(m)
  <2>2. CASE CallbackRead(m) \/ CallbackAbort(m) \/ RetryRead(m)
    BY <2>2 DEF CallbackRead, CallbackAbort, RetryRead
  <2>3. CASE CallbackWrite(m)
    <3>1. op'[m].status \in {"SUCCEEDED", "FAILED"} /\ Alone(m)
      BY <1>t, <2>3 DEF CallbackWrite, Operation
    <3>2. op[m].status \in {"PENDING", "RUNNING", "FAILED"}
      BY <1>t, <2>3 DEF CallbackWrite, Sound, Operation, OpStatus
    <3> QED
      BY <3>1, <3>2
  <2>4. CASE RedriveOperation(m)
    <3>1. CASE op[m].status = "FAILED"
      <4>1. op'[m].status = "PENDING" /\ op'[m].receipt = op[m].receipt /\ Alone(m)
        BY <1>t, <2>4, <3>1 DEF RedriveOperation, Operation
      <4>2. op[m].receipt # "accepted"
        BY <1>t, <3>1 DEF Sound
      <4> QED
        BY <3>1, <4>1, <4>2
    <3>2. CASE op[m].status # "FAILED"
      <4>1. op' = op
        BY <1>t, <2>4, <3>2 DEF RedriveOperation, Operation
      <4> QED
        BY <4>1
    <3> QED
      BY <3>1, <3>2
  <2> QED
    BY <1>1, <2>2, <2>3, <2>4 DEF Command
<1>2. ASSUME NEW w \in Workers, Handle(w) PROVE \E m \in Messages : Served(m) /\ Alone(m)
  <2>0. CASE Read(w) \/ Execute(w) \/ AcknowledgeSettled(w) \/ ForfeitDelivery(w)
    BY <2>0 DEF Read, Execute, AcknowledgeSettled, ForfeitDelivery
  <2>1. CASE Mark(w)
    <3>1. PICK m \in Messages : m = hands[w].message
      BY <2>1, HeldMessage DEF IInv, TypeOK, Mark, AtStage
    <3>2. op[m].status \in Open /\ op' = [op EXCEPT ![m].status = "RUNNING", ![m].started = TRUE]
      BY <2>1, <3>1 DEF Mark
    <3>3. op'[m].status = "RUNNING" /\ op'[m].receipt = op[m].receipt /\ Alone(m)
      BY <1>t, <3>2 DEF Operation
    <3> QED
      BY <3>2, <3>3
  <2>2. CASE AcknowledgeAnswer(w)
    <3>1. PICK m \in Messages : m = hands[w].message
      BY <2>2, HeldMessage DEF IInv, TypeOK, AcknowledgeAnswer
    <3>2. /\ op[m].status \notin Terminal
          /\ op' = [op EXCEPT ![m].status = IF stage[w] = "accepted" THEN "RUNNING" ELSE "SUCCEEDED",
                              ![m].receipt = stage[w]]
      BY <2>2, <3>1 DEF AcknowledgeAnswer
    <3>3. rows[m].status = "PROCESSING" /\ stage[w] \in {"accepted", "succeeded"}
      BY <2>2, <3>1 DEF AcknowledgeAnswer, Complete, Owns
    <3>4. op[m].status \in {"PENDING", "RUNNING"} /\ op[m].receipt # "accepted"
      BY <1>t, <3>2, <3>3 DEF Sound, Operation, OpStatus
    <3>5. \/ op'[m].status = "RUNNING" /\ op'[m].receipt = "accepted"
          \/ op'[m].status = "SUCCEEDED"
      BY <1>t, <3>2, <3>3 DEF Operation
    <3>6. Alone(m)
      BY <1>t, <3>2
    <3> QED
      BY <3>4, <3>5, <3>6
  <2>3. ASSUME NEW retryable \in BOOLEAN, FailDelivery(w, retryable)
        PROVE  \E m \in Messages : Served(m) /\ Alone(m)
    <3>1. PICK m \in Messages : m = hands[w].message
      BY <2>3, HeldMessage DEF IInv, TypeOK, FailDelivery, Fail, Owns
    <3>2. /\ op[m].status \in Open
          /\ op' = [op EXCEPT ![m].status = IF Dead(w, retryable) THEN "FAILED" ELSE "PENDING"]
      BY <2>3, <3>1 DEF FailDelivery
    <3>3. rows[m].status = "PROCESSING"
      BY <2>3, <3>1 DEF FailDelivery, Fail, Owns
    <3>4. op[m].receipt # "accepted"
      BY <1>t, <3>3 DEF Sound
    <3>5. op'[m].status \in {"FAILED", "PENDING"} /\ op'[m].receipt = op[m].receipt
      BY <1>t, <3>2 DEF Operation
    <3>6. Alone(m)
      BY <1>t, <3>2
    <3> QED
      BY <3>2, <3>4, <3>5, <3>6
  <2> QED
    BY <1>2, <2>0, <2>1, <2>2, <2>3 DEF Handle, FailForGood, FailForNow
<1>3. CASE \/ Background
           \/ UNCHANGED vars
           \/ \E w \in Workers : CrashWorker(w) \/ \E n \in Messages : ClaimOperation(w, n)
  BY <1>3 DEF Background, opVars, vars, CrashWorker, ClaimOperation
<1> QED
  BY <1>1, <1>2, <1>3 DEF Next

\* The interface of operations and processes, step by step: a request opens, the retry of
\* a process reopens or undoes, and everything that happens otherwise -- deliveries,
\* callbacks, redrives, crashes -- is a step the process manager allows its environment
\* (ProcessManager!OperationMoves), or none it can see.
Interface ==
  /\ \A m \in Messages : RequestOperation(m) => Life!Request(m)
  /\ \A m \in Messages : RetryWrite(m) => Life!Reopen(m) \/ Life!Undo(m) \/ Phases' = Phases
  /\ (\A m \in Messages : ~RequestOperation(m) /\ ~RetryWrite(m)) =>
       \/ \E m \in Messages : Life!Settle(m) \/ Life!Report(m) \/ Life!Reopen(m)
       \/ Phases' = Phases

LEMMA InterfaceStep ==
  ASSUME IInv, IInv', [Next]_vars
  PROVE  Interface
<1>1. \A m \in Messages : RequestOperation(m) => Life!Request(m)
  BY RequestMoves, OneMoves DEF Alone
<1>2. \A m \in Messages :
        RetryWrite(m) => Life!Reopen(m) \/ Life!Undo(m) \/ Phases' = Phases
  BY RetryMoves, OneMoves DEF Alone
<1>3. ASSUME \A m \in Messages : ~RequestOperation(m) /\ ~RetryWrite(m)
      PROVE  \/ \E m \in Messages : Life!Settle(m) \/ Life!Report(m) \/ Life!Reopen(m)
             \/ Phases' = Phases
  <2>1. CASE op' = op
    BY <2>1 DEF Phases, PhaseOf
  <2>2. CASE op' # op
    <3>1. PICK m \in Messages : Served(m) /\ Alone(m)
      BY <1>3, <2>2, ServiceMoves
    <3> QED
      BY <3>1, OneMoves DEF Alone
  <2> QED
    BY <2>1, <2>2
<1> QED
  BY <1>1, <1>2, <1>3 DEF Interface

\* What a requester sees of an operation, through any interleaving of workers,
\* redrives, callbacks and retries, is the abstract lifecycle.
THEOREM OperationsRefineLifecycle == Spec => Life!LifeSafety
<1>1. Init => Life!LifeInit
  BY DEF Init, Life!LifeInit, PhaseOf, Open
<1>2. IInv /\ IInv' /\ [Next]_vars => [Life!LifeNext]_Phases
  BY InterfaceStep DEF Interface, Life!LifeNext
<1> QED
  BY <1>1, <1>2, Invariance, PTL DEF Spec, Safety, Life!LifeSafety, Phases

\* The operations take no liberty with those who requested them: what the composition
\* does to an operation is what the model of the processes expects, and who does it.
THEOREM OperationsServeProcesses == Spec => [][Interface]_vars
<1>1. IInv /\ IInv' /\ [Next]_vars => [Interface]_vars
  BY InterfaceStep
<1> QED
  BY <1>1, Invariance, PTL DEF Spec, Safety
=============================================================================
