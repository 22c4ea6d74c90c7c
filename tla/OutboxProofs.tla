---------------------------- MODULE OutboxProofs ----------------------------
(* Safety of the outbox protocol for any set of messages and of workers.     *)
EXTENDS Outbox, TLAPS

\* The first states are typed, and nothing is claimed in them.
LEMMA OutboxInitInv == OutboxInit => OutboxInv
<1> SUFFICES ASSUME OutboxInit PROVE OutboxInv
  OBVIOUS
<1> USE OutboxAssumption DEF OutboxAssumption, OutboxInit
<1>1. OutboxTypeOK
  BY DEF OutboxTypeOK, Row, Hand, Empty, Status, Clock, Attempt
<1>2. TokenMarksClaim
  BY DEF TokenMarksClaim
<1>3. SnapshotCurrent
  BY DEF SnapshotCurrent, Owns, Busy, Empty
<1> QED
  BY <1>1, <1>2, <1>3 DEF OutboxInv

\* A worker that is busy holds a message of the outbox.
LEMMA HeldMessage ==
  ASSUME OutboxTypeOK, NEW w \in Workers, Busy(w)
  PROVE  hands[w].message \in Messages
BY DEF OutboxTypeOK, Hand, Busy

\* Every step of the outbox keeps the rows and the hands typed.
LEMMA OutboxStepType ==
  ASSUME OutboxTypeOK, [OutboxNext]_outboxVars
  PROVE  OutboxTypeOK'
<1> USE DEF OutboxTypeOK
<1>0. 0 \in Attempt /\ Empty \in Hand
  BY OutboxAssumption DEF OutboxAssumption, Attempt, Empty, Hand
<1>1. ASSUME NEW m \in Messages, Enqueue(m) PROVE OutboxTypeOK'
  BY <1>1 DEF Enqueue, Row, Status, Clock
<1>2. ASSUME NEW m \in Messages, LeaseLapses(m) PROVE OutboxTypeOK'
  BY <1>2 DEF LeaseLapses, Row, Clock
<1>3. ASSUME NEW m \in Messages, LeaseMissed(m) PROVE OutboxTypeOK'
  <2>1. faults' \in 0 .. MaxFaults
    BY <1>3, OutboxAssumption DEF LeaseMissed, OutboxAssumption
  <2> QED
    BY <1>3, <2>1 DEF LeaseMissed, Row, Clock
<1>4. ASSUME NEW m \in Messages, BackoffEnds(m) PROVE OutboxTypeOK'
  BY <1>4 DEF BackoffEnds, Row, Clock
<1>5. ASSUME NEW m \in Messages, Redrive(m) PROVE OutboxTypeOK'
  BY <1>0, <1>5 DEF Redrive, Row, Status, Clock
<1>6. ASSUME NEW m \in Messages, Purge(m) PROVE OutboxTypeOK'
  BY <1>6 DEF Purge, Row, Status
<1>7. ASSUME NEW w \in Workers, NEW m \in Messages, Claim(w, m) PROVE OutboxTypeOK'
  <2>1. NextAttempt(m) \in Attempt
    BY OutboxAssumption DEF OutboxAssumption, NextAttempt, Attempt, Row
  <2> QED
    BY <1>7, <2>1, ZenonT(40) DEF Claim, Row, Hand, Status, Clock
<1>8. ASSUME NEW w \in Workers, Complete(w) PROVE OutboxTypeOK'
  <2>1. hands[w].message \in Messages
    BY <1>8, HeldMessage DEF Complete, Owns
  <2> QED
    BY <1>0, <1>8, <2>1 DEF Complete, Acknowledge, LetGo, Row, Status, Clock
<1>9. ASSUME NEW w \in Workers, NEW retryable \in BOOLEAN, Fail(w, retryable) PROVE OutboxTypeOK'
  <2>1. hands[w].message \in Messages
    BY <1>9, HeldMessage DEF Fail, Owns
  <2>2. /\ (IF Dead(w, retryable) THEN "DEAD" ELSE "PENDING") \in Status
        /\ (IF Dead(w, retryable) THEN "none" ELSE "later") \in Clock
    BY DEF Status, Clock
  <2> QED
    BY <1>0, <1>9, <2>1, <2>2 DEF Fail, Reject, LetGo, Row
<1>10. ASSUME NEW w \in Workers, Forfeit(w) PROVE OutboxTypeOK'
  BY <1>0, <1>10 DEF Forfeit, LetGo
<1>11. ASSUME NEW w \in Workers, Heartbeat(w) PROVE OutboxTypeOK'
  <2>1. hands[w].message \in Messages
    BY <1>11, HeldMessage DEF Heartbeat, Owns
  <2> QED
    BY <1>11, <2>1 DEF Heartbeat, Row, Clock
<1>12. ASSUME NEW w \in Workers, Crash(w) PROVE OutboxTypeOK'
  <2>1. faults' \in 0 .. MaxFaults
    BY <1>12, OutboxAssumption DEF Crash, OutboxAssumption
  <2> QED
    BY <1>0, <1>12, <2>1 DEF Crash, LetGo
<1>13. CASE UNCHANGED outboxVars
  BY <1>13 DEF outboxVars
<1> QED
  BY <1>1, <1>2, <1>3, <1>4, <1>5, <1>6, <1>7, <1>8, <1>9, <1>10, <1>11, <1>12, <1>13
     DEF OutboxNext

\* Every step keeps a row's token and timestamp in line with its status.
LEMMA OutboxStepToken ==
  ASSUME OutboxTypeOK, TokenMarksClaim, [OutboxNext]_outboxVars
  PROVE  TokenMarksClaim'
<1> USE DEF TokenMarksClaim
<1>0. rows \in [Messages -> Row] /\ Nobody \notin Workers
  BY OutboxAssumption DEF OutboxTypeOK, OutboxAssumption
<1>1. ASSUME NEW m \in Messages, Enqueue(m) PROVE TokenMarksClaim'
  BY <1>0, <1>1 DEF Enqueue, Row
<1>2. ASSUME NEW m \in Messages, LeaseLapses(m) PROVE TokenMarksClaim'
  BY <1>0, <1>2 DEF LeaseLapses, Row
<1>3. ASSUME NEW m \in Messages, LeaseMissed(m) PROVE TokenMarksClaim'
  BY <1>0, <1>3 DEF LeaseMissed, Row
<1>4. ASSUME NEW m \in Messages, BackoffEnds(m) PROVE TokenMarksClaim'
  BY <1>0, <1>4 DEF BackoffEnds, Row
<1>5. ASSUME NEW m \in Messages, Redrive(m) PROVE TokenMarksClaim'
  BY <1>0, <1>5 DEF Redrive, Row
<1>6. ASSUME NEW m \in Messages, Purge(m) PROVE TokenMarksClaim'
  BY <1>0, <1>6 DEF Purge, Row
<1>7. ASSUME NEW w \in Workers, NEW m \in Messages, Claim(w, m) PROVE TokenMarksClaim'
  BY <1>0, <1>7 DEF Claim, Row
<1>8. ASSUME NEW w \in Workers, Complete(w) PROVE TokenMarksClaim'
  <2>1. hands[w].message \in Messages
    BY <1>8, HeldMessage DEF Complete, Owns
  <2> QED
    BY <1>0, <1>8, <2>1 DEF Complete, Acknowledge, Row
<1>9. ASSUME NEW w \in Workers, NEW retryable \in BOOLEAN, Fail(w, retryable) PROVE TokenMarksClaim'
  <2>1. hands[w].message \in Messages
    BY <1>9, HeldMessage DEF Fail, Owns
  <2>2. CASE Dead(w, retryable)
    BY <1>0, <1>9, <2>1, <2>2 DEF Fail, Reject, Row
  <2>3. CASE ~Dead(w, retryable)
    BY <1>0, <1>9, <2>1, <2>3 DEF Fail, Reject, Row
  <2> QED
    BY <2>2, <2>3
<1>10. ASSUME NEW w \in Workers, Forfeit(w) PROVE TokenMarksClaim'
  BY <1>10 DEF Forfeit
<1>11. ASSUME NEW w \in Workers, Heartbeat(w) PROVE TokenMarksClaim'
  <2>1. hands[w].message \in Messages
    BY <1>11, HeldMessage DEF Heartbeat, Owns
  <2> QED
    BY <1>0, <1>11, <2>1 DEF Heartbeat, Owns, Row
<1>12. ASSUME NEW w \in Workers, Crash(w) PROVE TokenMarksClaim'
  BY <1>12 DEF Crash
<1>13. CASE UNCHANGED outboxVars
  BY <1>13 DEF outboxVars
<1> QED
  BY <1>1, <1>2, <1>3, <1>4, <1>5, <1>6, <1>7, <1>8, <1>9, <1>10, <1>11, <1>12, <1>13
     DEF OutboxNext

\* Every step keeps a standing claim's copy of the attempts equal to the row's:
\* the attempts of a row move only when its token does.
LEMMA OutboxStepSnapshot ==
  ASSUME OutboxTypeOK, SnapshotCurrent, [OutboxNext]_outboxVars
  PROVE  SnapshotCurrent'
<1> USE DEF SnapshotCurrent, Owns, Busy
<1>0. /\ rows \in [Messages -> Row]
      /\ hands \in [Workers -> Hand]
      /\ Nobody \notin Workers \cup Messages
  BY OutboxAssumption DEF OutboxTypeOK, OutboxAssumption
<1>h. \A w \in Workers : hands[w].message # Nobody => hands[w].message \in Messages
  BY <1>0 DEF Hand
<1>1. ASSUME NEW m \in Messages, Enqueue(m) PROVE SnapshotCurrent'
  BY <1>0, <1>h, <1>1 DEF Enqueue, Row
<1>2. ASSUME NEW m \in Messages, LeaseLapses(m) PROVE SnapshotCurrent'
  BY <1>0, <1>h, <1>2 DEF LeaseLapses, Row
<1>3. ASSUME NEW m \in Messages, LeaseMissed(m) PROVE SnapshotCurrent'
  BY <1>0, <1>h, <1>3 DEF LeaseMissed, Row
<1>4. ASSUME NEW m \in Messages, BackoffEnds(m) PROVE SnapshotCurrent'
  BY <1>0, <1>h, <1>4 DEF BackoffEnds, Row
<1>5. ASSUME NEW m \in Messages, Redrive(m) PROVE SnapshotCurrent'
  BY <1>0, <1>h, <1>5 DEF Redrive, Row
<1>6. ASSUME NEW m \in Messages, Purge(m) PROVE SnapshotCurrent'
  BY <1>0, <1>h, <1>6 DEF Purge, Row
<1>7. ASSUME NEW w \in Workers, NEW m \in Messages, Claim(w, m) PROVE SnapshotCurrent'
  BY <1>0, <1>h, <1>7 DEF Claim, Row, Hand
<1>8. ASSUME NEW w \in Workers, Complete(w) PROVE SnapshotCurrent'
  BY <1>0, <1>h, <1>8 DEF Complete, Acknowledge, LetGo, Empty, Row, Hand
<1>9. ASSUME NEW w \in Workers, NEW retryable \in BOOLEAN, Fail(w, retryable) PROVE SnapshotCurrent'
  BY <1>0, <1>h, <1>9 DEF Fail, Reject, LetGo, Empty, Row, Hand
<1>10. ASSUME NEW w \in Workers, Forfeit(w) PROVE SnapshotCurrent'
  BY <1>0, <1>10 DEF Forfeit, LetGo, Empty, Hand
<1>11. ASSUME NEW w \in Workers, Heartbeat(w) PROVE SnapshotCurrent'
  BY <1>0, <1>h, <1>11 DEF Heartbeat, Row, Hand
<1>12. ASSUME NEW w \in Workers, Crash(w) PROVE SnapshotCurrent'
  BY <1>0, <1>12 DEF Crash, LetGo, Empty, Hand
<1>13. CASE UNCHANGED outboxVars
  BY <1>13 DEF outboxVars
<1> QED
  BY <1>1, <1>2, <1>3, <1>4, <1>5, <1>6, <1>7, <1>8, <1>9, <1>10, <1>11, <1>12, <1>13
     DEF OutboxNext

\* The outbox invariant is inductive; composed specifications cite this step.
LEMMA OutboxStepInv ==
  ASSUME OutboxInv, [OutboxNext]_outboxVars
  PROVE  OutboxInv'
BY OutboxStepType, OutboxStepToken, OutboxStepSnapshot DEF OutboxInv

\* The inductive invariant of the outbox.
LEMMA OutboxInvariant == OutboxSpec => []OutboxInv
<1>1. OutboxInit => OutboxInv
  BY OutboxInitInv
<1>2. OutboxInv /\ [OutboxNext]_outboxVars => OutboxInv'
  BY OutboxStepInv
<1> QED
  BY <1>1, <1>2, PTL DEF OutboxSpec, OutboxSafety

\* Rows and hands stay typed.
THEOREM OutboxTypeCorrect == OutboxSpec => []OutboxTypeOK
<1>1. OutboxInv => OutboxTypeOK
  BY DEF OutboxInv
<1> QED
  BY <1>1, OutboxInvariant, PTL

\* A token and a lease mark exactly the rows in process, in every behaviour.
THEOREM OutboxTokenMarksClaim == OutboxSpec => []TokenMarksClaim
<1>1. OutboxInv => TokenMarksClaim
  BY DEF OutboxInv
<1> QED
  BY <1>1, OutboxInvariant, PTL

\* handle()'s retry-or-bury decision is never taken on stale attempts.
THEOREM OutboxSnapshotCurrent == OutboxSpec => []SnapshotCurrent
<1>1. OutboxInv => SnapshotCurrent
  BY DEF OutboxInv
<1> QED
  BY <1>1, OutboxInvariant, PTL

\* No step of the outbox takes an acknowledgement back.
LEMMA OutboxStepFinal ==
  ASSUME OutboxTypeOK, [OutboxNext]_outboxVars, NEW n \in Messages, rows[n].status = "SUCCEEDED"
  PROVE  rows'[n].status \in {"SUCCEEDED", "purged"}
<1>0. rows \in [Messages -> Row]
  BY DEF OutboxTypeOK
<1>1. ASSUME NEW m \in Messages, Enqueue(m) \/ LeaseLapses(m) \/ LeaseMissed(m) \/ BackoffEnds(m)
                                 \/ Redrive(m) \/ Purge(m)
      PROVE  rows'[n].status \in {"SUCCEEDED", "purged"}
  BY <1>0, <1>1 DEF Enqueue, LeaseLapses, LeaseMissed, BackoffEnds, Redrive, Purge, Row
<1>2. ASSUME NEW w \in Workers, NEW m \in Messages, Claim(w, m)
      PROVE  rows'[n].status \in {"SUCCEEDED", "purged"}
  BY <1>0, <1>2 DEF Claim, Claimable, Row
<1>3. ASSUME NEW w \in Workers, Complete(w) \/ Heartbeat(w) \/ \E retryable \in BOOLEAN : Fail(w, retryable)
      PROVE  rows'[n].status \in {"SUCCEEDED", "purged"}
  BY <1>0, <1>3 DEF Complete, Heartbeat, Fail, Owns, Acknowledge, Reject, Row
<1>4. ASSUME NEW w \in Workers, Forfeit(w) \/ Crash(w)
      PROVE  rows'[n].status \in {"SUCCEEDED", "purged"}
  BY <1>4 DEF Forfeit, Crash
<1>5. CASE UNCHANGED outboxVars
  BY <1>5 DEF outboxVars
<1> QED
  BY <1>1, <1>2, <1>3, <1>4, <1>5 DEF OutboxNext

\* An acknowledged message is never delivered, failed or redriven afterwards.
THEOREM OutboxAcknowledgedIsFinal == OutboxSpec => AcknowledgedIsFinal
<1>1. OutboxInv /\ [OutboxNext]_outboxVars =>
        [\A m \in Messages :
           rows[m].status = "SUCCEEDED" => rows'[m].status \in {"SUCCEEDED", "purged"}]_rows
  BY OutboxStepFinal DEF OutboxInv
<1> QED
  BY <1>1, OutboxInvariant, PTL DEF OutboxSpec, OutboxSafety, AcknowledgedIsFinal

\* The mapped standing of the messages, as a function.
Mapped == [m \in Messages |-> Standing(m)]

\* A step that moves one row, or none, moves one standing of the abstract queue,
\* or none.
LEMMA OutboxStepQueue ==
  ASSUME OutboxTypeOK, [OutboxNext]_outboxVars
  PROVE  [Queue!QueueNext]_Mapped
<1> USE DEF Mapped, Standing, Queue!QueueNext
<1>0. rows \in [Messages -> Row]
  BY DEF OutboxTypeOK
<1>1. ASSUME NEW m \in Messages, Enqueue(m) PROVE Queue!QueueNext
  <2>1. Queue!Put(m)
    BY <1>0, <1>1 DEF Enqueue, Row, Queue!Put, Queue!Move
  <2> QED
    BY <2>1
<1>2. ASSUME NEW m \in Messages, LeaseLapses(m) \/ LeaseMissed(m) \/ BackoffEnds(m)
      PROVE  UNCHANGED Mapped
  BY <1>0, <1>2 DEF LeaseLapses, LeaseMissed, BackoffEnds, Row
<1>5. ASSUME NEW m \in Messages, Redrive(m) PROVE Queue!QueueNext
  <2>1. Queue!Revive(m)
    BY <1>0, <1>5 DEF Redrive, Row, Queue!Revive, Queue!Move
  <2> QED
    BY <2>1
<1>6. ASSUME NEW m \in Messages, Purge(m) PROVE Queue!QueueNext
  <2>1. Queue!Forget(m)
    BY <1>0, <1>6 DEF Purge, Row, Queue!Forget, Queue!Move
  <2> QED
    BY <2>1
<1>7. ASSUME NEW w \in Workers, NEW m \in Messages, Claim(w, m) PROVE UNCHANGED Mapped
  BY <1>0, <1>7 DEF Claim, Claimable, Row
<1>8. ASSUME NEW w \in Workers, Complete(w) PROVE Queue!QueueNext
  <2>1. PICK m \in Messages : m = hands[w].message
    BY <1>8, HeldMessage DEF Complete, Owns
  <2>2. /\ rows[m].status = "PROCESSING"
        /\ rows' = [rows EXCEPT ![m] = [@ EXCEPT !.status = "SUCCEEDED", !.clock = "none", !.token = Nobody]]
    BY <1>8, <2>1 DEF Complete, Owns, Acknowledge
  <2>3. Queue!Move(m, "queued", "done")
    BY <1>0, <2>2 DEF Row, Queue!Move
  <2> QED
    BY <2>3 DEF Queue!Settle
<1>9. ASSUME NEW w \in Workers, NEW retryable \in BOOLEAN, Fail(w, retryable)
      PROVE  Queue!QueueNext \/ UNCHANGED Mapped
  <2>1. PICK m \in Messages : m = hands[w].message
    BY <1>9, HeldMessage DEF Fail, Owns
  <2>2. rows[m].status = "PROCESSING"
    BY <1>9, <2>1 DEF Fail, Owns
  <2>3. CASE Dead(w, retryable)
    <3>1. rows' = [rows EXCEPT ![m] = [@ EXCEPT !.status = "DEAD", !.clock = "none", !.token = Nobody]]
      BY <1>9, <2>1, <2>3 DEF Fail, Reject
    <3>2. Queue!Move(m, "queued", "buried")
      BY <1>0, <2>2, <3>1 DEF Row, Queue!Move
    <3> QED
      BY <3>2 DEF Queue!Settle
  <2>4. CASE ~Dead(w, retryable)
    <3>1. rows' = [rows EXCEPT ![m] = [@ EXCEPT !.status = "PENDING", !.clock = "later", !.token = Nobody]]
      BY <1>9, <2>1, <2>4 DEF Fail, Reject
    <3> QED
      BY <1>0, <2>2, <3>1 DEF Row
  <2> QED
    BY <2>3, <2>4
<1>11. ASSUME NEW w \in Workers, Heartbeat(w) PROVE UNCHANGED Mapped
  <2>1. hands[w].message \in Messages
    BY <1>11, HeldMessage DEF Heartbeat, Owns
  <2> QED
    BY <1>0, <1>11, <2>1 DEF Heartbeat, Row
<1>12. ASSUME NEW w \in Workers, Forfeit(w) \/ Crash(w) PROVE UNCHANGED Mapped
  BY <1>12 DEF Forfeit, Crash
<1>13. CASE UNCHANGED outboxVars
  BY <1>13 DEF outboxVars
<1> QED
  BY <1>1, <1>2, <1>5, <1>6, <1>7, <1>8, <1>9, <1>11, <1>12, <1>13 DEF OutboxNext

\* The outbox implements the safety of the abstract delivery queue: a message is
\* done or buried once, and only a redrive or retention moves it afterwards.
THEOREM OutboxRefinesQueue == OutboxSpec => Queue!QueueSafety
<1>1. OutboxInit => Queue!QueueInit
  BY DEF OutboxInit, Queue!QueueInit, Standing
<1>2. OutboxInv /\ [OutboxNext]_outboxVars => [Queue!QueueNext]_Mapped
  BY OutboxStepQueue DEF OutboxInv
<1> QED
  BY <1>1, <1>2, OutboxInvariant, PTL DEF OutboxSpec, OutboxSafety, Queue!QueueSafety, Mapped
=============================================================================
