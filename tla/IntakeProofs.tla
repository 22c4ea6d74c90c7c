---------------------------- MODULE IntakeProofs ----------------------------
(* Safety of intake for any signals, messages, notifications and workers.    *)
EXTENDS Intake, OutboxProofs

\* An open processing transaction still owns its message, works on a signal not
\* processed yet, and is the only one for that signal.
Processing ==
  \A w \in Workers :
    stage[w] = "processing" =>
      /\ Owns(w)
      /\ hands[w].message \notin Notices
      /\ SignalOf(w) \in Signals
      /\ signals[SignalOf(w)] = "RECEIVED"
      /\ \A v \in Workers \ {w} : stage[v] = "processing" => SignalOf(v) # SignalOf(w)

\* A message of type 'signal' names its signal from the moment it exists.
Queued ==
  \A m \in Messages \ Notices : rows[m].status # "absent" => about[m] \in Signals

\* Only notifications are sent, and what is delivered has been taken by a transport.
Sending ==
  \A w \in Workers :
    /\ stage[w] \in {"sending", "delivered"} => hands[w].message \in Notices
    /\ stage[w] = "delivered" => hands[w].message \in handed

IInv ==
  /\ OutboxInv
  /\ TypeOK
  /\ Processing
  /\ Queued
  /\ Sending
  /\ RunsOnce
  /\ NoticesTrue

-----------------------------------------------------------------------------

\* A step is a step of the outbox, or the commit of a processing transaction, which
\* acknowledges one message and queues others at once.
LEMMA StepIsOutboxStep ==
  ASSUME [Next]_vars, \A w \in Workers : ~Commit(w)
  PROVE  [OutboxNext]_outboxVars
<1> USE DEF outboxVars
<1>1. ASSUME NEW s \in Signals, Accept(s) \/ QueueRead(s) \/ QueueWrite(s)
      PROVE  [OutboxNext]_outboxVars
  BY <1>1 DEF Accept, QueueRead, QueueWrite, OutboxNext
<1>2. ASSUME NEW n \in Notices, RequestNotice(n) PROVE [OutboxNext]_outboxVars
  BY <1>2, IntakeAssumption DEF IntakeAssumption, RequestNotice, OutboxNext
<1>3. ASSUME NEW w \in Workers, Handle(w) PROVE [OutboxNext]_outboxVars
  <2>1. CASE Begin(w) \/ ReadNotice(w) \/ Send(w) \/ \E error \in Errors : Throw(w, error)
    BY <2>1 DEF Begin, ReadNotice, Send, Throw
  <2>2. CASE SkipProcessed(w) \/ AcknowledgeNotice(w)
    BY <2>2 DEF SkipProcessed, AcknowledgeNotice, OutboxNext
  <2>3. CASE RecordFailure(w)
    <3>1. (stage[w] = "broken") \in BOOLEAN
      OBVIOUS
    <3> QED
      BY <2>3, <3>1 DEF RecordFailure, OutboxNext
  <2>4. CASE ForfeitDelivery(w)
    BY <2>4 DEF ForfeitDelivery, OutboxNext
  <2> QED
    BY <1>3, <2>1, <2>2, <2>3, <2>4 DEF Handle
<1>4. ASSUME NEW w \in Workers, CrashWorker(w) PROVE [OutboxNext]_outboxVars
  BY <1>4 DEF CrashWorker, OutboxNext
<1>5. ASSUME NEW w \in Workers, NEW m \in Messages, ClaimMessage(w, m)
      PROVE  [OutboxNext]_outboxVars
  BY <1>5 DEF ClaimMessage, OutboxNext
<1>6. CASE Background
  BY <1>6 DEF Background, OutboxNext
<1>7. CASE UNCHANGED vars
  BY <1>7 DEF vars
<1> QED
  BY <1>1, <1>2, <1>3, <1>4, <1>5, <1>6, <1>7 DEF Next

\* What the commit does to each row, spelled out.
LEMMA CommitRows ==
  ASSUME IInv, NEW w \in Workers, Commit(w)
  PROVE  \E new \in SUBSET Notices :
           /\ \A n \in new : rows[n].status = "absent"
           /\ hands[w].message \in Messages \ Notices
           /\ Owns(w)
           /\ QueueNotices(new, SignalOf(w))
           /\ rows' \in [Messages -> Row]
           /\ rows'[hands[w].message].status = "SUCCEEDED"
           /\ rows'[hands[w].message].clock = "none"
           /\ rows'[hands[w].message].token = Nobody
           /\ \A n \in new : /\ rows'[n].status = "PENDING"
                            /\ rows'[n].clock = "due"
                            /\ rows'[n].token = rows[n].token
           /\ \A m \in Messages \ new : m # hands[w].message => rows'[m] = rows[m]
<1>1. Owns(w) /\ hands[w].message \in Messages \ Notices
  BY HeldMessage DEF IInv, OutboxInv, Processing, Commit, AtStage
<1>2. PICK new \in Requested :
        /\ QueueNotices(new, SignalOf(w))
        /\ rows' = [m \in Messages |->
             CASE m = hands[w].message ->
                    [rows[m] EXCEPT !.status = "SUCCEEDED", !.clock = "none", !.token = Nobody]
               [] m \in new -> [rows[m] EXCEPT !.status = "PENDING", !.clock = "due"]
               [] OTHER -> rows[m]]
  BY DEF Commit
<1>3. new \in SUBSET Notices /\ \A n \in new : rows[n].status = "absent"
  BY DEF Requested
<1>4. rows \in [Messages -> Row] /\ Notices \subseteq Messages
  BY IntakeAssumption DEF IntakeAssumption, IInv, OutboxInv, OutboxTypeOK
<1>5. \A m \in Messages :
        /\ [rows[m] EXCEPT !.status = "SUCCEEDED", !.clock = "none", !.token = Nobody] \in Row
        /\ [rows[m] EXCEPT !.status = "PENDING", !.clock = "due"] \in Row
        /\ rows[m] \in Row
  BY <1>4 DEF Row, Status, Clock
<1>6. \A m \in Messages :
        rows'[m] = CASE m = hands[w].message ->
                          [rows[m] EXCEPT !.status = "SUCCEEDED", !.clock = "none", !.token = Nobody]
                     [] m \in new -> [rows[m] EXCEPT !.status = "PENDING", !.clock = "due"]
                     [] OTHER -> rows[m]
  BY <1>2
<1>7. /\ rows'[hands[w].message] = [rows[hands[w].message] EXCEPT
                !.status = "SUCCEEDED", !.clock = "none", !.token = Nobody]
      /\ \A n \in new : rows'[n] = [rows[n] EXCEPT !.status = "PENDING", !.clock = "due"]
      /\ \A m \in Messages \ new : m # hands[w].message => rows'[m] = rows[m]
  BY <1>1, <1>3, <1>4, <1>6
<1>8. rows' \in [Messages -> Row]
  <2>1. \A m \in Messages : rows'[m] \in Row
    BY <1>5, <1>7
  <2> QED
    BY <1>2, <2>1
<1>9. /\ rows'[hands[w].message].status = "SUCCEEDED"
      /\ rows'[hands[w].message].clock = "none"
      /\ rows'[hands[w].message].token = Nobody
  <2>1. rows[hands[w].message] \in Row
    BY <1>1, <1>4
  <2> QED
    BY <1>7, <2>1 DEF Row
<1>10. ASSUME NEW n \in new
       PROVE  /\ rows'[n].status = "PENDING"
              /\ rows'[n].clock = "due"
              /\ rows'[n].token = rows[n].token
  <2>1. rows[n] \in Row
    BY <1>3, <1>4
  <2>2. rows'[n] = [rows[n] EXCEPT !.status = "PENDING", !.clock = "due"]
    BY <1>7
  <2> QED
    BY <2>1, <2>2 DEF Row
<1> QED
  BY <1>1, <1>2, <1>3, <1>7, <1>8, <1>9, <1>10

\* The commit keeps the outbox invariant too.
LEMMA CommitOutboxInv ==
  ASSUME IInv, NEW w \in Workers, Commit(w)
  PROVE  OutboxInv'
<1>1. PICK new \in SUBSET Notices :
           /\ \A n \in new : rows[n].status = "absent"
           /\ hands[w].message \in Messages \ Notices
           /\ Owns(w)
           /\ rows' \in [Messages -> Row]
           /\ rows'[hands[w].message].status = "SUCCEEDED"
           /\ rows'[hands[w].message].clock = "none"
           /\ rows'[hands[w].message].token = Nobody
           /\ \A n \in new : /\ rows'[n].status = "PENDING"
                            /\ rows'[n].clock = "due"
                            /\ rows'[n].token = rows[n].token
           /\ \A m \in Messages \ new : m # hands[w].message => rows'[m] = rows[m]
  BY CommitRows
<1>2. /\ rows \in [Messages -> Row] /\ hands \in [Workers -> Hand]
      /\ TokenMarksClaim /\ SnapshotCurrent
      /\ Nobody \notin Workers \cup Messages /\ Notices \subseteq Messages
  BY OutboxAssumption, IntakeAssumption
     DEF OutboxAssumption, IntakeAssumption, IInv, OutboxInv, OutboxTypeOK
<1>3. hands' = [hands EXCEPT ![w] = Empty] /\ faults' = faults /\ Empty \in Hand
  <2>1. hands' = [hands EXCEPT ![w] = Empty] /\ faults' = faults
    BY Zenon DEF Commit, LetGo
  <2>2. Empty \in Hand
    BY OutboxAssumption DEF OutboxAssumption, Empty, Hand, Attempt
  <2> QED
    BY <2>1, <2>2
<1>4. OutboxTypeOK'
  <2>1. faults \in 0 .. MaxFaults
    BY DEF IInv, OutboxInv, OutboxTypeOK
  <2>2. hands' \in [Workers -> Hand]
    BY <1>2, <1>3
  <2> QED
    BY <1>1, <1>3, <2>1, <2>2 DEF OutboxTypeOK
<1>5. \A m \in Messages :
        \/ rows'[m] = rows[m]
        \/ /\ rows'[m].status # "PROCESSING" /\ rows'[m].clock \notin {"live", "expired"}
           /\ rows'[m].token = Nobody
           /\ rows'[m].status = "PENDING" <=> rows'[m].clock \in {"due", "later"}
  <2> TAKE m \in Messages
  <2>1. CASE m = hands[w].message
    BY <1>1, <1>2, <2>1 DEF Row
  <2>2. CASE m \in new
    BY <1>1, <1>2, <2>2 DEF Row, TokenMarksClaim
  <2>3. CASE m # hands[w].message /\ m \notin new
    BY <1>1, <2>3
  <2> QED
    BY <2>1, <2>2, <2>3
<1>6. TokenMarksClaim'
  BY <1>2, <1>5 DEF TokenMarksClaim
<1>7. SnapshotCurrent'
  <2> SUFFICES ASSUME NEW v \in Workers, Owns(v)'
               PROVE  hands'[v].attempts = rows'[hands'[v].message].attempts
    BY DEF SnapshotCurrent
  <2>1. v # w /\ hands'[v] = hands[v]
    BY <1>2, <1>3 DEF Owns, Busy, Empty
  <2>2. hands[v].message \in Messages
    BY <1>2, <2>1 DEF Owns, Busy, Hand
  <2>3. rows'[hands[v].message] = rows[hands[v].message]
    BY <1>5, <2>1, <2>2 DEF Owns
  <2> QED
    BY <1>2, <2>1, <2>3 DEF Owns, Busy, SnapshotCurrent
<1> QED
  BY <1>4, <1>6, <1>7 DEF OutboxInv

LEMMA StepOutboxInv ==
  ASSUME IInv, [Next]_vars
  PROVE  OutboxInv'
<1>1. CASE \E w \in Workers : Commit(w)
  BY <1>1, CommitOutboxInv
<1>2. CASE \A w \in Workers : ~Commit(w)
  BY <1>2, StepIsOutboxStep, OutboxStepInv DEF IInv
<1> QED
  BY <1>1, <1>2

LEMMA InitIInv == Init => IInv
<1> SUFFICES ASSUME Init PROVE IInv
  OBVIOUS
<1>1. OutboxInv
  BY OutboxInitInv DEF Init
<1>2. /\ \A m \in Messages : rows[m].status = "absent"
      /\ \A w \in Workers : hands[w].message = Nobody
  BY DEF Init, OutboxInit, Empty
<1>3. TypeOK
  BY <1>1, <1>2 DEF Init, TypeOK, OutboxInv, NoticeStatus, Stage, Busy
<1>4. Processing /\ Sending
  BY DEF Init, Processing, Sending
<1>5. Queued /\ NoticesTrue
  BY <1>2, IntakeAssumption DEF IntakeAssumption, Init, Queued, NoticesTrue
<1>6. RunsOnce
  BY IntakeAssumption DEF IntakeAssumption, Init, RunsOnce
<1> QED
  BY <1>1, <1>3, <1>4, <1>5, <1>6 DEF IInv

\* Every step keeps signals, notices and stages typed.
LEMMA StepTypeOK ==
  ASSUME IInv, [Next]_vars
  PROVE  TypeOK'
<1>0. OutboxTypeOK'
  BY StepOutboxInv DEF OutboxInv
<1>h. \A w \in Workers : Busy(w) => hands[w].message \in Messages
  BY HeldMessage DEF IInv, TypeOK
<1>t. /\ hands \in [Workers -> Hand] /\ Empty.message = Nobody
      /\ signals \in [Signals -> {"absent", "RECEIVED", "PROCESSED"}]
      /\ instances \in [Signals -> Nat]
      /\ about \in [Messages -> Signals \cup {Nobody}]
      /\ notices \in [Notices -> NoticeStatus]
      /\ handed \subseteq Notices /\ queuing \subseteq Signals
      /\ stage \in [Workers -> Stage]
      /\ \A w \in Workers : Busy(w) <=> stage[w] # "idle"
  BY DEF IInv, TypeOK, OutboxTypeOK, Empty
<1>n. Nobody \notin Messages /\ Notices \subseteq Messages
  BY OutboxAssumption, IntakeAssumption DEF OutboxAssumption, IntakeAssumption
<1> DEFINE Rest == /\ signals' \in [Signals -> {"absent", "RECEIVED", "PROCESSED"}]
                   /\ instances' \in [Signals -> Nat]
                   /\ about' \in [Messages -> Signals \cup {Nobody}]
                   /\ notices' \in [Notices -> NoticeStatus]
                   /\ handed' \subseteq Notices /\ queuing' \subseteq Signals
                   /\ stage' \in [Workers -> Stage]
                   /\ \A w \in Workers : Busy(w)' <=> stage'[w] # "idle"
<1> SUFFICES Rest
  BY <1>0 DEF TypeOK
<1> USE <1>t
<1>1. ASSUME NEW s \in Signals, Accept(s) PROVE Rest
  BY <1>1 DEF Accept, Enqueue, Busy
<1>2. ASSUME NEW s \in Signals, QueueRead(s) PROVE Rest
  BY <1>2 DEF QueueRead, Busy
<1>3. ASSUME NEW s \in Signals, QueueWrite(s) PROVE Rest
  BY <1>3 DEF QueueWrite, Enqueue, Busy
<1>4. ASSUME NEW n \in Notices, RequestNotice(n) PROVE Rest
  BY <1>4 DEF RequestNotice, Enqueue, Busy, NoticeStatus
<1>5. ASSUME NEW w \in Workers, Handle(w) PROVE Rest
  <2>1. CASE Begin(w)
    BY <2>1 DEF Begin, Opens, AtStage, ToStage, Busy, Stage
  <2>2. CASE SkipProcessed(w)
    BY <2>2 DEF SkipProcessed, Complete, LetGo, ToStage, Busy, Stage
  <2>3. CASE Commit(w)
    <3>1. SignalOf(w) \in Signals
      BY <2>3 DEF Commit, AtStage, IInv, Processing
    <3>2. /\ signals' = [signals EXCEPT ![SignalOf(w)] = "PROCESSED"]
          /\ instances' = [instances EXCEPT ![SignalOf(w)] = @ + 1]
          /\ hands' = [hands EXCEPT ![w] = Empty]
          /\ stage' = [stage EXCEPT ![w] = "idle"]
          /\ handed' = handed /\ queuing' = queuing
      BY <2>3, Zenon DEF Commit, RunWorkflow, LetGo, ToStage
    <3>3. PICK new \in SUBSET Notices : QueueNotices(new, SignalOf(w))
      BY <2>3, CommitRows
    <3>4. about' \in [Messages -> Signals \cup {Nobody}] /\ notices' \in [Notices -> NoticeStatus]
      BY <3>1, <3>3 DEF QueueNotices, NoticeStatus
    <3>5. instances' \in [Signals -> Nat]
      BY <3>1, <3>2
    <3>6. signals' \in [Signals -> {"absent", "RECEIVED", "PROCESSED"}]
      BY <3>1, <3>2
    <3>7. stage' \in [Workers -> Stage] /\ \A v \in Workers : Busy(v)' <=> stage'[v] # "idle"
      BY <3>2 DEF Busy, Stage
    <3> QED
      BY <3>2, <3>4, <3>5, <3>6, <3>7
  <2>4. CASE ReadNotice(w)
    BY <2>4 DEF ReadNotice, AtStage, ToStage, Busy, Stage
  <2>5. CASE Send(w)
    <3>1. hands[w].message \in Notices
      BY <2>5 DEF Send, AtStage, IInv, Sending
    <3> QED
      BY <2>5, <3>1 DEF Send, AtStage, ToStage, Busy, Stage
  <2>6. CASE AcknowledgeNotice(w)
    BY <2>6 DEF AcknowledgeNotice, Complete, LetGo, ToStage, Busy, Stage, NoticeStatus
  <2>7. CASE \E error \in Errors : Throw(w, error)
    BY <2>7 DEF Throw, ToStage, Busy, Stage, Errors
  <2>8. CASE RecordFailure(w)
    <3>1. notices' \in [Notices -> NoticeStatus]
      BY <2>8 DEF RecordFailure, NoticeStatus
    <3> QED
      BY <2>8, <3>1 DEF RecordFailure, Fail, LetGo, ToStage, Busy, Stage
  <2>9. CASE ForfeitDelivery(w)
    BY <2>9 DEF ForfeitDelivery, Forfeit, LetGo, ToStage, Busy, Stage
  <2> QED
    BY <1>5, <2>1, <2>2, <2>3, <2>4, <2>5, <2>6, <2>7, <2>8, <2>9 DEF Handle
<1>6. ASSUME NEW w \in Workers, CrashWorker(w) PROVE Rest
  BY <1>6 DEF CrashWorker, Crash, LetGo, ToStage, Busy, Stage
<1>7. ASSUME NEW w \in Workers, NEW m \in Messages, ClaimMessage(w, m) PROVE Rest
  BY <1>n, <1>7 DEF ClaimMessage, Claim, ToStage, Busy, Stage
<1>8. CASE Background
  BY <1>8 DEF Background, intakeVars, LeaseLapses, LeaseMissed, BackoffEnds, Redrive, Purge, Heartbeat, Busy
<1>9. CASE UNCHANGED vars
  BY <1>9 DEF vars, Busy
<1> QED
  BY <1>1, <1>2, <1>3, <1>4, <1>5, <1>6, <1>7, <1>8, <1>9 DEF Next

-----------------------------------------------------------------------------

\* While a processing transaction is open, nobody takes its message away.
LEMMA ProcessingKeepsClaim ==
  ASSUME IInv, [Next]_vars, NEW w \in Workers,
         stage[w] = "processing", stage'[w] = "processing"
  PROVE  Owns(w)' /\ hands'[w] = hands[w] /\ SignalOf(w)' = SignalOf(w)
<1> DEFINE own == hands[w].message
           Kept == /\ hands'[w] = hands[w]
                   /\ rows'[own].status = rows[own].status
                   /\ rows'[own].token = rows[own].token
                   /\ about'[own] = about[own]
<1>0. /\ rows \in [Messages -> Row] /\ hands \in [Workers -> Hand] /\ stage \in [Workers -> Stage]
      /\ about \in [Messages -> Signals \cup {Nobody}]
      /\ Nobody \notin Workers /\ Notices \subseteq Messages
  BY OutboxAssumption, IntakeAssumption
     DEF OutboxAssumption, IntakeAssumption, IInv, OutboxInv, OutboxTypeOK, TypeOK
<1>1. /\ Owns(w) /\ Busy(w) /\ own \in Messages \ Notices
      /\ rows[own].status = "PROCESSING" /\ rows[own].token = w
  BY HeldMessage DEF IInv, OutboxInv, Processing, Owns
<1> HIDE DEF own
<1> SUFFICES Kept
  BY <1>1 DEF Owns, Busy, SignalOf, own
<1>h. \A v \in Workers : Owns(v) => hands[v].message \in Messages
  BY HeldMessage DEF IInv, OutboxInv, Owns
<1>o. \A v \in Workers : Owns(v) /\ v # w => hands[v].message # own
  BY <1>1 DEF Owns
<1>a. ASSUME NEW s \in Signals, Accept(s) \/ QueueRead(s) \/ QueueWrite(s) PROVE Kept
  BY <1>0, <1>1, <1>a DEF Accept, QueueRead, QueueWrite, Enqueue
<1>b. ASSUME NEW n \in Notices, RequestNotice(n) PROVE Kept
  BY <1>0, <1>1, <1>b DEF RequestNotice, Enqueue
<1>c. ASSUME NEW v \in Workers, Handle(v) PROVE Kept
  <2>1. CASE Begin(v) \/ ReadNotice(v) \/ Send(v) \/ \E error \in Errors : Throw(v, error)
    BY <2>1 DEF Begin, ReadNotice, Send, Throw
  <2>2. CASE SkipProcessed(v) \/ AcknowledgeNotice(v)
    <3>1. v # w
      BY <1>0, <2>2 DEF SkipProcessed, AcknowledgeNotice, ToStage
    <3> QED
      BY <1>0, <1>1, <1>h, <1>o, <2>2, <3>1
         DEF SkipProcessed, AcknowledgeNotice, Complete, Acknowledge, LetGo
  <2>3. CASE Commit(v)
    <3>1. v # w /\ hands' = [hands EXCEPT ![v] = Empty]
      BY <1>0, <2>3, Zenon DEF Commit, ToStage, LetGo
    <3>2. PICK new \in SUBSET Notices :
            /\ Owns(v)
            /\ QueueNotices(new, SignalOf(v))
            /\ \A m \in Messages \ new : m # hands[v].message => rows'[m] = rows[m]
      BY <2>3, CommitRows
    <3>3. own # hands[v].message /\ own \notin new
      BY <1>1, <1>o, <3>1, <3>2
    <3> QED
      BY <1>0, <1>1, <3>1, <3>2, <3>3 DEF QueueNotices
  <2>4. CASE RecordFailure(v)
    <3>1. v # w /\ Fail(v, stage[v] = "broken") /\ about' = about
      BY <1>0, <2>4 DEF RecordFailure, ToStage
    <3>2. own # hands[v].message
      BY <1>o, <3>1 DEF Fail
    <3> QED
      BY <1>0, <1>1, <1>h, <3>1, <3>2 DEF Fail, Reject, LetGo
  <2>5. CASE ForfeitDelivery(v)
    <3>1. v # w /\ hands' = [hands EXCEPT ![v] = Empty]
      BY <1>0, <2>5 DEF ForfeitDelivery, Forfeit, LetGo, ToStage
    <3> QED
      BY <1>0, <2>5, <3>1 DEF ForfeitDelivery, Forfeit
  <2> QED
    BY <1>c, <2>1, <2>2, <2>3, <2>4, <2>5 DEF Handle
<1>d. ASSUME NEW v \in Workers, CrashWorker(v) PROVE Kept
  BY <1>0, <1>d DEF CrashWorker, Crash, LetGo, ToStage
<1>e. ASSUME NEW v \in Workers, NEW m \in Messages, ClaimMessage(v, m) PROVE Kept
  <2>1. m # own
    BY <1>1, <1>e DEF ClaimMessage, Locked, AtStage, own
  <2>2. v # w
    BY <1>1, <1>e DEF ClaimMessage, Claim
  <2> QED
    BY <1>0, <1>1, <1>e, <2>1, <2>2 DEF ClaimMessage, Claim
<1>f. CASE Background
  <2>1. about' = about
    <3>1. UNCHANGED intakeVars
      BY <1>f DEF Background
    <3> QED
      BY <3>1 DEF intakeVars
  <2>2. ASSUME NEW m \in Messages, LeaseLapses(m) \/ LeaseMissed(m) \/ BackoffEnds(m) PROVE Kept
    BY <1>0, <1>1, <2>1, <2>2 DEF LeaseLapses, LeaseMissed, BackoffEnds, Row
  <2>3. ASSUME NEW m \in Messages, Redrive(m) \/ Purge(m) PROVE Kept
    BY <1>0, <1>1, <2>1, <2>3 DEF Redrive, Purge
  <2>4. ASSUME NEW v \in Workers, Heartbeat(v) PROVE Kept
    BY <1>0, <1>1, <1>h, <2>1, <2>4 DEF Heartbeat, Row
  <2> QED
    BY <1>f, <2>2, <2>3, <2>4 DEF Background
<1>g. CASE UNCHANGED vars
  BY <1>g DEF vars
<1> QED
  BY <1>a, <1>b, <1>c, <1>d, <1>e, <1>f, <1>g DEF Next

\* The statuses of signals change only at acceptance and at the commit of processing.
LEMMA SignalsKept ==
  ASSUME IInv, [Next]_vars, \A v \in Workers : ~Commit(v),
         NEW s \in Signals, signals[s] # "absent"
  PROVE  signals'[s] = signals[s]
<1>1. signals \in [Signals -> {"absent", "RECEIVED", "PROCESSED"}]
  BY DEF IInv, TypeOK
<1>2. ASSUME NEW r \in Signals, Accept(r) PROVE signals'[s] = signals[s]
  BY <1>1, <1>2 DEF Accept
<1>3. ASSUME NEW w \in Workers, Handle(w) PROVE signals'[s] = signals[s]
  BY <1>3 DEF Handle, Begin, SkipProcessed, ReadNotice, Send, AcknowledgeNotice, Throw,
              RecordFailure, ForfeitDelivery
<1> QED
  BY <1>2, <1>3 DEF Next, QueueRead, QueueWrite, RequestNotice, CrashWorker, ClaimMessage,
                    Background, intakeVars, vars

\* Only a beginning transaction enters the stage of processing.
LEMMA EntersProcessing ==
  ASSUME IInv, [Next]_vars, NEW w \in Workers, stage'[w] = "processing"
  PROVE  stage[w] = "processing" \/ Begin(w)
<1>0. stage \in [Workers -> Stage]
  BY DEF IInv, TypeOK
<1>1. ASSUME NEW v \in Workers, Handle(v) PROVE stage[w] = "processing" \/ Begin(w)
  <2>1. CASE Begin(v)
    BY <1>0, <2>1 DEF Begin, ToStage
  <2>2. CASE Commit(v)
    BY <1>0, <2>2 DEF Commit, ToStage
  <2>3. CASE SkipProcessed(v) \/ ReadNotice(v) \/ Send(v) \/ AcknowledgeNotice(v)
    BY <1>0, <2>3 DEF SkipProcessed, ReadNotice, Send, AcknowledgeNotice, ToStage
  <2>4. CASE RecordFailure(v) \/ ForfeitDelivery(v) \/ \E error \in Errors : Throw(v, error)
    BY <1>0, <2>4 DEF RecordFailure, ForfeitDelivery, Throw, ToStage, Errors
  <2> QED
    BY <1>1, <2>1, <2>2, <2>3, <2>4 DEF Handle
<1>2. ASSUME NEW v \in Workers, CrashWorker(v) \/ \E m \in Messages : ClaimMessage(v, m)
      PROVE  stage[w] = "processing"
  BY <1>0, <1>2 DEF CrashWorker, ClaimMessage, ToStage
<1> QED
  BY <1>1, <1>2 DEF Next, Accept, QueueRead, QueueWrite, RequestNotice, Background, intakeVars, vars

\* What a beginning transaction finds, under the lock of its signal.
LEMMA BeginFinds ==
  ASSUME IInv, NEW w \in Workers, Begin(w)
  PROVE  /\ Owns(w) /\ Owns(w)' /\ hands' = hands /\ about' = about /\ signals' = signals
         /\ stage' = [stage EXCEPT ![w] = "processing"]
         /\ hands[w].message \notin Notices
         /\ SignalOf(w) \in Signals
         /\ signals[SignalOf(w)] = "RECEIVED"
         /\ \A v \in Workers : stage[v] = "processing" => SignalOf(v) # SignalOf(w)
<1>1. /\ Owns(w) /\ Owns(w)' /\ hands' = hands /\ about' = about /\ signals' = signals
      /\ stage' = [stage EXCEPT ![w] = "processing"]
      /\ hands[w].message \notin Notices
      /\ signals[SignalOf(w)] = "RECEIVED" /\ SignalFree(SignalOf(w))
  BY DEF Begin, Opens, Owns, Busy, ToStage
<1>2. hands[w].message \in Messages /\ rows[hands[w].message].status = "PROCESSING"
  BY <1>1, HeldMessage DEF Owns, IInv, OutboxInv
<1>3. SignalOf(w) \in Signals
  BY <1>1, <1>2 DEF IInv, Queued, SignalOf
<1>4. \A v \in Workers : stage[v] = "processing" => Busy(v)
  BY DEF IInv, Processing, Owns
<1> QED
  BY <1>1, <1>3, <1>4 DEF SignalFree, AtStage

\* The open processing transactions keep their messages, and their signals apart.
LEMMA StepProcessing ==
  ASSUME IInv, [Next]_vars
  PROVE  Processing'
<1>0. stage \in [Workers -> Stage]
  BY DEF IInv, TypeOK
<1>1. CASE \E u \in Workers : Begin(u)
  <2>1. PICK u \in Workers : Begin(u)
    BY <1>1
  <2>2. \A v \in Workers : Owns(v) => Owns(v)'
    BY <2>1 DEF Begin, Owns, Busy
  <2>3. \A v \in Workers : SignalOf(v)' = SignalOf(v)
    BY <2>1, BeginFinds DEF SignalOf
  <2> QED
    BY <1>0, <2>1, <2>2, <2>3, BeginFinds DEF IInv, Processing
<1>2. CASE \A u \in Workers : ~Begin(u)
  <2>1. \A v \in Workers : stage'[v] = "processing" =>
          stage[v] = "processing" /\ Owns(v)' /\ hands'[v] = hands[v] /\ SignalOf(v)' = SignalOf(v)
    BY <1>2, EntersProcessing, ProcessingKeepsClaim
  <2>2. \A v \in Workers : stage'[v] = "processing" => signals'[SignalOf(v)] = "RECEIVED"
    <3> SUFFICES ASSUME NEW v \in Workers, stage'[v] = "processing"
                 PROVE  signals'[SignalOf(v)] = "RECEIVED"
      OBVIOUS
    <3>1. /\ stage[v] = "processing" /\ SignalOf(v) \in Signals
          /\ signals[SignalOf(v)] = "RECEIVED"
      BY <2>1 DEF IInv, Processing
    <3>2. CASE \A u \in Workers : ~Commit(u)
      BY <3>1, <3>2, SignalsKept
    <3>3. ASSUME NEW u \in Workers, Commit(u) PROVE signals'[SignalOf(v)] = "RECEIVED"
      <4>1. stage[u] = "processing" /\ stage' = [stage EXCEPT ![u] = "idle"]
            /\ signals' = [signals EXCEPT ![SignalOf(u)] = "PROCESSED"]
        BY <3>3, Zenon DEF Commit, AtStage, ToStage
      <4>2. u # v
        BY <1>0, <4>1
      <4>3. SignalOf(v) # SignalOf(u)
        BY <3>1, <4>1, <4>2 DEF IInv, Processing
      <4>4. signals \in [Signals -> {"absent", "RECEIVED", "PROCESSED"}]
        BY DEF IInv, TypeOK
      <4> QED
        BY <3>1, <4>1, <4>3, <4>4
    <3> QED
      BY <3>2, <3>3
  <2> QED
    BY <2>1, <2>2 DEF IInv, Processing
<1> QED
  BY <1>1, <1>2

\* A queued message keeps naming its signal.
LEMMA StepQueued ==
  ASSUME IInv, [Next]_vars
  PROVE  Queued'
<1>0. /\ rows \in [Messages -> Row] /\ about \in [Messages -> Signals \cup {Nobody}]
      /\ Queued /\ Notices \subseteq Messages
  BY IntakeAssumption DEF IntakeAssumption, IInv, OutboxInv, OutboxTypeOK, TypeOK
<1>h. \A w \in Workers : Owns(w) => hands[w].message \in Messages /\ rows[hands[w].message].status # "absent"
  BY HeldMessage DEF IInv, OutboxInv, Owns
<1> USE <1>0 DEF Queued
<1>1. ASSUME NEW s \in Signals, Accept(s) \/ QueueWrite(s) PROVE Queued'
  BY <1>1 DEF Accept, QueueWrite, Enqueue
<1>2. ASSUME NEW s \in Signals, QueueRead(s) PROVE Queued'
  BY <1>2 DEF QueueRead
<1>3. ASSUME NEW n \in Notices, RequestNotice(n) PROVE Queued'
  BY <1>3 DEF RequestNotice, Enqueue
<1>4. ASSUME NEW w \in Workers, Handle(w) PROVE Queued'
  <2>1. CASE Begin(w) \/ ReadNotice(w) \/ Send(w) \/ \E error \in Errors : Throw(w, error)
    BY <2>1 DEF Begin, ReadNotice, Send, Throw
  <2>2. CASE SkipProcessed(w) \/ AcknowledgeNotice(w)
    BY <1>h, <2>2 DEF SkipProcessed, AcknowledgeNotice, Complete, Acknowledge, Row
  <2>3. CASE Commit(w)
    <3>1. PICK new \in SUBSET Notices :
            /\ Owns(w)
            /\ QueueNotices(new, SignalOf(w))
            /\ \A m \in Messages \ new : m # hands[w].message => rows'[m] = rows[m]
      BY <2>3, CommitRows
    <3>2. \A m \in Messages \ Notices : about'[m] = about[m]
      BY <3>1 DEF QueueNotices
    <3> QED
      BY <1>h, <3>1, <3>2
  <2>4. CASE RecordFailure(w)
    <3>1. Fail(w, stage[w] = "broken") /\ about' = about
      BY <2>4 DEF RecordFailure
    <3> QED
      BY <1>h, <3>1 DEF Fail, Reject
  <2>5. CASE ForfeitDelivery(w)
    BY <2>5 DEF ForfeitDelivery, Forfeit
  <2> QED
    BY <1>4, <2>1, <2>2, <2>3, <2>4, <2>5 DEF Handle
<1>5. ASSUME NEW w \in Workers, CrashWorker(w) PROVE Queued'
  BY <1>5 DEF CrashWorker, Crash
<1>6. ASSUME NEW w \in Workers, NEW m \in Messages, ClaimMessage(w, m) PROVE Queued'
  BY <1>6 DEF ClaimMessage, Claim, Claimable
<1>7. CASE Background
  <2>1. about' = about
    BY <1>7 DEF Background, intakeVars
  <2>2. ASSUME NEW m \in Messages,
               LeaseLapses(m) \/ LeaseMissed(m) \/ BackoffEnds(m) \/ Redrive(m) \/ Purge(m)
        PROVE  Queued'
    BY <2>1, <2>2 DEF LeaseLapses, LeaseMissed, BackoffEnds, Redrive, Purge, Row
  <2>3. ASSUME NEW w \in Workers, Heartbeat(w) PROVE Queued'
    BY <1>h, <2>1, <2>3 DEF Heartbeat, Row
  <2> QED
    BY <1>7, <2>2, <2>3 DEF Background
<1>8. CASE UNCHANGED vars
  BY <1>8 DEF vars
<1> QED
  BY <1>1, <1>2, <1>3, <1>4, <1>5, <1>6, <1>7, <1>8 DEF Next

\* Only notices are sent, and only what a transport took counts as delivered.
LEMMA StepSending ==
  ASSUME IInv, [Next]_vars
  PROVE  Sending'
<1>0. /\ stage \in [Workers -> Stage] /\ hands \in [Workers -> Hand]
      /\ Sending /\ NoticesTrue
      /\ \A w \in Workers : Busy(w) <=> stage[w] # "idle"
  BY DEF IInv, TypeOK, OutboxTypeOK
<1> USE <1>0 DEF Sending
<1>1. ASSUME NEW s \in Signals, Accept(s) \/ QueueRead(s) \/ QueueWrite(s) PROVE Sending'
  BY <1>1 DEF Accept, QueueRead, QueueWrite, Enqueue
<1>2. ASSUME NEW n \in Notices, RequestNotice(n) PROVE Sending'
  BY <1>2 DEF RequestNotice, Enqueue
<1>3. ASSUME NEW w \in Workers, Handle(w) PROVE Sending'
  <2>1. CASE Begin(w)
    BY <2>1 DEF Begin, ToStage
  <2>2. CASE ReadNotice(w)
    BY <2>2 DEF ReadNotice, ToStage, NoticesTrue
  <2>3. CASE Send(w)
    BY <2>3 DEF Send, AtStage, ToStage
  <2>4. CASE \E error \in Errors : Throw(w, error)
    BY <2>4 DEF Throw, ToStage, Errors
  <2>5. CASE SkipProcessed(w) \/ AcknowledgeNotice(w) \/ RecordFailure(w) \/ ForfeitDelivery(w)
    <3>1. /\ hands' = [hands EXCEPT ![w] = Empty]
          /\ stage' = [stage EXCEPT ![w] = "idle"]
          /\ handed' = handed
      BY <2>5 DEF SkipProcessed, AcknowledgeNotice, RecordFailure, ForfeitDelivery,
                  Complete, Fail, Forfeit, LetGo, ToStage
    <3> QED
      BY <3>1
  <2>6. CASE Commit(w)
    <3>1. /\ hands' = [hands EXCEPT ![w] = Empty]
          /\ stage' = [stage EXCEPT ![w] = "idle"]
          /\ handed' = handed
      BY <2>6, Zenon DEF Commit, LetGo, ToStage
    <3> QED
      BY <3>1
  <2> QED
    BY <1>3, <2>1, <2>2, <2>3, <2>4, <2>5, <2>6 DEF Handle
<1>4. ASSUME NEW w \in Workers, CrashWorker(w) PROVE Sending'
  BY <1>4 DEF CrashWorker, Crash, LetGo, ToStage
<1>5. ASSUME NEW w \in Workers, NEW m \in Messages, ClaimMessage(w, m) PROVE Sending'
  BY <1>5 DEF ClaimMessage, Claim, ToStage
<1>6. CASE Background
  <2>1. hands' = hands
    BY <1>6 DEF Background, LeaseLapses, LeaseMissed, BackoffEnds, Redrive, Purge, Heartbeat
  <2> QED
    BY <1>6, <2>1 DEF Background, intakeVars
<1>7. CASE UNCHANGED vars
  BY <1>7 DEF vars
<1> QED
  BY <1>1, <1>2, <1>3, <1>4, <1>5, <1>6, <1>7 DEF Next

\* The instance count moves with the status of the signal, under its lock.
LEMMA StepRunsOnce ==
  ASSUME IInv, [Next]_vars
  PROVE  RunsOnce'
<1>0. /\ signals \in [Signals -> {"absent", "RECEIVED", "PROCESSED"}]
      /\ instances \in [Signals -> Nat]
      /\ about \in [Messages -> Signals \cup {Nobody}]
      /\ RunsOnce /\ Notices \subseteq Messages /\ Nobody \notin Signals
  BY IntakeAssumption DEF IntakeAssumption, IInv, TypeOK
<1> USE <1>0 DEF RunsOnce
<1>1. ASSUME NEW s \in Signals, Accept(s) PROVE RunsOnce'
  <2>1. /\ signals[s] = "absent" /\ signals' = [signals EXCEPT ![s] = "RECEIVED"]
        /\ instances' = instances
        /\ \A n \in Notices : about'[n] = about[n]
    BY <1>1 DEF Accept
  <2> QED
    BY <2>1
<1>2. ASSUME NEW s \in Signals, QueueRead(s) \/ QueueWrite(s) PROVE RunsOnce'
  <2>1. /\ signals' = signals /\ instances' = instances
        /\ \A n \in Notices : about'[n] = about[n]
    BY <1>2 DEF QueueRead, QueueWrite
  <2> QED
    BY <2>1
<1>3. ASSUME NEW w \in Workers, Commit(w) PROVE RunsOnce'
  <2>1. SignalOf(w) \in Signals /\ signals[SignalOf(w)] = "RECEIVED"
    BY <1>3 DEF Commit, AtStage, IInv, Processing
  <2>2. /\ signals' = [signals EXCEPT ![SignalOf(w)] = "PROCESSED"]
        /\ instances' = [instances EXCEPT ![SignalOf(w)] = @ + 1]
    BY <1>3, Zenon DEF Commit, RunWorkflow
  <2>3. PICK new \in SUBSET Notices : QueueNotices(new, SignalOf(w))
    BY <1>3, CommitRows
  <2>4. \A n \in Notices : about'[n] = about[n] \/ about'[n] = SignalOf(w)
    BY <2>3 DEF QueueNotices
  <2>5. \A s \in Signals : instances'[s] = IF signals'[s] = "PROCESSED" THEN 1 ELSE 0
    BY <2>1, <2>2
  <2>6. \A n \in Notices : about'[n] # Nobody => signals'[about'[n]] = "PROCESSED"
    <3> TAKE n \in Notices
    <3>1. CASE about'[n] = SignalOf(w)
      BY <2>1, <2>2, <3>1
    <3>2. CASE about'[n] = about[n]
      BY <2>1, <2>2, <3>2
    <3> QED
      BY <2>4, <3>1, <3>2
  <2> QED
    BY <2>5, <2>6
<1>4. CASE UNCHANGED <<signals, instances, about>>
  BY <1>4
<1>5. ASSUME NEW w \in Workers, Handle(w), ~Commit(w) PROVE UNCHANGED <<signals, instances, about>>
  BY <1>5 DEF Handle, Begin, SkipProcessed, ReadNotice, Send, AcknowledgeNotice, Throw,
              RecordFailure, ForfeitDelivery
<1> QED
  BY <1>1, <1>2, <1>3, <1>4, <1>5 DEF Next, RequestNotice, CrashWorker, ClaimMessage,
                    Background, intakeVars, vars

\* A notification and its message move together.
LEMMA StepNoticesTrue ==
  ASSUME IInv, [Next]_vars
  PROVE  NoticesTrue'
<1>0. /\ rows \in [Messages -> Row] /\ notices \in [Notices -> NoticeStatus]
      /\ NoticesTrue /\ Notices \subseteq Messages /\ Nobody \notin Workers
  BY OutboxAssumption, IntakeAssumption
     DEF OutboxAssumption, IntakeAssumption, IInv, OutboxInv, OutboxTypeOK, TypeOK
<1>h. \A w \in Workers :
        Owns(w) => hands[w].message \in Messages /\ rows[hands[w].message].status = "PROCESSING"
  BY HeldMessage DEF IInv, OutboxInv, Owns
<1> USE <1>0 DEF NoticesTrue
<1>1. ASSUME NEW s \in Signals, Accept(s) \/ QueueWrite(s) PROVE NoticesTrue'
  <2>1. \A n \in Notices : rows'[n] = rows[n]
    BY <1>1 DEF Accept, QueueWrite, Enqueue
  <2> QED
    BY <1>1, <2>1 DEF Accept, QueueWrite
<1>2. ASSUME NEW s \in Signals, QueueRead(s) PROVE NoticesTrue'
  BY <1>2 DEF QueueRead
<1>3. ASSUME NEW n \in Notices, RequestNotice(n) PROVE NoticesTrue'
  <2>1. /\ rows'[n].status = "PENDING" /\ notices'[n] = "queued" /\ handed' = handed
        /\ \A k \in Notices \ {n} : rows'[k] = rows[k] /\ notices'[k] = notices[k]
    BY <1>3 DEF RequestNotice, Enqueue, Row
  <2> QED
    BY <2>1
<1>4. ASSUME NEW w \in Workers, Handle(w) PROVE NoticesTrue'
  <2>1. CASE Begin(w) \/ ReadNotice(w) \/ Send(w) \/ \E error \in Errors : Throw(w, error)
    BY <2>1 DEF Begin, ReadNotice, Send, Throw
  <2>2. CASE SkipProcessed(w)
    <3>1. hands[w].message \notin Notices /\ Complete(w) /\ notices' = notices /\ handed' = handed
      BY <2>2 DEF SkipProcessed, Opens
    <3>2. \A n \in Notices : rows'[n] = rows[n]
      BY <3>1 DEF Complete, Acknowledge
    <3> QED
      BY <3>1, <3>2
  <2>3. CASE Commit(w)
    <3>1. PICK new \in SUBSET Notices :
            /\ hands[w].message \notin Notices
            /\ QueueNotices(new, SignalOf(w))
            /\ \A n \in new : rows'[n].status = "PENDING"
            /\ \A m \in Messages \ new : m # hands[w].message => rows'[m] = rows[m]
      BY <2>3, CommitRows
    <3>2. /\ \A n \in new : notices'[n] = "queued"
          /\ \A n \in Notices \ new : rows'[n] = rows[n] /\ notices'[n] = notices[n]
      BY <3>1 DEF QueueNotices
    <3>3. handed' = handed
      BY <2>3, Zenon DEF Commit
    <3> QED
      BY <3>1, <3>2, <3>3
  <2>4. CASE AcknowledgeNotice(w)
    <3> DEFINE n == hands[w].message
    <3>1. /\ n \in Notices /\ n \in handed /\ Owns(w) /\ handed' = handed
          /\ notices' = [notices EXCEPT ![n] = "sent"]
          /\ rows' = [rows EXCEPT ![n] = [@ EXCEPT !.status = "SUCCEEDED", !.clock = "none", !.token = Nobody]]
      BY <2>4 DEF AcknowledgeNotice, AtStage, Complete, Acknowledge, IInv, Sending
    <3>2. rows'[n].status = "SUCCEEDED" /\ \A k \in Notices \ {n} : rows'[k] = rows[k]
      BY <3>1 DEF Row
    <3> QED
      BY <3>1, <3>2
  <2>5. CASE RecordFailure(w)
    <3> DEFINE m == hands[w].message
    <3>1. /\ Owns(w) /\ Fail(w, stage[w] = "broken") /\ handed' = handed
          /\ m \in Messages /\ rows[m].status = "PROCESSING"
          /\ notices' = IF m \in Notices /\ Dead(w, stage[w] = "broken") /\ notices[m] # "sent"
                         THEN [notices EXCEPT ![m] = "failed"] ELSE notices
      BY <1>h, <2>5 DEF RecordFailure, Fail
    <3>2. /\ rows'[m].status = IF Dead(w, stage[w] = "broken") THEN "DEAD" ELSE "PENDING"
          /\ \A k \in Messages \ {m} : rows'[k] = rows[k]
      BY <3>1 DEF Fail, Reject, Row
    <3>3. CASE Dead(w, stage[w] = "broken")
      BY <3>1, <3>2, <3>3
    <3>4. CASE ~Dead(w, stage[w] = "broken")
      BY <3>1, <3>2, <3>4
    <3> QED
      BY <3>3, <3>4
  <2>6. CASE ForfeitDelivery(w)
    BY <2>6 DEF ForfeitDelivery, Forfeit
  <2> QED
    BY <1>4, <2>1, <2>2, <2>3, <2>4, <2>5, <2>6 DEF Handle
<1>5. ASSUME NEW w \in Workers, CrashWorker(w) PROVE NoticesTrue'
  BY <1>5 DEF CrashWorker, Crash
<1>6. ASSUME NEW w \in Workers, NEW m \in Messages, ClaimMessage(w, m) PROVE NoticesTrue'
  <2>1. /\ rows[m].status \in {"PENDING", "PROCESSING"} /\ rows'[m].status = "PROCESSING"
        /\ \A k \in Messages \ {m} : rows'[k] = rows[k]
    BY <1>6 DEF ClaimMessage, Claim, Claimable, Row
  <2>2. notices' = notices /\ handed' = handed
    BY <1>6 DEF ClaimMessage
  <2> QED
    BY <2>1, <2>2
<1>7. CASE Background
  <2>1. notices' = notices /\ handed' = handed
    BY <1>7 DEF Background, intakeVars
  <2>2. ASSUME NEW m \in Messages, LeaseLapses(m) \/ LeaseMissed(m) \/ BackoffEnds(m) PROVE NoticesTrue'
    <3>1. \A k \in Messages : rows'[k].status = rows[k].status
      BY <2>2 DEF LeaseLapses, LeaseMissed, BackoffEnds, Row
    <3> QED
      BY <2>1, <3>1
  <2>3. ASSUME NEW m \in Messages, Redrive(m) PROVE NoticesTrue'
    <3>1. /\ rows[m].status = "DEAD" /\ rows'[m].status = "PENDING"
          /\ \A k \in Messages \ {m} : rows'[k] = rows[k]
      BY <2>3 DEF Redrive, Row
    <3> QED
      BY <2>1, <3>1
  <2>4. ASSUME NEW m \in Messages, Purge(m) PROVE NoticesTrue'
    <3>1. /\ rows[m].status = "SUCCEEDED" /\ rows'[m].status = "purged"
          /\ \A k \in Messages \ {m} : rows'[k] = rows[k]
      BY <2>4 DEF Purge, Row
    <3> QED
      BY <2>1, <3>1
  <2>5. ASSUME NEW w \in Workers, Heartbeat(w) PROVE NoticesTrue'
    <3>1. \A k \in Messages : rows'[k].status = rows[k].status
      BY <1>h, <2>5 DEF Heartbeat, Row
    <3> QED
      BY <2>1, <3>1
  <2> QED
    BY <1>7, <2>2, <2>3, <2>4, <2>5 DEF Background
<1>8. CASE UNCHANGED vars
  BY <1>8 DEF vars
<1> QED
  BY <1>1, <1>2, <1>3, <1>4, <1>5, <1>6, <1>7, <1>8 DEF Next

-----------------------------------------------------------------------------

\* The inductive invariant of intake.
LEMMA IntakeInvariant == Spec => []IInv
<1>1. Init => IInv
  BY InitIInv
<1>2. IInv /\ [Next]_vars => IInv'
  BY StepOutboxInv, StepTypeOK, StepProcessing, StepQueued, StepSending, StepRunsOnce, StepNoticesTrue
     DEF IInv
<1> QED
  BY <1>1, <1>2, PTL DEF Spec, Safety

\* Rows, signals, notices and stages stay typed.
THEOREM IntakeTypeCorrect == Spec => []TypeOK
<1>1. IInv => TypeOK
  BY DEF IInv
<1> QED
  BY <1>1, IntakeInvariant, PTL

\* The workflow of a signal takes effect exactly once if the signal is processed,
\* and leaves nothing behind otherwise: for any number of messages about it, of
\* deliveries of each, of workers, crashes and lost claims.
THEOREM IntakeRunsOnce == Spec => []RunsOnce
<1>1. IInv => RunsOnce
  BY DEF IInv
<1> QED
  BY <1>1, IntakeInvariant, PTL

\* What a notification says of itself is true of its message.
THEOREM IntakeNoticesTrue == Spec => []NoticesTrue
<1>1. IInv => NoticesTrue
  BY DEF IInv
<1> QED
  BY <1>1, IntakeInvariant, PTL

\* The fence of the outbox holds under intake, although the commit of a processing
\* transaction acknowledges one message and queues others in one step.
THEOREM IntakeKeepsOutbox == Spec => []OutboxInv
<1>1. IInv => OutboxInv
  BY DEF IInv
<1> QED
  BY <1>1, IntakeInvariant, PTL

-----------------------------------------------------------------------------
(* Intake as a producer and a consumer of the abstract queue.                *)

\* The commit of a processing transaction, on the abstract queue: the message of the
\* signal is done, and what the workflow asked for is put.
Exchange ==
  \E m \in Messages, new \in SUBSET Messages :
    /\ m \notin new
    /\ Standing(m) = "queued" /\ \A n \in new : Standing(n) = "absent"
    /\ Mapped' = [n \in Messages |-> IF n = m THEN "done"
                                      ELSE IF n \in new THEN "queued" ELSE Standing(n)]

\* What a step of intake is for the abstract queue.
Served == Queue!QueueNext \/ Exchange \/ UNCHANGED Mapped

LEMMA CommitExchanges ==
  ASSUME IInv, NEW w \in Workers, Commit(w)
  PROVE  /\ Exchange
         /\ \A m \in Messages : rows[m].status = "SUCCEEDED" => rows'[m] = rows[m]
<1> DEFINE own == hands[w].message
<1>1. PICK new \in SUBSET Notices :
           /\ \A n \in new : rows[n].status = "absent"
           /\ own \in Messages \ Notices
           /\ Owns(w)
           /\ rows' \in [Messages -> Row]
           /\ rows'[own].status = "SUCCEEDED"
           /\ \A n \in new : rows'[n].status = "PENDING"
           /\ \A m \in Messages \ new : m # own => rows'[m] = rows[m]
  BY CommitRows, SMTT(30)
<1>2. new \in SUBSET Messages /\ own \in Messages /\ own \notin new
  BY <1>1, IntakeAssumption DEF IntakeAssumption
<1>3. rows[own].status = "PROCESSING"
  BY <1>1 DEF Owns
<1>4. Standing(own) = "queued" /\ \A n \in new : Standing(n) = "absent"
  BY <1>1, <1>3 DEF Standing
<1>5. ASSUME NEW n \in Messages
      PROVE  Standing(n)' = IF n = own THEN "done" ELSE IF n \in new THEN "queued" ELSE Standing(n)
  <2>1. CASE n = own
    BY <1>1, <2>1 DEF Standing
  <2>2. CASE n # own /\ n \in new
    BY <1>1, <2>2 DEF Standing
  <2>3. CASE n # own /\ n \notin new
    <3>1. rows'[n] = rows[n]
      BY <1>1, <2>3
    <3> QED  BY <2>3, <3>1 DEF Standing
  <2> QED  BY <2>1, <2>2, <2>3
<1>6. Mapped' = [n \in Messages |-> IF n = own THEN "done"
                                     ELSE IF n \in new THEN "queued" ELSE Standing(n)]
  BY <1>5 DEF Mapped
<1>7. Exchange
  <2> HIDE DEF own
  <2> QED  BY <1>2, <1>4, <1>6 DEF Exchange
<1>8. \A m \in Messages : rows[m].status = "SUCCEEDED" => rows'[m] = rows[m]
  BY <1>1, <1>3
<1> QED  BY <1>7, <1>8

\* Intake keeps what the abstract queue promises of every message, although it queues
\* and acknowledges together: on the queue, a step of it is one move, or nothing, or the
\* end of the message of a signal along with the notices that its workflow asked for.
THEOREM IntakeServesQueue == Spec => Queue!QueueInit /\ [][Served]_vars
<1>1. Init => Queue!QueueInit
  BY DEF Init, OutboxInit, Queue!QueueInit, Standing
<1>2. ASSUME IInv, [Next]_vars PROVE Served
  <2>1. CASE \E w \in Workers : Commit(w)
    BY <1>2, <2>1, CommitExchanges DEF Served
  <2>2. CASE \A w \in Workers : ~Commit(w)
    BY <1>2, <2>2, StepIsOutboxStep, OutboxStepQueue DEF IInv, OutboxInv, Served, Mapped
  <2> QED  BY <2>1, <2>2
<1>3. IInv /\ [Next]_vars => [Served]_vars
  BY <1>2
<1> QED  BY <1>1, <1>3, IntakeInvariant, PTL DEF Spec, Safety

\* No message of a signal and no notification that was acknowledged is delivered again,
\* whatever other transactions queue and acknowledge meanwhile.
THEOREM IntakeAcknowledgedIsFinal == Spec => AcknowledgedIsFinal
<1>1. ASSUME IInv, [Next]_vars, NEW m \in Messages, rows[m].status = "SUCCEEDED"
      PROVE  rows'[m].status \in {"SUCCEEDED", "purged"}
  <2>1. CASE \E w \in Workers : Commit(w)
    BY <1>1, <2>1, CommitExchanges
  <2>2. CASE \A w \in Workers : ~Commit(w)
    BY <1>1, <2>2, StepIsOutboxStep, OutboxStepFinal DEF IInv, OutboxInv
  <2> QED  BY <2>1, <2>2
<1>2. IInv /\ [Next]_vars =>
        [\A m \in Messages :
           rows[m].status = "SUCCEEDED" => rows'[m].status \in {"SUCCEEDED", "purged"}]_rows
  BY <1>1
<1> QED
  BY <1>2, IntakeInvariant, PTL DEF Spec, Safety, AcknowledgedIsFinal

-----------------------------------------------------------------------------
(* What a transaction of intake does is done once.                           *)

\* A processed signal stays processed and its workflow is not run again; a signal is
\* processed only together with the acknowledgement of the message that carried it, by
\* the worker that owns that message.
ProcessedOnce ==
  \A s \in Signals :
    /\ signals[s] = "PROCESSED" => signals'[s] = "PROCESSED" /\ instances'[s] = instances[s]
    /\ signals'[s] = "PROCESSED" /\ signals[s] # "PROCESSED" =>
         \E w \in Workers : /\ Owns(w) /\ SignalOf(w) = s
                            /\ rows'[hands[w].message].status = "SUCCEEDED"

LEMMA ProcessedStep ==
  ASSUME IInv, [Next]_vars
  PROVE  ProcessedOnce
<1>t. /\ signals \in [Signals -> {"absent", "RECEIVED", "PROCESSED"}]
      /\ instances \in [Signals -> 0 .. 1]
  <2>1. signals \in [Signals -> {"absent", "RECEIVED", "PROCESSED"}] /\ DOMAIN instances = Signals
    BY DEF IInv, TypeOK
  <2>2. \A s \in Signals : instances[s] \in 0 .. 1
    BY DEF IInv, RunsOnce
  <2>3. instances = [s \in Signals |-> instances[s]]
    BY <2>1 DEF IInv, TypeOK
  <2> QED  BY <2>1, <2>2, <2>3
<1>1. ASSUME NEW w \in Workers, Commit(w) PROVE ProcessedOnce
  <2>1. /\ Owns(w) /\ SignalOf(w) \in Signals /\ signals[SignalOf(w)] = "RECEIVED"
        /\ rows'[hands[w].message].status = "SUCCEEDED"
    BY <1>1, CommitRows DEF IInv, Processing, Commit, AtStage
  <2>2. /\ signals' = [signals EXCEPT ![SignalOf(w)] = "PROCESSED"]
        /\ instances' = [instances EXCEPT ![SignalOf(w)] = @ + 1]
    BY <1>1 DEF Commit, RunWorkflow
  <2>3. ASSUME NEW s \in Signals, s # SignalOf(w)
        PROVE  signals'[s] = signals[s] /\ instances'[s] = instances[s]
    BY <1>t, <2>2, <2>3
  <2> QED  BY <2>1, <2>3 DEF ProcessedOnce
<1>2. ASSUME \A w \in Workers : ~Commit(w) PROVE ProcessedOnce
  <2>1. \A s \in Signals : signals[s] # "absent" => signals'[s] = signals[s]
    BY <1>2, SignalsKept
  <2>2. \A s \in Signals : signals[s] = "absent" => signals'[s] # "PROCESSED"
    <3> TAKE s \in Signals
    <3>1. ASSUME NEW r \in Signals, Accept(r), signals[s] = "absent" PROVE signals'[s] # "PROCESSED"
      BY <1>t, <3>1 DEF Accept
    <3>2. ASSUME NEW w \in Workers, Handle(w), signals[s] = "absent" PROVE signals'[s] # "PROCESSED"
      BY <1>2, <3>2 DEF Handle, Begin, SkipProcessed, ReadNotice, Send, AcknowledgeNotice,
                        Throw, RecordFailure, ForfeitDelivery
    <3> QED
      BY <3>1, <3>2 DEF Next, QueueRead, QueueWrite, RequestNotice, CrashWorker, ClaimMessage,
                        Background, intakeVars, vars
  <2>3. instances' = instances
    <3>1. ASSUME NEW w \in Workers, Handle(w) PROVE instances' = instances
      BY <1>2, <3>1 DEF Handle, Begin, SkipProcessed, ReadNotice, Send, AcknowledgeNotice,
                        Throw, RecordFailure, ForfeitDelivery
    <3> QED
      BY <3>1 DEF Next, Accept, QueueRead, QueueWrite, RequestNotice, CrashWorker,
                  ClaimMessage, Background, intakeVars, vars
  <2> QED  BY <2>1, <2>2, <2>3 DEF ProcessedOnce
<1> QED  BY <1>1, <1>2

\* The workflow of a signal is run by the transaction that acknowledges its message, and
\* never a second time, by whichever other message about it and in whatever order.
THEOREM IntakeProcessedOnce == Spec => [][ProcessedOnce]_vars
<1>1. IInv /\ [Next]_vars => [ProcessedOnce]_vars
  BY ProcessedStep
<1> QED  BY <1>1, IntakeInvariant, PTL DEF Spec, Safety
=============================================================================
