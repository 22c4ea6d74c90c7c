------------------------------- MODULE Outbox -------------------------------
(***************************************************************************)
(* The transactional outbox of apps/api (platform/outbox/worker.service.ts)*)
(* at the level of its rows and claims: enqueue, claim with a lease and a  *)
(* fencing token, heartbeat, acknowledgement, failure with backoff and     *)
(* dead letter, operator redrive and retention.  What a delivery does to   *)
(* the row it is about (an integration operation, a notification) is added *)
(* by the modules that extend this one; every action here is one statement *)
(* or one transaction that locks the outbox row it writes.                 *)
(***************************************************************************)
EXTENDS Naturals

CONSTANTS
  Messages,      \* outbox rows that may ever exist
  Workers,       \* worker loops, each handling one message at a time
  Nobody,        \* the null of a lock token and of an idle worker
  MaxAttempts,   \* 8 in the code
  MaxFaults      \* bound on crashes plus missed heartbeats in a behaviour

ASSUME OutboxAssumption ==
  /\ Nobody \notin Workers \cup Messages
  /\ MaxAttempts \in Nat \ {0}
  /\ MaxFaults \in Nat

VARIABLES
  rows,          \* outbox_messages
  hands,         \* the message each worker is handling, as it was when claimed
  faults         \* crashes and missed heartbeats so far

outboxVars == <<rows, hands, faults>>

Status == {"absent", "PENDING", "PROCESSING", "SUCCEEDED", "DEAD", "purged"}

\* Attempts are compared with MaxAttempts only, so one value stands for every
\* larger one.
Attempt == 0 .. MaxAttempts + 1

\* The row's timestamp as the claim sees it: a pending row is "due" or due "later"
\* (available_at), the lease of a row in process is "live" or "expired"
\* (locked_until).
Clock == {"none", "later", "due", "live", "expired"}

\* A token is drawn at random for each claim and compared for equality only; a
\* worker handles one message at a time, so the worker that drew the row's last
\* token names it.
Row == [status : Status, attempts : Attempt, clock : Clock, token : Workers \cup {Nobody}]

Hand == [message : Messages \cup {Nobody}, attempts : Attempt]

Empty == [message |-> Nobody, attempts |-> 0]

OutboxInit ==
  /\ rows = [m \in Messages |-> [status |-> "absent", attempts |-> 0,
                                 clock |-> "none", token |-> Nobody]]
  /\ hands = [w \in Workers |-> Empty]
  /\ faults = 0

-----------------------------------------------------------------------------
(* The pieces of an action on the outbox; composed modules use them too.   *)

Busy(w) == hands[w].message # Nobody

\* Faulty variant: no fence.
OwnsUnfenced(w) == Busy(w)

\* owned(): the row is still in process under this claim's token.
Owns(w) ==
  /\ Busy(w)
  /\ rows[hands[w].message].status = "PROCESSING"
  /\ rows[hands[w].message].token = w

\* handle() returns: the worker drops the message and stops its heartbeat.
LetGo(w) == hands' = [hands EXCEPT ![w] = Empty]

\* Faulty variant: expired leases are never taken over.
ClaimablePendingOnly(m) == rows[m].status = "PENDING" /\ rows[m].clock = "due"

Claimable(m) ==
  \/ rows[m].status = "PENDING" /\ rows[m].clock = "due"
  \/ rows[m].status = "PROCESSING" /\ rows[m].clock = "expired"

NextAttempt(m) ==
  IF rows[m].attempts > MaxAttempts THEN rows[m].attempts ELSE rows[m].attempts + 1

\* FOR UPDATE SKIP LOCKED makes the claim a single atomic statement.
Claim(w, m) ==
  /\ ~Busy(w)
  /\ Claimable(m)
  /\ rows' = [rows EXCEPT ![m] = [@ EXCEPT !.status = "PROCESSING",
                                           !.attempts = NextAttempt(m),
                                           !.clock = "live", !.token = w]]
  /\ hands' = [hands EXCEPT ![w] = [message |-> m, attempts |-> NextAttempt(m)]]
  /\ UNCHANGED faults

\* The acknowledgement at the end of complete()'s transaction.
Acknowledge(w) ==
  rows' = [rows EXCEPT ![hands[w].message] =
             [@ EXCEPT !.status = "SUCCEEDED", !.clock = "none", !.token = Nobody]]

\* Whether handle() gives up on a message: out of attempts, or an error that
\* another attempt would only repeat.
Dead(w, retryable) == hands[w].attempts >= MaxAttempts \/ ~retryable

\* The first update of handle()'s failure transaction.
Reject(w, retryable) ==
  rows' = [rows EXCEPT ![hands[w].message] =
             [@ EXCEPT !.status = IF Dead(w, retryable) THEN "DEAD" ELSE "PENDING",
                       !.clock = IF Dead(w, retryable) THEN "none" ELSE "later",
                       !.token = Nobody]]

\* deliver() refuses a message claimed too often before it looks at anything.
Exhausted(w) == hands[w].attempts > MaxAttempts

-----------------------------------------------------------------------------
(* The actions.                                                             *)

Enqueue(m) ==
  /\ rows[m].status = "absent"
  /\ rows' = [rows EXCEPT ![m] = [@ EXCEPT !.status = "PENDING", !.clock = "due"]]
  /\ UNCHANGED <<hands, faults>>

\* The delivery worked and the claim still stands: acknowledge.
Complete(w) ==
  /\ Owns(w)
  /\ ~Exhausted(w)
  /\ Acknowledge(w)
  /\ LetGo(w)
  /\ UNCHANGED faults

\* The delivery threw and the claim still stands: back off or bury.
Fail(w, retryable) ==
  /\ Owns(w)
  /\ Exhausted(w) => ~retryable
  /\ Reject(w, retryable)
  /\ LetGo(w)
  /\ UNCHANGED faults

\* The claim was taken over meanwhile: whatever happened, nothing is written.
Forfeit(w) ==
  /\ Busy(w)
  /\ ~Owns(w)
  /\ LetGo(w)
  /\ UNCHANGED <<rows, faults>>

\* The 20 s timer of handle() renews the lease, even one already expired, as
\* long as nobody else has claimed the row.
Heartbeat(w) ==
  /\ Owns(w)
  /\ rows' = [rows EXCEPT ![hands[w].message].clock = "live"]
  /\ UNCHANGED <<hands, faults>>

\* The process dies: its timer and its local state are gone.
Crash(w) ==
  /\ Busy(w)
  /\ faults < MaxFaults
  /\ faults' = faults + 1
  /\ LetGo(w)
  /\ UNCHANGED rows

Attended(m) == \E w \in Workers : hands[w].message = m /\ Owns(w)

\* Sixty seconds pass for a row whose claimant has died...
LeaseLapses(m) ==
  /\ rows[m].clock = "live"
  /\ ~Attended(m)
  /\ rows' = [rows EXCEPT ![m].clock = "expired"]
  /\ UNCHANGED <<hands, faults>>

\* ...or whose claimant lives but whose heartbeats were late or failed (their
\* errors are swallowed).
LeaseMissed(m) ==
  /\ rows[m].clock = "live"
  /\ Attended(m)
  /\ faults < MaxFaults
  /\ faults' = faults + 1
  /\ rows' = [rows EXCEPT ![m].clock = "expired"]
  /\ UNCHANGED hands

BackoffEnds(m) ==
  /\ rows[m].clock = "later"
  /\ rows' = [rows EXCEPT ![m].clock = "due"]
  /\ UNCHANGED <<hands, faults>>

\* POST outbox/:id/redrive, and the retry of a blocked process.
Redrive(m) ==
  /\ rows[m].status = "DEAD"
  /\ rows' = [rows EXCEPT ![m] = [@ EXCEPT !.status = "PENDING", !.attempts = 0, !.clock = "due"]]
  /\ UNCHANGED <<hands, faults>>

\* POST system/retention deletes old acknowledged rows.
Purge(m) ==
  /\ rows[m].status = "SUCCEEDED"
  /\ rows' = [rows EXCEPT ![m].status = "purged"]
  /\ UNCHANGED <<hands, faults>>

OutboxNext ==
  \/ \E m \in Messages :
       Enqueue(m) \/ LeaseLapses(m) \/ LeaseMissed(m) \/ BackoffEnds(m) \/ Redrive(m) \/ Purge(m)
  \/ \E w \in Workers :
       \/ \E m \in Messages : Claim(w, m)
       \/ Complete(w)
       \/ \E retryable \in BOOLEAN : Fail(w, retryable)
       \/ Forfeit(w)
       \/ Heartbeat(w)
       \/ Crash(w)

OutboxSafety == OutboxInit /\ [][OutboxNext]_outboxVars

\* A worker that holds a message finishes handle(); the database clock advances;
\* ORDER BY available_at serves the oldest row first, so no claimable row is
\* passed over for ever.
OutboxFairness ==
  /\ \A w \in Workers :
       WF_outboxVars(Complete(w) \/ Forfeit(w) \/ \E retryable \in BOOLEAN : Fail(w, retryable))
  /\ \A m \in Messages :
       /\ WF_outboxVars(LeaseLapses(m))
       /\ WF_outboxVars(BackoffEnds(m))
       /\ SF_outboxVars(\E w \in Workers : Claim(w, m))

OutboxSpec == OutboxSafety /\ OutboxFairness

-----------------------------------------------------------------------------
(* Properties.                                                              *)

\* Type invariant of the outbox rows and of what the workers hold.
OutboxTypeOK ==
  /\ rows \in [Messages -> Row]
  /\ hands \in [Workers -> Hand]
  /\ faults \in 0 .. MaxFaults

\* A row is in process exactly while it carries a token, and its timestamp is the
\* one its status is judged by: no claimed row is without a lease that can expire,
\* and no idle row is held by a token left behind.
TokenMarksClaim ==
  \A m \in Messages :
    /\ rows[m].status = "PROCESSING" <=> rows[m].token # Nobody
    /\ rows[m].status = "PROCESSING" <=> rows[m].clock \in {"live", "expired"}
    /\ rows[m].status = "PENDING" <=> rows[m].clock \in {"due", "later"}

\* handle() decides between retry and dead letter by message.attempts, the copy
\* returned by its claim: as long as the token still matches, that copy equals
\* the row, whatever other workers, lease expiries and redrives happened since.
SnapshotCurrent ==
  \A w \in Workers : Owns(w) => hands[w].attempts = rows[hands[w].message].attempts

OutboxInv == OutboxTypeOK /\ TokenMarksClaim /\ SnapshotCurrent

\* An acknowledged message is never delivered, failed or redriven afterwards:
\* a worker that lost its lease cannot undo another worker's acknowledgement.
AcknowledgedIsFinal ==
  [][\A m \in Messages :
       rows[m].status = "SUCCEEDED" => rows'[m].status \in {"SUCCEEDED", "purged"}]_rows

\* Refinement mapping to the abstract queue.
Standing(m) ==
  CASE rows[m].status \in {"PENDING", "PROCESSING"} -> "queued"
    [] rows[m].status = "SUCCEEDED" -> "done"
    [] rows[m].status = "DEAD" -> "buried"
    [] rows[m].status = "purged" -> "forgotten"
    [] OTHER -> "absent"

Queue == INSTANCE DeliveryQueue WITH queue <- [m \in Messages |-> Standing(m)]

\* The outbox implements the abstract delivery queue, with its liveness: however the
\* bounded crashes, missed heartbeats and takeovers fall, every message put in the
\* outbox is acknowledged or dead-lettered, and acknowledged at most once.
ImplementsQueue == Queue!QueueSpec
=============================================================================
