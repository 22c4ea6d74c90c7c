---------------------------- MODULE OfflineReplay ----------------------------
(***************************************************************************)
(* Commands queued in the browser (web/src/orgo/offline.ts) and replayed   *)
(* in batches (sync.controller.ts) through the idempotent command boundary *)
(* of the server (Commands.run in platform/database.ts).                   *)
(*                                                                         *)
(* A connection may break while the server goes on with a batch, so that   *)
(* several requests can be working on the same commands.  Of a request's   *)
(* fingerprint the command determines all but the context: the principal's *)
(* permissions and the release of the World.                               *)
(***************************************************************************)
EXTENDS Naturals, Sequences, FiniteSets, Functions

CONSTANTS
  Commands,      \* identities of queued commands, crypto.randomUUID()
  Worlds,
  Contexts,      \* authorization contexts of the user, with the World's release
  Requests,      \* replay requests the server can be working on
  Nothing,       \* null
  BatchSize,     \* commands of a replay, 50 in the code
  MaxFaults,     \* bound on broken connections and dying servers
  MaxChanges     \* bound on changes of context and switches of World

ASSUME ReplayAssumption ==
  /\ BatchSize \in Nat \ {0} /\ MaxFaults \in Nat /\ MaxChanges \in Nat
  /\ Nothing \notin Commands \cup Contexts \cup Requests

VARIABLES
  queue,       \* the queue in localStorage: commands with their error
  fate,        \* what became of each command for its user
  here,        \* the World the client is in and the context it acts with
  awaiting,    \* the request whose response the client waits for
  request,     \* the requests the server works on
  record,      \* idempotency_records: the context and the reply of an execution
  applied,     \* how often each command has taken effect in each World
  faults, changes,
  raising      \* the commands whose execution raises what is no DomainError, always

vars == <<queue, fate, here, awaiting, request, record, applied, faults, changes, raising>>

Slots == Worlds \X Commands    \* organization, World, operation and key

NoRequest == [todo |-> <<>>, results |-> <<>>, world |-> Nothing, context |-> Nothing,
              found |-> Nothing, locked |-> "no"]

Init ==
  /\ queue = <<>>
  /\ fate = [k \in Commands |-> "new"]
  /\ here \in [world : Worlds, context : Contexts]
  /\ awaiting = Nothing
  /\ request = [r \in Requests |-> NoRequest]
  /\ record = [s \in Slots |-> Nothing]
  /\ applied = [s \in Slots |-> 0]
  /\ faults = 0
  /\ changes = 0
  /\ raising \in SUBSET Commands

-----------------------------------------------------------------------------
(* The browser.                                                             *)

Entry(k) == [id |-> k, error |-> "no"]

\* The entries of the queue at some positions, in their order.
QueueAt(I) ==
  [n \in 1 .. Cardinality(I) |->
     queue[CHOOSE i \in I : Cardinality({j \in I : j < i}) = n - 1]]

Add(k) ==
  /\ fate[k] = "new"
  /\ queue' = Append(queue, Entry(k))
  /\ fate' = [fate EXCEPT ![k] = "queued"]
  /\ UNCHANGED <<here, awaiting, request, record, applied, faults, changes, raising>>

\* The user may take a command off the queue whatever is happening to it.
Remove(k) ==
  /\ fate[k] = "queued"
  /\ queue' = QueueAt({i \in DOMAIN queue : queue[i].id # k})
  /\ fate' = [fate EXCEPT ![k] = "removed"]
  /\ UNCHANGED <<here, awaiting, request, record, applied, faults, changes, raising>>

\* A failed command is corrected under a new identity.
Replace(k, new) ==
  /\ fate[k] = "queued" /\ fate[new] = "new"
  /\ \E i \in DOMAIN queue : queue[i] = [id |-> k, error |-> "yes"]
  /\ queue' = [i \in DOMAIN queue |-> IF queue[i].id = k THEN Entry(new) ELSE queue[i]]
  /\ fate' = [fate EXCEPT ![k] = "replaced", ![new] = "queued"]
  /\ UNCHANGED <<here, awaiting, request, record, applied, faults, changes, raising>>

Ids(entries) == [i \in DOMAIN entries |-> entries[i].id]
FirstOf(entries) == SubSeq(entries, 1, IF Len(entries) < BatchSize THEN Len(entries) ELSE BatchSize)

Batch == Ids(FirstOf(QueueAt({i \in DOMAIN queue : queue[i].error = "no"})))

Replay(r) ==
  /\ awaiting = Nothing /\ request[r] = NoRequest
  /\ Batch # <<>>
  /\ request' = [request EXCEPT ![r] = [NoRequest EXCEPT !.todo = Batch,
                                          !.world = here.world, !.context = here.context]]
  /\ awaiting' = r
  /\ UNCHANGED <<queue, fate, here, record, applied, faults, changes, raising>>

Result(r, k) ==
  IF \E i \in DOMAIN request[r].results : request[r].results[i].id = k
    THEN (CHOOSE res \in Range(request[r].results) : res.id = k).ok
    ELSE "none"

\* Faulty variant: only what failed stays on the queue.
MergeForgetful(r) ==
  LET failed == QueueAt({i \in DOMAIN queue : Result(r, queue[i].id) = "no"})
  IN  [i \in DOMAIN failed |-> [failed[i] EXCEPT !.error = "yes"]]

\* Faulty variant: a failed command stays on the queue as it is.
MergeUnmarked(r) == QueueAt({i \in DOMAIN queue : Result(r, queue[i].id) # "yes"})

\* Faulty variant: the outcome is copied to commands the batch did not have.
MergeCopying(r) ==
  LET kept == QueueAt({i \in DOMAIN queue : Result(r, queue[i].id) # "yes"})
  IN  [i \in DOMAIN kept |-> [kept[i] EXCEPT !.error = Result(r, kept[i].id)]]

\* The results are merged into the queue as it is when they arrive.
Merge(r) ==
  LET kept == QueueAt({i \in DOMAIN queue : Result(r, queue[i].id) # "yes"})
  IN  [i \in DOMAIN kept |->
         IF Result(r, kept[i].id) = "no" THEN [kept[i] EXCEPT !.error = "yes"] ELSE kept[i]]

Receive(r) ==
  /\ awaiting = r /\ request[r].todo = <<>>
  /\ queue' = Merge(r)
  /\ fate' = [k \in Commands |-> IF fate[k] = "queued" /\ k \notin Range(Ids(queue'))
                                   THEN "delivered" ELSE fate[k]]
  /\ awaiting' = Nothing
  /\ request' = [request EXCEPT ![r] = NoRequest]
  /\ UNCHANGED <<here, record, applied, faults, changes, raising>>

\* The queue is one for all Worlds of the organization.
Change ==
  /\ changes < MaxChanges
  /\ changes' = changes + 1
  /\ \E h \in [world : Worlds, context : Contexts] : h # here /\ here' = h
  /\ UNCHANGED <<queue, fate, awaiting, request, record, applied, faults, raising>>

-----------------------------------------------------------------------------
(* The server.                                                              *)

Slot(r) == <<request[r].world, Head(request[r].todo)>>

\* The advisory lock on organization, World, operation and key.
LockFree(r) ==
  \A q \in Requests : request[q].locked = "yes" => Slot(q) # Slot(r)

\* Faulty variant: a record made in another context is not found.
EnterByContext(r) ==
  /\ request[r].todo # <<>> /\ request[r].locked = "no"
  /\ LockFree(r)
  /\ request' = [request EXCEPT ![r].locked = "yes",
                   ![r].found = IF record[Slot(r)] = request[r].context THEN record[Slot(r)] ELSE Nothing]
  /\ UNCHANGED <<queue, fate, here, awaiting, record, applied, faults, changes, raising>>

\* A command's transaction takes the lock and looks its record up.
Enter(r) ==
  /\ request[r].todo # <<>> /\ request[r].locked = "no"
  /\ LockFree(r)
  /\ request' = [request EXCEPT ![r].locked = "yes", ![r].found = record[Slot(r)]]
  /\ UNCHANGED <<queue, fate, here, awaiting, record, applied, faults, changes, raising>>

Answered(r, ok) ==
  request' = [request EXCEPT ![r].todo = Tail(@), ![r].locked = "no", ![r].found = Nothing,
                ![r].results = Append(@, [id |-> Head(request[r].todo), ok |-> ok])]

\* A stored reply is returned, or the fingerprints differ and the command fails.
Answer(r) ==
  /\ request[r].locked = "yes" /\ request[r].found # Nothing
  /\ Answered(r, IF request[r].found = request[r].context THEN "yes" ELSE "no")
  /\ UNCHANGED <<queue, fate, here, awaiting, record, applied, faults, changes, raising>>

\* The effect of a command and its record commit together, or not at all.
Execute(r) ==
  /\ request[r].locked = "yes" /\ request[r].found = Nothing
  /\ Head(request[r].todo) \notin raising
  /\ \/ /\ applied' = [applied EXCEPT ![Slot(r)] = @ + 1]
        /\ record' = [record EXCEPT ![Slot(r)] = request[r].context]
        /\ Answered(r, "yes")
     \/ Answered(r, "no") /\ UNCHANGED <<applied, record>>
  /\ UNCHANGED <<queue, fate, here, awaiting, faults, changes, raising>>

\* The request ends without its results, and the open transaction rolls back.
Abort(r) ==
  /\ request' = [request EXCEPT ![r] = NoRequest]
  /\ awaiting' = IF awaiting = r THEN Nothing ELSE awaiting
  /\ UNCHANGED <<queue, fate, here, record, applied, changes, raising>>

\* What is no DomainError is thrown on and ends the batch, each time anew: a revision
\* beyond the column's range, a NUL byte the database refuses in a text.
Raise(r) ==
  /\ request[r].locked = "yes" /\ request[r].found = Nothing
  /\ Head(request[r].todo) \in raising
  /\ Abort(r)
  /\ UNCHANGED faults

Fault == faults < MaxFaults /\ faults' = faults + 1

\* The connection breaks: the client may replay again, the server goes on.
Break ==
  /\ awaiting # Nothing
  /\ awaiting' = Nothing
  /\ Fault
  /\ UNCHANGED <<queue, fate, here, request, record, applied, changes, raising>>

\* A passing database error, or the end of the server.
Die(r) ==
  /\ request[r] # NoRequest
  /\ Abort(r)
  /\ Fault

\* A response nobody waits for.
Discard(r) ==
  /\ request[r] # NoRequest /\ request[r].todo = <<>> /\ awaiting # r
  /\ request' = [request EXCEPT ![r] = NoRequest]
  /\ UNCHANGED <<queue, fate, here, awaiting, record, applied, faults, changes, raising>>

Serve(r) == Enter(r) \/ Answer(r) \/ Execute(r) \/ Raise(r) \/ Discard(r)

Next ==
  \/ \E k \in Commands : Add(k) \/ Remove(k) \/ \E new \in Commands : Replace(k, new)
  \/ \E r \in Requests : Replay(r) \/ Receive(r) \/ Serve(r) \/ Die(r)
  \/ Change \/ Break

\* The user goes on synchronising; the server answers.
Fairness ==
  /\ WF_vars(\E r \in Requests : Replay(r))
  /\ \A r \in Requests : WF_vars(Serve(r)) /\ WF_vars(Receive(r))

Spec == Init /\ [][Next]_vars /\ Fairness

-----------------------------------------------------------------------------
(* Properties.                                                              *)

\* Type invariant.
TypeOK ==
  /\ \A i \in DOMAIN queue : queue[i].id \in Commands /\ queue[i].error \in {"no", "yes"}
  /\ fate \in [Commands -> {"new", "queued", "removed", "replaced", "delivered"}]
  /\ awaiting \in Requests \cup {Nothing}
  /\ \A r \in Requests : Range(request[r].todo) \subseteq Commands
  /\ record \in [Slots -> Contexts \cup {Nothing}]
  /\ applied \in [Slots -> Nat]
  /\ raising \subseteq Commands

\* Retries, replays of a batch the server is still working on and changed contexts
\* never make a command take effect twice in a World; and what took effect is on record.
AppliedAtMostOnce ==
  \A s \in Slots : applied[s] = IF record[s] = Nothing THEN 0 ELSE 1

\* No command is lost: it is on its user's queue, or the user took it off, or it has
\* taken effect, however replays and edits of the queue interleave.
NothingLost ==
  \A k \in Commands :
    /\ fate[k] = "queued" <=> \E i \in DOMAIN queue : queue[i].id = k
    /\ fate[k] = "delivered" => \E w \in Worlds : applied[<<w, k>>] = 1

\* A command whose failure is answered holds up no other: each command of a user who
\* goes on synchronising is delivered, fails for the user to see, or is taken off,
\* unless one whose execution raises is in the batch. That one ends every replay it is
\* part of, is never marked, and holds up its batch until its user takes it off.
EveryCommandAnswered ==
  \A k \in Commands :
    (\E i \in DOMAIN queue : queue[i] = Entry(k)) ~>
      (\/ \A i \in DOMAIN queue : queue[i] # Entry(k)
       \/ Range(Batch) \cap raising # {})
=============================================================================
