------------------------- MODULE OfflineReplayProofs -------------------------
(***************************************************************************)
(* Proofs about OfflineReplay, for any number of commands, Worlds,         *)
(* contexts and replays the server is working on, and batches of any size. *)
(*                                                                         *)
(* The inductive invariant says that a transaction under the lock of a     *)
(* command's key has read the record there still is, and that an outcome   *)
(* reported as a success is on record, whoever waits for it.               *)
(***************************************************************************)
EXTENDS OfflineReplay, FiniteSetTheorems, SequenceTheorems, TLAPS

-----------------------------------------------------------------------------
(* The inductive invariant.                                                 *)

QueueEntry == [id : Commands, error : {"no", "yes"}]
Outcome == [id : Commands, ok : {"yes", "no"}]
Fates == {"new", "queued", "removed", "replaced", "delivered"}

RequestRow == [todo : Seq(Commands), results : Seq(Outcome), world : Worlds \cup {Nothing},
               context : Contexts \cup {Nothing}, found : Contexts \cup {Nothing},
               locked : {"no", "yes"}]

TypeInv ==
  /\ queue \in Seq(QueueEntry)
  /\ fate \in [Commands -> Fates]
  /\ here \in [world : Worlds, context : Contexts]
  /\ awaiting \in Requests \cup {Nothing}
  /\ request \in [Requests -> RequestRow]
  /\ record \in [Slots -> Contexts \cup {Nothing}]
  /\ applied \in [Slots -> Nat]

\* A request with commands to run acts in a World and a context; what it reports as a
\* success has taken effect there.
Served(x) ==
  /\ x.locked = "yes" => x.todo # <<>>
  /\ x.todo # <<>> => x.world \in Worlds /\ x.context \in Contexts
  /\ \A i \in 1 .. Len(x.results) :
       x.results[i].ok = "yes" => x.world \in Worlds /\ applied[<<x.world, x.results[i].id>>] = 1

\* The lock of a key is one request's, which has read the record that still is there.
Locked ==
  /\ \A r \in Requests : request[r].locked = "yes" => request[r].found = record[Slot(r)]
  /\ \A q, r \in Requests :
       request[q].locked = "yes" /\ request[r].locked = "yes" /\ Slot(q) = Slot(r) => q = r

IInv ==
  /\ TypeInv
  /\ \A r \in Requests : Served(request[r])
  /\ Locked
  /\ AppliedAtMostOnce
  /\ NothingLost

-----------------------------------------------------------------------------
(* The queue.                                                               *)

\* Positions are numbered by how many of them are smaller.
Smaller(I, i) == {j \in I : j < i}
Earlier(I, i) == Cardinality(Smaller(I, i))

LEMMA EarlierNumbers ==
  ASSUME NEW N \in Nat, NEW I \in SUBSET (1 .. N)
  PROVE  /\ Cardinality(I) \in Nat
         /\ \A i \in I : Earlier(I, i) \in 0 .. Cardinality(I) - 1
         /\ \A i, j \in I : Earlier(I, i) = Earlier(I, j) => i = j
         /\ \A n \in 1 .. Cardinality(I) : \E i \in I : Earlier(I, i) = n - 1
<1> DEFINE size == Cardinality(I)
           f == [i \in I |-> Earlier(I, i)]
<1>1. IsFiniteSet(1 .. N) /\ \A i \in I : i \in Nat
  BY FS_Interval
<1>2. IsFiniteSet(I) /\ size \in Nat
  BY <1>1, FS_Subset, FS_CardinalityType
<1>3. ASSUME NEW i \in I
      PROVE  IsFiniteSet(Smaller(I, i)) /\ Earlier(I, i) \in Nat /\ Earlier(I, i) < size
  <2>1. Smaller(I, i) \in SUBSET I /\ i \notin Smaller(I, i)
    BY <1>1 DEF Smaller
  <2>2. IsFiniteSet(Smaller(I, i)) /\ Earlier(I, i) <= size /\ Earlier(I, i) # size
    BY <1>2, <2>1, FS_Subset DEF Earlier
  <2>3. Earlier(I, i) \in Nat
    BY <2>2, FS_CardinalityType DEF Earlier
  <2> QED  BY <1>2, <2>2, <2>3
<1>4. ASSUME NEW i \in I, NEW j \in I, i < j PROVE Earlier(I, i) < Earlier(I, j)
  <2>1. \A k \in I : k \in Nat /\ (k < i => k < j)
    BY <1>1, <1>4
  <2>2. Smaller(I, i) \in SUBSET Smaller(I, j)
    BY <2>1 DEF Smaller
  <2>3. i \in Smaller(I, j) /\ i \notin Smaller(I, i)
    BY <1>1, <1>4 DEF Smaller
  <2>4. Earlier(I, i) <= Earlier(I, j) /\ Earlier(I, i) # Earlier(I, j)
    BY <1>3, <2>2, <2>3, FS_Subset DEF Earlier
  <2> QED  BY <1>3, <2>4
<1>5. ASSUME NEW i \in I, NEW j \in I, Earlier(I, i) = Earlier(I, j) PROVE i = j
  <2>1. i \in Nat /\ j \in Nat
    BY <1>1
  <2>2. ~(i < j) /\ ~(j < i)
    BY <1>3, <1>4, <1>5
  <2> QED  BY <2>1, <2>2
<1>6. f \in [I -> 0 .. size - 1]
  BY <1>2, <1>3
<1>7. f \in Injection(I, 0 .. size - 1)
  BY <1>5, <1>6 DEF Injection, IsInjective
<1>8. IsFiniteSet(0 .. size - 1) /\ Cardinality(0 .. size - 1) = size
  <2> HIDE DEF size
  <2>1. size - 1 \in Int /\ 0 \in Int
    BY <1>2
  <2>2. /\ IsFiniteSet(0 .. size - 1)
        /\ Cardinality(0 .. size - 1) = IF 0 > size - 1 THEN 0 ELSE (size - 1) - 0 + 1
    BY ONLY <2>1, FS_Interval, Zenon
  <2> QED  BY <1>2, <2>2
<1>9. f \in Surjection(I, 0 .. size - 1)
  BY <1>7, <1>8, FS_Injection
<1>10. ASSUME NEW n \in 1 .. size PROVE \E i \in I : Earlier(I, i) = n - 1
  <2>1. n - 1 \in 0 .. size - 1
    BY <1>2
  <2>2. PICK i \in I : f[i] = n - 1
    BY <1>9, <2>1 DEF Surjection
  <2> QED  BY <2>2
<1>11. \A i \in I : Earlier(I, i) \in 0 .. size - 1
  BY <1>2, <1>3
<1> QED  BY <1>2, <1>5, <1>10, <1>11

\* The entries kept are those at the positions kept, and none besides.
LEMMA QueueAtFacts ==
  ASSUME queue \in Seq(QueueEntry), NEW I \in SUBSET (1 .. Len(queue))
  PROVE  /\ QueueAt(I) \in Seq(QueueEntry)
         /\ \A n \in 1 .. Len(QueueAt(I)) : \E i \in I : QueueAt(I)[n] = queue[i]
         /\ \A i \in I : \E n \in 1 .. Len(QueueAt(I)) : QueueAt(I)[n] = queue[i]
<1> DEFINE size == Cardinality(I)
           nth(n) == CHOOSE i \in I : Earlier(I, i) = n - 1
           kept == QueueAt(I)
<1>1. Len(queue) \in Nat /\ \A i \in I : queue[i] \in QueueEntry
  OBVIOUS
<1>2. size \in Nat
  BY <1>1, EarlierNumbers
<1>3. \A n \in 1 .. size : nth(n) \in I /\ Earlier(I, nth(n)) = n - 1
  BY <1>1, EarlierNumbers
<1>4. kept = [n \in 1 .. size |-> queue[nth(n)]]
  BY DEF QueueAt, Earlier, Smaller
<1>5. ASSUME NEW i \in I PROVE \E n \in 1 .. size : nth(n) = i
  <2> DEFINE m == Earlier(I, i) + 1
  <2>1. Earlier(I, i) \in 0 .. size - 1
    BY <1>1, EarlierNumbers
  <2>2. m \in 1 .. size /\ m - 1 = Earlier(I, i)
    BY <1>2, <2>1
  <2> HIDE DEF m
  <2>3. nth(m) \in I /\ Earlier(I, nth(m)) = Earlier(I, i)
    BY <1>3, <2>2
  <2>4. nth(m) = i
    BY <1>1, <1>5, <2>3, EarlierNumbers
  <2> QED  BY <2>2, <2>4
<1> HIDE DEF size, nth, kept
<1>6. kept \in Seq(QueueEntry) /\ Len(kept) = size
  <2>1. \A n \in 1 .. size : queue[nth(n)] \in QueueEntry
    BY <1>1, <1>3
  <2>2. kept \in [1 .. size -> QueueEntry]
    BY <1>4, <2>1
  <2>3. kept \in Seq(QueueEntry)
    BY <1>2, <2>2, SeqDef
  <2> QED  BY <1>2, <2>2, <2>3
<1>7. \A n \in 1 .. Len(kept) : \E i \in I : kept[n] = queue[i]
  BY <1>3, <1>4, <1>6
<1>8. \A i \in I : \E n \in 1 .. Len(kept) : kept[n] = queue[i]
  BY <1>4, <1>5, <1>6
<1> QED  BY <1>6, <1>7, <1>8 DEF kept

LEMMA BatchTyped ==
  ASSUME queue \in Seq(QueueEntry)
  PROVE  Batch \in Seq(Commands)
<1> DEFINE I == {i \in DOMAIN queue : queue[i].error = "no"}
           kept == QueueAt(I)
           n == IF Len(kept) < BatchSize THEN Len(kept) ELSE BatchSize
           first == SubSeq(kept, 1, n)
<1>1. kept \in Seq(QueueEntry)
  BY QueueAtFacts
<1>2. Batch = Ids(first)
  BY DEF Batch, FirstOf
<1> HIDE DEF kept
<1>3. n \in 0 .. Len(kept)
  BY <1>1, ReplayAssumption DEF ReplayAssumption
<1> HIDE DEF n
<1>4. \A i \in 1 .. n : kept[i] \in QueueEntry
  BY <1>1, <1>3
<1>5. first \in Seq(QueueEntry)
  BY <1>3, <1>4, SubSeqProperties
<1> HIDE DEF first
<1>6. /\ Len(first) \in Nat /\ DOMAIN first = 1 .. Len(first)
      /\ \A i \in 1 .. Len(first) : first[i].id \in Commands
  <2>1. Len(first) \in Nat /\ DOMAIN first = 1 .. Len(first)
    BY <1>5
  <2>2. \A i \in 1 .. Len(first) : first[i] \in QueueEntry
    BY <1>5, ElementOfSeq
  <2> QED  BY <2>1, <2>2 DEF QueueEntry
<1>7. Ids(first) = [i \in 1 .. Len(first) |-> first[i].id]
  BY <1>6 DEF Ids
<1> QED  BY <1>2, <1>6, <1>7

-----------------------------------------------------------------------------
(* Each part of the invariant, on what it depends on.                       *)

\* What has taken effect stays so.
Lasting == \A s \in Slots : applied[s] = 1 => applied'[s] = 1

LEMMA RowTyped ==
  ASSUME IInv, NEW r \in Requests
  PROVE  request[r] \in RequestRow /\ Served(request[r])
BY DEF IInv, TypeInv

LEMMA ServedKept ==
  ASSUME IInv, Lasting, NEW r \in Requests, request'[r] = request[r]
  PROVE  Served(request[r])'
<1>1. /\ request[r].results \in Seq(Outcome) /\ Served(request[r])
  BY RowTyped DEF RequestRow
<1>2. \A i \in 1 .. Len(request[r].results) : request[r].results[i].id \in Commands
  <2>1. \A i \in 1 .. Len(request[r].results) : request[r].results[i] \in Outcome
    BY <1>1, ElementOfSeq
  <2> QED  BY <2>1 DEF Outcome
<1> QED  BY <1>1, <1>2 DEF Served, Lasting, Slots

LEMMA LockedKept ==
  ASSUME IInv, record' = record,
         \A r \in Requests : request'[r].locked = "yes" => request'[r] = request[r]
  PROVE  Locked'
BY DEF IInv, Locked, Slot

LEMMA NothingLostKept ==
  ASSUME IInv, Lasting, UNCHANGED <<queue, fate>>
  PROVE  NothingLost'
BY DEF IInv, NothingLost, Lasting, Slots

\* A step of the user on the queue.
LEMMA QueueStep ==
  ASSUME IInv, queue' \in Seq(QueueEntry), fate' \in [Commands -> Fates], NothingLost',
         UNCHANGED <<here, awaiting, request, record, applied>>
  PROVE  IInv'
<1>1. \A r \in Requests : Served(request[r])'
  BY ServedKept DEF Lasting
<1>2. Locked'
  BY LockedKept
<1> QED  BY <1>1, <1>2 DEF IInv, TypeInv, AppliedAtMostOnce

\* A step of a request that leaves the records alone.
LEMMA RequestStep ==
  ASSUME IInv, NEW r \in Requests, NEW x \in RequestRow, request' = [request EXCEPT ![r] = x],
         Served(x), x.locked = "no", awaiting' \in Requests \cup {Nothing},
         UNCHANGED <<queue, fate, here, record, applied>>
  PROVE  IInv'
<1>1. request' \in [Requests -> RequestRow] /\ request'[r] = x
      /\ \A q \in Requests \ {r} : request'[q] = request[q]
  BY DEF IInv, TypeInv
<1>2. Lasting
  BY DEF Lasting
<1>3. \A q \in Requests : Served(request[q])'
  <2>1. Served(request[r])'
    BY <1>1 DEF Served
  <2> QED  BY <1>1, <1>2, <2>1, ServedKept
<1>4. Locked'
  BY <1>1, LockedKept
<1> QED  BY <1>1, <1>2, <1>3, <1>4, NothingLostKept DEF IInv, TypeInv, AppliedAtMostOnce

\* The queue and the fates change together, command by command.
LEMMA FatesFollow ==
  ASSUME IInv, applied' = applied,
         \A c \in Commands :
           \/ /\ fate'[c] = fate[c]
              /\ (\E n \in DOMAIN queue' : queue'[n].id = c)
                   <=> \E i \in DOMAIN queue : queue[i].id = c
           \/ fate'[c] = "queued" /\ \E n \in DOMAIN queue' : queue'[n].id = c
           \/ fate'[c] \in {"removed", "replaced"} /\ ~ \E n \in DOMAIN queue' : queue'[n].id = c
  PROVE  NothingLost'
<1>1. ASSUME NEW c \in Commands
      PROVE  /\ fate'[c] = "queued" <=> \E n \in DOMAIN queue' : queue'[n].id = c
             /\ fate'[c] = "delivered" => \E w \in Worlds : applied'[<<w, c>>] = 1
  <2> DEFINE before == \E i \in DOMAIN queue : queue[i].id = c
             there == \E n \in DOMAIN queue' : queue'[n].id = c
             effect == \E w \in Worlds : applied[<<w, c>>] = 1
  <2>1. (fate[c] = "queued" <=> before) /\ (fate[c] = "delivered" => effect)
    BY DEF IInv, NothingLost
  <2>2. \/ fate'[c] = fate[c] /\ (there <=> before)
        \/ fate'[c] = "queued" /\ there
        \/ fate'[c] \in {"removed", "replaced"} /\ ~ there
    OBVIOUS
  <2> HIDE DEF before, there, effect
  <2>3. (fate'[c] = "queued" <=> there) /\ (fate'[c] = "delivered" => effect)
    BY <2>1, <2>2
  <2> QED  BY <2>3 DEF there, effect
<1> QED  BY <1>1 DEF NothingLost

LEMMA NoRequestTyped == NoRequest \in RequestRow /\ Served(NoRequest) /\ NoRequest.locked = "no"
BY DEF NoRequest, RequestRow, Served

-----------------------------------------------------------------------------
(* The browser.                                                             *)

LEMMA AddKeeps ==
  ASSUME IInv, NEW k \in Commands, Add(k)
  PROVE  IInv'
<1> DEFINE n == Len(queue)
<1>1. queue \in Seq(QueueEntry) /\ Entry(k) \in QueueEntry /\ Entry(k).id = k
  BY DEF IInv, TypeInv, Entry, QueueEntry
<1>2. queue' = Append(queue, Entry(k)) /\ fate' = [fate EXCEPT ![k] = "queued"]
  BY DEF Add
<1>3. /\ queue' \in Seq(QueueEntry) /\ n \in Nat /\ DOMAIN queue = 1 .. n
      /\ DOMAIN queue' = 1 .. n + 1 /\ queue'[n + 1] = Entry(k)
      /\ \A i \in 1 .. n : queue'[i] = queue[i]
  BY <1>1, <1>2
<1>4. fate' \in [Commands -> Fates]
  BY <1>2 DEF IInv, TypeInv, Fates
<1> HIDE DEF n
<1>5. ASSUME NEW c \in Commands
      PROVE  (\E i \in DOMAIN queue' : queue'[i].id = c) <=> c = k \/ \E i \in DOMAIN queue : queue[i].id = c
  <2>1. n + 1 \in DOMAIN queue' /\ \A i \in DOMAIN queue : i \in DOMAIN queue'
    BY <1>3
  <2>2. \A i \in DOMAIN queue' : i = n + 1 \/ i \in DOMAIN queue
    BY <1>3
  <2> QED  BY <1>1, <1>3, <2>1, <2>2
<1>6. \A c \in Commands : fate'[c] = IF c = k THEN "queued" ELSE fate[c]
  BY <1>2 DEF IInv, TypeInv
<1>7. NothingLost'
  <2>1. applied' = applied
    BY DEF Add
  <2> QED  BY <1>5, <1>6, <2>1, FatesFollow
<1> QED  BY <1>3, <1>4, <1>7, QueueStep DEF Add

LEMMA RemoveKeeps ==
  ASSUME IInv, NEW k \in Commands, Remove(k)
  PROVE  IInv'
<1> DEFINE I == {i \in DOMAIN queue : queue[i].id # k}
<1>1. queue \in Seq(QueueEntry) /\ DOMAIN queue = 1 .. Len(queue) /\ I \in SUBSET (1 .. Len(queue))
  BY DEF IInv, TypeInv
<1>2. queue' = QueueAt(I) /\ fate' = [fate EXCEPT ![k] = "removed"]
  BY DEF Remove
<1>3. /\ queue' \in Seq(QueueEntry)
      /\ \A n \in 1 .. Len(queue') : \E i \in I : queue'[n] = queue[i]
      /\ \A i \in I : \E n \in 1 .. Len(queue') : queue'[n] = queue[i]
  BY <1>1, <1>2, QueueAtFacts
<1>4. DOMAIN queue' = 1 .. Len(queue')
  BY <1>3
<1>5. fate' \in [Commands -> Fates]
  BY <1>2 DEF IInv, TypeInv, Fates
<1>6. \A c \in Commands : (\E n \in DOMAIN queue' : queue'[n].id = c)
                            <=> c # k /\ \E i \in DOMAIN queue : queue[i].id = c
  BY <1>3, <1>4
<1> HIDE DEF I
<1>7. \A c \in Commands : fate'[c] = IF c = k THEN "removed" ELSE fate[c]
  BY <1>2 DEF IInv, TypeInv
<1>8. NothingLost'
  <2>1. applied' = applied
    BY DEF Remove
  <2> QED  BY <1>6, <1>7, <2>1, FatesFollow
<1> QED  BY <1>3, <1>5, <1>8, QueueStep DEF Remove

LEMMA ReplaceKeeps ==
  ASSUME IInv, NEW k \in Commands, NEW new \in Commands, Replace(k, new)
  PROVE  IInv'
<1>1. queue \in Seq(QueueEntry) /\ DOMAIN queue = 1 .. Len(queue) /\ Len(queue) \in Nat
  BY DEF IInv, TypeInv
<1>2. /\ queue' = [i \in DOMAIN queue |-> IF queue[i].id = k THEN Entry(new) ELSE queue[i]]
      /\ fate' = [fate EXCEPT ![k] = "replaced", ![new] = "queued"]
      /\ fate[k] = "queued" /\ fate[new] = "new"
  BY DEF Replace
<1>3. \A i \in DOMAIN queue : queue[i] \in QueueEntry
  BY <1>1, ElementOfSeq
<1>4. Entry(new) \in QueueEntry /\ Entry(new).id = new
  BY DEF Entry, QueueEntry
<1>5. queue' \in [1 .. Len(queue) -> QueueEntry]
  BY <1>1, <1>2, <1>3, <1>4
<1>6. queue' \in Seq(QueueEntry)
  BY <1>1, <1>5, SeqDef
<1>7. fate' \in [Commands -> Fates]
  BY <1>2 DEF IInv, TypeInv, Fates
<1>8. \E i \in DOMAIN queue : queue[i].id = k
  BY <1>2 DEF IInv, NothingLost
<1>9. k # new
  BY <1>2
<1>10. \A c \in Commands : (\E i \in DOMAIN queue' : queue'[i].id = c)
                             <=> c = new \/ (c # k /\ \E i \in DOMAIN queue : queue[i].id = c)
  <2>1. DOMAIN queue' = DOMAIN queue
    BY <1>2
  <2>2. \A i \in DOMAIN queue : queue'[i].id = IF queue[i].id = k THEN new ELSE queue[i].id
    BY <1>2, <1>4
  <2> QED  BY <1>8, <1>9, <2>1, <2>2
<1>11. NothingLost'
  <2>1. \A c \in Commands : fate'[c] = IF c = new THEN "queued" ELSE IF c = k THEN "replaced" ELSE fate[c]
    BY <1>2 DEF IInv, TypeInv
  <2>2. applied' = applied
    BY DEF Replace
  <2> QED  BY <1>9, <1>10, <2>1, <2>2, FatesFollow
<1> QED  BY <1>6, <1>7, <1>11, QueueStep DEF Replace

LEMMA ReplayKeeps ==
  ASSUME IInv, NEW r \in Requests, Replay(r)
  PROVE  IInv'
<1> DEFINE x == [NoRequest EXCEPT !.todo = Batch, !.world = here.world, !.context = here.context]
<1>1. Batch \in Seq(Commands) /\ here.world \in Worlds /\ here.context \in Contexts
  BY BatchTyped DEF IInv, TypeInv
<1>2. x \in RequestRow /\ x.locked = "no" /\ Served(x)
  <2>1. /\ x.todo = Batch /\ x.world = here.world /\ x.context = here.context
        /\ x.locked = "no" /\ x.results = <<>>
    BY DEF NoRequest
  <2>2. x \in RequestRow
    BY <1>1, EmptySeq DEF RequestRow, NoRequest
  <2> HIDE DEF x
  <2> QED  BY <1>1, <2>1, <2>2, EmptySeq DEF Served
<1>3. request' = [request EXCEPT ![r] = x] /\ awaiting' = r
      /\ UNCHANGED <<queue, fate, here, record, applied>>
  BY DEF Replay
<1> HIDE DEF x
<1> QED  BY <1>2, <1>3, RequestStep

\* Who waits for a request takes its outcomes: what succeeded leaves the queue, and what
\* leaves the queue has succeeded.
LEMMA ResultFacts ==
  ASSUME IInv, NEW r \in Requests, NEW k \in Commands, Result(r, k) = "yes"
  PROVE  \E w \in Worlds : applied[<<w, k>>] = 1
<1> DEFINE results == request[r].results
<1>1. /\ results \in Seq(Outcome) /\ DOMAIN results = 1 .. Len(results)
      /\ \A i \in 1 .. Len(results) : results[i].ok = "yes" =>
           request[r].world \in Worlds /\ applied[<<request[r].world, results[i].id>>] = 1
  BY RowTyped DEF RequestRow, Served
<1>2. (\E i \in DOMAIN results : results[i].id = k)
      /\ (CHOOSE res \in Range(results) : res.id = k).ok = "yes"
  BY DEF Result
<1>3. \A res \in Range(results) : \E i \in DOMAIN results : res = results[i]
  BY DEF Range
<1>4. \E res \in Range(results) : res.id = k
  BY <1>2 DEF Range
<1> HIDE DEF results
<1>5. PICK res \in Range(results) : res.id = k /\ res.ok = "yes"
  BY <1>2, <1>4
<1>6. PICK i \in DOMAIN results : res = results[i]
  BY <1>3
<1> QED  BY <1>1, <1>5, <1>6

LEMMA MergeFacts ==
  ASSUME IInv, NEW r \in Requests
  PROVE  /\ Merge(r) \in Seq(QueueEntry)
         /\ \A n \in 1 .. Len(Merge(r)) : \E i \in DOMAIN queue : Merge(r)[n].id = queue[i].id
         /\ \A i \in DOMAIN queue : Result(r, queue[i].id) # "yes" =>
              \E n \in 1 .. Len(Merge(r)) : Merge(r)[n].id = queue[i].id
<1> DEFINE I == {i \in DOMAIN queue : Result(r, queue[i].id) # "yes"}
           kept == QueueAt(I)
<1>1. queue \in Seq(QueueEntry) /\ I \in SUBSET (1 .. Len(queue)) /\ I \subseteq DOMAIN queue
  BY DEF IInv, TypeInv
<1>2. /\ kept \in Seq(QueueEntry)
      /\ \A n \in 1 .. Len(kept) : \E i \in I : kept[n] = queue[i]
      /\ \A i \in I : \E n \in 1 .. Len(kept) : kept[n] = queue[i]
  BY <1>1, QueueAtFacts
<1>3. Merge(r) = [n \in DOMAIN kept |->
                    IF Result(r, kept[n].id) = "no" THEN [kept[n] EXCEPT !.error = "yes"] ELSE kept[n]]
  BY DEF Merge
<1>4. \A i \in DOMAIN queue : Result(r, queue[i].id) # "yes" => i \in I
  OBVIOUS
<1> HIDE DEF I, kept
<1>5. Len(kept) \in Nat /\ DOMAIN kept = 1 .. Len(kept)
  BY <1>2
<1>6. ASSUME NEW n \in 1 .. Len(kept)
      PROVE  Merge(r)[n] \in QueueEntry /\ Merge(r)[n].id = kept[n].id
  <2>1. kept[n] \in QueueEntry
    BY <1>2, ElementOfSeq
  <2> QED  BY <1>3, <1>5, <2>1 DEF QueueEntry
<1>7. Merge(r) \in [1 .. Len(kept) -> QueueEntry]
  BY <1>3, <1>5, <1>6
<1>8. Merge(r) \in Seq(QueueEntry) /\ Len(Merge(r)) = Len(kept)
  BY <1>5, <1>7, SeqDef
<1>9. ASSUME NEW n \in 1 .. Len(kept) PROVE \E i \in DOMAIN queue : Merge(r)[n].id = queue[i].id
  <2>1. PICK i \in I : kept[n] = queue[i]
    BY <1>2
  <2>2. i \in DOMAIN queue
    BY <1>1
  <2> QED  BY <1>6, <2>1, <2>2
<1>10. ASSUME NEW i \in I PROVE \E n \in 1 .. Len(kept) : Merge(r)[n].id = queue[i].id
  BY <1>2, <1>6
<1> QED  BY <1>4, <1>8, <1>9, <1>10

LEMMA ReceiveKeeps ==
  ASSUME IInv, NEW r \in Requests, Receive(r)
  PROVE  IInv'
<1>1. queue' = Merge(r) /\ awaiting' = Nothing /\ request' = [request EXCEPT ![r] = NoRequest]
      /\ UNCHANGED <<here, record, applied>>
      /\ fate' = [k \in Commands |-> IF fate[k] = "queued" /\ k \notin Range(Ids(queue'))
                                       THEN "delivered" ELSE fate[k]]
  BY DEF Receive
<1>2. /\ queue' \in Seq(QueueEntry) /\ DOMAIN queue' = 1 .. Len(queue')
      /\ \A n \in DOMAIN queue' : \E i \in DOMAIN queue : queue'[n].id = queue[i].id
      /\ \A i \in DOMAIN queue : Result(r, queue[i].id) # "yes" =>
           \E n \in DOMAIN queue' : queue'[n].id = queue[i].id
  BY <1>1, MergeFacts
<1>3. \A k \in Commands : k \in Range(Ids(queue')) <=> \E n \in DOMAIN queue' : queue'[n].id = k
  BY DEF Range, Ids
<1>4. fate' \in [Commands -> Fates]
  BY <1>1 DEF IInv, TypeInv, Fates
<1>5. ASSUME NEW k \in Commands
      PROVE  /\ fate'[k] = "queued" <=> \E n \in DOMAIN queue' : queue'[n].id = k
             /\ fate'[k] = "delivered" => \E w \in Worlds : applied[<<w, k>>] = 1
  <2>1. /\ fate[k] = "queued" <=> \E i \in DOMAIN queue : queue[i].id = k
        /\ fate[k] = "delivered" => \E w \in Worlds : applied[<<w, k>>] = 1
    BY DEF IInv, NothingLost
  <2>2. CASE \E n \in DOMAIN queue' : queue'[n].id = k
    BY <1>1, <1>2, <1>3, <2>1, <2>2
  <2>3. CASE ~ \E n \in DOMAIN queue' : queue'[n].id = k
    <3>1. fate'[k] = IF fate[k] = "queued" THEN "delivered" ELSE fate[k]
      BY <1>1, <1>3, <2>3
    <3>2. fate[k] = "queued" => Result(r, k) = "yes"
      BY <1>2, <2>1, <2>3
    <3> QED  BY <2>1, <2>3, <3>1, <3>2, ResultFacts
  <2> QED  BY <2>2, <2>3
<1>6. NothingLost'
  BY <1>1, <1>5 DEF NothingLost
<1>7. request' \in [Requests -> RequestRow] /\ request'[r] = NoRequest
      /\ \A q \in Requests \ {r} : request'[q] = request[q]
  BY <1>1, NoRequestTyped DEF IInv, TypeInv
<1>8. \A q \in Requests : Served(request[q])'
  <2>1. Served(request[r])'
    BY <1>1, <1>7, NoRequestTyped DEF Served
  <2>2. Lasting
    BY <1>1 DEF Lasting
  <2> QED  BY <1>7, <2>1, <2>2, ServedKept
<1>9. Locked'
  BY <1>1, <1>7, NoRequestTyped, LockedKept
<1> QED  BY <1>1, <1>2, <1>4, <1>6, <1>7, <1>8, <1>9 DEF IInv, TypeInv, AppliedAtMostOnce

-----------------------------------------------------------------------------
(* The server.                                                              *)

LEMMA AbortKeeps ==
  ASSUME IInv, NEW r \in Requests, Abort(r)
  PROVE  IInv'
<1>1. awaiting' \in Requests \cup {Nothing}
  BY DEF Abort, IInv, TypeInv
<1> QED  BY <1>1, NoRequestTyped, RequestStep DEF Abort

LEMMA DiscardKeeps ==
  ASSUME IInv, NEW r \in Requests, Discard(r)
  PROVE  IInv'
<1>1. awaiting' \in Requests \cup {Nothing}
  BY DEF Discard, IInv, TypeInv
<1> QED  BY <1>1, NoRequestTyped, RequestStep DEF Discard

LEMMA BreakKeeps ==
  ASSUME IInv, Break \/ Change \/ UNCHANGED vars
  PROVE  IInv'
<1>1. /\ here' \in [world : Worlds, context : Contexts] /\ awaiting' \in Requests \cup {Nothing}
      /\ UNCHANGED <<queue, fate, request, record, applied>>
  BY DEF Break, Change, vars, IInv, TypeInv
<1>2. Lasting
  BY <1>1 DEF Lasting
<1>3. \A q \in Requests : Served(request[q])'
  BY <1>1, <1>2, ServedKept
<1>4. Locked'
  BY <1>1, LockedKept
<1> QED  BY <1>1, <1>2, <1>3, <1>4, NothingLostKept DEF IInv, TypeInv, AppliedAtMostOnce

\* The record a transaction has read stays until it ends: the key is locked.
LEMMA EnterKeeps ==
  ASSUME IInv, NEW r \in Requests, Enter(r)
  PROVE  IInv'
<1> DEFINE x == [request[r] EXCEPT !.locked = "yes", !.found = record[Slot(r)]]
<1>1. /\ request[r] \in RequestRow /\ Served(request[r]) /\ request[r].todo # <<>>
      /\ request[r].todo \in Seq(Commands) /\ request[r].world \in Worlds
  BY RowTyped DEF Enter, Served, RequestRow
<1>2. Slot(r) \in Slots
  BY <1>1, HeadTailProperties DEF Slot, Slots
<1>3. record[Slot(r)] \in Contexts \cup {Nothing}
  BY <1>2 DEF IInv, TypeInv
<1>4. /\ x \in RequestRow /\ x.locked = "yes" /\ x.found = record[Slot(r)]
      /\ x.todo = request[r].todo /\ x.world = request[r].world
      /\ x.results = request[r].results /\ x.context = request[r].context
  BY <1>1, <1>3 DEF RequestRow
<1>5. request' = [request EXCEPT ![r] = x]
  BY DEF Enter
<1> HIDE DEF x
<1>6. /\ request' \in [Requests -> RequestRow] /\ request'[r] = x
      /\ \A q \in Requests \ {r} : request'[q] = request[q]
      /\ UNCHANGED <<queue, fate, here, awaiting, record, applied>>
  BY <1>4, <1>5 DEF Enter, IInv, TypeInv
<1>7. Lasting
  BY <1>6 DEF Lasting
<1>8. \A q \in Requests : Served(request[q])'
  <2>1. Served(request[r])'
    BY <1>1, <1>4, <1>6 DEF Served
  <2> QED  BY <1>6, <1>7, <2>1, ServedKept
<1>9. Locked'
  <2>1. \A q \in Requests : Slot(q)' = Slot(q)
    BY <1>4, <1>6 DEF Slot
  <2>2. LockFree(r)
    BY DEF Enter
  <2> QED  BY <1>4, <1>6, <2>1, <2>2 DEF IInv, Locked, LockFree
<1> QED  BY <1>6, <1>7, <1>8, <1>9, NothingLostKept DEF IInv, TypeInv, AppliedAtMostOnce

\* The row of a request whose command has an outcome.
LEMMA AnsweredFacts ==
  ASSUME IInv, NEW r \in Requests, NEW ok \in {"yes", "no"}, request[r].locked = "yes",
         Answered(r, ok)
  PROVE  \E x \in RequestRow :
           /\ request' = [request EXCEPT ![r] = x]
           /\ x.locked = "no" /\ x.world = request[r].world /\ x.context = request[r].context
           /\ Slot(r) \in Slots /\ request[r].world \in Worlds
           /\ Len(x.results) = Len(request[r].results) + 1 /\ Len(request[r].results) \in Nat
           /\ x.results[Len(x.results)] = [id |-> Head(request[r].todo), ok |-> ok]
           /\ \A i \in 1 .. Len(request[r].results) :
                x.results[i] = request[r].results[i] /\ request[r].results[i].id \in Commands
           /\ x.todo # <<>> => x.world \in Worlds /\ x.context \in Contexts
<1> DEFINE todo == request[r].todo
           results == request[r].results
           outcome == [id |-> Head(todo), ok |-> ok]
           rest == Tail(todo)
           all == Append(results, outcome)
           x == [request[r] EXCEPT !.todo = rest, !.locked = "no", !.found = Nothing, !.results = all]
<1>1. /\ request[r] \in RequestRow /\ todo # <<>> /\ todo \in Seq(Commands)
      /\ results \in Seq(Outcome) /\ request[r].world \in Worlds /\ request[r].context \in Contexts
  BY RowTyped DEF Served, RequestRow
<1>2. Head(todo) \in Commands /\ rest \in Seq(Commands) /\ Slot(r) \in Slots
  BY <1>1, HeadTailProperties DEF Slot, Slots
<1>3. request' = [request EXCEPT ![r] = x]
  BY <1>1 DEF Answered, RequestRow
<1> HIDE DEF todo, results, rest
<1>4. outcome \in Outcome
  BY <1>2 DEF Outcome
<1> HIDE DEF outcome
<1>5. /\ all \in Seq(Outcome) /\ Len(all) = Len(results) + 1 /\ Len(results) \in Nat
      /\ all[Len(results) + 1] = outcome /\ \A i \in 1 .. Len(results) : all[i] = results[i]
  BY <1>1, <1>4
<1>6. \A i \in 1 .. Len(results) : results[i].id \in Commands
  <2>1. \A i \in 1 .. Len(results) : results[i] \in Outcome
    BY <1>1, ElementOfSeq
  <2> QED  BY <2>1 DEF Outcome
<1> HIDE DEF all
<1>7. /\ x \in RequestRow /\ x.locked = "no" /\ x.results = all /\ x.todo = rest
      /\ x.world = request[r].world /\ x.context = request[r].context
  BY <1>1, <1>2, <1>5 DEF RequestRow
<1> HIDE DEF x
<1> QED  BY <1>1, <1>2, <1>3, <1>5, <1>6, <1>7 DEF todo, results, outcome

\* An outcome reported as a success has taken effect: now, or when its record was made.
LEMMA AnsweredServed ==
  ASSUME IInv, NEW r \in Requests, NEW ok \in {"yes", "no"}, request[r].locked = "yes",
         Answered(r, ok), Lasting, ok = "yes" => applied'[Slot(r)] = 1
  PROVE  /\ request' \in [Requests -> RequestRow] /\ request'[r].locked = "no"
         /\ \A q \in Requests \ {r} : request'[q] = request[q]
         /\ \A q \in Requests : Served(request[q])'
         /\ Slot(r) \in Slots
<1> DEFINE n == Len(request[r].results)
<1>1. PICK x \in RequestRow :
        /\ request' = [request EXCEPT ![r] = x]
        /\ x.locked = "no" /\ x.world = request[r].world /\ x.context = request[r].context
        /\ Slot(r) \in Slots /\ request[r].world \in Worlds
        /\ Len(x.results) = n + 1 /\ n \in Nat
        /\ x.results[Len(x.results)] = [id |-> Head(request[r].todo), ok |-> ok]
        /\ \A i \in 1 .. n : x.results[i] = request[r].results[i] /\ request[r].results[i].id \in Commands
        /\ x.todo # <<>> => x.world \in Worlds /\ x.context \in Contexts
  BY AnsweredFacts
<1>2. /\ request' \in [Requests -> RequestRow] /\ request'[r] = x
      /\ \A q \in Requests \ {r} : request'[q] = request[q]
  BY <1>1 DEF IInv, TypeInv
<1>3. ASSUME NEW i \in 1 .. Len(x.results), x.results[i].ok = "yes"
      PROVE  x.world \in Worlds /\ applied'[<<x.world, x.results[i].id>>] = 1
  <2>1. CASE i \in 1 .. n
    <3>1. /\ x.results[i] = request[r].results[i] /\ request[r].results[i].id \in Commands
      BY <1>1, <2>1
    <3>2. applied[<<x.world, x.results[i].id>>] = 1
      BY <1>1, <1>3, <2>1, <3>1, RowTyped DEF Served
    <3> QED  BY <1>1, <3>1, <3>2 DEF Lasting, Slots
  <2>2. CASE i = n + 1
    <3>1. x.results[i].ok = ok /\ x.results[i].id = Head(request[r].todo)
      BY <1>1, <2>2
    <3> QED  BY <1>1, <1>3, <3>1 DEF Slot
  <2> QED  BY <1>1, <2>1, <2>2, SMTT(30)
<1> HIDE DEF n
<1>4. Served(request[r])'
  BY <1>1, <1>2, <1>3 DEF Served
<1> QED  BY <1>1, <1>2, <1>4, ServedKept

LEMMA AnswerKeeps ==
  ASSUME IInv, NEW r \in Requests, Answer(r)
  PROVE  IInv'
<1> DEFINE ok == IF request[r].found = request[r].context THEN "yes" ELSE "no"
<1>1. /\ request[r].locked = "yes" /\ request[r].found # Nothing /\ Answered(r, ok) /\ ok \in {"yes", "no"}
      /\ UNCHANGED <<queue, fate, here, awaiting, record, applied>>
  BY DEF Answer
<1> HIDE DEF ok
<1>2. Lasting
  BY <1>1 DEF Lasting
<1>3. Slot(r) \in Slots
  BY <1>1, AnsweredFacts
<1>4. applied'[Slot(r)] = 1
  BY <1>1, <1>3 DEF IInv, Locked, AppliedAtMostOnce
<1>5. /\ request' \in [Requests -> RequestRow] /\ request'[r].locked = "no"
      /\ \A q \in Requests \ {r} : request'[q] = request[q]
      /\ \A q \in Requests : Served(request[q])'
  BY <1>1, <1>2, <1>4, AnsweredServed
<1>6. Locked'
  BY <1>1, <1>5, LockedKept
<1> QED  BY <1>1, <1>2, <1>5, <1>6, NothingLostKept DEF IInv, TypeInv, AppliedAtMostOnce

LEMMA ExecuteKeeps ==
  ASSUME IInv, NEW r \in Requests, Execute(r)
  PROVE  IInv'
<1> DEFINE s == Slot(r)
<1>1. /\ request[r].locked = "yes" /\ request[r].found = Nothing
      /\ UNCHANGED <<queue, fate, here, awaiting>>
      /\ \/ /\ applied' = [applied EXCEPT ![s] = applied[s] + 1]
            /\ record' = [record EXCEPT ![s] = request[r].context]
            /\ Answered(r, "yes")
         \/ Answered(r, "no") /\ UNCHANGED <<applied, record>>
  BY DEF Execute
<1>2. s \in Slots
  BY <1>1, AnsweredFacts
<1>3. record[s] = Nothing /\ applied[s] = 0
  BY <1>1, <1>2 DEF IInv, Locked, AppliedAtMostOnce
<1>4. CASE Answered(r, "no") /\ UNCHANGED <<applied, record>>
  <2>1. Lasting
    BY <1>4 DEF Lasting
  <2>2. /\ request' \in [Requests -> RequestRow] /\ request'[r].locked = "no"
        /\ \A q \in Requests \ {r} : request'[q] = request[q]
        /\ \A q \in Requests : Served(request[q])'
    BY <1>1, <1>4, <2>1, AnsweredServed
  <2>3. Locked'
    BY <1>4, <2>2, LockedKept
  <2> QED  BY <1>1, <1>4, <2>1, <2>2, <2>3, NothingLostKept DEF IInv, TypeInv, AppliedAtMostOnce
<1>5. CASE /\ applied' = [applied EXCEPT ![s] = applied[s] + 1]
           /\ record' = [record EXCEPT ![s] = request[r].context]
           /\ Answered(r, "yes")
  <2>1. request[r].context \in Contexts /\ request[r].context # Nothing
    BY <1>1, RowTyped, ReplayAssumption DEF Served, ReplayAssumption
  <2>2. /\ applied' \in [Slots -> Nat] /\ applied'[s] = 1
        /\ record' \in [Slots -> Contexts \cup {Nothing}] /\ record'[s] # Nothing
        /\ \A t \in Slots \ {s} : applied'[t] = applied[t] /\ record'[t] = record[t]
    BY <1>2, <1>3, <1>5, <2>1 DEF IInv, TypeInv
  <2>3. Lasting
    BY <2>2 DEF Lasting
  <2>4. /\ request' \in [Requests -> RequestRow] /\ request'[r].locked = "no"
        /\ \A q \in Requests \ {r} : request'[q] = request[q]
        /\ \A q \in Requests : Served(request[q])'
    BY <1>1, <1>5, <2>2, <2>3, AnsweredServed
  <2>5. \A q \in Requests : request'[q].locked = "yes" =>
          q # r /\ request'[q] = request[q] /\ Slot(q) \in Slots /\ Slot(q) # s
    <3>1. ASSUME NEW q \in Requests, request[q].locked = "yes" PROVE Slot(q) \in Slots
      <4>1. request[q].todo # <<>> /\ request[q].todo \in Seq(Commands) /\ request[q].world \in Worlds
        BY <3>1, RowTyped DEF Served, RequestRow
      <4> QED  BY <4>1, HeadTailProperties DEF Slot, Slots
    <3> QED  BY <1>1, <2>4, <3>1 DEF IInv, Locked
  <2>6. Locked'
    <3>1. ASSUME NEW q \in Requests, request'[q].locked = "yes"
          PROVE  request[q].locked = "yes" /\ Slot(q)' = Slot(q) /\ request'[q].found = record'[Slot(q)']
      <4>1. request'[q] = request[q] /\ Slot(q) \in Slots \ {s}
        BY <2>5, <3>1
      <4>2. Slot(q)' = Slot(q)
        BY <4>1 DEF Slot
      <4>3. request[q].found = record[Slot(q)]
        BY <3>1, <4>1 DEF IInv, Locked
      <4> QED  BY <2>2, <3>1, <4>1, <4>2, <4>3
    <3> QED  BY <3>1 DEF IInv, Locked
  <2>7. AppliedAtMostOnce'
    BY <2>2 DEF IInv, AppliedAtMostOnce
  <2> QED  BY <1>1, <2>2, <2>3, <2>4, <2>6, <2>7, NothingLostKept DEF IInv, TypeInv
<1> QED  BY <1>1, <1>4, <1>5

-----------------------------------------------------------------------------
(* The theorems.                                                            *)

LEMMA InitHolds == Init => IInv
<1> SUFFICES ASSUME Init PROVE IInv
  OBVIOUS
<1>1. TypeInv
  BY NoRequestTyped, EmptySeq DEF Init, TypeInv, Fates
<1>2. \A r \in Requests : Served(request[r])
  BY NoRequestTyped DEF Init
<1>3. Locked /\ AppliedAtMostOnce
  BY NoRequestTyped DEF Init, Locked, AppliedAtMostOnce
<1>4. NothingLost
  BY DEF Init, NothingLost
<1> QED  BY <1>1, <1>2, <1>3, <1>4 DEF IInv

LEMMA StepKeeps ==
  ASSUME IInv, [Next]_vars
  PROVE  IInv'
<1>1. ASSUME NEW k \in Commands, Add(k) \/ Remove(k) \/ \E new \in Commands : Replace(k, new)
      PROVE  IInv'
  BY <1>1, AddKeeps, RemoveKeeps, ReplaceKeeps
<1>2. ASSUME NEW r \in Requests, Replay(r) \/ Receive(r) \/ Die(r)
      PROVE  IInv'
  BY <1>2, ReplayKeeps, ReceiveKeeps, AbortKeeps DEF Die
<1>3. ASSUME NEW r \in Requests, Serve(r)
      PROVE  IInv'
  BY <1>3, EnterKeeps, AnswerKeeps, ExecuteKeeps, AbortKeeps, DiscardKeeps DEF Serve, Raise
<1> QED  BY <1>1, <1>2, <1>3, BreakKeeps DEF Next

\* Which commands raise is settled from the start.
LEMMA RaisingStays == [Next]_vars => raising' = raising
<1>1. ASSUME NEW k \in Commands, Add(k) \/ Remove(k) \/ \E new \in Commands : Replace(k, new)
      PROVE  raising' = raising
  BY <1>1 DEF Add, Remove, Replace
<1>2. ASSUME NEW r \in Requests, Replay(r) \/ Receive(r) \/ Serve(r) \/ Die(r)
      PROVE  raising' = raising
  BY <1>2 DEF Replay, Receive, Serve, Enter, Answer, Execute, Raise, Discard, Die, Abort
<1> QED  BY <1>1, <1>2 DEF Next, Change, Break, vars

\* What the fairness adds is not needed.
Safety == Init /\ [][Next]_vars

LEMMA Invariance == Spec => [](IInv /\ raising \in SUBSET Commands)
<1> DEFINE Settled == raising \in SUBSET Commands
<1>1. Safety => []IInv
  BY InitHolds, StepKeeps, PTL DEF Safety
<1>2. Init => Settled
  BY DEF Init
<1>3. Settled /\ [Next]_vars => Settled'
  BY RaisingStays
<1>4. Safety => []Settled
  BY <1>2, <1>3, PTL DEF Safety
<1> QED  BY <1>1, <1>4, PTL DEF Spec, Safety

\* The queue, the fates, the requests and the records have their types.
THEOREM ReplayTyped == Spec => []TypeOK
<1>1. IInv /\ raising \in SUBSET Commands => TypeOK
  <2> SUFFICES ASSUME IInv, raising \in SUBSET Commands PROVE TypeOK
    OBVIOUS
  <2>1. \A i \in DOMAIN queue : queue[i].id \in Commands /\ queue[i].error \in {"no", "yes"}
    <3>1. queue \in Seq(QueueEntry) /\ DOMAIN queue = 1 .. Len(queue)
      BY DEF IInv, TypeInv
    <3>2. \A i \in DOMAIN queue : queue[i] \in QueueEntry
      BY <3>1, ElementOfSeq
    <3> QED  BY <3>2 DEF QueueEntry
  <2>2. ASSUME NEW r \in Requests PROVE Range(request[r].todo) \subseteq Commands
    <3>1. request[r].todo \in Seq(Commands)
      BY RowTyped DEF RequestRow
    <3>2. \A i \in DOMAIN request[r].todo : request[r].todo[i] \in Commands
      BY <3>1, ElementOfSeq
    <3> QED  BY <3>2 DEF Range
  <2> QED  BY <2>1, <2>2 DEF IInv, TypeInv, TypeOK, Fates
<1> QED  BY <1>1, Invariance, PTL

\* A command takes effect at most once in a World, and is then on record.
THEOREM AppliedOnce == Spec => []AppliedAtMostOnce
<1>1. IInv => AppliedAtMostOnce
  BY DEF IInv
<1> QED  BY <1>1, Invariance, PTL

\* A command is on the queue, was taken off by its user, or has taken effect.
THEOREM NoCommandLost == Spec => []NothingLost
<1>1. IInv => NothingLost
  BY DEF IInv
<1> QED  BY <1>1, Invariance, PTL
=============================================================================
