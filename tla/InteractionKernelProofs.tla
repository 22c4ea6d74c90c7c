----------------------- MODULE InteractionKernelProofs -----------------------
(***************************************************************************)
(* The control plane and the boundary of the interaction kernel keep their *)
(* invariants, for all sets of Worlds, users, keys and decisions.          *)
(***************************************************************************)
EXTENDS InteractionKernel, TLAPS

-----------------------------------------------------------------------------
(* The inductive invariant.                                                 *)

\* A request has a user and a World, which exists once the guard let it pass.
Scoped ==
  \A q \in Requests : requests[q].phase # "idle" =>
    /\ requests[q].user \in Users /\ requests[q].world \in Worlds
    /\ requests[q].phase # "founding" => Exists(requests[q].world) /\ requests[q].release \in Numbers
    /\ requests[q].phase = "founding" => requests[q].world = Main

\* What is not written is empty, and nothing is written of a World that is not there.
Unwritten ==
  \A w \in Worlds, n \in Numbers :
    /\ releases[w][n].status = "none" => releases[w][n] = NoRelease
    /\ ~Exists(w) => releases[w][n] = NoRelease

\* The lock of the releases of a World: one request at a time, which has seen them as
\* they are.
Numbering ==
  \A q \in Requests :
    LET w == requests[q].world IN
    /\ requests[q].phase \in {"numbering", "promoting"} =>
         /\ requests[q].number \in Numbers
         /\ \A r \in Requests \ {q} :
              requests[r].phase \in {"numbering", "promoting"} => requests[r].world # w
    /\ requests[q].phase = "numbering" => 1 .. requests[q].number - 1 \subseteq Written(w)
    /\ requests[q].phase = "promoting" =>
         requests[q].number \in Written(w) /\ requests[q].seen = Current(w)

\* An admission has no record yet, and the version and the route it chose are there.
Fits(q) ==
  LET w == requests[q].world
      a == admissions[q] IN
  /\ a.decision \in Decisions /\ a.envelope \in Envelopes
  /\ receipts[w][a.key] = Nothing
  /\ a.version \in 1 .. Len(versions[w])
  /\ versions[w][a.version].release = requests[q].release
  /\ releases[w][requests[q].release].config = "routed"

\* The locks of the key and of the external reference.
Apart(q, r) ==
  requests[r].world = requests[q].world =>
    /\ admissions[r].key # admissions[q].key
    /\ admissions[r].refers = "yes" /\ admissions[q].refers = "yes" =>
         admissions[r].decision # admissions[q].decision

Alone(q) == \A r \in Requests \ {q} : admissions[r].key # Nothing => Apart(q, r)

\* What an admission has found is there, and nothing else.
Informed(q) ==
  IF admissions[q].refers = "no" THEN admissions[q].found = Nothing
  ELSE Referred(requests[q].world, admissions[q].decision) =
         (IF admissions[q].found = Nothing THEN {} ELSE {admissions[q].found})

\* What an admission has read still holds.
AdmittingOf(q) == Fits(q) /\ Alone(q) /\ Informed(q)

Admitting ==
  \A q \in Requests :
    /\ admissions[q].key # Nothing => AdmittingOf(q)
    /\ admissions[q].refers = "yes" => admissions[q].key # Nothing

\* A signal was admitted with the receipt of its key.
Receipted ==
  \A w \in Worlds, k \in Keys : signals[w][k] # Nothing => receipts[w][k] # Nothing

WorldsInv == WorldsTypeOK /\ Scoped /\ Unwritten /\ Numbering /\ ReleaseLine

IInv == TypeOK /\ WorldsInv /\ Admitting /\ Receipted /\ OneGeneration /\ ActsOnce

-----------------------------------------------------------------------------
(* The control plane.                                                       *)

Locking == {"numbering", "promoting"}

LEMMA WorldsFacts ==
  /\ Main \in Worlds /\ Nothing \notin Worlds \cup Users
  /\ MaxReleases \in Nat \ {0} /\ MaxRequests \in Nat
  /\ 1 \in Numbers /\ Numbers \subseteq 0 .. MaxReleases /\ 0 \in 0 .. MaxReleases
  /\ \A n \in Numbers : n \in Nat /\ n # 0
BY WorldsAssumption DEF WorldsAssumption, Numbers

LEMMA IdleIsRequest == Idle \in Request
BY WorldsFacts DEF Idle, Request, Phases

\* A request moves on or ends without the lock of the releases, and nothing of the
\* Worlds but memberships changes.
LEMMA CalmStep ==
  ASSUME WorldsInv, NEW q \in Requests, NEW r \in Request,
         world' = world, releases' = releases,
         members' \in [Worlds -> [Users -> Roles \cup {"none"}]], made' \in 0 .. MaxRequests,
         requests' = [requests EXCEPT ![q] = r],
         r.phase \notin Locking,
         r.phase # "idle" =>
           /\ r.user \in Users /\ r.world \in Worlds
           /\ r.phase # "founding" => Exists(r.world) /\ r.release \in Numbers
           /\ r.phase = "founding" => r.world = Main
  PROVE  WorldsInv'
<1>1. /\ requests \in [Requests -> Request] /\ requests'[q] = r
      /\ \A p \in Requests \ {q} : requests'[p] = requests[p]
  BY DEF WorldsInv, WorldsTypeOK
<1>2. WorldsTypeOK'
  BY DEF WorldsInv, WorldsTypeOK, Exists
<1>3. Scoped'
  BY <1>1 DEF WorldsInv, Scoped, Exists
<1>4. Unwritten'
  BY DEF WorldsInv, Unwritten, Exists
<1>5. Numbering'
  BY <1>1 DEF WorldsInv, Numbering, Written, Current, Locking
<1>6. ReleaseLine'
  BY <1>1 DEF WorldsInv, ReleaseLine, Written, Current, Exists, Locking
<1> QED  BY <1>2, <1>3, <1>4, <1>5, <1>6 DEF WorldsInv

LEMMA LeaveWorlds == ASSUME WorldsInv, NEW q \in Requests, Leave(q) PROVE WorldsInv'
BY CalmStep, IdleIsRequest DEF Leave, End, Idle, Locking, WorldsInv, WorldsTypeOK

LEMMA ArriveWorlds ==
  ASSUME WorldsInv, NEW q \in Requests, NEW u \in Users, NEW w \in Worlds, Arrive(q, u, w)
  PROVE  WorldsInv'
<1> DEFINE r == [Idle EXCEPT !.phase = "scoped", !.user = u, !.world = w,
                             !.release = world[w].current]
<1>1. Exists(w) /\ world[w].current \in Numbers
  BY DEF Arrive, Resolves, Exists, WorldsInv, WorldsTypeOK
<1>2. r \in Request /\ r.phase = "scoped" /\ r.user = u /\ r.world = w
      /\ r.release = world[w].current
  BY <1>1, WorldsFacts, IdleIsRequest DEF Idle, Request, Phases
<1>3. made' \in 0 .. MaxRequests
  BY WorldsFacts DEF Arrive, WorldsInv, WorldsTypeOK
<1> QED  BY <1>1, <1>2, <1>3, CalmStep DEF Arrive, Locking, WorldsInv, WorldsTypeOK

LEMMA ArriveFirstWorlds ==
  ASSUME WorldsInv, NEW q \in Requests, NEW u \in Users, ArriveFirst(q, u)
  PROVE  WorldsInv'
<1> DEFINE r == [Idle EXCEPT !.phase = "founding", !.user = u, !.world = Main]
<1>1. r \in Request /\ r.phase = "founding" /\ r.user = u /\ r.world = Main
  BY WorldsFacts, IdleIsRequest DEF Idle, Request, Phases
<1>2. made' \in 0 .. MaxRequests
  BY WorldsFacts DEF ArriveFirst, WorldsInv, WorldsTypeOK
<1> QED  BY <1>1, <1>2, CalmStep, WorldsFacts DEF ArriveFirst, Locking, WorldsInv, WorldsTypeOK

LEMMA ManageWorlds ==
  ASSUME WorldsInv, NEW q \in Requests, NEW w \in Worlds, Manage(q, w)
  PROVE  WorldsInv'
<1> DEFINE r == [requests[q] EXCEPT !.phase = "managing", !.world = w]
<1>1. Exists(w)
  BY DEF Manage, Resolves, Exists
<1>2. requests[q] \in Request /\ requests[q].user \in Users /\ requests[q].release \in Numbers
  BY DEF Manage, WorldsInv, WorldsTypeOK, Scoped
<1>3. /\ r \in Request /\ r.phase = "managing" /\ r.user = requests[q].user /\ r.world = w
      /\ r.release = requests[q].release
  BY <1>2 DEF Request, Phases
<1>4. requests' = [requests EXCEPT ![q] = r]
  BY DEF Manage, WorldsInv, WorldsTypeOK
<1>5. /\ world' = world /\ releases' = releases /\ made' \in 0 .. MaxRequests
      /\ members' \in [Worlds -> [Users -> Roles \cup {"none"}]]
  BY DEF Manage, WorldsInv, WorldsTypeOK
<1> HIDE DEF r
<1> QED  BY <1>1, <1>2, <1>3, <1>4, <1>5, CalmStep DEF Locking

LEMMA SetMembershipWorlds ==
  ASSUME WorldsInv, NEW q \in Requests, NEW u \in Users, NEW role \in Roles \cup {"none"},
         SetMembership(q, u, role)
  PROVE  WorldsInv'
<1>1. members' \in [Worlds -> [Users -> Roles \cup {"none"}]]
  BY DEF SetMembership, WorldsInv, WorldsTypeOK
<1> QED
  BY <1>1, CalmStep, IdleIsRequest DEF SetMembership, End, Idle, Locking, WorldsInv, WorldsTypeOK

\* A request that takes the lock of the releases.
LEMMA LockedStep ==
  ASSUME WorldsInv, NEW q \in Requests, NEW w \in Worlds, NEW r \in Request,
         requests[q].phase = "managing", requests[q].world = w, LockFree(w),
         world' = world, releases' = releases, members' = members, made' = made,
         requests' = [requests EXCEPT ![q] = r],
         r.world = w, r.user = requests[q].user, r.release = requests[q].release,
         r.phase \in Locking, r.number \in Numbers,
         r.phase = "numbering" => r.number \notin Written(w) /\ 1 .. r.number - 1 \subseteq Written(w),
         r.phase = "promoting" => r.number \in Written(w) /\ r.seen = Current(w)
  PROVE  WorldsInv'
<1>1. /\ requests \in [Requests -> Request] /\ requests'[q] = r
      /\ \A p \in Requests \ {q} : requests'[p] = requests[p]
  BY DEF WorldsInv, WorldsTypeOK
<1>2. \A v : Written(v)' = Written(v) /\ Current(v)' = Current(v) /\ Exists(v)' = Exists(v)
  BY DEF Written, Current, Exists
<1>3. requests[q].user \in Users /\ Exists(w) /\ requests[q].release \in Numbers
  BY DEF WorldsInv, Scoped
<1>4. WorldsTypeOK'
  <2>1. requests' \in [Requests -> Request]
    BY <1>1
  <2> QED  BY <1>2, <2>1 DEF WorldsInv, WorldsTypeOK
<1>5. Scoped'
  BY <1>1, <1>2, <1>3 DEF WorldsInv, Scoped, Locking
<1>6. Unwritten'
  BY <1>2 DEF WorldsInv, Unwritten
<1>7. Numbering'
  <2>1. \A p \in Requests : requests[p].phase \in Locking => requests[p].world # w
    BY DEF LockFree, Locking
  <2> QED  BY <1>1, <1>2, <2>1 DEF WorldsInv, Numbering, Locking
<1>8. ReleaseLine'
  BY <1>1, <1>2 DEF WorldsInv, ReleaseLine
<1> QED  BY <1>4, <1>5, <1>6, <1>7, <1>8 DEF WorldsInv

LEMMA NumberReadWorlds ==
  ASSUME WorldsInv, NEW q \in Requests, NEW n \in Numbers, NumberRead(q, n)
  PROVE  WorldsInv'
<1> DEFINE r == [requests[q] EXCEPT !.phase = "numbering", !.number = n]
<1>1. /\ requests \in [Requests -> Request] /\ requests[q] \in Request
      /\ requests[q].world \in Worlds /\ n \in 0 .. MaxReleases
  BY WorldsFacts DEF NumberRead, WorldsInv, WorldsTypeOK, Scoped
<1>2. /\ r \in Request /\ r.phase = "numbering" /\ r.number = n /\ r.world = requests[q].world
      /\ r.user = requests[q].user /\ r.release = requests[q].release
  BY <1>1 DEF Request, Phases
<1>3. requests' = [requests EXCEPT ![q] = r]
  BY <1>1 DEF NumberRead
<1> HIDE DEF r
<1> QED  BY <1>1, <1>2, <1>3, LockedStep DEF NumberRead, Locking

LEMMA PromoteReadWorlds ==
  ASSUME WorldsInv, NEW q \in Requests, NEW n \in Numbers, PromoteRead(q, n)
  PROVE  WorldsInv'
<1> PICK c : c = Current(requests[q].world)
  OBVIOUS
<1> DEFINE r == [requests[q] EXCEPT !.phase = "promoting", !.number = n, !.seen = c]
<1>1. /\ requests \in [Requests -> Request] /\ requests[q] \in Request
      /\ requests[q].world \in Worlds /\ n \in 0 .. MaxReleases
  BY WorldsFacts DEF PromoteRead, WorldsInv, WorldsTypeOK, Scoped
<1>2. c \in SUBSET Numbers
  BY DEF Current
<1>3. /\ r \in Request /\ r.phase = "promoting" /\ r.number = n /\ r.world = requests[q].world
      /\ r.user = requests[q].user /\ r.release = requests[q].release /\ r.seen = c
  BY <1>1, <1>2 DEF Request, Phases
<1>4. requests' = [requests EXCEPT ![q] = r]
  BY <1>1 DEF PromoteRead
<1> HIDE DEF r
<1> QED  BY <1>1, <1>3, <1>4, LockedStep DEF PromoteRead, Locking

LEMMA CreateReleaseWorlds ==
  ASSUME WorldsInv, NEW q \in Requests, NEW config \in {"empty", "routed"},
         CreateRelease(q, config)
  PROVE  WorldsInv'
<1>0. requests[q].world \in Worlds /\ requests[q].number \in Numbers
  BY DEF CreateRelease, WorldsInv, Scoped, Numbering
<1> PICK w \in Worlds, n \in Numbers : w = requests[q].world /\ n = requests[q].number
  BY <1>0
<1>1. w = requests[q].world /\ n = requests[q].number /\ Exists(w) /\ n \notin Written(w)
      /\ 1 .. n - 1 \subseteq Written(w)
  BY DEF CreateRelease, WorldsInv, Scoped, Numbering, ReleaseLine
<1>2. /\ requests \in [Requests -> Request] /\ requests'[q] = Idle
      /\ \A p \in Requests \ {q} : requests'[p] = requests[p]
  BY DEF CreateRelease, End, WorldsInv, WorldsTypeOK
<1>3. /\ releases \in [Worlds -> [Numbers -> Release]]
      /\ releases'[w][n] = [status |-> "ready", config |-> config]
      /\ \A v \in Worlds, m \in Numbers :
           v # w \/ m # n => releases'[v][m] = releases[v][m]
  BY <1>1 DEF CreateRelease, WorldsInv, WorldsTypeOK
<1>4. releases'[w][n].status = "ready"
  BY <1>3
<1>5. /\ Written(w)' = Written(w) \cup {n} /\ Current(w)' = Current(w)
      /\ \A v \in Worlds \ {w} : Written(v)' = Written(v) /\ Current(v)' = Current(v)
  <2>1. n \notin Current(w)
    BY <1>1 DEF Written, Current
  <2>2. \A v \in Worlds \ {w} : Written(v)' = Written(v) /\ Current(v)' = Current(v)
    BY <1>3 DEF Written, Current
  <2>3. Written(w)' = Written(w) \cup {n}
    BY <1>3, <1>4 DEF Written
  <2>4. Current(w)' = Current(w)
    BY <1>3, <1>4, <2>1 DEF Current
  <2> QED  BY <2>2, <2>3, <2>4
<1>6. WorldsTypeOK'
  <2>1. [status |-> "ready", config |-> config] \in Release
    BY DEF Release
  <2>2. releases' \in [Worlds -> [Numbers -> Release]]
    BY <1>1, <1>3, <2>1 DEF CreateRelease
  <2> QED  BY <2>2, <1>2, IdleIsRequest DEF CreateRelease, End, WorldsInv, WorldsTypeOK, Exists
<1>7. Scoped'
  BY <1>2 DEF CreateRelease, WorldsInv, Scoped, Exists, Idle
<1>8. Unwritten'
  BY <1>1, <1>3, <1>4 DEF CreateRelease, WorldsInv, Unwritten, Exists
<1>9. Numbering'
  <2>1. \A p \in Requests \ {q} : requests[p].phase \in Locking => requests[p].world # w
    BY DEF CreateRelease, WorldsInv, Numbering, Locking
  <2>2. \A p \in Requests : requests[p].phase \in Locking => requests[p].world \in Worlds
    BY DEF WorldsInv, Scoped, Locking
  <2> QED  BY <1>2, <1>5, <2>1, <2>2 DEF WorldsInv, Numbering, Locking, Idle
<1>10. ReleaseLine'
  <2>1. \A v \in Worlds : Exists(v)' => Exists(v) /\ Current(v)' = {world'[v].current}
    BY <1>5 DEF CreateRelease, WorldsInv, ReleaseLine, Exists
  <2>2. \A v \in Worlds : Exists(v)' => \A m \in Written(v)' : 1 .. m \subseteq Written(v)'
    <3> SUFFICES ASSUME NEW v \in Worlds, Exists(v), NEW m \in Written(v)'
                 PROVE  1 .. m \subseteq Written(v)'
      BY <2>1
    <3>1. CASE m = n /\ v = w
      <4>1. 1 .. n = (1 .. n - 1) \cup {n}
        BY <1>1, WorldsFacts
      <4> QED  BY <3>1, <4>1, <1>1, <1>5
    <3>2. CASE m \in Written(v)
      BY <3>2, <1>5 DEF WorldsInv, ReleaseLine
    <3> QED  BY <3>1, <3>2, <1>5
  <2>3. (\A p \in Requests : requests[p].phase = "numbering" =>
           requests[p].number \notin Written(requests[p].world))'
    <3>1. \A p \in Requests \ {q} : requests[p].phase = "numbering" =>
             requests[p].world # w /\ requests[p].world \in Worlds
      BY DEF CreateRelease, WorldsInv, Numbering, Scoped
    <3> QED  BY <3>1, <1>2, <1>5 DEF WorldsInv, ReleaseLine, Idle
  <2> QED  BY <2>1, <2>2, <2>3 DEF ReleaseLine
<1> QED  BY <1>6, <1>7, <1>8, <1>9, <1>10 DEF WorldsInv

LEMMA PromoteWriteWorlds ==
  ASSUME WorldsInv, NEW q \in Requests, PromoteWrite(q)
  PROVE  WorldsInv'
<1>0. requests[q].world \in Worlds /\ requests[q].number \in Numbers
  BY DEF PromoteWrite, WorldsInv, Scoped, Numbering
<1> PICK w \in Worlds, n \in Numbers : w = requests[q].world /\ n = requests[q].number
  BY <1>0
<1>1. w = requests[q].world /\ n = requests[q].number /\ Exists(w) /\ n \in Written(w)
      /\ requests[q].seen = Current(w)
  BY DEF PromoteWrite, WorldsInv, Scoped, Numbering
<1>2. /\ requests \in [Requests -> Request] /\ requests'[q] = Idle
      /\ \A p \in Requests \ {q} : requests'[p] = requests[p]
  BY DEF PromoteWrite, End, WorldsInv, WorldsTypeOK
<1>3. /\ releases \in [Worlds -> [Numbers -> Release]]
      /\ \A m \in Numbers : releases'[w][m] = Promoted(q, m, releases[w][m])
      /\ \A v \in Worlds \ {w} : releases'[v] = releases[v]
  BY <1>1 DEF PromoteWrite, WorldsInv, WorldsTypeOK
<1>4. \A m \in Numbers :
        /\ releases'[w][m] \in Release
        /\ releases'[w][m].status = (IF m = n THEN "current"
                                     ELSE IF m \in Current(w) THEN "ready"
                                     ELSE releases[w][m].status)
        /\ m # n /\ m \notin Current(w) => releases'[w][m] = releases[w][m]
  <2> SUFFICES ASSUME NEW m \in Numbers
               PROVE  /\ Promoted(q, m, releases[w][m]) \in Release
                      /\ Promoted(q, m, releases[w][m]).status =
                           (IF m = n THEN "current" ELSE IF m \in Current(w) THEN "ready"
                            ELSE releases[w][m].status)
                      /\ m # n /\ m \notin Current(w) =>
                           Promoted(q, m, releases[w][m]) = releases[w][m]
    BY <1>3
  <2>1. releases[w][m] \in Release
    BY <1>3
  <2>2. \A to \in {"current", "ready"} : /\ [releases[w][m] EXCEPT !.status = to] \in Release
                                        /\ [releases[w][m] EXCEPT !.status = to].status = to
    BY <2>1 DEF Release
  <2> QED  BY <1>1, <2>1, <2>2 DEF Promoted
<1>5. /\ Written(w)' = Written(w) /\ Current(w)' = {n}
      /\ \A v \in Worlds \ {w} : Written(v)' = Written(v) /\ Current(v)' = Current(v)
  BY <1>1, <1>3, <1>4 DEF Written, Current
<1>6. /\ world'[w].current = n /\ world'[w].status = world[w].status
      /\ world'[w].visibility = world[w].visibility /\ world'[w] \in World
      /\ \A v \in Worlds \ {w} : world'[v] = world[v]
      /\ world' \in [Worlds -> World]
  <2>1. world \in [Worlds -> World]
    BY DEF WorldsInv, WorldsTypeOK
  <2>2. [world[w] EXCEPT !.current = n] \in World
    BY <1>1, <2>1, WorldsFacts DEF World
  <2> QED  BY <1>1, <2>1, <2>2 DEF PromoteWrite, World
<1>7. WorldsTypeOK'
  <2>1. releases' \in [Worlds -> [Numbers -> Release]]
    BY <1>1, <1>3, <1>4 DEF PromoteWrite
  <2>2. \A v \in Worlds : Exists(v)' => world'[v].current \in Numbers
    BY <1>1, <1>6 DEF WorldsInv, WorldsTypeOK, Exists
  <2> QED  BY <1>2, <1>6, <2>1, <2>2, IdleIsRequest DEF PromoteWrite, End, WorldsInv, WorldsTypeOK
<1>8. \A v \in Worlds : Exists(v)' <=> Exists(v)
  BY <1>6 DEF Exists
<1>9. Scoped'
  BY <1>2, <1>8 DEF WorldsInv, Scoped, Idle
<1>10. Unwritten'
  <2>1. \A m \in Numbers : releases'[w][m].status = "none" =>
           releases'[w][m] = releases[w][m]
    BY <1>4, <1>1 DEF Current
  <2> QED  BY <1>1, <1>3, <1>8, <2>1 DEF WorldsInv, Unwritten
<1>11. Numbering'
  <2>1. \A p \in Requests \ {q} : requests[p].phase \in Locking => requests[p].world # w
    BY DEF PromoteWrite, WorldsInv, Numbering, Locking
  <2>2. \A p \in Requests : requests[p].phase \in Locking => requests[p].world \in Worlds
    BY DEF WorldsInv, Scoped, Locking
  <2> QED  BY <1>2, <1>5, <2>1, <2>2 DEF WorldsInv, Numbering, Locking, Idle
<1>12. ReleaseLine'
  <2>1. \A p \in Requests : requests[p].phase = "numbering" => requests[p].world \in Worlds
    BY DEF WorldsInv, Scoped
  <2> QED  BY <1>1, <1>2, <1>5, <1>6, <1>8, <2>1 DEF WorldsInv, ReleaseLine, Idle
<1> QED  BY <1>7, <1>9, <1>10, <1>11, <1>12 DEF WorldsInv

\* A World is created by a request that moves on or ends.
LEMMA FoundedStep ==
  ASSUME WorldsInv, NEW q \in Requests, NEW r \in Request, NEW w \in Worlds, NEW u \in Users,
         NEW visibility \in {"organization", "private"},
         ~Exists(w), Founded(w, u, visibility), made' = made,
         requests' = [requests EXCEPT ![q] = r],
         r.phase \notin Locking,
         r.phase # "idle" => /\ r.phase # "founding" /\ r.user \in Users /\ r.world = w
                             /\ r.release \in Numbers
  PROVE  WorldsInv'
<1>1. /\ requests \in [Requests -> Request] /\ requests'[q] = r
      /\ \A p \in Requests \ {q} : requests'[p] = requests[p]
  BY DEF WorldsInv, WorldsTypeOK
<1>2. /\ world \in [Worlds -> World] /\ releases \in [Worlds -> [Numbers -> Release]]
      /\ members \in [Worlds -> [Users -> Roles \cup {"none"}]]
  BY DEF WorldsInv, WorldsTypeOK
<1>3. [NoRelease EXCEPT !.status = "current"] = [status |-> "current", config |-> "empty"]
  BY DEF NoRelease
<1>4. /\ releases'[w][1] = [status |-> "current", config |-> "empty"]
      /\ \A m \in Numbers \ {1} : releases'[w][m] = releases[w][m]
      /\ \A v \in Worlds \ {w} : releases'[v] = releases[v]
      /\ releases' \in [Worlds -> [Numbers -> Release]]
  <2>1. [status |-> "current", config |-> "empty"] \in Release
    BY DEF Release
  <2> QED  BY <1>2, <1>3, <2>1, WorldsFacts DEF Founded
<1>5. /\ world'[w] = [status |-> "active", visibility |-> visibility, current |-> 1]
      /\ \A v \in Worlds \ {w} : world'[v] = world[v]
      /\ world' \in [Worlds -> World]
  <2>1. [status |-> "active", visibility |-> visibility, current |-> 1] \in World
    BY WorldsFacts DEF World
  <2> QED  BY <1>2, <2>1 DEF Founded
<1>6. members' \in [Worlds -> [Users -> Roles \cup {"none"}]]
  BY <1>2 DEF Founded, Roles
<1>7. Exists(w)' /\ \A v \in Worlds \ {w} : Exists(v)' <=> Exists(v)
  BY <1>5 DEF Exists
<1>8. /\ Written(w)' = {1} /\ Current(w)' = {1}
      /\ \A v \in Worlds \ {w} : Written(v)' = Written(v) /\ Current(v)' = Current(v)
  <2>1. \A m \in Numbers \ {1} : releases'[w][m].status = "none"
    BY <1>4 DEF WorldsInv, Unwritten, NoRelease
  <2>2. releases'[w][1].status = "current"
    BY <1>4
  <2>3. Written(w)' = {1} /\ Current(w)' = {1}
    BY <2>1, <2>2, WorldsFacts DEF Written, Current
  <2>4. \A v \in Worlds \ {w} : Written(v)' = Written(v) /\ Current(v)' = Current(v)
    BY <1>4 DEF Written, Current
  <2> QED  BY <2>3, <2>4
<1>9. WorldsTypeOK'
  <2>1. requests' \in [Requests -> Request]
    BY <1>1
  <2>2. \A v \in Worlds : Exists(v)' => world'[v].current \in Numbers
    BY <1>5, <1>7, WorldsFacts DEF WorldsInv, WorldsTypeOK
  <2>3. made' \in 0 .. MaxRequests
    BY DEF WorldsInv, WorldsTypeOK
  <2> QED  BY <1>4, <1>5, <1>6, <2>1, <2>2, <2>3 DEF WorldsTypeOK
<1>10. Scoped'
  BY <1>1, <1>7 DEF WorldsInv, Scoped
<1>11. Unwritten'
  <2>1. \A m \in Numbers : releases'[w][m].status = "none" => releases'[w][m] = NoRelease
    BY <1>4, WorldsFacts DEF WorldsInv, Unwritten
  <2> QED  BY <1>4, <1>7, <2>1 DEF WorldsInv, Unwritten
<1>12. \A p \in Requests : requests[p].phase \in Locking =>
          requests[p].world \in Worlds \ {w}
  BY DEF WorldsInv, Scoped, Locking
<1>13. Numbering'
  BY <1>1, <1>8, <1>12 DEF WorldsInv, Numbering, Locking
<1>14. ReleaseLine'
  <2>1. 1 .. 1 = {1}
    OBVIOUS
  <2> QED  BY <1>1, <1>5, <1>7, <1>8, <1>12, <2>1 DEF WorldsInv, ReleaseLine, Locking
<1> QED  BY <1>9, <1>10, <1>11, <1>13, <1>14 DEF WorldsInv

LEMMA FoundMainWorlds ==
  ASSUME WorldsInv, NEW q \in Requests, FoundMain(q)
  PROVE  WorldsInv'
<1>1. /\ requests[q] \in Request /\ requests[q].user \in Users /\ requests[q].world = Main
      /\ Main \in Worlds
  BY WorldsFacts DEF FoundMain, WorldsInv, WorldsTypeOK, Scoped
<1>2. world'[Main].current \in Numbers
  <2>1. CASE Exists(Main)
    BY <1>1, <2>1 DEF FoundMain, WorldsInv, WorldsTypeOK
  <2>2. CASE ~Exists(Main)
    BY <1>1, <2>2, WorldsFacts DEF FoundMain, Founded, WorldsInv, WorldsTypeOK
  <2> QED  BY <2>1, <2>2
<1> DEFINE r == [requests[q] EXCEPT !.phase = "scoped", !.release = world'[Main].current]
<1>3. /\ r \in Request /\ r.phase = "scoped" /\ r.user \in Users /\ r.world = Main
      /\ r.release \in Numbers
  BY <1>1, <1>2, WorldsFacts DEF Request, Phases
<1>4. requests' = [requests EXCEPT ![q] = r]
  BY DEF FoundMain, WorldsInv, WorldsTypeOK
<1>5. made' = made /\ made \in 0 .. MaxRequests
      /\ members \in [Worlds -> [Users -> Roles \cup {"none"}]]
  BY DEF FoundMain, WorldsInv, WorldsTypeOK
<1> HIDE DEF r
<1>6. CASE Exists(Main)
  <2>1. world' = world /\ releases' = releases /\ members' = members
    BY <1>6 DEF FoundMain
  <2> QED  BY <1>1, <1>3, <1>4, <1>5, <1>6, <2>1, CalmStep DEF Locking
<1>7. CASE ~Exists(Main)
  <2>1. Founded(Main, requests[q].user, "organization")
    BY <1>7 DEF FoundMain
  <2> QED  BY <1>1, <1>3, <1>4, <1>5, <1>7, <2>1, FoundedStep DEF Locking
<1> QED  BY <1>6, <1>7

LEMMA CreateWorldWorlds ==
  ASSUME WorldsInv, NEW q \in Requests, NEW w \in Worlds,
         NEW visibility \in {"organization", "private"}, CreateWorld(q, w, visibility)
  PROVE  WorldsInv'
<1>1. requests[q].user \in Users
  BY DEF CreateWorld, WorldsInv, Scoped
<1> QED  BY <1>1, FoundedStep, IdleIsRequest DEF CreateWorld, End, Idle, Locking

LEMMA ArchiveWorlds ==
  ASSUME WorldsInv, NEW q \in Requests, Archive(q)
  PROVE  WorldsInv'
<1>0. requests[q].world \in Worlds
  BY DEF Archive, WorldsInv, Scoped
<1> PICK w \in Worlds : w = requests[q].world
  BY <1>0
<1>1. /\ requests \in [Requests -> Request] /\ requests'[q] = Idle
      /\ \A p \in Requests \ {q} : requests'[p] = requests[p]
  BY DEF Archive, End, WorldsInv, WorldsTypeOK
<1>2. /\ world' = [world EXCEPT ![w].status = "archived"] /\ world \in [Worlds -> World]
      /\ Exists(w)
  BY DEF Archive, WorldsInv, WorldsTypeOK, Scoped
<1>3. /\ world' \in [Worlds -> World]
      /\ \A v \in Worlds : world'[v].current = world[v].current
      /\ \A v \in Worlds : Exists(v)' <=> Exists(v)
  BY <1>2 DEF World, Exists
<1>4. WorldsTypeOK'
  BY <1>1, <1>3, IdleIsRequest DEF Archive, End, WorldsInv, WorldsTypeOK
<1>5. Scoped'
  BY <1>1, <1>3 DEF WorldsInv, Scoped, Idle
<1>6. Unwritten'
  BY <1>3 DEF Archive, WorldsInv, Unwritten
<1>7. Numbering'
  BY <1>1 DEF Archive, WorldsInv, Numbering, Written, Current, Idle
<1>8. ReleaseLine'
  BY <1>1, <1>3 DEF Archive, WorldsInv, ReleaseLine, Written, Current, Idle
<1> QED  BY <1>4, <1>5, <1>6, <1>7, <1>8 DEF WorldsInv

\* Every step of the guard and of the control plane.
LEMMA WorldsSteps ==
  ASSUME WorldsInv, NEW q \in Requests, Guard(q) \/ Control(q)
  PROVE  WorldsInv'
BY ArriveFirstWorlds, ArriveWorlds, FoundMainWorlds, LeaveWorlds, ManageWorlds, CreateWorldWorlds,
   NumberReadWorlds, PromoteReadWorlds, CreateReleaseWorlds, PromoteWriteWorlds,
   SetMembershipWorlds, ArchiveWorlds DEF Guard, Control

LEMMA WorldsStutter == ASSUME WorldsInv, UNCHANGED worldVars PROVE WorldsInv'
BY DEF WorldsInv, worldVars, WorldsTypeOK, Scoped, Unwritten, Numbering, ReleaseLine, Written,
       Current, Exists

\* What the boundary relies on: other requests keep their contexts, and a route that a
\* release has stays.
LEMMA WorldsKeep ==
  ASSUME WorldsInv, NEW q \in Requests, Guard(q) \/ Control(q)
  PROVE  /\ requests'[q].phase # "admitting"
         /\ \A p \in Requests \ {q} : requests'[p] = requests[p]
         /\ \A w \in Worlds, n \in Numbers :
              releases[w][n].config = "routed" => releases'[w][n].config = "routed"
<1>1. requests \in [Requests -> Request] /\ releases \in [Worlds -> [Numbers -> Release]]
  BY DEF WorldsInv, WorldsTypeOK
<1>2. requests'[q].phase # "admitting" /\ \A p \in Requests \ {q} : requests'[p] = requests[p]
  <2>1. CASE End(q)
    BY <1>1, <2>1 DEF End, Idle
  <2>2. CASE \E u \in Users : ArriveFirst(q, u) \/ \E w \in Worlds : Arrive(q, u, w)
    BY <1>1, <2>2 DEF ArriveFirst, Arrive, Idle
  <2>3. CASE FoundMain(q) \/ \E w \in Worlds : Manage(q, w)
    BY <1>1, <2>3 DEF FoundMain, Manage, Request
  <2>4. CASE \E n \in Numbers : NumberRead(q, n) \/ PromoteRead(q, n)
    BY <1>1, <2>4 DEF NumberRead, PromoteRead, Request
  <2> QED
    BY <2>1, <2>2, <2>3, <2>4 DEF Guard, Control, Leave, CreateWorld, CreateRelease, PromoteWrite,
                                  SetMembership, Archive
<1>3. ASSUME NEW w \in Worlds, NEW n \in Numbers, releases[w][n].config = "routed"
      PROVE  releases'[w][n].config = "routed"
  <2>1. ASSUME NEW v \in Worlds, NEW u \in Users, NEW visibility, Founded(v, u, visibility), ~Exists(v)
        PROVE  releases'[w][n].config = "routed"
    <3>1. v # w
      BY <1>3, <2>1 DEF WorldsInv, Unwritten, NoRelease
    <3> QED  BY <1>1, <1>3, <2>1, <3>1 DEF Founded
  <2>2. CASE \E config \in {"empty", "routed"} : CreateRelease(q, config)
    <3>1. requests[q].phase = "numbering" /\ requests[q].world \in Worlds
          /\ requests[q].number \notin Written(requests[q].world) /\ requests[q].number \in Numbers
      BY <2>2 DEF CreateRelease, WorldsInv, Scoped, Numbering, ReleaseLine
    <3>2. requests[q].world # w \/ requests[q].number # n
      BY <1>3, <3>1 DEF WorldsInv, Unwritten, Written, NoRelease
    <3> QED  BY <1>1, <1>3, <2>2, <3>1, <3>2 DEF CreateRelease
  <2>3. CASE PromoteWrite(q)
    <3>1. releases[w][n] \in Release
      BY <1>1
    <3>2. \A to \in {"current", "ready"} : [releases[w][n] EXCEPT !.status = to].config = "routed"
      BY <1>3, <3>1 DEF Release
    <3>3. releases'[w][n] \in {releases[w][n], Promoted(q, n, releases[w][n])}
      BY <1>1, <2>3 DEF PromoteWrite
    <3> QED  BY <1>3, <3>2, <3>3 DEF Promoted
  <2>4. CASE FoundMain(q)
    <3>1. requests[q].user \in Users
      BY <2>4 DEF FoundMain, WorldsInv, Scoped
    <3> QED  BY <1>3, <2>1, <2>4, <3>1, WorldsFacts DEF FoundMain
  <2>5. CASE \E v \in Worlds, visibility \in {"organization", "private"} :
               CreateWorld(q, v, visibility)
    <3>1. requests[q].user \in Users
      BY <2>5 DEF CreateWorld, WorldsInv, Scoped
    <3> QED  BY <2>1, <2>5, <3>1 DEF CreateWorld
  <2>6. CASE UNCHANGED releases
    BY <1>3, <2>6
  <2> QED
    BY <2>2, <2>3, <2>4, <2>5, <2>6 DEF Guard, Control, ArriveFirst, Arrive, Leave, Manage,
       NumberRead, PromoteRead, SetMembership, Archive
<1> QED  BY <1>2, <1>3

-----------------------------------------------------------------------------
(* The boundary.                                                            *)

KernelType ==
  /\ versions \in [Worlds -> Seq([release : Numbers, content : Contents])]
  /\ commands \in [Worlds -> [Keys -> Command \cup {Nothing}]]
  /\ receipts \in [Worlds -> [Keys -> Receipt \cup {Nothing}]]
  /\ signals \in [Worlds -> [Keys -> Signal \cup {Nothing}]]
  /\ admissions \in [Requests -> Admission]
  /\ \A q \in Requests : admissions[q].key # Nothing <=> requests[q].phase = "admitting"

LEMMA TypeOfKernel == TypeOK <=> WorldsTypeOK /\ KernelType
BY DEF TypeOK, KernelType

LEMMA NoAdmissionIsOne ==
  NoAdmission \in Admission /\ NoAdmission.key = Nothing /\ NoAdmission.refers = "no"
BY DEF NoAdmission, Admission

\* Every version of the one is, in its place, a version of the other.
Extends(line, longer) ==
  \A v \in 1 .. Len(line) : v \in 1 .. Len(longer) /\ longer[v] = line[v]

\* What an admission relies on while other requests go on.
LEMMA AdmittingKept ==
  ASSUME NEW p \in Requests, NEW w, NEW d, AdmittingOf(p),
         w = requests[p].world, d = admissions[p].decision,
         requests'[p] = requests[p], admissions'[p] = admissions[p],
         receipts'[w][admissions[p].key] = Nothing,
         Extends(versions[w], versions'[w]),
         releases'[w][requests[p].release].config = "routed",
         \A r \in Requests \ {p} : admissions'[r].key # Nothing =>
           \/ requests'[r] = requests[r] /\ admissions'[r] = admissions[r]
           \/ Apart(p, r)',
         admissions[p].refers # "no" => Referred(w, d)' = Referred(w, d)
  PROVE  AdmittingOf(p)'
<1>1. Fits(p)'
  BY DEF AdmittingOf, Fits, Extends
<1>2. Alone(p)'
  <2> SUFFICES ASSUME NEW r \in Requests \ {p}, admissions'[r].key # Nothing
               PROVE  Apart(p, r)'
    BY DEF Alone
  <2> QED  BY DEF AdmittingOf, Alone, Apart
<1>3. Informed(p)'
  <2>1. CASE admissions[p].refers = "no"
    BY <2>1 DEF AdmittingOf, Informed
  <2>2. CASE admissions[p].refers # "no"
    BY <2>2 DEF AdmittingOf, Informed
  <2> QED  BY <2>1, <2>2
<1> QED  BY <1>1, <1>2, <1>3 DEF AdmittingOf

\* Who is at the boundary, and where.
LEMMA AdmittingWhere ==
  ASSUME IInv, NEW p \in Requests, admissions[p].key # Nothing
  PROVE  /\ AdmittingOf(p)
         /\ admissions[p] \in Admission /\ admissions[p].key \in Keys
         /\ requests[p].world \in Worlds /\ requests[p].release \in Numbers
         /\ admissions[p].decision \in Decisions /\ admissions[p].envelope \in Envelopes
         /\ receipts[requests[p].world][admissions[p].key] = Nothing
         /\ releases[requests[p].world][requests[p].release].config = "routed"
<1>1. AdmittingOf(p) /\ KernelType
  BY TypeOfKernel DEF IInv, Admitting
<1>2. admissions[p] \in Admission /\ requests[p].phase = "admitting"
  BY <1>1 DEF KernelType
<1>3. requests[p].world \in Worlds /\ requests[p].release \in Numbers
  BY <1>2 DEF IInv, WorldsInv, Scoped
<1>4. admissions[p].key \in Keys
  BY <1>2 DEF Admission
<1> QED  BY <1>1, <1>2, <1>3, <1>4 DEF AdmittingOf, Fits

LEMMA ElsewhereStep ==
  ASSUME IInv, NEW q \in Requests, Elsewhere(q)
  PROVE  IInv'
<1>1. WorldsInv'
  BY WorldsSteps DEF IInv, Elsewhere
<1>2. /\ requests'[q].phase # "admitting"
      /\ \A p \in Requests \ {q} : requests'[p] = requests[p]
      /\ \A w \in Worlds, n \in Numbers :
           releases[w][n].config = "routed" => releases'[w][n].config = "routed"
  BY WorldsKeep DEF IInv, Elsewhere
<1>3. /\ versions' = versions /\ commands' = commands /\ receipts' = receipts /\ signals' = signals
      /\ admissions' = [admissions EXCEPT ![q] = NoAdmission]
  BY DEF Elsewhere
<1>4. KernelType
  BY TypeOfKernel DEF IInv
<1>5. /\ admissions' \in [Requests -> Admission] /\ admissions'[q] = NoAdmission
      /\ \A p \in Requests \ {q} : admissions'[p] = admissions[p]
  BY <1>3, <1>4, NoAdmissionIsOne DEF KernelType
<1>6. KernelType'
  BY <1>2, <1>3, <1>4, <1>5, NoAdmissionIsOne DEF KernelType
<1>7. Admitting'
  <2>1. \A p \in Requests : admissions'[p].refers = "yes" => admissions'[p].key # Nothing
    BY <1>5, NoAdmissionIsOne DEF IInv, Admitting
  <2> SUFFICES ASSUME NEW p \in Requests, admissions'[p].key # Nothing
               PROVE  AdmittingOf(p)'
    BY <2>1 DEF Admitting
  <2>2. \A r \in Requests : admissions'[r].key # Nothing =>
          requests'[r] = requests[r] /\ admissions'[r] = admissions[r]
    BY <1>2, <1>5, NoAdmissionIsOne
  <2>3. admissions[p].key # Nothing
    BY <2>2
  <2> PICK w \in Worlds, d \in Decisions : w = requests[p].world /\ d = admissions[p].decision
    BY <2>3, AdmittingWhere
  <2>4. receipts'[w][admissions[p].key] = Nothing
        /\ releases'[w][requests[p].release].config = "routed"
    BY <1>2, <1>3, <2>3, AdmittingWhere
  <2>5. Extends(versions[w], versions'[w]) /\ Referred(w, d)' = Referred(w, d)
    BY <1>3 DEF Extends, Referred
  <2> QED  BY <2>2, <2>3, <2>4, <2>5, AdmittingWhere, AdmittingKept
<1>8. Receipted'
  BY <1>3 DEF IInv, Receipted
<1>9. OneGeneration'
  <2>1. \A w \in Worlds, k \in Keys : signals[w][k] # Nothing => signals[w][k].release \in Numbers
    BY <1>4 DEF KernelType, Signal
  <2> QED  BY <1>2, <1>3, <2>1 DEF IInv, OneGeneration
<1>10. ActsOnce'
  BY <1>3 DEF IInv, ActsOnce, Referred
<1> QED  BY <1>1, <1>6, <1>7, <1>8, <1>9, <1>10 DEF IInv, WorldsInv, TypeOK, KernelType

\* Versions are only added.
LEMMA PublishedExtends ==
  ASSUME NEW line \in Seq([release : Numbers, content : Contents]), NEW n \in Numbers,
         NEW c \in Contents
  PROVE  /\ Published(line, n, c) \in Seq([release : Numbers, content : Contents])
         /\ Extends(line, Published(line, n, c))
<1> DEFINE S == [release : Numbers, content : Contents]
           x == [release |-> n, content |-> c]
<1>1. x \in S
  OBVIOUS
<1> HIDE DEF S, x
<1>2. Append(line, x) \in Seq(S) /\ Extends(line, Append(line, x))
  BY <1>1 DEF Extends, S
<1>3. Extends(line, line)
  BY DEF Extends
<1> QED  BY <1>2, <1>3 DEF Published, S, x

\* A request of the boundary ends outside the transaction of an admission.
LEMMA AnsweredStep ==
  ASSUME IInv, NEW q \in Requests, requests[q].phase = "scoped", End(q),
         UNCHANGED <<world, releases, members, made, receipts, signals, admissions>>,
         versions' \in [Worlds -> Seq([release : Numbers, content : Contents])],
         commands' \in [Worlds -> [Keys -> Command \cup {Nothing}]],
         \A w \in Worlds : Extends(versions[w], versions'[w])
  PROVE  IInv'
<1>1. WorldsInv'
  <2>1. Leave(q)
    BY DEF Leave, Idle
  <2> QED  BY <2>1, LeaveWorlds DEF IInv
<1>2. KernelType /\ requests \in [Requests -> Request]
  BY TypeOfKernel DEF IInv, TypeOK, WorldsTypeOK
<1>3. /\ admissions[q].key = Nothing /\ requests'[q].phase = "idle"
      /\ \A p \in Requests \ {q} : requests'[p] = requests[p]
  BY <1>2 DEF End, Idle, KernelType
<1>4. KernelType'
  BY <1>2, <1>3 DEF KernelType
<1>5. Admitting'
  <2>0. \A p \in Requests : admissions'[p].refers = "yes" => admissions'[p].key # Nothing
    BY DEF IInv, Admitting
  <2> SUFFICES ASSUME NEW p \in Requests, admissions'[p].key # Nothing
               PROVE  AdmittingOf(p)'
    BY <2>0 DEF Admitting
  <2>1. \A r \in Requests : admissions[r].key # Nothing => requests'[r] = requests[r]
    BY <1>3
  <2>2. admissions[p].key # Nothing
    OBVIOUS
  <2> PICK w \in Worlds, d \in Decisions : w = requests[p].world /\ d = admissions[p].decision
    BY <2>2, AdmittingWhere
  <2>3. receipts'[w][admissions[p].key] = Nothing
        /\ releases'[w][requests[p].release].config = "routed"
    BY <2>2, AdmittingWhere
  <2>4. Extends(versions[w], versions'[w]) /\ Referred(w, d)' = Referred(w, d)
    BY DEF Referred
  <2> QED  BY <2>1, <2>2, <2>3, <2>4, AdmittingWhere, AdmittingKept
<1>6. Receipted' /\ ActsOnce'
  BY DEF IInv, Receipted, ActsOnce, Referred
<1>7. OneGeneration'
  BY DEF IInv, OneGeneration, Extends
<1> QED  BY <1>1, <1>4, <1>5, <1>6, <1>7 DEF IInv, WorldsInv, TypeOK, KernelType

LEMMA PublishStep ==
  ASSUME IInv, NEW q \in Requests, NEW k \in Keys, NEW a \in Authorities,
         NEW c \in Contents, Publish(q, k, a, c)
  PROVE  IInv'
<1>1. KernelType
  BY TypeOfKernel DEF IInv
<1>2. requests[q].world \in Worlds /\ requests[q].release \in Numbers /\ requests[q].user \in Users
  BY DEF Publish, IInv, WorldsInv, Scoped
<1> PICK w \in Worlds : w = requests[q].world
  BY <1>2
<1>3. /\ versions[w] \in Seq([release : Numbers, content : Contents])
      /\ versions' = [versions EXCEPT ![w] = Published(versions[w], requests[q].release, c)]
  BY <1>1 DEF Publish, KernelType
<1>4. /\ versions' \in [Worlds -> Seq([release : Numbers, content : Contents])]
      /\ \A x \in Worlds : Extends(versions[x], versions'[x])
  <2>1. \A x \in Worlds : Extends(versions[x], versions[x])
    BY DEF Extends
  <2> QED  BY <1>1, <1>2, <1>3, <2>1, PublishedExtends DEF KernelType
<1>5. commands' \in [Worlds -> [Keys -> Command \cup {Nothing}]]
  <2>1. Fingerprint(q, a, c) \in Command
    BY <1>2 DEF Fingerprint, Command
  <2> QED  BY <1>1, <1>2, <2>1 DEF Publish, KernelType
<1> QED  BY <1>4, <1>5, AnsweredStep DEF Publish

LEMMA ConflictStep ==
  ASSUME IInv, NEW q \in Requests, NEW k \in Keys, NEW a \in Authorities,
         NEW c \in Contents, Conflict(q, k, a, c)
  PROVE  IInv'
<1>1. KernelType
  BY TypeOfKernel DEF IInv
<1>2. \A w \in Worlds : Extends(versions[w], versions[w])
  BY DEF Extends
<1> QED  BY <1>1, <1>2, AnsweredStep DEF Conflict, kernelVars, KernelType

LEMMA RouteStep ==
  ASSUME IInv, NEW q \in Requests, NEW k \in Keys, NEW d \in Decisions, NEW e \in Envelopes,
         Route(q, k, d, e)
  PROVE  IInv'
<1>1. KernelType /\ requests \in [Requests -> Request]
  BY TypeOfKernel DEF IInv, TypeOK, WorldsTypeOK
<1>2. requests[q].world \in Worlds /\ requests[q].release \in Numbers /\ requests[q].user \in Users
      /\ requests[q].phase = "scoped" /\ admissions[q].key = Nothing
      /\ Exists(requests[q].world)
  BY <1>1 DEF Route, IInv, WorldsInv, Scoped, KernelType
<1> PICK w \in Worlds : w = requests[q].world
  BY <1>2
<1>3. PICK v \in Pinned(w, requests[q].release) :
        admissions' = [admissions EXCEPT ![q] = [NoAdmission EXCEPT !.key = k, !.decision = d,
                                                   !.envelope = e, !.version = v]]
  BY DEF Route
<1> DEFINE a == [NoAdmission EXCEPT !.key = k, !.decision = d, !.envelope = e, !.version = v]
<1>a. /\ v \in Nat /\ v \in 1 .. Len(versions[w])
      /\ versions[w][v].release = requests[q].release
      /\ releases[w][requests[q].release].config = "routed"
  <2>1. Len(versions[w]) \in Nat
    BY <1>1 DEF KernelType
  <2> QED  BY <2>1 DEF Pinned
<1>4. /\ a \in Admission /\ a.key = k /\ a.decision = d /\ a.envelope = e /\ a.version = v
      /\ a.refers = "no" /\ a.found = Nothing
  <2>1. NoAdmission \in Admission
    BY NoAdmissionIsOne
  <2>2. a \in Admission
    BY <1>a, <2>1 DEF Admission
  <2> QED  BY <2>2 DEF NoAdmission
<1> HIDE DEF a
<1>5. /\ admissions' \in [Requests -> Admission] /\ admissions'[q] = a
      /\ \A p \in Requests \ {q} : admissions'[p] = admissions[p]
  BY <1>1, <1>3, <1>4 DEF KernelType, a
<1> DEFINE r == [requests[q] EXCEPT !.phase = "admitting"]
<1>6. /\ r \in Request /\ r.phase = "admitting" /\ r.world = w /\ r.user = requests[q].user
      /\ r.release = requests[q].release
  BY <1>1 DEF Request, Phases
<1>7. requests' = [requests EXCEPT ![q] = r]
  BY <1>1 DEF Route
<1> HIDE DEF r
<1>8. /\ world' = world /\ releases' = releases /\ members' = members /\ made' = made
      /\ versions' = versions /\ commands' = commands /\ receipts' = receipts
      /\ signals' = signals
  BY DEF Route
<1>9. WorldsInv'
  <2>1. /\ WorldsInv /\ members' \in [Worlds -> [Users -> Roles \cup {"none"}]]
        /\ made' \in 0 .. MaxRequests
    BY <1>8 DEF IInv, WorldsInv, WorldsTypeOK
  <2> QED  BY <1>2, <1>6, <1>7, <1>8, <2>1, CalmStep DEF Locking
<1>10. /\ requests'[q] = r /\ \A p \in Requests \ {q} : requests'[p] = requests[p]
  BY <1>1, <1>7
<1>11. KernelType'
  <2>1. k # Nothing
    BY KernelAssumption DEF KernelAssumption
  <2> QED  BY <1>1, <1>4, <1>5, <1>6, <1>8, <1>10, <2>1 DEF KernelType
<1>12. Admitting'
  <2>1. AdmittingOf(q)'
    <3>1. /\ requests'[q].world = w /\ requests'[q].release = requests[q].release
          /\ receipts[w][k] = Nothing
      BY <1>6, <1>10 DEF Route
    <3>2. Fits(q)'
      BY <1>a, <1>4, <1>5, <1>8, <3>1 DEF Fits
    <3>3. Alone(q)'
      <4> SUFFICES ASSUME NEW p \in Requests \ {q}, admissions'[p].key # Nothing
                   PROVE  Apart(q, p)'
        BY DEF Alone
      <4>1. requests[p].world = w => admissions[p].key # k
        BY DEF Route
      <4> QED  BY <1>4, <1>5, <1>10, <3>1, <4>1 DEF Apart
    <3>4. Informed(q)'
      BY <1>4, <1>5 DEF Informed
    <3> QED  BY <3>2, <3>3, <3>4 DEF AdmittingOf
  <2>2. ASSUME NEW p \in Requests \ {q}, admissions'[p].key # Nothing
        PROVE  AdmittingOf(p)'
    <3>1. admissions[p].key # Nothing /\ \A z \in Requests \ {q} :
            requests'[z] = requests[z] /\ admissions'[z] = admissions[z]
      BY <1>5, <1>10, <2>2
    <3>2. Apart(p, q)'
      <4>1. requests[p].world = w => admissions[p].key # k
        BY DEF Route
      <4> QED  BY <1>4, <1>5, <1>6, <1>10, <4>1 DEF Apart
    <3> PICK x \in Worlds, y \in Decisions : x = requests[p].world /\ y = admissions[p].decision
      BY <3>1, AdmittingWhere
    <3>3. receipts'[x][admissions[p].key] = Nothing
          /\ releases'[x][requests[p].release].config = "routed"
      BY <1>8, <3>1, AdmittingWhere
    <3>4. Extends(versions[x], versions'[x]) /\ Referred(x, y)' = Referred(x, y)
      BY <1>8 DEF Extends, Referred
    <3> QED  BY <3>1, <3>2, <3>3, <3>4, AdmittingWhere, AdmittingKept
  <2>3. \A p \in Requests : admissions'[p].refers = "yes" => admissions'[p].key # Nothing
    BY <1>4, <1>5 DEF IInv, Admitting
  <2> QED  BY <2>1, <2>2, <2>3 DEF Admitting
<1>13. Receipted' /\ ActsOnce' /\ OneGeneration'
  BY <1>8 DEF IInv, Receipted, ActsOnce, Referred, OneGeneration
<1> QED  BY <1>9, <1>11, <1>12, <1>13 DEF IInv, WorldsInv, TypeOK, KernelType

LEMMA LookUpStep == ASSUME IInv, NEW q \in Requests, LookUp(q) PROVE IInv'
<1>1. KernelType /\ requests \in [Requests -> Request]
  BY TypeOfKernel DEF IInv, TypeOK, WorldsTypeOK
<1>2. /\ world' = world /\ releases' = releases /\ members' = members /\ made' = made
      /\ requests' = requests /\ versions' = versions /\ commands' = commands
      /\ receipts' = receipts /\ signals' = signals
  BY DEF LookUp, worldVars
<1>3. /\ admissions[q].key # Nothing /\ admissions[q].refers = "no" /\ AdmittingOf(q)
      /\ admissions[q].found = Nothing /\ admissions[q].decision \in Decisions
      /\ requests[q].world \in Worlds
  BY AdmittingWhere DEF LookUp, AdmittingOf, Informed
<1> PICK w \in Worlds, d \in Decisions : w = requests[q].world /\ d = admissions[q].decision
  BY <1>3
<1>4. ReferenceFree(w, d)
  BY DEF LookUp
<1>5. PICK f \in Keys \cup {Nothing} :
        /\ \/ f = Nothing /\ admissions' = [admissions EXCEPT ![q].refers = "yes"]
           \/ admissions' = [admissions EXCEPT ![q].refers = "yes", ![q].found = f]
        /\ Referred(w, d) = (IF f = Nothing THEN {} ELSE {f})
  <2>1. CASE Referred(w, d) = {} /\ admissions' = [admissions EXCEPT ![q].refers = "yes"]
    BY <2>1
  <2>2. ASSUME NEW k \in Referred(w, d),
               admissions' = [admissions EXCEPT ![q].refers = "yes", ![q].found = k]
        PROVE  k \in Keys /\ k # Nothing /\ Referred(w, d) = {k}
    <3>1. k \in Keys /\ k # Nothing
      BY KernelAssumption DEF KernelAssumption, Referred
    <3>2. \A j \in Referred(w, d) : j = k
      BY DEF IInv, ActsOnce
    <3> QED  BY <3>1, <3>2
  <2> QED  BY <2>1, <2>2 DEF LookUp
<1>6. /\ admissions'[q] \in Admission
      /\ admissions'[q].key = admissions[q].key /\ admissions'[q].decision = d
      /\ admissions'[q].envelope = admissions[q].envelope
      /\ admissions'[q].version = admissions[q].version
      /\ admissions'[q].refers = "yes" /\ admissions'[q].found = f
  <2>1. admissions \in [Requests -> Admission] /\ admissions[q] \in Admission
    BY <1>1 DEF KernelType
  <2> QED  BY <1>3, <1>5, <2>1 DEF Admission
<1>7. /\ admissions' \in [Requests -> Admission]
      /\ \A p \in Requests \ {q} : admissions'[p] = admissions[p]
  <2>1. admissions \in [Requests -> Admission] /\ admissions[q] \in Admission
    BY <1>1 DEF KernelType
  <2>2. /\ \A p \in Requests \ {q} : admissions'[p] = admissions[p]
        /\ admissions' = [admissions EXCEPT ![q] = admissions'[q]]
    BY <1>5, <2>1
  <2> QED  BY <1>6, <2>1, <2>2
<1>8. WorldsInv'
  BY <1>2, WorldsStutter DEF IInv, worldVars
<1>9. KernelType'
  BY <1>1, <1>2, <1>6, <1>7 DEF KernelType
<1>10. Admitting'
  <2>1. AdmittingOf(q)'
    <3>1. Fits(q)'
      BY <1>2, <1>3, <1>6 DEF AdmittingOf, Fits
    <3>2. Alone(q)'
      <4> SUFFICES ASSUME NEW r \in Requests \ {q}, admissions[r].key # Nothing
                   PROVE  Apart(q, r)'
        BY <1>7 DEF Alone
      <4>1. Apart(q, r) /\ admissions'[r] = admissions[r]
        BY <1>3, <1>7 DEF AdmittingOf, Alone
      <4> QED  BY <1>2, <1>4, <1>6, <4>1 DEF Apart, ReferenceFree
    <3>3. Informed(q)'
      <4>1. Referred(w, d)' = Referred(w, d)
        BY <1>2 DEF Referred
      <4> QED  BY <1>2, <1>5, <1>6, <4>1 DEF Informed
    <3> QED  BY <3>1, <3>2, <3>3 DEF AdmittingOf
  <2>2. ASSUME NEW p \in Requests \ {q}, admissions'[p].key # Nothing
        PROVE  AdmittingOf(p)'
    <3>1. admissions[p].key # Nothing /\ \A r \in Requests \ {q} : admissions'[r] = admissions[r]
      BY <1>7, <2>2
    <3>2. Apart(p, q)'
      <4>1. Apart(p, q)
        BY <1>3, <3>1, AdmittingWhere DEF AdmittingOf, Alone
      <4> QED  BY <1>2, <1>4, <1>6, <3>1, <4>1 DEF Apart, ReferenceFree
    <3> PICK x \in Worlds, y \in Decisions : x = requests[p].world /\ y = admissions[p].decision
      BY <3>1, AdmittingWhere
    <3>3. receipts'[x][admissions[p].key] = Nothing
          /\ releases'[x][requests[p].release].config = "routed"
      BY <1>2, <3>1, AdmittingWhere
    <3>4. Extends(versions[x], versions'[x]) /\ Referred(x, y)' = Referred(x, y)
      BY <1>2 DEF Extends, Referred
    <3> QED  BY <1>2, <3>1, <3>2, <3>3, <3>4, AdmittingWhere, AdmittingKept
  <2>3. \A p \in Requests : admissions'[p].refers = "yes" => admissions'[p].key # Nothing
    BY <1>3, <1>6, <1>7 DEF IInv, Admitting
  <2> QED  BY <2>1, <2>2, <2>3 DEF Admitting
<1>11. Receipted' /\ ActsOnce' /\ OneGeneration'
  BY <1>2 DEF IInv, Receipted, ActsOnce, Referred, OneGeneration
<1> QED  BY <1>8, <1>9, <1>10, <1>11 DEF IInv, WorldsInv, TypeOK, KernelType

LEMMA AdmitStep == ASSUME IInv, NEW q \in Requests, Admit(q) PROVE IInv'
<1>1. KernelType /\ requests \in [Requests -> Request]
  BY TypeOfKernel DEF IInv, TypeOK, WorldsTypeOK
<1>2. /\ admissions[q].key # Nothing /\ admissions[q].refers = "yes" /\ AdmittingOf(q)
      /\ admissions[q].key \in Keys /\ admissions[q].found \in Keys \cup {Nothing}
      /\ admissions[q].version \in Nat
      /\ admissions[q].decision \in Decisions /\ admissions[q].envelope \in Envelopes
      /\ requests[q].world \in Worlds /\ requests[q].release \in Numbers
      /\ requests[q].phase = "admitting"
  <2>1. admissions[q].refers = "yes" /\ admissions[q].key # Nothing
    BY DEF Admit, IInv, Admitting
  <2>2. admissions[q].found \in Keys \cup {Nothing} /\ admissions[q].version \in Nat
    BY <2>1, AdmittingWhere DEF Admission
  <2> QED  BY <1>1, <2>1, <2>2, AdmittingWhere DEF KernelType
<1> PICK w \in Worlds, k \in Keys, d \in Decisions, e \in Envelopes, v \in Nat, n \in Numbers,
         f \in Keys \cup {Nothing} :
      /\ w = requests[q].world /\ n = requests[q].release /\ k = admissions[q].key
      /\ d = admissions[q].decision /\ e = admissions[q].envelope /\ v = admissions[q].version
      /\ f = admissions[q].found
  BY <1>2
<1>3. /\ k # Nothing /\ receipts[w][k] = Nothing /\ signals[w][k] = Nothing
      /\ v \in 1 .. Len(versions[w]) /\ versions[w][v].release = n
      /\ releases[w][n].config = "routed"
      /\ Referred(w, d) = (IF f = Nothing THEN {} ELSE {f})
  BY <1>2 DEF AdmittingOf, Fits, Informed, IInv, Receipted
<1> DEFINE s == [decision |-> d, envelope |-> e, version |-> v, release |-> n, ran |-> 0]
           c == [decision |-> d, signal |-> IF f # Nothing THEN f ELSE k]
<1>4. /\ world' = world /\ releases' = releases /\ members' = members /\ made' = made
      /\ versions' = versions /\ commands' = commands
      /\ requests' = [requests EXCEPT ![q] = Idle]
      /\ receipts' = [receipts EXCEPT ![w][k] = c]
      /\ admissions' = [admissions EXCEPT ![q] = NoAdmission]
      /\ signals' = (IF f # Nothing THEN signals ELSE [signals EXCEPT ![w][k] = s])
  BY DEF Admit, End
<1>5. /\ s \in Signal /\ s.decision = d /\ s.version = v /\ s.release = n /\ s.ran = 0
      /\ c \in Receipt /\ c.decision = d
      /\ c.signal = (IF f # Nothing THEN f ELSE k)
  BY WorldsFacts DEF Signal, Receipt
<1> HIDE DEF s, c
<1>6. s # Nothing /\ c # Nothing
  BY <1>5, KernelAssumption DEF KernelAssumption
<1>7. /\ requests'[q] = Idle /\ \A p \in Requests \ {q} : requests'[p] = requests[p]
      /\ admissions' \in [Requests -> Admission] /\ admissions'[q] = NoAdmission
      /\ \A p \in Requests \ {q} : admissions'[p] = admissions[p]
  BY <1>1, <1>4, NoAdmissionIsOne DEF KernelType
<1>8. /\ receipts' \in [Worlds -> [Keys -> Receipt \cup {Nothing}]] /\ receipts'[w][k] = c
      /\ \A x \in Worlds, j \in Keys : x # w \/ j # k => receipts'[x][j] = receipts[x][j]
  BY <1>1, <1>4, <1>5 DEF KernelType
<1>9. /\ signals' \in [Worlds -> [Keys -> Signal \cup {Nothing}]]
      /\ signals'[w][k] = (IF f = Nothing THEN s ELSE Nothing)
      /\ \A x \in Worlds, j \in Keys : x # w \/ j # k => signals'[x][j] = signals[x][j]
  BY <1>1, <1>3, <1>4, <1>5 DEF KernelType
<1>10. /\ Referred(w, d)' = {c.signal}
       /\ \A x \in Worlds, y \in Decisions : x # w \/ y # d => Referred(x, y)' = Referred(x, y)
  <2>1. ASSUME NEW x \in Worlds, NEW y \in Decisions, x # w \/ y # d
        PROVE  Referred(x, y)' = Referred(x, y)
    <3>1. CASE x # w
      BY <1>9, <3>1 DEF Referred
    <3>2. CASE y # d
      <4>1. k \notin Referred(w, y)
        BY <1>3 DEF Referred
      <4>2. k \notin Referred(w, y)'
        BY <1>5, <1>9, <3>2 DEF Referred
      <4>3. Referred(w, y)' = Referred(w, y)
        BY <1>9, <4>1, <4>2 DEF Referred
      <4> QED  BY <3>1, <4>3
    <3> QED  BY <2>1, <3>1, <3>2
  <2>2. CASE f = Nothing
    <3>1. k \in Referred(w, d)'
      BY <1>5, <1>6, <1>9, <2>2 DEF Referred
    <3>2. Referred(w, d)' \subseteq Referred(w, d) \cup {k}
      BY <1>9 DEF Referred
    <3>3. Referred(w, d) = {} /\ c.signal = k
      BY <1>3, <1>5, <2>2
    <3> QED  BY <2>1, <3>1, <3>2, <3>3
  <2>3. CASE f # Nothing
    BY <1>3, <1>4, <1>5, <2>3 DEF Referred
  <2> QED  BY <2>1, <2>2, <2>3
<1>11. WorldsInv'
  <2>1. Leave(q)
    BY <1>2, <1>4 DEF Leave, End, Idle
  <2> QED  BY <2>1, LeaveWorlds DEF IInv
<1>12. KernelType'
  <2>1. \A p \in Requests : admissions'[p].key # Nothing <=> requests'[p].phase = "admitting"
    <3>1. admissions'[q].key = Nothing /\ requests'[q].phase # "admitting"
      BY <1>7, NoAdmissionIsOne DEF Idle
    <3>2. \A p \in Requests \ {q} :
            admissions'[p].key # Nothing <=> requests'[p].phase = "admitting"
      BY <1>1, <1>7 DEF KernelType
    <3> QED  BY <3>1, <3>2
  <2>2. /\ versions' \in [Worlds -> Seq([release : Numbers, content : Contents])]
        /\ commands' \in [Worlds -> [Keys -> Command \cup {Nothing}]]
    BY <1>1, <1>4 DEF KernelType
  <2> QED  BY <1>7, <1>8, <1>9, <2>1, <2>2 DEF KernelType
<1>13. Admitting'
  <2>1. \A p \in Requests : admissions'[p].refers = "yes" => admissions'[p].key # Nothing
    BY <1>7, NoAdmissionIsOne DEF IInv, Admitting
  <2>2. ASSUME NEW p \in Requests, admissions'[p].key # Nothing
        PROVE  AdmittingOf(p)'
    <3>1. /\ p # q /\ admissions[p].key # Nothing
          /\ \A r \in Requests : admissions'[r].key # Nothing =>
               requests'[r] = requests[r] /\ admissions'[r] = admissions[r]
      BY <1>7, <2>2, NoAdmissionIsOne
    <3> PICK x \in Worlds, j \in Keys, y \in Decisions :
          x = requests[p].world /\ j = admissions[p].key /\ y = admissions[p].decision
      BY <3>1, AdmittingWhere
    <3>2. Apart(q, p)
      BY <1>2, <3>1 DEF AdmittingOf, Alone
    <3>3. receipts'[x][j] = Nothing /\ releases'[x][requests[p].release].config = "routed"
      <4>1. x # w \/ j # k
        BY <3>2 DEF Apart
      <4> QED  BY <1>4, <1>8, <3>1, <4>1, AdmittingWhere
    <3>4. admissions[p].refers # "no" => Referred(x, y)' = Referred(x, y)
      <4>1. admissions[p].refers # "no" => x # w \/ y # d
        BY <1>2, <3>1, <3>2, AdmittingWhere DEF Apart, Admission
      <4> QED  BY <1>10, <4>1
    <3>5. Extends(versions[x], versions'[x])
      BY <1>4 DEF Extends
    <3> QED  BY <2>2, <3>1, <3>3, <3>4, <3>5, AdmittingWhere, AdmittingKept
  <2> QED  BY <2>1, <2>2 DEF Admitting
<1>14. Receipted'
  BY <1>6, <1>8, <1>9 DEF IInv, Receipted
<1>15. OneGeneration'
  <2> SUFFICES ASSUME NEW x \in Worlds, NEW j \in Keys, signals'[x][j] # Nothing
               PROVE  /\ signals'[x][j].version \in 1 .. Len(versions[x])
                      /\ versions[x][signals'[x][j].version].release = signals'[x][j].release
                      /\ releases[x][signals'[x][j].release].config = "routed"
                      /\ signals'[x][j].ran \in {0, signals'[x][j].release}
    <3>1. versions' = versions /\ releases' = releases
      BY <1>4
    <3> QED  BY <3>1 DEF OneGeneration
  <2>1. CASE x = w /\ j = k
    <3>1. signals'[x][j] = s
      BY <1>9, <2>1
    <3>2. s.version = v /\ s.release = n /\ s.ran = 0
      BY <1>5
    <3>3. v \in 1 .. Len(versions[x]) /\ versions[x][v].release = n
          /\ releases[x][n].config = "routed"
      BY <1>3, <2>1
    <3> QED  BY <3>1, <3>2, <3>3
  <2>2. CASE x # w \/ j # k
    BY <1>9, <2>2 DEF IInv, OneGeneration
  <2> QED  BY <2>1, <2>2
<1>16. ActsOnce'
  <2>1. ASSUME NEW x \in Worlds, NEW y \in Decisions
        PROVE  (\A i, j \in Referred(x, y) : i = j)'
    BY <1>10 DEF IInv, ActsOnce
  <2>2. ASSUME NEW x \in Worlds, NEW j \in Keys, receipts'[x][j] # Nothing
        PROVE  Referred(x, receipts[x][j].decision)' = {receipts'[x][j].signal}
    <3>1. CASE x = w /\ j = k
      BY <1>5, <1>8, <1>10, <3>1
    <3>2. CASE x # w \/ j # k
      <4>1. /\ receipts'[x][j] = receipts[x][j] /\ receipts[x][j].decision \in Decisions
            /\ receipts[x][j].signal \in Keys
            /\ Referred(x, receipts[x][j].decision) = {receipts[x][j].signal}
        <5>1. receipts'[x][j] = receipts[x][j] /\ receipts[x][j] \in Receipt
          BY <1>1, <1>8, <2>2, <3>2 DEF KernelType
        <5> QED  BY <2>2, <5>1 DEF Receipt, IInv, ActsOnce
      <4> PICK y \in Decisions, g \in Keys : y = receipts[x][j].decision /\ g = receipts[x][j].signal
        BY <4>1
      <4>2. Referred(x, y) = {g}
        BY <4>1
      <4>3. Referred(x, y)' = {g}
        BY <1>3, <1>5, <1>10, <4>2
      <4> QED  BY <4>1, <4>3
    <3> QED  BY <3>1, <3>2
  <2> QED  BY <2>1, <2>2 DEF ActsOnce
<1> QED  BY <1>11, <1>12, <1>13, <1>14, <1>15, <1>16 DEF IInv, WorldsInv, TypeOK, KernelType

LEMMA ProcessStep ==
  ASSUME IInv, NEW w \in Worlds, NEW k \in Keys, Process(w, k)
  PROVE  IInv'
<1>1. KernelType
  BY TypeOfKernel DEF IInv
<1>2. /\ world' = world /\ releases' = releases /\ members' = members /\ made' = made
      /\ requests' = requests /\ versions' = versions /\ commands' = commands
      /\ receipts' = receipts /\ admissions' = admissions
  BY DEF Process, worldVars
<1> DEFINE s == [signals[w][k] EXCEPT !.ran = signals[w][k].release]
<1>3. /\ signals[w][k] # Nothing /\ s \in Signal /\ s.decision = signals[w][k].decision
      /\ s.version = signals[w][k].version /\ s.release = signals[w][k].release
      /\ s.ran = signals[w][k].release
  <2>1. signals[w][k] # Nothing /\ signals[w][k] \in Signal
    BY <1>1 DEF Process, KernelType
  <2>2. signals[w][k].release \in 0 .. MaxReleases
    BY <2>1, WorldsFacts DEF Signal
  <2> QED  BY <2>1, <2>2 DEF Signal
<1>4. signals' = [signals EXCEPT ![w][k] = s]
  BY <1>1 DEF Process, KernelType
<1> HIDE DEF s
<1>5. s # Nothing
  BY <1>3, KernelAssumption DEF KernelAssumption
<1>6. /\ signals' \in [Worlds -> [Keys -> Signal \cup {Nothing}]] /\ signals'[w][k] = s
      /\ \A x \in Worlds, j \in Keys : x # w \/ j # k => signals'[x][j] = signals[x][j]
  BY <1>1, <1>3, <1>4 DEF KernelType
<1>7. /\ \A x \in Worlds, j \in Keys : signals'[x][j] # Nothing <=> signals[x][j] # Nothing
      /\ \A x \in Worlds, j \in Keys : signals'[x][j].decision = signals[x][j].decision
  BY <1>3, <1>5, <1>6
<1>8. \A x \in Worlds : \A d : Referred(x, d)' = Referred(x, d)
  BY <1>7 DEF Referred
<1>9. WorldsInv'
  BY <1>2, WorldsStutter DEF IInv, worldVars
<1>10. KernelType'
  BY <1>1, <1>2, <1>6 DEF KernelType
<1>11. Admitting'
  <2> SUFFICES ASSUME NEW p \in Requests, admissions[p].key # Nothing
               PROVE  AdmittingOf(p)'
    BY <1>2 DEF IInv, Admitting
  <2> PICK x \in Worlds, d \in Decisions : x = requests[p].world /\ d = admissions[p].decision
    BY AdmittingWhere
  <2>1. receipts'[x][admissions[p].key] = Nothing
        /\ releases'[x][requests[p].release].config = "routed"
    BY <1>2, AdmittingWhere
  <2>2. Extends(versions[x], versions'[x]) /\ Referred(x, d)' = Referred(x, d)
    BY <1>2, <1>8 DEF Extends
  <2> QED  BY <1>2, <2>1, <2>2, AdmittingWhere, AdmittingKept
<1>12. Receipted'
  BY <1>2, <1>7 DEF IInv, Receipted
<1>13. OneGeneration'
  <2>1. ASSUME NEW x \in Worlds, NEW j \in Keys, signals'[x][j] # Nothing
        PROVE  /\ signals'[x][j].version \in 1 .. Len(versions[x])
               /\ versions[x][signals'[x][j].version].release = signals'[x][j].release
               /\ releases[x][signals'[x][j].release].config = "routed"
               /\ signals'[x][j].ran \in {0, signals'[x][j].release}
    BY <1>3, <1>6, <1>7, <2>1 DEF IInv, OneGeneration
  <2> QED  BY <1>2, <2>1 DEF OneGeneration
<1>14. ActsOnce'
  <2>1. ASSUME NEW x \in Worlds, NEW d \in Decisions
        PROVE  (\A i, j \in Referred(x, d) : i = j)'
    BY <1>8 DEF IInv, ActsOnce
  <2>2. ASSUME NEW x \in Worlds, NEW j \in Keys, receipts[x][j] # Nothing
        PROVE  Referred(x, receipts[x][j].decision)' = {receipts[x][j].signal}
    <3> PICK d : d = receipts[x][j].decision
      OBVIOUS
    <3>1. Referred(x, d) = {receipts[x][j].signal} /\ Referred(x, d)' = Referred(x, d)
      BY <1>8, <2>2 DEF IInv, ActsOnce
    <3> QED  BY <1>2, <3>1
  <2> QED  BY <1>2, <2>1, <2>2 DEF ActsOnce
<1> QED  BY <1>9, <1>10, <1>11, <1>12, <1>13, <1>14 DEF IInv, WorldsInv, TypeOK, KernelType

-----------------------------------------------------------------------------
(* The theorems.                                                            *)

LEMMA InitIInv == Init => IInv
<1> SUFFICES ASSUME Init PROVE IInv
  OBVIOUS
<1>1. /\ \A w \in Worlds : world[w] = NoWorld
      /\ \A w \in Worlds, n \in Numbers : releases[w][n] = NoRelease
      /\ \A q \in Requests : requests[q] = Idle /\ admissions[q] = NoAdmission
      /\ \A w \in Worlds, k \in Keys : signals[w][k] = Nothing /\ receipts[w][k] = Nothing
  BY DEF Init, WorldsInit
<1>2. WorldsTypeOK
  <2>1. NoWorld \in World /\ NoRelease \in Release /\ NoWorld.status = "absent"
    BY WorldsFacts DEF NoWorld, NoRelease, World, Release
  <2> QED
    BY <2>1, WorldsFacts, IdleIsRequest DEF Init, WorldsInit, WorldsTypeOK, Exists
<1>3. Scoped /\ Numbering
  BY <1>1 DEF Scoped, Numbering, Idle
<1>4. Unwritten /\ ReleaseLine
  BY <1>1 DEF Unwritten, ReleaseLine, Exists, NoWorld, Idle
<1>5. KernelType
  <2>1. <<>> \in Seq([release : Numbers, content : Contents]) /\ Idle.phase # "admitting"
    BY DEF Idle
  <2> QED  BY <1>1, <2>1, NoAdmissionIsOne DEF Init, KernelType
<1>6. Admitting
  BY <1>1, NoAdmissionIsOne DEF Admitting
<1>7. Receipted /\ OneGeneration /\ ActsOnce
  BY <1>1 DEF Receipted, OneGeneration, ActsOnce, Referred
<1> QED  BY <1>2, <1>3, <1>4, <1>5, <1>6, <1>7, TypeOfKernel DEF IInv, WorldsInv

LEMMA NextIInv == IInv /\ [Next]_vars => IInv'
<1> SUFFICES ASSUME IInv, [Next]_vars PROVE IInv'
  OBVIOUS
<1>1. ASSUME NEW q \in Requests, NEW k \in Keys, NEW a \in Authorities, NEW c \in Contents,
             Publish(q, k, a, c) \/ Conflict(q, k, a, c)
      PROVE  IInv'
  BY <1>1, PublishStep, ConflictStep
<1>2. ASSUME NEW q \in Requests, NEW k \in Keys, NEW d \in Decisions, NEW e \in Envelopes,
             Route(q, k, d, e)
      PROVE  IInv'
  BY <1>2, RouteStep
<1>3. ASSUME NEW q \in Requests, Elsewhere(q) \/ LookUp(q) \/ Admit(q)
      PROVE  IInv'
  BY <1>3, ElsewhereStep, LookUpStep, AdmitStep
<1>4. ASSUME NEW w \in Worlds, NEW k \in Keys, Process(w, k)
      PROVE  IInv'
  BY <1>4, ProcessStep
<1>5. CASE UNCHANGED vars
  <2>1. WorldsInv'
    BY <1>5, WorldsStutter DEF IInv, vars
  <2>2. TypeOK'
    BY <1>5, <2>1 DEF vars, worldVars, kernelVars, IInv, WorldsInv, TypeOK
  <2>3. Admitting' /\ Receipted'
    BY <1>5 DEF vars, worldVars, kernelVars, IInv, Admitting, AdmittingOf, Fits, Alone, Apart,
                Informed, Receipted, Referred
  <2>4. OneGeneration' /\ ActsOnce'
    BY <1>5 DEF vars, worldVars, kernelVars, IInv, OneGeneration, ActsOnce, Referred
  <2> QED  BY <2>1, <2>2, <2>3, <2>4 DEF IInv
<1> QED  BY <1>1, <1>2, <1>3, <1>4, <1>5 DEF Next

\* The invariant is inductive.
THEOREM Inductive == Spec => []IInv
BY InitIInv, NextIInv, PTL DEF Spec

\* The states of the control plane and of the boundary have their types: in particular a
\* World has a current release from the moment it exists.
THEOREM KernelTyped == Spec => []TypeOK
<1>1. IInv => TypeOK
  BY DEF IInv
<1> QED  BY <1>1, Inductive, PTL

\* Of any World, whatever requests number, promote and archive at the same time, exactly
\* one release is current, and its releases are numbered without a gap.
THEOREM ReleasesInLine == Spec => []ReleaseLine
<1>1. IInv => ReleaseLine
  BY DEF IInv, WorldsInv
<1> QED  BY <1>1, Inductive, PTL

\* A decision is admitted, routed, run and recorded in one release.
THEOREM KernelOneGeneration == Spec => []OneGeneration
<1>1. IInv => OneGeneration
  BY DEF IInv
<1> QED  BY <1>1, Inductive, PTL

\* A decision acts once, under whichever keys and by however many requests it is sent.
THEOREM DecisionActsOnce == Spec => []ActsOnce
<1>1. IInv => ActsOnce
  BY DEF IInv
<1> QED  BY <1>1, Inductive, PTL
=============================================================================
