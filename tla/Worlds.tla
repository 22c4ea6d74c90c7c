------------------------------- MODULE Worlds -------------------------------
(***************************************************************************)
(* Worlds, their releases and memberships (modules/worlds/                 *)
(* worlds.service.ts) and the guard every request passes (boundary.ts).    *)
(* The guard resolves a World and its current release into the context of  *)
(* the request; what the request does later, it does with that context,    *)
(* while releases are promoted, members removed and Worlds archived.       *)
(* Numbering and promotion of releases hold an advisory lock of the World. *)
(*                                                                         *)
(* Titles, labels, content hashes, the parent of a release and the audit   *)
(* rows are data.  Of the configuration of a release only the route the    *)
(* interaction kernel needs is kept.  Reads change nothing and are left    *)
(* out.                                                                    *)
(***************************************************************************)
EXTENDS Naturals

CONSTANTS
  Worlds,
  Main,          \* the default World of the organization
  Users,
  Admins,        \* users with the permission *
  Managers,      \* users with the permission worlds:manage or *
  Requests,      \* requests that can be under way at the same time
  Nothing,       \* null
  MaxReleases,   \* bound on the releases of a World
  MaxRequests    \* bound on the requests that arrive

ASSUME WorldsAssumption ==
  /\ Main \in Worlds
  /\ Admins \subseteq Managers /\ Managers \subseteq Users
  /\ Nothing \notin Worlds \cup Users
  /\ MaxReleases \in Nat \ {0} /\ MaxRequests \in Nat

VARIABLES
  world,      \* rows of worlds: status, visibility, number of the current release
  releases,   \* rows of world_releases, by number
  members,    \* role of each active member, "none" for everybody else
  requests,   \* the context and the progress of each request
  made        \* requests that have arrived

worldVars == <<world, releases, members, requests, made>>

Numbers == 1 .. MaxReleases
Roles == {"owner", "maintainer", "member", "viewer"}

NoRelease == [status |-> "none", config |-> "empty"]
NoWorld == [status |-> "absent", visibility |-> "private", current |-> 0]

Idle == [phase |-> "idle", user |-> Nothing, world |-> Nothing, release |-> 0,
         number |-> 0, seen |-> {}]

WorldsInit ==
  /\ world = [w \in Worlds |-> NoWorld]
  /\ releases = [w \in Worlds |-> [n \in Numbers |-> NoRelease]]
  /\ members = [w \in Worlds |-> [u \in Users |-> "none"]]
  /\ requests = [q \in Requests |-> Idle]
  /\ made = 0

-----------------------------------------------------------------------------
(* Resolution of a World, and the guard.                                    *)

Exists(w) == world[w].status # "absent"

Visible(u, w) == world[w].visibility = "organization" \/ u \in Admins \/ members[w][u] # "none"

Resolves(u, w) == world[w].status = "active" /\ Visible(u, w)

\* Requests that change something: a viewer makes none in a World it names, but a
\* request that names no World is one to Main whatever its role there.
MayChange(u, w) == w = Main \/ members[w][u] # "viewer"

Manages(u, w) == u \in Managers \/ members[w][u] \in {"owner", "maintainer"}

\* The guard passes a request: its context is that of this moment.
Arrive(q, u, w) ==
  /\ requests[q] = Idle
  /\ made < MaxRequests
  /\ Resolves(u, w)
  /\ MayChange(u, w)
  /\ requests' = [requests EXCEPT ![q] = [Idle EXCEPT !.phase = "scoped", !.user = u, !.world = w,
                                                      !.release = world[w].current]]
  /\ made' = made + 1
  /\ UNCHANGED <<world, releases, members>>

\* There is no default World when the guard looks for it.
ArriveFirst(q, u) ==
  /\ requests[q] = Idle
  /\ made < MaxRequests
  /\ ~Exists(Main)
  /\ requests' = [requests EXCEPT ![q] = [Idle EXCEPT !.phase = "founding", !.user = u,
                                                      !.world = Main]]
  /\ made' = made + 1
  /\ UNCHANGED <<world, releases, members>>

\* Faulty variant: the World is created without a current release.
FoundedBare(w, u, visibility) ==
  /\ world' = [world EXCEPT ![w] = [NoWorld EXCEPT !.status = "active"]]
  /\ UNCHANGED releases
  /\ members' = [members EXCEPT ![w][u] = "owner"]

\* A World with its first release, which is its current one, and its owner.
Founded(w, u, visibility) ==
  /\ world' = [world EXCEPT ![w] = [status |-> "active", visibility |-> visibility, current |-> 1]]
  /\ releases' = [releases EXCEPT ![w][1] = [NoRelease EXCEPT !.status = "current"]]
  /\ members' = [members EXCEPT ![w][u] = "owner"]

\* ensureDefaultWorld: under its lock it looks again, and creates what is missing.
FoundMain(q) ==
  /\ requests[q].phase = "founding"
  /\ IF Exists(Main) THEN UNCHANGED <<world, releases, members>>
                     ELSE Founded(Main, requests[q].user, "organization")
  /\ requests' = [requests EXCEPT ![q].phase = "scoped", ![q].release = world'[Main].current]
  /\ UNCHANGED made

\* A request ends: it has been answered or refused, its time is over or its server died.
End(q) == requests' = [requests EXCEPT ![q] = Idle]

Leave(q) ==
  /\ requests[q] # Idle
  /\ End(q)
  /\ UNCHANGED <<world, releases, members, made>>

-----------------------------------------------------------------------------
(* The control plane.                                                       *)

CreateWorld(q, w, visibility) ==
  /\ requests[q].phase = "scoped"
  /\ requests[q].user \in Managers
  /\ ~Exists(w)
  /\ Founded(w, requests[q].user, visibility)
  /\ End(q)
  /\ UNCHANGED made

\* The other operations resolve the World they are about and check the role in it.
Manage(q, w) ==
  /\ requests[q].phase = "scoped"
  /\ Resolves(requests[q].user, w)
  /\ Manages(requests[q].user, w)
  /\ requests' = [requests EXCEPT ![q].phase = "managing", ![q].world = w]
  /\ UNCHANGED <<world, releases, members, made>>

\* Faulty variant: nobody waits for the lock of the releases.
LockUnheeded(w) == w \in Worlds

LockFree(w) ==
  \A q \in Requests : requests[q].world = w => requests[q].phase \notin {"numbering", "promoting"}

Written(w) == {n \in Numbers : releases[w][n].status # "none"}
Current(w) == {n \in Numbers : releases[w][n].status = "current"}

\* The release after the latest one.
NumberRead(q, n) ==
  /\ requests[q].phase = "managing"
  /\ LockFree(requests[q].world)
  /\ n \notin Written(requests[q].world)
  /\ 1 .. n - 1 \subseteq Written(requests[q].world)
  /\ requests' = [requests EXCEPT ![q].phase = "numbering", ![q].number = n]
  /\ UNCHANGED <<world, releases, members, made>>

CreateRelease(q, config) ==
  /\ requests[q].phase = "numbering"
  /\ releases' = [releases EXCEPT ![requests[q].world][requests[q].number] =
                    [status |-> "ready", config |-> config]]
  /\ End(q)
  /\ UNCHANGED <<world, members, made>>

\* The target, and the releases that are to make way for it.
PromoteRead(q, n) ==
  /\ requests[q].phase = "managing"
  /\ LockFree(requests[q].world)
  /\ n \in Written(requests[q].world)
  /\ requests' = [requests EXCEPT ![q].phase = "promoting", ![q].number = n,
                                  ![q].seen = Current(requests[q].world)]
  /\ UNCHANGED <<world, releases, members, made>>

Promoted(q, n, row) ==
  IF n = requests[q].number THEN [row EXCEPT !.status = "current"]
  ELSE IF n \in requests[q].seen THEN [row EXCEPT !.status = "ready"] ELSE row

PromoteWrite(q) ==
  LET w == requests[q].world IN
  /\ requests[q].phase = "promoting"
  /\ releases' = [releases EXCEPT ![w] = [n \in Numbers |-> Promoted(q, n, releases[w][n])]]
  /\ world' = [world EXCEPT ![w].current = requests[q].number]
  /\ End(q)
  /\ UNCHANGED <<members, made>>

\* A role, or "none" for a membership made inactive.
SetMembership(q, u, role) ==
  /\ requests[q].phase = "managing"
  /\ members' = [members EXCEPT ![requests[q].world][u] = role]
  /\ End(q)
  /\ UNCHANGED <<world, releases, made>>

Archive(q) ==
  /\ requests[q].phase = "managing"
  /\ requests[q].world # Main
  /\ world' = [world EXCEPT ![requests[q].world].status = "archived"]
  /\ End(q)
  /\ UNCHANGED <<releases, members, made>>

Guard(q) ==
  \/ \E u \in Users : ArriveFirst(q, u) \/ \E w \in Worlds : Arrive(q, u, w)
  \/ FoundMain(q)
  \/ Leave(q)

Control(q) ==
  \/ \E w \in Worlds : Manage(q, w)
  \/ \E w \in Worlds, visibility \in {"organization", "private"} : CreateWorld(q, w, visibility)
  \/ \E n \in Numbers : NumberRead(q, n) \/ PromoteRead(q, n)
  \/ \E config \in {"empty", "routed"} : CreateRelease(q, config)
  \/ PromoteWrite(q)
  \/ \E u \in Users, role \in Roles \cup {"none"} : SetMembership(q, u, role)
  \/ Archive(q)

-----------------------------------------------------------------------------
(* Properties.                                                              *)

Release == [status : {"none", "ready", "current"}, config : {"empty", "routed"}]

World == [status : {"absent", "active", "archived"}, visibility : {"organization", "private"},
          current : 0 .. MaxReleases]

Phases == {"idle", "founding", "scoped", "managing", "numbering", "promoting", "admitting"}

Request == [phase : Phases, user : Users \cup {Nothing}, world : Worlds \cup {Nothing},
            release : 0 .. MaxReleases, number : 0 .. MaxReleases, seen : SUBSET Numbers]

\* Type invariant: a World has a current release from the moment it exists.
WorldsTypeOK ==
  /\ world \in [Worlds -> World]
  /\ \A w \in Worlds : Exists(w) => world[w].current \in Numbers
  /\ releases \in [Worlds -> [Numbers -> Release]]
  /\ members \in [Worlds -> [Users -> Roles \cup {"none"}]]
  /\ requests \in [Requests -> Request]
  /\ made \in 0 .. MaxRequests

\* The lock of a World keeps numbering and promotion apart: its releases are numbered
\* without a gap, exactly one is current and it is the one the World points to, and
\* a number that was chosen for a release is still free when the release is written.
ReleaseLine ==
  /\ \A w \in Worlds : Exists(w) =>
       /\ Current(w) = {world[w].current}
       /\ \A n \in Written(w) : 1 .. n \subseteq Written(w)
  /\ \A q \in Requests : requests[q].phase = "numbering" =>
       requests[q].number \notin Written(requests[q].world)
=============================================================================
