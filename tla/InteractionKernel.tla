--------------------------- MODULE InteractionKernel ------------------------
(***************************************************************************)
(* The command boundary of the interaction kernel (modules/                *)
(* interaction-kernel/interaction-kernel.service.ts, receive and route)    *)
(* with what it stands on: the publication of workflow versions            *)
(* (workflow.service.ts) as an idempotent command, the admission of a      *)
(* signal under its external reference (intake.service.ts) and the worker  *)
(* that processes it later (worker.service.ts) -- in Worlds whose releases *)
(* are promoted meanwhile.                                                 *)
(*                                                                         *)
(* One workflow code stands for all.  An envelope is known by the decision *)
(* revision it carries, which is its semantic fingerprint, and by its own  *)
(* identity.  A request that is answered from a stored record or refused   *)
(* changes nothing and is Leave.  Exports, artifact links, build and       *)
(* release records of kOA are not modelled.                                *)
(***************************************************************************)
EXTENDS Worlds, Sequences

CONSTANTS
  Keys,        \* idempotency keys
  Authorities, \* what a context may do: permissions, roles, work grants, API token
  Contents,    \* contents of the workflow
  Decisions,   \* decision revisions of Konnaxion
  Envelopes    \* identities of envelopes

Signal == [decision : Decisions, envelope : Envelopes, version : Nat, release : Numbers,
           ran : 0 .. MaxReleases]

Receipt == [decision : Decisions, signal : Keys]

\* Null is neither a key nor a row.
ASSUME KernelAssumption == Nothing \notin Keys /\ Nothing \notin Signal /\ Nothing \notin Receipt

VARIABLES
  versions,    \* versions of the workflow: release they are pinned to, and content
  commands,    \* idempotency records of publications
  receipts,    \* idempotency records of the kernel, with the receipt given
  signals,     \* signals, by the key they were admitted under
  admissions   \* the transaction of a request at the boundary

kernelVars == <<versions, commands, receipts, signals, admissions>>
vars == <<worldVars, kernelVars>>

NoAdmission == [key |-> Nothing, decision |-> Nothing, envelope |-> Nothing, version |-> 0,
                refers |-> "no", found |-> Nothing]

Init ==
  /\ WorldsInit
  /\ versions = [w \in Worlds |-> <<>>]
  /\ commands = [w \in Worlds |-> [k \in Keys |-> Nothing]]
  /\ receipts = [w \in Worlds |-> [k \in Keys |-> Nothing]]
  /\ signals = [w \in Worlds |-> [k \in Keys |-> Nothing]]
  /\ admissions = [q \in Requests |-> NoAdmission]

-----------------------------------------------------------------------------
(* Publication of a workflow, through Commands.run.                         *)

\* The fingerprint of a command: who asks, by which authority, in which release, for what.
Fingerprint(q, a, c) ==
  [user |-> requests[q].user, authority |-> a, release |-> requests[q].release, content |-> c]

\* Content equal to that of the latest version is not published again.
Published(line, release, c) ==
  IF line # <<>> /\ line[Len(line)].content = c THEN line
  ELSE Append(line, [release |-> release, content |-> c])

Publish(q, k, a, c) ==
  LET w == requests[q].world IN
  /\ requests[q].phase = "scoped"
  /\ commands[w][k] = Nothing
  /\ versions' = [versions EXCEPT ![w] = Published(@, requests[q].release, c)]
  /\ commands' = [commands EXCEPT ![w][k] = Fingerprint(q, a, c)]
  /\ End(q)
  /\ UNCHANGED <<world, releases, members, made, receipts, signals, admissions>>

\* The key is taken by a command with another fingerprint.
Conflict(q, k, a, c) ==
  LET w == requests[q].world IN
  /\ requests[q].phase = "scoped"
  /\ commands[w][k] # Nothing
  /\ commands[w][k] # Fingerprint(q, a, c)
  /\ End(q)
  /\ UNCHANGED <<world, releases, members, made, kernelVars>>

-----------------------------------------------------------------------------
(* The boundary.                                                            *)

\* Faulty variant: any version of the workflow will do.
PinnedAnywhere(w, release) == {v \in 1 .. Len(versions[w]) : releases[w][release].config = "routed"}

\* The versions a release routes decisions to.
Pinned(w, release) ==
  {v \in 1 .. Len(versions[w]) :
     versions[w][v].release = release /\ releases[w][release].config = "routed"}

\* Under the lock of the key: there is no record yet, and the release of the context
\* routes decisions to its latest version of the workflow.
Route(q, k, d, e) ==
  LET w == requests[q].world IN
  /\ requests[q].phase = "scoped"
  /\ \A r \in Requests : requests[r].world = w => admissions[r].key # k
  /\ receipts[w][k] = Nothing
  /\ \E v \in Pinned(w, requests[q].release) :
       /\ \A u \in Pinned(w, requests[q].release) : u <= v
       /\ admissions' = [admissions EXCEPT ![q] = [NoAdmission EXCEPT !.key = k, !.decision = d,
                                                     !.envelope = e, !.version = v]]
  /\ requests' = [requests EXCEPT ![q].phase = "admitting"]
  /\ UNCHANGED <<world, releases, members, made, versions, commands, receipts, signals>>

\* Faulty variant: nobody waits for the lock of the external reference.
ReferenceUnheeded(w, d) == w \in Worlds /\ d \in Decisions

ReferenceFree(w, d) ==
  \A q \in Requests :
    requests[q].world = w /\ admissions[q].refers = "yes" => admissions[q].decision # d

\* The signal a decision revision has in a World, if any.
Referred(w, d) ==
  {k \in Keys : signals[w][k] # Nothing /\ signals[w][k].decision = d}

\* The same input: the same envelope, and the same version of the workflow.
SameInput(s, a) == s.envelope = a.envelope /\ s.version = a.version

\* IntakeService.accept looks for the external reference under its lock; a signal with
\* other input is a conflict, which ends the request.
LookUp(q) ==
  LET w == requests[q].world
      a == admissions[q] IN
  /\ a.key # Nothing /\ a.refers = "no"
  /\ ReferenceFree(w, a.decision)
  /\ \/ /\ Referred(w, a.decision) = {}
        /\ admissions' = [admissions EXCEPT ![q].refers = "yes"]
     \/ \E k \in Referred(w, a.decision) :
          /\ SameInput(signals[w][k], a)
          /\ admissions' = [admissions EXCEPT ![q].refers = "yes", ![q].found = k]
  /\ UNCHANGED <<worldVars, versions, commands, receipts, signals>>

\* The signal with its message, unless there was one, the receipt and the record.
Admit(q) ==
  LET w == requests[q].world
      a == admissions[q] IN
  /\ a.refers = "yes"
  /\ signals' = IF a.found # Nothing THEN signals
                ELSE [signals EXCEPT ![w][a.key] =
                        [decision |-> a.decision, envelope |-> a.envelope, version |-> a.version,
                         release |-> requests[q].release, ran |-> 0]]
  /\ receipts' = [receipts EXCEPT ![w][a.key] =
                    [decision |-> a.decision, signal |-> IF a.found # Nothing THEN a.found ELSE a.key]]
  /\ admissions' = [admissions EXCEPT ![q] = NoAdmission]
  /\ End(q)
  /\ UNCHANGED <<world, releases, members, made, versions, commands>>

\* The worker processes the message, in the World and release the message carries; that
\* World may be archived by now.
Process(w, k) ==
  /\ signals[w][k] # Nothing
  /\ signals[w][k].ran = 0
  /\ signals' = [signals EXCEPT ![w][k].ran = signals[w][k].release]
  /\ UNCHANGED <<worldVars, versions, commands, receipts, admissions>>

\* What Worlds does; a request that leaves takes its transaction with it.
Elsewhere(q) ==
  /\ Guard(q) \/ Control(q)
  /\ admissions' = [admissions EXCEPT ![q] = NoAdmission]
  /\ UNCHANGED <<versions, commands, receipts, signals>>

Next ==
  \/ \E q \in Requests :
       \/ Elsewhere(q)
       \/ \E k \in Keys, a \in Authorities, c \in Contents :
            Publish(q, k, a, c) \/ Conflict(q, k, a, c)
       \/ \E k \in Keys, d \in Decisions, e \in Envelopes : Route(q, k, d, e)
       \/ LookUp(q) \/ Admit(q)
  \/ \E w \in Worlds, k \in Keys : Process(w, k)

Spec == Init /\ [][Next]_vars

-----------------------------------------------------------------------------
(* Properties.                                                              *)

Command == [user : Users, authority : Authorities, release : Numbers, content : Contents]

Admission == [key : Keys \cup {Nothing}, decision : Decisions \cup {Nothing},
              envelope : Envelopes \cup {Nothing}, version : Nat, refers : {"no", "yes"},
              found : Keys \cup {Nothing}]

\* Type invariant.
TypeOK ==
  /\ WorldsTypeOK
  /\ versions \in [Worlds -> Seq([release : Numbers, content : Contents])]
  /\ commands \in [Worlds -> [Keys -> Command \cup {Nothing}]]
  /\ receipts \in [Worlds -> [Keys -> Receipt \cup {Nothing}]]
  /\ signals \in [Worlds -> [Keys -> Signal \cup {Nothing}]]
  /\ admissions \in [Requests -> Admission]
  /\ \A q \in Requests : admissions[q].key # Nothing <=> requests[q].phase = "admitting"

\* One generation: a decision is admitted, run and recorded in the release the request
\* was resolved in, with a version of the workflow that was published in that release
\* and a route that release has, whatever is promoted or published meanwhile.
OneGeneration ==
  \A w \in Worlds, k \in Keys : signals[w][k] # Nothing =>
    LET s == signals[w][k] IN
    /\ s.version \in 1 .. Len(versions[w]) /\ versions[w][s.version].release = s.release
    /\ releases[w][s.release].config = "routed"
    /\ s.ran \in {0, s.release}

\* A decision revision acts once in a World, whoever sends it again, under whichever
\* key and after whatever promotion; every receipt names the signal it acted by.
ActsOnce ==
  \A w \in Worlds :
    /\ \A d \in Decisions : \A j, k \in Referred(w, d) : j = k
    /\ \A k \in Keys : receipts[w][k] # Nothing =>
         Referred(w, receipts[w][k].decision) = {receipts[w][k].signal}

\* What IMPLEMENTATION_DECISIONS.md, 31 says of Commands: a replay returns the stored
\* response; only other input, another principal or another authority conflicts.
ReplayAnswered ==
  [][\A q \in Requests, k \in Keys, a \in Authorities, c \in Contents :
       Conflict(q, k, a, c) =>
         LET stored == commands[requests[q].world][k] IN
         stored.user # requests[q].user \/ stored.authority # a \/ stored.content # c]_vars
=============================================================================
