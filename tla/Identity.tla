------------------------------ MODULE Identity ------------------------------
(***************************************************************************)
(* Accounts, their passwords, account links and sessions (modules/         *)
(* identity: identity.service.ts, identity-admin.service.ts; the           *)
(* controllers that create and disable accounts and map federated          *)
(* identities).  A request reads, computes a slow hash or asks a provider, *)
(* and then writes; several do so for one account at once.                 *)
(*                                                                         *)
(* A transaction whose first statement updates the row of the account      *)
(* keeps it until it commits.  The opening of a session updates the row of *)
(* an active account too, so that it waits for such a transaction; nothing *)
(* holds it back from an account that is not active.                       *)
(*                                                                         *)
(* A password is the number of the request that set it: its hash is        *)
(* salted, and no two are equal.  Roles, API tokens, rate limits and the   *)
(* cryptography of a federated login are left out.                         *)
(***************************************************************************)
EXTENDS Naturals

CONSTANTS
  Users, Requests,
  Links,              \* rows of identity_challenges
  Sessions,           \* rows of login_sessions
  Nothing,            \* null
  MaxRequests,        \* bound on the requests that are made
  RecoversInWorld     \* "no": recover and consume record events without a World

ASSUME IdentityAssumption ==
  /\ Nothing \notin Users \cup Links
  /\ MaxRequests \in Nat
  /\ RecoversInWorld \in {"yes", "no"}

VARIABLES
  accounts,   \* status and password of each account, 0 for none
  linked,     \* accounts a federated identity is mapped to
  links,      \* rows of links
  sessions,   \* rows of sessions
  requests,   \* what each request has read
  made,       \* requests made so far
  uses        \* number of passwords set through each link (history)

vars == <<accounts, linked, links, sessions, requests, made, uses>>

Idle == [op |-> "none", user |-> Nothing, seen |-> 0, link |-> Nothing, to |-> Nothing,
         rows |-> {}]

NoLink == [status |-> "absent", user |-> Nothing]
NoSession == [status |-> "absent", user |-> Nothing]

Init ==
  /\ accounts = [u \in Users |-> [status |-> "absent", password |-> 0]]
  /\ linked = {}
  /\ links = [l \in Links |-> NoLink]
  /\ sessions = [s \in Sessions |-> NoSession]
  /\ requests = [q \in Requests |-> Idle]
  /\ made = 0
  /\ uses = [l \in Links |-> 0]

-----------------------------------------------------------------------------
(* Helpers.                                                                 *)

Active(u) == accounts[u].status = "active"

Begin(q, r) ==
  /\ requests[q] = Idle
  /\ made < MaxRequests
  /\ made' = made + 1
  /\ requests' = [requests EXCEPT ![q] = r]

End(q) == requests' = [requests EXCEPT ![q] = Idle]

\* No transaction holds the row of the account.
RowFree(u) == \A q \in Requests : requests[q].op = "status" => requests[q].user # u

OpenLinks(u) == {l \in Links : links[l].status = "open" /\ links[l].user = u}
OpenSessions(u) == {s \in Sessions : sessions[s].status = "open" /\ sessions[s].user = u}

Closed(ls) == [l \in Links |-> IF l \in ls THEN [links[l] EXCEPT !.status = "closed"] ELSE links[l]]

Ended(ss) ==
  [s \in Sessions |-> IF s \in ss THEN [sessions[s] EXCEPT !.status = "ended"] ELSE sessions[s]]

-----------------------------------------------------------------------------
(* Accounts.                                                                *)

CreateUser(q, u) ==
  /\ accounts[u].status = "absent"
  /\ Begin(q, Idle)
  /\ accounts' = [accounts EXCEPT ![u] = [status |-> "active", password |-> made']]
  /\ UNCHANGED <<linked, links, sessions, uses>>

\* invite: an account without a password, and a link to it, in one transaction.
Invite(q, u, l) ==
  /\ accounts[u].status = "absent"
  /\ links[l] = NoLink
  /\ Begin(q, Idle)
  /\ accounts' = [accounts EXCEPT ![u].status = "invited"]
  /\ links' = [links EXCEPT ![l] = [status |-> "open", user |-> u]]
  /\ UNCHANGED <<linked, sessions, uses>>

\* An administrator enables or disables an account; the transaction ends the sessions it
\* finds.
StatusBegin(q, u, to) ==
  /\ accounts[u].status # "absent"
  /\ RowFree(u)
  /\ Begin(q, [Idle EXCEPT !.op = "status", !.user = u, !.to = to, !.rows = OpenSessions(u)])
  /\ UNCHANGED <<accounts, linked, links, sessions, uses>>

StatusCommit(q) ==
  /\ requests[q].op = "status"
  /\ accounts' = [accounts EXCEPT ![requests[q].user].status = requests[q].to]
  /\ sessions' = Ended(requests[q].rows)
  /\ End(q)
  /\ UNCHANGED <<linked, links, made, uses>>

\* Faulty variant: the account is not looked for.
LinkAnybody(q, u) ==
  /\ Begin(q, Idle)
  /\ linked' = linked \cup {u}
  /\ UNCHANGED <<accounts, links, sessions, uses>>

\* One federated identity for an account; mapped twice to one account, it stays as it is.
Link(q, u) ==
  /\ accounts[u].status # "absent"
  /\ Begin(q, Idle)
  /\ linked' = linked \cup {u}
  /\ UNCHANGED <<accounts, links, sessions, uses>>

UnlinkBegin(q, u) ==
  /\ u \in linked
  /\ Begin(q, [Idle EXCEPT !.op = "unlink", !.user = u, !.rows = OpenSessions(u)])
  /\ UNCHANGED <<accounts, linked, links, sessions, uses>>

UnlinkCommit(q) ==
  /\ requests[q].op = "unlink"
  /\ linked' = linked \ {requests[q].user}
  /\ sessions' = Ended(requests[q].rows)
  /\ End(q)
  /\ UNCHANGED <<accounts, links, made, uses>>

-----------------------------------------------------------------------------
(* Sessions.                                                                *)

\* The password is right, or the provider vouches for a mapped identity.
Login(q, u) ==
  /\ \/ Active(u) /\ accounts[u].password # 0
     \/ u \in linked
  /\ Begin(q, [Idle EXCEPT !.op = "login", !.user = u])
  /\ UNCHANGED <<accounts, linked, links, sessions, uses>>

\* session() finds the account active; the transaction that follows does not look again.
Admit(q) ==
  /\ requests[q].op = "login"
  /\ Active(requests[q].user)
  /\ requests' = [requests EXCEPT ![q].op = "opening"]
  /\ UNCHANGED <<accounts, linked, links, sessions, made, uses>>

\* Faulty variant: the opening does not wait for the row of the account.
OpenSessionAnyway(q, s) ==
  /\ requests[q].op = "opening"
  /\ sessions[s] = NoSession
  /\ sessions' = [sessions EXCEPT ![s] = [status |-> "open", user |-> requests[q].user]]
  /\ End(q)
  /\ UNCHANGED <<accounts, linked, links, made, uses>>

\* The row of an active account is updated, and waited for; of another none is touched.
OpenSession(q, s) ==
  LET u == requests[q].user IN
  /\ requests[q].op = "opening"
  /\ Active(u) => RowFree(u)
  /\ sessions[s] = NoSession
  /\ sessions' = [sessions EXCEPT ![s] = [status |-> "open", user |-> u]]
  /\ End(q)
  /\ UNCHANGED <<accounts, linked, links, made, uses>>

\* A logout, or the end of its eight hours.
EndSession(s) ==
  /\ sessions[s].status = "open"
  /\ sessions' = Ended({s})
  /\ UNCHANGED <<accounts, linked, links, requests, made, uses>>

-----------------------------------------------------------------------------
(* Passwords and links.                                                     *)

\* Faulty variant: nobody waits for the lock of the links of an account.
LinkLockUnheeded(u) == u \in Users

LinkLockFree(u) == \A q \in Requests : requests[q].op = "issue" => requests[q].user # u

\* The context of a recovery has no World, and what it enqueues and records needs one.
Records(by) == by = "admin" \/ RecoversInWorld = "yes"

\* A person asks to recover an account, or an administrator sends its link again.  Under
\* the lock of the account the transaction closes the links it finds.
IssueRead(q, u, by) ==
  /\ accounts[u].status \in (IF by = "admin" THEN {"active", "invited"} ELSE {"active"})
  /\ LinkLockFree(u)
  /\ Begin(q, [Idle EXCEPT !.op = "issue", !.user = u, !.to = by, !.rows = OpenLinks(u)])
  /\ UNCHANGED <<accounts, linked, links, sessions, uses>>

IssueCommit(q, l) ==
  /\ requests[q].op = "issue"
  /\ links[l] = NoLink
  /\ links' = IF Records(requests[q].to)
                THEN [Closed(requests[q].rows) EXCEPT ![l] = [status |-> "open",
                                                              user |-> requests[q].user]]
                ELSE links
  /\ End(q)
  /\ UNCHANGED <<accounts, linked, sessions, made, uses>>

\* consume: under the lock of the link the transaction finds it open, and its account.
ConsumeRead(q, l) ==
  /\ links[l].status = "open"
  /\ accounts[links[l].user].status \in {"active", "invited"}
  /\ \A r \in Requests : requests[r].op = "consume" => requests[r].link # l
  /\ Begin(q, [Idle EXCEPT !.op = "consume", !.link = l, !.user = links[l].user, !.seen = made + 1])
  /\ UNCHANGED <<accounts, linked, links, sessions, uses>>

ConsumeCommit(q) ==
  LET u == requests[q].user IN
  /\ requests[q].op = "consume"
  /\ RowFree(u)
  /\ IF Records("person")
       THEN /\ accounts' = [accounts EXCEPT ![u] = [status |-> "active",
                                                    password |-> requests[q].seen]]
            /\ links' = Closed(OpenLinks(u))
            /\ sessions' = Ended(OpenSessions(u))
            /\ uses' = [uses EXCEPT ![requests[q].link] = @ + 1]
       ELSE UNCHANGED <<accounts, links, sessions, uses>>
  /\ End(q)
  /\ UNCHANGED <<linked, made>>

\* changePassword compares the password with the one it reads; hashing takes its time.
ChangeRead(q, u) ==
  /\ accounts[u].password # 0
  /\ Begin(q, [Idle EXCEPT !.op = "change", !.user = u, !.seen = accounts[u].password,
                           !.to = made + 1])
  /\ UNCHANGED <<accounts, linked, links, sessions, uses>>

\* Faulty variant: the update does not compare the password.
UnchangedActive(q) == Active(requests[q].user)

Unchanged(q) ==
  Active(requests[q].user) /\ accounts[requests[q].user].password = requests[q].seen

ChangeCommit(q) ==
  LET u == requests[q].user IN
  /\ requests[q].op = "change"
  /\ RowFree(u)
  /\ Unchanged(q)
  /\ accounts' = [accounts EXCEPT ![u].password = requests[q].to]
  /\ sessions' = Ended(OpenSessions(u))
  /\ links' = Closed(OpenLinks(u))
  /\ End(q)
  /\ UNCHANGED <<linked, made, uses>>

\* The hour of a link is over.
ExpireLink(l) ==
  /\ links[l].status = "open"
  /\ links' = Closed({l})
  /\ UNCHANGED <<accounts, linked, sessions, requests, made, uses>>

\* A request is refused, fails or dies; its transaction leaves nothing.
Leave(q) ==
  /\ requests[q] # Idle
  /\ End(q)
  /\ UNCHANGED <<accounts, linked, links, sessions, made, uses>>

Next ==
  \/ \E q \in Requests, u \in Users :
       \/ CreateUser(q, u) \/ Link(q, u) \/ UnlinkBegin(q, u) \/ Login(q, u) \/ ChangeRead(q, u)
       \/ \E l \in Links : Invite(q, u, l)
       \/ \E to \in {"active", "disabled"} : StatusBegin(q, u, to)
       \/ \E by \in {"admin", "person"} : IssueRead(q, u, by)
  \/ \E q \in Requests :
       \/ StatusCommit(q) \/ UnlinkCommit(q) \/ Admit(q) \/ ConsumeCommit(q) \/ ChangeCommit(q)
       \/ Leave(q)
       \/ \E s \in Sessions : OpenSession(q, s)
       \/ \E l \in Links : IssueCommit(q, l) \/ ConsumeRead(q, l)
  \/ \E s \in Sessions : EndSession(s)
  \/ \E l \in Links : ExpireLink(l)

Spec == Init /\ [][Next]_vars

-----------------------------------------------------------------------------
(* Properties.                                                              *)

\* Type invariant.
TypeOK ==
  /\ accounts \in [Users -> [status : {"absent", "invited", "active", "disabled"},
                             password : 0 .. MaxRequests]]
  /\ linked \subseteq {u \in Users : accounts[u].status # "absent"}
  /\ links \in [Links -> [status : {"absent", "open", "closed"}, user : Users \cup {Nothing}]]
  /\ sessions \in [Sessions -> [status : {"absent", "open", "ended"},
                                user : Users \cup {Nothing}]]
  /\ \A q \in Requests : requests[q].user \in Users \cup {Nothing}
  /\ made \in 0 .. MaxRequests
  /\ uses \in [Links -> Nat]

\* Links are single: an account has at most one that is open, however many people ask
\* for one at a time, and each sets at most one password, however often it is presented.
LinksSingle ==
  /\ \A u \in Users : \A l, m \in OpenLinks(u) : l = m
  /\ \A l \in Links : uses[l] <= 1

\* A password gives way only to a request that knew that very password, whoever changed
\* it while the request was hashing, or to a link that has not been used.
PasswordEarned ==
  [][\A u \in Users : accounts'[u].password # accounts[u].password =>
       \/ accounts[u].status = "absent"
       \/ \E q \in Requests :
            /\ requests[q].user = u
            /\ \/ requests[q].op = "change" /\ requests[q].seen = accounts[u].password
               \/ requests[q].op = "consume" /\ uses[requests[q].link] = 0]_vars

\* No session outlives the disabling of its account, not even one that was being opened
\* meanwhile: the opening waits for the row of the account, and comes before the sessions
\* to end are read or after the account is disabled. It says nothing of an opening that
\* comes after: that session is refused while the account is disabled, and one opened
\* while the account is being enabled is there when it is active again.
SessionsFresh ==
  [][\A u \in Users : Active(u) /\ accounts'[u].status # "active" =>
       \A s \in Sessions : sessions'[s].user = u => sessions'[s].status # "open"]_vars

\* What COMMON_IDENTITY.md and COMPLETION_DECISIONS.md say of recovery: a link presented
\* in time sets the password of its account.
LinkHonoured ==
  [][\A q \in Requests : ConsumeCommit(q) =>
       accounts'[requests[q].user].password = requests[q].seen]_vars
=============================================================================
