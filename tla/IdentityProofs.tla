---------------------------- MODULE IdentityProofs ----------------------------
(***************************************************************************)
(* Proofs about Identity, for any number of accounts, links, sessions and  *)
(* concurrent requests, and whether or not a recovery has a World.         *)
(*                                                                         *)
(* The inductive invariant says what a request under way may rely on: the  *)
(* lock of an account's links makes the rows it has read all the open ones *)
(* there are, and the lock of a link keeps it unused until its only        *)
(* consumer commits, though others may close it meanwhile. The lock of an  *)
(* account's row makes the sessions read under it all the open ones, while *)
(* the account is active.                                                  *)
(***************************************************************************)
EXTENDS Identity, TLAPS

-----------------------------------------------------------------------------
(* The inductive invariant.                                                 *)

Account == [status : {"absent", "invited", "active", "disabled"}, password : 0 .. MaxRequests]
LinkRow == [status : {"absent", "open", "closed"}, user : Users \cup {Nothing}]
SessionRow == [status : {"absent", "open", "ended"}, user : Users \cup {Nothing}]

Request == [op : {"none", "status", "unlink", "login", "opening", "issue", "consume", "change"},
            user : Users \cup {Nothing}, seen : 0 .. MaxRequests, link : Links \cup {Nothing},
            to : {"active", "disabled", "admin", "person", Nothing} \cup 0 .. MaxRequests,
            rows : (SUBSET Links) \cup (SUBSET Sessions)]

\* What a request carries, by its operation.
Carries(r) ==
  /\ r.op \in {"status", "unlink"} => r.user \in Users /\ r.rows \subseteq Sessions
  /\ r.op = "status" => r.to \in {"active", "disabled"}
  /\ r.op = "issue" => r.user \in Users /\ r.rows \subseteq Links
  /\ r.op = "consume" => r.user \in Users /\ r.link \in Links
  /\ r.op = "change" => r.user \in Users /\ r.to \in 0 .. MaxRequests /\ r.seen # 0
  /\ r.op \in {"login", "opening"} => r.user \in Users

TypedRequests ==
  /\ requests \in [Requests -> Request]
  /\ \A q \in Requests : Carries(requests[q])

TypeInv ==
  /\ accounts \in [Users -> Account]
  /\ linked \subseteq {u \in Users : accounts[u].status # "absent"}
  /\ links \in [Links -> LinkRow]
  /\ sessions \in [Sessions -> SessionRow]
  /\ TypedRequests
  /\ made \in 0 .. MaxRequests
  /\ uses \in [Links -> Nat]

\* A link belongs to an account that exists, and is the only open one it has.
Owned ==
  /\ \A l \in Links : links[l].status # "absent" =>
       links[l].user \in Users /\ accounts[links[l].user].status # "absent"
  /\ \A l, m \in Links : /\ links[l].status = "open" /\ links[m].status = "open"
                         /\ links[l].user = links[m].user
                         => l = m

\* Who issues a link has read all the open ones, and is alone with the account's links.
Issuing ==
  /\ \A q \in Requests : requests[q].op = "issue" =>
       /\ accounts[requests[q].user].status # "absent"
       /\ \A l \in requests[q].rows : links[l].status # "absent"
       /\ \A l \in Links : links[l].status = "open" /\ links[l].user = requests[q].user =>
            l \in requests[q].rows
  /\ \A q, r \in Requests : /\ requests[q].op = "issue" /\ requests[r].op = "issue"
                            /\ requests[q].user = requests[r].user
                            => q = r

\* Who consumes a link is alone with it and finds it unused, closed or not.
Consuming ==
  /\ \A q \in Requests : requests[q].op = "consume" =>
       /\ links[requests[q].link].status # "absent"
       /\ links[requests[q].link].user = requests[q].user
       /\ uses[requests[q].link] = 0
  /\ \A q, r \in Requests : /\ requests[q].op = "consume" /\ requests[r].op = "consume"
                            /\ requests[q].link = requests[r].link
                            => q = r
  /\ \A l \in Links : uses[l] <= 1 /\ (links[l].status # "closed" => uses[l] = 0)

\* A transaction that changes the status of an account is alone with its row; while the
\* account is active, it has read all the open sessions there are.
Holding ==
  /\ \A q \in Requests : requests[q].op = "status" =>
       /\ accounts[requests[q].user].status # "absent"
       /\ Active(requests[q].user) => OpenSessions(requests[q].user) \subseteq requests[q].rows
  /\ \A q, r \in Requests : /\ requests[q].op = "status" /\ requests[r].op = "status"
                            /\ requests[q].user = requests[r].user
                            => q = r

IInv == TypeInv /\ Owned /\ Issuing /\ Consuming /\ Holding

-----------------------------------------------------------------------------
(* The helpers.                                                             *)

\* Every link is as it was, or has been closed.
Closing ==
  \A l \in Links : /\ links'[l].user = links[l].user
                   /\ \/ links'[l].status = links[l].status
                      \/ links[l].status # "absent" /\ links'[l].status = "closed"

\* Every account that exists goes on existing.
Lasting == \A u \in Users : accounts[u].status # "absent" => accounts'[u].status # "absent"

\* No request begins to hold a lock, or goes on with other rows.
Calm ==
  \A q \in Requests :
    requests'[q].op \in {"issue", "consume", "status"} => requests'[q] = requests[q]

\* No request begins to hold the row of an account.
Steady == \A q \in Requests : requests'[q].op = "status" => requests'[q] = requests[q]

\* No session is opened.
Shut == \A s \in Sessions : sessions'[s].status = "open" => sessions'[s] = sessions[s]

\* No account whose row is held, and goes on being held, becomes active.
Asleep ==
  \A q \in Requests : requests[q].op = "status" /\ requests'[q] = requests[q]
                        /\ accounts'[requests[q].user].status = "active"
                        => Active(requests[q].user)

LEMMA ClosedFacts ==
  ASSUME TypeInv, NEW ls, \A l \in ls : l \in Links /\ links[l].status # "absent"
  PROVE  /\ Closed(ls) \in [Links -> LinkRow]
         /\ \A l \in Links : /\ Closed(ls)[l].user = links[l].user
                             /\ l \notin ls => Closed(ls)[l] = links[l]
                             /\ l \in ls => Closed(ls)[l].status = "closed"
<1>1. \A l \in Links : links[l] \in LinkRow
  BY DEF TypeInv
<1> QED  BY <1>1 DEF Closed, LinkRow

LEMMA ClosedIsClosing ==
  ASSUME TypeInv, NEW ls, \A l \in ls : l \in Links /\ links[l].status # "absent",
         links' = Closed(ls)
  PROVE  links' \in [Links -> LinkRow] /\ Closing
BY ClosedFacts DEF Closing

LEMMA EndedFacts ==
  ASSUME TypeInv, NEW ss \in SUBSET Sessions
  PROVE  /\ Ended(ss) \in [Sessions -> SessionRow]
         /\ \A s \in Sessions : /\ s \in ss => Ended(ss)[s].status = "ended"
                                /\ s \notin ss => Ended(ss)[s] = sessions[s]
<1>1. \A s \in Sessions : sessions[s] \in SessionRow
  BY DEF TypeInv
<1> QED  BY <1>1 DEF Ended, SessionRow

LEMMA EndedIsShut ==
  ASSUME TypeInv, NEW ss \in SUBSET Sessions, sessions' = Ended(ss)
  PROVE  sessions' \in [Sessions -> SessionRow] /\ Shut
BY EndedFacts DEF Shut

LEMMA IdleFacts ==
  /\ Idle \in Request /\ Carries(Idle) /\ Idle.op = "none"
BY IdentityAssumption DEF Idle, Request, Carries, IdentityAssumption

LEMMA BeginFacts ==
  ASSUME TypeInv, NEW q \in Requests, NEW r \in Request, Carries(r), Begin(q, r)
  PROVE  /\ TypedRequests' /\ made' \in 0 .. MaxRequests /\ made' = made + 1
         /\ requests'[q] = r /\ requests[q].op = "none"
         /\ \A p \in Requests \ {q} : requests'[p] = requests[p]
<1>1. made' \in 0 .. MaxRequests /\ made' = made + 1
  BY IdentityAssumption DEF Begin, TypeInv, IdentityAssumption
<1>2. requests' = [requests EXCEPT ![q] = r] /\ requests[q].op = "none"
  BY IdleFacts DEF Begin
<1> QED  BY <1>1, <1>2 DEF TypeInv, TypedRequests

LEMMA EndFacts ==
  ASSUME TypeInv, NEW q \in Requests, End(q)
  PROVE  /\ TypedRequests' /\ requests'[q].op = "none"
         /\ \A p \in Requests \ {q} : requests'[p] = requests[p]
BY IdleFacts DEF End, TypeInv, TypedRequests

-----------------------------------------------------------------------------
(* Each part of the invariant, on what it depends on.                       *)

LEMMA OwnedKept ==
  ASSUME IInv, Closing, Lasting
  PROVE  Owned'
BY DEF IInv, Owned, Closing, Lasting

LEMMA IssuingKept ==
  ASSUME IInv, Closing, Lasting, Calm
  PROVE  Issuing'
<1>1. \A q \in Requests : requests[q].op = "issue" =>
        requests[q].user \in Users /\ requests[q].rows \subseteq Links
  BY DEF IInv, TypeInv, TypedRequests, Carries
<1> QED  BY <1>1 DEF IInv, Issuing, Closing, Lasting, Calm

LEMMA ConsumingKept ==
  ASSUME IInv, Closing, Calm, uses' = uses
  PROVE  Consuming'
<1>1. \A q \in Requests : requests[q].op = "consume" => requests[q].link \in Links
  BY DEF IInv, TypeInv, TypedRequests, Carries
<1> QED  BY <1>1 DEF IInv, Consuming, Closing, Calm

LEMMA HoldingKept ==
  ASSUME IInv, Lasting, Steady, Shut, Asleep
  PROVE  Holding'
<1>1. \A q \in Requests : requests[q].op = "status" => requests[q].user \in Users
  BY DEF IInv, TypeInv, TypedRequests, Carries
<1>2. ASSUME NEW q \in Requests, requests'[q].op = "status"
      PROVE  /\ requests'[q] = requests[q] /\ accounts'[requests[q].user].status # "absent"
             /\ Active(requests[q].user)' =>
                  OpenSessions(requests[q].user)' \subseteq requests[q].rows
  <2>1. requests'[q] = requests[q] /\ requests[q].user \in Users
    BY <1>1, <1>2 DEF Steady
  <2>2. accounts'[requests[q].user].status # "absent"
    BY <1>2, <2>1 DEF IInv, Holding, Lasting
  <2>3. ASSUME accounts'[requests[q].user].status = "active", NEW s \in Sessions,
               sessions'[s].status = "open", sessions'[s].user = requests[q].user
        PROVE  s \in requests[q].rows
    BY <1>2, <2>1, <2>3 DEF IInv, Holding, Shut, Asleep, OpenSessions
  <2> QED  BY <2>1, <2>2, <2>3 DEF Active, OpenSessions
<1> QED  BY <1>2 DEF IInv, Holding, Active, OpenSessions

\* A step that issues and consumes no link keeps the invariant.
LEMMA Quiet ==
  ASSUME IInv, accounts' \in [Users -> Account], Lasting,
         linked' \subseteq {u \in Users : accounts'[u].status # "absent"},
         links' \in [Links -> LinkRow], Closing,
         sessions' \in [Sessions -> SessionRow], Shut, Asleep, TypedRequests', Calm,
         made' \in 0 .. MaxRequests, uses' = uses
  PROVE  IInv'
<1>1. Steady
  BY DEF Calm, Steady
<1> QED  BY <1>1, OwnedKept, IssuingKept, ConsumingKept, HoldingKept DEF IInv, TypeInv

\* What is unchanged asks for nothing.
LEMMA LinksStay ==
  ASSUME IInv, links' = links
  PROVE  links' \in [Links -> LinkRow] /\ Closing
BY DEF IInv, TypeInv, Closing

LEMMA SessionsStay ==
  ASSUME IInv, sessions' = sessions
  PROVE  sessions' \in [Sessions -> SessionRow] /\ Shut
BY DEF IInv, TypeInv, Shut

LEMMA AccountsStay ==
  ASSUME IInv, UNCHANGED <<accounts, linked>>
  PROVE  /\ accounts' \in [Users -> Account] /\ Lasting /\ Asleep
         /\ linked' \subseteq {u \in Users : accounts'[u].status # "absent"}
BY DEF IInv, TypeInv, Lasting, Asleep, Active

\* An account gets another status or password; if it becomes active, nobody else has its row.
LEMMA AccountChanged ==
  ASSUME IInv, NEW u \in Users, NEW x \in Account, x.status # "absent",
         accounts' = [accounts EXCEPT ![u] = x], linked' \subseteq linked,
         \/ accounts[u].status \in {"absent", "active"}
         \/ \A q \in Requests : requests[q].op = "status" /\ requests[q].user = u
                                 => requests'[q] # requests[q]
  PROVE  /\ accounts' \in [Users -> Account] /\ Lasting /\ Asleep
         /\ linked' \subseteq {v \in Users : accounts'[v].status # "absent"}
<1>1. /\ accounts' \in [Users -> Account] /\ accounts'[u] = x
      /\ \A v \in Users \ {u} : accounts'[v] = accounts[v]
  BY DEF IInv, TypeInv
<1>2. /\ Lasting /\ linked' \subseteq {v \in Users : accounts'[v].status # "absent"}
  BY <1>1 DEF IInv, TypeInv, Lasting
<1>3. \A q \in Requests : requests[q].op = "status" =>
        requests[q].user \in Users /\ accounts[requests[q].user].status # "absent"
  BY DEF IInv, Holding, TypeInv, TypedRequests, Carries
<1>4. Asleep
  BY <1>1, <1>3 DEF Asleep, Active
<1> QED  BY <1>1, <1>2, <1>4

LEMMA Ending ==
  ASSUME IInv, NEW q \in Requests, End(q)
  PROVE  TypedRequests' /\ Calm /\ requests'[q].op = "none"
BY EndFacts DEF IInv, Calm

LEMMA Beginning ==
  ASSUME IInv, NEW q \in Requests, NEW r \in Request, Carries(r),
         r.op \notin {"issue", "consume", "status"},
         Begin(q, r)
  PROVE  TypedRequests' /\ Calm /\ made' \in 0 .. MaxRequests
BY BeginFacts DEF IInv, Calm

LEMMA RowsRead ==
  ASSUME TypeInv, NEW u \in Users
  PROVE  /\ OpenSessions(u) \in SUBSET Sessions /\ OpenLinks(u) \in SUBSET Links
         /\ \A l \in OpenLinks(u) : l \in Links /\ links[l].status # "absent"
BY DEF OpenSessions, OpenLinks

-----------------------------------------------------------------------------
(* The steps that issue and consume no link.                                *)

LEMMA CreateUserKeeps ==
  ASSUME IInv, NEW q \in Requests, NEW u \in Users, CreateUser(q, u)
  PROVE  IInv'
<1> DEFINE x == [status |-> "active", password |-> made']
<1>1. TypedRequests' /\ Calm /\ made' \in 0 .. MaxRequests
  BY IdleFacts, Beginning DEF CreateUser
<1>2. x \in Account /\ x.status # "absent"
  BY <1>1 DEF Account
<1>3. accounts' = [accounts EXCEPT ![u] = x]
  BY DEF CreateUser
<1> HIDE DEF x
<1>4. /\ accounts' \in [Users -> Account] /\ Lasting /\ Asleep
      /\ linked' \subseteq {v \in Users : accounts'[v].status # "absent"}
  BY <1>2, <1>3, AccountChanged DEF CreateUser
<1> QED  BY <1>1, <1>4, LinksStay, SessionsStay, Quiet DEF CreateUser

\* A request begins; nothing else changes.
LEMMA BeginKeeps ==
  ASSUME IInv, NEW q \in Requests, NEW r \in Request, Carries(r),
         r.op \notin {"issue", "consume", "status"},
         Begin(q, r), UNCHANGED <<accounts, linked, links, sessions, uses>>
  PROVE  IInv'
BY Beginning, AccountsStay, LinksStay, SessionsStay, Quiet

\* It has the row of the account, and reads its sessions.
LEMMA StatusBeginKeeps ==
  ASSUME IInv, NEW q \in Requests, NEW u \in Users, NEW to \in {"active", "disabled"},
         StatusBegin(q, u, to)
  PROVE  IInv'
<1> DEFINE r == [Idle EXCEPT !.op = "status", !.user = u, !.to = to, !.rows = OpenSessions(u)]
<1>1. r \in Request /\ Carries(r) /\ r.op = "status" /\ r.user = u /\ r.rows = OpenSessions(u)
  BY IdleFacts, RowsRead DEF Request, Carries, IInv, Idle
<1>2. /\ Begin(q, r) /\ RowFree(u) /\ accounts[u].status # "absent"
      /\ UNCHANGED <<accounts, linked, links, sessions, uses>>
  BY DEF StatusBegin
<1> HIDE DEF r
<1>3. /\ TypedRequests' /\ made' \in 0 .. MaxRequests /\ requests'[q] = r
      /\ \A p \in Requests \ {q} : requests'[p] = requests[p]
  BY <1>1, <1>2, BeginFacts DEF IInv
<1>4. Owned'
  BY <1>2, LinksStay, AccountsStay, OwnedKept
<1>5. Issuing'
  BY <1>1, <1>2, <1>3 DEF IInv, Issuing
<1>6. Consuming'
  BY <1>1, <1>2, <1>3 DEF IInv, Consuming
<1>7. Holding'
  BY <1>1, <1>2, <1>3 DEF IInv, Holding, RowFree, Active, OpenSessions
<1> QED  BY <1>2, <1>3, <1>4, <1>5, <1>6, <1>7, LinksStay, AccountsStay, SessionsStay
         DEF IInv, TypeInv

LEMMA UnlinkBeginKeeps ==
  ASSUME IInv, NEW q \in Requests, NEW u \in Users, UnlinkBegin(q, u)
  PROVE  IInv'
<1> DEFINE r == [Idle EXCEPT !.op = "unlink", !.user = u, !.rows = OpenSessions(u)]
<1>1. r \in Request /\ Carries(r) /\ r.op \notin {"issue", "consume", "status"}
  BY IdleFacts, RowsRead DEF Request, Carries, IInv, Idle
<1> HIDE DEF r
<1> QED  BY <1>1, BeginKeeps DEF UnlinkBegin, r

LEMMA LoginKeeps ==
  ASSUME IInv, NEW q \in Requests, NEW u \in Users, Login(q, u)
  PROVE  IInv'
<1> DEFINE r == [Idle EXCEPT !.op = "login", !.user = u]
<1>1. r \in Request /\ Carries(r) /\ r.op \notin {"issue", "consume", "status"}
  BY IdleFacts DEF Request, Carries, Idle
<1> HIDE DEF r
<1> QED  BY <1>1, BeginKeeps DEF Login, r

LEMMA ChangeReadKeeps ==
  ASSUME IInv, NEW q \in Requests, NEW u \in Users, ChangeRead(q, u)
  PROVE  IInv'
<1> DEFINE set == made + 1
           r == [Idle EXCEPT !.op = "change", !.user = u, !.seen = accounts[u].password, !.to = set]
<1>1. set \in 0 .. MaxRequests
  BY IdentityAssumption DEF ChangeRead, Begin, IInv, TypeInv, IdentityAssumption
<1>2. accounts[u].password \in 0 .. MaxRequests /\ accounts[u].password # 0
  BY DEF ChangeRead, IInv, TypeInv, Account
<1> HIDE DEF set
<1>3. r \in Request /\ Carries(r) /\ r.op \notin {"issue", "consume", "status"}
  BY <1>1, <1>2, IdleFacts DEF Request, Carries, Idle
<1>4. Begin(q, r) /\ UNCHANGED <<accounts, linked, links, sessions, uses>>
  BY DEF ChangeRead, set
<1> HIDE DEF r
<1> QED  BY <1>3, <1>4, BeginKeeps

LEMMA LinkKeeps ==
  ASSUME IInv, NEW q \in Requests, NEW u \in Users, Link(q, u)
  PROVE  IInv'
<1>1. TypedRequests' /\ Calm /\ made' \in 0 .. MaxRequests
  BY IdleFacts, Beginning DEF Link
<1>2. /\ accounts' \in [Users -> Account] /\ Lasting /\ Asleep
      /\ linked' \subseteq {v \in Users : accounts'[v].status # "absent"}
  BY DEF Link, IInv, TypeInv, Lasting, Asleep, Active
<1> QED  BY <1>1, <1>2, LinksStay, SessionsStay, Quiet DEF Link

LEMMA StatusCommitKeeps ==
  ASSUME IInv, NEW q \in Requests, StatusCommit(q)
  PROVE  IInv'
<1> DEFINE u == requests[q].user
           x == [accounts[u] EXCEPT !.status = requests[q].to]
<1>1. u \in Users /\ requests[q].rows \in SUBSET Sessions /\ requests[q].to \in {"active", "disabled"}
  BY DEF StatusCommit, IInv, TypeInv, TypedRequests, Carries
<1>2. x \in Account /\ x.status # "absent"
  BY <1>1 DEF IInv, TypeInv, Account
<1>3. accounts' = [accounts EXCEPT ![u] = x]
  BY DEF StatusCommit
<1>6. requests'[q].op = "none"
  BY Ending DEF StatusCommit
<1>7. \A p \in Requests : requests[p].op = "status" /\ requests[p].user = u
                           => requests'[p] # requests[p]
  BY <1>6 DEF StatusCommit, IInv, Holding
<1> HIDE DEF x, u
<1>4. /\ accounts' \in [Users -> Account] /\ Lasting /\ Asleep
      /\ linked' \subseteq {v \in Users : accounts'[v].status # "absent"}
  BY <1>1, <1>2, <1>3, <1>7, AccountChanged DEF StatusCommit
<1>5. sessions' \in [Sessions -> SessionRow] /\ Shut
  BY <1>1, EndedIsShut DEF StatusCommit, IInv
<1> QED  BY <1>4, <1>5, Ending, LinksStay, Quiet DEF StatusCommit, IInv, TypeInv

LEMMA UnlinkCommitKeeps ==
  ASSUME IInv, NEW q \in Requests, UnlinkCommit(q)
  PROVE  IInv'
<1>1. requests[q].rows \in SUBSET Sessions
  BY DEF UnlinkCommit, IInv, TypeInv, TypedRequests, Carries
<1>2. /\ accounts' \in [Users -> Account] /\ Lasting /\ Asleep
      /\ linked' \subseteq {v \in Users : accounts'[v].status # "absent"}
  BY DEF UnlinkCommit, IInv, TypeInv, Lasting, Asleep, Active
<1>3. sessions' \in [Sessions -> SessionRow] /\ Shut
  BY <1>1, EndedIsShut DEF UnlinkCommit, IInv
<1> QED  BY <1>2, <1>3, Ending, LinksStay, Quiet DEF UnlinkCommit, IInv, TypeInv

LEMMA AdmitKeeps ==
  ASSUME IInv, NEW q \in Requests, Admit(q)
  PROVE  IInv'
<1> DEFINE r == [requests[q] EXCEPT !.op = "opening"]
<1>1. requests[q] \in Request /\ requests[q].user \in Users
  BY DEF Admit, IInv, TypeInv, TypedRequests, Carries
<1>2. r \in Request /\ Carries(r) /\ r.op = "opening"
  BY <1>1 DEF Request, Carries
<1>3. requests' = [requests EXCEPT ![q] = r]
  BY DEF Admit
<1> HIDE DEF r
<1>4. TypedRequests' /\ Calm
  BY <1>2, <1>3 DEF IInv, TypeInv, TypedRequests, Calm
<1> QED  BY <1>4, AccountsStay, LinksStay, SessionsStay, Quiet DEF Admit, IInv, TypeInv

\* A session is opened while nobody has the row of its account, if that is active.
LEMMA OpenSessionKeeps ==
  ASSUME IInv, NEW q \in Requests, NEW s \in Sessions, OpenSession(q, s)
  PROVE  IInv'
<1> DEFINE u == requests[q].user
           row == [status |-> "open", user |-> u]
<1>1. /\ u \in Users /\ (Active(u) => RowFree(u)) /\ sessions' = [sessions EXCEPT ![s] = row]
      /\ End(q) /\ UNCHANGED <<accounts, linked, links, made, uses>>
  BY DEF OpenSession, IInv, TypeInv, TypedRequests, Carries
<1>2. row \in SessionRow /\ row.user = u
  BY <1>1 DEF SessionRow
<1> HIDE DEF u, row
<1>3. /\ sessions' \in [Sessions -> SessionRow] /\ sessions'[s] = row
      /\ \A t \in Sessions \ {s} : sessions'[t] = sessions[t]
  BY <1>1, <1>2 DEF IInv, TypeInv
<1>4. TypedRequests' /\ Calm /\ Steady
  BY <1>1, Ending DEF Calm, Steady
<1>5. Holding'
  <2>1. \A p \in Requests : requests'[p].op = "status" =>
          requests'[p] = requests[p] /\ (Active(requests[p].user) => requests[p].user # u)
    BY <1>1, <1>4 DEF Steady, RowFree
  <2> QED  BY <1>1, <1>2, <1>3, <2>1 DEF IInv, Holding, Active, OpenSessions
<1> QED  BY <1>1, <1>3, <1>4, <1>5, AccountsStay, LinksStay, OwnedKept, IssuingKept, ConsumingKept
         DEF IInv, TypeInv

LEMMA EndSessionKeeps ==
  ASSUME IInv, NEW s \in Sessions, EndSession(s)
  PROVE  IInv'
<1>2. sessions' \in [Sessions -> SessionRow] /\ Shut
  BY EndedIsShut DEF EndSession, IInv
<1>3. TypedRequests' /\ Calm
  BY DEF EndSession, IInv, TypeInv, TypedRequests, Calm
<1> QED  BY <1>2, <1>3, AccountsStay, LinksStay, Quiet DEF EndSession, IInv, TypeInv

LEMMA ExpireLinkKeeps ==
  ASSUME IInv, NEW l \in Links, ExpireLink(l)
  PROVE  IInv'
<1>1. links' \in [Links -> LinkRow] /\ Closing
  BY ClosedIsClosing DEF ExpireLink, IInv
<1>2. TypedRequests' /\ Calm
  BY DEF ExpireLink, IInv, TypeInv, TypedRequests, Calm
<1> QED  BY <1>1, <1>2, AccountsStay, SessionsStay, Quiet DEF ExpireLink, IInv, TypeInv

LEMMA LeaveKeeps ==
  ASSUME IInv, NEW q \in Requests, Leave(q)
  PROVE  IInv'
BY Ending, AccountsStay, LinksStay, SessionsStay, Quiet DEF Leave, IInv, TypeInv

LEMMA ChangeCommitKeeps ==
  ASSUME IInv, NEW q \in Requests, ChangeCommit(q)
  PROVE  IInv'
<1> DEFINE u == requests[q].user
           x == [accounts[u] EXCEPT !.password = requests[q].to]
<1>1. u \in Users /\ requests[q].to \in 0 .. MaxRequests
  BY DEF ChangeCommit, IInv, TypeInv, TypedRequests, Carries
<1>2. accounts[u] \in Account /\ accounts[u].status = "active"
  BY <1>1 DEF ChangeCommit, Unchanged, Active, IInv, TypeInv
<1>3. x \in Account /\ x.status # "absent"
  BY <1>1, <1>2 DEF Account
<1>4. /\ accounts' = [accounts EXCEPT ![u] = x] /\ links' = Closed(OpenLinks(u))
      /\ sessions' = Ended(OpenSessions(u))
      /\ End(q) /\ UNCHANGED <<linked, made, uses>>
  BY DEF ChangeCommit
<1> HIDE DEF x, u
<1>5. /\ accounts' \in [Users -> Account] /\ Lasting /\ Asleep
      /\ linked' \subseteq {v \in Users : accounts'[v].status # "absent"}
  BY <1>1, <1>2, <1>3, <1>4, AccountChanged
<1>6. links' \in [Links -> LinkRow] /\ Closing
  BY <1>1, <1>4, RowsRead, ClosedIsClosing DEF IInv
<1>7. sessions' \in [Sessions -> SessionRow] /\ Shut
  BY <1>1, <1>4, RowsRead, EndedIsShut DEF IInv
<1> QED  BY <1>4, <1>5, <1>6, <1>7, Ending, Quiet DEF IInv, TypeInv

-----------------------------------------------------------------------------
(* The steps that issue and consume links.                                  *)

\* An account that did not exist has no link, and nobody is issuing one.
LEMMA InviteKeeps ==
  ASSUME IInv, NEW q \in Requests, NEW u \in Users, NEW l \in Links, Invite(q, u, l)
  PROVE  IInv'
<1> DEFINE x == [accounts[u] EXCEPT !.status = "invited"]
           row == [status |-> "open", user |-> u]
<1>1. TypedRequests' /\ Calm /\ made' \in 0 .. MaxRequests
  BY IdleFacts, Beginning DEF Invite
<1>2. x \in Account /\ x.status # "absent" /\ accounts' = [accounts EXCEPT ![u] = x]
  BY DEF Invite, IInv, TypeInv, Account
<1> HIDE DEF x
<1>3. /\ accounts' \in [Users -> Account] /\ Lasting /\ Asleep
      /\ linked' \subseteq {v \in Users : accounts'[v].status # "absent"}
  BY <1>2, AccountChanged DEF Invite
<1>4. row \in LinkRow /\ row.status = "open" /\ row.user = u /\ links' = [links EXCEPT ![l] = row]
  BY DEF Invite, LinkRow
<1> HIDE DEF row
<1>5. links' \in [Links -> LinkRow] /\ links'[l] = row /\ \A m \in Links \ {l} : links'[m] = links[m]
  BY <1>4 DEF IInv, TypeInv
<1>6. links[l].status = "absent" /\ accounts[u].status = "absent" /\ accounts'[u].status # "absent"
  BY <1>2 DEF Invite, NoLink, IInv, TypeInv
<1>7. \A m \in Links : links[m].status # "absent" => links[m].user # u
  BY <1>6 DEF IInv, Owned
<1>8. Owned'
  BY <1>3, <1>4, <1>5, <1>6, <1>7 DEF IInv, Owned, Lasting
<1>9. Issuing'
  <2>1. \A r \in Requests : requests[r].op = "issue" =>
          /\ requests[r].user \in Users /\ requests[r].user # u
          /\ requests[r].rows \subseteq Links
    BY <1>6 DEF IInv, Issuing, TypeInv, TypedRequests, Carries
  <2> QED  BY <1>1, <1>3, <1>4, <1>5, <2>1 DEF IInv, Issuing, Calm, Lasting
<1>10. Consuming'
  <2>1. \A r \in Requests : requests[r].op = "consume" =>
          requests[r].link \in Links /\ requests[r].link # l
    BY <1>6 DEF IInv, Consuming, TypeInv, TypedRequests, Carries
  <2> QED  BY <1>1, <1>4, <1>5, <1>6, <2>1 DEF Invite, IInv, Consuming, Calm
<1>11. Holding'
  BY <1>1, <1>3, SessionsStay, HoldingKept DEF Invite, Calm, Steady
<1> QED  BY <1>1, <1>3, <1>5, <1>8, <1>9, <1>10, <1>11, SessionsStay DEF Invite, IInv, TypeInv

LEMMA IssueReadKeeps ==
  ASSUME IInv, NEW q \in Requests, NEW u \in Users, NEW by \in {"admin", "person"},
         IssueRead(q, u, by)
  PROVE  IInv'
<1> DEFINE r == [Idle EXCEPT !.op = "issue", !.user = u, !.to = by, !.rows = OpenLinks(u)]
<1>1. r \in Request /\ Carries(r) /\ r.op = "issue" /\ r.user = u /\ r.rows = OpenLinks(u)
  BY IdleFacts, RowsRead DEF Request, Carries, IInv, Idle
<1>2. /\ Begin(q, r) /\ LinkLockFree(u) /\ accounts[u].status # "absent"
      /\ UNCHANGED <<accounts, linked, links, sessions, uses>>
  BY DEF IssueRead
<1> HIDE DEF r
<1>3. /\ TypedRequests' /\ made' \in 0 .. MaxRequests /\ requests'[q] = r
      /\ \A p \in Requests \ {q} : requests'[p] = requests[p]
  BY <1>1, <1>2, BeginFacts DEF IInv
<1>4. Owned'
  BY <1>2, LinksStay, AccountsStay, OwnedKept
<1>5. Issuing'
  BY <1>1, <1>2, <1>3 DEF IInv, Issuing, LinkLockFree, OpenLinks
<1>6. Consuming'
  BY <1>1, <1>2, <1>3 DEF IInv, Consuming
<1>7. Steady
  BY <1>1, <1>3 DEF Steady
<1>8. Holding'
  BY <1>2, <1>7, AccountsStay, SessionsStay, HoldingKept
<1> QED  BY <1>2, <1>3, <1>4, <1>5, <1>6, <1>8, LinksStay, AccountsStay, SessionsStay
         DEF IInv, TypeInv

\* The links it has read are all the open ones, so that the new one is single.
LEMMA IssueCommitKeeps ==
  ASSUME IInv, NEW q \in Requests, NEW l \in Links, IssueCommit(q, l)
  PROVE  IInv'
<1> DEFINE u == requests[q].user
           rows == requests[q].rows
           row == [status |-> "open", user |-> u]
<1>1. /\ requests[q].op = "issue" /\ links[l] = NoLink /\ End(q)
      /\ UNCHANGED <<accounts, linked, sessions, made, uses>>
  BY DEF IssueCommit
<1>2. CASE links' = links
  BY <1>1, <1>2, Ending, AccountsStay, LinksStay, SessionsStay, Quiet DEF IInv, TypeInv
<1>3. CASE links' = [Closed(rows) EXCEPT ![l] = row]
  <2>1. u \in Users /\ rows \in SUBSET Links /\ accounts[u].status # "absent"
    BY <1>1 DEF IInv, TypeInv, TypedRequests, Carries, Issuing
  <2>2. row \in LinkRow /\ row.status = "open" /\ row.user = u
    BY <2>1 DEF LinkRow
  <2>3. \A m \in rows : m \in Links /\ links[m].status # "absent"
    BY <1>1, <2>1 DEF IInv, Issuing
  <2> HIDE DEF row
  <2>4. /\ links' \in [Links -> LinkRow] /\ links'[l] = row
        /\ \A m \in Links \ {l} : /\ links'[m].user = links[m].user
                                  /\ m \in rows => links'[m].status = "closed"
                                  /\ m \notin rows => links'[m] = links[m]
    BY <1>3, <2>2, <2>3, ClosedFacts DEF IInv
  <2>5. links[l].status = "absent"
    BY <1>1 DEF NoLink
  <2>6. \A m \in Links : links[m].status = "open" /\ links[m].user = u => m \in rows
    BY <1>1 DEF IInv, Issuing
  <2> HIDE DEF u, rows
  <2>7. Owned'
    BY <1>1, <2>1, <2>2, <2>3, <2>4, <2>6 DEF IInv, Owned
  <2>8. TypedRequests' /\ Calm /\ requests'[q].op = "none"
    BY <1>1, Ending
  <2>9. Issuing'
    <3>1. \A r \in Requests : requests'[r].op = "issue" =>
            /\ requests'[r] = requests[r] /\ requests[r].user \in Users
            /\ requests[r].user # u /\ requests[r].rows \subseteq Links
      BY <1>1, <2>8 DEF IInv, Issuing, Calm, TypeInv, TypedRequests, Carries, u
    <3>2. \A m \in Links : links'[m].status = "open" /\ links'[m].user # u =>
            links[m].status = "open" /\ links'[m].user = links[m].user
      BY <2>2, <2>4
    <3>3. \A m \in Links : links[m].status # "absent" => links'[m].status # "absent"
      BY <2>2, <2>4
    <3> QED  BY <1>1, <3>1, <3>2, <3>3 DEF IInv, Issuing
  <2>10. Consuming'
    <3>1. \A r \in Requests : requests'[r].op = "consume" =>
            /\ requests'[r] = requests[r] /\ requests[r].link \in Links /\ requests[r].link # l
      BY <2>5, <2>8 DEF IInv, Consuming, Calm, TypeInv, TypedRequests, Carries
    <3>2. \A m \in Links \ {l} : /\ links'[m].user = links[m].user
                                 /\ links[m].status # "absent" => links'[m].status # "absent"
                                 /\ links'[m].status # "closed" => links[m].status # "closed"
      BY <2>4
    <3> QED  BY <1>1, <2>5, <3>1, <3>2 DEF IInv, Consuming
  <2>11. Holding'
    BY <1>1, <2>8, AccountsStay, SessionsStay, HoldingKept DEF Calm, Steady
  <2> QED  BY <1>1, <2>4, <2>7, <2>8, <2>9, <2>10, <2>11, AccountsStay, SessionsStay
           DEF IInv, TypeInv
<1> QED  BY <1>2, <1>3 DEF IssueCommit

LEMMA ConsumeReadKeeps ==
  ASSUME IInv, NEW q \in Requests, NEW l \in Links, ConsumeRead(q, l)
  PROVE  IInv'
<1> DEFINE u == links[l].user
           next == made + 1
           r == [Idle EXCEPT !.op = "consume", !.link = l, !.user = u, !.seen = next]
<1>1. u \in Users /\ links[l].status = "open" /\ uses[l] = 0
  BY DEF ConsumeRead, IInv, Owned, Consuming
<1>2. next \in 0 .. MaxRequests
  BY IdentityAssumption DEF ConsumeRead, Begin, IInv, TypeInv, IdentityAssumption
<1>3. /\ Begin(q, r) /\ UNCHANGED <<accounts, linked, links, sessions, uses>>
      /\ \A p \in Requests : requests[p].op = "consume" => requests[p].link # l
  BY DEF ConsumeRead
<1> HIDE DEF next
<1>4. r \in Request /\ Carries(r) /\ r.op = "consume" /\ r.link = l /\ r.user = u
  BY <1>1, <1>2, IdleFacts DEF Request, Carries, Idle
<1> HIDE DEF r
<1>5. /\ TypedRequests' /\ made' \in 0 .. MaxRequests /\ requests'[q] = r
      /\ \A p \in Requests \ {q} : requests'[p] = requests[p]
  BY <1>3, <1>4, BeginFacts DEF IInv
<1>6. Owned'
  BY <1>3, LinksStay, AccountsStay, OwnedKept
<1>7. Issuing'
  BY <1>3, <1>4, <1>5 DEF IInv, Issuing
<1>8. Consuming'
  BY <1>1, <1>3, <1>4, <1>5 DEF IInv, Consuming
<1>9. Steady
  BY <1>4, <1>5 DEF Steady
<1>10. Holding'
  BY <1>3, <1>9, AccountsStay, SessionsStay, HoldingKept
<1> QED  BY <1>3, <1>5, <1>6, <1>7, <1>8, <1>10, LinksStay, AccountsStay, SessionsStay
         DEF IInv, TypeInv

\* The link it has read is used now, and not open any more.
LEMMA ConsumeCommitKeeps ==
  ASSUME IInv, NEW q \in Requests, ConsumeCommit(q)
  PROVE  IInv'
<1> DEFINE u == requests[q].user
           l == requests[q].link
           x == [status |-> "active", password |-> requests[q].seen]
<1>1. /\ requests[q].op = "consume" /\ End(q) /\ UNCHANGED <<linked, made>>
      /\ u \in Users /\ l \in Links /\ requests[q].seen \in 0 .. MaxRequests
  BY DEF ConsumeCommit, IInv, TypeInv, TypedRequests, Carries, Request
<1>2. CASE UNCHANGED <<accounts, links, sessions, uses>>
  BY <1>1, <1>2, Ending, AccountsStay, LinksStay, SessionsStay, Quiet DEF IInv, TypeInv
<1>3. CASE Records("person")
  <2>1. /\ accounts' = [accounts EXCEPT ![u] = x] /\ links' = Closed(OpenLinks(u))
        /\ sessions' = Ended(OpenSessions(u))
        /\ uses' = [uses EXCEPT ![l] = uses[l] + 1]
    BY <1>3 DEF ConsumeCommit
  <2>2. x \in Account /\ x.status # "absent"
    BY <1>1 DEF Account
  <2>11. \A p \in Requests : requests[p].op = "status" => requests[p].user # u
    BY DEF ConsumeCommit, RowFree
  <2> HIDE DEF x, u, l
  <2>3. /\ accounts' \in [Users -> Account] /\ Lasting /\ Asleep
        /\ linked' \subseteq {v \in Users : accounts'[v].status # "absent"}
    BY <1>1, <2>1, <2>2, <2>11, AccountChanged
  <2>4. links' \in [Links -> LinkRow] /\ Closing
    BY <1>1, <2>1, RowsRead, ClosedIsClosing DEF IInv
  <2>5. sessions' \in [Sessions -> SessionRow] /\ Shut
    BY <1>1, <2>1, RowsRead, EndedIsShut DEF IInv
  <2>6. TypedRequests' /\ Calm /\ requests'[q].op = "none"
    BY <1>1, Ending
  <2>7. links[l].user = u /\ links[l].status # "absent" /\ uses[l] = 0
    BY <1>1 DEF IInv, Consuming, u, l
  <2>8. links'[l].status = "closed"
    <3>1. CASE links[l].status = "open"
      BY <1>1, <2>1, <2>7, <3>1, RowsRead, ClosedFacts DEF IInv, OpenLinks
    <3>2. CASE links[l].status = "closed"
      BY <1>1, <2>4, <3>2 DEF Closing
    <3> QED  BY <1>1, <2>7, <3>1, <3>2 DEF IInv, TypeInv, LinkRow
  <2>9. /\ uses' \in [Links -> Nat] /\ uses'[l] = 1
        /\ \A m \in Links \ {l} : uses'[m] = uses[m]
    BY <1>1, <2>1, <2>7 DEF IInv, TypeInv
  <2>10. Consuming'
    <3>1. \A r \in Requests : requests'[r].op = "consume" =>
            /\ requests'[r] = requests[r] /\ requests[r].link \in Links /\ requests[r].link # l
      BY <1>1, <2>6 DEF IInv, Consuming, Calm, TypeInv, TypedRequests, Carries, l
    <3>2. \A m \in Links : uses'[m] <= 1 /\ (links'[m].status # "closed" => uses'[m] = 0)
      BY <2>4, <2>8, <2>9 DEF IInv, Consuming, Closing
    <3> QED  BY <2>4, <2>9, <3>1, <3>2 DEF IInv, Consuming, Closing
  <2>12. Holding'
    BY <2>3, <2>5, <2>6, HoldingKept DEF Calm, Steady
  <2> QED  BY <1>1, <2>3, <2>4, <2>5, <2>6, <2>9, <2>10, <2>12, OwnedKept, IssuingKept
           DEF IInv, TypeInv
<1> QED  BY <1>2, <1>3 DEF ConsumeCommit

-----------------------------------------------------------------------------
(* The theorems.                                                            *)

LEMMA InitHolds == Init => IInv
<1> SUFFICES ASSUME Init PROVE IInv
  OBVIOUS
<1>1. TypedRequests
  BY IdleFacts DEF Init, TypedRequests
<1>2. TypeInv
  BY <1>1, IdentityAssumption
     DEF Init, TypeInv, Account, LinkRow, SessionRow, NoLink, NoSession, IdentityAssumption
<1>3. Owned /\ Issuing /\ Consuming /\ Holding
  BY IdleFacts DEF Init, Owned, Issuing, Consuming, Holding, NoLink
<1> QED  BY <1>2, <1>3 DEF IInv

LEMMA StepKeeps ==
  ASSUME IInv, [Next]_vars
  PROVE  IInv'
<1>1. ASSUME NEW q \in Requests, NEW u \in Users,
             \/ CreateUser(q, u) \/ Link(q, u) \/ UnlinkBegin(q, u) \/ Login(q, u)
             \/ ChangeRead(q, u)
             \/ \E l \in Links : Invite(q, u, l)
             \/ \E to \in {"active", "disabled"} : StatusBegin(q, u, to)
             \/ \E by \in {"admin", "person"} : IssueRead(q, u, by)
      PROVE  IInv'
  BY <1>1, CreateUserKeeps, LinkKeeps, UnlinkBeginKeeps, LoginKeeps, ChangeReadKeeps, InviteKeeps,
     StatusBeginKeeps, IssueReadKeeps
<1>2. ASSUME NEW q \in Requests,
             \/ StatusCommit(q) \/ UnlinkCommit(q) \/ Admit(q) \/ ConsumeCommit(q)
             \/ ChangeCommit(q) \/ Leave(q)
             \/ \E s \in Sessions : OpenSession(q, s)
             \/ \E l \in Links : IssueCommit(q, l) \/ ConsumeRead(q, l)
      PROVE  IInv'
  BY <1>2, StatusCommitKeeps, UnlinkCommitKeeps, AdmitKeeps, ConsumeCommitKeeps, ChangeCommitKeeps,
     LeaveKeeps, OpenSessionKeeps, IssueCommitKeeps, ConsumeReadKeeps
<1>3. ASSUME NEW s \in Sessions, EndSession(s) PROVE IInv'
  BY <1>3, EndSessionKeeps
<1>4. ASSUME NEW l \in Links, ExpireLink(l) PROVE IInv'
  BY <1>4, ExpireLinkKeeps
<1>5. CASE UNCHANGED vars
  BY <1>5, AccountsStay, LinksStay, SessionsStay, Quiet
     DEF vars, IInv, TypeInv, TypedRequests, Calm
<1> QED  BY <1>1, <1>2, <1>3, <1>4, <1>5 DEF Next

LEMMA Invariance == Spec => []IInv
BY InitHolds, StepKeeps, PTL DEF Spec

\* Accounts, links, sessions and requests have their types, and a mapped account exists.
THEOREM IdentityTyped == Spec => []TypeOK
<1>1. IInv => TypeOK
  <2> SUFFICES ASSUME IInv PROVE TypeOK
    OBVIOUS
  <2>1. \A q \in Requests : requests[q].user \in Users \cup {Nothing}
    BY DEF IInv, TypeInv, TypedRequests, Request
  <2> QED  BY <2>1 DEF IInv, TypeInv, TypeOK, Account, LinkRow, SessionRow
<1> QED  BY <1>1, Invariance, PTL

\* An account has at most one open link, and a link sets at most one password.
THEOREM SingleLinks == Spec => []LinksSingle
<1>1. IInv => LinksSingle
  BY DEF IInv, Owned, Consuming, LinksSingle, OpenLinks
<1> QED  BY <1>1, Invariance, PTL

\* Only a transaction that has its row makes an active account another.
LEMMA DisabledBy ==
  ASSUME IInv, [Next]_vars, NEW u \in Users, Active(u), accounts'[u].status # "active"
  PROVE  \E q \in Requests : requests[q].user = u /\ StatusCommit(q)
<1>1. ASSUME NEW q \in Requests, NEW v \in Users,
             CreateUser(q, v) \/ \E l \in Links : Invite(q, v, l)
      PROVE  FALSE
  BY <1>1 DEF CreateUser, Invite, Active, IInv, TypeInv, Account
<1>2. ASSUME NEW q \in Requests, StatusCommit(q) PROVE requests[q].user = u
  BY <1>2 DEF StatusCommit, Active, IInv, TypeInv, Account
<1>3. ASSUME NEW q \in Requests, ConsumeCommit(q) \/ ChangeCommit(q)
      PROVE  FALSE
  BY <1>3 DEF ConsumeCommit, ChangeCommit, Active, IInv, TypeInv, Account
<1>4. ASSUME NEW q \in Requests,
             \/ UnlinkCommit(q) \/ Admit(q) \/ Leave(q)
             \/ \E s \in Sessions : OpenSession(q, s)
             \/ \E l \in Links : IssueCommit(q, l) \/ ConsumeRead(q, l)
      PROVE  FALSE
  BY <1>4 DEF UnlinkCommit, Admit, Leave, OpenSession, IssueCommit, ConsumeRead, Active
<1>5. ASSUME NEW q \in Requests, NEW v \in Users,
             \/ Link(q, v) \/ UnlinkBegin(q, v) \/ Login(q, v) \/ ChangeRead(q, v)
             \/ \E to \in {"active", "disabled"} : StatusBegin(q, v, to)
             \/ \E by \in {"admin", "person"} : IssueRead(q, v, by)
      PROVE  FALSE
  BY <1>5 DEF Link, UnlinkBegin, Login, ChangeRead, StatusBegin, IssueRead, Active
<1>6. CASE UNCHANGED vars \/ (\E s \in Sessions : EndSession(s)) \/ \E l \in Links : ExpireLink(l)
  BY <1>6 DEF vars, EndSession, ExpireLink, Active
<1> QED  BY <1>1, <1>2, <1>3, <1>4, <1>5, <1>6 DEF Next

\* It has read the sessions that are open, for none could be opened since.
LEMMA DisabledStep ==
  ASSUME IInv, [Next]_vars, NEW u \in Users, Active(u), accounts'[u].status # "active",
         NEW s \in Sessions, sessions'[s].user = u
  PROVE  sessions'[s].status # "open"
<1>1. PICK q \in Requests : requests[q].user = u /\ StatusCommit(q)
  BY DisabledBy
<1>2. /\ requests[q].rows \in SUBSET Sessions /\ sessions' = Ended(requests[q].rows)
      /\ OpenSessions(u) \subseteq requests[q].rows
  BY <1>1 DEF StatusCommit, IInv, Holding, TypeInv, TypedRequests, Carries
<1>3. CASE s \in requests[q].rows
  BY <1>2, <1>3, EndedFacts DEF IInv
<1>4. CASE s \notin requests[q].rows
  <2>1. sessions'[s] = sessions[s]
    BY <1>2, <1>4, EndedFacts DEF IInv
  <2> QED  BY <1>2, <1>4, <2>1 DEF OpenSessions
<1> QED  BY <1>3, <1>4

\* No session outlives the disabling of its account, whatever was being opened meanwhile.
THEOREM FreshSessions == Spec => SessionsFresh
<1>1. IInv /\ [Next]_vars =>
        [\A u \in Users : Active(u) /\ accounts'[u].status # "active" =>
           \A s \in Sessions : sessions'[s].user = u => sessions'[s].status # "open"]_vars
  BY DisabledStep
<1> QED  BY <1>1, Invariance, PTL DEF Spec, SessionsFresh

\* Who replaces a password: a change of it, or the use of a link.
LEMMA PasswordOf ==
  ASSUME IInv, [Next]_vars, NEW u \in Users, accounts'[u].password # accounts[u].password
  PROVE  \/ accounts[u].status = "absent"
         \/ \E q \in Requests : requests[q].user = u /\ (ChangeCommit(q) \/ ConsumeCommit(q))
<1>1. ASSUME NEW q \in Requests, NEW v \in Users,
             CreateUser(q, v) \/ \E l \in Links : Invite(q, v, l)
      PROVE  accounts[u].status = "absent"
  BY <1>1 DEF CreateUser, Invite, IInv, TypeInv, Account
<1>2. ASSUME NEW q \in Requests, StatusCommit(q) PROVE FALSE
  BY <1>2 DEF StatusCommit, IInv, TypeInv, Account
<1>3. ASSUME NEW q \in Requests, ConsumeCommit(q)
      PROVE  requests[q].user = u
  BY <1>3 DEF ConsumeCommit, IInv, TypeInv, Account
<1>4. ASSUME NEW q \in Requests, ChangeCommit(q)
      PROVE  requests[q].user = u
  BY <1>4 DEF ChangeCommit, IInv, TypeInv, Account
<1>5. ASSUME NEW q \in Requests,
             \/ UnlinkCommit(q) \/ Admit(q) \/ Leave(q)
             \/ \E s \in Sessions : OpenSession(q, s)
             \/ \E l \in Links : IssueCommit(q, l) \/ ConsumeRead(q, l)
      PROVE  FALSE
  BY <1>5 DEF UnlinkCommit, Admit, Leave, OpenSession, IssueCommit, ConsumeRead
<1>6. ASSUME NEW q \in Requests, NEW v \in Users,
             \/ Link(q, v) \/ UnlinkBegin(q, v) \/ Login(q, v) \/ ChangeRead(q, v)
             \/ \E to \in {"active", "disabled"} : StatusBegin(q, v, to)
             \/ \E by \in {"admin", "person"} : IssueRead(q, v, by)
      PROVE  FALSE
  BY <1>6 DEF Link, UnlinkBegin, Login, ChangeRead, StatusBegin, IssueRead
<1>7. CASE UNCHANGED vars \/ (\E s \in Sessions : EndSession(s)) \/ \E l \in Links : ExpireLink(l)
  BY <1>7 DEF vars, EndSession, ExpireLink
<1> QED  BY <1>1, <1>2, <1>3, <1>4, <1>5, <1>6, <1>7 DEF Next

\* Only who knows the password, or has an unused link, replaces it.
LEMMA PasswordStep ==
  ASSUME IInv, [Next]_vars, NEW u \in Users, accounts'[u].password # accounts[u].password
  PROVE  \/ accounts[u].status = "absent"
         \/ \E q \in Requests :
              /\ requests[q].user = u
              /\ \/ requests[q].op = "change" /\ requests[q].seen = accounts[u].password
                 \/ requests[q].op = "consume" /\ uses[requests[q].link] = 0
<1>1. ASSUME NEW q \in Requests, ConsumeCommit(q)
      PROVE  requests[q].op = "consume" /\ uses[requests[q].link] = 0
  BY <1>1 DEF ConsumeCommit, IInv, Consuming
<1>2. ASSUME NEW q \in Requests, ChangeCommit(q)
      PROVE  requests[q].op = "change" /\ requests[q].seen = accounts[requests[q].user].password
  BY <1>2 DEF ChangeCommit, Unchanged
<1> QED  BY <1>1, <1>2, PasswordOf

\* A password gives way only to a request that knew it, or to a link not used before.
THEOREM EarnedPassword == Spec => PasswordEarned
<1>1. IInv /\ [Next]_vars =>
        [\A u \in Users : accounts'[u].password # accounts[u].password =>
           \/ accounts[u].status = "absent"
           \/ \E q \in Requests :
                /\ requests[q].user = u
                /\ \/ requests[q].op = "change" /\ requests[q].seen = accounts[u].password
                   \/ requests[q].op = "consume" /\ uses[requests[q].link] = 0]_vars
  BY PasswordStep
<1> QED  BY <1>1, Invariance, PTL DEF Spec, PasswordEarned

-----------------------------------------------------------------------------
(* Links, with a World to record their use in and without.                  *)

\* Who has no password is given none.
StaysWithout ==
  \A u \in Users : accounts[u].status # "absent" /\ accounts[u].password = 0
                     => accounts'[u].password = 0

LEMMA WithoutStep ==
  ASSUME RecoversInWorld = "no", IInv, [Next]_vars
  PROVE  StaysWithout
<1> SUFFICES ASSUME NEW u \in Users, accounts[u].status # "absent", accounts[u].password = 0
             PROVE  accounts'[u].password = 0
  BY DEF StaysWithout
<1>1. CASE accounts'[u].password = accounts[u].password
  BY <1>1
<1>2. CASE accounts'[u].password # accounts[u].password
  <2>1. \A q \in Requests : ~(ConsumeCommit(q) /\ accounts' # accounts)
    BY DEF ConsumeCommit, Records
  <2>2. PICK q \in Requests : ChangeCommit(q) /\ requests[q].user = u
    BY <1>2, <2>1, PasswordOf
  <2>3. requests[q].op = "change" /\ requests[q].seen = accounts[u].password
    BY <2>2 DEF ChangeCommit, Unchanged
  <2>4. requests[q].seen # 0
    BY <2>3 DEF IInv, TypeInv, TypedRequests, Carries
  <2> QED  BY <2>3, <2>4
<1> QED  BY <1>1, <1>2

LEMMA UnusedStep ==
  ASSUME RecoversInWorld = "no", [Next]_vars
  PROVE  uses' = uses
<1>1. ASSUME NEW q \in Requests, NEW u \in Users,
             \/ CreateUser(q, u) \/ Link(q, u) \/ UnlinkBegin(q, u) \/ Login(q, u)
             \/ ChangeRead(q, u) \/ \E l \in Links : Invite(q, u, l)
             \/ \E to \in {"active", "disabled"} : StatusBegin(q, u, to)
             \/ \E by \in {"admin", "person"} : IssueRead(q, u, by)
      PROVE  uses' = uses
  BY <1>1 DEF CreateUser, Link, UnlinkBegin, Login, ChangeRead, Invite, StatusBegin, IssueRead
<1>2. ASSUME NEW q \in Requests,
             \/ StatusCommit(q) \/ UnlinkCommit(q) \/ Admit(q) \/ ConsumeCommit(q)
             \/ ChangeCommit(q) \/ Leave(q)
             \/ \E s \in Sessions : OpenSession(q, s)
             \/ \E l \in Links : IssueCommit(q, l) \/ ConsumeRead(q, l)
      PROVE  uses' = uses
  BY <1>2 DEF StatusCommit, UnlinkCommit, Admit, ConsumeCommit, Records, ChangeCommit, Leave,
              OpenSession, IssueCommit, ConsumeRead
<1>3. CASE UNCHANGED vars \/ (\E s \in Sessions : EndSession(s)) \/ \E l \in Links : ExpireLink(l)
  BY <1>3 DEF vars, EndSession, ExpireLink
<1> QED  BY <1>1, <1>2, <1>3 DEF Next

\* As the code of this commit records recoveries, no link, of an invitation or of a
\* recovery, is ever used, and who has been invited never has a password: what the run
\* `recovery` shows of one link holds of all.
THEOREM LinksWithoutEffect ==
  ASSUME RecoversInWorld = "no"
  PROVE  Spec => [](\A l \in Links : uses[l] = 0) /\ [][StaysWithout]_vars
<1> DEFINE Unused == \A l \in Links : uses[l] = 0
<1>1. Init => Unused
  BY DEF Init
<1>2. Unused /\ [Next]_vars => Unused'
  BY UnusedStep
<1>3. IInv /\ [Next]_vars => [StaysWithout]_vars
  BY WithoutStep
<1> QED  BY <1>1, <1>2, <1>3, Invariance, PTL DEF Spec
=============================================================================
