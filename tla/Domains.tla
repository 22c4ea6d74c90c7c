------------------------------- MODULE Domains -------------------------------
(***************************************************************************)
(* Reservations of maintenance assets, HR reviews and learning groups      *)
(* (modules/domains/domain-management.service.ts).  No index of the        *)
(* database keeps the rows apart: two reservations of an asset, or a       *)
(* person twice in a review, are prevented by the locks of the             *)
(* transactions and by the revisions (updated_at) that updates compare.    *)
(*                                                                         *)
(* A transaction is two or three steps: what it reads, and its commit.  A  *)
(* request that names an older revision than the row has is refused, so    *)
(* that a request is only modelled with the one it finds.  There is one HR *)
(* case and one group; a person stands for a person in a role.  Well-being *)
(* records, comments, reads and permissions are left out.                  *)
(***************************************************************************)
EXTENDS Naturals

CONSTANTS
  Editors,       \* requests that can be open at the same time
  Assets,
  Slots,         \* rows of maintenance_calendar_slots
  People,
  None,          \* null: a reservation without an asset
  Horizon,       \* bound on time in the calendar
  MaxEdits       \* bound on the requests that are made

ASSUME DomainsAssumption ==
  /\ None \notin Assets
  /\ Horizon \in Nat /\ MaxEdits \in Nat

VARIABLES
  slots,         \* rows of slots
  review,        \* status and revision of the HR case
  participants,  \* number of rows of each person in the HR case
  members,       \* number of rows of each person in the group
  requests,      \* what each request has read
  edits          \* requests made so far

domainsVars == <<slots, review, participants, members, requests, edits>>

NoSlot == [status |-> "absent", asset |-> None, start |-> 0, end |-> 0, revision |-> 0]

NoRequest == [op |-> "none", on |-> None, start |-> 0, end |-> 0, to |-> "none", seen |-> 0]

DomainsInit ==
  /\ slots = [s \in Slots |-> NoSlot]
  /\ review = [status |-> "open", revision |-> 0]
  /\ participants = [p \in People |-> 0]
  /\ members = [p \in People |-> 0]
  /\ requests = [q \in Editors |-> NoRequest]
  /\ edits = 0

-----------------------------------------------------------------------------
(* Helpers.                                                                 *)

Open(q, r) ==
  /\ requests[q] = NoRequest
  /\ edits < MaxEdits
  /\ edits' = edits + 1
  /\ requests' = [requests EXCEPT ![q] = r]

Finish(q) == requests' = [requests EXCEPT ![q] = NoRequest]

\* Faulty variant: nobody waits for the lock of a calendar or a list.
LockIgnored(op, x) == op # "none" /\ x # "none"

\* No transaction holds the lock of an asset's calendar or of a person in a list.
Unlocked(op, x) == \A q \in Editors : requests[q].op = op => requests[q].on # x

Standing(s) == slots[s].status \in {"planned", "in_progress", "completed"}

Overlaps(s, start, end) == slots[s].start < end /\ slots[s].end > start

Taken(a, start, end) ==
  \E s \in Slots : Standing(s) /\ slots[s].asset = a /\ Overlaps(s, start, end)

NextOfSlot == [planned |-> {"in_progress", "cancelled"}, in_progress |-> {"completed", "cancelled"},
               completed |-> {}, cancelled |-> {}]

NextOfReview == [open |-> {"under_review", "dismissed"},
                 under_review |-> {"open", "resolved", "dismissed"},
                 resolved |-> {"open"}, dismissed |-> {"open"}]

Closed == {"resolved", "dismissed"}

-----------------------------------------------------------------------------
(* The calendar.                                                            *)

ScheduleRead(q, a, start, end) ==
  /\ start < end
  /\ a # None => Unlocked("schedule", a) /\ ~ Taken(a, start, end)
  /\ Open(q, [NoRequest EXCEPT !.op = "schedule", !.on = a, !.start = start, !.end = end])
  /\ UNCHANGED <<slots, review, participants, members>>

ScheduleCommit(q, s) ==
  /\ requests[q].op = "schedule"
  /\ slots[s] = NoSlot
  /\ slots' = [slots EXCEPT ![s] = [status |-> "planned", asset |-> requests[q].on, revision |-> 1,
                                    start |-> requests[q].start, end |-> requests[q].end]]
  /\ Finish(q)
  /\ UNCHANGED <<review, participants, members, edits>>

SlotRead(q, s, to) ==
  /\ slots[s] # NoSlot
  /\ to \in NextOfSlot[slots[s].status]
  /\ Open(q, [NoRequest EXCEPT !.op = "slot", !.on = s, !.to = to, !.seen = slots[s].revision])
  /\ UNCHANGED <<slots, review, participants, members>>

\* Faulty variant: the update does not compare the revision.
SlotThere(q) == slots[requests[q].on] # NoSlot

SlotUnchanged(q) == slots[requests[q].on].revision = requests[q].seen

SlotCommit(q) ==
  /\ requests[q].op = "slot"
  /\ SlotUnchanged(q)
  /\ slots' = [slots EXCEPT ![requests[q].on].status = requests[q].to,
                            ![requests[q].on].revision = @ + 1]
  /\ Finish(q)
  /\ UNCHANGED <<review, participants, members, edits>>

-----------------------------------------------------------------------------
(* The HR case.                                                             *)

\* The case is read before the lock of the person is taken, and not again after it.
ParticipantRead(q, p) ==
  /\ review.status \notin Closed
  /\ Open(q, [NoRequest EXCEPT !.op = "admitted", !.on = p])
  /\ UNCHANGED <<slots, review, participants, members>>

ParticipantLook(q) ==
  /\ requests[q].op = "admitted"
  /\ Unlocked("participant", requests[q].on)
  /\ participants[requests[q].on] = 0
  /\ requests' = [requests EXCEPT ![q].op = "participant"]
  /\ UNCHANGED <<slots, review, participants, members, edits>>

ParticipantCommit(q) ==
  /\ requests[q].op = "participant"
  /\ participants' = [participants EXCEPT ![requests[q].on] = @ + 1]
  /\ Finish(q)
  /\ UNCHANGED <<slots, review, members, edits>>

ReviewRead(q, to) ==
  /\ to \in NextOfReview[review.status]
  /\ Open(q, [NoRequest EXCEPT !.op = "review", !.to = to, !.seen = review.revision])
  /\ UNCHANGED <<slots, review, participants, members>>

\* Faulty variant: the update does not compare the revision.
ReviewThere(q) == requests[q].seen <= review.revision

ReviewUnchanged(q) == review.revision = requests[q].seen

ReviewCommit(q) ==
  /\ requests[q].op = "review"
  /\ ReviewUnchanged(q)
  /\ review' = [status |-> requests[q].to, revision |-> review.revision + 1]
  /\ Finish(q)
  /\ UNCHANGED <<slots, participants, members, edits>>

-----------------------------------------------------------------------------
(* The group.                                                               *)

MemberLook(q, p) ==
  /\ Unlocked("member", p)
  /\ members[p] = 0
  /\ Open(q, [NoRequest EXCEPT !.op = "member", !.on = p])
  /\ UNCHANGED <<slots, review, participants, members>>

MemberCommit(q) ==
  /\ requests[q].op = "member"
  /\ members' = [members EXCEPT ![requests[q].on] = @ + 1]
  /\ Finish(q)
  /\ UNCHANGED <<slots, review, participants, edits>>

\* Faulty variant: the row is not looked for.
RemoveUnseen(q, p) ==
  /\ Open(q, NoRequest)
  /\ members' = [members EXCEPT ![p] = @ - 1]
  /\ UNCHANGED <<slots, review, participants>>

\* The row is deleted by its identity; one that is gone makes the transaction fail.
RemoveMember(q, p) ==
  /\ members[p] > 0
  /\ Open(q, NoRequest)
  /\ members' = [members EXCEPT ![p] = @ - 1]
  /\ UNCHANGED <<slots, review, participants>>

\* A request finds what it would create, is refused, fails or dies.
Leave(q) ==
  /\ requests[q] # NoRequest
  /\ Finish(q)
  /\ UNCHANGED <<slots, review, participants, members, edits>>

DomainsNext ==
  \E q \in Editors :
    \/ \E a \in Assets \cup {None}, start, end \in 0 .. Horizon : ScheduleRead(q, a, start, end)
    \/ \E s \in Slots :
         \/ ScheduleCommit(q, s)
         \/ \E to \in {"in_progress", "completed", "cancelled"} : SlotRead(q, s, to)
    \/ \E to \in {"open", "under_review", "resolved", "dismissed"} : ReviewRead(q, to)
    \/ \E p \in People : ParticipantRead(q, p) \/ MemberLook(q, p) \/ RemoveMember(q, p)
    \/ SlotCommit(q) \/ ParticipantLook(q) \/ ParticipantCommit(q) \/ ReviewCommit(q)
    \/ MemberCommit(q) \/ Leave(q)

DomainsSpec == DomainsInit /\ [][DomainsNext]_domainsVars

-----------------------------------------------------------------------------
(* Properties.                                                              *)

Slot == [status : {"absent"} \cup DOMAIN NextOfSlot, asset : Assets \cup {None},
         start : 0 .. Horizon, end : 0 .. Horizon, revision : Nat]

\* Type invariant.
DomainsTypeOK ==
  /\ slots \in [Slots -> Slot]
  /\ review \in [status : DOMAIN NextOfReview, revision : Nat]
  /\ participants \in [People -> Nat] /\ members \in [People -> Nat]
  /\ \A q \in Editors : requests[q].on \in Assets \cup Slots \cup People \cup {None}
  /\ edits \in 0 .. MaxEdits

\* Nothing is there twice: no two reservations of an asset that stand overlap, although a
\* reservation is looked for, made, begun and cancelled by requests that saw the calendar at
\* different times, and nobody is twice in a review or in a group.
Exclusive ==
  /\ \A s, t \in Slots : s # t /\ Standing(s) /\ Standing(t) /\ slots[s].asset = slots[t].asset =>
       slots[s].asset = None \/ ~ Overlaps(s, slots[t].start, slots[t].end)
  /\ \A p \in People : participants[p] <= 1 /\ members[p] <= 1

\* A review and a reservation pass only from one status to the next one of the table,
\* whichever status the request was judged by.
JudgedAsRead ==
  [][ /\ review'.status # review.status => review'.status \in NextOfReview[review.status]
      /\ \A s \in Slots : slots[s] # NoSlot /\ slots'[s].status # slots[s].status =>
           slots'[s].status \in NextOfSlot[slots[s].status]]_domainsVars
=============================================================================
