-------------------------------- MODULE Members --------------------------------
(***************************************************************************)
(* The members of one organisation and its invitations.                    *)
(*                                                                         *)
(* Whether a user belongs to the organisation is kept three times: in the  *)
(* organisation's memberIds, in the user's document for the security       *)
(* rules, and in the claims of his token for the API.  Joining writes the  *)
(* first two in a transaction, leaving writes them one after the other;    *)
(* the claims follow, and a failure there is compensated, or not.  The     *)
(* array itself is rewritten whole by a removal, from an earlier read.     *)
(* The user's document and his claims name one organisation: what another  *)
(* organisation does with the user writes over them.                       *)
(*                                                                         *)
(* The owner is left out: he never leaves and his place is not counted.    *)
(***************************************************************************)
EXTENDS Integers, FiniteSets

CONSTANTS
  Users,     \* the users who may join
  Invites,   \* ids of invitations
  Requests,  \* the operations asked for: the bound on a behaviour
  MaxLimit   \* the most members a plan allows

ASSUME UserAssumption == IsFiniteSet(Users)
ASSUME LimitAssumption == MaxLimit \in Nat

VARIABLES
  members,   \* org.memberIds
  mirror,    \* the organisation that each user's document names
  claim,     \* the organisation that each user's claims name
  invite,    \* the invitations
  limit,     \* org.effectiveLimits.maxMembers
  req,       \* the local state of each operation
  tainted,   \* history: users whose three copies were left to chance
  stranded,  \* history: users who accepted and never got the claims
  moved,     \* history: members whose copies another organisation wrote
  unchecked  \* history: the limit or the array was written without a look

history == <<tainted, stranded, moved, unchecked>>
vars == <<members, mirror, claim, invite, limit, req, history>>

-----------------------------------------------------------------------------
\* Mutant: the schema of an invitation does not know that it expires.
StatusWithoutExpired == {"pending", "accepted", "declined"}

Status == {"pending", "accepted", "declined", "expired"}
NoInvite == [status |-> "none"]
Invite == [who : Users, status : Status, due : BOOLEAN]

\* organizationId of a user: none, this organisation or another one.
Orgs == {"none", "here", "elsewhere"}

New == [op |-> "new"]
Over == [op |-> "over"]
InviteTask == [op : {"create", "accept"}, who : Users, id : Invites]
CloseTask == [op : {"close"}, id : Invites, to : Status]
ClaimTask ==
  [op : {"claim", "claimAdded", "unmirror", "unclaim", "readd", "remirror"},
   who : Users]
UndoTask == [op : {"undoAdd", "role"}, who : Users, was : Orgs]
ArrayTask == [op : {"remove", "rewrite"}, who : Users, seen : SUBSET Users]
OtherTask ==
  [op : {"joins", "leaves", "keeps", "restores"}, who : Users, to : Orgs]
Task ==
  {New, Over} \cup InviteTask \cup CloseTask \cup ClaimTask \cup UndoTask
    \cup ArrayTask \cup OtherTask

TypeOK ==
  /\ members \subseteq Users
  /\ mirror \in [Users -> Orgs]
  /\ claim \in [Users -> Orgs]
  /\ invite \in [Invites -> Invite \cup {NoInvite}]
  /\ limit \in 0..MaxLimit
  /\ req \in [Requests -> Task]
  /\ tainted \subseteq Users /\ stranded \subseteq Users /\ moved \subseteq Users
  /\ unchecked \in BOOLEAN

Init ==
  /\ members = {}
  /\ mirror = [u \in Users |-> "none"]
  /\ claim = [u \in Users |-> "none"]
  /\ invite = [i \in Invites |-> NoInvite]
  /\ limit = MaxLimit
  /\ req = [r \in Requests |-> New]
  /\ tainted = {} /\ stranded = {} /\ moved = {}
  /\ unchecked = FALSE

SetMirror(u, o) == mirror' = [mirror EXCEPT ![u] = o]
SetClaim(u, o) == claim' = [claim EXCEPT ![u] = o]

GoTo(r, task) == req' = [req EXCEPT ![r] = task]
Done(r) == GoTo(r, Over)

\* Mutant: one place too many.
HasRoomForOneMore == Cardinality(members) <= limit

\* checkPlanLimit(org, "members", members.length)
HasRoom == Cardinality(members) < limit

\* An operation that has begun to write u's copies.
Changes(s, u) ==
  /\ req[s].op \in {"claim", "claimAdded", "undoAdd", "role", "remove", "unmirror",
                    "unclaim", "readd", "rewrite", "remirror"}
  /\ req[s].who = u

Overlap(r, u) == IF \E s \in Requests \ {r} : Changes(s, u) THEN {u} ELSE {}

-----------------------------------------------------------------------------
Pending(i) == invite[i].status = "pending"

\* Members and pending invitations are counted, then the document is created.
CreateReads(r, u, i) ==
  /\ req[r] = New
  /\ Cardinality(members) + Cardinality({j \in Invites : Pending(j)}) < limit
  /\ u \notin members
  /\ \A j \in Invites : Pending(j) => invite[j].who # u
  /\ invite[i] = NoInvite
  /\ \A s \in Requests : req[s].op = "create" => req[s].id # i
  /\ GoTo(r, [op |-> "create", who |-> u, id |-> i])
  /\ UNCHANGED <<members, mirror, claim, invite, limit, history>>

CreateWrites(r) ==
  /\ req[r].op = "create"
  /\ invite' = [invite EXCEPT ![req[r].id] =
                  [who |-> req[r].who, status |-> "pending", due |-> FALSE]]
  /\ Done(r)
  /\ UNCHANGED <<members, mirror, claim, limit, history>>

\* The invitation is judged on this read alone.
AcceptReads(r, i) ==
  /\ req[r] = New
  /\ Pending(i) /\ ~invite[i].due
  /\ GoTo(r, [op |-> "accept", who |-> invite[i].who, id |-> i])
  /\ UNCHANGED <<members, mirror, claim, invite, limit, history>>

\* One transaction over the organisation, the invitation and the user.
AcceptCommits(r) ==
  LET u == req[r].who IN
  /\ req[r].op = "accept"
  /\ u \in members \/ HasRoom
  /\ members' = members \cup {u}
  /\ IF u \in members THEN UNCHANGED mirror ELSE SetMirror(u, "here")
  /\ invite' = [invite EXCEPT ![req[r].id].status = "accepted"]
  /\ tainted' = tainted \cup Overlap(r, u)
  /\ GoTo(r, [op |-> "claim", who |-> u])
  /\ UNCHANGED <<claim, limit, stranded, moved, unchecked>>

AcceptClaims(r) ==
  /\ req[r].op = "claim"
  /\ SetClaim(req[r].who, "here")
  /\ Done(r)
  /\ UNCHANGED <<members, mirror, invite, limit, history>>

\* Not compensated, and not mended by a second call: the invitation is no
\* longer pending.
AcceptClaimsFail(r) ==
  /\ req[r].op = "claim"
  /\ stranded' = stranded \cup
       (IF claim[req[r].who] # "here" THEN {req[r].who} ELSE {})
  /\ Done(r)
  /\ UNCHANGED <<members, mirror, claim, invite, limit, tainted, moved, unchecked>>

\* Declined, revoked, found expired, or picked up by the pruning job: each
\* reads a pending invitation first and writes what it likes afterwards.
CloseReads(r, i, to) ==
  /\ req[r] = New
  /\ Pending(i)
  /\ to = "declined" => ~invite[i].due
  /\ GoTo(r, [op |-> "close", id |-> i, to |-> to])
  /\ UNCHANGED <<members, mirror, claim, invite, limit, history>>

CloseWrites(r) ==
  /\ req[r].op = "close"
  /\ invite' = [invite EXCEPT ![req[r].id].status = req[r].to]
  /\ Done(r)
  /\ UNCHANGED <<members, mirror, claim, limit, history>>

FallsDue(i) ==
  /\ Pending(i)
  /\ invite' = [invite EXCEPT ![i].due = TRUE]
  /\ UNCHANGED <<members, mirror, claim, limit, req, history>>

-----------------------------------------------------------------------------
\* addMember: the membership and the mirror in one transaction.
AddCommits(r, u) ==
  /\ req[r] = New
  /\ u \in members \/ HasRoom
  /\ members' = members \cup {u}
  /\ IF u \in members THEN UNCHANGED mirror ELSE SetMirror(u, "here")
  /\ tainted' = tainted \cup Overlap(r, u)
  /\ GoTo(r, [op |-> "claimAdded", who |-> u])
  /\ UNCHANGED <<claim, invite, limit, stranded, moved, unchecked>>

AddClaims(r) ==
  /\ req[r].op = "claimAdded"
  /\ SetClaim(req[r].who, "here")
  /\ Done(r)
  /\ UNCHANGED <<members, mirror, invite, limit, history>>

\* The claims were read before the call that failed.
AddClaimsFail(r) ==
  LET u == req[r].who IN
  /\ req[r].op = "claimAdded"
  /\ GoTo(r, [op |-> "undoAdd", who |-> u, was |-> claim[u]])
  /\ UNCHANGED <<members, mirror, claim, invite, limit, history>>

\* Mutant: the mirror is not put back.
KeepMirror(u, o) == UNCHANGED mirror

\* The organisation that the claims name.
PutMirrorBack(u, o) == SetMirror(u, o)

\* The compensation takes the membership away, whoever gave it: a user who was
\* a member before loses it and keeps his claims.
UndoAdd(r) ==
  LET u == req[r].who IN
  /\ req[r].op = "undoAdd"
  /\ members' = members \ {u}
  /\ PutMirrorBack(u, req[r].was)
  /\ tainted' = tainted \cup (IF req[r].was = "here" THEN {u} ELSE {})
  /\ Done(r)
  /\ UNCHANGED <<claim, invite, limit, stranded, moved, unchecked>>

-----------------------------------------------------------------------------
\* Who is in the array and not in what was read, or the other way round.
Differ(a, b) == (a \ b) \cup (b \ a)

\* Whether u is a member is not asked.
RemoveReads(r, u) ==
  /\ req[r] = New
  /\ tainted' = tainted \cup Overlap(r, u)
  /\ GoTo(r, [op |-> "remove", who |-> u, seen |-> members])
  /\ UNCHANGED <<members, mirror, claim, invite, limit, stranded, moved, unchecked>>

\* The whole array, from what was read.
RemoveWrites(r) ==
  /\ req[r].op = "remove"
  /\ members' = req[r].seen \ {req[r].who}
  /\ tainted' = tainted \cup Differ(members, req[r].seen)
  /\ unchecked' = (unchecked \/ members # req[r].seen)
  /\ GoTo(r, [op |-> "unmirror", who |-> req[r].who])
  /\ UNCHANGED <<mirror, claim, invite, limit, stranded, moved>>

RemoveUnmirrors(r) ==
  /\ req[r].op = "unmirror"
  /\ SetMirror(req[r].who, "none")
  /\ GoTo(r, [op |-> "unclaim", who |-> req[r].who])
  /\ UNCHANGED <<members, claim, invite, limit, history>>

RemoveUnclaims(r) ==
  /\ req[r].op = "unclaim"
  /\ SetClaim(req[r].who, "none")
  /\ Done(r)
  /\ UNCHANGED <<members, mirror, invite, limit, history>>

\* The compensation makes a member of whoever it was called for.
RemoveUnclaimsFail(r) ==
  LET u == req[r].who IN
  /\ req[r].op = "unclaim"
  /\ tainted' = tainted \cup (IF claim[u] # "here" THEN {u} ELSE {})
  /\ GoTo(r, [op |-> "readd", who |-> u])
  /\ UNCHANGED <<members, mirror, claim, invite, limit, stranded, moved, unchecked>>

\* organizationRepository.addMember: no transaction, no limit.
ReaddReads(r) ==
  LET u == req[r].who IN
  /\ req[r].op = "readd"
  /\ GoTo(r, IF u \in members THEN [op |-> "remirror", who |-> u]
             ELSE [op |-> "rewrite", who |-> u, seen |-> members])
  /\ UNCHANGED <<members, mirror, claim, invite, limit, history>>

ReaddWrites(r) ==
  /\ req[r].op = "rewrite"
  /\ members' = req[r].seen \cup {req[r].who}
  /\ tainted' = tainted \cup Differ(members, req[r].seen)
  /\ unchecked' = (unchecked \/ members # req[r].seen \/ ~HasRoom)
  /\ GoTo(r, [op |-> "remirror", who |-> req[r].who])
  /\ UNCHANGED <<mirror, claim, invite, limit, stranded, moved>>

ReaddMirrors(r) ==
  /\ req[r].op = "remirror"
  /\ SetMirror(req[r].who, "here")
  /\ Done(r)
  /\ UNCHANGED <<members, claim, invite, limit, history>>

\* updateMemberRole: the claims are read whole and written whole.
RoleReads(r, u) ==
  /\ req[r] = New
  /\ u \in members
  /\ tainted' = tainted \cup Overlap(r, u)
  /\ GoTo(r, [op |-> "role", who |-> u, was |-> claim[u]])
  /\ UNCHANGED <<members, mirror, claim, invite, limit, stranded, moved, unchecked>>

RoleWrites(r) ==
  LET u == req[r].who IN
  /\ req[r].op = "role"
  /\ SetClaim(u, req[r].was)
  /\ Done(r)
  /\ UNCHANGED <<members, mirror, invite, limit, history>>

-----------------------------------------------------------------------------
(* The same operations of another organisation, by what they do to the     *)
(* user's document and claims.  None asks which organisation these name.   *)

\* A write of u's copies that this organisation's membership does not follow.
Disturbs(u, o) ==
  IF u \in members \/ o = "here" \/ \E s \in Requests : Changes(s, u)
    THEN {u} ELSE {}

\* An acceptance or an addition, which leaves the document of somebody who is
\* a member there already, or the creation of an organisation.
JoinElsewhere(r, u) ==
  /\ req[r] = New
  /\ UNCHANGED mirror \/ SetMirror(u, "elsewhere")
  /\ moved' = moved \cup Disturbs(u, "elsewhere")
  /\ GoTo(r, [op |-> "joins", who |-> u, to |-> "elsewhere"])
  /\ UNCHANGED <<members, claim, invite, limit, tainted, stranded, unchecked>>

\* A removal, of a member there or not.
LeaveElsewhere(r, u) ==
  /\ req[r] = New
  /\ SetMirror(u, "none")
  /\ moved' = moved \cup Disturbs(u, "none")
  /\ GoTo(r, [op |-> "leaves", who |-> u, to |-> "none"])
  /\ UNCHANGED <<members, claim, invite, limit, tainted, stranded, unchecked>>

\* A change of role reads the claims to write them back.
RoleElsewhere(r, u) ==
  /\ req[r] = New
  /\ GoTo(r, [op |-> "keeps", who |-> u, to |-> claim[u]])
  /\ UNCHANGED <<members, mirror, claim, invite, limit, history>>

ClaimsElsewhere(r) ==
  /\ req[r].op \in {"joins", "leaves", "keeps"}
  /\ SetClaim(req[r].who, req[r].to)
  /\ moved' = moved \cup Disturbs(req[r].who, req[r].to)
  /\ Done(r)
  /\ UNCHANGED <<members, mirror, invite, limit, tainted, stranded, unchecked>>

\* An addition puts back what the claims name, a removal the membership there.
ClaimsElsewhereFail(r) ==
  LET u == req[r].who IN
  /\ \/ req[r].op = "joins" /\ GoTo(r, [op |-> "restores", who |-> u, to |-> claim[u]])
     \/ req[r].op = "leaves" /\ GoTo(r, [op |-> "restores", who |-> u, to |-> "elsewhere"])
  /\ UNCHANGED <<members, mirror, claim, invite, limit, history>>

MirrorElsewhere(r) ==
  /\ req[r].op = "restores"
  /\ SetMirror(req[r].who, req[r].to)
  /\ moved' = moved \cup Disturbs(req[r].who, req[r].to)
  /\ Done(r)
  /\ UNCHANGED <<members, claim, invite, limit, tainted, stranded, unchecked>>

-----------------------------------------------------------------------------
\* upgrade and downgrade; a downgrade reads the members in its transaction.
PlanChanges(n) ==
  /\ n < limit => Cardinality(members) <= n
  /\ limit' = n
  /\ UNCHANGED <<members, mirror, claim, invite, req, history>>

\* The administrator's assignment, the PATCH of the organisation, and the
\* rollover of a scheduled downgrade where the store lets it commit.
PlanIsSet(n) ==
  /\ limit' = n
  /\ unchecked' = (unchecked \/ Cardinality(members) > n)
  /\ UNCHANGED <<members, mirror, claim, invite, req, tainted, stranded, moved>>

\* A call throws or the process dies.
Stop(r) ==
  /\ req[r] \notin {New, Over}
  /\ tainted' = tainted \cup {u \in Users : Changes(r, u)}
  /\ Done(r)
  /\ UNCHANGED <<members, mirror, claim, invite, limit, stranded, moved, unchecked>>

Next ==
  \/ \E r \in Requests :
       \/ \E u \in Users, i \in Invites : CreateReads(r, u, i)
       \/ CreateWrites(r)
       \/ \E i \in Invites : AcceptReads(r, i)
       \/ AcceptCommits(r) \/ AcceptClaims(r) \/ AcceptClaimsFail(r)
       \/ \E i \in Invites, to \in {"declined", "expired"} : CloseReads(r, i, to)
       \/ CloseWrites(r)
       \/ \E u \in Users : AddCommits(r, u) \/ RemoveReads(r, u) \/ RoleReads(r, u)
       \/ AddClaims(r) \/ AddClaimsFail(r) \/ UndoAdd(r)
       \/ RemoveWrites(r) \/ RemoveUnmirrors(r)
       \/ RemoveUnclaims(r) \/ RemoveUnclaimsFail(r)
       \/ ReaddReads(r) \/ ReaddWrites(r) \/ ReaddMirrors(r)
       \/ RoleWrites(r)
       \/ \E u \in Users :
            JoinElsewhere(r, u) \/ LeaveElsewhere(r, u) \/ RoleElsewhere(r, u)
       \/ ClaimsElsewhere(r) \/ ClaimsElsewhereFail(r) \/ MirrorElsewhere(r)
       \/ Stop(r)
  \/ \E i \in Invites : FallsDue(i)
  \/ \E n \in 0..MaxLimit : PlanChanges(n) \/ PlanIsSet(n)

Spec == Init /\ [][Next]_vars

-----------------------------------------------------------------------------
\* Invitations, additions, their compensations and downgrades race, and the
\* organisation has no more members than its plan allows; what exceeds it is a
\* rollover, an assignment or a PATCH below its members, the compensation of a
\* removal whose place was taken, or an array written over a change
\* (organization.service.ts:122, 143, invite.service.ts:137,
\* subscription.service.ts:505).
OverLimitHasACause == Cardinality(members) > limit => unchecked

\* Compensated or not, the three copies of a membership agree once nobody here
\* is changing them, unless two operations met on that user, one stopped
\* halfway, a removal wrote over his change, a compensation undid what its
\* operation had not done (organization.service.ts:184, 264), an acceptance
\* failed at its claims and could not be repeated (invite.service.ts:102, 189),
\* or another organisation wrote the copies of a member or put this one's name
\* back.  What other organisations do with a user who is no member here, in
\* whatever order, does no harm.
DriftHasACause ==
  \A u \in Users \ (tainted \cup stranded \cup moved) :
    (\A s \in Requests : ~Changes(s, u)) =>
      /\ u \in members <=> mirror[u] = "here"
      /\ u \in members <=> claim[u] = "here"
=============================================================================
