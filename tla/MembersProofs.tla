----------------------------- MODULE MembersProofs -----------------------------
(***************************************************************************)
(* Proofs about Members for every finite set of users and any number of    *)
(* invitations and operations.                                             *)
(*                                                                         *)
(* The limit is inductive once what wrote without a look is recorded; it   *)
(* needs that the invitations which operations hold on to are there.  The  *)
(* agreement of the copies needs to know, for the one operation that       *)
(* changes a user, which copies it has written: its stage.                 *)
(***************************************************************************)
EXTENDS Members, FiniteSetTheorems, TLAPS

ChangingOps ==
  {"claim", "claimAdded", "undoAdd", "role", "remove", "unmirror", "unclaim",
   "readd", "rewrite", "remirror"}

\* The invitations that the operations hold on to are there.
Known ==
  \A r \in Requests :
    req[r].op \in {"accept", "close"} => invite[req[r].id] # NoInvite

LimitInv == TypeOK /\ Known /\ OverLimitHasACause

LEMMA TaskOf ==
  ASSUME TypeOK, NEW r \in Requests
  PROVE  /\ req[r].op \in {"create", "accept"} => req[r] \in InviteTask
         /\ req[r].op = "close" => req[r] \in CloseTask
         /\ req[r].op \in {"claim", "claimAdded", "unmirror", "unclaim", "readd", "remirror"}
              => req[r] \in ClaimTask
         /\ req[r].op \in {"undoAdd", "role"} => req[r] \in UndoTask
         /\ req[r].op \in {"remove", "rewrite"} => req[r] \in ArrayTask
         /\ req[r].op \in {"joins", "leaves", "keeps", "restores"} => req[r] \in OtherTask
<1>1. req[r] \in Task
  BY DEF TypeOK
<1> QED
  BY <1>1 DEF Task, New, Over, InviteTask, CloseTask, ClaimTask, UndoTask, ArrayTask, OtherTask

\* Whoever an operation changes is a user.
LEMMA WhoOf ==
  ASSUME TypeOK, NEW r \in Requests
  PROVE  /\ req[r].op \in ChangingOps \cup {"create", "accept"} => req[r].who \in Users
         /\ req[r].op \in {"undoAdd", "role"} => req[r].was \in Orgs
         /\ req[r].op \in {"joins", "leaves", "keeps", "restores"} =>
              req[r].who \in Users /\ req[r].to \in Orgs
BY TaskOf DEF ChangingOps, InviteTask, ClaimTask, UndoTask, ArrayTask, OtherTask

LEMMA InviteOf ==
  /\ NoInvite \notin Invite
  /\ TypeOK => \A i \in Invites : invite[i] # NoInvite => invite[i] \in Invite
  /\ TypeOK => \A i \in Invites : Pending(i) => invite[i] \in Invite
BY DEF NoInvite, Invite, Status, TypeOK, Pending

LEMMA Moves ==
  ASSUME TypeOK, NEW r \in Requests, NEW t \in Task, GoTo(r, t)
  PROVE  /\ req' \in [Requests -> Task] /\ req'[r] = t
         /\ \A s \in Requests \ {r} : req'[s] = req[s]
BY DEF TypeOK, GoTo

\* The disjuncts of a step, one name for the proofs to split on.
LEMMA StepCases ==
  ASSUME [Next]_vars
  PROVE  \/ \E r \in Requests, u \in Users, i \in Invites : CreateReads(r, u, i)
         \/ \E r \in Requests : CreateWrites(r)
         \/ \E r \in Requests, i \in Invites : AcceptReads(r, i)
         \/ \E r \in Requests : AcceptCommits(r)
         \/ \E r \in Requests : AcceptClaims(r)
         \/ \E r \in Requests : AcceptClaimsFail(r)
         \/ \E r \in Requests, i \in Invites, to \in {"declined", "expired"} : CloseReads(r, i, to)
         \/ \E r \in Requests : CloseWrites(r)
         \/ \E r \in Requests, u \in Users : AddCommits(r, u)
         \/ \E r \in Requests, u \in Users : RemoveReads(r, u)
         \/ \E r \in Requests, u \in Users : RoleReads(r, u)
         \/ \E r \in Requests : AddClaims(r)
         \/ \E r \in Requests : AddClaimsFail(r)
         \/ \E r \in Requests : UndoAdd(r)
         \/ \E r \in Requests : RemoveWrites(r)
         \/ \E r \in Requests : RemoveUnmirrors(r)
         \/ \E r \in Requests : RemoveUnclaims(r)
         \/ \E r \in Requests : RemoveUnclaimsFail(r)
         \/ \E r \in Requests : ReaddReads(r)
         \/ \E r \in Requests : ReaddWrites(r)
         \/ \E r \in Requests : ReaddMirrors(r)
         \/ \E r \in Requests : RoleWrites(r)
         \/ \E r \in Requests, u \in Users : JoinElsewhere(r, u)
         \/ \E r \in Requests, u \in Users : LeaveElsewhere(r, u)
         \/ \E r \in Requests, u \in Users : RoleElsewhere(r, u)
         \/ \E r \in Requests : ClaimsElsewhere(r)
         \/ \E r \in Requests : ClaimsElsewhereFail(r)
         \/ \E r \in Requests : MirrorElsewhere(r)
         \/ \E r \in Requests : Stop(r)
         \/ \E i \in Invites : FallsDue(i)
         \/ \E n \in 0..MaxLimit : PlanChanges(n)
         \/ \E n \in 0..MaxLimit : PlanIsSet(n)
         \/ UNCHANGED vars
BY DEF Next

\* What every step does to the types: the task it goes to is a task, whoever
\* it writes is a user, and an invitation never disappears.
LEMMA TypeFrame ==
  ASSUME TypeOK, Known, NEW r \in Requests, NEW t \in Task, GoTo(r, t),
         members' \subseteq Users, mirror' \in [Users -> Orgs], claim' \in [Users -> Orgs],
         tainted' \subseteq Users, stranded' \subseteq Users, moved' \subseteq Users,
         unchecked' \in BOOLEAN, limit' \in 0..MaxLimit,
         invite' \in [Invites -> Invite \cup {NoInvite}],
         \A i \in Invites : invite[i] # NoInvite => invite'[i] # NoInvite,
         t.op \in {"accept", "close"} => invite'[t.id] # NoInvite
  PROVE  TypeOK' /\ Known'
<1>1. TypeOK'
  BY Moves DEF TypeOK
<1>2. \A s \in Requests : req[s].op \in {"accept", "close"} => req[s].id \in Invites
  BY TaskOf DEF InviteTask, CloseTask
<1>3. Known'
  BY <1>2, Moves DEF Known
<1> QED BY <1>1, <1>3

LEMMA TypeStep == TypeOK /\ Known /\ [Next]_vars => TypeOK' /\ Known'
<1> SUFFICES ASSUME TypeOK, Known, [Next]_vars PROVE TypeOK' /\ Known'
  OBVIOUS
<1>a. /\ New \in Task /\ Over \in Task /\ Over.op = "over"
      /\ InviteTask \subseteq Task /\ CloseTask \subseteq Task /\ ClaimTask \subseteq Task
      /\ UndoTask \subseteq Task /\ ArrayTask \subseteq Task /\ OtherTask \subseteq Task
  BY DEF Task, New, Over
<1>b. /\ members \subseteq Users /\ mirror \in [Users -> Orgs] /\ claim \in [Users -> Orgs]
      /\ tainted \subseteq Users /\ stranded \subseteq Users /\ moved \subseteq Users
      /\ unchecked \in BOOLEAN /\ limit \in 0..MaxLimit
      /\ invite \in [Invites -> Invite \cup {NoInvite}]
  BY DEF TypeOK
<1>c. /\ \A r \in Requests, u \in Users : Overlap(r, u) \subseteq Users
      /\ \A u \in Users, o \in Orgs : Disturbs(u, o) \subseteq Users
      /\ \A u \in Users, o \in Orgs : SetMirror(u, o) => mirror' \in [Users -> Orgs]
      /\ \A u \in Users, o \in Orgs : SetClaim(u, o) => claim' \in [Users -> Orgs]
      /\ {"none", "here", "elsewhere"} \subseteq Orgs
      /\ history' = history => UNCHANGED <<tainted, stranded, moved, unchecked>>
  BY <1>b DEF Overlap, Disturbs, SetMirror, SetClaim, Orgs, history
<1>d. ASSUME NEW i \in Invites, NEW v \in Invite, invite' = [invite EXCEPT ![i] = v]
      PROVE  /\ invite' \in [Invites -> Invite \cup {NoInvite}]
             /\ \A j \in Invites : invite[j] # NoInvite => invite'[j] # NoInvite
             /\ invite'[i] # NoInvite
  BY <1>b, <1>d, InviteOf
<1>e. /\ \A u \in Users, op \in {"claim", "claimAdded", "unmirror", "unclaim", "readd", "remirror"} :
           [op |-> op, who |-> u] \in ClaimTask
      /\ \A u \in Users, op \in {"undoAdd", "role"}, o \in Orgs :
           [op |-> op, who |-> u, was |-> o] \in UndoTask
      /\ \A u \in Users, op \in {"remove", "rewrite"}, m \in SUBSET Users :
           [op |-> op, who |-> u, seen |-> m] \in ArrayTask
      /\ \A u \in Users, op \in {"joins", "leaves", "keeps", "restores"}, o \in Orgs :
           [op |-> op, who |-> u, to |-> o] \in OtherTask
  BY DEF ClaimTask, UndoTask, ArrayTask, OtherTask
<1>1. ASSUME NEW r \in Requests, NEW u \in Users, NEW i \in Invites, CreateReads(r, u, i)
      PROVE  TypeOK' /\ Known'
  <2>1. [op |-> "create", who |-> u, id |-> i] \in InviteTask
    BY DEF InviteTask
  <2> QED BY <1>1, <1>a, <1>b, <1>c, <2>1, TypeFrame DEF CreateReads
<1>2. ASSUME NEW r \in Requests, CreateWrites(r) PROVE TypeOK' /\ Known'
  <2>1. req[r].id \in Invites /\ req[r].who \in Users
    BY <1>2, TaskOf DEF CreateWrites, InviteTask
  <2>2. [who |-> req[r].who, status |-> "pending", due |-> FALSE] \in Invite
    BY <2>1 DEF Invite, Status
  <2>3. GoTo(r, Over) /\ UNCHANGED <<members, mirror, claim, limit, history>>
        /\ invite' = [invite EXCEPT ![req[r].id] =
                        [who |-> req[r].who, status |-> "pending", due |-> FALSE]]
    BY <1>2 DEF CreateWrites, Done
  <2>4. /\ invite' \in [Invites -> Invite \cup {NoInvite}]
        /\ \A j \in Invites : invite[j] # NoInvite => invite'[j] # NoInvite
    BY <1>d, <2>1, <2>2, <2>3
  <2> QED BY <1>a, <1>b, <1>c, <2>3, <2>4, TypeFrame
<1>3. ASSUME NEW r \in Requests, NEW i \in Invites, AcceptReads(r, i) PROVE TypeOK' /\ Known'
  <2>1. invite[i] \in Invite
    BY <1>3, InviteOf DEF AcceptReads
  <2>2. [op |-> "accept", who |-> invite[i].who, id |-> i] \in InviteTask
    BY <2>1 DEF InviteTask, Invite
  <2> QED BY <1>3, <1>a, <1>b, <1>c, <2>1, <2>2, InviteOf, TypeFrame DEF AcceptReads
<1>4. ASSUME NEW r \in Requests, AcceptCommits(r) PROVE TypeOK' /\ Known'
  <2> DEFINE v == [invite[req[r].id] EXCEPT !.status = "accepted"]
  <2>1. req[r].id \in Invites /\ req[r].who \in Users
    BY <1>4, TaskOf DEF AcceptCommits, InviteTask
  <2>2. invite[req[r].id] \in Invite
    BY <1>4, <2>1, InviteOf DEF AcceptCommits, Known
  <2>3. v \in Invite
    BY <2>2 DEF Invite, Status
  <2>4. GoTo(r, [op |-> "claim", who |-> req[r].who]) /\ UNCHANGED <<claim, limit, stranded, moved, unchecked>>
        /\ invite' = [invite EXCEPT ![req[r].id] = v]
        /\ members' \subseteq Users /\ mirror' \in [Users -> Orgs] /\ tainted' \subseteq Users
    BY <1>4, <1>b, <1>c, <2>1 DEF AcceptCommits
  <2> HIDE DEF v
  <2>5. /\ invite' \in [Invites -> Invite \cup {NoInvite}]
        /\ \A j \in Invites : invite[j] # NoInvite => invite'[j] # NoInvite
    BY <1>d, <2>1, <2>3, <2>4
  <2> QED BY <1>a, <1>b, <1>c, <1>e, <2>1, <2>4, <2>5, TypeFrame
<1>5. ASSUME NEW r \in Requests, AcceptClaims(r) PROVE TypeOK' /\ Known'
  BY <1>5, <1>a, <1>b, <1>c, WhoOf, TypeFrame DEF AcceptClaims, ChangingOps, Done
<1>6. ASSUME NEW r \in Requests, NEW i \in Invites, NEW to \in {"declined", "expired"},
             CloseReads(r, i, to)
      PROVE  TypeOK' /\ Known'
  <2>1. [op |-> "close", id |-> i, to |-> to] \in CloseTask
    BY DEF CloseTask, Status
  <2>2. invite[i] # NoInvite
    BY <1>6, InviteOf DEF CloseReads
  <2> QED BY <1>6, <1>a, <1>b, <1>c, <2>1, <2>2, TypeFrame DEF CloseReads
<1>7. ASSUME NEW r \in Requests, CloseWrites(r) PROVE TypeOK' /\ Known'
  <2> DEFINE v == [invite[req[r].id] EXCEPT !.status = req[r].to]
  <2>1. req[r].id \in Invites /\ req[r].to \in Status
    BY <1>7, TaskOf DEF CloseWrites, CloseTask
  <2>2. invite[req[r].id] \in Invite
    BY <1>7, <2>1, InviteOf DEF CloseWrites, Known
  <2>3. v \in Invite
    BY <2>1, <2>2 DEF Invite
  <2>4. GoTo(r, Over) /\ UNCHANGED <<members, mirror, claim, limit, history>>
        /\ invite' = [invite EXCEPT ![req[r].id] = v]
    BY <1>7 DEF CloseWrites, Done
  <2> HIDE DEF v
  <2>5. /\ invite' \in [Invites -> Invite \cup {NoInvite}]
        /\ \A j \in Invites : invite[j] # NoInvite => invite'[j] # NoInvite
    BY <1>d, <2>1, <2>3, <2>4
  <2> QED BY <1>a, <1>b, <1>c, <2>4, <2>5, TypeFrame
<1>8. ASSUME NEW r \in Requests, NEW u \in Users, AddCommits(r, u) PROVE TypeOK' /\ Known'
  BY <1>8, <1>a, <1>b, <1>c, <1>e, TypeFrame DEF AddCommits
<1>9. ASSUME NEW r \in Requests, NEW u \in Users, RemoveReads(r, u) PROVE TypeOK' /\ Known'
  BY <1>9, <1>a, <1>b, <1>c, <1>e, TypeFrame DEF RemoveReads
<1>10. ASSUME NEW r \in Requests, NEW u \in Users, RoleReads(r, u) PROVE TypeOK' /\ Known'
  <2>1. claim[u] \in Orgs
    BY <1>b
  <2> QED BY <1>10, <1>a, <1>b, <1>c, <1>e, <2>1, TypeFrame DEF RoleReads
<1>11. ASSUME NEW r \in Requests, AddClaims(r) PROVE TypeOK' /\ Known'
  BY <1>11, <1>a, <1>b, <1>c, WhoOf, TypeFrame DEF AddClaims, ChangingOps, Done
<1>12. ASSUME NEW r \in Requests, AddClaimsFail(r) PROVE TypeOK' /\ Known'
  <2>1. PICK u \in Users : u = req[r].who /\ claim[u] \in Orgs
    BY <1>12, <1>b, WhoOf DEF AddClaimsFail, ChangingOps
  <2>2. GoTo(r, [op |-> "undoAdd", who |-> u, was |-> claim[u]])
        /\ UNCHANGED <<members, mirror, claim, invite, limit, history>>
    BY <1>12, <2>1 DEF AddClaimsFail
  <2> QED BY <1>a, <1>b, <1>c, <1>e, <2>1, <2>2, TypeFrame
<1>13. ASSUME NEW r \in Requests, UndoAdd(r) PROVE TypeOK' /\ Known'
  BY <1>13, <1>a, <1>b, <1>c, WhoOf, TypeFrame DEF UndoAdd, PutMirrorBack, ChangingOps, Done
<1>f. ASSUME NEW r \in Requests, req[r].op \in {"remove", "rewrite"}
      PROVE  /\ req[r].seen \subseteq Users /\ req[r].who \in Users
             /\ Differ(members, req[r].seen) \subseteq Users
  BY <1>b, <1>f, TaskOf DEF ArrayTask, Differ
<1>14. ASSUME NEW r \in Requests, RemoveWrites(r) PROVE TypeOK' /\ Known'
  BY <1>14, <1>a, <1>b, <1>c, <1>e, <1>f, TypeFrame DEF RemoveWrites
<1>15. ASSUME NEW r \in Requests, RemoveUnmirrors(r) PROVE TypeOK' /\ Known'
  BY <1>15, <1>a, <1>b, <1>c, <1>e, WhoOf, TypeFrame DEF RemoveUnmirrors, ChangingOps
<1>16. ASSUME NEW r \in Requests, RemoveUnclaims(r) PROVE TypeOK' /\ Known'
  BY <1>16, <1>a, <1>b, <1>c, WhoOf, TypeFrame DEF RemoveUnclaims, ChangingOps, Done
<1>17. ASSUME NEW r \in Requests, RemoveUnclaimsFail(r) PROVE TypeOK' /\ Known'
  BY <1>17, <1>a, <1>b, <1>c, <1>e, WhoOf, TypeFrame DEF RemoveUnclaimsFail, ChangingOps
<1>18. ASSUME NEW r \in Requests, ReaddReads(r) PROVE TypeOK' /\ Known'
  BY <1>18, <1>a, <1>b, <1>c, <1>e, WhoOf, TypeFrame DEF ReaddReads, ChangingOps
<1>19. ASSUME NEW r \in Requests, ReaddWrites(r) PROVE TypeOK' /\ Known'
  BY <1>19, <1>a, <1>b, <1>c, <1>e, <1>f, TypeFrame DEF ReaddWrites
<1>20. ASSUME NEW r \in Requests, ReaddMirrors(r) PROVE TypeOK' /\ Known'
  BY <1>20, <1>a, <1>b, <1>c, WhoOf, TypeFrame DEF ReaddMirrors, ChangingOps, Done
<1>21. ASSUME NEW r \in Requests, RoleWrites(r) PROVE TypeOK' /\ Known'
  BY <1>21, <1>a, <1>b, <1>c, WhoOf, TypeFrame DEF RoleWrites, ChangingOps, Done
<1>26. ASSUME NEW r \in Requests, AcceptClaimsFail(r) PROVE TypeOK' /\ Known'
  BY <1>26, <1>a, <1>b, <1>c, WhoOf, TypeFrame DEF AcceptClaimsFail, ChangingOps, Done
<1>27. ASSUME NEW r \in Requests, NEW u \in Users, JoinElsewhere(r, u) PROVE TypeOK' /\ Known'
  BY <1>27, <1>a, <1>b, <1>c, <1>e, TypeFrame DEF JoinElsewhere
<1>28. ASSUME NEW r \in Requests, NEW u \in Users, LeaveElsewhere(r, u) PROVE TypeOK' /\ Known'
  BY <1>28, <1>a, <1>b, <1>c, <1>e, TypeFrame DEF LeaveElsewhere
<1>29. ASSUME NEW r \in Requests, NEW u \in Users, RoleElsewhere(r, u) PROVE TypeOK' /\ Known'
  <2>1. claim[u] \in Orgs
    BY <1>b
  <2> QED BY <1>29, <1>a, <1>b, <1>c, <1>e, <2>1, TypeFrame DEF RoleElsewhere
<1>30. ASSUME NEW r \in Requests, ClaimsElsewhere(r) PROVE TypeOK' /\ Known'
  BY <1>30, <1>a, <1>b, <1>c, WhoOf, TypeFrame DEF ClaimsElsewhere, Done
<1>31. ASSUME NEW r \in Requests, ClaimsElsewhereFail(r) PROVE TypeOK' /\ Known'
  <2>1. PICK u \in Users : u = req[r].who /\ claim[u] \in Orgs
    BY <1>31, <1>b, WhoOf DEF ClaimsElsewhereFail
  <2>2. UNCHANGED <<members, mirror, claim, invite, limit, history>>
    BY <1>31 DEF ClaimsElsewhereFail
  <2>3. CASE GoTo(r, [op |-> "restores", who |-> u, to |-> claim[u]])
    BY <1>a, <1>b, <1>c, <1>e, <2>1, <2>2, <2>3, TypeFrame
  <2>4. CASE GoTo(r, [op |-> "restores", who |-> u, to |-> "elsewhere"])
    BY <1>a, <1>b, <1>c, <1>e, <2>2, <2>4, TypeFrame
  <2> QED BY <1>31, <2>1, <2>3, <2>4 DEF ClaimsElsewhereFail
<1>32. ASSUME NEW r \in Requests, MirrorElsewhere(r) PROVE TypeOK' /\ Known'
  BY <1>32, <1>a, <1>b, <1>c, WhoOf, TypeFrame DEF MirrorElsewhere, Done
<1>22. ASSUME NEW r \in Requests, Stop(r) PROVE TypeOK' /\ Known'
  BY <1>22, <1>a, <1>b, <1>c, TypeFrame DEF Stop, Done
<1>23. ASSUME NEW i \in Invites, FallsDue(i) PROVE TypeOK' /\ Known'
  <2> DEFINE v == [invite[i] EXCEPT !.due = TRUE]
  <2>1. invite[i] \in Invite
    BY <1>23, InviteOf DEF FallsDue
  <2>2. v \in Invite
    BY <2>1 DEF Invite
  <2>3. invite' = [invite EXCEPT ![i] = v]
        /\ UNCHANGED <<members, mirror, claim, limit, req, history>>
    BY <1>23 DEF FallsDue
  <2> HIDE DEF v
  <2>4. /\ invite' \in [Invites -> Invite \cup {NoInvite}]
        /\ \A j \in Invites : invite[j] # NoInvite => invite'[j] # NoInvite
    BY <1>d, <2>2, <2>3
  <2>5. \A s \in Requests : req[s].op \in {"accept", "close"} => req[s].id \in Invites
    BY TaskOf DEF InviteTask, CloseTask
  <2> QED BY <2>3, <2>4, <2>5 DEF TypeOK, Known, history
<1>24. ASSUME NEW n \in 0..MaxLimit, PlanChanges(n) \/ PlanIsSet(n) PROVE TypeOK' /\ Known'
  BY <1>24 DEF PlanChanges, PlanIsSet, TypeOK, Known, history
<1>25. ASSUME UNCHANGED vars PROVE TypeOK' /\ Known'
  BY <1>25 DEF vars, history, TypeOK, Known
<1> QED
  BY StepCases, <1>1, <1>2, <1>3, <1>4, <1>5, <1>6, <1>7, <1>8, <1>9, <1>10, <1>11,
     <1>12, <1>13, <1>14, <1>15, <1>16, <1>17, <1>18, <1>19, <1>20, <1>21, <1>26,
     <1>27, <1>28, <1>29, <1>30, <1>31, <1>32, <1>22,
     <1>23, <1>24, <1>25

LEMMA InitType == Init => TypeOK /\ Known
<1> SUFFICES ASSUME Init PROVE TypeOK /\ Known
  OBVIOUS
<1>1. New \in Task /\ New.op = "new" /\ MaxLimit \in 0..MaxLimit
  BY LimitAssumption DEF Task, New
<1>2. TypeOK
  BY <1>1 DEF Init, TypeOK, Orgs
<1>3. Known
  BY <1>1 DEF Init, Known
<1> QED BY <1>2, <1>3

\* Members has its type, for every number of users and operations.
THEOREM TypeCorrect == Spec => []TypeOK
BY InitType, TypeStep, PTL DEF Spec

-----------------------------------------------------------------------------
\* A set of users is finite, and one more user is one more at most.
LEMMA Counting ==
  /\ \A m \in SUBSET Users : IsFiniteSet(m) /\ Cardinality(m) \in Nat
  /\ \A m, n \in SUBSET Users : m \subseteq n => Cardinality(m) <= Cardinality(n)
  /\ \A m \in SUBSET Users, u \in Users :
       Cardinality(m \cup {u}) <= Cardinality(m) + 1
<1>1. \A m \in SUBSET Users : IsFiniteSet(m) /\ Cardinality(m) \in Nat
  BY UserAssumption, FS_Subset, FS_CardinalityType
<1>2. \A m, n \in SUBSET Users : m \subseteq n => Cardinality(m) <= Cardinality(n)
  BY <1>1, FS_Subset
<1>3. ASSUME NEW m \in SUBSET Users, NEW u \in Users
      PROVE  Cardinality(m \cup {u}) <= Cardinality(m) + 1
  <2>1. CASE u \in m
    <3>1. m \cup {u} = m
      BY <2>1
    <3> QED BY <1>1, <3>1
  <2>2. CASE u \notin m
    BY <1>1, <2>2, FS_AddElement
  <2> QED BY <2>1, <2>2
<1> QED BY <1>1, <1>2, <1>3

\* A member more where there is room, and a member less.
LEMMA Fits ==
  ASSUME TypeOK, TypeOK', OverLimitHasACause, limit' = limit, ~unchecked,
         \/ members' \subseteq members
         \/ \E u \in Users : members' = members \cup {u} /\ (u \in members \/ HasRoom)
  PROVE  Cardinality(members') <= limit'
<1>1. /\ members \in SUBSET Users /\ members' \in SUBSET Users /\ limit \in Nat
      /\ Cardinality(members) \in Nat /\ Cardinality(members') \in Nat
  BY Counting, LimitAssumption DEF TypeOK
<1>2. Cardinality(members) <= limit
  BY <1>1 DEF OverLimitHasACause
<1>3. CASE members' \subseteq members
  <2>1. Cardinality(members') <= Cardinality(members)
    BY <1>1, <1>3, Counting
  <2> QED BY <1>1, <1>2, <2>1
<1>4. ASSUME NEW u \in Users, members' = members \cup {u}, u \in members \/ HasRoom
      PROVE  Cardinality(members') <= limit'
  <2>1. CASE u \in members
    <3>1. members' = members
      BY <1>4, <2>1
    <3> QED BY <1>1, <1>2, <3>1
  <2>2. CASE HasRoom
    <3>1. Cardinality(members') <= Cardinality(members) + 1
      BY <1>1, <1>4, Counting
    <3>2. Cardinality(members) < limit
      BY <2>2 DEF HasRoom
    <3> QED BY <1>1, <3>1, <3>2
  <2> QED BY <1>4, <2>1, <2>2
<1> QED BY <1>3, <1>4

LEMMA LimitStep == LimitInv /\ TypeOK' /\ [Next]_vars => OverLimitHasACause'
<1> SUFFICES ASSUME LimitInv, TypeOK', [Next]_vars, ~unchecked'
             PROVE  Cardinality(members') <= limit'
  <2>1. ASSUME TypeOK', Cardinality(members') <= limit' PROVE ~(Cardinality(members') > limit')
    <3>1. members' \in SUBSET Users /\ limit' \in Nat
      BY <2>1, LimitAssumption DEF TypeOK
    <3>2. Cardinality(members') \in Nat
      BY <3>1, Counting
    <3> QED BY <2>1, <3>1, <3>2
  <2> QED BY <2>1, Zenon DEF OverLimitHasACause
<1>a. TypeOK /\ OverLimitHasACause
  BY DEF LimitInv
<1>1. ASSUME UNCHANGED <<members, limit>>, ~unchecked PROVE Cardinality(members') <= limit'
  BY <1>a, <1>1, Fits
<1>2. ASSUME NEW r \in Requests, AcceptCommits(r) PROVE Cardinality(members') <= limit'
  <2>1. req[r].who \in Users
    BY <1>2, <1>a, WhoOf DEF AcceptCommits
  <2> QED BY <1>2, <1>a, <2>1, Fits DEF AcceptCommits
<1>3. ASSUME NEW r \in Requests, NEW u \in Users, AddCommits(r, u)
      PROVE  Cardinality(members') <= limit'
  BY <1>3, <1>a, Fits DEF AddCommits
<1>4. ASSUME NEW r \in Requests, UndoAdd(r) PROVE Cardinality(members') <= limit'
  BY <1>4, <1>a, Fits DEF UndoAdd
<1>5. ASSUME NEW r \in Requests, RemoveWrites(r) PROVE Cardinality(members') <= limit'
  <2>1. members' = req[r].seen \ {req[r].who} /\ members = req[r].seen /\ ~unchecked
        /\ limit' = limit
    BY <1>5 DEF RemoveWrites
  <2> QED BY <1>a, <2>1, Fits
<1>6. ASSUME NEW r \in Requests, ReaddWrites(r) PROVE Cardinality(members') <= limit'
  <2>1. members' = members \cup {req[r].who} /\ HasRoom /\ ~unchecked /\ limit' = limit
    BY <1>6 DEF ReaddWrites
  <2>2. req[r].who \in Users
    BY <1>6, <1>a, WhoOf DEF ReaddWrites, ChangingOps
  <2> QED BY <1>a, <2>1, <2>2, Fits
<1>7. ASSUME NEW n \in 0..MaxLimit, PlanChanges(n) PROVE Cardinality(members') <= limit'
  <2>1. members' = members /\ limit' = n /\ ~unchecked /\ (n < limit => Cardinality(members) <= n)
    BY <1>7 DEF PlanChanges, history
  <2>2. Cardinality(members) \in Nat /\ limit \in Nat /\ n \in Nat
    BY <1>a, Counting, LimitAssumption DEF TypeOK
  <2>3. Cardinality(members) <= limit
    BY <1>a, <2>1, <2>2 DEF OverLimitHasACause
  <2> QED BY <2>1, <2>2, <2>3
<1>8. ASSUME NEW n \in 0..MaxLimit, PlanIsSet(n) PROVE Cardinality(members') <= limit'
  <2>1. members' = members /\ limit' = n /\ ~(Cardinality(members) > n)
    BY <1>8 DEF PlanIsSet
  <2>2. Cardinality(members) \in Nat /\ n \in Nat
    BY <1>a, Counting, LimitAssumption DEF TypeOK
  <2> QED BY <2>1, <2>2
<1>9. ASSUME NEW r \in Requests,
             \/ \E u \in Users, i \in Invites : CreateReads(r, u, i)
             \/ CreateWrites(r) \/ AcceptClaims(r) \/ CloseWrites(r)
             \/ \E i \in Invites : AcceptReads(r, i)
             \/ \E i \in Invites, to \in {"declined", "expired"} : CloseReads(r, i, to)
             \/ \E u \in Users : RemoveReads(r, u) \/ RoleReads(r, u)
             \/ AddClaims(r) \/ AddClaimsFail(r) \/ RemoveUnmirrors(r)
      PROVE  Cardinality(members') <= limit'
  <2>1. members' = members /\ limit' = limit /\ unchecked' = unchecked
    BY <1>9, Zenon DEF CreateReads, CreateWrites, AcceptClaims, CloseWrites, AcceptReads,
       CloseReads, RemoveReads, RoleReads, AddClaims, AddClaimsFail, RemoveUnmirrors, history
  <2> QED BY <1>1, <2>1
<1>10. ASSUME NEW r \in Requests,
              \/ RemoveUnclaims(r) \/ RemoveUnclaimsFail(r) \/ ReaddReads(r)
              \/ ReaddMirrors(r) \/ RoleWrites(r) \/ Stop(r) \/ AcceptClaimsFail(r)
              \/ \E u \in Users :
                   JoinElsewhere(r, u) \/ LeaveElsewhere(r, u) \/ RoleElsewhere(r, u)
              \/ ClaimsElsewhere(r) \/ ClaimsElsewhereFail(r) \/ MirrorElsewhere(r)
       PROVE  Cardinality(members') <= limit'
  <2>1. members' = members /\ limit' = limit /\ unchecked' = unchecked
    BY <1>10 DEF RemoveUnclaims, RemoveUnclaimsFail, ReaddReads, ReaddMirrors,
       RoleWrites, Stop, AcceptClaimsFail, JoinElsewhere, LeaveElsewhere, RoleElsewhere,
       ClaimsElsewhere, ClaimsElsewhereFail, MirrorElsewhere, history
  <2> QED BY <1>1, <2>1
<1>11. ASSUME NEW i \in Invites, FallsDue(i) PROVE Cardinality(members') <= limit'
  BY <1>11, <1>1 DEF FallsDue, history
<1>12. ASSUME UNCHANGED vars PROVE Cardinality(members') <= limit'
  BY <1>12, <1>1 DEF vars, history
<1> QED
  BY StepCases, <1>2, <1>3, <1>4, <1>5, <1>6, <1>7, <1>8, <1>9, <1>10, <1>11, <1>12

\* OverLimitHasACause for every finite set of users and every plan.
THEOREM LimitHolds == Spec => []OverLimitHasACause
<1>1. Init => LimitInv
  <2> SUFFICES ASSUME Init PROVE LimitInv
    OBVIOUS
  <2>1. TypeOK /\ Known
    BY InitType
  <2>2. Cardinality(members) = 0 /\ limit \in Nat
    BY FS_EmptySet, LimitAssumption DEF Init
  <2> QED BY <2>1, <2>2 DEF LimitInv, OverLimitHasACause
<1>2. LimitInv /\ [Next]_vars => LimitInv'
  BY TypeStep, LimitStep DEF LimitInv
<1>3. LimitInv => OverLimitHasACause
  BY DEF LimitInv
<1> QED BY <1>1, <1>2, <1>3, PTL DEF Spec

-----------------------------------------------------------------------------
(* The three copies of a membership.                                       *)

\* Users whose copies some named cause has left to chance.
Marked == tainted \cup stranded \cup moved

Agree(u) == (u \in members <=> mirror[u] = "here") /\ (u \in members <=> claim[u] = "here")

\* Which copies of u an operation has written when it is at its next write.
Stage(r, u) ==
  /\ req[r].op \in {"claim", "claimAdded", "undoAdd"} => u \in members /\ mirror[u] = "here"
  /\ req[r].op \in {"undoAdd", "role"} => (req[r].was = "here" <=> claim[u] = "here")
  /\ req[r].op \in {"remove", "role"} => Agree(u)
  /\ req[r].op = "unmirror" => u \notin members
  /\ req[r].op = "unclaim" => u \notin members /\ mirror[u] # "here"
  /\ req[r].op \in {"readd", "rewrite"} =>
       u \notin members /\ mirror[u] # "here" /\ claim[u] = "here"
  /\ req[r].op = "remirror" => u \in members /\ claim[u] = "here"

\* One operation at a time changes u, and what it has written is known.
Orderly(u) ==
  /\ \A r, s \in Requests : Changes(r, u) /\ Changes(s, u) => r = s
  /\ \A r \in Requests : Changes(r, u) => Stage(r, u)
  /\ (\A r \in Requests : ~Changes(r, u)) => Agree(u)

DriftInv == \A u \in Users \ Marked : Orderly(u)

\* A step that neither belongs to u nor writes one of its copies.
LEMMA Bystander ==
  ASSUME TypeOK, NEW r \in Requests, NEW t \in Task, GoTo(r, t), NEW u \in Users,
         Orderly(u), ~Changes(r, u), ~Changes(r, u)',
         u \in members' <=> u \in members, mirror'[u] = "here" <=> mirror[u] = "here",
         claim'[u] = "here" <=> claim[u] = "here"
  PROVE  Orderly(u)'
<1>1. \A s \in Requests : Changes(s, u)' => s # r /\ Changes(s, u) /\ req'[s] = req[s]
  BY Moves DEF Changes
<1>2. \A s \in Requests : Changes(s, u) => Changes(s, u)'
  BY Moves DEF Changes
<1>3. Agree(u) => Agree(u)'
  BY DEF Agree
<1>4. \A s \in Requests : Stage(s, u) /\ req'[s] = req[s] => Stage(s, u)'
  BY <1>3 DEF Stage
<1> QED BY <1>1, <1>2, <1>3, <1>4, Zenon DEF Orderly

\* A step of the only operation that changes u.
LEMMA Turn ==
  ASSUME TypeOK, NEW r \in Requests, NEW t \in Task, GoTo(r, t), NEW u \in Users,
         \A s \in Requests \ {r} : ~Changes(s, u),
         Changes(r, u)' => Stage(r, u)', ~Changes(r, u)' => Agree(u)'
  PROVE  Orderly(u)'
<1>1. \A s \in Requests \ {r} : ~Changes(s, u)'
  BY Moves DEF Changes
<1> QED BY <1>1, Zenon DEF Orderly

\* An operation that is under way on u is alone; one that begins and met
\* nobody finds the copies in agreement.
LEMMA Alone ==
  ASSUME NEW r \in Requests, NEW u \in Users, Orderly(u)
  PROVE  /\ Changes(r, u) => /\ \A s \in Requests \ {r} : ~Changes(s, u)
                             /\ Stage(r, u)
         /\ ~Changes(r, u) /\ u \notin Overlap(r, u) =>
              /\ \A s \in Requests \ {r} : ~Changes(s, u)
              /\ Agree(u)
BY Zenon DEF Orderly, Overlap

\* A step of an operation that changes w, before the step, after it or both.
LEMMA Own ==
  ASSUME TypeOK, TypeOK', DriftInv, NEW r \in Requests, NEW t, GoTo(r, t),
         NEW w \in Users,
         req[r].op \in ChangingOps => req[r].who = w,
         t.op \in ChangingOps => t.who = w,
         Marked \subseteq Marked',
         \A u \in Users \ Marked' : u # w =>
           /\ u \in members' <=> u \in members
           /\ mirror'[u] = "here" <=> mirror[u] = "here"
           /\ claim'[u] = "here" <=> claim[u] = "here",
         w \notin Marked' =>
           /\ \A s \in Requests \ {r} : ~Changes(s, w)
           /\ Changes(r, w)' => Stage(r, w)'
           /\ ~Changes(r, w)' => Agree(w)'
  PROVE  DriftInv'
<1>1. t \in Task /\ req'[r] = t
  BY DEF TypeOK, GoTo
<1>2. ASSUME NEW u \in Users \ Marked' PROVE Orderly(u)'
  <2>1. Orderly(u)
    BY <1>2 DEF DriftInv
  <2>2. CASE u = w
    BY <1>1, <1>2, <2>2, Turn
  <2>3. CASE u # w
    <3>1. ~Changes(r, u) /\ ~Changes(r, u)'
      BY <1>1, <2>3 DEF Changes, ChangingOps
    <3> QED BY <1>1, <1>2, <2>1, <2>3, <3>1, Bystander
  <2> QED BY <2>2, <2>3
<1> QED BY <1>2 DEF DriftInv

\* A step of an operation that changes nobody.
LEMMA Quiet ==
  ASSUME TypeOK, TypeOK', DriftInv, NEW r \in Requests, NEW t, GoTo(r, t),
         req[r].op \notin ChangingOps, t.op \notin ChangingOps,
         UNCHANGED <<members, mirror, claim, Marked>>
  PROVE  DriftInv'
<1>1. t \in Task /\ req'[r] = t
  BY DEF TypeOK, GoTo
<1>2. ASSUME NEW u \in Users \ Marked PROVE Orderly(u)'
  <2>1. Orderly(u)
    BY <1>2 DEF DriftInv
  <2>2. ~Changes(r, u) /\ ~Changes(r, u)'
    BY <1>1 DEF Changes, ChangingOps
  <2> QED BY <1>1, <1>2, <2>1, <2>2, Bystander
<1> QED BY <1>2 DEF DriftInv

\* Whom an operation may have begun to change, unmarked, it changes alone.
LEMMA Mine ==
  ASSUME TypeOK, DriftInv, NEW r \in Requests, req[r].op \in ChangingOps,
         Marked \subseteq Marked', req[r].who \notin Marked'
  PROVE  /\ \A s \in Requests \ {r} : ~Changes(s, req[r].who)
         /\ Stage(r, req[r].who)
<1>1. req[r].who \in Users \ Marked
  BY WhoOf
<1>2. Changes(r, req[r].who)
  BY DEF Changes, ChangingOps
<1> QED BY <1>1, <1>2, Alone DEF DriftInv

\* An operation that begins on w and met nobody.
LEMMA Begins ==
  ASSUME DriftInv, NEW r \in Requests, NEW w \in Users, req[r].op \notin ChangingOps,
         Marked' = Marked \cup Overlap(r, w), w \notin Marked'
  PROVE  (\A s \in Requests \ {r} : ~Changes(s, w)) /\ Agree(w)
<1>1. w \in Users \ Marked /\ w \notin Overlap(r, w)
  OBVIOUS
<1>2. ~Changes(r, w)
  BY DEF Changes, ChangingOps
<1> QED BY <1>1, <1>2, Alone DEF DriftInv

\* What another organisation writes of an unmarked user, no operation here is
\* changing him: he is no member, and the copy names some other place.
LEMMA Elsewhere ==
  ASSUME TypeOK, TypeOK', DriftInv, NEW r \in Requests, NEW t, GoTo(r, t),
         NEW w \in Users, NEW o, req[r].op \notin ChangingOps, t.op \notin ChangingOps,
         members' = members, Marked' = Marked \cup Disturbs(w, o),
         \A u \in Users : u # w => mirror'[u] = mirror[u] /\ claim'[u] = claim[u],
         mirror'[w] \in {mirror[w], o}, claim'[w] \in {claim[w], o}
  PROVE  DriftInv'
<1>1. t \in Task /\ req'[r] = t
  BY DEF TypeOK, GoTo
<1>2. ASSUME NEW u \in Users \ Marked' PROVE Orderly(u)'
  <2>1. Orderly(u)
    BY <1>2 DEF DriftInv
  <2>2. ~Changes(r, u) /\ ~Changes(r, u)'
    BY <1>1 DEF Changes, ChangingOps
  <2>3. CASE u = w
    <3>1. u \notin members /\ o # "here" /\ \A s \in Requests : ~Changes(s, u)
      BY <1>2, <2>3 DEF Disturbs
    <3>2. Agree(u)
      BY <2>1, <3>1 DEF Orderly
    <3>3. Agree(u)'
      BY <2>3, <3>1, <3>2 DEF Agree
    <3> QED BY <1>1, <2>2, <3>1, <3>3, Turn
  <2>4. CASE u # w
    BY <1>1, <2>1, <2>2, <2>4, Bystander
  <2> QED BY <2>3, <2>4
<1> QED BY <1>2 DEF DriftInv

\* A copy written, and the copies of the others.
LEMMA Writes ==
  ASSUME TypeOK, NEW w \in Users, NEW o
  PROVE  /\ SetMirror(w, o) => /\ mirror'[w] = o
                              /\ \A u \in Users : u # w => mirror'[u] = mirror[u]
         /\ SetClaim(w, o) => /\ claim'[w] = o
                             /\ \A u \in Users : u # w => claim'[u] = claim[u]
BY DEF TypeOK, SetMirror, SetClaim

LEMMA DriftStep == TypeOK /\ TypeOK' /\ DriftInv /\ [Next]_vars => DriftInv'
<1> SUFFICES ASSUME TypeOK, TypeOK', DriftInv, [Next]_vars PROVE DriftInv'
  OBVIOUS
<1>a. New.op \notin ChangingOps /\ Over.op \notin ChangingOps
  BY DEF New, Over, ChangingOps
<1>1. ASSUME NEW r \in Requests,
             \/ \E u \in Users, i \in Invites : CreateReads(r, u, i)
             \/ \E i \in Invites : AcceptReads(r, i)
             \/ \E i \in Invites, to \in {"declined", "expired"} : CloseReads(r, i, to)
             \/ CreateWrites(r) \/ CloseWrites(r)
      PROVE  DriftInv'
  <2>1. /\ req[r].op \notin ChangingOps
        /\ UNCHANGED <<members, mirror, claim, Marked>>
    BY <1>1, <1>a DEF CreateReads, AcceptReads, CloseReads, CreateWrites, CloseWrites,
       ChangingOps, Marked, history
  <2>2. PICK t : GoTo(r, t) /\ t.op \notin ChangingOps
    <3>1. ASSUME NEW u \in Users, NEW i \in Invites, CreateReads(r, u, i)
          PROVE  \E t : GoTo(r, t) /\ t.op \notin ChangingOps
      BY <3>1 DEF CreateReads, ChangingOps
    <3>2. ASSUME NEW i \in Invites, AcceptReads(r, i)
          PROVE  \E t : GoTo(r, t) /\ t.op \notin ChangingOps
      BY <3>2 DEF AcceptReads, ChangingOps
    <3>3. ASSUME NEW i \in Invites, NEW to \in {"declined", "expired"}, CloseReads(r, i, to)
          PROVE  \E t : GoTo(r, t) /\ t.op \notin ChangingOps
      BY <3>3 DEF CloseReads, ChangingOps
    <3>4. ASSUME CreateWrites(r) \/ CloseWrites(r)
          PROVE  \E t : GoTo(r, t) /\ t.op \notin ChangingOps
      BY <3>4, <1>a DEF CreateWrites, CloseWrites, Done
    <3> QED BY <1>1, <3>1, <3>2, <3>3, <3>4
  <2> QED BY <2>1, <2>2, Quiet
<1>2. ASSUME NEW r \in Requests, AcceptCommits(r) PROVE DriftInv'
  <2>1. PICK w \in Users : w = req[r].who /\ req[r].op \notin ChangingOps
    BY <1>2, WhoOf DEF AcceptCommits, ChangingOps
  <2>2. GoTo(r, [op |-> "claim", who |-> w]) /\ Marked' = Marked \cup Overlap(r, w)
        /\ members' = members \cup {w} /\ claim' = claim
        /\ IF w \in members THEN mirror' = mirror ELSE SetMirror(w, "here")
    BY <1>2, <2>1 DEF AcceptCommits, Marked
  <2>3. req'[r] = [op |-> "claim", who |-> w]
    BY <2>2 DEF GoTo, TypeOK
  <2>4. ASSUME w \notin Marked'
        PROVE  /\ \A s \in Requests \ {r} : ~Changes(s, w)
               /\ Changes(r, w)' /\ Stage(r, w)'
    <3>1. (\A s \in Requests \ {r} : ~Changes(s, w)) /\ Agree(w)
      BY <2>1, <2>2, <2>4, Begins
    <3>2. w \in members' /\ mirror'[w] = "here"
      BY <2>2, <3>1, Writes DEF Agree
    <3> QED BY <2>3, <3>1, <3>2 DEF Stage, Changes
  <2> QED BY <2>1, <2>2, <2>4, Own, Writes
<1>3. ASSUME NEW r \in Requests, NEW w \in Users, AddCommits(r, w) PROVE DriftInv'
  <2>1. req[r].op \notin ChangingOps
    BY <1>3, <1>a DEF AddCommits
  <2>2. GoTo(r, [op |-> "claimAdded", who |-> w]) /\ Marked' = Marked \cup Overlap(r, w)
        /\ members' = members \cup {w} /\ claim' = claim
        /\ IF w \in members THEN mirror' = mirror ELSE SetMirror(w, "here")
    BY <1>3 DEF AddCommits, Marked
  <2>3. req'[r] = [op |-> "claimAdded", who |-> w]
    BY <2>2 DEF GoTo, TypeOK
  <2>4. ASSUME w \notin Marked'
        PROVE  /\ \A s \in Requests \ {r} : ~Changes(s, w)
               /\ Changes(r, w)' /\ Stage(r, w)'
    <3>1. (\A s \in Requests \ {r} : ~Changes(s, w)) /\ Agree(w)
      BY <2>1, <2>2, <2>4, Begins
    <3>2. w \in members' /\ mirror'[w] = "here"
      BY <2>2, <3>1, Writes DEF Agree
    <3> QED BY <2>3, <3>1, <3>2 DEF Stage, Changes
  <2> QED BY <2>1, <2>2, <2>4, Own, Writes
<1>4. ASSUME NEW r \in Requests, NEW w \in Users, RemoveReads(r, w) PROVE DriftInv'
  <2>1. req[r].op \notin ChangingOps
    BY <1>4, <1>a DEF RemoveReads
  <2>2. GoTo(r, [op |-> "remove", who |-> w, seen |-> members])
        /\ Marked' = Marked \cup Overlap(r, w)
        /\ UNCHANGED <<members, mirror, claim>>
    BY <1>4 DEF RemoveReads, Marked
  <2>3. req'[r] = [op |-> "remove", who |-> w, seen |-> members]
    BY <2>2 DEF GoTo, TypeOK
  <2>4. ASSUME w \notin Marked'
        PROVE  /\ \A s \in Requests \ {r} : ~Changes(s, w)
               /\ Changes(r, w)' /\ Stage(r, w)'
    <3>1. (\A s \in Requests \ {r} : ~Changes(s, w)) /\ Agree(w)
      BY <2>1, <2>2, <2>4, Begins
    <3> QED BY <2>2, <2>3, <3>1 DEF Stage, Changes, Agree
  <2> QED BY <2>1, <2>2, <2>4, Own
<1>5. ASSUME NEW r \in Requests, NEW w \in Users, RoleReads(r, w) PROVE DriftInv'
  <2> DEFINE t == [op |-> "role", who |-> w, was |-> claim[w]]
  <2>1. req[r].op \notin ChangingOps
    BY <1>5, <1>a DEF RoleReads
  <2>2. GoTo(r, t) /\ Marked' = Marked \cup Overlap(r, w)
        /\ UNCHANGED <<members, mirror, claim>>
    BY <1>5 DEF RoleReads, Marked
  <2>3. req'[r] = t
    BY <2>2 DEF GoTo, TypeOK
  <2>4. t.op = "role" /\ t.who = w /\ t.was = claim[w]
    OBVIOUS
  <2> HIDE DEF t
  <2>5. ASSUME w \notin Marked'
        PROVE  /\ \A s \in Requests \ {r} : ~Changes(s, w)
               /\ Changes(r, w)' /\ Stage(r, w)'
    <3>1. (\A s \in Requests \ {r} : ~Changes(s, w)) /\ Agree(w)
      BY <2>1, <2>2, <2>5, Begins
    <3>2. Agree(w)' /\ req'[r].was = claim'[w]
      BY <2>2, <2>3, <2>4, <3>1 DEF Agree
    <3>3. req'[r].op = "role" /\ req'[r].who = w
      BY <2>3, <2>4
    <3> QED BY <3>1, <3>2, <3>3 DEF Stage, Changes
  <2> QED BY <2>1, <2>2, <2>4, <2>5, Own
<1>6. ASSUME NEW r \in Requests, AcceptClaims(r) PROVE DriftInv'
  <2>1. PICK w \in Users : w = req[r].who /\ req[r].op = "claim" /\ req[r].op \in ChangingOps
    BY <1>6, WhoOf DEF AcceptClaims, ChangingOps
  <2>2. /\ GoTo(r, Over)
        /\ claim'[w] = "here" /\ \A u \in Users : u # w => claim'[u] = claim[u]
        /\ UNCHANGED <<members, mirror, Marked>>
    BY <1>6, <2>1, Writes DEF AcceptClaims, Done, Marked, history
  <2>3. req'[r] = Over
    BY <2>2 DEF GoTo, TypeOK
  <2>4. ASSUME w \notin Marked'
        PROVE  (\A s \in Requests \ {r} : ~Changes(s, w)) /\ Agree(w)'
    <3>1. (\A s \in Requests \ {r} : ~Changes(s, w)) /\ Stage(r, w)
      BY <2>1, <2>2, <2>4, Mine
    <3>2. w \in members' /\ mirror'[w] = "here" /\ claim'[w] = "here"
      BY <2>1, <2>2, <2>4, <3>1 DEF Stage, Agree
    <3> QED BY <3>1, <3>2 DEF Agree
  <2>5. ~Changes(r, w)'
    BY <2>3 DEF Changes, Over
  <2> QED BY <2>1, <2>2, <2>4, <2>5, <1>a, Own DEF Differ
<1>7. ASSUME NEW r \in Requests, AddClaims(r) PROVE DriftInv'
  <2>1. PICK w \in Users : w = req[r].who /\ req[r].op = "claimAdded" /\ req[r].op \in ChangingOps
    BY <1>7, WhoOf DEF AddClaims, ChangingOps
  <2>2. /\ GoTo(r, Over)
        /\ claim'[w] = "here" /\ \A u \in Users : u # w => claim'[u] = claim[u]
        /\ UNCHANGED <<members, mirror, Marked>>
    BY <1>7, <2>1, Writes DEF AddClaims, Done, Marked, history
  <2>3. req'[r] = Over
    BY <2>2 DEF GoTo, TypeOK
  <2>4. ASSUME w \notin Marked'
        PROVE  (\A s \in Requests \ {r} : ~Changes(s, w)) /\ Agree(w)'
    <3>1. (\A s \in Requests \ {r} : ~Changes(s, w)) /\ Stage(r, w)
      BY <2>1, <2>2, <2>4, Mine
    <3>2. w \in members' /\ mirror'[w] = "here" /\ claim'[w] = "here"
      BY <2>1, <2>2, <2>4, <3>1 DEF Stage, Agree
    <3> QED BY <3>1, <3>2 DEF Agree
  <2>5. ~Changes(r, w)'
    BY <2>3 DEF Changes, Over
  <2> QED BY <2>1, <2>2, <2>4, <2>5, <1>a, Own DEF Differ
<1>8. ASSUME NEW r \in Requests, AddClaimsFail(r) PROVE DriftInv'
  <2>1. PICK w \in Users : w = req[r].who /\ req[r].op = "claimAdded" /\ req[r].op \in ChangingOps
    BY <1>8, WhoOf DEF AddClaimsFail, ChangingOps
  <2> DEFINE t == [op |-> "undoAdd", who |-> w, was |-> claim[w]]
  <2>2. GoTo(r, t) /\ UNCHANGED <<members, mirror, claim, Marked>>
    BY <1>8, <2>1 DEF AddClaimsFail, Marked, history
  <2>3. req'[r] = t
    BY <2>2 DEF GoTo, TypeOK
  <2>4. t.op = "undoAdd" /\ t.who = w /\ t.was = claim[w]
    OBVIOUS
  <2> HIDE DEF t
  <2>5. ASSUME w \notin Marked'
        PROVE  /\ \A s \in Requests \ {r} : ~Changes(s, w)
               /\ Changes(r, w)' /\ Stage(r, w)'
    <3>1. (\A s \in Requests \ {r} : ~Changes(s, w)) /\ Stage(r, w)
      BY <2>1, <2>2, <2>5, Mine
    <3>2. w \in members' /\ mirror'[w] = "here" /\ req'[r].was = claim'[w]
      BY <2>1, <2>2, <2>3, <2>4, <3>1 DEF Stage
    <3>3. req'[r].op = "undoAdd" /\ req'[r].who = w
      BY <2>3, <2>4
    <3> QED BY <3>1, <3>2, <3>3 DEF Stage, Changes
  <2> QED BY <2>1, <2>2, <2>4, <2>5, Own
<1>9. ASSUME NEW r \in Requests, UndoAdd(r) PROVE DriftInv'
  <2>1. PICK w \in Users : w = req[r].who /\ req[r].op = "undoAdd" /\ req[r].op \in ChangingOps
    BY <1>9, WhoOf DEF UndoAdd, ChangingOps
  <2>2. /\ GoTo(r, Over) /\ members' = members \ {w} /\ claim' = claim
        /\ Marked \subseteq Marked'
    BY <1>9, <2>1 DEF UndoAdd, Done, Marked
  <2>3. mirror'[w] = req[r].was /\ \A u \in Users : u # w => mirror'[u] = mirror[u]
    BY <1>9, <2>1, Writes DEF UndoAdd, PutMirrorBack
  <2>4. req'[r] = Over
    BY <2>2 DEF GoTo, TypeOK
  <2>5. w \notin Marked' => req[r].was # "here"
    BY <1>9, <2>1 DEF UndoAdd, Marked
  <2>6. ASSUME w \notin Marked'
        PROVE  (\A s \in Requests \ {r} : ~Changes(s, w)) /\ Agree(w)'
    <3>1. (\A s \in Requests \ {r} : ~Changes(s, w)) /\ Stage(r, w)
      BY <2>1, <2>2, <2>6, Mine
    <3>2. claim[w] # "here"
      BY <2>1, <2>5, <2>6, <3>1 DEF Stage
    <3> QED BY <2>2, <2>3, <2>5, <2>6, <3>1, <3>2 DEF Agree
  <2>7. ~Changes(r, w)'
    BY <2>4 DEF Changes, Over
  <2> QED BY <2>1, <2>2, <2>3, <2>6, <2>7, <1>a, Own
<1>10. ASSUME NEW r \in Requests, RemoveWrites(r) PROVE DriftInv'
  <2>1. PICK w \in Users : w = req[r].who /\ req[r].op = "remove" /\ req[r].op \in ChangingOps
    BY <1>10, WhoOf DEF RemoveWrites, ChangingOps
  <2>2. /\ GoTo(r, [op |-> "unmirror", who |-> w])
        /\ members' = req[r].seen \ {w}
        /\ UNCHANGED <<mirror, claim>>
        /\ Marked' = Marked \cup Differ(members, req[r].seen)
    BY <1>10, <2>1 DEF RemoveWrites, Done, Marked
  <2>3. req'[r] = [op |-> "unmirror", who |-> w]
    BY <2>2 DEF GoTo, TypeOK
  <2>4. ASSUME w \notin Marked'
        PROVE  /\ \A s \in Requests \ {r} : ~Changes(s, w)
               /\ Changes(r, w)' /\ Stage(r, w)'
    <3>1. (\A s \in Requests \ {r} : ~Changes(s, w)) /\ Stage(r, w)
      BY <2>1, <2>2, <2>4, Mine
    <3>2. w \notin members'
      BY <2>1, <2>2, <2>4, <3>1 DEF Stage, Agree
    <3> QED BY <2>3, <3>1, <3>2 DEF Stage, Changes, Agree
  <2> QED BY <2>1, <2>2, <2>4, <1>a, Own DEF Differ
<1>11. ASSUME NEW r \in Requests, RemoveUnmirrors(r) PROVE DriftInv'
  <2>1. PICK w \in Users : w = req[r].who /\ req[r].op = "unmirror" /\ req[r].op \in ChangingOps
    BY <1>11, WhoOf DEF RemoveUnmirrors, ChangingOps
  <2>2. /\ GoTo(r, [op |-> "unclaim", who |-> w])
        /\ mirror'[w] = "none" /\ \A u \in Users : u # w => mirror'[u] = mirror[u]
        /\ UNCHANGED <<members, claim, Marked>>
    BY <1>11, <2>1, Writes DEF RemoveUnmirrors, Marked, history
  <2>3. req'[r] = [op |-> "unclaim", who |-> w]
    BY <2>2 DEF GoTo, TypeOK
  <2>4. ASSUME w \notin Marked'
        PROVE  /\ \A s \in Requests \ {r} : ~Changes(s, w)
               /\ Changes(r, w)' /\ Stage(r, w)'
    <3>1. (\A s \in Requests \ {r} : ~Changes(s, w)) /\ Stage(r, w)
      BY <2>1, <2>2, <2>4, Mine
    <3>2. w \notin members' /\ mirror'[w] # "here"
      BY <2>1, <2>2, <2>4, <3>1 DEF Stage, Agree
    <3> QED BY <2>3, <3>1, <3>2 DEF Stage, Changes, Agree
  <2> QED BY <2>1, <2>2, <2>4, <1>a, Own DEF Differ
<1>12. ASSUME NEW r \in Requests, RemoveUnclaims(r) PROVE DriftInv'
  <2>1. PICK w \in Users : w = req[r].who /\ req[r].op = "unclaim" /\ req[r].op \in ChangingOps
    BY <1>12, WhoOf DEF RemoveUnclaims, ChangingOps
  <2>2. /\ GoTo(r, Over)
        /\ claim'[w] = "none" /\ \A u \in Users : u # w => claim'[u] = claim[u]
        /\ UNCHANGED <<members, mirror, Marked>>
    BY <1>12, <2>1, Writes DEF RemoveUnclaims, Done, Marked, history
  <2>3. req'[r] = Over
    BY <2>2 DEF GoTo, TypeOK
  <2>4. ASSUME w \notin Marked'
        PROVE  (\A s \in Requests \ {r} : ~Changes(s, w)) /\ Agree(w)'
    <3>1. (\A s \in Requests \ {r} : ~Changes(s, w)) /\ Stage(r, w)
      BY <2>1, <2>2, <2>4, Mine
    <3>2. w \notin members' /\ mirror'[w] # "here" /\ claim'[w] # "here"
      BY <2>1, <2>2, <2>4, <3>1 DEF Stage, Agree
    <3> QED BY <3>1, <3>2 DEF Agree
  <2>5. ~Changes(r, w)'
    BY <2>3 DEF Changes, Over
  <2> QED BY <2>1, <2>2, <2>4, <2>5, <1>a, Own DEF Differ
<1>13. ASSUME NEW r \in Requests, RemoveUnclaimsFail(r) PROVE DriftInv'
  <2>1. PICK w \in Users : w = req[r].who /\ req[r].op = "unclaim" /\ req[r].op \in ChangingOps
    BY <1>13, WhoOf DEF RemoveUnclaimsFail, ChangingOps
  <2>2. /\ GoTo(r, [op |-> "readd", who |-> w])
        /\ UNCHANGED <<members, mirror, claim>>
        /\ Marked' = Marked \cup (IF claim[w] # "here" THEN {w} ELSE {})
    BY <1>13, <2>1 DEF RemoveUnclaimsFail, Marked
  <2>3. req'[r] = [op |-> "readd", who |-> w]
    BY <2>2 DEF GoTo, TypeOK
  <2>4. ASSUME w \notin Marked'
        PROVE  /\ \A s \in Requests \ {r} : ~Changes(s, w)
               /\ Changes(r, w)' /\ Stage(r, w)'
    <3>1. (\A s \in Requests \ {r} : ~Changes(s, w)) /\ Stage(r, w)
      BY <2>1, <2>2, <2>4, Mine
    <3>2. w \notin members' /\ mirror'[w] # "here" /\ claim'[w] = "here"
      BY <2>1, <2>2, <2>4, <3>1 DEF Stage, Agree
    <3> QED BY <2>3, <3>1, <3>2 DEF Stage, Changes, Agree
  <2> QED BY <2>1, <2>2, <2>4, <1>a, Own DEF Differ
<1>14. ASSUME NEW r \in Requests, ReaddReads(r) PROVE DriftInv'
  <2>1. PICK w \in Users : w = req[r].who /\ req[r].op = "readd" /\ req[r].op \in ChangingOps
    BY <1>14, WhoOf DEF ReaddReads, ChangingOps
  <2>2. UNCHANGED <<members, mirror, claim, Marked>>
    BY <1>14, <2>1 DEF ReaddReads, Marked, history
  <2>3. PICK t : /\ GoTo(r, t) /\ t.who = w /\ t.op \in {"remirror", "rewrite"}
                 /\ w \notin members => t.op = "rewrite"
    <3>1. CASE w \in members
      BY <1>14, <2>1, <3>1 DEF ReaddReads
    <3>2. CASE w \notin members
      BY <1>14, <2>1, <3>2 DEF ReaddReads
    <3> QED BY <3>1, <3>2
  <2>4. req'[r] = t
    BY <2>3 DEF GoTo, TypeOK
  <2>5. ASSUME w \notin Marked'
        PROVE  /\ \A s \in Requests \ {r} : ~Changes(s, w)
               /\ Changes(r, w)' /\ Stage(r, w)'
    <3>1. (\A s \in Requests \ {r} : ~Changes(s, w)) /\ Stage(r, w)
      BY <2>1, <2>2, <2>5, Mine
    <3>2. w \notin members' /\ mirror'[w] # "here" /\ claim'[w] = "here"
      BY <2>1, <2>2, <3>1 DEF Stage
    <3>3. req'[r].op = "rewrite" /\ req'[r].who = w
      BY <2>2, <2>3, <2>4, <3>2
    <3> QED BY <3>1, <3>2, <3>3 DEF Stage, Changes
  <2> QED BY <2>1, <2>2, <2>3, <2>5, Own
<1>15. ASSUME NEW r \in Requests, ReaddWrites(r) PROVE DriftInv'
  <2>1. PICK w \in Users : w = req[r].who /\ req[r].op = "rewrite" /\ req[r].op \in ChangingOps
    BY <1>15, WhoOf DEF ReaddWrites, ChangingOps
  <2>2. /\ GoTo(r, [op |-> "remirror", who |-> w])
        /\ members' = req[r].seen \cup {w}
        /\ UNCHANGED <<mirror, claim>>
        /\ Marked' = Marked \cup Differ(members, req[r].seen)
    BY <1>15, <2>1 DEF ReaddWrites, Marked
  <2>3. req'[r] = [op |-> "remirror", who |-> w]
    BY <2>2 DEF GoTo, TypeOK
  <2>4. ASSUME w \notin Marked'
        PROVE  /\ \A s \in Requests \ {r} : ~Changes(s, w)
               /\ Changes(r, w)' /\ Stage(r, w)'
    <3>1. (\A s \in Requests \ {r} : ~Changes(s, w)) /\ Stage(r, w)
      BY <2>1, <2>2, <2>4, Mine
    <3>2. w \in members' /\ claim'[w] = "here"
      BY <2>1, <2>2, <2>4, <3>1 DEF Stage, Agree
    <3> QED BY <2>3, <3>1, <3>2 DEF Stage, Changes, Agree
  <2> QED BY <2>1, <2>2, <2>4, <1>a, Own DEF Differ
<1>16. ASSUME NEW r \in Requests, ReaddMirrors(r) PROVE DriftInv'
  <2>1. PICK w \in Users : w = req[r].who /\ req[r].op = "remirror" /\ req[r].op \in ChangingOps
    BY <1>16, WhoOf DEF ReaddMirrors, ChangingOps
  <2>2. /\ GoTo(r, Over)
        /\ mirror'[w] = "here" /\ \A u \in Users : u # w => mirror'[u] = mirror[u]
        /\ UNCHANGED <<members, claim, Marked>>
    BY <1>16, <2>1, Writes DEF ReaddMirrors, Done, Marked, history
  <2>3. req'[r] = Over
    BY <2>2 DEF GoTo, TypeOK
  <2>4. ASSUME w \notin Marked'
        PROVE  (\A s \in Requests \ {r} : ~Changes(s, w)) /\ Agree(w)'
    <3>1. (\A s \in Requests \ {r} : ~Changes(s, w)) /\ Stage(r, w)
      BY <2>1, <2>2, <2>4, Mine
    <3>2. w \in members' /\ mirror'[w] = "here" /\ claim'[w] = "here"
      BY <2>1, <2>2, <2>4, <3>1 DEF Stage, Agree
    <3> QED BY <3>1, <3>2 DEF Agree
  <2>5. ~Changes(r, w)'
    BY <2>3 DEF Changes, Over
  <2> QED BY <2>1, <2>2, <2>4, <2>5, <1>a, Own DEF Differ
<1>17. ASSUME NEW r \in Requests, RoleWrites(r) PROVE DriftInv'
  <2>1. PICK w \in Users : w = req[r].who /\ req[r].op = "role" /\ req[r].op \in ChangingOps
    BY <1>17, WhoOf DEF RoleWrites, ChangingOps
  <2>2. GoTo(r, Over) /\ UNCHANGED <<members, mirror, Marked>>
    BY <1>17, <2>1 DEF RoleWrites, Done, Marked, history
  <2>3. claim'[w] = req[r].was /\ \A u \in Users : u # w => claim'[u] = claim[u]
    BY <1>17, <2>1, Writes DEF RoleWrites
  <2>4. req'[r] = Over
    BY <2>2 DEF GoTo, TypeOK
  <2>5. ASSUME w \notin Marked'
        PROVE  (\A s \in Requests \ {r} : ~Changes(s, w)) /\ Agree(w)'
    <3>1. (\A s \in Requests \ {r} : ~Changes(s, w)) /\ Stage(r, w)
      BY <2>1, <2>2, <2>5, Mine
    <3>2. (claim'[w] = "here" <=> claim[w] = "here") /\ Agree(w)
      BY <2>1, <2>3, <3>1, Zenon DEF Stage
    <3> QED BY <2>2, <3>1, <3>2 DEF Agree
  <2>6. ~Changes(r, w)'
    BY <2>4 DEF Changes, Over
  <2> QED BY <2>1, <2>2, <2>3, <2>5, <2>6, <1>a, Own
<1>18. ASSUME NEW r \in Requests, Stop(r) PROVE DriftInv'
  <2>1. GoTo(r, Over) /\ UNCHANGED <<members, mirror, claim>>
        /\ Marked' = Marked \cup {u \in Users : Changes(r, u)}
    BY <1>18 DEF Stop, Done, Marked
  <2>2. CASE req[r].op \in ChangingOps
    <3>1. req[r].who \in Users /\ Changes(r, req[r].who)
      BY <2>2, WhoOf DEF Changes, ChangingOps
    <3>2. req[r].who \in Marked'
      BY <2>1, <3>1
    <3> QED BY <1>a, <2>1, <3>1, <3>2, Own
  <2>3. CASE req[r].op \notin ChangingOps
    <3>1. Marked' = Marked
      BY <2>1, <2>3 DEF Changes, ChangingOps
    <3> QED BY <1>a, <2>1, <2>3, <3>1, Quiet
  <2> QED BY <2>2, <2>3
<1>19. ASSUME UNCHANGED <<members, mirror, claim, req, Marked>> PROVE DriftInv'
  BY <1>19 DEF DriftInv, Orderly, Stage, Agree, Changes
<1>20. ASSUME \/ \E i \in Invites : FallsDue(i)
              \/ \E n \in 0..MaxLimit : PlanChanges(n) \/ PlanIsSet(n)
              \/ UNCHANGED vars
       PROVE  DriftInv'
  BY <1>19, <1>20 DEF FallsDue, PlanChanges, PlanIsSet, vars, Marked, history
<1>21. ASSUME NEW r \in Requests, AcceptClaimsFail(r) PROVE DriftInv'
  <2>1. PICK w \in Users : w = req[r].who /\ req[r].op = "claim" /\ req[r].op \in ChangingOps
    BY <1>21, WhoOf DEF AcceptClaimsFail, ChangingOps
  <2>2. /\ GoTo(r, Over)
        /\ UNCHANGED <<members, mirror, claim>>
        /\ Marked' = Marked \cup (IF claim[w] # "here" THEN {w} ELSE {})
    BY <1>21, <2>1 DEF AcceptClaimsFail, Done, Marked
  <2>3. req'[r] = Over
    BY <2>2 DEF GoTo, TypeOK
  <2>4. ASSUME w \notin Marked'
        PROVE  (\A s \in Requests \ {r} : ~Changes(s, w)) /\ Agree(w)'
    <3>1. (\A s \in Requests \ {r} : ~Changes(s, w)) /\ Stage(r, w)
      BY <2>1, <2>2, <2>4, Mine
    <3>2. w \in members' /\ mirror'[w] = "here" /\ claim'[w] = "here"
      BY <2>1, <2>2, <2>4, <3>1 DEF Stage
    <3> QED BY <3>1, <3>2 DEF Agree
  <2>5. ~Changes(r, w)'
    BY <2>3 DEF Changes, Over
  <2> QED BY <2>1, <2>2, <2>4, <2>5, <1>a, Own
<1>22. ASSUME NEW r \in Requests, NEW w \in Users, JoinElsewhere(r, w) PROVE DriftInv'
  <2>1. /\ GoTo(r, [op |-> "joins", who |-> w, to |-> "elsewhere"])
        /\ UNCHANGED <<members, claim>> /\ req[r].op \notin ChangingOps
        /\ Marked' = Marked \cup Disturbs(w, "elsewhere")
    BY <1>22, <1>a DEF JoinElsewhere, Marked
  <2>2. /\ mirror'[w] \in {mirror[w], "elsewhere"}
        /\ \A u \in Users : u # w => mirror'[u] = mirror[u]
    BY <1>22, Writes DEF JoinElsewhere
  <2> QED BY <2>1, <2>2, Elsewhere DEF ChangingOps
<1>23. ASSUME NEW r \in Requests, NEW w \in Users, LeaveElsewhere(r, w) PROVE DriftInv'
  <2>1. /\ GoTo(r, [op |-> "leaves", who |-> w, to |-> "none"])
        /\ UNCHANGED <<members, claim>> /\ req[r].op \notin ChangingOps
        /\ Marked' = Marked \cup Disturbs(w, "none")
    BY <1>23, <1>a DEF LeaveElsewhere, Marked
  <2>2. /\ mirror'[w] = "none"
        /\ \A u \in Users : u # w => mirror'[u] = mirror[u]
    BY <1>23, Writes DEF LeaveElsewhere
  <2> QED BY <2>1, <2>2, Elsewhere DEF ChangingOps
<1>24. ASSUME NEW r \in Requests, ClaimsElsewhere(r) PROVE DriftInv'
  <2>1. PICK w \in Users : w = req[r].who /\ req[r].op \notin ChangingOps
    BY <1>24, WhoOf DEF ClaimsElsewhere, ChangingOps
  <2>2. /\ GoTo(r, Over) /\ UNCHANGED <<members, mirror>>
        /\ Marked' = Marked \cup Disturbs(w, req[r].to)
    BY <1>24, <2>1 DEF ClaimsElsewhere, Done, Marked
  <2>3. /\ claim'[w] = req[r].to
        /\ \A u \in Users : u # w => claim'[u] = claim[u]
    BY <1>24, <2>1, Writes DEF ClaimsElsewhere
  <2> QED BY <1>a, <2>1, <2>2, <2>3, Elsewhere
<1>25. ASSUME NEW r \in Requests, MirrorElsewhere(r) PROVE DriftInv'
  <2>1. PICK w \in Users : w = req[r].who /\ req[r].op \notin ChangingOps
    BY <1>25, WhoOf DEF MirrorElsewhere, ChangingOps
  <2>2. /\ GoTo(r, Over) /\ UNCHANGED <<members, claim>>
        /\ Marked' = Marked \cup Disturbs(w, req[r].to)
    BY <1>25, <2>1 DEF MirrorElsewhere, Done, Marked
  <2>3. /\ mirror'[w] = req[r].to
        /\ \A u \in Users : u # w => mirror'[u] = mirror[u]
    BY <1>25, <2>1, Writes DEF MirrorElsewhere
  <2> QED BY <1>a, <2>1, <2>2, <2>3, Elsewhere
<1>26. ASSUME NEW r \in Requests, NEW w \in Users, RoleElsewhere(r, w) PROVE DriftInv'
  <2>1. /\ GoTo(r, [op |-> "keeps", who |-> w, to |-> claim[w]])
        /\ UNCHANGED <<members, mirror, claim, Marked>> /\ req[r].op \notin ChangingOps
    BY <1>26, <1>a DEF RoleElsewhere, Marked, history
  <2> QED BY <2>1, Quiet DEF ChangingOps
<1>27. ASSUME NEW r \in Requests, ClaimsElsewhereFail(r) PROVE DriftInv'
  <2>1. UNCHANGED <<members, mirror, claim, Marked>> /\ req[r].op \notin ChangingOps
    BY <1>27 DEF ClaimsElsewhereFail, Marked, history, ChangingOps
  <2>2. PICK t : GoTo(r, t) /\ t.op = "restores"
    <3>1. CASE GoTo(r, [op |-> "restores", who |-> req[r].who, to |-> claim[req[r].who]])
      BY <3>1
    <3>2. CASE GoTo(r, [op |-> "restores", who |-> req[r].who, to |-> "elsewhere"])
      BY <3>2
    <3> QED BY <1>27, <3>1, <3>2 DEF ClaimsElsewhereFail
  <2> QED BY <2>1, <2>2, Quiet DEF ChangingOps
<1> QED
  BY StepCases, <1>1, <1>2, <1>3, <1>4, <1>5, <1>6, <1>7, <1>8, <1>9, <1>10, <1>11,
     <1>12, <1>13, <1>14, <1>15, <1>16, <1>17, <1>18, <1>20, <1>21, <1>22,
     <1>23, <1>24, <1>25, <1>26, <1>27

\* DriftHasACause for every set of users and any number of operations.
THEOREM CopiesAgree == Spec => []DriftHasACause
<1>1. Init => TypeOK /\ Known /\ DriftInv
  <2> SUFFICES ASSUME Init PROVE DriftInv
    BY InitType
  <2>1. \A r \in Requests, u \in Users : ~Changes(r, u)
    BY DEF Init, Changes, New
  <2>2. \A u \in Users : Agree(u)
    BY DEF Init, Agree
  <2> QED BY <2>1, <2>2 DEF DriftInv, Orderly
<1>2. TypeOK /\ Known /\ DriftInv /\ [Next]_vars => (TypeOK /\ Known /\ DriftInv)'
  BY TypeStep, DriftStep
<1>3. DriftInv => DriftHasACause
  BY DEF DriftInv, Orderly, DriftHasACause, Agree, Marked
<1> QED BY <1>1, <1>2, <1>3, PTL DEF Spec
=============================================================================
