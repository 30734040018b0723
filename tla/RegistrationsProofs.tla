-------------------------- MODULE RegistrationsProofs --------------------------
(***************************************************************************)
(* Proofs about Registrations for every number of users, tiers, requests   *)
(* and registrations.                                                      *)
(*                                                                         *)
(* That registeredCount stays a natural number needs CountIsLive.  That a  *)
(* promotion finds nobody earlier in its queue needs that identifiers are  *)
(* given in order and that nobody ever joins the queue behind its back.    *)
(* What a promotion has lost when it gives up is counted in registrations  *)
(* that have left the queue for good.                                      *)
(***************************************************************************)
EXTENDS Registrations, FiniteSetTheorems, TLAPS

\* Registrations are created in the order of their identifiers.
InOrder == \A i, j \in Regs : j < i /\ reg[j] = "none" => reg[i] = "none"

\* Every registration that exists is for one of the tiers.
HasTier == \A i \in Regs : reg[i] # "none" => tier[i] \in Tiers

\* Nobody in the queue of a promotion's tier is ahead of its candidate.
CandidateIsFirst ==
  \A r \in Requests :
    req[r].op = "promote" =>
      /\ reg[req[r].reg] # "none"
      /\ tier[req[r].reg] = req[r].tier
      /\ \A j \in Waitlist(req[r].tier) : j >= req[r].reg

IInv ==
  /\ TypeOK
  /\ InOrder
  /\ HasTier
  /\ CandidateIsFirst
  /\ CountIsLive
  /\ OneLivePerUser

-----------------------------------------------------------------------------
\* The settings of the event change together and only in UpdateEvent.
USE DEF settings

LEMMA RegsFinite == IsFiniteSet(Regs) /\ Regs \subseteq Nat \ {0}
BY BoundAssumption, FS_Interval DEF Regs

\* The oldest of a set of registrations has nobody of the set before it.
LEMMA OldestIsFirst ==
  ASSUME NEW S \in SUBSET Regs, NEW i \in Oldest(S, 1)
  PROVE  i \in S /\ \A j \in S : j >= i
<1> DEFINE before == {j \in S : j < i}
<1>1. i \in S /\ Cardinality(before) < 1
  BY DEF Oldest
<1>2. IsFiniteSet(before)
  BY RegsFinite, FS_Subset, before \subseteq Regs
<1>3. Cardinality(before) = 0
  BY <1>1, <1>2, FS_CardinalityType
<1>4. before = {}
  BY <1>2, <1>3, FS_EmptySet
<1> QED BY <1>1, <1>4, RegsFinite

LEMMA CountedFinite == IsFiniteSet(Counted) /\ Cardinality(Counted) \in Nat
BY RegsFinite, FS_Subset, FS_CardinalityType, Counted \subseteq Regs DEF Counted

\* A registration that moves between the counted statuses keeps the count.
LEMMA CountKept ==
  ASSUME IInv, UNCHANGED registeredCount, Counted' = Counted
  PROVE  CountIsLive'
BY DEF IInv, CountIsLive

\* The requests in flight have the fields their steps read.
LEMMA ReqFields ==
  ASSUME TypeOK, NEW r \in Requests
  PROVE  /\ req[r].op = "cancel" => req[r].reg \in Regs /\ req[r].seen \in Live
         /\ req[r].op = "pick" =>
              req[r].tier \in Tiers /\ req[r].tries \in 0..MaxRetries - 1
         /\ req[r].op = "promote" =>
              /\ req[r].reg \in Regs /\ req[r].tier \in Tiers
              /\ req[r].tries \in 0..MaxRetries - 1
         /\ req[r].op = "bulk" => req[r].todo \in SUBSET Regs
BY DEF TypeOK, Task, Idle, CancelTask, PickTask, PromoteTask, BulkTask

LEMMA InitIInv == Init => IInv
<1> SUFFICES ASSUME Init PROVE IInv
  OBVIOUS
<1>1. TypeOK
  <2>1. PICK s \in Settings :
          requiresApproval = s[1] /\ maxAttendees = s[2] /\ soldOut = s[3]
    BY DEF Init
  <2>2. s[1] \in BOOLEAN /\ s[2] \in Nat /\ s[3] \in SUBSET Tiers
    BY BoundAssumption
  <2> QED BY <2>1, <2>2 DEF Init, TypeOK, Status, Task
<1>2. InOrder /\ HasTier /\ OneLivePerUser
  BY DEF Init, InOrder, HasTier, OneLivePerUser, Live
<1>3. CandidateIsFirst
  BY DEF Init, CandidateIsFirst, Idle
<1>4. CountIsLive
  <2>1. Counted = {}
    BY DEF Init, Counted, Live
  <2> QED BY <2>1, FS_EmptySet DEF Init, CountIsLive
<1> QED BY <1>1, <1>2, <1>3, <1>4 DEF IInv

-----------------------------------------------------------------------------
\* A step that changes nothing but what one request remembers.
LEMMA RequestStep ==
  ASSUME IInv, NEW r \in Requests, NEW task \in Task, GoTo(r, task),
         UNCHANGED <<reg, owner, tier, registeredCount, settings,
                     granted, taken, doubled>>,
         task.op = "promote" =>
           /\ reg[task.reg] # "none"
           /\ tier[task.reg] = task.tier
           /\ \A j \in Waitlist(task.tier) : j >= task.reg
  PROVE  IInv'
<1>1. TypeOK'
  BY DEF IInv, TypeOK, GoTo
<1>2. InOrder' /\ HasTier' /\ OneLivePerUser'
  BY DEF IInv, InOrder, HasTier, OneLivePerUser
<1>3. CandidateIsFirst'
  BY DEF IInv, TypeOK, CandidateIsFirst, GoTo, Waitlist
<1>4. CountIsLive'
  BY CountKept DEF Counted
<1> QED BY <1>1, <1>2, <1>3, <1>4 DEF IInv

\* What is known of the candidates survives a step that lets nobody join.
LEMMA CandidatesKept ==
  ASSUME IInv,
         \A q \in Requests : req'[q].op = "promote" => req'[q] = req[q],
         UNCHANGED tier, \A i \in Regs : reg[i] # "none" => reg'[i] # "none",
         \A i \in Regs : reg'[i] = "waitlisted" => reg[i] = "waitlisted"
  PROVE  CandidateIsFirst'
<1> SUFFICES ASSUME NEW q \in Requests, req'[q].op = "promote"
             PROVE  /\ reg'[req'[q].reg] # "none"
                    /\ tier'[req'[q].reg] = req'[q].tier
                    /\ \A j \in Regs :
                         reg'[j] = "waitlisted" /\ tier'[j] = req'[q].tier
                           => j >= req'[q].reg
  BY DEF CandidateIsFirst, Waitlist
<1>1. req'[q] = req[q]
  OBVIOUS
<1>2. req[q].reg \in Regs /\ req[q].tier \in Tiers
  BY <1>1, ReqFields DEF IInv
<1> QED BY <1>1, <1>2 DEF IInv, CandidateIsFirst, Waitlist

\* A step that confirms, admits or cancels one registration and starts no
\* promotion with a candidate.
LEMMA StatusStep ==
  ASSUME IInv, NEW i \in Regs, reg[i] # "none",
         NEW new \in {"confirmed", "checked_in", "cancelled"},
         reg' = [reg EXCEPT ![i] = new],
         reg[i] \notin Live => new \notin Live,
         \A q \in Requests : req'[q].op = "promote" => req'[q] = req[q],
         UNCHANGED <<owner, tier, doubled>>
  PROVE  /\ InOrder' /\ HasTier' /\ OneLivePerUser' /\ CandidateIsFirst'
         /\ reg' \in [Regs -> Status]
<1>1. reg' \in [Regs -> Status]
  BY DEF IInv, TypeOK, Status
<1>2. InOrder' /\ HasTier'
  BY DEF IInv, TypeOK, InOrder, HasTier
<1>3. OneLivePerUser'
  BY DEF IInv, TypeOK, OneLivePerUser
<1>4. /\ \A j \in Regs : reg[j] # "none" => reg'[j] # "none"
      /\ \A j \in Regs : reg'[j] = "waitlisted" => reg[j] = "waitlisted"
  BY DEF IInv, TypeOK
<1> QED BY <1>1, <1>2, <1>3, <1>4, CandidatesKept

\* If the registration is counted before and after, so is the number.
LEMMA CountedStep ==
  ASSUME IInv, NEW i \in Regs, reg[i] \in Live,
         NEW new \in {"confirmed", "checked_in"},
         reg' = [reg EXCEPT ![i] = new], UNCHANGED registeredCount
  PROVE  CountIsLive'
<1>1. Counted' = Counted
  BY DEF IInv, TypeOK, Counted, Live
<1> QED BY <1>1, CountKept

\* A merge moves registrations of one participant to another and nothing else.
LEMMA MergeStep ==
  ASSUME IInv, NEW u \in Users, NEW v \in Users, Merge(u, v)
  PROVE  IInv'
<1> USE DEF Merge
<1>1. TypeOK'
  BY DEF IInv, TypeOK
<1>2. CountIsLive'
  BY CountKept DEF Counted
<1>3. InOrder' /\ HasTier' /\ CandidateIsFirst'
  BY DEF IInv, InOrder, HasTier, CandidateIsFirst, Waitlist
<1>4. OneLivePerUser'
  <2> SUFFICES ASSUME NEW i \in Regs, NEW j \in Regs, reg[i] \in Live,
                      reg[j] \in Live, owner'[i] = owner'[j],
                      owner'[i] \notin doubled', i # j
               PROVE  FALSE
    BY DEF OneLivePerUser
  <2>1. CASE owner'[i] = u
    <3>1. owner[i] \in {u, v} /\ owner[j] \in {u, v}
      BY <2>1
    <3>2. JoinsLive(u, v)
      BY <3>1 DEF JoinsLive
    <3> QED BY <2>1, <3>2
  <2>2. CASE owner'[i] # u
    <3>1. owner[i] = owner[j] /\ owner[i] = owner'[i] /\ owner[i] \notin doubled
      BY <2>2
    <3> QED BY <3>1 DEF IInv, OneLivePerUser
  <2> QED BY <2>1, <2>2
<1> QED BY <1>1, <1>2, <1>3, <1>4 DEF IInv

\* Every step preserves the invariant.
LEMMA NextIInv == IInv /\ [Next]_vars => IInv'
<1> SUFFICES ASSUME IInv, [Next]_vars PROVE IInv'
  OBVIOUS
<1>t. TypeOK /\ CountIsLive /\ registeredCount \in Nat
  BY DEF IInv, TypeOK
<1>idle. Idle \in Task /\ Idle.op # "promote"
  BY DEF Task, Idle
<1>1. ASSUME NEW u \in Users, NEW t \in Tiers, NEW i \in Regs,
             Register(u, t, i)
      PROVE  IInv'
  <2> USE <1>1 DEF Register
  <2>1. FirstStatus(t) \in Live
    BY DEF FirstStatus, Live
  <2>2. TypeOK'
    <3>1. taken' \in Nat
      BY <1>t DEF TypeOK
    <3> QED BY <1>t, <2>1, <3>1 DEF TypeOK, Live, Status
  <2>3. HasTier'
    BY <1>t DEF IInv, HasTier, TypeOK
  <2>4. InOrder'
    BY <1>t, <2>1, RegsFinite DEF IInv, InOrder, TypeOK, Live
  <2>5. OneLivePerUser'
    BY <1>t, <2>1 DEF IInv, OneLivePerUser, IsDuplicate, TypeOK
  <2>6. CountIsLive'
    <3>1. Counted' = Counted \cup {i} /\ i \notin Counted
      BY <1>t, <2>1 DEF Counted, TypeOK, Live
    <3>2. Cardinality(Counted') = Cardinality(Counted) + 1
      BY <3>1, CountedFinite, FS_AddElement
    <3> QED BY <1>t, <3>2 DEF CountIsLive
  <2>7. CandidateIsFirst'
    <3>req. UNCHANGED req
      OBVIOUS
    <3> SUFFICES ASSUME NEW q \in Requests, req[q].op = "promote"
                 PROVE  /\ reg'[req[q].reg] # "none"
                        /\ tier'[req[q].reg] = req[q].tier
                        /\ \A j \in Regs :
                             reg'[j] = "waitlisted" /\ tier'[j] = req[q].tier
                               => j >= req[q].reg
      BY <3>req DEF CandidateIsFirst, Waitlist
    <3>1. /\ req[q].reg \in Regs /\ reg[req[q].reg] # "none"
          /\ tier[req[q].reg] = req[q].tier
          /\ \A j \in Waitlist(req[q].tier) : j >= req[q].reg
      BY <1>t, ReqFields DEF IInv, CandidateIsFirst
    <3>2. req[q].reg # i
      BY <3>1
    <3>3. ~(i < req[q].reg)
      BY <3>1 DEF IInv, InOrder
    <3>4. i >= req[q].reg
      <4>1. i \in Nat /\ req[q].reg \in Nat
        BY <3>1, RegsFinite
      <4> QED BY <3>3, <4>1
    <3>5. \A j \in Regs : j # i => reg'[j] = reg[j] /\ tier'[j] = tier[j]
      BY <1>t DEF TypeOK
    <3>6. reg'[req[q].reg] # "none" /\ tier'[req[q].reg] = req[q].tier
      BY <3>1, <3>2, <3>5
    <3>7. ASSUME NEW j \in Regs, reg'[j] = "waitlisted", tier'[j] = req[q].tier
          PROVE  j >= req[q].reg
      <4>1. CASE j = i
        BY <3>4, <4>1
      <4>2. CASE j # i
        BY <3>1, <3>5, <3>7, <4>2 DEF Waitlist
      <4> QED BY <4>1, <4>2
    <3> QED BY <3>6, <3>7
  <2> QED BY <2>2, <2>3, <2>4, <2>5, <2>6, <2>7 DEF IInv
<1>2. ASSUME NEW i \in Regs, Approve(i) \/ CheckIn(i) PROVE IInv'
  <2> USE <1>2 DEF Approve, CheckIn
  <2>1. /\ reg[i] \in Live
        /\ \E new \in {"confirmed", "checked_in"} :
             reg' = [reg EXCEPT ![i] = new] /\ (reg[i] \notin Live => new \notin Live)
    BY DEF Live
  <2>2. granted' \in Nat
    BY <1>t DEF TypeOK
  <2>3. InOrder' /\ HasTier' /\ OneLivePerUser' /\ CandidateIsFirst'
        /\ reg' \in [Regs -> Status]
    BY <2>1, StatusStep DEF Live
  <2>4. CountIsLive'
    BY <2>1, CountedStep
  <2> QED BY <1>t, <2>2, <2>3, <2>4 DEF IInv, TypeOK
<1>3. CASE UpdateEvent
  <2> USE <1>3 DEF UpdateEvent
  <2>1. TypeOK'
    <3>1. PICK s \in Settings :
            requiresApproval' = s[1] /\ maxAttendees' = s[2] /\ soldOut' = s[3]
      OBVIOUS
    <3>2. s[1] \in BOOLEAN /\ s[2] \in Nat /\ s[3] \in SUBSET Tiers
      BY BoundAssumption
    <3> QED BY <1>t, <3>1, <3>2 DEF TypeOK
  <2>2. CountIsLive'
    BY CountKept DEF Counted
  <2> QED BY <2>1, <2>2
          DEF IInv, InOrder, HasTier, OneLivePerUser, CandidateIsFirst, Waitlist
<1>4. ASSUME NEW r \in Requests, NEW i \in Regs, CancelRead(r, i) PROVE IInv'
  <2> USE <1>4 DEF CancelRead
  <2>1. [op |-> "cancel", reg |-> i, seen |-> reg[i]] \in Task
    BY DEF Task, CancelTask
  <2> QED BY <2>1, RequestStep
<1>5. ASSUME NEW r \in Requests,
             CancelRejected(r) \/ Crash(r) PROVE IInv'
  BY <1>5, <1>idle, RequestStep DEF CancelRejected, Crash, Done
<1>6. ASSUME NEW r \in Requests, CancelCommit(r) PROVE IInv'
  <2> USE <1>6 DEF CancelCommit
  <2> DEFINE i == req[r].reg
  <2>1. i \in Regs /\ reg[i] \in Live /\ reg[i] # "none"
    BY <1>t, ReqFields DEF Live
  <2>2. [op |-> "pick", tier |-> tier[i], tries |-> 0] \in Task
    BY <2>1, BoundAssumption DEF IInv, HasTier, Task, PickTask
  <2>3. /\ req' \in [Requests -> Task]
        /\ \A q \in Requests : req'[q].op = "promote" => req'[q] = req[q]
    BY <1>t, <1>idle, <2>2 DEF TypeOK, GoTo, Done
  <2>4. InOrder' /\ HasTier' /\ OneLivePerUser' /\ CandidateIsFirst'
        /\ reg' \in [Regs -> Status]
    BY <2>1, <2>3, StatusStep
  <2>5. Counted' = Counted \ {i} /\ i \in Counted
    BY <1>t, <2>1 DEF Counted, TypeOK, Live
  <2>6. Cardinality(Counted') = Cardinality(Counted) - 1
        /\ Cardinality(Counted') \in Nat
    BY <2>5, CountedFinite, FS_RemoveElement, FS_CardinalityType
  <2>7. registeredCount' = registeredCount - 1
    BY <2>1 DEF CountedAtRegister, Live
  <2>8. CountIsLive' /\ registeredCount' \in Nat
    BY <1>t, <2>6, <2>7 DEF CountIsLive
  <2> QED BY <1>t, <2>3, <2>4, <2>8 DEF IInv, TypeOK
<1>7. ASSUME NEW r \in Requests, PickOldest(r) PROVE IInv'
  <2> USE <1>7 DEF PickOldest
  <2>1. req[r].tier \in Tiers /\ req[r].tries \in 0..MaxRetries - 1
    BY <1>t, ReqFields
  <2>2. CASE Waitlist(req[r].tier) = {}
    BY <1>idle, <2>2, RequestStep DEF Done
  <2>3. CASE Waitlist(req[r].tier) # {}
    <3>1. PICK i \in Oldest(Waitlist(req[r].tier), 1) :
            GoTo(r, [op |-> "promote", tier |-> req[r].tier, reg |-> i,
                     tries |-> req[r].tries])
      BY <2>3
    <3>2. /\ i \in Waitlist(req[r].tier)
          /\ \A j \in Waitlist(req[r].tier) : j >= i
      BY OldestIsFirst, Waitlist(req[r].tier) \subseteq Regs DEF Waitlist
    <3>3. i \in Regs /\ reg[i] = "waitlisted" /\ tier[i] = req[r].tier
      BY <3>2 DEF Waitlist
    <3>4. [op |-> "promote", tier |-> req[r].tier, reg |-> i,
           tries |-> req[r].tries] \in Task
      BY <2>1, <3>3 DEF Task, PromoteTask
    <3> QED BY <3>1, <3>2, <3>3, <3>4, RequestStep
  <2> QED BY <2>2, <2>3
<1>8. ASSUME NEW r \in Requests, Promote(r) PROVE IInv'
  <2> USE <1>8 DEF Promote
  <2>1. req[r].reg \in Regs /\ reg[req[r].reg] \in Live
    BY <1>t, ReqFields DEF Live
  <2>2. /\ req' \in [Requests -> Task]
        /\ \A q \in Requests : req'[q].op = "promote" => req'[q] = req[q]
    BY <1>t, <1>idle DEF TypeOK, GoTo, Done
  <2>3. InOrder' /\ HasTier' /\ OneLivePerUser' /\ CandidateIsFirst'
        /\ reg' \in [Regs -> Status]
    BY <2>1, <2>2, StatusStep
  <2>4. CountIsLive'
    BY <2>1, CountedStep
  <2> QED BY <1>t, <2>2, <2>3, <2>4 DEF IInv, TypeOK
<1>9. ASSUME NEW r \in Requests, PromoteRaced(r) PROVE IInv'
  <2> USE <1>9 DEF PromoteRaced
  <2>1. CASE MayRetry(req[r].tries + 1)
    <3>1. [op |-> "pick", tier |-> req[r].tier, tries |-> req[r].tries + 1]
            \in Task
      BY <1>t, <2>1, ReqFields, BoundAssumption DEF MayRetry, Task, PickTask
    <3> QED BY <2>1, <3>1, RequestStep
  <2>2. CASE ~MayRetry(req[r].tries + 1)
    BY <1>idle, <2>2, RequestStep DEF Done
  <2> QED BY <2>1, <2>2
<1>10. ASSUME NEW r \in Requests, NEW S \in SUBSET Tiers, BulkQuery(r, S)
       PROVE  IInv'
  <2> DEFINE todo == Oldest(UNION {Waitlist(t) : t \in S}, BulkCount)
  <2>1. todo \in SUBSET Regs
    BY DEF Oldest, Waitlist
  <2>2. [op |-> "bulk", todo |-> todo] \in Task
    BY <2>1 DEF Task, BulkTask
  <2> QED BY <1>10, <2>2, RequestStep DEF BulkQuery
<1>11. ASSUME NEW r \in Requests, BulkStep(r) PROVE IInv'
  <2> USE <1>11 DEF BulkStep
  <2>0. req[r].todo \in SUBSET Regs
    BY <1>t, ReqFields
  <2>1. PICK i \in Oldest(req[r].todo, 1) :
          /\ \/ /\ reg[i] = "waitlisted"
                /\ reg' = [reg EXCEPT ![i] = "confirmed"]
                /\ granted' = granted + 1
             \/ UNCHANGED <<reg, granted>>
          /\ IF req[r].todo \ {i} = {} THEN Done(r)
             ELSE GoTo(r, [op |-> "bulk", todo |-> req[r].todo \ {i}])
    OBVIOUS
  <2>2. i \in Regs
    BY <2>0, <2>1 DEF Oldest
  <2>3. [op |-> "bulk", todo |-> req[r].todo \ {i}] \in Task
    BY <2>0 DEF Task, BulkTask
  <2>4. /\ req' \in [Requests -> Task]
        /\ \A q \in Requests : req'[q].op = "promote" => req'[q] = req[q]
    <3>1. PICK task \in Task : GoTo(r, task) /\ task.op # "promote"
      <4>1. CASE req[r].todo \ {i} = {}
        BY <1>idle, <2>1, <4>1 DEF Done
      <4>2. CASE req[r].todo \ {i} # {}
        BY <2>1, <2>3, <4>2
      <4> QED BY <4>1, <4>2
    <3> QED BY <1>t, <3>1 DEF TypeOK, GoTo
  <2>5. CASE UNCHANGED <<reg, granted>>
    <3>1. CandidateIsFirst'
      BY <2>4, <2>5, CandidatesKept
    <3>2. CountIsLive'
      BY <2>5, CountKept DEF Counted
    <3> QED BY <1>t, <2>4, <2>5, <3>1, <3>2
            DEF IInv, TypeOK, InOrder, HasTier, OneLivePerUser
  <2>6. CASE /\ reg[i] = "waitlisted"
             /\ reg' = [reg EXCEPT ![i] = "confirmed"]
             /\ granted' = granted + 1
    <3>1. reg[i] \in Live
      BY <2>6 DEF Live
    <3>2. InOrder' /\ HasTier' /\ OneLivePerUser' /\ CandidateIsFirst'
          /\ reg' \in [Regs -> Status]
      BY <2>2, <2>4, <2>6, <3>1, StatusStep
    <3>3. CountIsLive'
      BY <2>2, <2>6, <3>1, CountedStep
    <3> QED BY <1>t, <2>4, <2>6, <3>2, <3>3 DEF IInv, TypeOK
  <2> QED BY <2>1, <2>5, <2>6
<1>12. CASE UNCHANGED vars
  <2> USE <1>12 DEF vars
  <2>1. TypeOK' /\ CountIsLive'
    BY <1>t DEF TypeOK, CountIsLive, Counted
  <2> QED BY <2>1
          DEF IInv, InOrder, HasTier, OneLivePerUser, CandidateIsFirst, Waitlist
<1>13. ASSUME NEW u \in Users, NEW v \in Users, Merge(u, v) PROVE IInv'
  BY <1>13, MergeStep
<1> QED
  <2>1. \A S \in {{t} : t \in Tiers} \cup {Tiers} : S \in SUBSET Tiers
    OBVIOUS
  <2> QED BY <1>1, <1>2, <1>3, <1>4, <1>5, <1>6, <1>7, <1>8, <1>9, <1>10, <1>11,
             <1>12, <1>13, <2>1 DEF Next

LEMMA Invariance == Spec => []IInv
BY InitIInv, NextIInv, PTL DEF Spec

-----------------------------------------------------------------------------
\* The types of the registrations' state; the counter never goes below zero.
THEOREM TypeCorrect == Spec => []TypeOK
BY Invariance, PTL DEF IInv

\* registeredCount is the number of registrations that are not cancelled,
\* whatever paths cancelled, confirmed or admitted them.
THEOREM CountCorrect == Spec => []CountIsLive
BY Invariance, PTL DEF IInv

\* No participant ever holds two live registrations of the event.
THEOREM OneLiveCorrect == Spec => []OneLivePerUser
BY Invariance, PTL DEF IInv

-----------------------------------------------------------------------------
(* The seats.  What they and the promises in flight add up to is bounded:    *)
(* a promise becomes a seat, a cancelled seat becomes a promise.             *)

LimitIsKnown == maxAttendees <= peak

SeatsPromised ==
  Cardinality(Seats) + Cardinality(Promises) <= peak + granted + taken

\* A registration that a cancellation has seen confirmed holds a seat until it
\* is cancelled.
SeenHolds ==
  \A r \in Requests :
    req[r].op = "cancel" /\ req[r].seen = "confirmed" =>
      reg[req[r].reg] \in {"confirmed", "checked_in", "cancelled"}

SeatInv == LimitIsKnown /\ SeatsPromised /\ SeenHolds

\* The seats are among the registrations the counter counts.
LEMMA SeatsCounted ==
  IInv => /\ IsFiniteSet(Seats) /\ Cardinality(Seats) \in Nat
          /\ Cardinality(Seats) <= registeredCount
<1> SUFFICES ASSUME IInv
             PROVE  /\ IsFiniteSet(Seats) /\ Cardinality(Seats) \in Nat
                    /\ Cardinality(Seats) <= registeredCount
  OBVIOUS
<1>1. Seats \subseteq Counted
  BY DEF Seats, Counted, Live
<1>2. IsFiniteSet(Counted) /\ registeredCount = Cardinality(Counted)
  BY CountedFinite DEF IInv, CountIsLive
<1>3. IsFiniteSet(Seats) /\ Cardinality(Seats) <= Cardinality(Counted)
  BY <1>1, <1>2, FS_Subset
<1>4. Cardinality(Seats) \in Nat
  BY <1>3, FS_CardinalityType
<1> QED BY <1>2, <1>3, <1>4

LEMMA PromisesFinite == IsFiniteSet(Promises) /\ Cardinality(Promises) \in Nat
<1>1. Promises \subseteq Requests
  BY DEF Promises
<1>2. IsFiniteSet(Requests)
  BY BoundAssumption
<1> QED BY <1>1, <1>2, FS_Subset, FS_CardinalityType

\* What a step can do to a finite set, and to its size.
LEMMA Sizes ==
  ASSUME NEW S, IsFiniteSet(S), NEW T, NEW x
  PROVE  /\ T \subseteq S => Cardinality(T) \in Nat /\ Cardinality(T) <= Cardinality(S)
         /\ T = S \cup {x} =>
              Cardinality(T) \in Nat /\ Cardinality(T) <= Cardinality(S) + 1
         /\ T = S \ {x} /\ x \in S =>
              Cardinality(T) \in Nat /\ Cardinality(T) = Cardinality(S) - 1
<1>1. Cardinality(S) \in Nat
  BY FS_CardinalityType
<1>2. ASSUME T \subseteq S
      PROVE  Cardinality(T) \in Nat /\ Cardinality(T) <= Cardinality(S)
  BY <1>2, FS_Subset, FS_CardinalityType
<1>3. ASSUME T = S \cup {x}
      PROVE  Cardinality(T) \in Nat /\ Cardinality(T) <= Cardinality(S) + 1
  <2>1. CASE x \in S
    <3>1. T = S
      BY <1>3, <2>1
    <3> QED BY <1>1, <3>1
  <2>2. CASE x \notin S
    BY <1>1, <1>3, <2>2, FS_AddElement
  <2> QED BY <2>1, <2>2
<1>4. ASSUME T = S \ {x}, x \in S
      PROVE  Cardinality(T) \in Nat /\ Cardinality(T) = Cardinality(S) - 1
  <2>1. T \subseteq S
    BY <1>4
  <2> QED BY <1>2, <1>4, <2>1, FS_RemoveElement
<1> QED BY <1>2, <1>3, <1>4

\* One registration changes its status.
LEMMA SeatChange ==
  ASSUME TypeOK, NEW i \in Regs, NEW new \in Status, reg' = [reg EXCEPT ![i] = new]
  PROVE  /\ Seats' \subseteq Seats \cup {i}
         /\ new \in {"pending", "confirmed", "checked_in"} => Seats' = Seats \cup {i}
         /\ new \notin {"pending", "confirmed", "checked_in"} => Seats' = Seats \ {i}
         /\ reg[i] \in {"pending", "confirmed", "checked_in"} => i \in Seats
BY DEF TypeOK, Seats

\* One request changes its task.
LEMMA PromiseChange ==
  ASSUME TypeOK, NEW r \in Requests, NEW task, GoTo(r, task)
  PROVE  /\ Promises' \subseteq Promises \cup {r}
         /\ task.op \in {"pick", "promote"} => Promises' = Promises \cup {r}
         /\ task.op \notin {"pick", "promote"} => Promises' = Promises \ {r}
         /\ req[r].op \in {"pick", "promote"} => r \in Promises
BY DEF TypeOK, GoTo, Promises

\* The statuses a cancellation can have seen lead nowhere else.
LEMMA SeenKept ==
  ASSUME TypeOK, SeenHolds,
         \A i \in Regs :
           reg[i] \in {"confirmed", "checked_in", "cancelled"} =>
             reg'[i] \in {"confirmed", "checked_in", "cancelled"},
         \A q \in Requests : req'[q].op = "cancel" => req'[q] = req[q]
  PROVE  SeenHolds'
<1> SUFFICES ASSUME NEW q \in Requests, req'[q].op = "cancel",
                    req'[q].seen = "confirmed"
             PROVE  reg'[req'[q].reg] \in {"confirmed", "checked_in", "cancelled"}
  BY DEF SeenHolds
<1>1. req'[q] = req[q] /\ req[q].reg \in Regs
  BY ReqFields
<1> QED BY <1>1 DEF SeenHolds

\* A step that confirms or admits one registration, or none, and keeps every
\* cancellation in flight.
LEMMA SeenKeptBy ==
  ASSUME TypeOK, SeenHolds, NEW i \in Regs,
         NEW new \in {"confirmed", "checked_in", "cancelled"},
         reg' = [reg EXCEPT ![i] = new] \/ reg' = reg,
         \A q \in Requests : req'[q].op = "cancel" => req'[q] = req[q]
  PROVE  SeenHolds'
<1>1. \A j \in Regs :
        reg[j] \in {"confirmed", "checked_in", "cancelled"} =>
          reg'[j] \in {"confirmed", "checked_in", "cancelled"}
  BY DEF TypeOK
<1> QED BY <1>1, SeenKept

\* A task that is no cancellation leaves the others as they were.
LEMMA OthersKept ==
  ASSUME TypeOK, NEW r \in Requests, NEW task, GoTo(r, task), task.op # "cancel"
  PROVE  \A q \in Requests : req'[q].op = "cancel" => req'[q] = req[q]
BY DEF TypeOK, GoTo

LEMMA SeatsStep == IInv /\ IInv' /\ SeatInv /\ [Next]_vars => SeatInv'
<1> SUFFICES ASSUME IInv, IInv', SeatInv, [Next]_vars PROVE SeatInv'
  OBVIOUS
<1>t. /\ TypeOK /\ registeredCount \in Nat /\ maxAttendees \in Nat
      /\ peak \in Nat /\ granted \in Nat /\ taken \in Nat
      /\ IsFiniteSet(Seats) /\ Cardinality(Seats) \in Nat
      /\ Cardinality(Seats) <= registeredCount
      /\ IsFiniteSet(Promises) /\ Cardinality(Promises) \in Nat
      /\ "confirmed" \in Status /\ "checked_in" \in Status /\ "cancelled" \in Status
  BY SeatsCounted, PromisesFinite DEF IInv, TypeOK, Status
<1>s. LimitIsKnown /\ SeatsPromised /\ SeenHolds
  BY DEF SeatInv
<1>idle. Idle.op \notin {"pick", "promote", "cancel"}
  BY DEF Idle
\* Nobody gets a seat and no promise is made.
<1>quiet. ASSUME UNCHANGED <<settings, granted, taken>>, Seats' \subseteq Seats,
                 Promises' \subseteq Promises
          PROVE  LimitIsKnown' /\ SeatsPromised'
  <2>1. /\ Cardinality(Seats') \in Nat /\ Cardinality(Seats') <= Cardinality(Seats)
        /\ Cardinality(Promises') \in Nat
        /\ Cardinality(Promises') <= Cardinality(Promises)
    BY <1>t, <1>quiet, Sizes
  <2> QED BY <1>t, <1>s, <1>quiet, <2>1 DEF LimitIsKnown, SeatsPromised
\* An organiser lets a waitlisted registration in.
<1>grant. ASSUME NEW i \in Regs, reg' = [reg EXCEPT ![i] = "confirmed"],
                 UNCHANGED <<settings, taken>>, granted' = granted + 1,
                 Promises' \subseteq Promises
          PROVE  LimitIsKnown' /\ SeatsPromised'
  <2>1. Seats' = Seats \cup {i}
    BY <1>t, <1>grant, SeatChange
  <2>2. Cardinality(Seats') \in Nat /\ Cardinality(Seats') <= Cardinality(Seats) + 1
    BY <1>t, <2>1, Sizes
  <2>3. Cardinality(Promises') \in Nat /\ Cardinality(Promises') <= Cardinality(Promises)
    BY <1>t, <1>grant, Sizes
  <2> QED BY <1>t, <1>s, <1>grant, <2>2, <2>3 DEF LimitIsKnown, SeatsPromised
<1>1. ASSUME NEW u \in Users, NEW t \in Tiers, NEW i \in Regs, Register(u, t, i)
      PROVE  SeatInv'
  <2> USE <1>1 DEF Register
  <2>1. reg' = [reg EXCEPT ![i] = FirstStatus(t)] /\ reg[i] = "none"
    OBVIOUS
  <2>2. SeenHolds'
    <3>1. \A j \in Regs :
            reg[j] \in {"confirmed", "checked_in", "cancelled"} =>
              reg'[j] \in {"confirmed", "checked_in", "cancelled"}
      BY <1>t, <2>1 DEF TypeOK
    <3> QED BY <1>t, <1>s, <3>1, SeenKept
  <2>3. Promises' = Promises
    BY DEF Promises
  <2>4. CASE CapacityHit(t)
    <3>1. FirstStatus(t) = "waitlisted" /\ "waitlisted" \in Status
      BY <2>4 DEF FirstStatus, Status
    <3>2. Seats' \subseteq Seats
      BY <1>t, <2>1, <3>1, SeatChange
    <3>3. taken' = taken
      BY <1>t, <2>4
    <3> QED BY <1>quiet, <2>2, <2>3, <3>2, <3>3 DEF SeatInv
  <2>5. CASE ~CapacityHit(t)
    <3>1. FirstStatus(t) \in {"pending", "confirmed"} /\ FirstStatus(t) \in Status
      BY <2>5 DEF FirstStatus, Status
    <3>2. Seats' = Seats \cup {i}
      BY <1>t, <2>1, <3>1, SeatChange
    <3>3. Cardinality(Seats') \in Nat /\ Cardinality(Seats') <= Cardinality(Seats) + 1
      BY <1>t, <3>2, Sizes
    <3>4. CASE HasSeat
      <4>1. Cardinality(Seats) + Cardinality(Promises) < maxAttendees
        BY <3>4 DEF HasSeat
      <4>2. ~IsPromised
        BY <1>t, <3>4, <4>1 DEF IsPromised
      <4>3. taken' = taken
        BY <1>t, <4>2
      <4>4. SeatsPromised'
        BY <1>t, <1>s, <2>3, <3>3, <4>1, <4>3 DEF LimitIsKnown, SeatsPromised
      <4> QED BY <1>s, <2>2, <4>4 DEF SeatInv, LimitIsKnown
    <3>5. CASE ~HasSeat
      <4>1. IsPromised
        BY <1>t, <2>5, <3>5 DEF CapacityHit, IsPromised
      <4>2. taken' = taken + 1
        BY <2>5, <4>1
      <4>3. SeatsPromised'
        BY <1>t, <1>s, <2>3, <3>3, <4>2 DEF SeatsPromised
      <4> QED BY <1>s, <2>2, <4>3 DEF SeatInv, LimitIsKnown
    <3> QED BY <3>4, <3>5
  <2> QED BY <2>4, <2>5
<1>2. ASSUME NEW i \in Regs, Approve(i) PROVE SeatInv'
  <2> USE <1>2 DEF Approve
  <2>1. SeenHolds'
    BY <1>t, <1>s, SeenKeptBy
  <2>2. Promises' = Promises
    BY DEF Promises
  <2>3. CASE reg[i] = "waitlisted"
    <3>1. granted' = granted + 1
      BY <2>3
    <3> QED BY <1>grant, <2>1, <2>2, <3>1 DEF SeatInv
  <2>4. CASE reg[i] = "pending"
    <3>1. granted' = granted
      BY <1>t, <2>4
    <3>2. Seats' \subseteq Seats
      BY <1>t, <2>4, SeatChange
    <3> QED BY <1>quiet, <2>1, <2>2, <3>1, <3>2 DEF SeatInv
  <2> QED BY <2>3, <2>4
<1>3. ASSUME NEW i \in Regs, CheckIn(i) PROVE SeatInv'
  <2> USE <1>3 DEF CheckIn
  <2>1. SeenHolds'
    BY <1>t, <1>s, SeenKeptBy
  <2>2. Promises' = Promises
    BY DEF Promises
  <2>3. Seats' \subseteq Seats
    BY <1>t, SeatChange
  <2> QED BY <1>quiet, <2>1, <2>2, <2>3 DEF SeatInv
<1>4. ASSUME NEW r \in Requests, CancelCommit(r) PROVE SeatInv'
  <2> USE <1>4 DEF CancelCommit
  <2>1. PICK i \in Regs : i = req[r].reg /\ reg[i] \in Live
    BY <1>t, ReqFields
  <2>2. Seats' = Seats \ {i}
    BY <1>t, <2>1, SeatChange
  <2>3. CASE req[r].seen = "confirmed"
    <3>1. PICK task : task = [op |-> "pick", tier |-> tier[i], tries |-> 0]
      OBVIOUS
    <3>2. GoTo(r, task) /\ task.op = "pick"
      BY <2>1, <2>3, <3>1
    <3>3. reg[i] = "confirmed"
      BY <1>s, <2>1, <2>3 DEF SeenHolds, Live
    <3>4. i \in Seats
      BY <2>1, <3>3 DEF Seats
    <3>5. Cardinality(Seats') \in Nat /\ Cardinality(Seats') = Cardinality(Seats) - 1
      BY <1>t, <2>2, <3>4, Sizes
    <3>6. Promises' = Promises \cup {r}
      BY <1>t, <3>2, PromiseChange
    <3>7. Cardinality(Promises') \in Nat
          /\ Cardinality(Promises') <= Cardinality(Promises) + 1
      BY <1>t, <3>6, Sizes
    <3>8. LimitIsKnown' /\ SeatsPromised'
      BY <1>t, <1>s, <3>5, <3>7 DEF LimitIsKnown, SeatsPromised
    <3>9. SeenHolds'
      <4>1. \A q \in Requests : req'[q].op = "cancel" => req'[q] = req[q]
        BY <1>t, <3>2, OthersKept
      <4> QED BY <1>t, <1>s, <2>1, <4>1, SeenKeptBy
    <3> QED BY <3>8, <3>9 DEF SeatInv
  <2>4. CASE req[r].seen # "confirmed"
    <3>1. GoTo(r, Idle)
      BY <2>4 DEF Done
    <3>2. Seats' \subseteq Seats
      BY <2>2
    <3>3. Promises' \subseteq Promises
      BY <1>t, <1>idle, <3>1, PromiseChange
    <3>4. SeenHolds'
      <4>1. \A q \in Requests : req'[q].op = "cancel" => req'[q] = req[q]
        BY <1>t, <1>idle, <3>1, OthersKept
      <4> QED BY <1>t, <1>s, <2>1, <4>1, SeenKeptBy
    <3> QED BY <1>quiet, <3>2, <3>3, <3>4 DEF SeatInv
  <2> QED BY <2>3, <2>4
<1>5. ASSUME NEW r \in Requests, Promote(r) PROVE SeatInv'
  <2> USE <1>5 DEF Promote
  <2>1. PICK i \in Regs : i = req[r].reg
    BY <1>t, ReqFields
  <2>2. Seats' = Seats \cup {i}
    BY <1>t, <2>1, SeatChange
  <2>3. Cardinality(Seats') \in Nat /\ Cardinality(Seats') <= Cardinality(Seats) + 1
    BY <1>t, <2>2, Sizes
  <2>4. GoTo(r, Idle)
    BY DEF Done
  <2>5. Promises' = Promises \ {r} /\ r \in Promises
    BY <1>t, <1>idle, <2>4, PromiseChange
  <2>6. Cardinality(Promises') \in Nat
        /\ Cardinality(Promises') = Cardinality(Promises) - 1
    BY <1>t, <2>5, Sizes
  <2>7. LimitIsKnown' /\ SeatsPromised'
    BY <1>t, <1>s, <2>3, <2>6 DEF LimitIsKnown, SeatsPromised
  <2>8. SeenHolds'
    <3>1. \A q \in Requests : req'[q].op = "cancel" => req'[q] = req[q]
      BY <1>t, <1>idle, <2>4, OthersKept
    <3> QED BY <1>t, <1>s, <2>1, <3>1, SeenKeptBy
  <2> QED BY <2>7, <2>8 DEF SeatInv
<1>6. ASSUME NEW r \in Requests, BulkStep(r) PROVE SeatInv'
  <2> USE <1>6 DEF BulkStep
  <2>1. req[r].todo \in SUBSET Regs
    BY <1>t, ReqFields
  <2>2. PICK i \in Oldest(req[r].todo, 1) :
          /\ \/ reg' = [reg EXCEPT ![i] = "confirmed"] /\ granted' = granted + 1
             \/ UNCHANGED <<reg, granted>>
          /\ IF req[r].todo \ {i} = {} THEN Done(r)
             ELSE GoTo(r, [op |-> "bulk", todo |-> req[r].todo \ {i}])
    OBVIOUS
  <2>3. i \in Regs
    BY <2>1, <2>2 DEF Oldest
  <2>4. PICK task : GoTo(r, task) /\ task.op \notin {"pick", "promote", "cancel"}
    <3>1. CASE req[r].todo \ {i} = {}
      BY <1>idle, <2>2, <3>1 DEF Done
    <3>2. CASE req[r].todo \ {i} # {}
      <4>1. PICK task : task = [op |-> "bulk", todo |-> req[r].todo \ {i}]
        OBVIOUS
      <4> QED BY <2>2, <3>2, <4>1
    <3> QED BY <3>1, <3>2
  <2>5. Promises' \subseteq Promises
    BY <1>t, <2>4, PromiseChange
  <2>6. SeenHolds'
    <3>1. \A q \in Requests : req'[q].op = "cancel" => req'[q] = req[q]
      BY <1>t, <2>4, OthersKept
    <3> QED BY <1>t, <1>s, <2>2, <2>3, <3>1, SeenKeptBy
  <2>7. CASE UNCHANGED <<reg, granted>>
    <3>1. Seats' \subseteq Seats
      BY <2>7 DEF Seats
    <3> QED BY <1>quiet, <2>5, <2>6, <2>7, <3>1 DEF SeatInv
  <2>8. CASE reg' = [reg EXCEPT ![i] = "confirmed"] /\ granted' = granted + 1
    BY <1>grant, <2>3, <2>5, <2>6, <2>8 DEF SeatInv
  <2> QED BY <2>2, <2>7, <2>8
<1>7. ASSUME NEW r \in Requests, NEW i \in Regs, CancelRead(r, i) PROVE SeatInv'
  <2> USE <1>7 DEF CancelRead
  <2>1. PICK task : task = [op |-> "cancel", reg |-> i, seen |-> reg[i]]
    OBVIOUS
  <2>2. GoTo(r, task) /\ task.op = "cancel"
    BY <2>1
  <2>3. Promises' \subseteq Promises /\ Seats' \subseteq Seats
    BY <1>t, <2>2, PromiseChange DEF Seats
  <2>4. SeenHolds'
    BY <1>t, <1>s, <2>1, <2>2 DEF SeenHolds, TypeOK, GoTo
  <2> QED BY <1>quiet, <2>3, <2>4 DEF SeatInv
\* The other steps of a request keep the registrations and make no promise.
<1>request. ASSUME NEW r \in Requests, NEW task, GoTo(r, task), task.op # "cancel",
                   UNCHANGED <<reg, settings, granted, taken>>,
                   task.op \in {"pick", "promote"} => req[r].op \in {"pick", "promote"}
            PROVE  SeatInv'
  <2>1. Promises' \subseteq Promises
    BY <1>t, <1>request, PromiseChange
  <2>2. Seats' \subseteq Seats
    BY <1>request DEF Seats
  <2>3. SeenHolds'
    <3>1. \A q \in Requests : req'[q].op = "cancel" => req'[q] = req[q]
      BY <1>t, <1>request, OthersKept
    <3> QED BY <1>t, <1>s, <1>request, <3>1, SeenKept
  <2> QED BY <1>quiet, <1>request, <2>1, <2>2, <2>3 DEF SeatInv
<1>8. ASSUME NEW r \in Requests, CancelRejected(r) \/ Crash(r) PROVE SeatInv'
  BY <1>8, <1>idle, <1>request DEF CancelRejected, Crash, Done
<1>9. ASSUME NEW r \in Requests, PickOldest(r) PROVE SeatInv'
  <2> USE <1>9 DEF PickOldest
  <2>1. CASE Waitlist(req[r].tier) = {}
    BY <1>idle, <1>request, <2>1 DEF Done
  <2>2. CASE Waitlist(req[r].tier) # {}
    <3>1. PICK i \in Oldest(Waitlist(req[r].tier), 1) :
            GoTo(r, [op |-> "promote", tier |-> req[r].tier, reg |-> i,
                     tries |-> req[r].tries])
      BY <2>2
    <3>2. PICK task : task = [op |-> "promote", tier |-> req[r].tier, reg |-> i,
                              tries |-> req[r].tries]
      OBVIOUS
    <3> QED BY <1>request, <3>1, <3>2
  <2> QED BY <2>1, <2>2
<1>10. ASSUME NEW r \in Requests, PromoteRaced(r) PROVE SeatInv'
  <2> USE <1>10 DEF PromoteRaced
  <2>1. CASE MayRetry(req[r].tries + 1)
    <3>1. PICK task : task = [op |-> "pick", tier |-> req[r].tier,
                              tries |-> req[r].tries + 1]
      OBVIOUS
    <3> QED BY <1>request, <2>1, <3>1
  <2>2. CASE ~MayRetry(req[r].tries + 1)
    BY <1>idle, <1>request, <2>2 DEF Done
  <2> QED BY <2>1, <2>2
<1>11. ASSUME NEW r \in Requests, NEW S \in SUBSET Tiers, BulkQuery(r, S)
       PROVE  SeatInv'
  <2>1. PICK task :
          task = [op |-> "bulk",
                  todo |-> Oldest(UNION {Waitlist(t) : t \in S}, BulkCount)]
    OBVIOUS
  <2> QED BY <1>11, <1>request, <2>1 DEF BulkQuery
<1>12. CASE UpdateEvent
  <2> USE <1>12 DEF UpdateEvent
  <2>1. maxAttendees' \in Nat /\ peak' \in Nat
    BY DEF IInv, TypeOK
  <2>2. LimitIsKnown' /\ peak' >= peak
    BY <1>t, <1>s, <2>1 DEF LimitIsKnown
  <2>3. Seats' = Seats /\ Promises' = Promises /\ SeenHolds'
    BY <1>s DEF Seats, Promises, SeenHolds
  <2>4. SeatsPromised'
    BY <1>t, <1>s, <2>1, <2>2, <2>3 DEF SeatsPromised
  <2> QED BY <2>2, <2>3, <2>4 DEF SeatInv
<1>13. ASSUME (\E u, v \in Users : Merge(u, v)) \/ UNCHANGED vars PROVE SeatInv'
  <2>1. UNCHANGED <<reg, req, settings, granted, taken>>
    BY <1>13 DEF Merge, vars
  <2>2. Seats' = Seats /\ Promises' = Promises /\ SeenHolds'
    BY <1>s, <2>1 DEF Seats, Promises, SeenHolds
  <2> QED BY <1>quiet, <2>1, <2>2 DEF SeatInv
<1> QED
  <2>1. \A S \in {{t} : t \in Tiers} \cup {Tiers} : S \in SUBSET Tiers
    OBVIOUS
  <2> QED BY <1>1, <1>2, <1>3, <1>4, <1>5, <1>6, <1>7, <1>8, <1>9, <1>10, <1>11,
             <1>12, <1>13, <2>1 DEF Next

\* What exceeds the largest limit of the event was let in by an organiser, or is
\* a promoted registration whose promised seat another registration took.
THEOREM SeatsCorrect == Spec => []SeatsFit
<1>1. IInv /\ Init => SeatInv
  <2> SUFFICES ASSUME IInv, Init PROVE SeatInv
    OBVIOUS
  <2>1. Seats = {} /\ Promises = {}
    BY DEF Init, Seats, Promises, Idle
  <2>2. Cardinality(Seats) = 0 /\ Cardinality(Promises) = 0
    BY <2>1, FS_EmptySet
  <2>3. maxAttendees \in Nat /\ peak = maxAttendees /\ granted = 0 /\ taken = 0
    BY DEF IInv, TypeOK, Init
  <2>4. SeenHolds
    BY DEF Init, SeenHolds, Idle
  <2> QED BY <2>2, <2>3, <2>4 DEF SeatInv, LimitIsKnown, SeatsPromised
<1>2. IInv /\ IInv' /\ SeatInv /\ [Next]_vars => SeatInv'
  BY SeatsStep
<1>3. IInv /\ SeatInv => SeatsFit
  <2> SUFFICES ASSUME IInv, SeatInv PROVE SeatsFit
    OBVIOUS
  <2>1. /\ Cardinality(Seats) \in Nat /\ Cardinality(Promises) \in Nat
        /\ peak \in Nat /\ granted \in Nat /\ taken \in Nat
    BY SeatsCounted, PromisesFinite DEF IInv, TypeOK
  <2> QED BY <2>1 DEF SeatInv, SeatsPromised, SeatsFit
<1> QED BY <1>1, <1>2, <1>3, Invariance, PTL DEF Spec

\* A registration that gets a seat leaves the event within the limit in force.
LEMMA RegisterFits ==
  ASSUME IInv, NEW u \in Users, NEW t \in Tiers, NEW i \in Regs, Register(u, t, i),
         i \in Seats', maxAttendees # 0
  PROVE  Cardinality(Seats') <= maxAttendees
<1> USE DEF Register
<1>1. reg'[i] = FirstStatus(t) /\ FirstStatus(t) # "waitlisted"
  BY DEF IInv, TypeOK, Seats
<1>2. ~CapacityHit(t)
  BY <1>1 DEF FirstStatus
<1>3. FirstStatus(t) \in {"pending", "confirmed"} /\ FirstStatus(t) \in Status
  BY <1>2 DEF FirstStatus, Status
<1>4. Seats' = Seats \cup {i}
  BY <1>3, SeatChange DEF IInv
<1>5. /\ IsFiniteSet(Seats) /\ Cardinality(Seats) \in Nat
      /\ Cardinality(Seats) <= registeredCount
      /\ registeredCount \in Nat /\ maxAttendees \in Nat
  BY SeatsCounted DEF IInv, TypeOK
<1>6. Cardinality(Seats') \in Nat /\ Cardinality(Seats') <= Cardinality(Seats) + 1
  BY <1>4, <1>5, Sizes
<1>7. registeredCount < maxAttendees
  BY <1>2, <1>5 DEF CapacityHit
<1> QED BY <1>5, <1>6, <1>7

\* No registration takes a seat past the limit in force, whatever races with it
\* and however the organiser has edited the event.
THEOREM CapacityCorrect == Spec => RegistersWithinCapacity
<1> DEFINE A == \A u \in Users, t \in Tiers, i \in Regs :
                  Register(u, t, i) /\ i \in Seats' /\ maxAttendees # 0 =>
                    Cardinality(Seats') <= maxAttendees
<1>1. IInv => A
  BY RegisterFits
<1>2. IInv /\ [Next]_vars => [A]_vars
  BY <1>1
<1> QED BY <1>2, Invariance, PTL DEF Spec, RegistersWithinCapacity

\* A promotion never passes over somebody who registered earlier on its tier,
\* however old the query is that chose its candidate.
THEOREM OrderCorrect == Spec => PromotesInOrder
<1> DEFINE A == \A r \in Requests, i \in Regs :
                  Promote(r) /\ reg[i] # reg'[i] =>
                    \A j \in Waitlist(tier[i]) : j >= i
<1>1. IInv => A
  <2> SUFFICES ASSUME IInv, NEW r \in Requests, NEW i \in Regs, Promote(r),
                      reg[i] # reg'[i]
               PROVE  \A j \in Waitlist(tier[i]) : j >= i
    OBVIOUS
  <2>1. i = req[r].reg
    BY DEF IInv, TypeOK, Promote
  <2> QED BY <2>1 DEF IInv, CandidateIsFirst, Promote
<1>2. IInv /\ [Next]_vars => [A]_vars
  BY <1>1
<1> QED BY <1>2, Invariance, PTL DEF Spec, PromotesInOrder
-----------------------------------------------------------------------------
(* A promotion that gives up has lost a race for each of its tries.        *)

\* Whoever has left the queue stays out of it, under the same tier.
LeavesForGood ==
  \A i \in Regs :
    reg[i] \notin {"none", "waitlisted"} =>
      reg'[i] \notin {"none", "waitlisted"} /\ tier'[i] = tier[i]

\* A promotion has behind it the registration that was cancelled and one
\* candidate for each race it lost, none of them the candidate it has now.
HasRun(task) ==
  /\ task.op = "pick" => Cardinality(Left(task.tier)) > task.tries
  /\ task.op = "promote" => Cardinality(Left(task.tier) \ {task.reg}) > task.tries

RacesAreLost == \A r \in Requests : HasRun(req[r])

LEMMA LeftFinite ==
  ASSUME NEW t, NEW S \in SUBSET Left(t)
  PROVE  IsFiniteSet(S) /\ Cardinality(S) \in Nat
BY RegsFinite, FS_Subset, FS_CardinalityType, S \subseteq Regs DEF Left

\* What a request has behind it stays behind it.
LEMMA RunKept ==
  ASSUME LeavesForGood, NEW task \in Task, HasRun(task)
  PROVE  HasRun(task)'
<1>1. ASSUME NEW t, NEW S \in SUBSET Regs, NEW n \in Nat, Cardinality(Left(t) \ S) > n
      PROVE  Cardinality(Left(t)' \ S) > n
  <2> DEFINE before == Left(t) \ S
             after == Left(t)' \ S
  <2>1. before \subseteq after /\ before \subseteq Left(t) /\ after \subseteq Regs
    BY DEF LeavesForGood, Left
  <2>2. IsFiniteSet(after) /\ Cardinality(after) \in Nat /\ Cardinality(before) \in Nat
    BY <2>1, LeftFinite, RegsFinite, FS_Subset, FS_CardinalityType
  <2>3. Cardinality(before) <= Cardinality(after)
    BY <2>1, <2>2, FS_Subset
  <2>4. Cardinality(before) > n
    BY <1>1
  <2>5. Cardinality(after) > n
    BY <2>2, <2>3, <2>4
  <2> QED BY <2>5
<1>2. CASE task.op = "pick"
  <2>1. task.tries \in Nat /\ task.op # "promote"
    BY <1>2, BoundAssumption DEF Task, Idle, CancelTask, PickTask, PromoteTask, BulkTask
  <2>2. Left(task.tier) \ {} = Left(task.tier) /\ Left(task.tier)' \ {} = Left(task.tier)'
    OBVIOUS
  <2>3. Cardinality(Left(task.tier)') > task.tries
    BY <1>1, <1>2, <2>1, <2>2 DEF HasRun
  <2> QED BY <2>1, <2>3 DEF HasRun
<1>3. CASE task.op = "promote"
  <2>1. task.tries \in Nat /\ task.op # "pick" /\ {task.reg} \in SUBSET Regs
    BY <1>3, BoundAssumption DEF Task, Idle, CancelTask, PickTask, PromoteTask, BulkTask
  <2>3. Cardinality(Left(task.tier)' \ {task.reg}) > task.tries
    BY <1>1, <1>3, <2>1 DEF HasRun
  <2> QED BY <2>1, <2>3 DEF HasRun
<1> QED BY <1>2, <1>3 DEF HasRun

\* One request moves on, and what it moves to has its races behind it.
LEMMA RunStep ==
  ASSUME TypeOK, RacesAreLost, LeavesForGood, NEW r \in Requests,
         NEW task \in Task, GoTo(r, task), HasRun(task)'
  PROVE  RacesAreLost'
<1>1. /\ req'[r] = task
      /\ \A q \in Requests \ {r} : req'[q] = req[q] /\ req[q] \in Task
  BY DEF TypeOK, GoTo
<1>2. ASSUME NEW q \in Requests
      PROVE  \E t \in Task : t = req'[q] /\ HasRun(t)'
  <2>1. CASE q = r
    BY <1>1, <2>1
  <2>2. CASE q # r
    <3>1. PICK t \in Task : t = req[q] /\ HasRun(t)
      BY <1>1, <2>2 DEF RacesAreLost
    <3>2. HasRun(t)'
      BY <3>1, RunKept
    <3> QED BY <1>1, <2>2, <3>1, <3>2
  <2> QED BY <2>1, <2>2
<1> QED BY <1>2 DEF RacesAreLost, HasRun

\* A status that leaves the queue, or one that moves on behind it.
LEMMA StatusLeaves ==
  ASSUME TypeOK, UNCHANGED tier, NEW i \in Regs,
         NEW new \in {"confirmed", "checked_in", "cancelled"},
         reg' = [reg EXCEPT ![i] = new]
  PROVE  LeavesForGood
BY DEF TypeOK, LeavesForGood

\* A promotion that finds its candidate taken has one more race behind it.
LEMMA OneMoreLeft ==
  ASSUME IInv, RacesAreLost, NEW r \in Requests, PromoteRaced(r), NEW t, NEW n \in Nat,
         t = req[r].tier, n = req[r].tries
  PROVE  Cardinality(Left(t)) > n + 1
<1>1. req[r].op = "promote" /\ reg[req[r].reg] # "waitlisted"
  BY DEF PromoteRaced
<1>2. PICK c \in Regs : c = req[r].reg
  BY <1>1, ReqFields DEF IInv
<1>3. c \in Left(t)
  BY <1>1, <1>2 DEF IInv, CandidateIsFirst, Left
<1>4. Cardinality(Left(t) \ {c}) > n
  BY <1>1, <1>2 DEF RacesAreLost, HasRun
<1>5. IsFiniteSet(Left(t)) /\ Cardinality(Left(t)) \in Nat
  BY LeftFinite
<1>6. Cardinality(Left(t) \ {c}) = Cardinality(Left(t)) - 1
  BY <1>3, <1>5, FS_RemoveElement
<1> QED BY <1>4, <1>5, <1>6

LEMMA RacesInvariant == IInv /\ RacesAreLost /\ [Next]_vars => RacesAreLost'
<1> SUFFICES ASSUME IInv, RacesAreLost, [Next]_vars PROVE RacesAreLost'
  OBVIOUS
<1>t. TypeOK /\ Idle \in Task
  BY DEF IInv, Task
<1>still. ASSUME UNCHANGED <<reg, tier>> PROVE LeavesForGood
  BY <1>still DEF LeavesForGood
<1>same. ASSUME LeavesForGood, UNCHANGED req PROVE RacesAreLost'
  <2>1. ASSUME NEW q \in Requests PROVE \E t \in Task : t = req'[q] /\ HasRun(t)'
    <3>1. PICK t \in Task : t = req[q] /\ HasRun(t)
      BY <1>t DEF RacesAreLost, TypeOK
    <3> QED BY <1>same, <3>1, RunKept
  <2> QED BY <2>1 DEF RacesAreLost, HasRun
<1>quiet. ASSUME NEW r \in Requests, NEW task \in Task, GoTo(r, task),
                 task.op \notin {"pick", "promote"}, LeavesForGood
          PROVE  RacesAreLost'
  <2>1. HasRun(task)'
    BY <1>quiet DEF HasRun
  <2> QED BY <1>t, <1>quiet, <2>1, RunStep
<1>1. ASSUME NEW u \in Users, NEW t \in Tiers, NEW i \in Regs, Register(u, t, i)
      PROVE  RacesAreLost'
  <2>1. LeavesForGood
    BY <1>t, <1>1 DEF Register, TypeOK, LeavesForGood
  <2> QED BY <1>1, <1>same, <2>1 DEF Register
<1>2. ASSUME NEW i \in Regs, Approve(i) \/ CheckIn(i) PROVE RacesAreLost'
  BY <1>t, <1>2, <1>same, StatusLeaves DEF Approve, CheckIn
<1>3. CASE UpdateEvent \/ (\E u, v \in Users : Merge(u, v)) \/ UNCHANGED vars
  BY <1>3, <1>still, <1>same DEF UpdateEvent, Merge, vars
<1>4. ASSUME NEW r \in Requests, NEW i \in Regs, CancelRead(r, i)
      PROVE  RacesAreLost'
  <2>1. [op |-> "cancel", reg |-> i, seen |-> reg[i]] \in Task
    BY <1>4 DEF CancelRead, Task, CancelTask
  <2> QED BY <1>4, <2>1, <1>still, <1>quiet DEF CancelRead
<1>5. ASSUME NEW r \in Requests, CancelRejected(r) \/ Crash(r) PROVE RacesAreLost'
  BY <1>t, <1>5, <1>still, <1>quiet DEF CancelRejected, Crash, Done, Idle
<1>6. ASSUME NEW r \in Requests, CancelCommit(r) PROVE RacesAreLost'
  <2> USE <1>6 DEF CancelCommit
  <2>1. PICK i \in Regs : i = req[r].reg /\ reg[i] \in Live
    BY <1>t, ReqFields
  <2>2. LeavesForGood
    BY <1>t, <2>1, StatusLeaves
  <2>3. CASE req[r].seen # "confirmed"
    BY <1>t, <1>quiet, <2>2, <2>3 DEF Done, Idle
  <2>4. CASE req[r].seen = "confirmed"
    <3>1. PICK t \in Tiers : t = tier[i]
      BY <2>1 DEF IInv, HasTier, Live
    <3>2. PICK task \in Task : task = [op |-> "pick", tier |-> t, tries |-> 0]
      <4>1. 0 \in 0..MaxRetries - 1
        BY BoundAssumption
      <4>2. [op |-> "pick", tier |-> t, tries |-> 0] \in Task
        BY <4>1 DEF Task, PickTask
      <4> QED BY <4>2
    <3>3. i \in Left(t)'
      BY <1>t, <2>1, <3>1 DEF Left, TypeOK
    <3>4. Cardinality(Left(t)') > 0
      <4>1. IsFiniteSet(Left(t)') /\ Left(t)' # {}
        BY <3>3, RegsFinite, FS_Subset, Left(t)' \subseteq Regs DEF Left
      <4> QED BY <4>1, FS_EmptySet, FS_CardinalityType
    <3>5. HasRun(task)'
      BY <3>2, <3>4 DEF HasRun
    <3>6. GoTo(r, task)
      BY <2>1, <2>4, <3>1, <3>2
    <3> QED BY <1>t, <2>2, <3>5, <3>6, RunStep
  <2> QED BY <2>3, <2>4
<1>7. ASSUME NEW r \in Requests, PickOldest(r) PROVE RacesAreLost'
  <2> USE <1>7 DEF PickOldest
  <2>1. LeavesForGood
    BY <1>still
  <2>2. CASE Waitlist(req[r].tier) = {}
    BY <1>t, <1>quiet, <2>1, <2>2 DEF Done, Idle
  <2>3. CASE Waitlist(req[r].tier) # {}
    <3>1. PICK t \in Tiers, n \in 0..MaxRetries - 1 :
            t = req[r].tier /\ n = req[r].tries
      BY <1>t, ReqFields
    <3>2. PICK i \in Oldest(Waitlist(t), 1) :
            GoTo(r, [op |-> "promote", tier |-> t, reg |-> i, tries |-> n])
      BY <2>3, <3>1
    <3>3. i \in Regs /\ i \notin Left(t)
      BY <3>2, OldestIsFirst, Waitlist(t) \subseteq Regs DEF Waitlist, Left
    <3>4. PICK task \in Task :
            task = [op |-> "promote", tier |-> t, reg |-> i, tries |-> n]
      BY <3>3 DEF Task, PromoteTask
    <3>5. Cardinality(Left(t)) > n
      BY <3>1 DEF RacesAreLost, HasRun
    <3>6. Left(t)' \ {i} = Left(t)
      BY <3>3 DEF Left
    <3>7. HasRun(task)'
      BY <3>4, <3>5, <3>6 DEF HasRun
    <3> QED BY <1>t, <2>1, <3>2, <3>4, <3>7, RunStep
  <2> QED BY <2>2, <2>3
<1>8. ASSUME NEW r \in Requests, Promote(r) PROVE RacesAreLost'
  <2> USE <1>8 DEF Promote
  <2>1. LeavesForGood
    BY <1>t, ReqFields, StatusLeaves
  <2> QED BY <1>t, <2>1, <1>quiet DEF Done, Idle
<1>9. ASSUME NEW r \in Requests, PromoteRaced(r) PROVE RacesAreLost'
  <2>1. LeavesForGood
    BY <1>9, <1>still DEF PromoteRaced
  <2>2. CASE ~MayRetry(req[r].tries + 1)
    BY <1>t, <1>9, <1>quiet, <2>1, <2>2 DEF PromoteRaced, Done, Idle
  <2>3. CASE MayRetry(req[r].tries + 1)
    <3>1. PICK t \in Tiers, n \in 0..MaxRetries - 1 :
            t = req[r].tier /\ n = req[r].tries
      BY <1>t, <1>9, ReqFields DEF PromoteRaced
    <3>2. PICK task \in Task : task = [op |-> "pick", tier |-> t, tries |-> n + 1]
      <4>1. n + 1 \in 0..MaxRetries - 1
        BY <2>3, <3>1, BoundAssumption DEF MayRetry
      <4>2. [op |-> "pick", tier |-> t, tries |-> n + 1] \in Task
        BY <4>1 DEF Task, PickTask
      <4> QED BY <4>2
    <3>3. Cardinality(Left(t)) > n + 1
      BY <1>9, <3>1, OneMoreLeft
    <3>4. Left(t)' = Left(t)
      BY <1>9 DEF PromoteRaced, Left
    <3>5. HasRun(task)'
      BY <3>2, <3>3, <3>4 DEF HasRun
    <3>6. GoTo(r, task)
      BY <1>9, <2>3, <3>1, <3>2 DEF PromoteRaced
    <3> QED BY <1>t, <2>1, <3>5, <3>6, RunStep
  <2> QED BY <2>2, <2>3
<1>10. ASSUME NEW r \in Requests, NEW S \in SUBSET Tiers, BulkQuery(r, S)
       PROVE  RacesAreLost'
  <2> DEFINE todo == Oldest(UNION {Waitlist(t) : t \in S}, BulkCount)
  <2>1. todo \in SUBSET Regs
    BY DEF Oldest, Waitlist
  <2>2. [op |-> "bulk", todo |-> todo] \in Task
    BY <2>1 DEF Task, BulkTask
  <2> QED BY <1>10, <2>2, <1>still, <1>quiet DEF BulkQuery
<1>11. ASSUME NEW r \in Requests, BulkStep(r) PROVE RacesAreLost'
  <2> USE <1>11 DEF BulkStep
  <2>1. req[r].todo \in SUBSET Regs
    BY <1>t, ReqFields
  <2>2. PICK i \in Oldest(req[r].todo, 1) :
          /\ \/ reg' = [reg EXCEPT ![i] = "confirmed"]
             \/ UNCHANGED reg
          /\ IF req[r].todo \ {i} = {} THEN Done(r)
             ELSE GoTo(r, [op |-> "bulk", todo |-> req[r].todo \ {i}])
    OBVIOUS
  <2>3. i \in Regs /\ UNCHANGED tier
    BY <2>1, <2>2 DEF Oldest
  <2>4. LeavesForGood
    BY <1>t, <2>2, <2>3, <1>still, StatusLeaves
  <2>5. [op |-> "bulk", todo |-> req[r].todo \ {i}] \in Task
    BY <2>1 DEF Task, BulkTask
  <2>6. CASE req[r].todo \ {i} = {}
    BY <1>t, <2>2, <2>4, <2>6, <1>quiet DEF Done, Idle
  <2>7. CASE req[r].todo \ {i} # {}
    BY <2>2, <2>4, <2>5, <2>7, <1>quiet
  <2> QED BY <2>6, <2>7
<1> QED
  <2>1. \A S \in {{t} : t \in Tiers} \cup {Tiers} : S \in SUBSET Tiers
    OBVIOUS
  <2> QED BY <1>1, <1>2, <1>3, <1>4, <1>5, <1>6, <1>7, <1>8, <1>9, <1>10, <1>11,
             <2>1 DEF Next

\* A promotion gives its slot up when nobody waits any more, or after
\* MaxRetries lost races; then MaxRetries registrations of its tier have left
\* the queue besides the one whose cancellation it follows.
THEOREM SlotCorrect == Spec => NoSlotIsLost
<1> DEFINE A == \A r \in Requests :
                  PromoteRaced(r) /\ req'[r] = Idle =>
                    \/ Waitlist(req[r].tier) = {}
                    \/ Cardinality(Left(req[r].tier)) > MaxRetries
<1>1. Init => RacesAreLost
  BY DEF Init, RacesAreLost, HasRun, Idle
<1>2. IInv /\ RacesAreLost /\ [Next]_vars => RacesAreLost'
  BY RacesInvariant
<1>3. IInv /\ RacesAreLost => A
  <2> SUFFICES ASSUME IInv, RacesAreLost, NEW r \in Requests, PromoteRaced(r),
                      req'[r] = Idle
               PROVE  Cardinality(Left(req[r].tier)) > MaxRetries
    OBVIOUS
  <2>1. ~MayRetry(req[r].tries + 1)
    BY DEF PromoteRaced, GoTo, Idle, IInv, TypeOK
  <2>2. PICK n \in 0..MaxRetries - 1 : n = req[r].tries
    BY ReqFields DEF IInv, PromoteRaced
  <2>3. Cardinality(Left(req[r].tier)) > n + 1
    BY <2>2, OneMoreLeft
  <2>4. Cardinality(Left(req[r].tier)) \in Nat
    BY LeftFinite
  <2> QED BY <2>1, <2>2, <2>3, <2>4, BoundAssumption DEF MayRetry
<1>4. IInv /\ RacesAreLost /\ [Next]_vars => [A]_vars
  BY <1>3
<1> QED BY <1>1, <1>2, <1>4, Invariance, PTL DEF Spec, NoSlotIsLost

-----------------------------------------------------------------------------
(* What holds when nothing is let in or merged.                            *)

\* The duplicate check is enough: as long as no merge joins two participants
\* who are both registered, nobody has two live registrations, whatever
\* cancellations and promotions are in flight (registration.service.ts:93-99).
THEOREM OneLiveWithoutMerges ==
  Spec /\ [][\A u, v \in Users : Merge(u, v) => ~JoinsLive(u, v)]_vars
    => [](\A i, j \in Regs :
            (/\ reg[i] \in Live /\ reg[j] \in Live
             /\ owner[i] = owner[j]) => i = j)
<1> DEFINE Disjoint == \A u, v \in Users : Merge(u, v) => ~JoinsLive(u, v)
           Unique == \A i, j \in Regs :
                       (/\ reg[i] \in Live /\ reg[j] \in Live
                        /\ owner[i] = owner[j]) => i = j
           Single == doubled = {}
<1>1. Init => Single
  BY DEF Init
<1>2. Single /\ [Next]_vars /\ [Disjoint]_vars => Single'
  <2> SUFFICES ASSUME doubled = {}, [Next]_vars, [Disjoint]_vars
               PROVE  doubled' = {}
    OBVIOUS
  <2>1. ASSUME NEW u \in Users, NEW v \in Users, Merge(u, v) PROVE doubled' = {}
    BY <2>1 DEF Merge, vars
  <2>2. ASSUME \/ \E u \in Users, t \in Tiers, i \in Regs : Register(u, t, i)
               \/ \E i \in Regs : Approve(i) \/ CheckIn(i)
               \/ UpdateEvent \/ UNCHANGED vars
        PROVE  doubled' = {}
    BY <2>2 DEF Register, Approve, CheckIn, UpdateEvent, vars
  <2>3. ASSUME NEW r \in Requests,
               \/ \E i \in Regs : CancelRead(r, i)
               \/ CancelRejected(r) \/ CancelCommit(r)
               \/ PickOldest(r) \/ Promote(r) \/ PromoteRaced(r)
               \/ \E S \in {{t} : t \in Tiers} \cup {Tiers} : BulkQuery(r, S)
               \/ BulkStep(r) \/ Crash(r)
        PROVE  doubled' = {}
    BY <2>3 DEF CancelRead, CancelRejected, CancelCommit, PickOldest, Promote,
                PromoteRaced, BulkQuery, BulkStep, Crash
  <2> QED BY <2>1, <2>2, <2>3 DEF Next
<1>3. IInv /\ Single => Unique
  BY DEF IInv, OneLivePerUser
<1> QED BY <1>1, <1>2, <1>3, Invariance, PTL DEF Spec

\* Nobody waits, and the seats are within the limit.
NobodyWaits == \A i \in Regs : reg[i] # "waitlisted"

WithinLimit == maxAttendees # 0 => Cardinality(Seats) <= maxAttendees

\* An edit that sets a limit leaves room for the seats that are held.
LeavesRoom ==
  maxAttendees' # 0 /\ maxAttendees' # maxAttendees =>
    Cardinality(Seats) <= maxAttendees'

LEMMA NobodyWaitsStep ==
  ASSUME ~WaitlistEnabled, IInv, NobodyWaits, [Next]_vars
  PROVE  NobodyWaits'
<1>t. TypeOK
  BY DEF IInv
<1>1. ASSUME NEW u \in Users, NEW t \in Tiers, NEW i \in Regs, Register(u, t, i)
      PROVE  NobodyWaits'
  <2>1. FirstStatus(t) # "waitlisted"
    BY <1>1 DEF Register, FirstStatus
  <2> QED BY <1>t, <1>1, <2>1 DEF Register, NobodyWaits, TypeOK
<1>2. ASSUME NEW i \in Regs, Approve(i) \/ CheckIn(i) PROVE NobodyWaits'
  BY <1>t, <1>2 DEF Approve, CheckIn, NobodyWaits, TypeOK
<1>3. ASSUME NEW r \in Requests, CancelCommit(r) PROVE NobodyWaits'
  BY <1>t, <1>3 DEF CancelCommit, NobodyWaits, TypeOK
<1>4. ASSUME NEW r \in Requests, Promote(r) PROVE NobodyWaits'
  BY <1>t, <1>4, ReqFields DEF Promote, NobodyWaits
<1>5. ASSUME NEW r \in Requests, BulkStep(r) PROVE NobodyWaits'
  <2>1. req[r].todo \in SUBSET Regs
    BY <1>t, <1>5, ReqFields DEF BulkStep
  <2>2. PICK i \in Oldest(req[r].todo, 1) :
          reg[i] = "waitlisted" \/ UNCHANGED <<reg, granted>>
    BY <1>5 DEF BulkStep
  <2>3. i \in Regs
    BY <2>1, <2>2 DEF Oldest
  <2> QED BY <2>2, <2>3 DEF NobodyWaits
<1>6. ASSUME NEW r \in Requests,
             \/ \E i \in Regs : CancelRead(r, i)
             \/ CancelRejected(r) \/ PickOldest(r) \/ PromoteRaced(r)
             \/ \E S \in {{t} : t \in Tiers} \cup {Tiers} : BulkQuery(r, S)
             \/ Crash(r)
      PROVE  NobodyWaits'
  BY <1>6 DEF CancelRead, CancelRejected, PickOldest, PromoteRaced, BulkQuery,
              Crash, NobodyWaits
<1>7. ASSUME UpdateEvent \/ (\E u, v \in Users : Merge(u, v)) \/ UNCHANGED vars
      PROVE  NobodyWaits'
  BY <1>7 DEF UpdateEvent, Merge, vars, NobodyWaits
<1> QED BY <1>1, <1>2, <1>3, <1>4, <1>5, <1>6, <1>7 DEF Next

\* Where nobody waits only a registration takes a seat, and only an edit moves
\* the limit.
LEMMA WithinLimitStep ==
  ASSUME IInv, NobodyWaits, WithinLimit, [Next]_vars, [LeavesRoom]_vars
  PROVE  WithinLimit'
<1>t. /\ TypeOK /\ maxAttendees \in Nat
      /\ IsFiniteSet(Seats) /\ Cardinality(Seats) \in Nat
      /\ "confirmed" \in Status /\ "checked_in" \in Status /\ "cancelled" \in Status
  BY SeatsCounted DEF IInv, TypeOK, Status
<1>less. ASSUME Seats' \subseteq Seats, UNCHANGED maxAttendees PROVE WithinLimit'
  <2>1. Cardinality(Seats') \in Nat /\ Cardinality(Seats') <= Cardinality(Seats)
    BY <1>t, <1>less, Sizes
  <2> QED BY <1>t, <1>less, <2>1 DEF WithinLimit
<1>1. ASSUME NEW u \in Users, NEW t \in Tiers, NEW i \in Regs, Register(u, t, i)
      PROVE  WithinLimit'
  <2>1. CASE i \in Seats'
    BY <1>1, <2>1, RegisterFits DEF Register, WithinLimit
  <2>2. CASE i \notin Seats'
    <3>1. Seats' \subseteq Seats
      BY <1>t, <1>1, <2>2 DEF Register, Seats, TypeOK
    <3> QED BY <1>1, <1>less, <3>1 DEF Register
  <2> QED BY <2>1, <2>2
<1>2. ASSUME NEW i \in Regs, Approve(i) \/ CheckIn(i) PROVE WithinLimit'
  <2>1. reg[i] \in {"pending", "confirmed"} /\ UNCHANGED maxAttendees
    BY <1>2 DEF Approve, CheckIn, NobodyWaits
  <2>2. Seats' \subseteq Seats
    BY <1>t, <1>2, <2>1 DEF Approve, CheckIn, Seats, TypeOK
  <2> QED BY <1>less, <2>1, <2>2
<1>3. ASSUME NEW r \in Requests, CancelCommit(r) PROVE WithinLimit'
  <2>1. Seats' \subseteq Seats
    BY <1>t, <1>3 DEF CancelCommit, Seats, TypeOK
  <2> QED BY <1>3, <1>less, <2>1 DEF CancelCommit
<1>4. ASSUME NEW r \in Requests, Promote(r) PROVE WithinLimit'
  BY <1>t, <1>4, ReqFields DEF Promote, NobodyWaits
<1>5. ASSUME NEW r \in Requests, BulkStep(r) PROVE WithinLimit'
  <2>1. req[r].todo \in SUBSET Regs
    BY <1>t, <1>5, ReqFields DEF BulkStep
  <2>2. PICK i \in Oldest(req[r].todo, 1) :
          reg[i] = "waitlisted" \/ UNCHANGED <<reg, granted>>
    BY <1>5 DEF BulkStep
  <2>3. UNCHANGED <<reg, maxAttendees>>
    BY <1>5, <2>1, <2>2 DEF BulkStep, Oldest, NobodyWaits
  <2>4. Seats' \subseteq Seats
    BY <2>3 DEF Seats
  <2> QED BY <1>less, <2>3, <2>4
<1>6. CASE UpdateEvent
  <2>1. Seats' = Seats /\ [LeavesRoom]_vars
    BY <1>6 DEF UpdateEvent, Seats
  <2>2. CASE maxAttendees' = maxAttendees
    BY <1>less, <2>1, <2>2
  <2>3. CASE maxAttendees' # maxAttendees
    BY <2>1, <2>3 DEF LeavesRoom, WithinLimit, vars
  <2> QED BY <2>2, <2>3
<1>7. ASSUME UNCHANGED <<reg, settings>> PROVE WithinLimit'
  BY <1>7 DEF WithinLimit, Seats
<1>8. ASSUME NEW r \in Requests,
             \/ \E i \in Regs : CancelRead(r, i)
             \/ CancelRejected(r) \/ PickOldest(r) \/ PromoteRaced(r)
             \/ \E S \in {{t} : t \in Tiers} \cup {Tiers} : BulkQuery(r, S)
             \/ Crash(r)
      PROVE  WithinLimit'
  BY <1>7, <1>8 DEF CancelRead, CancelRejected, PickOldest, PromoteRaced,
                    BulkQuery, Crash
<1>9. ASSUME (\E u, v \in Users : Merge(u, v)) \/ UNCHANGED vars PROVE WithinLimit'
  BY <1>7, <1>9 DEF Merge, vars
<1> QED BY <1>1, <1>2, <1>3, <1>4, <1>5, <1>6, <1>8, <1>9 DEF Next

\* On a plan without the waitlist the service keeps the promise of its comment
\* (registration.service.ts:53, 160-166), as far as the organiser lets it: the
\* event holds no more seats than its limit, whatever requests race, unless an
\* edit sets a limit below the seats that are held, which nothing in update()
\* looks at (event.service.ts:458-513).
THEOREM NeverOverbookedWithoutWaitlist ==
  ASSUME ~WaitlistEnabled
  PROVE  Spec /\ [][LeavesRoom]_vars => []WithinLimit
<1>1. IInv /\ Init => NobodyWaits /\ WithinLimit
  <2> SUFFICES ASSUME IInv, Init PROVE NobodyWaits /\ WithinLimit
    OBVIOUS
  <2>1. Seats = {} /\ NobodyWaits
    BY DEF Init, Seats, NobodyWaits
  <2>2. Cardinality(Seats) = 0 /\ maxAttendees \in Nat
    BY <2>1, FS_EmptySet DEF IInv, TypeOK
  <2> QED BY <2>1, <2>2 DEF WithinLimit
<1>2. IInv /\ NobodyWaits /\ [Next]_vars => NobodyWaits'
  BY NobodyWaitsStep
<1>3. IInv /\ NobodyWaits /\ WithinLimit /\ [Next]_vars /\ [LeavesRoom]_vars
        => WithinLimit'
  BY WithinLimitStep
<1> QED BY <1>1, <1>2, <1>3, Invariance, PTL DEF Spec
=============================================================================
