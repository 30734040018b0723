---------------------------- MODULE Registrations ----------------------------
(***************************************************************************)
(* The registrations of one event with free tickets: registering, the      *)
(* organiser's approval, the cancellation and the promotions from the      *)
(* waitlist that follow it or that the organiser asks for in bulk.         *)
(*                                                                         *)
(* Each transaction is one step.  A cancellation reads the registration    *)
(* before its transaction and promotes after it, and a promotion queries   *)
(* its candidates before the transactions that confirm them: invocations   *)
(* interleave there.                                                       *)
(*                                                                         *)
(* Registrations are numbered in the order of their createdAt.             *)
(***************************************************************************)
EXTENDS Integers, FiniteSets

CONSTANTS
  Users,            \* the participants
  Tiers,            \* the event's ticket types
  MaxRegs,          \* bound: registrations that can be created
  Requests,         \* the invocations that can be in flight at once
  Settings,         \* bound: what an edit can set of the event, its
                    \* requiresApproval, maxAttendees (0 for no limit) and the
                    \* tiers whose totalQuantity is no more than soldCount
  WaitlistEnabled,  \* the plan's waitlist feature
  MaxRetries,       \* MAX_RETRIES of a promotion
  BulkCount,        \* the count of a bulk promotion
  NoUser,
  NoTier

ASSUME TierAssumption == NoTier \notin Tiers
ASSUME UserAssumption == NoUser \notin Users
ASSUME BoundAssumption ==
  /\ MaxRegs \in Nat
  /\ Settings \subseteq BOOLEAN \X Nat \X SUBSET Tiers
  /\ IsFiniteSet(Requests)
  /\ MaxRetries \in Nat \ {0} /\ BulkCount \in Nat \ {0}
ASSUME FlagAssumption == WaitlistEnabled \in BOOLEAN

VARIABLES
  reg,             \* status of each registration
  owner,           \* its userId
  tier,            \* its ticketTypeId
  registeredCount, \* event.registeredCount
  requiresApproval, \* event.requiresApproval
  maxAttendees,    \* event.maxAttendees, 0 when the event has no limit
  soldOut,         \* the tiers that are sold out
  req,             \* the local state of each invocation in flight
  peak,            \* history: the largest limit the event has had
  granted,         \* history: waitlisted registrations an organiser confirmed
  taken,           \* history: registrations that took a seat when there was no
                   \* limit, or when a cancellation had promised it to the
                   \* waitlist
  doubled          \* history: participants a merge gave a second live
                   \* registration

settings == <<requiresApproval, maxAttendees, soldOut, peak>>
vars ==
  <<reg, owner, tier, registeredCount, settings, req, granted, taken, doubled>>

-----------------------------------------------------------------------------
Regs == 1..MaxRegs

Status ==
  {"none", "pending", "confirmed", "waitlisted", "cancelled", "checked_in"}

\* The statuses the duplicate check of register() looks for.
Live == {"confirmed", "pending", "waitlisted"}

Idle == [op |-> "idle"]
CancelTask == [op : {"cancel"}, reg : Regs, seen : Live]
PickTask == [op : {"pick"}, tier : Tiers, tries : 0..MaxRetries - 1]
PromoteTask ==
  [op : {"promote"}, tier : Tiers, reg : Regs, tries : 0..MaxRetries - 1]
BulkTask == [op : {"bulk"}, todo : SUBSET Regs]
Task == {Idle} \cup CancelTask \cup PickTask \cup PromoteTask \cup BulkTask

GoTo(r, task) == req' = [req EXCEPT ![r] = task]
Done(r) == GoTo(r, Idle)

Waitlist(t) == {i \in Regs : reg[i] = "waitlisted" /\ tier[i] = t}

\* The registrations that hold a seat or a claim to one.
Seats == {i \in Regs : reg[i] \in {"pending", "confirmed", "checked_in"}}

\* The invocations that still have a cancelled seat to give to the waitlist.
Promises == {r \in Requests : req[r].op \in {"pick", "promote"}}

\* There is a seat that no promotion in flight is going to give away.
HasSeat == Cardinality(Seats) + Cardinality(Promises) < maxAttendees

\* The next seat taken is one that is free and promised, or past no limit.
IsPromised ==
  maxAttendees = 0 \/ (Cardinality(Seats) < maxAttendees /\ ~HasSeat)

\* Those of a tier that are past the queue.
Left(t) == {i \in Regs : tier[i] = t /\ reg[i] \notin {"none", "waitlisted"}}

\* Mutant: the query orders by createdAt descending.
Newest(S, n) == {i \in S : Cardinality({j \in S : j > i}) < n}

\* The n registrations of S that were created first.
Oldest(S, n) == {i \in S : Cardinality({j \in S : j < i}) < n}

TypeOK ==
  /\ reg \in [Regs -> Status]
  /\ owner \in [Regs -> Users \cup {NoUser}]
  /\ tier \in [Regs -> Tiers \cup {NoTier}]
  /\ registeredCount \in Nat
  /\ requiresApproval \in BOOLEAN /\ maxAttendees \in Nat /\ soldOut \subseteq Tiers
  /\ req \in [Requests -> Task]
  /\ peak \in Nat /\ granted \in Nat /\ taken \in Nat
  /\ doubled \subseteq Users

Init ==
  /\ reg = [i \in Regs |-> "none"]
  /\ owner = [i \in Regs |-> NoUser]
  /\ tier = [i \in Regs |-> NoTier]
  /\ registeredCount = 0
  /\ \E s \in Settings :
       requiresApproval = s[1] /\ maxAttendees = s[2] /\ soldOut = s[3]
  /\ req = [r \in Requests |-> Idle]
  /\ peak = maxAttendees /\ granted = 0 /\ taken = 0
  /\ doubled = {}

-----------------------------------------------------------------------------
\* Mutant: only a confirmed registration makes the next one a duplicate.
IsDuplicateConfirmed(u) ==
  \E i \in Regs : owner[i] = u /\ reg[i] = "confirmed"

IsDuplicate(u) == \E i \in Regs : owner[i] = u /\ reg[i] \in Live

\* Mutant: one registration more than the event has places.
CapacityHitTooLate(t) ==
  t \in soldOut \/ (maxAttendees # 0 /\ registeredCount > maxAttendees)

CapacityHit(t) ==
  t \in soldOut \/ (maxAttendees # 0 /\ registeredCount >= maxAttendees)

\* Mutant: a free ticket is left waiting for a payment.
FirstStatusUnpaid(t) == "pending_payment"

\* The status register() gives, past the gate that throws EventFullError.
FirstStatus(t) ==
  IF ~requiresApproval THEN "confirmed"
  ELSE IF CapacityHit(t) THEN "waitlisted" ELSE "pending"

\* One transaction.  An event that is not open, or a plan at its limit, is a
\* request that never arrives.
Register(u, t, i) ==
  /\ reg[i] = "none"
  /\ \A j \in Regs : j < i => reg[j] # "none"
  /\ ~IsDuplicate(u)
  /\ CapacityHit(t) => requiresApproval /\ WaitlistEnabled
  /\ reg' = [reg EXCEPT ![i] = FirstStatus(t)]
  /\ owner' = [owner EXCEPT ![i] = u]
  /\ tier' = [tier EXCEPT ![i] = t]
  /\ registeredCount' = registeredCount + 1
  /\ taken' = taken + (IF ~CapacityHit(t) /\ IsPromised THEN 1 ELSE 0)
  /\ UNCHANGED <<settings, req, granted, doubled>>

Approve(i) ==
  /\ reg[i] \in {"pending", "waitlisted"}
  /\ reg' = [reg EXCEPT ![i] = "confirmed"]
  /\ granted' = granted + (IF reg[i] = "waitlisted" THEN 1 ELSE 0)
  /\ UNCHANGED <<owner, tier, registeredCount, settings, req, taken, doubled>>

\* The organiser edits the event, its limit and its tickets among the rest:
\* nothing looks at the registrations it has.
UpdateEvent ==
  /\ \E s \in Settings :
       requiresApproval' = s[1] /\ maxAttendees' = s[2] /\ soldOut' = s[3]
  /\ peak' = IF maxAttendees' > peak THEN maxAttendees' ELSE peak
  /\ UNCHANGED <<reg, owner, tier, registeredCount, req, granted, taken, doubled>>

\* Somebody has two live registrations once v's are u's.
JoinsLive(u, v) ==
  \E i, j \in Regs :
    i # j /\ {owner[i], owner[j]} \subseteq {u, v} /\ {reg[i], reg[j]} \subseteq Live

\* The organisation merges participant v into u: one transaction queries v's
\* registrations and gives them to u, whatever u has already.
Merge(u, v) ==
  /\ u # v
  /\ owner' = [i \in Regs |-> IF owner[i] = v THEN u ELSE owner[i]]
  /\ doubled' = IF JoinsLive(u, v) THEN doubled \cup {u} ELSE doubled
  /\ UNCHANGED <<reg, tier, registeredCount, settings, req, granted, taken>>

CheckIn(i) ==
  /\ reg[i] = "confirmed"
  /\ reg' = [reg EXCEPT ![i] = "checked_in"]
  /\ UNCHANGED <<owner, tier, registeredCount, settings, req, granted, taken,
                 doubled>>

-----------------------------------------------------------------------------
(* cancel, and the promotion it fires and forgets.                         *)

\* Mutant: cancelling gives back the count of confirmed registrations only.
CountedIfConfirmed == {"confirmed"}

\* The statuses for which cancel decrements registeredCount.
CountedAtRegister == {"confirmed", "pending", "waitlisted"}

CancelRead(r, i) ==
  /\ req[r] = Idle
  /\ reg[i] \in Live
  /\ GoTo(r, [op |-> "cancel", reg |-> i, seen |-> reg[i]])
  /\ UNCHANGED <<reg, owner, tier, registeredCount, settings, granted, taken,
                 doubled>>

CancelRejected(r) ==
  /\ req[r].op = "cancel"
  /\ reg[req[r].reg] \in {"cancelled", "checked_in"}
  /\ Done(r)
  /\ UNCHANGED <<reg, owner, tier, registeredCount, settings, granted, taken,
                 doubled>>

\* The status read before the transaction decides whether to promote.
CancelCommit(r) ==
  LET i == req[r].reg
  IN /\ req[r].op = "cancel"
     /\ reg[i] \in Live
     /\ reg' = [reg EXCEPT ![i] = "cancelled"]
     /\ registeredCount' =
          registeredCount - (IF reg[i] \in CountedAtRegister THEN 1 ELSE 0)
     /\ IF req[r].seen = "confirmed"
        THEN GoTo(r, [op |-> "pick", tier |-> tier[i], tries |-> 0])
        ELSE Done(r)
     /\ UNCHANGED <<owner, tier, settings, granted, taken, doubled>>

\* findOldestWaitlisted, outside of any transaction.
PickOldest(r) ==
  LET t == req[r].tier
      queue == Waitlist(t)
  IN /\ req[r].op = "pick"
     /\ IF queue = {}
        THEN Done(r)
        ELSE \E i \in Oldest(queue, 1) :
               GoTo(r, [op |-> "promote", tier |-> t, reg |-> i,
                        tries |-> req[r].tries])
     /\ UNCHANGED <<reg, owner, tier, registeredCount, settings,
                    granted, taken, doubled>>

\* Mutant: a promotion that loses its candidate gives up.
NeverRetries(tries) == FALSE

MayRetry(tries) == tries < MaxRetries

Promote(r) ==
  LET i == req[r].reg
  IN /\ req[r].op = "promote"
     /\ reg[i] = "waitlisted"
     /\ reg' = [reg EXCEPT ![i] = "confirmed"]
     /\ Done(r)
     /\ UNCHANGED <<owner, tier, registeredCount, settings, granted, taken, doubled>>

\* Another path took the candidate: try the next one, MaxRetries times.
PromoteRaced(r) ==
  LET tries == req[r].tries + 1
  IN /\ req[r].op = "promote"
     /\ reg[req[r].reg] # "waitlisted"
     /\ IF MayRetry(tries)
        THEN GoTo(r, [op |-> "pick", tier |-> req[r].tier, tries |-> tries])
        ELSE Done(r)
     /\ UNCHANGED <<reg, owner, tier, registeredCount, settings,
                    granted, taken, doubled>>

-----------------------------------------------------------------------------
(* bulkPromoteWaitlisted: one query, one transaction per candidate.        *)

BulkQuery(r, S) ==
  LET queue == UNION {Waitlist(t) : t \in S}
  IN /\ req[r] = Idle
     /\ queue # {}
     /\ GoTo(r, [op |-> "bulk", todo |-> Oldest(queue, BulkCount)])
     /\ UNCHANGED <<reg, owner, tier, registeredCount, settings,
                    granted, taken, doubled>>

\* A candidate that another path took, or whose transaction throws, is
\* skipped.
BulkStep(r) ==
  /\ req[r].op = "bulk"
  /\ \E i \in Oldest(req[r].todo, 1) :
       LET rest == req[r].todo \ {i}
       IN /\ \/ /\ reg[i] = "waitlisted"
                /\ reg' = [reg EXCEPT ![i] = "confirmed"]
                /\ granted' = granted + 1
             \/ UNCHANGED <<reg, granted>>
          /\ IF rest = {} THEN Done(r)
             ELSE GoTo(r, [op |-> "bulk", todo |-> rest])
  /\ UNCHANGED <<owner, tier, registeredCount, settings, taken, doubled>>

Crash(r) ==
  /\ req[r] # Idle
  /\ Done(r)
  /\ UNCHANGED <<reg, owner, tier, registeredCount, settings, granted, taken,
                 doubled>>

Next ==
  \/ \E u \in Users, t \in Tiers, i \in Regs : Register(u, t, i)
  \/ \E i \in Regs : Approve(i) \/ CheckIn(i)
  \/ UpdateEvent
  \/ \E u, v \in Users : Merge(u, v)
  \/ \E r \in Requests :
       \/ \E i \in Regs : CancelRead(r, i)
       \/ CancelRejected(r) \/ CancelCommit(r)
       \/ PickOldest(r) \/ Promote(r) \/ PromoteRaced(r)
       \/ \E S \in {{t} : t \in Tiers} \cup {Tiers} : BulkQuery(r, S)
       \/ BulkStep(r) \/ Crash(r)

Spec == Init /\ [][Next]_vars

-----------------------------------------------------------------------------
(* Properties.                                                             *)

Counted == {i \in Regs : reg[i] \in Live \cup {"checked_in"}}

\* event.registeredCount counts the registrations that are not cancelled,
\* whichever of register, approve, cancel and the two promotions came in
\* between.
CountIsLive == registeredCount = Cardinality(Counted)

\* A participant has at most one registration that can still lead to a seat:
\* the duplicate check and the cancellations never leave two.  Only a merge of
\* participants who both have one does (participant-merge.service.ts:183).
OneLivePerUser ==
  \A i, j \in Regs :
    (/\ reg[i] \in Live /\ reg[j] \in Live
     /\ owner[i] = owner[j] /\ owner[i] \notin doubled) => i = j

\* The promotion that follows a cancellation takes the waitlist of its tier in
\* order: whatever races with it, nobody who registered earlier is left behind.
PromotesInOrder ==
  [][\A r \in Requests, i \in Regs :
       Promote(r) /\ reg[i] # reg'[i] =>
         \A j \in Waitlist(tier[i]) : j >= i]_vars

\* A promotion that gives its slot up because others took its candidates has
\* left nobody waiting, or has lost as many races as the code allows: besides
\* the registration whose cancellation it follows, MaxRetries others of its
\* tier have left the queue.  Losing one race does not lose the slot.
NoSlotIsLost ==
  [][\A r \in Requests :
       PromoteRaced(r) /\ req'[r] = Idle =>
         \/ Waitlist(req[r].tier) = {}
         \/ Cardinality(Left(req[r].tier)) > MaxRetries]_vars

\* "Capacity and uniqueness are guaranteed even under concurrent requests"
\* (registration.service.ts:53): a registration that takes a seat, or a claim to
\* one, finds a place the limit in force allows, whatever cancellations,
\* promotions and edits came before it.
RegistersWithinCapacity ==
  [][\A u \in Users, t \in Tiers, i \in Regs :
       Register(u, t, i) /\ i \in Seats' /\ maxAttendees # 0 =>
         Cardinality(Seats') <= maxAttendees]_vars

\* How far the event can be overbooked all the same, since promotions, approvals
\* and edits do not look at the capacity: beyond the largest limit it has had
\* there are only the waitlisted registrations an organiser let in and as many
\* promoted ones as registrations took the seats that were promised to them.
SeatsFit == Cardinality(Seats) <= peak + granted + taken
=============================================================================
