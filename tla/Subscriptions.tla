----------------------------- MODULE Subscriptions -----------------------------
(***************************************************************************)
(* The plan of one organisation: upgrades with trials,                     *)
(* downgrades and cancellations at once or at the end of the period, the   *)
(* administrator's assignment, past-due marks, the daily rollover and the  *)
(* PATCH of the organisation, which takes plan and limits from its body.   *)
(*                                                                         *)
(* An operation that changes the plan commits it to the organisation in a  *)
(* transaction, writes the subscription after it, and a listener of the    *)
(* event it emits then rewrites the organisation's effective limits: three *)
(* steps, others come between, and the process may die there.              *)
(*                                                                         *)
(* Plans are ranks, 0 is "free".  A date is 1 while it lies ahead and 0    *)
(* once it has passed.                                                     *)
(***************************************************************************)
EXTENDS Integers, FiniteSets

CONSTANTS
  TopPlan,    \* the rank of the highest plan
  TrialPlans, \* plans with trialDays > 0
  Requests,   \* the operations asked for: the bound on a behaviour
  Docs,       \* ids of subscription documents, in the order of a query
  ReadsBeforeWrites \* the store refuses a read after a write in a transaction

Plans == 0..TopPlan
Paid == 1..TopPlan

\* Limits that a PATCH wrote: no plan's.
OwnLimits == -1

ASSUME PlanAssumption == TopPlan \in Nat /\ TrialPlans \subseteq Paid
ASSUME DocAssumption == Docs \subseteq Nat
ASSUME StoreAssumption == ReadsBeforeWrites \in BOOLEAN

VARIABLES
  plan,     \* org.plan
  eff,      \* the plan org.effectiveLimits were computed from
  sub,      \* the subscription documents
  req,      \* the local state of each operation
  raced,    \* history: a change of plan met a torn one, or one was left torn
  patched   \* history: a PATCH wrote plan or limits after the last change

vars == <<plan, eff, sub, req, raced, patched>>

-----------------------------------------------------------------------------
Dates == {0, 1}
NoChange == [reason |-> "none"]
Change ==
  {NoChange} \cup
    [reason : {"trial_ended", "downgrade"}, to : Plans, at : Dates]

NoSub == [status |-> "none"]
Status == {"active", "trialing", "past_due", "cancelled"}
Sub == [status : Status, plan : Plans, ends : Dates, change : Change]

New == [op |-> "new"]
Over == [op |-> "over"]
UpgradeTask ==
  [op : {"upgrade", "upgraded"}, to : Paid, doc : Docs, isNew : BOOLEAN,
   trial : BOOLEAN]
ScheduleTask ==
  [op : {"check", "schedule"}, to : Plans, doc : Docs, at : Dates]
FlipTask == [op : {"flip", "flipped", "assigned", "refresh"}, to : Plans]
SettleTask == [op : {"settle"}, to : Plans, doc : Docs]
PlaceTask == [op : {"place"}, to : Plans, doc : Docs, isNew : BOOLEAN]
RevertTask == [op : {"revert"}, doc : Docs]
Task ==
  {New, Over} \cup UpgradeTask \cup ScheduleTask \cup FlipTask
    \cup SettleTask \cup PlaceTask \cup RevertTask

Exists(d) == sub[d] # NoSub
NoneExists == \A d \in Docs : ~Exists(d)

\* findByOrganization() returns the first document of its query.
IsFound(d) == Exists(d) /\ \A e \in Docs : e < d => ~Exists(e)

\* The organisation has the new plan and the rest is still to be written.
Torn(r) ==
  req[r].op \in {"upgraded", "flipped", "settle", "assigned", "place", "refresh"}

\* A step of r that writes a plan while another operation is torn.
Meets(r) == \E s \in Requests \ {r} : Torn(s)

TypeOK ==
  /\ plan \in Plans
  /\ eff \in Plans \cup {OwnLimits}
  /\ sub \in [Docs -> Sub \cup {NoSub}]
  /\ req \in [Requests -> Task]
  /\ raced \in BOOLEAN
  /\ patched \in BOOLEAN

Init ==
  /\ plan = 0
  /\ eff = 0
  /\ sub = [d \in Docs |-> NoSub]
  /\ req = [r \in Requests |-> New]
  /\ raced = FALSE
  /\ patched = FALSE

GoTo(r, task) == req' = [req EXCEPT ![r] = task]
Done(r) == GoTo(r, Over)

\* The event of a change of plan reaches the effective-plan listener.
Emit(r, to) == GoTo(r, [op |-> "refresh", to |-> to])

\* Ids are random: a new one is nobody else's.
IsFresh(d) ==
  /\ ~Exists(d)
  /\ \A s \in Requests :
       req[s].op \in {"upgrade", "upgraded", "place"} => req[s].doc # d

SetPlan(p) == plan' = p /\ eff' = p

-----------------------------------------------------------------------------
\* The trial is decided on the subscription read here.
StartsTrial(d, to) ==
  to \in TrialPlans /\ (Exists(d) => sub[d].plan = 0)

UpgradeReads(r, to, d) ==
  /\ req[r] = New
  /\ IsFound(d) \/ (NoneExists /\ IsFresh(d))
  /\ GoTo(r, [op |-> "upgrade", to |-> to, doc |-> d, isNew |-> ~Exists(d),
              trial |-> StartsTrial(d, to)])
  /\ UNCHANGED <<plan, eff, sub, raced, patched>>

UpgradeCommits(r) ==
  /\ req[r].op = "upgrade"
  /\ plan < req[r].to
  /\ SetPlan(req[r].to)
  /\ raced' = (raced \/ Meets(r))
  /\ GoTo(r, [req[r] EXCEPT !.op = "upgraded"])
  /\ patched' = FALSE
  /\ UNCHANGED sub

Upgraded(task) ==
  [status |-> IF task.trial THEN "trialing" ELSE "active",
   plan |-> task.to,
   ends |-> 1,
   change |-> IF task.trial
                THEN [reason |-> "trial_ended", to |-> task.to, at |-> 1]
                ELSE NoChange]

\* Written from what was read before the transaction; createWithId may add a
\* second document.
UpgradeWrites(r) ==
  /\ req[r].op = "upgraded"
  /\ sub' = [sub EXCEPT ![req[r].doc] = Upgraded(req[r])]
  /\ raced' = (raced \/ Meets(r) \/ (req[r].isNew /\ ~NoneExists))
  /\ Emit(r, req[r].to)
  /\ UNCHANGED <<plan, eff, patched>>

-----------------------------------------------------------------------------
\* paidPeriodInForce
InForce(d) == sub[d].status # "cancelled" /\ sub[d].ends = 1

DowngradeReads(r, to, immediate) ==
  /\ req[r] = New
  /\ \/ \E d \in Docs :
          /\ ~immediate /\ IsFound(d) /\ InForce(d)
          /\ GoTo(r, [op |-> "check", to |-> to, doc |-> d, at |-> 1])
     \/ /\ immediate \/ \A d \in Docs : IsFound(d) => ~InForce(d)
        /\ GoTo(r, [op |-> "flip", to |-> to])
  /\ UNCHANGED <<plan, eff, sub, raced, patched>>

\* The organisation is read after the subscription; members and events fit.
ScheduleChecks(r) ==
  /\ req[r].op = "check"
  /\ req[r].to < plan
  /\ GoTo(r, [req[r] EXCEPT !.op = "schedule"])
  /\ UNCHANGED <<plan, eff, sub, raced, patched>>

ScheduleWrites(r) ==
  /\ req[r].op = "schedule"
  /\ sub' = [sub EXCEPT ![req[r].doc].change =
               [reason |-> "downgrade", to |-> req[r].to, at |-> req[r].at]]
  /\ Done(r)
  /\ UNCHANGED <<plan, eff, raced, patched>>

\* A downgrade of a plan that nobody subscribed to settles nothing.
FlipCommits(r) ==
  /\ req[r].op = "flip"
  /\ req[r].to < plan
  /\ SetPlan(req[r].to)
  /\ raced' = (raced \/ Meets(r))
  /\ GoTo(r, [op |-> "flipped", to |-> req[r].to])
  /\ patched' = (patched /\ NoneExists)
  /\ UNCHANGED sub

\* Mutant: the subscription of a paid target keeps its plan.
FlippedStatusOnly(s, to) ==
  [s EXCEPT !.change = NoChange,
            !.status = IF to = 0 THEN "cancelled" ELSE s.status]

Flipped(s, to) ==
  [s EXCEPT !.plan = to, !.change = NoChange,
            !.status = IF to = 0 THEN "cancelled" ELSE s.status]

FlipFinds(r) ==
  /\ req[r].op = "flipped"
  /\ \/ \E d \in Docs :
          IsFound(d) /\ GoTo(r, [op |-> "settle", to |-> req[r].to, doc |-> d])
     \/ NoneExists /\ Emit(r, req[r].to)
  /\ UNCHANGED <<plan, eff, sub, raced, patched>>

FlipWrites(r) ==
  /\ req[r].op = "settle"
  /\ sub' = [sub EXCEPT ![req[r].doc] = Flipped(@, req[r].to)]
  /\ raced' = (raced \/ Meets(r))
  /\ Emit(r, req[r].to)
  /\ UNCHANGED <<plan, eff, patched>>

\* The listener: the plan is the event's, whatever the organisation's is now.
Refresh(r) ==
  /\ req[r].op = "refresh"
  /\ eff' = req[r].to
  /\ raced' = (raced \/ Meets(r))
  /\ Done(r)
  /\ UNCHANGED <<plan, sub, patched>>

-----------------------------------------------------------------------------
RevertReads(r, d) ==
  /\ req[r] = New
  /\ IsFound(d)
  /\ sub[d].change # NoChange
  /\ GoTo(r, [op |-> "revert", doc |-> d])
  /\ UNCHANGED <<plan, eff, sub, raced, patched>>

RevertWrites(r) ==
  /\ req[r].op = "revert"
  /\ sub' = [sub EXCEPT ![req[r].doc].change = NoChange]
  /\ Done(r)
  /\ UNCHANGED <<plan, eff, raced, patched>>

AssignCommits(r, to) ==
  /\ req[r] = New
  /\ SetPlan(to)
  /\ raced' = (raced \/ Meets(r))
  /\ GoTo(r, [op |-> "assigned", to |-> to])
  /\ patched' = FALSE
  /\ UNCHANGED sub

AssignFinds(r, d) ==
  /\ req[r].op = "assigned"
  /\ IsFound(d) \/ (NoneExists /\ IsFresh(d))
  /\ GoTo(r, [op |-> "place", to |-> req[r].to, doc |-> d, isNew |-> ~Exists(d)])
  /\ UNCHANGED <<plan, eff, sub, raced, patched>>

\* The period of an existing subscription stays as it is.
Assigned(d, to) ==
  [status |-> "active", plan |-> to,
   ends |-> IF Exists(d) THEN sub[d].ends ELSE 1, change |-> NoChange]

AssignWrites(r) ==
  /\ req[r].op = "place"
  /\ sub' = [sub EXCEPT ![req[r].doc] = Assigned(req[r].doc, req[r].to)]
  /\ raced' = (raced \/ Meets(r) \/ (req[r].isNew /\ ~NoneExists))
  /\ Done(r)
  /\ UNCHANGED <<plan, eff, patched>>

\* One transaction, whatever the status is.
MarkPastDue(d) ==
  /\ IsFound(d)
  /\ sub[d].status # "past_due"
  /\ sub' = [sub EXCEPT ![d].status = "past_due"]
  /\ UNCHANGED <<plan, eff, req, raced, patched>>

-----------------------------------------------------------------------------
\* The rollover's guard, evaluated again in its transaction.
IsDue(d) ==
  Exists(d) /\ sub[d].change # NoChange /\ sub[d].change.at = 0
  /\ sub[d].status # "past_due"

\* The subscription and the organisation in one transaction, whatever the
\* reason is: the end of a trial leaves the status "trialing".  It reads the
\* organisation after the write of the subscription.
Rollover(d) ==
  /\ ~ReadsBeforeWrites
  /\ IsDue(d)
  /\ sub' = [sub EXCEPT ![d] = Flipped(sub[d], sub[d].change.to)]
  /\ SetPlan(sub[d].change.to)
  /\ raced' = (raced \/ \E s \in Requests : Torn(s))
  /\ patched' = FALSE
  /\ UNCHANGED req

\* PATCH: plan and effectiveLimits are fields of the body like any other.
UpdateOrganization(p, e) ==
  /\ plan' = p
  /\ eff' = e
  /\ patched' = (patched \/ p # plan \/ e # eff)
  /\ UNCHANGED <<sub, req, raced>>

\* Time passes: every date kept so far lies behind.
PassedTask(task) ==
  IF task.op \in {"check", "schedule"} THEN [task EXCEPT !.at = 0] ELSE task

\* Mutant: the end of the period moves on every time.
PassedAgain(s) ==
  IF s = NoSub THEN s
  ELSE [s EXCEPT !.ends = @ - 1,
                 !.change = IF @ = NoChange THEN @ ELSE [@ EXCEPT !.at = 0]]

Passed(s) ==
  IF s = NoSub THEN s
  ELSE [s EXCEPT !.ends = 0,
                 !.change = IF @ = NoChange THEN @ ELSE [@ EXCEPT !.at = 0]]

PeriodEnds ==
  /\ sub' = [d \in Docs |-> Passed(sub[d])]
  /\ req' = [r \in Requests |-> PassedTask(req[r])]
  /\ UNCHANGED <<plan, eff, raced, patched>>

\* A check fails, a call throws, or the process dies.
Stop(r) ==
  /\ req[r] \notin {New, Over}
  /\ Done(r)
  /\ raced' = (raced \/ Torn(r))
  /\ UNCHANGED <<plan, eff, sub, patched>>

-----------------------------------------------------------------------------
Next ==
  \/ \E r \in Requests :
       \/ \E to \in Paid, d \in Docs : UpgradeReads(r, to, d)
       \/ UpgradeCommits(r) \/ UpgradeWrites(r)
       \/ \E to \in Plans, i \in BOOLEAN : DowngradeReads(r, to, i)
       \/ ScheduleChecks(r) \/ ScheduleWrites(r)
       \/ FlipCommits(r) \/ FlipFinds(r) \/ FlipWrites(r) \/ Refresh(r)
       \/ \E d \in Docs : RevertReads(r, d)
       \/ RevertWrites(r)
       \/ \E to \in Plans : AssignCommits(r, to)
       \/ \E d \in Docs : AssignFinds(r, d)
       \/ AssignWrites(r)
       \/ Stop(r)
  \/ \E d \in Docs : MarkPastDue(d) \/ Rollover(d)
  \/ \E p \in Plans, e \in Plans \cup {OwnLimits} : UpdateOrganization(p, e)
  \/ PeriodEnds

Spec == Init /\ [][Next]_vars

-----------------------------------------------------------------------------
\* Unless two changes of plan overlapped, one was left half done, or a PATCH
\* wrote over the last one, the three copies of the plan are one whenever
\* nothing is half done: the organisation's, the one its limits come from
\* (subscription.service.ts:273, effective-plan.listener.ts:27) and the
\* subscription's.  Operations that decided before the others committed, and
\* the rollover, come anywhere, and a complete change after a PATCH brings the
\* copies together again.
PlansAgree ==
  ~raced /\ ~patched /\ (\A r \in Requests : ~Torn(r)) =>
    /\ eff = plan
    /\ \A d \in Docs : IsFound(d) => sub[d].plan = plan
    /\ NoneExists => plan = 0
=============================================================================
