-------------------------------- MODULE Events --------------------------------
(***************************************************************************)
(* The events of one organisation: their status, the plan that bounds how  *)
(* many are active, and the sales of a ticket type of each.                *)
(*                                                                         *)
(* Most operations read the event, judge what they read and write later    *)
(* without looking again; a few use a transaction.  Creation counts the    *)
(* active events first and creates afterwards.  A downgrade that is        *)
(* scheduled freezes creation at once, since the rollover that applies it  *)
(* counts nothing.  The freeze takes its number from a table in the code,  *)
(* the rollover from the catalogue of plans, which may be edited.          *)
(*                                                                         *)
(* Each event is followed through one paid ticket type.  A change of plan, *)
(* which writes two documents (module Subscriptions), is one step here.    *)
(***************************************************************************)
EXTENDS Integers, FiniteSets

None == -1
OwnPlan == -1  \* a plan of the catalogue that is none of the code's

CONSTANTS
  Events,   \* ids of event documents
  Requests, \* the operations asked for: the bound on a behaviour
  TopPlan,  \* the plans are 0, the free one, and those that it upgrades to
  PlanLimits, \* PLAN_LIMITS[plan].maxEvents, None where it is unlimited
  Limits,   \* the numbers of active events that the catalogue's plans allow
  MaxSold,  \* the most tickets sold of an event
  ReadsBeforeWrites \* whether the store refuses a read after a write

ASSUME EventAssumption == IsFiniteSet(Events)
ASSUME BoundAssumption == Limits \subseteq Nat /\ MaxSold \in Nat
ASSUME PlanAssumption ==
  /\ TopPlan \in Nat
  /\ PlanLimits \in [0..TopPlan -> Nat \cup {None}]
  /\ ReadsBeforeWrites \in BOOLEAN

VARIABLES
  status,   \* event.status
  children, \* of a series' parent: the events whose parentEventId it is
  recent,   \* the events whose archivedAt is set and within 30 days
  sold,     \* ticketType.soldCount; Absent when the type is not in the array
  made,     \* the paid registrations for the ticket type
  plan,     \* org.plan
  limit,    \* org.effectiveLimits.maxEvents
  target,   \* scheduledChange.toPlan
  req,      \* the local state of each operation
  fits,     \* history: the limit that the scheduled plan was checked against
  loose,    \* history: the count or the limit changed under a check, or
            \* without one
  edited    \* history: the ticket type was saved over a sale, or removed
            \* under one

eventVars == <<status, children, recent>>
salesVars == <<sold, made, edited>>
planVars == <<plan, limit, target, fits>>
vars == <<eventVars, salesVars, planVars, loose, req>>

-----------------------------------------------------------------------------
\* Mutant: the schema does not know the status that cancelSeries() writes.
StatusWithoutCancelled == {"draft", "published", "completed", "archived"}

Status == {"draft", "published", "cancelled", "completed", "archived"}
Active == {"draft", "published"}

Absent == -1

New == [op |-> "new"]
Over == [op |-> "over"]
CheckedTask ==
  [op : {"create", "series", "restore"}, about : Events,
   count : Nat, limit : Limits, freeze : Nat \cup {None}]
PlanTask ==
  [op : {"plan", "schedule"}, about : 0..TopPlan, fits : Limits, count : Nat]
StatusTask == [op : {"write"}, event : Events, to : Status]
FormTask == [op : {"form"}, event : Events, sold : Absent..MaxSold]
UpdateTask ==
  [op : {"update"}, event : Events, to : Status \cup {"same"},
   sold : Absent..MaxSold]
SaleTask == [op : {"sale"}, event : Events]
Task ==
  {New, Over} \cup CheckedTask \cup PlanTask \cup StatusTask \cup FormTask
    \cup UpdateTask \cup SaleTask

TypeOK ==
  /\ status \in [Events -> Status \cup {"none"}]
  /\ children \in [Events -> SUBSET Events]
  /\ recent \subseteq Events
  /\ sold \in [Events -> Absent..MaxSold]
  /\ made \in [Events -> 0..MaxSold]
  /\ plan \in OwnPlan..TopPlan
  /\ limit \in Limits
  /\ target \in None..TopPlan
  /\ fits \in Limits \cup {0}
  /\ req \in [Requests -> Task]
  /\ loose \in BOOLEAN
  /\ edited \subseteq Events

Init ==
  /\ status = [e \in Events |-> "none"]
  /\ children = [e \in Events |-> {}]
  /\ recent = {}
  /\ sold = [e \in Events |-> Absent]
  /\ made = [e \in Events |-> 0]
  /\ plan = 0
  /\ limit \in Limits
  /\ target = None
  /\ fits = 0
  /\ req = [r \in Requests |-> New]
  /\ loose = FALSE
  /\ edited = {}

GoTo(r, task) == req' = [req EXCEPT ![r] = task]
Done(r) == GoTo(r, Over)
Unused == {e \in Events : status[e] = "none"}
ActiveEvents == {e \in Events : status[e] \in Active}
Count == Cardinality(ActiveEvents)

-----------------------------------------------------------------------------
\* Mutant: the scheduled downgrade does not freeze creation.
HasRoomBesideFreeze(extra) == Count + extra < limit

\* The number that creation is frozen at, None when it is not frozen.
FreezeLimit == IF target \in {None, plan} THEN None ELSE PlanLimits[target]

\* checkEventLimit: the plan in force and the one that is scheduled.
HasRoom(extra) ==
  /\ Count + extra < limit
  /\ FreezeLimit # None => Count + extra < FreezeLimit

Checked(op, about) ==
  [op |-> op, about |-> about, count |-> Count, limit |-> limit,
   freeze |-> FreezeLimit]

\* What a check saw is still so.
StillSo(t) == t.count = Count /\ t.limit = limit /\ t.freeze = FreezeLimit

\* create and clone.
CreateReads(r, e) ==
  /\ req[r] = New
  /\ e \in Unused
  /\ HasRoom(0)
  /\ GoTo(r, Checked("create", e))
  /\ UNCHANGED <<eventVars, salesVars, planVars, loose>>

\* The body of the request may name any status; a clone is a draft.
CreateWrites(r, s) ==
  LET e == req[r].about IN
  /\ req[r].op = "create"
  /\ e \in Unused
  /\ status' = [status EXCEPT ![e] = s]
  /\ sold' = [sold EXCEPT ![e] = 0]
  /\ loose' = (loose \/ ~StillSo(req[r]))
  /\ Done(r)
  /\ UNCHANGED <<children, recent, made, edited, planVars>>

\* createSeries checks for the parent and n children, strictly.
SeriesReads(r, p, n) ==
  /\ req[r] = New
  /\ p \in Unused
  /\ HasRoom(n + 1)
  /\ GoTo(r, Checked("series", p))
  /\ UNCHANGED <<eventVars, salesVars, planVars, loose>>

\* The series the limit was checked for.
SeriesWrites(r, kids) ==
  LET p == req[r].about
      family == kids \cup {p} IN
  /\ req[r].op = "series"
  /\ kids # {} /\ p \notin kids
  /\ family \subseteq Unused
  /\ req[r].count + Cardinality(family) < req[r].limit
  /\ req[r].freeze # None => req[r].count + Cardinality(family) < req[r].freeze
  /\ status' = [e \in Events |-> IF e \in family THEN "draft" ELSE status[e]]
  /\ children' = [children EXCEPT ![p] = kids]
  /\ sold' = [e \in Events |-> IF e \in family THEN 0 ELSE sold[e]]
  /\ loose' = (loose \/ ~StillSo(req[r]))
  /\ Done(r)
  /\ UNCHANGED <<recent, made, edited, planVars>>

-----------------------------------------------------------------------------
Publishable == {"draft"}

\* publish, unpublish, cancel and archive: from which status, to which.
Changes ==
  {<<s, "published">> : s \in Publishable}
    \cup {<<"published", "draft">>}
    \cup {<<s, "cancelled">> : s \in Status \ {"cancelled", "archived"}}
    \cup {<<s, "archived">> : s \in Status}

StatusReads(r, e, to) ==
  /\ req[r] = New
  /\ <<status[e], to>> \in Changes
  /\ GoTo(r, [op |-> "write", event |-> e, to |-> to])
  /\ UNCHANGED <<eventVars, salesVars, planVars, loose>>

\* Written whatever the status is by now: an operation that read the event
\* before it was cancelled may bring it back.
SetStatus(e, to) ==
  /\ status' = [status EXCEPT ![e] = to]
  /\ loose' = (loose \/ (to \in Active /\ status[e] \notin Active))

StatusWrites(r) ==
  LET t == req[r] IN
  /\ t.op = "write"
  /\ SetStatus(t.event, t.to)
  /\ recent' = IF t.to = "archived" THEN recent \cup {t.event} ELSE recent
  /\ Done(r)
  /\ UNCHANGED <<children, salesVars, planVars>>

\* The children are published whatever their status.
PublishSeries(p) ==
  LET kids == children[p] IN
  /\ kids # {}
  /\ status' = [e \in Events |-> IF e \in kids THEN "published" ELSE status[e]]
  /\ loose' = (loose \/ \E e \in kids : status[e] \notin Active)
  /\ UNCHANGED <<children, recent, salesVars, planVars, req>>

\* The parent is cancelled whatever its status.
CancelSeries(p) ==
  LET hit == {p} \cup {e \in children[p] :
                         status[e] \notin {"cancelled", "archived"}} IN
  /\ children[p] # {}
  /\ status' = [e \in Events |-> IF e \in hit THEN "cancelled" ELSE status[e]]
  /\ UNCHANGED <<children, recent, salesVars, planVars, loose, req>>

RestoreReads(r, e) ==
  /\ req[r] = New
  /\ status[e] # "none"
  /\ HasRoom(0)
  /\ GoTo(r, Checked("restore", e))
  /\ UNCHANGED <<eventVars, salesVars, planVars, loose>>

\* The transaction reads the event again and the plan's limit not: what was
\* cancelled before it was archived is a draft like any other.
RestoreWrites(r) ==
  LET e == req[r].about IN
  /\ req[r].op = "restore"
  /\ status[e] = "archived" /\ e \in recent
  /\ status' = [status EXCEPT ![e] = "draft"]
  /\ recent' = recent \ {e}
  /\ loose' = (loose \/ ~StillSo(req[r]))
  /\ Done(r)
  /\ UNCHANGED <<children, salesVars, planVars>>

RestoreWindowEnds(e) ==
  /\ e \in recent
  /\ recent' = recent \ {e}
  /\ UNCHANGED <<status, children, salesVars, planVars, loose, req>>

-----------------------------------------------------------------------------
\* The organiser's form loads the event with its ticket types.
OpenForm(r, e) ==
  /\ req[r] = New
  /\ status[e] # "none"
  /\ GoTo(r, [op |-> "form", event |-> e, sold |-> sold[e]])
  /\ UNCHANGED <<eventVars, salesVars, planVars, loose>>

\* update() is sent the form, which may name a status and an archivedAt.
UpdateReads(r, to) ==
  LET e == req[r].event IN
  /\ req[r].op = "form"
  /\ status[e] \notin {"cancelled", "archived"}
  /\ GoTo(r, [op |-> "update", event |-> e, to |-> to, sold |-> req[r].sold])
  /\ UNCHANGED <<eventVars, salesVars, planVars, loose>>

\* The array is part of the body: what it says is sold replaces what is sold.
UpdateWrites(r) ==
  LET t == req[r] IN
  /\ t.op = "update"
  /\ IF t.to = "same" THEN UNCHANGED <<status, loose>> ELSE SetStatus(t.event, t.to)
  /\ recent' \in {recent, recent \cup {t.event}}
  /\ sold' = [sold EXCEPT ![t.event] = t.sold]
  /\ edited' = IF t.sold = sold[t.event] THEN edited
               ELSE edited \cup {t.event}
  /\ Done(r)
  /\ UNCHANGED <<children, made, planVars>>

\* Mutant: a ticket type is removed whatever was sold of it.
IsUnsoldOrNot(e) == sold[e] # Absent

IsUnsold(e) == sold[e] = 0

RemoveTicketType(e) ==
  /\ IsUnsold(e)
  /\ sold' = [sold EXCEPT ![e] = Absent]
  /\ UNCHANGED <<eventVars, made, edited, planVars, loose, req>>

\* A payment is initiated: the ticket type is found, nothing is counted yet.
SaleStarts(r, e) ==
  /\ req[r] = New
  /\ status[e] = "published"
  /\ sold[e] # Absent
  /\ GoTo(r, [op |-> "sale", event |-> e])
  /\ UNCHANGED <<eventVars, salesVars, planVars, loose>>

\* Its finalisation counts the ticket in the array it reads, if it is there.
SaleEnds(r) ==
  LET e == req[r].event IN
  /\ req[r].op = "sale"
  /\ made[e] < MaxSold /\ sold[e] < MaxSold
  /\ made' = [made EXCEPT ![e] = @ + 1]
  /\ sold' = [sold EXCEPT ![e] = IF @ = Absent THEN Absent ELSE @ + 1]
  /\ edited' = IF sold[e] = Absent THEN edited \cup {e} ELSE edited
  /\ Done(r)
  /\ UNCHANGED <<eventVars, planVars, loose>>

-----------------------------------------------------------------------------
(* The number of a plan comes from the catalogue, so any plan may come     *)
(* with any number.                                                        *)

SetPlan(p, n) == plan' = p /\ limit' = n

\* Counts nothing; the first one may start a trial, whose end is scheduled.
Upgrade(p, n) ==
  /\ plan # OwnPlan /\ p > plan
  /\ SetPlan(p, n)
  /\ target' \in {None, p}
  /\ fits' = 0
  /\ loose' = (loose \/ Count > n)
  /\ UNCHANGED <<eventVars, salesVars, req>>

\* The active events are counted first, for a downgrade at once as for one at
\* the end of the period.
DowngradeReads(r, op, p, n) ==
  /\ req[r] = New
  /\ op = "schedule" => p < plan
  /\ Count <= n
  /\ GoTo(r, [op |-> op, about |-> p, fits |-> n, count |-> Count])
  /\ UNCHANGED <<eventVars, salesVars, planVars, loose>>

\* At once: the transaction asks again whether the plan is a smaller one.
DowngradeWrites(r) ==
  LET t == req[r] IN
  /\ t.op = "plan"
  /\ t.about < plan
  /\ SetPlan(t.about, t.fits)
  /\ target' = None /\ fits' = 0
  /\ loose' = (loose \/ t.count # Count)
  /\ Done(r)
  /\ UNCHANGED <<eventVars, salesVars>>

ScheduleWrites(r) ==
  LET t == req[r] IN
  /\ t.op = "schedule"
  /\ target' = t.about /\ fits' = t.fits
  /\ loose' = (loose \/ t.count # Count)
  /\ Done(r)
  /\ UNCHANGED <<eventVars, salesVars, plan, limit>>

\* A number with room for all that the checks let in while the change was
\* scheduled: up to the number of the freeze, or to the plan's in force.
Covers(n) ==
  IF FreezeLimit = None THEN limit <= n ELSE fits <= n /\ FreezeLimit <= n

\* The rollover counts nothing.  It writes the subscription before it reads
\* the organisation.
Rollover(n) ==
  /\ ~ReadsBeforeWrites
  /\ target # None
  /\ SetPlan(target, n)
  /\ target' = None /\ fits' = 0
  /\ loose' = (loose \/ ~Covers(n))
  /\ UNCHANGED <<eventVars, salesVars, req>>

RevertChange ==
  /\ target # None
  /\ target' = None /\ fits' = 0
  /\ UNCHANGED <<eventVars, salesVars, plan, limit, loose, req>>

\* assignPlan counts nothing either.
AssignPlan(p, n) ==
  /\ SetPlan(p, n)
  /\ target' = None /\ fits' = 0
  /\ loose' = (loose \/ Count > n)
  /\ UNCHANGED <<eventVars, salesVars, req>>

\* The PATCH of the organisation takes both from its body and leaves what is
\* scheduled, which is frozen from now on if the plan was that one.
PatchOrganization(p, n) ==
  /\ SetPlan(p, n)
  /\ loose' = (loose \/ Count > n \/ (target = plan /\ p # plan))
  /\ UNCHANGED <<eventVars, salesVars, target, fits, req>>

\* A check refuses, a call throws or the process dies.
Stop(r) ==
  /\ req[r] \notin {New, Over}
  /\ Done(r)
  /\ UNCHANGED <<eventVars, salesVars, planVars, loose>>

Next ==
  \/ \E r \in Requests :
       \/ \E e \in Events :
            \/ CreateReads(r, e) \/ RestoreReads(r, e)
            \/ OpenForm(r, e) \/ SaleStarts(r, e)
            \/ \E n \in 1..(Cardinality(Events) - 1) : SeriesReads(r, e, n)
            \/ \E to \in Status : StatusReads(r, e, to)
       \/ \E s \in Status : CreateWrites(r, s)
       \/ \E kids \in SUBSET Events : SeriesWrites(r, kids)
       \/ StatusWrites(r) \/ RestoreWrites(r)
       \/ \E to \in Status \cup {"same"} : UpdateReads(r, to)
       \/ UpdateWrites(r) \/ SaleEnds(r)
       \/ \E op \in {"plan", "schedule"}, p \in 0..TopPlan, n \in Limits :
            DowngradeReads(r, op, p, n)
       \/ DowngradeWrites(r) \/ ScheduleWrites(r) \/ Stop(r)
  \/ \E e \in Events :
       \/ PublishSeries(e) \/ CancelSeries(e)
       \/ RestoreWindowEnds(e) \/ RemoveTicketType(e)
  \/ \E n \in Limits :
       \/ \E p \in 0..TopPlan : Upgrade(p, n) \/ PatchOrganization(p, n)
       \/ \E p \in OwnPlan..TopPlan : AssignPlan(p, n)
       \/ Rollover(n)
  \/ RevertChange

Spec == Init /\ [][Next]_vars

-----------------------------------------------------------------------------
\* The organisation has no more active events than its plan allows.  The
\* freeze makes the rollover safe, which counts nothing (event.service.ts:1443),
\* when the number it applies is no smaller than the number of the freeze and
\* the one that the downgrade was checked against.  What exceeds the plan is an
\* operation whose check was overtaken; a rollover to a smaller number than
\* those, or of a plan that the code's table leaves unlimited; a plan upgraded,
\* assigned or patched below the count, or patched while one is scheduled; or
\* an event made active again without a check.
OverPlanHasACause == Count > limit => loose

\* soldCount is the number of tickets sold, and a ticket type with sales is not
\* removed, unless the event's form was saved over a sale or the type removed
\* under a payment (event.service.ts:513, 1112).
SoldIsHonest ==
  \A e \in Events \ edited : made[e] = IF sold[e] = Absent THEN 0 ELSE sold[e]
===============================================================================
