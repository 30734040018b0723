----------------------------- MODULE EventsProofs -----------------------------
(***************************************************************************)
(* Proofs about Events for every finite set of events, any number of       *)
(* operations, any limits and any sales.                                   *)
(*                                                                         *)
(* Types first, with what an operation holds on to; then the count of what *)
(* was sold and the limit of the plan, each on the types alone.            *)
(***************************************************************************)
EXTENDS Events, FiniteSetTheorems, TLAPS

\* The operations that hold on to an event that is there.
Holding == {"write", "form", "update", "sale"}

\* What is not created has no history, and nobody works on it.
Born ==
  /\ \A e \in Events : status[e] = "none" => made[e] = 0
  /\ \A r \in Requests :
       req[r].op \in Holding => status[req[r].event] # "none"

LEMMA Numbers ==
  /\ Limits \subseteq Nat /\ MaxSold \in Nat
  /\ 0 \in 0..MaxSold /\ 0 \in Absent..MaxSold /\ Absent \in Absent..MaxSold
  /\ None \in None..TopPlan /\ 0 \in OwnPlan..TopPlan
  /\ \A p \in 0..TopPlan : p \in None..TopPlan /\ p \in OwnPlan..TopPlan
BY BoundAssumption, PlanAssumption DEF Absent, None, OwnPlan

\* The number of the freeze, when there is one.
LEMMA FreezeType ==
  ASSUME TypeOK
  PROVE  FreezeLimit \in Nat \cup {None}
<1>1. target # None => target \in 0..TopPlan
  BY PlanAssumption DEF TypeOK, None
<1> QED BY <1>1, PlanAssumption DEF FreezeLimit

LEMMA Counting ==
  ASSUME NEW S \in SUBSET Events
  PROVE  IsFiniteSet(S) /\ Cardinality(S) \in Nat
BY EventAssumption, FS_Subset, FS_CardinalityType

LEMMA CountType == ActiveEvents \subseteq Events /\ Count \in Nat
<1>1. ActiveEvents \in SUBSET Events
  BY DEF ActiveEvents
<1> QED BY <1>1, Counting DEF Count

LEMMA TaskOf ==
  ASSUME TypeOK, NEW r \in Requests
  PROVE  /\ req[r].op \in {"create", "series", "restore"} => req[r] \in CheckedTask
         /\ req[r].op \in {"plan", "schedule"} => req[r] \in PlanTask
         /\ req[r].op = "write" => req[r] \in StatusTask
         /\ req[r].op = "form" => req[r] \in FormTask
         /\ req[r].op = "update" => req[r] \in UpdateTask
         /\ req[r].op = "sale" => req[r] \in SaleTask
<1>1. req[r] \in Task
  BY DEF TypeOK
<1> QED
  BY <1>1 DEF Task, New, Over, CheckedTask, PlanTask, StatusTask, FormTask,
     UpdateTask, SaleTask

LEMMA EventOf ==
  ASSUME TypeOK, NEW r \in Requests
  PROVE  req[r].op \in Holding => req[r].event \in Events
BY TaskOf DEF Holding, StatusTask, FormTask, UpdateTask, SaleTask

LEMMA Moves ==
  ASSUME TypeOK, NEW r \in Requests, NEW t \in Task, GoTo(r, t)
  PROVE  /\ req' \in [Requests -> Task] /\ req'[r] = t
         /\ \A s \in Requests \ {r} : req'[s] = req[s]
BY DEF TypeOK, GoTo

\* A step that only moves an operation on.
Rest == <<eventVars, salesVars, planVars, loose>>

\* The disjuncts of a step, one name for the proofs to split on.
LEMMA StepCases ==
  ASSUME [Next]_vars
  PROVE  \/ \E r \in Requests, e \in Events : CreateReads(r, e)
         \/ \E r \in Requests, e \in Events : RestoreReads(r, e)
         \/ \E r \in Requests, e \in Events : OpenForm(r, e)
         \/ \E r \in Requests, e \in Events : SaleStarts(r, e)
         \/ \E r \in Requests, e \in Events, n \in Int : SeriesReads(r, e, n)
         \/ \E r \in Requests, e \in Events, to \in Status : StatusReads(r, e, to)
         \/ \E r \in Requests, s \in Status : CreateWrites(r, s)
         \/ \E r \in Requests, kids \in SUBSET Events : SeriesWrites(r, kids)
         \/ \E r \in Requests : StatusWrites(r)
         \/ \E r \in Requests : RestoreWrites(r)
         \/ \E r \in Requests, to \in Status \cup {"same"} : UpdateReads(r, to)
         \/ \E r \in Requests : UpdateWrites(r)
         \/ \E r \in Requests : SaleEnds(r)
         \/ \E r \in Requests, op \in {"plan", "schedule"}, p \in 0..TopPlan, n \in Limits :
              DowngradeReads(r, op, p, n)
         \/ \E r \in Requests : DowngradeWrites(r)
         \/ \E r \in Requests : ScheduleWrites(r)
         \/ \E r \in Requests : Stop(r)
         \/ \E e \in Events : PublishSeries(e)
         \/ \E e \in Events : CancelSeries(e)
         \/ \E e \in Events : RestoreWindowEnds(e)
         \/ \E e \in Events : RemoveTicketType(e)
         \/ \E p \in 0..TopPlan, n \in Limits : Upgrade(p, n)
         \/ \E p \in 0..TopPlan, n \in Limits : PatchOrganization(p, n)
         \/ \E p \in OwnPlan..TopPlan, n \in Limits : AssignPlan(p, n)
         \/ \E n \in Limits : Rollover(n)
         \/ RevertChange
         \/ UNCHANGED vars
<1>1. \A n \in 1..(Cardinality(Events) - 1) : n \in Int
  OBVIOUS
<1> QED BY <1>1 DEF Next

\* The tasks the steps go to.
LEMMA Tasks ==
  ASSUME TypeOK
  PROVE  /\ New \in Task /\ Over \in Task /\ Over.op = "over"
         /\ \A op \in {"create", "series", "restore"}, e \in Events :
              Checked(op, e) \in Task /\ Checked(op, e).op = op
         /\ PlanTask \subseteq Task /\ StatusTask \subseteq Task /\ FormTask \subseteq Task
         /\ UpdateTask \subseteq Task /\ SaleTask \subseteq Task
<1>1. Count \in Nat /\ limit \in Limits /\ FreezeLimit \in Nat \cup {None}
  BY CountType, FreezeType DEF TypeOK
<1>2. \A op \in {"create", "series", "restore"}, e \in Events :
        Checked(op, e) \in CheckedTask /\ Checked(op, e).op = op
  BY <1>1 DEF Checked, CheckedTask
<1> QED BY <1>2 DEF Task, New, Over

-----------------------------------------------------------------------------
(* Types.                                                                  *)

\* An operation moves on and changes nothing else.
LEMMA TypeMove ==
  ASSUME TypeOK, Born, NEW r \in Requests, NEW t \in Task, GoTo(r, t),
         UNCHANGED Rest, t.op \in Holding => status[t.event] # "none"
  PROVE  TypeOK' /\ Born'
<1>1. TypeOK'
  BY Moves DEF TypeOK, Rest, eventVars, salesVars, planVars
<1>2. Born'
  BY Moves DEF Born, Rest, eventVars, salesVars
<1> QED BY <1>1, <1>2

\* An operation ends; what it writes has its type, and no event disappears.
LEMMA TypeEnd ==
  ASSUME TypeOK, Born, NEW r \in Requests, Done(r),
         status' \in [Events -> Status \cup {"none"}],
         children' \in [Events -> SUBSET Events], recent' \subseteq Events,
         sold' \in [Events -> Absent..MaxSold], made' \in [Events -> 0..MaxSold],
         plan' \in OwnPlan..TopPlan, limit' \in Limits, target' \in None..TopPlan,
         fits' \in Limits \cup {0}, loose' \in BOOLEAN, edited' \subseteq Events,
         \A e \in Events : status[e] # "none" => status'[e] # "none",
         \A e \in Events : status'[e] = "none" => made'[e] = made[e]
  PROVE  TypeOK' /\ Born'
<1>1. Over \in Task /\ Over.op \notin Holding
  BY DEF Task, Over, Holding
<1>2. /\ req' \in [Requests -> Task] /\ req'[r] = Over
      /\ \A s \in Requests \ {r} : req'[s] = req[s]
  BY <1>1, Moves DEF Done
<1>3. TypeOK'
  BY <1>2 DEF TypeOK
<1>4. \A s \in Requests : req[s].op \in Holding => req[s].event \in Events
  BY EventOf
<1>5. Born'
  BY <1>1, <1>2, <1>4 DEF Born
<1> QED BY <1>3, <1>5

\* The same without an operation.
LEMMA TypeAlone ==
  ASSUME TypeOK, Born, UNCHANGED <<req, made>>,
         status' \in [Events -> Status \cup {"none"}],
         children' \in [Events -> SUBSET Events], recent' \subseteq Events,
         sold' \in [Events -> Absent..MaxSold],
         plan' \in OwnPlan..TopPlan, limit' \in Limits, target' \in None..TopPlan,
         fits' \in Limits \cup {0}, loose' \in BOOLEAN, edited' \subseteq Events,
         \A e \in Events : status[e] # "none" => status'[e] # "none"
  PROVE  TypeOK' /\ Born'
<1>1. TypeOK'
  BY DEF TypeOK
<1>2. \A s \in Requests : req[s].op \in Holding => req[s].event \in Events
  BY EventOf
<1>3. Born'
  BY <1>2 DEF Born
<1> QED BY <1>1, <1>3

LEMMA TypeReads ==
  ASSUME TypeOK, Born, NEW r \in Requests
  PROVE  /\ \A e \in Events : CreateReads(r, e) => TypeOK' /\ Born'
         /\ \A e \in Events : RestoreReads(r, e) => TypeOK' /\ Born'
         /\ \A e \in Events : OpenForm(r, e) => TypeOK' /\ Born'
         /\ \A e \in Events : SaleStarts(r, e) => TypeOK' /\ Born'
         /\ \A e \in Events, n \in Int : SeriesReads(r, e, n) => TypeOK' /\ Born'
         /\ \A e \in Events, to \in Status : StatusReads(r, e, to) => TypeOK' /\ Born'
         /\ \A to \in Status \cup {"same"} : UpdateReads(r, to) => TypeOK' /\ Born'
         /\ \A op \in {"plan", "schedule"}, p \in 0..TopPlan, n \in Limits :
              DowngradeReads(r, op, p, n) => TypeOK' /\ Born'
         /\ Stop(r) => TypeOK' /\ Born'
<1>a. {"create", "series", "restore", "plan", "schedule", "over"} \cap Holding = {}
  BY DEF Holding
<1>1. ASSUME NEW e \in Events,
             \/ CreateReads(r, e) \/ RestoreReads(r, e)
             \/ \E n \in Int : SeriesReads(r, e, n)
      PROVE  TypeOK' /\ Born'
  <2>1. PICK op \in {"create", "series", "restore"} :
          GoTo(r, Checked(op, e)) /\ UNCHANGED Rest
    BY <1>1 DEF CreateReads, RestoreReads, SeriesReads, Rest
  <2>2. Checked(op, e) \in Task /\ Checked(op, e).op = op
    BY Tasks
  <2> QED BY <1>a, <2>1, <2>2, TypeMove
<1>2. ASSUME NEW op \in {"plan", "schedule"}, NEW p \in 0..TopPlan, NEW n \in Limits,
             DowngradeReads(r, op, p, n)
      PROVE  TypeOK' /\ Born'
  <2> DEFINE t == [op |-> op, about |-> p, fits |-> n, count |-> Count]
  <2>1. t \in PlanTask /\ t.op = op
    BY CountType DEF PlanTask
  <2>2. GoTo(r, t) /\ UNCHANGED Rest
    BY <1>2 DEF DowngradeReads, Rest
  <2> HIDE DEF t
  <2> QED BY <1>a, <2>1, <2>2, Tasks, TypeMove
<1>3. ASSUME NEW e \in Events, OpenForm(r, e) PROVE TypeOK' /\ Born'
  <2> DEFINE t == [op |-> "form", event |-> e, sold |-> sold[e]]
  <2>1. t \in FormTask /\ t.event = e
    BY DEF FormTask, TypeOK
  <2>2. GoTo(r, t) /\ UNCHANGED Rest /\ status[e] # "none"
    BY <1>3 DEF OpenForm, Rest
  <2> HIDE DEF t
  <2> QED BY <2>1, <2>2, Tasks, TypeMove
<1>4. ASSUME NEW e \in Events, SaleStarts(r, e) PROVE TypeOK' /\ Born'
  <2> DEFINE t == [op |-> "sale", event |-> e]
  <2>1. t \in SaleTask /\ t.event = e
    BY DEF SaleTask
  <2>2. GoTo(r, t) /\ UNCHANGED Rest /\ status[e] # "none"
    BY <1>4 DEF SaleStarts, Rest
  <2> HIDE DEF t
  <2> QED BY <2>1, <2>2, Tasks, TypeMove
<1>5. ASSUME NEW e \in Events, NEW to \in Status, StatusReads(r, e, to)
      PROVE  TypeOK' /\ Born'
  <2> DEFINE t == [op |-> "write", event |-> e, to |-> to]
  <2>1. status[e] # "none"
    BY <1>5 DEF StatusReads, Changes, Publishable, Status
  <2>2. t \in StatusTask /\ t.event = e
    BY DEF StatusTask
  <2>3. GoTo(r, t) /\ UNCHANGED Rest
    BY <1>5 DEF StatusReads, Rest
  <2> HIDE DEF t
  <2> QED BY <2>1, <2>2, <2>3, Tasks, TypeMove
<1>6. ASSUME NEW to \in Status \cup {"same"}, UpdateReads(r, to)
      PROVE  TypeOK' /\ Born'
  <2> DEFINE t == [op |-> "update", event |-> req[r].event, to |-> to,
                   sold |-> req[r].sold]
  <2>1. req[r] \in FormTask /\ req[r].op \in Holding
    BY <1>6, TaskOf DEF UpdateReads, Holding
  <2>2. status[req[r].event] # "none"
    BY <2>1 DEF Born
  <2>3. req[r].event \in Events /\ req[r].sold \in Absent..MaxSold
    BY <2>1 DEF FormTask
  <2>4. t \in UpdateTask /\ t.event = req[r].event
    BY <2>3 DEF UpdateTask
  <2>5. GoTo(r, t) /\ UNCHANGED Rest
    BY <1>6 DEF UpdateReads, Rest
  <2> HIDE DEF t
  <2> QED BY <2>2, <2>4, <2>5, Tasks, TypeMove
<1>7. ASSUME Stop(r) PROVE TypeOK' /\ Born'
  <2>1. GoTo(r, Over) /\ UNCHANGED Rest
    BY <1>7 DEF Stop, Done, Rest
  <2> QED BY <1>a, <2>1, Tasks, TypeMove
<1> QED BY <1>1, <1>2, <1>3, <1>4, <1>5, <1>6, <1>7

\* What the operations and the steps outside them write has its type.
LEMMA TypeWrites ==
  ASSUME TypeOK, Born, NEW r \in Requests
  PROVE  /\ \A s \in Status : CreateWrites(r, s) => TypeOK' /\ Born'
         /\ \A kids \in SUBSET Events : SeriesWrites(r, kids) => TypeOK' /\ Born'
         /\ StatusWrites(r) => TypeOK' /\ Born'
         /\ RestoreWrites(r) => TypeOK' /\ Born'
         /\ UpdateWrites(r) => TypeOK' /\ Born'
         /\ SaleEnds(r) => TypeOK' /\ Born'
         /\ DowngradeWrites(r) => TypeOK' /\ Born'
         /\ ScheduleWrites(r) => TypeOK' /\ Born'
<1>a. /\ status \in [Events -> Status \cup {"none"}]
      /\ children \in [Events -> SUBSET Events] /\ recent \subseteq Events
      /\ sold \in [Events -> Absent..MaxSold] /\ made \in [Events -> 0..MaxSold]
      /\ plan \in OwnPlan..TopPlan /\ limit \in Limits /\ target \in None..TopPlan
      /\ fits \in Limits \cup {0} /\ loose \in BOOLEAN /\ edited \subseteq Events
  BY DEF TypeOK
<1>p. /\ UNCHANGED planVars =>
           /\ plan' \in OwnPlan..TopPlan /\ limit' \in Limits
           /\ target' \in None..TopPlan /\ fits' \in Limits \cup {0}
      /\ UNCHANGED salesVars =>
           /\ sold' \in [Events -> Absent..MaxSold] /\ made' = made
           /\ made' \in [Events -> 0..MaxSold] /\ edited' \subseteq Events
      /\ UNCHANGED eventVars =>
           /\ status' = status /\ children' \in [Events -> SUBSET Events]
           /\ status' \in [Events -> Status \cup {"none"}] /\ recent' \subseteq Events
  BY <1>a DEF planVars, salesVars, eventVars
<1>b. "none" \notin Status /\ {"draft", "published", "cancelled", "archived"} \subseteq Status
  BY DEF Status
<1>c. ASSUME NEW e \in Events, NEW to \in Status, SetStatus(e, to)
      PROVE  /\ status' \in [Events -> Status \cup {"none"}]
             /\ loose' \in BOOLEAN
             /\ \A f \in Events : status[f] # "none" => status'[f] # "none"
  BY <1>a, <1>b, <1>c DEF SetStatus
<1>1. ASSUME NEW s \in Status, CreateWrites(r, s) PROVE TypeOK' /\ Born'
  <2> DEFINE e == req[r].about
  <2>1. e \in Events
    BY <1>1 DEF CreateWrites, Unused
  <2>2. /\ status' = [status EXCEPT ![e] = s] /\ sold' = [sold EXCEPT ![e] = 0]
        /\ Done(r) /\ UNCHANGED <<children, recent, made, edited, planVars>>
    BY <1>1 DEF CreateWrites
  <2>3. loose' \in BOOLEAN
    BY <1>a, <1>1 DEF CreateWrites
  <2> HIDE DEF e
  <2>4. /\ status' \in [Events -> Status \cup {"none"}]
        /\ sold' \in [Events -> Absent..MaxSold]
        /\ \A f \in Events : status[f] # "none" => status'[f] # "none"
    BY <1>a, <1>b, <2>1, <2>2, Numbers
  <2> QED BY <1>a, <1>p, <2>2, <2>3, <2>4, TypeEnd
<1>2. ASSUME NEW kids \in SUBSET Events, SeriesWrites(r, kids) PROVE TypeOK' /\ Born'
  <2> DEFINE family == kids \cup {req[r].about}
  <2>1. /\ status' = [e \in Events |-> IF e \in family THEN "draft" ELSE status[e]]
        /\ children' = [children EXCEPT ![req[r].about] = kids]
        /\ sold' = [e \in Events |-> IF e \in family THEN 0 ELSE sold[e]]
        /\ Done(r) /\ UNCHANGED <<recent, made, edited, planVars>>
    BY <1>2 DEF SeriesWrites
  <2>2. loose' \in BOOLEAN
    BY <1>a, <1>2 DEF SeriesWrites
  <2>3. /\ status' \in [Events -> Status \cup {"none"}]
        /\ children' \in [Events -> SUBSET Events]
        /\ sold' \in [Events -> Absent..MaxSold]
        /\ \A f \in Events : status[f] # "none" => status'[f] # "none"
    BY <1>a, <1>b, <2>1, Numbers
  <2> QED BY <1>a, <1>p, <2>1, <2>2, <2>3, TypeEnd
<1>3. ASSUME StatusWrites(r) PROVE TypeOK' /\ Born'
  <2>1. req[r].event \in Events /\ req[r].to \in Status
    BY <1>3, TaskOf DEF StatusWrites, StatusTask
  <2>2. /\ SetStatus(req[r].event, req[r].to) /\ Done(r)
        /\ (recent' = recent \cup {req[r].event} \/ recent' = recent)
        /\ UNCHANGED <<children, salesVars, planVars>>
    BY <1>3 DEF StatusWrites
  <2> QED BY <1>a, <1>c, <1>p, <2>1, <2>2, TypeEnd
<1>4. ASSUME RestoreWrites(r) PROVE TypeOK' /\ Born'
  <2> DEFINE e == req[r].about
  <2>1. /\ status' = [status EXCEPT ![e] = "draft"]
        /\ recent' = recent \ {e} /\ Done(r)
        /\ UNCHANGED <<children, salesVars, planVars>>
    BY <1>4 DEF RestoreWrites
  <2>2. loose' \in BOOLEAN
    BY <1>a, <1>4 DEF RestoreWrites
  <2> HIDE DEF e
  <2>3. /\ status' \in [Events -> Status \cup {"none"}]
        /\ \A f \in Events : status[f] # "none" => status'[f] # "none"
    BY <1>a, <1>b, <2>1
  <2> QED BY <1>a, <1>p, <2>1, <2>2, <2>3, TypeEnd
<1>5. ASSUME UpdateWrites(r) PROVE TypeOK' /\ Born'
  <2> DEFINE e == req[r].event
  <2>1. e \in Events /\ req[r].to \in Status \cup {"same"} /\ req[r].sold \in Absent..MaxSold
    BY <1>5, TaskOf DEF UpdateWrites, UpdateTask
  <2>2. /\ (IF req[r].to = "same" THEN UNCHANGED <<status, loose>>
            ELSE SetStatus(e, req[r].to))
        /\ sold' = [sold EXCEPT ![e] = req[r].sold]
        /\ (recent' = recent \/ recent' = recent \cup {e})
        /\ (edited' = edited \/ edited' = edited \cup {e}) /\ Done(r)
        /\ UNCHANGED <<children, made, planVars>>
    BY <1>5 DEF UpdateWrites
  <2>3. /\ sold' \in [Events -> Absent..MaxSold] /\ edited' \subseteq Events
        /\ recent' \subseteq Events
        /\ UNCHANGED <<children, made, planVars>> /\ Done(r)
    BY <1>a, <2>1, <2>2
  <2>4. /\ status' \in [Events -> Status \cup {"none"}]
        /\ loose' \in BOOLEAN
        /\ \A f \in Events : status[f] # "none" => status'[f] # "none"
    BY <1>a, <1>c, <2>1, <2>2
  <2> HIDE DEF e
  <2> QED BY <1>a, <1>p, <2>3, <2>4, TypeEnd
<1>6. ASSUME SaleEnds(r) PROVE TypeOK' /\ Born'
  <2> DEFINE e == req[r].event
  <2>1. e \in Events /\ status[e] # "none"
    BY <1>6, EventOf DEF SaleEnds, Holding, Born
  <2>2. /\ made[e] < MaxSold /\ sold[e] < MaxSold
        /\ made' = [made EXCEPT ![e] = made[e] + 1]
        /\ sold' = [sold EXCEPT ![e] = IF sold[e] = Absent THEN Absent ELSE sold[e] + 1]
        /\ (edited' = edited \/ edited' = edited \cup {e}) /\ Done(r)
        /\ UNCHANGED <<eventVars, planVars, loose>>
    BY <1>6, <1>a, <2>1 DEF SaleEnds
  <2> HIDE DEF e
  <2>3. made[e] + 1 \in 0..MaxSold
    BY <1>a, <2>1, <2>2, Numbers
  <2>4. sold[e] # Absent => sold[e] + 1 \in Absent..MaxSold
    BY <1>a, <2>1, <2>2, Numbers DEF Absent
  <2>5. /\ made' \in [Events -> 0..MaxSold] /\ sold' \in [Events -> Absent..MaxSold]
        /\ edited' \subseteq Events
        /\ \A f \in Events : status'[f] = "none" => made'[f] = made[f]
    BY <1>a, <1>p, <2>1, <2>2, <2>3, <2>4, Numbers
  <2> QED BY <1>a, <1>p, <2>2, <2>5, TypeEnd
<1>7. ASSUME DowngradeWrites(r) PROVE TypeOK' /\ Born'
  <2>1. req[r].about \in 0..TopPlan /\ req[r].fits \in Limits
    BY <1>7, TaskOf DEF DowngradeWrites, PlanTask
  <2>2. /\ plan' = req[r].about /\ limit' = req[r].fits /\ target' = None /\ fits' = 0
        /\ Done(r) /\ UNCHANGED <<eventVars, salesVars>>
    BY <1>7 DEF DowngradeWrites, SetPlan
  <2>3. loose' \in BOOLEAN
    BY <1>a, <1>7 DEF DowngradeWrites
  <2> QED BY <1>p, <2>1, <2>2, <2>3, Numbers, TypeEnd
<1>8. ASSUME ScheduleWrites(r) PROVE TypeOK' /\ Born'
  <2>1. req[r].about \in 0..TopPlan /\ req[r].fits \in Limits
    BY <1>8, TaskOf DEF ScheduleWrites, PlanTask
  <2>2. /\ target' = req[r].about /\ fits' = req[r].fits
        /\ Done(r) /\ UNCHANGED <<eventVars, salesVars, plan, limit>>
    BY <1>8 DEF ScheduleWrites
  <2>3. loose' \in BOOLEAN
    BY <1>a, <1>8 DEF ScheduleWrites
  <2> QED BY <1>a, <1>p, <2>1, <2>2, <2>3, Numbers, TypeEnd
<1> QED BY <1>1, <1>2, <1>3, <1>4, <1>5, <1>6, <1>7, <1>8

LEMMA TypeOthers ==
  ASSUME TypeOK, Born
  PROVE  /\ \A e \in Events : PublishSeries(e) => TypeOK' /\ Born'
         /\ \A e \in Events : CancelSeries(e) => TypeOK' /\ Born'
         /\ \A e \in Events : RestoreWindowEnds(e) => TypeOK' /\ Born'
         /\ \A e \in Events : RemoveTicketType(e) => TypeOK' /\ Born'
         /\ \A p \in 0..TopPlan, n \in Limits :
              Upgrade(p, n) \/ PatchOrganization(p, n) => TypeOK' /\ Born'
         /\ \A p \in OwnPlan..TopPlan, n \in Limits : AssignPlan(p, n) => TypeOK' /\ Born'
         /\ \A n \in Limits : Rollover(n) => TypeOK' /\ Born'
         /\ RevertChange \/ UNCHANGED vars => TypeOK' /\ Born'
<1>a. /\ status \in [Events -> Status \cup {"none"}]
      /\ children \in [Events -> SUBSET Events] /\ recent \subseteq Events
      /\ sold \in [Events -> Absent..MaxSold] /\ made \in [Events -> 0..MaxSold]
      /\ plan \in OwnPlan..TopPlan /\ limit \in Limits /\ target \in None..TopPlan
      /\ fits \in Limits \cup {0} /\ loose \in BOOLEAN /\ edited \subseteq Events
  BY DEF TypeOK
<1>p. /\ UNCHANGED planVars =>
           /\ plan' \in OwnPlan..TopPlan /\ limit' \in Limits
           /\ target' \in None..TopPlan /\ fits' \in Limits \cup {0}
      /\ UNCHANGED salesVars =>
           /\ sold' \in [Events -> Absent..MaxSold] /\ made' = made
           /\ made' \in [Events -> 0..MaxSold] /\ edited' \subseteq Events
      /\ UNCHANGED eventVars =>
           /\ status' = status /\ children' \in [Events -> SUBSET Events]
           /\ status' \in [Events -> Status \cup {"none"}] /\ recent' \subseteq Events
  BY <1>a DEF planVars, salesVars, eventVars
<1>b. "none" \notin Status /\ {"published", "cancelled"} \subseteq Status
  BY DEF Status
<1>1. ASSUME NEW e \in Events, PublishSeries(e) PROVE TypeOK' /\ Born'
  <2>1. /\ status' = [f \in Events |-> IF f \in children[e] THEN "published" ELSE status[f]]
        /\ loose' \in BOOLEAN
        /\ UNCHANGED <<children, recent, salesVars, planVars, req>>
    BY <1>a, <1>1 DEF PublishSeries
  <2>2. /\ status' \in [Events -> Status \cup {"none"}]
        /\ \A f \in Events : status[f] # "none" => status'[f] # "none"
    BY <1>a, <1>b, <2>1
  <2> QED BY <1>a, <1>p, <2>1, <2>2, TypeAlone
<1>2. ASSUME NEW e \in Events, CancelSeries(e) PROVE TypeOK' /\ Born'
  <2> DEFINE hit == {e} \cup {f \in children[e] : status[f] \notin {"cancelled", "archived"}}
  <2>1. hit \subseteq Events
    BY <1>a
  <2>2. /\ status' = [f \in Events |-> IF f \in hit THEN "cancelled" ELSE status[f]]
        /\ UNCHANGED <<children, recent, salesVars, planVars, loose, req>>
    BY <1>2 DEF CancelSeries
  <2> HIDE DEF hit
  <2>3. /\ status' \in [Events -> Status \cup {"none"}]
        /\ \A f \in Events : status[f] # "none" => status'[f] # "none"
    BY <1>a, <1>b, <2>1, <2>2
  <2> QED BY <1>a, <1>p, <2>2, <2>3, TypeAlone
<1>3. ASSUME NEW e \in Events, RestoreWindowEnds(e) PROVE TypeOK' /\ Born'
  BY <1>3, <1>a, <1>p, TypeAlone DEF RestoreWindowEnds
<1>4. ASSUME NEW e \in Events, RemoveTicketType(e) PROVE TypeOK' /\ Born'
  <2>1. sold' \in [Events -> Absent..MaxSold]
    BY <1>4, <1>a, Numbers DEF RemoveTicketType
  <2> QED BY <1>4, <1>a, <1>p, <2>1, TypeAlone DEF RemoveTicketType
<1>5. ASSUME NEW p \in 0..TopPlan, NEW n \in Limits, Upgrade(p, n) PROVE TypeOK' /\ Born'
  <2>1. /\ plan' = p /\ limit' = n /\ target' \in {None, p} /\ fits' = 0
        /\ loose' \in BOOLEAN /\ UNCHANGED <<eventVars, salesVars, req>>
    BY <1>5, <1>a DEF Upgrade, SetPlan
  <2> QED BY <1>p, <2>1, Numbers, TypeAlone
<1>6. ASSUME NEW p \in OwnPlan..TopPlan, NEW n \in Limits, AssignPlan(p, n)
      PROVE  TypeOK' /\ Born'
  <2>1. /\ plan' = p /\ limit' = n /\ target' = None /\ fits' = 0
        /\ loose' \in BOOLEAN /\ UNCHANGED <<eventVars, salesVars, req>>
    BY <1>6, <1>a DEF AssignPlan, SetPlan
  <2> QED BY <1>p, <2>1, Numbers, TypeAlone
<1>7. ASSUME NEW n \in Limits, Rollover(n) PROVE TypeOK' /\ Born'
  <2>1. /\ plan' = target /\ limit' = n /\ target' = None /\ fits' = 0
        /\ loose' \in BOOLEAN /\ UNCHANGED <<eventVars, salesVars, req>>
    BY <1>7, <1>a DEF Rollover, SetPlan
  <2>2. target \in OwnPlan..TopPlan
    BY <1>a DEF None, OwnPlan
  <2> QED BY <1>p, <2>1, <2>2, Numbers, TypeAlone
<1>8. ASSUME RevertChange PROVE TypeOK' /\ Born'
  BY <1>8, <1>a, <1>p, Numbers, TypeAlone DEF RevertChange
<1>9. ASSUME UNCHANGED vars PROVE TypeOK' /\ Born'
  BY <1>9, <1>a, <1>p, TypeAlone DEF vars
<1>10. ASSUME NEW p \in 0..TopPlan, NEW n \in Limits, PatchOrganization(p, n)
       PROVE  TypeOK' /\ Born'
  <2>1. /\ plan' = p /\ limit' = n /\ UNCHANGED <<target, fits>>
        /\ loose' \in BOOLEAN /\ UNCHANGED <<eventVars, salesVars, req>>
    BY <1>10, <1>a DEF PatchOrganization, SetPlan
  <2> QED BY <1>a, <1>p, <2>1, Numbers, TypeAlone
<1> QED BY <1>1, <1>2, <1>3, <1>4, <1>5, <1>6, <1>7, <1>8, <1>9, <1>10

LEMMA TypeStep == TypeOK /\ Born /\ [Next]_vars => TypeOK' /\ Born'
<1> SUFFICES ASSUME TypeOK, Born, [Next]_vars PROVE TypeOK' /\ Born'
  OBVIOUS
<1> QED BY StepCases, TypeReads, TypeWrites, TypeOthers

LEMMA InitType == Init => TypeOK /\ Born
<1> SUFFICES ASSUME Init PROVE TypeOK /\ Born
  OBVIOUS
<1>1. New \in Task /\ New.op \notin Holding
  BY DEF Task, New, Holding
<1>2. TypeOK
  BY <1>1, Numbers DEF Init, TypeOK
<1>3. Born
  BY <1>1 DEF Init, Born
<1> QED BY <1>2, <1>3

LEMMA Typed == Spec => [](TypeOK /\ Born)
BY InitType, TypeStep, PTL DEF Spec

\* The shapes of the state, for every instance.
THEOREM TypeCorrect == Spec => []TypeOK
BY Typed, PTL

-----------------------------------------------------------------------------
(* What was sold.                                                          *)

LEMMA SoldStep == TypeOK /\ Born /\ SoldIsHonest /\ [Next]_vars => SoldIsHonest'
<1> SUFFICES ASSUME TypeOK, Born, SoldIsHonest, [Next]_vars PROVE SoldIsHonest'
  OBVIOUS
<1> USE DEF SoldIsHonest
<1>a. /\ sold \in [Events -> Absent..MaxSold] /\ made \in [Events -> 0..MaxSold]
      /\ \A e \in Events : status[e] = "none" => made[e] = 0
  BY DEF TypeOK, Born
<1>b. 0 # Absent
  BY DEF Absent
<1>1. ASSUME UNCHANGED <<sold, made>>, edited \subseteq edited' PROVE SoldIsHonest'
  BY <1>1
<1>2. ASSUME NEW S \in SUBSET Events, \A e \in S : status[e] = "none",
             sold' = [e \in Events |-> IF e \in S THEN 0 ELSE sold[e]],
             UNCHANGED <<made, edited>>
      PROVE  SoldIsHonest'
  BY <1>2, <1>a, <1>b
<1>3. ASSUME NEW r \in Requests, NEW s \in Status, CreateWrites(r, s)
      PROVE  SoldIsHonest'
  <2> DEFINE e == req[r].about
  <2>1. e \in Events /\ status[e] = "none"
    BY <1>3 DEF CreateWrites, Unused
  <2>2. sold' = [sold EXCEPT ![e] = 0] /\ UNCHANGED <<made, edited>>
    BY <1>3 DEF CreateWrites
  <2> HIDE DEF e
  <2>3. sold' = [f \in Events |-> IF f \in {e} THEN 0 ELSE sold[f]]
    BY <1>a, <2>1, <2>2
  <2> QED BY <1>2, <2>1, <2>2, <2>3
<1>4. ASSUME NEW r \in Requests, NEW kids \in SUBSET Events, SeriesWrites(r, kids)
      PROVE  SoldIsHonest'
  <2> DEFINE family == kids \cup {req[r].about}
  <2>1. /\ sold' = [e \in Events |-> IF e \in family THEN 0 ELSE sold[e]]
        /\ UNCHANGED <<made, edited>>
    BY <1>4 DEF SeriesWrites
  <2>2. \A e \in family : e \in Events /\ status[e] = "none"
    BY <1>4 DEF SeriesWrites, Unused
  <2> HIDE DEF family
  <2> QED BY <1>2, <2>1, <2>2
<1>5. ASSUME NEW r \in Requests, UpdateWrites(r) PROVE SoldIsHonest'
  <2> DEFINE e == req[r].event
             n == req[r].sold
  <2>1. e \in Events
    BY <1>5, EventOf DEF UpdateWrites, Holding
  <2>2. /\ sold' = [sold EXCEPT ![e] = n] /\ made' = made
        /\ edited' = IF n = sold[e] THEN edited ELSE edited \cup {e}
    BY <1>5 DEF UpdateWrites
  <2> HIDE DEF e, n
  <2> QED BY <1>a, <2>1, <2>2
<1>6. ASSUME NEW e \in Events, RemoveTicketType(e) PROVE SoldIsHonest'
  <2>1. sold[e] = 0 /\ sold' = [sold EXCEPT ![e] = Absent] /\ UNCHANGED <<made, edited>>
    BY <1>6 DEF RemoveTicketType, IsUnsold
  <2> QED BY <1>a, <1>b, <2>1
<1>7. ASSUME NEW r \in Requests, SaleEnds(r) PROVE SoldIsHonest'
  <2> DEFINE e == req[r].event
  <2>1. e \in Events
    BY <1>7, EventOf DEF SaleEnds, Holding
  <2>2. /\ made' = [made EXCEPT ![e] = made[e] + 1]
        /\ sold' = [sold EXCEPT ![e] = IF sold[e] = Absent THEN Absent ELSE sold[e] + 1]
        /\ edited' = IF sold[e] = Absent THEN edited \cup {e} ELSE edited
    BY <1>7, <1>a, <2>1 DEF SaleEnds
  <2> HIDE DEF e
  <2>3. sold[e] # Absent => sold[e] + 1 # Absent
    BY <1>a, <2>1, Numbers DEF Absent
  <2>4. ASSUME NEW f \in Events \ edited'
        PROVE  made'[f] = IF sold'[f] = Absent THEN 0 ELSE sold'[f]
    <3>1. CASE f # e
      BY <1>a, <2>1, <2>2, <3>1
    <3>2. CASE f = e
      <4>1. sold[e] # Absent /\ e \notin edited
        BY <2>2, <2>4, <3>2
      <4>2. made[e] = sold[e]
        BY <2>1, <4>1
      <4>3. made'[e] = made[e] + 1 /\ sold'[e] = sold[e] + 1
        BY <1>a, <2>1, <2>2, <4>1
      <4> QED BY <2>3, <3>2, <4>1, <4>2, <4>3
    <3> QED BY <3>1, <3>2
  <2> QED BY <2>4
<1>8. ASSUME NEW r \in Requests,
             \/ \E e \in Events : \/ CreateReads(r, e) \/ RestoreReads(r, e)
                                  \/ OpenForm(r, e) \/ SaleStarts(r, e)
             \/ \E e \in Events, n \in Int : SeriesReads(r, e, n)
             \/ \E e \in Events, to \in Status : StatusReads(r, e, to)
             \/ \E to \in Status \cup {"same"} : UpdateReads(r, to)
             \/ \E op \in {"plan", "schedule"}, p \in 0..TopPlan, n \in Limits :
                  DowngradeReads(r, op, p, n)
             \/ StatusWrites(r) \/ RestoreWrites(r)
             \/ DowngradeWrites(r) \/ ScheduleWrites(r) \/ Stop(r)
      PROVE  SoldIsHonest'
  <2>1. UNCHANGED <<sold, made, edited>>
    BY <1>8 DEF CreateReads, RestoreReads, OpenForm, SaleStarts, SeriesReads, StatusReads,
       UpdateReads, DowngradeReads, StatusWrites, RestoreWrites, DowngradeWrites,
       ScheduleWrites, Stop, salesVars
  <2> QED BY <1>1, <2>1
<1>9. ASSUME \/ \E e \in Events : \/ PublishSeries(e) \/ CancelSeries(e)
                                  \/ RestoreWindowEnds(e)
             \/ \E p \in 0..TopPlan, n \in Limits : Upgrade(p, n) \/ PatchOrganization(p, n)
             \/ \E p \in OwnPlan..TopPlan, n \in Limits : AssignPlan(p, n)
             \/ (\E n \in Limits : Rollover(n)) \/ RevertChange \/ UNCHANGED vars
      PROVE  SoldIsHonest'
  <2>1. UNCHANGED <<sold, made, edited>>
    BY <1>9 DEF PublishSeries, CancelSeries, RestoreWindowEnds, Upgrade, AssignPlan,
       PatchOrganization, Rollover, RevertChange, vars, salesVars
  <2> QED BY <1>1, <2>1
<1> QED
  BY StepCases, <1>3, <1>4, <1>5, <1>6, <1>7, <1>8, <1>9

\* SoldIsHonest for any events, operations and numbers of tickets.
THEOREM SalesAreCounted == Spec => []SoldIsHonest
<1>1. Init => SoldIsHonest
  BY DEF Init, SoldIsHonest
<1> QED BY <1>1, Typed, SoldStep, PTL DEF Spec

-----------------------------------------------------------------------------
(* The limit of the plan.                                                  *)

\* Within the plan in force and, under the freeze, within its number or what
\* the scheduled plan was checked against.
Within ==
  /\ Count <= limit
  /\ FreezeLimit # None => Count <= FreezeLimit \/ Count <= fits

\* What a check found before its operation writes.
Admitted ==
  \A r \in Requests :
    /\ req[r].op \in {"create", "restore"} =>
         /\ req[r].count < req[r].limit
         /\ req[r].freeze # None => req[r].count < req[r].freeze
    /\ req[r].op \in {"plan", "schedule"} => req[r].count <= req[r].fits

LEMMA AdmittedStep == TypeOK /\ Admitted /\ [Next]_vars => Admitted'
<1> SUFFICES ASSUME TypeOK, Admitted, [Next]_vars PROVE Admitted'
  OBVIOUS
<1>a. ASSUME NEW r \in Requests, NEW t, GoTo(r, t),
             t.op \in {"create", "restore"} =>
               t.count < t.limit /\ (t.freeze # None => t.count < t.freeze),
             t.op \in {"plan", "schedule"} => t.count <= t.fits
      PROVE  Admitted'
  <2>1. req'[r] = t /\ \A s \in Requests \ {r} : req'[s] = req[s]
    BY <1>a DEF GoTo, TypeOK
  <2> QED BY <1>a, <2>1 DEF Admitted
<1>b. ASSUME NEW r \in Requests, Done(r) PROVE Admitted'
  <2>1. Over.op \notin {"create", "restore", "plan", "schedule"}
    BY DEF Over
  <2> QED BY <1>a, <1>b, <2>1 DEF Done
<1>1. ASSUME NEW r \in Requests, NEW e \in Events, CreateReads(r, e) \/ RestoreReads(r, e)
      PROVE  Admitted'
  <2>1. PICK op \in {"create", "restore"} : GoTo(r, Checked(op, e)) /\ HasRoom(0)
    BY <1>1 DEF CreateReads, RestoreReads
  <2> DEFINE t == Checked(op, e)
  <2>2. Count + 0 = Count
    BY CountType
  <2>3. /\ t.op = op /\ t.count < t.limit
        /\ t.freeze # None => t.count < t.freeze
    BY <2>1, <2>2 DEF Checked, HasRoom
  <2>4. GoTo(r, t)
    BY <2>1
  <2> HIDE DEF t
  <2> QED BY <1>a, <2>3, <2>4
<1>2. ASSUME NEW r \in Requests, NEW op \in {"plan", "schedule"}, NEW p \in 0..TopPlan,
             NEW n \in Limits, DowngradeReads(r, op, p, n)
      PROVE  Admitted'
  <2> DEFINE t == [op |-> op, about |-> p, fits |-> n, count |-> Count]
  <2>1. GoTo(r, t) /\ t.op = op /\ t.count <= t.fits
    BY <1>2 DEF DowngradeReads
  <2> HIDE DEF t
  <2> QED BY <1>a, <2>1
<1>3. ASSUME NEW r \in Requests,
             \/ \E e \in Events : OpenForm(r, e) \/ SaleStarts(r, e)
             \/ \E e \in Events, n \in Int : SeriesReads(r, e, n)
             \/ \E e \in Events, to \in Status : StatusReads(r, e, to)
             \/ \E to \in Status \cup {"same"} : UpdateReads(r, to)
      PROVE  Admitted'
  <2>a. ASSUME NEW t, GoTo(r, t),
               t.op \in {"form", "sale", "series", "write", "update"}
        PROVE  Admitted'
    BY <1>a, <2>a
  <2>1. ASSUME NEW e \in Events, OpenForm(r, e) PROVE Admitted'
    <3> DEFINE t == [op |-> "form", event |-> e, sold |-> sold[e]]
    <3>1. GoTo(r, t) /\ t.op = "form"
      BY <2>1 DEF OpenForm
    <3> HIDE DEF t
    <3> QED BY <2>a, <3>1
  <2>2. ASSUME NEW e \in Events, SaleStarts(r, e) PROVE Admitted'
    <3> DEFINE t == [op |-> "sale", event |-> e]
    <3>1. GoTo(r, t) /\ t.op = "sale"
      BY <2>2 DEF SaleStarts
    <3> HIDE DEF t
    <3> QED BY <2>a, <3>1
  <2>3. ASSUME NEW e \in Events, NEW n \in Int, SeriesReads(r, e, n) PROVE Admitted'
    <3> DEFINE t == Checked("series", e)
    <3>1. GoTo(r, t) /\ t.op = "series"
      BY <2>3 DEF SeriesReads, Checked
    <3> HIDE DEF t
    <3> QED BY <2>a, <3>1
  <2>4. ASSUME NEW e \in Events, NEW to \in Status, StatusReads(r, e, to) PROVE Admitted'
    <3> DEFINE t == [op |-> "write", event |-> e, to |-> to]
    <3>1. GoTo(r, t) /\ t.op = "write"
      BY <2>4 DEF StatusReads
    <3> HIDE DEF t
    <3> QED BY <2>a, <3>1
  <2>5. ASSUME NEW to \in Status \cup {"same"}, UpdateReads(r, to) PROVE Admitted'
    <3> DEFINE e == req[r].event
               t == [op |-> "update", event |-> e, to |-> to, sold |-> req[r].sold]
    <3>1. GoTo(r, t) /\ t.op = "update"
      BY <2>5 DEF UpdateReads
    <3> HIDE DEF t
    <3> QED BY <2>a, <3>1
  <2> QED BY <1>3, <2>1, <2>2, <2>3, <2>4, <2>5
<1>4. ASSUME NEW r \in Requests,
             \/ \E s \in Status : CreateWrites(r, s)
             \/ \E kids \in SUBSET Events : SeriesWrites(r, kids)
             \/ StatusWrites(r) \/ RestoreWrites(r) \/ UpdateWrites(r)
             \/ SaleEnds(r) \/ DowngradeWrites(r) \/ ScheduleWrites(r) \/ Stop(r)
      PROVE  Admitted'
  <2>1. Done(r)
    BY <1>4 DEF CreateWrites, SeriesWrites, StatusWrites, RestoreWrites,
       UpdateWrites, SaleEnds, DowngradeWrites, ScheduleWrites, Stop
  <2> QED BY <1>b, <2>1
<1>5. ASSUME \/ \E e \in Events : \/ PublishSeries(e) \/ CancelSeries(e)
                                  \/ RestoreWindowEnds(e) \/ RemoveTicketType(e)
             \/ \E p \in 0..TopPlan, n \in Limits : Upgrade(p, n) \/ PatchOrganization(p, n)
             \/ \E p \in OwnPlan..TopPlan, n \in Limits : AssignPlan(p, n)
             \/ (\E n \in Limits : Rollover(n)) \/ RevertChange \/ UNCHANGED vars
      PROVE  Admitted'
  <2>1. UNCHANGED req
    BY <1>5 DEF PublishSeries, CancelSeries, RestoreWindowEnds, RemoveTicketType,
       Upgrade, AssignPlan, PatchOrganization, Rollover, RevertChange, vars
  <2> QED BY <2>1 DEF Admitted
<1> QED
  BY StepCases, <1>1, <1>2, <1>3, <1>4, <1>5

\* What the arithmetic is about.
LEMMA RoomTypes ==
  ASSUME TypeOK
  PROVE  /\ Count \in Nat /\ limit \in Nat /\ fits \in Nat
         /\ FreezeLimit # None => FreezeLimit \in Nat
BY CountType, FreezeType, Numbers DEF TypeOK

\* A step that makes one event active, as a check that is still so allowed.
LEMMA OneMore ==
  ASSUME TypeOK, TypeOK', NEW r \in Requests, NEW e \in Events,
         req[r].op \in {"create", "restore"}, Admitted, StillSo(req[r]),
         ActiveEvents' \subseteq ActiveEvents \cup {e},
         UNCHANGED planVars
  PROVE  Within'
<1>1. IsFiniteSet(ActiveEvents) /\ Count \in Nat /\ IsFiniteSet(ActiveEvents \cup {e})
  BY CountType, Counting
<1>2. Cardinality(ActiveEvents \cup {e}) <= Count + 1
  BY <1>1, FS_AddElement DEF Count
<1>3. Count' <= Cardinality(ActiveEvents \cup {e})
  BY <1>1, FS_Subset DEF Count
<1>4. Count' \in Nat /\ Cardinality(ActiveEvents \cup {e}) \in Nat
  BY <1>1, FS_CardinalityType, FS_Subset DEF Count
<1>5. /\ Count < limit
      /\ FreezeLimit # None => Count < FreezeLimit
  BY DEF Admitted, StillSo
<1>6. limit' = limit /\ FreezeLimit' = FreezeLimit
  BY DEF planVars, FreezeLimit
<1> QED BY <1>1, <1>2, <1>3, <1>4, <1>5, <1>6, RoomTypes DEF Within

\* A step that makes no event active and leaves the plans alone.
LEMMA NoMore ==
  ASSUME TypeOK, TypeOK', Within, ActiveEvents' \subseteq ActiveEvents, UNCHANGED planVars
  PROVE  Within'
<1>1. IsFiniteSet(ActiveEvents) /\ Count \in Nat
  BY CountType, Counting
<1>2. Count' <= Count /\ Count' \in Nat
  BY <1>1, FS_Subset, FS_CardinalityType DEF Count
<1>3. limit' = limit /\ fits' = fits /\ FreezeLimit' = FreezeLimit
  BY DEF planVars, FreezeLimit
<1> QED BY <1>1, <1>2, <1>3, RoomTypes DEF Within

\* A step that leaves the events alone, and after which nothing is frozen.
LEMMA NewPlan ==
  ASSUME TypeOK, UNCHANGED eventVars, Count <= limit', target' \in {None, plan'}
  PROVE  Within'
<1>1. Count' = Count
  BY DEF eventVars, Count, ActiveEvents
<1>2. FreezeLimit' = None
  BY DEF FreezeLimit
<1> QED BY <1>1, <1>2 DEF Within

RoomInv == ~loose => Within

LEMMA RoomStep ==
  ASSUME TypeOK, TypeOK', Admitted, RoomInv, [Next]_vars
  PROVE  RoomInv'
<1>a. ASSUME ActiveEvents' \subseteq ActiveEvents, UNCHANGED planVars, ~loose' => ~loose
      PROVE  RoomInv'
  BY <1>a, NoMore DEF RoomInv
<1>b. ASSUME UNCHANGED <<status, planVars, loose>> PROVE RoomInv'
  <2>1. ActiveEvents' \subseteq ActiveEvents
    BY <1>b DEF ActiveEvents
  <2> QED BY <1>a, <1>b, <2>1
<1>1. ASSUME NEW r \in Requests, NEW s \in Status, CreateWrites(r, s) PROVE RoomInv'
  <2> DEFINE e == req[r].about
  <2>1. /\ req[r].op = "create" /\ e \in Events
        /\ loose' = (loose \/ ~StillSo(req[r])) /\ UNCHANGED planVars
    BY <1>1 DEF CreateWrites, Unused
  <2>2. ActiveEvents' \subseteq ActiveEvents \cup {e}
    BY <1>1 DEF CreateWrites, ActiveEvents, TypeOK
  <2> HIDE DEF e
  <2> QED BY <2>1, <2>2, OneMore DEF RoomInv
<1>2. ASSUME NEW r \in Requests, RestoreWrites(r) PROVE RoomInv'
  <2> DEFINE e == req[r].about
  <2>1. /\ req[r].op = "restore" /\ e \in Events
        /\ loose' = (loose \/ ~StillSo(req[r])) /\ UNCHANGED planVars
    BY <1>2, TaskOf DEF RestoreWrites, CheckedTask
  <2>2. ActiveEvents' \subseteq ActiveEvents \cup {e}
    BY <1>2 DEF RestoreWrites, ActiveEvents, TypeOK
  <2> HIDE DEF e
  <2> QED BY <2>1, <2>2, OneMore DEF RoomInv
<1>3. ASSUME NEW r \in Requests, NEW kids \in SUBSET Events, SeriesWrites(r, kids),
             ~loose'
      PROVE  Within'
  <2> DEFINE family == kids \cup {req[r].about}
             n == Cardinality(family)
             both == Cardinality(ActiveEvents \cup family)
  <2>1. /\ family \in SUBSET Events /\ StillSo(req[r]) /\ UNCHANGED planVars
        /\ req[r].count + n < req[r].limit
        /\ req[r].freeze # None => req[r].count + n < req[r].freeze
    BY <1>3 DEF SeriesWrites, Unused
  <2>2. ActiveEvents' \subseteq ActiveEvents \cup family
    BY <1>3 DEF SeriesWrites, ActiveEvents
  <2> HIDE DEF family
  <2>3. IsFiniteSet(ActiveEvents) /\ IsFiniteSet(family) /\ n \in Nat /\ Count \in Nat
    BY <2>1, CountType, Counting
  <2>4. IsFiniteSet(ActiveEvents \cup family) /\ both \in Nat
    BY <2>1, CountType, Counting
  <2>5. both = Count + n - Cardinality(ActiveEvents \cap family)
    BY <2>3, FS_Union DEF Count
  <2>6. Cardinality(ActiveEvents \cap family) \in Nat
    BY <2>3, FS_Intersection, FS_CardinalityType
  <2>7. Count' <= both /\ Count' \in Nat
    BY <2>2, <2>4, FS_Subset, FS_CardinalityType DEF Count
  <2> HIDE DEF n, both
  <2>8. Count' <= Count + n
    BY <2>3, <2>4, <2>5, <2>6, <2>7
  <2>9. Count + n < limit /\ (FreezeLimit # None => Count + n < FreezeLimit)
    BY <2>1 DEF StillSo
  <2>10. limit' = limit /\ FreezeLimit' = FreezeLimit
    BY <2>1 DEF planVars, FreezeLimit
  <2> QED BY <2>3, <2>7, <2>8, <2>9, <2>10, RoomTypes DEF Within
<1>4. ASSUME NEW e \in Events, NEW to \in Status, SetStatus(e, to), UNCHANGED planVars
      PROVE  RoomInv'
  <2>1. CASE loose'
    BY <2>1 DEF RoomInv
  <2>2. CASE ~loose'
    <3>1. ~loose /\ (to \in Active => status[e] \in Active)
      BY <1>4, <2>2 DEF SetStatus
    <3>2. ActiveEvents' \subseteq ActiveEvents
      BY <1>4, <3>1 DEF SetStatus, ActiveEvents, TypeOK
    <3> QED BY <1>4, <1>a, <3>1, <3>2
  <2> QED BY <2>1, <2>2
<1>5. ASSUME NEW r \in Requests, StatusWrites(r) PROVE RoomInv'
  <2> DEFINE t == req[r]
  <2>1. t.event \in Events /\ t.to \in Status
    BY <1>5, TaskOf DEF StatusWrites, StatusTask
  <2>2. SetStatus(t.event, t.to) /\ UNCHANGED planVars
    BY <1>5 DEF StatusWrites
  <2> HIDE DEF t
  <2> QED BY <1>4, <2>1, <2>2
<1>6. ASSUME NEW r \in Requests, UpdateWrites(r) PROVE RoomInv'
  <2> DEFINE t == req[r]
  <2>1. t.event \in Events /\ t.to \in Status \cup {"same"}
    BY <1>6, TaskOf DEF UpdateWrites, UpdateTask
  <2>2. /\ IF t.to = "same" THEN UNCHANGED <<status, loose>> ELSE SetStatus(t.event, t.to)
        /\ UNCHANGED planVars
    BY <1>6 DEF UpdateWrites
  <2> HIDE DEF t
  <2> QED BY <1>4, <1>b, <2>1, <2>2
<1>7. ASSUME NEW p \in Events, PublishSeries(p), ~loose' PROVE Within'
  <2>1. ~loose /\ UNCHANGED planVars
    BY <1>7 DEF PublishSeries
  <2>2. ActiveEvents' \subseteq ActiveEvents
    BY <1>7 DEF PublishSeries, ActiveEvents, TypeOK
  <2> QED BY <1>7, <1>a, <2>1, <2>2 DEF RoomInv
<1>8. ASSUME NEW p \in Events, CancelSeries(p) PROVE RoomInv'
  <2>1. UNCHANGED <<loose, planVars>>
    BY <1>8 DEF CancelSeries
  <2>2. ActiveEvents' \subseteq ActiveEvents
    BY <1>8 DEF CancelSeries, ActiveEvents, Active
  <2> QED BY <1>a, <2>1, <2>2
<1>9. ASSUME NEW p \in OwnPlan..TopPlan, NEW n \in Limits,
             Upgrade(p, n) \/ AssignPlan(p, n), ~loose'
      PROVE  Within'
  <2>1. /\ UNCHANGED eventVars /\ limit' = n /\ target' \in {None, plan'}
        /\ ~(Count > n)
    BY <1>9 DEF Upgrade, AssignPlan, SetPlan
  <2>2. Count <= n
    BY <2>1, RoomTypes, Numbers
  <2> QED BY <2>1, <2>2, NewPlan
<1>10. ASSUME NEW n \in Limits, Rollover(n), ~loose' PROVE Within'
  <2>1. /\ ~loose /\ Covers(n) /\ UNCHANGED eventVars /\ limit' = n /\ target' = None
    BY <1>10 DEF Rollover, SetPlan
  <2>2. Within
    BY <2>1 DEF RoomInv
  <2>3. Count <= n
    BY <2>1, <2>2, RoomTypes, Numbers DEF Within, Covers
  <2> QED BY <2>1, <2>3, NewPlan
<1>11. ASSUME RevertChange, ~loose' PROVE Within'
  <2>1. ~loose /\ UNCHANGED eventVars /\ limit' = limit /\ target' = None
    BY <1>11 DEF RevertChange
  <2> QED BY <2>1, NewPlan DEF RoomInv, Within
<1>12. ASSUME NEW r \in Requests, DowngradeWrites(r), ~loose' PROVE Within'
  <2>1. /\ ~loose /\ req[r].count = Count /\ UNCHANGED eventVars
        /\ limit' = req[r].fits /\ target' = None /\ req[r].op = "plan"
    BY <1>12 DEF DowngradeWrites, SetPlan
  <2>2. Count <= limit'
    BY <2>1 DEF Admitted
  <2> QED BY <2>1, <2>2, NewPlan
<1>13. ASSUME NEW r \in Requests, ScheduleWrites(r), ~loose' PROVE Within'
  <2>1. /\ ~loose /\ req[r].count = Count /\ UNCHANGED eventVars /\ limit' = limit
        /\ fits' = req[r].fits /\ req[r].op = "schedule"
    BY <1>13 DEF ScheduleWrites
  <2>2. Count' = Count
    BY <2>1 DEF eventVars, Count, ActiveEvents
  <2>3. Count <= fits'
    BY <2>1 DEF Admitted
  <2> QED BY <2>1, <2>2, <2>3 DEF Within, RoomInv
<1>14. ASSUME NEW p \in 0..TopPlan, NEW n \in Limits, PatchOrganization(p, n), ~loose'
       PROVE  Within'
  <2>1. /\ ~loose /\ ~(Count > n) /\ ~(target = plan /\ p # plan) /\ UNCHANGED eventVars
        /\ plan' = p /\ limit' = n /\ target' = target /\ fits' = fits
    BY <1>14 DEF PatchOrganization, SetPlan
  <2>2. Count <= n
    BY <2>1, RoomTypes, Numbers
  <2>3. CASE target \in {None, p}
    BY <2>1, <2>2, <2>3, NewPlan
  <2>4. CASE target \notin {None, p}
    <3>1. FreezeLimit' = FreezeLimit
      BY <2>1, <2>4 DEF FreezeLimit
    <3>2. Count' = Count
      BY <2>1 DEF eventVars, Count, ActiveEvents
    <3> QED BY <2>1, <2>2, <3>1, <3>2 DEF Within, RoomInv
  <2> QED BY <2>3, <2>4
<1>15. ASSUME NEW r \in Requests,
             \/ \E e \in Events : \/ CreateReads(r, e) \/ RestoreReads(r, e)
                                  \/ OpenForm(r, e) \/ SaleStarts(r, e)
             \/ \E e \in Events, n \in Int : SeriesReads(r, e, n)
             \/ \E e \in Events, to \in Status : StatusReads(r, e, to)
             \/ \E to \in Status \cup {"same"} : UpdateReads(r, to)
             \/ \E op \in {"plan", "schedule"}, p \in 0..TopPlan, n \in Limits :
                  DowngradeReads(r, op, p, n)
             \/ SaleEnds(r) \/ Stop(r)
      PROVE  RoomInv'
  <2>1. UNCHANGED <<status, planVars, loose>>
    BY <1>15 DEF CreateReads, RestoreReads, OpenForm, SaleStarts, SeriesReads,
       StatusReads, UpdateReads, DowngradeReads, SaleEnds, Stop, eventVars
  <2> QED BY <1>b, <2>1
<1>16. ASSUME \/ \E e \in Events : RestoreWindowEnds(e) \/ RemoveTicketType(e)
              \/ UNCHANGED vars
       PROVE  RoomInv'
  <2>1. UNCHANGED <<status, planVars, loose>>
    BY <1>16 DEF RestoreWindowEnds, RemoveTicketType, vars, eventVars
  <2> QED BY <1>b, <2>1
<1>17. /\ \A r \in Requests, kids \in SUBSET Events : SeriesWrites(r, kids) => RoomInv'
       /\ \A p \in Events : PublishSeries(p) => RoomInv'
       /\ \A r \in Requests : DowngradeWrites(r) \/ ScheduleWrites(r) => RoomInv'
       /\ \A p \in OwnPlan..TopPlan, n \in Limits : Upgrade(p, n) \/ AssignPlan(p, n) => RoomInv'
       /\ \A p \in 0..TopPlan, n \in Limits : PatchOrganization(p, n) => RoomInv'
       /\ \A n \in Limits : Rollover(n) => RoomInv'
       /\ RevertChange => RoomInv'
  BY <1>3, <1>7, <1>9, <1>10, <1>11, <1>12, <1>13, <1>14 DEF RoomInv
<1>18. \A p \in 0..TopPlan, n \in Limits : Upgrade(p, n) => RoomInv'
  BY <1>17, Numbers
<1> QED
  BY StepCases, <1>1, <1>2, <1>5, <1>6, <1>8, <1>15, <1>16, <1>17, <1>18

LEMMA InitRoom == Init => Admitted /\ RoomInv
<1> SUFFICES ASSUME Init PROVE Admitted /\ RoomInv
  OBVIOUS
<1>1. Admitted
  BY DEF Init, Admitted, New
<1>2. ActiveEvents = {}
  BY DEF Init, ActiveEvents, Active
<1>3. Count = 0 /\ FreezeLimit = None /\ limit \in Nat
  BY <1>2, FS_EmptySet, Numbers DEF Count, Init, FreezeLimit
<1> QED BY <1>1, <1>3 DEF RoomInv, Within

\* OverPlanHasACause for any events, operations and limits.
THEOREM PlanHolds == Spec => []OverPlanHasACause
<1>1. TypeOK => (RoomInv => OverPlanHasACause)
  <2> SUFFICES ASSUME TypeOK, RoomInv PROVE OverPlanHasACause
    OBVIOUS
  <2> QED BY RoomTypes DEF RoomInv, Within, OverPlanHasACause
<1>2. TypeOK /\ TypeOK' /\ Admitted /\ RoomInv /\ [Next]_vars => RoomInv'
  BY RoomStep
<1> QED BY <1>1, <1>2, InitRoom, AdmittedStep, Typed, PTL DEF Spec
===============================================================================
