-------------------------- MODULE SubscriptionsProofs --------------------------
(***************************************************************************)
(* Proofs about Subscriptions for every number of plans, operations and    *)
(* documents.                                                              *)
(*                                                                         *)
(* That the copies of the plan agree between operations needs to be known  *)
(* inside them: at most one operation is half done, the organisation has   *)
(* the plan it asked for, and the document it will write is the only one.  *)
(* A PATCH spoils all of that but the two counts, until the next change of *)
(* plan commits.                                                           *)
(***************************************************************************)
EXTENDS Subscriptions, TLAPS

\* The documents that the operations hold on to are there.
Known ==
  \A r \in Requests :
    /\ req[r].op \in {"check", "schedule", "revert", "settle"} =>
         Exists(req[r].doc)
    /\ req[r].op \in {"upgrade", "upgraded", "place"} /\ ~req[r].isNew =>
         Exists(req[r].doc)

OneDoc == \A d, e \in Docs : Exists(d) /\ Exists(e) => d = e

OneTorn == \A r, s \in Requests : Torn(r) /\ Torn(s) => r = s

Copies == (\A d \in Docs : Exists(d) => sub[d].plan = plan) /\ (NoneExists => plan = 0)

\* What a half-done operation still knows.
Holds(r) ==
  /\ plan = req[r].to /\ eff = plan
  /\ req[r].op = "refresh" => Copies
  /\ req[r].op = "flipped" => ~NoneExists

NoneTorn == \A r \in Requests : ~Torn(r)

\* Nothing is half done and the copies agree, or one operation is, alone.
CalmBody ==
  /\ OneDoc /\ OneTorn
  /\ \A r \in Requests : Torn(r) => Holds(r)
  /\ NoneTorn => Copies /\ eff = plan

Calm == ~raced => OneDoc /\ OneTorn /\ (~patched => CalmBody)

IInv == TypeOK /\ Known /\ Calm

\* A task is known by its operation, a document by not being NoSub.
LEMMA TaskOf ==
  ASSUME TypeOK, NEW r \in Requests
  PROVE  /\ req[r].op \in {"upgrade", "upgraded"} => req[r] \in UpgradeTask
         /\ req[r].op \in {"check", "schedule"} => req[r] \in ScheduleTask
         /\ req[r].op \in {"flip", "flipped", "assigned", "refresh"} => req[r] \in FlipTask
         /\ req[r].op = "settle" => req[r] \in SettleTask
         /\ req[r].op = "place" => req[r] \in PlaceTask
         /\ req[r].op = "revert" => req[r] \in RevertTask
<1>1. req[r] \in Task
  BY DEF TypeOK
<1> QED
  BY <1>1 DEF Task, New, Over, UpgradeTask, ScheduleTask, FlipTask, SettleTask,
              PlaceTask, RevertTask

LEMMA DocOf ==
  /\ \A s \in Sub : s # NoSub
  /\ TypeOK => \A d \in Docs : sub[d] # NoSub => sub[d] \in Sub
BY DEF Sub, NoSub, Status, TypeOK

LEMMA PlanSets == /\ 0 \in Plans /\ Paid \subseteq Plans /\ Plans \subseteq Nat
                  /\ \A p \in Paid : p > 0
BY PlanAssumption DEF Plans, Paid

\* The documents an action builds.
LEMMA Built ==
  /\ \A t \in UpgradeTask : Upgraded(t) \in Sub
  /\ \A s \in Sub, p \in Plans :
       /\ Flipped(s, p) \in Sub /\ Flipped(s, p).plan = p
       /\ Flipped(s, p).change = NoChange
  /\ \A s \in Sub : /\ Passed(s) \in Sub /\ Passed(s).plan = s.plan
                    /\ Passed(s).change.reason = s.change.reason
                    /\ s.change # NoChange => Passed(s).change.to = s.change.to
  /\ Passed(NoSub) = NoSub
<1> USE DEF Sub, Change, NoChange, Dates, Status
<1>1. \A t \in UpgradeTask : Upgraded(t) \in Sub
  BY PlanSets DEF UpgradeTask, Upgraded
<1>2. \A s \in Sub, p \in Plans :
       /\ Flipped(s, p) \in Sub /\ Flipped(s, p).plan = p
       /\ Flipped(s, p).change = NoChange
  BY DEF Flipped
<1>3. ASSUME NEW s \in Sub
      PROVE  /\ Passed(s) \in Sub /\ Passed(s).plan = s.plan
             /\ Passed(s).change.reason = s.change.reason
             /\ s.change # NoChange => Passed(s).change.to = s.change.to
  <2>1. s # NoSub
    BY DocOf
  <2>2. CASE s.change = NoChange
    BY <2>1, <2>2 DEF Passed
  <2>3. CASE s.change # NoChange
    BY <2>1, <2>3 DEF Passed
  <2> QED BY <2>2, <2>3
<1>4. Passed(NoSub) = NoSub
  BY DEF Passed
<1> QED BY <1>1, <1>2, <1>3, <1>4

\* The disjuncts of a step, one name for the proofs to split on.
LEMMA StepCases ==
  ASSUME [Next]_vars
  PROVE  \/ \E r \in Requests, to \in Paid, d \in Docs : UpgradeReads(r, to, d)
         \/ \E r \in Requests : UpgradeCommits(r)
         \/ \E r \in Requests : UpgradeWrites(r)
         \/ \E r \in Requests, to \in Plans, i \in BOOLEAN : DowngradeReads(r, to, i)
         \/ \E r \in Requests : ScheduleChecks(r)
         \/ \E r \in Requests : ScheduleWrites(r)
         \/ \E r \in Requests : FlipCommits(r)
         \/ \E r \in Requests : FlipFinds(r)
         \/ \E r \in Requests : FlipWrites(r)
         \/ \E r \in Requests : Refresh(r)
         \/ \E r \in Requests, d \in Docs : RevertReads(r, d)
         \/ \E r \in Requests : RevertWrites(r)
         \/ \E r \in Requests, to \in Plans : AssignCommits(r, to)
         \/ \E r \in Requests, d \in Docs : AssignFinds(r, d)
         \/ \E r \in Requests : AssignWrites(r)
         \/ \E r \in Requests : Stop(r)
         \/ \E d \in Docs : MarkPastDue(d)
         \/ \E d \in Docs : Rollover(d)
         \/ \E p \in Plans, e \in Plans \cup {OwnLimits} : UpdateOrganization(p, e)
         \/ PeriodEnds
         \/ UNCHANGED vars
BY DEF Next

LEMMA Moves ==
  ASSUME TypeOK, NEW r \in Requests, NEW t \in Task, GoTo(r, t)
  PROVE  /\ req' \in [Requests -> Task] /\ req'[r] = t
         /\ \A s \in Requests \ {r} : req'[s] = req[s]
BY DEF TypeOK, GoTo

\* Documents are never deleted.
Persist == \A d \in Docs : Exists(d) => sub'[d] # NoSub

\* What a task needs to be known.
Fits(t) ==
  /\ t.op \in {"check", "schedule", "revert", "settle"} => sub'[t.doc] # NoSub
  /\ t.op \in {"upgrade", "upgraded", "place"} /\ ~t.isNew => sub'[t.doc] # NoSub

LEMMA KnownStep ==
  ASSUME TypeOK, Known, Persist, NEW r \in Requests, NEW t \in Task, GoTo(r, t),
         Fits(t)
  PROVE  Known'
<1>1. \A s \in Requests : req[s].op \in {"check", "schedule", "revert", "settle",
                                         "upgrade", "upgraded", "place"} => req[s].doc \in Docs
  BY TaskOf DEF UpgradeTask, ScheduleTask, SettleTask, PlaceTask, RevertTask
<1>2. \A s \in Requests : Fits(req[s])
  BY <1>1 DEF Known, Persist, Fits, Exists
<1>3. \A s \in Requests : Fits(req'[s])
  BY <1>2, Moves
<1> QED BY <1>3 DEF Known, Fits, Exists

LEMMA TypeKnownStep == TypeOK /\ Known /\ [Next]_vars => TypeOK' /\ Known'
<1> SUFFICES ASSUME TypeOK, Known, [Next]_vars PROVE TypeOK' /\ Known'
  OBVIOUS
<1>a. /\ UpgradeTask \subseteq Task /\ ScheduleTask \subseteq Task /\ FlipTask \subseteq Task
      /\ SettleTask \subseteq Task /\ PlaceTask \subseteq Task /\ RevertTask \subseteq Task
      /\ New \in Task /\ Over \in Task
  BY DEF Task
<1>b. New.op = "new" /\ Over.op = "over"
  BY DEF New, Over
<1>c. sub' = sub => Persist
  BY DEF Persist, Exists
<1>d. ASSUME NEW d \in Docs, NEW s \in Sub, sub' = [sub EXCEPT ![d] = s]
      PROVE  /\ Persist /\ sub' \in [Docs -> Sub \cup {NoSub}] /\ sub'[d] # NoSub
  BY <1>d, DocOf DEF TypeOK, Persist, Exists
<1>1. ASSUME NEW r \in Requests, NEW to \in Paid, NEW d \in Docs, UpgradeReads(r, to, d)
      PROVE  TypeOK' /\ Known'
  <2> DEFINE t == [op |-> "upgrade", to |-> to, doc |-> d, isNew |-> ~Exists(d),
                   trial |-> StartsTrial(d, to)]
  <2>1. StartsTrial(d, to) \in BOOLEAN /\ Exists(d) \in BOOLEAN
    BY DEF StartsTrial, Exists
  <2>2. t \in UpgradeTask
    BY <2>1 DEF UpgradeTask
  <2>3. GoTo(r, t) /\ UNCHANGED <<plan, eff, sub, raced, patched>>
    BY <1>1 DEF UpgradeReads
  <2>4. Fits(t)
    BY <2>3 DEF Fits, Exists
  <2> HIDE DEF t
  <2>5. TypeOK'
    BY <1>a, <2>2, <2>3, Moves DEF TypeOK
  <2> QED BY <1>a, <1>c, <2>2, <2>3, <2>4, <2>5, KnownStep
<1>2. ASSUME NEW r \in Requests, UpgradeCommits(r) PROVE TypeOK' /\ Known'
  <2> DEFINE t == [req[r] EXCEPT !.op = "upgraded"]
  <2>1. req[r] \in UpgradeTask
    BY <1>2, TaskOf DEF UpgradeCommits
  <2>2. t \in UpgradeTask /\ t.doc = req[r].doc /\ t.isNew = req[r].isNew
        /\ t.op = "upgraded" /\ req[r].to \in Plans
    BY <2>1, PlanSets DEF UpgradeTask
  <2>3. GoTo(r, t) /\ UNCHANGED sub /\ SetPlan(req[r].to)
        /\ raced' = (raced \/ Meets(r)) /\ patched' = FALSE
    BY <1>2 DEF UpgradeCommits
  <2>4. Fits(t)
    BY <1>2, <2>2, <2>3 DEF Fits, Exists, UpgradeCommits, Known
  <2> HIDE DEF t
  <2>5. TypeOK'
    BY <1>a, <2>2, <2>3, Moves DEF TypeOK, SetPlan
  <2> QED BY <1>a, <1>c, <2>2, <2>3, <2>4, <2>5, KnownStep
<1>3. ASSUME NEW r \in Requests, UpgradeWrites(r) PROVE TypeOK' /\ Known'
  <2> DEFINE t == [op |-> "refresh", to |-> req[r].to]
  <2>1. req[r] \in UpgradeTask /\ req[r].doc \in Docs /\ req[r].to \in Paid /\ req[r].trial \in BOOLEAN
    BY <1>3, TaskOf DEF UpgradeWrites, UpgradeTask
  <2>2. t \in FlipTask /\ t.op = "refresh"
    BY <2>1, PlanSets DEF FlipTask
  <2>3. GoTo(r, t) /\ UNCHANGED <<plan, eff, patched>>
        /\ sub' = [sub EXCEPT ![req[r].doc] = Upgraded(req[r])] /\ raced' \in BOOLEAN
    BY <1>3 DEF UpgradeWrites, Emit
  <2>4. Persist /\ sub' \in [Docs -> Sub \cup {NoSub}]
    BY <1>d, <2>1, <2>3, Built
  <2> HIDE DEF t
  <2>5. TypeOK'
    BY <1>a, <2>1, <2>2, <2>3, <2>4, Moves DEF TypeOK
  <2>6. Fits(t)
    BY <2>2 DEF Fits
  <2> QED BY <1>a, <2>2, <2>3, <2>4, <2>5, <2>6, KnownStep
<1>4. ASSUME NEW r \in Requests, NEW to \in Plans, NEW i \in BOOLEAN, DowngradeReads(r, to, i)
      PROVE  TypeOK' /\ Known'
  <2>1. PICK t \in ScheduleTask \cup FlipTask :
          GoTo(r, t) /\ Fits(t)
    <3>1. CASE \E d \in Docs : IsFound(d) /\ GoTo(r, [op |-> "check", to |-> to, doc |-> d, at |-> 1])
      <4>1. PICK d \in Docs : IsFound(d) /\ GoTo(r, [op |-> "check", to |-> to, doc |-> d, at |-> 1])
        BY <3>1
      <4>2. [op |-> "check", to |-> to, doc |-> d, at |-> 1] \in ScheduleTask
        BY DEF ScheduleTask, Dates
      <4>3. Fits([op |-> "check", to |-> to, doc |-> d, at |-> 1])
        BY <1>4, <4>1 DEF DowngradeReads, Fits, IsFound, Exists
      <4> QED BY <4>1, <4>2, <4>3
    <3>2. CASE GoTo(r, [op |-> "flip", to |-> to])
      <4>1. [op |-> "flip", to |-> to] \in FlipTask
        BY DEF FlipTask
      <4>2. Fits([op |-> "flip", to |-> to])
        BY DEF Fits
      <4> QED BY <3>2, <4>1, <4>2
    <3> QED BY <1>4, <3>1, <3>2 DEF DowngradeReads
  <2>2. UNCHANGED <<plan, eff, sub, raced, patched>>
    BY <1>4 DEF DowngradeReads
  <2>3. TypeOK'
    BY <1>a, <2>1, <2>2, Moves DEF TypeOK
  <2> QED BY <1>a, <1>c, <2>1, <2>2, <2>3, KnownStep
<1>5. ASSUME NEW r \in Requests, ScheduleChecks(r) PROVE TypeOK' /\ Known'
  <2> DEFINE t == [req[r] EXCEPT !.op = "schedule"]
  <2>1. req[r] \in ScheduleTask
    BY <1>5, TaskOf DEF ScheduleChecks
  <2>2. t \in ScheduleTask /\ t.doc = req[r].doc /\ t.op = "schedule"
    BY <2>1 DEF ScheduleTask
  <2>3. GoTo(r, t) /\ UNCHANGED <<plan, eff, sub, raced, patched>>
    BY <1>5 DEF ScheduleChecks
  <2>4. Fits(t)
    BY <1>5, <2>2, <2>3 DEF Fits, Exists, ScheduleChecks, Known
  <2> HIDE DEF t
  <2>5. TypeOK'
    BY <1>a, <2>2, <2>3, Moves DEF TypeOK
  <2> QED BY <1>a, <1>c, <2>2, <2>3, <2>4, <2>5, KnownStep
<1>6. ASSUME NEW r \in Requests, ScheduleWrites(r) PROVE TypeOK' /\ Known'
  <2> DEFINE c == [reason |-> "downgrade", to |-> req[r].to, at |-> req[r].at]
             s == [sub[req[r].doc] EXCEPT !.change = c]
  <2>1. /\ req[r].doc \in Docs /\ req[r].to \in Plans /\ req[r].at \in Dates
    BY <1>6, TaskOf DEF ScheduleWrites, ScheduleTask
  <2>2. sub[req[r].doc] \in Sub
    BY <1>6, <2>1, DocOf DEF ScheduleWrites, Known, Exists
  <2>3. s \in Sub
    BY <2>1, <2>2 DEF Sub, Change
  <2>4. sub' = [sub EXCEPT ![req[r].doc] = s] /\ GoTo(r, Over)
        /\ UNCHANGED <<plan, eff, raced, patched>>
    BY <1>6 DEF ScheduleWrites, Done
  <2> HIDE DEF s
  <2>5. Persist /\ sub' \in [Docs -> Sub \cup {NoSub}]
    BY <1>d, <2>1, <2>3, <2>4
  <2>6. TypeOK'
    BY <1>a, <2>4, <2>5, Moves DEF TypeOK
  <2>7. Fits(Over)
    BY DEF Fits, Over
  <2> QED BY <1>a, <2>4, <2>5, <2>6, <2>7, KnownStep
<1>7. ASSUME NEW r \in Requests, FlipCommits(r) PROVE TypeOK' /\ Known'
  <2> DEFINE t == [op |-> "flipped", to |-> req[r].to]
  <2>1. req[r].to \in Plans
    BY <1>7, TaskOf DEF FlipCommits, FlipTask
  <2>2. t \in FlipTask /\ t.op = "flipped"
    BY <2>1 DEF FlipTask
  <2>3. GoTo(r, t) /\ UNCHANGED sub /\ SetPlan(req[r].to)
        /\ raced' = (raced \/ Meets(r)) /\ patched' = (patched /\ NoneExists)
    BY <1>7 DEF FlipCommits
  <2>4. Fits(t)
    BY <2>2 DEF Fits
  <2> HIDE DEF t
  <2>5. TypeOK'
    BY <1>a, <2>1, <2>2, <2>3, Moves DEF TypeOK, SetPlan
  <2> QED BY <1>a, <1>c, <2>2, <2>3, <2>4, <2>5, KnownStep
<1>8. ASSUME NEW r \in Requests, FlipFinds(r) PROVE TypeOK' /\ Known'
  <2>0. req[r].to \in Plans /\ UNCHANGED <<plan, eff, sub, raced, patched>>
    BY <1>8, TaskOf DEF FlipFinds, FlipTask
  <2>1. PICK t \in SettleTask \cup FlipTask : GoTo(r, t) /\ Fits(t)
    <3>1. CASE \E d \in Docs : IsFound(d) /\ GoTo(r, [op |-> "settle", to |-> req[r].to, doc |-> d])
      <4>1. PICK d \in Docs : IsFound(d) /\ GoTo(r, [op |-> "settle", to |-> req[r].to, doc |-> d])
        BY <3>1
      <4>2. [op |-> "settle", to |-> req[r].to, doc |-> d] \in SettleTask
        BY <2>0 DEF SettleTask
      <4>3. Fits([op |-> "settle", to |-> req[r].to, doc |-> d])
        BY <2>0, <4>1 DEF Fits, IsFound, Exists
      <4> QED BY <4>1, <4>2, <4>3
    <3>2. CASE Emit(r, req[r].to)
      <4>1. [op |-> "refresh", to |-> req[r].to] \in FlipTask
        BY <2>0 DEF FlipTask
      <4>2. Fits([op |-> "refresh", to |-> req[r].to])
        BY DEF Fits
      <4> QED BY <3>2, <4>1, <4>2 DEF Emit
    <3> QED BY <1>8, <3>1, <3>2 DEF FlipFinds
  <2>3. TypeOK'
    BY <1>a, <2>0, <2>1, Moves DEF TypeOK
  <2> QED BY <1>a, <1>c, <2>0, <2>1, <2>3, KnownStep
<1>9. ASSUME NEW r \in Requests, FlipWrites(r) PROVE TypeOK' /\ Known'
  <2> DEFINE t == [op |-> "refresh", to |-> req[r].to]
             s == Flipped(sub[req[r].doc], req[r].to)
  <2>1. req[r].doc \in Docs /\ req[r].to \in Plans
    BY <1>9, TaskOf DEF FlipWrites, SettleTask
  <2>2. sub[req[r].doc] \in Sub
    BY <1>9, <2>1, DocOf DEF FlipWrites, Known, Exists
  <2>3. s \in Sub /\ t \in FlipTask /\ t.op = "refresh"
    BY <2>1, <2>2, Built DEF FlipTask
  <2>4. sub' = [sub EXCEPT ![req[r].doc] = s] /\ GoTo(r, t)
        /\ UNCHANGED <<plan, eff, patched>> /\ raced' \in BOOLEAN
    BY <1>9 DEF FlipWrites, Emit
  <2> HIDE DEF s, t
  <2>5. Persist /\ sub' \in [Docs -> Sub \cup {NoSub}]
    BY <1>d, <2>1, <2>3, <2>4
  <2>6. TypeOK'
    BY <1>a, <2>3, <2>4, <2>5, Moves DEF TypeOK
  <2>7. Fits(t)
    BY <2>3 DEF Fits
  <2> QED BY <1>a, <2>3, <2>4, <2>5, <2>6, <2>7, KnownStep
<1>10. ASSUME NEW r \in Requests, Refresh(r) PROVE TypeOK' /\ Known'
  <2>1. req[r].to \in Plans
    BY <1>10, TaskOf DEF Refresh, FlipTask
  <2>2. GoTo(r, Over) /\ UNCHANGED <<plan, sub, patched>> /\ raced' \in BOOLEAN
        /\ eff' = req[r].to
    BY <1>10 DEF Refresh, Done
  <2>3. TypeOK'
    BY <1>a, <2>1, <2>2, Moves DEF TypeOK
  <2>4. Fits(Over)
    BY DEF Fits, Over
  <2> QED BY <1>a, <1>c, <2>2, <2>3, <2>4, KnownStep
<1>11. ASSUME NEW r \in Requests, NEW d \in Docs, RevertReads(r, d) PROVE TypeOK' /\ Known'
  <2> DEFINE t == [op |-> "revert", doc |-> d]
  <2>1. t \in RevertTask /\ t.op = "revert" /\ t.doc = d
    BY DEF RevertTask
  <2>2. GoTo(r, t) /\ UNCHANGED <<plan, eff, sub, raced, patched>> /\ Exists(d)
    BY <1>11 DEF RevertReads, IsFound
  <2> HIDE DEF t
  <2>3. TypeOK' /\ Fits(t)
    BY <1>a, <2>1, <2>2, Moves DEF TypeOK, Fits, Exists
  <2> QED BY <1>a, <1>c, <2>1, <2>2, <2>3, KnownStep
<1>12. ASSUME NEW r \in Requests, RevertWrites(r) PROVE TypeOK' /\ Known'
  <2> DEFINE s == [sub[req[r].doc] EXCEPT !.change = NoChange]
  <2>1. req[r].doc \in Docs
    BY <1>12, TaskOf DEF RevertWrites, RevertTask
  <2>2. sub[req[r].doc] \in Sub
    BY <1>12, <2>1, DocOf DEF RevertWrites, Known, Exists
  <2>3. s \in Sub
    BY <2>2 DEF Sub, Change
  <2>4. sub' = [sub EXCEPT ![req[r].doc] = s] /\ GoTo(r, Over)
        /\ UNCHANGED <<plan, eff, raced, patched>>
    BY <1>12 DEF RevertWrites, Done
  <2> HIDE DEF s
  <2>5. Persist /\ sub' \in [Docs -> Sub \cup {NoSub}]
    BY <1>d, <2>1, <2>3, <2>4
  <2>6. TypeOK' /\ Fits(Over)
    BY <1>a, <2>4, <2>5, Moves DEF TypeOK, Fits, Over
  <2> QED BY <1>a, <2>4, <2>5, <2>6, KnownStep
<1>13. ASSUME NEW r \in Requests, NEW to \in Plans, AssignCommits(r, to) PROVE TypeOK' /\ Known'
  <2> DEFINE t == [op |-> "assigned", to |-> to]
  <2>1. t \in FlipTask /\ t.op = "assigned"
    BY DEF FlipTask
  <2>2. GoTo(r, t) /\ UNCHANGED sub /\ SetPlan(to) /\ raced' \in BOOLEAN
        /\ patched' = FALSE
    BY <1>13 DEF AssignCommits, TypeOK
  <2> HIDE DEF t
  <2>3. TypeOK' /\ Fits(t)
    BY <1>a, <2>1, <2>2, Moves DEF TypeOK, Fits, SetPlan
  <2> QED BY <1>a, <1>c, <2>1, <2>2, <2>3, KnownStep
<1>14. ASSUME NEW r \in Requests, NEW d \in Docs, AssignFinds(r, d) PROVE TypeOK' /\ Known'
  <2> DEFINE t == [op |-> "place", to |-> req[r].to, doc |-> d, isNew |-> ~Exists(d)]
  <2>1. req[r].to \in Plans
    BY <1>14, TaskOf DEF AssignFinds, FlipTask
  <2>2. t \in PlaceTask /\ t.op = "place" /\ t.doc = d /\ t.isNew = ~Exists(d)
    BY <2>1 DEF PlaceTask, Exists
  <2>3. GoTo(r, t) /\ UNCHANGED <<plan, eff, sub, raced, patched>>
    BY <1>14 DEF AssignFinds
  <2> HIDE DEF t
  <2>4. TypeOK' /\ Fits(t)
    BY <1>a, <2>2, <2>3, Moves DEF TypeOK, Fits, Exists
  <2> QED BY <1>a, <1>c, <2>2, <2>3, <2>4, KnownStep
<1>15. ASSUME NEW r \in Requests, AssignWrites(r) PROVE TypeOK' /\ Known'
  <2> DEFINE s == Assigned(req[r].doc, req[r].to)
  <2>1. req[r].doc \in Docs /\ req[r].to \in Plans
    BY <1>15, TaskOf DEF AssignWrites, PlaceTask
  <2>2. Exists(req[r].doc) => sub[req[r].doc].ends \in Dates
    BY <2>1, DocOf DEF Exists, Sub
  <2>3. s \in Sub
    BY <2>1, <2>2 DEF Sub, Change, Assigned, Dates, Status
  <2>4. sub' = [sub EXCEPT ![req[r].doc] = s] /\ GoTo(r, Over)
        /\ UNCHANGED <<plan, eff, patched>> /\ raced' \in BOOLEAN
    BY <1>15 DEF AssignWrites, Done
  <2> HIDE DEF s
  <2>5. Persist /\ sub' \in [Docs -> Sub \cup {NoSub}]
    BY <1>d, <2>1, <2>3, <2>4
  <2>6. TypeOK' /\ Fits(Over)
    BY <1>a, <2>4, <2>5, Moves DEF TypeOK, Fits, Over
  <2> QED BY <1>a, <2>4, <2>5, <2>6, KnownStep
<1>16. ASSUME NEW r \in Requests, Stop(r) PROVE TypeOK' /\ Known'
  <2>1. GoTo(r, Over) /\ UNCHANGED <<plan, eff, sub, patched>> /\ raced' \in BOOLEAN
    BY <1>16 DEF Stop, Done
  <2>2. TypeOK' /\ Fits(Over)
    BY <1>a, <2>1, Moves DEF TypeOK, Fits, Over
  <2> QED BY <1>a, <1>c, <2>1, <2>2, KnownStep
<1>e. ASSUME Persist, UNCHANGED req PROVE Known'
  <2>1. \A s \in Requests : req[s].op \in {"check", "schedule", "revert", "settle",
                                           "upgrade", "upgraded", "place"} => req[s].doc \in Docs
    BY TaskOf DEF UpgradeTask, ScheduleTask, SettleTask, PlaceTask, RevertTask
  <2> QED BY <1>e, <2>1 DEF Known, Persist, Exists
<1>17. ASSUME NEW d \in Docs, MarkPastDue(d) PROVE TypeOK' /\ Known'
  <2> DEFINE s == [sub[d] EXCEPT !.status = "past_due"]
  <2>1. sub[d] \in Sub
    BY <1>17, DocOf DEF MarkPastDue, IsFound, Exists
  <2>2. s \in Sub
    BY <2>1 DEF Sub, Status
  <2>3. sub' = [sub EXCEPT ![d] = s] /\ UNCHANGED <<plan, eff, req, raced, patched>>
    BY <1>17 DEF MarkPastDue
  <2> HIDE DEF s
  <2> QED BY <1>d, <1>e, <2>2, <2>3 DEF TypeOK
<1>18. ASSUME NEW d \in Docs, Rollover(d) PROVE TypeOK' /\ Known'
  <2> DEFINE s == Flipped(sub[d], sub[d].change.to)
  <2>1. sub[d] \in Sub /\ sub[d].change.to \in Plans
    BY <1>18, DocOf DEF Rollover, IsDue, Exists, Sub, Change, NoChange
  <2>2. s \in Sub
    BY <2>1, Built
  <2>3. sub' = [sub EXCEPT ![d] = s] /\ UNCHANGED req /\ raced' \in BOOLEAN
        /\ plan' \in Plans /\ eff' \in Plans /\ patched' = FALSE
    BY <1>18, <2>1 DEF Rollover, SetPlan
  <2> HIDE DEF s
  <2> QED BY <1>d, <1>e, <2>2, <2>3 DEF TypeOK
<1>19. ASSUME NEW p \in Plans, NEW e \in Plans \cup {OwnLimits}, UpdateOrganization(p, e)
       PROVE  TypeOK' /\ Known'
  BY <1>19, <1>c, <1>e DEF UpdateOrganization, TypeOK
<1>20. ASSUME PeriodEnds PROVE TypeOK' /\ Known'
  <2>1. sub' = [d \in Docs |-> Passed(sub[d])] /\ req' = [r \in Requests |-> PassedTask(req[r])]
        /\ UNCHANGED <<plan, eff, raced, patched>>
    BY <1>20 DEF PeriodEnds
  <2>2. Persist /\ sub' \in [Docs -> Sub \cup {NoSub}]
    BY <2>1, Built, DocOf DEF TypeOK, Persist, Exists
  <2>3. ASSUME NEW r \in Requests
        PROVE  /\ req'[r] \in Task /\ req'[r].op = req[r].op
               /\ req[r].op \in {"check", "schedule"} => req'[r].doc = req[r].doc
               /\ req[r].op \notin {"check", "schedule"} => req'[r] = req[r]
    <3>1. CASE req[r].op \in {"check", "schedule"}
      <4>1. req[r] \in ScheduleTask
        BY <3>1, TaskOf
      <4>2. PassedTask(req[r]) = [req[r] EXCEPT !.at = 0]
        BY <3>1 DEF PassedTask
      <4>3. PassedTask(req[r]) \in ScheduleTask /\ PassedTask(req[r]).op = req[r].op
            /\ PassedTask(req[r]).doc = req[r].doc
        BY <4>1, <4>2 DEF ScheduleTask, Dates
      <4> QED BY <1>a, <2>1, <3>1, <4>3
    <3>2. CASE req[r].op \notin {"check", "schedule"}
      BY <2>1, <3>2 DEF PassedTask, TypeOK
    <3> QED BY <3>1, <3>2
  <2>4. TypeOK'
    BY <2>1, <2>2, <2>3 DEF TypeOK
  <2>5. \A s \in Requests : req[s].op \in {"check", "schedule", "revert", "settle",
                                           "upgrade", "upgraded", "place"} => req[s].doc \in Docs
    BY TaskOf DEF UpgradeTask, ScheduleTask, SettleTask, PlaceTask, RevertTask
  <2>6. Known'
    BY <2>2, <2>3, <2>5 DEF Known, Persist, Exists
  <2> QED BY <2>4, <2>6
<1>21. ASSUME UNCHANGED vars PROVE TypeOK' /\ Known'
  BY <1>21, <1>c, <1>e DEF vars, TypeOK
<1> QED
  BY StepCases, <1>1, <1>2, <1>3, <1>4, <1>5, <1>6, <1>7, <1>8, <1>9, <1>10,
     <1>11, <1>12, <1>13, <1>14, <1>15, <1>16, <1>17, <1>18, <1>19, <1>20, <1>21

LEMMA InitTypeKnown == Init => TypeOK /\ Known
<1> SUFFICES ASSUME Init PROVE TypeOK /\ Known
  OBVIOUS
<1>1. New \in Task /\ New.op = "new"
  BY DEF Task, New
<1>2. TypeOK
  BY <1>1, PlanSets DEF Init, TypeOK
<1>3. Known
  BY <1>1 DEF Init, Known
<1> QED BY <1>2, <1>3

\* Subscriptions has its type, for every number of plans and operations.
THEOREM TypeCorrect == Spec => []TypeOK
BY InitTypeKnown, TypeKnownStep, PTL DEF Spec

-----------------------------------------------------------------------------
\* A step that leaves the plans and the half-done operations as they are.
LEMMA Still ==
  ASSUME CalmBody, UNCHANGED <<plan, eff>>,
         \A d \in Docs : /\ sub'[d] # NoSub <=> Exists(d)
                         /\ Exists(d) => sub'[d].plan = sub[d].plan,
         \A s \in Requests : /\ Torn(s)' <=> Torn(s)
                             /\ Torn(s) => req'[s] = req[s]
  PROVE  CalmBody'
<1>1. \A d \in Docs : Exists(d)' <=> Exists(d)
  BY DEF Exists
<1>2. OneDoc' /\ OneTorn'
  BY <1>1 DEF CalmBody, OneDoc, OneTorn
<1>3. (NoneExists' <=> NoneExists) /\ (Copies => Copies')
  BY <1>1 DEF NoneExists, Copies
<1>4. ASSUME NEW r \in Requests, Torn(r)' PROVE Holds(r)'
  BY <1>3, <1>4 DEF CalmBody, Holds
<1>5. NoneTorn' => Copies' /\ eff' = plan'
  BY <1>3 DEF CalmBody, NoneTorn
<1> QED BY <1>2, <1>4, <1>5 DEF CalmBody

\* What Still asks of the operations, when r takes an untorn step.
LEMMA Untorn ==
  ASSUME TypeOK, NEW r \in Requests, NEW t \in Task, GoTo(r, t), ~Torn(r),
         t.op \notin {"upgraded", "flipped", "settle", "assigned", "place", "refresh"}
  PROVE  \A s \in Requests : /\ Torn(s)' <=> Torn(s)
                             /\ Torn(s) => req'[s] = req[s]
BY Moves DEF Torn

\* After a step of r that met no half-done operation, only r can be one.
LEMMA Lone ==
  ASSUME TypeOK, NEW r \in Requests, NEW t \in Task, GoTo(r, t), ~Meets(r)
  PROVE  /\ \A s \in Requests : Torn(s)' => s = r
         /\ OneTorn'
         /\ t.op \notin {"upgraded", "flipped", "settle", "assigned", "place", "refresh"} => NoneTorn'
<1>1. \A s \in Requests \ {r} : ~Torn(s)'
  BY Moves DEF Meets, Torn
<1>2. t.op \notin {"upgraded", "flipped", "settle", "assigned", "place", "refresh"} => ~Torn(r)'
  BY Moves DEF Torn
<1> QED BY <1>1, <1>2 DEF OneTorn, NoneTorn

\* The only document, or the first one, is written with the plan in force.
LEMMA Written ==
  ASSUME TypeOK, OneDoc, NEW d \in Docs, NEW s \in Sub,
         sub' = [sub EXCEPT ![d] = s], Exists(d) \/ NoneExists, s.plan = plan'
  PROVE  OneDoc' /\ Copies'
<1>1. \A e \in Docs : sub'[e] # NoSub <=> e = d
  BY DocOf DEF TypeOK, OneDoc, NoneExists, Exists
<1>2. sub'[d] = s
  BY DEF TypeOK
<1> QED BY <1>1, <1>2 DEF OneDoc, Copies, NoneExists, Exists

\* A commit of r: before it nothing was half done.
LEMMA Committed ==
  ASSUME TypeOK, OneDoc, NEW r \in Requests, NEW t \in Task, GoTo(r, t),
         ~Torn(r), ~Meets(r), t.op \in {"upgraded", "flipped", "assigned"},
         plan' = t.to, eff' = t.to, UNCHANGED sub,
         t.op = "flipped" => ~NoneExists
  PROVE  CalmBody'
<1>4. req'[r] = t
  BY Moves
<1>5. Torn(r)'
  BY <1>4 DEF Torn
<1>6. Holds(r)'
  BY <1>4 DEF Holds, NoneExists, Exists
<1>7. OneDoc'
  BY DEF OneDoc, Exists
<1> QED BY <1>5, <1>6, <1>7, Lone DEF CalmBody, NoneTorn

\* An operation that becomes half done met no other.
LEMMA Single ==
  ASSUME TypeOK, OneTorn, NEW r \in Requests, NEW t \in Task, GoTo(r, t),
         \/ ~Meets(r) \/ Torn(r)
         \/ t.op \notin {"upgraded", "flipped", "settle", "assigned", "place", "refresh"}
  PROVE  OneTorn'
<1>1. \A s \in Requests \ {r} : Torn(s)' <=> Torn(s)
  BY Moves DEF Torn
<1>2. t.op \notin {"upgraded", "flipped", "settle", "assigned", "place", "refresh"} => ~Torn(r)'
  BY Moves DEF Torn
<1> QED BY <1>1, <1>2 DEF OneTorn, Meets

\* At most one document and one half-done operation, PATCHed or not.
LEMMA SingleStep ==
  ASSUME IInv, [Next]_vars, ~raced' PROVE OneDoc' /\ OneTorn'
<1>a. TypeOK /\ Known /\ (~raced => OneDoc /\ OneTorn)
  BY DEF IInv, Calm
<1>c. /\ UpgradeTask \subseteq Task /\ ScheduleTask \subseteq Task /\ FlipTask \subseteq Task
      /\ SettleTask \subseteq Task /\ PlaceTask \subseteq Task /\ RevertTask \subseteq Task
      /\ New \in Task /\ Over \in Task /\ New.op = "new" /\ Over.op = "over"
  BY DEF Task, New, Over
<1>d. ASSUME NEW r \in Requests, ~raced, UNCHANGED sub,
             \E t \in Task : /\ GoTo(r, t)
                             /\ \/ ~Meets(r) \/ Torn(r)
                                \/ t.op \notin {"upgraded", "flipped", "settle", "assigned",
                                                "place", "refresh"}
      PROVE  OneDoc' /\ OneTorn'
  <2>1. OneDoc'
    BY <1>a, <1>d DEF OneDoc, Exists
  <2> QED BY <1>a, <1>d, <2>1, Single
<1>e. ASSUME NEW d \in Docs, NEW s \in Sub, sub' = [sub EXCEPT ![d] = s],
             Exists(d) \/ NoneExists, ~raced
      PROVE  OneDoc'
  <2>1. \A e \in Docs : sub'[e] # NoSub <=> e = d
    BY <1>a, <1>e, DocOf DEF TypeOK, OneDoc, NoneExists, Exists
  <2> QED BY <2>1 DEF OneDoc, Exists
<1>1. ASSUME NEW r \in Requests, NEW to \in Paid, NEW d \in Docs, UpgradeReads(r, to, d)
      PROVE  OneDoc' /\ OneTorn'
  <2> DEFINE t == [op |-> "upgrade", to |-> to, doc |-> d, isNew |-> ~Exists(d),
                   trial |-> StartsTrial(d, to)]
  <2>1. t \in UpgradeTask /\ t.op = "upgrade"
    BY DEF UpgradeTask, StartsTrial, Exists
  <2>2. GoTo(r, t) /\ UNCHANGED <<sub, raced>>
    BY <1>1 DEF UpgradeReads
  <2> HIDE DEF t
  <2> QED BY <1>c, <1>d, <2>1, <2>2
<1>2. ASSUME NEW r \in Requests, UpgradeCommits(r) PROVE OneDoc' /\ OneTorn'
  <2>1. req[r] \in UpgradeTask
    BY <1>2, <1>a, TaskOf DEF UpgradeCommits
  <2>2. PICK t \in UpgradeTask : t = [req[r] EXCEPT !.op = "upgraded"]
    BY <2>1 DEF UpgradeTask
  <2>3. GoTo(r, t) /\ UNCHANGED sub /\ ~raced /\ ~Meets(r)
    BY <1>2, <2>2 DEF UpgradeCommits
  <2> QED BY <1>c, <1>d, <2>2, <2>3
<1>3. ASSUME NEW r \in Requests, UpgradeWrites(r) PROVE OneDoc' /\ OneTorn'
  <2>1. req[r] \in UpgradeTask /\ req[r].doc \in Docs /\ req[r].to \in Plans
        /\ req[r].isNew \in BOOLEAN
    BY <1>3, <1>a, TaskOf, PlanSets DEF UpgradeWrites, UpgradeTask
  <2>2. PICK t \in FlipTask : t = [op |-> "refresh", to |-> req[r].to]
    BY <2>1 DEF FlipTask
  <2>3. GoTo(r, t) /\ ~raced /\ ~Meets(r) /\ (req[r].isNew => NoneExists)
        /\ sub' = [sub EXCEPT ![req[r].doc] = Upgraded(req[r])]
    BY <1>3, <2>2 DEF UpgradeWrites, Emit
  <2>4. Exists(req[r].doc) \/ NoneExists
    BY <1>3, <1>a, <2>1, <2>3 DEF UpgradeWrites, Known
  <2>5. OneDoc'
    BY <1>e, <2>1, <2>3, <2>4, Built
  <2> QED BY <1>a, <1>c, <2>2, <2>3, <2>5, Single
<1>4. ASSUME NEW r \in Requests, NEW to \in Plans, NEW i \in BOOLEAN, DowngradeReads(r, to, i)
      PROVE  OneDoc' /\ OneTorn'
  <2>1. \A d \in Docs : [op |-> "check", to |-> to, doc |-> d, at |-> 1] \in ScheduleTask
    BY DEF ScheduleTask, Dates
  <2>2. [op |-> "flip", to |-> to] \in FlipTask
    BY DEF FlipTask
  <2>3. PICK t \in Task : GoTo(r, t) /\ t.op \in {"check", "flip"}
    BY <1>4, <1>c, <2>1, <2>2 DEF DowngradeReads
  <2>4. UNCHANGED <<sub, raced>>
    BY <1>4 DEF DowngradeReads
  <2> QED BY <1>d, <2>3, <2>4
<1>5. ASSUME NEW r \in Requests, ScheduleChecks(r) PROVE OneDoc' /\ OneTorn'
  <2>1. req[r] \in ScheduleTask
    BY <1>5, <1>a, TaskOf DEF ScheduleChecks
  <2> DEFINE t == [req[r] EXCEPT !.op = "schedule"]
  <2>2. t \in ScheduleTask /\ t.op = "schedule"
    BY <2>1 DEF ScheduleTask
  <2>3. GoTo(r, t) /\ UNCHANGED <<sub, raced>>
    BY <1>5 DEF ScheduleChecks
  <2> HIDE DEF t
  <2> QED BY <1>c, <1>d, <2>2, <2>3
<1>6. ASSUME NEW r \in Requests, ScheduleWrites(r) PROVE OneDoc' /\ OneTorn'
  <2>1. /\ req[r].doc \in Docs /\ req[r].to \in Plans /\ req[r].at \in Dates
    BY <1>6, <1>a, TaskOf DEF ScheduleWrites, ScheduleTask
  <2>2. Exists(req[r].doc) /\ sub[req[r].doc] \in Sub
    BY <1>6, <1>a, <2>1, DocOf DEF ScheduleWrites, Known, Exists
  <2>3. PICK s \in Sub : s = [sub[req[r].doc] EXCEPT !.change =
                     [reason |-> "downgrade", to |-> req[r].to, at |-> req[r].at]]
    BY <2>1, <2>2 DEF Sub, Change
  <2>4. sub' = [sub EXCEPT ![req[r].doc] = s] /\ GoTo(r, Over) /\ ~raced
    BY <1>6, <2>3 DEF ScheduleWrites, Done
  <2> QED BY <1>a, <1>c, <1>e, <2>1, <2>2, <2>4, Single
<1>7. ASSUME NEW r \in Requests, FlipCommits(r) PROVE OneDoc' /\ OneTorn'
  <2>1. req[r].to \in Plans
    BY <1>7, <1>a, TaskOf DEF FlipCommits, FlipTask
  <2>2. PICK t \in FlipTask : t = [op |-> "flipped", to |-> req[r].to]
    BY <2>1 DEF FlipTask
  <2>3. GoTo(r, t) /\ UNCHANGED sub /\ ~raced /\ ~Meets(r)
    BY <1>7, <2>2 DEF FlipCommits
  <2> QED BY <1>c, <1>d, <2>2, <2>3
<1>8. ASSUME NEW r \in Requests, FlipFinds(r) PROVE OneDoc' /\ OneTorn'
  <2>1. req[r].to \in Plans /\ Torn(r) /\ UNCHANGED <<sub, raced>>
    BY <1>8, <1>a, TaskOf DEF FlipFinds, FlipTask, Torn
  <2>2. /\ \A d \in Docs : [op |-> "settle", to |-> req[r].to, doc |-> d] \in SettleTask
        /\ [op |-> "refresh", to |-> req[r].to] \in FlipTask
    BY <2>1 DEF SettleTask, FlipTask
  <2>3. PICK t \in Task : GoTo(r, t)
    BY <1>8, <1>c, <2>2 DEF FlipFinds, Emit
  <2> QED BY <1>d, <2>1, <2>3
<1>9. ASSUME NEW r \in Requests, FlipWrites(r) PROVE OneDoc' /\ OneTorn'
  <2>1. req[r].doc \in Docs /\ req[r].to \in Plans
    BY <1>9, <1>a, TaskOf DEF FlipWrites, SettleTask
  <2>2. Exists(req[r].doc) /\ sub[req[r].doc] \in Sub
    BY <1>9, <1>a, <2>1, DocOf DEF FlipWrites, Known, Exists
  <2>3. PICK s \in Sub : s = Flipped(sub[req[r].doc], req[r].to)
    BY <2>1, <2>2, Built
  <2>4. PICK t \in FlipTask : t = [op |-> "refresh", to |-> req[r].to]
    BY <2>1 DEF FlipTask
  <2>5. sub' = [sub EXCEPT ![req[r].doc] = s] /\ GoTo(r, t) /\ ~raced /\ ~Meets(r)
    BY <1>9, <2>3, <2>4 DEF FlipWrites, Emit
  <2> QED BY <1>a, <1>c, <1>e, <2>1, <2>2, <2>4, <2>5, Single
<1>10. ASSUME NEW r \in Requests, Refresh(r) \/ Stop(r) PROVE OneDoc' /\ OneTorn'
  <2>1. GoTo(r, Over) /\ UNCHANGED sub /\ ~raced
    BY <1>10 DEF Refresh, Stop, Done
  <2> QED BY <1>c, <1>d, <2>1
<1>11. ASSUME NEW r \in Requests, NEW d \in Docs, RevertReads(r, d) PROVE OneDoc' /\ OneTorn'
  <2> DEFINE t == [op |-> "revert", doc |-> d]
  <2>1. t \in RevertTask /\ t.op = "revert"
    BY DEF RevertTask
  <2>2. GoTo(r, t) /\ UNCHANGED <<sub, raced>>
    BY <1>11 DEF RevertReads
  <2> HIDE DEF t
  <2> QED BY <1>c, <1>d, <2>1, <2>2
<1>12. ASSUME NEW r \in Requests, RevertWrites(r) PROVE OneDoc' /\ OneTorn'
  <2>1. req[r].doc \in Docs
    BY <1>12, <1>a, TaskOf DEF RevertWrites, RevertTask
  <2>2. Exists(req[r].doc) /\ sub[req[r].doc] \in Sub
    BY <1>12, <1>a, <2>1, DocOf DEF RevertWrites, Known, Exists
  <2>3. PICK s \in Sub : s = [sub[req[r].doc] EXCEPT !.change = NoChange]
    BY <2>2 DEF Sub, Change
  <2>4. sub' = [sub EXCEPT ![req[r].doc] = s] /\ GoTo(r, Over) /\ ~raced
    BY <1>12, <2>3 DEF RevertWrites, Done
  <2> QED BY <1>a, <1>c, <1>e, <2>1, <2>2, <2>4, Single
<1>13. ASSUME NEW r \in Requests, NEW to \in Plans, AssignCommits(r, to) PROVE OneDoc' /\ OneTorn'
  <2>1. PICK t \in FlipTask : t = [op |-> "assigned", to |-> to]
    BY DEF FlipTask
  <2>2. GoTo(r, t) /\ UNCHANGED sub /\ ~raced /\ ~Meets(r)
    BY <1>13, <2>1 DEF AssignCommits
  <2> QED BY <1>c, <1>d, <2>1, <2>2
<1>14. ASSUME NEW r \in Requests, NEW d \in Docs, AssignFinds(r, d) PROVE OneDoc' /\ OneTorn'
  <2>1. req[r].to \in Plans /\ Torn(r) /\ UNCHANGED <<sub, raced>>
    BY <1>14, <1>a, TaskOf DEF AssignFinds, FlipTask, Torn
  <2> DEFINE t == [op |-> "place", to |-> req[r].to, doc |-> d, isNew |-> ~Exists(d)]
  <2>2. t \in PlaceTask
    BY <2>1 DEF PlaceTask, Exists
  <2>3. GoTo(r, t)
    BY <1>14 DEF AssignFinds
  <2> HIDE DEF t
  <2> QED BY <1>c, <1>d, <2>1, <2>2, <2>3
<1>15. ASSUME NEW r \in Requests, AssignWrites(r) PROVE OneDoc' /\ OneTorn'
  <2>1. req[r].doc \in Docs /\ req[r].to \in Plans
    BY <1>15, <1>a, TaskOf DEF AssignWrites, PlaceTask
  <2>2. Exists(req[r].doc) => sub[req[r].doc].ends \in Dates
    BY <1>a, <2>1, DocOf DEF Exists, Sub
  <2> DEFINE s == Assigned(req[r].doc, req[r].to)
  <2>3. s \in Sub
    BY <2>1, <2>2 DEF Sub, Change, Assigned, Dates, Status
  <2>4. sub' = [sub EXCEPT ![req[r].doc] = s] /\ GoTo(r, Over) /\ ~raced
        /\ (req[r].isNew => NoneExists)
    BY <1>15 DEF AssignWrites, Done
  <2> HIDE DEF s
  <2>5. Exists(req[r].doc) \/ NoneExists
    BY <1>15, <1>a, <2>1, <2>4 DEF AssignWrites, Known
  <2>6. OneDoc'
    BY <1>e, <2>1, <2>3, <2>4, <2>5
  <2> QED BY <1>a, <1>c, <2>4, <2>6, Single
<1>f. UNCHANGED req /\ OneTorn => OneTorn'
  BY DEF OneTorn, Torn
<1>17. ASSUME NEW d \in Docs, MarkPastDue(d) PROVE OneDoc' /\ OneTorn'
  <2>1. sub[d] \in Sub /\ Exists(d)
    BY <1>17, <1>a, DocOf DEF MarkPastDue, IsFound, Exists
  <2>2. PICK s \in Sub : s = [sub[d] EXCEPT !.status = "past_due"]
    BY <2>1 DEF Sub, Status
  <2>3. sub' = [sub EXCEPT ![d] = s] /\ UNCHANGED <<req, raced>>
    BY <1>17, <2>2 DEF MarkPastDue
  <2> QED BY <1>a, <1>e, <1>f, <2>1, <2>3
<1>18. ASSUME NEW d \in Docs, Rollover(d) PROVE OneDoc' /\ OneTorn'
  <2>1. sub[d] \in Sub /\ sub[d].change.to \in Plans /\ Exists(d)
    BY <1>18, <1>a, DocOf DEF Rollover, IsDue, Exists, Sub, Change, NoChange
  <2>2. PICK s \in Sub : s = Flipped(sub[d], sub[d].change.to)
    BY <2>1, Built
  <2>3. sub' = [sub EXCEPT ![d] = s] /\ UNCHANGED req /\ ~raced
    BY <1>18, <2>2 DEF Rollover
  <2> QED BY <1>a, <1>e, <1>f, <2>1, <2>3
<1>20. ASSUME PeriodEnds PROVE OneDoc' /\ OneTorn'
  <2>1. \A d \in Docs : sub'[d] # NoSub <=> Exists(d)
    BY <1>a, <1>20, Built, DocOf DEF PeriodEnds, Exists
  <2>2. OneDoc'
    BY <1>a, <1>20, <2>1 DEF PeriodEnds, OneDoc, Exists
  <2>3. \A r \in Requests : Torn(r)' => Torn(r)
    <3>1. ASSUME NEW r \in Requests, req[r].op \in {"check", "schedule"} PROVE ~Torn(r)'
      <4>1. req[r] \in ScheduleTask
        BY <1>a, <3>1, TaskOf
      <4>2. PICK t \in ScheduleTask : t = [req[r] EXCEPT !.at = 0]
        BY <4>1 DEF ScheduleTask, Dates
      <4>3. req'[r] = t
        BY <1>20, <3>1, <4>2 DEF PeriodEnds, PassedTask
      <4> QED BY <4>3 DEF Torn, ScheduleTask
    <3> QED BY <1>20, <3>1 DEF PeriodEnds, PassedTask, Torn
  <2> QED BY <1>a, <1>20, <2>2, <2>3 DEF PeriodEnds, OneTorn
<1>21. ASSUME UNCHANGED <<sub, req, raced>> PROVE OneDoc' /\ OneTorn'
  BY <1>21, <1>a, <1>f DEF OneDoc, Exists
<1> QED
  BY StepCases, <1>1, <1>2, <1>3, <1>4, <1>5, <1>6, <1>7, <1>8, <1>9, <1>10,
     <1>11, <1>12, <1>13, <1>14, <1>15, <1>17, <1>18, <1>20, <1>21
     DEF UpdateOrganization, vars

LEMMA CalmStep == IInv /\ TypeOK' /\ [Next]_vars => Calm'
<1> SUFFICES ASSUME IInv, TypeOK', [Next]_vars, ~raced', ~patched' PROVE CalmBody'
  BY SingleStep DEF Calm
<1>a. TypeOK /\ Known
  BY DEF IInv
<1>b. ~raced => OneDoc /\ OneTorn /\ (~patched => CalmBody)
  BY DEF IInv, Calm
<1>c. /\ UpgradeTask \subseteq Task /\ ScheduleTask \subseteq Task /\ FlipTask \subseteq Task
      /\ SettleTask \subseteq Task /\ PlaceTask \subseteq Task /\ RevertTask \subseteq Task
      /\ New \in Task /\ Over \in Task /\ New.op = "new" /\ Over.op = "over"
  BY DEF Task, New, Over
<1>d. UNCHANGED sub => \A d \in Docs : /\ sub'[d] # NoSub <=> Exists(d)
                                       /\ Exists(d) => sub'[d].plan = sub[d].plan
  BY DEF Exists
<1>e. ASSUME NEW d \in Docs, NEW s \in Sub, sub' = [sub EXCEPT ![d] = s], Exists(d),
             s.plan = sub[d].plan
      PROVE  \A e \in Docs : /\ sub'[e] # NoSub <=> Exists(e)
                             /\ Exists(e) => sub'[e].plan = sub[e].plan
  BY <1>a, <1>e, DocOf DEF TypeOK, Exists
<1>1. ASSUME NEW r \in Requests, NEW to \in Paid, NEW d \in Docs, UpgradeReads(r, to, d)
      PROVE  CalmBody'
  <2> DEFINE t == [op |-> "upgrade", to |-> to, doc |-> d, isNew |-> ~Exists(d),
                   trial |-> StartsTrial(d, to)]
  <2>1. t \in UpgradeTask
    BY DEF UpgradeTask, StartsTrial, Exists
  <2>2. GoTo(r, t) /\ UNCHANGED <<plan, eff, sub, raced, patched>> /\ ~Torn(r) /\ t.op = "upgrade"
    BY <1>1, <1>c DEF UpgradeReads, Torn
  <2> HIDE DEF t
  <2> QED BY <1>a, <1>b, <1>c, <1>d, <2>1, <2>2, Untorn, Still
<1>2. ASSUME NEW r \in Requests, UpgradeCommits(r) PROVE CalmBody'
  <2> DEFINE t == [req[r] EXCEPT !.op = "upgraded"]
  <2>1. req[r] \in UpgradeTask
    BY <1>2, <1>a, TaskOf DEF UpgradeCommits
  <2>2. t \in UpgradeTask /\ t.op = "upgraded" /\ t.to = req[r].to
    BY <2>1 DEF UpgradeTask
  <2>3. GoTo(r, t) /\ plan' = t.to /\ eff' = t.to /\ UNCHANGED sub /\ ~Torn(r)
        /\ ~raced /\ ~Meets(r)
    BY <1>2, <2>2 DEF UpgradeCommits, SetPlan, Torn
  <2> HIDE DEF t
  <2> QED BY <1>a, <1>b, <1>c, <2>2, <2>3, Committed
<1>3. ASSUME NEW r \in Requests, UpgradeWrites(r) PROVE CalmBody'
  <2> DEFINE t == [op |-> "refresh", to |-> req[r].to]
  <2>1. req[r] \in UpgradeTask /\ req[r].doc \in Docs /\ req[r].to \in Plans
        /\ req[r].isNew \in BOOLEAN
    BY <1>3, <1>a, TaskOf, PlanSets DEF UpgradeWrites, UpgradeTask
  <2>2. t \in FlipTask /\ t.op = "refresh" /\ t.to = req[r].to
    BY <2>1 DEF FlipTask
  <2>3. GoTo(r, t) /\ UNCHANGED <<plan, eff, patched>> /\ ~raced /\ ~Meets(r) /\ Torn(r)
        /\ (req[r].isNew => NoneExists)
        /\ sub' = [sub EXCEPT ![req[r].doc] = Upgraded(req[r])]
    BY <1>3 DEF UpgradeWrites, Emit, Torn
  <2>4. plan = req[r].to /\ eff = plan /\ OneDoc
    BY <1>b, <2>3 DEF CalmBody, Holds
  <2>5. Exists(req[r].doc) \/ NoneExists
    BY <1>3, <1>a, <2>1, <2>3 DEF UpgradeWrites, Known
  <2>6. Upgraded(req[r]) \in Sub /\ Upgraded(req[r]).plan = req[r].to
    BY <2>1, Built DEF Upgraded
  <2>7. OneDoc' /\ Copies'
    BY <1>a, <2>1, <2>3, <2>4, <2>5, <2>6, Written
  <2> HIDE DEF t
  <2>8. req'[r] = t
    BY <1>a, <1>c, <2>2, <2>3, Moves
  <2>9. Holds(r)' /\ Torn(r)'
    BY <2>2, <2>3, <2>4, <2>7, <2>8 DEF Holds, Torn
  <2> QED BY <1>a, <1>c, <2>2, <2>3, <2>7, <2>9, Lone DEF CalmBody, NoneTorn
<1>4. ASSUME NEW r \in Requests, NEW to \in Plans, NEW i \in BOOLEAN, DowngradeReads(r, to, i)
      PROVE  CalmBody'
  <2>1. UNCHANGED <<plan, eff, sub, raced, patched>> /\ ~Torn(r)
    BY <1>4, <1>c DEF DowngradeReads, Torn
  <2>2. \A d \in Docs : [op |-> "check", to |-> to, doc |-> d, at |-> 1] \in ScheduleTask
    BY DEF ScheduleTask, Dates
  <2>3. [op |-> "flip", to |-> to] \in FlipTask
    BY DEF FlipTask
  <2>4. PICK t \in Task : GoTo(r, t) /\ t.op \in {"check", "flip"}
    BY <1>4, <1>c, <2>2, <2>3 DEF DowngradeReads
  <2> QED BY <1>a, <1>b, <1>d, <2>1, <2>4, Untorn, Still
<1>5. ASSUME NEW r \in Requests, ScheduleChecks(r) PROVE CalmBody'
  <2> DEFINE t == [req[r] EXCEPT !.op = "schedule"]
  <2>1. req[r] \in ScheduleTask
    BY <1>5, <1>a, TaskOf DEF ScheduleChecks
  <2>2. t \in ScheduleTask /\ t.op = "schedule"
    BY <2>1 DEF ScheduleTask
  <2>3. GoTo(r, t) /\ UNCHANGED <<plan, eff, sub, raced, patched>> /\ ~Torn(r)
    BY <1>5 DEF ScheduleChecks, Torn
  <2> HIDE DEF t
  <2> QED BY <1>a, <1>b, <1>c, <1>d, <2>2, <2>3, Untorn, Still
<1>6. ASSUME NEW r \in Requests, ScheduleWrites(r) PROVE CalmBody'
  <2> DEFINE s == [sub[req[r].doc] EXCEPT !.change =
                     [reason |-> "downgrade", to |-> req[r].to, at |-> req[r].at]]
  <2>1. /\ req[r].doc \in Docs /\ req[r].to \in Plans /\ req[r].at \in Dates
    BY <1>6, <1>a, TaskOf DEF ScheduleWrites, ScheduleTask
  <2>2. Exists(req[r].doc) /\ sub[req[r].doc] \in Sub
    BY <1>6, <1>a, <2>1, DocOf DEF ScheduleWrites, Known, Exists
  <2>3. s \in Sub /\ s.plan = sub[req[r].doc].plan
    BY <2>1, <2>2 DEF Sub, Change
  <2>4. sub' = [sub EXCEPT ![req[r].doc] = s] /\ GoTo(r, Over) /\ ~Torn(r)
        /\ UNCHANGED <<plan, eff, raced, patched>>
    BY <1>6 DEF ScheduleWrites, Done, Torn
  <2> HIDE DEF s
  <2> QED BY <1>a, <1>b, <1>c, <1>e, <2>1, <2>2, <2>3, <2>4, Untorn, Still
<1>7. ASSUME NEW r \in Requests, FlipCommits(r) PROVE CalmBody'
  <2> DEFINE t == [op |-> "flipped", to |-> req[r].to]
  <2>1. req[r].to \in Plans
    BY <1>7, <1>a, TaskOf DEF FlipCommits, FlipTask
  <2>2. t \in FlipTask /\ t.op = "flipped" /\ t.to = req[r].to
    BY <2>1 DEF FlipTask
  <2>3. GoTo(r, t) /\ plan' = t.to /\ eff' = t.to /\ UNCHANGED sub /\ ~Torn(r)
        /\ ~raced /\ ~Meets(r) /\ t.to < plan /\ ~(patched /\ NoneExists)
    BY <1>7, <2>2 DEF FlipCommits, SetPlan, Torn
  <2> HIDE DEF t
  <2>4. ASSUME NoneExists PROVE FALSE
    <3>1. CalmBody /\ NoneTorn
      BY <1>b, <2>3, <2>4 DEF Meets, NoneTorn
    <3>2. plan = 0
      BY <2>4, <3>1 DEF CalmBody, Copies
    <3>3. t.to \in Nat
      BY <2>1, <2>2, PlanSets
    <3>4. t.to < plan
      BY <2>3
    <3> QED BY <3>2, <3>3, <3>4
  <2> QED BY <1>a, <1>b, <1>c, <2>2, <2>3, <2>4, Committed
<1>8. ASSUME NEW r \in Requests, FlipFinds(r) PROVE CalmBody'
  <2>1. UNCHANGED <<plan, eff, sub, raced, patched>> /\ Torn(r) /\ ~raced
    BY <1>8 DEF FlipFinds, Torn
  <2>2. req[r].to \in Plans /\ Holds(r) /\ ~NoneExists /\ CalmBody
    BY <1>8, <1>a, <1>b, <2>1, TaskOf DEF FlipFinds, FlipTask, CalmBody, Holds
  <2>3. PICK d \in Docs : GoTo(r, [op |-> "settle", to |-> req[r].to, doc |-> d])
    BY <1>8, <2>2 DEF FlipFinds
  <2> DEFINE t == [op |-> "settle", to |-> req[r].to, doc |-> d]
  <2>4. t \in SettleTask /\ t.op = "settle" /\ t.to = req[r].to
    BY <2>2 DEF SettleTask
  <2>5. ~Meets(r)
    BY <2>1, <2>2 DEF CalmBody, OneTorn, Meets
  <2>6. GoTo(r, t)
    BY <2>3
  <2> HIDE DEF t
  <2>7. req'[r] = t
    BY <1>a, <1>c, <2>4, <2>6, Moves
  <2>8. Torn(r)' /\ Holds(r)' /\ OneDoc'
    BY <2>1, <2>2, <2>4, <2>7 DEF Torn, Holds, CalmBody, OneDoc, Exists
  <2> QED BY <1>a, <1>c, <2>4, <2>5, <2>6, <2>8, Lone DEF CalmBody, NoneTorn
<1>9. ASSUME NEW r \in Requests, FlipWrites(r) PROVE CalmBody'
  <2> DEFINE t == [op |-> "refresh", to |-> req[r].to]
             s == Flipped(sub[req[r].doc], req[r].to)
  <2>1. req[r].doc \in Docs /\ req[r].to \in Plans
    BY <1>9, <1>a, TaskOf DEF FlipWrites, SettleTask
  <2>2. Exists(req[r].doc) /\ sub[req[r].doc] \in Sub
    BY <1>9, <1>a, <2>1, DocOf DEF FlipWrites, Known, Exists
  <2>3. s \in Sub /\ s.plan = req[r].to /\ t \in FlipTask /\ t.op = "refresh" /\ t.to = req[r].to
    BY <2>1, <2>2, Built DEF FlipTask
  <2>4. sub' = [sub EXCEPT ![req[r].doc] = s] /\ GoTo(r, t) /\ ~raced /\ ~Meets(r)
        /\ UNCHANGED <<plan, eff, patched>> /\ Torn(r)
    BY <1>9 DEF FlipWrites, Emit, Torn
  <2> HIDE DEF s, t
  <2>5. plan = req[r].to /\ eff = plan /\ OneDoc
    BY <1>b, <2>4 DEF CalmBody, Holds
  <2>6. OneDoc' /\ Copies'
    BY <1>a, <2>1, <2>2, <2>3, <2>4, <2>5, Written
  <2>7. req'[r] = t
    BY <1>a, <1>c, <2>3, <2>4, Moves
  <2>8. Holds(r)' /\ Torn(r)'
    BY <2>3, <2>4, <2>5, <2>6, <2>7 DEF Holds, Torn
  <2> QED BY <1>a, <1>c, <2>3, <2>4, <2>6, <2>8, Lone DEF CalmBody, NoneTorn
<1>10. ASSUME NEW r \in Requests, Refresh(r) PROVE CalmBody'
  <2>1. GoTo(r, Over) /\ UNCHANGED <<plan, sub, patched>> /\ eff' = req[r].to /\ ~raced /\ ~Meets(r)
        /\ Torn(r)
    BY <1>10 DEF Refresh, Done, Torn
  <2>2. plan = req[r].to /\ Copies /\ OneDoc
    BY <1>10, <1>b, <2>1 DEF CalmBody, Holds, Refresh
  <2>3. Copies' /\ OneDoc'
    BY <2>1, <2>2 DEF Copies, NoneExists, Exists, OneDoc
  <2>4. OneTorn' /\ NoneTorn'
    BY <1>a, <1>c, <2>1, Lone
  <2> QED BY <2>1, <2>2, <2>3, <2>4 DEF CalmBody, NoneTorn
<1>11. ASSUME NEW r \in Requests, NEW d \in Docs, RevertReads(r, d) PROVE CalmBody'
  <2> DEFINE t == [op |-> "revert", doc |-> d]
  <2>1. t \in RevertTask /\ t.op = "revert"
    BY DEF RevertTask
  <2>2. GoTo(r, t) /\ UNCHANGED <<plan, eff, sub, raced, patched>> /\ ~Torn(r)
    BY <1>11, <1>c DEF RevertReads, Torn
  <2> HIDE DEF t
  <2> QED BY <1>a, <1>b, <1>c, <1>d, <2>1, <2>2, Untorn, Still
<1>12. ASSUME NEW r \in Requests, RevertWrites(r) PROVE CalmBody'
  <2> DEFINE s == [sub[req[r].doc] EXCEPT !.change = NoChange]
  <2>1. req[r].doc \in Docs
    BY <1>12, <1>a, TaskOf DEF RevertWrites, RevertTask
  <2>2. Exists(req[r].doc) /\ sub[req[r].doc] \in Sub
    BY <1>12, <1>a, <2>1, DocOf DEF RevertWrites, Known, Exists
  <2>3. s \in Sub /\ s.plan = sub[req[r].doc].plan
    BY <2>2 DEF Sub, Change
  <2>4. sub' = [sub EXCEPT ![req[r].doc] = s] /\ GoTo(r, Over) /\ ~Torn(r)
        /\ UNCHANGED <<plan, eff, raced, patched>>
    BY <1>12 DEF RevertWrites, Done, Torn
  <2> HIDE DEF s
  <2> QED BY <1>a, <1>b, <1>c, <1>e, <2>1, <2>2, <2>3, <2>4, Untorn, Still
<1>13. ASSUME NEW r \in Requests, NEW to \in Plans, AssignCommits(r, to) PROVE CalmBody'
  <2> DEFINE t == [op |-> "assigned", to |-> to]
  <2>1. t \in FlipTask /\ t.op = "assigned" /\ t.to = to
    BY DEF FlipTask
  <2>2. GoTo(r, t) /\ plan' = t.to /\ eff' = t.to /\ UNCHANGED sub /\ ~Torn(r)
        /\ ~raced /\ ~Meets(r)
    BY <1>13, <1>c, <2>1 DEF AssignCommits, SetPlan, Torn
  <2> HIDE DEF t
  <2> QED BY <1>a, <1>b, <1>c, <2>1, <2>2, Committed
<1>14. ASSUME NEW r \in Requests, NEW d \in Docs, AssignFinds(r, d) PROVE CalmBody'
  <2> DEFINE t == [op |-> "place", to |-> req[r].to, doc |-> d, isNew |-> ~Exists(d)]
  <2>1. UNCHANGED <<plan, eff, sub, raced, patched>> /\ Torn(r) /\ ~raced /\ GoTo(r, t)
    BY <1>14 DEF AssignFinds, Torn
  <2>2. req[r].to \in Plans /\ Holds(r) /\ CalmBody
    BY <1>14, <1>a, <1>b, <2>1, TaskOf DEF AssignFinds, FlipTask, CalmBody
  <2>3. t \in PlaceTask /\ t.op = "place" /\ t.to = req[r].to
    BY <2>2 DEF PlaceTask, Exists
  <2>4. ~Meets(r)
    BY <2>1, <2>2 DEF CalmBody, OneTorn, Meets
  <2> HIDE DEF t
  <2>5. req'[r] = t
    BY <1>a, <1>c, <2>1, <2>3, Moves
  <2>6. Torn(r)' /\ Holds(r)' /\ OneDoc'
    BY <2>1, <2>2, <2>3, <2>5 DEF Torn, Holds, CalmBody, OneDoc, Exists
  <2> QED BY <1>a, <1>c, <2>1, <2>3, <2>4, <2>6, Lone DEF CalmBody, NoneTorn
<1>15. ASSUME NEW r \in Requests, AssignWrites(r) PROVE CalmBody'
  <2> DEFINE s == Assigned(req[r].doc, req[r].to)
  <2>1. req[r].doc \in Docs /\ req[r].to \in Plans
    BY <1>15, <1>a, TaskOf DEF AssignWrites, PlaceTask
  <2>2. Exists(req[r].doc) => sub[req[r].doc].ends \in Dates
    BY <1>a, <2>1, DocOf DEF Exists, Sub
  <2>3. s \in Sub /\ s.plan = req[r].to
    BY <2>1, <2>2 DEF Sub, Change, Assigned, Dates, Status
  <2>4. sub' = [sub EXCEPT ![req[r].doc] = s] /\ GoTo(r, Over) /\ ~raced /\ ~Meets(r)
        /\ UNCHANGED <<plan, eff, patched>> /\ Torn(r) /\ (req[r].isNew => NoneExists)
    BY <1>15 DEF AssignWrites, Done, Torn
  <2> HIDE DEF s
  <2>5. plan = req[r].to /\ eff = plan /\ OneDoc
    BY <1>b, <2>4 DEF CalmBody, Holds
  <2>6. Exists(req[r].doc) \/ NoneExists
    BY <1>15, <1>a, <2>1, <2>4 DEF AssignWrites, Known
  <2>7. OneDoc' /\ Copies'
    BY <1>a, <2>1, <2>3, <2>4, <2>5, <2>6, Written
  <2>8. OneTorn' /\ NoneTorn'
    BY <1>a, <1>c, <2>4, Lone
  <2> QED BY <2>4, <2>5, <2>7, <2>8 DEF CalmBody, NoneTorn
<1>16. ASSUME NEW r \in Requests, Stop(r) PROVE CalmBody'
  <2>1. GoTo(r, Over) /\ UNCHANGED <<plan, eff, sub, patched>> /\ ~Torn(r) /\ ~raced
    BY <1>16 DEF Stop, Done
  <2> QED BY <1>a, <1>b, <1>c, <1>d, <2>1, Untorn, Still
<1>f. UNCHANGED req => \A s \in Requests : /\ Torn(s)' <=> Torn(s)
                                           /\ Torn(s) => req'[s] = req[s]
  BY DEF Torn
<1>17. ASSUME NEW d \in Docs, MarkPastDue(d) PROVE CalmBody'
  <2> DEFINE s == [sub[d] EXCEPT !.status = "past_due"]
  <2>1. sub[d] \in Sub /\ Exists(d)
    BY <1>17, <1>a, DocOf DEF MarkPastDue, IsFound, Exists
  <2>2. s \in Sub /\ s.plan = sub[d].plan
    BY <2>1 DEF Sub, Status
  <2>3. sub' = [sub EXCEPT ![d] = s] /\ UNCHANGED <<plan, eff, req, raced, patched>>
    BY <1>17 DEF MarkPastDue
  <2> HIDE DEF s
  <2> QED BY <1>b, <1>e, <1>f, <2>1, <2>2, <2>3, Still
<1>18. ASSUME NEW d \in Docs, Rollover(d) PROVE CalmBody'
  <2> DEFINE s == Flipped(sub[d], sub[d].change.to)
  <2>1. sub[d] \in Sub /\ sub[d].change.to \in Plans /\ Exists(d)
    BY <1>18, <1>a, DocOf DEF Rollover, IsDue, Exists, Sub, Change, NoChange
  <2>2. s \in Sub /\ s.plan = sub[d].change.to
    BY <2>1, Built
  <2>3. sub' = [sub EXCEPT ![d] = s] /\ UNCHANGED req /\ ~raced
        /\ plan' = sub[d].change.to /\ eff' = plan' /\ NoneTorn
    BY <1>18 DEF Rollover, SetPlan, NoneTorn
  <2> HIDE DEF s
  <2>4. OneDoc' /\ Copies'
    BY <1>a, <1>b, <2>1, <2>2, <2>3, Written DEF CalmBody
  <2>5. NoneTorn' /\ OneTorn'
    BY <2>3 DEF NoneTorn, OneTorn, Torn
  <2> QED BY <2>3, <2>4, <2>5 DEF CalmBody, NoneTorn
<1>19. ASSUME NEW p \in Plans, NEW e \in Plans \cup {OwnLimits}, UpdateOrganization(p, e)
       PROVE  CalmBody'
  <2>1. ~raced /\ ~patched /\ UNCHANGED <<plan, eff, sub, req>>
    BY <1>19 DEF UpdateOrganization, TypeOK
  <2> QED BY <1>b, <1>d, <1>f, <2>1, Still
<1>20. ASSUME PeriodEnds PROVE CalmBody'
  <2>1. sub' = [d \in Docs |-> Passed(sub[d])] /\ req' = [r \in Requests |-> PassedTask(req[r])]
        /\ UNCHANGED <<plan, eff, raced, patched>>
    BY <1>20 DEF PeriodEnds
  <2>2. \A d \in Docs : /\ sub'[d] # NoSub <=> Exists(d)
                        /\ Exists(d) => sub'[d].plan = sub[d].plan
    BY <1>a, <2>1, Built, DocOf DEF Exists
  <2>3. ASSUME NEW r \in Requests
        PROVE  (Torn(r)' <=> Torn(r)) /\ (Torn(r) => req'[r] = req[r])
    <3>1. CASE req[r].op \in {"check", "schedule"}
      <4>1. req[r] \in ScheduleTask /\ PassedTask(req[r]) = [req[r] EXCEPT !.at = 0]
        BY <1>a, <3>1, TaskOf DEF PassedTask
      <4>2. PassedTask(req[r]).op = req[r].op
        BY <4>1 DEF ScheduleTask
      <4> QED BY <2>1, <3>1, <4>2 DEF Torn
    <3>2. CASE req[r].op \notin {"check", "schedule"}
      BY <2>1, <3>2 DEF PassedTask, Torn
    <3> QED BY <3>1, <3>2
  <2> QED BY <1>b, <2>1, <2>2, <2>3, Still
<1>21. ASSUME UNCHANGED vars PROVE CalmBody'
  BY <1>21, <1>b, <1>d, <1>f, Still DEF vars
<1> QED
  BY StepCases, <1>1, <1>2, <1>3, <1>4, <1>5, <1>6, <1>7, <1>8, <1>9, <1>10,
     <1>11, <1>12, <1>13, <1>14, <1>15, <1>16, <1>17, <1>18, <1>19, <1>20, <1>21

\* PlansAgree for every number of plans and operations.
THEOREM PlansStayTogether == Spec => []PlansAgree
<1>1. Init => IInv
  <2> SUFFICES ASSUME Init PROVE IInv
    OBVIOUS
  <2>1. TypeOK /\ Known
    BY InitTypeKnown
  <2>2. OneDoc /\ Copies /\ eff = plan
    BY DEF Init, OneDoc, Copies, Exists
  <2>3. NoneTorn /\ OneTorn
    BY DEF Init, NoneTorn, OneTorn, Torn, New
  <2> QED BY <2>1, <2>2, <2>3 DEF IInv, Calm, CalmBody, NoneTorn
<1>2. IInv /\ [Next]_vars => IInv'
  BY TypeKnownStep, CalmStep DEF IInv
<1>3. IInv => PlansAgree
  BY DEF IInv, Calm, CalmBody, NoneTorn, Copies, PlansAgree, IsFound
<1> QED BY <1>1, <1>2, <1>3, PTL DEF Spec

-----------------------------------------------------------------------------
(* One operation at a time.                                                *)

InFlight(r) == req[r] \notin {New, Over}

Serial == \A r, s \in Requests : InFlight(r) /\ InFlight(s) => r = s

\* No operation is left half done and the rollover meets none that is.
Whole ==
  /\ \A r \in Requests : Stop(r) => ~Torn(r)
  /\ \A d \in Docs : Rollover(d) => NoneTorn

\* The operations that may write a second document.
Places(task) == task.op \in {"upgrade", "upgraded", "place"} /\ task.isNew

Undisturbed == ~raced /\ \A r \in Requests : Places(req[r]) => NoneExists

\* Only operations in flight are half done or hold a document.
LEMMA Alone ==
  ASSUME Serial, NEW r \in Requests, InFlight(r)
  PROVE  ~Meets(r) /\ \A s \in Requests \ {r} : ~Places(req[s])
BY DEF Serial, InFlight, Meets, Torn, Places, New, Over

\* A step of the only operation in flight that ends with no document to place.
LEMMA LastStep ==
  ASSUME TypeOK, Serial, NEW r \in Requests, InFlight(r), NEW t \in Task,
         GoTo(r, t), t.op \notin {"upgrade", "upgraded", "place"}, ~raced'
  PROVE  Undisturbed'
BY Alone, Moves DEF Undisturbed, Places

\* A step that writes no document.
LEMMA ReadStep ==
  ASSUME TypeOK, Undisturbed, NEW r \in Requests, NEW t \in Task, GoTo(r, t),
         UNCHANGED sub, ~raced', Places(t) => NoneExists
  PROVE  Undisturbed'
<1>1. NoneExists' <=> NoneExists
  BY DEF NoneExists, Exists
<1>2. \A s \in Requests : Places(req'[s]) => NoneExists
  BY Moves DEF Undisturbed
<1> QED BY <1>1, <1>2 DEF Undisturbed, Places

LEMMA UndisturbedStep ==
  ASSUME TypeOK, Known, Serial, Serial', Whole, Undisturbed, Next
  PROVE  Undisturbed'
<1>a. /\ UpgradeTask \subseteq Task /\ ScheduleTask \subseteq Task /\ FlipTask \subseteq Task
      /\ SettleTask \subseteq Task /\ PlaceTask \subseteq Task /\ RevertTask \subseteq Task
      /\ New \in Task /\ Over \in Task /\ New.op = "new" /\ Over.op = "over"
  BY DEF Task, New, Over
<1>b. ~raced /\ \A r \in Requests : Places(req[r]) => NoneExists
  BY DEF Undisturbed
<1>1. ASSUME NEW r \in Requests, NEW to \in Paid, NEW d \in Docs, UpgradeReads(r, to, d)
      PROVE  Undisturbed'
  <2> DEFINE t == [op |-> "upgrade", to |-> to, doc |-> d, isNew |-> ~Exists(d),
                   trial |-> StartsTrial(d, to)]
  <2>1. t \in UpgradeTask
    BY DEF UpgradeTask, StartsTrial, Exists
  <2>2. GoTo(r, t) /\ UNCHANGED sub /\ ~raced'
    BY <1>1, <1>b DEF UpgradeReads
  <2>3. Places(t) => NoneExists
    BY <1>1 DEF UpgradeReads, Places, IsFound
  <2> HIDE DEF t
  <2> QED BY <1>a, <2>1, <2>2, <2>3, ReadStep
<1>2. ASSUME NEW r \in Requests, UpgradeCommits(r) PROVE Undisturbed'
  <2> DEFINE t == [req[r] EXCEPT !.op = "upgraded"]
  <2>1. req[r] \in UpgradeTask
    BY <1>2, TaskOf DEF UpgradeCommits
  <2>2. t \in UpgradeTask /\ t.isNew = req[r].isNew
    BY <2>1 DEF UpgradeTask
  <2>3. InFlight(r)
    BY <1>2, <1>a DEF UpgradeCommits, InFlight
  <2>4. GoTo(r, t) /\ UNCHANGED sub /\ ~raced'
    BY <1>2, <1>b, <2>3, Alone DEF UpgradeCommits
  <2>5. Places(t) => NoneExists
    BY <1>2, <1>b, <2>2 DEF UpgradeCommits, Places
  <2> HIDE DEF t
  <2> QED BY <1>a, <2>2, <2>4, <2>5, ReadStep
<1>3. ASSUME NEW r \in Requests, UpgradeWrites(r) PROVE Undisturbed'
  <2>1. req[r] \in UpgradeTask /\ req[r].to \in Plans /\ InFlight(r)
    BY <1>3, <1>a, TaskOf, PlanSets DEF UpgradeWrites, UpgradeTask, InFlight
  <2>2. [op |-> "refresh", to |-> req[r].to] \in FlipTask
    BY <2>1 DEF FlipTask
  <2>3. ~raced'
    BY <1>3, <1>b, <2>1, Alone DEF UpgradeWrites, Places
  <2> QED BY <1>3, <1>a, <2>1, <2>2, <2>3, LastStep DEF UpgradeWrites, Emit
<1>4. ASSUME NEW r \in Requests, NEW to \in Plans, NEW i \in BOOLEAN, DowngradeReads(r, to, i)
      PROVE  Undisturbed'
  <2>1. \A d \in Docs : [op |-> "check", to |-> to, doc |-> d, at |-> 1] \in ScheduleTask
    BY DEF ScheduleTask, Dates
  <2>2. [op |-> "flip", to |-> to] \in FlipTask
    BY DEF FlipTask
  <2>3. PICK t \in Task : GoTo(r, t) /\ t.op \in {"check", "flip"}
    BY <1>4, <1>a, <2>1, <2>2 DEF DowngradeReads
  <2>4. ~Places(t)
    BY <2>3 DEF Places
  <2> QED BY <1>4, <1>b, <2>3, <2>4, ReadStep DEF DowngradeReads
<1>5. ASSUME NEW r \in Requests, ScheduleChecks(r) PROVE Undisturbed'
  <2>1. req[r] \in ScheduleTask
    BY <1>5, TaskOf DEF ScheduleChecks
  <2>2. PICK t \in ScheduleTask : t = [req[r] EXCEPT !.op = "schedule"]
    BY <2>1 DEF ScheduleTask
  <2>3. ~Places(t)
    BY DEF Places, ScheduleTask
  <2> QED BY <1>5, <1>a, <1>b, <2>2, <2>3, ReadStep DEF ScheduleChecks
<1>6. ASSUME NEW r \in Requests, ScheduleWrites(r) \/ RevertWrites(r)
      PROVE  Undisturbed'
  <2>1. InFlight(r) /\ GoTo(r, Over) /\ ~raced'
    BY <1>6, <1>a, <1>b DEF ScheduleWrites, RevertWrites, InFlight, Done
  <2> QED BY <1>a, <2>1, LastStep
<1>7. ASSUME NEW r \in Requests, FlipCommits(r) PROVE Undisturbed'
  <2>1. req[r].to \in Plans /\ InFlight(r)
    BY <1>7, <1>a, TaskOf DEF FlipCommits, FlipTask, InFlight
  <2>2. PICK t \in FlipTask : t = [op |-> "flipped", to |-> req[r].to]
    BY <2>1 DEF FlipTask
  <2>3. ~raced' /\ ~Places(t)
    BY <1>7, <1>b, <2>1, <2>2, Alone DEF FlipCommits, Places
  <2> QED BY <1>7, <1>a, <2>2, <2>3, ReadStep DEF FlipCommits
<1>8. ASSUME NEW r \in Requests, FlipFinds(r) PROVE Undisturbed'
  <2>1. req[r].to \in Plans
    BY <1>8, TaskOf DEF FlipFinds, FlipTask
  <2>2. /\ \A d \in Docs : [op |-> "settle", to |-> req[r].to, doc |-> d] \in SettleTask
        /\ [op |-> "refresh", to |-> req[r].to] \in FlipTask
    BY <2>1 DEF SettleTask, FlipTask
  <2>3. PICK t \in Task : GoTo(r, t) /\ t.op \in {"settle", "refresh"}
    BY <1>8, <1>a, <2>2 DEF FlipFinds, Emit
  <2>4. ~Places(t)
    BY <2>3 DEF Places
  <2> QED BY <1>8, <1>b, <2>3, <2>4, ReadStep DEF FlipFinds
<1>9. ASSUME NEW r \in Requests, FlipWrites(r) PROVE Undisturbed'
  <2>1. req[r].to \in Plans /\ InFlight(r)
    BY <1>9, <1>a, TaskOf DEF FlipWrites, SettleTask, InFlight
  <2>2. [op |-> "refresh", to |-> req[r].to] \in FlipTask
    BY <2>1 DEF FlipTask
  <2>3. ~raced'
    BY <1>9, <1>b, <2>1, Alone DEF FlipWrites
  <2> QED BY <1>9, <1>a, <2>1, <2>2, <2>3, LastStep DEF FlipWrites, Emit
<1>10. ASSUME NEW r \in Requests, Refresh(r) \/ AssignWrites(r) PROVE Undisturbed'
  <2>1. InFlight(r) /\ GoTo(r, Over)
    BY <1>10, <1>a DEF Refresh, AssignWrites, InFlight, Done
  <2>2. ~raced'
    BY <1>10, <1>b, <2>1, Alone DEF Refresh, AssignWrites, Places
  <2> QED BY <1>a, <2>1, <2>2, LastStep
<1>11. ASSUME NEW r \in Requests, NEW d \in Docs, RevertReads(r, d) PROVE Undisturbed'
  <2>1. PICK t \in RevertTask : t = [op |-> "revert", doc |-> d]
    BY DEF RevertTask
  <2>2. ~Places(t)
    BY <2>1 DEF Places
  <2> QED BY <1>11, <1>a, <1>b, <2>1, <2>2, ReadStep DEF RevertReads
<1>12. ASSUME NEW r \in Requests, NEW to \in Plans, AssignCommits(r, to) PROVE Undisturbed'
  <2>1. PICK t \in FlipTask : t = [op |-> "assigned", to |-> to]
    BY DEF FlipTask
  <2>2. GoTo(r, t) /\ UNCHANGED sub /\ ~Places(t)
    BY <1>12, <2>1 DEF AssignCommits, Places
  <2>3. req'[r] = t /\ \A s \in Requests \ {r} : req'[s] = req[s]
    BY <1>a, <2>2, Moves
  <2>4. InFlight(r)'
    BY <1>a, <2>1, <2>3 DEF InFlight
  <2>5. \A s \in Requests \ {r} : ~InFlight(s)
    BY <2>3, <2>4 DEF Serial, InFlight
  <2>6. ~Meets(r)
    BY <2>5 DEF Meets, Torn, InFlight, New, Over
  <2> QED BY <1>12, <1>a, <1>b, <2>2, <2>6, ReadStep DEF AssignCommits
<1>13. ASSUME NEW r \in Requests, NEW d \in Docs, AssignFinds(r, d) PROVE Undisturbed'
  <2> DEFINE t == [op |-> "place", to |-> req[r].to, doc |-> d, isNew |-> ~Exists(d)]
  <2>1. req[r].to \in Plans
    BY <1>13, TaskOf DEF AssignFinds, FlipTask
  <2>2. t \in PlaceTask
    BY <2>1 DEF PlaceTask, Exists
  <2>3. GoTo(r, t) /\ UNCHANGED sub /\ ~raced'
    BY <1>13, <1>b DEF AssignFinds
  <2>4. Places(t) => NoneExists
    BY <1>13 DEF AssignFinds, Places, IsFound
  <2> HIDE DEF t
  <2> QED BY <1>a, <2>2, <2>3, <2>4, ReadStep
<1>14. ASSUME NEW r \in Requests, Stop(r) PROVE Undisturbed'
  <2>1. GoTo(r, Over) /\ UNCHANGED sub /\ ~raced' /\ ~Places(Over)
    BY <1>14, <1>a, <1>b DEF Stop, Done, Whole, Places
  <2> QED BY <1>a, <2>1, ReadStep
<1>15. ASSUME NEW d \in Docs, MarkPastDue(d) \/ Rollover(d) PROVE Undisturbed'
  <2>1. ~NoneExists
    BY <1>15 DEF MarkPastDue, Rollover, IsDue, IsFound, NoneExists
  <2>2. ~raced' /\ UNCHANGED req
    <3>1. CASE MarkPastDue(d)
      BY <3>1, <1>b DEF MarkPastDue
    <3>2. CASE Rollover(d)
      <4>1. ~\E s \in Requests : Torn(s)
        BY <3>2, Zenon DEF Whole, NoneTorn
      <4> QED BY <3>2, <4>1, <1>b DEF Rollover
    <3> QED BY <1>15, <3>1, <3>2
  <2> QED BY <1>b, <2>1, <2>2 DEF Undisturbed, Places
<1>16. ASSUME PeriodEnds PROVE Undisturbed'
  <2>1. \A d \in Docs : sub'[d] # NoSub <=> Exists(d)
    BY <1>16, Built, DocOf DEF PeriodEnds, Exists
  <2>2. NoneExists' <=> NoneExists
    BY <2>1 DEF NoneExists, Exists
  <2>3. ASSUME NEW r \in Requests, Places(req'[r]) PROVE Places(req[r])
    <3>1. CASE req[r].op \in {"check", "schedule"}
      <4>1. req[r] \in ScheduleTask
        BY <3>1, TaskOf
      <4> QED BY <1>16, <2>3, <3>1, <4>1 DEF PeriodEnds, PassedTask, ScheduleTask, Places
    <3>2. CASE req[r].op \notin {"check", "schedule"}
      BY <1>16, <2>3, <3>2 DEF PeriodEnds, PassedTask
    <3> QED BY <3>1, <3>2
  <2>4. ~raced'
    BY <1>16, <1>b DEF PeriodEnds
  <2> QED BY <1>b, <2>2, <2>3, <2>4 DEF Undisturbed, Places
<1>17. ASSUME NEW p \in Plans, NEW e \in Plans \cup {OwnLimits}, UpdateOrganization(p, e)
       PROVE  Undisturbed'
  BY <1>17, <1>b DEF UpdateOrganization, Undisturbed, Places, NoneExists, Exists
<1> QED
  BY <1>1, <1>2, <1>3, <1>4, <1>5, <1>6, <1>7, <1>8, <1>9, <1>10, <1>11, <1>12,
     <1>13, <1>14, <1>15, <1>16, <1>17 DEF Next

\* Overlaps, half-done operations and PATCHes are the only things that part the
\* copies: if the organisation runs one operation at a time to its end and the
\* rollover comes between two of them, its plan, its limits and its
\* subscription agree after each (subscription.service.ts:273-340), but for
\* what a PATCH wrote over the last change (organization.service.ts:122); it
\* may come anywhere, and the next complete change mends the copies.
THEOREM PlansAgreeWhenSerial ==
  Spec /\ []Serial /\ [][Whole]_vars
    => [](NoneTorn /\ ~patched =>
            /\ eff = plan
            /\ \A d \in Docs : IsFound(d) => sub[d].plan = plan
            /\ NoneExists => plan = 0)
<1> DEFINE Agree == NoneTorn /\ ~patched =>
                      /\ eff = plan
                      /\ \A d \in Docs : IsFound(d) => sub[d].plan = plan
                      /\ NoneExists => plan = 0
<1>1. Init => Undisturbed
  BY DEF Init, Undisturbed, Places, New
<1>2. Init => TypeOK /\ Known
  BY InitTypeKnown
<1>3. TypeOK /\ Known /\ [Next]_vars => TypeOK' /\ Known'
  BY TypeKnownStep
<1>4. TypeOK /\ Known /\ Serial /\ Serial' /\ [Whole]_vars /\ Undisturbed /\ [Next]_vars
        => Undisturbed'
  <2>1. UNCHANGED vars /\ Undisturbed => Undisturbed'
    BY DEF vars, Undisturbed, NoneExists, Exists, Places
  <2> QED BY <2>1, UndisturbedStep
<1>5. Undisturbed /\ PlansAgree => Agree
  BY DEF Undisturbed, PlansAgree, NoneTorn
<1> QED BY <1>1, <1>2, <1>3, <1>4, <1>5, PlansStayTogether, PTL DEF Spec
=============================================================================
