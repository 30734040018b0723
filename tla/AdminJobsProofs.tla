---------------------------- MODULE AdminJobsProofs ----------------------------
(***************************************************************************)
(* Proofs about AdminJobs for every finite set of runs and every length of *)
(* the lease.                                                              *)
(*                                                                         *)
(* The bound on the overlap is not inductive: it needs to know whom the    *)
(* lock protects.  A stray is a run inside within its lease that the lock  *)
(* does not name; a run that is gone outlived its lease and deleted, or    *)
(* left, a lock.  Only a gone run makes a stray, and it makes one.         *)
(***************************************************************************)
EXTENDS AdminJobs, FiniteSetTheorems, TLAPS

Armed == {"locked", "created", "started", "racing"}

\* The run a lock in force names.
Protected == IF lock.left > 0 THEN {lock.run} ELSE {}

Strays == InTime \ Protected

Gone == {r \in overran : pc[r] \notin Holding}

\* Who holds on past its lease is recorded.
Leased == \A r \in Runs : pc[r] \in Holding /\ r \notin overran => lease[r] > 0

\* The lock of a run that is still inside ends with its lease.
Owned ==
  \A r \in Runs : lock.run = r /\ pc[r] \in Holding => lock.left = lease[r]

\* A timer that is set outlasts the lease.
TimerOutlasts ==
  \A r \in Runs : timer[r] # Off => pc[r] \in Armed /\ lease[r] <= timer[r]

\* A handler nobody listens to has outlived its lease.
Rogues == \A r \in working : pc[r] # "racing" => r \in overran

\* Only a run that took the lock can have outlived its lease.
Entered ==
  \A r \in overran \cup working : pc[r] \notin {"new", "asking", "refused"}

StraysAreFew == Cardinality(Strays) <= Cardinality(Gone)

IInv ==
  /\ TypeOK /\ Leased /\ Owned /\ TimerOutlasts /\ Rogues /\ Entered
  /\ StraysAreFew

\* The sets that are counted are finite.
LEMMA Finite ==
  ASSUME TypeOK
  PROVE  /\ IsFiniteSet(InTime) /\ IsFiniteSet(Strays) /\ IsFiniteSet(Gone)
         /\ IsFiniteSet(overran)
<1>1. /\ InTime \in SUBSET Runs /\ Strays \in SUBSET Runs
      /\ Gone \in SUBSET Runs /\ overran \in SUBSET Runs
  BY DEF TypeOK, InTime, Strays, Gone
<1> QED BY <1>1, FS_Subset, RunAssumption

\* A step that makes no stray and forgets no gone run keeps the inequality.
LEMMA NoNewStray ==
  ASSUME TypeOK, TypeOK', StraysAreFew, Strays' \subseteq Strays,
         Gone \subseteq Gone'
  PROVE  StraysAreFew'
<1>1. /\ IsFiniteSet(Strays) /\ IsFiniteSet(Gone) /\ IsFiniteSet(Gone')
      /\ IsFiniteSet(Strays')
  <2>1. Strays' \in SUBSET Runs /\ Gone' \in SUBSET Runs
    BY DEF TypeOK, InTime, Strays, Gone
  <2> QED BY <2>1, Finite, FS_Subset, RunAssumption
<1>2. Cardinality(Strays') <= Cardinality(Strays)
  BY <1>1, FS_Subset
<1>3. Cardinality(Gone) <= Cardinality(Gone')
  BY <1>1, FS_Subset
<1>4. /\ Cardinality(Strays) \in Nat /\ Cardinality(Gone) \in Nat
      /\ Cardinality(Strays') \in Nat /\ Cardinality(Gone') \in Nat
  BY <1>1, FS_CardinalityType
<1>5. Cardinality(Strays) <= Cardinality(Gone)
  BY DEF StraysAreFew
<1>6. Cardinality(Strays') <= Cardinality(Gone')
  BY <1>2, <1>3, <1>4, <1>5
<1> QED BY <1>6 DEF StraysAreFew

\* Counting a time down keeps it in its range and keeps the order.
LEMMA DownType ==
  /\ \A n \in 0..MaxRun : Down(n) \in 0..MaxRun /\ Down(n) <= n
  /\ \A n \in Off..MaxRun : Down(n) \in Off..MaxRun /\ (Down(n) # Off <=> n # Off)
  /\ \A n \in 0..MaxRun, m \in 0..MaxRun : n <= m => Down(n) <= Down(m)
BY TimeAssumption DEF Down, Off

LEMMA InitIInv == Init => IInv
<1> SUFFICES ASSUME Init PROVE IInv
  OBVIOUS
<1>1. TypeOK
  BY RunAssumption, TimeAssumption
  DEF Init, TypeOK, NoLock, RowStatus, Place, Holding, Off
<1>2. Strays = {} /\ Gone = {}
  BY DEF Init, Strays, Gone, InTime, Inside, Holding
<1>3. StraysAreFew
  BY <1>2, FS_EmptySet DEF StraysAreFew
<1>4. Leased /\ Owned /\ TimerOutlasts /\ Rogues /\ Entered
  BY DEF Init, Entered, Leased, Owned, TimerOutlasts, Rogues, Holding, Armed, Off
<1> QED BY <1>1, <1>3, <1>4 DEF IInv

-----------------------------------------------------------------------------
\* The disjuncts of a step, one name for the proofs to split on.
LEMMA StepCases ==
  ASSUME [Next]_vars
  PROVE  \/ \E r \in Runs : Trigger(r)
         \/ \E r \in Runs : Refuse(r)
         \/ \E r \in Runs : Acquire(r)
         \/ \E r \in Runs : CreateRow(r)
         \/ \E r \in Runs : MarkRunning(r)
         \/ \E r \in Runs : StartHandler(r)
         \/ \E r \in Runs : WriteFails(r)
         \/ \E r \in Runs : HandlerSettles(r)
         \/ \E r \in Runs : TimerFires(r)
         \/ \E r \in Runs : WriteOutcome(r, "succeeding", "succeeded")
         \/ \E r \in Runs : WriteOutcome(r, "failing", "failed")
         \/ \E r \in Runs : OutcomeIsLost(r)
         \/ \E r \in Runs : Release(r)
         \/ \E r \in Runs : ReleaseFails(r)
         \/ \E r \in Runs : Die(r)
         \/ Tick
         \/ UNCHANGED vars
BY DEF Next, Proceed

LEMMA TypeStep == TypeOK /\ [Next]_vars => TypeOK'
<1> SUFFICES ASSUME TypeOK, [Next]_vars PROVE TypeOK'
  OBVIOUS
<1> USE DEF RowStatus, Place, Holding, Off
<1>1. ASSUME NEW r \in Runs, Trigger(r) PROVE TypeOK'
  BY <1>1, TimeAssumption DEF TypeOK, Trigger, GoTo
<1>2. ASSUME NEW r \in Runs, Refuse(r) PROVE TypeOK'
  BY <1>2 DEF TypeOK, Refuse, GoTo
<1>3. ASSUME NEW r \in Runs, Acquire(r) PROVE TypeOK'
  BY <1>3, TimeAssumption DEF TypeOK, Acquire, GoTo
<1>4. ASSUME NEW r \in Runs, CreateRow(r) PROVE TypeOK'
  BY <1>4 DEF TypeOK, CreateRow, GoTo
<1>5. ASSUME NEW r \in Runs, MarkRunning(r) PROVE TypeOK'
  BY <1>5 DEF TypeOK, MarkRunning, GoTo
<1>6. ASSUME NEW r \in Runs, StartHandler(r) PROVE TypeOK'
  BY <1>6 DEF TypeOK, StartHandler, GoTo
<1>7. ASSUME NEW r \in Runs, WriteFails(r) PROVE TypeOK'
  BY <1>7, TimeAssumption DEF TypeOK, WriteFails, Finally, GoTo
<1>8. ASSUME NEW r \in Runs, HandlerSettles(r) PROVE TypeOK'
  BY <1>8, TimeAssumption DEF TypeOK, HandlerSettles, Finally, GoTo
<1>9. ASSUME NEW r \in Runs, TimerFires(r) PROVE TypeOK'
  BY <1>9, TimeAssumption
  DEF TypeOK, TimerFires, GoTo, ListensToAbort
<1>10. ASSUME NEW r \in Runs, WriteOutcome(r, "succeeding", "succeeded")
       PROVE  TypeOK'
  BY <1>10 DEF TypeOK, WriteOutcome, GoTo
<1>11. ASSUME NEW r \in Runs, WriteOutcome(r, "failing", "failed")
       PROVE  TypeOK'
  BY <1>11 DEF TypeOK, WriteOutcome, GoTo
<1>12. ASSUME NEW r \in Runs, OutcomeIsLost(r) PROVE TypeOK'
  BY <1>12 DEF TypeOK, OutcomeIsLost, GoTo
<1>13. ASSUME NEW r \in Runs, Release(r) PROVE TypeOK'
  BY <1>13, TimeAssumption DEF TypeOK, Release, GoTo, NoLock
<1>14. ASSUME NEW r \in Runs, ReleaseFails(r) PROVE TypeOK'
  BY <1>14 DEF TypeOK, ReleaseFails, GoTo
<1>15. ASSUME NEW r \in Runs, Die(r) PROVE TypeOK'
  BY <1>15, TimeAssumption DEF TypeOK, Die, Finally, GoTo
<1>16. ASSUME Tick PROVE TypeOK'
  BY <1>16, DownType DEF TypeOK, Tick
<1>17. ASSUME UNCHANGED vars PROVE TypeOK'
  BY <1>17 DEF TypeOK, vars
<1> QED
  BY StepCases, <1>1, <1>2, <1>3, <1>4, <1>5, <1>6, <1>7, <1>8, <1>9, <1>10,
     <1>11, <1>12, <1>13, <1>14, <1>15, <1>16, <1>17

\* Who is inside past its lease is known, whoever moves.
LEMMA SideStep ==
  ASSUME TypeOK, Leased, Owned, TimerOutlasts, Rogues, Entered, [Next]_vars
  PROVE  Leased' /\ Owned' /\ TimerOutlasts' /\ Rogues' /\ Entered'
<1> USE DEF Entered, Leased, Owned, TimerOutlasts, Rogues, Holding, Off, Armed
<1>1. ASSUME NEW r \in Runs, Trigger(r)
      PROVE  Leased' /\ Owned' /\ TimerOutlasts' /\ Rogues' /\ Entered'
  BY <1>1 DEF TypeOK, Trigger, GoTo
<1>2. ASSUME NEW r \in Runs, Refuse(r)
      PROVE  Leased' /\ Owned' /\ TimerOutlasts' /\ Rogues' /\ Entered'
  BY <1>2 DEF TypeOK, Refuse, GoTo
<1>3. ASSUME NEW r \in Runs, Acquire(r)
      PROVE  Leased' /\ Owned' /\ TimerOutlasts' /\ Rogues' /\ Entered'
  BY <1>3, TimeAssumption DEF TypeOK, Acquire, GoTo
<1>4. ASSUME NEW r \in Runs, CreateRow(r)
      PROVE  Leased' /\ Owned' /\ TimerOutlasts' /\ Rogues' /\ Entered'
  BY <1>4 DEF TypeOK, CreateRow, GoTo
<1>5. ASSUME NEW r \in Runs, MarkRunning(r)
      PROVE  Leased' /\ Owned' /\ TimerOutlasts' /\ Rogues' /\ Entered'
  BY <1>5 DEF TypeOK, MarkRunning, GoTo
<1>6. ASSUME NEW r \in Runs, StartHandler(r)
      PROVE  Leased' /\ Owned' /\ TimerOutlasts' /\ Rogues' /\ Entered'
  BY <1>6 DEF TypeOK, StartHandler, GoTo
<1>7. ASSUME NEW r \in Runs, WriteFails(r)
      PROVE  Leased' /\ Owned' /\ TimerOutlasts' /\ Rogues' /\ Entered'
  BY <1>7 DEF TypeOK, WriteFails, Finally, GoTo
<1>8. ASSUME NEW r \in Runs, HandlerSettles(r)
      PROVE  Leased' /\ Owned' /\ TimerOutlasts' /\ Rogues' /\ Entered'
  BY <1>8 DEF TypeOK, HandlerSettles, Finally, GoTo
<1>9. ASSUME NEW r \in Runs, TimerFires(r)
      PROVE  Leased' /\ Owned' /\ TimerOutlasts' /\ Rogues' /\ Entered'
  <2>1. pc[r] \in Armed /\ lease[r] = 0 /\ r \in overran
    BY <1>9 DEF TypeOK, TimerFires
  <2> QED
    BY <1>9, <2>1 DEF TypeOK, TimerFires, GoTo, ListensToAbort
<1>10. ASSUME NEW r \in Runs, NEW place \in {"succeeding", "failing"},
              NEW status, WriteOutcome(r, place, status)
       PROVE  Leased' /\ Owned' /\ TimerOutlasts' /\ Rogues' /\ Entered'
  BY <1>10 DEF TypeOK, WriteOutcome, GoTo
<1>12. ASSUME NEW r \in Runs, OutcomeIsLost(r)
       PROVE  Leased' /\ Owned' /\ TimerOutlasts' /\ Rogues' /\ Entered'
  BY <1>12 DEF TypeOK, OutcomeIsLost, GoTo
<1>13. ASSUME NEW r \in Runs, Release(r)
       PROVE  Leased' /\ Owned' /\ TimerOutlasts' /\ Rogues' /\ Entered'
  BY <1>13, RunAssumption DEF TypeOK, Release, GoTo, NoLock
<1>14. ASSUME NEW r \in Runs, ReleaseFails(r)
       PROVE  Leased' /\ Owned' /\ TimerOutlasts' /\ Rogues' /\ Entered'
  BY <1>14 DEF TypeOK, ReleaseFails, GoTo
<1>15. ASSUME NEW r \in Runs, Die(r)
       PROVE  Leased' /\ Owned' /\ TimerOutlasts' /\ Rogues' /\ Entered'
  BY <1>15 DEF TypeOK, Die, Finally, GoTo
<1>16. ASSUME Tick PROVE Leased' /\ Owned' /\ TimerOutlasts' /\ Rogues' /\ Entered'
  <2>1. Leased'
    <3> SUFFICES ASSUME NEW r \in Runs, pc[r] \in Holding, r \notin overran'
                 PROVE  lease'[r] > 0
      BY <1>16 DEF Tick
    <3>1. lease'[r] = Down(lease[r]) /\ Down(lease[r]) \in 0..MaxRun
      BY <1>16, DownType DEF TypeOK, Tick
    <3>2. Down(lease[r]) # 0
      BY <1>16 DEF Tick, Inside
    <3> QED BY <3>1, <3>2, TimeAssumption
  <2>3. Owned' /\ Rogues' /\ Entered'
    BY <1>16 DEF TypeOK, Tick, Inside
  <2>2. TimerOutlasts'
    BY <1>16, TimeAssumption DEF TypeOK, Tick, Down
  <2> QED BY <2>1, <2>2, <2>3
<1>17. ASSUME UNCHANGED vars
       PROVE  Leased' /\ Owned' /\ TimerOutlasts' /\ Rogues' /\ Entered'
  BY <1>17 DEF vars
<1> QED
  BY StepCases, <1>1, <1>2, <1>3, <1>4, <1>5, <1>6, <1>7, <1>8, <1>9, <1>10,
     <1>12, <1>13, <1>14, <1>15, <1>16, <1>17

-----------------------------------------------------------------------------
\* A run that is inside within its lease is not a rogue.
LEMMA InTimeHolds ==
  ASSUME TypeOK, Rogues, NEW r \in InTime
  PROVE  r \in Runs /\ pc[r] \in Holding /\ r \notin overran
BY DEF InTime, Inside, Rogues, Holding

\* A deletion leaves one run without protection and takes one run out.
LEMMA ReleaseStrays ==
  ASSUME TypeOK, TypeOK', Rogues, Rogues', StraysAreFew,
         NEW r \in Runs, Release(r)
  PROVE  StraysAreFew'
<1> DEFINE left == Strays \ {r}
           lone == left \cup {lock.run}
<1>1. /\ IsFiniteSet(Strays) /\ IsFiniteSet(Gone)
      /\ IsFiniteSet(left) /\ IsFiniteSet(lone)
      /\ Cardinality(left) = IF r \in Strays THEN Cardinality(Strays) - 1
                                             ELSE Cardinality(Strays)
      /\ Cardinality(lone) <= Cardinality(left) + 1
      /\ Cardinality(left) \in Nat /\ Cardinality(lone) \in Nat
      /\ Cardinality(Strays) \in Nat /\ Cardinality(Gone) \in Nat
  <2>1. IsFiniteSet(Strays) /\ IsFiniteSet(Gone)
    BY Finite
  <2>2. /\ IsFiniteSet(left)
        /\ Cardinality(left) = IF r \in Strays THEN Cardinality(Strays) - 1
                                               ELSE Cardinality(Strays)
    BY <2>1, FS_RemoveElement
  <2>3. /\ IsFiniteSet(lone)
        /\ Cardinality(lone) = IF lock.run \in left THEN Cardinality(left)
                                                    ELSE Cardinality(left) + 1
    BY <2>2, FS_AddElement
  <2>4. Cardinality(left) \in Nat /\ Cardinality(lone) \in Nat
        /\ Cardinality(Strays) \in Nat /\ Cardinality(Gone) \in Nat
    BY <2>1, <2>2, <2>3, FS_CardinalityType
  <2> QED BY <2>1, <2>2, <2>3, <2>4
<1>2. InTime' = InTime \ {r}
  BY InTimeHolds DEF Release, GoTo, InTime, Inside, Rogues, Holding, TypeOK
<1>3. Strays' = InTime \ {r}
  BY <1>2, RunAssumption DEF Strays, Protected, Release, NoLock
<1>4. Strays' \subseteq lone
  BY <1>3 DEF Strays, Protected
<1>5. IsFiniteSet(Strays') /\ Cardinality(Strays') <= Cardinality(lone)
      /\ Cardinality(Strays') \in Nat
  BY <1>1, <1>4, FS_Subset, FS_CardinalityType
<1>6. Gone \subseteq Gone'
  BY DEF Gone, Release, GoTo, Holding, TypeOK
<1>7. CASE r \in Strays
  <2>1. IsFiniteSet(Gone') /\ Cardinality(Gone) <= Cardinality(Gone')
        /\ Cardinality(Gone') \in Nat
    <3>1. Gone' \in SUBSET Runs
      BY DEF Gone, TypeOK
    <3> QED BY <3>1, <1>6, FS_Subset, FS_CardinalityType, RunAssumption
  <2>2. Cardinality(Strays) <= Cardinality(Gone)
    BY DEF StraysAreFew
  <2>3. Cardinality(Strays') <= Cardinality(Gone')
    BY <1>1, <1>5, <1>7, <2>1, <2>2
  <2> QED BY <2>3 DEF StraysAreFew
<1>8. CASE r \in overran
  <2>1. Gone' = Gone \cup {r} /\ r \notin Gone
    BY <1>8 DEF Gone, Release, GoTo, Holding, TypeOK
  <2>2. Cardinality(Gone') = Cardinality(Gone) + 1
    BY <2>1, <1>1, FS_AddElement
  <2>3. Cardinality(Strays) <= Cardinality(Gone)
    BY DEF StraysAreFew
  <2>4. Cardinality(Strays') <= Cardinality(Gone')
    BY <1>1, <1>5, <2>2, <2>3
  <2> QED BY <2>4 DEF StraysAreFew
<1>9. CASE r \notin Strays /\ r \notin overran
  <2>1. r \in InTime
    BY <1>9 DEF InTime, Inside, Release, Holding
  <2>2. Strays' \subseteq Strays
    BY <1>3, <1>9, <2>1 DEF Strays, Protected
  <2> QED BY <2>2, <1>6, NoNewStray
<1> QED BY <1>7, <1>8, <1>9

LEMMA StraysStep ==
  ASSUME TypeOK, TypeOK', Leased, Owned, Rogues, Rogues', Entered,
         StraysAreFew, [Next]_vars
  PROVE  StraysAreFew'
<1> USE DEF Strays, Protected, Gone, InTime, Inside
<1>1. ASSUME NEW r \in Runs, Trigger(r) PROVE StraysAreFew'
  <2>1. Strays' \subseteq Strays /\ Gone \subseteq Gone'
    BY <1>1 DEF Trigger, GoTo, TypeOK, Holding
  <2> QED BY <2>1, NoNewStray
<1>2. ASSUME NEW r \in Runs, Refuse(r) PROVE StraysAreFew'
  <2>1. Strays' \subseteq Strays /\ Gone \subseteq Gone'
    BY <1>2 DEF Refuse, GoTo, TypeOK, Holding
  <2> QED BY <2>1, NoNewStray
<1>3. ASSUME NEW r \in Runs, Acquire(r) PROVE StraysAreFew'
  <2>1. Gone \subseteq Gone'
    BY <1>3 DEF Acquire, GoTo, Entered, TypeOK
  <2>2. Strays = InTime
    BY <1>3, RunAssumption DEF Acquire, LockIsFree
  <2>3. InTime' \subseteq InTime \cup {r}
    BY <1>3 DEF Acquire, GoTo, TypeOK
  <2>4. Strays' \subseteq InTime
    <3>1. CASE lease[r] = 0
      BY <1>3, <2>3, <3>1 DEF Acquire
    <3>2. CASE lease[r] # 0
      <4>1. Protected' = {r}
        BY <1>3, <3>2, TimeAssumption DEF Acquire, TypeOK
      <4> QED BY <2>3, <4>1
    <3> QED BY <3>1, <3>2
  <2> QED BY <2>1, <2>2, <2>4, NoNewStray
<1>4. ASSUME NEW r \in Runs, CreateRow(r) PROVE StraysAreFew'
  <2>1. Strays' \subseteq Strays /\ Gone \subseteq Gone'
    BY <1>4 DEF CreateRow, GoTo, TypeOK, Holding
  <2> QED BY <2>1, NoNewStray
<1>5. ASSUME NEW r \in Runs, MarkRunning(r) PROVE StraysAreFew'
  <2>1. Strays' \subseteq Strays /\ Gone \subseteq Gone'
    BY <1>5 DEF MarkRunning, GoTo, TypeOK, Holding
  <2> QED BY <2>1, NoNewStray
<1>6. ASSUME NEW r \in Runs, StartHandler(r) PROVE StraysAreFew'
  <2>1. Strays' \subseteq Strays /\ Gone \subseteq Gone'
    BY <1>6 DEF StartHandler, GoTo, TypeOK, Holding
  <2> QED BY <2>1, NoNewStray
<1>7. ASSUME NEW r \in Runs, WriteFails(r) PROVE StraysAreFew'
  <2>1. Strays' \subseteq Strays /\ Gone \subseteq Gone'
    BY <1>7 DEF WriteFails, Finally, GoTo, TypeOK, Holding
  <2> QED BY <2>1, NoNewStray
<1>8. ASSUME NEW r \in Runs, HandlerSettles(r) PROVE StraysAreFew'
  <2>1. Strays' \subseteq Strays /\ Gone \subseteq Gone'
    BY <1>8 DEF HandlerSettles, Finally, GoTo, TypeOK, Holding
  <2> QED BY <2>1, NoNewStray
<1>9. ASSUME NEW r \in Runs, TimerFires(r) PROVE StraysAreFew'
  <2>1. Strays' \subseteq Strays /\ Gone \subseteq Gone'
    BY <1>9 DEF TimerFires, ListensToAbort, GoTo, TypeOK, Holding
  <2> QED BY <2>1, NoNewStray
<1>10. ASSUME NEW r \in Runs, NEW place \in {"succeeding", "failing"},
              NEW status, WriteOutcome(r, place, status)
       PROVE StraysAreFew'
  <2>1. Strays' \subseteq Strays /\ Gone \subseteq Gone'
    BY <1>10 DEF WriteOutcome, GoTo, TypeOK, Holding
  <2> QED BY <2>1, NoNewStray
<1>12. ASSUME NEW r \in Runs, OutcomeIsLost(r) PROVE StraysAreFew'
  <2>1. Strays' \subseteq Strays /\ Gone \subseteq Gone'
    BY <1>12 DEF OutcomeIsLost, GoTo, TypeOK, Holding
  <2> QED BY <2>1, NoNewStray
<1>13. ASSUME NEW r \in Runs, Release(r) PROVE StraysAreFew'
  BY <1>13, ReleaseStrays
<1>14. ASSUME NEW r \in Runs, ReleaseFails(r) PROVE StraysAreFew'
  <2>1. Strays' \subseteq Strays /\ Gone \subseteq Gone'
    BY <1>14 DEF ReleaseFails, GoTo, TypeOK, Holding
  <2> QED BY <2>1, NoNewStray
<1>15. ASSUME NEW r \in Runs, Die(r) PROVE StraysAreFew'
  <2>1. Strays' \subseteq Strays /\ Gone \subseteq Gone'
    BY <1>15 DEF Die, Finally, GoTo, TypeOK, Holding
  <2> QED BY <2>1, NoNewStray
<1>16. ASSUME Tick PROVE StraysAreFew'
  <2>1. Gone \subseteq Gone'
    BY <1>16 DEF Tick
  <2>2. InTime' \subseteq InTime
    BY <1>16 DEF Tick
  <2>3. ASSUME NEW r \in InTime', lock.left > 0, lock.run = r
        PROVE  lock'.left > 0 /\ lock'.run = r
    <3>1. r \in Runs /\ pc[r] \in Holding /\ r \notin overran'
      BY <1>16, <2>2, <2>3, InTimeHolds DEF Tick
    <3>2. lock.left = lease[r]
      BY <2>3, <3>1 DEF Owned
    <3>3. Down(lease[r]) # 0
      BY <1>16, <3>1 DEF Tick
    <3>4. lock'.left = Down(lease[r]) /\ lock'.run = r
      BY <1>16, <2>3, <3>2 DEF Tick
    <3>5. lease[r] \in 0..MaxRun
      BY <3>1 DEF TypeOK
    <3>6. Down(lease[r]) > 0
      BY <3>3, <3>5, DownType, TimeAssumption
    <3> QED BY <3>4, <3>6
  <2>4. Strays' \subseteq Strays
    BY <2>2, <2>3
  <2> QED BY <2>1, <2>4, NoNewStray
<1>17. ASSUME UNCHANGED vars PROVE StraysAreFew'
  <2>1. Strays' = Strays /\ Gone' = Gone
    BY <1>17 DEF vars
  <2> QED BY <2>1, NoNewStray
<1> QED
  BY StepCases, <1>1, <1>2, <1>3, <1>4, <1>5, <1>6, <1>7, <1>8, <1>9, <1>10,
     <1>12, <1>13, <1>14, <1>15, <1>16, <1>17

-----------------------------------------------------------------------------
LEMMA Inductive == Spec => []IInv
<1>1. IInv /\ [Next]_vars => IInv'
  BY TypeStep, SideStep, StraysStep DEF IInv
<1> QED BY InitIInv, <1>1, PTL DEF Spec

\* The documents of the job keep their shapes in every behaviour.
THEOREM TypeCorrect == Spec => []TypeOK
<1>1. IInv => TypeOK
  BY DEF IInv
<1> QED BY Inductive, <1>1, PTL

\* BoundedOverlap for every number of runs: each run that outlives its lease
\* lets in at most one more, and none does as long as none did.
THEOREM OverlapIsBounded == Spec => []BoundedOverlap
<1>1. IInv => BoundedOverlap
  <2> SUFFICES ASSUME IInv PROVE BoundedOverlap
    OBVIOUS
  <2>1. /\ IsFiniteSet(InTime) /\ IsFiniteSet(Strays) /\ IsFiniteSet(Gone)
        /\ IsFiniteSet(overran)
    BY Finite DEF IInv
  <2>2. InTime \subseteq Strays \cup {lock.run}
    BY DEF Strays, Protected
  <2>3. /\ IsFiniteSet(Strays \cup {lock.run})
        /\ Cardinality(Strays \cup {lock.run}) <= Cardinality(Strays) + 1
    <3>1. Cardinality(Strays) \in Nat
      BY <2>1, FS_CardinalityType
    <3>2. /\ IsFiniteSet(Strays \cup {lock.run})
          /\ Cardinality(Strays \cup {lock.run}) =
               IF lock.run \in Strays THEN Cardinality(Strays)
                                      ELSE Cardinality(Strays) + 1
      BY <2>1, FS_AddElement
    <3> QED BY <3>1, <3>2
  <2>4. Cardinality(InTime) <= Cardinality(Strays \cup {lock.run})
    BY <2>2, <2>3, FS_Subset
  <2>5. Cardinality(Gone) <= Cardinality(overran)
    BY <2>1, FS_Subset, Gone \subseteq overran DEF Gone
  <2>6. Cardinality(Strays) <= Cardinality(Gone)
    BY DEF IInv, StraysAreFew
  <2>7. /\ Cardinality(InTime) \in Nat /\ Cardinality(Strays) \in Nat
        /\ Cardinality(Gone) \in Nat /\ Cardinality(overran) \in Nat
        /\ Cardinality(Strays \cup {lock.run}) \in Nat
    BY <2>1, <2>3, FS_CardinalityType
  <2>8. Cardinality(InTime) <= Cardinality(overran) + 1
    BY <2>3, <2>4, <2>5, <2>6, <2>7
  <2> QED BY <2>8 DEF BoundedOverlap
<1> QED BY Inductive, <1>1, PTL

\* The lock as its comment sells it (admin-jobs.service.ts:149-172): until a
\* run outlives its lease the job is run by one at a time, whatever fails,
\* dies or is refused.
THEOREM OneAtATime ==
  Spec => [](overran = {} => \A r, s \in Runs : Inside(r) /\ Inside(s) => r = s)
<1>1. IInv /\ BoundedOverlap
        => (overran = {} => \A r, s \in Runs : Inside(r) /\ Inside(s) => r = s)
  <2> SUFFICES ASSUME IInv, BoundedOverlap, overran = {},
                      NEW r \in Runs, NEW s \in Runs, Inside(r), Inside(s)
               PROVE  r = s
    OBVIOUS
  <2>1. r \in InTime /\ s \in InTime
    BY DEF InTime
  <2>2. IsFiniteSet(InTime) /\ Cardinality(InTime) \in Nat
    BY Finite, FS_CardinalityType DEF IInv
  <2>3. Cardinality(InTime) <= 1
    BY FS_EmptySet DEF BoundedOverlap
  <2>4. PICK x : InTime = {x}
    BY <2>1, <2>2, <2>3, FS_EmptySet, FS_Singleton
  <2> QED BY <2>1, <2>4
<1> QED BY Inductive, OverlapIsBounded, <1>1, PTL
=============================================================================
