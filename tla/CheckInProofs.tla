----------------------------- MODULE CheckInProofs -----------------------------
(***************************************************************************)
(* Proofs about CheckIn for every number of badges, zones, days, scanners  *)
(* and every set of policies.                                              *)
(*                                                                         *)
(* TypeOK is not inductive as it stands: that an entry is never dated      *)
(* after today needs that no item in flight is, and the two counts need    *)
(* that the locks are finitely many.                                       *)
(***************************************************************************)
EXTENDS CheckIn, FiniteSetTheorems, TLAPS

ItemsArePast ==
  \A s \in Scanners : scan[s].op = "item" => scan[s].day <= today

IInv ==
  /\ TypeOK
  /\ ItemsArePast
  /\ IsFiniteSet(locks)
  /\ CountIsInside
  /\ OneEntryPerLock

LocksOf(b) == {k \in locks : k[1] = b}

\* The key a scan claims names its badge and one of the scopes.
LEMMA LockKeyType ==
  ASSUME NEW b \in Badges, NEW z \in ScanZones, NEW d \in Days
  PROVE  \E sc \in Scopes : LockKey(b, z, d) = <<b, sc>>
<1>1. CASE scanPolicy = "multi_zone"
  <2>1. <<"zone", z>> \in Scopes
    BY DEF Scopes
  <2> QED BY <1>1, <2>1 DEF LockKey
<1>2. CASE scanPolicy = "multi_day"
  <2>1. <<"day", d>> \in Scopes
    BY DEF Scopes
  <2> QED BY <1>2, <2>1 DEF LockKey
<1>3. CASE scanPolicy \notin {"multi_zone", "multi_day"}
  <2>1. <<"single", NoZone>> \in Scopes
    BY DEF Scopes
  <2> QED BY <1>3, <2>1 DEF LockKey
<1> QED BY <1>1, <1>2, <1>3

\* The requests in flight have the fields their steps read.
LEMMA ScanFields ==
  ASSUME TypeOK, NEW s \in Scanners
  PROVE  /\ scan[s].op = "live" =>
              scan[s].badge \in Badges /\ scan[s].zone \in ScanZones
         /\ scan[s].op = "item" =>
              /\ scan[s].badge \in Badges /\ scan[s].zone \in ScanZones
              /\ scan[s].day \in Days
BY DEF TypeOK, Idle, Scan, Item

\* An entry dated no later than today preserves what the gate's variables
\* keep, and its row is a row.
LEMMA EnterKeeps ==
  ASSUME IInv, NEW b \in Badges, NEW z \in ScanZones, NEW d \in Days,
         d <= today, today' = today, Enter(b, z, d)
  PROVE  /\ reg' \in [Badges -> RegStatus]
         /\ checkedInAt' \in [Badges -> 0..today]
         /\ locks' \subseteq Keys
         /\ checkedInCount' \in Nat
         /\ zoneCount' \in [Zones -> Nat]
         /\ entries' \in [Badges -> Nat]
         /\ EntryRow(b, z, d) \in Rows
         /\ IsFiniteSet(locks')
         /\ CountIsInside'
         /\ OneEntryPerLock'
<1> USE DEF IInv, Enter
<1>1. PICK sc \in Scopes : LockKey(b, z, d) = <<b, sc>>
  BY LockKeyType
<1>2. LockKey(b, z, d) \in Keys
  BY <1>1 DEF Keys
<1>3. reg' \in [Badges -> RegStatus] /\ entries' \in [Badges -> Nat]
  BY DEF TypeOK, RegStatus
<1>4. checkedInAt' \in [Badges -> 0..today]
  BY DEF TypeOK, CachedDay, Days
<1>5. checkedInCount' \in Nat
  BY DEF TypeOK
<1>6. zoneCount' \in [Zones -> Nat]
  BY DEF TypeOK, ZoneTally
<1>7. locks' \subseteq Keys /\ EntryRow(b, z, d) \in Rows
  BY <1>2 DEF TypeOK, EntryRow, Rows
<1>8. IsFiniteSet(locks')
  BY FS_AddElement
<1>9. CountIsInside'
  <2>1. IsFiniteSet(Inside)
    BY BadgeAssumption, FS_Subset, Inside \subseteq Badges DEF Inside
  <2>2. Inside' = Inside \cup {b}
    BY DEF Inside, TypeOK
  <2>3. CASE IsFirstSuccess(b)
    <3>1. b \notin Inside
      BY <2>3 DEF Inside, IsFirstSuccess
    <3>2. Cardinality(Inside') = Cardinality(Inside) + 1
      BY <2>1, <2>2, <3>1, FS_AddElement
    <3> QED BY <2>3, <3>2 DEF CountIsInside
  <2>4. CASE ~IsFirstSuccess(b)
    <3>1. Inside' = Inside
      BY <2>2, <2>4 DEF Inside, IsFirstSuccess
    <3> QED BY <2>4, <3>1 DEF CountIsInside, TypeOK
  <2> QED BY <2>3, <2>4
<1>10. OneEntryPerLock'
  <2> SUFFICES ASSUME NEW c \in Badges
               PROVE  entries'[c] = Cardinality({k \in locks' : k[1] = c})
    BY DEF OneEntryPerLock
  <2>1. IsFiniteSet(LocksOf(c))
    BY FS_Subset, LocksOf(c) \subseteq locks DEF LocksOf
  <2>2. entries[c] = Cardinality(LocksOf(c))
    BY DEF OneEntryPerLock, LocksOf
  <2>3. CASE c = b
    <3>1. {k \in locks' : k[1] = c} = LocksOf(c) \cup {LockKey(b, z, d)}
      BY <1>1, <2>3 DEF LocksOf
    <3>2. LockKey(b, z, d) \notin LocksOf(c)
      BY DEF LocksOf, MayEnter, LockIsFree
    <3>3. Cardinality(LocksOf(c) \cup {LockKey(b, z, d)})
            = Cardinality(LocksOf(c)) + 1
      BY <2>1, <3>2, FS_AddElement
    <3> QED BY <2>2, <2>3, <3>1, <3>3 DEF TypeOK
  <2>4. CASE c # b
    <3>1. {k \in locks' : k[1] = c} = LocksOf(c)
      BY <1>1, <2>4 DEF LocksOf
    <3> QED BY <2>2, <2>4, <3>1 DEF TypeOK
  <2> QED BY <2>3, <2>4
<1> QED BY <1>3, <1>4, <1>5, <1>6, <1>7, <1>8, <1>9, <1>10

-----------------------------------------------------------------------------
LEMMA InitIInv == Init => IInv
<1> SUFFICES ASSUME Init PROVE IInv
  OBVIOUS
<1>1. TypeOK
  BY DayAssumption, PolicyAssumption DEF Init, TypeOK, RegStatus, Days
<1>2. ItemsArePast
  BY DEF Init, ItemsArePast, Idle
<1>3. IsFiniteSet(locks) /\ Cardinality({}) = 0
  BY FS_EmptySet DEF Init
<1>4. Inside = {} /\ \A b \in Badges : {k \in locks : k[1] = b} = {}
  BY DEF Init, Inside
<1>5. CountIsInside /\ OneEntryPerLock
  BY <1>3, <1>4 DEF Init, CountIsInside, OneEntryPerLock
<1> QED BY <1>1, <1>2, <1>3, <1>5 DEF IInv

\* A step that leaves the registrations' statuses and the locks alone keeps
\* the two counts.
LEMMA CountsKept ==
  ASSUME IInv, UNCHANGED <<locks, checkedInCount, entries>>, Inside' = Inside
  PROVE  IsFiniteSet(locks') /\ CountIsInside' /\ OneEntryPerLock'
BY DEF IInv, CountIsInside, OneEntryPerLock

\* Every step preserves the invariant.
LEMMA NextIInv == IInv /\ [Next]_vars => IInv'
<1> SUFFICES ASSUME IInv, [Next]_vars PROVE IInv'
  OBVIOUS
<1> USE DEF gate, event, trail
<1>t. TypeOK /\ ItemsArePast
  BY DEF IInv
<1>1. ASSUME NEW s \in Scanners, NEW b \in Badges, NEW z \in ScanZones,
             LiveVerify(s, b, z)
      PROVE  IInv'
  <2> USE <1>1 DEF LiveVerify
  <2>1. [op |-> "live", badge |-> b, zone |-> z] \in Scan
    BY DEF Scan
  <2>2. TypeOK' /\ ItemsArePast'
    BY <1>t, <2>1 DEF TypeOK, ItemsArePast
  <2> QED BY <2>2, CountsKept DEF IInv, Inside
<1>2. ASSUME NEW s \in Scanners, LiveEnter(s) PROVE IInv'
  <2> USE <1>2 DEF LiveEnter
  <2>1. scan[s].badge \in Badges /\ scan[s].zone \in ScanZones /\ today \in Days
    BY <1>t, ScanFields DEF TypeOK
  <2>2. today <= today
    BY <2>1 DEF Days
  <2>3. TypeOK'
    BY <1>t, <2>1, <2>2, EnterKeeps DEF TypeOK
  <2>4. ItemsArePast'
    BY <1>t DEF ItemsArePast, TypeOK, Idle
  <2> QED BY <2>1, <2>2, <2>3, <2>4, EnterKeeps DEF IInv
<1>3. ASSUME NEW s \in Scanners, LiveRefuse(s) \/ ItemRefuse(s) PROVE IInv'
  <2> USE <1>3 DEF LiveRefuse, ItemRefuse
  <2>1. TypeOK' /\ ItemsArePast'
    BY <1>t DEF TypeOK, ItemsArePast, Idle
  <2> QED BY <2>1, CountsKept DEF IInv, Inside
<1>4. ASSUME NEW s \in Scanners, NEW b \in Badges, NEW z \in ScanZones,
             NEW d \in Days, ItemVerify(s, b, z, d)
      PROVE  IInv'
  <2> USE <1>4 DEF ItemVerify
  <2>1. [op |-> "item", badge |-> b, zone |-> z, day |-> d] \in Item
    BY DEF Item
  <2>2. TypeOK' /\ ItemsArePast'
    BY <1>t, <2>1 DEF TypeOK, ItemsArePast, ClockPlausible
  <2> QED BY <2>2, CountsKept DEF IInv, Inside
<1>5. ASSUME NEW s \in Scanners, ItemEnter(s) PROVE IInv'
  <2> USE <1>5 DEF ItemEnter
  <2>1. /\ scan[s].badge \in Badges /\ scan[s].zone \in ScanZones
        /\ scan[s].day \in Days /\ scan[s].day <= today
    BY <1>t, ScanFields DEF ItemsArePast
  <2>2. TypeOK'
    BY <1>t, <2>1, EnterKeeps DEF TypeOK
  <2>3. ItemsArePast'
    BY <1>t DEF ItemsArePast, TypeOK, Idle
  <2> QED BY <2>1, <2>2, <2>3, EnterKeeps DEF IInv
<1>6. ASSUME NEW s \in Scanners, Crash(s) PROVE IInv'
  <2> USE <1>6 DEF Crash
  <2>1. TypeOK' /\ ItemsArePast'
    BY <1>t DEF TypeOK, ItemsArePast, Idle
  <2> QED BY <2>1, CountsKept DEF IInv, Inside
<1>7. ASSUME NEW r \in shadow, WriteShadow(r) PROVE IInv'
  <2> USE <1>7 DEF WriteShadow
  <2>1. TypeOK' /\ ItemsArePast'
    BY <1>t DEF TypeOK, ItemsArePast
  <2> QED BY <2>1, CountsKept DEF IInv, Inside
<1>8. ASSUME NEW b \in Badges, Approve(b) \/ Cancel(b) PROVE IInv'
  <2> USE <1>8 DEF Approve, Cancel
  <2>1. TypeOK' /\ ItemsArePast'
    BY <1>t DEF TypeOK, RegStatus, ItemsArePast
  <2>2. Inside' = Inside
    BY <1>t DEF Inside, TypeOK
  <2> QED BY <2>1, <2>2, CountsKept DEF IInv
<1>9. ASSUME NEW p \in Policies, SetScanPolicy(p) PROVE IInv'
  <2> USE <1>9 DEF SetScanPolicy
  <2>1. TypeOK' /\ ItemsArePast'
    BY <1>t DEF TypeOK, ItemsArePast
  <2> QED BY <2>1, CountsKept DEF IInv, Inside
<1>10. ASSUME NEW z \in Zones, NEW c \in 0..MaxCapacity, UpdateZones(z, c)
       PROVE  IInv'
  <2> USE <1>10 DEF UpdateZones
  <2>1. TypeOK' /\ ItemsArePast'
    BY <1>t DEF TypeOK, ItemsArePast
  <2> QED BY <2>1, CountsKept DEF IInv, Inside
<1>11. ASSUME Midnight PROVE IInv'
  <2> USE <1>11 DEF Midnight
  <2>1. today \in Nat /\ today' \in Days /\ today <= today'
    BY <1>t, DayAssumption DEF TypeOK, Days
  <2>2. checkedInAt' \in [Badges -> 0..today']
    BY <1>t, <2>1 DEF TypeOK, Days
  <2>3. TypeOK'
    BY <1>t, <2>1, <2>2 DEF TypeOK
  <2>4. ItemsArePast'
    BY <1>t, <2>1, ScanFields DEF ItemsArePast, Days
  <2> QED BY <2>3, <2>4, CountsKept DEF IInv, Inside
<1>12. ASSUME UNCHANGED vars PROVE IInv'
  <2>1. TypeOK' /\ ItemsArePast'
    BY <1>12, <1>t DEF vars, TypeOK, ItemsArePast
  <2> QED BY <1>12, <2>1, CountsKept DEF vars, IInv, Inside
<1> QED
  BY <1>1, <1>2, <1>3, <1>4, <1>5, <1>6, <1>7, <1>8, <1>9, <1>10, <1>11, <1>12
     DEF Next

LEMMA InvIInv == Spec => []IInv
BY InitIInv, NextIInv, PTL DEF Spec

\* The variables keep their types; no entry is dated after the day it is
\* recorded on, by a live scan or a synchronised one.
THEOREM TypeCorrect == Spec => []TypeOK
<1>1. IInv => TypeOK
  BY DEF IInv
<1> QED BY InvIInv, <1>1, PTL

\* event.checkedInCount counts the badges that are inside, whatever the number
\* of doors, devices, repeated batches and changes of the scan policy.
THEOREM CountCorrect == Spec => []CountIsInside
<1>1. IInv => CountIsInside
  BY DEF IInv
<1> QED BY InvIInv, <1>1, PTL

\* No badge is let in twice under one lock.
THEOREM EntriesCorrect == Spec => []OneEntryPerLock
<1>1. IInv => OneEntryPerLock
  BY DEF IInv
<1> QED BY InvIInv, <1>1, PTL

-----------------------------------------------------------------------------
LEMMA DoorInit == Init => Door!Init
BY DEF Init, Door!Init, Inside, Barred

\* An entry is an entry of the abstract door, in the scope of its lock.
LEMMA EnterAtDoor ==
  ASSUME TypeOK, NEW b \in Badges, NEW z \in ScanZones, NEW d \in Days,
         Enter(b, z, d)
  PROVE  Door!Next
<1>1. PICK sc \in Scopes : LockKey(b, z, d) = <<b, sc>>
  BY LockKeyType
<1>2. b \notin Barred /\ <<b, sc>> \notin locks
  BY <1>1 DEF Enter, MayEnter, Admissible, LockIsFree, Barred
<1>3. locks' = locks \cup {<<b, sc>>}
  BY <1>1 DEF Enter
<1>4. Inside' = Inside \cup {b} /\ Barred' = Barred
  BY DEF Enter, MayEnter, Admissible, Inside, Barred, TypeOK
<1>5. Door!Enter(b, sc)
  BY <1>2, <1>3, <1>4 DEF Door!Enter
<1> QED BY <1>5 DEF Door!Next

LEMMA DoorNext ==
  TypeOK /\ [Next]_vars => [Door!Next]_<<Inside, Barred, locks>>
<1> SUFFICES ASSUME TypeOK, [Next]_vars, ~UNCHANGED <<Inside, Barred, locks>>
             PROVE  Door!Next
  OBVIOUS
<1>1. ASSUME NEW s \in Scanners, LiveEnter(s) PROVE Door!Next
  BY <1>1, ScanFields, EnterAtDoor DEF LiveEnter, TypeOK
<1>2. ASSUME NEW s \in Scanners, ItemEnter(s) PROVE Door!Next
  BY <1>2, ScanFields, EnterAtDoor DEF ItemEnter
<1>3. ASSUME NEW b \in Badges, Cancel(b) PROVE Door!Next
  <2>1. Door!Bar(b)
    BY <1>3 DEF Cancel, Door!Bar, Inside, Barred, TypeOK
  <2> QED BY <2>1 DEF Door!Next
<1>4. ASSUME NEW b \in Badges, Approve(b) PROVE FALSE
  BY <1>4 DEF Approve, Inside, Barred, TypeOK
<1>5. ASSUME UNCHANGED <<reg, locks>> PROVE FALSE
  BY <1>5 DEF Inside, Barred
<1>6. \/ \E s \in Scanners : LiveEnter(s) \/ ItemEnter(s)
      \/ \E b \in Badges : Cancel(b) \/ Approve(b)
      \/ UNCHANGED <<reg, locks>>
  BY DEF Next, vars, gate, LiveVerify, LiveRefuse, ItemVerify, ItemRefuse,
         Crash, WriteShadow, SetScanPolicy, UpdateZones, Midnight
<1> QED BY <1>1, <1>2, <1>3, <1>4, <1>5, <1>6

\* The service implements the door: a badge enters once per scope, never after
\* its registration was cancelled, and what entered is never cancelled.
THEOREM Refinement == Spec => KeepsTheDoor
<1>1. Init => Door!Init
  BY DoorInit
<1>2. TypeOK /\ [Next]_vars => [Door!Next]_<<Inside, Barred, locks>>
  BY DoorNext
<1> QED BY <1>1, <1>2, TypeCorrect, PTL DEF Spec, KeepsTheDoor, Door!Spec

\* What follows from keeping the door: whatever is scanned live or synchronised
\* late, no cancelled registration was ever let in, and whoever is inside holds
\* the entry lock of a scope (registration.service.ts:780-856,
\* checkin.service.ts:317).
THEOREM DoorIsSound == Spec => []Door!Sound
<1>1. Door!Init => Door!Sound
  BY DEF Door!Init, Door!Sound
<1>2. Door!Sound /\ [Door!Next]_<<Inside, Barred, locks>> => Door!Sound'
  <2> SUFFICES ASSUME Door!Sound, [Door!Next]_<<Inside, Barred, locks>>
               PROVE  Door!Sound'
    OBVIOUS
  <2> USE DEF Door!Sound
  <2>1. ASSUME NEW b \in Badges, Door!Bar(b) PROVE Door!Sound'
    BY <2>1 DEF Door!Bar
  <2>2. ASSUME NEW b \in Badges, NEW s \in Scopes, Door!Enter(b, s)
        PROVE  Door!Sound'
    <3>1. /\ b \notin Barred /\ Barred' = Barred
          /\ Inside' = Inside \cup {b} /\ locks' = locks \cup {<<b, s>>}
      BY <2>2 DEF Door!Enter
    <3>2. Inside' \cap Barred' = {}
      BY <3>1
    <3>3. ASSUME NEW c \in Badges
          PROVE  c \in Inside' <=> \E t \in Scopes : <<c, t>> \in locks'
      BY <3>1
    <3>4. locks' \subseteq Badges \X Scopes
      BY <3>1
    <3>5. Inside' \subseteq Badges
      BY <3>1
    <3>6. Inside' = {c \in Badges : \E t \in Scopes : <<c, t>> \in locks'}
      BY <3>3, <3>5
    <3> QED BY <3>2, <3>4, <3>6
  <2>3. ASSUME UNCHANGED <<Inside, Barred, locks>> PROVE Door!Sound'
    BY <2>3
  <2> QED BY <2>1, <2>2, <2>3 DEF Door!Next
<1> QED BY Refinement, <1>1, <1>2, PTL DEF KeepsTheDoor, Door!Spec

-----------------------------------------------------------------------------
\* A zone is never counted beyond the capacity the scan's transaction read.
THEOREM ZonesCorrect == Spec => ZoneNeverOverfilled
<1> DEFINE Fits ==
      \A z \in Zones :
        zoneCount'[z] > zoneCount[z] =>
          capacity[z] = 0 \/ zoneCount'[z] <= capacity[z]
<1>1. TypeOK /\ [Next]_vars => Fits
  <2> SUFFICES ASSUME TypeOK, [Next]_vars PROVE Fits
    OBVIOUS
  <2>1. ASSUME NEW b \in Badges, NEW z \in ScanZones, NEW d \in Days,
               Enter(b, z, d)
        PROVE  Fits
    BY <2>1 DEF Enter, MayEnter, ZoneFull, ZoneTally, TypeOK
  <2>2. ASSUME NEW s \in Scanners, LiveEnter(s) \/ ItemEnter(s)
        PROVE  Fits
    BY <2>2, <2>1, ScanFields DEF LiveEnter, ItemEnter, TypeOK
  <2>3. ASSUME UNCHANGED zoneCount PROVE Fits
    BY <2>3 DEF TypeOK
  <2> QED
    BY <2>2, <2>3
       DEF Next, vars, gate, LiveVerify, LiveRefuse, ItemVerify, ItemRefuse,
           Crash, WriteShadow, SetScanPolicy, UpdateZones, Midnight, Approve,
           Cancel
<1> QED BY <1>1, TypeCorrect, PTL DEF Spec, ZoneNeverOverfilled

-----------------------------------------------------------------------------
Trail == rows \cup shadow
InZone(S, z) == {r \in S : r.zone = z}

TrailInv == IsFiniteSet(Trail) /\ TrailIsHonest

\* A successful scan adds one row at most, to the zone it counts.
LEMMA EnterTrail ==
  ASSUME TypeOK, TrailInv, NEW b \in Badges, NEW z \in ScanZones, NEW d \in Days,
         Enter(b, z, d), Trail' = Trail \cup {EntryRow(b, z, d)}
  PROVE  TrailInv'
<1>1. IsFiniteSet(Trail')
  BY FS_AddElement DEF TrailInv
<1>2. \A r \in Trail' : r.key \in locks'
  BY DEF TrailInv, TrailIsHonest, Trail, Enter, EntryRow
<1>3. ASSUME NEW y \in Zones
      PROVE  Cardinality(InZone(Trail', y)) <= zoneCount'[y]
  <2>1. IsFiniteSet(InZone(Trail, y)) /\ Cardinality(InZone(Trail, y)) \in Nat
    BY FS_Subset, FS_CardinalityType, InZone(Trail, y) \subseteq Trail
       DEF TrailInv, InZone
  <2>2. Cardinality(InZone(Trail, y)) <= zoneCount[y] /\ zoneCount[y] \in Nat
    BY DEF TrailInv, TrailIsHonest, InZone, Trail, TypeOK
  <2>3. CASE y = z
    <3> DEFINE old == InZone(Trail, y)
               new == old \cup {EntryRow(b, z, d)}
    <3>1. InZone(Trail', y) = new
      BY <2>3 DEF InZone, EntryRow
    <3>2. IsFiniteSet(new) /\ Cardinality(new) <= Cardinality(old) + 1
      <4> HIDE DEF old
      <4> QED BY <2>1, FS_AddElement DEF old
    <3>3. Cardinality(new) \in Nat
      BY <3>2, FS_CardinalityType
    <3>4. zoneCount'[y] = zoneCount[y] + 1
      BY <2>3 DEF Enter, ZoneTally, TypeOK
    <3> HIDE DEF new
    <3> QED BY <2>1, <2>2, <3>1, <3>2, <3>3, <3>4
  <2>4. CASE y # z
    <3>1. InZone(Trail', y) = InZone(Trail, y)
      BY <2>4 DEF InZone, EntryRow
    <3>2. zoneCount'[y] = zoneCount[y]
      BY <2>4 DEF Enter, ZoneTally, TypeOK
    <3> QED BY <2>2, <3>1, <3>2
  <2> QED BY <2>3, <2>4
<1> QED BY <1>1, <1>2, <1>3 DEF TrailInv, TrailIsHonest, Trail, InZone

\* Rows that are lost, or written late, do not make the trail dishonest.
LEMMA TrailShrinks ==
  ASSUME TypeOK, TrailInv, Trail' \subseteq Trail, UNCHANGED <<locks, zoneCount>>
  PROVE  TrailInv'
<1>1. IsFiniteSet(Trail')
  BY FS_Subset DEF TrailInv
<1>2. ASSUME NEW y \in Zones
      PROVE  Cardinality(InZone(Trail', y)) <= zoneCount'[y]
  <2>1. IsFiniteSet(InZone(Trail, y))
    BY FS_Subset, InZone(Trail, y) \subseteq Trail DEF TrailInv, InZone
  <2>2. InZone(Trail', y) \subseteq InZone(Trail, y)
    BY DEF InZone
  <2>3. /\ Cardinality(InZone(Trail', y)) <= Cardinality(InZone(Trail, y))
        /\ IsFiniteSet(InZone(Trail', y))
    BY <2>1, <2>2, FS_Subset
  <2>4. Cardinality(InZone(Trail, y)) <= zoneCount[y] /\ zoneCount[y] \in Nat
    BY DEF TrailInv, TrailIsHonest, InZone, Trail, TypeOK
  <2>5. /\ Cardinality(InZone(Trail, y)) \in Nat
        /\ Cardinality(InZone(Trail', y)) \in Nat
    BY <2>1, <2>3, FS_CardinalityType
  <2> QED BY <2>3, <2>4, <2>5
<1> QED BY <1>1, <1>2 DEF TrailInv, TrailIsHonest, Trail, InZone

\* The trail never invents an entry: every row stands for a lock, and a zone
\* shows no more rows than it counted, whatever rows are lost or late.
THEOREM TrailCorrect == Spec => []TrailIsHonest
<1>1. Init => TrailInv
  <2> SUFFICES ASSUME Init PROVE TrailInv
    OBVIOUS
  <2>1. Trail = {} /\ IsFiniteSet(Trail)
    BY FS_EmptySet DEF Init, Trail
  <2>2. \A z \in Zones : InZone(Trail, z) = {} /\ zoneCount[z] = 0
    BY <2>1 DEF Init, InZone
  <2>3. Cardinality({}) = 0
    BY FS_EmptySet
  <2> QED BY <2>1, <2>2, <2>3 DEF TrailInv, TrailIsHonest, Trail, InZone
<1>2. TypeOK /\ TrailInv /\ [Next]_vars => TrailInv'
  <2> SUFFICES ASSUME TypeOK, TrailInv, [Next]_vars PROVE TrailInv'
    OBVIOUS
  <2>1. ASSUME NEW s \in Scanners, LiveEnter(s) PROVE TrailInv'
    BY <2>1, ScanFields, EnterTrail DEF LiveEnter, Trail, TypeOK
  <2>2. ASSUME NEW s \in Scanners, ItemEnter(s) PROVE TrailInv'
    BY <2>2, ScanFields, EnterTrail DEF ItemEnter, Trail
  <2>3. ASSUME NEW r \in shadow, WriteShadow(r) PROVE TrailInv'
    BY <2>3, TrailShrinks DEF WriteShadow, Trail, gate
  <2>4. ASSUME NEW s \in Scanners, Crash(s) PROVE TrailInv'
    BY <2>4, TrailShrinks DEF Crash, Trail, gate
  <2>5. ASSUME UNCHANGED <<rows, shadow, locks, zoneCount>> PROVE TrailInv'
    BY <2>5, TrailShrinks DEF Trail
  <2> QED
    BY <2>1, <2>2, <2>3, <2>4, <2>5
       DEF Next, vars, gate, trail, LiveVerify, LiveRefuse, ItemVerify,
           ItemRefuse, SetScanPolicy, UpdateZones, Midnight, Approve, Cancel
<1> QED BY <1>1, <1>2, TypeCorrect, PTL DEF Spec, TrailInv
===============================================================================
