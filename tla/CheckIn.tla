-------------------------------- MODULE CheckIn --------------------------------
(***************************************************************************)
(* Checking badges in at one event: live scans at the door and the batches *)
(* of scans that staff devices took offline and synchronise later.         *)
(*                                                                         *)
(* A request verifies the QR code and the clock before its transaction,    *)
(* which is one step.  A batch is processed item by item, each in its own  *)
(* transaction; a device may send any scan, at any later time, in any      *)
(* order and any number of times, so an item is not tied to a batch.       *)
(* Time is counted in days, the grain of the multi_day scan policy.        *)
(***************************************************************************)
EXTENDS Integers, FiniteSets

CONSTANTS
  Badges,     \* the registrations of the event
  Zones,      \* access zones
  NoZone,     \* a scan without accessZoneId
  Scanners,   \* the scan requests that can be in flight at once
  Policies,   \* the scan policies the organization's plan allows
  MaxDay,     \* bound: the last day considered
  ValidFrom,  \* the validity window of the QR codes, in days
  ValidTo,
  MaxLag,     \* MAX_OFFLINE_RECONCILE_LAG_MS, in days
  MaxCapacity, \* bound: the largest zone capacity; 0 stands for no limit
  MaxLocks    \* bound: no scan starts once that many locks exist

ASSUME BadgeAssumption == IsFiniteSet(Badges)
ASSUME ZoneAssumption == NoZone \notin Zones
ASSUME PolicyAssumption ==
  "single" \in Policies /\ Policies \subseteq {"single", "multi_zone", "multi_day"}
ASSUME DayAssumption ==
  /\ MaxDay \in Nat \ {0} /\ ValidFrom \in Nat \ {0} /\ ValidTo \in Nat
  /\ MaxLag \in Nat /\ MaxCapacity \in Nat /\ MaxLocks \in Nat

VARIABLES
  reg,            \* status of each registration
  checkedInAt,    \* day of its first entry, 0 for none
  locks,          \* the documents of checkinLocks
  scanPolicy,     \* event.scanPolicy
  capacity,       \* event.accessZones[].capacity
  checkedInCount, \* event.checkedInCount
  zoneCount,      \* event.zoneCheckedInCounts
  rows,           \* the "success" rows of checkins
  shadow,         \* the rows a synchronised item has yet to write
  today,
  scan,           \* the local state of each request in flight
  entries         \* history: how often each badge was let in

gate == <<reg, checkedInAt, locks, checkedInCount, zoneCount, entries>>
event == <<scanPolicy, capacity>>
trail == <<rows, shadow>>
vars == <<gate, event, trail, today, scan>>

-----------------------------------------------------------------------------
Days == 1..MaxDay
ScanZones == Zones \cup {NoZone}
RegStatus == {"pending", "confirmed", "cancelled", "checked_in"}

Scopes ==
  ({"single"} \X {NoZone}) \cup ({"zone"} \X ScanZones) \cup ({"day"} \X Days)
Keys == Badges \X Scopes
Rows == [key : Keys, zone : ScanZones]

Idle == [op |-> "idle"]
Scan == [op : {"live"}, badge : Badges, zone : ScanZones]
Item == [op : {"item"}, badge : Badges, zone : ScanZones, day : Days]

\* The key of the lock a scan of b claims under the event's policy.
LockKey(b, z, d) ==
  CASE scanPolicy = "multi_zone" -> <<b, <<"zone", z>>>>
    [] scanPolicy = "multi_day" -> <<b, <<"day", d>>>>
    [] OTHER -> <<b, <<"single", NoZone>>>>

TypeOK ==
  /\ reg \in [Badges -> RegStatus]
  /\ checkedInAt \in [Badges -> 0..today]
  /\ locks \subseteq Keys
  /\ scanPolicy \in Policies
  /\ capacity \in [Zones -> 0..MaxCapacity]
  /\ checkedInCount \in Nat
  /\ zoneCount \in [Zones -> Nat]
  /\ rows \subseteq Rows
  /\ shadow \subseteq Rows
  /\ today \in Days
  /\ scan \in [Scanners -> {Idle} \cup Scan \cup Item]
  /\ entries \in [Badges -> Nat]

Init ==
  /\ reg \in [Badges -> {"pending", "confirmed"}]
  /\ checkedInAt = [b \in Badges |-> 0]
  /\ locks = {}
  /\ scanPolicy = "single"
  /\ capacity \in [Zones -> 0..MaxCapacity]
  /\ checkedInCount = 0
  /\ zoneCount = [z \in Zones |-> 0]
  /\ rows = {}
  /\ shadow = {}
  /\ today = 1
  /\ scan = [s \in Scanners |-> Idle]
  /\ entries = [b \in Badges |-> 0]

-----------------------------------------------------------------------------
\* What the transactions of both paths have in common.

\* Mutant: only the statuses a scan was not meant to see are refused.
AdmissibleUnlessPending(b) == reg[b] # "pending"

Admissible(b) == reg[b] \in {"confirmed", "checked_in"}

\* Mutant: a badge already inside is let through.
IsFreeForInsiders(k) == k \notin locks \/ reg[k[1]] = "checked_in"

LockIsFree(k) == k \notin locks

\* Mutant: the comparison is off by one.
ZoneFullTooLate(z) ==
  z \in Zones /\ capacity[z] # 0 /\ zoneCount[z] > capacity[z]

ZoneFull(z) == z \in Zones /\ capacity[z] # 0 /\ zoneCount[z] >= capacity[z]

MayEnter(b, z, d) ==
  /\ Admissible(b)
  /\ LockIsFree(LockKey(b, z, d))
  /\ ~ZoneFull(z)

\* Mutant: every entry is taken for the first.
IsFirstAlways(b) == TRUE

IsFirstSuccess(b) == reg[b] # "checked_in"

\* checkedInAt after an entry of b scanned on day d: the entry committed first
\* stays, although bulkSync is described as last-write-wins by time.
CachedDay(b, d) == IF IsFirstSuccess(b) THEN d ELSE checkedInAt[b]

\* Mutant: the zone is counted for the first entry only.
ZoneTallyOfFirst(b, z) ==
  IF IsFirstSuccess(b) /\ z \in Zones
    THEN [zoneCount EXCEPT ![z] = @ + 1] ELSE zoneCount

ZoneTally(b, z) ==
  IF z \in Zones THEN [zoneCount EXCEPT ![z] = @ + 1] ELSE zoneCount

\* The writes of a successful scan of b in zone z, dated d.
Enter(b, z, d) ==
  /\ MayEnter(b, z, d)
  /\ locks' = locks \cup {LockKey(b, z, d)}
  /\ reg' = [reg EXCEPT ![b] = "checked_in"]
  /\ checkedInAt' = [checkedInAt EXCEPT ![b] = CachedDay(b, d)]
  /\ checkedInCount' = checkedInCount + (IF IsFirstSuccess(b) THEN 1 ELSE 0)
  /\ zoneCount' = ZoneTally(b, z)
  /\ entries' = [entries EXCEPT ![b] = @ + 1]

EntryRow(b, z, d) == [key |-> LockKey(b, z, d), zone |-> z]

-----------------------------------------------------------------------------
\* A live scan: the QR code and the clock are checked before the transaction.
LiveVerify(s, b, z) ==
  /\ scan[s] = Idle
  /\ Cardinality(locks) < MaxLocks
  /\ today \in ValidFrom..ValidTo
  /\ scan' = [scan EXCEPT ![s] = [op |-> "live", badge |-> b, zone |-> z]]
  /\ UNCHANGED <<gate, event, trail, today>>

\* It succeeds: the row of checkins is part of the transaction.
LiveEnter(s) ==
  /\ scan[s].op = "live"
  /\ Enter(scan[s].badge, scan[s].zone, today)
  /\ rows' = rows \cup {EntryRow(scan[s].badge, scan[s].zone, today)}
  /\ scan' = [scan EXCEPT ![s] = Idle]
  /\ UNCHANGED <<shadow, event, today>>

\* It is refused, or found to be a duplicate.
LiveRefuse(s) ==
  /\ scan[s].op = "live"
  /\ ~MayEnter(scan[s].badge, scan[s].zone, today)
  /\ scan' = [scan EXCEPT ![s] = Idle]
  /\ UNCHANGED <<gate, event, trail, today>>

\* Mutant: the guard against clocks that run ahead is gone.
ClockOnlyLags(d) == today - d <= MaxLag

ClockPlausible(d) == d <= today /\ today - d <= MaxLag

\* An item of a batch: the device's clock decides, within bounds.
ItemVerify(s, b, z, d) ==
  /\ scan[s] = Idle
  /\ Cardinality(locks) < MaxLocks
  /\ ClockPlausible(d)
  /\ scan' = [scan EXCEPT ![s] =
                [op |-> "item", badge |-> b, zone |-> z, day |-> d]]
  /\ UNCHANGED <<gate, event, trail, today>>

ItemMayEnter(i) ==
  i.day \in ValidFrom..ValidTo /\ MayEnter(i.badge, i.zone, i.day)

\* It succeeds; its row of checkins is written after the transaction.
ItemEnter(s) ==
  /\ scan[s].op = "item"
  /\ scan[s].day \in ValidFrom..ValidTo
  /\ Enter(scan[s].badge, scan[s].zone, scan[s].day)
  /\ shadow' = shadow \cup {EntryRow(scan[s].badge, scan[s].zone, scan[s].day)}
  /\ scan' = [scan EXCEPT ![s] = Idle]
  /\ UNCHANGED <<rows, event, today>>

ItemRefuse(s) ==
  /\ scan[s].op = "item"
  /\ ~ItemMayEnter(scan[s])
  /\ scan' = [scan EXCEPT ![s] = Idle]
  /\ UNCHANGED <<gate, event, trail, today>>

\* The write of a shadow row lands, or fails and is only logged.
WriteShadow(r) ==
  /\ r \in shadow
  /\ shadow' = shadow \ {r}
  /\ rows' \in {rows, rows \cup {r}}
  /\ UNCHANGED <<gate, event, today, scan>>

\* The server dies with a request and the shadow rows it has yet to write.
Crash(s) ==
  /\ scan[s] # Idle
  /\ scan' = [scan EXCEPT ![s] = Idle]
  /\ shadow' = {}
  /\ UNCHANGED <<gate, event, rows, today>>

-----------------------------------------------------------------------------
\* What else changes the documents a scan reads.

\* The organiser approves a pending registration.
Approve(b) ==
  /\ reg[b] = "pending"
  /\ reg' = [reg EXCEPT ![b] = "confirmed"]
  /\ UNCHANGED <<checkedInAt, locks, checkedInCount, zoneCount, entries,
                 event, trail, today, scan>>

\* The transaction of a cancellation: it refuses a badge that is inside.
Cancel(b) ==
  /\ reg[b] \notin {"cancelled", "checked_in"}
  /\ reg' = [reg EXCEPT ![b] = "cancelled"]
  /\ UNCHANGED <<checkedInAt, locks, checkedInCount, zoneCount, entries,
                 event, trail, today, scan>>

SetScanPolicy(p) ==
  /\ p # scanPolicy
  /\ scanPolicy' = p
  /\ UNCHANGED <<gate, capacity, trail, today, scan>>

\* The organiser edits the access zones of the event.
UpdateZones(z, c) ==
  /\ capacity[z] # c
  /\ capacity' = [capacity EXCEPT ![z] = c]
  /\ UNCHANGED <<gate, scanPolicy, trail, today, scan>>

Midnight ==
  /\ today < MaxDay
  /\ today' = today + 1
  /\ UNCHANGED <<gate, event, trail, scan>>

Next ==
  \/ \E s \in Scanners :
       \/ \E b \in Badges, z \in ScanZones : LiveVerify(s, b, z)
       \/ LiveEnter(s)
       \/ LiveRefuse(s)
       \/ \E b \in Badges, z \in ScanZones, d \in Days : ItemVerify(s, b, z, d)
       \/ ItemEnter(s)
       \/ ItemRefuse(s)
       \/ Crash(s)
  \/ \E r \in shadow : WriteShadow(r)
  \/ \E b \in Badges : Approve(b) \/ Cancel(b)
  \/ \E p \in Policies : SetScanPolicy(p)
  \/ \E z \in Zones, c \in 0..MaxCapacity : UpdateZones(z, c)
  \/ Midnight

Spec == Init /\ [][Next]_vars

-----------------------------------------------------------------------------
Inside == {b \in Badges : reg[b] = "checked_in"}

\* The counter the dashboards show is the number of registrations that are
\* checked in, however many scans, repetitions and devices each one took.
CountIsInside == checkedInCount = Cardinality(Inside)

\* A badge is let in exactly once per lock: a repeated batch, a live scan that
\* races the synchronisation of the same badge, or two doors never let it in
\* twice in one scope of the policy.
OneEntryPerLock ==
  \A b \in Badges : entries[b] = Cardinality({k \in locks : k[1] = b})

\* The trail may miss entries that were synchronised but it never invents one:
\* each row stands for a lock, and a zone shows no more rows than it counted.
TrailIsHonest ==
  /\ \A r \in rows \cup shadow : r.key \in locks
  /\ \A z \in Zones :
       Cardinality({r \in rows \cup shadow : r.zone = z}) <= zoneCount[z]

\* No entry is let into a zone whose capacity, at that moment, is reached.
ZoneNeverOverfilled ==
  [][\A z \in Zones :
       zoneCount'[z] > zoneCount[z] =>
         capacity[z] = 0 \/ zoneCount'[z] <= capacity[z]]_vars

Barred == {b \in Badges : reg[b] = "cancelled"}

Door == INSTANCE Gate WITH inside <- Inside, barred <- Barred, used <- locks

\* The service keeps the door: cancelling wins over any scan, before or after
\* the fact, and an entry cannot be cancelled away.
KeepsTheDoor == Door!Spec
===============================================================================
