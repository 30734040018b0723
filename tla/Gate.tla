--------------------------------- MODULE Gate ---------------------------------
(***************************************************************************)
(* What the check-in service promises at the door of an event: a badge     *)
(* enters once per scope of the scan policy, a barred badge never enters,  *)
(* and a badge that entered is never barred.                               *)
(***************************************************************************)
CONSTANTS
  Badges,   \* the registrations, each with its QR code
  Scopes    \* what a scan policy distinguishes: the whole event, zones, days

VARIABLES
  inside,   \* the badges that entered at least once
  barred,   \* the badges whose registration was cancelled
  used      \* the <<badge, scope>> pairs spent

Init ==
  /\ inside = {}
  /\ barred = {}
  /\ used = {}

Enter(b, s) ==
  /\ b \notin barred
  /\ <<b, s>> \notin used
  /\ used' = used \cup {<<b, s>>}
  /\ inside' = inside \cup {b}
  /\ UNCHANGED barred

Bar(b) ==
  /\ b \notin inside
  /\ barred' = barred \cup {b}
  /\ UNCHANGED <<inside, used>>

Next == \E b \in Badges : Bar(b) \/ \E s \in Scopes : Enter(b, s)

Spec == Init /\ [][Next]_<<inside, barred, used>>

-------------------------------------------------------------------------------
\* Nobody inside was ever barred, and whoever is inside, and nobody else, has
\* spent a scope of the policy to get there.
Sound ==
  /\ inside \cap barred = {}
  /\ inside = {b \in Badges : \E s \in Scopes : <<b, s>> \in used}
  /\ used \subseteq Badges \X Scopes
===============================================================================
