------------------------------- MODULE Account --------------------------------
(***************************************************************************)
(* What an organization may rely on when it is paid out, whatever rows,    *)
(* sweeps and overlapping periods the ledger is made of.  A payment is     *)
(* credited once, and once more only for each time its success has been    *)
(* forgotten; a credit goes into one payout and stays there; a payout is   *)
(* final and never more than its credits leave after fees and refunds.     *)
(***************************************************************************)
EXTENDS Integers, Sums

CONSTANTS Payments, Payouts, NoPayout, Price, Fee

VARIABLES
  forgotten, \* how often the success of each payment was forgotten
  refunded,  \* what was refunded of each payment
  payout,    \* the payout that transferred each credit; <<p, n>> is the
             \* nth credit of payment p
  paid       \* the amount of each payout, 0 before it is made

account == <<forgotten, refunded, payout, paid>>

Init ==
  /\ forgotten = [p \in Payments |-> 0]
  /\ refunded = [p \in Payments |-> 0]
  /\ payout = [c \in {} |-> NoPayout]
  /\ paid = [d \in Payouts |-> 0]

Credits == DOMAIN payout

\* The credit of the success that a payment has now, if it has one.
Current(p) == <<p, forgotten[p] + 1>>

Settle(p) ==
  /\ Current(p) \notin Credits
  /\ payout' = [c \in Credits \cup {Current(p)} |->
                  IF c = Current(p) THEN NoPayout ELSE payout[c]]
  /\ UNCHANGED <<forgotten, refunded, paid>>

Forget(S) ==
  /\ \A p \in S : Current(p) \in Credits
  /\ forgotten' =
       [p \in Payments |-> IF p \in S THEN forgotten[p] + 1 ELSE forgotten[p]]
  /\ UNCHANGED <<refunded, payout, paid>>

Refund(p, a) ==
  /\ Current(p) \in Credits
  /\ refunded[p] + a <= Price
  /\ refunded' = [refunded EXCEPT ![p] = @ + a]
  /\ UNCHANGED <<forgotten, payout, paid>>

\* What the organization has left of a set of credits.
Left(C) ==
  Total(C, [c \in C |-> Price - Fee]) - Total({c[1] : c \in C}, refunded)

Transfer(d, C) ==
  /\ paid[d] = 0
  /\ \A c \in C : payout[c] = NoPayout
  /\ payout' = [c \in Credits |-> IF c \in C THEN d ELSE payout[c]]
  /\ \E a \in 1..Left(C) : paid' = [paid EXCEPT ![d] = a]
  /\ UNCHANGED <<forgotten, refunded>>

Next ==
  \/ \E p \in Payments : Settle(p) \/ \E a \in 1..Price : Refund(p, a)
  \/ \E S \in SUBSET Payments : Forget(S)
  \/ \E d \in Payouts, C \in SUBSET Credits : Transfer(d, C)

Spec == Init /\ [][Next]_account

-----------------------------------------------------------------------------
\* All payouts together never exceed what the credits they took earned after
\* the fee, and a payment has one credit and one more for each success of it
\* that was forgotten, at the most.
NotOverdrawn ==
  LET out == {c \in Credits : payout[c] # NoPayout}
  IN  /\ Total(Payouts, paid) <= Total(out, [c \in out |-> Price - Fee])
      /\ \A c \in Credits : c[2] \in 1..(forgotten[c[1]] + 1)
===============================================================================
