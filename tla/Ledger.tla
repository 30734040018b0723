-------------------------------- MODULE Ledger --------------------------------
(***************************************************************************)
(* The ledger of one organization's event: the entries a succeeded payment *)
(* leaves each time it is credited, the refunds, the sweep that releases   *)
(* pending funds and the payouts of a period.                              *)
(*                                                                         *)
(* Crediting, refunding and paying out are transactions, one step each.    *)
(* The job that expires stale payments may overwrite a success it has not  *)
(* read, after which a repeated IPN credits the payment once more.         *)
(* The sweep is not: it queries a page of entries and later writes the     *)
(* page in a batch, without reading the entries again.                     *)
(***************************************************************************)
EXTENDS Integers, FiniteSets, Sums

CONSTANTS
  Payments,          \* the paid tickets of the event
  Late,              \* bound: the payments that succeed so late that the job
                     \* can have queried them as open
  MaxOverwrites,     \* bound: how often the job overwrites one payment
  Periods,           \* what the operator may pay out: each period is the set
                     \* of credits whose completedAt lies in it
  NoPayout,          \* an entry without payoutId
  Gross,             \* the price of a ticket
  Parts,             \* the amounts an operator refunds
  PageSize,          \* BATCH_SIZE
  Sweepers,          \* the sweeps that can run at once: the cron, operators
  ReadsBeforeWrites  \* the store refuses a read after a write

\* The nth time a payment succeeds and is credited.
Credits == Payments \X (1..(MaxOverwrites + 1))

ASSUME OverwriteAssumption == Late \subseteq Payments /\ MaxOverwrites \in Nat
ASSUME PeriodAssumption ==
  Periods \subseteq SUBSET Credits /\ NoPayout \notin Periods
ASSUME AmountAssumption == Gross \in Nat \ {0} /\ Parts \subseteq Nat \ {0}
ASSUME PageAssumption == PageSize \in Nat \ {0}
ASSUME FiniteAssumption == IsFiniteSet(Payments)
ASSUME StoreAssumption == ReadsBeforeWrites \in BOOLEAN

VARIABLES
  status,    \* status of each payment; an "expired" one is open to an IPN
  completed, \* its completedAt: the how manieth success is the latest
  refunded,  \* its refundedAmount: the sum of its refund entries
  due,       \* whether the availableOn of a credit's entries has passed
  entry,     \* status of the "payment" and "platform_fee" entries of a credit
  payoutId,  \* the payout that swept each entry
  net,       \* the netAmount of the payout of each period, 0 without one
  sweep,     \* the page each sweep has queried and not written yet
  forgotten  \* history: how often the job overwrote each payment's success

vars == <<status, completed, refunded, due, entry, payoutId, net, sweep,
          forgotten>>

-----------------------------------------------------------------------------
\* The platform's share of an amount: five per cent, rounded half up.
computePlatformFee(a) == (5 * a + 50) \div 100

Fee == computePlatformFee(Gross)

\* Without a fee there is no fee entry.
Kinds == {"payment"} \cup (IF Fee > 0 THEN {"platform_fee"} ELSE {})
Entries == Credits \X Kinds

TypeOK ==
  /\ status \in [Payments -> {"open", "succeeded", "refunded"}]
  /\ completed \in [Payments -> 0..(MaxOverwrites + 1)]
  /\ refunded \in [Payments -> 0..Gross]
  /\ due \in [Credits -> BOOLEAN]
  /\ entry \in [Entries -> {"none", "pending", "available", "paid_out"}]
  /\ payoutId \in [Entries -> Periods \cup {NoPayout}]
  /\ net \in [Periods -> Nat]
  /\ sweep \in [Sweepers -> SUBSET Entries]
  /\ forgotten \in [Payments -> 0..MaxOverwrites]

Init ==
  /\ status = [p \in Payments |-> "open"]
  /\ completed = [p \in Payments |-> 0]
  /\ refunded = [p \in Payments |-> 0]
  /\ due = [c \in Credits |-> FALSE]
  /\ entry = [e \in Entries |-> "none"]
  /\ payoutId = [e \in Entries |-> NoPayout]
  /\ net = [d \in Periods |-> 0]
  /\ sweep = [s \in Sweepers |-> {}]
  /\ forgotten = [p \in Payments |-> 0]

-----------------------------------------------------------------------------
\* Mutant: a transaction that does not look for an earlier success.
IsOpenAlways(p) == status[p] # "refunded"

IsOpen(p) == status[p] = "open"

\* The ledger part of a payment that succeeds: two new rows, whatever rows the
\* payment has from a success that was overwritten.
Credit(p) ==
  LET new == <<p, completed[p] + 1>>
  IN  /\ IsOpen(p)
      /\ new \in Credits
      /\ status' = [status EXCEPT ![p] = "succeeded"]
      /\ completed' = [completed EXCEPT ![p] = @ + 1]
      /\ entry' =
           [e \in Entries |-> IF e[1] = new THEN "pending" ELSE entry[e]]
      /\ UNCHANGED <<refunded, due, payoutId, net, sweep, forgotten>>

\* The batch of the expire-stale-payments job, which queried its payments
\* before they succeeded; their rows stay.
ExpireBatch(S) ==
  /\ \A p \in S : status[p] # "open" /\ forgotten[p] < MaxOverwrites
  /\ status' = [p \in Payments |-> IF p \in S THEN "open" ELSE status[p]]
  /\ forgotten' =
       [p \in Payments |-> IF p \in S THEN forgotten[p] + 1 ELSE forgotten[p]]
  /\ UNCHANGED <<completed, refunded, due, entry, payoutId, net, sweep>>

\* Time passes the availableOn of a credit's entries.
Mature(c) ==
  /\ entry[<<c, "payment">>] # "none" /\ ~due[c]
  /\ due' = [due EXCEPT ![c] = TRUE]
  /\ UNCHANGED <<status, completed, refunded, entry, payoutId, net, sweep,
                 forgotten>>

\* Mutant: a refund is compared with the price, not with what is left of it.
FitsPrice(p, a) == a <= Gross

FitsRemaining(p, a) == a <= Gross - refunded[p]

\* The transaction of a refund.  A full refund reads after its first write.
Refund(p, a) ==
  /\ status[p] = "succeeded"
  /\ FitsRemaining(p, a)
  /\ ReadsBeforeWrites => refunded[p] + a # Gross
  /\ refunded' = [refunded EXCEPT ![p] = @ + a]
  /\ status' =
       [status EXCEPT ![p] = IF refunded'[p] = Gross THEN "refunded" ELSE @]
  /\ UNCHANGED <<completed, due, entry, payoutId, net, sweep, forgotten>>

-----------------------------------------------------------------------------
\* No payout of this very period holds the lock.
PeriodIsFree(d) == net[d] = 0

\* The succeeded payments whose completedAt, that of the last success, lies in
\* the period.
Selected(d) ==
  {p \in Payments : status[p] = "succeeded" /\ <<p, completed[p]>> \in d}

\* Mutant: the status alone tells whether an entry was paid out.
IsUnpaid(e) == entry[e] # "paid_out"

\* Mutant: a payout takes what was released, as the sweep's comment has it.
IsReleased(e) == entry[e] = "available" /\ payoutId[e] = NoPayout

IsUntaken(e) == entry[e] # "paid_out" /\ payoutId[e] = NoPayout

\* All rows of the payments selected, those of earlier credits included.
Taken(d) ==
  {e \in Entries : /\ e[1][1] \in Selected(d) /\ entry[e] # "none"
                   /\ IsUntaken(e)}

EntryAmount ==
  [e \in Entries |-> IF e[2] = "payment" THEN Gross ELSE -Fee]

RefundsOf(d) == Total(Selected(d), refunded)

NonNegative(a) == IF a > 0 THEN a ELSE 0

\* What a payout transfers, recomputed from the ledger in the transaction.
NetAmount(d) ==
  LET gross == Total({e \in Taken(d) : e[2] = "payment"}, EntryAmount)
      fees  == Total({e \in Taken(d) : e[2] = "platform_fee"}, EntryAmount)
  IN  NonNegative(NonNegative(gross - RefundsOf(d)) + fees)

CreatePayout(d) ==
  /\ PeriodIsFree(d)
  /\ Selected(d) # {}
  /\ NetAmount(d) > 0
  /\ net' = [net EXCEPT ![d] = NetAmount(d)]
  /\ entry' =
       [e \in Entries |-> IF e \in Taken(d) THEN "paid_out" ELSE entry[e]]
  /\ payoutId' = [e \in Entries |-> IF e \in Taken(d) THEN d ELSE payoutId[e]]
  /\ UNCHANGED <<status, completed, refunded, due, sweep, forgotten>>

-----------------------------------------------------------------------------
\* Mutant: fees are taken for settled at once.
DueRevenue ==
  {e \in Entries : entry[e] = "pending" /\ due[e[1]] /\ e[2] = "payment"}

Due == {e \in Entries : entry[e] = "pending" /\ due[e[1]]}

Pages ==
  LET full == IF Cardinality(Due) < PageSize THEN Cardinality(Due) ELSE PageSize
  IN  {page \in SUBSET Due : Cardinality(page) = full}

\* A sweep queries its next page; an empty one ends it.
SweepQuery(s) ==
  /\ sweep[s] = {} /\ Due # {}
  /\ \E page \in Pages : sweep' = [sweep EXCEPT ![s] = page]
  /\ UNCHANGED <<status, completed, refunded, due, entry, payoutId, net,
                 forgotten>>

\* It writes the page, whatever happened to the entries in the meantime.
SweepCommit(s) ==
  /\ sweep[s] # {}
  /\ entry' =
       [e \in Entries |-> IF e \in sweep[s] THEN "available" ELSE entry[e]]
  /\ sweep' = [sweep EXCEPT ![s] = {}]
  /\ UNCHANGED <<status, completed, refunded, due, payoutId, net, forgotten>>

\* The process dies, or the batch fails, before the page is written.
SweepDies(s) ==
  /\ sweep[s] # {}
  /\ sweep' = [sweep EXCEPT ![s] = {}]
  /\ UNCHANGED <<status, completed, refunded, due, entry, payoutId, net,
                 forgotten>>

Next ==
  \/ \E p \in Payments :
       \/ Credit(p)
       \/ \E a \in Parts : Refund(p, a)
  \/ \E S \in (SUBSET Late) \ {{}} : ExpireBatch(S)
  \/ \E c \in Credits : Mature(c)
  \/ \E d \in Periods : CreatePayout(d)
  \/ \E s \in Sweepers : SweepQuery(s) \/ SweepCommit(s) \/ SweepDies(s)

Spec == Init /\ [][Next]_vars

\* The scheduler starts the sweep again and again, and not every one dies.
FairSpec ==
  /\ Spec
  /\ \A s \in Sweepers : WF_vars(SweepQuery(s)) /\ SF_vars(SweepCommit(s))

-----------------------------------------------------------------------------
\* Nothing is paid out twice: an entry goes to the organization with one payout
\* only, even when a late batch of the sweep has made it available again and
\* periods overlap, and a period's payout is never replaced, whatever succeeds
\* in the period later.
PaidOnce ==
  [][/\ \A e \in Entries : payoutId[e] # NoPayout => payoutId'[e] = payoutId[e]
     /\ \A d \in Periods : net[d] # 0 => net'[d] = net[d]]_vars

\* The fee of a credit is kept back by the very payout that transfers the
\* credit, although a page of the sweep may split the two.
FeeFollowsPayment ==
  \A c \in Credits, k \in Kinds :
    payoutId[<<c, k>>] = payoutId[<<c, "payment">>]

\* The credits that the ledger has rows of.
Credited == {c \in Credits : entry[<<c, "payment">>] # "none"}

\* A credit's share in the account is where its "payment" entry went.
Acc ==
  INSTANCE Account
    WITH Payouts <- Periods,
         Price <- Gross,
         payout <- [c \in Credited |-> payoutId[<<c, "payment">>]],
         paid <- net

\* Every step of the ledger is one step of the account or none: a payment is
\* credited again only when the job has overwritten its success, a new payout
\* takes only credits that none has taken, whatever the sweeps do to their
\* entries, and never more than the fees and the refunds leave of them
\* (payment.service.ts:759-866, payout.service.ts:172-262).
KeepsTheAccount == Acc!Spec

\* Funds whose release date has passed do not stay pending.
FundsAreReleased ==
  \A e \in Entries :
    (entry[e] = "pending" /\ due[e[1]]) ~> entry[e] # "pending"

\* What a payout took stays paid out: no entry of a payout counts towards the
\* organization's balance again.
SweptStaysPaid ==
  \A e \in Entries : payoutId[e] # NoPayout => entry[e] = "paid_out"
===============================================================================
