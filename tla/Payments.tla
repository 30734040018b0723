------------------------------ MODULE Payments ------------------------------
(***************************************************************************)
(* The payment life cycle of one paid event with one ticket type: the      *)
(* two-phase initiate, the three paths that finalise a payment (provider   *)
(* IPN, verify on return, reconciliation), the two that expire it, the     *)
(* participant's cancellations and the refund with its lock.               *)
(*                                                                         *)
(* A Firestore transaction is one atomic step.  Everything a service does  *)
(* outside of a transaction (an early read, a provider call, a follow-up   *)
(* write) is a step of its own, so that invocations interleave there.      *)
(*                                                                         *)
(* A payment and the registration it pays for are created together and     *)
(* share their identifier here.                                            *)
(***************************************************************************)
EXTENDS Integers, FiniteSets

CONSTANTS
  Users,             \* the participants
  Payments,          \* the payment documents that can ever be created
  Requests,          \* the API requests and jobs that can be in flight at once
  Keys,              \* the idempotency keys; a claim is not scoped to a user
  Amount,            \* the ticket's price
  Stock,             \* ticketType.totalQuantity
  MaxAttendees,      \* event.maxAttendees
  ReadsBeforeWrites, \* the store rejects a transactional read after a write
  CrashesHappen,     \* a process may die between two steps
  NoUser,
  NoPayment

ASSUME AmountAssumption == Amount \in Nat \ {0}
ASSUME CapacityAssumption == Stock \in Nat /\ MaxAttendees \in Nat
ASSUME NullAssumption == NoUser \notin Users /\ NoPayment \notin Payments
ASSUME FiniteAssumption == IsFiniteSet(Payments)
ASSUME StoreAssumption == ReadsBeforeWrites \in BOOLEAN
ASSUME CrashAssumption == CrashesHappen \in BOOLEAN

VARIABLES
  pay,             \* status of each payment
  attached,        \* the payments whose providerTransactionId is stored
  refunded,        \* refundedAmount of each payment
  owner,           \* userId of each payment and of its registration
  reg,             \* status of the registration of each payment
  registeredCount, \* event.registeredCount
  soldCount,       \* ticketTypes[].soldCount
  credits,         \* number of payment/platform_fee row pairs in the ledger
  debits,          \* sum of the refund rows in the ledger
  announced,       \* number of payment.succeeded events emitted
  idem,            \* the idempotency claims
  lock,            \* refundLocks/{paymentId}
  age,             \* 0: recent, 1: in the reconcile window, 2: past the cutoffs
  provider,        \* the provider's side of each payment
  returned,        \* what the provider has given back
  req,             \* the local state of each invocation in flight
  clobbered,       \* history: how often the job overwrote a success
  drift,           \* history: seats the job took without counting them down,
                   \* less the seats a full refund counted down again
  oversold         \* history: succeeded payments the job overwrote

docs == <<pay, attached, refunded, owner, reg, registeredCount, soldCount,
          credits, debits, idem, lock>>
history == <<clobbered, drift, oversold>>
vars == <<docs, announced, age, provider, returned, req, history>>

-----------------------------------------------------------------------------
\* Mutant: the schema does not know the status the timeout paths write.
PaymentStatusWithoutExpired ==
  {"none", "pending", "processing", "succeeded", "failed", "refunded"}

PaymentStatus ==
  {"none", "pending", "processing", "succeeded", "failed", "refunded",
   "expired"}
RegistrationStatus ==
  {"none", "pending_payment", "confirmed", "checked_in", "cancelled"}

Open == {"pending", "processing"}

Final == {"succeeded", "failed", "refunded"}
Credited == {"succeeded", "refunded"}
Channels == {"webhook", "verify", "reconcile"}

\* Mutant: a transaction that does not check for an earlier success.
TerminalButSucceeded(via) == {"failed", "refunded"}

\* Mutant: every channel gives up on an expired payment.
TerminalWithExpired(via) == Final \cup {"expired"}

\* The statuses on which each channel's transaction gives up: only the
\* reconciliation counts "expired" among them.
Terminal(via) == IF via = "reconcile" THEN Final \cup {"expired"} ELSE Final

\* The registrations event.registeredCount is meant to count.
Seats == {p \in Payments : reg[p] \in {"confirmed", "checked_in"}}

\* The payments whose tickets ticketTypes[].soldCount is meant to count.
Sales == {p \in Payments : pay[p] = "succeeded"}

Idle == [op |-> "idle"]
InitiateTask ==
  [op : {"initiate"}, step : {"claim"}, user : Users, key : Keys]
SessionTask ==
  [op : {"session"}, step : {"call", "attach", "abandon"}, pay : Payments]
FinaliseTask ==
  [op : {"finalise"}, step : {"ask", "commit", "emit"}, pay : Payments,
   via : Channels, verdict : {"unknown", "paid", "declined"},
   newly : BOOLEAN]
RefundTask ==
  [op : {"refund"}, step : {"lock", "call", "unlock", "record"},
   pay : Payments, amount : 1..Amount]
SweepTask == [op : {"sweep"}, batch : SUBSET Payments]
Task == {Idle} \cup InitiateTask \cup SessionTask \cup FinaliseTask
        \cup RefundTask \cup SweepTask

\* Invocation r is at a step of an operation.
At(r, op, step) == req[r].op = op /\ req[r].step = step
GoTo(r, task) == req' = [req EXCEPT ![r] = task]
Done(r) == GoTo(r, Idle)

\* Invocation r has taken the refund lock of p and not yet let go of it.
Refunding(r, p) ==
  /\ req[r].op = "refund"
  /\ req[r].step \in {"call", "unlock", "record"}
  /\ req[r].pay = p

TypeOK ==
  /\ pay \in [Payments -> PaymentStatus]
  /\ attached \in SUBSET Payments
  /\ refunded \in [Payments -> 0..Amount]
  /\ owner \in [Payments -> Users \cup {NoUser}]
  /\ reg \in [Payments -> RegistrationStatus]
  /\ registeredCount \in Int
  /\ soldCount \in Nat
  /\ credits \in [Payments -> Nat]
  /\ debits \in [Payments -> Nat]
  /\ announced \in [Payments -> Nat]
  /\ idem \in [Keys -> Payments \cup {NoPayment}]
  /\ lock \in [Payments -> {"free", "held", "stale"}]
  /\ age \in [Payments -> 0..2]
  /\ provider \in [Payments -> {"none", "open", "paid", "declined"}]
  /\ returned \in [Payments -> 0..Amount]
  /\ req \in [Requests -> Task]
  /\ clobbered \in [Payments -> Nat]
  /\ drift \in Int
  /\ oversold \in Nat

Init ==
  /\ pay = [p \in Payments |-> "none"]
  /\ attached = {}
  /\ refunded = [p \in Payments |-> 0]
  /\ owner = [p \in Payments |-> NoUser]
  /\ reg = [p \in Payments |-> "none"]
  /\ registeredCount = 0
  /\ soldCount = 0
  /\ credits = [p \in Payments |-> 0]
  /\ debits = [p \in Payments |-> 0]
  /\ announced = [p \in Payments |-> 0]
  /\ idem = [k \in Keys |-> NoPayment]
  /\ lock = [p \in Payments |-> "free"]
  /\ age = [p \in Payments |-> 0]
  /\ provider = [p \in Payments |-> "none"]
  /\ returned = [p \in Payments |-> 0]
  /\ req = [r \in Requests |-> Idle]
  /\ clobbered = [p \in Payments |-> 0]
  /\ drift = 0
  /\ oversold = 0

-----------------------------------------------------------------------------
(* initiatePayment: availability check, tx1, provider session, tx2.        *)

Session(p, step) == [op |-> "session", step |-> step, pay |-> p]

InitiateRead(r, u, k) ==
  /\ req[r] = Idle
  /\ soldCount < Stock
  /\ registeredCount < MaxAttendees
  /\ GoTo(r, [op |-> "initiate", step |-> "claim", user |-> u, key |-> k])
  /\ UNCHANGED <<docs, announced, age, provider, returned, history>>

\* The statuses that make a second payment a duplicate; "pending" and
\* "waitlisted" are not reached by a registration that is paid for.
HasLiveRegistration(u) ==
  \E p \in Payments : owner[p] = u /\ reg[p] \in {"confirmed", "pending_payment"}

\* A known key or a duplicate ends the request with nothing written.
InitiateRefused(r) ==
  /\ At(r, "initiate", "claim")
  /\ \/ idem[req[r].key] # NoPayment
     \/ HasLiveRegistration(req[r].user)
  /\ Done(r)
  /\ UNCHANGED <<docs, announced, age, provider, returned, history>>

InitiateClaim(r, p) ==
  LET u == req[r].user
      k == req[r].key
  IN /\ At(r, "initiate", "claim")
     /\ idem[k] = NoPayment
     /\ ~HasLiveRegistration(u)
     /\ pay[p] = "none"
     /\ pay' = [pay EXCEPT ![p] = "pending"]
     /\ reg' = [reg EXCEPT ![p] = "pending_payment"]
     /\ owner' = [owner EXCEPT ![p] = u]
     /\ idem' = [idem EXCEPT ![k] = p]
     /\ GoTo(r, Session(p, "call"))
     /\ UNCHANGED <<attached, refunded, registeredCount, soldCount, credits,
                    debits, lock, announced, age, provider, returned,
                    history>>

SessionOpened(r) ==
  /\ At(r, "session", "call")
  /\ provider' = [provider EXCEPT ![req[r].pay] = "open"]
  /\ GoTo(r, Session(req[r].pay, "attach"))
  /\ UNCHANGED <<docs, announced, age, returned, history>>

SessionThrows(r) ==
  /\ At(r, "session", "call")
  /\ GoTo(r, Session(req[r].pay, "abandon"))
  /\ UNCHANGED <<docs, announced, age, provider, returned, history>>

\* tx2 does not read the payment it updates.
InitiateAttach(r) ==
  /\ At(r, "session", "attach")
  /\ pay' = [pay EXCEPT ![req[r].pay] = "processing"]
  /\ attached' = attached \cup {req[r].pay}
  /\ Done(r)
  /\ UNCHANGED <<refunded, owner, reg, registeredCount, soldCount, credits,
                 debits, idem, lock, announced, age, provider, returned,
                 history>>

InitiateAbandon(r) ==
  /\ At(r, "session", "abandon")
  /\ pay' = [pay EXCEPT ![req[r].pay] = "failed"]
  /\ Done(r)
  /\ UNCHANGED <<attached, refunded, owner, reg, registeredCount, soldCount,
                 credits, debits, idem, lock, announced, age, provider,
                 returned, history>>

\* The participant follows redirectUrl, which is stored and returned by tx2.
ProviderSettles(p) ==
  /\ provider[p] = "open"
  /\ p \in attached
  /\ \E outcome \in {"paid", "declined"} :
       provider' = [provider EXCEPT ![p] = outcome]
  /\ UNCHANGED <<docs, announced, age, returned, req, history>>

-----------------------------------------------------------------------------
(* handleWebhook, verifyAndFinalize and reconcileSinglePayment.            *)

Finalising(p, via, step, verdict, newly) ==
  [op |-> "finalise", step |-> step, pay |-> p, via |-> via,
   verdict |-> verdict, newly |-> newly]

\* The provider may deliver an outcome any number of times, however late.
WebhookReceive(r, p) ==
  /\ req[r] = Idle
  /\ p \in attached
  /\ provider[p] \in {"paid", "declined"}
  /\ pay[p] \notin Final
  /\ GoTo(r, Finalising(p, "webhook", "commit", provider[p], FALSE))
  /\ UNCHANGED <<docs, announced, age, provider, returned, history>>

VerifyStart(r, p) ==
  /\ req[r] = Idle
  /\ p \in attached
  /\ pay[p] \notin Final \cup {"expired"}
  /\ GoTo(r, Finalising(p, "verify", "ask", "unknown", FALSE))
  /\ UNCHANGED <<docs, announced, age, provider, returned, history>>

ReconcileStart(r, p) ==
  /\ req[r] = Idle
  /\ p \in attached
  /\ pay[p] = "processing"
  /\ age[p] = 1
  /\ GoTo(r, Finalising(p, "reconcile", "ask", "unknown", FALSE))
  /\ UNCHANGED <<docs, announced, age, provider, returned, history>>

ProviderPending(r) ==
  /\ At(r, "finalise", "ask")
  /\ provider[req[r].pay] \notin {"paid", "declined"}
  /\ Done(r)
  /\ UNCHANGED <<docs, announced, age, provider, returned, history>>

ProviderAnswers(r) ==
  LET p == req[r].pay
  IN /\ At(r, "finalise", "ask")
     /\ provider[p] \in {"paid", "declined"}
     /\ GoTo(r, Finalising(p, req[r].via, "commit", provider[p], FALSE))
     /\ UNCHANGED <<docs, announced, age, provider, returned, history>>

\* The transaction finds the payment finalised and writes nothing.
FinaliseSkip(r) ==
  /\ At(r, "finalise", "commit")
  /\ pay[req[r].pay] \in Terminal(req[r].via)
  /\ GoTo(r, Finalising(req[r].pay, req[r].via, "emit", req[r].verdict,
                        req[r].newly))
  /\ UNCHANGED <<docs, announced, age, provider, returned, history>>

\* An attempt the store aborts runs again: its writes are lost, the
\* wasNewly... flag it set in the closure is not.
FinaliseAborted(r) ==
  /\ At(r, "finalise", "commit")
  /\ pay[req[r].pay] \notin Terminal(req[r].via)
  /\ GoTo(r, Finalising(req[r].pay, req[r].via, "commit", req[r].verdict, TRUE))
  /\ UNCHANGED <<docs, announced, age, provider, returned, history>>

FinaliseSucceeded(r) ==
  LET p == req[r].pay
  IN /\ At(r, "finalise", "commit")
     /\ req[r].verdict = "paid"
     /\ pay[p] \notin Terminal(req[r].via)
     /\ pay' = [pay EXCEPT ![p] = "succeeded"]
     /\ reg' = [reg EXCEPT ![p] = "confirmed"]
     /\ registeredCount' = registeredCount + 1
     /\ soldCount' = soldCount + 1
     /\ credits' = [credits EXCEPT ![p] = @ + 1]
     /\ GoTo(r, Finalising(p, req[r].via, "emit", "paid", TRUE))
     /\ UNCHANGED <<attached, refunded, owner, debits, idem, lock, announced,
                    age, provider, returned, history>>

FinaliseFailed(r) ==
  LET p == req[r].pay
  IN /\ At(r, "finalise", "commit")
     /\ req[r].verdict = "declined"
     /\ pay[p] \notin Terminal(req[r].via)
     /\ pay' = [pay EXCEPT ![p] = "failed"]
     /\ reg' = [reg EXCEPT ![p] = "cancelled"]
     /\ GoTo(r, Finalising(p, req[r].via, "emit", "declined", TRUE))
     /\ UNCHANGED <<attached, refunded, owner, registeredCount, soldCount,
                    credits, debits, idem, lock, announced, age, provider,
                    returned, history>>

FinaliseEmit(r) ==
  /\ At(r, "finalise", "emit")
  /\ announced' =
       IF req[r].newly /\ req[r].verdict = "paid"
       THEN [announced EXCEPT ![req[r].pay] = @ + 1]
       ELSE announced
  /\ Done(r)
  /\ UNCHANGED <<docs, age, provider, returned, history>>

-----------------------------------------------------------------------------
(* The registration service's operations on a registration that is paid    *)
(* for.                                                                    *)

\* Whether a cancellation decrements registeredCount.
GivesSeatBack(p) == reg[p] = "confirmed"

Cancel(p) ==
  /\ reg[p] \in {"confirmed", "pending_payment"}
  /\ reg' = [reg EXCEPT ![p] = "cancelled"]
  /\ registeredCount' = registeredCount - (IF GivesSeatBack(p) THEN 1 ELSE 0)
  /\ UNCHANGED <<pay, attached, refunded, owner, soldCount, credits, debits,
                 idem, lock, announced, age, provider, returned, req,
                 history>>

CancelPending(p) ==
  /\ reg[p] = "pending_payment"
  /\ reg' = [reg EXCEPT ![p] = "cancelled"]
  /\ pay' = IF pay[p] \in Open THEN [pay EXCEPT ![p] = "expired"] ELSE pay
  /\ UNCHANGED <<attached, refunded, owner, registeredCount, soldCount,
                 credits, debits, idem, lock, announced, age, provider,
                 returned, req, history>>

\* Mutant: a registration still to be paid for is let in.
IsAdmittedUnpaid(p) == reg[p] \in {"confirmed", "pending_payment"}

IsAdmitted(p) == reg[p] = "confirmed"

CheckIn(p) ==
  /\ IsAdmitted(p)
  /\ reg' = [reg EXCEPT ![p] = "checked_in"]
  /\ UNCHANGED <<pay, attached, refunded, owner, registeredCount, soldCount,
                 credits, debits, idem, lock, announced, age, provider,
                 returned, req, history>>

-----------------------------------------------------------------------------
(* onPaymentTimeout and the expire-stale-payments job.                     *)

TimedOut(p) == pay[p] \in Open /\ age[p] = 2

\* The sweep's transaction reads the registration after it has updated the
\* payment: where the store enforces its rule it throws and changes nothing.
PaymentTimeout(p) ==
  /\ ~ReadsBeforeWrites
  /\ TimedOut(p)
  /\ pay' = [pay EXCEPT ![p] = "expired"]
  /\ reg' = IF reg[p] = "pending_payment"
            THEN [reg EXCEPT ![p] = "cancelled"] ELSE reg
  /\ UNCHANGED <<attached, refunded, owner, registeredCount, soldCount,
                 credits, debits, idem, lock, announced, age, provider,
                 returned, req, history>>

SweepQuery(r) ==
  LET stale == {p \in Payments : pay[p] \in Open /\ age[p] = 2}
  IN /\ req[r] = Idle
     /\ stale # {}
     /\ GoTo(r, [op |-> "sweep", batch |-> stale])
     /\ UNCHANGED <<docs, announced, age, provider, returned, history>>

\* A write batch: no document is read again.
SweepCommit(r) ==
  LET batch == req[r].batch
  IN /\ req[r].op = "sweep"
     /\ pay' = [p \in Payments |-> IF p \in batch THEN "expired" ELSE pay[p]]
     /\ reg' = [p \in Payments |-> IF p \in batch THEN "cancelled" ELSE reg[p]]
     /\ clobbered' = [p \in Payments |->
          IF p \in batch /\ pay[p] \in Credited
          THEN clobbered[p] + 1 ELSE clobbered[p]]
     /\ drift' = drift + Cardinality(Seats \cap batch)
     /\ oversold' = oversold + Cardinality(Sales \cap batch)
     /\ Done(r)
     /\ UNCHANGED <<attached, refunded, owner, registeredCount, soldCount,
                    credits, debits, idem, lock, announced, age, provider,
                    returned>>

-----------------------------------------------------------------------------
(* refundPayment.                                                          *)

Refund(p, a, step) ==
  [op |-> "refund", step |-> step, pay |-> p, amount |-> a]

RefundRead(r, p, a) ==
  /\ req[r] = Idle
  /\ pay[p] = "succeeded"
  /\ a <= Amount - refunded[p]
  /\ GoTo(r, Refund(p, a, "lock"))
  /\ UNCHANGED <<docs, announced, age, provider, returned, history>>

RefundBusy(r) ==
  /\ At(r, "refund", "lock")
  /\ lock[req[r].pay] = "held"
  /\ Done(r)
  /\ UNCHANGED <<docs, announced, age, provider, returned, history>>

\* Mutant: lockRef.set() in the place of lockRef.create().
LockIsFreeAlways(p) == TRUE

LockIsFree(p) == lock[p] # "held"

\* lockRef.create(), or the recovery of a lock past its expiresAt.
RefundLock(r) ==
  LET p == req[r].pay
  IN /\ At(r, "refund", "lock")
     /\ LockIsFree(p)
     /\ lock' = [lock EXCEPT ![p] = "held"]
     /\ GoTo(r, Refund(p, req[r].amount, "call"))
     /\ UNCHANGED <<pay, attached, refunded, owner, reg, registeredCount,
                    soldCount, credits, debits, idem, announced, age,
                    provider, returned, history>>

ProviderAccepts(r) ==
  /\ returned[req[r].pay] + req[r].amount <= Amount
  /\ returned' = [returned EXCEPT ![req[r].pay] = @ + req[r].amount]

RefundAccepted(r) ==
  /\ At(r, "refund", "call")
  /\ ProviderAccepts(r)
  /\ GoTo(r, Refund(req[r].pay, req[r].amount, "record"))
  /\ UNCHANGED <<docs, announced, age, provider, history>>

\* success = false: the provider refused, or the call timed out after the
\* provider acted on it.
RefundRefused(r) ==
  /\ At(r, "refund", "call")
  /\ ProviderAccepts(r) \/ UNCHANGED returned
  /\ Done(r)
  /\ UNCHANGED <<docs, announced, age, provider, history>>

\* Mutant: the catch goes on to the transaction.
RefundThrowsOn(r) ==
  /\ At(r, "refund", "call")
  /\ GoTo(r, Refund(req[r].pay, req[r].amount, "record"))
  /\ UNCHANGED <<docs, announced, age, provider, returned, history>>

RefundThrows(r) ==
  /\ At(r, "refund", "call")
  /\ GoTo(r, Refund(req[r].pay, req[r].amount, "unlock"))
  /\ UNCHANGED <<docs, announced, age, provider, returned, history>>

RefundUnlock(r) ==
  /\ At(r, "refund", "unlock")
  /\ lock' = [lock EXCEPT ![req[r].pay] = "free"]
  /\ Done(r)
  /\ UNCHANGED <<pay, attached, refunded, owner, reg, registeredCount,
                 soldCount, credits, debits, idem, announced, age, provider,
                 returned, history>>

\* Mutant: the transaction checks the amount again and not the status.
StillCovered(r) == req[r].amount <= Amount - refunded[req[r].pay]

StillRefundable(r) ==
  /\ pay[req[r].pay] = "succeeded"
  /\ req[r].amount <= Amount - refunded[req[r].pay]

IsFullRefund(r) == refunded[req[r].pay] + req[r].amount = Amount

\* The transaction throws and leaves the lock behind: the payment has moved
\* on, or the refund is full and its reads follow the payment's update.
RefundRejected(r) ==
  /\ At(r, "refund", "record")
  /\ ~StillRefundable(r) \/ (IsFullRefund(r) /\ ReadsBeforeWrites)
  /\ Done(r)
  /\ UNCHANGED <<docs, announced, age, provider, returned, history>>

RefundRecord(r) ==
  LET p == req[r].pay
      full == IsFullRefund(r)
  IN /\ At(r, "refund", "record")
     /\ StillRefundable(r)
     /\ full => ~ReadsBeforeWrites
     /\ refunded' = [refunded EXCEPT ![p] = @ + req[r].amount]
     /\ debits' = [debits EXCEPT ![p] = @ + req[r].amount]
     /\ lock' = [lock EXCEPT ![p] = "free"]
     /\ IF full
        THEN /\ pay' = [pay EXCEPT ![p] = "refunded"]
             /\ reg' = [reg EXCEPT ![p] = "cancelled"]
             /\ registeredCount' = registeredCount - 1
             /\ soldCount' = IF soldCount > 0 THEN soldCount - 1 ELSE 0
             /\ drift' = drift - (IF p \in Seats THEN 0 ELSE 1)
        ELSE UNCHANGED <<pay, reg, registeredCount, soldCount, drift>>
     /\ Done(r)
     /\ UNCHANGED <<attached, owner, credits, idem, announced, age, provider,
                    returned, clobbered, oversold>>

\* Five minutes outlast the 30 s provider timeout: a lock does not expire
\* under a refund that is still running.
LockExpires(p) ==
  /\ lock[p] = "held"
  /\ \A r \in Requests : ~Refunding(r, p)
  /\ lock' = [lock EXCEPT ![p] = "stale"]
  /\ UNCHANGED <<pay, attached, refunded, owner, reg, registeredCount,
                 soldCount, credits, debits, idem, announced, age, provider,
                 returned, req, history>>

-----------------------------------------------------------------------------
\* Time passes for p; an initiate ends well within the first window.
Ages(p) ==
  /\ pay[p] # "none"
  /\ age[p] < 2
  /\ \A r \in Requests : ~(req[r].op = "session" /\ req[r].pay = p)
  /\ age' = [age EXCEPT ![p] = @ + 1]
  /\ UNCHANGED <<docs, announced, provider, returned, req, history>>

\* The process dies, or a best-effort write fails: nothing more is done.
Crash(r) ==
  /\ CrashesHappen
  /\ req[r] # Idle
  /\ Done(r)
  /\ UNCHANGED <<docs, announced, age, provider, returned, history>>

Advance(r) ==
  \/ InitiateRefused(r)
  \/ \E p \in Payments : InitiateClaim(r, p)
  \/ SessionOpened(r) \/ SessionThrows(r)
  \/ InitiateAttach(r) \/ InitiateAbandon(r)
  \/ ProviderPending(r) \/ ProviderAnswers(r) \/ FinaliseSkip(r)
  \/ FinaliseSucceeded(r) \/ FinaliseFailed(r) \/ FinaliseEmit(r)
  \/ SweepCommit(r)
  \/ RefundBusy(r) \/ RefundLock(r) \/ RefundAccepted(r)
  \/ RefundRefused(r) \/ RefundThrows(r) \/ RefundUnlock(r) \/ RefundRejected(r)
  \/ RefundRecord(r)

Start(r) ==
  \/ \E u \in Users, k \in Keys : InitiateRead(r, u, k)
  \/ \E p \in Payments : \/ WebhookReceive(r, p)
                         \/ VerifyStart(r, p)
                         \/ ReconcileStart(r, p)
                         \/ \E a \in 1..Amount : RefundRead(r, p, a)
  \/ SweepQuery(r)

Next ==
  \/ \E r \in Requests : Start(r) \/ Advance(r) \/ FinaliseAborted(r)
                         \/ Crash(r)
  \/ \E p \in Payments : \/ ProviderSettles(p) \/ Cancel(p)
                         \/ CancelPending(p) \/ CheckIn(p)
                         \/ PaymentTimeout(p) \/ LockExpires(p) \/ Ages(p)

Spec == Init /\ [][Next]_vars

\* The provider repeats its IPN until one is handled, and process deaths do
\* not recur for ever; a request and a scheduled sweep run when they can.
Fairness ==
  /\ \A r \in Requests : WF_vars(Advance(r))
  /\ \A p \in Payments :
       /\ SF_vars(\E r \in Requests : WebhookReceive(r, p))
       /\ SF_vars(\E r \in Requests : FinaliseSucceeded(r) /\ req[r].pay = p)

FairSpec == Spec /\ Fairness

-----------------------------------------------------------------------------
(* Properties.                                                             *)

\* The ledger and the status agree: a payment has been credited exactly once
\* when it is succeeded or refunded and not at all otherwise, however many
\* IPNs, verifications and reconciliations race, but for one credit more each
\* time the expire-stale-payments job has overwritten a success.
CreditMatchesStatus ==
  \A p \in Payments :
    credits[p] = clobbered[p] + (IF pay[p] \in Credited THEN 1 ELSE 0)

\* Nobody sits on a ticket the provider was not paid for: a confirmed or
\* checked-in registration has a payment that is succeeded, settled at the
\* provider and in the ledger, whatever was cancelled, expired or retried
\* before.
SeatIsPaid ==
  \A p \in Seats :
    pay[p] = "succeeded" /\ provider[p] = "paid" /\ credits[p] > 0

\* Both counters of the event are exact, however finalising, cancelling,
\* refunding and expiring come together: registeredCount is the number of seats
\* taken and soldCount the number of succeeded payments, but for what the
\* batch of the expire-stale-payments job overwrites and for a full refund of
\* a registration cancelled before, which counts its seat down a second time.
\* No sale is ever counted below zero (payment.service.ts:2025-2096).
CountersAreExact ==
  /\ registeredCount = Cardinality(Seats) + drift
  /\ soldCount = Cardinality(Sales) + oversold

\* The refund lock does its work: at most one refund of a payment is between
\* taking the lock and letting go of it, and the lock is held all that time.
RefundMutex ==
  \A p \in Payments, r \in Requests :
    Refunding(r, p) => /\ lock[p] = "held"
                       /\ \A s \in Requests : Refunding(s, p) => s = r

\* Refunds are never invented: the ledger's refund rows add up to
\* refundedAmount, and to no more than the provider has given back.
RefundsAreBacked ==
  \A p \in Payments : debits[p] = refunded[p] /\ debits[p] <= returned[p]

\* The credits of the ledger: <<p, n>> is the nth row pair of payment p.
CreditsMade == UNION {{p} \X (1..credits[p]) : p \in Payments}

\* The account that payouts are drawn from, as far as payments feed it: what
\* was credited and what was refunded, with no payout made.
Acc ==
  INSTANCE Account
    WITH Payouts <- {},
         NoPayout <- NoPayment,
         Price <- Amount,
         Fee <- 0,
         forgotten <- clobbered,
         refunded <- debits,
         payout <- [c \in CreditsMade |-> NoPayment],
         paid <- [d \in {} |-> 0]

\* What the payouts take as one step is what finalising, expiring and refunding
\* come to: a payment is credited again only after the job's batch overwrote
\* its success, and a refund's row is written only while the payment has a
\* success, and leaves no more refunded than was paid, whatever the batch does
\* between the refund's first read and its transaction
\* (payment.service.ts:752-867, 1999-2129).
FeedsTheAccount == Acc!Spec

\* A payment the provider was paid for is credited in the end, also when it
\* had been expired or its registration cancelled meanwhile.
PaidIsCredited ==
  \A p \in Payments : provider[p] = "paid" ~> credits[p] > 0

\* A refund the provider carried out and the transaction finds valid is
\* recorded: the request does not end without its ledger row.
RefundCommits ==
  [][\A r \in Requests :
       At(r, "refund", "record") /\ StillRefundable(r) /\ req'[r] = Idle
         => debits'[req[r].pay] = debits[req[r].pay] + req[r].amount]_vars

-----------------------------------------------------------------------------
(* What comments of the code say and the code does not do.                 *)

\* payment.succeeded is emitted only when a transaction truly flipped the
\* status to succeeded.
AnnouncedOnlyOnTransition == \A p \in Payments : announced[p] <= credits[p]
=============================================================================
