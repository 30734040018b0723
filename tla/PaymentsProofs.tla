--------------------------- MODULE PaymentsProofs ---------------------------
(***************************************************************************)
(* Proofs about Payments for any participants, payments, requests and      *)
(* keys, any price and any capacity.  Three invariants, each on the one    *)
(* before: types, refunds under their lock, credits with the seats they    *)
(* pay for; then the event's two counters, what would keep the promises    *)
(* the code breaks, and the refinement of the books.                       *)
(***************************************************************************)
EXTENDS Payments, FiniteSetTheorems, TLAPS

USE DEF At, GoTo, Done, Idle, Session, Finalising, Refund, history

\* The forms of an invocation's local state.
LEMMA TaskForms ==
  ASSUME TypeOK, NEW r \in Requests
  PROVE  /\ req[r] \in Task
         /\ req[r].op = "initiate" => req[r] \in InitiateTask
         /\ req[r].op = "session" => req[r] \in SessionTask
         /\ req[r].op = "finalise" => req[r] \in FinaliseTask
         /\ req[r].op = "refund" => req[r] \in RefundTask
         /\ req[r].op = "sweep" => req[r] \in SweepTask
BY DEF TypeOK, Task, InitiateTask, SessionTask, FinaliseTask, RefundTask,
       SweepTask

\* How many of the payments have something in common is a number.
LEMMA Counts ==
  ASSUME NEW S \in SUBSET Payments
  PROVE  IsFiniteSet(S) /\ Cardinality(S) \in Nat
BY FiniteAssumption, FS_Subset, FS_CardinalityType

LEMMA TypeInit == Init => TypeOK
BY AmountAssumption DEF Init, TypeOK, Task, PaymentStatus, RegistrationStatus

LEMMA TypeStart ==
  ASSUME TypeOK, NEW r \in Requests, Start(r)
  PROVE  TypeOK'
<1>1. ASSUME NEW u \in Users, NEW k \in Keys, InitiateRead(r, u, k)
      PROVE  TypeOK'
  BY <1>1 DEF InitiateRead, TypeOK, Task, InitiateTask, docs
<1>2. ASSUME NEW p \in Payments, WebhookReceive(r, p)
      PROVE  TypeOK'
  BY <1>2 DEF WebhookReceive, TypeOK, Task, FinaliseTask, Channels, docs
<1>3. ASSUME NEW p \in Payments, VerifyStart(r, p)
      PROVE  TypeOK'
  BY <1>3 DEF VerifyStart, TypeOK, Task, FinaliseTask, Channels, docs
<1>4. ASSUME NEW p \in Payments, ReconcileStart(r, p)
      PROVE  TypeOK'
  BY <1>4 DEF ReconcileStart, TypeOK, Task, FinaliseTask, Channels, docs
<1>5. ASSUME NEW p \in Payments, NEW a \in 1..Amount, RefundRead(r, p, a)
      PROVE  TypeOK'
  BY <1>5 DEF RefundRead, TypeOK, Task, RefundTask, docs
<1>6. ASSUME SweepQuery(r) PROVE TypeOK'
  BY <1>6 DEF SweepQuery, TypeOK, Task, SweepTask, docs
<1> QED
  BY <1>1, <1>2, <1>3, <1>4, <1>5, <1>6 DEF Start

LEMMA TypeAdvance ==
  ASSUME TypeOK, NEW r \in Requests, Advance(r)
  PROVE  TypeOK'
<1> USE TaskForms
<1>1. ASSUME InitiateRefused(r) PROVE TypeOK'
  BY <1>1 DEF InitiateRefused, TypeOK, Task, docs
<1>2. ASSUME NEW p \in Payments, InitiateClaim(r, p) PROVE TypeOK'
  BY <1>2 DEF InitiateClaim, TypeOK, Task, InitiateTask, SessionTask, PaymentStatus, RegistrationStatus
<1>3. ASSUME SessionOpened(r) \/ SessionThrows(r) PROVE TypeOK'
  BY <1>3 DEF SessionOpened, SessionThrows, TypeOK, Task, SessionTask, docs
<1>4. ASSUME InitiateAttach(r) PROVE TypeOK'
  BY <1>4 DEF InitiateAttach, TypeOK, Task, SessionTask, PaymentStatus
<1>5. ASSUME InitiateAbandon(r) PROVE TypeOK'
  BY <1>5 DEF InitiateAbandon, TypeOK, Task, SessionTask, PaymentStatus
<1>6. ASSUME ProviderAnswers(r) PROVE TypeOK'
  BY <1>6 DEF ProviderAnswers, TypeOK, Task, FinaliseTask, docs
<1>19. ASSUME ProviderPending(r) PROVE TypeOK'
  BY <1>19 DEF ProviderPending, TypeOK, Task, docs
<1>7. ASSUME FinaliseSkip(r) PROVE TypeOK'
  BY <1>7 DEF FinaliseSkip, TypeOK, Task, FinaliseTask, docs
<1>8. ASSUME FinaliseSucceeded(r) PROVE TypeOK'
  BY <1>8 DEF FinaliseSucceeded, TypeOK, Task, FinaliseTask, PaymentStatus, RegistrationStatus
<1>9. ASSUME FinaliseFailed(r) PROVE TypeOK'
  BY <1>9 DEF FinaliseFailed, TypeOK, Task, FinaliseTask, PaymentStatus, RegistrationStatus
<1>10. ASSUME FinaliseEmit(r) PROVE TypeOK'
  BY <1>10 DEF FinaliseEmit, TypeOK, Task, FinaliseTask, docs
<1>11. ASSUME SweepCommit(r) PROVE TypeOK'
  <2>1. /\ Cardinality(Seats \cap req[r].batch) \in Nat
        /\ Cardinality(Sales \cap req[r].batch) \in Nat
    BY Counts, Seats \cap req[r].batch \subseteq Payments,
       Sales \cap req[r].batch \subseteq Payments DEF Seats, Sales
  <2>2. drift' \in Int /\ oversold' \in Nat
    BY <1>11, <2>1 DEF SweepCommit, TypeOK
  <2> QED
    BY <1>11, <2>2
       DEF SweepCommit, TypeOK, Task, SweepTask, PaymentStatus, RegistrationStatus
<1>12. ASSUME RefundBusy(r) \/ RefundLock(r) PROVE TypeOK'
  BY <1>12 DEF RefundBusy, RefundLock, TypeOK, Task, RefundTask, docs
<1>13. ASSUME RefundAccepted(r) PROVE TypeOK'
  BY <1>13, AmountAssumption DEF RefundAccepted, ProviderAccepts, TypeOK, Task, RefundTask, docs
<1>14. ASSUME RefundRefused(r) PROVE TypeOK'
  BY <1>14, AmountAssumption DEF RefundRefused, ProviderAccepts, TypeOK, Task, RefundTask, docs
<1>15. ASSUME RefundThrows(r) PROVE TypeOK'
  BY <1>15 DEF RefundThrows, TypeOK, Task, RefundTask, docs
<1>16. ASSUME RefundUnlock(r) PROVE TypeOK'
  BY <1>16 DEF RefundUnlock, TypeOK, Task, RefundTask
<1>17. ASSUME RefundRejected(r) PROVE TypeOK'
  BY <1>17 DEF RefundRejected, TypeOK, Task, RefundTask, docs
<1>18. ASSUME RefundRecord(r) PROVE TypeOK'
  BY <1>18, AmountAssumption DEF RefundRecord, StillRefundable, IsFullRefund, TypeOK, Task, RefundTask, PaymentStatus, RegistrationStatus
<1> QED
  BY <1>1, <1>2, <1>3, <1>4, <1>5, <1>6, <1>7, <1>8, <1>9, <1>10, <1>11,
     <1>12, <1>13, <1>14, <1>15, <1>16, <1>17, <1>18, <1>19 DEF Advance

LEMMA TypeRest ==
  ASSUME TypeOK,
         \/ \E r \in Requests : FinaliseAborted(r) \/ Crash(r)
         \/ \E p \in Payments : \/ ProviderSettles(p) \/ Cancel(p)
                                \/ CancelPending(p) \/ CheckIn(p)
                                \/ PaymentTimeout(p) \/ LockExpires(p)
                                \/ Ages(p)
  PROVE  TypeOK'
<1> USE TaskForms
<1>1. ASSUME NEW r \in Requests, FinaliseAborted(r) PROVE TypeOK'
  BY <1>1 DEF FinaliseAborted, TypeOK, Task, FinaliseTask, docs
<1>2. ASSUME NEW r \in Requests, Crash(r) PROVE TypeOK'
  BY <1>2 DEF Crash, TypeOK, Task, docs
<1>3. ASSUME NEW p \in Payments, ProviderSettles(p) PROVE TypeOK'
  BY <1>3 DEF ProviderSettles, TypeOK, docs
<1>4. ASSUME NEW p \in Payments, Cancel(p) PROVE TypeOK'
  BY <1>4 DEF Cancel, TypeOK, RegistrationStatus
<1>5. ASSUME NEW p \in Payments, CancelPending(p) PROVE TypeOK'
  BY <1>5 DEF CancelPending, TypeOK, RegistrationStatus, PaymentStatus
<1>6. ASSUME NEW p \in Payments, CheckIn(p) PROVE TypeOK'
  BY <1>6 DEF CheckIn, TypeOK, RegistrationStatus
<1>7. ASSUME NEW p \in Payments, PaymentTimeout(p) PROVE TypeOK'
  BY <1>7 DEF PaymentTimeout, TimedOut, TypeOK, RegistrationStatus, PaymentStatus
<1>8. ASSUME NEW p \in Payments, LockExpires(p) PROVE TypeOK'
  BY <1>8 DEF LockExpires, TypeOK
<1>9. ASSUME NEW p \in Payments, Ages(p) PROVE TypeOK'
  BY <1>9 DEF Ages, TypeOK, docs
<1> QED
  BY <1>1, <1>2, <1>3, <1>4, <1>5, <1>6, <1>7, <1>8, <1>9

LEMMA TypeStutter ==
  ASSUME TypeOK, UNCHANGED vars
  PROVE  TypeOK'
BY DEF TypeOK, vars, docs

\* Every variable keeps its type, for any sets of participants, payments,
\* requests and keys and any price and capacity.
THEOREM TypeCorrect == Spec => []TypeOK
<1>1. TypeOK /\ [Next]_vars => TypeOK'
  BY TypeStart, TypeAdvance, TypeRest, TypeStutter DEF Next
<1> QED
  BY TypeInit, <1>1, PTL DEF Spec

-----------------------------------------------------------------------------
(* The refund lock and the refunds in the ledger.                          *)

\* A refund about to be recorded is already part of what the provider gave
\* back and not yet part of the ledger; the lock keeps it the only one.
PendingIsReturned ==
  \A r \in Requests :
    At(r, "refund", "record")
      => debits[req[r].pay] + req[r].amount <= returned[req[r].pay]

RefundInv == TypeOK /\ RefundMutex /\ RefundsAreBacked /\ PendingIsReturned

LEMMA RefundInit == Init => RefundInv
BY TypeInit, AmountAssumption
   DEF Init, RefundInv, RefundMutex, Refunding, RefundsAreBacked,
       PendingIsReturned

\* An invocation that does not hold a refund lock moves, the ledger's refunds
\* and the locks stay.
LEMMA RefundFrame ==
  ASSUME RefundInv, NEW r \in Requests, NEW t,
         req' = [req EXCEPT ![r] = t],
         t.op # "refund" \/ t.step = "lock",
         UNCHANGED <<lock, refunded, debits, returned>>
  PROVE  RefundMutex' /\ RefundsAreBacked' /\ PendingIsReturned'
BY DEF RefundInv, TypeOK, RefundMutex, Refunding, RefundsAreBacked,
       PendingIsReturned

\* No invocation moves.
LEMMA RefundFrameIdle ==
  ASSUME RefundInv, UNCHANGED <<req, lock, refunded, debits, returned>>
  PROVE  RefundMutex' /\ RefundsAreBacked' /\ PendingIsReturned'
BY DEF RefundInv, RefundMutex, Refunding, RefundsAreBacked, PendingIsReturned

LEMMA RefundStart ==
  ASSUME RefundInv, NEW r \in Requests, Start(r)
  PROVE  RefundMutex' /\ RefundsAreBacked' /\ PendingIsReturned'
<1>1. ASSUME NEW u \in Users, NEW k \in Keys, InitiateRead(r, u, k)
      PROVE  RefundMutex' /\ RefundsAreBacked' /\ PendingIsReturned'
  BY <1>1, RefundFrame DEF InitiateRead, docs
<1>2. ASSUME NEW p \in Payments, WebhookReceive(r, p)
      PROVE  RefundMutex' /\ RefundsAreBacked' /\ PendingIsReturned'
  BY <1>2, RefundFrame DEF WebhookReceive, docs
<1>3. ASSUME NEW p \in Payments, VerifyStart(r, p)
      PROVE  RefundMutex' /\ RefundsAreBacked' /\ PendingIsReturned'
  BY <1>3, RefundFrame DEF VerifyStart, docs
<1>4. ASSUME NEW p \in Payments, ReconcileStart(r, p)
      PROVE  RefundMutex' /\ RefundsAreBacked' /\ PendingIsReturned'
  BY <1>4, RefundFrame DEF ReconcileStart, docs
<1>5. ASSUME NEW p \in Payments, NEW a \in 1..Amount, RefundRead(r, p, a)
      PROVE  RefundMutex' /\ RefundsAreBacked' /\ PendingIsReturned'
  BY <1>5, RefundFrame DEF RefundRead, docs
<1>6. ASSUME SweepQuery(r)
      PROVE  RefundMutex' /\ RefundsAreBacked' /\ PendingIsReturned'
  BY <1>6, RefundFrame DEF SweepQuery, docs
<1> QED
  BY <1>1, <1>2, <1>3, <1>4, <1>5, <1>6 DEF Start

LEMMA RefundAdvance ==
  ASSUME RefundInv, NEW r \in Requests, Advance(r)
  PROVE  RefundMutex' /\ RefundsAreBacked' /\ PendingIsReturned'
<1> DEFINE Goal == RefundMutex' /\ RefundsAreBacked' /\ PendingIsReturned'
<1> USE TaskForms DEF RefundInv
<1>1. ASSUME InitiateRefused(r) PROVE Goal
  BY <1>1, RefundFrame DEF InitiateRefused, docs
<1>2. ASSUME NEW p \in Payments, InitiateClaim(r, p) PROVE Goal
  BY <1>2, RefundFrame DEF InitiateClaim
<1>3. ASSUME SessionOpened(r) \/ SessionThrows(r) PROVE Goal
  BY <1>3, RefundFrame DEF SessionOpened, SessionThrows, docs
<1>4. ASSUME InitiateAttach(r) \/ InitiateAbandon(r) PROVE Goal
  BY <1>4, RefundFrame DEF InitiateAttach, InitiateAbandon
<1>5. ASSUME ProviderPending(r) \/ ProviderAnswers(r) PROVE Goal
  BY <1>5, RefundFrame DEF ProviderPending, ProviderAnswers, docs
<1>6. ASSUME FinaliseSkip(r) PROVE Goal
  BY <1>6, RefundFrame DEF FinaliseSkip, docs
<1>7. ASSUME FinaliseSucceeded(r) \/ FinaliseFailed(r) PROVE Goal
  BY <1>7, RefundFrame DEF FinaliseSucceeded, FinaliseFailed
<1>8. ASSUME FinaliseEmit(r) \/ SweepCommit(r) PROVE Goal
  <2>1. FinaliseEmit(r) => req' = [req EXCEPT ![r] = Idle]
                           /\ UNCHANGED <<lock, refunded, debits, returned>>
    BY DEF FinaliseEmit, docs
  <2>2. SweepCommit(r) => req' = [req EXCEPT ![r] = Idle]
                          /\ UNCHANGED <<lock, refunded, debits, returned>>
    BY DEF SweepCommit
  <2> QED BY <1>8, <2>1, <2>2, RefundFrame
<1>9. ASSUME RefundLock(r) PROVE Goal
  BY <1>9 DEF RefundLock, LockIsFree, TypeOK, RefundTask, RefundMutex, Refunding,
              RefundsAreBacked, PendingIsReturned
<1>10. ASSUME RefundAccepted(r) PROVE Goal
  BY <1>10 DEF RefundAccepted, ProviderAccepts, TypeOK, RefundTask,
               RefundMutex, Refunding, RefundsAreBacked, PendingIsReturned,
               docs
<1>11. ASSUME RefundRefused(r) PROVE Goal
  BY <1>11 DEF RefundRefused, ProviderAccepts, TypeOK, RefundTask,
               RefundMutex, Refunding, RefundsAreBacked, PendingIsReturned,
               docs
<1>12. ASSUME RefundThrows(r) PROVE Goal
  BY <1>12 DEF RefundThrows, TypeOK, RefundTask, RefundMutex, Refunding,
               RefundsAreBacked, PendingIsReturned, docs
<1>13. ASSUME RefundUnlock(r) PROVE Goal
  BY <1>13 DEF RefundUnlock, TypeOK, RefundTask, RefundMutex, Refunding,
               RefundsAreBacked, PendingIsReturned
<1>14. ASSUME RefundBusy(r) \/ RefundRejected(r) PROVE Goal
  BY <1>14, RefundFrame DEF RefundBusy, RefundRejected, docs
<1>15. ASSUME RefundRecord(r) PROVE Goal
  BY <1>15 DEF RefundRecord, StillRefundable, TypeOK, RefundTask,
               RefundMutex, Refunding, RefundsAreBacked, PendingIsReturned
<1> QED
  BY <1>1, <1>2, <1>3, <1>4, <1>5, <1>6, <1>7, <1>8, <1>9, <1>10, <1>11,
     <1>12, <1>13, <1>14, <1>15 DEF Advance

LEMMA RefundRest ==
  ASSUME RefundInv,
         \/ \E r \in Requests : FinaliseAborted(r) \/ Crash(r)
         \/ \E p \in Payments : \/ ProviderSettles(p) \/ Cancel(p)
                                \/ CancelPending(p) \/ CheckIn(p)
                                \/ PaymentTimeout(p) \/ LockExpires(p)
                                \/ Ages(p)
  PROVE  RefundMutex' /\ RefundsAreBacked' /\ PendingIsReturned'
<1> DEFINE Goal == RefundMutex' /\ RefundsAreBacked' /\ PendingIsReturned'
<1>1. ASSUME NEW r \in Requests, FinaliseAborted(r) \/ Crash(r) PROVE Goal
  BY <1>1, RefundFrame DEF FinaliseAborted, Crash, docs
<1>2. ASSUME NEW p \in Payments,
             \/ ProviderSettles(p) \/ Cancel(p) \/ CancelPending(p)
             \/ CheckIn(p) \/ PaymentTimeout(p) \/ Ages(p)
      PROVE  Goal
  BY <1>2, RefundFrameIdle
     DEF ProviderSettles, Cancel, CancelPending, CheckIn, PaymentTimeout,
         Ages, docs
<1>3. ASSUME NEW p \in Payments, LockExpires(p) PROVE Goal
  BY <1>3 DEF LockExpires, RefundInv, TypeOK, RefundMutex, Refunding,
              RefundsAreBacked, PendingIsReturned
<1> QED BY <1>1, <1>2, <1>3

LEMMA RefundStep == RefundInv /\ [Next]_vars => RefundInv'
<1>1. RefundInv /\ Next => RefundMutex' /\ RefundsAreBacked' /\ PendingIsReturned'
  BY RefundStart, RefundAdvance, RefundRest DEF Next
<1>2. RefundInv /\ Next => TypeOK'
  BY TypeStart, TypeAdvance, TypeRest DEF Next, RefundInv
<1>3. RefundInv /\ UNCHANGED vars => RefundInv'
  BY TypeStutter, RefundFrameIdle DEF RefundInv, vars, docs
<1> QED BY <1>1, <1>2, <1>3 DEF RefundInv

\* The refund lock serialises the refunds of a payment: two operators, a retry
\* and the recovery of an expired lock never call the provider together.
THEOREM LockExcludes == Spec => []RefundMutex
<1>1. RefundInv => RefundMutex
  BY DEF RefundInv
<1> QED
  BY RefundInit, RefundStep, <1>1, PTL DEF Spec

\* The ledger never records a refund the provider has not made.
THEOREM RefundsCorrect == Spec => []RefundsAreBacked
<1>1. RefundInv => RefundsAreBacked
  BY DEF RefundInv
<1> QED
  BY RefundInit, RefundStep, <1>1, PTL DEF Spec

-----------------------------------------------------------------------------
(* Credits.                                                                *)

\* A payment is finalised only once its provider session is attached, and a
\* verdict is what the provider settled on.
AttachedInv ==
  \A p \in Payments :
    /\ pay[p] \in Credited => p \in attached
    /\ provider[p] \in {"paid", "declined"} => p \in attached
    /\ pay[p] = "none" => p \notin attached

\* Only the one initiate that created a payment works on its session.
SessionInv ==
  \A r \in Requests :
    req[r].op = "session" =>
      /\ req[r].pay \notin attached
      /\ pay[req[r].pay] # "none"
      /\ \A s \in Requests :
           req[s].op = "session" /\ req[s].pay = req[r].pay => s = r

VerdictInv ==
  \A r \in Requests :
    req[r].op = "finalise" =>
      /\ req[r].pay \in attached
      /\ req[r].step # "ask" => /\ req[r].verdict # "unknown"
                                /\ provider[req[r].pay] = req[r].verdict

CreditInv ==
  /\ TypeOK
  /\ AttachedInv
  /\ SessionInv
  /\ VerdictInv
  /\ CreditMatchesStatus
  /\ SeatIsPaid

LEMMA CreditInit == Init => CreditInv
BY TypeInit
   DEF Init, CreditInv, AttachedInv, SessionInv, VerdictInv, Credited,
       CreditMatchesStatus, SeatIsPaid, Seats

\* The documents and the provider stay, and an invocation moves neither to a
\* session nor to a finalisation.
LEMMA CreditFrame ==
  ASSUME CreditInv, NEW r \in Requests, NEW t,
         req' = [req EXCEPT ![r] = t],
         t.op \notin {"session", "finalise"},
         UNCHANGED <<pay, attached, reg, credits, provider, clobbered>>,
         TypeOK'
  PROVE  CreditInv'
BY DEF CreditInv, TypeOK, AttachedInv, SessionInv, VerdictInv,
       CreditMatchesStatus, SeatIsPaid, Seats

LEMMA CreditStart ==
  ASSUME CreditInv, NEW r \in Requests, Start(r)
  PROVE  CreditInv'
<1>0. TypeOK'
  BY TypeStart DEF CreditInv
<1>1. ASSUME NEW u \in Users, NEW k \in Keys, InitiateRead(r, u, k)
      PROVE  CreditInv'
  BY <1>0, <1>1, CreditFrame DEF InitiateRead, docs
<1>2. ASSUME NEW p \in Payments, WebhookReceive(r, p)
      PROVE  CreditInv'
  BY <1>0, <1>2 DEF WebhookReceive, docs, CreditInv, TypeOK,
     AttachedInv, SessionInv, VerdictInv, CreditMatchesStatus, SeatIsPaid,
     Seats
<1>3. ASSUME NEW p \in Payments, VerifyStart(r, p)
      PROVE  CreditInv'
  BY <1>0, <1>3 DEF VerifyStart, docs, CreditInv, TypeOK,
     AttachedInv, SessionInv, VerdictInv, CreditMatchesStatus, SeatIsPaid,
     Seats
<1>4. ASSUME NEW p \in Payments, ReconcileStart(r, p)
      PROVE  CreditInv'
  BY <1>0, <1>4 DEF ReconcileStart, docs, CreditInv, TypeOK,
     AttachedInv, SessionInv, VerdictInv, CreditMatchesStatus, SeatIsPaid,
     Seats
<1>5. ASSUME NEW p \in Payments, NEW a \in 1..Amount, RefundRead(r, p, a)
      PROVE  CreditInv'
  BY <1>0, <1>5, CreditFrame DEF RefundRead, docs
<1>6. ASSUME SweepQuery(r) PROVE CreditInv'
  BY <1>0, <1>6, CreditFrame DEF SweepQuery, docs
<1> QED
  BY <1>1, <1>2, <1>3, <1>4, <1>5, <1>6 DEF Start

LEMMA CreditAdvance ==
  ASSUME CreditInv, NEW r \in Requests, Advance(r)
  PROVE  CreditInv'
<1>0. TypeOK'
  BY TypeAdvance DEF CreditInv
<1> USE <1>0, TaskForms
<1>1. ASSUME InitiateRefused(r) PROVE CreditInv'
  BY <1>1, CreditFrame DEF InitiateRefused, docs
<1>2. ASSUME NEW p \in Payments, InitiateClaim(r, p) PROVE CreditInv'
  BY <1>2 DEF InitiateClaim, CreditInv, TypeOK, AttachedInv, SessionInv,
     VerdictInv, CreditMatchesStatus, SeatIsPaid, Seats, Credited
<1>3. ASSUME SessionOpened(r) \/ SessionThrows(r) PROVE CreditInv'
  BY <1>3 DEF SessionOpened, SessionThrows, docs, CreditInv, TypeOK,
     SessionTask, AttachedInv, SessionInv, VerdictInv, CreditMatchesStatus,
     SeatIsPaid, Seats
<1>4. ASSUME InitiateAttach(r) PROVE CreditInv'
  BY <1>4 DEF InitiateAttach, CreditInv, TypeOK, SessionTask, AttachedInv,
     SessionInv, VerdictInv, CreditMatchesStatus, SeatIsPaid, Seats, Credited
<1>5. ASSUME InitiateAbandon(r) PROVE CreditInv'
  BY <1>5 DEF InitiateAbandon, CreditInv, TypeOK, SessionTask, AttachedInv,
     SessionInv, VerdictInv, CreditMatchesStatus, SeatIsPaid, Seats, Credited
<1>6. ASSUME ProviderPending(r) PROVE CreditInv'
  BY <1>6, CreditFrame DEF ProviderPending, docs
<1>7. ASSUME ProviderAnswers(r) PROVE CreditInv'
  BY <1>7 DEF ProviderAnswers, docs, CreditInv, TypeOK,
     FinaliseTask, AttachedInv, SessionInv, VerdictInv, CreditMatchesStatus,
     SeatIsPaid, Seats
<1>8. ASSUME FinaliseSkip(r) PROVE CreditInv'
  BY <1>8 DEF FinaliseSkip, docs, CreditInv, TypeOK, FinaliseTask,
     AttachedInv, SessionInv, VerdictInv, CreditMatchesStatus, SeatIsPaid,
     Seats
<1>9. ASSUME FinaliseSucceeded(r) PROVE CreditInv'
  BY <1>9 DEF FinaliseSucceeded, Terminal, Final, Credited,
     CreditInv, TypeOK, FinaliseTask, AttachedInv, SessionInv, VerdictInv,
     CreditMatchesStatus, SeatIsPaid, Seats
<1>10. ASSUME FinaliseFailed(r) PROVE CreditInv'
  BY <1>10 DEF FinaliseFailed, Terminal, Final, Credited,
     CreditInv, TypeOK, FinaliseTask, AttachedInv, SessionInv, VerdictInv,
     CreditMatchesStatus, SeatIsPaid, Seats
<1>11. ASSUME FinaliseEmit(r) PROVE CreditInv'
  BY <1>11, CreditFrame DEF FinaliseEmit, docs
<1>12. ASSUME SweepCommit(r) PROVE CreditInv'
  <2> USE <1>12 DEF SweepCommit, CreditInv, TypeOK, SweepTask
  <2>1. \A p \in Payments : pay'[p] \in {pay[p], "expired"}
                            /\ reg'[p] \in {reg[p], "cancelled"}
    OBVIOUS
  <2>2. AttachedInv'
    BY <2>1 DEF AttachedInv, Credited
  <2>3. SessionInv'
    BY <2>1 DEF SessionInv, SessionTask
  <2>4. VerdictInv'
    BY DEF VerdictInv
  <2>5. CreditMatchesStatus'
    BY DEF CreditMatchesStatus, Credited
  <2>6. SeatIsPaid'
    BY <2>1 DEF SeatIsPaid, Seats
  <2> QED BY <2>2, <2>3, <2>4, <2>5, <2>6
<1>13. ASSUME RefundLock(r) \/ RefundAccepted(r) \/ RefundThrows(r)
       PROVE  CreditInv'
  BY <1>13, CreditFrame DEF RefundLock, RefundAccepted, RefundThrows, docs
<1>14. ASSUME \/ RefundBusy(r) \/ RefundRefused(r) \/ RefundUnlock(r)
              \/ RefundRejected(r)
       PROVE  CreditInv'
  BY <1>14, CreditFrame DEF RefundBusy, RefundRefused, RefundUnlock, RefundRejected, docs
<1>15. ASSUME RefundRecord(r) PROVE CreditInv'
  <2> DEFINE q == req[r].pay
  <2>1. q \in Payments /\ pay[q] = "succeeded"
    BY <1>15 DEF CreditInv, RefundRecord, StillRefundable, RefundTask
  <2>2. /\ \/ UNCHANGED <<pay, reg>>
           \/ /\ pay' = [pay EXCEPT ![q] = "refunded"]
              /\ reg' = [reg EXCEPT ![q] = "cancelled"]
        /\ req' = [req EXCEPT ![r] = Idle]
        /\ UNCHANGED <<attached, credits, provider, clobbered>>
    BY <1>15 DEF RefundRecord
  <2> USE <2>1, <2>2 DEF CreditInv, TypeOK
  <2>3. AttachedInv'
    BY DEF AttachedInv, Credited
  <2>4. SessionInv'
    BY DEF SessionInv, SessionTask
  <2>5. VerdictInv'
    BY DEF VerdictInv
  <2>6. CreditMatchesStatus'
    BY DEF CreditMatchesStatus, Credited
  <2>7. SeatIsPaid'
    BY DEF SeatIsPaid, Seats
  <2> QED BY <2>3, <2>4, <2>5, <2>6, <2>7
<1> QED
  BY <1>1, <1>2, <1>3, <1>4, <1>5, <1>6, <1>7, <1>8, <1>9, <1>10, <1>11,
     <1>12, <1>13, <1>14, <1>15 DEF Advance

LEMMA CreditRest ==
  ASSUME CreditInv,
         \/ \E r \in Requests : FinaliseAborted(r) \/ Crash(r)
         \/ \E p \in Payments : \/ ProviderSettles(p) \/ Cancel(p)
                                \/ CancelPending(p) \/ CheckIn(p)
                                \/ PaymentTimeout(p) \/ LockExpires(p)
                                \/ Ages(p)
  PROVE  CreditInv'
<1>0. TypeOK'
  BY TypeRest DEF CreditInv
<1> USE <1>0 DEF CreditInv, TypeOK, AttachedInv, SessionInv, VerdictInv,
                 CreditMatchesStatus, SeatIsPaid, Seats, Credited
<1>1. ASSUME NEW r \in Requests, FinaliseAborted(r) PROVE CreditInv'
  BY <1>1, TaskForms DEF FinaliseAborted, FinaliseTask, docs
<1>2. ASSUME NEW r \in Requests, Crash(r) PROVE CreditInv'
  BY <1>2 DEF Crash, docs
<1>3. ASSUME NEW p \in Payments, ProviderSettles(p) PROVE CreditInv'
  <2>1. PICK o \in {"paid", "declined"} :
          provider' = [provider EXCEPT ![p] = o]
    BY <1>3 DEF ProviderSettles
  <2>2. /\ provider[p] = "open" /\ p \in attached
        /\ UNCHANGED <<pay, attached, reg, credits, clobbered, req>>
    BY <1>3 DEF ProviderSettles, docs
  <2>3. \A r \in Requests : req[r].op = "finalise" /\ req[r].step # "ask"
                              => req[r].pay # p
    BY <2>2, TaskForms DEF FinaliseTask
  <2> QED BY <2>1, <2>2, <2>3
<1>4. ASSUME NEW p \in Payments, Cancel(p) PROVE CreditInv'
  BY <1>4 DEF Cancel
<1>5. ASSUME NEW p \in Payments, CancelPending(p) PROVE CreditInv'
  BY <1>5 DEF CancelPending, Open
<1>6. ASSUME NEW p \in Payments, CheckIn(p) PROVE CreditInv'
  BY <1>6 DEF CheckIn, IsAdmitted
<1>7. ASSUME NEW p \in Payments, PaymentTimeout(p) PROVE CreditInv'
  BY <1>7 DEF PaymentTimeout, TimedOut, Open
<1>8. ASSUME NEW p \in Payments, LockExpires(p) \/ Ages(p) PROVE CreditInv'
  BY <1>8 DEF LockExpires, Ages, docs
<1> QED BY <1>1, <1>2, <1>3, <1>4, <1>5, <1>6, <1>7, <1>8

LEMMA CreditStep == CreditInv /\ [Next]_vars => CreditInv'
<1>1. CreditInv /\ Next => CreditInv'
  BY CreditStart, CreditAdvance, CreditRest DEF Next
<1>2. CreditInv /\ UNCHANGED vars => CreditInv'
  BY TypeStutter
     DEF CreditInv, AttachedInv, SessionInv, VerdictInv,
         CreditMatchesStatus, SeatIsPaid, Seats, vars, docs
<1> QED BY <1>1, <1>2

\* However the three finalising paths, the cancellations and the expiries
\* interleave: one credit per success.
THEOREM CreditsCorrect == Spec => []CreditMatchesStatus
<1>1. CreditInv => CreditMatchesStatus
  BY DEF CreditInv
<1> QED
  BY CreditInit, CreditStep, <1>1, PTL DEF Spec

\* Nobody holds a seat without its payment, even after a cancellation, an
\* expiry and a late IPN.
THEOREM SeatsArePaid == Spec => []SeatIsPaid
<1>1. CreditInv => SeatIsPaid
  BY DEF CreditInv
<1> QED
  BY CreditInit, CreditStep, <1>1, PTL DEF Spec

-----------------------------------------------------------------------------
(* The counters of the event.                                              *)

\* A step that changes neither counter nor what they count.
LEMMA CountersStay ==
  ASSUME CountersAreExact, Seats' = Seats, Sales' = Sales,
         UNCHANGED <<registeredCount, soldCount, drift, oversold>>
  PROVE  CountersAreExact'
BY DEF CountersAreExact

LEMMA Counted ==
  ASSUME CreditInv
  PROVE  /\ IsFiniteSet(Seats) /\ Cardinality(Seats) \in Nat
         /\ IsFiniteSet(Sales) /\ Cardinality(Sales) \in Nat
         /\ Seats \subseteq Sales
         /\ registeredCount \in Int /\ drift \in Int
         /\ soldCount \in Nat /\ oversold \in Nat
<1>1. Seats \subseteq Payments /\ Sales \subseteq Payments
  BY DEF Seats, Sales
<1>2. Seats \subseteq Sales
  BY <1>1 DEF CreditInv, SeatIsPaid, Sales
<1> QED BY <1>1, <1>2, Counts DEF CreditInv, TypeOK

\* A payment still to be finalised has sold no ticket yet and has no seat.
LEMMA NewSeat ==
  ASSUME CreditInv, CountersAreExact, NEW r \in Requests, FinaliseSucceeded(r)
  PROVE  CountersAreExact'
<1> DEFINE p == req[r].pay
<1>1. p \in Payments
  BY TaskForms DEF FinaliseSucceeded, CreditInv, FinaliseTask
<1>2. p \notin Sales /\ p \notin Seats
  BY Counted DEF FinaliseSucceeded, Terminal, Final, Sales
<1>3. Seats' = Seats \cup {p} /\ Sales' = Sales \cup {p}
  BY <1>1 DEF FinaliseSucceeded, Seats, Sales, CreditInv, TypeOK
<1>4. /\ Cardinality(Seats') = Cardinality(Seats) + 1
      /\ Cardinality(Sales') = Cardinality(Sales) + 1
  BY <1>2, <1>3, Counted, FS_AddElement
<1> QED BY <1>4, Counted DEF FinaliseSucceeded, CountersAreExact

\* A cancellation gives a seat back and leaves the sale.
LEMMA LostSeat ==
  ASSUME CreditInv, CountersAreExact, NEW p \in Payments, Cancel(p)
  PROVE  CountersAreExact'
<1>1. Seats' = Seats \ {p} /\ Sales' = Sales
  BY DEF Cancel, Seats, Sales, CreditInv, TypeOK
<1>2. CASE reg[p] = "confirmed"
  <2>1. p \in Seats
    BY <1>2 DEF Seats
  <2>2. Cardinality(Seats') = Cardinality(Seats) - 1
    BY <1>1, <2>1, Counted, FS_RemoveElement
  <2> QED
    BY <1>1, <1>2, <2>2, Counted DEF Cancel, GivesSeatBack, CountersAreExact
<1>3. CASE reg[p] = "pending_payment"
  <2>1. Seats' = Seats
    BY <1>1, <1>3 DEF Seats
  <2> QED
    BY <1>1, <1>3, <2>1, Counted DEF Cancel, GivesSeatBack, CountersAreExact
<1> QED BY <1>2, <1>3 DEF Cancel

\* A full refund takes the sale back, and the seat if there still is one.
LEMMA RefundedSeat ==
  ASSUME CreditInv, CountersAreExact, NEW r \in Requests, RefundRecord(r)
  PROVE  CountersAreExact'
<1> DEFINE p == req[r].pay
<1>1. p \in Payments /\ p \in Sales
  BY TaskForms DEF RefundRecord, StillRefundable, CreditInv, RefundTask, Sales
<1>2. CASE ~IsFullRefund(r)
  BY <1>2, CountersStay DEF RefundRecord, Seats, Sales
<1>3. CASE IsFullRefund(r)
  <2>1. Seats' = Seats \ {p} /\ Sales' = Sales \ {p}
    BY <1>1, <1>3 DEF RefundRecord, Seats, Sales, CreditInv, TypeOK
  <2>2. Cardinality(Sales') = Cardinality(Sales) - 1 /\ Cardinality(Sales') \in Nat
    BY <1>1, <2>1, Counted, FS_RemoveElement, FS_CardinalityType
  <2>3. soldCount > 0 /\ soldCount' = soldCount - 1
    BY <1>3, <2>2, Counted DEF RefundRecord, CountersAreExact
  <2>4. soldCount' = Cardinality(Sales') + oversold'
    BY <1>3, <2>2, <2>3, Counted DEF RefundRecord, CountersAreExact
  <2>5. CASE p \in Seats
    <3>1. Cardinality(Seats') = Cardinality(Seats) - 1
      BY <2>1, <2>5, Counted, FS_RemoveElement
    <3> QED
      BY <1>3, <2>4, <2>5, <3>1, Counted DEF RefundRecord, CountersAreExact
  <2>6. CASE p \notin Seats
    <3>1. Seats' = Seats
      BY <2>1, <2>6
    <3> QED
      BY <1>3, <2>4, <2>6, <3>1, Counted DEF RefundRecord, CountersAreExact
  <2> QED BY <2>5, <2>6
<1> QED BY <1>2, <1>3

\* What the batch overwrites is what the counters go on counting.
LEMMA Overwritten ==
  ASSUME CreditInv, CountersAreExact, NEW r \in Requests, SweepCommit(r)
  PROVE  CountersAreExact'
<1> DEFINE batch == req[r].batch
<1>1. Seats' = Seats \ batch /\ Sales' = Sales \ batch
  BY DEF SweepCommit, Seats, Sales, CreditInv, TypeOK
<1>2. ASSUME NEW S \in SUBSET Payments
      PROVE  Cardinality(S) = Cardinality(S \ batch) + Cardinality(S \cap batch)
  <2>1. IsFiniteSet(S)
    BY Counts
  <2>2. Cardinality(S \ batch) = Cardinality(S) - Cardinality(S \cap batch)
    BY <2>1, FS_Difference
  <2> QED BY <2>2, Counts
<1>3. Seats \in SUBSET Payments /\ Sales \in SUBSET Payments
  BY DEF Seats, Sales
<1>4. /\ Cardinality(Seats) = Cardinality(Seats') + Cardinality(Seats \cap batch)
      /\ Cardinality(Sales) = Cardinality(Sales') + Cardinality(Sales \cap batch)
  BY <1>1, <1>2, <1>3
<1>5. /\ Cardinality(Seats') \in Nat /\ Cardinality(Sales') \in Nat
      /\ Cardinality(Seats \cap batch) \in Nat
      /\ Cardinality(Sales \cap batch) \in Nat
  <2>1. Seats \cap batch \in SUBSET Payments /\ Sales \cap batch \in SUBSET Payments
    BY <1>3
  <2>2. Seats' \in SUBSET Payments /\ Sales' \in SUBSET Payments
    BY <1>1, <1>3
  <2> QED BY <2>1, <2>2, Counts
<1> QED
  BY <1>4, <1>5, Counted DEF SweepCommit, CountersAreExact

\* An initiate, a failure and an expiry find no seat and no sale: a seat's
\* payment is succeeded, and its session was attached long before.
LEMMA SeatsKept ==
  ASSUME CreditInv, CountersAreExact,
         \/ \E r \in Requests, p \in Payments : InitiateClaim(r, p)
         \/ \E r \in Requests : \/ InitiateAttach(r) \/ InitiateAbandon(r)
                                \/ FinaliseFailed(r)
         \/ \E p \in Payments : \/ CancelPending(p) \/ CheckIn(p)
                                \/ PaymentTimeout(p)
  PROVE  CountersAreExact'
<1> DEFINE Kept == Seats' = Seats /\ Sales' = Sales
<1> USE DEF CreditInv, TypeOK, Seats, Sales
<1>0. \A p \in Seats : pay[p] = "succeeded"
  BY DEF SeatIsPaid
<1>1. ASSUME NEW r \in Requests, NEW p \in Payments, InitiateClaim(r, p)
      PROVE  Kept
  BY <1>0, <1>1 DEF InitiateClaim
<1>2. ASSUME NEW r \in Requests, InitiateAttach(r) \/ InitiateAbandon(r)
      PROVE  Kept
  <2>1. req[r].pay \notin attached
    BY <1>2 DEF InitiateAttach, InitiateAbandon, SessionInv
  <2>2. pay[req[r].pay] # "succeeded"
    BY <1>2, <2>1, TaskForms
       DEF InitiateAttach, InitiateAbandon, AttachedInv, Credited, SessionTask
  <2> QED BY <1>2, <2>2 DEF InitiateAttach, InitiateAbandon
<1>3. ASSUME NEW r \in Requests, FinaliseFailed(r) PROVE Kept
  BY <1>0, <1>3 DEF FinaliseFailed, Terminal, Final
<1>4. ASSUME NEW p \in Payments, CancelPending(p) \/ CheckIn(p) PROVE Kept
  BY <1>4 DEF CancelPending, CheckIn, IsAdmitted, Open
<1>5. ASSUME NEW p \in Payments, PaymentTimeout(p) PROVE Kept
  BY <1>0, <1>5 DEF PaymentTimeout, TimedOut, Open
<1>6. Kept
  BY <1>1, <1>2, <1>3, <1>4, <1>5
<1>7. UNCHANGED <<registeredCount, soldCount, drift, oversold>>
  BY DEF InitiateClaim, InitiateAttach, InitiateAbandon, FinaliseFailed,
     CancelPending, CheckIn, PaymentTimeout
<1> QED BY <1>6, <1>7, CountersStay

LEMMA CountersStep ==
  CreditInv /\ CountersAreExact /\ [Next]_vars => CountersAreExact'
<1> SUFFICES ASSUME CreditInv, CountersAreExact, [Next]_vars
             PROVE  CountersAreExact'
  OBVIOUS
<1>0. ASSUME UNCHANGED <<pay, reg, registeredCount, soldCount, drift, oversold>>
      PROVE  CountersAreExact'
  BY <1>0, CountersStay DEF Seats, Sales
<1>1. ASSUME NEW r \in Requests, Start(r) PROVE CountersAreExact'
  BY <1>0, <1>1
     DEF Start, InitiateRead, WebhookReceive, VerifyStart, ReconcileStart,
         RefundRead, SweepQuery, docs
<1>2. ASSUME NEW r \in Requests, Advance(r) PROVE CountersAreExact'
  <2>1. ASSUME \/ InitiateRefused(r) \/ SessionOpened(r) \/ SessionThrows(r)
               \/ ProviderPending(r) \/ ProviderAnswers(r)
               \/ FinaliseSkip(r) \/ FinaliseEmit(r)
        PROVE  CountersAreExact'
    BY <1>0, <2>1
       DEF InitiateRefused, SessionOpened, SessionThrows, ProviderPending,
           ProviderAnswers, FinaliseSkip, FinaliseEmit, docs
  <2>2. ASSUME \/ RefundBusy(r) \/ RefundLock(r) \/ RefundAccepted(r)
               \/ RefundRefused(r) \/ RefundThrows(r) \/ RefundUnlock(r)
               \/ RefundRejected(r)
        PROVE  CountersAreExact'
    BY <1>0, <2>2
       DEF RefundBusy, RefundLock, RefundAccepted, RefundRefused,
           RefundThrows, RefundUnlock, RefundRejected, docs
  <2> QED
    BY <1>2, <2>1, <2>2, NewSeat, SeatsKept, RefundedSeat, Overwritten DEF Advance
<1>3. ASSUME NEW r \in Requests, FinaliseAborted(r) \/ Crash(r)
      PROVE  CountersAreExact'
  BY <1>0, <1>3 DEF FinaliseAborted, Crash, docs
<1>4. ASSUME NEW p \in Payments, ProviderSettles(p) \/ LockExpires(p) \/ Ages(p)
      PROVE  CountersAreExact'
  BY <1>0, <1>4 DEF ProviderSettles, LockExpires, Ages, docs
<1>5. ASSUME NEW p \in Payments, Cancel(p) PROVE CountersAreExact'
  BY <1>5, LostSeat
<1>6. ASSUME UNCHANGED vars PROVE CountersAreExact'
  BY <1>0, <1>6 DEF vars, docs
<1> QED BY <1>1, <1>2, <1>3, <1>4, <1>5, <1>6, SeatsKept DEF Next

\* For any finite set of payments, on a store with or without the rule on
\* reads: registeredCount counts the seats and soldCount the sales, but for
\* what the job's batch overwrote and the seats a full refund counted down
\* again.  A ticket sold is counted once, since a payment that is finalised
\* was neither sold nor seated.
THEOREM CountersCorrect == Spec => []CountersAreExact
<1>1. Init => CountersAreExact
  <2> SUFFICES ASSUME Init PROVE CountersAreExact
    OBVIOUS
  <2>1. Seats = {} /\ Sales = {}
    BY DEF Init, Seats, Sales
  <2> QED BY <2>1, FS_EmptySet DEF Init, CountersAreExact
<1>2. CreditInv /\ CountersAreExact /\ [Next]_vars => CountersAreExact'
  BY CountersStep
<1> QED
  BY CreditInit, CreditStep, <1>1, <1>2, PTL DEF Spec

-----------------------------------------------------------------------------
(* Where the two comments that the code does not live up to would hold.    *)

\* Only the store's rule on reads, or a death of the process, loses a refund
\* the provider has carried out: on a store that takes a read after a write,
\* as the mocks of the unit tests do, every valid refund leaves its row
\* (payment.service.ts:2011-2129).
THEOREM RefundsCommitWithoutTheRule ==
  ASSUME ~ReadsBeforeWrites, ~CrashesHappen
  PROVE  Spec => RefundCommits
<1> DEFINE Recorded(r) ==
      At(r, "refund", "record") /\ StillRefundable(r) /\ req'[r] = Idle
        => debits'[req[r].pay] = debits[req[r].pay] + req[r].amount
<1>1. ASSUME TypeOK, [Next]_vars, NEW r \in Requests PROVE Recorded(r)
  <2> SUFFICES ASSUME At(r, "refund", "record"), StillRefundable(r),
                      req'[r] = Idle
               PROVE  debits'[req[r].pay] = debits[req[r].pay] + req[r].amount
    OBVIOUS
  <2>1. ASSUME NEW s \in Requests, s # r,
               Start(s) \/ Advance(s) \/ FinaliseAborted(s)
        PROVE  req'[r] = req[r]
    BY <1>1, <2>1
       DEF TypeOK, Start, Advance, FinaliseAborted, InitiateRead, WebhookReceive,
           VerifyStart, ReconcileStart, RefundRead, SweepQuery, InitiateRefused,
           InitiateClaim, SessionOpened, SessionThrows, InitiateAttach,
           InitiateAbandon, ProviderPending, ProviderAnswers, FinaliseSkip,
           FinaliseSucceeded, FinaliseFailed, FinaliseEmit, SweepCommit,
           RefundBusy, RefundLock, RefundAccepted, RefundRefused,
           RefundThrows, RefundUnlock, RefundRejected, RefundRecord
  <2>2. ASSUME NEW s \in Requests, Crash(s) PROVE FALSE
    BY <2>2 DEF Crash
  <2>3. ASSUME NEW p \in Payments,
               \/ ProviderSettles(p) \/ Cancel(p) \/ CancelPending(p)
               \/ CheckIn(p) \/ PaymentTimeout(p) \/ LockExpires(p) \/ Ages(p)
        PROVE  req'[r] = req[r]
    BY <2>3 DEF ProviderSettles, Cancel, CancelPending, CheckIn,
                PaymentTimeout, LockExpires, Ages
  <2>4. req'[r] # req[r]
    OBVIOUS
  <2>5. Start(r) \/ Advance(r) \/ FinaliseAborted(r)
    BY <1>1, <2>1, <2>2, <2>3, <2>4 DEF Next, vars, docs
  <2>6. RefundRecord(r)
    BY <2>5
       DEF Start, Advance, FinaliseAborted, InitiateRead, WebhookReceive,
           VerifyStart, ReconcileStart, RefundRead, SweepQuery, InitiateRefused,
           InitiateClaim, SessionOpened, SessionThrows, InitiateAttach,
           InitiateAbandon, ProviderPending, ProviderAnswers, FinaliseSkip,
           FinaliseSucceeded, FinaliseFailed, FinaliseEmit, SweepCommit,
           RefundBusy, RefundLock, RefundAccepted, RefundRefused,
           RefundThrows, RefundUnlock, RefundRejected
  <2>7. req[r].pay \in Payments
    BY <1>1, TaskForms DEF RefundTask
  <2> QED BY <1>1, <2>6, <2>7 DEF RefundRecord, TypeOK
<1> HIDE DEF Recorded
<1>2. TypeOK /\ [Next]_vars => [\A r \in Requests : Recorded(r)]_vars
  BY <1>1
<1> QED BY TypeCorrect, <1>2, PTL DEF Spec, RefundCommits, Recorded

\* The invocations that still have to announce a success they committed.
Due(p) ==
  {r \in Requests : /\ At(r, "finalise", "emit")
                    /\ req[r].newly /\ req[r].verdict = "paid"
                    /\ req[r].pay = p}

\* Until an invocation has committed its closure's flag is not set.
FlagInv ==
  \A r \in Requests :
    req[r].op = "finalise" /\ req[r].step # "emit" => ~req[r].newly

\* Every announcement made or due has a credit of its own.
DueInv ==
  \A p \in Payments :
    /\ IsFiniteSet(Due(p))
    /\ announced[p] + Cardinality(Due(p)) <= credits[p]

AnnounceInv == TypeOK /\ FlagInv /\ DueInv

\* An invocation moves to where it has nothing to announce.
LEMMA AnnounceFrame ==
  ASSUME AnnounceInv, NEW r \in Requests, NEW t,
         req' = [req EXCEPT ![r] = t],
         t.op = "finalise" => \/ ~t.newly
                              \/ t.step = "emit" /\ t.verdict # "paid",
         UNCHANGED <<announced, credits>>
  PROVE  FlagInv' /\ DueInv'
<1>1. FlagInv'
  BY DEF AnnounceInv, FlagInv, TypeOK
<1>2. ASSUME NEW p \in Payments
      PROVE  /\ IsFiniteSet(Due(p)')
             /\ announced'[p] + Cardinality(Due(p)') <= credits'[p]
  <2>1. Due(p)' \subseteq Due(p)
    BY DEF Due, AnnounceInv, TypeOK
  <2>2. IsFiniteSet(Due(p)) /\ announced[p] + Cardinality(Due(p)) <= credits[p]
    BY DEF AnnounceInv, DueInv
  <2>3. /\ IsFiniteSet(Due(p)')
        /\ Cardinality(Due(p)') <= Cardinality(Due(p))
        /\ Cardinality(Due(p)) \in Nat /\ Cardinality(Due(p)') \in Nat
    BY <2>1, <2>2, FS_Subset, FS_CardinalityType
  <2>4. announced[p] \in Nat /\ credits[p] \in Nat
    BY DEF AnnounceInv, TypeOK
  <2> QED BY <2>2, <2>3, <2>4
<1> QED BY <1>1, <1>2 DEF DueInv

LEMMA AnnounceFrameIdle ==
  ASSUME AnnounceInv, UNCHANGED <<req, announced, credits>>
  PROVE  FlagInv' /\ DueInv'
BY DEF AnnounceInv, FlagInv, DueInv, Due

LEMMA AnnounceStart ==
  ASSUME AnnounceInv, NEW r \in Requests, Start(r)
  PROVE  FlagInv' /\ DueInv'
<1>1. ASSUME NEW u \in Users, NEW k \in Keys, InitiateRead(r, u, k)
      PROVE  FlagInv' /\ DueInv'
  BY <1>1, AnnounceFrame DEF InitiateRead, docs
<1>2. ASSUME NEW p \in Payments, WebhookReceive(r, p)
      PROVE  FlagInv' /\ DueInv'
  BY <1>2, AnnounceFrame DEF WebhookReceive, docs
<1>3. ASSUME NEW p \in Payments, VerifyStart(r, p) \/ ReconcileStart(r, p)
      PROVE  FlagInv' /\ DueInv'
  BY <1>3, AnnounceFrame DEF VerifyStart, ReconcileStart, docs
<1>4. ASSUME NEW p \in Payments, NEW a \in 1..Amount, RefundRead(r, p, a)
      PROVE  FlagInv' /\ DueInv'
  BY <1>4, AnnounceFrame DEF RefundRead, docs
<1>5. ASSUME SweepQuery(r) PROVE FlagInv' /\ DueInv'
  BY <1>5, AnnounceFrame DEF SweepQuery, docs
<1> QED BY <1>1, <1>2, <1>3, <1>4, <1>5 DEF Start

\* A commit makes one announcement due and writes the credit it is owed to.
LEMMA AnnounceCommit ==
  ASSUME AnnounceInv, NEW r \in Requests, FinaliseSucceeded(r)
  PROVE  FlagInv' /\ DueInv'
<1> DEFINE q == req[r].pay
<1>0. q \in Payments
  BY TaskForms DEF FinaliseSucceeded, AnnounceInv, FinaliseTask
<1>1. FlagInv'
  BY DEF FinaliseSucceeded, AnnounceInv, FlagInv, TypeOK
<1>2. ASSUME NEW p \in Payments
      PROVE  /\ IsFiniteSet(Due(p)')
             /\ announced'[p] + Cardinality(Due(p)') <= credits'[p]
  <2>1. /\ IsFiniteSet(Due(p)) /\ Cardinality(Due(p)) \in Nat
        /\ announced[p] + Cardinality(Due(p)) <= credits[p]
    BY FS_CardinalityType DEF AnnounceInv, DueInv
  <2>2. announced[p] \in Nat /\ credits[p] \in Nat /\ announced' = announced
    BY DEF AnnounceInv, TypeOK, FinaliseSucceeded
  <2>3. r \notin Due(p)
    BY DEF Due, FinaliseSucceeded
  <2>4. CASE p = q
    <3>1. Due(p)' = Due(p) \cup {r}
      BY <2>4 DEF Due, FinaliseSucceeded, AnnounceInv, TypeOK
    <3>2. IsFiniteSet(Due(p)') /\ Cardinality(Due(p)') = Cardinality(Due(p)) + 1
      BY <2>1, <2>3, <3>1, FS_AddElement
    <3>3. credits'[p] = credits[p] + 1
      BY <2>4 DEF FinaliseSucceeded, AnnounceInv, TypeOK
    <3> QED BY <2>1, <2>2, <3>2, <3>3
  <2>5. CASE p # q
    <3>1. Due(p)' = Due(p)
      BY <2>3, <2>5 DEF Due, FinaliseSucceeded, AnnounceInv, TypeOK
    <3>2. credits'[p] = credits[p]
      BY <2>5 DEF FinaliseSucceeded, AnnounceInv, TypeOK
    <3> QED BY <2>1, <2>2, <3>1, <3>2
  <2> QED BY <2>4, <2>5
<1> QED BY <1>1, <1>2 DEF DueInv

\* What is announced was due and is not due any more.
LEMMA AnnounceEmit ==
  ASSUME AnnounceInv, NEW r \in Requests, FinaliseEmit(r)
  PROVE  FlagInv' /\ DueInv'
<1> DEFINE q == req[r].pay
<1>0. q \in Payments
  BY TaskForms DEF FinaliseEmit, AnnounceInv, FinaliseTask
<1>1. CASE ~(req[r].newly /\ req[r].verdict = "paid")
  BY <1>1, AnnounceFrame DEF FinaliseEmit, docs
<1>2. CASE req[r].newly /\ req[r].verdict = "paid"
  <2>1. FlagInv'
    BY DEF FinaliseEmit, AnnounceInv, FlagInv, TypeOK
  <2>2. ASSUME NEW p \in Payments
        PROVE  /\ IsFiniteSet(Due(p)')
               /\ announced'[p] + Cardinality(Due(p)') <= credits'[p]
    <3>1. /\ IsFiniteSet(Due(p)) /\ Cardinality(Due(p)) \in Nat
          /\ announced[p] + Cardinality(Due(p)) <= credits[p]
      BY FS_CardinalityType DEF AnnounceInv, DueInv
    <3>2. announced[p] \in Nat /\ credits[p] \in Nat /\ credits' = credits
      BY DEF AnnounceInv, TypeOK, FinaliseEmit, docs
    <3>3. CASE p = q
      <4>1. r \in Due(p) /\ Due(p)' = Due(p) \ {r}
        BY <1>2, <3>3 DEF Due, FinaliseEmit, AnnounceInv, TypeOK
      <4>2. /\ IsFiniteSet(Due(p)')
            /\ Cardinality(Due(p)') = Cardinality(Due(p)) - 1
        BY <3>1, <4>1, FS_RemoveElement
      <4>3. announced'[p] = announced[p] + 1
        BY <1>2, <3>3 DEF FinaliseEmit, AnnounceInv, TypeOK
      <4> QED BY <3>1, <3>2, <4>2, <4>3
    <3>4. CASE p # q
      <4>1. Due(p)' = Due(p)
        BY <3>4 DEF Due, FinaliseEmit, AnnounceInv, TypeOK
      <4>2. announced'[p] = announced[p]
        BY <1>2, <3>4 DEF FinaliseEmit, AnnounceInv, TypeOK
      <4> QED BY <3>1, <3>2, <4>1, <4>2
    <3> QED BY <3>3, <3>4
  <2> QED BY <2>1, <2>2 DEF DueInv
<1> QED BY <1>1, <1>2

LEMMA AnnounceAdvance ==
  ASSUME AnnounceInv, NEW r \in Requests, Advance(r)
  PROVE  FlagInv' /\ DueInv'
<1> DEFINE Goal == FlagInv' /\ DueInv'
<1>1. ASSUME InitiateRefused(r) \/ SessionOpened(r) \/ SessionThrows(r) PROVE Goal
  BY <1>1, AnnounceFrame DEF InitiateRefused, SessionOpened, SessionThrows, docs
<1>2. ASSUME NEW p \in Payments, InitiateClaim(r, p) PROVE Goal
  BY <1>2, AnnounceFrame DEF InitiateClaim
<1>3. ASSUME InitiateAttach(r) \/ InitiateAbandon(r) \/ SweepCommit(r) PROVE Goal
  BY <1>3, AnnounceFrame DEF InitiateAttach, InitiateAbandon, SweepCommit
<1>4. ASSUME ProviderPending(r) \/ ProviderAnswers(r) PROVE Goal
  BY <1>4, AnnounceFrame DEF ProviderPending, ProviderAnswers, docs
<1>5. ASSUME FinaliseSkip(r) PROVE Goal
  <2>1. ~req[r].newly
    BY <1>5 DEF FinaliseSkip, AnnounceInv, FlagInv
  <2> QED BY <1>5, <2>1, AnnounceFrame DEF FinaliseSkip, docs
<1>6. ASSUME FinaliseFailed(r) PROVE Goal
  BY <1>6, AnnounceFrame DEF FinaliseFailed
<1>7. ASSUME RefundBusy(r) \/ RefundAccepted(r) \/ RefundRefused(r)
             \/ RefundThrows(r) \/ RefundRejected(r)
      PROVE  Goal
  BY <1>7, AnnounceFrame DEF RefundBusy, RefundAccepted, RefundRefused,
                             RefundThrows, RefundRejected, docs
<1>8. ASSUME RefundLock(r) \/ RefundUnlock(r) \/ RefundRecord(r) PROVE Goal
  BY <1>8, AnnounceFrame DEF RefundLock, RefundUnlock, RefundRecord
<1> QED
  BY <1>1, <1>2, <1>3, <1>4, <1>5, <1>6, <1>7, <1>8, AnnounceCommit,
     AnnounceEmit DEF Advance

LEMMA AnnounceRest ==
  ASSUME AnnounceInv,
         \/ \E r \in Requests : Crash(r)
         \/ \E p \in Payments : \/ ProviderSettles(p) \/ Cancel(p)
                                \/ CancelPending(p) \/ CheckIn(p)
                                \/ PaymentTimeout(p) \/ LockExpires(p)
                                \/ Ages(p)
  PROVE  FlagInv' /\ DueInv'
<1>1. ASSUME NEW r \in Requests, Crash(r) PROVE FlagInv' /\ DueInv'
  BY <1>1, AnnounceFrame DEF Crash, docs
<1>2. ASSUME NEW p \in Payments,
             \/ ProviderSettles(p) \/ Cancel(p) \/ CancelPending(p)
             \/ CheckIn(p) \/ PaymentTimeout(p) \/ LockExpires(p) \/ Ages(p)
      PROVE  FlagInv' /\ DueInv'
  BY <1>2, AnnounceFrameIdle
     DEF ProviderSettles, Cancel, CancelPending, CheckIn, PaymentTimeout,
         LockExpires, Ages, docs
<1> QED BY <1>1, <1>2

\* An aborted attempt is all that can announce a success too many: in a
\* behaviour without one, payment.succeeded is emitted at most once for each
\* time a transaction flipped the status (payment.service.ts:748-749).
THEOREM AnnouncedOnceWithoutRetries ==
  Spec /\ [][\A r \in Requests : ~FinaliseAborted(r)]_vars
    => []AnnouncedOnlyOnTransition
<1> DEFINE Step == [Next]_vars /\ [\A r \in Requests : ~FinaliseAborted(r)]_vars
<1>1. Init => AnnounceInv
  <2> SUFFICES ASSUME Init PROVE FlagInv /\ DueInv
    BY TypeInit DEF AnnounceInv
  <2>1. \A p \in Payments : Due(p) = {}
    BY DEF Init, Due
  <2> QED BY <2>1, FS_EmptySet DEF Init, FlagInv, DueInv
<1>2. AnnounceInv /\ Step => AnnounceInv'
  <2> SUFFICES ASSUME AnnounceInv, Step PROVE AnnounceInv'
    OBVIOUS
  <2>1. TypeOK'
    BY TypeStart, TypeAdvance, TypeRest, TypeStutter DEF Next, AnnounceInv
  <2>2. CASE UNCHANGED vars
    BY <2>1, <2>2, AnnounceFrameIdle DEF AnnounceInv, vars, docs
  <2>3. CASE Next /\ \A r \in Requests : ~FinaliseAborted(r)
    BY <2>1, <2>3, AnnounceStart, AnnounceAdvance, AnnounceRest
       DEF AnnounceInv, Next
  <2> QED BY <2>2, <2>3
<1>3. AnnounceInv => AnnouncedOnlyOnTransition
  <2> SUFFICES ASSUME AnnounceInv, NEW p \in Payments
               PROVE  announced[p] <= credits[p]
    BY DEF AnnouncedOnlyOnTransition
  <2>1. Cardinality(Due(p)) \in Nat
    BY FS_CardinalityType DEF AnnounceInv, DueInv
  <2>2. announced[p] \in Nat /\ credits[p] \in Nat
    BY DEF AnnounceInv, TypeOK
  <2> QED BY <2>1, <2>2 DEF AnnounceInv, DueInv
<1> HIDE DEF AnnounceInv
<1> QED BY <1>1, <1>2, <1>3, PTL DEF Spec

-----------------------------------------------------------------------------
(* The account of Account, as far as payments feed it.                     *)

\* The success a payment has now is the last of its credits.
LEMMA CurrentCredit ==
  ASSUME CreditInv, NEW p \in Payments, NEW now, now = <<p, clobbered[p] + 1>>
  PROVE  /\ pay[p] \in Credited => now \in CreditsMade
         /\ pay[p] \notin Credited =>
              /\ now \notin CreditsMade
              /\ credits[p] = clobbered[p]
<1>1. /\ credits[p] \in Nat /\ clobbered[p] \in Nat
      /\ credits[p] = clobbered[p] + (IF pay[p] \in Credited THEN 1 ELSE 0)
  BY DEF CreditInv, TypeOK, CreditMatchesStatus
<1>2. clobbered[p] + 1 \in 1..credits[p] <=> pay[p] \in Credited
  BY <1>1
<1>3. now \in CreditsMade <=> clobbered[p] + 1 \in 1..credits[p]
  BY DEF CreditsMade
<1> QED BY <1>1, <1>2, <1>3

\* A refund is recorded on a payment that has a success and has enough left.
LEMMA RefundIsCovered ==
  ASSUME CreditInv, RefundInv, NEW r \in Requests, RefundRecord(r)
  PROVE  Acc!Next
<1> DEFINE q == req[r].pay
           a == req[r].amount
<1>1. q \in Payments /\ a \in 1..Amount
  BY TaskForms DEF RefundRecord, CreditInv, RefundTask
<1>2. pay[q] \in Credited
  BY <1>1 DEF RefundRecord, StillRefundable, Credited
<1>3. debits[q] + a <= Amount
  BY <1>1, AmountAssumption
     DEF RefundRecord, StillRefundable, RefundInv, RefundsAreBacked, TypeOK
<1>4. /\ debits' = [debits EXCEPT ![q] = @ + a]
      /\ credits' = credits /\ clobbered' = clobbered
  BY DEF RefundRecord
<1>5. UNCHANGED [c \in CreditsMade |-> NoPayment]
  BY <1>4 DEF CreditsMade
<1>6. Acc!Current(q) \in Acc!Credits
  BY <1>1, <1>2, CurrentCredit DEF Acc!Current, Acc!Credits
<1>7. Acc!Refund(q, a)
  BY <1>3, <1>4, <1>5, <1>6 DEF Acc!Refund
<1> QED BY <1>1, <1>7 DEF Acc!Next

\* A payment that is finalised has no success, or one that was overwritten.
LEMMA FinaliseSettles ==
  ASSUME CreditInv, NEW r \in Requests, FinaliseSucceeded(r)
  PROVE  Acc!Next
<1>1. PICK q \in Payments : q = req[r].pay
  BY TaskForms DEF FinaliseSucceeded, CreditInv, FinaliseTask
<1>2. pay[q] \notin Credited
  BY <1>1 DEF FinaliseSucceeded, Terminal, Final, Credited
<1>3. PICK new : new = <<q, clobbered[q] + 1>>
  OBVIOUS
<1>4. new \notin CreditsMade /\ credits[q] = clobbered[q]
  BY <1>2, <1>3, CurrentCredit
<1>5. /\ credits' = [credits EXCEPT ![q] = @ + 1]
      /\ UNCHANGED <<debits, clobbered>>
  BY <1>1 DEF FinaliseSucceeded, history
<1>6. CreditsMade' = CreditsMade \cup {new}
  <2>1. credits[q] \in Nat /\ credits'[q] = credits[q] + 1
    BY <1>5 DEF CreditInv, TypeOK
  <2>2. 1..(credits[q] + 1) = (1..credits[q]) \cup {credits[q] + 1}
    BY <2>1
  <2>3. {q} \X (1..credits'[q]) = ({q} \X (1..credits[q])) \cup {new}
    BY <1>3, <1>4, <2>1, <2>2
  <2>4. \A p \in Payments : p # q => credits'[p] = credits[p]
    BY <1>5 DEF CreditInv, TypeOK
  <2>5. \A c : c \in CreditsMade' <=>
                 \E p \in Payments : c \in {p} \X (1..credits'[p])
    BY DEF CreditsMade
  <2>6. \A c : c \in CreditsMade <=>
                 \E p \in Payments : c \in {p} \X (1..credits[p])
    BY DEF CreditsMade
  <2>7. ASSUME NEW c
        PROVE  c \in CreditsMade' <=> c \in CreditsMade \cup {new}
    BY <2>3, <2>4, <2>5, <2>6
  <2> QED BY <2>7
<1>7. [c \in CreditsMade' |-> NoPayment]
        = [c \in CreditsMade \cup {new} |-> IF c = new THEN NoPayment
             ELSE [x \in CreditsMade |-> NoPayment][c]]
  BY <1>4, <1>6
<1>8. Acc!Current(q) = new /\ Acc!Credits = CreditsMade
  BY <1>3 DEF Acc!Current, Acc!Credits
<1>9. Acc!Settle(q)
  BY <1>4, <1>5, <1>7, <1>8 DEF Acc!Settle
<1> QED BY <1>9 DEF Acc!Next

\* The batch forgets the successes it overwrites, and no row.
LEMMA SweepForgets ==
  ASSUME CreditInv, NEW r \in Requests, SweepCommit(r)
  PROVE  Acc!Next
<1> DEFINE S == {p \in Payments : p \in req[r].batch /\ pay[p] \in Credited}
<1>1. /\ UNCHANGED <<credits, debits>>
      /\ clobbered' = [p \in Payments |-> IF p \in S THEN clobbered[p] + 1
                                          ELSE clobbered[p]]
  BY DEF SweepCommit
<1>2. UNCHANGED [c \in CreditsMade |-> NoPayment]
  BY <1>1 DEF CreditsMade
<1>3. \A p \in S : Acc!Current(p) \in Acc!Credits
  BY CurrentCredit DEF Acc!Current, Acc!Credits
<1>4. PICK T \in SUBSET Payments : T = S
  OBVIOUS
<1> HIDE DEF S
<1>5. Acc!Forget(T)
  BY <1>1, <1>2, <1>3, <1>4 DEF Acc!Forget
<1> QED BY <1>5 DEF Acc!Next

LEMMA FeedStep ==
  CreditInv /\ RefundInv /\ [Next]_vars => [Acc!Next]_Acc!account
<1> SUFFICES ASSUME CreditInv, RefundInv, [Next]_vars
             PROVE  [Acc!Next]_Acc!account
  OBVIOUS
<1>1. ASSUME UNCHANGED <<credits, debits, clobbered>> PROVE UNCHANGED Acc!account
  BY <1>1 DEF Acc!account, CreditsMade
<1>2. ASSUME NEW r \in Requests, FinaliseSucceeded(r) \/ SweepCommit(r)
      PROVE  Acc!Next
  BY <1>2, FinaliseSettles, SweepForgets
<1>3. ASSUME NEW r \in Requests, RefundRecord(r) PROVE Acc!Next
  BY <1>3, RefundIsCovered
<1>4. ASSUME NEW r \in Requests, Start(r) PROVE UNCHANGED <<credits, debits, clobbered>>
  BY <1>4 DEF Start, InitiateRead, WebhookReceive, VerifyStart, ReconcileStart,
              RefundRead, SweepQuery, docs
<1>5. ASSUME NEW r \in Requests, Advance(r),
             ~FinaliseSucceeded(r), ~SweepCommit(r), ~RefundRecord(r)
      PROVE  UNCHANGED <<credits, debits, clobbered>>
  BY <1>5 DEF Advance, InitiateRefused, InitiateClaim, SessionOpened,
              SessionThrows, InitiateAttach, InitiateAbandon, ProviderPending,
              ProviderAnswers, FinaliseSkip, FinaliseFailed, FinaliseEmit,
              RefundBusy, RefundLock, RefundAccepted,
              RefundRefused, RefundThrows, RefundUnlock, RefundRejected, docs
<1>6. ASSUME \/ \E r \in Requests : FinaliseAborted(r) \/ Crash(r)
             \/ \E p \in Payments : \/ ProviderSettles(p) \/ Cancel(p)
                                    \/ CancelPending(p) \/ CheckIn(p)
                                    \/ PaymentTimeout(p) \/ LockExpires(p)
                                    \/ Ages(p)
             \/ UNCHANGED vars
      PROVE  UNCHANGED <<credits, debits, clobbered>>
  BY <1>6 DEF FinaliseAborted, Crash, ProviderSettles, Cancel, CancelPending,
              CheckIn, PaymentTimeout, LockExpires, Ages, vars, docs
<1> QED BY <1>1, <1>2, <1>3, <1>4, <1>5, <1>6 DEF Next

\* The payment service is what the account behind the payouts takes it for: each
\* of its steps settles a payment that has no success, forgets successes, refunds
\* a success within its price, or does not touch the account.
THEOREM ServiceFeedsTheAccount == Spec => FeedsTheAccount
<1>1. Init => Acc!Init
  <2>1. Init => CreditsMade = {}
    BY DEF Init, CreditsMade
  <2>2. CreditsMade = {} => [c \in CreditsMade |-> NoPayment] = [c \in {} |-> NoPayment]
    OBVIOUS
  <2> QED BY <2>1, <2>2 DEF Init, Acc!Init
<1>2. CreditInv /\ RefundInv /\ [Next]_vars => CreditInv' /\ RefundInv'
  BY CreditStep, RefundStep
<1>3. Init => CreditInv /\ RefundInv
  BY CreditInit, RefundInit
<1> QED BY <1>1, <1>2, <1>3, FeedStep, PTL DEF Spec, FeedsTheAccount, Acc!Spec

-----------------------------------------------------------------------------
(* Without a stale batch.                                                  *)

\* The batch of the expire-stale-payments job is the only thing that spoils the
\* books: in a behaviour in which it finds the payments as its query saw them,
\* every payment is credited exactly while its status says so, and soldCount is
\* the number of payments that are succeeded (expire-stale-payments.ts:120-150).
THEOREM ExactWithoutStaleBatches ==
  Spec /\ [][\A r \in Requests :
               SweepCommit(r) => \A p \in req[r].batch : pay[p] \in Open]_vars
    => [](/\ \A p \in Payments :
               credits[p] = IF pay[p] \in Credited THEN 1 ELSE 0
          /\ soldCount = Cardinality(Sales))
<1> DEFINE Fresh ==
      \A r \in Requests :
        SweepCommit(r) => \A p \in req[r].batch : pay[p] \in Open
    Untouched == oversold = 0 /\ \A p \in Payments : clobbered[p] = 0
    Exact == /\ \A p \in Payments :
                  credits[p] = IF pay[p] \in Credited THEN 1 ELSE 0
             /\ soldCount = Cardinality(Sales)
<1>1. Init => Untouched
  BY DEF Init
<1>2. ASSUME TypeOK, Untouched, [Next]_vars, [Fresh]_vars PROVE Untouched'
  <2>1. ASSUME NEW r \in Requests, SweepCommit(r) PROVE Untouched'
    <3>1. CASE UNCHANGED vars
      BY <1>2, <3>1 DEF vars
    <3>2. CASE Fresh
      <4>1. \A p \in req[r].batch : pay[p] \in Open
        BY <2>1, <3>2
      <4>2. Sales \cap req[r].batch = {}
        BY <4>1 DEF Sales, Open
      <4>3. oversold' = 0
        <5>1. oversold' = oversold + Cardinality(Sales \cap req[r].batch)
          BY <2>1 DEF SweepCommit
        <5>2. Cardinality(Sales \cap req[r].batch) = 0
          BY <4>2, FS_EmptySet
        <5> QED BY <1>2, <5>1, <5>2
      <4>4. \A p \in Payments : clobbered'[p] = 0
        BY <1>2, <2>1, <4>1 DEF SweepCommit, Open, Credited
      <4> QED BY <4>3, <4>4
    <3> QED BY <1>2, <3>1, <3>2
  <2>2. ASSUME UNCHANGED <<clobbered, oversold>> PROVE Untouched'
    BY <1>2, <2>2
  <2>3. ASSUME NEW r \in Requests, Start(r) PROVE UNCHANGED <<clobbered, oversold>>
    BY <2>3 DEF Start, InitiateRead, WebhookReceive, VerifyStart,
                ReconcileStart, RefundRead, SweepQuery
  <2>4. ASSUME NEW r \in Requests, Advance(r), ~SweepCommit(r)
        PROVE  UNCHANGED <<clobbered, oversold>>
    BY <2>4 DEF Advance, InitiateRefused, InitiateClaim, SessionOpened,
                SessionThrows, InitiateAttach, InitiateAbandon,
                ProviderPending, ProviderAnswers, FinaliseSkip,
                FinaliseSucceeded, FinaliseFailed, FinaliseEmit, RefundBusy,
                RefundLock, RefundAccepted, RefundRefused, RefundThrows,
                RefundUnlock, RefundRejected, RefundRecord
  <2>5. ASSUME \/ \E r \in Requests : FinaliseAborted(r) \/ Crash(r)
               \/ \E p \in Payments : \/ ProviderSettles(p) \/ Cancel(p)
                                      \/ CancelPending(p) \/ CheckIn(p)
                                      \/ PaymentTimeout(p) \/ LockExpires(p)
                                      \/ Ages(p)
               \/ UNCHANGED vars
        PROVE  UNCHANGED <<clobbered, oversold>>
    BY <2>5 DEF FinaliseAborted, Crash, ProviderSettles, Cancel, CancelPending,
                CheckIn, PaymentTimeout, LockExpires, Ages, vars
  <2> QED BY <1>2, <2>1, <2>2, <2>3, <2>4, <2>5 DEF Next
<1>3. TypeOK /\ Untouched /\ CreditMatchesStatus /\ CountersAreExact => Exact
  <2> SUFFICES ASSUME TypeOK, Untouched, CreditMatchesStatus, CountersAreExact
               PROVE  Exact
    OBVIOUS
  <2>1. Cardinality(Sales) \in Nat
    BY Counts DEF Sales
  <2> QED BY <2>1 DEF CreditMatchesStatus, CountersAreExact, TypeOK
<1> HIDE DEF Untouched
<1> QED
  BY TypeCorrect, CreditsCorrect, CountersCorrect, <1>1, <1>2, <1>3, PTL
  DEF Spec
=============================================================================
