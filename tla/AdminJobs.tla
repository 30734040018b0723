------------------------------- MODULE AdminJobs -------------------------------
(***************************************************************************)
(* The runs of one administration job: POST /admin/jobs/{jobKey}/run.      *)
(*                                                                         *)
(* runJob() takes the lock adminJobLocks/{jobKey} in a transaction, writes *)
(* the run's row, races the handler against a timer and, whatever          *)
(* happened, writes the outcome and deletes the lock.  Every await is a    *)
(* step of its own: other runs come between, the process may die there, a  *)
(* write may fail.  Locks of different jobs are different documents.       *)
(*                                                                         *)
(* Time is counted down: a timestamp t is kept as the time from now to t,  *)
(* no lower than 0, which is all the code compares.                        *)
(***************************************************************************)
EXTENDS Integers, FiniteSets

CONSTANTS
  Runs,   \* the invocations of runJob, one runId each
  MaxRun, \* MAX_RUN_MS
  NoRun   \* no lock document

ASSUME RunAssumption == IsFiniteSet(Runs) /\ NoRun \notin Runs
ASSUME TimeAssumption == MaxRun \in Nat \ {0}

VARIABLES
  lock,     \* the lock document: the run it names, the time to expiresAt
  row,      \* status of each run's row
  pc,       \* where each invocation is
  lease,    \* its lockExpiresAt
  timer,    \* the time until its setTimeout fires; Off when it fired, was
            \* cleared or is not set
  working,  \* the runs whose handler's promise is not settled
  overran   \* history: the runs that were inside when their lease ended

vars == <<lock, row, pc, lease, timer, working, overran>>

-----------------------------------------------------------------------------
\* Mutant: the schema of a row does not know that a run fails.
RowStatusWithoutFailed == {"none", "queued", "running", "succeeded"}

RowStatus == {"none", "queued", "running", "succeeded", "failed"}

\* The places between the acquisition of the lock and its deletion.
Holding ==
  {"locked", "created", "started", "racing", "succeeding", "failing",
   "releasing"}
Place == {"new", "asking", "refused", "done", "dead"} \cup Holding

Off == -1
NoLock == [run |-> NoRun, left |-> 0]

\* A run that believes the job is its own, or whose handler is still at it.
Inside(r) == pc[r] \in Holding \/ r \in working

TypeOK ==
  /\ lock \in [run : Runs \cup {NoRun}, left : 0..MaxRun]
  /\ row \in [Runs -> RowStatus]
  /\ pc \in [Runs -> Place]
  /\ lease \in [Runs -> 0..MaxRun]
  /\ timer \in [Runs -> Off..MaxRun]
  /\ working \subseteq Runs
  /\ overran \subseteq Runs

Init ==
  /\ lock = NoLock
  /\ row = [r \in Runs |-> "none"]
  /\ pc = [r \in Runs |-> "new"]
  /\ lease = [r \in Runs |-> 0]
  /\ timer = [r \in Runs |-> Off]
  /\ working = {}
  /\ overran = {}

GoTo(r, place) == pc' = [pc EXCEPT ![r] = place]

\* The finally block clears the timer and will write the outcome.
Finally(r, place) ==
  /\ GoTo(r, place)
  /\ timer' = [timer EXCEPT ![r] = Off]

-----------------------------------------------------------------------------
\* Authorised, within the rate limit, of a known job and with valid input:
\* other requests change nothing.
Trigger(r) ==
  /\ pc[r] = "new"
  /\ GoTo(r, "asking")
  /\ lease' = [lease EXCEPT ![r] = MaxRun]
  /\ UNCHANGED <<lock, row, timer, working, overran>>

\* Mutant: a lock is taken for stale while it has time left.
LockIsFreeEarly == lock.run = NoRun \/ lock.left <= 1

LockIsFree == lock.run = NoRun \/ lock.left = 0

\* ConflictError, or the transaction fails.
Refuse(r) ==
  /\ pc[r] = "asking"
  /\ GoTo(r, "refused")
  /\ UNCHANGED <<lock, row, lease, timer, working, overran>>

\* The expiry is the one computed before the transaction, the timer starts
\* after it.
Acquire(r) ==
  /\ pc[r] = "asking"
  /\ LockIsFree
  /\ lock' = [run |-> r, left |-> lease[r]]
  /\ GoTo(r, "locked")
  /\ timer' = [timer EXCEPT ![r] = MaxRun]
  /\ overran' = overran \cup {s \in {r} : lease[s] = 0}
  /\ UNCHANGED <<row, lease, working>>

CreateRow(r) ==
  /\ pc[r] = "locked"
  /\ row' = [row EXCEPT ![r] = "queued"]
  /\ GoTo(r, "created")
  /\ UNCHANGED <<lock, lease, timer, working, overran>>

MarkRunning(r) ==
  /\ pc[r] = "created"
  /\ row' = [row EXCEPT ![r] = "running"]
  /\ GoTo(r, "started")
  /\ UNCHANGED <<lock, lease, timer, working, overran>>

\* The audit row is written; the handler is called and raced with the signal.
StartHandler(r) ==
  /\ pc[r] = "started"
  /\ working' = working \cup {r}
  /\ GoTo(r, "racing")
  /\ UNCHANGED <<lock, row, lease, timer, overran>>

\* A write before the handler throws.
WriteFails(r) ==
  /\ pc[r] \in {"locked", "created", "started"}
  /\ Finally(r, "failing")
  /\ UNCHANGED <<lock, row, lease, working, overran>>

-----------------------------------------------------------------------------
\* The handler returns or throws; once the timer won the race nobody listens.
HandlerSettles(r) ==
  /\ r \in working
  /\ working' = working \ {r}
  /\ IF pc[r] = "racing"
       THEN \E place \in {"succeeding", "failing"} : Finally(r, place)
       ELSE UNCHANGED <<pc, timer>>
  /\ UNCHANGED <<lock, row, lease, overran>>

\* Mutant: the handler is awaited alone.
ListensToAbortNever(r) == FALSE

\* The listener is added when the race begins: a signal that was aborted
\* before never reaches it.
ListensToAbort(r) == pc[r] = "racing"

TimerFires(r) ==
  /\ timer[r] = 0
  /\ timer' = [timer EXCEPT ![r] = Off]
  /\ IF ListensToAbort(r) THEN GoTo(r, "failing") ELSE UNCHANGED pc
  /\ UNCHANGED <<lock, row, lease, working, overran>>

-----------------------------------------------------------------------------
\* update() refuses a row that was never created; the error is swallowed.
WriteOutcome(r, place, status) ==
  /\ pc[r] = place
  /\ row[r] # "none"
  /\ row' = [row EXCEPT ![r] = status]
  /\ GoTo(r, "releasing")
  /\ UNCHANGED <<lock, lease, timer, working, overran>>

OutcomeIsLost(r) ==
  /\ pc[r] \in {"succeeding", "failing"}
  /\ GoTo(r, "releasing")
  /\ UNCHANGED <<lock, row, lease, timer, working, overran>>

\* The delete does not look whose lock it deletes.
Release(r) ==
  /\ pc[r] = "releasing"
  /\ lock' = NoLock
  /\ GoTo(r, "done")
  /\ UNCHANGED <<row, lease, timer, working, overran>>

ReleaseFails(r) ==
  /\ pc[r] = "releasing"
  /\ GoTo(r, "done")
  /\ UNCHANGED <<lock, row, lease, timer, working, overran>>

\* The instance dies, and the handler with it.
Die(r) ==
  /\ Inside(r)
  /\ Finally(r, "dead")
  /\ working' = working \ {r}
  /\ UNCHANGED <<lock, row, lease, overran>>

Down(n) == IF n > 0 THEN n - 1 ELSE n

Tick ==
  /\ lock' = [run |-> lock.run, left |-> Down(lock.left)]
  /\ lease' = [r \in Runs |-> Down(lease[r])]
  /\ timer' = [r \in Runs |-> Down(timer[r])]
  /\ overran' = overran \cup {r \in Runs : Inside(r) /\ Down(lease[r]) = 0}
  /\ UNCHANGED <<row, pc, working>>

-----------------------------------------------------------------------------
Proceed(r) ==
  \/ CreateRow(r) \/ MarkRunning(r) \/ StartHandler(r) \/ WriteFails(r)
  \/ TimerFires(r)
  \/ WriteOutcome(r, "succeeding", "succeeded")
  \/ WriteOutcome(r, "failing", "failed")
  \/ OutcomeIsLost(r)
  \/ Release(r) \/ ReleaseFails(r)

Next ==
  \/ \E r \in Runs :
       \/ Trigger(r) \/ Refuse(r) \/ Acquire(r)
       \/ Proceed(r)
       \/ HandlerSettles(r)
       \/ Die(r)
  \/ Tick

\* The event loop goes on with what is ready and time passes; nothing makes a
\* handler settle.
Fairness == WF_vars(Tick) /\ \A r \in Runs : WF_vars(Proceed(r))

Spec == Init /\ [][Next]_vars /\ Fairness

-----------------------------------------------------------------------------
\* The runs that are inside within their lease.
InTime == {r \in Runs : Inside(r) /\ r \notin overran}

\* The lock bounds the overlap although any run may delete any other run's
\* lock: each run that ever outlived its lease lets in at most one more, and
\* as long as none did the job is run by one at a time
\* (admin-jobs.service.ts:149-172, 321).
BoundedOverlap == Cardinality(InTime) <= Cardinality(overran) + 1

\* A handler that never settles does not keep its run, and the request that
\* waits for it, open: the timer ends it.  A signal aborted before the race
\* began is not heard (admin-jobs.service.ts:244-252).
RunsEnd ==
  \A r \in Runs :
    (pc[r] = "racing" /\ timer[r] # Off) ~> pc[r] \in {"done", "dead"}
=============================================================================
