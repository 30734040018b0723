# Teranga EventApp: TLA+ models of the API's core

Teranga is a platform for events: participants register for free or paid
tickets, organisers collect money, staff check badges in at the door. This
directory models the parts of it where several requests, provider callbacks and
scheduled jobs change the same Firestore documents, checks the models with TLC
on small instances and proves the central invariants with TLAPS for every
instance.

Paths below are relative to `src/apps/api/src/services/` unless they start with
`src/` or `functions/` (`src/apps/functions/src/triggers/`).

## 1. The system

All state is in Firestore. The API (`src/apps/api`, Fastify on Cloud Run, any
number of instances) and the Cloud Functions (`src/apps/functions`) are the
writers; the two web applications and the mobile scanner are clients. There are
four ways to write, and they are what makes the system hard:

| how the code writes | what it guarantees | in the models |
|---|---|---|
| `db.runTransaction` | serializable; the closure may run several times; Firestore refuses a read after a write | one action; a retry of the closure, where it keeps state outside, is an action (`FinaliseAborted`); a read after a write is a transaction that throws when `ReadsBeforeWrites` |
| `db.batch()` | atomic, but reads nothing | one action over what an earlier query returned |
| `ref.update`, `repository.update` | one document, last write wins | one action |
| anything else between two `await`s: a query, a provider call, an email | nothing | a step of its own, so that other requests come between |

Events of the in-process bus are fire-and-forget; a process may die at any
`await`; the payment providers repeat their IPNs; Cloud Scheduler repeats the
sweeps.

### Components

For each: its state, its operations, whom it talks to, what is hard, what makes
it correct. `PROJECT.json` lists the same components with their files.

**Payments** (`payment.service.ts`, `functions/payment.triggers.ts`,
`jobs/handlers/expire-stale-payments.ts`, `reconcile-payments.ts`).
State: `payments`, `refundLocks`, the idempotency claims, the ledger rows of
`balanceTransactions`, and parts of `registrations` and `events`
(`registeredCount`, `soldCount`). Operations: initiate (two transactions around
a provider call), the three ways to finalise (IPN, verification when the
participant returns, reconciliation), two ways to expire (the scheduled trigger
and the admin job), refund (lock, provider call, transaction). Hard: every one
of them may run at the same time on one payment; the provider is asked outside
of any transaction. Correct: one credit per success, a seat only when paid,
counters equal to what they count, one refund at a time, what was paid reaches
the ledger.

**Registrations** (`registration.service.ts`, `registration-bulk.service.ts`,
`participant-merge.service.ts`). State: `registrations`, `events.registeredCount`. Operations: register,
approve, cancel, cancelPending, promote the waitlist (one after a cancellation,
or in bulk), edit the event's capacity, merge two participants. A cancellation promotes after its transaction, with no one waiting
for it. Hard: candidates are queried outside the transactions that promote
them. Correct: one live registration per participant, a counter that does not
drift, a waitlist served in order, no freed seat forgotten.

**Check-in** (`checkin.service.ts`, `registration.service.ts`,
`checkin-policy.ts`, `event.service.ts` for the policy). State: `checkinLocks`,
`checkins` (the trail), `registrations.status/checkedInAt`, counters of the
event and its zones. Operations: live scan, synchronisation of a batch of
offline scans, policy and zone edits. Hard: devices work without a network,
send late, out of order and twice, with clocks of their own, while doors scan
live. Correct: one entry per scope of the policy, a cancelled badge stays out,
zones are not overfilled, counters are what happened.

**Balance and payouts** (`balance.service.ts`, `payout.service.ts`,
`balance-ledger.ts`, `functions/balance.triggers.ts`). State:
`balanceTransactions` (kind, status `pending -> available -> paid_out`,
`payoutId`), `payouts`, `payoutLocks`. Operations: append (from payments and
refunds), release due rows page by page, pay a period out. Hard: the release
batch does not read what it writes, and payouts also take pending rows.
Correct: no row is paid twice, a fee follows its payment, refunds are netted.

**Admin job runner** (`admin-jobs.service.ts`; `scheduled-ops.service.ts` and
`cron.ts` start the same jobs). State: `adminJobLocks` with an expiry,
`adminJobRuns`. A run takes the lock in a transaction, races its handler with a
timer, writes the outcome and deletes the lock. Hard: a run that times out
leaves its handler running, and deletes the lock even when another run has
reclaimed it. Correct: one run at a time while nobody outlives his lease, and
every run ends.

**Subscriptions and plans** (`subscription.service.ts`,
`functions/subscription-rollover.triggers.ts`, `listeners/effective-plan.listener.ts`,
`effective-plan.ts`, the PATCH in `organization.service.ts`). State: `subscriptions`, the organisation's plan and its
effective limits. Operations: upgrade (with trials), downgrade and cancellation
at once or at the end of the period, revert, the administrator's assignment,
past-due marks, the daily rollover, and the PATCH of the organisation, whose
schema keeps `plan` and `effectiveLimits`. Hard: the organisation is written in a
transaction, the subscription after it from what was read before, the limits
once more by a listener. Correct: the three copies of the plan agree.

What is modelled of the rollover is the function that Cloud Scheduler runs. Its
comment says that it mirrors `subscription-rollover.ts`; that file reads the
organisation before it writes and ends trials, but only tests call it.

**Organisations, members and invites** (`organization.service.ts`,
`invite.service.ts`, `organization.repository.ts`,
`jobs/handlers/prune-expired-invites.ts`). State: the organisation's
`memberIds`, the user's document, the claims of his token, `invites`.
Operations: invite, accept, decline, revoke, expire, add, remove, change a
role, each with its compensation when the claims cannot be set. Hard: three
stores written one after the other, an array written whole from an earlier
read, a user's document and claims that every organisation writes. Correct: the plan's member limit, and three copies that agree.

**Events, tickets and recurrence** (`event.service.ts`). State: `events` with
their status, series, ticket types and `soldCount`. Operations: create, clone,
series, publish, unpublish, cancel, archive, restore, edit, remove a ticket
type, under a plan that changes. Hard: nearly every operation reads, judges and
writes later without looking again; an edit replaces the array that payments
count in, and what the plan allows is written down twice, in the code's table
and in the catalogue. Correct: the plan's number of active events, a count of
sold tickets that is true.

**Webhook log** (`webhook-events.service.ts`): receipt before handling, outcome
after, provider retry and admin replay on one row.
**Promo codes, one-time credentials, rate limiter**: one counter or flag each,
in a transaction or an update.
**Notifications** (`notification-dispatcher.service.ts` and the channels),
**event bus and listeners**, **badges and QR signing**, **participant
profiles and users**, **receipts and reports**, **event content**, **statistics**,
**back-office administration**, **Cloud Functions triggers** for retention and
post-event work, **clients**, **shared packages and rules**: see section 8.

### How they interact

    client -> registration.register ------------------> registrations, events
    client -> payment.initiate -> provider -> IPN ----> payments, registrations,
                                  verify, reconcile     events, balanceTransactions
    trigger/job -> expire -----------------------------> payments, registrations
    operator -> payment.refund -> provider -----------> payments, registrations,
                                                        events, balanceTransactions
    registration.cancel -> promote (no await) --------> registrations
    scanner -> registration.checkIn / bulkSync -------> registrations, checkinLocks,
                                                        checkins, events
    trigger/operator -> balance.sweep, payout.create -> balanceTransactions, payouts
    admin, scheduler -> runJob -> handler -------------> adminJobLocks, adminJobRuns
                                                        (handlers: expire, release, prune)
    owner, rollover -> subscription.*, org.update -----> organizations, subscriptions
    owner, invitee -> organization.*, invite.* --------> organizations, users, claims, invites
    organiser -> event.* ------------------------------> events (ticketTypes too)

`registrations` is shared by the first three models. Each model keeps the
operations of the others that touch its documents as actions (`Cancel`,
`CancelPending` and `CheckIn` in `Payments`, `CheckIn` in `Registrations`,
`Approve` and `Cancel` in `CheckIn`). `Ledger` takes the crediting and
refunding of `Payments` as one action each, and the batch of the expiry job as
another: all three are steps of `Account`, which both modules implement. The plan that `Subscriptions`
follows through its three copies is one number in `Members` and `Events`, which
the plan operations change in one step there: what these two need to know is
which plan operations look at the members and events, and which do not.
`Events` takes a payment as two steps, since its finalisation counts the ticket
in the array that an edit of the event replaces.

## 2. The modules

    Account      <--refines-- Payments        PaymentsProofs
                              Registrations   RegistrationsProofs
    Gate         <--refines-- CheckIn         CheckInProofs
    Account      <--refines-- Ledger          LedgerProofs
                              AdminJobs       AdminJobsProofs
                              Subscriptions   SubscriptionsProofs
                              Members         MembersProofs
                              Events          EventsProofs
    Sums: the totals of Account and Ledger
    MCPayments, MCRegistrations, MCCheckIn, MCLedger, MCAdminJobs,
    MCSubscriptions, MCMembers, MCEvents            instances for TLC

In each module a request in flight is an element of `Requests` (`Scanners`,
`Sweepers`) whose local variables are a record of `req` (`scan`, `sweep`): what
the code has read before an `await` and uses after it. Documents are functions
from identifiers. The comment before a definition whose name ends with what it
does wrong (`NeverRetries`, `LockIsFreeEarly`, ...) is marked *Mutant*: it is a
variant of the next definition with a plausible bug, which `PROJECT.json` pairs
with the property that must catch it.

### Payments

| model | code |
|---|---|
| `pay`, `refunded`, `owner` | `payments/{id}`: `status`, `refundedAmount`, `userId` |
| `attached` | the payment's `providerTransactionId` is stored |
| `reg`, `registeredCount`, `soldCount` | the registration of the payment, the event's counters |
| `credits`, `debits` | rows of `balanceTransactions`: pairs payment/platform_fee, sums of refund rows |
| `idem`, `lock` | the idempotency claims, `refundLocks/{id}` (with its expiry) |
| `announced` | `payment.succeeded` events |
| `provider`, `returned` | the provider's own state (external) |
| `InitiateRead, InitiateRefused, InitiateClaim, SessionOpened, SessionThrows, InitiateAttach, InitiateAbandon` | `initiatePayment`: the early availability read, transaction 1, the provider call, transaction 2, the recovery |
| `WebhookReceive`, `VerifyStart`, `ReconcileStart`, `ProviderPending/Answers`, `Finalise*` | `handleWebhook`, `verifyAndFinalize`, `reconcileSinglePayment`: early exit, question to the provider, transaction, event |
| `PaymentTimeout` | `onPaymentTimeout` (one transaction per payment) |
| `SweepQuery`, `SweepCommit` | the `expire-stale-payments` job: query, batch |
| `RefundRead`, `RefundLock`, `RefundBusy`, `RefundAccepted/Refused/Throws`, `RefundUnlock`, `RefundRecord`, `RefundRejected`, `LockExpires` | `refundPayment` |
| `Cancel`, `CancelPending`, `CheckIn` | the registration service on a paid registration |
| `Ages` | the windows of the sweeps: 0 recent, 1 in the reconcile window, 2 past the cut-offs |

`Payments` implements `Account`, the abstraction that payouts are drawn from,
under the mapping in `Acc`: `CreditsMade` are the row pairs of the ledger, its
debits are what was refunded, and no payout is made. It is the other half of
`Ledger`, whose payouts take credits and refunds for single steps:
`FeedsTheAccount` says that the many steps of finalising and refunding come to
that. The account's `Forget` is the price of the job's batch: a success that the
batch overwrites is finalised, and credited, once more (`clobbered` counts
them). A payment has one row pair, and one more for each success overwritten;
any other second credit would be no step of the account.

`Seats` are the registrations that `registeredCount` is meant to count, `Sales`
the payments that `soldCount` is meant to count. `CountersAreExact` is an
equation for each, with two more histories: `oversold` counts the successes the
batch overwrote, `drift` the seats it took without counting them down, less the
seats that were counted down twice. A full refund counts a seat down whatever
the registration's status is, so that a registration cancelled before counts
twice.

`ReadsBeforeWrites` is the rule of the store, TRUE on Firestore. Three
transactions of the code read after their first write: a full refund
(`payment.service.ts:2027-2051`), the timeout trigger
(`functions/payment.triggers.ts:92-130`) and the scheduled rollover of
subscriptions (`functions/subscription-rollover.triggers.ts:144-148`). Under the
rule they throw. The runs `payments_ordered`, `ledger_payouts`,
`subscriptions_plans` and `events_lifecycle` set it to FALSE, as the mocked store
of the unit tests behaves, so that what these transactions were written to do is
checked too; the theorems are about both kinds of store. No property promises
that an abandoned payment expires or that a scheduled change comes: on Firestore
the function that should see to it throws every time.

### Registrations

`reg`, `owner`, `tier` are the registrations in the order of `createdAt`;
`Register`, `Approve`, `CheckIn`, `UpdateEvent`, `Merge` are single transactions
(or updates); `Merge` is the merge of two participants, which gives one of them
the other's registrations, whatever he has already (`doubled` records whom).
`CancelRead` / `CancelCommit` / `CancelRejected` are the read, the transaction
and its guards; `PickOldest`, `Promote`, `PromoteRaced` are
`promoteNextWaitlisted` with its retries; `BulkQuery`, `BulkStep` are
`bulkPromoteWaitlisted`. `Left` are the registrations of a tier that are past
its queue. An edit of the event (`UpdateEvent`) replaces whether it asks for
approval, its `maxAttendees` and the tiers that are sold out, and compares
nothing with the registrations there are. `RegistersWithinCapacity` is what
registering promises under any edit; `SeatsFit` says how far promotions,
approvals and edits may overbook nevertheless: beyond the largest limit so far
(`peak`) by the waitlisted registrations an organiser let in (`granted`) and by
one promotion for each registration that took a seat promised to the waitlist
(`taken`).

### CheckIn and Gate

`reg`, `checkedInAt`, `locks`, `scanPolicy`, `capacity`, the two counters and
the trail (`rows`, and `shadow` for the rows a synchronised scan has yet to
write) are the documents; `entries` counts how often a badge was let in.
`LiveVerify` / `LiveEnter` / `LiveRefuse` are the live scan (checks,
transaction), `ItemVerify` / `ItemEnter` / `ItemRefuse` one item of a batch with
the day the device claims, `WriteShadow` the row written after the transaction
or lost. `checkedInAt` keeps the entry committed first: the comment at
`checkin.service.ts:145-146` says last-write-wins by timestamp, the code compares
no timestamps. The model follows the code and no property takes a side. Since items are processed one by one and a device may send anything it
holds at any time and again, an item needs no batch. `Gate` is the promise: a
badge enters once per scope, a barred badge never, and a badge that entered is
not barred; `KeepsTheDoor` states that `CheckIn` implements it, and
`Gate!Sound` what follows for who is inside.

### Ledger and Account

`<<p, n>>` is the nth credit of payment p. `entry` and `payoutId` are its payment
and fee rows, `refunded` the sum of a payment's refund rows, `net` the payout of
each period. `Credit`, `Refund`, `CreatePayout` are transactions; `SweepQuery` /
`SweepCommit` / `SweepDies` are one page of `sweepPendingEntries`; `ExpireBatch`
is the batch of the expiry job, which sets back payments that succeeded after
its query, with no look at their rows. A payment set back is open to the next
IPN, which appends a second row pair; a payout of its period takes both pairs. A
period is the set of credits whose `completedAt` falls into it, so that periods
may overlap as the dates an operator types may.

`Account` is what an organization may rely on: a payment is credited once, and
once more for each time its success was forgotten; a payout transfers credits
that no other payout took, for at most what they have left after the fee and the
refunds, once and for all. `Ledger` implements it (`KeepsTheAccount`): a credit
is settled when it has rows, its payout is the `payoutId` of its payment row,
what a payout paid is `net`, and forgetting is the job's batch and nothing else.
The sweeps and their pages are stutters of the account, although they write the
rows. `Sums` is the total over a finite set that both use.

### AdminJobs

`lock`, `row` are the documents; `pc`, `lease`, `timer`, `working` the local
state of each invocation: where `runJob` is, the expiry it computed before its
transaction, its timer, and whether its handler has settled. `Trigger`,
`Acquire`/`Refuse` are the checks and the lock's transaction; `CreateRow`,
`MarkRunning`, `StartHandler`, `HandlerSettles`, `TimerFires` the body and its
race; `WriteOutcome`/`OutcomeIsLost`, `Release`/`ReleaseFails` the `finally`;
`WriteFails`, `Die` what goes wrong; `Tick` the clock, which counts every
timestamp down together. `overran` is a history: who was inside when his lease
ended.

### Subscriptions

`plan`, `eff` are the organisation's plan and the plan its effective limits
were computed from, `sub` the subscriptions (there may be two, since first
operations create without a lock). Each operation is the sequence of its
awaits: `UpgradeReads/Commits/Writes`, `DowngradeReads` and then either
`ScheduleChecks/Writes` or `FlipCommits/Finds/Writes`, `RevertReads/Writes`,
`AssignCommits/Finds/Writes`; `Refresh` is the listener, `UpdateOrganization` the
PATCH, `Rollover` the transaction of the scheduled function, which commits only
where the store lets it. It has no case for the end of a trial: the plan is
rewritten and the status stays `trialing`, although `subscription.service.ts:189`
says that the handler recognises the reason. `Torn(r)` says that r has written
the organisation and not yet the rest; `raced` records that a write of a plan
met a torn one, or that one was left torn; `patched` that a PATCH wrote plan or
limits after the last complete change.

### Members

`members`, `mirror`, `claim` are the three copies of a membership, `invite` the
invitations, `limit` the plan's. The last two copies name an organisation: none,
this one (`here`) or another (`elsewhere`). `Create*`, `Accept*`, `Close*` are the
invitation's operations (declining, revoking, expiring and pruning are the same
read and write), `Add*`, `Remove*`, `Role*` the organisation's, `UndoAdd` and
`Readd*` the compensations. `JoinElsewhere`, `LeaveElsewhere`, `RoleElsewhere`
with `ClaimsElsewhere` and its failures are the same operations, and the creation
of an organisation, seen from here: they write the user's document and claims and
never ask which organisation these name. Four histories: `tainted` the users
whose copies were left to chance, with the reason beside each action; `stranded`
those who accepted and got no claims, which a second call cannot mend, whatever
`invite.service.ts:180-182` says, since line 102 refuses it; `moved` those whose
copies another organisation wrote while they were members, or wrote back to this
one; `unchecked` that the limit or the array was written without a look.

### Events

`status`, `children`, `recent`, `sold` are the events, `made` the tickets that
payments really sold, `plan` and `limit` the plan in force and its number,
`target` the scheduled plan, which freezes creation. There are two sources of a
plan's number: the freeze asks `PLAN_LIMITS` (`PlanLimits`, none for a plan that
the table does not know or leaves unlimited), every change of plan asks the
catalogue, which an administrator edits, so that there any plan may come with any
number. `fits` records the number that a scheduled downgrade was checked
against. `CreateReads/Writes`, `SeriesReads/Writes`,
`RestoreReads/Writes`, `DowngradeReads/Writes` check and write;
`StatusReads/Writes` are publish, unpublish, cancel and archive; `OpenForm`,
`UpdateReads/Writes` an organiser's edit, which carries the ticket types it
loaded; `PublishSeries`, `CancelSeries`, `RemoveTicketType`, `Rollover`,
`Upgrade`, `AssignPlan`, `PatchOrganization` are one transaction, batch or update
each. Two histories name the causes the properties allow for: `loose`, `edited`.

## 3. The runs

| run | question | instance | distinct states |
|---|---|---|---|
| `payments_races` | do three invocations of any kind keep the ledger, the seat, the refund lock and the account? | 1 payment of 2 units, 3 requests, crashes, Firestore's rule | 694 741 |
| `payments_ordered` | are both counters exact, and what was paid credited? | 2 requests, no read rule, fairness | 86 638 |
| `registrations_waitlist` | counter, uniqueness, capacity under edits, order of the waitlist, no lost slot | 2 users, 2 tiers, 3 registrations, 2 requests, edits between three settings (limit 1, limit 2 with all tiers sold out, no limit) | 3 248 140 |
| `checkin_door` | one entry per scope, honest counters and trail, cancelling wins | 2 badges, 1 zone, 2 scanners, 3 policies, 3 days | 1 024 776 |
| `ledger_payouts` | paid once, fee with its payment, the abstract account, due funds released | 2 payments, one of which may be overwritten and credited again, 2 overlapping periods, pages of 3, 1 sweep | 195 958 |
| `admin_jobs` | how many runs of a job are inside at once, and do they end? | 3 runs, a lease of 1 tick | 800 547 |
| `subscriptions_plans` | do the three copies of the plan agree? | 3 plans (one with a trial), 3 operations, 2 documents, no read rule | 1 066 802 |
| `members_copies` | the member limit, and the three copies of a membership | 2 users, 2 invitations, 4 operations here or elsewhere, a limit of up to 1 | 1 271 559 |
| `events_lifecycle` | the plan's limit, the tickets sold | 3 events, 3 operations, 2 plans of the table, catalogue numbers 1 and 3, 1 ticket, no read rule | 1 204 688 |
| `payments_announce`, `payments_refund`, `ledger_release` | three sentences of comments that the code does not keep | the smallest instance that shows it | |

What the last three show (the traces are a few steps each):

- `payments_announce`: `wasNewlySucceeded` survives an aborted attempt of the
  transaction, and the event is emitted for a transition another path made.
- `payments_refund`: the transaction of a full refund updates the payment and
  then reads the registration and the event; Firestore refuses, after the
  provider has paid back. `onPaymentTimeout` and the scheduled rollover have the
  same order.
- `ledger_release`: a release batch puts rows back to `available` that a payout
  has taken since the query.

Some invariants hold but for causes that a history variable records and the
property's comment lists: that is what the code lets through, and nothing else
breaks them. A reader of the code should know of these:

- the batch of the `expire-stale-payments` job (`expire-stale-payments.ts:131`)
  writes `expired` over a success committed after its query, a repeated IPN
  credits the payment again, and a payout transfers both credits
  (`CreditMatchesStatus`, `FeedsTheAccount` and `KeepsTheAccount` count these);
- a full refund of a registration its participant had cancelled counts the seat
  down a second time (`payment.service.ts:2089`), where the store lets full
  refunds commit at all (`CountersAreExact`, `drift`);
- an initiate whose provider call fails leaves a `pending_payment` registration
  that no sweep selects (`payment.service.ts:560`);
- `onPaymentTimeout` expires nothing on Firestore, so that an abandoned payment
  stays open until an operator runs the job, and the scheduled rollover applies
  nothing there; no property promises either;
- an event that was cancelled is archived and restored as a draft, published with
  its series, or written by an operation that had read it before, although
  `event.service.ts:903` calls cancellation an end state that is not restorable:
  with these three ways back nothing is left to state, and no property does;
- an edit of an event writes `maxAttendees` and compares it with nothing
  (`event.service.ts:458-513`, `SeatsFit`);
- the PATCH of an organisation writes `plan` and `effectiveLimits` from its body
  (`organization.service.ts:116-122`; `PlansAgree`, `OverLimitHasACause`,
  `OverPlanHasACause`);
- joining, leaving or creating another organisation overwrites a member's
  document and claims (`DriftHasACause`, `moved`);
- a downgrade to a plan that `PLAN_LIMITS` does not know freezes nothing, and one
  whose catalogue number was edited is frozen at another number than it gets
  (`event.service.ts:1448-1461`, `OverPlanHasACause`);
- an edit of the event that carries `ticketTypes` (`event.service.ts:513`)
  replaces the array of which `payment.service.ts:802` says that only the
  transactions of payments write `soldCount` (`SoldIsHonest` excuses the
  overwrite and shows that nothing else parts the two);
- a merge may leave a participant with two live registrations of one event
  (`OneLivePerUser`, `doubled`);
- a job whose timer fires before the race listens to it, with a handler that
  never settles, keeps its run open (`RunsEnd` leaves this case out);
- a job's run that outlived its lock deletes the lock of the run that reclaimed
  it (`admin-jobs.service.ts:321`), so that a third one may start:
  `BoundedOverlap` is the exact price;
- a compensation of `addMember` takes a membership away that it had not given
  (`organization.service.ts:198`, `DriftHasACause`).

### Bounds and why they are enough

One payment and three requests let every pair of operations race with a third as
the environment; identical requests are symmetric. A second payment would matter
only through the shared counters, the duplicate guard and the keys: what those
do for any number of payments is proved, not run. `Amount = 2` is the least that
has a partial refund followed by a full one. Three registrations on two tiers
with one seat give a holder and two waiting, so that two promotions fight for
one candidate and a third is left; two invocations, next to an organiser's
approval, a merge, an edit and a scan that are steps of their own, race for each;
the edits lower the limit below the registrations, raise it and remove it;
`MaxRetries` is 2 where the code has 5, so that three registrations are enough
for a promotion to lose every race and give up; what holds for any number is
proved. Two badges and two
scanners race for one key, one place of a zone, or different keys; three days
with a window of two and a lag of one put a scan before, inside and after each
limit; `MaxLocks` ends the run after two locks are taken (a third scan may still
be in flight). Pages of three of the rows split a payment from its fee; the two
refunds 5 and 15 of 20 give a partial, a second partial and a full refund; one
payment that may be overwritten once has two credits next to a payment with one,
in one period or in two. A single sweep is stale against every payout; two sweeps
against each other are what `ledger_release` needs. Three
runs of a job are what an unconditional release needs to show: one that outlives
its lease, one that reclaims its lock, one that comes in through the hole; a
lease of one tick has a before, a boundary and an after. Three plans are the
least with an upgrade between paid plans; two subscription documents the least
in which the query's order matters; three operations let two changes of plan and
a revert, or a trial and two downgrades, meet with the rollover and a PATCH. Two
users and two invitations under a limit of at most one give a last place that two
want; four operations are an acceptance, a removal, an addition and a
compensation on one user, any of them elsewhere. Three events are a series of two and another, or three that race for a
limit; a plan with a freeze, one without and one that the table does not know
meet a catalogue that gives each of them a smaller or a larger number; one ticket
is enough to be written over. Requests that are equal are
symmetric (and users, invitations, events), except where a liveness property is
checked. Every bounded model stops when its payments, registrations, requests or
days are used up, so deadlock is not checked: no component waits for another
one.

### Fairness

`Payments!FairSpec`: a request in flight goes on (weak fairness of `Advance`);
the provider repeats its IPN until it is answered with success, and attempts are not aborted for ever
(strong fairness of receiving and of committing). Crashes may happen, but not
always at the same place. `Ledger!FairSpec`: Cloud Scheduler starts the sweep
again and again and not every one dies before its batch. `AdminJobs!Spec`: time
passes and the event loop goes on with what is ready (weak fairness of `Tick`
and of `Proceed(r)`); nothing makes a handler settle, which is the point of
`RunsEnd`. The models of registrations, check-in, subscriptions, members and
events have no fairness: nothing in the code retries a scan, a promotion, a
change of plan, an invitation or an edit, and their properties are safety. The
two scheduled functions that would deserve fairness, the payment timeout and the
rollover, throw on Firestore each time they have something to do.

## 4. What is proved

All for any sets of identifiers, finite only where a cardinality is counted, and
any values of the bounds, under the named `ASSUME`s of the modules (prices are
positive, null values are not identifiers, `Periods` are sets of credits, the payments are finitely many, ...),
which TLC evaluates in every run.

- `PaymentsProofs`: `TypeCorrect`, `LockExcludes`, `RefundsCorrect`,
  `CreditsCorrect`, `SeatsArePaid`. The
  refund lock is not inductive by itself: the invariant adds that a refund past
  the lock step holds it, that no two of them do, and that what the provider
  gave back and the ledger has not recorded belongs to a request at the
  `record` step. For the credits it adds that a finalisation whose verdict is
  "paid" has been asked of a provider that was paid.
  `CountersCorrect` adds both counters, on a store with or without the read
  rule: a payment that is finalised is neither sold nor seated, a seat always
  has a succeeded payment, and what the batch takes is counted in the histories
  by the cardinality of what it meets. It also shows that the floor at zero of
  the refund's `soldCount` is never needed.
  Two theorems isolate what the runs that expect a violation find.
  `RefundsCommitWithoutTheRule` assumes a store without the read rule and no
  deaths: then every valid refund is recorded. `AnnouncedOnceWithoutRetries` is
  about the behaviours without an aborted attempt: the invariant counts, next to
  the announcements made, the requests that still owe one.
  `ExactWithoutStaleBatches` does the same for the batch of the expiry job: if it
  finds its payments open, both histories of the batch stay zero, and the ledger
  and `soldCount` follow the statuses exactly.
  `ServiceFeedsTheAccount`: each step maps to one of `Account` or to a stutter.
  That a payment is credited again only after the batch overwrote its success
  comes from `CreditMatchesStatus`; a refund's row needs that only a payment with
  a success can be refunded, and by no more than is left of it.
- `RegistrationsProofs`: `TypeCorrect`, `CountCorrect`, `OneLiveCorrect`,
  `CapacityCorrect`, `SeatsCorrect`, `OrderCorrect`, `SlotCorrect`. That the counter stays a
  natural number needs
  that it counts the registrations. That the candidate of a promotion is still
  the first of its queue when the transaction runs, although the query came
  before, needs that registrations are created in the order of their identifiers
  and that nobody re-enters a queue: the strengthening says both. For
  `SlotCorrect` the invariant counts: a promotion on its n-th try follows a
  cancellation and n lost candidates, all of which have left the queue of the
  tier for good, so that one that gives up after `MaxRetries` tries finds more
  than that many gone. Two theorems say when the exceptions of the invariants do
  not occur: `OneLiveWithoutMerges` and `NeverOverbookedWithoutWaitlist`; the second
  shows that without the waitlist the seats stay within the limit in force, unless
  an edit sets the limit below them.
- `CheckInProofs`: `TypeCorrect`, `CountCorrect` (the counter is the number of
  badges inside; cardinalities by the library's finite-set facts),
  `EntriesCorrect`, `TrailCorrect`, `ZonesCorrect`, and
  `Refinement`: the service implements `Gate`. The strengthening says that a
  badge holds a lock only while it is checked in. `DoorIsSound` carries the
  door's own invariant over to the service.
- `LedgerProofs`: `TypeCorrect`, `FeeCorrect`, `PaidOnceCorrect`,
  `LedgerKeepsTheAccount`, `NeverOverdrawn`, `SweptStaysPaidUnlessRaced`,
  `FeeIsNearest`. Amounts are sums over sets. Their laws (existence, a union, a
  difference, monotonicity) come first: among the subsets for which a law fails
  there would be a least one, and removing the element that the sum takes first
  gives a smaller one. The strengthening says that a row which no payout has
  taken is not paid out, so that whether a row is free depends on `payoutId`
  alone, which the sweeps never write; that a credit's two rows carry the same
  payout; and that a payment has a credit for each success it has had, as many as
  were overwritten and one more while it has one. With it a payout's `net` is at
  most what the account leaves of the credits it takes, and each step maps to one
  of `Account` or a stutter; `NeverOverdrawn` adds the payouts up, and says that
  no payment has more credits than overwritten successes allow. `SweptStaysPaidUnlessRaced` isolates
  what `ledger_release` finds: without a payout over a page that some sweep
  holds, what a payout took stays paid out.
- `AdminJobsProofs`: `TypeCorrect`, `OverlapIsBounded`, and from it
  `OneAtATime`: no two runs are inside until one outlives its lease. The bound is not
  inductive: it needs to know whom the lock protects. A stray is a run inside
  within its lease that the lock does not name, a run that is gone has outlived
  its lease and left; the invariant says that strays are no more than the gone,
  and that a run which is still inside and owns the lock has a lease that ends
  with it, so that only a run which overran deletes another one's lock.
- `SubscriptionsProofs`: `TypeCorrect`, `PlansStayTogether`. As long as nothing
  raced, at most one operation is torn, and the invariant says for each of its
  stages which of the three copies has been written; operations that have only
  read may have read anything; a PATCH is remembered until a complete change wrote
  all three. `PlansAgreeWhenSerial` shows that `raced` excuses nothing else: with
  one operation in flight at a time, none left half done and no rollover inside
  one, it stays FALSE, because an operation that creates a document then finds
  that there is still none, and only a PATCH since the last change parts the
  copies.
- `MembersProofs`: `TypeCorrect`, `LimitHolds`, `CopiesAgree`. An operation that
  writes the array whole is within the limit when it writes what it read, unless
  `unchecked` says otherwise. For the copies the invariant says that at most one
  operation here changes a user that no history names, and, by the operation's
  stage, which of the three copies it has written; what another organisation has
  under way on a user who is no member and never was disturbed can only write its
  own name or none.
- `EventsProofs`: `TypeCorrect`, `PlanHolds`, `SalesAreCounted`. For the plan the
  invariant says, while nothing is loose, that the count is within the limit in
  force, and, while a change is scheduled, within the number of the freeze or the
  one the change was checked against; and that what a check found had room for
  what its operation will write, under the limit and the freeze it saw.

Every safety invariant, action property and refinement that a passing run checks
is proved. Only model-checked is the liveness (`PaidIsCredited`,
`FundsAreReleased`, `RunsEnd`), since fairness and ENABLED are out of the
prover's reach. What is proved holds of the models;
that the three properties of the last runs fail is shown by TLC, and the
theorems about them say under which restriction they hold.

## 5. Hazards and properties

`PROJECT.json` lists what is hard to test at the line where it bites. In short:
races of finalisation, expiry and refund on one payment (`CreditMatchesStatus`,
`SeatIsPaid`, `RefundMutex`, `RefundsAreBacked`, `FeedsTheAccount`); money that
leaves the platform once and net of refunds (`PaidOnce`, `FeeFollowsPayment`,
`KeepsTheAccount`); counters kept
by different paths (`CountersAreExact`, `CountIsLive`, `CountIsInside`,
`SoldIsHonest`); queries and checks whose answers are stale when used
(`PromotesInOrder`, `NoSlotIsLost`, `RegistersWithinCapacity`, `SeatsFit`, `PaidOnce`, `SweptStaysPaid`,
`OverLimitHasACause`, `OverPlanHasACause`); copies written one after the other
(`PlansAgree`, `DriftHasACause`); repeated, late and reordered deliveries
(`OneEntryPerLock`, `KeepsTheDoor`); a lock with an expiry (`BoundedOverlap`);
limits (`ZoneNeverOverfilled`); things that must happen (`PaidIsCredited`,
`FundsAreReleased`, `RunsEnd`). Those without a property say why.

## 6. Plan

Done, in the order of importance: `Payments` and `Ledger` with `Account`,
`Registrations`, `CheckIn` with `Gate`; then `AdminJobs`, `Subscriptions`,
`Members`, `Events`.

Left, most useful first:

1. Coupons and promo codes in the transactions that redeem them.
2. `WebhookLog`: a processed delivery is not shown as failed for good.
3. Several events of one organisation in `Ledger`, whose payouts select by event.

## 7. How to run

    tlc -config MCPayments_races.cfg MCPayments.tla       # and so on
    tlapm PaymentsProofs.tla                              # each *Proofs.tla

The passing runs take up to three minutes each with two workers.

## 8. Not modelled, and why

Signatures, QR formats, PDF and email rendering, templates: pure functions or
I/O whose results the models take as given. Authorisation and plan features: a
request that is refused before it touches a document is a request that does not
happen. The catalogue of plans, coupons, promo codes, one-time credentials, the
rate limiter and receipt numbers are one counter or flag each, changed in one
transaction, with nothing between a read and a write. The webhook log is read by
operators only; what a replay does is the repeated IPN of `Payments`. The rooms,
dates and templates of an event, the edit of a ticket type and of access zones
are single writes without a state machine. The seeds, the user interfaces and
the mobile application, the larger part of the repository's lines, keep no state
that the API relies on, which bounds the share of the repository that these
models can cover. Statistics, exports and reports only read. Event content
(sessions, speakers, sponsors, venues, feed) is one document per operation
without a state machine. The event bus keeps no state; that its events can be
lost when the process dies is counted only where a property is about them.
Notifications end at external providers; their deduplication is one log
lookup before a send. Clients keep no state the API trusts, apart from the scanner's queue,
which is the environment of `CheckIn`. Amounts are units of the price; taxes and
currencies are not distinguished. Documents are never deleted in the models:
retention begins after the states they cover.
