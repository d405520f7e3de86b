# Verification of the school platform backend

This directory holds TLA+ models of the parts of the backend (`src/backend`) whose
correctness rests on interleavings, partial failure or ordering: TLC checks them on small
instances, and TLAPS proves the central theorems for every instance. `PROJECT.json` is the
machine-readable index: components, runs, the source lines of every definition, hazards,
findings and theorems.

## 1. The system

A NestJS monolith of about thirty modules (`src/backend/src/core/*`) over one MySQL database
reached through Prisma, with several API replicas. Replicas share nothing but the database;
inside a replica, requests and timers interleave at every `await`. Four mechanisms carry the
consistency of the whole:

* **Interactive transactions** (`infra/prisma/prisma.service.ts`): nothing sets an isolation
  level, so InnoDB's default, REPEATABLE READ, applies. A plain read sees the snapshot of the
  transaction's first read; an `UPDATE ... WHERE` sees the current rows.
* **Optimistic versions**: mutable rows have a `version`, and updates are
  `updateMany where version = <the version read>`, failing with a conflict when no row matched.
* **The outbox**: business transactions insert event rows; a timer dispatches them.
* **Jobs**: rows of a queue table, claimed and run by a timer, with retries and dead letters.

### Components

| component | state it keeps | operations | interacts through | what is hard | what makes it correct |
|---|---|---|---|---|---|
| fee collection (`fees/`) | invoices, payments, allocations, receipts, refunds | generate, recompute, fines, void, delete, capture, verify, reject, cancel receipt, refund, ledger | its rows, the outbox, sequences, the audit chain | handlers read a snapshot and write versioned rows, but not all of them are versioned | no money lost or counted twice; columns, receipts and the ledger agree |
| outbox (`outbox/`) | event rows: status, attempts, next attempt | publish, claim, dispatch, mark, replay | business transactions, registered handlers | replicas overlap, ticks die half way, copies go stale | every event handled or visibly failed; no state invented |
| jobs (`jobs/`) | jobs, runs, dead letters, schedule memory | enqueue, claim, run, retry, bury, replay, fire by cron | handlers, operators | as the outbox, and five rows written without a transaction | every job completed, retried or buried with a record |
| sequences (`sequences/`) | one counter per tenant, name and fiscal year | allocate in the caller's transaction | invoice and receipt numbers | roll-backs, row locks | gap-free, no duplicates |
| audit chain (`audit/`) | hash-linked audit rows | append, verify | every finance transaction | chain head read without a lock | one chain, no siblings |
| idempotency (`idempotency/`) | key, fingerprint, stored response | lookup, reserve, complete, release | HTTP middleware | concurrent first requests, crashes | a request with a key takes effect at most once |
| platform billing (`billing/`) | school invoices, payments, refunds, credit notes, account counters | draft, issue, void, approve, refund, credit, adjust | operators, gateway | an approval judges one row and is bound to another | every approved payment credited once |
| subscriptions (`subscription/`) | subscriptions, usage counters, notified thresholds | assign, renew, suspend, cancel, expire, consume, release | the daily scan, student and file services | counters outside the version scheme | limits hold, thresholds are told once and in order |
| notifications | entitlement counters, messages, send jobs | dispatch, send, record, cancel | outbox and jobs | end-to-end delivery over two at-least-once queues | quota respected, each message settles |
| feature flags (`feature-flag/`) | definitions, rollouts, overrides, a cache per process | evaluate, change, announce | outbox | three reads without a snapshot, writes outside the transaction | caches follow the tables |
| provisioning (`provisioning/`) | schools, journal of attempts, trials | provision, move, extend, expire | super-admin, daily scan | journal outside the transaction | one school per slug, a journal that tells the truth |
| parents and invitations | links, users, password tokens | invite, redeem, activate, archive | mail, outbox | three transactions and an event | who is invited can come in and becomes active |
| academic years, timetables, events, students | plain records with rules between rows | create, update, delete, activate, register, promote | foreign keys, unique indexes | rules between rows that no index enforces | one current year, nobody booked twice, seats counted |
| attendance, marks, coursework, syllabus | marks and their histories, counters | mark, correct, lock, compute, submit | lock windows, holidays | derived columns written by overtaken handlers | histories replay, counters add up |
| imports, reports, bulk operations (`reporting/`) | run rows with a status, files | request, validate, commit, cancel, fail | the job queue | jobs delivered twice, crashes, cancellation | what a run says of itself is what it did |
| remaining modules (staff, admissions, files, rbac, communication centre, ...) | records | create, update, delete, list | foreign keys | little beyond optimistic versions | per-row validity |

`PROJECT.json` lists every component, with the reason where one is not modelled.

## 2. Plan

The order was: what everybody's data passes through first, then the components with rules
between rows, then plain records.

1. `FeeCollection`, `SumTheory` and `FeeCollectionProofs`, with the proof that the money adds up —
   **done**.
2. `OutboxDispatcher`, `OutboxDispatcherProofs` — **done**. `AtLeastOnceQueue`, the promise its
   publishers and subscribers rely on, and the refinement, checked and proved — **done**.
3. `JobQueue`, `JobQueueProofs`, `JobScheduler` — **done**.
4. `RequestPipeline`, `RequestPipelineProofs`: idempotency key, tenant sequence and audit chain
   around one write — **done**.
5. `PlatformBilling`, `Subscriptions`, `UsageLimits`, `NotificationQuota`,
   `NotificationDelivery`, `FeatureFlags`, `SchoolLifecycle`, `PortalInvitation`, composed in
   `MCPlatform`, with `PlatformBillingProofs` and `PlatformProofs` — **done**.
6. `AcademicYears`, `Timetable`, `EventRegistration`, `ExamMarks`, `Attendance`,
   `ImportPipeline`, `Syllabus`, `Coursework`, `StudentPlacement`, `ReportRun`, composed in
   `MCRecords`, with `RecordsProofs` — **done**.
7. Left for later: notification campaigns, exam schedules, staff leave,
   the arithmetic of fee prices against reference definitions.

Abstract specification: `AtLeastOnceQueue`. The other modules state what they promise as
invariants of their own rows.

## 3. The modules

### `FeeCollection`

One student, one fee structure. Every handler runs in one transaction, so it is two steps:
the action named after the handler (`Generate`, `Recompute`, `ApplyFines`, `VoidInvoice`,
`SoftDelete`, `Capture`, `Verify`, `Reject`, `CancelReceipt`, `CreateRefund`) evaluates all of
its guards on the snapshot and computes the rows it will write into `txn[w]`; `Commit` applies
them if every version-checked update still matches (`VersionsMatch`) and the unique index holds
(`PeriodIsFree`); `Rollback` is a conflict, a deadlock victim or a crash. Other requests commit
in between. Row locks are held from the first update to the commit, so evaluating all version
checks at one commit step loses no interleaving.

| variable | code |
|---|---|
| `invoice[i]` | row of `fee_invoices`; `fine` is the sum of its late-fine lines |
| `payment[p]` | header row of `fee_payments` |
| `alloc[p][i]`, `active[p]` | rows of `fee_payment_allocations`; active: not reversed |
| `receipt[p]` | status of the row of `fee_receipts` |
| `refunded[p]` | sum of the append-only rows of `fee_refunds` |
| `txn[w]` | what the open transaction of request `w` will write |

Abstractions: money is an integer number of units (`round2` and decimals are left out, all
amounts being exact to the same two places); a price is one of a set of totals (`DraftTotals`),
since discounts and structures may change between two pricings; `If-Match` versions are the
versions the handler reads (a client that sends an older one is refused at once); a payment
splits over distinct invoices (the same invoice twice in one split always conflicts with
itself on the second versioned update); outbox, audit and number rows written in the same
transaction commit or vanish with it and guard nothing here. Nothing in the code ever writes
`OVERDUE`, so the guards that mention it are kept but no state has it.

### `OutboxDispatcher`

`row[e]` is an outbox row, `tick[t]` one invocation of the interval callback with the copies of
the rows its claim returned. `Select` is the timer firing with `draining` false, and the first
SELECT of `claimBatch`, which fixes the snapshot; `Claim` is the UPDATE restricted to rows
still pending, the second SELECT (own updates as written, other rows from the snapshot) and
the commit; `ClaimFallsBack` the `.catch` of the claim. `Dispatch` awaits the handler,
`MarkDelivered`, `MarkDeliveredThrows` and `MarkFailed` are the three continuations of
`dispatchOne`; `Abort` is a crash or an error that escapes the tick; `Elapse` is the back-off
running out; `Replay` the operator's endpoint. `due` abstracts `nextAttemptAt`. The order of
creation is not modelled: a batch is any set of candidates of the batch's size, and its events
are dispatched in any order (the second SELECT has no ORDER BY).

### `AtLeastOnceQueue` and the refinement

What a publisher may rely on: an item is handled only after it was requested by a committed
transaction, it is settled as delivered only after its handler succeeded, a taken item is not
offered again before it is settled, a settled item comes back only by request. `QueueState` in
`OutboxDispatcher` maps a row to `absent`, `waiting` (pending), `taken` (claimed), `delivered`
or `failed` (failed or dead letter); `handled` is the history of `OutboxDispatcher`. `Publish` and
`Replay` are `Request`, the committed claim is `Take` of the rows it changed, a successful
dispatch is `Handle`, the marks are `Settle`; everything else stutters.

### `JobQueue`

`job[j]` is the row, `worker[w]` the processor of a replica with the copies its claim returned,
`runs` the append-only job runs, `letter[j]` the status of the (first) dead letter of `j`,
`operator[o]` a replay request. The five writes of a run are five actions (`MarkRunning`,
`Handle`, `RecordRun`, then `Complete`, `Requeue` or `Die`, and `Bury`), with `Abort` possible
between any two and `SuccessThrows` for a write after the handler's success that throws, which
the catch block turns into a failure of the same attempt.

Things a reader of the code may not expect: `failed` is never written, since `complete()` turns a
failure with a next attempt into `queued`; a worker that runs a job it has not claimed counts no
attempt (`markRunning` matches no row and its result is ignored); a stale worker can bring a
dead job back; `resetForReplay` has no callers. Queues other than `default` are polled only while
a definition of theirs is active, so the reports, imports and bulk operations wait until an
operator creates one; the models of those assume that one is.

### `RequestPipeline`

One write request from the idempotency middleware (`Miss`, `Refuse`, `Replay`, `Reserve`,
`Release`, `Store`, `Expire`) through the handler's transaction (`ReadFirst`, `Allocate`,
`AppendAudit`, `Commit`, `Fail`) to the response. Keys are reserved before the tenant is bound,
with a NULL school, so the unique index never refuses a second reservation: two requests under one
key that both miss both run, which `SecondRunIsExplained` admits and nothing else. `holder` is
the row lock on the sequence. `deleteExpired`, `@Audit` and `flushBufferedIntents` have no users.
The chain hash takes its time from the process while the row's `created_at` is the database's
default; hashes themselves are left out.

### The modules of `MCPlatform`

* **`PlatformBilling`** — invoices, payments, refunds, credit notes and adjustments of one
  account. What one versioned transaction does is one action; `ApproveCheck` and `Approve` are
  two because approval judges the invoice before its transaction and is bound to the version of
  the payment. Left out: `balanceDue` and `totalInvoiced`, and the webhook for captured payments,
  whose handler does nothing although its comment promises a fallback (`razorpay.service.ts`).
  `billing-subscription-integration` has no callers. The code lets two approvals overpay an
  invoice, two refunds together exceed a payment, a credit note pay a void invoice;
  the properties are what holds beside that.
* **`Subscriptions`** — rows of one school, operators and the two passes of the daily scan. The
  transition table has no `TRIAL` to `EXPIRING`, so warning a trial always throws; the scan's
  batch limit is left out; a suspended or expired row is not cancelled by an assignment.
* **`UsageLimits`** — `consume` and `release` against the plan limits. The header of the guard
  calls the gate atomic; the code compares with its snapshot, so two requests may
  overshoot together. `OvershootIsRaced` says that this is the only way.
* **`NotificationQuota`** — the monthly counter of a channel. Its increment returns the row as
  committed, so the quota does hold; a deduplicated message keeps its count.
* **`NotificationDelivery`** — one message from its outbox event to the provider's answer. A
  crash while `SENDING` leaves it there; `campaign.cancel` cancels drafts only.
* **`JobScheduler`** — the timer of one replica between two restarts.
* **`FeatureFlags`** — one flag, the cache of each process, changes that are partly outside
  their transaction (the header says "same DB transaction"; updates and deletions use the base
  client), and an event that one replica handles and so empties one cache. Left out: overrides
  that expire, several rollouts, plan and region in an evaluation.
* **`SchoolLifecycle`** — provisioning with its journal before and after the transaction,
  super-admin moves, trial extension, the daily expiry. `reactivate` also accepts `TRIAL` and
  `EXPIRED`, beyond its header; the history variable `shortcut` marks it.
* **`PortalInvitation`** — invite (link and user in one transaction, token in another), redeem,
  first-login event, activation. `registered` is the kind of handler the registry keeps for the
  event's topic. Known losses, which the properties name: a link changed under the handler fails
  the delivery, and a failed event is not retried; a user already settled when invited has no first
  login; a user with several links has one of them activated, whichever is found.

### The modules of `MCRecords`

* **`AcademicYears`** — overlap is checked on a snapshot (`OverlapIsRaced`); demoting the
  other current years is an update of current rows, so one year stays current (`OneCurrent`). The
  service's header claims that the overlap check is race-free; the model shows that it is not.
* **`Timetable`** — entries, versions, bulk entry and derived teacher loads. A section's slot is
  protected by a unique index, a teacher's by a look only. The look is a `findFirst`, in no order
  and without leaving out the entry that is updated: where a race has booked a teacher twice, it may
  answer with the entry itself, and the update passes (`MayPass`). Such an update moves nobody, so
  `BookedOnce` blames the handler that put an entry where it is, not the last one that wrote it.
* **`EventRegistration`** — seats, withdrawals, fee assignments, cancellation. Approvals never
  count a seat although the header says that every registration does, so the capacity binds open
  registration only; a withdrawn participant's assignment stays pending and is billed.
* **`ExamMarks`** — versioned marks with a history, and results replaced as a sheet; two
  computations that cross may leave rows of both.
* **`Attendance`** — marks, edits, deletions, lock windows, corrections and the holiday map of
  each process. `approve` does not call the lock gate, contrary to the gate's header; deletion
  appends no history row, contrary to the service's.
* **`ImportPipeline`** — validate and commit jobs, cancellation, the plan's refusal of a row. A
  refused row stays a student: it is inserted before the guard throws, and the row's error is
  caught inside the transaction.
* **`Syllabus`**, **`Coursework`** — derived completion and counters, which only some of the
  operations refresh; the properties name the operations and races that explain a difference.
* **`StudentPlacement`** — roll numbers, checked by a look that two requests can both pass and
  that changes of section and promotions skip; and the promotion job, which maps the section and
  leaves the class.
* **`ReportRun`** — a run with its uploads; a crash leaves it `RUNNING`, and cancelling it while it
  runs orphans the file.

Unique indexes that the schema can only state as a stored generated column are taken from the
schema's comments and the migrations (attendance, marks, timetable).

### Components that share no state, in one run

`MCPlatform`, `MCRecords` and `MCPipelines` put several components side by side:
`component` is chosen in the initial state and only the component it names moves, so the state
space is the sum of theirs, never the product. A combined property says `component = "x" => ...`
for each of its parts. `MCPlatform` extends `PlatformBilling` and `JobQueue` and instantiates the
others with variables and constants of its own; the constants are parameters with an assumption
(`PlatformAssumption`), and `Platform.cfg` gives them the small values of the run, so the proofs
are about the very specification that is checked and hold for every value. `MCPipelines`
extends `RequestPipeline` and `JobQueue` in the same way. `MCRecords` has a constant for each
component, the set of *sizes* it may run in: a size is a record of the values of the component's
constants, the component is instantiated with a size as parameter (`Years(z)`, `Events(z)`), and
the initial state chooses the component and its `size`. `RecordsAssumption` says what a size may be.
Fairness in `MCPipelines` is that of each module, conditional on its
component.

### Definitions marked FAULT

Each property of a passing run is paired in `PROJECT.json` with a `FAULT` definition: the
definition after it with one plausible slip. TLC finds the property violated when the fault
replaces the definition, so none of the properties holds by the shape of the model. The modules
hold further ones, which break single conjuncts of the combined properties.

## 4. The runs

| run | instance | result |
|---|---|---|
| `Fees` | 2 invoices, 2 periods, 2 payments, 2 requests, prices and amounts 1 and 2, a fine of 1, versions to 5; either one invoice with everything that can happen to it or two simple ones | eight invariants and `PaysNoMoreThanDue` hold |
| `OutboxReplicas` | 2 events (one topic without handler), replica a with 2 overlapping callbacks, replica b with 1, 1 abort, 1 replay in all | five invariants, `PendingIsSettled` and `ImplementsQueue` hold |
| `Pipelines` | 1 job, 2 workers, 2 attempts, 2 aborts; or 3 requests, two of them under one key, one of which reads before it takes its number | six invariants, `JobsAreSettled` and `EveryoneIsAnswered` hold |
| `Platform` | ten components, below | seven invariants and two action properties hold |
| `Records` | ten components in seventeen sizes, below | seven invariants hold |
| `FeeRefundRace` | 1 invoice, 1 payment, 2 requests | `RefundsWithinPayment` is **violated** |
| `OutboxOwnership` | 2 events, 2 replicas, no fault of any kind | `ClaimOwnsItsRows` is **violated** |
| `OutboxRetry` | 1 replica, no fault, fair | `FailedIsRetried` is **violated** |
| `ChainForks` | 2 requests, one of which reads first | `ChainIsLinear` is **violated** |
| `FirstLogin` | one parent and one student, invited | `FirstLoginActivates` is **violated** |
| `SentOnce` | one message, its event delivered twice | `SentOnce` is **violated** |
| `HolidayCache` | one day, one process | `HolidayIsMarked` is **violated** |

### Bounds

*Fees.* Two requests suffice for every race of a read with a write, as each handler is one
read step and one write step. `MaxVersion` caps how often an invoice is written: five writes
cover generate, reprice or fine, pay, refund and pay again. Amounts 1 and 2 against prices 1 and
2 give exact, partial and excess payments, and with a fine of 1 repricing below what is paid. The
run is the union of two instances (`OneIsLarge \/ BothAreSmall` in `MCFeeCollection`): all operations
on one invoice, or splits of payments over two invoices of one price without fines. Symmetry is
over interchangeable sets; no liveness is checked under symmetry.

*Outbox.* `MaxAttempts = 2` makes the second claim (after a replay) the one that buries; one
abort at any point of any tick and one replay of either event reach every stale-copy case with two
holders. A batch of two holds both events: what a full batch leaves for the next tick is not reached.

*Pipelines.* One job and two workers reach a claim that loses, a fallback, and a stale worker
beside the owner; two aborts allow a fallback followed by a crash. Several jobs and operators are
in `Platform`'s queue (2 jobs, 1 worker, 2 operators), where no liveness is asked. Three requests are
two contenders for a key and a bystander for the sequence.

*Platform.* Each component has as many concurrent actors as its hazards involve, usually two
requests, or one request and one scan: two payments of 4 against an invoice of 8 (tolerance 1),
with refunds of 2 and 4; two administrators and two subscriptions; files that bring storage to
80, 90 and 105 per cent of its limit; three dispatches against a quota of one, over two resets; a
message of three attempts with two deliveries of its event and one fault; minutes 0 to 3 of which
0, 1 and 3 match; two processes with one evaluation and two changes of a flag; two requests for one
slug, an administrator and a scan over three days; one user who is the parent of two families,
with two redemptions of at most two tokens.

*Records.* As above, where one size would be too large for everything it is split: a timetable
with colliding entries, one whose entry changes hands, and two versions; an event for two
competing students, and a paid one; one mark changed three times, and two marks; one student
with corrections, and two with a changing calendar; two students who want one roll number, two
whom two workers promote, and one whom a promotion names twice.

Deadlock checking is off: bounded models and an idle system stop legitimately.

### Fairness

Fee collection, platform and records have none: every operation is a client's choice, and only
safety is stated. `OutboxDispatcher` assumes weak fairness of each process's undisturbed steps
(the interval timer keeps firing; database calls and handlers return — the code sets no time-out
on a handler, so a handler that never returns would block its replica) and of the passing of time.
`JobQueue` assumes the same of each worker and of back-offs. A claim that falls back is bounded by
`MaxAborts`, and the jobs it handed out are excluded from `JobsAreSettled`: two workers of which one
has not claimed the job can requeue it for each other for ever. `RequestPipeline` assumes that a
running handler goes on and that a free row lock is given to a waiting transaction. Neither
operators' replays, nor that clients call, nor the absence of errors is assumed.

### Disagreements found

* **Refund cap** (`FeeRefundRace`). The refund service states that refunds never exceed the
  payment, and checks it against the sum in its snapshot. A partial refund writes no payment
  header; when an earlier refund has already reversed every allocation (they are reversed
  whole), a later partial refund writes no versioned row at all, and two of them commit.
* **Claim ownership** (`OutboxOwnership`). The dispatcher's comment relies on
  `FOR UPDATE SKIP LOCKED`; `claimBatch` is plain Prisma calls, and a replica that loses the
  update is still returned the rows and dispatches them.
* **Retries** (`OutboxRetry`). `markFailed` schedules a next attempt, but only `pending` rows
  are ever selected. `OneAttemptPerRequest` gives the consequence: the dead-letter status is
  reached only by events that operators replay `MAX_ATTEMPTS - 1` times.
* **Chain siblings** (`ChainForks`). The chain service asks its implementation for a lock on the
  previous row; `compute` is a plain `findFirst`. Transactions that take a number first are ordered
  by the sequence's lock (`LinksAreSound` shows that it suffices); one that reads anything before
  it sees an old head.
* **First login** (`FirstLogin`). The handler registry keeps one handler per topic, and parents
  and students both register for the first-login event: one kind is never activated.
* **Second send** (`SentOnce`). The send job is meant to be a no-op once its message has left
  `QUEUED`; the retry of its versioned update stops only at final statuses, and `SENDING` is not
  one.
* **Holidays** (`HolidayCache`). A map described as kept per request is a field of a singleton
  and is never cleared.

Disagreements without a run of their own are told with the modules in section 3.

## 5. The proofs

`FeeCollectionProofs` proves, for any finite sets of invoices and payments, any requests and
periods, and any prices and amounts, under the four named assumptions of `FeeCollection`
(prices integers, fines and amounts positive, finitely many invoices and payments, null values
outside their sets):

| theorem | property |
|---|---|
| `InvariantHolds` | `Spec => []IInv` |
| `TypesHold` | `TypeOK` |
| `PlansAlwaysHold` | `PlansHold` |
| `BalanceAlwaysUnpaid` | `BalanceIsUnpaid` |
| `NeverBilledTwice` | `BilledOncePerPeriod` |
| `ReceiptsAlwaysMatch` | `ReceiptMatchesPayment` |
| `NeverCancelledAndRefunded` | `CancelledNeverRefunded` |

None of the five safety properties is inductive: they depend on what open transactions plan to
write. `PlansHold` says, of every open transaction, that *as long as the versions it read have
not moved* its plan was computed from the current rows. The interesting clause is that of a
receipt cancellation, which looks for refunds in its snapshot although a partial refund does not
write the payment header: it is safe because a cancellation writes every invoice with an active
allocation, and the first refund of a payment moves the version of at least one of them. The
proof has one lemma per action (a plan is sound when it is made) and a group of lemmas for
`Commit` (what commits keeps every other plan sound, because it moves the versions of what it
writes).

The second half of the module proves from it, under the same assumptions, that the money adds up:

| theorem | property |
|---|---|
| `MoneyInvariantHolds` | `Spec => []MoneyInv` |
| `PaidAlwaysAllocated` | `PaidIsAllocated` |
| `VoidNeverHoldsMoney` | `VoidHoldsNoMoney` |
| `SettledNeverHolds` | `SettledHoldsNothing` |
| `NeverPaysMoreThanDue` | `PaysNoMoreThanDue` |
| `LedgerAlwaysAgrees` | `LedgerAgrees` |

These properties compare columns that requests add to and subtract from with sums over other
rows, so `MoneyInv` adds to `IInv` *by how much* an open transaction will move the paid column
of each invoice it writes, as long as the version it read has not moved (`PlannedAmounts`):
what the capture or the verification allocates to it, or what the cancellation or the refund
takes back. For the sums to stay equal a commit must also leave no invoice out: a capture
allocates all its amount and, like a settlement, writes every invoice of its payment
(`CaptureIsComplete`, `SettlementIsComplete`); a refund takes back allocations, largest first,
until they cover its amount, or all there are (`RefundIsCovered`). Two facts about the rows
close the induction: a draft, void or deleted invoice has nothing paid (`UnpaidRows`), and the
allocations of a payment still in force are worth no more than what was not given back, and
exactly its amount while nothing was (`AllocationsCover`). A plan stays sound under the commits
of others because those move the versions of the rows it read. `LedgerAgrees` then follows by
adding up the table of what each payment holds of each invoice, by rows and by columns.

`SumTheory` states what the community operator `SumFunctionOnSet`, a fold over a finite set in an
unspecified order, computes: the sum over a set is a value plus the sum over the rest, whichever
value is taken first (`SumRemoves`), and from that sums of sums, differences in one value
(`SumMoves`), parts of a set, and the exchange of rows and columns (`SumSwaps`). Its induction over finite sets takes
the *set of the subsets* of which a fact holds as parameter, not an operator, and goes
through a counterexample of least cardinality.

`OutboxDispatcherProofs` proves, for any finite set of events, any replicas and timer callbacks,
any batch size, number of attempts, replays and aborts, under `DispatcherAssumption`:

| theorem | property |
|---|---|
| `InvariantHolds` | `Spec => []IInv` |
| `TypesHold` | `TypeOK` |
| `DeadAlwaysExhausted` | `DeadWasExhausted` |
| `DeliveredAlwaysHandled` | `DeliveredWasHandled` |
| `ClaimedAlwaysHeld` | `ClaimedIsHeld` |
| `AttemptsAlwaysRequested` | `OneAttemptPerRequest` |
| `ProcessAlwaysHoldsOnce` | `ProcessHoldsOnce` |

The dispatcher decides on copies, so the invariant is about copies: a copy of `attempts` never
runs ahead of its row (`CopiesLag`, hence a row is buried only when it was claimed often
enough); a tick that is to write a success has seen it (`SuccessWasHandled`); the event to be
settled is one of the batch (`EventIsHeld`); a process drains one tick at a time
(`OneTickDrains`); and a pending row has been claimed at most once per replay, one less than
any other row (`AttemptsRequested`), which is what makes the bound of `OneAttemptPerRequest`
survive the claim.

It also proves `DispatcherImplementsQueue`, that `OutboxDispatcher`'s `Spec` implements
`AtLeastOnceQueue` under the mapping of section 3: the initial states map to the initial state, and
each action maps to one action of the queue or a stutter. The one step that needs the invariant is
the settlement of a delivered event, which the queue allows only for a handled item
(`SuccessWasHandled`); beside it the proof needs that a tick holds copies of published events only
(`CopiesPublished`).

`JobQueueProofs` proves, for any jobs, replicas and operators, any batch size, number of attempts
and aborts, under `JobAssumption`:

| theorem | property |
|---|---|
| `InvariantHolds` | `Spec => []IInv` |
| `TypesHold` | `TypeOK` |
| `CompletedAlwaysRan` | `CompletedHasRun` |
| `DeadAlwaysBuried` | `DeadIsBuried` |
| `WorkAlwaysHeld` | `WorkIsHeld` |
| `LettersAlwaysExhausted` | `LetterWasExhausted` |
| `ReplayedAlwaysReplaced` | `ReplayedHasSuccessor` |

Its invariant follows one job through the writes of the pass that holds it: the copy of the
attempts lags behind the row; the success or the failure is on record before the write that
settles the job (`SuccessIsRecorded`, `FailureIsRecorded`), and the attempts are used up before
the job is buried; a job that is claimed or running is carried by a pass that is not past the
write that settles it (`WorkIsCarried`), unless a pass that held it was cut short; and a replay
creates the successor before it marks the letter (`MarkHasSuccessor`).

`RequestPipelineProofs` proves, for any finite set of requests, any keys and bodies and any requests
that read before they take their number, under `RequestAssumption`:

| theorem | property |
|---|---|
| `RequestInvariantHolds` | `RequestSpec => []IInv` |
| `RequestTypesHold` | `RequestTypeOK` |
| `NumbersAlwaysGapFree` | `NumbersAreGapFree` |
| `LinksAlwaysSound` | `LinksAreSound` |
| `SecondRunAlwaysExplained` | `SecondRunIsExplained` |

Three arguments meet in its invariant. *Numbers:* the lock on the sequence's row is held from the
allocation to the end of the transaction (`LockIsHeld`), who holds it has the next number and
who does not and has not committed has none (`NumbersFollow`); so the numbers of the committed
requests are `1..last` without a gap, and a rollback gives its number back before anybody
else can take one. *Trail:* because of that lock at most one audit row is uncommitted and it is
the last one (`TrailIsOrdered`); a transaction whose snapshot begins at the allocation therefore
links to the row before its own, and any other at least to a committed row (`LinksFollow`). That two
such rows never share a predecessor then follows, although requests that read first do fork
the chain. *Keys:* a reservation is a row of its own request, made after its look-up and lost
only by a client that hangs up (`KeysAreReserved`), so a request that passes its look-up finds that
every reservation under its key was deleted by a hang-up or has lapsed, and neither is undone later.

`PlatformBillingProofs` proves, for any finite sets of invoices, payments, refunds, notes and
adjustments and any amounts, under `BillingAssumption`:

| theorem | property |
|---|---|
| `BillingInvariantHolds` | `BillingSpec => []BillingInv` |
| `BillingTypesHold` | `BillingTypeOK` |
| `MoneyAlwaysAgrees` | `MoneyAgrees` |

`MoneyAgrees` relates seven columns that the operations increment (paid and refunded of invoice
and account, the credit balance, what a payment gave back, its status) with sums over other
rows. Every action moves at most one addend of each sum, by what it adds to the column
(`SumMoves`), or none (`CreditsStay`, `BalanceStays`, `RefundsStay`). For that the invariant must know
that a row counts only from the action that makes it count: a payment is approved once and is
pending before, a refund belongs to a payment that was approved, an adjustment that is not there
has no amount (`RowsBegin`).

`PlatformProofs` proves, about `PlatformSpec`, for any values of the constants, under
`PlatformAssumption`, `BillingAssumption` and `JobAssumption`:

| theorem | property |
|---|---|
| `TypesAlwaysOK` | `TypesOK` |
| `JobsAlwaysTrue` | `JobsAreTrue` |
| `UnsentAlwaysCarried` | `UnsentIsCarried` |
| `CancelledNeverSent` | `CancelledIsNeverSent`, an action property |
| `FlagsAlwaysExplained` | `FlagsAreExplained` |
| `LimitsAlwaysHold` | `LimitsHold` |
| `LapsesAlwaysDue` | `LapsesWhenDue`, an action property |
| `ArrivalsAlwaysExplained` | `ArrivalsAreExplained` |

In a step of the platform each component takes a step of its own or stands still (`ComponentsStep`),
so the proof has one inductive invariant per component:

* *scheduler* (`SchedulerInv`): one tick at most is under way, it began no later than now and after
  everything that has fired, and what has fired and `lastFired` does not cover is a minute
  whose enqueueing threw after it took effect;
* *delivery* (`DeliveryInv`): the version a handler has read lags behind the row, and is not that of
  a final status (`VersionsLag`); who goes on has attempts left (`AttemptsLeft`); nobody has begun to
  send a message that is still queued or is cancelled (`NobodyHasBegun`), from which
  `CancelledIsNeverSent` follows;
* *flags* (`FlagInv`): unless a change is between its writes and its event, every cache that did not
  miss an event, and every evaluation that was not overtaken, agrees with the tables (`CachesAreTrue`,
  `ReadersAreTrue`); an override that is gone is being replaced, or the replacement was torn
  (`ReplacementUnderWay`);
* *quota* (`QuotaInv`): a dispatch whose version of the row still holds sees as it is whether the
  period has ended, and nobody creates messages of a period to come (`QuotaLinks`);
* *usage* (`UsageInv`): the counter is the sum over the rows that count — a file counts from before
  its upload to after its release, also while the request that owes the release is under way
  (`CountsAdd`, `ReleasedOnce`); a request that creates is alone with its row (`RowsFollow`);
* *plans* (`PlanInv`): what the daily scan has listed and not yet tried is as it was when it was
  listed (`ListedStays`);
* *school* (`SchoolInv`): what a request or the expiry job has read is of an older version or still
  true (`RequestsHaveRead`, `ScansHaveRead`), and how far a provisioning attempt has come says what
  the journal and the tables show (`AttemptsAreKnown`);
* *portal* (`PortalInv`): tokens, redemptions and first-login events belong to users who exist and are
  linked (`HoldersAreKnown`, `LoginsAreKnown`, `UsersAreLinked`), and a handler's copy of a link is
  pending unless its version has moved.

Billing and the job queue contribute the invariants of their own modules.

`RecordsProofs` proves, about `RecordsSpec`, for any sizes of its components, under
`RecordsAssumption`:

| theorem | property |
|---|---|
| `RecordsAlwaysHold` | `RecordsSpec => []RecordsInv` |
| `RecordTypesAlwaysOK` | `RecordTypesOK` |
| `TimesAlwaysAgree` | `TimesAgree` |
| `EventAlwaysAddsUp` | `EventAddsUp` |
| `EditsAlwaysTraced` | `EditsAreTraced` |
| `CourseworkAlwaysAddsUp` | `CourseworkAddsUp` |
| `BatchesAlwaysTrue` | `BatchesAreTrue` |
| `PlacesAlwaysExplained` | `PlacesAreExplained` |

The assumption asks of a size what its code gives: days are integers, capacities and marks are
natural numbers, the sets that a property counts are finite, a bound is a natural number, the
value that stands for an absent row is not one of the rows, the targets of a promotion are a list
of students (who may be named twice: nothing removes duplicates), and its two places differ, as the
executor checks. A size may be of any number of students, rows, requests and workers.

Ten inductive invariants, each with the lemmas *begins* (initial states have it), *keeps* (steps of
the component keep it) and *shows* (it implies the properties), are put side by side by
`RunningSteps`: in a step the component that runs takes a step of its own or stands still.

* *years* (`YearInv`): the days that a request has compared and nobody overtook are still free
  (`DaysAreFree`), so a row that meets another was written by a request that knows it was overtaken;
  the demotion and the new current year are one step (`OneYearIsCurrent`).
* *timetables* (`TimetableInv`): what a handler read of the entry it writes is still there, nobody
  fills the same entry (`FillsAreApart`), and, unless it was overtaken, its row stays in place or
  has a teacher who is nowhere else, and its loads are those of the rows *after* its write
  (`PlanHolds`). A write in place changes no booking, so a pair that is double-booked keeps the entry
  that the race put there. A count of lessons then changes by one for the
  teacher who gains or loses the entry and for nobody else.
* *events* (`EventInv`): a seat is approved exactly where registration needs it and the event is on
  (`ApprovalsAreSeats`), a request that is to withdraw a row knows its status, a registration that was
  not overtaken has seen room (`VisitHolds`). Each action moves one seat in or out of the set that
  the mode counts, and the counter with it; where approvals are never counted the counter is what
  withdrawals took below zero.
* *marks* (`MarkInv`): each history is a chain from nothing to the value of the row (`TrailOf`), a request
  that saw a mark still sees it as long as the version holds, and a computation that nobody
  overtook replaces the rows it read (`TeacherHolds`).
* *attendance* (`RollInv`): the history of a day is a chain to its status, with exactly one row per
  approved correction and no other once the day is closed (`LogOf`); a request's copy of a row is the row
  (`RegistrarHolds`).
* *imports* (`ImportInv`): rows are written only by those who took the second job (`WritesAreLate`);
  while it was taken once and nothing broke, what its taker has in hand is what the batches
  say (`OneTakeIsTrue`); the usage counter is the number of rows inserted less those that were refused
  after the insert (`RowsAreCounted`).
* *syllabus* (`PlanInv`): the properties with their types are inductive, since a recount carries the snapshot
  it counts.
* *assignments* (`PaperInv`): the counters are the sizes of three sets that include the transactions between
  a row's write and the increment (`PapersCounted`), and two such transactions never have one
  student (`PapersHold`).
* *places* (`PlacementInv`): a look that is valid and not overtaken still finds the number free
  (`LooksHold`); a pass knows how many targets it promoted, and two workers never share one
  (`PassesCount`); a student who is where promotions start has been promoted at most as often as
  somebody moved him (`MovesAllow`).
* *reports* (`ReportInv`): takes are numbered and one worker's (`TakesAreKnown`), only one worker ever leaves
  the start, and until it is done the requester is told nothing (`OneEverWorks`); a file is the run's, a
  worker's, or was cut off or refused (`FilesAreKnown`).

With this every safety property of a passing run is proved. What stays with TLC: the liveness
properties `PendingIsSettled`, `JobsAreSettled` and `EveryoneIsAnswered`, because the prover does not
reason about fairness; and everything that a run refutes.

## 6. Not modelled

* The arithmetic of prices, discounts, fines, taxes, grades and percentages; the text and layout
  of ledgers, receipts, reports and mails.
* Tenant separation, permissions, authentication and sessions: every model is of one tenant whose
  callers are allowed; sign-in belongs to a review of its own.
* Gateway checkout and webhooks of fees (stubs in the code).
* Configuration records without rules between rows (structures, heads, templates, rooms, houses,
  branches, preferences), the listing and export of anything, object storage, the web frontend.
* What the notes of `PROJECT.json` name for each component that is only partly modelled.
