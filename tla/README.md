# SMS-first agent: verification project

TLA+ specifications, TLC runs and TLAPS proofs for the SMS agent in this
repository. Paths below are relative to `src/`.

## 1. Inventory

The program reminds the customers of small businesses of what they owe. Beat
starts Celery tasks; they share a PostgreSQL database (READ COMMITTED) and a
Redis. FastAPI receives webhooks and serves an admin API. Every SMS is a row of
`outbound_messages` (the *transactional outbox*) before it is sent.

| component | state it keeps | operations | talks to | hard behaviour | correct when |
|---|---|---|---|---|---|
| outbox, send worker (`domain/outbox.py`, `workers/sends.py`) | `outbound_messages` | poll, claim, gates, send, transition, commit | database, SMS adapter, policy | concurrent batches, crash before the only commit, ambiguous answers | one sender per message, bounded submissions, no duplicate without a crash |
| delivery reconciliation (`workers/reconciliation.py`, `domain/reconciliation_service.py`) | the same rows | select UNKNOWN_DELIVERY, query the provider, overwrite | database, SMS adapter | rows selected without a lock, slow query in between | an outcome once known is never undone; ambiguity ends |
| delivery webhooks (`api/webhooks/africas_talking.py`, `twilio.py`) | the same rows, `delivery_callbacks` | record a report | provider | repeated, late, reordered reports | success is never invented |
| SMS adapters (`adapters/`) | none | `send`, `query_delivery` | provider | timeouts, providers that cannot be queried | `not_found` only when there is nothing |
| payments (`domain/transaction_service.py`, `domain/reconciliation_service.py`, `domain/mpesa_service.py`, `workers/mpesa_reconciliation.py`, `api/webhooks/mpesa.py`) | `transactions`, `payments`, `mpesa_payments`, pending reminders | record, match, link, confirm, suppress reminders, change a status by hand | database, connectors, M-Pesa | lost updates, check-then-insert, repeated records, deadlocks | money is counted once, to one transaction |
| connectors (`adapters/csv_connector.py`, `connector_factory.py`) | a checkpoint | read CSV records | files | the same record again on every run | a record is recorded once |
| reminders, dispatch (`domain/reminder_service.py`, `dispatch_service.py`, `workers/reminders.py`) | outbox rows | load, build candidates, suppress, insert | database | a transaction that changes between the steps, several runs a day | one reminder of a kind a day; late notices until the debt is settled |
| campaigns (`domain/campaign_service.py`, `workers/campaigns.py`) | campaign status, PROMO rows | start what is due, pause, complete | database | hourly runs that overlap, staff in between | staff is obeyed; one failure does not stop the others |
| inbound SMS (`workers/inbound.py`, `receive_sms`) | the row, consent, replies | store, parse, dispatch, reply | database, Celery | worker deaths, an exception in a branch | processed means answered |
| credit terms (`domain/credit_terms_service.py`) | requests | create, approve, deny, resolve | staff | two staff members at once | status graph; an overdue request stays on the list |
| policy, quiet hours (`domain/policy_service.py`, `quiet_hours.py`) | policy row and its Redis copy | load, save, ask | Redis, database | a stale cache fill, windows across midnight | a saved policy is used; a message waits for the end of the night and no longer |
| circuit breaker, rate limiter (`infra/`) | Redis keys | admit, record | Redis | several commands per operation, deaths between them | an open circuit closes again; windows end |
| connectivity (`infra/connectivity_watcher.py`) | a flag in Redis | ping, set the flag | network, audit | overlapping watchers | the flag is what a ping found |
| retention, alerting (`domain/retention.py`, `alerting.py`, `workers/maintenance.py`) | old rows; none | delete and log; count and alert | database, SMS adapter | rows that change between two statements, deaths | nothing unsettled is purged; a failure rate is reported |
| backup (`infra/backup.py`, `scripts/backup.py`) | a directory of files | dump, write, prune | disk | torn files, failed deletions, redelivery | a whole backup survives every prune |
| dead letters, audit, templates, masking, settings, admin API, scripts | - | formatting, I/O | - | - | not modelled, see 6 |

The hazards of this code, each at its line, are the `hazards` of `PROJECT.json`.

Some callers in the repository cannot complete as they stand. The models keep to
what the code does then: the exception is an action, with the rollback it
causes; section 7 lists what the documents say instead.

- `AuditContext(business_id=...)` is a TypeError (the dataclass has `school_id`):
  `process_mpesa_payment`, the STOP and EXTENSION branches, suppressed reminders,
  campaigns and `save_policy` raise there. The audit call of the send loop comes
  after the outcome was flushed, and the loop swallows it.
- `log_audit_event` passes `school_id` to `AuditEvent`, which has no such
  column: callers that get that far (the connectivity watcher, alerts, purges)
  raise there.
- `insert_outbox_messages` calls `on_conflict_do_nothing` on
  `sqlalchemy.insert`, which does not have it: every non-empty insert of
  reminders or campaign messages raises.
- `receive_sms` and `c2b_confirmation` build rows with columns the models do not
  have; `CSVConnector.get_checkpoint` reads `business.crm_config`, a column that
  does not exist.

## 2. Plan

Done, in this order: **Outbox** with its abstract `MessageLifecycle`;
**Payments** with its abstract `Ledger`; **CircuitBreaker**, **RateLimiter**,
**PolicyCache**, one action per Redis command; **Inbound**; **Reminders**,
**Campaigns**, **Retention**, **Alerts**; **CreditTerms**, **QuietHours**;
**Backups**, **Connectivity**; **MCServices** and **MCWorkers**, which put the
smaller modules under one run each. The proofs, in the order of section 5: the
outbox, the payments, the services, the tasks, the backups. Every safety
property that a passing run checks is now a theorem, and so are both refinements.

What is left: the theorems about credits assume that polls do not overlap. The
same facts about what services, webhooks and tasks do hold with overlapping polls
for the payments no poll takes up; to be stated and proved per M-Pesa payment. The
lifecycle without webhooks could be split, so that a report may follow SENT.

Modules declare no RECURSIVE operator, constants carry named assumptions, and
what TLC checks as an invariant is the very formula that is proved.

## 3. The modules

### MessageLifecycle (abstract)

One variable, the committed status of each message, and one action: a commit
moves some messages along the documented edges (`OutboxService.VALID_TRANSITIONS`
and the diagram of `MessageStatus`), at most two edges per commit, since the
send worker claims and concludes in one transaction. `Outbox` is checked to
implement it with `status <- [m \in Messages |-> row[m].status]`.

### Outbox

| TLA+ | code |
|---|---|
| `row` | committed columns `status`, `retry_count`, `provider_message_id`, `sent_at` of `outbound_messages` |
| `image`, `lock` | what the session holding the row lock has flushed; the row lock itself |
| `pc`, `todo`, `cur`, `resp` | control point, rest of the batch, current message and provider answer of each task execution |
| `seen` | `retry_count` as the reconciliation loaded it: the ORM writes `seen + 1` |
| `report`, `callbacks` | a webhook call in progress; `delivery_callbacks` |
| `calls`, `accepted`, `reports` | the provider: requests, SMS made of them, final reports |
| `called`, `lost`, `aborts` | history: calls of the open transaction, calls rolled back, bound on crashes |
| `PollPending` | `poll_pending`, FOR UPDATE SKIP LOCKED |
| `DropContact`, `Defer`, `FailBeforeCall`, `PassGates` | the loop body up to the call: claim plus contact check, quiet hours or budget, swallowed exception, all gates passed |
| `CallProvider`, `TransitionStatus`, `CommitBatch` | `adapter.send`, the outcome branch with the audit call, the one commit |
| `GetUnknownDeliveries`, `QueryDelivery`, `ReconcileUnknownDelivery`, `CommitReconciled` | `reconcile_unknown_deliveries` |
| `SelectReminders`, `SuppressReminder`, `CommitSuppressed`, `RollBackSuppressed` | the suppression in `poll_payment_updates` and `process_mpesa_payment` |
| `ReceiveReport`, `RecordReport`, `RejectDuplicateReport` | the delivery webhooks |
| `Abort` | worker lost, hard time limit, failed commit, deadlock victim; acks_late redelivers |

A session reads committed rows, keeps its writes to itself, and an UPDATE waits
for the row lock. `Update` writes with no condition on the status that was read,
as the ORM does. What the provider does is external: each call becomes an SMS or
not, and `Answers` says what the adapter may then report. `Adapter` selects the
query: `"africas_talking"` (never an answer), `"twilio"` (may miss a message it
has), `"contract"` (what `sms_adapter.py` asks of an adapter).

Payers: `CommitSuppressed` is what Part A of `_async_poll_payments` does with a
connector that keeps to `crm_connector.py`. The shipped `CSVConnector` raises
earlier and M-Pesa payers (`MpesaPayers`) roll back, so today the suppression is
never committed; the properties hold with both.

Abstracted: one business and one day; message text, cost and segments (every SMS
costs one unit of the budget); `scheduled_at` and the age threshold of the
reconciliation, which are the choice of any batch; unmapped report statuses,
which only insert a callback.

### OutboxInvariants, OutboxProofs, OutboxOutcomeProofs, OutboxLifecycleProofs, MCOutbox

`OutboxInvariants` holds the inductive invariant, the three modules of proofs the
theorems (claims, retries and duplicates; outcomes; lifecycle and budget),
`MCOutbox` the symmetry set for TLC.

### Ledger (abstract), Payments, PaymentsInvariants, PaymentsProofs, MCPayments

`Ledger` is the promise: a payment is credited to one transaction, once, and
stays there. `Payments` implements it (`ImplementsLedger`) with the committed
`payments` mapped to `credited`, as long as no two polls are under way at once.
A member of `Polls` or `Staff` is one execution, which does not start again; the
hourly poll and its retries are several members, one after the other.

| TLA+ | code |
|---|---|
| `txn`, `mpesa`, `payments`, `confirmed` | committed `transactions`, `mpesa_payments.matched_transaction_id`, `payments`, confirmation rows of the outbox |
| `image`, `mpesaImage`, `lock` | rows as the session holding their lock sees them, as in `Outbox` |
| `loaded`, `tgt`, `cur` | the ORM object a session computes from, and what it is about |
| `StartService`, `InsertMpesa`, `RejectDuplicateRef` | the dedup SELECT of `match_incoming_payment` and `process_stk_callback`, and the INSERT with its unique key |
| `FindMatch`, `CheckExisting`, `RecordPayment`, `Link` | `_find_matching_transaction` with its three strategies, `reconcile_payment`, `record_payment`, the link and `_send_confirmation_sms` |
| `StartPoll`, `SyncRecord`, `SelectUnmatched`, `NextUnmatched`, `EndPoll` | the two parts of `_async_poll_payments` |
| `ConfirmDuplicate`, `ConfirmFails`, `StartMpesaTask`, `FailTask` | the webhook handlers, `process_mpesa_payment` |
| `LoadForStatus`, `UpdateStatus`, `RejectStatus` | `update_status`, `mark_paid` |
| `DeadlockVictim`, `Abort` | PostgreSQL ends one of two sessions that wait for each other; a worker dies |

`Written` is the ORM's UPDATE: the columns whose value differs from the one
loaded, the others keep what another session committed meanwhile. All lost
updates come from there. `match_incoming_payment` and `process_stk_callback`
have no caller but tests in the repository; a service here is a caller that runs
them in a session of its own. `Connector` is the connector of the business:
`"registered"` (csv, pos), `"unregistered"` (the poll goes on with M-Pesa) or
`"conforming"`, one that does what `crm_connector.py` asks. `PaymentsInvariants`
holds the inductive invariant, which the run checks too.

### CircuitBreaker, RateLimiter, PolicyCache

Redis clients, one action per awaited command; a pipeline is one action, being
MULTI/EXEC. `CircuitBreaker`: `GetState`, the look at `opened_at`, the outcome
and the commands of `record_success` and `record_failure`; nothing in the
repository calls the breaker, a caller follows its usage example. `RateLimiter`:
`Incr`, `Expire` and the answer, with `admitted` as history of the window.
`PolicyCache`: `CacheHit`, `CacheMiss`, `QueryBusiness` and the fill of
`load_policy`; `save_policy`, which commits and raises before it deletes the
key. Failing Redis commands and dying processes are faults with a bound. Counters
are counted up to where the code stops telling them apart (the threshold, one
past the limit, the cooldown).

### Inbound

A run of `process_inbound_message` is one session: `Parse`, then `Dispatch` or
`DispatchRaises`, then `Ack`; `Die` gives the task to another worker
(`task_acks_late`). `ParseIntent` keeps the order of `KEYWORD_PATTERNS`; a text
is the keyword it is and the keywords found in it. `ReceiveSms` is the handler as
it is, which stores nothing; `Ingest` is the row and the task it is to create,
external, so that the worker can be examined at all.

### Reminders, Campaigns

`Reminders`: one run loads the open transactions, builds the candidates, drops
those without consent and hands the rest to the insert, each a step, while
payments and consent change. `offered` remembers every candidate handed to the
insert, which raises: what is checked is the list the code builds, not the rows
it never writes. `Campaigns`: overlapping hourly runs, each with a session per
campaign, against `schedule`, `pause`, `cancel` and `complete_campaign`.

### CreditTerms, QuietHours

`CreditTerms`: a member of staff loads a request, decides on the copy, and the
UPDATE does not look again. `QuietHours`: `IsWithinQuietHours` and
`NextAllowedSendTime` of `quiet_hours.py`, `IsQuietHours` of `policy_service.py`, and
the gate of the send worker with the hour of UTC, in half-hour slots.

### Alerts, Retention

`Alerts`: two counts, then the alert, then the audit event that raises, with
rows that change between the counts and a worker that may die. `Retention`: the
four deletes of one session, the log that raises, the report that follows. No purge
that deletes a row is ever committed, so there is no property to state of what is
gone: the module is type-checked, and what is wrong is in section 7.

### Backups, BackupsProofs

A night is `StartJob`, `Dump`, `Write`, the cleanup that chooses what to delete
and one `unlink` per step. A file has its mtime, its day and whether it is whole.
Faults: a dump that fails, a torn write, a failing unlink, a death, after which
Celery delivers the job again. `Job` chooses the Celery task or the sidecar,
which prunes even when its dump failed; `Key` the kind of encryption key.

### Connectivity

The watcher reads the flag, pings, writes and logs, where it raises; watchers
may overlap. Nothing schedules it (the task Beat starts is another one, which sets
no flag), so nothing is assumed of when it runs: `FlagIsAnAnswer` says that the
flag is never older than every watcher's answer. The send worker is here with what
a call without a network leaves behind, which is why the flag matters.

### MCServices, MCWorkers

The services share no state with each other in these models, nor do the tasks.
`MCServices` (breaker, limiter, policy, connectivity, quiet hours, terms) and
`MCWorkers` (backups, inbound, reminders, campaigns, alerts, retention)
therefore compose them as a sum: a variable `part`, fixed at the start, says
which module works, and the others stand still in one state. The state spaces
add up, every interleaving *within* a part is there, and one run checks them
all. The limiter occurs twice, once without deaths (`"limiter, no death"`,
where letting in again can be asked). Limits, windows, thresholds and bounds are
CONSTANTS that the cfg gives values to, so that the theorems of `ServicesProofs`
and `WorkersProofs` hold for all of them. `SumProofs` has the lemmas about
`MapThenSumSet` that the limiter and the payments rest on. Where components do
share rows they are one module: senders, reconciliation, webhooks and payers in
`Outbox`, services, webhooks, polls, tasks and staff in `Payments`.

## 4. The runs

| run | instance | shows |
|---|---|---|
| `outbox_core` | 2 messages, 2 senders, 1 reconciliation, 1 M-Pesa payment, 1 crash, 2 retries | `TypeOK`, `ClaimExclusive`, `RetryBudget`, `DuplicatesNeedACrash`; `Outbox` implements `MessageLifecycle` |
| `outbox_all` | 1 message, 2 senders, 1 reconciliation, 1 payment that suppresses, 2 webhook calls, 2 crashes, fair | the invariant of the proofs, `SentWasAccepted`, `DeliveredWasReported`, `NoResendFromSent`; the outbox drains (`PendingDrains`) |
| `outbox_budget` | 4 messages, 2 senders, batches of 2, budget 1 | overspending happens and is bounded by the other batch |
| `payments` | 2 transactions that appear at any time, 2 M-Pesa payments, 1 CRM record, 1 crash; the tasks of `MCTogether` | each payment credited once, to one transaction, with its link and SMS (`Payments` implements `Ledger`); no invented money; the invariant of the proofs |
| `services` | 3 callers of the breaker (threshold 2, cooldown 2), 3 requests (limit 2, window 3), 2 readers and 2 saves, 2 watchers, every half hour of 16 windows, 2 requests for terms and 2 members of staff | see `MCServices.cfg` |
| `workers` | 8 nights with 2 faults; 2 messages, 1 crash; 3 days; 2 campaigns, 2 workers; 4 messages in an alert; 2 rows | see `MCWorkers.cfg` |
| `crash_duplicates` | violation | "no customer ever receives the same message twice, even across crashes" |
| `ambiguity_for_ever` | violation, fair | with the Africa's Talking adapter an ambiguous message is queried for ever: "the reconciliation loop will eventually time out" |
| `overlapping_reconciliations` | violation | SENT goes back to PENDING when reconciliation overlaps itself |
| `twilio_resend` | violation | without a crash, `not_found` of the Twilio adapter duplicates an SMS |
| `lost_payment` | violation | of two payments at once one is lost from `amount_paid` |
| `inbound_stop` | violation | a STOP leaves the contact opted in |

Why the bounds are enough. The hazards are races for one row, so one or two
messages suffice, two where a batch must hold one row while it works on another.
Two senders compete; a third would only repeat one of them, and the theorems
cover any number. Two retries reach the limit from both sides (one below, at).
One or two crashes separate "before the call" from "after the call"; more repeat
these. The budget run needs two full batches, hence four messages.

`payments`: two transactions and payments, so that a payment can go to the wrong
one and two sessions can hold one row each and want the other's (TLC reaches the
deadlock, which needs a transaction created between two matches). The tasks that
happen together are `MCTogether`: one payment delivered to both services, with
the task, with two polls or with two members of staff; two payments with two polls
and the task; a payment with its webhook, the poll and two members of staff. Two
polls or two members of staff are there one after the other, in either order
(`ApartSpec`): a second poll finds what the first has recorded, and two changes of
status follow each other. Two polls at once make `CreditedOnce` false (section 7),
two members of staff at once `NoMoneyInvented` (section 5); of three in a row each
only sees what is committed, as the second does, and any number is proved.
`NoMoneyInvented` excepts a transaction staff marked PAID, which then shows
exactly its full amount.

`services`: threshold, limit, window and cooldown are small numbers with a value
below, at and past each; three callers, since the third sees what two others
left between their commands. `QuietHours` has windows within a day, across
midnight, with equal ends, and 48 times a day. `workers`: `Backups` prunes with
2 + 1 files over 8 nights of 3-day weeks, enough for files to become weekly and
to go; that 7 + 4 files and weeks of seven days are no different is proved. One crash per part separates before from
after each commit. `CHECK_DEADLOCK FALSE`: the system stops when everything has
settled, and the parts without work stand still.

Fairness (`LiveSpec` of `Outbox`, in `outbox_all` and `ambiguity_for_ever`). Beat
starts the send task every two minutes and the reconciliation every five and
Docker restarts the workers, so a task that can go on does (`WF` on the steps of
each task; of a payment, once it has begun). Quiet hours end every morning and
the budget is renewed every day (`SF` on `PassGates`). Nothing is assumed of
crashes, webhooks, the provider's answers or the fate of an SMS; an ambiguous
outcome therefore need not be resolved, and with the Africa's Talking adapter it
never is, whatever is assumed.

`payments`: no fairness, safety only. `services`: time passes, Beat runs the send
task, readers go on asking, callers go on calling and a command that was issued
is answered; deaths, outages, saves, staff and the watcher, which nothing
schedules, are not fair. `workers`: Celery delivers a queued or redelivered task
(`task_acks_late`), Beat starts the reminders, the hourly campaigns and the alert
check; messages, staff and faults are not fair.

## 5. The proofs

Every invariant and action property of the passing runs, and both refinements,
are theorems for every value of the constants that the named assumptions of the
modules admit. Further assumptions are hypotheses of the theorem that needs them;
each is named below with what breaks without it.

### The outbox

`OutboxProofs`, `OutboxOutcomeProofs`, `OutboxLifecycleProofs`:

| theorem | property | assumes |
|---|---|---|
| `TypeCorrect` | `TypeOK` | - |
| `ClaimsAreExclusive` | `ClaimExclusive` | - (reconciliations may overlap) |
| `RetryBudgetHolds` | `RetryBudget` | `OneReconciler` |
| `NoDuplicatesWithoutCrash` | `DuplicatesNeedACrash` | `OneReconciler`, not the Twilio adapter |
| `NoResend` | `NoResendFromSent` | `OneReconciler` |
| `SuccessIsTheProviders` | `SentWasAccepted` | - (every adapter, crashes, overlaps) |
| `DeliveriesWereReported` | `DeliveredWasReported` | - |
| `OutboxInvariant` | `InductiveInvariant` | `OneReconciler`, not the Twilio adapter |
| `LifecycleRefinement` | `ImplementsLifecycle` | `LifecycleWriters` |
| `BudgetHolds` | `BudgetOvershoot` | `OnlySendersSpend` |

`OneReconciler`: the reconciliation does not overlap itself; the run
`overlapping_reconciliations` shows a second one writing its old "not_found" over
what the first one committed. The run `twilio_resend` shows why not Twilio.
`LifecycleWriters`: one reconciliation, no webhook, only M-Pesa payers. A late
"Sent" report goes from DELIVERED to SENT (section 7), and a suppression that
commits, which no shipped connector gets to, writes over a message its sender has
just concluded.
`OnlySendersSpend`: finitely many messages and senders, and neither report nor
reconciliation: both make FAILED or UNKNOWN_DELIVERY rows count as sent without
looking at the budget.

The properties are not inductive: they speak of committed rows, the danger is in
what a session holds uncommitted. The invariant says what each lock protects.
`ClaimsOK`: a row without a lock has no image, and a row a sender holds is
committed PENDING with retries left and unchanged `retry_count`. `SelectionsOK`:
a row the reconciliation has selected and not yet written is not PENDING, so no
sender can take it, and its `retry_count` is still the one selected (this is
what a second reconciliation breaks). `CallsOK` and `SmsOK` are the accounts:
a PENDING row whose call is not in flight has had at most `lost + retry_count`
calls, and at most `lost` SMS. `BackedOK` says of every row, image, answer and
report in hand what the provider did to back it. `IdsOK` keeps the delivery
reports away from rows that may still be sent: such a row has no
`provider_message_id`, so no webhook finds it, and a row the reconciliation has
in hand stays UNKNOWN_DELIVERY, or SUPPRESSED. `LifeOK` adds what a sender and
the reconciliation leave in an image; a commit then takes at most the two edges
`MessageLifecycle` allows. `BudgetOK` counts the rows spent, committed or in
hands: a sender that looks at the budget sees all but what the batches of the
others hold, and those are at most `BatchSize` each.

### Payments

`PaymentsProofs`, on `PaymentsInvariants`:

| theorem | property | assumes |
|---|---|---|
| `PaymentsInvariant` | `InductiveInvariant` | `PollsApart`, `StaffApart` |
| `CreditIsUnique` | `CreditedOnce` | `PollsApart` |
| `CreditIsConfirmed` | `ConfirmedIffCredited` | `PollsApart` |
| `LedgerRefinement` | `ImplementsLedger` | `PollsApart` |
| `MoneyIsNotInvented` | `NoMoneyInvented` | `StaffApart` |
| `MoneyIsCovered` | `PaidIsCovered` | - |

The assumptions are about the behaviour, `[]PollsApart` and `[]StaffApart`: no two
polls, or members of staff, are under way in the same state. There may be any
number of either, one after the other, as the hourly schedule with a retry has it
and as staff works: the constants `Polls` and `Staff` are any sets. `PollsApart`:
two polls that overlap both find no payment of a reference and record it twice
(section 7). `StaffApart`: of two members of staff that loaded a transaction, one
marks it PAID in full and the other's old status then replaces PAID, while
`amount_paid` stays; `MoneyIsCovered` is what is left then: money that was not
received shows only where somebody marked the transaction, and in full. Nothing
is assumed of services, webhooks, tasks, deaths and deadlocks, and nothing of
polls where money is concerned.

`CreditInvariant` follows each session through the three writes that make a
credit (payment record, link, confirmation). Of a payment a session is
`Untouched`, `Noted` or `Complete`, by its control point, and what is committed
of it stays `Before(w)` until the session ends. What makes that so differs:
`ServiceOK`, a service holds the unique key of the row it inserts; `PollOK`, a
poll that has not begun or has ended has nothing selected or locked, and the rows
the one under way has selected and not reached are unmatched and untouched.
`MoneyInvariant` bounds `amount_paid`, which sessions compute from old copies:
the committed row is covered by the committed payments, the row under a lock by
those its holder sees, and the copy loaded before a payment is recorded by the
same (`CoveredOK`). A lost update only lowers the row, and a session adds a
payment it has not added before (`FreshOK`), so no payment pays twice. What staff
does is the parameter of the invariant: always, a row that shows more is marked;
while staff is apart, also that the mark is still the status or the row is covered
(`MarkingOK`, `LookedOK`).

### The services

`ServicesProofs`, of `ServicesSpec` and, for the breaker, of its own `Spec`: any
callers, requests, readers, watchers and staff, any limits and bounds.

- `TypeCorrect`, of the breaker, whatever commands of other callers come between
  two of one.
- `ServicesTypeCorrect` (`ServicesTypeOK`). No key of the limiter admits more
  than the limit only because what was admitted in this second was counted in the
  key there is now (`LimiterOK`).
- `FlagIsSomeAnswer` (`FlagIsAnAnswer`): a watcher writes what its ping found before
  its audit event can raise, so the flag is the answer of the one that wrote last,
  and that one is about to write again once it has pinged anew.
- `BurstIsBounded` (`BurstBound`). The admissions of the last `window_seconds`
  are split at some second `d`: the later ones were counted by the present key,
  the earlier ones by one before it. There is no third, as a key outlives the
  seconds it was counted in (`WindowsOK`: `d + ttl > window_seconds`); a key that
  lost its EXPIRE never goes away.
- `DeferralIsExact` (`NextAllowedIsFirst`), for every window, hour and offset of
  local time, by the days and slots of a moment and cases on which side of
  midnight the window begins.
- `OverdueStaysListed` (`OverdueUntilDecided`): a decision on an old copy may
  overwrite another decision, but a copy that says decided was taken of a request
  that is (`SeenDecided`), so only those are closed.

### The tasks

`WorkersProofs`, of `WorkersSpec`, for any messages, texts, due dates, campaigns,
rows and bounds:

- `WorkersTypeCorrect` (`WorkersTypeOK`).
- `ProcessedMeansAnswered` (`ProcessedIffAnswered`), `SecondReplyNeedsACrash`
  (`AnsweredTwiceNeedsACrash`): `ReplyOK` ties row, task and replies of a message
  together; a task that may still commit has had one reply for each death at most.
- `OneReminderOnADay` (`OneReminderADay`): a key carries the due date of its row,
  and with one due date and one day only one kind of reminder is due.
- `RateStaysAFraction` (`RateIsAFraction`): failures are counted first and no
  failed row leaves the outcomes, unless it is reopened.

### The backups

`BackupsProofs`, for any retention counts, weeks and faults:

- `LastBackupIsKept` (`WorkingBackup`), as long as `Job` is the worker's. A prune
  deletes one file after the other: `Survives` says that when a prune starts the
  newest file is whole, since only a job whose dump was written gets there, and
  that while it deletes some whole file is not on its list (`NewestKept`). The
  sidecar prunes after a failed dump too; there it is false (section 7).
- `RecoveryPointsAreKept` (`RecoveryPoints`), for both jobs. While every file is
  whole and the only one of its day, files have the order of their days
  (`Faithful`); a day that is among the newest still was so at every earlier
  prune (`NewestInFewer`), so no prune chose its file. Torn files and second
  files of a day take places (section 7): the property excepts them.
- `DirectoryIsBounded` (`TypeOK`): the files to keep, today's and one more for
  each fault.

### Sums

`amount_paid` and the burst are sums over sets (`MapThenSumSet`, a fold). What is
needed of them (the sum of a set with one element more, of a part, of two halves,
of a window moved by a second) is proved in `SumProofs`. Induction over the set
is not at hand: a set of least size that breaks the lemma is shown not to exist.

### What is only model-checked

Liveness under fairness, beyond the prover: `PendingDrains`, `Recovers`,
`TripsAgain`, `LetInAgain`, `PolicyConverges`, `NightEnds`, `LateDebtIsNoticed`,
`EveryDueCampaignTried`, `EveryMessageAnswered`, `FailuresAreReported`. The runs that expect a violation show what is false.

## 6. Not modelled

See the components of `PROJECT.json` with status `not_modelled` and the notes of
those that are `partly` modelled.

- Formatting, configuration, I/O and read-only pages (templates, masking, logging
  filter, settings, pools, scripts other than `backup.py`, the parsers and HTTP
  clients of the adapters) have no state the properties could be about.
- `domain/dead_letter.py` cannot be imported: it defines the table
  `dead_letter_messages` a second time. `move_to_dead_letter`,
  `process_delivery_callback`, the FAILED -> PENDING branch of
  `transition_status` and the M-Pesa HTTP client have no caller.
- The audit log is an insert; that it raises is an action of every module whose
  code logs.
- The admin API is read-only pages and stubs whose commits are commented out; its
  one handler that commits raises first (section 7).
- `check_connectivity` writes no flag and nothing reads its answer.
- `TemplateRenderer` raises on a body of more than two segments: `Inbound` has the
  replies by their intent only, and the raise is not among its exceptions.

## 7. Where code and documents disagree

Six disagreements are runs that TLC finds violated (section 4, `findings` of
`PROJECT.json`). The others follow; those about an order of steps were found as
TLC counterexamples of these modules, the rest are read off the actions. The
properties the passing runs check hold of the code as it is.

- `api/webhooks/africas_talking.py:168`: The webhook assigns the mapped status
  of whatever report arrives, so a delayed or repeated "Sent" turns DELIVERED
  into SENT; domain/outbox.py:76 says "MessageStatus.DELIVERED: set(),  #
  terminal".
- `workers/sends.py:288`: An exception between claim and call (load_policy, the
  gates) is swallowed and the SENDING claim is committed with the batch;
  get_unknown_deliveries selects UNKNOWN_DELIVERY only.
  workers/reconciliation.py:34-36 says "messages are left in SENDING state. The
  reconciliation worker finds them (they're past the timeout window) and queries
  the provider to resolve."
- `domain/outbox.py:109`: A row whose retry_count reached max_retries through
  reconcile_unknown_delivery stays PENDING: poll_pending skips it and nothing
  else looks at it (move_to_dead_letter has no caller).
  domain/dead_letter.py:26-27 says "OutboundMessage (FAILED, retries exhausted)
  → DeadLetterService.move_to_dead_letter()".
- `scripts/backup.py:138`: main catches the exception of create_backup and
  prunes all the same, and write_bytes leaves a torn file when the disk is full:
  torn files take the daily places and push the whole ones out;
  scripts/backup.py:62 says "7 daily + 4 weekly gives ~1 month of recovery
  points".
- `infra/backup.py:268`: The daily files are the newest seven, not those of
  seven days: run_backup, delivered again when its worker dies, leaves two files
  of one day and the oldest day goes early; infra/backup.py:233 says "(default:
  7 — one week of daily backups)".
- `infra/backup.py:190`: Fernet takes url-safe base64 of 32 bytes: with a hex
  key create_backup raises ValueError every night; infra/settings.py:162 says
  "32-byte hex key for backup encryption", infra/backup.py:60 "Store it as a hex
  string", README.md:104 "Automated encrypted database backup
  (`infra/backup.py`, daily at 2 AM EAT)".
- `workers/maintenance.py:172`: max_retries is declared, but the body neither
  calls self.retry nor names autoretry_for: an exception ends the day's backup;
  workers/maintenance.py:45 says "backup:          1 retry,  10 min backoff
  (expensive; retry once)".
- `workers/campaigns.py:194`: Either the insert of the candidates raises
  (domain/dispatch_service.py:99) or, without candidates, the audit event does:
  the session is rolled back and the hourly task finds the campaign SCHEDULED
  again; domain/campaign_service.py:146-147 says "The campaign worker will
  transition it to SCHEDULED → RUNNING → COMPLETED as it processes."
- `workers/campaigns.py:328`: The audit event of complete_campaign raises before
  the commit; workers/campaigns.py:299 says "mark a campaign as COMPLETED after
  all messages are sent."
- `workers/sends.py:244`: The send worker calls the adapter without asking
  is_online, and the task Beat starts (workers/sends.py:326) writes no flag;
  infra/connectivity_watcher.py:12 says "When offline: send workers skip
  (messages stay PENDING in outbox)".
- `workers/sends.py:261`: A call without a network is ambiguous, the message
  becomes UNKNOWN_DELIVERY and the Africa's Talking adapter can never resolve
  it: an outage costs every message polled during it;
  infra/connectivity_watcher.py:5-7 says "must continue operating offline and
  resume sending when connectivity returns".
- `workers/inbound.py:437`: The EXTENSION branch creates the request and then
  raises in the same way: the request is rolled back and no acknowledgement is
  queued; workers/inbound.py:13 lists "EXTENSION → Create credit terms request".
- `api/admin.py:397`: callback_queue lists rows with intent call and
  processed_at NULL, but the worker sets processed_at in the same transaction as
  the intent, so the list is always empty; api/admin.py:387-389 says "When a
  customer replies "CALL" via SMS, the inbound parser creates an
  InboundMessage with intent="call". This endpoint lists those for staff to
  action."
- `api/admin.py:509`: The update of a business's policy reads
  Business.policy_config, a column domain/models.py:254-298 does not have, and
  raises; api/admin.py:488 speaks of the "model's policy_config field".
- `api/webhooks/africas_talking.py:97`: receive_sms builds InboundMessage with
  school_id and guardian_id, which are not columns of the model
  (domain/models.py:928-975), so it raises TypeError: no row, no task, and the
  provider gets an error; api/webhooks/africas_talking.py:78 says "Returns 200
  OK immediately. Processing happens async via Celery."
- `infra/circuit_breaker.py:263`: can_execute returns True to every caller that
  reads half_open, until one of them records its result;
  infra/circuit_breaker.py:40-41 says "at worst, one extra test request slips
  through during a transition".
- `infra/circuit_breaker.py:323`: record_failure has no branch for OPEN: it goes
  on to count the failure, reaches the threshold again and calls _open_circuit,
  which starts a new cooldown; infra/circuit_breaker.py:302 says "OPEN: no-op
  (already open; the failure was likely a short-circuit rejection, not a real
  API attempt)".
- `infra/circuit_breaker.py:283`: record_success deletes the state whatever it
  is, so the late success of an old call closes a circuit that has just opened;
  infra/circuit_breaker.py:25-26 says "OPEN — All requests are rejected
  immediately. After a cooldown period, the breaker transitions to HALF_OPEN."
- `infra/rate_limiter.py:163`: INCR and EXPIRE are two commands: when the
  process ends between them the counter has no TTL, is never set to 1 again and
  rejects the client for ever; infra/rate_limiter.py:118-119 says "If this is
  the first request (count == 1), set **EXPIRE** so the key auto-deletes after
  the window elapses".
- `infra/rate_limiter.py:156`: The window starts at the first request, so up to
  twice the limit pass within one window's length around its end;
  infra/rate_limiter.py:187-188 says "limits admin endpoints to **60 requests
  per minute**", and line 9 "Uses a sliding-window counter".
- `domain/alerting.py:134`: Failures and outcomes are counted by two statements;
  a failure that a stale reconciliation sets back to PENDING in between is in
  the first count only, and the rate exceeds 1; domain/alerting.py:78 says
  "failure_rate: fraction of terminal messages that failed (0.0–1.0)".
- `domain/alerting.py:208`: The alert goes to the adapter, not through the
  outbox, and no adapter looks at a repeated client_message_id;
  domain/alerting.py:211-212 says "client_message_id makes this idempotent — if
  the alert is retried within the same minute, the outbox dedup catches it."
- `domain/alerting.py:286`: log_audit_event passes school_id to AuditEvent,
  which has no such column (domain/models.py:1037-1080): the alert is sent, the
  exception is put into the result and nothing is logged; domain/alerting.py:223
  says "4. Logs an audit event".
- `domain/retention.py:290`: A purge that removes rows must log itself, the
  audit event raises and the session is rolled back: only purges without rows
  commit; workers/maintenance.py:71-73 says "personal data must not be retained
  longer than necessary. The retention windows are configured in
  domain/retention.py."
- `domain/transaction_service.py:228`: Two payments loaded at PARTIAL: one
  completes the transaction, the other then writes only its smaller amount_paid,
  and the row is PAID with a balance; domain/transaction_service.py:188 says "If
  transitioning to PAID, ensure amount_paid == amount_due".
- `domain/transaction_service.py:235`: record_payment assigns the status without
  VALID_TRANSITIONS and over a stale row, so PARTIAL replaces CANCELLED;
  domain/transaction_service.py:104 says "TransactionStatus.CANCELLED: set(),  #
  terminal state".
- `workers/reconciliation.py:225`: Part A calls record_payment, which has no
  duplicate check, and saves the checkpoint it loaded;
  workers/reconciliation.py:224 says "Record the payment (idempotent via
  external_reference)".
- `domain/reconciliation_service.py:95`: reconcile_payment selects and then
  inserts with no constraint on (transaction_id, external_reference); two
  overlapping polls both find nothing and record the payment twice.
  domain/reconciliation_service.py:89-90 says "IDEMPOTENT: if a payment with the
  same external_reference already exists for this transaction, return the
  existing payment without creating a new one".
- `domain/mpesa_service.py:250`: Only PENDING and PARTIAL transactions are
  candidates, so an overdue debt, the oldest of all, is passed over;
  domain/mpesa_service.py:245 says "oldest first — pay off the oldest debt
  first".
- `api/webhooks/mpesa.py:118`: c2b_confirmation passes customer_name,
  transaction_time, payment_type and status to MpesaPayment, which has none of
  them: TypeError, nothing is stored and no task is queued;
  api/webhooks/mpesa.py:88-89 says "we record the payment and trigger M-Pesa
  reconciliation".
- `adapters/csv_connector.py:90`: get_checkpoint reads business.crm_config, a
  column the Business model does not have, and the AttributeError ends
  poll_payment_updates; adapters/csv_connector.py:77 says "Load checkpoint from
  the business's crm_config JSON."
- `domain/policy_service.py:220`: save_policy commits and then raises TypeError,
  because AuditContext (infra/audit_logger.py:39-47) has no business_id, so
  lines 223-229 never delete the key; domain/policy_service.py:137 says "The
  cache is invalidated on save_policy() by deleting this key."
- `domain/policy_service.py:220`: The policy is committed before the audit
  event, whose construction raises: the change is stored and not logged;
  domain/policy_service.py:197-198 says "Kenya DPA 2019: all data handling
  changes must be logged".
- `domain/dispatch_service.py:99`: The statement is sqlalchemy.insert
  (domain/dispatch_service.py:41), whose Insert has no on_conflict_do_nothing:
  every non-empty list raises AttributeError and the run rolls back;
  workers/reminders.py:14 says "Inserts into the outbox with ON CONFLICT DO
  NOTHING (idempotency)."
- `workers/reminders.py:191`: The audit event of a suppressed reminder raises, so
  one customer who opted out ends the run for all; workers/reminders.py:15 says
  "Logs audit events for each suppressed reminder."
- `domain/reminder_service.py:291`: build_candidates skips PAID transactions at
  line 271 and the worker does not load them, so the branch for them is never
  taken; domain/reminder_service.py:290 says "Layaway pickup: when layaway is
  fully paid, remind to pick up."
- `domain/reminder_service.py:160`: The key of a late notice holds the due date,
  not the day, so the notices of all days have one key and the unique
  message_key rejects all but the first; domain/policy_service.py:14 says "Late
  notice cadence (daily, every 3 days, weekly)".
- `domain/credit_terms_service.py:187`: The transition is checked on the object
  as loaded, which is neither locked nor compared again by the UPDATE: of two
  members of staff that loaded a REQUESTED request one denies what the other has
  approved; domain/credit_terms_service.py:30 says "State machine: only valid
  transitions allowed".
- `domain/policy_service.py:251`: is_quiet_hours, which the send worker asks, is
  true of every hour when start equals end: such a policy stops all messages;
  domain/quiet_hours.py:48-49 says "A policy with start == end means no quiet
  hours (always allowed)."
- `workers/sends.py:203`: The gate asks with the hour of UTC, three hours behind
  Nairobi: messages go out between 20:00 and 23:00 and wait between 7:00 and
  10:00 local time; workers/sends.py:198 says "No sends during quiet hours
  (default 20:00–07:00)", domain/quiet_hours.py:34 "All comparisons are done in
  the business's local timezone."
