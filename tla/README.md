# Pasarela de pagos: TLA+ models, checks and proofs

This directory specifies the payment gateway backend in `src/`: a NestJS process
that takes `POST /payments` from the organizations of an ecosystem, charges through one of
several external providers, learns what became of the charges from webhooks and from a
reconciliation cron, and refunds. State is in PostgreSQL (through Prisma), jobs are in Redis
(through BullMQ), and everything else is in the memory of one Node process.

The models are cut where the code awaits: what runs between two awaits is one action, so
TLC explores every interleaving of concurrent requests, workers, the cron, the provider
and a crash of the process, and the proofs hold for any number of them.

## The system

| part | source (under `src/src/`) | state it keeps | operations |
|---|---|---|---|
| Payment state machine | `modules/payments/payment-state.machine.ts` | none | `assertValidTransition`, `isTerminal` (unused) |
| Payments service | `modules/payments/payments.service.ts`, `payments.controller.ts` | rows of Payment, PaymentEvent, Refund; the gauge `active_payments_pending` | `create`, `refund`, `findAll`, `findOne` |
| Providers | `modules/providers/provider.interface.ts`, `adapters/*` | charges, outside the system | `createCharge`, `refund`, `retrieve`, `verifyWebhook` |
| Webhooks | `modules/webhooks/webhooks.controller.ts`, `webhook.processor.ts` | WebhookInbound, queue `webhooks` | `handle`, `process`, `markProcessed` |
| Reconciliation | `modules/payments/reconciliation.service.ts`, `reconcile.processor.ts` | queue `reconcile` | cron, `reconcileOne` |
| Queues | `modules/queue/*` | BullMQ jobs in Redis | add, run, retry, redeliver, drop |
| API keys | `modules/tenants/*`, `common/guards/api-key.guard.ts` | TenantApiKey | `create`, `revoke`, `validate`, `list` |
| Guards | `common/guards/*`, `modules/firebase/*` | fields of the request | throttler, AuthGuard, TenantGuard, WriteGuard, PciGuard |
| Registry and breakers | `modules/providers/provider.registry.ts`, `circuit-breaker.service.ts` | the registered adapters, a breaker per adapter and operation, all in memory | `register`, `get`, `selectFor`, `execute` |
| Adapters | `modules/providers/adapters/*` | none | `createCharge`, `refund`, `retrieve`, `verifyWebhook` over each provider's API |
| Routing | `modules/providers/routing.service.ts` | route cache | `selectProvider` (called by nobody) |
| Idempotency interceptor | `common/interceptors/idempotency.interceptor.ts` | one Redis entry per tenant and key, for a day | `intercept` (registered nowhere) |
| Audit, metrics, PII, errors, health, config | `modules/audit`, `modules/metrics`, `common/*`, `modules/health`, `config` | AuditLog, counters | they record, format and wire |

How they interact. `create` finds a row by key, inserts a PENDING one, calls the provider
through the breaker and writes what came back. A webhook is stored, enqueued, and applied by
a worker to the row whose `externalId` is the charge. The cron enqueues old PENDING rows and
its worker asks the provider about each. So three writers (four with `refund`) work on one
row with no lock and no version column: each checks the transition against a row it read
earlier and then updates by id. Requests reach the handlers through guards that themselves
await the database and bcrypt.

What is hard: the lookup and the insert of `create` and of `handle` are two calls; a provider
may act on a call whose caller has given up; workers retry, are redelivered after a crash and
may overlap; webhooks arrive early, late, twice and out of order; a crash loses everything in
flight and keeps the tables. `PROJECT.json` lists each of these hazards at its line, with
the properties that watch it or the reason why none does yet.

What makes each part correct:

- *create*: one charge per key and organization; all answers to a key agree; nothing revives a
  payment that was given up; only a crash or a failing database leaves a row that nobody completes.
- *the interceptor*: a replay or a 409 has an execution of `create` behind it, and Redis never names
  another payment than the tables.
- *refund*: nothing may throw between the money going back and its record; a row that says
  refunded has money that went back behind it, or a Refund row of its own whose call the provider took on.
- *webhooks*: one job per charge; processed means recorded; not written twice.
- *all writers together*: a row never claims a charge that did not happen at the provider;
  nobody but `create` touches a row it has not settled; a decided row is never
  PENDING again.
- *reconciliation*: works on linked rows only.
- *registry, breakers, adapters*: callers that share a breaker get their own answers; an answer
  never claims money that was not taken; refusals are earned; nobody waits for ever; together they are
  the simple call that the services take for granted.
- *guards and keys*: dead keys stay out, live keys get in, a key works for its own tenant, and a token for no
  organization that its claims rule out; a key is
  judged at one instant although `validate` awaits again and again.

## Modules

| module | models | what corresponds to what |
|---|---|---|
| `PaymentStateMachine` | transition table and status maps | `VALID_TRANSITIONS`, `STATUS_MAP`, `mapProviderStatus`, one operator each |
| `PaymentStore` | the tables | `rows`, `status`, `externalId`, `eventLog`... are the mutable columns; `RecordStatus` is the transaction that updates a row by id and appends an event; an `Event` is what its writer puts into type and payload, as PaymentEvent has no column for the status |
| `PaymentProvider` | a provider behind its adapter | external: charges move on their own, calls wait on the wire and are acted on at any time, even after the caller gave up; the answer to a refund says nothing about its money |
| `PaymentsService` | `create` and `refund` | one action per stretch between awaits: `CreateStarts`, `CreateInserts`, `CreateCalls`, `CreateSettles`, `CreateThrows`, `CreateCatches`, `RefundCalls`, `RefundSettles`... |
| `IdempotentCharge` | what `create` promises | abstract: who claims a key owns it, only the owner charges, everybody is told the owner |
| `IdempotencyInterceptor` | the interceptor around `create` | `GetMisses`, `GetReplays`, `GetConflicts`, `GetThrows` are the ends of the lookup in Redis; `Handler` lets `create` run and `tap` see its answer; `EntryStored` is the `setex` nobody awaits, `EntryExpires` its TTL; `installed` says whether it is registered |
| `JobQueue` | one BullMQ job | operators on a job record: added once per id, taken, thrown, stalled, orphaned |
| `Webhooks` | `handle` and `process` | `HookReceived`, `HookPersists`, `HookEnqueues`; `WorkReads`, `WorkApplies`, `WorkMarks` |
| `Reconciliation` | cron and `reconcileOne` | `CronRuns`; `RecReads`, `RecRetrieves`, `RecApplies` |
| `PaymentSystem` | the composition | shares tables and provider; `Crash` hits all parts at once |
| `AccessControl` | guards and API keys | `ThrottlerGuard`, `ValidateFinds`, `ValidateCompares` (one per bcrypt), `TokenVerified`; `KeyCreated`, `RevokeFinds`, `RevokeUpdates` |
| `KeyGate` | what `validate` promises | abstract: a request is judged once, by what its key is worth at that instant, and a key that died stays dead |
| `ProviderAdapters` | the five adapters | one record each (countries, currencies, which object's id each call uses) and one table each for the status of a charge; pure |
| `ProviderGateway` | registry and breakers, between the services and the adapters | `SelectFor`, `AdapterOf` are `selectFor` and `get`; `Execute` is `execute` up to the await, `Answers`, `Throws`, `TimesOut` its ends, `ActionOf` the replaced closure; opossum (`Succeeds`, `Fails`, `Resets`) and the providers are external |
| `ProviderCall` | what a service takes a call to a provider for | abstract: it is turned away with no effect, or goes out and ends once, truly or with a failure that says nothing, and money may move at any time |
| `MCPayments`, `MCInterceptor`, `MCSystem`, `MCAccess`, `MCGateway` | instances for TLC | small sets of requests, bodies, deliveries, keys, calls |
| `PaymentsProofs`, `LedgerProofs`, `IdempotencyProofs`, `PaymentSystemProofs`, `WebhookProofs`, `AccessProofs`, `GatewayProofs`, `ContractProofs` | TLAPS proofs | see below |

A payment row is named by the create request that inserted it, a charge by the create request
that caused it, a refund row by its refund request. Definitions whose comment begins with
"Mutant of" are plausible bugs: each property is broken by one of them, which
`PROJECT.json` names.

### Choices that a reader should know

- *Methods at the service.* `METHOD_MAP` has lower-case keys while the DTO
  (`create-payment.dto.ts:32-34`) only admits the upper-case values of the Prisma enum, so every
  creation that passes validation over HTTP is answered 400 by `toPrismaMethod`, although
  `test/payments.e2e-spec.ts:67-80` expects 201 for `CARD`. The models enter the service below
  the DTO with the methods it knows, otherwise nothing else could be said about it. `CARD` is kept
  as one of the bodies.
- *One process.* A crash loses every request and run in flight and the gauge; tables
  and queues stay. A failed transaction is rolled back as a whole.
- *Providers* never report a status a charge has not had, except as their event tables do:
  `refunded` once any money of the charge went back, be it a part, and `pending` for an event they have
  no entry for (`Reported`). A `failed` charge may still be captured when the payer tries again.
- *BullMQ* is modelled from how the code uses it: an `add` whose jobId is still kept is ignored,
  only the holder of the lock may finish a job, a job is redelivered once after its lock expires
  (`maxStalledCount` is at its default). Backoff and rate limits only delay. The DLQ never gets
  a job from any code. Whether the library accepts `:` in a custom job id was not looked into.
- *The gateway* is a model of its own: the core sees its outside, which is that a call is
  answered truly, fails, or is given up while the provider goes on. `AnswersAreTrue` is what
  `PaymentProvider` takes for granted. Calls are made in the order of their numbers, which names
  them and loses nothing. opossum's window of time is replaced by counts over the whole life of a
  breaker, from which it may have forgotten any failure but never have invented one. A charge is
  named by the call that created it; `charge?.id ?? data.id` of Conekta is the first of the two,
  as an order that was accepted has a charge. Retries inside a provider's library, and the
  statuses a refund returns, are left out.
- *The interceptor* is registered nowhere in `app.module.ts` or on a controller. `installed` is chosen
  at the start and never changes, so that one module says what `create` does without it, as the
  application runs, and with it, as its comment and `docs/runbooks/doble-cobro.md` mean it to. It is
  asked after TenantGuard has run, so its key always has a tenant. A body is its amount, method and
  route; the hash is taken to be injective. Every 201 passes through `tap` in the tick `create` returns
  in; the `setex` reaches Redis at any later time, or never when the process dies first. A rejected
  `setex` is an unhandled rejection, which ends a Node process: that is the crash.
- *refund* has no idempotency key and ignores the status the provider returns; an
  `amountMinor` of 0 means the whole amount. The models do the same. They have to make little of that
  status, as the adapters do: `mercadopago.provider.ts:124` says `pending` of every refund that is not
  approved, a rejected one included, `pagarme.provider.ts:137` of every one that is not cancelled,
  `conekta.provider.ts:127` always says `succeeded`, and a `pending` of Stripe (`stripe.provider.ts:127`)
  may still fail. So a call that is taken on ends in the one answer `returned` (`ProviderAnswersRefund`),
  and money may have gone back before it, may go back after it, or never does (`ProviderRefunds`).
- *Age* of a row is one bit (`RowAges`), set at any time after its creation.
- *Guards.* A key is found by its prefix, then compared row by row in any order. `lastUsedAt`,
  the audit log and the legacy key of a tenant (mentioned in a comment, read by no code) are left
  out. An empty `organizations` claim, or none, admits the user to every organization, as
  `userOrgs.length > 0 &&` in `tenant.guard.ts:91` has it; `Belongs` says so, and the run `access` has a
  user without that claim who gets through and one without any claim who does not. PciGuard looks for card numbers in the text of a
  body and is left out, as are the retrievals behind `GET`. The throttler's windows are one window.

## Checks

`tlc -workers 2 -config <module>_<run>.cfg <module>` runs one. No configuration takes more
than about three minutes.

| run | instance | shows |
|---|---|---|
| `MCInterceptor_create` | 3 creations with and without the interceptor, 2 organizations with one key, another amount, a bad method; rejected writes, lost entries, one crash | `OneChargePerKey`, `SameKeySameAnswer`, `ProviderErrorIsFinal`, `GaugeCoversInFlight`, `ReplyWasEarned`, `RepliesImplementIdempotentCharge` |
| `MCPayments_refund` | 2 creations whose key the provider deduplicates across organizations, 2 refunds (partial, total), one crash | `LedgerNeverAhead`, `RefundAccountedFor`, `RefundAssertHolds`, `ImplementsIdempotentCharge` |
| `MCSystem_full` | a creation, a partial refund, 2 deliveries, webhook and reconciliation workers, cron, Redis errors, one crash | `LedgerNeverAhead`, `UnsettledRowUntouched`, `ReconciledRowIsLinked`, `RefundAccountedFor`, `StrandedOnlyByFailure`, `OneDeliveryEnqueues`, `WebhookNotRewritten`, `ProcessedMeansRecorded`, `DecidedForGood` |
| `MCSystem_progress` | a creation, a delivery, 2 workers, locks that expire under live runs, Redis errors, one crash, fairness | `ProcessedMeansRecorded`, `RowResolves`, `InboundHandled` |
| `MCAccess_access` | 3 requests, 3 keys with one prefix, 2 tenants, 4 users, one whose token lists no organization and one whose token has no claims | `DeadKeyNeverPasses`, `LiveKeyNotRefused`, `ContextIsTheCredentials`, `ReadersNeverWrite`, `RevokedByItsTenant`, `JudgedAtOnce` |
| `MCGateway_gateway` | 3 calls, Stripe and MercadoPago or MercadoPago alone, breakers that open after one failure, one restart, fair timers | `AnswersAreTrue`, `RefusedForOwnFailures`, `AskedWhereCharged`, `KeepsContract`, `EveryCallEnds`, `NeverShutForGood` |

Six more configurations check statements of the repository that the code does not keep, and
TLC answers each with a counterexample:

| run | statement | counterexample |
|---|---|---|
| `MCSystem_stale_worker` | every forbidden jump is rejected (`payment-state.machine.ts:6`) | the reconciliation reads, awaits the provider, and then writes AUTHORIZED over the CAPTURED that the webhook worker wrote meanwhile |
| `MCSystem_second_event` | what is dropped is a duplicate (`webhooks.controller.ts:60`) | the table is unique on the charge, so the second event of a charge is dropped whatever it says |
| `MCSystem_reconciled` | PENDING payments older than 30 minutes are reconciled (`docs/runbooks/provider-caido.md:57`) | the finished job of the first try keeps the fixed jobId, so later cron runs add nothing |
| `MCSystem_stranded` | the cron enqueues PENDING payments older than 30 minutes (`reconciliation.service.ts:39`, `docs/runbooks/provider-caido.md:57`) | the process dies after the provider made the charge and before its id is stored: the cron only takes rows that have it (`reconciliation.service.ts:51`) |
| `MCAccess_throttled` | the throttler limits tenants, after AuthGuard (`tenant-throttler.guard.ts:3`, `:37`) | it is an application guard and runs before AuthGuard: it never sees a tenant |
| `MCGateway_conekta` | Conekta wants the id of the order for a refund (`conekta.provider.ts:116`) | `createCharge` stores the id of the charge, and `refund` and `retrieve` put it where the API wants the order's: Conekta does not know it |

Other disagreements met on the way, with no configuration of their own:

- A creation with a known key and another body is answered with the first payment
  (`payments.service.ts:74`); `test/payments.e2e-spec.ts:111` expects a 409. The interceptor that
  would compare bodies is registered nowhere. `SameKeySameAnswer` is what does hold.
- With the interceptor in place the 409 is only as good as Redis: a different body is still answered 201
  with the first payment when both requests miss, before the `setex` of the first has arrived, or
  after the entry is gone. `docs/runbooks/doble-cobro.md` counts on both ("Redis (TTL 24h) + DB UNIQUE
  constraint"); only the second is there, and the runs and proofs show that it suffices on its own.
  With `REDIS_ENABLED` off the interceptor would not work at all: `RedisNoopClient` has no `setex`.
- `docs/runbooks/provider-caido.md:59` posts to `/admin/reconcile/PAYMENT_ID`, which no controller serves.
- `payment-error.catalog.ts` says of each error whether a retry makes sense, but the filter answers
  5xx errors in production with one fixed text, so that clients never see it of a timeout.
- `docs/runbooks/provider-caido.md:30-45` moves traffic away from a provider by updating
  `ProviderRoute`, but only `RoutingService` reads that table and nothing calls it: `create` takes the
  first registered adapter that serves the pair. If it were called, its breaker names would not
  match MercadoPago's (`mp:`), nor would it see Stripe's breakers, as `stripe.module.ts:6` provides a
  `CircuitBreakerService` of its own. Line 4 looks for `failureCode: PROVIDER_UNAVAILABLE`, where
  `create` writes `PROVIDER_ERROR`.
- A declined card is an exception to the breaker, so that a few payers' declines at MercadoPago, or
  card errors at Stripe, open it for everybody.
- A payment that `MCSystem_stranded` finds is not only out of the cron's reach. Retries with its key are
  answered with it, webhooks do not find it, a refund refuses it: it stays PENDING and unlinked for ever, also
  when the money was taken (`StrandedForGood`, the theorem `SystemStrandsForGood`).
- `refund` writes a Refund row `REFUNDED` and marks the payment refunded for every answer of the provider
  that is not an exception, `pending` and `failed` among them (`payments.service.ts:289-333`), and neither a
  webhook nor the cron takes that back. `RefundAccountedFor` says what is left: such a row has a Refund row of
  its own to be looked up at the provider.
- `tenant.guard.ts:5` says that the guard validates that the user belongs to the organization; the code (`:91`)
  does so only for a token that lists organizations. `ContextIsTheCredentials` says what the code does.
- Of two refunds that read one CAPTURED row the partial one may settle last, so that REFUNDED
  becomes PARTIALLY_REFUNDED: the same blind write as in `stale_worker`.
- The gauge does not return to zero after a bad method or a rejected insert, as it is
  incremented outside the `try` (`metrics.service.ts:52` calls it the payments PENDING now).
- Of two concurrent deliveries of one webhook the unique index answers the second with a 500,
  where `test/webhooks.e2e-spec.ts:128-138` expects 200 for fifty.
- A webhook that was stored when the process died, or when Redis refused its job, is lost: the
  provider's retry is dropped as a duplicate.

### Bounds

`MaxCrashes` is 1: two crashes add no new overlap, as each leaves only the tables, which the
invariants describe. `HookAttempts` is 2 (the code says 5) and `RecAttempts` 1 to 3 (the code says
3): the second attempt shows every effect of retrying. `BatchSize` is 1 (the code: 100).
Amounts are 2 or 3 with refunds of 1 or of everything, so that a partial, a completing and a
total refund occur; beside the webhooks and the reconciliation (`MCSystem_full`) the one refund of the
service is partial, and total refunds come from the provider's dashboard. One payment suffices for the races of its writers; two or three requests for
those on a key; three rows with one prefix for the loop of `validate`, which then skips a dead
row and a foreign one. Behind the interceptor
at most one of the three creations differs from the others in body or organization (`MCInit`), which is
enough for a conflict, a replay and an execution to race; without it the three are alike, as requests that
all miss in Redis behave no differently from requests that never ask it. In `MCAccess` at most one request carries a token and then no other
rotates keys, because requests with a token write nothing that others read and read nothing that others
write. Deadlock is not checked: a model's clients send
finitely many requests, and when all are answered it may stop. In `MCGateway` a breaker opens after
one call (`VolumeThreshold` is 1, the code says 5), so that three calls show one that fails, one
that is refused or tries the half-open breaker, and one after it; two states per charge suffice to
tell paid from unpaid and, at MercadoPago, a state that throws. Symmetry is used over
sets of requests, refunds and deliveries, in runs without liveness only.

`MCSystem_full` has a `VIEW` (`Live` in `MCSystem`), which makes one of the states that differ only in values
nobody reads again: what a run that is over or past its use of it remembers, the attempts of a finished
job, how a delivery that is over ended, a delivery not yet made when it can only be a duplicate or refused,
the answer to a creation that no longer waits, the age of a row that is decided (`DecidedForGood`, which the run
checks, says that it stays so), and whether a finished webhook job was removed already when no other can be
added for its charge. No step that changes anything else and no property of that run tells such states apart;
that a notice of an accepted delivery is among them is due to the one charge of the instance.

`WebhookNotRewritten` is checked with locks that outlive their runs: two overlapping runs of one
job can write the same status twice in a row. `ProcessedMeansRecorded` is checked with a crash and a
rejected write between the two steps (`full`) and with overlapping runs besides (`progress`). `InboundHandled`
and `RowResolves` name what a crash, and for the first a Redis error, takes out of their reach, and are checked
with both.

### Fairness

`FairSpec` asks only what the runtime does: the event loop runs a continuation that is ready
(weak fairness of a creation's and a delivery's steps; a provider call ends because the breaker gives
it ten seconds), idle workers take waiting jobs and locks nobody renews expire (BullMQ),
time passes and the cron fires. The reconciliation's own steps get strong fairness, which says
that a provider and a database that are asked over and over answer at last. In `FairGatewaySpec` only the breakers'
timers run: the timeout of a call and the reset of an open breaker. Nothing is
assumed of clients, of what becomes of a charge, or of the removal of finished jobs, which only
later jobs cause. `OldPendingReconciled` and `OldPendingQueued` fail in spite of all this.

## Proofs

`tlapm` checks them for every value of the constants that satisfies the named assumptions of
the modules (`StoreAssumption`, `ProviderAssumption`, `ServiceAssumption`, `QueueAssumption`,
`WebhookAssumption`, `ReconciliationAssumption`, `AccessAssumption`, `GatewayAssumption`); these only
say that the constants have the types they are declared for, that `Null` and the like are not
members, and that the states of a charge are words the adapter's table has or does not know.

*`PaymentsProofs`, about `PaymentSpec`.* The inductive invariant is
`CoreInv == PaymentTypeOK /\ KeyInv /\ LinkInv /\ LedgerNeverAhead /\ SettleInv`. The claimed
properties alone are not inductive: that a key is charged once needs that a call is on the wire
only for a row that exists and that rows have distinct keys (`KeyInv`); that a row does not run ahead
of its charge needs that the charge it is linked to, or that a reply or a refund in flight names,
exists with a history containing what was reported (`LinkInv`); and that a row given up stays
so needs that until `create` is done with a row nobody else has a link to it (`SettleInv`). Six
theorems follow: `PaymentTypeCorrect`, `OneChargePerKeyHolds`, `SameKeySameAnswerHolds`,
`LedgerHolds`, `RefundAssertAlwaysHolds`, and `GivenUpForGood` for the action property.

*`LedgerProofs`, about `PaymentSpec`.* `GaugeInv` adds to the gauge's bound that only finitely many
requests are in flight, without which nothing can be counted. `RefundAccountedFor` needs that a charge is `refunded` only when money went back on it, and that a
refund call was made by a request that got to it (`BackInv`), for which in turn a `createCharge` still on
its way has not charged (`FreshInv`); `BooksGrow` says that money that went back, Refund rows and answers stay,
so that only a row's own write has to be looked at. `StrandedOnlyByFailure` is inductive on top of `CoreInv`, which gives that a
stranded row is PENDING (`StrandedIsPending`). `NoWayBack`, a fact about the table, gives that a decided
row stays decided, as `create` writes over PENDING only. `CreateIsIdempotent` is the refinement: under the
mapping of `ImplementsIdempotentCharge` every step of `PaymentSpec` is a step of `IdempotentCharge` or a
stutter, given `KeyInv` and `ClaimInv` (only who was answered has an answer, only who arrived has a row).
Theorems: `GaugeAlwaysCovers`, `RefundsAreAccountedFor`, `OnlyFailuresStrand`,
`DecidedStays`, `CreateIsIdempotent`, and `SoleRefundFollows`, see below.

*`IdempotencyProofs`.* `GuardedIsService` shows that `GuardedSpec` implements `PaymentSpec`, so that
what is proved of the core holds behind the interceptor: `GuardedServiceIsSafe` and `GuardedGivenUpForGood`
say it of the properties the run `create` checks. `EntryInv` then says that an entry in Redis, and
`StoringInv` that a `setex` on its way, is an answer `create` gave to a request with that key and body;
`FrontInv` that what a client heard names a row of its own key. Theorems: `InterceptorTypeCorrect`,
`RepliesAreEarned`, and `RepliesAreIdempotent` for the refinement with the replies counted in.

*`PaymentSystemProofs`, about the composed `Spec`.* `SystemInv` adds to `CoreInv` the types
and what the two workers remember between their awaits: a webhook run that is about to write
has a row linked to the charge of its job, and the job's status is one that the charge can be
reported with (`HookInv`); a reconciliation run has a linked row and an answer from its charge's
history (`RecInv`). `SystemWrites` and `SystemSteps` then say once and for all that a step of the system
is a step of the core or the write of one worker. Blind writes by any number of workers, with
crashes and expiring locks, keep the ledger behind the provider, and every promise of the core:
`ServiceInv` carries the keys, the gauge and the claims over, so that the composed system refines
`IdempotentCharge` too; `SystemBooksInv` carries the books over, for which a worker that is about to write
REFUNDED must have been told so by a charge of which money went back (`RecBackInv`; for webhooks `HookInv` and
`Reported` give it). Theorems: `SystemTypeCorrect`, `SystemLedgerHolds`, `SystemUnsettledUntouched`,
`SystemOneDelivery`, `SystemReconciledLinked`, `SystemIsIdempotent`, `SystemServiceIsSafe`,
`SystemGivenUpForGood`, `SystemRefundsAccountedFor`, `SystemStrandsOnlyByFailure`, `SystemStrandsForGood`.

*`WebhookProofs`, about the composed `Spec`.* `SystemLogs` says what any step does to the logs and the
statuses: it appends one event to one row, or fails an unlinked one, or
leaves all alone. `ProcessedIsRecorded` rests on
`RecordedInv`: a run about to mark its webhook has recorded it or found it recorded, and logs only
grow. A run that skips its write because the row has the status already needs a log that tells of it: every
writer logs an event from which, with the payment's amount for a refund, the status it writes can be
read (`Tells`), so that the last event of a row tells of its status unless the catch of `create` failed
it (`LogInv`). `WebhooksWrittenOnce` assumes `~ LocksExpire` and needs that the worker of a job then holds its
lock, so that a job has one run at most (`HolderInv`), and that a row whose last event is a webhook
has the status of the one webhook of its charge, so that no run can get from its read to its write
(`OnceInv`). `SystemDecidedForGood` rests on `DecideInv`: a run that has got to its write judged a
different status by the table, which has no way back to PENDING, so that its write decides the row however
old the judgement is. `DuplicatesHaveAFirst` (`StoredInv`) is what remains of the statement of `second_event`: a
dropped delivery has an earlier one about its charge, and no more than that.

*How far the state machine is kept.* `FollowsStateMachine` fails in `stale_worker`, and three theorems say
that nothing less than two kinds of writers does it. With one refund at most and no workers
(`SoleRefundFollows`, by `RefundReadInv`: the row is as the refund read it); with webhooks alone, overlapping
or not (`SoleWebhooksFollow`, by `HookReadInv`: all runs of a charge write what its one accepted delivery
said); with the reconciliation alone, if locks outlive their runs (`SoleReconciliationFollows`, by
`RecHolderInv` and `RecReadInv`). TLC finds the jump as soon as one of the hypotheses is dropped.

*`AccessProofs`, about `AccessControl`.* The argument is that a key dies once (`KeysDieOnce`):
nothing in the code reactivates a key, and neither expiry nor a tenant's deactivation is undone.
So the rows a request still compares never include a key that was dead on its arrival and always
include its own key while that lives (`CandidateInv`), however the steps of other requests fall
between its awaits (`Bystander`). Theorems: `AccessTypeCorrect`, `DeadKeysStayOut`,
`LiveKeysGetIn`, `ContextHolds`, `WritersOnly`, and `RevocationStaysHome` for the action property,
which needs in addition that an update follows a lookup in the caller's tenant (`RevokeInv`).
`ValidateIsAtomic` is the refinement of `KeyGate`: the read of `validate` is the step that judges, the
rows it still compares remember the judgement (`Verdict`), and the context of a request behind the guards
does (`NotYetKnown`, `GivenInv`). `NobodyIsThrottled` uses the same invariant: no request has a tenant when
the throttler looks, so that nothing is ever counted.

*`GatewayProofs`, about `GatewaySpec`.* `GatewayInv` says that a question, once asked, is about a
charge made by a creation at the same adapter (`QuestionInv`), that a breaker runs the closure of the
very call (`OwnClosureInv`), and that what a provider said of a charge, now or to an earlier call,
is a word of its own that the set of paid charges covers (`ChargeInv`, `ReplyInv`); `TablesAreHonest`
reads the five tables once and for all. `CountInv` bounds a breaker's counts by the calls made
and failed at it, which only grow, so that a refusal always has its reasons (`RefusalInv`).
`FoundButAtConekta` (`LostAtConektaInv`) says that what the run `conekta` shows happens at that adapter
alone. Theorems: `GatewayTypeCorrect`, `AnswersStayTrue`, `AskedWhereChargedHolds`, `RefusalsAreEarned`,
`FoundButAtConekta`.

*`ContractProofs`, about `GatewaySpec`.* `GatewayKeepsContract` is the refinement of `ProviderCall`:
with `GatewayInv` every step of the gateway is one of the abstract call's or a stutter. A restart is
the step in which every call that is out fails.

Only model-checked: the four liveness properties (`RowResolves`, `InboundHandled`, `EveryCallEnds`,
`NeverShutForGood`), which are beyond the prover as they need fairness and ENABLED. Every safety
property of a passing run is also a theorem, `WebhookNotRewritten` under the condition that its run has
too. Of the six statements that fail, `FollowsStateMachine`, `DuplicateTellsNothingNew` and `ChargeIsFound`
have theorems about how far they hold, `TenantLimited` one that says how thoroughly it does not;
`OldPendingReconciled` and `OldPendingQueued` are liveness properties, and for the rows the second fails
on `SystemStrandsForGood` proves that they are lost.

## Not modelled

`RoutingService` and `FakeProvider` (its module is imported nowhere), which no code reaches; the
listings, which only read; of the adapters the amounts,
request bodies, signatures, error codes and `capture`, which the service never calls; audit, PII,
webhook secrets, error wording, health, configuration. `PROJECT.json` gives the reason for each.

## Plan

1. *(done)* tables, state machine, provider, payments service, abstract idempotent charge; webhooks,
   queues, reconciliation, their composition; guards and API keys; registry, breakers and adapters,
   and the abstract call they implement; the interceptor in front of `create`.
2. *(done)* every safety property of the passing runs as a theorem, of the composed system where it is stated
   there, the four refinements included, and how far the statements that fail do hold.
3. Refund amounts: what the Refund rows add up to against what the provider gave back, with clients
   that retry a refund that timed out.
4. The adapters' amounts, which are sent as they are or divided by 100 whatever the currency.
5. Routing with its stale cache, as it would run if something called it.
6. Two payments and a full batch under the cron's fairness.
7. An abstract inbox that the webhook pipeline implements: per charge, one event recorded, then processed.
