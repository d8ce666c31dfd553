# TLA+ models of Zoolanding Commerce

Zoolanding Commerce is a set of AWS Lambda handlers over three DynamoDB tables (catalog,
operations, and the migration/subscription records in them) that sell, reserve and settle the
stock of many drafts ("scopes"). No handler keeps state between requests: every one reads a few
items one at a time, plans one `TransactWriteItems` from what it read and sends it with a condition
on every item. All concurrency is therefore between invocations, and all correctness rests on
which conditions are put on which items.

## The system: components, state, operations

| Component | State it keeps | Operations | What makes it correct |
| --- | --- | --- | --- |
| Inventory transactions, `src/storage.py` | STOCK, STOCK_MOVEMENT, RESERVATION, RESERVATION_DUE, ORDER, PAYMENT_ATTEMPT, REFUND, EVENT_INBOX, OUTBOX, IDEMPOTENCY items | `adjust_stock`, `reserve_checkout`, `apply_payment_event`, `record_refund_event`, `release_reservation`, `list_due_reservations`, `defer_reservation` | no oversell, no lost update; commit and release exclude each other; records agree; acknowledged events hold; effects once |
| Inventory rules, `src/domain/inventory.py` | none | `StockState.adjust/reserve/commit/release`, `reservation_timing`, `reconciliation_outcome` | counts stay natural, reserved never exceeds on hand |
| Reconciler, `src/reconciliation.py` and its handler | none (reads due markers) | `run`, each 5 minutes, at most 25 markers | an uncertain reservation is held, moved forward, and never hides the others |
| Event worker, `src/events.py`, `handlers/integration_event_worker.py` | none (SQS batch) | `process_batch` | any delivery order and number of deliveries converge |
| Outbox relay, `src/outbox.py`, `handlers/outbox_relay.py` | deliveryStatus of OUTBOX items | publish, `mark_outbox_delivered` | at least once, under one dedupe key |
| Checkout handler, `handlers/checkout.py` | none; opens a provider session | `admitCheckout` | a retry repeats the same reservation and the same session |
| Inventory handler, `handlers/inventory_action.py` | none | `adjustStock` | an operator's view of the revision is respected |
| Fiscal access and requests, `src/fiscal_storage.py`, `handlers/fiscal_*.py` | FISCAL_ACCESS and FISCAL_REQUEST items | rotate, pay, redeem, operator transitions | a proof is redeemed once; five attempts |
| Subscriptions, `src/subscription_storage.py`, `handlers/subscription_action.py` | SUBSCRIPTION, SUBSCRIPTION_ACCESS, SUBSCRIPTION_PREVIEW items, their receipts, EVENT_INBOX | verified events, change of plan, pause, resume | the projection is the newest event; access changes once per accepted command; one key asks for one change |
| Migration, `src/migration_storage.py`, `handlers/subscription_action.py` | MIGRATION_REQUEST, MIGRATION_COMMAND and MIGRATION_EVENT items | preview, approve, execute, pause, resume, cancel, verified events | the item stays readable, never rolls back, and says only what the job did |
| Catalog, `src/catalog_storage.py`, `handlers/catalog_action.py`, `domain/offers.py` | CATALOG_ITEM, OFFER, DISCOUNT and IDEMPOTENCY items | create, advance the lifecycle, update the presentation | the lifecycle moves one way; the provider is in step with it; no mutation is lost |
| Published policy, `src/common/published_policy.py` | an in-memory cache | resolve | an expired policy is not served |
| Gateway, authentication, HTTP, value types | none | validation, signing | stateless; not modelled |

Interactions: the checkout handler reserves, then asks the provider (through the integrations
gateway) for a session; the provider's outcome comes back as SQS events (any number of times, in
any order) or, when it does not come, through the reconciler, which asks the gateway for the
canonical status of each due reservation. Payment events write OUTBOX items, which a table stream
hands to the relay. The commands on subscriptions, migrations and the catalog go the other way
round: the provider acts first, through the gateway, and only an accepted command reaches the
tables. The answer may be lost in between, and the command is then sent again.

## Modules

| Module | What it models |
| --- | --- |
| `CommerceStore` | the inventory transactions of one scope with the handlers that call them |
| `Escrow` | the abstract specification of `CommerceStore` |
| `CommerceStoreProofs` | theorems about `CommerceStore` that follow from what its items say of each other |
| `CommerceStoreHistory` | theorems about `CommerceStore` that need what workers, inbox, outbox and movements remember, and its ledger |
| `FiscalAccessProofs`, `OutboxProofs`, `ReconcilerProofs`, `SubscriptionProofs`, `MigrationProofs`, `CatalogProofs` | theorems about these modules, for every value of their constants |
| `FiscalAccess` | the claim to an invoice: Checkout retries, payment, redeem, operators, TTL |
| `Outbox` | the notification relay and the stream's event source that calls it |
| `Reconciler` | which due reservations a reconciler run reaches |
| `Subscription` | one subscription: events, pauses and resumes, prorated changes of plan |
| `Migration` | one bulk migration of subscriptions, and the job that Integrations runs for it |
| `Catalog` | one version of an offer or a discount, and what the provider was asked to make of it |
| `MCCommerceStore`, `MCFiscalAccess`, `MCSubscription`, `MCMigration`, `MCCatalog` | instances for TLC; `Outbox` and `Reconciler` are instantiated by their cfg |

The modules share the store's items but not a state: each abstracts what the others settle.
`FiscalAccess` keeps an order's status only and leaves the stock, receipts and inbox to
`CommerceStore`; `Outbox` starts from the item that `CommerceStore`'s `PutOutbox` writes;
`Reconciler` takes what a run does to one marker as a step that succeeds or fails. `Subscription`,
`Migration` and `Catalog` share neither items nor revisions with the others or with each other. A
migration reads two offer versions from the catalog and copies what no later mutation changes.

### CommerceStore

A *worker* is one invocation. `pc[p]` is the next thing it does, `req[p]` its request, `at[p]` its
`now_epoch`, `seen[p]` the items it has read and `todo[p]` the stocks it has still to read. The
remaining variables are the items of the tables. A read is one action per item (`ReadReservation`,
`ReadOrder`, `ReadStock`), because the code issues one `GetItem` after another and other
invocations run in between; a transaction is one action, because DynamoDB makes it one
(`Adjust`, `Reserve`, `Finish`, `Converge`, `RefundPaid`, `RefundPending`, `Defer`). The guards of a
transaction are the conditions of its puts, deletes and checks and nothing else: what the code only
checks on what it read earlier is a guard of the read.

`Start...` actions are the callers: an operator's adjustment (`handlers/inventory_action.py`), a
Checkout with ids derived from its idempotency key (`handlers/checkout.py`), an event from the
queue, and for the reconciler `List` then `Decide`, with the provider's answer chosen freely between
them. Any worker may `Abandon` at any point: this is a crash, a conflict, a refused condition, or a
transaction whose outcome stays unknown. All of these leave the caller free to send the same request
again, so retries and redelivery need no action of their own.

A request is modelled by the fields its receipt hashes, so the receipt *is* the request: equal keys
with different requests are the reuse of an idempotency key, which the code refuses. Two things
follow the code closely here: the notification mapping is part of a Checkout's request, and the
reconciler's payment events carry the run's `now_epoch` as `occurredAt`, so a later run that reaches
the same conclusion for the same marker is refused rather than replayed.

Abstractions: one location per scope; a cart is `Qty[k][s]`, summed over lines; money is left out (a
refund is only admitted or not by the status of its order); hashes are injective; ids derived from
the same key are equal. The receipts, inbox items and their results are replies to the caller and
change nothing, so a replayed request is not an action. Fiscal-access items are left out: the model is
of a policy without the fiscal capability, and `FiscalAccess` is of one with it.

### FiscalAccess

Workers as above. `access`, `request` and `receipt` are the FISCAL_ACCESS, FISCAL_REQUEST and
FISCAL_IDEMPOTENCY items, `order` the status of the order. Each try of a Checkout draws a new proof
(`StartCheckout`). The first reserves and stores its hash (`Reserve`); a later one replays the
receipt and rotates the hash while the claim is pending (`ReadForRotation`, `Rotate`); `Respond` hands
the proof out. A rotation that finds the claim opened, or expired, answers without a proof: this is
`Abandon`, as are crashes and every refusal. `Settle` and `Repeat` are the transactions of a payment
event, a refund or a release with what they do to the claim (`MoveAccess`). `ReadForRedeem`,
`ReadReceipt` and `Redeem` are the reads and the transaction of `redeem_claim`,
`RecordFailedAttempt` the counting of invalid details, `Review` an operator's transition or
correction with the revision that was on the screen. `ExpireAccess` is the TTL of the Operations
table, which deletes items whose `expiresAt` has passed at some later time.

The history variables `stored` and `given` remember the proofs whose hash was ever written and those
handed out. Details are one valid value or `Invalid`; the receipt of a Checkout stands with its
order, because its 90 days are longer than the model's clock.

### Outbox

`item` is the OUTBOX items, `log` the table's stream after its filter, `topic` the events with a
message on SNS. `batch`, `attempts` and `serving` are the event source as `template.yaml` sets it up:
it retries from the lowest reported failure (`Answer`), halves a batch whose invocation failed
(`Fail`), and hands the rest to the failure queue when the retries are spent (`Discard`). A worker
runs `process_batch` record by record: `Read`, `Publish`, `Reread` and `Mark` are the calls of `relay`
and `mark_outbox_delivered`; `Refuse` and `Fault` are a failing record, which is reported while the
relay goes on to the next. An invocation that was given up may still land its calls.

The documentation of the event source leaves open whether retries of a batch that has shrunk count
anew; the model counts on, which gives a record fewer tries. `MaximumRecordAgeInSeconds` discards in
the same way as spent retries and is left out.

### Reconciler

`queue` is the due index, ordered by `reconcileAfter`, and `wait[r]` the time until `r` is due. The key
of the index goes on with tenant, draft, domain and reservation, so among those due at the same time
any order may come about (`Places`). A run lists as many as are due, at most `Limit`, from the front
(`StartRun`, `Lists`), and takes them one by one: it settles those with
terminal evidence, puts off the uncertain and the failing (`Defer`), passes over those an event has
settled meanwhile (`Skip`) or fails altogether (`Miss`). `EndRun` is the end of the list, the end of
the time budget at any of the places the code looks at it, and a crash. Overlapping runs are in
`CommerceStore`.

### Migration

`request` is the MIGRATION_REQUEST item: state, revision of the job, revision of the state, storage
revision, whether it has a dry run, the key of its approval, its last command and last progress.
`Valid` is `_validated_stored_request`, which every reader applies; an item that fails it can be
neither read nor changed again. `PreparePreview`, `Create`, `PrepareExecute`, `Approve` and
`PrepareControl` are the steps of `_handle_migration` before the gateway, `Execute` the gateway with
the check of the answer's revision (`Fits`), `RecordRead`, `Record` and `RecordAgain` one try of
`record_command_result`, `RecordReplay` and `Replay` its receipt. `Deliver` is
`apply_verified_event`. Each write is conditional on the storage revision that was read.

`job`, `jobStates` and `sent` are external, the job of Integrations. What is assumed of it: a
command is executed once, by operation and expected revision, and remembered with its result;
commands and the job's own steps advance its revision by one, except that a cancellation may
complete, and items may come under review, at the revision the job has; each change of state, but
for the start of the preview, emits an event; and a cancellation passes through `canceling` only when
the job had been scheduled, as otherwise nothing has to be undone. `ReviewedIn` says in which states
items come under review.

The last assumption matters. Were the job to report `canceling` after a cancellation from
`awaiting_approval`, `_apply_event` would store that state without an approval, and
`_validated_stored_request` refuses it (`src/migration_storage.py` lines 946-950), as in the case
under Findings.

What the model shows of the refusals, beside the properties: an event that is refused is delivered
again until the queue gives it up, and nothing fetches the job's state instead. A `preview_ready`
that meets a review of its own revision, applied before it, is refused every time. A retry of
`execute` is refused by `Fits` when an event has moved the item's revision in between, as the
expected revision is taken from the item (`handlers/subscription_action.py` lines 372-374).

### Subscription

`projection` and `inbox` are the SUBSCRIPTION and EVENT_INBOX items, `access` and `receipt` the
SUBSCRIPTION_ACCESS items, `preview` the stored time of a prorated change. `ReadEvent` and
`ApplyEvent` are the reads and the transaction of `apply_verified_event`. A pause or resume goes to
the provider (`Execute`), and only an accepted answer leads to `ReadAccess` and `WriteAccess`, with
`Replay` for the receipt; `LoseAnswer` is a provider that has acted and an answer that says "pending"
or does not come. `Preview` is `preview_timestamp` with both its outcomes. `billing` and `changes` are
what the provider was asked; it knows a command by operation, expected revision and content, as
`_derived_idempotency` does, and not by the caller's key. An event is its source revision and one of
`Variants`, so that two events may contradict each other.

### Catalog

`version` is the OFFER or DISCOUNT item: its state, the two revisions, and a name for its
presentation. `Decide` is the handler up to the first gateway call: it finds no receipt, reads the
version and fixes the commands the provider must accept (`Calls`). `Execute` and `LoseAnswer` take one
command each. `Read` is the store's own, second reading, and `Write`, `WriteVersion` and `WriteItem`
the conditional transactions. `provider` has the commands done and the status they leave; commands
are done as they come, and the same one once.

The receipts of these three modules stay for ever: the code keeps them for 90 days, and a retry after
that long is taken to be a new request.

## Runs

All runs but `starvation` allow the system to stop (`CHECK_DEADLOCK FALSE`): their messages are finite
and the clock bounded. Workers are symmetric, except in the runs that check liveness.

| Run | Instance | Shows |
| --- | --- | --- |
| `settle_race` | 1 checkout, 1 stock, 2 workers, a paid, an unpaid and a refund event, clock to 4 | `TypeOK`, `OneStory`, `AcknowledgedEventsHold`, `SnapshotsAreHonest`, `TerminalIsFinal`, `RefundNeverRestocks`, `NotCreatedIsLate`, `DeferMovesForward` |
| `stock_contention` | 2 checkouts with carts (1,1) and (2,0), 2 stocks, five adjustments, one event of each kind | `StockIsHeld`, `LedgerExact`, `ImplementsEscrow` |
| `fiscal_claim` | 1 order, 2 proofs, 2 keys, 2 workers, all events, window and payment period of one tick, 2 attempts | `TypeOK`, `SingleUse`, `OnlyPaidOrders`, `GivenWereStored`, `ClaimMovesForward` |
| `fiscal_review` | 1 order, 1 key, 2 details, all operator actions on revisions up to 4 | `ReviewedStaysReviewed` |
| `late_payment` | 1 order, all events, clock to 2 | a violation of `PaymentOpensWindow`, see Findings |
| `relay` | 3 events of which 1 is always refused, batches of 2, 1 retry, 2 faults, 2 workers | `TypeOK`, `DeliveredWasPublished`, `NothingForgotten`, `DeliveredStays`, `HealthyDelivered` |
| `starvation` | 4 reservations of which 3 fail, runs of 2 | `TypeOK`, `EvidenceSettles` |
| `migration` | 2 workers, 1 key, revisions up to 6, reviews in `scheduled`, completion without errors | `TypeOK`, `Readable`, `StateWasTheJobs`, `StartedWithApproval`, `AnswersAgree`, `ReceiptsAreTrue`, `OnlyForward` |
| `cancel_review` | 2 workers, 1 key, revisions up to 4, reviews in `cancel_requested` | a violation of `Readable`, see Findings |
| `subscription` | 2 workers, 2 keys, 1 key of a change of plan, both access behaviors, 2 source revisions with 2 events each, clock to 2 | `TypeOK`, `ProjectionIsNewest`, `AccessAccounted`, `OnePlanChange` |
| `catalog` | 2 workers, an offer or a discount, 2 keys, 1 name or none, 2 presentations, the whole lifecycle | `TypeOK`, `ProviderInStep`, `NothingLost` |
| `redelivery` | two events for one fact, two partial refunds, TTL removing receipts and inbox items at any time, a policy republished with a narrower mapping | `SettledOnce`, `NotificationsAreTrue` |

Bounds. Two workers are enough for every race between two invocations, and a transaction compares
every record with what was read, so a third can only be one more such pair; `stock_contention` was
also run with three. Time is in reconciler intervals; the checkout's expiry and the grace period are
one tick each in place of 1800 s and the code's grace, which keeps their order and lets a reservation
be listed, deferred and listed again before `MaxTime` = 4. The model lets receipts vanish at any time
although the code keeps them 90 days, so `redelivery` assumes less than the code gives.

In `FiscalAccess`, 2 attempts stand for 5: a race over the last attempt needs one before it. Two
proofs are two tries of a Checkout, of which the second rotates; two keys are two submissions. In
`Outbox`, batches of 2 are enough for a refused record with a neighbour on either side, and the
faults exceed the retries, so the failure queue receives healthy records too. In `Reconciler` more
reservations fail than a run handles.

In `Migration`, six revisions take the job through its whole life: preview, dry run, execution,
start, pause or completion, cancellation. One key serves all operations, as receipts are by
operation and key; both workers may use it at once. In `Subscription`, two keys let a pause meet
another pause or a resume, and two revisions at the provider let both be accepted in turn. In
`Catalog`, two keys make one request twice, and the second presentation is the first that can be
lost. A second name adds only states: `NoName` is the other one.

Fairness. The runs of `CommerceStore`, `FiscalAccess`, `Migration`, `Subscription` and `Catalog` check
safety only and assume none: nobody has to call, and an operator's command may fail for good. `Outbox`
assumes that the event source goes on polling and retrying and that an invocation runs on
(weak fairness); faults are bounded, and `HealthyDelivered` promises delivery only while they are no more
than the retries. `Reconciler` assumes that the schedule starts runs, that runs end, and that
handling a reservation which is begun again and again is not cut off for ever (strong fairness): a
run of ten seconds has time for its first reservation, whose lookup takes five at most, and
deferral brings every due reservation to the front. If each run were to die on its first
reservation, nothing would follow, in the code as in the model. The schedule is declared in
`template.yaml` and disabled until it is approved; the run is of a deployment that has enabled it.

## Findings

`late_payment` (`PaymentOpensWindow`): `README.md` line 106 says that a verified paid event
atomically opens the request window. The pending claim carries `expiresAt = reconcileAfter + window`
(`src/storage.py` line 374), which is the TTL attribute of its table, and an event that finds no
claim settles the order without one (`src/storage.py` lines 1443-1444). A payment that is verified
after the TTL has deleted the item therefore opens no window, and the customer's proof finds no claim.

`cancel_review` (`Readable`): a cancellation of a previewing migration is accepted as revision 2. An
`item_needs_review` event of revision 2, which `apply_verified_event` takes for any state, is applied
before the cancellation is recorded. `_command_update` then finds no newer revision and keeps the
state, "previewing", while it stores `migrationCancel` as the last command
(`src/migration_storage.py` lines 726-751). `_validated_stored_request` requires the last command of a
previewing request to be `migrationPreview` (lines 939-943), so the item is refused from then on, by
every command, by the status request and by every event, the job's completion included.
`tests/test_migrations.py` line 1962 has the cancellation as a valid transition. The `migration` run
has reviews in another state, where every item stays readable.

## Known not to hold

Two further hazards were looked at with the models, and the code does not exclude them. They
contradict no stated promise closely enough to be a finding.

- An update of a presentation is decided while the version is provisioning, so no provider call is
  made (`handlers/catalog_action.py` line 209). Another invocation activates the version. The
  store's second reading finds the expected presentation revision, and the update is stored: the
  version is on sale under a name the provider never got. `Catalog` has these steps; "a version on
  sale has a name the provider has accepted" fails in it. Two updates of one presentation revision
  of which one crashes after the provider's acceptance end in the same way.
- The access state of a subscription is never compared with `expectedRevision`
  (`src/subscription_storage.py` lines 233-355). A pause and a resume that the provider has accepted
  in this order may reach it in the other, which leaves a running subscription suspended.

## Proofs

`CommerceStoreProofs` proves, for any finite set of checkouts, any stocks, carts, workers, messages
and times (the named assumptions of `CommerceStore`):

- `SaneHolds`, `TypeCorrect`: `Spec => []TypeOK`. `TypeOK` is not inductive: that a committed stock
  still has a natural number of units follows from a rule its worker checked when it read the stock.
  The invariant `Sane` adds what workers carry: the operations that reach each step (`StageOK`), that
  every stock already read allows the movement (`PlanOK`), and that stocks never have more reserved
  than on hand. The transaction's condition makes the stock read the stock written, which closes the
  argument.
- `NoOversell`: `Spec => []StockIsHeld`, with `Sane` and `Counted` (the reserved count is the
  cardinality of the units held), by counting the units a reservation adds or gives up.
- `StoriesAgree`: `Spec => []OneStory`, from the conditions on status of reservation and order.
- `FinalForever`: `Spec => TerminalIsFinal`.
- `EscrowImplemented`: `Spec => ImplementsEscrow`; each transaction is one action of `Escrow`, the
  rest stutters.

`CommerceStoreHistory` continues it with the properties that speak of the past, under the same
assumptions.

- The inductive invariant `History` is relative to `Sane` and `OneStory`. `Carries` says what a worker's
  copies are: an item, or one of a smaller revision (`Copies`), on which the checks of its step were
  made (`Checked`). `Fresh` says that only an item that was never written has revision 0, `Timed` that a
  reservation becomes due no earlier than its Checkout can no longer be created. `Acknowledged`, `Told`
  and `Settled` type the inbox and the outbox and count the movements.
- `RecordMoves` is the heart of it: every transaction that writes a reservation or an order advances
  its revision. So a condition on a revision is one on the whole item, which is what
  `HonestSnapshots` (`SnapshotsAreHonest`) states. What no step changes any more, as a finished
  reservation and the mapping an order is pinned to, is the same in every copy: this is why
  `Converge` may write a notification from an order on which it puts no condition.
- From these: `EventsAreTrue` (`AcknowledgedEventsHold`), `NotificationsTrue`
  (`NotificationsAreTrue`), `OneSettlement` (`SettledOnce`), and of the steps `NotCreatedWaits`
  (`NotCreatedIsLate`), `DefersForward` (`DeferMovesForward`) and `RefundsKeepStock`
  (`RefundNeverRestocks`).
- `LedgerIsExact` (`LedgerExact`): the counts of a stock are the sums of its movements. A sum is a fold
  over a set, a `CHOOSE` of a function that no definition bounds. The lemmas say that the function
  exists and agrees with every other, for a set of any size (`SumsExist`, `SumsAgree`), that it does not
  matter which element is taken first (`AnyFirst`), and so that one movement more adds its amount
  (`SumGrows`). The inductive invariant `Ledger` has the movements finite and whole, and the two sums;
  `NewMovement` gives, for each operation, the movement that a put of stocks writes beside it.

`FiscalAccessProofs` proves all that the runs `fiscal_claim` and `fiscal_review` check, for any orders,
proofs, keys, details and workers, attempts, window and periods (`FiscalAssumption`):

- Only the puts of a redemption compare the attempts of the claim they replace. That the others lose
  none rests on `Unspent`: they replace a pending claim, and a pending claim has none. `Staged` is what
  a worker has made sure of at each step, `Claims` ties claims and requests together in both
  directions. Neither `SingleUse` nor `ClaimMovesForward` follows from its own previous state: a worker
  that opens or redeems a claim acts on what it read.
- `TypeCorrect` (`TypeOK`, with the bound on attempts), `OneSubmission` (`SingleUse`), `PaidFirst`
  (`OnlyPaidOrders`), `GivenAreStored` (`GivenWereStored`), `ClaimNeverGoesBack` (`ClaimMovesForward`)
  and `ReviewFreezes` (`ReviewedStaysReviewed`).

`OutboxProofs` proves the safety properties of the run `relay`, for any events, of which any may always
be refused, any invocations, batch size, retries and number of faults (`OutboxAssumption`; "none"
is the value of `serving` when no invocation is waited for, and so is no worker):

- `NothingForgotten` needs to be known of the invocation that the event source waits for: it has the
  batch, and each record it has gone through is delivered or among its failures (`Served`). The answer
  then leaves nothing undone below the lowest failure. `Running` says of every invocation, given up or
  not, that it is at a record of the stream, and that the message is on the topic before the mark.
- `TypeCorrect` (`TypeOK`), `PublishedBeforeDelivered` (`DeliveredWasPublished`), `NoneForgotten`
  (`NothingForgotten`) and `DeliveredOnce` (`DeliveredStays`).

`ReconcilerProofs` proves of the due index, for any reservations, of which any may always fail, any
limit and any time from Checkout to reconciliation (`ReconcilerAssumption`):

- `TypeCorrect` (`TypeOK`): the index holds the active reservations, each once, in the order in which
  they are due. `Ordered` says this by positions, and `QueueWithout` and `QueueWith` that it survives the
  removal of one and the insertion of one where its time belongs. That no run meets a reservation it
  has itself put off rests on `PageOK`: what is listed is listed once, and is due until it is settled.
- `NobodyOvertakes`: while a reservation is due, those ahead of it (`Ahead`) only become fewer, whatever
  runs, events and Checkouts do. With runs that reach their first reservation again and again this is
  why each is reached at last; a bound on the number of those ahead, and not on time, is all it takes.

`SubscriptionProofs` proves all that the run `subscription` checks, for any workers, keys, events and
bounds (`SubscriptionAssumption`):

- An event is applied only if it is not stale, is not of the source revision that was read
  (`EventStage`), and the projection is still the one read: it is newer than all that were processed,
  and each application adds one to the projection's revision and to the applied events (`Newest`).
  A receipt that changed the access state has the next revision, which no other has (`Accounted`), and
  its command was accepted first (`AccessStage`, `ReceiptsDone`). `Asked` says that a change was asked
  for only at the time stored under its key.
- `TypeCorrect` (`TypeOK`), `ProjectionNewest` (`ProjectionIsNewest`), `EveryAccessAccounted`
  (`AccessAccounted`) and `OneChangeAsked` (`OnePlanChange`). The bound of `projection.revision` in
  `TypeOK` follows from `ProjectionIsNewest`, by counting.

`CatalogProofs` proves all that the run `catalog` checks, for any workers, keys and names and any bound
on the presentation's revision (`CatalogAssumption`):

- That the provider is at most one step ahead of the stored version rests on two facts about every
  invocation: its advance has given its commands, or still will (`Advancing`); and a command it has
  still to give does not move the provider, was given before, or is for the version's next state
  (`Harmless`). `Earlier` says of the store's second reading that it is the version, or behind it in
  a revision. `Counted` relates the revisions to the number of receipts.
- `TypeCorrect` (`TypeOK`), `ProviderStaysInStep` (`ProviderInStep`) and `NoMutationLost`
  (`NothingLost`).

`MigrationProofs` proves all that the run `migration` checks, for any workers and keys, any states under
review (but for `Readable`), any outcomes and any bound on the job's revision (`MigrationAssumption`):

- The inductive invariant `IInv` has five parts. `Typed`: types, those of what a worker carries among
  them. `Copied`: a worker about to write holds the item itself or one of a smaller storage revision,
  and has made the checks of its command on that copy. `Believed`: events, results and receipts speak
  only of what the job was. `Allowed`: a worker at the gateway with an execute has the approval stored.
  `Answered`: every answer is that of a receipt.
- `Writes` is the heart of it: since the put's condition makes the copy the item, the item's next value
  is the draft, or follows from its present one by an approval, a result or an event. `Forward` and
  `JobForward` say what these four and the job's own steps do.
- From these: `TypeCorrect` (`TypeOK`), `StoredStateHappened` (`StateWasTheJobs`),
  `ApprovalBeforeStart` (`StartedWithApproval`), `OneAnswerPerKey` (`AnswersAgree`),
  `ReceiptsTellTheTruth` (`ReceiptsAreTrue`) and `NothingRollsBack` (`OnlyForward`).
- `ItemStaysReadable`: `Spec => []Readable`, under the hypothesis that no item comes under review at the
  revision of a cancellation that is requested or completed, `{"cancel_requested", "canceled"}` and
  `ReviewedIn` being disjoint. `cancel_review` violates it with the first of the two, and TLC finds the
  same with the second: so these reports are the whole cause of the finding. The proof needs the life of
  the job (`Lived`: what follows its start follows it, and before it a cancellation is followed by its
  completion alone), where events and results come from (`Spoken`), and that a request which is still
  previewing has the revision of its preview or of a review (`Previewing`). A cancellation recorded late
  would have met such a review at or after its own revision (`LateCommand`).

The inductive invariants were checked by TLC, on the constants of a run, before they were proved.

Every invariant and every action property of a passing run is thus a theorem. Only model-checked are
`EvidenceSettles` and `HealthyDelivered`, which are liveness under fairness; `NobodyOvertakes` is what of
the first is safety. Liveness and `ENABLED` are out of the prover's reach. The induction theorems of the
library take an operator as a parameter, which no installed prover can instantiate; where an argument
needs induction over a natural number, it goes by a least counterexample (`WFMin`,
`NatLessThanWellFounded`): for the sums of the ledger and for the lowest failure in `OutboxProofs`.

## Not modelled

Parsing, validation, signatures, authentication and response building are stateless and change no
item. `commit_reservation` has no caller outside the tests. `quarantine_due_marker` touches only
malformed markers, which no transaction writes. Discounts on subscriptions, the customer portal and
changes of plan at the next renewal keep no local state; the status of a migration and every list or
public projection only reads. The session a Checkout opens at the provider and the cache of the
published policy are not modelled yet. `PROJECT.json` gives the status of every part.

## Plan

Done: `CommerceStore` with `Escrow`, `Migration`, `FiscalAccess`, `Outbox`, `Reconciler`, `Subscription`
and `Catalog`, and the proofs of all the safety properties their passing runs check. To come, in this order:

1. `CheckoutSession`: the checkout's retries and the provider's session beside the reservation.
2. `PolicyCache`.
