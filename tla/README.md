# Verification of the flash-sale order pipeline

TLA+ models of the order pipeline in `src/src`, the TLC runs that check them
and the theorems TLAPS proves about them. Paths below are relative to the
repository; `P` stands for `src/src/services/orders/order-processing.service.ts`,
`O` for `.../orders.service.ts`, `I` for `.../idempotency.service.ts`, and other files are named from `src/src` on.

## 1. Inventory

The program is an API and any number of workers, separate Node processes that
share MySQL, Redis and a BullMQ queue (which lives in Redis too). A client
posts an order with an idempotency key; the API claims the key, stores the
order as `PENDING` and queues a job; a worker decides it.

| Component | State it keeps | Operations | Interacts with |
|---|---|---|---|
| Order placement (`OrdersService.placeOrder`) | none of its own; rows of `orders` | place an order, answer a repeated one | idempotency claims, MySQL, queue |
| Idempotency (`IdempotencyService`) | Redis `tenant:{t}:idem:{k}` (the answer) and `...:idem:lock:{k}` | `tryClaimEnqueue`, `getCached`, `updateFinal` | called by placement and by the workers |
| Job queue (BullMQ `orders`) | jobs: state, lock, attempts, stalls | add, hand out, complete, fail, stall, remove | fed by the API, drained by the workers |
| Order worker (`worker.ts`, `OrderProcessingService`, `StockDeductionService`, `CampaignValidationService`) | rows of `orders` and `products`; InnoDB locks | `processOrder`: read, transaction (window, limit, lock, deduct, save, publish), commit | queue, MySQL, Redis, metrics |
| Tables and migration | `orders`, `products`, `campaigns` and their unique indexes | - | everything |
| Order queries | none | `getOrder`, `listOrders` with a cursor | MySQL |
| Catalogue (`ProductsService`, `CampaignsService`) | `products`, `flash_sale_campaigns` | create, list, find | MySQL; the workers rely on what it lets through |
| Metrics | counters, window of 10000 latencies, per process | count, time, summarise | HTTP middleware, worker |
| HTTP layer (`createApp`, middleware, routers) | AsyncLocalStorage of the tenant; the life of a request and its response | parse, count, check the tenant and the body, route, turn errors into answers, `/health`, `/metrics` | services, metrics, MySQL, Redis |
| Bootstrap, configuration, OpenAPI | - | start, migrate, shut down | - |

What is hard in it:

* **Interleaving.** Two workers may decide two orders of one product, or of one
  buyer, at once (P:59-169). Two requests may carry one key (I:40-67).
* **Isolation.** The transaction mixes reads of its snapshot (campaign, sum of
  the limit check), a shared locking read (the product), an `UPDATE` of the
  current row and TypeORM's `save`, which writes only the columns it believes
  changed. What each of them sees differs.
* **Three stores, no common commit.** MySQL, Redis and the queue are written one
  after the other, and any write may fail, be executed without an answer, or be
  followed by a crash. Redis is written *before* MySQL commits (P:154).
* **At-least-once delivery.** A job is retried three times, redelivered when its
  lock runs out, and may be at work in two workers.
* **Time.** The campaign's window moves past while jobs wait; locks (30 s) and
  cached answers expire.
* **Check, then insert.** Products are created after a `SELECT` that finds no such
  SKU, campaigns after one that finds the product; other requests run in between.
* **Errors in the middle.** A handler may fail at any `await`, before or after the
  row is there, its client may close the connection, and while Redis is down a
  command neither succeeds nor fails (`maxRetriesPerRequest: null`).

What makes each component correct:

* *Worker*: stock neither lost nor created; no overselling; the per-user limit;
  each order decided once, for a reason that is true; nothing confirmed outside
  its campaign's window; tables, cache and queue in agreement once a job is
  complete; every job settles, every order is decided.
* *Placement*: a key queues at most one job; no job without a row; one claimant
  at a time; no key locked for good; what a client was told is backed by state.
* *Both together*: an order whose client was told `PENDING` is decided, and an
  outcome a client was told is the one the order keeps.
* *Queries*: following the cursors visits every row once.
* *Catalogue*: campaigns are what the workers take for granted; an answer says what
  was stored.
* *Metrics*: requests and samples agree with what was answered; the window is the
  newest samples and the percentile is theirs.
* *HTTP layer*: every request is answered once, whatever fails on the way.

`PROJECT.json` lists the components with what is modelled of each, the hazards at
the line where each bites, and for every definition the lines it models.

## 2. Modules

```
OrderStore          tables and cache; campaign, limit and stock rules
  │   OrderStoreProofs           lemmas: sums over sets of orders
  └ JobQueue        BullMQ as the code relies on it
      │   JobQueueProofs         lemmas: what each operation does to a job
      ├ OrderProcessing        the workers   ── refines ──> Inventory
      │   ├ MCOrderProcessing        instances for TLC
      │   ├ OrderProcessingProofs    theorems
      │   └ OrderSystem        requests and workers ── refines ──> OrderPlacement
      │       ├ MCOrderSystem                       ── refines ──> Inventory
      │       └ OrderSystemProofs
      └ OrderPlacement         the API's side of an order
          ├ MCOrderPlacement
          └ OrderPlacementProofs
Pagination          the order list and its cursor
  └ PaginationProofs
Metrics             request counter and latency window
  │   MetricsProofs              lemmas: sorting and counting samples
  └ HttpApi         middleware, products, campaigns, health, metrics
      ├ MCHttpApi
      └ HttpApiProofs
```

**`OrderStore`.** `orders`, `stock` and `cache` are the committed row of each
order (status and reason), the committed `products.stock`, and the cached
answer. An order *is* its pair (tenant, idempotency key), the unique index of
the migration; what was asked for is the constant `Request`, because a row's
request never changes. Products and campaigns are constants: no code deletes
or changes them, apart from the stock. `Saved` is TypeORM's column-wise `save`.

**`JobQueue`.** A job is waiting, active under a worker's lock, completed, failed
or absent. `FailAttempt` and `Finish` do nothing for a worker that has lost the
lock. `Stall` is BullMQ's stalled-job check. A job in backoff is a waiting job
nobody takes yet.

**`OrderProcessing`.** One phase per `await` of `processOrder`, so every
interleaving the event loops and the database allow is there:

| Action | Code |
|---|---|
| `Fetch` | BullMQ hands a job to `worker.ts` |
| `FindDecided`, `FindPending`, `Replay` | the read before the transaction and the early return (P:46-57) |
| `Begin` | the campaign `SELECT`, which fixes the snapshot, the window check and the limit check, whose sum is read from that snapshot (P:60-102) |
| `ShareProduct` | the `pessimistic_read` of the product (P:104-107) |
| `SendDeduction`, `Deduct` | `deductAtomic`: queue for the exclusive lock, then the conditional `UPDATE` |
| `SaveOrder`, `Publish`, `Commit` | `manager.save`, `finalizeIdempotency`, and the end of the transaction |
| `Complete` | the processor returns; BullMQ completes the job |
| `Deadlock`, `CallFails`, `CommitUnanswered`, `Crash`, `LoseLock` | what else may end an attempt |

Row locks are state functions of the phases (`SharesProduct`, `AwaitsProduct`,
`LocksProduct`, `LocksOrder`), since a worker's place in the code says which locks
it holds. Writes become visible at `Commit`.

**`Inventory`** is the abstract specification of the pipeline: an order is placed,
then decided at most once, and a confirmation takes its units in the same step
and only while there are enough. `ImplementsInventory` maps it to the two tables.

**`OrderPlacement`.** One action per call to Redis, MySQL or the queue in
`placeOrder` and `tryClaimEnqueue`, named after the call; `at[r]` is the next call
of request `r`. `CallFails`, `InsertUnanswered`, `LockResent` and `Crash` are the
failures; `LockExpires` and `CacheExpires` the times to live; `RemoveJob` is
`removeOnComplete` / `removeOnFail`. `WorkerTakes`, `WorkerPublishes`, `WorkerDecides`
and `WorkerReturns` are what a request can see of the workers: an outcome that
appears in Redis, a row that is decided once, a job that is handed out, failed, lost
or completed. As in `processOrder` (P:154, P:169) nothing is committed that was not
published first: `published[o]` is what a worker has written to Redis and not yet
committed, and a failed or dead attempt withdraws it, though not from Redis. `Column` is what MySQL makes of
a key: under the default collation keys that differ in case are one to the
unique index (`Duplicates`), and a key longer than 128 characters is refused
(`TooLong`), while Redis and the queue take any key. `SlowKeys` are the keys whose requests may
outlast a time to live: with it empty the model is that of a healthy system,
otherwise a request may find its own lock or claim gone.

**`OrderSystem`** puts the real workers in the place of the abstract ones: a step is
one of `OrderPlacement`'s requests (or an expiry or a removed job) or one of
`OrderProcessing`'s workers, over one `orders`, `stock`, `cache` and `jobs`.
`ImplementsPlacement` says that the workers do no more than `OrderPlacement` lets
them, where its `published` stands for the decisions of the workers that are at their
commit (`Uncommitted`); so that what holds of the requests there holds of the composition;
`PromisesQueued`, `AnswersStand`, `FinalAnswersHold` and `PromisesKept` are about what
clients are told, which neither side can keep alone: the first two say what is true
from the answer on, the other two what it comes to.

**`Pagination`.** A client follows `GET /orders` from cursor to cursor
(`ListOrders`, O:133-176) while orders are inserted (`Save`, and later `CommitSave`:
`created_at` is the time of the `INSERT`, not of its commit), decided and time
passes. `created_at` is counted in microseconds and the cursor in milliseconds
(`ToDate`), as in MySQL and JavaScript. `page` is the last page, `shown` the earlier
ones, `wanted` the rows that matched when the listing began.

**`Metrics`** is `MetricsService` in one process. `timings` is a history variable:
every latency since the process started, of which `latencies` should be the end.
`Ascending` is any permutation that sorts the window: which of the equal samples
comes first makes no difference to a percentile, and a sorting function of the
community modules would be opaque to the provers.

**`HttpApi`** is one API process. A step of a request runs from one `await` to the
next; the id of a row is drawn for the request that inserts it, so the request
stands for the id:

| Action | Code |
|---|---|
| `ParseFails` | `express.json` throws: before the metrics (app.ts:16) |
| `Receive` | metrics, tenant, body and window are checked, up to the first `await` (app.ts:17-26, middleware, campaigns.service.ts:18-26) |
| `FindSku`, `InsertProduct` | `ProductsService.create` |
| `FindProduct`, `InsertCampaign` | `CampaignsService.create` |
| `ReadProduct` | `ProductsService.findById` |
| `QueryDatabase`, `PingRedis` | `GET /health` |
| `Finish`, `Leave` | the response's `finish`, or a client that does not wait for it |
| `CallFails`, `InsertUnanswered`, `Crash` | a query that throws, an `INSERT` whose answer is lost, the end of the process |

`form` is all that is left of a body: `malformed` (no JSON), `invalid` (refused by
the schema of a route that has one) or `valid`; `amount` is the stock or `max_per_user`, which the schemas do
not bound from above and MySQL does (`Fits`).

Operators introduced by a comment "Mutant of ..." are plausible bugs in the
definition that follows. Nothing uses them; they serve to show that the
properties can fail.

## 3. Runs

| Run | Instance | Shows |
|---|---|---|
| `two_workers` | 2 workers, 2 orders, 1 unit, faults, clock 0..2 | stock, refusals, agreement, window, `Inventory`, every job settles |
| `system` | 1 worker, 3 requests, 2 orders of one buyer under a limit of 1, expiring answers, no faults | the composition refines `OrderPlacement` and `Inventory`; the limit holds with one worker; `PENDING` means queued and is followed by a decision, an outcome that was told is never taken back and becomes the order's |
| `placement` | 3 requests for 2 keys that MySQL takes for one, faults; `prompt` (its requests are faster than the times to live) and `slow` | one claimant at a time; the unique index lets one request through to the queue even where claims run out; locks do not stay |
| `pages` | 4 orders, pages of 2, clock 0..3 with 2 µs in a ms, `status=PENDING` | no order is listed twice; what is left out shares a millisecond with the end of a page; the listing ends |
| `http` | 4 requests of 2 tenants, 1 SKU, `INT UNSIGNED` up to 1, a window of 3 samples, faults, a client that may leave | campaigns the workers can rely on, answers that say what is stored, counters and window that agree with the answers, every request answered |

Runs that find a disagreement between the code and what the repository says of it
(details and quotations under `findings` in `PROJECT.json`):

| Run | The code ... |
|---|---|
| `limit_race` | lets two workers confirm two orders of one buyer beyond `max_per_user`: the sum is read without a lock |
| `stalled_twice` | deducts an order's units twice when its job's lock runs out under a live worker and a second one takes it |
| `answer_changed` | publishes `CONFIRMED` before a commit that fails, and `REJECTED` after the retry, which finds the stock taken |
| `left_pending` | leaves an order `PENDING` for good though nothing failed: it was the victim of three deadlocks, and the reconciliation job of ARCHITECTURE.md:118 does not exist |
| `pending_not_queued` | answers `PENDING` for an order that is neither stored nor queued |
| `skipped` | leaves orders out of the list: the cursor drops the microseconds of `created_at`, so the rest of that millisecond is never shown |
| `stale_pending` | sets `PENDING` after the worker has published the outcome, when a retry finds the cached answer expired, and leaves it there though the order is decided |

**Bounds.** The orders, workers and requests are the smallest at which the
interesting cases happen. Two workers suffice for every conflict on a row, since a
lock conflict and a deadlock are between two transactions here; two orders
compete for the last unit; three orders of two buyers separate the limit from
the stock; four orders let one of them be the victim of three deadlocks.

`placement`: three requests are needed for one to delete the lock of the second while
the third claims. There are two keys, one whose requests are faster than the
times to live and one whose are not, and MySQL takes them for one: otherwise
requests with different keys would share no lock, no answer, no row and no job. The
`CONSTRAINT` `SlowLast` looks at one order of the requests only: they are
interchangeable, and `Receive`, which it restricts, is not fair. Requests treat all
outcomes alike, so the product has no stock (`REJECTED` stands for both outcomes),
`OneReason` leaves one reason, and a job has one attempt: a second one leaves a
request nothing new to see. Keys too long for their column are in the model and
the proofs but in no run.

`system`: three requests for two keys, so that two or all three share one; one
worker with its crashes left out, because what they add is checked in
`two_workers` and proved; the stock is enough for both orders, so that the limit
alone decides.

`http`: `r1` and `r2` race for one SKU (`r2` possibly for another tenant, without one, or
with a stock that does not fit), `r3` creates a campaign for the product of `r1`, and
`r4` reads that product or asks for health or metrics and may leave; `MCHttpApi`
lists the calls. The requests take different times, and a window of three is
overrun by the fourth.

`pages`: two microseconds in a millisecond are enough for a time that truncation
changes and one that it does not; four orders and pages of two make pages that
end within a millisecond and between two.

The runs that find a disagreement are as small as the disagreement: `stalled_twice` has
one order and more stock than it asks for, so that a second deduction goes through;
`answer_changed` two orders of different buyers for the last unit, so that the one takes
what the other was promised; `stale_pending` two requests for one order and no failures;
`left_pending` four orders.

`MaxAttempts` is 3 as in O:113 (but see `placement`); `MaxStalls` is BullMQ's default
1, and 0 in `placement`. `Horizon` bounds the clock: at 2 the campaign of `two_workers`
(start 1, end 2) is seen before, during and after; at 0 there is no question
about the window and the campaign is open throughout.

`CHECK_DEADLOCK FALSE` is given throughout because the models come to rest:
when all jobs are done and all requests answered there is nothing left to do.
Database deadlocks are not TLC deadlocks; they are the action `Deadlock`.

**Fairness.** A request or a worker in a live process takes its next step (Node's
event loop runs ready continuations; drivers answer or throw; InnoDB grants a
free lock and resolves a deadlock), an idle worker takes a waiting job, the
stalled check finds an orphaned job (BullMQ runs it in every worker), and Redis
drops an expired lock. A client that lists goes on to ask for the next page, and one
that does not leave takes its answer. All of it is weak fairness. Failures,
crashes, slow renewals, the clock, clients that leave and expiring answers are
never fair, and neither is `PingRedis`: while Redis is down a command waits for
good, so `EveryRequestAnswered` excepts a request that waits for it: that `GET /health` answers
during an outage of Redis is neither true nor claimed here.

`PromisesQueued`, `AnswersStand`, `FinalAnswersHold` and `PromisesKept` are properties of
a system in which nothing fails: with failures `answer_changed` and `pending_not_queued` refute them. They are
checked with one worker, since with two even a system without failures leaves
orders undecided (`left_pending`).

## 4. Proofs

Checked by TLAPS for any orders, workers, products, requests and bounds, under
the assumptions the modules name (the ranges that the request schemas enforce;
placeholders such as `NoOrder` distinct from values).

`OrderProcessingProofs`:

* `TypeCorrect`, `NothingConfirmedEarly`: by `SafeInv`. That `stock \in Nat` survives
  `Commit` needs more than types: a worker that has decided `CONFIRMED` still sees
  enough stock when it commits (`Guarded`), because until then it holds the
  product's exclusive lock and no one else does (`Exclusive`). It holds even
  when two workers process one job, so overselling is excluded unconditionally.
* `NothingConfirmedLate`: once a campaign is over and an order is undecided and
  not past the check of the window in any worker, that condition (`Shut`) is stable.
* `CompletedJobsAreAnswered` and `WorkersImplementInventory`: under `Undisturbed`
  (locks run out only under dead workers, or there is one worker only), by
  `OwnInv`: no two workers are at work on one undecided order, so what a worker
  read of the order's row is still there when it writes it. Without the
  assumption both fail: see `stalled_twice`.
* `StockIsConserved` and `RefusalsAreJustified`, under the same assumption and for a
  finite set of orders: the sums are over the folds of the community modules, and
  `OrderStoreProofs` shows what they need (adding an order adds its quantity, a
  larger set has no smaller sum), by a minimal counterexample in place of
  induction. A refusal stays justified because stock never rises and confirmed
  units never fall.
* `OverrunIsBounded`: the limit is checked on a snapshot, so several workers can pass
  the check at once and `limit_race` refutes `LimitRespected`. What a buyer can come to
  have is `Taken`: what is confirmed and what has passed the check in some worker.
  When an order passes, everything confirmed and the order itself fit the limit, and
  each of the other workers has one order past the check at most; no other step adds to
  `Taken`. So a buyer gets no more than `max_per_user` and one order for every other
  worker, whatever fails and even if two workers process one job
  (`LimitNearlyRespected`). No run has it as a property, because only three orders of one
  buyer could exceed the bound; it was checked on such an instance before it was
  proved. `OneWorkerRespectsLimit` is the case of no other worker.
* `FinalAnswersAreKept`: what `answer_changed` refutes holds under `Undisturbed` where
  no call fails and no process dies. An outcome in Redis is the row's, or that of a
  worker with nothing left but its commit (`Behind`), and without failures the commit
  follows.

`JobQueueProofs` has the lemmas about what each operation of the queue does.

`OrderPlacementProofs`: `JobsAlwaysHaveRows`, `OneRequestQueues` and
`ClaimsAreExclusive`, by one invariant: of an absent row there is no job and nobody
about to queue it; a row that some request is about to queue is still pending and
has no job, and no other request is about to queue it; in a key that is not slow,
who holds the lock is who set it, and a claim is backed by the cached answer.

`PaginationProofs`, for any table, page size, filter and number of microseconds in
a millisecond: `PagesAlwaysDescend` (the cursor has passed all that was listed:
truncating it can only move it further on) and `SkipsAreBounded` (a wanted order is
listed, still beyond the cursor, or hidden by a listed one of its millisecond).

`OrderSystemProofs`: `SystemImplementsPlacement` while locks run out only under dead
workers (the step of a worker is a step of the environment of `OrderPlacement` or
changes nothing a request sees; a worker that owns its job is the only one that can
have published and not committed an outcome of its order, so that its commit and its
failure move `Uncommitted` as `OrderPlacement` moves `published`), and `SystemImplementsInventory`,
`SystemConservesStock` and `SystemRefusesJustly` under `Undisturbed`: the invariants of
`OrderProcessing` survive the steps of the requests, which touch only rows and jobs
that are not there yet. With those invariants, or with `SafeInv` alone:

* `SystemOverrunIsBounded` and `SystemRespectsLimit`: the bound and, with one worker, the
  limit itself hold while orders come in, keys are repeated and jobs are removed,
  whatever fails and whatever locks run out. A request confirms nothing and passes no
  check, so `Taken` is as it was.
* `SystemPlacesOnce`: what `OrderPlacementProofs` shows of requests among abstract
  workers holds among the real ones. The step from one to the other is the
  refinement: the theorems of `OrderPlacement` are instantiated with the system's
  variables, which satisfy its `Spec` by `SystemImplementsPlacement`.
* `AnswersAreFinal`: under `Undisturbed`, without failures, and if no two keys that fit
  their column are one to MySQL (`KeysDiffer`), an outcome a client was told is the
  row's or about to be committed, and stays so (`AnswersStand`). The invariant
  (`AnsweredInv`) follows an outcome from the row through Redis and the memory of a
  request to the client: at each place it is `Settled`, which no step undoes. Without
  `KeysDiffer` a request for "A" is answered with the outcome of "a".
* `PendingIsAlwaysQueued`, the counterpart for `PENDING` and for the refuted
  `PendingIsQueued`: with one worker, no failures, `KeysDiffer` and keys that fit their
  column (`NothingLost`; locks may run out under the live worker, unless a single stall
  fails a job), whatever lets a request answer `PENDING` (an answer in Redis, a
  lookup that saw one) means that the row is there or some request has the claim to
  insert it (`PromisesPlaced`); a row is queued or its request is about to queue it
  (`RowsQueued`); and a job ends only with a decided order, since one whose lock ran out
  waits until the worker is through with it (`JobsInHand`). Claims, locks
  and answers may expire under a request: the unique index makes up for it. Each
  hypothesis is needed: two workers can lose a job to deadlocks (`left_pending`), a
  failing call can lose the row or the job (`pending_not_queued`), and a key that is too
  long, or one with another, leaves its claim without a row.

`HttpApiProofs`, by one invariant (a row's request has got as far as its `INSERT`; an
answer fits the rows): `AnswersAreTyped`, `CampaignsAreAcceptable`,
`AnswersTellTheTruth`, and `WindowStaysNewest` for a window of any size. `CountersTellTheSameStory`
counts by the cardinality theorems of the library: a step adds one request to
`Counted`, or to those of them that are finished, or none, and a crash forgets all. `SlowestTwentiethIsMarkedOff` needs
no invariant but that latencies are numbers: `MetricsProofs` shows that a sorting
permutation exists, that it keeps the number of samples that pass a test, and that in an
ascending sequence the samples from the index of the p95 on are those counted.

Only model-checked: everything under fairness, which the prover cannot treat
(`EveryJobSettles`, `EveryOrderDecided`, `FinalAnswersHold`, `PromisesKept`, `LocksAreReleased`,
`ListingEnds`, `EveryRequestAnswered`). Of `FinalAnswersHold` and `PromisesKept` the safety
half is proved, by `AnswersAreFinal` and `PendingIsAlwaysQueued`.

## 5. What the models leave out

* Ids, prices, names, time stamps, logging, and the rest of the payloads.
  `product_name`, `unit_price` and totals do not influence a decision.
* The request body is a function of its key: a client that reuses a key for a
  different order gets the first one's answer, whichever body it sends.
* In `OrderProcessing` cached answers do not expire and nothing is removed from
  the queue; in `OrderPlacement` the workers are abstract. `OrderSystem` has both.
* A rollback and the job's `moveToFailed` are one step; so are the answer to an
  `UPDATE` and its execution, unless the loss of the answer matters (`COMMIT`,
  `INSERT`, `SET NX`).
* Branches no state reaches: an order's row missing in `processOrder` (see
  `JobsHaveRows`); `DUPLICATE_ORDER`, which no code assigns.
* Cursors a client makes up; the tenant condition of the queries (the rows of
  `Pagination` are one tenant's); `getOrder`, which reads one row.
* `recordRejection`, a counter in the worker's process that no route serves; the
  histogram of `GET /metrics`, which counts samples per bound; the graceful
  shutdown, which to a request or a job is a failing call or a crash.
* The lists of products and campaigns and the lookup of one campaign: queries that
  change and decide nothing, of the form of `ReadProduct`. Tenants are kept apart by
  the condition of each query; the AsyncLocalStorage that carries them is Node's.
* Two API processes in `HttpApi`: its requests interleave at every `await` as those
  of two processes do, and the metrics are those of one.
* BullMQ refuses some custom job ids with colons; to `placeOrder` that is one more
  failure of `queue.add`. Keys such as `lock:k`, whose answer shares a Redis key
  with the lock of `k`, are not distinguished.
* Start-up, configuration, migrations and the OpenAPI document: sequential or
  static.

## 6. Plan

Done: the core (`OrderStore`, `JobQueue`, `OrderProcessing`, `Inventory`), the API side
(`OrderPlacement`), their composition (`OrderSystem`), the order list (`Pagination`),
the catalogue, the metrics and the HTTP layer (`Metrics`, `HttpApi`), and the
theorems above. What could follow:

1. `NoStalePending` under a hypothesis as weak as it can be: it needs answers that do
   not expire while a client repeats its request.
2. `PendingIsAlwaysQueued` with several workers, where it holds of orders that are no
   victim of three deadlocks.
3. The counting of rejections by retried attempts, should a route ever serve it.
