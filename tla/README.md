# Fulcrum in TLA+

TLA+ specifications of Fulcrum, an order processing API (Express, TypeScript,
PostgreSQL), with TLC instances that check them and TLAPS proofs about them.
Line numbers refer to the sources under `src/src/` unless they name a file of
`src/`.

## The system

One Node process serves HTTP requests on one event loop. A request runs until
it awaits a SQL statement; other requests run meanwhile, and any number of
them are between two statements at any time. All durable state is in
PostgreSQL, at its default isolation level READ COMMITTED. In memory there are
only the pool of connections and the counters of the rate limiter.

| Component | State | Operations | Modelled in |
| --- | --- | --- | --- |
| Orders (`services/orderService.ts`, `store/orderStore.ts`) | `orders.status`, items | create, change status (staff), cancel | `Workflow`, `Engine`, `Checkout` |
| Returns (`services/returnService.ts`, `store/returnStore.ts`) | `return_requests.status` | request, approve, reject, ship, receive | `Workflow`, `Engine` |
| Refunds (`services/refundService.ts`, `store/refundStore.ts`) | `refunds.status` | create, complete, fail | `Workflow`, `Engine` |
| Idempotency (`middleware/idempotency.ts`) | `idempotency_keys` | claim, replay, complete, release | `OnceOnly`, `Idempotency` |
| Transactions (`db/client.ts`) | connections, row locks | begin, commit, roll back | `Engine` (locks), `ConnectionPool` |
| Schema (`db/migrations`, `db/migrate.ts`) | tables, indexes | migrate up and down | `Schema` (tables, indexes), `Migrations` |
| Authentication (`services/authService.ts`, `middleware/requireAuth.ts`) | accounts | register, log in | guards before the modelled operations |
| Catalogue (`store/productStore.ts`, `db/seed.ts`) | `products` | seed, deactivate, price an order | `Checkout` |
| Totals, report, reads of orders (`store/orderStore.ts` 76-284) | none | read | `Checkout` |
| Rate limits, validation, errors, configuration | in memory or none | | not modelled |

How they interact:

* A route calls one service operation. A service reads a row, decides, and
  then either sends one compare-and-set `UPDATE ... WHERE status = $3` or runs
  one transaction under `SELECT ... FOR UPDATE`.
* The operations of returns and refunds also write their parents: requesting a
  return moves the order to `return_requested`, rejecting it moves the order
  back, completing a refund moves the refund, the return and the order.
* Staff also move orders by hand with `PATCH /orders/:orderId/status`, which
  knows the table `validTransitions` and nothing of returns.
* Three routes are wrapped by the idempotency middleware, which replaces
  `res.json` and listens for the `close` event of the response.

What is hard: a status read before an await and used after it; transactions
that check statuses and then write without checking; several row locks per
transaction; one `UPDATE` racing a transaction; long sequences of legal calls
(fail, retry, reject, request again, manual updates); requests, connections
and the process failing at any point; clients that retry; connections that are
fewer than the requests; reads of several statements without a transaction; a
catalogue and a schema that change under a running system. `PROJECT.json` lists
these hazards at their lines.

## Modules

```text
OrderStates      statuses, transition tables
 |     \
 |     Schema        tables, foreign keys; properties of the tables
 |    /        \
 | Workflow     Engine
 |                |
 |              ConnectionPool
 |
Checkout

Idempotency     Migrations     OnceOnly     Settlement
```

Lines are EXTENDS. The refinements are

```text
ConnectionPool  --implements-->  Engine  --implements-->  Workflow  --implements-->  Settlement
Idempotency     --implements-->  OnceOnly
```

`MC<module>` is the instance for TLC and `<module>Proofs` holds the theorems, for
`Workflow`, `Engine`, `ConnectionPool`, `Checkout`, `Idempotency` and
`Migrations`.

**`OrderStates`** has the status types and the two transition tables as sets of
pairs. `DeskTargets` are the statuses the return routes can ask for.

**`Schema`** has the three tables as functions from ids to statuses. An id
determines its parent (`ItemOrder`, `ReturnItem`, `RefundReturn` are
constants): an insert picks an unused id with the right parent. The finite
sets of ids are the bounds of a model, and an insert without an unused id
fails. `StaffMoves` says which status updates staff may send for each order: a
pair `<<from, to>>` is a request for `to` that reaches the order in `from`. With
all pairs, a staff update may reach the order at any time; `FulfilmentOnly(o)`
orders are updated by hand only before they are delivered. `InitialOrders` are the
order tables a model may start from. The module also states
the properties of the tables, which both `Workflow` and `Engine` are checked
against.

**`Settlement`** is what orders, returns and refunds promise about money, without
a word on statuses: `back` are the returns whose goods have been received, `paid`
the refunds that are completed. Goods that came back stay back; a refund is paid
only for a return that is back, and only if no refund of the order was paid; a
payment is never undone. `Schema` maps the tables to it (`Back`, `Paid`).

**`Workflow`** is the specification of the operations: each is one atomic
step that reads the tables in the state it changes.

**`Engine`** runs the same operations as the code does. `req[r]` is a request
in flight: its program counter, its row and the statuses it has *read*, which
it decides on later. `lock[x]` is the transaction that holds row `x`.

| Code | Steps in `Engine` |
| --- | --- |
| `createOrder` (orderService 43-98) | `InsertOrder` |
| `updateOrderStatus`, `cancelOrder` (120-149, 169-197) | `ReadForStatus` or `ReadForCancel`; `CasOrder` |
| `returnOrder` (returnService 88-149), `createReturnRequestTransaction` | `ReadForReturn`; `CreateLockOrder`, `CreateCommit` |
| approve, ship, receive (151-183) | `FindReturn` (the route), `LoadReturn`, `CasReturn` |
| reject (`rejectReturnTransaction`) | `FindReturn`, `LoadReturn`; `RejectLockReturn`, `RejectLockOrder`, `RejectCommit` |
| `processRefund` (refundService 20-53) | `FindReturn`, `LoadReturn`; `InsertRefund` |
| `completeRefund` (55-93) | `ReadForComplete`; `FailRefund`, or `RefundLockRefund`, `RefundLockReturn`, `RefundLockOrder`, `RefundCommit` |
| `withTransaction` (`db/client.ts` 9-29) | `Rollback`; `Abort` at any point |

Decisions of the model:

* One step per await. Between the last lock of a transaction and its COMMIT the
  statements are one step: their writes are invisible to others before COMMIT,
  cannot wait (the rows are locked or new) and are undone together.
* A first read that is refused (404, 409) changes nothing and is a stuttering
  step. Role and ownership checks come before any read and are left out. So
  are read-only operations.
* `Abort` ends a request at any point and rolls its transaction back: a failing
  statement, a lost connection, or (one request after the other) a crash. A
  COMMIT whose acknowledgement is lost has the effect of the commit; who is told
  what matters to `Idempotency` only.
* A plain `UPDATE` waits for the lock of its row and then evaluates its `WHERE`
  clause on the current row, as READ COMMITTED does. The insertion of a refund
  waits for its return through the foreign key, and the partial unique index of
  migration 005 refuses a second refund that is not failed.
* `findReturnItem` takes the first row of a query without `ORDER BY`:
  `FindReturn` takes any return of the item.
* `markReturnRefunded` is exported by the service, but no route calls it.

**`ConnectionPool`** extends `Engine` with the pool: `connected` are the requests
that have a connection, `queue` those that wait for one. `AskForConnection` is
`pool.connect` (which `pool.query` calls too), `RunStatement` a step of `Engine`
on a connection, which goes back unless the transaction is still open
(`KeepsConnection`), `EndAfterRead` a request that its first read refuses,
`Fail` an `Abort`. A statement that waits for a row lock keeps its connection,
in a transaction or not.

**`Checkout`** follows an order from the catalogue to those who read it. A price
stands for the name and price of a product. `StartSeed`, `UpsertProduct` and
`SeedFails` are a run of the seed script, which may stop anywhere; `Deactivate`
is done by hand, in the tests too (`src/tests/integration/products.test.ts:86`).
The products of a list may be done in any order. `AskPrices` is
`getActiveProductsByIds`; `InsertOrder`, `InsertItem`, `Commit` and `Abort` are
`insertOrder`, whose rows are `staged` until COMMIT. `MoveOrder` stands for
every operation of the other modules: it changes a status along
`validTransitions`, as `TableMoves` shows they do. A reader finds orders
(`FindById` for an order or its total, `FindByStatus` for a list) and then reads
their items one order per statement (`ReadItems`), or counts orders and then sums
revenue (`CountByStatus`, `SumRevenue`). Numbers are kept as what they are taken
from: the orders counted as earning, the rows summed. `offers` and the `moved`
orders of a report are history, for the properties only.

**`OnceOnly`** is what a key promises: of the requests sent with it at most one
takes effect, and who is told of a success is told of that one.

**`Idempotency`** is the life of the keys. `row` is the status of a key, `pc`
and `conn` what a request and its connection are doing, `ran` the requests
whose operation took effect, `reply` the result a client was told. `ClaimKey`
is the `INSERT ... ON CONFLICT DO NOTHING`, `LookupKey` the `SELECT` of the
loser, `RunOperation` the wrapped handler up to `res.json`, `PersistResult` and
`ReleaseKey` the two branches of the replaced `res.json`, `Respond` the
original one, `ClientCloses` and `CloseReleases` the close handler. `release()`
and the completing `UPDATE` name a key, not the request that claimed it, and
the model does the same. `Fault` chooses the faults of a run: clients that
disconnect while the operation runs, a lost acknowledgement of COMMIT, failing
statements on the table, crashes.

**`Migrations`** runs `migrate.ts` on a database in use. `applied` are the files
whose tables, columns and constraints exist, `run[m]` what a process running the
script does next. Each file is one query of several statements, hence one
transaction. `UpApplies` and `DownApplies` say when PostgreSQL accepts a file:
it creates what does not exist, alters and drops what does, and restores a
unique constraint only over rows that satisfy it. A run ends because all files are
executed (exit status 0), because PostgreSQL refuses a file or the connection breaks
(`StopOnError`, `LoseConnection`: both are caught and exit with 1, migrate 53-55), or
because the process goes away (`Kill`). In the last two cases the file that was sent
is applied or not (`BreakOff`). The program inserts the rows
that matter for this (`PlaceOrder`, `RequestRefund`, `FailRefund`, `ClaimKey`)
as far as the tables it needs exist.

Definitions preceded by a comment `Variant:` are plausible bugs of the
definition after them. No specification uses them; replacing a definition by
its variant makes TLC report the property listed with it in `PROJECT.json`.

## Checks

| Run | Question | Distinct states |
| --- | --- | --- |
| `MCWorkflow.cfg` | Are statuses consistent and orders paid once, operations one at a time? Do the operations implement `Settlement`? | 88,950 |
| `MCEngine.cfg` | Do interleaved requests look like operations one at a time? Do locks protect what was read? Can they deadlock? Is an order `return_requested` exactly while one return of it is open? | 182,166 |
| `MCConnectionPool.cfg` | Do requests that share too few connections wait for each other? Can one of them always go on? Is everyone answered? | 198,662 |
| `MCIdempotency.cfg` | Is an operation done at most once, with crashes and failing statements? Does the middleware implement `OnceOnly`? | 4,482 |
| `MCIdempotencySettle.cfg` | Is every key settled, and no client told of a success that did not happen, with disconnects and lost acknowledgements? Does a disconnect harm any other key, or anything before it? | 1,117,116 |
| `MCMigrations.cfg` | Is the schema ever a mixture? Are rows lost while the schema stays? Is a run that reports success right? What can a run that has begun be refused for? | 36,351 |
| `MCCheckout.cfg` | Are orders priced from one catalogue, and read whole and as sold? What may a report be wrong about? | 1,184,722 |
| `MCEngineTwoReturns.cfg`, `MCEngineRerequest.cfg`, `MCIdempotencyDisconnect.cfg`, `MCIdempotencyStuck.cfg`, `MCMigrateDown.cfg` | Disagreements between code and documentation, see below | stop at the counterexample |

Properties:

* `Settled`, `PaidOnce`, `PendingRefundIsDue`: the three tables agree about
  money. A refunded return has a completed refund and a returned order; an
  order is paid once; a pending refund is for a received return without another
  live refund.
* `TableMoves`: the statements that write statuses without consulting the
  transition tables (the SQL transactions) respect them all the same; a refund
  that was completed or failed stays so.
* `ImplementsSettlement`: every operation is a step of `Settlement` or changes
  nothing there. Unlike the invariants it speaks of order in time: the goods are
  back before the money is, and neither is taken back.
* `ReturnHoldsOrder`: an order that staff updates reach only before it is
  delivered is `return_requested` exactly while one return of it is open. Two
  requests for two items of a delivered order, a rejection that races one of them,
  or a refund completed meanwhile leave neither a second open return nor an order
  that waits for none.
* `LockedReadsFresh`: what a transaction read is true when it writes.
* `ImplementsWorkflow`: every step of `Engine` is a step of `Workflow` or
  leaves the tables alone.
* `NoLockCycle`: nobody waits in a circle for row locks.
* `PoolTypeOK`: the limit of the pool, no connection idle while somebody waits,
  nobody counted twice.
* `HoldersConnected`, `NoPoolDeadlock`, `SomeoneRuns`, `UnblockedRuns`,
  `Answered`: who holds a lock has a connection; nobody waits in a circle for
  locks and connections; of those that have a connection one waits for no row,
  and whoever waits for no row can go on; nobody waits for ever.
* `AtMostOnce`, `OneOwner`, `SameAnswer`, `CompletedForGood`, `NoFalseSuccess`,
  `InProgressIsOwned`, `KeysSettle`, `ImplementsOnceOnly`: what a key promises
  its client. `SafeUntilClose` says how far a disconnect reaches: no other key than
  its own, and nothing before it.
* `SchemaIsPrefix`, `OneRunUnderway`, `RowsGoLast`, `ExitTellsSchema`,
  `RefusedForRows`: whatever runs of the
  migrations overlap, fail or are broken off, the schema is that of the first *n*
  files; only one run gets past its first file; orders and refunds go only with
  the whole schema; who is told that all migrations were executed (migrate 51) has
  the whole schema, or none. So `002_up`, which truncates the orders, is never
  reached on a database that holds any. A run that has got past its first file is
  refused by PostgreSQL for rows only, and only on the way down. (One that loses its
  connection exits with 1 as well; the property is about what the database refuses.)
* `QuotedTogether`, `ToldTheSale`, `ReportAgrees`: the prices of an order are
  those of one moment; whoever reads an order is told what was sold, all of it,
  and a customer only of his own; a report is wrong about moved orders only.

Bounds. `MCWorkflow` has two orders and up to three returns of one order, two
of them for the same item, so that rejection, a new request, failed refunds and
other orders all meet. `MCEngine` starts from one of two databases, since no
operation touches rows of two orders. In the first, staff updates reach the order at
any time; it has two items, a return for each, two refunds for one return and one for
the other. In the second, staff updates stop at delivery (`FulfilmentOnly`), so that
`ReturnHoldsOrder` speaks of it; it has two items, two returns of one of them (the
second is requested after the first was rejected) and one of the other, and two
refunds. Two requests are concurrent: a conflict is between two, and a request
slot is used again, so any number of requests follow each other; the proofs
cover any number of each. `MCConnectionPool` has one more request than
connections and starts from a shipped order with one item, return and refund:
enough for one request to wait for a row with a connection, another for a
connection, and a third to hold the row. `MCIdempotency`
has an attempt with two retries of one key, and a request with another key, the
least that lets a retry's row be deleted by the first attempt's release and
claimed again. `MCIdempotencySettle.cfg` has the same two keys, so that a disconnect
of one key's client meets requests of another; one key with three requests is enough
for `MCIdempotencyStuck.cfg` to find its counterexample.
`MCMigrations` has two runners, one order with two refunds for one return and two
users of one key, the rows that stop a down file. `MCCheckout` has two orders,
one of two products (prices read apart need two), a price that changes, and one
reader; readers do not affect each other. Requests (and requests of one key) are interchangeable and are declared
symmetric in runs that check no liveness.

Deadlock checking is off in every run: ids and requests are finite, so a model
stops when they are used up, and clients need not send requests.
That no request is left waiting is `NoLockCycle`, `NoPoolDeadlock` and `Answered`.

Fairness. `ConnectionPool` assumes weak fairness of a started request's
`AskForConnection` and strong fairness of `Serve(r)`, its next step on a
connection: the event loop resumes each request whose statement returned, and
PostgreSQL grants a row lock to its waiters in turn, so a request is not passed
over for ever while its row is freed again and again. Weak fairness would not do,
since the row is taken in between. That connections are given out in turn needs
no fairness: the queue of the pool is first in, first out. `Fail` and the start
of requests are not fair: nothing must fail, and nobody must call. `Idempotency`
assumes weak fairness of `Serve` of all requests together: while any can be served,
one is. Requests do not wait for each other there, and each has a few steps, so in a
finite number of them none is left out. That the guarded operation ends is
`Answered`.

## Where code and documentation disagree

* `OneActiveReturn`. `src/README.md:731` has further returns wait until the
  first is resolved. The transition `return_requested -> delivered` is meant for
  rejections (`src/README.md:400`), but a `PATCH` asking for `delivered` takes it
  too (orderService 136), for instance when the delivery update is sent twice
  and the second one is late. The order can then be returned a second time with
  the first return still open, and rejecting one of the two makes completing a
  refund of the other a 409 until staff set the order by hand.
* `FindsOpenReturn`. After a rejection the item can be returned again and has
  two rows; the staff routes take `rows[0]` of a query without `ORDER BY`
  (returnStore 221) and may work on the rejected one.
* `AtMostOnce` with disconnects. The close handler frees the key while the
  operation is running (idempotency 100); a retry runs it again, which
  `src/README.md:551` excludes. Line 559 documents the release. (With `lostAck`
  for `disconnect` in the cfg, TLC finds the same for an operation that commits
  while its acknowledgement is lost: the server takes it for failed and frees
  the key, idempotency 88.)
* `KeysSettle` with crashes and failing statements. An `INSERT` that takes effect
  but fails for the server, as its connection breaks (idempotency 25-33), leaves a
  key that nobody will settle: this is TLC's trace. The `UPDATE` or `DELETE` that
  settles a key is sent once; a failure is logged and the client answered
  (idempotency 92-93). Nothing ever frees a key left in progress, by these or by
  a server that stopped (`server.ts` 6-8): every retry is refused, where
  `src/README.md:558` promises that it can be made.
* `DownReversesAll`. `npm run migrate:down` is to "reverse all migrations"
  (`src/README.md:146`), but it stops at `005_down` when a return has a failed
  and another refund, and at `004_down` when two users chose the same key. What
  it did is not recorded: afterwards `down` fails at `006_down` and `up` at
  `001_up`, and the rest must be done by hand.

## Proofs

All theorems hold for any sets of ids and requests; the only assumptions are
`ForeignKeys`, `Statuses`, `RowIds`, `Requests`, `PoolNotEmpty`, `RefundsHaveOrders` and
`Prices`, the types of the constants, and the named hypotheses below.

`WorkflowProofs`. `PaidOnce` is not inductive: nothing in it says why a second
return of a paid order cannot be refunded. `IInv` adds the reason: a refunded
return has a returned order (`RefundedIsReturned`), and no transition leaves
`returned`; a completed refund has a refunded return (`CompletedIsRefunded`)
and conversely; a pending refund has a received one (`PendingIsReceived`); the
index holds (`OneLiveRefund`). `TypeCorrect`, `SettledTogether`, `OnePayment`,
`PendingIsDue` and `MovesValid` follow from it, and with the next states so does
`Settles`, the refinement of `Settlement`: `CompleteRefund` finds the return
received (`StepSettles`), and since the order it moves to `returned` is still
`return_requested`, no refund of it was paid. `ReturnsHold` proves `ReturnHoldsOrder`,
which promises nothing of orders that staff update by hand after delivery: an update
to `return_requested`, too, would leave an order waiting for no return.

`EngineProofs`. The invariant says for each request, by its program counter:
its row exists and has the right kind (`RowExists`), what it has checked
(`Checked`), exactly which locks it holds (`LocksMatch`), and that what it read
under them is still so (`ReadsFresh`), together with the invariant of
`Workflow`. The step is in two halves: the writer's own invariant, and
`OthersKeep`: a step that only writes rows that are free or its own and keeps
the locks of others cannot disturb another request. `Refinement` then follows
action by action: under `ReadsFresh`, a commit checks what `Workflow` would
check, and a compare-and-set that succeeds did so in the state it changes.
The properties of `Workflow` hold of `Engine` too (`SettledTogether`,
`OnePayment`, `PendingIsDue`, `EngineMovesValid`), and so does the refinement of
`Settlement` (`EngineSettles`).
`DeadlockFree` orders the rows refund, return, order: a waiting request wants a
row above all it holds, so the highest row wanted in a circle is held by
a request that wants a higher one. `EngineReturnsHold` is `ReturnHoldsOrder`
through the refinement. `OneActiveReturn`, which the run of
`MCEngineTwoReturns.cfg` violates, holds as soon as no `PATCH` takes an order from
`return_requested` to `delivered` (`ReopenedByRejection`, a much weaker hypothesis:
staff may set any other status by hand): `ReturnsInTurn` and `EngineReturnsInTurn`.
`OneKept` is the invariant: the one return of an order that was not rejected keeps it
`return_requested` or `returned`, where no other can be requested. Under the same
hypothesis it shows what the query without `ORDER BY` can do where an item has several
returns (`OnlyRejectedMisleads`): the return that a staff request is given is the open
one, or a rejected one, the case of `MCEngineRerequest.cfg`; a refunded return is
never taken in place of the open one (`MisledByRejected`).

`ConnectionPoolProofs`. Each step of the pool is a step of `Engine` or leaves its
variables alone (`PoolRefinesEngine`), so the theorems about `Engine` carry over
to a pool of any size (`PoolMoneySafe`, `PoolMovesValid`, `PoolReturnsHold`), and so does the chain of
refinements down to `Settlement` (`PoolSettles`). The invariant adds that an open
transaction has a connection, hence who holds a lock has one
(`LocksAreConnected`). A circle of requests that wait for rows and connections
then contains one that waits for rows only, among those that have a connection,
which `Engine` excludes (`PoolDeadlockFree`); the same argument shows that those
that have a connection are never all blocked (`PoolKeepsRunning`). `PoolLimit`
proves `PoolTypeOK`, which is inductive once the connections are known to be
finitely many (`PoolFits`). It rests on three lemmas about queues without
repetition: who is in one after a request joined (`QueueJoined`), was served
(`HeadServed`) or died while it waited (`QueueLeft`).

`IdempotencyProofs`. `TypeCorrect` and `Honest` hold under every fault, and so does
`HarmIsLocal`: a key none of whose clients has disconnected (`Undisturbed`) has one
owner, which alone touches its row, and one result. The proof takes one key at a
time (`ExclusiveStep`, `WinnerStep`), since every statement names its key; a key
that is undisturbed after a step was so before (`ClosedForGood`). An operation whose
acknowledgement was lost may run twice, but the first time is reported to nobody, so
the result that a client was or may be told is one per key (`WinnerIsOne`). Without
lost acknowledgements the row of an operation that took effect is never deleted
(`EffectKept`), hence `TwiceOnlyAfterClose`: an operation takes effect twice only for a
key one of whose clients has disconnected, the cause of the counterexample to
`AtMostOnce`. If nobody disconnects (`NoDisconnect`), all keys are undisturbed:
`OwnersExclude`, `Replays` and `ResultsStay`, and with `NoLostAck` also `Once` and
`Implements`, the refinement of `OnceOnly`. With `disconnect`, TLC finds `OneOwner`,
`SameAnswer` and `CompletedForGood` violated too.
`OwnedInProgress` has the opposite hypothesis, `NoOutage` (no crash, no failing statement, but disconnects and lost
acknowledgements).

`MigrationsProofs`. The invariant says what schema a run underway has reached
(`UnderwayReached`), which makes the file it applies next the right one
(`FileFits`) and every other run one that has not begun or cannot go on
(`OthersWait`): `SchemaSound` and `RunsTakeTurns`. What a file leaves does not depend
on what becomes of the run that sent it (`CommitLeaves`), so a run that is broken off
after its file took effect does no harm (`LostAnswerInv`). The last file it applies then
leaves the schema it reports (`ReportsAreTrue`). An up run that has begun found an
empty schema, and nothing is placed before its end (`NothingToWipe`): `RowsAreSafe`.
Since a run underway has the schema it reached, whatever others do, its next file
finds what it needs and only rows can refuse it (`OnlyRowsRefuse`):
`RefusedOnlyForRows`. It follows that `DownReversesAll` fails for the rows of its
counterexample and for nothing else: without a return with two refunds and a key name
of two users (`Restorable`), it holds (`DownReversesOtherwise`).

`CheckoutProofs`. An order is in the table only complete (`Sold`), and then it
stays with what it was sold for (`OrdersStay`), so that a reader between two
statements knows something that remains true (`FoundOwn`): `Snapshots`. Between
the statements of a report the orders counted and those earning differ by moved
orders (`CountedOrMoved`): `ReportSound`. `Priced` needs that the present
catalogue is among those a waiting request may be quoted (`OfferNoted`).

Only model-checked: `Answered` and `KeysSettle` (liveness under fairness) and
`UnblockedRuns` (`ENABLED`), which are out of reach of TLAPS. Every other property
of a passing run is a theorem, and so is, for each safety property the code violates,
what it is violated for. That `KeysSettle` fails for crashes and failing statements
only is liveness again; its safety half is `OwnedInProgress`.

## Not modelled

* Authentication: registering is one `INSERT` decided by the unique index on
  email, logging in one `SELECT`, and tokens are checked without state. A token
  is valid for an hour whatever happens to the account; no operation changes or
  deletes one. Roles are guards in front of the modelled operations.
* Rate limits (a library with two limits, counts in memory), request validation,
  error mapping, start-up and configuration: no durable state, no interleaving
  of their own.
* The reads of returns and refunds: single statements with the same customer
  filter as the reads of orders.
* Quantities of returns and the 30-day window (returnService 110-139), which are
  compared with what the order says and refuse a request or not; the window counts
  from the creation of the order, as `src/openapi.yaml:364` says, where the message
  at line 138 of returnService speaks of delivery.
* The amount of a refund: any positive number staff send, never compared with the
  items returned (refundService 20-53). No document says that it should be.
* `request_path` and `request_method` of a key, which are stored and never compared:
  a key belongs to a user, and what using it for two operations means is not
  documented.
