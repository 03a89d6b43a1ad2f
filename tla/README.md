# TLA+ specification of wurzburg

wurzburg is a payment backend: an axum HTTP service that keeps its business
records in PostgreSQL, a cache in Redis, credentials and topics in Kafka, and
the money itself in a TigerBeetle ledger.  This directory specifies the parts
of it whose correctness depends on the order in which concurrent requests,
batches, locks, caches and crashes meet.  All paths below are relative to the
repository; the crate is in `src/`.

## 1. Inventory

| Component | Code | State it keeps | Operations |
|---|---|---|---|
| TigerBeetle client and worker | `src/tigerbeetle/client.rs`, `worker.rs`, `operations.rs`, `commands.rs` | a bounded mpsc channel, four buffers of commands with their oneshot responders, a timer | `create_transfer`, `create_account`, `lookup_account`, `lookup_transfer`, `lookup_accounts`, `get_account_balances`; receive, flush by size, flush by timer |
| Ledger (external) | TigerBeetle | accounts and transfers by id | create and look up, in batches |
| Transaction handlers | `src/api/handlers/transaction.rs`, `src/db/postgres/transaction.rs` | table `transactions` | credit, debit, two paginated listings |
| Priority handlers | `src/api/handlers/priority.rs`, `src/db/postgres/priority.rs`, part of `transaction.rs` | table `user_priority_configs`, one Redis key per user, connections of two pools | create (validates balances, replaces the active one), cancel, cancellation by a debit, two reads |
| User handlers | `src/api/handlers/user.rs`, `src/db/postgres/user.rs` | tables `users`, `user_accounts` | create or link, get, balance |
| Provider handlers | `src/api/handlers/provider.rs`, `src/db/postgres/provider.rs` | table `providers` | create, get, certificate download |
| Bootstrap | `src/bootstrap.rs` | system accounts in ledger and database, Kafka objects | seed at each start |
| Process life cycle | `src/main.rs`, `src/state.rs` | the whole application state | start, graceful shutdown |
| Schema | `migrations/*.sql` | constraints, audit trigger | - |
| Kafka | `src/kafka/*.rs` | topics, users, ACLs | idempotent admin scripts, an unused producer |
| Wiring | `config.rs`, `telemetry/`, `api/router.rs`, `cors.rs`, `swagger.rs`, `validation.rs` | none | - |
| Infrastructure | `infra/`, `benchmark/` | - | container files, vendored Kafka, load script |

**How they interact.**  Every handler is a tokio task that awaits PostgreSQL,
Redis and the ledger in turn.  The only way to the ledger is the worker: a
handler sends a command with a oneshot channel and awaits the oneshot; the
worker makes ONE ledger call per batch and clones what it returned to every
member of the batch.  Handlers of one user or one idempotency key meet in
PostgreSQL (READ COMMITTED, row locks, unique indexes) and in Redis (no
transaction at all).  axum drops a handler at the await it is in when its
client hangs up.

**What is hard.**

* *One result for many callers.*  Whatever the ledger says of a batch, each
  caller takes for the outcome of its own request.
* *Flush by size or by timer.*  A command may neither be executed twice nor be
  forgotten in a buffer, and a shutdown must not wait for a batch that never
  fills.
* *Two stores, no common transaction.*  Ledger then table (transactions),
  table then cache (priorities), table then ledger (users), ledger then table
  then Kafka (providers).  A failure, hang-up or crash may fall between any
  two.
* *Checks made long before they are used.*  The idempotency key, the active
  configuration, the configuration written to Redis.
* *READ COMMITTED.*  An UPDATE finds its row in one snapshot and re-examines it
  after waiting; a row inserted meanwhile is not seen.  An INSERT owns its entry
  in one unique index while it waits at the next.
* *Connections held while waiting.*  A create keeps a Redis connection across
  four waits for the database; a cancellation waits for one after its commit.
* *Listings that move.*  Count and page are two statements, pages are separate
  requests, and a row carries the time its transaction began, so it appears
  below rows that were already shown.
* *Unsigned into signed.*  Sums of 128 unsigned bits become `i64` before or
  after they are subtracted; page numbers are multiplied unchecked.
* *Failures that look like answers.*  `if let Ok(Some(..))` treats a failed
  query as "not there"; a commit may take effect and still report an error.

`PROJECT.json` lists each hazard with the line where it bites and the
properties that cover it.

**What makes each component correct.** Worker: an accepted creation is really
the caller's, each command reaches the ledger once, in order and in bounded
batches, and each call ends. Transactions: the table never contradicts the
ledger and one request per key records. Listings and balances: a client that
pages to the end misses nothing that was there when it began, a page that was
announced exists, and a balance is exact whenever it can be. Priorities: one
register per user that is replaced and cleared at once, each configuration
cancelled once, a cache that does not invent or preserve configurations. Users
and providers: an account known to the database exists in the ledger, and Kafka
permissions never precede their user. Bootstrap: any number of interrupted
starts ends in the same seeded state.

## 2. Modules

| Module | What it is |
|---|---|
| `BatchService` | abstract: what the TigerBeetle client promises its callers |
| `TbWorker` | the client, the worker and the process life cycle; implements `BatchService` |
| `Transactions` | `credit_user` and `debit_user` on top of `BatchService` |
| `Payments` | the same handlers on the real `TbWorker`, next to all its other callers; implements `Transactions` |
| `PriorityStore` | abstract: one register per user, keys stored once |
| `Priority` | the priority configurations of several users, statement by statement; implements `PriorityStore` |
| `UserProvisioning` | registration of users: rows first, ledger account second |
| `Provisioning` | start of a process and creation of providers: ledger first, rows second, Kafka last |
| `SignedMath` | the casts, differences and products of the handlers, on integers of any width |
| `Queries` | the listings, the balance of a user and the balance check of a create, while transfers and inserts go on |
| `TbWorker_proofs`, `TbWorkerService_proofs` | theorems about `TbWorker`: bounds, answers and order; refinement |
| `Transactions_proofs`, `Payments_proofs`, `Priority_proofs`, `UserProvisioning_proofs`, `Provisioning_proofs`, `Queries_proofs` | theorems about these |
| `MCTbWorker`, `MCTransactions`, `MCPayments`, `MCPriority`, `MCUserProvisioning`, `MCProvisioning`, `MCQueries` | instances for TLC |

Composition: `Transactions` EXTENDS `BatchService` and shares its actions (a
handler's call *is* `Submit`, its hang-up *is* `Drop`, a crash *is* `Lose`).
The real worker implements `BatchService` (`ImplementsService`, proved as
`ServiceImplemented`), but for all its callers at once, while `Transactions`
has the service to itself.  `Payments` closes that gap: it puts the handlers on
`TbWorker` with every other caller and implements `Transactions`
(`ImplementsHandlers`, proved as `HandlersImplemented`).  `Priority` covers
what a debit does before its transfer, `Transactions` what it does from there
on, and `Queries` what others are shown of both while the row is being
inserted.

### TbWorker

| Specification | Code |
|---|---|
| `status[r]` | where one call of an `AppTbClient` method is: before, in `send().await`, awaiting the oneshot, answered, dropped |
| `channel`, `ChannelCapacity` | `mpsc::channel(channel_capacity)` |
| `batch`, `responders` | `transfer_batch`/`transfer_responders` and the three other pairs |
| `todo`, `result` | the worker is inside one or, after a tick, up to four `process_*` calls, and may be waiting for the ledger in one of them |
| `ledger` | TigerBeetle: which request created an id (external) |
| `Submit`, `Enqueue`, `Cancel` | the client methods; `Cancel` is axum dropping the handler |
| `Receive`, `Tick` | the two branches of `select!` |
| `Execute`, `Respond` | the ledger call of a `process_*` function, and its loop over the responders |
| `Close`, `Exit`, `Restart` | `with_graceful_shutdown`, return of `main`, crash or start |

`batch` and `responders` are kept apart as in the code, so that they could
drift from each other; the proof needs that they do not (`Aligned`).
`lookup_accounts` and `get_account_balances` are answered at once: batches of
one.  A call may be made while the server is closing, because the handlers in
flight go on.  A tick that finds all buffers empty is a stuttering step.  What the
ledger answers is abstract: a set of accepted positions with new and distinct
ids (any other reason for a refusal is allowed), or an error after which the
batch may or may not have taken effect.

### Transactions

`pc[a]` is the await a handler is in; `row` is the table by idempotency key,
`owner["CreateTransfer"]` the ledger by the same key, because the handlers use
the key as the id of the transfer.  `CheckKey` may answer "not there" when the
query fails.  `AsI64` is the cast `payload.amount as i64`: amounts range over
0 .. 2\*`MaxSigned`+1 and wrap as 64-bit integers do.  `Insert` obeys the
UNIQUE key and CHECK (amount > 0) and may report an error after its commit.
Credit and debit differ in `TypeOf` and in the priority cancellation only; the
differences in wording of their errors are left out.  `TakeResult` waits until
the call is `Answered`: nothing in client or handler gives up earlier, which is
what `AnsweredIsDecided` rests on.

### Payments

The requests of `TbWorker` are split in three: a credit or a debit has the name
of its `create_transfer` call (`Payment`), `LookupOf` names the
`lookup_account` call that it makes after the insert, and `Others` are the
calls of all other handlers.

| Specification | Code |
|---|---|
| `Begin` | a request is taken, which a closing server does not do |
| `AtDatabase`, `CallLedger`, `TakeResult` | as in `Transactions`, the call being `Submit` of `TbWorker` |
| `AskBalance`, `TakeBalance` | `lookup_account(..).await`, a second command in the same channel |
| `HangUp` | the handler goes, with the call it awaits if there is one (`Cancel`) |
| `OtherCall` | any call of any other handler, at any time |
| `Shutdown` | `axum::serve` returns when the handlers have ended, not only their calls; a handler between two calls still makes the second |
| `Crash` | worker and handlers go together |

Steps that `Transactions` takes without the ledger are used as they are
(`Handlers!CheckKey` and so on).  The mapping shows the handlers only what is
theirs: of the ledger the transfers, of the group in flight one that consists
of payments.  A batch of lookups or of accounts is invisible.

### Priority

Each request is a sequence of statements: the idempotency check, DEL, the look
at the active row, the cancelling transaction, the creating transaction, SET.
`UserOf` says whose path a request has.

| Specification | Code |
|---|---|
| `status`, `Active(u)` | the committed table; the row of the partial unique index |
| `mine[p]` | the row that the open transaction of `p` has updated and locks |
| `snap[p]`, `UpdateStarts`, `UpdateEnds` | an UPDATE finds its row in a snapshot, waits for the lock and evaluates its WHERE clause again (`StillMatches`) |
| `KeyTaken` | the lookup and the UNIQUE of a key, both without the user |
| `PlaceKey`, `PlaceUser`, `Unique` | the INSERT enters the unique index of the keys (made with the table, so the first in order) and then that of the active configurations; at each it may have to wait, and succeeds or fails |
| `WaitsFor(p, q)`: `RowHeld`, `KeyHeld`, `UserHeld` | what a statement waits for: the holder of the row; an open transaction that has entered the key, or updated the row with it; one that has entered, or updated, the user's active row |
| `Stuck`, `InCircle`, `BreakDeadlock` | PostgreSQL's deadlock detector: of a circle of waits one statement fails, its transaction is rolled back and its client answered 500 |
| `cache[u]`, `Purge`, `SetCache`, `DeleteCache`, `Expire` | the Redis key of a user, DEL, SET, its EX |
| `DbFree`, `RedisFree`, `InTransaction`, `KeepsRedis` | the two pools: `tx` keeps a connection until it ends, `redis_conn` of a create lives from its DEL to its SET |
| `Abandon` | any error before a statement takes effect, the timeout of a pool, or a hang-up: the transaction is rolled back |
| `seen`, `took` | what a debit was shown; history |

`Ready(p)` says of each step what it waits for: a connection of one pool, or
what the database makes it wait for (`Blocked`).  `Frail` are the requests that
failures and hang-ups may hit.

Transactions of this program do wait for one another in a circle.  With a
configuration of the user committed in between, a create enters its key and
waits for the row lock of a retry with the same key, which waits for the key.
The first holds no lock of that row because there was nothing to cancel when
its UPDATE ran.  So the deadlock detector of PostgreSQL is part of the system
and of the model, and its error is an answer (500) that clients get without any
failure.

An error after a statement took effect is an alternative of the statement's
own action (`p \in Frail /\ Respond(p, "ERROR")`).  The refinement mapping to
`PriorityStore` is the committed table read as a register: `active` is the
ACTIVE row of each user, `stored` the rows there are.

### UserProvisioning

`create_or_link` as one step per statement.  `user` and `account` are the
committed tables, and name the request that inserted a row; what an open
transaction has inserted is in `found[r] = r` and `got[r] = r`.  `InsertUser`
waits for an open transaction with the same national id, `Link` (the upsert)
for one with the same user and provider, and `InsertAccount` would wait for one
on the pair's account row (`NidFree`, `LinkFree`, `PairFree`; `Waits` is what
holds up the step a request is at).  Two clocks: `clock` is PostgreSQL's,
which gives `created_at` (the time of BEGIN); the service's is `Skew` ahead.
`adrift` is a request that hung up after its `create_account` command was
sent; the worker may still execute it.  The flag `is_existing_user` and the
metadata are left out.

### Provisioning

`phase[p]` is how far `main` of process `p` has come: per system account the
ledger, then the table, then the three Kafka scripts of the start, then
service.  Every step can be repeated; an error ends the process (`Fail`), and
it may be stopped anywhere (`Stop`).  `pc[q]` is the step of
`POST /providers`, which runs four scripts: topic, user, and two ACLs.  They
run in `spawn_blocking`, so a hang-up does not stop them, and their failure
does not change the answer.  `kafka` is the set of objects there are, each by
owner and kind.  `create_provider` is one step, because nothing else touches
the row before its COMMIT; the INSERT of a second core provider waits for the
COMMIT of the first, and nobody waits for what it holds.  A refusal of
`create_account`
is taken to mean "exists", as the code does: with ids that are fresh or come
from the configuration it can mean nothing else unless ledger or account code
are misconfigured.

### Queries and SignedMath

`SignedMath` has the integers: `Wrapped` is what a release build keeps of a
result and also the cast `as i64`; `Overflows` is where a debug build panics.
`Difference` casts before it subtracts (`get_user_balance`), `Available`
subtracts, saturating at zero, before it casts (`create_user_priority`).

In `Queries` the ledger posts (`Post`, which adds to `credits` or `debits` of
the account, TigerBeetle's `credits_posted` and `debits_posted`), an insert
begins and takes its time (`BeginInsert`: `created_at` is `now()`, the time of
BEGIN) and becomes visible when it commits (`CommitInsert`). Four clients look
on, one in each behaviour because they change nothing: a *walker* reads page
after page until one is empty, a *reader* asks for any one page and limit, an
*owner* asks for a balance, a *creator* is checked for funds. A listing is two
statements (`CountRows`, `SelectPage`). `Listings` is the set of the orders
that `ORDER BY created_at DESC` allows, so that rows of one time change places
between two pages. `due` and `true` record, for the properties, what was there
when the client was served. `TableFits` is the assumption that the rows, and a
page more, can be counted in an `i64`; the instance is at its edge (4 + 3 = 7 =
`MaxSigned`).

## 3. Runs

`CHECK_DEADLOCK FALSE` is set in every configuration: a request is made once,
so a finished instance of the handlers has nothing left to do.  That nothing
waits for ever is the business of the liveness properties.

| Run | Instance | Question and answer |
|---|---|---|
| `worker_transfers` | three transfers, two with one id; batches of 2; channel of 2 | Is acceptance ownership, is each command executed once and in order, are batches bounded, is `BatchService` implemented, does every call end?  Yes, through cancellations, ledger errors, shutdown and crash; a lone command is flushed by the timer. |
| `worker_own_account` | two creations, two lookups | Does `lookup_account` return the account asked for?  **No** (finding). |
| `transactions` | a key used for a credit and a debit at once, an amount above the signed maximum, all failures | Does the table agree with the ledger, is SUCCESS true, and is an answer the end of the matter?  Yes: who was told anything posts nothing afterwards. |
| `payments` | a credit and a debit with one key, their two lookups, a call of another handler; batches of 2, channel of 1 | On the real worker, do the handlers do only what `Transactions` allows, does every request that was taken end, and a graceful shutdown?  Yes, although a handler makes its second call while the server closes. |
| `transactions_rejected` | no failures, batches of 2 | Does 400 mean that no money moved?  **No** (finding). |
| `priority` | three creates of one user, two with one key; a create of a second user with that key; a cancellation, a debit; pools of two and three; failures of one create | One register per user, one canceller, no invented cache entry, a debit disables what it saw; is a standstill always one that PostgreSQL sees and breaks, and does each request end?  Yes; deadlocks are reached and broken. |
| `priority_retry` | a create and its retry | Is a retry with the same key safe?  **No** (finding). |
| `priority_stale` | a create, a cancellation | Is a cancelled configuration out of Redis?  **No** (finding). |
| `users` | one person, twice at one provider and once at another; clocks one second apart; all failures | Does a request that makes a row make its ledger account, does the lock of the link order the account inserts, is no ledger account without its row, does one of the open transactions always wait for nobody?  Yes. |
| `users_linked` | two registrations, no failures | Is everybody who is answered 201 known to the ledger?  **No** (finding). |
| `provisioning` | two processes, two system accounts, two core providers, failures and stops without limit | Is a serving process seeded, does each row have its account, do Kafka permissions follow their user and topic, does an undisturbed start succeed over any leftovers?  Yes. |
| `queries` | four transfers on two accounts, one above the signed maximum; three times; limits and pages at and past every edge | Does paging to the end miss nothing, does an announced page exist and never fail, is a balance exact, is an accepted priority covered?  Yes. |

**Bounds.** The sets that are cut down are `Request` and `Id` (worker,
transactions), `Creator`, `Canceller` and `Debit` (priorities), `Account`,
`Transfer`, `Limit` and `Page` (queries), the clocks and the width of the
integers; each call is made at most once, which bounds every queue and history.
Three transfers with batches of two give a full batch and a partial one, a
duplicate id within a batch and across batches, and a command left behind a
crash; the channel holds two, and one in `payments` (165,840 states), so that
`send()` blocks. There the lookups are a batch that never fills, since one
payment of a key gets past its transfer, and the call of another handler, a
direct lookup, takes the slot of the channel at any moment. For `transactions`,
`MaxSigned` = 1 makes 3 the unsigned maximum: it fits the ledger and not the
table. For `priority` (1.3 million
states, some three minutes), two creates of one user are what the unique index,
the lock wait and the re-evaluated WHERE clause need, and a third is what a
deadlock needs: two with one key, and the one whose row the retry locks.  The
configuration named by the first matches the debit's provider and expires, the
others do neither.  The create of another user carries the key of those two:
the only thing users share besides the pools.  Six requests over two database
connections and three of Redis make both pools full, with a create holding its
Redis connection while it waits for the database, and the other way round; with
two of Redis the three creates would not meet.  Failures hit one of the two
creates with one key, at every step and every await, including the cancelling
transaction it shares with the other kinds of request; failures of all six
would be several times as many states, and the safety properties are proved
without a restriction on `Frail`.  For `queries` (723,903
states), `MaxSigned` = 7 gives integers of four bits: a credit of 12 wraps,
balances and totals reach beyond 7, and page 7 with a limit of 2 or 3
multiplies to more than fits. Three rows that the table accepts, with limits of
2 and 3 (`MaxLimit` cuts 4 to 3, and -1 becomes 1) make pages that are full,
partial and empty, and three moments make rows that are tied and rows that
appear out of order. For `users`, two ticks of a clock whose skew equals the
tolerance are the boundary of the one-second rule, and three registrations of
one person give a committed user whose link two requests race for. In
`provisioning` everything but the sets is unbounded: starts, failures and stops
repeat for ever.

**Fairness.** `TbWorker`: tokio polls every task that is ready, `select!` picks
among its ready branches at random, the interval keeps ticking, and the ledger
answers. Weak fairness on `Enqueue` (of each caller; tokio's semaphore is first
come, first served), `Receive`, `Tick`, `Execute`, `Respond`, `Exit` says that
and no more: no submission, cancellation, shutdown or crash is ever assumed to
happen. `Payments` adds that a handler that has begun goes on (`Proceed`): the
database answers, if need be with an error, and tokio polls it; and that
`axum::serve` returns once the handlers have ended. That the ledger answers is
an assumption the code does not enforce: there is no timeout on the call
(`operations.rs:15`). `Provisioning`: `main` runs on as long as it meets no
error. `Priority`: some handler goes on as long as one can (one weak fairness
condition for all, which is less than tokio gives); the database grants a lock
once its holder has ended, and a pool hands out a connection that is free. It
relies on one error: PostgreSQL breaks a circle of waits, after its
`deadlock_timeout`. Without `BreakDeadlock`, `EveryRequestEnds` is false. It does
not rely on the timeouts of the pools. Otherwise the failing alternatives of an
action are never the only ones that are enabled, so liveness does not rest on a
failure.

**What the violations show.**

* `OwnAccount`: `process_lookup_accounts` sends all accounts of the batch to
  every caller, and the handlers read the first one
  (`transaction.rs`, `user.rs`, `provider.rs`), against
  `client.rs:53`, "Looks up a single account by ID (batched internally) and
  awaits its data".
* `RejectedNotPosted`: the refusals of a batch go to all its members
  (`operations.rs:24`), so a debit that was posted is answered 400
  (documented as "Insufficient funds or bad request", `transaction.rs:192`) and
  is never recorded.
* `RetryIsSafe`: a retry that passes the idempotency check before the first
  request has committed finds the new configuration active, cancels it in a
  transaction of its own, and fails on the duplicate key.
* `CancelledNotCached`: a create SETs Redis after its commit without looking
  again; a cancellation in between leaves the cancelled configuration cached,
  with no expiry if it has none.
* `CreatedHasAccount`: a registration that finds a row older than a second
  takes the ledger account for granted (`user.rs:119-121`); the request that
  made the row may have failed, hung up, or be slow.  The ledger account is
  then never made by a later registration.

Read off the code while modelling, with no run: `soft_delete_priority_config`,
described as the compensation for a failed SET (`traits.rs:107-108`), has no
caller; the 409 for a duplicate key (`handlers/priority.rs:199-205`) is not
reached, because it looks for the database's text in the outermost message of
an error that has been given a context; a debit checks the items of one active
configuration and then cancels whichever is active; a cancellation that waits
for a row which a create then replaces updates nothing and answers 404,
although there was an active configuration at every moment; the idempotency
lookup of a create ignores the user, so a key used by two users answers one
with the configuration of the other; a page so far out that the offset wraps
below zero is refused with 500; rows with one `created_at` have no order
between two pages; a balance or a total that does not fit an `i64` wraps;
`is_existing_user` subtracts one second that the comment above it
(`user.rs:116`) does not mention; a second core provider is refused by the
index after its ledger account was made, and that account stays; a create and
its retry can deadlock in PostgreSQL, and one of them is answered 500; a provider
whose Kafka scripts fail is answered 201 with credentials that do not work.

## 4. Theorems

Eight modules hold theorems; each extends the module it is about.  Every
invariant, every action property and every refinement that a passing run checks
is a theorem, for every value of the constants; `TypesHold` and `TypeCorrect`
are the type invariants.  What is only model-checked is liveness.

`TbWorker_proofs`, for every set of requests and ids, every kind
and target, every `BatchMaxSize` and `ChannelCapacity` that satisfy
`WorkerAssumption` (positive sizes; the two "none" values are not a request
and not a reply).

* `TypeCorrect`: `Spec => []TypeOK`, the capacity of the channel included.
  `TypeOK` is inductive.
* `BatchesBounded`: `Spec => []BatchBound`.  Inductive with `RoomLeft`: between
  two polls of `select!` every buffer is below its limit; only the buffer being
  processed may be at it; a tick cannot make a batch that was too long.
* `AcceptedAreOwners`: `Spec => []AcceptedOwns`.  By itself not inductive: a
  caller becomes accepted in `Respond`, from a result fixed in an earlier step
  and for a buffer that `Receive` could have changed since.  The inductive
  invariant `AnswerInv` adds that `responders` and `batch` are the same
  sequence (`Aligned`), that a buffer holds only requests of its kind
  (`KindsApart`), that a result is there only while its batch is being
  processed (`ResultInProcess`), and that an empty result of a creation means
  that each request of the batch owns its id (`EmptyMeansTaken`).  The ledger
  never takes an id away (`OwnersStay`), which carries acceptance across
  crashes.
* `FifoHolds` (`FifoPerKind`) and `ExecutedOnceHolds` (`ExecutedOnce`) from
  `OrderInv`: commands of one kind are in the order of `sent` within the
  channel, within their buffer and within what was executed (`Sorted`), and
  what is further on comes before what is behind (`Precede`).  Nothing comes
  before itself, so this one fact also says that no command is in two places or
  twice in one.  The exception is a batch that has been executed and waits for
  its answers only (`InFlight`): it is in its buffer and in the history.
  `TodoRanked` says that two batches of one tick have different ranks, so at
  most one of them is in flight.

`TbWorkerService_proofs`, under the same assumption.

* `ServiceImplemented` (`Spec => ImplementsService`): each step of the worker is
  a step of `BatchService` or a stutter, under `ServiceInv`, the conjunction of
  the invariants above and `FlightInv` (a batch is taken up only if it is not
  empty; a batch in flight has been executed).  One lemma per action says
  which: `Enqueue` is `Accept`, `Cancel` is `Drop`, `Exit` and `Restart` are
  `Lose`, `Execute` is the execution of a group, `Respond` the answering of
  one, and moving between channel, buffer and tick is invisible.  The hard one
  is `ExecuteIsExecute`: the batch, a sequence, is the service's group, a set,
  because it repeats nobody (`OrderInv`), and the positions the ledger took are
  its members.

`Transactions_proofs`, for every set of requests and keys, all types and
amounts in `u64`, every group size, under `ServiceAssumption` and
`TransactionsAssumption` (all calls are transfers, `u64::MAX` is twice
`i64::MAX` plus one).  The four properties of the handlers follow from one
inductive invariant, `IInv`: an id has the owner that carries it
(`OwnedById`); an "accepted" under way was earned by every member of the group
(`TakenAreOwned`), so an "accepted" that was told makes its caller the owner
(`ToldAreOwners`); only owners are at the insert or past it (`RecordersOwn`);
a row was written by the owner of its key, who has left the insert
(`RecordedByOwner`).  Without the last, nothing would exclude that the owner
comes back.  The lemmas `SubmitKeeps` .. `LoseKeeps` are about `BatchService`
alone: an owner is never replaced.

* `RowsAreTransfers` (`RowMatchesLedger`): with `RowOfPositive`, that a wrapped
  amount is negative and refused by the CHECK of the table.
* `KeysNeverConflict` (`InsertNeverConflicts`), `SuccessHolds`
  (`SuccessIsPosted`).
* `OwnersRecord` (`OnlyOwnerRecords`, an action property): `Insert` is the only
  action that writes, and whoever is at it owns its key.
* `AnsweredIsDecidedHolds` (`AnsweredIsDecided`, an action property): the ledger
  gives an id only to a member of an executed group, and only queued commands
  are executed.  `CallInv` says that a handler past its call has been answered,
  and that who was answered was executed; so the command of a client that was
  told anything is not in the queue.  It is an action property because the
  claim is about the step in which money moves.

`Payments_proofs`, for every set of requests of every kind, under
`PaymentsAssumption` (the payments are all the transfers there are, each with a
lookup of its own) and the assumptions of the modules it joins.

* `HandlersImplemented` (`PaymentsSpec => ImplementsHandlers`): each step is a
  step of `Transactions` or a stutter.  A step of `Payments` is one of `TbWorker`
  (`StepOfWorker`), so `ServiceInv` holds, and the lemmas of
  `TbWorkerService_proofs` say which step of the service of ALL requests it is.
  What is new is what the payments see of that step: the same step if it is
  theirs, nothing otherwise (`CallSeen`, `LoseSeen`, `ExecuteSeen`,
  `RespondSeen`).  The reason is that a group is of one kind: all payments or
  none (`GroupSeen`).  `AwaitedInv` says that a handler has a call under way
  only at the await of that call, which is why a hang-up drops one call at most
  and why `Shutdown`, with no handler left, loses nothing of theirs.  The
  theorems of `Transactions_proofs` therefore hold of the handlers on the real
  worker.

`Priority_proofs`, for every set of users and requests, all keys and every size
of the pools, under `PriorityAssumption` (a request is of one sort, of one
user).  One inductive invariant, `IInv`:

* a row is stored when its create reaches the SET and not before its COMMIT
  (`Placed`); a row has one holder, of its user, and stays ACTIVE while held
  (`Locks`); what an INSERT has found at an index, that its key is free, and
  then its user but for the row it has cancelled itself, stays so until its
  COMMIT (`Reserved`).  That last part is where READ COMMITTED could fail, and
  what the waiting at the two indexes is for.
* From these: two ACTIVE rows of one user are one (`AtMostOne`), which gives
  `OneActiveHolds`; what was taken is cancelled (`History`), which gives
  `CancelledOnceHolds`; `CacheWasCommittedHolds`; and, with the line that
  follows a debit's configuration from sight to cancellation (`Follows`),
  `DebitDisablesHolds`.
* `StoreImplemented` (`Spec => ImplementsStore`): `CommitCancel` is `Clear`,
  `CommitCreate` is `Replace`, and every other step changes nothing of the
  table.  `CreateIsReplace` needs `Reserved`: the row that becomes ACTIVE is
  the only one because the one it replaces is its own.

* `OnlyRepeatedKeysDeadlockHolds` (`OnlyRepeatedKeysDeadlock`), what is left of
  deadlock freedom, from `IInv`.  If nobody can go on there is an open
  transaction, because who waits for the Redis pool waits for creates, and
  creates wait for nothing but the database (`TransactionOrReady`; each pool
  need only have one connection).  A transaction waits for transactions only
  (`HolderInTransaction`), so all open ones are `Stuck`, which is what the
  deadlock detector looks for.  And among stuck transactions one waits for a
  key (`KeyAmongStuck`): the others wait for the holder of their user's row,
  there is only one, and it does not wait for itself.  So creates whose keys
  are all different never deadlock.  That a stuck set contains a circle, and
  that the end of it lets somebody go on, is left to TLC (`EveryRequestEnds`).

`Queries_proofs`, for every table and set of accounts, all amounts, pages and
limits and every width of the integers, under `QueriesAssumption`,
`WidthAssumption` and `TableFits`.

* Arithmetic.  A wrapped number differs from the number by a multiple of the
  modulus (`WrapCongruent`), so do differences (`Distributes`), and two numbers
  of the range that differ by a multiple are equal (`RangeApart`).  Hence
  `DifferenceIsExact`, and `AvailableIsCovered`: the balance a priority is
  checked against is never more than the account has.
* Sums.  `TotalOf` is a fold over a set.  Induction over the set is not
  available, so its place is taken by a smallest counterexample (`Smallest`, from
  the well-foundedness of strict inclusion): the function that adds up exists
  (`AdderAdds`) and is unique (`AddsOnce`), the sum of integers is an integer
  (`TotalIsInt`), and sums of congruent numbers are congruent
  (`TotalsCongruent`).
* Orders.  A row that shares its time with no other is, in EVERY order that
  `ORDER BY` allows, behind exactly the rows with a later time (`Place`): its
  position is a number of the table, although the listing is not.
* The inductive invariant `IInv` adds to the properties: `LedgerInv`, that no
  account owes (for `Available`); `WalkInv`, that a row that is due is shown,
  tied, or at or behind the offset of the next page (`StillAhead`), and that the
  offset is never more than a page beyond the rows, so that it fits; `ReadInv`,
  that the count an answer was given is not above the rows there are now.
  `TableGrows` is what insertions may do: a row never moves towards the front,
  and a tie is never undone.
* `NoRowSkippedHolds`, `ExistingPageHolds` (with `PageBelowTotal`: the offset of
  a page up to the ceiling is below the count), `BalancesAreExactHolds`,
  `AcceptedIsCoveredHolds` follow.

`Provisioning_proofs`, for every number of processes, every non-empty order of
system accounts and every set of provider requests.

* `ServersAreSeeded` (`ServingIsSeeded`): the invariant says, for each step of
  `main`, which accounts up to `at[p]` and which Kafka objects are there
  (`SeedsDone`, `ScriptsDone`).  Other processes cannot disturb it because the
  stores only grow (`StoresGrow`); that lemma is where a clean-up on failure
  would break the proof.
* `RowsHaveAccounts` (`RowHasAccount`): a row is inserted only behind its own
  ledger step (`AccountFirst` for providers, `SeedsDone` for system accounts).
* `KafkaStaysInOrder` (`KafkaInOrder`): a provider that is at a script has all
  objects of the earlier ones, and its row (`ScriptsInOrder`); the same for
  processes (`ScriptsDone`).

`UserProvisioning_proofs`, for every set of registrations, every length of time
and every tolerance.

* `AccountInsertSafe` (`AccountInsertNeverConflicts`) and `LedgerHasRows`
  (`NoOrphan`) from `RowInv`: two registrations of one pair are never both
  between the link and the COMMIT (`OneHolds`); what one of them found or made
  is what its COMMIT leaves in the table (`GotIsStored`); a row belongs to one
  pair (`PairsKept`).
* `InsertedHasAccount` (`InsertedIsProvisioned`) needs the hypothesis
  `Skew <= Tolerance`: PostgreSQL's clock is behind the service's by no more
  than the one second of the code.  The run has them equal, the edge of the
  hypothesis.
* `SomebodyGoesOnHolds` (`SomebodyGoesOn`), the absence of deadlock: the locks
  are taken in one order, user row, link, account row.  At the COMMIT nobody
  waits; who waits for an account row waits for a COMMIT, who waits for a link
  for somebody past it (`LinkedGoesOn`); and who waits for a national id waits
  for a transaction that has inserted its user and is therefore at its link or
  past it, because one that is still at that insert has found nothing
  (`NothingFound`, the invariant this needs).

Only model-checked: the liveness properties (`EveryCallEnds`,
`EveryPaymentEnds`, `ShutdownEnds`, `EveryRequestEnds`, `StartSucceeds`).
Liveness under fairness and ENABLED are out of this prover's reach.  For the
two modules in which requests wait for one another, `OnlyRepeatedKeysDeadlock` and
`SomebodyGoesOn` are the safety part of it, and proved.  No module declares a
RECURSIVE operator.

## 5. Not modelled, and the plan

What changes state in a store, the ledger, Kafka or the worker is modelled.
What is not, and why:

* Plain reads: `get_active_user_priority` and `get_all_user_priorities` are
  SELECTs, the `get` of users and of providers a SELECT and one ledger lookup,
  whose mix-up `OwnAccount` shows; `download_cert` reads a file.
* `soft_delete_priority_config`, the delete scripts of `kafka/admin.rs` and the
  Kafka producer: nothing calls them.
* Expiry in the database: nothing acts on `expires_at` of a row but the SET.
* The audit trigger: it writes a log line in the transaction that fires it, and
  each transaction sets its actor for itself alone (`set_config(.., true)`, `SET LOCAL`), so
  no interleaving can mix up two actors.
* Configuration, telemetry, routing, CORS, Swagger, request validation: no
  state.  `mapper.rs` and `models.rs`: copies field by field.
* `infra/` and `benchmark/`.

Three simplifications of what is modelled.  The worker task never dies alone:
it ends with the process, so that the error answers of `client.rs:33` and `:35`
for a closed channel appear with `Restart` only.  The balance of a user is one
look at the ledger; the SELECT of the accounts before it belongs to the same
step, accounts being never removed.  `ceil` of a quotient of `f64` is taken to
be exact, as it is for any table of fewer than 2^53 rows.

Left to do: abstract specifications of
`UserProvisioning` and `Provisioning` and the proof that they are implemented;
the deadlock freedom of `TbWorker` as an invariant, by the side of its liveness.
