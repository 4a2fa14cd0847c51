# A TLA+ development of web-backends

The repository compares eight web frameworks under one HTTP contract, one
database and one load protocol. Four things decide whether its numbers mean
anything:

1. every application must implement the same transactional write,
   `POST /orders`, correctly while many requests overlap, time out, are retried
   and fail half way;
2. the scripts that run a trial must leave behind evidence of that trial and of
   no other, and the gate must accept nothing else;
3. every trial must start from the same seeded database, and the conformance
   suite that admits an application must say what is true of it;
4. the published table must show each framework's own measurements.

This directory models all four, checks them with TLC on small instances and
proves every safety property of the passing runs with TLAPS, for every value of
the constants.

## 1. Inventory

| Component | State | Operations | What is hard | What makes it correct |
| --- | --- | --- | --- | --- |
| `POST /orders` in Go, Rust, Node, Bun, Python, ASP.NET, Spring, Phoenix (`apps/*`) | the handler's position, its connection, the rows it has read, the order id in hand | acquire, BEGIN, lock rows in product order, check stock, insert order, items, ledger, decrement, COMMIT, respond; replay on a used key; error paths | overlapping requests, lock waits, pool exhaustion, failures after each statement, retries after a lost COMMIT, process restarts | at most one order per key, all or nothing, a 201 is durable, stock agrees with the ledger, every request is answered |
| Connection pools (pgx, sqlx, pg, Bun.sql, asyncpg, Npgsql, Hikari, Postgrex) | who has checked out which connection | checkout with or without a timeout, release | a connection given back twice, kept too long, or used after it was given back | exclusive checkouts, returned clean, none lost |
| PostgreSQL schema (`infra/postgres`) | products, orders, order_items, inventory_ledger; open transactions and row locks | the statements of the handlers | READ COMMITTED visibility, the wait on a key another transaction has inserted | external; modelled as the handlers use it |
| Trial driver (`exec-trial.sh`, `run-campaign.sh`) | `runs/<trial-id>/`, the `/runs` volume, `pg_stat_statements` | preflight, the k6 phases, copying summaries, snapshot, telemetry, two manifest writes, the campaign loop | a phase that fails, `set -e` aborts, interruptions, a trial id run again, a k6 that outlives its script | only finished executions count; evidence is of one execution |
| Gate (`verify-manifest.sh`) | the verdict so far | a verdict per directory | errexit in the middle of the loop | the exit status is the verdict on all directories |
| Seeding (`seed.py`, `wait-seed.sh`, `02-seed.sql`, `up.sh`, `down.sh`) | five CSV files on one volume, the data directory on another | write the files group by group, poll for them, COPY them in order | the poll against a writer that has not finished, a stop in the middle of a load, a second start that truncates the files | its parents are whole on a first start, a table is filled once, an empty seed is not served; it comes up or gives up |
| The Python application (`apps/python/main.py`) | pool, histogram, the tables it uses | start, stop, six endpoints, validation, the latency middleware | restarts between requests, a COMMIT whose answer is lost, 32-bit totals | documented statuses, stock equals what the orders leave |
| Conformance suite (`bench/conformance/run.py`) | the test it is at, counts | poll, nine tests, exit status | calls that time out and are executed nevertheless, restarts, another client | success is real, failure has a cause, it ends |
| Analysis (`aggregate.py`, `compare.py`, `report.py`) | `results/*.json`, `report.json`, `index.html` | admit trials, aggregate, compare, rank | scripts run by hand in any order over files that change, outputs emptied by a failed run | each row is of its own framework's measured trials, none is lost |
| Reads, validation and metrics of the other applications | none that outlives a request | - | - | the same answers as the contract's |
| `run-trial.sh`, load protocol (`bench/k6`), observability | containers, stages | - | - | not modelled |

Interactions: k6 drives the application over HTTP; the applications share
nothing but the database; `run-campaign.sh` calls `exec-trial.sh`, which runs k6
inside the load generator's container and calls `preflight.sh` and
`collect-telemetry.sh`; `verify-manifest.sh` and `aggregate.py` read what these
left in the trial directory, and `compare.py` and `report.py` what `aggregate.py`
made of it. The database container starts next to the seeder and waits for its
files. The hazards, each at the line where it bites and
with the properties that would catch it, are listed in `PROJECT.json`.

## 2. The order write

### Modules

| Module | Models |
| --- | --- |
| `Postgres` | the tables the write touches and PostgreSQL sessions as the handlers use them: READ COMMITTED, uncommitted work per connection, row locks, the wait on a pending unique key, failed transactions |
| `Handlers` | the eight handlers as data: for each step the next one, the statuses of refusals, how a refusal ends the transaction, whether a checkout can time out, and how a used key is replayed |
| `OrderWrite` | the state machine: requests running one of the handlers over a pool and `Postgres`, with faults |
| `IdempotentOrders` | what `contracts/openapi.yaml` promises: an order appears in one atomic step |
| `OrderProperties` | the properties, and the refinement mapping to `IdempotentOrders` |
| `OrderInvariant` | the inductive invariants |
| `OrderItems` | how many units of a product the items of an order ask for, as a running total |
| `OrderItemsProofs` | induction and recursion over the natural numbers, and what they say of `OrderItems` |
| `OrderWriteProofs` | theorems: types, keys, pool, transactions, locks, refusals |
| `OrderPromiseProofs` | theorems: what an order consists of, the causes of a 500, the refinement |
| `MCOrderWrite` | the instances for TLC |

### State and actions

One behaviour is one application (`app`) serving a set of requests (`body`). A
request's `pc` is the statement its handler is about to send; every database
statement and every checkout is one action, since every handler awaits there and
others run meanwhile. What a handler does between two awaits is part of one
action. `conn[r]` is the connection object the handler's variable refers to and
`owner[c]` is the pool's own record; they are separate because Node's catch block
uses a client after giving it back.

| Action | Code (Go's lines stand for all; differences are data in `Handlers`) |
| --- | --- |
| `Receive` | orders without items, and with a quantity below 1 where the application looks at it, are refused before any connection is taken |
| `BeginTx`, `PoolTimeout` | checkout and BEGIN; only Rust, Node, ASP.NET, Spring and Phoenix give up waiting |
| `LockProduct`, `UnknownProduct` | `SELECT ... FOR UPDATE`, one row at a time in ascending product id |
| `CheckStock` | each line against the stock read under the lock |
| `InsertOrder`, `InsertConflict` | the insert and, when the key is taken, the way to the replay |
| `InsertItem`, `InsertLedger`, `DecrementStock`, `ConstraintError` | the loop over the items; a constraint of `01-schema.sql` that refuses a row: the customer's foreign key, `total_cents`, the CHECKs on quantity and stock |
| `Commit`, `Respond` | COMMIT, release, 201 |
| `Abort` | rollback (or, in Bun's `sql.begin`, the commit that follows a normal return), release, the status |
| `ReplayOrder`, `ReplayItems` | the two reads of a replay, on the handler's connection or on one from the pool |
| `StrayRollback` | Node's catch block after a failed replay: ROLLBACK and, in the same turn as its answer, `release()` |
| `StatementFails`, `CommitFails`, `ReplayFails`, `Restart` | faults: `statement_timeout`, `lock_timeout` or a broken connection; a COMMIT that fails or whose answer is lost; the death of the process |

Left out: prices, response bodies and timestamps. Of a total only whether
`total_cents` takes it is kept, as a part of the request, and of the customers
which there are; a quantity of 0 stands for all below 1. Requests are taken to be
well-typed: what else the applications validate differs in wording.

### Runs

| Run | Instance | Result |
| --- | --- | --- |
| `orders_safety` | seven applications (not Node), 3 requests, 3 connections, 2 faults (839,935 states) | holds: `OneOrderPerKey`, `AckedIsDurable`, `LedgerMatchesStock`, `NoPartialOrder`, `ReadStockIsCurrent`, `ConnectionsAreExclusive`, `RefusalWroteNothing`, `ServerErrorHasCause`; stock changes only under its row's lock (`StockChangesUnderLock`); each handler implements `IdempotentOrders` (`KeepsThePromise`) |
| `orders_liveness` | seven applications (not Python), six workloads, 2 connections, 1 fault (281,403 states) | holds: every request is answered; no handler waits for a connection while it holds one; `ServerErrorHasCause` for Node too |
| `replay_after_depletion` | Go, whose order of checks the others share | violated: the stock check comes before the key is looked at, so a retry of the order that took the last unit gets 409 |
| `python_pool` | Python, 2 connections | violated: a replay takes a second connection while it holds one, and asyncpg waits for ever |
| `node_ack` | Node, 4 requests, 2 connections, 1 fault | violated: a failed replay read rolls back another request's transaction and gives its connection to a fourth, so that it answers 201 for an order that does not exist |

A run leaves an application out only where another run shows that it breaks the
property: Node uses clients it has released, Python waits while holding.
`ServerErrorHasCause` holds everywhere: it names the ways in which a handler
answers 500 although nothing failed. They all lie in the order itself, never in
the requests beside it: a total the column does not take, a customer there is not
(no handler looks it up; the foreign key finds it, unless the key is already used,
when the order is replayed), a quantity below 1, which only Bun and Python look
at before the CHECK does, and two lines of one product that pass the check line by line and
then meet `CHECK (stock >= 0)`. Phoenix adds its refusals: returned from the fun
of `Postgrex.transaction`, they match no clause of the `case` that should send
them (`router.ex:128`).

*Bounds.* Three requests are the fewest that give two tries of one key and a
third party that competes for rows and connections; two connections for three
requests exhaust the pool, three never do, and both are used. Two products are
needed for lock cycles. The seven workloads of `MCOrderWrite` contain opposite
product orders, one key on different rows, refusals, stock for some but not all,
a product on two lines, orders that the schema refuses, and such orders under the
key of one that can be stored; `orders_liveness` takes those in which requests wait
for each other or fail, and a smaller one of two lines beyond the stock with its
retry. The fourth request of `node_ack` is the one that gets the connection released
a second time: the ROLLBACK and that release are one turn of Node's event loop, so
the COMMIT queued behind them is the victim's last statement there. Two faults allow
a failure and a failure of the recovery from it. `orders_safety` takes connections as
symmetric: nothing orders them.

*Fairness.* `FairSpec` is weak fairness of each request's own step: the
runtimes schedule every handler and the database answers. Faults and timeouts
are never owed. A step that waits (for a row, a key or a connection) is not
enabled meanwhile, so `EveryRequestAnswered` says that the wait always ends.

### Proofs

| Theorem | Statement | For |
| --- | --- | --- |
| `Typing` | `TypeOK /\ HandlerInv` | all eight applications |
| `NoDuplicateOrder` | `OneOrderPerKey` | all eight |
| `OrderTyping` | `TypeOK` | all eight |
| `ExclusiveConnections` | `ConnectionsAreExclusive` | all but Node |
| `NothingHeldWhileWaiting` | `NoHoldAndWait` | all but Node and Python |
| `StockIsAccounted` | `LedgerMatchesStock` | all but Node |
| `AcknowledgedOrdersAreDurable` | `AckedIsDurable` | all but Node |
| `LockDiscipline`, `CheckedStockIsCurrent` | `LockInv`, `ReadStockIsCurrent` | all but Node |
| `NoLostUpdate` | `StockChangesUnderLock` (an action property) | all but Node |
| `RefusalsLeaveNothing` | `RefusalWroteNothing` | all but Node |
| `TransactionContents`, `OrdersAreWhole` | `ContentInv`, `LinesInv` | all but Node |
| `NoOrderIsPartial` | `NoPartialOrder` | all but Node |
| `VerdictsHaveReasons`, `ServerErrorsAreExplained` | `VerdictInv`, `ServerErrorHasCause` | all but Node |
| `ImplementsThePromise` | `Spec => KeepsThePromise`, the refinement of `IdempotentOrders` | all but Node |

So every safety property of `orders_safety` is also a theorem.

They hold for any sets of requests, keys, products and connections, any
workload and any number of faults, under the assumptions named in `Postgres` and
`OrderWrite` (products are naturals, initial stock is not negative, the null
values are no members, the requests are finitely many). "All but Node" is the hypothesis `NoNode`; `node_ack`
shows that it cannot be dropped.

* `OneOrderPerKey` is not inductive: a commit adds what the transaction holds.
  `KeyInv` extends uniqueness to the union of the committed orders and the
  uncommitted inserts of all sessions; `InsertOrder` preserves it because
  `KeySettled` waits for pending inserts of the key and `KeyTaken` refuses
  committed ones. It needs nothing of the pool, so it covers Node.
* `PoolInv` says that a handler owns exactly the connection it refers to, and
  that whatever lies in the pool carries no transaction. With it each transaction
  has one writer, so a step of one request leaves the session of another alone.
* `TxInv` describes a transaction's work at each step: nothing before the
  insert, afterwards the pending order, and a ledger that differs from the
  decrement by the current item exactly between the ledger insert and the
  update. At COMMIT both agree, hence `LedgerMatchesStock`.
* `AckInv`: from COMMIT (or the replay's first read) to the response the order
  in hand is durable, as orders are never removed.
* `LockInv`: two sessions never hold one row, a session holds the rows it has
  charged, and what a handler has read of a row it holds is still there. The
  stock check thus uses current values, and only the holder's COMMIT moves them.
* `OwnInv` ties every order, pending or committed, to the request that made it,
  and says where that request can be: past every refusal.
* `ContentInv` describes the transaction item by item: at each step of the loop
  it has exactly the lines of the items before this one and has charged their
  units, `UnitsUpTo(items, p)[i]`. At COMMIT these are all items, so the table of
  lines is the union of the lines of its orders (`LinesInv`), and the ledger is
  minus their sum (`LedgerInv`, with the fold that `NoPartialOrder` uses).
* `VerdictInv` and `CauseInv`: a status is decided for a reason, and since stock
  never grows the reason lasts until the answer. `IdInv` bounds the ids drawn.
* The refinement maps the committed rows and the statuses sent to the variables
  of `IdempotentOrders`. Every action but a COMMIT and the sending of a status
  is a stutter. A COMMIT is the atomic step `ContentInv` justifies: all charges of
  the order at once, none beyond the stock. A replay is one by `AckInv`, a refusal
  by `VerdictInv` and `OwnInv`, a 500 always.

*Induction over data.* What a recursive definition computes is proved in
`OrderItemsProofs` without an induction rule over predicates: `Least` gives every
nonempty set of naturals its least element (from the well-foundedness of `<`),
`Induction` is the consequence for a *set* that contains 0 and with n also n + 1,
and `Recursion` shows that a recursion over `0 .. n` has a solution. A property
is turned into the set of numbers that have it.

## 3. The trial driver

### Modules

| Module | Models |
| --- | --- |
| `TrialGate` | a trial directory as a record, the verdict of `verify-manifest.sh` on one directory (`Publishable`) and the admission rule of `aggregate.py` (`Usable`) |
| `TrialDriver` | `exec-trial.sh`, `run-campaign.sh` and `collect-telemetry.sh`: each file written, in order |
| `VerifyManifest` | the loop of `verify-manifest.sh` and its exit status |
| `TrialInvariant`, `TrialDriverProofs`, `VerifyManifestProofs` | inductive invariants, theorems |
| `MCTrialDriver`, `MCVerifyManifest` | the instances for TLC |

### State and actions

A file is abstracted to the number of the execution of `exec-trial.sh` that it
is about, with the few values its readers look at. So "the telemetry of a
publishable directory is its own" is an equation between two numbers. Histories
record which executions finished, were started by the campaign, or left a k6
behind.

| Action | Code |
| --- | --- |
| `ExecTrial` (in `OperatorRuns`, `CampaignTrial`) | arguments, container checks, the first manifest, which replaces any old one |
| `Preflight`, `PreflightAborts` | the three roles; a failure is counted, a failed copy of the script ends it |
| `PhaseStart`, `K6Ends`, `CopySummary` | `run_phase` and the loop around it: `.started_at`, k6, `.ended_at`, the newest summary of `/runs`, and the status as `if !` leaves it |
| `Snapshot`, `Telemetry`, `Finish` | `pg_stat_statements.csv`, `collect-telemetry.sh`, the final manifest |
| `CampaignStarts`, `CampaignTrial`, `CampaignTrialFails`, `CampaignCollects` | the campaign: reset, trial, telemetry again, logs |
| `Interrupt`, `OrphanEnds` | the operator stops the script; the k6 it started goes on in its container and writes its summary later |

`Usage`, `Check`, `CountTelemetryAborts` and `Conclude` of `VerifyManifest` are
the parts of that script. A malformed JSON file is treated as a missing one, as
both readers reject it. An unknown phase name is outside `PhaseLists`. The
`--skip` options only compute the phase list and are planned.

### Runs

| Run | Instance | Result |
| --- | --- | --- |
| `trial_evidence` | a burn-in and a measured trial, 3 executions by hand or in a campaign, 2 faults | holds: `UnfinishedNotCounted`, `EvidenceIsOfOneRun`, `EveryPhaseRecorded`, `CampaignProfileIsOwn` |
| `trial_summary` | 2 executions, 2 faults | violated: the published saturation summary may be another k6 run's |
| `verify_verdict` | all lists of up to 3 directories, each complete or with one of seven things amiss | holds: `VerdictCoversEveryDirectory`, the exit status is 0 exactly when all pass the checks, 1 only after all have been looked at, and 2 only at one without telemetry |

What these scripts do and what their comments say part in more places. The models
follow the code in each, and the properties say what the code does:

* `if ! run_phase "$phase"; then trial_status=$?` reads the status of the negation
  (`exec-trial.sh:242`), so `CopySummary` leaves status 0 after a failed phase,
  although `docs/benchmark/run-manifest.md:64` has it tell of the failure.
* `exec-trial.sh:250` says that the trial driver resets `pg_stat_statements` at the
  start of every trial. `run-campaign.sh` does and `exec-trial.sh` does not: two
  executions by hand give the second a profile with the queries of both. Hence
  `CampaignProfileIsOwn` is about the campaign's executions alone, and there a k6
  that was left over still adds its queries (`Queried`).
* `telemetry_count=$(ls ... | wc -l)` ends `verify-manifest.sh` with 2 when there is
  no telemetry (`CountTelemetryAborts`); its usage text promises 1, and lines 81-84
  meant to report it. The directories after that one are never read.
* The header of `verify-manifest.sh` asks for the application's logs and for
  defensible figures of the saturation phase. A missing log is a warning, and the
  figures are not read: `Publishable` is what is checked.

*Bounds.* Three executions are a campaign of two trials with one run before or
after it, or one trial id run three times with different phases. Two faults are
a failure in one execution and an interruption in another, or an interruption
with a failure afterwards. One measured trial and one burn-in are all that the
readers tell apart. An interruption may happen between any two files written. No
fairness is assumed: nothing here is a liveness claim, and a script may be
abandoned anywhere.

### Proofs

`TrialTyping`, `UnfinishedIsNotCounted`, `EvidenceOfOneRun`, `PhasesAreRecorded`
and `ProfilesAreOwn` prove `TypeOK` and the four properties of `trial_evidence`
for any trial ids, campaign, phase lists and bounds, from the named assumptions of
`TrialDriver` (the campaign is a nonempty sequence of trial ids, a phase list is a
nonempty sequence of phases). `VerifyTyping` and `VerdictTold` prove `TypeOK` and
`VerdictCoversEveryDirectory` of `VerifyManifest` for any arguments (`ArgumentsAssumption`: they
are sequences of directories).

* `DriverTyping`: `TypeOK` with `FlowInv` (where the scripts are: an execution
  in progress is the last of its trial and no other trial has one as recent) and
  `RunInv` (a directory's manifest is that of its last execution).
* `EvidenceKept`: `PhaseInv`, what the current execution has written at each
  step, carries `EvidenceInv` over `Finish`. Until then the manifest has no
  window, which is why nothing else in the directory counts; afterwards the
  windows, preflight records and telemetry bear the number of the execution.
  `CampaignCollects` may rewrite the telemetry of a finished execution, with the
  window that its manifest has: the same number again.
* `ProfilesAreOwn`: between the reset and the snapshot of a campaign's trial
  `pg_stat_statements` holds queries of that execution only, unless a k6 was left
  over (`ProfileInv`).
* `VerdictTold`: the verdict so far is 0 exactly when all directories looked at
  pass the checks, and the one that ended the script early is the one it is at.

## 4. The seed

`SeedPipeline` has the two containers that `docker compose up` starts with no
dependency between them: `seed.py` writes customers, then products, then orders,
items and ledger together; `wait-seed.sh` polls until the five files are not
empty and hands over to the entrypoint, which on a fresh data volume runs
`02-seed.sql`. A file or table is its number of rows; a file that is being
written may end within a row, since Python flushes full buffers.

| Action | Code |
| --- | --- |
| `Up`, `Down` | `up.sh`, `down.sh` without `--volumes`: both volumes stay |
| `OpenFiles`, `Flush`, `CloseFiles`, `SeederRaises` | the three `with` blocks of `seed.py`; `randrange` of an empty range raises |
| `SeederDies` | the container is killed |
| `HandOff`, `WaitTimesOut` | the poll and its deadline |
| `Copy`, `CopyFails`, `Serve` | one `\copy` each, under the foreign keys of `01-schema.sql` and `ON_ERROR_STOP` |

Run `seed_pipeline` (five settings of the sizes, three with an empty table; two starts)
holds:

* `FirstStartLoadsParents`: the race does not reach customers and products on a
  first start, because `wait-seed.sh` also waits for files that `seed.py` opens
  only after closing these two. The order of the blocks in `seed.py` is load
  bearing.
* `EmptySeedNeverServes`: a size of 0 is an empty file, which the poll takes for
  one that is missing.
* `FilledOnce` (an action property): no file is ever copied over rows that are
  there, since the entrypoint comes to `02-seed.sql` once in the life of the data
  volume, wherever that load was broken off. And `WaitEnds` (liveness).

Run `seed_whole` is violated: `docs/benchmark/execution-plan.md` and
`docker-compose.yml` say that the database reads the CSVs once they are in place.
`-s` does not ensure that. An order file of which one buffer has been written counts
as ready, and the property `ServedSeedIsWhole` fails on a first start without any
failure; a broken load or a second start that truncates the files has the same
effect.

*Bounds and fairness.* Two starts are needed for the seeder's second run over
files that exist and for a volume initialised by a broken load; more repeat
these. Sizes of 1 and 2 tell a whole file from a part and from a torn one.
`FairSpec` is weak fairness of the database container: the poll has a deadline
and psql runs to its end. Nothing is assumed of the seeder or the operator.

*Proofs* (`SeedPipelineProofs`, any sizes, any number of starts): `SeedTyping`,
`ParentsAreWhole`, `EmptySeedBlocks` and `SeedIsFilledOnce` prove all that
`seed_pipeline` checks but `WaitEnds`. The inductive invariant
`IInv` says that the groups before the one the seeder is at are complete
(`WrittenGroups`); that until the second start `orders.csv` is empty before its
turn, so that a database that loads finds the seeder at the third group
(`FirstStart`); that what `02-seed.sql` has not come to is empty, and with it every
table until the data volume is initialised (`EmptyAhead`); and that a volume is only
initialised for a seed without an empty table (`NoEmptyTable`). Since `HandOff` loads
only a volume that is not initialised, `EmptyAhead` makes `SeedIsFilledOnce`.

## 5. The Python application and the conformance suite

`PythonApp` is `apps/python/main.py` as a process: `Start` (with the settings
that make it fail), `Stop`, and one action per endpoint and outcome. `POST
/orders` is one step here, as the suite cannot look into it; `OrderWrite` has its
statements. Validation (`ParseBody`), the stock check line by line, the total as
a 32-bit column takes it, the conflict on the key, the CHECK and the foreign key
are kept, and so is the customer beyond 64 bits that asyncpg cannot encode; a replay
needs a second connection and blocks for ever when the pool has only one
(`ReplaysBlock`); what the body of an answer says is reduced to what a validator of the
suite looks at. `observed` is whether the latency histogram has a sample: an
answer is observed by `track_latency` before it is sent, an exception is not; the
labels, which nothing here reads, are left out.

`Conformance` composes it with `bench/conformance/run.py`: the poll of
`/health`, the nine tests in their order, the time limit of a call, the exit
status. Around them are another client, which sends every kind of request the
application tells apart, restarts, a database that goes away, a COMMIT whose
answer is lost, and requests that are handled after the suite has given up on
them.

Run `conformance` (one other request out of 18, pools of one and of two connections, one trouble;
536,579 states)
holds:

* `SuccessIsReal`: exit status 0 means one order per key of the suite, also for
  the key posted twice, and none without a key.
* `FailureHasCause`: a failed test means a restart, a fault, a timeout, or
  products that are out of stock. In particular `/metrics` always has a sample.
* `OrdersMatchStock`: no key has two orders and the stock is what the orders
  leave, however calls time out and connections break.
* `TotalsFit`: twenty lines at the highest price and stock that `seed.py` can
  draw stay below 2^31; with the limit of twenty removed they do not.
* `SuiteEnds` (liveness).

*Bounds and fairness.* One trouble suffices for each test to be hit by each kind
of it; one other request of each kind for each to come between any two calls. The
prices and stocks of the instance include the extremes of the seed. Weak
fairness is of the suite alone: it is a running program whose calls end at their
time limit; the application may do nothing at all.

*Proofs* (`ConformanceProofs`). `ConformanceTyping`, `TotalsAlwaysFit`,
`StockIsAccountedFor`, `SuccessTold` and `FailuresAreExplained` prove all of the
above but `SuiteEnds`, for every seed within the ranges of `seed.py`, every other
client and any number of requests, polls and troubles. Assumed are
`SeedAssumption` (prices in 100 .. 99999 and stock in 0 .. 999, as `seed.py` draws
them), `ProductsAssumption` (the seed has the products the suite orders and not the
one it expects to be missing), `RequestsAssumption` (no other client uses the
suite's keys, which are fresh UUIDs) and `WordsAssumption` (the texts of the
suite are among the texts). The inductive invariant `Inv` has these parts:

* `RowInv`: only requests with a key of their own become orders; whatever has the
  key of the seventh test has its two lines, so that a replay of it shows two.
* `AnswerInv`: a 201 names an order that is there under the key of its request,
  and there is no answer for a total out of range. The latter is arithmetic:
  twenty lines of at most 999 units at 99999 stay below 2^31 (`TotalBound`, by
  induction over the lines).
* `OrdersMatchStock` itself: an INSERT takes from the stock what its order adds to
  the running total (`UnitsOfOneMore`), the CHECK keeps it from going negative.
* `SuiteInv`: which call the suite waits for at which test; `PassedInv`: what the
  tests that have passed leave behind. With keys unique this is `SuccessIsReal`.
* `CauseInv`: as long as no trouble has happened, every answer to a call of the
  suite passes its test or a product is sold out. For each test and each outcome
  of the handler (`HandleAnswers`) this is shown once; that a restart, which
  empties the histogram, is a trouble is what makes the fifth test pass.

## 6. From trials to the published table

`Analysis` has `aggregate.py --json > results/<framework>.json`, `compare.py` and
`report.py`, run by hand in any order while trials are added. A trial is what
`load_trial` reads of it. Kept are admission, burn-in and skipped trials, the
cores, the RPS of the json workload (by which the table is ranked), its mean, the
discovery of trials and of result files, files left empty by a failed
`aggregate.py`, and the ranking.

A rate is a number of hundredths, to which `load_trial` rounds it, and a mean the
fraction of a sum and a count; two rates are compared by cross-multiplication.
The rounding of floating point division is not modelled. A list that entries were
left out of is a function on the places that remain, as the list comprehensions of
the code keep the order. The ranking puts each row at the place given by the
number of rows above it: `sorted(..., reverse=True)` is stable, and `None` counts
as 0.

### Run

`analysis` (trials of eight sorts, up to two under any names, two frameworks; 399,556 states)
holds:

* `TrialsAccountedFor`: the three counts add up, and no burn-in or dead trial is
  in a mean.
* `FileIsWhatWasAsked`: a new results file is made of exactly the trials asked for
  that count. While one of the directories named exists no other is read; this is
  about the moment of the run, as a name may come to exist later.
* `MatrixIsRanked`: no row is above one with a higher rate, and none without data
  above one with a rate; a framework has one row. A measured rate of 0 and no rate
  are equal to the sort, and so they are to the property.
* `NothingLeftOut`: `compare.py` has a row for every framework asked for, and
  `report.py` publishes them all; an empty result file stops `compare.py` before it
  touches its output.

Not a property of the run, as the code disagrees with its documentation or the
documentation with itself:

* `bench/analysis/README.md:29` makes `results/go.json` without `--framework`; its row
  is then the mean of every framework's trials under `runs/`.
* The comment at `aggregate.py:425` speaks of the cores most trials have; `BuildResults`
  divides by those of the first and shows the fewest, as the code does.
  `bench/analysis/README.md:43` divides by the `cpu_count` of preflight, `Cores` prefers the manifest's
  `app_cores`, and without either it takes the load generator's or the database's.

*Bounds.* Two trials are needed for means, for different cores and for two
frameworks. A new trial may sort before or after the one there is, as names begin
with the framework's. `aggregate.py` is given a directory that does not exist, alone (then
it reads all of `runs/`, as it does without an argument) or with one that does;
`compare.py` a list that is not in the order of the names, or none. No fairness:
nothing here must happen.

### Proofs

| Theorem | Statement |
| --- | --- |
| `FilesAreWellFormed` | `AnalysisInv`, the inductive invariant |
| `AnalysisTyping`, `CountsAddUp` | `TypeOK`, `TrialsAccountedFor` |
| `TableIsRanked` | `MatrixIsRanked` |
| `EveryFrameworkIsShown`, `FilesAreComplete` | `NothingLeftOut`, `FileIsWhatWasAsked` (action properties) |

They hold for any frameworks, trials, arguments and lists and any number of
trials. Assumed, by name in `Analysis`: the counts of a trial are naturals; the
names of the files in `results/` differ, and so do the frameworks `compare.py` is
given, which are the keys of a dict.

* The properties of `report` are not inductive: they need what `report.json` and
  the results files are. `AnalysisInv` says that every results file that is neither
  missing nor empty is what `build_results` makes of a list of usable trials
  (`EnvelopeOK`), that `report.json` and `index.html` have rows made of such files,
  one per framework (`Table`), and that the latter is in order. A file
  carries what it was made of, so neither a new trial nor a step on another file
  spoils it.
* *Counting.* `ThreeClasses`: burn-in, skipped and usable trials are disjoint and
  cover the list, so that their cardinalities add up.
* *Sums.* `SumIsNat`: the fold behind `MapThenSumSet` has a solution
  (`FoldExists`) and its value is a natural number, by induction over the size of
  the set with `Induction` of `OrderItemsProofs`. With it every mean has a positive
  divisor (`StatisticsFacts`, `BuildTypes`).
* *Ranking.* Comparing fractions by cross-multiplication is transitive (`Cross`),
  so `Above` is a strict total order of the rows (`AboveFacts`). A row above
  another has fewer rows above it (`Places`); the map from rows to places is
  therefore injective and, the sets being of one size, onto (`EveryPlaceTaken`).
  So the ranking is a permutation (`RankedIsTable`), and it is in order
  (`RankedIsInOrder`).

## 7. Only model-checked

* Liveness: `EveryRequestAnswered`, `WaitEnds`, `SuiteEnds`. The prover has no
  rule for fairness or ENABLED.
* The violations: each is a counterexample on a small instance, which is all that
  is needed.

## 8. Not modelled

* Reads, validation and metrics of the seven other applications: they have no
  state, and what sets them apart is framework plumbing and wording.
* Response texts, HTML, logs, tables printed to the terminal.
* Latency percentiles, resource means and confidence widths: floating point over
  data that no control depends on.
* `run-trial.sh`, the `--skip` options, and `down.sh --volumes`, which returns to
  the initial state.
* k6 schedules, Prometheus, Grafana and Compose configuration.
* The checks inside `preflight.sh` and `check-db-headroom.sh`: they read the host.

## 9. Plan

Done: the order write with its abstract specification, the trial driver with its
gate, the seed pipeline, the Python application under the conformance suite, and
the analysis; proofs of every safety property of all of them. Next, most important
first:

1. `run-trial.sh` with the health poll, composed with `TrialDriver`: can a
   campaign measure an application that is not the one named?
2. The phase list of `--phases`, `--skip-warmup` and `--skip-ramp`, and the
   stages of k6, as pure operators.
