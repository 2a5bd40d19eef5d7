# The wallet service in TLA+

A verification project for the fixed-income wallet in `src/`: an AWS Lambda
with two operations, `POST /deposits` and `POST /withdrawals`, over a PostgreSQL
database shared by all its concurrent instances. The modules model what an
invocation does to that database statement by statement, and what the processes
around it do from their start to their end; TLC checks small instances of races
and failures, and TLAPS proves the properties that matter most for every
instance.

## The system

| Part | State | Operations | Behaviour that is hard |
|---|---|---|---|
| Domain (`internal/domain`) | `Position` (a deposit lot: amount, unit price, total, collateral, judiciary collateral, `row_version`), `ProcessedCommand` | `NewPosition`, `ReconstructPosition`, `AvailableValue`, `UpdateAmount`, `NewProcessedCommand` | decimal rounding; `total = amount * price` must survive it |
| Deposit use case (`application/deposit_service.go`) | none of its own | validate, look up the command, client and asset, build the position and its response, write both in one transaction | two invocations of one order |
| Withdrawal use case (`application/withdraw_service.go`) | none of its own | as above; reads the lots oldest first, debits them in memory, writes each back under its row version | lots change between read and write; residuals of rounding; order of locks |
| Repositories (`adapters/outbound/postgres`) | tables `positions`, `processed_commands` (and, read only, `clients`, `assets`) | find, insert, conditional update | which errors become which domain errors |
| Unit of work (`postgres/transaction.go`) | the open transaction in the context | begin, run, commit or roll back | a commit that fails after it was carried out; a rollback that fails |
| Schema (`migrations/001_initial_schema.sql`) | column scales and limits, CHECKs, unique index on (command type, order id) | coercion of numbers, uniqueness | rounded numbers against an exact CHECK |
| HTTP handlers and router (`adapters/inbound/httphandler`, `cmd/http-lambda`) | none | route, check method and body, run the use case, map its answer to a status, an error code and an outcome for span and metrics | the process ends before the reply; outcomes are inferred from statuses |
| Start (`cmd/http-lambda/main.go`, `platform/otel.go`, `platform/database.go`) | telemetry providers, the connection pool and its settings | read the environment, start and register the providers, open the pool, take events | one of several steps fails after others succeeded; numbers past `int32`; a pool of one connection |
| Logging (`platform/logger.go`) | the process's cold-start flag | a logger per command that takes the flag and clears it | refused events and restarts around it |

Invocations never talk to each other: everything they share is the database.
An invocation sends one statement at a time; between two statements any other
invocation may run, the process may die, or the answer may be lost. Isolation is
PostgreSQL's default, READ COMMITTED, since `Begin` asks for nothing else.

What makes it correct:

* an order is executed at most once, whatever is retried, raced or lost, and its
  answer is replayed from the record;
* a withdrawal debits the lots as they are when it commits, not as they were
  when it read them;
* lots and commands are stored together or not at all;
* a sale stays within the lot and, up to rounding, within what is not blocked;
* every request is answered and every lock is released, with any pool that can
  hold a connection;
* a caller that did not get its reply can send the order again, to any process;
* a process takes events only after a complete start, and what it reports of a
  command is true.

`PROJECT.json` lists under `hazards` the lines where each of these can go wrong.

## The modules

```
Decimals -- Positions -+- LotSelection ----------------+
                       +- Database -- Invocation -+- WithdrawService -+
                                                  +- DepositService --+- Wallet
Ledger (abstract)                                        Wallet -- WalletProperties -- MCWallet
PoolConfig -- Process -+
                Wallet +- HttpApi -- HttpApiProperties -- MCHttpApi
PositionsProofs -- WalletProofs -- IdempotencyProofs -- LotProofs -+- AtomicityProofs -----------------+
                                                                   +- LedgerProofs -- ProceedsProofs --+- HttpApiProofs
```

| Module | Models |
|---|---|
| `Decimals` | `Div` to 16 digits, `Round(6)`, PostgreSQL's coercion to a column's scale |
| `Positions` | the domain types and functions; what a row of `positions` accepts (`Storable`) and becomes (`Coerce`); responses and processed commands |
| `LotSelection` | `ORDER BY purchased_at`, eligibility, the total available, the units sold from a lot |
| `Database` | committed tables, open transactions, their uncommitted rows (which are also locks), begin, write, refusal, commit, rollback |
| `Invocation` | what both use cases share: the label `pc` of the next statement, local memory, the answer; the lookups, the unit of work, the replay; failures |
| `DepositService`, `WithdrawService` | the two `Execute` methods: one action per statement, and one per round of the lot loop |
| `Wallet` | the composition: initial states, who waits for whom, the deadlock detector, fairness |
| `Ledger` | the abstract promise: a table of lots and a table of results, an order executed once, in one step, on the lots as they are; a withdrawal looks first, and must sell from the oldest of what it saw |
| `WalletProperties` | the properties, and the refinement mapping to `Ledger` |
| `PoolConfig` | the pool's settings: defaults, parsing, the narrowing to `int32`, what `NewPool` refuses |
| `Process` | `main()` step by step with each failure and exit, and the end of a process |
| `HttpApi` | the composition of `Wallet` and `Process`: router and handlers, which process runs which event, connections, replies and reports |
| `HttpApiProperties` | the properties of the service |
| `PositionsProofs` to `HttpApiProofs` | the theorems, see [The proofs](#the-proofs) |
| `MCWallet`, `MCHttpApi` | seeds, requests, environments and events of the runs |

### State and code

| Variable | In the code |
|---|---|
| `positions`, `commands` | the committed rows of the two tables; `commands` is keyed by the unique index |
| `open`, `pendingRows`, `pendingCommands` | transactions the server has not ended and what they wrote |
| `pc` | the point of `Execute` an invocation has reached |
| `req` | the request body, `None` for a field that is missing or does not parse |
| `mem` | the local variables of `Execute`: `held` (the new position, or `affected`), `eligible`, `remaining`, units `sold`, how many lots were `written` |
| `err`, `out` | the error the function of `Do` returned; status, error and body returned by `Execute` |
| `faults` | failures so far, bounded by `MaxFaults` |
| `environment` | the environment variables, the same for all processes |
| `phase`, `providers`, `registered`, `pool` | how far `main()` has come; providers started and not shut down; `otel.SetTracerProvider` and `SetMeterProvider` called; the pool's settings |
| `coldStart` | `LoggerFactory.coldStart` |
| `event`, `fate`, `host` | path, method and body of an event; whether it is sent, running, replied or lost; its process |
| `reply`, `report` | status and error code of the response; `cold_start` of its logger and the outcome given to span and metrics |
| `served`, `repeated` | history: the commands a process has logged, and whether the order was on record when the event was received |

Every action is one statement with the local computation after it, up to the next
statement, so an interleaving of actions is an interleaving the database can see.
The lot loop touches no shared state; it has one action per round only so that its
arithmetic can be stated as invariants of its rounds.

PostgreSQL is modelled from how the code uses it: a plain read sees committed rows
and never waits; an `UPDATE ... WHERE row_version = v` that finds another version
committed affects no row; one that finds the row locked waits, and looks again
when the holder is gone; an insert of a key that another transaction has inserted
waits likewise; a refused statement undoes the transaction and frees its locks at
once, and `ROLLBACK` ends it. An unacknowledged `COMMIT` was carried out or not.
A transaction whose connection is lost is rolled back by the server.

Two cases of lost messages have no action of their own because others cover them.
A write that was carried out and whose answer is lost leaves the invocation with an
error and the server with a lock until it drops the connection: the tables and the
answers are those of the write followed by a failure at the next statement, which
`StatementFails` and `CommitFails` have. A `COMMIT` that the server carries out only
after the 500 was answered differs from `CommitFails` in the order of the answer and
the commit, and the answer is the same either way and tells nobody anything of the
record; until then the transaction's locks are held as by one about to commit.

A handler is two actions: `Handle`, up to the first statement of `Execute`, and
`Return`, after `Execute` has returned. A process that ends in between takes the
invocation with it, and one that ends after the commit and before `Return` loses
only the reply. Lambda and the pool are modelled from how the code uses them:
Lambda gives a process one event at a time and may end it at any time; pgxpool
refuses a connection string it cannot parse and a limit below one, connects when
a connection is first asked for, and makes a statement outside a transaction wait
while the transactions of its process keep all connections (`HasConnection`).
A health-check period that is not positive is accepted and makes pgxpool's
background ticker panic: that is one of the ways a process may `End`.
`int32` is `Int32Limit = 8` in the runs: parsing and narrowing are stated with the
width as a parameter.

Decimals are integers of a finest unit. Only ratios of scales matter: how many
finest amount units make the last digit of `amount` (`AmountQuantum`), and so on
for prices and values; `GuardUnits` is the extra precision of a quotient before
`Round(6)`. For example `AmountQuantum = 1, ValueQuantum = 10` is a price in
thousandths: the product of an amount and a price then has one digit more than
`total_value`.

Left out: identifiers beyond their identity; creation and update times (no
decision reads them; `purchased_at` is kept because lots are sorted by it); the
text of errors, log lines and spans; JSON marshalling, which cannot fail for these
types; foreign keys, since clients and assets are never deleted. Reading a row
back cannot fail either: the CHECKs of `positions` are those of
`ReconstructPosition`.

## The runs

The first three of these use `MCWallet`, the others `MCHttpApi`. Requests and processes are
symmetric where the run checks no liveness property.

| Run | Instance | Shows |
|---|---|---|
| `DepositAndWithdraw` | 3 requests out of ten: good and bad, same and different orders; the deposit's clock reads a time before that of the existing lot, the same or a later one, so that withdrawals of both lots can deadlock | `TypeOK`, `SuccessMatchesRecord`, `DepositAtomic`, `RefinesLedger` |
| `Failures` | 3 requests out of three (two withdrawals over 2 partly blocked lots and a deposit, each possibly repeated), up to 2 failures anywhere, or none | `SuccessMatchesRecord`, `RejectedHasNoEffect`, `DepositAtomic`, `NoLostUpdate`, `LocksAcyclic`, `RefinesLedger` |
| `Arithmetic` | 1 withdrawal over 720 pairs of lots and 14 values, columns coarser than the arithmetic | `SaleFitsLot`, `SaleKeepsCollateral`, `ProceedsNearDesired`, `SnapshotIsStoredState` |
| `Service` | 2 events out of four bodies, refused or handled, on 2 processes, in 11 environments, with up to 2 failures | `ApiTypeOK`, `RetryIsReplayed`, `OutcomeIsTrue`, `ConflictHasCause`, `ServingIsReady`, `FailedStartClosed`, `ColdStartMarksFirst` |
| `SingleConnection` | 2 events (a deposit, a withdrawal that needs two tied lots), 2 processes with a pool of one connection, a failure, fairness | `EventServed`, `Answered`, `LocksReleased` |

Why the bounds are enough for what they are meant to show: a lost update, a wait
cycle and a duplicate order each need two invocations; the third one adds a retry
or a newcomer after the first two have met. Two lots are the fewest that have an
order, a residual carried over and a partial write. Two failures allow one that
abandons a transaction and one that hits the retry; `SingleConnection` has one, since
progress needs every state of its graph kept. `MaxFaults` bounds failures in
one behaviour and nothing else; the end of a process counts only while it runs an
invocation that has not returned, so processes restart without limit.

In `Service` two events are an order and its retry, or the two sides of a race, and
two processes are the one that lost a reply and the one that takes the retry. The
environments have each setting at its limits, missing, malformed and just past the
limits: 17 is refused where an `int32` has 4 bits, and would be a pool of one if it
were narrowed without a check. Three events in one such environment with one
failure give nothing new.

`RefinesLedger` says that each behaviour of racing invocations is a behaviour of
the ledger in which orders execute one at a time, atomically, at their `COMMIT`. The
ledger's variable `seen` is the choice of lots a withdrawal made earlier: `Look` takes
in *every* lot that can be sold from, seeded or deposited, and maps to the `SELECT`
of `FindByClientAndInstrument`; `GiveUp` forgets them and maps to an abort, a crash
or a failed `COMMIT`. `Withdraw` then sells from lots that were seen, oldest first,
leaves none that was seen and is older, and stops only when nothing is left to sell
or all that was seen has been sold from (`MayEnd`; something of what was asked for may
then be left, see `Residual`). Only a lot committed between look and execution may
be passed over, which `LateDeposit` shows to happen. In `DepositAndWithdraw` lots are
deposited before and after a withdrawal's read, with purchase times on both sides of
the seeded lot's and equal to it; its mutant is a `SELECT` that returns only the oldest lots.

`ConflictHasCause` is about the row and not only about the client: whoever gives up
with a conflict was about to write a lot at a version that has been passed, and
another recorded withdrawal has that lot in its snapshot (`Overtaken`).

### Disagreements with the documentation

Each has a run that TLC must find violated; details in `PROJECT.json` under
`findings`.

| Run | The documentation | The code |
|---|---|---|
| `DuplicateRace` | repeating an order replays its response | a repeat that overlaps the first meets the version conflict, or the emptied lots, before the unique index, and is answered 409 |
| `BlockedValue` | collateral constraints are respected | `Round(6)` may round units up and sell a little of what is blocked; `SaleKeepsCollateral` bounds how little |
| `Residual` | the loop absorbs every residual | the last lot's units may be rounded down; `ProceedsNearDesired` bounds the difference |
| `FinePrice` | a valid withdrawal succeeds | with a price of more than two decimals the exact CHECK on rounded numbers refuses the row: 500 on every retry |
| `LateDeposit` | reading inside the transaction keeps the FIFO order consistent with the updates | a deposit committed after the `SELECT` is not seen, whatever its purchase time, and no row version gives it away |
| `WithdrawReplay` | a replay is reported with the outcome `replayed` | a withdrawal answers 200 either way and its handler reports `success` for both, while `Execute` marks its own span `replayed` |
| `FineAmount` | decimals keep exact precision | an amount of more than six decimals is rounded by the column, while the response and the snapshot show it unrounded |

Also worth knowing: `README.md:250` says that duplicate commands are rejected,
while they are replayed with 200; and order ids are shared by all clients, so a
second client's order of the same id gets the first one's snapshot. Because of
`WithdrawReplay`, `OutcomeIsTrue` says of a deposit that a success executed the order
and a replay did not, but of a withdrawal only that a success is on record.
`tracing/design.md:34` says that `main.go` shuts the providers down before exit;
when settings or pool are refused, `os.Exit` skips the deferred call (`Exit` in
`Process`).

### Fairness

`FairApiSpec` assumes weak fairness of each invocation's next statement (a received
request is being executed by a goroutine that nothing in the code blocks except
the database and, without a connection, the pool), of `Return`, by which a handler
whose use case has returned replies, of the server's cleanup of lost connections,
and of its deadlock detector. An invocation that waits for a connection is given
nothing. Nothing is assumed of callers, failures or crashes, and nothing makes
Lambda start a process, end one, or hand it an event. `Answered` needs the
detector: the lots of `SingleConnection`, bought at the same time, make wait cycles
between two processes possible, and `LocksAcyclic` shows that they are impossible
when purchase times differ.

## The proofs

For every set of requests, lots, clients and orders, all scales and limits, and
any bound on failures. Every safety property of the passing runs is also a theorem (two of them under a
hypothesis);
the runs show each on a small instance, and that it can fail (the mutants).

### The wallet

* `WalletProofs!TypeCorrect`: `Spec => []TypeOK`. `TypeOK` says more than the
  types: every row, buffered row and position in memory has non-negative numbers
  with `total_value = amount * unit_price`, which rests on `UpdateAmount`, on the
  CHECK seen through the coercion, and on the units sold being natural numbers
  because an eligible lot has a positive price. It is not inductive: that memory
  holds a position when it is written, or that a lot about to be sold is
  eligible, depends on how the invocation got there. `ControlOK` says what is known
  at each label, and `TypeInv` is the inductive invariant.
* `IdempotencyProofs!Idempotent`: `Spec => []SuccessMatchesRecord`. A `COMMIT`
  must not overwrite a record and must record what is answered, so the invariant
  adds that an uncommitted command is of its own request and not recorded yet
  (`PendingIsNew`), that no two transactions hold one key (`PendingExclusive`), and
  that an invocation about to commit has inserted the response it will answer
  (`CommitHasCommand`). Every step but the insert and the commit is `QuietStep`:
  it keeps the records and answers success only by replaying one.
* `LotProofs`: what an invocation knows of lots. `NoUpdateIsLost`
  (`NoLostUpdate`), `SalesFitLots` (`SaleFitsLot`), `SalesKeepCollateral`
  (`SaleKeepsCollateral`) and `NoWaitCycle` (`LocksAcyclic`) rest on one invariant,
  `LotInv`. Its heart is `ReadBy`: a lot in the memory of a withdrawal is still the
  stored row, or that row has a higher version and another withdrawal of the client
  is recorded that sold from that lot (`Overtaken`). Versions only grow, so an `UPDATE` that finds the version read finds
  the row read, and a row that is pending is changed by nobody else
  (`RowsExclusive`). `IsLoop` adds, for each round so far, the value that was left to
  sell before it, and `InOrder` that the lots read are in purchase order. `LotCommit` is the step that matters: a `COMMIT` of
  another withdrawal turns the first alternative of `ReadBy` into the second.
  `NoWaitCycle` assumes `DistinctTimes`, a property of the state: no two stored lots
  have the same purchase time. Without it cycles exist, as in `SingleConnection`.
  Whoever holds the lot a withdrawal waits for is itself about to write a later one
  (`WaitsForLater`), so in a cycle the withdrawal with the latest next lot could not
  wait; and whoever holds a command key waits for nobody.
* `AtomicityProofs`: `DepositsAreAtomic` (`DepositAtomic`), `RefusalsHaveNoEffect`
  (`RejectedHasNoEffect`). `AtomicityInv` adds that a recorded command is that of an
  invocation which is over and has answered success, or 500 after a failure, or
  never (`RecordIsOfItsRequest`), so a live invocation and one that refused have
  recorded nothing; and that a conflict has a recorded withdrawal behind it.
  `ConflictInv` says which: while an invocation gives up with a conflict, the lot it was
  about to write is at a version it has not read, and that lot is in another's
  snapshot; versions only grow and records stay, so it remains true (`LostRaceStays`).
  `SnapshotsAreStored` is `Spec => SnapshotIsStoredState` when every deposit asked
  for is at the scale of its columns (`AtColumnScale`); the run `FineAmount` shows
  that the hypothesis is needed, and `SnapshotsAreExact` what is true without it:
  a snapshot shows what was in memory, which for a withdrawal is what is stored.
* `LedgerProofs!WalletImplementsLedger`: `Spec => RefinesLedger`. A step that commits
  nothing leaves `lots` and `results` alone and changes what its invocation has seen in
  one of three ways (`OnlySees`): not at all, since a lot that is sold from moves from
  the queue to the lots held (`SeenAtSale`); to nothing, when it answers, aborts or
  crashes; or, at the `SELECT`, from nothing to all the lots the ledger can sell from
  (`SeenAtSelect`: the rows sorted are exactly the eligible ones). A deposit's `COMMIT`
  is the ledger's `Deposit`. For a withdrawal the ledger runs the loop again over the
  rows stored at that moment; since each row written is at the version read, these
  are the rows the invocation computed with (`LoopIsCurrent`). The ledger's recursive
  `ToSell` therefore has the values of the rounds, shown by taking the least round in
  which two such functions differ (`ToSellUnique`). `OldestSold` and `LoopIsOver` give
  the ledger's order and `MayEnd`: the lots seen are the lots held and, after them in
  purchase order, those still in the queue.
* `ProceedsProofs!WithdrawalsSellWhatIsAsked`: `Spec => ProceedsNearDesired`. A round
  misses the value asked of its lot by at most `RoundingError`, and the loop may run
  out of lots with something left, so the invariant `FundsInv` bounds what remains on
  both sides: by the errors of the rounds so far, and above also by what the lots not
  sold from still have. The check before the loop makes that sum large enough at the
  start (`ReadHasFunds`), and each round moves its lot from one sum to the other
  (`RoundKeepsFunds`). The property adds over *sets* of lots and the loop over a
  *sequence*, so the module first shows what the library's fold computes: its sums
  exist, do not depend on the order (`SumSplits`), and agree with a running total
  (`SumAlong`), by taking a smallest set for which they do not.

### The service

* The lemma `ServiceIsWallet`, `ApiSpec => Spec`, holds by the way the modules are
  composed: every action of `HttpApi` takes an action of `Wallet` or leaves its
  variables alone. It says nothing of the handlers, and is there so that
  `ServiceIdempotent`, `ServiceKeepsLots` and `ServiceImplementsLedger` can carry the
  theorems above over to the service.
* `HttpApiProofs!RetriesAreReplayed`, `OutcomesAreTrue`, `ConflictsHaveCauses`:
  `RetryIsReplayed`, `OutcomeIsTrue`, `ConflictHasCause`. They speak of replies, which
  are sent after the invocation has answered, from another variable, while records
  may be added; `ReplyInv` says what a reply and a report are made of at each point of
  an event's life, and that the invocation of an order which was on record when its
  event was received is at the lookup, or over with the recorded snapshot, a refused
  body or a failure (`Retried`). It needs that
  records are never lost or changed (`RecordStays`) and that an answer stays as it is
  (`AnswerStays`).
* `HttpApiProofs!StartIsSound` (`ServingIsReady`) and `FailedStartsAreClosed`
  (`FailedStartClosed`). Both speak of the end of `main()`; `HalfStarted` adds what is
  started and registered at each point before it. That a setting is used as written
  rests on `ConfigIsTyped`: narrowing is the identity on what `ParseInt` accepts.
* `HttpApiProofs!ApiTypeCorrect`: `ApiSpec => []ApiTypeOK`, with `TypeCorrect` for
  the statuses that are passed on.
* `HttpApiProofs!ColdStartIsFirst`: `ApiSpec => []ColdStartMarksFirst`. The invariant
  adds that a running process's flag is up exactly while it has logged nothing
  (`FlagIsUp`), and that an event it has logged is not still to be received, so that
  its report is not written again (`ServedOnce`).

The assumptions are the named `ASSUME`s of the modules: positive scales, natural
limits, seeded rows that PostgreSQL can hold, finitely many lots and requests
disjoint from the seeded lots (fresh UUIDs), request fields that are numbers or
missing, known assets of the types the schema's CHECK admits; settings that are
integers, unset or malformed, and an integer width that holds the default. TLC
evaluates them in the runs. Two theorems have a hypothesis of their own, named
above: `DistinctTimes` and `AtColumnScale`.

`PositionsProofs` holds the lemmas on the operators: bounds of rounding, that
coercion, sales, responses and tables keep their types, and what reading and
sorting lots gives.

Only model-checked: the liveness properties `Answered`, `LocksReleased` and
`EventServed`, which are out of the prover's reach. The seven properties of the
findings are false and have runs only.

## Not modelled

* Log lines, the contents of spans, and the instruments and buffers of
  OpenTelemetry: no decision of the code reads them, and what is lost with a frozen
  process is up to the SDK and Lambda.
* Code that nothing in the service calls: `UpdateCollateral` and
  `UpdateJudiciaryCollateral` (blocked values are part of the seeded rows), the
  constructors and `Create` methods of clients and assets, and the finders no use
  case uses.
* Ports (interfaces without behaviour) and the local environment.

## Plan

1. Done: the core above, its runs, `TypeCorrect` and `Idempotent`.
2. Done: the service around the wallet (`PoolConfig`, `Process`, `HttpApi`), its runs,
   `StartIsSound`, `ApiTypeCorrect` and `ColdStartIsFirst`.
3. Done: the safety properties of both as theorems, the refinement of `Ledger` and of
   its loop, and what a withdrawal sells.
4. Next: state in `Ledger` what the step of a withdrawal may leave unsold, from the
   bound of `ProceedsProofs`; bound how often a withdrawal that is retried can meet a
   conflict (each one has a recorded withdrawal behind it).
