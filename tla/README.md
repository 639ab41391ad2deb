# Verification of substreams-hypercore

TLA+ modules, TLC runs and machine-checked proofs for the repository in `src/`:
the Rust crate that turns Hyperliquid blocks into rows (`src/src/`) and the
ClickHouse schema that aggregates those rows (`src/clickhouse/`). Paths below
are relative to the repository root.

## 1. Inventory

### The parts of the system

| Part | State it keeps | Operations | Talks to |
|---|---|---|---|
| Fill-only decoder, `src/decode.rs` | the `FillDecoder`: a partial block, `capacity` flag, two counters | `fills(payload, limits)`; Prost's loop calls `merge_field` once for each top-level field | Prost (framing, generated merge), the native caller |
| Native projection, `src/native.rs` | none: borrows a decoded block | `project`, `Projection::fills`, `classify` | the caller, `rows` and `fills` |
| Row formatter, `src/rows.rs` | `Tables` while it formats | `fill_changes`, keys and metadata of every row | `native`, `fills`, crate `substreams-database-change` |
| Fill rows, `src/fills.rs` | none | `process_fills`, `process_projected_fill` | shared by `legacy` and `rows` |
| Event rows, `src/events.rs` | none | `process_events`: five kinds of body, two of them lists | `Tables` |
| Ledger rows, `src/ledger_updates.rs` | none | `process_ledger_updates`: 20 kinds of delta | `Tables` |
| Handlers, `src/legacy.rs` | `Tables` of one call | `db_out` / `database_changes`, `map_fills` | Substreams runtime, the three above |
| Sink and raw tables, `clickhouse/schema.0-1.*` | the inserted rows | insert a block's rows, retry for ever | `db_out`, ClickHouse |
| Incremental aggregates, `schema.2.mv.*`, `schema.4.mv.state_platform` | aggregating and summing tables | run on every insert | raw tables |
| Refreshable tables, `schema.3/4.mv.state_user_*`, `*_uniq_user` | replacing tables with a TTL | rebuilt on a schedule | raw tables, and each other |
| Read-side views, `schema.3.view.*` | none | queries | the tables above |

### What is hard about it

- **Failure in the middle.** `fills`, `project` and `fill_changes` check while they
  work. An error must be the one the request deserves, whatever was found first
  by another reading of the code, and must carry nothing of the work done.
- **Bounds before work.** The number of fills is enforced before a fill's body is
  decoded; input size before a row is built.
- **Indexes.** A row's key is computed from positions with a stride of 1000, in
  an integer whose width depends on the build, and printed in a key and cast to
  u32 in a column.
- **Two passes over one list** (events, ledger updates) that must split it.
- **Two paths to the same rows** (inside Substreams, native) that must agree.
- **At-least-once delivery.** The sink inserts a block table by table, each insert
  runs views and, through them, further views, nothing of this is transactional,
  and a failure sends the sink back to its last cursor.
- **One event, several rows.** A match is two rows (or one), a liquidation has
  the counterparty's row beside it, a withdrawal comes pending and finalized; every
  column has its own rule which of them to count.
- **Schedules.** The refreshable views have no coordination but clocks: their
  reads, their inserts, the TTL of what they wrote and the arrival of late fills
  interleave freely; a refresh may fail.

The complete list, each hazard at its line and with the properties that would
catch it, is in `PROJECT.json`.

### What makes each part correct

- Decoder: one verdict per call, decided by the first fault in field order; the
  whole of header and fills or nothing; no more than `max_fills` bodies decoded;
  what an ordinary decoding would have kept, duplicate headers included.
- Projection and formatter: the verdict of the whole request; no row before the
  input checks; rows carry the clock of their own block.
- `database_changes`: every item of a block has its row, once, in order, under a
  key of its own; the blocks row is there exactly beside others.
- Both paths: same fill rows.
- Refreshable tables: how stale a count can be, and that a row does not vanish.
- Sink: no block behind the cursor is missing anywhere; what is repeated is
  explained by failures.
- Incremental aggregates: equal to a batch recomputation, whatever the order and
  the grouping of inserts and merges; bars nest; matches, liquidations and
  withdrawals count once.

## 2. Modules

| Module | Models | How |
|---|---|---|
| `Wire` | the decoder's input and what is owed for it | a payload is the sequence of its top-level fields: tag, is it framed, is its body valid, which header fields it sets. A fill or header value is the position of the field it came from, so comparing positions compares contents |
| `AtomicCall` | the promise of a fallible call | one step from pending to a verdict, with the whole result on Ok and none otherwise; `Verdict` and `Complete` are parameters |
| `Decode` | `decode::fills`, `FillDecoder::merge_field` | one action for each branch of `merge_field` and each outcome of it (merged, refused for the limit, failed), before and after them the checks and reports of `fills` |
| `DecodeProofs` | theorems about `Decode` | see section 5 |
| `BlockRows` | classification, indexes, keys, `Tables` | pure operators shared by the three modules below. A row is identified by its key and its origin, the item of the block whose values it holds; overwriting changes the origin |
| `DbOut` | `database_changes` | one action is one iteration of the innermost loop running: a fill, a body, a part of a list body, a ledger body, and the ends of the loops |
| `DbOutProofs` | theorems about `DbOut` | see section 5 |
| `FillChanges` | `project` then `fill_changes` | one action for each check, each measured fill, each formatted fill |
| `FillChangesProofs` | theorems about `FillChanges` | see section 5 |
| `NativeParity` | both paths on one block | extends `FillChanges` and instantiates `DbOut` beside it, with the usize of each build; their steps interleave; the native side gets the block as `map_fills` passes it on, without events |
| `NativeParityProofs` | the theorem about `NativeParity` | see section 5 |
| `Aggregates` | the insert-triggered views of `schema.2.mv.*` and `state_platform`, and `FillRow`, the column values they read (`fills.rs`, `rows.rs`) | pure operators: from a fill to its raw row, the filter, the bars and the sums of a view, the view over the views, and the merge of partial rows. Columns of one shape are represented by one or two of them |
| `Ingest` | the sink and what an insert sets off | actions for the start of a batch, the insert of a table (with all views it feeds), an insert that fails part-way, the saved cursor, its failure, and a background merge. A state table is a bag of partial rows |
| `Delivery` | what readers of the tables may count on | no batches, failures or merges: a step gives some routes one more copy of the next blocks, or saves blocks that are everywhere; the tables are a function of the copies. Routes and views are parameters |
| `IngestProofs` | theorems about `Ingest` | see section 5 |
| `Replacing` | ReplacingMergeTree, FINAL and TTL | what readers of a refreshable table see after an appending refresh, and when a row may go; used by the three modules below |
| `UniqUser` | `state_ohlcv_fills_uniq_user`, `state_open_interest_uniq_user`, `state_ohlcv_liquidation_uniq_user` | a table is its window, its TTL and the offset of its 6-hourly view (if any), a member of the constant `Tables`; time in half hours; actions for the late insert of a fill, the hourly refresh, start and end of the 6-hourly one, a failure of either, the expiry of a row, and the clock |
| `UniqUserProofs` | theorems about `UniqUser` | see section 5 |
| `UserStats` | `state_user_by_coin` (both its views) feeding `state_user_leaderboard` and `..._by_dex` | time in quarters of an hour, one tick for each minute of the schedule (:22, :42, :47, :57); actions for a late fill, the refresh of each view (the all-time one in two steps), a failure of any, expiry and the clock |
| `UserStatsProofs` | theorems about `UserStats` | see section 5 |
| `OutcomePosition` | `state_user_outcome_position` | time in hours; the chain executes trades, splits, merges and settlements, the sink inserts their blocks later, the view sums them up |
| `OutcomePositionProofs` | theorems about `OutcomePosition` | see section 5 |

Names follow the source: `capacity`, `events`, `unknown` are fields of
`FillDecoder`; `input_bytes` and `tables` locals of `fill_changes`. Variables
marked *history* (`attempts`, `trace`, `read_at`, `missed`, `failures`, and `written` along the paths
through views) are observers the code does not have and no guard of a code step
reads, except `missed` and `failures`, which bound how much fails.

What is abstracted: bytes and lengths of encodings are numbers of the request; a
coin name is what `parse_outcome_coin` can tell about it (prefix, digits, value);
the columns of a row other than `event_index` stand behind its origin (what the
aggregates read of a fill is spelt out in `Aggregates.FillRow`, with a decimal string as
what `parse_f64` can make of it); the clock is the same for all rows of a call and left out of keys. A payload's fields
fail in Prost in two ways, framing and body, and a header that fails has
already been merged in part: any part. The columns of the user statistics all
aggregate the same fills, so a row of `UserStats` is told by the set of fills it
counts and the funding payments its join has added; dust, prices and fees are left
out. `UserStats` and
`OutcomePosition` take every block once; how often the sink can repeat one is the subject of
`Ingest`. There blocks are batched up to `MaxBatch` (the `dev` target flushes every
block), prices and sizes are small integers, and time is in seconds. The holdings of the chain in `OutcomePosition` are
external: releases never exceed them, and the sink's history may begin after
shares were acquired.

## 3. Runs

| Run | Question | Bounds | Result |
|---|---|---|---|
| `decode` | does the decoder keep its promise, field by field? | payloads of up to three fields of every kind and fault, ceilings of the limits scaled down, limits at 0, inside, at and above the ceiling | holds |
| `db_out` | is every item of a block formatted once, in order, and kept? | stride 3; up to two events; lists of bodies and parts at and one over the stride; usize 18, so that two events just fit; coin values on both sides of u64 and of the side digit | holds |
| `native_path` | does the order of the checks matter to the caller? does the native path, on what `map_fills` passes on, give the fill rows of `db_out`? | up to two fills with every checked field good and bad, two faults at a time; up to three fills of every kind beside events that collide, and four, too many for a scaled u32; usize 64 and 16 | holds |
| `uniq_user` | how stale are the counts, do rows vanish? | each of the three tables; two users, one coin, 16 hours; cadence 2 and 12 ticks, rows live 14, window 8, bars of 4; two fills up to 90 minutes late; one failed refresh | holds |
| `uniq_user_missed` | is one missed cycle tolerated? | same, OHLCV table | **violated** |
| `uniq_user_older` | do older counts stay current? | same, OHLCV table, no failure | **violated** |
| `user_stats` | how far do the leaderboards lag, do all-time totals drop? | one user, two coins on two dexes, trades, reshapes and funding payments; 15 hours; intervals of one and three hours; rows of the source live 13 hours, of the boards 3; two fills in the first hour and a half, up to a tick late, so that they are inserted before, while and just after the first all-time refresh runs; one failed refresh of any view | holds |
| `user_stats_lag` | do the leaderboards lag by two hours at most? | same, one fill, no failure | **violated** |
| `outcome_position` | are open positions shown, with their balance? | both legs of one outcome, three fills, five hours, rows live three; at most one share of a leg from before the sink's first block; one failed refresh | holds |
| `outcome_closed` | are only open positions shown? | same | **violated** |
| `ingest` | what do failures, batches and merges do to the tables; does each column count what it says; do they together implement `Delivery`? | four chains of two or three blocks (matches on a perps and an outcome coin, both kinds of liquidation, of the taker and of the maker, a price that is no number, a split, funding, deposits, a withdrawal made final in another bar, an empty block); bars of one and five minutes; batches of up to two blocks; matches in the first second of a bar of either length, in the last second before it and inside; one failure, at any point of any insert or of the cursor update | holds |
| `ingest_platform` | is `total_volume` of the platform the volume of the fills? | the chain with a liquidated short, no failure | **violated** |

The bounds are small because the code looks at little: the decoder at one field,
its two counters and a flag, so three fields cover every pair of faults with a
good field before, between or after them (the theorems of section 5 are about any number); the formatter at one item and the key, so
collisions need one list longer than the stride and one item after it. The
stride, ceilings and widths are constants: scaled together they keep the
relations the code depends on (`stride^2 * events <= usize`). `UniqUser` keeps
the order of its periods (1 h < window, bar not a divisor of the window's
position, 6 h + run time < 7 h < 12 h). `UserStats` and `OutcomePosition` use the
periods of the schema; the intervals are short ones, as nothing depends on their
length but the time a fill stays in them.

`Ingest` is bounded by what can meet: a failure splits the paths of one insert in
every way the chain of views allows, a second one only adds another copy (the
theorems of section 5 are about any number of failures, blocks and any batch); two bar
lengths show nesting; times lie at the first second of a bar, just before it and inside.

What the five violations show is described in `PROJECT.json` under `findings`:

- one missed refresh empties old bars for up to five hours although the TTL is
  said to cover it (`uniq_user_missed`);
- the hourly view replaces the full count of a bar that crosses the edge of its 14
  days by a partial one, which a weekly bar shows for most of a week (`uniq_user_older`);
- all-time rows come from a source that is refreshed every six hours, so the leaderboards may
  lag by about seven and a half hours, not by the two their heads state (`user_stats_lag`);
- a closed outcome position stays visible, as open, until its row's TTL (`outcome_closed`);
- when a short is liquidated, the buyer's row says `LIQUIDATED_*` and is filtered out
  of `state_ohlcv_fills`: the seller's side of the match is in the bar, the buyer's is
  not, and `total_volume`, taken from the buyers' side as "already equal" to the total, misses
  it (`ingest_platform`). For outcome coins `total_volume` adds both sides, so a match
  with a row of each counts twice; the comment there says only that the sides differ.

Two more are visible in the models and have no run. Lists of more than 1000 bodies or parts
overwrite rows although `events.rs` speaks of unique indexes: `NothingMerged` is conditioned on
`Addressable`, and the blocks of `db_out` include some that are not. And the tables of `UniqUser`, `UserStats` and `OutcomePosition` are appended to, so a
row goes only when a newer one with its key replaces it or its TTL passes: a refresh
writes no row for a user who has stopped trading, the last one stays, and the
leaderboards renew theirs from it every hour.

`AlltimeLag` states what the lag of all-time rows is: the six hours of their source's cadence, the
time that refresh takes and the hour until the leaderboard runs. The bound is exact: with one tick
less TLC finds a fill that just misses a refresh, and whose next one ends just after the leaderboard
has read. The heads of both leaderboards promise two hours for the table as a whole; that this is not
so for these rows is the run `user_stats_lag`.

Deadlock is not checked where a call ends (`returned`, `done`) or the clock
stops at its bound.

## 4. Fairness

`Decode`, `DbOut` and `FillChanges` state safety only: they run in their caller's thread, wait
for nothing, and every turn of a loop advances an index of a finite list, which leaves nothing for
a liveness property to find out. The modules of refreshable tables state safety only as well;
instead of fairness, their clock does not pass a due refresh: ClickHouse starts refreshes at their time and limits
them by `max_execution_time`, and the ones that do not succeed are the actions
`Miss`, `MissRecent` and `MissAlltime`.

`Ingest` assumes weak fairness of `SinkGoesOn`, the sink's own steps that succeed: it is
started with `--infinite-retry` and waits for nothing but ClickHouse. Failures are
not fair, and there are finitely many; `AllIngested` says that they only delay. The
action names the control of those steps without the rows they write, which
changes neither when they are enabled nor what they are, as `Insert` is `Sent` and
a write that is always possible. Merges are not fair: nothing may depend on them.

## 5. Proofs

Each proof module extends the module it is about, states an inductive invariant
`IInv` as a conjunction of named parts, proves it step by step (one lemma for each
action) and reads the theorems off it. TLC has checked `IInv` on the instances of
section 3 before it was proved.

### Decoder

`DecodeProofs` proves for every payload, every set of header fields and all limits:

- `TypeCorrect`: the type invariant, of which the last two conjuncts say that a
  block is returned exactly with Ok;
- `AttemptsAreBounded`: no more than `max_fills` bodies reach the generated decoder;
- `PrefixIsDecoded`: while merging, header, fills and counters are those of an
  ordinary decoding of the fields read so far;
- `Refinement`: the decoder implements `AtomicCall`;
- `AgreesWithGenerated`: how the verdict relates to the generated decoder's.

The invariant is `IInv`. Its parts are the properties above and `Progress`, which says
what each program counter implies about the position reached: that a failed
merge stands at the first field that stops it, that `capacity` is set exactly when this
field is over the limit, and that a returned call has the verdict of its request.
`DecodesPrefix` alone is not inductive: to conclude that `Capacity` is the right
verdict one needs that no earlier field was a reason to stop, and that the
number of fills kept is the number of fill fields read, which follows from the
order of `fills` (a strictly increasing enumeration of a finite set has its cardinality).
The assumption used is `RequestsAssumption`, that requests are well typed.

### Sink

`IngestProofs` proves for all chains, intervals, batch sizes and numbers of failures:

- `NothingLost`: every block behind the saved cursor is in each table and view that
  its rows go to (`AtLeastOnce`);
- `RepeatsAreBounded`: each failure adds at most one copy of a row along any path, and
  only in the blocks a batch after the cursor may hold (`RepeatsBounded`);
- `TypeCorrect`: types, and that bars begin at multiples of their interval;
- `AggregatesAreBatch`: whatever the batches, the inserts that fail half-way and the background
  merges, a reader of a state table gets what its views would make at once of all the blocks,
  each as often as it was inserted (`ViewsAreBatch`);
- `DistinctAreExact`: at the end the columns that do not mind repeats are exactly the chain's
  (`DistinctExact`);
- `Refinement`: the sink, its restarts, the views and the merges together implement `Delivery`;
- `BarsAreNested`: a bar is at any moment the sum of the shorter bars inside it (`BarsNest`);
- `MatchesCountOnce`, `LiquidationsCountOnce` and `WithdrawalsCountOnce`: whenever the sink is
  `Quiet`, the bars count every match, every liquidation and every withdrawal of the saved
  blocks once (`MatchesOnce`, `LiquidationsOnce`, `WithdrawalsOnce`).

The invariant has two halves. That of the sink (`SinkInv`) adds `SinkTypes`, the types of the
sink's variables, and `RepeatsFailed`: a block the sink is still going to insert into a table
has been inserted there only by attempts that failed. `RepeatsBounded` needs it: without it
the insert of a pending table could exceed the bound.

`ViewsAreBatch` is not inductive as it stands: it speaks of rows grouped block by block, of which
an insert of several blocks and a merge leave no trace. The half of the state tables says the same
delivery by delivery, where a delivery is a row of a block on one path: a bar
has seen just what was delivered to it (`Sighted`), a column of a bar adds up to what all
deliveries owe it, each as often as its block was written along its path (`Balanced`), and the
partial rows are of the table's columns (`Stored`). An insert adds the
same to both sides (`FedMass`, `OwedStep`), whichever paths it reaches; a merge changes neither
(`MergeKeeps`). From this what is said of all tables follows by regrouping one sum over deliveries: by
block and path, or by shorter bars. `AlongParts` is what makes the regrouping possible, one or two
views deep: what a path makes of some rows is, bar by bar, a sum over these rows. `BarsOf`
is the arithmetic of bars: a short bar lies in the long bar of the same
time, and in no other.

The mapping of `Refinement` reads every state table (`Merged`) and takes `written` for the copies. A
batch is not seen, inserts and half-failed inserts are both deliveries, and starts, failures
before the cursor and merges are stutters. That these do not change what is read, and that
deliveries change it to just what `Delivery` shows, is `ViewsAreBatch` before and after the step;
that a saved block is everywhere is `AtLeastOnce`.

The last three theorems are about what happened on the exchange, of which the views see two rows a
match and two events a withdrawal. That counting one of them is right is not in this
repository's hands but in the exchange's, and the views rely on it. Each theorem names what it
needs as a hypothesis, a predicate on chains in `Ingest`:

| Hypothesis | What the exchange keeps to | Used by |
|---|---|---|
| `FillsWhole` | a trade and a row of a liquidation have a coin, a time and positive numbers; an outcome coin is bought, sold and not liquidated (schema.4.mv.state_platform.sql:93) | matches, liquidations |
| `OneTakerRow` | of the rows of a match, by transaction, at most one is the taker's | matches |
| `OneLiquidatedRow` | beside a row of a liquidation is the liquidated user's, of the same transaction, time, price and size, and only one | liquidations |
| `WithdrawalsAnnounced` | a final withdrawal was announced before, once, with the same amount; amounts are positive | withdrawals |

TLC evaluates all four on the chains of the `ingest` run (`PromisesKept` in `MCIngest`), which have
both sides of every match, a liquidation with both counterparties and a withdrawal that is
announced and finalized in different blocks. A trade whose taker's row is missing from the data is
allowed: it is a match for nobody. The argument: in a quiet moment a delivery of a saved
block has been written once and no other at all (`QuietTimes`), so a column is a sum over the rows
that arrived (`QuietSum`); the rows that the column counts name the matches one to one
(`TakersAreMatches`, `LiquidatedAreLiquidations`, `FlowIsWithdrawal`), and a sum does not
change under another name (`Renamed`). For a match to be in a bar as often as its row, the row
has to be on exactly one path to the table (`TradePathIs`, `TradePathExists`), in the bar
of its own coin and time (`FillArrived`, `FillArrives`).

For all theorems it is assumed that chains are sequences and bounds naturals
(`ChainsAssumption`, `BoundsAssumption`); that rows hold what their column types admit
(`RowsAssumption`: times from 0, integer prices, sizes and amounts, finitely many events that bear
the number of their block); and that an interval is a multiple of any shorter one (`IntervalsAssumption`, which
1, 5, 10, 30, 60, 240, 1440 and 10080 minutes satisfy).

### `database_changes`

`DbOutProofs` proves for every block, stride and width of `usize`:

- `TypeCorrect`: types, and that `order` lists the keys of the rows without repeats;
- `PassesFormatEachItemOnce`: the passes split the items between them and keep their order;
- `AddressableRowsApart`: if no list reaches the stride and the indexes fit in
  `usize`, different items have different keys;
- `FillRowsKept`: whatever an event's indexes wrap to, it does not overwrite a fill's row;
- `BlockRowOnlyWithOthers`: a blocks row if and only if there is another row.

The invariant adds `Position`, which places `pass`, `i`, `b` and `d` inside the
block's lists; `Kept`, that every formatted item has its key, with its own values
if it is a fill or the block is addressable; and `Output`. The one piece of
arithmetic is `KeysApart`: `(e * Stride + q) * Stride + p` determines `e`, `q` and `p` when
`q` and `p` are below the stride and nothing wraps. Fill rows need no such condition: their tables
are in no other pass, and the positions of fills do not wrap (`FillKeysApart`).

### Native path

`FillChangesProofs` proves for every request and any limits:

- `TypeCorrect`;
- `ChecksComeFirst`: no row before all checks of the caller's input have passed;
- `Refinement`: `project` followed by `fill_changes` implements `AtomicCall`.

`Stage` says what each program counter implies about the checks passed and, in the loop
that measures, that `input_bytes` is the length of the fills before `n`. The code
stops at the first fill that takes the sum over the limit; the verdict speaks of
the whole sum, so the refinement needs that sums of lengths do not decrease (`SumsGrow`).
`CeilingAssumption` says that a sum which saturates is over the limit: 64 MiB are far from
the end of a native `usize`.

`NativeParityProofs` proves `NativeRowsAreDbRows`: whatever the block, the limits and the widths
of the two `usize`, the rows returned by the native path are the fill rows of `db_out`, which stand before all
others. Its invariant follows each side by itself (`FillsFirst`: the rows begin with those
of the fills done, and no further row is in a fill table); that the
two then agree is a fact about two lists. `CallsAssumption` says that both read what
the decoder can return.

### Refreshable tables

Time is unbounded in these proofs, the calendar a parameter. What is assumed of it is what the
schema's numbers have in common, named `CalendarAssumption` or `TTLAssumption`:

| Module | Assumed | In the schema |
|---|---|---|
| `UniqUser` | the 6-hourly refreshes are whole hours apart and never at the minute of the hourly ones; a row lives longer than two hours and, where there is a 6-hourly view, than its period and run time | 12 half hours, offsets 1, 3 and so on; 14 half hours against 4 and 12 + 1 |
| `UserStats` | all-time refreshes are whole hours apart, at the second of the four minutes of an hour; the source's rows outlive one missed refresh (two periods and the run time), the boards' two hours | period 6 h, TTL of the source 13 h; TTL of the boards 3 h |
| `OutcomePosition` | a row lives longer than two refreshes are apart | 1 h, TTL 3 h |

`UniqUserProofs` proves, for any number of users, fills and ticks:

- `TypeCorrect`: one row of a bar is shown, no two refreshes bear the same time;
- `RecentBarsAreCurrent`: a bar within reach counts all users known at the last hourly
  refresh, or at the one before it if one has failed;
- `OldBarsAreKept`: without failures a bar that a 6-hourly refresh has counted keeps a row.

The parts of the invariant: `Dates` relates the dates of the rows to the refreshes that are
due; `Carried` describes what a 6-hourly refresh under way is about to insert, which was read
before rows that are inserted meanwhile; `Hourly` and `SixHourly` carry the two
properties over the hours, the latter with `OnTime`, that the next refresh comes
no later than the period and its run time. With these,
the proof is the argument the comments of the schema make: the next row is there before the TTL
of the last one.

`UserStatsProofs` proves, for any number of coins, intervals and fills:

- `TypeCorrect`: one row for a key, with at least one trade, of its own coin or group only;
- `TotalsNeverDrop`: no step takes a trade out of the all-time totals until a second
  refresh fails (an action property);
- `AlltimeLagBounded`: without failures a trade is on the leaderboards no later than the
  period, the run time and an hour after its insert;
- `RecentFillsShown`: without failures a leaderboard shows all that the hourly view counted
  before it in the same hour.

`TotalsNeverDrop` is about two tables and needs more than either shows: that rows of
both are renewed before their TTL, with no or one failure (`Kept`), that what a
leaderboard has counted it will find again in the source, that
an all-time refresh under way replaces rows by rows that count no less
(`Carried`), and that these orders agree with the dates (`Dates`). `Counted`
follows a trade from its insert to the leaderboard: it is there, or the refresh
that brings it is still to come. `SourceHourly` and `BoardsHourly` do the same for intervals, for
the run of an hour.

`OutcomePositionProofs` proves, for any number of legs, fills and hours:

- `TypeCorrect`: holdings are not negative, one row of a leg, with a positive balance;
- `OpenPositionsShown`: an open position has a row with the balance of the last refresh even if
  one failed; and if the sink has the whole history, that is the chain's balance.

`Books` is double entry: the shares held are those held before the sink's first block, plus
the balance of the fills it has inserted, plus those of blocks still outstanding.
It is what makes the sum of signed fills a balance, and why one that is negative is not
an error of the sink but of its start. `Fresh` says that a row of the last
successful refresh has not reached its TTL.

### Induction

`Total`, `BytesOfFirst` and the enumeration of a set are recursive functions. That they exist and unfold is
proved once for each (`SumsExist`, `SumsUnfold`), by `UpTo`, induction up to a number. This rests on `LeastNat`, that
a set of naturals has a least element, which the library's induction
theorems state for operators only; here it is proved for sets, from the well-foundedness of
the lexicographic order (`WFLexProductOrdering`, `WFMin`). In `IngestProofs` both this and
induction over a finite set (`SetInduction`) come from the well-foundedness of its proper subsets;
on it rest the facts about `SumFunction` (`SumFacts`, `SumPlus`, `SumOfParts`, `SumRenamed`).

### Model-checked only

- Liveness (`AllIngested`): proving properties under fairness, and
  anything with ENABLED, is beyond the prover.

## 6. Not modelled

- Generated protobuf code (`src/src/pb`, of which only the numbering of `TradingDirection` is
  used) and the schema files it comes from: data types, their decoding is external.
- Columns no other part reads: of the raw rows everything but what `FillRow` lists, of the
  aggregates `quantileDeterministic`, and the columns whose sums have the shape of one that is
  modelled (by direction, fees, funding, liquidation taker volumes). Prices of one block
  that compete for open and close are left open by `argMin` and `argMax`.
- `dex`, a function of the coin, and the output arithmetic of the read-side views.
- The refresh a refreshable view makes when it is created: in `UniqUser`, `UserStats` and
  `OutcomePosition` the views are created over empty raw tables, where it writes nothing.
- Undo of blocks: the sink runs with `--undo-buffer-size 0` and the models have final blocks only.
- Raw tables no view reads (delegations, rewards, the 20 ledger tables) beyond their rows in
  `DbOut`; the `blocks` table in `Ingest`.
- Legacy parity fixtures: test support.

## 7. Plan

1. *Done:* decoder with its proofs, `database_changes`, `map_fills`, the native path and its
   parity, the refreshable tables with their common part, the sink, the insert-triggered
   aggregates and the platform totals, with proofs about delivery.
2. *Done:* proofs about `database_changes`, the native path (with its refinement) and the parity of both.
3. *Done:* proofs about the three groups of refreshable tables.
4. *Done:* proofs that the state tables hold what was inserted: the aggregates are those of a batch,
   distinct counts are exact, bars nest.
5. *Done:* the promises of the exchange as predicates on chains, and from them that matches,
   liquidations and withdrawals count once; `Delivery`, which the sink and its tables implement.
6. *Open:* the hazards without a property: which of a block's prices opens and closes a bar, leaderboards
   that sum rows of different intervals, a coin classified into the wrong table (which needs an
   account of coin names independent of `parse_outcome_coin`), and balances and user statistics over blocks
   inserted twice.
