-------------------------------- MODULE Ingest ---------------------------------
(* The sink and the tables it feeds (clickhouse/Makefile, schema.0 to schema.2, *)
(* schema.4.mv.state_platform): blocks are inserted in batches, table by table, *)
(* each insert running the views of its table and, through them, those of       *)
(* state_platform; then the cursor is saved.  The sink (substreams-sink-sql, an *)
(* external program started with --infinite-retry) begins again at its last     *)
(* cursor when anything fails, and what was inserted stays: the tables have no  *)
(* transactions and their engines drop no repeated insert.                      *)
EXTENDS Aggregates, Bags, SequencesExt

CONSTANTS
    Chains,         \* the chains considered, by name: sequences of blocks
    MaxBatch,       \* bound: blocks of one batch (--batch-block-flush-interval: 1 in dev)
    MaxFailures     \* bound: inserts and cursor updates that fail

ASSUME ChainsAssumption ==
    \A name \in DOMAIN Chains :
        Len(Chains[name]) \in Nat /\ DOMAIN Chains[name] = 1 .. Len(Chains[name])

(* What a block may hold: times and numbers are of their type, and an event has *)
(* a row in a table some view reads, with the number of its block.              *)
ASSUME RowsAssumption ==
    \A name \in DOMAIN Chains : \A n \in DOMAIN Chains[name] :
        LET block == Chains[name][n]
        IN  /\ Len(block.fills) \in Nat /\ DOMAIN block.fills = 1 .. Len(block.fills)
            /\ \A k \in DOMAIN block.fills :
                  /\ {block.fills[k].price.value, block.fills[k].size.value} \subseteq Int
                  /\ block.fills[k].time = <<>> \/ block.fills[k].time[1] \in Nat
            /\ IsFiniteSet(block.events)
            /\ \A e \in block.events :
                  /\ e.table \in {"funding_deltas", "c_deposits", "c_withdrawals"}
                  /\ e.block = n /\ e.time \in Nat
                  /\ (IF e.table = "funding_deltas" THEN e.szi ELSE e.amount) \in Int

ASSUME BoundsAssumption == MaxBatch \in Nat /\ MaxFailures \in Nat

RawTables ==
    {"fills", "fills_liquidation", "outcome_fills", "funding_deltas", "c_deposits",
     "c_withdrawals"}
StateTables ==
    {"ohlcv_fills", "ohlcv_liquidation", "ohlcv_outcomes", "open_interest",
     "c_deposits_withdrawals", "platform"}

(* Where an insert goes: into its table, from there through a view, from there  *)
(* through another.                                                             *)
PathsOf(table) ==
    {<<table>>} \cup {<<table, view>> : view \in ViewsOf(table)}
    \cup {<<table, view, "platform">> : view \in ViewsOf(table) \cap PlatformSources}
Paths == UNION {PathsOf(table) : table \in RawTables}

VARIABLES
    chain,      \* the name of the one that is ingested
    cursor,     \* the blocks whose cursor is saved
    batch,      \* the blocks after it that are being inserted, as many; 0: none
    pending,    \* the tables of the batch that have not been inserted
    state,      \* the bag of partial rows of every state table
    written,    \* how often each block has been inserted along each path: for the
                \* paths <<table>> the raw tables, for the others history
    failures    \* (history)

vars == <<chain, cursor, batch, pending, state, written, failures>>

(* The rows of a block: of its fills, indexed as they come, and of its events.  *)
RowsOf(name, n) ==
    LET block == Chains[name][n]
    IN  {FillRow(block.fills[k], k, n) : k \in DOMAIN block.fills} \cup block.events

TableRows(name, table, blocks) ==
    {r \in UNION {RowsOf(name, n) : n \in blocks} : r.table = table}

BugBlocks ==                    \* the saved block is sent again
    (IF cursor = 0 THEN 1 ELSE cursor) .. cursor + batch

Blocks == cursor + 1 .. cursor + batch

(* What rows become along a path: stored as they are, or seen by one view, or   *)
(* by two.                                                                      *)
Along(path, rows) ==
    CASE Len(path) = 1 -> {}
      [] Len(path) = 2 -> Aggregated(path[2], rows)
      [] Len(path) = 3 -> Platform(path[2], Aggregated(path[2], rows))

Init ==
    /\ chain \in DOMAIN Chains
    /\ cursor = 0 /\ batch = 0
    /\ pending = {}
    /\ state = [t \in StateTables |-> EmptyBag]
    /\ written = [p \in Paths |-> [n \in DOMAIN Chains[chain] |-> 0]]
    /\ failures = 0

BugStart(size) ==               \* off by one: the last block is not asked for
    /\ batch = 0
    /\ cursor + size < Len(Chains[chain])
    /\ batch' = size
    /\ pending' = {r.table : r \in UNION {RowsOf(chain, n) : n \in cursor + 1 .. cursor + size}}
    /\ UNCHANGED <<chain, cursor, state, written, failures>>

Start(size) ==
    /\ batch = 0
    /\ cursor + size <= Len(Chains[chain])
    /\ batch' = size
    /\ pending' = {r.table : r \in UNION {RowsOf(chain, n) : n \in cursor + 1 .. cursor + size}}
    /\ UNCHANGED <<chain, cursor, state, written, failures>>

(* A state table after the paths to it have added their parts.                  *)
Fed(bag, paths, rows) ==
    LET made == [p \in paths |-> Along(p, rows)]
    IN  [r \in DOMAIN bag \cup UNION {made[p] : p \in paths} |->
            (IF r \in DOMAIN bag THEN bag[r] ELSE 0)
            + Cardinality({p \in paths : r \in made[p]})]

(* An insert that reaches some paths of its table.                              *)
Write(table, reached) ==
    LET rows == TableRows(chain, table, Blocks)
        Feeding(t) == {p \in reached : Len(p) > 1 /\ Last(p) = t}
    IN  /\ state' = [t \in StateTables |-> Fed(state[t], Feeding(t), rows)]
        /\ written' = [p \in Paths |-> [n \in DOMAIN Chains[chain] |->
                          written[p][n] + (IF p \in reached /\ n \in Blocks THEN 1 ELSE 0)]]

BugInsert(table) ==             \* the table stays pending
    /\ table \in pending
    /\ Write(table, PathsOf(table))
    /\ UNCHANGED <<chain, cursor, batch, pending, failures>>

Sent(table) ==
    /\ table \in pending
    /\ pending' = pending \ {table}
    /\ UNCHANGED <<chain, cursor, batch, failures>>

Insert(table) == Sent(table) /\ Write(table, PathsOf(table))

Restart ==
    /\ failures < MaxFailures
    /\ failures' = failures + 1
    /\ batch' = 0
    /\ pending' = {}
    /\ UNCHANGED <<chain, cursor>>

(* A failed insert has been written along some of its paths: none, or the raw   *)
(* table and some views, and from those what they feed; or all, and the answer  *)
(* is lost.                                                                     *)
FailInsert(table, reached) ==
    /\ table \in pending
    /\ \A p \in reached : Len(p) > 1 => Front(p) \in reached
    /\ Write(table, reached)
    /\ Restart

BugSaveCursor ==                \* the cursor is saved before the last insert
    /\ batch > 0 /\ Cardinality(pending) <= 1
    /\ cursor' = cursor + batch
    /\ batch' = 0 /\ pending' = {}
    /\ UNCHANGED <<chain, state, written, failures>>

SaveCursor ==
    /\ batch > 0 /\ pending = {}
    /\ cursor' = cursor + batch
    /\ batch' = 0
    /\ UNCHANGED <<chain, pending, state, written, failures>>

FailSave ==
    /\ batch > 0 /\ pending = {}
    /\ Restart
    /\ UNCHANGED <<state, written>>

(* A merge in the background.                                                   *)
Merge(table) ==
    /\ state[table] # SetToBag(Merged(state[table]))
    /\ state' = [state EXCEPT ![table] = SetToBag(Merged(@))]
    /\ UNCHANGED <<chain, cursor, batch, pending, written, failures>>

Next ==
    \/ \E size \in 1 .. MaxBatch : Start(size)
    \/ \E table \in pending : Insert(table)
    \/ \E table \in pending : \E reached \in SUBSET PathsOf(table) : FailInsert(table, reached)
    \/ SaveCursor
    \/ FailSave
    \/ \E table \in StateTables : Merge(table)

(* The sink goes on as long as it can: it starts a batch, is done with a table, *)
(* or saves the cursor.                                                         *)
SinkGoesOn ==
    \/ \E size \in 1 .. MaxBatch : Start(size)
    \/ \E table \in pending : Sent(table)
    \/ SaveCursor

Spec == Init /\ [][Next]_vars /\ WF_<<cursor, batch, pending>>(SinkGoesOn)

-------------------------------------------------------------------------------
TypeOK ==
    /\ chain \in DOMAIN Chains
    /\ cursor \in 0 .. Len(Chains[chain])
    /\ batch \in 0 .. Len(Chains[chain]) - cursor /\ batch <= MaxBatch
    /\ pending \subseteq RawTables
    /\ \A t \in StateTables :
           /\ IsABag(state[t])
           /\ \A r \in DOMAIN state[t] : /\ r.key[1] \in Intervals
                                         /\ r.key[3] % (r.key[1] * 60) = 0
    /\ written \in [Paths -> [DOMAIN Chains[chain] -> 0 .. 1 + MaxFailures]]
    /\ failures \in 0 .. MaxFailures

(* What the views make along a path of one block alone, or of all.              *)
PartsOf(p, blocks) == Along(p, TableRows(chain, p[1], blocks))

(* No block behind the saved cursor is missing from any table its rows go to,   *)
(* nor is a table of the current batch that is done: a failure leaves holes     *)
(* only where the sink is going to insert again.                                *)
AtLeastOnce ==
    \A p \in Paths : \A n \in DOMAIN Chains[chain] :
        /\ TableRows(chain, p[1], {n}) # {}
        /\ n <= cursor \/ (n \in Blocks /\ p[1] \notin pending)
        => written[p][n] >= 1

(* A block is repeated only by a failure: each adds at most one copy of a row,  *)
(* in the raw tables and in the sums, and only of blocks that one batch may     *)
(* hold; nothing is sent twice by a sink that runs on.                          *)
RepeatsBounded ==
    \A p \in Paths : \A n \in DOMAIN Chains[chain] :
        /\ written[p][n] <= 1 + failures
        /\ n > cursor + MaxBatch => written[p][n] = 0

(* What the views would make at once of the blocks of a chain, a block counted  *)
(* as often as there are copies of it along a path.                             *)
BatchOf(name, copies, t) ==
    LET parts ==
            UNION { UNION { {<<p, n, r>> : r \in Along(p, TableRows(name, p[1], {n}))} :
                            n \in {m \in DOMAIN Chains[name] : copies[p][m] > 0} } :
                    p \in {q \in Paths : Last(q) = t} }
        Part(key, group) ==
            [key |-> key,
             sum |-> Total([x \in group |-> [c \in DOMAIN x[3].sum |->
                               copies[x[1]][x[2]] * x[3].sum[c]]]),
             seen |-> UNION {x[3].seen : x \in group}]
    IN  {Part(key, {x \in parts : x[3].key = key}) : key \in {x[3].key : x \in parts}}

(* However blocks were batched, inserts failed half-way and parts were merged,  *)
(* a reader of a state table gets the sums and the distinct values that the     *)
(* views would make of all the blocks at once, a block counted as often as it   *)
(* was inserted along the path.                                                 *)
ViewsAreBatch == \A t \in StateTables : Merged(state[t]) = BatchOf(chain, written, t)

(* The columns that count distinct users or coins, or take a minimum or max,    *)
(* are exact at the end whatever was repeated: a reader of those cannot tell a  *)
(* chain ingested with failures from one ingested at once.                      *)
DistinctExact ==
    cursor = Len(Chains[chain]) =>
        \A t \in StateTables :
            LET parts == UNION {PartsOf(p, DOMAIN Chains[chain]) :
                                    p \in {q \in Paths : Last(q) = t}}
                SeenBy(rows) ==
                    {<<key, UNION {r.seen : r \in {x \in rows : x.key = key}}>> :
                         key \in {r.key : r \in rows}}
            IN  SeenBy(Merged(state[t])) = SeenBy(parts)

(* A bar is the sum of the shorter bars inside it, in every table and column    *)
(* and at any moment, after a failed insert too: the bars of all intervals of   *)
(* a row are written together.                                                  *)
BarsNest ==
    \A t \in StateTables :
        LET rows == Merged(state[t])
            Inside(r, short) ==
                {s \in rows : /\ s.key[1] = short /\ s.key[2] = r.key[2]
                              /\ s.key[3] \in r.key[3] .. r.key[3] + r.key[1] * 60 - 1}
            Nested(r, group) ==
                group # {} /\ r.sum = Total([s \in group |-> s.sum])
        IN  \A r \in rows : \A short \in {i \in Intervals : i < r.key[1]} :
                Nested(r, Inside(r, short))

(* A fill whose numbers parse, and one of a direction that is a trade.          *)
Priced(f) == f.price.valid /\ f.size.valid
Trading(f) == DirectionName(f.direction) \notin LiquidatedDirections \cup NoTrades

(* The fills of the ingested blocks that a bar is about: of its coin, or for    *)
(* the platform of any, and of its time.                                        *)
FillsIn(key) ==
    { f \in UNION {Range(Chains[chain][n].fills) : n \in 1 .. cursor} :
        /\ key[2] \in {f.coin, ""}
        /\ f.time # <<>> /\ f.time[1] \in key[3] .. key[3] + key[1] * 60 - 1
        /\ Priced(f) }

Trades(fills) == {f \in fills : Trading(f)}

(* A match by its transaction_id and its notional.                              *)
MatchesOf(fills) ==
    {[id |-> f.transaction_id, notional |-> f.price.value * f.size.value] : f \in fills}

Volume(matches) == SumFunction([m \in matches |-> m.notional])

Quiet == batch = 0 /\ failures = 0

(* What the exchange keeps to, and the sums rest on.  Of its fills, by block    *)
(* and index: a trade and a row of a liquidation have a coin, a time, a price   *)
(* and a size; an outcome coin is bought and sold and not liquidated ("outcomes *)
(* are fully collateralized", schema.4.mv.state_platform.sql:93).               *)
Places(name) ==
    UNION {{<<n, k>> : k \in DOMAIN Chains[name][n].fills} : n \in DOMAIN Chains[name]}
FillAt(name, at) == Chains[name][at[1]].fills[at[2]]

FillsWhole ==
    \A name \in DOMAIN Chains : \A at \in Places(name) :
        LET f == FillAt(name, at)
        IN  Priced(f) /\ (Trading(f) \/ f.liquidation # {}) =>
                /\ f.coin # "" /\ f.time # <<>>
                /\ f.price.value > 0 /\ f.size.value > 0
                /\ f.coin \in OutcomeCoins =>
                      /\ DirectionName(f.direction) \in {"BUY", "SELL"}
                      /\ f.liquidation = {}

(* A match has one taker, whose row is the crossed one.                         *)
Taking(f) == Priced(f) /\ Trading(f) /\ f.crossed

OneTakerRow ==
    \A name \in DOMAIN Chains : \A at, other \in Places(name) :
        LET f == FillAt(name, at)
            g == FillAt(name, other)
        IN  Taking(f) /\ Taking(g) /\ f.transaction_id = g.transaction_id => at = other

(* Each row of a liquidation has beside it the one of the liquidated user.      *)
OfLiquidated(f) == Priced(f) /\ f.liquidation = {f.user}

OneLiquidatedRow ==
    \A name \in DOMAIN Chains : \A at \in Places(name) :
        LET f == FillAt(name, at)
        IN  /\ Priced(f) /\ f.liquidation # {} =>
                  \E other \in Places(name) :
                      LET g == FillAt(name, other)
                      IN  /\ other[1] = at[1] /\ OfLiquidated(g)
                          /\ g.transaction_id = f.transaction_id /\ g.time = f.time
                          /\ g.price = f.price /\ g.size = f.size
            /\ \A other \in Places(name) :
                  LET g == FillAt(name, other)
                  IN  /\ OfLiquidated(f) /\ OfLiquidated(g)
                      /\ f.transaction_id = g.transaction_id
                      => at = other

(* Of its withdrawals: one that is final has been announced, once, with the     *)
(* same amount.                                                                 *)
EventsUntil(name, n) == UNION {Chains[name][m].events : m \in 1 .. n}
Withdrawals(events) == {e \in events : e.table = "c_withdrawals"}
Announced(events) == {e \in Withdrawals(events) : ~e.is_finalized}

WithdrawalsAnnounced ==
    \A name \in DOMAIN Chains : \A n \in DOMAIN Chains[name] :
        /\ \A e \in Chains[name][n].events : e.table # "funding_deltas" => e.amount > 0
        /\ \A e \in Withdrawals(Chains[name][n].events) :
              \E a \in Announced(EventsUntil(name, n)) : a.id = e.id /\ a.amount = e.amount
        /\ \A a, b \in Announced(EventsUntil(name, n)) : a.id = b.id => a = b

(* A match emits a row for the buyer and one for the seller, but the bars and   *)
(* the platform count it, and its taker's volume, once: "true match count (one  *)
(* row per taker)" (schema.2.mv.state_ohlcv_fills.sql:46).  Liquidations whose  *)
(* taker's row says LIQUIDATED_* are not among them.                            *)
MatchesOnce ==
    Quiet =>
        \A t \in {"ohlcv_fills", "ohlcv_outcomes", "platform"} : \A r \in Merged(state[t]) :
            LET matches == MatchesOf({f \in Trades(FillsIn(r.key)) : f.crossed})
            IN  /\ r.sum.transactions = Cardinality(matches)
                /\ r.sum.taker_buy_volume + r.sum.taker_sell_volume = Volume(matches)

(* The platform's liquidation slice has the volume of each liquidation once,    *)
(* though fills_liquidation has the counterparty's row as well; the count is of *)
(* those in which the liquidated user is the taker, so at most that.            *)
LiquidationsOnce ==
    Quiet =>
        \A r \in Merged(state["platform"]) :
            LET matches == MatchesOf({f \in FillsIn(r.key) : f.liquidation # {}})
            IN  /\ r.sum.liq_total_volume = Volume(matches)
                /\ r.sum.liq_transactions <= Cardinality(matches)

(* A withdrawal is announced pending and again when it is final, usually in     *)
(* another bar; over any interval's bars it flows out once, and a deposit in.   *)
WithdrawalsOnce ==
    Quiet =>
        LET events == EventsUntil(chain, cursor)
            deposits == {e \in events : e.table = "c_deposits"}
            withdrawals == {[id |-> e.id, amount |-> e.amount] : e \in Withdrawals(events)}
            Amounts(set) == SumFunction([e \in set |-> e.amount])
            Column(interval, c) ==
                LET bars == {r \in Merged(state["c_deposits_withdrawals"]) : r.key[1] = interval}
                IN  SumFunction([r \in bars |-> r.sum[c]])
        IN  \A interval \in Intervals :
                /\ Column(interval, "net_flow") = Amounts(deposits) - Amounts(withdrawals)
                /\ Column(interval, "withdrawal_count") = Cardinality(withdrawals)

Source(path) == IF Len(path) > 1 THEN Front(path) ELSE path
HasRows(name, path, n) == TableRows(name, path[1], {n}) # {}
Shown(name, copies) == [t \in StateTables |-> BatchOf(name, copies, t)]

Promise == INSTANCE Delivery WITH
               Routes <- Paths, copies <- written,
               tables <- [t \in StateTables |-> Merged(state[t])]

(* The sink, its restarts, the views and the merges together are the delivery   *)
(* their readers count on: a saved block is everywhere and is not inserted      *)
(* again, the cursor never goes back or passes a block it has not inserted, no  *)
(* view counts a row its table has not got, and a merge changes nothing of what *)
(* is read.                                                                     *)
Implements == Promise!Spec

(* Every block's cursor is saved in the end, though inserts fail: a finite      *)
(* number of failures only delays the sink.                                     *)
AllIngested == <>[](cursor = Len(Chains[chain]))

(* What schema.4.mv.state_platform.sql:14 and :41-43 say: total_volume is the   *)
(* fill volume of the window, for side_buy_volume "already equals true total    *)
(* volume (each match's buyer + seller perspectives both record the full        *)
(* match)".                                                                     *)
PlatformVolumeOnce ==
    Quiet =>
        \A r \in Merged(state["platform"]) :
            r.sum.total_volume = Volume(MatchesOf(Trades(FillsIn(r.key))))
===============================================================================
