------------------------------ MODULE Aggregates -------------------------------
(* What the insert-triggered views of clickhouse/schema.2 and state_platform    *)
(* make of the rows of one insert: filters, bars, columns, and the merge of     *)
(* partial rows in an AggregatingMergeTree.                                     *)
(*                                                                              *)
(* A partial row is [key, sum, seen]: key is <<interval_min, coin, bar>>, sum   *)
(* the summing columns.  The columns whose merge does not mind repeats (min and *)
(* max of timestamps, blocks and prices, uniq) are functions of the rows they   *)
(* have seen, and so are argMin and argMax by block_num but for their choice    *)
(* among the fills of one block.  avg is a sum and a count, dex a function of   *)
(* coin; quantileDeterministic is left out.                                     *)
EXTENDS Integers, Sequences, FiniteSets, Functions

CONSTANTS
    Intervals,      \* interval_min, each a multiple of the shorter ones
    OutcomeCoins    \* the coins parse_outcome_coin accepts

(* 1, 5, 10, 30, 60, 240, 1440 and 10080 in the schema.                         *)
ASSUME IntervalsAssumption ==
    /\ IsFiniteSet(Intervals) /\ Intervals \subseteq Nat \ {0}
    /\ \A short, long \in Intervals : short < long => long % short = 0

-------------------------------------------------------------------------------
(* From a fill to its raw row (fills.rs, rows.rs).  A decimal string is what    *)
(* parse can make of it.                                                        *)

ParseF64(decimal) == IF decimal.valid THEN decimal.value ELSE 0

LiquidatedDirections ==
    {"LIQUIDATED_CROSS_LONG", "LIQUIDATED_CROSS_SHORT",
     "LIQUIDATED_ISOLATED_LONG", "LIQUIDATED_ISOLATED_SHORT"}

(* The variants of TradingDirection by their number.                            *)
Directions ==
    <<"BUY", "SELL", "OPEN_LONG", "CLOSE_LONG", "OPEN_SHORT", "CLOSE_SHORT",
      "LONG_TO_SHORT", "SHORT_TO_LONG", "SPOT_DUST_CONVERSION",
      "LIQUIDATED_CROSS_LONG", "LIQUIDATED_CROSS_SHORT",
      "LIQUIDATED_ISOLATED_LONG", "LIQUIDATED_ISOLATED_SHORT",
      "AUTO_DELEVERAGING", "SETTLEMENT", "NET_CHILD_VAULTS",
      "BACKSTOP_BORROW_LIQUIDATION", "PARTIAL_BORROW_LIQUIDATION",
      "SPLIT_OUTCOME", "MERGE_OUTCOME", "MERGE_QUESTION", "NEGATE_OUTCOME">>

DirectionName(value) ==
    IF value \in DOMAIN Directions THEN Directions[value] ELSE "UNSPECIFIED"

SideName(value) == IF value = 1 THEN "ASK" ELSE IF value = 2 THEN "BID" ELSE "UNSPECIFIED"

FillTable(fill) ==
    IF fill.coin \in OutcomeCoins THEN "outcome_fills"
    ELSE IF fill.liquidation # {} THEN "fills_liquidation" ELSE "fills"

FillRow(fill, index, block) ==
    [table |-> FillTable(fill), index |-> index, block |-> block,
     coin |-> fill.coin, user |-> fill.user, liquidated_user |-> fill.liquidation,
     transaction_id |-> fill.transaction_id,
     side |-> SideName(fill.side), direction |-> DirectionName(fill.direction),
     crossed |-> fill.crossed, price |-> ParseF64(fill.price), size |-> ParseF64(fill.size),
     fee |-> ParseF64(fill.fee), time |-> IF fill.time = <<>> THEN 0 ELSE fill.time[1]]

-------------------------------------------------------------------------------
(* The views, by the table they write to.                                       *)

ViewsOf(table) ==
    CASE table = "fills" -> {"ohlcv_fills"}
      [] table = "fills_liquidation" -> {"ohlcv_fills", "ohlcv_liquidation"}
      [] table = "outcome_fills" -> {"ohlcv_outcomes"}
      [] table = "funding_deltas" -> {"open_interest"}
      [] OTHER -> {"c_deposits_withdrawals"}

NoTrades ==
    {"AUTO_DELEVERAGING", "NET_CHILD_VAULTS", "SPOT_DUST_CONVERSION", "SETTLEMENT",
     "SPLIT_OUTCOME", "MERGE_OUTCOME", "MERGE_QUESTION", "NEGATE_OUTCOME"}

BugPasses(view, row) ==         \* the counterparty of a liquidation counts as well
    \/ /\ view \in {"ohlcv_fills", "ohlcv_liquidation", "ohlcv_outcomes"}
       /\ row.price > 0 /\ row.size > 0
       /\ \/ view = "ohlcv_fills" /\ row.direction \notin LiquidatedDirections \cup NoTrades
          \/ view = "ohlcv_liquidation"
          \/ view = "ohlcv_outcomes" /\ row.direction \in {"BUY", "SELL"}
    \/ view = "open_interest" /\ row.szi # 0
    \/ view = "c_deposits_withdrawals" /\ row.amount > 0

(* WHERE.                                                                       *)
Passes(view, row) ==
    \/ /\ view \in {"ohlcv_fills", "ohlcv_liquidation", "ohlcv_outcomes"}
       /\ row.price > 0 /\ row.size > 0
       /\ \/ view = "ohlcv_fills" /\ row.direction \notin LiquidatedDirections \cup NoTrades
          \/ view = "ohlcv_liquidation" /\ {row.user} = row.liquidated_user
          \/ view = "ohlcv_outcomes" /\ row.direction \in {"BUY", "SELL"}
    \/ view = "open_interest" /\ row.szi # 0
    \/ view = "c_deposits_withdrawals" /\ row.amount > 0

If(condition, value) == IF condition THEN value ELSE 0

BugOhlcvSums(row) ==            \* every row is a transaction, not only the taker's
    LET notional == row.price * row.size
        bid == row.side = "BID"
    IN  [side_buy_volume |-> If(bid, notional), side_ask_volume |-> If(~bid, notional),
         taker_buy_volume |-> If(row.crossed /\ bid, notional),
         taker_sell_volume |-> If(row.crossed /\ ~bid, notional),
         transactions |-> 1]

(* The three OHLCV tables.  The volumes by direction and the fees are sums of   *)
(* the same shape, left out.                                                    *)
OhlcvSums(row) ==
    LET notional == row.price * row.size
        bid == row.side = "BID"
    IN  [side_buy_volume |-> If(bid, notional), side_ask_volume |-> If(~bid, notional),
         taker_buy_volume |-> If(row.crossed /\ bid, notional),
         taker_sell_volume |-> If(row.crossed /\ ~bid, notional),
         transactions |-> If(row.crossed, 1)]

(* The funding columns are sums of the same shape, left out.                    *)
OpenInterestSums(row) ==
    [sum_szi_observations |-> row.szi,
     sum_abs_szi_observations |-> IF row.szi < 0 THEN -row.szi ELSE row.szi,
     sum_long_szi_observations |-> If(row.szi > 0, row.szi),
     sum_short_szi_observations |-> If(row.szi < 0, row.szi),
     funding_events |-> 1]

BugFlowSums(row) ==             \* a withdrawal flows out when it is finalized, too
    LET deposit == row.table = "c_deposits"
    IN  [deposit_volume |-> If(deposit, row.amount),
         withdrawal_count |-> If(~deposit, 1),
         withdrawal_finalized_count |-> If(~deposit /\ row.is_finalized, 1),
         net_flow |-> IF deposit THEN row.amount ELSE -row.amount,
         gross_volume |-> row.amount]

(* Deposits, and withdrawals while they are pending.  The pending columns equal *)
(* the withdrawal columns, and the counts and volumes go together.              *)
FlowSums(row) ==
    LET deposit == row.table = "c_deposits"
        pending == ~deposit /\ ~row.is_finalized
    IN  [deposit_volume |-> If(deposit, row.amount),
         withdrawal_count |-> If(pending, 1),
         withdrawal_finalized_count |-> If(~deposit /\ row.is_finalized, 1),
         net_flow |-> If(deposit, row.amount) - If(pending, row.amount),
         gross_volume |-> If(deposit \/ pending, row.amount)]

Sums(view, row) ==
    CASE view = "open_interest" -> OpenInterestSums(row)
      [] view = "c_deposits_withdrawals" -> FlowSums(row)
      [] OTHER -> OhlcvSums(row)

-------------------------------------------------------------------------------
(* GROUP BY interval_min, coin, bar; arrayJoin puts a row in one bar of each    *)
(* interval.                                                                    *)

BugBarOf(interval, time) ==     \* rounded, not floored
    LET seconds == interval * 60 IN ((time + seconds \div 2) \div seconds) * seconds

BarOf(interval, time) == LET seconds == interval * 60 IN (time \div seconds) * seconds

KeysOf(view, row) ==
    LET coin == IF view = "c_deposits_withdrawals" THEN "" ELSE row.coin
    IN  {<<interval, coin, BarOf(interval, row.time)>> : interval \in Intervals}

(* The sums of some records, column by column.                                  *)
Total(sums) ==
    LET columns == DOMAIN sums[CHOOSE x \in DOMAIN sums : TRUE]
    IN  [c \in columns |-> SumFunction([x \in DOMAIN sums |-> sums[x][c]])]

Aggregated(view, rows) ==
    LET some == {r \in rows : Passes(view, r)}
        Part(key, group) ==
            [key |-> key, sum |-> Total([r \in group |-> Sums(view, r)]), seen |-> group]
    IN  { Part(key, {r \in some : key \in KeysOf(view, r)}) :
              key \in UNION {KeysOf(view, r) : r \in some} }

(* state_platform adds up what is inserted into three of the tables over all    *)
(* coins, and sees coins.                                                       *)
PlatformSources == {"ohlcv_fills", "ohlcv_liquidation", "ohlcv_outcomes"}

PlatformSums(source, sum) ==
    LET both == sum.side_buy_volume + sum.side_ask_volume
        volume == IF source = "ohlcv_fills" THEN sum.side_buy_volume ELSE both
        liq == source = "ohlcv_liquidation"
    IN  [total_volume |-> If(~liq, volume), taker_buy_volume |-> If(~liq, sum.taker_buy_volume),
         taker_sell_volume |-> If(~liq, sum.taker_sell_volume),
         transactions |-> If(~liq, sum.transactions),
         liq_total_volume |-> If(liq, both),
         liq_transactions |-> If(liq, sum.transactions)]

Platform(source, parts) ==
    LET KeyOf(r) == <<r.key[1], "", r.key[3]>>
        Part(key, group) ==
            [key |-> key, sum |-> Total([r \in group |-> PlatformSums(source, r.sum)]),
             seen |-> {r.key[2] : r \in group}]
    IN  { Part(key, {r \in parts : KeyOf(r) = key}) : key \in {KeyOf(r) : r \in parts} }

-------------------------------------------------------------------------------
(* AggregatingMergeTree: a bag of partial rows, of which those with one key may *)
(* be merged, and which every reader merges (clickhouse/schema.3.view).         *)

BugMerged(parts) ==             \* repeated rows are dropped, as in a ReplacingMergeTree
    LET Part(key, group) ==
            [key |-> key, sum |-> Total([r \in group |-> r.sum]),
             seen |-> UNION {r.seen : r \in group}]
    IN  { Part(key, {r \in DOMAIN parts : r.key = key}) : key \in {r.key : r \in DOMAIN parts} }

Merged(parts) ==
    LET Times(sum, n) == [c \in DOMAIN sum |-> n * sum[c]]
        Part(key, group) ==
            [key |-> key, sum |-> Total([r \in group |-> Times(r.sum, parts[r])]),
             seen |-> UNION {r.seen : r \in group}]
    IN  { Part(key, {r \in DOMAIN parts : r.key = key}) : key \in {r.key : r \in DOMAIN parts} }
===============================================================================
