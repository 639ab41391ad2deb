------------------------------- MODULE MCIngest --------------------------------
(* Short chains: matches (a row of the taker and a row of the maker) on a perps *)
(* coin and on an outcome coin, liquidations, rows no view counts, funding,     *)
(* deposits and withdrawals; times at the edge, and on both sides, of a bar of  *)
(* 1 and 5 minutes.                                                             *)
EXTENDS Ingest

Number(n) == [valid |-> TRUE, value |-> n]
Garbage == [valid |-> FALSE, value |-> 0]

Fill(id, user, coin, side, direction, crossed, price, size, time) ==
    [transaction_id |-> id, user |-> user, coin |-> coin, side |-> side,
     direction |-> CHOOSE d \in DOMAIN Directions : Directions[d] = direction,
     crossed |-> crossed, price |-> price, size |-> size, fee |-> Number(1),
     time |-> <<time>>, liquidation |-> {}]

(* u buys from v.                                                               *)
Match(id, coin, taker, bought, sold, size, time) ==
    <<Fill(id, "u", coin, 2, bought, taker = "u", Number(2), Number(size), time),
      Fill(id, "v", coin, 1, sold, taker = "v", Number(2), Number(size), time)>>

Liquidated(user, match) ==
    [k \in DOMAIN match |-> [match[k] EXCEPT !.liquidation = {user}]]

Deposit(n, amount, time) ==
    [table |-> "c_deposits", block |-> n, index |-> 0, user |-> "u", time |-> time,
     amount |-> amount]
Withdrawal(id, n, amount, is_finalized, time) ==
    [table |-> "c_withdrawals", block |-> n, index |-> id, id |-> id, user |-> "v",
     time |-> time, amount |-> amount, is_finalized |-> is_finalized]
Funding(n, user, szi, funding_amount, time) ==
    [table |-> "funding_deltas", block |-> n, index |-> 0, coin |-> "BTC", user |-> user,
     time |-> time, szi |-> szi, funding_amount |-> funding_amount, funding_rate |-> 1]

(* An ordinary match; then longs are closed by force, of a taker at the first   *)
(* second of a bar and of a maker at the last of another, and a price that is   *)
(* no number.                                                                   *)
Perps ==
    << [fills |-> Match(1, "BTC", "u", "OPEN_LONG", "OPEN_SHORT", 1, 160), events |-> {}],
       [fills |-> Liquidated("v", Match(2, "BTC", "v", "OPEN_SHORT", "CLOSE_LONG", 3, 300))
                  \o Liquidated("v", Match(4, "BTC", "u", "OPEN_LONG", "CLOSE_LONG", 2, 299))
                  \o <<[Match(3, "BTC", "u", "BUY", "SELL", 1, 310)[1] EXCEPT !.price = Garbage]>>,
        events |-> {}] >>

(* The taker's row of a short's liquidation says so in its direction.           *)
Short ==
    << [fills |-> Match(1, "BTC", "u", "OPEN_LONG", "OPEN_SHORT", 1, 310), events |-> {}],
       [fills |-> Liquidated("u", Match(2, "BTC", "u", "LIQUIDATED_CROSS_SHORT", "OPEN_SHORT", 3, 310)),
        events |-> {}] >>

(* A match on an outcome coin beside one on a perps coin, then a split.         *)
Outcomes ==
    << [fills |-> Match(1, "#10", "u", "BUY", "SELL", 1, 160)
                  \o Match(2, "BTC", "u", "BUY", "SELL", 2, 160), events |-> {}],
       [fills |-> <<Match(3, "#10", "u", "SPLIT_OUTCOME", "SELL", 5, 310)[1]>>
                  \o Match(4, "#10", "u", "BUY", "SELL", 1, 310), events |-> {}] >>

(* A withdrawal that becomes final in another bar than it was announced in, an  *)
(* empty block between.                                                         *)
Flows ==
    << [fills |-> <<>>,
        events |-> {Withdrawal(1, 1, 4, FALSE, 160), Deposit(1, 3, 160),
                    Funding(1, "u", 2, -1, 160)}],
       [fills |-> <<>>, events |-> {}],
       [fills |-> <<>>,
        events |-> {Withdrawal(1, 3, 4, TRUE, 620), Funding(3, "u", 1, 1, 310),
                    Funding(3, "v", -1, 1, 310), Funding(3, "w", 0, 0, 310)}] >>

AllChains == [perps |-> Perps, short |-> Short, outcomes |-> Outcomes, flows |-> Flows]
ShortOnly == [short |-> Short]

(* The exchange keeps to what the sums rest on.                                 *)
ASSUME PromisesKept ==
    FillsWhole /\ OneTakerRow /\ OneLiquidatedRow /\ WithdrawalsAnnounced
===============================================================================
