------------------------------- MODULE BlockRows -------------------------------
(* How one Firehose block becomes rows: the classification of fills             *)
(* (src/native.rs, src/fills.rs), the index and key of every row (src/rows.rs,  *)
(* src/events.rs, src/ledger_updates.rs) and the Tables the rows are put in     *)
(* (crate substreams-database-change, external).                                *)
(*                                                                              *)
(* All rows of one call share the clock's timestamp, block number and block     *)
(* hash, so a key is its table, its event index and its event hash.  What a row *)
(* holds is identified by its origin: the item of the block it was made from.   *)
EXTENDS Naturals, Sequences, FiniteSets

CONSTANTS
    Stride,         \* 1000 in the code
    UsizeMod,       \* 2^32 in the wasm module, 2^64 in a native build
    U32Mod,         \* 2^32
    U64Mod,         \* 2^64
    Hashes          \* fill and event hashes

FillTables == {"fills", "fills_liquidation", "outcome_fills"}
BodyTables == {"delegations", "c_deposits", "c_withdrawals"}    \* one row for a body
ListTables == {"funding_deltas", "validator_rewards"}           \* one row for a part

(* A ledger update has one of 20 kinds of delta, each with a table of its own.  *)
TransferTables ==
    {"ledger_spot_transfers", "ledger_c_staking_transfers", "ledger_account_class_transfers",
     "ledger_internal_transfers", "ledger_sub_account_transfers", "ledger_sends"}
FundTables ==
    {"ledger_deposits", "ledger_withdrawals", "ledger_vault_deposits",
     "ledger_rewards_claims", "ledger_vault_withdrawals", "ledger_vault_leader_commissions"}
AccountTables ==
    {"ledger_deploy_gas_auctions", "ledger_account_activation_gas",
     "ledger_activate_dex_abstractions", "ledger_liquidations"}
MarketTables ==
    {"ledger_spot_genesis", "ledger_vault_distributions", "ledger_borrow_lends",
     "ledger_vault_creates"}
LedgerTables == TransferTables \cup FundTables \cup AccountTables \cup MarketTables

EventTables == FillTables \cup BodyTables \cup ListTables

ASSUME WidthAssumption ==
    /\ Stride \in Nat \ {0}
    /\ UsizeMod \in Nat \ {0}
    /\ U32Mod \in Nat \ {0}

-------------------------------------------------------------------------------
(* The block.  A coin is what parse_outcome_coin can tell about it: a '#', only *)
(* digits after it, and the number they spell.                                  *)

Coin == [prefixed : BOOLEAN, digits : BOOLEAN, value : Nat]

Fill == [coin : Coin, liquidation : BOOLEAN, hash : Hashes]

(* kind is the table of the body's rows, "ledger_update", or "none" for a body  *)
(* with no event; delta is the table of a ledger update's delta, if it has one. *)
Body == [kind : BodyTables \cup ListTables \cup {"ledger_update", "none"},
         parts : Nat, delta : LedgerTables \cup {"none"}]

Event == [hash : Hashes, bodies : Seq(Body)]

Block == [fills : Seq(Fill), events : Seq(Event)]

(* What map_fills hands on to consumers outside: the block without its events.  *)
FillsOnly(block) == [block EXCEPT !.events = <<>>]

-------------------------------------------------------------------------------
(* Fills: an outcome name decides first, liquidation metadata second.           *)

BugIsOutcome(coin) == coin.prefixed /\ coin.digits      \* any "#123" is an outcome

IsOutcome(coin) ==
    /\ coin.prefixed /\ coin.digits
    /\ coin.value < U64Mod
    /\ coin.value % 10 <= 1

TableOf(fill) ==
    IF IsOutcome(fill.coin) THEN "outcome_fills"
    ELSE IF fill.liquidation THEN "fills_liquidation" ELSE "fills"

-------------------------------------------------------------------------------
(* Indexes.  An item's path is its position: <<fill>>, <<event, body>> or       *)
(* <<event, body, part>>, counted from 0 as enumerate() does; usize arithmetic  *)
(* wraps in a release build.                                                    *)

BugCombined(index, sub) == index + sub                 \* the stride is forgotten

Combined(index, sub) == (index * Stride + sub) % UsizeMod

IndexOf(path) ==
    IF Len(path) = 1 THEN path[1]
    ELSE IF Len(path) = 2 THEN Combined(path[1], path[2])
    ELSE Combined(Combined(path[1], path[2]), path[3])

BugEventKey(item) ==            \* every row of a table under its first index
    [table |-> item.table, index |-> 0, hash |-> item.hash]

(* event_key prints the whole index; the event_index column is cast to u32.     *)
EventKey(item) == [table |-> item.table, index |-> IndexOf(item.path), hash |-> item.hash]

EventIndexColumn(item) == IndexOf(item.path) % U32Mod

-------------------------------------------------------------------------------
(* Everything in a block that is owed a row.                                    *)

Item(table, path, hash) == [table |-> table, path |-> path, hash |-> hash]

FillItems(fills) ==
    { Item(TableOf(fills[i + 1]), <<i>>, fills[i + 1].hash) : i \in 0 .. Len(fills) - 1 }

BodyAt(block, e, b) == block.events[e + 1].bodies[b + 1]

(* The positions of a block's bodies.                                           *)
BodyPaths(block) ==
    UNION { {<<e, b>> : b \in 0 .. Len(block.events[e + 1].bodies) - 1} :
            e \in 0 .. Len(block.events) - 1 }

ItemsOfBody(hash, body, p) ==
    IF body.kind \in BodyTables THEN { Item(body.kind, p, hash) }
    ELSE IF body.kind \in ListTables
         THEN { Item(body.kind, <<p[1], p[2], d>>, hash) : d \in 0 .. body.parts - 1 }
    ELSE IF body.kind = "ledger_update" /\ body.delta # "none"
         THEN { Item(body.delta, p, hash) }
    ELSE {}

Items(block) ==
    FillItems(block.fills) \cup
    UNION { ItemsOfBody(block.events[p[1] + 1].hash, BodyAt(block, p[1], p[2]), p) :
            p \in BodyPaths(block) }

(* A block whose indexes the stride and the width of usize can tell apart.      *)
Addressable(block) ==
    /\ Len(block.fills) <= UsizeMod
    /\ Len(block.events) * Stride * Stride <= UsizeMod
    /\ \A p \in BodyPaths(block) :
          /\ p[2] < Stride
          /\ BodyAt(block, p[1], p[2]).parts <= Stride

-------------------------------------------------------------------------------
(* Tables: rows by key, and the keys in the order they were first created.      *)
(* create_row on a key that has a row returns that row; set overwrites it.      *)

NoRows == [order |-> <<>>, origin |-> [k \in {} |-> {}]]

WithRow(tables, key, item) ==
    [order  |-> IF key \in DOMAIN tables.origin THEN tables.order
                ELSE Append(tables.order, key),
     origin |-> [k \in DOMAIN tables.origin \cup {key} |->
                    IF k = key THEN item ELSE tables.origin[k]]]

(* to_database_changes: the rows in creation order.                             *)
Changes(tables) == [n \in 1 .. Len(tables.order) |->
                        [key |-> tables.order[n], origin |-> tables.origin[tables.order[n]]]]
===============================================================================
