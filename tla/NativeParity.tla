------------------------------ MODULE NativeParity ------------------------------
(* The two ways a block's fills become rows, side by side on the same block:    *)
(* project and fill_changes (FillChanges) outside Substreams, on what map_fills *)
(* left of the block, and db_out (DbOut) inside it.  They share process_        *)
(* projected_fill and nothing else; the builds even differ in the width of      *)
(* usize.                                                                       *)
EXTENDS FillChanges

CONSTANTS
    WasmUsizeMod,       \* UsizeMod is that of the native build
    Blocks              \* the blocks considered

VARIABLES block, pass, i, b, d, db_tables, block_row, changes, trace

Db == INSTANCE DbOut WITH tables <- db_tables, UsizeMod <- WasmUsizeMod

(* Both read what the decoder can return.                                       *)
ASSUME CallsAssumption == Blocks \subseteq Db!Block

db_vars == <<block, pass, i, b, d, db_tables, block_row, changes, trace>>

ParityInit ==
    /\ Init
    /\ Db!Init
    /\ request.fills = Db!FillsOnly(block).fills

ParityNext ==
    \/ Db!Next /\ UNCHANGED vars
    \/ Next /\ UNCHANGED db_vars

ParitySpec == ParityInit /\ [][ParityNext]_<<db_vars, vars>>

(* A caller of the native path gets the rows db_out has in the three fill       *)
(* tables: same keys, same values, same order and, as they are db_out's first   *)
(* rows and no later row is of these tables, the same ordinals, whatever events *)
(* db_out formats beside them and whatever rows of theirs it merges ("equals_   *)
(* all_current_wrapper_fill_rows_including_keys_and_ordinals", rows/tests.rs).  *)
SameFillRows ==
    \A native \in result, db \in changes :
        /\ native = SubSeq(db, 1, Len(native))
        /\ {m \in 1 .. Len(db) : db[m].key.table \in FillTables} = 1 .. Len(native)
================================================================================
