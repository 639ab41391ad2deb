--------------------------------- MODULE DbOut ---------------------------------
(* legacy::database_changes (src/legacy.rs), behind the map handler db_out: one *)
(* pass over the fills, one over the events, one more over the events for their *)
(* ledger updates, and a blocks row if any other row was made.  One action is   *)
(* one iteration of the innermost loop that is running.                         *)
EXTENDS BlockRows

CONSTANT Blocks         \* the blocks considered

ASSUME BlocksAssumption == Blocks \subseteq Block

VARIABLES
    block,      \* the decoded block
    pass,       \* "fills", "events", "ledger", "blocks", "done"
    i,          \* the fill or event the pass is at, from 0
    b,          \* the body of that event, from 0
    d,          \* the part of that body, from 0
    tables,     \* the Tables being filled
    block_row,  \* has the blocks row been made?
    changes,    \* the DatabaseChanges returned, in a set: empty before that
    trace       \* the items formatted so far, in order (history)

vars == <<block, pass, i, b, d, tables, block_row, changes, trace>>

Init ==
    /\ block \in Blocks
    /\ pass = "fills"
    /\ i = 0 /\ b = 0 /\ d = 0
    /\ tables = NoRows
    /\ block_row = FALSE
    /\ changes = {}
    /\ trace = <<>>

(* create_row under event_key, then every set of the row.                       *)
Format(item) ==
    /\ tables' = WithRow(tables, EventKey(item), item)
    /\ trace' = Append(trace, item)
    /\ UNCHANGED <<block, block_row, changes>>

Skip == UNCHANGED <<block, tables, block_row, changes, trace>>

NextFill == i' = i + 1 /\ UNCHANGED <<pass, b, d>>
NextPart == d' = d + 1 /\ UNCHANGED <<pass, i, b>>
NextBody == b' = b + 1 /\ d' = 0 /\ UNCHANGED <<pass, i>>
NextEvent == i' = i + 1 /\ b' = 0 /\ UNCHANGED <<pass, d>>
StartPass(next) == pass' = next /\ i' = 0 /\ UNCHANGED <<b, d>>

-------------------------------------------------------------------------------
(* process_fills.                                                               *)

FormatFill ==
    /\ pass = "fills" /\ i < Len(block.fills)
    /\ LET fill == block.fills[i + 1]
       IN  Format(Item(TableOf(fill), <<i>>, fill.hash))
    /\ NextFill

EndFills ==
    /\ pass = "fills" /\ i = Len(block.fills)
    /\ StartPass("events")
    /\ Skip

-------------------------------------------------------------------------------
(* The two passes over the events.                                              *)

AtBody(p) ==
    /\ pass = p
    /\ i < Len(block.events)
    /\ b < Len(block.events[i + 1].bodies)

theBody == BodyAt(block, i, b)
theHash == block.events[i + 1].hash

(* process_event: a delegation, a deposit or a withdrawal is one row ...        *)
FormatBody ==
    /\ AtBody("events")
    /\ theBody.kind \in BodyTables
    /\ Format(Item(theBody.kind, <<i, b>>, theHash))
    /\ NextBody

(* ... a funding or a validator rewards body one row for each of its parts ...  *)
FormatPart ==
    /\ AtBody("events")
    /\ theBody.kind \in ListTables
    /\ d < theBody.parts
    /\ Format(Item(theBody.kind, <<i, b, d>>, theHash))
    /\ NextPart

EndParts ==
    /\ AtBody("events")
    /\ theBody.kind \in ListTables
    /\ d = theBody.parts
    /\ NextBody
    /\ Skip

BugSkipBody ==                  \* ledger updates end the event's bodies early
    /\ AtBody("events")
    /\ theBody.kind \in {"ledger_update", "none"}
    /\ NextEvent
    /\ Skip

(* ... and a ledger update is left to the ledger pass.                          *)
SkipBody ==
    /\ AtBody("events")
    /\ theBody.kind \in {"ledger_update", "none"}
    /\ NextBody
    /\ Skip

FormatLedgerUpdate ==
    /\ AtBody("ledger")
    /\ theBody.kind = "ledger_update" /\ theBody.delta # "none"
    /\ Format(Item(theBody.delta, <<i, b>>, theHash))
    /\ NextBody

SkipLedgerBody ==
    /\ AtBody("ledger")
    /\ theBody.kind = "ledger_update" => theBody.delta = "none"
    /\ NextBody
    /\ Skip

EndEvent ==
    /\ pass \in {"events", "ledger"}
    /\ i < Len(block.events) /\ b = Len(block.events[i + 1].bodies)
    /\ NextEvent
    /\ Skip

BugEndEvents ==                 \* the last pass returns by itself
    /\ pass \in {"events", "ledger"} /\ i = Len(block.events)
    /\ StartPass(IF pass = "events" THEN "ledger" ELSE "done")
    /\ Skip

EndEvents ==
    /\ pass \in {"events", "ledger"} /\ i = Len(block.events)
    /\ StartPass(IF pass = "events" THEN "ledger" ELSE "blocks")
    /\ Skip

-------------------------------------------------------------------------------
(* The blocks row, only beside other rows, and the output.                      *)

BugReturn ==                    \* the blocks row is made for every block
    /\ pass = "blocks"
    /\ block_row' = TRUE
    /\ changes' = {Changes(tables)}
    /\ pass' = "done"
    /\ UNCHANGED <<block, i, b, d, tables, trace>>

Return ==
    /\ pass = "blocks"
    /\ block_row' = (tables.order # <<>>)
    /\ changes' = {Changes(tables)}
    /\ pass' = "done"
    /\ UNCHANGED <<block, i, b, d, tables, trace>>

Next ==
    \/ FormatFill \/ EndFills
    \/ FormatBody \/ FormatPart \/ EndParts \/ SkipBody
    \/ FormatLedgerUpdate \/ SkipLedgerBody
    \/ EndEvent \/ EndEvents
    \/ Return

Spec == Init /\ [][Next]_vars

-------------------------------------------------------------------------------
(* Properties.                                                                  *)

Keys == [table : EventTables \cup LedgerTables, index : Nat, hash : Hashes]

TypeOK ==
    /\ block \in Blocks
    /\ pass \in {"fills", "events", "ledger", "blocks", "done"}
    /\ i \in Nat /\ b \in Nat /\ d \in Nat
    /\ tables.order \in Seq(Keys)
    /\ DOMAIN tables.origin = {tables.order[n] : n \in 1 .. Len(tables.order)}
    /\ block_row \in BOOLEAN
    /\ trace \in Seq(Items(block))
    /\ (changes # {}) <=> (pass = "done")

(* The order of the source: fills, then the bodies the events pass formats,     *)
(* then the ledger updates, each in the order of the block.                     *)
PassOf(item) ==
    IF item.table \in FillTables THEN 1
    ELSE IF item.table \in LedgerTables THEN 3 ELSE 2

PathBefore(p, q) ==
    \E n \in 1 .. Len(p) :
        /\ p[n] < q[n]
        /\ \A m \in 1 .. n - 1 : p[m] = q[m]

Precedes(x, y) ==
    \/ PassOf(x) < PassOf(y)
    \/ PassOf(x) = PassOf(y) /\ PathBefore(x.path, y.path)

(* The items the loops are past.                                                *)
Reached(x) ==
    LET current == CASE pass = "fills" -> 1 [] pass = "events" -> 2
                     [] pass = "ledger" -> 3 [] OTHER -> 4
    IN  \/ PassOf(x) < current
        \/ PassOf(x) = current /\ PathBefore(x.path, <<i, b, d>>)

(* Between them the three passes format every item of the block exactly once,   *)
(* in source order: a body one pass leaves out is the other's, a list interrupts*)
(* its event for its own parts only, and no early end skips a body (process_    *)
(* event, process_event_ledger_updates).  Any block, unaddressable ones as well.*)
EachItemOnce ==
    /\ {trace[n] : n \in 1 .. Len(trace)} = {x \in Items(block) : Reached(x)}
    /\ \A m, n \in 1 .. Len(trace) : m < n => Precedes(trace[m], trace[n])

(* What the output is for: while the stride keeps indexes apart, the rows       *)
(* returned are the items, each under its own key with its own values, in       *)
(* source order.                                                                *)
NothingMerged ==
    Addressable(block) =>
        \A c \in changes :
            /\ Len(c) = Len(trace)
            /\ \A n \in 1 .. Len(c) : c[n] = [key |-> EventKey(trace[n]), origin |-> trace[n]]

(* Fills are indexed without a stride: whatever the events of the block are, no *)
(* fill's row is merged with another row.                                       *)
FillRowsSurvive ==
    Len(block.fills) <= UsizeMod =>
        \A n \in 1 .. Len(trace) :
            trace[n].table \in FillTables => tables.origin[EventKey(trace[n])] = trace[n]

(* "ONLY include blocks if events are present" (legacy.rs): the blocks row is   *)
(* there exactly when the block holds anything that is owed a row.              *)
BlockRowWithOthers == pass = "done" => (block_row <=> Items(block) # {})
===============================================================================
