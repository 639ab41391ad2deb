-------------------------- MODULE NativeParityProofs ---------------------------
(* The proof that db_out and fill_changes make the same fill rows, for every    *)
(* block, limit and width of usize.                                             *)
EXTENDS NativeParity, TLAPS

-------------------------------------------------------------------------------
(* What the two sides share.                                                    *)

(* The row of the fill at a position counted from 0.                            *)
KeyAt(fills, k) ==
    [table |-> TableOf(fills[k + 1]), index |-> k, hash |-> fills[k + 1].hash]

OriginAt(fills, k) ==
    [table |-> TableOf(fills[k + 1]), path |-> <<k>>, hash |-> fills[k + 1].hash]

(* Rows that begin with those of the first fills and have no other fill rows.   *)
FillsFirst(rows, fills, count) ==
    /\ rows.order \in Seq(DOMAIN rows.origin)
    /\ count <= Len(rows.order)
    /\ DOMAIN rows.origin = {rows.order[m] : m \in 1 .. Len(rows.order)}
    /\ \A m \in 1 .. count :
          /\ rows.order[m] = KeyAt(fills, m - 1)
          /\ rows.origin[rows.order[m]] = OriginAt(fills, m - 1)
    /\ \A m \in count + 1 .. Len(rows.order) : rows.order[m].table \notin FillTables

LEMMA SameFillRow ==
    ASSUME NEW fills, NEW k
    PROVE  /\ Db!EventKey(Db!Item(Db!TableOf(fills[k + 1]), <<k>>, fills[k + 1].hash))
                = KeyAt(fills, k)
           /\ Db!Item(Db!TableOf(fills[k + 1]), <<k>>, fills[k + 1].hash) = OriginAt(fills, k)
           /\ EventKey(Item(TableOf(fills[k + 1]), <<k>>, fills[k + 1].hash))
                = KeyAt(fills, k)
           /\ Item(TableOf(fills[k + 1]), <<k>>, fills[k + 1].hash) = OriginAt(fills, k)
<1>1. Db!TableOf(fills[k + 1]) = TableOf(fills[k + 1])
  BY DEF Db!TableOf, Db!IsOutcome, TableOf, IsOutcome
<1>2. Db!IndexOf(<<k>>) = k /\ IndexOf(<<k>>) = k
  BY DEF Db!IndexOf, IndexOf
<1> QED
  BY <1>1, <1>2 DEF Db!EventKey, Db!Item, EventKey, Item, KeyAt, OriginAt

LEMMA SameWithRow ==
    ASSUME NEW rows, NEW key, NEW item
    PROVE  Db!WithRow(rows, key, item) = WithRow(rows, key, item)
BY DEF Db!WithRow, WithRow

(* A fill's row joins the rows of the fills before it, or is there already ...  *)
LEMMA AddFill ==
    ASSUME NEW rows, NEW fills, NEW k \in Nat, FillsFirst(rows, fills, k), Len(rows.order) = k,
           NEW more, more = WithRow(rows, KeyAt(fills, k), OriginAt(fills, k))
    PROVE  Len(more.order) = k + 1 /\ FillsFirst(more, fills, k + 1)
<1> DEFINE key == KeyAt(fills, k)
           old == rows.order
           new == more.order
           S == DOMAIN rows.origin
<1>1. /\ old \in Seq(S) /\ Len(old) = k /\ S = {old[m] : m \in 1 .. k}
      /\ \A m \in 1 .. k : old[m] = KeyAt(fills, m - 1)
                           /\ rows.origin[old[m]] = OriginAt(fills, m - 1)
  BY DEF FillsFirst
<1>2. key \notin S
  <2>1. \A m \in 1 .. k : KeyAt(fills, m - 1).index = m - 1 /\ m - 1 # k
    BY DEF KeyAt
  <2>2. key.index = k
    BY DEF KeyAt
  <2> HIDE DEF key, S
  <2> QED
    BY <1>1, <2>1, <2>2
<1>3. /\ new = Append(old, key) /\ DOMAIN more.origin = S \cup {key}
      /\ more.origin[key] = OriginAt(fills, k)
      /\ \A x \in S : more.origin[x] = rows.origin[x]
  BY <1>2 DEF WithRow
<1> HIDE DEF key, old, new, S
<1>4. /\ new \in Seq(S \cup {key}) /\ Len(new) = k + 1 /\ new[k + 1] = key
      /\ \A m \in 1 .. k : new[m] = old[m]
  BY <1>1, <1>3
<1>5. \A m \in 1 .. k + 1 : m \in 1 .. k \/ m = k + 1
  OBVIOUS
<1>6. \A m \in 1 .. k : m \in 1 .. k + 1
  OBVIOUS
<1>7. DOMAIN more.origin = {new[m] : m \in 1 .. k + 1}
  <2>1. k + 1 \in 1 .. k + 1
    OBVIOUS
  <2> QED
    BY <1>1, <1>3, <1>4, <1>5, <1>6, <2>1
<1>8. ASSUME NEW m \in 1 .. k + 1
      PROVE  new[m] = KeyAt(fills, m - 1) /\ more.origin[new[m]] = OriginAt(fills, m - 1)
  <2>1. CASE m \in 1 .. k
    <3>1. old[m] \in S
      BY <1>1, <2>1
    <3> QED
      BY <1>1, <1>3, <1>4, <2>1, <3>1
  <2>2. CASE m = k + 1
    BY <1>3, <1>4, <2>2 DEF key
  <2> QED
    BY <1>5, <2>1, <2>2
<1>9. /\ new \in Seq(DOMAIN more.origin) /\ k + 1 <= Len(new)
      /\ \A m \in (k + 1) + 1 .. Len(new) : new[m].table \notin FillTables
  BY <1>3, <1>4
<1>10. DOMAIN more.origin = {new[m] : m \in 1 .. Len(new)}
  BY <1>4, <1>7
<1> QED
  BY <1>4, <1>8, <1>9, <1>10 DEF FillsFirst, new

LEMMA TableInFills ==
    ASSUME NEW fill
    PROVE  TableOf(fill) \in FillTables
BY DEF TableOf, FillTables

(* ... and the row of anything else comes after them.                           *)
LEMMA AddOther ==
    ASSUME NEW rows, NEW fills, NEW count \in Nat, FillsFirst(rows, fills, count),
           NEW key, key.table \notin FillTables, NEW item,
           NEW more, more = WithRow(rows, key, item)
    PROVE  FillsFirst(more, fills, count)
<1> DEFINE old == rows.order
           new == more.order
           S == DOMAIN rows.origin
           len == Len(old)
<1>1. /\ old \in Seq(S) /\ count <= len /\ S = {old[m] : m \in 1 .. len}
      /\ \A m \in 1 .. count : old[m] = KeyAt(fills, m - 1)
                               /\ rows.origin[old[m]] = OriginAt(fills, m - 1)
      /\ \A m \in count + 1 .. len : old[m].table \notin FillTables
  BY DEF FillsFirst
<1>2. len \in Nat
  BY <1>1
<1>3. \A m \in 1 .. count : old[m] # key /\ old[m] \in S /\ m \in 1 .. len
  <2>1. ASSUME NEW m \in 1 .. count PROVE old[m].table \in FillTables
    <3>1. KeyAt(fills, m - 1).table \in FillTables
      BY TableInFills DEF KeyAt
    <3>2. old[m] = KeyAt(fills, m - 1)
      BY <1>1
    <3> QED
      BY <3>1, <3>2
  <2>2. \A m \in 1 .. count : m \in 1 .. len
    BY <1>1, <1>2
  <2> HIDE DEF old, S, len
  <2> QED
    BY <1>1, <2>1, <2>2
<1>4. /\ new = IF key \in S THEN old ELSE Append(old, key)
      /\ DOMAIN more.origin = S \cup {key}
      /\ \A x \in S : x # key => more.origin[x] = rows.origin[x]
  BY DEF WithRow
<1> HIDE DEF old, S, new, len
<1>5. \A m \in 1 .. count : more.origin[old[m]] = OriginAt(fills, m - 1)
  BY <1>1, <1>3, <1>4
<1>6. CASE key \in S
  <2>1. new = old /\ DOMAIN more.origin = S
    BY <1>4, <1>6
  <2> QED
    BY <1>1, <1>5, <2>1 DEF FillsFirst, new, old, len
<1>7. CASE key \notin S
  <2>1. /\ new = Append(old, key) /\ DOMAIN more.origin = S \cup {key}
    BY <1>4, <1>7
  <2>2. /\ new \in Seq(S \cup {key}) /\ Len(new) = len + 1 /\ new[len + 1] = key
        /\ \A m \in 1 .. len : new[m] = old[m]
    BY <1>1, <2>1 DEF len
  <2>3. \A m \in 1 .. len + 1 : m \in 1 .. len \/ m = len + 1
    BY <1>2
  <2>4. len + 1 \in 1 .. len + 1 /\ \A m \in 1 .. len : m \in 1 .. len + 1
    BY <1>2
  <2>5. DOMAIN more.origin = {new[m] : m \in 1 .. len + 1}
    BY <1>1, <2>1, <2>2, <2>3, <2>4
  <2>6. ASSUME NEW m \in count + 1 .. len + 1 PROVE new[m].table \notin FillTables
    <3>1. m \in count + 1 .. len \/ m = len + 1
      BY <1>2
    <3>2. m \in count + 1 .. len => m \in 1 .. len
      BY <1>2
    <3> QED
      BY <1>1, <2>2, <3>1, <3>2
  <2>7. ASSUME NEW m \in 1 .. count
        PROVE  new[m] = KeyAt(fills, m - 1) /\ more.origin[new[m]] = OriginAt(fills, m - 1)
    BY <1>1, <1>3, <1>5, <2>2
  <2>8. count <= len + 1
    BY <1>1, <1>2
  <2> QED
    BY <2>1, <2>2, <2>5, <2>6, <2>7, <2>8 DEF FillsFirst, new
<1> QED
  BY <1>6, <1>7

-------------------------------------------------------------------------------
(* The inductive invariant: on either side, the rows so far begin with those of *)
(* the fills it is past, and a side that has returned has them all.             *)

DbSide ==
    /\ block \in Blocks /\ i \in Nat /\ b \in Nat
    /\ pass = "fills" => /\ i <= Len(block.fills) /\ Len(db_tables.order) = i
                         /\ FillsFirst(db_tables, block.fills, i)
    /\ pass # "fills" => FillsFirst(db_tables, block.fills, Len(block.fills))
    /\ changes # {} => pass = "done" /\ changes = {Db!Changes(db_tables)}

NativeSide ==
    /\ request \in Requests /\ n \in Nat \ {0}
    /\ pc \in {"project", "check", "measure", "format", "size", "returned"}
    /\ pc \in {"project", "check", "measure"} => tables = NoRows
    /\ pc = "format" => /\ n <= Count + 1 /\ Len(tables.order) = n - 1
                        /\ FillsFirst(tables, request.fills, n - 1)
    /\ pc = "size" \/ result # {} => /\ Len(tables.order) = Count
                                     /\ FillsFirst(tables, request.fills, Count)
    /\ result # {} => pc = "returned" /\ result = {Changes(tables)}

IInv == DbSide /\ NativeSide /\ request.fills = block.fills

LEMMA Calls ==
    ASSUME block \in Blocks, request \in Requests
    PROVE  /\ block \in Db!Block /\ Len(block.fills) \in Nat
           /\ request \in Request /\ Count \in Nat
<1>1. block \in Db!Block /\ request \in Request
  BY CallsAssumption, RequestsAssumption
<1>2. Len(block.fills) \in Nat
  BY <1>1 DEF Db!Block
<1>3. Count \in Nat
  BY <1>1 DEF Count, Request
<1> QED
  BY <1>1, <1>2, <1>3

LEMMA NoFillsYet ==
    ASSUME NEW fills
    PROVE  FillsFirst(NoRows, fills, 0) /\ Len(NoRows.order) = 0
BY DEF FillsFirst, NoRows

LEMMA InitIInv == ParityInit => IInv
<1> SUFFICES ASSUME ParityInit PROVE IInv
  OBVIOUS
<1>1. /\ block \in Blocks /\ request \in Requests /\ i = 0 /\ b = 0 /\ pass = "fills"
      /\ db_tables = NoRows /\ changes = {} /\ n = 1 /\ pc = "project"
      /\ tables = NoRows /\ result = {}
  BY DEF ParityInit, Db!Init, Init, Db!NoRows, NoRows
<1>2. request.fills = block.fills
  <2>1. block \in Db!Block
    BY <1>1, CallsAssumption
  <2> QED
    BY <2>1 DEF ParityInit, Db!FillsOnly, Db!Block
<1>3. DbSide
  BY <1>1, NoFillsYet, Calls DEF DbSide
<1>4. NativeSide
  BY <1>1 DEF NativeSide
<1> QED
  BY <1>2, <1>3, <1>4 DEF IInv

-------------------------------------------------------------------------------
(* db_out's steps.                                                              *)

LEMMA DbFormatFill ==
    ASSUME IInv, Db!FormatFill
    PROVE  DbSide'
<1>1. /\ block \in Blocks /\ i \in Nat /\ b \in Nat /\ i <= Len(block.fills)
      /\ Len(db_tables.order) = i /\ FillsFirst(db_tables, block.fills, i)
      /\ Len(block.fills) \in Nat /\ changes = {}
  BY Calls DEF IInv, DbSide, NativeSide, Db!FormatFill
<1>2. /\ pass = "fills" /\ i < Len(block.fills) /\ i' = i + 1
      /\ UNCHANGED <<pass, b, block, changes>>
      /\ db_tables' = WithRow(db_tables, KeyAt(block.fills, i), OriginAt(block.fills, i))
  BY SameFillRow, SameWithRow DEF Db!FormatFill, Db!Format, Db!NextFill
<1>3. Len(db_tables'.order) = i + 1 /\ FillsFirst(db_tables', block.fills, i + 1)
  BY <1>1, <1>2, AddFill
<1> QED
  BY <1>1, <1>2, <1>3 DEF DbSide

(* Whatever the later passes format is not a fill.                              *)
LEMMA DbFormatOther ==
    ASSUME IInv, Db!FormatBody \/ Db!FormatPart \/ Db!FormatLedgerUpdate
    PROVE  DbSide'
<1>1. /\ block \in Blocks /\ i \in Nat /\ b \in Nat /\ Len(block.fills) \in Nat
      /\ block \in Db!Block /\ changes = {}
      /\ pass # "fills" /\ FillsFirst(db_tables, block.fills, Len(block.fills))
  BY Calls DEF IInv, DbSide, NativeSide, Db!FormatBody, Db!FormatPart, Db!FormatLedgerUpdate,
     Db!AtBody
<1>2. Db!theBody \in Db!Body
  <2>1. i + 1 \in 1 .. Len(block.events) /\ b + 1 \in 1 .. Len(block.events[i + 1].bodies)
    BY <1>1 DEF Db!FormatBody, Db!FormatPart, Db!FormatLedgerUpdate, Db!AtBody, Db!Block, Db!Event
  <2>2. block.events[i + 1] \in Db!Event
    BY <1>1, <2>1 DEF Db!Block
  <2> QED
    BY <2>1, <2>2 DEF Db!theBody, Db!BodyAt, Db!Event
<1>3. PICK table, path :
          /\ table \notin FillTables
          /\ Db!Format(Db!Item(table, path, Db!theHash))
  <2>1. CASE Db!FormatBody \/ Db!FormatPart
    <3>1. Db!theBody.kind \notin FillTables
      BY <2>1 DEF Db!FormatBody, Db!FormatPart, Db!BodyTables, Db!ListTables, FillTables
    <3> QED
      BY <2>1, <3>1 DEF Db!FormatBody, Db!FormatPart
  <2>2. CASE Db!FormatLedgerUpdate
    <3>1. Db!theBody.delta \in Db!LedgerTables
      BY <1>2, <2>2 DEF Db!FormatLedgerUpdate, Db!Body
    <3>2. Db!theBody.delta \notin FillTables
      BY <3>1 DEF Db!LedgerTables, Db!TransferTables, Db!FundTables, Db!AccountTables,
         Db!MarketTables, FillTables
    <3> QED
      BY <2>2, <3>2 DEF Db!FormatLedgerUpdate
  <2> QED
    BY <2>1, <2>2
<1> DEFINE item == Db!Item(table, path, Db!theHash)
<1>4. /\ db_tables' = WithRow(db_tables, Db!EventKey(item), item)
      /\ UNCHANGED <<block, changes>> /\ Db!EventKey(item).table = table
  BY <1>3, SameWithRow DEF Db!Format, Db!EventKey, Db!Item
<1>5. pass' = pass /\ i' = i /\ b' \in Nat
  BY <1>1 DEF Db!FormatBody, Db!FormatPart, Db!FormatLedgerUpdate, Db!NextBody, Db!NextPart
<1> HIDE DEF item
<1>6. FillsFirst(db_tables', block.fills, Len(block.fills))
  BY <1>1, <1>3, <1>4, AddOther
<1> QED
  BY <1>1, <1>4, <1>5, <1>6 DEF DbSide

LEMMA DbSkip ==
    ASSUME IInv, \/ Db!EndFills \/ Db!EndParts \/ Db!SkipBody \/ Db!SkipLedgerBody
                 \/ Db!EndEvent \/ Db!EndEvents
    PROVE  DbSide'
<1>1. /\ block \in Blocks /\ i \in Nat /\ b \in Nat /\ changes = {}
      /\ FillsFirst(db_tables, block.fills, Len(block.fills))
  BY DEF IInv, DbSide, Db!EndFills, Db!EndParts, Db!SkipBody, Db!SkipLedgerBody, Db!EndEvent,
     Db!EndEvents, Db!AtBody
<1>2. /\ pass' # "fills" /\ i' \in Nat /\ b' \in Nat
      /\ UNCHANGED <<block, db_tables, changes>>
  BY <1>1 DEF Db!EndFills, Db!EndParts, Db!SkipBody, Db!SkipLedgerBody, Db!EndEvent, Db!EndEvents,
     Db!AtBody, Db!Skip, Db!NextBody, Db!NextEvent, Db!StartPass
<1> QED
  BY <1>1, <1>2 DEF DbSide

LEMMA DbReturn ==
    ASSUME IInv, Db!Return
    PROVE  DbSide'
BY DEF IInv, DbSide, Db!Return

-------------------------------------------------------------------------------
(* fill_changes' steps.                                                         *)

LEMMA NativeFormatFill ==
    ASSUME IInv, FormatFill
    PROVE  NativeSide'
<1>1. /\ request \in Requests /\ n \in Nat /\ n # 0 /\ pc = "format" /\ result = {}
      /\ Len(tables.order) = n - 1 /\ FillsFirst(tables, request.fills, n - 1)
      /\ Count \in Nat /\ n <= Count
  BY Calls DEF IInv, DbSide, NativeSide, FormatFill
<1>2. n - 1 \in Nat /\ (n - 1) + 1 = n
  BY <1>1
<1>3. /\ n' = n + 1 /\ UNCHANGED <<request, pc, result>>
      /\ tables' = WithRow(tables, KeyAt(request.fills, n - 1), OriginAt(request.fills, n - 1))
  <2>1. n' = n + 1 /\ UNCHANGED <<request, pc, result>>
    BY DEF FormatFill
  <2> QED
    BY <1>2, <2>1, SameFillRow DEF FormatFill
<1>4. Len(tables'.order) = n /\ FillsFirst(tables', request.fills, n)
  BY <1>1, <1>2, <1>3, AddFill
<1>5. Count' = Count /\ n' - 1 = n
  BY <1>1, <1>3 DEF Count
<1> QED
  BY <1>1, <1>3, <1>4, <1>5 DEF NativeSide

LEMMA NativeOther ==
    ASSUME IInv, Next, ~FormatFill
    PROVE  NativeSide'
<1>1. /\ request \in Requests /\ n \in Nat /\ n # 0 /\ Count \in Nat
      /\ result # {} => pc = "returned"
  BY Calls DEF IInv, DbSide, NativeSide
<1>2. request' = request /\ Count' = Count
  BY DEF Next, ProjectCapacity, ProjectMissingHeader, Project,
     Check, Measure, Measured, FormatFill, Formatted,
     OutputCapacity, Return, Refuse, GoTo, Count
<1>3. CASE \E error : Refuse(error) /\ result = {}
  BY <1>1, <1>2, <1>3 DEF IInv, NativeSide, Refuse
<1>4. CASE \E next \in {"check", "measure"} :
              /\ GoTo(next) /\ pc \in {"project", "check"}
  BY <1>1, <1>2, <1>4 DEF IInv, NativeSide, GoTo
<1>5. CASE Measure /\ ~Refuse("Capacity")
  BY <1>1, <1>2, <1>5 DEF IInv, NativeSide, Measure
<1>6. CASE Measured
  <2>1. /\ pc' = "format" /\ n' = 1 /\ tables' = NoRows /\ result' = {} /\ n' - 1 = 0
    BY <1>6 DEF IInv, NativeSide, Measured, GoTo
  <2> QED
    BY <1>1, <1>2, <2>1, NoFillsYet DEF NativeSide
<1>7. CASE Formatted
  <2>1. /\ pc = "format" /\ n - 1 = Count
    BY <1>1, <1>7 DEF IInv, NativeSide, Formatted
  <2> QED
    BY <1>1, <1>2, <1>7, <2>1 DEF IInv, NativeSide, Formatted, GoTo
<1>8. CASE Return
  BY <1>1, <1>2, <1>8 DEF IInv, NativeSide, Return
<1> QED
  <2>1. CASE ProjectCapacity \/ ProjectMissingHeader \/ OutputCapacity
    BY <1>1, <1>3, <2>1 DEF ProjectCapacity, ProjectMissingHeader,
       OutputCapacity
  <2>2. CASE Project
    BY <1>4, <2>2 DEF Project
  <2>3. CASE Check
    BY <1>1, <1>3, <1>4, <2>3 DEF Check
  <2>4. CASE Measure
    BY <1>1, <1>3, <1>5, <2>4 DEF Measure
  <2> QED
    BY <1>6, <1>7, <1>8, <2>1, <2>2, <2>3, <2>4 DEF Next

-------------------------------------------------------------------------------

LEMMA IInvStep == IInv /\ [ParityNext]_<<db_vars, vars>> => IInv'
<1> SUFFICES ASSUME IInv, [ParityNext]_<<db_vars, vars>> PROVE IInv'
  OBVIOUS
<1>1. CASE Db!Next /\ UNCHANGED vars
  <2>1. DbSide'
    BY <1>1, DbFormatFill, DbFormatOther, DbSkip, DbReturn DEF Db!Next
  <2>2. NativeSide'
    BY <1>1 DEF IInv, NativeSide, vars, Count
  <2>3. block' = block
    BY <1>1 DEF Db!Next, Db!FormatFill, Db!EndFills, Db!FormatBody, Db!FormatPart, Db!EndParts,
       Db!SkipBody, Db!FormatLedgerUpdate, Db!SkipLedgerBody, Db!EndEvent, Db!EndEvents,
       Db!Return, Db!Format, Db!Skip
  <2> QED
    BY <1>1, <2>1, <2>2, <2>3 DEF IInv, vars
<1>2. CASE Next /\ UNCHANGED db_vars
  <2>1. NativeSide'
    BY <1>2, NativeFormatFill, NativeOther
  <2>2. DbSide'
    BY <1>2 DEF IInv, DbSide, db_vars
  <2>3. request' = request
    BY <1>2 DEF Next, ProjectCapacity, ProjectMissingHeader, Project,
       Check, Measure, Measured, FormatFill, Formatted,
       OutputCapacity, Return, Refuse, GoTo
  <2> QED
    BY <1>2, <2>1, <2>2, <2>3 DEF IInv, db_vars
<1>3. CASE UNCHANGED <<db_vars, vars>>
  BY <1>3 DEF vars, db_vars, IInv, DbSide, NativeSide, Count
<1> QED
  BY <1>1, <1>2, <1>3 DEF ParityNext

LEMMA Invariance == ParitySpec => []IInv
BY InitIInv, IInvStep, PTL DEF ParitySpec

LEMMA IInvSameRows == IInv => SameFillRows
<1> SUFFICES ASSUME IInv, NEW native \in result, NEW db \in changes
             PROVE  /\ native = SubSeq(db, 1, Len(native))
                    /\ {m \in 1 .. Len(db) : db[m].key.table \in FillTables}
                         = 1 .. Len(native)
  BY DEF SameFillRows
<1> DEFINE fills == block.fills
           count == Len(fills)
<1>1. /\ block \in Blocks /\ request \in Requests /\ request.fills = fills
      /\ native = Changes(tables) /\ Len(tables.order) = count
      /\ FillsFirst(tables, fills, count)
      /\ db = Db!Changes(db_tables) /\ FillsFirst(db_tables, fills, count)
  BY DEF IInv, DbSide, NativeSide, Count
<1>2. count \in Nat
  BY <1>1, Calls
<1> HIDE DEF fills, count
<1>3. count <= Len(db_tables.order) /\ Len(db_tables.order) \in Nat
  BY <1>1 DEF FillsFirst
<1>4. /\ native = [m \in 1 .. count |-> [key |-> tables.order[m],
                                         origin |-> tables.origin[tables.order[m]]]]
      /\ db = [m \in 1 .. Len(db_tables.order) |->
                   [key |-> db_tables.order[m], origin |-> db_tables.origin[db_tables.order[m]]]]
  BY <1>1 DEF Changes, Db!Changes
<1>5. /\ Len(native) = count /\ Len(db) = Len(db_tables.order)
      /\ DOMAIN native = 1 .. count /\ DOMAIN db = 1 .. Len(db)
  BY <1>2, <1>3, <1>4
<1>6. \A m \in 1 .. count : m \in 1 .. Len(db) /\ native[m] = db[m]
  <2>1. ASSUME NEW m \in 1 .. count PROVE m \in 1 .. Len(db) /\ native[m] = db[m]
    <3>1. m \in 1 .. Len(db)
      BY <1>2, <1>3, <1>5
    <3>2. /\ tables.order[m] = KeyAt(fills, m - 1)
          /\ tables.origin[tables.order[m]] = OriginAt(fills, m - 1)
          /\ db_tables.order[m] = KeyAt(fills, m - 1)
          /\ db_tables.origin[db_tables.order[m]] = OriginAt(fills, m - 1)
      BY <1>1 DEF FillsFirst
    <3> QED
      BY <1>4, <1>5, <3>1, <3>2
  <2> QED
    BY <2>1
<1>7. native = SubSeq(db, 1, Len(native))
  <2>1. SubSeq(db, 1, count) = [m \in 1 .. count |-> db[m]]
    BY <1>2
  <2>2. native = [m \in 1 .. count |-> native[m]]
    BY <1>4
  <2> QED
    BY <1>5, <1>6, <2>1, <2>2
<1>8. ASSUME NEW m \in 1 .. Len(db)
      PROVE  db[m].key.table \in FillTables <=> m \in 1 .. count
  <2>1. db[m].key = db_tables.order[m]
    BY <1>4, <1>5
  <2>2. CASE m \in 1 .. count
    <3>1. db_tables.order[m] = KeyAt(fills, m - 1)
      BY <1>1, <2>2 DEF FillsFirst
    <3>2. KeyAt(fills, m - 1).table \in FillTables
      BY TableInFills DEF KeyAt
    <3> QED
      BY <2>1, <2>2, <3>1, <3>2 
  <2>3. CASE m \notin 1 .. count
    <3>1. m \in count + 1 .. Len(db_tables.order)
      BY <1>2, <1>3, <1>5, <2>3
    <3>2. db_tables.order[m].table \notin FillTables
      BY <1>1, <3>1 DEF FillsFirst
    <3> QED
      BY <2>1, <2>3, <3>2 
  <2> QED
    BY <2>2, <2>3
<1>9. \A m \in 1 .. count : m \in 1 .. Len(db)
  BY <1>6
<1> QED
  BY <1>5, <1>7, <1>8, <1>9

(* The fill rows of the two builds are the same, in the same order and place,   *)
(* whatever the widths of usize, the limits and the events of the block.        *)
THEOREM NativeRowsAreDbRows == ParitySpec => []SameFillRows
BY Invariance, IInvSameRows, PTL
================================================================================
