------------------------------ MODULE FillChanges ------------------------------
(* native::project and rows::fill_changes (src/native.rs, src/rows.rs): the     *)
(* fill rows of one decoded block, outside Substreams.  A caller projects the   *)
(* block and formats the projection; each refuses the whole block or nothing.   *)
EXTENDS BlockRows, Integers

CONSTANTS
    Requests,       \* the calls considered
    FillsCeiling,   \* 100_000: the largest Limits.max_fills accepted
    BytesCeiling,   \* 64 MiB: the largest Limits.max_bytes accepted
    MaxSeconds,     \* 253_402_300_799, the end of year 9999
    NanosMod        \* 1_000_000_000

(* A timestamp that may be absent.                                              *)
Time == [given : BOOLEAN, seconds : Int, nanos : Int]

(* id: what fill_changes asks of the clock's id, "ok" when it is accepted.      *)
Clock == [number : Nat, id : {"ok", "empty", "long", "control"}, time : Time]

(* bytes[n] is the encoded length of fill n and output_bytes that of the rows   *)
(* of all the fills: both are the caller's data.                                *)
Request == [fills : Seq(Fill), bytes : Seq(Nat), output_bytes : Nat,
            header : [present : BOOLEAN, number : Nat, time : Time], clock : Clock,
            project_max : Nat, limits : [max_fills : Nat, max_bytes : Nat]]

ASSUME RequestsAssumption ==
    Requests \subseteq {r \in Request : Len(r.bytes) = Len(r.fills)}

(* A native build's usize is wider than any limit that is accepted (64 MiB):    *)
(* a sum that saturates is over the limit.                                      *)
ASSUME CeilingAssumption == BytesCeiling \in Nat /\ BytesCeiling < UsizeMod - 1

VARIABLES
    request,
    pc,             \* "project", "check", "measure", "format", "size", "returned"
    n,              \* the next fill of the loop that is running
    input_bytes,
    tables,
    status,         \* "pending", "Ok" or the error
    result          \* the DatabaseChanges returned, in a set

vars == <<request, pc, n, input_bytes, tables, status, result>>

Init ==
    /\ request \in Requests
    /\ pc = "project"
    /\ n = 1
    /\ input_bytes = 0
    /\ tables = NoRows
    /\ status = "pending"
    /\ result = {}

Refuse(error) ==
    /\ status' = error
    /\ pc' = "returned"
    /\ UNCHANGED <<request, n, input_bytes, tables, result>>

GoTo(next) ==
    /\ pc' = next
    /\ n' = 1
    /\ UNCHANGED <<request, input_bytes, tables, status, result>>

Count == Len(request.fills)

-------------------------------------------------------------------------------
(* project: the capacity is looked at before the header.                        *)

TooMany == Count > request.project_max \/ Count > U32Mod - 1

ProjectCapacity == pc = "project" /\ TooMany /\ Refuse("ProjectCapacity")

ProjectMissingHeader ==
    /\ pc = "project" /\ ~TooMany
    /\ ~request.header.present
    /\ Refuse("MissingHeader")

Project ==
    /\ pc = "project" /\ ~TooMany
    /\ request.header.present
    /\ GoTo("check")

-------------------------------------------------------------------------------
(* fill_changes: bounds, identity, count, input bytes, rows, output bytes.      *)

BoundsAccepted(r) ==
    /\ r.limits.max_fills \in 1 .. FillsCeiling
    /\ r.limits.max_bytes \in 1 .. BytesCeiling

BugIdentity(r) ==               \* the clock's nanoseconds are not compared
    /\ r.header.time.given /\ r.clock.time.given
    /\ r.clock.number = r.header.number
    /\ r.clock.id = "ok"
    /\ r.header.time.seconds \in 0 .. MaxSeconds
    /\ r.header.time.nanos \in 0 .. NanosMod - 1
    /\ r.clock.time.seconds = r.header.time.seconds

(* The clock the rows will carry is that of the block: header and clock agree   *)
(* on number and time, the time is in range and the id can be a block hash.     *)
Identity(r) ==
    /\ r.header.time.given /\ r.clock.time.given
    /\ r.clock.number = r.header.number
    /\ r.clock.id = "ok"
    /\ r.header.time.seconds \in 0 .. MaxSeconds
    /\ r.header.time.nanos \in 0 .. NanosMod - 1
    /\ r.clock.time = r.header.time

Check ==
    /\ pc = "check"
    /\ IF ~BoundsAccepted(request) THEN Refuse("InvalidBounds")
       ELSE IF ~Identity(request) THEN Refuse("Identity")
       ELSE IF Count > request.limits.max_fills THEN Refuse("Capacity")
       ELSE GoTo("measure")

(* saturating_add.                                                              *)
Saturated(x) == IF x >= UsizeMod THEN UsizeMod - 1 ELSE x

BugMeasure ==                   \* the running total is not kept
    /\ pc = "measure" /\ n <= Count
    /\ LET total == Saturated(request.bytes[n])
       IN  IF total > request.limits.max_bytes THEN Refuse("Capacity")
           ELSE /\ input_bytes' = total
                /\ n' = n + 1
                /\ UNCHANGED <<request, pc, tables, status, result>>

Measure ==
    /\ pc = "measure" /\ n <= Count
    /\ LET total == Saturated(input_bytes + request.bytes[n])
       IN  IF total > request.limits.max_bytes THEN Refuse("Capacity")
           ELSE /\ input_bytes' = total
                /\ n' = n + 1
                /\ UNCHANGED <<request, pc, tables, status, result>>

Measured ==
    /\ pc = "measure" /\ n > Count
    /\ GoTo("format")

BugFormatFill ==                \* fills indexed within their own table
    /\ pc = "format" /\ n <= Count
    /\ LET fill == request.fills[n]
           before == {m \in 1 .. n - 1 : TableOf(request.fills[m]) = TableOf(fill)}
           item == Item(TableOf(fill), <<Cardinality(before)>>, fill.hash)
       IN  tables' = WithRow(tables, EventKey(item), item)
    /\ n' = n + 1
    /\ UNCHANGED <<request, pc, input_bytes, status, result>>

(* process_projected_fill under the fill's own index; nothing can fail here.    *)
FormatFill ==
    /\ pc = "format" /\ n <= Count
    /\ LET fill == request.fills[n]
           item == Item(TableOf(fill), <<n - 1>>, fill.hash)
       IN  tables' = WithRow(tables, EventKey(item), item)
    /\ n' = n + 1
    /\ UNCHANGED <<request, pc, input_bytes, status, result>>

Formatted ==
    /\ pc = "format" /\ n > Count
    /\ GoTo("size")

BugOutputCapacity ==            \* the rows are returned beside the error
    /\ pc = "size"
    /\ request.output_bytes > request.limits.max_bytes
    /\ status' = "Capacity"
    /\ result' = {Changes(tables)}
    /\ pc' = "returned"
    /\ UNCHANGED <<request, n, input_bytes, tables>>

OutputCapacity ==
    /\ pc = "size"
    /\ request.output_bytes > request.limits.max_bytes
    /\ Refuse("Capacity")

Return ==
    /\ pc = "size"
    /\ request.output_bytes <= request.limits.max_bytes
    /\ status' = "Ok"
    /\ result' = {Changes(tables)}
    /\ pc' = "returned"
    /\ UNCHANGED <<request, n, input_bytes, tables>>

Next ==
    \/ ProjectCapacity \/ ProjectMissingHeader \/ Project
    \/ Check
    \/ Measure \/ Measured
    \/ FormatFill \/ Formatted
    \/ OutputCapacity \/ Return

Spec == Init /\ [][Next]_vars

-------------------------------------------------------------------------------
(* Properties.                                                                  *)

Errors == {"ProjectCapacity", "MissingHeader", "InvalidBounds", "Identity", "Capacity"}

(* Types, and rows are returned with Ok only.                                   *)
TypeOK ==
    /\ request \in Request
    /\ pc \in {"project", "check", "measure", "format", "size", "returned"}
    /\ n \in 1 .. Count + 1
    /\ input_bytes \in Nat
    /\ tables.order \in Seq([table : FillTables, index : Nat, hash : Hashes])
    /\ status \in {"pending", "Ok"} \cup Errors
    /\ (status = "pending") <=> (pc # "returned")
    /\ (result # {}) <=> (status = "Ok")

(* The encoded lengths of the first fills, summed.                              *)
BytesOfFirst(bytes) ==
    LET sum[m \in 0 .. Len(bytes)] == IF m = 0 THEN 0 ELSE sum[m - 1] + bytes[m]
    IN  sum

InputBytes(r) == BytesOfFirst(r.bytes)[Len(r.bytes)]

(* The verdict as a function of the request: projection before formatting,      *)
(* bounds before identity, identity before any capacity.                        *)
Verdict(r) ==
    IF Len(r.fills) > r.project_max \/ Len(r.fills) >= U32Mod THEN "ProjectCapacity"
    ELSE IF ~r.header.present THEN "MissingHeader"
    ELSE IF ~BoundsAccepted(r) THEN "InvalidBounds"
    ELSE IF ~r.header.time.given \/ r.clock.time # r.header.time
            \/ r.clock.number # r.header.number \/ r.clock.id # "ok"
            \/ r.header.time.seconds \notin 0 .. MaxSeconds
            \/ r.header.time.nanos \notin 0 .. NanosMod - 1
         THEN "Identity"
    ELSE IF \/ Len(r.fills) > r.limits.max_fills
            \/ InputBytes(r) > r.limits.max_bytes
            \/ r.output_bytes > r.limits.max_bytes
         THEN "Capacity"
    ELSE "Ok"

(* One row for each fill, in the order of the block, under the index of the     *)
(* fill among all fills whatever their table, in the key and in the column.     *)
Complete(r, c) ==
    /\ Len(c) = Len(r.fills)
    /\ \A m \in 1 .. Len(c) :
          /\ c[m].key = [table |-> TableOf(r.fills[m]), index |-> m - 1, hash |-> r.fills[m].hash]
          /\ c[m].origin.path = <<m - 1>>
          /\ EventIndexColumn(c[m].origin) = m - 1

Promise == INSTANCE AtomicCall

(* project and fill_changes keep the promise of AtomicCall: the checks that run *)
(* interleaved with the work refuse exactly what the request as a whole         *)
(* deserves, and "no prefix is returned on failure" (native.rs).                *)
Implements == Promise!Spec

(* The loop that measures the input stops at the first fill over the limit: no  *)
(* row is built for a block whose input or count is too large, or whose clock   *)
(* is not its own (rows.rs checks them before Tables::new).                     *)
CheckedBeforeRows ==
    tables.order # <<>> =>
        /\ Count <= request.limits.max_fills
        /\ InputBytes(request) <= request.limits.max_bytes
        /\ request.clock.number = request.header.number
        /\ request.clock.time = request.header.time
===============================================================================
