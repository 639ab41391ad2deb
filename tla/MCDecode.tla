------------------------------- MODULE MCDecode -------------------------------
(* Payloads of at most MaxFields top-level fields drawn from the ten kinds of   *)
(* field the decoder tells apart, under every pair of limits around them.       *)
EXTENDS Decode, SequencesExt

CONSTANT MaxFields      \* bound on the length of a payload

Field(tag, framed, valid, sets) ==
    [tag |-> tag, framed |-> framed, valid |-> valid, sets |-> sets]

MCHeaderFields == {"block_number", "seconds", "nanos"}

MCFields ==
    { Field("block_header", TRUE, TRUE, MCHeaderFields),
      Field("block_header", TRUE, TRUE, {"seconds"}),
      Field("block_header", TRUE, FALSE, {"block_number"}),
      Field("fills", TRUE, TRUE, {}),
      Field("fills", TRUE, FALSE, {}),
      Field("events", TRUE, TRUE, {}),
      Field("events", TRUE, FALSE, {}),
      Field("events", FALSE, FALSE, {}),
      Field("unknown", TRUE, TRUE, {}),
      Field("bad_key", FALSE, FALSE, {}) }

MCLimits(b, f) == [max_block_bytes |-> b, max_fills |-> f]

(* The edges of both bounds: 0 and one above the ceiling are refused, one byte  *)
(* less than the longest payload refuses it, the ceiling itself is accepted.    *)
MCAllLimits ==
    { MCLimits(0, 1), MCLimits(2 * MaxFields + 1, 1), MCLimits(2 * MaxFields, 0),
      MCLimits(2 * MaxFields, 3), MCLimits(2 * MaxFields - 1, 2) }
    \cup { MCLimits(2 * MaxFields, f) : f \in 1 .. 2 }

(* A field takes at least two bytes.                                            *)
MCRequests ==
    { [wire |-> wire, bytes |-> 2 * Len(wire), limits |-> limits] :
          wire \in BoundedSeq(MCFields, MaxFields), limits \in MCAllLimits }
===============================================================================
