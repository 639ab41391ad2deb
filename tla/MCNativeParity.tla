---------------------------- MODULE MCNativeParity -----------------------------
(* Requests around a good one: every field the checks read takes its good value *)
(* and each kind of bad one, two faults at a time, so that the order in which   *)
(* the faults are found matters.  Good ones have up to three fills of every     *)
(* kind, and db_out finds events beside them whose rows it merges.              *)
EXTENDS NativeParity, SequencesExt

MCCoin(prefixed, value) == [prefixed |-> prefixed, digits |-> prefixed, value |-> value]

MCFills ==
    { [coin |-> MCCoin(FALSE, 0), liquidation |-> FALSE, hash |-> "h1"],
      [coin |-> MCCoin(TRUE, 12), liquidation |-> TRUE, hash |-> "h1"],
      [coin |-> MCCoin(TRUE, 71), liquidation |-> TRUE, hash |-> "h1"] }

MCTime(given, s, ns) == [given |-> given, seconds |-> s, nanos |-> ns]

Good == MCTime(TRUE, 5, 3)

(* The header's time and the clock's.                                           *)
MCTimes ==
    { <<Good, Good>>, <<Good, MCTime(TRUE, 5, 4)>>, <<Good, MCTime(TRUE, 6, 3)>>,
      <<MCTime(FALSE, 0, 0), MCTime(FALSE, 0, 0)>>, <<Good, MCTime(FALSE, 0, 0)>> }
    \cup { <<t, t>> : t \in { MCTime(TRUE, -1, 3), MCTime(TRUE, MaxSeconds, NanosMod - 1),
                              MCTime(TRUE, MaxSeconds + 1, 3), MCTime(TRUE, 5, NanosMod),
                              MCTime(TRUE, 5, -1) } }

MCRequest(fills, bytes, out, present, number, id, times, project_max, max_fills, max_bytes) ==
    [fills |-> fills, bytes |-> bytes, output_bytes |-> out,
     header |-> [present |-> present, number |-> 42, time |-> times[1]],
     clock |-> [number |-> number, id |-> id, time |-> times[2]],
     project_max |-> project_max,
     limits |-> [max_fills |-> max_fills, max_bytes |-> max_bytes]]

MCIds == {"ok", "empty", "long", "control"}

(* Blocks of up to two fills of three bytes or none (the limit is four), and    *)
(* the output exactly at, or one above, the limit.                              *)
Measured2 == [1 .. 2 -> MCFills] \X [1 .. 2 -> {0, 1, 3}]
Measured1 == {<< <<f>>, <<s>> >> : f \in MCFills, s \in {0, 4, 5}}
MCMeasured == Measured2 \cup Measured1 \cup {<< <<>>, <<>> >>}

(* Three fills of a byte each, and four, which are too many for U32Mod.         *)
Long == BoundedSeq(MCFills, 3) \cup {[m \in 1 .. U32Mod |-> CHOOSE f \in MCFills : TRUE]}

MCRequests ==
    { MCRequest(m[1], m[2], out, TRUE, 42, "ok", <<Good, Good>>, p, f, 4) :
          m \in MCMeasured, out \in {0, 4, 5}, p \in 0 .. 2, f \in {0, 1, 2, FillsCeiling + 1} }
    \cup
    { MCRequest(m[1], m[2], 0, present, number, id, times, 1, f, bytes) :
          m \in Measured1, present \in BOOLEAN, number \in {42, 43}, id \in MCIds,
          times \in MCTimes, f \in {0, 1}, bytes \in {0, 4, BytesCeiling + 1} }
    \cup
    { MCRequest(fills, [m \in 1 .. Len(fills) |-> 1], 1, TRUE, 42, "ok", <<Good, Good>>,
                U32Mod, FillsCeiling, 4) : fills \in Long }

MCEvent(parts) ==
    [hash |-> "h1",
     bodies |-> <<[kind |-> "funding_deltas", parts |-> parts, delta |-> "none"],
                  [kind |-> "funding_deltas", parts |-> 1, delta |-> "none"]>>]

MCBlocks ==
    [fills : Long, events : { <<>>, <<MCEvent(Stride)>>, <<MCEvent(Stride + 1)>> }]
===============================================================================
