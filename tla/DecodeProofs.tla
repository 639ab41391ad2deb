----------------------------- MODULE DecodeProofs -----------------------------
(* Proofs about the bounded decoder, for every payload, limit and ceiling.      *)
EXTENDS Decode, FiniteSetTheorems, TLAPS

(* The bookkeeping that makes the properties inductive: what the decoder has    *)
(* counted agrees with the payload read so far, and the flag raised on the way  *)
(* out says why the field at pos stopped it.                                    *)
Progress ==
    /\ pc = "check" =>
          /\ pos = 1 /\ header = NoHeader /\ fills = <<>>
          /\ events = 0 /\ unknown = 0
    /\ pc \in {"check", "merge", "merged"} => ~capacity /\ attempts = Len(fills)
    /\ pc \in {"merge", "merged", "failed"} =>
          /\ BoundsAccepted(request.limits)
          /\ request.bytes <= request.limits.max_block_bytes
          /\ Len(fills) = Cardinality(Positions(request.wire, "fills", pos - 1))
    /\ pc = "merged" => pos = Len(request.wire) + 1
    /\ pc = "failed" =>
          /\ pos <= Len(request.wire)
          /\ FirstStop(request, pos)
          /\ capacity <=> OverLimit(request, pos)

IInv == TypeOK /\ AttemptsBounded /\ DecodesPrefix /\ Progress

(* Reading one more field adds its position to those of its own tag only.       *)
LEMMA PositionsStep ==
    ASSUME NEW wire \in Seq(WireField), NEW n \in Nat, n < Len(wire), NEW tag \in Tags
    PROVE  /\ IsFiniteSet(Positions(wire, tag, n))
           /\ n + 1 \notin Positions(wire, tag, n)
           /\ \A i \in Positions(wire, tag, n) : i \in 1 .. n
           /\ wire[n + 1].tag = tag =>
                 Positions(wire, tag, n + 1) = Positions(wire, tag, n) \cup {n + 1}
           /\ wire[n + 1].tag # tag =>
                 Positions(wire, tag, n + 1) = Positions(wire, tag, n)
<1>1. DOMAIN wire = 1 .. Len(wire) /\ Len(wire) \in Nat
  OBVIOUS
<1>2. Positions(wire, tag, n) \subseteq 1 .. n
  BY <1>1 DEF Positions
<1>3. IsFiniteSet(1 .. n)
  BY FS_Interval
<1>4. IsFiniteSet(Positions(wire, tag, n))
  BY <1>2, <1>3, FS_Subset
<1> QED
  BY <1>1, <1>2, <1>4 DEF Positions

(* The number of fields of a tag goes up by one with each of them.              *)
LEMMA CountStep ==
    ASSUME NEW wire \in Seq(WireField), NEW n \in Nat, n < Len(wire), NEW tag \in Tags
    PROVE  /\ Cardinality(Positions(wire, tag, n)) \in Nat
           /\ wire[n + 1].tag = tag =>
                 Cardinality(Positions(wire, tag, n + 1)) = Cardinality(Positions(wire, tag, n)) + 1
           /\ wire[n + 1].tag # tag =>
                 Cardinality(Positions(wire, tag, n + 1)) = Cardinality(Positions(wire, tag, n))
  BY PositionsStep, FS_AddElement, FS_CardinalityType

(* Nothing has been read before the first field.                                *)
LEMMA NoPositions ==
    ASSUME NEW wire \in Seq(WireField), NEW tag
    PROVE  Positions(wire, tag, 0) = {} /\ Cardinality(Positions(wire, tag, 0)) = 0
<1>1. Positions(wire, tag, 0) = {}
  BY DEF Positions
<1> QED
  BY <1>1, FS_EmptySet

(* What TypeOK says of the request, through the assumption on Requests.         *)
LEMMA RequestTypes ==
    ASSUME TypeOK
    PROVE  /\ request \in Request
           /\ request.wire \in Seq(WireField)
           /\ Len(request.wire) \in Nat
           /\ DOMAIN request.wire = 1 .. Len(request.wire)
           /\ request.limits.max_fills \in Nat
           /\ pos \in Nat \ {0}
<1>1. request \in Request
  BY RequestsAssumption DEF TypeOK
<1>2. request.wire \in Seq(WireField) /\ request.limits.max_fills \in Nat
  BY <1>1 DEF Request, Limits
<1>3. Len(request.wire) \in Nat /\ DOMAIN request.wire = 1 .. Len(request.wire)
  BY <1>2
<1> QED
  BY <1>1, <1>2, <1>3 DEF TypeOK

LEMMA InitIInv == Init => IInv
<1> SUFFICES ASSUME Init PROVE IInv
  OBVIOUS
<1>1. request \in Request
  BY RequestsAssumption DEF Init
<1>2. Len(request.wire) \in Nat
  BY <1>1 DEF Request
<1>3. TypeOK
  <2>1. header \in [present : BOOLEAN, from : [HeaderFields -> Nat]]
    BY DEF Init, NoHeader
  <2>2. /\ pc \in {"check", "merge", "merged", "failed", "returned"}
        /\ capacity \in BOOLEAN
        /\ status \in {"pending", "Ok"} \cup Errors
        /\ decoded \in SUBSET Decoded
        /\ (status = "pending") <=> (pc # "returned")
        /\ (decoded # {}) <=> (status = "Ok")
    BY DEF Init
  <2>3. /\ request \in Requests
        /\ pos \in 1 .. Len(request.wire) + 1
        /\ fills \in Seq(Nat)
        /\ attempts \in Nat /\ events \in Nat /\ unknown \in Nat
    BY <1>2 DEF Init
  <2> QED
    BY <2>1, <2>2, <2>3 DEF TypeOK
<1>4. AttemptsBounded /\ DecodesPrefix /\ Progress
  BY DEF Init, AttemptsBounded, DecodesPrefix, Progress
<1> QED
  BY <1>3, <1>4 DEF IInv

(* A field of the payload at which the loop stands, with its type.              *)
LEMMA FieldTypes ==
    ASSUME TypeOK, NEW tag \in Tags, AtField(tag)
    PROVE  /\ field \in WireField
           /\ pos \in 1 .. Len(request.wire)
           /\ field.sets \in SUBSET HeaderFields
           /\ field.framed \in BOOLEAN /\ field.valid \in BOOLEAN
<1>1. pos \in 1 .. Len(request.wire)
  BY RequestTypes DEF AtField
<1>2. field \in WireField
  BY <1>1, RequestTypes DEF field
<1> QED
  BY <1>1, <1>2 DEF WireField

(* Merging keeps the type of the header.                                        *)
LEMMA MergedHeaderType ==
    ASSUME NEW old \in [present : BOOLEAN, from : [HeaderFields -> Nat]],
           NEW sets \in SUBSET HeaderFields, NEW from \in Nat
    PROVE  /\ MergedHeader(old, sets, from) \in [present : BOOLEAN, from : [HeaderFields -> Nat]]
           /\ MergedHeader(old, sets, from).present
<1> DEFINE new == [f \in HeaderFields |-> IF f \in sets THEN from ELSE old.from[f]]
<1>1. new \in [HeaderFields -> Nat]
  OBVIOUS
<1>2. MergedHeader(old, sets, from) = [present |-> TRUE, from |-> new]
  BY DEF MergedHeader
<1> QED
  BY <1>1, <1>2

(* A fill keeps the fills in payload order, whatever was merged before it.      *)
LEMMA FillKept ==
    ASSUME NEW wire \in Seq(WireField), NEW n \in Nat, n < Len(wire),
           NEW kept \in Seq(Nat), KeepsFills(wire, n, kept), wire[n + 1].tag = "fills"
    PROVE  KeepsFills(wire, n + 1, Append(kept, n + 1))
<1> DEFINE new == Append(kept, n + 1)
<1>1. /\ Len(new) = Len(kept) + 1 /\ Len(kept) \in Nat
      /\ \A k \in 1 .. Len(kept) : new[k] = kept[k]
      /\ new[Len(kept) + 1] = n + 1
  OBVIOUS
<1>2. \A k \in 1 .. Len(kept) : kept[k] \in 1 .. n
  BY PositionsStep DEF KeepsFills, Tags
<1>3. Positions(wire, "fills", n + 1) = Positions(wire, "fills", n) \cup {n + 1}
  BY PositionsStep DEF Tags
<1>4. {new[k] : k \in 1 .. Len(new)} = {kept[k] : k \in 1 .. Len(kept)} \cup {n + 1}
  BY <1>1
<1>5. \A j, k \in 1 .. Len(new) : j < k => new[j] < new[k]
  <2> SUFFICES ASSUME NEW j \in 1 .. Len(new), NEW k \in 1 .. Len(new), j < k
               PROVE  new[j] < new[k]
    OBVIOUS
  <2>1. j \in 1 .. Len(kept) /\ new[j] = kept[j]
    BY <1>1
  <2>2. CASE k \in 1 .. Len(kept)
    BY <1>1, <2>1, <2>2 DEF KeepsFills
  <2>3. CASE k = Len(kept) + 1
    BY <1>1, <1>2, <2>1, <2>3
  <2> QED
    BY <1>1, <2>2, <2>3
<1> QED
  BY <1>3, <1>4, <1>5 DEF KeepsFills

(* A header that has been merged is the last setter of the fields it carries.   *)
LEMMA HeaderKept ==
    ASSUME NEW wire \in Seq(WireField), NEW n \in Nat, n < Len(wire),
           NEW old \in [present : BOOLEAN, from : [HeaderFields -> Nat]],
           KeepsHeader(wire, n, old.from), wire[n + 1].tag = "block_header"
    PROVE  KeepsHeader(wire, n + 1, MergedHeader(old, wire[n + 1].sets, n + 1).from)
<1> DEFINE sets == wire[n + 1].sets
           new == MergedHeader(old, sets, n + 1).from
<1> SUFFICES ASSUME NEW f \in HeaderFields
             PROVE  /\ new[f] \in Setters(wire, n + 1, f) \cup {0}
                    /\ \A i \in Setters(wire, n + 1, f) : i <= new[f]
  BY DEF KeepsHeader
<1>1. sets \in SUBSET HeaderFields /\ n + 1 \in Nat
  <2>1. wire[n + 1] \in WireField
    OBVIOUS
  <2> QED
    BY <2>1 DEF WireField
<1>2. new[f] = IF f \in sets THEN n + 1 ELSE old.from[f]
  BY DEF MergedHeader
<1>3. Positions(wire, "block_header", n + 1) = Positions(wire, "block_header", n) \cup {n + 1}
  BY PositionsStep DEF Tags
<1>4. \A i \in Positions(wire, "block_header", n) : i \in 1 .. n
  BY PositionsStep DEF Tags
<1>5. CASE f \in sets
  <2>1. Setters(wire, n + 1, f) = Setters(wire, n, f) \cup {n + 1}
    BY <1>3, <1>5 DEF Setters
  <2> QED
    BY <1>2, <1>4, <1>5, <2>1 DEF Setters
<1>6. CASE f \notin sets
  <2>1. Setters(wire, n + 1, f) = Setters(wire, n, f)
    BY <1>3, <1>6 DEF Setters
  <2> QED
    BY <1>2, <1>6, <2>1 DEF KeepsHeader
<1> QED
  BY <1>5, <1>6

(* What a field of another kind leaves as it was.                               *)
LEMMA OthersKept ==
    ASSUME NEW wire \in Seq(WireField), NEW n \in Nat, n < Len(wire)
    PROVE  /\ wire[n + 1].tag # "fills" =>
                 \A kept : KeepsFills(wire, n, kept) <=> KeepsFills(wire, n + 1, kept)
           /\ wire[n + 1].tag # "block_header" =>
                 \A from : KeepsHeader(wire, n, from) <=> KeepsHeader(wire, n + 1, from)
  BY PositionsStep DEF KeepsFills, KeepsHeader, Setters, Tags

(* Types are kept by every step.                                                *)
LEMMA TypeStep == TypeOK /\ [Next]_vars => TypeOK'
<1> SUFFICES ASSUME TypeOK, [Next]_vars PROVE TypeOK'
  OBVIOUS
<1> USE DEF TypeOK
<1>1. CASE RejectBounds
  BY <1>1 DEF RejectBounds, Refuse, decoder, Errors
<1>2. CASE RejectBytes
  BY <1>2 DEF RejectBytes, Refuse, decoder, Errors
<1>3. CASE StartMerge
  BY <1>3 DEF StartMerge, decoder
<1>4. CASE MergeHeader
  <2>1. header' \in [present : BOOLEAN, from : [HeaderFields -> Nat]]
    <3>1. pos \in Nat /\ field.sets \in SUBSET HeaderFields
      BY <1>4, FieldTypes, RequestTypes DEF MergeHeader, Tags
    <3>2. header' = MergedHeader(header, field.sets, pos)
      BY <1>4 DEF MergeHeader
    <3>3. \A s \in SUBSET HeaderFields, m \in Nat :
              MergedHeader(header, s, m) \in [present : BOOLEAN, from : [HeaderFields -> Nat]]
      BY MergedHeaderType
    <3> QED
      BY <3>1, <3>2, <3>3
  <2> QED
    BY <1>4, <2>1, FieldTypes, RequestTypes DEF MergeHeader, Advance, AtField
<1>5. CASE MergeHeaderFails
  <2>1. header' \in [present : BOOLEAN, from : [HeaderFields -> Nat]]
    <3>1. pos \in Nat /\ field.sets \in SUBSET HeaderFields
      BY <1>5, FieldTypes, RequestTypes DEF MergeHeaderFails, Tags
    <3>2. PICK part \in SUBSET HeaderFields : header' = MergedHeader(header, part, pos)
      BY <1>5, <3>1 DEF MergeHeaderFails
    <3> QED
      BY <3>1, <3>2, MergedHeaderType
  <2> QED
    BY <1>5, <2>1 DEF MergeHeaderFails, Abort, AtField
<1>6. CASE FillOverLimit
  BY <1>6 DEF FillOverLimit, Abort, AtField
<1>7. CASE MergeFill
  <2>1. fills' \in Seq(Nat)
    BY <1>7, RequestTypes DEF MergeFill
  <2> QED
    BY <1>7, <2>1, RequestTypes DEF MergeFill, Advance, AtField
<1>8. CASE MergeFillFails
  BY <1>8 DEF MergeFillFails, Abort, AtField
<1>9. CASE SkipEvent
  BY <1>9, RequestTypes DEF SkipEvent, Advance, AtField
<1>10. CASE SkipUnknown
  BY <1>10, RequestTypes DEF SkipUnknown, Advance, AtField
<1>11. CASE SkipFails
  BY <1>11 DEF SkipFails, Abort, decoder, AtField
<1>12. CASE EndOfPayload
  BY <1>12 DEF EndOfPayload, decoder
<1>13. CASE ReportFailure
  BY <1>13 DEF ReportFailure, Refuse, decoder, Errors
<1>14. CASE ReportMissingHeader
  BY <1>14 DEF ReportMissingHeader, Refuse, decoder, Errors
<1>15. CASE ReturnBlock
  BY <1>15 DEF ReturnBlock, decoder, Decoded
<1>16. CASE UNCHANGED vars
  BY <1>16 DEF vars
<1> QED
  BY <1>1, <1>2, <1>3, <1>4, <1>5, <1>6, <1>7, <1>8, <1>9, <1>10, <1>11, <1>12,
     <1>13, <1>14, <1>15, <1>16 DEF Next

(* The decoder's state while nothing has gone wrong, step by step: the number   *)
(* of bodies attempted is the number of fills kept, and it is what the payload  *)
(* holds.                                                                       *)
LEMMA AttemptsStep == IInv /\ [Next]_vars => AttemptsBounded'
<1> SUFFICES ASSUME IInv, [Next]_vars PROVE AttemptsBounded'
  OBVIOUS
<1> USE DEF IInv, AttemptsBounded
<1>1. /\ Len(fills) \in Nat /\ attempts \in Nat /\ request.limits.max_fills \in Nat
      /\ fills \in Seq(Nat) /\ pos \in Nat
  BY RequestTypes DEF TypeOK
<1>2. CASE MergeFill
  BY <1>1, <1>2 DEF MergeFill, Advance, AtField, FillsFull, Progress
<1>3. CASE MergeFillFails
  BY <1>1, <1>3 DEF MergeFillFails, Abort, AtField, FillsFull, Progress
<1>4. ASSUME UNCHANGED <<request, fills, attempts>> PROVE AttemptsBounded'
  BY <1>4
<1>5. CASE ~(MergeFill \/ MergeFillFails)
  <2>1. UNCHANGED <<request, fills, attempts>>
    BY <1>5 DEF Next, vars, decoder, Refuse, Advance, Abort, RejectBounds, RejectBytes,
       StartMerge, MergeHeader, MergeHeaderFails, FillOverLimit, SkipEvent, SkipUnknown,
       SkipFails, EndOfPayload, ReportFailure, ReportMissingHeader, ReturnBlock
  <2> QED
    BY <1>4, <2>1
<1> QED
  BY <1>2, <1>3, <1>5

(* While no field has been read the decoder holds the contents of nothing.      *)
LEMMA PrefixStart ==
    ASSUME TypeOK, pos = 1, header = NoHeader, fills = <<>>, events = 0, unknown = 0
    PROVE  /\ IsContents(request.wire, pos - 1, header.from, fills, events, unknown)
           /\ header.present <=> Positions(request.wire, "block_header", pos - 1) # {}
           /\ Len(fills) = Cardinality(Positions(request.wire, "fills", pos - 1))
<1>1. \A tag : /\ Positions(request.wire, tag, 0) = {}
               /\ Cardinality(Positions(request.wire, tag, 0)) = 0
  BY RequestTypes, NoPositions
<1>2. KeepsHeader(request.wire, 0, header.from)
  BY <1>1 DEF KeepsHeader, Setters, NoHeader
<1>3. KeepsFills(request.wire, 0, fills)
  BY <1>1 DEF KeepsFills
<1> QED
  BY <1>1, <1>2, <1>3 DEF IsContents, NoHeader

(* Comparing the vector's length with the limit decides what Verdict says of  *)
(* the field: the fills kept are all the fills before it.                       *)
LEMMA FullMeansOverLimit ==
    ASSUME IInv, pc = "merge", pos <= Len(request.wire)
    PROVE  OverLimit(request, pos) <=> (field.tag = "fills" /\ FillsFull)
<1>1. Len(fills) = Cardinality(Positions(request.wire, "fills", pos - 1))
  BY DEF IInv, Progress, Positions
<1>2. Len(fills) \in Nat /\ request.limits.max_fills \in Nat
  BY RequestTypes DEF IInv, TypeOK
<1> QED
  BY <1>1, <1>2 DEF OverLimit, field, FillsFull

(* Steps that read one more field.                                              *)
Reads == MergeHeader \/ MergeFill \/ SkipEvent \/ SkipUnknown

LEMMA ReadsContinue ==
    ASSUME IInv, Reads
    PROVE  /\ pc = "merge" /\ pc' = "merge" /\ pos' = pos + 1 /\ request' = request
           /\ pos \in 1 .. Len(request.wire)
           /\ ~Stops(request, pos)
<1>1. /\ pc = "merge" /\ pc' = "merge" /\ pos' = pos + 1 /\ request' = request
      /\ pos <= Len(request.wire)
      /\ field.framed
      /\ field.tag # "bad_key"
      /\ field.tag \in {"block_header", "fills"} => field.valid
      /\ field.tag = "fills" => ~FillsFull
  BY DEF Reads, MergeHeader, MergeFill, SkipEvent, SkipUnknown, AtField, Advance
<1>2. ~OverLimit(request, pos)
  BY <1>1, FullMeansOverLimit
<1>3. ~Malformed(request.wire[pos])
  BY <1>1 DEF Malformed, field
<1>4. pos \in 1 .. Len(request.wire)
  BY <1>1 DEF IInv, TypeOK
<1> QED
  BY <1>1, <1>2, <1>3, <1>4 DEF Stops

LEMMA ReadsKeepPrefix ==
    ASSUME IInv, Reads
    PROVE  /\ IsContents(request.wire, pos, header'.from, fills', events', unknown')
           /\ header'.present <=> Positions(request.wire, "block_header", pos) # {}
           /\ Len(fills') = Cardinality(Positions(request.wire, "fills", pos))
<1> DEFINE wire == request.wire
           n == pos - 1
<1>1. /\ n \in Nat /\ n < Len(wire) /\ n + 1 = pos /\ wire \in Seq(WireField)
      /\ fills \in Seq(Nat) /\ events \in Nat /\ unknown \in Nat
      /\ header \in [present : BOOLEAN, from : [HeaderFields -> Nat]]
  BY ReadsContinue, RequestTypes DEF IInv, TypeOK
<1>2. /\ KeepsHeader(wire, n, header.from)
      /\ KeepsFills(wire, n, fills)
      /\ events = Cardinality(Positions(wire, "events", n))
      /\ unknown = Cardinality(Positions(wire, "unknown", n))
      /\ Len(fills) = Cardinality(Positions(wire, "fills", n))
      /\ header.present <=> Positions(wire, "block_header", n) # {}
  BY ReadsContinue DEF IInv, DecodesPrefix, IsContents, Progress
<1> HIDE DEF wire, n
<1>3. CASE wire[pos].tag = "block_header"
  <2>1. /\ header' = MergedHeader(header, wire[pos].sets, pos)
        /\ fills' = fills /\ events' = events /\ unknown' = unknown
    BY <1>3 DEF Reads, MergeHeader, MergeFill, SkipEvent, SkipUnknown, AtField, field, wire
  <2>2. KeepsHeader(wire, pos, header'.from)
    BY <1>1, <1>2, <1>3, <2>1, HeaderKept
  <2>3. header'.present /\ Positions(wire, "block_header", pos) # {}
    BY <1>1, <1>3, <2>1, PositionsStep DEF MergedHeader, Tags
  <2>4. KeepsFills(wire, pos, fills')
    BY <1>1, <1>2, <1>3, <2>1, OthersKept
  <2>5. /\ events' = Cardinality(Positions(wire, "events", pos))
        /\ unknown' = Cardinality(Positions(wire, "unknown", pos))
        /\ Len(fills') = Cardinality(Positions(wire, "fills", pos))
    BY <1>1, <1>2, <1>3, <2>1, CountStep DEF Tags
  <2> QED
    BY <2>2, <2>3, <2>4, <2>5 DEF IsContents, wire
<1>4. CASE wire[pos].tag = "fills"
  <2>1. /\ fills' = Append(fills, pos)
        /\ header' = header /\ events' = events /\ unknown' = unknown
    BY <1>4 DEF Reads, MergeHeader, MergeFill, SkipEvent, SkipUnknown, AtField, field, wire
  <2>2. KeepsFills(wire, pos, fills')
    BY <1>1, <1>2, <1>4, <2>1, FillKept
  <2>3. KeepsHeader(wire, pos, header'.from)
    BY <1>1, <1>2, <1>4, <2>1, OthersKept
  <2>4. /\ events' = Cardinality(Positions(wire, "events", pos))
        /\ unknown' = Cardinality(Positions(wire, "unknown", pos))
        /\ Cardinality(Positions(wire, "fills", pos)) = Cardinality(Positions(wire, "fills", n)) + 1
    BY <1>1, <1>2, <1>4, <2>1, CountStep DEF Tags
  <2>5. Len(fills') = Len(fills) + 1
    BY <1>1, <2>1
  <2>6. header'.present <=> Positions(wire, "block_header", pos) # {}
    BY <1>1, <1>2, <1>4, <2>1, PositionsStep DEF Tags
  <2> QED
    BY <1>2, <2>2, <2>3, <2>4, <2>5, <2>6 DEF IsContents, wire
<1>5. CASE wire[pos].tag \notin {"block_header", "fills"}
  <2>1. /\ fills' = fills /\ header' = header
        /\ wire[pos].tag = "events" => events' = events + 1 /\ unknown' = unknown
        /\ wire[pos].tag = "unknown" => events' = events /\ unknown' = unknown + 1
        /\ wire[pos].tag \in {"events", "unknown"}
    BY <1>5 DEF Reads, MergeHeader, MergeFill, SkipEvent, SkipUnknown, AtField, field, wire
  <2>2. KeepsFills(wire, pos, fills') /\ KeepsHeader(wire, pos, header'.from)
    BY <1>1, <1>2, <1>5, <2>1, OthersKept
  <2>3. /\ events' = Cardinality(Positions(wire, "events", pos))
        /\ unknown' = Cardinality(Positions(wire, "unknown", pos))
        /\ Len(fills') = Cardinality(Positions(wire, "fills", pos))
    BY <1>1, <1>2, <1>5, <2>1, CountStep DEF Tags
  <2>4. header'.present <=> Positions(wire, "block_header", pos) # {}
    BY <1>1, <1>2, <1>5, <2>1, PositionsStep DEF Tags
  <2> QED
    BY <2>2, <2>3, <2>4 DEF IsContents, wire
<1> QED
  BY <1>3, <1>4, <1>5

(* Steps on which a field stops the loop.                                       *)
Fails == MergeHeaderFails \/ FillOverLimit \/ MergeFillFails \/ SkipFails

LEMMA FailsStop ==
    ASSUME IInv, Fails
    PROVE  /\ pc = "merge" /\ pc' = "failed"
           /\ UNCHANGED <<request, pos, fills, status, decoded>>
           /\ pos <= Len(request.wire)
           /\ FirstStop(request, pos)
           /\ capacity' <=> OverLimit(request, pos)
<1>1. /\ pc = "merge" /\ pc' = "failed"
      /\ UNCHANGED <<request, pos, fills, status, decoded>>
      /\ pos <= Len(request.wire)
  BY DEF Fails, MergeHeaderFails, FillOverLimit, MergeFillFails, SkipFails, AtField,
     Abort, decoder
<1>2. capacity' <=> (field.tag = "fills" /\ FillsFull)
  <2>1. ~capacity
    BY <1>1 DEF IInv, Progress
  <2> QED
    BY <2>1 DEF Fails, MergeHeaderFails, FillOverLimit, MergeFillFails, SkipFails,
       AtField, decoder, IInv, TypeOK
<1>3. capacity' <=> OverLimit(request, pos)
  BY <1>1, <1>2, FullMeansOverLimit
<1>4. capacity' \/ Malformed(field)
  BY DEF Fails, MergeHeaderFails, FillOverLimit, MergeFillFails, SkipFails, AtField,
     Malformed
<1>5. Stops(request, pos)
  BY <1>3, <1>4 DEF Stops, field
<1>6. \A i \in 1 .. pos - 1 : ~Stops(request, i)
  BY <1>1 DEF IInv, DecodesPrefix
<1> QED
  BY <1>1, <1>3, <1>5, <1>6 DEF FirstStop

(* Every other step, and the ones it ends in.                                   *)
Ends == RejectBounds \/ RejectBytes \/ ReportFailure \/ ReportMissingHeader \/ ReturnBlock

LEMMA EndsReturn == ASSUME Ends PROVE pc' = "returned" /\ request' = request
  BY DEF Ends, RejectBounds, RejectBytes, ReportFailure, ReportMissingHeader, ReturnBlock,
     Refuse

LEMMA NextCases ==
    Next <=> (Ends \/ StartMerge \/ Reads \/ Fails \/ EndOfPayload)
  BY DEF Next, Ends, Reads, Fails

(* The loop invariant: reading a field that does not stop the loop extends the  *)
(* contents by that field.                                                      *)
LEMMA PrefixStep == IInv /\ TypeOK' /\ [Next]_vars => DecodesPrefix' /\ Progress'
<1> SUFFICES ASSUME IInv, TypeOK', [Next]_vars PROVE DecodesPrefix' /\ Progress'
  OBVIOUS
<1>1. CASE Ends
  BY <1>1, EndsReturn DEF DecodesPrefix, Progress
<1>2. CASE StartMerge
  <2>1. /\ pc = "check" /\ pc' = "merge"
        /\ BoundsAccepted(request.limits) /\ request.bytes <= request.limits.max_block_bytes
        /\ UNCHANGED <<request, pos, header, fills, attempts, capacity, events, unknown>>
    BY <1>2 DEF StartMerge, decoder
  <2>2. /\ pos = 1 /\ header = NoHeader /\ fills = <<>> /\ events = 0 /\ unknown = 0
        /\ ~capacity /\ attempts = Len(fills)
    BY <2>1 DEF IInv, Progress
  <2>3. /\ IsContents(request.wire, pos - 1, header.from, fills, events, unknown)
        /\ header.present <=> Positions(request.wire, "block_header", pos - 1) # {}
        /\ Len(fills) = Cardinality(Positions(request.wire, "fills", pos - 1))
    BY <2>2, PrefixStart DEF IInv
  <2>4. DecodesPrefix'
    BY <2>1, <2>2, <2>3 DEF DecodesPrefix
  <2> QED
    BY <2>1, <2>2, <2>3, <2>4 DEF Progress
<1>3. CASE Reads
  <2>1. /\ pc' = "merge" /\ pos' = pos + 1 /\ request' = request /\ pos \in Nat
        /\ ~Stops(request, pos)
    BY <1>3, ReadsContinue, RequestTypes DEF IInv
  <2>2. pos' - 1 = pos
    BY <2>1
  <2>3. /\ IsContents(request'.wire, pos' - 1, header'.from, fills', events', unknown')
        /\ header'.present <=> Positions(request'.wire, "block_header", pos' - 1) # {}
        /\ Len(fills') = Cardinality(Positions(request'.wire, "fills", pos' - 1))
    BY <1>3, <2>1, <2>2, ReadsKeepPrefix
  <2>4. \A i \in 1 .. pos' - 1 : ~Stops(request', i)
    <3>1. \A i \in 1 .. pos - 1 : ~Stops(request, i)
      BY <1>3, ReadsContinue DEF IInv, DecodesPrefix
    <3> QED
      BY <2>1, <3>1
  <2>5. DecodesPrefix'
    BY <2>3, <2>4 DEF DecodesPrefix
  <2>6. /\ BoundsAccepted(request'.limits)
        /\ request'.bytes <= request'.limits.max_block_bytes
    BY <1>3, <2>1, ReadsContinue DEF IInv, Progress
  <2>7. ~capacity' /\ attempts' = Len(fills')
    <3>1. ~capacity /\ attempts = Len(fills) /\ fills \in Seq(Nat)
      BY <1>3, ReadsContinue DEF IInv, Progress, TypeOK
    <3> QED
      BY <1>3, <3>1 DEF Reads, MergeHeader, MergeFill, SkipEvent, SkipUnknown
  <2> QED
    BY <2>1, <2>3, <2>5, <2>6, <2>7 DEF Progress
<1>4. CASE Fails
  <2>1. DecodesPrefix'
    BY <1>4, FailsStop DEF DecodesPrefix
  <2>2. /\ BoundsAccepted(request.limits)
        /\ request.bytes <= request.limits.max_block_bytes
        /\ Len(fills) = Cardinality(Positions(request.wire, "fills", pos - 1))
    BY <1>4, FailsStop DEF IInv, Progress
  <2> QED
    BY <1>4, <2>1, <2>2, FailsStop DEF Progress
<1>5. CASE EndOfPayload
  <2>1. /\ pc = "merge" /\ pc' = "merged" /\ pos > Len(request.wire)
        /\ UNCHANGED <<request, pos, header, fills, attempts, capacity, events, unknown>>
    BY <1>5 DEF EndOfPayload, decoder
  <2>2. pos = Len(request.wire) + 1
    BY <2>1, RequestTypes DEF IInv, TypeOK
  <2> QED
    BY <2>1, <2>2 DEF IInv, DecodesPrefix, Progress
<1>6. CASE UNCHANGED vars
  BY <1>6 DEF vars, IInv, DecodesPrefix, Progress
<1> QED
  BY <1>1, <1>2, <1>3, <1>4, <1>5, <1>6, NextCases

-------------------------------------------------------------------------------
(* The results.                                                                 *)

LEMMA Invariance == Spec => []IInv
<1>1. IInv /\ [Next]_vars => IInv'
  BY TypeStep, AttemptsStep, PrefixStep DEF IInv
<1> QED
  BY <1>1, InitIInv, PTL DEF Spec

(* Types, and no result with an error: for every payload, limit and ceiling.    *)
THEOREM TypeCorrect == Spec => []TypeOK
  BY Invariance, PTL DEF IInv

(* The generated decoder never runs on more fill bodies than max_fills.         *)
THEOREM AttemptsAreBounded == Spec => []AttemptsBounded
  BY Invariance, PTL DEF IInv

(* The loop invariant: the decoder always holds an ordinary decoding of what it *)
(* has read.                                                                    *)
THEOREM PrefixIsDecoded == Spec => []DecodesPrefix
  BY Invariance, PTL DEF IInv

(* The step that returns gives the verdict on the whole payload, and with Ok    *)
(* the whole of its contents.                                                   *)
LEMMA EndsAnswer ==
    ASSUME IInv, Ends
    PROVE  /\ status = "pending" /\ request' = request
           /\ status' = Verdict(request)
           /\ IF status' = "Ok"
                 THEN \E d \in decoded' : decoded' = {d} /\ Complete(request, d)
                 ELSE decoded' = {}
<1>1. status = "pending" /\ request' = request /\ decoded = {}
  BY EndsReturn DEF IInv, TypeOK, Ends, RejectBounds, RejectBytes, ReportFailure,
     ReportMissingHeader, ReturnBlock
<1>2. CASE RejectBounds
  <2>1. /\ ~BoundsAccepted(request.limits)
        /\ status' = "InvalidBounds" /\ decoded' = {}
    BY <1>1, <1>2 DEF RejectBounds, Refuse
  <2> QED
    BY <1>1, <2>1 DEF Verdict
<1>3. CASE RejectBytes
  <2>1. /\ BoundsAccepted(request.limits)
        /\ request.bytes > request.limits.max_block_bytes
        /\ status' = "Capacity" /\ decoded' = {}
    BY <1>1, <1>3 DEF RejectBytes, Refuse
  <2> QED
    BY <1>1, <2>1 DEF Verdict
<1>4. ASSUME pc \in {"merged", "failed"}
      PROVE  /\ BoundsAccepted(request.limits)
             /\ ~(request.bytes > request.limits.max_block_bytes)
  <2>1. request.bytes \in Nat /\ request.limits.max_block_bytes \in Nat
    BY RequestTypes DEF IInv, Request, Limits
  <2> QED
    BY <1>4, <2>1 DEF IInv, Progress
<1>5. CASE ReportFailure
  <2>1. /\ pc = "failed" /\ decoded' = {}
        /\ status' = IF capacity THEN "Capacity" ELSE "Encoding"
    BY <1>1, <1>5 DEF ReportFailure, Refuse
  <2>2. /\ pos \in DOMAIN request.wire
        /\ FirstStop(request, pos)
        /\ capacity <=> OverLimit(request, pos)
    BY <2>1, RequestTypes DEF IInv, Progress
  <2>3. \A i \in DOMAIN request.wire : FirstStop(request, i) => i = pos
    BY <2>2, RequestTypes DEF FirstStop, IInv
  <2>4. Stops(request, pos)
    BY <2>2 DEF FirstStop
  <2>5. CASE capacity
    BY <1>1, <1>4, <2>1, <2>2, <2>5 DEF Verdict
  <2>6. CASE ~capacity
    <3>1. ~\E i \in DOMAIN request.wire : FirstStop(request, i) /\ OverLimit(request, i)
      BY <2>2, <2>3, <2>6
    <3> QED
      BY <1>1, <1>4, <2>1, <2>2, <2>4, <2>6, <3>1 DEF Verdict
  <2> QED
    BY <2>5, <2>6
<1>6. CASE ReportMissingHeader \/ ReturnBlock
  <2>1. pc = "merged" /\ pos - 1 = Len(request.wire)
    BY <1>6, RequestTypes DEF ReportMissingHeader, ReturnBlock, IInv, Progress
  <2>2. /\ IsContents(request.wire, Len(request.wire), header.from, fills, events, unknown)
        /\ header.present <=> Positions(request.wire, "block_header", Len(request.wire)) # {}
        /\ \A i \in 1 .. Len(request.wire) : ~Stops(request, i)
    BY <2>1 DEF IInv, DecodesPrefix
  <2>3. \A i \in DOMAIN request.wire : ~Stops(request, i) /\ ~FirstStop(request, i)
    BY <2>2, RequestTypes DEF FirstStop, IInv
  <2>4. Verdict(request) = IF header.present THEN "Ok" ELSE "MissingHeader"
    BY <1>4, <2>1, <2>2, <2>3 DEF Verdict
  <2>5. CASE ReportMissingHeader
    BY <1>1, <2>4, <2>5 DEF ReportMissingHeader, Refuse
  <2>6. CASE ReturnBlock
    <3> DEFINE d == [header |-> header.from, fills |-> fills,
                     events |-> events, unknown |-> unknown]
    <3>1. header.present /\ status' = "Ok" /\ decoded' = {d}
      BY <2>6 DEF ReturnBlock
    <3>2. Complete(request, d)
      BY <2>2 DEF Complete
    <3> QED
      BY <1>1, <2>4, <3>1, <3>2
  <2> QED
    BY <1>6, <2>5, <2>6
<1> QED
  BY <1>2, <1>3, <1>5, <1>6 DEF Ends

(* fills() implements the contract of AtomicCall: each request gets the verdict *)
(* on its payload as a whole and, when it is Ok, all of its contents.           *)
THEOREM Refinement == Spec => Implements
<1>1. Init => Promise!Init
  BY DEF Init, Promise!Init
<1>2. IInv /\ [Next]_vars => [Promise!Answer]_<<request, status, decoded>>
  <2> SUFFICES ASSUME IInv, [Next]_vars, ~UNCHANGED <<request, status, decoded>>
               PROVE  Promise!Answer
    OBVIOUS
  <2>1. CASE Ends
    BY <2>1, EndsAnswer DEF Promise!Answer
  <2>2. CASE StartMerge \/ Reads \/ Fails \/ EndOfPayload
    <3>1. UNCHANGED <<request, status, decoded>>
      BY <2>2 DEF StartMerge, EndOfPayload, Reads, MergeHeader, MergeFill, SkipEvent,
         SkipUnknown, Fails, MergeHeaderFails, FillOverLimit, MergeFillFails, SkipFails,
         Advance, Abort
    <3> QED
      BY <3>1
  <2>3. CASE UNCHANGED vars
    BY <2>3 DEF vars
  <2> QED
    BY <2>1, <2>2, <2>3, NextCases
<1> QED
  BY <1>1, <1>2, Invariance, PTL DEF Spec, Implements, Promise!Spec

(* The field behind an Encoding error is malformed; under Ok no field is.       *)
Blame ==
    /\ status = "Encoding" => \E i \in DOMAIN request.wire : Malformed(request.wire[i])
    /\ status = "Ok" => \A i \in DOMAIN request.wire : ~Malformed(request.wire[i])

LEMMA BlameStep == IInv /\ Blame /\ [Next]_vars => Blame'
<1> SUFFICES ASSUME IInv, Blame, [Next]_vars PROVE Blame'
  OBVIOUS
<1>1. CASE RejectBounds \/ RejectBytes \/ ReportMissingHeader
  BY <1>1 DEF Blame, RejectBounds, RejectBytes, ReportMissingHeader, Refuse
<1>2. CASE ReportFailure
  <2>1. /\ status' = IF capacity THEN "Capacity" ELSE "Encoding"
        /\ request' = request /\ pc = "failed"
    BY <1>2 DEF ReportFailure, Refuse
  <2>2. /\ pos \in DOMAIN request.wire
        /\ Stops(request, pos)
        /\ capacity <=> OverLimit(request, pos)
    BY <2>1, RequestTypes DEF IInv, Progress, FirstStop
  <2>3. ~capacity => Malformed(request.wire[pos])
    BY <2>2 DEF Stops
  <2> QED
    BY <2>1, <2>2, <2>3 DEF Blame
<1>3. CASE ReturnBlock
  <2>1. status' = "Ok" /\ request' = request /\ pc = "merged"
    BY <1>3 DEF ReturnBlock
  <2>2. \A i \in DOMAIN request.wire : ~Stops(request, i)
    BY <2>1, RequestTypes DEF IInv, Progress, DecodesPrefix
  <2> QED
    BY <2>1, <2>2 DEF Blame, Stops
<1>4. CASE StartMerge \/ Reads \/ Fails \/ EndOfPayload \/ UNCHANGED vars
  <2>1. UNCHANGED <<request, status>>
    BY <1>4 DEF StartMerge, EndOfPayload, Reads, MergeHeader, MergeFill, SkipEvent,
       SkipUnknown, Fails, MergeHeaderFails, FillOverLimit, MergeFillFails, SkipFails,
       Advance, Abort, vars
  <2> QED
    BY <2>1 DEF Blame
<1> QED
  BY <1>1, <1>2, <1>3, <1>4, NextCases DEF Ends

(* The fill-only decoder and the generated one disagree only on event bodies.   *)
THEOREM AgreesWithGenerated == Spec => []GeneratedAgrees
<1>1. Init => Blame
  BY DEF Init, Blame
<1>2. IInv /\ Blame => GeneratedAgrees
  <2> SUFFICES ASSUME IInv, Blame PROVE GeneratedAgrees
    OBVIOUS
  <2>1. \A i \in DOMAIN request.wire : request.wire[i].tag \in Tags
    <3> SUFFICES ASSUME NEW i \in DOMAIN request.wire PROVE request.wire[i].tag \in Tags
      OBVIOUS
    <3>1. request.wire[i] \in WireField
      BY RequestTypes DEF IInv
    <3> QED
      BY <3>1 DEF WireField
  <2> QED
    BY <2>1 DEF Blame, GeneratedAgrees, GeneratedAccepts, Malformed, Tags
<1> QED
  BY <1>1, <1>2, BlameStep, Invariance, PTL DEF Spec
===============================================================================
