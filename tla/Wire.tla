--------------------------------- MODULE Wire ---------------------------------
(* The input of decode::fills (src/decode.rs): an encoded Firehose Block as the *)
(* sequence of its top-level wire fields, and the caller's Limits.              *)
(*                                                                              *)
(* A fill or a header field is identified by its position in the payload, so    *)
(* two decodings are equal exactly when they keep the same fields.  A position  *)
(* is never 0: 0 stands for "left at its default".                              *)
EXTENDS Naturals, Sequences, FiniteSets

CONSTANTS
    HeaderFields,   \* the scalars of BlockHeader: block_number, seconds and nanos of block_time
    Requests,       \* the calls considered: a payload and its limits
    BytesCeiling,   \* 64 MiB in the code: the largest max_block_bytes accepted
    FillsCeiling    \* 100_000 in the code: the largest max_fills accepted

(* "bad_key" is a field whose key does not decode; "unknown" every other tag.   *)
Tags == {"block_header", "fills", "events", "unknown", "bad_key"}

(* framed: the wire type is the expected one and the field ends within the      *)
(* payload; valid: the generated decoder accepts the body; sets: the header     *)
(* fields a block_header body carries.                                          *)
WireField == [tag : Tags, framed : BOOLEAN, valid : BOOLEAN, sets : SUBSET HeaderFields]

Limits == [max_block_bytes : Nat, max_fills : Nat]

Request == [wire : Seq(WireField), bytes : Nat, limits : Limits]

ASSUME RequestsAssumption == Requests \subseteq Request

BoundsAccepted(limits) ==
    /\ limits.max_block_bytes \in 1 .. BytesCeiling
    /\ limits.max_fills \in 1 .. FillsCeiling

(* The positions of the fields of one kind among the first n of the payload.    *)
Positions(wire, tag, n) == {i \in DOMAIN wire : i <= n /\ wire[i].tag = tag}

(* The first n fields, kept the way an ordinary decoding keeps them: every fill *)
(* in its order, ...                                                            *)
KeepsFills(wire, n, fills) ==
    /\ {fills[k] : k \in 1 .. Len(fills)} = Positions(wire, "fills", n)
    /\ \A j, k \in 1 .. Len(fills) : j < k => fills[j] < fills[k]

(* ... each header field from the last header that carries it ...               *)
Setters(wire, n, f) == {i \in Positions(wire, "block_header", n) : f \in wire[i].sets}

KeepsHeader(wire, n, header) ==
    \A f \in HeaderFields :
        /\ header[f] \in Setters(wire, n, f) \cup {0}
        /\ \A i \in Setters(wire, n, f) : i <= header[f]

(* ... and one count for the events and one for the unknown fields.             *)
IsContents(wire, n, header, fills, events, unknown) ==
    /\ KeepsHeader(wire, n, header)
    /\ KeepsFills(wire, n, fills)
    /\ events = Cardinality(Positions(wire, "events", n))
    /\ unknown = Cardinality(Positions(wire, "unknown", n))

-------------------------------------------------------------------------------
(* What fills() owes its caller, as a function of the payload alone.            *)

(* A fill that comes after the admitted number of them, valid or not.           *)
OverLimit(r, i) ==
    /\ r.wire[i].tag = "fills"
    /\ Cardinality(Positions(r.wire, "fills", i - 1)) >= r.limits.max_fills

(* Events and unknown fields are only framed: their bodies are never looked at. *)
Malformed(field) ==
    \/ field.tag = "bad_key"
    \/ ~field.framed
    \/ field.tag \in {"block_header", "fills"} /\ ~field.valid

Stops(r, i) == OverLimit(r, i) \/ Malformed(r.wire[i])

FirstStop(r, i) ==
    /\ Stops(r, i)
    /\ \A j \in 1 .. i - 1 : ~Stops(r, j)

(* The first reason to refuse decides; a fill over the limit is refused for the *)
(* limit even when it is malformed as well.                                     *)
Verdict(r) ==
    IF ~BoundsAccepted(r.limits) THEN "InvalidBounds"
    ELSE IF r.bytes > r.limits.max_block_bytes THEN "Capacity"
    ELSE IF \E i \in DOMAIN r.wire : FirstStop(r, i) /\ OverLimit(r, i) THEN "Capacity"
    ELSE IF \E i \in DOMAIN r.wire : Stops(r, i) THEN "Encoding"
    ELSE IF Positions(r.wire, "block_header", Len(r.wire)) = {} THEN "MissingHeader"
    ELSE "Ok"

Complete(r, d) ==
    IsContents(r.wire, Len(r.wire), d.header, d.fills, d.events, d.unknown)
===============================================================================
