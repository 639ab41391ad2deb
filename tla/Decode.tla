-------------------------------- MODULE Decode --------------------------------
(* decode::fills and FillDecoder::merge_field (src/decode.rs): the bounded      *)
(* fill-only decoder.  Prost's merge loop reads the key of the next top-level   *)
(* field and hands the field to merge_field until the payload ends or a field   *)
(* fails; one action is one field.                                              *)
EXTENDS Wire

VARIABLES
    request,    \* the call: payload, its length in bytes, limits
    pc,         \* "check", "merge", "merged", "failed", "returned"
    pos,        \* the next top-level field
    header,     \* block.block_header: is it there, and the field that set each part
    fills,      \* block.fills: the fields they came from, in vector order
    attempts,   \* fill bodies handed to the generated decoder (history)
    capacity,   \* FillDecoder.capacity
    events,     \* FillDecoder.events
    unknown,    \* FillDecoder.unknown
    status,     \* "pending", "Ok" or the Error returned
    decoded     \* the DecodedFills returned, in a set: empty when there is none

decoder == <<header, fills, attempts, capacity, events, unknown>>
vars == <<request, pc, pos, header, fills, attempts, capacity, events, unknown, status, decoded>>

NoHeader == [present |-> FALSE, from |-> [f \in HeaderFields |-> 0]]

Errors == {"InvalidBounds", "Capacity", "Encoding", "MissingHeader"}

field == request.wire[pos]

BugMergedHeader(old, sets, from) ==        \* a later header replaces the first
    [present |-> TRUE, from |-> [f \in HeaderFields |-> IF f \in sets THEN from ELSE 0]]

(* Prost merges a repeated header field by field, its time as well: what the    *)
(* new message does not carry keeps the value an earlier one gave it.           *)
MergedHeader(old, sets, from) ==
    [present |-> TRUE,
     from |-> [f \in HeaderFields |-> IF f \in sets THEN from ELSE old.from[f]]]

Init ==
    /\ request \in Requests
    /\ pc = "check"
    /\ pos = 1
    /\ header = NoHeader
    /\ fills = <<>>
    /\ attempts = 0
    /\ capacity = FALSE
    /\ events = 0
    /\ unknown = 0
    /\ status = "pending"
    /\ decoded = {}

-------------------------------------------------------------------------------
(* The checks on the call, before a byte is read.                               *)

BugRefuse(error) ==                        \* the fills decoded so far are returned
    /\ pc' = "returned"
    /\ status' = error
    /\ decoded' = {[header |-> header.from, fills |-> fills,
                     events |-> events, unknown |-> unknown]}
    /\ UNCHANGED <<request, pos, decoder>>

Refuse(error) ==
    /\ pc' = "returned"
    /\ status' = error
    /\ UNCHANGED <<request, pos, decoder, decoded>>

RejectBounds ==
    /\ pc = "check"
    /\ ~BoundsAccepted(request.limits)
    /\ Refuse("InvalidBounds")

RejectBytes ==
    /\ pc = "check"
    /\ BoundsAccepted(request.limits)
    /\ request.bytes > request.limits.max_block_bytes
    /\ Refuse("Capacity")

StartMerge ==
    /\ pc = "check"
    /\ BoundsAccepted(request.limits)
    /\ request.bytes <= request.limits.max_block_bytes
    /\ pc' = "merge"
    /\ UNCHANGED <<request, pos, decoder, status, decoded>>

-------------------------------------------------------------------------------
(* One step of the merge loop.                                                  *)

AtField(tag) ==
    /\ pc = "merge"
    /\ pos <= Len(request.wire)
    /\ field.tag = tag

Advance ==
    /\ pos' = pos + 1
    /\ UNCHANGED <<request, pc, status, decoded>>

(* An Err of merge_field leaves the loop at once.                               *)
Abort ==
    /\ pc' = "failed"
    /\ UNCHANGED <<request, pos, status, decoded>>

BugFillsFull == Len(fills) > request.limits.max_fills      \* one fill too many

FillsFull == Len(fills) >= request.limits.max_fills

MergeHeader ==
    /\ AtField("block_header")
    /\ field.framed /\ field.valid
    /\ header' = MergedHeader(header, field.sets, pos)
    /\ Advance
    /\ UNCHANGED <<fills, attempts, capacity, events, unknown>>

(* A header that fails has already been created and partly merged.              *)
MergeHeaderFails ==
    /\ AtField("block_header")
    /\ ~(field.framed /\ field.valid)
    /\ \E part \in SUBSET (IF field.framed THEN field.sets ELSE {}) :
          header' = MergedHeader(header, part, pos)
    /\ Abort
    /\ UNCHANGED <<fills, attempts, capacity, events, unknown>>

(* The count is checked first: the body, its framing and the vector are not     *)
(* touched when it is reached.                                                  *)
FillOverLimit ==
    /\ AtField("fills")
    /\ FillsFull
    /\ capacity' = TRUE
    /\ Abort
    /\ UNCHANGED <<header, fills, attempts, events, unknown>>

MergeFill ==
    /\ AtField("fills")
    /\ ~FillsFull
    /\ attempts' = attempts + 1
    /\ field.framed /\ field.valid
    /\ fills' = Append(fills, pos)
    /\ Advance
    /\ UNCHANGED <<header, capacity, events, unknown>>

MergeFillFails ==
    /\ AtField("fills")
    /\ ~FillsFull
    /\ attempts' = attempts + 1
    /\ ~(field.framed /\ field.valid)
    /\ Abort
    /\ UNCHANGED <<header, fills, capacity, events, unknown>>

SkipEvent ==
    /\ AtField("events")
    /\ field.framed
    /\ events' = events + 1
    /\ Advance
    /\ UNCHANGED <<header, fills, attempts, capacity, unknown>>

SkipUnknown ==
    /\ AtField("unknown")
    /\ field.framed
    /\ unknown' = unknown + 1
    /\ Advance
    /\ UNCHANGED <<header, fills, attempts, capacity, events>>

SkipFails ==
    /\ \/ (AtField("events") \/ AtField("unknown")) /\ ~field.framed
       \/ AtField("bad_key")
    /\ Abort
    /\ UNCHANGED decoder

EndOfPayload ==
    /\ pc = "merge"
    /\ pos > Len(request.wire)
    /\ pc' = "merged"
    /\ UNCHANGED <<request, pos, decoder, status, decoded>>

-------------------------------------------------------------------------------
(* The result.                                                                  *)

BugReportFailure ==                        \* the capacity flag is not consulted
    /\ pc = "failed"
    /\ Refuse("Encoding")

ReportFailure ==
    /\ pc = "failed"
    /\ Refuse(IF capacity THEN "Capacity" ELSE "Encoding")

ReportMissingHeader ==
    /\ pc = "merged"
    /\ ~header.present
    /\ Refuse("MissingHeader")

BugReturnBlock ==                          \* a block without a header is returned
    /\ pc = "merged"
    /\ pc' = "returned"
    /\ status' = "Ok"
    /\ decoded' = {[header |-> header.from, fills |-> fills,
                     events |-> events, unknown |-> unknown]}
    /\ UNCHANGED <<request, pos, decoder>>

ReturnBlock ==
    /\ pc = "merged"
    /\ header.present
    /\ pc' = "returned"
    /\ status' = "Ok"
    /\ decoded' = {[header |-> header.from, fills |-> fills,
                     events |-> events, unknown |-> unknown]}
    /\ UNCHANGED <<request, pos, decoder>>

Next ==
    \/ RejectBounds \/ RejectBytes \/ StartMerge
    \/ MergeHeader \/ MergeHeaderFails
    \/ FillOverLimit \/ MergeFill \/ MergeFillFails
    \/ SkipEvent \/ SkipUnknown \/ SkipFails
    \/ EndOfPayload
    \/ ReportFailure \/ ReportMissingHeader \/ ReturnBlock

Spec == Init /\ [][Next]_vars

-------------------------------------------------------------------------------
(* Properties.                                                                  *)

Decoded == [header : [HeaderFields -> Nat], fills : Seq(Nat), events : Nat, unknown : Nat]

(* Types, and a call returns a block exactly when it returns Ok: an error never *)
(* carries the prefix decoded before it ("Never return a prefix", decode.rs).   *)
TypeOK ==
    /\ request \in Requests
    /\ pc \in {"check", "merge", "merged", "failed", "returned"}
    /\ pos \in 1 .. Len(request.wire) + 1
    /\ header \in [present : BOOLEAN, from : [HeaderFields -> Nat]]
    /\ fills \in Seq(Nat)
    /\ attempts \in Nat
    /\ capacity \in BOOLEAN
    /\ events \in Nat
    /\ unknown \in Nat
    /\ status \in {"pending", "Ok"} \cup Errors
    /\ decoded \in SUBSET Decoded
    /\ (status = "pending") <=> (pc # "returned")
    /\ (decoded # {}) <=> (status = "Ok")

(* The count is enforced before a fill body is decoded or the vector grows: no  *)
(* payload makes the generated decoder run on more than max_fills bodies, empty *)
(* or malformed ones included (the comment in merge_field).                     *)
AttemptsBounded ==
    /\ Len(fills) <= attempts
    /\ attempts > 0 => attempts <= request.limits.max_fills

Promise == INSTANCE AtomicCall WITH result <- decoded

(* While fields are merged the decoder holds what an ordinary decoding of the   *)
(* fields read so far would hold, duplicate headers included, and none of them  *)
(* was a reason to stop.                                                        *)
DecodesPrefix ==
    pc \in {"merge", "merged"} =>
        /\ IsContents(request.wire, pos - 1, header.from, fills, events, unknown)
        /\ header.present <=> Positions(request.wire, "block_header", pos - 1) # {}
        /\ \A i \in 1 .. pos - 1 : ~Stops(request, i)

(* The generated Block decoder, which also decodes every event body.            *)
GeneratedAccepts(wire) ==
    \A i \in DOMAIN wire :
        /\ wire[i].tag # "bad_key"
        /\ wire[i].framed
        /\ wire[i].tag # "unknown" => wire[i].valid

(* Encoding is never blamed on a payload the generated Block decoder accepts,   *)
(* and a payload admitted here that it refuses is refused for an event body.    *)
GeneratedAgrees ==
    /\ status = "Encoding" => ~GeneratedAccepts(request.wire)
    /\ status = "Ok" /\ ~GeneratedAccepts(request.wire) =>
          \E i \in DOMAIN request.wire :
              request.wire[i].tag = "events" /\ ~request.wire[i].valid

(* fills() keeps the promise of AtomicCall: one verdict, the first fault of the  *)
(* payload in field order, and on Ok the whole of its header and fills.         *)
Implements == Promise!Spec
===============================================================================
