---------------------------- MODULE OutcomePosition ----------------------------
(* state_user_outcome_position (clickhouse/schema.3.mv.state_user_outcome_      *)
(* position.sql): the open share balances of one user, rewritten every hour     *)
(* from all of outcome_fills, of which the sink may not have the beginning.     *)
(* Time is counted in hours.                                                    *)
EXTENDS Integers, Sequences, FiniteSets, SequencesExt, Replacing

CONSTANTS
    Legs,           \* (outcome_id, side_index) of one outcome
    TTLTicks,       \* TTL refresh_time + INTERVAL 3 HOUR
    MaxBefore,      \* bound: shares acquired before the sink's START_BLOCK
    MaxFills,       \* bound: fills the sink inserts
    MaxSize,        \* bound: shares of one fill
    LastTick,       \* bound: the end of time
    MaxMissed       \* bound: refreshes that fail

ASSUME BoundsAssumption ==
    /\ IsFiniteSet(Legs)
    /\ {MaxBefore, MaxFills, MaxSize, LastTick, MaxMissed} \subseteq Nat

(* A row outlives the refresh after next.                                       *)
ASSUME TTLAssumption == TTLTicks \in Nat /\ TTLTicks > 2

VARIABLES
    now,
    before,     \* shares of each leg held when the sink's history begins
    held,       \* shares of each leg held on the chain
    pending,    \* blocks the sink has not inserted yet, each a sequence of fills
    fills,      \* outcome_fills of the user
    rows,       \* the table: a set of [key, share_balance, refresh_time], a leg the key
    due,        \* is the hourly refresh due?
    read,       \* how many fills the last successful refresh read (history)
    missed      \* failed refreshes (history)

vars == <<now, before, held, pending, fills, rows, due, read, missed>>
table == <<fills, rows, due, read, missed>>

Fill == [leg : Legs, side : {"BID", "ASK"}, size : 1 .. MaxSize]

BugSigned(fill) == fill.size            \* releases are added as well

(* if(side = 'BID', size, -size).                                               *)
Signed(fill) == IF fill.side = "BID" THEN fill.size ELSE -fill.size

(* sum(...).                                                                   *)
Total(numbers) ==
    LET sum[n \in 0 .. Len(numbers)] == IF n = 0 THEN 0 ELSE sum[n - 1] + numbers[n]
    IN  sum[Len(numbers)]

(* The sum of a leg over some fills.                                            *)
Balance(some, leg) ==
    Total([n \in 1 .. Len(some) |-> IF some[n].leg = leg THEN Signed(some[n]) ELSE 0])

Init ==
    /\ now = 0
    /\ before \in [Legs -> 0 .. MaxBefore]
    /\ held = before
    /\ pending = <<>>
    /\ fills = <<>>
    /\ rows = {}
    /\ due = TRUE
    /\ read = 0
    /\ missed = 0

(* What a fill does to the holdings of a leg.                                   *)
Acquired(fill, leg) ==
    IF fill.leg # leg THEN 0 ELSE IF fill.side = "BID" THEN fill.size ELSE -fill.size

(* The chain executes what the holdings allow and emits its fills in a block.   *)
Execute(block) ==
    /\ block # <<>>
    /\ Len(fills) + Len(FlattenSeq(pending)) + Len(block) <= MaxFills
    /\ held' = [leg \in Legs |->
                   held[leg] + Total([n \in 1 .. Len(block) |-> Acquired(block[n], leg)])]
    /\ \A leg \in Legs : held'[leg] >= 0
    /\ pending' = Append(pending, block)
    /\ UNCHANGED <<now, before, table>>

(* BUY and SELL touch one leg.                                                  *)
Trade == \E f \in Fill : Execute(<<f>>)

(* SPLIT_OUTCOME and MERGE_OUTCOME touch all legs of the outcome, ...           *)
Reshape ==
    \E side \in {"BID", "ASK"}, size \in 1 .. MaxSize :
        Execute(SetToSeq({[leg |-> leg, side |-> side, size |-> size] : leg \in Legs}))

(* ... SETTLEMENT releases every held leg.                                      *)
Settle ==
    Execute(SetToSeq({[leg |-> leg, side |-> "ASK", size |-> held[leg]] :
                          leg \in {l \in Legs : held[l] > 0}}))

Insert ==
    /\ pending # <<>>
    /\ fills' = fills \o Head(pending)
    /\ pending' = Tail(pending)
    /\ UNCHANGED <<now, before, held, rows, due, read, missed>>

(* GROUP BY leg HAVING share_balance > 0.                                       *)
Refresh ==
    /\ due
    /\ LET open == {leg \in Legs : Balance(fills, leg) > 0}
           new == { [key |-> leg, share_balance |-> Balance(fills, leg), refresh_time |-> now] :
                        leg \in open }
       IN  rows' = Appended(rows, new)
    /\ due' = FALSE
    /\ read' = Len(fills)
    /\ UNCHANGED <<now, before, held, pending, fills, missed>>

(* A refresh that fails or exceeds max_execution_time inserts nothing.          *)
Miss ==
    /\ due
    /\ missed < MaxMissed
    /\ missed' = missed + 1
    /\ due' = FALSE
    /\ UNCHANGED <<now, before, held, pending, fills, rows, read>>

Expire ==
    \E r \in rows :
        /\ IsExpired(r, TTLTicks, now)
        /\ rows' = rows \ {r}
        /\ UNCHANGED <<now, before, held, pending, fills, due, read, missed>>

Tick ==
    /\ now < LastTick
    /\ ~due
    /\ now' = now + 1
    /\ due' = TRUE
    /\ UNCHANGED <<before, held, pending, fills, rows, read, missed>>

Next == Trade \/ Reshape \/ Settle \/ Insert \/ Refresh \/ Miss \/ Expire \/ Tick

Spec == Init /\ [][Next]_vars

--------------------------------------------------------------------------------

TypeOK ==
    /\ now \in 0 .. LastTick
    /\ before \in [Legs -> Nat] /\ held \in [Legs -> Nat]
    /\ \A n \in DOMAIN fills : fills[n].leg \in Legs /\ fills[n].size > 0
    /\ \A r \in rows :
           /\ r.key \in Legs /\ r.share_balance > 0 /\ r.refresh_time \in 0 .. now
           /\ \A s \in rows : r.key = s.key => r = s
    /\ due \in BOOLEAN
    /\ read \in 0 .. Len(fills)
    /\ missed \in 0 .. MaxMissed

Read == SubSeq(fills, 1, read)

ShownBalance(leg) ==
    IF \E r \in rows : r.key = leg
    THEN (CHOOSE r \in rows : r.key = leg).share_balance ELSE 0

(* A position that was open when the table was last refreshed is in it, with    *)
(* the balance it had then, even if any one refresh fails, and with the whole   *)
(* history that is what the chain held once its blocks are inserted.            *)
OpenShown ==
    missed <= 1 =>
        \A leg \in Legs :
            /\ Balance(Read, leg) > 0 => ShownBalance(leg) = Balance(Read, leg)
            /\ before[leg] = 0 /\ pending = <<>> /\ read = Len(fills) /\ held[leg] > 0 =>
                   ShownBalance(leg) = held[leg]

(* "HAVING share_balance > 0 keeps only currently-open long positions" (the     *)
(* comment at the head of the file): a position that was closed when the table  *)
(* was last refreshed is not in it.                                             *)
OnlyOpen == \A r \in rows : Balance(Read, r.key) > 0
===============================================================================
