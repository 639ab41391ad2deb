------------------------------- MODULE Delivery --------------------------------
(* What the sink and the tables it feeds promise to those who read the tables:  *)
(* blocks are delivered some routes at a time, in order but for repeats of what *)
(* is not yet saved, none is saved before it is everywhere its rows go, and a   *)
(* table always shows what its views would make at once of all that was         *)
(* delivered.  There are no batches here, no failures and no merges.            *)
EXTENDS Naturals, Sequences

CONSTANTS
    Chains,         \* by name: sequences of blocks
    MaxBatch,       \* the blocks that may be delivered before the first is saved
    Routes,         \* where rows go
    Source(_),      \* the route that one continues; a first one is its own
    HasRows(_, _, _),   \* has that block of that chain rows for that route?
    Shown(_, _)     \* the tables, from a chain and the copies delivered of its blocks

VARIABLES
    chain,
    cursor,         \* the blocks that are saved
    copies,         \* how often each block has been delivered along each route
    tables          \* as they are read

Blocks(size) == cursor + 1 .. cursor + size

Init ==
    /\ chain \in DOMAIN Chains
    /\ cursor = 0
    /\ copies = [r \in Routes |-> [n \in DOMAIN Chains[chain] |-> 0]]
    /\ tables = Shown(chain, copies)

(* Some routes get one more copy of the next blocks, the others nothing; and    *)
(* nothing comes along a route that has not come along its source.              *)
Deliver(size) ==
    /\ cursor + size <= Len(Chains[chain])
    /\ DOMAIN copies' = Routes
    /\ \A r \in Routes :
          copies'[r] \in {copies[r], [n \in DOMAIN copies[r] |->
                                         copies[r][n] + IF n \in Blocks(size) THEN 1 ELSE 0]}
    /\ \A r \in Routes :
          copies'[r] # copies[r] => copies'[Source(r)] # copies[Source(r)]
    /\ tables' = Shown(chain, copies')
    /\ UNCHANGED <<chain, cursor>>

Save(size) ==
    /\ cursor + size <= Len(Chains[chain])
    /\ \A r \in Routes : \A n \in Blocks(size) : HasRows(chain, r, n) => copies[r][n] > 0
    /\ cursor' = cursor + size
    /\ UNCHANGED <<chain, copies, tables>>

Next == \E size \in 1 .. MaxBatch : Deliver(size) \/ Save(size)

Spec == Init /\ [][Next]_<<chain, cursor, copies, tables>>
===============================================================================
