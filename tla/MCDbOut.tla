------------------------------- MODULE MCDbOut --------------------------------
(* Blocks of up to two events over a stride of three.  Lists of parts and of    *)
(* bodies stop at, and go one over, the stride; names of coins fall on both     *)
(* sides of each test of parse_outcome_coin.                                    *)
EXTENDS DbOut, SequencesExt

MCCoin(prefixed, digits, value) == [prefixed |-> prefixed, digits |-> digits, value |-> value]

MCFills ==
    { [coin |-> MCCoin(FALSE, FALSE, 0), liquidation |-> FALSE, hash |-> "h1"],
      [coin |-> MCCoin(TRUE, FALSE, 0), liquidation |-> TRUE, hash |-> "h1"],
      [coin |-> MCCoin(TRUE, TRUE, 12), liquidation |-> FALSE, hash |-> "h1"],
      [coin |-> MCCoin(TRUE, TRUE, 81), liquidation |-> TRUE, hash |-> "h1"],
      [coin |-> MCCoin(TRUE, TRUE, 71), liquidation |-> TRUE, hash |-> "h1"] }

MCBody(kind, parts, delta) == [kind |-> kind, parts |-> parts, delta |-> delta]

MCBodies ==
    { MCBody("delegations", 0, "none"), MCBody("funding_deltas", 1, "none"),
      MCBody("funding_deltas", Stride + 1, "none"), MCBody("none", 0, "none"),
      MCBody("ledger_update", 0, "ledger_sends"), MCBody("ledger_update", 0, "none") }

MCEvents ==
    [hash : {"h1"}, bodies : BoundedSeq(MCBodies, 2)] \cup
    [hash : Hashes, bodies : { [n \in 1 .. k |-> body] : k \in Stride .. Stride + 1,
        body \in {MCBody("delegations", 0, "none"), MCBody("validator_rewards", 2, "none"),
                   MCBody("ledger_update", 0, "ledger_sends")} }]

MCBlocks ==
    [fills : BoundedSeq(MCFills, 2), events : BoundedSeq(MCEvents, 1)] \cup
    [fills : BoundedSeq(MCFills, 0), events : BoundedSeq(MCEvents, 2)]
===============================================================================
