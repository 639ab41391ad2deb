------------------------------ MODULE MCUserStats ------------------------------
(* One user, two coins on two dexes, over 15 hours of real time: the all-time   *)
(* refresh runs three times and the first rows of the source outlive one missed *)
(* run.  Fills come before and after the first all-time refresh (tick 5): one   *)
(* that just misses it waits for the second.  Intervals of one hour and three.  *)
EXTENDS UserStats

MCDexOf == [coin \in Coins |-> IF coin = "BTC" THEN "perps" ELSE "outcome"]
===============================================================================
