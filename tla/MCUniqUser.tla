------------------------------ MODULE MCUniqUser -------------------------------
(* Two users and one coin over 16 hours.  The calendar keeps its proportions:   *)
(* a refresh every 2 ticks and one every 12, rows that live 14, a window longer *)
(* than a bar and no multiple of the cadence; a bar of 4 ticks, so that the     *)
(* window's edge crosses it (a week's bar against 14 days).                     *)
EXTENDS UniqUser, TLC

CONSTANTS u1, u2

MCUsers == {u1, u2}
Symmetric == Permutations(MCUsers)

(* OHLCV fills (2:42, 7 hours), open interest (5:42, 7 hours), and liquidations *)
(* (no 6-hourly view and no window, 3 hours).                                   *)
FillsTable == {[window |-> 8, ttl |-> 14, alltime |-> 5]}
OpenInterest == {[window |-> 8, ttl |-> 14, alltime |-> 11]}
Liquidation == {[window |-> LastTick, ttl |-> 6, alltime |-> AlltimePeriod]}
AllTables == FillsTable \cup OpenInterest \cup Liquidation
===============================================================================
