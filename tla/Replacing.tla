------------------------------- MODULE Replacing -------------------------------
(* A table ENGINE = ReplacingMergeTree(refresh_time) with TTL refresh_time +    *)
(* INTERVAL ..., read with FINAL: the common store of the refreshable views of  *)
(* clickhouse/schema.3 and schema.4.  A row has a key (its ORDER BY columns)    *)
(* and a refresh_time; what the table holds is what FINAL shows of it, the      *)
(* newest row of every key.  (A row hidden by a newer one could show again only *)
(* after the newer one had expired; it is older and expires before it.)         *)
EXTENDS Naturals

BugAppended(old, new) ==        \* the last row inserted wins
    new \cup {r \in old : \A s \in new : s.key # r.key}

BugMergeTree(old, new) == old \cup new      \* the engine without Replacing

(* Rows are appended: the newest wins, whichever view wrote it and whenever it  *)
(* was inserted.                                                                *)
Appended(old, new) ==
    LET both == old \cup new
    IN  {r \in both : \A s \in both : s.key = r.key => s.refresh_time <= r.refresh_time}

BugIsExpired(r, ttl, tick) ==   \* half the time to live
    r.refresh_time + ttl \div 2 <= tick

(* A merge may drop the row from this tick on, at once or much later.           *)
IsExpired(r, ttl, tick) == r.refresh_time + ttl <= tick
===============================================================================
