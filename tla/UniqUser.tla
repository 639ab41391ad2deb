------------------------------- MODULE UniqUser --------------------------------
(* The distinct users of every bar of a coin (clickhouse/schema.4.mv.state_     *)
(* ohlcv_fills_uniq_user.sql, ..._open_interest_uniq_user.sql, ..._ohlcv_       *)
(* liquidation_uniq_user.sql), rewritten by refreshable views that append to a  *)
(* ReplacingMergeTree(refresh_time): hourly from the rows of the last 14 days,  *)
(* and every 6 hours from all rows; the liquidation table hourly from all rows. *)
(*                                                                              *)
(* Time is counted in half hours: an even tick is the minute of the hourly      *)
(* refresh (:06, :48, :55), an odd tick the :42 of the other.  "Fills" are the  *)
(* rows of the source table that pass the WHERE of all the table's views.       *)
EXTENDS Naturals, FiniteSets, Replacing

CONSTANTS
    Users,
    BarTicks,       \* interval_min: the length of a bar
    Tables,         \* what a table's views say: [window, ttl, alltime]
    AlltimePeriod,  \* EVERY 6 HOUR
    MaxDelay,       \* how late the sink may insert a fill
    MaxFills,       \* bound: fills inserted
    LastFill,       \* bound: the latest fill_time
    LastTick,       \* bound: the end of time
    MaxMissed       \* bound: refreshes that fail, of either view

Bars == 0 .. LastFill \div BarTicks

(* window: the reach of the hourly view; ttl: TTL refresh_time + INTERVAL ...;  *)
(* alltime: the OFFSET of the 6-hourly views, AlltimePeriod if there is none.   *)
ASSUME TablesAssumption == \A t \in Tables : {t.window, t.ttl, t.alltime} \subseteq Nat

ASSUME BoundsAssumption ==
    /\ IsFiniteSet(Users)
    /\ BarTicks \in Nat \ {0}
    /\ LastTick \in Nat \ {0} /\ LastFill \in Nat /\ MaxMissed \in Nat

(* What the schema's numbers have in common: the two views never refresh at the *)
(* same minute, a row outlives two hourly refreshes and, if there is a 6-hourly *)
(* one, that and the half hour the next may take.                               *)
ASSUME CalendarAssumption ==
    /\ AlltimePeriod \in Nat \ {0} /\ AlltimePeriod % 2 = 0
    /\ \A t \in Tables :
          /\ t.ttl > 4
          /\ t.alltime < AlltimePeriod => t.alltime % 2 = 1 /\ t.ttl > AlltimePeriod + 1

VARIABLES
    table,      \* the table considered
    now,
    fills,      \* the source: who traded (or was funded) when, inserted when
    rows,       \* what the table holds: a set of [key, uniq_user, refresh_time], a bar the key
    due,        \* the views whose refresh is due and has not started
    running,    \* the refresh of the 6-hourly view under way: what it read, and when
    read_at,    \* when the last successful 6-hourly refresh started (history); 0: none
    missed      \* failed refreshes (history)

vars == <<table, now, fills, rows, due, running, read_at, missed>>

BarOf(time) == time \div BarTicks

(* uniqExact(user) GROUP BY bar, over the fills since a moment.                 *)
UsersOf(some, bar) == {f.user : f \in {g \in some : BarOf(g.time) = bar}}

Counted(some) ==
    { [key |-> bar, uniq_user |-> Cardinality(UsersOf(some, bar)), refresh_time |-> now] :
          bar \in {BarOf(f.time) : f \in some} }

Scheduled(tick) ==
    {v \in {"recent", "alltime"} :
        \/ v = "recent" /\ tick % 2 = 0
        \/ v = "alltime" /\ tick % AlltimePeriod = table.alltime}

Init ==
    /\ table \in Tables
    /\ now = 1
    /\ fills = {}
    /\ rows = {}
    /\ due = Scheduled(1)
    /\ running = {}
    /\ read_at = 0
    /\ missed = 0

(* The sink inserts the rows of a block some time after its fills were made.    *)
Ingest(user, time) ==
    /\ Cardinality(fills) < MaxFills
    /\ time <= LastFill /\ time <= now /\ now <= time + MaxDelay
    /\ fills' = fills \cup {[user |-> user, time |-> time, inserted |-> now]}
    /\ UNCHANGED <<table, now, rows, due, running, read_at, missed>>

(* fill_time >= now() - INTERVAL 14 DAY, if the view has a window.              *)
BugRecent == {f \in fills : f.time + table.window > now}     \* > for >=
Recent == {f \in fills : f.time + table.window >= now}

RefreshRecent ==
    /\ "recent" \in due
    /\ rows' = Appended(rows, Counted(Recent))
    /\ due' = due \ {"recent"}
    /\ UNCHANGED <<table, now, fills, running, read_at, missed>>

(* The 6-hourly view reads at its start and inserts when it ends, up to 25 or   *)
(* 40 minutes later; now() is the start.                                        *)
StartAlltime ==
    /\ "alltime" \in due
    /\ running' = {[at |-> now, read |-> Counted(fills)]}
    /\ due' = due \ {"alltime"}
    /\ UNCHANGED <<table, now, fills, rows, read_at, missed>>

FinishAlltime ==
    \E r \in running :
        /\ rows' = Appended(rows, r.read)
        /\ read_at' = r.at
        /\ running' = {}
        /\ UNCHANGED <<table, now, fills, due, missed>>

(* A refresh that exceeds max_execution_time, or whose server is down, leaves   *)
(* the table as it was until the next one.                                      *)
MissRecent ==
    /\ "recent" \in due
    /\ missed < MaxMissed
    /\ missed' = missed + 1
    /\ due' = due \ {"recent"}
    /\ UNCHANGED <<table, now, fills, rows, running, read_at>>

MissAlltime ==
    /\ running # {}
    /\ missed < MaxMissed
    /\ missed' = missed + 1
    /\ running' = {}
    /\ UNCHANGED <<table, now, fills, rows, due, read_at>>

Expire ==
    \E r \in rows :
        /\ IsExpired(r, table.ttl, now)
        /\ rows' = rows \ {r}
        /\ UNCHANGED <<table, now, fills, due, running, read_at, missed>>

(* A refresh starts at its minute and ends before the next tick but one.        *)
Tick ==
    /\ now < LastTick
    /\ due = {}
    /\ \A r \in running : r.at = now
    /\ now' = now + 1
    /\ due' = Scheduled(now')
    /\ UNCHANGED <<table, fills, rows, running, read_at, missed>>

Next ==
    \/ \E user \in Users, time \in 0 .. LastFill : Ingest(user, time)
    \/ RefreshRecent \/ StartAlltime \/ FinishAlltime
    \/ MissRecent \/ MissAlltime
    \/ Expire
    \/ Tick

Spec == Init /\ [][Next]_vars

--------------------------------------------------------------------------------

TypeOK ==
    /\ table \in Tables
    /\ now \in 1 .. LastTick
    /\ \A f \in fills :
           f.user \in Users /\ f.time \in 0 .. LastFill /\ f.inserted \in f.time .. now
    /\ \A r \in rows :
           /\ r.key \in Bars /\ r.uniq_user \in 1 .. Cardinality(Users)
           /\ r.refresh_time \in 1 .. now
           /\ \A s \in rows : r.key = s.key => r = s
    /\ due \subseteq Scheduled(now)
    /\ Cardinality(running) <= 1 /\ \A r \in running : r.at \in read_at + 1 .. now
    /\ missed \in 0 .. MaxMissed

(* How many users have traded in a bar, of the fills inserted before a tick.    *)
KnownUsers(bar, tick) == Cardinality(UsersOf({f \in fills : f.inserted < tick}, bar))

(* What readers of the table are told of a bar is at least this.                *)
ShowsAtLeast(bar, users) ==
    users > 0 => \E r \in rows : r.key = bar /\ r.uniq_user >= users

(* The tick of the last hourly refresh that has run.                            *)
LastHourly == IF "recent" \in due THEN now - 2 ELSE now - (now % 2)

(* A bar that still lies wholly in the reach of the hourly view counts, while   *)
(* no refresh fails, every user whose fill was inserted before the last hourly  *)
(* refresh, however the two views interleave: a 6-hourly refresh that read      *)
(* before that and ends after it must not bring back its older count.  If one   *)
(* refresh fails, the bar lags by a cycle but keeps a row.                      *)
RecentBarsCurrent ==
    \A bar \in {b \in Bars : b * BarTicks + table.window >= now} :
        /\ missed = 0 => ShowsAtLeast(bar, KnownUsers(bar, LastHourly))
        /\ missed = 1 => ShowsAtLeast(bar, KnownUsers(bar, LastHourly - 2))

(* While no refresh fails, every bar a 6-hourly refresh has counted keeps a row *)
(* for good: its row is renewed before its TTL passes, even when the next       *)
(* refresh takes all its time.                                                  *)
OldBarsKept ==
    missed = 0 => \A f \in fills : f.inserted < read_at => ShowsAtLeast(BarOf(f.time), 1)

(* "TTL = 7h covers the 6h cadence plus retry slack - a single missed alltime   *)
(* cycle still leaves valid rows for older bars on disk" (the comment at the    *)
(* head of the file).                                                           *)
MissedCycleTolerated ==
    missed <= 1 => \A f \in fills : f.inserted < read_at => ShowsAtLeast(BarOf(f.time), 1)

(* "The alltime MV refreshes every bar regardless of age, keeping older bars'   *)
(* counts current" (the comment at the head of the file): what a 6-hourly       *)
(* refresh has counted stays counted.                                           *)
OlderCountsCurrent ==
    missed = 0 => \A bar \in Bars : ShowsAtLeast(bar, KnownUsers(bar, read_at))
===============================================================================
