------------------------------- MODULE UserStats -------------------------------
(* The statistics of one user (clickhouse/schema.3.mv.state_user_by_coin.sql,   *)
(* schema.4.mv.state_user_leaderboard.sql and ..._by_dex.sql): one refreshable  *)
(* view rewrites the rows of the recent intervals every hour, one the all-time  *)
(* rows every 6 hours, and two chained views rewrite the leaderboards every     *)
(* hour from whatever state_user_by_coin shows when they run.                   *)
(*                                                                              *)
(* Four ticks are an hour: :22 (recent), :42 (all-time, at the hours 1, 7, 13,  *)
(* 19), :47 (by_dex) and :57 (leaderboard).  Every column of a row but one      *)
(* aggregates the same fills, total_funding the funding joined to them: a row   *)
(* is told by the fills and fundings it counts.                                 *)
EXTENDS Naturals, FiniteSets, Replacing

CONSTANTS
    Coins,
    DexOf,          \* a coin's dex
    Kinds,          \* "reshape" (a split, merge or negation), "trade" (the other
                    \* fills), "funding" (a funding delta)
    Intervals,      \* interval_min > 0, in ticks
    AlltimePeriod,  \* EVERY 6 HOUR ...
    AlltimeOffset,  \* ... OFFSET 1 HOUR 42 MINUTE
    SourceTTL,      \* 13 hours
    BoardTTL,       \* 3 hours
    MaxDelay,       \* how late the sink may insert a fill
    MaxFills,       \* bound: fills and fundings inserted
    LastFill,       \* bound: the latest fill_time
    LastTick,       \* bound: the end of time
    MaxMissed       \* bound: refreshes that fail, of any view

Hour == 4

ASSUME BoundsAssumption ==
    /\ Kinds \subseteq {"reshape", "trade", "funding"}
    /\ Intervals \subseteq Nat \ {0}
    /\ {LastFill, LastTick, MaxMissed} \subseteq Nat

(* What the schema's numbers have in common: the all-time refreshes are whole   *)
(* hours apart and at the second of an hour's minutes, and a row outlives one   *)
(* missed refresh and the time the next may take.                               *)
ASSUME CalendarAssumption ==
    /\ AlltimePeriod \in Nat \ {0} /\ AlltimePeriod % Hour = 0
    /\ AlltimeOffset \in 0 .. AlltimePeriod - 1 /\ AlltimeOffset % Hour = 1
    /\ SourceTTL \in Nat /\ SourceTTL > 2 * AlltimePeriod + 2
    /\ BoardTTL \in Nat /\ BoardTTL > 2 * Hour

Boards == {"by_dex", "leaderboard"}
Views == {"recent", "alltime"} \cup Boards

VARIABLES
    now,
    fills,      \* fills, outcome_fills and funding_deltas
    by_coin,    \* state_user_by_coin: [key |-> <<interval, coin>>, counts, refresh_time]
    boards,     \* the leaderboards: [key |-> <<interval, group>>, counts, refresh_time]
    due,        \* the views whose refresh is due and has not started
    running,    \* the rows an all-time refresh under way will insert, and its start
    missed      \* failed refreshes (history)

vars == <<now, fills, by_coin, boards, due, running, missed>>

Row(key, counts) == [key |-> key, counts |-> counts, refresh_time |-> now]

BugScheduled(tick) ==           \* the leaderboards run just before their source
    {v \in Views :
        \/ v = "recent" /\ tick % Hour = 3
        \/ v = "alltime" /\ tick % AlltimePeriod = AlltimeOffset
        \/ v = "by_dex" /\ tick % Hour = 1
        \/ v = "leaderboard" /\ tick % Hour = 2}

BugAlltimeScheduled(tick) ==    \* EVERY 12 HOUR
    {v \in Views :
        \/ v = "recent" /\ tick % Hour = 0
        \/ v = "alltime" /\ tick % (2 * AlltimePeriod) = AlltimeOffset
        \/ v = "by_dex" /\ tick % Hour = 2
        \/ v = "leaderboard" /\ tick % Hour = 3}

Scheduled(tick) ==
    {v \in Views :
        \/ v = "recent" /\ tick % Hour = 0
        \/ v = "alltime" /\ tick % AlltimePeriod = AlltimeOffset
        \/ v = "by_dex" /\ tick % Hour = 2
        \/ v = "leaderboard" /\ tick % Hour = 3}

(* fills_agg over the fills of an interval since a moment, for every coin that  *)
(* has any, LEFT JOIN funding_agg: collateral reshapes are left out, and so is  *)
(* the funding of a coin without a fill.                                        *)
AggregatedSince(interval, since) ==
    LET some == {f \in fills : f.time >= since /\ f.kind # "reshape"}
        traded == {f.coin : f \in {g \in some : g.kind # "funding"}}
    IN  {Row(<<interval, coin>>, {f \in some : f.coin = coin}) : coin \in traded}

(* now() - INTERVAL ..., where the calendar has begun at 0.                     *)
Since(interval) == IF interval > now THEN 0 ELSE now - interval

RecentRows == UNION {AggregatedSince(i, Since(i)) : i \in Intervals}

AlltimeRows == AggregatedSince(0, 0)

(* A leaderboard groups the rows of state_user_by_coin FINAL, by dex or not.    *)
GroupOf(board, coin) == IF board = "by_dex" THEN DexOf[coin] ELSE "all"

BoardRows(board) ==
    LET KeyOf(r) == <<r.key[1], GroupOf(board, r.key[2])>>
    IN  { Row(k, UNION {r.counts : r \in {s \in by_coin : KeyOf(s) = k}}) :
              k \in {KeyOf(r) : r \in by_coin} }

Init ==
    /\ now = 0
    /\ fills = {}
    /\ by_coin = {}
    /\ boards = [v \in Boards |-> {}]
    /\ due = Scheduled(0)
    /\ running = {}
    /\ missed = 0

Ingest(coin, kind, time) ==
    /\ Cardinality(fills) < MaxFills
    /\ time <= LastFill /\ time <= now /\ now <= time + MaxDelay
    /\ fills' = fills \cup {[coin |-> coin, kind |-> kind, time |-> time, inserted |-> now]}
    /\ UNCHANGED <<now, by_coin, boards, due, running, missed>>

RefreshRecent ==
    /\ "recent" \in due
    /\ by_coin' = Appended(by_coin, RecentRows)
    /\ due' = due \ {"recent"}
    /\ UNCHANGED <<now, fills, boards, running, missed>>

(* The all-time refresh may take 20 minutes: both leaderboards may read before  *)
(* it inserts.                                                                  *)
StartAlltime ==
    /\ "alltime" \in due
    /\ running' = {[at |-> now, rows |-> AlltimeRows]}
    /\ due' = due \ {"alltime"}
    /\ UNCHANGED <<now, fills, by_coin, boards, missed>>

FinishAlltime ==
    \E r \in running :
        /\ by_coin' = Appended(by_coin, r.rows)
        /\ running' = {}
        /\ UNCHANGED <<now, fills, boards, due, missed>>

RefreshBoard(board) ==
    /\ board \in due
    /\ boards' = [boards EXCEPT ![board] = Appended(@, BoardRows(board))]
    /\ due' = due \ {board}
    /\ UNCHANGED <<now, fills, by_coin, running, missed>>

(* A refresh that fails or exceeds max_execution_time inserts nothing.          *)
Miss(view) ==
    /\ view \in due
    /\ missed < MaxMissed
    /\ missed' = missed + 1
    /\ due' = due \ {view}
    /\ UNCHANGED <<now, fills, by_coin, boards, running>>

Expire ==
    /\ \/ \E r \in by_coin :
             /\ IsExpired(r, SourceTTL, now)
             /\ by_coin' = by_coin \ {r}
             /\ UNCHANGED boards
       \/ \E v \in Boards : \E r \in boards[v] :
             /\ IsExpired(r, BoardTTL, now)
             /\ boards' = [boards EXCEPT ![v] = @ \ {r}]
             /\ UNCHANGED by_coin
    /\ UNCHANGED <<now, fills, due, running, missed>>

(* Refreshes start at their minute; the all-time one ends before the next :22.  *)
Tick ==
    /\ now < LastTick
    /\ due = {}
    /\ running # {} => (now + 1) % Hour # 0
    /\ now' = now + 1
    /\ due' = Scheduled(now')
    /\ UNCHANGED <<fills, by_coin, boards, running, missed>>

Next ==
    \/ \E coin \in Coins, kind \in Kinds, time \in 0 .. LastFill : Ingest(coin, kind, time)
    \/ RefreshRecent \/ StartAlltime \/ FinishAlltime
    \/ \E v \in Boards : RefreshBoard(v)
    \/ \E v \in Views : Miss(v)
    \/ Expire
    \/ Tick

Spec == Init /\ [][Next]_vars

--------------------------------------------------------------------------------

(* What a row may count.                                                        *)
Trades == {f \in fills : f.kind = "trade"}
Countable == {f \in fills : f.kind # "reshape"}

(* The fills counted by the rows of an interval a leaderboard shows.            *)
Shown(board, interval) == UNION {r.counts : r \in {s \in boards[board] : s.key[1] = interval}}

IsTable(rows) ==
    \A r \in rows :
        /\ r.counts \subseteq Countable /\ r.counts \cap Trades # {}
        /\ r.refresh_time \in 0 .. now
        /\ \A s \in rows : r.key = s.key => r = s

TypeOK ==
    /\ now \in 0 .. LastTick
    /\ \A f \in fills :
           /\ f.coin \in Coins /\ f.kind \in Kinds
           /\ f.time \in 0 .. LastFill /\ f.inserted \in f.time .. now
    /\ IsTable(by_coin) /\ \A v \in Boards : IsTable(boards[v])
    /\ \A r \in by_coin : \A f \in r.counts : f.coin = r.key[2]
    /\ \A v \in Boards : \A r \in boards[v] : \A f \in r.counts : GroupOf(v, f.coin) = r.key[2]
    /\ due \subseteq Scheduled(now)
    /\ Cardinality(running) <= 1
    /\ missed \in 0 .. MaxMissed

(* An all-time total never goes back, even if any one refresh of the chain      *)
(* fails: the source's rows outlive a missed cycle of 6 hours, a leaderboard's  *)
(* a missed hour, and a newer row counts all an older one did.                  *)
AlltimeNeverDrops ==
    [][missed' <= 1 => \A v \in Boards : Shown(v, 0) \subseteq Shown(v, 0)']_vars

(* While no refresh fails, a leaderboard's all-time rows lag by a 6-hour cycle, *)
(* the time that refresh takes, and the hour until the leaderboard runs again:  *)
(* a fill that just misses an all-time refresh waits for the next one, whose    *)
(* rows may come just after the leaderboard has read.                           *)
AlltimeLag ==
    missed = 0 =>
        \A v \in Boards, f \in Trades :
            f.inserted + AlltimePeriod + Hour + 2 < now => f \in Shown(v, 0)

(* "Refreshed hourly by chaining off state_user_by_coin FINAL. ... so up to two *)
(* hours of total lag in the worst case" (schema.4.mv.state_user_leaderboard    *)
(* .sql, and the same staleness budget in ..._by_dex.sql), of their all-time    *)
(* rows as well: two hours after a trade is inserted, and one more for the time *)
(* the refreshes take, the leaderboards count it.                               *)
TwoHourLag ==
    missed = 0 =>
        \A v \in Boards, f \in Trades : f.inserted + 3 * Hour < now => f \in Shown(v, 0)

(* The last tick at which a view has run.                                       *)
LastRun(view) ==
    LET runs == {t \in 0 .. now : view \in Scheduled(t) /\ ~(t = now /\ view \in due)}
    IN  CHOOSE t \in runs \cup {0} : \A u \in runs : u <= t

(* While no refresh fails, each leaderboard covers what the hourly source view  *)
(* saw earlier in the same hour: the chain adds minutes, not another hour.  Of  *)
(* funding it covers what the coin's trades in the same interval bring along.   *)
RecentComplete ==
    missed = 0 =>
        \A v \in Boards, i \in Intervals :
            LET read == (LastRun(v) \div Hour) * Hour
                seen == {f \in Countable : f.inserted < read /\ f.time + i >= read}
                traded == {f.coin : f \in seen \cap Trades}
            IN  {f \in seen : f.coin \in traded} \subseteq Shown(v, i)
===============================================================================
