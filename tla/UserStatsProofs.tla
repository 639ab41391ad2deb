---------------------------- MODULE UserStatsProofs ----------------------------
(* Proofs about the chain of a user's statistics, for every calendar that keeps *)
(* to the order of the schema's, any number of coins, intervals and fills.      *)
EXTENDS UserStats, Integers, FiniteSetTheorems, TLAPS

-------------------------------------------------------------------------------
(* Remainders.                                                                  *)

LEMMA DivMod ==
    ASSUME NEW m \in Nat \ {0}, NEW x \in Nat
    PROVE  x \div m \in Nat /\ x % m \in 0 .. m - 1 /\ x = m * (x \div m) + (x % m)
OBVIOUS

LEMMA SameRemainder ==
    ASSUME NEW m \in Nat \ {0}, NEW x \in Nat, NEW y \in Nat, x % m = y % m, x < y
    PROVE  x + m <= y
<1> DEFINE q == y \div m - x \div m
<1>1. q \in Int /\ m \in Int
  OBVIOUS
<1>2. y - x = m * q
  <2> DEFINE u == x \div m
             v == y \div m
             r == x % m
  <2>1. u \in Int /\ v \in Int /\ x = m * u + r /\ y = m * v + r /\ r \in Int
    BY DivMod
  <2> HIDE DEF u, v, r
  <2>2. m * v - m * u = m * (v - u)
    BY <2>1
  <2>3. y - x = m * (v - u)
    <3> DEFINE a == m * u
               b == m * v
    <3>1. a \in Int /\ b \in Int /\ x = a + r /\ y = b + r
      BY <2>1
    <3> HIDE DEF a, b
    <3>2. y - x = b - a
      BY <2>1, <3>1
    <3> QED
      BY <2>2, <3>2 DEF a, b
  <2> QED
    BY <2>3 DEF u, v
<1> HIDE DEF q
<1>3. q >= 1
  BY <1>1, <1>2
<1>4. m * q >= m
  BY <1>1, <1>3
<1> QED
  BY <1>2, <1>4

LEMMA RemainderOf ==
    ASSUME NEW m \in Nat \ {0}, NEW q \in Nat, NEW r \in 0 .. m - 1
    PROVE  (m * q + r) % m = r
<1> DEFINE x == m * q + r
           u == x \div m
           s == x % m
<1>1. m \in Nat /\ m * q \in Nat
  OBVIOUS
<1>2. x \in Nat
  BY <1>1
<1>3. u \in Nat /\ s \in 0 .. m - 1 /\ x = m * u + s
  BY <1>2, DivMod
<1> HIDE DEF u, s
<1>4. m * (q - u) = s - r
  <2>1. m * (q - u) = m * q - m * u
    BY <1>1, <1>3
  <2> DEFINE a == m * q
             b == m * u
  <2>2. a \in Int /\ b \in Int /\ a + r = b + s
    BY <1>1, <1>3
  <2> HIDE DEF a, b
  <2>3. a - b = s - r
    BY <1>3, <2>2
  <2> QED
    BY <2>1, <2>3 DEF a, b
<1> DEFINE d == q - u
<1>5. d \in Int /\ m * d = s - r
  BY <1>3, <1>4
<1> HIDE DEF d, x
<1>6. (d >= 1 => m * d >= m) /\ (d <= -1 => m * d <= 0 - m)
  BY <1>1, <1>5
<1>7. d = 0
  BY <1>1, <1>3, <1>5, <1>6
<1>8. s = r
  BY <1>1, <1>3, <1>5, <1>7
<1> QED
  BY <1>8 DEF s, x

LEMMA NextRemainder ==
    ASSUME NEW m \in Nat \ {0}, NEW x \in Nat
    PROVE  (x + m) % m = x % m
<1> DEFINE u == x \div m
           r == x % m
<1>1. u \in Nat /\ r \in 0 .. m - 1 /\ x = m * u + r
  BY DivMod
<1> HIDE DEF u, r
<1>2. x + m = m * (u + 1) + r
  BY <1>1
<1>3. (m * (u + 1) + r) % m = r
  <2>1. u + 1 \in Nat
    BY <1>1
  <2> QED
    BY <1>1, <2>1, RemainderOf
<1> QED
  BY <1>2, <1>3 DEF r

LEMMA SomeRemainder ==
    ASSUME NEW m \in Nat \ {0}, NEW r \in 0 .. m - 1, NEW x \in Nat
    PROVE  \E y \in x + 1 .. x + m : y % m = r
<1> DEFINE z == x + m - r
           q == z \div m
           s == z % m
<1>1. z \in Nat
  OBVIOUS
<1>2. q \in Nat /\ s \in 0 .. m - 1 /\ z = m * q + s
  BY <1>1, DivMod
<1>3. z = x + m - r /\ m \in Nat /\ r \in Nat
  OBVIOUS
<1> HIDE DEF q, s, z
<1>4. m * q + r = x + m - s
  <2> DEFINE a == m * q
  <2>1. a \in Int /\ z = a + s
    BY <1>2, <1>3
  <2> HIDE DEF a
  <2>2. a + r = x + m - s
    BY <1>2, <1>3, <2>1
  <2> QED
    BY <2>2 DEF a
<1>5. x + m - s \in x + 1 .. x + m
  BY <1>2, <1>3
<1>6. (x + m - s) % m = r
  BY <1>2, <1>4, RemainderOf
<1> QED
  BY <1>5, <1>6

LEMMA RemainderOfMultiple ==
    ASSUME NEW m \in Nat \ {0}, m % 4 = 0, NEW x \in Nat
    PROVE  x % 4 = (x % m) % 4
<1>1. PICK h \in Nat : m = 4 * h
  <2>1. m = 4 * (m \div 4)
    OBVIOUS
  <2> QED
    BY <2>1
<1> DEFINE q == x \div m
           r == x % m
<1>2. q \in Nat /\ r \in Nat /\ x = m * q + r
  BY DivMod
<1> HIDE DEF q, r
<1>3. m * q = 4 * (h * q) /\ h * q \in Nat
  BY <1>1, <1>2
<1> DEFINE p == h * q
<1>4. p \in Nat /\ x = 4 * p + r
  BY <1>2, <1>3
<1> HIDE DEF p
<1>5. x % 4 = r % 4
  BY <1>2, <1>4
<1> QED
  BY <1>5 DEF r

-------------------------------------------------------------------------------
(* The inductive invariant.                                                     *)

AtAlltime(tick) == tick % AlltimePeriod = AlltimeOffset

(* A fill is counted by the row of a key.                                       *)
In(rows, key, f) == \E r \in rows : r.key = key /\ f \in r.counts

(* The keys, and what due refreshes will date their rows later than.            *)
Dates ==
    /\ DOMAIN boards = Boards
    /\ \A r \in by_coin : r.key \in (Intervals \cup {0}) \X Coins
    /\ \A v \in Boards : \A r \in boards[v] :
           /\ r.key = <<r.key[1], r.key[2]>> /\ v \in Scheduled(r.refresh_time)
           /\ (v \in due => r.refresh_time < now)
    /\ "recent" \in due => \A r \in by_coin : r.key[1] # 0 => r.refresh_time < now
    /\ "alltime" \in due => running = {}
    /\ \A r \in by_coin : r.key[1] = 0 =>
           /\ AtAlltime(r.refresh_time)
           /\ ("alltime" \in due => r.refresh_time < now)
           /\ \A x \in running : r.refresh_time < x.at

(* What an all-time refresh carries until it ends: no less than the rows it is  *)
(* going to replace.                                                            *)
Carried ==
    \A x \in running :
        /\ \A y \in running : x = y
        /\ AtAlltime(x.at) /\ x.at \in 0 .. now /\ now <= x.at + 2
        /\ \A s \in x.rows :
               /\ s.key = <<0, s.key[2]>> /\ s.key[2] \in Coins
               /\ s.counts \subseteq Countable /\ s.counts \cap Trades # {}
               /\ s.refresh_time = x.at
               /\ \A f \in s.counts : f.coin = s.key[2]
               /\ \A t \in x.rows : s.key = t.key => s = t
        /\ \A r \in by_coin : r.key[1] = 0 =>
               \E s \in x.rows : s.key = r.key /\ r.counts \subseteq s.counts

(* The refresh of a tick is still to come, or to end.                           *)
AwaitsAlltime(tick) ==
    \/ now < tick \/ (now = tick /\ "alltime" \in due)
    \/ \E x \in running : x.at = tick

AwaitsBoard(v, tick) == now < tick \/ (now = tick /\ v \in due)

(* The next all-time refresh, or the one after it, comes in time for every row, *)
(* and whatever a leaderboard has counted it finds again.                       *)
Kept ==
    /\ missed = 0 =>
           /\ \A r \in by_coin : r.key[1] = 0 => AwaitsAlltime(r.refresh_time + AlltimePeriod)
           /\ \A v \in Boards : \A r \in boards[v] :
                  r.key[1] = 0 => AwaitsBoard(v, r.refresh_time + Hour)
    /\ missed <= 1 =>
           /\ \A r \in by_coin : r.key[1] = 0 => AwaitsAlltime(r.refresh_time + 2 * AlltimePeriod)
           /\ \A v \in Boards : \A r \in boards[v] : r.key[1] = 0 =>
                  /\ AwaitsBoard(v, r.refresh_time + 2 * Hour)
                  /\ \A f \in r.counts : In(by_coin, <<0, f.coin>>, f)

(* A trade is in the source, or the first all-time refresh after it is still to *)
(* come or to end; and on a leaderboard, or so is the first after that.         *)
Counted ==
    missed = 0 => \A f \in Trades :
        /\ \/ In(by_coin, <<0, f.coin>>, f)
           \/ \E x \in running : x.at <= f.inserted + AlltimePeriod /\ In(x.rows, <<0, f.coin>>, f)
           \/ \A a \in f.inserted + 1 .. now : AtAlltime(a) => a = now /\ "alltime" \in due
        /\ \A v \in Boards :
              \/ f \in Shown(v, 0)
              \/ \A b \in f.inserted + AlltimePeriod + 3 .. now :
                     v \in Scheduled(b) => b = now /\ v \in due

(* What the hourly view counts for an interval at a tick.                       *)
Seen(tick, i) == {f \in Countable : f.inserted < tick /\ f.time + i >= tick}
Covered(tick, i) == {f \in Seen(tick, i) : \E g \in Seen(tick, i) \cap Trades : g.coin = f.coin}

LatestRun(v, l) ==
    /\ v \in Scheduled(l) /\ ~(l = now /\ v \in due)
    /\ now <= l + Hour /\ (now = l + Hour => v \in due)

HourOf(tick) == (tick \div Hour) * Hour

CountedAt(rows, key, f, tick) ==
    \E r \in rows : r.key = key /\ f \in r.counts /\ r.refresh_time = tick

ShownAt(rows, i, f, tick) ==
    \E r \in rows : r.key[1] = i /\ f \in r.counts /\ r.refresh_time = tick

SourceHourly ==
    missed = 0 /\ "recent" \notin due =>
        \A i \in Intervals : \A f \in Covered(HourOf(now), i) :
            CountedAt(by_coin, <<i, f.coin>>, f, HourOf(now))

BoardsHourly ==
    missed = 0 =>
        \A v \in Boards, i \in Intervals, l \in 0 .. now :
            LatestRun(v, l) => \A f \in Covered(HourOf(l), i) : ShownAt(boards[v], i, f, l)

IInv == TypeOK /\ Dates /\ Carried /\ Kept /\ Counted /\ SourceHourly /\ BoardsHourly

-------------------------------------------------------------------------------
(* The calendar.                                                                *)

LEMMA Calendar ==
    /\ AlltimePeriod \in Nat \ {0} /\ AlltimePeriod >= 4
    /\ {SourceTTL, BoardTTL, LastFill, LastTick, MaxMissed} \subseteq Nat
    /\ SourceTTL > 2 * AlltimePeriod + 2 /\ BoardTTL > 8 /\ Hour = 4
<1>1. AlltimePeriod \in Nat /\ AlltimePeriod # 0 /\ AlltimePeriod % 4 = 0
  BY CalendarAssumption DEF Hour
<1>2. AlltimePeriod >= 4
  BY <1>1
<1> QED
  BY <1>2, BoundsAssumption, CalendarAssumption DEF Hour

LEMMA Schedule ==
    ASSUME NEW tick
    PROVE  /\ "recent" \in Scheduled(tick) <=> tick % 4 = 0
           /\ "alltime" \in Scheduled(tick) <=> AtAlltime(tick)
           /\ "by_dex" \in Scheduled(tick) <=> tick % 4 = 2
           /\ "leaderboard" \in Scheduled(tick) <=> tick % 4 = 3
BY DEF Scheduled, Views, Boards, Hour, AtAlltime

(* All-time refreshes are in the second quarter of an hour, ...                 *)
LEMMA AlltimeQuarter ==
    ASSUME NEW tick \in Nat, AtAlltime(tick)
    PROVE  tick % 4 = 1
<1>1. AlltimePeriod \in Nat \ {0} /\ AlltimePeriod % 4 = 0
  BY CalendarAssumption DEF Hour
<1>2. tick % 4 = AlltimeOffset % 4
  BY <1>1, RemainderOfMultiple DEF AtAlltime
<1> QED
  BY <1>2, CalendarAssumption DEF Hour

(* ... their period apart, ...                                                  *)
LEMMA AlltimeApart ==
    ASSUME NEW a \in Nat, AtAlltime(a)
    PROVE  /\ AtAlltime(a + AlltimePeriod) /\ AtAlltime(a + 2 * AlltimePeriod)
           /\ \A b \in Nat : AtAlltime(b) /\ a < b => a + AlltimePeriod <= b
<1>1. AlltimePeriod \in Nat \ {0}
  BY Calendar
<1>2. ASSUME NEW x \in Nat, AtAlltime(x) PROVE AtAlltime(x + AlltimePeriod)
  BY <1>1, <1>2, NextRemainder DEF AtAlltime
<1>3. a + 2 * AlltimePeriod = (a + AlltimePeriod) + AlltimePeriod /\ a + AlltimePeriod \in Nat
  BY <1>1
<1>4. AtAlltime(a + AlltimePeriod) /\ AtAlltime(a + 2 * AlltimePeriod)
  BY <1>2, <1>3
<1>5. ASSUME NEW b \in Nat, AtAlltime(b), a < b PROVE a + AlltimePeriod <= b
  BY <1>1, <1>5, SameRemainder DEF AtAlltime
<1> QED
  BY <1>4, <1>5

(* ... and there is always a next one.                                          *)
LEMMA NextAlltime ==
    ASSUME NEW x \in Nat
    PROVE  \E a \in x + 1 .. x + AlltimePeriod : AtAlltime(a)
BY Calendar, CalendarAssumption, SomeRemainder DEF AtAlltime

(* The leaderboards run in the second half of an hour, an hour apart.           *)
LEMMA BoardHours ==
    ASSUME NEW v \in Boards, NEW a \in Nat, v \in Scheduled(a)
    PROVE  /\ a % 4 \in {2, 3}
           /\ v \in Scheduled(a + 4) /\ v \in Scheduled(a + 8)
           /\ \A b \in Nat : v \in Scheduled(b) /\ a < b => a + 4 <= b
<1>1. PICK k \in {2, 3} : \A tick : v \in Scheduled(tick) <=> tick % 4 = k
  BY Schedule DEF Boards
<1>2. a % 4 = k
  BY <1>1
<1>3. (a + 4) % 4 = k /\ (a + 8) % 4 = k
  BY <1>2
<1>4. ASSUME NEW b \in Nat, b % 4 = k, a < b PROVE a + 4 <= b
  BY <1>2, <1>4
<1> QED
  BY <1>1, <1>2, <1>3, <1>4

LEMMA NextBoard ==
    ASSUME NEW v \in Boards, NEW x \in Nat
    PROVE  \E b \in x .. x + 3 : v \in Scheduled(b)
<1>1. PICK k \in {2, 3} : \A tick : v \in Scheduled(tick) <=> tick % 4 = k
  BY Schedule DEF Boards
<1>2. \E b \in x .. x + 3 : b % 4 = k
  <2>1. \/ x % 4 = k \/ (x + 1) % 4 = k \/ (x + 2) % 4 = k \/ (x + 3) % 4 = k
    OBVIOUS
  <2>2. {x, x + 1, x + 2, x + 3} \subseteq x .. x + 3
    OBVIOUS
  <2> QED
    BY <2>1, <2>2
<1> QED
  BY <1>1, <1>2

LEMMA HourStart ==
    ASSUME NEW tick \in Nat
    PROVE  /\ HourOf(tick) \in Nat /\ HourOf(tick) <= tick /\ tick < HourOf(tick) + 4
           /\ HourOf(tick) = tick - (tick % 4)
           /\ tick % 4 = 0 => HourOf(tick) = tick
           /\ (tick + 1) % 4 # 0 => HourOf(tick + 1) = HourOf(tick)
BY DEF HourOf, Hour

-------------------------------------------------------------------------------
(* The rows.                                                                    *)

(* New rows of distinct keys replace the older rows of their keys.              *)
LEMMA AppendLater ==
    ASSUME NEW old, NEW new, \A r \in old \cup new : r.refresh_time \in Nat,
           \A r, s \in old : r.key = s.key => r = s, \A r, s \in new : r.key = s.key => r = s,
           \A r \in old, s \in new : r.key = s.key => r.refresh_time < s.refresh_time
    PROVE  /\ new \subseteq Appended(old, new)
           /\ \A r \in old : (\A s \in new : s.key # r.key) => r \in Appended(old, new)
           /\ \A r \in Appended(old, new) :
                 r \in new \/ (r \in old /\ \A s \in new : s.key # r.key)
           /\ \A r, s \in Appended(old, new) : r.key = s.key => r = s
<1>1. ASSUME NEW r \in new PROVE r \in Appended(old, new)
  <2>1. ASSUME NEW s \in old \cup new, s.key = r.key PROVE s.refresh_time <= r.refresh_time
    <3>1. CASE s \in old
      BY <2>1, <3>1
    <3>2. CASE s \in new
      BY <2>1, <3>2
    <3> QED
      BY <3>1, <3>2
  <2> QED
    BY <2>1 DEF Appended
<1>2. ASSUME NEW r \in old, \A s \in new : s.key # r.key PROVE r \in Appended(old, new)
  <2>1. ASSUME NEW s \in old \cup new, s.key = r.key PROVE s.refresh_time <= r.refresh_time
    BY <1>2, <2>1
  <2> QED
    BY <2>1 DEF Appended
<1>3. ASSUME NEW r \in Appended(old, new)
      PROVE  r \in new \/ (r \in old /\ \A s \in new : s.key # r.key)
  <2>1. r \in old \cup new /\ \A s \in new : s.key = r.key => s.refresh_time <= r.refresh_time
    BY DEF Appended
  <2>2. ASSUME r \in old, NEW s \in new, s.key = r.key PROVE FALSE
    BY <2>1, <2>2
  <2> QED
    BY <2>1, <2>2
<1>4. ASSUME NEW r \in Appended(old, new), NEW s \in Appended(old, new), r.key = s.key
      PROVE  r = s
  BY <1>3, <1>4
<1> QED
  BY <1>1, <1>2, <1>3, <1>4

(* A row that counts some fills of a coin, of which one is a trade.             *)
CountsOf(counts, coin) ==
    /\ counts \subseteq Countable /\ counts \cap Trades # {}
    /\ \A f \in counts : f.coin = coin

FillsTyped ==
    \A f \in fills :
        /\ f.coin \in Coins /\ f.kind \in Kinds
        /\ f.time \in 0 .. LastFill /\ f.inserted \in f.time .. now

LEMMA Aggregated ==
    ASSUME FillsTyped, NEW i, NEW since
    PROVE  /\ \A r \in AggregatedSince(i, since) :
                 /\ r.key = <<i, r.key[2]>> /\ r.key[2] \in Coins
                 /\ r.refresh_time = now /\ CountsOf(r.counts, r.key[2])
           /\ \A r, s \in AggregatedSince(i, since) : r.key = s.key => r = s
           /\ \A f \in Countable, g \in Trades :
                 f.time >= since /\ g.time >= since /\ g.coin = f.coin =>
                     \E r \in AggregatedSince(i, since) : r.key = <<i, f.coin>> /\ f \in r.counts
<1> DEFINE some == {f \in fills : f.time >= since /\ f.kind # "reshape"}
           traded == {f.coin : f \in {g \in some : g.kind # "funding"}}
           RowOf(coin) == Row(<<i, coin>>, {f \in some : f.coin = coin})
           new == {RowOf(coin) : coin \in traded}
<1>1. AggregatedSince(i, since) = new
  BY DEF AggregatedSince
<1>2. \A coin : /\ RowOf(coin).key = <<i, coin>> /\ RowOf(coin).refresh_time = now
                /\ RowOf(coin).counts = {f \in some : f.coin = coin}
  BY DEF Row
<1>3. \A g \in some : g.kind # "funding" => g \in Trades /\ g.coin \in Coins
  BY BoundsAssumption DEF FillsTyped, Trades
<1>4. some \subseteq Countable
  BY DEF Countable
<1>5. \A coin \in traded : coin \in Coins /\ \E g \in some : g \in Trades /\ g.coin = coin
  BY <1>3
<1>6. \A g \in Trades : g.time >= since => g.coin \in traded
  BY DEF Trades
<1>7. \A f \in Countable : f.time >= since => f \in some
  BY DEF Countable
<1>8. \A r \in new : \E coin \in traded : r = RowOf(coin)
  OBVIOUS
<1>9. \A coin \in traded : RowOf(coin) \in new
  OBVIOUS
<1>10. \A coin : {f \in some : f.coin = coin} \subseteq some
                 /\ \A f : f \in {g \in some : g.coin = coin} <=> f \in some /\ f.coin = coin
  OBVIOUS
<1> HIDE DEF some, traded, RowOf, new
<1>11. ASSUME NEW coin \in traded
       PROVE  CountsOf(RowOf(coin).counts, coin)
  BY <1>2, <1>4, <1>5, <1>10 DEF CountsOf
<1>12. ASSUME NEW r \in new
       PROVE  /\ r.key = <<i, r.key[2]>> /\ r.key[2] \in Coins /\ r.refresh_time = now
              /\ CountsOf(r.counts, r.key[2]) /\ r = RowOf(r.key[2])
  <2>1. PICK coin \in traded : r = RowOf(coin)
    BY <1>8
  <2>2. r.key = <<i, coin>> /\ r.key[2] = coin
    BY <1>2, <2>1
  <2> QED
    BY <1>2, <1>5, <1>11, <2>1, <2>2
<1>13. \A r, s \in new : r.key = s.key => r = s
  BY <1>12
<1>14. ASSUME NEW f \in Countable, NEW g \in Trades, f.time >= since, g.time >= since,
              g.coin = f.coin
       PROVE  \E r \in new : r.key = <<i, f.coin>> /\ f \in r.counts
  <2>1. f.coin \in traded /\ f \in some
    BY <1>6, <1>7, <1>14
  <2>2. RowOf(f.coin) \in new /\ RowOf(f.coin).key = <<i, f.coin>> /\ f \in RowOf(f.coin).counts
    BY <1>2, <1>9, <1>10, <2>1
  <2> QED
    BY <2>2
<1> QED
  BY <1>1, <1>12, <1>13, <1>14

(* What the hourly view inserts.                                                *)
LEMMA RecentShape ==
    ASSUME FillsTyped, now \in Nat
    PROVE  /\ \A r \in RecentRows :
                 /\ r.key = <<r.key[1], r.key[2]>> /\ r.key[1] \in Intervals /\ r.key[2] \in Coins
                 /\ r.refresh_time = now /\ CountsOf(r.counts, r.key[2])
           /\ \A r, s \in RecentRows : r.key = s.key => r = s
           /\ \A i \in Intervals : \A f \in Countable, g \in Trades :
                 f.time + i >= now /\ g.time + i >= now /\ g.coin = f.coin =>
                     \E r \in RecentRows : r.key = <<i, f.coin>> /\ f \in r.counts
<1>1. \A r : r \in RecentRows <=> \E i \in Intervals : r \in AggregatedSince(i, Since(i))
  BY DEF RecentRows
<1>2. ASSUME NEW r \in RecentRows
      PROVE  /\ r.key[1] \in Intervals /\ r \in AggregatedSince(r.key[1], Since(r.key[1]))
             /\ r.key = <<r.key[1], r.key[2]>> /\ r.key[2] \in Coins
             /\ r.refresh_time = now /\ CountsOf(r.counts, r.key[2])
  <2>1. PICK i \in Intervals : r \in AggregatedSince(i, Since(i))
    BY <1>1
  <2>2. /\ r.key = <<i, r.key[2]>> /\ r.key[2] \in Coins
        /\ r.refresh_time = now /\ CountsOf(r.counts, r.key[2])
    BY <2>1, Aggregated
  <2>3. r.key[1] = i
    BY <2>2
  <2> QED
    BY <2>1, <2>2, <2>3
<1>3. \A r, s \in RecentRows : r.key = s.key => r = s
  BY <1>2, Aggregated
<1>4. ASSUME NEW i \in Intervals, NEW f \in Countable, NEW g \in Trades,
             f.time + i >= now, g.time + i >= now, g.coin = f.coin
      PROVE  \E r \in RecentRows : r.key = <<i, f.coin>> /\ f \in r.counts
  <2>1. f \in fills /\ g \in fills
    BY DEF Countable, Trades
  <2>2. f.time \in Nat /\ g.time \in Nat /\ i \in Nat
    BY <2>1, BoundsAssumption DEF FillsTyped
  <2>3. f.time >= Since(i) /\ g.time >= Since(i)
    BY <1>4, <2>2 DEF Since
  <2>4. \E r \in AggregatedSince(i, Since(i)) : r.key = <<i, f.coin>> /\ f \in r.counts
    BY <1>4, <2>3, Aggregated
  <2> QED
    BY <1>1, <2>4
<1> QED
  BY <1>2, <1>3, <1>4

(* What the all-time view inserts.                                              *)
LEMMA AlltimeShape ==
    ASSUME FillsTyped
    PROVE  /\ \A r \in AlltimeRows :
                 /\ r.key = <<0, r.key[2]>> /\ r.key[2] \in Coins
                 /\ r.refresh_time = now /\ CountsOf(r.counts, r.key[2])
           /\ \A r, s \in AlltimeRows : r.key = s.key => r = s
           /\ \A f \in Countable, g \in Trades : g.coin = f.coin =>
                 \E r \in AlltimeRows : r.key = <<0, f.coin>> /\ f \in r.counts
<1>1. \A f \in fills : f.time >= 0
  BY BoundsAssumption DEF FillsTyped
<1>2. \A f \in Countable : f.time >= 0
  BY <1>1 DEF Countable
<1>3. \A f \in Trades : f.time >= 0
  BY <1>1 DEF Trades
<1> QED
  BY <1>2, <1>3, Aggregated DEF AlltimeRows

(* The rows of the source.                                                      *)
SourceTyped ==
    \A r \in by_coin : /\ r.key \in (Intervals \cup {0}) \X Coins
                       /\ CountsOf(r.counts, r.key[2])

(* What a leaderboard inserts: a group's row counts what its coins' rows count. *)
LEMMA BoardShape ==
    ASSUME SourceTyped, NEW v \in Boards
    PROVE  /\ \A r \in BoardRows(v) :
                 /\ r.key = <<r.key[1], r.key[2]>> /\ r.refresh_time = now
                 /\ r.counts \subseteq Countable /\ r.counts \cap Trades # {}
                 /\ \A f \in r.counts :
                       /\ GroupOf(v, f.coin) = r.key[2]
                       /\ In(by_coin, <<r.key[1], f.coin>>, f)
           /\ \A r, s \in BoardRows(v) : r.key = s.key => r = s
           /\ \A s \in by_coin : \E r \in BoardRows(v) :
                 r.key = <<s.key[1], GroupOf(v, s.key[2])>> /\ s.counts \subseteq r.counts
<1> DEFINE KeyOf(s) == <<s.key[1], GroupOf(v, s.key[2])>>
           All(k) == UNION {s.counts : s \in {t \in by_coin : KeyOf(t) = k}}
           RowOf(k) == Row(k, All(k))
           keys == {KeyOf(s) : s \in by_coin}
           new == {RowOf(k) : k \in keys}
<1>1. BoardRows(v) = new
  BY DEF BoardRows
<1>2. \A k : RowOf(k).key = k /\ RowOf(k).refresh_time = now /\ RowOf(k).counts = All(k)
  BY DEF Row
<1>3. \A k, f : f \in All(k) <=> \E s \in by_coin : KeyOf(s) = k /\ f \in s.counts
  OBVIOUS
<1>4. \A r \in new : \E s \in by_coin : r = RowOf(KeyOf(s))
  OBVIOUS
<1>5. \A s \in by_coin : RowOf(KeyOf(s)) \in new
  OBVIOUS
<1>6. \A s \in by_coin : s.key = <<s.key[1], s.key[2]>> /\ CountsOf(s.counts, s.key[2])
  BY DEF SourceTyped
<1>7. \A s \in by_coin : KeyOf(s)[1] = s.key[1] /\ KeyOf(s)[2] = GroupOf(v, s.key[2])
                         /\ KeyOf(s) = <<KeyOf(s)[1], KeyOf(s)[2]>>
  OBVIOUS
<1> HIDE DEF RowOf, All, keys, new
<1>8. ASSUME NEW s \in by_coin PROVE s.counts \subseteq All(KeyOf(s))
  BY <1>3
<1> HIDE DEF KeyOf
<1>9. ASSUME NEW r \in new
      PROVE  /\ r = RowOf(r.key) /\ r.key = <<r.key[1], r.key[2]>> /\ r.refresh_time = now
             /\ r.counts \subseteq Countable /\ r.counts \cap Trades # {}
  <2>1. PICK s \in by_coin : r = RowOf(KeyOf(s))
    BY <1>4
  <2>2. r.key = KeyOf(s) /\ r.counts = All(KeyOf(s)) /\ r.refresh_time = now
    BY <1>2, <2>1
  <2>3. All(KeyOf(s)) \subseteq Countable
    BY <1>3, <1>6 DEF CountsOf
  <2>4. All(KeyOf(s)) \cap Trades # {}
    BY <1>6, <1>8 DEF CountsOf
  <2> QED
    BY <1>7, <2>1, <2>2, <2>3, <2>4
<1>10. ASSUME NEW r \in new, NEW f \in r.counts
       PROVE  GroupOf(v, f.coin) = r.key[2] /\ In(by_coin, <<r.key[1], f.coin>>, f)
  <2>1. f \in All(r.key)
    BY <1>2, <1>9
  <2>2. PICK s \in by_coin : KeyOf(s) = r.key /\ f \in s.counts
    BY <1>3, <2>1
  <2>3. f.coin = s.key[2] /\ s.key = <<s.key[1], s.key[2]>>
    BY <1>6, <2>2 DEF CountsOf
  <2>4. r.key[1] = s.key[1] /\ r.key[2] = GroupOf(v, s.key[2])
    BY <1>7, <2>2
  <2> QED
    BY <2>2, <2>3, <2>4 DEF In
<1>11. \A r, s \in new : r.key = s.key => r = s
  BY <1>9
<1>12. ASSUME NEW s \in by_coin
       PROVE  \E r \in new :
                 r.key = <<s.key[1], GroupOf(v, s.key[2])>> /\ s.counts \subseteq r.counts
  <2>1. /\ RowOf(KeyOf(s)) \in new /\ RowOf(KeyOf(s)).key = KeyOf(s)
        /\ s.counts \subseteq RowOf(KeyOf(s)).counts
    BY <1>2, <1>5, <1>8
  <2> QED
    BY <2>1 DEF KeyOf
<1> QED
  BY <1>1, <1>9, <1>10, <1>11, <1>12

-------------------------------------------------------------------------------
(* The steps.                                                                   *)

LEMMA Types ==
    ASSUME IInv
    PROVE  /\ now \in 0 .. LastTick /\ now \in Nat /\ missed \in Nat
           /\ FillsTyped /\ SourceTyped
           /\ \A f \in fills : f.time \in Nat /\ f.inserted \in Nat /\ f.inserted <= now
           /\ \A r \in by_coin :
                 /\ r.key = <<r.key[1], r.key[2]>> /\ r.key[1] \in Nat
                 /\ r.refresh_time \in Nat /\ r.refresh_time <= now
           /\ \A v \in Boards : \A r \in boards[v] :
                 r.refresh_time \in Nat /\ r.refresh_time <= now
           /\ \A x \in running : x.at \in Nat /\ x.at <= now
<1>1. now \in 0 .. LastTick /\ now \in Nat /\ missed \in Nat
  BY BoundsAssumption DEF IInv, TypeOK
<1>2. FillsTyped
  BY DEF IInv, TypeOK, FillsTyped
<1>3. SourceTyped
  BY DEF IInv, TypeOK, Dates, IsTable, SourceTyped, CountsOf
<1>4. \A f \in fills : f.time \in Nat /\ f.inserted \in Nat /\ f.inserted <= now
  <2>1. ASSUME NEW f \in fills PROVE f.time \in Nat /\ f.inserted \in Nat /\ f.inserted <= now
    <3>1. f.time \in 0 .. LastFill /\ f.inserted \in f.time .. now
      BY <1>2 DEF FillsTyped
    <3> QED
      BY <1>1, <3>1
  <2> QED
    BY <2>1
<1>5. \A r \in by_coin :
          /\ r.key = <<r.key[1], r.key[2]>> /\ r.key[1] \in Nat
          /\ r.refresh_time \in Nat /\ r.refresh_time <= now
  <2>1. ASSUME NEW r \in by_coin PROVE r.key = <<r.key[1], r.key[2]>> /\ r.key[1] \in Nat
    <3>1. r.key \in (Intervals \cup {0}) \X Coins
      BY DEF IInv, Dates
    <3>2. PICK i \in Intervals \cup {0}, c \in Coins : r.key = <<i, c>>
      BY <3>1
    <3>3. i \in Nat
      BY BoundsAssumption
    <3> QED
      BY <3>2, <3>3
  <2>2. ASSUME NEW r \in by_coin PROVE r.refresh_time \in Nat /\ r.refresh_time <= now
    <3>1. r.refresh_time \in 0 .. now
      BY DEF IInv, TypeOK, IsTable
    <3> QED
      BY <1>1, <3>1
  <2> QED
    BY <2>1, <2>2
<1>6. \A v \in Boards : \A r \in boards[v] : r.refresh_time \in Nat /\ r.refresh_time <= now
  BY <1>1 DEF IInv, TypeOK, IsTable
<1>7. \A x \in running : x.at \in Nat /\ x.at <= now
  BY <1>1 DEF IInv, Carried
<1> QED
  BY <1>1, <1>2, <1>3, <1>4, <1>5, <1>6, <1>7

LEMMA InitIInv == Init => IInv
<1> SUFFICES ASSUME Init PROVE IInv
  OBVIOUS
<1>1. /\ now = 0 /\ fills = {} /\ by_coin = {} /\ boards = [v \in Boards |-> {}]
      /\ due = Scheduled(0) /\ running = {} /\ missed = 0
  BY DEF Init
<1>2. Cardinality(running) = 0
  BY <1>1, FS_EmptySet
<1>3. TypeOK
  BY <1>1, <1>2, Calendar DEF TypeOK, IsTable
<1>4. Dates
  BY <1>1 DEF Dates
<1>5. Carried /\ Kept
  BY <1>1 DEF Carried, Kept
<1>6. Counted
  BY <1>1 DEF Counted, Trades
<1>7. SourceHourly /\ BoardsHourly
  BY <1>1 DEF SourceHourly, BoardsHourly, Covered, Seen, Countable
<1> QED
  BY <1>3, <1>4, <1>5, <1>6, <1>7 DEF IInv

LEMMA IngestStep ==
    ASSUME IInv, NEW coin \in Coins, NEW kind \in Kinds, NEW time \in 0 .. LastFill,
           Ingest(coin, kind, time)
    PROVE  IInv'
<1> DEFINE one == [coin |-> coin, kind |-> kind, time |-> time, inserted |-> now]
<1>1. /\ fills' = fills \cup {one} /\ time <= now
      /\ UNCHANGED <<now, by_coin, boards, due, running, missed>>
  BY DEF Ingest
<1>2. now \in Nat /\ time \in Nat
  BY Calendar, Types
<1>3. Countable \subseteq Countable' /\ Trades \subseteq Trades'
  BY <1>1 DEF Countable, Trades
<1>4. one.inserted = now /\ one.time = time /\ one.coin = coin /\ one.kind = kind
  OBVIOUS
<1> HIDE DEF one
<1>5. TypeOK'
  <2>1. \A f \in fills' :
            /\ f.coin \in Coins /\ f.kind \in Kinds
            /\ f.time \in 0 .. LastFill /\ f.inserted \in f.time .. now
    <3>1. one.inserted \in one.time .. now
      BY <1>1, <1>2, <1>4
    <3>2. \A f \in fills : /\ f.coin \in Coins /\ f.kind \in Kinds
                           /\ f.time \in 0 .. LastFill /\ f.inserted \in f.time .. now
      BY DEF IInv, TypeOK
    <3> QED
      BY <1>1, <1>4, <3>1, <3>2
  <2>2. IsTable(by_coin)'
    BY <1>1, <1>3 DEF IInv, TypeOK, IsTable
  <2>3. \A v \in Boards : IsTable(boards[v])'
    BY <1>1, <1>3 DEF IInv, TypeOK, IsTable
  <2> QED
    BY <1>1, <2>1, <2>2, <2>3 DEF IInv, TypeOK, GroupOf
<1>6. Dates'
  BY <1>1 DEF IInv, Dates
<1>7. Carried'
  BY <1>1, <1>3 DEF IInv, Carried
<1>8. Kept'
  BY <1>1 DEF IInv, Kept, AwaitsAlltime, AwaitsBoard, In
<1>9. Counted'
  <2>1. ASSUME NEW f \in Trades', f \notin Trades PROVE f.inserted = now
    BY <1>1, <1>4, <2>1 DEF Trades
  <2>2. /\ \A a \in now + 1 .. now : FALSE
        /\ \A b \in now + AlltimePeriod + 3 .. now : FALSE
    BY <1>2, Calendar
  <2>3. \A v : Shown(v, 0)' = Shown(v, 0)
    BY <1>1 DEF Shown
  <2> QED
    BY <1>1, <2>1, <2>2, <2>3 DEF IInv, Counted, In
<1>10. ASSUME NEW tick \in Nat, tick <= now, NEW i PROVE Covered(tick, i)' \subseteq Covered(tick, i)
  <2>1. \A f \in Seen(tick, i)' : f.inserted < tick
    BY DEF Seen
  <2>2. one \notin Seen(tick, i)'
    BY <1>2, <1>4, <1>10, <2>1
  <2>3. Seen(tick, i)' \subseteq Seen(tick, i)
    BY <1>1, <2>2 DEF Seen, Countable
  <2>4. (Seen(tick, i) \cap Trades)' \subseteq Seen(tick, i) \cap Trades
    BY <1>1, <2>2, <2>3 DEF Trades
  <2> QED
    BY <2>3, <2>4 DEF Covered
<1>11. SourceHourly'
  <2>1. PICK h \in Nat : h = HourOf(now) /\ h <= now
    BY <1>2, HourStart
  <2>2. HourOf(now)' = h
    BY <1>1, <2>1
  <2>3. missed = 0 /\ "recent" \notin due => \A i \in Intervals : \A f \in Covered(h, i) :
            CountedAt(by_coin, <<i, f.coin>>, f, h)
    BY <2>1 DEF IInv, SourceHourly
  <2>4. \A i : Covered(h, i)' \subseteq Covered(h, i)
    BY <1>10, <2>1
  <2> QED
    BY <1>1, <2>2, <2>3, <2>4 DEF SourceHourly
<1>12. BoardsHourly'
  <2>1. ASSUME NEW l \in 0 .. now PROVE HourOf(l) \in Nat /\ HourOf(l) <= now
    <3>1. l \in Nat /\ l <= now
      BY <1>2
    <3>2. HourOf(l) \in Nat /\ HourOf(l) <= l
      BY <3>1, HourStart
    <3> QED
      BY <1>2, <3>1, <3>2
  <2>2. \A v, l : LatestRun(v, l)' <=> LatestRun(v, l)
    BY <1>1 DEF LatestRun
  <2>3. \A l \in 0 .. now : \A i : Covered(HourOf(l), i)' \subseteq Covered(HourOf(l), i)
    BY <1>10, <2>1
  <2> QED
    BY <1>1, <2>2, <2>3 DEF IInv, BoardsHourly
<1> QED
  BY <1>5, <1>6, <1>7, <1>8, <1>9, <1>11, <1>12 DEF IInv

LEMMA SameFills ==
    ASSUME fills' = fills
    PROVE  /\ Countable' = Countable /\ Trades' = Trades
           /\ \A tick, i : Covered(tick, i)' = Covered(tick, i)
           /\ \A counts, coin : CountsOf(counts, coin)' <=> CountsOf(counts, coin)
<1>1. Countable' = Countable /\ Trades' = Trades
  BY DEF Countable, Trades
<1> QED
  BY <1>1 DEF Covered, Seen, CountsOf

(* A row of the source is inserted or leaves.                                   *)
LEMMA SourceTable ==
    ASSUME IInv, fills' = fills, now' = now, boards' = boards, due' \subseteq due, missed' = missed,
           Cardinality(running') <= 1,
           \A r \in by_coin' :
               /\ r.key \in (Intervals \cup {0}) \X Coins /\ CountsOf(r.counts, r.key[2])
               /\ r.refresh_time \in Nat /\ r.refresh_time <= now
               /\ \A s \in by_coin' : r.key = s.key => r = s
    PROVE  TypeOK'
<1>1. Countable' = Countable /\ Trades' = Trades
  BY SameFills
<1>2. IsTable(by_coin)'
  <2>1. \A r \in by_coin' : r.refresh_time \in 0 .. now
    BY Types
  <2> QED
    BY <1>1, <2>1 DEF IsTable, CountsOf
<1>3. \A r \in by_coin' : \A f \in r.counts : f.coin = r.key[2]
  BY DEF CountsOf
<1>4. \A v \in Boards : IsTable(boards[v])'
  BY <1>1 DEF IInv, TypeOK, IsTable
<1> QED
  BY <1>2, <1>3, <1>4 DEF IInv, TypeOK, GroupOf

LEMMA RefreshRecentStep == ASSUME IInv, RefreshRecent PROVE IInv'
<1>1. /\ "recent" \in due /\ due' = due \ {"recent"} /\ by_coin' = Appended(by_coin, RecentRows)
      /\ UNCHANGED <<now, fills, boards, running, missed>>
  BY DEF RefreshRecent
<1>2. /\ \A r \in RecentRows :
            /\ r.key = <<r.key[1], r.key[2]>> /\ r.key[1] \in Intervals /\ r.key[2] \in Coins
            /\ r.refresh_time = now /\ CountsOf(r.counts, r.key[2])
      /\ \A r, s \in RecentRows : r.key = s.key => r = s
  BY RecentShape, Types
<1>3. \A i \in Intervals : i # 0
  BY BoundsAssumption
<1>4. /\ RecentRows \subseteq by_coin'
      /\ \A r \in by_coin : (\A s \in RecentRows : s.key # r.key) => r \in by_coin'
      /\ \A r \in by_coin' : r \in RecentRows \/ r \in by_coin
      /\ \A r, s \in by_coin' : r.key = s.key => r = s
  <2>1. \A r \in by_coin \cup RecentRows : r.refresh_time \in Nat
    BY <1>2, Types
  <2>2. \A r, s \in by_coin : r.key = s.key => r = s
    BY DEF IInv, TypeOK, IsTable
  <2>3. \A r \in by_coin, s \in RecentRows : r.key = s.key => r.refresh_time < s.refresh_time
    BY <1>1, <1>2, <1>3 DEF IInv, Dates
  <2> QED
    BY <1>1, <1>2, <2>1, <2>2, <2>3, AppendLater
<1>5. \A r : r.key[1] = 0 => (r \in by_coin' <=> r \in by_coin)
  BY <1>2, <1>3, <1>4
<1>6. \A coin, f : In(by_coin, <<0, coin>>, f)' <=> In(by_coin, <<0, coin>>, f)
  <2>1. \A r, coin : r.key = <<0, coin>> => r.key[1] = 0
    OBVIOUS
  <2> QED
    BY <1>5, <2>1 DEF In
<1>7. /\ "alltime" \in due' <=> "alltime" \in due
      /\ \A v \in Boards : v \in due' <=> v \in due
  BY <1>1 DEF Boards
<1>8. \A r \in by_coin' :
          /\ r.key \in (Intervals \cup {0}) \X Coins /\ CountsOf(r.counts, r.key[2])
          /\ r.refresh_time \in Nat /\ r.refresh_time <= now
          /\ \A s \in by_coin' : r.key = s.key => r = s
  <2>1. \A r \in by_coin :
            r.key \in (Intervals \cup {0}) \X Coins /\ CountsOf(r.counts, r.key[2])
    BY Types DEF SourceTyped
  <2>2. \A r \in RecentRows : r.key \in (Intervals \cup {0}) \X Coins
    BY <1>2
  <2> QED
    BY <1>2, <1>4, <2>1, <2>2, Types
<1>9. TypeOK'
  BY <1>1, <1>8, SourceTable DEF IInv, TypeOK
<1>10. Dates'
  BY <1>1, <1>5, <1>7, <1>8 DEF IInv, Dates
<1>11. Carried'
  BY <1>1, <1>5, SameFills DEF IInv, Carried
<1>12. Kept'
  BY <1>1, <1>5, <1>6, <1>7 DEF IInv, Kept, AwaitsAlltime, AwaitsBoard
<1>13. Counted'
  <2>1. \A v : Shown(v, 0)' = Shown(v, 0)
    BY <1>1 DEF Shown
  <2> QED
    BY <1>1, <1>6, <1>7, <2>1, SameFills DEF IInv, Counted, In
<1>14. SourceHourly'
  <2>1. HourOf(now) = now
    BY <1>1, HourStart, Schedule, Types DEF IInv, TypeOK
  <2>2. ASSUME NEW i \in Intervals, NEW f \in Covered(now, i)
        PROVE  CountedAt(by_coin', <<i, f.coin>>, f, now)
    <3>1. PICK g \in Seen(now, i) \cap Trades : g.coin = f.coin
      BY DEF Covered
    <3>2. f \in Countable /\ f.time + i >= now /\ g.time + i >= now
      BY DEF Covered, Seen
    <3>3. \E r \in RecentRows : r.key = <<i, f.coin>> /\ f \in r.counts
      BY <3>1, <3>2, RecentShape, Types
    <3> QED
      BY <1>2, <1>4, <3>3 DEF CountedAt
  <2>3. HourOf(now') = now
    BY <1>1, <2>1
  <2>4. \A tick, i : Covered(tick, i)' = Covered(tick, i)
    BY <1>1, SameFills
  <2>5. \A i \in Intervals : \A f \in Covered(now, i) : CountedAt(by_coin', <<i, f.coin>>, f, now)
    BY <2>2
  <2> QED
    BY <2>3, <2>4, <2>5 DEF SourceHourly
<1>15. BoardsHourly'
  <2>1. \A v \in Boards : \A l : LatestRun(v, l)' <=> LatestRun(v, l)
    BY <1>1, <1>7 DEF LatestRun
  <2> QED
    BY <1>1, <2>1, SameFills DEF IInv, BoardsHourly
<1> QED
  BY <1>9, <1>10, <1>11, <1>12, <1>13, <1>14, <1>15 DEF IInv

LEMMA StartAlltimeStep == ASSUME IInv, StartAlltime PROVE IInv'
<1> DEFINE x == [at |-> now, rows |-> AlltimeRows]
<1>1. /\ "alltime" \in due /\ due' = due \ {"alltime"} /\ running' = {x}
      /\ UNCHANGED <<now, fills, by_coin, boards, missed>>
  BY DEF StartAlltime
<1>2. running = {} /\ AtAlltime(now)
  BY <1>1, Schedule DEF IInv, TypeOK, Dates
<1>3. x.at = now /\ x.rows = AlltimeRows
  OBVIOUS
<1> HIDE DEF x
<1>4. /\ \A r \in AlltimeRows :
            /\ r.key = <<0, r.key[2]>> /\ r.key[2] \in Coins
            /\ r.refresh_time = now /\ CountsOf(r.counts, r.key[2])
      /\ \A r, s \in AlltimeRows : r.key = s.key => r = s
      /\ \A f \in Countable, g \in Trades : g.coin = f.coin =>
            \E r \in AlltimeRows : r.key = <<0, f.coin>> /\ f \in r.counts
  BY AlltimeShape, Types
<1>5. /\ "recent" \in due' <=> "recent" \in due
      /\ \A v \in Boards : v \in due' <=> v \in due
      /\ "alltime" \notin due'
  BY <1>1 DEF Boards
<1>6. TypeOK'
  <2>1. Cardinality(running') <= 1
    BY <1>1, FS_Singleton
  <2>2. \A r \in by_coin :
            /\ r.key \in (Intervals \cup {0}) \X Coins /\ CountsOf(r.counts, r.key[2])
            /\ r.refresh_time \in Nat /\ r.refresh_time <= now
            /\ \A s \in by_coin : r.key = s.key => r = s
    BY Types DEF IInv, TypeOK, IsTable, SourceTyped
  <2> QED
    BY <1>1, <2>1, <2>2, SourceTable
<1>7. Dates'
  BY <1>1, <1>3, <1>5 DEF IInv, Dates
<1>8. Carried'
  <2>1. \A s \in x.rows :
            /\ s.key = <<0, s.key[2]>> /\ s.key[2] \in Coins
            /\ s.counts \subseteq Countable /\ s.counts \cap Trades # {}
            /\ s.refresh_time = x.at
            /\ \A f \in s.counts : f.coin = s.key[2]
            /\ \A t \in x.rows : s.key = t.key => s = t
    BY <1>3, <1>4 DEF CountsOf
  <2>2. ASSUME NEW r \in by_coin, r.key[1] = 0
        PROVE  \E s \in x.rows : s.key = r.key /\ r.counts \subseteq s.counts
    <3>1. r.key = <<0, r.key[2]>> /\ CountsOf(r.counts, r.key[2])
      BY <2>2, Types DEF SourceTyped
    <3>2. PICK g \in r.counts : g \in Trades
      BY <3>1 DEF CountsOf
    <3>3. ASSUME NEW f \in r.counts
          PROVE  \E s \in AlltimeRows : s.key = r.key /\ f \in s.counts
      <4>1. f \in Countable /\ g.coin = f.coin /\ r.key = <<0, f.coin>>
        BY <3>1, <3>2 DEF CountsOf
      <4> QED
        BY <1>4, <3>2, <4>1
    <3>4. PICK s \in AlltimeRows : s.key = r.key
      BY <3>2, <3>3
    <3>5. r.counts \subseteq s.counts
      BY <1>4, <3>3, <3>4
    <3> QED
      BY <1>3, <3>4, <3>5
  <2>3. /\ AtAlltime(x.at) /\ x.at \in 0 .. now /\ now <= x.at + 2
    BY <1>2, <1>3, Types
  <2> QED
    BY <1>1, <2>1, <2>2, <2>3, SameFills DEF Carried
<1>9. Kept'
  <2>1. \A tick : AwaitsAlltime(tick) => AwaitsAlltime(tick)'
    BY <1>1, <1>2, <1>3 DEF AwaitsAlltime
  <2>2. \A v \in Boards : \A tick : AwaitsBoard(v, tick)' <=> AwaitsBoard(v, tick)
    BY <1>1, <1>5 DEF AwaitsBoard
  <2> QED
    BY <1>1, <2>1, <2>2 DEF IInv, Kept
<1>10. Counted'
  <2>1. ASSUME missed = 0, NEW f \in Trades, ~In(by_coin, <<0, f.coin>>, f)
        PROVE  x.at <= f.inserted + AlltimePeriod /\ In(x.rows, <<0, f.coin>>, f)
    <3>1. \A a \in f.inserted + 1 .. now : AtAlltime(a) => a = now
      BY <1>2, <2>1 DEF IInv, Counted
    <3>2. f \in Countable /\ f.inserted \in Nat
      BY Types DEF Trades, Countable
    <3>3. now <= f.inserted + AlltimePeriod
      <4>1. PICK a \in f.inserted + 1 .. f.inserted + AlltimePeriod : AtAlltime(a)
        BY <3>2, NextAlltime
      <4> QED
        BY <3>1, <3>2, <4>1, Calendar, Types
    <3>4. In(x.rows, <<0, f.coin>>, f)
      BY <1>3, <1>4, <3>2 DEF In
    <3> QED
      BY <1>3, <3>3, <3>4
  <2>2. missed = 0 => \A f \in Trades :
            \/ In(by_coin, <<0, f.coin>>, f)
            \/ x.at <= f.inserted + AlltimePeriod /\ In(x.rows, <<0, f.coin>>, f)
    BY <2>1
  <2>3. missed = 0 => \A f \in Trades : \A v \in Boards :
            \/ f \in Shown(v, 0)
            \/ \A b \in f.inserted + AlltimePeriod + 3 .. now :
                   v \in Scheduled(b) => b = now /\ v \in due
    BY DEF IInv, Counted
  <2>4. \A v : Shown(v, 0)' = Shown(v, 0)
    BY <1>1 DEF Shown
  <2>5. \A coin, f : In(by_coin, <<0, coin>>, f)' <=> In(by_coin, <<0, coin>>, f)
    BY <1>1 DEF In
  <2> QED
    BY <1>1, <1>5, <2>2, <2>3, <2>4, <2>5, SameFills DEF Counted
<1>11. SourceHourly'
  <2>1. \A tick, i : Covered(tick, i)' = Covered(tick, i)
    BY <1>1, SameFills
  <2> QED
    BY <1>1, <1>5, <2>1 DEF IInv, SourceHourly
<1>12. BoardsHourly'
  <2>1. \A v \in Boards : \A l : LatestRun(v, l)' <=> LatestRun(v, l)
    BY <1>1, <1>5 DEF LatestRun
  <2> QED
    BY <1>1, <2>1, SameFills DEF IInv, BoardsHourly
<1> QED
  BY <1>6, <1>7, <1>8, <1>9, <1>10, <1>11, <1>12 DEF IInv

LEMMA FinishAlltimeStep == ASSUME IInv, FinishAlltime PROVE IInv'
<1>1. PICK x \in running :
          /\ by_coin' = Appended(by_coin, x.rows) /\ running' = {}
          /\ UNCHANGED <<now, fills, boards, due, missed>>
  BY DEF FinishAlltime
<1>2. /\ AtAlltime(x.at) /\ x.at \in Nat /\ x.at <= now /\ now <= x.at + 2
      /\ \A y \in running : y = x
      /\ "alltime" \notin due
  BY Types DEF IInv, Carried, Dates
<1>3. \A s \in x.rows :
          /\ s.key = <<0, s.key[2]>> /\ s.key[1] = 0 /\ s.key[2] \in Coins
          /\ s.refresh_time = x.at /\ CountsOf(s.counts, s.key[2])
          /\ \A t \in x.rows : s.key = t.key => s = t
  BY DEF IInv, Carried, CountsOf
<1>4. \A r \in by_coin : r.key[1] = 0 => \E s \in x.rows : s.key = r.key /\ r.counts \subseteq s.counts
  BY DEF IInv, Carried
<1>5. \A i \in Intervals : i # 0
  BY BoundsAssumption
<1>6. /\ x.rows \subseteq by_coin'
      /\ \A r \in by_coin : (\A s \in x.rows : s.key # r.key) => r \in by_coin'
      /\ \A r \in by_coin' : r \in x.rows \/ (r \in by_coin /\ \A s \in x.rows : s.key # r.key)
      /\ \A r, s \in by_coin' : r.key = s.key => r = s
  <2>1. \A r \in by_coin \cup x.rows : r.refresh_time \in Nat
    BY <1>2, <1>3, Types
  <2>2. \A r, s \in by_coin : r.key = s.key => r = s
    BY DEF IInv, TypeOK, IsTable
  <2>3. \A r \in by_coin, s \in x.rows : r.key = s.key => r.refresh_time < s.refresh_time
    BY <1>3 DEF IInv, Dates
  <2> QED
    BY <1>1, <1>3, <2>1, <2>2, <2>3, AppendLater
<1>7. /\ \A r \in by_coin' : r.key[1] = 0 => r \in x.rows
      /\ \A r \in by_coin' : r.key[1] # 0 => r \in by_coin
      /\ \A r \in by_coin : r.key[1] # 0 => r \in by_coin'
  BY <1>3, <1>4, <1>6
<1>8. \A coin, f : In(by_coin, <<0, coin>>, f) => In(by_coin', <<0, coin>>, f)
  <2>1. \A r, coin : r.key = <<0, coin>> => r.key[1] = 0
    OBVIOUS
  <2> QED
    BY <1>4, <1>6, <2>1 DEF In
<1>9. \A r \in by_coin' :
          /\ r.key \in (Intervals \cup {0}) \X Coins /\ CountsOf(r.counts, r.key[2])
          /\ r.refresh_time \in Nat /\ r.refresh_time <= now
          /\ \A s \in by_coin' : r.key = s.key => r = s
  <2>1. \A r \in by_coin :
            r.key \in (Intervals \cup {0}) \X Coins /\ CountsOf(r.counts, r.key[2])
    BY Types DEF SourceTyped
  <2>2. \A r \in x.rows : r.key \in (Intervals \cup {0}) \X Coins
    <3>1. ASSUME NEW r \in x.rows PROVE r.key \in (Intervals \cup {0}) \X Coins
      <4>1. r.key = <<0, r.key[2]>> /\ r.key[2] \in Coins
        BY <1>3
      <4> DEFINE c == r.key[2]
      <4>2. <<0, c>> \in (Intervals \cup {0}) \X Coins
        BY <4>1
      <4> QED
        BY <4>1, <4>2
    <3> QED
      BY <3>1
  <2> QED
    BY <1>2, <1>3, <1>6, <2>1, <2>2, Types
<1>10. TypeOK'
  <2>1. Cardinality(running') = 0
    BY <1>1, FS_EmptySet
  <2> QED
    BY <1>1, <1>9, <2>1, SourceTable
<1>11. Dates'
  <2>1. \A r \in by_coin' : r.key[1] = 0 => AtAlltime(r.refresh_time)
    BY <1>2, <1>3, <1>7
  <2> QED
    BY <1>1, <1>2, <1>7, <1>9, <2>1 DEF IInv, Dates
<1>12. Carried'
  BY <1>1 DEF Carried
<1>13. Kept'
  <2>1. \A r \in by_coin' : r.key[1] = 0 =>
            now < r.refresh_time + AlltimePeriod /\ now < r.refresh_time + 2 * AlltimePeriod
    BY <1>2, <1>3, <1>7, Calendar, Types
  <2>2. /\ missed = 0 => \A v \in Boards : \A r \in boards[v] :
                 r.key[1] = 0 => AwaitsBoard(v, r.refresh_time + Hour)
        /\ missed <= 1 => \A v \in Boards : \A r \in boards[v] : r.key[1] = 0 =>
                  /\ AwaitsBoard(v, r.refresh_time + 2 * Hour)
                  /\ \A f \in r.counts : In(by_coin', <<0, f.coin>>, f)
    BY <1>8 DEF IInv, Kept
  <2>3. \A v, tick : AwaitsBoard(v, tick)' <=> AwaitsBoard(v, tick)
    BY <1>1 DEF AwaitsBoard
  <2> QED
    BY <1>1, <2>1, <2>2, <2>3 DEF Kept, AwaitsAlltime
<1>14. Counted'
  <2>1. missed = 0 => \A f \in Trades :
            \/ In(by_coin', <<0, f.coin>>, f)
            \/ \A a \in f.inserted + 1 .. now : AtAlltime(a) => a = now /\ "alltime" \in due
    <3>1. \A coin, f : In(x.rows, <<0, coin>>, f) => In(by_coin', <<0, coin>>, f)
      BY <1>6 DEF In
    <3> QED
      BY <1>2, <1>8, <3>1 DEF IInv, Counted
  <2>2. missed = 0 => \A f \in Trades : \A v \in Boards :
            \/ f \in Shown(v, 0)
            \/ \A b \in f.inserted + AlltimePeriod + 3 .. now :
                   v \in Scheduled(b) => b = now /\ v \in due
    BY DEF IInv, Counted
  <2>3. \A v : Shown(v, 0)' = Shown(v, 0)
    BY <1>1 DEF Shown
  <2> QED
    BY <1>1, <2>1, <2>2, <2>3, SameFills DEF Counted
<1>15. SourceHourly'
  <2>1. \A tick, i : Covered(tick, i)' = Covered(tick, i)
    BY <1>1, SameFills
  <2>2. \A i \in Intervals : \A coin, f, tick :
            CountedAt(by_coin, <<i, coin>>, f, tick) => CountedAt(by_coin', <<i, coin>>, f, tick)
    <3>1. \A i \in Intervals : \A r, coin : r.key = <<i, coin>> => r.key[1] # 0
      BY <1>5
    <3> QED
      BY <1>7, <3>1 DEF CountedAt
  <2>3. missed = 0 /\ "recent" \notin due => \A i \in Intervals : \A f \in Covered(HourOf(now), i) :
            CountedAt(by_coin', <<i, f.coin>>, f, HourOf(now))
    BY <2>2 DEF IInv, SourceHourly
  <2> QED
    BY <1>1, <2>1, <2>3 DEF SourceHourly
<1>16. BoardsHourly'
  <2>1. \A v, l : LatestRun(v, l)' <=> LatestRun(v, l)
    BY <1>1 DEF LatestRun
  <2> QED
    BY <1>1, <2>1, SameFills DEF IInv, BoardsHourly
<1> QED
  BY <1>10, <1>11, <1>12, <1>13, <1>14, <1>15, <1>16 DEF IInv

(* A leaderboard that refreshes finds all it has counted of all time.           *)
LEMMA RefreshedBoard ==
    ASSUME IInv, NEW v \in Boards, RefreshBoard(v)
    PROVE  /\ v \in due /\ v \in Scheduled(now) /\ due' = due \ {v} /\ DOMAIN boards' = Boards
           /\ UNCHANGED <<now, fills, by_coin, running, missed>>
           /\ \A w \in Boards : w # v => boards'[w] = boards[w] /\ (w \in due' <=> w \in due)
           /\ "recent" \notin due /\ "recent" \notin due' /\ ("alltime" \in due' <=> "alltime" \in due)
           /\ BoardRows(v) \subseteq boards'[v]
           /\ \A r \in boards'[v] : r \in BoardRows(v) \/ r \in boards[v]
           /\ \A r, s \in boards'[v] : r.key = s.key => r = s
           /\ missed <= 1 => \A r \in boards'[v] : r.key[1] = 0 => r \in BoardRows(v)
<1>1. /\ v \in due /\ due' = due \ {v} /\ boards' = [boards EXCEPT ![v] = Appended(@, BoardRows(v))]
      /\ UNCHANGED <<now, fills, by_coin, running, missed>>
  BY DEF RefreshBoard
<1>2. DOMAIN boards = Boards /\ v \in Scheduled(now)
  BY <1>1 DEF IInv, Dates, TypeOK
<1>3. boards'[v] = Appended(boards[v], BoardRows(v)) /\ DOMAIN boards' = Boards
      /\ \A w \in Boards : w # v => boards'[w] = boards[w]
  BY <1>1, <1>2
<1>4. "recent" \notin due
  <2>1. now % 4 \in {2, 3}
    BY <1>2, BoardHours, Types
  <2> QED
    BY <2>1, Schedule DEF IInv, TypeOK
<1>5. "alltime" \notin Boards
  BY DEF Boards
<1>6. /\ \A r \in BoardRows(v) : r.refresh_time = now
      /\ \A r, s \in BoardRows(v) : r.key = s.key => r = s
  BY BoardShape, Types
<1>7. /\ BoardRows(v) \subseteq boards'[v]
      /\ \A r \in boards'[v] :
            r \in BoardRows(v) \/ (r \in boards[v] /\ \A s \in BoardRows(v) : s.key # r.key)
      /\ \A r, s \in boards'[v] : r.key = s.key => r = s
  <2>1. \A r \in boards[v] \cup BoardRows(v) : r.refresh_time \in Nat
    BY <1>6, Types
  <2>2. \A r, s \in boards[v] : r.key = s.key => r = s
    BY DEF IInv, TypeOK, IsTable
  <2>3. \A r \in boards[v], s \in BoardRows(v) : r.key = s.key => r.refresh_time < s.refresh_time
    BY <1>1, <1>6 DEF IInv, Dates
  <2> QED
    BY <1>3, <1>6, <2>1, <2>2, <2>3, AppendLater
<1>8. ASSUME missed <= 1, NEW r \in boards[v], r.key[1] = 0
      PROVE  \E s \in BoardRows(v) : s.key = r.key
  <2>1. PICK f \in r.counts : f \in Trades
    BY DEF IInv, TypeOK, IsTable
  <2>2. r.key = <<0, r.key[2]>> /\ GroupOf(v, f.coin) = r.key[2]
    BY <1>8, <2>1 DEF IInv, Dates, TypeOK
  <2>3. In(by_coin, <<0, f.coin>>, f)
    BY <1>8, <2>1 DEF IInv, Kept
  <2>4. PICK c \in by_coin : c.key = <<0, f.coin>>
    BY <2>3 DEF In
  <2>5. PICK s \in BoardRows(v) : s.key = <<c.key[1], GroupOf(v, c.key[2])>>
    BY <2>4, BoardShape, Types
  <2>6. c.key[1] = 0 /\ c.key[2] = f.coin
    BY <2>4
  <2> QED
    BY <2>2, <2>5, <2>6
<1> QED
  BY <1>1, <1>2, <1>3, <1>4, <1>5, <1>7, <1>8

(* What it has counted stays counted.                                           *)
LEMMA BoardKeeps ==
    ASSUME IInv, missed <= 1, NEW v \in Boards, RefreshBoard(v), NEW w \in Boards
    PROVE  Shown(w, 0) \subseteq Shown(w, 0)'
<1>1. CASE w # v
  BY <1>1, RefreshedBoard DEF Shown
<1>2. CASE w = v
  <2> SUFFICES ASSUME NEW f \in Shown(v, 0) PROVE f \in Shown(v, 0)'
    BY <1>2
  <2>1. PICK r \in boards[v] : r.key[1] = 0 /\ f \in r.counts
    BY DEF Shown
  <2>2. In(by_coin, <<0, f.coin>>, f)
    BY <2>1 DEF IInv, Kept
  <2>3. PICK c \in by_coin : c.key = <<0, f.coin>> /\ f \in c.counts
    BY <2>2 DEF In
  <2>4. PICK s \in BoardRows(v) : s.key = <<c.key[1], GroupOf(v, c.key[2])>> /\ c.counts \subseteq s.counts
    BY BoardShape, Types
  <2>5. s.key[1] = 0 /\ f \in s.counts /\ s \in boards'[v]
    BY <2>3, <2>4, RefreshedBoard
  <2> QED
    BY <2>5 DEF Shown
<1> QED
  BY <1>1, <1>2

(* While no refresh fails, the source has a trade of all time as soon as this.  *)
LEMMA InSource ==
    ASSUME IInv, missed = 0, NEW f \in Trades, f.inserted + AlltimePeriod + 2 < now
    PROVE  In(by_coin, <<0, f.coin>>, f)
<1>1. f.inserted \in Nat /\ now \in Nat
  BY Types DEF Trades
<1>2. ASSUME NEW x \in running, x.at <= f.inserted + AlltimePeriod PROVE FALSE
  <2>1. now <= x.at + 2 /\ x.at \in Nat
    BY Types DEF IInv, Carried
  <2> QED
    BY <1>1, <1>2, <2>1, Calendar
<1>3. ASSUME \A a \in f.inserted + 1 .. now : AtAlltime(a) => a = now /\ "alltime" \in due
      PROVE  FALSE
  <2>1. PICK a \in f.inserted + 1 .. f.inserted + AlltimePeriod : AtAlltime(a)
    BY <1>1, NextAlltime
  <2> QED
    BY <1>1, <1>3, <2>1, Calendar
<1> QED
  BY <1>2, <1>3 DEF IInv, Counted

LEMMA RefreshBoardStep == ASSUME IInv, NEW v \in Boards, RefreshBoard(v) PROVE IInv'
<1>1. /\ v \in due /\ v \in Scheduled(now) /\ due' = due \ {v} /\ DOMAIN boards' = Boards
      /\ UNCHANGED <<now, fills, by_coin, running, missed>>
      /\ \A w \in Boards : w # v => boards'[w] = boards[w] /\ (w \in due' <=> w \in due)
      /\ "recent" \notin due /\ "recent" \notin due' /\ ("alltime" \in due' <=> "alltime" \in due)
      /\ BoardRows(v) \subseteq boards'[v]
      /\ \A r \in boards'[v] : r \in BoardRows(v) \/ r \in boards[v]
      /\ \A r, s \in boards'[v] : r.key = s.key => r = s
      /\ missed <= 1 => \A r \in boards'[v] : r.key[1] = 0 => r \in BoardRows(v)
  BY RefreshedBoard
<1>2. /\ \A r \in BoardRows(v) :
            /\ r.key = <<r.key[1], r.key[2]>> /\ r.refresh_time = now
            /\ r.counts \subseteq Countable /\ r.counts \cap Trades # {}
            /\ \A f \in r.counts :
                  GroupOf(v, f.coin) = r.key[2] /\ In(by_coin, <<r.key[1], f.coin>>, f)
      /\ \A s \in by_coin : \E r \in BoardRows(v) :
            r.key = <<s.key[1], GroupOf(v, s.key[2])>> /\ s.counts \subseteq r.counts
  BY BoardShape, Types
<1>3. v \notin due' /\ now \in Nat
  BY <1>1, Types
<1>4. TypeOK'
  <2>1. Countable' = Countable /\ Trades' = Trades
    BY <1>1, SameFills
  <2>2. IsTable(by_coin)'
    BY <1>1, <2>1 DEF IInv, TypeOK, IsTable
  <2>3. ASSUME NEW w \in Boards
        PROVE  /\ IsTable(boards[w])'
               /\ \A r \in boards'[w] : \A f \in r.counts : GroupOf(w, f.coin) = r.key[2]
    <3>1. CASE w # v
      <4>1. boards'[w] = boards[w]
        BY <1>1, <3>1
      <4> QED
        BY <1>1, <2>1, <4>1 DEF IInv, TypeOK, IsTable
    <3>2. CASE w = v
      <4>1. \A r \in boards[v] :
                /\ r.counts \subseteq Countable /\ r.counts \cap Trades # {}
                /\ r.refresh_time \in 0 .. now
                /\ \A f \in r.counts : GroupOf(v, f.coin) = r.key[2]
        BY DEF IInv, TypeOK, IsTable
      <4>2. \A r \in BoardRows(v) : r.refresh_time \in 0 .. now
        BY <1>2, <1>3
      <4> QED
        BY <1>1, <1>2, <2>1, <3>2, <4>1, <4>2 DEF IsTable
    <3> QED
      BY <3>1, <3>2
  <2> QED
    BY <1>1, <2>2, <2>3 DEF IInv, TypeOK, GroupOf
<1>5. Dates'
  <2>1. ASSUME NEW w \in Boards, NEW r \in boards'[w]
        PROVE  /\ r.key = <<r.key[1], r.key[2]>> /\ w \in Scheduled(r.refresh_time)
               /\ (w \in due' => r.refresh_time < now)
    <3>1. CASE w # v
      BY <1>1, <2>1, <3>1 DEF IInv, Dates
    <3>2. CASE w = v
      BY <1>1, <1>2, <1>3, <2>1, <3>2 DEF IInv, Dates
    <3> QED
      BY <3>1, <3>2
  <2> QED
    BY <1>1, <2>1 DEF IInv, Dates
<1>6. Carried'
  BY <1>1, SameFills DEF IInv, Carried
<1>7. Kept'
  <2>1. \A tick : AwaitsAlltime(tick)' <=> AwaitsAlltime(tick)
    BY <1>1 DEF AwaitsAlltime
  <2>2. ASSUME missed <= 1, NEW r \in boards'[v], r.key[1] = 0
        PROVE  /\ now < r.refresh_time + Hour /\ now < r.refresh_time + 2 * Hour
               /\ \A f \in r.counts : In(by_coin, <<0, f.coin>>, f)
    <3>1. r \in BoardRows(v)
      BY <1>1, <2>2
    <3> QED
      BY <1>2, <1>3, <2>2, <3>1, Calendar
  <2>3. ASSUME NEW w \in Boards, w # v PROVE boards'[w] = boards[w]
                    /\ \A tick : AwaitsBoard(w, tick)' <=> AwaitsBoard(w, tick)
    BY <1>1, <2>3 DEF AwaitsBoard
  <2>4. ASSUME missed = 0, NEW w \in Boards, NEW r \in boards'[w], r.key[1] = 0
        PROVE  AwaitsBoard(w, r.refresh_time + Hour)'
    <3>1. CASE w # v
      BY <2>3, <2>4, <3>1 DEF IInv, Kept
    <3>2. CASE w = v
      BY <1>1, <2>2, <2>4, <3>2 DEF AwaitsBoard
    <3> QED
      BY <3>1, <3>2
  <2>5. ASSUME missed <= 1, NEW w \in Boards, NEW r \in boards'[w], r.key[1] = 0
        PROVE  /\ AwaitsBoard(w, r.refresh_time + 2 * Hour)'
               /\ \A f \in r.counts : In(by_coin, <<0, f.coin>>, f)
    <3>1. CASE w # v
      BY <2>3, <2>5, <3>1 DEF IInv, Kept
    <3>2. CASE w = v
      BY <1>1, <2>2, <2>5, <3>2 DEF AwaitsBoard
    <3> QED
      BY <3>1, <3>2
  <2> QED
    BY <1>1, <2>1, <2>4, <2>5 DEF IInv, Kept
<1>8. Counted'
  <2>1. ASSUME missed = 0, NEW f \in Trades, NEW w \in Boards, f \notin Shown(w, 0)'
        PROVE  \A b \in f.inserted + AlltimePeriod + 3 .. now :
                   w \in Scheduled(b) => b = now /\ w \in due'
    <3>1. \A b \in f.inserted + AlltimePeriod + 3 .. now :
              w \in Scheduled(b) => b = now /\ w \in due
      <4>1. f \notin Shown(w, 0)
        BY <2>1, BoardKeeps
      <4> QED
        BY <2>1, <4>1 DEF IInv, Counted
    <3>2. CASE w # v
      BY <1>1, <3>1, <3>2
    <3>3. ASSUME w = v, NEW b \in f.inserted + AlltimePeriod + 3 .. now PROVE FALSE
      <4>1. f.inserted \in Nat
        BY Types DEF Trades
      <4>2. f.inserted + AlltimePeriod + 2 < now
        BY <1>3, <3>3, <4>1, Calendar
      <4>3. PICK c \in by_coin : c.key = <<0, f.coin>> /\ f \in c.counts
        BY <2>1, <4>2, InSource DEF In
      <4>4. PICK s \in BoardRows(v) :
                s.key = <<c.key[1], GroupOf(v, c.key[2])>> /\ c.counts \subseteq s.counts
        BY <1>2
      <4>5. s.key[1] = 0 /\ f \in s.counts /\ s \in boards'[v]
        BY <1>1, <4>3, <4>4
      <4> QED
        BY <2>1, <3>3, <4>5 DEF Shown
    <3> QED
      BY <3>2, <3>3
  <2>2. missed = 0 => \A f \in Trades : \A w \in Boards :
            \/ f \in Shown(w, 0)'
            \/ \A b \in f.inserted + AlltimePeriod + 3 .. now :
                   w \in Scheduled(b) => b = now /\ w \in due'
    BY <2>1
  <2>3. missed = 0 => \A f \in Trades :
            \/ In(by_coin, <<0, f.coin>>, f)
            \/ \E x \in running : x.at <= f.inserted + AlltimePeriod /\ In(x.rows, <<0, f.coin>>, f)
            \/ \A a \in f.inserted + 1 .. now : AtAlltime(a) => a = now /\ "alltime" \in due
    BY DEF IInv, Counted
  <2> QED
    BY <1>1, <2>2, <2>3, SameFills DEF Counted
<1>9. SourceHourly'
  <2>1. \A tick, i : Covered(tick, i)' = Covered(tick, i)
    BY <1>1, SameFills
  <2> QED
    BY <1>1, <2>1 DEF IInv, SourceHourly
<1>10. BoardsHourly'
  <2>1. ASSUME missed = 0, NEW w \in Boards, NEW i \in Intervals, NEW l \in 0 .. now,
               LatestRun(w, l)', NEW f \in Covered(HourOf(l), i)
        PROVE  ShownAt(boards'[w], i, f, l)
    <3>1. CASE w # v
      <4>1. LatestRun(w, l) /\ boards'[w] = boards[w]
        BY <1>1, <2>1, <3>1 DEF LatestRun
      <4> QED
        BY <2>1, <4>1 DEF IInv, BoardsHourly
    <3>2. CASE w = v
      <4>1. l = now
        <5>1. l \in Nat /\ l <= now /\ v \in Scheduled(l) /\ now <= l + 4 /\ (now = l + 4 => FALSE)
          BY <1>1, <1>3, <2>1, <3>2, Calendar DEF LatestRun
        <5>2. l < now => l + 4 <= now
          BY <1>1, <1>3, <5>1, BoardHours
        <5> QED
          BY <1>3, <5>1, <5>2
      <4>2. CountedAt(by_coin, <<i, f.coin>>, f, HourOf(now))
        BY <1>1, <2>1, <4>1 DEF IInv, SourceHourly
      <4>3. PICK c \in by_coin : c.key = <<i, f.coin>> /\ f \in c.counts
        BY <4>2 DEF CountedAt
      <4>4. PICK s \in BoardRows(v) :
                s.key = <<c.key[1], GroupOf(v, c.key[2])>> /\ c.counts \subseteq s.counts
        BY <1>2
      <4>5. s.key[1] = i /\ f \in s.counts /\ s \in boards'[v] /\ s.refresh_time = now
        BY <1>1, <1>2, <4>3, <4>4
      <4> QED
        BY <3>2, <4>1, <4>5 DEF ShownAt
    <3> QED
      BY <3>1, <3>2
  <2>2. \A tick, i : Covered(tick, i)' = Covered(tick, i)
    BY <1>1, SameFills
  <2> QED
    BY <1>1, <2>1, <2>2 DEF BoardsHourly
<1> QED
  BY <1>4, <1>5, <1>6, <1>7, <1>8, <1>9, <1>10 DEF IInv

LEMMA MissStep == ASSUME IInv, NEW view \in Views, Miss(view) PROVE IInv'
<1>1. /\ missed' = missed + 1 /\ missed < MaxMissed /\ due' = due \ {view}
      /\ UNCHANGED <<now, fills, by_coin, boards, running>>
  BY DEF Miss
<1>2. missed' # 0 /\ (missed' <= 1 => missed = 0) /\ missed' \in 0 .. MaxMissed
  BY <1>1, Calendar, Types
<1>3. TypeOK'
  BY <1>1, <1>2, SameFills DEF IInv, TypeOK, IsTable, GroupOf
<1>4. Dates'
  BY <1>1 DEF IInv, Dates
<1>5. Carried'
  BY <1>1, SameFills DEF IInv, Carried
<1>6. Kept'
  <2>1. ASSUME missed = 0, NEW r \in by_coin, r.key[1] = 0
        PROVE  now < r.refresh_time + 2 * AlltimePeriod
    <3>1. AwaitsAlltime(r.refresh_time + AlltimePeriod)
      BY <2>1 DEF IInv, Kept
    <3>2. \A x \in running : now <= x.at + 2
      BY DEF IInv, Carried
    <3> QED
      BY <3>1, <3>2, Calendar, Types DEF AwaitsAlltime
  <2>2. ASSUME missed = 0, NEW v \in Boards, NEW r \in boards[v], r.key[1] = 0
        PROVE  now < r.refresh_time + 2 * Hour
    <3>1. AwaitsBoard(v, r.refresh_time + Hour)
      BY <2>2 DEF IInv, Kept
    <3> QED
      BY <3>1, Calendar, Types DEF AwaitsBoard
  <2>3. missed = 0 => \A v \in Boards : \A r \in boards[v] : r.key[1] = 0 =>
                          \A f \in r.counts : In(by_coin, <<0, f.coin>>, f)
    <3>1. missed = 0 => missed <= 1
      OBVIOUS
    <3> QED
      BY <3>1 DEF IInv, Kept
  <2>4. \A v, tick : now < tick => AwaitsBoard(v, tick)' /\ AwaitsAlltime(tick)'
    BY <1>1 DEF AwaitsBoard, AwaitsAlltime
  <2> QED
    BY <1>1, <1>2, <2>1, <2>2, <2>3, <2>4 DEF Kept
<1>7. Counted' /\ SourceHourly' /\ BoardsHourly'
  BY <1>2 DEF Counted, SourceHourly, BoardsHourly
<1> QED
  BY <1>3, <1>4, <1>5, <1>6, <1>7 DEF IInv

(* No row of all time expires unless two refreshes have failed.                 *)
LEMMA Outlives ==
    ASSUME IInv, missed <= 1
    PROVE  /\ \A r \in by_coin : r.key[1] = 0 => ~IsExpired(r, SourceTTL, now)
           /\ \A v \in Boards : \A r \in boards[v] : r.key[1] = 0 => ~IsExpired(r, BoardTTL, now)
<1>1. ASSUME NEW r \in by_coin, r.key[1] = 0 PROVE ~IsExpired(r, SourceTTL, now)
  <2>1. AwaitsAlltime(r.refresh_time + 2 * AlltimePeriod)
    BY <1>1 DEF IInv, Kept
  <2>2. \A x \in running : now <= x.at + 2
    BY DEF IInv, Carried
  <2>3. now <= r.refresh_time + 2 * AlltimePeriod + 2
    BY <2>1, <2>2, Calendar, Types DEF AwaitsAlltime
  <2> QED
    BY <2>3, Calendar, Types DEF IsExpired
<1>2. ASSUME NEW v \in Boards, NEW r \in boards[v], r.key[1] = 0
      PROVE  ~IsExpired(r, BoardTTL, now)
  <2>1. AwaitsBoard(v, r.refresh_time + 2 * Hour)
    BY <1>2 DEF IInv, Kept
  <2> QED
    BY <2>1, Calendar, Types DEF IsExpired, AwaitsBoard
<1> QED
  BY <1>1, <1>2

LEMMA ExpireSourceStep ==
    ASSUME IInv, NEW r \in by_coin, IsExpired(r, SourceTTL, now), by_coin' = by_coin \ {r},
           UNCHANGED <<now, fills, boards, due, running, missed>>
    PROVE  IInv'
<1>1. missed <= 1 => r.key[1] # 0
  BY Outlives
<1>2. missed <= 1 =>
          \A coin, f : In(by_coin, <<0, coin>>, f) => In(by_coin', <<0, coin>>, f)
  <2>1. \A s, coin : s.key = <<0, coin>> => s.key[1] = 0
    OBVIOUS
  <2> QED
    BY <1>1, <2>1 DEF In
<1>3. missed = 0 => missed <= 1
  OBVIOUS
<1>4. TypeOK'
  BY SameFills DEF IInv, TypeOK, IsTable, GroupOf
<1>5. Dates'
  BY DEF IInv, Dates
<1>6. Carried'
  BY SameFills DEF IInv, Carried
<1>7. Kept'
  <2>1. \A v, tick : (AwaitsBoard(v, tick)' <=> AwaitsBoard(v, tick))
                     /\ (AwaitsAlltime(tick)' <=> AwaitsAlltime(tick))
    BY DEF AwaitsBoard, AwaitsAlltime
  <2> QED
    BY <1>2, <2>1 DEF IInv, Kept
<1>8. Counted'
  <2>1. \A v : Shown(v, 0)' = Shown(v, 0)
    BY DEF Shown
  <2> QED
    BY <1>2, <1>3, <2>1, SameFills DEF IInv, Counted, In
<1>9. SourceHourly'
  <2>1. \A tick, i : Covered(tick, i)' = Covered(tick, i)
    BY SameFills
  <2>2. r.refresh_time # HourOf(now)
    <3>1. now < HourOf(now) + 4 /\ HourOf(now) \in Nat
      BY HourStart, Types
    <3>2. SourceTTL >= 4
      BY Calendar
    <3> QED
      BY <3>1, <3>2, Calendar, Types DEF IsExpired
  <2>3. \A key, f : CountedAt(by_coin, key, f, HourOf(now)) => CountedAt(by_coin', key, f, HourOf(now))
    BY <2>2 DEF CountedAt
  <2>4. missed = 0 /\ "recent" \notin due => \A i \in Intervals : \A f \in Covered(HourOf(now), i) :
            CountedAt(by_coin', <<i, f.coin>>, f, HourOf(now))
    BY <2>3 DEF IInv, SourceHourly
  <2> QED
    BY <2>1, <2>4 DEF SourceHourly
<1>10. BoardsHourly'
  <2>1. \A v, l : LatestRun(v, l)' <=> LatestRun(v, l)
    BY DEF LatestRun
  <2> QED
    BY <2>1, SameFills DEF IInv, BoardsHourly
<1> QED
  BY <1>4, <1>5, <1>6, <1>7, <1>8, <1>9, <1>10 DEF IInv

LEMMA ExpireBoardStep ==
    ASSUME IInv, NEW v \in Boards, NEW r \in boards[v], IsExpired(r, BoardTTL, now),
           boards' = [boards EXCEPT ![v] = @ \ {r}],
           UNCHANGED <<now, fills, by_coin, due, running, missed>>
    PROVE  IInv'
<1>1. missed <= 1 => r.key[1] # 0
  BY Outlives
<1>2. /\ DOMAIN boards' = Boards /\ boards'[v] = boards[v] \ {r}
      /\ \A w \in Boards : w # v => boards'[w] = boards[w]
  BY DEF IInv, Dates
<1>3. \A w \in Boards : boards'[w] \subseteq boards[w]
  BY <1>2
<1>4. TypeOK'
  BY <1>3, SameFills DEF IInv, TypeOK, IsTable, GroupOf
<1>5. Dates'
  BY <1>2, <1>3 DEF IInv, Dates
<1>6. Carried'
  BY SameFills DEF IInv, Carried
<1>7. Kept'
  <2>1. \A w, tick : (AwaitsBoard(w, tick)' <=> AwaitsBoard(w, tick))
                     /\ (AwaitsAlltime(tick)' <=> AwaitsAlltime(tick))
    BY DEF AwaitsBoard, AwaitsAlltime
  <2> QED
    BY <1>3, <2>1 DEF IInv, Kept, In
<1>8. missed <= 1 => \A w \in Boards : Shown(w, 0) \subseteq Shown(w, 0)'
  <2>1. ASSUME missed <= 1, NEW w \in Boards, NEW f \in Shown(w, 0) PROVE f \in Shown(w, 0)'
    <3>1. PICK s \in boards[w] : s.key[1] = 0 /\ f \in s.counts
      BY <2>1 DEF Shown
    <3>2. s \in boards'[w]
      BY <1>1, <1>2, <2>1, <3>1
    <3> QED
      BY <3>1, <3>2 DEF Shown
  <2> QED
    BY <2>1
<1>9. Counted'
  <2>1. missed = 0 => \A f \in Trades : \A w \in Boards :
            \/ f \in Shown(w, 0)'
            \/ \A b \in f.inserted + AlltimePeriod + 3 .. now :
                   w \in Scheduled(b) => b = now /\ w \in due
    <3>1. missed = 0 => missed <= 1
      OBVIOUS
    <3> QED
      BY <1>8, <3>1 DEF IInv, Counted
  <2>2. missed = 0 => \A f \in Trades :
            \/ In(by_coin, <<0, f.coin>>, f)
            \/ \E x \in running : x.at <= f.inserted + AlltimePeriod /\ In(x.rows, <<0, f.coin>>, f)
            \/ \A a \in f.inserted + 1 .. now : AtAlltime(a) => a = now /\ "alltime" \in due
    BY DEF IInv, Counted
  <2> QED
    BY <2>1, <2>2, SameFills DEF Counted
<1>10. SourceHourly'
  <2>1. \A tick, i : Covered(tick, i)' = Covered(tick, i)
    BY SameFills
  <2> QED
    BY <2>1 DEF IInv, SourceHourly
<1>11. BoardsHourly'
  <2>1. \A w, l : LatestRun(w, l)' <=> LatestRun(w, l)
    BY DEF LatestRun
  <2>2. ASSUME NEW w \in Boards, NEW i, NEW f, NEW l \in 0 .. now, LatestRun(w, l),
               ShownAt(boards[w], i, f, l)
        PROVE  ShownAt(boards'[w], i, f, l)
    <3>1. PICK s \in boards[w] : s.key[1] = i /\ f \in s.counts /\ s.refresh_time = l
      BY <2>2 DEF ShownAt
    <3>2. now <= l + 4
      BY <2>2, Calendar DEF LatestRun
    <3>3. s # r
      BY <3>1, <3>2, Calendar, Types DEF IsExpired
    <3>4. s \in boards'[w]
      BY <1>2, <3>1, <3>3
    <3> QED
      BY <3>1, <3>4 DEF ShownAt
  <2>3. missed = 0 => \A w \in Boards, i \in Intervals, l \in 0 .. now :
            LatestRun(w, l) => \A f \in Covered(HourOf(l), i) : ShownAt(boards'[w], i, f, l)
    BY <2>2 DEF IInv, BoardsHourly
  <2> QED
    BY <2>1, <2>3, SameFills DEF BoardsHourly
<1> QED
  BY <1>4, <1>5, <1>6, <1>7, <1>9, <1>10, <1>11 DEF IInv

LEMMA ExpireStep == ASSUME IInv, Expire PROVE IInv'
BY ExpireSourceStep, ExpireBoardStep DEF Expire

LEMMA TickStep == ASSUME IInv, Tick PROVE IInv'
<1>1. /\ now < LastTick /\ due = {} /\ (running # {} => (now + 1) % 4 # 0)
      /\ now' = now + 1 /\ due' = Scheduled(now + 1)
      /\ UNCHANGED <<fills, by_coin, boards, running, missed>>
  BY DEF Tick, Hour
<1>2. now \in Nat /\ now + 1 \in Nat /\ now + 1 \in 0 .. LastTick
  BY <1>1, Calendar, Types
<1>3. TypeOK'
  <2>1. Countable' = Countable /\ Trades' = Trades
    BY <1>1, SameFills
  <2>2. \A t \in 0 .. now : t \in 0 .. now + 1
    BY <1>2
  <2>3. IsTable(by_coin)'
    BY <1>1, <2>1, <2>2 DEF IInv, TypeOK, IsTable
  <2>4. \A v \in Boards : IsTable(boards[v])'
    BY <1>1, <2>1, <2>2 DEF IInv, TypeOK, IsTable
  <2>5. \A f \in fills : f.inserted \in f.time .. now + 1
    BY <1>2, Types DEF IInv, TypeOK
  <2> QED
    BY <1>1, <1>2, <2>3, <2>4, <2>5 DEF IInv, TypeOK, GroupOf
<1>4. \A x \in running : AtAlltime(x.at) /\ x.at \in Nat /\ x.at <= now /\ now + 1 <= x.at + 2
  <2>1. ASSUME NEW x \in running
        PROVE  AtAlltime(x.at) /\ x.at \in Nat /\ x.at <= now /\ now + 1 <= x.at + 2
    <3>1. AtAlltime(x.at) /\ x.at \in Nat /\ x.at <= now /\ now <= x.at + 2
      BY Types DEF IInv, Carried
    <3>2. x.at % 4 = 1
      BY <3>1, AlltimeQuarter
    <3>3. (now + 1) % 4 # 0
      BY <1>1
    <3> QED
      BY <1>2, <3>1, <3>2, <3>3
  <2> QED
    BY <2>1
<1>5. Dates'
  <2>1. \A r \in by_coin : r.refresh_time < now + 1
    BY <1>2, Types
  <2>2. \A v \in Boards : \A r \in boards[v] : r.refresh_time < now + 1
    BY <1>2, Types
  <2>3. ASSUME "alltime" \in due', NEW x \in running PROVE FALSE
    <3>1. AtAlltime(now + 1)
      BY <1>1, <2>3, Schedule
    <3>2. x.at + AlltimePeriod <= now + 1
      BY <1>2, <1>4, <3>1, AlltimeApart
    <3> QED
      BY <1>2, <1>4, <3>2, Calendar
  <2> QED
    BY <1>1, <2>1, <2>2, <2>3 DEF IInv, Dates
<1>6. Carried'
  <2>1. \A x \in running : x.at \in 0 .. now + 1
    BY <1>2, <1>4
  <2> QED
    BY <1>1, <1>4, <2>1, SameFills DEF IInv, Carried
<1>7. Kept'
  <2>1. ASSUME NEW tick \in Nat, AtAlltime(tick), AwaitsAlltime(tick) PROVE AwaitsAlltime(tick)'
    <3>1. CASE now < tick
      <4>1. now + 1 < tick \/ now + 1 = tick
        BY <1>2, <3>1
      <4> QED
        BY <1>1, <2>1, <4>1, Schedule DEF AwaitsAlltime
    <3>2. CASE \E x \in running : x.at = tick
      BY <1>1, <3>2 DEF AwaitsAlltime
    <3> QED
      BY <1>1, <2>1, <3>1, <3>2 DEF AwaitsAlltime
  <2>2. ASSUME NEW v \in Boards, NEW tick \in Nat, v \in Scheduled(tick), AwaitsBoard(v, tick)
        PROVE  AwaitsBoard(v, tick)'
    <3>1. now < tick
      BY <1>1, <2>2 DEF AwaitsBoard
    <3>2. now + 1 < tick \/ now + 1 = tick
      BY <1>2, <3>1
    <3> QED
      BY <1>1, <2>2, <3>2 DEF AwaitsBoard
  <2>3. \A r \in by_coin : r.key[1] = 0 =>
            /\ r.refresh_time + AlltimePeriod \in Nat /\ AtAlltime(r.refresh_time + AlltimePeriod)
            /\ r.refresh_time + 2 * AlltimePeriod \in Nat
            /\ AtAlltime(r.refresh_time + 2 * AlltimePeriod)
    BY AlltimeApart, Calendar, Types DEF IInv, Dates
  <2>4. \A v \in Boards : \A r \in boards[v] :
            /\ r.refresh_time + Hour \in Nat /\ v \in Scheduled(r.refresh_time + Hour)
            /\ r.refresh_time + 2 * Hour \in Nat /\ v \in Scheduled(r.refresh_time + 2 * Hour)
    <3>1. Hour = 4 /\ 2 * Hour = 8
      BY Calendar
    <3> QED
      BY <3>1, BoardHours, Types DEF IInv, Dates
  <2>5. missed = 0 =>
            /\ \A r \in by_coin : r.key[1] = 0 => AwaitsAlltime(r.refresh_time + AlltimePeriod)'
            /\ \A v \in Boards : \A r \in boards[v] :
                   r.key[1] = 0 => AwaitsBoard(v, r.refresh_time + Hour)'
    BY <2>1, <2>2, <2>3, <2>4 DEF IInv, Kept
  <2>6. missed <= 1 =>
            /\ \A r \in by_coin : r.key[1] = 0 => AwaitsAlltime(r.refresh_time + 2 * AlltimePeriod)'
            /\ \A v \in Boards : \A r \in boards[v] : r.key[1] = 0 =>
                  /\ AwaitsBoard(v, r.refresh_time + 2 * Hour)'
                  /\ \A f \in r.counts : In(by_coin, <<0, f.coin>>, f)
    BY <2>1, <2>2, <2>3, <2>4 DEF IInv, Kept
  <2> QED
    BY <1>1, <2>5, <2>6 DEF Kept
<1>8. Counted'
  <2>1. ASSUME NEW f \in Trades, NEW low \in Nat,
               \A a \in low .. now : AtAlltime(a) => a = now /\ "alltime" \in due
        PROVE  \A a \in low .. now + 1 : AtAlltime(a) => a = now + 1 /\ "alltime" \in due'
    <3>1. ASSUME NEW a \in low .. now + 1, AtAlltime(a) PROVE a = now + 1 /\ "alltime" \in due'
      <4>1. a \notin low .. now
        BY <1>1, <2>1, <3>1
      <4>2. a = now + 1
        BY <1>2, <3>1, <4>1
      <4> QED
        BY <1>1, <3>1, <4>2, Schedule
    <3> QED
      BY <3>1
  <2>2. ASSUME NEW v \in Boards, NEW low \in Nat,
               \A b \in low .. now : v \in Scheduled(b) => b = now /\ v \in due
        PROVE  \A b \in low .. now + 1 : v \in Scheduled(b) => b = now + 1 /\ v \in due'
    <3>1. ASSUME NEW b \in low .. now + 1, v \in Scheduled(b) PROVE b = now + 1 /\ v \in due'
      <4>1. b \notin low .. now
        BY <1>1, <2>2, <3>1
      <4>2. b = now + 1
        BY <1>2, <3>1, <4>1
      <4> QED
        BY <1>1, <3>1, <4>2
    <3> QED
      BY <3>1
  <2>3. \A f \in Trades : f.inserted + 1 \in Nat /\ f.inserted + AlltimePeriod + 3 \in Nat
    BY Calendar, Types DEF Trades
  <2>4. missed = 0 => \A f \in Trades :
            \/ In(by_coin, <<0, f.coin>>, f)
            \/ \E x \in running : x.at <= f.inserted + AlltimePeriod /\ In(x.rows, <<0, f.coin>>, f)
            \/ \A a \in f.inserted + 1 .. now + 1 : AtAlltime(a) => a = now + 1 /\ "alltime" \in due'
    BY <2>1, <2>3 DEF IInv, Counted
  <2>5. missed = 0 => \A f \in Trades : \A v \in Boards :
            \/ f \in Shown(v, 0)
            \/ \A b \in f.inserted + AlltimePeriod + 3 .. now + 1 :
                   v \in Scheduled(b) => b = now + 1 /\ v \in due'
    BY <2>2, <2>3 DEF IInv, Counted
  <2>6. \A v : Shown(v, 0)' = Shown(v, 0)
    BY <1>1 DEF Shown
  <2> QED
    BY <1>1, <2>4, <2>5, <2>6, SameFills DEF Counted
<1>9. SourceHourly'
  <2>1. "recent" \notin due' => HourOf(now + 1) = HourOf(now)
    BY <1>1, <1>2, HourStart, Schedule
  <2>2. "recent" \notin due
    BY <1>1
  <2>3. \A tick, i : Covered(tick, i)' = Covered(tick, i)
    BY <1>1, SameFills
  <2> QED
    BY <1>1, <2>1, <2>2, <2>3 DEF IInv, SourceHourly
<1>10. BoardsHourly'
  <2>1. ASSUME NEW v \in Boards, NEW l \in 0 .. now + 1, LatestRun(v, l)'
        PROVE  l \in 0 .. now /\ LatestRun(v, l)
    <3>1. v \in Scheduled(l) /\ ~(l = now + 1 /\ v \in Scheduled(now + 1)) /\ now + 1 <= l + 4
      BY <1>1, <2>1, Calendar DEF LatestRun
    <3>2. l \in 0 .. now /\ now <= l + 4 /\ now # l + 4
      BY <1>2, <3>1
    <3> QED
      BY <1>1, <3>1, <3>2, Calendar DEF LatestRun
  <2>2. missed = 0 => \A v \in Boards, i \in Intervals, l \in 0 .. now + 1 :
            LatestRun(v, l)' => \A f \in Covered(HourOf(l), i) : ShownAt(boards[v], i, f, l)
    BY <2>1 DEF IInv, BoardsHourly
  <2>3. \A tick, i : Covered(tick, i)' = Covered(tick, i)
    BY <1>1, SameFills
  <2> QED
    BY <1>1, <2>2, <2>3 DEF BoardsHourly
<1> QED
  BY <1>3, <1>5, <1>6, <1>7, <1>8, <1>9, <1>10 DEF IInv

LEMMA IInvStep == IInv /\ [Next]_vars => IInv'
<1> SUFFICES ASSUME IInv, [Next]_vars PROVE IInv'
  OBVIOUS
<1>1. CASE UNCHANGED vars
  <2>1. UNCHANGED <<now, fills, by_coin, boards, due, running, missed>>
    BY <1>1 DEF vars
  <2>2. TypeOK' /\ Dates' /\ Carried' /\ Kept'
    BY <2>1, SameFills DEF IInv, TypeOK, IsTable, GroupOf, Dates, Carried, Kept, AwaitsAlltime,
                           AwaitsBoard, In
  <2>3. Counted'
    BY <2>1, SameFills DEF IInv, Counted, Shown, In
  <2>4. SourceHourly' /\ BoardsHourly'
    BY <2>1, SameFills DEF IInv, SourceHourly, BoardsHourly, LatestRun
  <2> QED
    BY <2>2, <2>3, <2>4 DEF IInv
<1>2. ASSUME NEW coin \in Coins, NEW kind \in Kinds, NEW time \in 0 .. LastFill,
             Ingest(coin, kind, time)
      PROVE  IInv'
  BY <1>2, IngestStep
<1>3. ASSUME NEW v \in Boards, RefreshBoard(v) PROVE IInv'
  BY <1>3, RefreshBoardStep
<1>4. ASSUME NEW v \in Views, Miss(v) PROVE IInv'
  BY <1>4, MissStep
<1>5. CASE RefreshRecent \/ StartAlltime \/ FinishAlltime \/ Expire \/ Tick
  BY <1>5, RefreshRecentStep, StartAlltimeStep, FinishAlltimeStep, ExpireStep, TickStep
<1> QED
  BY <1>1, <1>2, <1>3, <1>4, <1>5 DEF Next

LEMMA Invariance == Spec => []IInv
BY InitIInv, IInvStep, PTL DEF Spec

-------------------------------------------------------------------------------
(* The theorems.                                                                *)

(* The source has one row of a coin and interval, a leaderboard one of a group, *)
(* each counting at least a trade and only what it should, at most one all-time *)
(* refresh is under way, and only what is scheduled is due.                     *)
THEOREM TypeCorrect == Spec => []TypeOK
BY Invariance, PTL DEF IInv

LEMMA NoDrop ==
    ASSUME IInv, [Next]_vars, missed' <= 1, NEW v \in Boards
    PROVE  Shown(v, 0) \subseteq Shown(v, 0)'
<1>1. CASE UNCHANGED boards
  BY <1>1 DEF Shown
<1>2. missed <= 1 \/ \E view \in Views : Miss(view)
  BY DEF Next, Ingest, RefreshRecent, StartAlltime, FinishAlltime, RefreshBoard, Expire, Tick, vars
<1>3. ASSUME NEW w \in Boards, RefreshBoard(w) PROVE Shown(v, 0) \subseteq Shown(v, 0)'
  <2>1. missed <= 1
    BY <1>3 DEF RefreshBoard
  <2> QED
    BY <1>3, <2>1, BoardKeeps
<1>4. ASSUME NEW w \in Boards, NEW r \in boards[w], IsExpired(r, BoardTTL, now),
             boards' = [boards EXCEPT ![w] = @ \ {r}], missed' = missed
      PROVE  Shown(v, 0) \subseteq Shown(v, 0)'
  <2>1. r.key[1] # 0
    BY <1>4, Outlives
  <2>2. boards'[w] = boards[w] \ {r} /\ (v # w => boards'[v] = boards[v])
    BY <1>4 DEF IInv, Dates
  <2>3. ASSUME NEW f \in Shown(v, 0) PROVE f \in Shown(v, 0)'
    <3>1. PICK s \in boards[v] : s.key[1] = 0 /\ f \in s.counts
      BY DEF Shown
    <3>2. s \in boards'[v]
      BY <2>1, <2>2, <3>1
    <3> QED
      BY <3>1, <3>2 DEF Shown
  <2> QED
    BY <2>3
<1>5. CASE Expire
  BY <1>1, <1>4, <1>5 DEF Expire
<1> QED
  BY <1>1, <1>3, <1>5 DEF Next, Ingest, RefreshRecent, StartAlltime, FinishAlltime, Miss, Tick, vars

(* No step of the views, the sink or the clock takes a trade out of the         *)
(* all-time totals of a leaderboard, whatever overlaps and expires, until a     *)
(* second refresh fails.                                                        *)
THEOREM TotalsNeverDrop == Spec => AlltimeNeverDrops
<1>1. IInv /\ [Next]_vars => [missed' <= 1 => \A v \in Boards : Shown(v, 0) \subseteq Shown(v, 0)']_vars
  BY NoDrop
<1> QED
  BY <1>1, Invariance, PTL DEF Spec, AlltimeNeverDrops

LEMMA Lagging == IInv => AlltimeLag
<1> SUFFICES ASSUME IInv, missed = 0, NEW v \in Boards, NEW f \in Trades,
                    f.inserted + AlltimePeriod + Hour + 2 < now
             PROVE  f \in Shown(v, 0)
  BY DEF AlltimeLag
<1>1. f.inserted \in Nat /\ now \in Nat
  BY Types DEF Trades
<1>2. PICK x \in Nat : x = f.inserted + AlltimePeriod + 3 /\ x + 3 < now
  BY <1>1, Calendar
<1>3. PICK b \in x .. x + 3 : v \in Scheduled(b)
  BY NextBoard
<1>4. b \in f.inserted + AlltimePeriod + 3 .. now /\ b # now
  BY <1>1, <1>2
<1> QED
  BY <1>3, <1>4 DEF IInv, Counted

(* Until a refresh fails, a trade is in the all-time totals of a leaderboard no *)
(* later than the period of that refresh, its length and an hour after it was   *)
(* inserted, for any period.                                                    *)
THEOREM AlltimeLagBounded == Spec => []AlltimeLag
BY Invariance, Lagging, PTL

LEMMA LastRunLatest ==
    ASSUME IInv, NEW v \in Boards
    PROVE  LastRun(v) = 0 \/ (LastRun(v) \in 0 .. now /\ LatestRun(v, LastRun(v)))
<1> DEFINE runs == {t \in 0 .. now : v \in Scheduled(t) /\ ~(t = now /\ v \in due)}
           Last(t) == \A u \in runs : u <= t
<1>1. LastRun(v) = CHOOSE t \in runs \cup {0} : Last(t)
  BY DEF LastRun
<1>2. now \in Nat
  BY Types
<1>3. PICK k \in {2, 3} : \A tick : v \in Scheduled(tick) <=> tick % 4 = k
  BY Schedule DEF Boards
<1>4. PICK c \in Int : /\ \A u \in runs : u <= c
                       /\ c >= 0 => c \in runs /\ LatestRun(v, c)
  <2>1. PICK b \in now .. now + 3 : v \in Scheduled(b)
    BY <1>2, NextBoard
  <2>2. b \in Nat /\ b % 4 = k /\ (b - 4 >= 0 => (b - 4) % 4 = k)
    BY <1>2, <1>3, <2>1
  <2>3. ASSUME NEW u \in runs, u < b PROVE u <= b - 4
    BY <1>2, <1>3, <2>2, <2>3
  <2>4. CASE b = now /\ v \notin due
    <3>1. \A u \in runs : u <= b
      BY <1>2, <2>4
    <3>2. b \in runs /\ LatestRun(v, b)
      BY <1>2, <2>1, <2>4, Calendar DEF LatestRun
    <3> QED
      BY <2>2, <3>1, <3>2
  <2>5. CASE b # now \/ v \in due
    <3>1. \A u \in runs : u < b
      BY <1>2, <2>1, <2>5
    <3>2. \A u \in runs : u <= b - 4
      BY <2>3, <3>1
    <3>3. ASSUME b - 4 >= 0 PROVE b - 4 \in runs /\ LatestRun(v, b - 4)
      <4>1. v \in Scheduled(b - 4) /\ b - 4 \in 0 .. now /\ b - 4 # now /\ now <= (b - 4) + 4
            /\ (now = (b - 4) + 4 => b = now)
        BY <1>2, <1>3, <2>1, <2>2, <3>3
      <4> QED
        BY <2>5, <4>1, Calendar DEF LatestRun
    <3>4. b - 4 \in Int
      BY <2>2
    <3> HIDE DEF runs
    <3> QED
      BY <3>2, <3>3, <3>4
  <2> QED
    BY <2>4, <2>5
<1>5. runs \subseteq Nat
  OBVIOUS
<1>6. \A t \in runs : t \in 0 .. now
  OBVIOUS
<1> HIDE DEF runs
<1>7. \E t \in runs \cup {0} : Last(t)
  <2>1. CASE c >= 0
    BY <1>4, <2>1
  <2>2. CASE ~(c >= 0)
    BY <1>4, <1>5, <2>2
  <2> QED
    BY <2>1, <2>2
<1>8. LastRun(v) \in runs \cup {0} /\ Last(LastRun(v))
  <2> HIDE DEF Last
  <2> QED
    BY <1>1, <1>7
<1>9. ASSUME LastRun(v) \in runs PROVE LastRun(v) = c /\ c >= 0
  <2>1. LastRun(v) <= c /\ LastRun(v) \in Nat
    BY <1>4, <1>5, <1>9
  <2>2. c >= 0
    BY <1>4, <2>1
  <2>3. c <= LastRun(v)
    BY <1>4, <1>8, <2>2
  <2> QED
    BY <1>4, <2>1, <2>2, <2>3
<1> QED
  BY <1>4, <1>6, <1>8, <1>9

LEMMA Complete == IInv => RecentComplete
<1> SUFFICES ASSUME IInv, missed = 0, NEW v \in Boards, NEW i \in Intervals,
                    NEW f \in Covered(HourOf(LastRun(v)), i)
             PROVE  f \in Shown(v, i)
  BY DEF RecentComplete, Covered, Seen, HourOf
<1>1. f \in fills /\ f.inserted < HourOf(LastRun(v))
  BY DEF Covered, Seen, Countable
<1>2. LastRun(v) # 0
  <2>1. HourOf(0) = 0
    BY HourStart
  <2> QED
    BY <1>1, <2>1, Types
<1>3. LastRun(v) \in 0 .. now /\ LatestRun(v, LastRun(v))
  BY <1>2, LastRunLatest
<1>4. ShownAt(boards[v], i, f, LastRun(v))
  BY <1>3 DEF IInv, BoardsHourly
<1> QED
  BY <1>4 DEF ShownAt, Shown

(* Until a refresh fails, whatever the hourly source view counted in an hour is *)
(* on each leaderboard once that has run in the same hour, and stays there      *)
(* until it runs again, for any intervals and coins.                            *)
THEOREM RecentFillsShown == Spec => []RecentComplete
BY Invariance, Complete, PTL

===============================================================================
