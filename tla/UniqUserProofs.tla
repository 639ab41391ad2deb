---------------------------- MODULE UniqUserProofs -----------------------------
(* Proofs about the distinct users of the bars, for every calendar that keeps   *)
(* to the order of the schema's, any number of users, fills and ticks.          *)
EXTENDS UniqUser, Integers, FiniteSetTheorems, TLAPS

-------------------------------------------------------------------------------
(* Remainders.                                                                  *)

LEMMA DivMod ==
    ASSUME NEW m \in Nat \ {0}, NEW x \in Nat
    PROVE  x \div m \in Nat /\ x % m \in 0 .. m - 1 /\ x = m * (x \div m) + (x % m)
OBVIOUS

LEMMA SameRemainder ==
    ASSUME NEW m \in Nat \ {0}, NEW x \in Nat, NEW y \in Nat, x % m = y % m, x < y
    PROVE  x + m <= y
<1> DEFINE q == y \div m - x \div m
<1>1. q \in Int /\ m \in Int
  OBVIOUS
<1>2. y - x = m * q
  <2> DEFINE u == x \div m
             v == y \div m
             r == x % m
  <2>1. u \in Int /\ v \in Int /\ x = m * u + r /\ y = m * v + r /\ r \in Int
    BY DivMod
  <2> HIDE DEF u, v, r
  <2>2. m * v - m * u = m * (v - u)
    BY <2>1
  <2>3. y - x = m * (v - u)
    <3> DEFINE a == m * u
               b == m * v
    <3>1. a \in Int /\ b \in Int /\ x = a + r /\ y = b + r
      BY <2>1
    <3> HIDE DEF a, b
    <3>2. y - x = b - a
      BY <2>1, <3>1
    <3> QED
      BY <2>2, <3>2 DEF a, b
  <2> QED
    BY <2>3 DEF u, v
<1> HIDE DEF q
<1>3. q >= 1
  BY <1>1, <1>2
<1>4. m * q >= m
  BY <1>1, <1>3
<1> QED
  BY <1>2, <1>4

LEMMA NextRemainder ==
    ASSUME NEW m \in Nat \ {0}, NEW x \in Nat
    PROVE  (x + m) % m = x % m
<1> DEFINE r == x % m
           s == (x + m) % m
           q == (x + m) \div m - x \div m - 1
<1>1. r \in 0 .. m - 1 /\ s \in 0 .. m - 1 /\ q \in Int /\ m \in Nat
  BY DivMod
<1>2. s - r = m * (0 - q)
  <2> DEFINE u == x \div m
             v == (x + m) \div m
  <2>1. u \in Int /\ v \in Int /\ x = m * u + r /\ x + m = m * v + s
    BY DivMod
  <2>2. q = v - u - 1
    OBVIOUS
  <2> HIDE DEF u, v, r, s, q
  <2>3. m * (0 - q) = m * u + m - m * v
    BY <1>1, <2>1, <2>2
  <2> DEFINE a == m * u
             b == m * v
  <2>4. a \in Int /\ b \in Int /\ x = a + r /\ x + m = b + s
    BY <1>1, <2>1
  <2> HIDE DEF a, b
  <2>5. s - r = a + m - b
    BY <1>1, <2>4
  <2> QED
    BY <2>3, <2>5 DEF a, b
<1> HIDE DEF r, s, q
<1>3. 0 - q >= 1 => m * (0 - q) >= m
  BY <1>1
<1>4. 0 - q <= -1 => m * (0 - q) <= 0 - m
  BY <1>1
<1>5. 0 - q = 0
  BY <1>1, <1>2, <1>3, <1>4
<1>6. s = r
  BY <1>1, <1>2, <1>5
<1> QED
  BY <1>6 DEF r, s

LEMMA Odd ==
    ASSUME NEW m \in Nat \ {0}, m % 2 = 0, NEW x \in Nat, (x % m) % 2 = 1
    PROVE  x % 2 = 1
<1>1. PICK h \in Nat : m = 2 * h
  <2>1. m = 2 * (m \div 2)
    OBVIOUS
  <2> QED
    BY <2>1
<1> DEFINE q == x \div m
           r == x % m
<1>2. q \in Nat /\ r \in Nat /\ x = m * q + r /\ r % 2 = 1
  BY DivMod
<1> HIDE DEF q, r
<1>3. m * q = 2 * (h * q) /\ h * q \in Nat
  BY <1>1, <1>2
<1> DEFINE p == h * q
<1>4. p \in Nat /\ x = 2 * p + r
  BY <1>2, <1>3
<1> HIDE DEF p
<1> QED
  BY <1>2, <1>4

-------------------------------------------------------------------------------
(* The inductive invariant.                                                     *)

(* The users of a bar whose fills were inserted before a tick.                  *)
Known(some, bar, tick) == Cardinality(UsersOf({f \in some : f.inserted < tick}, bar))

(* A row of a bar that counts at least so many, made at a tick or later.        *)
Has(some, bar, tick, users) ==
    \E r \in some : r.key = bar /\ r.refresh_time >= tick /\ r.uniq_user >= users

(* The users known at a tick are counted by a row made since.                   *)
CountedSince(some, in, bar, tick) ==
    Known(some, bar, tick) > 0 => Has(in, bar, tick, Known(some, bar, tick))

Alltime(tick) == tick % AlltimePeriod = table.alltime

(* Where the refreshes stand in the calendar, and what it dates rows with: an   *)
(* odd refresh_time is that of a 6-hourly refresh that has ended.               *)
Dates ==
    /\ read_at \in 0 .. now
    /\ read_at > 0 => Alltime(read_at)
    /\ \A x \in running : Alltime(x.at) /\ now <= x.at + 1
    /\ "alltime" \in due => read_at < now /\ \A x \in running : x.at < now
    /\ "recent" \in due => \A r \in rows : r.refresh_time < now
    /\ \A r \in rows : r.refresh_time % 2 = 1 => r.refresh_time <= read_at

(* What a 6-hourly refresh carries until it ends: one row for every bar known   *)
(* when it started.                                                             *)
CarriedRows(read, at) ==
    /\ \A s \in read : /\ s.key \in Bars /\ s.uniq_user \in 1 .. Cardinality(Users)
                       /\ s.refresh_time = at
    /\ \A s, t \in read : s.key = t.key => s = t

Carried ==
    \A x \in running :
        /\ CarriedRows(x.read, x.at)
        /\ \A bar \in Bars : CountedSince(fills, x.read, bar, x.at)

Hourly ==
    \A bar \in Bars :
        bar * BarTicks + table.window >= now =>
            /\ missed = 0 => CountedSince(fills, rows, bar, LastHourly)
            /\ missed <= 1 => CountedSince(fills, rows, bar, LastHourly - 2)

(* The next 6-hourly refresh after the last is on time.                         *)
OnTime ==
    /\ now <= read_at + AlltimePeriod + 1
    /\ now >= read_at + AlltimePeriod =>
          \/ now = read_at + AlltimePeriod /\ "alltime" \in due
          \/ \E x \in running : x.at = read_at + AlltimePeriod

Counts(f) == \E r \in rows : r.key = BarOf(f.time) /\ r.refresh_time >= read_at

SixHourly ==
    missed = 0 /\ read_at > 0 =>
        /\ OnTime
        /\ \A f \in fills : f.inserted < read_at => Counts(f)

IInv == TypeOK /\ Dates /\ Carried /\ Hourly /\ SixHourly

-------------------------------------------------------------------------------
(* Facts about sets of fills and rows.                                          *)

LEMMA UsersCount ==
    ASSUME NEW some, \A f \in some : f.user \in Users, NEW bar
    PROVE  /\ UsersOf(some, bar) \subseteq Users /\ IsFiniteSet(UsersOf(some, bar))
           /\ Cardinality(UsersOf(some, bar)) \in 0 .. Cardinality(Users)
           /\ Cardinality(UsersOf(some, bar)) = 0 <=> UsersOf(some, bar) = {}
<1>1. UsersOf(some, bar) \subseteq Users
  BY DEF UsersOf
<1>2. IsFiniteSet(Users) /\ IsFiniteSet(UsersOf(some, bar))
  BY <1>1, BoundsAssumption, FS_Subset
<1>3. /\ Cardinality(UsersOf(some, bar)) \in Nat /\ Cardinality(Users) \in Nat
      /\ Cardinality(UsersOf(some, bar)) <= Cardinality(Users)
  BY <1>1, <1>2, FS_Subset, FS_CardinalityType
<1>4. Cardinality(UsersOf(some, bar)) = 0 <=> UsersOf(some, bar) = {}
  BY <1>2, FS_EmptySet
<1> QED
  BY <1>1, <1>2, <1>3, <1>4

LEMMA FewerUsers ==
    ASSUME NEW more, \A f \in more : f.user \in Users, NEW some \in SUBSET more, NEW bar
    PROVE  Cardinality(UsersOf(some, bar)) <= Cardinality(UsersOf(more, bar))
<1>1. UsersOf(some, bar) \subseteq UsersOf(more, bar)
  BY DEF UsersOf
<1>2. IsFiniteSet(UsersOf(more, bar))
  BY UsersCount
<1> QED
  BY <1>1, <1>2, FS_Subset

LEMMA KnownCount ==
    ASSUME NEW some, \A f \in some : f.user \in Users, NEW bar, NEW tick
    PROVE  Known(some, bar, tick) \in 0 .. Cardinality(Users) /\ Cardinality(Users) \in Nat
<1>1. \A f \in {g \in some : g.inserted < tick} : f.user \in Users
  OBVIOUS
<1>2. Cardinality(UsersOf({g \in some : g.inserted < tick}, bar)) \in 0 .. Cardinality(Users)
  BY <1>1, UsersCount
<1>3. Cardinality(Users) \in Nat
  BY BoundsAssumption, FS_CardinalityType
<1> QED
  BY <1>2, <1>3 DEF Known

LEMMA KnownLater ==
    ASSUME NEW some, \A f \in some : f.user \in Users /\ f.inserted \in Int, NEW bar,
           NEW tick \in Int, NEW later \in Int, tick <= later
    PROVE  Known(some, bar, tick) <= Known(some, bar, later)
<1> DEFINE less == {f \in some : f.inserted < tick}
           more == {f \in some : f.inserted < later}
<1>1. less \in SUBSET more /\ \A f \in more : f.user \in Users
  OBVIOUS
<1> HIDE DEF less, more
<1>2. Cardinality(UsersOf(less, bar)) <= Cardinality(UsersOf(more, bar))
  BY <1>1, FewerUsers
<1> QED
  BY <1>2 DEF Known, less, more

LEMMA Bar ==
    ASSUME NEW time \in 0 .. LastFill
    PROVE  BarOf(time) \in Bars /\ BarOf(time) \in Nat /\ BarOf(time) * BarTicks <= time
<1> DEFINE k == BarOf(time)
           top == LastFill \div BarTicks
<1>1. BarTicks \in Nat \ {0} /\ LastFill \in Nat /\ time \in Nat /\ time <= LastFill
  BY BoundsAssumption
<1>2. k \in Nat /\ time % BarTicks \in Nat /\ time = BarTicks * k + (time % BarTicks)
  BY <1>1, DivMod DEF BarOf
<1>3. top \in Nat /\ LastFill % BarTicks \in 0 .. BarTicks - 1
      /\ LastFill = BarTicks * top + (LastFill % BarTicks)
  BY <1>1, DivMod
<1> HIDE DEF k, top
<1>4. k * BarTicks = BarTicks * k /\ BarTicks * k \in Nat /\ BarTicks * top \in Nat
  BY <1>1, <1>2, <1>3
<1>5. k * BarTicks <= time
  BY <1>1, <1>2, <1>4
<1>6. k <= top
  <2> SUFFICES ASSUME k >= top + 1 PROVE FALSE
    BY <1>2, <1>3
  <2>1. BarTicks * k >= BarTicks * top + BarTicks
    <3>1. PICK j \in Nat : k = top + 1 + j
      <4>1. k - top - 1 \in Nat /\ k = top + 1 + (k - top - 1)
        BY <1>2, <1>3
      <4> QED
        BY <4>1
    <3>2. BarTicks * k = BarTicks * top + BarTicks + BarTicks * j /\ BarTicks * j \in Nat
      BY <1>1, <1>3, <3>1
    <3> QED
      BY <1>1, <1>4, <3>2
  <2>2. time < BarTicks * top + BarTicks
    BY <1>1, <1>3, <1>4
  <2> QED
    BY <1>1, <1>4, <1>5, <2>1, <2>2
<1> QED
  BY <1>2, <1>3, <1>5, <1>6 DEF k, top, Bars

(* What a refresh reads: a row for every bar with a fill.                       *)
LEMMA CountedRows ==
    ASSUME TypeOK, NEW some \in SUBSET fills
    PROVE  CarriedRows(Counted(some), now)
<1>1. ASSUME NEW s \in Counted(some)
      PROVE  /\ s.key \in Bars /\ s.uniq_user \in 1 .. Cardinality(Users)
             /\ s.refresh_time = now
             /\ s.uniq_user = Cardinality(UsersOf(some, s.key))
  <2>1. PICK f \in some : s = [key |-> BarOf(f.time),
                               uniq_user |-> Cardinality(UsersOf(some, BarOf(f.time))),
                               refresh_time |-> now]
    BY DEF Counted
  <2>2. f.user \in Users /\ f.time \in 0 .. LastFill /\ \A g \in some : g.user \in Users
    BY DEF TypeOK
  <2>3. BarOf(f.time) \in Bars
    BY <2>2, Bar
  <2>4. f.user \in UsersOf(some, BarOf(f.time))
    BY DEF UsersOf
  <2> DEFINE size == Cardinality(UsersOf(some, BarOf(f.time)))
  <2>5. size \in 0 .. Cardinality(Users) /\ size # 0 /\ Cardinality(Users) \in Nat
    <3>1. Cardinality(Users) \in Nat
      BY BoundsAssumption, FS_CardinalityType
    <3> QED
      BY <2>2, <2>4, <3>1, UsersCount
  <2>6. s.key = BarOf(f.time) /\ s.uniq_user = size /\ s.refresh_time = now
    BY <2>1
  <2> HIDE DEF size
  <2>7. s.uniq_user \in 1 .. Cardinality(Users)
    BY <2>5, <2>6
  <2> QED
    BY <2>3, <2>6, <2>7 DEF size
<1>2. ASSUME NEW s \in Counted(some), NEW t \in Counted(some), s.key = t.key
      PROVE  s = t
  <2>1. PICK f \in some : s = [key |-> BarOf(f.time),
                               uniq_user |-> Cardinality(UsersOf(some, BarOf(f.time))),
                               refresh_time |-> now]
    BY DEF Counted
  <2>2. PICK g \in some : t = [key |-> BarOf(g.time),
                               uniq_user |-> Cardinality(UsersOf(some, BarOf(g.time))),
                               refresh_time |-> now]
    BY DEF Counted
  <2>3. BarOf(f.time) = BarOf(g.time)
    BY <1>2, <2>1, <2>2
  <2> QED
    BY <2>1, <2>2, <2>3
<1> QED
  BY <1>1, <1>2 DEF CarriedRows

LEMMA CountedCovers ==
    ASSUME TypeOK, NEW some \in SUBSET fills, NEW bar, NEW tick \in Int, tick <= now,
           \A f \in fills : f.inserted < tick /\ BarOf(f.time) = bar => f \in some
    PROVE  CountedSince(fills, Counted(some), bar, tick)
<1> DEFINE before == {f \in fills : f.inserted < tick}
           inBar == {f \in before : BarOf(f.time) = bar}
           row == [key |-> bar, uniq_user |-> Cardinality(UsersOf(some, bar)),
                   refresh_time |-> now]
<1> SUFFICES ASSUME Known(fills, bar, tick) > 0
             PROVE  Has(Counted(some), bar, tick, Known(fills, bar, tick))
  BY DEF CountedSince
<1>1. /\ \A f \in fills : f.user \in Users
      /\ now \in Nat
  BY DEF TypeOK
<1>2. UsersOf(before, bar) \subseteq UsersOf(some, bar)
  BY DEF UsersOf
<1>3. UsersOf(before, bar) # {}
  <2>1. \A f \in before : f.user \in Users
    BY <1>1
  <2>2. Cardinality(UsersOf(before, bar)) > 0
    BY DEF Known
  <2>3. Cardinality(UsersOf(before, bar)) \in Nat
    BY <2>1, UsersCount, BoundsAssumption, FS_CardinalityType
  <2> HIDE DEF before
  <2> QED
    BY <2>1, <2>2, <2>3, UsersCount
<1>4. PICK f \in some : BarOf(f.time) = bar
  BY <1>2, <1>3 DEF UsersOf
<1>5. row \in Counted(some)
  BY <1>4 DEF Counted
<1>6. Cardinality(UsersOf(before, bar)) <= Cardinality(UsersOf(some, bar))
  <2>1. IsFiniteSet(UsersOf(some, bar))
    BY <1>1, UsersCount
  <2> QED
    BY <1>2, <2>1, FS_Subset
<1>7. /\ row.key = bar /\ row.refresh_time >= tick
      /\ row.uniq_user >= Known(fills, bar, tick)
  <2>1. /\ Cardinality(UsersOf(before, bar)) \in Nat /\ Cardinality(UsersOf(some, bar)) \in Nat
    BY <1>1, UsersCount, BoundsAssumption, FS_CardinalityType
  <2> QED
    BY <1>1, <1>6, <2>1 DEF Known
<1> HIDE DEF row
<1> QED
  BY <1>5, <1>7 DEF Has

(* The newest of two rows of a bar stays.                                       *)
LEMMA AppendHas ==
    ASSUME NEW old, NEW new, \A r \in old \cup new : r.refresh_time \in Nat,
           \A r, s \in old : r.key = s.key => r = s, \A r, s \in new : r.key = s.key => r = s,
           NEW bar, NEW tick \in Int, NEW users,
           \E x \in old \cup new : x.key = bar /\ x.refresh_time >= tick,
           \A y \in old \cup new : y.key = bar /\ y.refresh_time >= tick => y.uniq_user >= users
    PROVE  Has(Appended(old, new), bar, tick, users)
<1>1. PICK x \in old \cup new : x.key = bar /\ x.refresh_time >= tick
  OBVIOUS
<1>2. CASE \A s \in old \cup new : s.key = x.key => s.refresh_time <= x.refresh_time
  BY <1>1, <1>2 DEF Appended, Has
<1>3. CASE \E s \in old \cup new : s.key = x.key /\ ~(s.refresh_time <= x.refresh_time)
  <2>1. PICK y \in old \cup new : y.key = bar /\ ~(y.refresh_time <= x.refresh_time)
    BY <1>1, <1>3
  <2>2. y.refresh_time > x.refresh_time /\ y.refresh_time >= tick
    BY <1>1, <2>1
  <2>3. \A z \in old \cup new : z.key = bar => z = x \/ z = y
    BY <1>1, <2>1
  <2>4. y \in Appended(old, new)
    BY <2>1, <2>2, <2>3 DEF Appended
  <2> QED
    BY <2>1, <2>2, <2>4 DEF Has
<1> QED
  BY <1>2, <1>3

LEMMA AppendRows ==
    ASSUME NEW old, NEW new, \A r \in old \cup new : r.refresh_time \in Nat,
           \A r, s \in old : r.key = s.key => r = s, \A r, s \in new : r.key = s.key => r = s,
           \A r \in old, s \in new : r.refresh_time # s.refresh_time
    PROVE  /\ Appended(old, new) \subseteq old \cup new
           /\ \A r, s \in Appended(old, new) : r.key = s.key => r = s
<1>1. Appended(old, new) \subseteq old \cup new
  BY DEF Appended
<1>2. ASSUME NEW r \in Appended(old, new), NEW s \in Appended(old, new), r.key = s.key
      PROVE  r = s
  <2>1. r.refresh_time = s.refresh_time
    BY <1>1, <1>2 DEF Appended
  <2> QED
    BY <1>1, <1>2, <2>1
<1> QED
  BY <1>1, <1>2

-------------------------------------------------------------------------------
(* The steps.                                                                   *)

LEMMA Types ==
    ASSUME TypeOK
    PROVE  /\ table \in Tables /\ table.window \in Nat /\ table.ttl \in Nat /\ table.ttl > 4
           /\ now \in Nat /\ now >= 1 /\ now <= LastTick
           /\ \A f \in fills : /\ f.user \in Users /\ f.time \in 0 .. LastFill
                               /\ f.inserted \in Int /\ f.inserted <= now
           /\ \A r \in rows : /\ r.refresh_time \in Nat /\ r.refresh_time <= now
                              /\ r.uniq_user \in Nat /\ r.uniq_user >= 1
           /\ \A x \in running : x.at \in Int /\ x.at <= now
           /\ LastHourly \in Int /\ LastHourly <= now
<1>1. table \in Tables /\ now \in Nat /\ now >= 1 /\ now <= LastTick
  BY BoundsAssumption DEF TypeOK
<1>2. table.window \in Nat /\ table.ttl \in Nat /\ table.ttl > 4
  BY <1>1, TablesAssumption, CalendarAssumption
<1>3. \A f \in fills : /\ f.user \in Users /\ f.time \in 0 .. LastFill
                       /\ f.inserted \in Int /\ f.inserted <= now
  BY <1>1 DEF TypeOK
<1>4. \A r \in rows : /\ r.refresh_time \in Nat /\ r.refresh_time <= now
                      /\ r.uniq_user \in Nat /\ r.uniq_user >= 1
  BY <1>1, BoundsAssumption, FS_CardinalityType DEF TypeOK
<1>5. \A x \in running : x.at \in Int /\ x.at <= now
  BY DEF TypeOK
<1>6. LastHourly \in Int /\ LastHourly <= now
  BY <1>1 DEF LastHourly
<1> QED
  BY <1>1, <1>2, <1>3, <1>4, <1>5, <1>6

LEMMA FewRefreshes ==
    /\ Cardinality({}) <= 1
    /\ \A x : Cardinality({x}) <= 1
BY FS_EmptySet, FS_Singleton

LEMMA NothingKnown ==
    ASSUME NEW bar, NEW tick, NEW in
    PROVE  CountedSince({}, in, bar, tick)
<1>1. UsersOf({f \in {} : f.inserted < tick}, bar) = {}
  BY DEF UsersOf
<1> QED
  BY <1>1, FS_EmptySet DEF CountedSince, Known

LEMMA InitIInv == Init => IInv
<1> SUFFICES ASSUME Init PROVE IInv
  OBVIOUS
<1>1. /\ table \in Tables /\ now = 1 /\ fills = {} /\ rows = {} /\ due = Scheduled(1)
      /\ running = {} /\ read_at = 0 /\ missed = 0
  BY DEF Init
<1>2. TypeOK
  BY <1>1, BoundsAssumption, FewRefreshes DEF TypeOK
<1>3. Dates
  BY <1>1 DEF Dates
<1>4. Carried
  BY <1>1 DEF Carried
<1>5. Hourly
  BY <1>1, NothingKnown DEF Hourly
<1>6. SixHourly
  BY <1>1 DEF SixHourly
<1> QED
  BY <1>2, <1>3, <1>4, <1>5, <1>6 DEF IInv

(* A fill that is inserted now was not known before.                            *)
LEMMA KnownSame ==
    ASSUME NEW some, NEW fill, NEW tick, ~(fill.inserted < tick), NEW in, NEW bar,
           CountedSince(some, in, bar, tick)
    PROVE  CountedSince(some \cup {fill}, in, bar, tick)
<1>1. {f \in some \cup {fill} : f.inserted < tick} = {f \in some : f.inserted < tick}
  OBVIOUS
<1> QED
  BY <1>1 DEF CountedSince, Known

LEMMA IngestStep ==
    ASSUME IInv, NEW user \in Users, NEW time \in 0 .. LastFill, Ingest(user, time)
    PROVE  IInv'
<1> DEFINE fill == [user |-> user, time |-> time, inserted |-> now]
<1>1. /\ TypeOK /\ now \in Nat /\ LastHourly \in Int /\ LastHourly <= now
      /\ \A x \in running : x.at \in Int /\ x.at <= now
  BY Types DEF IInv
<1>2. /\ fills' = fills \cup {fill} /\ time <= now
      /\ UNCHANGED <<table, now, rows, due, running, read_at, missed>>
  BY DEF Ingest
<1>3. fill.user \in Users /\ fill.time \in 0 .. LastFill /\ fill.inserted = now
  OBVIOUS
<1>4. now \in fill.time .. now
  BY <1>1, <1>2
<1> HIDE DEF fill
<1>5. TypeOK'
  BY <1>1, <1>2, <1>3, <1>4 DEF TypeOK, Scheduled
<1>6. Dates'
  BY <1>2 DEF IInv, Dates, Alltime
<1>7. Carried'
  <2>1. ASSUME NEW x \in running, NEW bar \in Bars
        PROVE  CountedSince(fills', x.read, bar, x.at)
    <3>1. CountedSince(fills, x.read, bar, x.at) /\ ~(fill.inserted < x.at)
      BY <1>1, <1>3 DEF IInv, Carried
    <3> QED
      BY <1>2, <3>1, KnownSame
  <2> QED
    BY <1>2, <2>1 DEF IInv, Carried
<1>8. Hourly'
  <2>1. LastHourly' = LastHourly
    BY <1>2 DEF LastHourly
  <2>2. ~(fill.inserted < LastHourly) /\ ~(fill.inserted < LastHourly - 2)
    BY <1>1, <1>3
  <2>3. ASSUME NEW bar \in Bars, bar * BarTicks + table.window >= now
        PROVE  /\ missed = 0 => CountedSince(fills', rows, bar, LastHourly)
               /\ missed <= 1 => CountedSince(fills', rows, bar, LastHourly - 2)
    BY <1>2, <2>2, <2>3, KnownSame DEF IInv, Hourly
  <2> QED
    BY <1>2, <2>1, <2>3 DEF Hourly
<1>9. SixHourly'
  <2>1. ~(fill.inserted < read_at)
    BY <1>1, <1>3 DEF IInv, Dates
  <2> QED
    BY <1>2, <2>1 DEF IInv, SixHourly, OnTime, Counts
<1> QED
  BY <1>5, <1>6, <1>7, <1>8, <1>9 DEF IInv

-------------------------------------------------------------------------------
(* The calendar.                                                                *)

LEMMA AlltimeIsOdd ==
    ASSUME TypeOK, NEW tick \in Nat, Alltime(tick)
    PROVE  /\ tick % 2 = 1 /\ table.alltime < AlltimePeriod /\ table.ttl > AlltimePeriod + 1
           /\ AlltimePeriod \in Nat /\ AlltimePeriod >= 2
<1>1. AlltimePeriod \in Nat \ {0} /\ AlltimePeriod % 2 = 0 /\ table \in Tables
  BY CalendarAssumption, Types
<1>2. tick % AlltimePeriod \in 0 .. AlltimePeriod - 1
  BY <1>1, DivMod
<1>3. table.alltime < AlltimePeriod
  BY <1>1, <1>2 DEF Alltime
<1>4. table.alltime % 2 = 1 /\ table.ttl > AlltimePeriod + 1
  BY <1>1, <1>3, CalendarAssumption
<1>5. tick % 2 = 1
  BY <1>1, <1>4, Odd DEF Alltime
<1>6. AlltimePeriod >= 2
  BY <1>1
<1> QED
  BY <1>1, <1>3, <1>4, <1>5, <1>6

LEMMA AlltimeApart ==
    ASSUME TypeOK, NEW one \in Nat, Alltime(one), NEW two \in Nat, Alltime(two), one < two
    PROVE  one + AlltimePeriod <= two /\ two # one + AlltimePeriod + 1
<1>1. AlltimePeriod \in Nat \ {0} /\ AlltimePeriod >= 2
  BY AlltimeIsOdd
<1>2. one % AlltimePeriod = two % AlltimePeriod
  BY DEF Alltime
<1>3. one + AlltimePeriod <= two
  BY <1>1, <1>2, SameRemainder
<1>4. two # one + AlltimePeriod + 1
  <2>1. (one + AlltimePeriod) % AlltimePeriod = two % AlltimePeriod
    BY <1>1, <1>2, NextRemainder
  <2>2. ASSUME one + AlltimePeriod < two PROVE one + AlltimePeriod + AlltimePeriod <= two
    <3>1. one + AlltimePeriod \in Nat
      BY <1>1
    <3> QED
      BY <1>1, <2>1, <2>2, <3>1, SameRemainder
  <2> QED
    BY <1>1, <2>2
<1> QED
  BY <1>3, <1>4

(* Of the rows of the hourly refresh none are replaced by a row as old.         *)
LEMMA DueDates ==
    ASSUME TypeOK, Dates
    PROVE  /\ "recent" \in due => now % 2 = 0 /\ LastHourly = now - 2
           /\ "alltime" \in due => Alltime(now)
           /\ \A x \in running : \A r \in rows : r.refresh_time # x.at
BY Types, AlltimeIsOdd DEF TypeOK, Dates, Scheduled, LastHourly, Alltime

LEMMA CountedLater ==
    ASSUME NEW some, \A f \in some : f.user \in Users /\ f.inserted \in Int, NEW in,
           \A r \in in : r.refresh_time \in Int /\ r.uniq_user \in Int, NEW bar,
           NEW tick \in Int, NEW later \in Int, tick <= later, CountedSince(some, in, bar, later)
    PROVE  CountedSince(some, in, bar, tick)
<1>1. /\ Known(some, bar, tick) \in Nat /\ Known(some, bar, later) \in Nat
      /\ Known(some, bar, tick) <= Known(some, bar, later)
  BY KnownCount, KnownLater
<1> QED
  BY <1>1 DEF CountedSince, Has

-------------------------------------------------------------------------------
(* The hourly refresh.                                                          *)

LEMMA RefreshRecentStep ==
    ASSUME IInv, RefreshRecent
    PROVE  IInv'
<1> DEFINE new == Counted(Recent)
<1>1. /\ TypeOK /\ Dates /\ now \in Nat /\ now % 2 = 0 /\ LastHourly = now - 2
      /\ \A r \in rows : r.refresh_time < now
      /\ \A r \in rows : r.refresh_time \in Nat /\ r.uniq_user \in Nat
      /\ \A f \in fills : /\ f.user \in Users /\ f.time \in 0 .. LastFill
                          /\ f.inserted \in Int /\ f.inserted <= now
      /\ table.window \in Nat
  BY Types, DueDates DEF IInv, Dates, RefreshRecent
<1>2. /\ rows' = Appended(rows, new) /\ due' = due \ {"recent"}
      /\ UNCHANGED <<table, now, fills, running, read_at, missed>>
  BY DEF RefreshRecent
<1>3. Recent \in SUBSET fills
  BY DEF Recent
<1>4. CarriedRows(new, now)
  BY <1>1, <1>3, CountedRows
<1>5. ASSUME NEW bar \in Bars, bar * BarTicks + table.window >= now
      PROVE  CountedSince(fills, new, bar, now)
  <2>1. ASSUME NEW f \in fills, BarOf(f.time) = bar PROVE f \in Recent
    <3> DEFINE start == bar * BarTicks
    <3>1. start <= f.time /\ bar \in Nat /\ f.time \in Nat
      BY <1>1, <2>1, Bar, BoundsAssumption
    <3>2. start \in Nat
      BY <3>1, BoundsAssumption
    <3> HIDE DEF start
    <3>3. f.time + table.window >= start + table.window
      BY <1>1, <3>1, <3>2
    <3>4. start + table.window >= now
      BY <1>5 DEF start
    <3>5. f.time + table.window >= now
      BY <1>1, <3>1, <3>2, <3>3, <3>4
    <3> QED
      BY <3>5 DEF Recent
  <2> QED
    BY <1>1, <1>3, <2>1, CountedCovers
<1> HIDE DEF new
<1>6. /\ \A r \in new : r.refresh_time = now /\ r.key \in Bars
                        /\ r.uniq_user \in 1 .. Cardinality(Users) /\ r.uniq_user \in Nat
      /\ \A r, s \in new : r.key = s.key => r = s
      /\ \A r, s \in rows : r.key = s.key => r = s
  BY <1>1, <1>4, BoundsAssumption, FS_CardinalityType DEF CarriedRows, TypeOK
<1>7. /\ rows' \subseteq rows \cup new
      /\ \A r, s \in rows' : r.key = s.key => r = s
  <2>1. \A r \in rows \cup new : r.refresh_time \in Nat
    BY <1>1, <1>6
  <2>2. \A r \in rows, s \in new : r.refresh_time # s.refresh_time
    BY <1>1, <1>6
  <2> QED
    BY <1>2, <1>6, <2>1, <2>2, AppendRows
<1>8. TypeOK'
  <2>1. \A r \in rows' : r.key \in Bars /\ r.uniq_user \in 1 .. Cardinality(Users)
                         /\ r.refresh_time \in 1 .. now
    BY <1>1, <1>6, <1>7 DEF TypeOK
  <2> QED
    BY <1>2, <1>7, <2>1 DEF IInv, TypeOK, Scheduled
<1>9. Dates'
  <2>1. \A r \in rows' : r.refresh_time % 2 = 1 => r \in rows
    BY <1>1, <1>6, <1>7
  <2> QED
    BY <1>1, <1>2, <2>1 DEF Dates, Alltime
<1>10. Carried'
  BY <1>2 DEF IInv, Carried
<1>11. Hourly'
  <2>1. LastHourly' = now
    BY <1>1, <1>2 DEF LastHourly
  <2>2. ASSUME NEW bar \in Bars, bar * BarTicks + table.window >= now
        PROVE  CountedSince(fills, rows', bar, now) /\ CountedSince(fills, rows', bar, now - 2)
    <3> DEFINE users == Known(fills, bar, now)
    <3>1. CountedSince(fills, rows', bar, now)
      <4> SUFFICES ASSUME users > 0 PROVE Has(rows', bar, now, users)
        BY DEF CountedSince
      <4>1. PICK s \in new : s.key = bar /\ s.refresh_time >= now /\ s.uniq_user >= users
        BY <1>5, <2>2 DEF CountedSince, Has
      <4> HIDE DEF users
      <4>2. \A y \in rows \cup new :
                y.key = bar /\ y.refresh_time >= now => y.uniq_user >= users
        BY <1>1, <1>6, <4>1
      <4>3. \A r \in rows \cup new : r.refresh_time \in Nat
        BY <1>1, <1>6
      <4>4. Has(Appended(rows, new), bar, now, users)
        BY <1>1, <1>6, <4>1, <4>2, <4>3, AppendHas
      <4> QED
        BY <1>2, <4>4
    <3>2. \A r \in rows' : r.refresh_time \in Int /\ r.uniq_user \in Int
      BY <1>1, <1>6, <1>7
    <3>3. CountedSince(fills, rows', bar, now - 2)
      BY <1>1, <3>1, <3>2, CountedLater
    <3> QED
      BY <3>1, <3>3
  <2> QED
    BY <1>2, <2>1, <2>2 DEF Hourly
<1>12. SixHourly'
  <2> SUFFICES ASSUME missed = 0, read_at > 0
               PROVE  OnTime' /\ \A f \in fills : f.inserted < read_at => Counts(f)'
    BY <1>2 DEF SixHourly
  <2>1. OnTime'
    BY <1>2 DEF IInv, SixHourly, OnTime
  <2>2. ASSUME NEW f \in fills, f.inserted < read_at PROVE Counts(f)'
    <3>1. PICK r \in rows : r.key = BarOf(f.time) /\ r.refresh_time >= read_at
      BY <2>2 DEF IInv, SixHourly, Counts
    <3>2. \A y \in rows \cup new : y.refresh_time \in Nat /\ y.uniq_user >= 0
      BY <1>1, <1>6
    <3>3. read_at \in Int
      BY <1>1 DEF Dates
    <3>4. Has(Appended(rows, new), BarOf(f.time), read_at, 0)
      BY <1>6, <3>1, <3>2, <3>3, AppendHas
    <3> QED
      BY <1>2, <3>4 DEF Has, Counts
  <2> QED
    BY <2>1, <2>2
<1> QED
  BY <1>8, <1>9, <1>10, <1>11, <1>12 DEF IInv

-------------------------------------------------------------------------------
(* The 6-hourly refresh.                                                        *)

LEMMA StartAlltimeStep ==
    ASSUME IInv, StartAlltime
    PROVE  IInv'
<1> DEFINE new == [at |-> now, read |-> Counted(fills)]
<1>1. /\ TypeOK /\ Dates /\ now \in Nat /\ Alltime(now) /\ read_at \in Nat /\ read_at < now
      /\ \A f \in fills : f.user \in Users /\ f.inserted \in Int
  BY Types, DueDates DEF IInv, Dates, StartAlltime
<1>2. /\ running' = {new} /\ due' = due \ {"alltime"}
      /\ UNCHANGED <<table, now, fills, rows, read_at, missed>>
  BY DEF StartAlltime
<1>3. CarriedRows(new.read, now) /\ new.at = now
  BY <1>1, CountedRows
<1>4. \A bar \in Bars : CountedSince(fills, new.read, bar, now)
  BY <1>1, CountedCovers
<1> HIDE DEF new
<1>5. TypeOK'
  <2>1. Cardinality(running') <= 1 /\ \A x \in running' : x.at \in read_at + 1 .. now
    <3>1. Cardinality(running') <= 1
      BY <1>2, FewRefreshes
    <3>2. now \in read_at + 1 .. now
      BY <1>1
    <3> QED
      BY <1>2, <1>3, <3>1, <3>2
  <2> QED
    BY <1>1, <1>2, <2>1 DEF TypeOK, Scheduled
<1>6. Dates'
  BY <1>1, <1>2, <1>3 DEF Dates, Alltime
<1>7. Carried'
  BY <1>2, <1>3, <1>4 DEF Carried
<1>8. Hourly'
  BY <1>2 DEF IInv, Hourly, LastHourly
<1>9. SixHourly'
  <2>1. ASSUME missed = 0, read_at > 0 PROVE OnTime'
    <3>1. Alltime(read_at) /\ now <= read_at + AlltimePeriod + 1
      BY <1>1, <2>1 DEF IInv, SixHourly, OnTime, Dates
    <3>2. now = read_at + AlltimePeriod
      <4>1. read_at + AlltimePeriod <= now /\ now # read_at + AlltimePeriod + 1
        BY <1>1, <3>1, AlltimeApart
      <4> QED
        BY <1>1, <3>1, <4>1, CalendarAssumption
    <3> QED
      BY <1>1, <1>2, <1>3, <3>1, <3>2 DEF OnTime
  <2> QED
    BY <1>2, <2>1 DEF IInv, SixHourly, Counts
<1> QED
  BY <1>5, <1>6, <1>7, <1>8, <1>9 DEF IInv

LEMMA KnownOne ==
    ASSUME NEW some, \A f \in some : f.user \in Users, NEW f \in some, NEW tick,
           f.inserted < tick
    PROVE  Known(some, BarOf(f.time), tick) > 0
<1> DEFINE before == {g \in some : g.inserted < tick}
<1>1. \A g \in before : g.user \in Users
  OBVIOUS
<1>2. f.user \in UsersOf(before, BarOf(f.time))
  BY DEF UsersOf
<1> HIDE DEF before
<1>3. /\ Cardinality(UsersOf(before, BarOf(f.time))) # 0
      /\ Cardinality(UsersOf(before, BarOf(f.time))) \in Nat
  BY <1>1, <1>2, UsersCount, BoundsAssumption, FS_CardinalityType
<1> QED
  BY <1>3 DEF Known, before

(* A row the refresh brings is of its start: newer than what the hourly view    *)
(* counted before that and, if it replaces such a row, no smaller.              *)
LEMMA FinishCounted ==
    ASSUME IInv, NEW x \in running, NEW bar \in Bars, NEW tick \in Int,
           CountedSince(fills, rows, bar, tick)
    PROVE  CountedSince(fills, Appended(rows, x.read), bar, tick)
<1> DEFINE users == Known(fills, bar, tick)
           new == x.read
<1> SUFFICES ASSUME users > 0 PROVE Has(Appended(rows, new), bar, tick, users)
  BY DEF CountedSince
<1>1. /\ \A f \in fills : f.user \in Users /\ f.inserted \in Int
      /\ \A r \in rows : r.refresh_time \in Nat /\ r.uniq_user \in Nat
      /\ x.at \in Nat
  BY Types DEF IInv, TypeOK, Dates
<1>2. /\ \A s \in new : s.refresh_time = x.at /\ s.uniq_user \in Nat
      /\ \A r, s \in new : r.key = s.key => r = s
      /\ \A r, s \in rows : r.key = s.key => r = s
      /\ CountedSince(fills, new, bar, x.at)
  BY BoundsAssumption, FS_CardinalityType DEF IInv, Carried, CarriedRows, TypeOK
<1>3. PICK r \in rows : r.key = bar /\ r.refresh_time >= tick /\ r.uniq_user >= users
  BY DEF CountedSince, Has
<1>4. users \in Nat /\ Known(fills, bar, x.at) \in Nat
  BY <1>1, KnownCount
<1>5. ASSUME NEW y \in new, y.key = bar, y.refresh_time >= tick
      PROVE  y.uniq_user >= users
  <2>1. users <= Known(fills, bar, x.at)
    BY <1>1, <1>2, <1>5, KnownLater
  <2>2. PICK s \in new : s.key = bar /\ s.uniq_user >= Known(fills, bar, x.at)
    <3>1. Known(fills, bar, x.at) > 0
      BY <1>4, <2>1
    <3> QED
      BY <1>2, <3>1 DEF CountedSince, Has
  <2>3. s = y
    BY <1>2, <1>5, <2>2
  <2> QED
    BY <1>2, <1>4, <2>1, <2>2, <2>3
<1> HIDE DEF users, new
<1>6. \A y \in rows \cup new : y.key = bar /\ y.refresh_time >= tick => y.uniq_user >= users
  BY <1>2, <1>3, <1>5
<1>7. \A y \in rows \cup new : y.refresh_time \in Nat
  BY <1>1, <1>2
<1> QED
  BY <1>2, <1>3, <1>6, <1>7, AppendHas

LEMMA FinishAlltimeStep ==
    ASSUME IInv, FinishAlltime
    PROVE  IInv'
<1>1. PICK x \in running : /\ rows' = Appended(rows, x.read) /\ read_at' = x.at
                           /\ running' = {}
                           /\ UNCHANGED <<table, now, fills, due, missed>>
  BY DEF FinishAlltime
<1> DEFINE new == x.read
<1>2. /\ TypeOK /\ Dates /\ now \in Nat /\ LastHourly \in Int
      /\ \A r \in rows : r.refresh_time \in Nat /\ r.uniq_user \in Nat
      /\ \A f \in fills : f.user \in Users /\ f.time \in 0 .. LastFill /\ f.inserted \in Int
  BY Types DEF IInv
<1>3. /\ x.at \in Nat /\ read_at \in Nat /\ x.at > read_at /\ x.at <= now /\ now <= x.at + 1
      /\ Alltime(x.at)
      /\ "alltime" \in due => x.at < now
      /\ \A r \in rows : r.refresh_time # x.at
  BY <1>2, DueDates DEF TypeOK, Dates
<1>4. x.at % 2 = 1 /\ AlltimePeriod \in Nat /\ AlltimePeriod >= 2
  BY <1>2, <1>3, AlltimeIsOdd
<1>5. /\ \A s \in new : /\ s.key \in Bars /\ s.uniq_user \in 1 .. Cardinality(Users)
                        /\ s.refresh_time = x.at /\ s.uniq_user \in Nat
      /\ \A r, s \in new : r.key = s.key => r = s
      /\ \A r, s \in rows : r.key = s.key => r = s
      /\ \A bar \in Bars : CountedSince(fills, new, bar, x.at)
  BY BoundsAssumption, FS_CardinalityType DEF IInv, Carried, CarriedRows, TypeOK
<1> HIDE DEF new
<1>6. /\ rows' \subseteq rows \cup new
      /\ \A r, s \in rows' : r.key = s.key => r = s
  <2>1. \A r \in rows \cup new : r.refresh_time \in Nat
    BY <1>2, <1>3, <1>5
  <2>2. \A r \in rows, s \in new : r.refresh_time # s.refresh_time
    BY <1>3, <1>5
  <2>3. rows' = Appended(rows, new)
    BY <1>1 DEF new
  <2> QED
    BY <1>5, <2>1, <2>2, <2>3, AppendRows
<1>7. TypeOK'
  <2>1. \A r \in rows' : r.key \in Bars /\ r.uniq_user \in 1 .. Cardinality(Users)
                         /\ r.refresh_time \in 1 .. now
    BY <1>2, <1>3, <1>5, <1>6 DEF TypeOK
  <2>2. Cardinality(running') <= 1
    BY <1>1, FewRefreshes
  <2> QED
    BY <1>1, <1>2, <1>6, <2>1, <2>2 DEF TypeOK, Scheduled
<1>8. Dates'
  <2>1. \A r \in rows' : r.refresh_time % 2 = 1 => r.refresh_time <= x.at
    BY <1>2, <1>3, <1>5, <1>6 DEF Dates
  <2>2. ASSUME "recent" \in due, NEW r \in rows' PROVE r.refresh_time < now
    <3>1. now % 2 = 0
      BY <1>2, <2>2, DueDates
    <3>2. x.at < now
      BY <1>2, <1>3, <1>4, <3>1
    <3> QED
      BY <1>2, <1>5, <1>6, <2>2, <3>2 DEF Dates
  <2> QED
    BY <1>1, <1>2, <1>3, <2>1, <2>2 DEF Dates, Alltime
<1>9. Carried'
  BY <1>1 DEF Carried
<1>10. Hourly'
  <2>1. LastHourly' = LastHourly /\ LastHourly - 2 \in Int
    BY <1>1, <1>2 DEF LastHourly
  <2> QED
    BY <1>1, <1>2, <2>1, FinishCounted DEF IInv, Hourly
<1>11. SixHourly'
  <2>1. OnTime'
    BY <1>1, <1>2, <1>3, <1>4 DEF OnTime
  <2>2. ASSUME NEW f \in fills, f.inserted < x.at PROVE Counts(f)'
    <3>1. Known(fills, BarOf(f.time), x.at) > 0 /\ BarOf(f.time) \in Bars
      BY <1>2, <2>2, KnownOne, Bar
    <3>2. PICK s \in new : s.key = BarOf(f.time)
      BY <1>5, <3>1 DEF CountedSince, Has
    <3>3. s.refresh_time >= x.at
      BY <1>3, <1>5
    <3>4. \A y \in rows \cup new : y.refresh_time \in Nat /\ y.uniq_user >= 0
      BY <1>2, <1>3, <1>5
    <3>5. Has(Appended(rows, new), BarOf(f.time), x.at, 0)
      BY <1>3, <1>5, <3>2, <3>3, <3>4, AppendHas
    <3> QED
      BY <1>1, <3>5 DEF Has, Counts, new
  <2> QED
    BY <1>1, <2>1, <2>2 DEF SixHourly
<1> QED
  BY <1>7, <1>8, <1>9, <1>10, <1>11 DEF IInv

-------------------------------------------------------------------------------
(* A refresh that fails, a row that expires, half an hour that passes.          *)

LEMMA MissRecentStep ==
    ASSUME IInv, MissRecent
    PROVE  IInv'
<1>1. /\ now \in Nat /\ now % 2 = 0 /\ LastHourly = now - 2 /\ missed \in Nat
  BY Types, DueDates, BoundsAssumption DEF IInv, MissRecent, TypeOK
<1>2. /\ due' = due \ {"recent"} /\ missed' = missed + 1 /\ missed < MaxMissed
      /\ UNCHANGED <<table, now, fills, rows, running, read_at>>
  BY DEF MissRecent
<1>3. TypeOK'
  BY <1>1, <1>2, BoundsAssumption DEF IInv, TypeOK, Scheduled
<1>4. Dates'
  BY <1>2 DEF IInv, Dates, Alltime
<1>5. Carried'
  BY <1>2 DEF IInv, Carried
<1>6. Hourly'
  <2>1. LastHourly' = now
    BY <1>1, <1>2 DEF LastHourly
  <2>2. missed' # 0 /\ (missed' <= 1 => missed = 0)
    BY <1>1, <1>2
  <2> QED
    BY <1>1, <1>2, <2>1, <2>2 DEF IInv, Hourly
<1>7. SixHourly'
  BY <1>1, <1>2 DEF SixHourly
<1> QED
  BY <1>3, <1>4, <1>5, <1>6, <1>7 DEF IInv

LEMMA MissAlltimeStep ==
    ASSUME IInv, MissAlltime
    PROVE  IInv'
<1>1. missed \in Nat
  BY BoundsAssumption DEF IInv, TypeOK
<1>2. /\ running' = {} /\ missed' = missed + 1 /\ missed < MaxMissed
      /\ UNCHANGED <<table, now, fills, rows, due, read_at>>
  BY DEF MissAlltime
<1>3. TypeOK'
  <2>1. Cardinality(running') <= 1
    BY <1>2, FewRefreshes
  <2> QED
    BY <1>1, <1>2, <2>1, BoundsAssumption DEF IInv, TypeOK, Scheduled
<1>4. Dates'
  BY <1>2 DEF IInv, Dates, Alltime
<1>5. Carried'
  BY <1>2 DEF Carried
<1>6. Hourly'
  <2>1. missed' # 0 /\ (missed' <= 1 => missed <= 1)
    BY <1>1, <1>2
  <2> QED
    BY <1>2, <2>1 DEF IInv, Hourly, LastHourly
<1>7. SixHourly'
  BY <1>1, <1>2 DEF SixHourly
<1> QED
  BY <1>3, <1>4, <1>5, <1>6, <1>7 DEF IInv

(* No row the invariant asks for is old enough to expire.                       *)
LEMMA ExpireStep ==
    ASSUME IInv, Expire
    PROVE  IInv'
<1>1. PICK old \in rows : /\ IsExpired(old, table.ttl, now) /\ rows' = rows \ {old}
                          /\ UNCHANGED <<table, now, fills, due, running, read_at, missed>>
  BY DEF Expire
<1>2. /\ TypeOK /\ Dates /\ now \in Nat /\ LastHourly \in Int /\ read_at \in Nat
      /\ table.ttl \in Nat /\ table.ttl > 4 /\ old.refresh_time \in Nat
      /\ \A r \in rows : r.refresh_time \in Nat
  BY Types DEF IInv, Dates
<1>3. old.refresh_time + table.ttl <= now
  BY <1>1 DEF IsExpired
<1>4. TypeOK'
  BY <1>1, <1>2 DEF TypeOK, Scheduled
<1>5. Dates'
  BY <1>1, <1>2 DEF Dates, Alltime
<1>6. Carried'
  BY <1>1 DEF IInv, Carried
<1>7. Hourly'
  <2>1. LastHourly >= now - 2 /\ LastHourly' = LastHourly
    BY <1>1, <1>2 DEF LastHourly
  <2>2. old.refresh_time < LastHourly - 2 /\ old.refresh_time < LastHourly
    BY <1>2, <1>3, <2>1
  <2>3. ASSUME NEW bar, NEW tick \in Int, old.refresh_time < tick,
               CountedSince(fills, rows, bar, tick)
        PROVE  CountedSince(fills, rows', bar, tick)
    BY <1>1, <1>2, <2>3 DEF CountedSince, Has
  <2>4. LastHourly - 2 \in Int
    BY <1>2
  <2> QED
    BY <1>1, <1>2, <2>1, <2>2, <2>3, <2>4 DEF IInv, Hourly
<1>8. SixHourly'
  <2> SUFFICES ASSUME missed = 0, read_at > 0
               PROVE  OnTime' /\ \A f \in fills : f.inserted < read_at => Counts(f)'
    BY <1>1 DEF SixHourly
  <2>1. OnTime'
    BY <1>1 DEF IInv, SixHourly, OnTime
  <2>2. old.refresh_time < read_at
    <3>1. table.ttl > AlltimePeriod + 1 /\ AlltimePeriod \in Nat
      BY <1>2, AlltimeIsOdd DEF Dates
    <3>2. now <= read_at + AlltimePeriod + 1
      BY DEF IInv, SixHourly, OnTime
    <3> QED
      BY <1>2, <1>3, <3>1, <3>2
  <2>3. ASSUME NEW f \in fills, f.inserted < read_at PROVE Counts(f)'
    BY <1>1, <1>2, <2>2, <2>3 DEF IInv, SixHourly, Counts
  <2> QED
    BY <2>1, <2>3
<1> QED
  BY <1>4, <1>5, <1>6, <1>7, <1>8 DEF IInv

LEMMA TickStep ==
    ASSUME IInv, Tick
    PROVE  IInv'
<1>1. /\ TypeOK /\ Dates /\ now \in Nat /\ LastHourly \in Int /\ read_at \in Nat
      /\ read_at <= now /\ table \in Tables /\ table.window \in Nat
      /\ \A f \in fills : f.inserted \in f.time .. now /\ f.time \in Nat
      /\ \A r \in rows : r.refresh_time \in Nat /\ r.refresh_time <= now
  BY Types DEF IInv, Dates, TypeOK
<1>2. /\ now < LastTick /\ now' = now + 1 /\ due = {} /\ due' = Scheduled(now')
      /\ \A x \in running : x.at = now
      /\ UNCHANGED <<table, fills, rows, running, read_at, missed>>
  BY DEF Tick
<1>3. TypeOK'
  <2>1. now' \in 1 .. LastTick
    BY <1>1, <1>2, BoundsAssumption
  <2>2. \A f \in fills : f.inserted \in f.time .. now'
    BY <1>1, <1>2
  <2>3. \A r \in rows : r.refresh_time \in 1 .. now'
    BY <1>1, <1>2 DEF TypeOK
  <2>4. due' \subseteq Scheduled(now)'
    BY <1>2 DEF Scheduled
  <2>5. \A x \in running : x.at \in read_at + 1 .. now'
    BY <1>1, <1>2 DEF TypeOK
  <2> QED
    BY <1>1, <1>2, <2>1, <2>2, <2>3, <2>4, <2>5 DEF TypeOK
<1>4. Dates'
  <2>1. \A x \in running : Alltime(x.at) /\ now' <= x.at + 1 /\ x.at < now'
    BY <1>1, <1>2 DEF Dates
  <2>2. read_at < now' /\ \A r \in rows : r.refresh_time < now'
    BY <1>1, <1>2
  <2>3. read_at \in 0 .. now'
    BY <1>1, <2>2, <1>2
  <2> QED
    BY <1>1, <1>2, <2>1, <2>2, <2>3 DEF Dates, Alltime
<1>5. Carried'
  BY <1>2 DEF IInv, Carried
<1>6. Hourly'
  <2>1. LastHourly' = LastHourly
    BY <1>1, <1>2 DEF LastHourly, Scheduled
  <2>2. \A bar \in Bars : bar * BarTicks + table.window >= now' =>
                              bar * BarTicks + table.window >= now
    <3>1. ASSUME NEW bar \in Bars, bar * BarTicks + table.window >= now'
          PROVE  bar * BarTicks + table.window >= now
      <4> DEFINE start == bar * BarTicks
      <4>1. start \in Int
        BY BoundsAssumption DEF Bars
      <4>2. start + table.window >= now'
        BY <3>1
      <4> HIDE DEF start
      <4>3. start + table.window >= now
        BY <1>1, <1>2, <4>1, <4>2
      <4> QED
        BY <4>3 DEF start
    <3> QED
      BY <3>1
  <2> QED
    BY <1>2, <2>1, <2>2 DEF IInv, Hourly
<1>7. SixHourly'
  <2>1. ASSUME missed = 0, read_at > 0 PROVE OnTime'
    <3>1. Alltime(read_at) /\ OnTime
      BY <1>1, <2>1 DEF IInv, SixHourly, Dates
    <3>2. AlltimePeriod \in Nat /\ AlltimePeriod >= 2
      BY <1>1, <3>1, AlltimeIsOdd
    <3>3. CASE now + 1 < read_at + AlltimePeriod
      BY <1>1, <1>2, <3>2, <3>3 DEF OnTime
    <3>4. CASE now + 1 = read_at + AlltimePeriod
      <4>1. (read_at + AlltimePeriod) % AlltimePeriod = table.alltime
        <5>1. (read_at + AlltimePeriod) % AlltimePeriod = read_at % AlltimePeriod
          <6>1. AlltimePeriod \in Nat \ {0}
            BY <3>2
          <6> QED
            BY <1>1, <6>1, NextRemainder
        <5> QED
          BY <3>1, <5>1 DEF Alltime
      <4>2. "alltime" \in due'
        BY <1>2, <3>4, <4>1 DEF Scheduled
      <4> QED
        BY <1>1, <1>2, <3>2, <3>4, <4>2 DEF OnTime
    <3>5. CASE now + 1 > read_at + AlltimePeriod
      <4>1. PICK x \in running : x.at = read_at + AlltimePeriod
        BY <1>1, <1>2, <3>1, <3>2, <3>5 DEF OnTime
      <4>2. now = read_at + AlltimePeriod
        BY <1>2, <4>1
      <4> QED
        BY <1>1, <1>2, <3>2, <4>1, <4>2 DEF OnTime
    <3> QED
      BY <1>1, <3>2, <3>3, <3>4, <3>5
  <2> QED
    BY <1>2, <2>1 DEF IInv, SixHourly, Counts
<1> QED
  BY <1>3, <1>4, <1>5, <1>6, <1>7 DEF IInv

LEMMA IInvStep == IInv /\ [Next]_vars => IInv'
<1> SUFFICES ASSUME IInv, [Next]_vars PROVE IInv'
  OBVIOUS
<1>1. CASE \E user \in Users, time \in 0 .. LastFill : Ingest(user, time)
  BY <1>1, IngestStep
<1>2. CASE UNCHANGED vars
  BY <1>2 DEF vars, IInv, TypeOK, Dates, Carried, Hourly, SixHourly, OnTime, Counts, Scheduled,
     LastHourly, Alltime
<1> QED
  BY <1>1, <1>2, RefreshRecentStep, StartAlltimeStep, FinishAlltimeStep, MissRecentStep,
     MissAlltimeStep, ExpireStep, TickStep DEF Next

LEMMA Invariance == Spec => []IInv
BY InitIInv, IInvStep, PTL DEF Spec

(* Types hold; in particular FINAL shows one row of a bar, as no two refreshes  *)
(* that are inserted bear the same refresh_time.                                *)
THEOREM TypeCorrect == Spec => []TypeOK
BY Invariance, PTL DEF IInv

LEMMA Shown ==
    ASSUME IInv, NEW bar \in Bars, NEW tick, CountedSince(fills, rows, bar, tick)
    PROVE  ShowsAtLeast(bar, KnownUsers(bar, tick))
BY DEF CountedSince, Has, Known, ShowsAtLeast, KnownUsers

(* A bar in the reach of the hourly view counts everyone who was known at its   *)
(* last refresh, or at the one before if one has failed, whatever the 6-hourly  *)
(* refresh, which may end at any time, brings in between.                       *)
THEOREM RecentBarsAreCurrent == Spec => []RecentBarsCurrent
<1>1. IInv => RecentBarsCurrent
  <2> SUFFICES ASSUME IInv, NEW bar \in Bars, bar * BarTicks + table.window >= now
               PROVE  /\ missed = 0 => ShowsAtLeast(bar, KnownUsers(bar, LastHourly))
                      /\ missed = 1 => ShowsAtLeast(bar, KnownUsers(bar, LastHourly - 2))
    BY DEF RecentBarsCurrent
  <2> QED
    BY Shown DEF IInv, Hourly
<1> QED
  BY <1>1, Invariance, PTL

(* While no refresh fails, a bar that a 6-hourly refresh has counted has a row  *)
(* for good: the next one is over before the TTL of the row passes.             *)
THEOREM OldBarsAreKept == Spec => []OldBarsKept
<1>1. IInv => OldBarsKept
  <2> SUFFICES ASSUME IInv, missed = 0, NEW f \in fills, f.inserted < read_at
               PROVE  ShowsAtLeast(BarOf(f.time), 1)
    BY DEF OldBarsKept
  <2>1. f.inserted \in Nat /\ read_at \in Nat /\ \A r \in rows : r.uniq_user >= 1
    BY Types DEF IInv, TypeOK, Dates
  <2>2. read_at > 0
    BY <2>1
  <2>3. Counts(f)
    BY <2>2 DEF IInv, SixHourly
  <2> QED
    BY <2>1, <2>3 DEF Counts, ShowsAtLeast
<1> QED
  BY <1>1, Invariance, PTL
===============================================================================
