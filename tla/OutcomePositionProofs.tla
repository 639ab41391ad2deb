------------------------- MODULE OutcomePositionProofs -------------------------
(* Proofs about the open positions, for any number of legs, fills and hours.    *)
EXTENDS OutcomePosition, FiniteSetTheorems, WellFoundedInduction, TLAPS

-------------------------------------------------------------------------------
(* Induction.                                                                   *)

(* A bit that falls at every step does not do so for ever.                      *)
LEMMA Bits == IsWellFoundedOn({<<0, 1>>}, {0, 1})
<1> SUFFICES ASSUME NEW f \in [Nat -> {0, 1}], \A m \in Nat : <<f[m + 1], f[m]>> \in {<<0, 1>>}
             PROVE FALSE
  BY DEF IsWellFoundedOn
<1>1. f[0+1] = 0 /\ f[1+1] = 0 /\ f[1] = 1
  OBVIOUS
<1> QED
  BY <1>1

(* A set of numbers has a least one: what induction on a length comes to.       *)
LEMMA LeastNat ==
    ASSUME NEW T \in SUBSET Nat, T # {}
    PROVE  \E x \in T : \A y \in T : x <= y
<1>1. PICK a \in T : TRUE
  OBVIOUS
<1> DEFINE A == {x \in T : x <= a}
           g(k) == [i \in 1 .. a |-> IF i <= k THEN 1 ELSE 0]
           G == {g(k) : k \in A}
           O == LexProductOrdering({<<0, 1>>}, {0, 1}, a)
<1>2. IsWellFoundedOn(O, [1 .. a -> {0, 1}])
  BY Bits, WFLexProductOrdering
<1>3. G \subseteq [1 .. a -> {0, 1}] /\ G # {}
  <2>1. a \in A /\ \A k \in A : g(k) \in [1 .. a -> {0, 1}]
    BY <1>1
  <2> HIDE DEF A, g
  <2> QED
    BY <2>1
<1>4. \E h \in G : \A e \in G : ~(<<e, h>> \in O)
  <2> HIDE DEF G, O
  <2> QED
    BY <1>2, <1>3, WFMin
<1>5. PICK x \in A : \A y \in A : ~(<<g(y), g(x)>> \in O)
  BY <1>4
<1>6. ASSUME NEW y \in T, y < x PROVE FALSE
  <2>1. y \in A /\ x \in Nat /\ a \in Nat /\ y \in Nat /\ x <= a
    BY <1>6
  <2> DEFINE j == y + 1
  <2>2. /\ j \in 1 .. a
        /\ \A i \in 1 .. j - 1 : g(y)[i] = g(x)[i]
        /\ g(y)[j] = 0 /\ g(x)[j] = 1
    BY <2>1, <1>6
  <2>3. <<g(y), g(x)>> \in O
    <3>1. g(y) \in [1 .. a -> {0, 1}] /\ g(x) \in [1 .. a -> {0, 1}]
      OBVIOUS
    <3>2. <<g(y)[j], g(x)[j]>> \in {<<0, 1>>}
      BY <2>2
    <3> HIDE DEF g, j
    <3> QED
      BY <3>1, <3>2, <2>2 DEF LexProductOrdering
  <2> QED
    BY <2>1, <2>3, <1>5
<1> QED
  BY <1>6, <1>5

(* Induction up to a number.                                                    *)
LEMMA UpTo ==
    ASSUME NEW top \in Nat, NEW G, 0 \in G, \A k \in 0 .. top - 1 : k \in G => k + 1 \in G
    PROVE  \A k \in 0 .. top : k \in G
<1> DEFINE T == {k \in 0 .. top : k \notin G}
<1> SUFFICES ASSUME T # {} PROVE FALSE
  OBVIOUS
<1>1. PICK k \in T : \A l \in T : k <= l
  <2>1. T \subseteq Nat
    OBVIOUS
  <2> HIDE DEF T
  <2> QED
    BY <2>1, LeastNat
<1>2. k \in 0 .. top /\ k \notin G /\ k # 0
  OBVIOUS
<1>3. k - 1 \in 0 .. top /\ k - 1 \in 0 .. top - 1 /\ (k - 1) + 1 = k /\ ~(k <= k - 1)
  BY <1>2
<1>4. k - 1 \in G
  BY <1>1, <1>3
<1> QED
  BY <1>2, <1>3, <1>4

-------------------------------------------------------------------------------
(* Sums.                                                                        *)

Sums(numbers) ==
    CHOOSE sum : sum = [k \in 0 .. Len(numbers) |->
                            IF k = 0 THEN 0 ELSE sum[k - 1] + numbers[k]]

LEMMA SumsExist ==
    ASSUME NEW numbers \in Seq(Int)
    PROVE  \E sum \in [0 .. Len(numbers) -> Int] :
               sum = [m \in 0 .. Len(numbers) |-> IF m = 0 THEN 0 ELSE sum[m - 1] + numbers[m]]
<1> DEFINE Solves(k, sum) == /\ sum \in [0 .. k -> Int] /\ sum[0] = 0
                             /\ \A m \in 1 .. k : sum[m] = sum[m - 1] + numbers[m]
           G == {k \in Nat : \E sum : Solves(k, sum)}
<1>1. Len(numbers) \in Nat /\ \A m \in 1 .. Len(numbers) : numbers[m] \in Int
  OBVIOUS
<1>2. 0 \in G
  <2>1. Solves(0, [m \in 0 .. 0 |-> 0])
    OBVIOUS
  <2> HIDE DEF Solves
  <2> QED
    BY <2>1
<1>3. ASSUME NEW k \in 0 .. Len(numbers) - 1, k \in G PROVE k + 1 \in G
  <2>1. PICK sum : Solves(k, sum)
    BY <1>3
  <2> DEFINE more == [m \in 0 .. k + 1 |-> IF m = k + 1 THEN sum[k] + numbers[k + 1] ELSE sum[m]]
  <2>2. k \in Nat /\ numbers[k + 1] \in Int /\ sum[k] \in Int
    BY <1>1, <2>1
  <2>3. more \in [0 .. k + 1 -> Int] /\ more[0] = 0
    BY <2>1, <2>2
  <2>4. \A m \in 1 .. k + 1 : more[m] = more[m - 1] + numbers[m]
    BY <2>1, <2>2
  <2>5. Solves(k + 1, more)
    BY <2>3, <2>4
  <2> HIDE DEF Solves, more
  <2> QED
    BY <2>2, <2>5
<1>4. Len(numbers) \in G
  <2> HIDE DEF G
  <2>1. \A k \in 0 .. Len(numbers) : k \in G
    BY <1>1, <1>2, <1>3, UpTo
  <2> QED
    BY <1>1, <2>1
<1>5. PICK sum : Solves(Len(numbers), sum)
  BY <1>4
<1>6. sum = [m \in 0 .. Len(numbers) |-> IF m = 0 THEN 0 ELSE sum[m - 1] + numbers[m]]
  BY <1>1, <1>5
<1> QED
  BY <1>5, <1>6

LEMMA SumsUnfold ==
    ASSUME NEW numbers \in Seq(Int)
    PROVE  /\ Sums(numbers)[0] = 0
           /\ \A m \in 1 .. Len(numbers) :
                 Sums(numbers)[m] = Sums(numbers)[m - 1] + numbers[m]
<1> DEFINE Solves(sum) ==
               sum = [m \in 0 .. Len(numbers) |-> IF m = 0 THEN 0 ELSE sum[m - 1] + numbers[m]]
           sum == Sums(numbers)
<1>1. sum = CHOOSE f : Solves(f)
  BY DEF Sums
<1>2. PICK one \in [0 .. Len(numbers) -> Int] : Solves(one)
  BY SumsExist
<1> HIDE DEF sum
<1>3. Solves(sum)
  <2> HIDE DEF Solves
  <2> QED
    BY <1>1, <1>2
<1>4. \A m \in 0 .. Len(numbers) : sum[m] = IF m = 0 THEN 0 ELSE sum[m - 1] + numbers[m]
  BY <1>3
<1> QED
  BY <1>4 DEF sum

LEMMA SumsType ==
    ASSUME NEW numbers \in Seq(Int)
    PROVE  \A m \in 0 .. Len(numbers) : Sums(numbers)[m] \in Int
<1> DEFINE sum == Sums(numbers)
           G == {m \in Nat : sum[m] \in Int}
<1>1. sum[0] = 0 /\ \A m \in 1 .. Len(numbers) : sum[m] = sum[m - 1] + numbers[m]
  BY SumsUnfold
<1> HIDE DEF sum
<1>2. \A m \in 0 .. Len(numbers) - 1 : numbers[m + 1] \in Int /\ m + 1 \in 1 .. Len(numbers)
  OBVIOUS
<1>3. 0 \in G /\ \A m \in 0 .. Len(numbers) - 1 : m \in G => m + 1 \in G
  BY <1>1, <1>2
<1>4. \A m \in 0 .. Len(numbers) : m \in G
  <2>1. Len(numbers) \in Nat
    OBVIOUS
  <2> HIDE DEF G
  <2> QED
    BY <1>3, <2>1, UpTo
<1> QED
  BY <1>4 DEF G, sum

LEMMA TotalSums ==
    ASSUME NEW numbers \in Seq(Int)
    PROVE  Total(numbers) = Sums(numbers)[Len(numbers)] /\ Total(numbers) \in Int
<1>1. Total(numbers) = Sums(numbers)[Len(numbers)]
  BY DEF Total, Sums
<1>2. Len(numbers) \in 0 .. Len(numbers)
  OBVIOUS
<1> QED
  BY <1>1, <1>2, SumsType

LEMMA TotalOfNone == Total(<<>>) = 0
<1>1. <<>> \in Seq(Int) /\ Len(<<>>) = 0
  OBVIOUS
<1> QED
  BY <1>1, SumsUnfold, TotalSums

LEMMA TotalConcat ==
    ASSUME NEW s \in Seq(Int), NEW t \in Seq(Int)
    PROVE  Total(s \o t) = Total(s) + Total(t)
<1> DEFINE both == s \o t
           f == Sums(both)
           g == Sums(s)
           h == Sums(t)
           G == {m \in Nat : f[m] = g[m]}
           H == {m \in Nat : f[Len(s) + m] = g[Len(s)] + h[m]}
<1>1. /\ both \in Seq(Int) /\ Len(both) = Len(s) + Len(t) /\ Len(s) \in Nat /\ Len(t) \in Nat
      /\ \A m \in 1 .. Len(s) : both[m] = s[m] /\ s[m] \in Int
      /\ \A m \in 1 .. Len(t) : both[Len(s) + m] = t[m] /\ t[m] \in Int
  OBVIOUS
<1> HIDE DEF both
<1>2. /\ f[0] = 0 /\ \A m \in 1 .. Len(both) : f[m] = f[m - 1] + both[m]
      /\ g[0] = 0 /\ \A m \in 1 .. Len(s) : g[m] = g[m - 1] + s[m]
      /\ h[0] = 0 /\ \A m \in 1 .. Len(t) : h[m] = h[m - 1] + t[m]
  BY <1>1, SumsUnfold
<1>3. /\ \A m \in 0 .. Len(s) : g[m] \in Int
      /\ \A m \in 0 .. Len(t) : h[m] \in Int
  BY SumsType
<1> HIDE DEF f, g, h
<1>4. \A m \in 0 .. Len(s) : m \in G
  <2>1. 0 \in G
    BY <1>2
  <2>2. ASSUME NEW m \in 0 .. Len(s) - 1, m \in G PROVE m + 1 \in G
    <3>1. m + 1 \in 1 .. Len(s) /\ m + 1 \in 1 .. Len(both) /\ (m + 1) - 1 = m /\ m + 1 \in Nat
      BY <1>1
    <3>2. f[m + 1] = f[m] + both[m + 1] /\ g[m + 1] = g[m] + s[m + 1]
      BY <1>2, <3>1
    <3> QED
      BY <1>1, <2>2, <3>1, <3>2
  <2> HIDE DEF G
  <2> QED
    BY <1>1, <2>1, <2>2, UpTo
<1>5. f[Len(s)] = g[Len(s)]
  <2>1. Len(s) \in G
    BY <1>1, <1>4
  <2> QED
    BY <2>1
<1>6. \A m \in 0 .. Len(t) : m \in H
  <2>1. 0 \in H
    <3>1. Len(s) + 0 = Len(s) /\ g[Len(s)] \in Int
      BY <1>1, <1>3
    <3> QED
      BY <1>2, <1>5, <3>1
  <2>2. ASSUME NEW m \in 0 .. Len(t) - 1, m \in H PROVE m + 1 \in H
    <3>1. /\ m + 1 \in 1 .. Len(t) /\ Len(s) + (m + 1) \in 1 .. Len(both)
          /\ (m + 1) - 1 = m /\ (Len(s) + (m + 1)) - 1 = Len(s) + m /\ m + 1 \in Nat
          /\ m \in 0 .. Len(t) /\ Len(s) \in 0 .. Len(s)
      BY <1>1
    <3>2. /\ f[Len(s) + (m + 1)] = f[Len(s) + m] + both[Len(s) + (m + 1)]
          /\ h[m + 1] = h[m] + t[m + 1]
      BY <1>2, <3>1
    <3>3. both[Len(s) + (m + 1)] = t[m + 1] /\ t[m + 1] \in Int /\ h[m] \in Int /\ g[Len(s)] \in Int
      BY <1>1, <1>3, <3>1
    <3>4. f[Len(s) + m] = g[Len(s)] + h[m]
      BY <2>2
    <3>5. f[Len(s) + (m + 1)] = g[Len(s)] + h[m + 1]
      BY <3>2, <3>3, <3>4
    <3> QED
      BY <3>1, <3>5
  <2> HIDE DEF H
  <2> QED
    BY <1>1, <2>1, <2>2, UpTo
<1>7. f[Len(s) + Len(t)] = g[Len(s)] + h[Len(t)]
  <2>1. Len(t) \in H
    BY <1>1, <1>6
  <2> QED
    BY <2>1
<1> QED
  BY <1>1, <1>7, TotalSums DEF f, g, h, both

LEMMA TotalOfOne == ASSUME NEW x \in Int PROVE Total(<<x>>) = x
<1>1. <<x>> \in Seq(Int) /\ Len(<<x>>) = 1 /\ <<x>>[1] = x /\ 1 \in 1 .. Len(<<x>>)
  OBVIOUS
<1>2. Sums(<<x>>)[0] = 0 /\ Sums(<<x>>)[1] = Sums(<<x>>)[1 - 1] + x
  BY <1>1, SumsUnfold
<1>3. Sums(<<x>>)[1 - 1] = 0
  <2>1. 1 - 1 = 0
    OBVIOUS
  <2> QED
    BY <1>2, <2>1
<1>4. Sums(<<x>>)[1] = 0 + x
  BY <1>2, <1>3
<1>5. Total(<<x>>) = Sums(<<x>>)[1]
  BY <1>1, TotalSums
<1> QED
  BY <1>4, <1>5

-------------------------------------------------------------------------------
(* The inductive invariant.                                                     *)

Move == [leg : Legs, side : {"BID", "ASK"}, size : Nat \ {0}]

(* What the blocks that are not inserted yet add up to.                         *)
Outstanding(blocks, leg) == Total([k \in 1 .. Len(blocks) |-> Balance(blocks[k], leg)])

(* The chain's holdings are those of the beginning and what fills have changed. *)
Books ==
    /\ fills \in Seq(Move) /\ pending \in Seq(Seq(Move))
    /\ \A leg \in Legs :
          held[leg] = before[leg] + Balance(fills, leg) + Outstanding(pending, leg)

(* An open position has a row of the last refresh that succeeded, and when that *)
(* was.                                                                         *)
Fresh ==
    /\ due => \A r \in rows : r.refresh_time < now
    /\ missed <= 1 =>
          \A leg \in Legs : Balance(Read, leg) > 0 =>
              \E r \in rows :
                  /\ r.key = leg /\ r.share_balance = Balance(Read, leg)
                  /\ now <= r.refresh_time + missed + (IF due THEN 1 ELSE 0)

IInv == TypeOK /\ Books /\ Fresh

-------------------------------------------------------------------------------
(* The balances of sequences of fills.                                          *)

LEMMA SignedInt == \A fill \in Move : Signed(fill) \in Int
BY DEF Signed, Move

Changes(some, leg) == [n \in 1 .. Len(some) |-> IF some[n].leg = leg THEN Signed(some[n]) ELSE 0]

LEMMA ChangesType ==
    ASSUME NEW some \in Seq(Move), NEW leg
    PROVE  Changes(some, leg) \in Seq(Int) /\ Len(Changes(some, leg)) = Len(some)
<1>1. Len(some) \in Nat /\ \A n \in 1 .. Len(some) : some[n] \in Move
  OBVIOUS
<1>2. \A n \in 1 .. Len(some) : (IF some[n].leg = leg THEN Signed(some[n]) ELSE 0) \in Int
  BY <1>1, SignedInt
<1> QED
  BY <1>1, <1>2 DEF Changes

LEMMA BalanceIsInt ==
    ASSUME NEW some \in Seq(Move), NEW leg
    PROVE  Balance(some, leg) = Total(Changes(some, leg)) /\ Balance(some, leg) \in Int
BY ChangesType, TotalSums DEF Balance, Changes

LEMMA BalanceConcat ==
    ASSUME NEW s \in Seq(Move), NEW t \in Seq(Move), NEW leg
    PROVE  Balance(s \o t, leg) = Balance(s, leg) + Balance(t, leg)
<1>1. Changes(s \o t, leg) = Changes(s, leg) \o Changes(t, leg)
  <2>1. /\ s \o t \in Seq(Move) /\ Len(s \o t) = Len(s) + Len(t) /\ Len(s) \in Nat /\ Len(t) \in Nat
        /\ \A n \in 1 .. Len(s) : (s \o t)[n] = s[n]
        /\ \A n \in 1 .. Len(t) : (s \o t)[Len(s) + n] = t[n]
    OBVIOUS
  <2> QED
    BY <2>1 DEF Changes
<1>2. s \o t \in Seq(Move)
  OBVIOUS
<1>3. Total(Changes(s, leg) \o Changes(t, leg)) = Total(Changes(s, leg)) + Total(Changes(t, leg))
  BY ChangesType, TotalConcat
<1>4. Balance(s \o t, leg) = Total(Changes(s, leg) \o Changes(t, leg))
  BY <1>1, <1>2, BalanceIsInt
<1> QED
  BY <1>3, <1>4, BalanceIsInt

LEMMA BalanceOfNone == ASSUME NEW leg PROVE Balance(<<>>, leg) = 0
<1>1. Changes(<<>>, leg) = <<>> /\ <<>> \in Seq(Move)
  BY DEF Changes
<1> QED
  BY <1>1, BalanceIsInt, TotalOfNone

Balances(blocks, leg) == [k \in 1 .. Len(blocks) |-> Balance(blocks[k], leg)]

LEMMA OutstandingIsInt ==
    ASSUME NEW blocks \in Seq(Seq(Move)), NEW leg
    PROVE  /\ Balances(blocks, leg) \in Seq(Int) /\ Len(Balances(blocks, leg)) = Len(blocks)
           /\ Outstanding(blocks, leg) = Total(Balances(blocks, leg))
           /\ Outstanding(blocks, leg) \in Int
<1>1. Len(blocks) \in Nat /\ \A k \in 1 .. Len(blocks) : blocks[k] \in Seq(Move)
  OBVIOUS
<1>2. \A k \in 1 .. Len(blocks) : Balance(blocks[k], leg) \in Int
  BY <1>1, BalanceIsInt
<1>3. Balances(blocks, leg) \in Seq(Int) /\ Len(Balances(blocks, leg)) = Len(blocks)
  BY <1>1, <1>2 DEF Balances
<1> QED
  BY <1>3, TotalSums DEF Outstanding, Balances

LEMMA OutstandingOfNone == ASSUME NEW leg PROVE Outstanding(<<>>, leg) = 0
<1>1. Balances(<<>>, leg) = <<>> /\ <<>> \in Seq(Seq(Move))
  BY DEF Balances
<1> QED
  BY <1>1, OutstandingIsInt, TotalOfNone

LEMMA OutstandingConcat ==
    ASSUME NEW s \in Seq(Seq(Move)), NEW t \in Seq(Seq(Move)), NEW leg
    PROVE  Outstanding(s \o t, leg) = Outstanding(s, leg) + Outstanding(t, leg)
<1>1. Balances(s \o t, leg) = Balances(s, leg) \o Balances(t, leg)
  <2>1. /\ Len(s \o t) = Len(s) + Len(t) /\ Len(s) \in Nat /\ Len(t) \in Nat
        /\ \A n \in 1 .. Len(s) : (s \o t)[n] = s[n]
        /\ \A n \in 1 .. Len(t) : (s \o t)[Len(s) + n] = t[n]
    OBVIOUS
  <2> QED
    BY <2>1 DEF Balances
<1>2. s \o t \in Seq(Seq(Move))
  OBVIOUS
<1> QED
  BY <1>1, <1>2, OutstandingIsInt, TotalConcat

LEMMA OutstandingOfOne ==
    ASSUME NEW block \in Seq(Move), NEW leg
    PROVE  Outstanding(<<block>>, leg) = Balance(block, leg)
<1>1. Balances(<<block>>, leg) = <<Balance(block, leg)>> /\ <<block>> \in Seq(Seq(Move))
  BY DEF Balances
<1> QED
  BY <1>1, BalanceIsInt, OutstandingIsInt, TotalOfOne

(* A set with at most one fill of each leg can be listed.                       *)
LEMMA FillsOfLegs ==
    ASSUME NEW S \in SUBSET Move, \A m, n \in S : m.leg = n.leg => m = n
    PROVE  SetToSeq(S) \in Seq(Move)
<1>1. IsFiniteSet(S)
  <2> DEFINE f == [m \in S |-> m.leg]
  <2>1. f \in [S -> Legs]
    BY DEF Move
  <2>2. f \in Injection(S, Legs)
    BY <2>1 DEF Injection, IsInjective
  <2> QED
    BY <2>2, BoundsAssumption, FS_Injection
<1>2. Cardinality(S) \in Nat /\ \E f \in [1 .. Cardinality(S) -> S] : IsInjective(f)
  BY <1>1, FS_CardinalityType DEF ExistsBijection, Bijection, Injection
<1>3. SetToSeq(S) \in [1 .. Cardinality(S) -> S]
  BY <1>2 DEF SetToSeq
<1> QED
  BY <1>2, <1>3

-------------------------------------------------------------------------------
(* The rows.                                                                    *)

(* New rows of distinct keys, later than all old ones, take their place.        *)
LEMMA AppendLater ==
    ASSUME NEW old, NEW new, \A r \in old \cup new : r.refresh_time \in Nat,
           \A r, s \in old : r.key = s.key => r = s, \A r, s \in new : r.key = s.key => r = s,
           \A r \in old, s \in new : r.refresh_time < s.refresh_time
    PROVE  /\ Appended(old, new) \subseteq old \cup new
           /\ new \subseteq Appended(old, new)
           /\ \A r, s \in Appended(old, new) : r.key = s.key => r = s
<1>1. Appended(old, new) \subseteq old \cup new
  BY DEF Appended
<1>2. ASSUME NEW r \in new PROVE r \in Appended(old, new)
  <2>1. ASSUME NEW s \in old \cup new, s.key = r.key PROVE s.refresh_time <= r.refresh_time
    <3>1. CASE s \in old
      BY <3>1
    <3>2. CASE s \in new
      BY <2>1, <3>2
    <3> QED
      BY <3>1, <3>2
  <2> QED
    BY <2>1 DEF Appended
<1>3. ASSUME NEW r \in Appended(old, new), NEW s \in Appended(old, new), r.key = s.key
      PROVE  r = s
  <2>1. r.refresh_time = s.refresh_time
    BY <1>1, <1>3 DEF Appended
  <2>2. ~(r.refresh_time < s.refresh_time) /\ ~(s.refresh_time < r.refresh_time)
    BY <1>1, <2>1
  <2>3. (r \in old /\ s \in old) \/ (r \in new /\ s \in new)
    BY <1>1, <2>2
  <2> QED
    BY <1>3, <2>3
<1> QED
  BY <1>1, <1>2, <1>3

-------------------------------------------------------------------------------
(* The steps.                                                                   *)

LEMMA Types ==
    ASSUME IInv
    PROVE  /\ now \in Nat /\ missed \in Nat /\ due \in BOOLEAN
           /\ fills \in Seq(Move) /\ Len(fills) \in Nat /\ read \in 0 .. Len(fills)
           /\ pending \in Seq(Seq(Move))
           /\ \A leg \in Legs : held[leg] \in Nat /\ before[leg] \in Nat
           /\ \A r \in rows : r.refresh_time \in Nat
<1>1. {LastTick, MaxMissed} \subseteq Nat
  BY BoundsAssumption
<1>2. fills \in Seq(Move) /\ Len(fills) \in Nat
  BY DEF IInv, Books
<1> QED
  BY <1>1, <1>2 DEF IInv, TypeOK, Books

LEMMA InitIInv == Init => IInv
<1> SUFFICES ASSUME Init PROVE IInv
  OBVIOUS
<1>1. {LastTick, MaxMissed, MaxBefore} \subseteq Nat
  BY BoundsAssumption
<1>2. before \in [Legs -> Nat]
  BY <1>1 DEF Init
<1>3. TypeOK
  BY <1>1, <1>2 DEF Init, TypeOK
<1>4. Books
  BY <1>2, BalanceOfNone, OutstandingOfNone DEF Init, Books
<1>5. Fresh
  <2>1. Read = <<>>
    BY DEF Init, Read
  <2> QED
    BY <2>1, BalanceOfNone DEF Init, Fresh
<1> QED
  BY <1>3, <1>4, <1>5 DEF IInv

LEMMA ExecuteStep ==
    ASSUME IInv, NEW block \in Seq(Move), Execute(block)
    PROVE  IInv'
<1>1. UNCHANGED <<now, before, fills, rows, due, read, missed>>
  BY DEF Execute, table
<1>2. \A leg \in Legs : held'[leg] = held[leg] + Balance(block, leg)
  <2>1. ASSUME NEW leg PROVE Total([n \in 1 .. Len(block) |-> Acquired(block[n], leg)])
                                 = Balance(block, leg)
    <3>1. [n \in 1 .. Len(block) |-> Acquired(block[n], leg)] = Changes(block, leg)
      BY DEF Acquired, Changes, Signed
    <3> QED
      BY <3>1, BalanceIsInt
  <2> QED
    BY <2>1 DEF Execute
<1>3. held' \in [Legs -> Nat]
  <2>1. \A leg \in Legs : held'[leg] \in Int
    BY <1>2, BalanceIsInt, Types
  <2>2. \A leg \in Legs : held'[leg] >= 0
    BY DEF Execute
  <2>3. held' = [leg \in Legs |-> held'[leg]]
    BY DEF Execute
  <2> QED
    BY <2>1, <2>2, <2>3
<1>4. TypeOK'
  BY <1>1, <1>3 DEF IInv, TypeOK
<1>5. Books'
  <2>1. pending' = pending \o <<block>> /\ <<block>> \in Seq(Seq(Move))
        /\ pending' \in Seq(Seq(Move))
    <3>1. pending' = Append(pending, block)
      BY DEF Execute
    <3> QED
      BY <3>1, Types
  <2>2. ASSUME NEW leg \in Legs
        PROVE  held'[leg] = before'[leg] + Balance(fills', leg) + Outstanding(pending', leg)
    <3>1. Outstanding(pending', leg) = Outstanding(pending, leg) + Balance(block, leg)
      <4>1. Outstanding(pending \o <<block>>, leg)
                = Outstanding(pending, leg) + Outstanding(<<block>>, leg)
        BY <2>1, OutstandingConcat, Types
      <4> QED
        BY <2>1, <4>1, OutstandingOfOne
    <3>2. held[leg] = before[leg] + Balance(fills, leg) + Outstanding(pending, leg)
      BY DEF IInv, Books
    <3>3. /\ held[leg] \in Int /\ before[leg] \in Int /\ Balance(fills, leg) \in Int
          /\ Outstanding(pending, leg) \in Int /\ Balance(block, leg) \in Int
      BY BalanceIsInt, OutstandingIsInt, Types
    <3>4. fills' = fills /\ before' = before
      BY <1>1
    <3> QED
      BY <1>2, <3>1, <3>2, <3>3, <3>4
  <2> QED
    BY <1>1, <2>1, <2>2, Types DEF Books
<1>6. Fresh'
  BY <1>1 DEF IInv, Fresh, Read
<1> QED
  BY <1>4, <1>5, <1>6 DEF IInv

LEMMA TradeStep == ASSUME IInv, Trade PROVE IInv'
<1>1. PICK f \in Fill : Execute(<<f>>)
  BY DEF Trade
<1>2. f \in Move
  BY BoundsAssumption DEF Fill, Move
<1>3. <<f>> \in Seq(Move)
  BY <1>2
<1> QED
  BY <1>1, <1>3, ExecuteStep

LEMMA ReshapeStep == ASSUME IInv, Reshape PROVE IInv'
<1>1. PICK side \in {"BID", "ASK"}, size \in 1 .. MaxSize :
          Execute(SetToSeq({[leg |-> leg, side |-> side, size |-> size] : leg \in Legs}))
  BY DEF Reshape
<1> DEFINE S == {[leg |-> leg, side |-> side, size |-> size] : leg \in Legs}
<1>2. S \in SUBSET Move /\ \A m, n \in S : m.leg = n.leg => m = n
  <2>1. size \in Nat \ {0}
    BY BoundsAssumption
  <2> QED
    BY <2>1 DEF Move
<1> HIDE DEF S
<1>3. SetToSeq(S) \in Seq(Move)
  BY <1>2, FillsOfLegs
<1> QED
  BY <1>1, <1>3, ExecuteStep DEF S

LEMMA SettleStep == ASSUME IInv, Settle PROVE IInv'
<1> DEFINE S == {[leg |-> leg, side |-> "ASK", size |-> held[leg]] :
                     leg \in {l \in Legs : held[l] > 0}}
<1>1. S \in SUBSET Move /\ \A m, n \in S : m.leg = n.leg => m = n
  <2>1. \A l \in Legs : held[l] > 0 => held[l] \in Nat \ {0}
    BY Types
  <2> QED
    BY <2>1 DEF Move
<1>2. Execute(SetToSeq(S))
  BY DEF Settle
<1> HIDE DEF S
<1>3. SetToSeq(S) \in Seq(Move)
  BY <1>1, FillsOfLegs
<1> QED
  BY <1>2, <1>3, ExecuteStep

LEMMA InsertStep == ASSUME IInv, Insert PROVE IInv'
<1> DEFINE block == Head(pending)
           rest == Tail(pending)
<1>1. UNCHANGED <<now, before, held, rows, due, read, missed>>
  BY DEF Insert
<1>2. /\ block \in Seq(Move) /\ rest \in Seq(Seq(Move)) /\ pending = <<block>> \o rest
      /\ <<block>> \in Seq(Seq(Move))
  <2>1. pending # <<>> /\ pending \in Seq(Seq(Move))
    BY Types DEF Insert
  <2> QED
    BY <2>1
<1>3. fills' = fills \o block /\ pending' = rest
  BY DEF Insert
<1> HIDE DEF block, rest
<1>4. fills' \in Seq(Move) /\ Len(fills') = Len(fills) + Len(block) /\ Len(block) \in Nat
  BY <1>2, <1>3, Types
<1>5. TypeOK'
  <2>1. \A n \in DOMAIN fills' : fills'[n].leg \in Legs /\ fills'[n].size > 0
    <3>1. \A n \in DOMAIN fills' : fills'[n] \in Move
      BY <1>4
    <3> QED
      BY <3>1 DEF Move
  <2>2. read \in 0 .. Len(fills')
    BY <1>4, Types
  <2> QED
    BY <1>1, <2>1, <2>2 DEF IInv, TypeOK
<1>6. Books'
  <2>1. ASSUME NEW leg \in Legs
        PROVE  held'[leg] = before'[leg] + Balance(fills', leg) + Outstanding(pending', leg)
    <3>1. Outstanding(pending, leg) = Balance(block, leg) + Outstanding(rest, leg)
      BY <1>2, OutstandingConcat, OutstandingOfOne
    <3>2. Balance(fills', leg) = Balance(fills, leg) + Balance(block, leg)
      BY <1>2, <1>3, BalanceConcat, Types
    <3>3. held[leg] = before[leg] + Balance(fills, leg) + Outstanding(pending, leg)
      BY DEF IInv, Books
    <3>4. /\ held[leg] \in Int /\ before[leg] \in Int /\ Balance(fills, leg) \in Int
          /\ Outstanding(rest, leg) \in Int /\ Balance(block, leg) \in Int
      BY <1>2, BalanceIsInt, OutstandingIsInt, Types
    <3>5. held' = held /\ before' = before /\ pending' = rest
      BY <1>1, <1>3
    <3> QED
      BY <3>1, <3>2, <3>3, <3>4, <3>5
  <2> QED
    BY <1>2, <1>3, <1>4, <2>1 DEF Books
<1>7. Fresh'
  <2>1. Read' = Read
    <3>1. SubSeq(fills \o block, 1, read) = SubSeq(fills, 1, read)
      <4>1. /\ \A n \in 1 .. read : (fills \o block)[n] = fills[n]
            /\ read \in Nat /\ read <= Len(fills) /\ read <= Len(fills \o block)
        BY <1>2, <1>3, <1>4, Types
      <4>2. fills \o block \in Seq(Move) /\ fills \in Seq(Move)
        BY <1>3, <1>4, Types
      <4>3. \A n \in 1 .. read : SubSeq(fills \o block, 1, read)[n] = SubSeq(fills, 1, read)[n]
        BY <4>1, <4>2
      <4>4. /\ Len(SubSeq(fills \o block, 1, read)) = read
            /\ Len(SubSeq(fills, 1, read)) = read
        BY <4>1, <4>2
      <4>5. SubSeq(fills \o block, 1, read) \in Seq(Move) /\ SubSeq(fills, 1, read) \in Seq(Move)
        BY <4>1, <4>2
      <4> QED
        BY <4>1, <4>3, <4>4, <4>5
    <3> QED
      BY <1>1, <1>3, <3>1 DEF Read
  <2> QED
    BY <1>1, <2>1 DEF IInv, Fresh
<1> QED
  BY <1>5, <1>6, <1>7 DEF IInv

LEMMA RefreshStep == ASSUME IInv, Refresh PROVE IInv'
<1> DEFINE open == {leg \in Legs : Balance(fills, leg) > 0}
           new == { [key |-> leg, share_balance |-> Balance(fills, leg), refresh_time |-> now] :
                        leg \in open }
<1>1. /\ UNCHANGED <<now, before, held, pending, fills, missed>>
      /\ due /\ due' = FALSE /\ read' = Len(fills) /\ rows' = Appended(rows, new)
  BY DEF Refresh
<1>2. \A r \in rows : r.refresh_time < now
  BY <1>1 DEF IInv, Fresh
<1>3. /\ \A r, s \in new : r.key = s.key => r = s
      /\ \A r \in new : /\ r.key \in Legs /\ r.share_balance > 0 /\ r.refresh_time = now
      /\ \A leg \in open : \E r \in new : /\ r.key = leg /\ r.share_balance = Balance(fills, leg)
                                          /\ r.refresh_time = now
  <2>1. ASSUME NEW r \in new
        PROVE  \E leg \in Legs :
                  /\ Balance(fills, leg) > 0 /\ r.key = leg
                  /\ r = [key |-> leg, share_balance |-> Balance(fills, leg), refresh_time |-> now]
    OBVIOUS
  <2>2. ASSUME NEW leg \in open
        PROVE  [key |-> leg, share_balance |-> Balance(fills, leg), refresh_time |-> now] \in new
    OBVIOUS
  <2> HIDE DEF open, new
  <2>3. \A r, s \in new : r.key = s.key => r = s
    BY <2>1
  <2>4. \A r \in new : /\ r.key \in Legs /\ r.share_balance > 0 /\ r.refresh_time = now
    BY <2>1
  <2>5. \A leg \in open : \E r \in new : /\ r.key = leg /\ r.share_balance = Balance(fills, leg)
                                        /\ r.refresh_time = now
    BY <2>2
  <2> QED
    BY <2>3, <2>4, <2>5
<1>4. \A leg \in Legs : Balance(fills, leg) > 0 => leg \in open
  OBVIOUS
<1> HIDE DEF open, new
<1>5. /\ rows' \subseteq rows \cup new /\ new \subseteq rows'
      /\ \A r, s \in rows' : r.key = s.key => r = s
  <2>1. \A r, s \in rows : r.key = s.key => r = s
    BY DEF IInv, TypeOK
  <2>2. \A r \in rows \cup new : r.refresh_time \in Nat
    BY <1>3, Types
  <2>3. \A r \in rows, s \in new : r.refresh_time < s.refresh_time
    BY <1>2, <1>3
  <2> QED
    BY <1>1, <1>3, <2>1, <2>2, <2>3, AppendLater
<1>6. TypeOK'
  <2>1. \A r \in rows' : r.key \in Legs /\ r.share_balance > 0 /\ r.refresh_time \in 0 .. now
    <3>1. \A r \in rows : r.key \in Legs /\ r.share_balance > 0 /\ r.refresh_time \in 0 .. now
      BY DEF IInv, TypeOK
    <3>2. now \in 0 .. now
      BY Types
    <3> QED
      BY <1>3, <1>5, <3>1, <3>2
  <2>2. Len(fills) \in 0 .. Len(fills)
    BY Types
  <2> QED
    BY <1>1, <1>5, <2>1, <2>2 DEF IInv, TypeOK
<1>7. Books'
  BY <1>1 DEF IInv, Books
<1>8. Fresh'
  <2>1. Read' = fills
    <3>1. SubSeq(fills, 1, Len(fills)) = fills
      BY Types
    <3> QED
      BY <1>1, <3>1 DEF Read
  <2>2. ASSUME NEW leg \in Legs, Balance(fills, leg) > 0
        PROVE  \E r \in rows' :
                  /\ r.key = leg /\ r.share_balance = Balance(fills, leg)
                  /\ now <= r.refresh_time + missed + 0
    <3>1. PICK r \in new : /\ r.key = leg /\ r.share_balance = Balance(fills, leg)
                           /\ r.refresh_time = now
      BY <1>3, <1>4, <2>2
    <3>2. r \in rows' /\ now <= r.refresh_time + missed + 0
      BY <1>5, <3>1, Types
    <3> QED
      BY <3>1, <3>2
  <2> QED
    BY <1>1, <2>1, <2>2 DEF Fresh
<1> QED
  BY <1>6, <1>7, <1>8 DEF IInv

LEMMA MissStep == ASSUME IInv, Miss PROVE IInv'
<1>1. /\ UNCHANGED <<now, before, held, pending, fills, rows, read>>
      /\ due /\ due' = FALSE /\ missed' = missed + 1 /\ missed < MaxMissed
  BY DEF Miss
<1>2. TypeOK'
  <2>1. missed + 1 \in 0 .. MaxMissed
    BY <1>1, BoundsAssumption, Types
  <2> QED
    BY <1>1, <2>1 DEF IInv, TypeOK
<1>3. Books'
  BY <1>1 DEF IInv, Books
<1>4. Fresh'
  <2>1. \A leg \in Legs : \A r \in rows :
            missed' <= 1 /\ now <= r.refresh_time + missed + (IF due THEN 1 ELSE 0)
                => missed <= 1 /\ now <= r.refresh_time + missed' + 0
    BY <1>1, Types
  <2>2. Read' = Read /\ (missed' <= 1 => missed <= 1)
    BY <1>1, Types DEF Read
  <2> QED
    BY <1>1, <2>1, <2>2 DEF IInv, Fresh
<1> QED
  BY <1>2, <1>3, <1>4 DEF IInv

LEMMA ExpireStep == ASSUME IInv, Expire PROVE IInv'
<1>1. PICK r \in rows : IsExpired(r, TTLTicks, now) /\ rows' = rows \ {r}
                        /\ UNCHANGED <<now, before, held, pending, fills, due, read, missed>>
  BY DEF Expire
<1>2. TypeOK'
  BY <1>1 DEF IInv, TypeOK
<1>3. Books'
  BY <1>1 DEF IInv, Books
<1>4. Fresh'
  <2>1. \A s \in rows :
            missed <= 1 /\ now <= s.refresh_time + missed + (IF due THEN 1 ELSE 0) => s \in rows'
    <3>1. r.refresh_time + TTLTicks <= now
      BY <1>1 DEF IsExpired
    <3>2. r.refresh_time \in Nat
      BY Types
    <3> QED
      BY <1>1, <3>1, <3>2, TTLAssumption, Types
  <2>2. Read' = Read
    BY <1>1 DEF Read
  <2> QED
    BY <1>1, <2>1, <2>2 DEF IInv, Fresh
<1> QED
  BY <1>2, <1>3, <1>4 DEF IInv

LEMMA TickStep == ASSUME IInv, Tick PROVE IInv'
<1>1. /\ UNCHANGED <<before, held, pending, fills, rows, read, missed>>
      /\ ~due /\ due' = TRUE /\ now' = now + 1 /\ now < LastTick
  BY DEF Tick
<1>2. TypeOK'
  <2>1. now + 1 \in 0 .. LastTick /\ \A r \in rows : r.refresh_time \in 0 .. now + 1
    <3>1. \A r \in rows : r.refresh_time \in 0 .. now
      BY DEF IInv, TypeOK
    <3> QED
      BY <1>1, <3>1, BoundsAssumption, Types
  <2> QED
    BY <1>1, <2>1 DEF IInv, TypeOK
<1>3. Books'
  BY <1>1 DEF IInv, Books
<1>4. Fresh'
  <2>1. \A r \in rows : r.refresh_time < now + 1
    <3>1. \A r \in rows : r.refresh_time \in 0 .. now
      BY DEF IInv, TypeOK
    <3> QED
      BY <3>1, Types
  <2>2. \A r \in rows : now <= r.refresh_time + missed + (IF due THEN 1 ELSE 0)
                            => now + 1 <= r.refresh_time + missed + 1
    BY <1>1, Types
  <2>3. Read' = Read
    BY <1>1 DEF Read
  <2> QED
    BY <1>1, <2>1, <2>2, <2>3 DEF IInv, Fresh
<1> QED
  BY <1>2, <1>3, <1>4 DEF IInv

LEMMA IInvStep == IInv /\ [Next]_vars => IInv'
<1> SUFFICES ASSUME IInv, [Next]_vars PROVE IInv'
  OBVIOUS
<1>1. CASE UNCHANGED vars
  BY <1>1 DEF IInv, TypeOK, Books, Fresh, Read, vars, table
<1> QED
  BY <1>1, TradeStep, ReshapeStep, SettleStep, InsertStep, RefreshStep, MissStep, ExpireStep,
     TickStep DEF Next

LEMMA Invariance == Spec => []IInv
BY InitIInv, IInvStep, PTL DEF Spec

-------------------------------------------------------------------------------
(* The theorems.                                                                *)

(* The balances on the chain are numbers of shares, a table has one row of a    *)
(* leg, with shares, and a refresh read fills that are there.                   *)
THEOREM TypeCorrect == Spec => []TypeOK
BY Invariance, PTL DEF IInv

LEMMA Shown == IInv => OpenShown
<1> SUFFICES ASSUME IInv, missed <= 1, NEW leg \in Legs
             PROVE  /\ Balance(Read, leg) > 0 => ShownBalance(leg) = Balance(Read, leg)
                    /\ before[leg] = 0 /\ pending = <<>> /\ read = Len(fills) /\ held[leg] > 0 =>
                           ShownBalance(leg) = held[leg]
  BY DEF OpenShown
<1>1. ASSUME Balance(Read, leg) > 0 PROVE ShownBalance(leg) = Balance(Read, leg)
  <2>1. PICK r \in rows : r.key = leg /\ r.share_balance = Balance(Read, leg)
    BY <1>1 DEF IInv, Fresh
  <2>2. (CHOOSE s \in rows : s.key = leg) = r
    BY <2>1 DEF IInv, TypeOK
  <2> QED
    BY <2>1, <2>2 DEF ShownBalance
<1>2. ASSUME before[leg] = 0, pending = <<>>, read = Len(fills), held[leg] > 0
      PROVE  ShownBalance(leg) = held[leg]
  <2>1. held[leg] = before[leg] + Balance(fills, leg) + Outstanding(pending, leg)
    BY DEF IInv, Books
  <2>2. held[leg] = Balance(fills, leg)
    BY <1>2, <2>1, BalanceIsInt, OutstandingOfNone, Types
  <2>3. Read = fills
    BY <1>2, Types DEF Read
  <2> QED
    BY <1>1, <1>2, <2>2, <2>3
<1> QED
  BY <1>1, <1>2

(* An open position is in the table with its balance whatever the order of      *)
(* blocks, refreshes and expiries, for any number of legs and fills, as long as *)
(* no second refresh fails.                                                     *)
THEOREM OpenPositionsShown == Spec => []OpenShown
BY Invariance, Shown, PTL
===============================================================================
