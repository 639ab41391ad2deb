----------------------------- MODULE IngestProofs ------------------------------
(* Proofs about the sink and the tables it feeds, for all chains, intervals,    *)
(* batch sizes and numbers of failures: no block is lost, none is inserted more *)
(* often than failures explain, and what a reader of a state table gets is what *)
(* the views would make at once of all that was inserted.                       *)
(*                                                                              *)
(* The invariant IInv has two halves.  That of the sink (SinkInv) counts how    *)
(* often a block was written along a path.  That of the tables says of every    *)
(* state table that its rows are of its columns (Stored), that a bar has seen   *)
(* what was delivered to it (Sighted), and that a column of a bar adds up to    *)
(* what the deliveries owe it, each as often as it was written (Balanced): an   *)
(* insert adds the same to both sides, a merge changes neither.                 *)
(*                                                                              *)
(* That a match, a liquidation and a withdrawal then count once rests on what   *)
(* the exchange keeps to (FillsWhole and the three that follow it in Ingest),   *)
(* a hypothesis of the last three theorems.                                     *)
EXTENDS Ingest, FiniteSetTheorems, SequenceTheorems, WellFoundedInduction, TLAPS

-------------------------------------------------------------------------------
(* Sums over finite sets: the recursion behind SumFunction, and what is needed  *)
(* of it.                                                                       *)

(* What holds of a set whenever it holds of all it is an element away from,     *)
(* holds of every finite one.                                                   *)
LEMMA SetInduction ==
    ASSUME NEW S, IsFiniteSet(S), NEW G,
           \A T \in SUBSET S : (\A x \in T : T \ {x} \in G) => T \in G
    PROVE  \A T \in SUBSET S : T \in G
<1> DEFINE Bad == {T \in SUBSET S : T \notin G}
<1> SUFFICES ASSUME Bad # {} PROVE FALSE
  OBVIOUS
<1>1. Bad \subseteq FiniteSubsetsOf(S)
  BY FS_Subset DEF FiniteSubsetsOf
<1>2. \E T \in Bad : \A U \in Bad : ~(<<U, T>> \in StrictSubsetOrdering(S))
  <2> HIDE DEF Bad
  <2> QED
    BY <1>1, FS_StrictSubsetOrderingWellFounded, WFMin
<1>3. PICK T \in Bad : \A U \in Bad : ~(<<U, T>> \in StrictSubsetOrdering(S))
  BY <1>2
<1>4. PICK x \in T : T \ {x} \notin G
  OBVIOUS
<1>5. T \ {x} \in Bad
  BY <1>4
<1>6. <<T \ {x}, T>> \in StrictSubsetOrdering(S)
  BY <1>4 DEF StrictSubsetOrdering
<1> QED
  BY <1>3, <1>5, <1>6

(* Induction up to a number.                                                    *)
LEMMA UpTo ==
    ASSUME NEW top \in Nat, NEW G, 0 \in G, \A k \in 0 .. top - 1 : k \in G => k + 1 \in G
    PROVE  \A k \in 0 .. top : k \in G
<1> DEFINE Good == {U \in SUBSET (1 .. top) : \A k \in 1 .. top : U = 1 .. k => k \in G}
<1>1. IsFiniteSet(1 .. top)
  BY FS_Interval
<1>2. ASSUME NEW U \in SUBSET (1 .. top), \A x \in U : U \ {x} \in Good PROVE U \in Good
  <2> SUFFICES ASSUME NEW k \in 1 .. top, U = 1 .. k PROVE k \in G
    OBVIOUS
  <2>1. CASE k = 1
    BY <2>1
  <2>2. CASE k > 1
    <3>1. k \in U /\ U \ {k} = 1 .. k - 1 /\ k - 1 \in 1 .. top
      BY <2>2
    <3>2. k - 1 \in G
      BY <3>1, <1>2
    <3> QED
      BY <3>1, <3>2
  <2> QED
    BY <2>1, <2>2
<1>3. \A k \in 1 .. top : 1 .. k \in Good
  <2> HIDE DEF Good
  <2>1. \A U \in SUBSET (1 .. top) : U \in Good
    BY <1>1, <1>2, SetInduction
  <2> QED
    BY <2>1
<1> QED
  BY <1>3

AnyOf(s) == CHOOSE x \in s : TRUE

(* The recursion behind SumFunction, and the sum of a function over a set.      *)
IsPartial(f, sums) ==
    sums = [s \in SUBSET DOMAIN f |->
               IF s = {} THEN 0 ELSE f[AnyOf(s)] + sums[s \ {AnyOf(s)}]]
PartialSums(f) == CHOOSE sums : IsPartial(f, sums)
SumOver(f, T) == SumFunction([x \in T |-> f[x]])

(* SumFunction is the last of the partial sums.                                 *)
LEMMA SumIsLast == ASSUME NEW f PROVE SumFunction(f) = PartialSums(f)[DOMAIN f]
BY DEF SumFunction, SumFunctionOnSet, FoldFunctionOnSet, MapThenFoldSet, PartialSums, IsPartial, AnyOf

(* There are such partial sums.                                                 *)
LEMMA SumsExist ==
    ASSUME NEW f, IsFiniteSet(DOMAIN f), \A x \in DOMAIN f : f[x] \in Int
    PROVE  \E sums \in [SUBSET DOMAIN f -> Int] : IsPartial(f, sums)
<1> DEFINE S == DOMAIN f
           Layer(n) == {s \in SUBSET S : Cardinality(s) <= n}
           Step(sums, s) == IF s = {} THEN 0 ELSE f[AnyOf(s)] + sums[s \ {AnyOf(s)}]
           Fits(n, sums) == /\ sums \in [Layer(n) -> Int]
                            /\ \A s \in Layer(n) : sums[s] = Step(sums, s)
           G == {n \in Nat : \E sums : Fits(n, sums)}
<1>1. \A s \in SUBSET S : IsFiniteSet(s) /\ Cardinality(s) \in Nat
  BY FS_Subset, FS_CardinalityType
<1>2. ASSUME NEW s \in SUBSET S, s # {}
      PROVE  /\ AnyOf(s) \in s /\ s \ {AnyOf(s)} \in SUBSET S
             /\ Cardinality(s \ {AnyOf(s)}) = Cardinality(s) - 1
  <2>1. AnyOf(s) \in s
    BY <1>2 DEF AnyOf
  <2> QED
    BY <2>1, <1>1, FS_RemoveElement
<1>3. 0 \in G
  <2> DEFINE none == [s \in Layer(0) |-> 0]
  <2>1. \A s \in Layer(0) : s = {}
    BY <1>1, FS_EmptySet
  <2>2. Fits(0, none)
    BY <2>1
  <2> HIDE DEF Fits, none
  <2> QED
    BY <2>2
<1>4. ASSUME NEW n \in 0 .. Cardinality(S) - 1, n \in G PROVE n + 1 \in G
  <2>1. PICK sums : Fits(n, sums)
    BY <1>4
  <2> DEFINE more == [s \in Layer(n + 1) |-> IF s \in Layer(n) THEN sums[s] ELSE Step(sums, s)]
  <2>2. ASSUME NEW s \in Layer(n + 1), s # {}
        PROVE  s \ {AnyOf(s)} \in Layer(n) /\ f[AnyOf(s)] \in Int
    BY <2>2, <1>1, <1>2
  <2>3. \A s \in Layer(n) : s \in Layer(n + 1)
    BY <1>1
  <2>4. \A s \in Layer(n) : more[s] = sums[s] /\ sums[s] \in Int /\ sums[s] = Step(sums, s)
    BY <2>1, <2>3
  <2>5. ASSUME NEW s \in Layer(n + 1) PROVE more[s] \in Int /\ more[s] = Step(more, s)
    <3>1. CASE s = {}
      <4>1. n \in Nat
        BY <1>1
      <4>2. s \in Layer(n)
        BY <3>1, <4>1, FS_EmptySet
      <4> QED
        BY <3>1, <4>2, <2>4
    <3>2. CASE s # {}
      <4>1. more[s] = Step(sums, s)
        BY <2>4
      <4>2. /\ sums[s \ {AnyOf(s)}] \in Int /\ f[AnyOf(s)] \in Int
            /\ more[s \ {AnyOf(s)}] = sums[s \ {AnyOf(s)}]
        BY <3>2, <2>2, <2>4
      <4> HIDE DEF more
      <4> QED
        BY <4>1, <4>2, <3>2
    <3> QED
      BY <3>1, <3>2
  <2>6. more \in [Layer(n + 1) -> Int]
    BY <2>5
  <2>7. Fits(n + 1, more)
    BY <2>5, <2>6
  <2> HIDE DEF Fits, more
  <2> QED
    BY <2>7
<1>5. Cardinality(S) \in Nat /\ Layer(Cardinality(S)) = SUBSET S
  BY <1>1, FS_Subset
<1>6. Cardinality(S) \in G
  <2> HIDE DEF G
  <2> QED
    BY <1>3, <1>4, <1>5, UpTo
<1>7. PICK sums : Fits(Cardinality(S), sums)
  BY <1>6
<1> HIDE DEF Layer
<1> QED
  BY <1>7, <1>5 DEF IsPartial

(* The sum of one element more ...                                              *)
LEMMA SumsUnfold ==
    ASSUME NEW f, IsFiniteSet(DOMAIN f), \A x \in DOMAIN f : f[x] \in Int
    PROVE  /\ PartialSums(f) \in [SUBSET DOMAIN f -> Int]
           /\ PartialSums(f)[{}] = 0
           /\ \A T \in SUBSET DOMAIN f : \A x \in T : PartialSums(f)[T] = f[x] + PartialSums(f)[T \ {x}]
<1> DEFINE S == DOMAIN f
           sums == PartialSums(f)
<1>1. IsPartial(f, sums)
  <2> HIDE DEF S
  <2> QED
    BY SumsExist DEF PartialSums
<1> HIDE DEF sums
<1>2. /\ sums[{}] = 0
      /\ \A T \in SUBSET S : T # {} =>
            AnyOf(T) \in T /\ sums[T] = f[AnyOf(T)] + sums[T \ {AnyOf(T)}]
  <2>1. \A T \in SUBSET S :
            sums[T] = IF T = {} THEN 0 ELSE f[AnyOf(T)] + sums[T \ {AnyOf(T)}]
    BY <1>1 DEF IsPartial
  <2>2. \A T : T # {} => AnyOf(T) \in T
    BY DEF AnyOf
  <2> QED
    BY <2>1, <2>2
<1>3. \A T \in SUBSET S : sums[T] \in Int
  <2> DEFINE G == {T \in SUBSET S : sums[T] \in Int}
  <2>1. ASSUME NEW T \in SUBSET S, \A x \in T : T \ {x} \in G PROVE T \in G
    <3>1. CASE T = {}
      BY <3>1, <1>2
    <3>2. CASE T # {}
      <4> DEFINE c == AnyOf(T)
      <4>1. c \in T /\ sums[T] = f[c] + sums[T \ {c}]
        BY <3>2, <1>2
      <4> HIDE DEF c
      <4>2. f[c] \in Int /\ sums[T \ {c}] \in Int
        BY <4>1, <2>1
      <4> QED
        BY <4>1, <4>2
    <3> QED
      BY <3>1, <3>2
  <2> HIDE DEF G
  <2>2. \A T \in SUBSET S : T \in G
    BY <2>1, SetInduction
  <2> QED
    BY <2>2 DEF G
<1>4. \A T \in SUBSET S : \A x \in T : sums[T] = f[x] + sums[T \ {x}]
  <2> DEFINE G == {T \in SUBSET S : \A x \in T : sums[T] = f[x] + sums[T \ {x}]}
  <2>1. ASSUME NEW T \in SUBSET S, \A x \in T : T \ {x} \in G PROVE T \in G
    <3> SUFFICES ASSUME NEW x \in T PROVE sums[T] = f[x] + sums[T \ {x}]
      OBVIOUS
    <3> DEFINE c == AnyOf(T)
    <3>1. c \in T /\ sums[T] = f[c] + sums[T \ {c}]
      BY <1>2
    <3> HIDE DEF c
    <3>2. CASE x = c
      BY <3>1, <3>2
    <3>3. CASE x # c
      <4> DEFINE U == T \ {c, x}
      <4>1. (T \ {c}) \ {x} = U /\ (T \ {x}) \ {c} = U /\ U \in SUBSET S
        OBVIOUS
      <4>2. sums[T \ {c}] = f[x] + sums[U]
        BY <2>1, <3>1, <3>3, <4>1
      <4>3. sums[T \ {x}] = f[c] + sums[U]
        BY <2>1, <3>1, <3>3, <4>1
      <4>4. f[x] \in Int /\ f[c] \in Int /\ sums[U] \in Int
        BY <3>1, <4>1, <1>3
      <4> HIDE DEF U
      <4> QED
        BY <3>1, <4>2, <4>3, <4>4
    <3> QED
      BY <3>2, <3>3
  <2> HIDE DEF G
  <2>2. \A T \in SUBSET S : T \in G
    BY <2>1, SetInduction
  <2> QED
    BY <2>2 DEF G
<1> QED
  BY <1>1, <1>2, <1>3, <1>4 DEF sums, IsPartial

(* ... which depends on nothing but the function's values there.                *)
LEMMA SumsAgree ==
    ASSUME NEW f, IsFiniteSet(DOMAIN f), \A x \in DOMAIN f : f[x] \in Int,
           NEW S \in SUBSET DOMAIN f
    PROVE  SumOver(f, S) = PartialSums(f)[S]
<1> DEFINE g == [x \in S |-> f[x]]
           a == PartialSums(f)
           b == PartialSums(g)
           G == {T \in SUBSET S : a[T] = b[T]}
<1>1. DOMAIN g = S /\ (\A x \in S : g[x] = f[x] /\ g[x] \in Int) /\ IsFiniteSet(S)
  BY FS_Subset
<1> HIDE DEF g
<1>2. /\ a[{}] = 0 /\ b[{}] = 0
      /\ \A T \in SUBSET S : \A x \in T : a[T] = f[x] + a[T \ {x}] /\ b[T] = g[x] + b[T \ {x}]
  <2>1. /\ a[{}] = 0
        /\ \A T \in SUBSET DOMAIN f : \A x \in T : a[T] = f[x] + a[T \ {x}]
    BY SumsUnfold
  <2>2. /\ b[{}] = 0
        /\ \A T \in SUBSET DOMAIN g : \A x \in T : b[T] = g[x] + b[T \ {x}]
    BY <1>1, SumsUnfold
  <2> HIDE DEF a, b
  <2> QED
    BY <1>1, <2>1, <2>2
<1> HIDE DEF a, b
<1>3. ASSUME NEW T \in SUBSET S, \A x \in T : T \ {x} \in G PROVE T \in G
  <2>1. CASE T = {}
    BY <2>1, <1>2
  <2>2. CASE T # {}
    <3>1. PICK x \in T : TRUE
      BY <2>2
    <3>2. a[T \ {x}] = b[T \ {x}]
      BY <3>1, <1>3
    <3> QED
      BY <3>1, <3>2, <1>1, <1>2
  <2> QED
    BY <2>1, <2>2
<1> HIDE DEF G
<1>4. S \in G
  <2>1. \A T \in SUBSET S : T \in G
    BY <1>1, <1>3, SetInduction
  <2> QED
    BY <2>1
<1> QED
  BY <1>1, <1>4, SumIsLast DEF G, a, b, g, SumOver

(* What is needed to know of a sum.                                             *)
LEMMA SumFacts ==
    ASSUME NEW f, NEW S, IsFiniteSet(S), \A x \in S : f[x] \in Int
    PROVE  /\ SumOver(f, {}) = 0
           /\ \A T \in SUBSET S :
                 /\ SumOver(f, T) \in Int
                 /\ \A x \in T : SumOver(f, T) = f[x] + SumOver(f, T \ {x})
<1> DEFINE g == [x \in S |-> f[x]]
<1>1. DOMAIN g = S /\ \A x \in S : g[x] = f[x] /\ g[x] \in Int
  OBVIOUS
<1>2. \A T \in SUBSET S : SumOver(f, T) = SumOver(g, T)
  <2>1. \A T \in SUBSET S : [x \in T |-> f[x]] = [x \in T |-> g[x]]
    OBVIOUS
  <2> HIDE DEF g
  <2> QED
    BY <2>1 DEF SumOver
<1> HIDE DEF g
<1>3. \A T \in SUBSET S : SumOver(g, T) = PartialSums(g)[T]
  BY <1>1, SumsAgree
<1>4. \A T \in SUBSET S : \A x \in T : T \ {x} \in SUBSET S
  OBVIOUS
<1>5. /\ PartialSums(g)[{}] = 0
      /\ \A T \in SUBSET S :
            /\ PartialSums(g)[T] \in Int
            /\ \A x \in T : PartialSums(g)[T] = g[x] + PartialSums(g)[T \ {x}]
  <2>1. /\ PartialSums(g)[{}] = 0
        /\ PartialSums(g) \in [SUBSET DOMAIN g -> Int]
        /\ \A T \in SUBSET DOMAIN g : \A x \in T : PartialSums(g)[T] = g[x] + PartialSums(g)[T \ {x}]
    BY <1>1, SumsUnfold
  <2> QED
    BY <1>1, <2>1
<1>6. SumOver(f, {}) = 0
  BY <1>2, <1>3, <1>5
<1>7. ASSUME NEW T \in SUBSET S
      PROVE  SumOver(f, T) \in Int /\ \A x \in T : SumOver(f, T) = f[x] + SumOver(f, T \ {x})
  <2>1. SumOver(f, T) = PartialSums(g)[T] /\ PartialSums(g)[T] \in Int
    BY <1>2, <1>3, <1>5
  <2>2. ASSUME NEW x \in T PROVE SumOver(f, T) = f[x] + SumOver(f, T \ {x})
    <3>1. SumOver(f, T \ {x}) = PartialSums(g)[T \ {x}]
      BY <1>2, <1>3, <1>4
    <3>2. g[x] = f[x] /\ PartialSums(g)[T] = g[x] + PartialSums(g)[T \ {x}]
      BY <1>1, <1>5
    <3> QED
      BY <2>1, <3>1, <3>2
  <2> QED
    BY <2>1, <2>2
<1> QED
  BY <1>6, <1>7

(* A sum depends on the values only.                                            *)
LEMMA SumSame ==
    ASSUME NEW f, NEW g, NEW S, \A x \in S : f[x] = g[x]
    PROVE  SumOver(f, S) = SumOver(g, S)
<1>1. [x \in S |-> f[x]] = [x \in S |-> g[x]]
  OBVIOUS
<1> QED
  BY <1>1 DEF SumOver

(* A sum of nothing is nothing.                                                 *)
LEMMA SumOfNone ==
    ASSUME NEW f, NEW S, IsFiniteSet(S), \A x \in S : f[x] = 0
    PROVE  SumOver(f, S) = 0
<1> DEFINE G == {T \in SUBSET S : SumOver(f, T) = 0}
<1>1. /\ SumOver(f, {}) = 0
      /\ \A T \in SUBSET S : \A x \in T : SumOver(f, T) = f[x] + SumOver(f, T \ {x})
  <2>1. \A x \in S : f[x] \in Int
    OBVIOUS
  <2> QED
    BY <2>1, SumFacts
<1>2. ASSUME NEW T \in SUBSET S, \A x \in T : T \ {x} \in G PROVE T \in G
  <2>1. CASE T = {}
    BY <2>1, <1>1
  <2>2. CASE T # {}
    <3>1. PICK x \in T : TRUE
      BY <2>2
    <3>2. SumOver(f, T) = f[x] + SumOver(f, T \ {x}) /\ f[x] = 0 /\ SumOver(f, T \ {x}) = 0
      BY <3>1, <1>1, <1>2
    <3> QED
      BY <3>2
  <2> QED
    BY <2>1, <2>2
<1> HIDE DEF G
<1>3. \A T \in SUBSET S : T \in G
  BY <1>2, SetInduction
<1> QED
  BY <1>3 DEF G

(* Sums add up.                                                                 *)
LEMMA SumPlus ==
    ASSUME NEW f, NEW g, NEW h, NEW S, IsFiniteSet(S),
           \A x \in S : f[x] \in Int /\ g[x] \in Int /\ h[x] = f[x] + g[x]
    PROVE  SumOver(h, S) = SumOver(f, S) + SumOver(g, S)
<1> DEFINE G == {T \in SUBSET S : SumOver(h, T) = SumOver(f, T) + SumOver(g, T)}
           Adds(k) == /\ SumOver(k, {}) = 0
                      /\ \A T \in SUBSET S :
                            /\ SumOver(k, T) \in Int
                            /\ \A x \in T : SumOver(k, T) = k[x] + SumOver(k, T \ {x})
<1>1. Adds(f) /\ Adds(g) /\ Adds(h)
  <2>1. \A x \in S : f[x] \in Int
    OBVIOUS
  <2>2. \A x \in S : g[x] \in Int
    OBVIOUS
  <2>3. \A x \in S : h[x] \in Int
    OBVIOUS
  <2> QED
    BY <2>1, <2>2, <2>3, SumFacts
<1>2. ASSUME NEW T \in SUBSET S, \A x \in T : T \ {x} \in G PROVE T \in G
  <2>1. CASE T = {}
    BY <2>1, <1>1
  <2>2. CASE T # {}
    <3>1. PICK x \in T : TRUE
      BY <2>2
    <3> DEFINE U == T \ {x}
    <3>2. SumOver(h, U) = SumOver(f, U) + SumOver(g, U) /\ U \in SUBSET S
      BY <1>2, <3>1
    <3>3. /\ SumOver(f, T) = f[x] + SumOver(f, U) /\ SumOver(g, T) = g[x] + SumOver(g, U)
          /\ SumOver(h, T) = h[x] + SumOver(h, U)
      BY <1>1, <3>1
    <3>4. /\ SumOver(f, U) \in Int /\ SumOver(g, U) \in Int
          /\ f[x] \in Int /\ g[x] \in Int /\ h[x] = f[x] + g[x]
      BY <1>1, <3>1, <3>2
    <3> HIDE DEF U, Adds
    <3> QED
      BY <3>2, <3>3, <3>4
  <2> QED
    BY <2>1, <2>2
<1> HIDE DEF G
<1>3. \A T \in SUBSET S : T \in G
  BY <1>2, SetInduction
<1> QED
  BY <1>3 DEF G

(* A multiple of a sum.                                                         *)
LEMMA SumTimes ==
    ASSUME NEW f, NEW h, NEW k \in Int, NEW S, IsFiniteSet(S),
           \A x \in S : f[x] \in Int /\ h[x] = k * f[x]
    PROVE  SumOver(h, S) = k * SumOver(f, S)
<1> DEFINE G == {T \in SUBSET S : SumOver(h, T) = k * SumOver(f, T)}
<1>1. /\ SumOver(f, {}) = 0 /\ SumOver(h, {}) = 0
      /\ \A T \in SUBSET S :
            /\ SumOver(f, T) \in Int
            /\ \A x \in T : /\ SumOver(f, T) = f[x] + SumOver(f, T \ {x})
                            /\ SumOver(h, T) = h[x] + SumOver(h, T \ {x})
  <2>1. \A x \in S : f[x] \in Int
    OBVIOUS
  <2>2. \A x \in S : h[x] \in Int
    OBVIOUS
  <2> QED
    BY <2>1, <2>2, SumFacts
<1>2. ASSUME NEW T \in SUBSET S, \A x \in T : T \ {x} \in G PROVE T \in G
  <2>1. CASE T = {}
    BY <2>1, <1>1
  <2>2. CASE T # {}
    <3>1. PICK x \in T : TRUE
      BY <2>2
    <3> DEFINE U == T \ {x}
               a == f[x]
               b == SumOver(f, U)
    <3>2. SumOver(h, U) = k * b /\ U \in SUBSET S
      BY <1>2, <3>1
    <3>3. SumOver(f, T) = a + b /\ SumOver(h, T) = k * a + SumOver(h, U)
      BY <1>1, <3>1
    <3>4. a \in Int /\ b \in Int
      BY <1>1, <3>1, <3>2
    <3> HIDE DEF U, a, b
    <3>5. k * (a + b) = k * a + k * b
      BY <3>4
    <3> QED
      BY <3>2, <3>3, <3>5
  <2> QED
    BY <2>1, <2>2
<1> HIDE DEF G
<1>3. \A T \in SUBSET S : T \in G
  BY <1>2, SetInduction
<1> QED
  BY <1>3 DEF G

(* A sum by groups.                                                             *)
LEMMA SumByGroup ==
    ASSUME NEW f, NEW S, IsFiniteSet(S), \A x \in S : f[x] \in Int,
           NEW Y, IsFiniteSet(Y), NEW h, \A x \in S : h[x] \in Y
    PROVE  SumOver(f, S) = SumOver([y \in Y |-> SumOver(f, {x \in S : h[x] = y})], Y)
<1> DEFINE Of(T) == [y \in Y |-> SumOver(f, {x \in T : h[x] = y})]
           G == {T \in SUBSET S : SumOver(f, T) = SumOver(Of(T), Y)}
<1>1. /\ SumOver(f, {}) = 0
      /\ \A T \in SUBSET S :
            /\ SumOver(f, T) \in Int
            /\ \A x \in T : SumOver(f, T) = f[x] + SumOver(f, T \ {x})
  <2>1. \A x \in S : f[x] \in Int
    OBVIOUS
  <2> QED
    BY <2>1, SumFacts
<1>2. \A T \in SUBSET S : \A y \in Y : Of(T)[y] = SumOver(f, {x \in T : h[x] = y})
                                     /\ Of(T)[y] \in Int
  BY <1>1
<1>3. ASSUME NEW T \in SUBSET S, \A x \in T : T \ {x} \in G PROVE T \in G
  <2>1. CASE T = {}
    <3>1. \A y \in Y : {x \in T : h[x] = y} = {}
      BY <2>1
    <3>2. \A y \in Y : Of(T)[y] = 0
      BY <3>1, <1>1, <1>2
    <3> HIDE DEF Of
    <3> QED
      BY <2>1, <3>2, <1>1, SumOfNone
  <2>2. CASE T # {}
    <3>1. PICK x \in T : TRUE
      BY <2>2
    <3> DEFINE U == T \ {x}
               one == [y \in Y |-> IF y = h[x] THEN f[x] ELSE 0]
    <3>2. U \in SUBSET S /\ f[x] \in Int /\ h[x] \in Y
      BY <3>1
    <3>3. \A y \in Y : one[y] \in Int /\ (y # h[x] => one[y] = 0) /\ (y = h[x] => one[y] = f[x])
      BY <3>2
    <3>4. ASSUME NEW y \in Y PROVE Of(T)[y] = Of(U)[y] + one[y]
      <4> DEFINE A == {z \in T : h[z] = y}
                 B == {z \in U : h[z] = y}
      <4>1. CASE y = h[x]
        <5>1. A \in SUBSET S /\ x \in A /\ A \ {x} = B
          BY <3>1, <4>1
        <5>2. SumOver(f, A) = f[x] + SumOver(f, B) /\ SumOver(f, B) \in Int
          BY <5>1, <1>1
        <5>3. Of(T)[y] = SumOver(f, A) /\ Of(U)[y] = SumOver(f, B) /\ one[y] = f[x]
          BY <4>1, <3>2, <3>3, <1>2
        <5> HIDE DEF Of, one, A, B
        <5> QED
          BY <5>2, <5>3, <3>2
      <4>2. CASE y # h[x]
        <5>1. A = B
          BY <4>2
        <5>2. /\ Of(T)[y] = SumOver(f, A) /\ Of(U)[y] = SumOver(f, B) /\ one[y] = 0
              /\ SumOver(f, B) \in Int
          BY <4>2, <3>2, <3>3, <1>2
        <5> HIDE DEF Of, one, A, B
        <5> QED
          BY <5>1, <5>2
      <4> QED
        BY <4>1, <4>2
    <3>5. SumOver(one, Y) = f[x]
      <4> HIDE DEF one
      <4>1. SumOver(one, Y) = one[h[x]] + SumOver(one, Y \ {h[x]})
        BY <3>2, <3>3, SumFacts
      <4>2. SumOver(one, Y \ {h[x]}) = 0
        <5>1. IsFiniteSet(Y \ {h[x]})
          BY FS_RemoveElement
        <5> QED
          BY <5>1, <3>3, SumOfNone
      <4> QED
        BY <4>1, <4>2, <3>2, <3>3
    <3>6. SumOver(Of(T), Y) = SumOver(Of(U), Y) + SumOver(one, Y)
      <4>1. \A y \in Y : Of(U)[y] \in Int
        BY <1>2, <3>2
      <4>2. \A y \in Y : Of(U)[y] \in Int /\ one[y] \in Int /\ Of(T)[y] = Of(U)[y] + one[y]
        BY <3>3, <3>4, <4>1
      <4> HIDE DEF Of, one, U
      <4> QED
        BY <4>2, SumPlus
    <3>7. SumOver(f, T) = f[x] + SumOver(f, U) /\ SumOver(f, U) = SumOver(Of(U), Y)
      BY <3>1, <1>1, <1>3
    <3>8. SumOver(f, U) \in Int
      BY <1>1, <3>2
    <3> HIDE DEF Of, one, U
    <3> QED
      BY <3>2, <3>5, <3>6, <3>7, <3>8
  <2> QED
    BY <2>1, <2>2
<1>4. S \in G
  <2> HIDE DEF G
  <2>1. \A T \in SUBSET S : T \in G
    BY <1>3, SetInduction
  <2> QED
    BY <2>1
<1> QED
  BY <1>4

(* A sum over other names.                                                      *)
LEMMA SumRenamed ==
    ASSUME NEW f, NEW S, IsFiniteSet(S), \A x \in S : f[x] \in Int,
           NEW Y, IsFiniteSet(Y), NEW h, NEW g,
           \A x \in S : h[x] \in Y /\ g[h[x]] = f[x],
           \A y \in Y : \E x \in S : h[x] = y,
           \A x, z \in S : h[x] = h[z] => x = z
    PROVE  SumOver(f, S) = SumOver(g, Y)
<1>1. ASSUME NEW y \in Y PROVE g[y] = SumOver(f, {x \in S : h[x] = y})
  <2>1. PICK x \in S : h[x] = y
    OBVIOUS
  <2>2. {z \in S : h[z] = y} = {x}
    BY <2>1
  <2>3. /\ SumOver(f, {}) = 0 /\ f[x] \in Int
        /\ SumOver(f, {x}) = f[x] + SumOver(f, {x} \ {x})
    <3>1. {x} \in SUBSET S /\ x \in {x}
      OBVIOUS
    <3> QED
      BY <3>1, SumFacts
  <2>4. {x} \ {x} = {}
    OBVIOUS
  <2>5. SumOver(f, {x}) = f[x]
    <3>1. SumOver(f, {x} \ {x}) = 0
      BY <2>3, <2>4
    <3> QED
      BY <2>3, <3>1
  <2>6. g[y] = f[x]
    BY <2>1
  <2> QED
    BY <2>2, <2>5, <2>6
<1> DEFINE by == [y \in Y |-> SumOver(f, {x \in S : h[x] = y})]
<1>2. SumOver(f, S) = SumOver(by, Y)
  <2>1. \A x \in S : h[x] \in Y
    OBVIOUS
  <2> QED
    BY <2>1, SumByGroup
<1>3. \A y \in Y : by[y] = g[y]
  BY <1>1
<1> HIDE DEF by
<1> QED
  BY <1>2, <1>3, SumSame

(* A sum by parts.                                                              *)
Partition(part, Y, S) ==
    /\ \A y \in Y : part[y] \subseteq S
    /\ \A x \in S : \E y \in Y : x \in part[y]
    /\ \A x \in S : \A y, z \in Y : x \in part[y] /\ x \in part[z] => y = z
PartSums(g, Y, f, part) == \A y \in Y : g[y] = SumOver(f, part[y])

(* The sum over a set is the sum of those over the parts of a partition.        *)
LEMMA SumOfParts ==
    ASSUME NEW f, NEW S, IsFiniteSet(S), \A x \in S : f[x] \in Int,
           NEW Y, IsFiniteSet(Y), NEW part, Partition(part, Y, S),
           NEW g, PartSums(g, Y, f, part)
    PROVE  SumOver(f, S) = SumOver(g, Y)
<1> USE DEF Partition, PartSums
<1> DEFINE h == [x \in S |-> CHOOSE y \in Y : x \in part[y]]
           by == [y \in Y |-> SumOver(f, {x \in S : h[x] = y})]
<1>1. \A x \in S : h[x] \in Y /\ x \in part[h[x]]
  OBVIOUS
<1> HIDE DEF h
<1>2. \A y \in Y : {x \in S : h[x] = y} = part[y]
  BY <1>1
<1>3. SumOver(f, S) = SumOver(by, Y)
  <2>1. \A x \in S : h[x] \in Y
    BY <1>1
  <2>2. \A x \in S : f[x] \in Int
    OBVIOUS
  <2> QED
    BY <2>1, <2>2, SumByGroup
<1>4. \A y \in Y : by[y] = g[y]
  BY <1>2
<1> HIDE DEF by
<1> QED
  BY <1>3, <1>4, SumSame

(* What is zero may be left out.                                                *)
LEMMA SumOfSome ==
    ASSUME NEW f, NEW S, IsFiniteSet(S), NEW T \in SUBSET S,
           \A x \in S : f[x] \in Int, \A x \in S \ T : f[x] = 0
    PROVE  SumOver(f, S) = SumOver(f, T)
<1> DEFINE G == {U \in SUBSET S : SumOver(f, U) = SumOver(f, U \cap T)}
<1>1. /\ SumOver(f, {}) = 0
      /\ \A U \in SUBSET S :
            /\ SumOver(f, U) \in Int
            /\ \A x \in U : SumOver(f, U) = f[x] + SumOver(f, U \ {x})
  <2>1. \A x \in S : f[x] \in Int
    OBVIOUS
  <2> QED
    BY <2>1, SumFacts
<1>2. ASSUME NEW U \in SUBSET S, \A x \in U : U \ {x} \in G PROVE U \in G
  <2>1. CASE U = {}
    BY <2>1
  <2>2. CASE U # {}
    <3>1. PICK x \in U : TRUE
      BY <2>2
    <3> DEFINE A == U \cap T
               B == (U \ {x}) \cap T
    <3>2. SumOver(f, U) = f[x] + SumOver(f, B) /\ f[x] \in Int /\ SumOver(f, B) \in Int
      BY <3>1, <1>1, <1>2
    <3>3. CASE x \in T
      <4>1. A \in SUBSET S /\ x \in A /\ A \ {x} = B
        BY <3>1, <3>3
      <4>2. SumOver(f, A) = f[x] + SumOver(f, B)
        BY <4>1, <1>1
      <4> QED
        BY <4>2, <3>2
    <3>4. CASE x \notin T
      <4>1. A = B /\ f[x] = 0
        BY <3>1, <3>4
      <4>2. SumOver(f, U) = SumOver(f, B)
        <5> HIDE DEF A, B
        <5> QED
          BY <4>1, <3>2
      <4> QED
        BY <4>1, <4>2
    <3> QED
      BY <3>3, <3>4
  <2> QED
    BY <2>1, <2>2
<1>3. S \in G
  <2> HIDE DEF G
  <2>1. \A U \in SUBSET S : U \in G
    BY <1>2, SetInduction
  <2> QED
    BY <2>1
<1>4. S \cap T = T
  OBVIOUS
<1> QED
  BY <1>3, <1>4

(* The sum over one element.                                                    *)
LEMMA SumOfOne ==
    ASSUME NEW f, NEW x, f[x] \in Int
    PROVE  SumOver(f, {x}) = f[x]
<1>1. IsFiniteSet({x}) /\ {x} \in SUBSET {x} /\ x \in {x} /\ {x} \ {x} = {} /\ \A y \in {x} : f[y] \in Int
  BY FS_Singleton
<1>2. SumOver(f, {}) = 0 /\ SumOver(f, {x}) = f[x] + SumOver(f, {x} \ {x})
  <2>1. SumOver(f, {}) = 0 /\ \A T \in SUBSET {x} : \A y \in T : SumOver(f, T) = f[y] + SumOver(f, T \ {y})
    BY <1>1, SumFacts
  <2> QED
    BY <2>1, <1>1
<1>3. SumOver(f, {x} \ {x}) = 0
  BY <1>1, <1>2
<1> QED
  BY <1>2, <1>3

(* A sum of equal values counts them.                                           *)
LEMMA SumOfEqual ==
    ASSUME NEW f, NEW S, IsFiniteSet(S), NEW k \in Int, \A x \in S : f[x] = k
    PROVE  SumOver(f, S) = Cardinality(S) * k
<1> DEFINE G == {T \in SUBSET S : SumOver(f, T) = Cardinality(T) * k}
<1>1. /\ SumOver(f, {}) = 0
      /\ \A T \in SUBSET S : \A x \in T : SumOver(f, T) = f[x] + SumOver(f, T \ {x})
  <2>1. \A x \in S : f[x] \in Int
    OBVIOUS
  <2> QED
    BY <2>1, SumFacts
<1>2. ASSUME NEW T \in SUBSET S, \A x \in T : T \ {x} \in G PROVE T \in G
  <2>1. CASE T = {}
    <3>1. Cardinality({}) = 0 /\ 0 * k = 0
      BY FS_EmptySet
    <3> QED
      BY <2>1, <3>1, <1>1
  <2>2. CASE T # {}
    <3>1. PICK x \in T : TRUE
      BY <2>2
    <3> DEFINE U == T \ {x}
               a == Cardinality(U)
    <3>2. IsFiniteSet(T) /\ IsFiniteSet(U)
      BY FS_Subset
    <3>3. a \in Nat /\ Cardinality(T) = a + 1
      <4>1. x \notin U /\ U \cup {x} = T
        BY <3>1
      <4> HIDE DEF U
      <4> QED
        BY <3>2, <4>1, FS_CardinalityType, FS_AddElement
    <3>4. SumOver(f, T) = k + SumOver(f, U) /\ SumOver(f, U) = a * k
      BY <1>1, <1>2, <3>1
    <3> HIDE DEF U, a
    <3>5. (a + 1) * k = k + a * k
      BY <3>3
    <3> QED
      BY <3>3, <3>4, <3>5
  <2> QED
    BY <2>1, <2>2
<1> HIDE DEF G
<1>3. \A T \in SUBSET S : T \in G
  BY <1>2, SetInduction
<1> QED
  BY <1>3 DEF G

(* A finite set has finitely many images.                                       *)
LEMMA ImageIsFinite ==
    ASSUME NEW f, NEW S, IsFiniteSet(S)
    PROVE  IsFiniteSet({f[x] : x \in S})
<1> DEFINE g == [x \in S |-> f[x]]
           T == {f[x] : x \in S}
<1>1. g \in [S -> T] /\ \A y \in T : \E x \in S : g[x] = y
  OBVIOUS
<1>2. g \in Surjection(S, T)
  BY <1>1 DEF Surjection
<1> HIDE DEF g, T
<1>3. IsFiniteSet(T)
  BY <1>2, FS_Surjection
<1> QED
  BY <1>3 DEF T

-------------------------------------------------------------------------------
(* What the views make of the rows of a table.                                  *)

(* What the views make of a row.                                                *)

PathsTo(t) == {p \in Paths : Last(p) = t}

(* The columns of a state table.                                                *)
Columns(t) ==
    CASE t = "open_interest" ->
            {"sum_szi_observations", "sum_abs_szi_observations", "sum_long_szi_observations",
             "sum_short_szi_observations", "funding_events"}
      [] t = "c_deposits_withdrawals" ->
            {"deposit_volume", "withdrawal_count", "withdrawal_finalized_count", "net_flow",
             "gross_volume"}
      [] t = "platform" ->
            {"total_volume", "taker_buy_volume", "taker_sell_volume", "transactions",
             "liq_total_volume", "liq_transactions"}
      [] OTHER ->
            {"side_buy_volume", "side_ask_volume", "taker_buy_volume", "taker_sell_volume",
             "transactions"}

(* Along a path, a row goes into one bar of each interval, is seen there by     *)
(* itself or by its coin, and adds to the columns.                              *)
KeysHit(p, row) ==
    IF ~Passes(p[2], row) THEN {}
    ELSE IF Len(p) = 2 THEN KeysOf(p[2], row)
    ELSE {<<key[1], "", key[3]>> : key \in KeysOf(p[2], row)}
SightOf(p, row) == IF Len(p) = 2 THEN row ELSE row.coin
ValueOf(p, row) ==
    IF Len(p) = 2 THEN Sums(p[2], row) ELSE PlatformSums(p[2], Sums(p[2], row))

Hitting(p, rows, key) == {row \in rows : key \in KeysHit(p, row)}
PartFor(p, rows, key) ==
    [key |-> key,
     sum |-> [c \in Columns(Last(p)) |->
                 SumOver([row \in rows |-> ValueOf(p, row)[c]], Hitting(p, rows, key))],
     seen |-> {SightOf(p, row) : row \in Hitting(p, rows, key)}]

(* A row of a block on its way to a state table: what is counted there as often *)
(* as the block was written along the path.                                     *)
Deliveries(t) ==
    UNION { UNION { {<<p, n, row>> : row \in TableRows(chain, p[1], {n})} :
                        n \in DOMAIN Chains[chain] } : p \in PathsTo(t) }
Times(x) == written[x[1]][x[2]]

StoredBag(t, bag) ==
    /\ IsFiniteSet(DOMAIN bag) /\ IsABag(bag)
    /\ \A r \in DOMAIN bag :
          /\ r = [key |-> r.key, sum |-> r.sum, seen |-> r.seen]
          /\ r.sum \in [Columns(t) -> Int]
          /\ r.seen # {}
Seen(bag, key, s) == \E r \in DOMAIN bag : r.key = key /\ s \in r.seen
Mass(bag, key, c) ==
    SumOver([r \in DOMAIN bag |-> bag[r] * r.sum[c]], {r \in DOMAIN bag : r.key = key})
Owed(t, key, c) ==
    SumOver([x \in Deliveries(t) |-> Times(x) * ValueOf(x[1], x[3])[c]],
            {x \in Deliveries(t) : key \in KeysHit(x[1], x[3])})
KeysIn(t) == UNION {KeysHit(x[1], x[3]) : x \in Deliveries(t)}

(* The invariant: partial rows are of the table's columns, what is seen in a    *)
(* bar is what was written there, and its columns add up to just that.          *)
Stored == DOMAIN state = StateTables /\ \A t \in StateTables : StoredBag(t, state[t])
Sighted ==
    \A t \in StateTables :
        /\ \A r \in DOMAIN state[t] : \A s \in r.seen :
              \E x \in Deliveries(t) :
                  Times(x) > 0 /\ r.key \in KeysHit(x[1], x[3]) /\ s = SightOf(x[1], x[3])
        /\ \A x \in Deliveries(t) :
              Times(x) > 0 => \A key \in KeysHit(x[1], x[3]) :
                                  Seen(state[t], key, SightOf(x[1], x[3]))
Balanced ==
    \A t \in StateTables : \A key \in KeysIn(t) : \A c \in Columns(t) :
        Mass(state[t], key, c) = Owed(t, key, c)

(* What a row is known to be.                                                   *)
WellTyped(row) ==
    /\ row.time \in Nat
    /\ row.table \in {"fills", "fills_liquidation", "outcome_fills"} =>
          row.price \in Int /\ row.size \in Int
    /\ row.table = "funding_deltas" => row.szi \in Int
    /\ row.table \in {"c_deposits", "c_withdrawals"} => row.amount \in Int

(* What RowsAssumption says of the rows of a block: there are finitely many,    *)
(* each goes to a raw table, has its block's number and is well typed.          *)
LEMMA RowFacts ==
    ASSUME NEW name \in DOMAIN Chains, NEW n \in DOMAIN Chains[name]
    PROVE  /\ IsFiniteSet(RowsOf(name, n))
           /\ \A row \in RowsOf(name, n) :
                 row.table \in RawTables /\ row.block = n /\ WellTyped(row)
<1> DEFINE block == Chains[name][n]
           made == {FillRow(block.fills[k], k, n) : k \in DOMAIN block.fills}
<1>1. /\ Len(block.fills) \in Nat /\ DOMAIN block.fills = 1 .. Len(block.fills)
      /\ \A k \in DOMAIN block.fills :
            /\ {block.fills[k].price.value, block.fills[k].size.value} \subseteq Int
            /\ block.fills[k].time = <<>> \/ block.fills[k].time[1] \in Nat
      /\ IsFiniteSet(block.events)
      /\ \A e \in block.events :
            /\ e.table \in {"funding_deltas", "c_deposits", "c_withdrawals"}
            /\ e.block = n /\ e.time \in Nat
            /\ (IF e.table = "funding_deltas" THEN e.szi ELSE e.amount) \in Int
  BY RowsAssumption
<1>2. RowsOf(name, n) = made \cup block.events
  BY DEF RowsOf
<1> HIDE DEF block
<1>3. IsFiniteSet(made)
  <2>1. IsFiniteSet(DOMAIN block.fills)
    BY <1>1, FS_Interval
  <2> DEFINE row == [k \in DOMAIN block.fills |-> FillRow(block.fills[k], k, n)]
  <2>2. made = {row[k] : k \in DOMAIN block.fills}
    OBVIOUS
  <2> HIDE DEF row, made
  <2> QED
    BY <2>1, <2>2, ImageIsFinite
<1>4. ASSUME NEW k \in DOMAIN block.fills, NEW row, row = FillRow(block.fills[k], k, n)
      PROVE  row.table \in RawTables /\ row.block = n /\ WellTyped(row)
  <2> DEFINE fill == block.fills[k]
  <2>1. row.block = n /\ row.table = FillTable(fill)
        /\ row.price = ParseF64(fill.price) /\ row.size = ParseF64(fill.size)
        /\ row.time = IF fill.time = <<>> THEN 0 ELSE fill.time[1]
    BY <1>4 DEF FillRow
  <2>2. row.table \in {"fills", "fills_liquidation", "outcome_fills"}
    BY <2>1 DEF FillTable
  <2>3. row.price \in Int /\ row.size \in Int
    BY <1>1, <2>1 DEF ParseF64
  <2>4. row.time \in Nat
    BY <1>1, <2>1
  <2> QED
    BY <2>1, <2>2, <2>3, <2>4 DEF RawTables, WellTyped
<1>5. ASSUME NEW row \in block.events
      PROVE  row.table \in RawTables /\ row.block = n /\ WellTyped(row)
  BY <1>1 DEF RawTables, WellTyped
<1>6. IsFiniteSet(made \cup block.events)
  BY <1>1, <1>3, FS_Union
<1> QED
  BY <1>2, <1>4, <1>5, <1>6

(* A path to a state table leads through one view, or through two to platform.  *)
LEMMA PathFacts ==
    ASSUME NEW t \in StateTables, NEW p \in PathsTo(t)
    PROVE  /\ p \in Paths /\ p[1] \in RawTables
           /\ \/ Len(p) = 2 /\ p = <<p[1], t>> /\ p[2] = t /\ t \in ViewsOf(p[1])
              \/ /\ Len(p) = 3 /\ p = <<p[1], p[2], "platform">> /\ t = "platform"
                 /\ p[2] \in ViewsOf(p[1]) \cap PlatformSources
<1>1. PICK table \in RawTables : p \in PathsOf(table)
  BY DEF PathsTo, Paths
<1>2. p \in Paths /\ Last(p) = t
  BY DEF PathsTo
<1>3. CASE p = <<table>>
  BY <1>2, <1>3 DEF Last, StateTables, RawTables
<1>4. CASE \E view \in ViewsOf(table) : p = <<table, view>>
  BY <1>1, <1>2, <1>4 DEF Last
<1>5. CASE \E view \in ViewsOf(table) \cap PlatformSources : p = <<table, view, "platform">>
  BY <1>1, <1>2, <1>5 DEF Last
<1> QED
  BY <1>1, <1>3, <1>4, <1>5 DEF PathsOf

(* What a row adds to a bar are numbers, one for every column.                  *)
LEMMA Values ==
    ASSUME NEW t \in StateTables, NEW p \in PathsTo(t), NEW row, WellTyped(row),
           row.table = p[1]
    PROVE  ValueOf(p, row) \in [Columns(t) -> Int]
<1>1. ASSUME NEW a \in Int, NEW b \in BOOLEAN PROVE If(b, a) \in Int
  BY DEF If
<1>2. CASE t = "open_interest"
  <2>1. row.table = "funding_deltas" /\ p[2] = "open_interest" /\ Len(p) = 2
    BY <1>2, PathFacts DEF ViewsOf, RawTables
  <2>2. row.szi \in Int
    BY <2>1 DEF WellTyped
  <2>3. OpenInterestSums(row) \in [Columns(t) -> Int]
    BY <1>2, <2>2 DEF OpenInterestSums, If, Columns
  <2> QED
    BY <2>1, <2>3 DEF ValueOf, Sums
<1>3. CASE t = "c_deposits_withdrawals"
  <2>1. row.table \in {"c_deposits", "c_withdrawals"} /\ p[2] = t /\ Len(p) = 2
    BY <1>3, PathFacts DEF ViewsOf, RawTables
  <2>2. row.amount \in Int
    BY <2>1 DEF WellTyped
  <2>3. FlowSums(row) \in [Columns(t) -> Int]
    BY <1>3, <2>2 DEF FlowSums, If, Columns
  <2> QED
    BY <1>3, <2>1, <2>3 DEF ValueOf, Sums
<1>4. CASE t \in {"ohlcv_fills", "ohlcv_liquidation", "ohlcv_outcomes"}
  <2>1. row.table \in {"fills", "fills_liquidation", "outcome_fills"} /\ p[2] = t /\ Len(p) = 2
    BY <1>4, PathFacts DEF ViewsOf, RawTables
  <2>2. row.price \in Int /\ row.size \in Int
    BY <2>1 DEF WellTyped
  <2>3. OhlcvSums(row) \in [Columns(t) -> Int]
    BY <1>4, <2>2 DEF OhlcvSums, If, Columns
  <2> QED
    BY <1>4, <2>1, <2>3 DEF ValueOf, Sums
<1>5. CASE t = "platform"
  <2>1. /\ row.table \in {"fills", "fills_liquidation", "outcome_fills"} /\ Len(p) = 3
        /\ p[2] \in PlatformSources
    BY <1>5, PathFacts DEF ViewsOf, RawTables, PlatformSources
  <2>2. row.price \in Int /\ row.size \in Int
    BY <2>1 DEF WellTyped
  <2>3. /\ OhlcvSums(row).side_buy_volume \in Int /\ OhlcvSums(row).side_ask_volume \in Int
        /\ OhlcvSums(row).taker_buy_volume \in Int /\ OhlcvSums(row).taker_sell_volume \in Int
        /\ OhlcvSums(row).transactions \in Int
    BY <2>2 DEF OhlcvSums, If
  <2>4. Sums(p[2], row) = OhlcvSums(row)
    BY <2>1 DEF Sums, PlatformSources
  <2>5. PlatformSums(p[2], OhlcvSums(row)) \in [Columns(t) -> Int]
    BY <1>5, <2>3 DEF PlatformSums, If, Columns
  <2> QED
    BY <2>1, <2>4, <2>5 DEF ValueOf
<1> QED
  BY <1>2, <1>3, <1>4, <1>5 DEF StateTables

(* Rows that a table may receive.                                               *)
Proper(table, rows) ==
    IsFiniteSet(rows) /\ \A row \in rows : row.table = table /\ WellTyped(row)

(* Records of some columns, one column's values, and the columns' sums.         *)
Records(e, S, C) == DOMAIN e = S /\ \A x \in S : DOMAIN e[x] = C
ByColumn(value, e, S, C) == \A c \in C : \A x \in S : value[c][x] = e[x][c]
ColumnSums(sum, value, S, C) ==
    sum \in [C -> Int] /\ \A c \in C : sum[c] = SumOver(value[c], S)

(* Total adds up records column by column.                                      *)
LEMMA TotalOf ==
    ASSUME NEW C, NEW S, S # {}, NEW e, Records(e, S, C),
           NEW value, ByColumn(value, e, S, C), NEW sum, ColumnSums(sum, value, S, C)
    PROVE  Total(e) = sum
<1> USE DEF Records, ByColumn, ColumnSums
<1>1. (CHOOSE x \in S : TRUE) \in S
  OBVIOUS
<1>2. DOMAIN e[CHOOSE x \in DOMAIN e : TRUE] = C
  BY <1>1
<1>3. ASSUME NEW c \in C
      PROVE  SumFunction([x \in DOMAIN e |-> e[x][c]]) = sum[c]
  <2>1. [x \in DOMAIN e |-> e[x][c]] = [x \in S |-> value[c][x]]
    OBVIOUS
  <2> QED
    BY <2>1 DEF SumOver
<1> QED
  BY <1>2, <1>3 DEF Total

KeysOfAll(p, rows) == UNION {KeysHit(p, row) : row \in rows}

(* One view ...                                                                 *)
LEMMA AggregatedParts ==
    ASSUME NEW t \in StateTables, NEW p \in PathsTo(t), Len(p) = 2,
           NEW rows, Proper(p[1], rows)
    PROVE  Aggregated(p[2], rows) = {PartFor(p, rows, key) : key \in KeysOfAll(p, rows)}
<1> DEFINE view == p[2]
           some == {r \in rows : Passes(view, r)}
           Group(key) == {r \in some : key \in KeysOf(view, r)}
           Made(key) == [key |-> key, sum |-> Total([r \in Group(key) |-> Sums(view, r)]),
                         seen |-> Group(key)]
           Keys == UNION {KeysOf(view, r) : r \in some}
<1>1. Aggregated(view, rows) = {Made(key) : key \in Keys}
  BY DEF Aggregated
<1>2. Last(p) = t
  BY DEF PathsTo
<1>3. Keys = KeysOfAll(p, rows)
  BY DEF KeysOfAll, KeysHit
<1>4. \A key : Group(key) = Hitting(p, rows, key)
  BY DEF Hitting, KeysHit
<1>5. ASSUME NEW row \in rows
      PROVE  /\ Sums(view, row) = ValueOf(p, row) /\ DOMAIN Sums(view, row) = Columns(t)
             /\ SightOf(p, row) = row
  <2>1. Sums(view, row) = ValueOf(p, row) /\ SightOf(p, row) = row
    BY DEF ValueOf, SightOf
  <2>2. ValueOf(p, row) \in [Columns(t) -> Int]
    BY Values DEF Proper
  <2> QED
    BY <2>1, <2>2
<1>6. ASSUME NEW key \in Keys PROVE Made(key) = PartFor(p, rows, key)
  <2> DEFINE G == Group(key)
             e == [r \in G |-> Sums(view, r)]
             value == [c \in Columns(t) |-> [row \in rows |-> ValueOf(p, row)[c]]]
  <2>1. G # {} /\ G \subseteq rows /\ G = Hitting(p, rows, key)
    BY <1>4
  <2>2. DOMAIN e = G /\ \A r \in G : DOMAIN e[r] = Columns(t)
    BY <1>5
  <2>3. \A c \in Columns(t) : \A r \in G : value[c][r] = e[r][c]
    BY <1>5
  <2> DEFINE sum == [c \in Columns(t) |-> SumOver(value[c], G)]
  <2>4. Total(e) = sum
    <3>1. \A c \in Columns(t) : \A row \in rows : value[c][row] \in Int
      <4>1. \A row \in rows : ValueOf(p, row) \in [Columns(t) -> Int]
        BY Values DEF Proper
      <4> QED
        BY <4>1
    <3>2. IsFiniteSet(rows) /\ G \in SUBSET rows
      BY <2>1 DEF Proper
    <3>3. \A c \in Columns(t) : SumOver(value[c], G) \in Int
      <4> HIDE DEF value, G
      <4> QED
        BY <3>1, <3>2, SumFacts
    <3>4. ColumnSums(sum, value, G, Columns(t))
      BY <3>3 DEF ColumnSums
    <3>5. Records(e, G, Columns(t)) /\ ByColumn(value, e, G, Columns(t))
      BY <2>2, <2>3 DEF Records, ByColumn
    <3> HIDE DEF e, G, value, sum
    <3> QED
      BY <2>1, <3>4, <3>5, TotalOf
  <2>5. \A c \in Columns(t) : value[c] = [row \in rows |-> ValueOf(p, row)[c]]
    OBVIOUS
  <2>6. G = {SightOf(p, row) : row \in G}
    BY <1>5
  <2>7. Made(key) = [key |-> key, sum |-> Total(e), seen |-> G]
    OBVIOUS
  <2>8. PartFor(p, rows, key) =
            [key |-> key, sum |-> [c \in Columns(t) |-> SumOver(value[c], G)],
             seen |-> {SightOf(p, row) : row \in G}]
    <3> HIDE DEF G, value
    <3> QED
      BY <2>1, <2>5, <1>2 DEF PartFor
  <2> HIDE DEF Made, G, e, value
  <2> QED
    BY <2>4, <2>6, <2>7, <2>8
<1> HIDE DEF Made, Keys
<1> QED
  BY <1>1, <1>3, <1>6

(* A column of the platform's is none, one or the sum of two of a source's.     *)
LEMMA PlatformColumns ==
    ASSUME NEW v \in PlatformSources, NEW c \in Columns("platform")
    PROVE  \/ \A w \in [Columns(v) -> Int] : PlatformSums(v, w)[c] = 0
           \/ \E d \in Columns(v) : \A w \in [Columns(v) -> Int] : PlatformSums(v, w)[c] = w[d]
           \/ \E d, e \in Columns(v) : \A w \in [Columns(v) -> Int] :
                  PlatformSums(v, w)[c] = w[d] + w[e]
<1>1. Columns(v) = {"side_buy_volume", "side_ask_volume", "taker_buy_volume",
                    "taker_sell_volume", "transactions"}
  BY DEF Columns, PlatformSources
<1>2. c \in {"total_volume", "taker_buy_volume", "taker_sell_volume", "transactions",
             "liq_total_volume", "liq_transactions"}
  BY DEF Columns
<1>3. v \in {"ohlcv_fills", "ohlcv_liquidation", "ohlcv_outcomes"}
  BY DEF PlatformSources
<1> DEFINE both(w) == w["side_buy_volume"] + w["side_ask_volume"]
<1>4. \A w : /\ PlatformSums(v, w).total_volume =
                    IF v = "ohlcv_liquidation" THEN 0
                    ELSE IF v = "ohlcv_fills" THEN w["side_buy_volume"] ELSE both(w)
             /\ PlatformSums(v, w).taker_buy_volume =
                    IF v = "ohlcv_liquidation" THEN 0 ELSE w["taker_buy_volume"]
             /\ PlatformSums(v, w).taker_sell_volume =
                    IF v = "ohlcv_liquidation" THEN 0 ELSE w["taker_sell_volume"]
             /\ PlatformSums(v, w).transactions =
                    IF v = "ohlcv_liquidation" THEN 0 ELSE w["transactions"]
             /\ PlatformSums(v, w).liq_total_volume =
                    IF v = "ohlcv_liquidation" THEN both(w) ELSE 0
             /\ PlatformSums(v, w).liq_transactions =
                    IF v = "ohlcv_liquidation" THEN w["transactions"] ELSE 0
  BY DEF PlatformSums, If
<1>5. {"side_buy_volume", "side_ask_volume", "taker_buy_volume",
       "taker_sell_volume", "transactions"} \subseteq Columns(v)
  BY <1>1
<1>6. CASE c = "total_volume"
  <2>1. CASE v = "ohlcv_liquidation"
    BY <1>4, <1>6, <2>1
  <2>2. CASE v = "ohlcv_fills"
    BY <1>4, <1>5, <1>6, <2>2
  <2>3. CASE v = "ohlcv_outcomes"
    BY <1>4, <1>5, <1>6, <2>3
  <2> QED
    BY <1>3, <2>1, <2>2, <2>3
<1>7. CASE c = "liq_total_volume"
  BY <1>4, <1>5, <1>7
<1>8. CASE c = "taker_buy_volume"
  BY <1>4, <1>5, <1>8
<1>9. CASE c = "taker_sell_volume"
  BY <1>4, <1>5, <1>9
<1>10. CASE c = "transactions"
  BY <1>4, <1>5, <1>10
<1>11. CASE c = "liq_transactions"
  BY <1>4, <1>5, <1>11
<1> QED
  BY <1>2, <1>6, <1>7, <1>8, <1>9, <1>10, <1>11

(* So the platform's columns of a sum are the sum of the platform's columns.    *)
LEMMA PlatformLinear ==
    ASSUME NEW v \in PlatformSources, NEW c \in Columns("platform"),
           NEW S, IsFiniteSet(S), NEW of \in [S -> [Columns(v) -> Int]],
           NEW column, ByColumn(column, of, S, Columns(v)),
           NEW sum, ColumnSums(sum, column, S, Columns(v)),
           NEW out, \A x \in S : out[x] = PlatformSums(v, of[x])[c]
    PROVE  PlatformSums(v, sum)[c] = SumOver(out, S)
<1> USE DEF ByColumn, ColumnSums
<1>1. \A d \in Columns(v) : \A x \in S : column[d][x] \in Int
  OBVIOUS
<1>2. CASE \A w \in [Columns(v) -> Int] : PlatformSums(v, w)[c] = 0
  <2>1. \A x \in S : out[x] = 0
    BY <1>2
  <2> QED
    BY <1>2, <2>1, SumOfNone
<1>3. CASE \E d \in Columns(v) : \A w \in [Columns(v) -> Int] : PlatformSums(v, w)[c] = w[d]
  <2>1. PICK d \in Columns(v) : \A w \in [Columns(v) -> Int] : PlatformSums(v, w)[c] = w[d]
    BY <1>3
  <2>2. \A x \in S : out[x] = column[d][x]
    BY <2>1
  <2>3. SumOver(out, S) = SumOver(column[d], S)
    BY <2>2, SumSame
  <2> QED
    BY <2>1, <2>3
<1>4. CASE \E d, e \in Columns(v) : \A w \in [Columns(v) -> Int] :
               PlatformSums(v, w)[c] = w[d] + w[e]
  <2>1. PICK d, e \in Columns(v) : \A w \in [Columns(v) -> Int] :
             PlatformSums(v, w)[c] = w[d] + w[e]
    BY <1>4
  <2>2. \A x \in S : /\ column[d][x] \in Int /\ column[e][x] \in Int
                     /\ out[x] = column[d][x] + column[e][x]
    BY <1>1, <2>1
  <2>3. SumOver(out, S) = SumOver(column[d], S) + SumOver(column[e], S)
    <3> DEFINE f == column[d]
               g == column[e]
    <3>1. \A x \in S : f[x] \in Int /\ g[x] \in Int /\ out[x] = f[x] + g[x]
      BY <2>2
    <3> HIDE DEF f, g
    <3>2. SumOver(out, S) = SumOver(f, S) + SumOver(g, S)
      BY <3>1, SumPlus
    <3> QED
      BY <3>2 DEF f, g
  <2> QED
    BY <2>1, <2>3
<1> QED
  BY <1>2, <1>3, <1>4, PlatformColumns

(* A row is in one bar of an interval.                                          *)
LEMMA OneBar ==
    ASSUME NEW v, NEW row, NEW key \in KeysOf(v, row)
    PROVE  /\ key[1] \in Intervals /\ key = <<key[1], key[2], key[3]>>
           /\ key[2] = (IF v = "c_deposits_withdrawals" THEN "" ELSE row.coin)
           /\ key[3] = BarOf(key[1], row.time)
<1> DEFINE coin == IF v = "c_deposits_withdrawals" THEN "" ELSE row.coin
<1>1. PICK interval \in Intervals : key = <<interval, coin, BarOf(interval, row.time)>>
  BY DEF KeysOf
<1> QED
  BY <1>1

(* ... and two.                                                                 *)
LEMMA PlatformParts ==
    ASSUME NEW t \in StateTables, NEW p \in PathsTo(t), Len(p) = 3,
           NEW rows, Proper(p[1], rows)
    PROVE  Platform(p[2], Aggregated(p[2], rows)) =
               {PartFor(p, rows, key) : key \in KeysOfAll(p, rows)}
<1> DEFINE v == p[2]
           q == <<p[1], v>>
           parts == Aggregated(v, rows)
           Lift(key) == <<key[1], "", key[3]>>
           Group(k) == {r \in parts : Lift(r.key) = k}
           Made(k) == [key |-> k, sum |-> Total([r \in Group(k) |-> PlatformSums(v, r.sum)]),
                       seen |-> {r.key[2] : r \in Group(k)}]
           Keys == {Lift(r.key) : r \in parts}
<1>1. Platform(v, parts) = {Made(k) : k \in Keys}
  BY DEF Platform
<1>2. /\ v \in PlatformSources /\ v \in StateTables /\ q \in PathsTo(v)
      /\ Len(q) = 2 /\ q[2] = v /\ q[1] = p[1] /\ t = "platform" /\ Last(p) = t /\ Last(q) = v
      /\ v # "c_deposits_withdrawals"
  <2>1. /\ p \in Paths /\ p[1] \in RawTables /\ t = "platform"
        /\ v \in ViewsOf(p[1]) \cap PlatformSources
    BY PathFacts
  <2>2. q \in PathsOf(p[1])
    BY <2>1 DEF PathsOf
  <2>3. q \in Paths /\ Last(q) = v
    BY <2>1, <2>2 DEF Paths, Last
  <2> QED
    BY <2>1, <2>3 DEF PathsTo, StateTables, PlatformSources
<1>3. parts = {PartFor(q, rows, key) : key \in KeysOfAll(q, rows)}
  BY <1>2, AggregatedParts
<1> HIDE DEF q, parts
<1>4. ASSUME NEW row \in rows
      PROVE  /\ ValueOf(q, row) \in [Columns(v) -> Int] /\ ValueOf(q, row) = Sums(v, row)
             /\ ValueOf(p, row) = PlatformSums(v, ValueOf(q, row))
             /\ ValueOf(p, row) \in [Columns(t) -> Int]
             /\ SightOf(q, row) = row /\ SightOf(p, row) = row.coin
             /\ KeysHit(p, row) = {Lift(key) : key \in KeysHit(q, row)}
             /\ KeysHit(q, row) \subseteq KeysOf(v, row)
  <2>1. row.table = p[1] /\ WellTyped(row)
    BY DEF Proper
  <2>2. ValueOf(q, row) \in [Columns(v) -> Int] /\ ValueOf(p, row) \in [Columns(t) -> Int]
    BY <2>1, <1>2, Values
  <2>3. ValueOf(q, row) = Sums(v, row) /\ ValueOf(p, row) = PlatformSums(v, Sums(v, row))
    BY <1>2 DEF ValueOf
  <2>4. SightOf(q, row) = row /\ SightOf(p, row) = row.coin
    BY <1>2 DEF SightOf
  <2>5. KeysHit(p, row) = {Lift(key) : key \in KeysHit(q, row)}
    <3>1. CASE Passes(p[2], row)
      <4>1. KeysHit(p, row) = {<<key[1], "", key[3]>> : key \in KeysOf(p[2], row)}
        BY <3>1 DEF KeysHit
      <4>2. KeysHit(q, row) = KeysOf(p[2], row)
        BY <3>1, <1>2 DEF KeysHit
      <4> QED
        BY <4>1, <4>2
    <3>2. CASE ~Passes(p[2], row)
      BY <3>2, <1>2 DEF KeysHit
    <3> QED
      BY <3>1, <3>2
  <2>6. KeysHit(q, row) \subseteq KeysOf(v, row)
    BY <1>2 DEF KeysHit
  <2> QED
    BY <2>2, <2>3, <2>4, <2>5, <2>6
<1>5. ASSUME NEW r \in parts
      PROVE  /\ r = PartFor(q, rows, r.key) /\ r.seen = Hitting(q, rows, r.key)
             /\ r.key \in KeysOfAll(q, rows) /\ r.seen \subseteq rows /\ r.seen # {}
  <2>1. PICK key \in KeysOfAll(q, rows) : r = PartFor(q, rows, key)
    BY <1>3
  <2>2. r.key = key /\ r.seen = {SightOf(q, row) : row \in Hitting(q, rows, key)}
    BY <2>1 DEF PartFor
  <2>3. r.seen = Hitting(q, rows, key)
    BY <2>2, <1>4 DEF Hitting
  <2> QED
    BY <2>1, <2>2, <2>3 DEF Hitting, KeysOfAll
<1>6. Keys = KeysOfAll(p, rows)
  <2>1. {r.key : r \in parts} = KeysOfAll(q, rows)
    <3>1. \A key : PartFor(q, rows, key).key = key
      BY DEF PartFor
    <3> QED
      BY <1>3, <3>1
  <2>2. Keys = {Lift(key) : key \in {r.key : r \in parts}}
    OBVIOUS
  <2>3. KeysOfAll(p, rows) = {Lift(key) : key \in KeysOfAll(q, rows)}
    <3>1. ASSUME NEW key \in KeysOfAll(p, rows)
          PROVE  key \in {Lift(l) : l \in KeysOfAll(q, rows)}
      <4>1. PICK row \in rows : key \in KeysHit(p, row)
        BY <3>1 DEF KeysOfAll
      <4>2. KeysHit(p, row) = {Lift(l) : l \in KeysHit(q, row)}
        BY <1>4
      <4>3. PICK l \in KeysHit(q, row) : key = Lift(l)
        BY <4>1, <4>2
      <4> QED
        BY <4>3 DEF KeysOfAll
    <3>2. ASSUME NEW l \in KeysOfAll(q, rows) PROVE Lift(l) \in KeysOfAll(p, rows)
      <4>1. PICK row \in rows : l \in KeysHit(q, row)
        BY <3>2 DEF KeysOfAll
      <4>2. KeysHit(p, row) = {Lift(m) : m \in KeysHit(q, row)}
        BY <1>4
      <4>3. Lift(l) \in KeysHit(p, row)
        BY <4>1, <4>2
      <4> QED
        BY <4>3 DEF KeysOfAll
    <3> QED
      BY <3>1, <3>2
  <2> QED
    BY <2>1, <2>2, <2>3
<1>7. ASSUME NEW k \in Keys PROVE Made(k) = PartFor(p, rows, k)
  <2> DEFINE G == Group(k)
             H == Hitting(p, rows, k)
             value == [c \in Columns(t) |-> [row \in rows |-> ValueOf(p, row)[c]]]
             e == [r \in G |-> PlatformSums(v, r.sum)]
             out == [c \in Columns(t) |-> [r \in G |-> PlatformSums(v, r.sum)[c]]]
             sum == [c \in Columns(t) |-> SumOver(value[c], H)]
  <2>1. IsFiniteSet(rows) /\ IsFiniteSet(H) /\ H \subseteq rows
    BY FS_Subset DEF Proper, Hitting
  <2>2. H = UNION {r.seen : r \in G}
    <3>1. ASSUME NEW row \in H PROVE \E r \in G : row \in r.seen
      <4>1. row \in rows /\ k \in KeysHit(p, row)
        BY DEF Hitting
      <4>2. PICK key \in KeysHit(q, row) : k = Lift(key)
        <5>1. KeysHit(p, row) = {Lift(key) : key \in KeysHit(q, row)}
          BY <4>1, <1>4
        <5> QED
          BY <4>1, <5>1
      <4>3. PartFor(q, rows, key) \in parts /\ PartFor(q, rows, key).key = key
        BY <4>1, <4>2, <1>3 DEF KeysOfAll, PartFor
      <4>4. row \in Hitting(q, rows, key)
        BY <4>1, <4>2 DEF Hitting
      <4>5. PartFor(q, rows, key).seen = Hitting(q, rows, key)
        BY <4>3, <1>5
      <4> QED
        BY <4>2, <4>3, <4>4, <4>5
    <3>2. ASSUME NEW r \in G, NEW row \in r.seen PROVE row \in H
      <4>1. r \in parts /\ Lift(r.key) = k /\ row \in rows /\ r.key \in KeysHit(q, row)
        BY <1>5 DEF Hitting
      <4>2. k \in KeysHit(p, row)
        BY <4>1, <1>4
      <4> QED
        BY <4>1, <4>2 DEF Hitting
    <3> QED
      BY <3>1, <3>2
  <2> DEFINE Hit(r, row) == /\ r.key = <<r.key[1], row.coin, r.key[3]>> /\ r.key[2] = row.coin
                            /\ <<r.key[1], "", r.key[3]>> = k /\ row \in rows
  <2>10. ASSUME NEW r \in G, NEW row \in r.seen PROVE Hit(r, row)
    <3>1. r \in parts /\ Lift(r.key) = k
      OBVIOUS
    <3>2. row \in rows /\ r.key \in KeysHit(q, row)
      BY <3>1, <1>5 DEF Hitting
    <3> DEFINE key == r.key
    <3>3. key \in KeysOf(v, row) /\ v # "c_deposits_withdrawals"
      BY <3>2, <1>2, <1>4
    <3>4. key = <<key[1], key[2], key[3]>> /\ key[2] = row.coin
      <4> HIDE DEF key, v
      <4> QED
        BY <3>3, OneBar
    <3> QED
      BY <3>1, <3>2, <3>4
  <2>3. ASSUME NEW r \in G, NEW s \in G, NEW row \in r.seen, row \in s.seen PROVE r = s
    <3>1. Hit(r, row) /\ Hit(s, row)
      <4> HIDE DEF Hit, G
      <4> QED
        BY <2>3, <2>10
    <3> HIDE DEF G
    <3>2. r.key[1] = s.key[1] /\ r.key[3] = s.key[3]
      <4>1. <<r.key[1], "", r.key[3]>> = <<s.key[1], "", s.key[3]>>
        BY <3>1
      <4> QED
        BY <4>1
    <3>3. r.key = <<r.key[1], row.coin, r.key[3]>> /\ s.key = <<s.key[1], row.coin, s.key[3]>>
      BY <3>1
    <3>4. r.key = s.key
      BY <3>2, <3>3
    <3>5. r \in parts /\ s \in parts
      BY DEF G
    <3> QED
      BY <3>4, <3>5, <1>5
  <2>4. ASSUME NEW r \in G
        PROVE  r.sum \in [Columns(v) -> Int] /\ \A c \in Columns(t) :
                   SumOver(value[c], r.seen) = PlatformSums(v, r.sum)[c]
    <3> DEFINE S == r.seen
               of == [row \in S |-> ValueOf(q, row)]
               column == [d \in Columns(v) |-> [row \in rows |-> ValueOf(q, row)[d]]]
    <3>1. /\ IsFiniteSet(S) /\ S \in SUBSET rows /\ S = Hitting(q, rows, r.key)
          /\ r = PartFor(q, rows, r.key)
      BY <1>5, <2>1, FS_Subset
    <3>2. of \in [S -> [Columns(v) -> Int]]
      BY <1>4, <3>1
    <3>3. ByColumn(column, of, S, Columns(v))
      BY <3>1 DEF ByColumn
    <3>4. r.sum = [d \in Columns(v) |-> SumOver(column[d], S)]
      <4>1. \A d \in Columns(v) : column[d] = [row \in rows |-> ValueOf(q, row)[d]]
        OBVIOUS
      <4>2. r.sum = [d \in Columns(v) |->
                        SumOver([row \in rows |-> ValueOf(q, row)[d]], Hitting(q, rows, r.key))]
        <5>1. PartFor(q, rows, r.key).sum = [d \in Columns(Last(q)) |->
                  SumOver([row \in rows |-> ValueOf(q, row)[d]], Hitting(q, rows, r.key))]
          BY DEF PartFor
        <5>2. PartFor(q, rows, r.key).sum = r.sum
          BY <3>1
        <5> HIDE DEF S, column, v, value, H
        <5> QED
          BY <5>1, <5>2, <1>2
      <4> HIDE DEF column, S
      <4> QED
        BY <4>1, <4>2, <3>1
    <3>5. \A d \in Columns(v) : SumOver(column[d], S) \in Int
      <4>1. \A d \in Columns(v) : \A row \in rows : column[d][row] \in Int
        BY <1>4
      <4> HIDE DEF column, S
      <4> QED
        BY <4>1, <2>1, <3>1, SumFacts
    <3>6. ColumnSums(r.sum, column, S, Columns(v))
      <4> HIDE DEF column, S
      <4> QED
        BY <3>4, <3>5 DEF ColumnSums
    <3>7. ASSUME NEW c \in Columns(t)
          PROVE  SumOver(value[c], S) = PlatformSums(v, r.sum)[c]
      <4>1. \A row \in S : value[c][row] = PlatformSums(v, of[row])[c]
        BY <3>1, <1>4
      <4> DEFINE sums == r.sum
                 one == value[c]
      <4>2. /\ ColumnSums(sums, column, S, Columns(v))
            /\ v \in PlatformSources
            /\ c \in Columns("platform")
            /\ \A row \in S : one[row] = PlatformSums(v, of[row])[c]
        BY <3>6, <1>2, <4>1
      <4> HIDE DEF value, of, column, S, sums, v, one, Keys, G
      <4>3. PlatformSums(v, sums)[c] = SumOver(one, S)
        BY <4>2, <3>1, <3>2, <3>3, PlatformLinear
      <4> QED
        BY <4>3 DEF sums, one
    <3> QED
      BY <3>6, <3>7 DEF ColumnSums
  <2>5. ASSUME NEW c \in Columns(t)
        PROVE  SumOver(value[c], H) = SumOver(out[c], G) /\ SumOver(value[c], H) \in Int
    <3> DEFINE f == value[c]
               g == out[c]
               part == [r \in G |-> r.seen]
    <3>1. \A row \in H : f[row] \in Int
      BY <1>4, <2>1
    <3>2. PartSums(g, G, f, part)
      BY <2>4 DEF PartSums
    <3>3. Partition(part, G, H)
      <4>1. \A r \in G : part[r] \subseteq H
        BY <2>2
      <4>2. \A row \in H : \E r \in G : row \in part[r]
        BY <2>2
      <4>3. \A row \in H : \A r, s \in G : row \in part[r] /\ row \in part[s] => r = s
        BY <2>3
      <4> HIDE DEF part, G, H
      <4> QED
        BY <4>1, <4>2, <4>3 DEF Partition
    <3>4. IsFiniteSet(G)
      <4>1. IsFiniteSet(SUBSET rows)
        BY <2>1, FS_SUBSET
      <4> DEFINE seen == [r \in G |-> r.seen]
      <4>2. seen \in [G -> SUBSET rows]
        BY <1>5
      <4>3. \A r, s \in G : seen[r] = seen[s] => r = s
        <5> SUFFICES ASSUME NEW r \in G, NEW s \in G, r.seen = s.seen PROVE r = s
          OBVIOUS
        <5>1. PICK row \in r.seen : TRUE
          BY <1>5
        <5> QED
          BY <5>1, <2>3
      <4>4. seen \in Injection(G, SUBSET rows)
        BY <4>2, <4>3 DEF Injection, IsInjective
      <4> HIDE DEF seen, G
      <4> QED
        BY <4>1, <4>4, FS_Injection
    <3> HIDE DEF f, g, part, G, H
    <3> HIDE DEF Keys
    <3>5. SumOver(f, H) = SumOver(g, G)
      BY <3>1, <3>2, <3>3, <3>4, <2>1, SumOfParts
    <3>6. SumOver(f, H) \in Int
      <4>1. H \in SUBSET H
        OBVIOUS
      <4> QED
        BY <3>1, <4>1, <2>1, SumFacts
    <3> QED
      BY <3>5, <3>6 DEF f, g
  <2>6. Total(e) = sum
    <3>1. G # {} /\ DOMAIN e = G
      OBVIOUS
    <3>2. \A r \in G : DOMAIN e[r] = Columns(t)
      <4>1. \A w : DOMAIN PlatformSums(v, w) = Columns("platform")
        BY DEF PlatformSums, Columns
      <4> QED
        BY <4>1, <1>2
    <3>3. Records(e, G, Columns(t)) /\ ByColumn(out, e, G, Columns(t))
      BY <3>1, <3>2 DEF Records, ByColumn
    <3>4. ColumnSums(sum, out, G, Columns(t))
      <4> HIDE DEF value, H, out, G
      <4> QED
        BY <2>5 DEF ColumnSums
    <3> HIDE DEF e, G, out, sum
    <3> QED
      BY <3>1, <3>3, <3>4, TotalOf
  <2>7. {r.key[2] : r \in G} = {SightOf(p, row) : row \in H}
    <3>1. \A r \in G : \A row \in r.seen : r.key[2] = SightOf(p, row)
      <4> SUFFICES ASSUME NEW r \in G, NEW row \in r.seen PROVE r.key[2] = SightOf(p, row)
        OBVIOUS
      <4>1. Hit(r, row)
        BY <2>10
      <4> QED
        BY <4>1, <1>4
    <3>2. \A r \in G : \E row \in r.seen : r.key[2] = SightOf(p, row)
      BY <1>5, <3>1
    <3>3. \A row \in H : \E r \in G : row \in r.seen
      BY <2>2
    <3>4. \A r \in G : r.seen \subseteq H
      BY <2>2
    <3> HIDE DEF G, H
    <3>5. ASSUME NEW r \in G PROVE r.key[2] \in {SightOf(p, row) : row \in H}
      BY <3>2, <3>4
    <3>6. ASSUME NEW row \in H PROVE SightOf(p, row) \in {r.key[2] : r \in G}
      BY <3>1, <3>3
    <3> QED
      BY <3>5, <3>6
  <2>8. PartFor(p, rows, k) =
            [key |-> k, sum |-> sum, seen |-> {SightOf(p, row) : row \in H}]
    <3>1. \A c \in Columns(t) : value[c] = [row \in rows |-> ValueOf(p, row)[c]]
      OBVIOUS
    <3> HIDE DEF value
    <3> QED
      BY <3>1, <1>2 DEF PartFor
  <2>9. Made(k) = [key |-> k, sum |-> Total(e), seen |-> {r.key[2] : r \in G}]
    OBVIOUS
  <2> HIDE DEF Made, G, e, H, sum
  <2> QED
    BY <2>6, <2>7, <2>8, <2>9
<1> HIDE DEF Made, Keys
<1> QED
  BY <1>1, <1>6, <1>7 DEF parts

(* Along any path to a state table.                                             *)
LEMMA AlongParts ==
    ASSUME NEW t \in StateTables, NEW p \in PathsTo(t), NEW rows, Proper(p[1], rows)
    PROVE  Along(p, rows) = {PartFor(p, rows, key) : key \in KeysOfAll(p, rows)}
<1>1. CASE Len(p) = 2
  BY <1>1, AggregatedParts DEF Along
<1>2. CASE Len(p) = 3
  BY <1>2, PlatformParts DEF Along
<1> QED
  BY <1>1, <1>2, PathFacts

(* Finitely many paths lead to a table.                                         *)
LEMMA PathsFinite == ASSUME NEW t \in StateTables PROVE IsFiniteSet(PathsTo(t))
<1>1. IsFiniteSet(RawTables \X (StateTables))
  <2>1. IsFiniteSet(RawTables)
    <3>1. RawTables = {"fills", "fills_liquidation", "outcome_fills"} \cup {"funding_deltas"} \cup {"c_deposits"} \cup {"c_withdrawals"}
      BY DEF RawTables
    <3>2. {"fills", "fills_liquidation", "outcome_fills"} = {"fills"} \cup {"fills_liquidation"} \cup {"outcome_fills"}
      OBVIOUS
    <3> QED
      BY <3>1, <3>2, FS_Singleton, FS_Union
  <2>2. IsFiniteSet(StateTables)
    <3>1. StateTables = {"ohlcv_fills"} \cup {"ohlcv_liquidation"} \cup {"ohlcv_outcomes"} \cup {"open_interest"}
                        \cup {"c_deposits_withdrawals"} \cup {"platform"}
      BY DEF StateTables
    <3> QED
      BY <3>1, FS_Singleton, FS_Union
  <2> QED
    BY <2>1, <2>2, FS_Product
<1> DEFINE f == [p \in PathsTo(t) |-> <<p[1], p[2]>>]
<1>2. ASSUME NEW p \in PathsTo(t)
      PROVE  /\ p[1] \in RawTables /\ p[2] \in StateTables
             /\ (p = <<p[1], p[2]>> /\ t # "platform") \/ (p = <<p[1], p[2], "platform">> /\ t = "platform")
  <2>1. \A table : "platform" \notin ViewsOf(table)
    BY DEF ViewsOf
  <2>2. PlatformSources \subseteq StateTables
    BY DEF PlatformSources, StateTables
  <2> QED
    BY <2>1, <2>2, PathFacts
<1>3. f \in [PathsTo(t) -> RawTables \X StateTables]
  BY <1>2
<1>4. \A p, q \in PathsTo(t) : f[p] = f[q] => p = q
  <2> SUFFICES ASSUME NEW p \in PathsTo(t), NEW q \in PathsTo(t), f[p] = f[q] PROVE p = q
    OBVIOUS
  <2>1. p[1] = q[1] /\ p[2] = q[2]
    OBVIOUS
  <2> QED
    BY <2>1, <1>2
<1>5. f \in Injection(PathsTo(t), RawTables \X StateTables)
  BY <1>3, <1>4 DEF Injection, IsInjective
<1> QED
  <2> HIDE DEF f
  <2> QED
    BY <1>1, <1>5, FS_Injection

(* The rows of some blocks in a table.                                          *)
LEMMA RowsFacts ==
    ASSUME chain \in DOMAIN Chains, NEW table, NEW blocks \in SUBSET DOMAIN Chains[chain]
    PROVE  /\ Proper(table, TableRows(chain, table, blocks))
           /\ \A n \in DOMAIN Chains[chain] : \A row :
                 row \in TableRows(chain, table, {n}) /\ n \in blocks
                     <=> row \in TableRows(chain, table, blocks) /\ row.block = n
<1>1. \A n \in DOMAIN Chains[chain] : /\ IsFiniteSet(RowsOf(chain, n))
                                       /\ \A row \in RowsOf(chain, n) : row.block = n /\ WellTyped(row)
  BY RowFacts
<1>2. IsFiniteSet(DOMAIN Chains[chain]) /\ IsFiniteSet(blocks)
  <2>1. IsFiniteSet(DOMAIN Chains[chain])
    BY ChainsAssumption, FS_Interval
  <2> QED
    BY <2>1, FS_Subset
<1> DEFINE all == [n \in blocks |-> RowsOf(chain, n)]
           rows == UNION {all[n] : n \in blocks}
<1>3. IsFiniteSet(rows)
  <2> DEFINE sets == {all[n] : n \in blocks}
  <2>1. \A s \in sets : IsFiniteSet(s)
    BY <1>1
  <2>2. IsFiniteSet(sets)
    <3> HIDE DEF all
    <3> QED
      BY <1>2, ImageIsFinite
  <2> HIDE DEF sets
  <2>3. IsFiniteSet(UNION sets)
    BY <2>1, <2>2, FS_UNION
  <2> QED
    BY <2>3 DEF sets
<1>4. TableRows(chain, table, blocks) = {r \in rows : r.table = table}
  BY DEF TableRows
<1>5. \A r \in rows : WellTyped(r)
  BY <1>1
<1>6. IsFiniteSet({r \in rows : r.table = table})
  <2> HIDE DEF rows
  <2> QED
    BY <1>3, FS_Subset
<1>7. Proper(table, TableRows(chain, table, blocks))
  BY <1>4, <1>5, <1>6 DEF Proper
<1>8. ASSUME NEW n \in DOMAIN Chains[chain], NEW row
      PROVE  row \in TableRows(chain, table, {n}) <=> row \in RowsOf(chain, n) /\ row.table = table
  BY DEF TableRows
<1>9. ASSUME NEW row
      PROVE  row \in TableRows(chain, table, blocks)
                 <=> row.table = table /\ \E n \in blocks : row \in RowsOf(chain, n)
  BY DEF TableRows
<1>10. \A n \in DOMAIN Chains[chain] : \A row \in RowsOf(chain, n) : row.block = n
  BY <1>1
<1> QED
  BY <1>7, <1>8, <1>9, <1>10

(* There are finitely many deliveries to a table, and what each is made of.     *)
LEMMA DeliveryFacts ==
    ASSUME chain \in DOMAIN Chains, NEW t \in StateTables
    PROVE  /\ IsFiniteSet(Deliveries(t))
           /\ \A x \in Deliveries(t) :
                 /\ x = <<x[1], x[2], x[3]>> /\ x[1] \in PathsTo(t) /\ x[1] \in Paths
                 /\ x[2] \in DOMAIN Chains[chain] /\ x[3].block = x[2]
                 /\ x[3] \in TableRows(chain, x[1][1], {x[2]})
                 /\ x[3].table = x[1][1] /\ WellTyped(x[3])
                 /\ ValueOf(x[1], x[3]) \in [Columns(t) -> Int]
           /\ \A p \in PathsTo(t) : \A n \in DOMAIN Chains[chain] :
                 \A row \in TableRows(chain, p[1], {n}) : <<p, n, row>> \in Deliveries(t)
<1> DEFINE Of(p, n) == {<<p, n, row>> : row \in TableRows(chain, p[1], {n})}
           From(p) == UNION {Of(p, n) : n \in DOMAIN Chains[chain]}
<1>4. Deliveries(t) = UNION {From(p) : p \in PathsTo(t)}
  BY DEF Deliveries
<1>1. ASSUME NEW x \in Deliveries(t)
      PROVE  /\ x = <<x[1], x[2], x[3]>> /\ x[1] \in PathsTo(t) /\ x[1] \in Paths
             /\ x[2] \in DOMAIN Chains[chain] /\ x[3].block = x[2]
             /\ x[3] \in TableRows(chain, x[1][1], {x[2]})
             /\ x[3].table = x[1][1] /\ WellTyped(x[3]) /\ x[3] \in RowsOf(chain, x[2])
             /\ ValueOf(x[1], x[3]) \in [Columns(t) -> Int]
  <2>1. PICK p \in PathsTo(t) : x \in From(p)
    <3> HIDE DEF From
    <3> QED
      BY <1>4
  <2>2. PICK n \in DOMAIN Chains[chain] : x \in Of(p, n)
    <3> HIDE DEF Of
    <3> QED
      BY <2>1
  <2>3. PICK row \in TableRows(chain, p[1], {n}) : x = <<p, n, row>>
    BY <2>2
  <2>4. row \in RowsOf(chain, n) /\ row.table = p[1]
    BY DEF TableRows
  <2>5. row.block = n /\ WellTyped(row)
    BY <2>4, RowFacts
  <2>6. ValueOf(p, row) \in [Columns(t) -> Int]
    BY <2>4, <2>5, Values
  <2>7. p \in Paths
    BY DEF PathsTo
  <2> QED
    BY <2>3, <2>4, <2>5, <2>6, <2>7
<1>2. IsFiniteSet(Deliveries(t))
  <2> DEFINE all == [n \in DOMAIN Chains[chain] |-> RowsOf(chain, n)]
             sets == {all[n] : n \in DOMAIN Chains[chain]}
             rows == UNION sets
             f == [x \in Deliveries(t) |-> <<x[1], x[3]>>]
  <2>1. IsFiniteSet(rows)
    <3>1. \A s \in sets : IsFiniteSet(s)
      BY RowFacts
    <3>2. IsFiniteSet(sets)
      <4>1. IsFiniteSet(DOMAIN Chains[chain])
        BY ChainsAssumption, FS_Interval
      <4> HIDE DEF all
      <4> QED
        BY <4>1, ImageIsFinite
    <3> HIDE DEF sets
    <3> QED
      BY <3>1, <3>2, FS_UNION
  <2>2. f \in [Deliveries(t) -> PathsTo(t) \X rows]
    <3>1. ASSUME NEW x \in Deliveries(t) PROVE <<x[1], x[3]>> \in PathsTo(t) \X rows
      <4>1. x[1] \in PathsTo(t) /\ x[2] \in DOMAIN Chains[chain] /\ x[3] \in RowsOf(chain, x[2])
        BY <1>1
      <4>2. all[x[2]] \in sets /\ x[3] \in all[x[2]]
        BY <4>1
      <4>3. x[3] \in rows
        <5> HIDE DEF all
        <5> QED
          BY <4>2
      <4> HIDE DEF rows
      <4> QED
        BY <4>1, <4>3
    <3> HIDE DEF rows
    <3> QED
      BY <3>1
  <2>3. \A x, y \in Deliveries(t) : f[x] = f[y] => x = y
    <3> SUFFICES ASSUME NEW x \in Deliveries(t), NEW y \in Deliveries(t), f[x] = f[y] PROVE x = y
      OBVIOUS
    <3>1. x[1] = y[1] /\ x[3] = y[3]
      OBVIOUS
    <3>2. x[2] = y[2]
      <4>1. x[3].block = x[2] /\ y[3].block = y[2]
        BY <1>1
      <4> QED
        BY <3>1, <4>1
    <3> QED
      BY <3>1, <3>2, <1>1
  <2>4. f \in Injection(Deliveries(t), PathsTo(t) \X rows)
    BY <2>2, <2>3 DEF Injection, IsInjective
  <2>5. IsFiniteSet(PathsTo(t) \X rows)
    BY <2>1, PathsFinite, FS_Product
  <2> HIDE DEF f, rows
  <2> QED
    BY <2>4, <2>5, FS_Injection
<1>3. ASSUME NEW p \in PathsTo(t), NEW n \in DOMAIN Chains[chain], NEW row \in TableRows(chain, p[1], {n})
      PROVE  <<p, n, row>> \in Deliveries(t)
  <2>1. <<p, n, row>> \in Of(p, n)
    OBVIOUS
  <2>2. Of(p, n) \subseteq From(p)
    <3> HIDE DEF Of
    <3> QED
      OBVIOUS
  <2> HIDE DEF Of, From
  <2> QED
    BY <1>4, <2>1, <2>2
<1> QED
  BY <1>1, <1>2, <1>3

-------------------------------------------------------------------------------
(* An insert: what a state table gets.                                          *)

(* The part of the type invariant that is about the sink.                       *)
SinkTypes ==
    /\ chain \in DOMAIN Chains
    /\ cursor \in 0 .. Len(Chains[chain])
    /\ batch \in 0 .. Len(Chains[chain]) - cursor /\ batch <= MaxBatch
    /\ pending \subseteq RawTables /\ (batch = 0 => pending = {})
    /\ written \in [Paths -> [DOMAIN Chains[chain] -> Nat]]
    /\ failures \in 0 .. MaxFailures

(* What an insert adds to the counts.                                           *)
LEMMA WriteCounts ==
    ASSUME SinkTypes, NEW table, NEW reached \in SUBSET PathsOf(table),
           Write(table, reached)
    PROVE  /\ written' \in [Paths -> [DOMAIN Chains[chain] -> Nat]]
           /\ \A p \in Paths : \A n \in DOMAIN Chains[chain] :
                 /\ p \in reached /\ n \in Blocks => written'[p][n] = written[p][n] + 1
                 /\ ~(p \in reached /\ n \in Blocks) => written'[p][n] = written[p][n]
<1>1. written' = [p \in Paths |-> [n \in DOMAIN Chains[chain] |->
                     written[p][n] + (IF p \in reached /\ n \in Blocks THEN 1 ELSE 0)]]
  BY DEF Write
<1>2. \A p \in Paths : \A n \in DOMAIN Chains[chain] : written[p][n] \in Nat
  BY DEF SinkTypes
<1> QED
  BY <1>1, <1>2

(* The sizes the steps reckon with.                                             *)
LEMMA Sizes ==
    ASSUME SinkTypes
    PROVE  /\ Len(Chains[chain]) \in Nat /\ DOMAIN Chains[chain] = 1 .. Len(Chains[chain])
           /\ cursor \in Nat /\ batch \in Nat /\ cursor + batch <= Len(Chains[chain])
           /\ MaxBatch \in Nat /\ failures \in Nat
           /\ \A p \in Paths : \A n \in DOMAIN Chains[chain] : written[p][n] \in Nat
<1>1. Len(Chains[chain]) \in Nat /\ DOMAIN Chains[chain] = 1 .. Len(Chains[chain])
  BY ChainsAssumption DEF SinkTypes
<1>2. \A p \in Paths : \A n \in DOMAIN Chains[chain] : written[p][n] \in Nat
  BY DEF SinkTypes
<1> QED
  BY <1>1, <1>2, BoundsAssumption DEF SinkTypes

(* The paths of a table are those that begin with it.                           *)
LEMMA PathsBegin ==
    ASSUME NEW p, NEW table
    PROVE  /\ p \in PathsOf(table) => p[1] = table
           /\ p \in Paths /\ p[1] = table => p \in PathsOf(table)
<1>1. ASSUME NEW q, NEW t, q \in PathsOf(t) PROVE q[1] = t
  BY <1>1 DEF PathsOf
<1>2. ASSUME p \in Paths, p[1] = table PROVE p \in PathsOf(table)
  <2>1. PICK t \in RawTables : p \in PathsOf(t)
    BY <1>2 DEF Paths
  <2>2. t = table
    BY <2>1, <1>1, <1>2
  <2> QED
    BY <2>1, <2>2
<1> QED
  BY <1>1, <1>2

(* What a bar is owed by some rows along a path.                                *)
Brought(p, rows, key, c) ==
    SumOver([row \in rows |-> ValueOf(p, row)[c]], Hitting(p, rows, key))

(* The part that a path makes for a bar.                                        *)
LEMMA PartFacts ==
    ASSUME NEW t \in StateTables, NEW p \in PathsTo(t), NEW rows, Proper(p[1], rows), NEW key
    PROVE  /\ PartFor(p, rows, key) = [key |-> key, sum |-> PartFor(p, rows, key).sum,
                                       seen |-> PartFor(p, rows, key).seen]
           /\ PartFor(p, rows, key).key = key
           /\ \A s : s \in PartFor(p, rows, key).seen <=>
                         \E row \in rows : key \in KeysHit(p, row) /\ s = SightOf(p, row)
           /\ key \in KeysOfAll(p, rows) => PartFor(p, rows, key).seen # {}
           /\ PartFor(p, rows, key).sum \in [Columns(t) -> Int]
           /\ \A c \in Columns(t) : /\ PartFor(p, rows, key).sum[c] = Brought(p, rows, key, c)
                                    /\ Brought(p, rows, key, c) \in Int
                                    /\ key \notin KeysOfAll(p, rows) => Brought(p, rows, key, c) = 0
<1>1. Last(p) = t
  BY DEF PathsTo
<1> DEFINE H == Hitting(p, rows, key)
<1>2. /\ IsFiniteSet(rows) /\ H \in SUBSET rows /\ (key \notin KeysOfAll(p, rows) => H = {})
      /\ (key \in KeysOfAll(p, rows) => H # {})
      /\ \A row : row \in H <=> row \in rows /\ key \in KeysHit(p, row)
  BY DEF Proper, Hitting, KeysOfAll
<1>3. ASSUME NEW c \in Columns(t)
      PROVE  Brought(p, rows, key, c) \in Int /\ (H = {} => Brought(p, rows, key, c) = 0)
  <2> DEFINE f == [row \in rows |-> ValueOf(p, row)[c]]
  <2>1. \A row \in rows : f[row] \in Int
    <3>1. \A row \in rows : ValueOf(p, row) \in [Columns(t) -> Int]
      BY Values DEF Proper
    <3> QED
      BY <3>1
  <2>2. Brought(p, rows, key, c) = SumOver(f, H)
    BY DEF Brought
  <2> HIDE DEF f, H
  <2>3. SumOver(f, H) \in Int /\ SumOver(f, {}) = 0
    BY <1>2, <2>1, SumFacts
  <2> QED
    BY <2>2, <2>3
<1>4. PartFor(p, rows, key) =
          [key |-> key, sum |-> [c \in Columns(t) |-> Brought(p, rows, key, c)],
           seen |-> {SightOf(p, row) : row \in H}]
  BY <1>1 DEF PartFor, Brought
<1>5. [c \in Columns(t) |-> Brought(p, rows, key, c)] \in [Columns(t) -> Int]
  BY <1>3
<1> HIDE DEF H
<1> QED
  BY <1>2, <1>3, <1>4, <1>5

(* A column of it.                                                              *)
LEMMA PartColumn ==
    ASSUME NEW t \in StateTables, NEW p \in PathsTo(t), NEW rows, Proper(p[1], rows), NEW key,
           NEW c \in Columns(t)
    PROVE  /\ PartFor(p, rows, key).sum[c] = Brought(p, rows, key, c)
           /\ Brought(p, rows, key, c) \in Int
           /\ key \notin KeysOfAll(p, rows) => Brought(p, rows, key, c) = 0
<1>1. \A d \in Columns(t) : /\ PartFor(p, rows, key).sum[d] = Brought(p, rows, key, d)
                            /\ Brought(p, rows, key, d) \in Int
                            /\ key \notin KeysOfAll(p, rows) => Brought(p, rows, key, d) = 0
  BY PartFacts
<1> QED
  BY <1>1

(* The paths by which an insert feeds a state table.                            *)
LEMMA FeedingFacts ==
    ASSUME NEW t \in StateTables, NEW table, NEW reached \in SUBSET PathsOf(table),
           table \in RawTables, NEW p
    PROVE  p \in reached /\ Len(p) > 1 /\ Last(p) = t <=>
               p \in reached /\ p \in PathsTo(t) /\ p[1] = table
<1>1. p \in reached => p \in Paths /\ p[1] = table
  BY PathsBegin DEF Paths
<1>2. p \in PathsTo(t) => Len(p) > 1
  BY PathFacts
<1> QED
  BY <1>1, <1>2 DEF PathsTo

(* The parts a bag gets.                                                        *)
LEMMA FedDomain ==
    ASSUME NEW t \in StateTables, NEW P \in SUBSET PathsTo(t), NEW rows,
           \A p \in P : Proper(p[1], rows), NEW bag, StoredBag(t, bag)
    PROVE  /\ \A r : r \in DOMAIN Fed(bag, P, rows) <=>
                  r \in DOMAIN bag
                  \/ \E p \in P : \E key \in KeysOfAll(p, rows) : r = PartFor(p, rows, key)
           /\ \A r \in DOMAIN Fed(bag, P, rows) :
                  /\ Cardinality({p \in P : r \in Along(p, rows)}) \in Nat
                  /\ Fed(bag, P, rows)[r] = (IF r \in DOMAIN bag THEN bag[r] ELSE 0)
                                            + Cardinality({p \in P : r \in Along(p, rows)})
           /\ \A r : r \in DOMAIN bag => bag[r] \in Nat /\ bag[r] > 0
           /\ IsFiniteSet(P)
           /\ IsFiniteSet(DOMAIN Fed(bag, P, rows))
           /\ IsABag(Fed(bag, P, rows))
<1> DEFINE made == [p \in P |-> Along(p, rows)]
           D == DOMAIN bag \cup UNION {made[p] : p \in P}
           count(r) == Cardinality({p \in P : r \in made[p]})
           fed == [r \in D |-> (IF r \in DOMAIN bag THEN bag[r] ELSE 0) + count(r)]
<1>1. Fed(bag, P, rows) = fed
  BY DEF Fed
<1>2. \A p \in P : made[p] = {PartFor(p, rows, key) : key \in KeysOfAll(p, rows)}
  BY AlongParts
<1>3. ASSUME NEW r
      PROVE  r \in D <=> r \in DOMAIN bag
                         \/ \E p \in P : \E key \in KeysOfAll(p, rows) : r = PartFor(p, rows, key)
  <2>1. r \in D <=> r \in DOMAIN bag \/ \E p \in P : r \in made[p]
    <3> HIDE DEF made
    <3> QED
      OBVIOUS
  <2> HIDE DEF D, made
  <2> QED
    BY <1>2, <2>1
<1>4. IsFiniteSet(P)
  BY PathsFinite, FS_Subset
<1>5. \A r : count(r) \in Nat /\ ((\E p \in P : r \in made[p]) => count(r) > 0)
  <2> SUFFICES ASSUME NEW r PROVE count(r) \in Nat /\ ((\E p \in P : r \in made[p]) => count(r) > 0)
    OBVIOUS
  <2> DEFINE Q == {p \in P : r \in made[p]}
  <2>1. Q \subseteq P /\ ((\E p \in P : r \in made[p]) => Q # {})
    OBVIOUS
  <2> HIDE DEF Q
  <2>2. Cardinality(Q) \in Nat /\ (Q # {} => Cardinality(Q) # 0)
    BY <1>4, <2>1, FS_Subset, FS_CardinalityType, FS_EmptySet
  <2> QED
    BY <2>1, <2>2 DEF Q
<1>6. \A r : r \in DOMAIN bag => bag[r] \in Nat /\ bag[r] > 0
  BY DEF StoredBag, IsABag
<1>7. \A r \in D : {p \in P : r \in made[p]} = {p \in P : r \in Along(p, rows)}
  OBVIOUS
<1>8. IsFiniteSet(D)
  <2>1. ASSUME NEW p \in P PROVE IsFiniteSet(made[p])
    <3>1. IsFiniteSet(KeysOfAll(p, rows))
      <4>1. IsFiniteSet(rows)
        BY DEF Proper
      <4>2. ASSUME NEW row \in rows PROVE IsFiniteSet(KeysHit(p, row))
        <5> DEFINE coin == IF p[2] = "c_deposits_withdrawals" THEN "" ELSE row.coin
                   k == [interval \in Intervals |-> <<interval, coin, BarOf(interval, row.time)>>]
                   K == {k[interval] : interval \in Intervals}
                   lift == [key \in K |-> <<key[1], "", key[3]>>]
        <5>1. KeysOf(p[2], row) = K
          BY DEF KeysOf
        <5>2. IsFiniteSet(K)
          <6> HIDE DEF k
          <6> QED
            BY IntervalsAssumption, ImageIsFinite
        <5>3. IsFiniteSet({lift[key] : key \in K})
          <6> HIDE DEF K, lift
          <6> QED
            BY <5>2, ImageIsFinite
        <5>4. {lift[key] : key \in K} = {<<key[1], "", key[3]>> : key \in KeysOf(p[2], row)}
          BY <5>1
        <5> HIDE DEF K
        <5> QED
          BY <5>1, <5>2, <5>3, <5>4, FS_EmptySet DEF KeysHit
      <4> DEFINE k == [row \in rows |-> KeysHit(p, row)]
                 sets == {k[row] : row \in rows}
      <4>3. \A s \in sets : IsFiniteSet(s)
        BY <4>2
      <4>4. IsFiniteSet(sets)
        <5> HIDE DEF k
        <5> QED
          BY <4>1, ImageIsFinite
      <4>5. KeysOfAll(p, rows) = UNION sets
        BY DEF KeysOfAll
      <4> HIDE DEF sets
      <4> QED
        BY <4>3, <4>4, <4>5, FS_UNION
    <3> DEFINE f == [key \in KeysOfAll(p, rows) |-> PartFor(p, rows, key)]
    <3>2. made[p] = {f[key] : key \in KeysOfAll(p, rows)}
      BY <1>2
    <3> HIDE DEF f
    <3> QED
      BY <3>1, <3>2, ImageIsFinite
  <2> DEFINE sets == {made[p] : p \in P}
  <2>2. \A s \in sets : IsFiniteSet(s)
    <3> HIDE DEF made
    <3> QED
      BY <2>1
  <2>3. IsFiniteSet(sets)
    <3> HIDE DEF made
    <3> QED
      BY <1>4, ImageIsFinite
  <2>4. IsFiniteSet(UNION sets)
    <3> HIDE DEF sets
    <3> QED
      BY <2>2, <2>3, FS_UNION
  <2>5. IsFiniteSet(DOMAIN bag)
    BY DEF StoredBag
  <2> HIDE DEF sets
  <2>6. IsFiniteSet(DOMAIN bag \cup UNION sets)
    BY <2>4, <2>5, FS_Union
  <2> QED
    BY <2>6 DEF sets
<1>9. IsABag(fed)
  <2>1. \A r \in D : fed[r] \in {n \in Nat : n > 0}
    <3> SUFFICES ASSUME NEW r \in D PROVE fed[r] \in {n \in Nat : n > 0}
      OBVIOUS
    <3>1. fed[r] = (IF r \in DOMAIN bag THEN bag[r] ELSE 0) + count(r)
      OBVIOUS
    <3>2. r \in DOMAIN bag \/ \E p \in P : r \in made[p]
      <4> HIDE DEF made
      <4> QED
        OBVIOUS
    <3> HIDE DEF fed, count, D
    <3> QED
      BY <3>1, <3>2, <1>5, <1>6
  <2>2. fed \in [D -> {n \in Nat : n > 0}]
    <3>1. fed = [r \in D |-> fed[r]]
      OBVIOUS
    <3> HIDE DEF fed, D
    <3> QED
      BY <2>1, <3>1
  <2>3. DOMAIN fed = D
    OBVIOUS
  <2> HIDE DEF fed, D
  <2> QED
    BY <2>2, <2>3 DEF IsABag
<1>10. \A r \in D : fed[r] = (IF r \in DOMAIN bag THEN bag[r] ELSE 0)
                             + Cardinality({p \in P : r \in Along(p, rows)})
  OBVIOUS
<1>11. \A r \in D : Cardinality({p \in P : r \in Along(p, rows)}) \in Nat
  BY <1>5
<1>12. DOMAIN fed = D
  OBVIOUS
<1> HIDE DEF fed, D
<1> QED
  BY <1>1, <1>3, <1>4, <1>6, <1>8, <1>9, <1>10, <1>11, <1>12

Brings(P, rows, key, s) ==
    \E p \in P : \E row \in rows : key \in KeysHit(p, row) /\ s = SightOf(p, row)

(* A fed bag is of the table's columns, and has seen what it had and what was   *)
(* brought.                                                                     *)
LEMMA FedStored ==
    ASSUME NEW t \in StateTables, NEW P \in SUBSET PathsTo(t), NEW rows,
           \A p \in P : Proper(p[1], rows), NEW bag, StoredBag(t, bag)
    PROVE  /\ StoredBag(t, Fed(bag, P, rows))
           /\ \A key, s :
                 Seen(Fed(bag, P, rows), key, s) <=>
                     Seen(bag, key, s) \/ Brings(P, rows, key, s)
<1> DEFINE fed == Fed(bag, P, rows)
           Made(r) == \E p \in P : \E key \in KeysOfAll(p, rows) : r = PartFor(p, rows, key)
<1>1. /\ \A r : r \in DOMAIN fed <=> r \in DOMAIN bag \/ Made(r)
      /\ IsFiniteSet(DOMAIN fed) /\ IsABag(fed)
  BY FedDomain
<1> HIDE DEF fed
<1>2. ASSUME NEW r \in DOMAIN fed
      PROVE  /\ r = [key |-> r.key, sum |-> r.sum, seen |-> r.seen]
             /\ r.sum \in [Columns(t) -> Int] /\ r.seen # {}
  <2>1. CASE r \in DOMAIN bag
    BY <2>1 DEF StoredBag
  <2>2. CASE Made(r)
    <3>1. PICK p \in P : \E k \in KeysOfAll(p, rows) : r = PartFor(p, rows, k)
      BY <2>2
    <3>3. PICK key \in KeysOfAll(p, rows) : r = PartFor(p, rows, key)
      BY <3>1
    <3>2. /\ r = [key |-> key, sum |-> r.sum, seen |-> r.seen]
          /\ r.key = key /\ r.seen # {} /\ r.sum \in [Columns(t) -> Int]
      <4>1. p \in PathsTo(t) /\ Proper(p[1], rows)
        OBVIOUS
      <4> QED
        BY <3>3, <4>1, PartFacts
    <3> QED
      BY <3>2
  <2> QED
    BY <1>1, <2>1, <2>2
<1>3. StoredBag(t, fed)
  BY <1>1, <1>2 DEF StoredBag
<1>4. ASSUME NEW key, NEW s, Seen(fed, key, s)
      PROVE  Seen(bag, key, s) \/ Brings(P, rows, key, s)
  <2>1. PICK r \in DOMAIN fed : r.key = key /\ s \in r.seen
    BY <1>4 DEF Seen
  <2>2. CASE r \in DOMAIN bag
    BY <2>1, <2>2 DEF Seen
  <2>3. CASE Made(r)
    <3>1. PICK p \in P : \E k \in KeysOfAll(p, rows) : r = PartFor(p, rows, k)
      BY <2>3
    <3>4. PICK k \in KeysOfAll(p, rows) : r = PartFor(p, rows, k)
      BY <3>1
    <3>2. p \in PathsTo(t) /\ Proper(p[1], rows)
      OBVIOUS
    <3>3. r.key = k /\ \E row \in rows : k \in KeysHit(p, row) /\ s = SightOf(p, row)
      BY <2>1, <3>4, <3>2, PartFacts
    <3> QED
      BY <2>1, <3>3 DEF Brings
  <2> QED
    BY <1>1, <2>2, <2>3
<1>5. ASSUME NEW key, NEW s, Seen(bag, key, s) PROVE Seen(fed, key, s)
  BY <1>1, <1>5 DEF Seen
<1>6. ASSUME NEW key, NEW s, NEW p \in P, NEW row \in rows, key \in KeysHit(p, row),
             s = SightOf(p, row)
      PROVE  Seen(fed, key, s)
  <2> DEFINE r == PartFor(p, rows, key)
  <2>1. p \in PathsTo(t) /\ Proper(p[1], rows) /\ key \in KeysOfAll(p, rows)
    BY <1>6 DEF KeysOfAll
  <2>2. r.key = key /\ s \in r.seen
    BY <1>6, <2>1, PartFacts
  <2>3. r \in DOMAIN fed
    BY <1>1, <2>1
  <2> QED
    BY <2>2, <2>3 DEF Seen
<1>7. ASSUME NEW key, NEW s, Brings(P, rows, key, s) PROVE Seen(fed, key, s)
  BY <1>6, <1>7 DEF Brings
<1> QED
  BY <1>3, <1>4, <1>5, <1>7 DEF fed

(* What a bar gets: what the paths bring it.                                    *)
LEMMA FedMass ==
    ASSUME NEW t \in StateTables, NEW P \in SUBSET PathsTo(t), NEW rows,
           \A p \in P : Proper(p[1], rows), NEW bag, StoredBag(t, bag),
           NEW key, NEW c \in Columns(t),
           NEW brought, \A p \in P : brought[p] = Brought(p, rows, key, c)
    PROVE  /\ Mass(Fed(bag, P, rows), key, c) = Mass(bag, key, c) + SumOver(brought, P)
           /\ Mass(bag, key, c) \in Int /\ SumOver(brought, P) \in Int
<1> DEFINE fed == Fed(bag, P, rows)
           Count(r) == Cardinality({p \in P : r \in Along(p, rows)})
           D == {r \in DOMAIN bag : r.key = key}
           E == {r \in DOMAIN fed : r.key = key}
           Q == {p \in P : key \in KeysOfAll(p, rows)}
           old == [r \in E |-> (IF r \in DOMAIN bag THEN bag[r] ELSE 0) * r.sum[c]]
           new == [r \in E |-> Count(r) * r.sum[c]]
           all == [r \in E |-> fed[r] * r.sum[c]]
<1>1. /\ \A r : r \in DOMAIN fed <=>
             r \in DOMAIN bag
             \/ \E p \in P : \E k \in KeysOfAll(p, rows) : r = PartFor(p, rows, k)
      /\ \A r \in DOMAIN fed : /\ Count(r) \in Nat
                               /\ fed[r] = (IF r \in DOMAIN bag THEN bag[r] ELSE 0) + Count(r)
      /\ \A r : r \in DOMAIN bag => bag[r] \in Nat /\ bag[r] > 0
      /\ IsFiniteSet(P) /\ IsFiniteSet(DOMAIN fed)
  BY FedDomain
<1>2. StoredBag(t, fed)
  BY FedStored
<1> HIDE DEF fed, Count
<1>3. IsFiniteSet(E) /\ D \in SUBSET E /\ IsFiniteSet(Q) /\ Q \in SUBSET P
      /\ IsFiniteSet(DOMAIN bag)
  BY <1>1, FS_Subset DEF StoredBag
<1>4. \A r \in DOMAIN fed : r.sum[c] \in Int
  BY <1>2 DEF StoredBag
<1>5. ASSUME NEW r \in E
      PROVE  /\ old[r] \in Int /\ new[r] \in Int /\ all[r] = old[r] + new[r]
             /\ (r \in D => old[r] = bag[r] * r.sum[c]) /\ (r \notin D => old[r] = 0)
  <2> DEFINE a == IF r \in DOMAIN bag THEN bag[r] ELSE 0
             b == Count(r)
             s == r.sum[c]
  <2>1. a \in Nat /\ b \in Nat /\ s \in Int /\ fed[r] = a + b
    BY <1>1, <1>4
  <2>2. old[r] = a * s /\ new[r] = b * s /\ all[r] = fed[r] * s
    OBVIOUS
  <2>3. (r \in D => a = bag[r]) /\ (r \notin D => a = 0)
    OBVIOUS
  <2> HIDE DEF a, b, s, old, new, all, D, E
  <2>4. a * s \in Int /\ b * s \in Int /\ (a + b) * s = a * s + b * s /\ 0 * s = 0
    BY <2>1
  <2> QED
    BY <2>1, <2>2, <2>3, <2>4 DEF s
<1>6. Mass(fed, key, c) = SumOver(all, E)
  <2> DEFINE f == [r \in DOMAIN fed |-> fed[r] * r.sum[c]]
  <2>1. \A r \in E : f[r] = all[r]
    OBVIOUS
  <2>2. Mass(fed, key, c) = SumOver(f, E)
    BY DEF Mass
  <2> HIDE DEF f, E, all
  <2> QED
    BY <2>1, <2>2, SumSame
<1>7. Mass(bag, key, c) = SumOver(old, D)
  <2> DEFINE f == [r \in DOMAIN bag |-> bag[r] * r.sum[c]]
  <2>1. \A r \in D : f[r] = old[r]
    BY <1>3, <1>5
  <2>2. Mass(bag, key, c) = SumOver(f, D)
    BY DEF Mass
  <2> HIDE DEF f, D, old
  <2> QED
    BY <2>1, <2>2, SumSame
<1>8. SumOver(all, E) = SumOver(old, E) + SumOver(new, E)
  <2>1. \A r \in E : old[r] \in Int /\ new[r] \in Int /\ all[r] = old[r] + new[r]
    BY <1>5
  <2> HIDE DEF old, new, all, E
  <2> QED
    BY <2>1, <1>3, SumPlus
<1>9. SumOver(old, E) = SumOver(old, D) /\ SumOver(old, D) \in Int
  <2>1. \A r \in E : old[r] \in Int
    BY <1>5
  <2>2. \A r \in E \ D : old[r] = 0
    BY <1>5
  <2> HIDE DEF old, D, E
  <2>3. SumOver(old, E) = SumOver(old, D)
    BY <2>1, <2>2, <1>3, SumOfSome
  <2>4. SumOver(old, D) \in Int
    BY <2>1, <1>3, SumFacts
  <2> QED
    BY <2>3, <2>4
<1>10. ASSUME NEW p \in P
       PROVE  /\ brought[p] \in Int /\ (p \notin Q => brought[p] = 0)
              /\ p \in Q => /\ PartFor(p, rows, key) \in E
                            /\ PartFor(p, rows, key).sum[c] = brought[p]
              /\ \A r \in E : r \in Along(p, rows) <=> p \in Q /\ r = PartFor(p, rows, key)
  <2>1. p \in PathsTo(t) /\ Proper(p[1], rows)
    OBVIOUS
  <2>2. /\ PartFor(p, rows, key).sum[c] = Brought(p, rows, key, c)
        /\ Brought(p, rows, key, c) \in Int
        /\ key \notin KeysOfAll(p, rows) => Brought(p, rows, key, c) = 0
    BY <2>1, PartColumn
  <2>6. \A k : PartFor(p, rows, k).key = k
    BY DEF PartFor
  <2>3. Along(p, rows) = {PartFor(p, rows, k) : k \in KeysOfAll(p, rows)}
    BY <2>1, AlongParts
  <2>4. p \in Q => PartFor(p, rows, key) \in E
    BY <1>1, <2>6
  <2>5. ASSUME NEW r \in E PROVE r \in Along(p, rows) <=> p \in Q /\ r = PartFor(p, rows, key)
    BY <2>3, <2>6
  <2> QED
    BY <2>2, <2>4, <2>5
<1>11. SumOver(brought, P) = SumOver(brought, Q) /\ SumOver(brought, P) \in Int
  <2>1. \A p \in P : brought[p] \in Int
    BY <1>10
  <2>2. \A p \in P \ Q : brought[p] = 0
    BY <1>10
  <2> HIDE DEF Q
  <2>3. SumOver(brought, P) = SumOver(brought, Q)
    BY <2>1, <2>2, <1>1, <1>3, SumOfSome
  <2>4. P \in SUBSET P
    OBVIOUS
  <2> QED
    BY <2>1, <2>3, <2>4, <1>1, SumFacts
<1>12. SumOver(brought, Q) = SumOver(new, E)
  <2> DEFINE part == [r \in E |-> {p \in Q : r = PartFor(p, rows, key)}]
  <2>1. Partition(part, E, Q)
    <3>1. \A r \in E : part[r] \subseteq Q
      OBVIOUS
    <3>2. \A p \in Q : \E r \in E : p \in part[r]
      <4> SUFFICES ASSUME NEW p \in Q PROVE \E r \in E : p \in part[r]
        OBVIOUS
      <4>1. PartFor(p, rows, key) \in E
        BY <1>10
      <4> HIDE DEF E, Q
      <4> QED
        BY <4>1
    <3>3. \A p \in Q : \A r, s \in E : p \in part[r] /\ p \in part[s] => r = s
      OBVIOUS
    <3> HIDE DEF part, E, Q
    <3> QED
      BY <3>1, <3>2, <3>3 DEF Partition
  <2>2. ASSUME NEW r \in E PROVE new[r] = SumOver(brought, part[r])
    <3> DEFINE R == part[r]
    <3>1. R = {p \in P : r \in Along(p, rows)}
      <4>1. R = {p \in Q : r = PartFor(p, rows, key)}
        OBVIOUS
      <4>2. \A p \in P : r \in Along(p, rows) <=> p \in Q /\ r = PartFor(p, rows, key)
        BY <1>10
      <4> HIDE DEF R
      <4> QED
        BY <4>1, <4>2, <1>3
    <3>2. new[r] = Cardinality(R) * r.sum[c] /\ IsFiniteSet(R) /\ r.sum[c] \in Int
      <4>1. new[r] = Count(r) * r.sum[c] /\ r.sum[c] \in Int
        BY <1>4
      <4>2. Count(r) = Cardinality(R)
        BY <3>1 DEF Count
      <4>3. IsFiniteSet(R)
        <5> HIDE DEF R
        <5> QED
          BY <1>1, <3>1, FS_Subset
      <4> QED
        BY <4>1, <4>2, <4>3
    <3>3. \A p \in R : brought[p] = r.sum[c]
      <4>1. \A p \in R : p \in Q /\ r = PartFor(p, rows, key)
        OBVIOUS
      <4> HIDE DEF R
      <4> QED
        BY <4>1, <1>3, <1>10
    <3> HIDE DEF R, new, part
    <3>4. SumOver(brought, R) = Cardinality(R) * r.sum[c]
      BY <3>2, <3>3, SumOfEqual
    <3> QED
      BY <3>2, <3>4 DEF R
  <2>3. PartSums(new, E, brought, part)
    BY <2>2 DEF PartSums
  <2>4. \A p \in Q : brought[p] \in Int
    BY <1>10
  <2> HIDE DEF new, part, E, Q
  <2> QED
    BY <1>3, <2>1, <2>3, <2>4, SumOfParts
<1> HIDE DEF old, new, all, D, E, Q
<1> QED
  BY <1>6, <1>7, <1>8, <1>9, <1>11, <1>12 DEF fed

(* What a write owes to the bars: what its paths bring them.                    *)
LEMMA DeliveriesKept ==
    ASSUME chain' = chain, NEW t
    PROVE  Deliveries(t)' = Deliveries(t)
  BY DEF Deliveries, TableRows

(* A write adds to what is owed to a bar just what its paths bring it.          *)
LEMMA OwedStep ==
    ASSUME SinkTypes, chain' = chain, NEW t \in StateTables, NEW table \in RawTables,
           NEW reached \in SUBSET PathsOf(table), Write(table, reached),
           Blocks \subseteq DOMAIN Chains[chain], NEW key, NEW c \in Columns(t),
           NEW P, P = {p \in reached : Len(p) > 1 /\ Last(p) = t},
           NEW brought, \A p \in P : brought[p] = Brought(p, TableRows(chain, table, Blocks), key, c)
    PROVE  Owed(t, key, c)' = Owed(t, key, c) + SumOver(brought, P)
<1> DEFINE rows == TableRows(chain, table, Blocks)
           X == Deliveries(t)
           E == {x \in X : key \in KeysHit(x[1], x[3])}
           before == [x \in X |-> Times(x) * ValueOf(x[1], x[3])[c]]
           after == [x \in X |-> Times(x)' * ValueOf(x[1], x[3])[c]]
           In(x) == x[1] \in reached /\ x[2] \in Blocks
           g == [x \in X |-> IF In(x) THEN ValueOf(x[1], x[3])[c] ELSE 0]
           F == {x \in E : In(x)}
           part == [p \in P |-> {x \in F : x[1] = p}]
<1>1. chain \in DOMAIN Chains
  BY DEF SinkTypes
<1>2. /\ IsFiniteSet(X)
      /\ \A x \in X :
            /\ x = <<x[1], x[2], x[3]>> /\ x[1] \in PathsTo(t) /\ x[1] \in Paths
            /\ x[2] \in DOMAIN Chains[chain] /\ x[3].block = x[2]
            /\ x[3] \in TableRows(chain, x[1][1], {x[2]})
            /\ ValueOf(x[1], x[3]) \in [Columns(t) -> Int]
      /\ \A p \in PathsTo(t) : \A n \in DOMAIN Chains[chain] :
            \A row \in TableRows(chain, p[1], {n}) : <<p, n, row>> \in X
  BY <1>1, DeliveryFacts
<1>3. \A p : p \in P <=> p \in reached /\ p \in PathsTo(t) /\ p[1] = table
  BY FeedingFacts
<1>4. /\ \A x \in X : Times(x) \in Nat
      /\ \A x \in X : Times(x)' = Times(x) + (IF In(x) THEN 1 ELSE 0)
  <2>1. \A p \in Paths : \A n \in DOMAIN Chains[chain] :
            /\ p \in reached /\ n \in Blocks => written'[p][n] = written[p][n] + 1
            /\ ~(p \in reached /\ n \in Blocks) => written'[p][n] = written[p][n]
    BY WriteCounts
  <2>2. \A p \in Paths : \A n \in DOMAIN Chains[chain] : written[p][n] \in Nat
    BY Sizes
  <2> HIDE DEF X
  <2>3. ASSUME NEW x \in X
        PROVE  Times(x) \in Nat /\ Times(x)' = Times(x) + (IF In(x) THEN 1 ELSE 0)
    <3>1. x[1] \in Paths /\ x[2] \in DOMAIN Chains[chain]
      BY <1>2
    <3>2. Times(x) \in Nat
      BY <3>1, <2>2 DEF Times
    <3>3. Times(x)' = written'[x[1]][x[2]]
      BY DEF Times
    <3> QED
      BY <3>1, <3>2, <3>3, <2>1 DEF Times
  <2> QED
    BY <2>3
<1>5. Owed(t, key, c) = SumOver(before, E)
  BY DEF Owed
<1>6. Owed(t, key, c)' = SumOver(after, E)
  <2>1. Deliveries(t)' = Deliveries(t)
    BY DeliveriesKept
  <2>2. Owed(t, key, c)' =
            SumOver([x \in Deliveries(t)' |-> Times(x)' * ValueOf(x[1], x[3])[c]],
                    {x \in Deliveries(t)' : key \in KeysHit(x[1], x[3])})
    BY DEF Owed
  <2> QED
    BY <2>1, <2>2
<1>7. ASSUME NEW x \in E
      PROVE  /\ before[x] \in Int /\ g[x] \in Int /\ after[x] = before[x] + g[x]
             /\ (x \in F => g[x] = ValueOf(x[1], x[3])[c]) /\ (x \notin F => g[x] = 0)
  <2> DEFINE a == Times(x)
             v == ValueOf(x[1], x[3])[c]
             b == IF In(x) THEN 1 ELSE 0
  <2>1. a \in Nat /\ v \in Int /\ Times(x)' = a + b
    BY <1>2, <1>4
  <2>2. before[x] = a * v /\ g[x] = (IF In(x) THEN v ELSE 0) /\ after[x] = Times(x)' * v
    OBVIOUS
  <2>3. x \in F <=> In(x)
    OBVIOUS
  <2> HIDE DEF a, v, before, after, g, F, E
  <2>4. a * v \in Int /\ (a + 1) * v = a * v + v /\ (a + 0) * v = a * v
    BY <2>1
  <2> QED
    BY <2>1, <2>2, <2>3, <2>4 DEF v
<1>8. IsFiniteSet(E) /\ F \in SUBSET E /\ IsFiniteSet(F) /\ IsFiniteSet(P)
  <2>1. IsFiniteSet(E) /\ F \in SUBSET E /\ IsFiniteSet(F)
    BY <1>2, FS_Subset
  <2>2. P \in SUBSET PathsTo(t)
    BY <1>3
  <2> QED
    BY <2>1, <2>2, PathsFinite, FS_Subset
<1>9. SumOver(after, E) = SumOver(before, E) + SumOver(g, E)
  <2>1. \A x \in E : before[x] \in Int /\ g[x] \in Int /\ after[x] = before[x] + g[x]
    BY <1>7
  <2> HIDE DEF before, after, g, E
  <2> QED
    BY <2>1, <1>8, SumPlus
<1>10. SumOver(g, E) = SumOver(g, F)
  <2>1. \A x \in E : g[x] \in Int
    BY <1>7
  <2>2. \A x \in E \ F : g[x] = 0
    BY <1>7
  <2> HIDE DEF g, F, E
  <2> QED
    BY <2>1, <2>2, <1>8, SumOfSome
<1>11. Partition(part, P, F)
  <2>1. \A p \in P : part[p] \subseteq F
    OBVIOUS
  <2>2. \A x \in F : \E p \in P : x \in part[p]
    <3> SUFFICES ASSUME NEW x \in F PROVE \E p \in P : x \in part[p]
      OBVIOUS
    <3>1. x[1] \in P
      <4>1. x[1] \in reached /\ x[1] \in PathsTo(t)
        BY <1>2
      <4>2. x[1][1] = table
        BY <4>1, PathsBegin
      <4> QED
        BY <4>1, <4>2, <1>3
    <3> HIDE DEF F
    <3> QED
      BY <3>1
  <2>3. \A x \in F : \A p, q \in P : x \in part[p] /\ x \in part[q] => p = q
    OBVIOUS
  <2> HIDE DEF part, F
  <2> QED
    BY <2>1, <2>2, <2>3 DEF Partition
<1>12. ASSUME NEW p \in P PROVE brought[p] = SumOver(g, part[p])
  <2> DEFINE S == part[p]
             Y == Hitting(p, rows, key)
             h == [x \in X |-> x[3]]
             value == [row \in rows |-> ValueOf(p, row)[c]]
  <2>1. p \in reached /\ p \in PathsTo(t) /\ p[1] = table
    BY <1>3
  <2>2. /\ Proper(table, rows)
        /\ \A n \in DOMAIN Chains[chain] : \A row :
              row \in TableRows(chain, table, {n}) /\ n \in Blocks
                  <=> row \in rows /\ row.block = n
        /\ \A row \in rows : row.block \in Blocks
    <3>1. \A n \in Blocks : \A row \in RowsOf(chain, n) : row.block = n
      BY <1>1, RowFacts
    <3>2. \A row \in rows : row.block \in Blocks
      <4> SUFFICES ASSUME NEW row \in rows PROVE row.block \in Blocks
        OBVIOUS
      <4>1. PICK n \in Blocks : row \in RowsOf(chain, n)
        BY DEF TableRows
      <4> QED
        BY <3>1, <4>1
    <3> QED
      BY <1>1, <3>2, RowsFacts
  <2> HIDE DEF rows
  <2>3. \A x \in S : x \in F /\ x[1] = p /\ x \in E /\ x \in X /\ x[2] \in Blocks /\ key \in KeysHit(p, x[3])
    OBVIOUS
  <2>4. IsFiniteSet(S) /\ IsFiniteSet(Y)
    <3>1. S \in SUBSET F
      OBVIOUS
    <3>2. Y \in SUBSET rows
      BY DEF Hitting
    <3> HIDE DEF S, Y, F
    <3> QED
      BY <3>1, <3>2, <2>2, <1>8, FS_Subset DEF Proper
  <2>5. ASSUME NEW x \in S
        PROVE  g[x] \in Int /\ h[x] = x[3] /\ h[x] \in Y /\ value[h[x]] = g[x]
    <3>1. x \in F /\ x \in E /\ x \in X /\ x[1] = p /\ x[2] \in Blocks /\ key \in KeysHit(p, x[3])
      BY <2>3
    <3>2. x[3] \in TableRows(chain, table, {x[2]}) /\ x[2] \in DOMAIN Chains[chain]
      BY <3>1, <2>1, <1>2
    <3>3. x[3] \in rows
      BY <3>1, <3>2, <2>2
    <3>4. g[x] \in Int /\ g[x] = ValueOf(p, x[3])[c]
      BY <3>1, <1>7
    <3>5. h[x] = x[3]
      BY <3>1
    <3> HIDE DEF g, h, S
    <3> QED
      BY <3>1, <3>3, <3>4, <3>5 DEF Hitting
  <2>6. \A row \in Y : \E x \in S : h[x] = row
    <3> SUFFICES ASSUME NEW row \in Y PROVE \E x \in S : h[x] = row
      OBVIOUS
    <3>1. row \in rows /\ key \in KeysHit(p, row) /\ row.block \in Blocks
      BY <2>2 DEF Hitting
    <3> DEFINE x == <<p, row.block, row>>
    <3>2. row \in TableRows(chain, table, {row.block}) /\ row.block \in DOMAIN Chains[chain]
      BY <3>1, <2>2
    <3>3. x \in X
      BY <3>2, <2>1, <1>2
    <3>4. x[1] = p /\ x[2] = row.block /\ x[3] = row
      OBVIOUS
    <3>5. x \in S /\ h[x] = row
      <4> HIDE DEF x, X
      <4> QED
        BY <3>1, <3>3, <3>4, <2>1
    <3> QED
      BY <3>5
  <2>7. \A x, z \in S : h[x] = h[z] => x = z
    <3> SUFFICES ASSUME NEW x \in S, NEW z \in S, h[x] = h[z] PROVE x = z
      OBVIOUS
    <3>1. x[3] = z[3] /\ x[1] = z[1] /\ x \in X /\ z \in X
      BY <2>3, <2>5
    <3>2. x[2] = z[2]
      <4>1. x[3].block = x[2] /\ z[3].block = z[2]
        BY <3>1, <1>2
      <4> QED
        BY <3>1, <4>1
    <3> QED
      BY <3>1, <3>2, <1>2
  <2>8. SumOver(g, S) = SumOver(value, Y)
    <3>1. \A x \in S : g[x] \in Int
      BY <2>5
    <3>2. \A x \in S : h[x] \in Y /\ value[h[x]] = g[x]
      BY <2>5
    <3> HIDE DEF S, Y, h, value, g
    <3> QED
      BY <3>1, <3>2, <2>4, <2>6, <2>7, SumRenamed
  <2>9. brought[p] = SumOver(value, Y)
    BY DEF Brought, rows
  <2> QED
    BY <2>8, <2>9
<1>13. SumOver(g, F) = SumOver(brought, P)
  <2>1. PartSums(brought, P, g, part)
    BY <1>12 DEF PartSums
  <2>2. \A x \in F : g[x] \in Int
    BY <1>7
  <2> HIDE DEF g, F, part
  <2> QED
    BY <2>1, <2>2, <1>8, <1>11, SumOfParts
<1> HIDE DEF before, after, g, E, F
<1> QED
  BY <1>5, <1>6, <1>9, <1>10, <1>13

-------------------------------------------------------------------------------
(* A merge, and what a reader gets.                                             *)

(* A bar as a reader gets it.                                                   *)
Whole(t, bag, key) ==
    [key |-> key, sum |-> [c \in Columns(t) |-> Mass(bag, key, c)],
     seen |-> UNION {r.seen : r \in {x \in DOMAIN bag : x.key = key}}]
Bars(bag) == {r.key : r \in DOMAIN bag}

(* A bar's columns are numbers.                                                 *)
LEMMA MassIsInt ==
    ASSUME NEW t \in StateTables, NEW bag, StoredBag(t, bag), NEW key, NEW c \in Columns(t)
    PROVE  Mass(bag, key, c) \in Int
<1> DEFINE f == [r \in DOMAIN bag |-> bag[r] * r.sum[c]]
           D == {r \in DOMAIN bag : r.key = key}
<1>1. IsFiniteSet(DOMAIN bag) /\ D \in SUBSET DOMAIN bag
  BY DEF StoredBag
<1>2. \A r \in DOMAIN bag : f[r] \in Int
  <2> SUFFICES ASSUME NEW r \in DOMAIN bag PROVE f[r] \in Int
    OBVIOUS
  <2> DEFINE a == bag[r]
             s == r.sum[c]
  <2>1. a \in Nat /\ s \in Int
    BY DEF StoredBag, IsABag
  <2>2. f[r] = a * s
    OBVIOUS
  <2> HIDE DEF a, s, f
  <2> QED
    BY <2>1, <2>2
<1>3. Mass(bag, key, c) = SumOver(f, D)
  BY DEF Mass
<1> HIDE DEF f, D
<1> QED
  BY <1>1, <1>2, <1>3, SumFacts

(* Merged has one row for every bar, with all its columns and all that it has   *)
(* seen.                                                                        *)
LEMMA MergedIs ==
    ASSUME NEW t \in StateTables, NEW bag, StoredBag(t, bag)
    PROVE  Merged(bag) = {Whole(t, bag, key) : key \in Bars(bag)}
<1> DEFINE Group(key) == {r \in DOMAIN bag : r.key = key}
           Scaled(sum, n) == [c \in DOMAIN sum |-> n * sum[c]]
           Made(key) == [key |-> key, sum |-> Total([r \in Group(key) |-> Scaled(r.sum, bag[r])]),
                         seen |-> UNION {r.seen : r \in Group(key)}]
<1>1. Merged(bag) = {Made(key) : key \in Bars(bag)}
  BY DEF Merged, Bars
<1>2. ASSUME NEW key \in Bars(bag) PROVE Made(key) = Whole(t, bag, key)
  <2> DEFINE G == Group(key)
             C == Columns(t)
             e == [r \in G |-> Scaled(r.sum, bag[r])]
             value == [c \in C |-> [r \in DOMAIN bag |-> bag[r] * r.sum[c]]]
             sum == [c \in C |-> Mass(bag, key, c)]
  <2>1. G # {}
    BY DEF Bars
  <2>2. \A r \in G : DOMAIN r.sum = C
    BY DEF StoredBag
  <2>3. Records(e, G, C)
    BY <2>2 DEF Records
  <2>4. ByColumn(value, e, G, C)
    BY <2>2 DEF ByColumn
  <2>5. ColumnSums(sum, value, G, C)
    <3>1. \A c \in C : Mass(bag, key, c) \in Int
      BY MassIsInt
    <3>2. \A c \in C : Mass(bag, key, c) = SumOver(value[c], G)
      BY DEF Mass
    <3> HIDE DEF value, G, C
    <3> QED
      BY <3>1, <3>2 DEF ColumnSums
  <2>6. Total(e) = sum
    <3> HIDE DEF e, value, sum, G, C
    <3> QED
      BY <2>1, <2>3, <2>4, <2>5, TotalOf
  <2>7. Made(key) = [key |-> key, sum |-> Total(e), seen |-> UNION {r.seen : r \in G}]
    OBVIOUS
  <2>8. Whole(t, bag, key) = [key |-> key, sum |-> sum, seen |-> UNION {r.seen : r \in G}]
    BY DEF Whole
  <2> HIDE DEF e, sum, G, Made
  <2> QED
    BY <2>6, <2>7, <2>8
<1> HIDE DEF Made
<1> QED
  BY <1>1, <1>2

(* What that row is.                                                            *)
LEMMA WholeFacts ==
    ASSUME NEW t \in StateTables, NEW bag, StoredBag(t, bag), NEW key
    PROVE  /\ Whole(t, bag, key) = [key |-> key, sum |-> Whole(t, bag, key).sum,
                                    seen |-> Whole(t, bag, key).seen]
           /\ Whole(t, bag, key).key = key
           /\ Whole(t, bag, key).sum \in [Columns(t) -> Int]
           /\ \A c \in Columns(t) : Whole(t, bag, key).sum[c] = Mass(bag, key, c)
           /\ \A s : s \in Whole(t, bag, key).seen <=> Seen(bag, key, s)
           /\ key \in Bars(bag) <=> \E s : Seen(bag, key, s)
<1> DEFINE seen == UNION {r.seen : r \in {x \in DOMAIN bag : x.key = key}}
           sum == [c \in Columns(t) |-> Mass(bag, key, c)]
<1>1. Whole(t, bag, key) = [key |-> key, sum |-> sum, seen |-> seen]
  BY DEF Whole
<1>2. sum \in [Columns(t) -> Int] /\ \A c \in Columns(t) : sum[c] = Mass(bag, key, c)
  BY MassIsInt
<1>3. \A s : s \in seen <=> Seen(bag, key, s)
  BY DEF Seen
<1>4. key \in Bars(bag) <=> \E s : Seen(bag, key, s)
  <2>1. ASSUME key \in Bars(bag) PROVE \E s : Seen(bag, key, s)
    <3>1. PICK r \in DOMAIN bag : r.key = key
      BY <2>1 DEF Bars
    <3>2. PICK s \in r.seen : TRUE
      BY DEF StoredBag
    <3> QED
      BY <3>1, <3>2 DEF Seen
  <2>2. ASSUME NEW s, Seen(bag, key, s) PROVE key \in Bars(bag)
    BY <2>2 DEF Seen, Bars
  <2> QED
    BY <2>1, <2>2
<1> HIDE DEF seen, sum
<1> QED
  BY <1>1, <1>2, <1>3, <1>4

(* A merge changes neither what a bar has seen nor its columns.                 *)
LEMMA MergeKeeps ==
    ASSUME NEW t \in StateTables, NEW bag, StoredBag(t, bag)
    PROVE  /\ StoredBag(t, SetToBag(Merged(bag)))
           /\ \A key, s : Seen(SetToBag(Merged(bag)), key, s) <=> Seen(bag, key, s)
           /\ \A key : \A c \in Columns(t) : Mass(SetToBag(Merged(bag)), key, c) = Mass(bag, key, c)
<1> DEFINE all == Merged(bag)
           new == SetToBag(all)
           w == [key \in Bars(bag) |-> Whole(t, bag, key)]
<1>1. all = {Whole(t, bag, key) : key \in Bars(bag)}
  BY MergedIs
<1>2. DOMAIN new = all /\ \A r \in all : new[r] = 1
  BY DEF SetToBag
<1>3. IsABag(new)
  BY DEF SetToBag, IsABag
<1> HIDE DEF new, all
<1>4. IsFiniteSet(all)
  <2>1. IsFiniteSet(DOMAIN bag)
    BY DEF StoredBag
  <2> DEFINE k == [r \in DOMAIN bag |-> r.key]
  <2>2. Bars(bag) = {k[r] : r \in DOMAIN bag}
    BY DEF Bars
  <2>3. IsFiniteSet(Bars(bag))
    <3> HIDE DEF k
    <3> QED
      BY <2>1, <2>2, ImageIsFinite
  <2>4. all = {w[key] : key \in Bars(bag)}
    BY <1>1
  <2> HIDE DEF w
  <2> QED
    BY <2>3, <2>4, ImageIsFinite
<1>5. ASSUME NEW r \in all
      PROVE  /\ r.key \in Bars(bag) /\ r = Whole(t, bag, r.key)
             /\ r = [key |-> r.key, sum |-> r.sum, seen |-> r.seen]
             /\ r.sum \in [Columns(t) -> Int] /\ r.seen # {}
  <2>1. PICK key \in Bars(bag) : r = Whole(t, bag, key)
    BY <1>1
  <2>2. /\ r.key = key /\ r = [key |-> key, sum |-> r.sum, seen |-> r.seen]
        /\ r.sum \in [Columns(t) -> Int]
        /\ \A s : s \in r.seen <=> Seen(bag, key, s)
        /\ \E s : Seen(bag, key, s)
    BY <2>1, WholeFacts
  <2> QED
    BY <2>1, <2>2
<1>6. StoredBag(t, new)
  BY <1>2, <1>3, <1>4, <1>5 DEF StoredBag
<1>7. ASSUME NEW key, NEW s PROVE Seen(new, key, s) <=> Seen(bag, key, s)
  <2>1. ASSUME Seen(new, key, s) PROVE Seen(bag, key, s)
    <3>1. PICK r \in all : r.key = key /\ s \in r.seen
      BY <2>1, <1>2 DEF Seen
    <3>2. r = Whole(t, bag, key)
      BY <3>1, <1>5
    <3> QED
      BY <3>1, <3>2, WholeFacts
  <2>2. ASSUME Seen(bag, key, s) PROVE Seen(new, key, s)
    <3> DEFINE r == Whole(t, bag, key)
    <3>1. key \in Bars(bag) /\ r.key = key /\ s \in r.seen
      BY <2>2, WholeFacts
    <3>2. r \in all
      BY <3>1, <1>1
    <3> QED
      BY <3>1, <3>2, <1>2 DEF Seen
  <2> QED
    BY <2>1, <2>2
<1>8. ASSUME NEW key \in Bars(bag), NEW c \in Columns(t)
      PROVE  Mass(new, key, c) = Mass(bag, key, c)
  <2> DEFINE r == Whole(t, bag, key)
             f == [x \in DOMAIN new |-> new[x] * x.sum[c]]
  <2>1. r \in all /\ r.key = key /\ r.sum[c] = Mass(bag, key, c) /\ Mass(bag, key, c) \in Int
    <3>1. r \in all
      BY <1>1
    <3>2. r.key = key /\ r.sum[c] = Mass(bag, key, c)
      BY WholeFacts
    <3> QED
      BY <3>1, <3>2, MassIsInt
  <2>2. {x \in DOMAIN new : x.key = key} = {r}
    <3>1. \A x \in all : x.key = key => x = r
      BY <1>5
    <3> HIDE DEF r
    <3> QED
      BY <2>1, <3>1, <1>2
  <2>3. f[r] = Mass(bag, key, c)
    <3>1. f[r] = 1 * r.sum[c]
      BY <2>1, <1>2
    <3> HIDE DEF f, r
    <3> QED
      BY <2>1, <3>1
  <2>4. Mass(new, key, c) = SumOver(f, {r})
    BY <2>2 DEF Mass
  <2> HIDE DEF f, r
  <2> QED
    BY <2>1, <2>3, <2>4, SumOfOne
<1>9. ASSUME NEW key, key \notin Bars(bag), NEW c \in Columns(t)
      PROVE  Mass(new, key, c) = Mass(bag, key, c)
  <2> DEFINE f == [x \in DOMAIN new |-> new[x] * x.sum[c]]
             g == [x \in DOMAIN bag |-> bag[x] * x.sum[c]]
  <2>1. {x \in DOMAIN new : x.key = key} = {}
    BY <1>2, <1>5, <1>9
  <2>2. {x \in DOMAIN bag : x.key = key} = {}
    BY <1>9 DEF Bars
  <2>3. Mass(new, key, c) = SumOver(f, {}) /\ Mass(bag, key, c) = SumOver(g, {})
    BY <2>1, <2>2 DEF Mass
  <2> HIDE DEF f, g
  <2>4. SumOver(f, {}) = SumOver(g, {})
    BY SumSame
  <2> QED
    BY <2>3, <2>4
<1>10. \A key : \A c \in Columns(t) : Mass(new, key, c) = Mass(bag, key, c)
  BY <1>8, <1>9
<1> QED
  BY <1>6, <1>7, <1>10 DEF new, all

-------------------------------------------------------------------------------
(* An insert keeps the invariant of the state tables.                           *)

(* What a write delivers.                                                       *)
Delivers(t, P, rows) ==
    /\ P \in SUBSET PathsTo(t) /\ \A p \in P : Proper(p[1], rows)
    /\ Deliveries(t)' = Deliveries(t) /\ Blocks \subseteq DOMAIN Chains[chain]
    /\ \A x \in Deliveries(t) :
          /\ Times(x) \in Nat /\ Times(x)' \in Nat /\ Times(x)' >= Times(x)
          /\ Times(x)' > 0 => Times(x) > 0 \/ (x[1] \in P /\ x[3] \in rows)
    /\ \A p \in P : \A row \in rows :
          \E x \in Deliveries(t) : x[1] = p /\ x[3] = row /\ Times(x)' > 0

(* An insert delivers the rows of its batch along the paths it reaches.         *)
LEMMA WriteDelivers ==
    ASSUME SinkTypes, chain' = chain, NEW t \in StateTables, NEW table \in RawTables,
           NEW reached \in SUBSET PathsOf(table), Write(table, reached),
           NEW P, P = {p \in reached : Len(p) > 1 /\ Last(p) = t},
           NEW rows, rows = TableRows(chain, table, Blocks)
    PROVE  Delivers(t, P, rows)
<1>1. chain \in DOMAIN Chains /\ Blocks \subseteq DOMAIN Chains[chain]
  BY Sizes DEF SinkTypes, Blocks
<1>2. \A p : p \in P <=> p \in reached /\ p \in PathsTo(t) /\ p[1] = table
  BY FeedingFacts
<1>3. /\ Proper(table, rows)
      /\ \A n \in DOMAIN Chains[chain] : \A row :
            row \in TableRows(chain, table, {n}) /\ n \in Blocks <=> row \in rows /\ row.block = n
  BY <1>1, RowsFacts
<1>4. \A row \in rows : row.block \in Blocks
  <2> SUFFICES ASSUME NEW row \in rows PROVE row.block \in Blocks
    OBVIOUS
  <2>1. PICK n \in Blocks : row \in RowsOf(chain, n)
    BY DEF TableRows
  <2>2. row.block = n
    BY <2>1, <1>1, RowFacts
  <2> QED
    BY <2>2
<1>5. /\ \A x \in Deliveries(t) :
            /\ x[1] \in PathsTo(t) /\ x[1] \in Paths /\ x[2] \in DOMAIN Chains[chain]
            /\ x[3].block = x[2] /\ x[3] \in TableRows(chain, x[1][1], {x[2]})
      /\ \A p \in PathsTo(t) : \A n \in DOMAIN Chains[chain] :
            \A row \in TableRows(chain, p[1], {n}) : <<p, n, row>> \in Deliveries(t)
  BY <1>1, DeliveryFacts
<1>6. /\ \A p \in Paths : \A n \in DOMAIN Chains[chain] :
            /\ written[p][n] \in Nat
            /\ p \in reached /\ n \in Blocks => written'[p][n] = written[p][n] + 1
            /\ ~(p \in reached /\ n \in Blocks) => written'[p][n] = written[p][n]
  BY WriteCounts, Sizes
<1>7. ASSUME NEW x \in Deliveries(t)
      PROVE  /\ Times(x) \in Nat /\ Times(x)' \in Nat /\ Times(x)' >= Times(x)
             /\ Times(x)' > 0 => Times(x) > 0 \/ (x[1] \in P /\ x[3] \in rows)
             /\ x[1] \in reached /\ x[2] \in Blocks => Times(x)' > 0
  <2>1. /\ x[1] \in PathsTo(t) /\ x[1] \in Paths /\ x[2] \in DOMAIN Chains[chain]
        /\ x[3].block = x[2] /\ x[3] \in TableRows(chain, x[1][1], {x[2]})
    BY <1>5
  <2>2. Times(x) = written[x[1]][x[2]] /\ Times(x)' = written'[x[1]][x[2]]
    BY DEF Times
  <2>3. x[1] \in reached /\ x[2] \in Blocks => x[1] \in P /\ x[3] \in rows
    <3> SUFFICES ASSUME x[1] \in reached, x[2] \in Blocks PROVE x[1] \in P /\ x[3] \in rows
      OBVIOUS
    <3>1. x[1][1] = table
      BY PathsBegin
    <3> QED
      BY <2>1, <3>1, <1>2, <1>3
  <2> QED
    BY <2>1, <2>2, <2>3, <1>6
<1>8. ASSUME NEW p \in P, NEW row \in rows
      PROVE  \E x \in Deliveries(t) : x[1] = p /\ x[3] = row /\ Times(x)' > 0
  <2> DEFINE x == <<p, row.block, row>>
  <2>1. p \in reached /\ p \in PathsTo(t) /\ p[1] = table
    BY <1>2
  <2>2. row.block \in Blocks /\ row.block \in DOMAIN Chains[chain]
        /\ row \in TableRows(chain, table, {row.block})
    BY <1>1, <1>3, <1>4
  <2>3. x \in Deliveries(t)
    BY <2>1, <2>2, <1>5
  <2>4. x[1] = p /\ x[2] = row.block /\ x[3] = row
    OBVIOUS
  <2> HIDE DEF x
  <2> QED
    BY <2>1, <2>2, <2>3, <2>4, <1>7
<1>9. P \in SUBSET PathsTo(t) /\ \A p \in P : Proper(p[1], rows)
  BY <1>2, <1>3
<1> QED
  BY <1>1, <1>7, <1>8, <1>9, DeliveriesKept DEF Delivers

Delivered(t, key, s) ==
    \E x \in Deliveries(t) :
        Times(x) > 0 /\ key \in KeysHit(x[1], x[3]) /\ s = SightOf(x[1], x[3])

(* A bar has seen just what was delivered to it.                                *)
LEMMA SeenIs ==
    ASSUME Sighted, NEW t \in StateTables, NEW key, NEW s
    PROVE  Seen(state[t], key, s) <=> Delivered(t, key, s)
  BY DEF Sighted, Seen, Delivered

(* The bars get what they are owed by an insert, whole or failed.               *)
LEMMA WriteStored ==
    ASSUME SinkTypes, chain' = chain, Stored, Sighted, Balanced, NEW table \in RawTables,
           NEW reached \in SUBSET PathsOf(table), Write(table, reached)
    PROVE  Stored' /\ Sighted' /\ Balanced'
<1> DEFINE rows == TableRows(chain, table, Blocks)
           P(t) == {p \in reached : Len(p) > 1 /\ Last(p) = t}
           fed(t) == Fed(state[t], P(t), rows)
<1>1. state' = [t \in StateTables |-> fed(t)]
  BY DEF Write
<1>2. ASSUME NEW t \in StateTables PROVE Delivers(t, P(t), rows)
  <2> DEFINE Q == P(t)
             rs == rows
  <2>1. Q = {p \in reached : Len(p) > 1 /\ Last(p) = t} /\ rs = TableRows(chain, table, Blocks)
    OBVIOUS
  <2> HIDE DEF Q, rs
  <2>2. Delivers(t, Q, rs)
    BY <2>1, WriteDelivers
  <2> QED
    BY <2>2 DEF Q, rs
<1>3. ASSUME NEW t \in StateTables
      PROVE  /\ StoredBag(t, state[t]) /\ state'[t] = fed(t) /\ StoredBag(t, fed(t))
             /\ \A key, s :
                   Seen(fed(t), key, s) <=>
                       Seen(state[t], key, s) \/ Brings(P(t), rows, key, s)
  <2>1. StoredBag(t, state[t]) /\ state'[t] = fed(t)
    BY <1>1 DEF Stored
  <2> DEFINE Q == P(t)
             rs == rows
             bag == state[t]
  <2>2. Q \in SUBSET PathsTo(t) /\ \A p \in Q : Proper(p[1], rs)
    <3> HIDE DEF P, rows
    <3> QED
      BY <1>2 DEF Delivers
  <2>3. StoredBag(t, bag) /\ fed(t) = Fed(bag, Q, rs)
    BY <2>1
  <2> HIDE DEF Q, rs, bag, fed
  <2>4. StoredBag(t, Fed(bag, Q, rs))
    BY <2>2, <2>3, FedStored
  <2>5. \A key, s : Seen(Fed(bag, Q, rs), key, s) <=> Seen(bag, key, s) \/ Brings(Q, rs, key, s)
    BY <2>2, <2>3, FedStored
  <2> QED
    BY <2>1, <2>3, <2>4, <2>5 DEF Q, rs, bag
<1> HIDE DEF fed
<1>4. Stored'
  BY <1>1, <1>3 DEF Stored
<1>5. Sighted'
  <2> HIDE DEF P, rows
  <2>1. ASSUME NEW t \in StateTables, NEW key, NEW s
        PROVE  Seen(fed(t), key, s) <=> Delivered(t, key, s)'
    <3>1. Delivered(t, key, s)' <=>
              \E x \in Deliveries(t) :
                  Times(x)' > 0 /\ key \in KeysHit(x[1], x[3]) /\ s = SightOf(x[1], x[3])
      BY <1>2 DEF Delivered, Delivers
    <3>2. ASSUME Seen(state[t], key, s) PROVE Delivered(t, key, s)'
      <4>1. PICK x \in Deliveries(t) : /\ Times(x) > 0 /\ key \in KeysHit(x[1], x[3])
                                       /\ s = SightOf(x[1], x[3])
        <5>1. Delivered(t, key, s)
          BY <3>2, SeenIs
        <5> QED
          BY <5>1 DEF Delivered
      <4>2. Times(x)' > 0
        BY <4>1, <1>2 DEF Delivers
      <4> QED
        BY <3>1, <4>1, <4>2
    <3>3. ASSUME NEW p \in P(t), NEW row \in rows, key \in KeysHit(p, row), s = SightOf(p, row)
          PROVE  Delivered(t, key, s)'
      <4>1. PICK x \in Deliveries(t) : x[1] = p /\ x[3] = row /\ Times(x)' > 0
        BY <1>2 DEF Delivers
      <4> QED
        BY <3>1, <4>1, <3>3
    <3>4. ASSUME NEW x \in Deliveries(t), Times(x)' > 0, key \in KeysHit(x[1], x[3]),
                 s = SightOf(x[1], x[3])
          PROVE  Seen(fed(t), key, s)
      <4>1. CASE Times(x) > 0
        <5>1. Delivered(t, key, s)
          BY <4>1, <3>4 DEF Delivered
        <5> QED
          BY <5>1, <1>3, SeenIs
      <4>2. CASE x[1] \in P(t) /\ x[3] \in rows
        BY <4>2, <3>4, <1>3 DEF Brings
      <4>3. Times(x) > 0 \/ (x[1] \in P(t) /\ x[3] \in rows)
        BY <3>4, <1>2 DEF Delivers
      <4> QED
        BY <4>1, <4>2, <4>3
    <3> QED
      BY <3>1, <3>2, <3>3, <3>4, <1>3 DEF Brings
  <2>2. ASSUME NEW t \in StateTables
        PROVE  /\ \A r \in DOMAIN fed(t) : \A s \in r.seen : Delivered(t, r.key, s)'
               /\ \A x \in Deliveries(t)' :
                     Times(x)' > 0 => \A key \in KeysHit(x[1], x[3]) :
                                         Seen(fed(t), key, SightOf(x[1], x[3]))
    <3>1. ASSUME NEW r \in DOMAIN fed(t), NEW s \in r.seen PROVE Seen(fed(t), r.key, s)
      BY DEF Seen
    <3>2. ASSUME NEW x \in Deliveries(t)', Times(x)' > 0, NEW key \in KeysHit(x[1], x[3])
          PROVE  Delivered(t, key, SightOf(x[1], x[3]))'
      BY <3>2 DEF Delivered
    <3> QED
      BY <2>1, <3>1, <3>2
  <2> QED
    BY <2>2, <1>3 DEF Sighted, Seen, Delivered
<1>6. Balanced'
  <2>1. ASSUME NEW t \in StateTables, NEW key \in KeysIn(t), NEW c \in Columns(t)
        PROVE  Mass(fed(t), key, c) = Owed(t, key, c)'
    <3> DEFINE Q == P(t)
               rs == rows
               bag == state[t]
               brought == [p \in Q |-> Brought(p, rs, key, c)]
    <3>1. Q = {p \in reached : Len(p) > 1 /\ Last(p) = t} /\ rs = TableRows(chain, table, Blocks)
      OBVIOUS
    <3>2. /\ Q \in SUBSET PathsTo(t) /\ \A p \in Q : Proper(p[1], rs)
          /\ Blocks \subseteq DOMAIN Chains[chain]
      BY <1>2 DEF Delivers
    <3>3. fed(t) = Fed(bag, Q, rs) /\ StoredBag(t, bag)
      BY <1>3 DEF fed
    <3>4. \A p \in Q : brought[p] = Brought(p, rs, key, c)
      OBVIOUS
    <3>5. \A p \in Q : brought[p] = Brought(p, TableRows(chain, table, Blocks), key, c)
      OBVIOUS
    <3>6. Mass(bag, key, c) = Owed(t, key, c)
      BY DEF Balanced
    <3> HIDE DEF Q, rs, bag, brought
    <3>7. Mass(Fed(bag, Q, rs), key, c) = Mass(bag, key, c) + SumOver(brought, Q)
      BY <3>2, <3>3, <3>4, FedMass
    <3>8. Owed(t, key, c)' = Owed(t, key, c) + SumOver(brought, Q)
      BY <3>1, <3>2, <3>5, OwedStep
    <3> QED
      BY <3>3, <3>6, <3>7, <3>8
  <2>2. \A t \in StateTables : KeysIn(t)' = KeysIn(t)
    BY <1>2 DEF KeysIn, Delivers
  <2>3. ASSUME NEW t \in StateTables, NEW key \in KeysIn(t)', NEW c \in Columns(t)
        PROVE  Mass(state[t], key, c)' = Owed(t, key, c)'
    <3>1. Mass(state[t], key, c)' = Mass(fed(t), key, c)
      BY <1>3 DEF Mass
    <3> QED
      BY <2>1, <2>2, <3>1
  <2> QED
    BY <2>3 DEF Balanced
<1> QED
  BY <1>4, <1>5, <1>6

(* At first the tables are empty and nothing was written.                       *)
LEMMA StoredInit == Init => Stored /\ Sighted /\ Balanced
<1> SUFFICES ASSUME Init PROVE Stored /\ Sighted /\ Balanced
  OBVIOUS
<1>1. chain \in DOMAIN Chains /\ state = [t \in StateTables |-> EmptyBag]
  BY DEF Init
<1>2. DOMAIN EmptyBag = {} /\ IsABag(EmptyBag)
  BY DEF EmptyBag, SetToBag, IsABag
<1>3. ASSUME NEW t \in StateTables, NEW x \in Deliveries(t) PROVE Times(x) = 0
  <2>1. x[1] \in Paths /\ x[2] \in DOMAIN Chains[chain]
    BY <1>1, DeliveryFacts
  <2> QED
    BY <2>1 DEF Init, Times
<1>4. Stored
  <2>1. ASSUME NEW t \in StateTables PROVE StoredBag(t, EmptyBag)
    BY <1>2, FS_EmptySet DEF StoredBag
  <2> QED
    BY <1>1, <2>1 DEF Stored
<1>5. Sighted
  BY <1>1, <1>2, <1>3 DEF Sighted
<1>6. ASSUME NEW t \in StateTables, NEW key \in KeysIn(t), NEW c \in Columns(t)
      PROVE  Mass(state[t], key, c) = Owed(t, key, c)
  <2> DEFINE f == [r \in DOMAIN state[t] |-> state[t][r] * r.sum[c]]
             X == Deliveries(t)
             E == {x \in X : key \in KeysHit(x[1], x[3])}
             g == [x \in X |-> Times(x) * ValueOf(x[1], x[3])[c]]
  <2>1. Mass(state[t], key, c) = SumOver(f, {})
    BY <1>1, <1>2 DEF Mass
  <2>2. SumOver(f, {}) = 0
    <3>1. \A x \in {} : f[x] \in Int
      OBVIOUS
    <3> HIDE DEF f
    <3> QED
      BY <3>1, FS_EmptySet, SumFacts
  <2>3. IsFiniteSet(E)
    BY <1>1, DeliveryFacts, FS_Subset
  <2>4. \A x \in E : g[x] = 0
    <3> SUFFICES ASSUME NEW x \in E PROVE g[x] = 0
      OBVIOUS
    <3> DEFINE v == ValueOf(x[1], x[3])[c]
    <3>1. v \in Int /\ Times(x) = 0
      <4>1. ValueOf(x[1], x[3]) \in [Columns(t) -> Int]
        BY <1>1, DeliveryFacts
      <4> QED
        BY <4>1, <1>3
    <3>2. g[x] = Times(x) * v
      OBVIOUS
    <3> HIDE DEF v, g
    <3> QED
      BY <3>1, <3>2
  <2>5. Owed(t, key, c) = SumOver(g, E)
    BY DEF Owed
  <2> HIDE DEF g, E
  <2>6. SumOver(g, E) = 0
    BY <2>3, <2>4, SumOfNone
  <2> QED
    BY <2>1, <2>2, <2>5, <2>6
<1> QED
  BY <1>4, <1>5, <1>6 DEF Balanced

(* A step that writes and merges nothing leaves the tables as they are.         *)
LEMMA StoredSame ==
    ASSUME Stored, Sighted, Balanced, UNCHANGED <<chain, state, written>>
    PROVE  Stored' /\ Sighted' /\ Balanced'
<1>1. Stored'
  BY DEF Stored
<1>2. /\ \A t : Deliveries(t)' = Deliveries(t)
      /\ \A x : Times(x)' = Times(x)
  BY DEF Deliveries, TableRows, Times
<1>3. Sighted'
  BY <1>2 DEF Sighted
<1>4. Balanced'
  <2>1. \A t : KeysIn(t)' = KeysIn(t)
    BY <1>2 DEF KeysIn
  <2>2. ASSUME NEW t \in StateTables, NEW key \in KeysIn(t), NEW c \in Columns(t)
        PROVE  Mass(state[t], key, c)' = Owed(t, key, c)'
    <3>1. Mass(state[t], key, c)' = Mass(state[t], key, c)
      BY DEF Mass
    <3>2. Owed(t, key, c)' = Owed(t, key, c)
      BY <1>2 DEF Owed
    <3>3. Mass(state[t], key, c) = Owed(t, key, c)
      BY DEF Balanced
    <3> QED
      BY <3>1, <3>2, <3>3
  <2> QED
    BY <2>1, <2>2 DEF Balanced
<1> QED
  BY <1>1, <1>3, <1>4

(* A merge changes nothing of what a reader gets.                               *)
LEMMA MergeStored ==
    ASSUME Stored, Sighted, Balanced, NEW table \in StateTables, Merge(table)
    PROVE  Stored' /\ Sighted' /\ Balanced'
<1> DEFINE bag == state[table]
           new == SetToBag(Merged(bag))
<1>1. /\ state' = [state EXCEPT ![table] = new]
      /\ chain' = chain /\ written' = written
  BY DEF Merge
<1>2. StoredBag(table, bag)
  BY DEF Stored
<1> HIDE DEF bag
<1>3. /\ StoredBag(table, new)
      /\ \A key, s : Seen(new, key, s) <=> Seen(bag, key, s)
      /\ \A key : \A c \in Columns(table) : Mass(new, key, c) = Mass(bag, key, c)
  BY <1>2, MergeKeeps
<1> HIDE DEF new
<1>4. /\ DOMAIN state' = StateTables
      /\ \A t \in StateTables : state'[t] = IF t = table THEN new ELSE state[t]
  BY <1>1 DEF Stored
<1>5. Stored'
  BY <1>3, <1>4 DEF Stored
<1>6. /\ \A t : Deliveries(t)' = Deliveries(t)
      /\ \A x : Times(x)' = Times(x)
      /\ \A t : KeysIn(t)' = KeysIn(t)
  BY <1>1 DEF Deliveries, TableRows, Times, KeysIn
<1>7. ASSUME NEW t \in StateTables, NEW key, NEW s
      PROVE  Seen(state'[t], key, s) <=> Delivered(t, key, s)
  <2>1. Seen(state'[t], key, s) <=> Seen(state[t], key, s)
    BY <1>3, <1>4 DEF bag
  <2> QED
    BY <2>1, SeenIs
<1>8. Sighted'
  <2>1. ASSUME NEW t \in StateTables
        PROVE  /\ \A r \in DOMAIN state'[t] : \A s \in r.seen : Delivered(t, r.key, s)
               /\ \A x \in Deliveries(t) :
                     Times(x) > 0 => \A key \in KeysHit(x[1], x[3]) :
                                         Seen(state'[t], key, SightOf(x[1], x[3]))
    <3>1. ASSUME NEW r \in DOMAIN state'[t], NEW s \in r.seen PROVE Seen(state'[t], r.key, s)
      BY DEF Seen
    <3>2. ASSUME NEW x \in Deliveries(t), Times(x) > 0, NEW key \in KeysHit(x[1], x[3])
          PROVE  Delivered(t, key, SightOf(x[1], x[3]))
      BY <3>2 DEF Delivered
    <3> QED
      BY <1>7, <3>1, <3>2
  <2> QED
    BY <2>1, <1>6 DEF Sighted, Seen, Delivered
<1>9. Balanced'
  <2>1. ASSUME NEW t \in StateTables, NEW key \in KeysIn(t)', NEW c \in Columns(t)
        PROVE  Mass(state[t], key, c)' = Owed(t, key, c)'
    <3>1. Mass(state[t], key, c)' = Mass(state'[t], key, c)
      BY DEF Mass
    <3>2. Mass(state'[t], key, c) = Mass(state[t], key, c)
      BY <1>3, <1>4 DEF bag
    <3>3. Mass(state[t], key, c) = Owed(t, key, c)
      BY <1>6 DEF Balanced
    <3>4. Owed(t, key, c)' = Owed(t, key, c)
      BY <1>6 DEF Owed
    <3> QED
      BY <3>1, <3>2, <3>3, <3>4
  <2> QED
    BY <2>1 DEF Balanced
<1> QED
  BY <1>5, <1>8, <1>9

-------------------------------------------------------------------------------
(* The sink.                                                                    *)

(* A block that the sink is still going to insert into a table, because it is   *)
(* not yet in a batch or the table is pending, has been inserted only by        *)
(* attempts that failed.                                                        *)
RepeatsFailed ==
    \A p \in Paths : \A n \in DOMAIN Chains[chain] :
        n > cursor /\ (n \in Blocks => p[1] \in pending) => written[p][n] <= failures

SinkInv == SinkTypes /\ AtLeastOnce /\ RepeatsBounded /\ RepeatsFailed

(* The sink has done what it should; the state tables hold what was written.    *)
IInv == SinkInv /\ Stored /\ Sighted /\ Balanced

(* A block with rows of a table makes the table pending when its batch starts.  *)
LEMMA StartPending ==
    ASSUME NEW size, Start(size), NEW p \in Paths, NEW n \in Blocks',
           TableRows(chain, p[1], {n}) # {}
    PROVE  p[1] \in pending'
<1>1. PICK r \in RowsOf(chain, n) : r.table = p[1]
  BY DEF TableRows
<1>2. n \in cursor + 1 .. cursor + size
  BY DEF Start, Blocks
<1> QED
  BY <1>1, <1>2 DEF Start

(* The sink begins before the first block.                                      *)
LEMMA InitSink == Init => SinkInv
<1> SUFFICES ASSUME Init PROVE SinkInv
  OBVIOUS
<1>1. Len(Chains[chain]) \in Nat
  BY ChainsAssumption DEF Init
<1>2. \A p \in Paths : \A n \in DOMAIN Chains[chain] : written[p][n] = 0
  BY DEF Init
<1>3. SinkTypes
  <2>1. written \in [Paths -> [DOMAIN Chains[chain] -> Nat]]
    BY DEF Init
  <2> QED
    BY <1>1, <2>1, BoundsAssumption DEF Init, SinkTypes
<1>4. DOMAIN Chains[chain] = 1 .. Len(Chains[chain])
  BY ChainsAssumption DEF Init
<1>5. AtLeastOnce
  BY <1>1, <1>4 DEF Init, AtLeastOnce, Blocks
<1>6. RepeatsBounded /\ RepeatsFailed
  BY <1>2 DEF Init, RepeatsBounded, RepeatsFailed
<1> QED
  BY <1>3, <1>5, <1>6 DEF SinkInv

(* A batch begins: what is pending has not been counted for it.                 *)
LEMMA StartStep ==
    ASSUME SinkInv, NEW size \in 1 .. MaxBatch, Start(size)
    PROVE  SinkInv'
<1> USE Sizes DEF SinkInv
<1>1. SinkTypes'
  <2>1. pending' \subseteq RawTables
    <3> SUFFICES ASSUME NEW table \in pending' PROVE table \in RawTables
      OBVIOUS
    <3>1. PICK n \in cursor + 1 .. cursor + size : \E r \in RowsOf(chain, n) : r.table = table
      BY DEF Start
    <3>2. n \in DOMAIN Chains[chain]
      BY DEF Start
    <3> QED
      BY <3>1, <3>2, RowFacts DEF SinkTypes
  <2> QED
    BY <2>1 DEF Start, SinkTypes
<1>2. AtLeastOnce'
  <2> SUFFICES ASSUME NEW p \in Paths, NEW n \in DOMAIN Chains[chain],
                      TableRows(chain, p[1], {n}) # {},
                      n <= cursor \/ (n \in Blocks' /\ p[1] \notin pending')
               PROVE  written[p][n] >= 1
    BY DEF AtLeastOnce, Start
  <2>1. n <= cursor
    BY StartPending
  <2> QED
    BY <2>1 DEF AtLeastOnce
<1>3. RepeatsBounded' /\ RepeatsFailed'
  <2>1. Blocks = {}
    BY DEF Start, Blocks
  <2> QED
    BY <2>1 DEF RepeatsBounded, RepeatsFailed, Start
<1> QED
  BY <1>1, <1>2, <1>3

(* An insert makes up for what was pending.                                     *)
LEMMA InsertStep ==
    ASSUME SinkInv, NEW table \in pending, Insert(table)
    PROVE  SinkInv'
<1> USE Sizes DEF SinkInv
<1>1. Write(table, PathsOf(table))
  BY DEF Insert
<1>2. /\ pending' = pending \ {table}
      /\ chain' = chain /\ cursor' = cursor /\ batch' = batch /\ failures' = failures
      /\ Blocks' = Blocks
  BY DEF Insert, Sent, Blocks
<1>3. /\ written' \in [Paths -> [DOMAIN Chains[chain] -> Nat]]
      /\ \A p \in Paths : \A n \in DOMAIN Chains[chain] :
            /\ p[1] = table /\ n \in Blocks => written'[p][n] = written[p][n] + 1
            /\ ~(p[1] = table /\ n \in Blocks) => written'[p][n] = written[p][n]
  BY <1>1, WriteCounts, PathsBegin
<1>4. SinkTypes'
  BY <1>2, <1>3 DEF SinkTypes
<1>5. AtLeastOnce'
  <2> SUFFICES ASSUME NEW p \in Paths, NEW n \in DOMAIN Chains[chain],
                      TableRows(chain, p[1], {n}) # {},
                      n <= cursor \/ (n \in Blocks /\ p[1] \notin pending')
               PROVE  written'[p][n] >= 1
    BY <1>2 DEF AtLeastOnce
  <2>1. CASE p[1] = table /\ n \in Blocks
    BY <2>1, <1>3
  <2>2. CASE ~(p[1] = table /\ n \in Blocks)
    <3>1. n <= cursor \/ (n \in Blocks /\ p[1] \notin pending)
      BY <2>2, <1>2
    <3> QED
      BY <2>2, <3>1, <1>3 DEF AtLeastOnce
  <2> QED
    BY <2>1, <2>2
<1>6. RepeatsFailed'
  BY <1>2, <1>3 DEF RepeatsFailed
<1>7. RepeatsBounded'
  <2> SUFFICES ASSUME NEW p \in Paths, NEW n \in DOMAIN Chains[chain]
               PROVE  /\ written'[p][n] <= 1 + failures
                      /\ n > cursor + MaxBatch => written'[p][n] = 0
    BY <1>2 DEF RepeatsBounded
  <2>1. CASE p[1] = table /\ n \in Blocks
    <3>1. n > cursor /\ n <= cursor + MaxBatch
      BY <2>1 DEF Blocks, SinkTypes
    <3>2. written[p][n] <= failures
      BY <2>1, <3>1 DEF RepeatsFailed
    <3> QED
      BY <2>1, <3>1, <3>2, <1>3
  <2>2. CASE ~(p[1] = table /\ n \in Blocks)
    BY <2>2, <1>3 DEF RepeatsBounded
  <2> QED
    BY <2>1, <2>2
<1> QED
  BY <1>4, <1>5, <1>6, <1>7

(* A failure leaves the batch unfinished, and pays for what it has inserted.    *)
LEMMA FailInsertStep ==
    ASSUME SinkInv, NEW table \in pending, NEW reached \in SUBSET PathsOf(table),
           FailInsert(table, reached)
    PROVE  SinkInv'
<1> USE Sizes DEF SinkInv
<1>1. Write(table, reached)
  BY DEF FailInsert
<1>2. /\ chain' = chain /\ cursor' = cursor /\ batch' = 0 /\ pending' = {}
      /\ failures' = failures + 1 /\ failures < MaxFailures
  BY DEF FailInsert, Restart
<1>3. \A p \in Paths : \A n \in DOMAIN Chains[chain] :
          /\ p[1] = table /\ n \in Blocks =>
                 written'[p][n] \in {written[p][n], written[p][n] + 1}
          /\ ~(p[1] = table /\ n \in Blocks) => written'[p][n] = written[p][n]
  BY <1>1, WriteCounts, PathsBegin
<1>4. SinkTypes'
  BY <1>1, <1>2, WriteCounts, BoundsAssumption DEF SinkTypes
<1>5. Blocks' = {}
  BY <1>2 DEF Blocks
<1>6. AtLeastOnce'
  <2> SUFFICES ASSUME NEW p \in Paths, NEW n \in DOMAIN Chains[chain],
                      TableRows(chain, p[1], {n}) # {}, n <= cursor
               PROVE  written'[p][n] >= 1
    BY <1>2, <1>5 DEF AtLeastOnce
  <2>1. n \notin Blocks
    BY DEF Blocks
  <2> QED
    BY <2>1, <1>3 DEF AtLeastOnce
<1>7. \A p \in Paths : \A n \in DOMAIN Chains[chain] :
          p[1] = table /\ n \in Blocks => written[p][n] <= failures
  BY DEF RepeatsFailed, Blocks
<1>8. \A p \in Paths : \A n \in DOMAIN Chains[chain] :
          /\ written'[p][n] <= 1 + failures
          /\ n > cursor + MaxBatch => written'[p][n] = 0
  <2> SUFFICES ASSUME NEW p \in Paths, NEW n \in DOMAIN Chains[chain]
               PROVE  /\ written'[p][n] <= 1 + failures
                      /\ n > cursor + MaxBatch => written'[p][n] = 0
    OBVIOUS
  <2>1. CASE p[1] = table /\ n \in Blocks
    <3>1. n <= cursor + MaxBatch
      BY <2>1 DEF Blocks, SinkTypes
    <3> QED
      BY <2>1, <3>1, <1>3, <1>7
  <2>2. CASE ~(p[1] = table /\ n \in Blocks)
    BY <2>2, <1>3 DEF RepeatsBounded
  <2> QED
    BY <2>1, <2>2
<1>9. \A p \in Paths : \A n \in DOMAIN Chains[chain] : written'[p][n] \in Nat
  BY <1>2, <1>4 DEF SinkTypes
<1>10. RepeatsFailed'
  BY <1>2, <1>8, <1>9 DEF RepeatsFailed
<1>11. RepeatsBounded'
  BY <1>2, <1>8, <1>9 DEF RepeatsBounded
<1> QED
  BY <1>4, <1>6, <1>10, <1>11

(* The cursor passes a batch of which nothing is pending.                       *)
LEMMA SaveCursorStep ==
    ASSUME SinkInv, SaveCursor
    PROVE  SinkInv'
<1> USE Sizes DEF SinkInv
<1>1. /\ chain' = chain /\ cursor' = cursor + batch /\ batch' = 0 /\ pending = {}
      /\ pending' = pending /\ written' = written /\ failures' = failures
      /\ Blocks' = {}
  BY DEF SaveCursor, Blocks
<1>2. SinkTypes'
  BY <1>1, BoundsAssumption DEF SinkTypes
<1>3. AtLeastOnce'
  <2> SUFFICES ASSUME NEW p \in Paths, NEW n \in DOMAIN Chains[chain],
                      TableRows(chain, p[1], {n}) # {}, n <= cursor + batch
               PROVE  written[p][n] >= 1
    BY <1>1 DEF AtLeastOnce
  <2>1. n <= cursor \/ (n \in Blocks /\ p[1] \notin pending)
    BY <1>1 DEF Blocks
  <2> QED
    BY <2>1 DEF AtLeastOnce
<1>4. RepeatsBounded' /\ RepeatsFailed'
  BY <1>1 DEF RepeatsBounded, RepeatsFailed, Blocks
<1> QED
  BY <1>2, <1>3, <1>4

(* A lost cursor update repeats the whole batch.                                *)
LEMMA FailSaveStep ==
    ASSUME SinkInv, FailSave
    PROVE  SinkInv'
<1> USE Sizes DEF SinkInv
<1>1. /\ chain' = chain /\ cursor' = cursor /\ batch' = 0 /\ pending' = {}
      /\ failures' = failures + 1 /\ failures < MaxFailures /\ written' = written
      /\ Blocks' = {}
  BY DEF FailSave, Restart, Blocks
<1>2. SinkTypes'
  BY <1>1, BoundsAssumption DEF SinkTypes
<1>3. AtLeastOnce'
  BY <1>1 DEF AtLeastOnce
<1>4. RepeatsBounded' /\ RepeatsFailed'
  BY <1>1 DEF RepeatsBounded, RepeatsFailed
<1> QED
  BY <1>2, <1>3, <1>4

(* Nor does a merge change what the sink has done.                              *)
LEMMA QuietStep ==
    ASSUME SinkInv, UNCHANGED <<chain, cursor, batch, pending, written, failures>>
    PROVE  SinkInv'
  BY DEF SinkInv, SinkTypes, AtLeastOnce, RepeatsBounded, RepeatsFailed, Blocks

(* The invariant holds at first ...                                             *)
LEMMA InitIInv == Init => IInv
  BY InitSink, StoredInit DEF IInv

(* ... and every step keeps it, one case per action.                            *)
LEMMA IInvStep == IInv /\ [Next]_vars => IInv'
<1> SUFFICES ASSUME IInv, [Next]_vars PROVE IInv'
  OBVIOUS
<1> USE DEF IInv
<1>1. ASSUME NEW size \in 1 .. MaxBatch, Start(size) PROVE IInv'
  BY <1>1, StartStep, StoredSame DEF Start
<1>2. ASSUME NEW table \in pending, Insert(table) PROVE IInv'
  <2>1. /\ chain' = chain /\ Write(table, PathsOf(table)) /\ table \in RawTables
        /\ PathsOf(table) \in SUBSET PathsOf(table)
    BY <1>2 DEF Insert, Sent, SinkInv, SinkTypes
  <2>2. SinkTypes
    BY DEF SinkInv
  <2>3. Stored' /\ Sighted' /\ Balanced'
    BY <2>1, <2>2, WriteStored
  <2> QED
    BY <1>2, <2>3, InsertStep
<1>3. ASSUME NEW table \in pending, NEW reached \in SUBSET PathsOf(table),
             FailInsert(table, reached)
      PROVE  IInv'
  <2>1. chain' = chain /\ Write(table, reached) /\ table \in RawTables
    BY <1>3 DEF FailInsert, Restart, SinkInv, SinkTypes
  <2>2. SinkTypes
    BY DEF SinkInv
  <2>3. Stored' /\ Sighted' /\ Balanced'
    BY <2>1, <2>2, WriteStored
  <2> QED
    BY <1>3, <2>3, FailInsertStep
<1>4. CASE SaveCursor
  BY <1>4, SaveCursorStep, StoredSame DEF SaveCursor
<1>5. CASE FailSave
  BY <1>5, FailSaveStep, StoredSame DEF FailSave, Restart
<1>6. ASSUME NEW table \in StateTables, Merge(table) PROVE IInv'
  BY <1>6, QuietStep, MergeStored DEF Merge
<1>7. CASE UNCHANGED vars
  BY <1>7, QuietStep, StoredSame DEF vars
<1> QED
  BY <1>1, <1>2, <1>3, <1>4, <1>5, <1>6, <1>7 DEF Next

(* So it always holds.                                                          *)
LEMMA AlwaysIInv == Spec => []IInv
  BY InitIInv, IInvStep, PTL DEF Spec

(* No block behind the saved cursor is missing in any table its rows go to,     *)
(* whatever failed on the way: the sink saves its cursor only after the inserts *)
(* and begins again at it (clickhouse/Makefile, --infinite-retry).              *)
THEOREM NothingLost == Spec => []AtLeastOnce
  BY AlwaysIInv, PTL DEF IInv, SinkInv

(* A failure repeats each row of a table or a view at most once, and only rows  *)
(* of the blocks a batch after the cursor may hold.                             *)
THEOREM RepeatsAreBounded == Spec => []RepeatsBounded
  BY AlwaysIInv, PTL DEF IInv, SinkInv

-------------------------------------------------------------------------------
(* Bars.                                                                        *)

(* What a quotient is.                                                          *)
LEMMA Division ==
    ASSUME NEW m \in Nat \ {0}, NEW x \in Nat
    PROVE  x \div m \in Nat /\ m * (x \div m) <= x /\ x < m * (x \div m) + m
  OBVIOUS

(* A common factor may be left out.                                             *)
LEMMA Factor ==
    ASSUME NEW m \in Nat \ {0}, NEW x \in Int, NEW y \in Int, m * x < m * y
    PROVE  x < y
  OBVIOUS

(* A number between two multiples has the lower one's quotient.                 *)
LEMMA Quotient ==
    ASSUME NEW m \in Nat \ {0}, NEW x \in Nat, NEW q \in Nat, m * q <= x, x < m * q + m
    PROVE  x \div m = q
<1> DEFINE d == x \div m
<1>1. d \in Nat /\ m * d <= x /\ x < m * d + m
  BY Division
<1> HIDE DEF d
<1>2. m * d < m * (q + 1) /\ m * q < m * (d + 1)
  <2>1. m * (q + 1) = m * q + m /\ m * (d + 1) = m * d + m
    BY <1>1
  <2> DEFINE a == m * d
             b == m * q
  <2>2. a \in Int /\ b \in Int
    BY <1>1
  <2> HIDE DEF a, b
  <2>3. a <= x /\ x < b + m /\ b <= x /\ x < a + m
    BY <1>1 DEF a, b
  <2>4. a < b + m /\ b < a + m
    BY <2>2, <2>3
  <2> QED
    BY <2>1, <2>4 DEF a, b
<1>3. d < q + 1
  BY <1>1, <1>2, Factor
<1>4. q < d + 1
  BY <1>1, <1>2, Factor
<1>5. d = q
  BY <1>1, <1>3, <1>4
<1> QED
  BY <1>5 DEF d

(* A multiple leaves no remainder.                                              *)
LEMMA Multiple ==
    ASSUME NEW m \in Nat \ {0}, NEW q \in Nat
    PROVE  (m * q) % m = 0
<1> DEFINE x == m * q
<1>1. x \in Nat /\ m * q <= x /\ x < m * q + m
  OBVIOUS
<1> HIDE DEF x
<1>2. x \div m = q
  BY <1>1, Quotient
<1>3. x = m * (x \div m) + (x % m) /\ x % m \in Int
  BY <1>1
<1>4. x = m * q
  BY DEF x
<1>5. x % m = 0
  BY <1>1, <1>2, <1>3, <1>4
<1> QED
  BY <1>5 DEF x

(* Bars of an interval end where a longer one's do.                             *)
LEMMA BarsOf ==
    ASSUME NEW short \in Nat \ {0}, NEW long \in Nat \ {0}, long % short = 0,
           NEW time \in Nat, NEW other \in Nat
    PROVE  /\ BarOf(short, time) \in BarOf(long, time) .. BarOf(long, time) + long * 60 - 1
           /\ BarOf(short, time) \in BarOf(long, other) .. BarOf(long, other) + long * 60 - 1
                  => BarOf(long, time) = BarOf(long, other)
           /\ BarOf(long, time) \in Nat /\ BarOf(long, time) % (long * 60) = 0
<1> DEFINE S == short * 60
           L == long * 60
           k == long \div short
           a == time \div S
           q == time \div L
           b == other \div L
<1>1. S \in Nat \ {0} /\ L \in Nat \ {0} /\ k \in Nat
  OBVIOUS
<1>2. L = S * k
  <2>1. long = short * k + (long % short)
    OBVIOUS
  <2> HIDE DEF k
  <2>2. long = short * k
    BY <2>1, <1>1
  <2> QED
    BY <2>2, <1>1
<1>3. BarOf(short, time) = a * S /\ BarOf(long, time) = q * L /\ BarOf(long, other) = b * L
  BY DEF BarOf
<1> HIDE DEF S, L, k
<1>4. /\ a \in Nat /\ S * a <= time /\ time < S * a + S
      /\ q \in Nat /\ L * q <= time /\ time < L * q + L
      /\ b \in Nat
  BY <1>1, Division
<1> HIDE DEF a, q, b
<1>5. /\ a * S = S * a /\ q * L = L * q /\ b * L = L * b
      /\ L * q = S * (k * q) /\ L * b = S * (k * b) /\ L * b + L = S * (k * b + k)
      /\ S * a + S = S * (a + 1) /\ k * q \in Nat /\ k * b \in Nat /\ k * b + k \in Nat
      /\ L * b + L = L * (b + 1)
      /\ S * a \in Nat /\ L * q \in Nat /\ L * b \in Nat
  BY <1>1, <1>2, <1>4
<1>6. S * a >= L * q
  <2> DEFINE m == k * q
  <2>1. m \in Nat
    BY <1>5
  <2>2. S * m < S * (a + 1)
    BY <1>1, <1>4, <1>5
  <2> HIDE DEF m
  <2>3. m < a + 1
    BY <1>1, <1>4, <2>1, <2>2, Factor
  <2>4. S * m <= S * a
    BY <1>1, <1>4, <2>1, <2>3
  <2> QED
    BY <2>4, <1>5 DEF m
<1>7. ASSUME S * a >= L * b, S * a < L * b + L PROVE q = b
  <2> DEFINE m == k * b + k
  <2>1. m \in Nat /\ S * a < S * m
    BY <1>5, <1>7
  <2>2. L * b + L = S * m
    BY <1>5
  <2> HIDE DEF m
  <2>3. a < m
    BY <1>1, <1>4, <2>1, Factor
  <2>4. S * (a + 1) <= S * m
    BY <1>1, <1>4, <2>1, <2>3
  <2>5. L * b <= time /\ time < L * b + L
    BY <1>1, <1>4, <1>5, <1>7, <2>2, <2>4
  <2> QED
    BY <2>5, <1>1, <1>4, Quotient DEF q
<1>8. (L * q) % L = 0
  BY <1>1, <1>4, Multiple
<1>9. S * a \in L * q .. L * q + L - 1
  BY <1>1, <1>4, <1>5, <1>6
<1> QED
  BY <1>1, <1>3, <1>5, <1>7, <1>8, <1>9 DEF L

(* The coin of a row's bars in the table at the end of a path.                  *)
CoinOf(p, row) == IF Len(p) = 3 \/ p[2] = "c_deposits_withdrawals" THEN "" ELSE row.coin

(* Which bars a row goes into.                                                  *)
LEMMA HitIs ==
    ASSUME NEW t \in StateTables, NEW p \in PathsTo(t), NEW row, NEW key
    PROVE  key \in KeysHit(p, row) <=>
               /\ Passes(p[2], row) /\ key[1] \in Intervals
               /\ key = <<key[1], CoinOf(p, row), BarOf(key[1], row.time)>>
<1> DEFINE coin == IF p[2] = "c_deposits_withdrawals" THEN "" ELSE row.coin
<1>1. Len(p) = 2 \/ Len(p) = 3
  BY PathFacts
<1>2. KeysOf(p[2], row) = {<<interval, coin, BarOf(interval, row.time)>> : interval \in Intervals}
  BY DEF KeysOf
<1>3. CASE Len(p) = 2
  <2>1. KeysHit(p, row) = (IF Passes(p[2], row) THEN KeysOf(p[2], row) ELSE {})
    BY <1>3 DEF KeysHit
  <2>2. CoinOf(p, row) = coin
    BY <1>3 DEF CoinOf
  <2> HIDE DEF coin
  <2> QED
    BY <1>2, <2>1, <2>2
<1>4. CASE Len(p) = 3
  <2>1. \A k : k \in KeysHit(p, row) <=>
                  Passes(p[2], row) /\ \E j \in KeysOf(p[2], row) : k = <<j[1], "", j[3]>>
    <3>1. CASE Passes(p[2], row)
      BY <1>4, <3>1 DEF KeysHit
    <3>2. CASE ~Passes(p[2], row)
      BY <1>4, <3>2 DEF KeysHit
    <3> QED
      BY <3>1, <3>2
  <2>2. CoinOf(p, row) = ""
    BY <1>4 DEF CoinOf
  <2>3. \A j \in KeysOf(p[2], row) : j[1] \in Intervals /\ j[3] = BarOf(j[1], row.time)
    BY OneBar
  <2> HIDE DEF coin
  <2>4. ASSUME NEW i \in Intervals
        PROVE  \E j \in KeysOf(p[2], row) : j[1] = i /\ j[3] = BarOf(i, row.time)
    <3> DEFINE bar == BarOf(i, row.time)
               j == <<i, coin, bar>>
    <3>1. j \in KeysOf(p[2], row)
      BY <1>2
    <3>2. j[1] = i /\ j[3] = bar
      OBVIOUS
    <3> HIDE DEF j
    <3> QED
      BY <3>1, <3>2
  <2>5. ASSUME key \in KeysHit(p, row)
        PROVE  /\ Passes(p[2], row) /\ key[1] \in Intervals
               /\ key = <<key[1], CoinOf(p, row), BarOf(key[1], row.time)>>
    <3>1. PICK j \in KeysOf(p[2], row) : key = <<j[1], "", j[3]>>
      BY <2>1, <2>5
    <3>2. j[1] \in Intervals /\ j[3] = BarOf(j[1], row.time) /\ key[1] = j[1]
      BY <2>3, <3>1
    <3>3. Passes(p[2], row)
      BY <2>1, <2>5
    <3> QED
      BY <2>2, <3>1, <3>2, <3>3
  <2>6. ASSUME Passes(p[2], row), key[1] \in Intervals,
               key = <<key[1], CoinOf(p, row), BarOf(key[1], row.time)>>
        PROVE  key \in KeysHit(p, row)
    <3>1. PICK k \in KeysOf(p[2], row) : k[1] = key[1] /\ k[3] = BarOf(key[1], row.time)
      BY <2>4, <2>6
    <3>2. key = <<k[1], "", k[3]>>
      BY <2>2, <2>6, <3>1
    <3> QED
      BY <2>1, <2>6, <3>1, <3>2
  <2> QED
    BY <2>5, <2>6
<1> QED
  BY <1>1, <1>3, <1>4

(* The partial rows are of bars.                                                *)
LEMMA BarsAreBars ==
    ASSUME IInv, NEW t \in StateTables, NEW r \in DOMAIN state[t]
    PROVE  r.key[1] \in Intervals /\ r.key[3] % (r.key[1] * 60) = 0
<1>1. PICK s \in r.seen : TRUE
  BY DEF IInv, Stored, StoredBag
<1>2. PICK x \in Deliveries(t) : r.key \in KeysHit(x[1], x[3])
  BY <1>1 DEF IInv, Sighted
<1>3. chain \in DOMAIN Chains
  BY DEF IInv, SinkInv, SinkTypes
<1>4. x[1] \in PathsTo(t) /\ x[3].time \in Nat
  BY <1>3, DeliveryFacts DEF WellTyped
<1>5. r.key[1] \in Intervals /\ r.key[3] = BarOf(r.key[1], x[3].time)
  <2> DEFINE key == r.key
             p == x[1]
             row == x[3]
  <2> HIDE DEF key, p, row
  <2>1. key \in KeysHit(p, row) /\ p \in PathsTo(t)
    BY <1>2, <1>4 DEF key, p, row
  <2>2. key[1] \in Intervals /\ key = <<key[1], CoinOf(p, row), BarOf(key[1], row.time)>>
    BY <2>1, HitIs
  <2>3. key[1] \in Intervals /\ key[3] = BarOf(key[1], row.time)
    BY <2>2
  <2> QED
    BY <2>3 DEF key, row
<1> DEFINE i == r.key[1]
           bar == r.key[3]
           time == x[3].time
<1>6. i \in Nat \ {0}
  BY <1>5, IntervalsAssumption
<1> HIDE DEF i, bar, time
<1>7. i % i = 0
  BY <1>6
<1>8. bar = BarOf(i, time) /\ time \in Nat
  BY <1>5, <1>4 DEF i, bar, time
<1>9. BarOf(i, time) % (i * 60) = 0
  BY <1>6, <1>7, <1>8, BarsOf
<1> QED
  BY <1>5, <1>8, <1>9 DEF i, bar

(* The type invariant follows.                                                  *)
LEMMA IInvTypes == IInv => TypeOK
<1> SUFFICES ASSUME IInv PROVE TypeOK
  OBVIOUS
<1>1. SinkTypes /\ RepeatsBounded /\ Stored
  BY DEF IInv, SinkInv
<1>2. \A t \in StateTables :
          /\ IsABag(state[t])
          /\ \A r \in DOMAIN state[t] : /\ r.key[1] \in Intervals
                                        /\ r.key[3] % (r.key[1] * 60) = 0
  BY <1>1, BarsAreBars DEF Stored, StoredBag
<1>3. \A p \in Paths : \A n \in DOMAIN Chains[chain] : written[p][n] \in 0 .. 1 + MaxFailures
  <2> SUFFICES ASSUME NEW p \in Paths, NEW n \in DOMAIN Chains[chain]
               PROVE  written[p][n] \in 0 .. 1 + MaxFailures
    OBVIOUS
  <2>1. written[p][n] \in Nat /\ written[p][n] <= 1 + failures /\ failures \in 0 .. MaxFailures
    BY <1>1 DEF SinkTypes, RepeatsBounded
  <2> QED
    BY <2>1, BoundsAssumption
<1>4. written \in [Paths -> [DOMAIN Chains[chain] -> 0 .. 1 + MaxFailures]]
  BY <1>1, <1>3 DEF SinkTypes
<1> QED
  BY <1>1, <1>2, <1>4 DEF SinkTypes, TypeOK

(* Every variable has its type: a block is written along a path at most once    *)
(* more than there are failures allowed, the state tables are bags, and their   *)
(* bars begin at multiples of their interval (BarOf;                            *)
(* schema.2.mv.state_ohlcv_fills.sql:82).                                       *)
THEOREM TypeCorrect == Spec => []TypeOK
  BY AlwaysIInv, IInvTypes, PTL

-------------------------------------------------------------------------------
(* What is distinct is exact.                                                   *)

(* What is seen in some rows, by bar, and whether a value is.                   *)
SeenBy(rows) ==
    {<<key, UNION {r.seen : r \in {x \in rows : x.key = key}}>> : key \in {r.key : r \in rows}}
SeenIn(rows, key, s) == \E r \in rows : r.key = key /\ s \in r.seen

(* What is seen, bar by bar, depends only on what is seen in which bar.         *)
LEMMA SeenByIncludes ==
    ASSUME NEW A, NEW B, \A r \in A : r.seen # {},
           \A key, s : SeenIn(A, key, s) <=> SeenIn(B, key, s)
    PROVE  SeenBy(A) \subseteq SeenBy(B)
<1> DEFINE All(rows, key) == UNION {r.seen : r \in {x \in rows : x.key = key}}
<1>1. \A rows, key, s : s \in All(rows, key) <=> SeenIn(rows, key, s)
  BY DEF SeenIn
<1>2. \A rows, k : k \in SeenBy(rows) <=> \E r \in rows : k = <<r.key, All(rows, r.key)>>
  BY DEF SeenBy
<1> HIDE DEF All
<1>3. ASSUME NEW k \in SeenBy(A) PROVE k \in SeenBy(B)
  <2>1. PICK r \in A : k = <<r.key, All(A, r.key)>>
    BY <1>2
  <2>2. PICK s : s \in r.seen
    OBVIOUS
  <2>3. SeenIn(A, r.key, s)
    BY <2>2 DEF SeenIn
  <2>4. SeenIn(B, r.key, s)
    BY <2>3
  <2>5. PICK q \in B : q.key = r.key
    BY <2>4 DEF SeenIn
  <2>6. All(A, r.key) = All(B, r.key)
    BY <1>1
  <2> QED
    BY <1>2, <2>1, <2>5, <2>6
<1> QED
  BY <1>3

(* What a reader sees in a bar has been stored there.                           *)
LEMMA SeenInMerged ==
    ASSUME NEW t \in StateTables, NEW bag, StoredBag(t, bag)
    PROVE  /\ \A r \in Merged(bag) : r.seen # {}
           /\ \A key, s : SeenIn(Merged(bag), key, s) <=> Seen(bag, key, s)
<1>1. Merged(bag) = {Whole(t, bag, key) : key \in Bars(bag)}
  BY MergedIs
<1>2. \A key : /\ Whole(t, bag, key).key = key
               /\ \A s : s \in Whole(t, bag, key).seen <=> Seen(bag, key, s)
               /\ key \in Bars(bag) <=> \E s : Seen(bag, key, s)
  BY WholeFacts
<1> DEFINE made == Merged(bag)
<1>3. \A r : r \in made <=> \E key \in Bars(bag) : r = Whole(t, bag, key)
  BY <1>1
<1> HIDE DEF made
<1>4. \A r \in made : r.seen # {}
  BY <1>2, <1>3
<1>5. \A key, s : SeenIn(made, key, s) <=> Seen(bag, key, s)
  BY <1>2, <1>3 DEF SeenIn
<1> QED
  BY <1>4, <1>5 DEF made

(* The rows of a path's table in all blocks are what is delivered along it.     *)
LEMMA AllRows ==
    ASSUME chain \in DOMAIN Chains, NEW t \in StateTables, NEW p \in PathsTo(t)
    PROVE  /\ Proper(p[1], TableRows(chain, p[1], DOMAIN Chains[chain]))
           /\ \A row : row \in TableRows(chain, p[1], DOMAIN Chains[chain]) <=>
                           \E n \in DOMAIN Chains[chain] : row \in TableRows(chain, p[1], {n})
<1>1. Proper(p[1], TableRows(chain, p[1], DOMAIN Chains[chain]))
  BY RowsFacts
<1>2. \A row, blocks : row \in TableRows(chain, p[1], blocks) <=>
                           \E n \in blocks : row \in RowsOf(chain, n) /\ row.table = p[1]
  BY DEF TableRows
<1>3. \A row, n : row \in TableRows(chain, p[1], {n}) <=>
                      row \in RowsOf(chain, n) /\ row.table = p[1]
  BY <1>2
<1> QED
  BY <1>1, <1>2, <1>3

AllParts(t) == UNION {PartsOf(p, DOMAIN Chains[chain]) : p \in PathsTo(t)}

(* What the views would show of all blocks is what is delivered, when all has   *)
(* been.                                                                        *)
LEMMA SeenInAll ==
    ASSUME chain \in DOMAIN Chains, NEW t \in StateTables,
           \A x \in Deliveries(t) : Times(x) > 0
    PROVE  /\ \A r \in AllParts(t) : r.seen # {}
           /\ \A key, s : SeenIn(AllParts(t), key, s) <=> Delivered(t, key, s)
<1> DEFINE rows(p) == TableRows(chain, p[1], DOMAIN Chains[chain])
<1>1. ASSUME NEW p \in PathsTo(t)
      PROVE  /\ Proper(p[1], rows(p))
             /\ PartsOf(p, DOMAIN Chains[chain]) =
                    {PartFor(p, rows(p), key) : key \in KeysOfAll(p, rows(p))}
  <2>1. Proper(p[1], rows(p))
    BY AllRows
  <2>2. PartsOf(p, DOMAIN Chains[chain]) = Along(p, rows(p))
    BY DEF PartsOf
  <2> HIDE DEF rows
  <2> QED
    BY <2>1, <2>2, AlongParts
<1>2. \A p \in PathsTo(t) : \A row :
          row \in rows(p) <=> \E n \in DOMAIN Chains[chain] : row \in TableRows(chain, p[1], {n})
  BY AllRows
<1> HIDE DEF rows
<1>3. ASSUME NEW p \in PathsTo(t), NEW key
      PROVE  /\ PartFor(p, rows(p), key).key = key
             /\ \A s : s \in PartFor(p, rows(p), key).seen <=>
                           \E row \in rows(p) : key \in KeysHit(p, row) /\ s = SightOf(p, row)
             /\ key \in KeysOfAll(p, rows(p)) => PartFor(p, rows(p), key).seen # {}
  <2>1. Proper(p[1], rows(p))
    BY <1>1
  <2> QED
    BY <2>1, PartFacts
<1>4. \A r : r \in AllParts(t) <=>
                 \E p \in PathsTo(t) : \E key \in KeysOfAll(p, rows(p)) :
                     r = PartFor(p, rows(p), key)
  <2>1. \A r : r \in AllParts(t) <=>
                   \E p \in PathsTo(t) : r \in PartsOf(p, DOMAIN Chains[chain])
    BY DEF AllParts
  <2> QED
    BY <2>1, <1>1
<1>5. \A r \in AllParts(t) : r.seen # {}
  BY <1>3, <1>4
<1>6. ASSUME NEW key, NEW s, SeenIn(AllParts(t), key, s) PROVE Delivered(t, key, s)
  <2>1. PICK r \in AllParts(t) : r.key = key /\ s \in r.seen
    BY <1>6 DEF SeenIn
  <2>2. PICK p \in PathsTo(t) : \E k \in KeysOfAll(p, rows(p)) : r = PartFor(p, rows(p), k)
    BY <1>4
  <2>3. r = PartFor(p, rows(p), key)
    BY <2>1, <2>2, <1>3
  <2>4. PICK row \in rows(p) : key \in KeysHit(p, row) /\ s = SightOf(p, row)
    BY <2>1, <2>3, <1>3
  <2>5. PICK n \in DOMAIN Chains[chain] : row \in TableRows(chain, p[1], {n})
    BY <1>2
  <2> DEFINE x == <<p, n, row>>
  <2>6. x \in Deliveries(t)
    BY <2>5, DeliveryFacts
  <2>7. x[1] = p /\ x[3] = row
    OBVIOUS
  <2> HIDE DEF x
  <2> QED
    BY <2>4, <2>6, <2>7 DEF Delivered
<1>7. ASSUME NEW key, NEW s, Delivered(t, key, s) PROVE SeenIn(AllParts(t), key, s)
  <2>1. PICK x \in Deliveries(t) : key \in KeysHit(x[1], x[3]) /\ s = SightOf(x[1], x[3])
    BY <1>7 DEF Delivered
  <2> DEFINE p == x[1]
             row == x[3]
  <2>2. p \in PathsTo(t) /\ row \in TableRows(chain, p[1], {x[2]}) /\ x[2] \in DOMAIN Chains[chain]
    BY DeliveryFacts
  <2>3. key \in KeysHit(p, row) /\ s = SightOf(p, row)
    BY <2>1
  <2> HIDE DEF p, row
  <2>4. row \in rows(p)
    BY <2>2, <1>2
  <2>5. key \in KeysOfAll(p, rows(p))
    BY <2>3, <2>4 DEF KeysOfAll
  <2>6. PartFor(p, rows(p), key) \in AllParts(t)
    BY <2>2, <2>5, <1>4
  <2>7. PartFor(p, rows(p), key).key = key /\ s \in PartFor(p, rows(p), key).seen
    BY <2>2, <2>3, <2>4, <1>3
  <2> QED
    BY <2>6, <2>7 DEF SeenIn
<1> QED
  BY <1>5, <1>6, <1>7

(* At the end every delivery has been made (AtLeastOnce).                       *)
LEMMA IInvDistinct == IInv => DistinctExact
<1> SUFFICES ASSUME IInv, cursor = Len(Chains[chain]), NEW t \in StateTables
             PROVE  SeenBy(Merged(state[t])) = SeenBy(AllParts(t))
  BY DEF DistinctExact, SeenBy, AllParts, PathsTo
<1>1. SinkTypes /\ AtLeastOnce /\ Sighted /\ StoredBag(t, state[t]) /\ chain \in DOMAIN Chains
  BY DEF IInv, SinkInv, Stored, SinkTypes
<1>2. ASSUME NEW x \in Deliveries(t) PROVE Times(x) > 0
  <2>1. /\ x[1] \in Paths /\ x[2] \in DOMAIN Chains[chain]
        /\ x[3] \in TableRows(chain, x[1][1], {x[2]})
    BY <1>1, DeliveryFacts
  <2>2. x[2] <= cursor /\ written[x[1]][x[2]] \in Nat
    BY <1>1, <2>1, Sizes
  <2>3. written[x[1]][x[2]] >= 1
    BY <1>1, <2>1, <2>2 DEF AtLeastOnce
  <2> QED
    BY <2>2, <2>3 DEF Times
<1> DEFINE merged == Merged(state[t])
           all == AllParts(t)
           bag == state[t]
<1>3. /\ \A r \in merged : r.seen # {}
      /\ \A key, s : SeenIn(merged, key, s) <=> Seen(bag, key, s)
  BY <1>1, SeenInMerged
<1>4. /\ \A r \in all : r.seen # {}
      /\ \A key, s : SeenIn(all, key, s) <=> Delivered(t, key, s)
  BY <1>1, <1>2, SeenInAll
<1>5. \A key, s : Seen(bag, key, s) <=> Delivered(t, key, s)
  BY <1>1, SeenIs
<1> HIDE DEF merged, all, bag
<1>6. \A key, s : SeenIn(merged, key, s) <=> SeenIn(all, key, s)
  BY <1>3, <1>4, <1>5
<1>7. SeenBy(merged) \subseteq SeenBy(all)
  BY <1>3, <1>6, SeenByIncludes
<1>8. SeenBy(all) \subseteq SeenBy(merged)
  BY <1>4, <1>6, SeenByIncludes
<1> QED
  BY <1>7, <1>8 DEF merged, all

(* When the chain is ingested, the distinct users and coins, the first and      *)
(* last times and the highest and lowest prices of every bar are exactly those  *)
(* of the chain, however often inserts failed half-way and blocks were          *)
(* inserted again (uniq, min and max in the AggregatingMergeTrees of            *)
(* clickhouse/schema.2).                                                        *)
THEOREM DistinctAreExact == Spec => []DistinctExact
  BY AlwaysIInv, IInvDistinct, PTL

-------------------------------------------------------------------------------
(* The aggregates are those of a batch.                                         *)

(* The deliveries that went into a bar, and what each of them adds to a column. *)
Arrived(t, key) == {x \in Deliveries(t) : key \in KeysHit(x[1], x[3]) /\ Times(x) > 0}
Adds(t, f, c) == \A x \in Deliveries(t) : f[x] = Times(x) * ValueOf(x[1], x[3])[c]

(* What a bar is owed is a sum over what arrived.                               *)
LEMMA OwedIs ==
    ASSUME SinkTypes, NEW t \in StateTables, NEW key, NEW c \in Columns(t),
           NEW f, Adds(t, f, c)
    PROVE  /\ IsFiniteSet(Arrived(t, key))
           /\ \A x \in Deliveries(t) :
                 Times(x) \in Nat /\ ValueOf(x[1], x[3])[c] \in Int /\ f[x] \in Int
           /\ Owed(t, key, c) = SumOver(f, Arrived(t, key))
<1> DEFINE X == Deliveries(t)
           E == {x \in X : key \in KeysHit(x[1], x[3])}
           g == [x \in X |-> Times(x) * ValueOf(x[1], x[3])[c]]
           T == Arrived(t, key)
<1>1. chain \in DOMAIN Chains
  BY DEF SinkTypes
<1>2. IsFiniteSet(X) /\ IsFiniteSet(E) /\ T \subseteq E /\ E \subseteq X /\ IsFiniteSet(T)
  <2>1. IsFiniteSet(X) /\ T \subseteq E /\ E \subseteq X /\ T \subseteq X
    BY <1>1, DeliveryFacts DEF Arrived
  <2> HIDE DEF X, E, T
  <2> QED
    BY <2>1, FS_Subset
<1>3. ASSUME NEW x \in X
      PROVE  Times(x) \in Nat /\ ValueOf(x[1], x[3])[c] \in Int /\ f[x] \in Int /\ f[x] = g[x]
  <2>1. /\ x[1] \in Paths /\ x[2] \in DOMAIN Chains[chain]
        /\ ValueOf(x[1], x[3]) \in [Columns(t) -> Int]
    BY <1>1, DeliveryFacts
  <2>2. Times(x) \in Nat
    BY <2>1, Sizes DEF Times
  <2>3. ValueOf(x[1], x[3])[c] \in Int
    BY <2>1
  <2>4. f[x] = Times(x) * ValueOf(x[1], x[3])[c]
    BY DEF Adds
  <2> DEFINE v == ValueOf(x[1], x[3])[c]
             m == Times(x)
  <2>5. g[x] = m * v
    OBVIOUS
  <2> HIDE DEF v, m, g
  <2>6. m \in Nat /\ v \in Int /\ f[x] = m * v
    BY <2>2, <2>3, <2>4 DEF m, v
  <2>7. f[x] \in Int /\ f[x] = g[x]
    BY <2>5, <2>6
  <2> QED
    BY <2>2, <2>3, <2>7
<1>4. Owed(t, key, c) = SumOver(g, E)
  BY DEF Owed
<1>5. \A x \in E \ T : f[x] = 0
  <2> SUFFICES ASSUME NEW x \in E \ T PROVE f[x] = 0
    OBVIOUS
  <2>1. ~(Times(x) > 0) /\ Times(x) \in Nat
    BY <1>3 DEF Arrived
  <2>2. Times(x) = 0
    BY <2>1
  <2> DEFINE v == ValueOf(x[1], x[3])[c]
  <2>3. v \in Int /\ f[x] = Times(x) * v
    BY <1>3 DEF Adds
  <2> HIDE DEF v
  <2> QED
    BY <2>2, <2>3
<1> HIDE DEF g, E, T, X
<1>6. SumOver(g, E) = SumOver(f, E)
  BY <1>2, <1>3, SumSame
<1>7. SumOver(f, E) = SumOver(f, T)
  BY <1>2, <1>3, <1>5, SumOfSome
<1> QED
  BY <1>2, <1>3, <1>4, <1>6, <1>7 DEF X, T

(* The parts of a bar that the views make of single blocks.                     *)
RowsAlong(p, n) == TableRows(chain, p[1], {n})
PartAt(x, key) == <<x[1], x[2], PartFor(x[1], RowsAlong(x[1], x[2]), key)>>
PartsAt(t, key) == {PartAt(x, key) : x \in Arrived(t, key)}

(* What such a part is made of.                                                 *)
LEMMA PartsAtFacts ==
    ASSUME SinkTypes, NEW t \in StateTables, NEW key, NEW y \in PartsAt(t, key)
    PROVE  /\ y[1] \in PathsTo(t) /\ y[2] \in DOMAIN Chains[chain] /\ written[y[1]][y[2]] \in Nat
           /\ y = <<y[1], y[2], PartFor(y[1], RowsAlong(y[1], y[2]), key)>>
           /\ written[y[1]][y[2]] > 0 /\ Proper(y[1][1], RowsAlong(y[1], y[2]))
           /\ \A row : row \in Hitting(y[1], RowsAlong(y[1], y[2]), key) <=>
                           \E x \in Arrived(t, key) : x[1] = y[1] /\ x[2] = y[2] /\ x[3] = row
<1>1. chain \in DOMAIN Chains
  BY DEF SinkTypes
<1>2. PICK x \in Arrived(t, key) : y = PartAt(x, key)
  BY DEF PartsAt
<1>3. x \in Deliveries(t) /\ Times(x) > 0
  BY DEF Arrived
<1>4. x[1] \in PathsTo(t) /\ x[1] \in Paths /\ x[2] \in DOMAIN Chains[chain]
  BY <1>1, <1>3, DeliveryFacts
<1>5. y[1] = x[1] /\ y[2] = x[2]
  BY <1>2 DEF PartAt
<1>6. y = <<y[1], y[2], PartFor(y[1], RowsAlong(y[1], y[2]), key)>>
  BY <1>2, <1>5 DEF PartAt
<1>7. written[y[1]][y[2]] \in Nat /\ written[y[1]][y[2]] > 0
  BY <1>3, <1>4, <1>5, Sizes DEF Times
<1> DEFINE p == y[1]
           n == y[2]
           rows == RowsAlong(p, n)
<1>8. p \in PathsTo(t) /\ n \in DOMAIN Chains[chain] /\ written[p][n] > 0
  BY <1>4, <1>5, <1>7
<1> HIDE DEF p, n
<1>9. rows = TableRows(chain, p[1], {n})
  BY DEF RowsAlong
<1> HIDE DEF rows
<1>10. Proper(p[1], rows)
  <2>1. {n} \in SUBSET DOMAIN Chains[chain]
    BY <1>8
  <2> QED
    BY <1>1, <1>9, <2>1, RowsFacts
<1>11. ASSUME NEW row \in Hitting(p, rows, key)
       PROVE  \E z \in Arrived(t, key) : z[1] = p /\ z[2] = n /\ z[3] = row
  <2> DEFINE z == <<p, n, row>>
  <2>1. z \in Deliveries(t)
    BY <1>1, <1>8, <1>9, DeliveryFacts DEF Hitting
  <2>2. z[1] = p /\ z[2] = n /\ z[3] = row
    OBVIOUS
  <2> HIDE DEF z
  <2>3. key \in KeysHit(z[1], z[3]) /\ Times(z) > 0
    BY <1>8, <2>2 DEF Hitting, Times
  <2> QED
    BY <2>1, <2>2, <2>3 DEF Arrived
<1>12. ASSUME NEW z \in Arrived(t, key), z[1] = p, z[2] = n
       PROVE  z[3] \in Hitting(p, rows, key)
  <2>1. z \in Deliveries(t) /\ key \in KeysHit(z[1], z[3])
    BY DEF Arrived
  <2>2. z[3] \in TableRows(chain, z[1][1], {z[2]})
    BY <1>1, <2>1, DeliveryFacts
  <2>3. z[3] \in rows
    BY <2>2, <1>12, <1>9
  <2> QED
    BY <2>1, <2>3, <1>12 DEF Hitting
<1>13. \A row : row \in Hitting(p, rows, key) <=>
                    \E z \in Arrived(t, key) : z[1] = p /\ z[2] = n /\ z[3] = row
  BY <1>11, <1>12
<1> QED
  BY <1>6, <1>7, <1>8, <1>10, <1>13 DEF p, n, rows

(* What a bar is owed is what those parts hold, as often as they were written.  *)
LEMMA OwedByParts ==
    ASSUME SinkTypes, NEW t \in StateTables, NEW key, NEW c \in Columns(t),
           NEW value, \A y \in PartsAt(t, key) : value[y] = written[y[1]][y[2]] * y[3].sum[c]
    PROVE  Owed(t, key, c) = SumOver(value, PartsAt(t, key))
<1> DEFINE X == Deliveries(t)
           A == Arrived(t, key)
           G == PartsAt(t, key)
           f == [x \in X |-> Times(x) * ValueOf(x[1], x[3])[c]]
           u == [x \in X |-> ValueOf(x[1], x[3])[c]]
           of(y) == {x \in A : x[1] = y[1] /\ x[2] = y[2]}
           part == [y \in G |-> of(y)]
<1>1. Adds(t, f, c)
  BY DEF Adds
<1>2. /\ IsFiniteSet(A) /\ A \subseteq X
      /\ \A x \in X : Times(x) \in Nat /\ u[x] \in Int /\ f[x] \in Int
      /\ Owed(t, key, c) = SumOver(f, A)
  <2>1. \A x \in X : u[x] = ValueOf(x[1], x[3])[c]
    OBVIOUS
  <2> HIDE DEF f, u
  <2> QED
    BY <1>1, <2>1, OwedIs DEF Arrived
<1>3. IsFiniteSet(G)
  <2> DEFINE k == [x \in A |-> PartAt(x, key)]
  <2>1. G = {k[x] : x \in A}
    BY DEF PartsAt
  <2> HIDE DEF k, G, A
  <2> QED
    BY <1>2, <2>1, ImageIsFinite
<1>4. Partition(part, G, A)
  <2>1. \A y \in G : part[y] \subseteq A
    OBVIOUS
  <2>2. ASSUME NEW x \in A PROVE \E y \in G : x \in part[y]
    <3>1. PartAt(x, key) \in G
      BY DEF PartsAt
    <3>2. x \in of(PartAt(x, key))
      BY DEF PartAt
    <3> QED
      BY <3>1, <3>2
  <2>3. ASSUME NEW x \in A, NEW y \in G, NEW z \in G, x \in part[y], x \in part[z]
        PROVE  y = z
    <3>1. y[1] = z[1] /\ y[2] = z[2]
      BY <2>3
    <3>2. /\ y = <<y[1], y[2], PartFor(y[1], RowsAlong(y[1], y[2]), key)>>
          /\ z = <<z[1], z[2], PartFor(z[1], RowsAlong(z[1], z[2]), key)>>
      BY PartsAtFacts
    <3> QED
      BY <3>1, <3>2
  <2> HIDE DEF part, G, A
  <2> QED
    BY <2>1, <2>2, <2>3 DEF Partition
<1>5. ASSUME NEW y \in G PROVE value[y] = SumOver(f, part[y])
  <2> DEFINE p == y[1]
             n == y[2]
             rows == RowsAlong(p, n)
             S == of(y)
             H == Hitting(p, rows, key)
             m == written[p][n]
             h == [x \in X |-> x[3]]
             g == [row \in rows |-> ValueOf(p, row)[c]]
  <2>1. /\ p \in PathsTo(t) /\ n \in DOMAIN Chains[chain] /\ m \in Nat
        /\ y = <<p, n, PartFor(p, rows, key)>> /\ Proper(p[1], rows)
        /\ \A row : row \in H <=> \E x \in A : x[1] = p /\ x[2] = n /\ x[3] = row
    BY PartsAtFacts
  <2>2. part[y] = S /\ S \subseteq A /\ S \subseteq X /\ IsFiniteSet(S)
    <3>1. part[y] = S /\ S \subseteq A /\ S \subseteq X
      BY <1>2
    <3> HIDE DEF S, part, A
    <3> QED
      BY <3>1, <1>2, FS_Subset
  <2>3. ASSUME NEW x \in S
        PROVE  /\ x = <<p, n, x[3]>> /\ x[3] \in H /\ h[x] = x[3] /\ u[x] \in Int /\ f[x] = m * u[x]
               /\ g[x[3]] = u[x]
    <3>1. x \in A /\ x \in X /\ x[1] = p /\ x[2] = n
      BY <1>2
    <3>2. x = <<x[1], x[2], x[3]>>
      <4>1. chain \in DOMAIN Chains
        BY DEF SinkTypes
      <4> QED
        BY <3>1, <4>1, DeliveryFacts
    <3>3. x = <<p, n, x[3]>>
      BY <3>1, <3>2
    <3>4. x[3] \in H
      BY <2>1, <3>1
    <3>5. h[x] = x[3] /\ u[x] = ValueOf(p, x[3])[c] /\ f[x] = Times(x) * u[x] /\ u[x] \in Int
      BY <1>2, <3>1
    <3>6. Times(x) = m
      BY <3>1 DEF Times
    <3>7. g[x[3]] = ValueOf(p, x[3])[c]
      BY <3>4 DEF Hitting
    <3> QED
      BY <3>3, <3>4, <3>5, <3>6, <3>7
  <2>4. \A row \in H : \E x \in S : h[x] = row
    <3> SUFFICES ASSUME NEW row \in H PROVE \E x \in S : h[x] = row
      OBVIOUS
    <3>1. PICK x \in A : x[1] = p /\ x[2] = n /\ x[3] = row
      BY <2>1
    <3>2. x \in S
      BY <3>1
    <3>3. h[x] = row
      BY <2>3, <3>1, <3>2
    <3> QED
      BY <3>2, <3>3
  <2>5. IsFiniteSet(H) /\ H \subseteq rows
    <3>1. IsFiniteSet(rows) /\ H \subseteq rows
      BY <2>1 DEF Proper, Hitting
    <3> HIDE DEF H, rows
    <3> QED
      BY <3>1, FS_Subset
  <2>6. SumOver(g, H) = Brought(p, rows, key, c)
    BY DEF Brought
  <2>7. Brought(p, rows, key, c) = PartFor(p, rows, key).sum[c]
    BY <2>1, PartColumn
  <2>8. value[y] = m * y[3].sum[c] /\ y[3] = PartFor(p, rows, key)
    <3>1. y[3] = PartFor(p, rows, key)
      BY <2>1
    <3> QED
      BY <3>1
  <2>9. ASSUME NEW x \in S, NEW z \in S, h[x] = h[z] PROVE x = z
    <3>1. h[x] = x[3] /\ h[z] = z[3] /\ x = <<p, n, x[3]>> /\ z = <<p, n, z[3]>>
      BY <2>3
    <3> QED
      BY <2>9, <3>1
  <2> HIDE DEF X, A, G, f, u, of, part, rows, S, H, m, h, g, p, n
  <2>10. SumOver(f, S) = m * SumOver(u, S)
    BY <2>1, <2>2, <2>3, SumTimes
  <2>11. \A x \in S : h[x] \in H /\ g[h[x]] = u[x]
    BY <2>3
  <2>12. \A x \in S : u[x] \in Int
    BY <2>3
  <2>13. SumOver(u, S) = SumOver(g, H)
    BY <2>2, <2>4, <2>5, <2>9, <2>11, <2>12, SumRenamed
  <2> QED
    BY <2>2, <2>6, <2>7, <2>8, <2>10, <2>13
<1>6. PartSums(value, G, f, part)
  <2> HIDE DEF part, f, G
  <2> QED
    BY <1>5 DEF PartSums
<1>7. \A x \in A : f[x] \in Int
  BY <1>2
<1> HIDE DEF X, A, G, f, u, of, part
<1>8. SumOver(f, A) = SumOver(value, G)
  BY <1>2, <1>3, <1>4, <1>6, <1>7, SumOfParts
<1> QED
  BY <1>2, <1>8 DEF G

(* The parts of all bars of a table, and the bar they make.                     *)
WrittenParts(t) ==
    UNION { UNION { {<<p, n, r>> : r \in PartsOf(p, {n})} :
                    n \in {m \in DOMAIN Chains[chain] : written[p][m] > 0} } :
            p \in PathsTo(t) }
WrittenBar(key, group) ==
    [key |-> key,
     sum |-> Total([x \in group |-> [c \in DOMAIN x[3].sum |->
                       written[x[1]][x[2]] * x[3].sum[c]]]),
     seen |-> UNION {x[3].seen : x \in group}]

(* The parts of a bar among the parts of all bars.                              *)
LEMMA WrittenAre ==
    ASSUME SinkTypes, NEW t \in StateTables, NEW key
    PROVE  {x \in WrittenParts(t) : x[3].key = key} = PartsAt(t, key)
<1>1. chain \in DOMAIN Chains
  BY DEF SinkTypes
<1>2. ASSUME NEW p \in PathsTo(t), NEW n \in DOMAIN Chains[chain]
      PROVE  /\ PartsOf(p, {n}) =
                    {PartFor(p, RowsAlong(p, n), k) : k \in KeysOfAll(p, RowsAlong(p, n))}
             /\ Proper(p[1], RowsAlong(p, n))
             /\ \A k : PartFor(p, RowsAlong(p, n), k).key = k
  <2> DEFINE rows == RowsAlong(p, n)
  <2>1. rows = TableRows(chain, p[1], {n}) /\ {n} \in SUBSET DOMAIN Chains[chain]
    BY DEF RowsAlong
  <2>2. PartsOf(p, {n}) = Along(p, rows)
    BY <2>1 DEF PartsOf
  <2> HIDE DEF rows
  <2>3. Proper(p[1], rows)
    BY <1>1, <2>1, RowsFacts
  <2>4. Along(p, rows) = {PartFor(p, rows, k) : k \in KeysOfAll(p, rows)}
    BY <2>3, AlongParts
  <2>5. \A k : PartFor(p, rows, k).key = k
    BY <2>3, PartFacts
  <2> QED
    BY <2>2, <2>3, <2>4, <2>5 DEF rows
<1>3. \A x : x \in WrittenParts(t) <=>
                 \E p \in PathsTo(t) : \E n \in DOMAIN Chains[chain] : \E r \in PartsOf(p, {n}) :
                     written[p][n] > 0 /\ x = <<p, n, r>>
  <2> DEFINE Parts(p, n) == PartsOf(p, {n})
             At(p, n) == {<<p, n, r>> : r \in Parts(p, n)}
             Some(p) == {m \in DOMAIN Chains[chain] : written[p][m] > 0}
             From(p) == UNION {At(p, n) : n \in Some(p)}
  <2>1. WrittenParts(t) = UNION {From(p) : p \in PathsTo(t)}
    BY DEF WrittenParts
  <2> HIDE DEF Parts
  <2>2. \A p, n, x : x \in At(p, n) <=> \E r \in Parts(p, n) : x = <<p, n, r>>
    OBVIOUS
  <2>3. \A p, n : n \in Some(p) <=> n \in DOMAIN Chains[chain] /\ written[p][n] > 0
    OBVIOUS
  <2> HIDE DEF At, Some
  <2>4. \A p, x : x \in From(p) <=> \E n \in Some(p) : x \in At(p, n)
    OBVIOUS
  <2> HIDE DEF From
  <2>5. \A x : x \in WrittenParts(t) <=> \E p \in PathsTo(t) : x \in From(p)
    BY <2>1
  <2>6. \A x : x \in WrittenParts(t) <=>
                 \E p \in PathsTo(t) : \E n \in DOMAIN Chains[chain] : \E r \in Parts(p, n) :
                     written[p][n] > 0 /\ x = <<p, n, r>>
    BY <2>2, <2>3, <2>4, <2>5
  <2> QED
    BY <2>6 DEF Parts
<1>4. ASSUME NEW x \in WrittenParts(t), x[3].key = key PROVE x \in PartsAt(t, key)
  <2>1. PICK p \in PathsTo(t) : \E n \in DOMAIN Chains[chain] : \E r \in PartsOf(p, {n}) :
                 written[p][n] > 0 /\ x = <<p, n, r>>
    BY <1>3
  <2>2. PICK n \in DOMAIN Chains[chain] : \E r \in PartsOf(p, {n}) :
                 written[p][n] > 0 /\ x = <<p, n, r>>
    BY <2>1
  <2>3. PICK r \in PartsOf(p, {n}) : written[p][n] > 0 /\ x = <<p, n, r>>
    BY <2>2
  <2>4. r.key = key
    BY <2>3, <1>4
  <2> DEFINE rows == RowsAlong(p, n)
  <2>5. PICK k \in KeysOfAll(p, rows) : r = PartFor(p, rows, k)
    BY <1>2
  <2>6. k = key
    BY <2>4, <2>5, <1>2
  <2>7. PICK row \in rows : key \in KeysHit(p, row)
    BY <2>5, <2>6 DEF KeysOfAll
  <2> DEFINE z == <<p, n, row>>
  <2>8. z \in Deliveries(t)
    BY <1>1, <2>7, DeliveryFacts DEF RowsAlong
  <2>9. z[1] = p /\ z[2] = n /\ z[3] = row
    OBVIOUS
  <2> HIDE DEF z
  <2>10. z \in Arrived(t, key)
    BY <2>3, <2>7, <2>8, <2>9 DEF Arrived, Times
  <2>11. x = PartAt(z, key)
    BY <2>3, <2>5, <2>6, <2>9 DEF PartAt
  <2> QED
    BY <2>10, <2>11 DEF PartsAt
<1>5. ASSUME NEW x \in PartsAt(t, key) PROVE x \in WrittenParts(t) /\ x[3].key = key
  <2> DEFINE p == x[1]
             n == x[2]
             rows == RowsAlong(p, n)
             r == PartFor(p, rows, key)
  <2>1. /\ p \in PathsTo(t) /\ n \in DOMAIN Chains[chain] /\ written[p][n] > 0
        /\ x = <<p, n, r>>
        /\ \A row : row \in Hitting(p, rows, key) <=>
                        \E z \in Arrived(t, key) : z[1] = p /\ z[2] = n /\ z[3] = row
    BY PartsAtFacts
  <2>2. PICK row : row \in Hitting(p, rows, key)
    <3>1. PICK z \in Arrived(t, key) : x = PartAt(z, key)
      BY DEF PartsAt
    <3>2. z[1] = p /\ z[2] = n
      BY <3>1 DEF PartAt
    <3> QED
      BY <2>1, <3>2
  <2> HIDE DEF p, n, rows, r
  <2>3. key \in KeysOfAll(p, rows)
    BY <2>2 DEF Hitting, KeysOfAll
  <2>4. r \in PartsOf(p, {n}) /\ r.key = key
    BY <2>1, <2>3, <1>2 DEF r, rows
  <2>5. x \in WrittenParts(t)
    BY <2>1, <2>4, <1>3
  <2> QED
    BY <2>1, <2>4, <2>5
<1> QED
  BY <1>4, <1>5

(* A bar is stored when something arrived in it, and has seen just that.        *)
LEMMA BarsArrived ==
    ASSUME IInv, NEW t \in StateTables, NEW key
    PROVE  /\ key \in Bars(state[t]) <=> Arrived(t, key) # {}
           /\ \A s : Seen(state[t], key, s) <=>
                         \E x \in Arrived(t, key) : s = SightOf(x[1], x[3])
           /\ key \in Bars(state[t]) => key \in KeysIn(t)
<1>1. Sighted /\ StoredBag(t, state[t])
  BY DEF IInv, Stored
<1>2. \A s : Seen(state[t], key, s) <=> Delivered(t, key, s)
  BY <1>1, SeenIs
<1>3. \A s : Delivered(t, key, s) <=> \E x \in Arrived(t, key) : s = SightOf(x[1], x[3])
  BY DEF Delivered, Arrived
<1>4. key \in Bars(state[t]) <=> \E s : Seen(state[t], key, s)
  <2> DEFINE bag == state[t]
  <2>1. StoredBag(t, bag)
    BY <1>1
  <2> HIDE DEF bag
  <2>2. key \in Bars(bag) <=> \E s : Seen(bag, key, s)
    BY <2>1, WholeFacts
  <2> QED
    BY <2>2 DEF bag
<1>5. Arrived(t, key) # {} => key \in KeysIn(t)
  BY DEF Arrived, KeysIn
<1> QED
  BY <1>2, <1>3, <1>4, <1>5

(* A stored bar is what its parts make.                                         *)
LEMMA WrittenBarIs ==
    ASSUME IInv, NEW t \in StateTables, NEW key \in Bars(state[t])
    PROVE  WrittenBar(key, PartsAt(t, key)) = Whole(t, state[t], key)
<1> DEFINE bag == state[t]
           G == PartsAt(t, key)
           e == [x \in G |-> [c \in DOMAIN x[3].sum |-> written[x[1]][x[2]] * x[3].sum[c]]]
           value == [c \in Columns(t) |-> [x \in G |-> written[x[1]][x[2]] * x[3].sum[c]]]
           whole == Whole(t, bag, key)
<1>1. SinkTypes /\ StoredBag(t, bag) /\ Balanced
  BY DEF IInv, SinkInv, Stored
<1>2. /\ key \in KeysIn(t) /\ Arrived(t, key) # {}
      /\ \A s : Seen(bag, key, s) <=> \E x \in Arrived(t, key) : s = SightOf(x[1], x[3])
  BY BarsArrived
<1>3. /\ whole = [key |-> key, sum |-> whole.sum, seen |-> whole.seen]
      /\ whole.sum \in [Columns(t) -> Int]
      /\ \A c \in Columns(t) : whole.sum[c] = Mass(bag, key, c)
      /\ \A s : s \in whole.seen <=> Seen(bag, key, s)
  <2> HIDE DEF bag
  <2> QED
    BY <1>1, WholeFacts
<1>4. \A c \in Columns(t) : Mass(bag, key, c) = Owed(t, key, c)
  BY <1>1, <1>2 DEF Balanced
<1>5. G # {}
  BY <1>2 DEF PartsAt
<1>6. ASSUME NEW x \in G
      PROVE  /\ x[3].sum \in [Columns(t) -> Int]
             /\ \A s : s \in x[3].seen <=>
                           \E z \in Arrived(t, key) :
                               z[1] = x[1] /\ z[2] = x[2] /\ s = SightOf(z[1], z[3])
  <2> DEFINE p == x[1]
             n == x[2]
             rows == RowsAlong(p, n)
  <2>1. /\ p \in PathsTo(t) /\ Proper(p[1], rows) /\ x = <<p, n, PartFor(p, rows, key)>>
        /\ \A row : row \in Hitting(p, rows, key) <=>
                        \E z \in Arrived(t, key) : z[1] = p /\ z[2] = n /\ z[3] = row
    BY <1>1, PartsAtFacts
  <2>2. x[3] = PartFor(p, rows, key) /\ p \in PathsTo(t) /\ Proper(p[1], rows)
    BY <2>1
  <2> HIDE DEF p, n, rows
  <2>3. PartFor(p, rows, key).sum \in [Columns(t) -> Int]
    BY <2>2, PartFacts
  <2>4. PartFor(p, rows, key).seen = {SightOf(p, row) : row \in Hitting(p, rows, key)}
    BY DEF PartFor
  <2>5. \A s : s \in PartFor(p, rows, key).seen <=>
                   \E z \in Arrived(t, key) : z[1] = p /\ z[2] = n /\ s = SightOf(z[1], z[3])
    BY <2>1, <2>4
  <2> QED
    BY <2>2, <2>3, <2>5 DEF p, n
<1>7. Total(e) = whole.sum
  <2>1. Records(e, G, Columns(t))
    BY <1>6 DEF Records
  <2>2. ByColumn(value, e, G, Columns(t))
    BY <1>6 DEF ByColumn
  <2>3. ASSUME NEW c \in Columns(t) PROVE whole.sum[c] = SumOver(value[c], G)
    <3> DEFINE v == value[c]
    <3>1. \A y \in G : v[y] = written[y[1]][y[2]] * y[3].sum[c]
      OBVIOUS
    <3> HIDE DEF v, value
    <3>2. Owed(t, key, c) = SumOver(v, G)
      BY <1>1, <3>1, OwedByParts
    <3>3. whole.sum[c] = Owed(t, key, c)
      BY <1>3, <1>4
    <3> QED
      BY <3>2, <3>3 DEF v
  <2>4. ColumnSums(whole.sum, value, G, Columns(t))
    <3> HIDE DEF value, G, whole
    <3> QED
      BY <1>3, <2>3 DEF ColumnSums
  <2> DEFINE sum == whole.sum
  <2>5. ColumnSums(sum, value, G, Columns(t))
    BY <2>4
  <2> HIDE DEF e, value, G, whole, sum
  <2>6. Total(e) = sum
    BY <1>5, <2>1, <2>2, <2>5, TotalOf
  <2> QED
    BY <2>6 DEF sum
<1>8. UNION {x[3].seen : x \in G} = whole.seen
  <2> DEFINE U == UNION {x[3].seen : x \in G}
  <2>1. \A s : s \in U <=> \E x \in G : s \in x[3].seen
    OBVIOUS
  <2>2. ASSUME NEW z \in Arrived(t, key)
        PROVE  \E x \in G : z[1] = x[1] /\ z[2] = x[2]
    <3>1. PartAt(z, key) \in G
      BY DEF PartsAt
    <3>2. PartAt(z, key)[1] = z[1] /\ PartAt(z, key)[2] = z[2]
      BY DEF PartAt
    <3> QED
      BY <3>1, <3>2
  <2> HIDE DEF U, G, whole
  <2>3. \A s : s \in U <=> \E z \in Arrived(t, key) : s = SightOf(z[1], z[3])
    BY <2>1, <2>2, <1>6
  <2> QED
    BY <2>3, <1>2, <1>3 DEF U
<1>9. WrittenBar(key, G) = [key |-> key, sum |-> Total(e), seen |-> UNION {x[3].seen : x \in G}]
  BY DEF WrittenBar
<1> HIDE DEF e, G, whole
<1> QED
  BY <1>3, <1>7, <1>8, <1>9 DEF whole, G

(* So the stored bars are those the views would make at once.                   *)
LEMMA IInvBatch == IInv => ViewsAreBatch
<1> SUFFICES ASSUME IInv, NEW t \in StateTables
             PROVE  Merged(state[t]) =
                        {WrittenBar(key, {x \in WrittenParts(t) : x[3].key = key}) :
                             key \in {x[3].key : x \in WrittenParts(t)}}
  BY DEF ViewsAreBatch, BatchOf, WrittenBar, WrittenParts, PartsOf, PathsTo
<1>1. SinkTypes /\ StoredBag(t, state[t])
  BY DEF IInv, SinkInv, Stored
<1>2. Merged(state[t]) = {Whole(t, state[t], key) : key \in Bars(state[t])}
  <2> DEFINE bag == state[t]
  <2>1. StoredBag(t, bag)
    BY <1>1
  <2> HIDE DEF bag
  <2>2. Merged(bag) = {Whole(t, bag, key) : key \in Bars(bag)}
    BY <2>1, MergedIs
  <2> QED
    BY <2>2 DEF bag
<1>3. \A key : {x \in WrittenParts(t) : x[3].key = key} = PartsAt(t, key)
  BY <1>1, WrittenAre
<1>4. {x[3].key : x \in WrittenParts(t)} = Bars(state[t])
  <2>1. \A key : key \in Bars(state[t]) <=> Arrived(t, key) # {}
    BY BarsArrived
  <2>2. \A key : Arrived(t, key) # {} <=> PartsAt(t, key) # {}
    BY DEF PartsAt
  <2>3. \A key : PartsAt(t, key) # {} <=> \E x \in WrittenParts(t) : x[3].key = key
    BY <1>3
  <2> QED
    BY <2>1, <2>2, <2>3
<1>5. \A key \in Bars(state[t]) : WrittenBar(key, PartsAt(t, key)) = Whole(t, state[t], key)
  BY WrittenBarIs
<1> DEFINE K == {x[3].key : x \in WrittenParts(t)}
           B == Bars(state[t])
           New(key) == WrittenBar(key, {x \in WrittenParts(t) : x[3].key = key})
           Old(key) == Whole(t, state[t], key)
<1>6. K = B /\ Merged(state[t]) = {Old(key) : key \in B}
  BY <1>2, <1>4
<1>7. \A key \in B : New(key) = Old(key)
  BY <1>3, <1>5
<1>8. {New(key) : key \in K} = {Old(key) : key \in B}
  <2> HIDE DEF K, B, New, Old
  <2> QED
    BY <1>6, <1>7
<1> QED
  BY <1>6, <1>8

(* At every moment a reader of a state table gets the sums and the distinct     *)
(* values that its views would make at once of all the blocks that were         *)
(* inserted, a block counted as often as it was, whatever the batches, the      *)
(* half-way failures and the background merges (the incremental materialized    *)
(* views of clickhouse/schema.2 and schema.4.mv.state_platform).                *)
THEOREM AggregatesAreBatch == Spec => []ViewsAreBatch
  BY AlwaysIInv, IInvBatch, PTL

-------------------------------------------------------------------------------
(* The sink and its tables deliver.                                             *)

(* The tables as they are read, and that they are what Delivery shows.          *)
Read == [t \in StateTables |-> Merged(state[t])]
ReadsShown == Read = Shown(chain, written)

LEMMA ReadIsShown == IInv => ReadsShown
<1> SUFFICES ASSUME IInv PROVE Read = Shown(chain, written)
  BY DEF ReadsShown
<1>1. \A t \in StateTables : Merged(state[t]) = BatchOf(chain, written, t)
  BY IInvBatch DEF ViewsAreBatch
<1> QED
  BY <1>1 DEF Read, Shown

(* Now and in the next state.                                                   *)
LEMMA ReadWas == IInv' => ReadsShown'
  BY ReadIsShown, PTL

(* What is before the last of two, and of three.                                *)
LEMMA FrontOf ==
    ASSUME NEW a, NEW b, NEW c
    PROVE  Front(<<a, b>>) = <<a>> /\ Front(<<a, b, c>>) = <<a, b>>
<1> DEFINE S == {a, b, c}
           s == <<a, b>>
           t == <<a, b, c>>
           one == <<a>>
<1>1. Len(s) = 2 /\ Len(t) = 3 /\ Len(one) = 1 /\ s \in Seq(S) /\ t \in Seq(S) /\ one \in Seq(S)
      /\ s[1] = a /\ s[2] = b /\ t[1] = a /\ t[2] = b /\ one[1] = a
  OBVIOUS
<1> HIDE DEF S, s, t, one
<1>2. /\ SubSeq(s, 1, 1) \in Seq(S) /\ Len(SubSeq(s, 1, 1)) = 1 /\ SubSeq(s, 1, 1)[1] = s[1]
      /\ SubSeq(t, 1, 2) \in Seq(S) /\ Len(SubSeq(t, 1, 2)) = 2
      /\ SubSeq(t, 1, 2)[1] = t[1] /\ SubSeq(t, 1, 2)[2] = t[2]
  BY <1>1, SubSeqProperties
<1>3. SubSeq(s, 1, 1) = one
  BY <1>1, <1>2, SeqEqual
<1>4. SubSeq(t, 1, 2) = s
  BY <1>1, <1>2, SeqEqual
<1>5. Front(s) = SubSeq(s, 1, 1) /\ Front(t) = SubSeq(t, 1, 2)
  BY <1>1 DEF Front
<1> QED
  BY <1>3, <1>4, <1>5 DEF s, t, one

(* A path's source is a path of the same table.                                 *)
LEMMA SourceIs ==
    ASSUME NEW table, NEW p \in PathsOf(table)
    PROVE  /\ Source(p) \in PathsOf(table)
           /\ Source(p) = p \/ (Len(p) > 1 /\ Source(p) = Front(p))
<1>1. CASE p = <<table>>
  BY <1>1 DEF Source
<1>2. ASSUME NEW view \in ViewsOf(table), p = <<table, view>>
      PROVE  Len(p) = 2 /\ Front(p) = <<table>>
  BY <1>2, FrontOf
<1>3. ASSUME NEW view \in ViewsOf(table), p = <<table, view, "platform">>
      PROVE  Len(p) = 3 /\ Front(p) = <<table, view>>
  BY <1>3, FrontOf
<1> QED
  BY <1>1, <1>2, <1>3 DEF Source, PathsOf

(* A write delivers along the paths it reaches.                                 *)
LEMMA WriteIsDelivery ==
    ASSUME IInv, IInv', NEW table \in pending, NEW reached \in SUBSET PathsOf(table),
           \A p \in reached : Len(p) > 1 => Front(p) \in reached,
           Write(table, reached), chain' = chain, cursor' = cursor
    PROVE  Promise!Next
<1>1. SinkTypes
  BY DEF IInv, SinkInv
<1>2. batch \in 1 .. MaxBatch /\ cursor + batch <= Len(Chains[chain])
  BY <1>1, Sizes DEF SinkTypes
<1>3. /\ DOMAIN written = Paths
      /\ written' = [p \in Paths |-> [n \in DOMAIN Chains[chain] |->
                        written[p][n] + (IF p \in reached /\ n \in Blocks THEN 1 ELSE 0)]]
      /\ \A p \in Paths : written[p] \in [DOMAIN Chains[chain] -> Nat]
  BY <1>1 DEF Write, SinkTypes
<1>4. ASSUME NEW p \in Paths
      PROVE  written'[p] \in {written[p], [n \in DOMAIN written[p] |->
                 written[p][n] + IF n \in Promise!Blocks(batch) THEN 1 ELSE 0]}
  <2>1. CASE p \in reached
    BY <1>3, <2>1 DEF Promise!Blocks, Blocks
  <2>2. CASE p \notin reached
    BY <1>3, <2>2
  <2> QED
    BY <2>1, <2>2
<1>5. Read' = Shown(chain, written')
  BY ReadWas DEF ReadsShown
<1>6. ASSUME NEW p \in Paths, written'[p] # written[p]
      PROVE  written'[Source(p)] # written[Source(p)]
  <2>1. p \in reached
    BY <1>3, <1>6
  <2> DEFINE q == Source(p)
             n == cursor + 1
  <2>2. q \in reached /\ q \in Paths
    <3>1. table \in RawTables
      BY <1>1 DEF SinkTypes
    <3> QED
      BY <2>1, <3>1, SourceIs DEF Paths
  <2>3. n \in Blocks /\ n \in DOMAIN Chains[chain] /\ written[q][n] \in Nat
    BY <1>1, <1>2, <2>2, Sizes DEF Blocks
  <2> HIDE DEF q, n
  <2>4. written'[q][n] = written[q][n] + 1
    BY <1>3, <2>2, <2>3
  <2> QED
    BY <2>3, <2>4 DEF q
<1>7. Promise!Deliver(batch)
  BY <1>2, <1>3, <1>4, <1>5, <1>6 DEF Promise!Deliver, Read
<1> QED
  BY <1>2, <1>7 DEF Promise!Next

(* The cursor passes what has been delivered everywhere.                        *)
LEMMA SaveIsSave ==
    ASSUME IInv, SaveCursor
    PROVE  Promise!Next
<1>1. SinkTypes /\ AtLeastOnce
  BY DEF IInv, SinkInv
<1>2. batch \in 1 .. MaxBatch /\ cursor + batch <= Len(Chains[chain])
  BY <1>1, Sizes DEF SinkTypes, SaveCursor
<1>3. ASSUME NEW p \in Paths, NEW n \in Promise!Blocks(batch), HasRows(chain, p, n)
      PROVE  written[p][n] > 0
  <2>1. n \in DOMAIN Chains[chain] /\ n \in Blocks /\ p[1] \notin pending
    BY <1>1, <1>2, Sizes DEF Promise!Blocks, Blocks, SaveCursor, SinkTypes
  <2>2. written[p][n] >= 1
    BY <1>1, <1>3, <2>1 DEF AtLeastOnce, HasRows
  <2>3. written[p][n] \in Nat
    BY <1>1, <2>1 DEF SinkTypes
  <2> QED
    BY <2>2, <2>3
<1>4. Promise!Save(batch)
  BY <1>2, <1>3 DEF Promise!Save, SaveCursor
<1> QED
  BY <1>2, <1>4 DEF Promise!Next

(* Every step of the sink delivers, saves or is not to be noticed.              *)
LEMMA NextDelivers ==
    IInv /\ IInv' /\ [Next]_vars => [Promise!Next]_<<chain, cursor, written, Read>>
<1> SUFFICES ASSUME IInv, IInv', [Next]_vars
             PROVE  Promise!Next \/ UNCHANGED <<chain, cursor, written, Read>>
  OBVIOUS
<1>1. chain' = chain /\ written' = written => Read' = Read
  BY ReadIsShown, ReadWas DEF ReadsShown
<1>2. ASSUME NEW size \in 1 .. MaxBatch, Start(size)
      PROVE  UNCHANGED <<chain, cursor, written, Read>>
  BY <1>1, <1>2 DEF Start
<1>3. ASSUME NEW table \in pending, Insert(table)
      PROVE  Promise!Next
  <2>1. \A p \in PathsOf(table) : Len(p) > 1 => Front(p) \in PathsOf(table)
    BY SourceIs DEF Source
  <2> QED
    BY <1>3, <2>1, WriteIsDelivery DEF Insert, Sent
<1>4. ASSUME NEW table \in pending, NEW reached \in SUBSET PathsOf(table),
             FailInsert(table, reached)
      PROVE  Promise!Next
  BY <1>4, WriteIsDelivery DEF FailInsert, Restart
<1>5. CASE SaveCursor
  BY <1>5, SaveIsSave
<1>6. CASE FailSave
  BY <1>1, <1>6 DEF FailSave, Restart
<1>7. ASSUME NEW table \in StateTables, Merge(table)
      PROVE  UNCHANGED <<chain, cursor, written, Read>>
  BY <1>1, <1>7 DEF Merge
<1>8. CASE UNCHANGED vars
  BY <1>1, <1>8 DEF vars
<1> QED
  BY <1>2, <1>3, <1>4, <1>5, <1>6, <1>7, <1>8 DEF Next

(* The sink with its batches, half-way failures and restarts, the views and     *)
(* the background merges implement Delivery: blocks come in order, none is      *)
(* saved before it is in every table its rows go to or inserted again after,    *)
(* the cursor does not go back, and what is read is at each moment the views'   *)
(* batch of what was inserted (clickhouse/Makefile, schema.2,                   *)
(* schema.4.mv.state_platform).                                                 *)
THEOREM Refinement == Spec => Implements
<1>1. Init => Promise!Init
  <2> SUFFICES ASSUME Init PROVE Promise!Init
    OBVIOUS
  <2>1. Read = Shown(chain, written)
    BY InitIInv, ReadIsShown DEF ReadsShown
  <2> QED
    BY <2>1 DEF Init, Promise!Init, Read
<1>2. IInv /\ IInv' /\ [Next]_vars => [Promise!Next]_<<chain, cursor, written, Read>>
  BY NextDelivers
<1> QED
  BY <1>1, <1>2, AlwaysIInv, PTL DEF Spec, Implements, Promise!Spec, Read

-------------------------------------------------------------------------------
(* Bars nest.                                                                   *)

(* The bar of an interval that a delivery goes into.                            *)
BarFor(i, x) == <<i, CoinOf(x[1], x[3]), BarOf(i, x[3].time)>>

(* A delivery has arrived in its bar of every interval.                         *)
LEMMA ArrivedWhere ==
    ASSUME SinkTypes, NEW t \in StateTables, NEW key, NEW x \in Arrived(t, key)
    PROVE  /\ x \in Deliveries(t) /\ x[3].time \in Nat
           /\ key[1] \in Intervals /\ key = BarFor(key[1], x)
           /\ \A i \in Intervals : x \in Arrived(t, BarFor(i, x))
<1>1. chain \in DOMAIN Chains
  BY DEF SinkTypes
<1>2. x \in Deliveries(t) /\ key \in KeysHit(x[1], x[3]) /\ Times(x) > 0
  BY DEF Arrived
<1>3. x[1] \in PathsTo(t) /\ x[3].time \in Nat
  BY <1>1, <1>2, DeliveryFacts DEF WellTyped
<1> DEFINE p == x[1]
           row == x[3]
<1>4. p \in PathsTo(t) /\ key \in KeysHit(p, row)
  BY <1>2, <1>3
<1> HIDE DEF p, row
<1>5. /\ Passes(p[2], row) /\ key[1] \in Intervals
      /\ key = <<key[1], CoinOf(p, row), BarOf(key[1], row.time)>>
  BY <1>4, HitIs
<1>6. ASSUME NEW i \in Intervals PROVE BarFor(i, x) \in KeysHit(p, row)
  <2> DEFINE k == <<i, CoinOf(p, row), BarOf(i, row.time)>>
  <2>1. k[1] = i /\ k = BarFor(i, x)
    BY DEF BarFor, p, row
  <2>2. k = <<k[1], CoinOf(p, row), BarOf(k[1], row.time)>>
    BY <2>1
  <2> HIDE DEF k
  <2>3. k \in KeysHit(p, row)
    BY <1>4, <1>5, <2>1, <2>2, HitIs
  <2> QED
    BY <2>1, <2>3
<1>7. key[1] \in Intervals /\ key = BarFor(key[1], x)
  BY <1>5 DEF BarFor, p, row
<1>8. \A i \in Intervals : x \in Arrived(t, BarFor(i, x))
  BY <1>2, <1>6 DEF Arrived, p, row
<1> QED
  BY <1>2, <1>3, <1>7, <1>8

(* What a reader gets of a table.                                               *)
LEMMA ReadBars ==
    ASSUME IInv, NEW t \in StateTables
    PROVE  /\ IsFiniteSet(Merged(state[t]))
           /\ \A key : Arrived(t, key) # {} => \E r \in Merged(state[t]) : r.key = key
           /\ \A r \in Merged(state[t]) :
                 /\ Arrived(t, r.key) # {} /\ r.sum \in [Columns(t) -> Int]
                 /\ \A c \in Columns(t) : r.sum[c] = Owed(t, r.key, c)
           /\ \A r, s \in Merged(state[t]) : r.key = s.key => r = s
<1> DEFINE bag == state[t]
           W(key) == Whole(t, bag, key)
<1>1. StoredBag(t, bag) /\ Balanced
  BY DEF IInv, Stored
<1>2. \A key : /\ key \in Bars(bag) <=> Arrived(t, key) # {}
               /\ key \in Bars(bag) => key \in KeysIn(t)
  BY BarsArrived
<1>3. ASSUME NEW key \in KeysIn(t), NEW c \in Columns(t)
      PROVE  Mass(bag, key, c) = Owed(t, key, c)
  BY <1>1 DEF Balanced
<1> HIDE DEF bag
<1>4. Merged(bag) = {W(key) : key \in Bars(bag)}
  BY <1>1, MergedIs
<1>5. \A key : /\ W(key).key = key /\ W(key).sum \in [Columns(t) -> Int]
               /\ \A c \in Columns(t) : W(key).sum[c] = Mass(bag, key, c)
  BY <1>1, WholeFacts
<1>6. IsFiniteSet(Merged(bag))
  <2>1. StoredBag(t, SetToBag(Merged(bag)))
    BY <1>1, MergeKeeps
  <2>2. DOMAIN SetToBag(Merged(bag)) = Merged(bag)
    BY DEF SetToBag
  <2> QED
    BY <2>1, <2>2 DEF StoredBag
<1> HIDE DEF W
<1>7. \A key : Arrived(t, key) # {} => \E r \in Merged(bag) : r.key = key
  BY <1>2, <1>4, <1>5
<1>8. ASSUME NEW r \in Merged(bag)
      PROVE  /\ r = W(r.key) /\ Arrived(t, r.key) # {} /\ r.sum \in [Columns(t) -> Int]
             /\ \A c \in Columns(t) : r.sum[c] = Owed(t, r.key, c)
  <2>1. PICK key \in Bars(bag) : r = W(key)
    BY <1>4
  <2>2. r.key = key
    BY <2>1, <1>5
  <2> QED
    BY <2>1, <2>2, <1>2, <1>3, <1>5
<1> QED
  BY <1>6, <1>7, <1>8 DEF bag

(* A bar and the shorter ones inside it have the same deliveries.               *)
Within(rows, key, short) ==
    {s \in rows : /\ s.key[1] = short /\ s.key[2] = key[2]
                  /\ s.key[3] \in key[3] .. key[3] + key[1] * 60 - 1}

(* What arrived in a bar is what arrived in the shorter bars inside it.         *)
LEMMA NestedDeliveries ==
    ASSUME IInv, NEW t \in StateTables, NEW rows, rows = Merged(state[t]),
           NEW key, Arrived(t, key) # {}, NEW short \in Intervals, short < key[1],
           NEW inside, inside = Within(rows, key, short)
    PROVE  /\ \A x \in Arrived(t, key) : \E s \in inside : x \in Arrived(t, s.key)
           /\ \A s \in inside : \A x \in Arrived(t, s.key) :
                 x \in Arrived(t, key) /\ s.key = BarFor(short, x)
<1>1. SinkTypes
  BY DEF IInv, SinkInv
<1>2. /\ \A k : Arrived(t, k) # {} => \E r \in rows : r.key = k
      /\ \A r \in rows : Arrived(t, r.key) # {}
  BY ReadBars
<1> DEFINE long == key[1]
<1>3. PICK o \in Arrived(t, key) : TRUE
  OBVIOUS
<1>4. long \in Intervals /\ key = BarFor(long, o) /\ o[3].time \in Nat
  BY <1>1, ArrivedWhere
<1>5. /\ short \in Nat \ {0} /\ long \in Nat \ {0} /\ long % short = 0 /\ short < long
  BY <1>4, IntervalsAssumption
<1>6. ASSUME NEW x \in Arrived(t, key) PROVE \E s \in inside : x \in Arrived(t, s.key)
  <2>1. x[3].time \in Nat /\ key = BarFor(long, x) /\ x \in Arrived(t, BarFor(short, x))
    BY <1>1, ArrivedWhere
  <2>2. PICK s \in rows : s.key = BarFor(short, x)
    BY <2>1, <1>2
  <2> DEFINE time == x[3].time
             coin == CoinOf(x[1], x[3])
  <2>3. key[2] = coin /\ key[3] = BarOf(long, time) /\ time \in Nat
    <3>1. key = <<long, coin, BarOf(long, time)>>
      BY <2>1 DEF BarFor
    <3> QED
      BY <2>1, <3>1
  <2>4. s.key[1] = short /\ s.key[2] = coin /\ s.key[3] = BarOf(short, time)
    BY <2>2 DEF BarFor
  <2> HIDE DEF time, coin, long
  <2>5. BarOf(short, time) \in BarOf(long, time) .. BarOf(long, time) + long * 60 - 1
    BY <1>5, <2>3, BarsOf
  <2>6. s \in Within(rows, key, short)
    BY <2>3, <2>4, <2>5 DEF Within, long
  <2> QED
    BY <2>1, <2>2, <2>6
<1>7. ASSUME NEW s \in inside, NEW x \in Arrived(t, s.key)
      PROVE  x \in Arrived(t, key) /\ s.key = BarFor(short, x)
  <2> DEFINE time == x[3].time
             other == o[3].time
             coin == CoinOf(x[1], x[3])
  <2>1. /\ s.key[1] = short /\ s.key[2] = key[2]
        /\ s.key[3] \in key[3] .. key[3] + long * 60 - 1
    BY DEF Within
  <2>2. /\ time \in Nat /\ s.key = BarFor(s.key[1], x)
        /\ \A i \in Intervals : x \in Arrived(t, BarFor(i, x))
    BY <1>1, ArrivedWhere
  <2>3. s.key = BarFor(short, x)
    BY <2>1, <2>2
  <2>4. s.key[2] = coin /\ s.key[3] = BarOf(short, time)
    BY <2>3 DEF BarFor
  <2>5. key = <<long, key[2], BarOf(long, other)>> /\ key[3] = BarOf(long, other) /\ other \in Nat
    <3>1. key = <<long, CoinOf(o[1], o[3]), BarOf(long, other)>>
      BY <1>4 DEF BarFor
    <3> QED
      BY <1>4, <3>1
  <2> HIDE DEF time, other, coin, long
  <2>6. BarOf(short, time) \in BarOf(long, other) .. BarOf(long, other) + long * 60 - 1
    BY <2>1, <2>4, <2>5
  <2>7. time \in Nat
    BY <2>2 DEF time
  <2>8. BarOf(long, time) = BarOf(long, other)
    BY <1>5, <2>5, <2>6, <2>7, BarsOf
  <2>9. key = <<long, coin, BarOf(long, time)>>
    BY <2>1, <2>4, <2>5, <2>8
  <2>10. key = BarFor(long, x)
    BY <2>9 DEF BarFor, coin, time
  <2> QED
    BY <1>4, <2>2, <2>3, <2>10 DEF long
<1> QED
  BY <1>6, <1>7

(* So its columns are the sums of theirs.                                       *)
LEMMA NestedSums ==
    ASSUME IInv, NEW t \in StateTables, NEW r \in Merged(state[t]),
           NEW short \in Intervals, short < r.key[1],
           NEW inside, inside = Within(Merged(state[t]), r.key, short)
    PROVE  inside # {} /\ r.sum = Total([s \in inside |-> s.sum])
<1> DEFINE rows == Merged(state[t])
           key == r.key
           A == Arrived(t, key)
           part == [s \in inside |-> Arrived(t, s.key)]
           value == [c \in Columns(t) |-> [s \in inside |-> s.sum[c]]]
           e == [s \in inside |-> s.sum]
<1>1. SinkTypes
  BY DEF IInv, SinkInv
<1>2. /\ IsFiniteSet(rows)
      /\ \A s \in rows :
            /\ Arrived(t, s.key) # {} /\ s.sum \in [Columns(t) -> Int]
            /\ \A c \in Columns(t) : s.sum[c] = Owed(t, s.key, c)
      /\ \A s, z \in rows : s.key = z.key => s = z
  BY ReadBars
<1>3. A # {} /\ r.sum \in [Columns(t) -> Int] /\ \A c \in Columns(t) : r.sum[c] = Owed(t, key, c)
  BY <1>2
<1>4. /\ \A x \in A : \E s \in inside : x \in Arrived(t, s.key)
      /\ \A s \in inside : \A x \in Arrived(t, s.key) : x \in A /\ s.key = BarFor(short, x)
  <2>1. rows = Merged(state[t]) /\ Arrived(t, key) # {} /\ short < key[1]
        /\ inside = Within(rows, key, short)
    BY <1>3
  <2> HIDE DEF rows, key
  <2> QED
    BY <2>1, NestedDeliveries DEF A
<1>5. inside \subseteq rows /\ IsFiniteSet(inside) /\ inside # {}
  <2>1. inside \subseteq rows
    BY DEF Within
  <2>2. inside # {}
    BY <1>3, <1>4
  <2> HIDE DEF rows
  <2> QED
    BY <1>2, <2>1, <2>2, FS_Subset
<1>6. Partition(part, inside, A)
  <2>1. \A s \in inside : part[s] = Arrived(t, s.key)
    OBVIOUS
  <2>2. \A x \in A : \A y, z \in inside : x \in part[y] /\ x \in part[z] => y = z
    BY <1>2, <1>4, <1>5, <2>1
  <2> HIDE DEF part, A
  <2> QED
    BY <1>4, <2>1, <2>2 DEF Partition
<1>7. ASSUME NEW c \in Columns(t) PROVE r.sum[c] = SumOver(value[c], inside)
  <2> DEFINE f == [x \in Deliveries(t) |-> Times(x) * ValueOf(x[1], x[3])[c]]
             g == value[c]
  <2>1. Adds(t, f, c)
    BY DEF Adds
  <2>2. \A s \in inside : g[s] = Owed(t, s.key, c)
    BY <1>2, <1>5
  <2> HIDE DEF f
  <2>3. \A k : /\ IsFiniteSet(Arrived(t, k)) /\ Owed(t, k, c) = SumOver(f, Arrived(t, k))
               /\ \A x \in Deliveries(t) : f[x] \in Int
    BY <1>1, <2>1, OwedIs
  <2>4. PartSums(g, inside, f, part)
    <3>1. \A s \in inside : part[s] = Arrived(t, s.key)
      OBVIOUS
    <3> HIDE DEF g, part
    <3> QED
      BY <2>2, <2>3, <3>1 DEF PartSums
  <2>5. /\ IsFiniteSet(A) /\ Owed(t, key, c) = SumOver(f, A)
        /\ \A x \in A : f[x] \in Int
    BY <2>3 DEF Arrived
  <2> HIDE DEF g, part, A, value, key
  <2>6. SumOver(f, A) = SumOver(g, inside)
    BY <1>5, <1>6, <2>4, <2>5, SumOfParts
  <2> QED
    BY <1>3, <2>5, <2>6 DEF g
<1>8. Records(e, inside, Columns(t)) /\ ByColumn(value, e, inside, Columns(t))
  BY <1>2, <1>5 DEF Records, ByColumn
<1>9. ColumnSums(r.sum, value, inside, Columns(t))
  <2> HIDE DEF value
  <2> QED
    BY <1>3, <1>7 DEF ColumnSums
<1> DEFINE sum == r.sum
<1>10. ColumnSums(sum, value, inside, Columns(t))
  BY <1>9
<1> HIDE DEF e, value, sum
<1>11. Total(e) = sum
  BY <1>5, <1>8, <1>10, TotalOf
<1> QED
  BY <1>5, <1>11 DEF e, sum

(* This holds of all bars.                                                      *)
LEMMA IInvNested == IInv => BarsNest
<1> SUFFICES ASSUME IInv, NEW t \in StateTables, NEW r \in Merged(state[t]),
                    NEW short \in Intervals, short < r.key[1]
             PROVE  /\ Within(Merged(state[t]), r.key, short) # {}
                    /\ r.sum = Total([s \in Within(Merged(state[t]), r.key, short) |-> s.sum])
  BY DEF BarsNest, Within
<1> DEFINE inside == Within(Merged(state[t]), r.key, short)
<1>1. inside = Within(Merged(state[t]), r.key, short)
  OBVIOUS
<1> HIDE DEF inside
<1>2. inside # {} /\ r.sum = Total([s \in inside |-> s.sum])
  BY <1>1, NestedSums
<1> QED
  BY <1>2 DEF inside

(* At every moment a bar has the columns of the shorter bars inside it added    *)
(* up, in every state table, even after an insert that failed half-way: the     *)
(* arrayJoin over the intervals writes the bars of a row together               *)
(* (clickhouse/schema.2).                                                       *)
THEOREM BarsAreNested == Spec => []BarsNest
  BY AlwaysIInv, IInvNested, PTL

-------------------------------------------------------------------------------
(* When the sink is quiet, what the exchange did counts once.                   *)

(* When the sink is quiet, what is delivered of the saved blocks has been       *)
(* written once and nothing else.                                               *)
LEMMA QuietTimes ==
    ASSUME IInv, Quiet, NEW t \in StateTables, NEW x \in Deliveries(t)
    PROVE  Times(x) = IF x[2] <= cursor THEN 1 ELSE 0
<1>1. SinkTypes /\ AtLeastOnce /\ RepeatsBounded /\ RepeatsFailed /\ chain \in DOMAIN Chains
  BY DEF IInv, SinkInv, SinkTypes
<1>2. /\ x[1] \in Paths /\ x[2] \in DOMAIN Chains[chain]
      /\ TableRows(chain, x[1][1], {x[2]}) # {}
  BY <1>1, DeliveryFacts
<1>3. x[2] \in Nat /\ cursor \in Nat /\ written[x[1]][x[2]] \in Nat
  BY <1>1, <1>2, Sizes
<1>4. x[2] <= cursor => written[x[1]][x[2]] >= 1
  BY <1>1, <1>2 DEF AtLeastOnce
<1>5. written[x[1]][x[2]] <= 1 + failures /\ failures = 0
  BY <1>1, <1>2 DEF RepeatsBounded, Quiet
<1>6. x[2] > cursor => written[x[1]][x[2]] <= failures
  <2>1. Blocks = {}
    BY <1>3 DEF Blocks, Quiet
  <2> QED
    BY <1>1, <1>2, <2>1 DEF RepeatsFailed
<1> QED
  BY <1>3, <1>4, <1>5, <1>6 DEF Times

(* A column is then the sum over the deliveries of what each is worth.          *)
LEMMA QuietSum ==
    ASSUME IInv, Quiet, NEW t \in StateTables, NEW r \in Merged(state[t]), NEW c \in Columns(t),
           NEW f, \A x \in Deliveries(t) : f[x] = ValueOf(x[1], x[3])[c]
    PROVE  /\ r.sum[c] = SumOver(f, Arrived(t, r.key))
           /\ IsFiniteSet(Arrived(t, r.key)) /\ Arrived(t, r.key) \subseteq Deliveries(t)
           /\ \A x \in Deliveries(t) : f[x] \in Int
<1> DEFINE key == r.key
           A == Arrived(t, key)
           g == [x \in Deliveries(t) |-> Times(x) * ValueOf(x[1], x[3])[c]]
<1>1. SinkTypes
  BY DEF IInv, SinkInv
<1>2. r.sum[c] = Owed(t, key, c)
  BY ReadBars
<1>3. Adds(t, g, c)
  BY DEF Adds
<1> HIDE DEF key
<1>4. /\ IsFiniteSet(A) /\ A \subseteq Deliveries(t)
      /\ \A x \in Deliveries(t) : ValueOf(x[1], x[3])[c] \in Int /\ g[x] \in Int
      /\ Owed(t, key, c) = SumOver(g, A)
  <2> HIDE DEF g
  <2> QED
    BY <1>1, <1>3, OwedIs DEF Arrived
<1>5. \A x \in A : g[x] = f[x]
  <2> SUFFICES ASSUME NEW x \in A PROVE g[x] = f[x]
    OBVIOUS
  <2> DEFINE v == ValueOf(x[1], x[3])[c]
             m == Times(x)
  <2>1. x \in Deliveries(t) /\ m > 0
    BY DEF Arrived
  <2>2. m = 1
    <3>1. m = IF x[2] <= cursor THEN 1 ELSE 0
      BY <2>1, QuietTimes
    <3> QED
      BY <2>1, <3>1
  <2>3. v \in Int /\ f[x] = v
    BY <2>1, <1>4
  <2>4. g[x] = m * v
    BY <2>1
  <2> HIDE DEF m, v, g
  <2> QED
    BY <2>2, <2>3, <2>4
<1> HIDE DEF g, A
<1>6. SumOver(g, A) = SumOver(f, A)
  BY <1>5, SumSame
<1> QED
  BY <1>2, <1>4, <1>6 DEF A, key

(* A sum and a count do not change when each summand is given another name.     *)
OneToOne(h, S, Y) ==
    /\ \A x \in S : h[x] \in Y
    /\ \A y \in Y : \E x \in S : h[x] = y
    /\ \A x, z \in S : h[x] = h[z] => x = z

(* Their sums are equal, and their counts.                                      *)
LEMMA Renamed ==
    ASSUME NEW S, IsFiniteSet(S), NEW Y, NEW h, OneToOne(h, S, Y)
    PROVE  /\ IsFiniteSet(Y) /\ Cardinality(Y) = Cardinality(S)
           /\ \A f, g : (\A x \in S : f[x] \in Int /\ g[h[x]] = f[x]) =>
                            SumOver(f, S) = SumOver(g, Y)
<1> USE DEF OneToOne
<1>1. IsFiniteSet(Y)
  <2>1. Y = {h[x] : x \in S}
    OBVIOUS
  <2> QED
    BY <2>1, ImageIsFinite
<1>2. ASSUME NEW f, NEW g, \A x \in S : f[x] \in Int /\ g[h[x]] = f[x]
      PROVE  SumOver(f, S) = SumOver(g, Y)
  <2>1. \A x \in S : f[x] \in Int
    BY <1>2
  <2>2. \A x \in S : h[x] \in Y /\ g[h[x]] = f[x]
    BY <1>2
  <2> QED
    BY <1>1, <2>1, <2>2, SumRenamed
<1>3. Cardinality(Y) = Cardinality(S)
  <2> DEFINE f == [x \in S |-> 1]
             g == [y \in Y |-> 1]
  <2>1. \A x \in S : f[x] = 1 /\ f[x] \in Int /\ g[h[x]] = f[x]
    OBVIOUS
  <2>2. \A y \in Y : g[y] = 1
    OBVIOUS
  <2> HIDE DEF f, g
  <2>3. SumOver(f, S) = SumOver(g, Y)
    BY <1>2, <2>1
  <2>4. SumOver(f, S) = Cardinality(S) * 1
    BY <2>1, SumOfEqual
  <2>5. SumOver(g, Y) = Cardinality(Y) * 1
    BY <1>1, <2>2, SumOfEqual
  <2>6. Cardinality(S) \in Nat /\ Cardinality(Y) \in Nat
    BY <1>1, FS_CardinalityType
  <2> DEFINE a == Cardinality(S)
             b == Cardinality(Y)
  <2>7. a \in Nat /\ b \in Nat /\ a * 1 = b * 1
    BY <2>3, <2>4, <2>5, <2>6
  <2> HIDE DEF a, b
  <2>8. a = b
    BY <2>7
  <2> QED
    BY <2>8 DEF a, b
<1> QED
  BY <1>1, <1>2, <1>3

(* A time is in a bar if it is rounded to it.                                   *)
LEMMA InBar ==
    ASSUME NEW i \in Nat \ {0}, NEW time \in Nat, NEW other \in Nat
    PROVE  time \in BarOf(i, other) .. BarOf(i, other) + i * 60 - 1
               <=> BarOf(i, time) = BarOf(i, other)
<1> DEFINE S == i * 60
           a == time \div S
           b == other \div S
<1>1. S \in Nat \ {0}
  OBVIOUS
<1>2. BarOf(i, time) = a * S /\ BarOf(i, other) = b * S
  BY DEF BarOf
<1> HIDE DEF S
<1>3. a \in Nat /\ S * a <= time /\ time < S * a + S
  BY <1>1, Division
<1>4. b \in Nat
  BY <1>1, Division
<1>5. S * a = a * S /\ S * b = b * S
  BY <1>1, <1>3, <1>4
<1>6. ASSUME time \in b * S .. b * S + S - 1 PROVE a = b
  <2> DEFINE w == S * b
  <2>1. w \in Int /\ w = b * S
    BY <1>1, <1>4, <1>5
  <2>2. w <= time /\ time < w + S
    <3> HIDE DEF w
    <3> QED
      BY <1>1, <1>6, <2>1
  <2>3. S * b <= time /\ time < S * b + S
    BY <2>2
  <2> QED
    BY <1>1, <1>4, <2>3, Quotient
<1>7. ASSUME a * S = b * S PROVE time \in b * S .. b * S + S - 1
  <2> DEFINE w == S * a
  <2>1. w \in Int /\ w = b * S /\ w <= time /\ time < w + S
    BY <1>1, <1>3, <1>4, <1>5, <1>7
  <2> HIDE DEF w
  <2>2. time \in w .. w + S - 1
    BY <1>1, <2>1
  <2> QED
    BY <2>1, <2>2
<1> QED
  BY <1>2, <1>6, <1>7 DEF S

-------------------------------------------------------------------------------
(* The fills.                                                                   *)

(* The row x on its way to a table of trades is that of fill f of its block.    *)
FillTargets == {"ohlcv_fills", "ohlcv_liquidation", "ohlcv_outcomes", "platform"}
Carries(x, f) == \E k \in DOMAIN Chains[chain][x[2]].fills :
                     f = Chains[chain][x[2]].fills[k] /\ x[3] = FillRow(f, k, x[2])

(* A fill is found at its block and index.                                      *)
LEMMA PlacesAre ==
    ASSUME NEW name, NEW n \in DOMAIN Chains[name], NEW k \in DOMAIN Chains[name][n].fills
    PROVE  /\ <<n, k>> \in Places(name) /\ FillAt(name, <<n, k>>) = Chains[name][n].fills[k]
  BY DEF Places, FillAt

(* The paths to a table of trades.                                              *)
LEMMA FillPaths ==
    ASSUME NEW t \in FillTargets, NEW p \in PathsTo(t)
    PROVE  /\ t \in StateTables
           /\ p = IF t = "platform" THEN <<p[1], p[2], "platform">> ELSE <<p[1], t>>
           /\ p[2] = IF t = "platform" THEN p[2] ELSE t
           /\ p[2] \in PlatformSources /\ p[2] \in ViewsOf(p[1])
           /\ p[1] \in {"fills", "fills_liquidation", "outcome_fills"}
           /\ Len(p) = IF t = "platform" THEN 3 ELSE 2
<1>1. t \in StateTables
  BY DEF FillTargets, StateTables
<1>2. /\ p[1] \in RawTables
      /\ \/ Len(p) = 2 /\ p = <<p[1], t>> /\ p[2] = t /\ t \in ViewsOf(p[1])
         \/ /\ Len(p) = 3 /\ p = <<p[1], p[2], "platform">> /\ t = "platform"
            /\ p[2] \in ViewsOf(p[1]) \cap PlatformSources
  BY <1>1, PathFacts
<1>3. "platform" \notin ViewsOf(p[1])
  BY <1>2 DEF ViewsOf, RawTables
<1>4. p[2] \in PlatformSources /\ p[2] \in ViewsOf(p[1])
  BY <1>2, <1>3 DEF FillTargets, PlatformSources
<1>5. p[1] \in {"fills", "fills_liquidation", "outcome_fills"}
  BY <1>2, <1>4 DEF ViewsOf, RawTables, PlatformSources
<1> QED
  BY <1>1, <1>2, <1>3, <1>4, <1>5

(* A row on such a path is that of a fill, of the fill's table.                 *)
LEMMA FillDelivery ==
    ASSUME chain \in DOMAIN Chains, NEW t \in FillTargets, NEW x \in Deliveries(t)
    PROVE  \E f : Carries(x, f) /\ x[1][1] = FillTable(f)
<1>1. t \in StateTables /\ x[1] \in PathsTo(t)
  <2>1. t \in StateTables
    BY DEF FillTargets, StateTables
  <2> QED
    BY <2>1, DeliveryFacts
<1>2. /\ x[2] \in DOMAIN Chains[chain] /\ x[3].table = x[1][1]
      /\ x[3] \in TableRows(chain, x[1][1], {x[2]})
  BY <1>1, DeliveryFacts
<1>3. x[1][1] \in {"fills", "fills_liquidation", "outcome_fills"}
  <2> DEFINE p == x[1]
  <2> HIDE DEF p
  <2>1. p \in PathsTo(t)
    BY <1>1 DEF p
  <2>2. p[1] \in {"fills", "fills_liquidation", "outcome_fills"}
    BY <2>1, FillPaths
  <2> QED
    BY <2>2 DEF p
<1>4. x[3] \in RowsOf(chain, x[2])
  BY <1>2 DEF TableRows
<1>5. x[3] \notin Chains[chain][x[2]].events
  BY <1>2, <1>3, RowsAssumption
<1>6. PICK k \in DOMAIN Chains[chain][x[2]].fills :
          x[3] = FillRow(Chains[chain][x[2]].fills[k], k, x[2])
  BY <1>4, <1>5 DEF RowsOf
<1> DEFINE f == Chains[chain][x[2]].fills[k]
<1>7. x[3].table = FillTable(f)
  BY <1>6 DEF FillRow
<1>8. Carries(x, f)
  BY <1>6 DEF Carries
<1> QED
  BY <1>2, <1>7, <1>8

(* What the row of a fill holds.                                                *)
LEMMA CarriedRow ==
    ASSUME chain \in DOMAIN Chains, NEW x, x[2] \in DOMAIN Chains[chain], NEW f, Carries(x, f)
    PROVE  /\ x[3].coin = f.coin /\ x[3].user = f.user /\ x[3].liquidated_user = f.liquidation
           /\ x[3].transaction_id = f.transaction_id
           /\ x[3].direction = DirectionName(f.direction) /\ x[3].crossed = f.crossed
           /\ x[3].price = ParseF64(f.price) /\ x[3].size = ParseF64(f.size)
           /\ f.time # <<>> => x[3].time = f.time[1] /\ f.time[1] \in Nat
           /\ f.price.value \in Int /\ f.size.value \in Int
           /\ f \in Range(Chains[chain][x[2]].fills)
           /\ x[3].index \in DOMAIN Chains[chain][x[2]].fills
           /\ f = Chains[chain][x[2]].fills[x[3].index]
           /\ x[3] = FillRow(f, x[3].index, x[2])
<1>1. PICK k \in DOMAIN Chains[chain][x[2]].fills :
          f = Chains[chain][x[2]].fills[k] /\ x[3] = FillRow(f, k, x[2])
  BY DEF Carries
<1>2. /\ {f.price.value, f.size.value} \subseteq Int
      /\ f.time = <<>> \/ f.time[1] \in Nat
  BY <1>1, RowsAssumption
<1>3. f \in Range(Chains[chain][x[2]].fills)
  BY <1>1 DEF Range
<1>4. x[3].index = k
  BY <1>1 DEF FillRow
<1> QED
  BY <1>1, <1>2, <1>3, <1>4 DEF FillRow

(* And there, a fill of a saved block comes once along each path that is its.   *)
LEMMA FillDelivered ==
    ASSUME chain \in DOMAIN Chains, NEW t \in FillTargets, NEW p \in PathsTo(t),
           NEW n \in DOMAIN Chains[chain], NEW f \in Range(Chains[chain][n].fills),
           p[1] = FillTable(f)
    PROVE  \E x \in Deliveries(t) : x[1] = p /\ x[2] = n /\ Carries(x, f)
<1>1. t \in StateTables
  BY DEF FillTargets, StateTables
<1>2. PICK k \in DOMAIN Chains[chain][n].fills : f = Chains[chain][n].fills[k]
  BY DEF Range
<1> DEFINE row == FillRow(f, k, n)
           x == <<p, n, row>>
<1>3. row \in RowsOf(chain, n) /\ row.table = p[1]
  BY <1>2 DEF RowsOf, FillRow
<1>4. row \in TableRows(chain, p[1], {n})
  BY <1>3 DEF TableRows
<1>5. x \in Deliveries(t)
  BY <1>1, <1>4, DeliveryFacts
<1>6. x[1] = p /\ x[2] = n /\ x[3] = row
  OBVIOUS
<1>7. Carries(x, f)
  BY <1>2, <1>6 DEF Carries
<1> QED
  BY <1>5, <1>6, <1>7

(* A fill is in a bar as it is among the fills the bar is about.                *)
LEMMA FillArrived ==
    ASSUME IInv, Quiet, NEW t \in FillTargets, NEW key,
           NEW x \in Arrived(t, key), NEW f, Carries(x, f), Priced(f), f.time # <<>>
    PROVE  f \in FillsIn(key)
<1>1. SinkTypes /\ chain \in DOMAIN Chains /\ t \in StateTables
  BY DEF IInv, SinkInv, SinkTypes, FillTargets, StateTables
<1>2. x \in Deliveries(t) /\ key[1] \in Intervals /\ key = BarFor(key[1], x) /\ Times(x) > 0
  <2>1. Times(x) > 0
    BY DEF Arrived
  <2> QED
    BY <1>1, <2>1, ArrivedWhere
<1>3. x[1] \in PathsTo(t) /\ x[2] \in DOMAIN Chains[chain]
  BY <1>1, <1>2, DeliveryFacts
<1>4. x[2] \in 1 .. cursor
  <2>1. x[2] <= cursor
    <3>1. Times(x) = IF x[2] <= cursor THEN 1 ELSE 0
      BY <1>1, <1>2, QuietTimes
    <3> QED
      BY <1>2, <3>1
  <2> QED
    BY <1>1, <1>3, <2>1, Sizes
<1>5. /\ f \in Range(Chains[chain][x[2]].fills) /\ x[3].coin = f.coin
      /\ x[3].time = f.time[1] /\ f.time[1] \in Nat
  BY <1>1, <1>3, CarriedRow
<1>6. key[2] \in {f.coin, ""}
  <2>1. key[2] = CoinOf(x[1], x[3])
    BY <1>2 DEF BarFor
  <2> QED
    BY <1>5, <2>1 DEF CoinOf
<1>7. f.time[1] \in key[3] .. key[3] + key[1] * 60 - 1
  <2> DEFINE i == key[1]
             time == f.time[1]
  <2>1. key[3] = BarOf(i, time)
    BY <1>2, <1>5 DEF BarFor
  <2>2. i \in Nat \ {0} /\ time \in Nat
    BY <1>2, <1>5, IntervalsAssumption
  <2> HIDE DEF i, time
  <2>3. time \in BarOf(i, time) .. BarOf(i, time) + i * 60 - 1
    BY <2>2, InBar
  <2> QED
    BY <2>1, <2>3 DEF i, time
<1> QED
  BY <1>4, <1>5, <1>6, <1>7 DEF FillsIn

(* A fill of a saved block that passes the view arrives in its bar.             *)
LEMMA FillArrives ==
    ASSUME IInv, Quiet, NEW t \in FillTargets, NEW key, Arrived(t, key) # {},
           NEW x \in Deliveries(t), x[2] <= cursor, NEW f, Carries(x, f),
           Passes(x[1][2], x[3]), key[2] = CoinOf(x[1], x[3]),
           f.time # <<>>, f.time[1] \in key[3] .. key[3] + key[1] * 60 - 1
    PROVE  x \in Arrived(t, key)
<1>1. SinkTypes /\ chain \in DOMAIN Chains /\ t \in StateTables
  BY DEF IInv, SinkInv, SinkTypes, FillTargets, StateTables
<1>2. PICK o \in Arrived(t, key) : TRUE
  OBVIOUS
<1> DEFINE i == key[1]
           other == o[3].time
           time == f.time[1]
           p == x[1]
           row == x[3]
<1>3. i \in Intervals /\ key = BarFor(i, o) /\ other \in Nat
  BY <1>1, ArrivedWhere
<1>4. p \in PathsTo(t) /\ x[2] \in DOMAIN Chains[chain]
  BY <1>1, DeliveryFacts
<1>5. row.time = time /\ time \in Nat
  BY <1>1, <1>4, CarriedRow
<1>6. i \in Nat \ {0}
  BY <1>3, IntervalsAssumption
<1>7. key = <<i, key[2], BarOf(i, other)>> /\ key[3] = BarOf(i, other)
  <2>1. key = <<i, CoinOf(o[1], o[3]), BarOf(i, other)>>
    BY <1>3 DEF BarFor
  <2> QED
    BY <2>1
<1> HIDE DEF i, other, time
<1>8. BarOf(i, time) = BarOf(i, other)
  BY <1>3, <1>5, <1>6, <1>7, InBar DEF i, time
<1>9. key = <<key[1], CoinOf(p, row), BarOf(key[1], row.time)>>
  BY <1>5, <1>7, <1>8 DEF i
<1>10. Passes(p[2], row) /\ key[1] \in Intervals
  BY <1>3 DEF i
<1> HIDE DEF p, row
<1>11. key \in KeysHit(p, row)
  BY <1>1, <1>4, <1>9, <1>10, HitIs
<1>12. Times(x) > 0
  BY <1>1, QuietTimes
<1> QED
  BY <1>11, <1>12 DEF Arrived, p, row

-------------------------------------------------------------------------------
(* Matches.                                                                     *)

(* The rows of takers that went into a bar, and the name of their match.        *)
TradeTables == {"ohlcv_fills", "ohlcv_outcomes", "platform"}
OfTaker(x) == x[1][2] # "ohlcv_liquidation" /\ x[3].crossed
TakersIn(t, key) == {x \in Arrived(t, key) : OfTaker(x)}
MatchesIn(key) == MatchesOf({f \in Trades(FillsIn(key)) : f.crossed})
MatchFor(x) == [id |-> x[3].transaction_id, notional |-> x[3].price * x[3].size]

(* A taker's row is worth one transaction and its notional, another nothing.    *)
LEMMA TakerColumns ==
    ASSUME chain \in DOMAIN Chains, NEW t \in TradeTables, NEW x \in Deliveries(t),
           NEW v, v = ValueOf(x[1], x[3]), NEW notional, notional = x[3].price * x[3].size
    PROVE  /\ notional \in Int
           /\ v.transactions = IF OfTaker(x) THEN 1 ELSE 0
           /\ v.taker_buy_volume \in Int /\ v.taker_sell_volume \in Int
           /\ v.taker_buy_volume + v.taker_sell_volume = IF OfTaker(x) THEN notional ELSE 0
<1>1. t \in FillTargets /\ t \in StateTables
  BY DEF TradeTables, FillTargets, StateTables
<1> DEFINE p == x[1]
           row == x[3]
<1>2. p \in PathsTo(t) /\ WellTyped(row) /\ row.table = p[1]
  BY <1>1, DeliveryFacts
<1>3. /\ p[2] = (IF t = "platform" THEN p[2] ELSE t)
      /\ p[2] \in PlatformSources
      /\ p[1] \in {"fills", "fills_liquidation", "outcome_fills"}
      /\ Len(p) = IF t = "platform" THEN 3 ELSE 2
  <2> HIDE DEF p
  <2> QED
    BY <1>1, <1>2, FillPaths
<1>4. row.price \in Int /\ row.size \in Int
  BY <1>2, <1>3 DEF WellTyped
<1>5. notional = row.price * row.size /\ notional \in Int
  BY <1>4
<1>6. v = IF t = "platform" THEN PlatformSums(p[2], OhlcvSums(row)) ELSE OhlcvSums(row)
  <2>1. Sums(p[2], row) = OhlcvSums(row)
    BY <1>3 DEF Sums, PlatformSources
  <2> QED
    BY <2>1, <1>3 DEF ValueOf
<1>7. OfTaker(x) <=> p[2] # "ohlcv_liquidation" /\ row.crossed
  BY DEF OfTaker
<1> HIDE DEF p, row
<1> DEFINE sums == OhlcvSums(row)
<1>8. /\ sums.transactions = IF row.crossed THEN 1 ELSE 0
      /\ sums.taker_buy_volume = IF row.crossed /\ row.side = "BID" THEN notional ELSE 0
      /\ sums.taker_sell_volume = IF row.crossed /\ ~(row.side = "BID") THEN notional ELSE 0
  BY <1>5 DEF OhlcvSums, If
<1> HIDE DEF sums
<1>9. CASE t = "platform"
  <2>1. v = PlatformSums(p[2], sums)
    BY <1>6, <1>9 DEF sums
  <2>2. p[2] # "ohlcv_liquidation" =>
            /\ v.transactions = sums.transactions
            /\ v.taker_buy_volume = sums.taker_buy_volume
            /\ v.taker_sell_volume = sums.taker_sell_volume
    BY <2>1 DEF PlatformSums, If
  <2>3. p[2] = "ohlcv_liquidation" =>
            v.transactions = 0 /\ v.taker_buy_volume = 0 /\ v.taker_sell_volume = 0
    BY <2>1 DEF PlatformSums, If
  <2> QED
    BY <1>5, <1>7, <1>8, <2>2, <2>3
<1>10. CASE t # "platform"
  <2>1. v = sums /\ p[2] # "ohlcv_liquidation"
    BY <1>3, <1>6, <1>10 DEF sums, TradeTables
  <2> QED
    BY <1>5, <1>7, <1>8, <2>1
<1> QED
  BY <1>9, <1>10

(* A row passes a view of trades only if its fill is a trade, priced.           *)
LEMMA PassesTrading ==
    ASSUME chain \in DOMAIN Chains, NEW x, x[2] \in DOMAIN Chains[chain],
           NEW f, Carries(x, f), Passes(x[1][2], x[3]), x[1][2] \in PlatformSources
    PROVE  /\ Priced(f)
           /\ x[1][2] # "ohlcv_liquidation" => Trading(f)
           /\ x[1][2] = "ohlcv_liquidation" => f.liquidation = {f.user}
<1>1. /\ x[3].direction = DirectionName(f.direction)
      /\ x[3].price = ParseF64(f.price) /\ x[3].size = ParseF64(f.size)
      /\ x[3].user = f.user /\ x[3].liquidated_user = f.liquidation
  BY CarriedRow
<1>2. x[3].price > 0 /\ x[3].size > 0
  BY DEF Passes, PlatformSources
<1>3. Priced(f)
  BY <1>1, <1>2 DEF ParseF64, Priced
<1>4. CASE x[1][2] = "ohlcv_fills"
  BY <1>1, <1>3, <1>4 DEF Passes, Trading
<1>5. CASE x[1][2] = "ohlcv_outcomes"
  <2>1. DirectionName(f.direction) \in {"BUY", "SELL"}
    BY <1>1, <1>5 DEF Passes
  <2> QED
    BY <1>3, <1>5, <2>1 DEF Trading, LiquidatedDirections, NoTrades
<1>6. CASE x[1][2] = "ohlcv_liquidation"
  BY <1>1, <1>3, <1>6 DEF Passes
<1> QED
  BY <1>4, <1>5, <1>6 DEF PlatformSources

(* A trade, or a row of a liquidation, has all that FillsWhole promises.        *)
LEMMA FillIsWhole ==
    ASSUME FillsWhole, chain \in DOMAIN Chains, NEW n \in DOMAIN Chains[chain],
           NEW f \in Range(Chains[chain][n].fills),
           Priced(f), Trading(f) \/ f.liquidation # {}
    PROVE  /\ f.coin # "" /\ f.time # <<>> /\ f.price.value > 0 /\ f.size.value > 0
           /\ f.coin \in OutcomeCoins =>
                 /\ DirectionName(f.direction) \in {"BUY", "SELL"} /\ f.liquidation = {}
<1>1. PICK k \in DOMAIN Chains[chain][n].fills : f = Chains[chain][n].fills[k]
  BY DEF Range
<1>2. <<n, k>> \in Places(chain) /\ FillAt(chain, <<n, k>>) = f
  BY <1>1, PlacesAre
<1> QED
  BY <1>2 DEF FillsWhole

(* Where the rows of a trade go.                                                *)
TradePath(t, f) ==
    IF t = "platform"
    THEN <<FillTable(f), IF f.coin \in OutcomeCoins THEN "ohlcv_outcomes" ELSE "ohlcv_fills", t>>
    ELSE <<FillTable(f), t>>

(* It is the only path of a trade to the table that is not of liquidations.     *)
LEMMA TradePathIs ==
    ASSUME NEW t \in TradeTables, NEW p \in PathsTo(t), NEW f, p[1] = FillTable(f),
           p[2] # "ohlcv_liquidation"
    PROVE  /\ p = TradePath(t, f)
           /\ p[2] = IF f.coin \in OutcomeCoins THEN "ohlcv_outcomes" ELSE "ohlcv_fills"
           /\ t # "platform" => (t = "ohlcv_outcomes" <=> f.coin \in OutcomeCoins)
<1>1. t \in FillTargets
  BY DEF TradeTables, FillTargets
<1>2. /\ p = IF t = "platform" THEN <<p[1], p[2], "platform">> ELSE <<p[1], t>>
      /\ p[2] = IF t = "platform" THEN p[2] ELSE t
      /\ p[2] \in PlatformSources /\ p[2] \in ViewsOf(p[1])
  BY <1>1, FillPaths
<1>3. FillTable(f) \in {"fills", "fills_liquidation", "outcome_fills"}
      /\ (FillTable(f) = "outcome_fills" <=> f.coin \in OutcomeCoins)
  BY DEF FillTable
<1>4. p[2] = IF f.coin \in OutcomeCoins THEN "ohlcv_outcomes" ELSE "ohlcv_fills"
  <2> DEFINE table == FillTable(f)
             view == p[2]
  <2>1. view \in ViewsOf(table)
    BY <1>2
  <2> HIDE DEF table, view
  <2>2. CASE table = "fills"
    BY <2>1, <2>2, <1>3 DEF ViewsOf, table, view
  <2>3. CASE table = "fills_liquidation"
    BY <2>1, <2>3, <1>3 DEF ViewsOf, table, view
  <2>4. CASE table = "outcome_fills"
    BY <2>1, <2>4, <1>3 DEF ViewsOf, table, view
  <2> QED
    BY <1>3, <2>2, <2>3, <2>4 DEF table
<1> QED
  BY <1>2, <1>4 DEF TradePath

(* And it is a path, to a table that is about the coin.                         *)
LEMMA TradePathExists ==
    ASSUME NEW t \in TradeTables, NEW f,
           t # "platform" => (t = "ohlcv_outcomes" <=> f.coin \in OutcomeCoins)
    PROVE  /\ TradePath(t, f) \in PathsTo(t) /\ TradePath(t, f)[1] = FillTable(f)
           /\ TradePath(t, f)[2] # "ohlcv_liquidation"
<1> DEFINE table == FillTable(f)
           view == IF f.coin \in OutcomeCoins THEN "ohlcv_outcomes" ELSE "ohlcv_fills"
<1>1. table \in RawTables /\ view \in ViewsOf(table) /\ view \in PlatformSources
  <2>1. CASE f.coin \in OutcomeCoins
    BY <2>1 DEF FillTable, ViewsOf, RawTables, PlatformSources
  <2>2. CASE f.coin \notin OutcomeCoins
    <3>1. table \in {"fills", "fills_liquidation"}
      BY <2>2 DEF FillTable
    <3> HIDE DEF table
    <3>2. "ohlcv_fills" \in ViewsOf(table)
      BY <3>1 DEF ViewsOf
    <3> QED
      BY <2>2, <3>1, <3>2 DEF RawTables, PlatformSources
  <2> QED
    BY <2>1, <2>2
<1>2. view # "ohlcv_liquidation" /\ (t # "platform" => t = view)
  BY DEF TradeTables
<1>3. TradePath(t, f) = IF t = "platform" THEN <<table, view, "platform">> ELSE <<table, view>>
  BY <1>2 DEF TradePath
<1> HIDE DEF table, view
<1>4. <<table, view>> \in PathsOf(table) /\ <<table, view, "platform">> \in PathsOf(table)
  BY <1>1 DEF PathsOf
<1>5. <<table, view>> \in Paths /\ <<table, view, "platform">> \in Paths
  BY <1>1, <1>4 DEF Paths
<1>6. Last(<<table, view>>) = view /\ Last(<<table, view, "platform">>) = "platform"
  BY DEF Last
<1>7. TradePath(t, f) \in PathsTo(t)
  BY <1>2, <1>3, <1>5, <1>6 DEF PathsTo
<1>8. TradePath(t, f)[1] = table /\ TradePath(t, f)[2] = view
  BY <1>3
<1> QED
  BY <1>2, <1>7, <1>8 DEF table

(* The name of a fill's match, as a reader of fills and one of rows gives it.   *)
NameOf(f) == [id |-> f.transaction_id, notional |-> f.price.value * f.size.value]

(* The row of the taker of a match that the bar is about.                       *)
IsTakerRow(t, key, x, f) ==
    /\ Carries(x, f) /\ x[2] \in DOMAIN Chains[chain] /\ Taking(f)
    /\ x[1] = TradePath(t, f) /\ x = <<x[1], x[2], x[3]>>
    /\ f \in FillsIn(key) /\ MatchFor(x) = NameOf(f)

(* The bars of the platform are of no coin.                                     *)
LEMMA CoinOfTrade ==
    ASSUME NEW p, p[2] \in PlatformSources, NEW t, Len(p) = IF t = "platform" THEN 3 ELSE 2,
           NEW row
    PROVE  CoinOf(p, row) = IF t = "platform" THEN "" ELSE row.coin
<1>1. p[2] # "c_deposits_withdrawals"
  BY DEF PlatformSources
<1>2. CASE t = "platform"
  BY <1>1, <1>2 DEF CoinOf
<1>3. CASE t # "platform"
  <2>1. Len(p) # 3
    BY <1>3
  <2> QED
    BY <1>1, <1>3, <2>1 DEF CoinOf
<1> QED
  BY <1>2, <1>3

(* A taker's row is that of a taking fill the bar is about.                     *)
LEMMA TakerRow ==
    ASSUME IInv, Quiet, FillsWhole, NEW t \in TradeTables, NEW key,
           NEW x \in TakersIn(t, key)
    PROVE  \E f : IsTakerRow(t, key, x, f)
<1>1. chain \in DOMAIN Chains /\ t \in FillTargets /\ t \in StateTables
  BY DEF IInv, SinkInv, SinkTypes, TradeTables, FillTargets, StateTables
<1>2. x \in Arrived(t, key) /\ x \in Deliveries(t) /\ OfTaker(x) /\ key \in KeysHit(x[1], x[3])
  BY DEF TakersIn, Arrived
<1>3. /\ x = <<x[1], x[2], x[3]>> /\ x[1] \in PathsTo(t) /\ x[2] \in DOMAIN Chains[chain]
  BY <1>1, <1>2, DeliveryFacts
<1>4. PICK f : Carries(x, f) /\ x[1][1] = FillTable(f)
  BY <1>1, <1>2, FillDelivery
<1> DEFINE p == x[1]
           row == x[3]
<1>5. Passes(p[2], row)
  <2> HIDE DEF p, row
  <2>1. p \in PathsTo(t) /\ key \in KeysHit(p, row)
    BY <1>2, <1>3 DEF p, row
  <2> QED
    BY <1>1, <2>1, HitIs
<1>6. p[2] \in PlatformSources /\ Len(p) = (IF t = "platform" THEN 3 ELSE 2) /\ p[2] # "ohlcv_liquidation"
  <2>1. p[2] # "ohlcv_liquidation"
    BY <1>2 DEF OfTaker
  <2>2. p \in PathsTo(t)
    BY <1>3
  <2> HIDE DEF p
  <2> QED
    BY <1>1, <2>1, <2>2, FillPaths
<1>7. Priced(f) /\ Trading(f)
  BY <1>1, <1>3, <1>4, <1>5, <1>6, PassesTrading
<1>8. /\ row.coin = f.coin /\ row.transaction_id = f.transaction_id /\ row.crossed = f.crossed
      /\ row.price = ParseF64(f.price) /\ row.size = ParseF64(f.size)
      /\ f \in Range(Chains[chain][x[2]].fills)
  BY <1>1, <1>3, <1>4, CarriedRow
<1>9. f.time # <<>>
  BY <1>1, <1>3, <1>7, <1>8, FillIsWhole
<1>10. f \in FillsIn(key)
  BY <1>1, <1>2, <1>4, <1>7, <1>9, FillArrived
<1>11. row.price = f.price.value /\ row.size = f.size.value
  BY <1>7, <1>8 DEF Priced, ParseF64
<1>12. MatchFor(x) = NameOf(f)
  BY <1>8, <1>11 DEF MatchFor, NameOf
<1>13. Taking(f)
  BY <1>2, <1>7, <1>8 DEF Taking, OfTaker
<1>14. p = TradePath(t, f)
  <2>1. p \in PathsTo(t) /\ p[1] = FillTable(f)
    BY <1>3, <1>4
  <2> HIDE DEF p
  <2> QED
    BY <1>6, <2>1, TradePathIs
<1> QED
  BY <1>3, <1>4, <1>10, <1>12, <1>13, <1>14 DEF IsTakerRow

(* A bar of trades is of a coin whose trades go there, or of the platform.      *)
LEMMA BarOfTrades ==
    ASSUME IInv, Quiet, FillsWhole, NEW t \in TradeTables, NEW key, Arrived(t, key) # {}
    PROVE  IF t = "platform" THEN key[2] = ""
           ELSE key[2] # "" /\ (t = "ohlcv_outcomes" <=> key[2] \in OutcomeCoins)
<1>1. SinkTypes /\ chain \in DOMAIN Chains /\ t \in FillTargets /\ t \in StateTables
  BY DEF IInv, SinkInv, SinkTypes, TradeTables, FillTargets, StateTables
<1>2. PICK x \in Arrived(t, key) : TRUE
  OBVIOUS
<1>3. x \in Deliveries(t) /\ key[2] = CoinOf(x[1], x[3]) /\ key \in KeysHit(x[1], x[3])
  <2>1. x \in Deliveries(t) /\ key = BarFor(key[1], x)
    BY <1>1, ArrivedWhere
  <2>2. key[2] = CoinOf(x[1], x[3])
    BY <2>1 DEF BarFor
  <2>3. key \in KeysHit(x[1], x[3])
    BY DEF Arrived
  <2> QED
    BY <2>1, <2>2, <2>3
<1>4. x[1] \in PathsTo(t) /\ x[2] \in DOMAIN Chains[chain]
  BY <1>1, <1>3, DeliveryFacts
<1> DEFINE p == x[1]
           row == x[3]
<1>5. /\ p[2] \in PlatformSources /\ Len(p) = (IF t = "platform" THEN 3 ELSE 2)
      /\ p[2] = IF t = "platform" THEN p[2] ELSE t
  <2>1. p \in PathsTo(t)
    BY <1>4
  <2> HIDE DEF p
  <2> QED
    BY <1>1, <2>1, FillPaths
<1>6. CASE t = "platform"
  BY <1>3, <1>5, <1>6 DEF CoinOf
<1>7. CASE t # "platform"
  <2>1. PICK f : Carries(x, f) /\ p[1] = FillTable(f)
    BY <1>1, <1>3, FillDelivery
  <2>2. Passes(p[2], row)
    <3>1. p \in PathsTo(t) /\ key \in KeysHit(p, row)
      BY <1>3, <1>4
    <3> HIDE DEF p, row
    <3> QED
      BY <1>1, <3>1, HitIs
  <2>3. p[2] # "ohlcv_liquidation"
    BY <1>5, <1>7 DEF TradeTables
  <2>4. Priced(f) /\ Trading(f)
    BY <1>1, <1>4, <1>5, <2>1, <2>2, <2>3, PassesTrading
  <2>5. row.coin = f.coin /\ f \in Range(Chains[chain][x[2]].fills)
    BY <1>1, <1>4, <2>1, CarriedRow
  <2>6. f.coin # ""
    BY <1>1, <1>4, <2>4, <2>5, FillIsWhole
  <2>7. t = "ohlcv_outcomes" <=> f.coin \in OutcomeCoins
    <3>1. p \in PathsTo(t)
      BY <1>4
    <3> HIDE DEF p
    <3> QED
      BY <1>7, <2>1, <2>3, <3>1, TradePathIs
  <2>8. key[2] = f.coin
    <3>1. row.coin = f.coin /\ key[2] = CoinOf(p, row)
      BY <1>3, <2>5
    <3> HIDE DEF p, row
    <3>2. CoinOf(p, row) = IF t = "platform" THEN "" ELSE row.coin
      BY <1>5, CoinOfTrade
    <3> QED
      BY <1>7, <3>1, <3>2
  <2> QED
    BY <1>7, <2>6, <2>7, <2>8
<1> QED
  BY <1>6, <1>7

(* Each match of a bar has a taker's row there.                                 *)
LEMMA MatchHasRow ==
    ASSUME IInv, Quiet, FillsWhole, NEW t \in TradeTables, NEW key, Arrived(t, key) # {},
           NEW f \in FillsIn(key), Trading(f), f.crossed
    PROVE  \E x \in TakersIn(t, key) : Carries(x, f)
<1>1. SinkTypes /\ chain \in DOMAIN Chains /\ t \in FillTargets /\ t \in StateTables
  BY DEF IInv, SinkInv, SinkTypes, TradeTables, FillTargets, StateTables
<1>2. PICK n \in 1 .. cursor : f \in Range(Chains[chain][n].fills)
  BY DEF FillsIn
<1>3. /\ key[2] \in {f.coin, ""} /\ Priced(f) /\ f.time # <<>>
      /\ f.time[1] \in key[3] .. key[3] + key[1] * 60 - 1
  BY DEF FillsIn
<1>4. n \in DOMAIN Chains[chain] /\ n <= cursor
  BY <1>1, <1>2, Sizes
<1>5. /\ f.coin # "" /\ f.price.value > 0 /\ f.size.value > 0
      /\ f.coin \in OutcomeCoins => DirectionName(f.direction) \in {"BUY", "SELL"}
  BY <1>1, <1>2, <1>3, <1>4, FillIsWhole
<1>6. IF t = "platform" THEN key[2] = ""
      ELSE key[2] # "" /\ (t = "ohlcv_outcomes" <=> key[2] \in OutcomeCoins)
  BY BarOfTrades
<1>7. t # "platform" => key[2] = f.coin /\ (t = "ohlcv_outcomes" <=> f.coin \in OutcomeCoins)
  BY <1>3, <1>6
<1> DEFINE p == TradePath(t, f)
<1>8. p \in PathsTo(t) /\ p[1] = FillTable(f) /\ p[2] # "ohlcv_liquidation"
  BY <1>7, TradePathExists
<1> HIDE DEF p
<1>9. /\ p[2] = IF f.coin \in OutcomeCoins THEN "ohlcv_outcomes" ELSE "ohlcv_fills"
  BY <1>8, TradePathIs
<1>10. Len(p) = IF t = "platform" THEN 3 ELSE 2
  BY <1>1, <1>8, FillPaths
<1>11. PICK x \in Deliveries(t) : x[1] = p /\ x[2] = n /\ Carries(x, f)
  BY <1>1, <1>2, <1>4, <1>8, FillDelivered
<1>12. /\ x[3].coin = f.coin /\ x[3].direction = DirectionName(f.direction)
       /\ x[3].price = f.price.value /\ x[3].size = f.size.value /\ x[3].crossed = f.crossed
  <2>1. /\ x[3].coin = f.coin /\ x[3].direction = DirectionName(f.direction)
        /\ x[3].price = ParseF64(f.price) /\ x[3].size = ParseF64(f.size)
        /\ x[3].crossed = f.crossed
    BY <1>1, <1>4, <1>11, CarriedRow
  <2> QED
    BY <1>3, <2>1 DEF Priced, ParseF64
<1>13. Passes(x[1][2], x[3])
  <2>1. CASE f.coin \in OutcomeCoins
    BY <1>5, <1>9, <1>11, <1>12, <2>1 DEF Passes
  <2>2. CASE f.coin \notin OutcomeCoins
    BY <1>5, <1>9, <1>11, <1>12, <2>2 DEF Passes, Trading
  <2> QED
    BY <2>1, <2>2
<1>14. key[2] = CoinOf(x[1], x[3])
  <2> DEFINE row == x[3]
  <2>1. row.coin = f.coin /\ x[1] = p
    BY <1>11, <1>12
  <2>2. p[2] \in PlatformSources
    BY <1>9 DEF PlatformSources
  <2> HIDE DEF row
  <2>3. CoinOf(p, row) = IF t = "platform" THEN "" ELSE row.coin
    BY <1>10, <2>2, CoinOfTrade
  <2> QED
    BY <1>6, <1>7, <2>1, <2>3 DEF row
<1>15. x \in Arrived(t, key)
  BY <1>1, <1>3, <1>4, <1>11, <1>13, <1>14, FillArrives
<1>16. OfTaker(x)
  BY <1>8, <1>11, <1>12 DEF OfTaker
<1> QED
  BY <1>11, <1>15, <1>16 DEF TakersIn

(* As a match has one taker, the takers' rows name the matches one to one.      *)
LEMMA TakersAreMatches ==
    ASSUME IInv, Quiet, FillsWhole, OneTakerRow, NEW t \in TradeTables, NEW key,
           Arrived(t, key) # {}, NEW h, \A x \in TakersIn(t, key) : h[x] = MatchFor(x)
    PROVE  OneToOne(h, TakersIn(t, key), MatchesIn(key))
<1> DEFINE S == TakersIn(t, key)
           Y == MatchesIn(key)
<1>1. \A m : m \in Y <=> \E f \in FillsIn(key) : Trading(f) /\ f.crossed /\ m = NameOf(f)
  BY DEF MatchesIn, MatchesOf, Trades, NameOf
<1>2. ASSUME NEW x \in S
      PROVE  \E f : /\ Carries(x, f) /\ x[2] \in DOMAIN Chains[chain] /\ Taking(f)
                    /\ x[1] = TradePath(t, f) /\ x = <<x[1], x[2], x[3]>>
                    /\ f \in FillsIn(key) /\ h[x] = NameOf(f)
  <2>1. h[x] = MatchFor(x)
    OBVIOUS
  <2>2. PICK f : IsTakerRow(t, key, x, f)
    BY TakerRow
  <2> QED
    BY <2>1, <2>2 DEF IsTakerRow
<1>3. chain \in DOMAIN Chains
  BY DEF IInv, SinkInv, SinkTypes
<1> HIDE DEF S, Y
<1>4. ASSUME NEW x \in S PROVE h[x] \in Y
  BY <1>1, <1>2 DEF Taking
<1>5. ASSUME NEW m \in Y PROVE \E x \in S : h[x] = m
  <2>1. PICK f \in FillsIn(key) : Trading(f) /\ f.crossed /\ m = NameOf(f)
    BY <1>1
  <2>2. PICK x \in S : Carries(x, f)
    BY <2>1, MatchHasRow DEF S
  <2>3. PICK g : /\ Carries(x, g) /\ x[2] \in DOMAIN Chains[chain] /\ h[x] = NameOf(g)
    BY <1>2
  <2>4. f = g
    BY <1>3, <2>2, <2>3, CarriedRow
  <2> QED
    BY <2>1, <2>2, <2>3, <2>4
<1>6. ASSUME NEW x \in S, NEW z \in S, h[x] = h[z] PROVE x = z
  <2>1. PICK f : /\ Carries(x, f) /\ x[2] \in DOMAIN Chains[chain] /\ Taking(f)
                 /\ x[1] = TradePath(t, f) /\ x = <<x[1], x[2], x[3]>> /\ h[x] = NameOf(f)
    BY <1>2
  <2>2. PICK g : /\ Carries(z, g) /\ z[2] \in DOMAIN Chains[chain] /\ Taking(g)
                 /\ z[1] = TradePath(t, g) /\ z = <<z[1], z[2], z[3]>> /\ h[z] = NameOf(g)
    BY <1>2
  <2>3. /\ x[3].index \in DOMAIN Chains[chain][x[2]].fills
        /\ f = Chains[chain][x[2]].fills[x[3].index] /\ x[3] = FillRow(f, x[3].index, x[2])
    BY <1>3, <2>1, CarriedRow
  <2>4. /\ z[3].index \in DOMAIN Chains[chain][z[2]].fills
        /\ g = Chains[chain][z[2]].fills[z[3].index] /\ z[3] = FillRow(g, z[3].index, z[2])
    BY <1>3, <2>2, CarriedRow
  <2>5. f.transaction_id = g.transaction_id
    <3>1. NameOf(f) = NameOf(g)
      BY <1>6, <2>1, <2>2
    <3>2. NameOf(f).id = f.transaction_id /\ NameOf(g).id = g.transaction_id
      BY DEF NameOf
    <3> QED
      BY <3>1, <3>2
  <2> DEFINE at == <<x[2], x[3].index>>
             other == <<z[2], z[3].index>>
  <2>6. at \in Places(chain) /\ FillAt(chain, at) = f
    BY <2>1, <2>3, PlacesAre
  <2>7. other \in Places(chain) /\ FillAt(chain, other) = g
    BY <2>2, <2>4, PlacesAre
  <2> HIDE DEF at, other
  <2>8. at = other
    BY <1>3, <2>1, <2>2, <2>5, <2>6, <2>7 DEF OneTakerRow
  <2>9. x[2] = z[2] /\ x[3].index = z[3].index
    BY <2>8 DEF at, other
  <2>10. f = g /\ x[3] = z[3] /\ x[1] = z[1]
    BY <2>1, <2>2, <2>3, <2>4, <2>9
  <2> QED
    BY <2>1, <2>2, <2>9, <2>10
<1> QED
  BY <1>4, <1>5, <1>6 DEF OneToOne, S, Y

(* So the columns of a bar count its matches, and their notional.               *)
LEMMA MatchesCounted ==
    ASSUME IInv, Quiet, FillsWhole, OneTakerRow, NEW t \in TradeTables,
           NEW r \in Merged(state[t])
    PROVE  /\ r.sum.transactions = Cardinality(MatchesIn(r.key))
           /\ r.sum.taker_buy_volume + r.sum.taker_sell_volume = Volume(MatchesIn(r.key))
<1> DEFINE X == Deliveries(t)
           A == Arrived(t, r.key)
           S == TakersIn(t, r.key)
           Y == MatchesIn(r.key)
           h == [x \in S |-> MatchFor(x)]
           count == [x \in X |-> ValueOf(x[1], x[3]).transactions]
           buy == [x \in X |-> ValueOf(x[1], x[3]).taker_buy_volume]
           sell == [x \in X |-> ValueOf(x[1], x[3]).taker_sell_volume]
           both == [x \in X |-> buy[x] + sell[x]]
           notional == [m \in Y |-> m.notional]
<1>1. chain \in DOMAIN Chains /\ t \in StateTables
  BY DEF IInv, SinkInv, SinkTypes, TradeTables, StateTables
<1>2. {"transactions", "taker_buy_volume", "taker_sell_volume"} \subseteq Columns(t)
  BY DEF Columns, TradeTables
<1>3. A # {}
  BY <1>1, ReadBars
<1>4. /\ r.sum.transactions = SumOver(count, A) /\ \A x \in X : count[x] \in Int
      /\ IsFiniteSet(A) /\ A \subseteq X
  <2>1. \A x \in X : count[x] = ValueOf(x[1], x[3])["transactions"]
    OBVIOUS
  <2> HIDE DEF count
  <2> QED
    BY <1>1, <1>2, <2>1, QuietSum
<1>5. r.sum.taker_buy_volume = SumOver(buy, A) /\ \A x \in X : buy[x] \in Int
  <2>1. \A x \in X : buy[x] = ValueOf(x[1], x[3])["taker_buy_volume"]
    OBVIOUS
  <2> HIDE DEF buy
  <2> QED
    BY <1>1, <1>2, <2>1, QuietSum
<1>6. r.sum.taker_sell_volume = SumOver(sell, A) /\ \A x \in X : sell[x] \in Int
  <2>1. \A x \in X : sell[x] = ValueOf(x[1], x[3])["taker_sell_volume"]
    OBVIOUS
  <2> HIDE DEF sell
  <2> QED
    BY <1>1, <1>2, <2>1, QuietSum
<1>7. ASSUME NEW x \in X
      PROVE  /\ MatchFor(x).notional \in Int /\ both[x] = buy[x] + sell[x]
             /\ count[x] = IF OfTaker(x) THEN 1 ELSE 0
             /\ both[x] = IF OfTaker(x) THEN MatchFor(x).notional ELSE 0
  <2> DEFINE v == ValueOf(x[1], x[3])
             product == x[3].price * x[3].size
  <2>1. MatchFor(x).notional = product
    BY DEF MatchFor
  <2>2. count[x] = v.transactions /\ both[x] = v.taker_buy_volume + v.taker_sell_volume
        /\ both[x] = buy[x] + sell[x]
    OBVIOUS
  <2>3. v = ValueOf(x[1], x[3]) /\ product = x[3].price * x[3].size
    OBVIOUS
  <2> HIDE DEF v, product, both, count
  <2>4. /\ product \in Int /\ v.transactions = (IF OfTaker(x) THEN 1 ELSE 0)
        /\ v.taker_buy_volume + v.taker_sell_volume = IF OfTaker(x) THEN product ELSE 0
    BY <1>1, <2>3, TakerColumns
  <2> QED
    BY <2>1, <2>2, <2>4
<1>8. S \subseteq A /\ \A x \in A : x \in S <=> OfTaker(x)
  BY DEF TakersIn
<1>9. /\ \A x \in S : h[x] = MatchFor(x)
      /\ \A m \in Y : notional[m] = m.notional
      /\ Volume(Y) = SumOver(notional, Y)
  <2>1. [m \in Y |-> notional[m]] = [m \in Y |-> m.notional]
    OBVIOUS
  <2> QED
    BY <2>1 DEF Volume, SumOver
<1> HIDE DEF X, A, Y, S, h, count, buy, sell, both, notional
<1>10. OneToOne(h, S, Y)
  BY <1>3, <1>9, TakersAreMatches DEF S, Y, A
<1>11. IsFiniteSet(S)
  BY <1>4, <1>8, FS_Subset
<1>12. /\ IsFiniteSet(Y) /\ Cardinality(Y) = Cardinality(S)
       /\ \A f, g : (\A x \in S : f[x] \in Int /\ g[h[x]] = f[x]) => SumOver(f, S) = SumOver(g, Y)
  BY <1>10, <1>11, Renamed
<1>13. SumOver(count, A) = Cardinality(Y)
  <2>1. SumOver(count, A) = SumOver(count, S)
    <3>1. \A x \in A \ S : count[x] = 0
      BY <1>4, <1>7, <1>8
    <3>2. \A x \in A : count[x] \in Int
      BY <1>4
    <3> QED
      BY <1>4, <1>8, <3>1, <3>2, SumOfSome
  <2>2. \A x \in S : count[x] = 1
    BY <1>4, <1>7, <1>8
  <2>3. SumOver(count, S) = Cardinality(S) * 1
    BY <1>11, <2>2, SumOfEqual
  <2> DEFINE k == Cardinality(S)
  <2>4. k \in Nat
    BY <1>11, FS_CardinalityType
  <2> HIDE DEF k
  <2>5. k * 1 = k
    BY <2>4
  <2> QED
    BY <1>12, <2>1, <2>3, <2>5 DEF k
<1>14. SumOver(buy, A) + SumOver(sell, A) = SumOver(notional, Y)
  <2>1. SumOver(both, A) = SumOver(buy, A) + SumOver(sell, A)
    <3>1. \A x \in A : buy[x] \in Int /\ sell[x] \in Int /\ both[x] = buy[x] + sell[x]
      BY <1>4, <1>5, <1>6, <1>7
    <3> QED
      BY <1>4, <3>1, SumPlus
  <2>2. \A x \in A : both[x] \in Int
    BY <1>4, <1>7
  <2>3. SumOver(both, A) = SumOver(both, S)
    <3>1. \A x \in A \ S : both[x] = 0
      BY <1>4, <1>7, <1>8
    <3> QED
      BY <1>4, <1>8, <2>2, <3>1, SumOfSome
  <2>4. \A x \in S : both[x] \in Int /\ notional[h[x]] = both[x]
    <3> SUFFICES ASSUME NEW x \in S PROVE both[x] \in Int /\ notional[h[x]] = both[x]
      OBVIOUS
    <3>1. x \in X /\ OfTaker(x) /\ h[x] \in Y
      BY <1>4, <1>8, <1>10 DEF OneToOne
    <3> QED
      BY <3>1, <1>7, <1>9
  <2>5. SumOver(both, S) = SumOver(notional, Y)
    BY <1>12, <2>4
  <2> QED
    BY <2>1, <2>3, <2>5
<1> QED
  BY <1>4, <1>5, <1>6, <1>9, <1>13, <1>14 DEF Y

(* Whatever the bar.                                                            *)
LEMMA QuietMatches == FillsWhole /\ OneTakerRow /\ IInv => MatchesOnce
<1> SUFFICES ASSUME FillsWhole, OneTakerRow, IInv, Quiet,
                    NEW t \in TradeTables, NEW r \in Merged(state[t])
             PROVE  /\ r.sum.transactions = Cardinality(MatchesIn(r.key))
                    /\ r.sum.taker_buy_volume + r.sum.taker_sell_volume = Volume(MatchesIn(r.key))
  BY DEF MatchesOnce, TradeTables, MatchesIn
<1> QED
  BY MatchesCounted

(* If the fills are whole and a match has one taker's row, then whenever no     *)
(* insert has failed half-way every bar of trades counts each match of the      *)
(* saved blocks once, in its transactions and in the taker volume: the sums     *)
(* over the crossed rows of schema.2.mv.state_ohlcv_fills,                      *)
(* schema.2.mv.state_ohlcv_outcomes and of what schema.4.mv.state_platform      *)
(* takes from them.                                                             *)
THEOREM MatchesCountOnce ==
    ASSUME FillsWhole, OneTakerRow
    PROVE  Spec => []MatchesOnce
<1>1. IInv => MatchesOnce
  BY QuietMatches
<1> QED
  BY AlwaysIInv, <1>1, PTL

-------------------------------------------------------------------------------
(* Liquidations.                                                                *)

(* The rows of liquidated users that went into a bar of the platform.           *)
OfLiquidation(x) == x[1][2] = "ohlcv_liquidation"
LiquidatedIn(key) == {x \in Arrived("platform", key) : OfLiquidation(x)}
LiquidationsIn(key) == MatchesOf({f \in FillsIn(key) : f.liquidation # {}})
LiquidationPath == <<"fills_liquidation", "ohlcv_liquidation", "platform">>

(* Such a row is worth its notional, and one transaction if it is the taker's.  *)
LEMMA LiquidationColumns ==
    ASSUME chain \in DOMAIN Chains, NEW x \in Deliveries("platform"),
           NEW v, v = ValueOf(x[1], x[3]), NEW notional, notional = x[3].price * x[3].size
    PROVE  /\ notional \in Int
           /\ v.liq_total_volume = IF OfLiquidation(x) THEN notional ELSE 0
           /\ v.liq_transactions = IF OfLiquidation(x) /\ x[3].crossed THEN 1 ELSE 0
<1>1. "platform" \in FillTargets /\ "platform" \in StateTables
  BY DEF FillTargets, StateTables
<1> DEFINE p == x[1]
           row == x[3]
<1>2. p \in PathsTo("platform") /\ WellTyped(row) /\ row.table = p[1]
  BY <1>1, DeliveryFacts
<1>3. /\ p[2] \in PlatformSources /\ Len(p) = 3
      /\ p[1] \in {"fills", "fills_liquidation", "outcome_fills"}
  <2> HIDE DEF p
  <2> QED
    BY <1>1, <1>2, FillPaths
<1>4. row.price \in Int /\ row.size \in Int
  BY <1>2, <1>3 DEF WellTyped
<1>5. notional = row.price * row.size /\ notional \in Int
  BY <1>4
<1>6. v = PlatformSums(p[2], OhlcvSums(row))
  <2>1. Sums(p[2], row) = OhlcvSums(row)
    BY <1>3 DEF Sums, PlatformSources
  <2> QED
    BY <2>1, <1>3 DEF ValueOf
<1>7. OfLiquidation(x) <=> p[2] = "ohlcv_liquidation"
  BY DEF OfLiquidation
<1> HIDE DEF p, row
<1> DEFINE sums == OhlcvSums(row)
<1>8. /\ sums.transactions = IF row.crossed THEN 1 ELSE 0
      /\ sums.side_buy_volume = IF row.side = "BID" THEN notional ELSE 0
      /\ sums.side_ask_volume = IF ~(row.side = "BID") THEN notional ELSE 0
  BY <1>5 DEF OhlcvSums, If
<1>9. v = PlatformSums(p[2], sums)
  BY <1>6
<1> HIDE DEF sums
<1>10. sums.side_buy_volume + sums.side_ask_volume = notional
  <2>1. CASE row.side = "BID"
    BY <1>5, <1>8, <2>1
  <2>2. CASE ~(row.side = "BID")
    BY <1>5, <1>8, <2>2
  <2> QED
    BY <2>1, <2>2
<1>11. /\ p[2] = "ohlcv_liquidation" =>
             /\ v.liq_total_volume = sums.side_buy_volume + sums.side_ask_volume
             /\ v.liq_transactions = sums.transactions
       /\ p[2] # "ohlcv_liquidation" => v.liq_total_volume = 0 /\ v.liq_transactions = 0
  BY <1>9 DEF PlatformSums, If
<1> QED
  BY <1>5, <1>7, <1>8, <1>10, <1>11 DEF row

(* The row of the liquidated user of a liquidation that the bar is about.       *)
IsLiquidatedRow(key, x, f) ==
    /\ Carries(x, f) /\ x[2] \in DOMAIN Chains[chain] /\ OfLiquidated(f)
    /\ x[1] = LiquidationPath /\ x = <<x[1], x[2], x[3]>>
    /\ f \in FillsIn(key) /\ f.liquidation # {} /\ MatchFor(x) = NameOf(f)

(* Such a row is that of a fill of the user it liquidates.                      *)
LEMMA LiquidatedRow ==
    ASSUME IInv, Quiet, FillsWhole, NEW key, NEW x \in LiquidatedIn(key)
    PROVE  \E f : IsLiquidatedRow(key, x, f)
<1> DEFINE t == "platform"
           p == x[1]
           row == x[3]
<1>1. chain \in DOMAIN Chains /\ t \in FillTargets /\ t \in StateTables
  BY DEF IInv, SinkInv, SinkTypes, FillTargets, StateTables
<1>2. x \in Arrived(t, key) /\ x \in Deliveries(t) /\ OfLiquidation(x) /\ key \in KeysHit(x[1], x[3])
  BY DEF LiquidatedIn, Arrived
<1>3. /\ x = <<x[1], x[2], x[3]>> /\ x[1] \in PathsTo(t) /\ x[2] \in DOMAIN Chains[chain]
  BY <1>1, <1>2, DeliveryFacts
<1>4. PICK f : Carries(x, f) /\ x[1][1] = FillTable(f)
  BY <1>1, <1>2, FillDelivery
<1>5. Passes(p[2], row)
  <2> HIDE DEF p, row
  <2>1. p \in PathsTo(t) /\ key \in KeysHit(p, row)
    BY <1>2, <1>3 DEF p, row
  <2> QED
    BY <1>1, <2>1, HitIs
<1>6. p[2] \in PlatformSources /\ p[2] = "ohlcv_liquidation"
  BY <1>2 DEF OfLiquidation, PlatformSources
<1>7. OfLiquidated(f) /\ Priced(f) /\ f.liquidation # {}
  BY <1>1, <1>3, <1>4, <1>5, <1>6, PassesTrading DEF OfLiquidated
<1>8. /\ row.transaction_id = f.transaction_id
      /\ row.price = ParseF64(f.price) /\ row.size = ParseF64(f.size)
      /\ f \in Range(Chains[chain][x[2]].fills)
  BY <1>1, <1>3, <1>4, CarriedRow
<1>9. f.time # <<>>
  BY <1>1, <1>3, <1>7, <1>8, FillIsWhole
<1>10. f \in FillsIn(key)
  BY <1>1, <1>2, <1>4, <1>7, <1>9, FillArrived
<1>11. row.price = f.price.value /\ row.size = f.size.value
  BY <1>7, <1>8 DEF Priced, ParseF64
<1>12. MatchFor(x) = NameOf(f)
  BY <1>8, <1>11 DEF MatchFor, NameOf
<1>13. p = LiquidationPath
  <2>1. p \in PathsTo(t)
    BY <1>3
  <2> HIDE DEF p
  <2>2. p = <<p[1], p[2], "platform">> /\ p[2] \in ViewsOf(p[1])
        /\ p[1] \in {"fills", "fills_liquidation", "outcome_fills"}
    BY <1>1, <2>1, FillPaths
  <2>3. p[1] = "fills_liquidation"
    BY <1>6, <2>2 DEF ViewsOf
  <2> QED
    BY <1>6, <2>2, <2>3 DEF LiquidationPath
<1> QED
  BY <1>3, <1>4, <1>7, <1>10, <1>12, <1>13 DEF IsLiquidatedRow

(* Each liquidation of a bar has the liquidated user's row there.               *)
LEMMA LiquidationHasRow ==
    ASSUME IInv, Quiet, FillsWhole, OneLiquidatedRow, NEW key, Arrived("platform", key) # {},
           NEW f \in FillsIn(key), f.liquidation # {}
    PROVE  \E x \in LiquidatedIn(key) : \E g : Carries(x, g) /\ NameOf(g) = NameOf(f)
<1> DEFINE t == "platform"
           p == LiquidationPath
<1>1. SinkTypes /\ chain \in DOMAIN Chains /\ t \in FillTargets /\ t \in StateTables
      /\ t \in TradeTables
  BY DEF IInv, SinkInv, SinkTypes, TradeTables, FillTargets, StateTables
<1>2. PICK n \in 1 .. cursor : f \in Range(Chains[chain][n].fills)
  BY DEF FillsIn
<1>3. Priced(f) /\ f.time # <<>> /\ f.time[1] \in key[3] .. key[3] + key[1] * 60 - 1
  BY DEF FillsIn
<1>4. n \in DOMAIN Chains[chain] /\ n <= cursor
  BY <1>1, <1>2, Sizes
<1>5. PICK k \in DOMAIN Chains[chain][n].fills : f = Chains[chain][n].fills[k]
  BY <1>2 DEF Range
<1> DEFINE at == <<n, k>>
<1>6. at \in Places(chain) /\ FillAt(chain, at) = f /\ at[1] = n
  BY <1>4, <1>5, PlacesAre
<1> HIDE DEF at
<1>7. PICK other \in Places(chain) :
          LET g == FillAt(chain, other)
          IN  /\ other[1] = at[1] /\ OfLiquidated(g)
              /\ g.transaction_id = f.transaction_id /\ g.time = f.time
              /\ g.price = f.price /\ g.size = f.size
  BY <1>1, <1>3, <1>6 DEF OneLiquidatedRow
<1> DEFINE g == FillAt(chain, other)
<1>8. /\ other[1] = n /\ OfLiquidated(g) /\ g.transaction_id = f.transaction_id
      /\ g.time = f.time /\ g.price = f.price /\ g.size = f.size
  BY <1>6, <1>7
<1>9. g \in Range(Chains[chain][n].fills)
  <2>1. PICK m \in DOMAIN Chains[chain] : \E j \in DOMAIN Chains[chain][m].fills : other = <<m, j>>
    BY DEF Places
  <2>2. PICK j \in DOMAIN Chains[chain][m].fills : other = <<m, j>>
    BY <2>1
  <2>3. m = n /\ g = Chains[chain][n].fills[j] /\ j \in DOMAIN Chains[chain][n].fills
    BY <2>2, <1>8 DEF FillAt
  <2> QED
    BY <2>3 DEF Range
<1> HIDE DEF g
<1>10. Priced(g) /\ g.liquidation = {g.user} /\ g.liquidation # {}
  BY <1>8 DEF OfLiquidated
<1>11. g.price.value > 0 /\ g.size.value > 0 /\ g.coin \notin OutcomeCoins
  BY <1>1, <1>4, <1>9, <1>10, FillIsWhole
<1>12. p \in PathsTo(t) /\ p[1] = FillTable(g) /\ p[2] = "ohlcv_liquidation"
  <2>1. p[1] = "fills_liquidation" /\ p[2] = "ohlcv_liquidation" /\ FillTable(g) = "fills_liquidation"
    BY <1>10, <1>11 DEF FillTable, LiquidationPath
  <2>2. p \in PathsOf("fills_liquidation") /\ "fills_liquidation" \in RawTables
    BY DEF PathsOf, ViewsOf, PlatformSources, LiquidationPath, RawTables
  <2>3. p \in Paths
    BY <2>2 DEF Paths
  <2>4. Last(p) = t
    BY DEF Last, LiquidationPath
  <2> QED
    BY <2>1, <2>3, <2>4 DEF PathsTo
<1> HIDE DEF p
<1>13. PICK x \in Deliveries(t) : x[1] = p /\ x[2] = n /\ Carries(x, g)
  BY <1>1, <1>4, <1>9, <1>12, FillDelivered
<1>14. /\ x[3].price = g.price.value /\ x[3].size = g.size.value
       /\ x[3].user = g.user /\ x[3].liquidated_user = g.liquidation
  <2>1. /\ x[3].price = ParseF64(g.price) /\ x[3].size = ParseF64(g.size)
        /\ x[3].user = g.user /\ x[3].liquidated_user = g.liquidation
    BY <1>1, <1>4, <1>13, CarriedRow
  <2> QED
    BY <1>10, <2>1 DEF Priced, ParseF64
<1>15. Passes(x[1][2], x[3])
  BY <1>10, <1>11, <1>12, <1>13, <1>14 DEF Passes
<1>16. key[2] = CoinOf(x[1], x[3])
  <2> DEFINE row == x[3]
  <2>1. p[2] \in PlatformSources /\ Len(p) = 3
    BY <1>12 DEF PlatformSources, LiquidationPath, p
  <2>2. CoinOf(p, row) = ""
    BY <2>1 DEF CoinOf
  <2>3. key[2] = ""
    BY <1>1, BarOfTrades
  <2> QED
    BY <1>13, <2>2, <2>3
<1>17. x \in Arrived(t, key)
  BY <1>1, <1>3, <1>4, <1>8, <1>13, <1>15, <1>16, FillArrives
<1>18. x \in LiquidatedIn(key)
  BY <1>12, <1>13, <1>17 DEF LiquidatedIn, OfLiquidation
<1>19. NameOf(g) = NameOf(f)
  BY <1>8 DEF NameOf
<1> QED
  BY <1>13, <1>18, <1>19

(* As a liquidation has one row of the liquidated user, these rows name the     *)
(* liquidations one to one.                                                     *)
LEMMA LiquidatedAreLiquidations ==
    ASSUME IInv, Quiet, FillsWhole, OneLiquidatedRow, NEW key, Arrived("platform", key) # {},
           NEW h, \A x \in LiquidatedIn(key) : h[x] = MatchFor(x)
    PROVE  OneToOne(h, LiquidatedIn(key), LiquidationsIn(key))
<1> DEFINE S == LiquidatedIn(key)
           Y == LiquidationsIn(key)
<1>1. \A m : m \in Y <=> \E f \in FillsIn(key) : f.liquidation # {} /\ m = NameOf(f)
  BY DEF LiquidationsIn, MatchesOf, NameOf
<1>2. ASSUME NEW x \in S
      PROVE  \E f : IsLiquidatedRow(key, x, f) /\ h[x] = NameOf(f)
  <2>1. h[x] = MatchFor(x)
    OBVIOUS
  <2>2. PICK f : IsLiquidatedRow(key, x, f)
    BY LiquidatedRow
  <2> QED
    BY <2>1, <2>2 DEF IsLiquidatedRow
<1>3. chain \in DOMAIN Chains
  BY DEF IInv, SinkInv, SinkTypes
<1> HIDE DEF S, Y
<1>4. ASSUME NEW x \in S PROVE h[x] \in Y
  BY <1>1, <1>2 DEF IsLiquidatedRow
<1>5. ASSUME NEW m \in Y PROVE \E x \in S : h[x] = m
  <2>1. PICK f \in FillsIn(key) : f.liquidation # {} /\ m = NameOf(f)
    BY <1>1
  <2>2. PICK x \in S : \E g : Carries(x, g) /\ NameOf(g) = NameOf(f)
    BY <2>1, LiquidationHasRow DEF S
  <2>3. PICK g : Carries(x, g) /\ NameOf(g) = NameOf(f)
    BY <2>2
  <2>4. PICK d : IsLiquidatedRow(key, x, d) /\ h[x] = NameOf(d)
    BY <1>2
  <2>5. d = g
    <3>1. Carries(x, d) /\ x[2] \in DOMAIN Chains[chain]
      BY <2>4 DEF IsLiquidatedRow
    <3> QED
      BY <1>3, <2>3, <3>1, CarriedRow
  <2> QED
    BY <2>1, <2>3, <2>4, <2>5
<1>6. ASSUME NEW x \in S, NEW z \in S, h[x] = h[z] PROVE x = z
  <2>1. PICK f : IsLiquidatedRow(key, x, f) /\ h[x] = NameOf(f)
    BY <1>2
  <2>2. PICK g : IsLiquidatedRow(key, z, g) /\ h[z] = NameOf(g)
    BY <1>2
  <2>3. /\ Carries(x, f) /\ x[2] \in DOMAIN Chains[chain] /\ OfLiquidated(f)
        /\ x[1] = LiquidationPath /\ x = <<x[1], x[2], x[3]>>
    BY <2>1 DEF IsLiquidatedRow
  <2>4. /\ Carries(z, g) /\ z[2] \in DOMAIN Chains[chain] /\ OfLiquidated(g)
        /\ z[1] = LiquidationPath /\ z = <<z[1], z[2], z[3]>>
    BY <2>2 DEF IsLiquidatedRow
  <2>5. /\ x[3].index \in DOMAIN Chains[chain][x[2]].fills
        /\ f = Chains[chain][x[2]].fills[x[3].index] /\ x[3] = FillRow(f, x[3].index, x[2])
    BY <1>3, <2>3, CarriedRow
  <2>6. /\ z[3].index \in DOMAIN Chains[chain][z[2]].fills
        /\ g = Chains[chain][z[2]].fills[z[3].index] /\ z[3] = FillRow(g, z[3].index, z[2])
    BY <1>3, <2>4, CarriedRow
  <2>7. f.transaction_id = g.transaction_id
    <3>1. NameOf(f) = NameOf(g)
      BY <1>6, <2>1, <2>2
    <3>2. NameOf(f).id = f.transaction_id /\ NameOf(g).id = g.transaction_id
      BY DEF NameOf
    <3> QED
      BY <3>1, <3>2
  <2> DEFINE at == <<x[2], x[3].index>>
             other == <<z[2], z[3].index>>
  <2>8. at \in Places(chain) /\ FillAt(chain, at) = f
    BY <2>3, <2>5, PlacesAre
  <2>9. other \in Places(chain) /\ FillAt(chain, other) = g
    BY <2>4, <2>6, PlacesAre
  <2> HIDE DEF at, other
  <2>10. at = other
    BY <1>3, <2>3, <2>4, <2>7, <2>8, <2>9 DEF OneLiquidatedRow
  <2>11. x[2] = z[2] /\ x[3].index = z[3].index
    BY <2>10 DEF at, other
  <2>12. f = g /\ x[3] = z[3] /\ x[1] = z[1]
    BY <2>3, <2>4, <2>5, <2>6, <2>11
  <2> QED
    BY <2>3, <2>4, <2>11, <2>12
<1> QED
  BY <1>4, <1>5, <1>6 DEF OneToOne, S, Y

(* So the columns of a bar add up the liquidations, and count those that took.  *)
LEMMA LiquidationsCounted ==
    ASSUME IInv, Quiet, FillsWhole, OneLiquidatedRow, NEW r \in Merged(state["platform"])
    PROVE  /\ r.sum.liq_total_volume = Volume(LiquidationsIn(r.key))
           /\ r.sum.liq_transactions <= Cardinality(LiquidationsIn(r.key))
<1> DEFINE t == "platform"
           X == Deliveries(t)
           A == Arrived(t, r.key)
           S == LiquidatedIn(r.key)
           C == {x \in S : x[3].crossed}
           Y == LiquidationsIn(r.key)
           h == [x \in S |-> MatchFor(x)]
           count == [x \in X |-> ValueOf(x[1], x[3]).liq_transactions]
           volume == [x \in X |-> ValueOf(x[1], x[3]).liq_total_volume]
           notional == [m \in Y |-> m.notional]
<1>1. chain \in DOMAIN Chains /\ t \in StateTables
  BY DEF IInv, SinkInv, SinkTypes, StateTables
<1>2. {"liq_total_volume", "liq_transactions"} \subseteq Columns(t)
  BY DEF Columns
<1>3. A # {}
  BY <1>1, ReadBars
<1>4. /\ r.sum.liq_transactions = SumOver(count, A) /\ \A x \in X : count[x] \in Int
      /\ IsFiniteSet(A) /\ A \subseteq X
  <2>1. \A x \in X : count[x] = ValueOf(x[1], x[3])["liq_transactions"]
    OBVIOUS
  <2> HIDE DEF count
  <2> QED
    BY <1>1, <1>2, <2>1, QuietSum
<1>5. r.sum.liq_total_volume = SumOver(volume, A) /\ \A x \in X : volume[x] \in Int
  <2>1. \A x \in X : volume[x] = ValueOf(x[1], x[3])["liq_total_volume"]
    OBVIOUS
  <2> HIDE DEF volume
  <2> QED
    BY <1>1, <1>2, <2>1, QuietSum
<1>6. ASSUME NEW x \in X
      PROVE  /\ MatchFor(x).notional \in Int
             /\ count[x] = IF OfLiquidation(x) /\ x[3].crossed THEN 1 ELSE 0
             /\ volume[x] = IF OfLiquidation(x) THEN MatchFor(x).notional ELSE 0
  <2> DEFINE v == ValueOf(x[1], x[3])
             product == x[3].price * x[3].size
  <2>1. MatchFor(x).notional = product
    BY DEF MatchFor
  <2>2. count[x] = v.liq_transactions /\ volume[x] = v.liq_total_volume
    OBVIOUS
  <2>3. v = ValueOf(x[1], x[3]) /\ product = x[3].price * x[3].size
    OBVIOUS
  <2> HIDE DEF v, product, volume, count
  <2>4. /\ product \in Int
        /\ v.liq_total_volume = (IF OfLiquidation(x) THEN product ELSE 0)
        /\ v.liq_transactions = (IF OfLiquidation(x) /\ x[3].crossed THEN 1 ELSE 0)
    BY <1>1, <2>3, LiquidationColumns
  <2> QED
    BY <2>1, <2>2, <2>4
<1>7. /\ S \subseteq A /\ \A x \in A : x \in S <=> OfLiquidation(x)
      /\ C \subseteq S /\ \A x \in S : x \in C <=> x[3].crossed
  BY DEF LiquidatedIn
<1>8. /\ \A x \in S : h[x] = MatchFor(x)
      /\ \A m \in Y : notional[m] = m.notional
      /\ Volume(Y) = SumOver(notional, Y)
  <2>1. [m \in Y |-> notional[m]] = [m \in Y |-> m.notional]
    OBVIOUS
  <2> QED
    BY <2>1 DEF Volume, SumOver
<1> HIDE DEF X, A, Y, S, C, h, count, volume, notional
<1>9. OneToOne(h, S, Y)
  BY <1>3, <1>8, LiquidatedAreLiquidations DEF S, Y, A
<1>10. IsFiniteSet(S) /\ IsFiniteSet(C) /\ Cardinality(C) <= Cardinality(S)
  BY <1>4, <1>7, FS_Subset
<1>11. /\ Cardinality(Y) = Cardinality(S)
       /\ \A f, g : (\A x \in S : f[x] \in Int /\ g[h[x]] = f[x]) => SumOver(f, S) = SumOver(g, Y)
  BY <1>9, <1>10, Renamed
<1>12. SumOver(count, A) <= Cardinality(Y)
  <2>1. SumOver(count, A) = SumOver(count, C)
    <3>1. \A x \in A \ C : count[x] = 0
      BY <1>4, <1>6, <1>7
    <3>2. \A x \in A : count[x] \in Int
      BY <1>4
    <3>3. C \subseteq A
      BY <1>7
    <3> QED
      BY <1>4, <3>1, <3>2, <3>3, SumOfSome
  <2>2. \A x \in C : count[x] = 1
    BY <1>4, <1>6, <1>7
  <2>3. SumOver(count, C) = Cardinality(C) * 1
    BY <1>10, <2>2, SumOfEqual
  <2> DEFINE k == Cardinality(C)
  <2>4. k \in Nat
    BY <1>10, FS_CardinalityType
  <2> HIDE DEF k
  <2>5. k * 1 = k
    BY <2>4
  <2> QED
    BY <1>10, <1>11, <2>1, <2>3, <2>5 DEF k
<1>13. SumOver(volume, A) = SumOver(notional, Y)
  <2>1. SumOver(volume, A) = SumOver(volume, S)
    <3>1. \A x \in A \ S : volume[x] = 0
      BY <1>4, <1>6, <1>7
    <3>2. \A x \in A : volume[x] \in Int
      BY <1>4, <1>5
    <3> QED
      BY <1>4, <1>7, <3>1, <3>2, SumOfSome
  <2>2. \A x \in S : volume[x] \in Int /\ notional[h[x]] = volume[x]
    <3> SUFFICES ASSUME NEW x \in S PROVE volume[x] \in Int /\ notional[h[x]] = volume[x]
      OBVIOUS
    <3>1. x \in X /\ OfLiquidation(x) /\ h[x] \in Y
      BY <1>4, <1>7, <1>9 DEF OneToOne
    <3> QED
      BY <3>1, <1>6, <1>8
  <2>3. SumOver(volume, S) = SumOver(notional, Y)
    BY <1>11, <2>2
  <2> QED
    BY <2>1, <2>3
<1> QED
  BY <1>4, <1>5, <1>8, <1>12, <1>13 DEF Y

(* Whatever the bar.                                                            *)
LEMMA QuietLiquidations == FillsWhole /\ OneLiquidatedRow /\ IInv => LiquidationsOnce
<1> SUFFICES ASSUME FillsWhole, OneLiquidatedRow, IInv, Quiet,
                    NEW r \in Merged(state["platform"])
             PROVE  /\ r.sum.liq_total_volume = Volume(LiquidationsIn(r.key))
                    /\ r.sum.liq_transactions <= Cardinality(LiquidationsIn(r.key))
  BY DEF LiquidationsOnce, LiquidationsIn
<1> QED
  BY LiquidationsCounted

(* If the fills are whole and each liquidation has one row of the liquidated    *)
(* user, then whenever no insert has failed half-way every bar of the platform  *)
(* has the notional of each liquidation of the saved blocks once, and counts    *)
(* no more transactions than there were: schema.2.mv.state_ohlcv_liquidation    *)
(* keeps the rows whose user is the liquidated one.                             *)
THEOREM LiquidationsCountOnce ==
    ASSUME FillsWhole, OneLiquidatedRow
    PROVE  Spec => []LiquidationsOnce
<1>1. IInv => LiquidationsOnce
  BY QuietLiquidations
<1> QED
  BY AlwaysIInv, <1>1, PTL

-------------------------------------------------------------------------------
(* Deposits and withdrawals.                                                    *)

(* The rows of deposits and withdrawals of the saved blocks.                    *)
FlowTable == "c_deposits_withdrawals"
FlowsIn == {x \in Deliveries(FlowTable) : x[2] <= cursor}
IsDeposit(e) == e.table = "c_deposits"
IsAnnounced(e) == e.table = "c_withdrawals" /\ ~e.is_finalized

(* Each is on its way to the bars by the one view of its table, and goes there. *)
LEMMA FlowDelivery ==
    ASSUME SinkTypes, WithdrawalsAnnounced, NEW x \in Deliveries(FlowTable)
    PROVE  /\ x = <<<<x[3].table, FlowTable>>, x[3].block, x[3]>> /\ x[2] = x[3].block
           /\ x[1] \in PathsTo(FlowTable) /\ x[2] \in DOMAIN Chains[chain]
           /\ x[3] \in Chains[chain][x[2]].events /\ x[3].table \in {"c_deposits", "c_withdrawals"}
           /\ x[3].amount \in Int /\ Passes(x[1][2], x[3])
           /\ ValueOf(x[1], x[3]) = FlowSums(x[3])
<1> DEFINE t == FlowTable
           p == x[1]
           row == x[3]
           n == x[2]
<1>1. chain \in DOMAIN Chains /\ t \in StateTables
  BY DEF SinkTypes, StateTables, FlowTable
<1>2. /\ x = <<p, n, row>> /\ p \in PathsTo(t) /\ n \in DOMAIN Chains[chain] /\ row.block = n
      /\ row \in TableRows(chain, p[1], {n}) /\ row.table = p[1]
  BY <1>1, DeliveryFacts
<1>3. Len(p) = 2 /\ p = <<p[1], t>> /\ p[2] = t /\ p[1] \in {"c_deposits", "c_withdrawals"}
  <2> HIDE DEF p
  <2>1. /\ p[1] \in RawTables
        /\ \/ Len(p) = 2 /\ p = <<p[1], t>> /\ p[2] = t /\ t \in ViewsOf(p[1])
           \/ t = "platform"
    BY <1>1, <1>2, PathFacts
  <2>2. t \in ViewsOf(p[1]) => p[1] \in {"c_deposits", "c_withdrawals"}
    BY <2>1 DEF ViewsOf, RawTables, FlowTable
  <2> QED
    BY <2>1, <2>2 DEF FlowTable
<1>4. row \in Chains[chain][n].events
  <2>1. row \in RowsOf(chain, n)
    BY <1>2 DEF TableRows
  <2>2. \A f, k : FillRow(f, k, n).table \in {"fills", "fills_liquidation", "outcome_fills"}
    BY DEF FillRow, FillTable
  <2> QED
    BY <1>2, <1>3, <2>1, <2>2 DEF RowsOf
<1>5. row.amount \in Int
  BY <1>1, <1>2, <1>3, <1>4, RowsAssumption
<1>6. row.amount > 0
  BY <1>1, <1>2, <1>3, <1>4 DEF WithdrawalsAnnounced
<1>7. Passes(p[2], row)
  BY <1>3, <1>6 DEF Passes, FlowTable
<1>8. ValueOf(p, row) = FlowSums(row)
  BY <1>3 DEF ValueOf, Sums, FlowTable
<1>9. x = <<<<row.table, t>>, row.block, row>>
  <2> HIDE DEF p, n, row
  <2> QED
    BY <1>2, <1>3
<1> QED
  BY <1>2, <1>3, <1>4, <1>5, <1>7, <1>8, <1>9

(* And each deposit and withdrawal of a saved block is on its way.              *)
LEMMA FlowDelivered ==
    ASSUME SinkTypes, NEW e \in EventsUntil(chain, cursor),
           e.table \in {"c_deposits", "c_withdrawals"}
    PROVE  \E x \in FlowsIn : x[3] = e
<1>1. chain \in DOMAIN Chains /\ FlowTable \in StateTables
  BY DEF SinkTypes, StateTables, FlowTable
<1>2. PICK n \in 1 .. cursor : e \in Chains[chain][n].events
  BY DEF EventsUntil
<1>3. n \in DOMAIN Chains[chain] /\ n <= cursor
  BY <1>2, Sizes
<1> DEFINE p == <<e.table, FlowTable>>
           x == <<p, n, e>>
<1>4. p \in PathsTo(FlowTable) /\ p[1] = e.table
  <2>1. p \in PathsOf(e.table) /\ e.table \in RawTables
    BY DEF PathsOf, ViewsOf, FlowTable, RawTables
  <2>2. Last(p) = FlowTable
    BY DEF Last
  <2> QED
    BY <2>1, <2>2 DEF PathsTo, Paths
<1>5. e \in TableRows(chain, p[1], {n})
  BY <1>2, <1>4 DEF TableRows, RowsOf
<1> HIDE DEF p
<1>6. x \in Deliveries(FlowTable)
  BY <1>1, <1>3, <1>4, <1>5, DeliveryFacts
<1>7. x[2] = n /\ x[3] = e
  OBVIOUS
<1> QED
  BY <1>3, <1>6, <1>7 DEF FlowsIn

(* The bars read for an interval, a column of them, what a flow is worth in it. *)
FlowBars(interval) == {r \in Merged(state[FlowTable]) : r.key[1] = interval}
ColumnIs(value, bars, c) == \A r \in bars : value[r] = r.sum[c]
FlowWorth(f, c) == \A x \in Deliveries(FlowTable) : f[x] = FlowSums(x[3])[c]

(* A column over the bars of an interval is the sum of what the flows are worth.*)
LEMMA FlowColumn ==
    ASSUME IInv, Quiet, WithdrawalsAnnounced, NEW interval \in Intervals,
           NEW c \in Columns(FlowTable), NEW f, FlowWorth(f, c),
           NEW value, ColumnIs(value, FlowBars(interval), c)
    PROVE  /\ SumOver(value, FlowBars(interval)) = SumOver(f, FlowsIn)
           /\ IsFiniteSet(FlowsIn) /\ \A x \in FlowsIn : f[x] \in Int
<1> DEFINE t == FlowTable
           D == FlowsIn
           rows == Merged(state[t])
           bars == FlowBars(interval)
           part == [r \in bars |-> Arrived(t, r.key)]
<1>1. SinkTypes /\ chain \in DOMAIN Chains /\ t \in StateTables
  BY DEF IInv, SinkInv, SinkTypes, StateTables, FlowTable
<1>2. /\ IsFiniteSet(rows)
      /\ \A key : Arrived(t, key) # {} => \E r \in rows : r.key = key
      /\ \A r, s \in rows : r.key = s.key => r = s
  BY <1>1, ReadBars
<1>3. \A x \in Deliveries(t) : f[x] = ValueOf(x[1], x[3])[c]
  <2> SUFFICES ASSUME NEW x \in Deliveries(t) PROVE f[x] = ValueOf(x[1], x[3])[c]
    OBVIOUS
  <2>1. ValueOf(x[1], x[3]) = FlowSums(x[3])
    BY <1>1, FlowDelivery
  <2> QED
    BY <2>1 DEF FlowWorth
<1>4. \A r : r \in bars <=> r \in rows /\ r.key[1] = interval
  BY DEF FlowBars
<1>5. IsFiniteSet(D) /\ D \subseteq Deliveries(t) /\ IsFiniteSet(bars) /\ bars \subseteq rows
  <2>1. IsFiniteSet(Deliveries(t))
    BY <1>1, DeliveryFacts
  <2>2. D \subseteq Deliveries(t) /\ bars \subseteq rows
    BY DEF FlowsIn, FlowBars
  <2> HIDE DEF D, rows, bars
  <2> QED
    BY <1>2, <2>1, <2>2, FS_Subset
<1>6. \A x \in D : f[x] \in Int
  <2> SUFFICES ASSUME NEW x \in D PROVE f[x] \in Int
    OBVIOUS
  <2>1. x \in Deliveries(t)
    BY <1>5
  <2>2. ValueOf(x[1], x[3]) \in [Columns(t) -> Int]
    BY <1>1, <2>1, DeliveryFacts
  <2> QED
    BY <1>3, <2>1, <2>2
<1>7. ASSUME NEW r \in bars PROVE part[r] = Arrived(t, r.key) /\ value[r] = SumOver(f, part[r])
  <2>1. part[r] = Arrived(t, r.key) /\ r \in Merged(state[t])
    BY <1>4
  <2>2. r.sum[c] = SumOver(f, Arrived(t, r.key))
    BY <1>1, <1>3, <2>1, QuietSum
  <2>3. value[r] = r.sum[c]
    BY DEF ColumnIs
  <2> QED
    BY <2>1, <2>2, <2>3
<1>8. Partition(part, bars, D)
  <2>1. ASSUME NEW r \in bars, NEW x \in part[r] PROVE x \in D /\ r.key = BarFor(interval, x)
    <3>1. x \in Arrived(t, r.key)
      BY <1>7
    <3>2. x \in Deliveries(t) /\ r.key = BarFor(r.key[1], x)
      BY <1>1, <3>1, ArrivedWhere
    <3>3. Times(x) > 0 /\ Times(x) = IF x[2] <= cursor THEN 1 ELSE 0
      BY <1>1, <3>1, <3>2, QuietTimes DEF Arrived
    <3> HIDE DEF bars
    <3>4. r.key[1] = interval
      BY <1>4
    <3> QED
      BY <3>2, <3>3, <3>4 DEF FlowsIn
  <2>2. ASSUME NEW x \in D PROVE \E r \in bars : x \in part[r]
    <3> DEFINE p == x[1]
               row == x[3]
               key == BarFor(interval, x)
    <3>1. x \in Deliveries(t) /\ x[2] <= cursor
      BY DEF FlowsIn
    <3>2. p \in PathsTo(t) /\ Passes(p[2], row)
      BY <1>1, <3>1, FlowDelivery
    <3>3. key = <<interval, CoinOf(p, row), BarOf(interval, row.time)>> /\ key[1] = interval
      BY DEF BarFor
    <3> HIDE DEF p, row, key
    <3>4. key = <<key[1], CoinOf(p, row), BarOf(key[1], row.time)>>
      BY <3>3
    <3>5. key \in KeysHit(p, row)
      BY <1>1, <3>2, <3>3, <3>4, HitIs
    <3>6. Times(x) > 0
      BY <1>1, <3>1, QuietTimes
    <3>7. x \in Arrived(t, key)
      BY <3>1, <3>5, <3>6 DEF Arrived, p, row
    <3>8. PICK r \in rows : r.key = key
      BY <1>2, <3>7
    <3>9. r \in bars
      BY <1>4, <3>3, <3>8
    <3> QED
      BY <1>7, <3>7, <3>8, <3>9
  <2> HIDE DEF part, D
  <2>3. \A x \in D : \A y, z \in bars : x \in part[y] /\ x \in part[z] => y = z
    BY <1>2, <1>4, <2>1
  <2>4. \A y \in bars : part[y] \subseteq D
    BY <2>1
  <2> QED
    BY <2>2, <2>3, <2>4 DEF Partition
<1>9. PartSums(value, bars, f, part)
  <2> HIDE DEF part
  <2> QED
    BY <1>7 DEF PartSums
<1> HIDE DEF part, D, rows, bars
<1>10. SumOver(f, D) = SumOver(value, bars)
  BY <1>5, <1>6, <1>8, <1>9, SumOfParts
<1> QED
  BY <1>5, <1>6, <1>10 DEF D, bars

(* The deposits and the withdrawals of the saved blocks.                        *)
DepositsIn == {e \in EventsUntil(chain, cursor) : e.table = "c_deposits"}
WithdrawalOf(e) == [id |-> e.id, amount |-> e.amount]
WithdrawalsIn == {WithdrawalOf(e) : e \in Withdrawals(EventsUntil(chain, cursor))}

(* The rows that deposit are the deposits ...                                   *)
LEMMA FlowIsDeposit ==
    ASSUME SinkTypes, WithdrawalsAnnounced, NEW h, NEW S, S = {x \in FlowsIn : IsDeposit(x[3])},
           \A x \in S : h[x] = x[3]
    PROVE  OneToOne(h, S, DepositsIn)
<1>1. ASSUME NEW x \in FlowsIn
      PROVE  /\ x = <<<<x[3].table, FlowTable>>, x[3].block, x[3]>>
             /\ x[3] \in EventsUntil(chain, cursor)
  <2>1. x \in Deliveries(FlowTable) /\ x[2] <= cursor
    BY DEF FlowsIn
  <2>2. /\ x = <<<<x[3].table, FlowTable>>, x[3].block, x[3]>> /\ x[2] \in DOMAIN Chains[chain]
        /\ x[3] \in Chains[chain][x[2]].events
    BY <2>1, FlowDelivery
  <2>3. x[2] \in 1 .. cursor
    BY <2>1, <2>2, Sizes
  <2> QED
    BY <2>2, <2>3 DEF EventsUntil
<1>2. ASSUME NEW x \in S PROVE h[x] \in DepositsIn
  BY <1>1 DEF DepositsIn, IsDeposit
<1>3. ASSUME NEW e \in DepositsIn PROVE \E x \in S : h[x] = e
  <2>1. e \in EventsUntil(chain, cursor) /\ e.table = "c_deposits"
    BY DEF DepositsIn
  <2>2. PICK x \in FlowsIn : x[3] = e
    BY <2>1, FlowDelivered
  <2> QED
    BY <2>1, <2>2 DEF IsDeposit
<1>4. ASSUME NEW x \in S, NEW z \in S, h[x] = h[z] PROVE x = z
  <2>1. x[3] = z[3]
    BY <1>4
  <2>2. /\ x = <<<<x[3].table, FlowTable>>, x[3].block, x[3]>>
        /\ z = <<<<z[3].table, FlowTable>>, z[3].block, z[3]>>
    BY <1>1
  <2> QED
    BY <2>1, <2>2
<1> QED
  BY <1>2, <1>3, <1>4 DEF OneToOne

(* ... and those that announce a withdrawal name the withdrawals one to one.    *)
LEMMA FlowIsWithdrawal ==
    ASSUME SinkTypes, WithdrawalsAnnounced, NEW h, NEW S, S = {x \in FlowsIn : IsAnnounced(x[3])},
           \A x \in S : h[x] = WithdrawalOf(x[3])
    PROVE  OneToOne(h, S, WithdrawalsIn)
<1>1. chain \in DOMAIN Chains /\ cursor \in Nat /\ DOMAIN Chains[chain] = 1 .. Len(Chains[chain])
      /\ cursor <= Len(Chains[chain]) /\ Len(Chains[chain]) \in Nat
  BY Sizes DEF SinkTypes
<1> DEFINE events == EventsUntil(chain, cursor)
<1>2. ASSUME NEW x \in S
      PROVE  /\ x = <<<<x[3].table, FlowTable>>, x[3].block, x[3]>>
             /\ x[3] \in Announced(events) /\ x[3] \in Withdrawals(events) /\ cursor > 0
  <2>1. x \in Deliveries(FlowTable) /\ x[2] <= cursor /\ IsAnnounced(x[3])
    BY DEF FlowsIn
  <2>2. /\ x = <<<<x[3].table, FlowTable>>, x[3].block, x[3]>> /\ x[2] \in DOMAIN Chains[chain]
        /\ x[3] \in Chains[chain][x[2]].events
    BY <2>1, FlowDelivery
  <2>3. x[2] \in 1 .. cursor
    BY <1>1, <2>1, <2>2
  <2>4. x[3] \in events
    BY <2>2, <2>3 DEF EventsUntil
  <2> HIDE DEF events
  <2> QED
    BY <1>1, <2>1, <2>2, <2>3, <2>4 DEF Announced, Withdrawals, IsAnnounced
<1>3. ASSUME NEW x \in S PROVE h[x] \in WithdrawalsIn
  BY <1>2 DEF WithdrawalsIn
<1>4. ASSUME NEW w \in WithdrawalsIn PROVE \E x \in S : h[x] = w
  <2>1. PICK e \in Withdrawals(events) : w = WithdrawalOf(e)
    BY DEF WithdrawalsIn
  <2>2. PICK n \in 1 .. cursor : e \in Withdrawals(Chains[chain][n].events)
    BY <2>1 DEF Withdrawals, EventsUntil
  <2>3. n \in DOMAIN Chains[chain]
    BY <1>1
  <2>4. PICK a \in Announced(EventsUntil(chain, n)) : a.id = e.id /\ a.amount = e.amount
    BY <1>1, <2>2, <2>3 DEF WithdrawalsAnnounced
  <2>5. a \in EventsUntil(chain, n) /\ IsAnnounced(a)
    BY DEF Announced, Withdrawals, IsAnnounced
  <2>6. a \in events
    <3>1. PICK m \in 1 .. n : a \in Chains[chain][m].events
      BY <2>5 DEF EventsUntil
    <3>2. m \in 1 .. cursor
      BY <1>1
    <3> QED
      BY <3>1, <3>2 DEF EventsUntil
  <2>7. PICK x \in FlowsIn : x[3] = a
    BY <2>5, <2>6, FlowDelivered DEF IsAnnounced
  <2>8. x \in S
    BY <2>5, <2>7
  <2>9. WithdrawalOf(a) = w
    BY <2>1, <2>4 DEF WithdrawalOf
  <2> QED
    BY <2>7, <2>8, <2>9
<1>5. ASSUME NEW x \in S, NEW z \in S, h[x] = h[z] PROVE x = z
  <2>1. x[3].id = z[3].id
    <3>1. WithdrawalOf(x[3]) = WithdrawalOf(z[3])
      BY <1>5
    <3>2. WithdrawalOf(x[3]).id = x[3].id /\ WithdrawalOf(z[3]).id = z[3].id
      BY DEF WithdrawalOf
    <3> QED
      BY <3>1, <3>2
  <2>2. cursor \in DOMAIN Chains[chain] /\ x[3] \in Announced(events) /\ z[3] \in Announced(events)
    BY <1>1, <1>2
  <2>3. x[3] = z[3]
    BY <1>1, <2>1, <2>2 DEF WithdrawalsAnnounced
  <2>4. /\ x = <<<<x[3].table, FlowTable>>, x[3].block, x[3]>>
        /\ z = <<<<z[3].table, FlowTable>>, z[3].block, z[3]>>
    BY <1>2
  <2> QED
    BY <2>3, <2>4
<1> QED
  BY <1>3, <1>4, <1>5 DEF OneToOne

(* So the bars of an interval add up the flows.                                 *)
LEMMA FlowsCounted ==
    ASSUME IInv, Quiet, WithdrawalsAnnounced, NEW interval \in Intervals,
           NEW bars, bars = FlowBars(interval)
    PROVE  /\ SumOver([r \in bars |-> r.sum.net_flow], bars) =
                  SumOver([e \in DepositsIn |-> e.amount], DepositsIn)
                  - SumOver([w \in WithdrawalsIn |-> w.amount], WithdrawalsIn)
           /\ SumOver([r \in bars |-> r.sum.withdrawal_count], bars) = Cardinality(WithdrawalsIn)
<1> DEFINE X == Deliveries(FlowTable)
           D == FlowsIn
           In == {x \in D : IsDeposit(x[3])}
           Out == {x \in D : IsAnnounced(x[3])}
           hi == [x \in In |-> x[3]]
           ho == [x \in Out |-> WithdrawalOf(x[3])]
           net == [x \in X |-> FlowSums(x[3])["net_flow"]]
           count == [x \in X |-> FlowSums(x[3])["withdrawal_count"]]
           flowin == [x \in X |-> IF IsDeposit(x[3]) THEN x[3].amount ELSE 0]
           flowout == [x \in X |-> IF IsAnnounced(x[3]) THEN x[3].amount ELSE 0]
           minus == [x \in X |-> (-1) * flowout[x]]
           nets == [r \in bars |-> r.sum.net_flow]
           counts == [r \in bars |-> r.sum.withdrawal_count]
           deposited == [e \in DepositsIn |-> e.amount]
           withdrawn == [w \in WithdrawalsIn |-> w.amount]
<1>1. SinkTypes /\ {"net_flow", "withdrawal_count"} \subseteq Columns(FlowTable)
  BY DEF IInv, SinkInv, Columns, FlowTable
<1>2. SumOver(nets, bars) = SumOver(net, D) /\ IsFiniteSet(D) /\ \A x \in D : net[x] \in Int
  <2> DEFINE c == "net_flow"
  <2>1. FlowWorth(net, c) /\ ColumnIs(nets, FlowBars(interval), c)
    BY DEF FlowWorth, ColumnIs
  <2>2. c \in Columns(FlowTable)
    BY <1>1
  <2> HIDE DEF net, nets, c
  <2> QED
    BY <2>1, <2>2, FlowColumn
<1>3. SumOver(counts, bars) = SumOver(count, D) /\ \A x \in D : count[x] \in Int
  <2> DEFINE c == "withdrawal_count"
  <2>1. FlowWorth(count, c) /\ ColumnIs(counts, FlowBars(interval), c)
    BY DEF FlowWorth, ColumnIs
  <2>2. c \in Columns(FlowTable)
    BY <1>1
  <2> HIDE DEF count, counts, c
  <2> QED
    BY <2>1, <2>2, FlowColumn
<1>4. ASSUME NEW x \in D
      PROVE  /\ flowin[x] \in Int /\ flowout[x] \in Int /\ minus[x] \in Int
             /\ minus[x] = (-1) * flowout[x] /\ net[x] = flowin[x] + minus[x]
             /\ count[x] = IF x \in Out THEN 1 ELSE 0
             /\ x \in In => flowin[x] = x[3].amount
             /\ x \notin In => flowin[x] = 0
             /\ x \in Out => flowout[x] = x[3].amount
             /\ x \notin Out => flowout[x] = 0
  <2> DEFINE e == x[3]
             sums == FlowSums(e)
  <2>1. x \in X /\ e.amount \in Int /\ e.table \in {"c_deposits", "c_withdrawals"}
    BY <1>1, FlowDelivery DEF FlowsIn
  <2>2. /\ flowin[x] = (IF IsDeposit(e) THEN e.amount ELSE 0)
        /\ flowout[x] = (IF IsAnnounced(e) THEN e.amount ELSE 0)
        /\ minus[x] = (-1) * flowout[x]
        /\ net[x] = sums["net_flow"] /\ count[x] = sums["withdrawal_count"]
    BY <2>1
  <2>3. (x \in In <=> IsDeposit(e)) /\ (x \in Out <=> IsAnnounced(e))
    OBVIOUS
  <2>4. /\ sums["net_flow"] = If(IsDeposit(e), e.amount) - If(IsAnnounced(e), e.amount)
        /\ sums["withdrawal_count"] = If(IsAnnounced(e), 1)
    <3>1. e.table = "c_withdrawals" <=> ~(e.table = "c_deposits")
      BY <2>1
    <3> HIDE DEF e
    <3>2. (~(e.table = "c_deposits") /\ ~e.is_finalized) <=> IsAnnounced(e)
      BY <3>1 DEF IsAnnounced
    <3>3. (e.table = "c_deposits") <=> IsDeposit(e)
      BY DEF IsDeposit
    <3> QED
      BY <3>2, <3>3 DEF FlowSums, If
  <2> HIDE DEF e, sums, flowin, flowout, minus, net, count, In, Out
  <2>5. CASE IsDeposit(e)
    <3>1. ~IsAnnounced(e)
      BY <2>5 DEF IsDeposit, IsAnnounced
    <3> QED
      BY <2>1, <2>2, <2>3, <2>4, <2>5, <3>1 DEF If, e
  <2>6. CASE ~IsDeposit(e)
    <3>1. CASE IsAnnounced(e)
      BY <2>1, <2>2, <2>3, <2>4, <2>6, <3>1 DEF If, e
    <3>2. CASE ~IsAnnounced(e)
      BY <2>1, <2>2, <2>3, <2>4, <2>6, <3>2 DEF If, e
    <3> QED
      BY <3>1, <3>2
  <2> QED
    BY <2>5, <2>6
<1>5. /\ In \subseteq D /\ Out \subseteq D
      /\ \A x \in In : hi[x] = x[3]
      /\ \A x \in Out : ho[x] = WithdrawalOf(x[3])
      /\ \A e \in DepositsIn : deposited[e] = e.amount
      /\ \A w \in WithdrawalsIn : withdrawn[w] = w.amount
  OBVIOUS
<1>6. OneToOne(hi, In, DepositsIn)
  <2>1. In = {x \in FlowsIn : IsDeposit(x[3])}
    OBVIOUS
  <2> HIDE DEF In, hi
  <2> QED
    BY <1>1, <1>5, <2>1, FlowIsDeposit
<1>7. OneToOne(ho, Out, WithdrawalsIn)
  <2>1. Out = {x \in FlowsIn : IsAnnounced(x[3])}
    OBVIOUS
  <2> HIDE DEF Out, ho
  <2> QED
    BY <1>1, <1>5, <2>1, FlowIsWithdrawal
<1> HIDE DEF X, D, In, Out, hi, ho, net, count, flowin, flowout, minus, nets, counts, deposited, withdrawn
<1>8. IsFiniteSet(In) /\ IsFiniteSet(Out)
  BY <1>2, <1>5, FS_Subset
<1>9. \A f, g : (\A x \in In : f[x] \in Int /\ g[hi[x]] = f[x]) => SumOver(f, In) = SumOver(g, DepositsIn)
  BY <1>6, <1>8, Renamed
<1>10. /\ Cardinality(WithdrawalsIn) = Cardinality(Out)
       /\ \A f, g : (\A x \in Out : f[x] \in Int /\ g[ho[x]] = f[x]) =>
                        SumOver(f, Out) = SumOver(g, WithdrawalsIn)
  BY <1>7, <1>8, Renamed
<1>11. SumOver(flowin, D) = SumOver(deposited, DepositsIn)
  <2>1. SumOver(flowin, D) = SumOver(flowin, In)
    <3>1. \A x \in D : flowin[x] \in Int
      BY <1>4
    <3>2. \A x \in D \ In : flowin[x] = 0
      BY <1>4
    <3> QED
      BY <1>2, <1>5, <3>1, <3>2, SumOfSome
  <2>2. \A x \in In : flowin[x] \in Int /\ deposited[hi[x]] = flowin[x]
    <3> SUFFICES ASSUME NEW x \in In PROVE flowin[x] \in Int /\ deposited[hi[x]] = flowin[x]
      OBVIOUS
    <3>1. x \in D /\ hi[x] = x[3] /\ hi[x] \in DepositsIn
      BY <1>5, <1>6 DEF OneToOne
    <3> QED
      BY <3>1, <1>4, <1>5
  <2> QED
    BY <1>9, <2>1, <2>2
<1>12. SumOver(flowout, D) = SumOver(withdrawn, WithdrawalsIn)
  <2>1. SumOver(flowout, D) = SumOver(flowout, Out)
    <3>1. \A x \in D : flowout[x] \in Int
      BY <1>4
    <3>2. \A x \in D \ Out : flowout[x] = 0
      BY <1>4
    <3> QED
      BY <1>2, <1>5, <3>1, <3>2, SumOfSome
  <2>2. \A x \in Out : flowout[x] \in Int /\ withdrawn[ho[x]] = flowout[x]
    <3> SUFFICES ASSUME NEW x \in Out PROVE flowout[x] \in Int /\ withdrawn[ho[x]] = flowout[x]
      OBVIOUS
    <3>1. x \in D /\ ho[x] = WithdrawalOf(x[3]) /\ ho[x] \in WithdrawalsIn
      BY <1>5, <1>7 DEF OneToOne
    <3>2. ho[x].amount = x[3].amount
      BY <3>1 DEF WithdrawalOf
    <3> QED
      BY <3>1, <3>2, <1>4, <1>5
  <2> QED
    BY <1>10, <2>1, <2>2
<1>13. SumOver(net, D) = SumOver(flowin, D) + SumOver(minus, D)
  BY <1>2, <1>4, SumPlus
<1>14. SumOver(minus, D) = (-1) * SumOver(flowout, D)
  <2>1. \A x \in D : flowout[x] \in Int /\ minus[x] = (-1) * flowout[x]
    BY <1>4
  <2> QED
    BY <1>2, <2>1, SumTimes
<1>15. SumOver(flowin, D) \in Int /\ SumOver(flowout, D) \in Int
  <2>1. \A x \in D : flowin[x] \in Int /\ flowout[x] \in Int
    BY <1>4
  <2> QED
    BY <1>2, <2>1, SumFacts
<1>16. SumOver(count, D) = Cardinality(WithdrawalsIn)
  <2>1. SumOver(count, D) = SumOver(count, Out)
    <3>1. \A x \in D \ Out : count[x] = 0
      BY <1>4
    <3> QED
      BY <1>2, <1>3, <1>5, <3>1, SumOfSome
  <2>2. \A x \in Out : count[x] = 1
    BY <1>4, <1>5
  <2>3. SumOver(count, Out) = Cardinality(Out) * 1
    BY <1>8, <2>2, SumOfEqual
  <2> DEFINE k == Cardinality(Out)
  <2>4. k \in Nat
    BY <1>8, FS_CardinalityType
  <2> HIDE DEF k
  <2>5. k * 1 = k
    BY <2>4
  <2> QED
    BY <1>10, <2>1, <2>3, <2>5 DEF k
<1>17. SumOver(nets, bars) = SumOver(deposited, DepositsIn) - SumOver(withdrawn, WithdrawalsIn)
  <2> DEFINE a == SumOver(flowin, D)
             b == SumOver(flowout, D)
             d == SumOver(net, D)
  <2>1. a \in Int /\ b \in Int /\ d = a + ((-1) * b)
    BY <1>13, <1>14, <1>15
  <2> HIDE DEF a, b, d
  <2>2. d = a - b
    BY <2>1
  <2> QED
    BY <2>2, <1>2, <1>11, <1>12 DEF a, b, d
<1> QED
  BY <1>3, <1>16, <1>17 DEF nets, counts, deposited, withdrawn

(* Whatever the interval.                                                       *)
LEMMA QuietWithdrawals == WithdrawalsAnnounced /\ IInv => WithdrawalsOnce
<1> DEFINE Bars_(interval) == {r \in Merged(state[FlowTable]) : r.key[1] = interval}
<1> SUFFICES ASSUME WithdrawalsAnnounced, IInv, Quiet, NEW interval \in Intervals
             PROVE  /\ SumFunction([r \in Bars_(interval) |-> r.sum["net_flow"]]) =
                           SumFunction([e \in DepositsIn |-> e.amount])
                           - SumFunction([w \in WithdrawalsIn |-> w.amount])
                    /\ SumFunction([r \in Bars_(interval) |-> r.sum["withdrawal_count"]])
                           = Cardinality(WithdrawalsIn)
  BY DEF WithdrawalsOnce, FlowTable, DepositsIn, WithdrawalsIn, WithdrawalOf
<1> DEFINE bars == Bars_(interval)
<1>1. bars = FlowBars(interval)
  BY DEF FlowBars
<1> HIDE DEF bars
<1>2. /\ SumOver([r \in bars |-> r.sum.net_flow], bars) =
             SumOver([e \in DepositsIn |-> e.amount], DepositsIn)
             - SumOver([w \in WithdrawalsIn |-> w.amount], WithdrawalsIn)
      /\ SumOver([r \in bars |-> r.sum.withdrawal_count], bars) = Cardinality(WithdrawalsIn)
  BY <1>1, FlowsCounted
<1>3. /\ SumOver([r \in bars |-> r.sum.net_flow], bars)
             = SumFunction([r \in bars |-> r.sum["net_flow"]])
      /\ SumOver([r \in bars |-> r.sum.withdrawal_count], bars)
             = SumFunction([r \in bars |-> r.sum["withdrawal_count"]])
  BY DEF SumOver
<1>4. /\ SumOver([e \in DepositsIn |-> e.amount], DepositsIn)
             = SumFunction([e \in DepositsIn |-> e.amount])
      /\ SumOver([w \in WithdrawalsIn |-> w.amount], WithdrawalsIn)
             = SumFunction([w \in WithdrawalsIn |-> w.amount])
  BY DEF SumOver
<1> QED
  BY <1>2, <1>3, <1>4 DEF bars

(* If a final withdrawal was announced before it, once and with the same        *)
(* amount, then whenever no insert has failed half-way the bars of every        *)
(* interval hold the deposits less the withdrawals of the saved blocks, and     *)
(* count each withdrawal once although it is reported twice:                    *)
(* schema.2.mv.state_c_deposits_withdrawals takes only the rows that are not    *)
(* final.                                                                       *)
THEOREM WithdrawalsCountOnce ==
    ASSUME WithdrawalsAnnounced
    PROVE  Spec => []WithdrawalsOnce
<1>1. IInv => WithdrawalsOnce
  BY QuietWithdrawals
<1> QED
  BY AlwaysIInv, <1>1, PTL
===============================================================================
