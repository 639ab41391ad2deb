--------------------------- MODULE FillChangesProofs ---------------------------
(* Proofs about project and fill_changes, for every block, limit and clock.     *)
EXTENDS FillChanges, WellFoundedInduction, TLAPS

-------------------------------------------------------------------------------
(* Sums of lengths.                                                             *)

(* A bit that falls at every step does not do so for ever.                      *)
LEMMA Bits == IsWellFoundedOn({<<0, 1>>}, {0, 1})
<1> SUFFICES ASSUME NEW f \in [Nat -> {0, 1}], \A m \in Nat : <<f[m + 1], f[m]>> \in {<<0, 1>>}
             PROVE FALSE
  BY DEF IsWellFoundedOn
<1>1. f[0+1] = 0 /\ f[1+1] = 0 /\ f[1] = 1
  OBVIOUS
<1> QED
  BY <1>1

(* A set of numbers has a least one: what induction on a length comes to.       *)
LEMMA LeastNat ==
    ASSUME NEW T \in SUBSET Nat, T # {}
    PROVE  \E x \in T : \A y \in T : x <= y
<1>1. PICK a \in T : TRUE
  OBVIOUS
<1> DEFINE A == {x \in T : x <= a}
           g(k) == [i \in 1 .. a |-> IF i <= k THEN 1 ELSE 0]
           G == {g(k) : k \in A}
           O == LexProductOrdering({<<0, 1>>}, {0, 1}, a)
<1>2. IsWellFoundedOn(O, [1 .. a -> {0, 1}])
  BY Bits, WFLexProductOrdering
<1>3. G \subseteq [1 .. a -> {0, 1}] /\ G # {}
  <2>1. a \in A /\ \A k \in A : g(k) \in [1 .. a -> {0, 1}]
    BY <1>1
  <2> HIDE DEF A, g
  <2> QED
    BY <2>1
<1>4. \E h \in G : \A e \in G : ~(<<e, h>> \in O)
  <2> HIDE DEF G, O
  <2> QED
    BY <1>2, <1>3, WFMin
<1>5. PICK x \in A : \A y \in A : ~(<<g(y), g(x)>> \in O)
  BY <1>4
<1>6. ASSUME NEW y \in T, y < x PROVE FALSE
  <2>1. y \in A /\ x \in Nat /\ a \in Nat /\ y \in Nat /\ x <= a
    BY <1>6
  <2> DEFINE j == y + 1
  <2>2. /\ j \in 1 .. a
        /\ \A i \in 1 .. j - 1 : g(y)[i] = g(x)[i]
        /\ g(y)[j] = 0 /\ g(x)[j] = 1
    BY <2>1, <1>6
  <2>3. <<g(y), g(x)>> \in O
    <3>1. g(y) \in [1 .. a -> {0, 1}] /\ g(x) \in [1 .. a -> {0, 1}]
      OBVIOUS
    <3>2. <<g(y)[j], g(x)[j]>> \in {<<0, 1>>}
      BY <2>2
    <3> HIDE DEF g, j
    <3> QED
      BY <3>1, <3>2, <2>2 DEF LexProductOrdering
  <2> QED
    BY <2>1, <2>3, <1>5
<1> QED
  BY <1>6, <1>5

(* Induction up to a number.                                                    *)
LEMMA UpTo ==
    ASSUME NEW top \in Nat, NEW G, 0 \in G, \A k \in 0 .. top - 1 : k \in G => k + 1 \in G
    PROVE  \A k \in 0 .. top : k \in G
<1> DEFINE T == {k \in 0 .. top : k \notin G}
<1> SUFFICES ASSUME T # {} PROVE FALSE
  OBVIOUS
<1>1. PICK k \in T : \A l \in T : k <= l
  <2>1. T \subseteq Nat
    OBVIOUS
  <2> HIDE DEF T
  <2> QED
    BY <2>1, LeastNat
<1>2. k \in 0 .. top /\ k \notin G /\ k # 0
  OBVIOUS
<1>3. k - 1 \in 0 .. top /\ k - 1 \in 0 .. top - 1 /\ (k - 1) + 1 = k /\ ~(k <= k - 1)
  BY <1>2
<1>4. k - 1 \in G
  BY <1>1, <1>3
<1> QED
  BY <1>2, <1>3, <1>4

(* The recursion of BytesOfFirst has a solution.                                *)
LEMMA SumsExist ==
    ASSUME NEW bytes \in Seq(Nat)
    PROVE  \E sum \in [0 .. Len(bytes) -> Nat] :
               sum = [m \in 0 .. Len(bytes) |-> IF m = 0 THEN 0 ELSE sum[m - 1] + bytes[m]]
<1> DEFINE Sums(k, sum) == /\ sum \in [0 .. k -> Nat] /\ sum[0] = 0
                           /\ \A m \in 1 .. k : sum[m] = sum[m - 1] + bytes[m]
           G == {k \in Nat : \E sum : Sums(k, sum)}
<1>1. Len(bytes) \in Nat /\ \A m \in 1 .. Len(bytes) : bytes[m] \in Nat
  OBVIOUS
<1>2. 0 \in G
  <2>1. Sums(0, [m \in 0 .. 0 |-> 0])
    OBVIOUS
  <2> HIDE DEF Sums
  <2> QED
    BY <2>1
<1>3. ASSUME NEW k \in 0 .. Len(bytes) - 1, k \in G PROVE k + 1 \in G
  <2>1. PICK sum : Sums(k, sum)
    BY <1>3
  <2> DEFINE more == [m \in 0 .. k + 1 |-> IF m = k + 1 THEN sum[k] + bytes[k + 1] ELSE sum[m]]
  <2>2. k \in Nat /\ bytes[k + 1] \in Nat /\ sum[k] \in Nat
    BY <1>1, <2>1
  <2>3. more \in [0 .. k + 1 -> Nat] /\ more[0] = 0
    BY <2>1, <2>2
  <2>4. \A m \in 1 .. k + 1 : more[m] = more[m - 1] + bytes[m]
    BY <2>1, <2>2
  <2>5. Sums(k + 1, more)
    BY <2>3, <2>4
  <2> HIDE DEF Sums, more
  <2> QED
    BY <2>2, <2>5
<1>4. Len(bytes) \in G
  <2> HIDE DEF G
  <2>1. \A k \in 0 .. Len(bytes) : k \in G
    BY <1>1, <1>2, <1>3, UpTo
  <2> QED
    BY <1>1, <2>1
<1>5. PICK sum : Sums(Len(bytes), sum)
  BY <1>4
<1>6. sum = [m \in 0 .. Len(bytes) |-> IF m = 0 THEN 0 ELSE sum[m - 1] + bytes[m]]
  BY <1>1, <1>5
<1> QED
  BY <1>5, <1>6

LEMMA SumsUnfold ==
    ASSUME NEW bytes \in Seq(Nat)
    PROVE  /\ BytesOfFirst(bytes)[0] = 0
           /\ \A m \in 0 .. Len(bytes) : BytesOfFirst(bytes)[m] \in Nat
           /\ \A m \in 1 .. Len(bytes) :
                 BytesOfFirst(bytes)[m] = BytesOfFirst(bytes)[m - 1] + bytes[m]
<1> DEFINE Solves(sum) ==
               sum = [m \in 0 .. Len(bytes) |-> IF m = 0 THEN 0 ELSE sum[m - 1] + bytes[m]]
           sum == BytesOfFirst(bytes)
<1>1. sum = CHOOSE f : Solves(f)
  BY DEF BytesOfFirst
<1>2. PICK one \in [0 .. Len(bytes) -> Nat] : Solves(one)
  BY SumsExist
<1> HIDE DEF sum
<1>3. Solves(sum)
  <2> HIDE DEF Solves
  <2> QED
    BY <1>1, <1>2
<1>4. sum[0] = 0 /\ \A m \in 1 .. Len(bytes) : sum[m] = sum[m - 1] + bytes[m]
  <2>1. \A m \in 0 .. Len(bytes) : sum[m] = IF m = 0 THEN 0 ELSE sum[m - 1] + bytes[m]
    BY <1>3
  <2> QED
    BY <2>1
<1>5. \A m \in 0 .. Len(bytes) : sum[m] \in Nat
  <2> DEFINE G == {m \in Nat : sum[m] \in Nat}
  <2>1. \A m \in 0 .. Len(bytes) - 1 : bytes[m + 1] \in Nat /\ m + 1 \in 1 .. Len(bytes)
    OBVIOUS
  <2>2. 0 \in G /\ \A m \in 0 .. Len(bytes) - 1 : m \in G => m + 1 \in G
    BY <1>4, <2>1
  <2>3. \A m \in 0 .. Len(bytes) : m \in G
    <3>1. Len(bytes) \in Nat
      OBVIOUS
    <3> HIDE DEF G
    <3> QED
      BY <2>2, <3>1, UpTo
  <2> QED
    BY <2>3 DEF G
<1> QED
  BY <1>4, <1>5 DEF sum

(* A sum of lengths is at least each sum of the first ones.                     *)
LEMMA SumsGrow ==
    ASSUME NEW bytes \in Seq(Nat), NEW k \in 0 .. Len(bytes)
    PROVE  BytesOfFirst(bytes)[k] <= BytesOfFirst(bytes)[Len(bytes)]
<1> DEFINE sum == BytesOfFirst(bytes)
           rest == Len(bytes) - k
           G == {m \in Nat : sum[k] <= sum[k + m]}
<1>1. /\ \A m \in 0 .. Len(bytes) : sum[m] \in Nat
      /\ \A m \in 1 .. Len(bytes) : sum[m] = sum[m - 1] + bytes[m] /\ bytes[m] \in Nat
  BY SumsUnfold
<1> HIDE DEF sum
<1>2. 0 \in G
  BY <1>1
<1>3. ASSUME NEW m \in 0 .. rest - 1, m \in G PROVE m + 1 \in G
  <2>1. k + m + 1 \in 1 .. Len(bytes) /\ k + m \in 0 .. Len(bytes) /\ (k + m + 1) - 1 = k + m
    OBVIOUS
  <2>2. sum[k + m + 1] = sum[k + m] + bytes[k + m + 1] /\ bytes[k + m + 1] \in Nat
    BY <1>1, <2>1
  <2> QED
    BY <1>1, <1>3, <2>1, <2>2
<1>4. rest \in Nat /\ k + rest = Len(bytes)
  OBVIOUS
<1> HIDE DEF G, rest
<1>5. rest \in G
  <2>1. \A m \in 0 .. rest : m \in G
    BY <1>2, <1>3, <1>4, UpTo
  <2> QED
    BY <1>4, <2>1
<1> QED
  BY <1>4, <1>5 DEF G, sum

-------------------------------------------------------------------------------
(* The inductive invariant.                                                     *)

(* The rows of the first fills: each under its own index, in order.             *)
RowsOf(count) ==
    /\ Len(tables.order) = count
    /\ DOMAIN tables.origin = {tables.order[m] : m \in 1 .. count}
    /\ \A m \in 1 .. count :
          LET fill == request.fills[m]
          IN  /\ tables.order[m] = [table |-> TableOf(fill), index |-> m - 1, hash |-> fill.hash]
              /\ tables.origin[tables.order[m]] = Item(TableOf(fill), <<m - 1>>, fill.hash)

(* What each stage of the call may rely on: the checks before it were passed.   *)
Stage ==
    /\ request \in Requests
    /\ pc = "project" => n = 1
    /\ pc \in {"project", "check", "measure"} => tables = NoRows
    /\ pc \in {"project", "check"} => input_bytes = 0
    /\ pc \in {"check", "measure", "format", "size"} => ~TooMany /\ request.header.present
    /\ pc \in {"measure", "format", "size"} =>
          /\ BoundsAccepted(request) /\ Identity(request)
          /\ Count <= request.limits.max_fills
    /\ pc = "measure" =>
          /\ input_bytes = BytesOfFirst(request.bytes)[n - 1]
          /\ input_bytes <= request.limits.max_bytes
    /\ pc \in {"format", "size"} => InputBytes(request) <= request.limits.max_bytes
    /\ pc = "format" => RowsOf(n - 1)
    /\ pc = "size" => RowsOf(Count)

IInv == TypeOK /\ CheckedBeforeRows /\ Stage

-------------------------------------------------------------------------------
(* Facts the steps share.                                                       *)

LEMMA RequestFacts ==
    ASSUME request \in Requests
    PROVE  /\ request \in Request
           /\ request.fills \in Seq(Fill) /\ request.bytes \in Seq(Nat)
           /\ Count \in Nat /\ Len(request.bytes) = Count
           /\ request.limits.max_fills \in Nat /\ request.limits.max_bytes \in Nat
           /\ request.output_bytes \in Nat /\ request.project_max \in Nat
<1>1. request \in Request /\ Len(request.bytes) = Len(request.fills)
  BY RequestsAssumption
<1> QED
  BY <1>1 DEF Request, Count

LEMMA SumFacts ==
    ASSUME request \in Requests
    PROVE  /\ BytesOfFirst(request.bytes)[0] = 0
           /\ \A m \in 0 .. Count : BytesOfFirst(request.bytes)[m] \in Nat
           /\ InputBytes(request) = BytesOfFirst(request.bytes)[Count]
           /\ InputBytes(request) \in Nat
<1>1. request.bytes \in Seq(Nat) /\ Count \in Nat /\ Len(request.bytes) = Count
  BY RequestFacts
<1>2. /\ BytesOfFirst(request.bytes)[0] = 0
      /\ \A m \in 0 .. Len(request.bytes) : BytesOfFirst(request.bytes)[m] \in Nat
  BY <1>1, SumsUnfold
<1>3. InputBytes(request) = BytesOfFirst(request.bytes)[Count]
  BY <1>1 DEF InputBytes
<1> QED
  BY <1>1, <1>2, <1>3

LEMMA TableOfFill ==
    ASSUME NEW fill \in Fill
    PROVE  TableOf(fill) \in FillTables /\ fill.hash \in Hashes
BY DEF TableOf, FillTables, Fill

(* The key of a row: the fill's own table, index and hash.                      *)
LEMMA FillKey ==
    ASSUME NEW table, NEW k \in Nat, NEW hash
    PROVE  /\ IndexOf(<<k>>) = k
           /\ EventKey(Item(table, <<k>>, hash)) = [table |-> table, index |-> k, hash |-> hash]
BY DEF EventKey, Item, IndexOf

-------------------------------------------------------------------------------
(* The steps.                                                                   *)

LEMMA InitIInv == Init => IInv
<1> SUFFICES ASSUME Init PROVE IInv
  OBVIOUS
<1>1. request \in Requests /\ request \in Request /\ Count \in Nat
  BY RequestFacts DEF Init
<1>2. TypeOK
  BY <1>1 DEF Init, TypeOK, NoRows
<1>3. CheckedBeforeRows
  BY DEF Init, CheckedBeforeRows, NoRows
<1>4. Stage
  BY <1>1 DEF Init, Stage
<1> QED
  BY <1>2, <1>3, <1>4 DEF IInv

LEMMA RefuseStep ==
    ASSUME IInv, pc # "returned", NEW error \in Errors, Refuse(error)
    PROVE  IInv'
<1>1. TypeOK'
  BY DEF IInv, TypeOK, Refuse, Errors, Count
<1>2. CheckedBeforeRows'
  BY DEF IInv, CheckedBeforeRows, Refuse, Count
<1>3. Stage'
  BY DEF IInv, Stage, Refuse
<1> QED
  BY <1>1, <1>2, <1>3 DEF IInv

(* A stage ends: only what the next one relies on is left to show.              *)
LEMMA GoToStep ==
    ASSUME IInv, NEW next \in {"check", "measure", "format", "size"}, GoTo(next),
           pc # "returned", Stage'
    PROVE  IInv'
<1>1. TypeOK'
  <2>1. Count \in Nat
    BY RequestFacts DEF IInv, Stage
  <2> QED
    BY <2>1 DEF IInv, TypeOK, GoTo, Count
<1>2. CheckedBeforeRows'
  BY DEF IInv, CheckedBeforeRows, GoTo, Count
<1> QED
  BY <1>1, <1>2 DEF IInv

LEMMA ProjectStep ==
    ASSUME IInv, Project
    PROVE  IInv'
<1>1. Stage'
  BY DEF IInv, Stage, Project, GoTo, TooMany, Count
<1> QED
  BY <1>1, GoToStep DEF Project

LEMMA CheckStep ==
    ASSUME IInv, Check
    PROVE  IInv'
<1>1. CASE GoTo("measure")
  <2>1. /\ request \in Requests /\ tables = NoRows /\ input_bytes = 0
        /\ ~TooMany /\ request.header.present
    BY DEF IInv, Stage, Check
  <2>2. BoundsAccepted(request) /\ Identity(request) /\ Count <= request.limits.max_fills
    <3>1. /\ BoundsAccepted(request) /\ Identity(request)
          /\ ~(Count > request.limits.max_fills)
      BY <1>1 DEF Check, Refuse, GoTo
    <3> QED
      BY <2>1, <3>1, RequestFacts
  <2>3. BytesOfFirst(request.bytes)[0] = 0 /\ request.limits.max_bytes \in Nat
    BY <2>1, SumFacts, RequestFacts
  <2>4. Stage'
    <3>1. /\ pc' = "measure" /\ n' = 1 /\ n' - 1 = 0
          /\ UNCHANGED <<request, input_bytes, tables, status, result>>
      BY <1>1 DEF GoTo
    <3>2. /\ TooMany' = TooMany /\ Count' = Count
      BY <3>1 DEF TooMany, Count
    <3> QED
      BY <2>1, <2>2, <2>3, <3>1, <3>2 DEF Stage
  <2> QED
    BY <1>1, <2>4, GoToStep DEF Check
<1>2. CASE \E error \in {"InvalidBounds", "Identity", "Capacity"} : Refuse(error)
  <2>1. pc # "returned"
    BY DEF Check
  <2> QED
    BY <1>2, <2>1, RefuseStep DEF Errors
<1> QED
  BY <1>1, <1>2 DEF Check

(* A total that saturates is over every limit that is accepted.                 *)
LEMMA NotSaturated ==
    ASSUME NEW x \in Nat, NEW limit \in 1 .. BytesCeiling, Saturated(x) <= limit
    PROVE  Saturated(x) = x
<1>1. UsizeMod \in Nat
  BY WidthAssumption
<1> QED
  BY <1>1, CeilingAssumption DEF Saturated

LEMMA MeasureStep ==
    ASSUME IInv, Measure
    PROVE  IInv'
<1> DEFINE total == Saturated(input_bytes + request.bytes[n])
<1>1. /\ request \in Requests /\ n \in 1 .. Count + 1 /\ n <= Count /\ pc = "measure"
      /\ input_bytes = BytesOfFirst(request.bytes)[n - 1] /\ input_bytes \in Nat
      /\ request.limits.max_bytes \in 1 .. BytesCeiling
      /\ tables = NoRows
  BY DEF IInv, TypeOK, Stage, Measure, BoundsAccepted
<1>2. n \in 1 .. Count /\ Count \in Nat /\ request.bytes \in Seq(Nat) /\ Len(request.bytes) = Count
  BY <1>1, RequestFacts
<1>3. request.bytes[n] \in Nat /\ input_bytes + request.bytes[n] \in Nat
  BY <1>1, <1>2
<1>4. CASE total > request.limits.max_bytes
  <2>1. Refuse("Capacity")
    BY <1>4 DEF Measure
  <2> QED
    BY <1>1, <2>1, RefuseStep DEF Errors
<1>5. CASE ~(total > request.limits.max_bytes)
  <2>1. /\ input_bytes' = total /\ n' = n + 1
        /\ UNCHANGED <<request, pc, tables, status, result>>
    BY <1>5 DEF Measure
  <2>2. total \in Nat /\ request.limits.max_bytes \in Nat /\ total <= request.limits.max_bytes
    <3>1. total \in Nat
      <4>1. UsizeMod \in Nat /\ UsizeMod # 0
        BY WidthAssumption
      <4> QED
        BY <1>3, <4>1 DEF Saturated
    <3>2. request.limits.max_bytes \in Nat
      BY <1>1, RequestFacts
    <3> HIDE DEF total
    <3> QED
      BY <1>5, <3>1, <3>2
  <2>3. total = input_bytes + request.bytes[n]
    BY <1>1, <1>3, <2>2, NotSaturated
  <2> HIDE DEF total
  <2>4. total = BytesOfFirst(request.bytes)[n] /\ n' - 1 = n
    <3>1. BytesOfFirst(request.bytes)[n] = BytesOfFirst(request.bytes)[n - 1] + request.bytes[n]
      BY <1>2, SumsUnfold
    <3>2. n' - 1 = n
      BY <1>2, <2>1
    <3> QED
      BY <1>1, <2>3, <3>1, <3>2
  <2>5. Stage'
    <3>1. TooMany' = TooMany /\ Count' = Count
      BY <2>1 DEF TooMany, Count
    <3>2. input_bytes' = BytesOfFirst(request'.bytes)[n' - 1] /\ input_bytes' <= request'.limits.max_bytes
      BY <2>1, <2>2, <2>4
    <3>3. pc' = "measure"
      BY <1>1, <2>1
    <3> QED
      BY <1>1, <2>1, <3>1, <3>2, <3>3 DEF IInv, Stage
  <2>6. TypeOK'
    BY <1>1, <1>2, <2>1, <2>2 DEF IInv, TypeOK, Count
  <2>7. CheckedBeforeRows'
    BY <1>1, <2>1 DEF CheckedBeforeRows, NoRows
  <2> QED
    BY <2>5, <2>6, <2>7 DEF IInv
<1> QED
  BY <1>4, <1>5

LEMMA MeasuredStep ==
    ASSUME IInv, Measured
    PROVE  IInv'
<1>1. /\ request \in Requests /\ n \in 1 .. Count + 1 /\ n > Count /\ pc = "measure"
      /\ input_bytes = BytesOfFirst(request.bytes)[n - 1]
      /\ input_bytes <= request.limits.max_bytes /\ tables = NoRows
  BY DEF IInv, TypeOK, Stage, Measured
<1>2. n - 1 = Count
  BY <1>1, RequestFacts
<1>3. InputBytes(request) <= request.limits.max_bytes
  BY <1>1, <1>2, SumFacts
<1>4. /\ pc' = "format" /\ n' = 1 /\ n' - 1 = 0
      /\ UNCHANGED <<request, input_bytes, tables, status, result>>
  BY DEF Measured, GoTo
<1>5. RowsOf(n - 1)'
  BY <1>1, <1>4 DEF RowsOf, NoRows
<1>6. Stage'
  <2>1. TooMany' = TooMany /\ Count' = Count
    BY <1>4 DEF TooMany, Count
  <2> QED
    BY <1>1, <1>3, <1>4, <1>5, <2>1 DEF IInv, Stage
<1> QED
  BY <1>1, <1>6, GoToStep DEF Measured

LEMMA FormattedStep ==
    ASSUME IInv, Formatted
    PROVE  IInv'
<1>1. request \in Requests /\ n \in 1 .. Count + 1 /\ n > Count /\ pc = "format" /\ RowsOf(n - 1)
  BY DEF IInv, TypeOK, Stage, Formatted
<1>2. n - 1 = Count
  BY <1>1, RequestFacts
<1>3. /\ pc' = "size" /\ n' = 1 /\ UNCHANGED <<request, input_bytes, tables, status, result>>
  BY DEF Formatted, GoTo
<1>4. TooMany' = TooMany /\ Count' = Count
  BY <1>3 DEF TooMany, Count
<1>5. RowsOf(Count)'
  BY <1>1, <1>2, <1>3, <1>4 DEF RowsOf
<1>6. Stage'
  BY <1>1, <1>3, <1>4, <1>5 DEF IInv, Stage
<1> QED
  BY <1>1, <1>6, GoToStep DEF Formatted

(* A fill gets a row of its own: the keys so far have smaller indexes.          *)
LEMMA FormatFillStep ==
    ASSUME IInv, FormatFill
    PROVE  IInv'
<1> DEFINE fill == request.fills[n]
           key == [table |-> TableOf(fill), index |-> n - 1, hash |-> fill.hash]
           item == Item(TableOf(fill), <<n - 1>>, fill.hash)
<1>1. /\ request \in Requests /\ n \in 1 .. Count + 1 /\ n <= Count /\ pc = "format"
      /\ RowsOf(n - 1) /\ input_bytes \in Nat
      /\ tables.order \in Seq([table : FillTables, index : Nat, hash : Hashes])
  BY DEF IInv, TypeOK, Stage, FormatFill
<1>2. /\ n \in 1 .. Count /\ n - 1 \in Nat /\ Count \in Nat /\ fill \in Fill
      /\ Count = Len(request.fills)
  BY <1>1, RequestFacts DEF Count
<1>3. key \in [table : FillTables, index : Nat, hash : Hashes]
  BY <1>2, TableOfFill
<1>4. /\ tables' = WithRow(tables, key, item) /\ n' = n + 1
      /\ UNCHANGED <<request, pc, input_bytes, status, result>>
  BY <1>2, FillKey DEF FormatFill
<1>5. key \notin DOMAIN tables.origin
  <2>1. ASSUME NEW m \in 1 .. n - 1
        PROVE  tables.order[m].index = m - 1
    <3>1. tables.order[m] = [table |-> TableOf(request.fills[m]), index |-> m - 1,
                             hash |-> request.fills[m].hash]
      BY <1>1 DEF RowsOf
    <3> QED
      BY <3>1
  <2>2. \A m \in 1 .. n - 1 : tables.order[m].index # n - 1
    BY <1>2, <2>1
  <2>3. key.index = n - 1
    OBVIOUS
  <2> HIDE DEF key
  <2> QED
    BY <1>1, <2>2, <2>3 DEF RowsOf
<1> HIDE DEF key, item
<1>6. /\ tables'.order = Append(tables.order, key)
      /\ DOMAIN tables'.origin = DOMAIN tables.origin \cup {key}
      /\ tables'.origin[key] = item
      /\ \A k \in DOMAIN tables.origin : tables'.origin[k] = tables.origin[k]
  BY <1>4, <1>5 DEF WithRow
<1>7. /\ tables'.order \in Seq([table : FillTables, index : Nat, hash : Hashes])
      /\ Len(tables.order) = n - 1 /\ Len(tables'.order) = n /\ tables'.order[n] = key
      /\ \A m \in 1 .. n - 1 : tables'.order[m] = tables.order[m]
  BY <1>1, <1>2, <1>3, <1>6 DEF RowsOf
<1>8. RowsOf(n - 1)'
  <2>1. n' - 1 = n /\ request' = request
    BY <1>2, <1>4
  <2>2. DOMAIN tables'.origin = {tables'.order[m] : m \in 1 .. n}
    <3>1. DOMAIN tables.origin = {tables.order[m] : m \in 1 .. n - 1}
      BY <1>1 DEF RowsOf
    <3>2. \A m \in 1 .. n : m \in 1 .. n - 1 \/ m = n
      BY <1>2
    <3>3. n \in 1 .. n /\ \A m \in 1 .. n - 1 : m \in 1 .. n
      BY <1>2
    <3> DEFINE before == tables.order
               after == tables'.order
    <3>4. /\ DOMAIN tables.origin = {before[m] : m \in 1 .. n - 1} /\ after[n] = key
          /\ DOMAIN tables'.origin = DOMAIN tables.origin \cup {key}
          /\ \A m \in 1 .. n - 1 : after[m] = before[m]
      BY <1>6, <1>7, <3>1
    <3> HIDE DEF before, after
    <3>5. DOMAIN tables'.origin = {after[m] : m \in 1 .. n}
      BY <3>2, <3>3, <3>4
    <3> QED
      BY <3>5 DEF after
  <2>3. ASSUME NEW m \in 1 .. n
        PROVE  /\ tables'.order[m] = [table |-> TableOf(request.fills[m]), index |-> m - 1,
                                      hash |-> request.fills[m].hash]
               /\ tables'.origin[tables'.order[m]]
                    = Item(TableOf(request.fills[m]), <<m - 1>>, request.fills[m].hash)
    <3>1. CASE m = n
      BY <1>6, <1>7, <3>1 DEF key, item
    <3>2. CASE m # n
      <4>1. m \in 1 .. n - 1
        BY <1>2, <3>2
      <4>2. tables.order[m] \in DOMAIN tables.origin
        BY <1>1, <4>1 DEF RowsOf
      <4>3. /\ tables'.order[m] = tables.order[m]
            /\ tables'.origin[tables'.order[m]] = tables.origin[tables.order[m]]
        BY <1>6, <1>7, <4>1, <4>2
      <4> QED
        BY <1>1, <4>1, <4>3 DEF RowsOf
    <3> QED
      BY <3>1, <3>2
  <2> QED
    BY <1>7, <2>1, <2>2, <2>3 DEF RowsOf
<1>9. Stage'
  <2>1. TooMany' = TooMany /\ Count' = Count
    BY <1>4 DEF TooMany, Count
  <2> QED
    BY <1>1, <1>4, <1>8, <2>1 DEF IInv, Stage
<1>10. TypeOK'
  BY <1>1, <1>2, <1>4, <1>7 DEF IInv, TypeOK, Count
<1>11. CheckedBeforeRows'
  <2>1. /\ Count <= request.limits.max_fills
        /\ InputBytes(request) <= request.limits.max_bytes
        /\ Identity(request)
    BY <1>1 DEF IInv, Stage
  <2> QED
    BY <1>4, <2>1 DEF CheckedBeforeRows, Identity, Count
<1> QED
  BY <1>9, <1>10, <1>11 DEF IInv

(* The answer is given: status and result are set together.                     *)
LEMMA ReturnStep ==
    ASSUME IInv, Return
    PROVE  IInv'
<1>1. TypeOK'
  BY DEF IInv, TypeOK, Return, Errors, Count
<1>2. CheckedBeforeRows'
  BY DEF IInv, CheckedBeforeRows, Return, Count
<1>3. Stage'
  BY DEF IInv, Stage, Return
<1> QED
  BY <1>1, <1>2, <1>3 DEF IInv

LEMMA IInvStep == IInv /\ [Next]_vars => IInv'
<1> SUFFICES ASSUME IInv, [Next]_vars PROVE IInv'
  OBVIOUS
<1>1. CASE ProjectCapacity \/ ProjectMissingHeader \/ OutputCapacity
  BY <1>1, RefuseStep DEF ProjectCapacity, ProjectMissingHeader, OutputCapacity, Errors
<1>2. CASE Project
  BY <1>2, ProjectStep
<1>3. CASE Check
  BY <1>3, CheckStep
<1>4. CASE Measure
  BY <1>4, MeasureStep
<1>5. CASE Measured
  BY <1>5, MeasuredStep
<1>6. CASE FormatFill
  BY <1>6, FormatFillStep
<1>7. CASE Formatted
  BY <1>7, FormattedStep
<1>8. CASE Return
  BY <1>8, ReturnStep
<1>9. CASE UNCHANGED vars
  BY <1>9 DEF vars, IInv, TypeOK, CheckedBeforeRows, Stage, RowsOf, TooMany, Count
<1> QED
  BY <1>1, <1>2, <1>3, <1>4, <1>5, <1>6, <1>7, <1>8, <1>9 DEF Next

LEMMA Invariance == Spec => []IInv
BY InitIInv, IInvStep, PTL DEF Spec

(* Types hold, and rows are returned with Ok only: status and result of         *)
(* fill_changes are set together.                                               *)
THEOREM TypeCorrect == Spec => []TypeOK
BY Invariance, PTL DEF IInv

(* No row is built for a block whose fills are too many, whose input is too     *)
(* large or whose clock is not its own: Tables::new comes after the checks.     *)
THEOREM ChecksComeFirst == Spec => []CheckedBeforeRows
BY Invariance, PTL DEF IInv

-------------------------------------------------------------------------------
(* The contract of AtomicCall.                                                  *)

LEMMA PendingFacts ==
    ASSUME IInv, pc # "returned"
    PROVE  status = "pending" /\ result = {}
BY DEF IInv, TypeOK

(* project refuses.                                                             *)
LEMMA ProjectAnswer ==
    ASSUME IInv, ProjectCapacity \/ ProjectMissingHeader
    PROVE  Promise!Answer
<1>1. status = "pending" /\ result = {}
  BY PendingFacts DEF ProjectCapacity, ProjectMissingHeader
<1>2. request \in Requests /\ Count \in Nat
  BY RequestFacts DEF IInv, Stage
<1>3. UNCHANGED <<request, result>>
  BY DEF ProjectCapacity, ProjectMissingHeader, Refuse
<1>4. status' = Verdict(request) /\ status' # "Ok"
  <2>1. U32Mod \in Nat
    BY WidthAssumption
  <2>2. CASE ProjectCapacity
    BY <1>2, <2>1, <2>2 DEF ProjectCapacity, Refuse, TooMany, Verdict, Count
  <2>3. CASE ProjectMissingHeader
    BY <1>2, <2>1, <2>3, RequestFacts DEF ProjectMissingHeader, Refuse, TooMany, Verdict, Count
  <2> QED
    BY <2>2, <2>3
<1> QED
  BY <1>1, <1>3, <1>4 DEF Promise!Answer

(* fill_changes refuses before it measures.                                     *)
LEMMA CheckAnswer ==
    ASSUME IInv, Check, pc' = "returned"
    PROVE  Promise!Answer
<1>1. status = "pending" /\ result = {}
  BY PendingFacts DEF Check
<1>2. request \in Requests /\ Count \in Nat /\ ~TooMany /\ request.header.present
  BY RequestFacts DEF IInv, Stage, Check
<1>3. UNCHANGED <<request, result>>
  BY DEF Check, Refuse, GoTo
<1>4. status' = Verdict(request) /\ status' # "Ok"
  <2>1. /\ ~(Len(request.fills) > request.project_max \/ Len(request.fills) >= U32Mod)
        /\ request.header.present
    BY <1>2, WidthAssumption, RequestFacts DEF TooMany, Count
  <2>2. CASE ~BoundsAccepted(request)
    BY <2>1, <2>2 DEF Check, Refuse, Verdict
  <2>3. CASE BoundsAccepted(request) /\ ~Identity(request)
    <3>1. status' = "Identity"
      BY <2>3 DEF Check, Refuse
    <3>2. \/ ~request.header.time.given \/ request.clock.time # request.header.time
          \/ request.clock.number # request.header.number \/ request.clock.id # "ok"
          \/ request.header.time.seconds \notin 0 .. MaxSeconds
          \/ request.header.time.nanos \notin 0 .. NanosMod - 1
      BY <2>3 DEF Identity
    <3>3. Verdict(request) = "Identity"
      BY <2>1, <2>3, <3>2 DEF Verdict
    <3> QED
      BY <3>1, <3>3
  <2>4. CASE BoundsAccepted(request) /\ Identity(request)
    <3>1. status' = "Capacity" /\ Count > request.limits.max_fills
      BY <2>4 DEF Check, Refuse, GoTo
    <3>2. Verdict(request) = "Capacity"
      BY <2>1, <2>4, <3>1 DEF Verdict, Identity, Count
    <3> QED
      BY <3>1, <3>2
  <2> QED
    BY <2>2, <2>3, <2>4
<1> QED
  BY <1>1, <1>3, <1>4 DEF Promise!Answer

(* Past the checks, only a capacity is left to refuse for.                      *)
LEMMA LateVerdict ==
    ASSUME IInv, pc \in {"measure", "format", "size"}
    PROVE  Verdict(request) =
               IF InputBytes(request) > request.limits.max_bytes
                  \/ request.output_bytes > request.limits.max_bytes
               THEN "Capacity" ELSE "Ok"
<1>1. /\ request \in Requests /\ ~TooMany /\ request.header.present
      /\ BoundsAccepted(request) /\ Identity(request) /\ Count <= request.limits.max_fills
  BY DEF IInv, Stage
<1>2. /\ ~(Len(request.fills) > request.project_max \/ Len(request.fills) >= U32Mod)
      /\ ~(Len(request.fills) > request.limits.max_fills)
  BY <1>1, WidthAssumption, RequestFacts DEF TooMany, Count
<1>3. ~(\/ ~request.header.time.given \/ request.clock.time # request.header.time
        \/ request.clock.number # request.header.number \/ request.clock.id # "ok"
        \/ request.header.time.seconds \notin 0 .. MaxSeconds
        \/ request.header.time.nanos \notin 0 .. NanosMod - 1)
  BY <1>1 DEF Identity
<1> QED
  BY <1>1, <1>2, <1>3 DEF Verdict

(* The loop that measures stops early only on a sum that the whole input, which *)
(* is no smaller, exceeds too.                                                  *)
LEMMA MeasureAnswer ==
    ASSUME IInv, Measure, pc' = "returned"
    PROVE  Promise!Answer
<1> DEFINE total == Saturated(input_bytes + request.bytes[n])
<1>1. status = "pending" /\ result = {}
  BY PendingFacts DEF Measure
<1>2. /\ request \in Requests /\ n \in 1 .. Count + 1 /\ n <= Count
      /\ input_bytes = BytesOfFirst(request.bytes)[n - 1]
  BY DEF IInv, TypeOK, Stage, Measure
<1>3. /\ n \in 1 .. Count /\ Count \in Nat /\ request.limits.max_bytes \in Nat
      /\ request.bytes \in Seq(Nat) /\ Len(request.bytes) = Count
  BY <1>2, RequestFacts
<1>4. total > request.limits.max_bytes /\ Refuse("Capacity")
  BY DEF Measure, Refuse
<1>5. BytesOfFirst(request.bytes)[n] = input_bytes + request.bytes[n]
  BY <1>2, <1>3, SumsUnfold
<1>6. BytesOfFirst(request.bytes)[n] > request.limits.max_bytes
  <2>1. BytesOfFirst(request.bytes)[n] \in Nat
    BY <1>2, <1>3, SumFacts
  <2>2. \A x \in Nat : Saturated(x) \in Nat /\ Saturated(x) <= x
    BY WidthAssumption DEF Saturated
  <2>3. total \in Nat /\ total <= BytesOfFirst(request.bytes)[n]
    BY <1>5, <2>1, <2>2
  <2> HIDE DEF total
  <2> QED
    BY <1>3, <1>4, <2>1, <2>3
<1>7. InputBytes(request) > request.limits.max_bytes
  <2>1. BytesOfFirst(request.bytes)[n] <= InputBytes(request)
    <3>1. n \in 0 .. Len(request.bytes)
      BY <1>3
    <3> QED
      BY <1>3, <3>1, SumsGrow DEF InputBytes
  <2>2. BytesOfFirst(request.bytes)[n] \in Nat /\ InputBytes(request) \in Nat
    BY <1>2, <1>3, SumFacts
  <2> QED
    BY <1>3, <1>6, <2>1, <2>2
<1>8. Verdict(request) = "Capacity"
  BY <1>7, LateVerdict DEF Measure
<1> QED
  BY <1>1, <1>4, <1>8 DEF Promise!Answer, Refuse

(* All rows are there when the block is returned, each under its fill's index,  *)
(* which the u32 column shows as it is.                                         *)
LEMMA CompleteResult ==
    ASSUME IInv, pc = "size"
    PROVE  Complete(request, Changes(tables))
<1> DEFINE c == Changes(tables)
<1>1. request \in Requests /\ ~TooMany /\ RowsOf(Count)
  BY DEF IInv, Stage
<1>2. Count \in Nat /\ Count <= U32Mod - 1 /\ U32Mod \in Nat /\ request.fills \in Seq(Fill)
  BY <1>1, WidthAssumption, RequestFacts DEF TooMany
<1>3. Len(tables.order) = Count
  BY <1>1 DEF RowsOf
<1>4. /\ Len(c) = Count
      /\ \A m \in 1 .. Count : c[m] = [key |-> tables.order[m],
                                       origin |-> tables.origin[tables.order[m]]]
  BY <1>2, <1>3 DEF Changes
<1> HIDE DEF c
<1>5. ASSUME NEW m \in 1 .. Count
      PROVE  /\ c[m].key = [table |-> TableOf(request.fills[m]), index |-> m - 1,
                            hash |-> request.fills[m].hash]
             /\ c[m].origin.path = <<m - 1>>
             /\ EventIndexColumn(c[m].origin) = m - 1
  <2> DEFINE fill == request.fills[m]
             item == Item(TableOf(fill), <<m - 1>>, fill.hash)
  <2>1. /\ c[m].key = [table |-> TableOf(fill), index |-> m - 1, hash |-> fill.hash]
        /\ c[m].origin = item
    <3>1. /\ tables.order[m] = [table |-> TableOf(fill), index |-> m - 1, hash |-> fill.hash]
          /\ tables.origin[tables.order[m]] = item
      BY <1>1 DEF RowsOf
    <3>2. /\ c[m].key = tables.order[m]
          /\ c[m].origin = tables.origin[tables.order[m]]
      BY <1>4
    <3> HIDE DEF item, fill
    <3> QED
      BY <3>1, <3>2
  <2>2. item.path = <<m - 1>>
    BY DEF Item
  <2>3. EventIndexColumn(item) = m - 1
    <3>1. m - 1 \in Nat /\ m - 1 < U32Mod
      BY <1>2
    <3>2. IndexOf(<<m - 1>>) = m - 1
      BY <3>1, FillKey
    <3>3. (m - 1) % U32Mod = m - 1
      BY <1>2, <3>1
    <3>4. EventIndexColumn(item) = IndexOf(<<m - 1>>) % U32Mod
      BY <2>2 DEF EventIndexColumn
    <3> QED
      BY <3>2, <3>3, <3>4
  <2> HIDE DEF item
  <2> QED
    BY <2>1, <2>2, <2>3
<1> QED
  BY <1>4, <1>5 DEF Complete, Count, c

LEMMA ReturnAnswer ==
    ASSUME IInv, OutputCapacity \/ Return
    PROVE  Promise!Answer
<1>1. pc = "size" /\ status = "pending" /\ result = {}
  BY PendingFacts DEF OutputCapacity, Return
<1>2. /\ request \in Requests /\ InputBytes(request) <= request.limits.max_bytes
      /\ InputBytes(request) \in Nat /\ request.limits.max_bytes \in Nat
      /\ request.output_bytes \in Nat
  BY <1>1, RequestFacts, SumFacts DEF IInv, Stage
<1>3. Verdict(request) = IF request.output_bytes > request.limits.max_bytes
                         THEN "Capacity" ELSE "Ok"
  BY <1>1, <1>2, LateVerdict
<1>4. CASE OutputCapacity
  BY <1>1, <1>3, <1>4 DEF OutputCapacity, Refuse, Promise!Answer
<1>5. CASE Return
  <2>1. Complete(request, Changes(tables))
    BY <1>1, CompleteResult
  <2>2. /\ status' = "Ok" /\ result' = {Changes(tables)} /\ request' = request
        /\ ~(request.output_bytes > request.limits.max_bytes)
    BY <1>2, <1>5 DEF Return
  <2>3. status' = Verdict(request)
    BY <1>3, <2>2
  <2> QED
    BY <1>1, <2>1, <2>2, <2>3 DEF Promise!Answer
<1> QED
  BY <1>4, <1>5

(* project and fill_changes implement the contract of AtomicCall: the checks    *)
(* that run interleaved with the work refuse what the request as a whole        *)
(* deserves, and the rows come all together or not at all.                      *)
THEOREM Refinement == Spec => Implements
<1>1. Init => Promise!Init
  BY DEF Init, Promise!Init
<1>2. IInv /\ [Next]_vars => [Promise!Answer]_<<request, status, result>>
  <2> SUFFICES ASSUME IInv, [Next]_vars, ~UNCHANGED <<request, status, result>>
               PROVE  Promise!Answer
    OBVIOUS
  <2>1. CASE ProjectCapacity \/ ProjectMissingHeader
    BY <2>1, ProjectAnswer
  <2>2. CASE Check
    <3>1. pc' = "returned"
      BY <2>2 DEF Check, Refuse, GoTo
    <3> QED
      BY <2>2, <3>1, CheckAnswer
  <2>3. CASE Measure
    <3>1. pc' = "returned"
      BY <2>3 DEF Measure, Refuse
    <3> QED
      BY <2>3, <3>1, MeasureAnswer
  <2>4. CASE OutputCapacity \/ Return
    BY <2>4, ReturnAnswer
  <2>5. CASE Project \/ Measured \/ FormatFill \/ Formatted \/ UNCHANGED vars
    <3>1. UNCHANGED <<request, status, result>>
      BY <2>5 DEF Project, Measured, FormatFill, Formatted, GoTo, vars
    <3> QED
      BY <3>1
  <2> QED
    BY <2>1, <2>2, <2>3, <2>4, <2>5 DEF Next
<1> QED
  BY <1>1, <1>2, Invariance, PTL DEF Spec, Implements, Promise!Spec
===============================================================================
