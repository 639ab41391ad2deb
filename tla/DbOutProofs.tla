------------------------------ MODULE DbOutProofs ------------------------------
(* Proofs about db_out, for every block, stride and width of usize.             *)
EXTENDS DbOut, TLAPS

-------------------------------------------------------------------------------
(* Items: what kinds there are, and where they stand in the block.              *)

IsBody(e, q) ==
    /\ e \in 0 .. Len(block.events) - 1
    /\ q \in 0 .. Len(block.events[e + 1].bodies) - 1

IsFillItem(x) ==
    \E k \in 0 .. Len(block.fills) - 1 :
        x = Item(TableOf(block.fills[k + 1]), <<k>>, block.fills[k + 1].hash)

IsBodyItem(x, e, q) ==
    /\ BodyAt(block, e, q).kind \in BodyTables
    /\ x = Item(BodyAt(block, e, q).kind, <<e, q>>, block.events[e + 1].hash)

IsPartItem(x, e, q, p) ==
    /\ BodyAt(block, e, q).kind \in ListTables
    /\ p \in 0 .. BodyAt(block, e, q).parts - 1
    /\ x = Item(BodyAt(block, e, q).kind, <<e, q, p>>, block.events[e + 1].hash)

IsLedgerItem(x, e, q) ==
    /\ BodyAt(block, e, q).kind = "ledger_update" /\ BodyAt(block, e, q).delta # "none"
    /\ x = Item(BodyAt(block, e, q).delta, <<e, q>>, block.events[e + 1].hash)

IsEventItem(x, e, q) ==
    \/ IsBodyItem(x, e, q)
    \/ \E p \in Nat : IsPartItem(x, e, q, p)
    \/ IsLedgerItem(x, e, q)

(* What the widths of the block's lists are, and of what type its bodies.       *)
LEMMA BlockShape ==
    ASSUME block \in Blocks
    PROVE  /\ Len(block.fills) \in Nat /\ Len(block.events) \in Nat
           /\ \A k \in 0 .. Len(block.fills) - 1 : block.fills[k + 1] \in Fill
           /\ \A e \in 0 .. Len(block.events) - 1 :
                 /\ block.events[e + 1] \in Event
                 /\ Len(block.events[e + 1].bodies) \in Nat
           /\ \A e, q : IsBody(e, q) => BodyAt(block, e, q) \in Body
<1>1. block.fills \in Seq(Fill) /\ block.events \in Seq(Event)
  BY BlocksAssumption DEF Block
<1>2. \A e \in 0 .. Len(block.events) - 1 : block.events[e + 1] \in Event
  BY <1>1
<1>3. \A e \in 0 .. Len(block.events) - 1 : block.events[e + 1].bodies \in Seq(Body)
  BY <1>2 DEF Event
<1>4. ASSUME NEW e, NEW q, IsBody(e, q) PROVE BodyAt(block, e, q) \in Body
  <2>1. block.events[e + 1].bodies \in Seq(Body)
    BY <1>3, <1>4 DEF IsBody
  <2> QED
    BY <2>1, <1>4 DEF IsBody, BodyAt
<1> QED
  BY <1>1, <1>2, <1>3, <1>4

LEMMA PathsOfBodies ==
    ASSUME NEW e, NEW q
    PROVE  <<e, q>> \in BodyPaths(block) <=> IsBody(e, q)
<1>1. ASSUME <<e, q>> \in BodyPaths(block) PROVE IsBody(e, q)
  <2>1. PICK e2 \in 0 .. Len(block.events) - 1 :
            <<e, q>> \in {<<e2, c>> : c \in 0 .. Len(block.events[e2 + 1].bodies) - 1}
    BY <1>1 DEF BodyPaths
  <2> QED
    BY <2>1 DEF IsBody
<1> QED
  BY <1>1 DEF BodyPaths, IsBody

LEMMA EveryItem ==
    ASSUME NEW x
    PROVE  x \in Items(block) <=> IsFillItem(x) \/ \E e, q : IsBody(e, q) /\ IsEventItem(x, e, q)
<1> DEFINE Of(p) == ItemsOfBody(block.events[p[1] + 1].hash, BodyAt(block, p[1], p[2]), p)
<1>1. x \in FillItems(block.fills) <=> IsFillItem(x)
  BY DEF FillItems, IsFillItem
<1>2. ASSUME NEW e, NEW q PROVE x \in Of(<<e, q>>) <=> IsEventItem(x, e, q)
  <2>1. BodyTables \cap ListTables = {} /\ "ledger_update" \notin BodyTables \cup ListTables
    BY DEF BodyTables, ListTables
  <2>2. <<e, q>>[1] = e /\ <<e, q>>[2] = q
    OBVIOUS
  <2>3. x \in Of(<<e, q>>) <=>
            x \in ItemsOfBody(block.events[e + 1].hash, BodyAt(block, e, q), <<e, q>>)
    BY <2>2
  <2> HIDE DEF Of
  <2>4. CASE BodyAt(block, e, q).kind \in BodyTables
    BY <2>1, <2>3, <2>4 DEF ItemsOfBody, IsEventItem, IsBodyItem, IsPartItem, IsLedgerItem
  <2>5. CASE BodyAt(block, e, q).kind \in ListTables
    <3>1. x \in Of(<<e, q>>) <=>
              x \in {Item(BodyAt(block, e, q).kind, <<e, q, p>>, block.events[e + 1].hash) :
                         p \in 0 .. BodyAt(block, e, q).parts - 1}
      BY <2>1, <2>2, <2>3, <2>5 DEF ItemsOfBody
    <3> QED
      BY <2>1, <2>5, <3>1 DEF IsEventItem, IsBodyItem, IsPartItem, IsLedgerItem
  <2>6. CASE BodyAt(block, e, q).kind \notin BodyTables \cup ListTables
    BY <2>1, <2>3, <2>6 DEF ItemsOfBody, IsEventItem, IsBodyItem, IsPartItem, IsLedgerItem
  <2> QED
    BY <2>4, <2>5, <2>6
<1>3. x \in Items(block) <=> x \in FillItems(block.fills) \/ \E p \in BodyPaths(block) : x \in Of(p)
  BY DEF Items
<1>4. ASSUME NEW p \in BodyPaths(block) PROVE \E e, q : p = <<e, q>>
  BY <1>4 DEF BodyPaths
<1> HIDE DEF Of
<1>5. (\E p \in BodyPaths(block) : x \in Of(p)) <=> \E e, q : IsBody(e, q) /\ IsEventItem(x, e, q)
  <2>1. ASSUME NEW p \in BodyPaths(block), x \in Of(p)
        PROVE  \E e, q : IsBody(e, q) /\ IsEventItem(x, e, q)
    BY <1>2, <1>4, <2>1, PathsOfBodies
  <2>2. ASSUME NEW e, NEW q, IsBody(e, q), IsEventItem(x, e, q)
        PROVE  \E p \in BodyPaths(block) : x \in Of(p)
    BY <1>2, <2>2, PathsOfBodies
  <2> QED
    BY <2>1, <2>2
<1> QED
  BY <1>1, <1>3, <1>5

-------------------------------------------------------------------------------
(* Order: what it is for an item to be behind the loops.                        *)

Passes == {"fills", "events", "ledger", "blocks", "done"}

(* Reached, of any position of the loops.                                       *)
Rank(at) == CASE at = "fills" -> 1 [] at = "events" -> 2 [] at = "ledger" -> 3 [] OTHER -> 4

ReachedAt(x, at, u, v, w) ==
    \/ PassOf(x) < Rank(at)
    \/ PassOf(x) = Rank(at) /\ PathBefore(x.path, <<u, v, w>>)

LEMMA Ranks ==
    /\ Rank("fills") = 1 /\ Rank("events") = 2 /\ Rank("ledger") = 3
    /\ Rank("blocks") = 4 /\ Rank("done") = 4
  BY DEF Rank

LEMMA ReachedNow == \A x : Reached(x) <=> ReachedAt(x, pass, i, b, d)
  BY DEF Reached, ReachedAt, Rank

LEMMA PathOrder1 ==
    ASSUME NEW e \in Nat, NEW u \in Nat, NEW v \in Nat, NEW w \in Nat
    PROVE  /\ PathBefore(<<e>>, <<u, v, w>>) <=> e < u
           /\ e < u => PathBefore(<<e>>, <<u>>)
<1>1. Len(<<e>>) = 1 /\ 1 .. 1 = {1} /\ 1 .. 1 - 1 = {}
  OBVIOUS
<1>2. PathBefore(<<e>>, <<u, v, w>>) <=> e < u
  BY <1>1 DEF PathBefore
<1>3. e < u => PathBefore(<<e>>, <<u>>)
  BY <1>1 DEF PathBefore
<1> QED
  BY <1>2, <1>3

LEMMA PathOrder2 ==
    ASSUME NEW e \in Nat, NEW q \in Nat, NEW u \in Nat, NEW v \in Nat, NEW w \in Nat
    PROVE  /\ PathBefore(<<e, q>>, <<u, v, w>>) <=> e < u \/ (e = u /\ q < v)
           /\ e < u \/ (e = u /\ q < v) => PathBefore(<<e, q>>, <<u, v>>)
<1>1. Len(<<e, q>>) = 2 /\ 1 .. 2 = {1, 2} /\ 1 .. 1 - 1 = {} /\ 1 .. 2 - 1 = {1}
  OBVIOUS
<1>2. PathBefore(<<e, q>>, <<u, v, w>>) <=> e < u \/ (e = u /\ q < v)
  BY <1>1 DEF PathBefore
<1>3. ASSUME e < u \/ (e = u /\ q < v) PROVE PathBefore(<<e, q>>, <<u, v>>)
  BY <1>1, <1>3 DEF PathBefore
<1> QED
  BY <1>2, <1>3

LEMMA PathOrder3 ==
    ASSUME NEW p, Len(p) = 3, p[1] \in Nat, p[2] \in Nat, p[3] \in Nat,
           NEW q, q[1] \in Nat, q[2] \in Nat, q[3] \in Nat
    PROVE  PathBefore(p, q) <=>
               p[1] < q[1] \/ (p[1] = q[1] /\ p[2] < q[2])
                           \/ (p[1] = q[1] /\ p[2] = q[2] /\ p[3] < q[3])
<1>1. /\ 1 .. 3 = {1, 2, 3}
      /\ 1 .. 1 - 1 = {} /\ 1 .. 2 - 1 = {1} /\ 1 .. 3 - 1 = {1, 2}
  OBVIOUS
<1> QED
  BY <1>1 DEF PathBefore

LEMMA PathOrder32 ==
    ASSUME NEW e \in Nat, NEW q \in Nat, NEW p \in Nat, NEW u \in Nat, NEW v \in Nat,
           e < u \/ (e = u /\ q < v)
    PROVE  PathBefore(<<e, q, p>>, <<u, v>>)
<1>1. /\ Len(<<e, q, p>>) = 3 /\ 1 .. 3 = {1, 2, 3} /\ 1 .. 1 - 1 = {} /\ 1 .. 2 - 1 = {1}
  OBVIOUS
<1> QED
  BY <1>1 DEF PathBefore

(* No table is of two kinds.                                                    *)
LEMMA TablesApart ==
    /\ FillTables \cap (BodyTables \cup ListTables \cup LedgerTables) = {}
    /\ LedgerTables \cap (BodyTables \cup ListTables) = {}
    /\ BodyTables \cap ListTables = {}
  BY DEF FillTables, BodyTables, ListTables, LedgerTables, TransferTables, FundTables,
         AccountTables, MarketTables

(* The pass that formats an item is told by its table.                          *)
LEMMA PassOfItem ==
    ASSUME block \in Blocks, NEW x
    PROVE  /\ IsFillItem(x) => x.table \in FillTables /\ PassOf(x) = 1
           /\ \A e, q : IsBody(e, q) =>
                 /\ IsBodyItem(x, e, q) => x.table \in BodyTables /\ PassOf(x) = 2
                 /\ \A p : IsPartItem(x, e, q, p) => x.table \in ListTables /\ PassOf(x) = 2
                 /\ IsLedgerItem(x, e, q) => x.table \in LedgerTables /\ PassOf(x) = 3
<1>2. \A fill : TableOf(fill) \in FillTables
  BY DEF TableOf, FillTables
<1>3. IsFillItem(x) => x.table \in FillTables
  BY <1>2 DEF IsFillItem, Item
<1>4. ASSUME NEW e, NEW q, IsBody(e, q)
      PROVE  /\ IsBodyItem(x, e, q) => x.table \in BodyTables
             /\ \A p : IsPartItem(x, e, q, p) => x.table \in ListTables
             /\ IsLedgerItem(x, e, q) => x.table \in LedgerTables
  <2>1. BodyAt(block, e, q).delta \in LedgerTables \cup {"none"}
    BY <1>4, BlockShape DEF Body
  <2> QED
    BY <2>1 DEF IsBodyItem, IsPartItem, IsLedgerItem, Item
<1> QED
  BY <1>3, <1>4, TablesApart DEF PassOf

LEMMA ReachedFill ==
    ASSUME block \in Blocks, NEW at \in Passes, NEW u \in Nat, NEW v \in Nat, NEW w \in Nat,
           NEW k \in 0 .. Len(block.fills) - 1,
           NEW x, x = Item(TableOf(block.fills[k + 1]), <<k>>, block.fills[k + 1].hash)
    PROVE  ReachedAt(x, at, u, v, w) <=> at # "fills" \/ k < u
<1>1. x.path = <<k>> /\ k \in Nat /\ PassOf(x) = 1
  BY BlockShape, PassOfItem DEF Item, IsFillItem
<1>2. PathBefore(x.path, <<u, v, w>>) <=> k < u
  BY <1>1, PathOrder1
<1> QED
  BY <1>1, <1>2, Ranks DEF ReachedAt, Passes

LEMMA ReachedBody ==
    ASSUME block \in Blocks, NEW at \in Passes, NEW u \in Nat, NEW v \in Nat, NEW w \in Nat,
           NEW x, NEW e, NEW q, IsBody(e, q), IsBodyItem(x, e, q)
    PROVE  ReachedAt(x, at, u, v, w) <=>
               \/ at \in {"ledger", "blocks", "done"}
               \/ at = "events" /\ (e < u \/ (e = u /\ q < v))
<1>1. x.path = <<e, q>> /\ e \in Nat /\ q \in Nat /\ PassOf(x) = 2
  <2>1. x.path = <<e, q>>
    BY DEF Item, IsBodyItem
  <2>2. e \in Nat /\ q \in Nat
    BY BlockShape DEF IsBody
  <2>3. PassOf(x) = 2
    BY PassOfItem
  <2> QED
    BY <2>1, <2>2, <2>3
<1>2. PathBefore(<<e, q>>, <<u, v, w>>) <=> e < u \/ (e = u /\ q < v)
  BY <1>1, PathOrder2
<1>3. PathBefore(x.path, <<u, v, w>>) <=> e < u \/ (e = u /\ q < v)
  BY <1>1, <1>2, Zenon
<1> QED
  BY <1>1, <1>3, Ranks DEF ReachedAt, Passes

LEMMA ReachedPart ==
    ASSUME block \in Blocks, NEW at \in Passes, NEW u \in Nat, NEW v \in Nat, NEW w \in Nat,
           NEW x, NEW e, NEW q, IsBody(e, q), NEW p, IsPartItem(x, e, q, p)
    PROVE  ReachedAt(x, at, u, v, w) <=>
               \/ at \in {"ledger", "blocks", "done"}
               \/ at = "events" /\ (e < u \/ (e = u /\ q < v) \/ (e = u /\ q = v /\ p < w))
<1>1. x.path = <<e, q, p>> /\ PassOf(x) = 2
  BY BlockShape, PassOfItem DEF Item, IsPartItem, IsBody
<1>2. e \in Nat /\ q \in Nat /\ p \in Nat
  BY BlockShape DEF IsPartItem, IsBody, Body
<1>3. PICK now : now = <<u, v, w>>
  OBVIOUS
<1>4. PathBefore(x.path, now) <=> e < u \/ (e = u /\ q < v) \/ (e = u /\ q = v /\ p < w)
  BY <1>1, <1>2, <1>3, PathOrder3
<1> QED
  BY <1>1, <1>3, <1>4, Ranks DEF ReachedAt, Passes

LEMMA ReachedLedger ==
    ASSUME block \in Blocks, NEW at \in Passes, NEW u \in Nat, NEW v \in Nat, NEW w \in Nat,
           NEW x, NEW e, NEW q, IsBody(e, q), IsLedgerItem(x, e, q)
    PROVE  ReachedAt(x, at, u, v, w) <=>
               \/ at \in {"blocks", "done"}
               \/ at = "ledger" /\ (e < u \/ (e = u /\ q < v))
<1>1. x.path = <<e, q>> /\ e \in Nat /\ q \in Nat /\ PassOf(x) = 3
  BY BlockShape, PassOfItem DEF Item, IsLedgerItem, IsBody
<1>2. PathBefore(<<e, q>>, <<u, v, w>>) <=> e < u \/ (e = u /\ q < v)
  BY <1>1, PathOrder2
<1>3. PathBefore(x.path, <<u, v, w>>) <=> e < u \/ (e = u /\ q < v)
  BY <1>1, <1>2, Zenon
<1> QED
  BY <1>1, <1>3, Ranks DEF ReachedAt, Passes

-------------------------------------------------------------------------------
(* Keys: the stride keeps the rows of an addressable block apart.               *)

LEMMA Below ==
    ASSUME NEW s \in Nat \ {0}, NEW m \in Nat, NEW e \in Nat, NEW q \in Nat, e < m, q < s
    PROVE  e * s + q \in Nat /\ e * s + q < m * s
<1>1. PICK k \in Nat : m = e + 1 + k
  <2>1. m - e - 1 \in Nat /\ m = e + 1 + (m - e - 1)
    OBVIOUS
  <2> QED
    BY <2>1
<1>2. m * s = e * s + s + k * s /\ k * s \in Nat /\ e * s \in Nat
  BY <1>1
<1> QED
  BY <1>2

LEMMA DigitsApart ==
    ASSUME NEW s \in Nat \ {0}, NEW e \in Nat, NEW q \in Nat, q < s,
           NEW f \in Nat, NEW r \in Nat, r < s, e * s + q = f * s + r
    PROVE  e = f /\ q = r
<1>1. e * s \in Nat /\ f * s \in Nat
  OBVIOUS
<1>2. ASSUME e < f PROVE FALSE
  <2>1. e * s + q < f * s
    BY <1>2, Below
  <2> QED
    BY <1>1, <2>1
<1>3. ASSUME f < e PROVE FALSE
  <2>1. f * s + r < e * s
    BY <1>3, Below
  <2> QED
    BY <1>1, <2>1
<1>4. e = f
  BY <1>2, <1>3
<1> QED
  BY <1>1, <1>4

LEMMA NotWrapped == ASSUME NEW m \in Nat, m < UsizeMod PROVE m % UsizeMod = m
  BY WidthAssumption

LEMMA PairIndex ==
    ASSUME block \in Blocks, Addressable(block), NEW e, NEW q, IsBody(e, q)
    PROVE  /\ q < Stride
           /\ e * Stride + q \in Nat /\ e * Stride + q < Len(block.events) * Stride
           /\ Combined(e, q) = e * Stride + q
<1> DEFINE count == Len(block.events)
<1>1. e \in Nat /\ q \in Nat /\ count \in Nat /\ e < count
  BY BlockShape DEF IsBody
<1>2. q < Stride
  <2>1. <<e, q>> \in BodyPaths(block)
    BY PathsOfBodies
  <2> QED
    BY <2>1 DEF Addressable
<1>3. e * Stride + q \in Nat /\ e * Stride + q < count * Stride
  BY <1>1, <1>2, WidthAssumption, Below
<1>4. count * Stride <= UsizeMod
  <2>1. count * Stride \in Nat
    BY <1>1, WidthAssumption
  <2> DEFINE m == count * Stride
  <2>2. m * Stride <= UsizeMod /\ m \in Nat
    BY <2>1 DEF Addressable
  <2>3. m <= m * Stride
    <3> HIDE DEF m
    <3>1. PICK k \in Nat : Stride = k + 1
      <4>1. Stride - 1 \in Nat /\ Stride = (Stride - 1) + 1
        BY WidthAssumption
      <4> QED
        BY <4>1
    <3>2. m * Stride = m * k + m /\ m * k \in Nat
      BY <2>2, <3>1
    <3> QED
      BY <2>2, <3>2
  <2> HIDE DEF m
  <2>4. m * Stride \in Nat
    BY <2>2, WidthAssumption
  <2>5. m <= UsizeMod
    BY <2>2, <2>3, <2>4, WidthAssumption
  <2> QED
    BY <2>5 DEF m
<1> HIDE DEF count
<1>5. e * Stride + q < UsizeMod
  <2>1. count * Stride \in Nat
    BY <1>1, WidthAssumption
  <2> QED
    BY <1>3, <1>4, <2>1, WidthAssumption
<1> QED
  BY <1>2, <1>3, <1>5, NotWrapped DEF Combined, count

LEMMA TripleIndex ==
    ASSUME block \in Blocks, Addressable(block), NEW e, NEW q, IsBody(e, q),
           NEW p \in Nat, p < BodyAt(block, e, q).parts
    PROVE  /\ p < Stride
           /\ Combined(Combined(e, q), p) = (e * Stride + q) * Stride + p
<1> DEFINE m == Len(block.events) * Stride
           c == e * Stride + q
<1>1. c \in Nat /\ c < m /\ Combined(e, q) = c
  BY PairIndex
<1>2. m \in Nat /\ m * Stride <= UsizeMod
  BY BlockShape, WidthAssumption DEF Addressable
<1>3. p < Stride
  <2>1. <<e, q>> \in BodyPaths(block)
    BY PathsOfBodies
  <2>2. BodyAt(block, e, q).parts <= Stride /\ BodyAt(block, e, q).parts \in Nat
    BY <2>1, BlockShape DEF Addressable, Body
  <2> QED
    BY <2>2, WidthAssumption
<1> HIDE DEF c, m
<1>4. c * Stride + p \in Nat /\ c * Stride + p < m * Stride
  BY <1>1, <1>2, <1>3, WidthAssumption, Below
<1>5. m * Stride \in Nat
  BY <1>2, WidthAssumption
<1>6. c * Stride + p < UsizeMod
  BY <1>2, <1>4, <1>5, WidthAssumption
<1>7. Combined(Combined(e, q), p) = c * Stride + p
  BY <1>1, <1>4, <1>6, NotWrapped DEF Combined
<1> QED
  BY <1>3, <1>7 DEF c

LEMMA Indexes ==
    /\ \A k : IndexOf(<<k>>) = k
    /\ \A e, q : IndexOf(<<e, q>>) = Combined(e, q)
    /\ \A e, q, p : IndexOf(<<e, q, p>>) = Combined(Combined(e, q), p)
  BY DEF IndexOf

LEMMA KeyParts ==
    ASSUME NEW x, NEW y, EventKey(x) = EventKey(y)
    PROVE  x.table = y.table /\ IndexOf(x.path) = IndexOf(y.path) /\ x.hash = y.hash
<1>1. \A z : /\ EventKey(z).table = z.table /\ EventKey(z).index = IndexOf(z.path)
             /\ EventKey(z).hash = z.hash
  BY DEF EventKey
<1> QED
  BY <1>1

(* Fills are indexed without a stride: no key of theirs is another row's.       *)
LEMMA FillKeysApart ==
    ASSUME block \in Blocks, NEW x, IsFillItem(x), NEW y \in Items(block),
           EventKey(x) = EventKey(y)
    PROVE  x = y
<1>1. IsFillItem(y)
  <2>1. x.table = y.table /\ x.table \in FillTables
    BY PassOfItem, KeyParts
  <2>3. ASSUME NEW e, NEW q, IsBody(e, q), IsEventItem(y, e, q) PROVE FALSE
    BY <2>1, <2>3, PassOfItem, TablesApart DEF IsEventItem
  <2> QED
    BY <2>3, EveryItem
<1>2. PICK k \in 0 .. Len(block.fills) - 1 :
          x = Item(TableOf(block.fills[k + 1]), <<k>>, block.fills[k + 1].hash)
  BY DEF IsFillItem
<1>3. PICK l \in 0 .. Len(block.fills) - 1 :
          y = Item(TableOf(block.fills[l + 1]), <<l>>, block.fills[l + 1].hash)
  BY <1>1 DEF IsFillItem
<1>4. IndexOf(x.path) = k
  <2>1. x.path = <<k>>
    BY <1>2 DEF Item
  <2> QED
    BY <2>1, Indexes
<1>5. IndexOf(y.path) = l
  <2>1. y.path = <<l>>
    BY <1>3 DEF Item
  <2> QED
    BY <2>1, Indexes
<1>6. k = l
  BY <1>4, <1>5, KeyParts
<1> QED
  BY <1>2, <1>3, <1>6

(* In an addressable block all keys differ.                                     *)
LEMMA KeysApart ==
    ASSUME block \in Blocks, Addressable(block), NEW x \in Items(block), NEW y \in Items(block),
           EventKey(x) = EventKey(y)
    PROVE  x = y
<1>1. CASE IsFillItem(x)
  BY <1>1, FillKeysApart
<1>2. CASE IsFillItem(y)
  BY <1>2, FillKeysApart
<1>3. CASE ~IsFillItem(x) /\ ~IsFillItem(y)
  <2>1. PICK e, q : IsBody(e, q) /\ IsEventItem(x, e, q)
    BY <1>3, EveryItem
  <2>2. PICK f, r : IsBody(f, r) /\ IsEventItem(y, f, r)
    BY <1>3, EveryItem
  <2>3. x.table = y.table /\ IndexOf(x.path) = IndexOf(y.path)
    BY KeyParts
  <2>5. /\ e \in Nat /\ q \in Nat /\ q < Stride /\ Combined(e, q) = e * Stride + q
        /\ f \in Nat /\ r \in Nat /\ r < Stride /\ Combined(f, r) = f * Stride + r
        /\ e * Stride + q \in Nat /\ f * Stride + r \in Nat
    <3>1. e \in Nat /\ q \in Nat /\ f \in Nat /\ r \in Nat
      BY <2>1, <2>2, BlockShape DEF IsBody
    <3>2. q < Stride /\ Combined(e, q) = e * Stride + q /\ e * Stride + q \in Nat
      BY <2>1, PairIndex
    <3>3. r < Stride /\ Combined(f, r) = f * Stride + r /\ f * Stride + r \in Nat
      BY <2>2, PairIndex
    <3> QED
      BY <3>1, <3>2, <3>3
  <2>6. CASE \E p \in Nat : IsPartItem(x, e, q, p)
    <3>1. PICK p \in Nat : IsPartItem(x, e, q, p)
      BY <2>6
    <3>2. PICK o \in Nat : IsPartItem(y, f, r, o)
      BY <2>1, <2>2, <2>3, <3>1, PassOfItem, TablesApart DEF IsEventItem
    <3>3. /\ p < BodyAt(block, e, q).parts /\ BodyAt(block, e, q).parts \in Nat
          /\ o < BodyAt(block, f, r).parts /\ BodyAt(block, f, r).parts \in Nat
      BY <2>1, <2>2, <3>1, <3>2, BlockShape DEF IsPartItem, Body
    <3>4. /\ p < Stride /\ Combined(Combined(e, q), p) = (e * Stride + q) * Stride + p
          /\ o < Stride /\ Combined(Combined(f, r), o) = (f * Stride + r) * Stride + o
      BY <2>1, <2>2, <3>3, TripleIndex
    <3>5. IndexOf(x.path) = Combined(Combined(e, q), p)
      <4>1. x.path = <<e, q, p>>
        BY <3>1 DEF IsPartItem, Item
      <4> QED
        BY <4>1, Indexes
    <3>6. IndexOf(y.path) = Combined(Combined(f, r), o)
      <4>1. y.path = <<f, r, o>>
        BY <3>2 DEF IsPartItem, Item
      <4> QED
        BY <4>1, Indexes
    <3>7. e * Stride + q = f * Stride + r /\ p = o
      <4> DEFINE c == e * Stride + q
                 g == f * Stride + r
      <4>1. c * Stride + p = g * Stride + o
        BY <2>3, <3>4, <3>5, <3>6, Zenon
      <4>2. c \in Nat /\ g \in Nat /\ p < Stride /\ o < Stride
        BY <2>5, <3>4
      <4> HIDE DEF c, g
      <4>3. c = g /\ p = o
        BY <4>1, <4>2, WidthAssumption, DigitsApart
      <4> QED
        BY <4>3 DEF c, g
    <3>8. e = f /\ q = r
      BY <2>5, <3>7, WidthAssumption, DigitsApart
    <3> QED
      BY <3>1, <3>2, <3>7, <3>8 DEF IsPartItem
  <2>7. CASE ~\E p \in Nat : IsPartItem(x, e, q, p)
    <3>1. IsBodyItem(x, e, q) \/ IsLedgerItem(x, e, q)
      BY <2>1, <2>7 DEF IsEventItem
    <3>2. \/ IsBodyItem(x, e, q) /\ IsBodyItem(y, f, r)
          \/ IsLedgerItem(x, e, q) /\ IsLedgerItem(y, f, r)
      BY <2>1, <2>2, <2>3, <3>1, PassOfItem, TablesApart DEF IsEventItem
    <3>3. IndexOf(x.path) = Combined(e, q)
      <4>1. x.path = <<e, q>>
        BY <3>2 DEF IsBodyItem, IsLedgerItem, Item
      <4> QED
        BY <4>1, Indexes
    <3>4. IndexOf(y.path) = Combined(f, r)
      <4>1. y.path = <<f, r>>
        BY <3>2 DEF IsBodyItem, IsLedgerItem, Item
      <4> QED
        BY <4>1, Indexes
    <3>5. e = f /\ q = r
      BY <2>3, <2>5, <3>3, <3>4, WidthAssumption, DigitsApart
    <3> QED
      BY <3>2, <3>5 DEF IsBodyItem, IsLedgerItem
  <2> QED
    BY <2>6, <2>7
<1> QED
  BY <1>1, <1>2, <1>3

-------------------------------------------------------------------------------
(* The inductive invariant.                                                     *)

(* Every loop stays inside its list, and the inner counters are zero outside.   *)
Position ==
    /\ pass = "fills" => i <= Len(block.fills) /\ b = 0 /\ d = 0
    /\ pass \in {"events", "ledger"} =>
          /\ i <= Len(block.events)
          /\ i < Len(block.events) => b <= Len(block.events[i + 1].bodies)
          /\ i = Len(block.events) => b = 0
    /\ d > 0 => AtBody("events") /\ theBody.kind \in ListTables /\ d <= theBody.parts

(* The tables hold what was formatted: every key, and all rows of the keys that *)
(* no later item shares.                                                        *)
Kept ==
    /\ tables.order = <<>> <=> trace = <<>>
    /\ \A n \in 1 .. Len(trace) :
          /\ EventKey(trace[n]) \in DOMAIN tables.origin
          /\ IsFillItem(trace[n]) => tables.origin[EventKey(trace[n])] = trace[n]
    /\ Addressable(block) =>
          /\ Len(tables.order) = Len(trace)
          /\ \A n \in 1 .. Len(trace) :
                tables.order[n] = EventKey(trace[n]) /\ tables.origin[tables.order[n]] = trace[n]

Output ==
    /\ \A c \in changes : c = Changes(tables)
    /\ pass = "done" => (block_row <=> trace # <<>>)

IInv == TypeOK /\ EachItemOnce /\ Position /\ Kept /\ Output

LEMMA TraceType ==
    ASSUME TypeOK
    PROVE  /\ Len(trace) \in Nat /\ DOMAIN trace = 1 .. Len(trace)
           /\ \A n \in 1 .. Len(trace) : trace[n] \in Items(block)
           /\ Len(tables.order) \in Nat
  BY DEF TypeOK

LEMMA KeyType ==
    ASSUME block \in Blocks, NEW x \in Items(block)
    PROVE  EventKey(x) \in Keys
<1>1. ASSUME NEW m \in Nat PROVE m % UsizeMod \in Nat
  BY <1>1, WidthAssumption
<1>2. ASSUME NEW e \in Nat, NEW q \in Nat PROVE Combined(e, q) \in Nat
  <2>1. e * Stride + q \in Nat
    BY WidthAssumption
  <2> QED
    BY <1>1, <2>1 DEF Combined
<1>3. CASE IsFillItem(x)
  <2>1. PICK k \in 0 .. Len(block.fills) - 1 :
            x = Item(TableOf(block.fills[k + 1]), <<k>>, block.fills[k + 1].hash)
    BY <1>3 DEF IsFillItem
  <2>2. x.path = <<k>> /\ x.hash = block.fills[k + 1].hash /\ k \in Nat
    BY <2>1, BlockShape DEF Item
  <2>3. IndexOf(x.path) \in Nat
    BY <2>2, Indexes
  <2>4. x.hash \in Hashes /\ x.table \in EventTables
    BY <1>3, <2>1, <2>2, BlockShape, PassOfItem DEF Fill, EventTables
  <2> QED
    BY <2>3, <2>4 DEF EventKey, Keys
<1>4. CASE ~IsFillItem(x)
  <2>1. PICK e, q : IsBody(e, q) /\ IsEventItem(x, e, q)
    BY <1>4, EveryItem
  <2>2. e \in Nat /\ q \in Nat /\ block.events[e + 1].hash \in Hashes
    BY <2>1, BlockShape DEF IsBody, Event
  <2>3. IndexOf(x.path) \in Nat
    <3>1. CASE \E p \in Nat : IsPartItem(x, e, q, p)
      <4>1. PICK p \in Nat : IsPartItem(x, e, q, p)
        BY <3>1
      <4>2. x.path = <<e, q, p>>
        BY <4>1 DEF IsPartItem, Item
      <4>3. IndexOf(x.path) = Combined(Combined(e, q), p)
        BY <4>2, Indexes
      <4> QED
        BY <1>2, <2>2, <4>3
    <3>2. CASE IsBodyItem(x, e, q) \/ IsLedgerItem(x, e, q)
      <4>1. x.path = <<e, q>>
        BY <3>2 DEF IsBodyItem, IsLedgerItem, Item
      <4>2. IndexOf(x.path) = Combined(e, q)
        BY <4>1, Indexes
      <4> QED
        BY <1>2, <2>2, <4>2
    <3> QED
      BY <2>1, <3>1, <3>2 DEF IsEventItem
  <2>4. x.hash \in Hashes
    BY <2>1, <2>2 DEF IsEventItem, IsBodyItem, IsPartItem, IsLedgerItem, Item
  <2>5. x.table \in EventTables \cup LedgerTables
    BY <2>1, PassOfItem DEF IsEventItem, EventTables
  <2> QED
    BY <2>3, <2>4, <2>5 DEF EventKey, Keys
<1> QED
  BY <1>3, <1>4

(* What create_row and set do to the tables.                                    *)
LEMMA WithRowFacts ==
    ASSUME NEW old, NEW key, NEW item
    PROVE  /\ DOMAIN WithRow(old, key, item).origin = DOMAIN old.origin \cup {key}
           /\ WithRow(old, key, item).origin[key] = item
           /\ \A k \in DOMAIN old.origin :
                 k # key => WithRow(old, key, item).origin[k] = old.origin[k]
           /\ key \in DOMAIN old.origin => WithRow(old, key, item).order = old.order
           /\ key \notin DOMAIN old.origin => WithRow(old, key, item).order = Append(old.order, key)
  BY DEF WithRow

(* A step that formats one more item, which no loop was past, and is then past. *)
LEMMA FormatStep ==
    ASSUME IInv, pass # "done", pass' = pass,
           i' \in Nat, b' \in Nat, d' \in Nat, Position',
           NEW y \in Items(block), Format(y), ~Reached(y),
           \A x \in Items(block) : Reached(x) => Precedes(x, y),
           \A x \in Items(block) : Reached(x)' <=> Reached(x) \/ x = y
    PROVE  IInv'
<1> DEFINE key == EventKey(y)
           last == Len(trace) + 1
<1>1. /\ block' = block /\ block_row' = block_row /\ changes' = changes
      /\ trace' = Append(trace, y)
      /\ tables' = WithRow(tables, key, y)
      /\ block \in Blocks
  BY DEF Format, IInv, TypeOK
<1>2. /\ Len(trace) \in Nat /\ Len(trace') = last
      /\ \A n \in 1 .. Len(trace) : trace[n] \in Items(block) /\ trace'[n] = trace[n]
      /\ trace'[last] = y
      /\ trace' \in Seq(Items(block))
      /\ 1 .. last = 1 .. Len(trace) \cup {last}
  <2>1. trace \in Seq(Items(block))
    BY DEF IInv, TypeOK
  <2> QED
    BY <1>1, <2>1
<1>3. key \in Keys
  BY <1>1, KeyType
<1>4. /\ DOMAIN tables'.origin = DOMAIN tables.origin \cup {key}
      /\ tables'.origin[key] = y
      /\ \A k \in DOMAIN tables.origin : k # key => tables'.origin[k] = tables.origin[k]
      /\ key \in DOMAIN tables.origin => tables'.order = tables.order
      /\ key \notin DOMAIN tables.origin => tables'.order = Append(tables.order, key)
  BY <1>1, WithRowFacts
<1>5. tables.order \in Seq(Keys) /\ tables'.order \in Seq(Keys)
  <2>1. tables.order \in Seq(Keys)
    BY DEF IInv, TypeOK
  <2>2. Append(tables.order, key) \in Seq(Keys)
    <3> HIDE DEF key
    <3> QED
      BY <1>3, <2>1
  <2> HIDE DEF key
  <2> QED
    BY <1>4, <2>1, <2>2, Zenon
<1>6. DOMAIN tables.origin = {tables.order[n] : n \in 1 .. Len(tables.order)}
  BY DEF IInv, TypeOK
<1> HIDE DEF key, last
<1>7. TypeOK'
  <2>1. DOMAIN tables'.origin = {tables'.order[n] : n \in 1 .. Len(tables'.order)}
    <3>1. CASE key \in DOMAIN tables.origin
      BY <3>1, <1>4, <1>6
    <3>2. CASE key \notin DOMAIN tables.origin
      <4>1. /\ tables'.order = Append(tables.order, key)
            /\ Len(tables'.order) = Len(tables.order) + 1 /\ Len(tables.order) \in Nat
            /\ \A n \in 1 .. Len(tables.order) : tables'.order[n] = tables.order[n]
            /\ tables'.order[Len(tables.order) + 1] = key
        BY <3>2, <1>3, <1>4, <1>5
      <4> QED
        BY <4>1, <1>4, <1>6
    <3> QED
      BY <3>1, <3>2
  <2> QED
    BY <1>1, <1>2, <1>5, <2>1 DEF IInv, TypeOK
<1>8. EachItemOnce'
  <2>1. {trace'[n] : n \in 1 .. Len(trace')} = {trace[n] : n \in 1 .. Len(trace)} \cup {y}
    BY <1>2
  <2>2. {x \in Items(block') : Reached(x)'} = {x \in Items(block) : Reached(x)} \cup {y}
    BY <1>1
  <2>3. \A m \in 1 .. Len(trace) : Precedes(trace[m], y)
    BY <1>2 DEF IInv, EachItemOnce
  <2>4. \A m, n \in 1 .. Len(trace) : m < n => Precedes(trace[m], trace[n])
    BY DEF IInv, EachItemOnce
  <2>5. ASSUME NEW m \in 1 .. Len(trace'), NEW n \in 1 .. Len(trace'), m < n
        PROVE  Precedes(trace'[m], trace'[n])
    <3>1. m \in 1 .. Len(trace)
      BY <1>2, <2>5 DEF last
    <3>2. CASE n = last
      BY <1>2, <2>3, <3>1, <3>2
    <3>3. CASE n \in 1 .. Len(trace)
      BY <1>2, <2>4, <2>5, <3>1, <3>3
    <3> QED
      BY <1>2, <3>2, <3>3
  <2> QED
    BY <2>1, <2>2, <2>5 DEF IInv, EachItemOnce
<1>9. Kept'
  <2>1. tables'.order # <<>> /\ trace' # <<>>
    <3>1. tables'.order # <<>>
      <4>1. key \in {tables'.order[n] : n \in 1 .. Len(tables'.order)}
        BY <1>4, <1>7 DEF TypeOK
      <4> QED
        BY <4>1
    <3> QED
      BY <1>1, <1>2, <3>1 DEF last
  <2>2. \A n \in 1 .. Len(trace) : trace[n] # y
    BY <1>2 DEF IInv, EachItemOnce
  <2>3. ASSUME NEW n \in 1 .. Len(trace')
        PROVE  /\ EventKey(trace'[n]) \in DOMAIN tables'.origin
               /\ IsFillItem(trace'[n]) => tables'.origin[EventKey(trace'[n])] = trace'[n]
    <3>1. CASE n = last
      BY <3>1, <1>2, <1>4 DEF key
    <3>2. CASE n \in 1 .. Len(trace)
      <4>1. /\ EventKey(trace[n]) \in DOMAIN tables.origin
            /\ IsFillItem(trace[n]) => tables.origin[EventKey(trace[n])] = trace[n]
        BY <3>2 DEF IInv, Kept
      <4>2. IsFillItem(trace[n]) => EventKey(trace[n]) # key
        BY <1>1, <2>2, <3>2, FillKeysApart DEF key
      <4> QED
        BY <1>2, <1>4, <3>2, <4>1, <4>2
    <3> QED
      BY <1>2, <3>1, <3>2
  <2>4. ASSUME Addressable(block)
        PROVE  /\ Len(tables'.order) = Len(trace')
               /\ \A n \in 1 .. Len(trace') :
                     /\ tables'.order[n] = EventKey(trace'[n])
                     /\ tables'.origin[tables'.order[n]] = trace'[n]
    <3>1. /\ Len(tables.order) = Len(trace)
          /\ \A n \in 1 .. Len(trace) :
                /\ tables.order[n] = EventKey(trace[n])
                /\ tables.origin[tables.order[n]] = trace[n]
      BY <2>4 DEF IInv, Kept
    <3>2. \A n \in 1 .. Len(trace) : EventKey(trace[n]) # key
      BY <1>1, <1>2, <2>2, <2>4, KeysApart DEF key
    <3>3. key \notin DOMAIN tables.origin
      BY <1>6, <3>1, <3>2
    <3>4. /\ Len(tables'.order) = Len(tables.order) + 1
          /\ \A n \in 1 .. Len(tables.order) : tables'.order[n] = tables.order[n]
          /\ tables'.order[Len(tables.order) + 1] = key
      BY <1>3, <1>4, <1>5, <3>3
    <3>5. Len(tables'.order) = Len(trace')
      BY <1>2, <3>1, <3>4 DEF last
    <3>6. ASSUME NEW n \in 1 .. Len(trace')
          PROVE  /\ tables'.order[n] = EventKey(trace'[n])
                 /\ tables'.origin[tables'.order[n]] = trace'[n]
      <4>1. CASE n = last
        BY <4>1, <1>2, <1>4, <3>1, <3>4 DEF key, last
      <4>2. CASE n \in 1 .. Len(trace)
        <5>1. tables.order[n] \in DOMAIN tables.origin /\ tables.order[n] # key
          BY <1>6, <3>1, <3>2, <4>2
        <5> QED
          BY <1>2, <1>4, <3>1, <3>4, <4>2, <5>1
      <4> QED
        BY <1>2, <4>1, <4>2
    <3> QED
      BY <3>5, <3>6
  <2>5. \A x : IsFillItem(x)' <=> IsFillItem(x)
    BY <1>1 DEF IsFillItem
  <2> QED
    BY <1>1, <2>1, <2>3, <2>4, <2>5 DEF Kept
<1>10. Output'
  <2>1. changes = {}
    BY DEF IInv, TypeOK
  <2> QED
    BY <1>1, <2>1 DEF Output
<1> QED
  BY <1>7, <1>8, <1>9, <1>10 DEF IInv

(* A step that formats nothing and is past no other item.                       *)
LEMMA SkipStep ==
    ASSUME IInv, Skip, pass # "done", pass' \in Passes, pass' # "done",
           i' \in Nat, b' \in Nat, d' \in Nat, Position',
           \A x \in Items(block) : Reached(x)' <=> Reached(x)
    PROVE  IInv'
<1>1. /\ block' = block /\ block_row' = block_row /\ changes' = changes
      /\ trace' = trace /\ tables' = tables
  BY DEF Skip
<1>2. TypeOK'
  BY <1>1 DEF IInv, TypeOK, Passes
<1>3. EachItemOnce'
  <2>1. {x \in Items(block') : Reached(x)'} = {x \in Items(block) : Reached(x)}
    BY <1>1
  <2> QED
    BY <1>1, <2>1 DEF IInv, EachItemOnce
<1>4. Kept'
  BY <1>1 DEF IInv, Kept, IsFillItem
<1>5. Output'
  BY <1>1 DEF IInv, Output
<1> QED
  BY <1>2, <1>3, <1>4, <1>5 DEF IInv

-------------------------------------------------------------------------------
(* The actions.                                                                 *)

LEMMA Bounds ==
    ASSUME IInv
    PROVE  /\ block \in Blocks /\ pass \in Passes
           /\ i \in Nat /\ b \in Nat /\ d \in Nat
           /\ Len(block.fills) \in Nat /\ Len(block.events) \in Nat
           /\ \A e \in 0 .. Len(block.events) - 1 : Len(block.events[e + 1].bodies) \in Nat
  BY BlockShape DEF IInv, TypeOK, Passes

(* The body the loops are at.                                                   *)
LEMMA AtTheBody ==
    ASSUME IInv, NEW at \in {"events", "ledger"}, AtBody(at)
    PROVE  /\ IsBody(i, b) /\ pass = at
           /\ theBody = BodyAt(block, i, b) /\ theBody \in Body
           /\ theHash = block.events[i + 1].hash
<1>1. IsBody(i, b)
  BY Bounds DEF AtBody, IsBody
<1> QED
  BY <1>1, Bounds, BlockShape DEF AtBody, theBody, theHash

LEMMA FormatFillStep == ASSUME IInv, FormatFill PROVE IInv'
<1>1. PICK y : y = Item(TableOf(block.fills[i + 1]), <<i>>, block.fills[i + 1].hash)
  OBVIOUS
<1>2. /\ pass = "fills" /\ i < Len(block.fills) /\ Format(y)
      /\ i' = i + 1 /\ pass' = pass /\ b' = b /\ d' = d /\ block' = block
  BY <1>1 DEF FormatFill, NextFill, Format
<1>3. /\ i \in 0 .. Len(block.fills) - 1 /\ block \in Blocks
      /\ i \in Nat /\ b \in Nat /\ d \in Nat /\ Len(block.fills) \in Nat
      /\ b = 0 /\ d = 0
  BY <1>2, Bounds DEF IInv, Position
<1>4. IsFillItem(y) /\ y \in Items(block)
  BY <1>1, <1>3, EveryItem DEF IsFillItem
<1>5. ~Reached(y)
  BY <1>1, <1>2, <1>3, ReachedFill, ReachedNow DEF Passes
<1>6. ASSUME NEW x \in Items(block)
      PROVE  /\ Reached(x) => Precedes(x, y)
             /\ Reached(x)' <=> Reached(x) \/ x = y
  <2>1. Reached(x)' <=> ReachedAt(x, "fills", i + 1, b, d)
    BY <1>2, Ranks DEF Reached, ReachedAt
  <2>2. Reached(x) <=> ReachedAt(x, "fills", i, b, d)
    BY <1>2, ReachedNow
  <2>3. CASE IsFillItem(x)
    <3>1. PICK k \in 0 .. Len(block.fills) - 1 :
              x = Item(TableOf(block.fills[k + 1]), <<k>>, block.fills[k + 1].hash)
      BY <2>3 DEF IsFillItem
    <3>2. Reached(x)' <=> k < i + 1
      BY <1>3, <2>1, <3>1, ReachedFill DEF Passes
    <3>3. Reached(x) <=> k < i
      BY <1>3, <2>2, <3>1, ReachedFill DEF Passes
    <3>4. x = y <=> k = i
      <4>1. x.path[1] = k /\ y.path[1] = i
        BY <1>1, <3>1 DEF Item
      <4> QED
        BY <1>1, <3>1, <4>1
    <3>5. k < i => Precedes(x, y)
      <4>1. PassOf(x) = PassOf(y)
        BY <1>3, <1>4, <2>3, PassOfItem
      <4>2. x.path = <<k>> /\ y.path = <<i>> /\ k \in Nat
        BY <1>1, <3>1 DEF Item
      <4>3. k < i => PathBefore(<<k>>, <<i>>)
        BY <1>3, <4>2, PathOrder1
      <4> QED
        BY <4>1, <4>2, <4>3, Zenon DEF Precedes
    <3> QED
      BY <1>3, <3>2, <3>3, <3>4, <3>5
  <2>4. CASE ~IsFillItem(x)
    <3>1. PICK e, q : IsBody(e, q) /\ IsEventItem(x, e, q)
      BY <2>4, EveryItem
    <3>2. ~Reached(x)'
      BY <1>3, <2>1, <3>1, ReachedBody, ReachedPart, ReachedLedger DEF Passes, IsEventItem
    <3>3. ~Reached(x)
      BY <1>3, <2>2, <3>1, ReachedBody, ReachedPart, ReachedLedger DEF Passes, IsEventItem
    <3> QED
      BY <1>4, <2>4, <3>2, <3>3
  <2> QED
    BY <2>3, <2>4
<1>7. Position'
  BY <1>2, <1>3 DEF Position, AtBody
<1> QED
  BY <1>2, <1>3, <1>4, <1>5, <1>6, <1>7, FormatStep

(* The kinds of bodies exclude each other.                                      *)
LEMMA KindsApart ==
    /\ BodyTables \cap ListTables = {}
    /\ "ledger_update" \notin BodyTables \cup ListTables
    /\ "none" \notin BodyTables \cup ListTables
  BY DEF BodyTables, ListTables

(* Wherever the events pass or the ledger pass stands, fills are behind it, and *)
(* no ledger update is behind the events pass.                                  *)
LEMMA OtherPasses ==
    ASSUME block \in Blocks, NEW at \in Passes, NEW u \in Nat, NEW v \in Nat, NEW w \in Nat,
           NEW x, at # "fills"
    PROVE  /\ IsFillItem(x) => ReachedAt(x, at, u, v, w)
           /\ \A e, q : IsBody(e, q) /\ IsLedgerItem(x, e, q) /\ at = "events" =>
                 ~ReachedAt(x, at, u, v, w)
           /\ \A e, q : IsBody(e, q) /\ at \in {"ledger", "blocks", "done"} =>
                 /\ IsBodyItem(x, e, q) => ReachedAt(x, at, u, v, w)
                 /\ \A p : IsPartItem(x, e, q, p) => ReachedAt(x, at, u, v, w)
<1>1. IsFillItem(x) => ReachedAt(x, at, u, v, w)
  BY ReachedFill DEF IsFillItem
<1>2. ASSUME NEW e, NEW q, IsBody(e, q), IsLedgerItem(x, e, q), at = "events"
      PROVE  ~ReachedAt(x, at, u, v, w)
  BY <1>2, ReachedLedger
<1>3. ASSUME NEW e, NEW q, IsBody(e, q), at \in {"ledger", "blocks", "done"}, IsBodyItem(x, e, q)
      PROVE  ReachedAt(x, at, u, v, w)
  BY <1>3, ReachedBody
<1>4. ASSUME NEW e, NEW q, NEW p, IsBody(e, q), at \in {"ledger", "blocks", "done"},
             IsPartItem(x, e, q, p)
      PROVE  ReachedAt(x, at, u, v, w)
  BY <1>4, ReachedPart
<1> QED
  BY <1>1, <1>2, <1>3, <1>4

(* What an item of a body that comes before is to an item at <<u, v>>.          *)
LEMMA EarlierBody ==
    ASSUME block \in Blocks, NEW x, NEW e, NEW q, IsBody(e, q), IsEventItem(x, e, q),
           NEW u \in Nat, NEW v \in Nat, NEW y, y.path = <<u, v>>, PassOf(x) = PassOf(y),
           e < u \/ (e = u /\ q < v)
    PROVE  Precedes(x, y)
<1>1. e \in Nat /\ q \in Nat
  BY BlockShape DEF IsBody
<1>2. CASE \E p \in Nat : IsPartItem(x, e, q, p)
  <2>1. PICK p \in Nat : IsPartItem(x, e, q, p)
    BY <1>2
  <2>2. x.path = <<e, q, p>>
    BY <2>1 DEF IsPartItem, Item
  <2>3. PathBefore(<<e, q, p>>, <<u, v>>)
    BY <1>1, PathOrder32
  <2> QED
    BY <2>2, <2>3, Zenon DEF Precedes
<1>3. CASE IsBodyItem(x, e, q) \/ IsLedgerItem(x, e, q)
  <2>2. x.path = <<e, q>>
    BY <1>3 DEF IsBodyItem, IsLedgerItem, Item
  <2>3. PathBefore(<<e, q>>, <<u, v>>)
    BY <1>1, PathOrder2
  <2> QED
    BY <2>2, <2>3, Zenon DEF Precedes
<1> QED
  BY <1>2, <1>3 DEF IsEventItem

LEMMA FormatBodyStep == ASSUME IInv, FormatBody PROVE IInv'
<1>1. PICK y : y = Item(theBody.kind, <<i, b>>, theHash)
  OBVIOUS
<1>2. /\ AtBody("events") /\ theBody.kind \in BodyTables /\ Format(y)
      /\ i' = i /\ pass' = pass /\ b' = b + 1 /\ d' = 0 /\ block' = block
  BY <1>1 DEF FormatBody, NextBody, Format
<1>3. /\ IsBody(i, b) /\ pass = "events" /\ theBody = BodyAt(block, i, b)
      /\ theHash = block.events[i + 1].hash
  BY <1>2, AtTheBody
<1>4. block \in Blocks /\ i \in Nat /\ b \in Nat /\ d = 0
  BY <1>2, KindsApart, Bounds DEF IInv, Position
<1>5. IsBodyItem(y, i, b) /\ y \in Items(block) /\ y.path = <<i, b>> /\ PassOf(y) = 2
  <2>1. IsBodyItem(y, i, b)
    BY <1>1, <1>2, <1>3 DEF IsBodyItem
  <2>2. y.path = <<i, b>>
    BY <1>1 DEF Item
  <2> QED
    BY <1>3, <1>4, <2>1, <2>2, EveryItem, PassOfItem DEF IsEventItem
<1>6. ~Reached(y)
  BY <1>3, <1>4, <1>5, ReachedBody, ReachedNow DEF Passes
<1>7. ASSUME NEW x \in Items(block)
      PROVE  /\ Reached(x) => Precedes(x, y)
             /\ Reached(x)' <=> Reached(x) \/ x = y
  <2>1. Reached(x)' <=> ReachedAt(x, "events", i, b + 1, 0)
    BY <1>2, <1>3, Ranks DEF Reached, ReachedAt
  <2>2. Reached(x) <=> ReachedAt(x, "events", i, b, 0)
    BY <1>3, <1>4, ReachedNow
  <2>3. CASE IsFillItem(x)
    <3>1. Reached(x) /\ Reached(x)'
      BY <1>4, <2>1, <2>2, <2>3, OtherPasses DEF Passes
    <3>2. PassOf(x) < PassOf(y)
      BY <1>4, <1>5, <2>3, PassOfItem
    <3> QED
      BY <3>1, <3>2 DEF Precedes
  <2>4. ASSUME NEW e, NEW q, IsBody(e, q), IsBodyItem(x, e, q)
        PROVE  /\ Reached(x) => Precedes(x, y)
               /\ Reached(x)' <=> Reached(x) \/ x = y
    <3>1. e \in Nat /\ q \in Nat /\ PassOf(x) = 2 /\ x.path = <<e, q>>
      <4>1. e \in Nat /\ q \in Nat
        BY <1>4, <2>4, BlockShape DEF IsBody
      <4>2. PassOf(x) = 2
        BY <1>4, <2>4, PassOfItem
      <4>3. x.path = <<e, q>>
        BY <2>4 DEF IsBodyItem, Item
      <4> QED
        BY <4>1, <4>2, <4>3
    <3>2. Reached(x) <=> e < i \/ (e = i /\ q < b)
      BY <1>4, <2>2, <2>4, ReachedBody DEF Passes
    <3>3. Reached(x)' <=> e < i \/ (e = i /\ q < b + 1)
      BY <1>4, <2>1, <2>4, ReachedBody DEF Passes
    <3>4. x = y <=> e = i /\ q = b
      BY <1>5, <2>4, <3>1 DEF IsBodyItem
    <3>5. Reached(x) => Precedes(x, y)
      BY <1>4, <1>5, <2>4, <3>1, <3>2, EarlierBody DEF IsEventItem
    <3> QED
      BY <1>4, <3>1, <3>2, <3>3, <3>4, <3>5
  <2>5. ASSUME NEW e, NEW q, NEW p, IsBody(e, q), p \in Nat, IsPartItem(x, e, q, p)
        PROVE  /\ Reached(x) => Precedes(x, y)
               /\ Reached(x)' <=> Reached(x) \/ x = y
    <3>1. e \in Nat /\ q \in Nat /\ PassOf(x) = 2
      <4>1. e \in Nat /\ q \in Nat
        BY <1>4, <2>5, BlockShape DEF IsBody
      <4>2. PassOf(x) = 2
        BY <1>4, <2>5, PassOfItem
      <4> QED
        BY <4>1, <4>2
    <3>2. ~(e = i /\ q = b)
      BY <1>2, <1>3, <2>5, KindsApart DEF IsPartItem
    <3>3. Reached(x) <=> e < i \/ (e = i /\ q < b)
      BY <1>4, <2>2, <2>5, <3>2, ReachedPart DEF Passes
    <3>4. Reached(x)' <=> e < i \/ (e = i /\ q < b + 1)
      BY <1>4, <2>1, <2>5, <3>2, ReachedPart DEF Passes
    <3>5. x # y
      BY <1>5, <2>5, KindsApart DEF IsBodyItem, IsPartItem, Item
    <3>6. Reached(x) => Precedes(x, y)
      BY <1>4, <1>5, <2>5, <3>1, <3>3, EarlierBody DEF IsEventItem
    <3> QED
      BY <1>4, <3>1, <3>2, <3>3, <3>4, <3>5, <3>6
  <2>6. ASSUME NEW e, NEW q, IsBody(e, q), IsLedgerItem(x, e, q)
        PROVE  /\ Reached(x) => Precedes(x, y)
               /\ Reached(x)' <=> Reached(x) \/ x = y
    <3>1. ~Reached(x) /\ ~Reached(x)'
      BY <1>4, <2>1, <2>2, <2>6, OtherPasses DEF Passes
    <3>2. PassOf(x) = 3
      BY <1>4, <2>6, PassOfItem
    <3> QED
      BY <1>5, <3>1, <3>2
  <2> QED
    BY <2>3, <2>4, <2>5, <2>6, EveryItem DEF IsEventItem
<1>8. Position'
  BY <1>2, <1>3, <1>4, Bounds DEF IInv, Position, AtBody
<1> QED
  BY <1>2, <1>3, <1>4, <1>5, <1>6, <1>7, <1>8, FormatStep

LEMMA FormatPartStep == ASSUME IInv, FormatPart PROVE IInv'
<1>1. PICK y : y = Item(theBody.kind, <<i, b, d>>, theHash)
  OBVIOUS
<1>2. /\ AtBody("events") /\ theBody.kind \in ListTables /\ d < theBody.parts /\ Format(y)
      /\ i' = i /\ pass' = pass /\ b' = b /\ d' = d + 1 /\ block' = block
  BY <1>1 DEF FormatPart, NextPart, Format
<1>3. /\ IsBody(i, b) /\ pass = "events" /\ theBody = BodyAt(block, i, b) /\ theBody \in Body
      /\ theHash = block.events[i + 1].hash
  BY <1>2, AtTheBody
<1>4. block \in Blocks /\ i \in Nat /\ b \in Nat /\ d \in Nat /\ theBody.parts \in Nat
  BY <1>3, Bounds DEF Body
<1>5. IsPartItem(y, i, b, d) /\ y \in Items(block) /\ y.path = <<i, b, d>> /\ PassOf(y) = 2
  <2>1. d \in 0 .. theBody.parts - 1
    BY <1>2, <1>4
  <2>2. IsPartItem(y, i, b, d)
    BY <1>1, <1>2, <1>3, <2>1 DEF IsPartItem
  <2>3. y.path = <<i, b, d>>
    BY <1>1 DEF Item
  <2> QED
    BY <1>3, <1>4, <2>2, <2>3, EveryItem, PassOfItem DEF IsEventItem
<1>6. ~Reached(y)
  BY <1>3, <1>4, <1>5, ReachedPart, ReachedNow DEF Passes
<1>7. ASSUME NEW x, Reached(x) PROVE Precedes(x, y)
  <2>1. PassOf(x) < 2 \/ (PassOf(x) = 2 /\ PathBefore(x.path, <<i, b, d>>))
    BY <1>3, <1>7, ReachedNow, Ranks DEF ReachedAt
  <2> QED
    BY <1>5, <2>1, Zenon DEF Precedes
<1>8. ASSUME NEW x \in Items(block) PROVE Reached(x)' <=> Reached(x) \/ x = y
  <2>1. Reached(x)' <=> ReachedAt(x, "events", i, b, d + 1)
    BY <1>2, <1>3, Ranks DEF Reached, ReachedAt
  <2>2. Reached(x) <=> ReachedAt(x, "events", i, b, d)
    BY <1>3, <1>4, ReachedNow
  <2>3. CASE IsFillItem(x)
    BY <1>4, <2>1, <2>2, <2>3, OtherPasses DEF Passes
  <2>4. ASSUME NEW e, NEW q, IsBody(e, q), IsBodyItem(x, e, q)
        PROVE  Reached(x)' <=> Reached(x) \/ x = y
    <3>1. Reached(x) <=> e < i \/ (e = i /\ q < b)
      BY <1>4, <2>2, <2>4, ReachedBody DEF Passes
    <3>2. Reached(x)' <=> e < i \/ (e = i /\ q < b)
      BY <1>4, <2>1, <2>4, ReachedBody DEF Passes
    <3>3. x # y
      BY <1>5, <2>4, KindsApart DEF IsBodyItem, IsPartItem, Item
    <3> QED
      BY <3>1, <3>2, <3>3
  <2>5. ASSUME NEW e, NEW q, NEW p, IsBody(e, q), p \in Nat, IsPartItem(x, e, q, p)
        PROVE  Reached(x)' <=> Reached(x) \/ x = y
    <3>1. e \in Nat /\ q \in Nat
      BY <1>4, <2>5, BlockShape DEF IsBody
    <3>2. Reached(x) <=> e < i \/ (e = i /\ q < b) \/ (e = i /\ q = b /\ p < d)
      BY <1>4, <2>2, <2>5, ReachedPart DEF Passes
    <3>3. Reached(x)' <=> e < i \/ (e = i /\ q < b) \/ (e = i /\ q = b /\ p < d + 1)
      BY <1>4, <2>1, <2>5, ReachedPart DEF Passes
    <3>4. x = y <=> e = i /\ q = b /\ p = d
      <4>1. x = y => x.path[1] = i /\ x.path[2] = b /\ x.path[3] = d
        BY <1>5
      <4>2. x.path[1] = e /\ x.path[2] = q /\ x.path[3] = p
        BY <2>5 DEF IsPartItem, Item
      <4> QED
        BY <1>5, <2>5, <4>1, <4>2 DEF IsPartItem
    <3> QED
      BY <1>4, <2>5, <3>1, <3>2, <3>3, <3>4
  <2>6. ASSUME NEW e, NEW q, IsBody(e, q), IsLedgerItem(x, e, q)
        PROVE  Reached(x)' <=> Reached(x) \/ x = y
    <3>1. ~Reached(x) /\ ~Reached(x)'
      BY <1>4, <2>1, <2>2, <2>6, OtherPasses DEF Passes
    <3>2. PassOf(x) = 3
      BY <1>4, <2>6, PassOfItem
    <3> QED
      BY <1>5, <3>1, <3>2
  <2> QED
    BY <2>3, <2>4, <2>5, <2>6, EveryItem DEF IsEventItem
<1>9. Position'
  BY <1>2, <1>3, <1>4, Bounds DEF IInv, Position, AtBody, theBody
<1> QED
  BY <1>2, <1>3, <1>4, <1>5, <1>6, <1>7, <1>8, <1>9, FormatStep

LEMMA FormatLedgerStep == ASSUME IInv, FormatLedgerUpdate PROVE IInv'
<1>1. PICK y : y = Item(theBody.delta, <<i, b>>, theHash)
  OBVIOUS
<1>2. /\ AtBody("ledger") /\ theBody.kind = "ledger_update" /\ theBody.delta # "none"
      /\ Format(y)
      /\ i' = i /\ pass' = pass /\ b' = b + 1 /\ d' = 0 /\ block' = block
  BY <1>1 DEF FormatLedgerUpdate, NextBody, Format
<1>3. /\ IsBody(i, b) /\ pass = "ledger" /\ theBody = BodyAt(block, i, b)
      /\ theHash = block.events[i + 1].hash
  BY <1>2, AtTheBody
<1>4. block \in Blocks /\ i \in Nat /\ b \in Nat /\ d = 0
  BY <1>3, Bounds DEF IInv, Position, AtBody
<1>5. IsLedgerItem(y, i, b) /\ y \in Items(block) /\ y.path = <<i, b>> /\ PassOf(y) = 3
  <2>1. IsLedgerItem(y, i, b)
    BY <1>1, <1>2, <1>3 DEF IsLedgerItem
  <2>2. y.path = <<i, b>>
    BY <1>1 DEF Item
  <2> QED
    BY <1>3, <1>4, <2>1, <2>2, EveryItem, PassOfItem DEF IsEventItem
<1>6. ~Reached(y)
  BY <1>3, <1>4, <1>5, ReachedLedger, ReachedNow DEF Passes
<1>7. ASSUME NEW x \in Items(block)
      PROVE  /\ Reached(x) => Precedes(x, y)
             /\ Reached(x)' <=> Reached(x) \/ x = y
  <2>1. Reached(x)' <=> ReachedAt(x, "ledger", i, b + 1, 0)
    BY <1>2, <1>3, Ranks DEF Reached, ReachedAt
  <2>2. Reached(x) <=> ReachedAt(x, "ledger", i, b, 0)
    BY <1>3, <1>4, ReachedNow
  <2>3. CASE PassOf(x) < 3
    <3>1. Reached(x) /\ Reached(x)'
      BY <2>1, <2>2, <2>3, Ranks DEF ReachedAt
    <3> QED
      BY <1>5, <2>3, <3>1 DEF Precedes
  <2>4. ASSUME NEW e, NEW q, IsBody(e, q), IsLedgerItem(x, e, q)
        PROVE  /\ Reached(x) => Precedes(x, y)
               /\ Reached(x)' <=> Reached(x) \/ x = y
    <3>1. e \in Nat /\ q \in Nat /\ PassOf(x) = 3 /\ x.path = <<e, q>>
      <4>1. e \in Nat /\ q \in Nat
        BY <1>4, <2>4, BlockShape DEF IsBody
      <4>2. PassOf(x) = 3
        BY <1>4, <2>4, PassOfItem
      <4>3. x.path = <<e, q>>
        BY <2>4 DEF IsLedgerItem, Item
      <4> QED
        BY <4>1, <4>2, <4>3
    <3>2. Reached(x) <=> e < i \/ (e = i /\ q < b)
      BY <1>4, <2>2, <2>4, ReachedLedger DEF Passes
    <3>3. Reached(x)' <=> e < i \/ (e = i /\ q < b + 1)
      BY <1>4, <2>1, <2>4, ReachedLedger DEF Passes
    <3>4. x = y <=> e = i /\ q = b
      BY <1>5, <2>4, <3>1 DEF IsLedgerItem
    <3>5. Reached(x) => Precedes(x, y)
      BY <1>4, <1>5, <2>4, <3>1, <3>2, EarlierBody DEF IsEventItem
    <3> QED
      BY <1>4, <3>1, <3>2, <3>3, <3>4, <3>5
  <2>5. PassOf(x) < 3 \/ \E e, q : IsBody(e, q) /\ IsLedgerItem(x, e, q)
    BY <1>4, EveryItem, PassOfItem DEF IsEventItem
  <2> QED
    BY <2>3, <2>4, <2>5
<1>8. Position'
  BY <1>2, <1>3, <1>4, Bounds DEF IInv, Position, AtBody
<1> QED
  BY <1>2, <1>3, <1>4, <1>5, <1>6, <1>7, <1>8, FormatStep

LEMMA EndFillsStep == ASSUME IInv, EndFills PROVE IInv'
<1>1. /\ pass = "fills" /\ i = Len(block.fills) /\ Skip
      /\ pass' = "events" /\ i' = 0 /\ b' = b /\ d' = d
  BY DEF EndFills, StartPass
<1>2. block' = block /\ block \in Blocks /\ b = 0 /\ d = 0 /\ i \in Nat
  BY <1>1, Bounds DEF Skip, IInv, Position
<1>3. ASSUME NEW x \in Items(block) PROVE Reached(x)' <=> Reached(x)
  <2>1. Reached(x)' <=> ReachedAt(x, "events", 0, 0, 0)
    BY <1>1, <1>2, Ranks DEF Reached, ReachedAt
  <2>2. Reached(x) <=> ReachedAt(x, "fills", i, 0, 0)
    BY <1>1, <1>2, ReachedNow
  <2>3. CASE IsFillItem(x)
    <3>1. PICK k \in 0 .. Len(block.fills) - 1 :
              x = Item(TableOf(block.fills[k + 1]), <<k>>, block.fills[k + 1].hash)
      BY <2>3 DEF IsFillItem
    <3>2. Reached(x) <=> k < i
      BY <1>2, <2>2, <3>1, ReachedFill DEF Passes
    <3>3. Reached(x)'
      BY <1>2, <2>1, <2>3, OtherPasses DEF Passes
    <3> QED
      BY <1>1, <1>2, <3>2, <3>3
  <2>4. ASSUME NEW e, NEW q, IsBody(e, q), IsEventItem(x, e, q)
        PROVE  Reached(x)' <=> Reached(x)
    <3>1. e \in Nat /\ q \in Nat
      BY <1>2, <2>4, BlockShape DEF IsBody
    <3>2. ~Reached(x)
      BY <1>2, <2>2, <2>4, ReachedBody, ReachedPart, ReachedLedger DEF Passes, IsEventItem
    <3>3. IsBodyItem(x, e, q) => ~Reached(x)'
      BY <1>2, <2>1, <2>4, <3>1, ReachedBody DEF Passes
    <3>4. ASSUME NEW p \in Nat, IsPartItem(x, e, q, p) PROVE ~Reached(x)'
      BY <1>2, <2>1, <2>4, <3>1, <3>4, ReachedPart DEF Passes
    <3>5. IsLedgerItem(x, e, q) => ~Reached(x)'
      BY <1>2, <2>1, <2>4, OtherPasses DEF Passes
    <3> QED
      BY <2>4, <3>2, <3>3, <3>4, <3>5 DEF IsEventItem
  <2> QED
    BY <2>3, <2>4, EveryItem
<1>4. Position'
  <2>1. Len(block.events) \in Nat /\ (0 < Len(block.events) => Len(block.events[0 + 1].bodies) \in Nat)
    BY Bounds
  <2> QED
    BY <1>1, <1>2, <2>1 DEF Position
<1> QED
  BY <1>1, <1>2, <1>3, <1>4, SkipStep DEF Passes

LEMMA EndPartsStep == ASSUME IInv, EndParts PROVE IInv'
<1>1. /\ AtBody("events") /\ theBody.kind \in ListTables /\ d = theBody.parts /\ Skip
      /\ i' = i /\ pass' = pass /\ b' = b + 1 /\ d' = 0 /\ block' = block
  BY DEF EndParts, NextBody, Skip
<1>2. IsBody(i, b) /\ pass = "events" /\ theBody = BodyAt(block, i, b)
  BY <1>1, AtTheBody
<1>3. block \in Blocks /\ i \in Nat /\ b \in Nat /\ d \in Nat
  BY Bounds
<1>4. ASSUME NEW x \in Items(block) PROVE Reached(x)' <=> Reached(x)
  <2>1. Reached(x)' <=> ReachedAt(x, "events", i, b + 1, 0)
    BY <1>1, <1>2, Ranks DEF Reached, ReachedAt
  <2>2. Reached(x) <=> ReachedAt(x, "events", i, b, d)
    BY <1>2, ReachedNow
  <2>3. CASE IsFillItem(x)
    BY <1>3, <2>1, <2>2, <2>3, OtherPasses DEF Passes
  <2>4. ASSUME NEW e, NEW q, IsBody(e, q), IsBodyItem(x, e, q)
        PROVE  Reached(x)' <=> Reached(x)
    <3>1. e \in Nat /\ q \in Nat /\ ~(e = i /\ q = b)
      BY <1>1, <1>2, <1>3, <2>4, KindsApart, BlockShape DEF IsBody, IsBodyItem
    <3>2. Reached(x) <=> e < i \/ (e = i /\ q < b)
      BY <1>3, <2>2, <2>4, ReachedBody DEF Passes
    <3>3. Reached(x)' <=> e < i \/ (e = i /\ q < b + 1)
      BY <1>3, <2>1, <2>4, ReachedBody DEF Passes
    <3> QED
      BY <1>3, <3>1, <3>2, <3>3
  <2>5. ASSUME NEW e, NEW q, NEW p, IsBody(e, q), p \in Nat, IsPartItem(x, e, q, p)
        PROVE  Reached(x)' <=> Reached(x)
    <3>1. e \in Nat /\ q \in Nat /\ (e = i /\ q = b => p < d)
      <4>1. e \in Nat /\ q \in Nat
        BY <1>3, <2>5, BlockShape DEF IsBody
      <4>2. e = i /\ q = b => p < d
        BY <1>1, <1>2, <1>3, <2>5 DEF IsPartItem
      <4> QED
        BY <4>1, <4>2
    <3>2. Reached(x) <=> e < i \/ (e = i /\ q < b) \/ (e = i /\ q = b /\ p < d)
      BY <1>3, <2>2, <2>5, ReachedPart DEF Passes
    <3>3. Reached(x)' <=> e < i \/ (e = i /\ q < b + 1)
      BY <1>3, <2>1, <2>5, ReachedPart DEF Passes
    <3> QED
      BY <1>3, <2>5, <3>1, <3>2, <3>3
  <2>6. ASSUME NEW e, NEW q, IsBody(e, q), IsLedgerItem(x, e, q)
        PROVE  Reached(x)' <=> Reached(x)
    BY <1>3, <2>1, <2>2, <2>6, OtherPasses DEF Passes
  <2> QED
    BY <2>3, <2>4, <2>5, <2>6, EveryItem DEF IsEventItem
<1>5. Position'
  BY <1>1, <1>2, <1>3, Bounds DEF IInv, Position, AtBody
<1> QED
  BY <1>1, <1>2, <1>3, <1>4, <1>5, SkipStep DEF Passes

LEMMA SkipBodyStep == ASSUME IInv, SkipBody PROVE IInv'
<1>1. /\ AtBody("events") /\ theBody.kind \in {"ledger_update", "none"} /\ Skip
      /\ i' = i /\ pass' = pass /\ b' = b + 1 /\ d' = 0 /\ block' = block
  BY DEF SkipBody, NextBody, Skip
<1>2. IsBody(i, b) /\ pass = "events" /\ theBody = BodyAt(block, i, b)
  BY <1>1, AtTheBody
<1>3. block \in Blocks /\ i \in Nat /\ b \in Nat /\ d = 0
  BY <1>1, KindsApart, Bounds DEF IInv, Position
<1>4. ASSUME NEW x \in Items(block) PROVE Reached(x)' <=> Reached(x)
  <2>1. Reached(x)' <=> ReachedAt(x, "events", i, b + 1, 0)
    BY <1>1, <1>2, Ranks DEF Reached, ReachedAt
  <2>2. Reached(x) <=> ReachedAt(x, "events", i, b, 0)
    BY <1>2, <1>3, ReachedNow
  <2>3. CASE IsFillItem(x)
    BY <1>3, <2>1, <2>2, <2>3, OtherPasses DEF Passes
  <2>4. ASSUME NEW e, NEW q, IsBody(e, q), IsBodyItem(x, e, q)
        PROVE  Reached(x)' <=> Reached(x)
    <3>1. e \in Nat /\ q \in Nat /\ ~(e = i /\ q = b)
      BY <1>1, <1>2, <1>3, <2>4, KindsApart, BlockShape DEF IsBody, IsBodyItem
    <3>2. Reached(x) <=> e < i \/ (e = i /\ q < b)
      BY <1>3, <2>2, <2>4, ReachedBody DEF Passes
    <3>3. Reached(x)' <=> e < i \/ (e = i /\ q < b + 1)
      BY <1>3, <2>1, <2>4, ReachedBody DEF Passes
    <3> QED
      BY <1>3, <3>1, <3>2, <3>3
  <2>5. ASSUME NEW e, NEW q, NEW p, IsBody(e, q), p \in Nat, IsPartItem(x, e, q, p)
        PROVE  Reached(x)' <=> Reached(x)
    <3>1. e \in Nat /\ q \in Nat /\ ~(e = i /\ q = b)
      BY <1>1, <1>2, <1>3, <2>5, KindsApart, BlockShape DEF IsBody, IsPartItem
    <3>2. Reached(x) <=> e < i \/ (e = i /\ q < b)
      BY <1>3, <2>2, <2>5, <3>1, ReachedPart DEF Passes
    <3>3. Reached(x)' <=> e < i \/ (e = i /\ q < b + 1)
      BY <1>3, <2>1, <2>5, <3>1, ReachedPart DEF Passes
    <3> QED
      BY <1>3, <3>1, <3>2, <3>3
  <2>6. ASSUME NEW e, NEW q, IsBody(e, q), IsLedgerItem(x, e, q)
        PROVE  Reached(x)' <=> Reached(x)
    BY <1>3, <2>1, <2>2, <2>6, OtherPasses DEF Passes
  <2> QED
    BY <2>3, <2>4, <2>5, <2>6, EveryItem DEF IsEventItem
<1>5. Position'
  BY <1>1, <1>2, <1>3, Bounds DEF IInv, Position, AtBody
<1> QED
  BY <1>1, <1>2, <1>3, <1>4, <1>5, SkipStep DEF Passes

LEMMA SkipLedgerBodyStep == ASSUME IInv, SkipLedgerBody PROVE IInv'
<1>1. /\ AtBody("ledger") /\ (theBody.kind = "ledger_update" => theBody.delta = "none") /\ Skip
      /\ i' = i /\ pass' = pass /\ b' = b + 1 /\ d' = 0 /\ block' = block
  BY DEF SkipLedgerBody, NextBody, Skip
<1>2. IsBody(i, b) /\ pass = "ledger" /\ theBody = BodyAt(block, i, b)
  BY <1>1, AtTheBody
<1>3. block \in Blocks /\ i \in Nat /\ b \in Nat /\ d = 0
  BY <1>2, Bounds DEF IInv, Position, AtBody
<1>4. ASSUME NEW x \in Items(block) PROVE Reached(x)' <=> Reached(x)
  <2>1. Reached(x)' <=> ReachedAt(x, "ledger", i, b + 1, 0)
    BY <1>1, <1>2, Ranks DEF Reached, ReachedAt
  <2>2. Reached(x) <=> ReachedAt(x, "ledger", i, b, 0)
    BY <1>2, <1>3, ReachedNow
  <2>3. CASE PassOf(x) < 3
    BY <2>1, <2>2, <2>3, Ranks DEF ReachedAt
  <2>4. ASSUME NEW e, NEW q, IsBody(e, q), IsLedgerItem(x, e, q)
        PROVE  Reached(x)' <=> Reached(x)
    <3>1. e \in Nat /\ q \in Nat /\ ~(e = i /\ q = b)
      BY <1>1, <1>2, <1>3, <2>4, BlockShape DEF IsBody, IsLedgerItem
    <3>2. Reached(x) <=> e < i \/ (e = i /\ q < b)
      BY <1>3, <2>2, <2>4, ReachedLedger DEF Passes
    <3>3. Reached(x)' <=> e < i \/ (e = i /\ q < b + 1)
      BY <1>3, <2>1, <2>4, ReachedLedger DEF Passes
    <3> QED
      BY <1>3, <3>1, <3>2, <3>3
  <2>5. PassOf(x) < 3 \/ \E e, q : IsBody(e, q) /\ IsLedgerItem(x, e, q)
    BY <1>3, EveryItem, PassOfItem DEF IsEventItem
  <2> QED
    BY <2>3, <2>4, <2>5
<1>5. Position'
  BY <1>1, <1>2, <1>3, Bounds DEF IInv, Position, AtBody
<1> QED
  BY <1>1, <1>2, <1>3, <1>4, <1>5, SkipStep DEF Passes

LEMMA EndEventStep == ASSUME IInv, EndEvent PROVE IInv'
<1>1. /\ pass \in {"events", "ledger"} /\ i < Len(block.events)
      /\ b = Len(block.events[i + 1].bodies) /\ Skip
      /\ i' = i + 1 /\ pass' = pass /\ b' = 0 /\ d' = d /\ block' = block
  BY DEF EndEvent, NextEvent, Skip
<1>2. block \in Blocks /\ i \in Nat /\ b \in Nat /\ d = 0
  BY <1>1, Bounds DEF IInv, Position, AtBody
<1>3. ASSUME NEW e, NEW q, IsBody(e, q)
      PROVE  /\ e \in Nat /\ q \in Nat
             /\ e < i \/ (e = i /\ q < b) <=> e < i + 1
  BY <1>1, <1>2, <1>3, BlockShape DEF IsBody
<1>4. ASSUME NEW x \in Items(block) PROVE Reached(x)' <=> Reached(x)
  <2>1. Reached(x)' <=> ReachedAt(x, pass, i + 1, 0, 0)
    BY <1>1, <1>2, Ranks DEF Reached, ReachedAt, Rank
  <2>2. Reached(x) <=> ReachedAt(x, pass, i, b, 0)
    BY <1>2, ReachedNow
  <2>3. CASE IsFillItem(x)
    BY <1>1, <1>2, <2>1, <2>2, <2>3, OtherPasses DEF Passes
  <2>4. ASSUME NEW e, NEW q, IsBody(e, q), IsBodyItem(x, e, q)
        PROVE  Reached(x)' <=> Reached(x)
    <3>1. Reached(x) <=> pass = "ledger" \/ e < i \/ (e = i /\ q < b)
      BY <1>1, <1>2, <2>2, <2>4, ReachedBody DEF Passes
    <3>2. Reached(x)' <=> pass = "ledger" \/ e < i + 1 \/ (e = i + 1 /\ q < 0)
      BY <1>1, <1>2, <2>1, <2>4, ReachedBody DEF Passes
    <3> QED
      BY <1>3, <2>4, <3>1, <3>2
  <2>5. ASSUME NEW e, NEW q, NEW p, IsBody(e, q), p \in Nat, IsPartItem(x, e, q, p)
        PROVE  Reached(x)' <=> Reached(x)
    <3>1. Reached(x) <=> pass = "ledger" \/ e < i \/ (e = i /\ q < b)
      BY <1>1, <1>2, <2>2, <2>5, ReachedPart DEF Passes
    <3>2. Reached(x)' <=> pass = "ledger" \/ e < i + 1 \/ (e = i + 1 /\ q < 0)
      BY <1>1, <1>2, <2>1, <2>5, ReachedPart DEF Passes
    <3> QED
      BY <1>3, <2>5, <3>1, <3>2
  <2>6. ASSUME NEW e, NEW q, IsBody(e, q), IsLedgerItem(x, e, q)
        PROVE  Reached(x)' <=> Reached(x)
    <3>1. Reached(x) <=> pass = "ledger" /\ (e < i \/ (e = i /\ q < b))
      BY <1>1, <1>2, <2>2, <2>6, ReachedLedger DEF Passes
    <3>2. Reached(x)' <=> pass = "ledger" /\ (e < i + 1 \/ (e = i + 1 /\ q < 0))
      BY <1>1, <1>2, <2>1, <2>6, ReachedLedger DEF Passes
    <3> QED
      BY <1>3, <2>6, <3>1, <3>2
  <2> QED
    BY <2>3, <2>4, <2>5, <2>6, EveryItem DEF IsEventItem
<1>5. Position'
  <2>1. i' \in Nat /\ Len(block.events) \in Nat
        /\ (i' < Len(block.events) => Len(block.events[i' + 1].bodies) \in Nat)
    BY <1>1, <1>2, Bounds
  <2> QED
    BY <1>1, <1>2, <2>1 DEF Position
<1> QED
  BY <1>1, <1>2, <1>4, <1>5, SkipStep DEF Passes

LEMMA EndEventsStep == ASSUME IInv, EndEvents PROVE IInv'
<1> DEFINE next == IF pass = "events" THEN "ledger" ELSE "blocks"
<1>1. /\ pass \in {"events", "ledger"} /\ i = Len(block.events) /\ Skip
      /\ i' = 0 /\ pass' = next /\ b' = b /\ d' = d /\ block' = block
  BY DEF EndEvents, StartPass, Skip
<1>2. block \in Blocks /\ i \in Nat /\ b = 0 /\ d = 0
  BY <1>1, Bounds DEF IInv, Position, AtBody
<1>3. ASSUME NEW e, NEW q, IsBody(e, q) PROVE e \in Nat /\ q \in Nat /\ e < i
  BY <1>1, <1>2, <1>3, BlockShape DEF IsBody
<1>4. ASSUME NEW x \in Items(block) PROVE Reached(x)' <=> Reached(x)
  <2>1. Reached(x)' <=> ReachedAt(x, next, 0, 0, 0)
    BY <1>1, <1>2 DEF Reached, ReachedAt, Rank
  <2>2. Reached(x) <=> ReachedAt(x, pass, i, 0, 0)
    BY <1>2, ReachedNow
  <2>3. CASE IsFillItem(x)
    BY <1>1, <1>2, <2>1, <2>2, <2>3, OtherPasses DEF Passes
  <2>4. ASSUME NEW e, NEW q, IsBody(e, q),
               IsBodyItem(x, e, q) \/ \E p \in Nat : IsPartItem(x, e, q, p)
        PROVE  Reached(x)' <=> Reached(x)
    <3>1. Reached(x)
      BY <1>1, <1>2, <1>3, <2>2, <2>4, ReachedBody, ReachedPart DEF Passes
    <3>2. next \in {"ledger", "blocks"}
      OBVIOUS
    <3> HIDE DEF next
    <3>3. Reached(x)'
      BY <1>2, <2>1, <2>4, <3>2, OtherPasses DEF Passes
    <3> QED
      BY <3>1, <3>3
  <2>5. ASSUME NEW e, NEW q, IsBody(e, q), IsLedgerItem(x, e, q)
        PROVE  Reached(x)' <=> Reached(x)
    <3>1. Reached(x) <=> pass = "ledger"
      BY <1>1, <1>2, <1>3, <2>2, <2>5, ReachedLedger DEF Passes
    <3>2. CASE pass = "events"
      <4>1. ~ReachedAt(x, "ledger", 0, 0, 0)
        BY <1>2, <1>3, <2>5, ReachedLedger DEF Passes
      <4> QED
        BY <2>1, <3>1, <3>2, <4>1
    <3>3. CASE pass = "ledger"
      <4>1. ReachedAt(x, "blocks", 0, 0, 0)
        BY <1>2, <2>5, ReachedLedger DEF Passes
      <4> QED
        BY <2>1, <3>1, <3>3, <4>1
    <3> QED
      BY <1>1, <3>2, <3>3
  <2> QED
    BY <2>3, <2>4, <2>5, EveryItem DEF IsEventItem
<1>5. Position'
  <2>1. Len(block.events) \in Nat
        /\ (0 < Len(block.events) => Len(block.events[0 + 1].bodies) \in Nat)
    BY Bounds
  <2> QED
    BY <1>1, <1>2, <2>1 DEF Position
<1> QED
  BY <1>1, <1>2, <1>4, <1>5, SkipStep DEF Passes

LEMMA ReturnStep == ASSUME IInv, Return PROVE IInv'
<1>1. /\ pass = "blocks" /\ pass' = "done"
      /\ block_row' = (tables.order # <<>>) /\ changes' = {Changes(tables)}
      /\ block' = block /\ i' = i /\ b' = b /\ d' = d /\ tables' = tables /\ trace' = trace
  BY DEF Return
<1>2. TypeOK'
  BY <1>1 DEF IInv, TypeOK
<1>3. EachItemOnce'
  <2>1. \A x : Reached(x)' <=> Reached(x)
    BY <1>1 DEF Reached
  <2> QED
    BY <1>1, <2>1 DEF IInv, EachItemOnce
<1>4. Position'
  BY <1>1 DEF IInv, Position, AtBody
<1>5. Kept'
  BY <1>1 DEF IInv, Kept, IsFillItem
<1>6. Output'
  BY <1>1 DEF IInv, Kept, Output
<1> QED
  BY <1>2, <1>3, <1>4, <1>5, <1>6 DEF IInv

LEMMA InitIInv == Init => IInv
<1> SUFFICES ASSUME Init PROVE IInv
  OBVIOUS
<1>1. block \in Blocks /\ pass = "fills" /\ i = 0 /\ b = 0 /\ d = 0 /\ changes = {}
  BY DEF Init
<1>2. tables.order = <<>> /\ DOMAIN tables.origin = {} /\ trace = <<>> /\ block_row = FALSE
  BY DEF Init, NoRows
<1>3. TypeOK
  <2>1. tables.order \in Seq(Keys) /\ trace \in Seq(Items(block))
    BY <1>2
  <2>2. Len(tables.order) = 0 /\ 1 .. 0 = {}
    BY <1>2
  <2>3. DOMAIN tables.origin = {tables.order[n] : n \in 1 .. Len(tables.order)}
    BY <1>2, <2>2
  <2> QED
    BY <1>1, <1>2, <2>1, <2>3 DEF TypeOK
<1>4. EachItemOnce
  <2>1. ASSUME NEW x \in Items(block) PROVE ~Reached(x)
    <3>1. Reached(x) <=> ReachedAt(x, "fills", 0, 0, 0)
      BY <1>1, ReachedNow
    <3>2. CASE IsFillItem(x)
      <4>1. PICK k \in 0 .. Len(block.fills) - 1 :
                x = Item(TableOf(block.fills[k + 1]), <<k>>, block.fills[k + 1].hash)
        BY <3>2 DEF IsFillItem
      <4> QED
        BY <1>1, <3>1, <4>1, ReachedFill, BlockShape DEF Passes
    <3>3. CASE ~IsFillItem(x)
      <4>1. PICK e, q : IsBody(e, q) /\ IsEventItem(x, e, q)
        BY <3>3, EveryItem
      <4> QED
        BY <1>1, <3>1, <4>1, ReachedBody, ReachedPart, ReachedLedger DEF Passes, IsEventItem
    <3> QED
      BY <3>2, <3>3
  <2> QED
    BY <1>2, <2>1 DEF EachItemOnce
<1>5. Position
  BY <1>1, BlockShape DEF Position
<1>6. Kept
  <2>1. Len(tables.order) = Len(trace) /\ 1 .. Len(trace) = {}
    BY <1>2
  <2> QED
    BY <1>2, <2>1 DEF Kept
<1>7. Output
  BY <1>1 DEF Output
<1> QED
  BY <1>3, <1>4, <1>5, <1>6, <1>7 DEF IInv

LEMMA IInvStep == IInv /\ [Next]_vars => IInv'
<1> SUFFICES ASSUME IInv, [Next]_vars PROVE IInv'
  OBVIOUS
<1>1. CASE UNCHANGED vars
  <2>1. /\ block' = block /\ pass' = pass /\ i' = i /\ b' = b /\ d' = d
        /\ tables' = tables /\ block_row' = block_row /\ changes' = changes /\ trace' = trace
    BY <1>1 DEF vars
  <2>2. \A x : Reached(x)' <=> Reached(x)
    BY <2>1 DEF Reached
  <2>3. TypeOK'
    BY <2>1 DEF IInv, TypeOK
  <2>4. EachItemOnce'
    BY <2>1, <2>2 DEF IInv, EachItemOnce
  <2> QED
    BY <2>1, <2>3, <2>4 DEF IInv, Position, AtBody, theBody, Kept, IsFillItem, Output
<1>2. CASE Next
  BY <1>2, FormatFillStep, EndFillsStep, FormatBodyStep, FormatPartStep, EndPartsStep,
     SkipBodyStep, FormatLedgerStep, SkipLedgerBodyStep, EndEventStep, EndEventsStep,
     ReturnStep DEF Next
<1> QED
  BY <1>1, <1>2

LEMMA AlwaysIInv == Spec => []IInv
  BY InitIInv, IInvStep, PTL DEF Spec

-------------------------------------------------------------------------------
(* The theorems.                                                                *)

(* The state of database_changes is well typed: every key is made of a table    *)
(* and a hash of the schema and the order lists the keys of the rows.           *)
THEOREM TypeCorrect == Spec => []TypeOK
  BY AlwaysIInv, PTL DEF IInv

(* Whatever the block, the three passes of legacy.rs format each of its items   *)
(* once, and in the order of the source.                                        *)
THEOREM PassesFormatEachItemOnce == Spec => []EachItemOnce
  BY AlwaysIInv, PTL DEF IInv

(* As long as the stride of event_index keeps indexes apart (rows.rs), no row   *)
(* of the output is another item's or holds another item's values.              *)
THEOREM AddressableRowsApart == Spec => []NothingMerged
<1>1. ASSUME IInv PROVE NothingMerged
  <2> SUFFICES ASSUME Addressable(block), NEW c \in changes
               PROVE  /\ Len(c) = Len(trace)
                      /\ \A n \in 1 .. Len(c) :
                            c[n] = [key |-> EventKey(trace[n]), origin |-> trace[n]]
    BY DEF NothingMerged
  <2>1. /\ Len(tables.order) = Len(trace) /\ Len(trace) \in Nat
        /\ \A n \in 1 .. Len(trace) :
              tables.order[n] = EventKey(trace[n]) /\ tables.origin[tables.order[n]] = trace[n]
    BY <1>1, TraceType DEF IInv, Kept
  <2>2. c = Changes(tables)
    BY <1>1 DEF IInv, Output
  <2>3. c = [n \in 1 .. Len(trace) |->
                [key |-> tables.order[n], origin |-> tables.origin[tables.order[n]]]]
    BY <2>1, <2>2 DEF Changes
  <2>4. Len(c) = Len(trace)
    BY <2>1, <2>3
  <2> QED
    BY <2>1, <2>3, <2>4
<1> QED
  BY <1>1, AlwaysIInv, PTL

(* No event body takes over the row of a fill (fills.rs).                       *)
THEOREM FillRowsKept == Spec => []FillRowsSurvive
<1>1. ASSUME IInv PROVE FillRowsSurvive
  <2> SUFFICES ASSUME NEW n \in 1 .. Len(trace), trace[n].table \in FillTables
               PROVE  tables.origin[EventKey(trace[n])] = trace[n]
    BY DEF FillRowsSurvive
  <2>1. trace[n] \in Items(block) /\ block \in Blocks
    BY <1>1, TraceType DEF IInv, TypeOK
  <2>3. ASSUME NEW e, NEW q, IsBody(e, q), IsEventItem(trace[n], e, q) PROVE FALSE
    BY <2>1, <2>3, PassOfItem, TablesApart DEF IsEventItem
  <2>4. IsFillItem(trace[n])
    BY <2>1, <2>3, EveryItem
  <2> QED
    BY <1>1, <2>4 DEF IInv, Kept
<1> QED
  BY <1>1, AlwaysIInv, PTL

(* The blocks row stands beside other rows and for every block that owes one.   *)
THEOREM BlockRowOnlyWithOthers == Spec => []BlockRowWithOthers
<1>1. ASSUME IInv PROVE BlockRowWithOthers
  <2> SUFFICES ASSUME pass = "done" PROVE block_row <=> Items(block) # {}
    BY DEF BlockRowWithOthers
  <2>1. \A x : Reached(x)
    <3>1. \A x : PassOf(x) < 4
      BY DEF PassOf
    <3> QED
      BY <3>1, ReachedNow, Ranks DEF ReachedAt
  <2>2. {trace[n] : n \in 1 .. Len(trace)} = Items(block)
    BY <1>1, <2>1 DEF IInv, EachItemOnce
  <2>3. trace # <<>> <=> {trace[n] : n \in 1 .. Len(trace)} # {}
    <3>1. trace \in Seq(Items(block))
      BY <1>1 DEF IInv, TypeOK
    <3> QED
      BY <3>1
  <2> QED
    BY <1>1, <2>2, <2>3 DEF IInv, Output
<1> QED
  BY <1>1, AlwaysIInv, PTL
===============================================================================
