---------------------------- MODULE RegridProofs ----------------------------
(***************************************************************************)
(* Proofs about Regrid, for every configuration, place of the features and *)
(* choice of calls: every mesh that selection makes covers the domain once *)
(* with blocks of the configured levels and is balanced, the plans pair    *)
(* the cells that face each other on it from both sides, and the tracker's *)
(* budget holds from one regrid to the next unless a regrid has merged;    *)
(* within the budget what was flagged stays in finest blocks wherever it   *)
(* moves, and selection settles within its passes.                         *)
(***************************************************************************)
EXTENDS Regrid, NatLemmas

(* The blocks there can be, and the meshes that cover the domain.          *)
Locations(c) ==
  {b \in [level : 0 .. c.maxLevel, at : [Axes(c) -> Nat]] : \A d \in Axes(c) : b.at[d] < 2^b.level}
Finest(c) == {x \in Locations(c) : x.level = c.maxLevel}
Covering(c, blocks) ==
  /\ blocks \subseteq Locations(c)
  /\ \A x \in Finest(c) : \E b \in blocks : Ancestor(x, b.level) = b

(* No block of a mesh lies under another, and a mesh that refines another    *)
(* has its blocks under those of the other.                                *)
Under(x, blocks) == \E b \in blocks : b.level <= x.level /\ Ancestor(x, b.level) = b
Disjoint(blocks) ==
  \A a, b \in blocks : a.level <= b.level /\ Ancestor(b, a.level) = a => a = b
Refines(new, old) == \A b \in new : Under(b, old)
Tiling(c, blocks) == Covering(c, blocks) /\ Disjoint(blocks)
-----------------------------------------------------------------------------
(***************************************************************************)
(* Blocks of the tree.                                                     *)
(***************************************************************************)
(* The options a mesh depends on. *)
LEMMA Levels ==
  ASSUME NEW c \in Configs
  PROVE  /\ {c.minimum, c.base, c.maxLevel, c.cells, c.signalBuffer, c.regridEvery} \subseteq Nat
         /\ c.minimum <= c.base /\ c.base <= c.maxLevel /\ c.signalBuffer >= 1 /\ c.regridEvery >= 1
         /\ c.limits \subseteq Nat \ {0} /\ c.limits # {} /\ IsFiniteSet(c.limits)
  BY RegridAssumption DEF IsConfig

(* What is known of a location. *)
LEMMA Location ==
  ASSUME NEW c, NEW b \in Locations(c)
  PROVE  /\ b.level \in 0 .. c.maxLevel /\ b.at \in [Axes(c) -> Nat] /\ DOMAIN b.at = Axes(c)
         /\ b = [level |-> b.level, at |-> b.at]
         /\ \A d \in Axes(c) : b.at[d] \in Nat /\ b.at[d] < 2^b.level
  BY DEF Locations

(* An ancestor is a location, and its coordinates are those of the block   *)
(* divided by its size.                                                    *)
LEMMA AncestorIs ==
  ASSUME NEW c \in Configs, NEW b \in Locations(c), NEW k \in 0 .. b.level
  PROVE  /\ Ancestor(b, k) \in Locations(c) /\ Ancestor(b, k).level = k
         /\ \A d \in Axes(c) : Ancestor(b, k).at[d] = b.at[d] \div 2^(b.level - k)
<1> DEFINE a == Ancestor(b, k)
           P == 2^(b.level - k)
<1>1. /\ b.level \in Nat /\ k \in Nat /\ b.level - k \in Nat /\ k \in 0 .. c.maxLevel
      /\ b.level = k + (b.level - k)
  BY Location, Levels
<1>2. /\ P \in Nat \ {0} /\ 2^k \in Nat \ {0} /\ 2^b.level = 2^k * P
  BY <1>1, Power, PowerSum
<1>3. a = [level |-> k, at |-> [d \in Axes(c) |-> b.at[d] \div P]]
  BY Location DEF Ancestor
<1> HIDE DEF P
<1>4. ASSUME NEW d \in Axes(c) PROVE b.at[d] \div P \in Nat /\ b.at[d] \div P < 2^k
  <2> DEFINE q == b.at[d] \div P
             K == 2^k
  <2>1. b.at[d] \in Nat /\ b.at[d] < K * P
    BY <1>2, Location
  <2>2. q \in Nat /\ P * q <= b.at[d] /\ K \in Nat
    BY <1>2, <2>1, Quotient
  <2> HIDE DEF q, K
  <2>3. ~(K <= q)
    <3> SUFFICES ASSUME K <= q PROVE FALSE
      OBVIOUS
    <3>1. P * K <= P * q /\ P * K = K * P
      BY <1>2, <2>2
    <3>2. P * K \in Nat /\ P * q \in Nat
      BY <1>2, <2>2
    <3> QED
      BY <2>1, <2>2, <3>1, <3>2
  <2>4. q < K
    BY <2>2, <2>3
  <2> QED
    BY <2>2, <2>4 DEF q, K
<1>5. a \in Locations(c)
  <2>1. a.at \in [Axes(c) -> Nat] /\ a.level = k
    BY <1>3, <1>4
  <2> QED
    BY <1>1, <1>3, <1>4, <2>1 DEF Locations
<1> QED
  BY <1>3, <1>5 DEF P

(* Two locations are equal when their levels and coordinates are. *)
LEMMA SameLocation ==
  ASSUME NEW c, NEW a \in Locations(c), NEW b \in Locations(c), a.level = b.level,
         \A d \in Axes(c) : a.at[d] = b.at[d]
  PROVE  a = b
<1>1. a.at = b.at
  BY Location
<1> QED
  BY <1>1, Location

(* An ancestor's ancestors are those of the block. *)
LEMMA AncestorOfAncestor ==
  ASSUME NEW c \in Configs, NEW x \in Locations(c), NEW i \in 0 .. x.level, NEW j \in 0 .. i
  PROVE  Ancestor(Ancestor(x, i), j) = Ancestor(x, j)
<1> DEFINE a == Ancestor(x, i)
<1>1. /\ x.level \in Nat /\ i \in Nat /\ j \in Nat /\ j \in 0 .. x.level
      /\ x.level - i \in Nat /\ i - j \in Nat /\ (x.level - i) + (i - j) = x.level - j
  BY Location, Levels
<1>2. a \in Locations(c) /\ a.level = i /\ \A d \in Axes(c) : a.at[d] = x.at[d] \div 2^(x.level - i)
  BY AncestorIs
<1> HIDE DEF a
<1>3. /\ Ancestor(a, j) \in Locations(c) /\ Ancestor(a, j).level = j
      /\ \A d \in Axes(c) : Ancestor(a, j).at[d] = a.at[d] \div 2^(i - j)
  BY <1>2, AncestorIs
<1>4. /\ Ancestor(x, j) \in Locations(c) /\ Ancestor(x, j).level = j
      /\ \A d \in Axes(c) : Ancestor(x, j).at[d] = x.at[d] \div 2^(x.level - j)
  BY <1>1, AncestorIs
<1>5. /\ 2^(x.level - i) \in Nat \ {0} /\ 2^(i - j) \in Nat \ {0}
      /\ 2^(x.level - j) = 2^(x.level - i) * 2^(i - j)
  BY <1>1, Power, PowerSum
<1>6. ASSUME NEW d \in Axes(c) PROVE Ancestor(a, j).at[d] = Ancestor(x, j).at[d]
  <2>1. x.at[d] \in Nat
    BY Location
  <2>2. (x.at[d] \div 2^(x.level - i)) \div 2^(i - j) = x.at[d] \div (2^(x.level - i) * 2^(i - j))
    BY <1>5, <2>1, QuotientTwice
  <2> QED
    BY <1>2, <1>3, <1>4, <1>5, <2>2
<1>7. Ancestor(a, j) = Ancestor(x, j)
  BY <1>3, <1>4, <1>6, SameLocation
<1> QED
  BY <1>7 DEF a

(* The children of a block are the locations whose parent it is. *)
LEMMA ChildrenAre ==
  ASSUME NEW c \in Configs, NEW p \in Locations(c), p.level < c.maxLevel, NEW b \in Children(p)
  PROVE  /\ b \in Locations(c) /\ b.level = p.level + 1
         /\ \A d \in Axes(c) : b.at[d] \div 2 = p.at[d]
<1>1. PICK slot \in [Axes(c) -> {0, 1}] :
        b = [level |-> p.level + 1, at |-> [d \in Axes(c) |-> 2 * p.at[d] + slot[d]]]
  BY Location DEF Children
<1>2. p.level \in Nat /\ c.maxLevel \in Nat /\ p.level + 1 \in 0 .. c.maxLevel
  BY Location, Levels
<1>3. 2^p.level \in Nat /\ 2^(p.level + 1) = 2^p.level * 2
  <2>1. 2^p.level \in Nat
    BY <1>2, Power
  <2>2. 2^(p.level + 1) = 2^p.level * 2^1
    BY <1>2, PowerSum
  <2> QED
    BY <2>1, <2>2, PowerOne
<1>4. ASSUME NEW d \in Axes(c)
      PROVE  b.at[d] \in Nat /\ b.at[d] < 2^(p.level + 1) /\ b.at[d] \div 2 = p.at[d]
  <2>1. p.at[d] \in Nat /\ p.at[d] < 2^p.level /\ slot[d] \in {0, 1} /\ b.at[d] = 2 * p.at[d] + slot[d]
    BY <1>1, Location
  <2> QED
    BY <1>3, <2>1
<1>5. b.at \in [Axes(c) -> Nat] /\ b.level = p.level + 1
  BY <1>1, <1>4
<1>6. b \in Locations(c)
  BY <1>1, <1>2, <1>4, <1>5 DEF Locations
<1> QED
  BY <1>4, <1>5, <1>6

(* A location one level down whose coordinates halve to the block's is its child. *)
LEMMA ChildOfParent ==
  ASSUME NEW c \in Configs, NEW p \in Locations(c), NEW b \in Locations(c), b.level = p.level + 1,
         \A d \in Axes(c) : b.at[d] \div 2 = p.at[d]
  PROVE  b \in Children(p)
<1> DEFINE slot == [d \in Axes(c) |-> b.at[d] % 2]
<1>1. \A d \in Axes(c) : slot[d] \in {0, 1} /\ 2 * p.at[d] + slot[d] = b.at[d]
  BY Location
<1>2. slot \in [Axes(c) -> {0, 1}]
  BY <1>1
<1> HIDE DEF slot
<1>3. b = [level |-> p.level + 1, at |-> [d \in Axes(c) |-> 2 * p.at[d] + slot[d]]]
  <2>1. b.at = [d \in Axes(c) |-> 2 * p.at[d] + slot[d]]
    BY <1>1, Location
  <2> QED
    BY <2>1, Location
<1> QED
  BY <1>2, <1>3, Location DEF Children

(* A parent's coordinates are half the block's. *)
LEMMA ParentIs ==
  ASSUME NEW c \in Configs, NEW b \in Locations(c), b.level > 0
  PROVE  /\ Parent(b) \in Locations(c) /\ Parent(b).level = b.level - 1
         /\ \A d \in Axes(c) : Parent(b).at[d] = b.at[d] \div 2
<1> DEFINE k == b.level - 1
<1>1. k \in 0 .. b.level /\ b.level - k = 1 /\ Parent(b) = Ancestor(b, k)
  BY Location, Levels DEF Parent
<1> HIDE DEF k
<1>2. /\ Ancestor(b, k) \in Locations(c) /\ Ancestor(b, k).level = k
      /\ \A d \in Axes(c) : Ancestor(b, k).at[d] = b.at[d] \div 2^(b.level - k)
  BY <1>1, AncestorIs
<1> QED
  BY <1>1, <1>2, PowerOne DEF k

(* The chain of ancestors goes from child to parent. *)
LEMMA AncestorParent ==
  ASSUME NEW c \in Configs, NEW x \in Locations(c), NEW k \in 0 .. x.level, k > 0
  PROVE  /\ Ancestor(x, k) \in Children(Ancestor(x, k - 1))
         /\ \A p \in Locations(c) : p.level < c.maxLevel /\ Ancestor(x, k) \in Children(p) => p = Ancestor(x, k - 1)
<1> DEFINE a == Ancestor(x, k)
<1>1. /\ x.level \in Nat /\ k \in Nat /\ k - 1 \in 0 .. k /\ k - 1 \in 0 .. x.level
  BY Location, Levels
<1>2. a \in Locations(c) /\ a.level = k
  BY AncestorIs
<1>3. Parent(a) = Ancestor(x, k - 1)
  BY <1>1, <1>2, AncestorOfAncestor DEF Parent
<1> HIDE DEF a
<1>4. /\ Parent(a) \in Locations(c) /\ Parent(a).level = k - 1
      /\ \A d \in Axes(c) : Parent(a).at[d] = a.at[d] \div 2
  BY <1>2, ParentIs
<1>5. a \in Children(Parent(a))
  BY <1>1, <1>2, <1>4, ChildOfParent
<1>6. ASSUME NEW p \in Locations(c), p.level < c.maxLevel, a \in Children(p) PROVE p = Parent(a)
  <2>1. p.level \in Nat /\ a.level = p.level + 1 /\ \A d \in Axes(c) : a.at[d] \div 2 = p.at[d]
    BY <1>6, ChildrenAre, Location, Levels
  <2>2. p.level = Parent(a).level /\ \A d \in Axes(c) : p.at[d] = Parent(a).at[d]
    BY <1>1, <1>2, <1>4, <2>1
  <2> QED
    BY <1>4, <2>2, SameLocation
<1> QED
  BY <1>3, <1>5, <1>6 DEF a

(* Under every block there is a cell of the finest level. *)
LEMMA BlockOverFinest ==
  ASSUME NEW c \in Configs, NEW b \in Locations(c)
  PROVE  \E x \in Finest(c) : Ancestor(x, b.level) = b
<1> DEFINE P == 2^(c.maxLevel - b.level)
           x == [level |-> c.maxLevel, at |-> [d \in Axes(c) |-> b.at[d] * P]]
<1>1. /\ b.level \in Nat /\ c.maxLevel \in Nat /\ c.maxLevel - b.level \in Nat
      /\ b.level \in 0 .. c.maxLevel /\ c.maxLevel = b.level + (c.maxLevel - b.level)
  BY Location, Levels
<1>2. P \in Nat \ {0} /\ 2^b.level \in Nat /\ 2^c.maxLevel = 2^b.level * P
  BY <1>1, Power, PowerSum
<1> HIDE DEF P
<1>3. ASSUME NEW d \in Axes(c)
      PROVE  x.at[d] = b.at[d] * P /\ x.at[d] \in Nat /\ x.at[d] < 2^c.maxLevel /\ x.at[d] \div P = b.at[d]
  <2> DEFINE q == b.at[d]
             K == 2^b.level
  <2>1. q \in Nat /\ K \in Nat /\ q < K
    BY <1>2, Location
  <2>2. x.at[d] = q * P
    OBVIOUS
  <2> HIDE DEF q, K, x
  <2>3. q * P \in Nat /\ q * P < K * P
    <3>1. (q + 1) * P <= K * P /\ (q + 1) * P = q * P + P
      BY <1>2, <2>1
    <3>2. q * P \in Nat /\ K * P \in Nat
      BY <1>2, <2>1
    <3> QED
      BY <1>2, <3>1, <3>2
  <2>4. P * q = q * P /\ P * q + P \in Nat /\ P * q < P * q + P
    BY <1>2, <2>1, <2>3
  <2>5. (q * P) \div P = q
    BY <1>2, <2>1, <2>3, <2>4, QuotientIs
  <2> QED
    BY <1>2, <2>2, <2>3, <2>5 DEF q, K
<1>4. x.at \in [Axes(c) -> Nat] /\ x.level = c.maxLevel
  BY <1>3
<1>5. x \in Locations(c)
  BY <1>1, <1>3, <1>4 DEF Locations
<1>6. x \in Finest(c)
  BY <1>4, <1>5 DEF Finest
<1> HIDE DEF x
<1>7. /\ Ancestor(x, b.level) \in Locations(c) /\ Ancestor(x, b.level).level = b.level
      /\ \A d \in Axes(c) : Ancestor(x, b.level).at[d] = x.at[d] \div 2^(c.maxLevel - b.level)
  BY <1>1, <1>4, <1>5, AncestorIs
<1>8. \A d \in Axes(c) : Ancestor(x, b.level).at[d] = b.at[d]
  BY <1>3, <1>7 DEF P
<1>9. Ancestor(x, b.level) = b
  BY <1>7, <1>8, SameLocation
<1> QED
  BY <1>6, <1>9
-----------------------------------------------------------------------------
(***************************************************************************)
(* Selection keeps a covering: it replaces blocks by all their children,   *)
(* or all the children of a block by the block.                            *)
(***************************************************************************)
(* Splitting: the children of a block cover what it covered. *)
LEMMA SplitCovers ==
  ASSUME NEW c \in Configs, NEW blocks, Covering(c, blocks), NEW chosen \in SUBSET blocks,
         \A b \in chosen : b.level < c.maxLevel
  PROVE  Covering(c, Split(blocks, chosen))
<1>1. Split(blocks, chosen) \subseteq Locations(c)
  BY ChildrenAre DEF Covering, Split
<1>2. ASSUME NEW x \in Finest(c) PROVE \E b \in Split(blocks, chosen) : Ancestor(x, b.level) = b
  <2>1. PICK b \in blocks : Ancestor(x, b.level) = b
    BY DEF Covering
  <2>2. /\ x \in Locations(c) /\ x.level = c.maxLevel /\ b \in Locations(c) /\ b.level \in Nat
        /\ c.maxLevel \in Nat /\ b.level \in 0 .. c.maxLevel
    BY Location, Levels DEF Finest, Covering
  <2>3. CASE b \notin chosen
    BY <2>1, <2>3 DEF Split
  <2>4. CASE b \in chosen
    <3> DEFINE k == b.level + 1
               a == Ancestor(x, k)
    <3>1. k \in 0 .. x.level /\ k > 0 /\ k - 1 = b.level
      BY <2>2, <2>4
    <3> HIDE DEF k
    <3>2. a \in Children(Ancestor(x, k - 1)) /\ a.level = k
      BY <2>2, <3>1, AncestorParent, AncestorIs
    <3>3. a \in Children(b)
      BY <2>1, <3>1, <3>2
    <3>4. a \in Split(blocks, chosen)
      BY <2>4, <3>3 DEF Split
    <3> QED
      BY <3>2, <3>4
  <2> QED
    BY <2>3, <2>4
<1> QED
  BY <1>1, <1>2 DEF Covering

(* Merging: a parent covers what its children covered. *)
LEMMA MergedCovers ==
  ASSUME NEW c \in Configs, NEW blocks, Covering(c, blocks), NEW parents \in SUBSET Locations(c),
         \A p \in parents : p.level < c.maxLevel
  PROVE  Covering(c, Merged(blocks, parents))
<1>1. Merged(blocks, parents) \subseteq Locations(c)
  BY DEF Covering, Merged
<1>2. ASSUME NEW x \in Finest(c) PROVE \E b \in Merged(blocks, parents) : Ancestor(x, b.level) = b
  <2>1. PICK b \in blocks : Ancestor(x, b.level) = b
    BY DEF Covering
  <2>2. /\ x \in Locations(c) /\ x.level = c.maxLevel /\ b \in Locations(c) /\ b.level \in Nat
        /\ c.maxLevel \in Nat /\ b.level \in 0 .. x.level
    BY Location, Levels DEF Finest, Covering
  <2>3. CASE \A p \in parents : b \notin Children(p)
    BY <2>1, <2>3 DEF Merged
  <2>4. CASE \E p \in parents : b \in Children(p)
    <3>1. PICK p \in parents : b \in Children(p)
      BY <2>4
    <3>2. b.level = p.level + 1 /\ p.level \in Nat /\ p \in Locations(c)
      BY <3>1, ChildrenAre, Location, Levels
    <3>3. p = Ancestor(x, b.level - 1)
      BY <2>1, <2>2, <3>1, <3>2, AncestorParent
    <3>4. p \in Merged(blocks, parents) /\ b.level - 1 = p.level
      BY <3>1, <3>2 DEF Merged
    <3> QED
      BY <3>3, <3>4
  <2> QED
    BY <2>3, <2>4
<1> QED
  BY <1>1, <1>2 DEF Covering

(***************************************************************************)
(* Splitting and merging keep a mesh disjoint, and splitting refines it.   *)
(***************************************************************************)
(* A block is its own ancestor. *)
LEMMA SelfAncestor ==
  ASSUME NEW c \in Configs, NEW b \in Locations(c)
  PROVE  Ancestor(b, b.level) = b
<1>1. b.level \in Nat /\ b.level \in 0 .. b.level /\ b.level - b.level = 0
  BY Location, Levels
<1>2. /\ Ancestor(b, b.level) \in Locations(c) /\ Ancestor(b, b.level).level = b.level
      /\ \A d \in Axes(c) : Ancestor(b, b.level).at[d] = b.at[d] \div 2^(b.level - b.level)
  BY <1>1, AncestorIs
<1>3. \A d \in Axes(c) : b.at[d] \in Nat /\ b.at[d] \div 2^(b.level - b.level) = b.at[d]
  <2>1. 2^(b.level - b.level) = 1
    BY <1>1, PowerZero
  <2>2. \A n \in Nat : n \div 1 = n
    OBVIOUS
  <2> QED
    BY <2>1, <2>2, Location
<1> QED
  BY <1>2, <1>3, SameLocation

(* What lies under a block lies under its ancestors. *)
LEMMA UnderAncestor ==
  ASSUME NEW c \in Configs, NEW x \in Locations(c), NEW b \in Locations(c), NEW a,
         b.level <= x.level, Ancestor(x, b.level) = b, a.level \in Nat, a.level <= b.level
  PROVE  Ancestor(b, a.level) = a <=> Ancestor(x, a.level) = a
<1>1. x.level \in Nat /\ b.level \in 0 .. x.level /\ a.level \in 0 .. b.level
  BY Location, Levels
<1>2. Ancestor(Ancestor(x, b.level), a.level) = Ancestor(x, a.level)
  BY <1>1, AncestorOfAncestor
<1> QED
  BY <1>2

(* Refining a refinement refines. *)
LEMMA RefinesTwice ==
  ASSUME NEW c \in Configs, NEW fine \in SUBSET Locations(c), NEW middle \in SUBSET Locations(c),
         NEW coarse \in SUBSET Locations(c), Refines(fine, middle), Refines(middle, coarse)
  PROVE  Refines(fine, coarse)
<1> SUFFICES ASSUME NEW x \in fine PROVE Under(x, coarse)
  BY DEF Refines
<1>1. PICK b \in middle : b.level <= x.level /\ Ancestor(x, b.level) = b
  BY DEF Refines, Under
<1>2. PICK a \in coarse : a.level <= b.level /\ Ancestor(b, a.level) = a
  BY DEF Refines, Under
<1>3. x.level \in Nat /\ b.level \in Nat /\ a.level \in Nat
  BY Location, Levels
<1>4. Ancestor(x, a.level) = a
  BY <1>1, <1>2, <1>3, UnderAncestor
<1> QED
  BY <1>1, <1>2, <1>3, <1>4 DEF Under

(* A block of a split mesh is an old one that stays or a child of one that *)
(* goes.                                                                   *)
LEMMA SplitFrom ==
  ASSUME NEW c \in Configs, NEW blocks \in SUBSET Locations(c), NEW chosen \in SUBSET blocks,
         \A b \in chosen : b.level < c.maxLevel, NEW a \in Split(blocks, chosen)
  PROVE  /\ a \in Locations(c)
         /\ \/ a \in blocks \ chosen
            \/ \E o \in chosen : a \in Children(o) /\ a.level = o.level + 1 /\ Ancestor(a, o.level) = o
<1>1. CASE a \in blocks \ chosen
  BY <1>1
<1>2. CASE \E o \in chosen : a \in Children(o)
  <2>1. PICK o \in chosen : a \in Children(o)
    BY <1>2
  <2>2. o \in Locations(c) /\ a \in Locations(c) /\ a.level = o.level + 1 /\ o.level < c.maxLevel /\ o.level \in Nat
    BY <2>1, ChildrenAre, Location, Levels
  <2>3. a.level \in 0 .. a.level /\ a.level > 0 /\ a.level - 1 = o.level /\ Ancestor(a, a.level) = a
    BY <2>2, SelfAncestor
  <2>4. Ancestor(a, o.level) = o
    BY <2>1, <2>2, <2>3, AncestorParent
  <2> QED
    BY <2>1, <2>2, <2>4
<1>3. a \in blocks \ chosen \/ \E o \in chosen : a \in Children(o)
  BY DEF Split
<1> QED
  BY <1>1, <1>2, <1>3

LEMMA SplitRefines ==
  ASSUME NEW c \in Configs, NEW blocks \in SUBSET Locations(c), NEW chosen \in SUBSET blocks,
         \A b \in chosen : b.level < c.maxLevel
  PROVE  Split(blocks, chosen) \in SUBSET Locations(c) /\ Refines(Split(blocks, chosen), blocks)
<1> SUFFICES ASSUME NEW a \in Split(blocks, chosen) PROVE a \in Locations(c) /\ Under(a, blocks)
  BY DEF Refines
<1>1. CASE a \in blocks \ chosen
  BY <1>1, SelfAncestor, Location, Levels DEF Under
<1>2. CASE \E o \in chosen : a \in Children(o) /\ a.level = o.level + 1 /\ Ancestor(a, o.level) = o
  <2>1. PICK o \in chosen : a.level = o.level + 1 /\ Ancestor(a, o.level) = o
    BY <1>2
  <2>2. o \in blocks /\ o.level \in Nat /\ a \in Locations(c)
    BY SplitFrom, Location, Levels
  <2> QED
    BY <2>1, <2>2 DEF Under
<1> QED
  BY <1>1, <1>2, SplitFrom

(* A block that is split is gone, and nothing above it takes its place. *)
LEMMA ChosenGone ==
  ASSUME NEW c \in Configs, NEW blocks \in SUBSET Locations(c), Disjoint(blocks),
         NEW chosen \in SUBSET blocks, \A b \in chosen : b.level < c.maxLevel, NEW b \in chosen
  PROVE  ~Under(b, Split(blocks, chosen))
<1> SUFFICES ASSUME NEW a \in Split(blocks, chosen), a.level <= b.level, Ancestor(b, a.level) = a PROVE FALSE
  BY DEF Under
<1>0. b \in blocks /\ b \in Locations(c) /\ a \in Locations(c) /\ b.level \in Nat /\ a.level \in Nat
  BY SplitFrom, Location, Levels
<1>1. CASE a \in blocks \ chosen
  BY <1>0, <1>1 DEF Disjoint
<1>2. CASE \E o \in chosen : a \in Children(o) /\ a.level = o.level + 1 /\ Ancestor(a, o.level) = o
  <2>1. PICK o \in chosen : a.level = o.level + 1 /\ Ancestor(a, o.level) = o
    BY <1>2
  <2>2. o \in blocks /\ o.level \in Nat /\ o.level <= a.level /\ o.level <= b.level
    BY <1>0, <2>1, Location, Levels
  <2>3. Ancestor(b, o.level) = o
    BY <1>0, <2>1, <2>2, UnderAncestor
  <2>4. o = b
    BY <1>0, <2>2, <2>3 DEF Disjoint
  <2> QED
    BY <1>0, <2>1, <2>4
<1> QED
  BY <1>1, <1>2, SplitFrom

LEMMA SplitDisjoint ==
  ASSUME NEW c \in Configs, NEW blocks \in SUBSET Locations(c), Disjoint(blocks),
         NEW chosen \in SUBSET blocks, \A b \in chosen : b.level < c.maxLevel
  PROVE  Disjoint(Split(blocks, chosen))
<1> SUFFICES ASSUME NEW a \in Split(blocks, chosen), NEW b \in Split(blocks, chosen),
                    a.level <= b.level, Ancestor(b, a.level) = a
             PROVE  a = b
  BY DEF Disjoint
<1>0. b \in Locations(c) /\ a \in Locations(c) /\ b.level \in Nat /\ a.level \in Nat
  BY SplitFrom, Location, Levels
<1>1. CASE b \in blocks \ chosen
  <2>1. CASE a \in blocks \ chosen
    BY <1>1, <2>1 DEF Disjoint
  <2>2. CASE \E o \in chosen : a \in Children(o) /\ a.level = o.level + 1 /\ Ancestor(a, o.level) = o
    <3>1. PICK o \in chosen : a.level = o.level + 1 /\ Ancestor(a, o.level) = o
      BY <2>2
    <3>2. o \in blocks /\ o.level \in Nat /\ o.level <= a.level /\ o.level <= b.level
      BY <1>0, <3>1, Location, Levels
    <3>3. Ancestor(b, o.level) = o
      BY <1>0, <3>1, <3>2, UnderAncestor
    <3> QED
      BY <1>1, <3>2, <3>3 DEF Disjoint
  <2> QED
    BY <2>1, <2>2, SplitFrom
<1>2. CASE \E o \in chosen : b \in Children(o) /\ b.level = o.level + 1 /\ Ancestor(b, o.level) = o
  <2>1. PICK o \in chosen : b.level = o.level + 1 /\ Ancestor(b, o.level) = o
    BY <1>2
  <2>2. o \in blocks /\ o \in Locations(c) /\ o.level \in Nat /\ o.level <= b.level
    BY <1>0, <2>1, Location, Levels
  <2>3. CASE a.level = b.level
    BY <1>0, <2>3, SelfAncestor
  <2>4. CASE a.level # b.level
    <3>1. a.level <= o.level
      BY <1>0, <2>1, <2>2, <2>4
    <3>2. Ancestor(o, a.level) = a
      BY <1>0, <2>1, <2>2, <3>1, UnderAncestor
    <3>3. Under(o, Split(blocks, chosen))
      BY <3>1, <3>2 DEF Under
    <3> QED
      BY <3>3, ChosenGone
  <2> QED
    BY <2>3, <2>4
<1> QED
  BY <1>1, <1>2, SplitFrom

(* Merging: the children of a parent are blocks, and nothing else is under it. *)
LEMMA MergedDisjoint ==
  ASSUME NEW c \in Configs, NEW blocks \in SUBSET Locations(c), Disjoint(blocks),
         NEW parents \in SUBSET Locations(c),
         \A p \in parents : p.level < c.maxLevel /\ Children(p) \subseteq blocks
  PROVE  Disjoint(Merged(blocks, parents))
<1> SUFFICES ASSUME NEW a \in Merged(blocks, parents), NEW b \in Merged(blocks, parents),
                    a.level <= b.level, Ancestor(b, a.level) = a
             PROVE  a = b
  BY DEF Disjoint
<1>0. b \in Locations(c) /\ a \in Locations(c) /\ b.level \in Nat /\ a.level \in Nat
  BY Location, Levels DEF Merged
<1>1. ASSUME NEW p \in parents
      PROVE  /\ p.level \in Nat
             /\ \E k \in Children(p) : /\ k \in blocks /\ k \in Locations(c) /\ k.level = p.level + 1
                                       /\ Ancestor(k, p.level) = p
  <2>1. PICK k : k \in Children(p)
    <3> DEFINE zero == [d \in DOMAIN p.at |-> 0]
    <3>1. zero \in [DOMAIN p.at -> {0, 1}]
      OBVIOUS
    <3> HIDE DEF zero
    <3>2. [level |-> p.level + 1, at |-> [d \in DOMAIN p.at |-> 2 * p.at[d] + zero[d]]] \in Children(p)
      BY <3>1, Zenon DEF Children
    <3> QED
      BY <3>2
  <2>2. k \in Locations(c) /\ k.level = p.level + 1 /\ p.level \in Nat /\ p.level < c.maxLevel
    BY <2>1, ChildrenAre, Location, Levels
  <2>3. k.level \in 0 .. k.level /\ k.level > 0 /\ k.level - 1 = p.level /\ Ancestor(k, k.level) = k
    BY <2>2, SelfAncestor
  <2>4. Ancestor(k, p.level) = p
    BY <2>1, <2>2, <2>3, AncestorParent
  <2> QED
    BY <2>1, <2>2, <2>4
<1>2. ASSUME a \in parents, a.level # b.level
      PROVE  \E k \in Children(a) : k \in blocks /\ k.level = a.level + 1 /\ k.level <= b.level /\ Ancestor(b, k.level) = k
  <2> DEFINE i == a.level + 1
             k == Ancestor(b, i)
  <2>1. i \in 0 .. b.level /\ i > 0 /\ i - 1 = a.level /\ a.level < c.maxLevel
    BY <1>0, <1>2
  <2> HIDE DEF i
  <2>2. k \in Children(Ancestor(b, i - 1)) /\ k.level = i
    BY <1>0, <2>1, AncestorParent, AncestorIs
  <2>3. k \in Children(a)
    BY <2>1, <2>2
  <2>4. k \in blocks /\ k.level = a.level + 1 /\ k.level <= b.level /\ Ancestor(b, k.level) = k
    BY <1>2, <2>1, <2>2, <2>3 DEF i
  <2> QED
    BY <2>3, <2>4
<1>3. CASE a.level = b.level
  BY <1>0, <1>3, SelfAncestor
<1>4. CASE a.level # b.level /\ a \in parents /\ b \in parents
  <2>1. PICK k \in Children(a) : k \in blocks /\ k.level = a.level + 1 /\ k.level <= b.level /\ Ancestor(b, k.level) = k
    BY <1>2, <1>4
  <2>2. PICK m \in Children(b) : /\ m \in blocks /\ m \in Locations(c) /\ m.level = b.level + 1
                                 /\ Ancestor(m, b.level) = b
    BY <1>1, <1>4
  <2>3. k.level \in Nat /\ k.level <= m.level /\ Ancestor(m, k.level) = k
    BY <1>0, <2>1, <2>2, UnderAncestor
  <2>4. k = m
    BY <2>1, <2>2, <2>3 DEF Disjoint
  <2> QED
    BY <1>0, <1>4, <2>1, <2>2, <2>4
<1>5. CASE a.level # b.level /\ a \in parents /\ b \notin parents
  <2>1. PICK k \in Children(a) : k \in blocks /\ k.level = a.level + 1 /\ k.level <= b.level /\ Ancestor(b, k.level) = k
    BY <1>2, <1>5
  <2>2. b \in blocks /\ \A p \in parents : b \notin Children(p)
    BY <1>5 DEF Merged
  <2>3. k = b
    BY <2>1, <2>2 DEF Disjoint
  <2> QED
    BY <1>5, <2>2, <2>3
<1>6. CASE a.level # b.level /\ a \notin parents /\ b \in parents
  <2>1. PICK m \in Children(b) : /\ m \in blocks /\ m \in Locations(c) /\ m.level = b.level + 1
                                 /\ Ancestor(m, b.level) = b
    BY <1>1, <1>6
  <2>2. a \in blocks
    BY <1>6 DEF Merged
  <2>3. a.level <= m.level /\ Ancestor(m, a.level) = a
    BY <1>0, <2>1, UnderAncestor
  <2>4. a = m
    BY <2>1, <2>2, <2>3 DEF Disjoint
  <2> QED
    BY <1>0, <2>1, <2>4
<1>7. CASE a \notin parents /\ b \notin parents
  BY <1>7 DEF Merged, Disjoint
<1> QED
  BY <1>3, <1>4, <1>5, <1>6, <1>7

(* What a block asks for is between the coarsest level allowed and the     *)
(* finest one there is.                                                    *)
LEMMA DesiredLevel ==
  ASSUME NEW c \in Configs, NEW b, NEW minimum \in 0 .. c.maxLevel, NEW seeds,
         \A s \in seeds : s.level \in 0 .. c.maxLevel
  PROVE  Desired(b, seeds, minimum) \in 0 .. c.maxLevel /\ Desired(b, seeds, minimum) >= minimum
<1> DEFINE S == {minimum} \cup {s.level : s \in {s \in seeds : Overlaps(config, BlockBox(config, b), s)}}
<1>1. S \in SUBSET Nat /\ S # {} /\ c.maxLevel \in Nat /\ \A y \in S : y <= c.maxLevel
  BY Levels
<1>2. \E x \in S : \A y \in S : x >= y
  BY <1>1, Greatest
<1>3. Desired(b, seeds, minimum) = Max(S)
  BY DEF Desired
<1>4. Max(S) \in S /\ \A y \in S : Max(S) >= y
  BY <1>2 DEF Max
<1> QED
  BY <1>1, <1>3, <1>4

(* Splitting, in one round or several, makes a tiling that refines it.     *)
LEMMA SplitTiles ==
  ASSUME NEW c \in Configs, NEW blocks, Tiling(c, blocks), NEW chosen \in SUBSET blocks,
         \A b \in chosen : b.level < c.maxLevel
  PROVE  Tiling(c, Split(blocks, chosen)) /\ Refines(Split(blocks, chosen), blocks)
BY SplitCovers, SplitDisjoint, SplitRefines DEF Tiling, Covering

LEMMA RefinesItself ==
  ASSUME NEW c \in Configs, NEW blocks \in SUBSET Locations(c)
  PROVE  Refines(blocks, blocks)
BY SelfAncestor, Location, Levels DEF Refines, Under

LEMMA SplitNothing ==
  ASSUME NEW blocks
  PROVE  Split(blocks, {}) = blocks
BY DEF Split

(* What asks for a finer level than it has. *)
Lacking(blocks, seeds, minimum) == {b \in blocks : b.level < Desired(b, seeds, minimum)}

(* Deepening: a round splits what asks for more, so no round leaves the    *)
(* levels or uncovers anything, the first is never undone, and what still  *)
(* asks for more has been split in every round.                            *)
LEMMA RefinedCovers ==
  ASSUME NEW c \in Configs, NEW blocks, Tiling(c, blocks), NEW minimum \in 0 .. c.maxLevel, NEW seeds,
         \A s \in seeds : s.level \in 0 .. c.maxLevel, NEW rounds \in Nat
  PROVE  LET made == Refined(blocks, seeds, minimum, rounds)
         IN  /\ Tiling(c, made) /\ Refines(made, blocks)
             /\ rounds > 0 => Refines(made, Split(blocks, Lacking(blocks, seeds, minimum)))
             /\ \A b \in Lacking(made, seeds, minimum) : rounds <= b.level
             /\ Lacking(blocks, seeds, minimum) = {} => made = blocks
<1> DEFINE Wanting(now) == {b \in now : b.level < Desired(b, seeds, minimum)}
           Deeper(now) == Split(now, {b \in now : b.level < Desired(b, seeds, minimum)})
           Round(r) == [n \in 0 .. rounds |-> IF n = 0 THEN {blocks} ELSE {Deeper(now) : now \in r[n - 1]}]
           round == CHOOSE r : r = Round(r)
           Chain == {k \in Nat : \E s : /\ s[0] = blocks
                                        /\ \A n \in 1 .. k : s[n] = Deeper(s[n - 1])}
           Made(k, now) == /\ Tiling(c, now) /\ Refines(now, blocks)
                           /\ k > 0 => Refines(now, Deeper(blocks))
                           /\ \A b \in Wanting(now) : k <= b.level
                           /\ Wanting(blocks) = {} => now = blocks
           Settled == {k \in Nat : k <= rounds => \E now : round[k] = {now} /\ Made(k, now)}
<1>1. ASSUME NEW now, Tiling(c, now)
      PROVE  /\ Tiling(c, Deeper(now)) /\ Refines(Deeper(now), now)
             /\ \A b \in Wanting(Deeper(now)) : \E o \in Wanting(now) : b.level = o.level + 1
             /\ Wanting(now) = {} => Deeper(now) = now
             /\ \A b \in now : b.level \in Nat
  <2>1. \A b \in now : b.level \in 0 .. c.maxLevel /\ Desired(b, seeds, minimum) \in 0 .. c.maxLevel
    BY <1>1, DesiredLevel, Location DEF Tiling, Covering
  <2>2. \A b \in now : b.level < Desired(b, seeds, minimum) => b.level < c.maxLevel
    BY <2>1, Levels
  <2>3. Tiling(c, Deeper(now)) /\ Refines(Deeper(now), now)
    BY <1>1, <2>2, SplitTiles
  <2>4. ASSUME NEW b \in Wanting(Deeper(now)) PROVE \E o \in Wanting(now) : b.level = o.level + 1
    <3>1. now \in SUBSET Locations(c) /\ Wanting(now) \in SUBSET now /\ b \in Split(now, Wanting(now))
      BY <1>1 DEF Tiling, Covering
    <3>2. \A o \in Wanting(now) : o.level < c.maxLevel
      BY <2>2
    <3>3. b.level < Desired(b, seeds, minimum)
      BY <2>4
    <3>4. b \notin now \ Wanting(now)
      BY <3>3
    <3> HIDE DEF Wanting
    <3> QED
      BY <3>1, <3>2, <3>4, SplitFrom
  <2>5. Wanting(now) = {} => Deeper(now) = now
    BY SplitNothing
  <2>6. \A b \in now : b.level \in Nat
    BY <2>1, Levels
  <2> QED
    BY <2>3, <2>4, <2>5, <2>6
<1>2. Refined(blocks, seeds, minimum, rounds) = UNION round[rounds]
  BY Zenon DEF Refined
<1> HIDE DEF Deeper, Wanting
<1>3. rounds \in Chain
  <2>1. 0 \in Chain
    <3> DEFINE s == [n \in {0} |-> blocks]
    <3>1. s[0] = blocks /\ \A n \in 1 .. 0 : s[n] = Deeper(s[n - 1])
      OBVIOUS
    <3> QED
      BY <3>1, Zenon
  <2>2. ASSUME NEW k \in Nat, k \in Chain PROVE k + 1 \in Chain
    <3>1. PICK s : s[0] = blocks /\ \A n \in 1 .. k : s[n] = Deeper(s[n - 1])
      BY <2>2
    <3> DEFINE t == [n \in 0 .. k + 1 |-> IF n = k + 1 THEN Deeper(s[k]) ELSE s[n]]
    <3>2. t[0] = blocks /\ \A n \in 1 .. k + 1 : t[n] = Deeper(t[n - 1])
      <4>1. t[0] = blocks
        BY <3>1
      <4>2. ASSUME NEW n \in 1 .. k + 1 PROVE t[n] = Deeper(t[n - 1])
        <5>1. t[n - 1] = s[n - 1]
          OBVIOUS
        <5>2. CASE n = k + 1
          BY <5>1, <5>2
        <5>3. CASE n # k + 1
          <6>1. n \in 1 .. k /\ t[n] = s[n]
            BY <5>3
          <6> QED
            BY <3>1, <5>1, <6>1
        <5> QED
          BY <5>2, <5>3
      <4> QED
        BY <4>1, <4>2
    <3> HIDE DEF t
    <3>3. k + 1 \in Nat
      OBVIOUS
    <3> QED
      BY <3>2, <3>3, Zenon
  <2> HIDE DEF Chain
  <2> QED
    BY <2>1, <2>2, Counting
<1>4. round = Round(round)
  <2>1. PICK s : s[0] = blocks /\ \A n \in 1 .. rounds : s[n] = Deeper(s[n - 1])
    BY <1>3
  <2> DEFINE r == [n \in 0 .. rounds |-> {s[n]}]
  <2>2. \A n \in 0 .. rounds : r[n] = Round(r)[n]
    <3> SUFFICES ASSUME NEW n \in 0 .. rounds
                 PROVE  r[n] = IF n = 0 THEN {blocks} ELSE {Deeper(now) : now \in r[n - 1]}
      OBVIOUS
    <3>1. CASE n = 0
      BY <2>1, <3>1
    <3>2. CASE n # 0
      <4>1. n \in 1 .. rounds /\ r[n - 1] = {s[n - 1]}
        BY <3>2
      <4>2. r[n] = {Deeper(s[n - 1])}
        BY <2>1, <4>1
      <4> QED
        BY <3>2, <4>1, <4>2
    <3> QED
      BY <3>1, <3>2
  <2>3. r = Round(r)
    BY <2>2
  <2> HIDE DEF r, Round
  <2> QED
    BY <2>3, Zenon
<1> HIDE DEF round
<1>5. rounds \in Settled
  <2>1. 0 \in Settled
    <3>1. round[0] = {blocks}
      BY <1>4
    <3>2. Made(0, blocks)
      <4>1. blocks \in SUBSET Locations(c) /\ \A b \in blocks : b.level \in Nat /\ 0 <= b.level
        BY <1>1 DEF Tiling, Covering
      <4> QED
        BY <4>1, RefinesItself DEF Wanting
    <3> HIDE DEF Made
    <3> QED
      BY <3>1, <3>2
  <2>2. ASSUME NEW k \in Nat, k \in Settled PROVE k + 1 \in Settled
    <3> SUFFICES ASSUME k + 1 <= rounds PROVE \E now : round[k + 1] = {now} /\ Made(k + 1, now)
      OBVIOUS
    <3>1. PICK now : round[k] = {now} /\ Made(k, now)
      BY <2>2
    <3>2. round[k + 1] = {Deeper(m) : m \in round[k]}
      <4>1. k + 1 \in 0 .. rounds /\ k + 1 # 0 /\ (k + 1) - 1 = k
        OBVIOUS
      <4>2. Round(round)[k + 1] = {Deeper(m) : m \in round[(k + 1) - 1]}
        BY <4>1
      <4> HIDE DEF Round
      <4> QED
        BY <1>4, <4>1, <4>2
    <3>3. round[k + 1] = {Deeper(now)}
      BY <3>1, <3>2
    <3>4. Tiling(c, Deeper(now)) /\ Refines(Deeper(now), now) /\ Tiling(c, now) /\ Tiling(c, Deeper(blocks))
      BY <1>1, <3>1
    <3>5. {Deeper(now), now, Deeper(blocks), blocks} \subseteq SUBSET Locations(c)
      BY <3>4 DEF Tiling, Covering
    <3>6. Refines(Deeper(now), blocks)
      BY <3>1, <3>4, <3>5, RefinesTwice
    <3>7. Refines(Deeper(now), Deeper(blocks))
      <4>1. CASE k = 0
        <5>1. now = blocks
          BY <1>4, <3>1, <4>1
        <5> QED
          BY <3>5, <5>1, RefinesItself
      <4>2. CASE k # 0
        BY <3>1, <3>4, <3>5, <4>2, RefinesTwice
      <4> QED
        BY <4>1, <4>2
    <3>8. \A b \in Wanting(Deeper(now)) : k + 1 <= b.level
      <4> SUFFICES ASSUME NEW b \in Wanting(Deeper(now)) PROVE k + 1 <= b.level
        OBVIOUS
      <4>1. PICK o \in Wanting(now) : b.level = o.level + 1
        BY <1>1, <3>1
      <4>2. o.level \in Nat /\ k <= o.level
        BY <1>1, <3>1 DEF Wanting
      <4> QED
        BY <4>1, <4>2
    <3>9. Wanting(blocks) = {} => Deeper(now) = blocks
      BY <1>1, <3>1
    <3> QED
      BY <3>3, <3>4, <3>6, <3>7, <3>8, <3>9
  <2> HIDE DEF Settled
  <2> QED
    BY <2>1, <2>2, Counting
<1>6. PICK now : round[rounds] = {now} /\ Made(rounds, now)
  BY <1>5
<1>7. UNION round[rounds] = now
  BY <1>6
<1>8. Refined(blocks, seeds, minimum, rounds) = now
  BY <1>2, <1>7
<1>9. Wanting(blocks) = Lacking(blocks, seeds, minimum) /\ Wanting(now) = Lacking(now, seeds, minimum)
      /\ Deeper(blocks) = Split(blocks, Lacking(blocks, seeds, minimum))
  BY DEF Lacking, Wanting, Deeper
<1> QED
  BY <1>6, <1>8, <1>9

(* There are finitely many places in the tree. *)
LEMMA FiniteFunctions ==
  ASSUME NEW S, IsFiniteSet(S), NEW T, IsFiniteSet(T)
  PROVE  IsFiniteSet([S -> T])
<1> DEFINE graph == [f \in [S -> T] |-> {<<x, f[x]>> : x \in S}]
<1>1. IsFiniteSet(SUBSET (S \X T))
  BY FS_Product, FS_SUBSET
<1>2. graph \in [[S -> T] -> SUBSET (S \X T)]
  OBVIOUS
<1>3. ASSUME NEW f \in [S -> T], NEW g \in [S -> T], graph[f] = graph[g] PROVE f = g
  <2>1. ASSUME NEW x \in S PROVE f[x] = g[x]
    <3>1. <<x, f[x]>> \in graph[f]
      OBVIOUS
    <3>2. <<x, f[x]>> \in graph[g]
      BY <1>3, <3>1
    <3>3. PICK y \in S : <<x, f[x]>> = <<y, g[y]>>
      BY <3>2
    <3> QED
      BY <3>3
  <2> QED
    BY <2>1
<1> HIDE DEF graph
<1>4. graph \in Injection([S -> T], SUBSET (S \X T))
  BY <1>2, <1>3 DEF Injection, IsInjective
<1> QED
  BY <1>1, <1>4, FS_Injection

LEMMA FinitePlaces ==
  ASSUME config \in Configs
  PROVE  /\ IsFiniteSet(Places) /\ Cardinality(Places) \in Nat
         /\ Locations(config) \subseteq Places
<1>1. config.maxLevel \in Nat /\ IsFiniteSet(Axes(config))
  BY Levels, RegridAssumption DEF IsConfig
<1> DEFINE ranks == 0 .. config.maxLevel
           slots == 0 .. (2^config.maxLevel - 1)
           spots == [Axes(config) -> slots]
           pair == [b \in Places |-> <<b.level, b.at>>]
<1>2. IsFiniteSet(ranks) /\ IsFiniteSet(slots) /\ 2^config.maxLevel \in Nat
  <2>1. 2^config.maxLevel \in Nat
    BY <1>1, Power
  <2>2. 2^config.maxLevel - 1 \in Int /\ 0 \in Int /\ config.maxLevel \in Int
    BY <1>1, <2>1
  <2> QED
    BY <2>1, <2>2, FS_Interval
<1>3. IsFiniteSet(ranks \X spots)
  BY <1>1, <1>2, FiniteFunctions, FS_Product
<1>4. Places = [level : ranks, at : spots]
  BY DEF Places
<1> HIDE DEF ranks, spots
<1>5. pair \in [Places -> ranks \X spots]
  BY <1>4
<1>6. \A a, b \in Places : pair[a] = pair[b] => a = b
  BY <1>4
<1> HIDE DEF pair
<1>7. pair \in Injection(Places, ranks \X spots)
  BY <1>5, <1>6 DEF Injection, IsInjective
<1>8. IsFiniteSet(Places) /\ Cardinality(Places) \in Nat
  BY <1>3, <1>7, FS_Injection, FS_CardinalityType
<1>9. ASSUME NEW b \in Locations(config) PROVE b \in Places
  <2>1. b.level \in ranks /\ b.level \in Nat /\ b.level <= config.maxLevel
    BY <1>1, Location DEF ranks
  <2>2. config.maxLevel - b.level \in Nat /\ config.maxLevel = b.level + (config.maxLevel - b.level)
    BY <1>1, <2>1
  <2>3. 2^b.level \in Nat /\ 2^(config.maxLevel - b.level) \in Nat \ {0}
        /\ 2^config.maxLevel = 2^b.level * 2^(config.maxLevel - b.level)
    BY <2>1, <2>2, Power, PowerSum
  <2>4. 2^b.level <= 2^config.maxLevel
    <3> DEFINE x == 2^b.level
               y == 2^(config.maxLevel - b.level)
    <3>1. x \in Nat /\ y \in Nat \ {0} /\ 2^config.maxLevel = x * y
      BY <2>3
    <3> HIDE DEF x, y
    <3>2. x <= x * y
      BY <3>1
    <3> QED
      BY <3>1, <3>2 DEF x
  <2>5. \A d \in Axes(config) : b.at[d] \in slots
    BY <1>2, <2>3, <2>4, Location
  <2>6. b.at \in spots
    BY <2>5, Location DEF spots
  <2> QED
    BY <1>4, <2>1, <2>6, Location
<1> QED
  BY <1>8, <1>9

(* What lies under a mesh gets less with each round that splits a block.   *)
Below(c, blocks) == {x \in Locations(c) : Under(x, blocks)}

LEMMA SplitShrinks ==
  ASSUME config \in Configs, NEW blocks, Tiling(config, blocks), NEW chosen \in SUBSET blocks,
         \A b \in chosen : b.level < config.maxLevel, chosen # {}
  PROVE  /\ IsFiniteSet(Below(config, blocks))
         /\ Cardinality(Below(config, Split(blocks, chosen))) < Cardinality(Below(config, blocks))
<1> DEFINE new == Split(blocks, chosen)
<1>1. /\ Tiling(config, new) /\ Refines(new, blocks)
      /\ blocks \subseteq Locations(config) /\ new \subseteq Locations(config)
  BY SplitTiles DEF Tiling, Covering
<1>2. PICK b \in chosen : b \in blocks /\ b \in Locations(config) /\ ~Under(b, new)
  BY <1>1, ChosenGone DEF Tiling
<1>3. Under(b, blocks)
  BY <1>2, SelfAncestor, Location, Levels DEF Under
<1>4. ASSUME NEW x \in Locations(config), Under(x, new) PROVE Under(x, blocks)
  <2>1. PICK a \in new : a.level <= x.level /\ Ancestor(x, a.level) = a
    BY <1>4 DEF Under
  <2>2. PICK o \in blocks : o.level <= a.level /\ Ancestor(a, o.level) = o
    BY <1>1 DEF Refines, Under
  <2>3. x.level \in Nat /\ a.level \in Nat /\ o.level \in Nat /\ a \in Locations(config)
    BY <1>1, Location, Levels
  <2>4. Ancestor(x, o.level) = o
    BY <2>1, <2>2, <2>3, UnderAncestor
  <2> QED
    BY <2>1, <2>2, <2>3, <2>4 DEF Under
<1> DEFINE old == Below(config, blocks)
           next == Below(config, new)
<1>5. next \in SUBSET old /\ b \in old /\ b \notin next /\ old \in SUBSET Locations(config)
  BY <1>2, <1>3, <1>4 DEF Below
<1> HIDE DEF new, old, next
<1>6. IsFiniteSet(old)
  <2>1. old \in SUBSET Places
    BY <1>5, FinitePlaces
  <2> QED
    BY <2>1, FinitePlaces, FS_Subset
<1>7. /\ Cardinality(next) <= Cardinality(old) /\ (Cardinality(old) = Cardinality(next) => old = next)
      /\ Cardinality(next) \in Nat /\ Cardinality(old) \in Nat
  BY <1>5, <1>6, FS_Subset, FS_CardinalityType
<1>8. Cardinality(next) # Cardinality(old)
  BY <1>5, <1>7
<1> QED
  BY <1>6, <1>7, <1>8 DEF next, old, new

(* Balancing: a round splits blocks that touch a block two levels finer,   *)
(* which are not of the finest level, until there is none.  That comes     *)
(* before the places run out.                                              *)
LEMMA BalancedCovers ==
  ASSUME NEW blocks, config \in Configs, Tiling(config, blocks)
  PROVE  LET made == Balanced(blocks)
         IN  /\ Tiling(config, made) /\ Refines(made, blocks) /\ TooCoarse(made) = {}
             /\ TooCoarse(blocks) = {} => made = blocks
<1> DEFINE Even(now) == Split(now, TooCoarse(now))
           rounds == Cardinality(Places)
           Round(r) == [n \in 0 .. rounds |-> IF n = 0 THEN {blocks} ELSE {Even(now) : now \in r[n - 1]}]
           round == CHOOSE r : r = Round(r)
           Chain == {k \in Nat : \E s : /\ s[0] = blocks
                                        /\ \A n \in 1 .. k : s[n] = Even(s[n - 1])}
           last == CHOOSE n \in 0 .. rounds : \A now \in round[n] : TooCoarse(now) = {}
           Size(now) == Cardinality(Below(config, now))
           Open(k) == \A n \in 0 .. rounds : n < k => ~\A now \in round[n] : TooCoarse(now) = {}
           Made(k, now) == /\ Tiling(config, now) /\ Refines(now, blocks)
                           /\ TooCoarse(blocks) = {} => now = blocks
                           /\ Open(k) => Size(now) + k <= rounds
           Settled == {k \in Nat : k <= rounds => \E now : round[k] = {now} /\ Made(k, now)}
<1>0. rounds \in Nat
  BY FinitePlaces
<1>1. ASSUME NEW now, Tiling(config, now)
      PROVE  /\ Tiling(config, Even(now)) /\ Refines(Even(now), now) /\ Size(now) \in Nat
             /\ TooCoarse(now) # {} => Size(Even(now)) < Size(now)
             /\ TooCoarse(now) = {} => Even(now) = now
  <2>1. TooCoarse(now) \subseteq now
    BY DEF TooCoarse
  <2>2. ASSUME NEW b \in TooCoarse(now) PROVE b.level < config.maxLevel
    <3>1. PICK fine \in now : \E k \in 0 .. (fine.level - 2), n \in BlocksAcross(config, fine) : b = Ancestor(n, k)
      BY DEF TooCoarse
    <3>2. PICK k \in 0 .. (fine.level - 2) : \E n \in BlocksAcross(config, fine) : b = Ancestor(n, k)
      BY <3>1
    <3>3. b.level = k
      BY <3>2 DEF Ancestor
    <3>4. fine.level \in 0 .. config.maxLevel /\ config.maxLevel \in Nat
      BY <1>1, Location, Levels DEF Tiling, Covering
    <3> QED
      BY <3>3, <3>4
  <2>3. Tiling(config, Even(now)) /\ Refines(Even(now), now)
    BY <1>1, <2>1, <2>2, SplitTiles
  <2>4. TooCoarse(now) # {} => Size(Even(now)) < Size(now)
    BY <1>1, <2>1, <2>2, SplitShrinks
  <2>5. Size(now) \in Nat
    <3>1. Below(config, now) \in SUBSET Places
      BY FinitePlaces DEF Below
    <3> QED
      BY <3>1, FinitePlaces, FS_Subset, FS_CardinalityType
  <2>6. TooCoarse(now) = {} => Even(now) = now
    BY SplitNothing
  <2> QED
    BY <2>3, <2>4, <2>5, <2>6
<1>2. Balanced(blocks) = UNION round[last]
  BY Zenon DEF Balanced
<1> HIDE DEF Even, rounds, Size, last
<1>3. rounds \in Chain
  <2>1. 0 \in Chain
    <3> DEFINE s == [n \in {0} |-> blocks]
    <3>1. s[0] = blocks /\ \A n \in 1 .. 0 : s[n] = Even(s[n - 1])
      OBVIOUS
    <3> QED
      BY <3>1, Zenon
  <2>2. ASSUME NEW k \in Nat, k \in Chain PROVE k + 1 \in Chain
    <3>1. PICK s : s[0] = blocks /\ \A n \in 1 .. k : s[n] = Even(s[n - 1])
      BY <2>2
    <3> DEFINE t == [n \in 0 .. k + 1 |-> IF n = k + 1 THEN Even(s[k]) ELSE s[n]]
    <3>2. t[0] = blocks /\ \A n \in 1 .. k + 1 : t[n] = Even(t[n - 1])
      <4>1. t[0] = blocks
        BY <3>1
      <4>2. ASSUME NEW n \in 1 .. k + 1 PROVE t[n] = Even(t[n - 1])
        <5>1. t[n - 1] = s[n - 1]
          OBVIOUS
        <5>2. CASE n = k + 1
          BY <5>1, <5>2
        <5>3. CASE n # k + 1
          <6>1. n \in 1 .. k /\ t[n] = s[n]
            BY <5>3
          <6> QED
            BY <3>1, <5>1, <6>1
        <5> QED
          BY <5>2, <5>3
      <4> QED
        BY <4>1, <4>2
    <3> HIDE DEF t
    <3>3. k + 1 \in Nat
      OBVIOUS
    <3> QED
      BY <3>2, <3>3, Zenon
  <2> HIDE DEF Chain
  <2> QED
    BY <1>0, <2>1, <2>2, Counting
<1>4. round = Round(round)
  <2>1. PICK s : s[0] = blocks /\ \A n \in 1 .. rounds : s[n] = Even(s[n - 1])
    BY <1>3
  <2> DEFINE r == [n \in 0 .. rounds |-> {s[n]}]
  <2>2. \A n \in 0 .. rounds : r[n] = Round(r)[n]
    <3> SUFFICES ASSUME NEW n \in 0 .. rounds
                 PROVE  r[n] = IF n = 0 THEN {blocks} ELSE {Even(now) : now \in r[n - 1]}
      OBVIOUS
    <3>1. CASE n = 0
      BY <2>1, <3>1
    <3>2. CASE n # 0
      <4>1. n \in 1 .. rounds /\ r[n - 1] = {s[n - 1]}
        BY <1>0, <3>2
      <4>2. r[n] = {Even(s[n - 1])}
        BY <2>1, <4>1
      <4> QED
        BY <3>2, <4>1, <4>2
    <3> QED
      BY <3>1, <3>2
  <2>3. r = Round(r)
    BY <2>2
  <2> HIDE DEF r, Round
  <2> QED
    BY <2>3, Zenon
<1> HIDE DEF round
<1>5. \A k \in Nat : k \in Settled
  <2>1. 0 \in Settled
    <3>1. round[0] = {blocks}
      BY <1>0, <1>4
    <3>2. Refines(blocks, blocks)
      BY RefinesItself DEF Tiling, Covering
    <3>3. Size(blocks) \in Nat /\ Size(blocks) <= rounds
      <4>1. Below(config, blocks) \in SUBSET Places
        BY FinitePlaces DEF Below
      <4> QED
        BY <1>1, <4>1, FinitePlaces, FS_Subset DEF Size, rounds
    <3>4. Made(0, blocks)
      BY <1>0, <3>2, <3>3
    <3> HIDE DEF Made
    <3> QED
      BY <3>1, <3>4
  <2>2. ASSUME NEW k \in Nat, k \in Settled PROVE k + 1 \in Settled
    <3> SUFFICES ASSUME k + 1 <= rounds PROVE \E now : round[k + 1] = {now} /\ Made(k + 1, now)
      BY <1>0
    <3>1. PICK now : round[k] = {now} /\ Made(k, now)
      BY <1>0, <2>2
    <3>2. round[k + 1] = {Even(m) : m \in round[k]}
      <4>1. k + 1 \in 0 .. rounds /\ k + 1 # 0 /\ (k + 1) - 1 = k
        BY <1>0
      <4>2. Round(round)[k + 1] = {Even(m) : m \in round[(k + 1) - 1]}
        BY <4>1
      <4> HIDE DEF Round
      <4> QED
        BY <1>4, <4>1, <4>2
    <3>3. round[k + 1] = {Even(now)}
      BY <3>1, <3>2
    <3>4. /\ Tiling(config, now) /\ Tiling(config, Even(now)) /\ Refines(Even(now), now) /\ Size(now) \in Nat
          /\ Size(Even(now)) \in Nat /\ (TooCoarse(now) # {} => Size(Even(now)) < Size(now))
      BY <1>1, <3>1
    <3>5. Refines(Even(now), blocks)
      <4>1. {Even(now), now, blocks} \subseteq SUBSET Locations(config)
        BY <3>4 DEF Tiling, Covering
      <4> QED
        BY <3>1, <3>4, <4>1, RefinesTwice
    <3>6. ASSUME Open(k + 1) PROVE Size(Even(now)) + (k + 1) <= rounds
      <4>1. Open(k) /\ TooCoarse(now) # {}
        <5>1. k \in 0 .. rounds /\ k < k + 1
          BY <1>0
        <5>2. ~\A m \in round[k] : TooCoarse(m) = {}
          BY <3>6, <5>1
        <5>3. \A n \in 0 .. rounds : n < k => n < k + 1
          OBVIOUS
        <5> QED
          BY <3>1, <3>6, <5>2, <5>3
      <4>2. Size(now) + k <= rounds
        BY <3>1, <4>1
      <4> QED
        BY <1>0, <3>4, <4>1, <4>2
    <3>7. TooCoarse(blocks) = {} => Even(now) = blocks
      BY <1>1, <3>1
    <3> HIDE DEF Open
    <3> QED
      BY <3>3, <3>4, <3>5, <3>6, <3>7
  <2> HIDE DEF Settled
  <2> QED
    BY <2>1, <2>2, Counting
<1>6. \E n \in 0 .. rounds : \A now \in round[n] : TooCoarse(now) = {}
  <2> SUFFICES ASSUME \A n \in 0 .. rounds : ~\A now \in round[n] : TooCoarse(now) = {} PROVE FALSE
    OBVIOUS
  <2>1. rounds \in Settled /\ Open(rounds)
    BY <1>0, <1>5
  <2>2. PICK now : round[rounds] = {now} /\ Tiling(config, now) /\ Size(now) + rounds <= rounds
    BY <1>0, <2>1
  <2>3. Size(now) \in Nat /\ TooCoarse(now) # {}
    BY <1>0, <1>1, <2>2
  <2>4. Size(Even(now)) < Size(now) /\ Size(Even(now)) \in Nat
    BY <1>1, <2>2, <2>3
  <2> QED
    BY <1>0, <2>2, <2>3, <2>4
<1>7. last \in 0 .. rounds /\ \A now \in round[last] : TooCoarse(now) = {}
  BY <1>6 DEF last
<1>8. PICK now : /\ round[last] = {now} /\ Tiling(config, now) /\ Refines(now, blocks)
                 /\ TooCoarse(blocks) = {} => now = blocks
  BY <1>0, <1>5, <1>7
<1>9. Balanced(blocks) = now /\ TooCoarse(now) = {}
  BY <1>2, <1>7, <1>8
<1> QED
  BY <1>8, <1>9

(* A selection, the first of a regrid with coarsening or any other: no     *)
(* block gets coarser than the minimum, and with enough rounds each lies   *)
(* under one that asks for no more than it has.  A selection without       *)
(* coarsening leaves a mesh alone only if none of its blocks asks for      *)
(* more, and then it does if the mesh is balanced.                         *)
AtLeast(minimum, blocks) == \A b \in blocks : minimum <= b.level

LEMMA SelectionCovers ==
  ASSUME config \in Configs, NEW blocks, Tiling(config, blocks), NEW seen, NEW horizon,
         NEW minimum \in 0 .. config.maxLevel, NEW coarsening \in BOOLEAN, NEW rounds \in Nat
  PROVE  LET made == SelectMesh(blocks, seen, horizon, minimum, coarsening, rounds)
             asked == Seeds(blocks, seen, horizon)
         IN  /\ Tiling(config, made) /\ TooCoarse(made) = {}
             /\ AtLeast(minimum, blocks) => AtLeast(minimum, made)
             /\ \A s \in asked : s.level \in 0 .. config.maxLevel
             /\ rounds = config.maxLevel =>
                  \E deep : Tiling(config, deep) /\ Refines(made, deep) /\ Lacking(deep, asked, minimum) = {}
             /\ ~coarsening => Refines(made, blocks)
             /\ ~coarsening /\ rounds > 0 /\ made = blocks => Lacking(blocks, asked, minimum) = {}
             /\ ~coarsening /\ Lacking(blocks, asked, minimum) = {} /\ TooCoarse(blocks) = {} => made = blocks
<1> DEFINE seeds == Seeds(blocks, seen, horizon)
           parents == Mergeable(blocks, seen, seeds, minimum)
           merged == IF coarsening THEN Merged(blocks, parents) ELSE blocks
<1>1. \A s \in seeds : s.level \in 0 .. config.maxLevel
  <2> SUFFICES ASSUME NEW b \in blocks, NEW found PROVE SeedOf(b, found, horizon).level \in 0 .. config.maxLevel
    BY DEF Seeds
  <2>1. b.level \in 0 .. config.maxLevel /\ config.maxLevel \in Nat
    BY Location, Levels DEF Tiling, Covering
  <2>2. SeedOf(b, found, horizon).level = Lesser(config.maxLevel, b.level + 1)
    BY DEF SeedOf
  <2> QED
    BY <2>1, <2>2 DEF Lesser
<1>2. \A p \in parents :
         p \in Locations(config) /\ p.level < config.maxLevel /\ minimum <= p.level /\ Children(p) \subseteq blocks
  <2> SUFFICES ASSUME NEW b \in blocks, b.level > minimum
               PROVE  /\ Parent(b) \in Locations(config) /\ Parent(b).level < config.maxLevel
                      /\ minimum <= Parent(b).level
    BY DEF Mergeable
  <2>1. b \in Locations(config) /\ b.level \in 0 .. config.maxLevel /\ config.maxLevel \in Nat /\ b.level > 0
    BY Location, Levels DEF Tiling, Covering
  <2>2. Parent(b) \in Locations(config) /\ Parent(b).level = b.level - 1
    BY <2>1, ParentIs
  <2> QED
    BY <2>1, <2>2
<1> HIDE DEF parents
<1>3. Tiling(config, merged)
  <2>1. blocks \in SUBSET Locations(config) /\ parents \in SUBSET Locations(config)
    BY <1>2 DEF Tiling, Covering
  <2> QED
    BY <1>2, <2>1, MergedCovers, MergedDisjoint DEF Tiling
<1>4. AtLeast(minimum, blocks) => AtLeast(minimum, merged)
  BY <1>2 DEF AtLeast, Merged
<1> DEFINE deep == Refined(merged, seeds, minimum, rounds)
           made == Balanced(deep)
           wanting == Lacking(merged, seeds, minimum)
<1>5. ~coarsening => merged = blocks
  OBVIOUS
<1> HIDE DEF merged, seeds
<1>6. /\ Tiling(config, deep) /\ Refines(deep, merged) /\ (rounds > 0 => Refines(deep, Split(merged, wanting)))
      /\ \A b \in Lacking(deep, seeds, minimum) : rounds <= b.level
      /\ wanting = {} => deep = merged
  <2>1. Tiling(config, deep)
    BY <1>1, <1>3, RefinedCovers
  <2>2. Refines(deep, merged)
    BY <1>1, <1>3, RefinedCovers
  <2>3. rounds > 0 => Refines(deep, Split(merged, wanting))
    BY <1>1, <1>3, RefinedCovers
  <2>4. \A b \in Lacking(deep, seeds, minimum) : rounds <= b.level
    BY <1>1, <1>3, RefinedCovers
  <2>5. wanting = {} => deep = merged
    BY <1>1, <1>3, RefinedCovers
  <2> QED
    BY <2>1, <2>2, <2>3, <2>4, <2>5
<1> HIDE DEF deep
<1>7. /\ Tiling(config, made) /\ Refines(made, deep) /\ TooCoarse(made) = {}
      /\ TooCoarse(deep) = {} => made = deep
  BY <1>6, BalancedCovers
<1> HIDE DEF made
<1>8. {made, deep, merged} \subseteq SUBSET Locations(config) /\ Refines(made, merged)
  <2>1. {made, deep, merged} \subseteq SUBSET Locations(config)
    BY <1>3, <1>6, <1>7 DEF Tiling, Covering
  <2> QED
    BY <1>6, <1>7, <2>1, RefinesTwice
<1>9. ASSUME AtLeast(minimum, merged) PROVE AtLeast(minimum, made)
  <2> SUFFICES ASSUME NEW b \in made PROVE minimum <= b.level
    BY DEF AtLeast
  <2>1. PICK a \in merged : a.level <= b.level
    BY <1>8 DEF Refines, Under
  <2>2. a.level \in Nat /\ b.level \in Nat /\ minimum \in Nat /\ minimum <= a.level
    BY <1>8, <1>9, Location, Levels DEF AtLeast
  <2> QED
    BY <2>1, <2>2
<1>10. ASSUME rounds > 0, made = merged PROVE wanting = {}
  <2>1. \A b \in merged : b.level \in Nat /\ Desired(b, seeds, minimum) \in 0 .. config.maxLevel
    BY <1>1, <1>8, DesiredLevel, Location, Levels
  <2>2. wanting \in SUBSET merged /\ \A b \in wanting : b.level < config.maxLevel
    BY <2>1, Levels DEF Lacking
  <2>3. Refines(made, Split(merged, wanting))
    <3>1. Split(merged, wanting) \in SUBSET Locations(config)
      BY <1>8, <2>2, SplitRefines
    <3> QED
      BY <1>6, <1>7, <1>8, <1>10, <3>1, RefinesTwice
  <2> SUFFICES ASSUME NEW b \in wanting PROVE FALSE
    OBVIOUS
  <2>4. ~Under(b, Split(merged, wanting))
    BY <1>3, <1>8, <2>2, ChosenGone DEF Tiling
  <2>5. b \in made
    BY <1>10, <2>2
  <2> QED
    BY <2>3, <2>4, <2>5 DEF Refines
<1>11. ASSUME rounds = config.maxLevel PROVE Lacking(deep, seeds, minimum) = {}
  <2> SUFFICES ASSUME NEW b \in Lacking(deep, seeds, minimum) PROVE FALSE
    OBVIOUS
  <2>0. b \in deep /\ b.level < Desired(b, seeds, minimum)
    BY DEF Lacking
  <2>1. rounds <= b.level /\ Desired(b, seeds, minimum) \in 0 .. config.maxLevel /\ b.level \in 0 .. config.maxLevel
    BY <1>1, <1>6, <1>8, <2>0, DesiredLevel, Location
  <2> QED
    BY <1>11, <2>0, <2>1, Levels
<1>12. wanting = Lacking(merged, seeds, minimum)
  BY DEF Lacking
<1>13. SelectMesh(blocks, seen, horizon, minimum, coarsening, rounds) = made
  BY Zenon DEF SelectMesh, merged, parents, seeds, made, deep
<1>14. ~coarsening /\ wanting = {} /\ TooCoarse(blocks) = {} => made = blocks
  BY <1>5, <1>6, <1>7
<1>15. seeds = Seeds(blocks, seen, horizon)
  BY DEF seeds
<1> HIDE DEF wanting
<1>16. /\ ~coarsening => Refines(made, blocks)
       /\ ~coarsening /\ rounds > 0 /\ made = blocks => Lacking(blocks, seeds, minimum) = {}
       /\ ~coarsening /\ Lacking(blocks, seeds, minimum) = {} /\ TooCoarse(blocks) = {} => made = blocks
  BY <1>5, <1>8, <1>10, <1>12, <1>14
<1>17. rounds = config.maxLevel =>
          \E mesh1 : Tiling(config, mesh1) /\ Refines(made, mesh1) /\ Lacking(mesh1, seeds, minimum) = {}
  BY <1>6, <1>7, <1>11
<1> QED
  BY <1>1, <1>4, <1>7, <1>9, <1>13, <1>15, <1>16, <1>17

(* No block asks for more: none is coarser than the minimum or than a box   *)
(* that it meets.                                                          *)
Granted(blocks, s) == \A b \in blocks : Overlaps(config, BlockBox(config, b), s) => s.level <= b.level
AllGranted(blocks, seeds, minimum) == AtLeast(minimum, blocks) /\ \A s \in seeds : Granted(blocks, s)

LEMMA NoneLacking ==
  ASSUME config \in Configs, NEW blocks \in SUBSET Locations(config), NEW minimum \in 0 .. config.maxLevel, NEW seeds,
         \A s \in seeds : s.level \in 0 .. config.maxLevel
  PROVE  Lacking(blocks, seeds, minimum) = {} <=> AllGranted(blocks, seeds, minimum)
<1>1. ASSUME NEW b \in blocks
      PROVE  b.level < Desired(b, seeds, minimum) <=>
               b.level < minimum \/ \E s \in seeds : Overlaps(config, BlockBox(config, b), s) /\ b.level < s.level
  <2> DEFINE S == {minimum} \cup {s.level : s \in {s \in seeds : Overlaps(config, BlockBox(config, b), s)}}
  <2>1. S \in SUBSET Nat /\ S # {} /\ config.maxLevel \in Nat /\ b.level \in Nat /\ \A y \in S : y <= config.maxLevel
    BY Location, Levels
  <2>2. \E x \in S : \A y \in S : x >= y
    BY <2>1, Greatest
  <2>3. Desired(b, seeds, minimum) \in S /\ \A y \in S : Desired(b, seeds, minimum) >= y
    BY <2>2 DEF Desired, Max
  <2>4. b.level < Desired(b, seeds, minimum) <=> \E y \in S : b.level < y
    BY <2>1, <2>3
  <2> QED
    BY <2>4
<1>2. \A b \in blocks : b.level \in Nat
  BY Location, Levels
<1>3. minimum \in Nat /\ \A s \in seeds : s.level \in Nat
  BY Levels
<1>4. Lacking(blocks, seeds, minimum) = {} <=> \A b \in blocks : ~(b.level < Desired(b, seeds, minimum))
  BY DEF Lacking
<1>5. \A b \in blocks : ~(b.level < minimum) <=> minimum <= b.level
  BY <1>2, <1>3
<1>6. \A b \in blocks : \A s \in seeds : ~(b.level < s.level) <=> s.level <= b.level
  BY <1>2, <1>3
<1> QED
  BY <1>1, <1>4, <1>5, <1>6 DEF AllGranted, AtLeast, Granted
-----------------------------------------------------------------------------
(***************************************************************************)
(* The step a mesh allows: it grows only where blocks have been merged.    *)
(***************************************************************************)
LEMMA SomeBlock ==
  ASSUME NEW c \in Configs, NEW blocks, Covering(c, blocks)
  PROVE  blocks # {} /\ {b.level : b \in blocks} \in SUBSET (0 .. c.maxLevel)
<1> DEFINE root == [level |-> 0, at |-> [d \in Axes(c) |-> 0]]
<1>1. root \in Locations(c)
  <2>1. c.maxLevel \in Nat /\ 0 \in 0 .. c.maxLevel
    BY Levels
  <2>2. \A d \in Axes(c) : root.at[d] < 2^root.level
    BY PowerZero
  <2> QED
    BY <2>1, <2>2 DEF Locations
<1>2. \E x \in Finest(c) : TRUE
  BY <1>1, BlockOverFinest
<1>3. blocks # {}
  BY <1>2 DEF Covering
<1>4. \A b \in blocks : b.level \in 0 .. c.maxLevel
  BY Location DEF Covering
<1> QED
  BY <1>3, <1>4

(* Its coarsest and its finest level are those of blocks. *)
LEMMA ExtremeLevels ==
  ASSUME NEW c \in Configs, NEW blocks, Covering(c, blocks)
  PROVE  /\ \E b \in blocks : Max({a.level : a \in blocks}) = b.level
         /\ \A a \in blocks : a.level <= Max({b.level : b \in blocks})
         /\ \E b \in blocks : Min({a.level : a \in blocks}) = b.level
         /\ \A a \in blocks : Min({b.level : b \in blocks}) <= a.level
         /\ {Max({b.level : b \in blocks}), Min({b.level : b \in blocks})} \subseteq 0 .. c.maxLevel
         /\ \A a \in blocks : a.level \in 0 .. c.maxLevel
<1> DEFINE S == {a.level : a \in blocks}
<1>1. S \in SUBSET Nat /\ S # {} /\ c.maxLevel \in Nat /\ \A y \in S : y <= c.maxLevel
  BY SomeBlock, Levels
<1>2. (\E x \in S : \A y \in S : x >= y) /\ \E x \in S : \A y \in S : x <= y
  BY <1>1, Greatest, Least
<1>3. Max(S) \in S /\ \A y \in S : Max(S) >= y
  BY <1>2 DEF Max
<1>4. Min(S) \in S /\ \A y \in S : Min(S) <= y
  BY <1>2 DEF Min
<1>5. \A y \in S : y <= Max(S)
  BY <1>1, <1>3
<1>6. S \subseteq 0 .. c.maxLevel
  BY SomeBlock
<1> QED
  BY <1>3, <1>4, <1>5, <1>6

(* Finer cells are no wider. *)
LEMMA WidthShrinks ==
  ASSUME NEW c \in Configs, NEW i \in 0 .. c.maxLevel, NEW j \in 0 .. c.maxLevel, i <= j
  PROVE  Width(c, i) \in Nat /\ Width(c, j) \in Nat /\ Width(c, j) <= Width(c, i)
<1> DEFINE a == c.maxLevel - j
           b == j - i
<1>1. a \in Nat /\ b \in Nat /\ c.maxLevel - i = a + b
  BY Levels
<1>2. Width(c, j) = 2^a /\ Width(c, i) = 2^(a + b)
  BY <1>1 DEF Width
<1> HIDE DEF a, b
<1>3. 2^a \in Nat \ {0} /\ 2^b \in Nat \ {0} /\ 2^(a + b) = 2^a * 2^b
  BY <1>1, Power, PowerSum
<1> DEFINE P == 2^a
           Q == 2^b
<1>4. P \in Nat /\ Q \in Nat \ {0} /\ 2^(a + b) = P * Q
  BY <1>3
<1> HIDE DEF P, Q
<1>5. P * Q \in Nat /\ P <= P * Q
  BY <1>4
<1> QED
  BY <1>2, <1>4, <1>5 DEF P

(* Two coverings of the domain meet: where no block of the new mesh is the *)
(* ancestor of a finer old one, every old block has a new one inside it or *)
(* is one, and every new block is inside an old one.                       *)
LEMMA CoveringsMeet ==
  ASSUME NEW c \in Configs, NEW old, NEW new, Covering(c, old), Covering(c, new),
         ~\E b \in new : \E o \in old : o.level > b.level /\ Ancestor(o, b.level) = b
  PROVE  /\ \A o \in old : \E b \in new : o.level <= b.level
         /\ \A b \in new : \E o \in old : o.level <= b.level
<1>1. ASSUME NEW x \in Finest(c), NEW o \in old, NEW b \in new, Ancestor(x, o.level) = o, Ancestor(x, b.level) = b
      PROVE  o.level <= b.level
  <2>1. /\ x \in Locations(c) /\ x.level = c.maxLevel /\ o.level \in 0 .. x.level /\ b.level \in 0 .. x.level
        /\ c.maxLevel \in Nat
    BY Location, Levels DEF Finest, Covering
  <2> SUFFICES ASSUME o.level > b.level PROVE FALSE
    BY <2>1
  <2>2. b.level \in 0 .. o.level
    BY <2>1
  <2>3. Ancestor(Ancestor(x, o.level), b.level) = Ancestor(x, b.level)
    BY <2>1, <2>2, AncestorOfAncestor
  <2> QED
    BY <1>1, <2>3
<1>2. ASSUME NEW o \in old PROVE \E b \in new : o.level <= b.level
  <2>1. PICK x \in Finest(c) : Ancestor(x, o.level) = o
    BY BlockOverFinest DEF Covering
  <2>2. PICK b \in new : Ancestor(x, b.level) = b
    BY DEF Covering
  <2> QED
    BY <1>1, <2>1, <2>2
<1>3. ASSUME NEW b \in new PROVE \E o \in old : o.level <= b.level
  <2>1. PICK x \in Finest(c) : Ancestor(x, b.level) = b
    BY BlockOverFinest DEF Covering
  <2>2. PICK o \in old : Ancestor(x, o.level) = o
    BY DEF Covering
  <2> QED
    BY <1>1, <2>1, <2>2
<1> QED
  BY <1>2, <1>3

(* The step a covering allows is a number. *)
LEMMA StepType ==
  ASSUME config \in Configs, config.timeRefinement \in BOOLEAN, NEW blocks, Covering(config, blocks)
  PROVE  FinestStep(blocks) \in Nat /\ StableStep(blocks) \in Nat
<1>1. /\ Max({b.level : b \in blocks}) \in 0 .. config.maxLevel
      /\ Min({b.level : b \in blocks}) \in 0 .. config.maxLevel
  BY ExtremeLevels
<1>2. \A i \in 0 .. config.maxLevel : Width(config, i) \in Nat
  BY WidthShrinks, Levels
<1> QED
  BY <1>1, <1>2 DEF FinestStep, StableStep

(* A mesh that has merged no block of the old one allows no longer step. *)
LEMMA StepGrowsByMerging ==
  ASSUME config \in Configs, NEW old, NEW new, Covering(config, old), Covering(config, new),
         ~\E b \in new : \E o \in old : o.level > b.level /\ Ancestor(o, b.level) = b
  PROVE  StableStep(new) <= StableStep(old)
<1> DEFINE oldMax == Max({b.level : b \in old})
           newMax == Max({b.level : b \in new})
           oldMin == Min({b.level : b \in old})
           newMin == Min({b.level : b \in new})
<1>1. /\ {oldMax, newMax, oldMin, newMin} \subseteq 0 .. config.maxLevel
      /\ \A b \in old \cup new : b.level \in 0 .. config.maxLevel
  BY ExtremeLevels
<1> HIDE DEF oldMax, newMax, oldMin, newMin
<1>0. /\ \A o \in old : \E b \in new : o.level <= b.level
      /\ \A b \in new : \E o \in old : o.level <= b.level
  BY CoveringsMeet
<1>2. \A o \in old : \E b \in new : o.level <= b.level
  BY <1>0
<1>3. \A b \in new : \E o \in old : o.level <= b.level
  BY <1>0
<1>4. oldMax <= newMax
  <2>1. PICK o \in old : oldMax = o.level
    BY ExtremeLevels DEF oldMax
  <2>2. PICK b \in new : o.level <= b.level
    BY <1>2
  <2>3. b.level <= newMax
    BY ExtremeLevels DEF newMax
  <2> QED
    BY <1>1, <2>1, <2>2, <2>3, Levels
<1>5. oldMin <= newMin
  <2>1. PICK b \in new : newMin = b.level
    BY ExtremeLevels DEF newMin
  <2>2. PICK o \in old : o.level <= b.level
    BY <1>3
  <2>3. oldMin <= o.level
    BY ExtremeLevels DEF oldMin
  <2> QED
    BY <1>1, <2>1, <2>2, <2>3, Levels
<1>6. Width(config, newMax) <= Width(config, oldMax) /\ Width(config, newMin) <= Width(config, oldMin)
  BY <1>1, <1>4, <1>5, WidthShrinks
<1> QED
  BY <1>6 DEF StableStep, FinestStep, oldMax, newMax, oldMin, newMin
-----------------------------------------------------------------------------
(***************************************************************************)
(* Blocks that touch: a mesh on which nothing is too coarse is admissible. *)
(***************************************************************************)
(* On one axis: a block at A of N places touches one at B that is K times    *)
(* as large, perhaps across the boundary.  A step of at most one leads     *)
(* into it.                                                                *)
Sizes(A, B, M, K, w, N) ==
  /\ A \in Nat /\ B \in Nat /\ M \in Nat /\ K \in Nat \ {0} /\ w \in Nat \ {0}
  /\ N \in Nat /\ N = M * K /\ B < M /\ A < N
Meet(A, B, K, w, N, shift) ==
  /\ A * w <= (B + 1) * (K * w) + shift * (N * w)
  /\ B * (K * w) + shift * (N * w) <= (A + 1) * w
Into(A, B, K, N, s) == (A + s) % N \in 0 .. (N - 1) /\ ((A + s) % N) \div K = B

LEMMA StepInto ==
  ASSUME NEW A, NEW B, NEW M, NEW K, NEW w, NEW N, Sizes(A, B, M, K, w, N),
         NEW shift \in {-1, 0, 1}, Meet(A, B, K, w, N, shift)
  PROVE  \E s \in -1 .. 1 : Into(A, B, K, N, s) /\ (shift = 0 => A + s \in 0 .. (N - 1))
<1>0. /\ A \in Nat /\ B \in Nat /\ M \in Nat /\ K \in Nat \ {0} /\ w \in Nat \ {0}
      /\ N \in Nat /\ N = M * K /\ B < M /\ A < N
      /\ A * w <= (B + 1) * (K * w) + shift * (N * w)
      /\ B * (K * w) + shift * (N * w) <= (A + 1) * w
  BY DEF Sizes, Meet
<1> USE <1>0
<1> DEFINE X == A - shift * N
           low == B * K
<1>1. X \in Int /\ low \in Nat /\ low + K \in Nat /\ N \in Nat /\ N > 0
  BY SMT
<1>2. (B + 1) * K = low + K /\ low + K <= N
  <2>1. (B + 1) * K = low + K
    OBVIOUS
  <2>2. (B + 1) * K <= M * K
    OBVIOUS
  <2> QED
    BY <2>1, <2>2
<1>3. X <= low + K
  <2>1. (B + 1) * (K * w) = (low + K) * w /\ shift * (N * w) = (shift * N) * w
    BY SMT
  <2>2. (A - shift * N) * w = A * w - (shift * N) * w
    OBVIOUS
  <2>3. X * w <= (low + K) * w
    BY <2>1, <2>2
  <2> HIDE DEF X, low
  <2> QED
    BY <1>1, <2>3
<1>4. low <= X + 1
  <2>1. B * (K * w) = low * w /\ shift * (N * w) = (shift * N) * w
    BY SMT
  <2>2. (A + 1 - shift * N) * w = (A + 1) * w - (shift * N) * w /\ X + 1 = A + 1 - shift * N
    OBVIOUS
  <2>3. low * w <= (X + 1) * w
    BY <2>1, <2>2
  <2> HIDE DEF X, low
  <2> QED
    BY <1>1, <2>3
<1>5. X = A - shift * N
  OBVIOUS
<1> HIDE DEF X
<1> DEFINE s == IF X < low THEN 1 ELSE IF X = low + K THEN -1 ELSE 0
           spot == X + s
<1>6. s \in -1 .. 1 /\ spot \in Nat /\ low <= spot /\ spot < low + K /\ spot < N
  BY <1>1, <1>2, <1>3, <1>4
<1>7. A + s = spot + shift * N
  BY <1>1, <1>5
<1>8. spot \div K = B
  <2>1. K * B = low
    OBVIOUS
  <2> HIDE DEF low, spot
  <2> QED
    BY <1>6, <2>1, QuotientIs
<1> HIDE DEF s, spot
<1>9. (A + s) % N = spot
  <2>1. CASE shift = 0
    BY <1>1, <1>6, <1>7, <2>1
  <2>2. CASE shift = 1
    BY <1>1, <1>6, <1>7, <2>2
  <2>3. CASE shift = -1
    BY <1>1, <1>6, <1>7, <2>3
  <2> QED
    BY <2>1, <2>2, <2>3
<1>10. shift = 0 => A + s \in 0 .. (N - 1)
  BY <1>1, <1>6, <1>7
<1> QED
  BY <1>1, <1>6, <1>8, <1>9, <1>10 DEF Into

(* A coarser block that a block touches lies above one of its neighbours. *)
LEMMA NeighbourAbove ==
  ASSUME config \in Configs, NEW a \in Locations(config), NEW b \in Locations(config), b.level <= a.level,
         Touches(config, BlockBox(config, a), BlockBox(config, b))
  PROVE  \E n \in BlocksAcross(config, a) : Ancestor(n, b.level) = b
<1> DEFINE M == 2^b.level
           K == 2^(a.level - b.level)
           N == 2^a.level
           w == config.cells * 2^(config.maxLevel - a.level)
           Shifts(d) == IF config.periodic[d] THEN {-Span(config), 0, Span(config)} ELSE {0}
           Leads(d, s) == /\ (a.at[d] + s) % N \in 0 .. (N - 1) /\ ((a.at[d] + s) % N) \div K = b.at[d]
                          /\ ~config.periodic[d] => a.at[d] + s \in 0 .. (N - 1)
<1>1. /\ a.level \in Nat /\ b.level \in Nat /\ config.maxLevel \in Nat /\ a.level <= config.maxLevel
      /\ a.level - b.level \in Nat /\ config.maxLevel - a.level \in Nat /\ config.maxLevel - b.level \in Nat
      /\ a.level = b.level + (a.level - b.level)
      /\ config.maxLevel = a.level + (config.maxLevel - a.level)
      /\ config.maxLevel - b.level = (a.level - b.level) + (config.maxLevel - a.level)
      /\ b.level \in 0 .. a.level
  BY Location, Levels
<1>2. config.cells \in Nat \ {0}
  BY RegridAssumption DEF IsConfig
<1>3. M \in Nat \ {0} /\ K \in Nat \ {0} /\ N \in Nat \ {0} /\ N = M * K
  BY <1>1, Power, PowerSum
<1>4. /\ 2^(config.maxLevel - a.level) \in Nat \ {0} /\ w \in Nat \ {0}
      /\ config.cells * Width(config, a.level) = w /\ config.cells * Width(config, b.level) = K * w
      /\ Span(config) = N * w
  <2> DEFINE q == 2^(config.maxLevel - a.level)
             r == config.cells
  <2>1. q \in Nat \ {0} /\ Width(config, a.level) = q
    BY <1>1, Power DEF Width
  <2>2. Width(config, b.level) = K * q /\ Span(config) = r * (N * q)
    BY <1>1, PowerSum DEF Width, Span
  <2>3. w = r * q /\ r \in Nat \ {0}
    BY <1>2
  <2> HIDE DEF q, r, w, K, N
  <2>4. r * q \in Nat \ {0} /\ r * (K * q) = K * (r * q) /\ r * (N * q) = N * (r * q)
    BY <1>3, <2>1, <2>3
  <2> QED
    BY <2>1, <2>2, <2>3, <2>4 DEF q, r
<1>5. \A d \in Axes(config) : a.at[d] \in Nat /\ b.at[d] \in Nat /\ a.at[d] < N /\ b.at[d] < M
  BY Location
<1>6. \A d \in Axes(config) :
        /\ BlockBox(config, a).lower[d] = a.at[d] * w /\ BlockBox(config, a).upper[d] = (a.at[d] + 1) * w
        /\ BlockBox(config, b).lower[d] = b.at[d] * (K * w)
        /\ BlockBox(config, b).upper[d] = (b.at[d] + 1) * (K * w)
  BY <1>4 DEF BlockBox, Box
<1> HIDE DEF M, K, N, w
<1>7. ASSUME NEW d \in Axes(config) PROVE \E s \in -1 .. 1 : Leads(d, s)
  <2>1. PICK move \in Shifts(d) : /\ BlockBox(config, a).lower[d] <= BlockBox(config, b).upper[d] + move
                                  /\ BlockBox(config, b).lower[d] + move <= BlockBox(config, a).upper[d]
    BY DEF Touches
  <2>2. \E shift \in {-1, 0, 1} : move = shift * (N * w) /\ (~config.periodic[d] => shift = 0)
    <3>1. N * w \in Nat /\ (-1) * (N * w) = -(N * w) /\ 0 * (N * w) = 0 /\ 1 * (N * w) = N * w
      BY <1>3, <1>4
    <3> DEFINE all == N * w
    <3>2. move \in Shifts(d) /\ Span(config) = all /\ (-1) * all = -all /\ 0 * all = 0 /\ 1 * all = all
      BY <1>4, <2>1, <3>1
    <3> HIDE DEF all
    <3>3. move = 0 \/ (config.periodic[d] /\ move = all) \/ (config.periodic[d] /\ move = -all)
      BY <3>2
    <3> QED
      BY <3>2, <3>3 DEF all
  <2>3. PICK shift \in {-1, 0, 1} : move = shift * (N * w) /\ (~config.periodic[d] => shift = 0)
    BY <2>2
  <2> DEFINE A == a.at[d]
             B == b.at[d]
  <2>4. /\ A \in Nat /\ B \in Nat /\ B < M /\ A < N
        /\ A * w <= (B + 1) * (K * w) + shift * (N * w)
        /\ B * (K * w) + shift * (N * w) <= (A + 1) * w
    BY <1>5, <1>6, <2>1, <2>3
  <2> HIDE DEF A, B
  <2>5. Sizes(A, B, M, K, w, N) /\ Meet(A, B, K, w, N, shift)
    BY <1>3, <1>4, <2>4 DEF Sizes, Meet
  <2>6. \E s \in -1 .. 1 : Into(A, B, K, N, s) /\ (shift = 0 => A + s \in 0 .. (N - 1))
    BY <2>5, StepInto
  <2> QED
    BY <2>3, <2>6 DEF A, B, Into
<1> DEFINE step == [d \in Axes(config) |-> CHOOSE s \in -1 .. 1 : Leads(d, s)]
<1>8. \A d \in Axes(config) : step[d] \in -1 .. 1 /\ Leads(d, step[d])
  BY <1>7
<1>9. step \in [Axes(config) -> -1 .. 1]
  BY <1>8
<1> HIDE DEF step
<1> DEFINE n == [level |-> a.level, at |-> [d \in Axes(config) |-> (a.at[d] + step[d]) % N]]
<1>10. n \in BlocksAcross(config, a)
  <2>1. n \in Shifted(config, a, step, N)
    <3>1. ~\E d \in Axes(config) : ~config.periodic[d] /\ a.at[d] + step[d] \notin 0 .. (N - 1)
      BY <1>8
    <3>2. [a EXCEPT !.at = [d \in Axes(config) |-> (a.at[d] + step[d]) % N]] = n
      BY Location
    <3> HIDE DEF n
    <3>3. Shifted(config, a, step, N) = {n}
      <4> DEFINE moved == [d \in Axes(config) |-> a.at[d] + step[d]]
      <4>1. \A d \in Axes(config) : moved[d] = a.at[d] + step[d]
        OBVIOUS
      <4>2. [d \in Axes(config) |-> moved[d] % N] = [d \in Axes(config) |-> (a.at[d] + step[d]) % N]
        OBVIOUS
      <4>3. ~\E d \in Axes(config) : ~config.periodic[d] /\ moved[d] \notin 0 .. (N - 1)
        BY <3>1
      <4>4. Shifted(config, a, step, N) =
              IF \E d \in Axes(config) : ~config.periodic[d] /\ moved[d] \notin 0 .. (N - 1) THEN {}
              ELSE {[a EXCEPT !.at = [d \in Axes(config) |-> moved[d] % N]]}
        BY DEF Shifted
      <4> HIDE DEF moved
      <4> QED
        BY <3>2, <4>2, <4>3, <4>4
    <3> QED
      BY <3>3
  <2> HIDE DEF n
  <2> QED
    BY <1>9, <2>1 DEF BlocksAcross, N
<1>11. n \in Locations(config) /\ n.level = a.level
  <2>1. \A d \in Axes(config) : n.at[d] \in Nat /\ n.at[d] < 2^n.level
    BY <1>3, <1>8 DEF N
  <2>2. n.at \in [Axes(config) -> Nat] /\ n.level \in 0 .. config.maxLevel
    BY <1>1, <2>1
  <2>3. n \in [level : 0 .. config.maxLevel, at : [Axes(config) -> Nat]]
    BY <2>2
  <2> HIDE DEF n
  <2>4. n \in Locations(config)
    BY <2>1, <2>3 DEF Locations
  <2> QED
    BY <2>4 DEF n
<1>12. \A d \in Axes(config) : n.at[d] \div K = b.at[d]
  BY <1>8
<1> HIDE DEF n
<1>13. /\ Ancestor(n, b.level) \in Locations(config) /\ Ancestor(n, b.level).level = b.level
       /\ \A d \in Axes(config) : Ancestor(n, b.level).at[d] = n.at[d] \div 2^(n.level - b.level)
  BY <1>1, <1>11, AncestorIs
<1>14. \A d \in Axes(config) : Ancestor(n, b.level).at[d] = b.at[d]
  BY <1>11, <1>12, <1>13 DEF K
<1>15. Ancestor(n, b.level) = b
  BY <1>13, <1>14, SameLocation
<1> QED
  BY <1>10, <1>15

(* What a selection that changes nothing leaves. *)
Even(blocks) == TooCoarse(blocks) = {} /\ AtLeast(config.minimum, blocks)

LEMMA EvenIsAdmissible ==
  ASSUME config \in Configs, NEW blocks, Tiling(config, blocks), Even(blocks)
  PROVE  Admissible(blocks)
<1>0. blocks \in SUBSET Locations(config) /\ config.maxLevel \in Nat
  BY Levels DEF Tiling, Covering
<1>1. ASSUME NEW at \in [Axes(config) -> 0..(2^config.maxLevel - 1)]
      PROVE  Cardinality({b \in blocks : Ancestor([level |-> config.maxLevel, at |-> at], b.level) = b}) = 1
  <2> DEFINE x == [level |-> config.maxLevel, at |-> at]
  <2>1. x \in Finest(config)
    <3>1. 2^config.maxLevel \in Nat
      BY <1>0, Power
    <3>2. \A d \in Axes(config) : x.at[d] \in Nat /\ x.at[d] < 2^x.level
      BY <3>1
    <3>3. x.at \in [Axes(config) -> Nat] /\ x.level = config.maxLevel
      BY <3>2
    <3>4. x \in [level : 0 .. config.maxLevel, at : [Axes(config) -> Nat]]
      BY <1>0, <3>3
    <3> HIDE DEF x
    <3> QED
      BY <3>2, <3>3, <3>4 DEF Finest, Locations
  <2> HIDE DEF x
  <2>2. PICK b \in blocks : Ancestor(x, b.level) = b
    BY <2>1 DEF Tiling, Covering
  <2>3. ASSUME NEW a \in blocks, NEW c \in blocks, Ancestor(x, a.level) = a, Ancestor(x, c.level) = c,
               a.level <= c.level
        PROVE  a = c
    <3>1. a.level \in Nat /\ c.level \in Nat /\ c.level <= x.level /\ x \in Locations(config) /\ c \in Locations(config)
      BY <1>0, <2>1, Location, Levels DEF Finest
    <3>2. Ancestor(c, a.level) = a
      BY <2>3, <3>1, UnderAncestor
    <3> QED
      BY <2>3, <3>2 DEF Tiling, Disjoint
  <2>4. \A a \in blocks : Ancestor(x, a.level) = a => a = b
    <3>1. \A a \in blocks : a.level \in Nat
      BY <1>0, Location, Levels
    <3>2. \A a \in blocks : a.level <= b.level \/ b.level <= a.level
      BY <3>1
    <3> QED
      BY <2>2, <2>3, <3>2
  <2>5. {a \in blocks : Ancestor(x, a.level) = a} = {b}
    BY <2>2, <2>4
  <2>6. Cardinality({a \in blocks : Ancestor(x, a.level) = a}) = 1
    BY <2>5, FS_Singleton
  <2> QED
    BY <2>6 DEF x
<1>2. \A b \in blocks : config.minimum <= b.level /\ b.level <= config.maxLevel
  BY <1>0, Location DEF Even, AtLeast
<1>3. ASSUME NEW a \in blocks, NEW b \in blocks, Touches(config, BlockBox(config, a), BlockBox(config, b)),
             ~(a.level <= b.level + 1)
      PROVE  FALSE
  <2>1. /\ a \in Locations(config) /\ b \in Locations(config) /\ a.level \in Nat /\ b.level \in Nat
        /\ b.level <= a.level /\ b.level \in 0 .. (a.level - 2)
    BY <1>0, <1>3, Location, Levels
  <2>2. PICK n \in BlocksAcross(config, a) : Ancestor(n, b.level) = b
    BY <1>3, <2>1, NeighbourAbove
  <2>3. b \in {Ancestor(m, k) : k \in 0..(a.level - 2), m \in BlocksAcross(config, a)}
    BY <2>1, <2>2
  <2>4. b \in TooCoarse(blocks)
    BY <2>3 DEF TooCoarse
  <2> QED
    BY <2>4 DEF Even
<1>4. \A a, b \in blocks :
        Touches(config, BlockBox(config, a), BlockBox(config, b)) => a.level <= b.level + 1
  BY <1>3
<1>5. \A at \in [Axes(config) -> 0..(2^config.maxLevel - 1)] :
        Cardinality({b \in blocks : Ancestor([level |-> config.maxLevel, at |-> at], b.level) = b}) = 1
  BY <1>1, Zenon
<1> QED
  BY <1>2, <1>4, <1>5, Zenon DEF Admissible
-----------------------------------------------------------------------------
(***************************************************************************)
(* Cells that share a face: on a balanced mesh every entry of the plans is *)
(* answered from the other side, and ghost cells are at most one level     *)
(* away.                                                                   *)
(***************************************************************************)
(* The last of n places before a step of s leaves them; and places a step apart,  *)
(* across the boundary if it wraps.                                        *)
Edge(s, n) == IF s = 1 THEN n - 1 ELSE 0
Beside(X, Y, n, s, wraps) ==
  /\ X \in 0 .. (n - 1) /\ Y \in 0 .. (n - 1)
  /\ \/ Y = X + s
     \/ wraps /\ s # 0 /\ X = Edge(s, n) /\ Y = Edge(-s, n)

(* Steps and their opposites. *)
LEMMA Opposite ==
  ASSUME NEW s \in -1 .. 1
  PROVE  -s \in -1 .. 1 /\ -(-s) = s /\ (s = -1 => -s = 1) /\ (s = 1 => -s = -1) /\ (s = 0 => -s = 0) /\ (s # 0 => -s # 0)
<1>1. -s = 0 - s /\ -(-s) = s /\ (s + 1 = 0 => -s = 1)
  OBVIOUS
<1>2. s = -1 => s + 1 = 0
  OBVIOUS
<1> QED
  BY <1>1, <1>2

(* The other way the step is the opposite. *)
LEMMA BesideBack ==
  ASSUME NEW X, NEW Y, NEW n \in Nat \ {0}, NEW s \in -1 .. 1, NEW wraps, Beside(X, Y, n, s, wraps)
  PROVE  Beside(Y, X, n, -s, wraps)
<1>1. X \in 0 .. (n - 1) /\ Y \in 0 .. (n - 1) /\ -s \in -1 .. 1
  BY DEF Beside
<1>2. CASE Y = X + s
  <2>1. X = Y + (-s)
    BY <1>1, <1>2
  <2> QED
    BY <1>1, <2>1 DEF Beside
<1>3. CASE wraps /\ s # 0 /\ X = Edge(s, n) /\ Y = Edge(-s, n)
  <2>1. -s # 0 /\ -(-s) = s
    BY <1>3
  <2> QED
    BY <1>1, <1>3, <2>1 DEF Beside
<1> QED
  BY <1>2, <1>3 DEF Beside

(* A number by its block and its place in it. *)
LEMMA Remainder ==
  ASSUME NEW X \in Nat, NEW K \in Nat \ {0}
  PROVE  X \div K \in Nat /\ X % K \in 0 .. (K - 1) /\ X = K * (X \div K) + (X % K)
<1>1. X \div K \in Nat /\ X % K \in 0 .. (K - 1)
  OBVIOUS
<1>2. X = K * (X \div K) + (X % K)
  OBVIOUS
<1> QED
  BY <1>1, <1>2

Parts(X, K, q, r) == K \in Nat \ {0} /\ q \in Nat /\ r \in 0 .. (K - 1) /\ X = K * q + r
LEMMA RemainderIs ==
  ASSUME NEW X, NEW K, NEW q, NEW r, Parts(X, K, q, r)
  PROVE  X \in Nat /\ X \div K = q /\ X % K = r
<1>0. K \in Nat \ {0} /\ q \in Nat /\ r \in 0 .. (K - 1) /\ X = K * q + r
  BY DEF Parts
<1> USE <1>0
<1>1. K * q \in Nat /\ X \in Nat /\ K * q <= X /\ X < K * q + K
  OBVIOUS
<1>2. X \div K = q
  BY <1>1, QuotientIs
<1>3. X = K * (X \div K) + (X % K) /\ X % K \in 0 .. (K - 1)
  BY <1>1, Remainder
<1> QED
  BY <1>1, <1>2, <1>3

(* A place is beside the one that a step leads to. *)
LEMMA BesideIs ==
  ASSUME NEW n \in Nat \ {0}, NEW X \in 0 .. (n - 1), NEW s \in -1 .. 1, NEW wraps
  PROVE  /\ (X + s) % n \in 0 .. (n - 1)
         /\ \A Y : Beside(X, Y, n, s, wraps) <=> Y = (X + s) % n /\ (wraps \/ X + s \in 0 .. (n - 1))
<1> DEFINE Z == (X + s) % n
<1>1. Z \in 0 .. (n - 1)
  OBVIOUS
<1>2. X + s \in 0 .. (n - 1) => Z = X + s
  OBVIOUS
<1>3. s = 1 /\ X = n - 1 => Z = 0
  <2> SUFFICES ASSUME s = 1, X = n - 1 PROVE (X + s) % n = 0
    OBVIOUS
  <2>1. X + s = n * 1 + 0 /\ 1 \in Nat /\ 0 \in 0 .. (n - 1)
    OBVIOUS
  <2> QED
    BY <2>1, RemainderIs DEF Parts
<1>4. s = -1 /\ X = 0 => Z = n - 1
  OBVIOUS
<1>5. s # 0 /\ X = Edge(s, n) => Z = Edge(-s, n)
  <2>1. CASE s = 1
    <3>1. Edge(s, n) = n - 1 /\ Edge(-s, n) = 0
      BY <2>1 DEF Edge
    <3> QED
      BY <1>3, <2>1, <3>1
  <2>2. CASE s = -1
    <3>1. -s = 1 /\ s # 1
      BY <2>2, Opposite
    <3>2. Edge(s, n) = 0 /\ Edge(-s, n) = n - 1
      BY <3>1 DEF Edge
    <3> QED
      BY <1>4, <2>2, <3>2
  <2> QED
    BY <2>1, <2>2
<1>6. X \in Nat /\ n \in Nat /\ s \in Int
  OBVIOUS
<1> HIDE DEF Z
<1>7. ASSUME NEW Y PROVE Beside(X, Y, n, s, wraps) <=> Y = Z /\ (wraps \/ X + s \in 0 .. (n - 1))
  <2>1. ASSUME Beside(X, Y, n, s, wraps) PROVE Y = Z /\ (wraps \/ X + s \in 0 .. (n - 1))
    <3>1. CASE Y = X + s
      <4>1. Y \in 0 .. (n - 1)
        BY <2>1 DEF Beside
      <4> QED
        BY <1>2, <3>1, <4>1
    <3>2. CASE wraps /\ s # 0 /\ X = Edge(s, n) /\ Y = Edge(-s, n)
      BY <1>5, <3>2
    <3> QED
      BY <2>1, <3>1, <3>2 DEF Beside
  <2>2. ASSUME Y = Z, X + s \in 0 .. (n - 1) PROVE Beside(X, Y, n, s, wraps)
    BY <1>1, <1>2, <2>2 DEF Beside
  <2>3. ASSUME Y = Z, wraps, X + s \notin 0 .. (n - 1) PROVE Beside(X, Y, n, s, wraps)
    <3>1. X + s >= n \/ X + s < 0
      BY <1>6, <2>3
    <3>2. s # 0 /\ X = Edge(s, n) /\ Y = Edge(-s, n)
      <4>1. (s = 1 /\ X = n - 1) \/ (s = -1 /\ X = 0)
        BY <1>6, <3>1
      <4>2. s # 0 /\ X = Edge(s, n)
        BY <4>1 DEF Edge
      <4> QED
        BY <1>5, <2>3, <4>2
    <3> QED
      BY <1>1, <2>3, <3>2 DEF Beside
  <2> QED
    BY <2>1, <2>2, <2>3
<1> QED
  BY <1>1, <1>7 DEF Z

(* Places beside each other, in blocks of K: in the same block or at the     *)
(* edges of blocks beside each other.                                      *)
Grouped(n, K, N) == K \in Nat \ {0} /\ N \in Nat \ {0} /\ n = K * N
LEMMA BesideForward ==
  ASSUME NEW n, NEW K, NEW N, Grouped(n, K, N), NEW wraps, NEW X, NEW Y, Beside(X, Y, n, 1, wraps)
  PROVE  /\ X \div K \in 0 .. (N - 1) /\ Y \div K \in 0 .. (N - 1)
         /\ \/ /\ Beside(X \div K, Y \div K, N, 1, wraps) /\ X % K = K - 1 /\ Y % K = 0
            \/ /\ X \div K = Y \div K /\ X % K # K - 1 /\ Y % K # 0
<1>0. K \in Nat \ {0} /\ N \in Nat \ {0} /\ n = K * N
  BY DEF Grouped
<1> USE <1>0
<1> DEFINE P == X \div K
           r == X % K
<1>1. n \in Nat /\ X \in Nat /\ Y \in Nat /\ X < n /\ Y < n
  BY DEF Beside
<1>2. P \in Nat /\ r \in 0 .. (K - 1) /\ X = K * P + r /\ K * P \in Nat
  <2>1. P \in Nat /\ r \in 0 .. (K - 1) /\ X = K * P + r
    BY <1>1, Remainder
  <2> HIDE DEF P, r
  <2> QED
    BY <2>1
<1>3. Y = X + 1 \/ (wraps /\ X = n - 1 /\ Y = 0)
  BY DEF Beside, Edge
<1> HIDE DEF P, r
<1>4. P < N
  <2> SUFFICES ASSUME N <= P PROVE FALSE
    BY <1>2
  <2>1. K * N <= K * P
    BY <1>2
  <2> QED
    BY <1>1, <1>2, <2>1
<1>5. CASE r # K - 1
  <2>2. Y = X + 1
    <3>1. X # n - 1
      <4> SUFFICES ASSUME K * P + r = K * N - 1 PROVE FALSE
        BY <1>1, <1>2
      <4>1. P + 1 \in Nat /\ P + 1 <= N
        BY <1>2, <1>4
      <4>2. K * (P + 1) <= K * N /\ K * (P + 1) = K * P + K /\ K * N \in Nat
        BY <4>1, <1>2
      <4> QED
        BY <1>2, <1>5, <4>2
    <3> QED
      BY <1>3, <3>1
  <2>3. Y = K * P + (r + 1) /\ r + 1 \in 0 .. (K - 1)
    BY <1>2, <1>5, <2>2
  <2>4. Y \div K = P /\ Y % K = r + 1
    BY <1>2, <2>3, RemainderIs DEF Parts
  <2>5. Y % K # 0
    BY <1>2, <2>4
  <2> QED
    BY <1>2, <1>4, <1>5, <2>4, <2>5 DEF P, r
<1>6. CASE r = K - 1
  <2>1. K * (P + 1) = K * P + K /\ X = K * (P + 1) - 1 /\ K * (P + 1) \in Nat
    BY <1>2, <1>6
  <2>2. CASE Y = X + 1
    <3>1. Y = K * (P + 1) + 0 /\ P + 1 \in Nat /\ 0 \in 0 .. (K - 1)
      BY <1>2, <2>1, <2>2
    <3>2. Y \div K = P + 1 /\ Y % K = 0
      BY <3>1, RemainderIs DEF Parts
    <3>3. P + 1 < N
      <4> SUFFICES ASSUME N <= P + 1 PROVE FALSE
        BY <1>2
      <4>1. K * N <= K * (P + 1)
        BY <1>2
      <4> QED
        BY <1>1, <2>1, <2>2, <4>1
    <3>4. Beside(P, P + 1, N, 1, wraps)
      BY <1>2, <1>4, <3>3 DEF Beside
    <3>5. X \div K = P /\ X % K = r
      BY DEF P, r
    <3> QED
      BY <1>2, <1>4, <1>6, <3>2, <3>3, <3>4, <3>5
  <2>3. CASE wraps /\ X = n - 1 /\ Y = 0
    <3>1. Y = K * 0 + 0 /\ 0 \in Nat /\ 0 \in 0 .. (K - 1)
      BY <2>3
    <3>2. Y \div K = 0 /\ Y % K = 0
      BY <3>1, RemainderIs DEF Parts
    <3>3. P + 1 = N
      <4>1. K * (P + 1) = K * N
        BY <1>1, <2>1, <2>3
      <4> QED
        BY <1>2, <4>1
    <3>4. Beside(P, 0, N, 1, wraps)
      <4>1. P = Edge(1, N) /\ 0 = Edge(-1, N) /\ P \in 0 .. (N - 1) /\ 0 \in 0 .. (N - 1)
        BY <1>2, <3>3 DEF Edge
      <4> QED
        BY <2>3, <4>1 DEF Beside
    <3>5. X \div K = P /\ X % K = r /\ 0 \in 0 .. (N - 1)
      BY DEF P, r
    <3> QED
      BY <1>2, <1>4, <1>6, <3>2, <3>4, <3>5
  <2> QED
    BY <1>3, <2>2, <2>3
<1> QED
  BY <1>5, <1>6

LEMMA BesideQuotient ==
  ASSUME NEW n, NEW K, NEW N, Grouped(n, K, N), NEW s \in {-1, 1}, NEW wraps, NEW X, NEW Y,
         Beside(X, Y, n, s, wraps)
  PROVE  /\ X \div K \in 0 .. (N - 1) /\ Y \div K \in 0 .. (N - 1)
         /\ \/ /\ Beside(X \div K, Y \div K, N, s, wraps) /\ X % K = Edge(s, K) /\ Y % K = Edge(-s, K)
            \/ /\ X \div K = Y \div K /\ X % K # Edge(s, K) /\ Y % K # Edge(-s, K)
<1>1. CASE s = 1
  <2>1. Edge(s, K) = K - 1 /\ Edge(-s, K) = 0 /\ Beside(X, Y, n, 1, wraps)
    BY <1>1 DEF Edge
  <2> QED
    BY <1>1, <2>1, BesideForward
<1>2. CASE s = -1
  <2>0. -s = 1 /\ s \in -1 .. 1 /\ s # 1
    BY <1>2, Opposite
  <2>1. Edge(s, K) = 0 /\ Edge(-s, K) = K - 1 /\ n \in Nat \ {0} /\ -s = 1 /\ s \in -1 .. 1
    BY <2>0 DEF Edge, Grouped
  <2>2. Beside(Y, X, n, 1, wraps)
    BY <2>1, BesideBack
  <2>3. /\ Y \div K \in 0 .. (N - 1) /\ X \div K \in 0 .. (N - 1)
        /\ \/ /\ Beside(Y \div K, X \div K, N, 1, wraps) /\ Y % K = K - 1 /\ X % K = 0
           \/ /\ Y \div K = X \div K /\ Y % K # K - 1 /\ X % K # 0
    BY <2>2, BesideForward
  <2> DEFINE P == X \div K
             Q == Y \div K
  <2>4. CASE Beside(Y \div K, X \div K, N, 1, wraps) /\ Y % K = K - 1 /\ X % K = 0
    <3>1. Beside(Q, P, N, 1, wraps) /\ N \in Nat \ {0} /\ 1 \in -1 .. 1
      BY <2>4 DEF Grouped
    <3> HIDE DEF P, Q
    <3>2. Beside(P, Q, N, -1, wraps)
      BY <3>1, BesideBack
    <3> QED
      BY <1>2, <2>1, <2>3, <2>4, <3>2 DEF P, Q
  <2> QED
    BY <2>1, <2>3, <2>4
<1> QED
  BY <1>1, <1>2

(* Blocks beside each other have places at their edges that are.           *)
LEMMA BesideProduct ==
  ASSUME NEW K \in Nat \ {0}, NEW N \in Nat \ {0}, NEW s \in -1 .. 1, NEW wraps, NEW P, NEW Q,
         Beside(P, Q, N, s, wraps)
  PROVE  Beside(K * P + Edge(s, K), K * Q + Edge(-s, K), K * N, s, wraps)
<1>1. P \in Nat /\ Q \in Nat /\ P <= N - 1 /\ Q <= N - 1
  BY DEF Beside
<1>2. /\ K * P \in Nat /\ K * Q \in Nat /\ K * N \in Nat
      /\ K * P <= K * N - K /\ K * Q <= K * N - K
  <2>1. K * (N - 1) = K * N - K /\ N - 1 \in Nat
    OBVIOUS
  <2>2. K * P <= K * (N - 1) /\ K * Q <= K * (N - 1)
    BY <1>1
  <2> QED
    BY <1>1, <2>1, <2>2
<1>3. Edge(s, K) \in 0 .. (K - 1) /\ Edge(-s, K) \in 0 .. (K - 1)
  BY DEF Edge
<1> DEFINE X == K * P + Edge(s, K)
           Y == K * Q + Edge(-s, K)
<1>4. X \in 0 .. (K * N - 1) /\ Y \in 0 .. (K * N - 1)
  BY <1>2, <1>3
<1>5. CASE Q = P + s
  <2>1. K * Q = K * P + K * s
    BY <1>1, <1>5
  <2>2. K * s + Edge(-s, K) = Edge(s, K) + s
    <3>1. CASE s = 1
      BY <3>1 DEF Edge
    <3>2. CASE s = -1
      <4>1. -s = 1 /\ s # 1
        BY <3>2, Opposite
      <4>2. Edge(s, K) = 0 /\ Edge(-s, K) = K - 1
        BY <4>1 DEF Edge
      <4> QED
        BY <3>2, <4>2
    <3>3. CASE s = 0
      BY <3>3 DEF Edge
    <3> QED
      BY <3>1, <3>2, <3>3
  <2>3. Y = X + s
    BY <1>2, <1>3, <2>1, <2>2
  <2> HIDE DEF X, Y
  <2> QED
    BY <1>4, <2>3 DEF Beside, X, Y
<1>6. CASE wraps /\ s # 0 /\ P = Edge(s, N) /\ Q = Edge(-s, N)
  <2>1. X = Edge(s, K * N) /\ Y = Edge(-s, K * N)
    <3>1. K * (N - 1) = K * N - K /\ K * 0 = 0
      OBVIOUS
    <3>2. CASE s = 1
      BY <1>2, <1>6, <3>1, <3>2 DEF Edge
    <3>3. CASE s = -1
      BY <1>2, <1>6, <3>1, <3>3 DEF Edge
    <3> QED
      BY <1>6, <3>2, <3>3
  <2> HIDE DEF X, Y
  <2> QED
    BY <1>4, <1>6, <2>1 DEF Beside, X, Y
<1> QED
  BY <1>5, <1>6 DEF Beside

(* The half of a cell at the edge of its block that is at the edge too.     *)
LEMMA HalfAtEdge ==
  ASSUME NEW C \in Nat \ {0}, NEW X \in Nat, NEW s \in {-1, 1}, X % C = Edge(s, C)
  PROVE  (2 * X + Edge(s, 2)) % C = Edge(s, C)
<1> DEFINE P == X \div C
           Z == 2 * X + Edge(s, 2)
<1>1. P \in Nat /\ X = C * P + Edge(s, C)
  BY Remainder
<1> HIDE DEF P
<1>2. CASE s = 1
  <2>1. C * (2 * P + 1) = 2 * (C * P) + C /\ C * P \in Nat /\ 2 * P + 1 \in Nat
    BY <1>1
  <2>2. Z = C * (2 * P + 1) + (C - 1) /\ C - 1 \in 0 .. (C - 1)
    BY <1>1, <1>2, <2>1 DEF Edge
  <2> HIDE DEF Z
  <2>3. Z % C = C - 1
    BY <2>1, <2>2, RemainderIs DEF Parts
  <2> QED
    BY <1>2, <2>3 DEF Z, Edge
<1>3. CASE s = -1
  <2>1. C * (2 * P) = 2 * (C * P) /\ C * P \in Nat /\ 2 * P \in Nat
    BY <1>1
  <2> DEFINE q == 2 * P
  <2>2. Z = C * q + 0 /\ 0 \in 0 .. (C - 1) /\ q \in Nat
    BY <1>1, <1>3, <2>1 DEF Edge
  <2> HIDE DEF Z, q
  <2>3. Z % C = 0
    BY <2>2, RemainderIs DEF Parts
  <2> QED
    BY <1>3, <2>3 DEF Z, Edge
<1> QED
  BY <1>2, <1>3

(* Two ghost layers reach halfway into the next block at most: a half of a   *)
(* ghost cell is in a half block beside one of the block's halves.         *)
LEMMA GhostBeside ==
  ASSUME NEW C \in Nat, C >= 4, NEW N \in Nat \ {0}, NEW wraps, NEW B \in 0 .. (N - 1), NEW i \in -2 .. (C + 1),
         wraps \/ C * B + i \in 0 .. (C * N - 1), NEW t \in {0, 1}
  PROVE  LET q == (2 * ((C * B + i) % (C * N)) + t) \div C
         IN \E T \in Nat : T \div 2 = B /\ \E s \in -1 .. 1 : Beside(T, q, 2 * N, s, wraps)
<1> DEFINE all == C * N
           base == C * B
           G == (base + i) % all
           Q == 2 * G + t
<1>1. all \in Nat /\ base \in Nat /\ base <= all - C /\ all >= C /\ 2 * base = C * (2 * B) /\ 2 * all = C * (2 * N)
  <2>1. C * (N - 1) = C * N - C /\ C * B \in Nat /\ C * N \in Nat /\ N - 1 \in Nat
    OBVIOUS
  <2>2. C * B <= C * (N - 1) /\ 0 <= C * (N - 1)
    BY <2>1
  <2>3. 2 * (C * B) = C * (2 * B) /\ 2 * (C * N) = C * (2 * N)
    OBVIOUS
  <2> QED
    BY <2>1, <2>2, <2>3
<1>2. wraps \/ base + i \in 0 .. (all - 1)
  OBVIOUS
<1>3. /\ base + i \in 0 .. (all - 1) => G = base + i
      /\ base + i >= all => G = base + i - all
      /\ base + i < 0 => G = base + i + all
  <2> HIDE DEF all, base
  <2>1. all \in Nat \ {0} /\ base + i \in Int /\ base + i < 2 * all /\ base + i >= -all
    BY <1>1
  <2>2. base + i \in 0 .. (all - 1) => G = base + i
    BY <2>1
  <2>3. ASSUME base + i >= all PROVE G = base + i - all
    <3>1. base + i = all * 1 + (base + i - all) /\ 1 \in Nat /\ base + i - all \in 0 .. (all - 1)
      BY <1>1, <2>1, <2>3
    <3> DEFINE r == base + i - all
    <3> HIDE DEF r
    <3>2. Parts(base + i, all, 1, r)
      BY <2>1, <3>1 DEF Parts, r
    <3> QED
      BY <3>2, RemainderIs DEF r
  <2>4. base + i < 0 => G = base + i + all
    BY <2>1
  <2> QED
    BY <2>2, <2>3, <2>4
<1> DEFINE Found == \E T \in Nat : T \div 2 = B /\ \E s \in -1 .. 1 : Beside(T, Q \div C, 2 * N, s, wraps)
<1> SUFFICES Found
  OBVIOUS
<1> HIDE DEF G
<1>4. /\ B \in Nat /\ N \in Nat /\ B <= N - 1
      /\ B = 0 => base = 0
      /\ B # 0 => base >= C
      /\ B = N - 1 => base = all - C
      /\ B # N - 1 => base <= all - 2 * C
  <2>1. B \in Nat /\ N \in Nat /\ B <= N - 1
    OBVIOUS
  <2>2. /\ C * (B - 1) = base - C /\ C * (B + 1) = base + C /\ C * (N - 1) = all - C /\ C * 0 = 0
        /\ base \in Nat /\ all \in Nat
    BY <1>1
  <2>3. B # 0 => C * 0 <= C * (B - 1)
    <3>1. B # 0 => 0 <= B - 1 /\ B - 1 \in Nat
      BY <2>1
    <3> QED
      BY <2>1, <3>1
  <2>4. B # N - 1 => C * (B + 1) <= C * (N - 1)
    <3>1. B # N - 1 => B + 1 <= N - 1 /\ N - 1 \in Nat /\ B + 1 \in Nat
      BY <2>1
    <3> QED
      BY <2>1, <3>1
  <2>5. /\ B = 0 => base = 0
        /\ B = N - 1 => base = all - C
    BY <2>2
  <2> QED
    BY <2>1, <2>2, <2>3, <2>4, <2>5
<1> HIDE DEF base, all
<1>5. ASSUME NEW q \in Nat, NEW r, Q = C * q + r, r \in 0 .. (C - 1) PROVE Q \div C = q
  BY <1>5, RemainderIs DEF Parts
<1>6. CASE i \in 0 .. (C - 1)
  <2>1. G = base + i
    BY <1>1, <1>3, <1>6
  <2> DEFINE half == IF 2 * i + t < C THEN 2 * B ELSE 2 * B + 1
             rest == IF 2 * i + t < C THEN 2 * i + t ELSE 2 * i + t - C
  <2>2. C * (2 * B + 1) = C * (2 * B) + C
    BY <1>4
  <2>3. Q = C * half + rest /\ rest \in 0 .. (C - 1) /\ half \in Nat
    BY <1>1, <1>4, <1>6, <2>1, <2>2
  <2>4. half \div 2 = B /\ half \in 0 .. (2 * N - 1)
    BY <1>4
  <2> HIDE DEF half, rest
  <2>5. Q \div C = half
    BY <1>5, <2>3
  <2> HIDE DEF Q
  <2>6. half = half + 0 /\ 0 \in -1 .. 1
    BY <2>3
  <2>7. Beside(half, half, 2 * N, 0, wraps)
    BY <2>4, <2>6 DEF Beside
  <2>8. Beside(half, Q \div C, 2 * N, 0, wraps)
    BY <2>5, <2>7
  <2> QED
    BY <2>3, <2>4, <2>6, <2>8, Zenon
<1>7. CASE i < 0
  <2>1. C * (2 * B - 1) = C * (2 * B) - C /\ C * (2 * N - 1) = C * (2 * N) - C
    BY <1>4
  <2> DEFINE rest == C + 2 * i + t
             q == IF B = 0 THEN 2 * N - 1 ELSE 2 * B - 1
  <2>2. rest \in 0 .. (C - 1) /\ q \in Nat /\ q \in 0 .. (2 * N - 1) /\ 2 * B \in 0 .. (2 * N - 1)
    BY <1>4, <1>7
  <2>3. Q = C * q + rest /\ (B = 0 => wraps)
    <3>1. CASE B = 0
      <4>1. base + i < 0 /\ wraps
        BY <1>1, <1>2, <1>4, <1>7, <3>1
      <4> QED
        BY <1>1, <1>3, <1>4, <2>1, <3>1, <4>1
    <3>2. CASE B # 0
      <4>1. base + i \in 0 .. (all - 1)
        BY <1>1, <1>4, <1>7, <3>2
      <4> QED
        BY <1>1, <1>3, <1>4, <2>1, <3>2, <4>1
    <3> QED
      BY <3>1, <3>2
  <2>4. q = 2 * B + (-1) \/ (2 * B = Edge(-1, 2 * N) /\ q = 2 * N - 1 /\ B = 0)
    BY <1>4 DEF Edge
  <2> HIDE DEF rest, q, Q
  <2>5. Q \div C = q
    BY <1>5, <2>2, <2>3
  <2> DEFINE s == -1
  <2>6. -s = 1 /\ s # 0 /\ s \in -1 .. 1 /\ s = -1
    BY Opposite
  <2> HIDE DEF s
  <2>7. Edge(-s, 2 * N) = 2 * N - 1
    BY <2>6 DEF Edge
  <2>8. Beside(2 * B, q, 2 * N, s, wraps)
    BY <2>2, <2>3, <2>4, <2>6, <2>7 DEF Beside
  <2>9. (2 * B) \div 2 = B /\ 2 * B \in Nat
    BY <1>4
  <2>10. Beside(2 * B, Q \div C, 2 * N, s, wraps)
    BY <2>5, <2>8
  <2> QED
    BY <2>6, <2>9, <2>10, Zenon
<1>8. CASE i >= C
  <2>1. C * (2 * B + 2) = C * (2 * B) + C + C /\ C * 0 = 0
    BY <1>4
  <2> DEFINE rest == 2 * (i - C) + t
             q == IF B = N - 1 THEN 0 ELSE 2 * B + 2
             T == 2 * B + 1
  <2>2. rest \in 0 .. (C - 1) /\ q \in Nat /\ q \in 0 .. (2 * N - 1) /\ T \in 0 .. (2 * N - 1)
    BY <1>4, <1>8
  <2>3. Q = C * q + rest /\ (B = N - 1 => wraps)
    <3>1. CASE B = N - 1
      <4>1. base + i >= all /\ wraps
        BY <1>1, <1>2, <1>4, <1>8, <3>1
      <4> QED
        BY <1>1, <1>3, <1>4, <2>1, <3>1, <4>1
    <3>2. CASE B # N - 1
      <4>1. base + i \in 0 .. (all - 1)
        BY <1>1, <1>4, <1>8, <3>2
      <4> QED
        BY <1>1, <1>3, <1>4, <2>1, <3>2, <4>1
    <3> QED
      BY <3>1, <3>2
  <2>4. q = T + 1 \/ (T = 2 * N - 1 /\ q = 0 /\ B = N - 1)
    BY <1>4
  <2>5. T \div 2 = B /\ T \in Nat
    BY <1>4
  <2> HIDE DEF rest, q, Q, T
  <2>6. Q \div C = q
    BY <1>5, <2>2, <2>3
  <2>7. Edge(1, 2 * N) = 2 * N - 1 /\ Edge(-1, 2 * N) = 0 /\ 1 \in -1 .. 1 /\ 1 # 0
    BY DEF Edge
  <2>8. Beside(T, q, 2 * N, 1, wraps)
    BY <2>2, <2>3, <2>4, <2>7 DEF Beside
  <2>9. Beside(T, Q \div C, 2 * N, 1, wraps)
    BY <2>6, <2>8
  <2> QED
    BY <2>5, <2>7, <2>9, Zenon
<1>9. i \in 0 .. (C - 1) \/ i < 0 \/ i >= C
  OBVIOUS
<1> QED
  BY <1>6, <1>7, <1>8, <1>9, Zenon
(* Blocks or cells on a grid of count places per axis, and the places a step *)
(* leads to.                                                               *)
OnGrid(c, x, count) ==
  /\ x = [level |-> x.level, at |-> x.at] /\ x.at \in [Axes(c) -> Nat]
  /\ \A d \in Axes(c) : x.at[d] < count

LEMMA ShiftedIs ==
  ASSUME NEW c, NEW count \in Nat \ {0}, NEW u, OnGrid(c, u, count), NEW step \in [Axes(c) -> -1 .. 1], NEW v
  PROVE  v \in Shifted(c, u, step, count) <=>
           /\ v.level = u.level /\ OnGrid(c, v, count)
           /\ \A d \in Axes(c) : Beside(u.at[d], v.at[d], count, step[d], c.periodic[d])
<1> DEFINE moved == [d \in Axes(c) |-> u.at[d] + step[d]]
           there == [level |-> u.level, at |-> [d \in Axes(c) |-> moved[d] % count]]
           Leaves == \E d \in Axes(c) : ~c.periodic[d] /\ moved[d] \notin 0 .. (count - 1)
<1>1. Shifted(c, u, step, count) = IF Leaves THEN {} ELSE {there}
  <2>1. u = [level |-> u.level, at |-> u.at]
    BY DEF OnGrid
  <2>2. [u EXCEPT !.at = [d \in Axes(c) |-> moved[d] % count]] = there
    BY <2>1
  <2>3. Shifted(c, u, step, count) = IF Leaves THEN {} ELSE {[u EXCEPT !.at = [d \in Axes(c) |-> moved[d] % count]]}
    BY DEF Shifted
  <2> HIDE DEF there, Leaves, moved
  <2> QED
    BY <2>2, <2>3
<1>2. ASSUME NEW d \in Axes(c)
      PROVE  /\ u.at[d] \in 0 .. (count - 1) /\ step[d] \in -1 .. 1 /\ moved[d] = u.at[d] + step[d]
             /\ moved[d] % count \in 0 .. (count - 1)
             /\ \A Y : Beside(u.at[d], Y, count, step[d], c.periodic[d]) <=>
                         Y = moved[d] % count /\ (c.periodic[d] \/ moved[d] \in 0 .. (count - 1))
  <2>1. u.at[d] \in 0 .. (count - 1) /\ step[d] \in -1 .. 1 /\ moved[d] = u.at[d] + step[d]
    BY DEF OnGrid
  <2> DEFINE X == u.at[d]
             s == step[d]
  <2>2. X \in 0 .. (count - 1) /\ s \in -1 .. 1 /\ moved[d] = X + s
    BY <2>1
  <2> HIDE DEF X, s, moved
  <2>3. /\ (X + s) % count \in 0 .. (count - 1)
        /\ \A Y : Beside(X, Y, count, s, c.periodic[d]) <=>
                    Y = (X + s) % count /\ (c.periodic[d] \/ X + s \in 0 .. (count - 1))
    BY <2>2, BesideIs
  <2>4. /\ moved[d] % count \in 0 .. (count - 1)
        /\ \A Y : Beside(X, Y, count, s, c.periodic[d]) <=>
                    Y = moved[d] % count /\ (c.periodic[d] \/ moved[d] \in 0 .. (count - 1))
    BY <2>2, <2>3
  <2> QED
    BY <2>1, <2>4 DEF X, s
<1> HIDE DEF moved
<1>3. there.level = u.level /\ OnGrid(c, there, count) /\ \A d \in Axes(c) : there.at[d] = moved[d] % count
  <2>1. \A d \in Axes(c) : there.at[d] \in Nat /\ there.at[d] < count /\ there.at[d] = moved[d] % count
    BY <1>2
  <2>2. there.at \in [Axes(c) -> Nat] /\ there = [level |-> there.level, at |-> there.at]
    BY <2>1
  <2> QED
    BY <2>1, <2>2 DEF OnGrid
<1> HIDE DEF there
<1>4. ASSUME v \in Shifted(c, u, step, count)
      PROVE  /\ v.level = u.level /\ OnGrid(c, v, count)
             /\ \A d \in Axes(c) : Beside(u.at[d], v.at[d], count, step[d], c.periodic[d])
  <2>1. ~Leaves /\ v = there
    BY <1>1, <1>4
  <2> QED
    BY <1>2, <1>3, <2>1
<1>5. ASSUME v.level = u.level, OnGrid(c, v, count),
             \A d \in Axes(c) : Beside(u.at[d], v.at[d], count, step[d], c.periodic[d])
      PROVE  v \in Shifted(c, u, step, count)
  <2>1. ~Leaves /\ \A d \in Axes(c) : v.at[d] = there.at[d]
    BY <1>2, <1>3, <1>5
  <2>2. v.at = there.at
    BY <1>3, <1>5, <2>1 DEF OnGrid
  <2>3. v = there
    BY <1>3, <1>5, <2>2 DEF OnGrid
  <2> QED
    BY <1>1, <2>1, <2>3
<1> QED
  BY <1>4, <1>5, Zenon

(* Blocks of a level that are the same or touch. *)
Close(u, v) ==
  /\ u.level = v.level
  /\ \A d \in Axes(config) : \E s \in -1 .. 1 : Beside(u.at[d], v.at[d], 2^u.level, s, config.periodic[d])

(* They are neighbours, each of the other. *)
LEMMA CloseAcross ==
  ASSUME config \in Configs, NEW u \in Locations(config), NEW v \in Locations(config), Close(u, v)
  PROVE  v \in BlocksAcross(config, u)
<1> DEFINE count == 2^u.level
           Leads(d, s) == Beside(u.at[d], v.at[d], count, s, config.periodic[d])
           step == [d \in Axes(config) |-> CHOOSE s \in -1 .. 1 : Leads(d, s)]
<1>1. count \in Nat \ {0} /\ OnGrid(config, u, count) /\ OnGrid(config, v, count) /\ u.level = v.level
  <2>1. u.level \in Nat /\ u.level = v.level
    BY Location, Levels DEF Close
  <2>2. /\ u = [level |-> u.level, at |-> u.at] /\ u.at \in [Axes(config) -> Nat]
        /\ v = [level |-> v.level, at |-> v.at] /\ v.at \in [Axes(config) -> Nat]
        /\ \A d \in Axes(config) : u.at[d] < 2^u.level /\ v.at[d] < 2^v.level
    BY Location
  <2> QED
    BY <2>1, <2>2, Power DEF OnGrid
<1>2. \A d \in Axes(config) : \E s \in -1 .. 1 : Leads(d, s)
  BY DEF Close
<1> HIDE DEF Leads
<1>3. \A d \in Axes(config) : step[d] \in -1 .. 1 /\ Leads(d, step[d])
  BY <1>2
<1>4. step \in [Axes(config) -> -1 .. 1]
  BY <1>3
<1> HIDE DEF step, count
<1>5. v \in Shifted(config, u, step, count)
  BY <1>1, <1>3, <1>4, ShiftedIs DEF Leads
<1> QED
  BY <1>4, <1>5 DEF BlocksAcross, count

(* Touching goes both ways. *)
LEMMA CloseBack ==
  ASSUME config \in Configs, NEW u \in Locations(config), NEW v, Close(u, v)
  PROVE  Close(v, u)
<1>1. u.level = v.level /\ 2^u.level \in Nat \ {0}
  BY Location, Levels, Power DEF Close
<1>2. ASSUME NEW d \in Axes(config)
      PROVE  \E s \in -1 .. 1 : Beside(v.at[d], u.at[d], 2^v.level, s, config.periodic[d])
  <2>1. PICK s \in -1 .. 1 : Beside(u.at[d], v.at[d], 2^u.level, s, config.periodic[d])
    BY DEF Close
  <2>2. -s \in -1 .. 1
    BY Opposite
  <2>3. Beside(v.at[d], u.at[d], 2^u.level, -s, config.periodic[d])
    BY <1>1, <2>1, BesideBack
  <2> QED
    BY <1>1, <2>2, <2>3
<1> QED
  BY <1>1, <1>2 DEF Close

(* The blocks of the places there are. *)
LEMMA QuotientBelow ==
  ASSUME NEW n, NEW K, NEW N, Grouped(n, K, N), NEW X \in Nat, X < n
  PROVE  X \div K \in Nat /\ X \div K < N
<1> DEFINE P == X \div K
<1>1. P \in Nat /\ K * P <= X /\ n \in Nat
  BY Quotient DEF Grouped
<1> HIDE DEF P
<1>2. ~(N <= P)
  <2> SUFFICES ASSUME N <= P PROVE FALSE
    OBVIOUS
  <2>1. K * N <= K * P /\ K * N \in Nat /\ K * P \in Nat /\ n = K * N
    BY <1>1 DEF Grouped
  <2> QED
    BY <1>1, <2>1
<1> QED
  BY <1>1, <1>2 DEF P, Grouped

(* One axis: what touches is in blocks that touch. *)
LEMMA BesideAbove ==
  ASSUME NEW n, NEW K, NEW N, Grouped(n, K, N), NEW s \in -1 .. 1, NEW wraps, NEW X, NEW Y, Beside(X, Y, n, s, wraps)
  PROVE  \E t \in -1 .. 1 : Beside(X \div K, Y \div K, N, t, wraps)
<1> DEFINE P == X \div K
           Q == Y \div K
<1>1. CASE s = 0
  <2>1. X \in Nat /\ Y = X /\ X < n /\ n \in Nat /\ 0 \in -1 .. 1
    BY <1>1 DEF Beside, Grouped
  <2>2. P \in 0 .. (N - 1)
    BY <2>1, QuotientBelow DEF Grouped
  <2>3. Q = P /\ Q = P + 0
    BY <2>1, <2>2
  <2> HIDE DEF P, Q
  <2>4. Beside(P, Q, N, 0, wraps)
    BY <2>2, <2>3 DEF Beside
  <2> QED
    BY <2>1, <2>4 DEF P, Q
<1>2. CASE s \in {-1, 1}
  <2>1. P \in 0 .. (N - 1) /\ (Beside(P, Q, N, s, wraps) \/ P = Q)
    BY <1>2, BesideQuotient
  <2> HIDE DEF P, Q
  <2>2. P = Q => Beside(P, Q, N, 0, wraps)
    BY <2>1 DEF Beside
  <2>3. 0 \in -1 .. 1
    OBVIOUS
  <2> QED
    BY <2>1, <2>2, <2>3 DEF P, Q
<1> QED
  BY <1>1, <1>2

(* The blocks over two that touch are the same or touch. *)
LEMMA CloseAbove ==
  ASSUME config \in Configs, NEW u \in Locations(config), NEW v \in Locations(config), Close(u, v),
         NEW k \in 0 .. u.level
  PROVE  Close(Ancestor(u, k), Ancestor(v, k))
<1> DEFINE K == 2^(u.level - k)
<1>1. u.level = v.level /\ u.level \in Nat /\ k \in Nat /\ u.level - k \in Nat /\ u.level = (u.level - k) + k
  BY Location, Levels DEF Close
<1>2. Grouped(2^u.level, K, 2^k)
  BY <1>1, Power, PowerSum DEF Grouped
<1>3. /\ Ancestor(u, k).level = k /\ Ancestor(v, k).level = k
      /\ \A d \in Axes(config) : Ancestor(u, k).at[d] = u.at[d] \div K /\ Ancestor(v, k).at[d] = v.at[d] \div K
  BY <1>1, AncestorIs
<1> HIDE DEF K
<1>4. ASSUME NEW d \in Axes(config)
      PROVE  \E t \in -1 .. 1 : Beside(Ancestor(u, k).at[d], Ancestor(v, k).at[d], 2^k, t, config.periodic[d])
  <2>1. PICK s \in -1 .. 1 : Beside(u.at[d], v.at[d], 2^u.level, s, config.periodic[d])
    BY DEF Close
  <2> QED
    BY <1>2, <1>3, <2>1, BesideAbove
<1> QED
  BY <1>3, <1>4 DEF Close

(* Blocks that touch have finest cells that touch. *)
LEMMA CloseBelow ==
  ASSUME config \in Configs, NEW u \in Locations(config), NEW v \in Locations(config), Close(u, v)
  PROVE  \E x, y \in Finest(config) : Ancestor(x, u.level) = u /\ Ancestor(y, v.level) = v /\ Close(x, y)
<1> DEFINE K == 2^(config.maxLevel - u.level)
           N == 2^u.level
           most == 2^config.maxLevel
           Leads(d, s) == Beside(u.at[d], v.at[d], N, s, config.periodic[d])
           step == [d \in Axes(config) |-> CHOOSE s \in -1 .. 1 : Leads(d, s)]
           x == [level |-> config.maxLevel, at |-> [d \in Axes(config) |-> K * u.at[d] + Edge(step[d], K)]]
           y == [level |-> config.maxLevel, at |-> [d \in Axes(config) |-> K * v.at[d] + Edge(-step[d], K)]]
<1>1. /\ u.level = v.level /\ u.level \in Nat /\ config.maxLevel \in Nat /\ config.maxLevel - u.level \in Nat
      /\ config.maxLevel = (config.maxLevel - u.level) + u.level /\ u.level \in 0 .. config.maxLevel
      /\ config.maxLevel \in 0 .. config.maxLevel
  BY Location, Levels DEF Close
<1>2. K \in Nat \ {0} /\ N \in Nat \ {0} /\ most \in Nat /\ most = K * N
  BY <1>1, Power, PowerSum
<1>3. \A d \in Axes(config) : \E s \in -1 .. 1 : Leads(d, s)
  BY DEF Close
<1> HIDE DEF Leads
<1>4. \A d \in Axes(config) : step[d] \in -1 .. 1 /\ Leads(d, step[d])
  BY <1>3
<1> HIDE DEF K, N, most, step
<1>5. ASSUME NEW d \in Axes(config)
      PROVE  /\ x.at[d] \in Nat /\ x.at[d] < most /\ x.at[d] \div K = u.at[d]
             /\ y.at[d] \in Nat /\ y.at[d] < most /\ y.at[d] \div K = v.at[d]
             /\ Beside(x.at[d], y.at[d], most, step[d], config.periodic[d])
  <2> DEFINE X == x.at[d]
             Y == y.at[d]
             s == step[d]
  <2>1. s \in -1 .. 1 /\ Beside(u.at[d], v.at[d], N, s, config.periodic[d])
    BY <1>4 DEF Leads
  <2>2. X = K * u.at[d] + Edge(s, K) /\ Y = K * v.at[d] + Edge(-s, K)
    OBVIOUS
  <2>3. u.at[d] \in Nat /\ v.at[d] \in Nat /\ Edge(s, K) \in 0 .. (K - 1) /\ Edge(-s, K) \in 0 .. (K - 1)
    BY <1>2, Location DEF Edge
  <2> HIDE DEF X, Y, s
  <2>4. Beside(K * u.at[d] + Edge(s, K), K * v.at[d] + Edge(-s, K), K * N, s, config.periodic[d])
    BY <1>2, <2>1, BesideProduct
  <2>5. Beside(X, Y, most, s, config.periodic[d])
    BY <1>2, <2>2, <2>4
  <2>6. X \in Nat /\ X < most /\ Y \in Nat /\ Y < most
    BY <1>2, <2>5 DEF Beside
  <2>7. Parts(X, K, u.at[d], Edge(s, K)) /\ Parts(Y, K, v.at[d], Edge(-s, K))
    BY <1>2, <2>2, <2>3 DEF Parts
  <2>8. X \div K = u.at[d] /\ Y \div K = v.at[d]
    BY <2>7, RemainderIs
  <2> QED
    BY <2>5, <2>6, <2>8 DEF X, Y, s
<1>6. x \in Finest(config) /\ y \in Finest(config) /\ x.level = config.maxLevel /\ y.level = config.maxLevel
  <2>1. x.at \in [Axes(config) -> Nat] /\ y.at \in [Axes(config) -> Nat]
    BY <1>5
  <2>2. /\ x \in [level : 0 .. config.maxLevel, at : [Axes(config) -> Nat]]
        /\ y \in [level : 0 .. config.maxLevel, at : [Axes(config) -> Nat]]
        /\ x.level = config.maxLevel /\ y.level = config.maxLevel
    BY <1>1, <2>1
  <2>3. \A d \in Axes(config) : x.at[d] < 2^x.level /\ y.at[d] < 2^y.level
    BY <1>5, <2>2 DEF most
  <2> HIDE DEF x, y
  <2> QED
    BY <2>2, <2>3 DEF Finest, Locations
<1> HIDE DEF x, y
<1>7. x \in Locations(config) /\ y \in Locations(config)
  BY <1>6 DEF Finest
<1>8. /\ Ancestor(x, u.level) \in Locations(config) /\ Ancestor(x, u.level).level = u.level
      /\ Ancestor(y, u.level) \in Locations(config) /\ Ancestor(y, u.level).level = u.level
      /\ \A d \in Axes(config) : Ancestor(x, u.level).at[d] = x.at[d] \div K
      /\ \A d \in Axes(config) : Ancestor(y, u.level).at[d] = y.at[d] \div K
  BY <1>1, <1>6, <1>7, AncestorIs DEF K
<1>9. Ancestor(x, u.level) = u
  <2>1. \A d \in Axes(config) : Ancestor(x, u.level).at[d] = u.at[d]
    BY <1>5, <1>8
  <2> QED
    BY <1>8, <2>1, SameLocation
<1>10. Ancestor(y, v.level) = v
  <2>1. \A d \in Axes(config) : Ancestor(y, u.level).at[d] = v.at[d]
    BY <1>5, <1>8
  <2> QED
    BY <1>1, <1>8, <2>1, SameLocation
<1>11. Close(x, y)
  BY <1>4, <1>5, <1>6 DEF Close, most
<1> QED
  BY <1>6, <1>9, <1>10, <1>11

(* A balanced mesh beside one of its leaves: a block one level down that     *)
(* touches one of the leaf's halves is a leaf too, unless it is under one. *)
LEMMA NearLeaf ==
  ASSUME config \in Configs, NEW blocks, Tiling(config, blocks), TooCoarse(blocks) = {},
         NEW b \in blocks, NEW h \in Locations(config), NEW q \in Locations(config), h.level = b.level + 1,
         Ancestor(h, b.level) = b, Close(h, q), ~Under(Ancestor(q, b.level), blocks)
  PROVE  q \in blocks
<1>1. blocks \subseteq Locations(config) /\ b \in Locations(config) /\ q.level = h.level
  BY DEF Tiling, Covering, Close
<1>2. PICK x, y \in Finest(config) : Ancestor(x, h.level) = h /\ Ancestor(y, q.level) = q /\ Close(x, y)
  BY CloseBelow
<1>3. PICK f \in blocks : Ancestor(y, f.level) = f
  BY DEF Tiling, Covering
<1>4. /\ x \in Locations(config) /\ y \in Locations(config) /\ f \in Locations(config)
      /\ x.level = config.maxLevel /\ y.level = config.maxLevel /\ config.maxLevel \in Nat
      /\ f.level \in 0 .. config.maxLevel /\ b.level \in 0 .. config.maxLevel /\ h.level \in 0 .. config.maxLevel
      /\ b.level \in 0 .. q.level /\ q.level \in 0 .. y.level
  BY <1>1, Location, Levels DEF Finest
<1>5. CASE f.level <= b.level
  <2>1. /\ Ancestor(q, b.level) \in Locations(config) /\ Ancestor(q, b.level).level = b.level
        /\ Ancestor(q, b.level) = Ancestor(y, b.level)
    BY <1>2, <1>4, AncestorIs, AncestorOfAncestor
  <2>2. Ancestor(Ancestor(y, b.level), f.level) = Ancestor(y, f.level)
    <3>1. b.level \in 0 .. y.level /\ f.level \in 0 .. b.level
      BY <1>4, <1>5
    <3> QED
      BY <1>4, <3>1, AncestorOfAncestor
  <2>3. Under(Ancestor(q, b.level), blocks)
    BY <1>3, <1>5, <2>1, <2>2 DEF Under
  <2> QED
    BY <2>3
<1>6. CASE f.level = q.level
  BY <1>2, <1>3, <1>6
<1>7. CASE f.level > q.level
  <2> DEFINE n == Ancestor(x, f.level)
  <2>1. f.level \in 0 .. x.level /\ f.level \in 0 .. y.level /\ b.level \in 0 .. f.level /\ b.level \in 0 .. (f.level - 2)
        /\ h.level \in 0 .. x.level /\ b.level \in 0 .. h.level
    BY <1>1, <1>4, <1>7
  <2>2. n \in Locations(config) /\ Close(n, f)
    BY <1>2, <1>3, <1>4, <2>1, AncestorIs, CloseAbove
  <2>3. Ancestor(n, b.level) = b
    <3>1. Ancestor(n, b.level) = Ancestor(x, b.level)
      BY <1>4, <2>1, AncestorOfAncestor
    <3>2. Ancestor(Ancestor(x, h.level), b.level) = Ancestor(x, b.level)
      BY <1>4, <2>1, AncestorOfAncestor
    <3> QED
      BY <1>2, <3>1, <3>2
  <2> HIDE DEF n
  <2>4. n \in BlocksAcross(config, f)
    BY <1>4, <2>2, CloseBack, CloseAcross
  <2>5. b \in {Ancestor(m, k) : k \in 0..(f.level - 2), m \in BlocksAcross(config, f)}
    BY <2>1, <2>3, <2>4
  <2>6. b \in TooCoarse(blocks)
    BY <2>5 DEF TooCoarse
  <2> QED
    BY <2>6
<1> QED
  BY <1>1, <1>4, <1>5, <1>6, <1>7
-----------------------------------------------------------------------------
(* The cells of all levels, like Locations for blocks. *)
AllCells ==
  {x \in [level : 0 .. config.maxLevel, at : [Axes(config) -> Nat]] :
     \A d \in Axes(config) : x.at[d] < config.cells * 2^x.level}

(* What is known of a cell, and what makes one. *)
LEMMA Cell ==
  ASSUME config \in Configs, NEW x \in AllCells
  PROVE  /\ x.level \in Nat /\ x.level \in 0 .. config.maxLevel /\ config.maxLevel \in Nat
         /\ x.at \in [Axes(config) -> Nat] /\ DOMAIN x.at = Axes(config)
         /\ config.cells \in Nat \ {0} /\ 2^x.level \in Nat \ {0}
         /\ config.cells * 2^x.level \in Nat \ {0} /\ OnGrid(config, x, config.cells * 2^x.level)
<1>1. config.maxLevel \in Nat /\ config.cells \in Nat \ {0}
  BY RegridAssumption DEF IsConfig
<1>2. /\ x.level \in 0 .. config.maxLevel /\ x.at \in [Axes(config) -> Nat] /\ DOMAIN x.at = Axes(config)
      /\ x = [level |-> x.level, at |-> x.at]
      /\ \A d \in Axes(config) : x.at[d] < config.cells * 2^x.level
  BY DEF AllCells
<1>3. x.level \in Nat /\ 2^x.level \in Nat \ {0}
  BY <1>1, <1>2, Power
<1>4. config.cells * 2^x.level \in Nat \ {0}
  <2> DEFINE C == config.cells
             P == 2^x.level
  <2>1. C \in Nat \ {0} /\ P \in Nat \ {0}
    BY <1>1, <1>3
  <2> HIDE DEF C, P
  <2>2. C * P \in Nat \ {0}
    BY <2>1
  <2> QED
    BY <2>2 DEF C, P
<1> QED
  BY <1>1, <1>2, <1>3, <1>4 DEF OnGrid

(* A place on the grid of a level is a cell. *)
LEMMA CellIs ==
  ASSUME config \in Configs, NEW x, x.level \in 0 .. config.maxLevel, OnGrid(config, x, config.cells * 2^x.level)
  PROVE  x \in AllCells
<1>1. x = [level |-> x.level, at |-> x.at] /\ x.at \in [Axes(config) -> Nat]
  BY DEF OnGrid
<1>2. x \in [level : 0 .. config.maxLevel, at : [Axes(config) -> Nat]]
  BY <1>1
<1> QED
  BY <1>2 DEF AllCells, OnGrid

(* Two cells are equal when their levels and coordinates are. *)
LEMMA SameCell ==
  ASSUME NEW x \in AllCells, NEW y \in AllCells, x.level = y.level, \A d \in Axes(config) : x.at[d] = y.at[d]
  PROVE  x = y
<1>1. x.at \in [Axes(config) -> Nat] /\ y.at \in [Axes(config) -> Nat]
      /\ x = [level |-> x.level, at |-> x.at] /\ y = [level |-> y.level, at |-> y.at]
  BY DEF AllCells
<1>2. x.at = y.at
  BY <1>1
<1> QED
  BY <1>1, <1>2

(* The block of a cell. *)
LEMMA CellBlock ==
  ASSUME config \in Configs, NEW x \in AllCells
  PROVE  /\ BlockOf(config, x) \in Locations(config) /\ BlockOf(config, x).level = x.level
         /\ \A d \in Axes(config) : BlockOf(config, x).at[d] = x.at[d] \div config.cells
<1> DEFINE C == config.cells
           at == [d \in Axes(config) |-> x.at[d] \div C]
           m == [level |-> x.level, at |-> at]
<1>1. BlockOf(config, x) = m
  BY DEF BlockOf
<1>2. x.level \in 0 .. config.maxLevel /\ Grouped(C * 2^x.level, C, 2^x.level)
  BY Cell DEF Grouped
<1>3. \A d \in Axes(config) : x.at[d] \in Nat /\ x.at[d] < C * 2^x.level
  BY Cell DEF OnGrid
<1> HIDE DEF C
<1>4. \A d \in Axes(config) : at[d] = x.at[d] \div C /\ at[d] \in Nat /\ at[d] < 2^x.level
  BY <1>2, <1>3, QuotientBelow
<1>5. at \in [Axes(config) -> Nat]
  BY <1>4
<1> HIDE DEF at
<1>6. m \in Locations(config)
  BY <1>2, <1>4, <1>5 DEF Locations
<1> QED
  BY <1>1, <1>4, <1>6 DEF C

(* Ancestors of cells, which are cells of the ancestors of their blocks. *)
LEMMA CellAncestor ==
  ASSUME config \in Configs, NEW x \in AllCells, NEW k \in 0 .. x.level
  PROVE  /\ Ancestor(x, k) \in AllCells /\ Ancestor(x, k).level = k
         /\ \A d \in Axes(config) : Ancestor(x, k).at[d] = x.at[d] \div 2^(x.level - k)
         /\ BlockOf(config, Ancestor(x, k)) = Ancestor(BlockOf(config, x), k)
<1> DEFINE C == config.cells
           K == 2^(x.level - k)
           at == [d \in Axes(config) |-> x.at[d] \div K]
           a == [level |-> k, at |-> at]
<1>1. /\ k \in Nat /\ k \in 0 .. config.maxLevel /\ x.level \in Nat /\ x.level - k \in Nat
      /\ x.level = (x.level - k) + k
  BY Cell
<1>2. K \in Nat \ {0} /\ 2^k \in Nat \ {0} /\ 2^x.level = K * 2^k /\ C \in Nat \ {0}
  BY <1>1, Power, PowerSum, Cell
<1>3. Ancestor(x, k) = a
  BY Cell DEF Ancestor
<1>4. \A d \in Axes(config) : x.at[d] \in Nat /\ x.at[d] < C * 2^x.level
  BY Cell DEF OnGrid
<1>5. BlockOf(config, x) \in Locations(config) /\ BlockOf(config, x).level = x.level
      /\ \A d \in Axes(config) : BlockOf(config, x).at[d] = x.at[d] \div C
  BY CellBlock
<1>6. /\ Ancestor(BlockOf(config, x), k) \in Locations(config) /\ Ancestor(BlockOf(config, x), k).level = k
      /\ \A d \in Axes(config) : Ancestor(BlockOf(config, x), k).at[d] = (x.at[d] \div C) \div K
  BY <1>5, AncestorIs
<1> HIDE DEF K, C
<1>7. Grouped(C * 2^x.level, K, C * 2^k)
  <2> DEFINE P == 2^k
  <2>1. P \in Nat \ {0} /\ 2^x.level = K * P
    BY <1>2
  <2> HIDE DEF P
  <2>2. C * (K * P) = K * (C * P) /\ C * P \in Nat \ {0}
    BY <1>2, <2>1
  <2> QED
    BY <1>2, <2>1, <2>2 DEF Grouped, P
<1>8. \A d \in Axes(config) : at[d] = x.at[d] \div K /\ at[d] \in Nat /\ at[d] < C * 2^k
  BY <1>4, <1>7, QuotientBelow
<1>9. at \in [Axes(config) -> Nat]
  BY <1>8
<1> HIDE DEF at
<1>10. a \in AllCells
  BY <1>1, <1>8, <1>9 DEF AllCells, C
<1>11. /\ BlockOf(config, a) \in Locations(config) /\ BlockOf(config, a).level = k
       /\ \A d \in Axes(config) : BlockOf(config, a).at[d] = (x.at[d] \div K) \div C
  BY <1>8, <1>10, CellBlock DEF C
<1>12. ASSUME NEW d \in Axes(config) PROVE (x.at[d] \div K) \div C = (x.at[d] \div C) \div K
  <2>1. (x.at[d] \div K) \div C = x.at[d] \div (K * C) /\ (x.at[d] \div C) \div K = x.at[d] \div (C * K)
    BY <1>2, <1>4, QuotientTwice
  <2>2. K * C = C * K
    BY <1>2
  <2> QED
    BY <2>1, <2>2
<1>13. \A d \in Axes(config) : BlockOf(config, a).at[d] = Ancestor(BlockOf(config, x), k).at[d]
  BY <1>6, <1>11, <1>12
<1>14. BlockOf(config, a) = Ancestor(BlockOf(config, x), k)
  BY <1>6, <1>11, <1>13, SameLocation
<1> QED
  BY <1>3, <1>8, <1>10, <1>14 DEF K

(* A cell is its own ancestor. *)
LEMMA CellSelf ==
  ASSUME config \in Configs, NEW x \in AllCells
  PROVE  Ancestor(x, x.level) = x
<1>1. x.level \in Nat /\ x.level \in 0 .. x.level /\ x.level - x.level = 0
  BY Cell
<1>2. /\ Ancestor(x, x.level) \in AllCells /\ Ancestor(x, x.level).level = x.level
      /\ \A d \in Axes(config) : Ancestor(x, x.level).at[d] = x.at[d] \div 2^(x.level - x.level)
  BY <1>1, CellAncestor
<1>3. \A d \in Axes(config) : x.at[d] \in Nat /\ x.at[d] \div 2^(x.level - x.level) = x.at[d]
  <2>1. 2^(x.level - x.level) = 1
    BY <1>1, PowerZero
  <2>2. \A n \in Nat : n \div 1 = n
    OBVIOUS
  <2> QED
    BY <2>1, <2>2, Cell
<1> QED
  BY <1>2, <1>3, SameCell

(* The halves of a cell. *)
LEMMA CellHalves ==
  ASSUME config \in Configs, NEW x \in AllCells, x.level < config.maxLevel, NEW q
  PROVE  q \in Children(x) <=>
           q \in AllCells /\ q.level = x.level + 1 /\ \A d \in Axes(config) : q.at[d] \div 2 = x.at[d]
<1> DEFINE C == config.cells
<1>1. /\ x.level \in Nat /\ x.level + 1 \in 0 .. config.maxLevel /\ x = [level |-> x.level, at |-> x.at]
      /\ x.at \in [Axes(config) -> Nat] /\ DOMAIN x.at = Axes(config) /\ C \in Nat \ {0}
      /\ \A d \in Axes(config) : x.at[d] \in Nat /\ x.at[d] < C * 2^x.level
  BY Cell DEF OnGrid
<1>2. C * 2^x.level \in Nat /\ C * 2^(x.level + 1) = 2 * (C * 2^x.level)
  <2> DEFINE P == 2^x.level
  <2>1. P \in Nat /\ 2^(x.level + 1) = P * 2
    BY <1>1, Power, PowerSum, PowerOne
  <2> HIDE DEF P, C
  <2>2. C * (P * 2) = 2 * (C * P) /\ C * P \in Nat
    BY <1>1, <2>1
  <2> QED
    BY <2>1, <2>2 DEF P
<1>3. ASSUME q \in Children(x)
      PROVE  q \in AllCells /\ q.level = x.level + 1 /\ \A d \in Axes(config) : q.at[d] \div 2 = x.at[d]
  <2>1. PICK slot \in [Axes(config) -> {0, 1}] :
          q = [level |-> x.level + 1, at |-> [d \in Axes(config) |-> 2 * x.at[d] + slot[d]]]
    BY <1>1, <1>3 DEF Children
  <2>2. ASSUME NEW d \in Axes(config)
        PROVE  q.at[d] \in Nat /\ q.at[d] < C * 2^(x.level + 1) /\ q.at[d] \div 2 = x.at[d]
    <3>1. x.at[d] \in Nat /\ x.at[d] < C * 2^x.level /\ slot[d] \in {0, 1} /\ q.at[d] = 2 * x.at[d] + slot[d]
      BY <1>1, <2>1
    <3> QED
      BY <1>2, <3>1
  <2>3. q.at \in [Axes(config) -> Nat] /\ q.level = x.level + 1
    BY <2>1, <2>2
  <2>4. q \in [level : 0 .. config.maxLevel, at : [Axes(config) -> Nat]]
    BY <1>1, <2>1, <2>3
  <2>5. q \in AllCells
    BY <2>2, <2>3, <2>4 DEF AllCells
  <2> QED
    BY <2>2, <2>3, <2>5
<1>4. ASSUME q \in AllCells, q.level = x.level + 1, \A d \in Axes(config) : q.at[d] \div 2 = x.at[d]
      PROVE  q \in Children(x)
  <2> DEFINE slot == [d \in Axes(config) |-> q.at[d] % 2]
  <2>1. q = [level |-> q.level, at |-> q.at] /\ q.at \in [Axes(config) -> Nat]
    BY <1>4 DEF AllCells
  <2>2. \A d \in Axes(config) : slot[d] \in {0, 1} /\ 2 * x.at[d] + slot[d] = q.at[d]
    BY <1>4, <2>1
  <2>3. slot \in [Axes(config) -> {0, 1}]
    BY <2>2
  <2> HIDE DEF slot
  <2>4. q.at = [d \in Axes(config) |-> 2 * x.at[d] + slot[d]]
    BY <2>1, <2>2
  <2>5. q = [level |-> x.level + 1, at |-> [d \in DOMAIN x.at |-> 2 * x.at[d] + slot[d]]]
    BY <1>1, <1>4, <2>1, <2>4
  <2> QED
    BY <1>1, <2>3, <2>5 DEF Children
<1> QED
  BY <1>3, <1>4, Zenon

(* A half's ancestor is its cell. *)
LEMMA HalfOf ==
  ASSUME config \in Configs, NEW x \in AllCells, NEW q \in AllCells, q.level = x.level + 1,
         \A d \in Axes(config) : q.at[d] \div 2 = x.at[d]
  PROVE  Ancestor(q, x.level) = x /\ Ancestor(BlockOf(config, q), x.level) = BlockOf(config, x)
<1>1. x.level \in 0 .. q.level /\ q.level - x.level = 1
  BY Cell
<1>2. /\ Ancestor(q, x.level) \in AllCells /\ Ancestor(q, x.level).level = x.level
      /\ \A d \in Axes(config) : Ancestor(q, x.level).at[d] = q.at[d] \div 2^(q.level - x.level)
      /\ BlockOf(config, Ancestor(q, x.level)) = Ancestor(BlockOf(config, q), x.level)
  BY <1>1, CellAncestor
<1>3. \A d \in Axes(config) : Ancestor(q, x.level).at[d] = x.at[d]
  BY <1>1, <1>2, PowerOne
<1>4. Ancestor(q, x.level) = x
  BY <1>2, <1>3, SameCell
<1> QED
  BY <1>2, <1>4
(* The cells of a block are those whose block it is. *)
LEMMA CellsOfIs ==
  ASSUME config \in Configs, NEW b \in Locations(config), NEW x
  PROVE  x \in CellsOf(config, b) <=> x \in AllCells /\ BlockOf(config, x) = b
<1> DEFINE C == config.cells
<1>1. /\ C \in Nat \ {0} /\ b.level \in 0 .. config.maxLevel /\ 2^b.level \in Nat \ {0}
      /\ \A d \in Axes(config) : b.at[d] \in Nat /\ b.at[d] < 2^b.level
  <2>1. C \in Nat \ {0} /\ config.maxLevel \in Nat
    BY RegridAssumption DEF IsConfig
  <2>2. b.level \in 0 .. config.maxLevel /\ \A d \in Axes(config) : b.at[d] \in Nat /\ b.at[d] < 2^b.level
    BY Location
  <2> QED
    BY <2>1, <2>2, Power
<1>2. ASSUME x \in CellsOf(config, b) PROVE x \in AllCells /\ BlockOf(config, x) = b
  <2>1. PICK i \in [Axes(config) -> 0 .. (C - 1)] :
          x = [level |-> b.level, at |-> [d \in Axes(config) |-> C * b.at[d] + i[d]]]
    BY <1>2 DEF CellsOf
  <2> HIDE DEF C
  <2>2. ASSUME NEW d \in Axes(config)
        PROVE  x.at[d] \in Nat /\ x.at[d] < C * 2^b.level /\ x.at[d] \div C = b.at[d]
    <3> DEFINE X == x.at[d]
               B == b.at[d]
               r == i[d]
               P == 2^b.level
    <3>1. X = C * B + r /\ r \in 0 .. (C - 1) /\ B \in Nat /\ P \in Nat /\ B + 1 <= P
      BY <1>1, <2>1
    <3> HIDE DEF X, B, r, P
    <3>2. Parts(X, C, B, r)
      BY <1>1, <3>1 DEF Parts
    <3>3. X \in Nat /\ X \div C = B
      BY <3>2, RemainderIs
    <3>4. C * (B + 1) <= C * P /\ C * (B + 1) = C * B + C /\ C * P \in Nat /\ C * B \in Nat
      BY <1>1, <3>1
    <3> QED
      BY <1>1, <3>1, <3>3, <3>4 DEF X, B, P
  <2>3. x.at \in [Axes(config) -> Nat] /\ x.level = b.level
    BY <2>1, <2>2
  <2>4. x \in [level : 0 .. config.maxLevel, at : [Axes(config) -> Nat]]
    BY <1>1, <2>1, <2>3
  <2>5. x \in AllCells
    BY <2>2, <2>3, <2>4 DEF AllCells, C
  <2>6. /\ BlockOf(config, x) \in Locations(config) /\ BlockOf(config, x).level = x.level
        /\ \A d \in Axes(config) : BlockOf(config, x).at[d] = b.at[d]
    BY <2>2, <2>5, CellBlock DEF C
  <2>7. BlockOf(config, x) = b
    BY <2>3, <2>6, SameLocation
  <2> QED
    BY <2>5, <2>7
<1>3. ASSUME x \in AllCells, BlockOf(config, x) = b PROVE x \in CellsOf(config, b)
  <2>1. /\ x.level = b.level /\ x = [level |-> x.level, at |-> x.at] /\ x.at \in [Axes(config) -> Nat]
        /\ \A d \in Axes(config) : b.at[d] = x.at[d] \div C
    BY <1>3, CellBlock DEF AllCells
  <2> DEFINE i == [d \in Axes(config) |-> x.at[d] % C]
  <2>2. \A d \in Axes(config) : i[d] \in 0 .. (C - 1) /\ x.at[d] = C * b.at[d] + i[d]
    BY <1>1, <2>1, Remainder
  <2>3. i \in [Axes(config) -> 0 .. (C - 1)]
    BY <2>2
  <2> HIDE DEF i
  <2>4. x.at = [d \in Axes(config) |-> C * b.at[d] + i[d]]
    BY <2>1, <2>2
  <2>5. x = [level |-> b.level, at |-> [d \in Axes(config) |-> C * b.at[d] + i[d]]]
    BY <2>1, <2>4
  <2> QED
    BY <2>3, <2>5 DEF CellsOf
<1> QED
  BY <1>2, <1>3, Zenon

(* The leaf cell over a cell is in the leaf over its block. *)
LEMMA LocateIs ==
  ASSUME config \in Configs, NEW blocks \in SUBSET Locations(config), NEW n \in AllCells
  PROVE  /\ \A o : o \in Locate(config, blocks, n) <=>
                \E b \in blocks : /\ b.level \in 0 .. n.level /\ Ancestor(BlockOf(config, n), b.level) = b
                                  /\ o = Ancestor(n, b.level)
         /\ Locate(config, blocks, n) = {} <=> ~Under(BlockOf(config, n), blocks)
<1> DEFINE m == BlockOf(config, n)
           Above(b) == b.level \in 0 .. n.level /\ Ancestor(m, b.level) = b
<1>1. m \in Locations(config) /\ m.level = n.level /\ n.level \in Nat
  BY CellBlock, Cell
<1>2. \A b \in blocks : b.level \in Nat
  BY Location, Levels
<1>3. \A k \in 0 .. n.level : Ancestor(m, k).level = k
  BY <1>1, AncestorIs
<1>4. Locate(config, blocks, n) = {Ancestor(n, k) : k \in {k \in 0 .. n.level : Ancestor(m, k) \in blocks}}
  BY DEF Locate
<1> HIDE DEF m
<1>5. ASSUME NEW o, o \in Locate(config, blocks, n)
      PROVE  \E b \in blocks : Above(b) /\ o = Ancestor(n, b.level)
  <2>1. PICK k \in 0 .. n.level : Ancestor(m, k) \in blocks /\ o = Ancestor(n, k)
    BY <1>4, <1>5
  <2>2. Ancestor(m, k).level = k
    BY <1>3
  <2> QED
    BY <2>1, <2>2
<1>6. ASSUME NEW b \in blocks, Above(b) PROVE Ancestor(n, b.level) \in Locate(config, blocks, n)
  BY <1>4, <1>6
<1>7. Under(m, blocks) <=> \E b \in blocks : Above(b)
  BY <1>1, <1>2 DEF Under
<1> QED
  BY <1>5, <1>6, <1>7, Zenon DEF m

(* The entries of the plans: the cells opposite a cell across its face. *)
Opposing(c, blocks, n, axis, side) ==
  IF Locate(c, blocks, n) # {} THEN Locate(c, blocks, n) ELSE Facing(n, axis, side)
Facet(c, b, x, axis, side) == x \in CellsOf(c, b) /\ x.at[axis] % c.cells = Edge(side, c.cells)

WorkFrom(c, blocks, b, e) ==
  \E x \in CellsOf(c, b), axis \in Axes(c), side \in {-1, 1} :
    /\ Facet(c, b, x, axis, side)
    /\ \E n \in CellAcross(c, x, axis, side) : \E o \in Opposing(c, blocks, n, axis, side) :
         e = <<x, o, axis, side>>
RefluxFrom(c, blocks, b, e) ==
  \E x \in CellsOf(c, b), axis \in Axes(c), side \in {-1, 1} :
    /\ Facet(c, b, x, axis, side)
    /\ \E n \in CellAcross(c, x, axis, side) :
         /\ Locate(c, blocks, n) = {}
         /\ \E o \in Facing(n, axis, side) : e = <<x, o, axis, side>>

(* The faces of a block. *)
LEMMA FacetsOf ==
  ASSUME NEW c, NEW b, NEW f
  PROVE  f \in FacesOf(c, b) <=>
           \E x \in CellsOf(c, b), axis \in Axes(c), side \in {-1, 1} : f = <<x, axis, side>> /\ Facet(c, b, x, axis, side)
<1>1. ASSUME f \in FacesOf(c, b)
      PROVE  \E x \in CellsOf(c, b), axis \in Axes(c), side \in {-1, 1} : f = <<x, axis, side>> /\ Facet(c, b, x, axis, side)
  <2>1. /\ f \in CellsOf(c, b) \X Axes(c) \X {-1, 1}
        /\ f[1].at[f[2]] % c.cells = IF f[3] = 1 THEN c.cells - 1 ELSE 0
    BY <1>1 DEF FacesOf
  <2>2. PICK x \in CellsOf(c, b), axis \in Axes(c), side \in {-1, 1} : f = <<x, axis, side>>
    BY <2>1
  <2>3. f[1] = x /\ f[2] = axis /\ f[3] = side
    BY <2>2
  <2>4. Facet(c, b, x, axis, side)
    BY <2>1, <2>3 DEF Facet, Edge
  <2> QED
    BY <2>2, <2>4
<1>2. ASSUME NEW x \in CellsOf(c, b), NEW axis \in Axes(c), NEW side \in {-1, 1}, f = <<x, axis, side>>,
             Facet(c, b, x, axis, side)
      PROVE  f \in FacesOf(c, b)
  <2>1. f \in CellsOf(c, b) \X Axes(c) \X {-1, 1} /\ f[1] = x /\ f[2] = axis /\ f[3] = side
    BY <1>2
  <2>2. f[1].at[f[2]] % c.cells = IF f[3] = 1 THEN c.cells - 1 ELSE 0
    BY <1>2, <2>1 DEF Facet, Edge
  <2> QED
    BY <2>1, <2>2 DEF FacesOf
<1> QED
  BY <1>1, <1>2, Zenon

(* The entries of the work plan. *)
LEMMA WorkEntry ==
  ASSUME NEW c, NEW blocks, NEW e
  PROVE  e \in WorkPlan(c, blocks) <=> \E b \in blocks : WorkFrom(c, blocks, b, e)
<1> DEFINE Faces == UNION {FacesOf(c, b) : b \in blocks}
           Across(f) == CellAcross(c, f[1], f[2], f[3])
           Entries(f, n) == {<<f[1], other, f[2], f[3]>> : other \in Opposing(c, blocks, n, f[2], f[3])}
<1>1. WorkPlan(c, blocks) = UNION {UNION {Entries(f, n) : n \in Across(f)} : f \in Faces}
  BY DEF WorkPlan, Opposing
<1>2. e \in WorkPlan(c, blocks) <=> \E f \in Faces : \E n \in Across(f) : e \in Entries(f, n)
  <2> HIDE DEF Entries, Across, Faces
  <2> QED
    BY <1>1
<1>3. ASSUME e \in WorkPlan(c, blocks)
      PROVE  \E b \in blocks : WorkFrom(c, blocks, b, e)
  <2>1. PICK f \in Faces : \E n \in Across(f) : e \in Entries(f, n)
    BY <1>2, <1>3
  <2>2. PICK b \in blocks : f \in FacesOf(c, b)
    OBVIOUS
  <2>3. PICK x \in CellsOf(c, b), axis \in Axes(c), side \in {-1, 1} :
          f = <<x, axis, side>> /\ Facet(c, b, x, axis, side)
    BY <2>2, FacetsOf
  <2>4. f[1] = x /\ f[2] = axis /\ f[3] = side
    BY <2>3
  <2>5. PICK n \in CellAcross(c, x, axis, side) : e \in Entries(f, n)
    BY <2>1, <2>4
  <2>6. \E o \in Opposing(c, blocks, n, axis, side) : e = <<x, o, axis, side>>
    BY <2>4, <2>5
  <2>7. WorkFrom(c, blocks, b, e)
    BY <2>3, <2>5, <2>6, Zenon DEF WorkFrom
  <2> QED
    BY <2>7
<1>4. ASSUME NEW b \in blocks, NEW x \in CellsOf(c, b), NEW axis \in Axes(c), NEW side \in {-1, 1},
             Facet(c, b, x, axis, side), NEW n \in CellAcross(c, x, axis, side),
             NEW o \in Opposing(c, blocks, n, axis, side), e = <<x, o, axis, side>>
      PROVE  e \in WorkPlan(c, blocks)
  <2> DEFINE f == <<x, axis, side>>
  <2>1. f[1] = x /\ f[2] = axis /\ f[3] = side
    OBVIOUS
  <2>2. f \in FacesOf(c, b)
    BY <1>4, FacetsOf
  <2> HIDE DEF f
  <2>3. f \in Faces /\ n \in Across(f)
    BY <2>1, <2>2
  <2>4. e \in Entries(f, n)
    BY <1>4, <2>1
  <2> QED
    BY <1>2, <2>3, <2>4
<1>5. ASSUME NEW b \in blocks, WorkFrom(c, blocks, b, e) PROVE e \in WorkPlan(c, blocks)
  BY <1>4, <1>5, Zenon DEF WorkFrom
<1> QED
  BY <1>3, <1>5, Zenon

(* The entries of the reflux plan. *)
LEMMA RefluxEntry ==
  ASSUME NEW c, NEW blocks, NEW e
  PROVE  e \in RefluxPlan(c, blocks) <=> \E b \in blocks : RefluxFrom(c, blocks, b, e)
<1> DEFINE Faces == UNION {FacesOf(c, b) : b \in blocks}
           Open(f) == {n \in CellAcross(c, f[1], f[2], f[3]) : Locate(c, blocks, n) = {}}
           Behind(f) == UNION {Facing(n, f[2], f[3]) : n \in Open(f)}
           Entries(f) == {<<f[1], fine, f[2], f[3]>> : fine \in Behind(f)}
<1>1. RefluxPlan(c, blocks) = UNION {Entries(f) : f \in Faces}
  BY DEF RefluxPlan
<1>2. e \in RefluxPlan(c, blocks) <=> \E f \in Faces : e \in Entries(f)
  <2> HIDE DEF Entries, Faces
  <2> QED
    BY <1>1
<1>3. ASSUME e \in RefluxPlan(c, blocks)
      PROVE  \E b \in blocks : RefluxFrom(c, blocks, b, e)
  <2>1. PICK f \in Faces : e \in Entries(f)
    BY <1>2, <1>3
  <2>2. PICK b \in blocks : f \in FacesOf(c, b)
    OBVIOUS
  <2>3. PICK x \in CellsOf(c, b), axis \in Axes(c), side \in {-1, 1} :
          f = <<x, axis, side>> /\ Facet(c, b, x, axis, side)
    BY <2>2, FacetsOf
  <2>4. f[1] = x /\ f[2] = axis /\ f[3] = side
    BY <2>3
  <2>5. PICK o \in Behind(f) : e = <<f[1], o, f[2], f[3]>>
    BY <2>1
  <2>6. PICK n \in CellAcross(c, f[1], f[2], f[3]) : Locate(c, blocks, n) = {} /\ o \in Facing(n, f[2], f[3])
    OBVIOUS
  <2> HIDE DEF Behind
  <2>7. /\ n \in CellAcross(c, x, axis, side) /\ Locate(c, blocks, n) = {}
        /\ o \in Facing(n, axis, side) /\ e = <<x, o, axis, side>>
    BY <2>4, <2>5, <2>6
  <2>8. RefluxFrom(c, blocks, b, e)
    BY <2>3, <2>7, Zenon DEF RefluxFrom
  <2> QED
    BY <2>8
<1>4. ASSUME NEW b \in blocks, NEW x \in CellsOf(c, b), NEW axis \in Axes(c), NEW side \in {-1, 1},
             Facet(c, b, x, axis, side), NEW n \in CellAcross(c, x, axis, side), Locate(c, blocks, n) = {},
             NEW o \in Facing(n, axis, side), e = <<x, o, axis, side>>
      PROVE  e \in RefluxPlan(c, blocks)
  <2> DEFINE f == <<x, axis, side>>
  <2>1. f[1] = x /\ f[2] = axis /\ f[3] = side
    OBVIOUS
  <2>2. f \in FacesOf(c, b)
    BY <1>4, FacetsOf
  <2> HIDE DEF f
  <2>3. n \in Open(f)
    BY <1>4, <2>1
  <2>4. o \in Behind(f)
    <3>1. o \in Facing(n, f[2], f[3])
      BY <2>1
    <3> HIDE DEF Open
    <3> QED
      BY <2>3, <3>1
  <2>5. e \in Entries(f)
    <3> HIDE DEF Behind
    <3> QED
      BY <1>4, <2>1, <2>4
  <2>6. f \in Faces
    BY <2>2
  <2> QED
    BY <1>2, <2>5, <2>6
<1>5. ASSUME NEW b \in blocks, RefluxFrom(c, blocks, b, e) PROVE e \in RefluxPlan(c, blocks)
  BY <1>4, <1>5, Zenon DEF RefluxFrom
<1> QED
  BY <1>3, <1>5, Zenon
(* Cells of a level with a face in common. *)
FaceTo(x, n, axis, side) ==
  /\ x \in AllCells /\ n \in AllCells /\ n.level = x.level
  /\ \A d \in Axes(config) : d # axis => n.at[d] = x.at[d]
  /\ Beside(x.at[axis], n.at[axis], config.cells * 2^x.level, side, config.periodic[axis])

(* The cell across a face is the one that shares it. *)
LEMMA AcrossIs ==
  ASSUME config \in Configs, NEW x \in AllCells, NEW axis \in Axes(config), NEW side \in {-1, 1}, NEW n
  PROVE  n \in CellAcross(config, x, axis, side) <=> FaceTo(x, n, axis, side)
<1> DEFINE count == config.cells * 2^x.level
           step == [d \in Axes(config) |-> IF d = axis THEN side ELSE 0]
<1>1. count \in Nat \ {0} /\ OnGrid(config, x, count) /\ step \in [Axes(config) -> -1 .. 1]
      /\ x.level \in 0 .. config.maxLevel
  BY Cell
<1>2. CellAcross(config, x, axis, side) = Shifted(config, x, step, count)
  BY DEF CellAcross
<1>3. \A d \in Axes(config) : step[d] = IF d = axis THEN side ELSE 0
  OBVIOUS
<1> HIDE DEF count, step
<1>4. n \in Shifted(config, x, step, count) <=>
        /\ n.level = x.level /\ OnGrid(config, n, count)
        /\ \A d \in Axes(config) : Beside(x.at[d], n.at[d], count, step[d], config.periodic[d])
  BY <1>1, ShiftedIs
<1>5. ASSUME n.level = x.level, OnGrid(config, n, count),
             \A d \in Axes(config) : Beside(x.at[d], n.at[d], count, step[d], config.periodic[d])
      PROVE  FaceTo(x, n, axis, side)
  <2>1. n \in AllCells
    BY <1>1, <1>5, CellIs DEF count
  <2>2. ASSUME NEW d \in Axes(config), d # axis PROVE n.at[d] = x.at[d]
    <3>1. Beside(x.at[d], n.at[d], count, 0, config.periodic[d])
      BY <1>3, <1>5, <2>2
    <3> QED
      BY <1>1, <3>1 DEF Beside
  <2>3. Beside(x.at[axis], n.at[axis], count, side, config.periodic[axis])
    BY <1>3, <1>5
  <2> QED
    BY <1>5, <2>1, <2>2, <2>3 DEF FaceTo, count
<1>6. ASSUME FaceTo(x, n, axis, side)
      PROVE  /\ n.level = x.level /\ OnGrid(config, n, count)
             /\ \A d \in Axes(config) : Beside(x.at[d], n.at[d], count, step[d], config.periodic[d])
  <2>1. n \in AllCells /\ n.level = x.level /\ OnGrid(config, n, count)
    BY <1>6, Cell DEF FaceTo, count
  <2>2. ASSUME NEW d \in Axes(config), d # axis
        PROVE  Beside(x.at[d], n.at[d], count, step[d], config.periodic[d])
    <3>1. n.at[d] = x.at[d] /\ x.at[d] \in Nat /\ x.at[d] < count /\ step[d] = 0
      BY <1>1, <1>3, <1>6, <2>2 DEF FaceTo, OnGrid
    <3> QED
      BY <1>1, <3>1 DEF Beside
  <2>3. Beside(x.at[axis], n.at[axis], count, step[axis], config.periodic[axis])
    BY <1>3, <1>6 DEF FaceTo, count
  <2> QED
    BY <2>1, <2>2, <2>3
<1> QED
  BY <1>2, <1>4, <1>5, <1>6, Zenon

(* A face has two sides. *)
LEMMA FaceBack ==
  ASSUME config \in Configs, NEW x, NEW n, NEW axis \in Axes(config), NEW side \in {-1, 1}, FaceTo(x, n, axis, side)
  PROVE  FaceTo(n, x, axis, -side) /\ -side \in {-1, 1} /\ -(-side) = side
<1>1. side \in -1 .. 1
  OBVIOUS
<1>2. -side \in {-1, 1} /\ -(-side) = side
  BY <1>1, Opposite
<1>3. config.cells * 2^x.level \in Nat \ {0} /\ n.level = x.level
  BY Cell DEF FaceTo
<1>4. Beside(n.at[axis], x.at[axis], config.cells * 2^x.level, -side, config.periodic[axis])
  BY <1>1, <1>3, BesideBack DEF FaceTo
<1> QED
  BY <1>2, <1>3, <1>4 DEF FaceTo

(* Cells that share a face are in blocks that touch or in one block. *)
LEMMA FaceClose ==
  ASSUME config \in Configs, NEW x, NEW n, NEW axis \in Axes(config), NEW side \in {-1, 1}, FaceTo(x, n, axis, side)
  PROVE  Close(BlockOf(config, x), BlockOf(config, n))
<1> DEFINE C == config.cells
<1>1. /\ BlockOf(config, x).level = x.level /\ BlockOf(config, n).level = x.level
      /\ \A d \in Axes(config) : /\ BlockOf(config, x).at[d] = x.at[d] \div C
                                 /\ BlockOf(config, n).at[d] = n.at[d] \div C
  BY CellBlock DEF FaceTo
<1>2. Grouped(C * 2^x.level, C, 2^x.level)
  BY Cell DEF FaceTo, Grouped
<1> HIDE DEF C
<1>3. ASSUME NEW d \in Axes(config)
      PROVE  \E s \in -1 .. 1 : Beside(x.at[d] \div C, n.at[d] \div C, 2^x.level, s, config.periodic[d])
  <2>1. CASE d = axis
    <3>1. Beside(x.at[d], n.at[d], C * 2^x.level, side, config.periodic[d]) /\ side \in -1 .. 1
      BY <2>1 DEF FaceTo, C
    <3> QED
      BY <1>2, <3>1, BesideAbove
  <2>2. CASE d # axis
    <3>1. n.at[d] = x.at[d] /\ x.at[d] \in 0 .. (C * 2^x.level - 1)
      BY <2>2, Cell DEF FaceTo, OnGrid, C
    <3>2. Beside(x.at[d], n.at[d], C * 2^x.level, 0, config.periodic[d]) /\ 0 \in -1 .. 1
      BY <3>1 DEF Beside
    <3> QED
      BY <1>2, <3>2, BesideAbove
  <2> QED
    BY <2>1, <2>2
<1> QED
  BY <1>1, <1>3 DEF Close, C

(* On a balanced mesh a leaf over a block that touches another leaf is at   *)
(* most one level coarser.                                                 *)
LEMMA LevelNear ==
  ASSUME config \in Configs, NEW blocks, Tiling(config, blocks), TooCoarse(blocks) = {}, NEW b \in blocks,
         NEW m \in Locations(config), Close(b, m), NEW a \in blocks, a.level \in 0 .. b.level,
         Ancestor(m, a.level) = a
  PROVE  a.level >= b.level - 1
<1>1. b \in Locations(config) /\ a.level \in Nat /\ b.level \in Nat
  BY Location, Levels DEF Tiling, Covering
<1>2. m \in BlocksAcross(config, b)
  BY <1>1, CloseAcross
<1>3. a.level <= b.level - 2 => a \in {Ancestor(n, k) : k \in 0..(b.level - 2), n \in BlocksAcross(config, b)}
  <2> SUFFICES ASSUME a.level <= b.level - 2
               PROVE  a \in {Ancestor(n, k) : k \in 0..(b.level - 2), n \in BlocksAcross(config, b)}
    OBVIOUS
  <2>1. a.level \in 0 .. (b.level - 2)
    BY <1>1
  <2> QED
    BY <1>2, <2>1
<1>4. a.level <= b.level - 2 => a \in TooCoarse(blocks)
  BY <1>3 DEF TooCoarse
<1> QED
  BY <1>1, <1>4

(* What the plans say of a face, seen from the other side. *)
Answered(blocks, x, o, axis, side) ==
  /\ o \in AllCells /\ BlockOf(config, o) \in blocks /\ o.at[axis] % config.cells = Edge(-side, config.cells)
  /\ \E t \in CellAcross(config, o, axis, -side) : x \in Opposing(config, blocks, t, axis, -side)

(* Blocks of one size. *)
LEMMA EqualFace ==
  ASSUME config \in Configs, NEW blocks, Tiling(config, blocks), NEW x, NEW n, NEW axis \in Axes(config),
         NEW side \in {-1, 1}, FaceTo(x, n, axis, side), BlockOf(config, x) \in blocks,
         x.at[axis] % config.cells = Edge(side, config.cells), BlockOf(config, n) \in blocks
  PROVE  Answered(blocks, x, n, axis, side)
<1> DEFINE C == config.cells
<1>1. /\ x \in AllCells /\ n \in AllCells /\ n.level = x.level /\ Grouped(C * 2^x.level, C, 2^x.level)
      /\ Beside(x.at[axis], n.at[axis], C * 2^x.level, side, config.periodic[axis])
  BY Cell DEF FaceTo, Grouped
<1> HIDE DEF C
<1>2. n.at[axis] % C = Edge(-side, C)
  BY <1>1, BesideQuotient DEF C
<1>3. FaceTo(n, x, axis, -side) /\ -side \in {-1, 1}
  BY FaceBack
<1>4. x \in CellAcross(config, n, axis, -side)
  BY <1>1, <1>3, AcrossIs
<1>5. x \in Locate(config, blocks, x)
  <2>1. /\ BlockOf(config, x) \in Locations(config) /\ BlockOf(config, x).level = x.level /\ x.level \in 0 .. x.level
        /\ blocks \in SUBSET Locations(config)
    BY <1>1, CellBlock, Cell DEF Tiling, Covering
  <2>2. Ancestor(BlockOf(config, x), x.level) = BlockOf(config, x) /\ Ancestor(x, x.level) = x
    BY <1>1, <2>1, SelfAncestor, CellSelf
  <2> QED
    BY <1>1, <2>1, <2>2, LocateIs
<1>6. x \in Opposing(config, blocks, x, axis, -side)
  BY <1>5 DEF Opposing
<1> QED
  BY <1>1, <1>2, <1>4, <1>6 DEF Answered, C

(* No leaf is above another. *)
LEMMA NotUnder ==
  ASSUME config \in Configs, NEW blocks, Tiling(config, blocks), NEW b \in blocks, b.level > 0
  PROVE  ~Under(Parent(b), blocks) /\ Parent(b) \notin blocks
<1>1. /\ b \in Locations(config) /\ blocks \subseteq Locations(config) /\ b.level \in Nat
      /\ b.level - 1 \in 0 .. b.level /\ Parent(b) \in Locations(config) /\ Parent(b).level = b.level - 1
      /\ Parent(b) = Ancestor(b, b.level - 1)
  BY Location, Levels, ParentIs DEF Tiling, Covering, Parent
<1>2. ASSUME NEW a \in blocks, a.level <= b.level - 1, Ancestor(Parent(b), a.level) = a PROVE FALSE
  <2>1. a.level \in Nat /\ a.level \in 0 .. (b.level - 1)
    BY <1>1, <1>2, Location, Levels
  <2>2. Ancestor(Parent(b), a.level) = Ancestor(b, a.level)
    BY <1>1, <2>1, AncestorOfAncestor
  <2>3. a = b
    BY <1>1, <1>2, <2>1, <2>2 DEF Tiling, Disjoint
  <2> QED
    BY <1>1, <1>2, <2>3
<1>3. ~Under(Parent(b), blocks)
  BY <1>1, <1>2 DEF Under
<1>4. Ancestor(Parent(b), Parent(b).level) = Parent(b)
  BY <1>1, SelfAncestor
<1> QED
  BY <1>1, <1>3, <1>4 DEF Under

(* A coarser block: its cell is behind the faces of the halves beside it. *)
LEMMA CoarseFace ==
  ASSUME config \in Configs, NEW blocks, Tiling(config, blocks), NEW x, NEW n, NEW axis \in Axes(config),
         NEW side \in {-1, 1}, FaceTo(x, n, axis, side), BlockOf(config, x) \in blocks, x.level > 0,
         Parent(BlockOf(config, n)) \in blocks
  PROVE  Answered(blocks, x, Parent(n), axis, side)
<1> DEFINE C == config.cells
           l == x.level
           U == x.at[axis] \div 2
           V == n.at[axis] \div 2
           half == 2^(l - 1)
           b == BlockOf(config, x)
           o == Parent(n)
           t == Parent(x)
<1>1. /\ x \in AllCells /\ n \in AllCells /\ n.level = l /\ l \in Nat /\ l \in 0 .. config.maxLevel
      /\ Beside(x.at[axis], n.at[axis], C * 2^l, side, config.periodic[axis])
      /\ \A d \in Axes(config) : d # axis => n.at[d] = x.at[d]
      /\ l - 1 \in 0 .. l /\ l - (l - 1) = 1 /\ l - 1 \in Nat /\ l = (l - 1) + 1
      /\ blocks \in SUBSET Locations(config) /\ config.maxLevel \in Nat
  BY Cell DEF FaceTo, Tiling, Covering
<1>2. /\ C \in Nat \ {0} /\ half \in Nat \ {0} /\ C * half \in Nat \ {0} /\ C * 2^l = 2 * (C * half)
  <2>1. C \in Nat \ {0} /\ half \in Nat \ {0} /\ 2^l = half * 2
    <3>1. C \in Nat \ {0} /\ half \in Nat \ {0}
      BY <1>1, Cell, Power
    <3>2. 2^((l - 1) + 1) = half * 2^1
      BY <1>1, PowerSum
    <3> QED
      BY <1>1, <3>1, <3>2, PowerOne
  <2> HIDE DEF C, half
  <2>2. C * (half * 2) = 2 * (C * half) /\ C * half \in Nat \ {0}
    BY <2>1
  <2> QED
    BY <2>1, <2>2
<1>3. /\ o \in AllCells /\ o.level = l - 1 /\ \A d \in Axes(config) : o.at[d] = n.at[d] \div 2
      /\ BlockOf(config, o) = Parent(BlockOf(config, n))
      /\ t \in AllCells /\ t.level = l - 1 /\ \A d \in Axes(config) : t.at[d] = x.at[d] \div 2
      /\ BlockOf(config, t) = Parent(b)
  <2>1. BlockOf(config, x).level = l /\ BlockOf(config, n).level = l
    BY <1>1, CellBlock
  <2>2. o = Ancestor(n, l - 1) /\ t = Ancestor(x, l - 1)
        /\ Parent(BlockOf(config, n)) = Ancestor(BlockOf(config, n), l - 1) /\ Parent(b) = Ancestor(b, l - 1)
    BY <1>1, <2>1 DEF Parent
  <2> HIDE DEF o, t
  <2>3. /\ o \in AllCells /\ o.level = l - 1 /\ \A d \in Axes(config) : o.at[d] = n.at[d] \div 2^(l - (l - 1))
        /\ BlockOf(config, o) = Ancestor(BlockOf(config, n), l - 1)
    <3>1. n \in AllCells /\ l - 1 \in 0 .. n.level
      BY <1>1
    <3>2. /\ Ancestor(n, l - 1) \in AllCells /\ Ancestor(n, l - 1).level = l - 1
          /\ \A d \in Axes(config) : Ancestor(n, l - 1).at[d] = n.at[d] \div 2^(n.level - (l - 1))
          /\ BlockOf(config, Ancestor(n, l - 1)) = Ancestor(BlockOf(config, n), l - 1)
      BY <3>1, CellAncestor
    <3>3. n.level = l
      BY <1>1
    <3> QED
      BY <2>2, <3>2, <3>3
  <2>4. /\ t \in AllCells /\ t.level = l - 1 /\ \A d \in Axes(config) : t.at[d] = x.at[d] \div 2^(l - (l - 1))
        /\ BlockOf(config, t) = Ancestor(b, l - 1)
    BY <1>1, <2>2, CellAncestor
  <2>5. 2^(l - (l - 1)) = 2
    BY <1>1, PowerOne
  <2> QED
    BY <2>2, <2>3, <2>4, <2>5
<1>4. /\ BlockOf(config, o) # BlockOf(config, t) /\ ~Under(BlockOf(config, t), blocks)
      /\ BlockOf(config, t) \in Locations(config) /\ BlockOf(config, o) \in Locations(config)
      /\ BlockOf(config, t).level = l - 1 /\ BlockOf(config, o).level = l - 1
      /\ \A d \in Axes(config) : /\ BlockOf(config, t).at[d] = t.at[d] \div C
                                 /\ BlockOf(config, o).at[d] = o.at[d] \div C
  <2>1. b.level = l
    BY <1>1, CellBlock
  <2>2. ~Under(BlockOf(config, t), blocks) /\ BlockOf(config, t) \notin blocks
    BY <1>3, <2>1, NotUnder
  <2> QED
    BY <1>3, <2>2, CellBlock
<1> HIDE DEF o, t, b, C, half
<1>5. \A d \in Axes(config) : d # axis => o.at[d] = t.at[d]
  BY <1>1, <1>3
<1>6. U \div C # V \div C
  <2> SUFFICES ASSUME U \div C = V \div C PROVE FALSE
    OBVIOUS
  <2>1. o.at[axis] = V /\ t.at[axis] = U
    BY <1>3
  <2> HIDE DEF U, V
  <2>2. \A d \in Axes(config) : BlockOf(config, o).at[d] = BlockOf(config, t).at[d]
    BY <1>4, <1>5, <2>1
  <2> QED
    BY <1>4, <2>2, SameLocation
<1>7. Grouped(C * 2^l, 2, C * half) /\ Grouped(C * half, C, half)
  BY <1>2 DEF Grouped
<1>8. Beside(U, V, C * half, side, config.periodic[axis]) /\ x.at[axis] % 2 = Edge(side, 2)
  <2> DEFINE X == x.at[axis]
             Y == n.at[axis]
             count == C * 2^l
             across == C * half
  <2>1. Beside(X, Y, count, side, config.periodic[axis]) /\ Grouped(count, 2, across)
    BY <1>1, <1>7
  <2> HIDE DEF X, Y, count, across
  <2>2. \/ Beside(X \div 2, Y \div 2, across, side, config.periodic[axis]) /\ X % 2 = Edge(side, 2)
        \/ X \div 2 = Y \div 2
    BY <2>1, BesideQuotient
  <2>3. X \div 2 # Y \div 2
    BY <1>6 DEF X, Y
  <2> QED
    BY <2>2, <2>3 DEF X, Y, across
<1>9. V % C = Edge(-side, C)
  BY <1>6, <1>7, <1>8, BesideQuotient
<1>10. FaceTo(t, o, axis, side)
  BY <1>3, <1>5, <1>8 DEF FaceTo, C, half
<1>11. FaceTo(o, t, axis, -side) /\ -side \in {-1, 1} /\ -(-side) = side
  BY <1>10, FaceBack
<1>12. t \in CellAcross(config, o, axis, -side)
  BY <1>3, <1>11, AcrossIs
<1>13. Locate(config, blocks, t) = {}
  BY <1>1, <1>3, <1>4, LocateIs
<1>14. x \in Facing(t, axis, -side)
  <2>1. t.level < config.maxLevel /\ x.level = t.level + 1 /\ \A d \in Axes(config) : x.at[d] \div 2 = t.at[d]
    <3>1. t.level = l - 1 /\ l <= config.maxLevel /\ x.level = l
      BY <1>1, <1>3
    <3>2. \A d \in Axes(config) : x.at[d] \div 2 = t.at[d]
      BY <1>3
    <3> HIDE DEF l
    <3>3. t.level < config.maxLevel /\ x.level = t.level + 1
      BY <1>1, <3>1
    <3> QED
      BY <3>2, <3>3
  <2>2. x \in Children(t)
    BY <1>1, <1>3, <2>1, CellHalves
  <2>3. Edge(side, 2) = IF -side = 1 THEN 0 ELSE 1
    <3>1. side = 1 => -side = -1
      BY Opposite
    <3>2. side = -1 => -side = 1
      BY Opposite
    <3> QED
      BY <3>1, <3>2 DEF Edge
  <2> QED
    BY <1>8, <2>2, <2>3 DEF Facing
<1>15. x \in Opposing(config, blocks, t, axis, -side)
  BY <1>13, <1>14 DEF Opposing
<1>16. BlockOf(config, o) \in blocks /\ o.at[axis] % C = Edge(-side, C)
  BY <1>3, <1>9
<1>17. Answered(blocks, x, o, axis, side)
  BY <1>3, <1>12, <1>15, <1>16 DEF Answered, C
<1> QED
  BY <1>17 DEF o

(* A block without a leaf above it has leaves below it. *)
LEMMA RoomBelow ==
  ASSUME config \in Configs, NEW blocks, Tiling(config, blocks), NEW m \in Locations(config), ~Under(m, blocks)
  PROVE  m.level < config.maxLevel
<1>1. PICK y \in Finest(config) : Ancestor(y, m.level) = m
  BY BlockOverFinest
<1>2. PICK f \in blocks : Ancestor(y, f.level) = f
  BY DEF Tiling, Covering
<1>3. /\ y \in Locations(config) /\ y.level = config.maxLevel /\ f.level \in Nat /\ f.level <= config.maxLevel
      /\ m.level \in Nat /\ m.level \in 0 .. y.level /\ config.maxLevel \in Nat
  BY Location, Levels DEF Finest, Tiling, Covering
<1>4. ~(f.level <= m.level)
  <2> SUFFICES ASSUME f.level <= m.level PROVE FALSE
    OBVIOUS
  <2>1. f.level \in 0 .. m.level
    BY <1>3
  <2>2. Ancestor(Ancestor(y, m.level), f.level) = Ancestor(y, f.level)
    BY <1>3, <2>1, AncestorOfAncestor
  <2> QED
    BY <1>1, <1>2, <2>2 DEF Under
<1> QED
  BY <1>3, <1>4

(* A refined block: there are leaves behind the face, and it is theirs. *)
LEMMA FineFace ==
  ASSUME config \in Configs, NEW blocks, Tiling(config, blocks), TooCoarse(blocks) = {}, NEW x, NEW n,
         NEW axis \in Axes(config), NEW side \in {-1, 1}, FaceTo(x, n, axis, side), BlockOf(config, x) \in blocks,
         x.at[axis] % config.cells = Edge(side, config.cells), ~Under(BlockOf(config, n), blocks),
         NEW q \in Facing(n, axis, side)
  PROVE  Answered(blocks, x, q, axis, side) /\ q.level = x.level + 1
<1> DEFINE C == config.cells
           l == x.level
           b == BlockOf(config, x)
           z == [level |-> l + 1, at |-> [d \in Axes(config) |->
                   IF d = axis THEN 2 * x.at[d] + Edge(side, 2) ELSE q.at[d]]]
<1>1. /\ x \in AllCells /\ n \in AllCells /\ n.level = l /\ l \in Nat /\ l \in 0 .. config.maxLevel
      /\ Beside(x.at[axis], n.at[axis], C * 2^l, side, config.periodic[axis])
      /\ \A d \in Axes(config) : d # axis => n.at[d] = x.at[d]
      /\ blocks \in SUBSET Locations(config) /\ C \in Nat \ {0} /\ config.maxLevel \in Nat
      /\ \A d \in Axes(config) : x.at[d] \in Nat /\ n.at[d] \in Nat
  BY Cell DEF FaceTo, Tiling, Covering
<1>2. l < config.maxLevel
  <2>1. BlockOf(config, n) \in Locations(config) /\ BlockOf(config, n).level = l
    BY <1>1, CellBlock
  <2> QED
    BY <2>1, RoomBelow
<1>3. /\ q \in AllCells /\ q.level = l + 1 /\ \A d \in Axes(config) : q.at[d] \div 2 = n.at[d]
      /\ q.at[axis] % 2 = IF side = 1 THEN 0 ELSE 1
  BY <1>1, <1>2, CellHalves DEF Facing
<1>4. Edge(-side, 2) = IF side = 1 THEN 0 ELSE 1
  <2>1. side = 1 => -side = -1
    BY Opposite
  <2>2. side = -1 => -side = 1
    BY Opposite
  <2> QED
    BY <2>1, <2>2 DEF Edge
<1>5. \A d \in Axes(config) : q.at[d] \in Nat
  BY <1>3, Cell
<1>6. q.at[axis] = 2 * n.at[axis] + Edge(-side, 2)
  <2>1. q.at[axis] = 2 * (q.at[axis] \div 2) + (q.at[axis] % 2)
    BY <1>5, Remainder
  <2> QED
    BY <1>3, <1>4, <2>1
<1>7. C * 2^(l + 1) = 2 * (C * 2^l) /\ C * 2^l \in Nat \ {0}
  <2> DEFINE P == 2^l
  <2>1. P \in Nat \ {0} /\ 2^(l + 1) = P * 2
    <3>1. 2^(l + 1) = P * 2^1
      BY <1>1, PowerSum
    <3> QED
      BY <1>1, <3>1, Power, PowerOne
  <2> HIDE DEF C, P
  <2>2. C * (P * 2) = 2 * (C * P) /\ C * P \in Nat \ {0}
    BY <1>1, <2>1
  <2> QED
    BY <2>1, <2>2 DEF P
<1>8. Beside(2 * x.at[axis] + Edge(side, 2), q.at[axis], C * 2^(l + 1), side, config.periodic[axis])
  <2> DEFINE all == C * 2^l
  <2>1. Beside(x.at[axis], n.at[axis], all, side, config.periodic[axis]) /\ all \in Nat \ {0} /\ side \in -1 .. 1
    BY <1>1, <1>7
  <2> HIDE DEF all
  <2>2. Beside(2 * x.at[axis] + Edge(side, 2), 2 * n.at[axis] + Edge(-side, 2), 2 * all, side, config.periodic[axis])
    BY <2>1, BesideProduct
  <2> QED
    BY <1>6, <1>7, <2>2 DEF all
<1>9. ASSUME NEW d \in Axes(config)
      PROVE  /\ z.at[d] = (IF d = axis THEN 2 * x.at[d] + Edge(side, 2) ELSE q.at[d])
             /\ z.at[d] \in Nat /\ z.at[d] < C * 2^(l + 1) /\ z.at[d] \div 2 = x.at[d]
  <2>1. z.at[d] = IF d = axis THEN 2 * x.at[d] + Edge(side, 2) ELSE q.at[d]
    OBVIOUS
  <2> HIDE DEF z, C
  <2>2. CASE d = axis
    <3>1. z.at[d] = 2 * x.at[d] + Edge(side, 2) /\ Edge(side, 2) \in 0 .. (2 - 1)
      BY <2>1, <2>2 DEF Edge
    <3>2. z.at[d] \in Nat /\ z.at[d] < C * 2^(l + 1)
      BY <1>7, <1>8, <2>2, <3>1 DEF Beside
    <3>3. z.at[d] \div 2 = x.at[d]
      <4> DEFINE X == x.at[d]
                 Z == z.at[d]
                 r == Edge(side, 2)
      <4>1. X \in Nat /\ Z = 2 * X + r /\ r \in 0 .. (2 - 1)
        BY <1>1, <3>1
      <4> HIDE DEF X, Z, r
      <4>2. Z \div 2 = X
        BY <4>1
      <4> QED
        BY <4>2 DEF X, Z
    <3> QED
      BY <2>1, <3>2, <3>3
  <2>3. CASE d # axis
    <3>1. q.at[d] \in Nat /\ q.at[d] < C * 2^(l + 1) /\ q.at[d] \div 2 = x.at[d]
      BY <1>1, <1>3, <2>3, Cell DEF OnGrid, C
    <3> QED
      BY <2>1, <2>3, <3>1
  <2> QED
    BY <2>2, <2>3
<1>10. z \in AllCells /\ z.level = l + 1
  <2>1. z.at \in [Axes(config) -> Nat] /\ z.level = l + 1 /\ l + 1 \in 0 .. config.maxLevel
    BY <1>1, <1>2, <1>9
  <2>2. z \in [level : 0 .. config.maxLevel, at : [Axes(config) -> Nat]]
    BY <2>1
  <2> HIDE DEF z
  <2> QED
    BY <1>9, <2>1, <2>2 DEF AllCells, C
<1> HIDE DEF z, b, C
<1>11. FaceTo(z, q, axis, side)
  BY <1>3, <1>8, <1>9, <1>10 DEF FaceTo, C
<1>12. /\ Ancestor(z, l) = x /\ Ancestor(BlockOf(config, z), l) = b
       /\ Ancestor(BlockOf(config, q), l) = BlockOf(config, n)
  BY <1>1, <1>3, <1>9, <1>10, HalfOf DEF b
<1>13. /\ BlockOf(config, z) \in Locations(config) /\ BlockOf(config, q) \in Locations(config)
       /\ BlockOf(config, z).level = l + 1 /\ BlockOf(config, q).level = l + 1 /\ b.level = l /\ b \in blocks
  BY <1>1, <1>3, <1>10, CellBlock DEF b
<1>14. BlockOf(config, q) \in blocks
  <2>1. Close(BlockOf(config, z), BlockOf(config, q))
    BY <1>11, FaceClose
  <2> QED
    BY <1>12, <1>13, <2>1, NearLeaf
<1>15. q.at[axis] % C = Edge(-side, C)
  <2>1. Grouped(C * 2^l, C, 2^l)
    BY <1>1, Power DEF Grouped
  <2>2. n.at[axis] % C = Edge(-side, C)
    BY <1>1, <2>1, BesideQuotient DEF C
  <2>3. -side \in {-1, 1}
    BY FaceBack
  <2>4. (2 * n.at[axis] + Edge(-side, 2)) % C = Edge(-side, C)
    BY <1>1, <2>2, <2>3, HalfAtEdge
  <2> QED
    BY <1>6, <2>4
<1>16. z \in CellAcross(config, q, axis, -side)
  BY <1>3, <1>11, FaceBack, AcrossIs
<1>17. x \in Locate(config, blocks, z)
  <2>1. b \in blocks /\ b.level \in 0 .. z.level /\ Ancestor(BlockOf(config, z), b.level) = b /\ x = Ancestor(z, b.level)
    BY <1>1, <1>10, <1>12, <1>13
  <2> QED
    BY <1>1, <1>10, <2>1, LocateIs
<1>18. x \in Opposing(config, blocks, z, axis, -side)
  BY <1>17 DEF Opposing
<1> QED
  BY <1>3, <1>14, <1>15, <1>16, <1>18 DEF Answered, C
(* Every entry of the plans is answered, and the level says which plan. *)
LEMMA Reciprocal ==
  ASSUME config \in Configs, NEW blocks, Tiling(config, blocks), TooCoarse(blocks) = {}, NEW x \in AllCells,
         BlockOf(config, x) \in blocks, NEW axis \in Axes(config), NEW side \in {-1, 1},
         x.at[axis] % config.cells = Edge(side, config.cells), NEW n \in CellAcross(config, x, axis, side),
         NEW o \in Opposing(config, blocks, n, axis, side)
  PROVE  Answered(blocks, x, o, axis, side) /\ (o.level > x.level <=> Locate(config, blocks, n) = {})
<1> DEFINE b == BlockOf(config, x)
           m == BlockOf(config, n)
           l == x.level
<1>1. /\ FaceTo(x, n, axis, side) /\ n \in AllCells /\ n.level = l /\ l \in Nat
      /\ blocks \in SUBSET Locations(config)
  <2>1. FaceTo(x, n, axis, side)
    BY AcrossIs
  <2> QED
    BY <2>1, Cell DEF FaceTo, Tiling, Covering
<1>2. b \in blocks /\ b \in Locations(config) /\ b.level = l /\ m \in Locations(config) /\ m.level = l /\ Close(b, m)
  BY <1>1, CellBlock, FaceClose
<1>3. CASE Locate(config, blocks, n) # {}
  <2>1. o \in Locate(config, blocks, n)
    BY <1>3 DEF Opposing
  <2>2. PICK a \in blocks : a.level \in 0 .. n.level /\ Ancestor(m, a.level) = a /\ o = Ancestor(n, a.level)
    BY <1>1, <2>1, LocateIs
  <2>3. a.level \in 0 .. b.level
    BY <1>1, <1>2, <2>2
  <2>4. a.level >= b.level - 1
    BY <1>2, <2>2, <2>3, LevelNear
  <2>5. CASE a.level = l
    <3>1. a = m /\ o = n
      BY <1>1, <1>2, <2>2, <2>5, SelfAncestor, CellSelf
    <3>2. Answered(blocks, x, n, axis, side)
      BY <1>1, <1>2, <3>1, EqualFace
    <3>3. ~(o.level > l)
      BY <1>1, <3>1
    <3> QED
      BY <1>3, <3>1, <3>2, <3>3
  <2>6. CASE a.level = l - 1
    <3>1. l > 0 /\ Parent(n) = o /\ Parent(m) = a
      BY <1>1, <1>2, <2>2, <2>6 DEF Parent
    <3>2. Answered(blocks, x, Parent(n), axis, side)
      BY <1>1, <1>2, <3>1, CoarseFace
    <3>3. o.level = l - 1
      <4>1. a.level \in 0 .. n.level
        BY <2>2
      <4>2. Ancestor(n, a.level).level = a.level
        BY <1>1, <4>1, CellAncestor
      <4> QED
        BY <2>2, <2>6, <4>2
    <3>4. ~(o.level > l)
      BY <1>1, <3>3
    <3> QED
      BY <1>3, <3>1, <3>2, <3>4
  <2>7. a.level = l \/ a.level = l - 1
    BY <1>1, <1>2, <2>3, <2>4
  <2> QED
    BY <2>5, <2>6, <2>7
<1>4. CASE Locate(config, blocks, n) = {}
  <2>1. o \in Facing(n, axis, side) /\ ~Under(m, blocks)
    BY <1>1, <1>4, LocateIs DEF Opposing
  <2>2. Answered(blocks, x, o, axis, side) /\ o.level = l + 1
    BY <1>1, <1>2, <2>1, FineFace
  <2>3. o.level > l
    BY <1>1, <2>2
  <2> QED
    BY <1>4, <2>2, <2>3
<1> QED
  BY <1>3, <1>4

(* Ghost cells are within two cells of the block. *)
LEMMA GhostCell ==
  ASSUME config \in Configs, NEW b \in Locations(config), NEW g \in GhostsOf(config, b)
  PROVE  /\ g \in AllCells /\ g.level = b.level
         /\ \E i \in [Axes(config) -> -2 .. (config.cells + 1)] : \A d \in Axes(config) :
              LET moved == config.cells * b.at[d] + i[d]
                  count == config.cells * 2^b.level
              IN g.at[d] = moved % count /\ (config.periodic[d] \/ moved \in 0 .. (count - 1))
<1> DEFINE C == config.cells
           count == C * 2^b.level
           corner == [b EXCEPT !.at = [d \in Axes(config) |-> C * b.at[d]]]
           moved(i) == [d \in Axes(config) |-> corner.at[d] + i[d]]
           Leaves(i) == \E d \in Axes(config) : ~config.periodic[d] /\ moved(i)[d] \notin 0 .. (count - 1)
<1>1. PICK i \in [Axes(config) -> -2 .. (C + 1)] : g \in Shifted(config, corner, i, count)
  BY DEF GhostsOf
<1>2. ~Leaves(i) /\ g = [corner EXCEPT !.at = [d \in Axes(config) |-> moved(i)[d] % count]]
  <2>1. Shifted(config, corner, i, count) =
          IF Leaves(i) THEN {} ELSE {[corner EXCEPT !.at = [d \in Axes(config) |-> moved(i)[d] % count]]}
    BY DEF Shifted
  <2> HIDE DEF Leaves, moved, corner
  <2> QED
    BY <1>1, <2>1
<1>3. /\ b = [level |-> b.level, at |-> b.at] /\ b.level \in 0 .. config.maxLevel
      /\ \A d \in Axes(config) : b.at[d] \in Nat
      /\ C \in Nat \ {0} /\ 2^b.level \in Nat \ {0}
  <2>1. C \in Nat \ {0} /\ config.maxLevel \in Nat
    BY RegridAssumption DEF IsConfig
  <2>2. b = [level |-> b.level, at |-> b.at] /\ b.level \in 0 .. config.maxLevel /\ \A d \in Axes(config) : b.at[d] \in Nat
    BY Location
  <2> QED
    BY <2>1, <2>2, Power
<1>4. count \in Nat \ {0}
  <2> DEFINE P == 2^b.level
  <2> HIDE DEF P, C
  <2>1. C * P \in Nat \ {0}
    BY <1>3 DEF P
  <2> QED
    BY <2>1 DEF P
<1>5. corner = [level |-> b.level, at |-> [d \in Axes(config) |-> C * b.at[d]]]
  BY <1>3
<1>6. \A d \in Axes(config) : moved(i)[d] = C * b.at[d] + i[d] /\ moved(i)[d] \in Int
  <2>1. \A d \in Axes(config) : moved(i)[d] = C * b.at[d] + i[d]
    BY <1>5
  <2>2. \A d \in Axes(config) : C * b.at[d] \in Int /\ i[d] \in Int
    BY <1>3
  <2> HIDE DEF moved, corner
  <2> QED
    BY <2>1, <2>2
<1>7. g = [level |-> b.level, at |-> [d \in Axes(config) |-> moved(i)[d] % count]]
  BY <1>2, <1>5
<1> DEFINE move == moved(i)
<1> HIDE DEF count, moved, corner
<1>8. \A d \in Axes(config) : /\ g.at[d] = move[d] % count /\ g.at[d] \in Nat /\ g.at[d] < count
                              /\ config.periodic[d] \/ move[d] \in 0 .. (count - 1)
  BY <1>2, <1>4, <1>6, <1>7
<1>9. g \in AllCells /\ g.level = b.level
  <2>1. g.at \in [Axes(config) -> Nat] /\ g.level = b.level
    BY <1>7, <1>8
  <2>2. g \in [level : 0 .. config.maxLevel, at : [Axes(config) -> Nat]]
    BY <1>3, <1>7, <2>1
  <2> QED
    BY <1>8, <2>1, <2>2 DEF AllCells, count
<1> QED
  BY <1>1, <1>6, <1>8, <1>9 DEF count

(* What is between a ghost's half and the block: a half of the block. *)
LEMMA GhostSide ==
  ASSUME config \in Configs, NEW b \in Locations(config), NEW g \in GhostsOf(config, b), NEW d \in Axes(config),
         NEW t \in {0, 1}
  PROVE  \E T \in Nat : T \div 2 = b.at[d] /\ \E s \in -1 .. 1 :
           Beside(T, (2 * g.at[d] + t) \div config.cells, 2 * 2^b.level, s, config.periodic[d])
<1> DEFINE C == config.cells
           N == 2^b.level
           B == b.at[d]
<1>1. C \in Nat /\ C >= 4 /\ N \in Nat \ {0} /\ B \in 0 .. (N - 1)
  <2>1. C \in Nat /\ C >= 4 /\ b.level \in Nat /\ B \in Nat /\ B < N
    BY RegridAssumption, Location, Levels DEF IsConfig
  <2>2. N \in Nat \ {0}
    BY <2>1, Power
  <2> QED
    BY <2>1, <2>2
<1>2. PICK i \in [Axes(config) -> -2 .. (C + 1)] :
        g.at[d] = (C * B + i[d]) % (C * N) /\ (config.periodic[d] \/ C * B + i[d] \in 0 .. (C * N - 1))
  <2>1. PICK i \in [Axes(config) -> -2 .. (C + 1)] : \A e \in Axes(config) :
              LET moved == C * b.at[e] + i[e]
                  count == C * N
              IN g.at[e] = moved % count /\ (config.periodic[e] \/ moved \in 0 .. (count - 1))
    BY GhostCell
  <2> QED
    BY <2>1
<1> DEFINE j == i[d]
<1>3. j \in -2 .. (C + 1) /\ (config.periodic[d] \/ C * B + j \in 0 .. (C * N - 1)) /\ g.at[d] = (C * B + j) % (C * N)
  BY <1>2
<1> HIDE DEF C, N, B, j
<1>4. LET q == (2 * ((C * B + j) % (C * N)) + t) \div C
      IN \E T \in Nat : T \div 2 = B /\ \E s \in -1 .. 1 : Beside(T, q, 2 * N, s, config.periodic[d])
  BY <1>1, <1>3, GhostBeside
<1>5. \E T \in Nat : T \div 2 = B /\ \E s \in -1 .. 1 :
        Beside(T, (2 * g.at[d] + t) \div C, 2 * N, s, config.periodic[d])
  BY <1>3, <1>4
<1> QED
  BY <1>5 DEF C, N, B

(* The block of a ghost cell touches the block it is a ghost of. *)
LEMMA GhostClose ==
  ASSUME config \in Configs, NEW b \in Locations(config), NEW g \in GhostsOf(config, b)
  PROVE  Close(b, BlockOf(config, g))
<1> DEFINE C == config.cells
           N == 2^b.level
<1>1. /\ g \in AllCells /\ g.level = b.level /\ BlockOf(config, g).level = b.level
      /\ \A d \in Axes(config) : g.at[d] \in Nat /\ BlockOf(config, g).at[d] = g.at[d] \div C
      /\ C \in Nat \ {0} /\ N \in Nat \ {0}
  <2>1. g \in AllCells /\ g.level = b.level
    BY GhostCell
  <2> QED
    BY <2>1, Cell, CellBlock
<1>2. Grouped(2 * N, 2, N)
  BY <1>1 DEF Grouped
<1>3. ASSUME NEW d \in Axes(config)
      PROVE  \E s \in -1 .. 1 : Beside(b.at[d], g.at[d] \div C, N, s, config.periodic[d])
  <2> DEFINE G == g.at[d]
             q == (2 * G + 0) \div C
  <2>1. PICK T \in Nat : T \div 2 = b.at[d] /\ \E s \in -1 .. 1 : Beside(T, q, 2 * N, s, config.periodic[d])
    <3>1. 0 \in {0, 1}
      OBVIOUS
    <3> QED
      BY <3>1, GhostSide
  <2>2. q \div 2 = G \div C
    <3>1. 2 * G + 0 \in Nat /\ (2 * G + 0) \div 2 = G /\ G \in Nat
      BY <1>1
    <3> DEFINE M == 2 * G + 0
    <3> DEFINE K == C
    <3>2. M \in Nat /\ M \div 2 = G /\ K \in Nat \ {0} /\ 2 \in Nat \ {0}
      BY <1>1, <3>1
    <3> HIDE DEF M, K, G
    <3>3. (M \div K) \div 2 = M \div (K * 2)
      BY <3>2, QuotientTwice
    <3>4. (M \div 2) \div K = M \div (2 * K)
      BY <3>2, QuotientTwice
    <3>5. K * 2 = 2 * K
      BY <3>2
    <3>6. (M \div K) \div 2 = G \div K
      BY <3>2, <3>3, <3>4, <3>5
    <3> QED
      BY <3>6 DEF M, K
  <2> HIDE DEF q, N
  <2>3. \E s \in -1 .. 1 : Beside(T \div 2, q \div 2, N, s, config.periodic[d])
    BY <1>2, <2>1, BesideAbove
  <2> QED
    BY <2>1, <2>2, <2>3
<1> QED
  BY <1>1, <1>3 DEF Close

(* And the blocks of its halves touch one of that block's halves. *)
LEMMA GhostHalf ==
  ASSUME config \in Configs, NEW b \in Locations(config), b.level < config.maxLevel,
         NEW g \in GhostsOf(config, b), NEW q \in Children(g)
  PROVE  \E h \in Locations(config) : /\ h.level = b.level + 1 /\ Ancestor(h, b.level) = b
                                      /\ Close(h, BlockOf(config, q))
<1> DEFINE C == config.cells
           k == b.level + 1
           Q == BlockOf(config, q)
           Leads(d, T) == T \div 2 = b.at[d] /\ \E s \in -1 .. 1 : Beside(T, Q.at[d], 2^k, s, config.periodic[d])
           at == [d \in Axes(config) |-> CHOOSE T \in Nat : Leads(d, T)]
           h == [level |-> k, at |-> at]
<1>1. g \in AllCells /\ g.level = b.level /\ b.level \in Nat /\ config.maxLevel \in Nat
  BY GhostCell, Location, Levels
<1>2. q \in AllCells /\ q.level = k /\ \A d \in Axes(config) : q.at[d] \div 2 = g.at[d]
  BY <1>1, CellHalves
<1>3. Q.level = k /\ \A d \in Axes(config) : Q.at[d] = q.at[d] \div C
  BY <1>2, CellBlock
<1>4. 2^k = 2 * 2^b.level /\ 2^k \in Nat /\ k \in 0 .. config.maxLevel
  <2>1. 2^k = 2^b.level * 2^1 /\ 2^b.level \in Nat
    BY <1>1, PowerSum, Power
  <2> QED
    BY <1>1, <2>1, PowerOne
<1> HIDE DEF Q
<1>5. ASSUME NEW d \in Axes(config) PROVE \E T \in Nat : Leads(d, T)
  <2> DEFINE t == q.at[d] % 2
             G == g.at[d]
  <2>1. t \in {0, 1} /\ q.at[d] = 2 * G + t
    <3>1. q.at[d] \in Nat
      BY <1>2, Cell
    <3>2. q.at[d] = 2 * (q.at[d] \div 2) + (q.at[d] % 2)
      BY <3>1, Remainder
    <3> QED
      BY <1>2, <3>1, <3>2
  <2> HIDE DEF t, G
  <2>2. \E T \in Nat : T \div 2 = b.at[d] /\ \E s \in -1 .. 1 :
          Beside(T, (2 * G + t) \div C, 2 * 2^b.level, s, config.periodic[d])
    BY <2>1, GhostSide DEF G
  <2> QED
    BY <1>3, <1>4, <2>1, <2>2
<1> HIDE DEF Leads
<1>6. \A d \in Axes(config) : at[d] \in Nat /\ Leads(d, at[d])
  BY <1>5
<1>7. at \in [Axes(config) -> Nat]
  BY <1>6
<1> HIDE DEF at
<1>8. \A d \in Axes(config) : at[d] < 2^k /\ at[d] \div 2 = b.at[d]
  BY <1>4, <1>6 DEF Leads, Beside
<1>9. h.level = k /\ h.at = at
  OBVIOUS
<1>10. h \in Locations(config)
  BY <1>4, <1>7, <1>8 DEF Locations
<1> HIDE DEF h
<1>11. Close(h, Q)
  BY <1>3, <1>6, <1>9 DEF Close, Leads
<1>12. Ancestor(h, b.level) = b
  <2>1. h.level > 0 /\ b.level = h.level - 1
    BY <1>1, <1>9
  <2>2. /\ Parent(h) \in Locations(config) /\ Parent(h).level = b.level
        /\ \A d \in Axes(config) : Parent(h).at[d] = h.at[d] \div 2
    BY <1>10, <2>1, ParentIs
  <2>3. \A d \in Axes(config) : Parent(h).at[d] = b.at[d]
    BY <1>8, <1>9, <2>2
  <2>4. Parent(h) = b
    BY <2>2, <2>3, SameLocation
  <2> QED
    BY <2>1, <2>4 DEF Parent
<1> QED
  BY <1>9, <1>10, <1>11, <1>12 DEF Q

(* A ghost cell is at most one level from the leaves over it. *)
LEMMA GhostNear ==
  ASSUME config \in Configs, NEW blocks, Tiling(config, blocks), TooCoarse(blocks) = {}, NEW b \in blocks,
         NEW g \in GhostsOf(config, b)
  PROVE  \/ \E x \in Locate(config, blocks, g) : x.level >= g.level - 1
         \/ \A x \in Children(g) : BlockOf(config, x) \in blocks
<1> DEFINE m == BlockOf(config, g)
<1>1. /\ b \in Locations(config) /\ blocks \in SUBSET Locations(config) /\ g \in AllCells /\ g.level = b.level
      /\ b.level \in Nat
  <2>1. b \in Locations(config) /\ blocks \in SUBSET Locations(config)
    BY DEF Tiling, Covering
  <2> QED
    BY <2>1, GhostCell, Location, Levels
<1>2. m \in Locations(config) /\ m.level = b.level /\ Close(b, m)
  BY <1>1, CellBlock, GhostClose
<1>3. CASE Locate(config, blocks, g) # {}
  <2>1. PICK o : o \in Locate(config, blocks, g)
    BY <1>3
  <2>2. PICK a \in blocks : a.level \in 0 .. g.level /\ Ancestor(m, a.level) = a /\ o = Ancestor(g, a.level)
    BY <1>1, <2>1, LocateIs
  <2>3. a.level \in 0 .. b.level
    BY <1>1, <2>2
  <2>4. a.level >= b.level - 1
    BY <1>2, <2>2, <2>3, LevelNear
  <2>5. o.level = a.level
    BY <1>1, <2>2, CellAncestor
  <2> QED
    BY <1>1, <2>1, <2>4, <2>5
<1>4. CASE Locate(config, blocks, g) = {}
  <2>1. ~Under(m, blocks)
    BY <1>1, <1>4, LocateIs
  <2>2. b.level < config.maxLevel
    BY <1>2, <2>1, RoomBelow
  <2>3. ASSUME NEW x \in Children(g) PROVE BlockOf(config, x) \in blocks
    <3> DEFINE q == BlockOf(config, x)
    <3>1. x \in AllCells /\ x.level = g.level + 1 /\ \A d \in Axes(config) : x.at[d] \div 2 = g.at[d]
      BY <1>1, <2>2, CellHalves
    <3>2. q \in Locations(config) /\ Ancestor(q, b.level) = m
      BY <1>1, <3>1, CellBlock, HalfOf
    <3>3. PICK h \in Locations(config) : h.level = b.level + 1 /\ Ancestor(h, b.level) = b /\ Close(h, q)
      BY <1>1, <2>2, GhostHalf
    <3> HIDE DEF q, m
    <3>4. q \in blocks
      BY <2>1, <3>2, <3>3, NearLeaf
    <3> QED
      BY <3>4 DEF q
  <2> QED
    BY <2>3
<1> QED
  BY <1>3, <1>4

(* FacesPaired on a balanced mesh. *)
LEMMA BalancedFaces ==
  ASSUME config \in Configs, NEW blocks, Tiling(config, blocks), TooCoarse(blocks) = {}
  PROVE  LET work == WorkPlan(config, blocks)
             leafCell(x) == BlockOf(config, x) \in blocks
         IN /\ \A e \in work : leafCell(e[2]) /\ <<e[2], e[1], e[3], -e[4]>> \in work
            /\ RefluxPlan(config, blocks) = {e \in work : e[2].level > e[1].level}
            /\ \A b \in blocks : \A g \in GhostsOf(config, b) :
                 \/ \E x \in Locate(config, blocks, g) : x.level >= g.level - 1
                 \/ \A x \in Children(g) : leafCell(x)
<1> DEFINE work == WorkPlan(config, blocks)
           reflux == RefluxPlan(config, blocks)
<1>0. blocks \in SUBSET Locations(config)
  BY DEF Tiling, Covering
<1>1. ASSUME NEW b \in blocks, NEW x \in CellsOf(config, b), NEW axis \in Axes(config), NEW side \in {-1, 1},
             Facet(config, b, x, axis, side), NEW n \in CellAcross(config, x, axis, side),
             NEW o \in Opposing(config, blocks, n, axis, side)
      PROVE  /\ BlockOf(config, o) \in blocks /\ <<o, x, axis, -side>> \in work
             /\ o.level > x.level <=> Locate(config, blocks, n) = {}
  <2>1. x \in AllCells /\ BlockOf(config, x) = b /\ x.at[axis] % config.cells = Edge(side, config.cells)
    BY <1>0, <1>1, CellsOfIs DEF Facet
  <2>2. Answered(blocks, x, o, axis, side) /\ (o.level > x.level <=> Locate(config, blocks, n) = {})
    BY <2>1, Reciprocal
  <2>3. /\ BlockOf(config, o) \in blocks /\ o \in AllCells /\ -side \in {-1, 1}
        /\ o.at[axis] % config.cells = Edge(-side, config.cells)
    <3>1. -side \in {-1, 1}
      <4>1. side = 1 => -side = -1
        BY Opposite
      <4>2. side = -1 => -side = 1
        BY Opposite
      <4> QED
        BY <4>1, <4>2
    <3> QED
      BY <2>2, <3>1 DEF Answered
  <2>4. PICK t \in CellAcross(config, o, axis, -side) : x \in Opposing(config, blocks, t, axis, -side)
    BY <2>2 DEF Answered
  <2>5. o \in CellsOf(config, BlockOf(config, o)) /\ Facet(config, BlockOf(config, o), o, axis, -side)
    BY <1>0, <2>3, CellsOfIs DEF Facet
  <2> DEFINE back == -side
             c == BlockOf(config, o)
  <2>6. /\ c \in blocks /\ o \in CellsOf(config, c) /\ back \in {-1, 1} /\ Facet(config, c, o, axis, back)
        /\ t \in CellAcross(config, o, axis, back) /\ x \in Opposing(config, blocks, t, axis, back)
    BY <2>3, <2>4, <2>5
  <2> HIDE DEF back, c
  <2>7. <<o, x, axis, back>> \in WorkPlan(config, blocks)
    <3> DEFINE e == <<o, x, axis, back>>
    <3>1. \E p \in Opposing(config, blocks, t, axis, back) : e = <<o, p, axis, back>>
      BY <2>6
    <3> HIDE DEF e
    <3>2. \E s \in CellAcross(config, o, axis, back) : \E p \in Opposing(config, blocks, s, axis, back) :
            e = <<o, p, axis, back>>
      BY <2>6, <3>1, Zenon
    <3>3. WorkFrom(config, blocks, c, e)
      BY <2>6, <3>2, Zenon DEF WorkFrom
    <3>4. e \in WorkPlan(config, blocks)
      BY <2>6, <3>3, WorkEntry
    <3> QED
      BY <3>4 DEF e
  <2> QED
    BY <2>2, <2>3, <2>7 DEF back
<1>2. ASSUME NEW e \in work PROVE BlockOf(config, e[2]) \in blocks /\ <<e[2], e[1], e[3], -e[4]>> \in work
  <2>1. PICK b \in blocks : WorkFrom(config, blocks, b, e)
    BY WorkEntry
  <2>2. PICK x \in CellsOf(config, b), axis \in Axes(config), side \in {-1, 1} :
             /\ Facet(config, b, x, axis, side)
             /\ \E n \in CellAcross(config, x, axis, side) : \E o \in Opposing(config, blocks, n, axis, side) :
                  e = <<x, o, axis, side>>
    BY <2>1, Zenon DEF WorkFrom
  <2>3. PICK n \in CellAcross(config, x, axis, side) : \E o \in Opposing(config, blocks, n, axis, side) :
             e = <<x, o, axis, side>>
    BY <2>2
  <2>4. PICK o \in Opposing(config, blocks, n, axis, side) : e = <<x, o, axis, side>>
    BY <2>3
  <2>5. e[1] = x /\ e[2] = o /\ e[3] = axis /\ e[4] = side
    BY <2>4
  <2>6. BlockOf(config, o) \in blocks /\ <<o, x, axis, -side>> \in work
    BY <1>1, <2>2
  <2> HIDE DEF work
  <2> QED
    BY <2>5, <2>6
<1>3. ASSUME NEW e \in reflux PROVE e \in work /\ e[2].level > e[1].level
  <2>1. PICK b \in blocks : RefluxFrom(config, blocks, b, e)
    BY RefluxEntry
  <2>2. PICK x \in CellsOf(config, b), axis \in Axes(config), side \in {-1, 1} :
             /\ Facet(config, b, x, axis, side)
             /\ \E n \in CellAcross(config, x, axis, side) :
                  /\ Locate(config, blocks, n) = {}
                  /\ \E o \in Facing(n, axis, side) : e = <<x, o, axis, side>>
    BY <2>1, Zenon DEF RefluxFrom
  <2>3. PICK n \in CellAcross(config, x, axis, side) :
                  /\ Locate(config, blocks, n) = {}
                  /\ \E o \in Facing(n, axis, side) : e = <<x, o, axis, side>>
    BY <2>2
  <2>4. PICK o \in Facing(n, axis, side) : e = <<x, o, axis, side>>
    BY <2>3
  <2>5. e[1] = x /\ e[2] = o
    BY <2>4
  <2>6. o \in Opposing(config, blocks, n, axis, side)
    BY <2>3 DEF Opposing
  <2>7. o.level > x.level
    BY <1>1, <2>2, <2>3, <2>6
  <2>8. e \in work
    <3>1. \E s \in CellAcross(config, x, axis, side) : \E p \in Opposing(config, blocks, s, axis, side) :
            e = <<x, p, axis, side>>
      BY <2>4, <2>6, Zenon
    <3>2. WorkFrom(config, blocks, b, e)
      BY <2>2, <3>1, Zenon DEF WorkFrom
    <3> QED
      BY <3>2, WorkEntry
  <2> QED
    BY <2>5, <2>7, <2>8
<1>4. ASSUME NEW e \in work, e[2].level > e[1].level PROVE e \in reflux
  <2>1. PICK b \in blocks : WorkFrom(config, blocks, b, e)
    BY WorkEntry
  <2>2. PICK x \in CellsOf(config, b), axis \in Axes(config), side \in {-1, 1} :
             /\ Facet(config, b, x, axis, side)
             /\ \E n \in CellAcross(config, x, axis, side) : \E o \in Opposing(config, blocks, n, axis, side) :
                  e = <<x, o, axis, side>>
    BY <2>1, Zenon DEF WorkFrom
  <2>3. PICK n \in CellAcross(config, x, axis, side) : \E o \in Opposing(config, blocks, n, axis, side) :
             e = <<x, o, axis, side>>
    BY <2>2
  <2>4. PICK o \in Opposing(config, blocks, n, axis, side) : e = <<x, o, axis, side>>
    BY <2>3
  <2>5. e[1] = x /\ e[2] = o
    BY <2>4
  <2>6. Locate(config, blocks, n) = {}
    <3>1. /\ BlockOf(config, o) \in blocks /\ <<o, x, axis, -side>> \in work
          /\ o.level > x.level <=> Locate(config, blocks, n) = {}
      BY <1>1, <2>2
    <3> HIDE DEF work, reflux
    <3> QED
      BY <1>4, <2>5, <3>1
  <2>7. o \in Facing(n, axis, side)
    BY <2>6 DEF Opposing
  <2>8. \E s \in CellAcross(config, x, axis, side) :
          /\ Locate(config, blocks, s) = {}
          /\ \E p \in Facing(s, axis, side) : e = <<x, p, axis, side>>
    BY <2>4, <2>6, <2>7, Zenon
  <2>9. RefluxFrom(config, blocks, b, e)
    BY <2>2, <2>8, Zenon DEF RefluxFrom
  <2> QED
    BY <2>9, RefluxEntry
<1>5. reflux = {e \in work : e[2].level > e[1].level}
  <2> HIDE DEF reflux, work
  <2> QED
    BY <1>3, <1>4
<1>6. \A b \in blocks : \A g \in GhostsOf(config, b) :
        \/ \E x \in Locate(config, blocks, g) : x.level >= g.level - 1
        \/ \A x \in Children(g) : BlockOf(config, x) \in blocks
  BY GhostNear
<1>7. \A e \in work : BlockOf(config, e[2]) \in blocks /\ <<e[2], e[1], e[3], -e[4]>> \in work
  BY <1>2, Zenon
<1> QED
  BY <1>5, <1>6, <1>7, Zenon

-----------------------------------------------------------------------------
(***************************************************************************)
(* The invariant: the published mesh and the one a regrid works on cover   *)
(* the domain, and the budget of the last regrid is enough for the step    *)
(* that may be taken next.                                                 *)
(***************************************************************************)
Meshes ==
  /\ Tiling(config, leaves) /\ (call # "startup" => Even(leaves))
  /\ candidate \subseteq Locations(config)
  /\ call \in {"regrid", "install"} => Tiling(config, candidate) /\ Even(candidate)
Tracker ==
  /\ call = "startup" => travel = 0 /\ ~coarsened
  /\ coarsened \/ (travel <= budget /\ (call = "advance" => travel + Lookahead <= budget))
Room == call \in {"regrid", "install", "advance"} => steps < MaxSteps
Sound == TypeOK /\ Meshes /\ Tracker
IInv == Sound /\ Room

(* What the types say of the numbers. *)
LEMMA Numbers ==
  ASSUME TypeOK, Tiling(config, leaves)
  PROVE  /\ config \in Configs /\ config.timeRefinement \in BOOLEAN
         /\ limit \in Nat /\ {travel, budget, age, pass, steps, faults} \subseteq Nat
         /\ FinestStep(leaves) \in Nat /\ StableStep(leaves) \in Nat /\ Lookahead \in Nat /\ Horizon \in Nat
         /\ config.signalBuffer * Horizon \in Nat /\ Lookahead <= config.signalBuffer * Horizon
<1>1. config \in Configs /\ config.timeRefinement \in BOOLEAN
  BY RegridAssumption DEF TypeOK, IsConfig
<1>2. limit \in Nat /\ {travel, budget, age, pass, steps, faults} \subseteq Nat
  BY <1>1, Levels, RegridAssumption DEF TypeOK
<1>3. FinestStep(leaves) \in Nat /\ StableStep(leaves) \in Nat
  BY <1>1, StepType DEF Tiling
<1>4. Lookahead \in Nat
  BY <1>2, <1>3 DEF Lookahead, Lesser
<1> DEFINE a == config.regridEvery
           b == config.signalBuffer
           l == Lookahead
<1>5. a \in Nat \ {0} /\ b \in Nat \ {0} /\ l \in Nat
  BY <1>1, <1>4, Levels
<1>6. Horizon = a * l
  BY DEF Horizon
<1> HIDE DEF a, b, l
<1>7. a * l \in Nat /\ l <= a * l
  BY <1>5
<1> DEFINE h == a * l
<1>8. h \in Nat /\ l <= h /\ Horizon = h
  BY <1>6, <1>7
<1> HIDE DEF h
<1>9. b * h \in Nat /\ h <= b * h
  BY <1>5, <1>8
<1>10. l <= b * h
  BY <1>5, <1>8, <1>9
<1> QED
  BY <1>1, <1>2, <1>3, <1>4, <1>8, <1>9, <1>10 DEF b, l

(* The startup begins with the root block. *)
LEMMA InitSound == Init => Sound
<1> SUFFICES ASSUME Init PROVE Sound
  OBVIOUS
<1>1. config \in Configs
  BY DEF Init
<1>2. leaves = {Root(config)} /\ Root(config) = [level |-> 0, at |-> [d \in Axes(config) |-> 0]]
  BY DEF Init, Root
<1>3. config.maxLevel \in Nat
  BY <1>1, Levels
<1>4. Root(config) \in Locations(config) /\ Root(config).level = 0 /\ 0 \in 0 .. config.maxLevel
  <2>1. \A d \in Axes(config) : Root(config).at[d] < 2^Root(config).level
    BY <1>2, PowerZero
  <2>2. Root(config).at \in [Axes(config) -> Nat] /\ 0 \in 0 .. config.maxLevel
    BY <1>2, <1>3
  <2> DEFINE root == Root(config)
  <2>3. root.level = 0 /\ root \in [level : 0 .. config.maxLevel, at : [Axes(config) -> Nat]]
    BY <1>2, <2>2
  <2>4. \A d \in Axes(config) : root.at[d] < 2^root.level
    BY <2>1
  <2> HIDE DEF root
  <2>5. root \in Locations(config)
    BY <2>3, <2>4, Zenon DEF Locations
  <2> QED
    BY <2>2, <2>3, <2>5 DEF root
<1>5. ASSUME NEW x \in Finest(config) PROVE Ancestor(x, 0) = Root(config)
  <2>1. x \in Locations(config) /\ 0 \in 0 .. x.level /\ x.level \in Nat
    BY <1>3, Location DEF Finest
  <2>2. /\ Ancestor(x, 0) \in Locations(config) /\ Ancestor(x, 0).level = 0
        /\ \A d \in Axes(config) : Ancestor(x, 0).at[d] = x.at[d] \div 2^(x.level - 0)
    BY <1>1, <2>1, AncestorIs
  <2>3. ASSUME NEW d \in Axes(config) PROVE Ancestor(x, 0).at[d] = Root(config).at[d]
    <3>1. Ancestor(x, 0).at[d] \in Nat /\ Ancestor(x, 0).at[d] < 1
      BY <2>2, Location, PowerZero
    <3> QED
      BY <1>2, <3>1
  <2> QED
    BY <1>4, <2>2, <2>3, SameLocation
<1>6. Covering(config, leaves)
  BY <1>2, <1>4, <1>5 DEF Covering
<1>7. Meshes
  <2>1. Disjoint(leaves)
    BY <1>2 DEF Disjoint
  <2> QED
    BY <1>6, <2>1 DEF Init, Meshes, Tiling
<1>8. TypeOK
  <2>1. /\ place \in [DOMAIN config.kinds -> [Axes(config) -> 0..(Span(config) - 1)]] /\ active \in config.lives
    BY <1>1, RegridAssumption DEF Init, IsConfig
  <2>2. \A b \in leaves \cup candidate : b.level \in 0 .. config.maxLevel
    BY <1>2, <1>4 DEF Init
  <2>3. pass \in 0..(config.maxLevel + 1) /\ steps \in 0..MaxSteps /\ faults \in 0..MaxFaults
    BY <1>3, RegridAssumption DEF Init
  <2>4. /\ tagged \subseteq active /\ limit \in config.limits \cup {0} /\ {travel, budget, age} \subseteq Nat
        /\ call \in {"startup", "driver", "regrid", "install", "advance"}
        /\ outcome \in {"none", "kept", "installed", "unsettled", "threw"}
    BY DEF Init
  <2>5. coarsened \in BOOLEAN
    BY Zenon DEF Init
  <2> QED
    BY <1>1, <2>1, <2>2, <2>3, <2>4, <2>5 DEF TypeOK
<1>9. Tracker
  BY DEF Init, Tracker
<1> QED
  BY <1>7, <1>8, <1>9 DEF Sound

(* Calls that keep the world: the types and the meshes are those of the    *)
(* variables that change.                                                  *)
LEMMA SameWorld ==
  ASSUME Sound, world' = world, steps' \in 0 .. MaxSteps, faults' \in 0 .. MaxFaults,
         limit' \in config.limits \cup {0}, Tiling(config, leaves'), candidate' \subseteq Locations(config),
         tagged' \subseteq active, pass' \in 0 .. (config.maxLevel + 1), {travel', budget', age'} \subseteq Nat,
         coarsened' \in BOOLEAN, call' \in {"startup", "driver", "regrid", "install", "advance"},
         outcome' \in {"none", "kept", "installed", "unsettled", "threw"},
         call' # "startup" => Even(leaves'),
         call' \in {"regrid", "install"} => Tiling(config, candidate') /\ Even(candidate')
  PROVE  TypeOK' /\ Meshes'
<1>1. config' = config /\ place' = place /\ active' = active
  BY DEF world
<1>2. config \in Configs /\ TypeOK
  BY DEF Sound, TypeOK
<1>3. \A b \in leaves' \cup candidate' : b.level \in 0 .. config.maxLevel
  BY Location DEF Tiling, Covering
<1>4. TypeOK'
  BY <1>1, <1>2, <1>3 DEF TypeOK
<1>5. Meshes'
  <2>1. /\ Even(leaves)' <=> Even(leaves')
        /\ Even(candidate)' <=> Even(candidate')
    BY <1>1 DEF Even, AtLeast, TooCoarse, BlocksAcross, Shifted, Axes
  <2>2. Tiling(config, leaves)' /\ (candidate \subseteq Locations(config))'
    BY <1>1
  <2>3. (call' \in {"regrid", "install"} => Tiling(config, candidate)')
    BY <1>1
  <2> QED
    BY <2>1, <2>2, <2>3 DEF Meshes
<1> QED
  BY <1>4, <1>5

(* What the invariant gives each action. *)
LEMMA Current ==
  ASSUME Sound
  PROVE  /\ config \in Configs /\ Covering(config, leaves) /\ Tiling(config, leaves)
         /\ candidate \subseteq Locations(config) /\ (call # "startup" => Even(leaves))
         /\ tagged \subseteq active /\ pass \in 0 .. (config.maxLevel + 1) /\ {travel, budget, age} \subseteq Nat
         /\ coarsened \in BOOLEAN /\ limit \in config.limits \cup {0}
         /\ steps \in 0 .. MaxSteps /\ faults \in 0 .. MaxFaults
         /\ outcome \in {"none", "kept", "installed", "unsettled", "threw"}
         /\ call \in {"regrid", "install"} => Tiling(config, candidate) /\ Even(candidate)
         /\ config.maxLevel \in Nat /\ MaxSteps \in Nat /\ MaxFaults \in Nat
         /\ config.minimum \in 0 .. config.maxLevel /\ config.base \in 0 .. config.maxLevel
<1>1. TypeOK /\ Meshes
  BY DEF Sound
<1>2. config \in Configs
  BY <1>1 DEF TypeOK
<1>3. /\ config.maxLevel \in Nat /\ MaxSteps \in Nat /\ MaxFaults \in Nat
      /\ config.minimum \in 0 .. config.maxLevel /\ config.base \in 0 .. config.maxLevel
  BY <1>2, Levels, RegridAssumption
<1> QED
  BY <1>1, <1>2, <1>3 DEF TypeOK, Meshes, Tiling

(* A regrid ends: the budget it leaves is for steps of the length it was   *)
(* asked for, and the new mesh allows no longer one unless it has merged.  *)
LEMMA PublishStep ==
  ASSUME Sound, NEW blocks, Tiling(config, blocks), Even(blocks), NEW flagged \in SUBSET active,
         NEW result \in {"kept", "installed"}, Publish(blocks, flagged, result),
         UNCHANGED <<world, limit, steps, faults>>
  PROVE  Sound'
<1>1. /\ leaves' = blocks /\ tagged' = flagged /\ travel' = 0 /\ age' = 0
      /\ budget' = config.signalBuffer * Horizon /\ outcome' = result
      /\ call' = (IF limit = 0 THEN "driver" ELSE "advance") /\ candidate' = {} /\ pass' = 0
      /\ coarsened' = \E b \in blocks : \E old \in leaves : old.level > b.level /\ Ancestor(old, b.level) = b
  BY DEF Publish
<1>2. coarsened' \in BOOLEAN
  BY <1>1, Zenon
<1>3. config.signalBuffer * Horizon \in Nat /\ Lookahead \in Nat /\ Lookahead <= config.signalBuffer * Horizon
      /\ limit \in Nat /\ StableStep(leaves) \in Nat
  BY Numbers DEF Sound, Meshes
<1>4. TypeOK' /\ Meshes'
  <2>1. 0 \in 0 .. (config.maxLevel + 1) /\ {0} \subseteq Nat
    BY Current
  <2>2. {travel', budget', age'} \subseteq Nat
    BY <1>1, <1>3, <2>1
  <2>3. call' \in {"startup", "driver", "regrid", "install", "advance"} /\ call' \notin {"regrid", "install"}
    BY <1>1
  <2>4. /\ world' = world /\ steps' \in 0 .. MaxSteps /\ faults' \in 0 .. MaxFaults
        /\ limit' \in config.limits \cup {0}
    BY Current
  <2>5. candidate' \subseteq Locations(config) /\ tagged' \subseteq active /\ pass' \in 0 .. (config.maxLevel + 1)
    BY <1>1, <2>1
  <2>6. outcome' \in {"none", "kept", "installed", "unsettled", "threw"} /\ Tiling(config, leaves') /\ Even(leaves')
    BY <1>1
  <2> QED
    BY <1>2, <2>2, <2>3, <2>4, <2>5, <2>6, SameWorld
<1>5. ASSUME ~coarsened' PROVE Lookahead' <= Lookahead
  <2>1. ~\E b \in blocks : \E old \in leaves : old.level > b.level /\ Ancestor(old, b.level) = b
    BY <1>1, <1>5, Zenon
  <2>2. config \in Configs /\ Covering(config, leaves) /\ config' = config /\ limit' = limit
    BY Current DEF world
  <2>3. StableStep(blocks) <= StableStep(leaves)
    BY <2>1, <2>2, StepGrowsByMerging DEF Tiling
  <2>4. StableStep(blocks) \in Nat
    <3>1. config.timeRefinement \in BOOLEAN
      BY <2>2, RegridAssumption DEF IsConfig
    <3> QED
      BY <2>2, <3>1, StepType DEF Tiling
  <2>5. StableStep(leaves)' = StableStep(blocks)
    BY <1>1, <2>2 DEF StableStep, FinestStep
  <2>6. Lookahead' = Lesser(StableStep(blocks), limit)
    BY <2>2, <2>5 DEF Lookahead
  <2> QED
    BY <1>3, <2>3, <2>4, <2>6 DEF Lookahead, Lesser
<1>6. Tracker'
  <2>1. ASSUME ~coarsened' PROVE 0 <= budget' /\ 0 + Lookahead' <= budget'
    <3>1. Lookahead' \in Nat
      <4>1. TypeOK' /\ Tiling(config, leaves)'
        BY <1>4 DEF Meshes
      <4>2. config' \in Configs /\ config'.timeRefinement \in BOOLEAN /\ limit' \in Nat
        BY <1>3, Current, RegridAssumption DEF world, IsConfig
      <4>3. StableStep(leaves)' \in Nat
        <5>1. config' = config /\ config \in Configs /\ config.timeRefinement \in BOOLEAN
          BY <4>2, Current DEF world
        <5>2. StableStep(blocks) \in Nat
          BY <5>1, StepType DEF Tiling
        <5> QED
          BY <1>1, <5>1, <5>2 DEF StableStep, FinestStep
      <4> QED
        BY <4>2, <4>3 DEF Lookahead, Lesser
    <3> QED
      BY <1>1, <1>3, <1>5, <2>1, <3>1
  <2>2. call' # "startup"
    BY <1>1
  <2> QED
    BY <1>1, <2>1, <2>2 DEF Tracker
<1> QED
  BY <1>4, <1>6 DEF Sound

(* A regrid that throws leaves the mesh and the tracker. *)
LEMMA ThrowStep ==
  ASSUME Sound, call # "startup", NEW result \in {"unsettled", "threw"}, Throws(result),
         UNCHANGED <<world, limit, steps>>, faults' \in 0 .. MaxFaults
  PROVE  Sound'
<1>1. /\ outcome' = result /\ call' = "driver" /\ candidate' = {} /\ pass' = 0 /\ leaves' = leaves
      /\ travel' = travel /\ budget' = budget /\ age' = age /\ tagged' = tagged /\ coarsened' = coarsened
  BY DEF Throws, mesh
<1>2. TypeOK' /\ Meshes'
  <2>1. 0 \in 0 .. (config.maxLevel + 1)
    BY Current
  <2>2. /\ steps' \in 0 .. MaxSteps /\ limit' \in config.limits \cup {0} /\ Tiling(config, leaves') /\ Even(leaves')
        /\ tagged' \subseteq active /\ {travel', budget', age'} \subseteq Nat /\ coarsened' \in BOOLEAN
    BY <1>1, Current
  <2>3. /\ candidate' \subseteq Locations(config) /\ pass' \in 0 .. (config.maxLevel + 1)
        /\ call' \in {"startup", "driver", "regrid", "install", "advance"} /\ call' \notin {"regrid", "install"}
        /\ outcome' \in {"none", "kept", "installed", "unsettled", "threw"} /\ world' = world
    BY <1>1, <2>1
  <2> QED
    BY <2>2, <2>3, SameWorld
<1>3. Tracker'
  BY <1>1 DEF Sound, Tracker
<1> QED
  BY <1>2, <1>3 DEF Sound

(* The lookahead of the startup is a number. *)
LEMMA StartupLookahead ==
  ASSUME Sound
  PROVE  Lesser(FinestStep(leaves), Max(config.limits)) \in Nat
<1>1. config.limits \in SUBSET Nat /\ IsFiniteSet(config.limits) /\ config.limits # {}
  BY Current, Levels
<1>2. \E x \in config.limits : \A y \in config.limits : y <= x
  BY <1>1, FiniteGreatest
<1>3. \E x \in config.limits : \A y \in config.limits : x >= y
  BY <1>1, <1>2
<1>4. Max(config.limits) \in Nat
  BY <1>1, <1>3 DEF Max
<1>5. FinestStep(leaves) \in Nat
  BY Numbers DEF Sound, Meshes
<1> QED
  BY <1>4, <1>5 DEF Lesser

(* A pass of the startup, which coarsens nothing, or its end. *)
LEMMA StartupStep ==
  ASSUME Sound, Startup
  PROVE  Sound'
<1> DEFINE dt == Lesser(FinestStep(leaves), Max(config.limits))
           selected == SelectMesh(leaves, active, config.regridEvery * dt, config.base, FALSE, 1)
           found == {f \in active : \E b \in leaves : Flagged(f, b)}
<1>1. /\ UNCHANGED <<world, candidate, pass, limit, travel, age, coarsened, outcome, steps, faults>>
      /\ call = "startup"
      /\ \/ leaves' = selected /\ UNCHANGED <<call, budget, tagged>>
         \/ /\ selected = leaves /\ call' = "driver" /\ budget' = config.signalBuffer * config.regridEvery * dt
            /\ tagged' = found /\ UNCHANGED leaves
  BY DEF Startup
<1>2. /\ Tiling(config, selected) /\ TooCoarse(selected) = {}
      /\ selected = leaves => AtLeast(config.base, leaves)
  <2>1. config \in Configs /\ Tiling(config, leaves) /\ config.base \in 0 .. config.maxLevel
    BY Current
  <2>2. FALSE \in BOOLEAN /\ 1 \in Nat /\ 1 > 0
    OBVIOUS
  <2> HIDE DEF dt
  <2> DEFINE asked == Seeds(leaves, active, config.regridEvery * dt)
  <2>3. /\ Tiling(config, selected) /\ TooCoarse(selected) = {}
        /\ \A s \in asked : s.level \in 0 .. config.maxLevel
        /\ ~FALSE /\ 1 > 0 /\ selected = leaves => Lacking(leaves, asked, config.base) = {}
    BY <2>1, <2>2, SelectionCovers
  <2>4. leaves \in SUBSET Locations(config)
    BY <2>1 DEF Tiling, Covering
  <2>5. Lacking(leaves, asked, config.base) = {} => AtLeast(config.base, leaves)
    BY <2>1, <2>3, <2>4, NoneLacking DEF AllGranted
  <2> QED
    BY <2>2, <2>3, <2>5
<1>3. dt \in Nat
  BY StartupLookahead
<1>4. config.signalBuffer * config.regridEvery * dt \in Nat
  BY <1>3, Current, Levels
<1>5. found \subseteq active
  OBVIOUS
<1> HIDE DEF dt, selected, found
<1>6. {travel', budget', age'} \subseteq Nat
  BY <1>1, <1>4, Current
<1>7. Tiling(config, leaves') /\ tagged' \subseteq active /\ call' \in {"startup", "driver"}
  BY <1>1, <1>2, <1>5, Current
<1>10. ASSUME call' # "startup" PROVE Even(leaves')
  <2>1. leaves' = leaves /\ TooCoarse(leaves) = {} /\ AtLeast(config.base, leaves)
    BY <1>1, <1>2, <1>10
  <2>2. \A b \in leaves : b.level \in Nat
    BY Current, Location, Levels DEF Covering
  <2>3. config.minimum \in Nat /\ config.base \in Nat /\ config.minimum <= config.base
    BY Current, Levels
  <2>4. AtLeast(config.minimum, leaves)
    BY <2>1, <2>2, <2>3 DEF AtLeast
  <2> QED
    BY <2>1, <2>4 DEF Even
<1>8. TypeOK' /\ Meshes'
  <2>1. /\ world' = world /\ steps' \in 0 .. MaxSteps /\ faults' \in 0 .. MaxFaults
        /\ limit' \in config.limits \cup {0} /\ pass' \in 0 .. (config.maxLevel + 1) /\ coarsened' \in BOOLEAN
        /\ candidate' \subseteq Locations(config)
        /\ outcome' \in {"none", "kept", "installed", "unsettled", "threw"}
    BY <1>1, Current
  <2> QED
    BY <1>6, <1>7, <1>10, <2>1, SameWorld
<1>9. Tracker'
  <2>1. travel = 0 /\ travel' = 0 /\ ~coarsened'
    BY <1>1 DEF Sound, Tracker
  <2>2. 0 <= budget'
    BY <1>6
  <2> QED
    BY <1>7, <2>1, <2>2 DEF Tracker
<1> QED
  BY <1>8, <1>9 DEF Sound

(* A regrid starts from the published mesh. *)
LEMMA AskStep ==
  ASSUME Sound, Ask
  PROVE  Sound'
<1>1. /\ call = "driver" /\ limit' \in config.limits \cup {0} /\ call' = "regrid" /\ pass' = 0 /\ candidate' = leaves
      /\ UNCHANGED <<world, outcome, steps, faults>> /\ leaves' = leaves /\ travel' = travel
      /\ budget' = budget /\ age' = age /\ tagged' = tagged /\ coarsened' = coarsened
  BY DEF Ask, mesh
<1>2. TypeOK' /\ Meshes'
  <2>1. 0 \in 0 .. (config.maxLevel + 1) /\ leaves \subseteq Locations(config)
    BY Current DEF Covering
  <2>2. /\ world' = world /\ steps' \in 0 .. MaxSteps /\ faults' \in 0 .. MaxFaults
        /\ Tiling(config, leaves') /\ Even(leaves') /\ Tiling(config, candidate') /\ Even(candidate')
        /\ tagged' \subseteq active
        /\ {travel', budget', age'} \subseteq Nat /\ coarsened' \in BOOLEAN
        /\ outcome' \in {"none", "kept", "installed", "unsettled", "threw"}
    BY <1>1, Current
  <2> QED
    BY <1>1, <2>1, <2>2, SameWorld
<1>3. Tracker'
  BY <1>1 DEF Sound, Tracker
<1> QED
  BY <1>2, <1>3 DEF Sound

(* The regrid is skipped only if the budget is enough for the next step. *)
LEMMA NotDueStep ==
  ASSUME Sound, NotDue
  PROVE  Sound'
<1>1. /\ call = "regrid" /\ call' = "advance" /\ ~Due /\ UNCHANGED <<world, candidate, pass, limit, outcome, steps, faults>>
      /\ leaves' = leaves /\ travel' = travel
      /\ budget' = budget /\ age' = age /\ tagged' = tagged /\ coarsened' = coarsened
  BY DEF NotDue, mesh
<1>2. TypeOK' /\ Meshes'
  <2>1. /\ world' = world /\ steps' \in 0 .. MaxSteps /\ faults' \in 0 .. MaxFaults
        /\ Tiling(config, leaves') /\ Even(leaves') /\ tagged' \subseteq active /\ limit' \in config.limits \cup {0}
        /\ {travel', budget', age'} \subseteq Nat /\ coarsened' \in BOOLEAN
        /\ outcome' \in {"none", "kept", "installed", "unsettled", "threw"}
        /\ candidate' \subseteq Locations(config) /\ pass' \in 0 .. (config.maxLevel + 1)
    BY <1>1, Current
  <2> QED
    BY <1>1, <2>1, SameWorld
<1>3. Tracker'
  <2>1. travel \in Nat /\ budget \in Nat /\ Lookahead \in Nat
    BY Numbers DEF Sound, Meshes
  <2>2. travel + Lookahead <= budget
    BY <1>1, <2>1 DEF Due
  <2>3. Lookahead' = Lookahead
    BY <1>1 DEF world, Lookahead, StableStep, FinestStep
  <2>4. travel <= budget
    BY <2>1, <2>2
  <2> QED
    BY <1>1, <2>2, <2>3, <2>4 DEF Tracker
<1> QED
  BY <1>2, <1>3 DEF Sound

(* A pass selects the next candidate, or ends the regrid. *)
LEMMA SelectStep ==
  ASSUME Sound, SelectPass
  PROVE  Sound'
<1> DEFINE first == pass = 0
           Selected(seen) == SelectMesh(candidate, seen, Horizon, config.minimum, first, config.maxLevel)
           Found(seen) == {f \in seen : \E b \in candidate : Flagged(f, b)}
<1>1. call = "regrid" /\ UNCHANGED <<world, limit, steps, faults>>
  BY DEF SelectPass
<1>2. PICK seen \in SUBSET active :
           \/ /\ Selected(seen) # candidate /\ pass < LastPass
              /\ candidate' = Selected(seen) /\ pass' = pass + 1
              /\ UNCHANGED <<mesh, call, outcome>>
           \/ /\ Selected(seen) # candidate /\ pass = LastPass
              /\ Throws("unsettled")
           \/ /\ Selected(seen) = candidate /\ pass = 0
              /\ Publish(leaves, Found(seen), "kept")
           \/ /\ Selected(seen) = candidate /\ pass > 0
              /\ call' = "install"
              /\ UNCHANGED <<mesh, candidate, pass, outcome>>
  BY DEF SelectPass
<1>3. /\ Tiling(config, candidate) /\ Even(candidate)
      /\ Tiling(config, Selected(seen)) /\ Even(Selected(seen))
  <2>1. first \in BOOLEAN /\ Tiling(config, candidate) /\ Even(candidate)
    BY <1>1, Current
  <2> HIDE DEF first
  <2> QED
    BY <2>1, Current, SelectionCovers DEF Even
<1>4. Found(seen) \in SUBSET active
  OBVIOUS
<1> HIDE DEF Selected, Found
<1>5. CASE pass < LastPass /\ candidate' = Selected(seen) /\ pass' = pass + 1 /\ UNCHANGED <<mesh, call, outcome>>
  <2>1. /\ leaves' = leaves /\ travel' = travel /\ budget' = budget /\ age' = age /\ tagged' = tagged
        /\ coarsened' = coarsened /\ call' = "regrid" /\ outcome' = outcome
    BY <1>1, <1>5 DEF mesh
  <2>2. pass' \in 0 .. (config.maxLevel + 1)
    BY <1>5, Current DEF LastPass
  <2>3. /\ world' = world /\ steps' \in 0 .. MaxSteps /\ faults' \in 0 .. MaxFaults
        /\ Tiling(config, leaves') /\ Even(leaves') /\ tagged' \subseteq active /\ limit' \in config.limits \cup {0}
        /\ {travel', budget', age'} \subseteq Nat /\ coarsened' \in BOOLEAN
        /\ outcome' \in {"none", "kept", "installed", "unsettled", "threw"}
    BY <1>1, <2>1, Current
  <2>4. Tiling(config, candidate') /\ Even(candidate') /\ candidate' \subseteq Locations(config)
    BY <1>3, <1>5 DEF Tiling, Covering
  <2>5. TypeOK' /\ Meshes'
    BY <2>1, <2>2, <2>3, <2>4, SameWorld
  <2>6. Tracker'
    BY <2>1 DEF Sound, Tracker
  <2> QED
    BY <2>5, <2>6 DEF Sound
<1>6. CASE Throws("unsettled")
  BY <1>1, <1>6, Current, ThrowStep
<1>7. CASE Publish(leaves, Found(seen), "kept")
  BY <1>1, <1>4, <1>7, Current, PublishStep
<1>8. CASE call' = "install" /\ UNCHANGED <<mesh, candidate, pass, outcome>>
  <2>1. /\ leaves' = leaves /\ travel' = travel /\ budget' = budget /\ age' = age /\ tagged' = tagged
        /\ coarsened' = coarsened /\ outcome' = outcome /\ candidate' = candidate /\ pass' = pass
    BY <1>8 DEF mesh
  <2>2. /\ world' = world /\ steps' \in 0 .. MaxSteps /\ faults' \in 0 .. MaxFaults
        /\ Tiling(config, leaves') /\ Even(leaves') /\ tagged' \subseteq active /\ limit' \in config.limits \cup {0}
        /\ {travel', budget', age'} \subseteq Nat /\ coarsened' \in BOOLEAN
        /\ outcome' \in {"none", "kept", "installed", "unsettled", "threw"}
        /\ pass' \in 0 .. (config.maxLevel + 1) /\ candidate' \subseteq Locations(config)
    BY <1>1, <2>1, Current
  <2>3. TypeOK' /\ Meshes'
    BY <1>3, <1>8, <2>1, <2>2, SameWorld
  <2>4. Tracker'
    BY <1>8, <2>1 DEF Sound, Tracker
  <2> QED
    BY <2>3, <2>4 DEF Sound
<1> QED
  BY <1>2, <1>5, <1>6, <1>7, <1>8

(* An accepted candidate is installed. *)
LEMMA InstallStep ==
  ASSUME Sound, Install
  PROVE  Sound'
<1> DEFINE found == {f \in active : \E b \in candidate : Flagged(f, b)}
<1>1. call = "install" /\ Publish(candidate, found, "installed") /\ UNCHANGED <<world, limit, steps, faults>>
  BY DEF Install
<1>2. found \in SUBSET active /\ Tiling(config, candidate) /\ Even(candidate)
  BY <1>1, Current
<1> HIDE DEF found
<1> QED
  BY <1>1, <1>2, PublishStep

(* A regrid may fail at any point. *)
LEMMA FaultStep ==
  ASSUME Sound, Fault
  PROVE  Sound'
<1>1. /\ Throws("threw") /\ UNCHANGED <<world, limit, steps>> /\ faults' \in 0 .. MaxFaults
      /\ call # "startup"
  BY Current DEF Fault
<1> QED
  BY <1>1, ThrowStep

(* A step uses up what the budget had left for it. *)
LEMMA AdvanceStep ==
  ASSUME Sound, Room, Advance
  PROVE  Sound'
<1>1. /\ call = "advance" /\ call' = "driver" /\ active' \in config.lives /\ tagged' = tagged \cap active'
      /\ travel' = travel + Lookahead /\ age' = age + 1 /\ steps' = steps + 1
      /\ UNCHANGED <<config, leaves, candidate, pass, limit, budget, coarsened, outcome, faults>>
      /\ place' \in [Features -> UNION {Moves(place[f], Lookahead) : f \in Features}]
  BY DEF Advance
<1>2. {travel', budget', age'} \subseteq Nat /\ travel \in Nat /\ budget \in Nat /\ Lookahead \in Nat
  BY <1>1, Numbers DEF Sound, Meshes
<1>3. place' \in [DOMAIN config.kinds -> [Axes(config) -> 0 .. (Span(config) - 1)]]
  <2>1. Features = DOMAIN config.kinds
    BY DEF Features, Sound, TypeOK
  <2>2. ASSUME NEW f \in Features PROVE Moves(place[f], Lookahead) \subseteq [Axes(config) -> 0 .. (Span(config) - 1)]
    BY <2>1, <2>2 DEF Moves, Sound, TypeOK
  <2> DEFINE cells == [Axes(config) -> 0 .. (Span(config) - 1)]
             reach == UNION {Moves(place[f], Lookahead) : f \in Features}
  <2>3. ASSUME NEW m \in reach PROVE m \in cells
    <3>1. PICK f \in Features : m \in Moves(place[f], Lookahead)
      BY <2>3
    <3> QED
      BY <2>2, <3>1
  <2>4. place' \in [Features -> reach]
    BY <1>1
  <2> HIDE DEF cells, reach
  <2>5. place' \in [Features -> cells]
    BY <2>3, <2>4
  <2>6. place' \in [DOMAIN config.kinds -> cells]
    BY <2>1, <2>5
  <2> QED
    BY <2>6 DEF cells
<1>4. steps' \in 0 .. MaxSteps
  BY <1>1, Current DEF Room
<1>5. TypeOK'
  <2>1. /\ config' \in Configs /\ limit' \in config'.limits \cup {0} /\ pass' \in 0..(config'.maxLevel + 1)
        /\ coarsened' \in BOOLEAN /\ outcome' \in {"none", "kept", "installed", "unsettled", "threw"}
        /\ faults' \in 0..MaxFaults
    BY <1>1, Current
  <2>2. \A b \in leaves' \cup candidate' : b.level \in 0..config'.maxLevel
    BY <1>1 DEF Sound, TypeOK
  <2>3. /\ place' \in [DOMAIN config'.kinds -> [Axes(config') -> 0..(Span(config') - 1)]]
        /\ active' \in config'.lives /\ tagged' \subseteq active'
    BY <1>1, <1>3
  <2>4. call' \in {"startup", "driver", "regrid", "install", "advance"}
    BY <1>1
  <2> QED
    BY <1>2, <1>4, <2>1, <2>2, <2>3, <2>4 DEF TypeOK
<1>6. Meshes'
  <2>1. /\ Even(leaves)' <=> Even(leaves)
        /\ Even(candidate)' <=> Even(candidate)
    BY <1>1 DEF Even, AtLeast, TooCoarse, BlocksAcross, Shifted, Axes
  <2> QED
    BY <1>1, <2>1 DEF Sound, Meshes
<1>7. Tracker'
  BY <1>1 DEF Sound, Tracker
<1> QED
  BY <1>5, <1>6, <1>7 DEF Sound

(* The invariant is inductive. *)
LEMMA Inductive == IInv /\ [Next]_vars => IInv'
<1> SUFFICES ASSUME Sound, Room, [Next]_vars PROVE Sound' /\ Room'
  BY DEF IInv
<1>1. CASE UNCHANGED vars
  <2>1. (Even(leaves)' <=> Even(leaves)) /\ (Even(candidate)' <=> Even(candidate))
    BY <1>1 DEF vars, Even, AtLeast, TooCoarse, BlocksAcross, Shifted, Axes
  <2> QED
    BY <1>1, <2>1 DEF vars, Sound, Room, TypeOK, Meshes, Tracker, Features, Lookahead, StableStep, FinestStep
<1>2. ASSUME Next PROVE Sound'
  BY <1>2, StartupStep, AskStep, NotDueStep, SelectStep, InstallStep, FaultStep, AdvanceStep DEF Next
<1>3. ASSUME Next PROVE Room'
  <2>1. ASSUME steps' = steps, call \in {"regrid", "install", "advance"} PROVE Room'
    BY <2>1 DEF Room
  <2>2. CASE Startup
    BY <2>2 DEF Startup, Room
  <2>3. CASE Ask
    BY <2>3 DEF Ask, Room
  <2>4. CASE NotDue
    BY <2>1, <2>4 DEF NotDue
  <2>5. CASE SelectPass
    BY <2>1, <2>5 DEF SelectPass
  <2>6. CASE Install
    BY <2>1, <2>6 DEF Install
  <2>7. CASE Fault
    BY <2>1, <2>7 DEF Fault
  <2>8. CASE Advance
    BY <2>8 DEF Advance, Room
  <2> QED
    BY <1>3, <2>2, <2>3, <2>4, <2>5, <2>6, <2>7, <2>8 DEF Next
<1> QED
  BY <1>1, <1>2, <1>3

(* The invariant holds for ever. *)
LEMMA Invariance == Spec => []IInv
<1>1. Init => IInv
  BY InitSound DEF Init, Room, IInv
<1> QED
  BY <1>1, Inductive, PTL DEF Spec
-----------------------------------------------------------------------------
(***************************************************************************)
(* Where points and features are.                                          *)
(***************************************************************************)
Points == [Axes(config) -> 0 .. (Span(config) - 1)]
InBox(b, x) == \A d \in Axes(config) : BlockBox(config, b).lower[d] <= x[d] /\ x[d] < BlockBox(config, b).upper[d]
Side(level) == config.cells * Width(config, level)

(* A multiple of P parts of size S, the part q inside.                     *)
LEMMA Coarser ==
  ASSUME NEW q \in Nat, NEW P \in Nat \ {0}, NEW S \in Nat
  PROVE  (q \div P) * (P * S) <= q * S /\ (q + 1) * S <= ((q \div P) + 1) * (P * S)
<1> DEFINE r == q \div P
<1>1. r \in Nat /\ P * r <= q /\ q + 1 <= P * r + P
  BY Quotient
<1> HIDE DEF r
<1> DEFINE A == P * r
<1>2. A \in Nat /\ A <= q /\ q + 1 <= A + P /\ r * (P * S) = A * S /\ (r + 1) * (P * S) = (A + P) * S
  BY <1>1
<1> HIDE DEF A
<1>3. A * S <= q * S /\ (q + 1) * S <= (A + P) * S
  BY <1>2
<1> QED
  BY <1>2, <1>3 DEF r

(* Widths of cells and blocks of the levels. *)
LEMMA Sides ==
  ASSUME config \in Configs, NEW l \in 0 .. config.maxLevel
  PROVE  /\ Width(config, l) \in Nat \ {0} /\ Side(l) \in Nat \ {0} /\ Span(config) = Side(l) * 2^l
         /\ Span(config) \in Nat \ {0} /\ 2^l \in Nat \ {0} /\ config.cells \in Nat \ {0}
         /\ Span(config) = config.cells * 2^config.maxLevel /\ 2^config.maxLevel \in Nat \ {0}
         /\ Side(l) = config.cells * 2^(config.maxLevel - l) /\ 2^(config.maxLevel - l) \in Nat \ {0}
         /\ \A k \in 0 .. l : /\ Width(config, k) = 2^(l - k) * Width(config, l) /\ Side(k) = 2^(l - k) * Side(l)
                              /\ 2^(l - k) \in Nat \ {0}
<1>1. l \in Nat /\ config.maxLevel \in Nat /\ config.maxLevel - l \in Nat /\ config.maxLevel = (config.maxLevel - l) + l
  BY Levels
<1> DEFINE w == 2^(config.maxLevel - l)
           C == config.cells
           n == 2^l
<1>2. w \in Nat \ {0} /\ n \in Nat \ {0} /\ 2^config.maxLevel = w * n
  BY <1>1, Power, PowerSum
<1>3. C \in Nat \ {0}
  BY RegridAssumption DEF IsConfig
<1>4. Width(config, l) = w /\ Side(l) = C * w /\ Span(config) = C * (w * n)
  BY <1>2 DEF Width, Side, Span
<1>5. ASSUME NEW k \in 0 .. l PROVE Width(config, k) = 2^(l - k) * w /\ 2^(l - k) \in Nat \ {0}
  <2>1. k \in Nat /\ l - k \in Nat /\ config.maxLevel - k = (l - k) + (config.maxLevel - l)
    BY <1>1
  <2> QED
    BY <1>1, <2>1, Power, PowerSum DEF Width
<1> HIDE DEF w, C, n
<1>6. C * w \in Nat \ {0} /\ C * (w * n) = (C * w) * n /\ (C * w) * n \in Nat \ {0}
  BY <1>2, <1>3
<1>7. ASSUME NEW k \in 0 .. l PROVE Side(k) = 2^(l - k) * Side(l)
  <2> DEFINE p == 2^(l - k)
  <2>1. p \in Nat \ {0} /\ Side(k) = C * (p * w)
    BY <1>5 DEF Side, C
  <2> HIDE DEF p
  <2>2. C * (p * w) = p * (C * w)
    BY <1>2, <1>3, <2>1
  <2> QED
    BY <1>4, <2>1, <2>2 DEF p
<1>8. Span(config) = config.cells * 2^config.maxLevel /\ 2^config.maxLevel \in Nat \ {0}
  BY <1>1, Power DEF Span
<1> QED
  BY <1>2, <1>3, <1>4, <1>5, <1>6, <1>7, <1>8 DEF w, C, n

(* The box of a block: the sides of its level, inside the domain.          *)
LEMMA BoxIs ==
  ASSUME config \in Configs, NEW b \in Locations(config)
  PROVE  \A d \in Axes(config) : /\ BlockBox(config, b).lower[d] = b.at[d] * Side(b.level)
                                 /\ BlockBox(config, b).upper[d] = (b.at[d] + 1) * Side(b.level)
                                 /\ BlockBox(config, b).lower[d] \in Nat /\ BlockBox(config, b).upper[d] \in Nat
                                 /\ BlockBox(config, b).lower[d] < BlockBox(config, b).upper[d]
                                 /\ BlockBox(config, b).upper[d] <= Span(config)
<1> SUFFICES ASSUME NEW d \in Axes(config)
             PROVE  /\ BlockBox(config, b).lower[d] = b.at[d] * Side(b.level)
                    /\ BlockBox(config, b).upper[d] = (b.at[d] + 1) * Side(b.level)
                    /\ BlockBox(config, b).lower[d] \in Nat /\ BlockBox(config, b).upper[d] \in Nat
                    /\ BlockBox(config, b).lower[d] < BlockBox(config, b).upper[d]
                    /\ BlockBox(config, b).upper[d] <= Span(config)
  OBVIOUS
<1> DEFINE S == Side(b.level)
           A == b.at[d]
           n == 2^b.level
<1>1. /\ BlockBox(config, b).lower[d] = A * S /\ BlockBox(config, b).upper[d] = (A + 1) * S
  BY DEF BlockBox, Box, Side
<1>2. A \in Nat /\ A < n /\ S \in Nat \ {0} /\ Span(config) = S * n /\ n \in Nat
  BY Location, Sides
<1> HIDE DEF S, A, n
<1>3. A * S \in Nat /\ (A + 1) * S \in Nat /\ A * S < (A + 1) * S /\ (A + 1) * S <= S * n
  <2>1. A * S \in Nat /\ (A + 1) * S = A * S + S
    BY <1>2
  <2>2. A + 1 <= n /\ n * S = S * n /\ A + 1 \in Nat
    BY <1>2
  <2> DEFINE B == A + 1
  <2>3. B \in Nat /\ B <= n /\ (A + 1) * S = B * S
    BY <2>2
  <2> HIDE DEF B
  <2>4. B * S <= n * S
    BY <1>2, <2>3
  <2> QED
    BY <1>2, <2>1, <2>2, <2>3, <2>4
<1> QED
  BY <1>1, <1>2, <1>3 DEF S, A

(* A block is inside its ancestors. *)
LEMMA BoxInside ==
  ASSUME config \in Configs, NEW b \in Locations(config), NEW k \in 0 .. b.level
  PROVE  \A d \in Axes(config) : /\ BlockBox(config, Ancestor(b, k)).lower[d] <= BlockBox(config, b).lower[d]
                                 /\ BlockBox(config, b).upper[d] <= BlockBox(config, Ancestor(b, k)).upper[d]
<1> SUFFICES ASSUME NEW d \in Axes(config)
             PROVE  /\ BlockBox(config, Ancestor(b, k)).lower[d] <= BlockBox(config, b).lower[d]
                    /\ BlockBox(config, b).upper[d] <= BlockBox(config, Ancestor(b, k)).upper[d]
  OBVIOUS
<1> DEFINE P == 2^(b.level - k)
<1>1. Ancestor(b, k) \in Locations(config) /\ Ancestor(b, k).level = k /\ Ancestor(b, k).at[d] = b.at[d] \div P
  BY AncestorIs
<1>2. b.at[d] \in Nat /\ P \in Nat \ {0} /\ Side(b.level) \in Nat /\ Side(k) = P * Side(b.level)
  BY Location, Sides
<1>3. /\ (b.at[d] \div P) * (P * Side(b.level)) <= b.at[d] * Side(b.level)
      /\ (b.at[d] + 1) * Side(b.level) <= ((b.at[d] \div P) + 1) * (P * Side(b.level))
  BY <1>2, Coarser
<1>4. /\ BlockBox(config, b).lower[d] = b.at[d] * Side(b.level)
      /\ BlockBox(config, b).upper[d] = (b.at[d] + 1) * Side(b.level)
      /\ BlockBox(config, Ancestor(b, k)).lower[d] = Ancestor(b, k).at[d] * Side(Ancestor(b, k).level)
      /\ BlockBox(config, Ancestor(b, k)).upper[d] = (Ancestor(b, k).at[d] + 1) * Side(Ancestor(b, k).level)
  BY <1>1, BoxIs
<1> HIDE DEF P
<1> QED
  BY <1>1, <1>2, <1>3, <1>4

(* Every point is in a block of a covering. *)
LEMMA BlockAt ==
  ASSUME config \in Configs, NEW blocks, Covering(config, blocks), NEW x \in Points
  PROVE  \E b \in blocks : InBox(b, x)
<1> DEFINE C == config.cells
           n == 2^config.maxLevel
           y == [level |-> config.maxLevel, at |-> [d \in Axes(config) |-> x[d] \div C]]
<1>1. config.maxLevel \in Nat /\ config.maxLevel \in 0 .. config.maxLevel
  BY Levels
<1>2. C \in Nat \ {0} /\ n \in Nat \ {0} /\ Span(config) = C * n /\ C * n \in Nat
  BY <1>1, Sides
<1>3. ASSUME NEW d \in Axes(config) PROVE x[d] \in Nat /\ x[d] \div C \in Nat /\ x[d] \div C < n
  <2>1. x[d] \in Nat /\ x[d] < C * n
    BY <1>2 DEF Points
  <2> HIDE DEF C, n
  <2>2. Grouped(C * n, C, n)
    BY <1>2 DEF Grouped
  <2> QED
    BY <2>1, <2>2, QuotientBelow
<1>4. y \in Finest(config)
  <2>1. y.level = config.maxLevel /\ y.at \in [Axes(config) -> Nat] /\ y = [level |-> config.maxLevel, at |-> y.at]
    BY <1>3
  <2>2. \A d \in Axes(config) : y.at[d] < 2^y.level
    BY <1>3
  <2> HIDE DEF y
  <2>3. y \in [level : 0 .. config.maxLevel, at : [Axes(config) -> Nat]]
    BY <1>1, <2>1
  <2> QED
    BY <2>1, <2>2, <2>3 DEF Finest, Locations
<1>5. PICK b \in blocks : Ancestor(y, b.level) = b
  BY <1>4 DEF Covering
<1>6. b \in Locations(config) /\ y \in Locations(config) /\ y.level = config.maxLevel /\ b.level \in 0 .. y.level
  BY <1>4, <1>5, Location DEF Covering, Finest
<1>7. ASSUME NEW d \in Axes(config)
      PROVE  BlockBox(config, b).lower[d] <= x[d] /\ x[d] < BlockBox(config, b).upper[d]
  <2> DEFINE P == 2^(config.maxLevel - b.level)
             S == Side(b.level)
             A == b.at[d]
  <2>1. A = y.at[d] \div P /\ y.at[d] = x[d] \div C
    BY <1>5, <1>6, AncestorIs
  <2>2. P \in Nat \ {0} /\ S = C * P /\ S \in Nat \ {0}
    BY <1>6, Sides
  <2>3. A = x[d] \div S
    BY <1>2, <1>3, <2>1, <2>2, QuotientTwice
  <2>4. x[d] \in Nat /\ S * A <= x[d] /\ x[d] < S * A + S /\ A \in Nat
    BY <1>3, <2>2, <2>3, Quotient
  <2>5. BlockBox(config, b).lower[d] = A * S /\ BlockBox(config, b).upper[d] = (A + 1) * S
    BY <1>6, BoxIs
  <2> HIDE DEF A, S
  <2>6. A * S = S * A /\ (A + 1) * S = S * A + S
    BY <2>2, <2>4
  <2> QED
    BY <2>4, <2>5, <2>6
<1> QED
  BY <1>7 DEF InBox

(* Features and what is known of their position. *)
Placed == \A f \in Features : place[f] \in Points /\ Detail(f) \in 0 .. config.maxLevel

(* Features lie in the domain, seen as finely as some level.               *)
LEMMA FeaturesPlaced ==
  ASSUME Sound
  PROVE  Placed /\ Features = DOMAIN config.kinds /\ active \subseteq Features
<1>1. config \in Configs /\ Covering(config, leaves) /\ leaves \subseteq Locations(config) /\ config.maxLevel \in Nat
  BY Current DEF Covering
<1>2. Features = DOMAIN config.kinds /\ active \subseteq Features /\ \A f \in Features : place[f] \in Points
  BY <1>1, RegridAssumption DEF Sound, TypeOK, Features, Points, IsConfig
<1>3. ASSUME NEW f \in Features PROVE Detail(f) \in 0 .. config.maxLevel
  <2>1. \E b \in leaves : InBox(b, place[f])
    BY <1>1, <1>2, BlockAt
  <2>2. LeafAt(leaves, place[f]) \in leaves
    BY <2>1 DEF LeafAt, InBox
  <2>3. LeafAt(leaves, place[f]).level \in 0 .. config.maxLevel
    BY <1>1, <2>2, Location
  <2> QED
    BY <1>1, <2>3 DEF Detail
<1> QED
  BY <1>2, <1>3 DEF Placed

(* The footprint is the cell of the level it is known to.                  *)
LEMMA FootprintIs ==
  ASSUME config \in Configs, Placed, NEW f \in Features, NEW l \in 0 .. config.maxLevel
  PROVE  LET k == Lesser(Detail(f), l) IN
         /\ k \in 0 .. config.maxLevel /\ k <= l
         /\ \A d \in Axes(config) :
              /\ Footprint(f, l).lower[d] = (place[f][d] \div Width(config, k)) * Width(config, k)
              /\ Footprint(f, l).upper[d] = ((place[f][d] \div Width(config, k)) + 1) * Width(config, k)
              /\ place[f][d] \in Nat /\ place[f][d] < Span(config)
<1> DEFINE k == Lesser(Detail(f), l)
<1>1. Detail(f) \in 0 .. config.maxLevel /\ place[f] \in Points /\ config.maxLevel \in Nat
  BY Levels DEF Placed
<1>2. k \in 0 .. config.maxLevel /\ k <= l
  BY <1>1 DEF Lesser
<1>3. Span(config) \in Nat
  BY Sides
<1> HIDE DEF k
<1>4. Footprint(f, l) =
        CellBox(config, [level |-> k, at |-> [d \in Axes(config) |-> place[f][d] \div Width(config, k)]])
  BY DEF Footprint, k
<1>5. ASSUME NEW d \in Axes(config)
      PROVE  /\ Footprint(f, l).lower[d] = (place[f][d] \div Width(config, k)) * Width(config, k)
             /\ Footprint(f, l).upper[d] = ((place[f][d] \div Width(config, k)) + 1) * Width(config, k)
             /\ place[f][d] \in Nat /\ place[f][d] < Span(config)
  BY <1>1, <1>3, <1>4 DEF CellBox, Box, Points
<1> QED
  BY <1>2, <1>5 DEF k

(* The cell a feature is in holds it. *)
LEMMA FootprintHolds ==
  ASSUME config \in Configs, Placed, NEW f \in Features, NEW l \in 0 .. config.maxLevel, NEW d \in Axes(config)
  PROVE  /\ Footprint(f, l).lower[d] \in Nat /\ Footprint(f, l).upper[d] \in Nat /\ place[f][d] \in Nat
         /\ Footprint(f, l).lower[d] <= place[f][d] /\ place[f][d] < Footprint(f, l).upper[d]
         /\ Footprint(f, l).upper[d] <= Span(config) + Span(config)
<1> DEFINE k == Lesser(Detail(f), l)
           W == Width(config, k)
           x == place[f][d]
           q == x \div W
<1>1. /\ k \in 0 .. config.maxLevel /\ x \in Nat /\ x < Span(config)
      /\ Footprint(f, l).lower[d] = q * W /\ Footprint(f, l).upper[d] = (q + 1) * W
  BY FootprintIs
<1>2. W \in Nat \ {0} /\ W <= Span(config) /\ Span(config) \in Nat
  <2> HIDE DEF k
  <2>1. W \in Nat \ {0} /\ config.cells \in Nat \ {0} /\ 2^k \in Nat \ {0} /\ Span(config) = (config.cells * W) * 2^k
    BY <1>1, Sides DEF Side
  <2> DEFINE C == config.cells
             n == 2^k
  <2> HIDE DEF C, n, W
  <2>2. W \in Nat \ {0} /\ C \in Nat \ {0} /\ n \in Nat \ {0} /\ Span(config) = (C * W) * n
    BY <2>1 DEF C, n
  <2>3. C * W \in Nat /\ W <= C * W
    BY <2>2
  <2> DEFINE S == C * W
  <2>4. S \in Nat /\ W <= S /\ Span(config) = S * n
    BY <2>2, <2>3
  <2> HIDE DEF S
  <2>5. S * n \in Nat /\ S <= S * n
    BY <2>2, <2>4
  <2> QED
    BY <2>2, <2>4, <2>5
<1> HIDE DEF W, k
<1>3. q \in Nat /\ W * q <= x /\ x < W * q + W
  BY <1>1, <1>2, Quotient
<1> HIDE DEF q
<1>4. q * W = W * q /\ (q + 1) * W = W * q + W /\ q * W \in Nat
  BY <1>2, <1>3
<1> QED
  BY <1>1, <1>2, <1>3, <1>4

(* Seen by coarser blocks it is no smaller. *)
LEMMA FootprintNested ==
  ASSUME config \in Configs, Placed, NEW f \in Features, NEW i \in 0 .. config.maxLevel, NEW j \in 0 .. i,
         NEW d \in Axes(config)
  PROVE  /\ Footprint(f, j).lower[d] <= Footprint(f, i).lower[d]
         /\ Footprint(f, i).upper[d] <= Footprint(f, j).upper[d]
<1> DEFINE fine == Lesser(Detail(f), i)
           coarse == Lesser(Detail(f), j)
           w == Width(config, fine)
           P == 2^(fine - coarse)
           x == place[f][d]
<1>1. Detail(f) \in 0 .. config.maxLevel /\ config.maxLevel \in Nat /\ j \in 0 .. config.maxLevel
  BY Levels DEF Placed
<1>2. fine \in 0 .. config.maxLevel /\ coarse \in 0 .. fine
  BY <1>1 DEF Lesser
<1>3. w \in Nat \ {0} /\ Width(config, coarse) = P * w /\ P \in Nat \ {0}
  BY <1>2, Sides
<1>4. /\ x \in Nat
      /\ Footprint(f, i).lower[d] = (x \div w) * w /\ Footprint(f, i).upper[d] = ((x \div w) + 1) * w
      /\ Footprint(f, j).lower[d] = (x \div (P * w)) * (P * w)
      /\ Footprint(f, j).upper[d] = ((x \div (P * w)) + 1) * (P * w)
  BY <1>1, <1>3, FootprintIs
<1> HIDE DEF w, P
<1>5. (x \div w) \div P = x \div (w * P) /\ w * P = P * w
  BY <1>3, <1>4, QuotientTwice
<1>6. x \div w \in Nat
  BY <1>3, <1>4, Quotient
<1>7. /\ ((x \div w) \div P) * (P * w) <= (x \div w) * w
      /\ ((x \div w) + 1) * w <= (((x \div w) \div P) + 1) * (P * w)
  BY <1>3, <1>6, Coarser
<1> QED
  BY <1>4, <1>5, <1>7

(* What shows on a block shows on the blocks over it. *)
LEMMA FlaggedAbove ==
  ASSUME config \in Configs, Placed, NEW f \in Features, f \in DOMAIN config.kinds,
         Hereditary(f), NEW b \in Locations(config), NEW k \in 0 .. b.level, Flagged(f, b)
  PROVE  Flagged(f, Ancestor(b, k))
<1> DEFINE a == Ancestor(b, k)
<1>1. a \in Locations(config) /\ a.level = k /\ b.level \in 0 .. config.maxLevel /\ k \in 0 .. config.maxLevel
      /\ k \in Nat /\ b.level \in Nat /\ config.maxLevel \in Nat
  BY AncestorIs, Location, Levels
<1>2. config.kinds[f].from <= k /\ k <= config.kinds[f].until
  <2>1. config.kinds[f].until \in Nat
    BY RegridAssumption DEF IsConfig
  <2> QED
    BY <1>1, <2>1 DEF Flagged, Hereditary
<1>3. ASSUME NEW d \in Axes(config)
      PROVE  /\ Footprint(f, k).lower[d] < BlockBox(config, a).upper[d]
             /\ BlockBox(config, a).lower[d] < Footprint(f, k).upper[d]
  <2>1. /\ Footprint(f, b.level).lower[d] < BlockBox(config, b).upper[d]
        /\ BlockBox(config, b).lower[d] < Footprint(f, b.level).upper[d]
    BY DEF Flagged, Shows
  <2>2. /\ Footprint(f, k).lower[d] <= Footprint(f, b.level).lower[d]
        /\ Footprint(f, b.level).upper[d] <= Footprint(f, k).upper[d]
    BY <1>1, FootprintNested
  <2>3. /\ BlockBox(config, a).lower[d] <= BlockBox(config, b).lower[d]
        /\ BlockBox(config, b).upper[d] <= BlockBox(config, a).upper[d]
    BY BoxInside
  <2>4. /\ BlockBox(config, a).lower[d] \in Nat /\ BlockBox(config, a).upper[d] \in Nat
        /\ BlockBox(config, b).lower[d] \in Nat /\ BlockBox(config, b).upper[d] \in Nat
    BY <1>1, BoxIs
  <2>5. /\ Footprint(f, k).lower[d] \in Nat /\ Footprint(f, k).upper[d] \in Nat
        /\ Footprint(f, b.level).lower[d] \in Nat /\ Footprint(f, b.level).upper[d] \in Nat
    BY <1>1, FootprintHolds
  <2> QED
    BY <2>1, <2>2, <2>3, <2>4, <2>5
<1> QED
  BY <1>1, <1>2, <1>3 DEF Flagged, Shows

Greater(x, y) == IF x < y THEN y ELSE x

(* The box a block asks to be finer: around the cells that are flagged in   *)
(* it, and the padding more.                                               *)
LEMMA SeedIs ==
  ASSUME config \in Configs, Placed, NEW b \in Locations(config), NEW found \in SUBSET Features, found # {},
         \A f \in found : Shows(f, b), NEW horizon \in Nat
  PROVE  LET s == SeedOf(b, found, horizon)
             P == Padding(b, horizon)
             box == BlockBox(config, b)
         IN /\ s.level = Lesser(config.maxLevel, b.level + 1) /\ s.level \in 0 .. config.maxLevel /\ P \in Nat
            /\ \A d \in Axes(config) :
                 /\ s.lower[d] \in Int /\ s.upper[d] \in Int
                 /\ \E f \in found : s.lower[d] = Greater(Footprint(f, b.level).lower[d], box.lower[d]) - P
                 /\ \A f \in found : s.lower[d] <= Greater(Footprint(f, b.level).lower[d], box.lower[d]) - P
                 /\ \E f \in found : s.upper[d] = Lesser(Footprint(f, b.level).upper[d], box.upper[d]) + P
                 /\ \A f \in found : s.upper[d] >= Lesser(Footprint(f, b.level).upper[d], box.upper[d]) + P
<1> DEFINE s == SeedOf(b, found, horizon)
           P == Padding(b, horizon)
           box == BlockBox(config, b)
           Lows(d) == {Footprint(f, b.level).lower[d] : f \in found}
           Highs(d) == {Footprint(f, b.level).upper[d] : f \in found}
           low(d) == Min(Lows(d) \cup {box.upper[d]})
           high(d) == Max(Highs(d) \cup {box.lower[d]})
<1>1. b.level \in 0 .. config.maxLevel /\ b.level \in Nat /\ config.maxLevel \in Nat
  BY Location, Levels
<1>2. P \in Nat
  <2>1. config.buffer \in Nat /\ config.signalBuffer \in Nat /\ Width(config, b.level) \in Nat
    BY <1>1, Sides, RegridAssumption DEF IsConfig
  <2> DEFINE B == config.buffer
             W == Width(config, b.level)
             S == config.signalBuffer
  <2>2. P = B * W + S * horizon
    BY DEF Padding
  <2> HIDE DEF B, W, S
  <2>3. B \in Nat /\ W \in Nat /\ S \in Nat
    BY <2>1 DEF B, W, S
  <2>4. B * W \in Nat /\ S * horizon \in Nat
    BY <2>3
  <2> QED
    BY <2>2, <2>4
<1>3. s.level = Lesser(config.maxLevel, b.level + 1) /\ s.level \in 0 .. config.maxLevel
  BY <1>1 DEF SeedOf, Lesser
<1>4. ASSUME NEW d \in Axes(config)
      PROVE  /\ s.lower[d] = (IF low(d) < box.lower[d] THEN box.lower[d] ELSE low(d)) - P
             /\ s.upper[d] = (IF high(d) > box.upper[d] THEN box.upper[d] ELSE high(d)) + P
  BY DEF SeedOf
<1>5. ASSUME NEW d \in Axes(config)
      PROVE  /\ box.lower[d] \in Nat /\ box.upper[d] \in Nat
             /\ \A f \in found : /\ Footprint(f, b.level).lower[d] \in Nat /\ Footprint(f, b.level).upper[d] \in Nat
                                 /\ Footprint(f, b.level).lower[d] < box.upper[d]
                                 /\ box.lower[d] < Footprint(f, b.level).upper[d]
                                 /\ Footprint(f, b.level).upper[d] <= Span(config) + Span(config)
  BY <1>1, BoxIs, FootprintHolds DEF Shows
<1>6. ASSUME NEW d \in Axes(config)
      PROVE  (\E f \in found : low(d) = Footprint(f, b.level).lower[d])
             /\ \A f \in found : low(d) <= Footprint(f, b.level).lower[d]
  <2> DEFINE all == Lows(d) \cup {box.upper[d]}
  <2>1. all \in SUBSET Nat /\ all # {}
    BY <1>5
  <2>2. \E x \in all : \A y \in all : x <= y
    BY <2>1, Least
  <2>3. low(d) \in all /\ \A y \in all : low(d) <= y
    BY <2>2 DEF Min
  <2>4. PICK f \in found : TRUE
    OBVIOUS
  <2>5. low(d) <= Footprint(f, b.level).lower[d] /\ Footprint(f, b.level).lower[d] < box.upper[d]
    BY <1>5, <2>3
  <2>6. low(d) # box.upper[d]
    BY <1>5, <2>1, <2>3, <2>5
  <2> QED
    BY <2>3, <2>6
<1>7. ASSUME NEW d \in Axes(config)
      PROVE  (\E f \in found : high(d) = Footprint(f, b.level).upper[d])
             /\ \A f \in found : Footprint(f, b.level).upper[d] <= high(d)
  <2> DEFINE all == Highs(d) \cup {box.lower[d]}
             most == Span(config) + Span(config)
  <2>0. most \in Nat /\ box.lower[d] <= most
    <3>1. Span(config) \in Nat /\ box.upper[d] <= Span(config) /\ box.lower[d] < box.upper[d]
      BY <1>1, BoxIs, Sides
    <3> QED
      BY <1>5, <3>1
  <2>1. all \in SUBSET Nat /\ all # {} /\ \A y \in all : y <= most
    BY <1>5, <2>0
  <2> HIDE DEF most
  <2>2. \E x \in all : \A y \in all : y <= x
    BY <2>0, <2>1, Greatest
  <2>3. \E x \in all : \A y \in all : x >= y
    BY <2>1, <2>2
  <2>4. high(d) \in all /\ \A y \in all : high(d) >= y
    BY <2>3 DEF Max
  <2>5. PICK f \in found : TRUE
    OBVIOUS
  <2>6. high(d) >= Footprint(f, b.level).upper[d] /\ box.lower[d] < Footprint(f, b.level).upper[d]
    BY <1>5, <2>4
  <2>7. high(d) # box.lower[d]
    BY <1>5, <2>1, <2>4, <2>6
  <2>8. \A f1 \in found : high(d) >= Footprint(f1, b.level).upper[d]
    BY <2>4
  <2> QED
    BY <1>5, <2>1, <2>4, <2>7, <2>8
<1> HIDE DEF s, P, low, high, box
<1>8. ASSUME NEW d \in Axes(config)
      PROVE  /\ s.lower[d] \in Int /\ s.upper[d] \in Int
             /\ \E f \in found : s.lower[d] = Greater(Footprint(f, b.level).lower[d], box.lower[d]) - P
             /\ \A f \in found : s.lower[d] <= Greater(Footprint(f, b.level).lower[d], box.lower[d]) - P
             /\ \E f \in found : s.upper[d] = Lesser(Footprint(f, b.level).upper[d], box.upper[d]) + P
             /\ \A f \in found : s.upper[d] >= Lesser(Footprint(f, b.level).upper[d], box.upper[d]) + P
  <2>1. PICK g \in found : low(d) = Footprint(g, b.level).lower[d]
    BY <1>6
  <2>2. PICK h \in found : high(d) = Footprint(h, b.level).upper[d]
    BY <1>7
  <2>3. box.lower[d] \in Nat /\ box.upper[d] \in Nat /\ low(d) \in Nat /\ high(d) \in Nat
    BY <1>5, <2>1, <2>2
  <2>4. s.lower[d] = Greater(low(d), box.lower[d]) - P
    BY <1>4 DEF Greater
  <2>5. s.upper[d] = Lesser(high(d), box.upper[d]) + P
    BY <1>4, <2>3 DEF Lesser
  <2>6. ASSUME NEW f \in found
        PROVE  /\ s.lower[d] <= Greater(Footprint(f, b.level).lower[d], box.lower[d]) - P
               /\ s.upper[d] >= Lesser(Footprint(f, b.level).upper[d], box.upper[d]) + P
    <3>1. /\ low(d) <= Footprint(f, b.level).lower[d] /\ Footprint(f, b.level).lower[d] \in Nat
          /\ Footprint(f, b.level).upper[d] <= high(d) /\ Footprint(f, b.level).upper[d] \in Nat
      BY <1>5, <1>6, <1>7
    <3>2. Greater(low(d), box.lower[d]) <= Greater(Footprint(f, b.level).lower[d], box.lower[d])
      BY <2>3, <3>1 DEF Greater
    <3>3. Lesser(Footprint(f, b.level).upper[d], box.upper[d]) <= Lesser(high(d), box.upper[d])
      BY <2>3, <3>1 DEF Lesser
    <3> QED
      BY <1>2, <2>3, <2>4, <2>5, <3>1, <3>2, <3>3 DEF Greater, Lesser
  <2>7. s.lower[d] \in Int /\ s.upper[d] \in Int
    BY <1>2, <2>3, <2>4, <2>5 DEF Greater, Lesser
  <2> QED
    BY <2>1, <2>2, <2>4, <2>5, <2>6, <2>7
<1> QED
  BY <1>2, <1>3, <1>8 DEF s, P, box

(* It meets the block that asks. *)
LEMMA SeedOverlaps ==
  ASSUME config \in Configs, Placed, NEW b \in Locations(config), NEW found \in SUBSET Features, found # {},
         \A f \in found : Shows(f, b), NEW horizon \in Nat
  PROVE  Overlaps(config, BlockBox(config, b), SeedOf(b, found, horizon))
<1> DEFINE s == SeedOf(b, found, horizon)
           P == Padding(b, horizon)
           box == BlockBox(config, b)
<1>1. ASSUME NEW d \in Axes(config)
      PROVE  box.lower[d] < s.upper[d] + 0 /\ s.lower[d] + 0 < box.upper[d]
  <2>1. /\ P \in Nat /\ s.lower[d] \in Int /\ s.upper[d] \in Int
        /\ \A f \in found : s.lower[d] <= Greater(Footprint(f, b.level).lower[d], box.lower[d]) - P
        /\ \A f \in found : s.upper[d] >= Lesser(Footprint(f, b.level).upper[d], box.upper[d]) + P
    BY SeedIs
  <2>2. PICK f \in found : TRUE
    OBVIOUS
  <2>3. Footprint(f, b.level).lower[d] < box.upper[d] /\ box.lower[d] < Footprint(f, b.level).upper[d]
    BY DEF Shows
  <2>4. Footprint(f, b.level).lower[d] \in Nat /\ Footprint(f, b.level).upper[d] \in Nat
    BY Location, FootprintHolds
  <2>5. box.lower[d] \in Nat /\ box.upper[d] \in Nat /\ box.lower[d] < box.upper[d]
    BY BoxIs
  <2> HIDE DEF box, s, P
  <2>6. /\ s.lower[d] <= Greater(Footprint(f, b.level).lower[d], box.lower[d]) - P
        /\ s.upper[d] >= Lesser(Footprint(f, b.level).upper[d], box.upper[d]) + P
    BY <2>1
  <2> QED
    BY <2>1, <2>3, <2>4, <2>5, <2>6 DEF Greater, Lesser
<1> HIDE DEF s, box
<1>2. \A d \in Axes(config) : 0 \in (IF config.periodic[d] THEN {-Span(config), 0, Span(config)} ELSE {0})
  OBVIOUS
<1> QED
  BY <1>1, <1>2 DEF Overlaps, s, box

(* It reaches the padding beyond a feature in the block. *)
LEMMA SeedReaches ==
  ASSUME config \in Configs, Placed, NEW b \in Locations(config), NEW found \in SUBSET Features,
         \A f \in found : Shows(f, b), NEW horizon \in Nat, NEW f \in found, InBox(b, place[f]),
         NEW d \in Axes(config)
  PROVE  LET s == SeedOf(b, found, horizon) IN
         /\ s.lower[d] \in Int /\ s.upper[d] \in Int /\ place[f][d] \in Nat
         /\ s.lower[d] <= place[f][d] - config.signalBuffer * horizon
         /\ place[f][d] + config.signalBuffer * horizon < s.upper[d]
<1> DEFINE s == SeedOf(b, found, horizon)
           P == Padding(b, horizon)
           box == BlockBox(config, b)
           x == place[f][d]
           r == config.signalBuffer * horizon
<1>1. /\ P \in Nat /\ s.lower[d] \in Int /\ s.upper[d] \in Int
      /\ s.lower[d] <= Greater(Footprint(f, b.level).lower[d], box.lower[d]) - P
      /\ s.upper[d] >= Lesser(Footprint(f, b.level).upper[d], box.upper[d]) + P
  BY SeedIs
<1>2. /\ Footprint(f, b.level).lower[d] \in Nat /\ Footprint(f, b.level).upper[d] \in Nat /\ x \in Nat
      /\ Footprint(f, b.level).lower[d] <= x /\ x < Footprint(f, b.level).upper[d]
  BY Location, FootprintHolds
<1>3. box.lower[d] \in Nat /\ box.upper[d] \in Nat /\ box.lower[d] <= x /\ x < box.upper[d]
  BY BoxIs DEF InBox
<1>4. r \in Nat /\ r <= P
  <2>1. config.buffer \in Nat /\ config.signalBuffer \in Nat /\ Width(config, b.level) \in Nat
    BY Location, Sides, RegridAssumption DEF IsConfig
  <2> DEFINE B == config.buffer
             W == Width(config, b.level)
             S == config.signalBuffer
  <2>2. P = B * W + S * horizon
    BY DEF Padding
  <2> HIDE DEF B, W, P
  <2>3. B \in Nat /\ W \in Nat /\ S \in Nat
    BY <2>1 DEF B, W
  <2> HIDE DEF S
  <2>4. B * W \in Nat /\ S * horizon \in Nat
    BY <2>3
  <2> QED
    BY <2>2, <2>4 DEF S
<1> HIDE DEF s, P, box, r
<1>5. s.lower[d] <= x - r /\ x + r < s.upper[d]
  BY <1>1, <1>2, <1>3, <1>4 DEF Greater, Lesser
<1> QED
  BY <1>1, <1>2, <1>5 DEF s, r

(* Half a block asks for no more than the block did, of a level as fine.   *)
LEMMA SeedNested ==
  ASSUME config \in Configs, Placed, NEW b \in Locations(config), NEW k \in 0 .. b.level,
         NEW found \in SUBSET Features, found # {}, NEW more \in SUBSET Features, found \subseteq more,
         \A f \in found : Shows(f, b), \A f \in more : Shows(f, Ancestor(b, k)), NEW horizon \in Nat,
         NEW box, \A d \in Axes(config) : box.lower[d] \in Int /\ box.upper[d] \in Int,
         Overlaps(config, box, SeedOf(b, found, horizon))
  PROVE  Overlaps(config, box, SeedOf(Ancestor(b, k), more, horizon))
<1> DEFINE a == Ancestor(b, k)
           s == SeedOf(b, found, horizon)
           t == SeedOf(a, more, horizon)
           P == Padding(b, horizon)
           Q == Padding(a, horizon)
<1>1. a \in Locations(config) /\ a.level = k /\ b.level \in 0 .. config.maxLevel /\ k \in 0 .. config.maxLevel
      /\ k \in Nat /\ b.level \in Nat /\ config.maxLevel \in Nat
  BY AncestorIs, Location, Levels
<1>2. /\ P \in Nat /\ Q \in Nat /\ more # {}
      /\ \A d \in Axes(config) : s.lower[d] \in Int /\ s.upper[d] \in Int /\ t.lower[d] \in Int /\ t.upper[d] \in Int
  <2>1. more # {}
    OBVIOUS
  <2>2. P \in Nat /\ \A d \in Axes(config) : s.lower[d] \in Int /\ s.upper[d] \in Int
    BY SeedIs
  <2>3. Q \in Nat /\ \A d \in Axes(config) : t.lower[d] \in Int /\ t.upper[d] \in Int
    BY <1>1, <2>1, SeedIs
  <2> QED
    BY <2>1, <2>2, <2>3
<1>3. P <= Q
  <2> DEFINE B == config.buffer
             w == Width(config, b.level)
             p == 2^(b.level - k)
             S == config.signalBuffer
  <2>1. B \in Nat /\ S \in Nat
    BY RegridAssumption DEF IsConfig
  <2>2. w \in Nat \ {0} /\ p \in Nat \ {0} /\ Width(config, k) = p * w
    BY <1>1, Sides
  <2>3. P = B * w + S * horizon /\ Q = B * (p * w) + S * horizon
    BY <1>1, <2>2 DEF Padding
  <2> HIDE DEF B, w, p, S, P, Q
  <2>4. w <= p * w /\ p * w \in Nat
    BY <2>2
  <2> DEFINE v == p * w
  <2>5. w <= v /\ v \in Nat /\ Q = B * v + S * horizon
    BY <2>3, <2>4
  <2> HIDE DEF v
  <2>6. B * w <= B * v /\ B * w \in Nat /\ B * v \in Nat /\ S * horizon \in Nat
    BY <2>1, <2>2, <2>5
  <2> QED
    BY <2>3, <2>5, <2>6
<1>4. ASSUME NEW d \in Axes(config) PROVE t.lower[d] <= s.lower[d] /\ s.upper[d] <= t.upper[d]
  <2>1. PICK g \in found : s.lower[d] = Greater(Footprint(g, b.level).lower[d], BlockBox(config, b).lower[d]) - P
    BY SeedIs
  <2>2. PICK h \in found : s.upper[d] = Lesser(Footprint(h, b.level).upper[d], BlockBox(config, b).upper[d]) + P
    BY SeedIs
  <2>3. /\ t.lower[d] <= Greater(Footprint(g, k).lower[d], BlockBox(config, a).lower[d]) - Q
        /\ t.upper[d] >= Lesser(Footprint(h, k).upper[d], BlockBox(config, a).upper[d]) + Q
    <3>1. /\ \A f \in more : t.lower[d] <= Greater(Footprint(f, a.level).lower[d], BlockBox(config, a).lower[d]) - Q
          /\ \A f \in more : t.upper[d] >= Lesser(Footprint(f, a.level).upper[d], BlockBox(config, a).upper[d]) + Q
      BY <1>1, <1>2, SeedIs
    <3> HIDE DEF t, a, Q
    <3> QED
      BY <1>1, <3>1
  <2>4. /\ Footprint(g, k).lower[d] <= Footprint(g, b.level).lower[d]
        /\ Footprint(h, b.level).upper[d] <= Footprint(h, k).upper[d]
    BY <1>1, FootprintNested
  <2>5. /\ Footprint(g, k).lower[d] \in Nat /\ Footprint(g, b.level).lower[d] \in Nat
        /\ Footprint(h, b.level).upper[d] \in Nat /\ Footprint(h, k).upper[d] \in Nat
    BY <1>1, FootprintHolds
  <2>6. /\ BlockBox(config, a).lower[d] <= BlockBox(config, b).lower[d]
        /\ BlockBox(config, b).upper[d] <= BlockBox(config, a).upper[d]
    BY BoxInside
  <2>7. /\ BlockBox(config, a).lower[d] \in Nat /\ BlockBox(config, a).upper[d] \in Nat
        /\ BlockBox(config, b).lower[d] \in Nat /\ BlockBox(config, b).upper[d] \in Nat
    BY <1>1, BoxIs
  <2> HIDE DEF s, t, a, P, Q
  <2>8. /\ Greater(Footprint(g, k).lower[d], BlockBox(config, a).lower[d])
             <= Greater(Footprint(g, b.level).lower[d], BlockBox(config, b).lower[d])
        /\ Greater(Footprint(g, k).lower[d], BlockBox(config, a).lower[d]) \in Nat
        /\ Greater(Footprint(g, b.level).lower[d], BlockBox(config, b).lower[d]) \in Nat
    BY <2>4, <2>5, <2>6, <2>7 DEF Greater
  <2>9. /\ Lesser(Footprint(h, b.level).upper[d], BlockBox(config, b).upper[d])
             <= Lesser(Footprint(h, k).upper[d], BlockBox(config, a).upper[d])
        /\ Lesser(Footprint(h, b.level).upper[d], BlockBox(config, b).upper[d]) \in Nat
        /\ Lesser(Footprint(h, k).upper[d], BlockBox(config, a).upper[d]) \in Nat
    BY <2>4, <2>5, <2>6, <2>7 DEF Lesser
  <2> QED
    BY <1>2, <1>3, <2>1, <2>2, <2>3, <2>8, <2>9
<1> HIDE DEF s, t
<1>5. Span(config) \in Nat
  BY <1>1, Sides
<1>6. ASSUME NEW d \in Axes(config)
      PROVE  \E shift \in IF config.periodic[d] THEN {-Span(config), 0, Span(config)} ELSE {0} :
               box.lower[d] < t.upper[d] + shift /\ t.lower[d] + shift < box.upper[d]
  <2>1. PICK shift \in IF config.periodic[d] THEN {-Span(config), 0, Span(config)} ELSE {0} :
               box.lower[d] < s.upper[d] + shift /\ s.lower[d] + shift < box.upper[d]
    BY DEF Overlaps, s
  <2>2. shift \in Int
    BY <1>5, <2>1
  <2>3. box.lower[d] < t.upper[d] + shift /\ t.lower[d] + shift < box.upper[d]
    BY <1>2, <1>4, <2>1, <2>2
  <2> QED
    BY <2>1, <2>3
<1> QED
  BY <1>6 DEF Overlaps, t, a

(* A wider box meets no less. *)
LEMMA OverlapsWider ==
  ASSUME config \in Configs, NEW a, NEW b, NEW s,
         \A d \in Axes(config) : /\ {a.lower[d], a.upper[d], b.lower[d], b.upper[d], s.lower[d], s.upper[d]} \subseteq Int
                                 /\ b.lower[d] <= a.lower[d] /\ a.upper[d] <= b.upper[d],
         Overlaps(config, a, s)
  PROVE  Overlaps(config, b, s)
<1>1. Span(config) \in Nat
  BY Levels, Sides
<1>2. ASSUME NEW d \in Axes(config)
      PROVE  \E shift \in IF config.periodic[d] THEN {-Span(config), 0, Span(config)} ELSE {0} :
               b.lower[d] < s.upper[d] + shift /\ s.lower[d] + shift < b.upper[d]
  <2>1. PICK shift \in IF config.periodic[d] THEN {-Span(config), 0, Span(config)} ELSE {0} :
               a.lower[d] < s.upper[d] + shift /\ s.lower[d] + shift < a.upper[d]
    BY DEF Overlaps
  <2>2. shift \in Int
    BY <1>1, <2>1
  <2>3. b.lower[d] < s.upper[d] + shift /\ s.lower[d] + shift < b.upper[d]
    BY <2>1, <2>2
  <2> QED
    BY <2>1, <2>3
<1> QED
  BY <1>2 DEF Overlaps

IsSeed(s) == s.level \in 0 .. config.maxLevel /\ \A d \in Axes(config) : s.lower[d] \in Int /\ s.upper[d] \in Int

(* A mesh that refines one whose blocks ask for no more asks for no more. *)
LEMMA GrantedBelow ==
  ASSUME config \in Configs, NEW blocks \in SUBSET Locations(config), NEW new \in SUBSET Locations(config),
         Refines(new, blocks), NEW seeds, \A s \in seeds : IsSeed(s), NEW minimum \in 0 .. config.maxLevel,
         AllGranted(blocks, seeds, minimum)
  PROVE  AllGranted(new, seeds, minimum)
<1> SUFFICES ASSUME NEW n \in new
             PROVE  minimum <= n.level /\ \A s \in seeds : Overlaps(config, BlockBox(config, n), s) => s.level <= n.level
  BY DEF AllGranted, AtLeast, Granted
<1>1. PICK b \in blocks : b.level <= n.level /\ Ancestor(n, b.level) = b
  BY DEF Refines, Under
<1>2. n \in Locations(config) /\ b \in Locations(config) /\ b.level \in 0 .. n.level /\ n.level \in Nat /\ b.level \in Nat
      /\ minimum \in Nat
  BY <1>1, Location, Levels
<1>3. minimum <= n.level
  BY <1>1, <1>2 DEF AllGranted, AtLeast
<1>4. ASSUME NEW s \in seeds, Overlaps(config, BlockBox(config, n), s) PROVE s.level <= n.level
  <2>1. \A d \in Axes(config) : /\ BlockBox(config, b).lower[d] <= BlockBox(config, n).lower[d]
                                /\ BlockBox(config, n).upper[d] <= BlockBox(config, b).upper[d]
    BY <1>1, <1>2, BoxInside
  <2>2. \A d \in Axes(config) : {BlockBox(config, n).lower[d], BlockBox(config, n).upper[d],
            BlockBox(config, b).lower[d], BlockBox(config, b).upper[d], s.lower[d], s.upper[d]} \subseteq Int
    BY <1>2, BoxIs DEF IsSeed
  <2>3. Overlaps(config, BlockBox(config, b), s)
    BY <1>4, <2>1, <2>2, OverlapsWider
  <2>4. s.level <= b.level /\ s.level \in Nat
    BY <2>3, Levels DEF AllGranted, Granted, IsSeed
  <2> QED
    BY <1>1, <1>2, <2>4
<1> QED
  BY <1>3, <1>4

FoundIn(b, seen) == {f \in seen : Flagged(f, b)}

(* The seeds are those of the blocks in which something is flagged.        *)
LEMMA SeedsAre ==
  ASSUME config \in Configs, Placed, NEW blocks \in SUBSET Locations(config), NEW seen \in SUBSET Features,
         NEW horizon \in Nat
  PROVE  /\ \A s \in Seeds(blocks, seen, horizon) : IsSeed(s)
         /\ \A b \in blocks : FoundIn(b, seen) # {} => SeedOf(b, FoundIn(b, seen), horizon) \in Seeds(blocks, seen, horizon)
         /\ \A s \in Seeds(blocks, seen, horizon) : \E b \in blocks :
              FoundIn(b, seen) # {} /\ s = SeedOf(b, FoundIn(b, seen), horizon)
<1>1. \A s \in Seeds(blocks, seen, horizon) : \E b \in blocks :
              FoundIn(b, seen) # {} /\ s = SeedOf(b, FoundIn(b, seen), horizon)
  BY DEF Seeds, FoundIn
<1>2. ASSUME NEW b \in blocks, FoundIn(b, seen) # {}
      PROVE  SeedOf(b, FoundIn(b, seen), horizon) \in Seeds(blocks, seen, horizon)
  <2>1. \E f \in seen : Flagged(f, b)
    BY <1>2 DEF FoundIn
  <2> QED
    BY <2>1 DEF Seeds, FoundIn
<1>3. ASSUME NEW s \in Seeds(blocks, seen, horizon) PROVE IsSeed(s)
  <2>1. PICK b \in blocks : FoundIn(b, seen) # {} /\ s = SeedOf(b, FoundIn(b, seen), horizon)
    BY <1>1
  <2>2. FoundIn(b, seen) \in SUBSET Features /\ \A f \in FoundIn(b, seen) : Shows(f, b)
    BY DEF FoundIn, Flagged
  <2>3. b \in Locations(config)
    OBVIOUS
  <2> QED
    BY <2>1, <2>2, <2>3, SeedIs DEF IsSeed
<1> QED
  BY <1>1, <1>2, <1>3

(* What selection makes asks for no more than it has. *)
LEMMA SelectionGrants ==
  ASSUME config \in Configs, Placed, NEW blocks, Tiling(config, blocks), NEW seen \in SUBSET Features, NEW horizon \in Nat,
         NEW minimum \in 0 .. config.maxLevel, NEW coarsening \in BOOLEAN, NEW rounds \in Nat,
         \/ rounds = config.maxLevel
         \/ ~coarsening /\ rounds > 0 /\ SelectMesh(blocks, seen, horizon, minimum, coarsening, rounds) = blocks
  PROVE  AllGranted(SelectMesh(blocks, seen, horizon, minimum, coarsening, rounds), Seeds(blocks, seen, horizon), minimum)
<1> DEFINE made == SelectMesh(blocks, seen, horizon, minimum, coarsening, rounds)
           asked == Seeds(blocks, seen, horizon)
<1>1. /\ Tiling(config, made)
      /\ rounds = config.maxLevel =>
            \E deep : Tiling(config, deep) /\ Refines(made, deep) /\ Lacking(deep, asked, minimum) = {}
      /\ ~coarsening /\ rounds > 0 /\ made = blocks => Lacking(blocks, asked, minimum) = {}
  <2>1. Tiling(config, made)
    BY SelectionCovers
  <2>2. rounds = config.maxLevel =>
            \E deep : Tiling(config, deep) /\ Refines(made, deep) /\ Lacking(deep, asked, minimum) = {}
    BY SelectionCovers
  <2>3. ~coarsening /\ rounds > 0 /\ made = blocks => Lacking(blocks, asked, minimum) = {}
    BY SelectionCovers
  <2> HIDE DEF made, asked
  <2> QED
    BY <2>1, <2>2, <2>3
<1>2. blocks \in SUBSET Locations(config) /\ made \in SUBSET Locations(config)
  BY <1>1 DEF Tiling, Covering
<1>3. \A s \in asked : IsSeed(s) /\ s.level \in 0 .. config.maxLevel
  BY <1>2, SeedsAre DEF IsSeed
<1> HIDE DEF made, asked
<1>4. CASE rounds = config.maxLevel
  <2>1. PICK deep : Tiling(config, deep) /\ Refines(made, deep) /\ Lacking(deep, asked, minimum) = {}
    BY <1>1, <1>4
  <2>2. deep \in SUBSET Locations(config)
    BY <2>1 DEF Tiling, Covering
  <2>3. AllGranted(deep, asked, minimum)
    BY <1>3, <2>1, <2>2, NoneLacking
  <2>4. AllGranted(made, asked, minimum)
    BY <1>2, <1>3, <2>1, <2>2, <2>3, GrantedBelow
  <2> QED
    BY <2>4 DEF made, asked
<1>5. CASE ~coarsening /\ rounds > 0 /\ made = blocks
  <2>1. AllGranted(blocks, asked, minimum)
    BY <1>1, <1>2, <1>3, <1>5, NoneLacking
  <2> QED
    BY <1>5, <2>1 DEF made, asked
<1> QED
  BY <1>4, <1>5 DEF made

(* A selection without coarsening accepts a balanced mesh that asks for no more. *)
LEMMA SelectionAccepts ==
  ASSUME config \in Configs, Placed, NEW blocks, Tiling(config, blocks), TooCoarse(blocks) = {},
         NEW seen \in SUBSET Features, NEW horizon \in Nat, NEW minimum \in 0 .. config.maxLevel,
         NEW coarsening \in BOOLEAN, ~coarsening, NEW rounds \in Nat,
         AllGranted(blocks, Seeds(blocks, seen, horizon), minimum)
  PROVE  SelectMesh(blocks, seen, horizon, minimum, coarsening, rounds) = blocks
<1>1. blocks \in SUBSET Locations(config)
  BY DEF Tiling, Covering
<1> DEFINE asked == Seeds(blocks, seen, horizon)
<1>2. \A s \in asked : s.level \in 0 .. config.maxLevel
  BY <1>1, SeedsAre DEF IsSeed
<1> HIDE DEF asked
<1>3. Lacking(blocks, asked, minimum) = {}
  BY <1>1, <1>2, NoneLacking DEF asked
<1>4. ~coarsening /\ Lacking(blocks, asked, minimum) = {} /\ TooCoarse(blocks) = {}
        => SelectMesh(blocks, seen, horizon, minimum, coarsening, rounds) = blocks
  BY SelectionCovers DEF asked
<1> QED
  BY <1>3, <1>4

(* Points at most r from x on each axis, around the periodic ones.         *)
Shifts(d) == IF config.periodic[d] THEN {-1, 0, 1} ELSE {0}
Within(x, y, r) ==
  \A d \in Axes(config) : \E s \in Shifts(d) :
    -r <= y[d] + s * Span(config) - x[d] /\ y[d] + s * Span(config) - x[d] <= r
(* Around the feature, as far as r, all blocks are of the finest level. *)
Reserved(blocks, at, r) ==
  \A y \in Points : Within(at, y, r) => \A b \in blocks : InBox(b, y) => b.level = config.maxLevel

(* A mesh that asks for no more has a flagged block only on the finest level. *)
LEMMA FlaggedFinest ==
  ASSUME config \in Configs, Placed, NEW blocks \in SUBSET Locations(config), NEW seen \in SUBSET Features,
         NEW horizon \in Nat, NEW b \in blocks, FoundIn(b, seen) # {},
         LET s == SeedOf(b, FoundIn(b, seen), horizon)
         IN  Granted(blocks, s)
  PROVE  b.level = config.maxLevel /\ SeedOf(b, FoundIn(b, seen), horizon).level = config.maxLevel
<1> DEFINE s == SeedOf(b, FoundIn(b, seen), horizon)
<1>1. b \in Locations(config) /\ b.level \in 0 .. config.maxLevel /\ config.maxLevel \in Nat
  BY Location, Levels
<1>2. FoundIn(b, seen) \in SUBSET Features /\ \A f \in FoundIn(b, seen) : Shows(f, b)
  BY DEF FoundIn, Flagged
<1>3. s.level = Lesser(config.maxLevel, b.level + 1) /\ Overlaps(config, BlockBox(config, b), s)
  BY <1>1, <1>2, SeedIs, SeedOverlaps
<1> HIDE DEF s
<1>4. s.level <= b.level
  BY <1>3 DEF Granted, s
<1> QED
  BY <1>1, <1>3, <1>4 DEF Lesser, s

(* What is flagged on such a mesh lies in blocks of the finest level, as far   *)
(* as signals travel until the horizon.                                     *)
LEMMA CoveredBySeeds ==
  ASSUME config \in Configs, Placed, Features = DOMAIN config.kinds, NEW blocks, Covering(config, blocks),
         NEW seen \in SUBSET Features, NEW horizon \in Nat,
         NEW minimum, AllGranted(blocks, Seeds(blocks, seen, horizon), minimum),
         NEW f \in seen, Hereditary(f), \E b \in blocks : Flagged(f, b)
  PROVE  Reserved(blocks, place[f], config.signalBuffer * horizon)
<1> DEFINE x == place[f]
           r == config.signalBuffer * horizon
           found(b) == FoundIn(b, seen)
<1>0. blocks \in SUBSET Locations(config) /\ config.maxLevel \in Nat /\ x \in Points /\ f \in Features
  BY Levels DEF Covering, Placed
<1>1. \A b \in blocks : found(b) # {} =>
        /\ b.level = config.maxLevel /\ SeedOf(b, found(b), horizon).level = config.maxLevel
        /\ Granted(blocks, SeedOf(b, found(b), horizon))
  <2> SUFFICES ASSUME NEW b \in blocks, found(b) # {}
               PROVE  /\ b.level = config.maxLevel /\ SeedOf(b, found(b), horizon).level = config.maxLevel
                      /\ Granted(blocks, SeedOf(b, found(b), horizon))
    OBVIOUS
  <2>1. Granted(blocks, SeedOf(b, found(b), horizon))
    BY <1>0, SeedsAre DEF AllGranted
  <2> QED
    BY <1>0, <2>1, FlaggedFinest
<1>2. config.maxLevel <= config.kinds[f].until
  <2>1. PICK b \in blocks : Flagged(f, b)
    OBVIOUS
  <2>2. f \in found(b)
    BY <2>1 DEF FoundIn
  <2>3. b.level = config.maxLevel
    BY <1>1, <2>2
  <2> QED
    BY <2>1, <2>3 DEF Flagged
<1>3. PICK b \in blocks : InBox(b, x)
  BY <1>0, BlockAt
<1>4. b \in Locations(config) /\ b.level \in 0 .. config.maxLevel
  BY <1>0, Location
<1>5. Flagged(f, b)
  <2>1. ASSUME NEW d \in Axes(config)
        PROVE  /\ Footprint(f, b.level).lower[d] < BlockBox(config, b).upper[d]
               /\ BlockBox(config, b).lower[d] < Footprint(f, b.level).upper[d]
    <3>1. /\ Footprint(f, b.level).lower[d] \in Nat /\ Footprint(f, b.level).upper[d] \in Nat /\ x[d] \in Nat
          /\ Footprint(f, b.level).lower[d] <= x[d] /\ x[d] < Footprint(f, b.level).upper[d]
      BY <1>0, <1>4, FootprintHolds
    <3>2. /\ BlockBox(config, b).lower[d] \in Nat /\ BlockBox(config, b).upper[d] \in Nat
          /\ BlockBox(config, b).lower[d] <= x[d] /\ x[d] < BlockBox(config, b).upper[d]
      BY <1>3, <1>4, BoxIs DEF InBox
    <3> QED
      BY <3>1, <3>2
  <2>2. config.kinds[f].from = 0 /\ config.kinds[f].until \in Nat
    BY <1>0, RegridAssumption DEF IsConfig, Hereditary
  <2>3. config.kinds[f].from <= b.level /\ b.level <= config.kinds[f].until
    BY <1>0, <1>2, <1>4, <2>2
  <2> QED
    BY <2>1, <2>3 DEF Flagged, Shows
<1>6. f \in found(b) /\ found(b) \in SUBSET Features /\ \A g \in found(b) : Shows(g, b)
  BY <1>5 DEF FoundIn, Flagged
<1> DEFINE s == SeedOf(b, found(b), horizon)
<1>7. s.level = config.maxLevel /\ Granted(blocks, s)
  BY <1>1, <1>6
<1>8. r \in Nat
  <2>1. config.signalBuffer \in Nat
    BY Levels
  <2> QED
    BY <2>1
<1>9. \A d \in Axes(config) : /\ s.lower[d] \in Int /\ s.upper[d] \in Int /\ x[d] \in Nat
                              /\ s.lower[d] <= x[d] - r /\ x[d] + r < s.upper[d]
  BY <1>3, <1>4, <1>6, SeedReaches
<1> SUFFICES ASSUME NEW y \in Points, Within(x, y, r), NEW o \in blocks, InBox(o, y)
             PROVE  o.level = config.maxLevel
  BY DEF Reserved
<1> HIDE DEF s, x, r, found
<1>10. o \in Locations(config) /\ o.level \in 0 .. config.maxLevel /\ Span(config) \in Nat
  BY <1>0, <1>4, Location, Sides
<1>11. ASSUME NEW d \in Axes(config)
       PROVE  \E shift \in IF config.periodic[d] THEN {-Span(config), 0, Span(config)} ELSE {0} :
                BlockBox(config, o).lower[d] < s.upper[d] + shift /\ s.lower[d] + shift < BlockBox(config, o).upper[d]
  <2> DEFINE n == Span(config)
  <2>1. PICK t \in Shifts(d) : -r <= y[d] + t * n - x[d] /\ y[d] + t * n - x[d] <= r
    BY DEF Within
  <2>2. t \in {-1, 0, 1} /\ (-t) * n \in IF config.periodic[d] THEN {-n, 0, n} ELSE {0}
    <3>1. t \in {-1, 0, 1} /\ (config.periodic[d] \/ t = 0)
      BY DEF Shifts
    <3>2. n \in Nat
      BY <1>10
    <3> HIDE DEF n
    <3>3. (-t) * n \in {-n, 0, n} /\ (t = 0 => (-t) * n = 0)
      BY <3>1, <3>2
    <3> QED
      BY <3>1, <3>3
  <2>3. /\ BlockBox(config, o).lower[d] \in Nat /\ BlockBox(config, o).upper[d] \in Nat /\ y[d] \in Nat
        /\ BlockBox(config, o).lower[d] <= y[d] /\ y[d] < BlockBox(config, o).upper[d]
    BY <1>10, BoxIs DEF InBox, Points
  <2>4. n \in Nat
    BY <1>10
  <2> HIDE DEF n
  <2>5. t * n \in Int /\ (-t) * n = -(t * n)
    BY <2>2, <2>4
  <2>6. BlockBox(config, o).lower[d] < s.upper[d] + (-t) * n /\ s.lower[d] + (-t) * n < BlockBox(config, o).upper[d]
    <3> DEFINE m == t * n
    <3>1. m \in Int /\ -r <= y[d] + m - x[d] /\ y[d] + m - x[d] <= r /\ (-t) * n = -m
      BY <2>1, <2>5
    <3>2. /\ s.lower[d] \in Int /\ s.upper[d] \in Int /\ x[d] \in Nat
          /\ s.lower[d] <= x[d] - r /\ x[d] + r < s.upper[d]
      BY <1>9
    <3> HIDE DEF m
    <3> QED
      BY <1>8, <2>3, <3>1, <3>2
  <2> QED
    BY <2>2, <2>6 DEF n
<1>12. Overlaps(config, BlockBox(config, o), s)
  BY <1>11 DEF Overlaps
<1>13. config.maxLevel <= o.level
  BY <1>7, <1>12 DEF Granted
<1> QED
  BY <1>0, <1>10, <1>13

(* Around a ring of n places a step of at most a round goes around once.   *)
LEMMA Around ==
  ASSUME NEW n \in Nat \ {0}, NEW x \in 0 .. (n - 1), NEW v \in Int, -n <= v, v <= n
  PROVE  \E e \in {-1, 0, 1} : (x + v) % n = x + v + e * n
<1> DEFINE a == x + v
           q == a \div n
<1>1. a \in Int /\ -n <= a /\ a < n + n
  OBVIOUS
<1> HIDE DEF a
<1>2. q \in Int /\ n * q <= a /\ a < n * q + n /\ a % n = a - n * q
  BY <1>1
<1> HIDE DEF q
<1>3. q \in {-1, 0, 1}
  <2>1. ~(q <= -2)
    <3> SUFFICES ASSUME q + 2 <= 0 PROVE FALSE
      BY <1>2
    <3> DEFINE p == -(q + 2)
    <3>1. p \in Nat /\ q = -2 - p
      BY <1>2
    <3> HIDE DEF p
    <3>2. n * q = -(n + n) - n * p /\ n * p \in Nat
      BY <3>1
    <3> DEFINE m == n * p
    <3>3. m \in Nat /\ a < -(n + n) - m + n
      BY <1>2, <3>2
    <3> HIDE DEF m
    <3> QED
      BY <1>1, <3>3
  <2>2. ~(q >= 2)
    <3> SUFFICES ASSUME q >= 2 PROVE FALSE
      OBVIOUS
    <3> DEFINE p == q - 2
    <3>1. p \in Nat /\ q = 2 + p
      BY <1>2
    <3> HIDE DEF p
    <3>2. n * q = n + n + n * p /\ n * p \in Nat
      BY <3>1
    <3> DEFINE m == n * p
    <3>3. m \in Nat /\ n + n + m <= a
      BY <1>2, <3>2
    <3> HIDE DEF m
    <3> QED
      BY <1>1, <3>3
  <2> QED
    BY <1>2, <2>1, <2>2
<1>4. \E e \in {-1, 0, 1} : a % n = a + e * n
  <2>1. CASE q = 0
    <3>1. a % n = a + 0 * n
      BY <1>1, <1>2, <2>1
    <3> QED
      BY <3>1
  <2>2. CASE q = 1
    <3>1. a % n = a + (-1) * n
      BY <1>1, <1>2, <2>2
    <3> QED
      BY <3>1
  <2>3. CASE q = -1
    <3>1. a % n = a + 1 * n
      BY <1>1, <1>2, <2>3
    <3> QED
      BY <3>1
  <2> QED
    BY <1>3, <2>1, <2>2, <2>3
<1> QED
  BY <1>4 DEF a

(* Near the place a step ends is near the place it begins. *)
LEMMA NearAround ==
  ASSUME NEW n \in Nat \ {0}, NEW x \in 0 .. (n - 1), NEW y \in 0 .. (n - 1), NEW z \in 0 .. (n - 1),
         NEW v \in Int, NEW len \in Nat, -len <= v, v <= len, NEW r \in Int,
         NEW e \in {-1, 0, 1}, y = x + v + e * n,
         NEW s \in {-1, 0, 1}, -r <= z + s * n - y, z + s * n - y <= r
  PROVE  \E t \in {-1, 0, 1} : -(r + len) <= z + t * n - x /\ z + t * n - x <= r + len
<1>1. CASE e = 0
  <2>1. -(r + len) <= z + s * n - x /\ z + s * n - x <= r + len
    <3>1. y = x + v
      BY <1>1
    <3> DEFINE m == s * n
    <3>2. m \in Int /\ -r <= z + m - y /\ z + m - y <= r
      OBVIOUS
    <3> HIDE DEF m
    <3>3. -(r + len) <= z + m - x /\ z + m - x <= r + len
      BY <3>1, <3>2
    <3> QED
      BY <3>3 DEF m
  <2> QED
    BY <2>1
<1>2. CASE e = 1
  <2>1. y = x + v + n
    BY <1>2
  <2>2. CASE s = 0
    <3>1. -(r + len) <= z + (-1) * n - x /\ z + (-1) * n - x <= r + len
      BY <2>1, <2>2
    <3> QED
      BY <3>1
  <2>3. CASE s = 1
    <3>1. -(r + len) <= z + 0 * n - x /\ z + 0 * n - x <= r + len
      BY <2>1, <2>3
    <3> QED
      BY <3>1
  <2>4. CASE s = -1
    <3>1. -(r + len) <= z + (-1) * n - x /\ z + (-1) * n - x <= r + len
      BY <2>1, <2>4
    <3> QED
      BY <3>1
  <2> QED
    BY <2>2, <2>3, <2>4
<1>3. CASE e = -1
  <2>1. y = x + v - n
    BY <1>3
  <2>2. CASE s = 0
    <3>1. -(r + len) <= z + 1 * n - x /\ z + 1 * n - x <= r + len
      BY <2>1, <2>2
    <3> QED
      BY <3>1
  <2>3. CASE s = -1
    <3>1. -(r + len) <= z + 0 * n - x /\ z + 0 * n - x <= r + len
      BY <2>1, <2>3
    <3> QED
      BY <3>1
  <2>4. CASE s = 1
    <3>1. -(r + len) <= z + 1 * n - x /\ z + 1 * n - x <= r + len
      BY <2>1, <2>4
    <3> QED
      BY <3>1
  <2> QED
    BY <2>2, <2>3, <2>4
<1> QED
  BY <1>1, <1>2, <1>3

(* At the end of an axis the step stops. *)
LEMMA Clamped ==
  ASSUME NEW n \in Nat \ {0}, NEW x \in 0 .. (n - 1), NEW v \in Int, NEW len \in Nat, -len <= v, v <= len,
         NEW y, y = Min({n - 1, Max({0, x + v})})
  PROVE  y \in Int /\ -len <= y - x /\ y - x <= len
<1> DEFINE a == x + v
           m == Max({0, a})
<1>1. a \in Int
  OBVIOUS
<1> HIDE DEF a
<1>2. m = Greater(0, a) /\ m \in Int
  <2>1. \A k \in {0, a} : (\A j \in {0, a} : k >= j) => k = Greater(0, a)
    BY <1>1 DEF Greater
  <2>2. Greater(0, a) \in {0, a} /\ \A j \in {0, a} : Greater(0, a) >= j
    BY <1>1 DEF Greater
  <2>3. m \in {0, a} /\ \A j \in {0, a} : m >= j
    BY <2>2 DEF Max
  <2> QED
    BY <1>1, <2>1, <2>3
<1> HIDE DEF m
<1>3. Min({n - 1, m}) = Lesser(n - 1, m)
  <2>1. \A k \in {n - 1, m} : (\A j \in {n - 1, m} : k <= j) => k = Lesser(n - 1, m)
    BY <1>2 DEF Lesser
  <2>2. Lesser(n - 1, m) \in {n - 1, m} /\ \A j \in {n - 1, m} : Lesser(n - 1, m) <= j
    BY <1>2 DEF Lesser
  <2>3. Min({n - 1, m}) \in {n - 1, m} /\ \A j \in {n - 1, m} : Min({n - 1, m}) <= j
    BY <2>2 DEF Min
  <2> QED
    BY <1>2, <2>1, <2>3
<1>4. y = Lesser(n - 1, Greater(0, a))
  BY <1>2, <1>3 DEF m, a
<1> QED
  BY <1>1, <1>4 DEF Lesser, Greater, a

(* A feature that moves less than len stays near what it was near.         *)
LEMMA MovedReach ==
  ASSUME config \in Configs, NEW x \in Points, NEW len \in Nat, len <= Span(config), NEW y \in Moves(x, len),
         NEW z \in Points, NEW r \in Int, Within(y, z, r)
  PROVE  Within(x, z, r + len)
<1> DEFINE n == Span(config)
<1>1. n \in Nat \ {0} /\ len <= n
  BY Levels, Sides
<1>2. \A d \in Axes(config) : x[d] \in 0 .. (n - 1) /\ z[d] \in 0 .. (n - 1)
  BY DEF Points
<1>3. CASE ~config.moving
  <2>1. y = x
    BY <1>3 DEF Moves
  <2> SUFFICES ASSUME NEW d \in Axes(config)
               PROVE  \E s \in Shifts(d) : -(r + len) <= z[d] + s * n - x[d] /\ z[d] + s * n - x[d] <= r + len
    BY DEF Within
  <2>2. PICK s \in Shifts(d) : -r <= z[d] + s * n - x[d] /\ z[d] + s * n - x[d] <= r
    BY <2>1 DEF Within
  <2>3. s \in {-1, 0, 1} /\ x[d] \in Int /\ z[d] \in Int
    BY <1>1, <1>2 DEF Shifts
  <2> HIDE DEF n
  <2>4. -(r + len) <= z[d] + s * n - x[d] /\ z[d] + s * n - x[d] <= r + len
    BY <1>1, <2>2, <2>3
  <2> QED
    BY <2>4
<1>4. CASE config.moving
  <2>1. PICK v \in [Axes(config) -> {-len, len}] : \A d \in Axes(config) :
            y[d] = IF config.periodic[d] THEN (x[d] + v[d]) % n ELSE Min({n - 1, Max({0, x[d] + v[d]})})
    BY <1>4 DEF Moves
  <2>2. y \in [Axes(config) -> 0 .. (n - 1)]
    BY <1>4 DEF Moves
  <2> SUFFICES ASSUME NEW d \in Axes(config)
               PROVE  \E s \in Shifts(d) : -(r + len) <= z[d] + s * n - x[d] /\ z[d] + s * n - x[d] <= r + len
    BY DEF Within
  <2>3. PICK s \in Shifts(d) : -r <= z[d] + s * n - y[d] /\ z[d] + s * n - y[d] <= r
    BY DEF Within
  <2>4. x[d] \in 0 .. (n - 1) /\ z[d] \in 0 .. (n - 1) /\ y[d] \in 0 .. (n - 1) /\ s \in {-1, 0, 1}
    BY <1>2, <2>2 DEF Shifts
  <2>5. v[d] \in Int /\ -len <= v[d] /\ v[d] <= len
    BY <2>1
  <2> HIDE DEF n
  <2>6. CASE config.periodic[d]
    <3>1. Shifts(d) = {-1, 0, 1} /\ y[d] = (x[d] + v[d]) % n
      BY <2>1, <2>6 DEF Shifts
    <3>2. -n <= v[d] /\ v[d] <= n
      BY <1>1, <2>5
    <3> DEFINE X == x[d]
               Y == y[d]
               Z == z[d]
               V == v[d]
    <3>3. /\ X \in 0 .. (n - 1) /\ Y \in 0 .. (n - 1) /\ Z \in 0 .. (n - 1) /\ V \in Int /\ -len <= V /\ V <= len
          /\ -n <= V /\ V <= n /\ Y = (X + V) % n /\ -r <= Z + s * n - Y /\ Z + s * n - Y <= r
      BY <2>3, <2>4, <2>5, <3>1, <3>2
    <3> HIDE DEF X, Y, Z, V
    <3>6. \E e \in {-1, 0, 1} : (X + V) % n = X + V + e * n
      BY <1>1, <3>3, Around
    <3>4. PICK e \in {-1, 0, 1} : Y = X + V + e * n
      BY <3>3, <3>6
    <3>5. \E t \in {-1, 0, 1} : -(r + len) <= Z + t * n - X /\ Z + t * n - X <= r + len
      BY <1>1, <2>4, <3>3, <3>4, NearAround
    <3> QED
      BY <3>1, <3>5 DEF X, Z
  <2>7. CASE ~config.periodic[d]
    <3>1. s = 0 /\ 0 \in Shifts(d) /\ y[d] = Min({n - 1, Max({0, x[d] + v[d]})})
      BY <2>1, <2>7 DEF Shifts
    <3>2. -len <= y[d] - x[d] /\ y[d] - x[d] <= len
      BY <1>1, <2>4, <2>5, <3>1, Clamped
    <3>3. -r <= z[d] - y[d] /\ z[d] - y[d] <= r
      BY <1>1, <2>3, <2>4, <3>1
    <3>4. -(r + len) <= z[d] + 0 * n - x[d] /\ z[d] + 0 * n - x[d] <= r + len
      BY <1>1, <2>4, <3>2, <3>3
    <3> QED
      BY <3>1, <3>4
  <2> QED
    BY <2>6, <2>7
<1> QED
  BY <1>3, <1>4

(* No step is longer than the domain. *)
LEMMA StepReach ==
  ASSUME Sound
  PROVE  Lookahead \in Nat /\ Lookahead <= Span(config)
<1>1. config \in Configs /\ Covering(config, leaves) /\ config.maxLevel \in Nat
  BY Current
<1>2. Lookahead \in Nat /\ limit \in Nat /\ StableStep(leaves) \in Nat
  BY Numbers DEF Sound, Meshes
<1>3. /\ Max({b.level : b \in leaves}) \in 0 .. config.maxLevel
      /\ Min({b.level : b \in leaves}) \in 0 .. config.maxLevel
  BY <1>1, ExtremeLevels
<1>4. Lookahead <= StableStep(leaves)
  BY <1>2 DEF Lookahead, Lesser
<1>5. \E l \in 0 .. config.maxLevel : StableStep(leaves) = Width(config, l)
  BY <1>3 DEF StableStep, FinestStep
<1>6. \A l \in 0 .. config.maxLevel : Width(config, l) <= Span(config)
  <2> SUFFICES ASSUME NEW l \in 0 .. config.maxLevel PROVE Width(config, l) <= Span(config)
    OBVIOUS
  <2>1. config.cells \in Nat \ {0} /\ Width(config, l) \in Nat \ {0} /\ 2^l \in Nat \ {0} /\ Span(config) = Side(l) * 2^l
    BY <1>1, Sides
  <2> DEFINE C == config.cells
             w == Width(config, l)
             n == 2^l
  <2>2. Span(config) = (C * w) * n
    BY <2>1 DEF Side
  <2> HIDE DEF C, w, n
  <2>3. C * w \in Nat /\ w <= C * w /\ w \in Nat /\ n \in Nat \ {0}
    BY <2>1 DEF C, w, n
  <2> DEFINE S == C * w
  <2> HIDE DEF S
  <2>4. S \in Nat /\ w <= S /\ Span(config) = S * n
    BY <2>2, <2>3 DEF S
  <2>5. S * n \in Nat /\ S <= S * n
    BY <2>3, <2>4
  <2> QED
    BY <2>3, <2>4, <2>5 DEF w
<1>7. Span(config) \in Nat /\ \A l \in 0 .. config.maxLevel : Width(config, l) \in Nat
  BY <1>1, Sides
<1> QED
  BY <1>2, <1>4, <1>5, <1>6, <1>7

(* What a candidate of a regrid that has made passes still asks for.       *)
Asking(blocks, horizon, made) ==
  \A q \in blocks : FoundIn(q, active) # {} =>
    \/ Granted(blocks, SeedOf(q, FoundIn(q, active), horizon))
    \/ made <= config.maxLevel /\ q.level >= made - 1

(* After the first pass all that may ask is what there is. *)
LEMMA AskingAtFirst ==
  ASSUME config \in Configs, Placed, active \subseteq Features, NEW blocks \in SUBSET Locations(config), NEW horizon \in Nat
  PROVE  Asking(blocks, horizon, 1)
<1> SUFFICES ASSUME NEW q \in blocks, FoundIn(q, active) # {}
             PROVE  \/ Granted(blocks, SeedOf(q, FoundIn(q, active), horizon))
                    \/ 1 <= config.maxLevel /\ q.level >= 1 - 1
  BY DEF Asking
<1>1. q \in Locations(config) /\ q.level \in 0 .. config.maxLevel /\ config.maxLevel \in Nat
  BY Location, Levels
<1>2. CASE 1 <= config.maxLevel
  BY <1>1, <1>2
<1>3. CASE config.maxLevel = 0
  <2> DEFINE s == SeedOf(q, FoundIn(q, active), horizon)
  <2>1. FoundIn(q, active) \in SUBSET Features /\ \A f \in FoundIn(q, active) : Shows(f, q)
    BY DEF FoundIn, Flagged
  <2>2. s.level \in 0 .. config.maxLevel
    BY <1>1, <2>1, SeedIs
  <2>3. \A b \in blocks : b.level \in 0 .. config.maxLevel
    BY Location
  <2> HIDE DEF s
  <2>4. \A b \in blocks : s.level <= b.level
    BY <1>3, <2>2, <2>3
  <2> QED
    BY <2>4 DEF Granted, s
<1> QED
  BY <1>1, <1>2, <1>3

(* A later pass grants what was asked for, and the blocks it adds are of a   *)
(* finer level than those that asked: so in maxLevel passes more nothing    *)
(* is left to ask for.                                                     *)
LEMMA AskingLater ==
  ASSUME config \in Configs, Placed, Features = DOMAIN config.kinds, active \subseteq Features,
         \A f \in Features : Hereditary(f),
         NEW blocks \in SUBSET Locations(config), NEW new \in SUBSET Locations(config), Refines(new, blocks),
         NEW horizon \in Nat, NEW made \in Nat \ {0}, made <= config.maxLevel + 1, Asking(blocks, horizon, made),
         NEW minimum, AllGranted(new, Seeds(blocks, active, horizon), minimum)
  PROVE  Asking(new, horizon, made + 1)
<1> DEFINE seed(b) == SeedOf(b, FoundIn(b, active), horizon)
<1> SUFFICES ASSUME NEW q \in new, FoundIn(q, active) # {}
             PROVE  \/ Granted(new, seed(q))
                    \/ made + 1 <= config.maxLevel /\ q.level >= (made + 1) - 1
  BY DEF Asking
<1>1. PICK a \in blocks : a.level <= q.level /\ Ancestor(q, a.level) = a
  BY DEF Refines, Under
<1>2. /\ q \in Locations(config) /\ a \in Locations(config) /\ a.level \in 0 .. q.level
      /\ q.level \in 0 .. config.maxLevel /\ config.maxLevel \in Nat /\ a.level \in Nat
  BY <1>1, Location, Levels
<1>3. FoundIn(q, active) \subseteq FoundIn(a, active)
  <2> SUFFICES ASSUME NEW f \in active, Flagged(f, q) PROVE Flagged(f, a)
    BY DEF FoundIn
  <2>1. f \in Features /\ Hereditary(f)
    OBVIOUS
  <2> QED
    BY <1>1, <1>2, <2>1, FlaggedAbove
<1>4. FoundIn(a, active) # {}
  BY <1>3
<1>5. Granted(new, seed(a))
  <2>1. seed(a) \in Seeds(blocks, active, horizon)
    BY <1>4, SeedsAre
  <2> QED
    BY <2>1 DEF AllGranted
<1>6. CASE a.level = q.level
  <2>1. a = q
    BY <1>1, <1>2, <1>6, SelfAncestor
  <2> QED
    BY <1>5, <2>1
<1>7. CASE a.level < q.level
  <2>1. ~Granted(blocks, seed(a))
    <3> SUFFICES ASSUME Granted(blocks, seed(a)) PROVE FALSE
      OBVIOUS
    <3>1. a.level = config.maxLevel
      BY <1>4, FlaggedFinest
    <3> QED
      BY <1>2, <1>7, <3>1
  <2>2. made <= config.maxLevel /\ a.level >= made - 1
    BY <1>4, <2>1 DEF Asking
  <2>3. CASE made + 1 <= config.maxLevel
    BY <1>2, <1>7, <2>2, <2>3
  <2>4. CASE made = config.maxLevel
    <3>1. /\ FoundIn(q, active) \in SUBSET Features /\ \A f \in FoundIn(q, active) : Shows(f, q)
          /\ FoundIn(a, active) \in SUBSET Features /\ \A f \in FoundIn(a, active) : Shows(f, a)
      BY DEF FoundIn, Flagged
    <3>2. seed(q).level \in 0 .. config.maxLevel /\ seed(a).level = Lesser(config.maxLevel, a.level + 1)
      BY <1>2, <1>4, <3>1, SeedIs
    <3>3. seed(a).level = config.maxLevel
      BY <1>2, <1>7, <2>2, <2>4, <3>2 DEF Lesser
    <3> SUFFICES ASSUME NEW o \in new, Overlaps(config, BlockBox(config, o), seed(q)) PROVE seed(q).level <= o.level
      BY DEF Granted
    <3>4. o \in Locations(config) /\ o.level \in 0 .. config.maxLevel
      BY Location
    <3> DEFINE box == BlockBox(config, o)
    <3>5. \A d \in Axes(config) : box.lower[d] \in Int /\ box.upper[d] \in Int
      BY <3>4, BoxIs
    <3> HIDE DEF box
    <3>6. Overlaps(config, box, SeedOf(q, FoundIn(q, active), horizon))
      BY DEF box
    <3>7. \A f \in FoundIn(a, active) : Shows(f, Ancestor(q, a.level))
      BY <1>1, <3>1
    <3>8. Overlaps(config, box, SeedOf(Ancestor(q, a.level), FoundIn(a, active), horizon))
      BY <1>2, <1>3, <3>1, <3>5, <3>6, <3>7, SeedNested
    <3>9. config.maxLevel <= o.level
      BY <1>1, <1>5, <3>3, <3>8 DEF Granted, box
    <3> QED
      BY <1>2, <3>2, <3>4, <3>9
  <2> QED
    BY <1>2, <2>2, <2>3, <2>4
<1> QED
  BY <1>2, <1>6, <1>7

(* When nothing can be left to ask for, the next pass accepts the candidate. *)
LEMMA AskingNothing ==
  ASSUME config \in Configs, Placed, active \subseteq Features, NEW blocks, Tiling(config, blocks), Even(blocks),
         NEW horizon \in Nat, Asking(blocks, horizon, config.maxLevel + 1), NEW rounds \in Nat,
         NEW coarsening \in BOOLEAN, ~coarsening
  PROVE  SelectMesh(blocks, active, horizon, config.minimum, coarsening, rounds) = blocks
<1>1. blocks \in SUBSET Locations(config) /\ config.maxLevel \in Nat /\ config.minimum \in 0 .. config.maxLevel
  BY Levels DEF Tiling, Covering
<1>4. \A s \in Seeds(blocks, active, horizon) : \E b \in blocks :
           FoundIn(b, active) # {} /\ s = SeedOf(b, FoundIn(b, active), horizon)
  <2>1. active \in SUBSET Features
    OBVIOUS
  <2> QED
    BY <1>1, <2>1, SeedsAre
<1>2. ASSUME NEW s \in Seeds(blocks, active, horizon) PROVE Granted(blocks, s)
  <2>1. PICK b \in blocks : FoundIn(b, active) # {} /\ s = SeedOf(b, FoundIn(b, active), horizon)
    BY <1>4
  <2>2. ~(config.maxLevel + 1 <= config.maxLevel)
    BY <1>1
  <2>3. Granted(blocks, SeedOf(b, FoundIn(b, active), horizon))
    BY <2>1, <2>2 DEF Asking
  <2> QED
    BY <2>1, <2>3
<1>3. TooCoarse(blocks) = {} /\ AllGranted(blocks, Seeds(blocks, active, horizon), config.minimum)
  BY <1>2 DEF Even, AllGranted
<1> QED
  BY <1>1, <1>3, SelectionAccepts

(* What is seen of the features depends on the world and the published mesh. *)
LEMMA SameSight ==
  ASSUME config' = config, place' = place, active' = active, leaves' = leaves, (call' = "startup") <=> (call = "startup")
  PROVE  /\ \A f, b : Flagged(f, b)' <=> Flagged(f, b)
         /\ \A blocks, horizon, made : Asking(blocks, horizon, made)' <=> Asking(blocks, horizon, made)
<1>1. ASSUME NEW f PROVE Detail(f)' = Detail(f)
  BY DEF Detail, LeafAt
<1>2. ASSUME NEW f, NEW l PROVE Footprint(f, l)' = Footprint(f, l)
  BY <1>1 DEF Footprint
<1>3. ASSUME NEW f, NEW b PROVE Flagged(f, b)' <=> Flagged(f, b)
  BY <1>2 DEF Flagged, Shows
<1>4. ASSUME NEW b PROVE FoundIn(b, active)' = FoundIn(b, active)
  BY <1>3 DEF FoundIn
<1>5. ASSUME NEW b, NEW found, NEW horizon PROVE SeedOf(b, found, horizon)' = SeedOf(b, found, horizon)
  BY <1>2 DEF SeedOf, Padding
<1>6. ASSUME NEW blocks, NEW s PROVE Granted(blocks, s)' <=> Granted(blocks, s)
  BY DEF Granted
<1>7. ASSUME NEW blocks, NEW horizon, NEW made PROVE Asking(blocks, horizon, made)' <=> Asking(blocks, horizon, made)
  BY <1>4, <1>5, <1>6 DEF Asking
<1> QED
  BY <1>3, <1>7

(* The horizon depends on the published mesh and the caller's limit.       *)
LEMMA SameHorizon ==
  ASSUME config' = config, leaves' = leaves, limit' = limit
  PROVE  Horizon' = Horizon
BY DEF Horizon, Lookahead, StableStep, FinestStep

(***************************************************************************)
(* Flagged features stay in finest blocks as far as the budget goes: on    *)
(* the published mesh, and on the one about to be installed as far as its   *)
(* budget will go.                                                         *)
(***************************************************************************)
TagsHeld ==
  /\ call # "startup" /\ travel <= budget =>
       \A f \in tagged : Hereditary(f) => Reserved(leaves, place[f], budget - travel)
  /\ call = "regrid" /\ pass = 0 => candidate = leaves
  /\ call = "install" => \A f \in active : Hereditary(f) /\ (\E b \in candidate : Flagged(f, b)) =>
       Reserved(candidate, place[f], config.signalBuffer * Horizon)

(* A regrid without criteria that appear only on finer cells has granted    *)
(* all that was asked for, or is at most as far as its passes.             *)
Settling ==
  (\A f \in Features : Hereditary(f)) =>
    /\ outcome # "unsettled"
    /\ call = "regrid" /\ pass > 0 => Asking(candidate, Horizon, pass)

(* Both for the next state, from the values its variables have.            *)
LEMMA TagsNext ==
  ASSUME config' = config, call' = "regrid" /\ pass' = 0 => candidate' = leaves',
         call' # "startup" /\ travel' <= budget' =>
            \A f \in tagged' : Hereditary(f) => Reserved(leaves', place'[f], budget' - travel'),
         call' = "install" => \A f \in active' : Hereditary(f) /\ (\E b \in candidate' : Flagged(f, b)') =>
            Reserved(candidate', place'[f], config.signalBuffer * Horizon')
  PROVE  TagsHeld'
<1>1. \A f : Hereditary(f)' <=> Hereditary(f)
  BY DEF Hereditary
<1>2. ASSUME NEW f
      PROVE  Reserved(leaves, place[f], budget - travel)' <=> Reserved(leaves', place'[f], budget' - travel')
  BY DEF Reserved, Points, Within, Shifts, InBox
<1>3. ASSUME NEW f
      PROVE  Reserved(candidate, place[f], config.signalBuffer * Horizon)'
               <=> Reserved(candidate', place'[f], config.signalBuffer * Horizon')
  BY DEF Reserved, Points, Within, Shifts, InBox
<1>4. (call # "startup" /\ travel <= budget =>
        \A f \in tagged : Hereditary(f) => Reserved(leaves, place[f], budget - travel))'
  BY <1>1, <1>2
<1>5. (call = "install" => \A f \in active : Hereditary(f) /\ (\E b \in candidate : Flagged(f, b)) =>
       Reserved(candidate, place[f], config.signalBuffer * Horizon))'
  BY <1>1, <1>3
<1> QED
  BY <1>4, <1>5 DEF TagsHeld

(* A regrid that goes on keeps the world it looks at.                      *)
LEMMA SettlingNext ==
  ASSUME config' = config, place' = place, active' = active, leaves' = leaves, call # "startup", call' # "startup",
         limit' = limit,
         (\A f \in Features : Hereditary(f)) =>
            outcome' # "unsettled" /\ (call' = "regrid" /\ pass' > 0 => Asking(candidate', Horizon, pass'))
  PROVE  Settling'
<1>1. Features' = Features /\ \A f : Hereditary(f)' <=> Hereditary(f)
  BY DEF Features, Hereditary
<1>2. Horizon' = Horizon
  BY SameHorizon
<1>3. \A blocks, horizon, made : Asking(blocks, horizon, made)' <=> Asking(blocks, horizon, made)
  BY SameSight
<1>4. Asking(candidate, Horizon, pass)' <=> Asking(candidate', Horizon', pass')
  BY <1>2, <1>3
<1> QED
  BY <1>1, <1>2, <1>4 DEF Settling

(* The mesh selected for keeps the features it flags. *)
LEMMA SelectedCovers ==
  ASSUME Sound, NEW blocks, Tiling(config, blocks), NEW seen \in SUBSET active, NEW horizon \in Nat,
         NEW minimum \in 0 .. config.maxLevel, NEW coarsening \in BOOLEAN, NEW rounds \in Nat,
         rounds = config.maxLevel \/ (~coarsening /\ rounds > 0),
         SelectMesh(blocks, seen, horizon, minimum, coarsening, rounds) = blocks,
         NEW f \in seen, Hereditary(f), \E b \in blocks : Flagged(f, b)
  PROVE  Reserved(blocks, place[f], config.signalBuffer * horizon)
<1>1. Placed /\ Features = DOMAIN config.kinds /\ active \subseteq Features /\ config \in Configs
  BY FeaturesPlaced, Current
<1>2. seen \in SUBSET Features /\ Covering(config, blocks)
  BY <1>1 DEF Tiling
<1>3. AllGranted(SelectMesh(blocks, seen, horizon, minimum, coarsening, rounds), Seeds(blocks, seen, horizon), minimum)
  BY <1>1, <1>2, SelectionGrants
<1>4. AllGranted(blocks, Seeds(blocks, seen, horizon), minimum)
  BY <1>3
<1> QED
  BY <1>1, <1>2, <1>4, CoveredBySeeds

(* The startup ends on a mesh that its own selection leaves alone.          *)
LEMMA StartupTags ==
  ASSUME Sound, TagsHeld, Settling, Startup
  PROVE  TagsHeld' /\ Settling'
<1> DEFINE dt == Lesser(FinestStep(leaves), Max(config.limits))
           horizon == config.regridEvery * dt
           selected == SelectMesh(leaves, active, horizon, config.base, FALSE, 1)
           found == {f \in active : \E b \in leaves : Flagged(f, b)}
<1>1. /\ UNCHANGED <<world, candidate, pass, limit, travel, age, coarsened, outcome, steps, faults>>
      /\ call = "startup"
      /\ \/ leaves' = selected /\ UNCHANGED <<call, budget, tagged>>
         \/ /\ selected = leaves /\ call' = "driver" /\ budget' = config.signalBuffer * config.regridEvery * dt
            /\ tagged' = found /\ UNCHANGED leaves
  BY DEF Startup
<1>2. dt \in Nat
  BY StartupLookahead
<1> HIDE DEF dt
<1>3. horizon \in Nat /\ config.signalBuffer * config.regridEvery * dt = config.signalBuffer * horizon
      /\ config.signalBuffer * horizon \in Nat
  <2> DEFINE a == config.signalBuffer
             b == config.regridEvery
  <2>1. a \in Nat /\ b \in Nat
    BY Current, Levels
  <2> HIDE DEF a, b
  <2>2. b * dt \in Nat /\ (a * b) * dt = a * (b * dt) /\ a * (b * dt) \in Nat
    BY <1>2, <2>1
  <2> QED
    BY <2>2 DEF a, b
<1> HIDE DEF horizon
<1>4. config' = config /\ place' = place /\ call' \in {"startup", "driver"} /\ outcome' = outcome /\ travel' = travel
  BY <1>1 DEF world
<1>5. ASSUME call' # "startup"
      PROVE  \A f \in tagged' : Hereditary(f) => Reserved(leaves', place'[f], budget' - travel')
  <2>1. /\ selected = leaves /\ leaves' = leaves /\ tagged' = found /\ budget' - travel' = config.signalBuffer * horizon
    <3>1. travel' = 0
      BY <1>1, <1>4 DEF Sound, Tracker
    <3>2. selected = leaves /\ leaves' = leaves /\ tagged' = found /\ budget' = config.signalBuffer * horizon
      BY <1>1, <1>3, <1>5
    <3> HIDE DEF selected, found
    <3> DEFINE r == config.signalBuffer * horizon
    <3>3. budget' = r /\ r \in Nat
      BY <1>3, <3>2
    <3> HIDE DEF r
    <3>4. budget' - travel' = r
      BY <3>1, <3>3
    <3> QED
      BY <3>2, <3>4 DEF r
  <2> SUFFICES ASSUME NEW f \in found, Hereditary(f) PROVE Reserved(leaves, place[f], config.signalBuffer * horizon)
    BY <1>4, <2>1
  <2>2. f \in active /\ \E b \in leaves : Flagged(f, b)
    OBVIOUS
  <2> HIDE DEF found
  <2>3. active \in SUBSET active /\ 1 \in Nat /\ 1 > 0 /\ Tiling(config, leaves) /\ config.base \in 0 .. config.maxLevel
    BY Current
  <2> SUFFICES ASSUME NEW coarsening, coarsening = FALSE,
                      SelectMesh(leaves, active, horizon, config.base, coarsening, 1) = leaves
               PROVE  Reserved(leaves, place[f], config.signalBuffer * horizon)
    BY <2>1
  <2> QED
    BY <1>3, <2>2, <2>3, SelectedCovers
<1>6. TagsHeld'
  BY <1>4, <1>5, TagsNext
<1>7. Settling'
  <2>1. Features' = Features /\ \A f : Hereditary(f)' <=> Hereditary(f)
    BY <1>4 DEF Features, Hereditary
  <2> QED
    BY <1>4, <2>1 DEF Settling
<1> QED
  BY <1>6, <1>7

(* The published mesh, the tracker and the features are as they were. *)
LEMMA SameTags ==
  ASSUME TagsHeld, UNCHANGED mesh, UNCHANGED world, call # "startup", call' # "install",
         call' = "regrid" /\ pass' = 0 => candidate' = leaves
  PROVE  TagsHeld'
<1>1. /\ config' = config /\ place' = place /\ leaves' = leaves /\ travel' = travel /\ budget' = budget /\ tagged' = tagged
  BY DEF mesh, world
<1>2. travel' <= budget' => \A f \in tagged' : Hereditary(f) => Reserved(leaves', place'[f], budget' - travel')
  BY <1>1 DEF TagsHeld
<1> QED
  BY <1>1, <1>2, TagsNext

(* A regrid asked for, one that is not due, and one that throws leave it.  *)
LEMMA AskTags ==
  ASSUME Sound, TagsHeld, Settling, Ask
  PROVE  TagsHeld' /\ Settling'
<1>1. /\ call = "driver" /\ call' = "regrid" /\ pass' = 0 /\ candidate' = leaves /\ outcome' = outcome
      /\ UNCHANGED mesh /\ UNCHANGED world
  BY DEF Ask
<1>2. TagsHeld'
  BY <1>1, SameTags
<1>3. Settling'
  <2>1. Features' = Features /\ (\A f : Hereditary(f)' <=> Hereditary(f)) /\ ~(pass' > 0)
    BY <1>1 DEF Features, Hereditary, world
  <2> QED
    BY <1>1, <2>1 DEF Settling
<1> QED
  BY <1>2, <1>3

LEMMA NotDueTags ==
  ASSUME Sound, TagsHeld, Settling, NotDue
  PROVE  TagsHeld' /\ Settling'
<1>1. call = "regrid" /\ call' = "advance" /\ outcome' = outcome /\ UNCHANGED mesh /\ UNCHANGED world
  BY DEF NotDue
<1>2. TagsHeld'
  BY <1>1, SameTags
<1>3. Settling'
  <2>1. Features' = Features /\ (\A f : Hereditary(f)' <=> Hereditary(f))
    BY <1>1 DEF Features, Hereditary, world
  <2> QED
    BY <1>1, <2>1 DEF Settling
<1> QED
  BY <1>2, <1>3

LEMMA ThrowTags ==
  ASSUME Sound, TagsHeld, Settling, call # "startup", NEW result, Throws(result), UNCHANGED world,
         (\A f \in Features : Hereditary(f)) => result # "unsettled"
  PROVE  TagsHeld' /\ Settling'
<1>1. call' = "driver" /\ outcome' = result /\ UNCHANGED mesh
  BY DEF Throws
<1>2. TagsHeld'
  BY <1>1, SameTags
<1>3. Settling'
  <2>1. Features' = Features /\ (\A f : Hereditary(f)' <=> Hereditary(f))
    BY DEF Features, Hereditary, world
  <2> QED
    BY <1>1, <2>1 DEF Settling
<1> QED
  BY <1>2, <1>3

(* A regrid that ends sets the budget its selection has covered.           *)
LEMMA PublishTags ==
  ASSUME Sound, Settling, NEW blocks, NEW flagged, NEW result \in {"kept", "installed"},
         Publish(blocks, flagged, result), UNCHANGED <<world, limit, steps, faults>>,
         \A f \in flagged : Hereditary(f) => Reserved(blocks, place[f], config.signalBuffer * Horizon)
  PROVE  TagsHeld' /\ Settling'
<1>1. /\ leaves' = blocks /\ tagged' = flagged /\ travel' = 0 /\ budget' = config.signalBuffer * Horizon
      /\ outcome' = result /\ call' \in {"driver", "advance"} /\ config' = config /\ place' = place
  BY DEF Publish, world
<1>2. budget' - travel' = config.signalBuffer * Horizon
  <2>1. config.signalBuffer * Horizon \in Nat
    BY Numbers DEF Sound, Meshes
  <2> QED
    BY <1>1, <2>1
<1>3. \A f \in tagged' : Hereditary(f) => Reserved(leaves', place'[f], budget' - travel')
  BY <1>1, <1>2
<1>4. TagsHeld'
  BY <1>1, <1>3, TagsNext
<1>5. Settling'
  <2>1. Features' = Features /\ (\A f : Hereditary(f)' <=> Hereditary(f))
    BY <1>1 DEF Features, Hereditary
  <2> QED
    BY <1>1, <2>1 DEF Settling
<1> QED
  BY <1>4, <1>5

(* A pass accepts only what grants every seed, and the last pass does.     *)
LEMMA SelectTags ==
  ASSUME Sound, TagsHeld, Settling, SelectPass
  PROVE  TagsHeld' /\ Settling'
<1> DEFINE first == pass = 0
           Selected(seen) == SelectMesh(candidate, seen, Horizon, config.minimum, first, config.maxLevel)
           Found(seen) == {f \in seen : \E b \in candidate : Flagged(f, b)}
<1>1. call = "regrid" /\ UNCHANGED <<world, limit, steps, faults>>
  BY DEF SelectPass
<1>2. PICK seen \in IF pass = 0 /\ config.evolveShadow THEN SUBSET active ELSE {active} :
           \/ /\ Selected(seen) # candidate /\ pass < LastPass
              /\ candidate' = Selected(seen) /\ pass' = pass + 1
              /\ UNCHANGED <<mesh, call, outcome>>
           \/ /\ Selected(seen) # candidate /\ pass = LastPass
              /\ Throws("unsettled")
           \/ /\ Selected(seen) = candidate /\ pass = 0
              /\ Publish(leaves, Found(seen), "kept")
           \/ /\ Selected(seen) = candidate /\ pass > 0
              /\ call' = "install"
              /\ UNCHANGED <<mesh, candidate, pass, outcome>>
  BY DEF SelectPass
<1>3. /\ config \in Configs /\ Tiling(config, candidate) /\ Even(candidate) /\ candidate \in SUBSET Locations(config)
      /\ pass \in 0 .. (config.maxLevel + 1) /\ config.maxLevel \in Nat /\ config.minimum \in 0 .. config.maxLevel
      /\ pass \in Nat
  BY <1>1, Current
<1>4. Placed /\ Features = DOMAIN config.kinds /\ active \subseteq Features
  BY FeaturesPlaced
<1>5. Horizon \in Nat
  BY Numbers DEF Sound, Meshes
<1>6. seen \in SUBSET active /\ (pass > 0 => seen = active)
  BY <1>3
<1>7. first \in BOOLEAN /\ (first <=> pass = 0)
  OBVIOUS
<1> DEFINE new == Selected(seen)
<1>8. Tiling(config, new) /\ (~first => Refines(new, candidate))
  <2> HIDE DEF first
  <2>1. Tiling(config, new)
    BY <1>3, <1>7, SelectionCovers
  <2>2. ~first => Refines(new, candidate)
    BY <1>3, <1>7, SelectionCovers
  <2> QED
    BY <2>1, <2>2
<1>9. ASSUME new = candidate
      PROVE  \A f \in Found(seen) : Hereditary(f) => Reserved(candidate, place[f], config.signalBuffer * Horizon)
  <2> SUFFICES ASSUME NEW f \in seen, \E b \in candidate : Flagged(f, b), Hereditary(f)
               PROVE  Reserved(candidate, place[f], config.signalBuffer * Horizon)
    OBVIOUS
  <2> HIDE DEF first
  <2> QED
    BY <1>3, <1>5, <1>6, <1>7, <1>9, SelectedCovers
<1>10. config' = config /\ place' = place /\ active' = active /\ limit' = limit /\ UNCHANGED world
  BY <1>1 DEF world
<1>11. CASE pass < LastPass /\ candidate' = new /\ pass' = pass + 1 /\ UNCHANGED <<mesh, call, outcome>>
  <2> HIDE DEF first, new
  <2>1. call' = "regrid" /\ leaves' = leaves /\ outcome' = outcome /\ pass' # 0 /\ UNCHANGED mesh
    BY <1>1, <1>3, <1>11 DEF mesh
  <2>2. TagsHeld'
    BY <1>1, <1>10, <2>1, SameTags
  <2>3. ASSUME \A f \in Features : Hereditary(f) PROVE Asking(new, Horizon, pass + 1)
    <3>1. new \in SUBSET Locations(config)
      BY <1>8 DEF Tiling, Covering
    <3>2. CASE pass = 0
      <4>1. Asking(new, Horizon, 1)
        BY <1>3, <1>4, <1>5, <3>1, AskingAtFirst
      <4> QED
        BY <3>2, <4>1
    <3>3. CASE pass > 0
      <4>1. Asking(candidate, Horizon, pass)
        BY <1>1, <2>3, <3>3 DEF Settling
      <4>2. seen = active /\ Refines(new, candidate) /\ pass \in Nat \ {0} /\ pass <= config.maxLevel + 1
        BY <1>3, <1>6, <1>7, <1>8, <3>3
      <4>3. AllGranted(new, Seeds(candidate, active, Horizon), config.minimum)
        <5>1. active \in SUBSET Features
          BY <1>4
        <5>2. config.maxLevel = config.maxLevel
          OBVIOUS
        <5>3. AllGranted(SelectMesh(candidate, active, Horizon, config.minimum, first, config.maxLevel),
                         Seeds(candidate, active, Horizon), config.minimum)
          BY <1>3, <1>4, <1>5, <1>7, <5>1, <5>2, SelectionGrants
        <5> QED
          BY <4>2, <5>3 DEF new
      <4> QED
        BY <1>3, <1>4, <1>5, <2>3, <3>1, <4>1, <4>2, <4>3, AskingLater
    <3> QED
      BY <1>3, <3>2, <3>3
  <2>4. (\A f \in Features : Hereditary(f)) =>
            outcome' # "unsettled" /\ (call' = "regrid" /\ pass' > 0 => Asking(candidate', Horizon, pass'))
    BY <1>11, <2>1, <2>3 DEF Settling
  <2>5. Settling'
    BY <1>1, <1>10, <2>1, <2>4, SettlingNext
  <2> QED
    BY <2>2, <2>5
<1>12. CASE new # candidate /\ pass = LastPass /\ Throws("unsettled")
  <2> HIDE DEF first
  <2>1. ASSUME \A f \in Features : Hereditary(f) PROVE FALSE
    <3>1. pass = config.maxLevel + 1 /\ pass > 0 /\ ~first /\ seen = active
      BY <1>3, <1>6, <1>7, <1>12 DEF LastPass
    <3>2. Asking(candidate, Horizon, config.maxLevel + 1)
      BY <1>1, <2>1, <3>1 DEF Settling
    <3>3. SelectMesh(candidate, active, Horizon, config.minimum, first, config.maxLevel) = candidate
      BY <1>3, <1>4, <1>5, <1>7, <3>1, <3>2, AskingNothing
    <3> QED
      BY <1>12, <3>1, <3>3
  <2> QED
    BY <1>1, <1>10, <1>12, <2>1, ThrowTags
<1>13. CASE new = candidate /\ pass = 0 /\ Publish(leaves, Found(seen), "kept")
  <2>1. candidate = leaves
    BY <1>1, <1>13 DEF TagsHeld
  <2>2. \A f \in Found(seen) : Hereditary(f) => Reserved(leaves, place[f], config.signalBuffer * Horizon)
    BY <1>9, <1>13, <2>1
  <2> HIDE DEF Found
  <2> QED
    BY <1>1, <1>13, <2>2, PublishTags
<1>14. CASE new = candidate /\ pass > 0 /\ call' = "install" /\ UNCHANGED <<mesh, candidate, pass, outcome>>
  <2> HIDE DEF first, new
  <2>1. /\ leaves' = leaves /\ candidate' = candidate /\ outcome' = outcome /\ travel' = travel /\ budget' = budget
        /\ tagged' = tagged /\ call' = "install" /\ pass' = pass
    BY <1>14 DEF mesh
  <2>2. Horizon' = Horizon
    BY <1>10, <2>1, SameHorizon
  <2>3. \A f, b : Flagged(f, b)' <=> Flagged(f, b)
    BY <1>1, <1>10, <2>1, SameSight
  <2>4. seen = active
    BY <1>6, <1>14
  <2>5. \A f \in active' : Hereditary(f) /\ (\E b \in candidate' : Flagged(f, b)') =>
            Reserved(candidate', place'[f], config.signalBuffer * Horizon')
    BY <1>9, <1>10, <1>14, <2>1, <2>2, <2>3, <2>4
  <2>6. travel' <= budget' => \A f \in tagged' : Hereditary(f) => Reserved(leaves', place'[f], budget' - travel')
    BY <1>1, <1>10, <2>1 DEF TagsHeld
  <2>7. TagsHeld'
    BY <1>10, <2>1, <2>5, <2>6, TagsNext
  <2>8. Settling'
    <3>1. (\A f \in Features : Hereditary(f)) =>
            outcome' # "unsettled" /\ (call' = "regrid" /\ pass' > 0 => Asking(candidate', Horizon, pass'))
      BY <2>1 DEF Settling
    <3> QED
      BY <1>1, <1>10, <2>1, <3>1, SettlingNext
  <2> QED
    BY <2>7, <2>8
<1> HIDE DEF Selected, Found
<1> QED
  BY <1>2, <1>11, <1>12, <1>13, <1>14

(* What is installed is what the pass accepted.                            *)
LEMMA InstallTags ==
  ASSUME Sound, TagsHeld, Settling, Install
  PROVE  TagsHeld' /\ Settling'
<1> DEFINE found == {f \in active : \E b \in candidate : Flagged(f, b)}
<1>1. call = "install" /\ Publish(candidate, found, "installed") /\ UNCHANGED <<world, limit, steps, faults>>
  BY DEF Install
<1>2. \A f \in found : Hereditary(f) => Reserved(candidate, place[f], config.signalBuffer * Horizon)
  BY <1>1 DEF TagsHeld
<1> HIDE DEF found
<1> QED
  BY <1>1, <1>2, PublishTags

(* A fault leaves the mesh, the tags and the tracker.                       *)
LEMMA FaultTags ==
  ASSUME Sound, TagsHeld, Settling, Fault
  PROVE  TagsHeld' /\ Settling'
<1>1. Throws("threw") /\ UNCHANGED world /\ call # "startup"
  BY DEF Fault
<1> QED
  BY <1>1, ThrowTags

(* A feature that moves leaves behind what the step has used of its margin. *)
LEMMA AdvanceTags ==
  ASSUME Sound, TagsHeld, Settling, Advance
  PROVE  TagsHeld' /\ Settling'
<1>1. /\ call = "advance" /\ call' = "driver" /\ tagged' \subseteq tagged /\ travel' = travel + Lookahead
      /\ config' = config /\ leaves' = leaves /\ budget' = budget /\ outcome' = outcome
      /\ \A f \in Features : place'[f] \in Moves(place[f], Lookahead)
      /\ DOMAIN place' = Features
  BY DEF Advance
<1>2. config \in Configs /\ tagged \subseteq Features /\ Placed
  BY Current, FeaturesPlaced
<1>3. travel \in Nat /\ budget \in Nat /\ Lookahead \in Nat /\ Lookahead <= Span(config)
  BY Current, StepReach DEF Sound, TypeOK
<1>4. ASSUME travel' <= budget', NEW f \in tagged', Hereditary(f)
      PROVE  Reserved(leaves', place'[f], budget' - travel')
  <2>1. travel <= budget /\ budget' - travel' \in Int /\ (budget' - travel') + Lookahead = budget - travel
    BY <1>1, <1>3, <1>4
  <2>2. Reserved(leaves, place[f], budget - travel)
    BY <1>1, <1>4, <2>1 DEF TagsHeld
  <2>3. place[f] \in Points /\ place'[f] \in Moves(place[f], Lookahead)
    BY <1>1, <1>2 DEF Placed
  <2> DEFINE r == budget' - travel'
  <2> SUFFICES ASSUME NEW z \in Points, Within(place'[f], z, r), NEW b \in leaves, InBox(b, z)
               PROVE  b.level = config.maxLevel
    BY <1>1 DEF Reserved
  <2> DEFINE y == place'[f]
  <2>4. y \in Moves(place[f], Lookahead) /\ Within(y, z, r) /\ r \in Int
    BY <2>1, <2>3
  <2> HIDE DEF r, y
  <2>5. Within(place[f], z, r + Lookahead)
    BY <1>2, <1>3, <2>3, <2>4, MovedReach
  <2>6. r + Lookahead = budget - travel
    BY <2>1 DEF r
  <2> QED
    BY <2>2, <2>5, <2>6 DEF Reserved
<1>5. TagsHeld'
  BY <1>1, <1>4, TagsNext
<1>6. Settling'
  <2>1. Features' = Features /\ (\A f : Hereditary(f)' <=> Hereditary(f))
    BY <1>1 DEF Features, Hereditary
  <2> QED
    BY <1>1, <2>1 DEF Settling
<1> QED
  BY <1>5, <1>6

(* Both are inductive with the invariant of the meshes. *)
Complete == IInv /\ TagsHeld /\ Settling

LEMMA InductiveTags == Complete /\ [Next]_vars => Complete'
<1> SUFFICES ASSUME IInv, TagsHeld, Settling, [Next]_vars PROVE TagsHeld' /\ Settling'
  BY Inductive DEF Complete
<1>1. Sound
  BY DEF IInv
<1>2. CASE UNCHANGED vars
  <2>1. /\ UNCHANGED world /\ UNCHANGED mesh /\ candidate' = candidate /\ pass' = pass /\ call' = call
        /\ limit' = limit /\ outcome' = outcome /\ config' = config /\ place' = place /\ active' = active
        /\ leaves' = leaves
        /\ travel' = travel /\ budget' = budget /\ tagged' = tagged
    BY <1>2 DEF vars, world, mesh
  <2>2. Horizon' = Horizon
    BY <2>1, SameHorizon
  <2>3. /\ \A f, b : Flagged(f, b)' <=> Flagged(f, b)
        /\ \A blocks, horizon, made : Asking(blocks, horizon, made)' <=> Asking(blocks, horizon, made)
    BY <2>1, SameSight
  <2>4. TagsHeld'
    <3>1. \A f \in active' : Hereditary(f) /\ (\E b \in candidate' : Flagged(f, b)')
                               => Hereditary(f) /\ (\E b \in candidate : Flagged(f, b))
      BY <2>1, <2>3
    <3>2. call' = "install" => \A f \in active' : Hereditary(f) /\ (\E b \in candidate' : Flagged(f, b)') =>
            Reserved(candidate', place'[f], config.signalBuffer * Horizon')
      BY <2>1, <2>2, <3>1 DEF TagsHeld
    <3>3. call' # "startup" /\ travel' <= budget' =>
            \A f \in tagged' : Hereditary(f) => Reserved(leaves', place'[f], budget' - travel')
      BY <2>1 DEF TagsHeld
    <3>4. call' = "regrid" /\ pass' = 0 => candidate' = leaves'
      BY <2>1 DEF TagsHeld
    <3> QED
      BY <2>1, <3>2, <3>3, <3>4, TagsNext
  <2>5. Settling'
    <3>1. Features' = Features /\ (\A f : Hereditary(f)' <=> Hereditary(f))
      BY <2>1 DEF Features, Hereditary
    <3>2. Asking(candidate, Horizon, pass)' <=> Asking(candidate', Horizon', pass')
      BY <2>3
    <3> QED
      BY <2>1, <2>2, <3>1, <3>2 DEF Settling
  <2> QED
    BY <2>4, <2>5
<1>3. CASE Startup
  BY <1>1, <1>3, StartupTags
<1>4. CASE Ask
  BY <1>1, <1>4, AskTags
<1>5. CASE NotDue
  BY <1>1, <1>5, NotDueTags
<1>6. CASE SelectPass
  BY <1>1, <1>6, SelectTags
<1>7. CASE Install
  BY <1>1, <1>7, InstallTags
<1>8. CASE Fault
  BY <1>1, <1>8, FaultTags
<1>9. CASE Advance
  BY <1>1, <1>9, AdvanceTags
<1> QED
  BY <1>2, <1>3, <1>4, <1>5, <1>6, <1>7, <1>8, <1>9 DEF Next

(* They hold for ever.                                                     *)
LEMMA CompleteInvariance == Spec => []Complete
<1>1. Init => Complete
  <2>1. Init => IInv
    BY InitSound DEF Init, Room, IInv
  <2>2. Init => TagsHeld /\ Settling
    BY DEF Init, TagsHeld, Settling
  <2> QED
    BY <2>1, <2>2 DEF Complete
<1> QED
  BY <1>1, InductiveTags, PTL DEF Spec
-----------------------------------------------------------------------------
(* The types of the driver's state; what was flagged existed, and no mesh, *)
(* published or in the making, has a block outside the configured levels.  *)
THEOREM RegridTypes == Spec => []TypeOK
<1>1. IInv => TypeOK
  BY DEF IInv, Sound
<1> QED
  BY <1>1, Invariance, PTL

(* Every mesh the code publishes or hands to the next pass covers the domain *)
(* once, keeps the configured levels, and has no blocks that touch and are  *)
(* more than a level apart: not in a face, an edge or a corner, and not     *)
(* across a periodic boundary.                                             *)
THEOREM MeshesAreAdmissible == Spec => []MeshAdmissible
<1>1. IInv => MeshAdmissible
  <2> SUFFICES ASSUME Sound PROVE MeshAdmissible
    BY DEF IInv
  <2>1. call = "driver" => Admissible(leaves)
    BY Current, EvenIsAdmissible
  <2>2. call \in {"regrid", "install"} => Admissible(candidate)
    BY Current, EvenIsAdmissible
  <2> QED
    BY <2>1, <2>2 DEF MeshAdmissible
<1> QED
  BY <1>1, Invariance, PTL

(* On a published mesh the plans pair every face from both sides, the reflux *)
(* plan replaces exactly the coarse fluxes, and ghosts read cells at most   *)
(* one level away.                                                         *)
THEOREM FacesArePaired == Spec => []FacesPaired
<1>1. IInv => FacesPaired
  <2> SUFFICES ASSUME IInv, call = "driver" PROVE FacesPaired
    BY DEF FacesPaired
  <2>1. config \in Configs /\ Tiling(config, leaves) /\ TooCoarse(leaves) = {}
    BY DEF IInv, Sound, TypeOK, Meshes, Even
  <2> QED
    BY <2>1, BalancedFaces, Zenon DEF FacesPaired
<1> QED
  BY <1>1, Invariance, PTL

(* Signals never outrun the budget that the last regrid set aside for      *)
(* them, unless that regrid merged blocks: a regrid is skipped only if the *)
(* budget is enough for the next step, one that was made allows its own    *)
(* step, and no mesh covers the domain with a longer step but by merging.  *)
THEOREM TravelStaysWithinBudget == Spec => []TravelWithinBudget
<1>1. IInv => TravelWithinBudget
  BY DEF IInv, Sound, Tracker, TravelWithinBudget
<1> QED
  BY <1>1, Invariance, PTL

(* What the last selection flagged stays in blocks of the finest level while *)
(* signals have not outrun the budget of that regrid.                      *)
THEOREM TagsStayCovered == Spec => []TagsCovered
<1>1. Complete => TagsCovered
  <2> SUFFICES ASSUME Complete, call # "startup", travel <= budget, NEW f \in tagged, Hereditary(f)
               PROVE  LeafAt(leaves, place[f]).level = config.maxLevel
    BY DEF TagsCovered, Published
  <2>1. /\ config \in Configs /\ Covering(config, leaves) /\ tagged \subseteq Features /\ Placed
        /\ {travel, budget} \subseteq Nat
    BY Current, FeaturesPlaced DEF Complete, IInv
  <2>2. place[f] \in Points
    BY <2>1 DEF Placed
  <2>3. \E b \in leaves : InBox(b, place[f])
    BY <2>1, <2>2, BlockAt
  <2>4. LeafAt(leaves, place[f]) \in leaves /\ InBox(LeafAt(leaves, place[f]), place[f])
    BY <2>3 DEF LeafAt, InBox
  <2>5. Within(place[f], place[f], budget - travel)
    <3> SUFFICES ASSUME NEW d \in Axes(config)
                 PROVE  \E s \in Shifts(d) : /\ -(budget - travel) <= place[f][d] + s * Span(config) - place[f][d]
                                             /\ place[f][d] + s * Span(config) - place[f][d] <= budget - travel
      BY DEF Within
    <3>1. 0 \in Shifts(d) /\ place[f][d] \in Nat /\ Span(config) \in Nat
      BY <2>1, <2>2, Levels, Sides DEF Shifts, Points
    <3>2. /\ -(budget - travel) <= place[f][d] + 0 * Span(config) - place[f][d]
          /\ place[f][d] + 0 * Span(config) - place[f][d] <= budget - travel
      BY <2>1, <3>1
    <3> QED
      BY <3>1, <3>2
  <2> QED
    BY <2>2, <2>4, <2>5 DEF Complete, TagsHeld, Reserved
<1> QED
  BY <1>1, CompleteInvariance, PTL

(* When no criterion appears only on finer cells, selection reaches a mesh  *)
(* it accepts within its maxLevel + 2 passes.                              *)
THEOREM SelectionSettles == Spec => []RegridSettles
<1>1. Complete => RegridSettles
  BY DEF Complete, Settling, RegridSettles
<1> QED
  BY <1>1, CompleteInvariance, PTL
=============================================================================
