----------------------------- MODULE ExtProofs ------------------------------
(***************************************************************************)
(* Proofs about the ext reader.  Of the block pointers, for every number   *)
(* of direct pointers, every block size and every set of missing or        *)
(* unreadable blocks: the blocks collected are the file's, in its order,   *)
(* not more than its size asks for, and all up to a gap, which costs what  *)
(* shares its tree and no more.  Of the extent tree, for every inode, tree *)
(* (damaged or not) and limit: types, the depth of the recursion, and that *)
(* a location is only given where the file's data is.  Of the volume, for  *)
(* every geometry, every set of directories (circular ones included) and   *)
(* every depth limit: the tree is the name space, each node its own inode, *)
(* or the parse fails.                                                     *)
(***************************************************************************)
EXTENDS ExtVolume, Lemmas

(* The walk only goes forward: what was collected lies behind it.          *)
Behind ==
  /\ position \in Nat /\ needed \in Nat
  /\ blocks \in Seq(Nat) /\ Len(blocks) <= needed
  /\ \A i \in 1..Len(blocks) : blocks[i] < position
Ordered ==
  /\ \A i \in 1..Len(blocks) : blocks[i] \in Positions /\ Mapped(blocks[i])
  /\ \A i \in 1..(Len(blocks) - 1) : blocks[i] < blocks[i + 1]

PointersInv == Behind /\ Ordered

-----------------------------------------------------------------------------
(* The beginnings of the trees.                                            *)
LEMMA Trees ==
  /\ SingleAt \in Nat /\ DoubleAt \in Nat /\ TripleAt \in Nat
  /\ Capacity \in Nat
  /\ SingleAt <= DoubleAt /\ DoubleAt <= TripleAt /\ TripleAt <= Capacity
<1>1. Fan \in Nat /\ Fan * Fan \in Nat /\ Direct \in Nat
  BY PointersAssumption, InodeAssumption
<1>2. Fan * Fan * Fan \in Nat
  BY <1>1
<1>3. QED
  BY <1>1, <1>2 DEF SingleAt, DoubleAt, TripleAt, Capacity

(* The next multiple of a span lies ahead.                                 *)
LEMMA NextMultiple ==
  ASSUME NEW m \in Nat, NEW s \in Nat \ {0}
  PROVE  (m \div s) * s \in Nat /\ m < (m \div s) * s + s
<1>1. m \div s \in Nat /\ m % s \in 0..(s - 1)
  OBVIOUS
<1>2. m = s * (m \div s) + (m % s)
  OBVIOUS
<1>3. s * (m \div s) = (m \div s) * s /\ (m \div s) * s \in Nat
  BY <1>1
<1>4. QED
  BY <1>1, <1>2, <1>3

(* Passing a tree or a gap goes forward in the file.                       *)
LEMMA Forward ==
  ASSUME NEW n \in 0..(Capacity - 1)
  PROVE  /\ PastTree(n) \in Nat /\ n < PastTree(n)
         /\ PastGap(n) \in Nat /\ n < PastGap(n)
<1>1. n \in Nat /\ n < Capacity
  BY Trees
<1>2. PastTree(n) \in Nat /\ n < PastTree(n)
  BY <1>1, Trees DEF PastTree
<1>3. CASE n < TripleAt
  BY <1>2, <1>3 DEF PastGap
<1>4. CASE ~(n < TripleAt)
  <2> DEFINE m == n - TripleAt
             s == Fan * Fan
             d == (m \div s) * s
  <2>1. m \in Nat
    BY <1>1, <1>4, Trees
  <2>2. s \in Nat \ {0}
    BY PointersAssumption
  <2>3. PastGap(n) = TripleAt + d + s
    BY <1>4 DEF PastGap, Within
  <2> HIDE DEF s
  <2>4. d \in Nat /\ m < d + s
    <3> HIDE DEF m
    <3>1. QED
      BY <2>1, <2>2, NextMultiple
  <2> HIDE DEF d
  <2>5. QED
    BY <1>1, <1>2, <2>2, <2>3, <2>4, Trees
<1>5. QED
  BY <1>3, <1>4

-----------------------------------------------------------------------------
(* Every step keeps the invariant.                                         *)
LEMMA PointersInitInv == InitPointers => PointersInv
<1> SUFFICES ASSUME InitPointers PROVE PointersInv
  OBVIOUS
<1>1. needed \in Nat /\ blocks = <<>> /\ position = 0
  BY Trees DEF InitPointers
<1>2. QED
  BY <1>1 DEF PointersInv, Behind, Ordered

LEMMA CollectInv ==
  ASSUME PointersInv, Collect
  PROVE  PointersInv'
<1>1. /\ position \in Positions /\ Len(blocks) < needed /\ Mapped(position)
      /\ blocks' = Append(blocks, position) /\ position' = position + 1
      /\ UNCHANGED pointers
  <2>1. position \in Nat /\ needed \in Nat /\ Len(blocks) \in Nat
    BY DEF PointersInv, Behind
  <2>2. QED
    BY <2>1, Trees DEF Collect, Walking, Covered, Positions, Mapped
<1>2. /\ position \in Nat /\ blocks \in Seq(Nat) /\ Len(blocks) \in Nat
      /\ needed \in Nat
  BY DEF PointersInv, Behind
<1>3. /\ blocks' \in Seq(Nat) /\ Len(blocks') = Len(blocks) + 1
      /\ \A i \in 1..Len(blocks) : blocks'[i] = blocks[i]
      /\ blocks'[Len(blocks) + 1] = position
  BY <1>1, <1>2
<1>4. needed' = needed /\ gaps' = gaps /\ absent' = absent
  BY <1>1 DEF pointers
<1>5. Behind'
  <2>1. ASSUME NEW i \in 1..Len(blocks')
        PROVE  blocks'[i] < position'
    <3>1. CASE i \in 1..Len(blocks)
      <4>1. blocks[i] < position /\ blocks[i] \in Nat
        BY <3>1, <1>2 DEF PointersInv, Behind
      <4>2. QED
        BY <4>1, <3>1, <1>1, <1>2, <1>3
    <3>2. CASE i = Len(blocks) + 1
      BY <3>2, <1>1, <1>2, <1>3
    <3>3. QED
      BY <3>1, <3>2, <1>2, <1>3
  <2>2. QED
    BY <2>1, <1>1, <1>2, <1>3, <1>4 DEF Behind
<1>6. Ordered'
  <2>1. ASSUME NEW i \in 1..Len(blocks')
        PROVE  (blocks[i] \in Positions /\ Mapped(blocks[i]))'
    <3>1. CASE i \in 1..Len(blocks)
      <4>1. blocks[i] \in Positions /\ Mapped(blocks[i])
        BY <3>1 DEF PointersInv, Ordered
      <4>2. QED
        BY <3>1, <4>1, <1>3, <1>4 DEF Mapped, HasTables, Positions
    <3>2. CASE i = Len(blocks) + 1
      BY <3>2, <1>1, <1>3, <1>4 DEF Mapped, HasTables, Positions
    <3>3. QED
      BY <3>1, <3>2, <1>2, <1>3
  <2>2. ASSUME NEW i \in 1..(Len(blocks') - 1)
        PROVE  blocks'[i] < blocks'[i + 1]
    <3>1. i \in 1..Len(blocks) /\ i + 1 \in 1..(Len(blocks) + 1)
      BY <1>2, <1>3
    <3>2. CASE i = Len(blocks)
      BY <3>1, <3>2, <1>3 DEF PointersInv, Behind
    <3>3. CASE i # Len(blocks)
      <4>1. i \in 1..(Len(blocks) - 1) /\ i + 1 \in 1..Len(blocks)
        BY <3>1, <3>3, <1>2
      <4>2. QED
        BY <3>1, <4>1, <1>3 DEF PointersInv, Ordered
    <3>4. QED
      BY <3>2, <3>3
  <2>3. QED
    BY <2>1, <2>2 DEF Ordered
<1>7. QED
  BY <1>5, <1>6 DEF PointersInv

(* The steps that collect nothing move forward or stay.                    *)
LEMMA SkipInv ==
  ASSUME PointersInv, UNCHANGED <<pointers, blocks>>, position' \in Nat, position <= position'
  PROVE  PointersInv'
<1>1. \A n : Mapped(n)' <=> Mapped(n)
  BY DEF pointers, Mapped, HasTables
<1>2. \A i \in 1..Len(blocks) : blocks[i] \in Nat /\ blocks[i] < position'
  BY DEF PointersInv, Behind
<1>3. QED
  BY <1>1, <1>2 DEF PointersInv, Behind, Ordered, pointers

LEMMA PointersStepInv == PointersInv /\ [PointersNext]_pointerVars => PointersInv'
<1> SUFFICES ASSUME PointersInv, [PointersNext]_pointerVars PROVE PointersInv'
  OBVIOUS
<1>1. position \in Nat
  BY DEF PointersInv, Behind
<1>2. CASE Finish \/ TableFails
  BY <1>1, <1>2, SkipInv DEF Finish, TableFails
<1>3. CASE NoTable \/ NoBlock
  <2>1. position \in 0..(Capacity - 1) /\ UNCHANGED <<pointers, blocks>>
    BY <1>1, <1>3, Trees DEF NoTable, NoBlock, Walking
  <2>2. position' = PastTree(position) \/ position' = PastGap(position)
    BY <1>3 DEF NoTable, NoBlock
  <2>3. position' \in Nat /\ position <= position'
    BY <1>1, <2>1, <2>2, Forward
  <2>4. QED
    BY <2>1, <2>3, SkipInv
<1>4. CASE Collect
  BY <1>4, CollectInv
<1>5. CASE UNCHANGED pointerVars
  BY <1>1, <1>5, SkipInv DEF pointerVars, pointers
<1>6. QED
  BY <1>2, <1>3, <1>4, <1>5 DEF PointersNext

(* For every geometry of the pointer blocks, the invariant holds.          *)
THEOREM PointersInvariance == PointersSpec => []PointersInv
<1>1. QED
  BY PointersInitInv, PointersStepInv, PTL DEF PointersSpec

(* The blocks come in logical order, none twice and none the file has not. *)
THEOREM LogicalOrder == PointersSpec => []InLogicalOrder
<1>1. PointersInv => InLogicalOrder
  BY DEF PointersInv, Ordered, InLogicalOrder
<1>2. QED
  BY PointersInvariance, <1>1, PTL

-----------------------------------------------------------------------------
(* What the walk leaves out.                                               *)

(* No block has a smaller index than position; as long as nothing is       *)
(* missing the two are the same; and a block the walk has passed without   *)
(* collecting it is hidden by a gap.                                       *)
AtItsIndex(n) == Len(blocks) > n /\ blocks[n + 1] = n
NoGapUpTo(n) == \A m \in 0..n : Mapped(m)
Hidden(n) == \E m \in Positions : Hides(m, n)
Accounted ==
  /\ Len(blocks) <= position
  /\ \A n \in Positions : n < position /\ NoGapUpTo(n) => AtItsIndex(n)
  /\ \A n \in Positions :
       n < position /\ Mapped(n) => n \in ToSet(blocks) \/ Hidden(n)
  /\ walked = "Ok" => Covered \/ position >= Capacity

(* The multiples of a span do not change between one and the next.         *)
LEMMA SameMultiple ==
  ASSUME NEW x \in Nat, NEW y \in Nat, NEW s \in Nat \ {0},
         x <= y, y < (x \div s) * s + s
  PROVE  y \div s = x \div s
<1> DEFINE d == x \div s
           e == y \div s
<1>1. d \in Nat /\ e \in Nat /\ x % s \in 0..(s - 1) /\ y % s \in 0..(s - 1)
  OBVIOUS
<1>2. x = s * d + (x % s) /\ y = s * e + (y % s)
  OBVIOUS
<1>3. s * d = d * s /\ s * e = e * s /\ d * s \in Nat /\ e * s \in Nat
  BY <1>1
<1> HIDE DEF d, e
<1>4. ~(d + 1 <= e)
  <2>1. SUFFICES ASSUME d + 1 <= e PROVE FALSE
    OBVIOUS
  <2>2. PICK k \in Nat : e = (d + 1) + k
    <3>1. e - (d + 1) \in Nat /\ e = (d + 1) + (e - (d + 1))
      BY <1>1, <2>1
    <3>2. QED
      BY <3>1
  <2>3. e * s = d * s + s + k * s /\ k * s \in Nat
    BY <1>1, <2>2
  <2>4. y < d * s + s
    BY DEF d
  <2>5. QED
    BY <1>1, <1>2, <1>3, <2>3, <2>4
<1>5. ~(e + 1 <= d)
  <2>1. SUFFICES ASSUME e + 1 <= d PROVE FALSE
    OBVIOUS
  <2>2. PICK k \in Nat : d = (e + 1) + k
    <3>1. d - (e + 1) \in Nat /\ d = (e + 1) + (d - (e + 1))
      BY <1>1, <2>1
    <3>2. QED
      BY <3>1
  <2>3. d * s = e * s + s + k * s /\ k * s \in Nat
    BY <1>1, <2>2
  <2>4. QED
    BY <1>1, <1>2, <1>3, <2>3
<1>6. d = e
  BY <1>1, <1>4, <1>5
<1>7. QED
  BY <1>6 DEF d, e

(* The trees a position may be in.                                         *)
LEMMA TreeOf ==
  ASSUME NEW n \in Nat
  PROVE  /\ n < SingleAt => Tree(n) = 0
         /\ ~(n < SingleAt) /\ n < DoubleAt => Tree(n) = 1
         /\ ~(n < DoubleAt) /\ n < TripleAt => Tree(n) = 2
         /\ ~(n < TripleAt) =>
              /\ Tree(n) = 3
              /\ TablesOver(n)[2] = Table(2, Within(n, TripleAt, Fan * Fan))
BY Trees DEF Tree, TablesOver

(* What a missing pointer block, or a missing data block, makes the walk   *)
(* jump over it also hides.                                                *)
LEMMA TableHides ==
  ASSUME NEW p \in Positions, ~HasTables(p),
         NEW n \in Positions, p < n, n < PastTree(p)
  PROVE  Hides(p, n)
<1>1. p \in Nat /\ n \in Nat /\ n < Capacity
  BY Trees DEF Positions
<1>2. Tree(p) = Tree(n)
  BY <1>1, Trees, TreeOf DEF PastTree
<1>3. QED
  BY <1>2 DEF Hides, Mapped

LEMMA BlockHides ==
  ASSUME NEW p \in Positions, p \in gaps,
         NEW n \in Positions, p < n, n < PastGap(p)
  PROVE  Hides(p, n)
<1>1. p \in Nat /\ n \in Nat /\ n < Capacity
  BY Trees DEF Positions
<1>2. CASE p < TripleAt
  <2>1. Tree(p) = Tree(n) /\ Tree(p) # 3
    BY <1>1, <1>2, Trees, TreeOf DEF PastTree, PastGap
  <2>2. QED
    BY <2>1 DEF Hides, Mapped
<1>3. CASE ~(p < TripleAt)
  <2> DEFINE s == Fan * Fan
             x == p - TripleAt
             y == n - TripleAt
  <2>1. Fan \in Nat \ {0} /\ TripleAt \in Nat
    BY PointersAssumption, Trees
  <2>2. s \in Nat \ {0}
    BY <2>1
  <2>3. PastGap(p) = TripleAt + (x \div s) * s + s
    BY <1>3 DEF PastGap, Within
  <2> HIDE DEF s
  <2>4. x \in Nat /\ y \in Nat /\ x <= y
    BY <1>1, <1>3, <2>1
  <2>5. y < (x \div s) * s + s
    <3> DEFINE d == (x \div s) * s
    <3>1. d \in Nat
      BY <2>2, <2>4, NextMultiple
    <3>2. n < TripleAt + d + s
      BY <2>3
    <3> HIDE DEF d
    <3>3. n - TripleAt < d + s
      BY <1>1, <2>1, <2>2, <3>1, <3>2
    <3>4. QED
      BY <3>3 DEF d
  <2>6. y \div s = x \div s
    <3> HIDE DEF x, y
    <3>1. QED
      BY <2>2, <2>4, <2>5, SameMultiple
  <2>7. Within(n, TripleAt, s) = Within(p, TripleAt, s)
    BY <2>6 DEF Within
  <2>8. ~(n < TripleAt)
    BY <1>1, <1>3, <2>1
  <2>9. /\ Tree(p) = 3 /\ Tree(n) = 3
        /\ TablesOver(p)[2] = TablesOver(n)[2]
    BY <1>1, <1>3, <2>7, <2>8, TreeOf DEF s
  <2>10. QED
    BY <2>9 DEF Hides, Mapped
<1>4. QED
  BY <1>2, <1>3

-----------------------------------------------------------------------------
LEMMA InitAccounted == InitPointers => Accounted
<1> SUFFICES ASSUME InitPointers PROVE Accounted
  OBVIOUS
<1>1. blocks = <<>> /\ Len(blocks) = 0 /\ position = 0 /\ walked = "none"
  BY DEF InitPointers
<1>2. \A n \in Positions : ~(n < position)
  BY <1>1, Trees DEF Positions
<1>3. QED
  BY <1>1, <1>2 DEF Accounted

(* A jump over a gap leaves nothing behind that the gap does not hide.     *)
LEMMA JumpAccounted ==
  ASSUME PointersInv, Accounted, NoTable \/ NoBlock
  PROVE  Accounted'
<1>1. /\ UNCHANGED <<pointers, blocks, walked>> /\ walked = "none"
      /\ position \in Positions /\ position \in Nat /\ ~Mapped(position)
  BY Trees DEF NoTable, NoBlock, Walking, PointersInv, Behind, Positions, Mapped
<1>2. /\ \A n : Mapped(n)' <=> Mapped(n)
      /\ \A n : AtItsIndex(n)' <=> AtItsIndex(n)
      /\ \A n : NoGapUpTo(n)' <=> NoGapUpTo(n)
      /\ \A n : Hidden(n)' <=> Hidden(n)
  BY <1>1 DEF pointers, Mapped, HasTables, AtItsIndex, NoGapUpTo, Hidden, Hides
<1>3. position' \in Nat /\ position < position'
  BY <1>1, Forward DEF NoTable, NoBlock, Positions
<1>4. Len(blocks') <= position'
  BY <1>1, <1>3, LenProperties DEF Accounted, PointersInv, Behind
<1>5. ASSUME NEW n \in Positions, n < position', NoGapUpTo(n)
      PROVE  AtItsIndex(n)
  <2>1. n \in Nat /\ ~(position \in 0..n)
    BY <1>1, <1>5, Trees DEF NoGapUpTo, Positions
  <2>2. n < position
    BY <1>1, <2>1
  <2>3. QED
    BY <1>5, <2>2 DEF Accounted
<1>6. ASSUME NEW n \in Positions, n < position', Mapped(n)
      PROVE  n \in ToSet(blocks) \/ Hidden(n)
  <2>1. CASE n < position
    BY <1>6, <2>1 DEF Accounted
  <2>2. CASE ~(n < position)
    <3>1. position < n
      BY <1>1, <1>6, <2>2, Trees DEF Positions
    <3>2. Hides(position, n)
      BY <1>1, <1>6, <3>1, TableHides, BlockHides DEF NoTable, NoBlock
    <3>3. QED
      BY <1>1, <3>2 DEF Hidden
  <2>3. QED
    BY <2>1, <2>2
<1>7. QED
  BY <1>1, <1>2, <1>4, <1>5, <1>6 DEF Accounted, ToSet

(* A block that is collected when nothing is missing has its own index.    *)
LEMMA CollectAccounted ==
  ASSUME PointersInv, Accounted, Collect
  PROVE  Accounted'
<1>1. /\ UNCHANGED <<pointers, walked>> /\ walked = "none"
      /\ position \in Positions /\ position \in Nat /\ Mapped(position)
      /\ position' = position + 1
      /\ blocks' = Append(blocks, position) /\ blocks \in Seq(Nat)
  BY Trees DEF Collect, Walking, PointersInv, Behind, Positions, Mapped
<1>2. /\ blocks' \in Seq(Nat) /\ Len(blocks) \in Nat /\ Len(blocks') = Len(blocks) + 1
      /\ \A i \in 1..Len(blocks) : blocks'[i] = blocks[i]
      /\ blocks'[Len(blocks) + 1] = position
  BY <1>1
<1>3. /\ \A n : Mapped(n)' <=> Mapped(n)
      /\ \A n : NoGapUpTo(n)' <=> NoGapUpTo(n)
      /\ \A n : Hidden(n)' <=> Hidden(n)
  BY <1>1 DEF pointers, Mapped, HasTables, NoGapUpTo, Hidden, Hides
<1>4. Len(blocks') <= position'
  BY <1>1, <1>2 DEF Accounted
<1>5. ASSUME NEW n \in Positions, n < position', NoGapUpTo(n)
      PROVE  Len(blocks') > n /\ blocks'[n + 1] = n
  <2>1. n \in Nat
    BY Trees DEF Positions
  <2>2. CASE n < position
    <3>1. Len(blocks) > n /\ blocks[n + 1] = n
      BY <1>5, <2>2 DEF Accounted, AtItsIndex
    <3>2. n + 1 \in 1..Len(blocks)
      BY <1>2, <2>1, <3>1
    <3>3. QED
      BY <1>2, <2>1, <3>1, <3>2
  <2>3. CASE n = position
    <3>1. Len(blocks) = position
      <4>1. CASE position = 0
        BY <1>2, <4>1 DEF Accounted
      <4>2. CASE position # 0
        <5>1. position - 1 \in Positions /\ position - 1 < position
          BY <1>1, <4>2, Trees DEF Positions
        <5>2. \A m \in 0..(position - 1) : m \in 0..position
          BY <1>1
        <5>3. NoGapUpTo(position - 1)
          BY <1>5, <2>3, <5>2 DEF NoGapUpTo
        <5>4. Len(blocks) > position - 1
          BY <5>1, <5>3 DEF Accounted, AtItsIndex
        <5>5. QED
          BY <1>1, <1>2, <5>4 DEF Accounted
      <4>3. QED
        BY <4>1, <4>2
    <3>2. QED
      BY <1>1, <1>2, <2>3, <3>1
  <2>4. QED
    BY <1>1, <1>5, <2>1, <2>2, <2>3
<1>6. ASSUME NEW n \in Positions, n < position', Mapped(n)
      PROVE  (\E i \in 1..Len(blocks') : blocks'[i] = n) \/ Hidden(n)
  <2>1. n \in Nat
    BY Trees DEF Positions
  <2>2. CASE n < position
    <3>1. n \in ToSet(blocks) \/ Hidden(n)
      BY <1>6, <2>2 DEF Accounted
    <3>2. n \in ToSet(blocks) => \E i \in 1..Len(blocks) : blocks[i] = n
      BY <1>1 DEF ToSet
    <3>3. \A i \in 1..Len(blocks) : i \in 1..Len(blocks')
      BY <1>2
    <3>4. QED
      BY <1>2, <3>1, <3>2, <3>3
  <2>3. CASE n = position
    <3>1. Len(blocks) + 1 \in 1..Len(blocks')
      BY <1>2
    <3>2. QED
      BY <1>2, <2>3, <3>1
  <2>4. QED
    BY <1>1, <1>6, <2>1, <2>2, <2>3
<1>7. \A n : (\E i \in 1..Len(blocks') : blocks'[i] = n) => n \in ToSet(blocks')
  BY <1>2 DEF ToSet
<1>8. QED
  BY <1>1, <1>3, <1>4, <1>5, <1>6, <1>7 DEF Accounted, AtItsIndex

LEMMA StepAccounted ==
  ASSUME PointersInv, Accounted, [PointersNext]_pointerVars
  PROVE  Accounted'
<1>1. CASE NoTable \/ NoBlock
  BY <1>1, JumpAccounted
<1>2. CASE Collect
  BY <1>2, CollectAccounted
<1>3. CASE Finish \/ TableFails \/ UNCHANGED pointerVars
  <2>1. /\ UNCHANGED <<gaps, absent, unreadable, needed, blocks, position>>
        /\ walked' = "Ok" => Covered \/ position >= Capacity
    BY <1>3 DEF Finish, TableFails, pointerVars, pointers, Accounted
  <2>2. /\ \A n : Mapped(n)' <=> Mapped(n)
        /\ \A n : AtItsIndex(n)' <=> AtItsIndex(n)
        /\ \A n : NoGapUpTo(n)' <=> NoGapUpTo(n)
        /\ \A n : Hidden(n)' <=> Hidden(n)
    BY <2>1 DEF Mapped, HasTables, AtItsIndex, NoGapUpTo, Hidden, Hides
  <2>3. QED
    BY <2>1, <2>2 DEF Accounted, ToSet, Covered
<1>4. QED
  BY <1>1, <1>2, <1>3 DEF PointersNext

(* For every geometry and every set of missing blocks: a file without gaps *)
(* is read in full, each block at its own index, and a gap costs what      *)
(* shares its tree and no more.                                            *)
THEOREM GapsCostTheirTree == PointersSpec => []ReadsUpToGaps
<1>1. ASSUME PointersInv, Accounted
      PROVE  ReadsUpToGaps
  <2>1. /\ position \in Nat /\ needed \in Nat /\ Len(blocks) <= needed
        /\ Len(blocks) \in Nat /\ Capacity \in Nat
    BY <1>1, LenProperties, Trees DEF PointersInv, Behind
  <2>2. ASSUME walked = "Ok", NEW n \in 0..(needed - 1), n < Capacity, NoGapUpTo(n)
        PROVE  AtItsIndex(n)
    <3>1. n \in Positions /\ n \in Nat
      BY <2>1, <2>2 DEF Positions
    <3>2. CASE n < position
      BY <1>1, <2>2, <3>1, <3>2 DEF Accounted
    <3>3. CASE ~(n < position)
      <4>1. Len(blocks) <= n
        BY <1>1, <2>1, <3>1, <3>3 DEF Accounted
      <4>2. Len(blocks) >= needed
        BY <1>1, <2>1, <2>2, <3>1, <3>3 DEF Accounted, Covered
      <4>3. QED
        BY <2>1, <2>2, <4>1, <4>2
    <3>4. QED
      BY <3>2, <3>3
  <2>3. ASSUME walked = "Ok", Len(blocks) < needed,
               NEW n \in Positions, Mapped(n), n \notin ToSet(blocks)
        PROVE  Hidden(n)
    <3>1. position >= Capacity
      BY <1>1, <2>1, <2>3 DEF Accounted, Covered
    <3>2. n < position
      BY <2>1, <3>1 DEF Positions
    <3>3. QED
      BY <1>1, <2>3, <3>2 DEF Accounted
  <2>4. CompleteUpToAGap
    BY <2>2 DEF CompleteUpToAGap, NoGapUpTo, AtItsIndex
  <2>5. GapsAreLocal
    BY <2>3 DEF GapsAreLocal, Hidden
  <2>6. QED
    BY <2>1, <2>4, <2>5 DEF ReadsUpToGaps
<1>2. PointersSpec => []Accounted
  BY InitAccounted, StepAccounted, PointersInvariance, PTL DEF PointersSpec
<1>3. QED
  BY <1>1, <1>2, PointersInvariance, PTL

-----------------------------------------------------------------------------
(* What was collected are extents of the file.                             *)
Sourced ==
  \A i \in 1..Len(extents) :
    \E e \in ToSet(input.file) : extents[i] = Decode(e)

ExtentsInv == ExtentsTypeOK /\ DepthIsLimited /\ Sourced /\ LocatedDataIsTheFiles

-----------------------------------------------------------------------------
(* What the code makes of an extent is a decoded extent.                   *)
LEMMA DecodeType ==
  ASSUME NEW e \in Extent
  PROVE  Decode(e) \in Decoded
BY LimitsAssumption, InodeAssumption DEF Decode, Decoded, Extent

(* An extent in use that is as long as the file is the whole file, though  *)
(* the reader does not know where in the file it goes: were it not at the  *)
(* beginning, it would reach beyond the end.                               *)
LEMMA LongEnoughIsWhole ==
  ASSUME NEW n \in Nat \ {0}, NEW e \in Extent,
         RealUnwritten(e) \/ Blocks(e) \subseteq 0..(n - 1),
         ~Decode(e).unwritten, Decode(e).len >= n
  PROVE  /\ ~RealUnwritten(e) /\ Decode(e).phys = e.phys
         /\ e.at = 0 /\ 0..(n - 1) \subseteq Blocks(e)
<1>1. e.at \in Nat /\ e.phys \in Nat /\ e.field \in Nat
  BY LimitsAssumption, InodeAssumption DEF Extent
<1>2. e.field < Top
  BY <1>1, LimitsAssumption, InodeAssumption DEF Decode
<1>3. Decode(e).len = e.field /\ Decode(e).phys = e.phys
  BY <1>1, <1>2, LimitsAssumption, InodeAssumption DEF Decode
<1>4. ~RealUnwritten(e) /\ RealLen(e) = e.field
  BY <1>1, <1>2, LimitsAssumption, InodeAssumption DEF RealUnwritten, RealLen
<1>5. Blocks(e) = e.at .. (e.at + e.field - 1)
  BY <1>4 DEF Blocks
<1>6. e.at + e.field - 1 \in Blocks(e)
  BY <1>1, <1>3, <1>5
<1>7. e.at + e.field - 1 <= n - 1
  BY <1>1, <1>4, <1>6
<1>8. e.at = 0
  BY <1>1, <1>3, <1>7
<1>9. QED
  BY <1>1, <1>3, <1>4, <1>5, <1>8

(* What an input is made of.                                               *)
LEMMA InputType ==
  ASSUME input \in Inputs
  PROVE  /\ input.needed \in Nat /\ input.file \in Seq(Extent)
         /\ input.i_block \in [1..Direct -> Nat]
         /\ \A e \in ToSet(input.file) :
              /\ e \in Extent
              /\ RealUnwritten(e) \/ Blocks(e) \subseteq 0..(input.needed - 1)
         /\ RootNode \in DOMAIN input.nodes
         /\ \A b \in DOMAIN input.nodes :
              /\ input.nodes[b].extents \in Seq(Extent)
              /\ ToSet(input.nodes[b].extents) \subseteq ToSet(input.file)
              /\ input.nodes[b].kids \in Seq(DOMAIN input.nodes \cup {Outside})
<1>1. IsInput(input)
  BY InputsAssumption
<1>2. \A e \in ToSet(input.file) : e \in Extent
  BY <1>1 DEF IsInput, ToSet
<1>3. QED
  BY <1>1, <1>2 DEF IsInput, ExtentNode

(* The two decisions, of a file that is not empty.                         *)
LEMMA SingleRunIsTheFile ==
  ASSUME ExtentsTypeOK, Sourced, input.uses_extents, input.needed # 0,
         SingleRun # None,
         NEW n \in 0..(input.needed - 1)
  PROVE  HasDataAt(n, SingleRun + n)
<1>1. /\ Len(extents) = 1 /\ ~extents[1].unwritten
      /\ extents[1].len >= input.needed /\ SingleRun = extents[1].phys
  BY DEF SingleRun
<1>2. input \in Inputs
  BY DEF ExtentsTypeOK
<1>3. PICK e \in ToSet(input.file) : extents[1] = Decode(e)
  BY <1>1 DEF Sourced
<1>4. /\ e \in Extent /\ input.needed \in Nat \ {0}
      /\ RealUnwritten(e) \/ Blocks(e) \subseteq 0..(input.needed - 1)
  BY <1>2, InputType
<1>5. /\ ~RealUnwritten(e) /\ SingleRun = e.phys /\ e.at = 0
      /\ 0..(input.needed - 1) \subseteq Blocks(e)
  BY <1>1, <1>3, <1>4, LongEnoughIsWhole
<1>6. SingleRun + n = e.phys + (n - e.at)
  BY <1>4, <1>5 DEF Extent
<1>7. QED
  BY <1>3, <1>5, <1>6 DEF HasDataAt

(* A direct run that is taken holds the data of every block of the file.   *)
LEMMA DirectRunIsTheFile ==
  ASSUME ExtentsTypeOK, ~input.uses_extents, input.needed # 0, DirectRun # None,
         NEW n \in 0..(input.needed - 1)
  PROVE  HasDataAt(n, DirectRun + n)
<1>1. input.needed \in Nat \ {0} /\ input.i_block \in [1..Direct -> Nat]
  BY InputType DEF ExtentsTypeOK
<1>2. /\ input.needed <= Direct /\ input.i_block[1] # 0 /\ CountsUp
      /\ DirectRun = input.i_block[1]
  BY DEF DirectRun
<1>3. Direct \in Nat /\ n \in Nat /\ n + 1 \in 1..Direct
  BY <1>1, <1>2, LimitsAssumption, InodeAssumption
<1>4. input.i_block[1] \in Nat
  BY <1>1, <1>3
<1>5. input.i_block[n + 1] = input.i_block[1] + n
  <2>1. CASE n = 0
    BY <2>1, <1>4
  <2>2. CASE n # 0
    <3>1. n + 1 \in 2..input.needed
      BY <2>2, <1>1, <1>3
    <3>2. input.i_block[n + 1] = input.i_block[1] + ((n + 1) - 1)
      BY <3>1, <1>2 DEF CountsUp, CountsUpTo
    <3>3. QED
      BY <3>2, <1>3
  <2>3. QED
    BY <2>1, <2>2
<1>6. QED
  BY <1>2, <1>3, <1>4, <1>5 DEF HasDataAt

-----------------------------------------------------------------------------
(* Every step keeps the invariant.                                         *)
LEMMA ExtentsInitInv == InitExtents => ExtentsInv
<1> SUFFICES ASSUME InitExtents PROVE ExtentsInv
  OBVIOUS
<1>1. input \in Inputs /\ RootNode \in DOMAIN input.nodes
  BY InputType DEF InitExtents
<1> DEFINE F == [node : DOMAIN input.nodes, next : Nat \ {0}]
<1>2. Step(RootNode) \in F
  BY <1>1 DEF Step
<1>3. path = <<>> \/ path = << Step(RootNode) >>
  BY DEF InitExtents
<1> HIDE DEF F
<1>4. path \in Seq(F) /\ Len(path) <= 1
  <2>1. CASE path = <<>>
    BY <2>1
  <2>2. CASE path = << Step(RootNode) >>
    BY <1>2, <2>2
  <2>3. QED
    BY <1>3, <2>1, <2>2
<1>5. QED
  BY <1>1, <1>4, LimitsAssumption, InodeAssumption
     DEF F, InitExtents, ExtentsInv, ExtentsTypeOK, DepthIsLimited, Sourced, LocatedDataIsTheFiles

(* What pops the path leaves a shorter one of the same kind.              *)
LEMMA Popped ==
  ASSUME ExtentsTypeOK, DepthIsLimited, path # <<>>
  PROVE  /\ Front(path) \in Seq([node : DOMAIN input.nodes, next : Nat \ {0}])
         /\ Len(Front(path)) <= MaxLevels + 1
         /\ Last(path) \in [node : DOMAIN input.nodes, next : Nat \ {0}]
         /\ Len(path) \in Nat \ {0}
<1> DEFINE F == [node : DOMAIN input.nodes, next : Nat \ {0}]
<1>1. path \in Seq(F)
  BY DEF ExtentsTypeOK
<1> HIDE DEF F
<1>2. Len(path) \in Nat \ {0}
  BY <1>1, EmptySeq
<1>3. /\ SubSeq(path, 1, Len(path) - 1) \in Seq(F)
      /\ Len(SubSeq(path, 1, Len(path) - 1)) = Len(path) - 1
  <2> DEFINE n == Len(path) - 1
  <2>1. n \in Nat /\ \A i \in 1..n : i \in 1..Len(path)
    BY <1>2
  <2>2. \A i \in 1..n : path[i] \in F
    BY <1>1, <2>1, ElementOfSeq
  <2> HIDE DEF n
  <2>3. /\ SubSeq(path, 1, n) \in Seq(F)
        /\ Len(SubSeq(path, 1, n)) = IF 1 <= n THEN n - 1 + 1 ELSE 0
    BY <2>1, <2>2, SubSeqProperties
  <2>4. Len(SubSeq(path, 1, n)) = n
    BY <2>1, <2>3
  <2>5. QED
    BY <2>3, <2>4 DEF n
<1>4. path[Len(path)] \in F
  BY <1>1, <1>2, ElementOfSeq
<1>5. QED
  BY <1>2, <1>3, <1>4, LimitsAssumption, InodeAssumption DEF F, Front, Last, DepthIsLimited

(* A leaf's extents are extents of the file.                               *)
LEMMA LeafKeeps ==
  ASSUME ExtentsInv, Leaf
  PROVE  extents' \in Seq(Decoded) /\ Sourced'
<1>1. Last(path).node \in DOMAIN input.nodes /\ input \in Inputs
  BY Popped DEF ExtentsInv, Leaf, Reading, ExtentsTypeOK
<1> DEFINE leaf == TopNode.extents
           new == [i \in DOMAIN leaf |-> Decode(leaf[i])]
<1>2. leaf \in Seq(Extent) /\ ToSet(leaf) \subseteq ToSet(input.file)
  BY <1>1, InputType DEF TopNode
<1>3. extents' = extents \o new /\ input' = input
  BY DEF Leaf
<1>4. extents \in Seq(Decoded)
  BY DEF ExtentsInv, ExtentsTypeOK
<1> HIDE DEF leaf
<1>5. DOMAIN leaf = 1..Len(leaf) /\ Len(leaf) \in Nat
  BY <1>2
<1>6. \A i \in 1..Len(leaf) : leaf[i] \in Extent /\ leaf[i] \in ToSet(input.file)
  BY <1>2, <1>5 DEF ToSet
<1>7. /\ new \in [1..Len(leaf) -> Decoded]
      /\ \A i \in 1..Len(leaf) :
           \E e \in ToSet(input.file) : new[i] = Decode(e)
  BY <1>5, <1>6, DecodeType
<1> HIDE DEF new
<1>8. new \in Seq(Decoded) /\ Len(new) = Len(leaf)
  BY <1>5, <1>7, SeqDef, LenProperties
<1>9. /\ extents \o new \in Seq(Decoded)
      /\ Len(extents \o new) = Len(extents) + Len(new)
      /\ \A i \in 1..(Len(extents) + Len(new)) : (extents \o new)[i] =
           IF i <= Len(extents) THEN extents[i] ELSE new[i - Len(extents)]
  BY <1>4, <1>8, ConcatProperties
<1>10. ASSUME NEW i \in 1..Len(extents')
       PROVE  \E e \in ToSet(input.file) : extents'[i] = Decode(e)
  <2>1. Len(extents) \in Nat
    BY <1>4
  <2>2. CASE i <= Len(extents)
    BY <2>1, <2>2, <1>3, <1>9 DEF ExtentsInv, Sourced
  <2>3. CASE ~(i <= Len(extents))
    <3>1. i - Len(extents) \in 1..Len(leaf)
      BY <2>1, <2>3, <1>3, <1>5, <1>8, <1>9
    <3>2. extents'[i] = new[i - Len(extents)]
      BY <2>3, <1>3, <1>9
    <3>3. QED
      BY <3>1, <3>2, <1>7
  <2>4. QED
    BY <2>2, <2>3
<1>11. QED
  BY <1>3, <1>9, <1>10 DEF Sourced

LEMMA ExtentsStepInv == ExtentsInv /\ [ExtentsNext]_extentVars => ExtentsInv'
<1> SUFFICES ASSUME ExtentsInv, [ExtentsNext]_extentVars PROVE ExtentsInv'
  OBVIOUS
<1> USE DEF ExtentsInv
<1>1. CASE SkipNode \/ Ascend
  <2>1. path # <<>> /\ path' = Front(path)
    BY <1>1 DEF SkipNode, Ascend, Inner, Reading
  <2>2. UNCHANGED <<input, extents, location, located>>
    BY <1>1 DEF SkipNode, Ascend
  <2>3. QED
    BY <2>1, <2>2, Popped
       DEF ExtentsTypeOK, DepthIsLimited, Sourced, LocatedDataIsTheFiles, HasDataAt
<1>2. CASE Leaf
  <2>1. path # <<>> /\ path' = Front(path)
    BY <1>2 DEF Leaf, Reading
  <2>2. UNCHANGED <<input, location, located>>
    BY <1>2 DEF Leaf
  <2>3. QED
    BY <1>2, <2>1, <2>2, Popped, LeafKeeps
       DEF ExtentsTypeOK, DepthIsLimited, LocatedDataIsTheFiles, HasDataAt
<1>3. CASE Descend
  <2> DEFINE F == [node : DOMAIN input.nodes, next : Nat \ {0}]
  <2>1. /\ path # <<>> /\ path' = Append(Stepped, Step(Child))
        /\ Last(path).next <= Len(TopNode.kids) /\ Child # Outside
        /\ Remaining > 0
        /\ UNCHANGED <<input, extents, location, located>>
    BY <1>3 DEF Descend, Inner, Reading, Readable
  <2>2. Last(path) \in F /\ Len(path) \in Nat \ {0} /\ path \in Seq(F)
    BY <2>1, Popped DEF ExtentsTypeOK
  <2>3. TopNode.kids \in Seq(DOMAIN input.nodes \cup {Outside})
    BY <2>2, InputType DEF TopNode, ExtentsTypeOK
  <2>4. Last(path).next \in 1..Len(TopNode.kids)
    BY <2>1, <2>2, <2>3
  <2>5. Child \in DOMAIN input.nodes
    BY <2>1, <2>3, <2>4 DEF Child
  <2>6. Step(Child) \in F
    BY <2>5 DEF Step
  <2>7. Stepped \in Seq(F) /\ Len(Stepped) = Len(path)
    <3>1. path[Len(path)] \in F
      BY <2>2 DEF Last
    <3>2. [path[Len(path)] EXCEPT !.next = @ + 1] \in F
      BY <3>1
    <3>3. QED
      BY <2>2, <3>2, ExceptSeq DEF Stepped
  <2> HIDE DEF F
  <2>8. path' \in Seq(F) /\ Len(path') = Len(path) + 1
    BY <2>1, <2>6, <2>7, AppendProperties
  <2>9. Len(path') <= MaxLevels + 1
    BY <2>1, <2>2, <2>8, LimitsAssumption, InodeAssumption DEF Remaining
  <2>10. QED
    BY <2>1, <2>8, <2>9
       DEF F, ExtentsTypeOK, DepthIsLimited, Sourced, LocatedDataIsTheFiles, HasDataAt
<1>4. CASE ChildFails
  BY <1>4 DEF ChildFails, ExtentsTypeOK, DepthIsLimited, Sourced, LocatedDataIsTheFiles,
              HasDataAt
<1>5. CASE Locate
  <2>1. UNCHANGED <<input, path, extents>> /\ located' = "Ok"
    BY <1>5 DEF Locate
  <2>2. location' \in Nat \cup {None}
    <3>1. SingleRun \in Nat \cup {None}
      <4>1. CASE Len(extents) = 1
        <5>1. extents[1] \in Decoded
          BY <4>1 DEF ExtentsTypeOK
        <5>2. QED
          BY <5>1 DEF SingleRun, Decoded
      <4>2. CASE Len(extents) # 1
        BY <4>2 DEF SingleRun
      <4>3. QED
        BY <4>1, <4>2
    <3>2. input.needed # 0 => DirectRun \in Nat \cup {None}
      <4>1. /\ input.needed \in Nat /\ Direct \in Nat
            /\ input.i_block \in [1..Direct -> Nat]
        BY InputType, LimitsAssumption, InodeAssumption DEF ExtentsTypeOK
      <4>2. QED
        BY <4>1 DEF DirectRun
    <3>3. QED
      BY <1>5, <3>1, <3>2 DEF Locate
  <2>3. ASSUME location' # None, NEW n \in 0..(input.needed - 1)
        PROVE  HasDataAt(n, location' + n)
    <3>1. input.needed # 0
      BY <2>3, <1>5 DEF Locate
    <3>2. CASE input.uses_extents
      <4>1. location' = SingleRun
        BY <2>3, <3>1, <3>2, <1>5 DEF Locate
      <4>2. QED
        BY <4>1, <2>3, <3>1, <3>2, SingleRunIsTheFile
    <3>3. CASE ~input.uses_extents
      <4>1. location' = DirectRun
        BY <2>3, <3>1, <3>3, <1>5 DEF Locate
      <4>2. QED
        BY <4>1, <2>3, <3>1, <3>3, DirectRunIsTheFile
    <3>4. QED
      BY <3>2, <3>3
  <2>4. QED
    BY <2>1, <2>2, <2>3
       DEF ExtentsTypeOK, DepthIsLimited, Sourced, LocatedDataIsTheFiles, HasDataAt
<1>6. CASE UNCHANGED extentVars
  BY <1>6 DEF extentVars, ExtentsTypeOK, DepthIsLimited, Sourced, LocatedDataIsTheFiles,
              HasDataAt
<1>7. QED
  BY <1>1, <1>2, <1>3, <1>4, <1>5, <1>6 DEF ExtentsNext

(* The types, the depth and the locations hold in every state reached.     *)
THEOREM ExtentsInvariance == ExtentsSpec => []ExtentsInv
<1>1. QED
  BY ExtentsInitInv, ExtentsStepInv, PTL DEF ExtentsSpec

(* A location is given only if the whole file is data and lies in one run  *)
(* of the image from there on, whatever the extent tree looks like.        *)
THEOREM LocationsAreSound == ExtentsSpec => []LocatedDataIsTheFiles
<1>1. ExtentsInv => LocatedDataIsTheFiles
  BY DEF ExtentsInv
<1>2. QED
  BY ExtentsInvariance, <1>1, PTL

(* No extent tree is followed deeper than the limit.                       *)
THEOREM DepthBound == ExtentsSpec => []DepthIsLimited
<1>1. ExtentsInv => DepthIsLimited
  BY DEF ExtentsInv
<1>2. QED
  BY ExtentsInvariance, <1>1, PTL

-----------------------------------------------------------------------------
(* The leaves of a healthy tree: what lies under a node when so many       *)
(* levels below it are read, and under its first children.                 *)
Ids == DOMAIN input.nodes
Depth(id) == input.nodes[id].depth
Kids(id) == input.nodes[id].kids
Of(u, levels, id) == [k \in DOMAIN Kids(id) |-> u[levels - 1][Kids(id)[k]]]
IsUnder(u) ==
  /\ u \in [0..MaxLevels -> [Ids -> Seq(Extent)]]
  /\ LeavesInOrder = u[MaxLevels][RootNode]
  /\ \A levels \in 0..MaxLevels : \A id \in Ids :
       Depth(id) = 0 => u[levels][id] = input.nodes[id].extents
  /\ \A levels \in 1..MaxLevels : \A id \in Ids :
       Depth(id) # 0 => u[levels][id] = FlattenSeq(Of(u, levels, id))
Under == CHOOSE u : IsUnder(u)
IsFirst(f, levels, id) ==
  /\ Joins(f, Len(Kids(id)), Extent, Of(Under, levels, id))
  /\ Under[levels][id] = f[Len(Kids(id))]
First(levels, id) == CHOOSE f : IsFirst(f, levels, id)

LEMMA HealthyKids ==
  ASSUME input \in Inputs, Healthy
  PROVE  \A id \in Ids :
           /\ Kids(id) \in Seq(Ids) /\ Depth(id) \in Nat
           /\ input.nodes[id].extents \in Seq(Extent) /\ input.nodes[id].magic
           /\ \A k \in 1..Len(Kids(id)) :
                Kids(id)[k] \in Ids /\ Depth(Kids(id)[k]) = Depth(id) - 1
<1> TAKE id \in Ids
<1> DEFINE n == input.nodes[id]
           kids == Kids(id)
<1>1. /\ kids \in Seq(Ids \cup {Outside}) /\ n.depth \in Nat
      /\ n.extents \in Seq(Extent) /\ n.magic
      /\ \A k \in ToSet(kids) : k # Outside /\ Depth(k) = Depth(id) - 1
  <2>1. n \in ExtentNode(Ids) /\ n.magic
        /\ \A k \in ToSet(kids) : k # Outside /\ Depth(k) = Depth(id) - 1
    BY InputsAssumption DEF IsInput, Ids, Healthy, Kids, Depth
  <2>2. QED
    BY <2>1 DEF ExtentNode, Kids
<1> HIDE DEF kids
<1>2. \A k \in 1..Len(kids) : kids[k] \in Ids /\ Depth(kids[k]) = Depth(id) - 1
  <2>1. \A k \in 1..Len(kids) :
          kids[k] \in Ids \cup {Outside} /\ kids[k] \in ToSet(kids)
    BY <1>1, ElementOfSeq, LenProperties DEF ToSet
  <2>2. QED
    BY <1>1, <2>1
<1>3. kids \in Seq(Ids)
  <2>1. Len(kids) \in Nat /\ kids \in [1..Len(kids) -> Ids \cup {Outside}]
    BY <1>1, LenProperties
  <2>2. kids \in [1..Len(kids) -> Ids]
    BY <1>2, <2>1
  <2>3. QED
    BY <2>1, <2>2, SeqDef
<1>4. QED
  BY <1>1, <1>2, <1>3 DEF kids, Depth

LEMMA UnderExists ==
  ASSUME input \in Inputs, Healthy
  PROVE  IsUnder(Under)
<1> DEFINE X == [Ids -> Seq(Extent)]
           ext == [id \in Ids |-> input.nodes[id].extents]
           of(g, id) == [k \in DOMAIN Kids(id) |-> g[Kids(id)[k]]]
           G(g) == [id \in Ids |-> IF Depth(id) = 0 THEN input.nodes[id].extents
                                                  ELSE FlattenSeq(of(g, id))]
           next == [i \in Nat |-> [g \in X |-> G(g)]]
           Rule(u) == [levels \in 0..MaxLevels |->
             [id \in Ids |->
               IF Depth(id) = 0 \/ levels = 0 THEN input.nodes[id].extents
               ELSE FlattenSeq([k \in DOMAIN Kids(id) |->
                                  u[levels - 1][Kids(id)[k]]])]]
           the == CHOOSE u : u = Rule(u)
<1>1. MaxLevels \in Nat /\ RootNode \in Ids
  BY LimitsAssumption, InputType DEF Ids
<1>2. LeavesInOrder = the[MaxLevels][RootNode]
  BY DEF LeavesInOrder, Ids, Depth, Kids
<1>3. ext \in X
  BY HealthyKids
<1>4. ASSUME NEW g \in X, NEW id \in Ids PROVE FlattenSeq(of(g, id)) \in Seq(Extent)
  <2> DEFINE seqs == of(g, id)
             n == Len(Kids(id))
  <2>1. n \in Nat /\ DOMAIN Kids(id) = 1..n /\ \A k \in 1..n : Kids(id)[k] \in Ids
    BY HealthyKids, LenProperties
  <2>2. seqs \in [1..n -> Seq(Extent)]
    BY <2>1
  <2> HIDE DEF seqs, n
  <2>3. seqs \in Seq(Seq(Extent)) /\ Len(seqs) = n
    BY <2>1, <2>2, SeqDef, LenProperties
  <2>4. PICK f : Joins(f, n, Extent, seqs) /\ FlattenSeq(seqs) = f[n]
    BY <2>3, Flattening
  <2>5. f[n] \in Seq(Extent)
    BY <2>1, <2>4 DEF Joins
  <2>6. QED
    BY <2>4, <2>5 DEF seqs
<1>5. next \in [Nat -> [X -> X]]
  <2>1. \A g \in X : G(g) \in X
    BY <1>4, HealthyKids
  <2> HIDE DEF G, X
  <2>2. QED
    BY <2>1
<1>6. PICK u : Recursion(u, MaxLevels, X, ext, next)
  <2> HIDE DEF next, ext, X
  <2>1. QED
    BY <1>1, <1>3, <1>5, RecursionExists
<1>7. /\ u \in [0..MaxLevels -> X] /\ u[0] = ext
      /\ \A i \in 1..MaxLevels : u[i] = G(u[i - 1])
  <2>1. /\ u \in [0..MaxLevels -> X] /\ u[0] = ext
        /\ \A i \in 1..MaxLevels : u[i] = next[i][u[i - 1]]
    <3> HIDE DEF next, ext, X
    <3>1. QED
      BY <1>6 DEF Recursion
  <2> HIDE DEF G, X, ext
  <2>2. ASSUME NEW i \in 1..MaxLevels PROVE u[i] = G(u[i - 1])
    <3>1. i \in Nat /\ i - 1 \in 0..MaxLevels
      BY <1>1
    <3>2. u[i - 1] \in X
      BY <2>1, <3>1
    <3>3. QED
      BY <2>1, <3>1, <3>2
  <2>3. QED
    BY <2>1, <2>2
<1> HIDE DEF next
<1>8. u = Rule(u)
  <2>1. ASSUME NEW i \in 0..MaxLevels PROVE u[i] = Rule(u)[i]
    <3>1. CASE i = 0
      BY <1>7, <2>1, <3>1
    <3>2. CASE i # 0
      <4>1. i \in 1..MaxLevels
        BY <1>1, <3>2
      <4>2. u[i] = G(u[i - 1])
        BY <1>7, <4>1
      <4>3. QED
        BY <3>2, <4>2
    <3>3. QED
      BY <3>1, <3>2
  <2> HIDE DEF X
  <2>2. QED
    BY <1>7, <2>1
<1>9. the = Rule(the)
  <2> HIDE DEF Rule
  <2>1. QED
    BY <1>8
<1> HIDE DEF the
<1>10. the \in [0..MaxLevels -> X]
  <2>1. the[0] \in X
    <3>1. the[0] = ext
      BY <1>1, <1>9
    <3>2. QED
      BY <1>3, <3>1
  <2>2. ASSUME NEW i \in 1..MaxLevels, the[i - 1] \in X PROVE the[i] \in X
    <3>1. the[i] = G(the[i - 1])
      <4>1. i \in 0..MaxLevels /\ i # 0
        BY <1>1
      <4>2. QED
        BY <1>9, <4>1
    <3>2. QED
      BY <1>4, <2>2, <3>1, HealthyKids
  <2>3. \A i \in 0..MaxLevels : the[i] \in X
    <3> HIDE DEF X
    <3>1. QED
      BY <1>1, <2>1, <2>2, ValuesUpTo
  <2>4. DOMAIN the = 0..MaxLevels /\ the = [i \in 0..MaxLevels |-> the[i]]
    BY <1>9
  <2>5. QED
    BY <2>3, <2>4
<1>11. ASSUME NEW levels \in 0..MaxLevels, NEW id \in Ids
       PROVE  /\ Depth(id) = 0 => the[levels][id] = input.nodes[id].extents
              /\ levels # 0 /\ Depth(id) # 0 =>
                   the[levels][id] = FlattenSeq(Of(the, levels, id))
  <2>1. the[levels][id] = Rule(the)[levels][id]
    BY <1>9
  <2>2. QED
    BY <2>1 DEF Of
<1>12. IsUnder(the)
  <2>1. \A levels \in 1..MaxLevels : levels \in 0..MaxLevels /\ levels # 0
    BY <1>1
  <2>2. QED
    BY <1>2, <1>10, <1>11, <2>1 DEF IsUnder
<1>13. QED
  BY <1>12 DEF Under

(* What is under the first children of a node, one child more at a time.   *)
LEMMA FirstFacts ==
  ASSUME input \in Inputs, Healthy,
         NEW levels \in 1..MaxLevels, NEW id \in Ids, Depth(id) # 0
  PROVE  /\ Len(Kids(id)) \in Nat
         /\ First(levels, id)[0] = <<>>
         /\ \A k \in 0..Len(Kids(id)) : First(levels, id)[k] \in Seq(Extent)
         /\ \A k \in 1..Len(Kids(id)) :
              /\ Kids(id)[k] \in Ids /\ Depth(Kids(id)[k]) = Depth(id) - 1
              /\ Under[levels - 1][Kids(id)[k]] \in Seq(Extent)
              /\ First(levels, id)[k] = First(levels, id)[k - 1]
                                          \o Under[levels - 1][Kids(id)[k]]
         /\ Under[levels][id] = First(levels, id)[Len(Kids(id))]
<1> DEFINE n == Len(Kids(id))
           seqs == Of(Under, levels, id)
           f == First(levels, id)
<1>1. IsUnder(Under) /\ MaxLevels \in Nat
  BY UnderExists, LimitsAssumption
<1>2. /\ n \in Nat /\ DOMAIN Kids(id) = 1..n
      /\ \A k \in 1..n : Kids(id)[k] \in Ids /\ Depth(Kids(id)[k]) = Depth(id) - 1
  BY HealthyKids, LenProperties
<1>3. levels - 1 \in 0..MaxLevels /\ levels \in 0..MaxLevels
  BY <1>1
<1>4. \A k \in 1..n : Under[levels - 1][Kids(id)[k]] \in Seq(Extent)
  BY <1>1, <1>2, <1>3 DEF IsUnder
<1>5. /\ seqs \in [1..n -> Seq(Extent)]
      /\ \A k \in 1..n : seqs[k] = Under[levels - 1][Kids(id)[k]]
  BY <1>2, <1>4 DEF Of
<1> HIDE DEF seqs, n
<1>6. seqs \in Seq(Seq(Extent)) /\ Len(seqs) = n
  BY <1>2, <1>5, SeqDef, LenProperties
<1>7. PICK g : Joins(g, n, Extent, seqs) /\ FlattenSeq(seqs) = g[n]
  BY <1>6, Flattening
<1>8. Under[levels][id] = FlattenSeq(seqs)
  BY <1>1 DEF IsUnder, seqs
<1>9. IsFirst(g, levels, id)
  BY <1>7, <1>8 DEF IsFirst, seqs, n
<1>10. IsFirst(f, levels, id)
  BY <1>9 DEF First
<1> HIDE DEF f
<1>11. Joins(f, n, Extent, seqs) /\ Under[levels][id] = f[n]
  BY <1>10 DEF IsFirst, n, seqs
<1>12. QED
  BY <1>2, <1>4, <1>5, <1>11 DEF Joins, n, f

LEMMA SameInput ==
  ASSUME input' = input
  PROVE  /\ (Healthy' <=> Healthy) /\ LeavesInOrder' = LeavesInOrder
         /\ Ids' = Ids /\ \A id : Depth(id)' = Depth(id) /\ Kids(id)' = Kids(id)
         /\ \A levels, id : First(levels, id)' = First(levels, id)
<1>1. Healthy' <=> Healthy
  BY DEF Healthy
<1>2. LeavesInOrder' = LeavesInOrder
  BY DEF LeavesInOrder
<1>3. Ids' = Ids /\ \A id : Depth(id)' = Depth(id) /\ Kids(id)' = Kids(id)
  BY DEF Ids, Depth, Kids
<1>4. \A u, levels, id : Of(u, levels, id)' = Of(u, levels, id)
  BY <1>3 DEF Of
<1>5. \A u : IsUnder(u)' <=> IsUnder(u)
  BY <1>2, <1>3, <1>4 DEF IsUnder
<1>6. Under' = Under
  BY <1>5 DEF Under
<1>7. \A f, levels, id : IsFirst(f, levels, id)' <=> IsFirst(f, levels, id)
  BY <1>3, <1>6 DEF IsFirst, Of
<1>8. \A levels, id : First(levels, id)' = First(levels, id)
  BY <1>7 DEF First
<1>9. QED
  BY <1>1, <1>2, <1>3, <1>8

(* Extents are decoded one by one.                                         *)
AllOf(s) == [i \in DOMAIN s |-> Decode(s[i])]
LEMMA AllOfBoth ==
  ASSUME NEW s \in Seq(Extent), NEW t \in Seq(Extent)
  PROVE  AllOf(s) \o AllOf(t) = AllOf(s \o t)
<1> DEFINE m == Len(s)
           n == Len(t)
           both == s \o t
<1>1. m \in Nat /\ n \in Nat /\ DOMAIN s = 1..m /\ DOMAIN t = 1..n
  BY LenProperties
<1>2. /\ both \in Seq(Extent) /\ Len(both) = m + n
      /\ \A i \in 1..(m + n) : both[i] = IF i <= m THEN s[i] ELSE t[i - m]
  BY ConcatProperties
<1>3. DOMAIN both = 1..(m + n)
  BY <1>2, LenProperties
<1>4. \A u \in Seq(Extent) : AllOf(u) \in Seq(Decoded) /\ Len(AllOf(u)) = Len(u)
  <2> TAKE u \in Seq(Extent)
  <2>1. /\ Len(u) \in Nat /\ DOMAIN u = 1..Len(u)
        /\ \A i \in 1..Len(u) : u[i] \in Extent
    BY LenProperties, ElementOfSeq
  <2> DEFINE new == AllOf(u)
  <2>2. new \in [1..Len(u) -> Decoded]
    BY <2>1, DecodeType DEF AllOf
  <2> HIDE DEF new
  <2>3. new \in Seq(Decoded) /\ Len(new) = Len(u)
    BY <2>1, <2>2, SeqDef, LenProperties
  <2>4. QED
    BY <2>3 DEF new
<1> HIDE DEF m, n, both
<1> DEFINE a == AllOf(s)
           b == AllOf(t)
           c == AllOf(both)
<1>5. /\ a \in Seq(Decoded) /\ b \in Seq(Decoded) /\ c \in Seq(Decoded)
      /\ Len(a) = m /\ Len(b) = n /\ Len(c) = m + n
  BY <1>2, <1>4 DEF m, n
<1>6. /\ \A i \in 1..m : a[i] = Decode(s[i])
      /\ \A i \in 1..n : b[i] = Decode(t[i])
      /\ \A i \in 1..(m + n) : c[i] = Decode(both[i])
  BY <1>1, <1>3 DEF AllOf
<1> HIDE DEF a, b, c
<1>7. /\ a \o b \in Seq(Decoded) /\ Len(a \o b) = m + n
      /\ \A i \in 1..(m + n) : (a \o b)[i] = IF i <= m THEN a[i] ELSE b[i - m]
  BY <1>5, ConcatProperties
<1>8. ASSUME NEW i \in 1..(m + n) PROVE (a \o b)[i] = c[i]
  <2>1. i <= m => i \in 1..m
    BY <1>1
  <2>2. ~(i <= m) => i - m \in 1..n
    BY <1>1
  <2>3. QED
    BY <1>2, <1>6, <1>7, <2>1, <2>2
<1>9. a \o b = c
  <2> DEFINE ab == a \o b
  <2>1. ab \in Seq(Decoded) /\ Len(ab) = m + n /\ \A i \in 1..(m + n) : ab[i] = c[i]
    BY <1>7, <1>8
  <2> HIDE DEF ab
  <2>2. ab = c
    BY <1>5, <2>1, SeqEqual
  <2>3. QED
    BY <2>2 DEF ab
<1>10. QED
  BY <1>9 DEF a, b, c, both

-----------------------------------------------------------------------------
(* The walk over a healthy tree: each open node is the child of the one    *)
(* above it that is being read, acc[i] is what was read before the i-th    *)
(* open node, and all of it has been collected.                            *)
LevelsLeft(i) == MaxLevels - (i - 1)
IsOpen(p, acc) ==
  /\ acc \in [1..Len(p) -> Seq(Extent)] /\ acc[1] = <<>>
  /\ p[1].node = RootNode
  /\ \A i \in 1..Len(p) :
       /\ p[i].node \in Ids /\ LevelsLeft(i) \in 0..MaxLevels
       /\ p[i].next \in 1..(Len(Kids(p[i].node)) + 1)
       /\ Depth(p[i].node) <= LevelsLeft(i)
  /\ \A i \in 1..(Len(p) - 1) :
       /\ Depth(p[i].node) # 0 /\ p[i].next # 1
       /\ p[i + 1].node = Kids(p[i].node)[p[i].next - 1]
       /\ acc[i + 1] = acc[i] \o First(LevelsLeft(i), p[i].node)[p[i].next - 2]
SoFar(i, step) ==
  IF Depth(step.node) = 0 THEN <<>> ELSE First(LevelsLeft(i), step.node)[step.next - 1]
Found(p, collected) ==
  /\ p = <<>> => collected = AllOf(LeavesInOrder)
  /\ p # <<>> => \E acc : /\ IsOpen(p, acc)
                          /\ collected = AllOf(acc[Len(p)] \o SoFar(Len(p), p[Len(p)]))
Reads ==
  Healthy /\ input.uses_extents /\ ~input.inline /\ input.needed > 0 =>
    /\ located # "Err" /\ (located = "Ok" => path = <<>>)
    /\ Found(path, extents)

LEMMA SameHolds ==
  ASSUME input' = input
  PROVE  Found(path, extents)' <=> Found(path', extents')
<1>1. \A s : AllOf(s)' = AllOf(s)
  BY DEF AllOf, Decode
<1>2. \A i, step : SoFar(i, step)' = SoFar(i, step)
  BY SameInput DEF SoFar, LevelsLeft
<1>3. \A p, acc : IsOpen(p, acc)' <=> IsOpen(p, acc)
  <2> TAKE p, acc
  <2>1. Ids' = Ids
    BY SameInput
  <2>2. \A i : /\ Depth(p[i].node)' = Depth(p[i].node)
               /\ Kids(p[i].node)' = Kids(p[i].node)
               /\ First(LevelsLeft(i), p[i].node)' = First(LevelsLeft(i), p[i].node)
    BY SameInput DEF LevelsLeft
  <2>3. QED
    BY <2>1, <2>2 DEF IsOpen, LevelsLeft
<1>4. \A p, x : Found(p, x)' <=> Found(p, x)
  BY <1>1, <1>2, <1>3, SameInput DEF Found
<1>5. PICK p, x : p = path' /\ x = extents'
  OBVIOUS
<1>6. QED
  BY <1>4, <1>5, <1>1, <1>2, <1>3, SameInput DEF Found

OpenNode == [node : DOMAIN input.nodes, next : Nat \ {0}]

(* When the node that is read has been read to its end, its parent has one *)
(* child more behind it.                                                   *)
LEMMA PopHolds ==
  ASSUME input \in Inputs, Healthy, NEW p \in Seq(OpenNode), p # <<>>,
         NEW acc, IsOpen(p, acc)
  PROVE  Found(Front(p), AllOf(acc[Len(p)] \o Under[LevelsLeft(Len(p))][p[Len(p)].node]))
<1> DEFINE n == Len(p)
           q == Front(p)
           id == p[n].node
           all == acc[n] \o Under[LevelsLeft(n)][id]
<1>1. n \in Nat \ {0} /\ MaxLevels \in Nat /\ \A i \in 1..n : p[i] \in OpenNode
  <2> HIDE DEF OpenNode
  <2>1. QED
    BY EmptySeq, LenProperties, ElementOfSeq, LimitsAssumption
<1>2. /\ Len(q) = n - 1 /\ (q = <<>> <=> n = 1)
      /\ \A i \in 1..(n - 1) : q[i] = p[i]
  <2> HIDE DEF OpenNode
  <2> DEFINE m == n - 1
  <2>1. m \in Nat /\ \A i \in 1..m : i \in 1..n /\ 1 + i - 1 = i
    BY <1>1
  <2>2. q = SubSeq(p, 1, m)
    BY DEF Front
  <2>3. \A i \in 1..m : p[i] \in OpenNode
    BY <1>1, <2>1
  <2> HIDE DEF m, n, q
  <2>4. /\ q \in Seq(OpenNode) /\ Len(q) = IF 1 <= m THEN m - 1 + 1 ELSE 0
        /\ \A i \in 1..(m - 1 + 1) : q[i] = p[1 + i - 1]
    BY <2>1, <2>2, <2>3, SubSeqProperties
  <2>5. Len(q) = m /\ m - 1 + 1 = m
    BY <2>1, <2>4
  <2>6. q = <<>> <=> m = 0
    BY <2>4, <2>5, EmptySeq
  <2>7. m = 0 <=> n = 1
    BY <1>1 DEF m
  <2>8. QED
    BY <2>1, <2>4, <2>5, <2>6, <2>7 DEF m
<1>3. /\ acc \in [1..n -> Seq(Extent)] /\ acc[1] = <<>> /\ p[1].node = RootNode
      /\ \A i \in 1..n :
           /\ p[i].node \in Ids /\ LevelsLeft(i) \in 0..MaxLevels
           /\ p[i].next \in 1..(Len(Kids(p[i].node)) + 1)
           /\ Depth(p[i].node) <= LevelsLeft(i)
      /\ \A i \in 1..(n - 1) :
           /\ Depth(p[i].node) # 0 /\ p[i].next # 1
           /\ p[i + 1].node = Kids(p[i].node)[p[i].next - 1]
           /\ acc[i + 1] = acc[i] \o First(LevelsLeft(i), p[i].node)[p[i].next - 2]
  BY DEF IsOpen
<1>4. Under[LevelsLeft(n)][id] \in Seq(Extent)
  <2>1. n \in 1..n /\ LevelsLeft(n) \in 0..MaxLevels /\ id \in Ids
    BY <1>1, <1>3
  <2>2. QED
    BY <2>1, UnderExists DEF IsUnder
<1> HIDE DEF n, q, id
<1>5. CASE n = 1
  <2>1. acc[n] = <<>> /\ id = RootNode /\ LevelsLeft(n) = MaxLevels
    BY <1>1, <1>3, <1>5 DEF id, LevelsLeft
  <2>2. all = Under[LevelsLeft(n)][id]
    BY <1>4, <2>1, ConcatEmptySeq
  <2>3. all = LeavesInOrder
    BY <2>1, <2>2, UnderExists DEF IsUnder
  <2>4. q = <<>>
    BY <1>2, <1>5
  <2>5. QED
    BY <2>3, <2>4 DEF Found, n, q, id
<1>6. CASE n # 1
  <2> DEFINE m == n - 1
             step == p[m]
             f == First(LevelsLeft(m), step.node)
             new == [i \in 1..m |-> acc[i]]
  <2>1. /\ m \in 1..n /\ m \in 1..(n - 1) /\ m \in Nat /\ n - 1 = m /\ m + 1 = n
        /\ LevelsLeft(n) = LevelsLeft(m) - 1
    BY <1>1, <1>6 DEF LevelsLeft
  <2>2. /\ step.node \in Ids /\ Depth(step.node) # 0 /\ step.next # 1
        /\ step.next \in 1..(Len(Kids(step.node)) + 1)
        /\ LevelsLeft(m) \in 0..MaxLevels /\ Depth(step.node) <= LevelsLeft(m)
        /\ id = Kids(step.node)[step.next - 1]
        /\ acc[n] = acc[m] \o f[step.next - 2]
    BY <1>3, <2>1 DEF id
  <2>3. LevelsLeft(m) \in 1..MaxLevels
    <3>1. Depth(step.node) \in Nat
      BY <2>2, HealthyKids
    <3>2. QED
      BY <1>1, <2>2, <3>1
  <2> HIDE DEF m, step
  <2> DEFINE kids == Kids(step.node)
             k == step.next - 1
  <2>4. /\ Len(kids) \in Nat
        /\ \A j \in 0..Len(kids) : f[j] \in Seq(Extent)
        /\ \A j \in 1..Len(kids) : f[j] = f[j - 1] \o Under[LevelsLeft(m) - 1][kids[j]]
    BY <2>2, <2>3, FirstFacts
  <2> HIDE DEF f, kids
  <2>5. k \in 1..Len(kids) /\ k - 1 = step.next - 2 /\ k - 1 \in 0..Len(kids)
    BY <2>2, <2>4 DEF kids
  <2>6. f[k] = f[k - 1] \o Under[LevelsLeft(n)][id]
    BY <2>1, <2>2, <2>4, <2>5 DEF kids
  <2>7. all = acc[m] \o f[k]
    <3> DEFINE a == acc[m]
               b == f[k - 1]
               c == Under[LevelsLeft(n)][id]
    <3>1. a \in Seq(Extent) /\ b \in Seq(Extent) /\ c \in Seq(Extent)
      BY <1>3, <1>4, <2>1, <2>4, <2>5
    <3>2. all = (a \o b) \o c
      BY <2>2, <2>5
    <3> HIDE DEF a, b, c
    <3>3. (a \o b) \o c = a \o (b \o c)
      BY <3>1, ConcatAssociative
    <3>4. QED
      BY <2>6, <3>2, <3>3 DEF a, b, c
  <2> HIDE DEF k
  <2>8. IsOpen(q, new)
    <3>1. Len(q) = m /\ \A i \in 1..m : q[i] = p[i] /\ i \in 1..n
      BY <1>2, <2>1
    <3>2. new \in [1..m -> Seq(Extent)] /\ \A i \in 1..m : new[i] = acc[i]
      BY <1>3, <3>1
    <3>3. 1 \in 1..m /\ \A i \in 1..(m - 1) :
                          i \in 1..m /\ i + 1 \in 1..m /\ i \in 1..(n - 1)
      BY <2>1
    <3> HIDE DEF new
    <3>4. new[1] = <<>> /\ q[1].node = RootNode
      BY <1>3, <3>1, <3>2, <3>3
    <3>5. \A i \in 1..m :
            /\ q[i].node \in Ids /\ LevelsLeft(i) \in 0..MaxLevels
            /\ q[i].next \in 1..(Len(Kids(q[i].node)) + 1)
            /\ Depth(q[i].node) <= LevelsLeft(i)
      BY <1>3, <3>1
    <3>6. \A i \in 1..(m - 1) :
            /\ Depth(q[i].node) # 0 /\ q[i].next # 1
            /\ q[i + 1].node = Kids(q[i].node)[q[i].next - 1]
            /\ new[i + 1] = new[i] \o First(LevelsLeft(i), q[i].node)[q[i].next - 2]
      BY <1>3, <3>1, <3>2, <3>3
    <3>7. QED
      BY <3>1, <3>2, <3>4, <3>5, <3>6 DEF IsOpen
  <2>9. q # <<>> /\ Len(q) = m /\ q[m] = step /\ new[m] = acc[m]
    BY <1>2, <1>6, <2>1 DEF step
  <2>10. SoFar(m, step) = f[k]
    BY <2>2 DEF SoFar, f, k
  <2> HIDE DEF new
  <2>11. all = new[Len(q)] \o SoFar(Len(q), q[Len(q)])
    BY <2>7, <2>9, <2>10
  <2>12. AllOf(all) = AllOf(new[Len(q)] \o SoFar(Len(q), q[Len(q)]))
    BY <2>11
  <2>13. Found(q, AllOf(all))
    <3> HIDE DEF all
    <3>1. QED
      BY <2>8, <2>9, <2>12 DEF Found
  <2>14. QED
    BY <2>13 DEF n, q, id
<1>7. QED
  BY <1>5, <1>6

LEMMA InitReads == InitExtents => Reads
<1> SUFFICES ASSUME InitExtents, Healthy, input.uses_extents, ~input.inline,
                    input.needed > 0
             PROVE  /\ located # "Err" /\ (located = "Ok" => path = <<>>)
                    /\ Found(path, extents)
  BY DEF Reads
<1> DEFINE step == Step(RootNode)
           acc == [i \in 1..1 |-> <<>>]
<1>1. /\ input \in Inputs /\ extents = <<>> /\ located = "none"
      /\ path = << step >>
  <2>1. input \in Inputs /\ input.needed # 0
    BY InputType DEF InitExtents
  <2>2. QED
    BY <2>1 DEF InitExtents
<1>2. /\ step.node = RootNode /\ step.next = 1
      /\ Len(path) = 1 /\ path[1] = step /\ path # <<>>
  BY <1>1 DEF Step
<1> HIDE DEF step
<1>3. /\ RootNode \in Ids /\ Len(Kids(RootNode)) \in Nat /\ MaxLevels \in Nat
      /\ Depth(RootNode) <= MaxLevels /\ Depth(RootNode) \in Nat
  <2>1. RootNode \in Ids
    BY <1>1, InputType DEF Ids
  <2>2. QED
    BY <1>1, <2>1, HealthyKids, LenProperties, LimitsAssumption
       DEF Healthy, Depth
<1>4. IsOpen(path, acc)
  <2>1. \A i \in 1..1 : i = 1
    OBVIOUS
  <2>2. LevelsLeft(1) = MaxLevels
    BY <1>3 DEF LevelsLeft
  <2>3. acc \in [1..1 -> Seq(Extent)] /\ acc[1] = <<>>
    BY EmptySeq
  <2> HIDE DEF acc
  <2>4. \A i \in 1..1 :
          /\ path[i].node \in Ids /\ LevelsLeft(i) \in 0..MaxLevels
          /\ path[i].next \in 1..(Len(Kids(path[i].node)) + 1)
          /\ Depth(path[i].node) <= LevelsLeft(i)
    BY <1>2, <1>3, <2>1, <2>2
  <2>5. \A i : i \notin 1..(1 - 1)
    OBVIOUS
  <2>6. QED
    BY <1>2, <2>3, <2>4, <2>5 DEF IsOpen
<1>5. SoFar(1, step) = <<>>
  <2>1. CASE Depth(RootNode) = 0
    BY <1>2, <2>1 DEF SoFar
  <2>2. CASE Depth(RootNode) # 0
    <3>1. MaxLevels \in 1..MaxLevels /\ LevelsLeft(1) = MaxLevels
      BY <1>3, <2>2 DEF LevelsLeft
    <3>2. First(MaxLevels, RootNode)[0] = <<>>
      BY <1>1, <1>3, <2>2, <3>1, FirstFacts
    <3>3. QED
      BY <1>2, <2>2, <3>1, <3>2 DEF SoFar
  <2>3. QED
    BY <2>1, <2>2
<1>6. AllOf(acc[1] \o SoFar(1, step)) = <<>>
  <2>1. acc[1] \o SoFar(1, step) = <<>>
    BY <1>5
  <2>2. AllOf(<<>>) = <<>>
    BY DEF AllOf
  <2>3. QED
    BY <2>1, <2>2
<1> HIDE DEF acc
<1>7. Found(path, extents)
  BY <1>1, <1>2, <1>4, <1>6 DEF Found
<1>8. QED
  BY <1>1, <1>7

(* Of a healthy tree every node is read, and every child is in the image.  *)
LEMMA StepReads ==
  ASSUME ExtentsInv, Reads, [ExtentsNext]_extentVars
  PROVE  Reads'
<1>1. input' = input
  BY DEF ExtentsNext, SkipNode, Leaf, Descend, ChildFails, Ascend, Locate,
     extentVars
<1> SUFFICES ASSUME Healthy, input.uses_extents, ~input.inline, input.needed > 0
             PROVE  /\ located' # "Err" /\ (located' = "Ok" => path' = <<>>)
                    /\ Found(path', extents')
  BY <1>1, SameInput, SameHolds DEF Reads
<1>2. /\ located # "Err" /\ (located = "Ok" => path = <<>>)
      /\ Found(path, extents)
  BY DEF Reads
<1>3. /\ input \in Inputs /\ path \in Seq(OpenNode) /\ extents \in Seq(Decoded)
      /\ Len(path) <= MaxLevels + 1 /\ MaxLevels \in Nat
  BY LimitsAssumption DEF ExtentsInv, ExtentsTypeOK, DepthIsLimited, OpenNode
<1>4. CASE Reading
  <2> DEFINE n == Len(path)
             top == path[n]
             id == top.node
  <2>1. n \in Nat \ {0} /\ path # <<>> /\ located = "none"
        /\ Last(path) = top /\ n \in 1..n
    <3>1. path # <<>> /\ located = "none" /\ Last(path) = top
      BY <1>4 DEF Reading, Last
    <3> HIDE DEF OpenNode
    <3>2. n \in Nat \ {0}
      BY <1>3, <3>1, EmptySeq
    <3>3. QED
      BY <3>1, <3>2
  <2>2. PICK acc : IsOpen(path, acc) /\ extents = AllOf(acc[n] \o SoFar(n, top))
    BY <1>2, <2>1 DEF Found
  <2>3. /\ id \in Ids /\ LevelsLeft(n) \in 0..MaxLevels
        /\ top.next \in 1..(Len(Kids(id)) + 1)
        /\ Depth(id) <= LevelsLeft(n) /\ acc[n] \in Seq(Extent)
    BY <2>1, <2>2 DEF IsOpen
  <2>4. /\ TopNode = input.nodes[id] /\ TopNode.magic /\ TopNode.depth = Depth(id)
        /\ TopNode.kids = Kids(id) /\ Depth(id) \in Nat
        /\ Remaining = LevelsLeft(n)
    BY <1>3, <2>1, <2>3, HealthyKids DEF TopNode, Depth, Kids, Remaining, LevelsLeft
  <2> HIDE DEF top, n
  <2>5. Readable
    <3>1. TopNode.depth = 0 \/ Remaining > 0
      BY <2>3, <2>4
    <3>2. QED
      BY <2>4, <3>1 DEF Readable, HasMagic
  <2>6. Found(Front(path), AllOf(acc[n] \o Under[LevelsLeft(n)][id]))
    BY <1>3, <2>1, <2>2, PopHolds DEF n, top
  <2>7. ~SkipNode
    BY <2>5 DEF SkipNode
  <2>8. CASE Leaf
    <3>1. /\ path' = Front(path) /\ located' = located /\ Depth(id) = 0
          /\ extents' = extents \o AllOf(input.nodes[id].extents)
      BY <2>4, <2>8 DEF Leaf, AllOf
    <3>2. SoFar(n, top) = <<>> /\ Under[LevelsLeft(n)][id] = input.nodes[id].extents
      BY <1>3, <2>3, <3>1, UnderExists DEF SoFar, IsUnder
    <3> DEFINE e == input.nodes[id].extents
               a == acc[n]
    <3>3. e \in Seq(Extent) /\ a \in Seq(Extent)
      BY <1>3, <2>3, HealthyKids
    <3>4. extents' = AllOf(a) \o AllOf(e)
      <4>1. a \o <<>> = a
        BY <3>3, ConcatEmptySeq
      <4>2. QED
        BY <2>2, <3>1, <3>2, <4>1
    <3>5. AllOf(a) \o AllOf(e) = AllOf(a \o e)
      <4> HIDE DEF a, e
      <4>1. QED
        BY <3>3, AllOfBoth
    <3>6. extents' = AllOf(acc[n] \o Under[LevelsLeft(n)][id])
      BY <3>2, <3>4, <3>5
    <3>7. QED
      BY <2>1, <2>6, <3>1, <3>6
  <2>9. CASE Inner
    <3>1. Depth(id) # 0 /\ LevelsLeft(n) \in 1..MaxLevels
      BY <2>3, <2>4, <2>9 DEF Inner
    <3>2. /\ Len(Kids(id)) \in Nat
          /\ First(LevelsLeft(n), id)[0] = <<>>
          /\ \A k \in 0..Len(Kids(id)) : First(LevelsLeft(n), id)[k] \in Seq(Extent)
          /\ \A k \in 1..Len(Kids(id)) :
               /\ Kids(id)[k] \in Ids /\ Depth(Kids(id)[k]) = Depth(id) - 1
               /\ Under[LevelsLeft(n) - 1][Kids(id)[k]] \in Seq(Extent)
          /\ Under[LevelsLeft(n)][id] = First(LevelsLeft(n), id)[Len(Kids(id))]
      BY <1>3, <2>3, <3>1, FirstFacts
    <3>3. CASE Ascend
      <4>1. /\ path' = Front(path) /\ extents' = extents /\ located' = located
            /\ top.next > Len(Kids(id))
        BY <2>1, <2>4, <3>3 DEF Ascend
      <4>2. top.next - 1 = Len(Kids(id))
        BY <2>3, <3>2, <4>1
      <4>3. SoFar(n, top) = Under[LevelsLeft(n)][id]
        BY <3>1, <3>2, <4>2 DEF SoFar
      <4>4. extents' = AllOf(acc[n] \o Under[LevelsLeft(n)][id])
        BY <2>2, <4>1, <4>3
      <4>5. QED
        BY <2>1, <2>6, <4>1, <4>4
    <3>4. ~ChildFails
      <4>1. ASSUME ChildFails PROVE FALSE
        <5>1. Child = Outside /\ top.next <= Len(Kids(id)) /\ Child = Kids(id)[top.next]
          BY <2>1, <2>4, <4>1 DEF ChildFails, Child
        <5>2. Child \in Ids
          BY <2>3, <3>2, <5>1
        <5>3. Outside \notin Ids
          BY <1>3, InputsAssumption DEF IsInput, Ids
        <5>4. QED
          BY <5>1, <5>2, <5>3
      <4>2. QED
        BY <4>1
    <3>5. CASE Descend
      <4> DEFINE k == top.next
                 kid == Kids(id)[k]
      <4>1. /\ k \in 1..Len(Kids(id)) /\ kid \in Ids /\ Child = kid
            /\ path' = Append(Stepped, Step(kid))
            /\ extents' = extents /\ located' = located
        <5>1. /\ k <= Len(Kids(id)) /\ Child = kid
              /\ path' = Append(Stepped, Step(kid))
              /\ extents' = extents /\ located' = located
          BY <2>1, <2>4, <3>5 DEF Descend, Child
        <5>2. QED
          BY <2>3, <3>2, <5>1
      <4> DEFINE q == path'
                 moved == [node |-> id, next |-> k + 1]
                 new == [i \in 1..(n + 1) |->
                           IF i <= n THEN acc[i]
                                     ELSE acc[n] \o First(LevelsLeft(n), id)[k - 1]]
      <4>2. /\ Len(q) = n + 1 /\ q # <<>>
            /\ \A i \in 1..(n - 1) : q[i] = path[i]
            /\ q[n] = moved /\ q[n + 1] = Step(kid)
        <5>1. top \in OpenNode /\ Step(kid) \in OpenNode
          <6>1. Step(kid) \in OpenNode
            BY <4>1 DEF Step, OpenNode, Ids
          <6> HIDE DEF OpenNode
          <6>2. QED
            BY <1>3, <2>1, <6>1, ElementOfSeq DEF top, n
        <5>2. moved \in OpenNode /\ [top EXCEPT !.next = @ + 1] = moved
          BY <5>1 DEF OpenNode
        <5> DEFINE s == Stepped
        <5>3. s = [path EXCEPT ![n] = moved]
          BY <5>2 DEF Stepped, top, n
        <5> HIDE DEF OpenNode, moved
        <5>4. s \in Seq(OpenNode) /\ Len(s) = n /\ s[n] = moved
              /\ \A i \in 1..n : i # n => s[i] = path[i]
          BY <1>3, <2>1, <5>2, <5>3, ExceptSeq DEF n
        <5> HIDE DEF s
        <5>5. /\ Len(Append(s, Step(kid))) = n + 1
              /\ Append(s, Step(kid))[n + 1] = Step(kid)
              /\ \A i \in 1..n : Append(s, Step(kid))[i] = s[i]
              /\ Append(s, Step(kid)) \in Seq(OpenNode)
          BY <5>1, <5>4, AppendProperties
        <5>6. q = Append(s, Step(kid))
          BY <4>1 DEF s
        <5> HIDE DEF q
        <5>7. q # <<>>
          BY <2>1, <5>5, <5>6, EmptySeq
        <5>8. \A i \in 1..(n - 1) : i \in 1..n /\ i # n
          BY <2>1
        <5>9. QED
          BY <2>1, <5>4, <5>5, <5>6, <5>7, <5>8
      <4> HIDE DEF q
      <4>3. IsOpen(q, new)
        <5>1. /\ acc \in [1..n -> Seq(Extent)] /\ acc[1] = <<>>
              /\ path[1].node = RootNode
              /\ \A i \in 1..n :
                   /\ path[i].node \in Ids /\ LevelsLeft(i) \in 0..MaxLevels
                   /\ path[i].next \in 1..(Len(Kids(path[i].node)) + 1)
                   /\ Depth(path[i].node) <= LevelsLeft(i)
              /\ \A i \in 1..(n - 1) :
                   /\ Depth(path[i].node) # 0 /\ path[i].next # 1
                   /\ path[i + 1].node = Kids(path[i].node)[path[i].next - 1]
                   /\ acc[i + 1] = acc[i]
                        \o First(LevelsLeft(i), path[i].node)[path[i].next - 2]
          BY <2>2 DEF IsOpen, n
        <5>2. First(LevelsLeft(n), id)[k - 1] \in Seq(Extent)
          BY <3>2, <4>1
        <5>3. /\ new \in [1..(n + 1) -> Seq(Extent)]
              /\ \A i \in 1..n : new[i] = acc[i]
              /\ new[n + 1] = acc[n] \o First(LevelsLeft(n), id)[k - 1]
          <6>1. acc[n] \o First(LevelsLeft(n), id)[k - 1] \in Seq(Extent)
            BY <2>3, <5>2, ConcatProperties
          <6>2. \A i \in 1..(n + 1) : i <= n => i \in 1..n
            BY <2>1
          <6>3. n + 1 \in 1..(n + 1) /\ ~(n + 1 <= n)
                /\ \A i \in 1..n : i \in 1..(n + 1) /\ i <= n
            BY <2>1
          <6>4. QED
            BY <5>1, <6>1, <6>2, <6>3
        <5> HIDE DEF new
        <5>4. new[1] = <<>> /\ q[1].node = RootNode
          <6>1. 1 \in 1..n /\ (n = 1 \/ 1 \in 1..(n - 1))
            BY <2>1
          <6>2. path[1].node = q[1].node
            BY <4>2, <6>1 DEF top
          <6>3. QED
            BY <5>1, <5>3, <6>1, <6>2
        <5>5. ASSUME NEW i \in 1..(n + 1)
              PROVE  /\ q[i].node \in Ids /\ LevelsLeft(i) \in 0..MaxLevels
                     /\ q[i].next \in 1..(Len(Kids(q[i].node)) + 1)
                     /\ Depth(q[i].node) <= LevelsLeft(i)
          <6>1. CASE i \in 1..(n - 1)
            <7>1. i \in 1..n
              BY <2>1, <6>1
            <7>2. QED
              BY <4>2, <5>1, <6>1, <7>1
          <6>2. CASE i = n
            BY <2>3, <3>2, <4>1, <4>2, <6>2
          <6>3. CASE i = n + 1
            <7>1. q[i].node = kid /\ q[i].next = 1
              BY <4>2, <6>3 DEF Step
            <7>2. Depth(kid) = Depth(id) - 1 /\ Len(Kids(kid)) \in Nat
              <8>1. Kids(kid) \in Seq(Ids)
                BY <1>3, <4>1, HealthyKids
              <8>2. QED
                BY <3>2, <4>1, <8>1, LenProperties
            <7>3. LevelsLeft(i) = LevelsLeft(n) - 1
              BY <1>3, <2>1, <6>3 DEF LevelsLeft
            <7>4. LevelsLeft(i) \in 0..MaxLevels
              BY <1>3, <3>1, <7>3
            <7>5. Depth(kid) <= LevelsLeft(i)
              BY <2>3, <2>4, <3>1, <7>2, <7>3
            <7> HIDE DEF kid
            <7>6. QED
              BY <4>1, <7>1, <7>2, <7>4, <7>5
          <6>4. QED
            BY <2>1, <6>1, <6>2, <6>3
        <5>6. ASSUME NEW i \in 1..n
              PROVE  /\ Depth(q[i].node) # 0 /\ q[i].next # 1
                     /\ q[i + 1].node = Kids(q[i].node)[q[i].next - 1]
                     /\ new[i + 1] = new[i]
                          \o First(LevelsLeft(i), q[i].node)[q[i].next - 2]
          <6>1. CASE i \in 1..(n - 1)
            <7>1. i + 1 \in 1..n /\ i \in 1..n
              BY <2>1, <6>1
            <7>2. path[i + 1].node = q[i + 1].node
              <8>1. i + 1 = n \/ i + 1 \in 1..(n - 1)
                BY <2>1, <6>1
              <8>2. QED
                BY <4>2, <8>1 DEF top
            <7>3. q[i] = path[i]
              BY <4>2, <6>1
            <7>4. new[i] = acc[i] /\ new[i + 1] = acc[i + 1]
              BY <5>3, <7>1
            <7>5. /\ Depth(path[i].node) # 0 /\ path[i].next # 1
                  /\ path[i + 1].node = Kids(path[i].node)[path[i].next - 1]
                  /\ acc[i + 1] = acc[i]
                       \o First(LevelsLeft(i), path[i].node)[path[i].next - 2]
              BY <5>1, <6>1
            <7>6. Depth(q[i].node) # 0 /\ q[i].next # 1
              BY <7>3, <7>5
            <7>7. q[i + 1].node = Kids(q[i].node)[q[i].next - 1]
              BY <7>2, <7>3, <7>5
            <7>8. acc[i + 1] = acc[i] \o First(LevelsLeft(i), q[i].node)[q[i].next - 2]
              BY <7>3, <7>5
            <7>9. new[i + 1] = new[i] \o First(LevelsLeft(i), q[i].node)[q[i].next - 2]
              BY <7>4, <7>8
            <7>10. QED
              BY <7>6, <7>7, <7>9
          <6>2. CASE i = n
            <7>1. q[i].node = id /\ q[i].next = k + 1 /\ q[i + 1].node = kid
              BY <4>2, <6>2 DEF Step
            <7>2. k \in Nat /\ k # 0 /\ (k + 1) - 1 = k /\ (k + 1) - 2 = k - 1
                  /\ k + 1 # 1
              BY <3>2, <4>1
            <7>3. new[i] = acc[n] /\ new[i + 1] = acc[n] \o First(LevelsLeft(n), id)[k - 1]
              BY <5>3, <6>2
            <7> HIDE DEF k, id
            <7>4. QED
              BY <3>1, <6>2, <7>1, <7>2, <7>3
          <6>3. i \in 1..(n - 1) \/ i = n
            BY <2>1
          <6>4. QED
            BY <6>1, <6>2, <6>3
        <5>7. (n + 1) - 1 = n
          BY <2>1
        <5>8. QED
          BY <4>2, <5>3, <5>4, <5>5, <5>6, <5>7 DEF IsOpen
      <4>4. SoFar(n + 1, Step(kid)) = <<>>
        <5>1. CASE Depth(kid) = 0
          BY <5>1 DEF SoFar, Step
        <5>2. CASE Depth(kid) # 0
          <6>1. LevelsLeft(n + 1) \in 1..MaxLevels
            <7>1. /\ LevelsLeft(n + 1) \in 0..MaxLevels /\ Depth(kid) \in Nat
                  /\ Depth(kid) <= LevelsLeft(n + 1)
              <8>1. n + 1 \in 1..(n + 1) /\ q[n + 1].node = kid
                BY <2>1, <4>2 DEF Step
              <8>2. QED
                BY <1>3, <4>1, <4>2, <4>3, <8>1, HealthyKids DEF IsOpen
            <7>2. QED
              BY <1>3, <5>2, <7>1
          <6>2. First(LevelsLeft(n + 1), kid)[0] = <<>>
            BY <1>3, <4>1, <5>2, <6>1, FirstFacts
          <6>3. Step(kid).node = kid /\ Step(kid).next - 1 = 0
            BY DEF Step
          <6>4. QED
            BY <5>2, <6>2, <6>3 DEF SoFar
        <5>3. QED
          BY <5>1, <5>2
      <4>5. new[n + 1] = acc[n] \o SoFar(n, top)
        <5>1. n + 1 \in 1..(n + 1) /\ ~(n + 1 <= n)
          BY <2>1
        <5>2. SoFar(n, top) = First(LevelsLeft(n), id)[k - 1]
          BY <3>1 DEF SoFar
        <5>3. QED
          BY <5>1, <5>2
      <4>6. new[n + 1] \in Seq(Extent)
        <5>1. n + 1 \in 1..(n + 1)
          BY <2>1
        <5> HIDE DEF new
        <5>2. QED
          BY <4>2, <4>3, <5>1 DEF IsOpen
      <4> HIDE DEF new
      <4>7. new[n + 1] \o <<>> = new[n + 1]
        BY <4>6, ConcatEmptySeq
      <4>8. extents' = AllOf(new[Len(q)] \o SoFar(Len(q), q[Len(q)]))
        BY <2>2, <4>1, <4>2, <4>4, <4>5, <4>7
      <4>9. Found(q, extents')
        BY <4>2, <4>3, <4>8 DEF Found
      <4>10. QED
        BY <2>1, <4>1, <4>9 DEF q
    <3>6. CASE SkipNode \/ Leaf \/ Locate
      <4>1. FALSE
        BY <2>1, <2>4, <2>7, <3>1, <3>6 DEF Leaf, Locate
      <4>2. QED
        BY <4>1
    <3>7. CASE UNCHANGED extentVars
      BY <1>2, <3>7 DEF extentVars
    <3>8. QED
      BY <3>3, <3>4, <3>5, <3>6, <3>7 DEF ExtentsNext
  <2>10. CASE UNCHANGED extentVars
    BY <1>2, <2>10 DEF extentVars
  <2>11. QED
    BY <2>1, <2>7, <2>8, <2>9, <2>10
       DEF ExtentsNext, Descend, ChildFails, Ascend, Locate
<1>5. CASE ~Reading
  <2>1. path = <<>> \/ located # "none"
    BY <1>5 DEF Reading
  <2>2. path = <<>>
    BY <1>2, <2>1 DEF ExtentsInv, ExtentsTypeOK
  <2>3. CASE Locate
    BY <1>2, <2>2, <2>3 DEF Locate
  <2>4. CASE UNCHANGED extentVars
    BY <1>2, <2>4 DEF extentVars
  <2>5. QED
    BY <1>5, <2>3, <2>4
       DEF ExtentsNext, SkipNode, Leaf, Descend, ChildFails, Ascend, Inner
<1>6. QED
  BY <1>4, <1>5

(* The extents of a healthy tree no deeper than the limit are all          *)
(* collected, in the order of the leaves, and each of them once            *)
(* (collect_extents of ext.rs).                                            *)
THEOREM HealthyTreesAreRead == ExtentsSpec => []ReadsHealthyTrees
<1>1. ExtentsInv /\ Reads => ReadsHealthyTrees
  <2> SUFFICES ASSUME ExtentsInv, Reads, Healthy, located # "none",
                      input.uses_extents, ~input.inline, input.needed > 0
               PROVE  located = "Ok" /\ extents = AllOf(LeavesInOrder)
    BY DEF ReadsHealthyTrees, AllOf
  <2>1. located # "Err" /\ (located = "Ok" => path = <<>>) /\ Found(path, extents)
    BY DEF Reads
  <2>2. located = "Ok"
    BY <2>1 DEF ExtentsInv, ExtentsTypeOK
  <2>3. QED
    BY <2>1, <2>2 DEF Found
<1>2. ExtentsSpec => []Reads
  BY InitReads, StepReads, ExtentsInvariance, PTL DEF ExtentsSpec
<1>3. QED
  BY <1>1, <1>2, ExtentsInvariance, PTL

-----------------------------------------------------------------------------
(* The tree of a volume.  What a directory lists: the live records of its  *)
(* blocks, one block after the other.                                      *)
RecordAt(inode, p) == BlocksOf(inode)[p[1]][p[2]]
LiveIn(block) ==
  { i \in 1..Len(block) : /\ \A j \in 1..i : block[j].holds
                          /\ IsEntry(block[i]) }

LEMMA ScanFacts ==
  ASSUME NEW block \in Seq(Record)
  PROVE  /\ LiveIn(block) \in SUBSET (1..Len(block)) /\ Len(block) \in Nat
         /\ scan_dir_block(block) \in Seq(Record)
         /\ Len(scan_dir_block(block)) = Cardinality(LiveIn(block))
         /\ \A i \in LiveIn(block) :
              scan_dir_block(block)[CountTo(LiveIn(block), i)] = block[i]
<1> DEFINE n == Len(block)
           L == LiveIn(block)
           Nth(k) == CHOOSE i \in L : CountTo(L, i) = k
           c == Cardinality(L)
<1>1. n \in Nat /\ DOMAIN block = 1..n /\ \A i \in 1..n : block[i] \in Record
  BY LenProperties, ElementOfSeq
<1>2. L \in SUBSET (1..n)
  BY DEF LiveIn
<1>3. L = { i \in DOMAIN block :
              /\ IsEntry(block[i])
              /\ \A j \in { k \in DOMAIN block : ~block[k].holds } : i < j }
  <2>1. ASSUME NEW i \in 1..n
        PROVE  (\A j \in 1..i : block[j].holds)
                 <=> (\A j \in { k \in 1..n : ~block[k].holds } : i < j)
    <3>1. i \in Nat /\ \A j \in 1..i : j \in 1..n
      BY <1>1
    <3>2. \A j \in 1..n : j \in 1..i \/ i < j
      BY <1>1
    <3>3. \A j \in 1..i : ~(i < j)
      BY <3>1
    <3>4. QED
      BY <3>1, <3>2, <3>3
  <2>2. QED
    BY <1>1, <2>1 DEF LiveIn
<1>4. scan_dir_block(block) = [k \in 1..c |-> block[Nth(k)]]
  BY <1>3 DEF scan_dir_block, CountTo
<1>5. c \in Nat
  <2>1. IsFiniteSet(1..n)
    BY <1>1, FS_Interval
  <2> HIDE DEF L
  <2>2. QED
    BY <1>2, <2>1, FS_Subset, FS_CardinalityType
<1> HIDE DEF L, n
<1>6. /\ \A i \in L : CountTo(L, i) \in 1..c
      /\ \A k \in 1..c : \E i \in L : CountTo(L, i) = k
  BY <1>1, <1>2, Counting
<1>7. \A k \in 1..c : Nth(k) \in L /\ CountTo(L, Nth(k)) = k
  BY <1>6
<1>8. L \in SUBSET (Nat \ {0})
  BY <1>2
<1>9. ASSUME NEW i \in L
      PROVE  CountTo(L, i) \in 1..c /\ Nth(CountTo(L, i)) = i
  <2> DEFINE j == Nth(CountTo(L, i))
  <2>1. CountTo(L, i) \in 1..c
    BY <1>6
  <2>2. j \in L /\ CountTo(L, j) = CountTo(L, i)
    BY <1>7, <2>1
  <2> HIDE DEF j
  <2>3. j = i
    BY <1>8, <2>2, CountOrder
  <2>4. QED
    BY <2>1, <2>3 DEF j
<1> HIDE DEF c, Nth
<1>10. \A k \in 1..c : block[Nth(k)] \in Record
  BY <1>1, <1>2, <1>7
<1> DEFINE s == [k \in 1..c |-> block[Nth(k)]]
<1>11. s \in Seq(Record) /\ Len(s) = c
  <2> DEFINE G(k) == block[Nth(k)]
  <2>1. \A k \in 1..c : G(k) \in Record
    BY <1>10
  <2>2. s = [k \in 1..c |-> G(k)]
    OBVIOUS
  <2> HIDE DEF G, s
  <2>3. s \in [1..c -> Record]
    BY <2>1, <2>2
  <2>4. QED
    BY <1>5, <2>3, SeqDef, LenProperties
<1>12. QED
  BY <1>1, <1>2, <1>4, <1>9, <1>11 DEF L, n, c

(* A directory's blocks are blocks of records.                             *)
LEMMA BlocksFacts ==
  ASSUME blocks \in Seq(Positions), NEW inode \in Inode
  PROVE  /\ BlocksOf(inode) \in Seq(Seq(Record))
         /\ Len(BlocksOf(inode)) \in Nat
         /\ DOMAIN BlocksOf(inode) = 1..Len(BlocksOf(inode))
         /\ \A b \in 1..Len(BlocksOf(inode)) : BlocksOf(inode)[b] \in Seq(Record)
<1>1. BlocksOf(inode) \in Seq(Seq(Record))
  <2>1. CASE inode.blocks = Walked
    <3> DEFINE n == Len(blocks)
               G(b) == DirBlocks[blocks[b]]
               s == [b \in 1..n |-> G(b)]
    <3>1. n \in Nat /\ DOMAIN blocks = 1..n /\ \A b \in 1..n : blocks[b] \in Positions
      BY LenProperties, ElementOfSeq
    <3>2. \A b \in 1..n : G(b) \in Seq(Record)
      <4> HIDE DEF n
      <4>1. QED
        BY <3>1, WalkedAssumption
    <3>3. BlocksOf(inode) = s
      BY <2>1, <3>1 DEF BlocksOf
    <3> HIDE DEF G, n
    <3>4. s \in [1..n -> Seq(Record)]
      BY <3>2
    <3> HIDE DEF s
    <3>5. QED
      BY <3>1, <3>3, <3>4, SeqDef
  <2>2. CASE inode.blocks # Walked
    BY <2>2 DEF BlocksOf, Inode
  <2>3. QED
    BY <2>1, <2>2
<1> DEFINE B == BlocksOf(inode)
           X == Seq(Record)
<1> HIDE DEF B, X
<1>2. B \in Seq(X)
  BY <1>1 DEF B, X
<1>3. Len(B) \in Nat /\ DOMAIN B = 1..Len(B) /\ \A b \in 1..Len(B) : B[b] \in X
  BY <1>2, LenProperties, ElementOfSeq
<1>4. QED
  BY <1>2, <1>3 DEF B, X

LEMMA LiveFacts ==
  ASSUME blocks \in Seq(Positions), NEW inode \in Inode
  PROVE  /\ \A p \in Live(inode) :
              /\ p = <<p[1], p[2]>> /\ p[1] \in 1..Len(BlocksOf(inode))
              /\ p[2] \in LiveIn(BlocksOf(inode)[p[1]])
         /\ \A b \in 1..Len(BlocksOf(inode)) : \A i \in LiveIn(BlocksOf(inode)[b]) :
              <<b, i>> \in Live(inode)
<1> DEFINE B == BlocksOf(inode)
           P == UNION { {b} \X DOMAIN B[b] : b \in DOMAIN B }
<1>1. /\ DOMAIN B = 1..Len(B)
      /\ \A b \in 1..Len(B) : B[b] \in Seq(Record) /\ DOMAIN B[b] = 1..Len(B[b])
  <2> HIDE DEF B
  <2>1. DOMAIN B = 1..Len(B) /\ \A b \in 1..Len(B) : B[b] \in Seq(Record)
    BY BlocksFacts DEF B
  <2>2. QED
    BY <2>1, LenProperties
<1>2. Live(inode) = { p \in P : /\ \A j \in 1..p[2] : B[p[1]][j].holds
                                /\ IsEntry(B[p[1]][p[2]]) }
  BY DEF Live, IsEntry
<1> HIDE DEF B
<1>3. ASSUME NEW p \in P
      PROVE  p = <<p[1], p[2]>> /\ p[1] \in 1..Len(B) /\ p[2] \in 1..Len(B[p[1]])
  <2>1. PICK b \in DOMAIN B : p \in {b} \X DOMAIN B[b]
    OBVIOUS
  <2>2. p = <<p[1], p[2]>> /\ p[1] = b /\ p[2] \in DOMAIN B[b]
    BY <2>1
  <2>3. QED
    BY <1>1, <2>1, <2>2
<1>4. ASSUME NEW b \in 1..Len(B), NEW i \in 1..Len(B[b]) PROVE <<b, i>> \in P
  <2>1. b \in DOMAIN B /\ <<b, i>> \in {b} \X DOMAIN B[b]
    BY <1>1
  <2>2. QED
    BY <2>1
<1> HIDE DEF P
<1>5. ASSUME NEW p \in Live(inode)
      PROVE  p = <<p[1], p[2]>> /\ p[1] \in 1..Len(B) /\ p[2] \in LiveIn(B[p[1]])
  BY <1>2, <1>3 DEF LiveIn
<1>6. ASSUME NEW b \in 1..Len(B), NEW i \in LiveIn(B[b]) PROVE <<b, i>> \in Live(inode)
  <2>1. i \in 1..Len(B[b]) /\ (\A j \in 1..i : B[b][j].holds) /\ IsEntry(B[b][i])
    BY DEF LiveIn
  <2>2. PICK p : p = <<b, i>>
    OBVIOUS
  <2>3. p \in P /\ p[1] = b /\ p[2] = i
    BY <1>4, <2>1, <2>2
  <2>4. QED
    BY <1>2, <2>1, <2>2, <2>3
<1>7. QED
  BY <1>5, <1>6 DEF B

(* The live records, each at its place in the list.                        *)
IsPlacing(place, inode) ==
  LET list == read_dir_entries(inode)
  IN  /\ \A p \in Live(inode) :
           place[p] \in 1..Len(list) /\ list[place[p]] = RecordAt(inode, p)
      /\ \A p, q \in Live(inode) : Before(q, p) <=> place[q] < place[p]
      /\ \A p, q \in Live(inode) : place[q] = place[p] => q = p
      /\ \A k \in 1..Len(list) : \E p \in Live(inode) : place[p] = k
LEMMA Placing ==
  ASSUME blocks \in Seq(Positions), NEW inode \in Inode
  PROVE  /\ read_dir_entries(inode) \in Seq(Record)
         /\ \E place : IsPlacing(place, inode)
<1> DEFINE B == BlocksOf(inode)
           n == Len(B)
           seqs == [b \in 1..n |-> scan_dir_block(B[b])]
           L(b) == LiveIn(B[b])
           list == read_dir_entries(inode)
           V == Live(inode)
<1>1. n \in Nat /\ DOMAIN B = 1..n /\ \A b \in 1..n : B[b] \in Seq(Record)
  BY BlocksFacts
<1>2. list = FlattenSeq(seqs)
  BY <1>1 DEF read_dir_entries
<1>3. /\ \A p \in V : p = <<p[1], p[2]>> /\ p[1] \in 1..n /\ p[2] \in L(p[1])
      /\ \A b \in 1..n : \A i \in L(b) : <<b, i>> \in V
  BY LiveFacts
<1>4. \A p \in V : RecordAt(inode, p) = B[p[1]][p[2]]
  BY DEF RecordAt
<1> HIDE DEF B, n
<1>5. \A b \in 1..n :
        /\ L(b) \in SUBSET (1..Len(B[b])) /\ Len(B[b]) \in Nat
        /\ seqs[b] \in Seq(Record) /\ Len(seqs[b]) = Cardinality(L(b))
        /\ \A i \in L(b) : seqs[b][CountTo(L(b), i)] = B[b][i]
  BY <1>1, ScanFacts
<1>6. seqs \in Seq(Seq(Record))
  <2> DEFINE X == Seq(Record)
  <2>1. seqs \in [1..n -> X]
    <3>1. seqs = [b \in 1..n |-> seqs[b]]
      OBVIOUS
    <3> HIDE DEF seqs, X
    <3>2. \A b \in 1..n : seqs[b] \in X
      BY <1>5 DEF X
    <3>3. QED
      BY <3>1, <3>2
  <2> HIDE DEF seqs, X
  <2>2. seqs \in Seq(X)
    BY <1>1, <2>1, SeqDef
  <2>3. QED
    BY <2>2 DEF X
<1>7. Len(seqs) = n
  BY <1>1, <1>6, LenProperties
<1> HIDE DEF seqs, L, list, V
<1>8. PICK f : Joins(f, n, Record, seqs) /\ list = f[n]
  BY <1>2, <1>6, <1>7, Flattening
<1>9. /\ \A b \in 0..n : f[b] \in Seq(Record) /\ Len(f[b]) \in Nat
      /\ \A b \in 1..n : Len(f[b]) = Len(f[b - 1]) + Len(seqs[b])
      /\ \A a, b \in 0..n : a <= b => Len(f[a]) <= Len(f[b])
      /\ \A b \in 1..n : \A k \in 1..Len(seqs[b]) :
           f[n][Len(f[b - 1]) + k] = seqs[b][k]
      /\ \A k \in 1..Len(f[n]) :
           \E b \in 1..n : \E i \in 1..Len(seqs[b]) : k = Len(f[b - 1]) + i
  <2>1. \A b \in 1..n : seqs[b] \in Seq(Record)
    BY <1>5
  <2>2. QED
    <3>1. KeepsPlaces(f, n, Record, seqs)
      BY <1>1, <1>8, <2>1, JoinedPlaces
    <3>2. QED
      BY <3>1 DEF KeepsPlaces
<1>10. \A b \in 1..n : /\ \A i \in L(b) : CountTo(L(b), i) \in 1..Len(seqs[b])
                       /\ \A k \in 1..Len(seqs[b]) : \E i \in L(b) : CountTo(L(b), i) = k
  BY <1>5, Counting
<1> DEFINE place == [p \in V |-> Len(f[p[1] - 1]) + CountTo(L(p[1]), p[2])]
<1>11. ASSUME NEW p \in V
       PROVE  LET b == p[1]
                  i == p[2]
              IN  /\ b \in 1..n /\ i \in L(b) /\ b - 1 \in 0..n /\ b \in 0..n
                  /\ b \in Nat /\ i \in Nat
                  /\ Len(f[b - 1]) \in Nat /\ Len(f[b]) \in Nat /\ Len(f[n]) \in Nat
                  /\ Len(f[b]) <= Len(f[n])
                  /\ Len(f[b]) = Len(f[b - 1]) + Len(seqs[b])
                  /\ CountTo(L(b), i) \in 1..Len(seqs[b]) /\ Len(seqs[b]) \in Nat
                  /\ place[p] = Len(f[b - 1]) + CountTo(L(b), i)
  <2>1. p[1] \in 1..n /\ p[2] \in L(p[1])
    BY <1>3
  <2>2. p[1] - 1 \in 0..n /\ p[1] \in 0..n /\ p[1] \in Nat /\ n \in 0..n /\ p[1] <= n
    BY <1>1, <2>1
  <2>3. p[2] \in Nat
    <3>1. p[2] \in 1..Len(B[p[1]])
      BY <1>5, <2>1
    <3>2. QED
      BY <3>1
  <2>4. Len(seqs[p[1]]) \in Nat
    BY <1>5, <2>1, LenProperties
  <2>5. QED
    BY <1>9, <1>10, <2>1, <2>2, <2>3, <2>4
<1>12. ASSUME NEW p \in V
       PROVE  place[p] \in 1..Len(list) /\ list[place[p]] = RecordAt(inode, p)
  <2>1. PICK b, i, a, c, k :
          /\ b = p[1] /\ i = p[2] /\ a = Len(f[b - 1]) /\ c = Len(seqs[b])
          /\ k = CountTo(L(b), i)
    OBVIOUS
  <2>2. /\ a \in Nat /\ c \in Nat /\ k \in 1..c /\ place[p] = a + k
        /\ a + c <= Len(list) /\ Len(list) \in Nat /\ b \in 1..n /\ i \in L(b)
    BY <1>8, <1>11, <2>1
  <2>3. place[p] \in 1..Len(list)
    <3> HIDE DEF place
    <3>1. QED
      BY <2>2
  <2>4. list[a + k] = seqs[b][k] /\ seqs[b][k] = B[b][i]
    BY <1>5, <1>8, <1>9, <2>1, <2>2
  <2>5. QED
    BY <1>4, <2>1, <2>2, <2>3, <2>4
<1>13. ASSUME NEW p \in V, NEW q \in V, Before(q, p) PROVE place[q] < place[p]
  <2>1. PICK b, i, a, k : b = p[1] /\ i = p[2] /\ a = Len(f[b - 1])
                          /\ k = CountTo(L(b), i)
    OBVIOUS
  <2>2. PICK b2, i2, a2, k2 : b2 = q[1] /\ i2 = q[2] /\ a2 = Len(f[b2 - 1])
                              /\ k2 = CountTo(L(b2), i2)
    OBVIOUS
  <2>3. /\ b \in 1..n /\ i \in L(b) /\ a \in Nat /\ k \in Nat \ {0}
        /\ place[p] = a + k
    <3>1. /\ b \in 1..n /\ i \in L(b) /\ a \in Nat /\ k \in 1..Len(seqs[b])
          /\ Len(seqs[b]) \in Nat /\ place[p] = a + k
      BY <1>11, <2>1
    <3>2. QED
      BY <3>1
  <2>4. /\ b2 \in 1..n /\ i2 \in L(b2) /\ a2 \in Nat /\ k2 \in Nat \ {0}
        /\ place[q] = a2 + k2 /\ a2 + k2 <= Len(f[b2]) /\ Len(f[b2]) \in Nat
    <3>1. /\ b2 \in 1..n /\ i2 \in L(b2) /\ a2 \in Nat /\ k2 \in 1..Len(seqs[b2])
          /\ Len(seqs[b2]) \in Nat /\ place[q] = a2 + k2
          /\ Len(f[b2]) = a2 + Len(seqs[b2]) /\ Len(f[b2]) \in Nat
      BY <1>11, <2>2
    <3> HIDE DEF place
    <3>2. QED
      BY <3>1
  <2>5. CASE b2 < b
    <3>1. b2 <= b - 1 /\ b2 \in 0..n /\ b - 1 \in 0..n
      BY <1>1, <2>3, <2>4, <2>5
    <3>2. Len(f[b2]) <= a
      BY <1>9, <2>1, <3>1
    <3> HIDE DEF place
    <3>3. QED
      BY <2>3, <2>4, <3>2
  <2>6. CASE b2 = b /\ i2 < i
    <3>1. L(b) \in SUBSET (Nat \ {0})
      BY <1>5, <2>3
    <3>2. k2 < k
      BY <2>1, <2>2, <2>3, <2>4, <2>6, <3>1, CountOrder
    <3> HIDE DEF place
    <3>3. QED
      BY <2>1, <2>2, <2>3, <2>4, <2>6, <3>2
  <2>7. QED
    BY <1>13, <2>1, <2>2, <2>5, <2>6 DEF Before
<1>14. ASSUME NEW p \in V, NEW q \in V PROVE p = q \/ Before(p, q) \/ Before(q, p)
  <2>1. /\ p = <<p[1], p[2]>> /\ q = <<q[1], q[2]>>
        /\ p[1] \in Nat /\ p[2] \in Nat /\ q[1] \in Nat /\ q[2] \in Nat
    BY <1>3, <1>11
  <2>2. QED
    BY <2>1 DEF Before
<1>15. \A p \in V : place[p] \in Nat
  BY <1>12
<1>16. ASSUME NEW k \in 1..Len(list) PROVE \E p \in V : place[p] = k
  <2>1. PICK b \in 1..n : \E i \in 1..Len(seqs[b]) : k = Len(f[b - 1]) + i
    BY <1>8, <1>9
  <2>2. PICK i \in 1..Len(seqs[b]) : k = Len(f[b - 1]) + i
    BY <2>1
  <2>3. PICK j \in L(b) : CountTo(L(b), j) = i
    BY <1>10
  <2>4. PICK p : p = <<b, j>>
    OBVIOUS
  <2>5. p \in V /\ p[1] = b /\ p[2] = j
    BY <1>3, <2>4
  <2>6. QED
    BY <2>2, <2>3, <2>5
<1> HIDE DEF place
<1>17. \A p, q \in V : Before(q, p) <=> place[q] < place[p]
  <2> SUFFICES ASSUME NEW p \in V, NEW q \in V, place[q] < place[p]
               PROVE  Before(q, p)
    BY <1>13
  <2>1. place[p] \in Nat /\ place[q] \in Nat
    BY <1>15
  <2>2. p # q /\ ~(place[p] < place[q])
    BY <2>1
  <2>3. QED
    BY <1>13, <1>14, <2>2
<1>18. \A p, q \in V : place[q] = place[p] => q = p
  <2> SUFFICES ASSUME NEW p \in V, NEW q \in V, place[q] = place[p] PROVE q = p
    OBVIOUS
  <2>1. ~(place[q] < place[p]) /\ ~(place[p] < place[q])
    BY <1>15
  <2>2. QED
    BY <1>13, <1>14, <2>1
<1>19. IsPlacing(place, inode)
  BY <1>12, <1>16, <1>17, <1>18 DEF IsPlacing, V, list
<1>20. list \in Seq(Record)
  <2>1. n \in 0..n
    BY <1>1
  <2>2. QED
    BY <1>8, <1>9, <2>1
<1>21. QED
  BY <1>19, <1>20 DEF list

-----------------------------------------------------------------------------
(* The nodes inside a directory are those of the first records it lists    *)
(* whose inode has a node, in their order; `rest` are the records that are *)
(* still to come.  All inodes named so far are in `good`.                  *)
IsOf(n, r) == n.name = r.name /\ n.inode = r.inode
KeptOf(list, m, plain) == { i \in 1..m : list[i].inode \in plain }
AreListed(all, d, list, kept) ==
  /\ Cardinality(InsideOf(all, d)) = Cardinality(kept)
  /\ \A i \in kept : \E k \in InsideOf(all, d) :
       /\ IsOf(all[k], list[i])
       /\ CountTo(InsideOf(all, d), k) = CountTo(kept, i)
Lists(all, d, list, rest, good, plain) ==
  LET m == Len(list) - Len(rest)
  IN  /\ Len(rest) <= Len(list)
      /\ \A i \in 1..Len(rest) : rest[i] = list[m + i]
      /\ \A i \in 1..m : list[i].inode \in good
      /\ AreListed(all, d, list, KeptOf(list, m, plain))

LEMMA ListsFirst ==
  ASSUME NEW all, NEW d, InsideOf(all, d) = {}, NEW list \in Seq(Record),
         NEW good, NEW plain
  PROVE  Lists(all, d, list, list, good, plain)
<1>1. Len(list) \in Nat /\ Len(list) - Len(list) = 0
  BY LenProperties
<1>2. KeptOf(list, 0, plain) = {}
  BY DEF KeptOf
<1>3. AreListed(all, d, list, {})
  BY FS_EmptySet DEF AreListed
<1>4. PICK m : m = Len(list) - Len(list)
  OBVIOUS
<1>5. m = 0 /\ (\A i \in 1..Len(list) : list[i] = list[m + i])
      /\ \A i \in 1..m : list[i].inode \in good
  <2>1. m = 0
    BY <1>1, <1>4
  <2>2. \A i \in 1..Len(list) : 0 + i = i
    BY <1>1
  <2>3. QED
    BY <2>1, <2>2
<1>6. AreListed(all, d, list, KeptOf(list, m, plain))
  BY <1>2, <1>3, <1>5
<1>7. QED
  BY <1>1, <1>4, <1>5, <1>6 DEF Lists

(* The first of the records to come.                                       *)
LEMMA RestFacts ==
  ASSUME NEW list \in Seq(Record), NEW rest \in Seq(Record), rest # <<>>,
         Len(rest) <= Len(list),
         \A i \in 1..Len(rest) : rest[i] = list[(Len(list) - Len(rest)) + i]
  PROVE  LET m == Len(list) - Len(rest)
         IN  /\ m \in Nat /\ m + 1 \in 1..Len(list) /\ Head(rest) = list[m + 1]
             /\ Tail(rest) \in Seq(Record) /\ Len(Tail(rest)) <= Len(list)
             /\ Len(list) - Len(Tail(rest)) = m + 1
             /\ \A i \in 1..Len(Tail(rest)) : Tail(rest)[i] = list[(m + 1) + i]
<1> DEFINE m == Len(list) - Len(rest)
           t == Tail(rest)
<1>1. /\ Len(rest) \in Nat \ {0} /\ t \in Seq(Record) /\ Len(t) = Len(rest) - 1
      /\ Head(rest) = rest[1]
      /\ \A i \in 1..(Len(rest) - 1) : t[i] = rest[i + 1]
  BY HeadTailProperties, EmptySeq, LenProperties
<1>2. Len(list) \in Nat
  BY LenProperties
<1>3. m \in Nat /\ m + 1 \in 1..Len(list) /\ Len(t) <= Len(list)
      /\ Len(list) - Len(t) = m + 1
  <2> HIDE DEF t
  <2>1. QED
    BY <1>1, <1>2
<1>4. Head(rest) = list[m + 1]
  <2>1. 1 \in 1..Len(rest)
    BY <1>1
  <2>2. QED
    BY <1>1, <2>1
<1>5. ASSUME NEW i \in 1..Len(t) PROVE t[i] = list[(m + 1) + i]
  <2>1. i \in 1..(Len(rest) - 1) /\ i + 1 \in 1..Len(rest) /\ m + (i + 1) = (m + 1) + i
    <3>1. i \in 1..(Len(rest) - 1)
      BY <1>1
    <3> HIDE DEF m
    <3>2. QED
      BY <1>1, <1>3, <3>1
  <2>2. rest[i + 1] = list[m + (i + 1)]
    BY <2>1
  <2>3. QED
    BY <1>1, <2>1, <2>2
<1>6. QED
  BY <1>1, <1>3, <1>4, <1>5

(* The next record: one that has no node.                                  *)
LEMMA ListsDevice ==
  ASSUME NEW all, NEW d, NEW list \in Seq(Record),
         NEW rest \in Seq(Record), rest # <<>>, NEW good, NEW plain,
         Head(rest).inode \in good, Head(rest).inode \notin plain,
         Lists(all, d, list, rest, good, plain)
  PROVE  Lists(all, d, list, Tail(rest), good, plain)
<1> DEFINE m == Len(list) - Len(rest)
<1>1. /\ Len(rest) <= Len(list)
      /\ \A i \in 1..Len(rest) : rest[i] = list[m + i]
      /\ \A i \in 1..m : list[i].inode \in good
      /\ AreListed(all, d, list, KeptOf(list, m, plain))
  BY DEF Lists
<1>2. /\ m \in Nat /\ Head(rest) = list[m + 1] /\ Len(Tail(rest)) <= Len(list)
      /\ Len(list) - Len(Tail(rest)) = m + 1
      /\ \A i \in 1..Len(Tail(rest)) : Tail(rest)[i] = list[(m + 1) + i]
  BY <1>1, RestFacts
<1> HIDE DEF m
<1>3. \A i \in 1..(m + 1) : i \in 1..m \/ i = m + 1
  BY <1>2
<1>4. \A i \in 1..m : i \in 1..(m + 1)
  BY <1>2
<1>5. KeptOf(list, m + 1, plain) = KeptOf(list, m, plain)
  BY <1>2, <1>3, <1>4 DEF KeptOf
<1>6. QED
  BY <1>1, <1>2, <1>3, <1>5 DEF Lists

(* One that has a node.                                                    *)
LEMMA ListsNode ==
  ASSUME NEW X, NEW all \in Seq(X), NEW node \in X, NEW d, node.parent = d,
         NEW list \in Seq(Record), NEW rest \in Seq(Record), rest # <<>>,
         NEW good, NEW plain, IsOf(node, Head(rest)),
         Head(rest).inode \in good, Head(rest).inode \in plain,
         Lists(all, d, list, rest, good, plain)
  PROVE  Lists(Append(all, node), d, list, Tail(rest), good, plain)
<1> DEFINE m == Len(list) - Len(rest)
           n == Len(all)
           more == Append(all, node)
           I == InsideOf(all, d)
           K == KeptOf(list, m, plain)
<1>1. /\ Len(rest) <= Len(list)
      /\ \A i \in 1..Len(rest) : rest[i] = list[m + i]
      /\ \A i \in 1..m : list[i].inode \in good
      /\ AreListed(all, d, list, K)
  BY DEF Lists
<1>2. /\ m \in Nat /\ Head(rest) = list[m + 1] /\ Len(Tail(rest)) <= Len(list)
      /\ Len(list) - Len(Tail(rest)) = m + 1
      /\ \A i \in 1..Len(Tail(rest)) : Tail(rest)[i] = list[(m + 1) + i]
  BY <1>1, RestFacts
<1>3. /\ n \in Nat /\ more[n + 1] = node
      /\ \A i \in 1..n : more[i] = all[i]
  BY AppendProperties, LenProperties
<1>4. I \in SUBSET (1..n)
  BY InsideFacts
<1>5. InsideOf(more, d) = I \cup {n + 1}
  BY InsideAppended
<1> HIDE DEF m
<1>6. K \in SUBSET (1..m)
  BY DEF KeptOf
<1>7. \A i \in 1..(m + 1) : i \in 1..m \/ i = m + 1
  BY <1>2
<1>8. (\A i \in 1..m : i \in 1..(m + 1)) /\ m + 1 \in 1..(m + 1)
  BY <1>2
<1>9. KeptOf(list, m + 1, plain) = K \cup {m + 1}
  BY <1>2, <1>7, <1>8 DEF KeptOf
<1> HIDE DEF n, more, I, K
<1>10. /\ Cardinality(I) \in Nat /\ Cardinality(I \cup {n + 1}) = Cardinality(I) + 1
       /\ CountTo(I \cup {n + 1}, n + 1) = Cardinality(I) + 1
       /\ \A k \in I : CountTo(I \cup {n + 1}, k) = CountTo(I, k)
  BY <1>3, <1>4, CountNext
<1>11. /\ Cardinality(K) \in Nat /\ Cardinality(K \cup {m + 1}) = Cardinality(K) + 1
       /\ CountTo(K \cup {m + 1}, m + 1) = Cardinality(K) + 1
       /\ \A k \in K : CountTo(K \cup {m + 1}, k) = CountTo(K, k)
  BY <1>2, <1>6, CountNext
<1>12. /\ Cardinality(I) = Cardinality(K)
       /\ \A i \in K : \E k \in I : /\ IsOf(all[k], list[i])
                                   /\ CountTo(I, k) = CountTo(K, i)
  BY <1>1 DEF AreListed, I
<1>13. ASSUME NEW i \in K \cup {m + 1}
       PROVE  \E k \in I \cup {n + 1} :
                /\ IsOf(more[k], list[i])
                /\ CountTo(I \cup {n + 1}, k) = CountTo(K \cup {m + 1}, i)
  <2>1. CASE i \in K
    <3>1. PICK k \in I : IsOf(all[k], list[i]) /\ CountTo(I, k) = CountTo(K, i)
      BY <1>12, <2>1
    <3>2. more[k] = all[k]
      BY <1>3, <1>4, <3>1
    <3>3. QED
      BY <1>10, <1>11, <2>1, <3>1, <3>2
  <2>2. CASE i = m + 1
    <3>1. IsOf(more[n + 1], list[i])
      BY <1>2, <1>3, <2>2
    <3>2. QED
      BY <1>10, <1>11, <1>12, <2>2, <3>1
  <2>3. QED
    BY <2>1, <2>2
<1>14. AreListed(more, d, list, KeptOf(list, m + 1, plain))
  <2>1. PICK J : J = I \cup {n + 1}
    OBVIOUS
  <2>2. PICK M : M = K \cup {m + 1}
    OBVIOUS
  <2>3. Cardinality(J) = Cardinality(M)
    BY <1>10, <1>11, <1>12, <2>1, <2>2
  <2>4. \A i \in M : \E k \in J : /\ IsOf(more[k], list[i])
                                  /\ CountTo(J, k) = CountTo(M, i)
    BY <1>13, <2>1, <2>2
  <2>5. AreListed(more, d, list, M)
    BY <1>5, <2>1, <2>3, <2>4 DEF AreListed
  <2>6. QED
    BY <1>9, <2>2, <2>5
<1>15. \A i \in 1..(m + 1) : list[i].inode \in good
  BY <1>1, <1>2, <1>7
<1>16. QED
  BY <1>2, <1>14, <1>15 DEF Lists, more

(* A node somewhere else.                                                  *)
LEMMA ListsOther ==
  ASSUME NEW X, NEW all \in Seq(X), NEW node \in X, NEW d, node.parent # d,
         NEW list, NEW rest, NEW good, NEW plain,
         Lists(all, d, list, rest, good, plain)
  PROVE  Lists(Append(all, node), d, list, rest, good, plain)
<1> DEFINE more == Append(all, node)
           I == InsideOf(all, d)
<1>1. InsideOf(more, d) = I
  BY InsideAppended
<1>2. \A i \in 1..Len(all) : more[i] = all[i]
  BY AppendProperties
<1>3. I \in SUBSET (1..Len(all))
  BY InsideFacts
<1> HIDE DEF more, I
<1>4. \A kept : AreListed(all, d, list, kept) => AreListed(more, d, list, kept)
  <2> SUFFICES ASSUME NEW kept, AreListed(all, d, list, kept)
               PROVE  AreListed(more, d, list, kept)
    OBVIOUS
  <2>1. /\ Cardinality(I) = Cardinality(kept)
        /\ \A i \in kept : \E k \in I : /\ IsOf(all[k], list[i])
                                       /\ CountTo(I, k) = CountTo(kept, i)
    BY DEF AreListed, I
  <2>2. \A k \in I : more[k] = all[k]
    BY <1>2, <1>3
  <2>3. QED
    BY <1>1, <2>1, <2>2 DEF AreListed
<1>5. QED
  BY <1>4 DEF Lists, more

-----------------------------------------------------------------------------
(* A tree that grows: `all` are its nodes and `opened` the directories     *)
(* that are being listed.  `list` gives the records of an inode and `near` *)
(* the inodes that are named at most so many levels below the root.  Each  *)
(* directory above the limit is open or has all the nodes it should have.  *)
LevelOf(all, k) == LevelIn(all, -1, k)
IsOpened(opened, k) == \E i \in 1..Len(opened) : opened[i].node = k
NodeFits(all, k, good, plain, near) ==
  /\ all[k].inode \in good /\ all[k].inode \in plain
  /\ LevelOf(all, k) \in 0..MaxDepth /\ all[k].inode \in near[LevelOf(all, k)]
  /\ all[k].parent # 0 => /\ all[all[k].parent].is_dir
                          /\ LevelOf(all, all[k].parent) < MaxDepth
IsComplete(all, k, list, good, plain) ==
  Lists(all, k, list[all[k].inode], <<>>, good, plain)
IsBeingListed(all, i, frame, list, good, plain) ==
  /\ frame.node \in 1..Len(all) /\ all[frame.node].is_dir
  /\ LevelOf(all, frame.node) = i - 1
  /\ i <= MaxDepth => Lists(all, frame.node, list[all[frame.node].inode],
                            frame.entries, good, plain)
Grown(all, opened, list, near, good, plain) ==
  /\ ParentsIn(all)
  /\ \A k \in 1..Len(all) : NodeFits(all, k, good, plain, near)
  /\ \A k \in 1..Len(all) :
       (all[k].is_dir /\ LevelOf(all, k) < MaxDepth /\ ~IsOpened(opened, k))
         => IsComplete(all, k, list, good, plain)
  /\ \A i \in 1..Len(opened) :
       IsBeingListed(all, i, opened[i], list, good, plain)
Frames == [node : Nat, entries : Seq(Record)]

LEMMA LevelOfFacts ==
  ASSUME NEW X, NEW all \in Seq(X), ParentsIn(all)
  PROVE  /\ LevelOf(all, 0) = -1
         /\ \A k \in 1..Len(all) : LevelOf(all, k) = 1 + LevelOf(all, all[k].parent)
         /\ \A k \in 0..Len(all) : LevelOf(all, k) \in Int
<1>1. PICK base \in Int : base = -1
  OBVIOUS
<1>2. /\ LevelIn(all, base, 0) = base
      /\ \A k \in 1..Len(all) :
           LevelIn(all, base, k) = 1 + LevelIn(all, base, all[k].parent)
      /\ \A k \in 0..Len(all) : LevelIn(all, base, k) \in Int
  BY LevelFacts
<1>3. \A k : LevelOf(all, k) = LevelIn(all, base, k)
  BY <1>1 DEF LevelOf
<1>4. QED
  BY <1>1, <1>2, <1>3

(* A node that is appended lies one level below its parent.                *)
LEMMA LevelAppended ==
  ASSUME NEW X, NEW all \in Seq(X), ParentsIn(all), NEW node \in X,
         node.parent \in 0..Len(all)
  PROVE  LET more == Append(all, node)
         IN  /\ ParentsIn(more) /\ more \in Seq(X) /\ Len(more) = Len(all) + 1
             /\ more[Len(all) + 1] = node
             /\ \A k \in 1..Len(all) : more[k] = all[k]
             /\ \A k \in 0..Len(all) : LevelOf(more, k) = LevelOf(all, k)
             /\ LevelOf(more, Len(all) + 1) = 1 + LevelOf(all, node.parent)
<1> DEFINE more == Append(all, node)
           n == Len(all)
<1>1. /\ more \in Seq(X) /\ Len(more) = n + 1 /\ n \in Nat /\ more[n + 1] = node
      /\ \A k \in 1..n : more[k] = all[k]
  BY AppendProperties, LenProperties
<1> HIDE DEF more
<1>2. ParentsIn(more)
  <2>1. \A k \in 1..(n + 1) : k \in 1..n \/ k = n + 1
    BY <1>1
  <2>2. \A k \in 1..n : all[k].parent \in 0..(k - 1)
    BY DEF ParentsIn
  <2>3. node.parent \in 0..((n + 1) - 1)
    BY <1>1
  <2>4. QED
    BY <1>1, <2>1, <2>2, <2>3 DEF ParentsIn
<1>3. PICK base \in Int : base = -1
  OBVIOUS
<1>4. \A k \in 0..n : LevelIn(more, base, k) = LevelIn(all, base, k)
  BY <1>1, <1>2, SameLevels
<1>5. \A k \in 0..n : LevelOf(more, k) = LevelOf(all, k)
  BY <1>3, <1>4 DEF LevelOf
<1>6. LevelOf(more, n + 1) = 1 + LevelOf(more, node.parent)
  <2>1. n + 1 \in 1..Len(more)
    BY <1>1
  <2>2. QED
    BY <1>1, <1>2, <2>1, LevelOfFacts
<1>7. QED
  BY <1>1, <1>2, <1>5, <1>6 DEF more

(* The root alone.                                                         *)
LEMMA GrownRoot ==
  ASSUME NEW X, NEW root \in X, root.parent = 0, NEW good, NEW plain, NEW list,
         NEW near, root.inode \in good, root.inode \in plain,
         root.inode \in near[0], list[root.inode] \in Seq(Record),
         NEW opened \in Seq(Frames),
         root.is_dir => /\ Len(opened) = 1 /\ opened[1].node = 1
                        /\ opened[1].entries = list[root.inode],
         ~root.is_dir => opened = <<>>
  PROVE  Grown(<<root>>, opened, list, near, good, plain)
<1>1. PICK all : all = <<root>>
  OBVIOUS
<1>2. all \in Seq(X) /\ Len(all) = 1 /\ all[1] = root
  BY <1>1
<1>3. 1..Len(all) = {1} /\ \A k \in 1..Len(all) : k = 1
  BY <1>2
<1>4. ParentsIn(all)
  BY <1>2, <1>3 DEF ParentsIn
<1>5. LevelOf(all, 1) = 0
  <2>1. LevelOf(all, 0) = -1 /\ LevelOf(all, 1) = 1 + LevelOf(all, all[1].parent)
    BY <1>2, <1>3, <1>4, LevelOfFacts
  <2>2. QED
    BY <1>2, <2>1
<1>6. NodeFits(all, 1, good, plain, near)
  BY <1>2, <1>5, DepthAssumption DEF NodeFits
<1>7. InsideOf(all, 1) = {}
  BY <1>2, <1>3 DEF InsideOf
<1>8. /\ \A i \in 1..Len(opened) : root.is_dir /\ i = 1
      /\ root.is_dir => IsOpened(opened, 1)
  <2>1. CASE root.is_dir
    <3>1. Len(opened) = 1 /\ opened[1].node = 1
      BY <2>1
    <3>2. \A i \in 1..1 : i = 1
      OBVIOUS
    <3>3. 1 \in 1..1
      OBVIOUS
    <3>4. QED
      BY <2>1, <3>1, <3>2, <3>3 DEF IsOpened
  <2>2. CASE ~root.is_dir
    <3>1. opened = <<>> /\ Len(opened) = 0
      BY <2>2
    <3>2. \A i \in 1..0 : FALSE
      OBVIOUS
    <3>3. QED
      BY <2>2, <3>1, <3>2
  <2>3. QED
    BY <2>1, <2>2
<1>9. ASSUME NEW i \in 1..Len(opened)
      PROVE  IsBeingListed(all, i, opened[i], list, good, plain)
  <2>1. root.is_dir /\ i = 1
    BY <1>8
  <2>2. Lists(all, 1, list[root.inode], list[root.inode], good, plain)
    BY <1>7, ListsFirst
  <2>3. opened[i].node = 1 /\ opened[i].entries = list[root.inode] /\ i - 1 = 0
    BY <2>1
  <2>4. QED
    BY <1>2, <1>3, <1>5, <2>1, <2>2, <2>3 DEF IsBeingListed
<1>10. Grown(all, opened, list, near, good, plain)
  BY <1>2, <1>3, <1>4, <1>6, <1>8, <1>9 DEF Grown
<1>11. QED
  BY <1>1, <1>10

(* A record that makes no node.                                            *)
LEMMA GrownRest ==
  ASSUME NEW all, NEW list, NEW near, NEW good, NEW plain,
         NEW opened \in Seq(Frames), NEW next \in Seq(Frames),
         Len(opened) # 0, Grown(all, opened, list, near, good, plain),
         Len(next) = Len(opened),
         \A i \in 1..(Len(opened) - 1) : next[i] = opened[i],
         next[Len(opened)].node = opened[Len(opened)].node,
         LET top == next[Len(opened)]
         IN  Len(opened) <= MaxDepth
               => Lists(all, top.node, list[all[top.node].inode], top.entries,
                        good, plain)
  PROVE  Grown(all, next, list, near, good, plain)
<1> DEFINE n == Len(opened)
<1>1. n \in Nat \ {0} /\ \A i \in 1..n : i \in 1..(n - 1) \/ i = n
  BY LenProperties
<1>2. \A i \in 1..n : next[i].node = opened[i].node
  BY <1>1
<1>3. \A k : IsOpened(next, k) <=> IsOpened(opened, k)
  BY <1>2 DEF IsOpened
<1>4. ASSUME NEW i \in 1..n
      PROVE  IsBeingListed(all, i, next[i], list, good, plain)
  <2>1. IsBeingListed(all, i, opened[i], list, good, plain)
    BY DEF Grown
  <2>2. CASE i = n
    BY <1>2, <2>1, <2>2 DEF IsBeingListed
  <2>3. CASE i # n
    BY <1>1, <2>1, <2>3
  <2>4. QED
    BY <2>2, <2>3
<1> HIDE DEF n
<1>5. QED
  BY <1>3, <1>4 DEF Grown, n

(* The last record of a directory was read.                                *)
LEMMA GrownReturn ==
  ASSUME NEW all, NEW list, NEW near, NEW good, NEW plain,
         NEW opened \in Seq(Frames), NEW next \in Seq(Frames),
         Len(opened) # 0, Grown(all, opened, list, near, good, plain),
         opened[Len(opened)].entries = <<>>,
         Len(next) = Len(opened) - 1,
         \A i \in 1..(Len(opened) - 1) : next[i] = opened[i]
  PROVE  Grown(all, next, list, near, good, plain)
<1> DEFINE n == Len(opened)
<1>1. /\ n \in Nat \ {0} /\ \A i \in 1..n : i \in 1..(n - 1) \/ i = n
      /\ \A i \in 1..(n - 1) : i \in 1..n
  BY LenProperties
<1>2. \A i \in 1..(n - 1) : IsBeingListed(all, i, next[i], list, good, plain)
  BY <1>1 DEF Grown
<1>3. ASSUME NEW k \in 1..Len(all), all[k].is_dir, LevelOf(all, k) < MaxDepth,
             ~IsOpened(next, k)
      PROVE  IsComplete(all, k, list, good, plain)
  <2>1. CASE IsOpened(opened, k)
    <3>1. opened[n].node = k
      BY <1>1, <1>3, <2>1 DEF IsOpened
    <3>2. IsBeingListed(all, n, opened[n], list, good, plain)
      BY <1>1 DEF Grown
    <3>3. n <= MaxDepth
      BY <1>1, <1>3, <3>1, <3>2, DepthAssumption DEF IsBeingListed
    <3>4. QED
      BY <3>1, <3>2, <3>3 DEF IsBeingListed, IsComplete
  <2>2. CASE ~IsOpened(opened, k)
    BY <1>3, <2>2 DEF Grown
  <2>3. QED
    BY <2>1, <2>2
<1> HIDE DEF n
<1>4. QED
  BY <1>2, <1>3 DEF Grown, n

(* A record that makes a node, which is opened if it is a directory.       *)
LEMMA GrownNode ==
  ASSUME NEW X, NEW all \in Seq(X), NEW node \in X,
         NEW list, NEW near, NEW good, NEW plain,
         NEW opened \in Seq(Frames), NEW next \in Seq(Frames),
         Len(opened) # 0, Len(opened) <= MaxDepth,
         Grown(all, opened, list, near, good, plain),
         LET top == opened[Len(opened)]
             d == top.node
         IN  /\ list[all[d].inode] \in Seq(Record) /\ top.entries # <<>>
             /\ IsOf(node, Head(top.entries)) /\ node.parent = d
             /\ next[Len(opened)].node = d
             /\ next[Len(opened)].entries = Tail(top.entries),
         node.inode \in good, node.inode \in plain,
         node.inode \in near[Len(opened)], list[node.inode] \in Seq(Record),
         \A i \in 1..(Len(opened) - 1) : next[i] = opened[i],
         ~node.is_dir => Len(next) = Len(opened),
         node.is_dir =>
           /\ Len(next) = Len(opened) + 1
           /\ next[Len(opened) + 1].node = Len(all) + 1
           /\ next[Len(opened) + 1].entries = list[node.inode]
  PROVE  Grown(Append(all, node), next, list, near, good, plain)
<1> DEFINE n == Len(opened)
           c == Len(all)
           more == Append(all, node)
           d == opened[n].node
<1>1. n \in Nat \ {0} /\ n <= MaxDepth /\ c \in Nat
  BY LenProperties
<1>2. ParentsIn(all) /\ \A i \in 1..n : IsBeingListed(all, i, opened[i], list, good, plain)
  BY DEF Grown
<1>3. d \in 1..c /\ all[d].is_dir /\ LevelOf(all, d) = n - 1
      /\ Lists(all, d, list[all[d].inode], opened[n].entries, good, plain)
  BY <1>1, <1>2 DEF IsBeingListed
<1>4. node.parent = d
  OBVIOUS
<1>5. /\ ParentsIn(more) /\ more \in Seq(X) /\ Len(more) = c + 1
      /\ more[c + 1] = node
      /\ \A k \in 1..c : more[k] = all[k]
      /\ \A k \in 0..c : LevelOf(more, k) = LevelOf(all, k)
      /\ LevelOf(more, c + 1) = 1 + LevelOf(all, node.parent)
  <2>1. node.parent \in 0..c
    BY <1>1, <1>3, <1>4
  <2>2. QED
    BY <1>2, <2>1, LevelAppended
<1>6. opened[n].entries \in Seq(Record)
  <2>1. n \in 1..n
    BY <1>1
  <2>2. opened[n] \in Frames
    BY <2>1, ElementOfSeq
  <2>3. QED
    BY <2>2 DEF Frames
<1>7. ASSUME NEW k, NEW l, NEW r, k # d, Lists(all, k, l, r, good, plain)
      PROVE  Lists(more, k, l, r, good, plain)
  BY <1>4, <1>7, ListsOther
<1>8. Lists(more, d, list[all[d].inode], next[n].entries, good, plain)
  <2>1. PICK l, r : l = list[all[d].inode] /\ r = opened[n].entries
    OBVIOUS
  <2>2. /\ l \in Seq(Record) /\ r \in Seq(Record) /\ r # <<>> /\ IsOf(node, Head(r))
        /\ next[n].entries = Tail(r) /\ Lists(all, d, l, r, good, plain)
    BY <1>3, <1>6, <2>1
  <2>3. Head(r).inode \in good /\ Head(r).inode \in plain
    BY <2>2 DEF IsOf
  <2> HIDE DEF more, d
  <2>4. Lists(Append(all, node), d, l, Tail(r), good, plain)
    BY <1>4, <2>2, <2>3, ListsNode
  <2>5. QED
    BY <2>1, <2>2, <2>4 DEF more
<1>9. next[n].node = d /\ \A i \in 1..(n - 1) : next[i] = opened[i]
  OBVIOUS
<1>10. IF node.is_dir THEN /\ Len(next) = n + 1 /\ next[n + 1].node = c + 1
                           /\ next[n + 1].entries = list[node.inode]
                      ELSE Len(next) = n
  OBVIOUS
<1> HIDE DEF more, d, n, c
<1>11. \A k \in 1..(c + 1) : k \in 1..c \/ k = c + 1
  BY <1>1
<1>12. \A k \in 1..c : /\ NodeFits(all, k, good, plain, near)
                       /\ (all[k].is_dir /\ LevelOf(all, k) < MaxDepth
                             /\ ~IsOpened(opened, k))
                            => IsComplete(all, k, list, good, plain)
  BY DEF Grown, c
<1>13. ASSUME NEW k \in 1..(c + 1) PROVE NodeFits(more, k, good, plain, near)
  <2>1. CASE k \in 1..c
    <3>1. k \in 0..c /\ all[k].parent \in 0..(k - 1)
      BY <1>1, <1>2, <2>1 DEF ParentsIn, c
    <3>2. all[k].parent \in 0..c /\ (all[k].parent # 0 => all[k].parent \in 1..c)
      BY <1>1, <3>1
    <3>3. PICK up : up = all[k].parent
      OBVIOUS
    <3>4. /\ more[k] = all[k] /\ LevelOf(more, k) = LevelOf(all, k)
          /\ LevelOf(more, up) = LevelOf(all, up)
          /\ up # 0 => more[up] = all[up]
      BY <1>5, <2>1, <3>1, <3>2, <3>3
    <3>5. NodeFits(all, k, good, plain, near)
      BY <1>12, <2>1
    <3>6. QED
      BY <3>3, <3>4, <3>5 DEF NodeFits
  <2>2. CASE k = c + 1
    <3>1. LevelOf(more, k) = n /\ n \in 0..MaxDepth /\ n - 1 < MaxDepth
      BY <1>1, <1>3, <1>4, <1>5, <2>2, DepthAssumption
    <3>2. d \in 0..c /\ more[d].is_dir /\ LevelOf(more, d) = n - 1
      <4>1. d \in 0..c
        BY <1>1, <1>3
      <4>2. QED
        BY <1>3, <1>5, <4>1
    <3>3. QED
      BY <1>4, <1>5, <2>2, <3>1, <3>2 DEF NodeFits, n
  <2>3. QED
    BY <1>11, <2>1, <2>2
<1>14. \A i \in 1..n : next[i].node = opened[i].node /\ i \in 1..Len(next)
  <2>1. \A i \in 1..n : (i \in 1..(n - 1) \/ i = n) /\ i \in 1..(n + 1)
    BY <1>1
  <2>2. QED
    BY <1>9, <1>10, <2>1 DEF d
<1>15. \A k : IsOpened(opened, k) => IsOpened(next, k)
  BY <1>14 DEF IsOpened, n
<1>16. ASSUME NEW k \in 1..(c + 1), more[k].is_dir, LevelOf(more, k) < MaxDepth,
              ~IsOpened(next, k)
       PROVE  IsComplete(more, k, list, good, plain)
  <2>1. CASE k \in 1..c
    <3>1. k \in 0..c /\ more[k] = all[k] /\ LevelOf(more, k) = LevelOf(all, k)
      <4>1. k \in 0..c
        BY <1>1, <2>1
      <4>2. QED
        BY <1>5, <2>1, <4>1
    <3>2. IsComplete(all, k, list, good, plain)
      BY <1>12, <1>15, <1>16, <2>1, <3>1
    <3>3. k # d
      <4>1. n \in 1..Len(next) /\ next[n].node = d
        BY <1>1, <1>9, <1>14
      <4>2. QED
        BY <1>16, <4>1 DEF IsOpened
    <3>4. QED
      BY <1>7, <3>1, <3>2, <3>3 DEF IsComplete
  <2>2. CASE k = c + 1
    <3>1. node.is_dir
      BY <1>5, <1>16, <2>2
    <3>2. n + 1 \in 1..Len(next) /\ next[n + 1].node = k
      BY <1>1, <1>10, <2>2, <3>1
    <3>3. QED
      BY <1>16, <3>2 DEF IsOpened
  <2>3. QED
    BY <1>11, <2>1, <2>2
<1>17. ASSUME NEW i \in 1..(n - 1)
       PROVE  IsBeingListed(more, i, next[i], list, good, plain)
  <2>1. i \in 1..n /\ i # n
    BY <1>1
  <2> DEFINE e == opened[i].node
  <2>2. IsBeingListed(all, i, opened[i], list, good, plain) /\ next[i] = opened[i]
    BY <1>2, <1>9, <2>1
  <2>3. e \in 1..c /\ all[e].is_dir /\ LevelOf(all, e) = i - 1
    BY <2>2 DEF IsBeingListed, c
  <2>4. e \in 0..c /\ e # d /\ e \in 1..(c + 1)
    <3>1. e # d
      BY <1>1, <1>3, <2>1, <2>3
    <3>2. QED
      BY <1>1, <2>3, <3>1
  <2>5. more[e] = all[e] /\ LevelOf(more, e) = i - 1
    BY <1>5, <2>3, <2>4
  <2>6. QED
    BY <1>5, <1>7, <2>2, <2>3, <2>4, <2>5 DEF IsBeingListed
<1>18. IsBeingListed(more, n, next[n], list, good, plain)
  <2>1. d \in 0..c /\ d \in 1..(c + 1)
    BY <1>1, <1>3
  <2>2. more[d] = all[d] /\ LevelOf(more, d) = n - 1
    BY <1>3, <1>5, <2>1
  <2>3. QED
    BY <1>3, <1>5, <1>8, <1>9, <2>1, <2>2 DEF IsBeingListed
<1>19. node.is_dir => IsBeingListed(more, n + 1, next[n + 1], list, good, plain)
  <2> SUFFICES ASSUME node.is_dir
               PROVE  IsBeingListed(more, n + 1, next[n + 1], list, good, plain)
    OBVIOUS
  <2>1. c + 1 \in 1..(c + 1) /\ c + 1 \notin 1..c /\ c + 1 # 0
    BY <1>1
  <2>2. LevelOf(more, c + 1) = (n + 1) - 1
    BY <1>1, <1>3, <1>4, <1>5
  <2>3. InsideOf(more, c + 1) = {}
    <3>1. ASSUME NEW k \in 1..(c + 1), more[k].parent = c + 1 PROVE FALSE
      <4>1. more[k].parent \in 0..(k - 1)
        BY <1>5 DEF ParentsIn
      <4>2. \A x \in 0..(k - 1) : x # c + 1
        BY <1>1
      <4>3. QED
        BY <3>1, <4>1, <4>2
    <3>2. QED
      BY <1>5, <3>1 DEF InsideOf
  <2>4. PICK l : l = list[node.inode]
    OBVIOUS
  <2>5. PICK e : e = c + 1
    OBVIOUS
  <2>6. Lists(more, e, l, l, good, plain)
    <3>1. l \in Seq(Record) /\ InsideOf(more, e) = {}
      BY <2>3, <2>4, <2>5
    <3>2. QED
      BY <3>1, ListsFirst
  <2>7. next[n + 1].node = e /\ next[n + 1].entries = l /\ more[e] = node
    BY <1>5, <1>10, <2>4, <2>5
  <2>8. QED
    BY <1>5, <2>1, <2>2, <2>4, <2>5, <2>6, <2>7 DEF IsBeingListed
<1>20. \A i \in 1..Len(next) : IsBeingListed(more, i, next[i], list, good, plain)
  <2>1. \A i \in 1..Len(next) : i \in 1..(n - 1) \/ i = n \/ (i = n + 1 /\ node.is_dir)
    BY <1>1, <1>10
  <2>2. QED
    BY <1>17, <1>18, <1>19, <2>1
<1>21. QED
  BY <1>5, <1>13, <1>16, <1>20 DEF Grown, more

-----------------------------------------------------------------------------
(* The inodes named at most so many levels below the root: those of the    *)
(* level above, and what the directories among them list.                  *)
IsNaming(near, list, good, isDir, root) ==
  /\ near[0] = {root}
  /\ \A n \in 1..MaxDepth :
       near[n] = near[n - 1]
                   \cup UNION { { list[i][k].inode : k \in 1..Len(list[i]) } :
                                i \in { j \in near[n - 1] : j \in good /\ isDir[j] } }

LEMMA NearGrows ==
  ASSUME NEW near, NEW list, NEW good, NEW isDir, NEW root,
         IsNaming(near, list, good, isDir, root)
  PROVE  /\ \A n \in 0..MaxDepth : near[n] \subseteq near[MaxDepth]
         /\ \A n \in 0..(MaxDepth - 1) : \A i \in near[n] \cap good :
              isDir[i] => \A k \in 1..Len(list[i]) : list[i][k].inode \in near[n + 1]
<1>0. MaxDepth \in Nat
  BY DepthAssumption
<1>1. \A n \in 1..MaxDepth : near[n - 1] \subseteq near[n]
  BY DEF IsNaming
<1>2. ASSUME NEW n \in 0..MaxDepth PROVE near[n] \subseteq near[MaxDepth]
  <2> DEFINE S == { m \in 0..MaxDepth : n <= m => near[n] \subseteq near[m] }
  <2>1. 0 \in S
    <3>1. n <= 0 => n = 0
      OBVIOUS
    <3>2. 0 \in 0..MaxDepth
      BY <1>0
    <3>3. QED
      BY <3>1, <3>2
  <2>2. ASSUME NEW m \in 1..MaxDepth, m - 1 \in S PROVE m \in S
    <3>1. n <= m => (n = m \/ n <= m - 1)
      BY <1>0
    <3>2. m \in 0..MaxDepth
      BY <1>0
    <3>3. QED
      BY <1>1, <2>2, <3>1, <3>2
  <2>3. 0..MaxDepth \subseteq S
    <3> HIDE DEF S
    <3>1. QED
      BY <1>0, <2>1, <2>2, UpTo
  <2>4. MaxDepth \in S /\ n <= MaxDepth
    BY <1>0, <2>3
  <2>5. QED
    BY <2>4
<1>3. ASSUME NEW n \in 0..(MaxDepth - 1), NEW i \in near[n] \cap good, isDir[i],
             NEW k \in 1..Len(list[i])
      PROVE  list[i][k].inode \in near[n + 1]
  <2>1. PICK m : m = n + 1
    OBVIOUS
  <2>2. m \in 1..MaxDepth /\ m - 1 = n
    BY <1>0, <2>1
  <2> DEFINE J == { j \in near[n] : j \in good /\ isDir[j] }
             N(j) == { list[j][x].inode : x \in 1..Len(list[j]) }
  <2>3. near[m] = near[n] \cup UNION { N(j) : j \in J }
    BY <2>2 DEF IsNaming
  <2>4. i \in J
    BY <1>3
  <2>5. list[i][k].inode \in N(i)
    OBVIOUS
  <2> HIDE DEF N, J
  <2>6. QED
    BY <2>1, <2>3, <2>4, <2>5
<1>4. QED
  BY <1>2, <1>3

(* A tree whose listing is over has, of what is named down to a level, a   *)
(* node for all that can have one, so all that is named is good.           *)
LEMMA AllNamedAreGood ==
  ASSUME NEW X, NEW all \in Seq(X), NEW list, NEW near, NEW good, NEW plain,
         NEW isDir, NEW root, IsNaming(near, list, good, isDir, root),
         Grown(all, <<>>, list, near, good, plain),
         \A k \in 1..Len(all) : all[k].is_dir = isDir[all[k].inode],
         \A i \in good : isDir[i] => i \in plain,
         \A i \in good : list[i] \in Seq(Record),
         Len(all) # 0, all[1].inode = root
  PROVE  \A i \in near[MaxDepth] : i \in good
<1> DEFINE HasNode(i, n) == \E k \in 1..Len(all) : /\ all[k].inode = i
                                                   /\ LevelOf(all, k) <= n
           S == { n \in 0..MaxDepth :
                    \A i \in near[n] : i \in good /\ (i \in plain => HasNode(i, n)) }
<1>0. MaxDepth \in Nat /\ Len(all) \in Nat
  BY DepthAssumption, LenProperties
<1>1. /\ ParentsIn(all)
      /\ \A k \in 1..Len(all) : NodeFits(all, k, good, plain, near)
      /\ \A k \in 1..Len(all) : (all[k].is_dir /\ LevelOf(all, k) < MaxDepth)
                                   => IsComplete(all, k, list, good, plain)
  <2>1. \A k : ~IsOpened(<<>>, k)
    <3>1. Len(<<>>) = 0 /\ \A i \in 1..0 : FALSE
      OBVIOUS
    <3>2. QED
      BY <3>1 DEF IsOpened
  <2>2. QED
    BY <2>1 DEF Grown
<1>2. /\ LevelOf(all, 0) = -1
      /\ \A k \in 1..Len(all) : LevelOf(all, k) = 1 + LevelOf(all, all[k].parent)
      /\ \A k \in 0..Len(all) : LevelOf(all, k) \in Int
  BY <1>1, LevelOfFacts
<1>3. 0 \in S
  <2>1. near[0] = {root} /\ 0 \in 0..MaxDepth
    BY <1>0 DEF IsNaming
  <2>2. 1 \in 1..Len(all) /\ all[1].parent = 0
    <3>1. 1 \in 1..Len(all)
      BY <1>0
    <3>2. all[1].parent \in 0..(1 - 1)
      BY <1>1, <3>1 DEF ParentsIn
    <3>3. QED
      BY <3>1, <3>2
  <2>3. LevelOf(all, 1) = 0
    BY <1>2, <2>2
  <2>4. root \in good
    BY <1>1, <2>2 DEF NodeFits
  <2>5. HasNode(root, 0)
    BY <2>2, <2>3
  <2>6. QED
    BY <2>1, <2>4, <2>5
<1>4. ASSUME NEW n \in 1..MaxDepth, n - 1 \in S PROVE n \in S
  <2>1. n \in 0..MaxDepth /\ n \in Nat \ {0}
    BY <1>0
  <2> DEFINE J == { j \in near[n - 1] : j \in good /\ isDir[j] }
             N(j) == { list[j][x].inode : x \in 1..Len(list[j]) }
  <2>2. near[n] = near[n - 1] \cup UNION { N(j) : j \in J }
    BY DEF IsNaming
  <2>3. ASSUME NEW i \in near[n - 1] PROVE i \in good /\ (i \in plain => HasNode(i, n))
    <3>1. i \in good /\ (i \in plain => HasNode(i, n - 1))
      BY <1>4
    <3>2. ASSUME HasNode(i, n - 1) PROVE HasNode(i, n)
      <4>1. PICK k \in 1..Len(all) : all[k].inode = i /\ LevelOf(all, k) <= n - 1
        BY <3>2
      <4>2. LevelOf(all, k) \in Int
        BY <1>0, <1>2
      <4>3. LevelOf(all, k) <= n
        BY <2>1, <4>1, <4>2
      <4>4. QED
        BY <4>1, <4>3
    <3> HIDE DEF HasNode
    <3>3. QED
      BY <3>1, <3>2
  <2>4. ASSUME NEW j \in J, NEW x \in 1..Len(list[j])
        PROVE  LET i == list[j][x].inode
               IN  i \in good /\ (i \in plain => HasNode(i, n))
    <3>1. j \in near[n - 1] /\ j \in good /\ isDir[j] /\ j \in plain
      OBVIOUS
    <3>2. HasNode(j, n - 1)
      BY <1>4, <3>1
    <3>3. PICK d \in 1..Len(all) : all[d].inode = j /\ LevelOf(all, d) <= n - 1
      BY <3>2
    <3>4. LevelOf(all, d) \in Int /\ d \in 0..Len(all) /\ d \in Nat
      <4>1. d \in 0..Len(all) /\ d \in Nat
        BY <1>0
      <4>2. QED
        BY <1>2, <4>1
    <3>5. LevelOf(all, d) < MaxDepth
      BY <1>0, <2>1, <3>3, <3>4
    <3>6. all[d].is_dir
      BY <3>1, <3>3
    <3>7. PICK l : l = list[j]
      OBVIOUS
    <3>8. Lists(all, d, l, <<>>, good, plain)
      BY <1>1, <3>3, <3>5, <3>6, <3>7 DEF IsComplete
    <3>9. Len(l) \in Nat /\ Len(<<>>) = 0 /\ Len(l) - 0 = Len(l)
      BY <3>1, <3>7, LenProperties
    <3>10. /\ l[x].inode \in good
           /\ AreListed(all, d, l, KeptOf(l, Len(l), plain))
      BY <3>7, <3>8, <3>9 DEF Lists
    <3>11. ASSUME l[x].inode \in plain PROVE HasNode(l[x].inode, n)
      <4>1. x \in KeptOf(l, Len(l), plain)
        BY <3>7, <3>11 DEF KeptOf
      <4>2. PICK k \in InsideOf(all, d) : IsOf(all[k], l[x])
        BY <3>10, <4>1 DEF AreListed
      <4>3. k \in 1..Len(all) /\ all[k].parent = d /\ all[k].inode = l[x].inode
        BY <4>2 DEF InsideOf, IsOf
      <4>4. LevelOf(all, k) = 1 + LevelOf(all, d)
        BY <1>2, <4>3
      <4>5. LevelOf(all, k) <= n
        BY <2>1, <3>3, <3>4, <4>4
      <4>6. QED
        BY <4>3, <4>5
    <3> HIDE DEF HasNode
    <3>12. QED
      BY <3>7, <3>10, <3>11
  <2> HIDE DEF HasNode
  <2>5. ASSUME NEW i \in near[n] PROVE i \in good /\ (i \in plain => HasNode(i, n))
    <3>1. CASE i \in near[n - 1]
      BY <2>3, <3>1
    <3>2. CASE i \notin near[n - 1]
      <4>1. PICK j \in J : i \in N(j)
        <5> HIDE DEF N, J
        <5>1. QED
          BY <2>2, <3>2
      <4>2. PICK x \in 1..Len(list[j]) : i = list[j][x].inode
        BY <4>1
      <4> HIDE DEF N, J
      <4>3. QED
        BY <2>4, <4>2
    <3>3. QED
      BY <3>1, <3>2
  <2>6. QED
    BY <2>1, <2>5
<1>5. MaxDepth \in S
  <2>1. 0..MaxDepth \subseteq S
    <3> HIDE DEF S
    <3>1. QED
      BY <1>0, <1>3, <1>4, UpTo
  <2>2. QED
    BY <1>0, <2>1
<1>6. QED
  BY <1>5

(* The nodes of a directory that has all of them, against its live records.*)
LEMMA ListedInOrder ==
  ASSUME blocks \in Seq(Positions), NEW inode \in Inode, NEW X, NEW all \in Seq(X),
         NEW d, NEW good, NEW plain, NEW live \in SUBSET Live(inode),
         Lists(all, d, read_dir_entries(inode), <<>>, good, plain),
         \A p \in Live(inode) :
           RecordAt(inode, p).inode \in good
             => (p \in live <=> RecordAt(inode, p).inode \in plain)
  PROVE  LET inside == InsideOf(all, d)
         IN  /\ Cardinality(inside) = Cardinality(live)
             /\ \A p \in live : \E k \in inside :
                  /\ IsOf(all[k], RecordAt(inode, p))
                  /\ Cardinality({ q \in live : Before(q, p) })
                       = Cardinality({ j \in inside : j < k })
<1>1. PICK list : list = read_dir_entries(inode)
  OBVIOUS
<1>2. list \in Seq(Record) /\ \E place : IsPlacing(place, inode)
  BY <1>1, Placing
<1>3. PICK place : IsPlacing(place, inode)
  BY <1>2
<1>4. PICK V : V = Live(inode)
  OBVIOUS
<1>5. /\ \A p \in V : place[p] \in 1..Len(list) /\ list[place[p]] = RecordAt(inode, p)
      /\ \A p, q \in V : Before(q, p) <=> place[q] < place[p]
      /\ \A p, q \in V : place[q] = place[p] => q = p
      /\ \A k \in 1..Len(list) : \E p \in V : place[p] = k
  BY <1>1, <1>3, <1>4 DEF IsPlacing
<1>6. PICK m : m = Len(list)
  OBVIOUS
<1>7. PICK K : K = KeptOf(list, m, plain)
  OBVIOUS
<1>8. PICK I : I = InsideOf(all, d)
  OBVIOUS
<1>9. m \in Nat /\ (\A i \in 1..m : list[i].inode \in good) /\ AreListed(all, d, list, K)
  <2>1. m \in Nat /\ Len(<<>>) = 0 /\ m - 0 = m
    BY <1>2, <1>6, LenProperties
  <2>2. QED
    BY <1>1, <1>6, <1>7, <2>1 DEF Lists
<1>10. K \in SUBSET (1..m) /\ \A i \in 1..m : i \in K <=> list[i].inode \in plain
  BY <1>7 DEF KeptOf
<1>11. live \in SUBSET V /\ \A p \in V : p \in live <=> place[p] \in K
  BY <1>4, <1>5, <1>6, <1>9, <1>10
<1>12. /\ Cardinality(I) = Cardinality(K)
       /\ \A i \in K : \E k \in I : IsOf(all[k], list[i]) /\ CountTo(I, k) = CountTo(K, i)
  BY <1>8, <1>9 DEF AreListed
<1>13. IsFiniteSet(K)
  <2>1. IsFiniteSet(1..m)
    BY <1>9, FS_Interval
  <2>2. QED
    BY <1>10, <2>1, FS_Subset
<1>14. Cardinality(live) = Cardinality(K)
  <2>1. \A p \in live : place[p] \in K
    BY <1>11
  <2>2. \A p, q \in live : place[p] = place[q] => p = q
    BY <1>5, <1>11
  <2>3. \A i \in K : \E p \in live : place[p] = i
    BY <1>5, <1>6, <1>10, <1>11
  <2>4. QED
    BY <1>13, <2>1, <2>2, <2>3, SameCount
<1>15. ASSUME NEW p \in live
       PROVE  \E k \in I :
                /\ IsOf(all[k], RecordAt(inode, p))
                /\ Cardinality({ q \in live : Before(q, p) })
                     = Cardinality({ j \in I : j < k })
  <2>1. PICK i : i = place[p]
    OBVIOUS
  <2>2. p \in V /\ i \in K /\ list[i] = RecordAt(inode, p)
    BY <1>5, <1>11, <2>1
  <2>3. PICK k \in I : IsOf(all[k], list[i]) /\ CountTo(I, k) = CountTo(K, i)
    BY <1>12, <2>2
  <2>4. PICK Q : Q = { q \in live : Before(q, p) }
    OBVIOUS
  <2>5. PICK J : J = { j \in K : j < i }
    OBVIOUS
  <2>6. Cardinality(Q) = Cardinality(J)
    <3>1. IsFiniteSet(J)
      BY <1>13, <2>5, FS_Subset
    <3>2. \A q \in Q : q \in live /\ q \in V /\ place[q] < i /\ place[q] \in J
      BY <1>5, <1>11, <2>1, <2>2, <2>4, <2>5
    <3>3. \A q, r \in Q : place[q] = place[r] => q = r
      BY <1>5, <3>2
    <3>4. ASSUME NEW j \in J PROVE \E q \in Q : place[q] = j
      <4>1. j \in 1..Len(list) /\ j \in K /\ j < i
        BY <1>6, <1>10, <2>5
      <4>2. PICK q \in V : place[q] = j
        BY <1>5, <4>1
      <4>3. q \in live /\ Before(q, p)
        BY <1>5, <1>11, <2>1, <2>2, <4>1, <4>2
      <4>4. QED
        BY <2>4, <4>2, <4>3
    <3>5. QED
      BY <3>1, <3>2, <3>3, <3>4, SameCount
  <2>7. Cardinality(J) = CountTo(K, i) - 1
    BY <1>9, <1>10, <2>2, <2>5, Counting
  <2>8. Cardinality({ j \in I : j < k }) = CountTo(I, k) - 1
    <3>1. I \in SUBSET (1..Len(all)) /\ Len(all) \in Nat
      BY <1>8, InsideFacts, LenProperties
    <3>2. QED
      BY <2>3, <3>1, Counting
  <2>9. QED
    BY <2>2, <2>3, <2>4, <2>6, <2>7, <2>8
<1>16. QED
  BY <1>8, <1>12, <1>14, <1>15

-----------------------------------------------------------------------------
(* The volume that is read: the inodes that can be used, those that have a *)
(* node, the directories, what each lists, and the nodes they make.        *)
Good == { i \in Nat : Usable(i) }
Plain == { i \in Nat : InodeOf(volume, i).kind # "device" }
IsDir == [i \in Nat |-> InodeOf(volume, i).kind = "dir"]
ListOf == [i \in Nat |-> read_dir_entries(InodeOf(volume, i))]
Made == UNION { { Node(name, i, parent) : name \in Names, parent \in Nat } :
                i \in Good \cap Plain }

LEMMA GoodFacts ==
  ASSUME volume \in Volumes, NEW i \in Good
  PROVE  /\ i \in Nat \ {0} /\ CanRead(volume, i) /\ ~WalksFail(InodeOf(volume, i))
         /\ InodeAt(volume, i) \in DOMAIN volume.table
         /\ InodeOf(volume, i) \in Inode
<1>1. i \in Nat /\ CanRead(volume, i) /\ ~WalksFail(InodeOf(volume, i))
  BY DEF Good, Usable
<1>2. i # 0 /\ InodeAt(volume, i) \in DOMAIN volume.table
  BY <1>1 DEF CanRead
<1>3. volume.table \in [DOMAIN volume.table -> Inode]
  BY VolumesAssumption DEF IsVolume
<1>4. QED
  BY <1>1, <1>2, <1>3 DEF InodeOf

LEMMA ListOfFacts ==
  ASSUME volume \in Volumes, blocks \in Seq(Positions), NEW i \in Good
  PROVE  /\ i \in Nat /\ ListOf[i] = read_dir_entries(InodeOf(volume, i))
         /\ ListOf[i] \in Seq(Record)
         /\ { RecordAt(InodeOf(volume, i), p).inode : p \in Live(InodeOf(volume, i)) }
              = { ListOf[i][k].inode : k \in 1..Len(ListOf[i]) }
<1>1. i \in Nat /\ InodeOf(volume, i) \in Inode
  BY GoodFacts
<1>2. PICK inode \in Inode : inode = InodeOf(volume, i)
  BY <1>1
<1>3. ListOf[i] = read_dir_entries(inode)
  BY <1>1, <1>2 DEF ListOf
<1>4. PICK list : list = read_dir_entries(inode)
  OBVIOUS
<1>5. list \in Seq(Record) /\ \E place : IsPlacing(place, inode)
  BY <1>4, Placing
<1>6. PICK place : IsPlacing(place, inode)
  BY <1>5
<1>7. /\ \A p \in Live(inode) : place[p] \in 1..Len(list) /\ list[place[p]] = RecordAt(inode, p)
      /\ \A k \in 1..Len(list) : \E p \in Live(inode) : place[p] = k
  BY <1>4, <1>6 DEF IsPlacing
<1>8. { RecordAt(inode, p).inode : p \in Live(inode) }
        = { list[k].inode : k \in 1..Len(list) }
  BY <1>7
<1>9. { RecordAt(InodeOf(volume, i), p).inode : p \in Live(InodeOf(volume, i)) }
        = { RecordAt(inode, p).inode : p \in Live(inode) }
  BY <1>2
<1>10. { ListOf[i][k].inode : k \in 1..Len(ListOf[i]) }
         = { list[k].inode : k \in 1..Len(list) }
  BY <1>3, <1>4
<1>11. ListOf[i] \in Seq(Record) /\ ListOf[i] = read_dir_entries(InodeOf(volume, i))
  BY <1>2, <1>3, <1>4, <1>5
<1>12. QED
  BY <1>1, <1>8, <1>9, <1>10, <1>11

LEMMA NamedFacts ==
  ASSUME volume \in Volumes, blocks \in Seq(Positions), NEW above \in SUBSET Nat
  PROVE  /\ Named(volume, above) \in SUBSET Nat
         /\ Named(volume, above)
              = UNION { { ListOf[i][k].inode : k \in 1..Len(ListOf[i]) } :
                        i \in { j \in above : j \in Good /\ IsDir[j] } }
<1> DEFINE N(i) == { ListOf[i][k].inode : k \in 1..Len(ListOf[i]) }
           R(i) == { RecordAt(InodeOf(volume, i), p).inode : p \in Live(InodeOf(volume, i)) }
           J == { j \in above : j \in Good /\ IsDir[j] }
           D == { j \in above : IF Usable(j) THEN InodeOf(volume, j).kind = "dir"
                                ELSE FALSE }
<1>1. Named(volume, above) = UNION { R(i) : i \in D }
  BY DEF Named, RecordAt
<1>2. D = J
  <2>1. \A j \in above : j \in Nat /\ (j \in Good <=> Usable(j))
    BY DEF Good
  <2>2. \A j \in above : IsDir[j] <=> InodeOf(volume, j).kind = "dir"
    BY <2>1 DEF IsDir
  <2>3. QED
    BY <2>1, <2>2
<1>3. \A i \in J : R(i) = N(i)
  <2> SUFFICES ASSUME NEW i \in J PROVE R(i) = N(i)
    OBVIOUS
  <2>1. i \in Good
    OBVIOUS
  <2> HIDE DEF J
  <2>2. QED
    BY <2>1, ListOfFacts
<1>4. \A i \in J : N(i) \in SUBSET Nat
  <2> SUFFICES ASSUME NEW i \in J, NEW k \in 1..Len(ListOf[i])
               PROVE  ListOf[i][k].inode \in Nat
    OBVIOUS
  <2>1. i \in Good
    OBVIOUS
  <2>2. PICK list \in Seq(Record) : list = ListOf[i]
    BY <2>1, ListOfFacts
  <2>3. list[k] \in Record
    BY <2>2, ElementOfSeq
  <2>4. QED
    BY <2>2, <2>3 DEF Record
<1> HIDE DEF N, R, J, D
<1>5. Named(volume, above) = UNION { N(i) : i \in J }
  BY <1>1, <1>2, <1>3
<1>6. UNION { N(i) : i \in J } \in SUBSET Nat
  BY <1>4
<1>7. QED
  BY <1>5, <1>6 DEF N, J

LEMMA NearNaming ==
  ASSUME volume \in Volumes, blocks \in Seq(Positions)
  PROVE  IsNaming(Near(volume), ListOf, Good, IsDir, RootInode)
<1> DEFINE near == Near(volume)
           Rule(f) == [n \in 0..MaxDepth |->
                         IF n = 0 THEN {RootInode}
                         ELSE f[n - 1] \cup Named(volume, f[n - 1])]
           X == SUBSET Nat
           G(s) == s \cup Named(volume, s)
           step == [i \in Nat |-> [s \in X |-> G(s)]]
<1>1. near = CHOOSE f : f = Rule(f)
  BY DEF Near
<1>2. \A s \in X : G(s) \in X
  BY NamedFacts
<1>3. {RootInode} \in X /\ MaxDepth \in Nat
  BY DepthAssumption DEF RootInode
<1>4. step \in [Nat -> [X -> X]]
  <2> HIDE DEF X, G
  <2>1. QED
    BY <1>2
<1>5. PICK f : Recursion(f, MaxDepth, X, {RootInode}, step)
  <2> HIDE DEF step, X
  <2>1. QED
    BY <1>3, <1>4, RecursionExists
<1>6. /\ f \in [0..MaxDepth -> X] /\ f[0] = {RootInode}
      /\ \A n \in 1..MaxDepth : f[n] = G(f[n - 1])
  <2>1. /\ f \in [0..MaxDepth -> X] /\ f[0] = {RootInode}
        /\ \A n \in 1..MaxDepth : f[n] = step[n][f[n - 1]]
    BY <1>5 DEF Recursion
  <2>2. \A n \in 1..MaxDepth : n \in Nat /\ n - 1 \in 0..MaxDepth /\ f[n - 1] \in X
    <3> HIDE DEF X
    <3>1. \A n \in 1..MaxDepth : n \in Nat /\ n - 1 \in 0..MaxDepth
      BY <1>3
    <3>2. QED
      BY <2>1, <3>1
  <2>3. \A n \in 1..MaxDepth : step[n][f[n - 1]] = G(f[n - 1])
    <3> HIDE DEF X, G
    <3>1. QED
      BY <2>2
  <2>4. QED
    BY <2>1, <2>3
<1> HIDE DEF X
<1>7. f = Rule(f)
  <2>1. f = [n \in 0..MaxDepth |-> f[n]]
    BY <1>6
  <2>2. \A n \in 0..MaxDepth : n = 0 \/ n \in 1..MaxDepth
    BY <1>3
  <2>3. \A n \in 0..MaxDepth :
          f[n] = IF n = 0 THEN {RootInode} ELSE f[n - 1] \cup Named(volume, f[n - 1])
    BY <1>6, <2>2
  <2>4. QED
    BY <2>1, <2>3
<1>8. near = Rule(near)
  <2> HIDE DEF near, Rule
  <2>1. QED
    BY <1>1, <1>7
<1> HIDE DEF near
<1>9. /\ near[0] = {RootInode}
      /\ \A n \in 1..MaxDepth : near[n] = near[n - 1] \cup Named(volume, near[n - 1])
  <2>1. 0 \in 0..MaxDepth /\ \A n \in 1..MaxDepth : n \in 0..MaxDepth /\ n # 0
    BY <1>3
  <2>2. \A n \in 0..MaxDepth :
          near[n] = IF n = 0 THEN {RootInode} ELSE near[n - 1] \cup Named(volume, near[n - 1])
    BY <1>8
  <2>3. QED
    BY <2>1, <2>2
<1>10. \A n \in 0..MaxDepth : near[n] \in SUBSET Nat
  <2> DEFINE S == { n \in 0..MaxDepth : near[n] \in SUBSET Nat }
  <2>1. 0 \in S
    BY <1>3, <1>9 DEF RootInode
  <2>2. ASSUME NEW n \in 1..MaxDepth, n - 1 \in S PROVE n \in S
    <3>1. n \in 0..MaxDepth /\ near[n - 1] \in SUBSET Nat
      BY <1>3, <2>2
    <3>2. Named(volume, near[n - 1]) \in SUBSET Nat
      BY <3>1, NamedFacts
    <3>3. QED
      BY <1>9, <3>1, <3>2
  <2>3. 0..MaxDepth \subseteq S
    <3> HIDE DEF S
    <3>1. QED
      BY <1>3, <2>1, <2>2, UpTo
  <2>4. QED
    BY <2>3
<1>11. ASSUME NEW n \in 1..MaxDepth
       PROVE  Named(volume, near[n - 1])
                = UNION { { ListOf[i][k].inode : k \in 1..Len(ListOf[i]) } :
                          i \in { j \in near[n - 1] : j \in Good /\ IsDir[j] } }
  <2>1. n - 1 \in 0..MaxDepth
    BY <1>3
  <2>2. PICK above \in SUBSET Nat : above = near[n - 1]
    BY <1>10, <2>1
  <2>3. QED
    BY <2>2, NamedFacts
<1>12. QED
  BY <1>9, <1>11 DEF IsNaming, near

(* A node says of itself what its inode says.                              *)
LEMMA MadeFacts ==
  ASSUME NEW n \in Made
  PROVE  /\ n = Node(n.name, n.inode, n.parent)
         /\ n.name \in Names /\ n.inode \in Good /\ n.inode \in Plain
         /\ n.parent \in Nat /\ n.is_dir = IsDir[n.inode]
<1>1. PICK i \in Good \cap Plain :
        n \in { Node(name, i, parent) : name \in Names, parent \in Nat }
  BY DEF Made
<1>2. PICK name \in Names, parent \in Nat : n = Node(name, i, parent)
  BY <1>1
<1>3. /\ n.name = name /\ n.inode = i /\ n.parent = parent
      /\ n.is_dir = (InodeOf(volume, i).kind = "dir")
  BY <1>2 DEF Node
<1>4. i \in Nat
  BY DEF Good
<1>5. QED
  BY <1>2, <1>3, <1>4 DEF IsDir

LEMMA NodeIsMade ==
  ASSUME NEW name \in Names, NEW i \in Good, i \in Plain, NEW parent \in Nat
  PROVE  /\ Node(name, i, parent) \in Made
         /\ Node(name, i, parent).name = name /\ Node(name, i, parent).inode = i
         /\ Node(name, i, parent).parent = parent
         /\ Node(name, i, parent).is_dir = IsDir[i]
<1>1. i \in Good \cap Plain /\ i \in Nat
  BY DEF Good
<1>2. Node(name, i, parent) \in { Node(a, i, b) : a \in Names, b \in Nat }
  OBVIOUS
<1>3. Node(name, i, parent) \in Made
  BY <1>1, <1>2 DEF Made
<1>4. QED
  BY <1>1, <1>3 DEF Node, IsDir

(* None of this changes while the tree is made.                            *)
LEMMA SameVolume ==
  ASSUME UNCHANGED <<volume, pointerVars, extentVars>>
  PROVE  /\ volume' = volume /\ blocks' = blocks /\ walked' = walked
         /\ location' = location /\ located' = located
         /\ Good' = Good /\ Plain' = Plain /\ IsDir' = IsDir /\ ListOf' = ListOf
         /\ Made' = Made /\ Near(volume)' = Near(volume)
<1>1. /\ volume' = volume /\ blocks' = blocks /\ walked' = walked
      /\ location' = location /\ located' = located
  BY DEF pointerVars, extentVars
<1>2. Good' = Good
  BY <1>1 DEF Good, Usable, WalksFail, HasGone
<1>3. Plain' = Plain
  BY <1>1 DEF Plain
<1>4. IsDir' = IsDir
  BY <1>1 DEF IsDir
<1>5. \A i : read_dir_entries(InodeOf(volume, i))' = read_dir_entries(InodeOf(volume, i))
  BY <1>1 DEF read_dir_entries, BlocksOf
<1>6. ListOf' = ListOf
  BY <1>5 DEF ListOf
<1>7. \A name, i, parent : Node(name, i, parent)' = Node(name, i, parent)
  BY <1>1 DEF Node, SizeOf, LocationOf
<1>8. Made' = Made
  BY <1>2, <1>3, <1>7 DEF Made
<1>9. Near(volume)' = Near(volume)
  BY <1>1 DEF Near, Named, Usable, WalksFail, HasGone, Live, BlocksOf
<1>10. QED
  BY <1>1, <1>2, <1>3, <1>4, <1>6, <1>8, <1>9

-----------------------------------------------------------------------------
(* The invariant: a tree is made only when both walks are over, it has the *)
(* root's node first, and a parse that fails has met an inode that cannot  *)
(* be read among those that are named above the limit.                     *)
TreeTypes ==
  /\ volume \in Volumes /\ nodes \in Seq(Made) /\ stack \in Seq(Frames)
  /\ pc \in {"superblock", "entry", "done"} /\ result \in {"none", "Ok", "Err"}
Stages ==
  /\ result = "none" <=> pc # "done"
  /\ pc = "superblock" => nodes = <<>> /\ stack = <<>>
  /\ pc # "superblock" => walked # "none" /\ located # "none"
  /\ result = "Ok" => stack = <<>>
Rooted ==
  (pc = "entry" \/ result = "Ok" \/ nodes # <<>>) =>
    /\ Accepted(volume.super) /\ RootInode \in Good /\ RootInode \in Plain
    /\ Len(nodes) # 0 /\ nodes[1].inode = RootInode
Blamed ==
  (result = "Err" /\ Accepted(volume.super)) =>
    RootInode \notin Plain \/ \E i \in Nat : i \in Near(volume)[MaxDepth] /\ i \notin Good
TreeGrown == Grown(nodes, stack, ListOf, Near(volume), Good, Plain)
TreeInv == TreeTypes /\ Stages /\ Rooted /\ Blamed /\ TreeGrown

LEMMA NothingGrown ==
  ASSUME NEW list, NEW near, NEW good, NEW plain
  PROVE  Grown(<<>>, <<>>, list, near, good, plain)
<1>1. Len(<<>>) = 0 /\ 1..0 = {}
  OBVIOUS
<1>2. QED
  BY <1>1 DEF Grown, ParentsIn

LEMMA InitTree == InitVolume => TreeInv
<1> SUFFICES ASSUME InitVolume PROVE TreeInv
  OBVIOUS
<1>1. /\ volume \in Volumes /\ pc = "superblock" /\ stack = <<>> /\ nodes = <<>>
      /\ result = "none"
  BY DEF InitVolume
<1>2. nodes \in Seq(Made) /\ stack \in Seq(Frames)
  BY <1>1, EmptySeq
<1>3. TreeGrown
  BY <1>1, NothingGrown DEF TreeGrown
<1>4. QED
  BY <1>1, <1>2, <1>3 DEF TreeInv, TreeTypes, Stages, Rooted, Blamed

(* The walks go on only before the tree is begun.                          *)
LEMMA WalkStepTree ==
  ASSUME TreeInv, UNCHANGED volumeVars,
         walked # "none" => UNCHANGED <<pointerVars>>,
         walked # "none" /\ located # "none" => UNCHANGED <<extentVars>>
  PROVE  TreeInv'
<1>1. /\ volume' = volume /\ pc' = pc /\ stack' = stack /\ nodes' = nodes
      /\ result' = result
  BY DEF volumeVars
<1>2. CASE pc = "superblock"
  <2>1. nodes = <<>> /\ stack = <<>> /\ result = "none"
    BY <1>2 DEF TreeInv, Stages
  <2>2. nodes' \in Seq(Made') /\ stack' \in Seq(Frames)
    BY <1>1, <2>1, EmptySeq
  <2>3. Grown(nodes', stack', ListOf', Near(volume)', Good', Plain')
    BY <1>1, <2>1, NothingGrown
  <2>4. QED
    BY <1>1, <1>2, <2>1, <2>2, <2>3
       DEF TreeInv, TreeTypes, Stages, Rooted, Blamed, TreeGrown, Frames
<1>3. CASE pc # "superblock"
  <2>1. walked # "none" /\ located # "none"
    BY <1>3 DEF TreeInv, Stages
  <2>2. UNCHANGED <<volume, pointerVars, extentVars>>
    BY <1>1, <2>1
  <2>3. /\ walked' = walked /\ located' = located
        /\ Good' = Good /\ Plain' = Plain /\ ListOf' = ListOf
        /\ Made' = Made /\ Near(volume)' = Near(volume)
    BY <2>2, SameVolume
  <2>4. Accepted(volume.super)' = Accepted(volume.super)
    BY <1>1
  <2>5. QED
    BY <1>1, <2>3, <2>4
       DEF TreeInv, TreeTypes, Stages, Rooted, Blamed, TreeGrown, Frames
<1>4. QED
  BY <1>2, <1>3

(* What is left of the innermost directory when one record was taken.      *)
LEMMA RestOfStack ==
  ASSUME stack \in Seq(Frames), stack # <<>>, Inside.entries # <<>>
  PROVE  LET n == Len(stack)
         IN  /\ n \in Nat \ {0} /\ Inside = stack[n] /\ Inside.node \in Nat
             /\ Inside.entries \in Seq(Record) /\ Entry = Head(Inside.entries)
             /\ Entry \in Record
             /\ Rest \in Seq(Frames) /\ Len(Rest) = n
             /\ \A i \in 1..(n - 1) : Rest[i] = stack[i]
             /\ Rest[n].node = Inside.node /\ Rest[n].entries = Tail(Inside.entries)
<1> DEFINE n == Len(stack)
           front == Front(stack)
           new == [Inside EXCEPT !.entries = Tail(@)]
<1>1. /\ front \in Seq(Frames) /\ Len(front) = n - 1 /\ n \in Nat \ {0}
      /\ stack[n] \in Frames /\ \A i \in 1..(n - 1) : front[i] = stack[i]
  BY FrontFacts
<1>2. Inside = stack[n] /\ Inside \in Frames
  BY <1>1 DEF Inside, Last
<1>3. Inside.node \in Nat /\ Inside.entries \in Seq(Record)
  BY <1>2 DEF Frames
<1>4. Tail(Inside.entries) \in Seq(Record) /\ Head(Inside.entries) \in Record
  BY <1>3, HeadTailProperties
<1>5. new \in Frames /\ new.node = Inside.node /\ new.entries = Tail(Inside.entries)
  BY <1>2, <1>3, <1>4 DEF Frames
<1> HIDE DEF front, new, n
<1>6. Rest = Append(front, new)
  BY DEF Rest, front, new
<1>7. /\ Rest \in Seq(Frames) /\ Len(Rest) = (n - 1) + 1
      /\ \A i \in 1..(n - 1) : Rest[i] = front[i]
      /\ Rest[(n - 1) + 1] = new
  BY <1>1, <1>5, <1>6, AppendProperties
<1>8. (n - 1) + 1 = n
  BY <1>1
<1>9. QED
  BY <1>1, <1>2, <1>3, <1>4, <1>5, <1>7, <1>8 DEF Entry, n

(* Above the limit, what the next record names is named above the limit.   *)
LEMMA NextIsNamed ==
  ASSUME TreeInv, blocks \in Seq(Positions), Listing, ~TooDeep
  PROVE  LET n == Len(stack)
             d == Inside.node
         IN  /\ n <= MaxDepth /\ d \in 1..Len(nodes)
             /\ nodes[d].inode \in Good /\ ListOf[nodes[d].inode] \in Seq(Record)
             /\ Lists(nodes, d, ListOf[nodes[d].inode], Inside.entries, Good, Plain)
             /\ Entry.inode \in Near(volume)[n]
             /\ Entry.inode \in Near(volume)[MaxDepth]
<1> DEFINE n == Len(stack)
           d == Inside.node
           rest == Inside.entries
           near == Near(volume)
<1>1. volume \in Volumes /\ nodes \in Seq(Made) /\ stack \in Seq(Frames)
  BY DEF TreeInv, TreeTypes
<1>2. /\ n \in Nat \ {0} /\ Inside = stack[n] /\ rest \in Seq(Record)
      /\ Entry = Head(rest) /\ Entry \in Record /\ rest # <<>>
  BY <1>1, RestOfStack DEF Listing
<1>3. n <= MaxDepth /\ n \in 1..n /\ MaxDepth \in Nat
  BY <1>2, DepthAssumption DEF TooDeep
<1>4. IsBeingListed(nodes, n, Inside, ListOf, Good, Plain)
  BY <1>2, <1>3 DEF TreeInv, TreeGrown, Grown
<1>5. /\ d \in 1..Len(nodes) /\ nodes[d].is_dir /\ LevelOf(nodes, d) = n - 1
      /\ Lists(nodes, d, ListOf[nodes[d].inode], rest, Good, Plain)
  BY <1>3, <1>4 DEF IsBeingListed
<1>6. nodes[d].inode \in Good /\ nodes[d].inode \in near[n - 1]
  BY <1>5 DEF TreeInv, TreeGrown, Grown, NodeFits
<1>7. nodes[d] \in Made
  BY <1>1, <1>5, ElementOfSeq
<1>8. IsDir[nodes[d].inode]
  BY <1>5, <1>7, MadeFacts
<1>9. PICK i : i = nodes[d].inode
  OBVIOUS
<1>10. PICK list \in Seq(Record) : list = ListOf[i]
  BY <1>1, <1>6, <1>9, ListOfFacts
<1> HIDE DEF n, d, rest, near
<1>11. PICK k \in 1..Len(list) : Entry = list[k]
  <2>1. /\ Len(rest) <= Len(list)
        /\ \A x \in 1..Len(rest) : rest[x] = list[(Len(list) - Len(rest)) + x]
    BY <1>5, <1>9, <1>10 DEF Lists
  <2>2. PICK m : m = Len(list) - Len(rest)
    OBVIOUS
  <2>3. m + 1 \in 1..Len(list) /\ Head(rest) = list[m + 1]
    BY <1>2, <2>1, <2>2, RestFacts
  <2>4. QED
    BY <1>2, <2>3
<1>12. IsNaming(near, ListOf, Good, IsDir, RootInode)
  BY <1>1, NearNaming DEF near
<1>13. /\ \A m \in 0..MaxDepth : near[m] \subseteq near[MaxDepth]
       /\ \A m \in 0..(MaxDepth - 1) : \A j \in near[m] \cap Good :
            IsDir[j] => \A x \in 1..Len(ListOf[j]) : ListOf[j][x].inode \in near[m + 1]
  BY <1>12, NearGrows
<1>14. n - 1 \in 0..(MaxDepth - 1) /\ (n - 1) + 1 = n /\ n \in 0..MaxDepth
  BY <1>2, <1>3
<1>15. Entry.inode \in near[n]
  BY <1>6, <1>8, <1>9, <1>10, <1>11, <1>13, <1>14
<1>16. Entry.inode \in near[MaxDepth]
  BY <1>13, <1>14, <1>15
<1>17. QED
  BY <1>3, <1>5, <1>6, <1>9, <1>10, <1>15, <1>16 DEF n, d, rest, near

LEMMA RootFacts ==
  ASSUME volume \in Volumes, blocks \in Seq(Positions)
  PROVE  /\ RootInode \in Nat /\ RootInode \in Near(volume)[0]
         /\ RootInode \in Near(volume)[MaxDepth]
         /\ HasRoot <=> (Accepted(volume.super) /\ RootInode \in Good)
<1>1. IsNaming(Near(volume), ListOf, Good, IsDir, RootInode)
  BY NearNaming
<1>2. RootInode \in Near(volume)[0]
  BY <1>1 DEF IsNaming
<1>3. 0 \in 0..MaxDepth
  BY DepthAssumption
<1>4. RootInode \in Near(volume)[MaxDepth]
  BY <1>1, <1>2, <1>3, NearGrows
<1>5. RootInode \in Nat
  BY DEF RootInode
<1>6. QED
  BY <1>2, <1>4, <1>5 DEF HasRoot, Good

(* What the steps of the tree leave as it is, and what remains to be shown.*)
LEMMA StepKeeps ==
  ASSUME TreeInv, UNCHANGED <<volume, pointerVars, extentVars>>,
         walked # "none", located # "none",
         nodes' \in Seq(Made), stack' \in Seq(Frames),
         pc' \in {"entry", "done"}, result' \in {"none", "Ok", "Err"},
         result' = "none" <=> pc' # "done",
         result' = "Ok" => stack' = <<>>,
         (pc' = "entry" \/ result' = "Ok" \/ nodes' # <<>>) =>
           /\ Accepted(volume.super) /\ RootInode \in Good /\ RootInode \in Plain
           /\ Len(nodes') # 0 /\ nodes'[1].inode = RootInode,
         (result' = "Err" /\ Accepted(volume.super)) =>
           \/ RootInode \notin Plain
           \/ \E i \in Nat : i \in Near(volume)[MaxDepth] /\ i \notin Good,
         Grown(nodes', stack', ListOf, Near(volume), Good, Plain)
  PROVE  TreeInv'
<1>1. /\ volume' = volume /\ walked' = walked /\ located' = located
      /\ Good' = Good /\ Plain' = Plain /\ ListOf' = ListOf
      /\ Made' = Made /\ Near(volume)' = Near(volume)
  BY SameVolume
<1>2. Accepted(volume.super)' = Accepted(volume.super)
  BY <1>1
<1>3. volume \in Volumes
  BY DEF TreeInv, TreeTypes
<1>4. TreeTypes'
  BY <1>1, <1>3 DEF TreeTypes, Frames
<1>5. Stages'
  BY <1>1 DEF Stages
<1>6. Rooted' /\ Blamed'
  BY <1>1, <1>2 DEF Rooted, Blamed
<1>7. TreeGrown'
  BY <1>1 DEF TreeGrown
<1>8. QED
  BY <1>4, <1>5, <1>6, <1>7 DEF TreeInv

LEMMA OpenRootTree ==
  ASSUME TreeInv, blocks \in Seq(Positions), walked # "none", located # "none",
         BadSuperblock \/ OpenRoot, UNCHANGED <<pointerVars, extentVars>>
  PROVE  TreeInv'
<1>1. /\ volume \in Volumes /\ volume' = volume
      /\ pc = "superblock" /\ nodes = <<>> /\ stack = <<>> /\ result = "none"
  BY DEF TreeInv, TreeTypes, Stages, BadSuperblock, OpenRoot
<1>2. /\ RootInode \in Nat /\ RootInode \in Near(volume)[0]
      /\ RootInode \in Near(volume)[MaxDepth]
      /\ HasRoot <=> (Accepted(volume.super) /\ RootInode \in Good)
  BY <1>1, RootFacts
<1>3. UNCHANGED <<volume, pointerVars, extentVars>>
  BY <1>1
<1> DEFINE inode == InodeOf(volume, RootInode)
           root == Node(Dot, RootInode, 0)
<1>4. RootInode \in Plain <=> inode.kind # "device"
  BY <1>2 DEF Plain
<1>5. ASSUME nodes' = <<>>, stack' = <<>>, result' = "Err", pc' = "done",
             Accepted(volume.super) =>
               RootInode \notin Plain \/ RootInode \notin Good
      PROVE  TreeInv'
  <2>1. nodes' \in Seq(Made) /\ stack' \in Seq(Frames)
    BY <1>5, EmptySeq
  <2>2. Grown(nodes', stack', ListOf, Near(volume), Good, Plain)
    BY <1>5, NothingGrown
  <2>3. QED
    BY <1>2, <1>3, <1>5, <2>1, <2>2, StepKeeps
<1>6. CASE BadSuperblock
  <2>1. /\ ~HasRoot /\ nodes' = <<>> /\ stack' = <<>>
        /\ result' = "Err" /\ pc' = "done"
    BY <1>1, <1>6 DEF BadSuperblock, Stop
  <2>2. QED
    BY <1>2, <1>5, <2>1
<1>7. CASE OpenRoot /\ inode.kind = "device"
  <2>1. /\ nodes' = <<>> /\ stack' = <<>> /\ result' = "Err" /\ pc' = "done"
    BY <1>1, <1>7 DEF OpenRoot, Stop
  <2>2. QED
    BY <1>4, <1>5, <1>7, <2>1
<1>8. CASE OpenRoot /\ inode.kind # "device"
  <2>1. Accepted(volume.super) /\ RootInode \in Good /\ RootInode \in Plain
    BY <1>2, <1>4, <1>8 DEF OpenRoot
  <2>2. /\ root \in Made /\ root.inode = RootInode /\ root.parent = 0
        /\ root.is_dir = IsDir[RootInode]
    BY <2>1, NodeIsMade, NamesAssumption
  <2>3. root.is_dir <=> inode.kind = "dir"
    BY <1>2, <2>2 DEF IsDir
  <2>4. ListOf[RootInode] \in Seq(Record) /\ ListOf[RootInode] = read_dir_entries(inode)
    BY <1>1, <2>1, ListOfFacts
  <2> DEFINE frame == Frame(1, inode)
  <2>5. frame \in Frames /\ frame.node = 1 /\ frame.entries = ListOf[RootInode]
    BY <2>4 DEF Frame, Frames
  <2>6. /\ nodes' = <<root>>
        /\ IF root.is_dir THEN stack' = <<frame>> /\ pc' = "entry" /\ result' = "none"
           ELSE stack' = <<>> /\ pc' = "done" /\ result' = "Ok"
    BY <1>1, <1>8, <2>3 DEF OpenRoot, Stop
  <2> HIDE DEF root, frame, inode
  <2>7. PICK opened : opened = stack'
    OBVIOUS
  <2>8. opened \in Seq(Frames)
    <3>1. CASE root.is_dir
      <4>1. opened = <<frame>>
        BY <2>6, <2>7, <3>1
      <4>2. QED
        BY <2>5, <4>1
    <3>2. CASE ~root.is_dir
      BY <2>6, <2>7, <3>2, EmptySeq
    <3>3. QED
      BY <3>1, <3>2
  <2>9. /\ root.is_dir => /\ Len(opened) = 1 /\ opened[1].node = 1
                          /\ opened[1].entries = ListOf[root.inode]
        /\ ~root.is_dir => opened = <<>>
    BY <2>2, <2>5, <2>6, <2>7
  <2>10. Grown(<<root>>, opened, ListOf, Near(volume), Good, Plain)
    BY <1>2, <2>1, <2>2, <2>4, <2>8, <2>9, GrownRoot
  <2>11. nodes' \in Seq(Made) /\ Len(nodes') # 0 /\ nodes'[1].inode = RootInode
    BY <2>2, <2>6
  <2>12. /\ pc' \in {"entry", "done"} /\ result' \in {"none", "Ok"}
         /\ result' = "none" <=> pc' # "done"
         /\ result' = "Ok" => stack' = <<>>
    BY <2>6
  <2>13. Grown(nodes', stack', ListOf, Near(volume), Good, Plain)
    BY <2>6, <2>7, <2>10
  <2>14. QED
    BY <1>3, <2>1, <2>7, <2>8, <2>11, <2>12, <2>13, StepKeeps
<1>9. QED
  BY <1>6, <1>7, <1>8

(* A record that makes no node: one beyond the limit, or a device.         *)
LEMMA PassedTree ==
  ASSUME TreeInv, blocks \in Seq(Positions), walked # "none", located # "none",
         Listing, stack' = Rest, nodes' = nodes,
         UNCHANGED <<volume, pc, result>>, UNCHANGED <<pointerVars, extentVars>>,
         ~TooDeep => Entry.inode \in Good /\ Entry.inode \notin Plain
  PROVE  TreeInv'
<1> DEFINE n == Len(stack)
           d == Inside.node
<1>1. /\ volume \in Volumes /\ nodes \in Seq(Made) /\ stack \in Seq(Frames)
      /\ pc = "entry" /\ result = "none" /\ stack # <<>> /\ Inside.entries # <<>>
  BY DEF TreeInv, TreeTypes, Stages, Listing
<1>2. /\ n \in Nat \ {0} /\ Inside = stack[n]
      /\ Inside.entries \in Seq(Record) /\ Entry = Head(Inside.entries)
      /\ Rest \in Seq(Frames) /\ Len(Rest) = n
      /\ \A i \in 1..(n - 1) : Rest[i] = stack[i]
      /\ Rest[n].node = d /\ Rest[n].entries = Tail(Inside.entries)
  BY <1>1, RestOfStack
<1>3. n <= MaxDepth => Lists(nodes, d, ListOf[nodes[d].inode], Rest[n].entries, Good, Plain)
  <2> SUFFICES ASSUME n <= MaxDepth
               PROVE  Lists(nodes, d, ListOf[nodes[d].inode], Rest[n].entries, Good, Plain)
    OBVIOUS
  <2>1. ~TooDeep
    BY <1>2, DepthAssumption DEF TooDeep
  <2>2. /\ ListOf[nodes[d].inode] \in Seq(Record)
        /\ Lists(nodes, d, ListOf[nodes[d].inode], Inside.entries, Good, Plain)
    BY <2>1, NextIsNamed
  <2>3. PICK list, rest : list = ListOf[nodes[d].inode] /\ rest = Inside.entries
    OBVIOUS
  <2>4. Lists(nodes, d, list, Tail(rest), Good, Plain)
    BY <1>1, <1>2, <2>1, <2>2, <2>3, ListsDevice
  <2>5. QED
    BY <1>2, <2>3, <2>4
<1>4. Grown(nodes, stack, ListOf, Near(volume), Good, Plain)
  BY DEF TreeInv, TreeGrown
<1>5. PICK next : next = Rest
  OBVIOUS
<1>6. Grown(nodes, next, ListOf, Near(volume), Good, Plain)
  <2>1. next[n].node = stack[n].node
    BY <1>2, <1>5
  <2>2. n # 0
    BY <1>2
  <2>3. n <= MaxDepth => Lists(nodes, next[n].node, ListOf[nodes[next[n].node].inode],
                               next[n].entries, Good, Plain)
    BY <1>2, <1>3, <1>5
  <2>4. QED
    BY <1>1, <1>2, <1>4, <1>5, <2>1, <2>2, <2>3, GrownRest
<1>7. /\ Accepted(volume.super) /\ RootInode \in Good /\ RootInode \in Plain
      /\ Len(nodes) # 0 /\ nodes[1].inode = RootInode
  BY <1>1 DEF TreeInv, Rooted
<1>8. QED
  BY <1>1, <1>2, <1>5, <1>6, <1>7, StepKeeps

LEMMA AddedTree ==
  ASSUME TreeInv, blocks \in Seq(Positions), walked # "none", located # "none",
         AddEntry, UNCHANGED <<pointerVars, extentVars>>
  PROVE  TreeInv'
<1> DEFINE n == Len(stack)
           d == Inside.node
           inode == InodeOf(volume, Entry.inode)
           node == Node(Entry.name, Entry.inode, d)
           near == Near(volume)
<1>1. /\ volume \in Volumes /\ nodes \in Seq(Made) /\ stack \in Seq(Frames)
      /\ pc = "entry" /\ result = "none" /\ stack # <<>> /\ Inside.entries # <<>>
      /\ Listing /\ ~TooDeep /\ Usable(Entry.inode)
      /\ UNCHANGED <<volume, pc, result>>
  BY DEF TreeInv, TreeTypes, Stages, Listing, AddEntry
<1>2. /\ n \in Nat \ {0} /\ Inside = stack[n] /\ d \in Nat
      /\ Inside.entries \in Seq(Record) /\ Entry = Head(Inside.entries)
      /\ Entry \in Record /\ Rest \in Seq(Frames) /\ Len(Rest) = n
      /\ \A i \in 1..(n - 1) : Rest[i] = stack[i]
      /\ Rest[n].node = d /\ Rest[n].entries = Tail(Inside.entries)
  BY <1>1, RestOfStack
<1>3. Entry.inode \in Nat /\ Entry.name \in Names /\ Entry.inode \in Good
  BY <1>1, <1>2 DEF Record, Good
<1>4. /\ n <= MaxDepth /\ d \in 1..Len(nodes)
      /\ ListOf[nodes[d].inode] \in Seq(Record)
      /\ Entry.inode \in near[n]
  BY <1>1, NextIsNamed
<1>5. Entry.inode \in Plain <=> inode.kind # "device"
  BY <1>3 DEF Plain
<1>6. CASE inode.kind = "device"
  <2>1. stack' = Rest /\ nodes' = nodes
    BY <1>6 DEF AddEntry
  <2>2. QED
    BY <1>1, <1>3, <1>5, <1>6, <2>1, PassedTree
<1>7. CASE inode.kind # "device"
  <2>1. /\ node \in Made /\ node.name = Entry.name /\ node.inode = Entry.inode
        /\ node.parent = d /\ node.is_dir = IsDir[Entry.inode]
        /\ Entry.inode \in Plain
    BY <1>2, <1>3, <1>5, <1>7, NodeIsMade
  <2>2. node.is_dir <=> inode.kind = "dir"
    BY <1>3, <2>1 DEF IsDir
  <2>3. /\ ListOf[Entry.inode] \in Seq(Record)
        /\ ListOf[Entry.inode] = read_dir_entries(inode)
    BY <1>1, <1>3, ListOfFacts
  <2> DEFINE c == Len(nodes)
             frame == Frame(c + 1, inode)
  <2>4. c \in Nat /\ c + 1 \in Nat
    BY <1>1, LenProperties
  <2>5. frame \in Frames /\ frame.node = c + 1 /\ frame.entries = ListOf[Entry.inode]
    BY <2>3, <2>4 DEF Frame, Frames
  <2>6. /\ nodes' = Append(nodes, node)
        /\ stack' = IF node.is_dir THEN Append(Rest, frame) ELSE Rest
    BY <1>7, <2>2 DEF AddEntry
  <2> HIDE DEF node, frame, inode, near, d
  <2>7. PICK next : next = stack'
    OBVIOUS
  <2>8. /\ next \in Seq(Frames)
        /\ \A i \in 1..n : next[i] = Rest[i]
        /\ node.is_dir => Len(next) = n + 1 /\ next[n + 1] = frame
        /\ ~node.is_dir => Len(next) = n
    <3>1. CASE node.is_dir
      <4>1. next = Append(Rest, frame)
        BY <2>6, <2>7, <3>1
      <4>2. /\ next \in Seq(Frames) /\ Len(next) = n + 1 /\ next[n + 1] = frame
            /\ \A i \in 1..n : next[i] = Rest[i]
        BY <1>2, <2>5, <4>1, AppendProperties
      <4>3. QED
        BY <3>1, <4>2
    <3>2. CASE ~node.is_dir
      <4>1. next = Rest
        BY <2>6, <2>7, <3>2
      <4>2. QED
        BY <1>2, <3>2, <4>1
    <3>3. QED
      BY <3>1, <3>2
  <2>9. n \in 1..n /\ \A i \in 1..(n - 1) : i \in 1..n
    BY <1>2
  <2>10. Grown(Append(nodes, node), next, ListOf, near, Good, Plain)
    <3>1. Grown(nodes, stack, ListOf, near, Good, Plain)
      BY DEF TreeInv, TreeGrown, near
    <3>2. PICK top : top = stack[n]
      OBVIOUS
    <3>3. /\ top.node = d /\ top.entries = Inside.entries
      BY <1>2, <3>2 DEF d
    <3>4. IsOf(node, Head(top.entries))
      BY <1>2, <2>1, <3>3 DEF IsOf
    <3>5. /\ next[n].node = top.node /\ next[n].entries = Tail(top.entries)
          /\ \A i \in 1..(n - 1) : next[i] = stack[i]
      BY <1>2, <2>8, <2>9, <3>3
    <3>6. /\ ListOf[nodes[top.node].inode] \in Seq(Record) /\ top.entries # <<>>
          /\ node.parent = top.node
      BY <1>1, <1>4, <2>1, <3>3
    <3>7. node.inode \in Good /\ node.inode \in Plain /\ node.inode \in near[n]
      BY <1>3, <1>4, <2>1
    <3>8. ListOf[node.inode] \in Seq(Record)
      BY <2>1, <2>3
    <3>9. node.is_dir => /\ Len(next) = n + 1 /\ next[n + 1].node = Len(nodes) + 1
                        /\ next[n + 1].entries = ListOf[node.inode]
      BY <2>1, <2>5, <2>8
    <3>10. n # 0 /\ n <= MaxDepth
      BY <1>2, <1>4
    <3>11. QED
      BY <1>1, <2>1, <2>8, <3>1, <3>2, <3>4, <3>5, <3>6, <3>7, <3>8, <3>9, <3>10, GrownNode
  <2>11. PICK all : all = Append(nodes, node)
    OBVIOUS
  <2>12. /\ Accepted(volume.super) /\ RootInode \in Good /\ RootInode \in Plain
         /\ c # 0 /\ nodes[1].inode = RootInode
    BY <1>1 DEF TreeInv, Rooted
  <2>13. /\ all \in Seq(Made) /\ Len(all) # 0 /\ all[1].inode = RootInode
    <3>1. all \in Seq(Made) /\ Len(all) = c + 1 /\ \A i \in 1..c : all[i] = nodes[i]
      BY <1>1, <2>1, <2>11, AppendProperties
    <3>2. 1 \in 1..c /\ c + 1 # 0
      BY <2>4, <2>12
    <3>3. QED
      BY <2>12, <3>1, <3>2
  <2>14. nodes' = all /\ stack' = next /\ pc' = "entry" /\ result' = "none"
    BY <1>1, <2>6, <2>7, <2>11
  <2>15. Grown(nodes', stack', ListOf, Near(volume), Good, Plain)
    BY <2>10, <2>11, <2>14 DEF near
  <2>16. QED
    BY <1>1, <2>8, <2>12, <2>13, <2>14, <2>15, StepKeeps
<1>8. QED
  BY <1>6, <1>7

LEMMA VolumeStepTree ==
  ASSUME TreeInv, blocks \in Seq(Positions), walked # "none", located # "none",
         VolumeNext, UNCHANGED <<pointerVars, extentVars>>
  PROVE  TreeInv'
<1>1. CASE BadSuperblock \/ OpenRoot
  BY <1>1, OpenRootTree
<1>2. CASE DropEntry
  <2>1. Listing /\ TooDeep /\ stack' = Rest /\ nodes' = nodes
        /\ UNCHANGED <<volume, pc, result>>
    BY <1>2 DEF DropEntry
  <2>2. QED
    BY <2>1, PassedTree
<1>3. CASE ReadFails
  <2>1. /\ Listing /\ ~TooDeep /\ ~Usable(Entry.inode)
        /\ pc' = "done" /\ result' = "Err" /\ UNCHANGED <<volume, stack, nodes>>
    BY <1>3 DEF ReadFails, Stop
  <2>2. /\ nodes \in Seq(Made) /\ stack \in Seq(Frames)
        /\ Grown(nodes, stack, ListOf, Near(volume), Good, Plain)
    BY DEF TreeInv, TreeTypes, TreeGrown
  <2>3. Entry \in Record
    BY <2>1, <2>2, RestOfStack DEF Listing
  <2>4. Entry.inode \in Nat /\ Entry.inode \notin Good
    BY <2>1, <2>3 DEF Record, Good
  <2>5. Entry.inode \in Near(volume)[MaxDepth]
    BY <2>1, NextIsNamed
  <2>6. UNCHANGED <<volume, pointerVars, extentVars>>
    BY <2>1
  <2>7. Grown(nodes', stack', ListOf, Near(volume), Good, Plain)
    BY <2>1, <2>2
  <2>8. /\ Accepted(volume.super) /\ RootInode \in Good /\ RootInode \in Plain
        /\ Len(nodes) # 0 /\ nodes[1].inode = RootInode
    BY <2>1 DEF TreeInv, Rooted, Listing
  <2>9. QED
    BY <2>1, <2>2, <2>4, <2>5, <2>6, <2>7, <2>8, StepKeeps
<1>4. CASE AddEntry
  BY <1>4, AddedTree
<1>5. CASE Return
  <2>1. /\ nodes \in Seq(Made) /\ stack \in Seq(Frames) /\ stack # <<>>
        /\ pc = "entry" /\ result = "none" /\ Inside.entries = <<>>
        /\ stack' = Front(stack) /\ UNCHANGED <<volume, nodes>>
        /\ IF Len(stack) = 1 THEN pc' = "done" /\ result' = "Ok"
                             ELSE UNCHANGED <<pc, result>>
    BY <1>5 DEF TreeInv, TreeTypes, Stages, Return, Stop
  <2>2. PICK next : next = Front(stack)
    OBVIOUS
  <2>3. /\ next \in Seq(Frames) /\ Len(next) = Len(stack) - 1
        /\ Len(stack) \in Nat \ {0}
        /\ \A i \in 1..(Len(stack) - 1) : next[i] = stack[i]
    BY <2>1, <2>2, FrontFacts
  <2>4. Grown(nodes, next, ListOf, Near(volume), Good, Plain)
    <3>1. Grown(nodes, stack, ListOf, Near(volume), Good, Plain)
      BY DEF TreeInv, TreeGrown
    <3>2. stack[Len(stack)].entries = <<>> /\ Len(stack) # 0
      BY <2>1, <2>3 DEF Inside, Last
    <3>3. QED
      BY <2>1, <2>3, <3>1, <3>2, GrownReturn
  <2>5. Len(stack) = 1 => next = <<>>
    BY <2>3, EmptySeq
  <2>6. /\ Accepted(volume.super) /\ RootInode \in Good /\ RootInode \in Plain
        /\ Len(nodes) # 0 /\ nodes[1].inode = RootInode
    BY <2>1 DEF TreeInv, Rooted
  <2>7. stack' = next /\ nodes' = nodes
    BY <2>1, <2>2
  <2>8. /\ pc' \in {"entry", "done"} /\ result' \in {"none", "Ok"}
        /\ result' = "none" <=> pc' # "done"
        /\ result' = "Ok" => stack' = <<>>
    BY <2>1, <2>5, <2>7
  <2>9. UNCHANGED <<volume, pointerVars, extentVars>>
    BY <2>1
  <2>10. Grown(nodes', stack', ListOf, Near(volume), Good, Plain)
    BY <2>4, <2>7
  <2>11. QED
    BY <2>1, <2>3, <2>6, <2>7, <2>8, <2>9, <2>10, StepKeeps
<1>6. QED
  BY <1>1, <1>2, <1>3, <1>4, <1>5 DEF VolumeNext

-----------------------------------------------------------------------------
(* The walks and the tree together.                                        *)
VolumeInv == PointersInv /\ ExtentsInv /\ TreeInv

LEMMA CollectedBlocks == PointersInv => blocks \in Seq(Positions)
<1> SUFFICES ASSUME PointersInv PROVE blocks \in Seq(Positions)
  OBVIOUS
<1>1. blocks \in Seq(Nat) /\ \A i \in 1..Len(blocks) : blocks[i] \in Positions
  BY DEF PointersInv, Behind, Ordered
<1>2. Len(blocks) \in Nat /\ blocks \in [1..Len(blocks) -> Nat]
  BY <1>1, LenProperties
<1>3. blocks \in [1..Len(blocks) -> Positions]
  BY <1>1, <1>2
<1>4. QED
  BY <1>2, <1>3, SeqDef

LEMMA VolumeInvSteps ==
  /\ Init => VolumeInv
  /\ VolumeInv /\ [Next]_vars => VolumeInv'
<1>1. Init => VolumeInv
  BY PointersInitInv, ExtentsInitInv, InitTree DEF Init, VolumeInv
<1>2. ASSUME VolumeInv, [Next]_vars PROVE VolumeInv'
  <2>1. [PointersNext]_pointerVars /\ [ExtentsNext]_extentVars
    BY <1>2 DEF Next, vars
  <2>2. PointersInv' /\ ExtentsInv'
    BY <1>2, <2>1, PointersStepInv, ExtentsStepInv DEF VolumeInv
  <2>3. ASSUME PointersNext, UNCHANGED <<extentVars, volumeVars>> PROVE TreeInv'
    <3>1. walked = "none"
      BY <2>3 DEF PointersNext, Finish, TableFails, Walking, NoTable, NoBlock, Collect
    <3>2. QED
      BY <1>2, <2>3, <3>1, WalkStepTree DEF VolumeInv
  <2>4. ASSUME walked # "none", ExtentsNext, UNCHANGED <<pointerVars, volumeVars>>
        PROVE  TreeInv'
    <3>1. located = "none"
      BY <2>4 DEF ExtentsNext, SkipNode, Leaf, Descend, ChildFails, Ascend, Locate,
                  Inner, Reading
    <3>2. QED
      BY <1>2, <2>4, <3>1, WalkStepTree DEF VolumeInv
  <2>5. ASSUME walked # "none", located # "none", VolumeNext,
               UNCHANGED <<pointerVars, extentVars>>
        PROVE  TreeInv'
    BY <1>2, <2>5, VolumeStepTree, CollectedBlocks DEF VolumeInv
  <2>6. ASSUME UNCHANGED vars PROVE TreeInv'
    <3>1. UNCHANGED volumeVars /\ UNCHANGED <<pointerVars>> /\ UNCHANGED <<extentVars>>
      BY <2>6 DEF vars
    <3>2. QED
      BY <1>2, <3>1, WalkStepTree DEF VolumeInv
  <2>7. TreeInv'
    BY <1>2, <2>3, <2>4, <2>5, <2>6 DEF Next
  <2>8. QED
    BY <2>2, <2>7 DEF VolumeInv
<1>3. QED
  BY <1>1, <1>2

(* In a volume's tree every node is that of a usable inode named above the *)
(* limit, and every directory is being listed or complete (build_tree).    *)
THEOREM TreeInvariance == Spec => []VolumeInv
<1>1. VolumeInv /\ [Next]_vars => VolumeInv'
  BY VolumeInvSteps
<1>2. Init => VolumeInv
  BY VolumeInvSteps
<1>3. QED
  BY <1>1, <1>2, PTL DEF Spec

LEMMA OkHasAll ==
  ASSUME VolumeInv, result = "Ok"
  PROVE  \A i \in Near(volume)[MaxDepth] : i \in Good
<1>1. /\ volume \in Volumes /\ nodes \in Seq(Made) /\ blocks \in Seq(Positions)
  BY CollectedBlocks DEF VolumeInv, TreeInv, TreeTypes
<1>2. stack = <<>> /\ Len(nodes) # 0 /\ nodes[1].inode = RootInode
  BY DEF VolumeInv, TreeInv, Stages, Rooted
<1>3. Grown(nodes, <<>>, ListOf, Near(volume), Good, Plain)
  BY <1>2 DEF VolumeInv, TreeInv, TreeGrown
<1>4. IsNaming(Near(volume), ListOf, Good, IsDir, RootInode)
  BY <1>1, NearNaming
<1>5. \A k \in 1..Len(nodes) : nodes[k].is_dir = IsDir[nodes[k].inode]
  <2> SUFFICES ASSUME NEW k \in 1..Len(nodes)
               PROVE  nodes[k].is_dir = IsDir[nodes[k].inode]
    OBVIOUS
  <2>1. nodes[k] \in Made
    BY <1>1, ElementOfSeq
  <2>2. QED
    BY <2>1, MadeFacts
<1>6. \A i \in Good : IsDir[i] => i \in Plain
  BY DEF Good, IsDir, Plain
<1>7. \A i \in Good : ListOf[i] \in Seq(Record)
  BY <1>1, ListOfFacts
<1>8. QED
  BY <1>1, <1>2, <1>3, <1>4, <1>5, <1>6, <1>7, AllNamedAreGood

(* A parse of a good superblock fails exactly when an entry above the      *)
(* limit names an inode that cannot be read, or the root is a device:      *)
(* read_inode's error in build_tree is never passed over (ext.rs).         *)
THEOREM ParseIsAllOrNothing == Spec => []AllOrNothing
<1>1. VolumeInv => AllOrNothing
  <2> SUFFICES ASSUME VolumeInv, result # "none", Accepted(volume.super)
               PROVE  result = "Ok" <=> /\ \A i \in Reachable(volume) : Usable(i)
                                        /\ InodeOf(volume, RootInode).kind # "device"
    BY DEF AllOrNothing
  <2>1. result \in {"Ok", "Err"}
    BY DEF VolumeInv, TreeInv, TreeTypes
  <2>2. Reachable(volume) = Near(volume)[MaxDepth]
    BY DEF Reachable
  <2>3. RootInode \in Nat
    BY DEF RootInode
  <2>4. CASE result = "Ok"
    <3>1. RootInode \in Plain
      BY <2>4 DEF VolumeInv, TreeInv, Rooted
    <3>2. \A i \in Near(volume)[MaxDepth] : i \in Good
      BY <2>4, OkHasAll
    <3>3. QED
      BY <2>2, <2>4, <3>1, <3>2 DEF Good, Plain
  <2>5. CASE result = "Err"
    <3>1. \/ RootInode \notin Plain
          \/ \E i \in Nat : i \in Near(volume)[MaxDepth] /\ i \notin Good
      BY <2>5 DEF VolumeInv, TreeInv, Blamed
    <3>2. QED
      BY <2>2, <2>3, <2>5, <3>1 DEF Good, Plain
  <2>6. QED
    BY <2>1, <2>4, <2>5
<1>2. QED
  BY <1>1, TreeInvariance, PTL

(* Where the format has the inode of a node is where the reader found it.  *)
LEMMA HeldThere ==
  ASSUME volume \in Volumes, Accepted(volume.super), Conforming(volume.super),
         NEW i \in Good
  PROVE  Holds(volume, InodeAt(volume, i), i)
<1> DEFINE s == volume.super
           p == s.inodes_per_group
           g == GroupOf(volume, i)
           k == Ordinal(i) % p
           at == DescriptorAt(volume, i)
           wide == IF s.bit64 THEN s.desc_size ELSE MinDesc
<1>1. /\ s \in Super /\ i \in Nat \ {0} /\ CanRead(volume, i)
  BY GoodFacts, VolumesAssumption DEF IsVolume
<1>2. p \in Nat \ {0}
  BY <1>1 DEF Super, Accepted
<1>3. desc_size_effective(s) = wide
  BY DEF desc_size_effective, Conforming
<1>4. at \in DOMAIN volume.descriptors
  BY <1>1 DEF CanRead
<1>5. at = volume.base + (s.first_data_block + 1) * BlockSize(s) + g * wide
  BY <1>3 DEF DescriptorAt, bgd_table_offset
<1>6. InodeAt(volume, i)
        = volume.base + volume.descriptors[at] * BlockSize(s) + k * InodeSize(s)
  BY DEF InodeAt
<1>7. g \in 0..i /\ k \in 0..(p - 1) /\ i = g * p + k + 1
  <2>1. PICK n \in Nat : n = i - 1
    BY <1>1
  <2>2. PICK q \in Nat \ {0} : q = p
    BY <1>2
  <2>3. n \div q \in Nat /\ n % q \in 0..(q - 1) /\ n = q * (n \div q) + (n % q)
    OBVIOUS
  <2>4. q * (n \div q) = (n \div q) * q /\ n \div q <= (n \div q) * q
    <3>1. \A a \in Nat, b \in Nat \ {0} : b * a = a * b /\ a <= a * b /\ a * b \in Nat
      OBVIOUS
    <3>2. QED
      BY <2>3, <3>1
  <2>5. g = n \div q /\ k = n % q
    BY <2>1, <2>2 DEF GroupOf, Ordinal
  <2>6. (n \div q) * q \in Nat
    BY <2>3
  <2> HIDE DEF g, k, p
  <2>7. QED
    BY <1>1, <2>1, <2>2, <2>3, <2>4, <2>5, <2>6
<1> HIDE DEF g, k, at, wide, p
<1>8. QED
  BY <1>4, <1>5, <1>6, <1>7 DEF Holds, wide, p

LEMMA NodesHoldTheirInodes ==
  ASSUME volume \in Volumes, nodes \in Seq(Made), nodes # <<>> => Accepted(volume.super)
  PROVE  NodesAreTheirInodes
<1> SUFFICES ASSUME Conforming(volume.super), NEW k \in DOMAIN nodes
             PROVE  \E at \in { x \in DOMAIN volume.table :
                               Holds(volume, x, nodes[k].inode) } :
                      /\ nodes[k].is_dir = (volume.table[at].kind = "dir")
                      /\ nodes[k].size =
                           IF volume.table[at].kind = "dir" THEN 0
                           ELSE volume.table[at].size
                      /\ nodes[k].location # None =>
                           /\ volume.table[at].kind = "reg"
                           /\ nodes[k].location = LocationOf(volume.table[at])
  BY DEF NodesAreTheirInodes
<1>1. nodes # <<>> /\ nodes[k] \in Made
  BY LenProperties, ElementOfSeq
<1>2. PICK i : i = nodes[k].inode
  OBVIOUS
<1>3. i \in Good /\ nodes[k] = Node(nodes[k].name, i, nodes[k].parent)
  BY <1>1, <1>2, MadeFacts
<1>4. PICK at : at = InodeAt(volume, i)
  OBVIOUS
<1>5. at \in DOMAIN volume.table /\ Holds(volume, at, i)
  BY <1>1, <1>3, <1>4, GoodFacts, HeldThere
<1>6. PICK inode : inode = volume.table[at]
  OBVIOUS
<1>7. /\ nodes[k].is_dir = (inode.kind = "dir") /\ nodes[k].size = SizeOf(inode)
      /\ nodes[k].location = IF inode.kind = "reg" THEN LocationOf(inode) ELSE None
  BY <1>3, <1>4, <1>6 DEF Node, InodeOf
<1>8. QED
  BY <1>2, <1>5, <1>6, <1>7 DEF SizeOf

LEMMA TreeMatchesNames == VolumeInv => TreeIsTheNameSpace
<1> SUFFICES ASSUME VolumeInv, result = "Ok", NEW d \in DOMAIN nodes
             PROVE  LET inode == InodeOf(volume, nodes[d].inode)
                        record(p) == BlocksOf(inode)[p[1]][p[2]]
                        inside == { k \in DOMAIN nodes : nodes[k].parent = d }
                        live == { p \in Live(inode) :
                                    Usable(record(p).inode)
                                      => InodeOf(volume, record(p).inode).kind # "device" }
                    IN  IF nodes[d].is_dir /\ Level(d) < MaxDepth
                          THEN /\ Cardinality(inside) = Cardinality(live)
                               /\ \A p \in live : \E k \in inside :
                                    /\ nodes[k].name = record(p).name
                                    /\ nodes[k].inode = record(p).inode
                                    /\ Cardinality({ q \in live : Before(q, p) })
                                         = Cardinality({ j \in inside : j < k })
                          ELSE inside = {}
  BY DEF TreeIsTheNameSpace
<1> DEFINE there == InodeOf(volume, nodes[d].inode)
           record(p) == BlocksOf(there)[p[1]][p[2]]
           inside == { k \in DOMAIN nodes : nodes[k].parent = d }
           live == { p \in Live(there) :
                       Usable(record(p).inode)
                         => InodeOf(volume, record(p).inode).kind # "device" }
<1>1. /\ volume \in Volumes /\ nodes \in Seq(Made) /\ blocks \in Seq(Positions)
      /\ stack = <<>>
  BY CollectedBlocks DEF VolumeInv, TreeInv, TreeTypes, Stages
<1>2. Grown(nodes, <<>>, ListOf, Near(volume), Good, Plain)
  BY <1>1 DEF VolumeInv, TreeInv, TreeGrown
<1>3. DOMAIN nodes = 1..Len(nodes) /\ d \in 1..Len(nodes) /\ nodes[d] \in Made
  BY <1>1, LenProperties, ElementOfSeq
<1>4. inside = InsideOf(nodes, d)
  BY <1>3 DEF InsideOf
<1>5. Level(d) = LevelOf(nodes, d)
  BY DEF Level, LevelOf, LevelIn
<1>6. nodes[d].inode \in Good
  BY <1>3, MadeFacts
<1>7. CASE nodes[d].is_dir /\ Level(d) < MaxDepth
  <2>1. Lists(nodes, d, ListOf[nodes[d].inode], <<>>, Good, Plain)
    <3>1. ~IsOpened(<<>>, d)
      <4>1. Len(<<>>) = 0 /\ \A i \in 1..0 : FALSE
        OBVIOUS
      <4>2. QED
        BY <4>1 DEF IsOpened
    <3>2. IsComplete(nodes, d, ListOf, Good, Plain)
      BY <1>2, <1>3, <1>5, <1>7, <3>1 DEF Grown
    <3>3. QED
      BY <3>2 DEF IsComplete
  <2>2. PICK inode \in Inode : inode = there
    BY <1>1, <1>6, GoodFacts
  <2>3. Lists(nodes, d, read_dir_entries(inode), <<>>, Good, Plain)
    BY <1>1, <1>6, <2>1, <2>2, ListOfFacts
  <2>4. \A p \in Live(inode) : record(p) = RecordAt(inode, p)
    BY <2>2 DEF RecordAt
  <2>5. /\ live \in SUBSET Live(inode)
        /\ \A p \in Live(inode) :
             RecordAt(inode, p).inode \in Good
               => (p \in live <=> RecordAt(inode, p).inode \in Plain)
    <3>1. \A x \in Good : Usable(x) /\ (x \in Plain <=> InodeOf(volume, x).kind # "device")
      BY DEF Good, Plain
    <3> HIDE DEF record, there
    <3>2. live = { p \in Live(inode) :
                     Usable(record(p).inode)
                       => InodeOf(volume, record(p).inode).kind # "device" }
      BY <2>2 DEF there
    <3> HIDE DEF live
    <3>3. QED
      BY <2>4, <3>1, <3>2
  <2>6. PICK alive : alive = live
    OBVIOUS
  <2>7. PICK within : within = InsideOf(nodes, d)
    OBVIOUS
  <2> HIDE DEF live, inside, record, there
  <2>8. /\ Cardinality(within) = Cardinality(alive)
        /\ \A p \in alive : \E k \in within :
             /\ IsOf(nodes[k], RecordAt(inode, p))
             /\ Cardinality({ q \in alive : Before(q, p) })
                  = Cardinality({ j \in within : j < k })
    BY <1>1, <2>3, <2>5, <2>6, <2>7, ListedInOrder
  <2>9. \A p \in alive : \E k \in within :
          /\ nodes[k].name = record(p).name /\ nodes[k].inode = record(p).inode
          /\ Cardinality({ q \in alive : Before(q, p) })
               = Cardinality({ j \in within : j < k })
    BY <2>4, <2>5, <2>6, <2>8 DEF IsOf
  <2>10. /\ Cardinality(inside) = Cardinality(live)
         /\ \A p \in live : \E k \in inside :
              /\ nodes[k].name = record(p).name /\ nodes[k].inode = record(p).inode
              /\ Cardinality({ q \in live : Before(q, p) })
                   = Cardinality({ j \in inside : j < k })
    BY <1>4, <2>6, <2>7, <2>8, <2>9
  <2>11. QED
    BY <1>7, <2>10 DEF live, inside, record, there
<1>8. CASE ~(nodes[d].is_dir /\ Level(d) < MaxDepth)
  <2>1. ASSUME NEW k \in 1..Len(nodes), nodes[k].parent = d PROVE FALSE
    <3>1. NodeFits(nodes, k, Good, Plain, Near(volume))
      BY <1>2 DEF Grown
    <3>2. d # 0
      BY <1>3
    <3>3. nodes[d].is_dir /\ LevelOf(nodes, d) < MaxDepth
      BY <2>1, <3>1, <3>2 DEF NodeFits
    <3>4. QED
      BY <1>5, <1>8, <3>3
  <2>2. inside = {}
    BY <1>3, <2>1
  <2>3. QED
    BY <1>8, <2>2
<1>9. QED
  BY <1>7, <1>8

(* Every node is made from the inode its entry names, for every geometry   *)
(* of a conforming volume; and when the parse succeeds each directory      *)
(* above the limit has a node for each live entry that is no device, in    *)
(* their order, and no other (read_bgd, read_inode, scan_dir_block and     *)
(* build_tree of ext.rs).                                                  *)
THEOREM VolumeIsItsTree == Spec => []TreeIsTheVolume
<1>1. VolumeInv => TreeIsTheVolume
  <2> SUFFICES ASSUME VolumeInv PROVE TreeIsTheVolume
    OBVIOUS
  <2>1. volume \in Volumes /\ nodes \in Seq(Made)
    BY DEF VolumeInv, TreeInv, TreeTypes
  <2>2. nodes # <<>> => Accepted(volume.super)
    BY DEF VolumeInv, TreeInv, Rooted
  <2>3. QED
    BY <2>1, <2>2, NodesHoldTheirInodes, TreeMatchesNames DEF TreeIsTheVolume
<1>2. QED
  BY <1>1, TreeInvariance, PTL

-----------------------------------------------------------------------------
(* The types.  A jump never leads beyond the last position.                *)
LEMMA NotBeyond ==
  ASSUME NEW n \in 0..(Capacity - 1)
  PROVE  PastTree(n) \in 0..Capacity /\ PastGap(n) \in 0..Capacity
<1>1. n \in Nat /\ n < Capacity
  BY Trees
<1>2. PastTree(n) \in 0..Capacity
  BY <1>1, Trees DEF PastTree
<1>3. CASE n < TripleAt
  BY <1>2, <1>3 DEF PastGap
<1>4. CASE ~(n < TripleAt)
  <2>1. PICK m \in Nat : m = n - TripleAt
    BY <1>1, <1>4, Trees
  <2>2. PICK s \in Nat \ {0} : s = Fan * Fan
    BY PointersAssumption
  <2>3. PICK c \in Nat : c = Fan
    BY PointersAssumption
  <2>4. Capacity = TripleAt + c * s /\ m < c * s
    <3>1. Fan * Fan * Fan = c * s
      <4>1. \A x, y \in Nat : (x * y) * x = x * (x * y)
        OBVIOUS
      <4>2. c \in Nat /\ s = c * c
        BY <2>2, <2>3
      <4>3. c * c * c = c * (c * c)
        BY <2>3, <4>1
      <4>4. QED
        BY <2>3, <4>2, <4>3
    <3>2. Capacity = TripleAt + c * s
      BY <3>1 DEF Capacity
    <3>3. c * s \in Nat
      OBVIOUS
    <3>4. QED
      BY <1>1, <2>1, <3>2, <3>3, Trees
  <2>5. PICK q \in Nat : q = m \div s
    OBVIOUS
  <2>6. m % s \in 0..(s - 1) /\ m = s * (m \div s) + (m % s)
    OBVIOUS
  <2>7. q * s <= m /\ q * s \in Nat
    <3>1. s * q = q * s /\ q * s \in Nat
      OBVIOUS
    <3>2. QED
      BY <2>5, <2>6, <3>1
  <2>8. q + 1 <= c
    <3>1. SUFFICES ASSUME c <= q PROVE FALSE
      OBVIOUS
    <3>2. PICK k \in Nat : q = c + k
      <4>1. q - c \in Nat /\ q = c + (q - c)
        BY <3>1
      <4>2. QED
        BY <4>1
    <3>3. q * s = c * s + k * s /\ k * s \in Nat /\ c * s \in Nat
      BY <3>2
    <3>4. QED
      BY <2>4, <2>7, <3>3
  <2>9. q * s + s <= c * s
    <3>1. PICK k \in Nat : c = (q + 1) + k
      <4>1. c - (q + 1) \in Nat /\ c = (q + 1) + (c - (q + 1))
        BY <2>8
      <4>2. QED
        BY <4>1
    <3>2. c * s = q * s + s + k * s /\ k * s \in Nat
      BY <3>1
    <3>3. QED
      BY <2>7, <3>2
  <2>10. PastGap(n) = TripleAt + q * s + s
    BY <1>4, <2>1, <2>2, <2>5 DEF PastGap, Within
  <2>11. PICK x, y \in Nat : x = q * s /\ y = c * s
    BY <2>7
  <2>12. QED
    BY <1>2, <2>4, <2>9, <2>10, <2>11, Trees
<1>5. QED
  BY <1>3, <1>4

PointerTypes ==
  /\ gaps \subseteq Positions /\ absent \subseteq Tables /\ unreadable \subseteq Tables
  /\ needed \in 0..(Capacity + 1)
  /\ position \in 0..Capacity /\ walked \in {"none", "Ok", "Err"}

LEMMA PointerTypesHold ==
  /\ InitPointers => PointerTypes
  /\ PointerTypes /\ [PointersNext]_pointerVars => PointerTypes'
<1>1. ASSUME InitPointers PROVE PointerTypes
  <2>1. \A k, S : \A T \in AtMost(k, S) : T \subseteq S
    BY DEF AtMost, kSubset
  <2>2. gaps \subseteq Positions /\ absent \subseteq Tables /\ unreadable \subseteq Tables
    BY <1>1, <2>1 DEF InitPointers
  <2>3. position \in 0..Capacity /\ needed \in 0..(Capacity + 1) /\ walked = "none"
    BY <1>1, Trees DEF InitPointers
  <2>4. QED
    BY <2>2, <2>3 DEF PointerTypes
<1>2. ASSUME PointerTypes, [PointersNext]_pointerVars PROVE PointerTypes'
  <2>1. ASSUME UNCHANGED pointers, position' \in 0..Capacity,
               walked' \in {"none", "Ok", "Err"}
        PROVE  PointerTypes'
    BY <1>2, <2>1 DEF PointerTypes, pointers, Positions, Tables
  <2>2. position \in 0..Capacity /\ walked \in {"none", "Ok", "Err"} /\ Capacity \in Nat
    BY <1>2, Trees DEF PointerTypes
  <2>3. CASE Finish \/ TableFails
    BY <2>1, <2>2, <2>3 DEF Finish, TableFails
  <2>4. CASE NoTable \/ NoBlock
    <3>1. position \in 0..(Capacity - 1) /\ UNCHANGED <<pointers, walked>>
      BY <2>2, <2>4 DEF NoTable, NoBlock, Walking
    <3>2. position' = PastTree(position) \/ position' = PastGap(position)
      BY <2>4 DEF NoTable, NoBlock
    <3>3. position' \in 0..Capacity
      BY <3>1, <3>2, NotBeyond
    <3>4. QED
      BY <2>1, <2>2, <3>1, <3>3
  <2>5. CASE Collect
    <3>1. /\ position' = position + 1 /\ position < Capacity
          /\ UNCHANGED <<pointers, walked>>
      BY <2>5 DEF Collect, Walking
    <3>2. position' \in 0..Capacity
      BY <2>2, <3>1
    <3>3. QED
      BY <2>1, <2>2, <3>1, <3>2
  <2>6. CASE UNCHANGED pointerVars
    BY <2>1, <2>2, <2>6 DEF pointerVars, pointers
  <2>7. QED
    BY <1>2, <2>3, <2>4, <2>5, <2>6 DEF PointersNext
<1>3. QED
  BY <1>1, <1>2

LEMMA TreeTypesHold == VolumeInv /\ PointerTypes => TypeOK
<1> SUFFICES ASSUME VolumeInv, PointerTypes PROVE TypeOK
  OBVIOUS
<1>1. PointersTypeOK
  BY CollectedBlocks DEF VolumeInv, PointersInv, Behind, PointerTypes, PointersTypeOK
<1>2. ExtentsTypeOK /\ location \in Nat \cup {None}
  BY DEF VolumeInv, ExtentsInv, ExtentsTypeOK
<1>3. /\ volume \in Volumes /\ nodes \in Seq(Made)
      /\ pc \in {"superblock", "entry", "done"} /\ result \in {"none", "Ok", "Err"}
      /\ DOMAIN nodes = 1..Len(nodes) /\ DOMAIN stack = 1..Len(stack)
  BY LenProperties DEF VolumeInv, TreeInv, TreeTypes
<1>4. Grown(nodes, stack, ListOf, Near(volume), Good, Plain)
  BY DEF VolumeInv, TreeInv, TreeGrown
<1>5. ASSUME NEW k \in 1..Len(nodes)
      PROVE  /\ nodes[k].name \in Names /\ nodes[k].parent \in 0..(k - 1)
             /\ nodes[k].location \in Nat \cup {None} /\ Level(k) <= MaxDepth
  <2>1. nodes[k] \in Made
    BY <1>3, ElementOfSeq
  <2>2. PICK i \in Good : nodes[k] = Node(nodes[k].name, i, nodes[k].parent)
    BY <2>1, MadeFacts
  <2>3. PICK inode \in Inode : inode = InodeOf(volume, i)
    BY <1>3, GoodFacts
  <2>4. nodes[k].location = IF inode.kind = "reg" THEN LocationOf(inode) ELSE None
    BY <2>2, <2>3 DEF Node
  <2>5. LocationOf(inode) \in Nat \cup {None}
    BY <1>2 DEF LocationOf, Inode
  <2>6. Level(k) = LevelOf(nodes, k)
    BY DEF Level, LevelOf, LevelIn
  <2>7. LevelOf(nodes, k) \in 0..MaxDepth /\ nodes[k].parent \in 0..(k - 1)
    BY <1>4 DEF Grown, NodeFits, ParentsIn
  <2>8. QED
    BY <2>1, <2>4, <2>5, <2>6, <2>7, MadeFacts, DepthAssumption
<1>6. \A i \in 1..Len(stack) : stack[i].node \in 1..Len(nodes)
  BY <1>4 DEF Grown, IsBeingListed
<1>7. QED
  BY <1>1, <1>2, <1>3, <1>5, <1>6 DEF TypeOK

(* Type correctness of the walks and of the tree they are read into; no    *)
(* node lies deeper than the limit.                                        *)
THEOREM VolumeTypes == Spec => []TypeOK
<1>1. Init => PointerTypes
  BY PointerTypesHold DEF Init
<1>2. PointerTypes /\ [Next]_vars => PointerTypes'
  <2>1. [Next]_vars => [PointersNext]_pointerVars
    BY DEF Next, vars
  <2>2. QED
    BY <2>1, PointerTypesHold
<1>3. Spec => []PointerTypes
  BY <1>1, <1>2, PTL DEF Spec
<1>4. VolumeInv /\ PointerTypes => TypeOK
  BY TreeTypesHold
<1>5. QED
  BY <1>3, <1>4, TreeInvariance, PTL
=============================================================================
