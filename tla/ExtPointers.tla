---------------------------- MODULE ExtPointers -----------------------------
(***************************************************************************)
(* collect_classical_blocks of the ext reader (src/formats/ext.rs): the    *)
(* walk over the block pointers of an inode that has no extents.  The      *)
(* inode has direct pointers and three trees of pointer blocks, one, two   *)
(* and three deep.  Every place for a data block has a number, its         *)
(* position in the file; the walk goes from position to position, and a    *)
(* missing pointer makes it jump ahead.  A data block is known by its      *)
(* position, a pointer block by its depth and the first position below it. *)
(***************************************************************************)
EXTENDS Integers, Sequences, FiniteSets, SequencesExt

CONSTANTS
  Direct,   \* direct pointers of an inode without extents: 12 in the code
  None,     \* no location
  Fan,      \* pointers in a block: the block size divided by 4
  MaxGaps,  \* bound of the inputs: blocks missing or unreadable, of all kinds
  MaxAbsent \* bound of the inputs: pointer blocks missing, and unreadable

ASSUME InodeAssumption == Direct \in Nat \ {0} /\ None \notin Nat
ASSUME PointersAssumption == Fan \in Nat \ {0}
ASSUME GapsAssumption == MaxGaps \in Nat /\ MaxAbsent \in Nat

SingleAt == Direct
DoubleAt == SingleAt + Fan
TripleAt == DoubleAt + Fan * Fan
Capacity == TripleAt + Fan * Fan * Fan

(* The pointer blocks over a position, the outermost first.                *)
Table(depth, first) == [depth |-> depth, first |-> first]
Within(n, from, span) == from + ((n - from) \div span) * span
TablesOver(n) ==
  IF n < SingleAt THEN <<>>
  ELSE IF n < DoubleAt THEN << Table(1, SingleAt) >>
  ELSE IF n < TripleAt
    THEN << Table(2, DoubleAt), Table(1, Within(n, DoubleAt, Fan)) >>
  ELSE << Table(3, TripleAt), Table(2, Within(n, TripleAt, Fan * Fan)),
          Table(1, Within(n, TripleAt, Fan)) >>
Positions == 0..(Capacity - 1)
Tables == UNION { ToSet(TablesOver(n)) : n \in Positions }

VARIABLES
  gaps,        \* the positions whose pointer is zero
  absent,      \* the pointer blocks whose pointer is zero
  unreadable,  \* the pointer blocks that are not inside the image
  needed,      \* the size of the file in blocks
  blocks,      \* the blocks collected
  position,    \* the position the walk has come to
  walked       \* "none" while walking, then "Ok" or "Err"

pointers == <<gaps, absent, unreadable, needed>>
pointerVars == <<gaps, absent, unreadable, needed, blocks, position, walked>>

(* `size` may also be larger than the pointers can map.                    *)
AtMost(k, S) == UNION { kSubset(i, S) : i \in 0..k }
InitPointers ==
  /\ absent \in AtMost(MaxAbsent, Tables)
  /\ unreadable \in AtMost(MaxAbsent - Cardinality(absent), Tables)
  /\ gaps \in AtMost(MaxGaps - Cardinality(absent \cup unreadable), Positions)
  /\ needed \in 0..(Capacity + 1)
  /\ blocks = <<>> /\ position = 0 /\ walked = "none"

-----------------------------------------------------------------------------
(* (Mutant: one block short of the size.)                                  *)
OneShort == Len(blocks) + 1 >= needed
Covered == Len(blocks) >= needed

(* The pointer blocks read on coming to a position: those that begin here  *)
(* and hang off present ones.                                              *)
Entered(n) ==
  { t \in ToSet(TablesOver(n)) :
      /\ t.first = n
      /\ \A u \in ToSet(TablesOver(n)) : u.depth >= t.depth => u \notin absent }
HasTables(n) == ToSet(TablesOver(n)) \cap absent = {}

(* Where a missing pointer block leads: past the tree it is in.            *)
PastTree(n) ==
  IF n < SingleAt THEN SingleAt
  ELSE IF n < DoubleAt THEN DoubleAt
  ELSE IF n < TripleAt THEN TripleAt
  ELSE Capacity

(* Where a missing data block leads: past the tree, but in the triple tree *)
(* only past the block of depth two (the break is to 'ti_middle).          *)
(* (Mutant: the triple tree is left as well.)                              *)
TripleIsLeft(n) == PastTree(n)
PastGap(n) ==
  IF n < TripleAt THEN PastTree(n)
  ELSE Within(n, TripleAt, Fan * Fan) + Fan * Fan

Finish ==
  /\ walked = "none"
  /\ Covered \/ position >= Capacity
  /\ walked' = "Ok"
  /\ UNCHANGED <<pointers, blocks, position>>

TableFails ==
  /\ walked = "none" /\ ~Covered /\ position < Capacity
  /\ Entered(position) \cap unreadable # {}
  /\ walked' = "Err"
  /\ UNCHANGED <<pointers, blocks, position>>

Walking ==
  /\ walked = "none" /\ ~Covered /\ position < Capacity
  /\ Entered(position) \cap unreadable = {}

NoTable ==
  /\ Walking /\ ~HasTables(position)
  /\ position' = PastTree(position)
  /\ UNCHANGED <<pointers, blocks, walked>>

NoBlock ==
  /\ Walking /\ HasTables(position) /\ position \in gaps
  /\ position' = PastGap(position)
  /\ UNCHANGED <<pointers, blocks, walked>>

(* (Mutant: the data block's own pointer is not tested.)                   *)
CollectAnything ==
  /\ Walking /\ HasTables(position)
  /\ blocks' = Append(blocks, position)
  /\ position' = position + 1
  /\ UNCHANGED <<pointers, walked>>
Collect ==
  /\ Walking /\ HasTables(position) /\ position \notin gaps
  /\ blocks' = Append(blocks, position)
  /\ position' = position + 1
  /\ UNCHANGED <<pointers, walked>>

PointersNext == Finish \/ TableFails \/ NoTable \/ NoBlock \/ Collect
PointersSpec == InitPointers /\ [][PointersNext]_pointerVars /\ WF_pointerVars(PointersNext)

-----------------------------------------------------------------------------
Mapped(n) == n \notin gaps /\ HasTables(n)

PointersTypeOK ==
  /\ gaps \subseteq Positions /\ absent \subseteq Tables
  /\ unreadable \subseteq Tables /\ needed \in 0..(Capacity + 1)
  /\ blocks \in Seq(Positions) /\ Len(blocks) <= needed
  /\ position \in 0..Capacity /\ walked \in {"none", "Ok", "Err"}

(* "In logical order": each block collected is one the file has, and comes *)
(* behind those before it; none is collected twice, whatever is missing.   *)
InLogicalOrder ==
  /\ \A i \in 1..Len(blocks) : blocks[i] \in Positions /\ Mapped(blocks[i])
  /\ \A i \in 1..(Len(blocks) - 1) : blocks[i] < blocks[i + 1]

(* A directory without gaps is read in full: up to the first missing       *)
(* pointer, every block of the file is collected at its own index, and on  *)
(* `Ok` there are no more and no fewer than the size asks for.  A gap      *)
(* costs what shares its tree and no more: when a block the file has was   *)
(* left out although the size was not reached, a missing pointer comes     *)
(* before it in the direct pointers or the tree it is in; in the triple    *)
(* tree a missing data block costs only its block of depth two.            *)
CompleteUpToAGap ==
  walked = "Ok" =>
    \A n \in 0..(needed - 1) :
      (n < Capacity /\ \A m \in 0..n : Mapped(m))
         => Len(blocks) > n /\ blocks[n + 1] = n
Tree(n) == Len(TablesOver(n))
Hides(m, n) ==
  /\ m < n /\ ~Mapped(m) /\ Tree(m) = Tree(n)
  /\ (Tree(m) = 3 /\ HasTables(m)) => TablesOver(m)[2] = TablesOver(n)[2]
GapsAreLocal ==
  (walked = "Ok" /\ Len(blocks) < needed) =>
    \A n \in Positions :
      (Mapped(n) /\ n \notin ToSet(blocks)) => \E m \in Positions : Hides(m, n)
ReadsUpToGaps == Len(blocks) <= needed /\ CompleteUpToAGap /\ GapsAreLocal

=============================================================================
