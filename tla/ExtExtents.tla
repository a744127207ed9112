----------------------------- MODULE ExtExtents -----------------------------
(***************************************************************************)
(* collect_extents and single_run_location of the ext reader               *)
(* (src/formats/ext.rs): the walk over the extent tree of an inode and the *)
(* decision whether the file lies in one run of the image.  The recursion  *)
(* is the path to the node being read.  What the file's blocks really are, *)
(* by the on-disk format, is `file`; the tree may be damaged.              *)
(***************************************************************************)
EXTENDS ExtPointers

CONSTANTS
  Inputs,    \* the inodes that are read: see IsInput
  RootNode,      \* the node in the inode itself
  Outside,   \* a block number that is not in the image
  MaxLevels,  \* levels below the root that are read: 5 in the code
  Top        \* the highest bit of an extent's length field: 2^15

(* An extent maps `len` blocks of the file from `at` on to the blocks of   *)
(* the image from `phys` on.  The reader does not look at `at`; `field` is *)
(* its length as it is stored.                                             *)
Extent == [at : Nat, phys : Nat, field : 0..(2 * Top - 1)]

(* The format: fields up to and including Top are lengths of extents in    *)
(* use, those above have Top added to mark the extent as unwritten.        *)
RealLen(e) == IF e.field <= Top THEN e.field ELSE e.field - Top
RealUnwritten(e) == e.field > Top
Blocks(e) == e.at .. (e.at + RealLen(e) - 1)

(* A node has a header, whose magic may be wrong, and then extents (depth  *)
(* 0) or the blocks of its children.                                       *)
ExtentNode(Ids) ==
  [ magic : BOOLEAN, depth : Nat, extents : Seq(Extent),
    kids : Seq(Ids \cup {Outside}) ]

(* The file system keeps no data beyond the end of a file, and a tree,     *)
(* damaged or not, holds no extents but the file's.                        *)
IsInput(i) ==
  /\ i.needed \in Nat
  /\ {i.inline, i.uses_extents} \subseteq BOOLEAN
  /\ i.i_block \in [1..Direct -> Nat]
  /\ i.file \in Seq(Extent)
  /\ \A e \in ToSet(i.file) :
       RealUnwritten(e) \/ Blocks(e) \subseteq 0..(i.needed - 1)
  /\ RootNode \in DOMAIN i.nodes /\ Outside \notin DOMAIN i.nodes
  /\ \A b \in DOMAIN i.nodes :
       /\ i.nodes[b] \in ExtentNode(DOMAIN i.nodes)
       /\ ToSet(i.nodes[b].extents) \subseteq ToSet(i.file)

ASSUME LimitsAssumption ==
  MaxLevels \in Nat /\ Top \in Nat \ {0}
ASSUME InputsAssumption == \A i \in Inputs : IsInput(i)

VARIABLES
  input,
  path,      \* the nodes being read, each with the child that is next
  extents,    \* the extents collected, as the reader decodes them
  location,   \* the block single_run_location returns, or None
  located      \* "none" while running, then "Ok" or "Err"

extentVars == <<input, path, extents, location, located>>

Step(b) == [node |-> b, next |-> 1]
InitExtents ==
  /\ input \in Inputs
  /\ path = IF input.needed = 0 \/ input.inline \/ ~input.uses_extents
               THEN <<>> ELSE << Step(RootNode) >>
  /\ extents = <<>> /\ location = None /\ located = "none"

-----------------------------------------------------------------------------
(* parse_leaf_extents: ee_len & 0x8000 and ee_len & 0x7FFF.                *)
Decode(e) ==
  IF e.field >= Top
    THEN [phys |-> e.phys, len |-> e.field - Top, unwritten |-> TRUE]
    ELSE [phys |-> e.phys, len |-> e.field, unwritten |-> FALSE]

TopNode == input.nodes[Last(path).node]
(* (Mutant: one level less than the limit.)                                *)
OneLevelLess == MaxLevels - Len(path)
Remaining == MaxLevels - (Len(path) - 1)

Reading == located = "none" /\ path # <<>>

(* A header with the wrong magic, or a node that is too deep, counts as    *)
(* empty.                                                                  *)
HasMagic == TopNode.magic
Readable == HasMagic /\ (TopNode.depth = 0 \/ Remaining > 0)

SkipNode ==
  /\ Reading /\ ~Readable
  /\ path' = Front(path)
  /\ UNCHANGED <<input, extents, location, located>>

Leaf ==
  /\ Reading /\ Readable /\ TopNode.depth = 0
  /\ extents' = extents \o [i \in DOMAIN TopNode.extents |->
                              Decode(TopNode.extents[i])]
  /\ path' = Front(path)
  /\ UNCHANGED <<input, location, located>>

Inner == Reading /\ Readable /\ TopNode.depth > 0
Child == TopNode.kids[Last(path).next]
Stepped == [path EXCEPT ![Len(path)].next = @ + 1]

Descend ==
  /\ Inner /\ Last(path).next <= Len(TopNode.kids) /\ Child # Outside
  /\ path' = Append(Stepped, Step(Child))
  /\ UNCHANGED <<input, extents, location, located>>

ChildFails ==
  /\ Inner /\ Last(path).next <= Len(TopNode.kids) /\ Child = Outside
  /\ located' = "Err"
  /\ UNCHANGED <<input, path, extents, location>>

Ascend ==
  /\ Inner /\ Last(path).next > Len(TopNode.kids)
  /\ path' = Front(path)
  /\ UNCHANGED <<input, extents, location, located>>

(* single_run_location: one extent, in use, as long as the file.           *)
(* (Mutant: the length is not compared.)                                   *)
AnyLength ==
  IF Len(extents) = 1 /\ ~extents[1].unwritten THEN extents[1].phys ELSE None
SingleRun ==
  IF Len(extents) = 1 /\ ~extents[1].unwritten
                      /\ extents[1].len >= input.needed
    THEN extents[1].phys ELSE None

(* Without extents: the file has direct pointers only, and they count up   *)
(* from the first.                                                         *)
CountsUpTo(n) ==
  \A i \in 2..n : input.i_block[i] = input.i_block[1] + (i - 1)
CountsUp == CountsUpTo(input.needed)
DirectRun ==
  IF input.needed <= Direct /\ input.i_block[1] # 0 /\ CountsUp
    THEN input.i_block[1] ELSE None

Locate ==
  /\ located = "none" /\ path = <<>>
  /\ location' = IF input.needed = 0 \/ input.inline THEN None
                 ELSE IF input.uses_extents THEN SingleRun ELSE DirectRun
  /\ located' = "Ok"
  /\ UNCHANGED <<input, path, extents>>

ExtentsNext == SkipNode \/ Leaf \/ Descend \/ ChildFails \/ Ascend \/ Locate
ExtentsSpec == InitExtents /\ [][ExtentsNext]_extentVars /\ WF_extentVars(ExtentsNext)

-----------------------------------------------------------------------------
Decoded == [phys : Nat, len : 0..(Top - 1), unwritten : BOOLEAN]
ExtentsTypeOK ==
  /\ input \in Inputs
  /\ path \in Seq([node : DOMAIN input.nodes, next : Nat \ {0}])
  /\ extents \in Seq(Decoded)
  /\ location \in Nat \cup {None}
  /\ located \in {"none", "Ok", "Err"}

(* A block of the file is in the image where an extent of it says, and has *)
(* data unless that extent is unwritten or there is none (a hole).         *)
HasDataAt(n, p) ==
  IF input.uses_extents
    THEN \E e \in ToSet(input.file) :
           n \in Blocks(e) /\ ~RealUnwritten(e) /\ p = e.phys + (n - e.at)
    ELSE n < Direct /\ input.i_block[n + 1] = p /\ p # 0

(* What file_location promises (src/formats/ext.rs:28): if a location is   *)
(* returned, every block of the file is data, and in the image one behind  *)
(* the other from there on, although the reader never looks at where in    *)
(* the file an extent goes and takes parts of a damaged tree for empty.    *)
LocatedDataIsTheFiles ==
  location # None =>
    \A n \in 0..(input.needed - 1) : HasDataAt(n, location + n)

(* The extents in the leaves of a tree, from left to right.                *)
LeavesInOrder ==
  LET under[levels \in 0..MaxLevels] ==
        [ id \in DOMAIN input.nodes |->
            LET n == input.nodes[id]
            IN  IF n.depth = 0 \/ levels = 0 THEN n.extents
                ELSE FlattenSeq([k \in DOMAIN n.kids |->
                                   under[levels - 1][n.kids[k]]]) ]
  IN  under[MaxLevels][RootNode]

(* Of a healthy tree, no deeper than the limit, every extent is collected, *)
(* in the order of the leaves: no child is left out or read twice when the *)
(* reader comes back from the child before it.                             *)
Healthy ==
  /\ \A id \in DOMAIN input.nodes :
       /\ input.nodes[id].magic
       /\ \A k \in ToSet(input.nodes[id].kids) :
            k # Outside /\ input.nodes[k].depth = input.nodes[id].depth - 1
  /\ input.nodes[RootNode].depth <= MaxLevels
ReadsHealthyTrees ==
  (Healthy /\ located # "none" /\ input.uses_extents
     /\ ~input.inline /\ input.needed > 0) =>
    /\ located = "Ok"
    /\ extents = [i \in DOMAIN LeavesInOrder |-> Decode(LeavesInOrder[i])]

(* A tree that contains itself is left at the limit of depth: never more   *)
(* nodes are open than the limit allows.                                   *)
DepthIsLimited == Len(path) <= MaxLevels + 1

=============================================================================
