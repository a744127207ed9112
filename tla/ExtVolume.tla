----------------------------- MODULE ExtVolume ------------------------------
(***************************************************************************)
(* The tree of an ext2/3/4 volume (src/formats/ext.rs): the superblock,    *)
(* where the descriptors and inodes are, the entries of a directory's      *)
(* blocks, and the recursion of build_tree as a stack of the directories   *)
(* being listed.  Which blocks a directory has and whether a file has a    *)
(* location is the matter of ExtPointers and ExtExtents: the inodes marked *)
(* Walked take what those two walks come to, the others give both.  What   *)
(* a walk returns depends on nothing else, so the walks are taken first.   *)
(* The tree is the sequence of its nodes in the order they are made, each  *)
(* with the index of the directory it is in.                               *)
(***************************************************************************)
EXTENDS ExtExtents

CONSTANTS
  Volumes,      \* the volumes that are read: see IsVolume
  BaseBlock,    \* the smallest block size: 1024 in the code
  MaxLog,       \* the largest log_block_size: 6
  MinInode,     \* the smallest inode size: 128
  MinDesc,      \* the size of a group descriptor: 32
  WideDesc,     \* the smallest with 64-bit addresses: 64
  MaxDepth,     \* levels of directories that are read: 32
  Names, Dot, DotDot,
  DirBlocks,    \* what is in a walked directory, by its position
  Walked        \* the inode's blocks are those the walks come to

Super ==
  [ magic : BOOLEAN, blocks_count : Nat, first_data_block : Nat,
    log_block_size : Nat, blocks_per_group : Nat, inodes_per_group : Nat,
    rev_level : {0, 1}, inode_size : Nat, bit64 : BOOLEAN, desc_size : Nat ]

(* A record of a directory block: whether its length lets the scan go on,  *)
(* its inode, and its name, which may be empty or not inside the block.    *)
Record == [ holds : BOOLEAN, inode : Nat, fits : BOOLEAN, name : Names ]
(* An inode.  `gone` says which blocks of a directory lie outside the      *)
(* image, by their position in it.                                         *)
Inode ==
  [ kind : {"dir", "reg", "link", "device"}, size : Nat,
    blocks : Seq(Seq(Record)) \cup {Walked}, gone : SUBSET Nat,
    location : Nat \cup {None, Walked} ]

(* `descriptors` and `table` give what is read at an offset of the image:  *)
(* the inode table of a group as a block, and an inode.                    *)
IsVolume(v) ==
  /\ v.base \in Nat /\ v.super \in Super
  /\ DOMAIN v.descriptors \subseteq Nat
  /\ v.descriptors \in [DOMAIN v.descriptors -> Nat]
  /\ DOMAIN v.table \subseteq Nat /\ v.table \in [DOMAIN v.table -> Inode]

ASSUME GeometryAssumption ==
  {BaseBlock, MinInode, MinDesc, WideDesc} \subseteq Nat \ {0}
ASSUME DepthAssumption == MaxLog \in Nat /\ MaxDepth \in Nat
ASSUME NamesAssumption == {Dot, DotDot} \subseteq Names
ASSUME WalkedAssumption ==
  Walked \notin Nat \cup Seq(Seq(Record)) /\ DirBlocks \in [Positions -> Seq(Record)]
ASSUME VolumesAssumption == \A v \in Volumes : IsVolume(v)

VARIABLES
  volume,
  pc,       \* "superblock", "entry" or "done"
  stack,    \* the directories being listed, the innermost last
  nodes,
  result    \* "none" while running, then "Ok" or "Err"

volumeVars == <<volume, pc, stack, nodes, result>>
vars == <<pointerVars, extentVars, volumeVars>>

RootInode == 2

-----------------------------------------------------------------------------
(* read_superblock: what it refuses, and what a volume of the first        *)
(* revision is taken for.                                                  *)
InodeSize(s) ==
  IF s.rev_level = 0 \/ s.inode_size < MinInode THEN MinInode ELSE s.inode_size
BlockSize(s) == BaseBlock * 2 ^ s.log_block_size
Accepted(s) ==
  /\ s.magic /\ s.log_block_size <= MaxLog
  /\ s.blocks_per_group # 0 /\ s.blocks_count # 0 /\ s.inodes_per_group # 0
  /\ InodeSize(s) <= BlockSize(s)

(* desc_size_effective; the mutant trusts the field alone.                 *)
AsStored(s) == s.desc_size
desc_size_effective(s) ==
  IF s.rev_level = 1 /\ s.bit64 /\ s.desc_size >= WideDesc
    THEN s.desc_size ELSE MinDesc
bgd_table_offset(v) ==
  v.base + (v.super.first_data_block + 1) * BlockSize(v.super)

(* read_bgd and read_inode: where the descriptor of an inode's group is,   *)
(* and the inode in the group's table.                                     *)
Ordinal(i) == i - 1
GroupOf(v, i) == Ordinal(i) \div v.super.inodes_per_group
DescriptorAt(v, i) ==
  bgd_table_offset(v) + GroupOf(v, i) * desc_size_effective(v.super)
InodeAt(v, i) ==
  v.base + v.descriptors[DescriptorAt(v, i)] * BlockSize(v.super)
    + (Ordinal(i) % v.super.inodes_per_group) * InodeSize(v.super)
CanRead(v, i) ==
  /\ i # 0
  /\ IF DescriptorAt(v, i) \in DOMAIN v.descriptors
       THEN InodeAt(v, i) \in DOMAIN v.table ELSE FALSE
InodeOf(v, i) == v.table[InodeAt(v, i)]

(* scan_dir_block: up to a record whose length is wrong; what is deleted,  *)
(* has no name, or is the directory or its parent is left out.             *)
IsEntry(r) == r.inode # 0 /\ r.fits /\ r.name \notin {Dot, DotDot}
scan_dir_block(block) ==
  LET bad == { i \in DOMAIN block : ~block[i].holds }
      found == { i \in DOMAIN block : IsEntry(block[i]) /\ \A j \in bad : i < j }
      Nth(k) == CHOOSE i \in found : Cardinality({ j \in found : j <= i }) = k
  IN  [k \in 1..Cardinality(found) |-> block[Nth(k)]]
BlocksOf(inode) ==
  IF inode.blocks = Walked THEN [b \in DOMAIN blocks |-> DirBlocks[blocks[b]]]
  ELSE inode.blocks
LocationOf(inode) ==
  IF inode.location = Walked THEN location ELSE inode.location

(* What reading an inode's content comes to: the walk over its blocks may  *)
(* fail, and so may the reading of any block of a directory.               *)
HasGone(inode) ==
  IF inode.blocks = Walked THEN ToSet(blocks) \cap inode.gone # {}
  ELSE DOMAIN inode.blocks \cap inode.gone # {}
WalksFail(inode) ==
  \/ inode.kind = "dir" /\ inode.blocks = Walked /\ walked = "Err"
  \/ inode.kind = "dir" /\ HasGone(inode)
  \/ inode.kind = "reg" /\ inode.location = Walked /\ located = "Err"
read_dir_entries(inode) ==
  FlattenSeq([b \in DOMAIN BlocksOf(inode) |->
                scan_dir_block(BlocksOf(inode)[b])])

-----------------------------------------------------------------------------
InitVolume ==
  /\ volume \in Volumes
  /\ pc = "superblock" /\ stack = <<>> /\ nodes = <<>> /\ result = "none"

Stop(r) == pc' = "done" /\ result' = r

Frame(node, inode) == [node |-> node, entries |-> read_dir_entries(inode)]

(* A directory is made empty; the total of what is in it is worked out     *)
(* when the tree is complete, as ParsedTree has it.                        *)
SizeOf(inode) == IF inode.kind = "dir" THEN 0 ELSE inode.size
Node(name, i, parent) ==
  LET inode == InodeOf(volume, i)
  IN  [ name |-> name, is_dir |-> inode.kind = "dir", inode |-> i,
        parent |-> parent, size |-> SizeOf(inode),
        location |-> IF inode.kind = "reg" THEN LocationOf(inode) ELSE None ]

Usable(i) ==
  IF CanRead(volume, i) THEN ~WalksFail(InodeOf(volume, i)) ELSE FALSE
HasRoot == IF Accepted(volume.super) THEN Usable(RootInode) ELSE FALSE

BadSuperblock ==
  /\ pc = "superblock" /\ ~HasRoot
  /\ Stop("Err")
  /\ UNCHANGED <<volume, stack, nodes>>

(* The root inode: a device there is no tree, a file is the whole tree.    *)
OpenRoot ==
  /\ pc = "superblock" /\ HasRoot
  /\ LET inode == InodeOf(volume, RootInode)
     IN  IF inode.kind = "device"
           THEN Stop("Err") /\ UNCHANGED <<stack, nodes>>
           ELSE /\ nodes' = << Node(Dot, RootInode, 0) >>
                /\ IF inode.kind = "dir"
                     THEN /\ stack' = << Frame(1, inode) >>
                          /\ pc' = "entry" /\ UNCHANGED result
                     ELSE Stop("Ok") /\ UNCHANGED stack
  /\ UNCHANGED volume

Inside == Last(stack)
Entry == Head(Inside.entries)
Rest == Append(Front(stack), [Inside EXCEPT !.entries = Tail(@)])
Listing == pc = "entry" /\ stack # <<>> /\ Inside.entries # <<>>

TooDeep == Len(stack) > MaxDepth

(* Beyond the limit an entry is dropped before its inode is read.          *)
DropEntry ==
  /\ Listing /\ TooDeep
  /\ stack' = Rest
  /\ UNCHANGED <<volume, pc, nodes, result>>

(* An inode that cannot be read at any level, or whose content cannot,     *)
(* ends the whole parse.  (Mutant: the entry is passed over.)              *)
PassOver ==
  /\ Listing /\ ~TooDeep /\ ~Usable(Entry.inode)
  /\ stack' = Rest
  /\ UNCHANGED <<volume, pc, nodes, result>>
ReadFails ==
  /\ Listing /\ ~TooDeep /\ ~Usable(Entry.inode)
  /\ Stop("Err")
  /\ UNCHANGED <<volume, stack, nodes>>

(* A directory is listed at once, before the entries behind it.            *)
AddEntry ==
  /\ Listing /\ ~TooDeep /\ Usable(Entry.inode)
  /\ LET inode == InodeOf(volume, Entry.inode)
     IN  /\ nodes' = IF inode.kind = "device" THEN nodes
                     ELSE Append(nodes, Node(Entry.name, Entry.inode,
                                             Inside.node))
         /\ stack' = IF inode.kind = "dir"
                       THEN Append(Rest, Frame(Len(nodes) + 1, inode))
                       ELSE Rest
  /\ UNCHANGED <<volume, pc, result>>

Return ==
  /\ pc = "entry" /\ stack # <<>> /\ Inside.entries = <<>>
  /\ stack' = Front(stack)
  /\ IF Len(stack) = 1 THEN Stop("Ok") ELSE UNCHANGED <<pc, result>>
  /\ UNCHANGED <<volume, nodes>>

VolumeNext ==
  BadSuperblock \/ OpenRoot \/ DropEntry \/ ReadFails \/ AddEntry \/ Return

Init == InitPointers /\ InitExtents /\ InitVolume
Next ==
  \/ PointersNext /\ UNCHANGED <<extentVars, volumeVars>>
  \/ walked # "none" /\ ExtentsNext /\ UNCHANGED <<pointerVars, volumeVars>>
  \/ walked # "none" /\ located # "none" /\ VolumeNext
       /\ UNCHANGED <<pointerVars, extentVars>>
Spec == Init /\ [][Next]_vars /\ WF_vars(Next)

-----------------------------------------------------------------------------
Level(k) ==
  LET level[i \in 0..Len(nodes)] ==
        IF i = 0 THEN -1 ELSE 1 + level[nodes[i].parent]
  IN  level[k]

TypeOK ==
  /\ PointersTypeOK /\ ExtentsTypeOK
  /\ pc \in {"superblock", "entry", "done"}
  /\ \A k \in DOMAIN nodes :
       /\ nodes[k].name \in Names /\ nodes[k].parent \in 0..(k - 1)
       /\ nodes[k].location \in Nat \cup {None}
       /\ Level(k) <= MaxDepth
  /\ \A i \in DOMAIN stack : stack[i].node \in DOMAIN nodes
  /\ result \in {"none", "Ok", "Err"}

(* The format: group g has the inodes g * inodes_per_group + 1 and on, its *)
(* descriptor is the g-th behind the superblock's block, and its inodes    *)
(* are one behind the other.  A volume with 64-bit addresses is of the     *)
(* second revision, and its descriptors have room for them.                *)
Conforming(s) == s.bit64 => s.rev_level = 1 /\ s.desc_size >= WideDesc
Holds(v, at, i) ==
  LET s == v.super
  IN  \E g \in 0..i, k \in 0..(s.inodes_per_group - 1) :
        /\ i = g * s.inodes_per_group + k + 1
        /\ LET table == v.base + (s.first_data_block + 1) * BlockSize(s)
                      + g * (IF s.bit64 THEN s.desc_size ELSE MinDesc)
           IN  table \in DOMAIN v.descriptors
                 /\ at = v.base + v.descriptors[table] * BlockSize(s)
                           + k * InodeSize(s)

(* Every node is made from the inode its entry names, for every geometry   *)
(* of the volume and on both sides of a boundary between groups.           *)
NodesAreTheirInodes ==
  Conforming(volume.super) =>
    \A k \in DOMAIN nodes :
      LET found == { at \in DOMAIN volume.table : Holds(volume, at, nodes[k].inode) }
      IN  \E at \in found :
            /\ nodes[k].is_dir = (volume.table[at].kind = "dir")
            /\ nodes[k].size =
                 IF volume.table[at].kind = "dir" THEN 0 ELSE volume.table[at].size
            /\ nodes[k].location # None =>
                 /\ volume.table[at].kind = "reg"
                 /\ nodes[k].location = LocationOf(volume.table[at])

(* The live entries of a directory, as they are written: nothing deleted,  *)
(* nothing behind a broken record of the same block.                       *)
Live(inode) ==
  { p \in UNION { {b} \X DOMAIN BlocksOf(inode)[b] : b \in DOMAIN BlocksOf(inode) } :
      LET block == BlocksOf(inode)[p[1]]
      IN  /\ \A j \in 1..p[2] : block[j].holds
          /\ block[p[2]].inode # 0 /\ block[p[2]].fits
          /\ block[p[2]].name \notin {Dot, DotDot} }
Before(p, q) == p[1] < q[1] \/ (p[1] = q[1] /\ p[2] < q[2])

(* When the parse succeeds, the tree is the volume's name space down to    *)
(* the limit: every directory above it has a node for each live entry that *)
(* is no device, in the order of its blocks and under its name, and no     *)
(* other; at the limit it has none.                                        *)
TreeIsTheNameSpace ==
  result = "Ok" =>
    \A d \in DOMAIN nodes :
      LET inode == InodeOf(volume, nodes[d].inode)
          record(p) == BlocksOf(inode)[p[1]][p[2]]
          inside == { k \in DOMAIN nodes : nodes[k].parent = d }
          live == { p \in Live(inode) :
                      Usable(record(p).inode)
                        => InodeOf(volume, record(p).inode).kind # "device" }
      IN  IF nodes[d].is_dir /\ Level(d) < MaxDepth
            THEN /\ Cardinality(inside) = Cardinality(live)
                 /\ \A p \in live : \E k \in inside :
                      /\ nodes[k].name = record(p).name
                      /\ nodes[k].inode = record(p).inode
                      /\ Cardinality({ q \in live : Before(q, p) })
                           = Cardinality({ j \in inside : j < k })
            ELSE inside = {}

(* Both: what is in the tree, and what each node says of itself.           *)
TreeIsTheVolume == NodesAreTheirInodes /\ TreeIsTheNameSpace

(* The parse is all or nothing: it fails, if the superblock is good and    *)
(* the root is no device, exactly when an entry above the limit names an   *)
(* inode outside the image, a directory whose blocks or the tables of them *)
(* are not all inside it, or a file whose extent tree is not (ext.rs:636,  *)
(* 639, 646, 648, 680, 735).                                               *)
Named(v, above) ==
  UNION { { BlocksOf(InodeOf(v, i))[p[1]][p[2]].inode : p \in Live(InodeOf(v, i)) } :
          i \in { j \in above :
                    IF Usable(j) THEN InodeOf(v, j).kind = "dir" ELSE FALSE } }
Near(v) ==
  LET upto[n \in 0..MaxDepth] ==
        IF n = 0 THEN {RootInode}
        ELSE LET above == upto[n - 1] IN above \cup Named(v, above)
  IN  upto
Reachable(v) == Near(v)[MaxDepth]
AllOrNothing ==
  (result # "none" /\ Accepted(volume.super)) =>
    (result = "Ok" <=>
       /\ \A i \in Reachable(volume) : Usable(i)
       /\ InodeOf(volume, RootInode).kind # "device")

=============================================================================
