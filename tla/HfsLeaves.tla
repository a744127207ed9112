----------------------------- MODULE HfsLeaves ------------------------------
(***************************************************************************)
(* The first half of `detect_and_parse` of src/formats/hfsplus.rs: the     *)
(* volume header, node 0 of the catalog's B-tree, and the walk along the   *)
(* forward links of its leaf nodes, one iteration of the loop a step here. *)
(* The catalog's records (`CatalogRecord`) come first: the list of them is *)
(* handed to the second half, the construction of the tree (HfsTree).      *)
(***************************************************************************)
EXTENDS Naturals, Sequences, FiniteSets, SequencesExt

CONSTANTS
  Cnid,       \* the catalog node IDs that occur, Root and NoParent included
  Root,       \* HFS_ROOT_FOLDER_CNID
  NoParent,   \* the parent the root folder is indexed with: CNID 0
  Name,       \* the names that occur
  MaxExtents, \* the extents a fork has room for: 8 in the code
  NoValue     \* `None`

ASSUME CnidAssumption == {Root, NoParent} \subseteq Cnid /\ Root # NoParent
ASSUME ExtentsAssumption == MaxExtents \in Nat \ {0}
ASSUME NoValueAssumption == NoValue \notin Nat

VARIABLES
  pc,         \* "header", "node0", "leaf", "index", "folders", "files", "done"
  records     \* what the leaf nodes list, in the order they are read

(* An extent of no blocks stands for one that is not used.                 *)
Fork ==
  [ logical_size : Nat, total_blocks : Nat,
    extents : [1..MaxExtents -> [start : Nat, count : Nat]] ]

FolderRecord(parent, name, cnid) ==
  [kind |-> "folder", parent_cnid |-> parent, name |-> name, cnid |-> cnid]
FileRecord(parent, name, length, location) ==
  [kind |-> "file", parent_cnid |-> parent, name |-> name,
   file_length |-> length, file_location |-> location]
Thread == [kind |-> "thread"]

CatalogRecord ==
  [kind : {"folder"}, parent_cnid : Cnid, name : Name, cnid : Cnid]
    \cup [kind : {"file"}, parent_cnid : Cnid, name : Name,
          file_length : Nat, file_location : Nat \cup {NoValue}]
    \cup {Thread}

-----------------------------------------------------------------------------
CONSTANTS
  Volumes,      \* the images that are parsed
  MinNode,      \* the smallest size of a node: 512
  W32           \* `max_nodes` and `visited` are u32: below 2^32

VARIABLES
  volume,       \* the image
  first_leaf,   \* the node that is read next
  visited,      \* the iterations of the loop
  error         \* "none", or what the call returned

leafVars == <<volume, first_leaf, visited, error>>

(* What a node holds: a record of the catalog, or one that is cut off or   *)
(* of no type the reader knows.                                            *)
Item ==
  [ type : {"folder", "file", "thread", "unknown"}, whole : BOOLEAN,
    parent_cnid : Cnid, name : Name, cnid : Cnid, fork : Fork ]
BTreeNode ==
  [ kind : {"leaf", "other"}, f_link : Nat, items : Seq(Item) ]
HeaderNode ==
  [ kind : {"header", "other"}, num_records : Nat, node_size : Nat,
    first_leaf_node : Nat ]

(* An image that is readable up to `length` may also be cut off before the *)
(* volume header's end.  `nodes` is what begins at an offset; where nothing *)
(* of the catalog does, other data is.                                     *)
IsVolume(v) ==
  /\ v.short \in BOOLEAN /\ v.faulty \in BOOLEAN
  /\ v.signature \in {"HFS+", "HFSX", "other"} /\ v.version \in Nat
  /\ v.block_size \in Nat /\ v.length \in Nat
  /\ v.cat_file \in Fork /\ v.header \in HeaderNode
  /\ \A offset \in DOMAIN v.nodes :
       offset \in Nat /\ v.nodes[offset] \in BTreeNode
ASSUME VolumesAssumption == \A v \in Volumes : IsVolume(v)
ASSUME MinNodeAssumption == {MinNode, W32} \subseteq Nat \ {0}

OtherData == [kind |-> "other", f_link |-> 0, items |-> <<>>]
NodeAt(offset) ==
  IF offset \in DOMAIN volume.nodes THEN volume.nodes[offset] ELSE OtherData

InitLeaves ==
  /\ volume \in Volumes
  /\ pc = "header" /\ records = <<>>
  /\ first_leaf = 0 /\ visited = 0
  /\ error = "none"

Fail(reason) ==
  /\ pc' = "done" /\ error' = reason
  /\ UNCHANGED <<volume, first_leaf, visited, records>>

-----------------------------------------------------------------------------
(* ForkData.  The mutant takes the first extent for the whole fork.        *)
first_extent_offset(fork) ==
  IF fork.extents[1].count = 0 THEN NoValue
                               ELSE fork.extents[1].start * volume.block_size
AnyFork(fork) == fork.total_blocks # 0
is_single_extent(fork) ==
  /\ fork.total_blocks # 0
  /\ fork.extents[1].count = fork.total_blocks
  /\ \A i \in 2..MaxExtents : fork.extents[i].count = 0

(* VolumeHeader::from_bytes.                                               *)
HeaderError ==
  CASE volume.short                              -> "TooShort"
    [] volume.signature = "other"                -> "BadMagic"
    [] volume.version \notin {4, 5}              -> "BadVersion"
    [] OTHER                                     -> "none"
BadHeader == pc = "header" /\ HeaderError # "none" /\ Fail(HeaderError)

CatOffset == first_extent_offset(volume.cat_file)

(* A catalog without a first extent lists nothing.                         *)
ParseHeader ==
  /\ pc = "header" /\ HeaderError = "none"
  /\ pc' = IF CatOffset = NoValue THEN "index" ELSE "node0"
  /\ UNCHANGED <<leafVars, records>>

(* The fixed part of node 0, taken here for as long as the smallest node.  *)
Node0Error ==
  CASE CatOffset + MinNode > volume.length      -> "TooShort"
    [] volume.header.kind # "header"            -> "BadCatalog"
    [] volume.header.num_records < 1            -> "TooShort"
    [] volume.header.node_size < MinNode        -> "BadCatalog"
    [] OTHER                                    -> "none"
BadNode0 == pc = "node0" /\ Node0Error # "none" /\ Fail(Node0Error)
ReadNode0 ==
  /\ pc = "node0" /\ Node0Error = "none"
  /\ first_leaf' = volume.header.first_leaf_node
  /\ pc' = IF first_leaf' = 0 THEN "index" ELSE "leaf"
  /\ UNCHANGED <<volume, visited, error, records>>

-----------------------------------------------------------------------------
(* parse_leaf_node_records: what is cut off or unknown is skipped.         *)
Listed(item) == item.whole /\ item.type # "unknown"
RecordOf(item) ==
  CASE item.type = "folder" ->
         FolderRecord(item.parent_cnid, item.name, item.cnid)
    [] item.type = "file" ->
         FileRecord(item.parent_cnid, item.name, item.fork.logical_size,
                    IF is_single_extent(item.fork)
                      THEN first_extent_offset(item.fork) ELSE NoValue)
    [] OTHER -> Thread
RecordsOf(node) ==
  LET listed[i \in 0..Len(node.items)] ==
        IF i = 0 THEN <<>>
        ELSE LET before == listed[i - 1]
                 item == node.items[i]
             IN  IF Listed(item) THEN Append(before, RecordOf(item)) ELSE before
  IN  listed[Len(node.items)]

NodeSize == volume.header.node_size
NodesInFile == volume.cat_file.logical_size \div NodeSize
(* The sum wraps, as it does where overflow is not checked.                *)
MaxNodes ==
  IF NodesInFile >= W32 - 1 THEN 0 ELSE NodesInFile + 1
NodeOffset == CatOffset + first_leaf * NodeSize
CanRead == visited <= MaxNodes /\ NodeOffset + NodeSize <= volume.length

TooDeep == pc = "leaf" /\ visited > MaxNodes /\ Fail("TooDeep")

(* The loop goes on at the forward link and ends at a link to node 0.      *)
Uncounted == visited                               \* mutant
Counted == visited + 1
Follow(node) ==
  /\ visited' = Counted
  /\ IF node.f_link = 0 THEN pc' = "index" /\ UNCHANGED first_leaf
                        ELSE first_leaf' = node.f_link /\ UNCHANGED pc

ReadLeaf ==
  /\ pc = "leaf" /\ CanRead
  /\ NodeAt(NodeOffset).kind = "leaf"
  /\ records' = records \o RecordsOf(NodeAt(NodeOffset))
  /\ Follow(NodeAt(NodeOffset))
  /\ UNCHANGED <<volume, error>>

(* Mutant: a node that is no leaf ends the walk.                           *)
EndsThere ==
  /\ pc = "leaf" /\ CanRead
  /\ NodeAt(NodeOffset).kind # "leaf"
  /\ visited' = Counted /\ pc' = "index"
  /\ UNCHANGED <<volume, first_leaf, error, records>>
SkipNode ==
  /\ pc = "leaf" /\ CanRead
  /\ NodeAt(NodeOffset).kind # "leaf"
  /\ Follow(NodeAt(NodeOffset))
  /\ UNCHANGED <<volume, error, records>>

(* The loop has counted the node it fails to read.                         *)
LeafFails(reason) ==
  /\ pc' = "done" /\ error' = reason /\ visited' = Counted
  /\ UNCHANGED <<volume, first_leaf, records>>
EndOfImage ==
  /\ pc = "leaf" /\ visited <= MaxNodes
  /\ NodeOffset + NodeSize > volume.length
  /\ LeafFails("TooShort")
ReadFails ==
  /\ volume.faulty
  /\ \/ pc \in {"header", "node0"} /\ Fail("Io")
     \/ pc = "leaf" /\ visited <= MaxNodes /\ LeafFails("Io")

LeavesNext ==
  \/ BadHeader \/ ParseHeader \/ BadNode0 \/ ReadNode0
  \/ TooDeep \/ ReadLeaf \/ SkipNode \/ EndOfImage \/ ReadFails

-----------------------------------------------------------------------------
LeavesTypeOK ==
  /\ volume \in Volumes
  /\ records \in Seq(CatalogRecord)
  /\ first_leaf \in Nat /\ visited \in Nat
  /\ error \in {"none", "TooShort", "BadMagic", "BadVersion", "BadCatalog",
                "TooDeep", "Io"}

(* The nodes of the catalog file by their number, as its one extent holds  *)
(* them, those the links lead through from the first leaf on, and what     *)
(* the first k of those list.                                              *)
FileNodes == 1..(NodesInFile - 1)
FileNode(n) == NodeAt(CatOffset + n * NodeSize)
Listing(n) ==
  IF FileNode(n).kind = "leaf" THEN RecordsOf(FileNode(n)) ELSE <<>>
Chain ==
  LET from[k \in 0..Cardinality(FileNodes)] ==
        IF k = 0 THEN volume.header.first_leaf_node
        ELSE LET node == from[k - 1]
             IN  IF node \in FileNodes THEN FileNode(node).f_link ELSE node
  IN  from
ListedBy ==
  LET first[k \in 0..Cardinality(FileNodes)] ==
        IF k = 0 THEN <<>> ELSE first[k - 1] \o Listing(Chain[k - 1])
  IN  first
LastLink == { k \in DOMAIN Chain : Chain[k] = 0 }

(* The catalog as a volume keeps it that is not damaged: in one extent on  *)
(* the image, its leaf nodes linked to a list that ends.  (One of 2^32 - 1 *)
(* nodes, 2 TB at least, is too large: the limit of the walk wraps to 0.)  *)
IsWhole ==
  /\ HeaderError = "none" /\ CatOffset # NoValue /\ Node0Error = "none"
  /\ is_single_extent(volume.cat_file) /\ NodesInFile < W32 - 1
  /\ CatOffset + volume.cat_file.logical_size <= volume.length
  /\ LastLink # {}

(* Such a catalog is listed from the first record to the last, in order    *)
(* and none twice, and never taken for too deep, however many leaves it    *)
(* has and wherever its nodes lie; only the image can fail.  Of a damaged  *)
(* one the walk is given up when it has read more nodes than there are.    *)
ListsTheCatalog ==
  /\ IsWhole =>
       LET last == CHOOSE k \in LastLink : \A j \in LastLink : k <= j
           all == ListedBy[last]
       IN  /\ IsPrefix(records, all)
           /\ pc \notin {"header", "node0", "leaf"} /\ error = "none"
                => records = all
           /\ error \in {"none", "Io"}
  /\ pc = "leaf" => visited <= NodesInFile + 2

(* The n-th block of a fork, NoValue when the volume keeps the extent that *)
(* has it outside the catalog.                                             *)
BlockAt(fork, n) ==
  LET before[i \in 1..(MaxExtents + 1)] ==
        IF i = 1 THEN 0 ELSE before[i - 1] + fork.extents[i - 1].count
      of == { i \in 1..MaxExtents : before[i] <= n /\ n < before[i + 1] }
  IN  IF of = {} THEN NoValue
      ELSE LET i == CHOOSE i \in of : TRUE
           IN  fork.extents[i].start + (n - before[i])
OneRun(fork) ==
  /\ fork.total_blocks # 0 /\ BlockAt(fork, 0) # NoValue
  /\ \A n \in 0..(fork.total_blocks - 1) :
       BlockAt(fork, n) = BlockAt(fork, 0) + n
(* As a volume stores a fork: in as few extents as it takes.               *)
IsTight(fork) ==
  /\ \A i \in 2..MaxExtents :
       fork.extents[i].count # 0 =>
         /\ fork.extents[i - 1].count # 0
         /\ fork.extents[i].start
              # fork.extents[i - 1].start + fork.extents[i - 1].count
  /\ BlockAt(fork, fork.total_blocks) = NoValue

(* A location is given to a file only if all blocks of its data follow the *)
(* one it leads to, those counted too that only the overflow file of the   *)
(* volume knows of; it is given to every file of one run that is stored as *)
(* volumes do.                                                             *)
FilesAreLocated ==
  \A r \in { records[i] : i \in DOMAIN records } :
    r.kind = "file" =>
      \E offset \in DOMAIN volume.nodes :
        \E i \in DOMAIN volume.nodes[offset].items :
          LET item == volume.nodes[offset].items[i]
          IN  /\ <<item.type, item.parent_cnid, item.name>>
                   = <<"file", r.parent_cnid, r.name>>
              /\ r.file_location # NoValue =>
                   /\ OneRun(item.fork)
                   /\ r.file_location
                        = BlockAt(item.fork, 0) * volume.block_size
              /\ OneRun(item.fork) /\ IsTight(item.fork)
                   => r.file_location # NoValue
=============================================================================
