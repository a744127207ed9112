---------------------------- MODULE SquashReader ----------------------------
(***************************************************************************)
(* src/formats/squashfs.rs: the superblock, the inode table and the        *)
(* directory table of an image that is not compressed.  A table is a       *)
(* sequence of metadata blocks; an inode or a directory is named by its    *)
(* block and its place in it.                                              *)
(***************************************************************************)
EXTENDS ParsedTree

CONSTANTS
  SquashDepth,      \* MAX_DEPTH, 64
  SquashMagicSize   \* 4

ASSUME SquashAssumption == {SquashDepth, SquashMagicSize} \subseteq Nat

(* The superblock's fields, with `plain` for both flags that say that      *)
(* nothing is compressed.  A directory block holds headers and entries; an *)
(* entry that is "cut" goes beyond the end of its directory's bytes.       *)
SquashInode ==
  [ type : {"dir"}, block : Nat, offset : Nat, size : Nat ]
  \cup [ type : {"reg"}, start : Nat, size : Nat, fragment : BOOLEAN,
         blocks : Seq([plain : BOOLEAN]) ]
  \cup [ type : {"other", "cut"} ]
DirectoryItem ==
  [kind : {"header"}, count : Nat, block : Nat]
  \cup [kind : {"entry"}, name : Seq(Nat), offset : Nat]
  \cup [kind : {"cut"}]
Block(Items) == [plain : BOOLEAN, whole : BOOLEAN, items : Seq(Items)]

(* What is a header and what an entry is a matter of where the directory   *)
(* begins: a header, its entries, the next header, to where it ends.  What *)
(* an entry that is cut off leaves, its name's bytes, is a header again.   *)
CutUnder(items, h, to) ==
  { i \in (h + 1)..to : i <= h + items[h].count + 1 /\ items[i].kind = "cut" }
LastUnder(items, h, to) ==
  IF CutUnder(items, h, to) = {} THEN h + items[h].count + 1
  ELSE Min(CutUnder(items, h, to))
IsListing(items, from, to) ==
  /\ from <= to => items[from].kind = "header"
  /\ \A h \in from..to :
       items[h].kind = "header" =>
         LET next == LastUnder(items, h, to) + 1
         IN  /\ \A i \in (h + 1)..to : i < next => items[i].kind \in {"entry", "cut"}
             /\ next <= to => items[next].kind = "header"
EndOf(inode, items) ==
  LET end == inode.offset + inode.size
  IN  IF end < Len(items) THEN end ELSE Len(items)
IsSquash(v) ==
  /\ v.size \in Nat /\ v.cursor \in Nat /\ v.probed \in BOOLEAN
  /\ v.super \in [ magic : BOOLEAN, block_size : Nat, four : BOOLEAN,
                   plain : BOOLEAN, block : Nat, offset : Nat ]
  /\ v.inodes \in Seq(Block(SquashInode)) /\ v.dirs \in Seq(Block(DirectoryItem))
  /\ \A b \in DOMAIN v.inodes : \A inode \in ToSet(v.inodes[b].items) :
       inode.type = "dir" /\ inode.block < Len(v.dirs) =>
         LET items == v.dirs[inode.block + 1].items
         IN  IsListing(items, inode.offset + 1, EndOf(inode, items))

Super == image.super

(* A caller may ask detect first, which looks at the magic number only.    *)
SquashDetect ==
  /\ At("squash", "detect") /\ image.probed
  /\ found' = [ detected |-> Super.magic, cursor |->
                 PutBack(image.size, found.cursor, 0, SquashMagicSize) ]
  /\ Goto("super") /\ UNCHANGED <<stack, nodes>>
SquashUnprobed ==
  /\ At("squash", "detect") /\ ~image.probed
  /\ Goto("super") /\ UNCHANGED <<found, stack, nodes>>

IsUncompressed == Super.plain
IsSuper == Super.magic /\ Super.block_size # 0 /\ Super.four
BadSuper ==
  /\ At("squash", "super") /\ ~(IsSuper /\ IsUncompressed)
  /\ Stop("Err") /\ UNCHANGED <<found, stack, nodes>>
ReadSuper ==
  /\ At("squash", "super") /\ IsSuper /\ IsUncompressed
  /\ stack' = << Frame(0, << [name |-> <<Slash>>, block |-> Super.block,
                              offset |-> Super.offset] >>) >>
  /\ Goto("squash") /\ UNCHANGED <<found, nodes>>

-----------------------------------------------------------------------------
(* seek_to_metadata_block: the blocks before are passed over by their      *)
(* headers; only the last must be there to its end.                        *)
CanReadBlock(table, i) ==
  /\ i < Len(table)
  /\ \A j \in 1..(i + 1) : table[j].plain
  /\ table[i + 1].whole

(* An inode must be in its block, a file's with the sizes of its blocks.   *)
block_count_for(inode) ==
  (inode.size + (IF inode.fragment THEN 0 ELSE Super.block_size - 1))
    \div Super.block_size
CanReadInode(e) ==
  IF ~CanReadBlock(image.inodes, e.block) THEN FALSE
  ELSE LET items == image.inodes[e.block + 1].items
       IN  IF e.offset >= Len(items) THEN FALSE
           ELSE CASE items[e.offset + 1].type = "cut" -> FALSE
                  [] items[e.offset + 1].type = "reg" ->
                       Len(items[e.offset + 1].blocks)
                         >= block_count_for(items[e.offset + 1])
                  [] OTHER -> TRUE
InodeOf(e) == image.inodes[e.block + 1].items[e.offset + 1]

(* parse_directory: the items of one block, whether the directory ends in  *)
(* it or not, each header with one entry more than its count says, or with *)
(* those in front of one that is cut off.                                  *)
CanReadDirectory(inode) ==
  /\ CanReadBlock(image.dirs, inode.block)
  /\ inode.offset <= Len(image.dirs[inode.block + 1].items)
ItemsOf(inode) ==
  LET items == image.dirs[inode.block + 1].items
  IN  SubSeq(items, inode.offset + 1, EndOf(inode, items))
ItemsUnder(items, h) ==
  LET last == LastUnder(items, h, Len(items))
  IN  SubSeq(items, h + 1, IF last < Len(items) THEN last ELSE Len(items))
EntriesOf(inode) ==
  LET items == ItemsOf(inode)
      under(h) ==
        LET named == Select(ItemsUnder(items, h),
                            LAMBDA e : IF e.kind = "entry" THEN e.name \notin Dots
                                       ELSE FALSE)
        IN  [i \in DOMAIN named |->
               [name |-> named[i].name, block |-> items[h].block,
                offset |-> named[i].offset]]
  IN  FlattenSeq([h \in DOMAIN items |->
                    IF items[h].kind = "header" THEN under(h) ELSE <<>>])

(* A file has a location when its data is one block, not compressed and    *)
(* without a tail in a fragment.  (Mutant: the fragment is forgotten.)     *)
EvenWithTail(inode) ==
  IF block_count_for(inode) = 1 THEN inode.blocks[1].plain ELSE FALSE
IsPlain(inode) ==
  IF ~inode.fragment /\ block_count_for(inode) = 1 THEN inode.blocks[1].plain
  ELSE FALSE
SquashFileNode(name, inode, parent) ==
  IF IsPlain(inode)
    THEN new_file_with_location(name, inode.size, inode.start, inode.size, parent)
    ELSE [new_file(name, inode.size, parent) EXCEPT !.length = inode.size]

-----------------------------------------------------------------------------
(* build_tree: what cannot be read, or is too deep, fails the call.        *)
AtInode == At("squash", "squash") /\ Busy
SquashFails ==
  /\ AtInode
  /\ \/ Len(stack) - 1 > SquashDepth
     \/ ~CanReadInode(Entry)
     \/ /\ CanReadInode(Entry) /\ InodeOf(Entry).type = "dir"
        /\ ~CanReadDirectory(InodeOf(Entry))
  /\ Stop("Err") /\ UNCHANGED <<found, stack, nodes>>
CanDescend == AtInode /\ Len(stack) - 1 <= SquashDepth /\ CanReadInode(Entry)
SquashDirectory ==
  /\ CanDescend /\ InodeOf(Entry).type = "dir" /\ CanReadDirectory(InodeOf(Entry))
  /\ AddDirectory(Entry.name, EntriesOf(InodeOf(Entry)))
  /\ Goto("squash") /\ UNCHANGED found
SquashFile ==
  /\ CanDescend /\ InodeOf(Entry).type = "reg"
  /\ AddFile(SquashFileNode(Entry.name, InodeOf(Entry), Top.node))
  /\ Goto("squash") /\ UNCHANGED found
SquashOther ==
  /\ CanDescend /\ InodeOf(Entry).type = "other"
  /\ AddFile(new_file(Entry.name, 0, Top.node))
  /\ Goto("squash") /\ UNCHANGED found
SquashReturn == At("squash", "squash") /\ Return

SquashNext ==
  \/ SquashDetect \/ SquashUnprobed \/ BadSuper \/ ReadSuper \/ SquashFails
  \/ SquashDirectory \/ SquashFile \/ SquashOther \/ SquashReturn
=============================================================================
