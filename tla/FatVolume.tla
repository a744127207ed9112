----------------------------- MODULE FatVolume ------------------------------
(***************************************************************************)
(* The FAT12/16/32 reader (src/formats/fat.rs): the geometry from the boot *)
(* sector, the walk of the file allocation table along a chain, the        *)
(* entries of a directory, and the recursion that builds the tree.  The    *)
(* recursion is a stack of the directories being listed; one iteration of  *)
(* a loop is a step.  The tree is the sequence of its nodes in the order   *)
(* they are made, each with the index of the directory it is in.           *)
(***************************************************************************)
EXTENDS Integers, Sequences, FiniteSets, SequencesExt

CONSTANTS
  Volumes,      \* the volumes that are read: see IsVolume
  SectorSizes,  \* the sector sizes accepted: 512 to 4096 in the code
  SLOT,         \* bytes of a directory entry: 32 in the code
  MaxSeq,       \* the largest number of a long name's piece: 63 in the code
  Fat12Limit,   \* clusters from which a volume is no FAT12: 4085
  Fat16Limit,   \* clusters from which a volume is no FAT16: 65525
  EndMark,      \* the FAT entries from here on mark the end of a chain
  BadMark,      \* the FAT entry of a bad cluster
  MaxDepth,     \* levels of directories that are read: 32 in the code
  Text,         \* what names are made of
  Dot, DotDot,  \* the texts "." and ".."
  NoValue       \* `None`

(* A slot of a directory, by what the parser tests in it.  A piece of a    *)
(* long name has its number and says whether it holds the terminating NUL. *)
Slot ==
  [kind : {"end", "deleted", "label"}]
    \cup [kind : {"piece"}, seq : 0..MaxSeq, text : Text, ends : BOOLEAN]
    \cup [kind : {"file", "dir"}, short : Text, size : Nat, start : Nat]

Bpb == [ signature : BOOLEAN, bytes_per_sector : Nat,
         sectors_per_cluster : Nat, reserved_sectors : Nat, num_fats : Nat,
         root_entry_count : Nat, total_sectors_16 : Nat,
         total_sectors_32 : Nat, fat_size_16 : Nat, fat_size_32 : Nat,
         root_cluster : Nat ]

(* `fat` is what fat_entry returns for a cluster, `content` the slots of a *)
(* cluster read as part of a directory, `root_dir` those of the fixed root *)
(* directory; `base` is where in the image the volume begins.              *)
IsVolume(v) ==
  /\ v.base \in Nat
  /\ v.bpb \in Bpb
  /\ DOMAIN v.fat \subseteq Nat /\ v.fat \in [DOMAIN v.fat -> Nat]
  /\ DOMAIN v.content = DOMAIN v.fat
  /\ v.content \in [DOMAIN v.fat -> Seq(Slot)]
  /\ v.root_dir \in Seq(Slot)
  /\ Len(v.root_dir) = v.bpb.root_entry_count

ASSUME SizesAssumption ==
  /\ {SLOT, MaxSeq, MaxDepth} \subseteq Nat \ {0}
  /\ SectorSizes \subseteq Nat \ {0}
ASSUME LimitsAssumption ==
  {Fat12Limit, Fat16Limit, EndMark, BadMark} \subseteq Nat
ASSUME TextAssumption == Dot \in Text /\ DotDot \in Text
ASSUME NoValueAssumption == NoValue \notin Nat

VARIABLES
  volume,
  pc,       \* "boot", "chain", "entry" or "done"
  ctx,      \* the Context read_bpb returns
  stack,    \* the directories being listed, the innermost last
  chain,    \* the chain cluster_chain is collecting, for the last node
  cluster,  \* the cluster it has come to
  nodes,
  result    \* "none" while running, then "Ok" or "Err"

vars == <<volume, pc, ctx, stack, chain, cluster, nodes, result>>

-----------------------------------------------------------------------------
(* read_bpb: the checks, and the geometry in bytes from the boot sector on.*)
FatSize(b) == IF b.fat_size_16 # 0 THEN b.fat_size_16 ELSE b.fat_size_32
TotalSectors(b) ==
  IF b.total_sectors_16 # 0 THEN b.total_sectors_16 ELSE b.total_sectors_32
DivCeil(n, d) == (n + d - 1) \div d
RootDirSectors(b) == DivCeil(b.root_entry_count * SLOT, b.bytes_per_sector)
DataSectors(b) ==
  LET used == b.reserved_sectors + b.num_fats * FatSize(b) + RootDirSectors(b)
  IN  IF used > TotalSectors(b) THEN 0 ELSE TotalSectors(b) - used
TotalClusters(b) == DataSectors(b) \div b.sectors_per_cluster

FatType(b) ==
  CASE b.root_entry_count = 0 /\ b.fat_size_16 = 0 /\ b.root_cluster >= 2
                                          -> "Fat32"
    [] OTHER -> IF TotalClusters(b) < Fat12Limit THEN "Fat12"
                ELSE IF TotalClusters(b) < Fat16Limit THEN "Fat16"
                ELSE "Fat32"

IsBoot(b) ==
  /\ b.signature
  /\ b.bytes_per_sector \in SectorSizes
  /\ b.sectors_per_cluster \in {1, 2, 4, 8, 16, 32, 64, 128}
  /\ b.num_fats \in {1, 2}
  /\ FatSize(b) # 0 /\ TotalSectors(b) # 0
  /\ FatType(b) = "Fat32" => b.root_cluster >= 2

(* The FAT of a volume has an entry for each of its clusters.              *)
ASSUME VolumesAssumption ==
  \A v \in Volumes :
    IsVolume(v) /\ (IsBoot(v.bpb) => 2..(TotalClusters(v.bpb) + 1)
                                        \subseteq DOMAIN v.fat)

(* The data begins behind the FATs and the fixed root directory.           *)
DataStart(b) ==
  (b.reserved_sectors + b.num_fats * FatSize(b) + RootDirSectors(b))
    * b.bytes_per_sector

Context(b) ==
  [ fat_type          |-> FatType(b),
    bytes_per_cluster |-> b.sectors_per_cluster * b.bytes_per_sector,
    data_start_rel    |-> DataStart(b),
    total_clusters    |-> TotalClusters(b) ]

cluster_abs(c) ==
  volume.base + ctx.data_start_rel + (c - 2) * ctx.bytes_per_cluster

-----------------------------------------------------------------------------
(* reassemble_lfn puts the pieces of a long name in the order of their     *)
(* numbers, those of one number as they came, and cuts the name off at the *)
(* NUL.  (Mutant: all as they came.)                                       *)
AsTheyCame(pieces) == pieces
BySeq(pieces) ==
  LET Place(i) ==
        Cardinality({ j \in DOMAIN pieces :
                        \/ pieces[j].seq < pieces[i].seq
                        \/ pieces[j].seq = pieces[i].seq /\ j <= i })
  IN  [ k \in DOMAIN pieces |->
          pieces[CHOOSE i \in DOMAIN pieces : Place(i) = k] ]
Reassembled(pieces) ==
  LET sorted == BySeq(pieces)
      upTo == { k \in 1..Len(sorted) : \A j \in 1..(k - 1) : ~sorted[j].ends }
  IN  [k \in upTo |-> sorted[k].text]

(* parse_dir_entries: the slots up to the end marker; the pieces it has    *)
(* collected when it comes to an entry are those since the last slot that  *)
(* is none, which cleared them.                                            *)
Before(slots) ==
  LET upTo == { i \in 1..Len(slots) :
                  \A j \in 1..i : slots[j].kind # "end" }
  IN  SubSeq(slots, 1, Cardinality(upTo))
RunBefore(slots, p) ==
  { i \in 1..(p - 1) : \A j \in i..(p - 1) : slots[j].kind = "piece" }
NameOf(slots, p) ==
  LET n == Cardinality(RunBefore(slots, p))
  IN  IF n = 0 THEN <<slots[p].short>>
               ELSE Reassembled(SubSeq(slots, p - n, p - 1))
Entry(slots, p) ==
  [ name |-> NameOf(slots, p), is_dir |-> slots[p].kind = "dir",
    size |-> slots[p].size, start |-> slots[p].start ]
IsEntry(slots, p) ==
  /\ slots[p].kind \in {"file", "dir"}
  /\ NameOf(slots, p) \notin {<<Dot>>, <<DotDot>>}
Entries(all) ==
  LET slots == Before(all)
      upTo[p \in 0..Len(slots)] ==
        IF p = 0 THEN <<>>
        ELSE IF IsEntry(slots, p) THEN Append(upTo[p - 1], Entry(slots, p))
        ELSE upTo[p - 1]
  IN  upTo[Len(slots)]

(* read_dir_bytes of a chain.                                              *)
Contents(clusters) ==
  LET upTo[i \in 0..Len(clusters)] ==
        IF i = 0 THEN <<>> ELSE upTo[i - 1] \o volume.content[clusters[i]]
  IN  upTo[Len(clusters)]

-----------------------------------------------------------------------------
Root == 0       \* the index that stands for the root "/"
Frame(dir, entries) == [dir |-> dir, entries |-> entries]
Top == stack[Len(stack)]
Depth == Len(stack) - 1

DirNode(e) == [ name |-> e.name, parent |-> Top.dir, is_dir |-> TRUE,
                size |-> 0, start |-> e.start, location |-> NoValue ]
FileNode(e) == [ DirNode(e) EXCEPT !.is_dir = FALSE, !.size = e.size ]
This == nodes[Len(nodes)]
ForFile == IF nodes = <<>> THEN FALSE ELSE ~This.is_dir

Init ==
  /\ volume \in Volumes
  /\ pc = "boot"
  /\ ctx = NoValue
  /\ stack = <<>>
  /\ chain = <<>>
  /\ cluster = 0
  /\ nodes = <<>>
  /\ result = "none"

Stop(verdict) == pc' = "done" /\ result' = verdict

(* The boot sector is good: the root directory is listed, from its fixed   *)
(* place or along its chain.                                               *)
ReadBpb ==
  /\ pc = "boot" /\ IsBoot(volume.bpb)
  /\ ctx' = Context(volume.bpb)
  /\ IF FatType(volume.bpb) = "Fat32"
       THEN /\ cluster' = volume.bpb.root_cluster
            /\ pc' = "chain"
            /\ UNCHANGED stack
       ELSE /\ stack' = << Frame(Root, Entries(volume.root_dir)) >>
            /\ pc' = "entry"
            /\ UNCHANGED cluster
  /\ UNCHANGED <<volume, chain, nodes, result>>

BadBootSector ==
  /\ pc = "boot" /\ ~IsBoot(volume.bpb)
  /\ Stop("Err")
  /\ UNCHANGED <<volume, ctx, stack, chain, cluster, nodes>>

(* Any read or seek may fail, at the end of a truncated image for one: the *)
(* whole parse fails.                                                      *)
ReadFails ==
  /\ pc # "done"
  /\ Stop("Err")
  /\ UNCHANGED <<volume, ctx, stack, chain, cluster, nodes>>

(* cluster_chain: a cluster of the volume that is not marked is added, and *)
(* the FAT says which is next.  One that is longer than the volume goes in *)
(* a circle.  (Mutants: the last cluster is taken for one beyond the end;  *)
(* a cluster that comes again is not counted again.)                       *)
is_eoc(c) == c >= EndMark
is_bad_cluster(c) == c = BadMark
LastLeftOut(c) ==
  /\ c >= 2 /\ c <= ctx.total_clusters
  /\ ~is_eoc(c) /\ ~is_bad_cluster(c)
InVolume(c) ==
  /\ c >= 2 /\ c <= ctx.total_clusters + 1
  /\ ~is_eoc(c) /\ ~is_bad_cluster(c)
Circular == Len(chain) > ctx.total_clusters
CountedOnce(c) == IF c \in ToSet(chain) THEN chain ELSE Append(chain, c)
Pushed(c) == Append(chain, c)

FollowChain ==
  /\ pc = "chain" /\ InVolume(cluster) /\ ~Circular
  /\ chain' = Pushed(cluster)
  /\ cluster' = IF Len(Pushed(cluster)) > ctx.total_clusters
                  THEN cluster ELSE volume.fat[cluster]
  /\ UNCHANGED <<volume, pc, ctx, stack, nodes, result>>

ChainEnds == pc = "chain" /\ (~InVolume(cluster) \/ Circular)

(* The chain was that of a directory, which is listed next: the root       *)
(* directory of a FAT32 volume, or the node made last.                     *)
ListDirectory ==
  /\ ChainEnds /\ ~ForFile
  /\ stack' = Append(stack, Frame(Len(nodes), Entries(Contents(chain))))
  /\ chain' = <<>>
  /\ pc' = "entry"
  /\ UNCHANGED <<volume, ctx, cluster, nodes, result>>

(* is_contiguous, over the whole chain.                                    *)
is_contiguous(c) == \A i \in 1..(Len(c) - 1) : c[i + 1] = c[i] + 1

(* The chain was that of a file, which is located if its clusters are one  *)
(* run that is long enough.                                                *)
LongEnough == Len(chain) >= DivCeil(This.size, ctx.bytes_per_cluster)
LocateFile ==
  /\ ChainEnds /\ ForFile
  /\ nodes' = IF chain # <<>> /\ is_contiguous(chain) /\ LongEnough
                THEN [nodes EXCEPT ![Len(nodes)].location =
                        cluster_abs(chain[1])]
                ELSE nodes
  /\ chain' = <<>>
  /\ pc' = "entry"
  /\ UNCHANGED <<volume, ctx, stack, cluster, result>>

(* The next entry of the innermost directory.  Below MaxDepth and at start *)
(* clusters 0 and 1 a directory is left empty.                             *)
HasChain(e) ==
  /\ e.start >= 2
  /\ IF e.is_dir THEN Depth < MaxDepth ELSE e.size > 0
Rest == Append(Front(stack), [Top EXCEPT !.entries = Tail(@)])
NextEntry ==
  /\ pc = "entry" /\ stack # <<>> /\ Top.entries # <<>>
  /\ LET e == Head(Top.entries)
     IN  /\ nodes' = Append(nodes, IF e.is_dir THEN DirNode(e)
                                               ELSE FileNode(e))
         /\ stack' = Rest
         /\ IF HasChain(e)
              THEN pc' = "chain" /\ cluster' = e.start
              ELSE UNCHANGED <<pc, cluster>>
  /\ UNCHANGED <<volume, ctx, chain, result>>

(* The directory is complete: back to the one it is in.                    *)
Return ==
  /\ pc = "entry" /\ stack # <<>> /\ Top.entries = <<>>
  /\ stack' = Front(stack)
  /\ IF Len(stack) = 1 THEN Stop("Ok") ELSE UNCHANGED <<pc, result>>
  /\ UNCHANGED <<volume, ctx, chain, cluster, nodes>>

Next ==
  \/ ReadBpb \/ BadBootSector \/ ReadFails
  \/ FollowChain \/ ListDirectory \/ LocateFile
  \/ NextEntry \/ Return

Spec == Init /\ [][Next]_vars /\ WF_vars(Next)

-----------------------------------------------------------------------------
NodeOK(k) ==
  /\ nodes[k].name \in Seq(Text) /\ nodes[k].parent \in 0..(k - 1)
  /\ nodes[k].is_dir \in BOOLEAN /\ nodes[k].size \in Nat
  /\ nodes[k].start \in Nat /\ nodes[k].location \in Nat \cup {NoValue}

TypeOK ==
  /\ pc \in {"boot", "chain", "entry", "done"}
  /\ pc \in {"chain", "entry"} => ctx = Context(volume.bpb)
  /\ Len(stack) <= MaxDepth + 1
  /\ \A i \in DOMAIN stack : stack[i].dir \in 0..Len(nodes)
  /\ Len(chain) <= TotalClusters(volume.bpb) + 1
  /\ \A k \in DOMAIN nodes : NodeOK(k)
  /\ result \in {"none", "Ok", "Err"}

(* The chain of a cluster as the FAT has it: where each step leads.        *)
Limit == TotalClusters(volume.bpb) + 1
Valid(c) ==
  c \in 2..Limit /\ c < EndMark /\ c # BadMark /\ c \in DOMAIN volume.fat
Reached(start) ==
  LET step[i \in 0..Limit] ==
        IF i = 0 THEN start
        ELSE LET before == step[i - 1]
             IN  IF Valid(before) THEN volume.fat[before] ELSE 0
  IN  step

(* Where a cluster's bytes are in the image, from the layout of a volume:  *)
(* sectors, of which the reserved ones, the FATs and the root directory    *)
(* come first.                                                             *)
BytesOf(c) ==
  LET b == volume.bpb
      sector == b.reserved_sectors + b.num_fats * FatSize(b)
                  + RootDirSectors(b) + (c - 2) * b.sectors_per_cluster
  IN  volume.base + sector * b.bytes_per_sector

(* cat_node reads a located file as one range of the image: that range is  *)
(* the file's clusters, in the order of the chain and as many as its size  *)
(* needs, and it ends inside the volume ("For files whose clusters are     *)
(* physically contiguous ... cat_node works directly", fat.rs:10).         *)
LocatedBytesAreTheChains ==
  \A k \in DOMAIN nodes :
    nodes[k].location # NoValue =>
      LET b == volume.bpb
          per == b.sectors_per_cluster * b.bytes_per_sector
      IN  /\ \A i \in 0..(DivCeil(nodes[k].size, per) - 1) :
               LET c == Reached(nodes[k].start)[i]
               IN  Valid(c) /\ BytesOf(c) = nodes[k].location + i * per
          /\ nodes[k].location + nodes[k].size
               <= volume.base + TotalSectors(b) * b.bytes_per_sector

(* A file is left without a location only when it is empty, has no         *)
(* cluster, is fragmented, or its chain is too short.  (The file whose     *)
(* chain is being followed is not decided yet.)                            *)
LocatedUnlessBroken ==
  \A k \in DOMAIN nodes :
    LET n == nodes[k]
        per == volume.bpb.sectors_per_cluster * volume.bpb.bytes_per_sector
        at == Reached(n.start)
        decided == result = "Ok" \/ k < Len(nodes) \/ pc = "entry"
    IN  ~n.is_dir /\ n.location = NoValue /\ decided =>
          \/ n.size = 0 \/ n.start < 2
          \/ \E i \in 0..(DivCeil(n.size, per) - 1) : ~Valid(at[i])
          \/ \E i \in 1..Limit : Valid(at[i]) /\ at[i] # at[i - 1] + 1

(* Both: a file has a location just when its chain is whole.               *)
LocatedJustWhenWhole == LocatedBytesAreTheChains /\ LocatedUnlessBroken

(* The chain read_dir_bytes reads for a directory, up to the first cluster *)
(* that comes again: a circle adds nothing that was not read before.       *)
FirstRound(start) ==
  LET at == Reached(start)
      steps == { i \in 0..Limit :
                   \A j \in 0..i : Valid(at[j]) /\ \A h \in 0..(j - 1) :
                                                    at[h] # at[j] }
  IN  [i \in 1..Cardinality(steps) |-> at[i - 1]]
Acyclic(start) ==
  LET n == Len(FirstRound(start)) IN ~Valid(Reached(start)[n])
Listing(k) ==
  IF k # Root THEN Contents(FirstRound(nodes[k].start))
  ELSE IF FatType(volume.bpb) = "Fat32"
    THEN Contents(FirstRound(volume.bpb.root_cluster))
    ELSE volume.root_dir
Level(k) ==
  LET level[i \in 0..Len(nodes)] ==
        IF i = Root THEN 0 ELSE 1 + level[nodes[i].parent]
  IN  level[k]

(* A directory as it is written: the pieces of a long name stand directly  *)
(* before its entry, numbered n..1, so that the name is read backwards.    *)
Tidy(slots) ==
  \A i \in 1..Len(slots) :
    slots[i].kind = "piece" =>
      \E p \in (i + 1)..Len(slots) :
        /\ slots[p].kind \in {"file", "dir", "deleted"}
        /\ i \in RunBefore(slots, p)
        /\ slots[p].kind # "deleted" => slots[i].seq = p - i
        /\ slots[i].ends => \A j \in 1..(i - 1) : j \notin RunBefore(slots, p)
GivenName(slots, p) ==
  LET n == Cardinality(RunBefore(slots, p))
  IN  IF n = 0 THEN <<slots[p].short>>
               ELSE [i \in 1..n |-> slots[p - i].text]
ListedSlots(slots) ==
  { p \in 1..Len(slots) :
      /\ slots[p].kind \in {"file", "dir"}
      /\ GivenName(slots, p) \notin {<<Dot>>, <<DotDot>>} }

(* Every directory of the tree down to MaxDepth has a node for each entry  *)
(* of its clusters, in their order and under the name written there, and   *)
(* no other; what was deleted, comes after the end marker, or is part of   *)
(* another entry's long name leaves no trace.                              *)
DirectoriesComplete ==
  result = "Ok" =>
    \A d \in 0..Len(nodes) :
      LET slots == Before(Listing(d))
          inside == { k \in DOMAIN nodes : nodes[k].parent = d }
          start == IF d = Root THEN volume.bpb.root_cluster ELSE nodes[d].start
      IN  /\ d = Root \/ (nodes[d].is_dir /\ start >= 2 /\ Level(d) <= MaxDepth)
          /\ Tidy(slots)
          /\ (d = Root /\ FatType(volume.bpb) # "Fat32") \/ Acyclic(start)
          => /\ Cardinality(inside) = Cardinality(ListedSlots(slots))
             /\ \A p \in ListedSlots(slots) :
                  \E k \in inside :
                    /\ nodes[k].name = GivenName(slots, p)
                    /\ nodes[k].is_dir = (slots[p].kind = "dir")
                    /\ nodes[k].start = slots[p].start
                    /\ Cardinality({ q \in ListedSlots(slots) : q < p })
                         = Cardinality({ j \in inside : j < k })

(* A volume whose directories or chains go in circles is read to an end.   *)
Terminates == <>(pc = "done")
=============================================================================
