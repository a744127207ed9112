------------------------------- MODULE Images -------------------------------
(***************************************************************************)
(* The readers of disc images, NTFS and SquashFS volumes, partitioned      *)
(* disks and containers over one tree.  detect_and_parse_filesystem        *)
(* (src/lib.rs) is the composition of IsoReader and UdfReader; the others  *)
(* are called by their own detect and detect_and_parse.                    *)
(***************************************************************************)
EXTENDS UdfReader, NtfsReader, SquashReader, Containers

IsImage(i) ==
  CASE i.kind = "disc" ->
         /\ IsFiniteSet(DOMAIN i.sectors)
         /\ DOMAIN i.sectors = 0 .. (Cardinality(DOMAIN i.sectors) - 1)
         /\ \A s \in DOMAIN i.sectors :
              IsIsoSector(i.sectors[s]) \/ IsUdfSector(i.sectors[s])
    [] i.kind = "ntfs" -> IsNtfs(i)
    [] i.kind = "squash" -> IsSquash(i)
    [] i.kind = "disk" -> IsDisk(i)
    [] i.kind = "container" -> IsContainer(i)
ASSUME ImagesAssumption == \A k \in DOMAIN Images : \A i \in Images[k] : IsImage(i)

StartPc ==
  [ disc |-> "descriptors", ntfs |-> "detect", squash |-> "detect",
    disk |-> IF image.kind # "disk" THEN "gpt"
             ELSE IF image.via = "mbr" THEN "mbr" ELSE "gpt",
    container |-> "detect" ]
StartFound ==
  [ disc |-> [sector |-> VdStart, primary |-> None, joliet |-> None],
    ntfs |-> IF image.kind = "ntfs" THEN [cursor |-> image.base] ELSE None,
    disk |-> None,
    squash |-> IF image.kind = "squash"
                 THEN [detected |-> None, cursor |-> image.cursor] ELSE None,
    container |-> IF image.kind = "container"
                    THEN [detected |-> None, cursor |-> image.cursor] ELSE None ]
Init == Begin(StartPc, StartFound)
Next == IsoNext \/ UdfNext \/ NtfsNext \/ SquashNext \/ DiskNext \/ ContainerNext
Spec == Init /\ [][Next]_vars

Finished(kind) == result # "none" /\ image.kind = kind
TreeOf(View(_)) == { View(k) : k \in 2..Len(nodes) }

-----------------------------------------------------------------------------
(* The directories of an ISO 9660 disc, down to CallDepth: the volume      *)
(* descriptors are those before the first that ends the set.               *)
Descriptors ==
  { s \in DOMAIN image.sectors :
      s >= VdStart /\ \A t \in VdStart..s :
        IF Holds(t, "cd001") THEN image.sectors[t].type # "end" ELSE FALSE }
Latest(type) ==
  LET own == { s \in Descriptors : image.sectors[s].type = type }
  IN  IF own = {} THEN None
      ELSE image.sectors[CHOOSE s \in own : \A t \in own : t <= s].root
DiscRoot == IF Latest("joliet") # None THEN Latest("joliet") ELSE Latest("primary")
InDirectory(r) ==
  IF ~r.dir THEN {}
  ELSE UNION { ToSet(RecordsIn(r.extent + i)) : i \in 0..(r.length - 1) }
AllFit(records) == \A e \in records : e.fits
IsOwn(e) == e.sound /\ e.id # <<>> /\ ~e.parent
DiscNames(Named(_), Listed(_)) ==
  NamesBelow(DiscRoot, [r \in Record |-> { e \in InDirectory(r) : Listed(e) }],
             [e \in Record |-> Named(e)], CallDepth)

IsoFound == [type : {"primary", "joliet"}, root : Record, rock : BOOLEAN]
ByIso == image.kind = "disc" /\ found \in IsoFound

(* detect_and_parse_filesystem returns, of a disc that is read as ISO      *)
(* 9660, exactly the files and directories that its records describe,      *)
(* those of the Joliet volume if there is one, with the sectors they       *)
(* occupy, also in a directory of several sectors, and all of these were   *)
(* in the image.  What bears one of the names of the directory itself and  *)
(* its parent is left out.                                                 *)
InTree(e) == IsOwn(e) /\ NameOf(e) \notin Dots
IsoTreeIsTheDisc ==
  result = "Ok" /\ ByIso =>
    LET disc == DiscNames(NameOf, InTree)
        directories == { x[2] : x \in { y \in disc : y[2].dir } }
    IN  \/ ~AllFit(UNION { InDirectory(d) : d \in directories })
        \/ /\ \A d \in directories : InImage(d.extent, d.length)
           /\ TreeOf(LAMBDA k : << PathOf(k), nodes[k].is_directory, nodes[k].location >>)
               = { << x[1], x[2].dir, IF x[2].dir THEN None ELSE x[2].extent >> :
                     x \in { y \in disc : y[1] # <<>> } }

(* What is whole of the two file systems of a bridge disc.                 *)
IsoIsWhole ==
  /\ DiscRoot # None
  /\ DiscRoot.sound /\ CanDetect(DiscRoot)
  /\ \A x \in DiscNames(LAMBDA e : e.id, IsOwn) :
       x[2].dir => InImage(x[2].extent, x[2].length)
UdfIsWhole ==
  /\ Recognised
  /\ LET anchor == Sector(Head(Anchors))
         vds == anchor.location .. (anchor.location + anchor.length - 1)
         those(tag) == { s \in vds : Holds(s, tag) }
     IN  /\ vds \subseteq DOMAIN image.sectors /\ those("td") = {}
         /\ Cardinality(those("lvd")) = 1
         /\ \A l \in those("lvd") :
              LET own == { p \in those("pd") :
                             Sector(p).number = Sector(l).fsd.partition }
              IN  /\ Sector(l).maps = <<>> /\ Cardinality(own) = 1
                  /\ \A p \in own :
                       LET fsd == Sector(p).start + Sector(l).fsd.location
                       IN  IF Holds(fsd, "fsd")
                             THEN CanList(Sector(p).start, Sector(fsd).root)
                             ELSE FALSE

-----------------------------------------------------------------------------
(* The directories of a UDF volume: what its identifiers name, deleted     *)
(* ones and those of the parent aside; a directory that cannot be read     *)
(* has nothing in it.                                                      *)
UdfFound == [start : Nat, icb : Nat]
ByUdf == image.kind = "disc" /\ found \in UdfFound
InVolumeDirectory(file) ==
  IF ~file.dir \/ ~CanList(found.start, file.icb) THEN {}
  ELSE LET c == Sector(found.start + file.icb)
           fids == IF Inline(c) THEN ToSet(c.fids)
                   ELSE UNION { UNION { ToSet(FidsIn(found.start + x.location + i)) :
                                          i \in 0..(x.length - 1) } :
                                  x \in ToSet(Extents(c)) }
       IN  { f \in fids : /\ ~f.blank /\ ~f.deleted /\ ~f.parent
                          /\ GivenUdfName(f) # <<>> }
VolumeRootFile == [dir |-> TRUE, icb |-> found.icb]
VolumeNames ==
  NamesBelow(VolumeRootFile, [f \in Fid \cup {VolumeRootFile} |-> InVolumeDirectory(f)],
             [f \in Fid |-> GivenUdfName(f)], CallDepth)

(* The tree of a UDF volume holds every name of its directories, of all    *)
(* their extents; a subdirectory that cannot be read costs what is in it   *)
(* and nothing else.                                                       *)
UdfTreeIsTheVolume ==
  result = "Ok" /\ ByUdf =>
    \/ \E s \in DOMAIN image.sectors :
         /\ Holds(s, "fids") \/ Holds(s, "fe")
         /\ \E f \in ToSet(Sector(s).fids) : f.bad
    \/ TreeOf(LAMBDA k : << PathOf(k), nodes[k].is_directory >>)
        = { << x[1], x[2].dir >> : x \in { y \in VolumeNames : y[1] # <<>> } }

(* A directory is as deep as the thread's stack allows.                    *)
GoesTooDeep ==
  \/ ByIso /\ \E x \in DiscNames(NameOf, InTree) : Len(x[1]) = CallDepth /\ x[2].dir
  \/ ByUdf /\ \E x \in VolumeNames : Len(x[1]) = CallDepth /\ x[2].dir

(* Nothing limits the recursion of parse_directory in iso9660.rs and       *)
(* udf.rs.  Only a disc whose directories do go that deep, as one that     *)
(* contains itself does, uses up the stack; the entries every directory    *)
(* has for itself and its parent do not.                                   *)
OnlyDeepDiscsAbort == result = "Abort" => GoesTooDeep

(* A record of the disc has a Rock Ridge name too short for its flags.     *)
NamesShort ==
  ByIso /\ \E s \in DOMAIN image.sectors :
             \E e \in ToSet(RecordsIn(s)) : HasShortName(e)

(* A disc with a whole file system of either kind is read: what the reader *)
(* of ISO 9660 takes for an error, in the descriptors of a bridge disc or  *)
(* in a directory far down, still leaves the UDF side to be read.  Two     *)
(* things are no errors and end the call, and nothing else does: a         *)
(* directory as deep as the stack allows, and a Rock Ridge name of four    *)
(* bytes.                                                                  *)
AnyHealthyFileSystemIsFound ==
  image.kind = "disc" /\ (IsoIsWhole \/ UdfIsWhole) =>
    \/ result \in {"none", "Ok"}
    \/ result = "Abort" /\ GoesTooDeep
    \/ result = "Panic" /\ NamesShort

(* src/udf.rs:1: "Supports metadata partitions and multi-extent files".    *)
(* The range that a located file of a UDF volume has holds that file:      *)
(* every recorded extent of it lies where the range has it.                *)
UdfRangesAreTheFiles ==
  result = "Ok" /\ ByUdf =>
    \A x \in VolumeNames :
      ~x[2].dir /\ CanAllocate(found.start + x[2].icb) =>
        LET ads == Extents(Sector(found.start + x[2].icb))
        IN  \A k \in 2..Len(nodes) :
              PathOf(k) = x[1] /\ nodes[k].location # None =>
                \A i \in DOMAIN ads :
                  found.start + ads[i].location
                    = nodes[k].location + SumOf(SubSeq(ads, 1, i - 1))

-----------------------------------------------------------------------------
(* The names of an NTFS volume: of the records in use that are not system  *)
(* files, each by its best name, under the directory that name gives.      *)
GivenNames(n) ==
  LET own(S) == Select(Walked(image.mft[n + 1]),
                  LAMBDA a : IF a.type = "name" THEN a.whole /\ a.namespace \in S
                             ELSE FALSE)
  IN  own({Win32AndDos}) \o own({Win32}) \o own({Posix})
        \o own(Nat \ {Win32AndDos, Win32, Dos, Posix})
GivenName(n) == Head(GivenNames(n))
UserRecords ==
  { n \in SystemRecordCount .. (Len(image.mft) - 1) :
      /\ image.mft[n + 1].file /\ image.mft[n + 1].usa
      /\ image.mft[n + 1].in_use /\ n <= RecordGuard
      /\ mft_record_size >= FlagsEnd
      /\ GivenNames(n) # <<>> }
IsFolder(n) == IF n = RootRecord THEN TRUE ELSE GivenName(n).directory
InFolder(n) ==
  IF ~IsFolder(n) THEN {}
  ELSE { m \in UserRecords : GivenName(m).parent = n /\ m # n }
NtfsNames ==
  { x \in NamesBelow(RootRecord, [n \in Nat |-> InFolder(n)],
                     [n \in Nat |-> GivenName(n).name], NtfsDepth + 1) :
      x[1] # <<>> /\ ~(Len(x[1]) = NtfsDepth + 1 /\ IsFolder(x[2])) }

BootIsSound ==
  /\ Boot.oem /\ Boot.sectors_per_cluster # 0
  /\ Boot.bytes_per_sector \in SectorSizeLow..SectorSizeHigh
  /\ mft_record_size \in 1..MaxRecordSize
AllCanBeRead == image.failing \cap (0..RecordGuard) = {}
NoneIsCutOff ==
  /\ mft_record_size >= FlagsEnd
  /\ \A i \in DOMAIN image.mft :
       \A a \in ToSet(image.mft[i].attributes) : a.type # "edge"

(* An NTFS volume with a sound boot sector is read, also by a caller that  *)
(* has just asked detect, if each of its records can be and none is too    *)
(* short for what is looked for in it; only a bad boot sector and a record *)
(* that cannot be read are errors.  The tree holds each record in use      *)
(* once, under the directory its best name gives: nothing that was         *)
(* deleted, no DOS names, no system files; what hangs on none of the       *)
(* root's directories, or deeper than the limit, is left out.              *)
NtfsTreeIsTheNameSpace ==
  Finished("ntfs") =>
    /\ BootIsSound /\ AllCanBeRead /\ NoneIsCutOff => result = "Ok"
    /\ result = "Err" => ~BootIsSound \/ ~AllCanBeRead
    /\ result = "Panic" => BootIsSound /\ ~NoneIsCutOff
    /\ result = "Ok" =>
         /\ BootIsSound /\ AllCanBeRead
         /\ Len(nodes) - 1 = Cardinality(NtfsNames)
         /\ TreeOf(LAMBDA k : << PathOf(k), nodes[k].is_directory >>)
              = { << x[1], IsFolder(x[2]) >> : x \in NtfsNames }

(* A file that an NTFS record locates outside itself lies there: every     *)
(* cluster of its size that its runs give is where the range has it.       *)
ClustersOf(runs) ==
  FlattenSeq([ i \in DOMAIN runs |->
                 [ j \in 1..runs[i].length |->
                     IF runs[i].sparse THEN -1 ELSE Lcn(runs, i) + j - 1 ] ])
NtfsRangesAreTheFiles ==
  Finished("ntfs") /\ result = "Ok" =>
    \A r \in ToSet(found.records) :
      \A a \in ToSet(DataOf(image.mft[r.mft_num + 1])) :
        ~a.resident /\ Len(DataOf(image.mft[r.mft_num + 1])) = 1
          /\ r.file_location # None =>
            \A v \in DOMAIN ClustersOf(a.runs) :
              (v - 1) * cluster_size < a.size =>
                r.file_location + (v - 1) * cluster_size
                  = image.base + ClustersOf(a.runs)[v] * cluster_size

-----------------------------------------------------------------------------
(* The names of a SquashFS image: all entries in the bytes of a directory, *)
(* each with the block the header before it names.  A directory that goes  *)
(* on in a second metadata block, or holds an entry that is cut off, is    *)
(* read as far as that without an error (squashfs.rs:440-443, 472, 482):   *)
(* the names are those of images in which every directory is InOneBlock.   *)
InOneBlock ==
  \A b \in DOMAIN image.inodes : \A inode \in ToSet(image.inodes[b].items) :
    inode.type = "dir" /\ inode.block < Len(image.dirs) =>
      LET items == image.dirs[inode.block + 1].items
      IN  inode.offset <= Len(items) =>
            /\ inode.offset + inode.size <= Len(items)
            /\ \A i \in (inode.offset + 1)..(inode.offset + inode.size) :
                 items[i].kind # "cut"
SquashEntries(inode) ==
  LET items == image.dirs[inode.block + 1].items
      mine == (inode.offset + 1)..(inode.offset + inode.size)
      header(i) == CHOOSE h \in mine :
                     /\ h < i /\ items[h].kind = "header"
                     /\ \A j \in (h + 1)..i : items[j].kind = "entry"
  IN  { [name |-> items[i].name, block |-> items[header(i)].block,
         offset |-> items[i].offset] :
          i \in { j \in mine : IF items[j].kind = "entry" THEN items[j].name \notin Dots
                               ELSE FALSE } }
InSquashDirectory(e) ==
  IF ~CanReadInode(e) THEN {}
  ELSE IF InodeOf(e).type # "dir" THEN {}
  ELSE IF ~CanReadDirectory(InodeOf(e)) THEN {} ELSE SquashEntries(InodeOf(e))
SquashRoot == [name |-> <<Slash>>, block |-> Super.block, offset |-> Super.offset]
SquashEntry == [name : Seq(Nat), block : Nat, offset : Nat] \cup {SquashRoot}
SquashNames ==
  NamesBelow(SquashRoot, [e \in SquashEntry |-> InSquashDirectory(e)],
             [e \in SquashEntry |-> e.name], SquashDepth + 1)

(* A SquashFS image whose directories each lie in one metadata block is    *)
(* read as a whole or refused: a tree has every name of its directories,   *)
(* with a location for just the files whose data lies in one piece; an     *)
(* error means that something is compressed, cut off or deeper than the    *)
(* limit.  Of any image, detect says yes if it is read, and leaves the     *)
(* cursor where it was.                                                    *)
InOnePiece(inode) ==
  IF inode.type = "reg"
    THEN /\ inode.size \in 1..Super.block_size /\ ~inode.fragment
         /\ \A i \in DOMAIN inode.blocks : i = 1 => inode.blocks[i].plain
    ELSE FALSE
SquashTreeIsTheImage ==
  Finished("squash") =>
    /\ result = "Ok" => found.cursor = image.cursor /\ found.detected # FALSE
    /\ InOneBlock =>
         IF result = "Ok"
           THEN TreeOf(LAMBDA k : << PathOf(k), nodes[k].location # None >>)
                  = { << x[1], InOnePiece(InodeOf(x[2])) >> :
                        x \in { y \in SquashNames : y[1] # <<>> } }
           ELSE \/ ~IsSuper \/ ~Super.plain
                \/ \E x \in SquashNames :
                     \/ Len(x[1]) > SquashDepth \/ ~CanReadInode(x[2])
                     \/ IF CanReadInode(x[2]) /\ InodeOf(x[2]).type = "dir"
                          THEN ~CanReadDirectory(InodeOf(x[2])) ELSE FALSE

-----------------------------------------------------------------------------
(* The size of every directory is that of all files under it, however      *)
(* deep, in the tree of any reader, as far as a u64 holds it.              *)
DirectorySizesAreTotals ==
  result = "Ok" =>
    \A d \in DOMAIN nodes :
      nodes[d].is_directory =>
        nodes[d].size
          = TotalSize(nodes, { k \in DOMAIN nodes : ~nodes[k].is_directory
                                                     /\ d \in Ancestors(k) })
              % Word

(* src/formats/gpt.rs:203: a partition's name is "always uniquely          *)
(* resolvable via TreeNode::find_node", whatever the disk calls it; and a  *)
(* disk with a usable GPT shows the GPT's partitions, never the one that   *)
(* guards it.                                                              *)
PartitionsResolve ==
  Finished("disk") /\ result = "Ok" =>
    /\ \A k \in 2..Len(nodes) :
         /\ find_node(nodes, 1, << nodes[k].name >>) = k
         /\ Slash \notin ToSet(nodes[k].name)
    /\ HasGpt /\ image.via # "mbr" =>
         Len(nodes) - 1 = Cardinality({ i \in DOMAIN image.gpt.array :
                                          image.gpt.array[i].used })

(* What a container's headers promise is there: a located disk lies in     *)
(* front of the footer, to its last byte, and what is parsed has been      *)
(* detected; detect leaves the cursor where the caller had it.             *)
ContainersHoldTheirDisks ==
  Finished("container") =>
    /\ found.cursor = image.cursor
    /\ result = "Ok" =>
         /\ image.probed => found.detected
         /\ \A k \in DOMAIN nodes :
              nodes[k].location # None =>
                read_at(Trailer, nodes[k].location, nodes[k].length)
=============================================================================
