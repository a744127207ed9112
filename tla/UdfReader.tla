----------------------------- MODULE UdfReader ------------------------------
(***************************************************************************)
(* src/udf.rs: the recognition sequence, the anchor, the volume descriptor *)
(* sequence, the file set and the recursion over the directories of a disc *)
(* image that is not read as ISO 9660.  As in IsoReader a sector's content *)
(* is known by its tag, and sizes and places are counted in sectors.       *)
(***************************************************************************)
EXTENDS IsoReader

CONSTANTS
  VrsSectors,   \* sectors looked at for a marker: 16 in the code
  AnchorAt,     \* the sector of the anchor: 256
  CompactFrom,  \* the first sector tried in an image that is smaller: 32
  FsdWindow,    \* sectors behind the expected file set that are tried: 31
  TypeUnit      \* a descriptor's type stands above its length: 2^30

ASSUME UdfAssumption ==
  /\ {AnchorAt, CompactFrom, FsdWindow, TypeUnit} \subseteq Nat
  /\ None \notin [location : Nat, partition : Nat] \cup [start : Nat, icb : Nat]

(* An allocation descriptor: type 0 is recorded, 1 allocated only, 3 goes  *)
(* on elsewhere.                                                           *)
ExtentAd == [type : 0..3, length : Nat, location : Nat]
(* An entry of a directory.  `bad` is one that is no identifier or leaves  *)
(* the directory, `blank` four zero bytes.                                 *)
Fid == [ bad : BOOLEAN, blank : BOOLEAN, deleted : BOOLEAN, parent : BOOLEAN,
         dir : BOOLEAN, id : Seq(Nat), icb : Nat ]
IsUdfSector(c) ==
  \/ c.tag \in {"nsr", "td", "blank"}
  \/ c.tag = "avdp" /\ {c.location, c.length} \subseteq Nat
  \/ c.tag = "pd" /\ c.number \in Nat /\ c.start \in Nat
  \/ c.tag = "lvd"
       /\ c.fsd \in [location : Nat, partition : Nat]
       /\ c.maps \in Seq([meta : BOOLEAN, length : Nat, ref : Nat, file : Nat])
  \/ c.tag = "fsd" /\ c.root \in Nat
  \/ c.tag = "fe"
       /\ c.flags \in {"short", "long", "inline", "other"}
       /\ c.ads \in Seq(ExtentAd) /\ c.fids \in Seq(Fid) /\ c.size \in Nat
  \/ c.tag = "fids" /\ c.fids \in Seq(Fid)

Sector(s) == image.sectors[s]
LastSector == Cardinality(DOMAIN image.sectors)

-----------------------------------------------------------------------------
(* The anchor is the first of the candidates that is one; a candidate that *)
(* cannot be read is passed over.                                          *)
Candidates ==
  << AnchorAt >>
    \o (IF LastSector # AnchorAt THEN << LastSector >> ELSE <<>>)
    \o (IF LastSector > AnchorAt THEN << LastSector - AnchorAt >> ELSE <<>>)
    \o [ i \in 1..((IF LastSector < AnchorAt THEN LastSector ELSE AnchorAt)
                   - CompactFrom) |-> CompactFrom + i - 1 ]
Anchors == Select(Candidates, LAMBDA s : Holds(s, "avdp"))
HasMarker == \E s \in VdStart .. (VdStart + VrsSectors - 1) : Holds(s, "nsr")
Recognised == HasMarker /\ Anchors # <<>>

NotUdf ==
  /\ At("disc", "vrs") /\ ~Recognised
  /\ Stop("Err") /\ UNCHANGED <<found, stack, nodes>>
FindAnchor ==
  /\ At("disc", "vrs") /\ Recognised
  /\ LET vds == Sector(Head(Anchors))
     IN  found' = [ sector |-> vds.location, end |-> vds.location + vds.length,
                    partitions |-> <<>>, fsd |-> None, meta |-> None ]
  /\ Goto("vds") /\ UNCHANGED <<stack, nodes>>

-----------------------------------------------------------------------------
(* The volume descriptors: every partition is kept, of the logical volumes *)
(* the last counts.  A partition map of length zero ends the maps.         *)
MetaMap(maps) ==
  LET empty == { i \in DOMAIN maps : maps[i].length = 0 }
      meta == { i \in DOMAIN maps :
                  maps[i].meta /\ \A j \in empty : i < j }
  IN  IF meta = {} THEN None ELSE maps[CHOOSE i \in meta : \A j \in meta : j <= i]
WithPartition(f, c) ==
  [f EXCEPT !.sector = @ + 1,
            !.partitions = Append(@, [number |-> c.number, start |-> c.start])]
WithVolume(f, c) ==
  [f EXCEPT !.sector = @ + 1, !.fsd = c.fsd,
            !.meta = IF MetaMap(c.maps) = None THEN @ ELSE MetaMap(c.maps)]

MoreDescriptors == At("disc", "vds") /\ found.sector < found.end
ReadVds ==
  /\ MoreDescriptors /\ found.sector \in DOMAIN image.sectors
  /\ LET c == Sector(found.sector)
     IN  found' = CASE c.tag = "pd" -> WithPartition(found, c)
                    [] c.tag = "lvd" -> WithVolume(found, c)
                    [] c.tag = "td" -> [found EXCEPT !.end = found.sector]
                    [] OTHER -> [found EXCEPT !.sector = @ + 1]
  /\ Goto("vds") /\ UNCHANGED <<stack, nodes>>
VdsFails ==
  /\ MoreDescriptors /\ found.sector \notin DOMAIN image.sectors
  /\ Stop("Err") /\ UNCHANGED <<found, stack, nodes>>

-----------------------------------------------------------------------------
(* get_file_allocation: the descriptors up to an empty one or one of type  *)
(* 3.  Only recorded extents are kept, all count in the length; where the  *)
(* flags say neither, the first descriptor is taken as it stands.          *)
Used(ads) ==
  LET ends == { i \in DOMAIN ads : ads[i].length = 0 \/ ads[i].type = 3 }
  IN  SubSeq(ads, 1, Cardinality({ i \in DOMAIN ads : \A j \in ends : i < j }))
SumOf(ads) ==
  LET sum[i \in 0..Len(ads)] == IF i = 0 THEN 0 ELSE sum[i - 1] + ads[i].length
  IN  sum[Len(ads)]
Recorded(ads) == Select(Used(ads), LAMBDA a : a.type = 0)
TotalLength(ads) == SumOf(Used(ads))
AsItStands(ads) ==
  IF ads = <<>> THEN <<>>
  ELSE LET raw == [ads[1] EXCEPT !.length = @ + TypeUnit * ads[1].type]
       IN  IF raw.length = 0 THEN <<>> ELSE << raw >>
Extents(c) ==
  CASE c.flags \in {"short", "long"} -> Recorded(c.ads)
    [] c.flags = "inline" -> <<>>
    [] c.flags = "other" -> AsItStands(c.ads)
Inline(c) == c.flags = "inline" /\ c.size > 0
Length(c) == CASE c.flags \in {"short", "long"} -> TotalLength(c.ads)
               [] c.flags = "inline" -> c.size
               [] c.flags = "other" -> SumOf(AsItStands(c.ads))
CanAllocate(s) ==
  IF Holds(s, "fe") THEN Extents(Sector(s)) # <<>> \/ Inline(Sector(s)) ELSE FALSE

(* A directory's identifiers, from its entry or from all its extents, up   *)
(* to a bad one.  (Mutant: from the first extent.)                         *)
FidsIn(s) == IF Holds(s, "fids") THEN Sector(s).fids ELSE <<>>
CanList(start, icb) ==
  /\ CanAllocate(start + icb)
  /\ \A x \in ToSet(Extents(Sector(start + icb))) :
       InImage(start + x.location, x.length)
FirstExtentOnly(start, icb) ==
  LET c == Sector(start + icb)
  IN  IF Inline(c) THEN c.fids ELSE FidsIn(start + Head(Extents(c)).location)
AllFids(start, icb) ==
  LET c == Sector(start + icb)
      of(x) == FlattenSeq([i \in 1..x.length |-> FidsIn(start + x.location + i - 1)])
  IN  IF Inline(c) THEN c.fids
      ELSE FlattenSeq([j \in DOMAIN Extents(c) |-> of(Extents(c)[j])])
Identifiers(start, icb) ==
  LET fids == AllFids(start, icb)
      bad == { i \in DOMAIN fids : fids[i].bad }
  IN  SubSeq(fids, 1, Cardinality({ i \in DOMAIN fids : \A j \in bad : i < j }))

-----------------------------------------------------------------------------
(* Where the partition begins: in the one with the number asked for, or    *)
(* in the first; in a metadata partition at the first extent of its file.  *)
Numbered(number) ==
  Select(found.partitions, LAMBDA p : p.number = number)
PartitionStart ==
  IF found.meta # None
    THEN LET own == Numbered(found.meta.ref)
         IN  IF own = <<>> THEN None
             ELSE LET fe == Head(own).start + found.meta.file
                  IN  IF ~CanAllocate(fe) THEN None
                      ELSE IF Extents(Sector(fe)) = <<>> THEN None
                      ELSE Head(own).start + Head(Extents(Sector(fe))).location
    ELSE LET own == Numbered(found.fsd.partition) \o found.partitions
         IN  IF own = <<>> THEN None ELSE Head(own).start

(* The file set is where the volume says or in the window behind it; a     *)
(* sector that cannot be read before it is found is an error.              *)
FileSet(at) ==
  LET here == { i \in 0..FsdWindow :
                  /\ Holds(at + i, "fsd")
                  /\ InImage(at, i) }
  IN  IF here = {} THEN None ELSE at + CHOOSE i \in here : \A j \in here : i <= j

VolumeRoot ==
  IF found.fsd = None THEN None
  ELSE LET start == PartitionStart
       IN  IF start = None THEN None
           ELSE LET fsd == FileSet(start + found.fsd.location)
                IN  IF fsd = None THEN None
                    ELSE [start |-> start, icb |-> Sector(fsd).root]
AtVolume == At("disc", "vds") /\ found.sector >= found.end
BadVolume ==
  /\ AtVolume
  /\ \/ VolumeRoot = None
     \/ VolumeRoot # None /\ ~CanList(VolumeRoot.start, VolumeRoot.icb)
  /\ Stop("Err") /\ UNCHANGED <<found, stack, nodes>>
OpenUdf ==
  /\ AtVolume
  /\ LET root == VolumeRoot
     IN  /\ root # None
         /\ CanList(root.start, root.icb)
         /\ found' = root
         /\ stack' = << Frame(1, Identifiers(root.start, root.icb)) >>
  /\ nodes' = WithRoot
  /\ Goto("udf")

-----------------------------------------------------------------------------
(* The first byte of an identifier says whether a character of the name    *)
(* has one byte or two, the higher first; without a known one it belongs   *)
(* to the name.                                                            *)
InPairs(bytes) ==
  [ i \in 1..(Len(bytes) \div 2) |-> 256 * bytes[2 * i - 1] + bytes[2 * i] ]
parse_udf_name(data) ==
  IF data = <<>> THEN <<>>
  ELSE CASE Head(data) = 8  -> Tail(data)
         [] Head(data) = 16 -> InPairs(Tail(data))
         [] OTHER -> data
GivenUdfName(f) == parse_udf_name(f.id)

(* The entries.  What an entry's ICB says of the partition is not used.    *)
(* (Mutant: the entry for the parent is followed.)                         *)
EvenTheParent(f) == f.blank \/ f.deleted \/ GivenUdfName(f) = <<>>
Hidden(f) == f.blank \/ f.deleted \/ f.parent \/ GivenUdfName(f) = <<>>
UdfSkip ==
  /\ At("disc", "udf") /\ Busy /\ Hidden(Entry)
  /\ Skip /\ Goto("udf") /\ UNCHANGED found

(* A file whose data is inline, or that cannot be read, has no location;   *)
(* of several extents the first gives the location of all.                 *)
FileNode(name, s, parent) ==
  IF ~CanAllocate(s) THEN new_file(name, 0, parent)
  ELSE IF Extents(Sector(s)) = <<>> THEN new_file(name, Length(Sector(s)), parent)
  ELSE new_file_with_location(name, Length(Sector(s)),
         found.start + Head(Extents(Sector(s))).location, Length(Sector(s)), parent)
UdfFile ==
  /\ At("disc", "udf") /\ Busy /\ ~Hidden(Entry) /\ ~Entry.dir
  /\ AddFile(FileNode(GivenUdfName(Entry), found.start + Entry.icb, Top.node))
  /\ Goto("udf") /\ UNCHANGED found

(* A subdirectory that cannot be read is left empty.                       *)
AtUdfDirectory == At("disc", "udf") /\ Busy /\ ~Hidden(Entry) /\ Entry.dir
UdfDirectory ==
  /\ AtUdfDirectory /\ Len(stack) < CallDepth
  /\ CanList(found.start, Entry.icb)
  /\ AddDirectory(GivenUdfName(Entry), Identifiers(found.start, Entry.icb))
  /\ Goto("udf") /\ UNCHANGED found
UdfUnreadable ==
  /\ AtUdfDirectory /\ Len(stack) < CallDepth
  /\ ~CanList(found.start, Entry.icb)
  /\ AddDirectory(GivenUdfName(Entry), <<>>)
  /\ Goto("udf") /\ UNCHANGED found
UdfAborts ==
  /\ AtUdfDirectory /\ Len(stack) = CallDepth
  /\ Stop("Abort") /\ UNCHANGED <<found, stack, nodes>>
UdfReturn == At("disc", "udf") /\ Return

UdfNext ==
  \/ NotUdf \/ FindAnchor \/ ReadVds \/ VdsFails \/ BadVolume \/ OpenUdf
  \/ UdfSkip \/ UdfFile \/ UdfDirectory \/ UdfUnreadable \/ UdfAborts \/ UdfReturn
=============================================================================
