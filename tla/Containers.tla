----------------------------- MODULE Containers -----------------------------
(***************************************************************************)
(* The formats of which only the headers are read: src/formats/vhd.rs,     *)
(* qcow2.rs, vmdk.rs, wim.rs, dmg.rs and apfs.rs.  A caller detects a      *)
(* format first and parses it then, on one cursor; image.probed says       *)
(* whether it does.  The file is memory-mapped (src/image_io/mmap.rs).     *)
(***************************************************************************)
EXTENDS PartitionTables

CONSTANTS
  FooterSize,              \* of a VHD or DMG: 512
  DynamicSize,             \* of a VHD's dynamic header: 1024
  MagicSize,               \* what detect reads
  NxMagicAt, NxBlockSize,  \* 32; the block size of APFS ends at 40
  WimHeader, VmdkHeader,   \* 208 and 512
  QcowHeader,              \* 72
  MinBits, MaxBits,        \* of a QCOW2 cluster: 9 and 21
  MaxXml,                  \* 64 MiB for a WIM, 32 MiB for a DMG
  MaxImages, MaxOids,      \* 4096 images of a WIM, 100 volumes of APFS
  MinBlock, MaxBlock,      \* 4096 and 65536
  NameInVolume             \* the bytes of an APFS volume up to its name's end

(* A magic number lies in the header it begins.                            *)
ASSUME ContainerAssumption ==
  /\ \A n \in {FooterSize, DynamicSize, MagicSize, WimHeader, VmdkHeader, QcowHeader} :
       n \in Nat
  /\ \A n \in {FooterSize, WimHeader, VmdkHeader, QcowHeader} : MagicSize <= n
  /\ MaxImages \in Nat /\ MaxOids \in Nat

(* A file and what stands in its header; `closed` is FALSE where the XML   *)
(* ends inside the element.                                                *)
Element == [closed : BOOLEAN, index : Nat, name : Seq(Nat), bytes : Nat]
IsNxSuperblock(h) ==
  h.magic \in BOOLEAN /\ h.block_size \in Nat /\ h.oids \in Seq(Nat)
IsHeader(format, h) ==
  CASE format = "vhd" ->
         h \in [ magic : BOOLEAN, checksum : BOOLEAN, dynamic : BOOLEAN,
                 type : {"fixed", "dynamic", "differencing"},
                 size : Nat, data_offset : Nat ]
    [] format = "qcow2" ->
         h \in [ magic : BOOLEAN, version : Nat, cluster_bits : Nat,
                 encryption : Nat, size : Nat ]
    [] format = "vmdk" ->
         h \in [magic : BOOLEAN, version : Nat, compressed : BOOLEAN, capacity : Nat]
    [] format = "wim" ->
         h \in [ magic : BOOLEAN, compressed : BOOLEAN, offset : Nat, length : Nat,
                 images : Nat, xml : Seq(Element) ]
    [] format = "dmg" ->
         h \in [ magic : BOOLEAN, version : Nat, offset : Nat, length : Nat,
                 sectors : Nat, xml : Seq(Element) ]
    [] format = "apfs" -> IsNxSuperblock(h)
IsContainer(c) ==
  /\ c.format \in {"vhd", "qcow2", "vmdk", "wim", "dmg", "apfs"}
  /\ c.size \in Nat /\ c.cursor \in Nat /\ c.probed \in BOOLEAN
  /\ IsHeader(c.format, c.header)

Format(f) == image.format = f
Header == image.header
Trailer == FromEnd(image.size, -FooterSize)
CanRead(at, n) == read_exact(image.size, seek(0, at), n)

-----------------------------------------------------------------------------
(* detect: the magic is looked for, in a file that has room for all of the *)
(* header where the format asks for it, and the cursor is put back.        *)
MagicAt ==
  CASE Format("vhd") \/ Format("dmg") -> Trailer
    [] Format("apfs") -> NxMagicAt [] OTHER -> 0
HasMagic == CanRead(MagicAt, MagicSize) /\ Header.magic
VhdDetects == image.size >= FooterSize /\ HasMagic
QcowDetects == HasMagic
VmdkDetects == image.size >= VmdkHeader /\ HasMagic
WimDetects == image.size >= WimHeader /\ HasMagic
DmgDetects == image.size >= FooterSize /\ HasMagic
ApfsDetects == HasMagic
Detected ==
  CASE Format("vhd") -> VhdDetects [] Format("qcow2") -> QcowDetects
    [] Format("vmdk") -> VmdkDetects [] Format("wim") -> WimDetects
    [] Format("dmg") -> DmgDetects [] Format("apfs") -> ApfsDetects
Detect ==
  /\ At("container", "detect") /\ image.probed
  /\ found' = [ detected |-> Detected, cursor |->
                 PutBack(image.size, found.cursor, MagicAt, MagicSize) ]
  /\ Goto("open") /\ UNCHANGED <<stack, nodes>>
Unprobed ==
  /\ At("container", "detect") /\ ~image.probed
  /\ Goto("open") /\ UNCHANGED <<found, stack, nodes>>

-----------------------------------------------------------------------------
(* What each header allows, and the children of the root it stands for.    *)
Directory(name) == new_directory(name, 1)
Virtual(name, size) == [new_file(name, size, 1) EXCEPT !.length = size]

(* VHD: a fixed disk lies before the footer, the blocks of a dynamic one   *)
(* are not located.  (Mutant: the footer is not held back.)                *)
UpToTheEnd(size) == size <= image.size
FitsBefore(size) == size <= Trailer
VhdIsSound ==
  /\ image.size >= FooterSize /\ Header.magic /\ Header.checksum
  /\ CASE Header.type = "fixed" -> FitsBefore(Header.size)
       [] Header.type = "dynamic" ->
            CanRead(Header.data_offset, DynamicSize) /\ Header.dynamic
       [] OTHER -> FALSE
VhdChildren ==
  << IF Header.type = "fixed"
       THEN new_file_with_location(<<"disk.img">>, Header.size, 0, Header.size, 1)
       ELSE Virtual(<<"disk.img">>, Header.size) >>

QcowIsSound ==
  /\ image.size >= QcowHeader /\ Header.magic /\ Header.version \in {2, 3}
  /\ Header.cluster_bits \in MinBits..MaxBits /\ Header.encryption = 0
QcowChildren == << Virtual(<<"disk.qcow2">>, Header.size) >>

VmdkIsSound ==
  /\ image.size >= VmdkHeader /\ Header.magic /\ Header.version \in {1, 3}
  /\ ~Header.compressed
  /\ Header.capacity * DiskSector < Word
VmdkChildren == << Virtual(<<"disk.vmdk">>, Header.capacity * DiskSector) >>

(* WIM: the images its XML names, up to one that is not closed, by their   *)
(* index; without any as many as the header counts.  The size the XML      *)
(* gives is set and lost when the directory sizes are calculated.          *)
Closed(xml) ==
  LET open == { i \in DOMAIN xml : ~xml[i].closed }
  IN  SubSeq(xml, 1, Cardinality({ i \in DOMAIN xml : \A j \in open : i < j }))
IsUtf16(length) == length % 2 = 0
WimIsSound ==
  /\ image.size >= WimHeader /\ Header.magic /\ ~Header.compressed
  /\ Header.length <= MaxXml /\ Header.offset + Header.length <= image.size
  /\ IsUtf16(Header.length)
ByIndex(xml) ==
  LET base == Len(xml) + 1
      order == InOrder({ xml[i].index * base + i : i \in DOMAIN xml })
  IN  [k \in DOMAIN xml |-> xml[order[k] % base]]
ImageName(x) == IF x.name = <<>> THEN <<"Image", x.index>> ELSE x.name
WimChildren ==
  LET xml == ByIndex(Closed(Header.xml))
      count == IF Header.images < MaxImages THEN Header.images ELSE MaxImages
  IN  IF xml = <<>>
        THEN [i \in 1..count |-> Directory(<<"Image", i>>)]
        ELSE [k \in DOMAIN xml |->
                [Directory(ImageName(xml[k])) EXCEPT !.size = xml[k].bytes]]

(* DMG: the named partitions of its property list; without any, the disk.  *)
DmgIsSound ==
  image.size >= FooterSize /\ Header.magic /\ Header.version = 4
DmgXml ==
  IF /\ Header.length \in 1..MaxXml
     /\ Header.offset + Header.length <= image.size
    THEN Select(Closed(Header.xml), LAMBDA x : x.name # <<>>) ELSE <<>>
DmgChildren ==
  IF DmgXml = <<>>
    THEN << Virtual(<<"disk.dmg">>, Saturated(Header.sectors * DiskSector)) >>
    ELSE [k \in DOMAIN DmgXml |-> Directory(DmgXml[k].name)]

(* APFS: the volumes up to an unused slot.  A name is read at the block    *)
(* the object is taken to lie at, as far as a u64 holds its place; where   *)
(* names are is a matter of blocks and not of objects.                     *)
ApfsIsSound ==
  /\ ApfsDetects /\ image.size >= NxBlockSize
  /\ Header.block_size \in { 2 ^ b : b \in 0..MaxBits }
  /\ Header.block_size \in MinBlock..MaxBlock
Oids ==
  LET unused == { i \in DOMAIN Header.oids : Header.oids[i] = 0 }
  IN  SubSeq(Header.oids, 1, Cardinality({ i \in DOMAIN Header.oids :
                               i <= MaxOids /\ \A j \in unused : i < j }))
VolumePlace(oid) == (oid * Header.block_size) % Word
VolumeName(oid) ==
  LET block == VolumePlace(oid) \div Header.block_size
      names == Header.volumes
  IN  IF /\ block \in DOMAIN names /\ CanRead(VolumePlace(oid), NameInVolume)
         /\ names[block] # <<>>
        THEN names[block] ELSE <<"volume", oid>>
ApfsChildren == [k \in DOMAIN Oids |-> Directory(VolumeName(Oids[k]))]

IsSound ==
  CASE Format("vhd") -> VhdIsSound [] Format("qcow2") -> QcowIsSound
    [] Format("vmdk") -> VmdkIsSound [] Format("wim") -> WimIsSound
    [] Format("dmg") -> DmgIsSound [] Format("apfs") -> ApfsIsSound
HeaderChildren ==
  CASE Format("vhd") -> VhdChildren [] Format("qcow2") -> QcowChildren
    [] Format("vmdk") -> VmdkChildren [] Format("wim") -> WimChildren
    [] Format("dmg") -> DmgChildren [] Format("apfs") -> ApfsChildren

ParseHeaders ==
  /\ At("container", "open") /\ IsSound
  /\ Answer(calculate_directory_size(WithRoot \o HeaderChildren))
RefuseHeaders == At("container", "open") /\ ~IsSound /\ Refuse

ContainerNext == Detect \/ Unprobed \/ ParseHeaders \/ RefuseHeaders
=============================================================================
