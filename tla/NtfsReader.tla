----------------------------- MODULE NtfsReader -----------------------------
(***************************************************************************)
(* src/formats/ntfs.rs: the boot sector, the records of the master file    *)
(* table one after the other, their names and data attributes, and the     *)
(* tree built from the parent each record names.                           *)
(***************************************************************************)
EXTENDS ParsedTree

CONSTANTS
  SectorSizeLow, SectorSizeHigh,  \* 512 and 4096
  MaxRecordSize,                  \* 65536
  RecordGuard,                    \* the last record tried: 1000000
  SystemRecordCount,              \* 12
  RootRecord,                     \* 5
  NtfsDepth,                      \* MAX_DEPTH, 32
  SignatureSize, FixupSize,       \* what a record must hold to be looked at
  FlagsEnd,                       \* and repaired, and where its flags end: 4,
                                  \* 8 and 24
  OemAt, OemSize                  \* the OEM ID is 8 bytes at offset 3

ASSUME NtfsAssumption ==
  /\ {RecordGuard, SystemRecordCount, RootRecord, NtfsDepth} \subseteq Nat
  /\ {OemAt, OemSize, SignatureSize, FixupSize, FlagsEnd} \subseteq Nat
  /\ SignatureSize <= FixupSize /\ FixupSize <= FlagsEnd
  /\ RootRecord < SystemRecordCount

Posix == 0
Win32 == 1
Dos == 2
Win32AndDos == 3

(* An attribute; `fits` is FALSE where the rest of the record cannot be    *)
(* walked, `whole` where the value does not lie in its attribute, or the   *)
(* header of a non-resident one does not.  A run without an offset is      *)
(* sparse; no field of a run is longer than eight bytes.  "edge" is a      *)
(* header of eight bytes at the very end of the record, which gives its    *)
(* attribute no more than these.                                           *)
Attribute ==
  [ type : {"name"}, fits : BOOLEAN, whole : BOOLEAN, parent : Nat,
    name : Seq(Nat), namespace : Nat, directory : BOOLEAN ]
  \cup [ type : {"data"}, fits : BOOLEAN, whole : BOOLEAN, resident : BOOLEAN,
         at : Nat, size : Nat,
         runs : Seq([sparse : BOOLEAN, delta : Int, length : Nat]) ]
  \cup [ type : {"other", "edge"}, fits : BOOLEAN ]
(* A volume, which begins at the place the caller left the cursor; one too *)
(* short for a boot sector has no OEM ID.  `failing` are the records that  *)
(* cannot be sought or read; those behind the end of the image are not in  *)
(* `mft`.  Places in the image are below 2^64.                             *)
IsNtfs(v) ==
  /\ v.base \in Nat /\ v.size \in Nat /\ v.probed \in BOOLEAN
  /\ v.failing \subseteq Nat
  /\ v.boot \in [ oem : BOOLEAN, bytes_per_sector : Nat, cpfrs : -128..127,
                  sectors_per_cluster : Nat, mft_lcn : Nat ]
  /\ v.mft \in Seq([ file : BOOLEAN, usa : BOOLEAN, in_use : BOOLEAN,
                     attributes : Seq(Attribute) ])

-----------------------------------------------------------------------------
Boot == image.boot
cluster_size == Boot.bytes_per_sector * Boot.sectors_per_cluster
(* Where no overflow is looked for, a shift of 64 and more begins again.   *)
mft_record_size ==
  IF Boot.cpfrs > 0 THEN Boot.cpfrs * cluster_size ELSE 2 ^ ((-Boot.cpfrs) % 64)
IsNtfsBoot ==
  /\ found.cursor = image.base
  /\ Boot.oem /\ Boot.sectors_per_cluster # 0
  /\ Boot.bytes_per_sector \in SectorSizeLow..SectorSizeHigh
  /\ mft_record_size \in 1..MaxRecordSize
RecordOffset(n) == found.base + Boot.mft_lcn * cluster_size + n * mft_record_size

(* detect looks at the cursor, where detect_and_parse looks again.         *)
NtfsDetect ==
  /\ At("ntfs", "detect") /\ image.probed
  /\ found' = [cursor |-> PutBack(image.size, found.cursor,
                                  found.cursor + OemAt, OemSize)]
  /\ Goto("boot") /\ UNCHANGED <<stack, nodes>>
NtfsUnprobed ==
  /\ At("ntfs", "detect") /\ ~image.probed
  /\ Goto("boot") /\ UNCHANGED <<found, stack, nodes>>

BadBoot ==
  /\ At("ntfs", "boot") /\ ~IsNtfsBoot
  /\ Stop("Err") /\ UNCHANGED <<found, stack, nodes>>
ReadBoot ==
  /\ At("ntfs", "boot") /\ IsNtfsBoot
  /\ found' = [base |-> found.cursor, mft_num |-> 0, records |-> <<>>]
  /\ Goto("mft") /\ UNCHANGED <<stack, nodes>>

-----------------------------------------------------------------------------
(* decode_runlist: the first cluster of every run that has one.            *)
Lcn(runs, i) ==
  LET at[k \in 0..Len(runs)] == IF k = 0 THEN 0 ELSE at[k - 1] + runs[k].delta
  IN  at[i]
Physical(runs) == { i \in DOMAIN runs : ~runs[i].sparse }
had_sparse(runs) == \E i \in DOMAIN runs : runs[i].sparse

(* extract_record_info.  Of the names the best namespace counts, of those  *)
(* the first.  Every data attribute sets the size, a resident one or one   *)
(* of a single run the location too, which otherwise stays as it was.      *)
(* (Mutant: a sparse run does no harm.)                                    *)
Walked(record) ==
  LET as == record.attributes
      ends == { i \in DOMAIN as : ~as[i].fits }
  IN  SubSeq(as, 1, Cardinality({ i \in DOMAIN as : \A j \in ends : i < j }))
namespace_priority(ns) ==
  CASE ns = Win32AndDos -> 3 [] ns = Win32 -> 2 [] ns = Posix -> 1 [] OTHER -> 0
NamesOf(record) ==
  Select(Walked(record),
         LAMBDA a : IF a.type = "name" THEN a.whole /\ a.namespace # Dos
                    ELSE FALSE)
BestName(names) ==
  names[CHOOSE i \in DOMAIN names : \A j \in DOMAIN names :
          LET p(k) == namespace_priority(names[k].namespace)
          IN  p(j) < p(i) \/ (p(j) = p(i) /\ i <= j)]
DataOf(record) ==
  Select(Walked(record),
         LAMBDA a : IF a.type = "data" THEN a.whole ELSE FALSE)
OnePhysical(a, n) ==
  IF a.resident THEN RecordOffset(n) + a.at
  ELSE IF Cardinality(Physical(a.runs)) = 1
         THEN LET i == CHOOSE i \in Physical(a.runs) : TRUE
              IN  found.base + Lcn(a.runs, i) * cluster_size
  ELSE None
Located(a, n) ==
  IF a.resident THEN RecordOffset(n) + a.at
  ELSE IF Len(a.runs) = 1 /\ ~had_sparse(a.runs)
         THEN found.base + Lcn(a.runs, 1) * cluster_size
  ELSE None
FileLocation(data, n) ==
  LET set == { i \in DOMAIN data : Located(data[i], n) # None }
  IN  IF set = {} THEN None
      ELSE Located(data[CHOOSE i \in set : \A j \in set : j <= i], n)
RecordInfo(record, n) ==
  LET name == BestName(NamesOf(record))
      data == DataOf(record)
  IN  [ mft_num |-> n, name |-> name.name, parent_ref |-> name.parent,
        is_directory |-> name.directory,
        file_size |-> IF data = <<>> THEN 0 ELSE Last(data).size,
        file_location |-> FileLocation(data, n) ]

(* A record behind the end of the image counts as one that is not in use,  *)
(* as one without a sound update sequence does.                            *)
(* (Mutant: what is not in use is kept.)                                   *)
Fixed(n) ==
  IF n + 1 \in DOMAIN image.mft
    THEN /\ image.mft[n + 1].file /\ image.mft[n + 1].usa
         /\ mft_record_size >= FixupSize
    ELSE FALSE
Readable(n) == IF Fixed(n) THEN image.mft[n + 1].in_use ELSE FALSE
IsRecord(n) ==
  /\ n >= SystemRecordCount /\ n # RootRecord
  /\ Readable(n) /\ NamesOf(image.mft[n + 1]) # <<>>

(* What is read beyond the end of the record: the signature, the flags, or *)
(* the byte behind the header of its last attribute.                       *)
Breaks(n) ==
  \/ n + 1 \in DOMAIN image.mft /\ mft_record_size < SignatureSize
  \/ Fixed(n) /\ mft_record_size < FlagsEnd
  \/ /\ n >= SystemRecordCount /\ Readable(n)
     /\ \E a \in ToSet(Walked(image.mft[n + 1])) : a.type = "edge"

AtRecord == At("ntfs", "mft") /\ found.mft_num <= RecordGuard
RecordRead == found.mft_num \notin image.failing
ReadError ==
  /\ AtRecord /\ ~RecordRead
  /\ Stop("Err") /\ UNCHANGED <<found, stack, nodes>>
RecordPanics ==
  /\ AtRecord /\ RecordRead /\ Breaks(found.mft_num)
  /\ Stop("Panic") /\ UNCHANGED <<found, stack, nodes>>
KeepRecord ==
  /\ AtRecord /\ RecordRead /\ ~Breaks(found.mft_num) /\ IsRecord(found.mft_num)
  /\ found' = [ found EXCEPT !.mft_num = @ + 1, !.records =
                 Append(@, RecordInfo(image.mft[found.mft_num + 1], found.mft_num)) ]
  /\ Goto("mft") /\ UNCHANGED <<stack, nodes>>
PassRecord ==
  /\ AtRecord /\ RecordRead /\ ~Breaks(found.mft_num) /\ ~IsRecord(found.mft_num)
  /\ found' = [found EXCEPT !.mft_num = @ + 1]
  /\ Goto("mft") /\ UNCHANGED <<stack, nodes>>

-----------------------------------------------------------------------------
(* build_tree_recursive over the records by their parents.                 *)
ChildrenOf(n) ==
  Select(found.records, LAMBDA r : r.parent_ref = n /\ r.parent_ref # r.mft_num)
BuildTree ==
  /\ At("ntfs", "mft") /\ found.mft_num > RecordGuard
  /\ nodes' = WithRoot
  /\ stack' = << Frame(1, ChildrenOf(RootRecord)) >>
  /\ Goto("tree") /\ UNCHANGED found

NtfsFile ==
  /\ At("ntfs", "tree") /\ Busy /\ ~Entry.is_directory
  /\ AddFile(IF Entry.file_location = None
               THEN new_file(Entry.name, Entry.file_size, Top.node)
               ELSE new_file_with_location(Entry.name, Entry.file_size,
                      Entry.file_location, Entry.file_size, Top.node))
  /\ Goto("tree") /\ UNCHANGED found
NtfsDirectory ==
  /\ At("ntfs", "tree") /\ Busy /\ Entry.is_directory
  /\ Len(stack) <= NtfsDepth
  /\ AddDirectory(Entry.name, ChildrenOf(Entry.mft_num))
  /\ Goto("tree") /\ UNCHANGED found
NtfsTooDeep ==
  /\ At("ntfs", "tree") /\ Busy /\ Entry.is_directory
  /\ Len(stack) > NtfsDepth
  /\ Skip /\ Goto("tree") /\ UNCHANGED found
NtfsReturn == At("ntfs", "tree") /\ Return

NtfsNext ==
  \/ NtfsDetect \/ NtfsUnprobed \/ BadBoot \/ ReadBoot
  \/ ReadError \/ RecordPanics \/ KeepRecord \/ PassRecord \/ BuildTree
  \/ NtfsFile \/ NtfsDirectory \/ NtfsTooDeep \/ NtfsReturn
=============================================================================
