----------------------------- MODULE ZipReader ------------------------------
(***************************************************************************)
(* `detect_and_parse` of src/formats/zip.rs: the search for the end        *)
(* record, the list of the central directory, the tree.  Any read may      *)
(* fail, when `faulty`.  The search is one action: it reads one buffer.    *)
(***************************************************************************)
EXTENDS ZipFormat, SequencesExt, FiniteSetsExt

CONSTANTS Archives    \* what is parsed
ASSUME ArchivesAssumption == Archives \subseteq Seq(Units)

VARIABLES
  faulty,        \* the image may fail to be read
  pc,            \* "search", "locate", "wide", "load", "list", "build", "done"
  eocd_pos,      \* where the end record was found
  wide_pos,      \* where the locator says the 64-bit end record is
  cd_offset, cd_size,
  pos,           \* in parse_central_directory: from the directory's start
  entries,       \* what the directory lists
  built,         \* the entries build_tree has dealt with
  nodes,         \* path -> node, in the end those attached to the root
  result         \* "none", then "Ok", "NotZip", "BadCentralDirectory" or "Io"

endVars == <<eocd_pos, wide_pos, cd_offset, cd_size>>
treeVars == <<built, nodes>>
readerVars == <<faulty, pc, endVars, pos, entries, treeVars, result>>
vars == <<archive, readerVars>>

InitReader ==
  /\ faulty \in BOOLEAN
  /\ pc = "search"
  /\ eocd_pos = 0 /\ wide_pos = 0 /\ cd_offset = 0 /\ cd_size = 0
  /\ pos = 0
  /\ entries = <<>>
  /\ built = 0
  /\ nodes = <<>>
  /\ result = "none"

Init == archive \in Archives /\ InitReader

Unit(offset) == archive[offset + 1]
HasAt(offset, length, kind) ==
  offset + length <= Len(archive) /\ Unit(offset).kind = kind

Stop(error) == pc' = "done" /\ result' = error
Fail(error) ==
  Stop(error) /\ UNCHANGED <<archive, faulty, endVars, pos, entries, treeVars>>

-----------------------------------------------------------------------------
(* find_eocd: the last signature among the last bytes of the file, as many *)
(* as an end record with the longest comment has.                          *)
CommentOnly == W16 - 1                               \* mutant
MAX_EOCD_SEARCH == W16 - 1 + EOCD_MIN_SIZE
Window ==
  { p \in 0..(Len(archive) - 1) : p >= Len(archive) - MAX_EOCD_SEARCH }
Signatures ==
  { p \in Window : Unit(p).kind = "EOCD" /\ p + SIG_SIZE <= Len(archive) }

(* The mutant takes the beginning of a record for a record.                *)
HasBeginning == Len(archive) >= EOCD_MIN_SIZE /\ Signatures # {}
HasEnd ==
  /\ Len(archive) >= EOCD_MIN_SIZE
  /\ Signatures # {}
  /\ Max(Signatures) + EOCD_MIN_SIZE <= Len(archive)

IsZip64(end) ==
  end.total = W16 - 1 \/ end.cd_size = W32 - 1 \/ end.cd_offset = W32 - 1

FindEnd ==
  /\ pc = "search" /\ HasEnd
  /\ LET end == Unit(Max(Signatures))
     IN  /\ eocd_pos' = Max(Signatures)
         /\ IF IsZip64(end)
              THEN pc' = "locate" /\ UNCHANGED <<cd_offset, cd_size>>
              ELSE /\ pc' = "load"
                   /\ cd_offset' = end.cd_offset /\ cd_size' = end.cd_size
  /\ UNCHANGED <<archive, faulty, wide_pos, pos, entries, treeVars, result>>
NoEnd == pc = "search" /\ ~HasEnd /\ Fail("NotZip")

HasLocator ==
  /\ eocd_pos >= EOCD64_LOCATOR_SIZE
  /\ Unit(eocd_pos - EOCD64_LOCATOR_SIZE).kind = "locator"
FindLocator ==
  /\ pc = "locate" /\ HasLocator
  /\ wide_pos' = Unit(eocd_pos - EOCD64_LOCATOR_SIZE).at
  /\ pc' = "wide"
  /\ UNCHANGED <<archive, faulty, eocd_pos, cd_offset, cd_size, pos, entries,
                 treeVars, result>>
NoLocator == pc = "locate" /\ ~HasLocator /\ Fail("NotZip")

ReadEnd64 ==
  /\ pc = "wide" /\ HasAt(wide_pos, EOCD64_SIZE, "EOCD64")
  /\ cd_offset' = Unit(wide_pos).cd_offset
  /\ cd_size' = Unit(wide_pos).cd_size
  /\ pc' = "load"
  /\ UNCHANGED <<archive, faulty, eocd_pos, wide_pos, pos, entries, treeVars,
                 result>>
NoEnd64 ==
  /\ pc = "wide" /\ ~HasAt(wide_pos, EOCD64_SIZE, "EOCD64")
  /\ Fail(IF wide_pos + EOCD64_SIZE > Len(archive) THEN "Io" ELSE "NotZip")

(* An end that overflows 64 bits is past the end of the file as well.      *)
LoadDirectory ==
  /\ pc = "load" /\ cd_offset + cd_size <= Len(archive)
  /\ pc' = "list"
  /\ UNCHANGED <<archive, faulty, endVars, pos, entries, treeVars, result>>
DirectoryOutside ==
  /\ pc = "load" /\ cd_offset + cd_size > Len(archive)
  /\ Fail("BadCentralDirectory")

ReadFails ==
  /\ faulty /\ pc \in {"search", "locate", "wide", "load"}
  /\ Fail("Io")

-----------------------------------------------------------------------------
(* parse_central_directory.                                                *)
Record == Unit(cd_offset + pos)
AtRecord ==
  pc = "list" /\ pos + SIG_SIZE <= cd_size /\ Record.kind = "CDR"
NameEnd(p) == p + CDR_SIZE + NameBytes[Unit(cd_offset + p).name]
FitsName ==
  pos + CDR_SIZE <= cd_size /\ NameEnd(pos) <= cd_size

(* parse_zip64_extra: the values stand for the fields that are full, in    *)
(* this order; a field that is cut off by the directory's end is ignored.  *)
Wide(record) ==
  IF NameEnd(pos) + record.extra_len <= cd_size THEN record.wide ELSE <<>>
Full(value) == IF value = W32 - 1 THEN 1 ELSE 0
Widened(value, wide, i) ==
  IF Full(value) = 1 /\ i <= Len(wide) THEN wide[i] ELSE value

EntryOf(record) ==
  LET wide == Wide(record)
  IN  [ name                |-> record.name,
        stored              |-> record.stored,
        is_encrypted        |-> record.encrypted,
        uncompressed_size   |-> Widened(record.uncomp, wide, 1),
        local_header_offset |->
          Widened(record.offset, wide,
                  1 + Full(record.uncomp) + Full(record.comp)) ]

NextRecord(record) == NameEnd(pos) + record.extra_len + record.comment_len

ListRecord ==
  /\ AtRecord /\ FitsName
  /\ entries' = Append(entries, EntryOf(Record))
  /\ pos' = NextRecord(Record)
  /\ UNCHANGED <<archive, faulty, pc, endVars, treeVars, result>>
RecordCutOff == AtRecord /\ ~FitsName /\ Fail("BadCentralDirectory")
DirectoryEnds ==
  /\ pc = "list" /\ ~AtRecord
  /\ pc' = "build"
  /\ UNCHANGED <<archive, faulty, endVars, pos, entries, treeVars, result>>

-----------------------------------------------------------------------------
(* build_tree.  A path keeps the slash it begins with and loses those      *)
(* between; the node itself is looked up under the whole name.             *)
TrimSlashes(name) ==
  LET kept == { i \in DOMAIN name : name[i] # Empty }
  IN  IF kept = {} THEN <<>> ELSE SubSeq(name, 1, Max(kept))
PathOf(raw) ==
  LET acc[i \in 0..Len(raw)] ==
        IF i = 0 THEN <<>>
        ELSE LET before == acc[i - 1]
             IN  IF i = 1 \/ raw[i] # Empty THEN Append(before, raw[i])
                                            ELSE before
  IN  acc[Len(raw)]
Above(path) ==
  { SubSeq(path, 1, i) : i \in { i \in DOMAIN path : path[i] # Empty } }
IsDir(name) == Last(name) = Empty \/ Last(name) \in Backslashed

(* The mutant takes a header as it comes.                                  *)
AnyHeader(offset) ==
  IF offset + LFH_SIZE <= Len(archive) /\ Unit(offset).kind = "LFH"
    THEN offset + LFH_SIZE + Unit(offset).name_len + Unit(offset).extra_len
    ELSE NoValue
local_data_offset(offset) ==
  IF HasAt(offset, LFH_SIZE, "LFH") /\ ~Unit(offset).encrypted
    THEN offset + LFH_SIZE + Unit(offset).name_len + Unit(offset).extra_len
    ELSE NoValue

NewDirectory ==
  [is_directory |-> TRUE, file_location |-> NoValue, file_length |-> NoValue]
Created(raw) == Above(PathOf(raw))
Grown(map, raw) ==
  [k \in DOMAIN map \cup Created(raw) |->
     IF k \in DOMAIN map THEN map[k] ELSE NewDirectory]

KeepsLength(node, entry, location) ==       \* mutant
  [ is_directory  |-> FALSE,
    file_location |-> IF entry.stored /\ ~entry.is_encrypted THEN location
                                             ELSE node.file_location,
    file_length   |-> IF node.is_directory THEN entry.uncompressed_size
                                           ELSE node.file_length ]
WithFile(node, entry, location) ==
  [ is_directory  |-> FALSE,
    file_location |-> IF entry.stored /\ ~entry.is_encrypted THEN location
                                             ELSE node.file_location,
    file_length   |-> entry.uncompressed_size ]

(* The local header is read here; a read that fails leaves no location.    *)
BuildNode ==
  /\ pc = "build" /\ built < Len(entries)
  /\ LET entry == entries[built + 1]
         raw == TrimSlashes(entry.name)
         grown == Grown(nodes, raw)
     IN  \E location \in {local_data_offset(entry.local_header_offset)}
                           \cup (IF faulty THEN {NoValue} ELSE {}) :
           nodes' = IF IsDir(entry.name) \/ raw \notin DOMAIN grown
                      THEN grown
                      ELSE [grown EXCEPT ![raw] = WithFile(@, entry, location)]
  /\ built' = built + 1
  /\ UNCHANGED <<archive, faulty, pc, endVars, pos, entries, result>>

(* attach walks down from the root, whose children are the paths without a *)
(* slash but the first.                                                    *)
Attached(map) == { k \in DOMAIN map : Above(k) \subseteq DOMAIN map }
Attach ==
  /\ pc = "build" /\ built = Len(entries)
  /\ nodes' = [k \in Attached(nodes) |-> nodes[k]]
  /\ Stop("Ok")
  /\ UNCHANGED <<archive, faulty, endVars, pos, entries, built>>

Next ==
  \/ FindEnd \/ NoEnd \/ FindLocator \/ NoLocator \/ ReadEnd64 \/ NoEnd64
  \/ LoadDirectory \/ DirectoryOutside \/ ReadFails
  \/ ListRecord \/ RecordCutOff \/ DirectoryEnds
  \/ BuildNode \/ Attach

Spec == Init /\ [][Next]_vars /\ WF_vars(Next)

-----------------------------------------------------------------------------
Entry ==
  [ name : Name, stored : BOOLEAN, is_encrypted : BOOLEAN,
    uncompressed_size : Nat, local_header_offset : Nat ]
Node ==
  [ is_directory : BOOLEAN, file_location : Nat \cup {NoValue},
    file_length : Nat \cup {NoValue} ]

(* Every path begins with a part that is not empty, or with one empty part *)
(* for its leading slash.                                                  *)
TypeOK ==
  /\ pc \in {"search", "locate", "wide", "load", "list", "build", "done"}
  /\ pos \in Nat
  /\ entries \in Seq(Entry)
  /\ built \in 0..Len(entries)
  /\ \A k \in DOMAIN nodes :
       /\ nodes[k] \in Node
       /\ k # NoName /\ \A i \in DOMAIN k : k[i] # Empty \/ i = 1
  /\ result \in {"none", "Ok", "NotZip", "BadCentralDirectory", "Io"}

(* "ZIP file comments ... are skipped gracefully" (zip.rs:19): an end      *)
(* record whose comment ends the file, however long, and holds no other    *)
(* signature, is the one the reader goes by.                               *)
TrueEnds ==
  { p \in 0..(Len(archive) - EOCD_MIN_SIZE) :
      /\ Unit(p).kind = "EOCD" /\ Unit(p).comment_len < W16
      /\ p + EOCD_MIN_SIZE + Unit(p).comment_len = Len(archive)
      /\ \A q \in (p + 1)..(Len(archive) - 1) : Unit(q).kind # "EOCD" }
CommentsAreSkipped ==
  TrueEnds # {} =>
    /\ pc # "search" /\ result # "Io" => eocd_pos \in TrueEnds
    /\ result = "NotZip" => \A p \in TrueEnds : IsZip64(Unit(p))

(* The files among the entries dealt with whose node is at a path.         *)
Files(path) ==
  { i \in 1..built : /\ ~IsDir(entries[i].name)
                     /\ TrimSlashes(entries[i].name) = path }
IsReadable(i) == entries[i].stored /\ ~entries[i].is_encrypted

(* Which entry a location comes from: the last one of the path that is     *)
(* stored and not encrypted, and what its local header says.  A node has   *)
(* the place behind that header, and none if the path has no such entry,   *)
(* if there is no local header, if that one says the data is encrypted, or *)
(* if it could not be read.  An entry of the path that is compressed or    *)
(* encrypted does not count, wherever it is in the directory: what that    *)
(* costs is SuppressedUnlessPlain's.                                       *)
IsPlainAt(at) == HasAt(at, LFH_SIZE, "LFH") /\ ~Unit(at).encrypted
LocatedIsPlain ==
  \A k \in DOMAIN nodes :
    \/ /\ nodes[k].file_location = NoValue
       /\ \A i \in Files(k) :
            IsReadable(i) /\ (\A j \in Files(k) : IsReadable(j) => j <= i)
              => faulty \/ ~IsPlainAt(entries[i].local_header_offset)
    \/ \E i \in Files(k) :
         /\ IsReadable(i)
         /\ \A j \in Files(k) : IsReadable(j) => j <= i
         /\ LET at == entries[i].local_header_offset
            IN  /\ IsPlainAt(at)
                /\ nodes[k].file_location
                     = at + LFH_SIZE + Unit(at).name_len + Unit(at).extra_len

(* "Compressed entries appear in the tree but `cat_node` returns an error  *)
(* for them", "Encrypted entries appear in the tree ... but                *)
(* `file_location` is suppressed" (zip.rs:24-28): a file whose size is     *)
(* that of such an entry has no location.                                  *)
SuppressedUnlessPlain ==
  \A k \in DOMAIN nodes : \A i \in Files(k) :
    ~IsReadable(i) /\ (\A j \in Files(k) : j <= i)
      => nodes[k].file_location = NoValue

(* Whatever entries a path has, as a file, as a directory or as the        *)
(* directory of others, in any order: it is a file if one of them is, of   *)
(* the last one's size; it never loses a directory above it, so attaching  *)
(* the nodes to their parents loses none.                                  *)
LastFileWins ==
  \A k \in DOMAIN nodes :
    /\ Above(k) \subseteq DOMAIN nodes
    /\ nodes[k].is_directory = (Files(k) = {})
    /\ \A i \in Files(k) :
         (\A j \in Files(k) : j <= i)
           => nodes[k].file_length = entries[i].uncompressed_size
=============================================================================
