----------------------------- MODULE TarReader ------------------------------
(***************************************************************************)
(* The TAR reader (src/formats/tar.rs): `detect_and_parse` checks the      *)
(* first block, `scan_entries` walks the archive block by block, one       *)
(* iteration of its loop a step here, and `build_tree` turns the entries   *)
(* into a tree, one entry a step.                                          *)
(***************************************************************************)
EXTENDS TarFormat, FiniteSets, SequencesExt

CONSTANT Archives   \* the archives that are read

ASSUME ArchivesAssumption ==
  \A a \in Archives :
    /\ Len(a) \in Nat /\ DOMAIN a = 1..Len(a)
    /\ \A i \in DOMAIN a : IsBlock(a[i])

VARIABLES
  pc,                \* "detect", "scan", "build" or "done"
  pos,               \* blocks before the reader's position
  consecutive_zero,
  pending_name, pending_size,
  entries,
  built,             \* how many entries build_tree has handled
  nodes,             \* path -> node
  result             \* "none" while running, then "Ok", "NotTar" or "Io"

scanVars == <<pos, consecutive_zero, pending_name, pending_size, entries>>
treeVars == <<built, nodes>>
vars == <<archive, pc, scanVars, treeVars, result>>

-----------------------------------------------------------------------------
Block(p) == archive[p + 1]

(* trim_start_matches("./") and trim_end_matches('/').                     *)
TrimDots(name) ==
  LET dots == CHOOSE d \in 0..(Len(name) - 1) :
                /\ \A i \in 1..d : name[i] = Dot
                /\ d = Len(name) - 1 \/ name[d + 1] # Dot
  IN  SubSeq(name, dots + 1, Len(name))
TrimSlashes(name) ==
  LET kept == CHOOSE k \in 1..Len(name) :
                /\ \A i \in (k + 1)..Len(name) : name[i] = Empty
                /\ k = 1 \/ name[k] # Empty
  IN  SubSeq(name, 1, kept)
EndsWithSlash(name) == Len(name) > 1 /\ Last(name) = Empty

ValueOr(pending, raw) == IF pending = NoValue THEN raw ELSE pending

-----------------------------------------------------------------------------
InitReader ==
  /\ pc = "detect"
  /\ pos = 0
  /\ consecutive_zero = 0
  /\ pending_name = NoValue
  /\ pending_size = NoValue
  /\ entries = <<>>
  /\ built = 0
  /\ nodes = << >>
  /\ result = "none"

Init == archive \in Archives /\ InitReader

Stop(verdict) ==
  /\ pc' = "done"
  /\ result' = verdict
  /\ UNCHANGED <<archive, scanVars, treeVars>>

(* detect: the first block must be there and have the magic.               *)
HasMagic(b) == ~b.zero /\ b.magic
Detect ==
  /\ pc = "detect"
  /\ Len(archive) > 0 /\ HasMagic(Block(0))
  /\ pc' = "scan"
  /\ UNCHANGED <<archive, scanVars, treeVars, result>>
NotDetected ==
  /\ pc = "detect"
  /\ IF Len(archive) = 0 THEN Stop("Io")
                         ELSE ~HasMagic(Block(0)) /\ Stop("NotTar")

(* A read or a seek of the image fails.                                    *)
ScanFails == pc \in {"detect", "scan"} /\ Stop("Io")

(* The archive ends at its last block, or at the second zero block.        *)
ScanEnds ==
  /\ pc = "scan"
  /\ IF pos >= Len(archive)
       THEN UNCHANGED <<pos, consecutive_zero>>
       ELSE /\ Block(pos) = ZeroBlock /\ consecutive_zero = 1
            /\ pos' = pos + 1
            /\ consecutive_zero' = 2
  /\ pc' = "build"
  /\ UNCHANGED <<archive, pending_name, pending_size, entries, treeVars,
                 result>>

FirstZeroBlock ==
  /\ pc = "scan" /\ pos < Len(archive)
  /\ Block(pos) = ZeroBlock /\ consecutive_zero = 0
  /\ pos' = pos + 1
  /\ consecutive_zero' = 1
  /\ UNCHANGED <<archive, pc, pending_name, pending_size, entries, treeVars,
                 result>>

(* A block without the magic is refused only as long as nothing was found. *)
Refused(b) == ~b.magic /\ entries = <<>> /\ pending_name = NoValue
AtHeader ==
  /\ pc = "scan" /\ pos < Len(archive)
  /\ Block(pos) # ZeroBlock
NotTar == AtHeader /\ Refused(Block(pos)) /\ Stop("NotTar")

(* Every other header is left behind with the blocks its own size counts,  *)
(* or, in the mutant, without them.                                        *)
PastHeader(p) == p + 1
PastPayload(p) == p + 1 + Blocks(Block(p).size)
Skip ==
  /\ ~Refused(Block(pos))
  /\ consecutive_zero' = 0
  /\ pos' = PastPayload(pos)
  /\ UNCHANGED <<archive, pc, treeVars, result>>

(* A long name and a PAX header are read, a long link is passed over.      *)
PayloadFits == PastPayload(pos) <= Len(archive)
Override ==
  /\ AtHeader
  /\ Block(pos).typeflag \in {"longname", "pax"} /\ PayloadFits
  /\ pending_name' = ValueOr(Block(pos).body.name, pending_name)
  /\ pending_size' = ValueOr(Block(pos).body.size, pending_size)
  /\ Skip
  /\ UNCHANGED entries
PayloadTruncated ==
  /\ AtHeader /\ ~Refused(Block(pos))
  /\ Block(pos).typeflag \in {"longname", "pax"} /\ ~PayloadFits
  /\ Stop("Io")
LongLink ==
  /\ AtHeader
  /\ Block(pos).typeflag = "longlink"
  /\ Skip
  /\ UNCHANGED <<pending_name, pending_size, entries>>

(* Any other header is an entry, which takes the pending overrides, even   *)
(* when it is of a type that is left out.  The data is skipped by the size *)
(* in the header.  (Mutant: the size override is not taken.)               *)
DataStart(p) == p + 1
EntryAt(p) ==
  LET name == TrimDots(ValueOr(pending_name, Block(p).name))
  IN  [ name        |-> TrimSlashes(name),
        size        |-> ValueOr(pending_size, Block(p).size),
        is_dir      |-> Block(p).typeflag = "dir" \/ EndsWithSlash(name),
        data_offset |-> DataStart(p) ]
TakeNameOnly == pending_name' = NoValue /\ UNCHANGED pending_size
TakePending == pending_name' = NoValue /\ pending_size' = NoValue
Member ==
  /\ AtHeader
  /\ Block(pos).typeflag \in {"file", "dir", "other"}
  /\ LET entry == EntryAt(pos)
     IN  entries' = IF Block(pos).typeflag = "other" /\ ~entry.is_dir
                      THEN entries ELSE Append(entries, entry)
  /\ TakePending
  /\ Skip

-----------------------------------------------------------------------------
(* build_tree.  Each entry's directories are created first, under keys     *)
(* without empty parts; the node itself is looked up under the whole name. *)
NewDirectory ==
  [is_directory |-> TRUE, file_location |-> NoValue, file_length |-> NoValue]
Components(name) ==
  LET parts[i \in 0..Len(name)] ==
        IF i = 0 THEN <<>>
        ELSE LET before == parts[i - 1]
             IN  IF name[i] = Empty THEN before ELSE Append(before, name[i])
  IN  parts[Len(name)]
Above(path) == { SubSeq(path, 1, i) : i \in 1..Len(path) }

KeysFor(name) == Above(Components(name))
Grown(map, name) ==
  [k \in DOMAIN map \cup KeysFor(name) |->
     IF k \in DOMAIN map THEN map[k] ELSE NewDirectory]

(* The mutant leaves a file a file when a directory of its name follows.   *)
WithFileLeaf(map, entry) ==
  IF entry.is_dir \/ entry.name \notin DOMAIN map
    THEN map
    ELSE [map EXCEPT ![entry.name] = [ is_directory  |-> FALSE,
                                       file_location |-> entry.data_offset,
                                       file_length   |-> entry.size ]]
WithLeaf(map, entry) ==
  IF entry.name \notin DOMAIN map THEN map
  ELSE IF entry.is_dir
    THEN [map EXCEPT ![entry.name].is_directory = TRUE]
    ELSE [map EXCEPT ![entry.name] = [ is_directory  |-> FALSE,
                                       file_location |-> entry.data_offset,
                                       file_length   |-> entry.size ]]

BuildNode ==
  /\ pc = "build" /\ built < Len(entries)
  /\ LET entry == entries[built + 1]
     IN  nodes' = IF entry.name = NoName
                    THEN nodes
                    ELSE WithLeaf(Grown(nodes, entry.name), entry)
  /\ built' = built + 1
  /\ UNCHANGED <<archive, pc, scanVars, result>>

(* attach walks down from the root: a node is reached when all the nodes   *)
(* above it are in the map.                                                *)
Attached(map) == { k \in DOMAIN map : Above(k) \subseteq DOMAIN map }
Attach ==
  /\ pc = "build" /\ built = Len(entries)
  /\ nodes' = [k \in Attached(nodes) |-> nodes[k]]
  /\ pc' = "done"
  /\ result' = "Ok"
  /\ UNCHANGED <<archive, scanVars, built>>

Next ==
  \/ Detect \/ NotDetected \/ ScanFails
  \/ ScanEnds \/ FirstZeroBlock \/ NotTar
  \/ Override \/ PayloadTruncated \/ LongLink \/ Member
  \/ BuildNode \/ Attach

Spec == Init /\ [][Next]_vars /\ WF_vars(Next)

-----------------------------------------------------------------------------
Entry == [name : Name, size : Nat, is_dir : BOOLEAN, data_offset : Nat]
Node == [ is_directory : BOOLEAN, file_location : Nat \cup {NoValue},
          file_length : Nat \cup {NoValue} ]

TypeOK ==
  /\ pc \in {"detect", "scan", "build", "done"}
  /\ pos \in Nat
  /\ consecutive_zero \in 0..2
  /\ pending_name \in Name \cup {NoValue}
  /\ pending_size \in Nat \cup {NoValue}
  /\ entries \in Seq(Entry)
  /\ built \in 0..Len(entries)
  /\ DOMAIN nodes \subseteq Seq(Part \ {Empty}) \ {<<>>}
  /\ \A k \in DOMAIN nodes : nodes[k] \in Node
  /\ result \in {"none", "Ok", "NotTar", "Io"}

(* The positions at which the scanner reads a block as a header or as a    *)
(* zero block, counted off by the sizes in the headers alone.              *)
After(p) == IF Block(p).zero THEN p + 1 ELSE p + 1 + Blocks(Block(p).size)
Stops ==
  LET stop[i \in 0..Len(archive)] ==
        IF i = 0 THEN 0
        ELSE LET before == stop[i - 1]
             IN  IF before < Len(archive) THEN After(before) ELSE before
  IN  { stop[i] : i \in 0..Len(archive) } \cap 0..(Len(archive) - 1)
IsMeta(p) == Block(p).zero
               \/ Block(p).typeflag \in {"longname", "longlink", "pax"}

(* The last value that the meta headers directly before a stop override a  *)
(* field with: no header of an entry lies between them and the stop.       *)
Overriding(p, field) ==
  { Block(q).body[field] :
      q \in { q \in Stops :
                /\ q < p /\ ~Block(q).zero
                /\ Block(q).typeflag \in {"longname", "pax"}
                /\ Block(q).body[field] # NoValue
                /\ \A s \in Stops : q < s /\ s < p =>
                     /\ IsMeta(s)
                     /\ ~Block(s).zero
                          /\ Block(s).typeflag \in {"longname", "pax"}
                        => Block(s).body[field] = NoValue } }
FieldOf(p, field) ==
  LET over == Overriding(p, field)
  IN  IF over = {} THEN Block(p)[field] ELSE CHOOSE v \in over : TRUE

(* A long name or a PAX override reaches the next entry and no other, past *)
(* the headers and the single zero block that may lie between, and the     *)
(* last of several wins (tar.rs: "overrides that apply to the next         *)
(* entry").                                                                *)
OverridesReachNextEntry ==
  \A i \in DOMAIN entries :
    LET at == entries[i].data_offset - 1
    IN  /\ at \in Stops /\ ~IsMeta(at)
        /\ entries[i].size = FieldOf(at, "size")
        /\ entries[i].name = TrimSlashes(TrimDots(FieldOf(at, "name")))

(* Entries come out in the order of their headers, none twice, and, unless *)
(* an override gives it more than its header counts, an entry's data ends  *)
(* before the next header: no two files share a byte.                      *)
EntriesApart ==
  \A i \in DOMAIN entries :
    LET after == entries[i].data_offset + Blocks(entries[i].size)
    IN  entries[i].size <= Block(entries[i].data_offset - 1).size =>
          /\ after <= pos
          /\ \A j \in DOMAIN entries :
               i < j => after < entries[j].data_offset

(* The node at a plain name has the kind the last entry of that name says, *)
(* and the place of the last file among them.                              *)
Handled == { i \in 1..built : entries[i].name # NoName }
LastEntryWins ==
  \A i \in Handled :
    LET name == entries[i].name
        same == { j \in Handled : entries[j].name = name }
        files == { j \in same : ~entries[j].is_dir }
    IN  ~Contains(name, Empty) /\ (\A j \in same : j <= i) =>
          /\ name \in DOMAIN nodes
          /\ nodes[name].is_directory = entries[i].is_dir
          /\ \A f \in files : (\A j \in files : j <= f) =>
               /\ nodes[name].file_location = entries[f].data_offset
               /\ nodes[name].file_length = entries[f].size

(* "`path` and `size` overrides applied before the next entry" (tar.rs):   *)
(* with the size an entry was given its data ends before the next header.  *)
SizeOverrideApplied ==
  \A i, j \in DOMAIN entries :
    i < j => entries[i].data_offset + Blocks(entries[i].size)
               < entries[j].data_offset
=============================================================================
