----------------------------- MODULE IsoReader ------------------------------
(***************************************************************************)
(* src/iso9660.rs: the volume descriptors, the choice between Joliet, Rock *)
(* Ridge and plain names, and the recursion over the directories of a disc *)
(* image.  The image is a sequence of sectors, what is in each is known by *)
(* its tag; sizes and places are counted in sectors.  A call that fails    *)
(* goes on to the UDF reader, as detect_and_parse_filesystem has it.       *)
(***************************************************************************)
EXTENDS ParsedTree

CONSTANTS
  VdStart,           \* the first volume descriptor: 16 in the code
  RockRidgeSectors,  \* read of the root to look for Rock Ridge: 4096 bytes
  Version            \* the character ";"

(* A directory record: whether it ends inside the directory and its name   *)
(* inside the record, and its fields.  `id` is the identifier, empty for   *)
(* the directory itself; `su` are the system use entries behind it, where  *)
(* "short" is a name entry of four bytes with no byte behind it that could *)
(* be taken for the flags of a special name.                               *)
Record ==
  [ fits : BOOLEAN, sound : BOOLEAN, id : Seq(Nat), parent : BOOLEAN,
    su : Seq([ sig : {"SP", "NM", "CE", "bad", "short"}, special : BOOLEAN,
               part : Seq(Nat) ]),
    dir : BOOLEAN, extent : Nat, length : Nat ]
ASSUME DiscAssumption == VdStart \in Nat /\ None \notin Record
IsIsoSector(c) ==
  \/ c.tag = "cd001" /\ c.type \in {"primary", "joliet", "other", "end"}
                     /\ c.root \in Record
  \/ c.tag = "records" /\ c.records \in Seq(Record)

Holds(s, tag) ==
  IF s \in DOMAIN image.sectors THEN image.sectors[s].tag = tag ELSE FALSE
InImage(s, n) == s .. (s + n - 1) \subseteq DOMAIN image.sectors

(* The UDF reader is next.  (Mutant: its error is returned.)               *)
GiveUp ==
  /\ pc' = "done" /\ result' = "Err"
  /\ UNCHANGED <<image, found, stack, nodes>>
TryUdf ==
  /\ pc' = "vrs" /\ found' = None /\ stack' = <<>> /\ nodes' = <<>>
  /\ UNCHANGED <<image, result>>

-----------------------------------------------------------------------------
(* The descriptors, up to one that ends the set, that is none or that is   *)
(* outside the image; of several of a kind the last counts.                *)
Vd == image.sectors[found.sector]
IsDescriptor ==
  IF Holds(found.sector, "cd001") THEN Vd.type # "end" ELSE FALSE
ReadDescriptor ==
  /\ At("disc", "descriptors") /\ IsDescriptor
  /\ found' = CASE Vd.type = "primary" ->
                     [found EXCEPT !.sector = @ + 1, !.primary = Vd.root]
                [] Vd.type = "joliet" ->
                     [found EXCEPT !.sector = @ + 1, !.joliet = Vd.root]
                [] OTHER -> [found EXCEPT !.sector = @ + 1]
  /\ Goto("descriptors") /\ UNCHANGED <<stack, nodes>>

VdType(f) == IF f.joliet # None THEN "joliet" ELSE "primary"
ChosenRoot(f) == IF VdType(f) = "joliet" THEN f.joliet ELSE f.primary

(* detect_rock_ridge: the first record of the root must have a signature.  *)
FirstRecord(r) ==
  IF Holds(r.extent, "records") /\ r.length > 0
    THEN image.sectors[r.extent].records ELSE <<>>
HasSignature(r) ==
  IF FirstRecord(r) = <<>> THEN FALSE
  ELSE LET first == Head(FirstRecord(r))
       IN  /\ first.fits /\ first.su # <<>>
           /\ \/ Head(first.su).sig \in {"SP", "NM"}
              \/ Head(first.su).sig = "short" /\ Len(first.su) > 1
CanDetect(r) ==
  InImage(r.extent, IF r.length < RockRidgeSectors THEN r.length
                    ELSE RockRidgeSectors)

(* parse_directory: the records of the sectors read, in order.  What is    *)
(* left of a sector behind its last record is zero and passed over; a      *)
(* record that does not fit ends the directory.                            *)
(* (Mutant: the zeros end the directory.)                                  *)
RecordsIn(s) == IF Holds(s, "records") THEN image.sectors[s].records ELSE <<>>
FirstSectorOnly(r) == IF r.length = 0 THEN <<>> ELSE RecordsIn(r.extent)
AllRecords(r) ==
  FlattenSeq([i \in 1..r.length |-> RecordsIn(r.extent + i - 1)])
Listing(r) ==
  LET records == AllRecords(r)
      broken == { i \in DOMAIN records : ~records[i].fits }
      whole == { i \in DOMAIN records : \A j \in broken : i < j }
  IN  Select(SubSeq(records, 1, Cardinality(whole)), LAMBDA x : x.sound)

BadDisc ==
  /\ At("disc", "descriptors") /\ ~IsDescriptor
  /\ LET r == ChosenRoot(found)
     IN  \/ r = None
         \/ r # None /\ ~r.sound
         \/ r # None /\ r.sound
              /\ \/ VdType(found) = "primary" /\ ~CanDetect(r)
                 \/ r.dir /\ ~InImage(r.extent, r.length)
  /\ TryUdf
OpenIso ==
  /\ At("disc", "descriptors") /\ ~IsDescriptor
  /\ LET r == ChosenRoot(found)
     IN  /\ r # None /\ r.sound
         /\ VdType(found) = "primary" => CanDetect(r)
         /\ r.dir => InImage(r.extent, r.length)
         /\ stack' = << Frame(1, IF r.dir THEN Listing(r) ELSE <<>>) >>
         /\ found' = [ type |-> VdType(found), root |-> r,
                       rock |-> VdType(found) = "primary" /\ HasSignature(r) ]
  /\ nodes' = WithRoot
  /\ Goto("iso")

-----------------------------------------------------------------------------
(* The name of a record: up to the version, in a primary volume without    *)
(* dots at the end.                                                        *)
Unversioned(id) ==
  LET versions == { i \in DOMAIN id : id[i] = Version }
  IN  IF versions = {} THEN id
      ELSE SubSeq(id, 1, (CHOOSE i \in versions : \A j \in versions : i <= j) - 1)
WithoutDots(name) ==
  LET kept == { i \in DOMAIN name : name[i] # Period }
  IN  IF kept = {} THEN <<>>
      ELSE SubSeq(name, 1, CHOOSE i \in kept : \A j \in kept : j <= i)
PlainName(r) ==
  IF r.id = <<>> THEN <<Period>>
  ELSE IF r.parent THEN <<Period, Period>>
  ELSE IF found.type = "joliet" THEN Unversioned(r.id)
  ELSE WithoutDots(Unversioned(r.id))

(* extract_rock_ridge_name: the parts of all NM entries, up to an entry    *)
(* whose length is wrong.                                                  *)
Sound(su) ==
  LET bad == { i \in DOMAIN su : su[i].sig = "bad" }
  IN  SubSeq(su, 1, Cardinality({ i \in DOMAIN su : \A j \in bad : i < j }))
rock_ridge_name(r) ==
  LET names == Select(Sound(r.su), LAMBDA e : e.sig = "NM" /\ ~e.special)
  IN  FlattenSeq([i \in DOMAIN names |-> names[i].part])
NameOf(r) ==
  IF PlainName(r) \in Dots \/ ~found.rock \/ rock_ridge_name(r) = <<>>
    THEN PlainName(r) ELSE rock_ridge_name(r)

(* An entry too short for its flags is read beyond its end.                *)
HasShortName(r) ==
  /\ found.rock /\ PlainName(r) \notin Dots
  /\ \E e \in ToSet(Sound(r.su)) : e.sig = "short"
IsoPanics ==
  /\ At("disc", "iso") /\ Busy /\ HasShortName(Entry)
  /\ Stop("Panic") /\ UNCHANGED <<found, stack, nodes>>

AtEntry == At("disc", "iso") /\ Busy /\ ~HasShortName(Entry)
IsoSkip ==
  /\ AtEntry /\ NameOf(Entry) \in Dots
  /\ Skip /\ Goto("iso") /\ UNCHANGED found
IsoFile ==
  /\ AtEntry /\ NameOf(Entry) \notin Dots /\ ~Entry.dir
  /\ AddFile(new_file_with_location(NameOf(Entry), Entry.length, Entry.extent,
                                    Entry.length, Top.node))
  /\ Goto("iso") /\ UNCHANGED found

AtSubdirectory == AtEntry /\ NameOf(Entry) \notin Dots /\ Entry.dir
IsoDirectory ==
  /\ AtSubdirectory /\ Len(stack) < CallDepth
  /\ InImage(Entry.extent, Entry.length)
  /\ AddDirectory(NameOf(Entry), Listing(Entry))
  /\ Goto("iso") /\ UNCHANGED found

(* A directory that cannot be read fails the whole call.                   *)
IsoFails ==
  /\ AtSubdirectory /\ Len(stack) < CallDepth
  /\ ~InImage(Entry.extent, Entry.length)
  /\ TryUdf

(* Nothing limits the recursion but the thread's stack.                    *)
IsoAborts ==
  /\ AtSubdirectory /\ Len(stack) = CallDepth
  /\ Stop("Abort") /\ UNCHANGED <<found, stack, nodes>>
IsoReturn == At("disc", "iso") /\ Return

IsoNext ==
  \/ ReadDescriptor \/ BadDisc \/ OpenIso
  \/ IsoPanics \/ IsoSkip \/ IsoFile \/ IsoDirectory
  \/ IsoFails \/ IsoAborts \/ IsoReturn
=============================================================================
