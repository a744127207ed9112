-------------------------- MODULE PartitionTables ---------------------------
(***************************************************************************)
(* src/formats/gpt.rs, mbr.rs and raw.rs: a disk's partitions as files of  *)
(* a root directory.  raw tries the GPT, then the MBR, then takes the disk *)
(* for one file; gpt and mbr try their own table only.                     *)
(***************************************************************************)
EXTENDS ParsedTree

CONSTANTS
  DiskSector,       \* 512
  EntryBytes,       \* a GPT entry has 128 bytes or more
  MaxArray,         \* MAX_ARRAY, 1 MiB
  Protective,       \* the type 0xEE of the partition that guards a GPT
  Plain,            \* the characters that may stand in a name
  Underscore, Dash, \* "_" and "-"
  PartitionName     \* "partition"

ASSUME DiskAssumption ==
  /\ DiskSector \in Nat \ {0} /\ DiskSector < Word
  /\ Slash \notin Plain /\ Slash \notin Nat /\ Slash # Underscore /\ Slash # Dash
  /\ Slash # PartitionName /\ Slash # "image"

(* A disk; a table is None where its sector is not all there.  `array` are *)
(* the GPT's entries, None where they cannot be read; an unused one has    *)
(* no type.                                                                *)
IsDisk(d) ==
  /\ d.via \in {"raw", "gpt", "mbr"} /\ d.size \in Nat
  /\ d.mbr # None => d.mbr \in
       [ signature : BOOLEAN, slots : [1..4 -> [type : Nat, lba : Nat, sectors : Nat]] ]
  /\ d.gpt # None =>
       /\ d.gpt.signature \in BOOLEAN
       /\ {d.gpt.num_entries, d.gpt.entry_size} \subseteq Nat
       /\ d.gpt.array # None => d.gpt.array \in
            Seq([used : BOOLEAN, first : Nat, last : Nat, name : Seq(Nat \cup {Slash})])

-----------------------------------------------------------------------------
(* Partitions in the order of their slots.                                 *)
Saturated(n) == IF n < Word THEN n ELSE Word - 1
GptLength(e) ==
  Saturated((IF Saturated(e.last + 1) < e.first THEN 0
             ELSE Saturated(e.last + 1) - e.first) * DiskSector)
GptPartitions(array) ==
  LET used == InOrder({ i \in DOMAIN array : array[i].used })
  IN  [ k \in DOMAIN used |->
          LET e == array[used[k]]
          IN  [ index |-> used[k] - 1, start |-> (e.first * DiskSector) % Word,
                length |-> GptLength(e), name |-> e.name ] ]
(* A slot is empty when it has neither a type nor sectors.                 *)
MbrPartitions(slots) ==
  LET used == InOrder({ i \in DOMAIN slots :
                        slots[i].type # 0 \/ slots[i].sectors # 0 })
  IN  [ k \in DOMAIN used |->
          LET s == slots[used[k]]
          IN  [ index |-> used[k] - 1, type |-> s.type,
                start |-> s.lba * DiskSector, length |-> s.sectors * DiskSector ] ]
IsProtective(partitions) ==
  Len(partitions) = 1 /\ \A k \in DOMAIN partitions : partitions[k].type = Protective

(* The names: the index keeps them apart.  (Mutant: it is left away.)      *)
sanitize(name) ==
  [i \in DOMAIN name |-> IF name[i] \in Plain THEN name[i] ELSE Underscore]
Unindexed(p) == IF p.name = <<>> THEN <<PartitionName>> ELSE sanitize(p.name)
GptName(p) ==
  (IF p.name = <<>> THEN <<PartitionName, Dash, p.index>> ELSE sanitize(p.name))
    \o <<Dash, p.index>>
MbrName(p) == <<PartitionName, Dash, p.index, Dash, p.type>>

PartitionNode(name, p) ==
  IF p.length = 0 THEN new_file(name, 0, 1)
  ELSE new_file_with_location(name, p.length, p.start, p.length, 1)
to_tree(partitions, names) ==
  calculate_directory_size(
    WithRoot \o [k \in DOMAIN partitions |->
                          PartitionNode(names[k], partitions[k])])
GptNames(partitions) == [k \in DOMAIN partitions |-> GptName(partitions[k])]
MbrNames(partitions) == [k \in DOMAIN partitions |-> MbrName(partitions[k])]

Answer(tree) == nodes' = tree /\ Stop("Ok") /\ UNCHANGED <<found, stack>>
Refuse == Stop("Err") /\ UNCHANGED <<found, stack, nodes>>

-----------------------------------------------------------------------------
HasGpt == IF image.gpt = None THEN FALSE ELSE image.gpt.signature
HasMbr == IF image.mbr = None THEN FALSE ELSE image.mbr.signature
GptIsUsable ==
  /\ image.gpt.entry_size >= EntryBytes
  /\ Saturated(image.gpt.num_entries * image.gpt.entry_size) <= MaxArray
  /\ image.gpt.array # None

GptTree ==
  /\ At("disk", "gpt") /\ HasGpt /\ GptIsUsable
  /\ LET partitions == GptPartitions(image.gpt.array)
     IN  Answer(to_tree(partitions, GptNames(partitions)))
GptError ==
  /\ At("disk", "gpt")
  /\ IF HasGpt THEN ~GptIsUsable ELSE image.via # "raw"
  /\ Refuse
NoGpt ==
  /\ At("disk", "gpt") /\ ~HasGpt /\ image.via = "raw"
  /\ Goto("mbr") /\ UNCHANGED <<found, stack, nodes>>

MbrTree ==
  /\ At("disk", "mbr") /\ HasMbr /\ ~IsProtective(MbrPartitions(image.mbr.slots))
  /\ LET partitions == MbrPartitions(image.mbr.slots)
     IN  Answer(to_tree(partitions, MbrNames(partitions)))
MbrError ==
  /\ At("disk", "mbr")
  /\ IF HasMbr THEN IsProtective(MbrPartitions(image.mbr.slots))
     ELSE image.via # "raw"
  /\ Refuse
WholeImage ==
  /\ At("disk", "mbr") /\ ~HasMbr /\ image.via = "raw"
  /\ Answer(calculate_directory_size(WithRoot \o
       << PartitionNode(<<"image">>, [length |-> image.size, start |-> 0]) >>))

DiskNext ==
  \/ GptTree \/ GptError \/ NoGpt \/ MbrTree \/ MbrError \/ WholeImage
=============================================================================
