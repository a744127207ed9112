---------------------------- MODULE TarRoundTrip ----------------------------
(***************************************************************************)
(* `detect_and_parse` reads what `write` leaves, whole or cut off by a     *)
(* failing output, or any other archive (src/formats/tar.rs).              *)
(***************************************************************************)
EXTENDS TarReader, TarWriter

allVars == <<vars, writerVars>>

(* An archive that `write` has not written.                                *)
Foreign ==
  /\ archive \in Archives
  /\ members = <<>> /\ next_member = 1 /\ copied = 0
  /\ w_pc = "done" /\ w_result = "none"

RoundTripInit == (InitWriter \/ Foreign) /\ InitReader

Written == w_pc = "done"
RoundTripNext ==
  \/ /\ ~Written
     /\ WriterNext
     /\ UNCHANGED <<pc, scanVars, treeVars, result>>
  \/ /\ Written
     /\ Next
     /\ UNCHANGED writerVars

RoundTripSpec ==
  RoundTripInit /\ [][RoundTripNext]_allVars /\ WF_allVars(RoundTripNext)

-----------------------------------------------------------------------------
(* The types of both and of the blocks between them.                       *)
RoundTripTypeOK ==
  /\ TypeOK
  /\ members \in Writes
  /\ w_pc \in {"entry", "data", "trailer", "done"}
  /\ next_member \in 1..(Len(members) + 1)
  /\ copied \in Nat
  /\ w_result \in {"none", "Ok", "Err"}
  /\ \A i \in DOMAIN archive : IsBlock(archive[i])

(* The blocks that the first n members take: a header and the data each.   *)
Taken(n) ==
  LET blocks[k \in 0..Len(members)] ==
        IF k = 0 THEN 0
                 ELSE LET before == blocks[k - 1]
                      IN  before + 1 + Len(members[k].data)
  IN  blocks[n]

(* The entry the reader should make of the i-th member; its data begin     *)
(* after its header.                                                       *)
Expected(i) ==
  LET name == TrimDots(Cut[members[i].name])
  IN  [ name        |-> TrimSlashes(name),
        size        |-> members[i].size,
        is_dir      |-> EndsWithSlash(name),
        data_offset |-> Taken(i - 1) + 1 ]

(* Wherever the output was cut off, and whatever bytes the data holds,     *)
(* headers of another archive or zeros included, the reader finds the      *)
(* members in order from the first and nothing else, each with its data;   *)
(* only the last one read can miss some of it.  It finds all of them when  *)
(* the archive is complete.                                                *)
DataIsThere(i) ==
  LET from == entries[i].data_offset
      data == members[i].data
  IN  SubSeq(archive, from + 1, from + Len(data)) = data
ReadsBackInOrder ==
  members # <<>> =>
    /\ Len(entries) <= Len(members)
    /\ \A i \in DOMAIN entries :
         /\ entries[i] = Expected(i)
         /\ i < Len(entries) \/ w_result = "Ok" => DataIsThere(i)
    /\ w_result = "Ok" /\ pc \in {"build", "done"} /\ result # "Io"
         => Len(entries) = Len(members)
=============================================================================
