---------------------------- MODULE ZipRoundTrip ----------------------------
(***************************************************************************)
(* `detect_and_parse` reads what `write_stored` leaves, whole or cut off   *)
(* by a failing output, or any other archive (src/formats/zip.rs).         *)
(***************************************************************************)
EXTENDS ZipReader, ZipWriter

allVars == <<vars, writerVars>>

(* An archive that `write_stored` has not written.                         *)
Foreign ==
  /\ archive \in Archives
  /\ members = <<>> /\ next_member = 1
  /\ offset = 0 /\ lh_offsets = <<>> /\ w_cd_size = 0
  /\ w_pc = "done" /\ w_result = "none"

RoundTripInit == (InitWriter \/ Foreign) /\ InitReader

Written == w_pc = "done"
RoundTripNext ==
  \/ ~Written /\ WriterNext /\ UNCHANGED readerVars
  \/ Written /\ Next /\ UNCHANGED writerVars

RoundTripSpec ==
  RoundTripInit /\ [][RoundTripNext]_allVars /\ WF_allVars(RoundTripNext)

-----------------------------------------------------------------------------
(* The bytes that the first n members take, and their central records.     *)
LocalBytes(i) ==
  LFH_SIZE + NameBytes[members[i].name] + Len(members[i].data)
RecordBytes(i) == CDR_SIZE + NameBytes[members[i].name]
Taken(n) ==
  LET taken[k \in 0..Len(members)] ==
        IF k = 0 THEN 0 ELSE LET before == taken[k - 1]
                             IN  before + LocalBytes(k)
  IN  taken[n]
Listed(n) ==
  LET listed[k \in 0..Len(members)] ==
        IF k = 0 THEN 0 ELSE LET before == listed[k - 1]
                             IN  before + RecordBytes(k)
  IN  listed[n]

(* The archives the fields have room for: fewer members than the number    *)
(* that stands for "see the 64-bit record", no name, no offset and no      *)
(* directory as long as its field is wide, and counts, size and offset of  *)
(* the directory that spell no signature, one by one or together.          *)
OwnEnd == EndRecord(Len(members), Listed(Len(members)), Taken(Len(members)), 0)
Fits ==
  /\ Len(members) < W16 - 1
  /\ \A i \in DOMAIN members : NameBytes[members[i].name] < W16
  /\ Taken(Len(members)) < W32 - 1 /\ Listed(Len(members)) < W32 - 1
  /\ \A i \in 1..(EOCD_MIN_SIZE - 1) : Spelled(<<OwnEnd>>, i) \notin Ends

(* The archive lists its members in order, each with its name, its size    *)
(* and the header before its data, whatever the data looks like: local     *)
(* headers, central records and end records of archives within it are not  *)
(* mistaken for its own, and neither are names or fields whose bytes look  *)
(* like an end record.  An output that was cut off is no archive, unless   *)
(* there is such an end record in what was written of a member: in its     *)
(* data, in its name or in the fields before the name.                     *)
EntryIsMember(i) ==
  LET data == members[i].data
      at == entries[i].local_header_offset
      begin == at + LFH_SIZE + NameBytes[members[i].name]
  IN  /\ entries[i].name = members[i].name
      /\ entries[i].uncompressed_size = Len(data)
      /\ IsReadable(i)
      /\ local_data_offset(at) = begin
      /\ SubSeq(archive, begin + 1, begin + Len(data)) = data
ReadsBackInOrder ==
  (w_result = "Ok" /\ Fits) =>
    /\ Len(entries) <= Len(members)
    /\ \A i \in DOMAIN entries : EntryIsMember(i)
    /\ pc \in {"build", "done"} /\ result # "Io" =>
         Len(entries) = Len(members) /\ result \in {"none", "Ok"}
HasAnEnd(piece) == \E k \in DOMAIN piece : piece[k].kind = "EOCD"
HoldsAnEnd(i) ==
  \/ HasAnEnd(members[i].data)
  \/ HasAnEnd(LocalOf(members[i]))
  \/ i \in DOMAIN lh_offsets /\ HasAnEnd(CentralOf(members[i], lh_offsets[i]))
CutIsRefused ==
  (w_result = "Err" /\ result = "Ok") => \E i \in DOMAIN members : HoldsAnEnd(i)

(* "Returns an error only on underlying I/O failure; the format itself is  *)
(* always well-formed" (zip.rs:459): what write_stored wrote with success  *)
(* is an archive to the reader.                                            *)
OwnOutputAccepted == w_result = "Ok" => result # "NotZip"
=============================================================================
