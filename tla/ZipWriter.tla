----------------------------- MODULE ZipWriter ------------------------------
(***************************************************************************)
(* `write_stored` (src/formats/zip.rs): an archive from pairs of a name    *)
(* and data.  Each record, name and data is a write here; the output may   *)
(* fail at any byte, which ends the call and leaves what was written.      *)
(***************************************************************************)
EXTENDS ZipFormat, SequencesExt

CONSTANTS
  Writes,    \* the lists of entries that are written
  Cut        \* a name -> what a length field of 16 bits leaves of it

IsMember(m) ==
  /\ m \in [name : Name, data : Seq(Units)] /\ Cut[m.name] \in Name
  /\ NameBytes[Cut[m.name]] = NameBytes[m.name] % W16
  /\ NameBytes[m.name] < W16 => Cut[m.name] = m.name

ASSUME WritesAssumption ==
  \A w \in Writes : Len(w) \in Nat /\ w = [i \in 1..Len(w) |-> w[i]]
                     /\ \A i \in DOMAIN w : IsMember(w[i])

(* The sums of 32 bits wrap, as they do where overflow is not checked.      *)
VARIABLES
  members,       \* the argument `entries`
  w_pc,          \* "entry", "data", "central", "end" or "done"
  next_member,   \* the member, and later the record, that is written next
  offset,        \* u32
  lh_offsets,    \* of each member; its record has no more to remember
  w_cd_size,     \* u32
  w_result       \* "none" while running, then "Ok" or "Err"

writerVars ==
  <<members, w_pc, next_member, offset, lh_offsets, w_cd_size, w_result>>

InitWriter ==
  /\ archive = <<>>
  /\ members \in Writes
  /\ w_pc = "entry" /\ next_member = 1
  /\ offset = 0 /\ lh_offsets = <<>> /\ w_cd_size = 0
  /\ w_result = "none"

Member == members[next_member]
Size(m) == Len(m.data) % W32

(* A record of a member and the name behind it, of which the length field  *)
(* may not count everything.                                               *)
Named(record, fixed, m) ==
  SpelledOut(record, <<record, m>>, fixed + NameBytes[m.name])

LocalOf(m) ==
  Named(LocalHeader(FALSE, NameBytes[m.name] % W16, 0), LFH_SIZE, m)
CentralOf(m, lh_offset) ==
  Named(CentralRecord(Cut[m.name], TRUE, FALSE, Size(m), Size(m), lh_offset,
                      0, <<>>, 0), CDR_SIZE, m)
LocalPiece == LocalOf(Member)
CentralPiece == CentralOf(Member, lh_offsets[next_member])
EndPiece ==
  StoredEnd(EndRecord(Len(members) % W16, w_cd_size, offset, 0))

Piece ==
  CASE w_pc = "entry"   -> LocalPiece
    [] w_pc = "data"    -> Member.data
    [] w_pc = "central" -> CentralPiece
    [] w_pc = "end"     -> EndPiece

More == next_member <= Len(members)

(* Mutant: the header's own offset is noted once it is written.            *)
AfterHeader == Append(lh_offsets, offset + LFH_SIZE)
HeaderNoted == Append(lh_offsets, offset)

WriteLocal ==
  /\ w_pc = "entry" /\ More
  /\ archive' = archive \o Piece
  /\ lh_offsets' = HeaderNoted
  /\ w_pc' = "data"
  /\ UNCHANGED <<members, next_member, offset, w_cd_size, w_result>>

WriteData ==
  /\ w_pc = "data"
  /\ archive' = archive \o Piece
  /\ offset' = (offset + LFH_SIZE + NameBytes[Member.name] + Size(Member)) % W32
  /\ next_member' = next_member + 1
  /\ w_pc' = "entry"
  /\ UNCHANGED <<members, lh_offsets, w_cd_size, w_result>>

EntriesWritten ==
  /\ w_pc = "entry" /\ ~More
  /\ w_pc' = "central" /\ next_member' = 1
  /\ UNCHANGED <<archive, members, offset, lh_offsets, w_cd_size, w_result>>

WriteCentral ==
  /\ w_pc = "central" /\ More
  /\ archive' = archive \o Piece
  /\ w_cd_size' = (w_cd_size + CDR_SIZE + NameBytes[Member.name]) % W32
  /\ next_member' = next_member + 1
  /\ UNCHANGED <<members, w_pc, offset, lh_offsets, w_result>>

RecordsWritten ==
  /\ w_pc = "central" /\ ~More
  /\ w_pc' = "end"
  /\ UNCHANGED <<archive, members, next_member, offset, lh_offsets, w_cd_size,
                 w_result>>

WriteEnd ==
  /\ w_pc = "end"
  /\ archive' = archive \o Piece
  /\ w_pc' = "done" /\ w_result' = "Ok"
  /\ UNCHANGED <<members, next_member, offset, lh_offsets, w_cd_size>>

WriteFails ==
  /\ w_pc = "end" \/ (w_pc # "done" /\ More)
  /\ \E n \in 0..(Len(Piece) - 1) : archive' = archive \o SubSeq(Piece, 1, n)
  /\ w_pc' = "done" /\ w_result' = "Err"
  /\ UNCHANGED <<members, next_member, offset, lh_offsets, w_cd_size>>

WriterNext ==
  \/ WriteLocal \/ WriteData \/ EntriesWritten
  \/ WriteCentral \/ RecordsWritten \/ WriteEnd \/ WriteFails
=============================================================================
