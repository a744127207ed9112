----------------------------- MODULE TarWriter ------------------------------
(***************************************************************************)
(* `write` and `write_entry` (src/formats/tar.rs): a ustar archive from    *)
(* pairs of a name and data.  Each write to the output may fail, which     *)
(* ends the call and leaves what was written; a block counts only when all *)
(* of it was, since no reader takes less for a block.                      *)
(***************************************************************************)
EXTENDS TarFormat

CONSTANTS
  Writes,    \* the lists of entries that are written
  Cut        \* a name -> what its first 100 bytes are as a name

IsMember(m) ==
  /\ m = [name |-> m.name, size |-> m.size, data |-> m.data]
  /\ m.name \in DOMAIN Cut /\ Cut[m.name] \in Name
  /\ m.size \in Nat
  /\ IsSequence(m.data) /\ Len(m.data) = Blocks(m.size)
  /\ \A i \in DOMAIN m.data : IsBlock(m.data[i])

ASSUME WritesAssumption ==
  \A w \in Writes : IsSequence(w) /\ \A i \in DOMAIN w : IsMember(w[i])

VARIABLES
  members,       \* the argument `entries`
  w_pc,          \* "entry", "data", "trailer" or "done"
  next_member,   \* the entry write_entry is called for
  copied,        \* blocks of its data written, or zero blocks of the trailer
  w_result       \* "none" while running, then "Ok" or "Err"

writerVars == <<members, w_pc, next_member, copied, w_result>>

InitWriter ==
  /\ archive = <<>>
  /\ members \in Writes
  /\ w_pc = "entry"
  /\ next_member = 1
  /\ copied = 0
  /\ w_result = "none"

(* The header: the name cut to its field, a regular file.                  *)
WriteHeader ==
  /\ w_pc = "entry" /\ next_member <= Len(members)
  /\ LET m == members[next_member]
     IN  archive' = Append(archive, HeaderBlock(TRUE, "file", Cut[m.name],
                                                m.size, NoBody))
  /\ w_pc' = "data"
  /\ UNCHANGED <<members, next_member, copied, w_result>>

(* The data, the last block padded with zeros.                             *)
WriteData ==
  /\ w_pc = "data" /\ copied < Len(members[next_member].data)
  /\ archive' = Append(archive, members[next_member].data[copied + 1])
  /\ copied' = copied + 1
  /\ UNCHANGED <<members, w_pc, next_member, w_result>>

(* Mutant: the next entry's data begins where this one's ended.            *)
EntryWrittenNoReset ==
  /\ w_pc = "data" /\ copied = Len(members[next_member].data)
  /\ w_pc' = "entry"
  /\ next_member' = next_member + 1
  /\ UNCHANGED <<archive, members, copied, w_result>>

EntryWritten ==
  /\ w_pc = "data" /\ copied = Len(members[next_member].data)
  /\ w_pc' = "entry"
  /\ next_member' = next_member + 1
  /\ copied' = 0
  /\ UNCHANGED <<archive, members, w_result>>

(* End of archive: two zero blocks, in one write_all.                      *)
WriteTrailer ==
  /\ \/ w_pc = "entry" /\ next_member > Len(members)
     \/ w_pc = "trailer"
  /\ archive' = Append(archive, ZeroBlock)
  /\ copied' = copied + 1
  /\ IF copied = 1 THEN w_pc' = "done" /\ w_result' = "Ok"
                   ELSE w_pc' = "trailer" /\ UNCHANGED w_result
  /\ UNCHANGED <<members, next_member>>

WriteFails ==
  /\ w_pc # "done"
  /\ w_pc' = "done"
  /\ w_result' = "Err"
  /\ UNCHANGED <<archive, members, next_member, copied>>

WriterNext ==
  WriteHeader \/ WriteData \/ EntryWritten \/ WriteTrailer \/ WriteFails
=============================================================================
