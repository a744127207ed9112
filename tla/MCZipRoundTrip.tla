--------------------------- MODULE MCZipRoundTrip ---------------------------
(* Records of two bytes, the end record of five, of which one each is for  *)
(* the count, the size and the offset of the directory and the comment's   *)
(* length; fields of two and of six bits.  The lists that are written are all those of up to         *)
(* MaxMembers of the members below: data that is empty, plain, or looks    *)
(* like a record of any kind, and names and fields that do.                *)
EXTENDS ZipRoundTrip, TLC

CONSTANTS a, b, aSlash, MaxMembers

MCPart == {Empty, a, b, aSlash}
MCNameBytes ==
     <<a>> :> 1 @@ <<b>> :> 1 @@ <<a, Empty>> :> 2 @@ <<Empty, a>> :> 2
  @@ <<a, b>> :> 3 @@ <<aSlash>> :> 2 @@ <<a, Empty, b>> :> 4
  @@ <<Empty>> :> 0

(* Only the longest name does not fit.                                     *)
MCCut ==
  [n \in DOMAIN MCNameBytes |-> IF MCNameBytes[n] < W16 THEN n ELSE <<Empty>>]

M(name, data) == [name |-> name, data |-> data]
MCMembers ==
  { M(<<a>>, <<>>), M(<<b>>, << Byte >>),
    M(<<a, b>>, << LocalHeader(TRUE, 0, 0), Byte >>),
    M(<<b>>, << EndRecord(0, 0, 0, 0), Byte >>),
    M(<<a>>, << CentralRecord(<<b>>, TRUE, FALSE, 1, 1, 0, 0, <<>>, 0) >>),
    M(<<a, Empty>>, <<>>), M(<<a, Empty, b>>, << Byte >>) }
MCWrites == UNION { [1..n -> MCMembers] : n \in 0..MaxMembers }

(* The signature is spelled by a count of 2 before a size of 7, by a size  *)
(* of 6, and by an offset of 7; by the checksum of a member with data like *)
(* <<b>>'s, in the header's second byte; by the name <<a, b>>, in both     *)
(* records and together with the data behind it; and by an offset of 3     *)
(* before the name <<a, Empty>>, in the central record alone.  What is     *)
(* read there is an end record that lists nothing.                         *)
Nothing == EndRecord(0, 0, 0, 0)
MCSpelled(what, i) ==
  LET record == what[1]
  IN  CASE record.kind = "EOCD" ->
             IF \/ i = 1 /\ record.total = 2 /\ record.cd_size = 7
                \/ i = 2 /\ record.cd_size = 6
                \/ i = 3 /\ record.cd_offset = 7
               THEN Nothing ELSE Byte
        [] record.kind = "LFH" ->
             IF \/ i = 1 /\ what[2] = M(<<b>>, << Byte >>)
                \/ i = LFH_SIZE /\ what[2].name = <<a, b>>
               THEN Nothing ELSE Byte
        [] record.kind = "CDR" ->
             IF \/ i = CDR_SIZE /\ what[2].name = <<a, b>>
                \/ i = 1 /\ record.offset = 3 /\ what[2].name = <<a, Empty>>
               THEN Nothing ELSE Byte

NothingSpelled(what, i) == Byte

(* The archives of other writers begin with two local headers, at 0 one of *)
(* plain data and at 4 one of encrypted data.                              *)
Locals ==
  Stored(LocalHeader(FALSE, 1, 0), LFH_SIZE) \o Bytes(2)
    \o Stored(LocalHeader(TRUE, 1, 1), LFH_SIZE) \o Bytes(2)
Full32 == W32 - 1

(* Their directories list up to three of these records: entries that are   *)
(* compressed, encrypted by either header, without a local header, of      *)
(* clashing and of odd names, with 64-bit values and with some missing.    *)
C(name, stored, encrypted, size, offs) ==
  Stored(CentralRecord(name, stored, encrypted, 1, size, offs, 0, <<>>, 0),
         CDR_SIZE) \o Bytes(MCNameBytes[name])
Wide64(wide, comment_len) ==
  Stored(CentralRecord(<<b>>, TRUE, FALSE, 5, Full32, Full32, 2, wide,
                       comment_len), CDR_SIZE) \o Bytes(3 + comment_len)
MCRecords ==
  { C(<<a>>, TRUE, FALSE, 1, 0), C(<<a>>, TRUE, FALSE, 1, 4),
    C(<<a>>, FALSE, FALSE, 2, 0), C(<<a>>, TRUE, TRUE, 1, 0),
    C(<<a, Empty>>, TRUE, FALSE, 0, 0), C(<<a, b>>, TRUE, FALSE, 1, 5),
    C(<<a, Empty, b>>, TRUE, FALSE, 1, 0), C(<<Empty, a>>, TRUE, FALSE, 3, 0),
    C(<<aSlash>>, TRUE, FALSE, 1, 0), C(<<Empty>>, TRUE, FALSE, 1, 0),
    Wide64(<<1, 0>>, 1), Wide64(<<1>>, 0) }
Directories(n) ==
  { FlattenSeq(records) : records \in UNION { [1..k -> MCRecords] : k \in 0..n } }

Whole(cd) == Locals \o cd
At == Len(Locals)
PlainEnd(cd, comment) ==
  Whole(cd) \o StoredEnd(EndRecord(1, Len(cd), At, Len(comment))) \o comment
OtherEnd(cd, size, offs, rest) ==
  Whole(cd) \o StoredEnd(EndRecord(1, size, offs, 0)) \o rest
(* A 64-bit end record, its locator, and the end record.                   *)
WideEnd(cd, at) ==
  Whole(cd) \o Stored(End64(Len(cd), At), EOCD64_SIZE)
    \o Stored(Locator(at), EOCD64_LOCATOR_SIZE)
    \o StoredEnd(EndRecord(W16 - 1, Full32, Full32, 0))

Odd(cd) ==
  { PlainEnd(cd, Bytes(n)) : n \in 1..(W16 - 1) }
    \cup { PlainEnd(cd, << EndRecord(0, 0, 0, 0), Byte >>),
           PlainEnd(cd, << Byte, EndRecord(0, 0, 0, 0) >>),
           OtherEnd(cd, Len(cd) + 9, At, <<>>),
           OtherEnd(cd, Len(cd), At + 1, <<>>),
           OtherEnd(cd, Len(cd) - 1, At, <<>>),
           OtherEnd(cd, Len(cd), At, Bytes(W16)),
           OtherEnd(cd, Full32, At, <<>>),
           Whole(cd),
           WideEnd(cd, At + Len(cd)), WideEnd(cd, At + Len(cd) + 1),
           WideEnd(cd, 2 * At + Len(cd)) }

MCArchives ==
  { PlainEnd(cd, <<>>) : cd \in Directories(3) }
    \cup UNION { Odd(cd) : cd \in Directories(2) \ {<<>>} }
    \cup { <<>>, << EndRecord(0, 0, 0, 0) >>,
           StoredEnd(EndRecord(W16 - 1, 0, 0, 0)) }
=============================================================================
