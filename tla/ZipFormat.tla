----------------------------- MODULE ZipFormat ------------------------------
(***************************************************************************)
(* The bytes of a ZIP archive, as src/formats/zip.rs reads and writes      *)
(* them.  A byte is seen as the record that begins with it, and as Byte    *)
(* when no signature does.  A name is the sequence of the parts            *)
(* `split('/')` cuts it into: Empty where two slashes meet, or at either   *)
(* end.                                                                    *)
(***************************************************************************)
EXTENDS Integers, Sequences

CONSTANTS
  LFH_SIZE, CDR_SIZE, EOCD_MIN_SIZE,   \* the fixed part of each record: 30, 46, 22
  EOCD64_LOCATOR_SIZE, EOCD64_SIZE,    \* 20 and 56
  SIG_SIZE,                            \* the number that signs a record: 4 bytes
  W16, W32,                            \* fields hold numbers below 2^16 and 2^32
  Spelled(_, _),                       \* what the bytes of a piece spell: below
  Part,                                \* what a name is made of
  Empty,                               \* the empty part
  Backslashed,                         \* the parts that end with "\"
  NameBytes,                           \* a name -> how long it is
  NoValue                              \* `None`

Name == DOMAIN NameBytes
NoName == <<Empty>>

VARIABLE archive   \* the bytes of the archive, written or read

Byte == [kind |-> "byte"]
LocalHeader(encrypted, name_len, extra_len) ==
  [kind |-> "LFH", encrypted |-> encrypted, name_len |-> name_len,
   extra_len |-> extra_len]
(* `wide` holds the 64-bit values of the extra field, if it has any.       *)
CentralRecord(name, stored, encrypted, comp, uncomp, offset, extra, wide, rest) ==
  [kind |-> "CDR", name |-> name, stored |-> stored, encrypted |-> encrypted,
   comp |-> comp, uncomp |-> uncomp, offset |-> offset,
   extra_len |-> extra, wide |-> wide, comment_len |-> rest]
EndRecord(total, cd_size, cd_offset, comment_len) ==
  [kind |-> "EOCD", total |-> total, cd_size |-> cd_size,
   cd_offset |-> cd_offset, comment_len |-> comment_len]
Locator(at) == [kind |-> "locator", at |-> at]
End64(cd_size, cd_offset) ==
  [kind |-> "EOCD64", cd_size |-> cd_size, cd_offset |-> cd_offset]

Bytes(n) == [i \in 1..n |-> Byte]
(* A record on disk, with what follows its first byte.                     *)
Stored(record, length) == <<record>> \o Bytes(length - 1)

(* The fields of a record and the name in it are bytes like any others: an *)
(* end record can be read wherever they spell its signature, in two fields *)
(* together as well as in a name and the data behind it.                   *)
(* Spelled(what, i) is the end record that is read i bytes behind the      *)
(* beginning of the record of `what`, which is all that its bytes are made *)
(* of, or no end record.                                                   *)
Ends ==
  [kind : {"EOCD"}, total : Nat, cd_size : Nat, cd_offset : Nat,
   comment_len : Nat]
SpelledOut(record, what, length) ==
  [i \in 1..length |->
     IF i = 1 THEN record
     ELSE IF Spelled(what, i - 1) \in Ends THEN Spelled(what, i - 1) ELSE Byte]
StoredEnd(end) == SpelledOut(end, <<end>>, EOCD_MIN_SIZE)

(* What an archive is made of.                                             *)
Units ==
  {Byte}
    \cup [kind : {"LFH"}, encrypted : BOOLEAN, name_len : Nat, extra_len : Nat]
    \cup [kind : {"CDR"}, name : Name, stored : BOOLEAN, encrypted : BOOLEAN,
          comp : Nat, uncomp : Nat, offset : Nat, extra_len : Nat,
          wide : Seq(Nat), comment_len : Nat]
    \cup Ends
    \cup [kind : {"locator"}, at : Nat]
    \cup [kind : {"EOCD64"}, cd_size : Nat, cd_offset : Nat]

ASSUME SizesAssumption ==
  /\ {LFH_SIZE, CDR_SIZE, EOCD64_LOCATOR_SIZE, EOCD64_SIZE} \subseteq Nat \ {0}
  /\ EOCD_MIN_SIZE \in Nat \ {0, 1}
  /\ SIG_SIZE \in Nat \ {0} /\ SIG_SIZE <= CDR_SIZE /\ SIG_SIZE <= EOCD_MIN_SIZE
ASSUME WidthAssumption == W16 \in Nat \ {0} /\ W32 \in Nat \ {0}
ASSUME NamesAssumption ==
  /\ Empty \in Part /\ Backslashed \subseteq Part \ {Empty}
  /\ \A n \in Name : n \in Seq(Part) \ {<<>>} /\ NameBytes[n] \in Nat
ASSUME NoValueAssumption == NoValue \notin Nat \cup Name
=============================================================================
