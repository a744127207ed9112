----------------------------- MODULE TarFormat ------------------------------
(***************************************************************************)
(* The blocks of a TAR archive, as src/formats/tar.rs reads and writes     *)
(* them.  A block is seen as the scanner would see it if it read a header  *)
(* there, whether it is one or is part of a file's data.  A name is the    *)
(* sequence of the parts `split('/')` cuts it into: Empty where two        *)
(* slashes meet, or at either end.                                         *)
(***************************************************************************)
EXTENDS Integers, Sequences

CONSTANTS
  BLOCK,     \* bytes in a block: 512 in the code
  Part,      \* what a name is made of
  Empty,     \* the empty part
  Dot,       \* the part "."
  NoValue    \* `None`

Name == Seq(Part) \ {<<>>}
NoName == <<Empty>>

VARIABLE archive   \* the blocks of the archive, written or read

(* A header that follows from no bytes of a block has no magic and type    *)
(* "other".  "file" stands for the four types that are read as files, and  *)
(* `body` for what the payload of a long name or a PAX header overrides.   *)
Typeflag == {"file", "dir", "longname", "longlink", "pax", "other"}
ZeroBlock == [zero |-> TRUE]
HeaderBlock(magic, typeflag, name, size, body) ==
  [zero |-> FALSE, magic |-> magic, typeflag |-> typeflag, name |-> name,
   size |-> size, body |-> body]
IsBlock(b) ==
  \/ b = ZeroBlock
  \/ /\ b = HeaderBlock(b.magic, b.typeflag, b.name, b.size, b.body)
     /\ b.magic \in BOOLEAN /\ b.typeflag \in Typeflag
     /\ b.name \in Name /\ b.size \in Nat
     /\ b.body.name \in Name \cup {NoValue}
     /\ b.body.size \in Nat \cup {NoValue}
     /\ b.typeflag = "longname" => b.body.name # NoValue
                                     /\ b.body.size = NoValue

(* What a sequence is: a function on the numbers up to its length.         *)
IsSequence(s) == Len(s) \in Nat /\ s = [i \in 1..Len(s) |-> s[i]]

ASSUME BlockAssumption == BLOCK \in Nat \ {0}
ASSUME PartAssumption == {Empty, Dot} \subseteq Part /\ Empty # Dot
ASSUME NoValueAssumption == NoValue \notin Nat \cup Name

(* How many blocks a payload takes: div_ceil.                              *)
Blocks(bytes) == (bytes + BLOCK - 1) \div BLOCK

(* No override: the body of every header but a long name or a PAX header.  *)
NoBody == [name |-> NoValue, size |-> NoValue]
=============================================================================
