--------------------------- MODULE MCTarRoundTrip ---------------------------
(* Every list of up to MaxMembers of the entries below: data of no, one    *)
(* and two blocks, data that is itself a header or zeros, names that clash *)
(* or that the header has no room for.                                     *)
EXTENDS TarRoundTrip, TLC

CONSTANTS a, b, long1, long2, MaxMembers, MaxBlocks

MCPart == {Empty, Dot, a, b, long1, long2}

(* Two names that are the same in the first 100 bytes.                     *)
MCCut ==
  LET short == { <<a>>, <<b>>, <<a, b>>, <<Dot, b>>, <<b, Empty>>,
                 <<Empty, a>> }
  IN  [n \in short \cup {<<long1>>, <<long2>>} |->
         IF n \in short THEN n ELSE <<long1>>]

Entries(name, size, data) == [name |-> name, size |-> size, data |-> data]
Bytes == HeaderBlock(FALSE, "other", NoName, 0, NoBody)
Inner == HeaderBlock(TRUE, "file", <<b>>, 3, NoBody)

MCMembers ==
  { Entries(<<a>>, 0, <<>>),
    Entries(<<b>>, 1, <<Inner>>),
    Entries(<<b>>, 2, <<Bytes>>),
    Entries(<<a, b>>, 4, <<ZeroBlock, ZeroBlock>>),
    Entries(<<Dot, b>>, 3, <<ZeroBlock, Inner>>),
    Entries(<<b, Empty>>, 1, <<Bytes>>),
    Entries(<<Empty, a>>, 0, <<>>),
    Entries(<<long1>>, 2, <<Inner>>),
    Entries(<<long2>>, 1, <<ZeroBlock>>) }

MCWrites == UNION { [1..n -> MCMembers] : n \in 0..MaxMembers }

(* The archives of other writers: every one of up to MaxBlocks of the      *)
(* blocks below: names that clash as file and directory, absolute and "./" *)
(* names, payloads of one and two blocks, headers of every type, a block   *)
(* that is no header; in particular data that looks like a header,         *)
(* truncated payloads and data, overrides in a row and with other headers  *)
(* between them and their entry.                                           *)
OfName(name) == [name |-> name, size |-> NoValue]
OfSize(size) == [name |-> NoValue, size |-> size]

Header(typeflag, name, size) ==
  HeaderBlock(TRUE, typeflag, name, size, NoBody)

MCBlocks ==
  { ZeroBlock,
    Header("file", <<a>>, 0),
    Header("file", <<a, b>>, 3),
    Header("file", <<Empty, b>>, 1),
    Header("file", <<Dot, a, Empty>>, 0),
    Header("dir", <<a>>, 0),
    Header("other", <<b>>, 1),
    Header("longlink", <<b>>, 1),
    HeaderBlock(TRUE, "longname", <<b>>, 1, OfName(<<b, a>>)),
    HeaderBlock(TRUE, "pax", <<b>>, 2, [name |-> <<b, b>>, size |-> 3]),
    HeaderBlock(TRUE, "pax", <<b>>, 0, OfSize(0)),
    HeaderBlock(FALSE, "other", NoName, 0, NoBody),
    HeaderBlock(FALSE, "pax", <<a>>, 0, OfName(<<Dot, Dot, b, b>>)) }

MCArchives == UNION { [1..n -> MCBlocks] : n \in 0..MaxBlocks }
=============================================================================
