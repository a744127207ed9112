------------------------------ MODULE MCCopies ------------------------------
(* Small instances of CatNode and Extract: one call of either, the other   *)
(* one's variables at rest.                                                *)
EXTENDS CatNode, Extract, FiniteSets, TLC

CONSTANTS n0, n1, n2, n3, n4, n5

(* A node of each kind the parsers stamp out: located files (two chunks    *)
(* and a rest, exactly two chunks, less than one, empty, one that reaches  *)
(* past the end of the image), a directory, and files without a location   *)
(* or a length.                                                            *)
Located(location, length) ==
  [is_directory |-> FALSE, file_location |-> location, file_length |-> length]

MCNodes ==
  { Located(2, 7), Located(1, 6), Located(4, 2), Located(3, 0), Located(6, 6),
    Located(NoValue, 5), Located(4, NoValue),
    [Located(2, 3) EXCEPT !.is_directory = TRUE] }

(* A tree from the records of its nodes.                                   *)
Tree(nodes) ==
  LET N == DOMAIN nodes
  IN  [ top           |-> n0,
        kids          |-> [n \in N |-> nodes[n].kids],
        is_directory  |-> [n \in N |-> nodes[n].dir],
        name          |-> [n \in N |-> nodes[n].name],
        file_location |-> [n \in N |-> nodes[n].range[1]],
        file_length   |-> [n \in N |-> nodes[n].range[2]] ]

Folder(name, kids) ==
  [name |-> name, dir |-> TRUE, kids |-> kids, range |-> <<NoValue, NoValue>>]
Leaf(name, location, length) ==
  [name |-> name, dir |-> FALSE, kids |-> <<>>,
   range |-> <<location, length>>]

(* A disc with nested directories; the same name at two levels; an empty   *)
(* directory and an empty file.                                            *)
Disc == Tree(n0 :> Folder(Slash, <<n1, n4, n5>>)
          @@ n1 :> Folder(<<"a">>, <<n2, n3>>)
          @@ n2 :> Leaf(<<"a">>, 1, 5)
          @@ n3 :> Folder(<<"b">>, <<>>)
          @@ n4 :> Leaf(<<"b">>, 6, 0)
          @@ n5 :> Leaf(<<"c">>, 4, 4))

(* Siblings of one name: two files, two directories, a file and a          *)
(* directory.                                                              *)
Twins == Tree(n0 :> Folder(Slash, <<n1, n2, n3, n4>>)
           @@ n1 :> Leaf(<<"a">>, 0, 3)
           @@ n2 :> Leaf(<<"a">>, 5, 2)
           @@ n3 :> Folder(<<"b">>, <<>>)
           @@ n4 :> Folder(<<"b">>, <<n5>>)
           @@ n5 :> Leaf(<<"a">>, 7, 1))
Clash == Tree(n0 :> Folder(Slash, <<n1, n2>>)
           @@ n1 :> Folder(<<"a">>, <<>>)
           @@ n2 :> Leaf(<<"a">>, 2, 2))

(* A file with a child, which is not extracted.                            *)
Replaced == Tree(n0 :> Folder(Slash, <<n1>>)
              @@ n1 :> [Leaf(<<"a">>, 1, 2) EXCEPT !.kids = <<n2>>]
              @@ n2 :> Leaf(<<"b">>, 3, 1))

(* Names no entry may have, and a file the parser did not locate.          *)
Up == Tree(n0 :> Folder(Slash, <<n1, n2>>)
        @@ n1 :> Leaf(<<"a">>, 2, 2)
        @@ n2 :> Folder(<<"..">>, <<n3>>)
        @@ n3 :> Leaf(<<"keep">>, 3, 1))
Rooted == Tree(n0 :> Folder(<<"a">>, <<n1>>)
            @@ n1 :> Leaf(<<"", "keep">>, 3, 1))
Unlocated == Tree(n0 :> Folder(Slash, <<n1, n2>>)
               @@ n1 :> Leaf(<<"a">>, 2, 4)
               @@ n2 :> Leaf(<<"b">>, NoValue, 4))

(* A file and a directory passed on their own; a file that reaches past    *)
(* the end of the image.                                                   *)
OneFile == Tree(n0 :> Leaf(<<"a">>, 2, 6))
Subtree == Tree(n0 :> Folder(<<"a">>, <<n1, n2>>)
             @@ n1 :> Leaf(<<"b">>, 0, 2)
             @@ n2 :> Leaf(<<"c">>, 6, 4))

Extracted == { Disc, Twins, Clash, Up, Rooted, Unlocated, OneFile, Subtree,
               Replaced }

MCPart == {"", ".", "..", "a", "b", "c", "keep", "out"}
MCOutDir == <<"out">>

(* The file system before the call: without the output directory, with an  *)
(* output directory that already has entries, with a file in its place.    *)
Old == File(<<OldByte, OldByte>>)
Bare == <<>> :> Dir @@ <<"keep">> :> Old
Used == Bare @@ <<"out">> :> Dir @@ <<"out", "a">> :> Dir
             @@ <<"out", "c">> :> Old @@ <<"out", "keep">> :> Old
Taken == Bare @@ <<"out">> :> Old
MCHosts == { Bare, Used, Taken }

-----------------------------------------------------------------------------
(* What is at rest has nothing to do: a root without children, a directory *)
(* that is passed to cat_node.                                             *)
NoTree == Tree(n0 :> Folder(Slash, <<>>))
NoNode == [Located(2, 3) EXCEPT !.is_directory = TRUE]
MCTrees == Extracted \cup {NoTree}

MCInit ==
  \/ /\ CatInit
     /\ tree = NoTree /\ before = Bare /\ host = Bare
     /\ todo = <<>> /\ task = [node |-> n0, here |-> OutDir] /\ log = <<>>
  \/ /\ Init /\ tree # NoTree
     /\ node = NoNode /\ drained = 0 /\ sent = <<>>
MCNext ==
  \/ tree = NoTree /\ CatNext /\ UNCHANGED <<walkVars, host>>
  \/ tree # NoTree /\ Next /\ UNCHANGED <<node, drained, sent>>
MCSpec == MCInit /\ [][MCNext]_<<catVars, vars>>
=============================================================================
