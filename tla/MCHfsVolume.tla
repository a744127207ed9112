---------------------------- MODULE MCHfsVolume -----------------------------
(* Small volumes: nodes of four bytes, blocks of two, a catalog of up to   *)
(* four nodes with room for two extents.                                   *)
EXTENDS HfsTree, TLC

CONSTANTS a, b, c

MCCnid == {0, 2, 3, 4, 5, 6, 9}
MCName == {a, b, c}

E(start, count) == [start |-> start, count |-> count]
ForkOf(size, total, first, second) ==
  [logical_size |-> size, total_blocks |-> total,
   extents |-> <<first, second>>]
None == E(0, 0)
Plain == ForkOf(3, 2, E(40, 2), None)

OnDisk(type, parent, name, cnid, fork) ==
  [type |-> type, whole |-> TRUE, parent_cnid |-> parent, name |-> name,
   cnid |-> cnid, fork |-> fork]
Folder(cnid, name, parent) == OnDisk("folder", parent, name, cnid, Plain)
AFile(name, parent) == OnDisk("file", parent, name, 9, Plain)
Cut(item) == [item EXCEPT !.whole = FALSE]

(* Three levels, with a name that occurs at two of them, and a file in     *)
(* every folder.                                                           *)
Deep == << Folder(3, a, 2), Folder(4, b, 3), Folder(5, a, 4), Folder(6, b, 2),
           AFile(c, 2), AFile(c, 3), AFile(b, 4), AFile(c, 5), AFile(a, 6) >>

(* Two branches of the same shape.                                         *)
Branches == << Folder(3, a, 2), Folder(4, c, 3), Folder(5, b, 2),
               Folder(6, c, 5), AFile(a, 4), AFile(a, 6) >>

Flat == << Folder(3, a, 2), Folder(4, b, 2), AFile(c, 4) >>

(* Damaged catalogs: a folder that is its own parent, a cycle, a folder    *)
(* and a file whose parents are missing, two folders of one name, a parent *)
(* of 0, two records of one folder, records that are cut off or of another *)
(* kind, the root itself among them.                                       *)
OwnParent == << Folder(3, a, 3), Folder(4, b, 3), AFile(c, 3), AFile(c, 4) >>
Cycle == << Folder(3, a, 4), Folder(4, b, 3), Folder(5, c, 2), AFile(c, 3),
            AFile(a, 5) >>
Orphans == << Folder(3, a, 9), Folder(4, b, 2), AFile(c, 9), AFile(c, 3),
              AFile(b, 4) >>
Twins == << Folder(3, a, 2), Folder(4, a, 2), Folder(5, b, 4), AFile(c, 3),
            AFile(c, 4), AFile(c, 5) >>
Zero == << Folder(3, a, 0), Folder(4, b, 2), AFile(c, 3) >>
Twice == << Folder(3, a, 2), AFile(c, 3), Folder(4, b, 2), Folder(3, b, 4) >>
Others == << OnDisk("thread", 3, a, 3, Plain), Folder(2, a, 9),
             Cut(Folder(3, a, 2)), OnDisk("unknown", 2, b, 4, Plain),
             Cut(AFile(c, 2)), AFile(b, 2) >>

-----------------------------------------------------------------------------
(* The catalog begins at block 1, offset 2; its n-th node is at 2 + 4 n.   *)
At(n) == 2 + 4 * n
Leaf(items, link) == [kind |-> "leaf", f_link |-> link, items |-> items]
IndexNode(link) == [kind |-> "other", f_link |-> link, items |-> <<>>]
Half(items, i) ==
  LET middle == Len(items) \div 2
  IN  IF i = 1 THEN SubSeq(items, 1, middle)
               ELSE SubSeq(items, middle + 1, Len(items))

Volume(first, file_nodes, layout) ==
  [ short |-> FALSE, faulty |-> FALSE, signature |-> "HFS+", version |-> 4,
    block_size |-> 2, length |-> At(4),
    cat_file |-> ForkOf(4 * file_nodes, 2 * file_nodes,
                        E(1, 2 * file_nodes), None),
    header |-> [kind |-> "header", num_records |-> 3, node_size |-> 4,
                first_leaf_node |-> first],
    nodes |-> layout ]

TwoLeaves(items) ==
  Volume(1, 3, At(1) :> Leaf(Half(items, 1), 2)
                 @@ At(2) :> Leaf(Half(items, 2), 0))
Sound == TwoLeaves(Flat)

(* The leaves in any order and number, an index node between them.         *)
Chains ==
  { Volume(2, 3, At(2) :> Leaf(Half(Flat, 1), 1) @@ At(1) :> Leaf(Half(Flat, 2), 0)),
    Volume(3, 4, At(3) :> Leaf(Half(Flat, 1), 2) @@ At(2) :> IndexNode(1)
                   @@ At(1) :> Leaf(Half(Flat, 2), 0)),
    Volume(1, 4, At(1) :> Leaf(<<Flat[1]>>, 3) @@ At(3) :> Leaf(<<Flat[2]>>, 2)
                   @@ At(2) :> Leaf(<<Flat[3]>>, 0)),
    Volume(1, 2, At(1) :> Leaf(Flat, 0)), Volume(0, 1, <<>>) }

(* Links in a circle, out of the catalog and out of the image, a catalog   *)
(* in two pieces, an image that is cut off, sizes that do not fit.         *)
Broken ==
  { Volume(1, 3, At(1) :> Leaf(Half(Flat, 1), 2) @@ At(2) :> Leaf(<<>>, 1)),
    Volume(1, 3, At(1) :> IndexNode(1)),
    Volume(1, 2, At(1) :> Leaf(Half(Flat, 1), 2) @@ At(2) :> Leaf(Half(Flat, 2), 0)),
    Volume(1, 3, At(1) :> Leaf(Flat, 9)),
    [Sound EXCEPT !.cat_file = ForkOf(12, 6, E(1, 4), E(20, 2)),
                  !.nodes = At(1) :> Leaf(Half(Flat, 1), 2)
                              @@ 40 :> Leaf(Half(Flat, 2), 0)],
    [Sound EXCEPT !.length = At(2)], [Sound EXCEPT !.length = At(0) + 3],
    [Sound EXCEPT !.cat_file.logical_size = 4 * W32],
    [Sound EXCEPT !.cat_file.logical_size = 0],
    [Sound EXCEPT !.cat_file.extents[1] = None],
    [Sound EXCEPT !.header.kind = "other"],
    [Sound EXCEPT !.header.num_records = 0],
    [Sound EXCEPT !.header.node_size = 3],
    [Sound EXCEPT !.short = TRUE], [Sound EXCEPT !.signature = "other"],
    [Sound EXCEPT !.version = 3],
    [Sound EXCEPT !.signature = "HFSX", !.version = 5] }

(* Files that are empty, in one run, in two, in one that is stored as two, *)
(* in more than the record has room for.                                   *)
Forks ==
  { ForkOf(0, 0, None, None), ForkOf(9, 5, E(40, 3), E(50, 2)),
    ForkOf(9, 5, E(40, 3), E(43, 2)), ForkOf(9, 5, E(40, 3), None),
    ForkOf(13, 7, E(40, 3), E(50, 2)), ForkOf(5, 3, E(40, 4), None),
    ForkOf(0, 0, E(40, 1), None), ForkOf(4, 2, None, E(40, 2)) }
OneFile(fork) == TwoLeaves(<< Folder(3, a, 2), OnDisk("file", 3, b, 4, fork) >>)

MCVolumes ==
  { TwoLeaves(items) :
      items \in {Deep, Branches, Flat, OwnParent, Cycle, Orphans, Twins, Zero,
                 Twice, Others} }
    \cup Chains \cup Broken \cup { OneFile(fork) : fork \in Forks }
    \cup { [v EXCEPT !.faulty = TRUE] : v \in Chains }
=============================================================================
