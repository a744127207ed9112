---------------------------- MODULE MCExtVolume -----------------------------
(* Small inodes for the two walks and small volumes for ExtVolume, laid    *)
(* out as the format says.  The inodes: two direct pointers and two in a   *)
(* block, so that the trees hold two, four and eight blocks; a length      *)
(* field of three bits, so that an extent has up to four blocks; up to two *)
(* gaps and one pointer block missing or unreadable.  The volumes: six in  *)
(* groups of two to four inodes, blocks of four or eight bytes, inodes of two or  *)
(* three.                                                                  *)
EXTENDS ExtVolume, TLC

CONSTANTS alpha, beta, a, b, c, d

X(at, field, phys) == [at |-> at, phys |-> phys, field |-> field]

(* Files of at most six blocks: one or two extents, with holes before,     *)
(* between and behind them, in use or unwritten, neighbours in the image   *)
(* or not, in either order there.                                          *)
Fields == 0..7
One == { << X(at, f, 8) >> : at \in 0..2, f \in Fields }
Pair(at, f, hole, g, p) ==
  << X(at, f, 8), X(at + RealLen(X(0, f, 0)) + hole, g, p) >>
Two == { Pair(at, f, hole, g, p) :
           at \in 0..1, hole \in 0..1, f \in {1, 2, 4, 5}, g \in {1, 2, 6},
           p \in {2, 9, 10} }
End(file) ==
  LET ends == { e.at + RealLen(e) : e \in { x \in ToSet(file) :
                                             ~RealUnwritten(x) } } \cup {0}
  IN  CHOOSE n \in ends : \A x \in ends : x <= n

LeafOf(file) == [magic |-> TRUE, depth |-> 0, extents |-> file, kids |-> <<>>]
Index(depth, kids) ==
  [magic |-> TRUE, depth |-> depth, extents |-> <<>>, kids |-> kids]
BadOne == [magic |-> FALSE, depth |-> 0, extents |-> <<>>, kids |-> <<>>]

(* Trees of depth 0, 1 and 2; one leaf with a wrong magic, a child outside *)
(* the image, nodes that contain themselves, and one too deep.             *)
Trees(file) ==
  LET left == LeafOf(IF file = <<>> THEN <<>> ELSE << file[1] >>)
      right == LeafOf(IF file = <<>> THEN <<>> ELSE Tail(file))
  IN  { RootNode :> LeafOf(file),
        RootNode :> Index(1, <<a, b>>) @@ a :> left @@ b :> right,
        RootNode :> Index(2, <<a, b>>) @@ a :> Index(1, <<c>>)
          @@ b :> Index(1, <<d>>) @@ c :> left @@ d :> right,
        RootNode :> Index(1, <<a, b>>) @@ a :> left @@ b :> BadOne,
        RootNode :> Index(1, <<a, b>>) @@ a :> BadOne @@ b :> right,
        RootNode :> Index(2, <<a, b>>) @@ a :> left @@ b :> Index(1, <<c>>)
          @@ c :> BadOne,
        RootNode :> Index(1, <<a, Outside>>) @@ a :> left,
        RootNode :> Index(1, <<a, a>>) @@ a :> left,
        RootNode :> Index(2, <<a, b>>) @@ a :> Index(1, <<a, b>>) @@ b :> right,
        RootNode :> Index(3, <<a>>) @@ a :> Index(2, <<b>>)
          @@ b :> Index(1, <<c>>) @@ c :> LeafOf(file) }

WithExtents ==
  UNION { { [ needed |-> n, inline |-> FALSE, uses_extents |-> TRUE,
              i_block |-> [i \in 1..Direct |-> 0], file |-> file,
              nodes |-> tree ] :
              tree \in Trees(file), n \in End(file)..(End(file) + 1) } :
          file \in One \cup Two \cup {<<>>} }

WithPointers ==
  { [ needed |-> n, inline |-> inline, uses_extents |-> FALSE,
      i_block |-> numbers, file |-> <<>>, nodes |-> RootNode :> BadOne ] :
      n \in 0..(Direct + 1), inline \in BOOLEAN,
      numbers \in [1..Direct -> 0..4] }

MCInputs == WithExtents \cup WithPointers

MCNames == {alpha, beta, Dot, DotDot}

S(log, per_group, size, wide) ==
  [ magic |-> TRUE, blocks_count |-> 9, first_data_block |-> IF log = 0 THEN 1 ELSE 0,
    log_block_size |-> log, blocks_per_group |-> 9,
    inodes_per_group |-> per_group, rev_level |-> 1, inode_size |-> size,
    bit64 |-> wide, desc_size |-> 3 ]

(* The image of a volume with so many inodes.                              *)
DescSize(s) == IF s.bit64 THEN s.desc_size ELSE MinDesc
TableBlock(s, g) == 9 + g * s.inodes_per_group
Image(s, inodes) ==
  LET base == 5
      start == base + (s.first_data_block + 1) * BlockSize(s)
      groups == 0..((Len(inodes) - 1) \div s.inodes_per_group)
      group(i) == (i - 1) \div s.inodes_per_group
      at(i) == base + TableBlock(s, group(i)) * BlockSize(s)
                 + (i - 1 - group(i) * s.inodes_per_group) * InodeSize(s)
  IN  [ base |-> base, super |-> s,
        descriptors |-> [o \in { start + g * DescSize(s) : g \in groups } |->
                           TableBlock(s, (o - start) \div DescSize(s))],
        table |-> [o \in { at(i) : i \in DOMAIN inodes } |->
                     inodes[CHOOSE i \in DOMAIN inodes : at(i) = o]] ]

D(listing) == [ kind |-> "dir", size |-> 1, blocks |-> listing, gone |-> {},
                location |-> None ]
Other(kind, size, place) ==
  [ kind |-> kind, size |-> size, blocks |-> <<>>, gone |-> {},
    location |-> place ]
E(i, name) == [holds |-> TRUE, inode |-> i, fits |-> TRUE, name |-> name]
Broken == [holds |-> FALSE, inode |-> 4, fits |-> TRUE, name |-> beta]
NoName == [holds |-> TRUE, inode |-> 4, fits |-> FALSE, name |-> beta]

(* Entries for the other directory, a file, a link, a device, the root     *)
(* again, an inode there is not; a deleted and a broken record.            *)
Some == { E(3, alpha), E(4, beta), E(5, alpha), E(6, beta), E(2, alpha),
          E(9, beta), E(0, alpha), E(2, DotDot), Broken, NoName }
Inodes(first, second, third, inner) ==
  << Other("reg", 0, None), D(<< <<E(2, Dot), first, second>>, <<third>> >>),
     D(<< <<E(3, Dot), inner>>, <<>> >>), Other("reg", 3, 70),
     Other("link", 2, 80), Other("device", 0, 90) >>

Listings ==
  { Image(S(0, 2, 2, FALSE), Inodes(first, second, third, inner)) :
      first \in Some, second \in Some, third \in Some, inner \in Some }

(* Every geometry, refused ones too, on one tree; and roots of any kind.   *)
Plain == Inodes(E(3, alpha), E(4, beta), E(5, alpha), E(4, alpha))
Supers ==
  { S(log, per_group, size, wide) :
      log \in 0..1, per_group \in 1..4, size \in {1, 2, 3}, wide \in BOOLEAN }
Old == { [s EXCEPT !.rev_level = 0, !.bit64 = FALSE] : s \in Supers }
Geometries == { Image(s, Plain) : s \in Supers \cup Old }
Refused ==
  { [Image(S(0, 2, 2, FALSE), Plain) EXCEPT !.super = s] :
      s \in { [S(0, 2, 2, FALSE) EXCEPT !.magic = FALSE],
              S(2, 2, 2, FALSE), S(0, 0, 2, FALSE), S(0, 2, 5, FALSE),
              [S(0, 2, 2, FALSE) EXCEPT !.blocks_count = 0],
              [S(0, 2, 2, FALSE) EXCEPT !.blocks_per_group = 0] } }
Roots ==
  { Image(S(0, 2, 2, FALSE), << Plain[1], Other(kind, 2, 60) >>) :
      kind \in {"reg", "link", "device"} }
    \cup { Image(S(0, 2, 2, FALSE), << Plain[1] >>) }

(* A volume whose root is a walked directory with a walked file in it.     *)
MCDirBlocks ==
  [n \in Positions |-> IF n % 4 = 1 THEN << E(4, beta) >>
                       ELSE IF n % 4 = 2 THEN << E(5, alpha) >> ELSE <<>>]
WalkedVolume ==
  Image(S(0, 2, 2, FALSE),
        << Plain[1], [D(<<>>) EXCEPT !.blocks = Walked], D(<<>>),
           Other("reg", 3, Walked), Plain[5] >>)

(* A block of the root, or of a directory in it or two levels down, is     *)
(* outside the image; at the limit it is not read.  The walked root has    *)
(* one of its first two blocks there, whether the walk comes to it or not. *)
Lost(i, at) ==
  LET inodes == << Plain[1], D(<< <<E(2, Dot)>>, <<E(3, alpha), E(5, beta)>> >>),
                   D(<< <<E(4, alpha)>>, <<>> >>), D(<< <<E(6, alpha)>>, <<>> >>),
                   Other("reg", 3, 70), D(<< <<>>, <<>> >>) >>
  IN  Image(S(0, 2, 2, FALSE), [inodes EXCEPT ![i].gone = {at}])
LostOnWalk(i, at) ==
  Image(S(0, 2, 2, FALSE),
        [ << Plain[1], [D(<<>>) EXCEPT !.blocks = Walked],
             [D(<<>>) EXCEPT !.blocks = Walked], D(<<>>),
             [D(<<>>) EXCEPT !.blocks = Walked], Plain[5] >>
          EXCEPT ![i].gone = {at} ])
Gone == { Lost(i, at) : i \in {2, 3, 4, 6}, at \in 1..3 }
          \cup { LostOnWalk(i, at) : i \in {2, 5}, at \in 0..2 }
MCVolumes ==
  Listings \cup Geometries \cup Refused \cup Roots \cup Gone \cup {WalkedVolume}

(* One thing varies at a time: the pointers, the extents or the volume.    *)
NoPointers ==
  /\ gaps = {} /\ absent = {} /\ unreadable = {} /\ needed = 3
  /\ blocks = <<>> /\ position = 0 /\ walked = "none"
EmptyFile == CHOOSE i \in WithPointers : i.needed = 0
NoExtents ==
  /\ input = EmptyFile
  /\ path = <<>> /\ extents = <<>> /\ location = None /\ located = "none"
OnWalked ==
  /\ volume \in {WalkedVolume, LostOnWalk(2, 1)}
  /\ pc = "superblock" /\ stack = <<>> /\ nodes = <<>> /\ result = "none"
MCInit ==
  \/ InitPointers /\ NoExtents /\ OnWalked
  \/ NoPointers /\ InitExtents /\ OnWalked
  \/ NoPointers /\ NoExtents /\ InitVolume
MCSpec == MCInit /\ [][Next]_vars /\ WF_vars(Next)
=============================================================================
