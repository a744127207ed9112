---------------------------- MODULE MCFatVolume -----------------------------
(* Small instances of FatVolume: a sector holds two slots, and a volume    *)
(* has up to six clusters.                                                 *)
EXTENDS FatVolume, TLC

CONSTANTS alpha, beta, gamma, delta

MCText == {alpha, beta, gamma, delta, Dot, DotDot}

End == [kind |-> "end"]
Deleted == [kind |-> "deleted"]
Label == [kind |-> "label"]
Piece(seq, text, ends) ==
  [kind |-> "piece", seq |-> seq, text |-> text, ends |-> ends]
F(name, size, start) ==
  [kind |-> "file", short |-> name, size |-> size, start |-> start]
D(name, start) ==
  [kind |-> "dir", short |-> name, size |-> 0, start |-> start]

Padded(slots, n) == slots \o [i \in 1..(n - Len(slots)) |-> End]

(* Boot sectors: a fixed root directory of so many slots, or FAT32.        *)
Fixed(slots, clusters, spc) ==
  [ signature |-> TRUE, bytes_per_sector |-> 4, sectors_per_cluster |-> spc,
    reserved_sectors |-> 1, num_fats |-> 2, root_entry_count |-> slots,
    total_sectors_16 |-> 3 + DivCeil(slots, 2) + clusters * spc,
    total_sectors_32 |-> 0, fat_size_16 |-> 1, fat_size_32 |-> 0,
    root_cluster |-> 0 ]
Fat32(clusters, spc) ==
  [ Fixed(0, clusters, spc) EXCEPT
      !.total_sectors_16 = 0, !.total_sectors_32 = 3 + clusters * spc + spc - 1,
      !.fat_size_16 = 0, !.fat_size_32 = 1, !.root_cluster = 2 ]

Volume(bpb, fat, content, root) ==
  LET per == (bpb.sectors_per_cluster * bpb.bytes_per_sector) \div SLOT
  IN  [ base |-> 3, bpb |-> bpb, fat |-> fat,
        content |-> [x \in DOMAIN fat |->
                       IF x \in DOMAIN content THEN Padded(content[x], per)
                                               ELSE Padded(<<>>, per)],
        root_dir |-> Padded(root, bpb.root_entry_count) ]

(* Every FAT of three clusters, with one file in the root directory, or a  *)
(* directory whose clusters have an entry each.                            *)
Fats == [2..4 -> {0, 2, 3, 4, 5, BadMark, EndMark}]
OneFile ==
  { Volume(Fixed(1, 3, 1), fat, << >>, << F(alpha, size, start) >>) :
      fat \in Fats, size \in {1, 4, 5, 9}, start \in {2, 4} }
OneDirectory ==
  { Volume(Fixed(2, 3, 1), fat,
           2 :> << D(alpha, 0), Deleted >> @@ 3 :> << F(beta, 0, 0), Label >>
             @@ 4 :> << Piece(1, delta, FALSE), F(gamma, 5, 3) >>,
           << D(beta, 2), F(delta, 1, 4) >>) :
      fat \in Fats }

(* Names: of one and of two pieces, a deleted one, a volume label, an      *)
(* entry after the end marker.                                             *)
Names ==
  Volume(Fixed(9, 2, 1), 2 :> EndMark @@ 3 :> EndMark, << >>,
         << Label, Piece(2, beta, TRUE), Piece(1, alpha, FALSE), F(gamma, 4, 2),
            Piece(1, delta, FALSE), Deleted, D(alpha, 0), End, F(beta, 1, 3) >>)

(* Pieces nothing follows, of two names on end, and out of order.          *)
Strays ==
  Volume(Fixed(9, 2, 1), 2 :> EndMark @@ 3 :> EndMark, << >>,
         << Piece(1, beta, TRUE), Piece(2, alpha, TRUE), Piece(1, gamma, FALSE),
            F(gamma, 4, 2), Piece(2, delta, FALSE), Label, F(alpha, 1, 3),
            Piece(1, Dot, TRUE), D(alpha, 2) >>)

(* FAT32: a root directory of two clusters with a name across them, a      *)
(* subdirectory, and directories that contain themselves.                  *)
Nested ==
  Volume(Fat32(6, 2),
         2 :> 4 @@ 3 :> EndMark @@ 4 :> EndMark @@ 5 :> EndMark @@ 6 :> 7
           @@ 7 :> EndMark,
         2 :> << D(alpha, 3), F(beta, 9, 6), Piece(2, gamma, TRUE),
                 Piece(1, beta, FALSE) >>
           @@ 4 :> << D(alpha, 5), F(gamma, 16, 6) >>
           @@ 3 :> << D(Dot, 3), D(DotDot, 0), F(alpha, 8, 7), D(gamma, 5) >>
           @@ 5 :> << D(Dot, 5), D(beta, 5), D(delta, 3) >>, << >>)

(* Boot sectors that are refused, a volume without room for a cluster, one *)
(* with more clusters than a FAT16 volume may have but no root cluster.    *)
Boots ==
  { [Fixed(1, 3, 1) EXCEPT !.signature = FALSE],
    [Fixed(1, 3, 1) EXCEPT !.bytes_per_sector = 3],
    [Fixed(1, 3, 1) EXCEPT !.sectors_per_cluster = 3],
    [Fixed(1, 3, 1) EXCEPT !.num_fats = 3],
    [Fixed(1, 3, 1) EXCEPT !.fat_size_16 = 0],
    [Fixed(1, 3, 1) EXCEPT !.total_sectors_16 = 0],
    [Fixed(1, 3, 1) EXCEPT !.total_sectors_16 = 2],
    Fixed(1, 9, 1),
    [Fat32(9, 1) EXCEPT !.root_cluster = 9],
    [Fat32(9, 1) EXCEPT !.root_cluster = 1] }
Booted == { Volume(bpb, [x \in 2..11 |-> EndMark], << >>, << F(alpha, 3, 9) >>) :
              bpb \in Boots }
MCVolumes ==
  OneFile \cup OneDirectory \cup {Names, Strays, Nested}
    \cup { v \in Booted : Len(v.root_dir) = v.bpb.root_entry_count }
=============================================================================
