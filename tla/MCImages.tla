------------------------------ MODULE MCImages ------------------------------
(* Small images for every reader.  Characters are small numbers; a file    *)
(* name is a sequence of them.                                             *)
EXTENDS Images, TLC

T == TRUE
FF == FALSE

-----------------------------------------------------------------------------
(* Discs.  The ISO 9660 side is in the sectors 1 to 8: descriptors in 1 to *)
(* 3, the root in 4 and 5, a subdirectory in 6, the Joliet root in 7.      *)
Rec(id, dir, extent, length) ==
  [ fits |-> T, sound |-> T, id |-> id, parent |-> FF, su |-> <<>>,
    dir |-> dir, extent |-> extent, length |-> length ]
Su(sig, part) == [sig |-> sig, special |-> FF, part |-> part]
Self(su) == [Rec(<<>>, T, 4, 1) EXCEPT !.su = su]
Up == [Rec(<<7>>, T, 4, 1) EXCEPT !.parent = T]
VdOf(type, root) == [tag |-> "cd001", type |-> type, root |-> root]
EndVd == VdOf("end", Rec(<<>>, T, 0, 1))
Records(rs) == [tag |-> "records", records |-> rs]
Nsr == [tag |-> "nsr"]
Disc(parts, n) ==
  [ kind |-> "disc", sectors |-> [ s \in 0..(n - 1) |->
      IF s \in DOMAIN parts THEN parts[s] ELSE [tag |-> "blank"] ] ]

Named == [Rec(<<10>>, FF, 8, 1) EXCEPT
            !.su = << Su("SP", <<>>), Su("NM", <<10, 11>>),
                      [Su("NM", <<9>>) EXCEPT !.special = T], Su("NM", <<12>>),
                      Su("bad", <<>>), Su("NM", <<13>>) >>]
RootEntries ==
  { <<>>, << Named >>, << Rec(<<10, Version, 5>>, FF, 8, 1) >>,
    << Rec(<<10, Period>>, FF, 8, 2) >>, << Rec(<<11>>, T, 6, 1) >>,
    << Rec(<<12>>, T, 4, 1) >>, << Rec(<<13>>, T, 30, 1) >> }
(* Only the last records of a directory may reach beyond its end.          *)
LastEntries ==
  RootEntries \cup
  { << [Rec(<<13>>, T, 30, 1) EXCEPT !.sound = FF], Rec(<<14>>, FF, 8, 1) >>,
    << Rec(<<Period>>, FF, 8, 1), Rec(<<10, Version>>, FF, 8, 1) >>,
    << Rec(<<11>>, FF, 8, 1), [Rec(<<10>>, FF, 8, 1) EXCEPT !.fits = FF] >> }
IsoSide(r, first, su, here, next, sub) ==
  1 :> VdOf("primary", r) @@ 2 :> first @@ 3 :> Nsr
    @@ 4 :> Records(<<Self(su), Up>> \o here) @@ 5 :> Records(next)
    @@ 6 :> Records(<<Self(<<>>), Up>> \o sub)
    @@ 7 :> Records(<< Self(<<>>), Rec(<<15, Period>>, FF, 8, 1) >>)

(* The UDF side: anchor in 9, descriptors in 10 to 12, the partition from  *)
(* 13 on: file set, root (data in 15 and 16), a subdirectory (data in 18), *)
(* a file.                                                                 *)
Ad(type, location, length) == [type |-> type, location |-> location, length |-> length]
Fe(flags, ads) == [tag |-> "fe", flags |-> flags, ads |-> ads, fids |-> <<>>, size |-> 0]
Fi(name, dir, icb) ==
  [ bad |-> FF, blank |-> FF, deleted |-> FF, parent |-> FF,
    dir |-> dir, id |-> <<8>> \o name, icb |-> icb ]
FiOf(id, icb) == [Fi(<<>>, FF, icb) EXCEPT !.id = id]
Fids(fs) == [tag |-> "fids", fids |-> fs]
Pd(n, start) == [tag |-> "pd", number |-> n, start |-> start]
Lvd(at, partition, maps) ==
  [tag |-> "lvd", fsd |-> [location |-> at, partition |-> partition], maps |-> maps]
Avdp(location, length) == [tag |-> "avdp", location |-> location, length |-> length]
Fsd(icb) == [tag |-> "fsd", root |-> icb]
Parent == [Fi(<<7>>, T, 1) EXCEPT !.parent = T]
UdfSide(root, here, next, sub, file) ==
  3 :> Nsr @@ 9 :> Avdp(10, 2) @@ 10 :> Pd(0, 13) @@ 11 :> Lvd(0, 0, <<>>)
    @@ 13 :> Fsd(1) @@ 14 :> root @@ 15 :> Fids(<<Parent>> \o here)
    @@ 16 :> Fids(next) @@ 17 :> sub @@ 18 :> Fids(<< Parent, Fi(<<20>>, FF, 6) >>)
    @@ 19 :> file
OneFile == Fe("short", << Ad(0, 7, 1) >>)
TwoRoot == Fe("long", << Ad(0, 2, 1), Ad(0, 3, 1), Ad(0, 0, 0), Ad(0, 9, 9) >>)
SubFe == Fe("short", << Ad(0, 5, 1) >>)
GoodUdf == UdfSide(TwoRoot, << Fi(<<21>>, FF, 6) >>, << Fi(<<22>>, T, 4) >>, SubFe, OneFile)

RockRidge == << Su("SP", <<>>) >>
IsoDiscs ==
  { Disc(IsoSide(Rec(<<>>, T, 4, 2), first, su, here, next, sub)
           @@ (IF su = <<>> THEN << >> ELSE GoodUdf), 20) :
      first \in {EndVd, VdOf("joliet", Rec(<<>>, T, 7, 1))}, su \in {<<>>, RockRidge},
      here \in RootEntries, next \in LastEntries,
      sub \in { <<>>, << Rec(<<16>>, T, 30, 1) >>, << Named >> } }
ShortNamed(id) == [Rec(id, FF, 8, 1) EXCEPT !.su = << Su("short", <<>>) >>]
ShortNames ==
  { Disc(IsoSide(Rec(<<>>, T, 4, 2), first, su, here, <<>>, sub) @@ GoodUdf, 20) :
      first \in {EndVd, VdOf("joliet", Rec(<<>>, T, 7, 1))},
      su \in { <<>>, RockRidge, << Su("short", <<>>) >>, << Su("short", <<>>), Su("CE", <<>>) >> },
      here \in { << ShortNamed(<<10>>) >>, << ShortNamed(<<Period>>) >>, << Rec(<<11>>, T, 6, 1) >>,
                 << [Named EXCEPT !.su = Append(@, Su("short", <<>>))], Rec(<<12>>, T, 6, 1) >> },
      sub \in { << ShortNamed(<<10>>) >>, << Rec(<<16>>, T, 30, 1), ShortNamed(<<10>>) >>,
                << [ShortNamed(<<10>>) EXCEPT !.sound = FF] >> } }
OddRoots ==
  { Disc(IsoSide(r, first, <<>>, << Named >>, <<>>, <<>>) @@ GoodUdf, n) :
      r \in { Rec(<<>>, FF, 4, 2), Rec(<<>>, T, 19, 1), Rec(<<>>, T, 4, 0),
              [Rec(<<>>, T, 4, 2) EXCEPT !.sound = FF], Rec(<<>>, T, 4, 30) },
      first \in {EndVd, Nsr, VdOf("other", EndVd.root), VdOf("primary", Self(<<>>))},
      n \in {3, 19, 20} }

Roots == { TwoRoot, Fe("short", << Ad(0, 2, 1) >>), Fe("other", << Ad(0, 2, 1) >>),
           Fe("short", << Ad(1, 9, 2), Ad(0, 3, 1), Ad(3, 2, 1), Ad(0, 2, 1) >>),
           [Fe("inline", <<>>) EXCEPT !.size = 2, !.fids = << Fi(<<23>>, T, 4) >>],
           [Fe("inline", <<>>) EXCEPT !.size = 2,
              !.fids = << [Fi(<<23>>, T, 4) EXCEPT !.bad = T], Fi(<<23>>, FF, 6) >>] }
FidChoices ==
  { <<>>, << Fi(<<21>>, FF, 6) >>, << Fi(<<22>>, T, 4) >>, << Fi(<<22>>, T, 1) >>,
    << Fi(<<22>>, T, 9), Fi(<<21>>, FF, 6) >>, << Fi(<<21>>, FF, 40) >>,
    << [Fi(<<21>>, FF, 6) EXCEPT !.deleted = T], Fi(<<>>, FF, 6) >>,
    << FiOf(<<16, 1, 2, 0, 5>>, 6), FiOf(<<16, 5>>, 6), FiOf(<<>>, 6), FiOf(<<30>>, 6) >>,
    << [Fi(<<21>>, FF, 6) EXCEPT !.blank = T], Fi(<<24>>, FF, 4) >>,
    << [Fi(<<21>>, FF, 6) EXCEPT !.bad = T], Fi(<<24>>, FF, 6) >> }
UdfDirectories ==
  { Disc(UdfSide(root, here, next, sub, OneFile), 20) :
      root \in Roots, here \in FidChoices, next \in FidChoices,
      sub \in {SubFe, Fe("short", << Ad(0, 30, 1) >>)} }
FileAds == { Ad(0, 7, 1), Ad(0, 10, 1), Ad(1, 0, 1), Ad(3, 6, 1) }
FileEntries ==
  { Fe(flags, ads) :
      flags \in {"short", "other"},
      ads \in { <<>> } \cup { << a >> : a \in FileAds }
               \cup { << a, b >> : a \in FileAds, b \in { Ad(0, 8, 1), Ad(0, 9, 1) } } }
  \cup { [Fe("inline", <<>>) EXCEPT !.size = n] : n \in 0..1 } \cup { Nsr }
UdfFiles ==
  { Disc(UdfSide(TwoRoot, << Fi(<<21>>, FF, 6) >>, <<>>, SubFe, fe), 25) :
      fe \in FileEntries }

(* Descriptor sequences: partitions, logical volumes, a metadata partition *)
(* whose file is in 14, a file set that is not where it should be.         *)
Meta(ref, file) == [meta |-> T, length |-> 64, ref |-> ref, file |-> file]
NoMap == [meta |-> FF, length |-> 0, ref |-> 0, file |-> 0]
Volume(parts) == Disc(parts @@ GoodUdf, 20)
UdfVolumes ==
  { Volume(parts) : parts \in
      { 10 :> a @@ 11 :> b @@ 9 :> Avdp(10, 3) @@ 12 :> c :
          a \in {Pd(0, 13), Pd(1, 12), [tag |-> "td"], [tag |-> "blank"]},
          b \in {Lvd(0, 0, <<>>), Lvd(0, 1, <<NoMap, Meta(0, 4)>>), Pd(0, 13)},
          c \in {Lvd(0, 0, <<>>), Lvd(0, 0, << Meta(0, 4) >>), Lvd(1, 3, <<>>), Lvd(0, 0, <<Meta(7, 4)>>),
                 [tag |-> "td"], Pd(1, 12)} }
      \cup { 9 :> Avdp(18, 5), 3 :> [tag |-> "blank"], 9 :> [tag |-> "blank"],
             9 :> Avdp(10, 0), 14 :> Nsr, 13 :> Nsr } }
  \cup { Disc(9 :> [tag |-> "blank"] @@ 24 :> Avdp(10, 2) @@ GoodUdf, n) : n \in {25, 40} }
  \cup { Disc(9 :> Avdp(10, 3) @@ 12 :> Lvd(0, 0, <<Meta(0, x)>>) @@ 16 :> Fsd(0)
                @@ 17 :> meta @@ 18 :> Fsd(1) @@ 19 :> SubFe @@ 20 :> Nsr
                @@ 24 :> Fids(<< Fi(<<20>>, FF, 1) >>) @@ GoodUdf, 26) :
           x \in {4, 30},
           meta \in {SubFe, [Fe("inline", <<>>) EXCEPT !.size = 1], Nsr} }

-----------------------------------------------------------------------------
(* NTFS: four-byte sectors and clusters, records of two clusters; the      *)
(* flags of a record end at its eighth byte.                               *)
NtfsBoot == [ oem |-> T, bytes_per_sector |-> 4, sectors_per_cluster |-> 1,
              cpfrs |-> 2, mft_lcn |-> 1 ]
Name(parent, name, ns, dir) ==
  [ type |-> "name", fits |-> T, whole |-> T, parent |-> parent, name |-> name,
    namespace |-> ns, directory |-> dir ]
Data(resident, at, size, runs) ==
  [ type |-> "data", fits |-> T, whole |-> T, resident |-> resident, at |-> at,
    size |-> size, runs |-> runs ]
Mft(attributes) == [file |-> T, usa |-> T, in_use |-> T, attributes |-> attributes]
System == Mft(<< Name(1, <<9>>, 3, FF) >>)
Ntfs(boot, users, probed, base) ==
  [ kind |-> "ntfs", base |-> base, size |-> 90, probed |-> probed, boot |-> boot,
    failing |-> {}, mft |-> <<System, System, System>> \o users ]
Users(n) ==
  { Mft(<< Name(parent, <<10 + n>>, 1, dir), Name(1, <<30>>, 2, dir) >>) :
      parent \in {1, 2, 3, 4, 5}, dir \in BOOLEAN }
  \cup { [Mft(<< Name(1, <<10 + n>>, 3, T) >>) EXCEPT !.in_use = FF],
         [Mft(<< Name(1, <<10 + n>>, 3, T) >>) EXCEPT !.usa = FF],
         Mft(<< Name(3, <<31>>, 0, FF), Name(1, <<10 + n>>, 3, T) >>),
         Mft(<< Name(2, <<32>>, 7, T), Name(1, <<10 + n>>, 7, FF) >>),
         Mft(<< [type |-> "other", fits |-> FF], Name(1, <<10 + n>>, 3, T) >>) }
NtfsTrees ==
  { Ntfs(NtfsBoot, <<a, b, c>>, FF, 0) : a \in Users(1), b \in Users(2), c \in Users(3) }
NtfsProbed ==
  { Ntfs(NtfsBoot, <<a>>, probed, base) :
      a \in Users(1), probed \in BOOLEAN, base \in {0, 5} }
Runs == UNION { [1..n -> [sparse : BOOLEAN, delta : {0, 2}, length : {1, 2}]] : n \in 0..2 }
NtfsData ==
  { Ntfs(NtfsBoot, << Mft(<< Name(1, <<10>>, 1, FF) >> \o data) >>, T, 5) :
      data \in { << Data(FF, 0, size, [ i \in DOMAIN runs |->
                        [runs[i] EXCEPT !.delta = IF runs[i].sparse THEN 0 ELSE @] ]) >> :
                   size \in {1, 5, 9}, runs \in Runs }
               \cup { << Data(T, 2, 1, <<>>), Data(FF, 0, 9, <<>>) >>,
                      << [Data(T, 2, 1, <<>>) EXCEPT !.whole = FF] >>,
                      << [Data(FF, 0, 3, <<[sparse |-> FF, delta |-> 2, length |-> 1]>>)
                            EXCEPT !.whole = FF] >> } }
(* Records that cannot be read, and headers at the end of a record, also   *)
(* of one that is not in use or not walked to its end.                     *)
Edge == [type |-> "edge", fits |-> T]
NtfsBroken ==
  { [Ntfs(NtfsBoot, << [Mft(<< Name(1, <<10>>, 1, FF) >> \o edge) EXCEPT !.in_use = used] >>,
          FF, 0) EXCEPT !.failing = failing,
                        !.mft[2] = Mft(IF system THEN << Edge >> ELSE <<>>)] :
      edge \in { <<>>, << Edge >>, << [type |-> "other", fits |-> FF], Edge >> },
      used \in BOOLEAN, system \in BOOLEAN,
      failing \in { {}, {0}, {3}, {5}, {6}, {7} } }
NtfsBoots ==
  { Ntfs([NtfsBoot EXCEPT !.oem = o, !.bytes_per_sector = b, !.cpfrs = c,
                          !.sectors_per_cluster = s],
         << Mft(<< Name(1, <<10>>, 1, FF), Data(T, 2, 1, <<>>) >>) >>, T, 5) :
      o \in BOOLEAN, b \in {2, 4, 9}, c \in {-64, -5, -4, -3, -2, -1, 0, 1, 2, 5}, s \in 0..1 }

-----------------------------------------------------------------------------
(* SquashFS: blocks of four bytes; two blocks of inodes, two of entries.   *)
DirAt(block, offset, size) ==
  [type |-> "dir", block |-> block, offset |-> offset, size |-> size]
Reg(size, fragment, blocks) ==
  [ type |-> "reg", start |-> 70, size |-> size, fragment |-> fragment,
    blocks |-> [i \in 1..blocks |-> [plain |-> i # 2]] ]
Piece(items) == [plain |-> T, whole |-> T, items |-> items]
Head2(count, block) == [kind |-> "header", count |-> count, block |-> block]
E(name, offset) == [kind |-> "entry", name |-> name, offset |-> offset]
SquashOk == [magic |-> T, block_size |-> 4, four |-> T, plain |-> T, block |-> 0,
             offset |-> 0]
Squash(probed, super, first, second, entries, below) ==
  [ kind |-> "squash", size |-> 90, cursor |-> 7, probed |-> probed, super |-> super, inodes |-> <<first, second>>,
    dirs |-> << entries, below >> ]
Inodes(n, reg) == Piece(<< DirAt(0, 0, n), DirAt(1, 1, 2), reg, [type |-> "other"] >>)
Listing2(a, b, c, block) ==
  Piece(<< Head2(1, 0), E(<<Period>>, 0), E(<<10>>, a), Head2(0, block), E(<<11>>, b),
           E(<<12>>, c) >>)
SquashImages ==
  { Squash(T, SquashOk, Inodes(5, reg), Inodes(5, Reg(4, FF, 1)), Listing2(a, b, 0, block),
           Piece(<< Head2(0, 0), Head2(0, 0), E(<<13>>, c) >>)) :
      reg \in { Reg(size, frag, n) : size \in {0, 3, 4, 5}, frag \in BOOLEAN, n \in 0..2 },
      a \in {0, 1, 2, 3}, b \in {1, 2, 4}, c \in {1, 2, 3}, block \in {0, 1, 2} }
SquashBroken ==
  { Squash(probed, [SquashOk EXCEPT !.magic = m, !.block_size = s, !.four = v, !.plain = p,
                            !.offset = o],
           [Inodes(n, [type |-> "cut"]) EXCEPT !.plain = x],
           [Inodes(5, Reg(4, FF, 1)) EXCEPT !.whole = y],
           Listing2(3, 2, 0, 1), [Piece(<< >>) EXCEPT !.whole = y]) :
      m \in BOOLEAN, s \in {0, 4}, v \in BOOLEAN, p \in BOOLEAN, o \in {0, 1, 2, 3},
      x \in BOOLEAN, y \in BOOLEAN, probed \in BOOLEAN, n \in {2, 5} }

(* Directories that end in the middle of an entry, or that go on in a      *)
(* second block; the bytes of a name that does not fit make a header.      *)
CutOff == [kind |-> "cut"]
SquashSpilled ==
  { Squash(T, SquashOk, Inodes(n, Reg(4, FF, 1)), Inodes(5, Reg(4, FF, 1)),
           Piece(items), Piece(<< Head2(0, 0), Head2(0, 0), E(<<13>>, 2) >>)) :
      n \in {3, 4, 5, 6, 7},
      items \in { << Head2(2, 0), E(<<10>>, 2), E(<<11>>, 3) >>,
                  << Head2(2, 0), E(<<10>>, 2), CutOff >>,
                  << Head2(2, 0), E(<<10>>, 2), CutOff, Head2(1, 0), E(<<11>>, 3), CutOff >>,
                  << Head2(3, 0), CutOff, Head2(0, 0), E(<<10>>, 1), Head2(0, 0),
                     E(<<11>>, 2) >> } }

-----------------------------------------------------------------------------
(* Disks: sectors of two bytes, numbers below 32.                          *)
Slot(type, lba, n) == [type |-> type, lba |-> lba, sectors |-> n]
Gpe(used, first, last, name) ==
  [used |-> used, first |-> first, last |-> last, name |-> name]
GptEntries ==
  { Gpe(FF, 0, 0, <<>>), Gpe(T, 2, 3, <<>>), Gpe(T, 4, 9, <<10, Slash>>),
    Gpe(T, 2, 31, <<10, 11>>), Gpe(T, 3, 2, <<10, 11>>), Gpe(T, 20, 25, <<Slash>>) }
Gpt(array, signature, size) ==
  [ signature |-> signature, num_entries |-> IF array = None THEN 9 ELSE Len(array),
    entry_size |-> size, array |-> array ]
Gpts ==
  { Gpt(<<a, b>>, T, 2) : a \in GptEntries, b \in GptEntries }
  \cup { None, Gpt(None, T, 2), Gpt(<<>>, FF, 2), Gpt(<<>>, T, 1), Gpt(None, T, 3) }
Slots == { Slot(0, 0, 0), Slot(0, 1, 2), Slot(7, 2, 0), Slot(6, 3, 4),
           Slot(Protective, 1, 9) }
Mbrs == { None }
  \cup { [signature |-> s, slots |-> << Slot(0, 0, 0), a, b, Slot(0, 0, 0) >>] :
           s \in BOOLEAN, a \in Slots, b \in Slots }
DisksWithMbr ==
  { [kind |-> "disk", via |-> via, size |-> size, mbr |-> mbr, gpt |-> gpt] :
      via \in {"raw", "gpt", "mbr"}, size \in {0, 40},
      mbr \in Mbrs, gpt \in { None, Gpt(<<>>, FF, 2) } }
DisksWithGpt ==
  { [kind |-> "disk", via |-> via, size |-> 40, mbr |-> None, gpt |-> gpt] :
           via \in {"raw", "gpt"}, gpt \in Gpts }

-----------------------------------------------------------------------------
(* Containers: footers of four bytes, magic numbers of one.                *)
Box(format, size, header, probed, cursor) ==
  [ kind |-> "container", format |-> format, size |-> size, header |-> header,
    probed |-> probed, cursor |-> cursor ]
VhdHeaders ==
  [ magic : BOOLEAN, checksum : BOOLEAN, type : {"fixed", "dynamic", "differencing"},
    size : {0, 6, 7, 8, 10}, data_offset : {2, 3}, dynamic : BOOLEAN ]
QcowHeaders ==
  [ magic : BOOLEAN, version : {1, 2, 3}, cluster_bits : 0..4, encryption : 0..1,
    size : {6} ]
VmdkHeaders ==
  [ magic : BOOLEAN, version : {1, 2, 3}, compressed : BOOLEAN, capacity : {3, 15, 16} ]
Xml == { <<>>, << [closed |-> T, index |-> 2, name |-> <<10>>, bytes |-> 5],
                  [closed |-> T, index |-> 1, name |-> <<>>, bytes |-> 0] >>,
         << [closed |-> T, index |-> 0, name |-> <<>>, bytes |-> 1],
            [closed |-> FF, index |-> 1, name |-> <<11>>, bytes |-> 1] >> }
WimHeaders ==
  [ magic : BOOLEAN, compressed : BOOLEAN, offset : {0, 7}, length : {2, 3, 4, 9},
    images : {0, 4}, xml : Xml ]
DmgHeaders ==
  [ magic : BOOLEAN, version : {4, 5}, offset : {0, 7}, length : {0, 4, 9},
    sectors : {3, 16}, xml : Xml ]
ApfsHeaders ==
  [ magic : BOOLEAN, block_size : {1, 2, 3, 4, 8}, oids : {<<1, 2, 3>>, <<4, 0, 1>>, <<17, 2>>, <<0>>},
    volumes : { 1 :> <<10>> @@ 2 :> <<>>, 2 :> <<10>> @@ 4 :> <<10>> } ]
Vhds ==
  { Box("vhd", n, h, p, 5) : n \in {3, 10, 12}, h \in VhdHeaders, p \in BOOLEAN }
OtherBoxes ==
  { Box("qcow2", n, h, T, 0) : n \in {0, 3, 5}, h \in QcowHeaders }
  \cup { Box("vmdk", n, h, T, 13) : n \in {3, 10}, h \in VmdkHeaders }
  \cup { Box("wim", n, h, T, 2) : n \in {3, 10}, h \in WimHeaders }
  \cup { Box("dmg", n, h, T, 2) : n \in {3, 10}, h \in DmgHeaders }
Apfs ==
  { Box("apfs", n, h, p, 1) : n \in {0, 10}, h \in ApfsHeaders, p \in BOOLEAN }

-----------------------------------------------------------------------------
MCImages ==
  << IsoDiscs, ShortNames, OddRoots, UdfDirectories, UdfFiles, UdfVolumes, NtfsTrees,
     NtfsProbed, NtfsData, NtfsBroken, NtfsBoots, SquashImages, SquashBroken, SquashSpilled,
     DisksWithMbr, DisksWithGpt, Vhds, OtherBoxes, Apfs >>

(* For the run that shows what the code does against its own document:     *)
(* volumes with one file of every few extents.                             *)
MCUdfFiles == << UdfFiles >>
=============================================================================
