-------------------------- MODULE FatVolumeProofs ---------------------------
(***************************************************************************)
(* Proofs about FatVolume, for every geometry, every file allocation table *)
(* (with circular, crossing, broken chains) and every content of the       *)
(* directories: a file of the tree has a location just when its chain is   *)
(* whole, and the location leads to the file's own clusters; a directory   *)
(* whose chain ends has all its entries, in order, under their names.      *)
(***************************************************************************)
EXTENDS FatVolume, Lemmas

Names == { NameOf(slots, p) : slots \in Seq(Slot), p \in Nat }
EntryType == [name : Names, is_dir : BOOLEAN, size : Nat, start : Nat]
FrameType == [dir : Nat, entries : Seq(EntryType)]
NodeType ==
  [ name : Names, parent : Nat, is_dir : BOOLEAN, size : Nat, start : Nat,
    location : Nat \cup {NoValue} ]

(* The state as far as the proofs need it.                                 *)
Typed ==
  /\ volume \in Volumes
  /\ stack \in Seq(FrameType)
  /\ nodes \in Seq(NodeType)
  /\ pc \in {"chain", "entry"} => ctx = Context(volume.bpb)
  /\ pc \in {"chain", "entry"} \/ nodes # <<>> => IsBoot(volume.bpb)
  /\ result = "Ok" => pc = "done"

(* The clusters collected are those the chain leads through, and `cluster` *)
(* is the one it leads to next.                                            *)
Start == IF nodes = <<>> THEN volume.bpb.root_cluster ELSE This.start
Followed ==
  /\ chain \in Seq(Nat) /\ cluster \in Nat
  /\ Len(chain) <= Limit
  /\ \A i \in 1..Len(chain) : Valid(chain[i])
  /\ \A i \in 1..(Len(chain) - 1) : chain[i + 1] = volume.fat[chain[i]]
  /\ chain = <<>> => cluster = Start
  /\ chain # <<>> => chain[1] = Start
  /\ chain # <<>> /\ Len(chain) < Limit => cluster = volume.fat[chain[Len(chain)]]

(* A file's chain is followed only if it may get a location from it.       *)
Undecided ==
  ForFile => This.size # 0 /\ This.start >= 2 /\ This.location = NoValue

PerCluster == volume.bpb.sectors_per_cluster * volume.bpb.bytes_per_sector

(* What LocatedJustWhenWhole says of one node, by the two sides of it.     *)
RightlyLocated(n) ==
  n.location # NoValue =>
    /\ \A i \in 0..(DivCeil(n.size, PerCluster) - 1) :
         LET c == Reached(n.start)[i]
         IN  Valid(c) /\ BytesOf(c) = n.location + i * PerCluster
    /\ n.location + n.size
         <= volume.base + TotalSectors(volume.bpb) * volume.bpb.bytes_per_sector
Broken(n) ==
  \/ n.size = 0 \/ n.start < 2
  \/ \E i \in 0..(DivCeil(n.size, PerCluster) - 1) : ~Valid(Reached(n.start)[i])
  \/ \E i \in 1..Limit :
       /\ Valid(Reached(n.start)[i])
       /\ Reached(n.start)[i] # Reached(n.start)[i - 1] + 1
RightlyLeft(n) == ~n.is_dir /\ n.location = NoValue => Broken(n)
Decided(k) == result = "Ok" \/ k < Len(nodes) \/ pc = "entry"

Inv ==
  /\ Typed
  /\ pc = "chain" => Followed /\ Undecided
  /\ pc = "entry" => chain = <<>>
  /\ pc = "boot" => chain = <<>> /\ nodes = <<>>
  /\ \A k \in DOMAIN nodes :
       RightlyLocated(nodes[k]) /\ (Decided(k) => RightlyLeft(nodes[k]))

-----------------------------------------------------------------------------
(* Numbers.                                                                *)
LEMMA CeilFacts ==
  ASSUME NEW n \in Nat, NEW d \in Nat \ {0}
  PROVE  /\ DivCeil(n, d) \in Nat
         /\ n <= DivCeil(n, d) * d
         /\ n # 0 => DivCeil(n, d) # 0
<1> DEFINE m == n + d - 1
           q == m \div d
<1>1. m \in Nat /\ q \in Nat /\ m % d \in 0..(d - 1)
  OBVIOUS
<1>2. m = d * q + (m % d)
  OBVIOUS
<1> HIDE DEF q
<1>3. d * q = q * d /\ q * d \in Nat
  BY <1>1
<1>4. n <= q * d
  BY <1>1, <1>2, <1>3
<1>5. n # 0 => q # 0
  BY <1>1, <1>3, <1>4
<1>6. QED
  BY <1>1, <1>4, <1>5 DEF DivCeil, q

(* The geometry of a volume whose boot sector was accepted.                *)
LEMMA Geometry ==
  ASSUME volume \in Volumes, IsBoot(volume.bpb)
  PROVE  LET b == volume.bpb
             first == b.reserved_sectors + b.num_fats * FatSize(b)
                        + RootDirSectors(b)
         IN  /\ volume.base \in Nat
             /\ b.bytes_per_sector \in Nat \ {0}
             /\ b.sectors_per_cluster \in Nat \ {0}
             /\ PerCluster \in Nat \ {0}
             /\ first \in Nat
             /\ TotalSectors(b) \in Nat
             /\ TotalClusters(b) \in Nat
             /\ TotalClusters(b) * b.sectors_per_cluster <= DataSectors(b)
             /\ DataSectors(b) \in Nat
             /\ DataSectors(b) # 0 => DataSectors(b) + first = TotalSectors(b)
<1> DEFINE b == volume.bpb
<1>1. b \in Bpb /\ volume.base \in Nat
  BY VolumesAssumption DEF IsVolume
<1>2. b.bytes_per_sector \in Nat \ {0} /\ b.sectors_per_cluster \in Nat \ {0}
  <2>1. /\ b.bytes_per_sector \in SectorSizes
        /\ b.sectors_per_cluster \in {1, 2, 4, 8, 16, 32, 64, 128}
    BY DEF IsBoot
  <2>2. b.bytes_per_sector \in Nat \ {0}
    BY <2>1, SizesAssumption
  <2>3. b.sectors_per_cluster \in Nat \ {0}
    <3> HIDE DEF b
    <3>1. QED
      BY <2>1
  <2>4. QED
    BY <2>2, <2>3
<1>3. FatSize(b) \in Nat /\ TotalSectors(b) \in Nat
  BY <1>1 DEF FatSize, TotalSectors, Bpb
<1>4. RootDirSectors(b) \in Nat
  <2>1. b.root_entry_count * SLOT \in Nat
    BY <1>1, SizesAssumption DEF Bpb
  <2>2. QED
    BY <1>2, <2>1, CeilFacts DEF RootDirSectors
<1> DEFINE first == b.reserved_sectors + b.num_fats * FatSize(b)
                      + RootDirSectors(b)
<1>5. first \in Nat
  <2>1. b.num_fats \in Nat /\ b.reserved_sectors \in Nat
    BY <1>1 DEF Bpb
  <2>2. b.num_fats * FatSize(b) \in Nat
    BY <1>3, <2>1, Products
  <2>3. QED
    BY <1>4, <2>1, <2>2
<1>6. /\ DataSectors(b) = IF first > TotalSectors(b) THEN 0
                          ELSE TotalSectors(b) - first
  BY DEF DataSectors
<1> HIDE DEF first
<1>7. /\ DataSectors(b) \in Nat
      /\ DataSectors(b) # 0 => DataSectors(b) + first = TotalSectors(b)
  BY <1>3, <1>5, <1>6
<1>8. /\ TotalClusters(b) \in Nat
      /\ TotalClusters(b) * b.sectors_per_cluster <= DataSectors(b)
  BY <1>2, <1>7, FloorFacts DEF TotalClusters
<1>9. PerCluster \in Nat \ {0}
  BY <1>2 DEF PerCluster
<1>10. QED
  BY <1>1, <1>2, <1>3, <1>5, <1>7, <1>8, <1>9 DEF first

-----------------------------------------------------------------------------
(* The contents of directories and chains.                                 *)
LEMMA BeforeType ==
  ASSUME NEW all \in Seq(Slot)
  PROVE  Before(all) \in Seq(Slot)
<1> DEFINE upTo == { i \in 1..Len(all) : \A j \in 1..i : all[j].kind # "end" }
           n == Cardinality(upTo)
<1>1. Len(all) \in Nat /\ IsFiniteSet(1..Len(all))
      /\ Cardinality(1..Len(all)) = Len(all)
  <2>1. Len(all) \in Nat
    OBVIOUS
  <2>2. QED
    BY <2>1, FS_Interval
<1>2. upTo \in SUBSET (1..Len(all))
  OBVIOUS
<1>3. Before(all) = SubSeq(all, 1, n)
  BY DEF Before
<1> HIDE DEF upTo
<1>4. n \in Nat /\ n <= Len(all)
  BY <1>1, <1>2, FS_Subset, FS_CardinalityType
<1> HIDE DEF n
<1>5. \A i \in 1..n : all[i] \in Slot
  <2> HIDE DEF Slot
  <2>1. QED
    BY <1>1, <1>4, ElementOfSeq
<1>6. SubSeq(all, 1, n) \in Seq(Slot)
  BY <1>4, <1>5, SubSeqProperties
<1>7. QED
  BY <1>3, <1>6

(* A slot that is an entry makes one.                                      *)
LEMMA EntryTyped ==
  ASSUME NEW slots \in Seq(Slot), NEW p \in 1..Len(slots), IsEntry(slots, p)
  PROVE  Entry(slots, p) \in EntryType
<1>1. slots[p] \in Slot /\ p \in Nat
  <2>1. Len(slots) \in Nat
    OBVIOUS
  <2>2. QED
    BY <2>1, ElementOfSeq
<1>2. slots[p].kind \in {"file", "dir"}
  BY DEF IsEntry
<1>3. slots[p].size \in Nat /\ slots[p].start \in Nat
  BY <1>1, <1>2 DEF Slot
<1>4. NameOf(slots, p) \in Names
  BY <1>1 DEF Names
<1>5. QED
  BY <1>3, <1>4 DEF Entry, EntryType

(* A directory lists entries: its slots, filtered.                         *)
EntriesOf(slots) == { p \in 1..Len(slots) : IsEntry(slots, p) }
LEMMA EntriesFilter ==
  ASSUME NEW all \in Seq(Slot)
  PROVE  LET slots == Before(all)
             n == Len(slots)
         IN  \E f : /\ Filters(f, n, EntryType, EntriesOf(slots),
                               [p \in 1..n |-> Entry(slots, p)])
                    /\ Entries(all) = f[n]
<1> DEFINE slots == Before(all)
           n == Len(slots)
           X == Seq(EntryType)
           none == <<>>
           Rule(f) == [p \in 0..n |->
             IF p = 0 THEN none
             ELSE IF IsEntry(slots, p) THEN Append(f[p - 1], Entry(slots, p))
             ELSE f[p - 1]]
           upTo == CHOOSE f : f = Rule(f)
           next == [p \in Nat |-> [x \in X |->
             IF p \in 1..n /\ IsEntry(slots, p) THEN Append(x, Entry(slots, p))
                                                ELSE x]]
<1>1. slots \in Seq(Slot) /\ n \in Nat
  BY BeforeType
<1>2. Entries(all) = upTo[n]
  BY DEF Entries
<1>3. \A p \in 1..n : IsEntry(slots, p) => Entry(slots, p) \in EntryType
  <2> HIDE DEF slots
  <2>1. QED
    BY <1>1, EntryTyped
<1>4. none \in X
  BY EmptySeq
<1> HIDE DEF slots, n, none
<1>5. \A x \in X, e \in EntryType : Append(x, e) \in X
  <2> HIDE DEF EntryType
  <2>1. QED
    BY AppendProperties
<1> HIDE DEF X
<1>6. next \in [Nat -> [X -> X]]
  BY <1>3, <1>5
<1>7. PICK f : Recursion(f, n, X, none, next)
  <2> HIDE DEF next
  <2>1. QED
    BY <1>1, <1>4, <1>6, RecursionExists
<1>8. f = Rule(f)
  <2>1. ASSUME NEW p \in 1..n
        PROVE  f[p] = IF IsEntry(slots, p) THEN Append(f[p - 1], Entry(slots, p))
                                           ELSE f[p - 1]
    <3>1. p \in Nat /\ p - 1 \in 0..n /\ f[p - 1] \in X
      BY <1>1, <1>7 DEF Recursion
    <3>2. QED
      BY <1>7, <3>1 DEF Recursion
  <2>2. \A p \in 0..n : p = 0 \/ p \in 1..n
    BY <1>1
  <2>3. \A p \in 0..n : f[p] = Rule(f)[p]
    BY <1>7, <2>1, <2>2 DEF Recursion
  <2>4. QED
    BY <1>7, <2>3 DEF Recursion
<1>9. upTo = Rule(upTo)
  <2> HIDE DEF Rule
  <2>1. QED
    BY <1>8
<1> HIDE DEF upTo
<1>10. upTo[0] \in X
  BY <1>1, <1>4, <1>9
<1>11. ASSUME NEW p \in 1..n, upTo[p - 1] \in X PROVE upTo[p] \in X
  <2>1. p \in 0..n /\ p # 0
    BY <1>1
  <2>2. upTo[p] = IF IsEntry(slots, p)
                    THEN Append(upTo[p - 1], Entry(slots, p)) ELSE upTo[p - 1]
    BY <1>9, <2>1
  <2>3. QED
    BY <1>3, <1>5, <1>11, <2>2
<1>12. \A p \in 0..n : upTo[p] \in X
  BY <1>1, <1>10, <1>11, ValuesUpTo
<1>13. upTo \in [0..n -> X]
  <2>1. upTo = [p \in 0..n |-> upTo[p]]
    BY <1>9
  <2>2. QED
    BY <1>12, <2>1
<1> DEFINE elem == [p \in 1..n |-> Entry(slots, p)]
           keep == EntriesOf(slots)
<1>14. ASSUME NEW p \in 1..n
       PROVE  upTo[p] = IF p \in keep THEN Append(upTo[p - 1], elem[p])
                                      ELSE upTo[p - 1]
  <2>1. p \in 0..n /\ p # 0
    BY <1>1
  <2>2. upTo[p] = IF IsEntry(slots, p)
                    THEN Append(upTo[p - 1], Entry(slots, p)) ELSE upTo[p - 1]
    BY <1>9, <2>1
  <2>3. elem[p] = Entry(slots, p) /\ (p \in keep <=> IsEntry(slots, p))
    BY DEF EntriesOf, n
  <2>4. QED
    BY <2>2, <2>3
<1>15. upTo[0] = <<>>
  BY <1>1, <1>9 DEF none
<1> HIDE DEF elem, keep
<1>16. Filters(upTo, n, EntryType, keep, elem)
  BY <1>13, <1>14, <1>15 DEF Filters, X
<1>17. QED
  BY <1>2, <1>16 DEF n, slots, elem, keep

LEMMA EntriesType ==
  ASSUME NEW all \in Seq(Slot)
  PROVE  Entries(all) \in Seq(EntryType)
<1> DEFINE slots == Before(all)
           n == Len(slots)
<1>1. PICK f : /\ Filters(f, n, EntryType, EntriesOf(slots),
                          [p \in 1..n |-> Entry(slots, p)])
               /\ Entries(all) = f[n]
  BY EntriesFilter
<1>2. n \in 0..n
  <2>1. n \in Nat
    BY BeforeType, LenProperties
  <2>2. QED
    BY <2>1
<1>3. QED
  BY <1>1, <1>2 DEF Filters

(* Valid clusters have an entry in the FAT, and slots.                     *)
LEMMA VolumeFacts ==
  ASSUME volume \in Volumes
  PROVE  \A c \in Nat : Valid(c) =>
           volume.fat[c] \in Nat /\ volume.content[c] \in Seq(Slot)
<1>1. /\ DOMAIN volume.fat \subseteq Nat
      /\ volume.fat \in [DOMAIN volume.fat -> Nat]
      /\ DOMAIN volume.content = DOMAIN volume.fat
      /\ volume.content \in [DOMAIN volume.fat -> Seq(Slot)]
  BY VolumesAssumption DEF IsVolume
<1> HIDE DEF Slot
<1>2. QED
  BY <1>1 DEF Valid

(* The slots of some clusters.                                             *)
LEMMA ContentsType ==
  ASSUME volume \in Volumes, NEW clusters \in Seq(Nat),
         \A i \in 1..Len(clusters) : Valid(clusters[i])
  PROVE  Contents(clusters) \in Seq(Slot)
<1> DEFINE n == Len(clusters)
           X == Seq(Slot)
           none == <<>>
           more == [i \in 1..n |-> volume.content[clusters[i]]]
           Rule(f) == [i \in 0..n |->
             IF i = 0 THEN none ELSE f[i - 1] \o volume.content[clusters[i]]]
           upTo == CHOOSE f : f = Rule(f)
           next == [i \in Nat |-> [x \in X |->
             IF i \in 1..n THEN x \o more[i] ELSE x]]
<1>1. n \in Nat /\ \A i \in 1..n : clusters[i] \in Nat
  BY LenProperties, ElementOfSeq
<1>2. Contents(clusters) = upTo[n]
  BY DEF Contents
<1>3. \A i \in 1..n : volume.content[clusters[i]] \in X
  BY <1>1, VolumeFacts
<1>4. none \in X
  BY EmptySeq
<1>5. \A x, y \in X : x \o y \in X
  <2> HIDE DEF Slot
  <2>1. QED
    BY ConcatProperties
<1>6. more \in [1..n -> X]
  BY <1>3
<1> HIDE DEF n, none, X
<1>7. next \in [Nat -> [X -> X]]
  <2> HIDE DEF more
  <2>1. QED
    BY <1>5, <1>6
<1>8. PICK f : Recursion(f, n, X, none, next)
  <2> HIDE DEF next
  <2>1. QED
    BY <1>1, <1>4, <1>7, RecursionExists
<1>9. f = Rule(f)
  <2>1. ASSUME NEW i \in 1..n
        PROVE  f[i] = f[i - 1] \o volume.content[clusters[i]]
    <3>1. i \in Nat /\ i - 1 \in 0..n /\ f[i - 1] \in X
      BY <1>1, <1>8 DEF Recursion
    <3>2. f[i] = next[i][f[i - 1]]
      BY <1>8 DEF Recursion
    <3>3. more[i] = volume.content[clusters[i]]
      OBVIOUS
    <3> HIDE DEF more
    <3>4. QED
      BY <3>1, <3>2, <3>3
  <2>2. \A i \in 0..n : i = 0 \/ i \in 1..n
    BY <1>1
  <2>3. \A i \in 0..n : f[i] = Rule(f)[i]
    BY <1>8, <2>1, <2>2 DEF Recursion
  <2>4. QED
    BY <1>8, <2>3 DEF Recursion
<1>10. upTo = Rule(upTo)
  <2> HIDE DEF Rule
  <2>1. QED
    BY <1>9
<1> HIDE DEF upTo
<1>11. upTo[0] \in X
  BY <1>1, <1>4, <1>10
<1>12. ASSUME NEW i \in 1..n, upTo[i - 1] \in X PROVE upTo[i] \in X
  <2>1. i \in 0..n /\ i # 0
    BY <1>1
  <2>2. upTo[i] = upTo[i - 1] \o volume.content[clusters[i]]
    BY <1>10, <2>1
  <2>3. QED
    BY <1>3, <1>5, <1>12, <2>2
<1>13. \A i \in 0..n : upTo[i] \in X
  BY <1>1, <1>11, <1>12, ValuesUpTo
<1>14. QED
  BY <1>1, <1>2, <1>13 DEF X

(* The chain as the FAT has it, unfolded.                                  *)
LEMMA ReachedFacts ==
  ASSUME volume \in Volumes, IsBoot(volume.bpb), NEW start \in Nat
  PROVE  /\ Reached(start)[0] = start
         /\ \A i \in 1..Limit :
              Reached(start)[i] = IF Valid(Reached(start)[i - 1])
                                    THEN volume.fat[Reached(start)[i - 1]] ELSE 0
         /\ \A i \in 0..Limit : Reached(start)[i] \in Nat
<1> DEFINE G(c) == IF Valid(c) THEN volume.fat[c] ELSE 0
           Rule(f) == [i \in 0..Limit |->
             IF i = 0 THEN start
             ELSE IF Valid(f[i - 1]) THEN volume.fat[f[i - 1]] ELSE 0]
           at == CHOOSE f : f = Rule(f)
           next == [i \in Nat |-> [c \in Nat |-> G(c)]]
<1>1. Limit \in Nat
  BY Geometry DEF Limit
<1>2. Reached(start) = at
  BY DEF Reached
<1>3. \A c \in Nat : G(c) \in Nat
  BY VolumeFacts
<1> HIDE DEF G
<1>4. next \in [Nat -> [Nat -> Nat]]
  BY <1>3
<1>5. PICK f : Recursion(f, Limit, Nat, start, next)
  <2> HIDE DEF next
  <2>1. QED
    BY <1>1, <1>4, RecursionExists
<1>6. f = Rule(f)
  <2>1. ASSUME NEW i \in 1..Limit PROVE f[i] = G(f[i - 1])
    <3>1. i \in Nat /\ i - 1 \in 0..Limit /\ f[i - 1] \in Nat
      BY <1>1, <1>5 DEF Recursion
    <3>2. QED
      BY <1>5, <3>1 DEF Recursion
  <2>2. \A i \in 0..Limit : i = 0 \/ i \in 1..Limit
    BY <1>1
  <2>3. \A i \in 0..Limit : f[i] = Rule(f)[i]
    BY <1>5, <2>1, <2>2 DEF Recursion, G
  <2>4. QED
    BY <1>5, <2>3 DEF Recursion
<1>7. at = Rule(at)
  <2> HIDE DEF Rule
  <2>1. QED
    BY <1>6
<1> HIDE DEF at
<1>8. at[0] = start
  BY <1>1, <1>7
<1>9. \A i \in 1..Limit : at[i] = G(at[i - 1])
  <2>1. \A i \in 1..Limit : i \in 0..Limit /\ i # 0
    BY <1>1
  <2>2. QED
    BY <1>7, <2>1 DEF G
<1>10. \A i \in 0..Limit : at[i] \in Nat
  <2>1. at[0] \in Nat /\ \A i \in 1..Limit : at[i - 1] \in Nat => at[i] \in Nat
    BY <1>3, <1>8, <1>9
  <2>2. QED
    BY <1>1, <2>1, ValuesUpTo
<1>11. QED
  BY <1>2, <1>8, <1>9, <1>10 DEF G

-----------------------------------------------------------------------------
(* What is collected for a file, against its chain.                        *)
LEMMA InVolumeIsValid ==
  ASSUME volume \in Volumes, IsBoot(volume.bpb), ctx = Context(volume.bpb),
         NEW c \in Nat
  PROVE  InVolume(c) <=> Valid(c)
<1>1. 2..(TotalClusters(volume.bpb) + 1) \subseteq DOMAIN volume.fat
  BY VolumesAssumption
<1>2. ctx.total_clusters = TotalClusters(volume.bpb)
  BY DEF Context
<1>3. TotalClusters(volume.bpb) \in Nat
  BY Geometry
<1>4. QED
  BY <1>1, <1>2, <1>3, LimitsAssumption
     DEF InVolume, Valid, Limit, is_eoc, is_bad_cluster

(* What has been collected is what the FAT leads to from the start.        *)
LEMMA ChainIsReached ==
  ASSUME Typed, IsBoot(volume.bpb), Followed, Start \in Nat
  PROVE  /\ \A i \in 0..(Len(chain) - 1) : Reached(Start)[i] = chain[i + 1]
         /\ Len(chain) < Limit => Reached(Start)[Len(chain)] = cluster
<1> DEFINE at == Reached(Start)
           n == Len(chain)
<1>1. /\ at[0] = Start
      /\ \A i \in 1..Limit : at[i] = IF Valid(at[i - 1])
                                       THEN volume.fat[at[i - 1]] ELSE 0
  BY ReachedFacts DEF Typed
<1>2. n \in Nat /\ Limit \in Nat /\ n <= Limit
  <2>1. volume \in Volumes /\ chain \in Seq(Nat) /\ n <= Limit
    BY DEF Typed, Followed
  <2>2. TotalClusters(volume.bpb) \in Nat
    BY <2>1, Geometry
  <2>3. QED
    BY <2>1, <2>2, LenProperties DEF Limit
<1> HIDE DEF at
<1>3. CASE chain = <<>>
  BY <1>1, <1>3 DEF Followed, at
<1>4. CASE chain # <<>>
  <2>1. n # 0 /\ n \in Nat
    BY <1>2, <1>4, EmptySeq DEF Followed
  <2> DEFINE S == { i \in 0..(n - 1) : at[i] = chain[i + 1] }
  <2>2. 0 \in S
    BY <1>1, <1>4, <2>1 DEF Followed
  <2>3. ASSUME NEW i \in 1..(n - 1), i - 1 \in S PROVE i \in S
    <3>1. /\ i \in Nat /\ i \in 1..n /\ i \in 1..Limit /\ i \in 0..(n - 1)
          /\ (i - 1) + 1 = i /\ i \in 1..(Len(chain) - 1)
      BY <1>2, <2>1
    <3>2. at[i - 1] = chain[i]
      BY <2>3, <3>1
    <3>3. Valid(chain[i]) /\ chain[i + 1] = volume.fat[chain[i]]
      BY <3>1 DEF Followed
    <3>4. at[i] = chain[i + 1]
      BY <1>1, <3>1, <3>2, <3>3
    <3>5. QED
      BY <3>1, <3>4
  <2>4. 0..(n - 1) \subseteq S
    <3>1. n - 1 \in Nat
      BY <2>1
    <3> HIDE DEF S, n
    <3>2. QED
      BY <2>2, <2>3, <3>1, UpTo
  <2>5. ASSUME n < Limit PROVE at[n] = cluster
    <3>1. n - 1 \in 0..(n - 1) /\ (n - 1) + 1 = n /\ n \in 1..Limit
      BY <1>2, <2>1, <2>5
    <3>2. at[n - 1] = chain[n]
      BY <2>4, <3>1
    <3>3. Valid(chain[n]) /\ cluster = volume.fat[chain[n]]
      BY <1>4, <2>1, <2>5, <3>1 DEF Followed
    <3>4. QED
      BY <1>1, <3>1, <3>2, <3>3
  <2>6. QED
    BY <2>4, <2>5 DEF at
<1>5. QED
  BY <1>3, <1>4

(* Contiguous clusters count up from the first.                            *)
LEMMA CountingUp ==
  ASSUME NEW c \in Seq(Nat), c # <<>>, is_contiguous(c)
  PROVE  \A i \in 0..(Len(c) - 1) : c[i + 1] = c[1] + i
<1> DEFINE n == Len(c)
           S == { i \in 0..(n - 1) : c[i + 1] = c[1] + i }
<1>1. n \in Nat \ {0} /\ c[1] \in Nat
  <2>1. n \in Nat \ {0}
    BY EmptySeq
  <2>2. QED
    BY <2>1, ElementOfSeq
<1>2. 0 \in S
  BY <1>1
<1>3. ASSUME NEW i \in 1..(n - 1), i - 1 \in S PROVE i \in S
  <2>1. c[(i - 1) + 1] = c[1] + (i - 1) /\ (i - 1) + 1 = i /\ i \in Nat
    BY <1>1, <1>3
  <2>2. c[i + 1] = c[i] + 1
    BY <1>3 DEF is_contiguous
  <2>3. c[i + 1] = c[1] + i
    BY <1>1, <2>1, <2>2
  <2>4. QED
    BY <1>1, <2>3
<1>4. 0..(n - 1) \subseteq S
  <2>1. n - 1 \in Nat
    BY <1>1
  <2> HIDE DEF S, n
  <2>2. QED
    BY <1>2, <1>3, <2>1, UpTo
<1>5. QED
  BY <1>4

(* Where the clusters of a run are, and that they end inside the volume.   *)
LEMMA RunPlaces ==
  ASSUME volume \in Volumes, IsBoot(volume.bpb), ctx = Context(volume.bpb),
         NEW c \in Nat, c >= 2, NEW n \in Nat \ {0}, c + (n - 1) <= Limit
  PROVE  /\ cluster_abs(c) \in Nat
         /\ \A i \in 0..(n - 1) : BytesOf(c + i) = cluster_abs(c) + i * PerCluster
         /\ cluster_abs(c) + n * PerCluster
              <= volume.base + TotalSectors(volume.bpb) * volume.bpb.bytes_per_sector
<1> DEFINE b == volume.bpb
           bps == b.bytes_per_sector
           spc == b.sectors_per_cluster
           first == b.reserved_sectors + b.num_fats * FatSize(b)
                      + RootDirSectors(b)
           per == spc * bps
           T == TotalClusters(b)
           total == TotalSectors(b)
           data == DataSectors(b)
           base == volume.base
<1>1. /\ base \in Nat /\ bps \in Nat \ {0} /\ spc \in Nat \ {0} /\ per \in Nat
      /\ first \in Nat /\ total \in Nat /\ T \in Nat /\ T * spc <= data
      /\ data \in Nat /\ (data # 0 => data + first = total)
  BY Geometry DEF PerCluster
<1>2. cluster_abs(c) = base + first * bps + (c - 2) * per
  BY DEF cluster_abs, Context, DataStart
<1>3. \A i \in Nat : BytesOf(c + i) = base + (first + ((c + i) - 2) * spc) * bps
  BY DEF BytesOf
<1>4. PerCluster = per /\ Limit = T + 1
  BY DEF PerCluster, Limit
<1> HIDE DEF b, bps, spc, first, per, T, total, data, base
<1> DEFINE m == c - 2
<1>5. m \in Nat
  OBVIOUS
<1>6. \A i \in Nat : (first + (m + i) * spc) * bps = first * bps + (m * per + i * per)
  <2> TAKE i \in Nat
  <2>1. m + i \in Nat /\ (m + i) * spc \in Nat
    BY <1>1, <1>5, Products
  <2>2. (first + (m + i) * spc) * bps = first * bps + ((m + i) * spc) * bps
    BY <1>1, <2>1, Products
  <2>3. ((m + i) * spc) * bps = (m + i) * per
    BY <1>1, <2>1, Products DEF per
  <2>4. (m + i) * per = m * per + i * per
    BY <1>1, <1>5, Products
  <2>5. QED
    BY <2>2, <2>3, <2>4
<1>7. first * bps \in Nat /\ m * per \in Nat
  BY <1>1, <1>5, Products
<1>8. cluster_abs(c) \in Nat
  BY <1>1, <1>2, <1>7
<1>9. ASSUME NEW i \in 0..(n - 1)
      PROVE  BytesOf(c + i) = cluster_abs(c) + i * PerCluster
  <2>1. i \in Nat /\ (c + i) - 2 = m + i
    OBVIOUS
  <2>2. i * per \in Nat
    BY <1>1, <2>1, Products
  <2>3. BytesOf(c + i) = base + (first * bps + (m * per + i * per))
    BY <1>3, <1>6, <2>1
  <2> HIDE DEF m
  <2>4. cluster_abs(c) = base + first * bps + m * per
    BY <1>2 DEF m
  <2> DEFINE x == first * bps
             y == m * per
             z == i * per
  <2> HIDE DEF x, y, z
  <2>5. base + (x + (y + z)) = (base + x + y) + z
    BY <1>1, <1>7, <2>2 DEF x, y, z
  <2>6. QED
    BY <1>4, <2>3, <2>4, <2>5 DEF x, y, z
<1>10. cluster_abs(c) + n * per <= base + total * bps
  <2>1. m + n \in Nat /\ m + n <= T /\ T # 0
    BY <1>1, <1>4, <1>5
  <2>2. (m + n) * spc <= T * spc /\ (m + n) * spc \in Nat /\ T * spc \in Nat
    BY <1>1, <2>1, Products
  <2>3. (m + n) * spc # 0
    <3>1. m + n # 0 /\ spc # 0
      BY <1>1, <1>5
    <3> DEFINE k == m + n
    <3>2. k \in Nat /\ k # 0
      BY <2>1, <3>1
    <3> HIDE DEF k
    <3>3. k * spc # 0
      BY <1>1, <3>1, <3>2
    <3>4. QED
      BY <3>3 DEF k
  <2>4. first + (m + n) * spc <= total
    <3> DEFINE u == (m + n) * spc
               v == T * spc
    <3> HIDE DEF u, v
    <3>1. u <= v /\ u \in Nat /\ v \in Nat /\ u # 0 /\ v <= data
      BY <1>1, <2>2, <2>3 DEF u, v
    <3>2. first + u <= total
      BY <1>1, <3>1
    <3>3. QED
      BY <3>2 DEF u
  <2>5. (first + (m + n) * spc) * bps <= total * bps
    <3> DEFINE w == first + (m + n) * spc
    <3>1. w \in Nat
      BY <1>1, <2>2
    <3> HIDE DEF w
    <3>2. w * bps <= total * bps
      BY <1>1, <2>4, <3>1, Products DEF w
    <3>3. QED
      BY <3>2 DEF w
  <2>6. (first + (m + n) * spc) * bps = first * bps + (m * per + n * per)
    BY <1>6
  <2>7. cluster_abs(c) = base + first * bps + m * per
    BY <1>2
  <2>8. n * per \in Nat /\ total * bps \in Nat
    BY <1>1, Products
  <2> DEFINE x == first * bps
             y == m * per
             z == n * per
             w == total * bps
  <2>9. x + (y + z) <= w
    BY <2>5, <2>6
  <2>10. x \in Nat /\ y \in Nat /\ z \in Nat /\ w \in Nat
    BY <1>7, <2>8
  <2> HIDE DEF x, y, z, w
  <2>11. (base + x + y) + z <= base + w
    BY <1>1, <2>9, <2>10
  <2>12. QED
    BY <2>7, <2>11 DEF x, y, z, w
<1>11. QED
  BY <1>4, <1>8, <1>9, <1>10 DEF b, bps, total, base

(* A location that LocateFile gives is right.                              *)
LEMMA LocationIsRight ==
  ASSUME Typed, Followed, Undecided, pc = "chain", ForFile,
         chain # <<>>, is_contiguous(chain), LongEnough
  PROVE  /\ cluster_abs(chain[1]) \in Nat
         /\ RightlyLocated([This EXCEPT !.location = cluster_abs(chain[1])])
<1> DEFINE need == DivCeil(This.size, PerCluster)
           loc == cluster_abs(chain[1])
           here == [This EXCEPT !.location = loc]
<1>1. /\ volume \in Volumes /\ IsBoot(volume.bpb) /\ ctx = Context(volume.bpb)
      /\ This \in NodeType /\ nodes # <<>> /\ Start = This.start
  <2>1. nodes # <<>>
    BY DEF ForFile
  <2>2. Len(nodes) \in 1..Len(nodes)
    BY <2>1, EmptySeq DEF Typed
  <2>3. This \in NodeType
    BY <2>2, ElementOfSeq DEF Typed, This
  <2>4. QED
    BY <2>1, <2>3 DEF Typed, Start
<1>2. This.size \in Nat \ {0} /\ This.start \in Nat
  BY <1>1 DEF NodeType, Undecided
<1>3. /\ PerCluster \in Nat \ {0} /\ need \in Nat \ {0}
      /\ This.size <= need * PerCluster
  BY <1>1, <1>2, Geometry, CeilFacts
<1>4. ctx.bytes_per_cluster = PerCluster
  BY <1>1 DEF Context, PerCluster
<1>5. Len(chain) \in Nat /\ need <= Len(chain) /\ chain \in Seq(Nat)
  BY <1>4, LenProperties DEF LongEnough, Followed
<1>6. \A i \in 0..(need - 1) : Reached(This.start)[i] = chain[i + 1]
  <2>1. \A i \in 0..(Len(chain) - 1) : Reached(Start)[i] = chain[i + 1]
    BY <1>1, <1>2, ChainIsReached
  <2>2. QED
    BY <1>1, <1>3, <1>5, <2>1
<1>7. \A i \in 0..(need - 1) : chain[i + 1] = chain[1] + i
  BY <1>3, <1>5, CountingUp
<1>8. \A i \in 0..(need - 1) : Valid(chain[i + 1])
  BY <1>3, <1>5 DEF Followed
<1>9. chain[1] \in Nat /\ chain[1] >= 2 /\ chain[1] + (need - 1) <= Limit
  <2>1. Valid(chain[1]) /\ Valid(chain[(need - 1) + 1])
    BY <1>3, <1>8
  <2>2. chain[(need - 1) + 1] = chain[1] + (need - 1)
    BY <1>3, <1>7
  <2>3. QED
    BY <2>1, <2>2 DEF Valid
<1>10. /\ loc \in Nat
       /\ \A i \in 0..(need - 1) : BytesOf(chain[1] + i) = loc + i * PerCluster
       /\ loc + need * PerCluster
            <= volume.base + TotalSectors(volume.bpb) * volume.bpb.bytes_per_sector
  BY <1>1, <1>3, <1>9, RunPlaces
<1>11. here.location = loc /\ here.size = This.size /\ here.start = This.start
  BY <1>1 DEF NodeType
<1> HIDE DEF here, loc, need
<1>12. \A i \in 0..(need - 1) :
         LET c == Reached(here.start)[i]
         IN  Valid(c) /\ BytesOf(c) = loc + i * PerCluster
  BY <1>6, <1>7, <1>8, <1>10, <1>11
<1>13. loc + This.size
         <= volume.base + TotalSectors(volume.bpb) * volume.bpb.bytes_per_sector
  <2> DEFINE e == volume.base
                    + TotalSectors(volume.bpb) * volume.bpb.bytes_per_sector
             x == need * PerCluster
  <2>1. e \in Nat /\ x \in Nat
    <3>1. /\ volume.base \in Nat /\ TotalSectors(volume.bpb) \in Nat
          /\ volume.bpb.bytes_per_sector \in Nat
          /\ need \in Nat /\ PerCluster \in Nat
      BY <1>1, <1>3, Geometry
    <3>2. /\ TotalSectors(volume.bpb) * volume.bpb.bytes_per_sector \in Nat
          /\ need * PerCluster \in Nat
      BY <3>1, Products
    <3>3. QED
      BY <3>1, <3>2
  <2>2. loc + x <= e /\ This.size <= x
    BY <1>3, <1>10
  <2> HIDE DEF e, x
  <2>3. loc + This.size <= e
    BY <1>2, <1>10, <2>1, <2>2
  <2>4. QED
    BY <2>3 DEF e
<1>14. QED
  BY <1>10, <1>11, <1>12, <1>13 DEF RightlyLocated, here, loc, need

(* A file that LocateFile leaves without a location deserves none.         *)
LEMMA LeftIsBroken ==
  ASSUME Typed, Followed, Undecided, pc = "chain", ForFile, ChainEnds,
         ~(chain # <<>> /\ is_contiguous(chain) /\ LongEnough)
  PROVE  Broken(This)
<1> DEFINE need == DivCeil(This.size, PerCluster)
           n == Len(chain)
           at == Reached(This.start)
<1>1. /\ volume \in Volumes /\ IsBoot(volume.bpb) /\ ctx = Context(volume.bpb)
      /\ This \in NodeType /\ Start = This.start
  <2>1. nodes # <<>>
    BY DEF ForFile
  <2>2. Len(nodes) \in 1..Len(nodes)
    BY <2>1, EmptySeq DEF Typed
  <2>3. This \in NodeType
    BY <2>2, ElementOfSeq DEF Typed, This
  <2>4. QED
    BY <2>1, <2>3 DEF Typed, Start
<1>2. This.size \in Nat \ {0} /\ This.start \in Nat
  BY <1>1 DEF NodeType, Undecided
<1>3. need \in Nat \ {0}
  BY <1>1, <1>2, Geometry, CeilFacts
<1>4. n \in Nat /\ n <= Limit /\ chain \in Seq(Nat) /\ cluster \in Nat
  BY LenProperties DEF Followed
<1>5. Limit = TotalClusters(volume.bpb) + 1 /\ TotalClusters(volume.bpb) \in Nat
  BY <1>1, Geometry DEF Limit
<1>6. /\ \A i \in 0..(n - 1) : at[i] = chain[i + 1]
      /\ n < Limit => at[n] = cluster
  BY <1>1, <1>2, ChainIsReached
<1> HIDE DEF at
<1>7. ASSUME chain # <<>>, ~is_contiguous(chain) PROVE Broken(This)
  <2>1. PICK i \in 1..(n - 1) : chain[i + 1] # chain[i] + 1
    BY <1>7 DEF is_contiguous
  <2>2. i \in 1..Limit /\ i \in 0..(n - 1) /\ i - 1 \in 0..(n - 1)
        /\ (i - 1) + 1 = i /\ i + 1 \in 1..n
    BY <1>4, <1>5
  <2>3. at[i] = chain[i + 1] /\ at[i - 1] = chain[i] /\ Valid(chain[i + 1])
    BY <1>6, <2>2 DEF Followed
  <2>4. QED
    BY <2>1, <2>2, <2>3 DEF Broken, at
<1>8. ASSUME n < Limit, n < need PROVE Broken(This)
  <2>1. ~Valid(cluster)
    <3>1. ~Circular
      BY <1>1, <1>4, <1>5, <1>8 DEF Circular, Context
    <3>2. QED
      BY <1>1, <1>4, <3>1, InVolumeIsValid DEF ChainEnds
  <2>2. n \in 0..(need - 1) /\ at[n] = cluster
    BY <1>3, <1>4, <1>6, <1>8
  <2>3. QED
    BY <2>1, <2>2 DEF Broken, at, need
<1>9. ASSUME n = Limit, chain # <<>>, is_contiguous(chain) PROVE FALSE
  <2>1. Valid(chain[1]) /\ Valid(chain[n])
    BY <1>4, <1>5, <1>9 DEF Followed
  <2>2. chain[(n - 1) + 1] = chain[1] + (n - 1)
    <3>1. n - 1 \in 0..(n - 1)
      BY <1>4, <1>5, <1>9
    <3>2. \A i \in 0..(Len(chain) - 1) : chain[i + 1] = chain[1] + i
      BY <1>4, <1>9, CountingUp
    <3>3. QED
      BY <3>1, <3>2
  <2>3. (n - 1) + 1 = n
    BY <1>4
  <2>4. QED
    BY <1>4, <1>5, <1>9, <2>1, <2>2, <2>3 DEF Valid
<1>10. CASE chain = <<>>
  <2>1. n = 0
    BY <1>10
  <2>2. QED
    BY <1>3, <1>5, <1>8, <2>1
<1>11. CASE chain # <<>> /\ is_contiguous(chain)
  <2>1. ~(n >= need)
    BY <1>1, <1>11 DEF LongEnough, Context, PerCluster
  <2>2. n < need
    BY <1>3, <1>4, <2>1
  <2>3. n < Limit
    BY <1>4, <1>5, <1>9, <1>11
  <2>4. QED
    BY <1>8, <2>2, <2>3
<1>12. QED
  BY <1>7, <1>10, <1>11

-----------------------------------------------------------------------------
(* What is said of a node depends on the volume only.                      *)
LEMMA SameVolume ==
  ASSUME volume' = volume, NEW n
  PROVE  /\ RightlyLocated(n) => RightlyLocated(n)'
         /\ RightlyLeft(n) => RightlyLeft(n)'
<1>1. RightlyLocated(n) => RightlyLocated(n)'
  BY DEF Reached, Valid, Limit, RightlyLocated, PerCluster, BytesOf
<1>2. Reached(n.start)' = Reached(n.start)
  BY DEF Reached, Valid, Limit
<1>3. \A c : Valid(c)' <=> Valid(c)
  BY DEF Valid, Limit
<1>4. PerCluster' = PerCluster /\ Limit' = Limit
  BY DEF PerCluster, Limit
<1>5. Broken(n) => Broken(n)'
  BY <1>2, <1>3, <1>4 DEF Broken
<1>6. QED
  BY <1>1, <1>5 DEF RightlyLeft

(* Every action keeps the invariant.                                       *)
LEMMA InitInv == Init => Inv
<1> SUFFICES ASSUME Init PROVE Inv
  OBVIOUS
<1>1. Typed
  BY EmptySeq DEF Init, Typed
<1>2. QED
  BY <1>1 DEF Init, Inv

LEMMA ReadBpbKeeps == ASSUME Inv, ReadBpb PROVE Inv'
<1>1. /\ pc = "boot" /\ chain = <<>> /\ nodes = <<>> /\ IsBoot(volume.bpb)
      /\ volume \in Volumes /\ stack \in Seq(FrameType)
      /\ volume' = volume /\ nodes' = <<>> /\ chain' = <<>>
      /\ ctx' = Context(volume.bpb) /\ result' = result
  BY DEF Inv, Typed, ReadBpb
<1>2. /\ volume.bpb.root_cluster \in Nat /\ volume.root_dir \in Seq(Slot)
  BY <1>1, VolumesAssumption DEF IsVolume, Bpb
<1>3. result # "Ok"
  BY <1>1 DEF Inv, Typed
<1>4. pc' \in {"chain", "entry"} /\ stack' \in Seq(FrameType)
  <2>1. CASE FatType(volume.bpb) = "Fat32"
    BY <1>1, <2>1 DEF ReadBpb
  <2>2. CASE FatType(volume.bpb) # "Fat32"
    <3> DEFINE frame == Frame(Root, Entries(volume.root_dir))
    <3>1. Entries(volume.root_dir) \in Seq(EntryType)
      BY <1>2, EntriesType
    <3>2. frame \in FrameType
      BY <3>1 DEF Frame, FrameType, Root
    <3>3. stack' = <<frame>> /\ pc' = "entry"
      BY <2>2 DEF ReadBpb
    <3> HIDE DEF frame, FrameType
    <3>4. QED
      BY <3>2, <3>3
  <2>3. QED
    BY <2>1, <2>2
<1>5. Typed'
  BY <1>1, <1>3, <1>4, EmptySeq DEF Typed
<1>6. ASSUME pc' = "chain" PROVE Followed' /\ Undecided'
  <2>1. cluster' = volume.bpb.root_cluster
    BY <1>6 DEF ReadBpb
  <2>2. TotalClusters(volume.bpb) \in Nat
    BY <1>1, Geometry
  <2>3. Followed'
    BY <1>1, <1>2, <2>1, <2>2, EmptySeq DEF Followed, Start, Limit
  <2>4. QED
    BY <1>1, <2>3 DEF Undecided, ForFile
<1>7. QED
  BY <1>1, <1>4, <1>5, <1>6 DEF Inv

(* The call ends, or goes on with the nodes it has.                        *)
LEMMA StopKeeps ==
  ASSUME Inv, UNCHANGED <<volume, nodes, chain>>, pc' = "done",
         stack' \in Seq(FrameType), pc = "entry" \/ result' = "Err"
  PROVE  Inv'
<1>1. Typed'
  BY DEF Inv, Typed
<1>2. ASSUME NEW k \in DOMAIN nodes, Decided(k)' PROVE Decided(k)
  BY <1>2 DEF Decided
<1>3. \A k \in DOMAIN nodes' :
        RightlyLocated(nodes[k])' /\ (Decided(k)' => RightlyLeft(nodes[k])')
  BY <1>2, SameVolume DEF Inv
<1>4. QED
  BY <1>1, <1>3 DEF Inv

LEMMA FollowChainKeeps == ASSUME Inv, FollowChain PROVE Inv'
<1>1. /\ pc = "chain" /\ pc' = "chain" /\ Typed /\ Followed /\ Undecided
      /\ chain' = Append(chain, cluster)
      /\ UNCHANGED <<volume, ctx, stack, nodes, result>>
  BY DEF Inv, FollowChain, Pushed
<1>2. volume \in Volumes /\ IsBoot(volume.bpb) /\ ctx = Context(volume.bpb)
  BY <1>1 DEF Typed
<1>3. TotalClusters(volume.bpb) \in Nat /\ Limit = TotalClusters(volume.bpb) + 1
      /\ ctx.total_clusters = TotalClusters(volume.bpb)
  BY <1>2, Geometry DEF Limit, Context
<1>4. chain \in Seq(Nat) /\ cluster \in Nat /\ Len(chain) \in Nat
  BY <1>1, LenProperties DEF Followed
<1>5. Valid(cluster) /\ Len(chain) < Limit
  BY <1>2, <1>3, <1>4, InVolumeIsValid DEF FollowChain, Circular
<1>6. /\ chain' \in Seq(Nat) /\ chain' # <<>>
      /\ Len(chain') = Len(chain) + 1
      /\ \A i \in 1..Len(chain) : chain'[i] = chain[i]
      /\ chain'[Len(chain) + 1] = cluster
  BY <1>1, <1>4, AppendProperties
<1>7. Start' = Start /\ Limit' = Limit /\ (\A c : Valid(c)' <=> Valid(c))
      /\ volume' = volume
  BY <1>1 DEF Start, Limit, Valid, This
<1>8. \A i \in 1..Len(chain') : Valid(chain'[i])
  BY <1>1, <1>4, <1>5, <1>6 DEF Followed
<1>9. ASSUME NEW i \in 1..(Len(chain') - 1)
      PROVE  chain'[i + 1] = volume.fat[chain'[i]]
  <2>1. i \in 1..Len(chain)
    BY <1>4, <1>6
  <2>2. CASE i < Len(chain)
    BY <1>1, <1>4, <1>6, <2>1, <2>2 DEF Followed
  <2>3. CASE i = Len(chain)
    <3>1. chain # <<>> /\ cluster = volume.fat[chain[Len(chain)]]
      BY <1>1, <1>4, <1>5, <2>1, <2>3 DEF Followed
    <3>2. QED
      BY <1>6, <2>1, <2>3, <3>1
  <2>4. QED
    BY <1>4, <2>1, <2>2, <2>3
<1>10. chain'[1] = Start
  <2>1. CASE chain = <<>>
    BY <1>1, <1>6, <2>1 DEF Followed
  <2>2. CASE chain # <<>>
    <3>1. 1 \in 1..Len(chain)
      BY <1>4, <2>2, EmptySeq
    <3>2. QED
      BY <1>1, <1>6, <2>2, <3>1 DEF Followed
  <2>3. QED
    BY <2>1, <2>2
<1>11. /\ cluster' \in Nat
       /\ Len(chain') < Limit => cluster' = volume.fat[chain'[Len(chain')]]
  <2>1. cluster' = IF Len(chain) + 1 > ctx.total_clusters
                     THEN cluster ELSE volume.fat[cluster]
    BY <1>1, <1>6 DEF FollowChain, Pushed
  <2>2. volume.fat[cluster] \in Nat
    BY <1>2, <1>4, <1>5, VolumeFacts
  <2>3. QED
    BY <1>3, <1>4, <1>6, <2>1, <2>2
<1>12. Followed'
  <2>1. Len(chain') <= Limit
    BY <1>3, <1>4, <1>5, <1>6
  <2>2. QED
    BY <1>6, <1>7, <1>8, <1>9, <1>10, <1>11, <2>1 DEF Followed
<1>13. Undecided'
  BY <1>1 DEF Undecided, ForFile, This
<1>14. Typed'
  BY <1>1 DEF Typed
<1>15. \A k \in DOMAIN nodes' :
         RightlyLocated(nodes[k])' /\ (Decided(k)' => RightlyLeft(nodes[k])')
  <2>1. \A k \in DOMAIN nodes : Decided(k)' => Decided(k)
    BY <1>1 DEF Decided
  <2>2. QED
    BY <1>1, <2>1, SameVolume DEF Inv
<1>16. QED
  BY <1>1, <1>12, <1>13, <1>14, <1>15 DEF Inv

(* A directory that is entered puts a frame on the stack.                  *)
LEMMA Appended ==
  ASSUME Inv, NEW dir \in Nat, NEW all \in Seq(EntryType)
  PROVE  Append(stack, Frame(dir, all)) \in Seq(FrameType)
<1>1. Frame(dir, all) \in FrameType
  BY DEF Frame, FrameType
<1>2. stack \in Seq(FrameType)
  BY DEF Inv, Typed
<1> HIDE DEF FrameType
<1>3. QED
  BY <1>1, <1>2, AppendProperties

LEMMA ListDirectoryKeeps == ASSUME Inv, ListDirectory PROVE Inv'
<1>1. /\ pc = "chain" /\ pc' = "entry" /\ Typed /\ Followed /\ ~ForFile
      /\ chain' = <<>> /\ UNCHANGED <<volume, ctx, nodes, result>>
      /\ stack' = Append(stack, Frame(Len(nodes), Entries(Contents(chain))))
  BY DEF Inv, ListDirectory, ChainEnds
<1>2. Len(nodes) \in Nat /\ volume \in Volumes
  BY <1>1, LenProperties DEF Typed
<1>3. stack' \in Seq(FrameType)
  <2>1. Contents(chain) \in Seq(Slot)
    BY <1>1, <1>2, ContentsType DEF Followed
  <2>2. Entries(Contents(chain)) \in Seq(EntryType)
    BY <2>1, EntriesType
  <2>3. QED
    BY <1>1, <1>2, <2>2, Appended
<1>4. Typed'
  BY <1>1, <1>3 DEF Typed
<1>5. ASSUME NEW k \in DOMAIN nodes PROVE RightlyLeft(nodes[k])
  <2>1. CASE Decided(k)
    BY <2>1 DEF Inv
  <2>2. CASE ~Decided(k)
    <3>1. k = Len(nodes) /\ nodes # <<>>
      <4>1. DOMAIN nodes = 1..Len(nodes) /\ ~(k < Len(nodes))
        BY <1>1, <2>2, LenProperties DEF Typed, Decided
      <4>2. QED
        BY <1>2, <4>1
    <3>2. nodes[k].is_dir
      BY <1>1, <3>1 DEF ForFile, This
    <3>3. QED
      BY <3>2 DEF RightlyLeft
  <2>3. QED
    BY <2>1, <2>2
<1>6. \A k \in DOMAIN nodes' :
        RightlyLocated(nodes[k])' /\ (Decided(k)' => RightlyLeft(nodes[k])')
  BY <1>1, <1>5, SameVolume DEF Inv
<1>7. QED
  BY <1>1, <1>4, <1>6 DEF Inv

LEMMA LocateFileKeeps == ASSUME Inv, LocateFile PROVE Inv'
<1> DEFINE n == Len(nodes)
           Good == chain # <<>> /\ is_contiguous(chain) /\ LongEnough
           loc == cluster_abs(chain[1])
           here == [This EXCEPT !.location = loc]
<1>1. /\ pc = "chain" /\ pc' = "entry" /\ Typed /\ Followed /\ Undecided
      /\ ForFile /\ ChainEnds /\ chain' = <<>>
      /\ UNCHANGED <<volume, ctx, stack, result>>
      /\ nodes' = IF Good THEN [nodes EXCEPT ![n].location = loc] ELSE nodes
  BY DEF Inv, LocateFile, ChainEnds
<1>2. nodes \in Seq(NodeType) /\ n \in 1..n /\ n \in Nat /\ nodes # <<>>
      /\ DOMAIN nodes = 1..n
  <2>1. nodes # <<>> /\ nodes \in Seq(NodeType)
    BY <1>1 DEF ForFile, Typed
  <2>2. QED
    BY <2>1, EmptySeq, LenProperties
<1>3. This \in NodeType
  BY <1>2, ElementOfSeq DEF This
<1>4. ASSUME NEW k \in 1..n, k # n
      PROVE  RightlyLocated(nodes[k]) /\ RightlyLeft(nodes[k])
  <2>1. k \in DOMAIN nodes /\ k < n
    <3>1. n \in Nat /\ DOMAIN nodes = 1..n
      BY <1>2
    <3> HIDE DEF n
    <3>2. QED
      BY <3>1, <1>4
  <2>2. Decided(k)
    BY <2>1 DEF Decided
  <2>3. QED
    BY <2>1, <2>2 DEF Inv
<1>5. CASE Good
  <2>1. loc \in Nat /\ RightlyLocated(here)
    BY <1>1, <1>5, LocationIsRight
  <2>2. here \in NodeType /\ here.location = loc
    BY <1>3, <2>1 DEF NodeType
  <2>3. RightlyLeft(here)
    BY <2>1, <2>2, NoValueAssumption DEF RightlyLeft
  <2>4. nodes' = [nodes EXCEPT ![n] = here]
    BY <1>1, <1>2, <1>5 DEF This
  <2> HIDE DEF here, Good, loc
  <2>5. /\ nodes' \in Seq(NodeType) /\ Len(nodes') = n
        /\ \A k \in 1..n : nodes'[k] = IF k = n THEN here ELSE nodes[k]
    <3> HIDE DEF NodeType
    <3>1. QED
      BY <1>2, <2>2, <2>4, ExceptSeq
  <2>6. DOMAIN nodes' = 1..n /\ nodes' # <<>>
    <3> HIDE DEF NodeType, n
    <3>1. DOMAIN nodes' = 1..Len(nodes')
      BY <2>5, LenProperties
    <3>2. QED
      BY <1>2, <2>5, <3>1
  <2>7. \A k \in 1..n : RightlyLocated(nodes'[k]) /\ RightlyLeft(nodes'[k])
    BY <1>4, <2>1, <2>3, <2>5
  <2>8. \A k \in 1..n : RightlyLocated(nodes[k])' /\ RightlyLeft(nodes[k])'
    BY <1>1, <2>7, SameVolume
  <2>9. Typed'
    BY <1>1, <1>2, <2>5 DEF Typed
  <2>10. QED
    BY <1>1, <2>6, <2>8, <2>9 DEF Inv
<1>6. CASE ~Good
  <2>1. RightlyLeft(This)
    BY <1>1, <1>6, LeftIsBroken DEF RightlyLeft
  <2> HIDE DEF Good
  <2>2. nodes' = nodes
    BY <1>1, <1>6
  <2>3. \A k \in 1..n : RightlyLocated(nodes[k]) /\ RightlyLeft(nodes[k])
    BY <1>2, <1>4, <2>1 DEF Inv, This
  <2>4. \A k \in 1..n : RightlyLocated(nodes[k])' /\ RightlyLeft(nodes[k])'
    BY <1>1, <2>2, <2>3, SameVolume
  <2>5. Typed'
    BY <1>1, <2>2 DEF Typed
  <2>6. QED
    BY <1>1, <1>2, <2>2, <2>4, <2>5 DEF Inv
<1>7. QED
  BY <1>5, <1>6

(* The entries that are left, and the one that is handled.                 *)
LEMMA NextOfTop ==
  ASSUME Inv, stack # <<>>, Top.entries # <<>>
  PROVE  /\ Head(Top.entries) \in EntryType
         /\ Top.dir \in Nat
         /\ Rest \in Seq(FrameType)
<1>1. stack \in Seq(FrameType) /\ Len(stack) \in Nat \ {0}
  BY EmptySeq DEF Inv, Typed
<1>2. Top \in FrameType
  BY <1>1, ElementOfSeq DEF Top
<1>3. Top.dir \in Nat /\ Top.entries \in Seq(EntryType)
  BY <1>2 DEF FrameType
<1>4. Head(Top.entries) \in EntryType /\ Tail(Top.entries) \in Seq(EntryType)
  <2> HIDE DEF EntryType
  <2>1. QED
    BY <1>3, HeadTailProperties
<1> DEFINE rest == [Top EXCEPT !.entries = Tail(@)]
<1>5. rest \in FrameType
  BY <1>2, <1>4 DEF FrameType
<1>6. Front(stack) \in Seq(FrameType)
  <2>1. \A i \in 1..(Len(stack) - 1) : stack[i] \in FrameType
    BY <1>1, ElementOfSeq
  <2>2. SubSeq(stack, 1, Len(stack) - 1) \in Seq(FrameType)
    BY <1>1, <2>1, SubSeqProperties
  <2>3. QED
    BY <2>2 DEF Front
<1>7. Rest = Append(Front(stack), rest)
  BY DEF Rest
<1> HIDE DEF rest, FrameType
<1>8. Rest \in Seq(FrameType)
  BY <1>5, <1>6, <1>7, AppendProperties
<1>9. QED
  BY <1>3, <1>4, <1>8

LEMMA NextEntryKeeps == ASSUME Inv, NextEntry PROVE Inv'
<1> DEFINE e == Head(Top.entries)
           node == IF e.is_dir THEN DirNode(e) ELSE FileNode(e)
           n == Len(nodes)
<1>1. /\ pc = "entry" /\ Typed /\ chain = <<>>
      /\ stack # <<>> /\ Top.entries # <<>>
      /\ nodes' = Append(nodes, node) /\ stack' = Rest
      /\ IF HasChain(e) THEN pc' = "chain" /\ cluster' = e.start
                        ELSE UNCHANGED <<pc, cluster>>
      /\ UNCHANGED <<volume, ctx, chain, result>>
  BY DEF Inv, NextEntry
<1>2. e \in EntryType /\ Top.dir \in Nat /\ stack' \in Seq(FrameType)
  BY <1>1, NextOfTop
<1> HIDE DEF e
<1>3. /\ node \in NodeType /\ node.location = NoValue
      /\ node.is_dir = e.is_dir /\ node.start = e.start
      /\ ~e.is_dir => node.size = e.size
  BY <1>2 DEF NodeType, EntryType, DirNode, FileNode
<1>4. nodes \in Seq(NodeType) /\ n \in Nat /\ DOMAIN nodes = 1..n
  BY <1>1, LenProperties DEF Typed
<1> HIDE DEF node
<1>5. /\ nodes' \in Seq(NodeType) /\ nodes' # <<>> /\ Len(nodes') = n + 1
      /\ \A k \in 1..n : nodes'[k] = nodes[k]
      /\ nodes'[n + 1] = node
  <2> HIDE DEF NodeType
  <2>1. QED
    BY <1>1, <1>3, <1>4, AppendProperties
<1>6. DOMAIN nodes' = 1..(n + 1)
  BY <1>5, LenProperties
<1>7. This' = node /\ (ForFile' <=> ~e.is_dir)
  BY <1>3, <1>5 DEF This, ForFile
<1>8. Typed'
  <2>1. result # "Ok" /\ pc' \in {"chain", "entry"} /\ IsBoot(volume.bpb)
        /\ ctx = Context(volume.bpb)
    BY <1>1 DEF Typed
  <2>2. QED
    BY <1>1, <1>2, <1>5, <2>1 DEF Typed
<1>9. ASSUME pc' = "chain" PROVE Followed' /\ Undecided'
  <2>1. HasChain(e) /\ cluster' = e.start
    BY <1>1, <1>9
  <2>2. Limit \in Nat /\ Limit' = Limit
    <3>1. TotalClusters(volume.bpb) \in Nat
      BY <1>1, Geometry DEF Typed
    <3>2. QED
      BY <1>1, <3>1 DEF Limit
  <2>3. Start' = e.start /\ e.start \in Nat
    BY <1>2, <1>3, <1>5, <1>7 DEF Start, EntryType
  <2>4. Followed'
    BY <1>1, <2>1, <2>2, <2>3, EmptySeq DEF Followed
  <2>5. Undecided'
    BY <1>2, <1>3, <1>7, <2>1 DEF Undecided, HasChain, EntryType
  <2>6. QED
    BY <2>4, <2>5
<1>10. \A k \in 1..n : RightlyLocated(nodes[k]) /\ RightlyLeft(nodes[k])
  BY <1>1, <1>4 DEF Inv, Decided
<1>11. RightlyLocated(node)
  BY <1>3 DEF RightlyLocated
<1>12. ASSUME pc' = "entry" PROVE RightlyLeft(node)
  <2>1. ~HasChain(e)
    BY <1>1, <1>12
  <2>2. QED
    BY <1>2, <1>3, <2>1 DEF HasChain, RightlyLeft, Broken, EntryType
<1>13. ASSUME NEW k \in 1..(n + 1)
       PROVE  RightlyLocated(nodes'[k]) /\ (Decided(k)' => RightlyLeft(nodes'[k]))
  <2>1. CASE k \in 1..n
    BY <1>5, <1>10, <2>1
  <2>2. CASE k = n + 1
    <3>1. Decided(k)' => pc' = "entry"
      <4>1. result' # "Ok" /\ ~(k < Len(nodes'))
        BY <1>1, <1>4, <1>5, <2>2 DEF Typed
      <4>2. QED
        BY <4>1 DEF Decided
    <3>2. QED
      BY <1>5, <1>11, <1>12, <2>2, <3>1
  <2>3. QED
    BY <1>4, <2>1, <2>2
<1>14. \A k \in DOMAIN nodes' :
         RightlyLocated(nodes[k])' /\ (Decided(k)' => RightlyLeft(nodes[k])')
  BY <1>1, <1>6, <1>13, SameVolume
<1>15. QED
  <2>1. pc' \in {"chain", "entry"}
    BY <1>1
  <2>2. QED
    BY <1>1, <1>8, <1>9, <1>14, <2>1 DEF Inv

LEMMA ReturnKeeps == ASSUME Inv, Return PROVE Inv'
<1>1. /\ pc = "entry" /\ stack # <<>> /\ stack' = Front(stack)
      /\ IF Len(stack) = 1 THEN pc' = "done" /\ result' = "Ok"
                           ELSE UNCHANGED <<pc, result>>
      /\ UNCHANGED <<volume, ctx, chain, cluster, nodes>>
  BY DEF Return, Stop
<1>2. stack' \in Seq(FrameType)
  <2>1. stack \in Seq(FrameType) /\ Len(stack) \in Nat \ {0}
    BY <1>1, EmptySeq DEF Inv, Typed
  <2> HIDE DEF FrameType
  <2>2. \A i \in 1..(Len(stack) - 1) : stack[i] \in FrameType
    BY <2>1, ElementOfSeq
  <2>3. SubSeq(stack, 1, Len(stack) - 1) \in Seq(FrameType)
    BY <2>1, <2>2, SubSeqProperties
  <2>4. QED
    BY <1>1, <2>3 DEF Front
<1>3. CASE Len(stack) = 1
  BY <1>1, <1>2, <1>3, StopKeeps
<1>4. CASE Len(stack) # 1
  <2>1. Typed'
    BY <1>1, <1>2, <1>4 DEF Inv, Typed
  <2>2. \A k \in DOMAIN nodes' :
          RightlyLocated(nodes[k])' /\ (Decided(k)' => RightlyLeft(nodes[k])')
    BY <1>1, SameVolume DEF Inv, Decided
  <2>3. QED
    BY <1>1, <1>4, <2>1, <2>2 DEF Inv
<1>5. QED
  BY <1>3, <1>4

LEMMA NextInv == Inv /\ [Next]_vars => Inv'
<1> SUFFICES ASSUME Inv, [Next]_vars PROVE Inv'
  OBVIOUS
<1>1. CASE BadBootSector \/ ReadFails
  <2>1. /\ UNCHANGED <<volume, nodes, chain, stack>>
        /\ pc' = "done" /\ result' = "Err"
    BY <1>1 DEF BadBootSector, ReadFails, Stop
  <2>2. stack \in Seq(FrameType)
    BY DEF Inv, Typed
  <2>3. QED
    BY <2>1, <2>2, StopKeeps
<1>2. CASE UNCHANGED vars
  <2>1. Typed'
    BY <1>2 DEF vars, Inv, Typed
  <2>2. pc' = "chain" => Followed' /\ Undecided'
    <3>1. ASSUME pc' = "chain" PROVE Followed' /\ Undecided'
      <4>1. Followed /\ Undecided
        BY <1>2, <3>1 DEF vars, Inv
      <4>2. Start' = Start /\ Limit' = Limit /\ (\A c : Valid(c)' <=> Valid(c))
        BY <1>2 DEF vars, Start, Limit, Valid, This
      <4>3. Followed'
        BY <1>2, <4>1, <4>2 DEF vars, Followed
      <4>4. Undecided'
        BY <1>2, <4>1 DEF vars, Undecided, ForFile, This
      <4>5. QED
        BY <4>3, <4>4
    <3>2. QED
      BY <3>1
  <2>3. \A k \in DOMAIN nodes' :
          RightlyLocated(nodes[k])' /\ (Decided(k)' => RightlyLeft(nodes[k])')
    BY <1>2, SameVolume DEF vars, Inv, Decided
  <2>4. QED
    BY <1>2, <2>1, <2>2, <2>3 DEF vars, Inv
<1>3. QED
  BY <1>1, <1>2, ReadBpbKeeps, FollowChainKeeps, ListDirectoryKeeps,
     LocateFileKeeps, NextEntryKeeps, ReturnKeeps DEF Next

(* What the conjuncts of the invariant say together.                       *)
LEMMA InvImplies == Inv => LocatedJustWhenWhole
<1> SUFFICES ASSUME Inv PROVE LocatedJustWhenWhole
  OBVIOUS
<1>1. LocatedBytesAreTheChains
  BY DEF Inv, LocatedBytesAreTheChains, RightlyLocated, PerCluster
<1>2. LocatedUnlessBroken
  BY DEF Inv, LocatedUnlessBroken, RightlyLeft, Broken, Decided, PerCluster
<1>3. QED
  BY <1>1, <1>2 DEF LocatedJustWhenWhole

-----------------------------------------------------------------------------
(* The elements of a filtered list by how many were kept before them.      *)
Kept(n, keep) == { i \in 1..n : i \in keep }
LEMMA FilterCounts ==
  ASSUME NEW n \in Nat, NEW X, NEW f, NEW keep, NEW elem,
         Filters(f, n, X, keep, elem),
         \A i \in 1..n : i \in keep => elem[i] \in X
  PROVE  /\ f[n] \in Seq(X) /\ Len(f[n]) = Cardinality(Kept(n, keep))
         /\ \A p \in Kept(n, keep) : f[n][CountTo(Kept(n, keep), p)] = elem[p]
<1> DEFINE K == Kept(n, keep)
           S == { m \in 0..n : /\ Len(f[m]) = CountTo(K, m)
                               /\ \A p \in K :
                                    p <= m => f[m][CountTo(K, p)] = elem[p] }
<1>1. K \in SUBSET (1..n) /\ K \in SUBSET (Nat \ {0})
  BY DEF Kept
<1>2. \A i \in 1..n : i \in keep <=> i \in K
  BY DEF Kept
<1> HIDE DEF K
<1>3. /\ CountTo(K, 0) = 0
      /\ \A m \in Nat : CountTo(K, m) \in Nat
      /\ \A m \in Nat \ {0} :
           CountTo(K, m) = CountTo(K, m - 1) + (IF m \in K THEN 1 ELSE 0)
      /\ \A m, k \in Nat : m <= k => CountTo(K, m) <= CountTo(K, k)
      /\ \A m \in K : CountTo(K, m) # 0
  BY <1>1, CountFacts
<1>4. \A m \in 0..n : f[m] \in Seq(X)
  BY DEF Filters
<1>5. 0 \in S
  <2>1. f[0] = <<>> /\ Len(f[0]) = 0
    BY EmptySeq DEF Filters
  <2>2. \A p \in K : ~(p <= 0)
    BY <1>1
  <2>3. QED
    BY <1>3, <2>1, <2>2
<1>6. ASSUME NEW m \in 1..n, m - 1 \in S PROVE m \in S
  <2>1. m \in Nat \ {0} /\ m - 1 \in 0..n /\ m \in 0..n /\ m - 1 \in Nat
    OBVIOUS
  <2>2. /\ f[m - 1] \in Seq(X) /\ Len(f[m - 1]) = CountTo(K, m - 1)
        /\ \A p \in K : p <= m - 1 => f[m - 1][CountTo(K, p)] = elem[p]
    BY <1>4, <1>6, <2>1
  <2>3. CASE m \in K
    <3>1. f[m] = Append(f[m - 1], elem[m]) /\ elem[m] \in X
      BY <1>2, <2>3 DEF Filters
    <3>2. /\ Len(f[m]) = Len(f[m - 1]) + 1
          /\ \A i \in 1..Len(f[m - 1]) : f[m][i] = f[m - 1][i]
          /\ f[m][Len(f[m - 1]) + 1] = elem[m]
      BY <2>2, <3>1, AppendProperties
    <3>3. CountTo(K, m) = CountTo(K, m - 1) + 1 /\ CountTo(K, m - 1) \in Nat
      BY <1>3, <2>1, <2>3
    <3>4. ASSUME NEW p \in K, p <= m PROVE f[m][CountTo(K, p)] = elem[p]
      <4>1. CASE p = m
        BY <2>2, <3>2, <3>3, <4>1
      <4>2. CASE p # m
        <5>1. p \in Nat /\ p <= m - 1
          BY <1>1, <2>1, <3>4, <4>2
        <5>2. CountTo(K, p) \in 1..Len(f[m - 1])
          BY <1>3, <2>1, <2>2, <3>4, <5>1
        <5>3. QED
          BY <2>2, <3>2, <3>4, <5>1, <5>2
      <4>3. QED
        BY <4>1, <4>2
    <3>5. QED
      BY <2>1, <2>2, <3>2, <3>3, <3>4
  <2>4. CASE m \notin K
    <3>1. f[m] = f[m - 1]
      BY <1>2, <2>4 DEF Filters
    <3>2. CountTo(K, m) = CountTo(K, m - 1)
      BY <1>3, <2>1, <2>4
    <3>3. \A p \in K : p <= m => p <= m - 1
      BY <1>1, <2>1, <2>4
    <3>4. QED
      BY <2>1, <2>2, <3>1, <3>2, <3>3
  <2>5. QED
    BY <2>3, <2>4
<1>7. n \in S
  <2>1. 0..n \subseteq S
    <3> HIDE DEF S
    <3>1. QED
      BY <1>5, <1>6, UpTo
  <2>2. QED
    BY <2>1
<1>8. CountTo(K, n) = Cardinality(K) /\ \A p \in K : p <= n
  BY <1>1, Counting
<1>9. QED
  BY <1>4, <1>7, <1>8 DEF K

-----------------------------------------------------------------------------
(* Names.  The run of slots before an entry.                               *)
LEMMA RunFacts ==
  ASSUME NEW slots \in Seq(Slot), NEW p \in 1..Len(slots)
  PROVE  LET n == Cardinality(RunBefore(slots, p))
         IN  /\ n \in Nat /\ n < p
             /\ RunBefore(slots, p) = (p - n)..(p - 1)
<1> DEFINE R == RunBefore(slots, p)
<1>1. Len(slots) \in Nat /\ p \in Nat \ {0}
  <2>1. Len(slots) \in Nat
    BY LenProperties
  <2>2. QED
    BY <2>1
<1>2. R = { i \in 1..(p - 1) : \A j \in i..(p - 1) : slots[j].kind = "piece" }
  BY DEF RunBefore
<1> HIDE DEF R
<1>3. CASE R = {}
  <2>1. Cardinality(R) = 0 /\ (p - 0)..(p - 1) = {}
    BY <1>1, <1>3, FS_EmptySet
  <2>2. QED
    BY <1>1, <1>3, <2>1 DEF R
<1>4. CASE R # {}
  <2>1. \A i \in R : i \in 1..(p - 1)
    BY <1>2
  <2>2. R \in SUBSET Nat
    BY <2>1
  <2>3. PICK a \in R : \A y \in R : a <= y
    BY <1>4, <2>2, LeastElement
  <2>4. a \in 1..(p - 1) /\ \A j \in a..(p - 1) : slots[j].kind = "piece"
    BY <1>2, <2>3
  <2>5. \A i \in a..(p - 1) : i \in 1..(p - 1) /\ \A j \in i..(p - 1) : j \in a..(p - 1)
    BY <1>1, <2>4
  <2>6. \A i \in a..(p - 1) : i \in R
    BY <1>2, <2>4, <2>5
  <2>7. \A i \in R : i \in a..(p - 1)
    BY <1>1, <2>1, <2>3, <2>4
  <2>8. R = a..(p - 1)
    BY <2>6, <2>7
  <2>9. Cardinality(R) = p - a
    <3>1. Cardinality(a..(p - 1)) = (p - 1) - a + 1
      BY <1>1, <2>4, FS_Interval
    <3>2. QED
      BY <1>1, <2>4, <2>8, <3>1
  <2>10. p - (p - a) = a
    BY <1>1, <2>4
  <2>11. QED
    BY <1>1, <2>4, <2>8, <2>9, <2>10 DEF R
<1>5. QED
  BY <1>3, <1>4

(* In a tidy directory the piece i slots before an entry has number i, and *)
(* only the farthest holds the terminator.                                 *)
LEMMA TidyRuns ==
  ASSUME NEW slots \in Seq(Slot), Tidy(slots), NEW p \in 1..Len(slots),
         slots[p].kind \in {"file", "dir"}
  PROVE  \A i \in RunBefore(slots, p) :
           /\ slots[i].seq = p - i
           /\ slots[i].ends => \A j \in 1..(i - 1) : j \notin RunBefore(slots, p)
<1> SUFFICES ASSUME NEW i \in RunBefore(slots, p)
             PROVE  /\ slots[i].seq = p - i
                    /\ slots[i].ends =>
                         \A j \in 1..(i - 1) : j \notin RunBefore(slots, p)
  OBVIOUS
<1>1. Len(slots) \in Nat
  BY LenProperties
<1>2. i \in 1..(p - 1) /\ \A j \in i..(p - 1) : slots[j].kind = "piece"
  BY DEF RunBefore
<1>3. i \in 1..Len(slots) /\ i \in i..(p - 1)
  BY <1>1, <1>2
<1>4. PICK q \in (i + 1)..Len(slots) :
        /\ slots[q].kind \in {"file", "dir", "deleted"}
        /\ i \in RunBefore(slots, q)
        /\ slots[q].kind # "deleted" => slots[i].seq = q - i
        /\ slots[i].ends => \A j \in 1..(i - 1) : j \notin RunBefore(slots, q)
  BY <1>2, <1>3 DEF Tidy
<1>5. \A j \in i..(q - 1) : slots[j].kind = "piece"
  BY <1>4 DEF RunBefore
<1>6. q = p
  <2>1. ~(q < p)
    <3>1. ASSUME q < p PROVE FALSE
      <4>1. q \in i..(p - 1)
        BY <1>1, <1>2, <1>4, <3>1
      <4>2. QED
        BY <1>2, <1>4, <4>1
    <3>2. QED
      BY <3>1
  <2>2. ~(p < q)
    <3>1. ASSUME p < q PROVE FALSE
      <4>1. p \in i..(q - 1)
        BY <1>1, <1>2, <1>4, <3>1
      <4>2. QED
        BY <1>5, <4>1
    <3>2. QED
      BY <3>1
  <2>3. QED
    BY <1>1, <1>4, <2>1, <2>2
<1>7. slots[p].kind # "deleted"
  OBVIOUS
<1>8. QED
  BY <1>4, <1>6, <1>7

(* Pieces that came numbered n..1 are put in the opposite order.           *)
LEMMA Reversed ==
  ASSUME NEW pieces, NEW n \in Nat, DOMAIN pieces = 1..n,
         \A i \in 1..n : pieces[i].seq = n - i + 1
  PROVE  BySeq(pieces) = [k \in 1..n |-> pieces[n - k + 1]]
<1> DEFINE Lower(i) == { j \in 1..n :
                           \/ pieces[j].seq < pieces[i].seq
                           \/ pieces[j].seq = pieces[i].seq /\ j <= i }
           Place(i) == Cardinality(Lower(i))
<1>1. ASSUME NEW i \in 1..n PROVE Place(i) = n - i + 1
  <2>1. \A j \in 1..n : (\/ pieces[j].seq < pieces[i].seq
                         \/ pieces[j].seq = pieces[i].seq /\ j <= i)
                           <=> i <= j
    OBVIOUS
  <2>2. \A j \in i..n : j \in 1..n
    OBVIOUS
  <2>3. Lower(i) = i..n
    BY <2>1, <2>2
  <2>4. Cardinality(i..n) = n - i + 1
    BY FS_Interval
  <2> HIDE DEF Lower
  <2>5. QED
    BY <2>3, <2>4
<1>2. BySeq(pieces) = [k \in 1..n |-> pieces[CHOOSE i \in 1..n : Place(i) = k]]
  BY DEF BySeq
<1> HIDE DEF Place
<1>3. ASSUME NEW k \in 1..n
      PROVE  (CHOOSE i \in 1..n : Place(i) = k) = n - k + 1
  <2>1. n - k + 1 \in 1..n /\ n - (n - k + 1) + 1 = k
    OBVIOUS
  <2>2. Place(n - k + 1) = k
    BY <1>1, <2>1
  <2>3. \A i \in 1..n : Place(i) = k => i = n - k + 1
    BY <1>1
  <2>4. QED
    BY <2>1, <2>2, <2>3
<1>4. QED
  BY <1>2, <1>3

(* What is reassembled for an entry of a tidy directory is the name that   *)
(* was written.                                                            *)
LEMMA TidyNames ==
  ASSUME NEW slots \in Seq(Slot), Tidy(slots), NEW p \in 1..Len(slots),
         slots[p].kind \in {"file", "dir"}
  PROVE  NameOf(slots, p) = GivenName(slots, p)
<1> DEFINE n == Cardinality(RunBefore(slots, p))
           pieces == SubSeq(slots, p - n, p - 1)
<1>1. /\ n \in Nat /\ n < p /\ RunBefore(slots, p) = (p - n)..(p - 1)
      /\ Len(slots) \in Nat /\ p \in Nat /\ p <= Len(slots)
  <2>1. Len(slots) \in Nat
    BY LenProperties
  <2>2. p \in Nat /\ p <= Len(slots)
    BY <2>1
  <2>3. QED
    BY <2>1, <2>2, RunFacts
<1>2. \A i \in (p - n)..(p - 1) :
        /\ slots[i].seq = p - i
        /\ slots[i].ends => \A j \in 1..(i - 1) : j \notin (p - n)..(p - 1)
  <2>1. \A i \in RunBefore(slots, p) :
           /\ slots[i].seq = p - i
           /\ slots[i].ends => \A j \in 1..(i - 1) : j \notin RunBefore(slots, p)
    BY TidyRuns
  <2>2. QED
    BY <1>1, <2>1
<1>3. /\ NameOf(slots, p) = IF n = 0 THEN <<slots[p].short>> ELSE Reassembled(pieces)
      /\ GivenName(slots, p) = IF n = 0 THEN <<slots[p].short>>
                               ELSE [i \in 1..n |-> slots[p - i].text]
  BY DEF NameOf, GivenName
<1> HIDE DEF n
<1>4. CASE n = 0
  BY <1>3, <1>4
<1>5. CASE n # 0
  <2>1. /\ DOMAIN pieces = 1..n
        /\ \A i \in 1..n : pieces[i] = slots[(p - n) + i - 1]
    <3>1. /\ p - n \in Nat \ {0} /\ p - 1 \in Nat
          /\ p - n <= p - 1 /\ p - 1 <= Len(slots)
          /\ (p - 1) - (p - n) + 1 = n
      BY <1>1, <1>5
    <3>2. \A i \in (p - n)..(p - 1) : i \in 1..Len(slots)
      BY <1>1, <3>1
    <3>3. \A i \in (p - n)..(p - 1) : slots[i] \in Slot
      <4> HIDE DEF Slot
      <4>1. QED
        BY <3>2, ElementOfSeq
    <3> HIDE DEF Slot
    <3>4. /\ pieces \in Seq(Slot) /\ Len(pieces) = n
          /\ \A i \in 1..n : pieces[i] = slots[(p - n) + i - 1]
      <4> DEFINE a == p - n
                 b == p - 1
      <4>1. a \in Int /\ b \in Int /\ a <= b /\ b - a + 1 = n
        BY <3>1
      <4>2. \A i \in a..b : slots[i] \in Slot
        BY <3>3
      <4>3. pieces = SubSeq(slots, a, b)
        OBVIOUS
      <4> HIDE DEF a, b, pieces
      <4>4. /\ pieces \in Seq(Slot) /\ Len(pieces) = b - a + 1
            /\ \A i \in 1..(b - a + 1) : pieces[i] = slots[a + i - 1]
        BY <4>1, <4>2, <4>3, SubSeqProperties
      <4>5. QED
        BY <4>1, <4>4 DEF a
    <3>5. QED
      BY <3>4, LenProperties
  <2> HIDE DEF pieces
  <2>2. ASSUME NEW i \in 1..n PROVE pieces[i].seq = n - i + 1
    <3>1. (p - n) + i - 1 \in (p - n)..(p - 1) /\ p - ((p - n) + i - 1) = n - i + 1
      BY <1>1
    <3>2. QED
      BY <1>2, <2>1, <3>1
  <2>3. BySeq(pieces) = [k \in 1..n |-> pieces[n - k + 1]]
    BY <1>1, <2>1, <2>2, Reversed
  <2> DEFINE sorted == BySeq(pieces)
             upTo == { k \in 1..Len(sorted) : \A j \in 1..(k - 1) : ~sorted[j].ends }
  <2>4. ASSUME NEW k \in 1..n PROVE sorted[k] = slots[p - k]
    <3>1. n - k + 1 \in 1..n /\ (p - n) + (n - k + 1) - 1 = p - k
      BY <1>1
    <3>2. QED
      BY <2>1, <2>3, <3>1
  <2>5. Len(sorted) = n
    BY <1>1, <2>3
  <2>6. Reassembled(pieces) = [k \in upTo |-> sorted[k].text]
    BY DEF Reassembled
  <2> HIDE DEF sorted
  <2>7. ASSUME NEW j \in 1..(n - 1) PROVE ~sorted[j].ends
    <3>1. /\ p - j \in (p - n)..(p - 1)
          /\ p - n \in 1..((p - j) - 1) /\ p - n \in (p - n)..(p - 1)
      BY <1>1, <1>5
    <3>2. ~slots[p - j].ends
      BY <1>2, <3>1
    <3>3. QED
      BY <1>1, <2>4, <3>2
  <2>8. upTo = 1..n
    <3>1. \A k \in 1..n : \A j \in 1..(k - 1) : j \in 1..(n - 1)
      BY <1>1
    <3>2. QED
      BY <2>5, <2>7, <3>1
  <2>9. Reassembled(pieces) = [k \in 1..n |-> slots[p - k].text]
    <3> HIDE DEF upTo
    <3>1. QED
      BY <2>4, <2>6, <2>8
  <2>10. QED
    BY <1>3, <1>5, <2>9
<1>6. QED
  BY <1>4, <1>5

(* What a tidy directory lists, by how many entries lie before each.       *)
LEMMA TidyEntries ==
  ASSUME NEW all \in Seq(Slot), Tidy(Before(all))
  PROVE  LET slots == Before(all)
             L == ListedSlots(slots)
             E == Entries(all)
         IN  /\ L \in SUBSET (1..Len(slots)) /\ Len(slots) \in Nat
             /\ E \in Seq(EntryType) /\ Len(E) = Cardinality(L)
             /\ \A p \in L : /\ E[CountTo(L, p)] = Entry(slots, p)
                            /\ NameOf(slots, p) = GivenName(slots, p)
<1> DEFINE slots == Before(all)
           n == Len(slots)
           L == ListedSlots(slots)
           elem == [p \in 1..n |-> Entry(slots, p)]
           keep == EntriesOf(slots)
<1>1. slots \in Seq(Slot) /\ n \in Nat
  BY BeforeType, LenProperties
<1>2. PICK f : Filters(f, n, EntryType, keep, elem) /\ Entries(all) = f[n]
  BY EntriesFilter
<1> HIDE DEF slots
<1>3. \A p \in 1..n : slots[p].kind \in {"file", "dir"} =>
                        NameOf(slots, p) = GivenName(slots, p)
  BY <1>1, TidyNames DEF slots
<1>4. L = Kept(n, keep)
  BY <1>3 DEF ListedSlots, EntriesOf, IsEntry, Kept
<1>5. \A p \in 1..n : p \in keep => elem[p] \in EntryType
  BY <1>1, EntryTyped DEF EntriesOf
<1>6. \A p \in 1..n : elem[p] = Entry(slots, p)
  OBVIOUS
<1> HIDE DEF elem, keep, n, L
<1>7. /\ f[n] \in Seq(EntryType) /\ Len(f[n]) = Cardinality(L)
      /\ \A p \in L : f[n][CountTo(L, p)] = elem[p]
  BY <1>1, <1>2, <1>4, <1>5, FilterCounts
<1>8. \A p \in L : p \in 1..n /\ slots[p].kind \in {"file", "dir"}
  BY DEF L, n, ListedSlots
<1>9. L \in SUBSET (1..n)
  BY <1>8
<1>10. QED
  BY <1>1, <1>2, <1>3, <1>6, <1>7, <1>8, <1>9 DEF L, n, slots

-----------------------------------------------------------------------------
(* Listings.  What is collected of a chain that ends is the whole of it.   *)
LEMMA WholeChain ==
  ASSUME Typed, IsBoot(volume.bpb), pc = "chain", Followed, ChainEnds,
         Start \in Nat, Acyclic(Start)
  PROVE  chain = FirstRound(Start)
<1> DEFINE at == Reached(Start)
           m == Len(chain)
           steps == { i \in 0..Limit :
                        \A j \in 0..i : Valid(at[j]) /\ \A h \in 0..(j - 1) :
                                                         at[h] # at[j] }
           n == Cardinality(steps)
<1>1. /\ volume \in Volumes /\ ctx = Context(volume.bpb)
      /\ TotalClusters(volume.bpb) \in Nat
      /\ Limit = TotalClusters(volume.bpb) + 1
      /\ ctx.total_clusters = TotalClusters(volume.bpb)
  <2>1. volume \in Volumes /\ ctx = Context(volume.bpb)
    BY DEF Typed
  <2>2. QED
    BY <2>1, Geometry DEF Limit, Context
<1>2. /\ \A i \in 0..(m - 1) : at[i] = chain[i + 1]
      /\ m < Limit => at[m] = cluster
  BY ChainIsReached
<1>3. chain \in Seq(Nat) /\ cluster \in Nat /\ m \in Nat /\ m <= Limit
      /\ \A i \in 1..m : Valid(chain[i])
  BY LenProperties DEF Followed
<1>4. FirstRound(Start) = [i \in 1..n |-> at[i - 1]]
  BY DEF FirstRound
<1> HIDE DEF at, m
<1>5. n \in Nat /\ steps = 0..(n - 1)
  <2>1. steps \in SUBSET (0..Limit)
    OBVIOUS
  <2>2. ASSUME NEW i \in steps, NEW j \in 0..i PROVE j \in steps
    <3>1. j \in 0..Limit /\ \A h \in 0..j : h \in 0..i
      BY <1>1
    <3>2. QED
      BY <3>1
  <2> HIDE DEF steps
  <2>3. Limit \in Nat /\ 0 \in Nat
    BY <1>1
  <2>4. n \in Nat /\ steps = 0..(0 + n - 1)
    BY <2>1, <2>2, <2>3, InitialSegment
  <2>5. QED
    BY <2>4
<1>6. n < Limit
  <2> DEFINE f == [i \in steps |-> at[i]]
             T == 2..Limit
  <2>1. \A i \in steps : i \in 0..i /\ i \in Nat
    OBVIOUS
  <2>2. \A i \in steps : at[i] \in T
    BY <2>1 DEF Valid
  <2>3. ASSUME NEW i \in steps, NEW j \in steps, at[i] = at[j] PROVE i = j
    <3>1. ~(i < j)
      <4>1. ASSUME i < j PROVE FALSE
        <5>1. i \in 0..(j - 1) /\ j \in 0..j
          BY <2>1, <4>1
        <5>2. QED
          BY <2>3, <5>1
      <4>2. QED
        BY <4>1
    <3>2. ~(j < i)
      <4>1. ASSUME j < i PROVE FALSE
        <5>1. j \in 0..(i - 1) /\ i \in 0..i
          BY <2>1, <4>1
        <5>2. QED
          BY <2>3, <5>1
      <4>2. QED
        BY <4>1
    <3>3. QED
      BY <2>1, <3>1, <3>2
  <2>4. IsFiniteSet(T) /\ Cardinality(T) = Limit - 1
    <3>1. 2 \in Int /\ Limit \in Int
      BY <1>1
    <3>2. IsFiniteSet(T) /\ Cardinality(T) = IF 2 > Limit THEN 0 ELSE Limit - 2 + 1
      BY <3>1, FS_Interval
    <3>3. QED
      BY <1>1, <3>2
  <2> HIDE DEF steps, T
  <2>5. f \in [steps -> T]
    BY <2>2
  <2>6. f \in Injection(steps, T)
    BY <2>3, <2>5 DEF Injection, IsInjective
  <2> HIDE DEF f
  <2>7. Cardinality(steps) <= Cardinality(T)
    BY <2>4, <2>6, FS_Injection
  <2>8. QED
    BY <1>1, <1>5, <2>4, <2>7
<1>7. ~Valid(at[n])
  <2>1. Len(FirstRound(Start)) = n
    BY <1>4, <1>5
  <2>2. QED
    BY <2>1 DEF Acyclic, at
<1> HIDE DEF n
<1>8. m <= n
  <2>1. ASSUME m > n PROVE FALSE
    <3>1. n \in 0..(m - 1) /\ n + 1 \in 1..m
      BY <1>3, <1>5, <2>1
    <3>2. QED
      BY <1>2, <1>3, <1>7, <3>1
  <2>2. QED
    BY <1>3, <1>5, <2>1
<1>9. m >= n
  <2>1. ASSUME m < n PROVE FALSE
    <3>1. m \in 0..(n - 1) /\ m \in 0..m /\ m < Limit
      <4>1. m \in Nat /\ n \in Nat /\ Limit \in Nat
        BY <1>1, <1>3, <1>5
      <4>2. QED
        BY <1>6, <2>1, <4>1
    <3>2. Valid(at[m])
      BY <1>5, <3>1
    <3>3. Valid(cluster)
      BY <1>2, <3>1, <3>2
    <3>4. ~Circular
      BY <1>1, <1>3, <1>6, <2>1, <1>5 DEF Circular, m
    <3>5. QED
      BY <1>1, <1>3, <3>3, <3>4, InVolumeIsValid DEF ChainEnds
  <2>2. QED
    BY <1>3, <1>5, <2>1
<1>10. m = n
  BY <1>3, <1>5, <1>8, <1>9
<1>11. chain = [i \in 1..m |-> chain[i]]
  BY <1>3 DEF m
<1>12. \A i \in 1..m : chain[i] = at[i - 1]
  <2>1. \A i \in 1..m : i - 1 \in 0..(m - 1) /\ (i - 1) + 1 = i
    BY <1>3
  <2>2. QED
    BY <1>2, <2>1
<1>13. QED
  BY <1>4, <1>10, <1>11, <1>12

(* The clusters of a round are those of the volume.                        *)
LEMMA RoundType ==
  ASSUME volume \in Volumes, IsBoot(volume.bpb), NEW start \in Nat
  PROVE  Contents(FirstRound(start)) \in Seq(Slot)
<1> DEFINE at == Reached(start)
           steps == { i \in 0..Limit :
                        \A j \in 0..i : Valid(at[j]) /\ \A h \in 0..(j - 1) :
                                                         at[h] # at[j] }
           n == Cardinality(steps)
           round == FirstRound(start)
<1>1. TotalClusters(volume.bpb) \in Nat /\ Limit \in Nat
  BY Geometry DEF Limit
<1>2. \A i \in 0..Limit : at[i] \in Nat
  BY ReachedFacts
<1>3. round = [i \in 1..n |-> at[i - 1]]
  BY DEF FirstRound
<1> HIDE DEF at, round
<1>4. n \in Nat /\ steps = 0..(n - 1)
  <2>1. steps \in SUBSET (0..Limit)
    OBVIOUS
  <2>2. ASSUME NEW i \in steps, NEW j \in 0..i PROVE j \in steps
    <3>1. j \in 0..Limit /\ \A h \in 0..j : h \in 0..i
      BY <1>1
    <3>2. QED
      BY <3>1
  <2> HIDE DEF steps
  <2>3. n \in Nat /\ steps = 0..(0 + n - 1)
    BY <1>1, <2>1, <2>2, InitialSegment
  <2>4. QED
    BY <2>3
<1>5. ASSUME NEW i \in 1..n PROVE at[i - 1] \in Nat /\ Valid(at[i - 1])
  <2>1. i - 1 \in 0..(n - 1) /\ i - 1 \in 0..(i - 1)
    BY <1>4
  <2>2. i - 1 \in steps
    BY <1>4, <2>1
  <2>3. i - 1 \in 0..Limit /\ Valid(at[i - 1])
    BY <2>1, <2>2
  <2>4. QED
    BY <1>2, <2>3
<1> HIDE DEF n
<1>6. round \in [1..n -> Nat]
  BY <1>3, <1>5
<1>7. round \in Seq(Nat) /\ Len(round) = n
  BY <1>4, <1>6, SeqDef, LenProperties
<1>8. \A i \in 1..Len(round) : Valid(round[i])
  BY <1>3, <1>5, <1>7
<1>9. QED
  BY <1>7, <1>8, ContentsType DEF round

-----------------------------------------------------------------------------
(* Levels, counted from the root, which is no node.                        *)
LEMMA NodeLevels ==
  ASSUME NEW all \in Seq(NodeType), ParentsIn(all)
  PROVE  /\ LevelIn(all, 0, 0) = 0
         /\ \A k \in 1..Len(all) :
              LevelIn(all, 0, k) = 1 + LevelIn(all, 0, all[k].parent)
<1>1. PICK base \in Int : base = 0
  OBVIOUS
<1>2. /\ LevelIn(all, base, 0) = base
      /\ \A k \in 1..Len(all) :
           LevelIn(all, base, k) = 1 + LevelIn(all, base, all[k].parent)
  BY LevelFacts
<1>3. QED
  BY <1>1, <1>2
LEMMA SameNodeLevels ==
  ASSUME NEW all \in Seq(NodeType), ParentsIn(all),
         NEW more \in Seq(NodeType), ParentsIn(more), Len(all) <= Len(more),
         \A k \in 1..Len(all) : more[k].parent = all[k].parent
  PROVE  \A k \in 0..Len(all) : LevelIn(more, 0, k) = LevelIn(all, 0, k)
<1>1. PICK base \in Int : base = 0
  OBVIOUS
<1>2. \A k \in 0..Len(all) : LevelIn(more, base, k) = LevelIn(all, base, k)
  BY SameLevels
<1>3. QED
  BY <1>1, <1>2

-----------------------------------------------------------------------------
(* Directories.  The nodes inside a directory are made from the first of   *)
(* its entries, in their order; `rest` are those that are still to come.   *)
IsOf(n, e) == n.name = e.name /\ n.is_dir = e.is_dir /\ n.start = e.start
Lists(all, d, list, rest) ==
  /\ Cardinality(InsideOf(all, d)) + Len(rest) = Len(list)
  /\ \A k \in InsideOf(all, d) : IsOf(all[k], list[CountTo(InsideOf(all, d), k)])
  /\ \A i \in 1..Len(rest) : rest[i] = list[Cardinality(InsideOf(all, d)) + i]

(* Before its first node a directory has all of its entries to come.       *)
LEMMA ListsNothing ==
  ASSUME NEW all \in Seq(NodeType), ParentsIn(all),
         NEW list \in Seq(EntryType), NEW d \in Nat, d >= Len(all)
  PROVE  Lists(all, d, list, list)
<1>1. Len(all) \in Nat /\ Len(list) \in Nat
  BY LenProperties
<1>2. \A k \in 1..Len(all) : all[k].parent # d
  BY <1>1 DEF ParentsIn
<1>3. InsideOf(all, d) = {} /\ Cardinality(InsideOf(all, d)) = 0
  BY <1>2, FS_EmptySet DEF InsideOf
<1>4. QED
  BY <1>1, <1>3 DEF Lists

(* The next entry, of this directory or another.                           *)
LEMMA ListsNext ==
  ASSUME NEW all \in Seq(NodeType), NEW node \in NodeType,
         NEW d, node.parent = d,
         NEW list, NEW rest \in Seq(EntryType), rest # <<>>,
         IsOf(node, Head(rest)), Lists(all, d, list, rest)
  PROVE  Lists(Append(all, node), d, list, Tail(rest))
<1> DEFINE more == Append(all, node)
           n == Len(all)
           I == InsideOf(all, d)
           J == InsideOf(more, d)
           c == Cardinality(I)
<1>1. /\ more \in Seq(NodeType) /\ Len(more) = n + 1 /\ n \in Nat
      /\ \A i \in 1..n : more[i] = all[i]
      /\ more[n + 1] = node
  <2> HIDE DEF NodeType
  <2>1. QED
    BY AppendProperties, LenProperties
<1>2. I \in SUBSET (1..n) /\ IsFiniteSet(I) /\ c \in Nat
  BY InsideFacts
<1> HIDE DEF more
<1>3. J = I \cup {n + 1}
  <2>1. \A i \in 1..(n + 1) : i \in 1..n \/ i = n + 1
    BY <1>1
  <2>2. \A i \in 1..n : i \in 1..(n + 1)
    BY <1>1
  <2>3. n + 1 \in 1..(n + 1)
    BY <1>1
  <2>4. J = { k \in 1..(n + 1) : more[k].parent = d }
    BY <1>1 DEF InsideOf
  <2>5. I = { k \in 1..n : all[k].parent = d }
    BY DEF InsideOf
  <2> HIDE DEF I, J
  <2>6. QED
    BY <1>1, <2>1, <2>2, <2>3, <2>4, <2>5
<1>4. Cardinality(J) = c + 1
  <2>1. n + 1 \notin I
    BY <1>1, <1>2
  <2> HIDE DEF I, J
  <2>2. QED
    BY <1>2, <1>3, <2>1, FS_AddElement
<1>5. /\ Len(rest) \in Nat \ {0} /\ Len(Tail(rest)) = Len(rest) - 1
      /\ Head(rest) = rest[1]
      /\ \A i \in 1..(Len(rest) - 1) : Tail(rest)[i] = rest[i + 1]
  <2> HIDE DEF EntryType
  <2>1. QED
    BY HeadTailProperties, EmptySeq, LenProperties
<1>6. /\ c + Len(rest) = Len(list)
      /\ \A k \in I : IsOf(all[k], list[CountTo(I, k)])
      /\ \A i \in 1..Len(rest) : rest[i] = list[c + i]
  BY DEF Lists
<1>7. ASSUME NEW k \in J PROVE IsOf(more[k], list[CountTo(J, k)])
  <2>1. CASE k \in I
    <3>1. k \in 1..n
      BY <1>2, <2>1
    <3>2. { i \in J : i <= k } = { i \in I : i <= k }
      <4>1. ~(n + 1 <= k)
        BY <1>1, <3>1
      <4> HIDE DEF I, J
      <4>2. QED
        BY <1>3, <4>1
    <3>3. CountTo(J, k) = CountTo(I, k)
      BY <3>2 DEF CountTo
    <3>4. more[k] = all[k]
      BY <1>1, <3>1
    <3>5. QED
      BY <1>6, <2>1, <3>3, <3>4
  <2>2. CASE k = n + 1
    <3>1. J \in SUBSET (1..(n + 1))
      BY <1>1 DEF InsideOf
    <3>2. CountTo(J, n + 1) = c + 1
      <4>1. n + 1 \in Nat
        BY <1>1
      <4> HIDE DEF J
      <4>2. CountTo(J, n + 1) = Cardinality(J)
        BY <3>1, <4>1, Counting
      <4>3. QED
        BY <1>4, <4>2
    <3>3. rest[1] = list[c + 1]
      BY <1>5, <1>6
    <3>4. QED
      BY <1>1, <1>5, <2>2, <3>2, <3>3
  <2>3. QED
    <3> HIDE DEF I, J
    <3>1. QED
      BY <1>3, <2>1, <2>2
<1>8. ASSUME NEW i \in 1..Len(Tail(rest)) PROVE Tail(rest)[i] = list[c + 1 + i]
  <2>1. i \in 1..(Len(rest) - 1) /\ i + 1 \in 1..Len(rest) /\ c + (i + 1) = c + 1 + i
    BY <1>2, <1>5
  <2>2. rest[i + 1] = list[c + (i + 1)]
    BY <1>6, <2>1
  <2>3. QED
    BY <1>5, <2>1, <2>2
<1>9. (c + 1) + Len(Tail(rest)) = Len(list)
  BY <1>2, <1>5, <1>6
<1>10. Lists(more, d, list, Tail(rest))
  <2> HIDE DEF c
  <2>1. QED
    BY <1>4, <1>7, <1>8, <1>9 DEF Lists
<1>11. QED
  BY <1>10 DEF more

LEMMA ListsOther ==
  ASSUME NEW all \in Seq(NodeType), NEW node \in NodeType,
         NEW d, node.parent # d, NEW list, NEW rest, Lists(all, d, list, rest)
  PROVE  Lists(Append(all, node), d, list, rest)
<1> DEFINE more == Append(all, node)
           n == Len(all)
           I == InsideOf(all, d)
           J == InsideOf(more, d)
<1>1. /\ Len(more) = n + 1 /\ n \in Nat
      /\ \A i \in 1..n : more[i] = all[i]
      /\ more[n + 1] = node
  <2> HIDE DEF NodeType
  <2>1. QED
    BY AppendProperties, LenProperties
<1> HIDE DEF more
<1>2. J = I
  <2>1. \A i \in 1..(n + 1) : i \in 1..n \/ i = n + 1
    BY <1>1
  <2>2. \A i \in 1..n : i \in 1..(n + 1)
    BY <1>1
  <2>3. J = { k \in 1..(n + 1) : more[k].parent = d }
    BY <1>1 DEF InsideOf
  <2>4. I = { k \in 1..n : all[k].parent = d }
    BY DEF InsideOf
  <2> HIDE DEF I, J
  <2>5. QED
    BY <1>1, <2>1, <2>2, <2>3, <2>4
<1>3. \A k \in I : more[k] = all[k]
  BY <1>1 DEF InsideOf
<1>4. /\ Cardinality(I) + Len(rest) = Len(list)
      /\ \A k \in I : IsOf(all[k], list[CountTo(I, k)])
      /\ \A i \in 1..Len(rest) : rest[i] = list[Cardinality(I) + i]
  BY DEF Lists
<1> HIDE DEF I
<1>5. Lists(more, d, list, rest)
  BY <1>2, <1>3, <1>4 DEF Lists
<1>6. QED
  BY <1>5 DEF more

(* A location does not matter.                                             *)
LEMMA ListsSame ==
  ASSUME NEW all, NEW more, Len(more) = Len(all),
         \A k \in 1..Len(all) :
           /\ more[k].parent = all[k].parent /\ more[k].name = all[k].name
           /\ more[k].is_dir = all[k].is_dir /\ more[k].start = all[k].start,
         NEW d, NEW list, NEW rest, Lists(all, d, list, rest)
  PROVE  Lists(more, d, list, rest)
<1>1. InsideOf(more, d) = InsideOf(all, d)
  BY DEF InsideOf
<1>2. \A k \in InsideOf(all, d) : \A e : IsOf(all[k], e) => IsOf(more[k], e)
  BY DEF InsideOf, IsOf
<1>3. QED
  BY <1>1, <1>2 DEF Lists

StartOf(d) == IF d = Root THEN volume.bpb.root_cluster ELSE nodes[d].start
Whole(d) ==
  (d = Root /\ FatType(volume.bpb) # "Fat32") \/ Acyclic(StartOf(d))
IsListed(d) ==
  d = Root \/ (/\ nodes[d].is_dir /\ nodes[d].start >= 2
               /\ LevelIn(nodes, 0, d) <= MaxDepth)
IsOpen(d) == \E i \in 1..Len(stack) : stack[i].dir = d
Awaited(d) == pc = "chain" /\ d = Len(nodes)

(* Every directory on the stack is one level below the one before it and   *)
(* has the nodes of the entries that are no more to come; one that is to   *)
(* be listed and neither on the stack nor about to be has all of them.     *)
Dirs ==
  /\ ParentsIn(nodes)
  /\ \A i \in 1..Len(stack) :
       stack[i].dir \in 0..Len(nodes) /\ LevelIn(nodes, 0, stack[i].dir) = i - 1
  /\ \A i \in 1..Len(stack) :
       Whole(stack[i].dir) =>
         Lists(nodes, stack[i].dir, Entries(Listing(stack[i].dir)),
               stack[i].entries)
  /\ \A d \in 0..Len(nodes) :
       IsListed(d) /\ ~IsOpen(d) /\ ~Awaited(d) /\ Whole(d) =>
         Lists(nodes, d, Entries(Listing(d)), <<>>)
  /\ pc = "chain" =>
       /\ LevelIn(nodes, 0, Len(nodes)) = Len(stack)
       /\ nodes = <<>> => FatType(volume.bpb) = "Fat32"

DirInv ==
  /\ Inv
  /\ pc = "boot" \/ result = "Ok" => stack = <<>>
  /\ result = "Ok" => IsBoot(volume.bpb)
  /\ pc \in {"chain", "entry"} \/ result = "Ok" => Dirs

(* What a directory lists depends on the volume and its start only.        *)
LEMMA SameListing ==
  ASSUME volume' = volume, NEW d,
         d = Root \/ nodes'[d].start = nodes[d].start
  PROVE  Listing(d)' = Listing(d) /\ (Whole(d)' <=> Whole(d))
<1>1. \A x : FirstRound(x)' = FirstRound(x)
  BY DEF FirstRound, Reached, Valid, Limit
<1>2. \A x : Contents(x)' = Contents(x)
  BY DEF Contents
<1>3. \A x : Acyclic(x)' <=> Acyclic(x)
  BY DEF Acyclic, FirstRound, Reached, Valid, Limit
<1>4. CASE d = Root
  BY <1>1, <1>2, <1>3, <1>4 DEF Listing, Whole, StartOf
<1>5. CASE d # Root
  <2>1. PICK x : x = nodes[d].start /\ x = nodes'[d].start
    BY <1>5
  <2>2. Listing(d)' = Listing(d)
    BY <1>1, <1>2, <1>5, <2>1 DEF Listing
  <2>3. Whole(d)' <=> Whole(d)
    BY <1>3, <1>5, <2>1 DEF Whole, StartOf
  <2>4. QED
    BY <2>2, <2>3
<1>6. QED
  BY <1>4, <1>5

LEMMA DirsStay ==
  ASSUME Dirs, UNCHANGED <<volume, nodes, stack, pc>>
  PROVE  Dirs'
<1>1. \A d : Listing(d)' = Listing(d) /\ (Whole(d)' <=> Whole(d))
  BY SameListing
<1>2. \A d : (IsListed(d)' <=> IsListed(d)) /\ (IsOpen(d)' <=> IsOpen(d))
             /\ (Awaited(d)' <=> Awaited(d))
  BY DEF IsListed, IsOpen, Awaited
<1>3. QED
  BY <1>1, <1>2 DEF Dirs

(* No nodes: level 0 is the root's.                                        *)
LEMMA NoNodes ==
  /\ <<>> \in Seq(NodeType) /\ Len(<<>>) = 0
  /\ ParentsIn(<<>>) /\ LevelIn(<<>>, 0, 0) = 0
<1>1. <<>> \in Seq(NodeType) /\ Len(<<>>) = 0
  BY EmptySeq
<1>2. ParentsIn(<<>>)
  <2>1. \A k \in 1..Len(<<>>) : FALSE
    BY <1>1
  <2>2. QED
    BY <2>1 DEF ParentsIn
<1>3. QED
  BY <1>1, <1>2, NodeLevels

LEMMA ReadBpbKeepsDirs == ASSUME DirInv, ReadBpb, Inv' PROVE DirInv'
<1>1. /\ pc = "boot" /\ nodes = <<>> /\ stack = <<>> /\ result # "Ok"
      /\ UNCHANGED <<volume, nodes, result>> /\ pc' \in {"chain", "entry"}
      /\ volume \in Volumes
  BY DEF DirInv, Inv, ReadBpb, Typed
<1>2. CASE FatType(volume.bpb) = "Fat32"
  <2>1. pc' = "chain" /\ stack' = <<>> /\ nodes' = <<>>
    BY <1>1, <1>2 DEF ReadBpb
  <2>2. \A i \in 1..Len(<<>>) : FALSE
    BY NoNodes
  <2>3. \A d \in 0..Len(nodes') : Awaited(d)'
    BY <2>1, NoNodes DEF Awaited
  <2>4. ParentsIn(nodes') /\ LevelIn(nodes', 0, Len(nodes')) = Len(stack')
    BY <2>1, NoNodes
  <2>5. Dirs'
    BY <1>1, <1>2, <2>1, <2>2, <2>3, <2>4 DEF Dirs
  <2>6. QED
    BY <1>1, <2>5 DEF DirInv
<1>3. CASE FatType(volume.bpb) # "Fat32"
  <2> DEFINE list == Entries(volume.root_dir)
             frame == Frame(Root, list)
  <2>1. pc' = "entry" /\ stack' = <<frame>> /\ nodes' = <<>>
    BY <1>1, <1>3 DEF ReadBpb
  <2>2. list \in Seq(EntryType)
    <3>1. volume.root_dir \in Seq(Slot)
      BY <1>1, VolumesAssumption DEF IsVolume
    <3>2. QED
      BY <3>1, EntriesType
  <2>3. frame.dir = 0 /\ frame.entries = list
    BY DEF Frame, Root
  <2>4. Lists(<<>>, 0, list, list)
    <3>1. 0 \in Nat /\ 0 >= Len(<<>>)
      BY NoNodes
    <3> HIDE DEF list
    <3>2. QED
      BY <2>2, <3>1, NoNodes, ListsNothing
  <2>5. Listing(0) = volume.root_dir /\ Listing(0)' = volume.root_dir
    BY <1>1, <1>3 DEF Listing, Root
  <2> HIDE DEF frame
  <2>6. Len(stack') = 1 /\ stack'[1] = frame
    BY <2>1
  <2> HIDE DEF list
  <2>7. \A i \in 1..Len(stack') : i = 1 /\ stack'[i] = frame
    BY <2>6
  <2>8. \A d \in 0..Len(nodes') : d = 0 /\ IsOpen(d)'
    <3>1. \A d \in 0..Len(nodes') : d = 0
      BY <2>1, NoNodes
    <3>2. 1 \in 1..Len(stack')
      BY <2>6
    <3>3. QED
      BY <2>3, <2>6, <3>1, <3>2 DEF IsOpen
  <2>9. 0 \in 0..Len(nodes')
    BY <2>1, NoNodes
  <2>10. Entries(Listing(0))' = list
    BY <2>5 DEF list
  <2>11. \A i \in 1..Len(stack') :
           /\ stack'[i].dir \in 0..Len(nodes')
           /\ LevelIn(nodes', 0, stack'[i].dir) = i - 1
    BY <2>1, <2>3, <2>7, <2>9, NoNodes
  <2>12. \A i \in 1..Len(stack') :
           Lists(nodes', stack'[i].dir, Entries(Listing(stack[i].dir))',
                 stack'[i].entries)
    BY <2>1, <2>3, <2>4, <2>7, <2>10
  <2>13. Dirs'
    BY <2>1, <2>8, <2>11, <2>12, NoNodes DEF Dirs
  <2>14. QED
    BY <1>1, <2>13 DEF DirInv
<1>4. QED
  BY <1>2, <1>3

LEMMA ListDirectoryKeepsDirs == ASSUME DirInv, ListDirectory, Inv' PROVE DirInv'
<1> DEFINE n == Len(nodes)
           m == Len(stack)
           list == Entries(Contents(chain))
           frame == Frame(n, list)
<1>1. /\ pc = "chain" /\ pc' = "entry" /\ Typed /\ Followed /\ ChainEnds
      /\ ~ForFile /\ UNCHANGED <<volume, nodes, result>> /\ result # "Ok"
      /\ stack' = Append(stack, frame) /\ Dirs
      /\ IsBoot(volume.bpb)
  BY DEF DirInv, Inv, ListDirectory, ChainEnds, Typed
<1>2. /\ n \in Nat /\ m \in Nat /\ nodes \in Seq(NodeType)
      /\ stack \in Seq(FrameType)
  BY <1>1, LenProperties DEF Typed
<1>3. list \in Seq(EntryType)
  <2>1. Contents(chain) \in Seq(Slot)
    BY <1>1, ContentsType DEF Typed, Followed
  <2>2. QED
    BY <2>1, EntriesType
<1>4. ASSUME Whole(n) PROVE Entries(Listing(n)) = list
  <2>1. CASE nodes = <<>>
    <3>1. n = Root /\ FatType(volume.bpb) = "Fat32"
      BY <1>1, <2>1 DEF Root, Dirs
    <3>2. Start = volume.bpb.root_cluster /\ Acyclic(Start)
      BY <1>4, <2>1, <3>1 DEF Start, Whole, StartOf
    <3>3. Start \in Nat
      BY <1>1, <3>2, VolumesAssumption DEF Typed, IsVolume, Bpb
    <3>4. chain = FirstRound(Start)
      BY <1>1, <3>2, <3>3, WholeChain
    <3>5. Listing(n) = Contents(FirstRound(volume.bpb.root_cluster))
      BY <3>1 DEF Listing
    <3>6. QED
      BY <3>2, <3>4, <3>5
  <2>2. CASE nodes # <<>>
    <3>1. n \in 1..n /\ n # Root
      BY <1>2, <2>2, EmptySeq DEF Root
    <3>2. nodes[n] \in NodeType
      BY <1>2, <3>1, ElementOfSeq
    <3>3. Start = nodes[n].start /\ Start \in Nat
      BY <2>2, <3>2 DEF Start, This, NodeType
    <3>4. Acyclic(Start)
      BY <1>4, <3>1, <3>3 DEF Whole, StartOf
    <3>5. chain = FirstRound(Start)
      BY <1>1, <3>3, <3>4, WholeChain
    <3>6. Listing(n) = Contents(FirstRound(nodes[n].start))
      BY <3>1 DEF Listing
    <3>7. QED
      BY <3>3, <3>5, <3>6
  <2>3. QED
    BY <2>1, <2>2
<1>5. frame.dir = n /\ frame.entries = list /\ frame \in FrameType
  BY <1>2, <1>3 DEF Frame, FrameType
<1>6. Lists(nodes, n, list, list)
  BY <1>1, <1>2, <1>3, ListsNothing DEF Dirs
<1> HIDE DEF list, frame
<1>7. /\ Len(stack') = m + 1 /\ stack'[m + 1] = frame
      /\ \A i \in 1..m : stack'[i] = stack[i]
  <2> HIDE DEF FrameType
  <2>1. QED
    BY <1>1, <1>2, <1>5, AppendProperties
<1>8. \A i \in 1..Len(stack') : i \in 1..m \/ i = m + 1
  BY <1>2, <1>7
<1>9. \A d : Listing(d)' = Listing(d) /\ (Whole(d)' <=> Whole(d))
  BY <1>1, SameListing
<1>10. ASSUME NEW i \in 1..Len(stack')
       PROVE  /\ stack'[i].dir \in 0..n
              /\ LevelIn(nodes, 0, stack'[i].dir) = i - 1
              /\ Whole(stack'[i].dir) =>
                   Lists(nodes, stack'[i].dir, Entries(Listing(stack'[i].dir)),
                         stack'[i].entries)
  <2>1. CASE i \in 1..m
    BY <1>1, <1>7, <2>1 DEF Dirs
  <2>2. CASE i = m + 1
    <3>1. stack'[i] = frame /\ stack'[i].dir = n /\ stack'[i].entries = list
      BY <1>5, <1>7, <2>2
    <3>2. n \in 0..n /\ i - 1 = m /\ LevelIn(nodes, 0, n) = m
      BY <1>1, <1>2, <2>2 DEF Dirs
    <3>3. QED
      BY <1>4, <1>6, <3>1, <3>2
  <2>3. QED
    BY <1>8, <2>1, <2>2
<1>11. ASSUME NEW d \in 0..n, IsListed(d), ~IsOpen(d)', Whole(d)
       PROVE  Lists(nodes, d, Entries(Listing(d)), <<>>)
  <2>1. d # n
    <3>1. m + 1 \in 1..Len(stack')
      BY <1>2, <1>7
    <3>2. QED
      BY <1>5, <1>7, <1>11, <3>1 DEF IsOpen
  <2>2. ~IsOpen(d)
    <3>1. \A i \in 1..m : i \in 1..Len(stack')
      BY <1>2, <1>7
    <3>2. QED
      BY <1>7, <1>11, <3>1 DEF IsOpen
  <2>3. ~Awaited(d)
    BY <2>1 DEF Awaited
  <2>4. QED
    BY <1>1, <1>11, <2>2, <2>3 DEF Dirs
<1>12. \A d : IsListed(d)' <=> IsListed(d)
  BY <1>1 DEF IsListed
<1>13. \A i \in 1..Len(stack') :
         /\ Listing(stack[i].dir)' = Listing(stack'[i].dir)
         /\ Whole(stack[i].dir)' <=> Whole(stack'[i].dir)
  <2> TAKE i \in 1..Len(stack')
  <2>1. PICK d : d = stack'[i].dir
    OBVIOUS
  <2>2. QED
    BY <1>9, <2>1
<1>14. Dirs'
  BY <1>1, <1>9, <1>10, <1>11, <1>12, <1>13 DEF Dirs
<1>15. QED
  BY <1>1, <1>14 DEF DirInv

LEMMA LocateFileKeepsDirs == ASSUME DirInv, LocateFile, Inv' PROVE DirInv'
<1> DEFINE n == Len(nodes)
<1>1. /\ pc = "chain" /\ pc' = "entry" /\ Typed /\ ForFile
      /\ UNCHANGED <<volume, stack, result>> /\ result # "Ok" /\ Dirs
      /\ \/ nodes' = nodes
         \/ nodes' = [nodes EXCEPT ![n].location = cluster_abs(chain[1])]
  BY DEF DirInv, Inv, LocateFile, ChainEnds, Typed
<1>2. nodes \in Seq(NodeType) /\ n \in Nat /\ n \in 1..n
  <2>1. nodes # <<>> /\ nodes \in Seq(NodeType)
    BY <1>1 DEF ForFile, Typed
  <2>2. QED
    BY <2>1, EmptySeq, LenProperties
<1>3. /\ nodes' \in Seq(NodeType) /\ Len(nodes') = n
      /\ \A k \in 1..n :
           /\ nodes'[k].parent = nodes[k].parent /\ nodes'[k].name = nodes[k].name
           /\ nodes'[k].is_dir = nodes[k].is_dir
           /\ nodes'[k].start = nodes[k].start
  <2>1. nodes' \in Seq(NodeType)
    BY DEF Inv, Typed
  <2>2. CASE nodes' = nodes
    BY <2>1, <2>2
  <2>3. CASE nodes' = [nodes EXCEPT ![n].location = cluster_abs(chain[1])]
    <3> DEFINE loc == cluster_abs(chain[1])
               here == [nodes[n] EXCEPT !.location = loc]
    <3>1. nodes' = [nodes EXCEPT ![n] = here]
      BY <2>3
    <3>2. nodes[n] \in NodeType
      BY <1>2, ElementOfSeq
    <3>3. DOMAIN nodes = 1..n /\ DOMAIN nodes' = 1..Len(nodes')
      BY <1>2, <2>1, LenProperties
    <3>4. /\ here.parent = nodes[n].parent /\ here.name = nodes[n].name
          /\ here.is_dir = nodes[n].is_dir /\ here.start = nodes[n].start
      BY <3>2 DEF NodeType
    <3> HIDE DEF here, n
    <3>5. DOMAIN nodes' = DOMAIN nodes
      BY <3>1
    <3>6. \A k \in 1..n : nodes'[k] = IF k = n THEN here ELSE nodes[k]
      BY <3>1, <3>3
    <3>7. Len(nodes') = n
      <4>1. Len(nodes') \in Nat /\ Len(nodes) \in Nat
        BY <1>2, <2>1, LenProperties
      <4>2. 1..Len(nodes') = 1..n
        BY <3>3, <3>5
      <4>3. QED
        BY <1>2, <4>1, <4>2
    <3>8. QED
      BY <2>1, <3>4, <3>6, <3>7
  <2>4. QED
    BY <1>1, <2>2, <2>3
<1>4. ParentsIn(nodes')
  BY <1>1, <1>3 DEF Dirs, ParentsIn
<1>5. \A k \in 0..n : LevelIn(nodes', 0, k) = LevelIn(nodes, 0, k)
  BY <1>1, <1>2, <1>3, <1>4, SameNodeLevels DEF Dirs
<1>6. \A d, list, rest : Lists(nodes, d, list, rest) => Lists(nodes', d, list, rest)
  <2> HIDE DEF n
  <2>1. \A k \in 1..Len(nodes) :
           /\ nodes'[k].parent = nodes[k].parent /\ nodes'[k].name = nodes[k].name
           /\ nodes'[k].is_dir = nodes[k].is_dir
           /\ nodes'[k].start = nodes[k].start
    BY <1>3 DEF n
  <2>2. Len(nodes') = Len(nodes)
    BY <1>3 DEF n
  <2>3. QED
    BY <2>1, <2>2, ListsSame
<1>7. \A d \in 0..n : Listing(d)' = Listing(d) /\ (Whole(d)' <=> Whole(d))
  <2>1. \A d \in 0..n : d = Root \/ d \in 1..n
    BY <1>2 DEF Root
  <2>2. QED
    BY <1>1, <1>3, <2>1, SameListing
<1>8. \A d \in 0..n : IsListed(d)' <=> IsListed(d)
  <2>1. \A d \in 0..n : d = Root \/ d \in 1..n
    BY <1>2 DEF Root
  <2>2. QED
    BY <1>3, <1>5, <2>1 DEF IsListed
<1>9. \A d \in 0..n : IsOpen(d)' <=> IsOpen(d)
  BY <1>1 DEF IsOpen
<1>10. \A d \in 0..n : IsListed(d) /\ Awaited(d) => FALSE
  <2>1. ~nodes[n].is_dir /\ n # Root
    BY <1>1, <1>2 DEF ForFile, This, Root
  <2>2. QED
    BY <2>1 DEF IsListed, Awaited
<1>11. ASSUME NEW i \in 1..Len(stack)
       PROVE  /\ stack[i].dir \in 0..n
              /\ LevelIn(nodes', 0, stack[i].dir) = i - 1
              /\ Whole(stack[i].dir)' =>
                   Lists(nodes', stack[i].dir, Entries(Listing(stack[i].dir))',
                         stack[i].entries)
  <2>1. PICK d : d = stack[i].dir /\ d \in 0..n
    BY <1>1 DEF Dirs
  <2>2. stack'[i].dir = d
    BY <1>1, <2>1
  <2>3. /\ LevelIn(nodes, 0, d) = i - 1
        /\ Whole(d) => Lists(nodes, d, Entries(Listing(d)), stack[i].entries)
    BY <1>1, <2>1 DEF Dirs
  <2>4. Whole(d)' => Lists(nodes', d, Entries(Listing(d))', stack[i].entries)
    BY <1>6, <1>7, <2>1, <2>3
  <2>5. QED
    BY <1>5, <2>1, <2>2, <2>3, <2>4
<1>12. ASSUME NEW d \in 0..n, IsListed(d), ~IsOpen(d), Whole(d)
       PROVE  Lists(nodes', d, Entries(Listing(d))', <<>>)
  <2>1. ~Awaited(d)
    BY <1>10, <1>12
  <2>2. Lists(nodes, d, Entries(Listing(d)), <<>>)
    BY <1>1, <1>12, <2>1 DEF Dirs
  <2>3. QED
    BY <1>6, <1>7, <2>2
<1>13. Dirs'
  BY <1>1, <1>3, <1>4, <1>7, <1>8, <1>9, <1>11, <1>12 DEF Dirs
<1>14. QED
  BY <1>1, <1>13 DEF DirInv

LEMMA NextEntryKeepsDirs == ASSUME DirInv, NextEntry, Inv' PROVE DirInv'
<1> DEFINE n == Len(nodes)
           m == Len(stack)
           top == stack[m]
           e == Head(top.entries)
           node == IF e.is_dir THEN DirNode(e) ELSE FileNode(e)
           below == [top EXCEPT !.entries = Tail(@)]
<1>1. /\ pc = "entry" /\ Typed /\ Dirs /\ Inv
      /\ stack # <<>> /\ top.entries # <<>>
      /\ nodes' = Append(nodes, node) /\ stack' = Append(Front(stack), below)
      /\ IF HasChain(e) THEN pc' = "chain" ELSE pc' = "entry"
      /\ UNCHANGED <<volume, result>> /\ result # "Ok"
  BY DEF DirInv, Inv, NextEntry, Rest, Top, Typed
<1>2. /\ m \in Nat \ {0} /\ top \in FrameType /\ Front(stack) \in Seq(FrameType)
      /\ Len(Front(stack)) = m - 1
      /\ \A i \in 1..(m - 1) : Front(stack)[i] = stack[i]
  BY <1>1, FrontFacts DEF Typed
<1>3. e \in EntryType /\ Top = top
  BY <1>1, NextOfTop DEF Top
<1> HIDE DEF e
<1>4. /\ node \in NodeType /\ node.parent = top.dir /\ IsOf(node, e)
      /\ node.is_dir = e.is_dir /\ node.start = e.start
  <2>1. top.dir \in Nat
    BY <1>2 DEF FrameType
  <2>2. QED
    BY <1>3, <2>1 DEF NodeType, EntryType, DirNode, FileNode, IsOf
<1>5. /\ top.entries \in Seq(EntryType)
      /\ below.dir = top.dir /\ below.entries = Tail(top.entries)
      /\ below \in FrameType
  <2>1. top.entries \in Seq(EntryType)
    BY <1>2 DEF FrameType
  <2>2. Tail(top.entries) \in Seq(EntryType)
    <3> HIDE DEF EntryType, top
    <3>1. QED
      BY <1>1, <2>1, HeadTailProperties
  <2>3. QED
    BY <1>2, <2>1, <2>2 DEF FrameType
<1> HIDE DEF node, below
<1>6. /\ nodes \in Seq(NodeType) /\ n \in Nat
      /\ nodes' \in Seq(NodeType) /\ Len(nodes') = n + 1
      /\ \A k \in 1..n : nodes'[k] = nodes[k]
      /\ nodes'[n + 1] = node
  <2>1. nodes \in Seq(NodeType)
    BY <1>1 DEF Typed
  <2> HIDE DEF NodeType
  <2>2. QED
    BY <1>1, <1>4, <2>1, AppendProperties, LenProperties
<1>7. /\ Len(stack') = m /\ stack'[m] = below
      /\ \A i \in 1..(m - 1) : stack'[i] = stack[i]
  <2> DEFINE front == Front(stack)
  <2>1. front \in Seq(FrameType) /\ Len(front) = m - 1
    BY <1>2
  <2>2. stack' = Append(front, below)
    BY <1>1
  <2> HIDE DEF front, FrameType
  <2>3. /\ Len(stack') = (m - 1) + 1 /\ stack'[(m - 1) + 1] = below
        /\ \A i \in 1..(m - 1) : stack'[i] = front[i]
    BY <1>5, <2>1, <2>2, AppendProperties
  <2>4. (m - 1) + 1 = m
    BY <1>2
  <2>5. QED
    BY <1>2, <2>3, <2>4 DEF front
<1>8. /\ top.dir \in 0..n /\ LevelIn(nodes, 0, top.dir) = m - 1
      /\ Whole(top.dir) =>
           Lists(nodes, top.dir, Entries(Listing(top.dir)), top.entries)
  <2>1. m \in 1..Len(stack)
    BY <1>2
  <2>2. QED
    BY <1>1, <2>1 DEF Dirs
<1>9. ParentsIn(nodes')
  <2>1. \A k \in 1..n : nodes[k].parent \in 0..(k - 1)
    BY <1>1 DEF Dirs, ParentsIn
  <2>2. node.parent \in 0..((n + 1) - 1)
    BY <1>4, <1>6, <1>8
  <2>3. \A k \in 1..(n + 1) : k \in 1..n \/ k = n + 1
    BY <1>6
  <2>4. QED
    BY <1>6, <2>1, <2>2, <2>3 DEF ParentsIn
<1>10. \A k \in 0..n : LevelIn(nodes', 0, k) = LevelIn(nodes, 0, k)
  <2>1. /\ ParentsIn(nodes) /\ Len(nodes) <= Len(nodes')
        /\ \A k \in 1..Len(nodes) : nodes'[k].parent = nodes[k].parent
    BY <1>1, <1>6 DEF Dirs
  <2>2. QED
    BY <1>6, <1>9, <2>1, SameNodeLevels
<1>11. LevelIn(nodes', 0, n + 1) = m
  <2>1. n + 1 \in 1..Len(nodes')
    BY <1>6
  <2>2. LevelIn(nodes', 0, n + 1) = 1 + LevelIn(nodes', 0, top.dir)
    BY <1>4, <1>6, <1>9, <2>1, NodeLevels
  <2>3. QED
    BY <1>2, <1>8, <1>10, <2>2
<1>12. \A d \in 0..n : Listing(d)' = Listing(d) /\ (Whole(d)' <=> Whole(d))
  <2>1. \A d \in 0..n : d = Root \/ d \in 1..n
    BY <1>6 DEF Root
  <2>2. QED
    BY <1>1, <1>6, <2>1, SameListing
<1>13. \A d \in 0..n : IsListed(d)' <=> IsListed(d)
  <2>1. \A d \in 0..n : d = Root \/ d \in 1..n
    BY <1>6 DEF Root
  <2>2. QED
    BY <1>6, <1>10, <2>1 DEF IsListed
<1>14. \A d, list, rest : d # top.dir /\ Lists(nodes, d, list, rest)
                            => Lists(nodes', d, list, rest)
  BY <1>1, <1>4, <1>6, ListsOther
<1>15. Whole(top.dir) =>
         Lists(nodes', top.dir, Entries(Listing(top.dir)), Tail(top.entries))
  <2> SUFFICES ASSUME Whole(top.dir)
               PROVE  Lists(nodes', top.dir, Entries(Listing(top.dir)),
                            Tail(top.entries))
    OBVIOUS
  <2>1. PICK d : d = top.dir
    OBVIOUS
  <2> DEFINE list == Entries(Listing(d))
             rest == top.entries
  <2>2. /\ node.parent = d /\ rest \in Seq(EntryType) /\ rest # <<>>
        /\ IsOf(node, Head(rest)) /\ Lists(nodes, d, list, rest)
    BY <1>1, <1>4, <1>5, <1>8, <2>1 DEF e
  <2> HIDE DEF list, rest
  <2>3. Lists(Append(nodes, node), d, list, Tail(rest))
    BY <1>4, <1>6, <2>2, ListsNext
  <2>4. QED
    BY <1>1, <2>1, <2>3 DEF list, rest
<1>16. ASSUME NEW i \in 1..m
       PROVE  /\ stack'[i].dir \in 0..n
              /\ LevelIn(nodes', 0, stack'[i].dir) = i - 1
              /\ Whole(stack[i].dir)' =>
                   Lists(nodes', stack'[i].dir, Entries(Listing(stack[i].dir))',
                         stack'[i].entries)
  <2>1. CASE i = m
    <3>1. stack'[i].dir = top.dir /\ stack'[i].entries = Tail(top.entries)
      BY <1>5, <1>7, <2>1
    <3>2. PICK d : d = top.dir /\ d = stack'[i].dir
      BY <3>1
    <3>3. d \in 0..n /\ LevelIn(nodes', 0, d) = i - 1
      BY <1>8, <1>10, <2>1, <3>2
    <3>4. Whole(d)' => Lists(nodes', d, Entries(Listing(d))', Tail(top.entries))
      BY <1>12, <1>15, <3>2, <3>3
    <3>5. QED
      BY <3>1, <3>2, <3>3, <3>4
  <2>2. CASE i # m
    <3>1. i \in 1..(m - 1) /\ i \in 1..Len(stack)
      BY <1>2, <2>2
    <3>2. stack'[i] = stack[i]
      BY <1>7, <3>1
    <3>3. PICK d : d = stack[i].dir /\ d = stack'[i].dir
      BY <3>2
    <3>4. /\ d \in 0..n /\ LevelIn(nodes, 0, d) = i - 1
          /\ Whole(d) => Lists(nodes, d, Entries(Listing(d)), stack[i].entries)
      BY <1>1, <3>1, <3>3 DEF Dirs
    <3>5. d # top.dir
      <4>1. i - 1 # m - 1
        BY <1>2, <3>1, <2>2
      <4>2. QED
        BY <1>8, <3>4, <4>1
    <3>6. Whole(d)' => Lists(nodes', d, Entries(Listing(d))', stack'[i].entries)
      BY <1>12, <1>14, <3>2, <3>4, <3>5
    <3>7. QED
      BY <1>10, <3>3, <3>4, <3>6
  <2>3. QED
    BY <2>1, <2>2
<1>17. ASSUME NEW d \in 0..(n + 1), IsListed(d)', ~IsOpen(d)', ~Awaited(d)',
              Whole(d)'
       PROVE  Lists(nodes', d, Entries(Listing(d))', <<>>)
  <2>1. CASE d = n + 1
    <3>1. d # Root /\ nodes'[d] = node
      BY <1>6, <2>1 DEF Root
    <3>2. e.is_dir /\ e.start >= 2 /\ m <= MaxDepth
      BY <1>4, <1>11, <1>17, <2>1, <3>1 DEF IsListed
    <3>3. HasChain(e)
      BY <1>2, <3>2, SizesAssumption DEF HasChain, Depth
    <3>4. Awaited(d)'
      BY <1>1, <1>6, <2>1, <3>3 DEF Awaited
    <3>5. QED
      BY <1>17, <3>4
  <2>2. CASE d \in 0..n
    <3>1. m \in 1..Len(stack')
      BY <1>2, <1>7
    <3>2. d # top.dir
      BY <1>5, <1>7, <1>17, <3>1 DEF IsOpen
    <3>3. ~IsOpen(d)
      <4>1. ASSUME NEW i \in 1..m, stack[i].dir = d PROVE FALSE
        <5>1. i # m
          BY <3>2, <4>1
        <5>2. i \in 1..(m - 1) /\ i \in 1..Len(stack')
          BY <1>2, <1>7, <5>1
        <5>3. QED
          BY <1>7, <1>17, <4>1, <5>2 DEF IsOpen
      <4>2. QED
        BY <4>1 DEF IsOpen
    <3>4. ~Awaited(d)
      BY <1>1 DEF Awaited
    <3>5. Lists(nodes, d, Entries(Listing(d)), <<>>)
      BY <1>1, <1>12, <1>13, <1>17, <2>2, <3>3, <3>4 DEF Dirs
    <3>6. QED
      BY <1>12, <1>14, <2>2, <3>2, <3>5
  <2>3. QED
    BY <1>6, <2>1, <2>2
<1>18. \A i \in 1..m : stack'[i].dir \in 0..(n + 1)
  <2>1. \A x \in 0..n : x \in 0..(n + 1)
    BY <1>6
  <2>2. QED
    BY <1>16, <2>1
<1>19. nodes' # <<>>
  BY <1>6, EmptySeq
<1>20. Dirs'
  BY <1>6, <1>7, <1>9, <1>11, <1>16, <1>17, <1>18, <1>19 DEF Dirs
<1>21. QED
  BY <1>1, <1>20 DEF DirInv

LEMMA ReturnKeepsDirs == ASSUME DirInv, Return, Inv' PROVE DirInv'
<1> DEFINE m == Len(stack)
<1>1. /\ pc = "entry" /\ Typed /\ Dirs /\ stack # <<>> /\ stack' = Front(stack)
      /\ stack[m].entries = <<>>
      /\ IF m = 1 THEN pc' = "done" /\ result' = "Ok" ELSE UNCHANGED <<pc, result>>
      /\ UNCHANGED <<volume, nodes>> /\ result # "Ok" /\ IsBoot(volume.bpb)
  BY DEF DirInv, Inv, Return, Stop, Top, Typed
<1>2. /\ m \in Nat \ {0} /\ Len(stack') = m - 1 /\ stack' \in Seq(FrameType)
      /\ \A i \in 1..(m - 1) : stack'[i] = stack[i]
  BY <1>1, FrontFacts DEF Typed
<1>3. \A d : Listing(d)' = Listing(d) /\ (Whole(d)' <=> Whole(d))
  BY <1>1, SameListing
<1>4. \A d : IsListed(d)' <=> IsListed(d)
  BY <1>1 DEF IsListed
<1>5. pc' # "chain"
  BY <1>1
<1>6. \A i \in 1..(m - 1) : i \in 1..m
  BY <1>2
<1>7. ASSUME NEW i \in 1..(m - 1)
      PROVE  /\ stack'[i].dir \in 0..Len(nodes)
             /\ LevelIn(nodes, 0, stack'[i].dir) = i - 1
             /\ Whole(stack[i].dir)' =>
                  Lists(nodes, stack'[i].dir, Entries(Listing(stack[i].dir))',
                        stack'[i].entries)
  <2>1. PICK d : d = stack[i].dir /\ d = stack'[i].dir
    BY <1>2
  <2>2. /\ d \in 0..Len(nodes) /\ LevelIn(nodes, 0, d) = i - 1
        /\ Whole(d) => Lists(nodes, d, Entries(Listing(d)), stack[i].entries)
    BY <1>1, <1>6, <2>1 DEF Dirs
  <2>3. Whole(d)' => Lists(nodes, d, Entries(Listing(d))', stack'[i].entries)
    BY <1>2, <1>3, <2>2
  <2>4. QED
    BY <2>1, <2>2, <2>3
<1>8. ASSUME NEW d \in 0..Len(nodes), IsListed(d), ~IsOpen(d)', Whole(d)
      PROVE  Lists(nodes, d, Entries(Listing(d)), <<>>)
  <2>1. CASE d = stack[m].dir
    <3>1. m \in 1..Len(stack)
      BY <1>2
    <3>2. QED
      BY <1>1, <1>8, <2>1, <3>1 DEF Dirs
  <2>2. CASE d # stack[m].dir
    <3>1. ~IsOpen(d)
      <4>1. ASSUME NEW i \in 1..m, stack[i].dir = d PROVE FALSE
        <5>1. i # m
          BY <2>2, <4>1
        <5>2. i \in 1..(m - 1)
          BY <1>2, <5>1
        <5>3. QED
          BY <1>2, <1>8, <4>1, <5>2 DEF IsOpen
      <4>2. QED
        BY <4>1 DEF IsOpen
    <3>2. ~Awaited(d)
      BY <1>1 DEF Awaited
    <3>3. QED
      BY <1>1, <1>8, <3>1, <3>2 DEF Dirs
  <2>3. QED
    BY <2>1, <2>2
<1>9. Dirs'
  BY <1>1, <1>2, <1>3, <1>4, <1>5, <1>7, <1>8 DEF Dirs
<1>10. m = 1 => stack' = <<>>
  BY <1>2, EmptySeq
<1>11. QED
  BY <1>1, <1>9, <1>10 DEF DirInv

LEMMA NextDirInv == DirInv /\ Inv' /\ [Next]_vars => DirInv'
<1> SUFFICES ASSUME DirInv, Inv', [Next]_vars PROVE DirInv'
  OBVIOUS
<1>1. CASE BadBootSector \/ ReadFails
  BY <1>1 DEF BadBootSector, ReadFails, Stop, DirInv
<1>2. CASE FollowChain
  <2>1. UNCHANGED <<volume, nodes, stack, pc, result>> /\ pc = "chain"
    BY <1>2 DEF FollowChain
  <2>2. Dirs'
    BY <2>1, DirsStay DEF DirInv
  <2>3. QED
    BY <2>1, <2>2 DEF DirInv
<1>3. CASE UNCHANGED vars
  <2>1. UNCHANGED <<volume, nodes, stack, pc, result>>
    BY <1>3 DEF vars
  <2>2. Dirs => Dirs'
    BY <2>1, DirsStay
  <2>3. QED
    BY <2>1, <2>2 DEF DirInv
<1>4. QED
  BY <1>1, <1>2, <1>3, ReadBpbKeepsDirs, ListDirectoryKeepsDirs,
     LocateFileKeepsDirs, NextEntryKeepsDirs, ReturnKeepsDirs DEF Next

(* What a directory lists are slots.                                       *)
LEMMA ListingType ==
  ASSUME volume \in Volumes, IsBoot(volume.bpb), nodes \in Seq(NodeType),
         NEW d \in 0..Len(nodes)
  PROVE  Listing(d) \in Seq(Slot)
<1>1. volume.root_dir \in Seq(Slot) /\ volume.bpb.root_cluster \in Nat
  BY VolumesAssumption DEF IsVolume, Bpb
<1>2. CASE d = Root
  BY <1>1, <1>2, RoundType DEF Listing
<1>3. CASE d # Root
  <2>1. d \in 1..Len(nodes)
    <3>1. Len(nodes) \in Nat
      BY LenProperties
    <3>2. QED
      BY <1>3, <3>1 DEF Root
  <2>2. nodes[d] \in NodeType
    BY <2>1, ElementOfSeq
  <2>3. nodes[d].start \in Nat
    BY <2>2 DEF NodeType
  <2>4. QED
    BY <1>3, <2>3, RoundType DEF Listing
<1>4. QED
  BY <1>2, <1>3

LEMMA DirInvImplies == DirInv => DirectoriesComplete
<1> SUFFICES ASSUME DirInv, result = "Ok", NEW d \in 0..Len(nodes),
                    LET slots == Before(Listing(d))
                        start == IF d = Root THEN volume.bpb.root_cluster
                                             ELSE nodes[d].start
                    IN  /\ d = Root \/ (/\ nodes[d].is_dir /\ start >= 2
                                        /\ Level(d) <= MaxDepth)
                        /\ Tidy(slots)
                        /\ \/ d = Root /\ FatType(volume.bpb) # "Fat32"
                           \/ Acyclic(start)
             PROVE  LET slots == Before(Listing(d))
                        inside == { k \in DOMAIN nodes : nodes[k].parent = d }
                    IN  /\ Cardinality(inside) = Cardinality(ListedSlots(slots))
                        /\ \A p \in ListedSlots(slots) :
                             \E k \in inside :
                               /\ nodes[k].name = GivenName(slots, p)
                               /\ nodes[k].is_dir = (slots[p].kind = "dir")
                               /\ nodes[k].start = slots[p].start
                               /\ Cardinality({ q \in ListedSlots(slots) : q < p })
                                    = Cardinality({ j \in inside : j < k })
  BY DEF DirectoriesComplete
<1> DEFINE slots == Before(Listing(d))
           L == ListedSlots(slots)
           E == Entries(Listing(d))
           I == InsideOf(nodes, d)
<1>1. /\ volume \in Volumes /\ IsBoot(volume.bpb) /\ nodes \in Seq(NodeType)
      /\ pc = "done" /\ stack = <<>> /\ Dirs
  BY DEF DirInv, Inv, Typed
<1>2. Tidy(slots) /\ Listing(d) \in Seq(Slot)
  BY <1>1, ListingType
<1>3. /\ L \in SUBSET (1..Len(slots)) /\ Len(slots) \in Nat
      /\ E \in Seq(EntryType) /\ Len(E) = Cardinality(L)
      /\ \A p \in L : /\ E[CountTo(L, p)] = Entry(slots, p)
                     /\ NameOf(slots, p) = GivenName(slots, p)
  BY <1>2, TidyEntries
<1>4. Lists(nodes, d, E, <<>>)
  <2>1. Level(d) = LevelIn(nodes, 0, d)
    BY DEF Level, LevelIn, Root
  <2>2. IsListed(d)
    BY <2>1 DEF IsListed
  <2>3. Whole(d)
    BY DEF Whole, StartOf
  <2>4. ~IsOpen(d) /\ ~Awaited(d)
    <3>1. \A i \in 1..Len(<<>>) : FALSE
      BY NoNodes
    <3>2. QED
      BY <1>1, <3>1 DEF IsOpen, Awaited
  <2>5. QED
    BY <1>1, <2>2, <2>3, <2>4 DEF Dirs
<1>5. I \in SUBSET (1..Len(nodes)) /\ Cardinality(I) \in Nat /\ Len(nodes) \in Nat
  BY <1>1, InsideFacts, LenProperties
<1>6. Cardinality(I) = Cardinality(L)
  <2>1. Cardinality(I) + 0 = Cardinality(L)
    BY <1>3, <1>4, NoNodes DEF Lists
  <2> HIDE DEF I
  <2>2. QED
    BY <1>5, <2>1
<1>7. I = { k \in DOMAIN nodes : nodes[k].parent = d }
  BY <1>1, LenProperties DEF InsideOf
<1>8. \A k \in I : IsOf(nodes[k], E[CountTo(I, k)])
  BY <1>4 DEF Lists
<1> HIDE DEF slots, L, E, I
<1>9. ASSUME NEW p \in L
      PROVE  \E k \in I :
               /\ nodes[k].name = GivenName(slots, p)
               /\ nodes[k].is_dir = (slots[p].kind = "dir")
               /\ nodes[k].start = slots[p].start
               /\ Cardinality({ q \in L : q < p }) = Cardinality({ j \in I : j < k })
  <2>1. /\ CountTo(L, p) \in 1..Cardinality(L)
        /\ Cardinality({ q \in L : q < p }) = CountTo(L, p) - 1
    BY <1>3, Counting
  <2>2. /\ \A r \in 1..Cardinality(I) : \E k \in I : CountTo(I, k) = r
        /\ \A k \in I : Cardinality({ j \in I : j < k }) = CountTo(I, k) - 1
    BY <1>5, Counting
  <2>3. PICK k \in I : CountTo(I, k) = CountTo(L, p)
    BY <1>6, <2>1, <2>2
  <2>4. IsOf(nodes[k], Entry(slots, p)) /\ NameOf(slots, p) = GivenName(slots, p)
    BY <1>3, <1>8, <2>3
  <2>5. /\ nodes[k].name = GivenName(slots, p)
        /\ nodes[k].is_dir = (slots[p].kind = "dir")
        /\ nodes[k].start = slots[p].start
    BY <2>4 DEF IsOf, Entry
  <2>6. Cardinality({ q \in L : q < p }) = Cardinality({ j \in I : j < k })
    BY <2>1, <2>2, <2>3
  <2>7. QED
    BY <2>5, <2>6
<1>10. QED
  BY <1>6, <1>7, <1>9 DEF L, slots

-----------------------------------------------------------------------------
(* The inductive invariant: what has been collected of a chain is that     *)
(* chain, and every node that is decided is decided rightly.               *)
THEOREM Invariance == Spec => []Inv
<1>1. QED
  BY InitInv, NextInv, PTL DEF Spec

(* Of every FAT volume, whatever its table and its directories hold: the   *)
(* range a file of the tree is given is the clusters of its own chain in   *)
(* their order and ends inside the volume, and only a file whose chain is  *)
(* broken or scattered is left without one (build_tree, cluster_chain and  *)
(* is_contiguous of fat.rs).                                               *)
THEOREM LocationsAreTheChains == Spec => []LocatedJustWhenWhole
<1>1. QED
  BY Invariance, InvImplies, PTL

(* Of every FAT volume: a directory of the tree, down to the limit of      *)
(* depth, whose chain ends and whose long names are in one piece, has a    *)
(* node for each of its entries that is not deleted, nor behind the end    *)
(* marker, nor "." or "..", under the name that was written, in their      *)
(* order, and no other (parse_dir_entries, read_dir_bytes and build_tree   *)
(* of fat.rs).                                                             *)
THEOREM NothingIsLost == Spec => []DirectoriesComplete
<1>1. Init => DirInv
  BY InitInv DEF Init, DirInv
<1>2. Spec => []DirInv
  BY <1>1, Invariance, NextDirInv, PTL DEF Spec
<1>3. QED
  BY <1>2, DirInvImplies, PTL
=============================================================================
