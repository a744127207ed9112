----------------------------- MODULE HfsProofs ------------------------------
(***************************************************************************)
(* Proofs about the HFS+ reader, for every volume, damaged or not, and     *)
(* every order in which the map of folders is iterated: no folder and no   *)
(* file is in two places, and no folder directly under the root is lost.   *)
(***************************************************************************)
EXTENDS HfsTree, Lemmas

FolderInfo == [name : Name, parent_cnid : Cnid]
FileRecords == { r \in CatalogRecord : r.kind = "file" }
Child ==
  [kind : {"folder"}, id : Folders]
    \cup [kind : {"file"}, id : 1..Len(catalog.files)]

-----------------------------------------------------------------------------
(* What a leaf node lists is records of the catalog.                       *)
LEMMA RecordOfType ==
  ASSUME volume \in Volumes, NEW item \in Item
  PROVE  RecordOf(item) \in CatalogRecord
<1>1. volume.block_size \in Nat
  BY VolumesAssumption DEF IsVolume
<1>2. /\ item.type \in {"folder", "file", "thread", "unknown"}
      /\ item.parent_cnid \in Cnid /\ item.name \in Name /\ item.cnid \in Cnid
      /\ item.fork \in Fork
  BY DEF Item
<1>3. CASE item.type = "folder"
  BY <1>2, <1>3 DEF RecordOf, FolderRecord, CatalogRecord
<1>4. CASE item.type = "file"
  <2> DEFINE location == IF is_single_extent(item.fork)
                           THEN first_extent_offset(item.fork) ELSE NoValue
  <2>1. location \in Nat \cup {NoValue}
    <3>1. 1 \in 1..MaxExtents
      BY ExtentsAssumption
    <3>2. item.fork.extents[1].start \in Nat
      BY <1>2, <3>1 DEF Fork
    <3>3. item.fork.extents[1].start * volume.block_size \in Nat
      BY <1>1, <3>2
    <3>4. QED
      BY <3>3 DEF first_extent_offset
  <2>2. item.fork.logical_size \in Nat
    BY <1>2 DEF Fork
  <2> HIDE DEF location
  <2>3. FileRecord(item.parent_cnid, item.name, item.fork.logical_size, location)
          \in CatalogRecord
    BY <1>2, <2>1, <2>2 DEF FileRecord, CatalogRecord
  <2>4. QED
    BY <1>4, <2>3 DEF RecordOf, location
<1>5. CASE item.type \notin {"folder", "file"}
  BY <1>5 DEF RecordOf, CatalogRecord
<1>6. QED
  BY <1>3, <1>4, <1>5

LEMMA RecordsOfItems ==
  ASSUME volume \in Volumes, NEW node \in BTreeNode
  PROVE  RecordsOf(node) \in
           Seq({ RecordOf(node.items[i]) : i \in 1..Len(node.items) })
<1> DEFINE n == Len(node.items)
           X == { RecordOf(node.items[i]) : i \in 1..n }
           Rule(f) == [i \in 0..n |->
             IF i = 0 THEN <<>>
             ELSE IF Listed(node.items[i])
               THEN Append(f[i - 1], RecordOf(node.items[i])) ELSE f[i - 1]]
           listed == CHOOSE f : f = Rule(f)
           keep == { i \in 1..n : Listed(node.items[i]) }
           elem == [i \in 1..n |-> RecordOf(node.items[i])]
<1>1. n \in Nat
  <2>1. node.items \in Seq(Item)
    BY DEF BTreeNode
  <2> HIDE DEF Item
  <2>2. QED
    BY <2>1, LenProperties
<1>2. RecordsOf(node) = listed[n]
  BY DEF RecordsOf
<1>3. \A i \in 1..n : RecordOf(node.items[i]) \in X
  OBVIOUS
<1> HIDE DEF n, X
<1>4. PICK f : Filters(f, n, X, keep, elem)
  <2>1. \A i \in 1..n : i \in keep => elem[i] \in X
    BY <1>3
  <2> HIDE DEF keep, elem
  <2>2. QED
    BY <1>1, <2>1, FilteredExists
<1>5. f = Rule(f)
  <2>1. \A i \in 0..n : i = 0 \/ i \in 1..n
    BY <1>1
  <2>2. \A i \in 0..n : f[i] = Rule(f)[i]
    BY <1>4, <2>1 DEF Filters
  <2>3. QED
    BY <1>4, <2>2 DEF Filters
<1>6. listed = Rule(listed)
  <2> HIDE DEF Rule
  <2>1. QED
    BY <1>5
<1> HIDE DEF listed
<1>7. listed[0] \in Seq(X)
  BY <1>1, <1>6, EmptySeq
<1>8. ASSUME NEW i \in 1..n, listed[i - 1] \in Seq(X)
      PROVE  listed[i] \in Seq(X)
  <2>1. listed[i] = IF Listed(node.items[i])
                      THEN Append(listed[i - 1], RecordOf(node.items[i]))
                      ELSE listed[i - 1]
    <3>1. i \in 0..n /\ i # 0
      BY <1>1
    <3>2. QED
      BY <1>6, <3>1
  <2>2. RecordOf(node.items[i]) \in X
    BY <1>3
  <2>3. QED
    BY <1>8, <2>1, <2>2, AppendProperties
<1>9. listed[n] \in Seq(X)
  <2>1. n \in 0..n
    BY <1>1
  <2>2. QED
    BY <1>1, <1>7, <1>8, <2>1, ValuesUpTo
<1>10. QED
  BY <1>2, <1>9 DEF X, n

LEMMA RecordsOfType ==
  ASSUME volume \in Volumes, NEW node \in BTreeNode
  PROVE  RecordsOf(node) \in Seq(CatalogRecord)
<1> DEFINE X == { RecordOf(node.items[i]) : i \in 1..Len(node.items) }
           s == RecordsOf(node)
<1>1. s \in Seq(X)
  BY RecordsOfItems
<1>2. X \subseteq CatalogRecord
  <2>1. node.items \in Seq(Item)
    BY DEF BTreeNode
  <2> HIDE DEF Item, CatalogRecord
  <2>2. \A i \in 1..Len(node.items) : node.items[i] \in Item
    BY <2>1, ElementOfSeq
  <2>3. QED
    BY <2>2, RecordOfType
<1> HIDE DEF X, s, CatalogRecord
<1>3. s \in Seq(CatalogRecord)
  BY <1>1, <1>2
<1>4. QED
  BY <1>3 DEF s

LEMMA NodeAtType ==
  ASSUME volume \in Volumes, NEW offset
  PROVE  NodeAt(offset) \in BTreeNode
<1>1. OtherData \in BTreeNode
  BY EmptySeq DEF OtherData, BTreeNode
<1>2. offset \in DOMAIN volume.nodes => volume.nodes[offset] \in BTreeNode
  BY VolumesAssumption DEF IsVolume
<1>3. QED
  BY <1>1, <1>2 DEF NodeAt

LEMMA FileItemsType ==
  ASSUME records \in Seq(CatalogRecord)
  PROVE  FileItems \in Seq(FileRecords)
<1> DEFINE n == Len(records)
           X == FileRecords
           Rule(f) == [i \in 0..n |->
             IF i = 0 THEN <<>>
             ELSE IF records[i].kind = "file"
               THEN Append(f[i - 1], records[i]) ELSE f[i - 1]]
           listed == CHOOSE f : f = Rule(f)
           keep == { i \in 1..n : records[i].kind = "file" }
           elem == [i \in 1..n |-> records[i]]
<1>1. n \in Nat /\ \A i \in 1..n : records[i] \in CatalogRecord
  <2> HIDE DEF CatalogRecord
  <2>1. QED
    BY LenProperties, ElementOfSeq
<1>2. FileItems = listed[n]
  BY DEF FileItems
<1>3. \A i \in 1..n : records[i].kind = "file" => records[i] \in X
  BY <1>1 DEF FileRecords
<1> HIDE DEF n, X
<1>4. PICK f : Filters(f, n, X, keep, elem)
  <2>1. \A i \in 1..n : i \in keep => elem[i] \in X
    BY <1>3
  <2> HIDE DEF keep, elem
  <2>2. QED
    BY <1>1, <2>1, FilteredExists
<1>5. f = Rule(f)
  <2>1. \A i \in 0..n : i = 0 \/ i \in 1..n
    BY <1>1
  <2>2. \A i \in 0..n : f[i] = Rule(f)[i]
    BY <1>4, <2>1 DEF Filters
  <2>3. QED
    BY <1>4, <2>2 DEF Filters
<1>6. listed = Rule(listed)
  <2> HIDE DEF Rule
  <2>1. QED
    BY <1>5
<1> HIDE DEF listed
<1>7. listed[0] \in Seq(X)
  BY <1>1, <1>6, EmptySeq
<1>8. ASSUME NEW i \in 1..n, listed[i - 1] \in Seq(X)
      PROVE  listed[i] \in Seq(X)
  <2>1. listed[i] = IF records[i].kind = "file"
                      THEN Append(listed[i - 1], records[i]) ELSE listed[i - 1]
    <3>1. i \in 0..n /\ i # 0
      BY <1>1
    <3>2. QED
      BY <1>6, <3>1
  <2>2. QED
    BY <1>3, <1>8, <2>1, AppendProperties
<1>9. listed[n] \in Seq(X)
  <2>1. n \in 0..n
    BY <1>1
  <2>2. QED
    BY <1>1, <1>7, <1>8, <2>1, ValuesUpTo
<1>10. QED
  BY <1>2, <1>9 DEF X

-----------------------------------------------------------------------------
(* The map of folders.                                                     *)
LEMMA FolderMapType ==
  ASSUME records \in Seq(CatalogRecord)
  PROVE  /\ DOMAIN FolderMap \subseteq Cnid \ {Root}
         /\ IsFiniteSet(DOMAIN FolderMap)
         /\ FolderMap \in [DOMAIN FolderMap -> FolderInfo]
<1> DEFINE listed == { i \in DOMAIN records : records[i].kind = "folder" }
           last(cnid) == CHOOSE i \in listed :
                           /\ records[i].cnid = cnid
                           /\ \A j \in listed : records[j].cnid = cnid => j <= i
           cnids == { records[i].cnid : i \in listed }
<1>1. Len(records) \in Nat /\ DOMAIN records = 1..Len(records)
  BY LenProperties
<1>2. \A i \in listed :
        /\ records[i].cnid \in Cnid /\ records[i].name \in Name
        /\ records[i].parent_cnid \in Cnid
  <2>1. \A i \in listed : records[i] \in CatalogRecord
    <3> HIDE DEF CatalogRecord
    <3>1. QED
      BY <1>1, ElementOfSeq
  <2>2. QED
    BY <2>1 DEF CatalogRecord, Thread
<1>3. FolderMap = [ cnid \in cnids \ {Root} |->
                      [ name        |-> records[last(cnid)].name,
                        parent_cnid |-> records[last(cnid)].parent_cnid ] ]
  BY DEF FolderMap
<1>4. listed \in SUBSET (1..Len(records))
  BY <1>1
<1> HIDE DEF listed
<1>5. IsFiniteSet(cnids)
  <2> DEFINE f == [i \in listed |-> records[i].cnid]
  <2>1. f \in Surjection(listed, cnids)
    BY DEF Surjection
  <2>2. IsFiniteSet(listed)
    <3>1. IsFiniteSet(1..Len(records))
      BY <1>1, FS_Interval
    <3>2. QED
      BY <1>4, <3>1, FS_Subset
  <2> HIDE DEF f, cnids
  <2>3. QED
    BY <2>1, <2>2, FS_Surjection
<1>6. ASSUME NEW cnid \in cnids PROVE last(cnid) \in listed
  <2> DEFINE T == { Len(records) - i : i \in { i \in listed : records[i].cnid = cnid } }
  <2>1. T \in SUBSET Nat /\ T # {}
    BY <1>1, <1>4
  <2>2. PICK x \in T : \A y \in T : x <= y
    <3> HIDE DEF T
    <3>1. QED
      BY <2>1, LeastElement
  <2>3. PICK i \in listed : records[i].cnid = cnid /\ x = Len(records) - i
    OBVIOUS
  <2>4. \A j \in listed : records[j].cnid = cnid => j <= i
    <3> TAKE j \in listed
    <3>1. records[j].cnid = cnid => x <= Len(records) - j
      BY <2>2
    <3>2. i \in 1..Len(records) /\ j \in 1..Len(records)
      BY <1>4
    <3>3. QED
      BY <1>1, <2>3, <3>1, <3>2
  <2>5. QED
    BY <2>3, <2>4
<1> HIDE DEF last
<1>7. DOMAIN FolderMap = cnids \ {Root} /\ cnids \subseteq Cnid
  BY <1>2, <1>3
<1>8. IsFiniteSet(cnids \ {Root})
  <2> HIDE DEF cnids
  <2>1. QED
    BY <1>5, FS_Subset
<1>9. FolderMap \in [cnids \ {Root} -> FolderInfo]
  <2>1. \A cnid \in cnids \ {Root} :
          [ name        |-> records[last(cnid)].name,
            parent_cnid |-> records[last(cnid)].parent_cnid ] \in FolderInfo
    BY <1>2, <1>6 DEF FolderInfo
  <2> HIDE DEF FolderInfo, cnids
  <2>2. QED
    BY <1>3, <2>1
<1> HIDE DEF cnids
<1>10. QED
  BY <1>7, <1>8, <1>9

(* Any order of a finite set names each of its elements.                   *)
LEMMA AnyOrder ==
  ASSUME NEW S, IsFiniteSet(S), NEW s \in SetToSeqs(S)
  PROVE  s \in Seq(S) /\ \A x \in S : \E i \in 1..Len(s) : s[i] = x
<1> DEFINE n == Cardinality(S)
           D == 1..n
<1>1. n \in Nat
  BY FS_CardinalityType
<1>2. s \in [D -> S] /\ \A i, j \in D : i # j => s[i] # s[j]
  BY DEF SetToSeqs
<1>3. s \in Injection(D, S)
  BY <1>2 DEF Injection, IsInjective
<1>4. IsFiniteSet(D) /\ Cardinality(D) = n
  <2>1. IsFiniteSet(1..n) /\ Cardinality(1..n) = IF 1 > n THEN 0 ELSE n - 1 + 1
    <3> HIDE DEF n
    <3>1. QED
      BY <1>1, FS_Interval
  <2>2. QED
    BY <1>1, <2>1
<1>5. s \in Surjection(D, S)
  <2> HIDE DEF D
  <2>1. QED
    BY <1>3, <1>4, FS_Injection
<1>6. s \in Seq(S) /\ Len(s) = n
  BY <1>1, <1>2, SeqDef, LenProperties
<1>7. QED
  BY <1>5, <1>6 DEF Surjection

-----------------------------------------------------------------------------
(* What the tree is made of, before, while and after it is made.           *)
TreeShape ==
  /\ IsFiniteSet(Folders) /\ Folders \subseteq Cnid \ {Root}
  /\ catalog.folder_map \in [Folders -> FolderInfo]
  /\ catalog.files \in Seq(FileRecords)
  /\ remaining \in Seq(Folders) /\ still_pending \in Seq(Folders)
  /\ Root \in nodes /\ nodes \subseteq Folders \cup {Root}
  /\ children \in [Folders \cup {Root} -> Seq(Child)]
  /\ pass \in 1..MaxIters /\ next_file \in 1..(Len(catalog.files) + 1)

(* A folder is still a placeholder, or is in its parent and nowhere else;  *)
(* one that is its own parent is nowhere.  A file that was not handled yet *)
(* is nowhere.                                                             *)
Placement ==
  /\ \A c \in Folders :
       Holders(FolderChild(c)) =
         IF c \in nodes \cup SelfParented THEN {} ELSE {Parent(c)}
  /\ \A i \in next_file..Len(catalog.files) : Holders(FileChild(i)) = {}
  /\ \A d \in DOMAIN children : IsInjective(children[d])

(* What belongs directly under the root is attached, or its turn is still  *)
(* to come in this pass.                                                   *)
TopLevel ==
  /\ pc = "folders" =>
       \A c \in Folders \cap nodes :
         Parent(c) = Root => \E i \in 1..Len(remaining) : remaining[i] = c
  /\ pc \in {"files", "done"} =>
       \A c \in Folders : Parent(c) = Root => c \notin nodes

(* Nothing is in the tree before the records are all read.                 *)
Early == pc \in {"header", "node0", "leaf", "index"}
Untouched ==
  /\ catalog = [folder_map |-> NoFolders, files |-> <<>>]
  /\ remaining = <<>> /\ still_pending = <<>>
  /\ pass = 1 /\ next_file = 1

Inv ==
  /\ pc \in {"header", "node0", "leaf", "index", "folders", "files", "done"}
  /\ LeavesTypeOK /\ TreeShape /\ Placement /\ TopLevel
  /\ Early => Untouched

-----------------------------------------------------------------------------
(* Sorting the children of a folder neither loses nor doubles any.         *)
LEMMA SortedFacts ==
  ASSUME TreeShape, NEW list \in Seq(Child)
  PROVE  /\ ByName(list) \in Seq(Child)
         /\ Len(ByName(list)) = Len(list)
         /\ \A k \in 1..Len(list) :
              /\ \E i \in 1..Len(list) : ByName(list)[k] = list[i]
              /\ \E i \in 1..Len(list) : ByName(list)[i] = list[k]
         /\ IsInjective(list) => IsInjective(ByName(list))
<1> DEFINE n == Len(list)
           D == 1..n
           Before(j, i) == \/ NameOf(list[j]) < NameOf(list[i])
                           \/ NameOf(list[j]) = NameOf(list[i]) /\ j < i
           earlier(i) == { j \in DOMAIN list : Before(j, i) }
           place(k) == CHOOSE i \in DOMAIN list : Cardinality(earlier(i)) = k - 1
           rank == [i \in D |-> Cardinality(earlier(i)) + 1]
<1>1. n \in Nat /\ DOMAIN list = D /\ \A i \in D : list[i] \in Child
  <2> HIDE DEF Child
  <2>1. QED
    BY LenProperties, ElementOfSeq
<1>2. ByName(list) = [k \in D |-> list[place(k)]]
  BY <1>1 DEF ByName
<1>3. \A i \in D : NameOf(list[i]) \in Nat
  <2> TAKE i \in D
  <2>1. CASE list[i] \in [kind : {"folder"}, id : Folders]
    <3>1. list[i].kind = "folder" /\ list[i].id \in Folders
      BY <2>1
    <3>2. catalog.folder_map[list[i].id] \in FolderInfo
      BY <3>1 DEF TreeShape
    <3>3. QED
      BY <3>1, <3>2, NamesAssumption DEF NameOf, FolderInfo
  <2>2. CASE list[i] \in [kind : {"file"}, id : 1..Len(catalog.files)]
    <3>1. list[i].kind = "file" /\ list[i].id \in 1..Len(catalog.files)
      BY <2>2
    <3>2. catalog.files[list[i].id] \in FileRecords
      <4> HIDE DEF FileRecords
      <4>1. QED
        BY <3>1, ElementOfSeq DEF TreeShape
    <3>3. catalog.files[list[i].id].name \in Name
      BY <3>2 DEF FileRecords, CatalogRecord, Thread
    <3>4. QED
      BY <3>1, <3>3, NamesAssumption DEF NameOf, File
  <2>3. QED
    BY <1>1, <2>1, <2>2 DEF Child
<1> HIDE DEF n
<1>4. IsFiniteSet(D) /\ Cardinality(D) = n
  <2>1. IsFiniteSet(1..n) /\ Cardinality(1..n) = IF 1 > n THEN 0 ELSE n - 1 + 1
    BY <1>1, FS_Interval
  <2>2. QED
    BY <1>1, <2>1
<1> HIDE DEF D
<1>5. \A i, j \in D : i \in Nat /\ (i # j => Before(i, j) \/ Before(j, i))
  <2>1. \A i \in D : i \in Nat
    BY <1>1 DEF D
  <2>2. QED
    BY <1>3, <2>1
<1>6. /\ \A i \in D : ~Before(i, i)
      /\ \A i, j, k \in D : Before(i, j) /\ Before(j, k) => Before(i, k)
  <2>1. \A i \in D : i \in Nat
    BY <1>5
  <2>2. \A i \in D : ~Before(i, i)
    BY <1>3, <2>1
  <2>3. ASSUME NEW i \in D, NEW j \in D, NEW k \in D, Before(i, j), Before(j, k)
        PROVE  Before(i, k)
    <3>1. /\ NameOf(list[i]) \in Nat /\ NameOf(list[j]) \in Nat
          /\ NameOf(list[k]) \in Nat /\ i \in Nat /\ j \in Nat /\ k \in Nat
      BY <1>3, <2>1
    <3>2. QED
      BY <2>3, <3>1
  <2>4. QED
    BY <2>2, <2>3
<1> HIDE DEF Before
<1>7. \A i \in D : earlier(i) \in SUBSET D
  BY <1>1
<1>8. \A i \in D : /\ IsFiniteSet(earlier(i)) /\ Cardinality(earlier(i)) \in Nat
                   /\ Cardinality(earlier(i)) < n
  <2> TAKE i \in D
  <2>1. IsFiniteSet(D \ {i}) /\ Cardinality(D \ {i}) = n - 1
    BY <1>4, FS_RemoveElement
  <2>2. earlier(i) \in SUBSET (D \ {i})
    BY <1>1, <1>6
  <2> HIDE DEF earlier
  <2>3. IsFiniteSet(earlier(i)) /\ Cardinality(earlier(i)) <= n - 1
    BY <2>1, <2>2, FS_Subset
  <2>4. Cardinality(earlier(i)) \in Nat
    BY <2>3, FS_CardinalityType
  <2>5. QED
    BY <1>1, <2>3, <2>4
<1>9. ASSUME NEW i \in D, NEW j \in D, Before(i, j)
      PROVE  Cardinality(earlier(i)) # Cardinality(earlier(j))
  <2>1. earlier(i) \in SUBSET earlier(j)
    BY <1>1, <1>6, <1>9
  <2>2. i \in earlier(j) /\ i \notin earlier(i)
    BY <1>1, <1>6, <1>9
  <2>3. earlier(i) # earlier(j)
    BY <2>2
  <2> HIDE DEF earlier
  <2>4. QED
    BY <1>8, <2>1, <2>3, FS_Subset
<1> HIDE DEF earlier
<1>10. \A i \in D : rank[i] = Cardinality(earlier(i)) + 1
  OBVIOUS
<1>11. rank \in Injection(D, D)
  <2>1. \A i \in D : rank[i] \in D
    <3> TAKE i \in D
    <3>1. Cardinality(earlier(i)) + 1 \in 1..n
      BY <1>1, <1>8
    <3>2. QED
      BY <1>10, <3>1 DEF D
  <2>2. rank \in [D -> D]
    BY <2>1
  <2>3. ASSUME NEW i \in D, NEW j \in D, rank[i] = rank[j] PROVE i = j
    <3>1. Cardinality(earlier(i)) = Cardinality(earlier(j))
      BY <1>8, <1>10, <2>3
    <3>2. QED
      BY <1>5, <1>9, <3>1
  <2> HIDE DEF rank
  <2>4. QED
    BY <2>2, <2>3 DEF Injection, IsInjective
<1>12. rank \in Surjection(D, D)
  <2> HIDE DEF rank
  <2>1. QED
    BY <1>4, <1>11, FS_Injection
<1>13. ASSUME NEW k \in D PROVE place(k) \in D /\ rank[place(k)] = k
  <2>1. PICK i \in D : rank[i] = k
    BY <1>12 DEF Surjection
  <2>2. k \in Nat /\ Cardinality(earlier(i)) = k - 1
    BY <1>5, <1>8, <1>10, <2>1
  <2>3. place(k) \in D /\ Cardinality(earlier(place(k))) = k - 1
    BY <1>1, <2>2
  <2>4. QED
    BY <1>10, <2>2, <2>3
<1> HIDE DEF place
<1>14. \A i \in D : rank[i] \in D /\ place(rank[i]) = i
  <2> TAKE i \in D
  <2>1. rank[i] \in D
    BY <1>11 DEF Injection
  <2>2. rank[place(rank[i])] = rank[i] /\ place(rank[i]) \in D
    BY <1>13, <2>1
  <2> HIDE DEF rank
  <2>3. QED
    BY <1>11, <2>1, <2>2 DEF Injection, IsInjective
<1> HIDE DEF rank
<1>15. ByName(list) \in [D -> Child] /\ DOMAIN ByName(list) = D
  <2> HIDE DEF Child
  <2>1. QED
    BY <1>1, <1>2, <1>13
<1>16. ByName(list) \in Seq(Child) /\ Len(ByName(list)) = n
  <2>1. ByName(list) \in Seq(Child)
    BY <1>1, <1>15, SeqDef DEF D
  <2>2. DOMAIN ByName(list) = 1..Len(ByName(list)) /\ Len(ByName(list)) \in Nat
    <3> HIDE DEF Child
    <3>1. QED
      BY <2>1, LenProperties
  <2>3. Len(ByName(list)) = n
    BY <1>1, <1>15, <2>2 DEF D
  <2>4. QED
    BY <2>1, <2>3
<1>17. \A k \in D : ByName(list)[k] = list[place(k)]
  BY <1>2
<1>18. \A k \in D :
         /\ \E i \in D : ByName(list)[k] = list[i]
         /\ \E i \in D : ByName(list)[i] = list[k]
  <2>1. ASSUME NEW k \in D PROVE \E i \in D : ByName(list)[k] = list[i]
    <3>1. place(k) \in D /\ ByName(list)[k] = list[place(k)]
      BY <1>13, <1>17
    <3>2. QED
      BY <3>1
  <2>2. ASSUME NEW k \in D PROVE \E i \in D : ByName(list)[i] = list[k]
    <3>1. rank[k] \in D /\ place(rank[k]) = k
      BY <1>14
    <3>2. ByName(list)[rank[k]] = list[place(rank[k])]
      BY <1>17, <3>1
    <3>3. ByName(list)[rank[k]] = list[k]
      BY <3>1, <3>2
    <3>4. QED
      BY <3>1, <3>3
  <2>3. QED
    BY <2>1, <2>2
<1>19. ASSUME IsInjective(list) PROVE IsInjective(ByName(list))
  <2>1. ASSUME NEW k \in D, NEW l \in D, ByName(list)[k] = ByName(list)[l]
        PROVE  k = l
    <3>1. list[place(k)] = list[place(l)] /\ place(k) \in D /\ place(l) \in D
      BY <1>13, <1>17, <2>1
    <3>2. place(k) = place(l)
      BY <1>1, <1>19, <3>1 DEF IsInjective
    <3>3. QED
      BY <1>13, <3>2
  <2>2. QED
    BY <1>15, <2>1 DEF IsInjective
<1>20. QED
  BY <1>16, <1>18, <1>19 DEF D, n

(* A child that is nowhere is added to some folders.                       *)
HoldersIn(map, x) ==
  { d \in DOMAIN map : \E k \in 1..Len(map[d]) : map[d][k] = x }
IsExtended(new, map, dirs, x) ==
  /\ DOMAIN new = DOMAIN map
  /\ \A d \in DOMAIN map :
       new[d] = IF d \in dirs THEN Append(map[d], x) ELSE map[d]
LEMMA AddChild ==
  ASSUME NEW map, NEW S, NEW x \in S, NEW dirs, NEW new,
         \A d \in DOMAIN map : map[d] \in Seq(S) /\ IsInjective(map[d]),
         HoldersIn(map, x) = {}, IsExtended(new, map, dirs, x)
  PROVE  /\ DOMAIN new = DOMAIN map
         /\ \A d \in DOMAIN map : new[d] \in Seq(S) /\ IsInjective(new[d])
         /\ HoldersIn(new, x) = dirs \cap DOMAIN map
         /\ \A y : y # x => HoldersIn(new, y) = HoldersIn(map, y)
<1>1. DOMAIN new = DOMAIN map
  BY DEF IsExtended
<1>2. ASSUME NEW d \in DOMAIN map
      PROVE  /\ new[d] \in Seq(S) /\ IsInjective(new[d])
             /\ (\E k \in 1..Len(new[d]) : new[d][k] = x) <=> d \in dirs
             /\ \A y : y # x => ((\E k \in 1..Len(new[d]) : new[d][k] = y)
                                   <=> \E k \in 1..Len(map[d]) : map[d][k] = y)
  <2> DEFINE s == map[d]
             t == Append(s, x)
             n == Len(s)
  <2>1. s \in Seq(S) /\ IsInjective(s) /\ n \in Nat /\ DOMAIN s = 1..n
    BY LenProperties
  <2>2. \A k \in 1..n : s[k] # x
    BY DEF HoldersIn
  <2>3. /\ t \in Seq(S) /\ Len(t) = n + 1 /\ t[n + 1] = x
        /\ \A k \in 1..n : t[k] = s[k]
    BY <2>1, AppendProperties
  <2>4. DOMAIN t = 1..(n + 1)
    BY <2>3, LenProperties
  <2> HIDE DEF t, s, n
  <2>5. CASE d \notin dirs
    <3>1. new[d] = s
      BY <2>5 DEF s, IsExtended
    <3>2. QED
      BY <2>1, <2>2, <2>5, <3>1 DEF n, s
  <2>6. CASE d \in dirs
    <3>1. new[d] = t
      BY <2>6 DEF t, s, IsExtended
    <3>2. \A k \in 1..(n + 1) : k \in 1..n \/ k = n + 1
      BY <2>1
    <3>3. IsInjective(t)
      <4>1. ASSUME NEW k \in 1..(n + 1), NEW l \in 1..(n + 1), t[k] = t[l]
            PROVE  k = l
        <5>1. CASE k \in 1..n /\ l \in 1..n
          BY <2>1, <2>3, <4>1, <5>1 DEF IsInjective
        <5>2. CASE ~(k \in 1..n /\ l \in 1..n)
          BY <2>2, <2>3, <3>2, <4>1, <5>2
        <5>3. QED
          BY <5>1, <5>2
      <4>2. QED
        BY <2>4, <4>1 DEF IsInjective
    <3>4. n + 1 \in 1..(n + 1) /\ \A k \in 1..n : k \in 1..(n + 1)
      BY <2>1
    <3>5. \E k \in 1..Len(t) : t[k] = x
      BY <2>3, <3>4
    <3>6. ASSUME NEW y, y # x
          PROVE  (\E k \in 1..Len(t) : t[k] = y) <=> \E k \in 1..n : s[k] = y
      BY <2>3, <3>2, <3>4, <3>6
    <3>7. t \in Seq(S)
      BY <2>3
    <3>8. \A y : y # x => ((\E k \in 1..Len(new[d]) : new[d][k] = y)
                             <=> \E k \in 1..Len(map[d]) : map[d][k] = y)
      BY <3>1, <3>6 DEF s, n
    <3>9. \E k \in 1..Len(new[d]) : new[d][k] = x
      BY <3>1, <3>5
    <3>10. new[d] \in Seq(S) /\ IsInjective(new[d])
      BY <3>1, <3>3, <3>7
    <3>11. QED
      BY <2>6, <3>8, <3>9, <3>10
  <2>7. QED
    BY <2>5, <2>6
<1>3. HoldersIn(new, x) = dirs \cap DOMAIN map
  BY <1>1, <1>2 DEF HoldersIn
<1>4. \A y : y # x => HoldersIn(new, y) = HoldersIn(map, y)
  BY <1>1, <1>2 DEF HoldersIn
<1>5. QED
  BY <1>1, <1>2, <1>3, <1>4

-----------------------------------------------------------------------------
LEMMA HoldersAre ==
  /\ \A x : Holders(x) = HoldersIn(children, x)
  /\ \A x : Holders(x)' = HoldersIn(children', x)
  BY DEF Holders, HoldersIn

LEMMA ChildFacts ==
  /\ \A c \in Folders : FolderChild(c) \in Child
  /\ \A i \in 1..Len(catalog.files) : FileChild(i) \in Child
  /\ \A c, d : FolderChild(c) = FolderChild(d) => c = d
  /\ \A i, j : FileChild(i) = FileChild(j) => i = j
  /\ \A c, i : FolderChild(c) # FileChild(i)
  BY DEF FolderChild, FileChild, Child

LEMMA InitInv == Init => Inv
<1> SUFFICES ASSUME Init PROVE Inv
  OBVIOUS
<1>1. /\ pc = "header" /\ records = <<>> /\ volume \in Volumes
      /\ first_leaf = 0 /\ visited = 0 /\ error = "none"
  BY DEF Init, InitLeaves
<1>2. /\ catalog = [folder_map |-> NoFolders, files |-> <<>>]
      /\ remaining = <<>> /\ still_pending = <<>>
      /\ nodes = {Root} /\ children = [c \in {Root} |-> <<>>]
      /\ pass = 1 /\ next_file = 1
  BY DEF Init, InitTree
<1>3. LeavesTypeOK
  BY <1>1, EmptySeq DEF LeavesTypeOK
<1>4. Folders = {}
  BY <1>2 DEF Folders, NoFolders
<1>5. catalog.folder_map = NoFolders /\ catalog.files = <<>>
  BY <1>2
<1>6. Len(catalog.files) = 0
  BY <1>5, EmptySeq
<1>7. TreeShape
  <2>1. IsFiniteSet(Folders)
    BY <1>4, FS_EmptySet
  <2>2. catalog.folder_map \in [Folders -> FolderInfo]
    BY <1>4, <1>5 DEF NoFolders
  <2>3. /\ catalog.files \in Seq(FileRecords)
        /\ remaining \in Seq(Folders) /\ still_pending \in Seq(Folders)
    BY <1>2, <1>5, EmptySeq
  <2>4. \A d \in DOMAIN children : children[d] \in Seq(Child)
    BY <1>2, EmptySeq
  <2>5. pass \in 1..MaxIters
    BY <1>2, <1>4, FS_EmptySet DEF MaxIters
  <2>6. QED
    BY <1>2, <1>4, <1>6, <2>1, <2>2, <2>3, <2>4, <2>5 DEF TreeShape
<1>8. Placement
  <2>1. \A i : i \notin next_file..Len(catalog.files)
    BY <1>2, <1>6
  <2>2. \A d \in DOMAIN children : IsInjective(children[d])
    <3>1. \A d \in DOMAIN children : children[d] = <<>>
      BY <1>2
    <3>2. QED
      BY <3>1 DEF IsInjective
  <2>3. QED
    BY <1>4, <2>1, <2>2 DEF Placement
<1>9. TopLevel /\ Untouched
  BY <1>1, <1>2 DEF TopLevel, Untouched
<1>10. QED
  BY <1>1, <1>3, <1>7, <1>8, <1>9 DEF Inv

(* The walk over the leaf nodes does not touch the tree.                   *)
LEMMA LeavesKeep ==
  ASSUME LeavesTypeOK, LeavesNext
  PROVE  /\ LeavesTypeOK' /\ Early
         /\ pc' \in {"header", "node0", "leaf", "index", "done"}
<1> USE DEF LeavesTypeOK, Early
<1>1. ASSUME NEW reason, Fail(reason) PROVE
        /\ <<volume, first_leaf, visited, records>>'
             = <<volume, first_leaf, visited, records>>
        /\ pc' = "done" /\ error' = reason
  BY <1>1 DEF Fail
<1>2. ASSUME NEW reason, LeafFails(reason) PROVE
        /\ <<volume, first_leaf, records>>' = <<volume, first_leaf, records>>
        /\ visited' \in Nat /\ pc' = "done" /\ error' = reason
  BY <1>2 DEF LeafFails, Counted
<1>3. \A offset : NodeAt(offset) \in BTreeNode
  BY NodeAtType
<1>4. \A offset : NodeAt(offset).f_link \in Nat
  BY <1>3 DEF BTreeNode
<1>5. ASSUME NEW offset, Follow(NodeAt(offset))
      PROVE  /\ first_leaf' \in Nat /\ visited' \in Nat
             /\ pc' = "index" \/ pc' = pc
  BY <1>4, <1>5 DEF Follow, Counted
<1>6. CASE BadHeader
  BY <1>1, <1>6 DEF BadHeader, HeaderError
<1>7. CASE ParseHeader
  BY <1>7 DEF ParseHeader, leafVars
<1>8. CASE BadNode0
  BY <1>1, <1>8 DEF BadNode0, Node0Error
<1>9. CASE ReadNode0
  <2>1. volume.header.first_leaf_node \in Nat
    BY VolumesAssumption DEF IsVolume, HeaderNode
  <2>2. QED
    BY <1>9, <2>1 DEF ReadNode0
<1>10. CASE TooDeep
  BY <1>1, <1>10 DEF TooDeep
<1>11. CASE ReadLeaf
  <2>1. RecordsOf(NodeAt(NodeOffset)) \in Seq(CatalogRecord)
    BY <1>3, RecordsOfType
  <2> HIDE DEF CatalogRecord
  <2>2. records' \in Seq(CatalogRecord)
    BY <1>11, <2>1, ConcatProperties DEF ReadLeaf
  <2>3. QED
    BY <1>5, <1>11, <2>2 DEF ReadLeaf
<1>12. CASE SkipNode
  BY <1>5, <1>12 DEF SkipNode
<1>13. CASE EndOfImage
  BY <1>2, <1>13 DEF EndOfImage
<1>14. CASE ReadFails
  BY <1>1, <1>2, <1>14 DEF ReadFails
<1>15. QED
  BY <1>6, <1>7, <1>8, <1>9, <1>10, <1>11, <1>12, <1>13, <1>14 DEF LeavesNext

LEMMA SameTree ==
  ASSUME UNCHANGED treeVars
  PROVE  (TreeShape <=> TreeShape') /\ (Placement <=> Placement')
           /\ (Untouched <=> Untouched')
<1>1. /\ catalog' = catalog /\ remaining' = remaining /\ nodes' = nodes
      /\ still_pending' = still_pending /\ children' = children
      /\ pass' = pass /\ next_file' = next_file
  BY DEF treeVars
<1>2. TreeShape <=> TreeShape'
  BY <1>1 DEF TreeShape, Folders, Child, MaxIters
<1>3. Placement <=> Placement'
  BY <1>1 DEF Placement, Folders, Holders, SelfParented, Parent
<1>4. QED
  BY <1>1, <1>2, <1>3 DEF Untouched

LEMMA LeavesStep ==
  ASSUME Inv, LeavesNext, UNCHANGED treeVars
  PROVE  Inv'
<1>1. /\ LeavesTypeOK' /\ Early
      /\ pc' \in {"header", "node0", "leaf", "index", "done"}
  BY LeavesKeep DEF Inv
<1>2. TreeShape' /\ Placement' /\ Untouched'
  BY <1>1, SameTree DEF Inv
<1>3. TopLevel'
  <2>1. Folders' = {}
    BY <1>2 DEF Untouched, Folders, NoFolders
  <2>2. QED
    BY <1>1, <2>1 DEF TopLevel
<1>4. QED
  BY <1>1, <1>2, <1>3 DEF Inv

-----------------------------------------------------------------------------
(* The folders of the catalog become placeholders without children.        *)
LEMMA IndexStep ==
  ASSUME Inv, Index, UNCHANGED leafVars
  PROVE  Inv'
<1>1. /\ pc = "index" /\ pc' = "folders" /\ records' = records
      /\ catalog' = [folder_map |-> FolderMap, files |-> FileItems]
      /\ remaining' \in SetToSeqs(DOMAIN FolderMap)
      /\ nodes' = DOMAIN FolderMap \cup {Root}
      /\ children' = [c \in DOMAIN FolderMap \cup {Root} |-> <<>>]
      /\ pass' = pass /\ still_pending' = still_pending
      /\ next_file' = next_file
  BY DEF Index
<1>2. /\ LeavesTypeOK /\ Untouched
  BY <1>1 DEF Inv, Early
<1>3. records \in Seq(CatalogRecord)
  BY <1>2 DEF LeavesTypeOK
<1>4. FileItems \in Seq(FileRecords)
  BY <1>3, FileItemsType
<1>5. /\ DOMAIN FolderMap \subseteq Cnid \ {Root}
      /\ IsFiniteSet(DOMAIN FolderMap)
      /\ FolderMap \in [DOMAIN FolderMap -> FolderInfo]
  BY <1>3, FolderMapType
<1>6. /\ catalog.folder_map' = FolderMap /\ catalog.files' = FileItems
      /\ Folders' = DOMAIN FolderMap
  BY <1>1 DEF Folders
<1>7. /\ remaining' \in Seq(Folders')
      /\ \A c \in Folders' : \E i \in 1..Len(remaining') : remaining'[i] = c
  BY <1>1, <1>5, <1>6, AnyOrder
<1>8. Len(FileItems) \in Nat
  <2> HIDE DEF FileRecords
  <2>1. QED
    BY <1>4, LenProperties
<1>9. MaxIters' \in Nat /\ MaxIters' >= 2
  BY <1>5, <1>6, FS_CardinalityType DEF MaxIters
<1>10. TreeShape'
  <2>1. still_pending' \in Seq(Folders')
    BY <1>1, <1>2, EmptySeq DEF Untouched
  <2>2. next_file' \in 1..(Len(catalog.files') + 1)
    BY <1>1, <1>2, <1>6, <1>8 DEF Untouched
  <2>3. pass' \in 1..MaxIters'
    BY <1>1, <1>2, <1>9 DEF Untouched
  <2>4. children' \in [Folders' \cup {Root} -> Seq(Child')]
    BY <1>1, <1>6, EmptySeq
  <2>5. /\ Root \in nodes' /\ nodes' \subseteq Folders' \cup {Root}
        /\ Folders' \subseteq Cnid \ {Root} /\ IsFiniteSet(Folders')
    BY <1>1, <1>5, <1>6
  <2>6. /\ catalog.folder_map' \in [Folders' -> FolderInfo]
        /\ catalog.files' \in Seq(FileRecords)
    BY <1>4, <1>5, <1>6
  <2>7. QED
    BY <1>7, <2>1, <2>2, <2>3, <2>4, <2>5, <2>6 DEF TreeShape
<1>11. Placement'
  <2>1. \A d \in DOMAIN children' : children'[d] = <<>>
    BY <1>1
  <2>2. \A x : HoldersIn(children', x) = {}
    BY <2>1 DEF HoldersIn
  <2>3. \A x : Holders(x)' = {}
    BY <2>2, HoldersAre
  <2>4. \A c \in Folders' : c \in nodes'
    BY <1>1, <1>6
  <2>5. \A d \in DOMAIN children' : IsInjective(children'[d])
    BY <2>1 DEF IsInjective
  <2>6. \A c \in Folders' : Holders(FolderChild(c))' = {}
    BY <2>3
  <2>7. \A i \in next_file'..Len(catalog.files') : Holders(FileChild(i))' = {}
    BY <2>3
  <2>8. QED
    BY <2>4, <2>5, <2>6, <2>7 DEF Placement
<1>12. TopLevel'
  BY <1>1, <1>7 DEF TopLevel
<1>13. LeavesTypeOK'
  BY <1>1, <1>2 DEF LeavesTypeOK, leafVars
<1>14. QED
  BY <1>1, <1>10, <1>11, <1>12, <1>13 DEF Inv, Early

(* What a step of the loops after that leaves alone.                       *)
LEMMA SameCatalog ==
  ASSUME catalog' = catalog
  PROVE  /\ Folders' = Folders /\ Child' = Child /\ SelfParented' = SelfParented
         /\ MaxIters' = MaxIters
         /\ \A c : Parent(c)' = Parent(c)
         /\ \A x : NameOf(x)' = NameOf(x)
  BY DEF Folders, Child, SelfParented, MaxIters, Parent, NameOf, File

(* The folder whose turn it is and the ones that still have to come.       *)
LEMMA HeadFacts ==
  ASSUME TreeShape, remaining # <<>>
  PROVE  /\ Head(remaining) \in Folders /\ Tail(remaining) \in Seq(Folders)
         /\ \A c : (\E i \in 1..Len(remaining) : remaining[i] = c)
                     => \/ c = Head(remaining)
                        \/ \E i \in 1..Len(Tail(remaining)) : Tail(remaining)[i] = c
<1> DEFINE n == Len(remaining)
<1>1. remaining \in Seq(Folders) /\ remaining # <<>>
  BY DEF TreeShape
<1>2. n \in Nat /\ n # 0
  BY <1>1, LenProperties, EmptySeq
<1>3. /\ Head(remaining) = remaining[1] /\ Tail(remaining) \in Seq(Folders)
      /\ Len(Tail(remaining)) = n - 1
      /\ \A i \in 1..(n - 1) : Tail(remaining)[i] = remaining[i + 1]
  BY <1>1, HeadTailProperties
<1>4. Head(remaining) \in Folders
  BY <1>1, <1>2, <1>3, ElementOfSeq
<1> HIDE DEF n
<1>5. ASSUME NEW i \in 1..n, i # 1
      PROVE  \E j \in 1..(n - 1) : Tail(remaining)[j] = remaining[i]
  <2>1. i - 1 \in 1..(n - 1) /\ (i - 1) + 1 = i
    BY <1>2, <1>5
  <2>2. Tail(remaining)[i - 1] = remaining[(i - 1) + 1]
    BY <1>3, <2>1
  <2>3. QED
    BY <2>1, <2>2
<1>6. QED
  BY <1>3, <1>4, <1>5 DEF n

(* The folder becomes a child of its parent, or, its own parent, is lost.  *)
LEMMA AttachFolderStep ==
  ASSUME Inv, AttachFolder, UNCHANGED leafVars
  PROVE  Inv'
<1> DEFINE child == Head(remaining)
           parent == Parent(child)
<1>1. /\ pc = "folders" /\ pc' = pc /\ remaining # <<>>
      /\ {child, parent} \subseteq nodes /\ nodes' = nodes \ {child}
      /\ children' = IF parent \in nodes'
                       THEN [children EXCEPT
                               ![parent] = Append(@, FolderChild(child))]
                       ELSE children
      /\ remaining' = Tail(remaining)
      /\ UNCHANGED <<records, catalog, pass, still_pending, next_file>>
  BY DEF AttachFolder, CanAttach, Without
<1>2. LeavesTypeOK /\ TreeShape /\ Placement /\ TopLevel
  BY DEF Inv
<1>3. /\ child \in Folders /\ Tail(remaining) \in Seq(Folders)
      /\ \A c : (\E i \in 1..Len(remaining) : remaining[i] = c)
                  => \/ c = child
                     \/ \E i \in 1..Len(Tail(remaining)) : Tail(remaining)[i] = c
  BY <1>1, <1>2, HeadFacts
<1>4. /\ Folders' = Folders /\ Child' = Child /\ SelfParented' = SelfParented
      /\ MaxIters' = MaxIters /\ \A c : Parent(c)' = Parent(c)
  BY <1>1, SameCatalog
<1>5. child \in SelfParented <=> parent = child
  BY <1>3 DEF SelfParented
<1>6. Holders(FolderChild(child)) = {}
  BY <1>1, <1>2, <1>3 DEF Placement
<1>7. /\ DOMAIN children = Folders \cup {Root} /\ Root \notin Folders
      /\ \A d \in DOMAIN children :
           children[d] \in Seq(Child) /\ IsInjective(children[d])
      /\ nodes \subseteq Folders \cup {Root} /\ Root \in nodes
  BY <1>2 DEF TreeShape, Placement
<1> HIDE DEF child
<1>8. /\ DOMAIN children' = DOMAIN children
      /\ \A d \in DOMAIN children :
           children'[d] \in Seq(Child) /\ IsInjective(children'[d])
      /\ HoldersIn(children', FolderChild(child)) =
           (IF parent = child THEN {} ELSE {parent})
      /\ \A y : y # FolderChild(child) => HoldersIn(children', y) = Holders(y)
  <2>1. CASE parent = child
    <3>1. children' = children
      BY <1>1, <2>1
    <3>2. \A y : HoldersIn(children', y) = Holders(y)
      BY <3>1, HoldersAre
    <3>3. QED
      BY <1>6, <1>7, <2>1, <3>1, <3>2
  <2>2. CASE parent # child
    <3> DEFINE x == FolderChild(child)
    <3>1. parent \in nodes' /\ parent \in DOMAIN children
      BY <1>1, <1>7, <2>2
    <3>2. IsExtended(children', children, {parent}, x)
      BY <1>1, <3>1 DEF IsExtended
    <3>3. x \in Child /\ HoldersIn(children, x) = {}
      BY <1>3, <1>6, ChildFacts, HoldersAre
    <3> HIDE DEF x, parent
    <3>4. /\ DOMAIN children' = DOMAIN children
          /\ \A d \in DOMAIN children :
               children'[d] \in Seq(Child) /\ IsInjective(children'[d])
          /\ HoldersIn(children', x) = {parent} \cap DOMAIN children
          /\ \A y : y # x => HoldersIn(children', y) = HoldersIn(children, y)
      BY <1>7, <3>2, <3>3, AddChild
    <3>5. HoldersIn(children', x) = {parent}
      BY <3>1, <3>4
    <3>6. \A y : y # x => HoldersIn(children', y) = Holders(y)
      BY <3>4, HoldersAre
    <3>7. QED
      BY <2>2, <3>4, <3>5, <3>6 DEF x
  <2>3. QED
    BY <2>1, <2>2
<1> HIDE DEF parent
<1>9. Placement'
  <2>1. ASSUME NEW c \in Folders
        PROVE  HoldersIn(children', FolderChild(c)) =
                 IF c \in nodes' \cup SelfParented THEN {} ELSE {Parent(c)}
    <3>1. CASE c = child
      BY <1>1, <1>5, <1>8, <3>1 DEF parent
    <3>2. CASE c # child
      <4>1. HoldersIn(children', FolderChild(c)) = Holders(FolderChild(c))
        BY <1>8, <3>2, ChildFacts
      <4>2. c \in nodes' <=> c \in nodes
        BY <1>1, <3>2
      <4>3. Holders(FolderChild(c)) =
              IF c \in nodes \cup SelfParented THEN {} ELSE {Parent(c)}
        BY <1>2 DEF Placement
      <4>4. QED
        BY <4>1, <4>2, <4>3
    <3>3. QED
      BY <3>1, <3>2
  <2>2. ASSUME NEW i \in next_file..Len(catalog.files)
        PROVE  HoldersIn(children', FileChild(i)) = {}
    BY <1>2, <1>8, ChildFacts DEF Placement
  <2>3. \A c \in Folders' :
          Holders(FolderChild(c))' =
            IF c \in nodes' \cup SelfParented' THEN {} ELSE {Parent(c)'}
    <3> TAKE c \in Folders'
    <3>1. Holders(FolderChild(c))' = HoldersIn(children', FolderChild(c))
      BY HoldersAre
    <3>2. QED
      BY <1>4, <2>1, <3>1
  <2>4. \A i \in next_file'..Len(catalog.files') : Holders(FileChild(i))' = {}
    <3> TAKE i \in next_file'..Len(catalog.files')
    <3>1. Holders(FileChild(i))' = HoldersIn(children', FileChild(i))
      BY HoldersAre
    <3>2. QED
      BY <1>1, <2>2, <3>1
  <2>5. \A d \in DOMAIN children' : IsInjective(children'[d])
    BY <1>8
  <2>6. QED
    BY <2>3, <2>4, <2>5 DEF Placement
<1>10. TreeShape'
  BY <1>1, <1>2, <1>3, <1>4, <1>7, <1>8 DEF TreeShape
<1>11. TopLevel'
  <2>1. ASSUME NEW c \in Folders, c \in nodes', Parent(c) = Root
        PROVE  \E i \in 1..Len(remaining') : remaining'[i] = c
    <3>1. c \in nodes /\ c # child
      BY <1>1, <2>1
    <3>2. \E i \in 1..Len(remaining) : remaining[i] = c
      BY <1>1, <1>2, <2>1, <3>1 DEF TopLevel
    <3>3. QED
      BY <1>1, <1>3, <3>1, <3>2
  <2>2. QED
    BY <1>1, <1>4, <2>1 DEF TopLevel
<1>12. LeavesTypeOK'
  BY <1>1, <1>2 DEF LeavesTypeOK, leafVars
<1>13. QED
  BY <1>1, <1>9, <1>10, <1>11, <1>12 DEF Inv, Early

LEMMA KeepPendingStep ==
  ASSUME Inv, KeepPending, UNCHANGED leafVars
  PROVE  Inv'
<1>1. /\ pc = "folders" /\ pc' = pc /\ remaining # <<>>
      /\ ~({Head(remaining), Parent(Head(remaining))} \subseteq nodes)
      /\ still_pending' = Append(still_pending, Head(remaining))
      /\ remaining' = Tail(remaining)
      /\ UNCHANGED <<records, catalog, pass, nodes, children, next_file>>
  BY DEF KeepPending, CanAttach
<1>2. LeavesTypeOK /\ TreeShape /\ Placement /\ TopLevel
  BY DEF Inv
<1>3. /\ Head(remaining) \in Folders /\ Tail(remaining) \in Seq(Folders)
      /\ \A c : (\E i \in 1..Len(remaining) : remaining[i] = c)
                  => \/ c = Head(remaining)
                     \/ \E i \in 1..Len(Tail(remaining)) : Tail(remaining)[i] = c
  BY <1>1, <1>2, HeadFacts
<1>4. /\ Folders' = Folders /\ Child' = Child /\ SelfParented' = SelfParented
      /\ MaxIters' = MaxIters /\ \A c : Parent(c)' = Parent(c)
  BY <1>1, SameCatalog
<1>5. still_pending' \in Seq(Folders)
  BY <1>1, <1>2, <1>3, AppendProperties DEF TreeShape
<1>6. TreeShape'
  BY <1>1, <1>2, <1>3, <1>4, <1>5 DEF TreeShape
<1>7. Placement'
  BY <1>1, <1>2 DEF Placement, Folders, Holders, SelfParented, Parent
<1>8. TopLevel'
  <2>1. ASSUME NEW c \in Folders, c \in nodes, Parent(c) = Root
        PROVE  \E i \in 1..Len(remaining') : remaining'[i] = c
    <3>1. c # Head(remaining)
      BY <1>1, <1>2, <2>1 DEF TreeShape
    <3>2. \E i \in 1..Len(remaining) : remaining[i] = c
      BY <1>1, <1>2, <2>1 DEF TopLevel
    <3>3. QED
      BY <1>1, <1>3, <3>1, <3>2
  <2>2. QED
    BY <1>1, <1>4, <2>1 DEF TopLevel
<1>9. LeavesTypeOK'
  BY <1>1, <1>2 DEF LeavesTypeOK, leafVars
<1>10. QED
  BY <1>1, <1>6, <1>7, <1>8, <1>9 DEF Inv, Early

(* When nothing remains, no folder directly under the root is a            *)
(* placeholder any more.                                                   *)
LEMMA EndPassStep ==
  ASSUME Inv, EndPass, UNCHANGED leafVars
  PROVE  Inv'
<1>1. /\ pc = "folders" /\ remaining = <<>>
      /\ \/ pc' = "files" /\ pass' = pass
         \/ pass # MaxIters /\ pass' = pass + 1 /\ pc' = pc
      /\ remaining' = still_pending /\ still_pending' = <<>>
      /\ UNCHANGED <<records, catalog, nodes, children, next_file>>
  BY DEF EndPass
<1>2. LeavesTypeOK /\ TreeShape /\ Placement /\ TopLevel
  BY DEF Inv
<1>3. /\ Folders' = Folders /\ Child' = Child /\ SelfParented' = SelfParented
      /\ MaxIters' = MaxIters /\ \A c : Parent(c)' = Parent(c)
  BY <1>1, SameCatalog
<1>4. MaxIters \in Nat
  BY <1>2, FS_CardinalityType DEF TreeShape, MaxIters
<1>5. pass' \in 1..MaxIters
  BY <1>1, <1>2, <1>4 DEF TreeShape
<1>6. TreeShape'
  BY <1>1, <1>2, <1>3, <1>5, EmptySeq DEF TreeShape
<1>7. Placement'
  BY <1>1, <1>2 DEF Placement, Folders, Holders, SelfParented, Parent
<1>8. \A c \in Folders : Parent(c) = Root => c \notin nodes
  <2>1. Len(remaining) = 0
    BY <1>1, EmptySeq
  <2>2. QED
    BY <1>1, <1>2, <2>1 DEF TopLevel
<1>9. TopLevel'
  BY <1>1, <1>3, <1>8 DEF TopLevel
<1>10. LeavesTypeOK'
  BY <1>1, <1>2 DEF LeavesTypeOK, leafVars
<1>11. QED
  BY <1>1, <1>6, <1>7, <1>9, <1>10 DEF Inv, Early

(* The file whose turn it is goes to the folders its path leads to.        *)
LEMMA FileAttached ==
  ASSUME Inv, AttachFile
  PROVE  /\ next_file \in 1..Len(catalog.files) /\ next_file \in Nat
         /\ DOMAIN children' = DOMAIN children
         /\ children' \in [DOMAIN children -> Seq(Child)]
         /\ \A d \in DOMAIN children : IsInjective(children'[d])
         /\ HoldersIn(children', FileChild(next_file))
              = find_by_path(cnid_path(File(next_file).parent_cnid))
                  \cap DOMAIN children
         /\ \A y : y # FileChild(next_file) =>
              HoldersIn(children', y) = Holders(y)
<1> DEFINE dirs == find_by_path(cnid_path(File(next_file).parent_cnid))
           x == FileChild(next_file)
<1>1. /\ next_file <= Len(catalog.files)
      /\ children' = [d \in DOMAIN children |->
                        IF d \in dirs THEN Append(children[d], x)
                                      ELSE children[d]]
  BY DEF AttachFile
<1>2. TreeShape /\ Placement
  BY DEF Inv
<1>3. next_file \in Nat /\ next_file >= 1 /\ Len(catalog.files) \in Nat
  <2>1. catalog.files \in Seq(FileRecords)
    BY <1>2 DEF TreeShape
  <2> HIDE DEF FileRecords
  <2>2. Len(catalog.files) \in Nat
    BY <2>1, LenProperties
  <2>3. QED
    BY <1>2, <2>2 DEF TreeShape
<1>4. next_file \in 1..Len(catalog.files)
  BY <1>1, <1>3
<1>5. x \in Child /\ HoldersIn(children, x) = {}
  <2>1. next_file \in next_file..Len(catalog.files)
    BY <1>4
  <2>2. Holders(x) = {}
    BY <1>2, <2>1 DEF Placement
  <2>3. QED
    BY <1>4, <2>2, ChildFacts, HoldersAre
<1>6. IsExtended(children', children, dirs, x)
  <2> HIDE DEF dirs, x
  <2>1. QED
    BY <1>1 DEF IsExtended
<1> HIDE DEF dirs, x
<1>7. \A d \in DOMAIN children :
        children[d] \in Seq(Child) /\ IsInjective(children[d])
  BY <1>2 DEF TreeShape, Placement
<1>8. /\ DOMAIN children' = DOMAIN children
      /\ \A d \in DOMAIN children :
           children'[d] \in Seq(Child) /\ IsInjective(children'[d])
      /\ HoldersIn(children', x) = dirs \cap DOMAIN children
      /\ \A y : y # x => HoldersIn(children', y) = Holders(y)
  BY <1>5, <1>6, <1>7, AddChild, HoldersAre
<1>9. children' \in [DOMAIN children -> Seq(Child)]
  <2> HIDE DEF Child
  <2>1. children' = [d \in DOMAIN children |-> children'[d]]
    BY <1>1
  <2>2. QED
    BY <1>8, <2>1
<1>10. QED
  BY <1>3, <1>4, <1>8, <1>9 DEF dirs, x

LEMMA AttachFileStep ==
  ASSUME Inv, AttachFile, UNCHANGED leafVars
  PROVE  Inv'
<1> DEFINE x == FileChild(next_file)
<1>1. /\ pc = "files" /\ pc' = pc /\ next_file' = next_file + 1
      /\ UNCHANGED <<records, catalog, pass, remaining, still_pending, nodes>>
  BY DEF AttachFile
<1>2. LeavesTypeOK /\ TreeShape /\ Placement /\ TopLevel
  BY DEF Inv
<1>3. /\ Folders' = Folders /\ Child' = Child /\ SelfParented' = SelfParented
      /\ MaxIters' = MaxIters /\ \A c : Parent(c)' = Parent(c)
  BY <1>1, SameCatalog
<1>4. next_file \in 1..Len(catalog.files) /\ next_file \in Nat
  BY FileAttached
<1>5. Len(catalog.files) \in Nat
  <2>1. catalog.files \in Seq(FileRecords)
    BY <1>2 DEF TreeShape
  <2> HIDE DEF FileRecords
  <2>2. QED
    BY <2>1, LenProperties
<1>6. /\ DOMAIN children' = DOMAIN children
      /\ children' \in [DOMAIN children -> Seq(Child)]
      /\ \A d \in DOMAIN children : IsInjective(children'[d])
      /\ \A y : y # x => HoldersIn(children', y) = Holders(y)
  BY FileAttached
<1> HIDE DEF x
<1>7. Placement'
  <2>1. \A c \in Folders' :
          Holders(FolderChild(c))' =
            IF c \in nodes' \cup SelfParented' THEN {} ELSE {Parent(c)'}
    <3> TAKE c \in Folders'
    <3>1. FolderChild(c) # x
      BY ChildFacts DEF x
    <3>2. HoldersIn(children', FolderChild(c)) = Holders(FolderChild(c))
      BY <1>6, <3>1
    <3>3. Holders(FolderChild(c))' = HoldersIn(children', FolderChild(c))
      BY HoldersAre
    <3>4. Holders(FolderChild(c)) =
            IF c \in nodes \cup SelfParented THEN {} ELSE {Parent(c)}
      BY <1>2, <1>3 DEF Placement
    <3>5. QED
      BY <1>1, <1>3, <3>2, <3>3, <3>4
  <2>2. \A i \in next_file'..Len(catalog.files') : Holders(FileChild(i))' = {}
    <3> TAKE i \in next_file'..Len(catalog.files')
    <3>1. i \in next_file..Len(catalog.files) /\ i # next_file
      BY <1>1, <1>4, <1>5
    <3>2. FileChild(i) # x /\ Holders(FileChild(i)) = {}
      BY <1>2, <3>1, ChildFacts DEF x, Placement
    <3>3. Holders(FileChild(i))' = HoldersIn(children', FileChild(i))
      BY HoldersAre
    <3>4. QED
      BY <1>6, <3>2, <3>3
  <2>3. \A d \in DOMAIN children' : IsInjective(children'[d])
    BY <1>6
  <2>4. QED
    BY <2>1, <2>2, <2>3 DEF Placement
<1>8. TreeShape'
  <2>1. next_file' \in 1..(Len(catalog.files') + 1)
    BY <1>1, <1>4, <1>5
  <2>2. QED
    BY <1>1, <1>2, <1>3, <1>6, <2>1 DEF TreeShape
<1>9. TopLevel'
  BY <1>1, <1>2, <1>3 DEF TopLevel
<1>10. LeavesTypeOK'
  BY <1>1, <1>2 DEF LeavesTypeOK, leafVars
<1>11. QED
  BY <1>1, <1>7, <1>8, <1>9, <1>10 DEF Inv, Early

(* The children of every folder are sorted: none is lost, none doubled.    *)
LEMMA ChildrenSorted ==
  ASSUME Inv, Finish
  PROVE  /\ DOMAIN children' = DOMAIN children
         /\ children' \in [DOMAIN children -> Seq(Child)]
         /\ \A d \in DOMAIN children : IsInjective(children'[d])
         /\ \A x : Holders(x)' = Holders(x)
<1>1. children' = [d \in DOMAIN children |-> ByName(children[d])]
  BY DEF Finish
<1>2. TreeShape /\ Placement
  BY DEF Inv
<1>3. DOMAIN children' = DOMAIN children
  BY <1>1
<1>4. ASSUME NEW d \in DOMAIN children
      PROVE  /\ children'[d] \in Seq(Child) /\ IsInjective(children'[d])
             /\ \A x : (\E k \in 1..Len(children'[d]) : children'[d][k] = x)
                         <=> \E k \in 1..Len(children[d]) : children[d][k] = x
  <2>1. children'[d] = ByName(children[d])
    BY <1>1
  <2>2. children[d] \in Seq(Child) /\ IsInjective(children[d])
    BY <1>2 DEF TreeShape, Placement
  <2> DEFINE list == children[d]
             new == ByName(list)
  <2>3. /\ new \in Seq(Child) /\ Len(new) = Len(list)
        /\ \A k \in 1..Len(list) :
             /\ \E i \in 1..Len(list) : new[k] = list[i]
             /\ \E i \in 1..Len(list) : new[i] = list[k]
        /\ IsInjective(new)
    <3> HIDE DEF list
    <3>1. list \in Seq(Child) /\ IsInjective(list)
      BY <2>2 DEF list
    <3>2. QED
      BY <1>2, <3>1, SortedFacts
  <2>4. children'[d] = new
    BY <2>1
  <2> HIDE DEF new, list
  <2>5. ASSUME NEW x
        PROVE  (\E k \in 1..Len(new) : new[k] = x)
                 <=> \E k \in 1..Len(list) : list[k] = x
    <3>1. ASSUME NEW k \in 1..Len(new), new[k] = x
          PROVE  \E i \in 1..Len(list) : list[i] = x
      BY <2>3, <3>1
    <3>2. ASSUME NEW k \in 1..Len(list), list[k] = x
          PROVE  \E i \in 1..Len(new) : new[i] = x
      BY <2>3, <3>2
    <3>3. QED
      BY <3>1, <3>2
  <2>6. QED
    BY <2>3, <2>4, <2>5 DEF list
<1>5. \A x : HoldersIn(children', x) = Holders(x)
  BY <1>3, <1>4 DEF HoldersIn, Holders
<1>6. \A x : Holders(x)' = Holders(x)
  BY <1>5, HoldersAre
<1>7. children' \in [DOMAIN children -> Seq(Child)]
  <2> HIDE DEF Child
  <2>1. children' = [d \in DOMAIN children |-> children'[d]]
    BY <1>1
  <2>2. QED
    BY <1>4, <2>1
<1>8. QED
  BY <1>3, <1>4, <1>6, <1>7

LEMMA FinishStep ==
  ASSUME Inv, Finish, UNCHANGED leafVars
  PROVE  Inv'
<1>1. /\ pc = "files" /\ pc' = "done"
      /\ UNCHANGED <<records, catalog, pass, remaining, still_pending, nodes,
                     next_file>>
  BY DEF Finish
<1>2. LeavesTypeOK /\ TreeShape /\ Placement /\ TopLevel
  BY DEF Inv
<1>3. /\ Folders' = Folders /\ Child' = Child /\ SelfParented' = SelfParented
      /\ MaxIters' = MaxIters /\ \A c : Parent(c)' = Parent(c)
  BY <1>1, SameCatalog
<1>4. /\ DOMAIN children' = DOMAIN children
      /\ children' \in [DOMAIN children -> Seq(Child)]
      /\ \A d \in DOMAIN children : IsInjective(children'[d])
      /\ \A x : Holders(x)' = Holders(x)
  BY ChildrenSorted
<1>5. Placement'
  <2>1. \A c \in Folders' :
          Holders(FolderChild(c))' =
            IF c \in nodes' \cup SelfParented' THEN {} ELSE {Parent(c)'}
    <3> TAKE c \in Folders'
    <3>1. Holders(FolderChild(c))' = Holders(FolderChild(c))
      BY <1>4
    <3>2. QED
      BY <1>1, <1>2, <1>3, <3>1 DEF Placement
  <2>2. \A i \in next_file'..Len(catalog.files') : Holders(FileChild(i))' = {}
    BY <1>1, <1>2, <1>4 DEF Placement
  <2>3. QED
    BY <1>4, <2>1, <2>2 DEF Placement
<1>6. TreeShape'
  BY <1>1, <1>2, <1>3, <1>4 DEF TreeShape
<1>7. TopLevel'
  BY <1>1, <1>2, <1>3 DEF TopLevel
<1>8. LeavesTypeOK'
  BY <1>1, <1>2 DEF LeavesTypeOK, leafVars
<1>9. QED
  BY <1>1, <1>5, <1>6, <1>7, <1>8 DEF Inv, Early

-----------------------------------------------------------------------------
(* On every volume: the records listed are records of the catalog, each    *)
(* folder is a placeholder or placed where it belongs, and the top level   *)
(* is on its way (build_tree of hfsplus.rs).                               *)
THEOREM Invariance == Spec => []Inv
<1>1. Init => Inv
  BY InitInv
<1>2. Inv /\ [Next]_vars => Inv'
  <2> SUFFICES ASSUME Inv, [Next]_vars PROVE Inv'
    OBVIOUS
  <2>1. CASE LeavesNext /\ UNCHANGED treeVars
    BY <2>1, LeavesStep
  <2>2. CASE TreeNext /\ UNCHANGED leafVars
    BY <2>2, IndexStep, AttachFolderStep, KeepPendingStep, EndPassStep,
       AttachFileStep, FinishStep DEF TreeNext
  <2>3. CASE UNCHANGED vars
    <3>1. UNCHANGED <<pc, records, leafVars, treeVars>>
      BY <2>3 DEF vars
    <3>2. TreeShape' /\ Placement' /\ (Untouched <=> Untouched')
      BY <3>1, SameTree DEF Inv
    <3>3. /\ UNCHANGED <<volume, first_leaf, visited, error>>
          /\ UNCHANGED <<catalog, remaining, nodes>>
      BY <3>1 DEF leafVars, treeVars
    <3>4. LeavesTypeOK'
      BY <3>1, <3>3 DEF Inv, LeavesTypeOK
    <3>5. TopLevel'
      BY <3>1, <3>3 DEF Inv, TopLevel, Folders, Parent
    <3>6. QED
      BY <3>1, <3>2, <3>4, <3>5 DEF Inv, Early
  <2>4. QED
    BY <2>1, <2>2, <2>3 DEF Next
<1>3. QED
  BY <1>1, <1>2, PTL DEF Spec

(* On every volume, healthy or damaged, in every order of the map: a       *)
(* folder is a placeholder, or a child of the folder its record names and  *)
(* of no other, exactly once; only one that is its own parent is lost.     *)
THEOREM FoldersArePlacedOnce == Spec => []PlacedOnce
<1>1. Inv => PlacedOnce
  <2> SUFFICES ASSUME Inv PROVE PlacedOnce
    OBVIOUS
  <2>1. \A c \in Folders \ SelfParented :
          Holders(FolderChild(c)) = IF c \in nodes THEN {} ELSE {Parent(c)}
    BY DEF Inv, Placement
  <2>2. \A d \in DOMAIN children : IsInjective(children[d])
    BY DEF Inv, Placement
  <2>3. QED
    BY <2>1, <2>2 DEF PlacedOnce
<1>2. QED
  BY <1>1, Invariance, PTL

(* However the map is iterated and however many passes are made: when the  *)
(* files' turn comes, every folder directly under the root is attached.    *)
THEOREM TopLevelIsComplete == Spec => []TopLevelComplete
<1>1. Inv => TopLevelComplete
  BY DEF Inv, TopLevel, TopLevelComplete
<1>2. QED
  BY <1>1, Invariance, PTL

(* Both halves keep their types, on every volume.                          *)
THEOREM Types == Spec => []TypeOK
<1>1. Inv => TypeOK
  <2> SUFFICES ASSUME Inv PROVE TypeOK
    OBVIOUS
  <2>1. TreeShape /\ LeavesTypeOK
    BY DEF Inv
  <2>2. TreeTypeOK
    <3>1. /\ DOMAIN catalog.folder_map = Folders
          /\ FolderInfo = [name : Name, parent_cnid : Cnid]
          /\ FileRecords = { r \in CatalogRecord : r.kind = "file" }
          /\ Child = [kind : {"folder"}, id : Folders] \cup
                       [kind : {"file"}, id : 1..Len(catalog.files)]
      BY DEF Folders, FolderInfo, FileRecords, Child
    <3>2. QED
      BY <2>1, <3>1 DEF TreeShape, TreeTypeOK
  <2>3. QED
    BY <2>1, <2>2 DEF Inv, TypeOK
<1>2. QED
  BY <1>1, Invariance, PTL

-----------------------------------------------------------------------------
(* The blocks of a fork: which extent has the n-th, if any.                *)
Count(fork) == [i \in 1..MaxExtents |-> fork.extents[i].count]
Has(f, i, n) == f[i - 1] <= n /\ n < f[i]
LEMMA ForkFacts ==
  ASSUME NEW fork \in Fork
  PROVE  /\ \A i \in 1..MaxExtents :
              fork.extents[i].start \in Nat /\ fork.extents[i].count \in Nat
         /\ fork.total_blocks \in Nat /\ fork.logical_size \in Nat
         /\ MaxExtents \in Nat /\ 1 \in 1..MaxExtents
  BY ExtentsAssumption DEF Fork

LEMMA Blocks ==
  ASSUME NEW fork \in Fork
  PROVE  \E f : /\ Sums(f, MaxExtents, Count(fork))
                /\ \A n \in Nat :
                     /\ (\A i \in 1..MaxExtents : ~Has(f, i, n))
                          => BlockAt(fork, n) = NoValue
                     /\ \A i \in 1..MaxExtents :
                          Has(f, i, n) =>
                            BlockAt(fork, n)
                              = fork.extents[i].start + (n - f[i - 1])
<1> DEFINE M == MaxExtents
           Rule(b) == [i \in 1..(M + 1) |->
             IF i = 1 THEN 0 ELSE b[i - 1] + fork.extents[i - 1].count]
           before == CHOOSE b : b = Rule(b)
<1>1. /\ M \in Nat /\ 1 \in 1..M
      /\ \A i \in 1..M : Count(fork)[i] = fork.extents[i].count
      /\ \A i \in 1..M : Count(fork)[i] \in Nat
  BY ForkFacts DEF Count
<1> HIDE DEF M
<1>2. PICK s : s \in [0..M -> Nat] /\ Sums(s, M, Count(fork))
  BY <1>1, SumsExist
<1>3. before = Rule(before)
  <2> DEFINE b == [i \in 1..(M + 1) |-> s[i - 1]]
  <2>1. ASSUME NEW i \in 1..(M + 1), i # 1
        PROVE  b[i] = b[i - 1] + fork.extents[i - 1].count
    <3>1. i - 1 \in 1..M /\ i - 1 \in 1..(M + 1)
      BY <1>1, <2>1
    <3>2. s[i - 1] = s[i - 1 - 1] + Count(fork)[i - 1]
      BY <1>2, <3>1 DEF Sums
    <3>3. QED
      BY <1>1, <3>1, <3>2
  <2>2. 1 - 1 = 0
    OBVIOUS
  <2>3. ASSUME NEW i \in 1..(M + 1) PROVE b[i] = Rule(b)[i]
    BY <1>2, <2>1, <2>2 DEF Sums
  <2>4. b = Rule(b)
    <3>1. DOMAIN b = 1..(M + 1) /\ DOMAIN Rule(b) = 1..(M + 1)
      OBVIOUS
    <3>2. QED
      BY <2>3, <3>1
  <2> HIDE DEF b, Rule
  <2>5. QED
    BY <2>4
<1> DEFINE f == [i \in 0..M |-> before[i + 1]]
<1>4. Sums(f, M, Count(fork)) /\ \A i \in 1..M : f[i - 1] = before[i] /\ f[i] = before[i + 1]
  <2> HIDE DEF before
  <2>1. f[0] = 0
    <3>1. 0 \in 0..M /\ 0 + 1 = 1 /\ 1 \in 1..(M + 1)
      BY <1>1
    <3>2. before[1] = 0
      BY <1>3, <3>1
    <3>3. QED
      BY <3>1, <3>2
  <2>2. ASSUME NEW i \in 1..M
        PROVE  /\ f[i - 1] = before[i] /\ f[i] = before[i + 1]
               /\ f[i] = f[i - 1] + Count(fork)[i]
    <3>1. /\ i - 1 \in 0..M /\ i \in 0..M /\ (i - 1) + 1 = i
          /\ i + 1 \in 1..(M + 1) /\ i + 1 # 1 /\ (i + 1) - 1 = i
      BY <1>1
    <3>2. before[i + 1] = before[i] + fork.extents[i].count
      BY <1>3, <3>1
    <3>3. QED
      BY <1>1, <3>1, <3>2
  <2>3. QED
    BY <2>1, <2>2 DEF Sums
<1>5. /\ \A i \in 0..M : f[i] \in Nat
      /\ \A i, j \in 0..M : i <= j => f[i] <= f[j]
  <2> HIDE DEF f
  <2>1. QED
    BY <1>1, <1>4, SumsGrow
<1>6. ASSUME NEW n \in Nat
      PROVE  /\ (\A i \in 1..M : ~Has(f, i, n)) => BlockAt(fork, n) = NoValue
             /\ \A i \in 1..M : Has(f, i, n) =>
                  BlockAt(fork, n) = fork.extents[i].start + (n - f[i - 1])
  <2> DEFINE of == { i \in 1..M : before[i] <= n /\ n < before[i + 1] }
             the == CHOOSE i \in of : TRUE
  <2>1. BlockAt(fork, n) =
          IF of = {} THEN NoValue
                     ELSE fork.extents[the].start + (n - before[the])
    BY DEF BlockAt, M
  <2> HIDE DEF before, f
  <2>2. \A i \in 1..M : i \in of <=> Has(f, i, n)
    BY <1>4 DEF Has
  <2>3. ASSUME NEW i \in of, NEW j \in of PROVE ~(i < j)
    <3>1. i \in 1..M /\ j \in 1..M /\ Has(f, i, n) /\ Has(f, j, n)
      BY <2>2
    <3>2. /\ i \in 0..M /\ j - 1 \in 0..M
          /\ f[i] \in Nat /\ f[j - 1] \in Nat /\ (i < j => i <= j - 1)
      BY <1>1, <1>5, <3>1
    <3>3. i < j => f[i] <= f[j - 1]
      BY <1>5, <3>2
    <3>4. QED
      BY <3>1, <3>2, <3>3 DEF Has
  <2>4. ASSUME NEW i \in of PROVE the = i
    <3>1. the \in of
      BY <2>4
    <3>2. the \in Nat /\ i \in Nat
      BY <3>1
    <3> HIDE DEF of, the
    <3>3. ~(i < the) /\ ~(the < i)
      BY <2>3, <2>4, <3>1
    <3>4. QED
      BY <3>2, <3>3
  <2>5. of = {} \/ the \in of
    OBVIOUS
  <2>6. (\A i \in 1..M : ~Has(f, i, n)) => of = {}
    BY <2>2
  <2> HIDE DEF the
  <2>7. ASSUME NEW i \in 1..M, Has(f, i, n)
        PROVE  BlockAt(fork, n) = fork.extents[i].start + (n - f[i - 1])
    <3>1. i \in of
      BY <2>2, <2>7
    <3>2. the = i /\ of # {}
      BY <2>4, <3>1
    <3>3. before[i] = f[i - 1]
      BY <1>4
    <3> HIDE DEF of
    <3>4. QED
      BY <2>1, <3>2, <3>3
  <2>8. QED
    BY <2>1, <2>6, <2>7
<1> HIDE DEF f
<1>7. QED
  BY <1>4, <1>6 DEF M

(* A fork in one extent is one run, and the extent is not empty.           *)
LEMMA SingleIsOneRun ==
  ASSUME NEW fork \in Fork, is_single_extent(fork)
  PROVE  /\ OneRun(fork) /\ BlockAt(fork, 0) = fork.extents[1].start
         /\ fork.extents[1].count # 0
<1>1. /\ MaxExtents \in Nat /\ 1 \in 1..MaxExtents
      /\ fork.extents[1].start \in Nat /\ fork.total_blocks \in Nat
      /\ fork.total_blocks # 0 /\ fork.extents[1].count = fork.total_blocks
  BY ForkFacts DEF is_single_extent
<1>2. PICK f : /\ Sums(f, MaxExtents, Count(fork))
               /\ \A n \in Nat : \A i \in 1..MaxExtents :
                    Has(f, i, n) => BlockAt(fork, n)
                                      = fork.extents[i].start + (n - f[i - 1])
  BY Blocks
<1>3. f[0] = 0 /\ f[1] = fork.total_blocks
  <2>1. f[1] = f[1 - 1] + Count(fork)[1] /\ f[0] = 0
    BY <1>1, <1>2 DEF Sums
  <2>2. Count(fork)[1] = fork.total_blocks
    BY <1>1 DEF Count
  <2>3. QED
    BY <1>1, <2>1, <2>2
<1>4. ASSUME NEW n \in 0..(fork.total_blocks - 1)
      PROVE  BlockAt(fork, n) = fork.extents[1].start + n
  <2>1. n \in Nat /\ f[1 - 1] = 0 /\ Has(f, 1, n)
    BY <1>1, <1>3 DEF Has
  <2>2. BlockAt(fork, n) = fork.extents[1].start + (n - f[1 - 1])
    BY <1>1, <1>2, <2>1
  <2>3. QED
    BY <1>1, <2>1, <2>2
<1>5. BlockAt(fork, 0) = fork.extents[1].start
  <2>1. 0 \in 0..(fork.total_blocks - 1)
    BY <1>1
  <2>2. QED
    BY <1>1, <1>4, <2>1
<1>6. OneRun(fork)
  BY <1>1, <1>4, <1>5, NoValueAssumption DEF OneRun
<1>7. QED
  BY <1>1, <1>5, <1>6

(* A run that is stored as volumes do is stored in one extent: where the   *)
(* first extent ends, only the run's own end can be.                       *)
LEMMA OneRunIsSingle ==
  ASSUME NEW fork \in Fork, OneRun(fork), IsTight(fork)
  PROVE  is_single_extent(fork)
<1> DEFINE M == MaxExtents
           C(i) == fork.extents[i].count
           S(i) == fork.extents[i].start
           total == fork.total_blocks
<1>1. /\ M \in Nat /\ 1 \in 1..M /\ total \in Nat
      /\ \A i \in 1..M : S(i) \in Nat /\ C(i) \in Nat
  BY ForkFacts
<1>2. PICK f : /\ Sums(f, M, Count(fork))
               /\ \A n \in Nat :
                    /\ (\A i \in 1..M : ~Has(f, i, n))
                         => BlockAt(fork, n) = NoValue
                    /\ \A i \in 1..M :
                         Has(f, i, n) => BlockAt(fork, n)
                                           = S(i) + (n - f[i - 1])
  BY Blocks
<1>3. /\ total # 0 /\ BlockAt(fork, 0) # NoValue
      /\ \A n \in 0..(total - 1) : BlockAt(fork, n) = BlockAt(fork, 0) + n
      /\ \A i \in 2..M : C(i) # 0 => C(i - 1) # 0 /\ S(i) # S(i - 1) + C(i - 1)
      /\ BlockAt(fork, total) = NoValue
  BY DEF OneRun, IsTight
<1> HIDE DEF M, C, S, total
<1>4. /\ f[0] = 0
      /\ \A i \in 1..M : f[i] = f[i - 1] + C(i)
      /\ \A i \in 0..M : f[i] \in Nat
      /\ \A i, j \in 0..M : i <= j => f[i] <= f[j]
  <2>1. \A i \in 1..M : Count(fork)[i] = C(i) /\ C(i) \in Nat
    BY <1>1 DEF Count, M, C
  <2>2. /\ \A i \in 0..M : f[i] \in Nat
        /\ \A i, j \in 0..M : i <= j => f[i] <= f[j]
    BY <1>1, <1>2, <2>1, SumsGrow
  <2>3. QED
    BY <1>2, <2>1, <2>2 DEF Sums
(* An extent that is not empty makes all before it not empty.              *)
<1>5. ASSUME NEW i \in 1..M, C(i) # 0, NEW j \in 1..M, j <= i
      PROVE  C(j) # 0
  <2> DEFINE T == { k \in 0..M : i - k \in 1..M => C(i - k) # 0 }
  <2>1. 0 \in T
    <3>1. i - 0 = i /\ 0 \in 0..M
      BY <1>1
    <3>2. QED
      BY <1>5, <3>1
  <2>2. ASSUME NEW k \in 1..M, k - 1 \in T PROVE k \in T
    <3>1. CASE i - k \in 1..M
      <4>1. i - (k - 1) \in 2..M /\ i - (k - 1) \in 1..M
        BY <1>1, <3>1
      <4>2. C(i - (k - 1)) # 0
        BY <2>2, <4>1
      <4>3. C(i - (k - 1) - 1) # 0
        BY <1>3, <4>1, <4>2
      <4>4. i - (k - 1) - 1 = i - k
        BY <1>1
      <4>5. QED
        BY <1>1, <4>3, <4>4
    <3>2. QED
      BY <1>1, <3>1
  <2>3. 0..M \subseteq T
    <3> HIDE DEF T
    <3>1. QED
      BY <1>1, <2>1, <2>2, UpTo
  <2>4. i - j \in 0..M /\ i - (i - j) = j
    BY <1>1, <1>5
  <2>5. QED
    BY <2>3, <2>4
<1>6. \A n \in Nat : BlockAt(fork, n) # NoValue =>
                       \E i \in 1..M : Has(f, i, n)
  BY <1>2
<1>7. ASSUME NEW i \in 1..M, NEW n \in Nat, Has(f, i, n)
      PROVE  /\ C(i) # 0 /\ BlockAt(fork, n) = S(i) + (n - f[i - 1])
             /\ BlockAt(fork, n) # NoValue
  <2>1. i - 1 \in 0..M /\ i \in 0..M
    BY <1>1
  <2>2. f[i - 1] \in Nat /\ f[i] \in Nat /\ f[i] = f[i - 1] + C(i)
    BY <1>4, <2>1
  <2>3. C(i) \in Nat /\ S(i) \in Nat /\ f[i - 1] <= n /\ n < f[i]
    BY <1>1, <1>7 DEF Has
  <2>4. BlockAt(fork, n) = S(i) + (n - f[i - 1])
    BY <1>2, <1>7
  <2>5. S(i) + (n - f[i - 1]) \in Nat
    BY <2>2, <2>3
  <2>6. QED
    BY <2>2, <2>3, <2>4, <2>5, NoValueAssumption
<1>8. f[1] = C(1) /\ C(1) \in Nat /\ S(1) \in Nat
  <2>1. 1 - 1 = 0 /\ f[1] = f[1 - 1] + C(1)
    BY <1>1, <1>4
  <2>2. QED
    BY <1>1, <1>4, <2>1
<1>9. C(1) # 0
  <2>1. PICK i \in 1..M : Has(f, i, 0)
    BY <1>3, <1>6
  <2>2. C(i) # 0 /\ 1 <= i
    BY <1>7, <2>1
  <2>3. QED
    BY <1>1, <1>5, <2>2
<1>10. \A n \in Nat : n < C(1) => BlockAt(fork, n) = S(1) + n
  <2> TAKE n \in Nat
  <2> HAVE n < C(1)
  <2>1. f[1 - 1] = 0 /\ Has(f, 1, n)
    BY <1>4, <1>8 DEF Has
  <2>2. QED
    BY <1>1, <1>7, <1>8, <2>1
<1>11. BlockAt(fork, 0) = S(1)
  BY <1>8, <1>9, <1>10
(* Nothing else holds the block after the first extent but the second.     *)
<1>12. ASSUME NEW i \in 2..M, C(i) # 0
       PROVE  2 \in 1..M /\ BlockAt(fork, C(1)) = S(2) /\ C(2) # 0
  <2>1. 2 \in 1..M /\ 2 <= i /\ i \in 1..M
    BY <1>1
  <2>2. C(2) # 0 /\ C(2) \in Nat
    BY <1>1, <1>5, <1>12, <2>1
  <2>3. f[2] = f[1] + C(2) /\ 2 - 1 = 1
    BY <1>4, <2>1
  <2>4. Has(f, 2, C(1))
    BY <1>8, <2>2, <2>3 DEF Has
  <2>5. BlockAt(fork, C(1)) = S(2) + (C(1) - f[2 - 1])
    BY <1>7, <1>8, <2>1, <2>4
  <2>6. S(2) \in Nat
    BY <1>1, <2>1
  <2>7. QED
    BY <1>8, <2>1, <2>2, <2>3, <2>5, <2>6
<1>13. ~(C(1) < total)
  <2> SUFFICES ASSUME C(1) < total PROVE FALSE
    OBVIOUS
  <2>1. C(1) \in 0..(total - 1)
    BY <1>1, <1>8
  <2>2. BlockAt(fork, C(1)) = S(1) + C(1)
    BY <1>3, <1>11, <2>1
  <2>3. BlockAt(fork, C(1)) # NoValue
    <3>1. S(1) + C(1) \in Nat
      BY <1>8
    <3>2. QED
      BY <2>2, <3>1, NoValueAssumption
  <2>4. PICK i \in 1..M : Has(f, i, C(1))
    BY <1>6, <1>8, <2>3
  <2>5. C(i) # 0
    BY <1>7, <1>8, <2>4
  <2>6. i # 1
    BY <1>8, <2>4 DEF Has
  <2>7. i \in 2..M
    BY <2>6, <1>1
  <2>8. S(2) = S(1) + C(1) /\ C(2) # 0 /\ 2 \in 1..M
    BY <1>12, <2>2, <2>5, <2>7
  <2>9. 2 \in 2..M /\ 2 - 1 = 1
    BY <1>1, <2>8
  <2>10. QED
    BY <1>3, <2>8, <2>9
<1>14. ~(total < C(1))
  <2> SUFFICES ASSUME total < C(1) PROVE FALSE
    OBVIOUS
  <2>1. BlockAt(fork, total) = S(1) + total
    BY <1>1, <1>10
  <2>2. S(1) + total \in Nat
    BY <1>1, <1>8
  <2>3. QED
    BY <1>3, <2>1, <2>2, NoValueAssumption
<1>15. C(1) = total
  BY <1>1, <1>8, <1>13, <1>14
<1>16. ASSUME NEW i \in 2..M PROVE C(i) = 0
  <2> SUFFICES ASSUME C(i) # 0 PROVE FALSE
    OBVIOUS
  <2>1. BlockAt(fork, total) = S(2) /\ 2 \in 1..M
    BY <1>12, <1>15
  <2>2. QED
    BY <1>1, <1>3, <2>1, NoValueAssumption
<1>17. QED
  BY <1>3, <1>15, <1>16 DEF is_single_extent, M, C, total

-----------------------------------------------------------------------------
(* What FilesAreLocated says of one record, and of the item it was.        *)
IsFrom(r, item) ==
  /\ <<item.type, item.parent_cnid, item.name>>
       = <<"file", r.parent_cnid, r.name>>
  /\ r.file_location # NoValue =>
       /\ OneRun(item.fork)
       /\ r.file_location = BlockAt(item.fork, 0) * volume.block_size
  /\ OneRun(item.fork) /\ IsTight(item.fork) => r.file_location # NoValue
HasSource(r) ==
  \E offset \in DOMAIN volume.nodes :
    \E i \in DOMAIN volume.nodes[offset].items :
      IsFrom(r, volume.nodes[offset].items[i])

LEMMA FileIsFrom ==
  ASSUME volume \in Volumes, NEW item \in Item, RecordOf(item).kind = "file"
  PROVE  IsFrom(RecordOf(item), item)
<1> DEFINE location == IF is_single_extent(item.fork)
                         THEN first_extent_offset(item.fork) ELSE NoValue
           r == FileRecord(item.parent_cnid, item.name, item.fork.logical_size,
                           location)
<1>1. item.type = "file" /\ item.fork \in Fork
  BY DEF Item, RecordOf, FolderRecord, Thread
<1>2. RecordOf(item) = r
  BY <1>1 DEF RecordOf
<1>3. /\ r.parent_cnid = item.parent_cnid /\ r.name = item.name
      /\ r.file_location = location
  BY DEF FileRecord
<1>4. location # NoValue => /\ OneRun(item.fork)
                            /\ location = BlockAt(item.fork, 0) * volume.block_size
  <2> SUFFICES ASSUME location # NoValue
               PROVE  /\ OneRun(item.fork)
                      /\ location = BlockAt(item.fork, 0) * volume.block_size
    OBVIOUS
  <2>1. is_single_extent(item.fork)
    OBVIOUS
  <2>2. /\ OneRun(item.fork) /\ BlockAt(item.fork, 0) = item.fork.extents[1].start
        /\ item.fork.extents[1].count # 0
    BY <1>1, <2>1, SingleIsOneRun
  <2>3. location = item.fork.extents[1].start * volume.block_size
    BY <2>1, <2>2 DEF first_extent_offset
  <2>4. QED
    BY <2>2, <2>3
<1>5. OneRun(item.fork) /\ IsTight(item.fork) => location # NoValue
  <2> SUFFICES ASSUME OneRun(item.fork), IsTight(item.fork)
               PROVE  location # NoValue
    OBVIOUS
  <2>1. is_single_extent(item.fork)
    BY <1>1, OneRunIsSingle
  <2>2. item.fork.extents[1].count # 0
    BY <1>1, <2>1, SingleIsOneRun
  <2>3. location = item.fork.extents[1].start * volume.block_size
    BY <2>1, <2>2 DEF first_extent_offset
  <2>4. volume.block_size \in Nat /\ item.fork.extents[1].start \in Nat
    BY <1>1, ForkFacts, VolumesAssumption DEF IsVolume
  <2>5. location \in Nat
    BY <2>3, <2>4
  <2>6. QED
    BY <2>5, NoValueAssumption
<1> HIDE DEF location, r
<1>6. QED
  BY <1>1, <1>2, <1>3, <1>4, <1>5 DEF IsFrom

(* A step adds no records but those of one leaf node of the volume.        *)
LEMMA NewRecords ==
  ASSUME LeavesTypeOK, [Next]_vars
  PROVE  /\ volume' = volume
         /\ \/ records' = records
            \/ ReadLeaf /\ UNCHANGED treeVars
<1>1. CASE LeavesNext /\ UNCHANGED treeVars
  BY <1>1 DEF LeavesNext, BadHeader, ParseHeader, BadNode0, ReadNode0, TooDeep,
     ReadLeaf, SkipNode, EndOfImage, ReadFails, Fail, LeafFails, leafVars
<1>2. CASE TreeNext /\ UNCHANGED leafVars
  BY <1>2 DEF TreeNext, Index, AttachFolder, KeepPending, EndPass, AttachFile,
     Finish, leafVars
<1>3. CASE UNCHANGED vars
  BY <1>3 DEF vars, leafVars
<1>4. QED
  BY <1>1, <1>2, <1>3 DEF Next

LEMMA LocatedStep ==
  ASSUME LeavesTypeOK, FilesAreLocated, [Next]_vars
  PROVE  FilesAreLocated'
<1>1. volume' = volume
  BY NewRecords
<1>2. ASSUME records' = records PROVE FilesAreLocated'
  BY <1>1, <1>2 DEF FilesAreLocated
<1>3. ASSUME ReadLeaf PROVE FilesAreLocated'
  <2> DEFINE node == NodeAt(NodeOffset)
             new == RecordsOf(node)
  <2>1. volume \in Volumes /\ records \in Seq(CatalogRecord)
    BY DEF LeavesTypeOK
  <2>2. node.kind = "leaf" /\ records' = records \o new
    BY <1>3 DEF ReadLeaf
  <2>3. NodeOffset \in DOMAIN volume.nodes /\ node = volume.nodes[NodeOffset]
    BY <2>2 DEF NodeAt, OtherData
  <2>4. node \in BTreeNode
    BY <2>1, NodeAtType
  <2>5. node.items \in Seq(Item)
    BY <2>4 DEF BTreeNode
  <2> DEFINE X == { RecordOf(node.items[i]) : i \in 1..Len(node.items) }
  <2>6. new \in Seq(X)
    BY <2>1, <2>4, RecordsOfItems
  <2>7. ASSUME NEW r \in X, r.kind = "file" PROVE HasSource(r)
    <3>1. PICK i \in 1..Len(node.items) : r = RecordOf(node.items[i])
      OBVIOUS
    <3>2. node.items[i] \in Item /\ i \in DOMAIN node.items
      <4> HIDE DEF Item, node
      <4>1. QED
        BY <2>5, <3>1, ElementOfSeq, LenProperties
    <3>3. IsFrom(r, node.items[i])
      BY <2>1, <2>7, <3>1, <3>2, FileIsFrom
    <3>4. QED
      BY <2>3, <3>2, <3>3 DEF HasSource
  <2>8. ASSUME NEW k \in DOMAIN records' , records'[k].kind = "file"
        PROVE  HasSource(records'[k])
    <3> HIDE DEF new, X, CatalogRecord
    <3>1. /\ Len(records) \in Nat /\ Len(new) \in Nat
          /\ DOMAIN records = 1..Len(records)
          /\ \A i \in 1..Len(new) : new[i] \in X
      BY <2>1, <2>6, LenProperties, ElementOfSeq
    <3>2. /\ DOMAIN records' = 1..(Len(records) + Len(new))
          /\ \A i \in 1..(Len(records) + Len(new)) :
               records'[i] = IF i <= Len(records) THEN records[i]
                                                  ELSE new[i - Len(records)]
      <4> DEFINE all == records \o new
      <4>1. records \in Seq(CatalogRecord \cup X) /\ new \in Seq(CatalogRecord \cup X)
        BY <2>1, <2>6
      <4>2. /\ all \in Seq(CatalogRecord \cup X)
            /\ Len(all) = Len(records) + Len(new)
            /\ \A i \in 1..(Len(records) + Len(new)) :
                 all[i] = IF i <= Len(records) THEN records[i]
                                               ELSE new[i - Len(records)]
        BY <4>1, ConcatProperties
      <4> HIDE DEF all
      <4>3. DOMAIN all = 1..Len(all)
        BY <4>2, LenProperties
      <4>4. QED
        BY <2>2, <4>2, <4>3 DEF all
    <3>3. CASE k <= Len(records)
      <4>1. k \in DOMAIN records /\ records'[k] = records[k]
        BY <2>8, <3>1, <3>2, <3>3
      <4>2. HasSource(records[k])
        BY <2>8, <4>1 DEF FilesAreLocated, HasSource, IsFrom
      <4>3. QED
        BY <4>1, <4>2
    <3>4. CASE ~(k <= Len(records))
      <4>1. k - Len(records) \in 1..Len(new)
        BY <2>8, <3>1, <3>2, <3>4
      <4>2. records'[k] = new[k - Len(records)]
        BY <2>8, <3>2, <3>4
      <4>3. QED
        BY <2>7, <2>8, <3>1, <4>1, <4>2
    <3>5. QED
      BY <3>3, <3>4
  <2>9. QED
    BY <1>1, <2>8 DEF FilesAreLocated, HasSource, IsFrom
<1>4. QED
  BY <1>2, <1>3, NewRecords

(* On every volume, however damaged: a file of the catalog is given a      *)
(* location only if its data is one run of blocks that begins there, and a *)
(* fork in one run that is stored as volumes do is given one               *)
(* (parse_leaf_node_records and ForkData of hfsplus.rs).                   *)
THEOREM FilesHaveTheirLocation == Spec => []FilesAreLocated
<1>1. Init => FilesAreLocated
  <2> SUFFICES ASSUME Init PROVE FilesAreLocated
    OBVIOUS
  <2>1. records = <<>>
    BY DEF Init, InitLeaves
  <2>2. DOMAIN records = {}
    BY <2>1
  <2>3. QED
    BY <2>2 DEF FilesAreLocated
<1>2. Inv => LeavesTypeOK
  BY DEF Inv
<1>3. LeavesTypeOK /\ FilesAreLocated /\ [Next]_vars => FilesAreLocated'
  BY LocatedStep
<1>4. QED
  BY <1>1, <1>2, <1>3, Invariance, PTL DEF Spec

-----------------------------------------------------------------------------
(* A catalog that is not damaged: its size, the chain of its leaf nodes,   *)
(* and what the first of them list.                                        *)
LastNode == Cardinality(FileNodes)
End == CHOOSE k \in LastLink : \A j \in LastLink : k <= j
IsChain ==
  /\ Chain[0] = volume.header.first_leaf_node
  /\ \A k \in 1..LastNode :
       Chain[k] = IF Chain[k - 1] \in FileNodes
                    THEN FileNode(Chain[k - 1]).f_link ELSE Chain[k - 1]
  /\ \A k \in 0..LastNode : Chain[k] \in Nat
  /\ DOMAIN Chain = 0..LastNode
IsListing ==
  /\ ListedBy[0] = <<>>
  /\ \A k \in 1..LastNode : ListedBy[k] = ListedBy[k - 1] \o Listing(Chain[k - 1])
  /\ \A k \in 0..LastNode : ListedBy[k] \in Seq(CatalogRecord)

LEMMA CatalogSizes ==
  ASSUME volume \in Volumes, CatOffset # NoValue, Node0Error = "none"
  PROVE  /\ CatOffset \in Nat /\ NodeSize \in Nat \ {0} /\ NodesInFile \in Nat
         /\ NodesInFile * NodeSize <= volume.cat_file.logical_size
         /\ volume.cat_file.logical_size \in Nat /\ volume.length \in Nat
         /\ LastNode \in Nat /\ LastNode <= NodesInFile
         /\ FileNodes \subseteq Nat
<1>1. /\ volume.cat_file \in Fork /\ volume.header.node_size \in Nat
      /\ volume.length \in Nat /\ volume.block_size \in Nat
  BY VolumesAssumption DEF IsVolume, HeaderNode
<1>2. CatOffset \in Nat
  <2>1. volume.cat_file.extents[1].start \in Nat
    BY <1>1, ForkFacts
  <2>2. CatOffset = volume.cat_file.extents[1].start * volume.block_size
    BY DEF CatOffset, first_extent_offset
  <2>3. QED
    BY <1>1, <2>1, <2>2, Products
<1>3. NodeSize \in Nat \ {0}
  BY <1>1, MinNodeAssumption DEF Node0Error, NodeSize
<1>4. volume.cat_file.logical_size \in Nat
  BY <1>1, ForkFacts
<1>5. NodesInFile \in Nat /\ NodesInFile * NodeSize <= volume.cat_file.logical_size
  BY <1>3, <1>4, FloorFacts DEF NodesInFile
<1>6. LastNode \in Nat /\ LastNode <= NodesInFile
  <2> DEFINE n == NodesInFile
  <2> HIDE DEF n
  <2>1. n \in Nat /\ 1 \in Int /\ n - 1 \in Int
    BY <1>5 DEF n
  <2>2. Cardinality(1..(n - 1)) = IF 1 > n - 1 THEN 0 ELSE (n - 1) - 1 + 1
    BY <2>1, FS_Interval
  <2>3. Cardinality(1..(n - 1)) \in Nat /\ Cardinality(1..(n - 1)) <= n
    BY <2>1, <2>2
  <2>4. QED
    BY <2>3 DEF LastNode, FileNodes, n
<1>7. QED
  BY <1>1, <1>2, <1>3, <1>4, <1>5, <1>6 DEF FileNodes

LEMMA ChainFacts ==
  ASSUME volume \in Volumes, LastNode \in Nat
  PROVE  IsChain
<1> DEFINE Rule(f) == [k \in 0..LastNode |->
             IF k = 0 THEN volume.header.first_leaf_node
             ELSE IF f[k - 1] \in FileNodes
                    THEN FileNode(f[k - 1]).f_link ELSE f[k - 1]]
           next == [i \in Nat |-> [n \in Nat |->
             IF n \in FileNodes THEN FileNode(n).f_link ELSE n]]
           first == volume.header.first_leaf_node
<1>1. Chain = CHOOSE f : f = Rule(f)
  BY DEF Chain, LastNode
<1>2. first \in Nat
  BY VolumesAssumption DEF IsVolume, HeaderNode
<1>3. next \in [Nat -> [Nat -> Nat]]
  <2>1. \A n : FileNode(n).f_link \in Nat
    BY NodeAtType DEF FileNode, BTreeNode
  <2>2. QED
    BY <2>1
<1>4. PICK f : Recursion(f, LastNode, Nat, first, next)
  <2> HIDE DEF first, next
  <2>1. QED
    BY <1>2, <1>3, RecursionExists
<1>5. f = Rule(f)
  <2>1. f \in [0..LastNode -> Nat] /\ f[0] = first
        /\ \A i \in 1..LastNode : f[i] = next[i][f[i - 1]]
    BY <1>4 DEF Recursion
  <2>2. ASSUME NEW k \in 0..LastNode, k # 0
        PROVE  f[k] = IF f[k - 1] \in FileNodes
                        THEN FileNode(f[k - 1]).f_link ELSE f[k - 1]
    <3>1. k \in 1..LastNode /\ k \in Nat /\ k - 1 \in 0..LastNode
      BY <2>2
    <3>2. f[k - 1] \in Nat /\ f[k] = next[k][f[k - 1]]
      BY <2>1, <3>1
    <3>3. QED
      BY <3>1, <3>2
  <2>3. \A k \in 0..LastNode : f[k] = Rule(f)[k]
    BY <2>1, <2>2
  <2>4. QED
    BY <2>1, <2>3
<1>6. Chain = Rule(Chain)
  <2> HIDE DEF Rule
  <2>1. QED
    BY <1>1, <1>5
<1> HIDE DEF next
<1>7. DOMAIN Chain = 0..LastNode /\ Chain[0] = first
  BY <1>6
<1>8. ASSUME NEW k \in 1..LastNode
      PROVE  Chain[k] = IF Chain[k - 1] \in FileNodes
                          THEN FileNode(Chain[k - 1]).f_link ELSE Chain[k - 1]
  <2>1. k \in 0..LastNode /\ k # 0
    OBVIOUS
  <2>2. QED
    BY <1>6, <2>1
<1>9. \A k \in 0..LastNode : Chain[k] \in Nat
  <2>1. \A n : FileNode(n).f_link \in Nat
    BY NodeAtType DEF FileNode, BTreeNode
  <2>2. \A k \in 1..LastNode : Chain[k - 1] \in Nat => Chain[k] \in Nat
    BY <1>8, <2>1
  <2>3. QED
    BY <1>2, <1>7, <2>2, ValuesUpTo
<1>10. QED
  BY <1>7, <1>8, <1>9 DEF IsChain

LEMMA ListingFacts ==
  ASSUME volume \in Volumes, LastNode \in Nat
  PROVE  IsListing
<1> DEFINE X == CatalogRecord
           list(k) == Listing(Chain[k - 1])
           Rule(f) == [k \in 0..LastNode |->
             IF k = 0 THEN <<>> ELSE f[k - 1] \o list(k)]
           next == [i \in Nat |-> [s \in Seq(X) |-> s \o list(i)]]
<1>1. ListedBy = CHOOSE f : f = Rule(f)
  BY DEF ListedBy, LastNode
<1>2. \A k : list(k) \in Seq(X)
  BY RecordsOfType, NodeAtType, EmptySeq DEF Listing, FileNode
<1> HIDE DEF X, list
<1>3. next \in [Nat -> [Seq(X) -> Seq(X)]]
  BY <1>2, ConcatProperties
<1>4. PICK f : Recursion(f, LastNode, Seq(X), <<>>, next)
  <2> HIDE DEF next
  <2>1. <<>> \in Seq(X)
    BY EmptySeq
  <2>2. QED
    BY <1>3, <2>1, RecursionExists
<1>5. f = Rule(f)
  <2>1. f \in [0..LastNode -> Seq(X)] /\ f[0] = <<>>
        /\ \A i \in 1..LastNode : f[i] = next[i][f[i - 1]]
    BY <1>4 DEF Recursion
  <2>2. ASSUME NEW k \in 0..LastNode, k # 0
        PROVE  f[k] = f[k - 1] \o list(k)
    <3>1. k \in 1..LastNode /\ k \in Nat /\ k - 1 \in 0..LastNode
      BY <2>2
    <3>2. f[k - 1] \in Seq(X) /\ f[k] = next[k][f[k - 1]]
      BY <2>1, <3>1
    <3>3. QED
      BY <3>1, <3>2
  <2>3. \A k \in 0..LastNode : f[k] = Rule(f)[k]
    BY <2>1, <2>2
  <2>4. QED
    BY <2>1, <2>3
<1>6. ListedBy = Rule(ListedBy)
  <2> HIDE DEF Rule
  <2>1. QED
    BY <1>1, <1>5
<1> HIDE DEF next
<1>7. ListedBy[0] = <<>>
  BY <1>6
<1>8. ASSUME NEW k \in 1..LastNode
      PROVE  ListedBy[k] = ListedBy[k - 1] \o list(k)
  <2>1. k \in 0..LastNode /\ k # 0
    OBVIOUS
  <2>2. QED
    BY <1>6, <2>1
<1>9. \A k \in 0..LastNode : ListedBy[k] \in Seq(X)
  <2>1. ASSUME NEW k \in 1..LastNode, ListedBy[k - 1] \in Seq(X)
        PROVE  ListedBy[k] \in Seq(X)
    <3>1. ListedBy[k - 1] \o list(k) \in Seq(X)
      BY <1>2, <2>1, ConcatProperties
    <3>2. QED
      BY <1>8, <3>1
  <2>2. ListedBy[0] \in Seq(X)
    BY <1>7, EmptySeq
  <2>3. QED
    BY <2>1, <2>2, ValuesUpTo
<1>10. QED
  BY <1>7, <1>8, <1>9 DEF IsListing, X, list

(* Up to the first link to node 0 the chain leads through nodes of the     *)
(* file: it would stay for ever at another one.                            *)
LEMMA EndFacts ==
  ASSUME volume \in Volumes, IsWhole
  PROVE  /\ End \in 0..LastNode /\ Chain[End] = 0
         /\ \A k \in 0..(End - 1) :
              Chain[k] \in FileNodes /\ Chain[k] # 0
                /\ k + 1 \in 1..LastNode
                /\ Chain[k + 1] = FileNode(Chain[k]).f_link
                /\ ListedBy[k + 1] = ListedBy[k] \o Listing(Chain[k])
<1>1. LastNode \in Nat /\ IsChain /\ IsListing /\ LastLink # {}
  BY CatalogSizes, ChainFacts, ListingFacts DEF IsWhole
<1>2. \A k : k \in LastLink <=> k \in 0..LastNode /\ Chain[k] = 0
  BY <1>1 DEF LastLink, IsChain
<1>3. /\ End \in 0..LastNode /\ Chain[End] = 0
      /\ \A j \in 0..LastNode : Chain[j] = 0 => End <= j
  <2>1. LastLink \in SUBSET Nat
    BY <1>1, <1>2
  <2> HIDE DEF LastLink
  <2>2. \E x \in LastLink : \A y \in LastLink : x <= y
    BY <1>1, <2>1, LeastElement
  <2>3. End \in LastLink /\ \A j \in LastLink : End <= j
    BY <2>2 DEF End
  <2>4. QED
    BY <1>2, <2>3
<1> HIDE DEF End
<1>4. ASSUME NEW k \in 0..(End - 1), Chain[k] \notin FileNodes
      PROVE  \A i \in 0..LastNode : k <= i => Chain[i] = Chain[k]
  <2> DEFINE S == { i \in 0..LastNode : k <= i => Chain[i] = Chain[k] }
  <2>1. k \in Nat /\ 0 \in S
    BY <1>1, <1>4
  <2>2. ASSUME NEW i \in 1..LastNode, i - 1 \in S PROVE i \in S
    <3>1. i \in 0..LastNode /\ i - 1 \in 0..LastNode /\ i \in Nat
      BY <1>1
    <3>2. Chain[i] = IF Chain[i - 1] \in FileNodes
                       THEN FileNode(Chain[i - 1]).f_link ELSE Chain[i - 1]
      BY <1>1 DEF IsChain
    <3>3. k <= i - 1 => Chain[i] = Chain[k]
      BY <1>4, <2>2, <3>2
    <3>4. k <= i => k <= i - 1 \/ i = k
      BY <2>1, <3>1
    <3>5. QED
      BY <3>1, <3>3, <3>4
  <2>3. 0..LastNode \subseteq S
    <3> HIDE DEF S
    <3>1. QED
      BY <1>1, <2>1, <2>2, UpTo
  <2>4. QED
    BY <2>3
<1>5. ASSUME NEW k \in 0..(End - 1)
      PROVE  /\ Chain[k] \in FileNodes /\ Chain[k] # 0
             /\ k + 1 \in 1..LastNode
             /\ Chain[k + 1] = FileNode(Chain[k]).f_link
             /\ ListedBy[k + 1] = ListedBy[k] \o Listing(Chain[k])
  <2>1. /\ k \in 0..LastNode /\ k + 1 \in 1..LastNode /\ (k + 1) - 1 = k
        /\ ~(End <= k) /\ k <= End
    BY <1>1, <1>3
  <2>2. Chain[k] # 0
    BY <1>3, <2>1
  <2>3. Chain[k] \in FileNodes
    BY <1>3, <1>4, <2>1, <2>2
  <2>4. QED
    BY <1>1, <2>1, <2>2, <2>3 DEF IsChain, IsListing
<1>6. QED
  BY <1>3, <1>5

(* What the first leaves list is the beginning of what all of them do.     *)
LEMMA ListedFirst ==
  ASSUME volume \in Volumes, IsWhole, NEW k \in 0..End
  PROVE  IsPrefix(ListedBy[k], ListedBy[End])
<1> DEFINE X == CatalogRecord
           S == { i \in 0..LastNode :
                    k <= i => \E u \in Seq(X) : ListedBy[i] = ListedBy[k] \o u }
<1>1. LastNode \in Nat /\ IsListing /\ End \in 0..LastNode
  BY CatalogSizes, ListingFacts, EndFacts DEF IsWhole
<1>2. \A i \in 0..LastNode : ListedBy[i] \in Seq(X)
  BY <1>1 DEF IsListing
<1>3. \A n : Listing(n) \in Seq(X)
  BY RecordsOfType, NodeAtType, EmptySeq DEF Listing, FileNode
<1> HIDE DEF X, End
<1>4. k \in 0..LastNode /\ k \in Nat
  BY <1>1
<1>5. ListedBy[k] = ListedBy[k] \o <<>> /\ <<>> \in Seq(X)
  BY <1>2, <1>4, ConcatEmptySeq, EmptySeq
<1>6. 0 \in S
  <2>1. 0 \in 0..LastNode /\ (k <= 0 => k = 0)
    BY <1>1, <1>4
  <2>2. k <= 0 => ListedBy[0] = ListedBy[k] \o <<>>
    BY <1>5, <2>1
  <2>3. QED
    BY <1>5, <2>1, <2>2
<1>7. ASSUME NEW i \in 1..LastNode, i - 1 \in S PROVE i \in S
  <2>1. i \in 0..LastNode /\ (k <= i => k <= i - 1 \/ i = k)
    BY <1>1, <1>4
  <2>2. CASE k <= i - 1
    <3>1. PICK u \in Seq(X) : ListedBy[i - 1] = ListedBy[k] \o u
      BY <1>7, <2>2
    <3>2. ListedBy[i] = (ListedBy[k] \o u) \o Listing(Chain[i - 1])
      BY <1>1, <3>1 DEF IsListing
    <3>3. ListedBy[i] = ListedBy[k] \o (u \o Listing(Chain[i - 1]))
      <4> DEFINE v == ListedBy[k]
                 w == Listing(Chain[i - 1])
      <4>1. v \in Seq(X) /\ w \in Seq(X) /\ u \in Seq(X)
        BY <1>2, <1>3, <1>4
      <4> HIDE DEF v, w
      <4>2. (v \o u) \o w = v \o (u \o w)
        BY <4>1, ConcatAssociative
      <4>3. QED
        BY <3>2, <4>2 DEF v, w
    <3>4. u \o Listing(Chain[i - 1]) \in Seq(X)
      BY <1>3, ConcatProperties
    <3>5. QED
      BY <2>1, <3>3, <3>4
  <2>3. CASE ~(k <= i - 1)
    BY <1>5, <2>1, <2>3
  <2>4. QED
    BY <2>2, <2>3
<1>8. 0..LastNode \subseteq S
  <2> HIDE DEF S
  <2>1. QED
    BY <1>1, <1>6, <1>7, UpTo
<1>9. PICK u \in Seq(X) : ListedBy[End] = ListedBy[k] \o u
  <2>1. k <= End
    BY <1>1
  <2>2. End \in S
    <3> HIDE DEF S
    <3>1. QED
      BY <1>1, <1>8
  <2>3. QED
    BY <2>1, <2>2
<1> DEFINE s == ListedBy[k]
           t == s \o u
           n == Len(s)
<1>10. s \in Seq(X)
  BY <1>2, <1>4
<1> HIDE DEF s, S
<1>11. t \in Seq(X) /\ n \in Nat /\ n <= Len(t) /\ \A i \in 1..n : t[i] = s[i]
  <2>1. n \in Nat /\ Len(u) \in Nat
    BY <1>10, LenProperties
  <2>2. /\ t \in Seq(X) /\ Len(t) = n + Len(u)
        /\ \A i \in 1..(n + Len(u)) : t[i] = IF i <= n THEN s[i] ELSE u[i - n]
    BY <1>10, ConcatProperties
  <2> HIDE DEF t, n
  <2>3. \A i \in 1..n : i \in 1..(n + Len(u)) /\ i <= n
    BY <2>1
  <2>4. QED
    BY <2>1, <2>2, <2>3
<1>12. SubSeq(s, 1, n) = SubSeq(t, 1, n)
  <2>1. CASE n = 0
    <3>1. SubSeq(s, 1, 0) = <<>> /\ SubSeq(t, 1, 0) = <<>>
      BY SubSeqEmpty
    <3>2. QED
      BY <2>1, <3>1
  <2>2. CASE n # 0
    <3>1. n \in 1..n
      BY <1>11, <2>2
    <3>2. SubSeq(t, 1, n) = SubSeq(s, 1, n)
      <4>1. 1 \in 1..n
        BY <1>11, <2>2
      <4>2. QED
        BY <1>10, <3>1, <4>1, SubSeqOfConcat1
    <3>3. QED
      BY <3>2
  <2>3. QED
    BY <2>1, <2>2
<1>13. IsPrefix(s, t)
  BY <1>11, <1>12 DEF IsPrefix
<1>14. QED
  BY <1>9, <1>13 DEF s

-----------------------------------------------------------------------------
(* The walk over a catalog that is not damaged: it is at the next link of  *)
(* the chain and has listed what the leaves before it hold.                *)
Walk ==
  IsWhole =>
    /\ error \in {"none", "Io"}
    /\ pc \in {"header", "node0"} => records = <<>> /\ error = "none"
    /\ pc = "leaf" =>
         /\ visited \in 0..(End - 1) /\ first_leaf = Chain[visited]
         /\ records = ListedBy[visited] /\ error = "none"
    /\ pc \notin {"header", "node0", "leaf"} =>
         \E k \in 0..End : records = ListedBy[k] /\ (error = "none" => k = End)
Bound ==
  /\ pc \in {"header", "node0"} => visited = 0
  /\ pc \in {"node0", "leaf"} => CatOffset # NoValue
  /\ pc = "leaf" => Node0Error = "none" /\ visited <= NodesInFile + 2

LEMMA SameVolume ==
  ASSUME volume' = volume
  PROVE  /\ Chain' = Chain /\ ListedBy' = ListedBy /\ End' = End
         /\ NodesInFile' = NodesInFile /\ CatOffset' = CatOffset
         /\ Node0Error' = Node0Error /\ (IsWhole' <=> IsWhole)
<1>1. NodesInFile' = NodesInFile /\ NodeSize' = NodeSize /\ FileNodes' = FileNodes
  BY DEF NodesInFile, NodeSize, FileNodes
<1>2. CatOffset' = CatOffset
  BY DEF CatOffset, first_extent_offset
<1>3. /\ Node0Error' = Node0Error /\ HeaderError' = HeaderError
  BY <1>2 DEF Node0Error, HeaderError
<1>4. \A n : FileNode(n)' = FileNode(n)
  BY <1>1, <1>2 DEF FileNode, NodeAt
<1>5. Chain' = Chain
  BY <1>1, <1>4 DEF Chain
<1>6. \A n : Listing(n)' = Listing(n)
  <2>1. \A item : RecordOf(item)' = RecordOf(item)
    BY DEF RecordOf, first_extent_offset, is_single_extent
  <2>2. \A node : RecordsOf(node)' = RecordsOf(node)
    BY <2>1 DEF RecordsOf, Listed
  <2> SUFFICES ASSUME NEW n PROVE Listing(n)' = Listing(n)
    OBVIOUS
  <2>3. PICK node : node = FileNode(n)
    OBVIOUS
  <2>4. Listing(n) = IF node.kind = "leaf" THEN RecordsOf(node) ELSE <<>>
    BY <2>3 DEF Listing
  <2>5. Listing(n)' = IF node.kind = "leaf" THEN RecordsOf(node)' ELSE <<>>
    BY <1>4, <2>3 DEF Listing
  <2>6. QED
    BY <2>2, <2>4, <2>5
<1>7. ListedBy' = ListedBy
  BY <1>1, <1>5, <1>6 DEF ListedBy
<1>8. LastLink' = LastLink
  BY <1>5 DEF LastLink
<1>9. End' = End
  BY <1>8 DEF End
<1>10. IsWhole' <=> IsWhole
  BY <1>1, <1>2, <1>3, <1>8 DEF IsWhole, is_single_extent
<1>11. QED
  BY <1>1, <1>2, <1>3, <1>5, <1>7, <1>9, <1>10

(* The steps of both halves as far as the walk is concerned.               *)
LEMMA Steps ==
  ASSUME [Next]_vars
  PROVE  /\ volume' = volume
         /\ \/ LeavesNext
            \/ /\ pc \notin {"header", "node0", "leaf"}
               /\ pc' \notin {"header", "node0", "leaf"}
               /\ UNCHANGED <<records, visited, error, first_leaf>>
            \/ UNCHANGED <<pc, records, visited, error, first_leaf>>
<1>1. CASE LeavesNext /\ UNCHANGED treeVars
  BY <1>1 DEF LeavesNext, BadHeader, ParseHeader, BadNode0, ReadNode0, TooDeep,
     ReadLeaf, SkipNode, EndOfImage, ReadFails, Fail, LeafFails, leafVars
<1>2. CASE TreeNext /\ UNCHANGED leafVars
  BY <1>2 DEF TreeNext, Index, AttachFolder, KeepPending, EndPass, AttachFile,
     Finish, leafVars
<1>3. CASE UNCHANGED vars
  BY <1>3 DEF vars, leafVars
<1>4. QED
  BY <1>1, <1>2, <1>3 DEF Next

LEMMA BoundStep ==
  ASSUME LeavesTypeOK, Bound, [Next]_vars
  PROVE  Bound'
<1>1. /\ volume \in Volumes /\ visited \in Nat
      /\ CatOffset' = CatOffset /\ Node0Error' = Node0Error
      /\ NodesInFile' = NodesInFile
  BY Steps, SameVolume DEF LeavesTypeOK
<1>2. CASE LeavesNext
  <2>1. CASE ParseHeader
    BY <1>1, <2>1 DEF ParseHeader, Bound, leafVars
  <2>2. CASE ReadNode0
    <3>1. /\ pc' # "node0" /\ pc' # "header" /\ Node0Error = "none"
          /\ CatOffset # NoValue /\ visited' = 0
      BY <2>2 DEF ReadNode0, Bound
    <3>2. NodesInFile \in Nat
      BY <1>1, <3>1, CatalogSizes
    <3>3. QED
      BY <1>1, <3>1, <3>2 DEF Bound
  <2>3. CASE ReadLeaf \/ SkipNode
    <3>1. /\ pc = "leaf" /\ visited <= MaxNodes /\ visited' = visited + 1
          /\ pc' \in {"leaf", "index"}
      BY <2>3 DEF ReadLeaf, SkipNode, CanRead, Follow, Counted
    <3>2. CatOffset # NoValue /\ Node0Error = "none"
      BY <3>1 DEF Bound
    <3>3. NodesInFile \in Nat
      BY <1>1, <3>2, CatalogSizes
    <3>4. MaxNodes <= NodesInFile + 1 /\ MaxNodes \in Nat
      BY <3>3 DEF MaxNodes
    <3>5. visited' <= NodesInFile + 2
      BY <1>1, <3>1, <3>3, <3>4
    <3>6. QED
      BY <1>1, <3>1, <3>2, <3>5 DEF Bound
  <2>4. CASE BadHeader \/ BadNode0 \/ TooDeep \/ EndOfImage \/ ReadFails
    BY <2>4 DEF BadHeader, BadNode0, TooDeep, EndOfImage, ReadFails, Fail,
       LeafFails, Bound
  <2>5. QED
    BY <1>2, <2>1, <2>2, <2>3, <2>4 DEF LeavesNext
<1>3. CASE UNCHANGED <<pc, records, visited, error, first_leaf>>
  BY <1>1, <1>3 DEF Bound
<1>4. CASE pc' \notin {"header", "node0", "leaf"}
  BY <1>4 DEF Bound
<1>5. QED
  BY <1>2, <1>3, <1>4, Steps

LEMMA WalkStep ==
  ASSUME LeavesTypeOK, Walk, Bound, [Next]_vars
  PROVE  Walk'
<1> SUFFICES ASSUME IsWhole' PROVE
      /\ error' \in {"none", "Io"}
      /\ pc' \in {"header", "node0"} => records' = <<>> /\ error' = "none"
      /\ pc' = "leaf" =>
           /\ visited' \in 0..(End - 1) /\ first_leaf' = Chain[visited']
           /\ records' = ListedBy[visited'] /\ error' = "none"
      /\ pc' \notin {"header", "node0", "leaf"} =>
           \E k \in 0..End :
             records' = ListedBy[k] /\ (error' = "none" => k = End)
  BY Steps, SameVolume DEF Walk
<1>1. /\ volume \in Volumes /\ IsWhole
      /\ HeaderError = "none" /\ CatOffset # NoValue /\ Node0Error = "none"
      /\ NodesInFile < W32 - 1
      /\ CatOffset + volume.cat_file.logical_size <= volume.length
  BY Steps, SameVolume DEF LeavesTypeOK, IsWhole
<1>2. /\ error \in {"none", "Io"}
      /\ pc \in {"header", "node0"} =>
           records = <<>> /\ error = "none" /\ visited = 0
      /\ pc = "leaf" =>
           /\ visited \in 0..(End - 1) /\ first_leaf = Chain[visited]
           /\ records = ListedBy[visited] /\ error = "none"
      /\ pc \notin {"header", "node0", "leaf"} =>
           \E k \in 0..End : records = ListedBy[k] /\ (error = "none" => k = End)
  BY <1>1 DEF Walk, Bound
<1>3. /\ LastNode \in Nat /\ LastNode <= NodesInFile /\ NodesInFile \in Nat
      /\ CatOffset \in Nat /\ NodeSize \in Nat \ {0}
      /\ NodesInFile * NodeSize <= volume.cat_file.logical_size
      /\ volume.cat_file.logical_size \in Nat /\ volume.length \in Nat
  BY <1>1, CatalogSizes
<1>4. /\ End \in 0..LastNode /\ Chain[End] = 0
      /\ \A k \in 0..(End - 1) :
           Chain[k] \in FileNodes /\ Chain[k] # 0
             /\ k + 1 \in 1..LastNode
             /\ Chain[k + 1] = FileNode(Chain[k]).f_link
             /\ ListedBy[k + 1] = ListedBy[k] \o Listing(Chain[k])
  BY <1>1, EndFacts
<1>5. Chain[0] = volume.header.first_leaf_node /\ ListedBy[0] = <<>>
  BY <1>1, <1>3, ChainFacts, ListingFacts DEF IsChain, IsListing
<1> HIDE DEF End
(* A node of the chain lies within the file, and the file within the image.*)
<1>6. ASSUME pc = "leaf"
      PROVE  /\ visited <= MaxNodes /\ NodeOffset + NodeSize <= volume.length
             /\ NodeAt(NodeOffset) = FileNode(first_leaf)
  <2>1. /\ visited \in 0..(End - 1) /\ first_leaf = Chain[visited]
        /\ first_leaf \in 1..(NodesInFile - 1)
    BY <1>2, <1>4, <1>6 DEF FileNodes
  <2>2. visited <= MaxNodes
    <3>1. ~(NodesInFile >= W32 - 1)
      BY <1>1, <1>3, MinNodeAssumption
    <3>2. MaxNodes = NodesInFile + 1
      BY <3>1 DEF MaxNodes
    <3>3. visited <= End - 1 /\ visited \in Nat /\ End \in Nat /\ End <= LastNode
      BY <1>3, <1>4, <2>1
    <3>4. visited <= NodesInFile + 1
      BY <1>3, <3>3
    <3>5. QED
      BY <3>2, <3>4
  <2>3. NodeOffset + NodeSize <= volume.length
    <3> DEFINE n == first_leaf
               z == NodeSize
               c == CatOffset
               size == volume.cat_file.logical_size
               all == NodesInFile
    <3>1. /\ n \in Nat /\ z \in Nat /\ c \in Nat /\ size \in Nat /\ all \in Nat
          /\ volume.length \in Nat
      BY <1>3, <2>1
    <3>2. n + 1 <= all /\ n + 1 \in Nat
      BY <1>3, <2>1
    <3>3. (n + 1) * z <= all * z /\ (n + 1) * z = n * z + 1 * z /\ 1 * z = z
      <4> HIDE DEF n, z, all
      <4>1. QED
        BY <3>1, <3>2, Products
    <3>4. all * z <= size /\ c + size <= volume.length
      BY <1>1, <1>3
    <3>5. NodeOffset = c + n * z
      BY DEF NodeOffset
    <3>6. n * z \in Nat /\ all * z \in Nat
      BY <3>1, Products
    <3> DEFINE p == n * z
               q == all * z
    <3>7. p + z <= q /\ q <= size /\ p \in Nat /\ q \in Nat
      BY <3>3, <3>4, <3>6
    <3> HIDE DEF n, z, c, size, all, p, q
    <3>8. (c + p) + z <= volume.length
      BY <3>1, <3>4, <3>7
    <3>9. QED
      BY <3>5, <3>8 DEF z, p
  <2>4. NodeAt(NodeOffset) = FileNode(first_leaf)
    BY DEF NodeOffset, FileNode
  <2>5. QED
    BY <2>2, <2>3, <2>4
<1>7. CASE LeavesNext
  <2>1. CASE BadHeader \/ BadNode0 \/ TooDeep \/ EndOfImage
    <3>1. ~BadHeader /\ ~BadNode0
      BY <1>1 DEF BadHeader, BadNode0
    <3>2. ~TooDeep
      <4>1. pc = "leaf" => visited <= MaxNodes /\ visited \in Nat /\ MaxNodes \in Nat
        BY <1>3, <1>6 DEF LeavesTypeOK, MaxNodes
      <4>2. QED
        BY <4>1 DEF TooDeep
    <3>3. ~EndOfImage
      <4>1. pc = "leaf" => NodeOffset + NodeSize <= volume.length
        BY <1>6
      <4>2. NodeOffset \in Nat
        <5>1. first_leaf \in Nat /\ NodeSize \in Nat /\ CatOffset \in Nat
          BY <1>3 DEF LeavesTypeOK
        <5>2. first_leaf * NodeSize \in Nat
          BY <5>1, Products
        <5>3. QED
          BY <5>1, <5>2 DEF NodeOffset
      <4>3. QED
        BY <1>3, <4>1, <4>2 DEF EndOfImage
    <3>4. QED
      BY <2>1, <3>1, <3>2, <3>3
  <2>2. CASE ParseHeader
    BY <1>1, <1>2, <2>2 DEF ParseHeader, leafVars
  <2>3. CASE ReadNode0
    <3>1. /\ pc = "node0" /\ records' = <<>> /\ error' = "none" /\ visited' = 0
          /\ first_leaf' = Chain[0]
          /\ pc' = IF first_leaf' = 0 THEN "index" ELSE "leaf"
      BY <1>2, <1>5, <2>3 DEF ReadNode0
    <3>2. CASE first_leaf' = 0
      <4>1. End = 0
        <5>1. ~(0 \in 0..(End - 1))
          BY <1>4, <3>1, <3>2
        <5>2. QED
          BY <1>3, <1>4, <5>1
      <4>2. records' = ListedBy[End] /\ End \in 0..End
        BY <1>5, <3>1, <4>1
      <4>3. QED
        BY <3>1, <3>2, <4>2
    <3>3. CASE first_leaf' # 0
      <4>1. End # 0
        BY <1>4, <3>1, <3>3
      <4>2. 0 \in 0..(End - 1)
        BY <1>3, <1>4, <4>1
      <4>3. QED
        BY <1>5, <3>1, <3>3, <4>2
    <3>4. QED
      BY <3>2, <3>3
  <2>4. CASE ReadLeaf \/ SkipNode
    <3> DEFINE n == first_leaf
               k == visited
    <3>1. /\ pc = "leaf" /\ k \in 0..(End - 1) /\ n = Chain[k]
          /\ records = ListedBy[k] /\ error = "none"
      BY <1>2, <2>4 DEF ReadLeaf, SkipNode
    <3>2. NodeAt(NodeOffset) = FileNode(n)
      BY <1>6, <3>1
    <3>3. /\ error' = error
          /\ records' = records \o Listing(n)
      <4>1. CASE ReadLeaf
        BY <3>2, <4>1 DEF ReadLeaf, Listing
      <4>2. CASE SkipNode
        <5>1. records' = records /\ Listing(n) = <<>> /\ error' = error
          BY <3>2, <4>2 DEF SkipNode, Listing
        <5>2. records \in Seq(CatalogRecord)
          BY DEF LeavesTypeOK
        <5> HIDE DEF CatalogRecord
        <5>3. records \o <<>> = records
          BY <5>2, ConcatEmptySeq
        <5>4. QED
          BY <5>1, <5>3
      <4>3. QED
        BY <2>4, <4>1, <4>2
    <3>4. /\ visited' = k + 1
          /\ IF FileNode(n).f_link = 0
               THEN pc' = "index"
               ELSE first_leaf' = FileNode(n).f_link /\ pc' = pc
      BY <2>4, <3>2 DEF ReadLeaf, SkipNode, Follow, Counted
    <3>5. /\ FileNode(n).f_link = Chain[k + 1]
          /\ records' = ListedBy[k + 1]
      BY <1>4, <3>1, <3>3
    <3>6. k \in Nat /\ k + 1 \in 0..End /\ End \in Nat
      BY <1>3, <1>4, <3>1
    <3> HIDE DEF n, k
    <3>7. CASE Chain[k + 1] = 0
      <4>1. ~(k + 1 \in 0..(End - 1))
        BY <1>4, <3>7
      <4>2. k + 1 = End
        BY <3>6, <4>1
      <4>3. QED
        BY <3>1, <3>3, <3>4, <3>5, <3>6, <3>7, <4>2
    <3>8. CASE Chain[k + 1] # 0
      <4>1. k + 1 # End
        BY <1>4, <3>8
      <4>2. k + 1 \in 0..(End - 1)
        BY <3>6, <4>1
      <4>3. QED
        BY <3>1, <3>3, <3>4, <3>5, <3>8, <4>2
    <3>9. QED
      BY <3>7, <3>8
  <2>5. CASE ReadFails
    <3>1. /\ pc' = "done" /\ error' = "Io" /\ records' = records
          /\ pc \in {"header", "node0", "leaf"}
      BY <2>5 DEF ReadFails, Fail, LeafFails
    <3>2. \E k \in 0..End : records = ListedBy[k]
      <4>1. CASE pc = "leaf"
        <5>1. visited \in 0..End
          BY <1>2, <1>3, <1>4, <4>1
        <5>2. QED
          BY <1>2, <4>1, <5>1
      <4>2. CASE pc # "leaf"
        <5>1. 0 \in 0..End
          BY <1>3, <1>4
        <5>2. QED
          BY <1>2, <1>5, <3>1, <4>2, <5>1
      <4>3. QED
        BY <4>1, <4>2
    <3>3. QED
      BY <3>1, <3>2
  <2>6. QED
    BY <1>7, <2>1, <2>2, <2>3, <2>4, <2>5 DEF LeavesNext
<1>8. CASE /\ pc \notin {"header", "node0", "leaf"}
           /\ pc' \notin {"header", "node0", "leaf"}
           /\ UNCHANGED <<records, visited, error, first_leaf>>
  BY <1>2, <1>8
<1>9. CASE UNCHANGED <<pc, records, visited, error, first_leaf>>
  BY <1>2, <1>9
<1>10. QED
  BY <1>7, <1>8, <1>9, Steps

(* The catalog of a volume that is not damaged is listed from the first    *)
(* record to the last, in order and none twice, whatever number of leaves  *)
(* it has and wherever they lie; the walk over a damaged one is bounded    *)
(* (read_catalog_leaf_records of hfsplus.rs).                              *)
THEOREM CatalogIsListed == Spec => []ListsTheCatalog
<1>1. Init => Walk /\ Bound
  <2> SUFFICES ASSUME Init PROVE Walk /\ Bound
    OBVIOUS
  <2>1. pc = "header" /\ records = <<>> /\ visited = 0 /\ error = "none"
    BY DEF Init, InitLeaves
  <2>2. QED
    BY <2>1 DEF Walk, Bound
<1>2. LeavesTypeOK /\ Walk /\ Bound /\ [Next]_vars => (Walk /\ Bound)'
  BY WalkStep, BoundStep
<1>3. LeavesTypeOK /\ Walk /\ Bound => ListsTheCatalog
  <2> SUFFICES ASSUME LeavesTypeOK, Walk, Bound PROVE ListsTheCatalog
    OBVIOUS
  <2>1. ASSUME IsWhole
        PROVE  /\ IsPrefix(records, ListedBy[End])
               /\ pc \notin {"header", "node0", "leaf"} /\ error = "none"
                    => records = ListedBy[End]
               /\ error \in {"none", "Io"}
    <3>1. volume \in Volumes /\ LastNode \in Nat
      BY <2>1, CatalogSizes DEF LeavesTypeOK, IsWhole
    <3>2. End \in 0..LastNode /\ ListedBy[0] = <<>>
      BY <2>1, <3>1, EndFacts, ListingFacts DEF IsListing
    <3>3. \E k \in 0..End : records = ListedBy[k]
      <4>1. CASE pc \in {"header", "node0"}
        <5>1. 0 \in 0..End
          BY <3>1, <3>2
        <5>2. QED
          BY <2>1, <3>2, <4>1, <5>1 DEF Walk
      <4>2. CASE pc = "leaf"
        <5>1. visited \in 0..End
          BY <2>1, <3>1, <3>2, <4>2 DEF Walk
        <5>2. QED
          BY <2>1, <4>2, <5>1 DEF Walk
      <4>3. CASE pc \notin {"header", "node0", "leaf"}
        BY <2>1, <4>3 DEF Walk
      <4>4. QED
        BY <4>1, <4>2, <4>3
    <3>4. IsPrefix(records, ListedBy[End])
      BY <2>1, <3>1, <3>3, ListedFirst
    <3>5. QED
      BY <2>1, <3>4 DEF Walk
  <2>2. pc = "leaf" => visited <= NodesInFile + 2
    BY DEF Bound
  <2>3. QED
    BY <2>1, <2>2 DEF ListsTheCatalog, End
<1>4. Inv => LeavesTypeOK
  BY DEF Inv
<1>5. QED
  BY <1>1, <1>2, <1>3, <1>4, Invariance, PTL DEF Spec

-----------------------------------------------------------------------------
(* Below a set of folders: what leads to the root through it, in at most k *)
(* steps.                                                                  *)
LeadsUp(below, S) ==
  /\ below[0] = {Root}
  /\ \A k \in 1..PathGuard :
       below[k] = {Root} \cup { c \in S : Parent(c) \in below[k - 1] }
  /\ \A c : LeadsToRoot(c, S) <=> c \in below[PathGuard]

LEMMA LeadsUpExists ==
  ASSUME NEW S
  PROVE  \E below : LeadsUp(below, S)
<1> DEFINE X == SUBSET (S \cup {Root})
           Rule(f) == [k \in 0..PathGuard |->
             IF k = 0 THEN {Root}
             ELSE {Root} \cup { c \in S : Parent(c) \in f[k - 1] }]
           next == [i \in Nat |-> [t \in X |->
                      {Root} \cup { c \in S : Parent(c) \in t }]]
           below == CHOOSE f : f = Rule(f)
<1>1. \A c : LeadsToRoot(c, S) <=> c \in below[PathGuard]
  BY DEF LeadsToRoot
<1>2. PathGuard \in Nat /\ PathGuard # 0
  BY GuardAssumption
<1>3. {Root} \in X /\ next \in [Nat -> [X -> X]]
  OBVIOUS
<1>4. PICK f : Recursion(f, PathGuard, X, {Root}, next)
  <2> HIDE DEF X, next
  <2>1. QED
    BY <1>2, <1>3, RecursionExists
<1>5. /\ f \in [0..PathGuard -> X] /\ f[0] = {Root}
      /\ \A i \in 1..PathGuard : f[i] = next[i][f[i - 1]]
  BY <1>4 DEF Recursion
<1>6. f = Rule(f)
  <2>1. ASSUME NEW k \in 0..PathGuard
        PROVE  f[k] = IF k = 0 THEN {Root}
                      ELSE {Root} \cup { c \in S : Parent(c) \in f[k - 1] }
    <3>1. CASE k = 0
      BY <1>5, <3>1
    <3>2. CASE k # 0
      <4>1. k \in 1..PathGuard /\ k \in Nat /\ k - 1 \in 0..PathGuard
        BY <1>2, <3>2
      <4>2. f[k - 1] \in X /\ f[k] = next[k][f[k - 1]]
        BY <1>5, <4>1
      <4>3. \A t \in X : next[k][t] = {Root} \cup { c \in S : Parent(c) \in t }
        BY <4>1
      <4> HIDE DEF next, X
      <4>4. QED
        BY <3>2, <4>2, <4>3
    <3>3. QED
      BY <3>1, <3>2
  <2>2. QED
    BY <1>5, <2>1
<1>7. below = Rule(below)
  <2> HIDE DEF Rule
  <2>1. QED
    BY <1>6
<1> HIDE DEF below
<1>8. below[0] = {Root}
  BY <1>2, <1>7
<1>9. \A k \in 1..PathGuard :
        below[k] = {Root} \cup { c \in S : Parent(c) \in below[k - 1] }
  <2>1. \A k \in 1..PathGuard : k \in 0..PathGuard /\ k # 0
    BY <1>2
  <2>2. QED
    BY <1>7, <2>1
<1>10. QED
  BY <1>1, <1>8, <1>9 DEF LeadsUp

(* In a healthy volume no folder is its own parent.                        *)
LEMMA NoneIsItsParent ==
  ASSUME TreeShape, Healthy
  PROVE  SelfParented = {}
<1> SUFFICES ASSUME NEW c \in Folders, Parent(c) = c PROVE FALSE
  BY DEF SelfParented
<1>1. PICK below : LeadsUp(below, Folders)
  BY LeadsUpExists
<1>2. c # Root /\ PathGuard \in Nat
  BY GuardAssumption DEF TreeShape
<1> DEFINE X == { t \in SUBSET (Folders \cup {Root}) : c \notin t }
<1>3. below[0] \in X
  BY <1>1, <1>2 DEF LeadsUp
<1>4. \A k \in 1..PathGuard : below[k - 1] \in X => below[k] \in X
  BY <1>1, <1>2 DEF LeadsUp
<1>5. \A k \in 0..PathGuard : below[k] \in X
  <2> HIDE DEF X
  <2>1. QED
    BY <1>2, <1>3, <1>4, ValuesUpTo
<1>6. LeadsToRoot(c, Folders)
  BY DEF Healthy
<1>7. c \in below[PathGuard] /\ PathGuard \in 0..PathGuard
  BY <1>1, <1>2, <1>6 DEF LeadsUp
<1>8. QED
  BY <1>5, <1>7

-----------------------------------------------------------------------------
(* The names on the way up from each folder, followed for k steps.         *)
IsPaths(names) ==
  /\ \A k \in 0..PathGuard : names[k] \in [Cnid -> Seq(Name)]
  /\ \A k \in 0..PathGuard : \A c \in Cnid :
       k = 0 \/ c \notin Folders => names[k][c] = <<>>
  /\ \A k \in 1..PathGuard : \A c \in Folders :
       names[k][c] =
         Append(IF Parent(c) \in {Root, NoParent} THEN <<>>
                ELSE names[k - 1][Parent(c)], catalog.folder_map[c].name)
  /\ \A c : cnid_path(c) = names[PathGuard][c]

LEMMA NamePathsExist ==
  ASSUME TreeShape
  PROVE  \E names : IsPaths(names)
<1> DEFINE X == [Cnid -> Seq(Name)]
           One(t, c) ==
             Append(IF Parent(c) \in {Root, NoParent} THEN <<>> ELSE t[Parent(c)],
                    catalog.folder_map[c].name)
           Level(t) == [c \in Cnid |-> IF c \notin Folders THEN <<>> ELSE One(t, c)]
           first == [c \in Cnid |-> <<>>]
           Rule(f) == [k \in 0..PathGuard |-> [c \in Cnid |->
             IF k = 0 \/ c \notin Folders THEN <<>> ELSE One(f[k - 1], c)]]
           next == [i \in Nat |-> [t \in X |-> Level(t)]]
           names == CHOOSE f : f = Rule(f)
<1>1. \A c : cnid_path(c) = names[PathGuard][c]
  BY DEF cnid_path
<1>2. PathGuard \in Nat /\ PathGuard # 0
  BY GuardAssumption
<1>3. \A c \in Folders : c \in Cnid /\ Parent(c) \in Cnid
                           /\ catalog.folder_map[c].name \in Name
  BY DEF TreeShape, FolderInfo, Parent
<1>4. \A t \in X : \A c \in Folders : One(t, c) \in Seq(Name)
  <2> TAKE t \in X
  <2> TAKE c \in Folders
  <2> DEFINE above == IF Parent(c) \in {Root, NoParent} THEN <<>> ELSE t[Parent(c)]
             name == catalog.folder_map[c].name
  <2>1. above \in Seq(Name) /\ name \in Name
    BY <1>3
  <2>2. One(t, c) = Append(above, name)
    OBVIOUS
  <2> HIDE DEF above, name
  <2>3. Append(above, name) \in Seq(Name)
    BY <2>1, AppendProperties
  <2>4. QED
    BY <2>2, <2>3
<1> HIDE DEF One
<1>5. first \in X /\ \A t \in X : Level(t) \in X
  <2>1. <<>> \in Seq(Name)
    OBVIOUS
  <2>2. QED
    BY <1>4, <2>1
<1>6. next \in [Nat -> [X -> X]]
  <2> HIDE DEF X, Level
  <2>1. QED
    BY <1>5
<1>7. PICK f : Recursion(f, PathGuard, X, first, next)
  <2> HIDE DEF X, next, first
  <2>1. QED
    BY <1>2, <1>5, <1>6, RecursionExists
<1>8. /\ f \in [0..PathGuard -> X] /\ f[0] = first
      /\ \A i \in 1..PathGuard : f[i] = next[i][f[i - 1]]
  BY <1>7 DEF Recursion
<1>9. ASSUME NEW k \in 1..PathGuard PROVE f[k] = Level(f[k - 1]) /\ f[k - 1] \in X
  <2>1. k \in Nat /\ k - 1 \in 0..PathGuard
    BY <1>2
  <2>2. f[k - 1] \in X
    BY <1>8, <2>1
  <2> HIDE DEF X, Level
  <2>3. QED
    BY <1>8, <2>1, <2>2
<1>10. f = Rule(f)
  <2>1. ASSUME NEW k \in 0..PathGuard
        PROVE  f[k] = [c \in Cnid |-> IF k = 0 \/ c \notin Folders THEN <<>>
                                      ELSE One(f[k - 1], c)]
    <3>1. CASE k = 0
      BY <1>8, <3>1
    <3>2. CASE k # 0
      <4>1. k \in 1..PathGuard
        BY <1>2, <3>2
      <4>2. f[k] = Level(f[k - 1])
        BY <1>9, <4>1
      <4>3. QED
        BY <3>2, <4>2
    <3>3. QED
      BY <3>1, <3>2
  <2>2. QED
    BY <1>8, <2>1
<1>11. names = Rule(names)
  <2> HIDE DEF Rule
  <2>1. QED
    BY <1>10
<1> HIDE DEF names
<1>12. \A k \in 0..PathGuard : \A c \in Cnid :
         k = 0 \/ c \notin Folders => names[k][c] = <<>>
  BY <1>11
<1>13. \A k \in 1..PathGuard : \A c \in Folders :
         names[k][c] = One(names[k - 1], c)
  <2> TAKE k \in 1..PathGuard
  <2> TAKE c \in Folders
  <2>1. k \in 0..PathGuard /\ k # 0 /\ c \in Cnid
    BY <1>2, <1>3
  <2>2. names[k] = [d \in Cnid |-> IF k = 0 \/ d \notin Folders THEN <<>>
                                   ELSE One(names[k - 1], d)]
    BY <1>11, <2>1
  <2>3. QED
    BY <2>1, <2>2
<1>14. \A k \in 0..PathGuard : names[k] \in X
  <2>1. names[0] \in X
    <3>1. names[0] = first
      BY <1>2, <1>11
    <3> HIDE DEF X, first
    <3>2. QED
      BY <1>5, <3>1
  <2>2. ASSUME NEW k \in 1..PathGuard, names[k - 1] \in X PROVE names[k] \in X
    <3>1. k \in 0..PathGuard /\ k # 0
      BY <1>2
    <3>2. names[k] = Level(names[k - 1])
      BY <1>11, <3>1
    <3> HIDE DEF X, Level
    <3>3. QED
      BY <1>5, <2>2, <3>2
  <2>3. QED
    <3> HIDE DEF X
    <3>1. QED
      BY <1>2, <2>1, <2>2, ValuesUpTo
<1>15. QED
  BY <1>1, <1>12, <1>13, <1>14 DEF IsPaths, One
-----------------------------------------------------------------------------
(* Walking down from the root: what one name leads to, and one more.       *)
Hits(dir, name) ==
  { k \in 1..Len(children[dir]) :
      /\ children[dir][k].kind = "folder"
      /\ catalog.folder_map[children[dir][k].id].name = name }

LEMMA HitFacts ==
  ASSUME TreeShape, NEW dir \in Folders \cup {Root}, NEW name,
         NEW k \in Hits(dir, name)
  PROVE  /\ children[dir][k].id \in Folders
         /\ children[dir][k] = FolderChild(children[dir][k].id)
         /\ catalog.folder_map[children[dir][k].id].name = name
         /\ k \in 1..Len(children[dir]) /\ k \in Nat
<1> DEFINE list == children[dir]
           child == list[k]
<1>1. /\ k \in 1..Len(list) /\ child.kind = "folder"
      /\ catalog.folder_map[child.id].name = name
  BY DEF Hits
<1>2. list \in Seq(Child)
  BY DEF TreeShape
<1>3. child \in Child /\ k \in Nat
  <2> HIDE DEF list
  <2>1. QED
    BY <1>1, <1>2, LenProperties, ElementOfSeq
<1>4. child \in [kind : {"folder"}, id : Folders]
  BY <1>1, <1>3 DEF Child
<1>5. child.id \in Folders /\ child = FolderChild(child.id)
  BY <1>4 DEF FolderChild
<1>6. QED
  BY <1>1, <1>3, <1>5

LEMMA FirstFolderType ==
  ASSUME TreeShape, NEW dir \in Folders \cup {Root}, NEW name
  PROVE  FirstFolder(dir, name) \subseteq Folders
<1>1. FirstFolder(dir, name) =
        { children[dir][k].id :
            k \in { h \in Hits(dir, name) : \A j \in Hits(dir, name) : h <= j } }
  BY DEF FirstFolder, Hits
<1>2. QED
  BY <1>1, HitFacts

(* In a healthy volume the name of a folder leads from its parent to it,   *)
(* when it is attached, and otherwise nowhere.                             *)
LEMMA NameLeadsToFolder ==
  ASSUME TreeShape, Placement, Healthy,
         NEW c \in Folders, Parent(c) \in Folders \cup {Root}
  PROVE  FirstFolder(Parent(c), catalog.folder_map[c].name)
           = IF c \in nodes THEN {} ELSE {c}
<1> DEFINE dir == Parent(c)
           name == catalog.folder_map[c].name
           hits == Hits(dir, name)
<1>1. FirstFolder(dir, name) =
        { children[dir][k].id : k \in { h \in hits : \A j \in hits : h <= j } }
  BY DEF FirstFolder, Hits
<1>2. \A d \in Folders : Holders(FolderChild(d)) =
        IF d \in nodes THEN {} ELSE {Parent(d)}
  BY NoneIsItsParent DEF Placement
<1>3. dir \in DOMAIN children /\ IsInjective(children[dir])
      /\ children[dir] \in Seq(Child)
  BY DEF TreeShape, Placement
<1>4. ASSUME NEW k \in hits
      PROVE  /\ children[dir][k] = FolderChild(c) /\ children[dir][k].id = c
             /\ c \notin nodes /\ k \in 1..Len(children[dir]) /\ k \in Nat
  <2>1. PICK d \in Folders : /\ children[dir][k].id = d
                             /\ children[dir][k] = FolderChild(d)
                             /\ catalog.folder_map[d].name = name
                             /\ k \in 1..Len(children[dir]) /\ k \in Nat
    <3> HIDE DEF dir, name
    <3>1. dir \in Folders \cup {Root}
      BY DEF dir
    <3>2. QED
      BY <3>1, HitFacts
  <2>2. dir \in Holders(FolderChild(d))
    BY <1>3, <2>1 DEF Holders
  <2>3. d \notin nodes /\ Parent(d) = dir
    BY <1>2, <2>2
  <2>4. d = c
    BY <2>1, <2>3 DEF Healthy
  <2>5. QED
    BY <2>1, <2>3, <2>4
<1>5. CASE c \in nodes
  <2>1. hits = {}
    BY <1>4, <1>5
  <2> HIDE DEF hits
  <2>2. QED
    BY <1>1, <1>5, <2>1
<1>6. CASE c \notin nodes
  <2>1. dir \in Holders(FolderChild(c))
    BY <1>2, <1>6
  <2>2. PICK k \in 1..Len(children[dir]) : children[dir][k] = FolderChild(c)
    BY <2>1 DEF Holders
  <2>3. k \in hits
    BY <2>2 DEF FolderChild, Hits
  <2>4. ASSUME NEW j \in hits PROVE j = k
    <3>1. DOMAIN children[dir] = 1..Len(children[dir])
      BY <1>3, LenProperties
    <3>2. j \in DOMAIN children[dir] /\ k \in DOMAIN children[dir]
          /\ children[dir][j] = children[dir][k]
      BY <1>4, <2>2, <3>1
    <3>3. QED
      BY <1>3, <3>2 DEF IsInjective
  <2>5. k \in Nat /\ children[dir][k].id = c
    BY <1>4, <2>3
  <2> HIDE DEF hits
  <2>6. hits = {k}
    BY <2>3, <2>4
  <2>7. { h \in {k} : \A j \in {k} : h <= j } = {k}
    BY <2>5
  <2>8. QED
    BY <1>1, <1>6, <2>5, <2>6, <2>7
<1>7. QED
  BY <1>5, <1>6

IsReached(reached, path) ==
  /\ reached[0] = {Root}
  /\ \A i \in 1..Len(path) :
       reached[i] = UNION { FirstFolder(d, path[i]) : d \in reached[i - 1] }
  /\ find_by_path(path) = reached[Len(path)]

LEMMA ReachedExists ==
  ASSUME TreeShape, NEW path \in Seq(Name)
  PROVE  \E reached : IsReached(reached, path)
<1> DEFINE n == Len(path)
           X == SUBSET (Folders \cup {Root})
           One(i, t) == UNION { FirstFolder(d, path[i]) : d \in t }
           Rule(f) == [i \in 0..n |-> IF i = 0 THEN {Root} ELSE One(i, f[i - 1])]
           next == [i \in Nat |-> [t \in X |-> One(i, t)]]
           reached == CHOOSE f : f = Rule(f)
<1>1. find_by_path(path) = reached[n]
  BY DEF find_by_path
<1>2. n \in Nat
  BY LenProperties
<1>3. {Root} \in X /\ \A i : \A t \in X : One(i, t) \in X
  BY FirstFolderType
<1> HIDE DEF One, n
<1>4. next \in [Nat -> [X -> X]]
  <2> HIDE DEF X
  <2>1. QED
    BY <1>3
<1>5. PICK f : Recursion(f, n, X, {Root}, next)
  <2> HIDE DEF X, next
  <2>1. QED
    BY <1>2, <1>3, <1>4, RecursionExists
<1>6. /\ f \in [0..n -> X] /\ f[0] = {Root}
      /\ \A i \in 1..n : f[i] = next[i][f[i - 1]]
  BY <1>5 DEF Recursion
<1>7. f = Rule(f)
  <2>1. ASSUME NEW i \in 0..n, i # 0 PROVE f[i] = One(i, f[i - 1])
    <3>1. i \in 1..n /\ i \in Nat /\ i - 1 \in 0..n
      BY <1>2, <2>1
    <3> HIDE DEF X
    <3>2. QED
      BY <1>6, <3>1
  <2>2. \A i \in 0..n : f[i] = IF i = 0 THEN {Root} ELSE One(i, f[i - 1])
    BY <1>6, <2>1
  <2> HIDE DEF X
  <2>3. QED
    BY <1>6, <2>2
<1>8. reached = Rule(reached)
  <2> HIDE DEF Rule
  <2>1. QED
    BY <1>7
<1> HIDE DEF reached
<1>9. reached[0] = {Root}
  BY <1>2, <1>8
<1>10. \A i \in 1..n : reached[i] = One(i, reached[i - 1])
  <2>1. \A i \in 1..n : i \in 0..n /\ i # 0
    BY <1>2
  <2>2. QED
    BY <1>8, <2>1
<1>11. QED
  BY <1>1, <1>9, <1>10 DEF IsReached, One, n

(* No name leads to the root, and one name more a step further.            *)
LEMMA NoName ==
  ASSUME TreeShape
  PROVE  find_by_path(<<>>) = {Root}
<1>1. <<>> \in Seq(Name) /\ Len(<<>>) = 0
  OBVIOUS
<1>2. PICK reached : IsReached(reached, <<>>)
  BY <1>1, ReachedExists
<1>3. QED
  BY <1>1, <1>2 DEF IsReached

LEMMA OneNameMore ==
  ASSUME TreeShape, NEW path \in Seq(Name), NEW name \in Name
  PROVE  find_by_path(Append(path, name))
           = UNION { FirstFolder(d, name) : d \in find_by_path(path) }
<1> DEFINE longer == Append(path, name)
           n == Len(path)
<1>1. /\ longer \in Seq(Name) /\ Len(longer) = n + 1 /\ n \in Nat
      /\ longer[n + 1] = name /\ \A i \in 1..n : longer[i] = path[i]
  BY AppendProperties, LenProperties
<1> HIDE DEF longer
<1>2. PICK r : IsReached(r, path)
  BY ReachedExists
<1>3. PICK q : IsReached(q, longer)
  BY <1>1, ReachedExists
<1> HIDE DEF n
<1>4. /\ r[0] = {Root} /\ find_by_path(path) = r[n]
      /\ \A i \in 1..n : r[i] = UNION { FirstFolder(d, path[i]) : d \in r[i - 1] }
  BY <1>2 DEF IsReached, n
<1>5. /\ q[0] = {Root} /\ find_by_path(longer) = q[n + 1]
      /\ \A i \in 1..(n + 1) :
           q[i] = UNION { FirstFolder(d, longer[i]) : d \in q[i - 1] }
  BY <1>1, <1>3 DEF IsReached
<1> DEFINE S == { i \in 0..n : q[i] = r[i] }
<1>6. 0 \in S
  <2>1. q[0] = r[0] /\ 0 \in 0..n
    BY <1>1, <1>4, <1>5
  <2>2. QED
    BY <2>1
<1>7. ASSUME NEW i \in 1..n, i - 1 \in S PROVE i \in S
  <2>1. i \in 1..(n + 1) /\ i \in 0..n /\ longer[i] = path[i] /\ q[i - 1] = r[i - 1]
    BY <1>1, <1>7
  <2>2. q[i] = UNION { FirstFolder(d, path[i]) : d \in q[i - 1] }
    BY <1>5, <2>1
  <2>3. r[i] = UNION { FirstFolder(d, path[i]) : d \in r[i - 1] }
    BY <1>4
  <2>4. QED
    BY <2>1, <2>2, <2>3
<1>8. 0..n \subseteq S
  <2> HIDE DEF S
  <2>1. QED
    BY <1>1, <1>6, <1>7, UpTo
<1>9. q[n] = r[n] /\ n + 1 \in 1..(n + 1) /\ (n + 1) - 1 = n
  BY <1>1, <1>8
<1>10. q[n + 1] = UNION { FirstFolder(d, name) : d \in q[n] }
  BY <1>1, <1>5, <1>9
<1>11. QED
  BY <1>4, <1>5, <1>9, <1>10 DEF longer
-----------------------------------------------------------------------------
(* In a healthy volume the path of a folder leads to that folder, when the *)
(* folders above it and it itself are attached, and otherwise nowhere.     *)
Attached == Folders \ nodes
LEMMA PathLeadsToFolder ==
  ASSUME TreeShape, Placement, Healthy,
         NEW cnid \in Folders \cup {Root}
  PROVE  find_by_path(cnid_path(cnid))
           = IF LeadsToRoot(cnid, Attached) THEN {cnid} ELSE {}
<1>1. PICK names : IsPaths(names)
  BY NamePathsExist
<1>2. PICK all : LeadsUp(all, Folders)
  BY LeadsUpExists
<1>3. PICK now : LeadsUp(now, Attached)
  BY LeadsUpExists
<1>4. PathGuard \in Nat /\ PathGuard # 0 /\ PathGuard \in 0..PathGuard
  BY GuardAssumption
<1>5. /\ Root \notin Folders /\ Root \in Cnid /\ Root # NoParent
      /\ NoParent \notin Folders /\ Folders \subseteq Cnid
      /\ \A c \in Folders : catalog.folder_map[c].name \in Name
  BY CnidAssumption DEF TreeShape, Healthy, FolderInfo
<1> DEFINE Found(c, g, k) ==
             find_by_path(names[g][c]) = IF c \in now[k] THEN {c} ELSE {}
           S == { k \in 0..PathGuard :
                    \A g \in k..PathGuard : \A c \in all[k] : Found(c, g, k) }
<1>6. \A k \in 0..PathGuard : Root \in now[k]
  <2>1. \A k \in 0..PathGuard : k = 0 \/ k \in 1..PathGuard
    BY <1>4
  <2>2. QED
    BY <1>3, <2>1 DEF LeadsUp
<1>7. \A k \in 0..PathGuard : all[k] \subseteq Folders \cup {Root}
  <2>1. \A k \in 0..PathGuard : k = 0 \/ k \in 1..PathGuard
    BY <1>4
  <2>2. QED
    BY <1>2, <2>1 DEF LeadsUp
<1>8. \A g \in 0..PathGuard : names[g][Root] = <<>> /\ find_by_path(names[g][Root]) = {Root}
  <2>1. \A g \in 0..PathGuard : names[g][Root] = <<>>
    BY <1>1, <1>5 DEF IsPaths
  <2>2. QED
    BY <2>1, NoName
<1>9. \A k, g \in 0..PathGuard : Found(Root, g, k)
  BY <1>6, <1>8
<1>10. 0 \in S
  <2>1. all[0] = {Root} /\ 0 \in 0..PathGuard
    BY <1>2, <1>4 DEF LeadsUp
  <2> HIDE DEF Found
  <2>2. QED
    BY <1>9, <2>1
<1>11. ASSUME NEW k \in 1..PathGuard, k - 1 \in S PROVE k \in S
  <2>1. k \in 0..PathGuard /\ k - 1 \in 0..PathGuard /\ k \in Nat
    BY <1>4
  <2> SUFFICES ASSUME NEW g \in k..PathGuard, NEW c \in all[k]
               PROVE  Found(c, g, k)
    <3> HIDE DEF Found
    <3>1. QED
      BY <2>1
  <2>2. /\ g \in 1..PathGuard /\ g - 1 \in (k - 1)..PathGuard
        /\ g \in 0..PathGuard /\ g - 1 \in 0..PathGuard
    BY <1>4, <2>1
  <2>3. CASE c = Root
    <3> HIDE DEF Found
    <3>1. QED
      BY <1>9, <2>1, <2>2, <2>3
  <2>4. CASE c # Root
    <3> DEFINE up == Parent(c)
               name == catalog.folder_map[c].name
               above == names[g - 1][up]
    <3>1. c \in Folders /\ up \in all[k - 1]
      BY <1>2, <2>4 DEF LeadsUp
    <3>2. up \in Folders \cup {Root} /\ up # NoParent /\ up \in Cnid
      BY <1>5, <1>7, <2>1, <3>1
    <3>3. names[g][c] = Append(above, name)
      <4>1. names[g][c] = Append(IF up \in {Root, NoParent} THEN <<>> ELSE above, name)
        BY <1>1, <2>2, <3>1 DEF IsPaths
      <4>2. up = Root => above = <<>>
        BY <1>8, <2>2
      <4> HIDE DEF above, up, name
      <4>3. QED
        BY <3>2, <4>1, <4>2
    <3>4. above \in Seq(Name) /\ name \in Name
      BY <1>1, <1>5, <2>2, <3>1, <3>2 DEF IsPaths
    <3>5. find_by_path(names[g][c])
            = UNION { FirstFolder(d, name) : d \in find_by_path(above) }
      <4> HIDE DEF above, name
      <4>1. QED
        BY <3>3, <3>4, OneNameMore
    <3>6. find_by_path(above) = IF up \in now[k - 1] THEN {up} ELSE {}
      BY <1>11, <2>2, <3>1
    <3>7. FirstFolder(up, name) = IF c \in nodes THEN {} ELSE {c}
      BY <3>1, <3>2, NameLeadsToFolder
    <3>8. c \in now[k] <=> c \notin nodes /\ up \in now[k - 1]
      BY <1>3, <2>4, <3>1 DEF LeadsUp, Attached
    <3> HIDE DEF up, name, above
    <3>9. QED
      BY <3>5, <3>6, <3>7, <3>8
  <2>5. QED
    BY <2>3, <2>4
<1>12. 0..PathGuard \subseteq S
  <2> HIDE DEF S
  <2>1. QED
    BY <1>4, <1>10, <1>11, UpTo
<1>13. cnid \in all[PathGuard]
  <2>1. CASE cnid = Root
    <3>1. PathGuard \in 1..PathGuard
      BY <1>4
    <3>2. QED
      BY <1>2, <2>1, <3>1 DEF LeadsUp
  <2>2. CASE cnid # Root
    BY <1>2, <2>2 DEF LeadsUp, Healthy
  <2>3. QED
    BY <2>1, <2>2
<1>14. PathGuard \in PathGuard..PathGuard /\ PathGuard \in S
  BY <1>4, <1>12
<1>15. Found(cnid, PathGuard, PathGuard)
  <2> HIDE DEF Found
  <2>1. QED
    BY <1>13, <1>14
<1>16. LeadsToRoot(cnid, Attached) <=> cnid \in now[PathGuard]
  BY <1>3 DEF LeadsUp
<1>17. cnid_path(cnid) = names[PathGuard][cnid]
  BY <1>1 DEF IsPaths
<1>18. QED
  BY <1>15, <1>16, <1>17
-----------------------------------------------------------------------------
(* Which folders lead to the root does not change while files are attached.*)
LEMMA SameWays ==
  ASSUME catalog' = catalog
  PROVE  /\ \A c, S : LeadsToRoot(c, S)' <=> LeadsToRoot(c, S)
         /\ Healthy' <=> Healthy
<1>1. Folders' = Folders /\ \A c : Parent(c)' = Parent(c)
  BY SameCatalog
<1>2. \A i : File(i)' = File(i)
  BY DEF File
<1>3. ASSUME NEW c, NEW S PROVE LeadsToRoot(c, S)' <=> LeadsToRoot(c, S)
  BY <1>1 DEF LeadsToRoot
<1>4. Healthy' <=> Healthy
  BY <1>1, <1>2, <1>3 DEF Healthy
<1>5. QED
  BY <1>3, <1>4

(* What is said of one file, and of all that were handled.                 *)
Follows(i) ==
  Holders(FileChild(i)) =
    IF LeadsToRoot(File(i).parent_cnid, Attached)
      THEN {File(i).parent_cnid} ELSE {}
FollowFolders ==
  /\ pc \in {"index", "folders"} => next_file = 1
  /\ Healthy => \A i \in 1..(next_file - 1) : Follows(i)

LEMMA FollowStep ==
  ASSUME Inv, FollowFolders, [Next]_vars
  PROVE  FollowFolders'
<1>1. TreeShape /\ Placement /\ next_file \in Nat
  BY DEF Inv, TreeShape
<1>2. ASSUME next_file' = 1 PROVE FollowFolders'
  BY <1>2 DEF FollowFolders
<1>3. CASE LeavesNext /\ UNCHANGED treeVars
  <2>1. next_file' = 1
    BY <1>3, LeavesKeep DEF Inv, Untouched, treeVars
  <2>2. QED
    BY <1>2, <2>1
<1>4. CASE (Index \/ AttachFolder \/ KeepPending \/ EndPass) /\ UNCHANGED leafVars
  <2>1. next_file = 1 /\ next_file' = next_file
    BY <1>4 DEF FollowFolders, Index, AttachFolder, KeepPending, EndPass
  <2>2. QED
    BY <1>2, <2>1
<1>5. ASSUME catalog' = catalog, nodes' = nodes
      PROVE  /\ Healthy' <=> Healthy
             /\ \A i : Follows(i)' <=>
                  HoldersIn(children', FileChild(i)) =
                    IF LeadsToRoot(File(i).parent_cnid, Attached)
                      THEN {File(i).parent_cnid} ELSE {}
  <2>1. Attached' = Attached /\ \A i : File(i)' = File(i)
    BY <1>5 DEF Attached, File, Folders
  <2>2. /\ \A c, S : LeadsToRoot(c, S)' <=> LeadsToRoot(c, S)
        /\ Healthy' <=> Healthy
    BY <1>5, SameWays
  <2> SUFFICES ASSUME NEW i
               PROVE  Follows(i)' <=>
                        HoldersIn(children', FileChild(i)) =
                          IF LeadsToRoot(File(i).parent_cnid, Attached)
                            THEN {File(i).parent_cnid} ELSE {}
    BY <2>2
  <2>3. Holders(FileChild(i))' = HoldersIn(children', FileChild(i))
    BY HoldersAre
  <2>4. LeadsToRoot(File(i).parent_cnid, Attached)'
          <=> LeadsToRoot(File(i).parent_cnid, Attached)
    BY <1>5, <2>1 DEF LeadsToRoot, Folders, Parent
  <2>5. QED
    BY <2>1, <2>3, <2>4 DEF Follows
<1>6. CASE AttachFile /\ UNCHANGED leafVars
  <2>1. /\ pc = "files" /\ pc' = pc /\ next_file' = next_file + 1
        /\ catalog' = catalog /\ nodes' = nodes
    BY <1>6 DEF AttachFile
  <2> SUFFICES ASSUME Healthy', NEW i \in 1..next_file
               PROVE  Follows(i)'
    BY <1>1, <2>1 DEF FollowFolders
  <2>2. Healthy
    BY <1>5, <2>1
  <2>3. CASE i = next_file
    <3> DEFINE cnid == File(i).parent_cnid
    <3>1. next_file \in 1..Len(catalog.files) /\ DOMAIN children = Folders \cup {Root}
      BY <1>1, <1>6, FileAttached DEF TreeShape
    <3>2. cnid \in Folders \cup {Root}
      BY <2>2, <2>3, <3>1 DEF Healthy
    <3>3. HoldersIn(children', FileChild(i))
            = find_by_path(cnid_path(cnid)) \cap DOMAIN children
      BY <1>6, <2>3, FileAttached
    <3> HIDE DEF cnid
    <3>4. find_by_path(cnid_path(cnid))
            = IF LeadsToRoot(cnid, Attached) THEN {cnid} ELSE {}
      BY <1>1, <2>2, <3>2, PathLeadsToFolder
    <3>5. HoldersIn(children', FileChild(i))
            = IF LeadsToRoot(cnid, Attached) THEN {cnid} ELSE {}
      BY <3>1, <3>2, <3>3, <3>4
    <3>6. QED
      BY <1>5, <2>1, <3>5 DEF cnid
  <2>4. CASE i # next_file
    <3>1. i \in 1..(next_file - 1)
      BY <1>1, <2>4
    <3>2. Follows(i)
      BY <2>2, <3>1 DEF FollowFolders
    <3>3. FileChild(i) # FileChild(next_file)
      BY <2>4, ChildFacts
    <3>4. HoldersIn(children', FileChild(i)) = Holders(FileChild(i))
      BY <1>6, <3>3, FileAttached
    <3>5. QED
      BY <1>5, <2>1, <3>2, <3>4 DEF Follows
  <2>5. QED
    BY <2>3, <2>4
<1>7. ASSUME catalog' = catalog, nodes' = nodes, next_file' = next_file,
             \A x : Holders(x)' = Holders(x)
      PROVE  Healthy' => \A i \in 1..(next_file' - 1) : Follows(i)'
  <2> SUFFICES ASSUME Healthy', NEW i \in 1..(next_file - 1) PROVE Follows(i)'
    BY <1>7
  <2>1. Follows(i)
    BY <1>5, <1>7 DEF FollowFolders
  <2>2. HoldersIn(children', FileChild(i)) = Holders(FileChild(i))
    BY <1>7, HoldersAre
  <2>3. QED
    BY <1>5, <1>7, <2>1, <2>2 DEF Follows
<1>8. CASE Finish /\ UNCHANGED leafVars
  <2>1. catalog' = catalog /\ nodes' = nodes /\ next_file' = next_file /\ pc' = "done"
    BY <1>8 DEF Finish
  <2>2. \A x : Holders(x)' = Holders(x)
    BY <1>8, ChildrenSorted
  <2>3. QED
    BY <1>7, <2>1, <2>2 DEF FollowFolders
<1>9. CASE UNCHANGED vars
  <2>1. /\ catalog' = catalog /\ nodes' = nodes /\ next_file' = next_file
        /\ pc' = pc /\ children' = children
    BY <1>9 DEF vars, treeVars
  <2>2. \A x : Holders(x)' = Holders(x)
    BY <2>1, HoldersAre
  <2>3. QED
    BY <1>7, <2>1, <2>2 DEF FollowFolders
<1>10. QED
  BY <1>3, <1>4, <1>6, <1>8, <1>9 DEF Next, TreeNext

(* On every healthy volume, in every order of the map of folders: a file   *)
(* is in the folder its record names and in no other, just when that       *)
(* folder and all above it are attached; no path leads to a folder of the  *)
(* same name elsewhere (cnid_path and find_by_path_mut of hfsplus.rs).     *)
THEOREM FilesAreWhereTheyBelong == Spec => []FilesFollowFolders
<1>1. Init => FollowFolders
  BY DEF Init, InitLeaves, InitTree, FollowFolders
<1>2. Inv /\ FollowFolders /\ [Next]_vars => FollowFolders'
  BY FollowStep
<1>3. FollowFolders => FilesFollowFolders
  BY DEF FollowFolders, FilesFollowFolders, Follows, Attached
<1>4. QED
  BY <1>1, <1>2, <1>3, Invariance, PTL DEF Spec
=============================================================================
