------------------------------ MODULE ZipProofs -------------------------------
(***************************************************************************)
(* Proofs about the ZIP reader and the ZIP writer.  For every archive,     *)
(* whole, damaged or cut off: the reader goes by the last end record, the  *)
(* tree has the last file of each path under all the directories above it, *)
(* and only plain data are located.  What the writer writes is read back.  *)
(***************************************************************************)
EXTENDS ZipRoundTrip, Lemmas

(* What is written, and by then the reader has not begun.                  *)
WriterTyped ==
  /\ members = <<>> \/ members \in Writes
  /\ archive \in Seq(Units)
  /\ offset \in Nat /\ w_cd_size \in Nat
  /\ lh_offsets \in Seq(Nat)
  /\ next_member \in 1..(Len(members) + 1)
  /\ w_pc \in {"entry", "data", "central", "end", "done"}
  /\ w_pc = "entry" => Len(lh_offsets) = next_member - 1
  /\ w_pc = "data" => More /\ Len(lh_offsets) = next_member
  /\ w_pc = "central" => Len(lh_offsets) = Len(members)
  /\ ~Written => InitReader

ReaderTyped ==
  /\ pc \in {"search", "locate", "wide", "load", "list", "build", "done"}
  /\ {eocd_pos, wide_pos, cd_offset, cd_size, pos} \subseteq Nat
  /\ pc = "list" => cd_offset + cd_size <= Len(archive)
  /\ entries \in Seq(Entry)
  /\ built \in 0..Len(entries)
  /\ pc \notin {"build", "done"} => built = 0 /\ nodes = <<>>
  /\ result \in {"none", "Ok", "NotZip", "BadCentralDirectory", "Io"}
  /\ pc # "done" => result = "none"

(* The reader goes by the last end record, as far as it has gone.          *)
GoesByTheLast ==
  /\ pc \in {"locate", "wide"} => IsZip64(Unit(Max(Signatures)))
  /\ pc # "search" /\ result \notin {"NotZip", "Io"} => HasEnd
  /\ pc # "search" /\ result # "Io" /\ HasEnd => eocd_pos = Max(Signatures)
  /\ result = "NotZip" => ~HasEnd \/ IsZip64(Unit(Max(Signatures)))

(* A path that could be a node's: no empty part but one it begins with.    *)
Clean(path) ==
  /\ path \in Seq(Part) \ {<<>>}
  /\ path[Len(path)] # Empty
  /\ \A i \in 2..Len(path) : path[i] # Empty

DataAt(i) == local_data_offset(entries[i].local_header_offset)
IsLast(k, i) == IsReadable(i) /\ \A j \in Files(k) : IsReadable(j) => j <= i
Located(k) ==
  \/ /\ nodes[k].file_location = NoValue
     /\ \A i \in Files(k) : IsLast(k, i) => faulty \/ DataAt(i) = NoValue
  \/ \E i \in Files(k) :
       /\ IsLast(k, i) /\ DataAt(i) # NoValue
       /\ nodes[k].file_location = DataAt(i)
Lasts(k) ==
  /\ nodes[k].is_directory = (Files(k) = {})
  /\ \A i \in Files(k) :
       (\A j \in Files(k) : j <= i)
         => nodes[k].file_length = entries[i].uncompressed_size

(* Every file whose name is a path has the node: a directory is new only   *)
(* where no file was.                                                      *)
Growing ==
  /\ \A k \in DOMAIN nodes :
       /\ nodes[k] \in Node /\ Clean(k) /\ Above(k) \subseteq DOMAIN nodes
       /\ Located(k) /\ Lasts(k)
  /\ \A i \in 1..built :
       LET raw == TrimSlashes(entries[i].name)
       IN  ~IsDir(entries[i].name) /\ Clean(raw) => raw \in DOMAIN nodes

Inv == WriterTyped /\ ReaderTyped /\ GoesByTheLast /\ Growing

-----------------------------------------------------------------------------
(* The operators the model is built from.                                  *)
LEMMA MaxFacts ==
  ASSUME NEW n \in Nat, NEW S \in SUBSET (0..n), S # {}
  PROVE  Max(S) \in S /\ Max(S) \in Nat /\ \A y \in S : y <= Max(S)
<1>1. PICK x \in S : \A y \in S : x >= y
  BY GreatestElement
<1>2. Max(S) \in S /\ \A y \in S : Max(S) >= y
  BY <1>1 DEF Max
<1>3. \A y \in S : y \in Nat
  OBVIOUS
<1>4. QED
  BY <1>2, <1>3

LEMMA UnitFacts ==
  ASSUME NEW unit \in Units
  PROVE  /\ unit.kind = "LFH" =>
              unit.encrypted \in BOOLEAN /\ {unit.name_len, unit.extra_len} \subseteq Nat
         /\ unit.kind = "CDR" =>
              /\ unit.name \in Name
              /\ unit.stored \in BOOLEAN /\ unit.encrypted \in BOOLEAN
              /\ {unit.comp, unit.uncomp, unit.offset, unit.extra_len,
                  unit.comment_len} \subseteq Nat
              /\ unit.wide \in Seq(Nat)
         /\ unit.kind = "EOCD" =>
              {unit.total, unit.cd_size, unit.cd_offset, unit.comment_len} \subseteq Nat
         /\ unit.kind = "locator" => unit.at \in Nat
         /\ unit.kind = "EOCD64" => {unit.cd_size, unit.cd_offset} \subseteq Nat
<1>1. CASE unit = Byte
  BY <1>1 DEF Byte
<1>2. CASE unit \in [kind : {"LFH"}, encrypted : BOOLEAN, name_len : Nat, extra_len : Nat]
  BY <1>2
<1>3. CASE unit \in [kind : {"CDR"}, name : Name, stored : BOOLEAN, encrypted : BOOLEAN,
                     comp : Nat, uncomp : Nat, offset : Nat, extra_len : Nat,
                     wide : Seq(Nat), comment_len : Nat]
  BY <1>3
<1>4. CASE unit \in Ends
  BY <1>4 DEF Ends
<1>5. CASE unit \in [kind : {"locator"}, at : Nat]
  BY <1>5
<1>6. CASE unit \in [kind : {"EOCD64"}, cd_size : Nat, cd_offset : Nat]
  BY <1>6
<1>7. QED
  BY <1>1, <1>2, <1>3, <1>4, <1>5, <1>6 DEF Units

LEMMA ArchiveFacts ==
  ASSUME archive \in Seq(Units)
  PROVE  /\ Len(archive) \in Nat
         /\ \A p \in Nat : p < Len(archive) => Unit(p) \in Units
         /\ \A p \in Nat, length \in Nat \ {0} : p + length <= Len(archive) =>
              Unit(p) \in Units
<1>1. Len(archive) \in Nat
  BY LenProperties
<1>2. ASSUME NEW p \in Nat, p < Len(archive) PROVE Unit(p) \in Units
  <2>1. p + 1 \in 1..Len(archive)
    BY <1>1, <1>2
  <2> HIDE DEF Units
  <2>2. QED
    BY <2>1, ElementOfSeq DEF Unit
<1>3. \A p \in Nat, length \in Nat \ {0} : p + length <= Len(archive) =>
        p < Len(archive)
  BY <1>1
<1>4. QED
  BY <1>1, <1>2, <1>3

(* The last signature is one, and within the archive.                      *)
LEMMA SignatureFacts ==
  ASSUME archive \in Seq(Units), Signatures # {}
  PROVE  LET p == Max(Signatures)
         IN  /\ p \in Nat /\ p < Len(archive) /\ p \in Signatures
             /\ Unit(p).kind = "EOCD" /\ Unit(p) \in Units
             /\ \A q \in Signatures : q <= p
<1>1. Len(archive) \in Nat
  BY ArchiveFacts
<1>2. \A q \in Signatures : q \in Nat /\ q < Len(archive) /\ Unit(q).kind = "EOCD"
  BY <1>1 DEF Signatures, Window
<1>3. Signatures \in SUBSET (0..Len(archive))
  BY <1>1, <1>2
<1>4. Max(Signatures) \in Signatures /\ \A q \in Signatures : q <= Max(Signatures)
  BY <1>1, <1>3, MaxFacts
<1>5. QED
  BY <1>2, <1>4, ArchiveFacts

(* What is left of a name without the slashes at its end.                  *)
LEMMA TrimFacts ==
  ASSUME NEW name \in Name
  PROVE  /\ TrimSlashes(name) \in Seq(Part)
         /\ TrimSlashes(name) # <<>> =>
              TrimSlashes(name)[Len(TrimSlashes(name))] # Empty
<1> DEFINE kept == { i \in DOMAIN name : name[i] # Empty }
           m == Max(kept)
           t == SubSeq(name, 1, m)
<1>1. /\ name \in Seq(Part) /\ Len(name) \in Nat /\ DOMAIN name = 1..Len(name)
      /\ \A i \in 1..Len(name) : name[i] \in Part
  BY NamesAssumption, LenProperties, ElementOfSeq
<1>2. CASE kept = {}
  BY <1>2, EmptySeq DEF TrimSlashes
<1>3. CASE kept # {}
  <2>1. kept \in SUBSET (0..Len(name))
    BY <1>1
  <2>2. m \in kept
    <3> HIDE DEF kept
    <3>1. QED
      BY <1>1, <1>3, <2>1, MaxFacts
  <2>3. m \in 1..Len(name) /\ name[m] # Empty
    BY <1>1, <2>2
  <2> HIDE DEF m
  <2>4. \A i \in 1..m : name[i] \in Part
    BY <1>1, <2>3
  <2>5. /\ t \in Seq(Part) /\ Len(t) = m /\ t[m] = name[m]
    <3>1. /\ t \in Seq(Part) /\ Len(t) = IF 1 <= m THEN m - 1 + 1 ELSE 0
          /\ \A i \in 1..(m - 1 + 1) : t[i] = name[1 + i - 1]
      <4>1. 1 \in Int /\ m \in Int
        BY <2>3
      <4>2. QED
        BY <2>4, <4>1, SubSeqProperties
    <3>2. m \in Nat /\ 1 <= m /\ m - 1 + 1 = m /\ 1 + m - 1 = m
      BY <2>3, <1>1
    <3> HIDE DEF t
    <3>3. QED
      BY <3>1, <3>2
  <2>6. TrimSlashes(name) = t
    BY <1>3 DEF TrimSlashes, m
  <2>7. QED
    BY <2>3, <2>5, <2>6
<1>4. QED
  BY <1>2, <1>3

(* A path has no empty part but one that it begins with, and a name that   *)
(* has none either is its own path.                                        *)
LEMMA PathFacts ==
  ASSUME NEW raw \in Seq(Part)
  PROVE  /\ PathOf(raw) \in Seq(Part)
         /\ \A i \in 2..Len(PathOf(raw)) : PathOf(raw)[i] # Empty
         /\ Clean(raw) => PathOf(raw) = raw
<1> DEFINE n == Len(raw)
           Rule(f) == [i \in 0..n |->
             IF i = 0 THEN <<>>
             ELSE IF i = 1 \/ raw[i] # Empty THEN Append(f[i - 1], raw[i])
                                             ELSE f[i - 1]]
           acc == CHOOSE f : f = Rule(f)
           keep == { i \in 1..n : i = 1 \/ raw[i] # Empty }
<1>1. n \in Nat /\ \A i \in 1..n : raw[i] \in Part
  BY LenProperties, ElementOfSeq
<1>2. PathOf(raw) = acc[n]
  BY DEF PathOf
<1> HIDE DEF n
<1>3. PICK f : Filters(f, n, Part, keep, raw)
  <2>1. \A i \in 1..n : i \in keep => raw[i] \in Part
    BY <1>1
  <2> HIDE DEF keep
  <2>2. QED
    BY <1>1, <2>1, FilteredExists
<1>4. f = Rule(f)
  <2>1. \A i \in 0..n : i = 0 \/ i \in 1..n
    BY <1>1
  <2>2. \A i \in 0..n : f[i] = Rule(f)[i]
    BY <1>3, <2>1 DEF Filters
  <2>3. QED
    BY <1>3, <2>2 DEF Filters
<1>5. acc = Rule(acc)
  <2> HIDE DEF Rule
  <2>1. QED
    BY <1>4
<1> HIDE DEF acc
<1>6. acc[0] = <<>>
  BY <1>1, <1>5
<1>7. \A i \in 1..n :
        acc[i] = IF i = 1 \/ raw[i] # Empty THEN Append(acc[i - 1], raw[i])
                                            ELSE acc[i - 1]
  <2>1. \A i \in 1..n : i \in 0..n /\ i # 0
    BY <1>1
  <2>2. QED
    BY <1>5, <2>1
<1> DEFINE G(s, i) ==
             /\ s \in Seq(Part) /\ Len(s) \in Nat /\ (s = <<>> => i = 0)
             /\ \A j \in 2..Len(s) : s[j] # Empty
             /\ Clean(raw) => Len(s) = i /\ \A j \in 1..i : s[j] = raw[j]
           S == { i \in 0..n : G(acc[i], i) }
<1>8. 0 \in S
  <2>1. acc[0] \in Seq(Part) /\ Len(acc[0]) = 0
    BY <1>6, EmptySeq
  <2>2. QED
    BY <1>1, <2>1
<1>9. ASSUME NEW i \in 1..n, i - 1 \in S PROVE i \in S
  <2> DEFINE s == acc[i - 1]
             x == raw[i]
  <2>1. /\ i \in 0..n /\ i \in Nat /\ i # 0 /\ x \in Part
        /\ s \in Seq(Part) /\ Len(s) \in Nat /\ (s = <<>> => i - 1 = 0)
        /\ \A j \in 2..Len(s) : s[j] # Empty
        /\ Clean(raw) => Len(s) = i - 1 /\ \A j \in 1..(i - 1) : s[j] = raw[j]
    BY <1>1, <1>9
  <2>2. acc[i] = IF i = 1 \/ x # Empty THEN Append(s, x) ELSE s
    BY <1>7
  <2>3. Clean(raw) => i = 1 \/ x # Empty
    BY <1>1, <2>1 DEF Clean, n
  <2> HIDE DEF s, x
  <2>4. CASE ~(i = 1 \/ x # Empty)
    <3>1. acc[i] = s /\ ~Clean(raw) /\ i # 1
      BY <2>2, <2>3, <2>4
    <3>2. s # <<>>
      BY <2>1, <3>1
    <3>3. QED
      BY <2>1, <3>1, <3>2
  <2>5. CASE i = 1 \/ x # Empty
    <3> DEFINE t == Append(s, x)
    <3>1. /\ t \in Seq(Part) /\ t # <<>> /\ Len(t) = Len(s) + 1
          /\ \A j \in 1..Len(s) : t[j] = s[j]
          /\ t[Len(s) + 1] = x
      BY <2>1, AppendProperties
    <3> HIDE DEF t
    <3>2. acc[i] = t
      BY <2>2, <2>5 DEF t
    <3>3. \A j \in 2..Len(t) : t[j] # Empty
      <4> TAKE j \in 2..Len(t)
      <4>1. CASE j = Len(s) + 1
        <5>1. i # 1
          <6> SUFFICES ASSUME i = 1 PROVE FALSE
            OBVIOUS
          <6>1. acc[0] = s
            BY DEF s
          <6>2. Len(s) = 0
            BY <1>6, <6>1, EmptySeq
          <6>3. QED
            BY <4>1, <6>2
        <5>2. QED
          BY <2>5, <3>1, <4>1, <5>1
      <4>2. CASE j # Len(s) + 1
        <5>1. j \in 2..Len(s) /\ j \in 1..Len(s)
          BY <2>1, <3>1, <4>2
        <5>2. QED
          BY <2>1, <3>1, <5>1
      <4>3. QED
        BY <4>1, <4>2
    <3>4. Clean(raw) => Len(t) = i /\ \A j \in 1..i : t[j] = raw[j]
      <4> SUFFICES ASSUME Clean(raw) PROVE Len(t) = i /\ \A j \in 1..i : t[j] = raw[j]
        OBVIOUS
      <4>1. Len(s) = i - 1 /\ Len(s) + 1 = i
        BY <2>1
      <4>2. \A j \in 1..i : j = i \/ j \in 1..(i - 1)
        BY <2>1
      <4>3. QED
        BY <2>1, <3>1, <4>1, <4>2 DEF x
    <3>5. Len(t) \in Nat
      BY <2>1, <3>1
    <3>6. QED
      BY <2>1, <3>1, <3>2, <3>3, <3>4, <3>5
  <2>6. QED
    BY <2>4, <2>5
<1>10. 0..n \subseteq S
  <2> HIDE DEF S
  <2>1. QED
    BY <1>1, <1>8, <1>9, UpTo
<1>11. G(acc[n], n)
  <2>1. n \in S
    BY <1>1, <1>10
  <2>2. QED
    BY <2>1
<1>12. Clean(raw) => acc[n] = raw
  BY <1>1, <1>11, SeqEqual DEF n
<1>13. QED
  BY <1>2, <1>11, <1>12

(* The directories above a path are paths, and so are those above them.    *)
LEMMA AboveFacts ==
  ASSUME NEW path \in Seq(Part), \A i \in 2..Len(path) : path[i] # Empty
  PROVE  /\ \A k \in Above(path) : Clean(k) /\ Above(k) \subseteq Above(path)
         /\ Clean(path) => path \in Above(path)
<1> DEFINE n == Len(path)
           real == { i \in 1..n : path[i] # Empty }
<1>1. n \in Nat /\ DOMAIN path = 1..n /\ \A i \in 1..n : path[i] \in Part
  BY LenProperties, ElementOfSeq
<1>2. Above(path) = { SubSeq(path, 1, i) : i \in real }
  BY <1>1 DEF Above
<1>3. ASSUME NEW m \in real
      PROVE  /\ SubSeq(path, 1, m) \in Seq(Part) /\ Len(SubSeq(path, 1, m)) = m
             /\ \A i \in 1..m : SubSeq(path, 1, m)[i] = path[i]
             /\ \A i \in 1..m :
                  SubSeq(SubSeq(path, 1, m), 1, i) = SubSeq(path, 1, i)
  <2>1. m \in Int /\ 1 <= m /\ m <= n /\ 1 \in Int
    BY <1>1
  <2>2. \A i \in 1..m : path[i] \in Part
    BY <1>1, <2>1
  <2> DEFINE t == SubSeq(path, 1, m)
  <2>3. /\ t \in Seq(Part) /\ Len(t) = IF 1 <= m THEN m - 1 + 1 ELSE 0
        /\ \A i \in 1..(m - 1 + 1) : t[i] = path[1 + i - 1]
    BY <2>1, <2>2, SubSeqProperties
  <2>4. m - 1 + 1 = m /\ \A i \in 1..m : 1 + i - 1 = i
    BY <2>1
  <2>5. ASSUME NEW i \in 1..m PROVE SubSeq(t, 1, i) = SubSeq(path, 1, i)
    <3>1. /\ 1 \in 1..n /\ m \in 1..n /\ 1 \in 1..(m - 1 + 1)
          /\ i \in 1..(m - 1 + 1) /\ 1 + 1 - 1 = 1 /\ 1 + i - 1 = i
      BY <1>1, <2>1
    <3>2. SubSeq(t, 1, i) = SubSeq(path, 1 + 1 - 1, 1 + i - 1)
      BY <3>1, SubSeqOfSubSeq
    <3>3. QED
      BY <3>1, <3>2
  <2> HIDE DEF t
  <2>6. Len(t) = m /\ \A i \in 1..m : t[i] = path[i]
    BY <2>1, <2>3, <2>4
  <2>7. QED
    BY <2>3, <2>5, <2>6 DEF t
<1>4. ASSUME NEW m \in real
      PROVE  Clean(SubSeq(path, 1, m)) /\ Above(SubSeq(path, 1, m)) \subseteq Above(path)
  <2> DEFINE t == SubSeq(path, 1, m)
  <2>1. m \in 1..n /\ path[m] # Empty /\ \A i \in 1..m : i \in 1..n
    BY <1>1
  <2>2. /\ t \in Seq(Part) /\ Len(t) = m /\ DOMAIN t = 1..m
        /\ \A i \in 1..m : t[i] = path[i]
        /\ \A i \in 1..m : SubSeq(t, 1, i) = SubSeq(path, 1, i)
    <3>1. t \in Seq(Part) /\ Len(t) = m
      BY <1>3
    <3>2. DOMAIN t = 1..m
      BY <3>1, LenProperties
    <3>3. QED
      BY <1>3, <3>1, <3>2
  <2> HIDE DEF t
  <2>3. t # <<>> /\ t[m] # Empty
    BY <1>1, <2>1, <2>2, EmptySeq
  <2>4. \A i \in 2..m : t[i] # Empty
    <3>1. \A i \in 2..m : i \in 1..m /\ i \in 2..n
      BY <1>1, <2>1
    <3>2. QED
      BY <2>2, <3>1
  <2>5. Clean(t)
    BY <2>2, <2>3, <2>4 DEF Clean
  <2>6. { SubSeq(t, 1, i) : i \in { j \in 1..m : t[j] # Empty } }
          \subseteq { SubSeq(path, 1, i) : i \in real }
    BY <2>1, <2>2
  <2>7. Above(t) \subseteq Above(path)
    BY <1>2, <2>2, <2>6 DEF Above
  <2>8. QED
    BY <2>5, <2>7 DEF t
<1>5. ASSUME Clean(path) PROVE path \in Above(path)
  <2>1. n \in real /\ SubSeq(path, 1, n) = path
    BY <1>1, <1>5, SubSeqFull, EmptySeq DEF Clean
  <2>2. QED
    BY <1>2, <2>1
<1>6. QED
  BY <1>2, <1>4, <1>5

(* The nodes that an entry creates.                                        *)
LEMMA CreatedFacts ==
  ASSUME NEW name \in Name
  PROVE  LET raw == TrimSlashes(name)
         IN  /\ \A k \in Created(raw) : Clean(k) /\ Above(k) \subseteq Created(raw)
             /\ Clean(raw) => raw \in Created(raw)
<1> DEFINE raw == TrimSlashes(name)
<1>1. raw \in Seq(Part)
  BY TrimFacts
<1> HIDE DEF raw
<1>2. /\ PathOf(raw) \in Seq(Part)
      /\ \A i \in 2..Len(PathOf(raw)) : PathOf(raw)[i] # Empty
      /\ Clean(raw) => PathOf(raw) = raw
  BY <1>1, PathFacts
<1>3. \A k \in Above(PathOf(raw)) :
        Clean(k) /\ Above(k) \subseteq Above(PathOf(raw))
  BY <1>2, AboveFacts
<1>4. Clean(raw) => raw \in Above(PathOf(raw))
  BY <1>2, AboveFacts
<1>5. QED
  BY <1>3, <1>4 DEF Created, raw

-----------------------------------------------------------------------------
(* What the pieces of an archive are made of.                              *)
LEMMA BytesFacts ==
  ASSUME NEW n \in Nat
  PROVE  /\ Bytes(n) \in Seq(Units) /\ Len(Bytes(n)) = n
         /\ \A i \in 1..n : Bytes(n)[i] = Byte
<1>1. Byte \in Units
  BY DEF Units
<1>2. Bytes(n) \in [1..n -> Units] /\ \A i \in 1..n : Bytes(n)[i] = Byte
  <2> HIDE DEF Units, Byte
  <2>1. QED
    BY <1>1 DEF Bytes
<1>3. Bytes(n) \in Seq(Units)
  BY <1>2, SeqDef
<1>4. Len(Bytes(n)) = n
  BY <1>2, <1>3, LenProperties
<1>5. QED
  BY <1>2, <1>3, <1>4

(* One piece after another.                                                *)
LEMMA Joined ==
  ASSUME NEW s \in Seq(Units), NEW t \in Seq(Units)
  PROVE  /\ Len(s) \in Nat /\ Len(t) \in Nat
         /\ s \o t \in Seq(Units) /\ Len(s \o t) = Len(s) + Len(t)
         /\ \A i \in 1..Len(s) : (s \o t)[i] = s[i]
         /\ \A i \in 1..Len(t) : (s \o t)[Len(s) + i] = t[i]
<1> DEFINE u == s \o t
           m == Len(s)
           n == Len(t)
<1>1. m \in Nat /\ n \in Nat
  BY LenProperties
<1>2. /\ u \in Seq(Units) /\ Len(u) = m + n
      /\ \A i \in 1..(m + n) : u[i] = IF i <= m THEN s[i] ELSE t[i - m]
  BY ConcatProperties
<1> HIDE DEF u, m, n
<1>3. \A i \in 1..m : u[i] = s[i]
  <2>1. \A i \in 1..m : i \in 1..(m + n) /\ i <= m
    BY <1>1
  <2>2. QED
    BY <1>2, <2>1
<1>4. \A i \in 1..n : u[m + i] = t[i]
  <2>1. \A i \in 1..n : m + i \in 1..(m + n) /\ ~(m + i <= m) /\ (m + i) - m = i
    BY <1>1
  <2>2. QED
    BY <1>2, <2>1
<1>5. QED
  BY <1>1, <1>2, <1>3, <1>4 DEF u, m, n

LEMMA OneUnit ==
  ASSUME NEW unit \in Units
  PROVE  <<unit>> \in Seq(Units) /\ Len(<<unit>>) = 1 /\ <<unit>>[1] = unit
<1> HIDE DEF Units
<1>1. <<unit>> \in [1..1 -> Units] /\ <<unit>>[1] = unit
  OBVIOUS
<1>2. <<unit>> \in Seq(Units)
  BY <1>1, SeqDef
<1>3. QED
  BY <1>1, <1>2, LenProperties

LEMMA SpelledOutFacts ==
  ASSUME NEW record \in Units, NEW what, NEW length \in Nat \ {0}
  PROVE  /\ SpelledOut(record, what, length) \in Seq(Units)
         /\ Len(SpelledOut(record, what, length)) = length
         /\ SpelledOut(record, what, length)[1] = record
         /\ \A i \in 2..length :
              Spelled(what, i - 1) \notin Ends
                => SpelledOut(record, what, length)[i] = Byte
<1> DEFINE U(i) == IF i = 1 THEN record
                   ELSE IF Spelled(what, i - 1) \in Ends THEN Spelled(what, i - 1)
                   ELSE Byte
           s == [i \in 1..length |-> U(i)]
<1>1. \A i \in 1..length : U(i) \in Units
  <2>1. \A x : x \in Ends \/ x = Byte => x \in Units
    BY DEF Units
  <2> HIDE DEF Units, Ends
  <2>2. QED
    BY <2>1
<1>2. U(1) = record /\ \A i \in 2..length :
                          Spelled(what, i - 1) \notin Ends => U(i) = Byte
  <2> HIDE DEF Ends
  <2>1. QED
    OBVIOUS
<1>3. SpelledOut(record, what, length) = s
  BY DEF SpelledOut
<1> HIDE DEF U, Units
<1>4. s \in [1..length -> Units] /\ \A i \in 1..length : s[i] = U(i)
  BY <1>1
<1>5. s \in Seq(Units) /\ Len(s) = length
  <2> HIDE DEF s
  <2>1. s \in Seq(Units)
    BY <1>4, SeqDef
  <2>2. DOMAIN s = 1..length /\ DOMAIN s = 1..Len(s) /\ Len(s) \in Nat
    BY <1>4, <2>1, LenProperties
  <2>3. QED
    BY <2>1, <2>2
<1>6. 1 \in 1..length /\ \A i \in 2..length : i \in 1..length
  OBVIOUS
<1> HIDE DEF s
<1>7. QED
  BY <1>2, <1>3, <1>4, <1>5, <1>6

LEMMA NamedFacts ==
  ASSUME NEW record \in Units, NEW fixed \in Nat \ {0}, NEW m, NEW name \in Name,
         m.name = name
  PROVE  /\ Named(record, fixed, m) \in Seq(Units)
         /\ Len(Named(record, fixed, m)) = fixed + NameBytes[name]
         /\ NameBytes[name] \in Nat
         /\ Named(record, fixed, m)[1] = record
<1> DEFINE what == <<record, m>>
           length == fixed + NameBytes[name]
<1>1. NameBytes[name] \in Nat /\ length \in Nat \ {0}
  BY NamesAssumption
<1>2. Named(record, fixed, m) = SpelledOut(record, what, length)
  BY DEF Named
<1> HIDE DEF what, length
<1>3. QED
  BY <1>1, <1>2, SpelledOutFacts DEF length

LEMMA StoredEndFacts ==
  ASSUME NEW end \in Units
  PROVE  /\ StoredEnd(end) \in Seq(Units)
         /\ Len(StoredEnd(end)) = EOCD_MIN_SIZE
         /\ StoredEnd(end)[1] = end
         /\ (\A i \in 1..(EOCD_MIN_SIZE - 1) : Spelled(<<end>>, i) \notin Ends) =>
              \A i \in 2..EOCD_MIN_SIZE : StoredEnd(end)[i] = Byte
<1> DEFINE what == <<end>>
           n == EOCD_MIN_SIZE
<1>1. n \in Nat \ {0}
  BY SizesAssumption
<1>2. \A i \in 2..n : i - 1 \in 1..(n - 1)
  BY <1>1
<1>3. StoredEnd(end) = SpelledOut(end, what, n)
  BY DEF StoredEnd
<1> HIDE DEF what, n
<1>4. QED
  BY <1>1, <1>2, <1>3, SpelledOutFacts DEF n, what

-----------------------------------------------------------------------------
(* Whatever is written is well-formed, however much of it there is.        *)
LEMMA MemberFacts ==
  ASSUME members = <<>> \/ members \in Writes
  PROVE  /\ Len(members) \in Nat
         /\ DOMAIN members = 1..Len(members)
         /\ \A i \in 1..Len(members) :
              /\ members[i].name \in Name /\ members[i].data \in Seq(Units)
              /\ Len(members[i].data) \in Nat
              /\ Cut[members[i].name] \in Name
              /\ NameBytes[members[i].name] \in Nat
              /\ NameBytes[members[i].name] < W16
                   => Cut[members[i].name] = members[i].name
<1>1. CASE members = <<>>
  <2>1. Len(members) = 0 /\ DOMAIN members = {}
    BY <1>1, EmptySeq
  <2>2. QED
    BY <2>1
<1>2. CASE members \in Writes
  <2>1. /\ Len(members) \in Nat /\ members = [i \in 1..Len(members) |-> members[i]]
        /\ \A i \in DOMAIN members : IsMember(members[i])
    BY <1>2, WritesAssumption
  <2>2. DOMAIN members = 1..Len(members)
    BY <2>1
  <2>3. ASSUME NEW i \in 1..Len(members)
        PROVE  /\ members[i].name \in Name /\ members[i].data \in Seq(Units)
               /\ Cut[members[i].name] \in Name
               /\ NameBytes[members[i].name] < W16
                    => Cut[members[i].name] = members[i].name
    <3> HIDE DEF Name, Units
    <3>1. QED
      BY <2>1, <2>2 DEF IsMember
  <2>4. \A i \in 1..Len(members) :
          Len(members[i].data) \in Nat /\ NameBytes[members[i].name] \in Nat
    <3> HIDE DEF Units
    <3>1. QED
      BY <2>3, LenProperties, NamesAssumption
  <2>5. QED
    BY <2>1, <2>2, <2>3, <2>4
<1>3. QED
  BY <1>1, <1>2

LEMMA Remainder ==
  ASSUME NEW n \in Nat
  PROVE  /\ n % W16 \in Nat /\ n % W16 < W16 /\ n % W32 \in Nat /\ n % W32 < W32
         /\ n < W16 => n % W16 = n
         /\ n < W32 => n % W32 = n
BY WidthAssumption

LEMMA RecordFacts ==
  /\ \A a \in Nat : LocalHeader(FALSE, a, 0) \in Units
  /\ \A name \in Name, a, b \in Nat :
       CentralRecord(name, TRUE, FALSE, a, a, b, 0, <<>>, 0) \in Units
  /\ \A a, b, c \in Nat : EndRecord(a, b, c, 0) \in Units
<1>1. \A a \in Nat : LocalHeader(FALSE, a, 0) \in Units
  BY DEF LocalHeader, Units
<1>2. ASSUME NEW name \in Name, NEW a \in Nat, NEW b \in Nat
      PROVE  CentralRecord(name, TRUE, FALSE, a, a, b, 0, <<>>, 0) \in Units
  <2>1. <<>> \in Seq(Nat)
    BY EmptySeq
  <2> DEFINE none == <<>>
  <2> HIDE DEF none
  <2>2. CentralRecord(name, TRUE, FALSE, a, a, b, 0, none, 0) \in
          [kind : {"CDR"}, name : Name, stored : BOOLEAN, encrypted : BOOLEAN,
           comp : Nat, uncomp : Nat, offset : Nat, extra_len : Nat,
           wide : Seq(Nat), comment_len : Nat]
    BY <2>1 DEF CentralRecord, none
  <2>3. QED
    BY <2>2 DEF Units, none
<1>3. \A a, b, c \in Nat : EndRecord(a, b, c, 0) \in Units
  BY DEF EndRecord, Ends, Units
<1>4. QED
  BY <1>1, <1>2, <1>3

LEMMA PieceFacts ==
  ASSUME WriterTyped, ~Written, w_pc \in {"entry", "central"} => More
  PROVE  /\ Piece \in Seq(Units)
         /\ w_pc # "end" => next_member \in 1..Len(members)
<1>1. Len(members) \in Nat
  BY MemberFacts DEF WriterTyped
<1>2. w_pc # "end" => next_member \in 1..Len(members)
  BY <1>1 DEF WriterTyped, More, Written
<1>3. ASSUME next_member \in 1..Len(members)
      PROVE  /\ Member.name \in Name /\ Member.data \in Seq(Units)
             /\ Cut[Member.name] \in Name /\ Size(Member) \in Nat
             /\ NameBytes[Member.name] % W16 \in Nat
  BY <1>3, MemberFacts, Remainder DEF WriterTyped, Member, Size
<1>4. CASE w_pc = "entry"
  <2> DEFINE l == NameBytes[Member.name] % W16
  <2>1. Piece = Named(LocalHeader(FALSE, l, 0), LFH_SIZE, Member)
    BY <1>4 DEF Piece, LocalPiece, LocalOf
  <2>2. l \in Nat /\ Member.name \in Name
    BY <1>2, <1>3, <1>4
  <2> HIDE DEF l
  <2>3. LocalHeader(FALSE, l, 0) \in Units /\ LFH_SIZE \in Nat \ {0}
    BY <2>2, RecordFacts, SizesAssumption
  <2>4. QED
    BY <1>2, <1>4, <2>1, <2>2, <2>3, NamedFacts
<1>5. CASE w_pc = "data"
  BY <1>2, <1>3, <1>5 DEF Piece
<1>6. CASE w_pc = "central"
  <2> DEFINE at == lh_offsets[next_member]
             record == CentralRecord(Cut[Member.name], TRUE, FALSE, Size(Member),
                                     Size(Member), at, 0, <<>>, 0)
  <2>1. Piece = Named(record, CDR_SIZE, Member)
    BY <1>6 DEF Piece, CentralPiece, CentralOf
  <2>2. at \in Nat
    <3>1. next_member \in 1..Len(lh_offsets) /\ lh_offsets \in Seq(Nat)
      BY <1>2, <1>6 DEF WriterTyped
    <3>2. QED
      BY <3>1, ElementOfSeq
  <2> HIDE DEF at
  <2>3. record \in Units /\ CDR_SIZE \in Nat \ {0} /\ Member.name \in Name
    BY <1>2, <1>3, <1>6, <2>2, RecordFacts, SizesAssumption
  <2> HIDE DEF record
  <2>4. QED
    BY <1>2, <1>6, <2>1, <2>3, NamedFacts
<1>7. CASE w_pc = "end"
  <2> DEFINE end == EndRecord(Len(members) % W16, w_cd_size, offset, 0)
  <2>1. Piece = StoredEnd(end)
    BY <1>7 DEF Piece, EndPiece
  <2>2. Len(members) % W16 \in Nat
    BY <1>1, Remainder
  <2>3. end \in Units
    BY <2>2, RecordFacts DEF WriterTyped
  <2> HIDE DEF end
  <2>4. QED
    BY <1>7, <2>1, <2>3, StoredEndFacts
<1>8. QED
  BY <1>4, <1>5, <1>6, <1>7 DEF WriterTyped, Written

LEMMA WriterKeepsTypes ==
  ASSUME WriterTyped, ~Written, WriterNext, UNCHANGED readerVars
  PROVE  WriterTyped'
<1>1. InitReader'
  BY DEF WriterTyped, InitReader, readerVars, endVars, treeVars
<1>2. Len(members) \in Nat /\ next_member \in 1..(Len(members) + 1)
  BY MemberFacts DEF WriterTyped
<1>3. CASE WriteLocal
  <2>1. Piece \in Seq(Units) /\ next_member \in 1..Len(members)
    BY <1>3, PieceFacts DEF WriteLocal
  <2>2. archive \o Piece \in Seq(Units)
    BY <2>1, ConcatProperties DEF WriterTyped
  <2>3. /\ Append(lh_offsets, offset) \in Seq(Nat)
        /\ Len(Append(lh_offsets, offset)) = Len(lh_offsets) + 1
    BY AppendProperties DEF WriterTyped
  <2>4. QED
    BY <1>1, <1>2, <1>3, <2>1, <2>2, <2>3
       DEF WriterTyped, WriteLocal, HeaderNoted, More, Written
<1>4. CASE WriteData
  <2>1. Piece \in Seq(Units) /\ next_member \in 1..Len(members)
    BY <1>4, PieceFacts DEF WriteData
  <2>2. archive \o Piece \in Seq(Units)
    BY <2>1, ConcatProperties DEF WriterTyped
  <2>3. offset' \in Nat
    <3> DEFINE sum == offset + LFH_SIZE + NameBytes[Member.name] + Size(Member)
    <3>1. NameBytes[Member.name] \in Nat /\ Size(Member) \in Nat
      BY <2>1, MemberFacts, Remainder DEF WriterTyped, Member, Size
    <3>2. sum \in Nat
      <4>1. offset \in Nat /\ LFH_SIZE \in Nat
        BY SizesAssumption DEF WriterTyped
      <4>2. QED
        BY <3>1, <4>1
    <3>3. offset' = sum % W32
      BY <1>4 DEF WriteData
    <3> HIDE DEF sum
    <3>4. QED
      BY <3>2, <3>3, Remainder
  <2>4. /\ w_pc' = "entry" /\ next_member' = next_member + 1
        /\ archive' = archive \o Piece /\ w_pc = "data"
        /\ UNCHANGED <<members, lh_offsets, w_cd_size>>
    BY <1>4 DEF WriteData
  <2>5. next_member' \in 1..(Len(members) + 1) /\ next_member' - 1 = next_member
    BY <1>2, <2>1, <2>4
  <2>6. QED
    BY <1>1, <2>2, <2>3, <2>4, <2>5 DEF WriterTyped
<1>5. CASE EntriesWritten
  <2>1. /\ w_pc = "entry" /\ ~More /\ w_pc' = "central" /\ next_member' = 1
        /\ UNCHANGED <<archive, members, offset, lh_offsets, w_cd_size>>
    BY <1>5 DEF EntriesWritten
  <2>2. Len(lh_offsets) = Len(members) /\ 1 \in 1..(Len(members) + 1)
    BY <1>2, <2>1 DEF WriterTyped, More
  <2>3. QED
    BY <1>1, <2>1, <2>2 DEF WriterTyped
<1>6. CASE WriteCentral
  <2>1. Piece \in Seq(Units) /\ next_member \in 1..Len(members)
    BY <1>6, PieceFacts DEF WriteCentral
  <2>2. archive \o Piece \in Seq(Units)
    BY <2>1, ConcatProperties DEF WriterTyped
  <2>3. w_cd_size' \in Nat
    <3> DEFINE sum == w_cd_size + CDR_SIZE + NameBytes[Member.name]
    <3>1. NameBytes[Member.name] \in Nat
      BY <2>1, MemberFacts DEF WriterTyped, Member
    <3>2. sum \in Nat
      <4>1. w_cd_size \in Nat /\ CDR_SIZE \in Nat
        BY SizesAssumption DEF WriterTyped
      <4>2. QED
        BY <3>1, <4>1
    <3>3. w_cd_size' = sum % W32
      BY <1>6 DEF WriteCentral
    <3> HIDE DEF sum
    <3>4. QED
      BY <3>2, <3>3, Remainder
  <2>4. /\ w_pc = "central" /\ w_pc' = w_pc /\ next_member' = next_member + 1
        /\ archive' = archive \o Piece
        /\ UNCHANGED <<members, offset, lh_offsets>>
    BY <1>6 DEF WriteCentral
  <2>5. next_member' \in 1..(Len(members) + 1)
    BY <1>2, <2>1, <2>4
  <2>6. QED
    BY <1>1, <2>2, <2>3, <2>4, <2>5 DEF WriterTyped
<1>7. CASE RecordsWritten
  BY <1>1, <1>7 DEF WriterTyped, RecordsWritten
<1>8. CASE WriteEnd
  <2>1. Piece \in Seq(Units)
    BY <1>8, PieceFacts DEF WriteEnd
  <2>2. archive \o Piece \in Seq(Units)
    BY <2>1, ConcatProperties DEF WriterTyped
  <2>3. QED
    BY <1>1, <1>8, <2>2 DEF WriterTyped, WriteEnd
<1>9. CASE WriteFails
  <2>1. Piece \in Seq(Units)
    BY <1>9, PieceFacts DEF WriteFails, WriterTyped, Written
  <2>2. PICK n \in 0..(Len(Piece) - 1) : archive' = archive \o SubSeq(Piece, 1, n)
    BY <1>9 DEF WriteFails
  <2>3. SubSeq(Piece, 1, n) \in Seq(Units)
    <3>1. Len(Piece) \in Nat /\ \A i \in 1..Len(Piece) : Piece[i] \in Units
      <4> HIDE DEF Units
      <4>1. QED
        BY <2>1, LenProperties, ElementOfSeq
    <3>2. 1 \in Int /\ n \in Int /\ \A i \in 1..n : Piece[i] \in Units
      BY <3>1
    <3>3. QED
      BY <3>2, SubSeqProperties
  <2>4. archive \o SubSeq(Piece, 1, n) \in Seq(Units)
    BY <2>3, ConcatProperties DEF WriterTyped
  <2>5. QED
    BY <1>1, <1>9, <2>2, <2>4 DEF WriterTyped, WriteFails
<1>10. QED
  BY <1>3, <1>4, <1>5, <1>6, <1>7, <1>8, <1>9 DEF WriterNext

-----------------------------------------------------------------------------
(* A step of the reader keeps its types, and goes by the same end record.  *)
LEMMA WriterIdle ==
  ASSUME WriterTyped, Written, archive' = archive, UNCHANGED writerVars
  PROVE  WriterTyped'
BY DEF WriterTyped, Written, writerVars, More

LEMMA SameSearch ==
  ASSUME archive' = archive
  PROVE  /\ Signatures' = Signatures /\ (HasEnd' <=> HasEnd)
         /\ \A p : Unit(p)' = Unit(p)
<1>1. \A p : Unit(p)' = Unit(p)
  BY DEF Unit
<1>2. Window' = Window
  BY DEF Window
<1>3. Signatures' = Signatures
  BY <1>1, <1>2 DEF Signatures
<1>4. HasEnd' <=> HasEnd
  BY <1>3 DEF HasEnd
<1>5. QED
  BY <1>1, <1>3, <1>4

(* Where the search has led, nothing else that it depends on changing.     *)
LEMMA SameGoing ==
  ASSUME GoesByTheLast, archive' = archive, eocd_pos' = eocd_pos,
         pc # "search", result # "Io", result # "NotZip",
         pc' \in {"locate", "wide"} => pc \in {"locate", "wide"},
         \/ result' \in {"none", "Ok", "BadCentralDirectory", "Io"}
         \/ result' = "NotZip" /\ pc \in {"locate", "wide"}
  PROVE  GoesByTheLast'
<1>1. /\ Signatures' = Signatures /\ (HasEnd' <=> HasEnd)
      /\ (IsZip64(Unit(Max(Signatures))))' <=> IsZip64(Unit(Max(Signatures)))
  BY SameSearch DEF IsZip64
<1>2. HasEnd /\ eocd_pos = Max(Signatures)
  BY DEF GoesByTheLast
<1>3. QED
  BY <1>1, <1>2 DEF GoesByTheLast

LEMMA FindEndKeeps ==
  ASSUME WriterTyped, ReaderTyped, FindEnd
  PROVE  ReaderTyped' /\ GoesByTheLast'
<1> DEFINE last == Max(Signatures)
           end == Unit(last)
<1>1. /\ last \in Nat /\ end.kind = "EOCD" /\ end \in Units
  BY SignatureFacts DEF FindEnd, HasEnd, WriterTyped
<1>2. end.cd_offset \in Nat /\ end.cd_size \in Nat
  <2> HIDE DEF end
  <2>1. QED
    BY <1>1, UnitFacts
<1>3. /\ archive' = archive /\ HasEnd /\ pc = "search" /\ eocd_pos' = last
      /\ pc' = (IF IsZip64(end) THEN "locate" ELSE "load")
      /\ cd_offset' \in {cd_offset, end.cd_offset}
      /\ cd_size' \in {cd_size, end.cd_size}
      /\ UNCHANGED <<wide_pos, pos, entries, built, nodes, result>>
  BY DEF FindEnd, treeVars
<1>4. /\ Signatures' = Signatures /\ HasEnd'
      /\ (IsZip64(Unit(Max(Signatures))))' <=> IsZip64(end)
  BY <1>3, SameSearch DEF IsZip64
<1>5. result' = "none"
  BY <1>3 DEF ReaderTyped
<1>6. GoesByTheLast'
  BY <1>3, <1>4, <1>5 DEF GoesByTheLast
<1>7. ReaderTyped'
  <2> HIDE DEF end, last
  <2>1. {eocd_pos, wide_pos, cd_offset, cd_size, pos}' \subseteq Nat
    BY <1>1, <1>2, <1>3 DEF ReaderTyped
  <2>2. QED
    BY <1>3, <1>5, <2>1 DEF ReaderTyped
<1>8. QED
  BY <1>6, <1>7

LEMMA NoEndKeeps ==
  ASSUME WriterTyped, ReaderTyped, NoEnd
  PROVE  ReaderTyped' /\ GoesByTheLast'
<1>1. /\ pc = "search" /\ ~HasEnd /\ pc' = "done" /\ result' = "NotZip"
      /\ UNCHANGED <<archive, eocd_pos, wide_pos, cd_offset, cd_size, pos,
                     entries, built, nodes>>
  BY DEF NoEnd, Fail, Stop, endVars, treeVars
<1>2. ~HasEnd'
  BY <1>1, SameSearch
<1>3. QED
  BY <1>1, <1>2 DEF ReaderTyped, GoesByTheLast

LEMMA FindLocatorKeeps ==
  ASSUME WriterTyped, ReaderTyped, GoesByTheLast, FindLocator
  PROVE  ReaderTyped' /\ GoesByTheLast'
<1> DEFINE at == eocd_pos - EOCD64_LOCATOR_SIZE
<1>1. /\ pc = "locate" /\ pc' = "wide" /\ HasLocator
      /\ wide_pos' = Unit(at).at
      /\ UNCHANGED <<archive, eocd_pos, cd_offset, cd_size, pos, entries, built,
                     nodes, result>>
  BY DEF FindLocator, treeVars
<1>2. result = "none" /\ HasEnd /\ eocd_pos = Max(Signatures)
  BY <1>1 DEF ReaderTyped, GoesByTheLast
<1>3. eocd_pos \in Nat /\ eocd_pos < Len(archive) /\ Len(archive) \in Nat
  BY <1>2, SignatureFacts, ArchiveFacts DEF WriterTyped, HasEnd
<1>4. at \in Nat /\ at < Len(archive) /\ Unit(at).kind = "locator"
  BY <1>1, <1>3, SizesAssumption DEF HasLocator
<1> HIDE DEF at
<1>5. Unit(at) \in Units
  BY <1>4, ArchiveFacts DEF WriterTyped
<1>6. Unit(at).at \in Nat
  <2> DEFINE unit == Unit(at)
  <2> HIDE DEF unit
  <2>1. unit \in Units /\ unit.kind = "locator"
    BY <1>4, <1>5 DEF unit
  <2>2. unit.at \in Nat
    BY <2>1, UnitFacts
  <2>3. QED
    BY <2>2 DEF unit
<1>7. ReaderTyped'
  BY <1>1, <1>6 DEF ReaderTyped
<1>8. GoesByTheLast'
  BY <1>1, <1>2, SameGoing
<1>9. QED
  BY <1>7, <1>8

LEMMA ReadEnd64Keeps ==
  ASSUME WriterTyped, ReaderTyped, GoesByTheLast, ReadEnd64
  PROVE  ReaderTyped' /\ GoesByTheLast'
<1>1. /\ pc = "wide" /\ pc' = "load" /\ HasAt(wide_pos, EOCD64_SIZE, "EOCD64")
      /\ cd_offset' = Unit(wide_pos).cd_offset
      /\ cd_size' = Unit(wide_pos).cd_size
      /\ UNCHANGED <<archive, eocd_pos, wide_pos, pos, entries, built, nodes,
                     result>>
  BY DEF ReadEnd64, treeVars
<1>2. result = "none"
  BY <1>1 DEF ReaderTyped
<1> DEFINE unit == Unit(wide_pos)
<1>3. unit \in Units /\ unit.kind = "EOCD64"
  <2>1. wide_pos \in Nat /\ EOCD64_SIZE \in Nat \ {0}
        /\ wide_pos + EOCD64_SIZE <= Len(archive)
    BY <1>1, SizesAssumption DEF ReaderTyped, HasAt
  <2>2. QED
    BY <1>1, <2>1, ArchiveFacts DEF WriterTyped, HasAt
<1> HIDE DEF unit
<1>4. {unit.cd_size, unit.cd_offset} \subseteq Nat
  BY <1>3, UnitFacts
<1>5. cd_offset' \in Nat /\ cd_size' \in Nat
  BY <1>1, <1>4 DEF unit
<1>6. ReaderTyped'
  BY <1>1, <1>5 DEF ReaderTyped
<1>7. GoesByTheLast'
  BY <1>1, <1>2, SameGoing
<1>8. QED
  BY <1>6, <1>7

(* The record before the reader, and the entry it is listed as.            *)
LEMMA RecordBefore ==
  ASSUME WriterTyped, ReaderTyped, AtRecord
  PROVE  /\ Record \in Units /\ Record.name \in Name
         /\ EntryOf(Record) \in Entry
         /\ NameEnd(pos) \in Nat /\ NextRecord(Record) \in Nat
<1> DEFINE unit == Record
<1>1. unit \in Units /\ unit.kind = "CDR"
  <2>1. /\ cd_offset \in Nat /\ pos \in Nat /\ cd_size \in Nat
        /\ pos + SIG_SIZE <= cd_size /\ SIG_SIZE \in Nat \ {0}
        /\ cd_offset + cd_size <= Len(archive)
    BY SizesAssumption DEF ReaderTyped, AtRecord
  <2>2. Len(archive) \in Nat
    BY ArchiveFacts DEF WriterTyped
  <2>3. cd_offset + pos \in Nat /\ cd_offset + pos < Len(archive)
    BY <2>1, <2>2
  <2>4. Unit(cd_offset + pos) \in Units
    BY <2>3, ArchiveFacts DEF WriterTyped
  <2>5. QED
    BY <2>4 DEF Record, AtRecord
<1> HIDE DEF unit
<1>2. /\ unit.name \in Name /\ unit.stored \in BOOLEAN /\ unit.encrypted \in BOOLEAN
      /\ {unit.comp, unit.uncomp, unit.offset, unit.extra_len,
          unit.comment_len} \subseteq Nat
      /\ unit.wide \in Seq(Nat)
  BY <1>1, UnitFacts
<1>3. NameEnd(pos) \in Nat
  <2>1. NameBytes[unit.name] \in Nat /\ pos \in Nat /\ CDR_SIZE \in Nat
    BY <1>2, NamesAssumption, SizesAssumption DEF ReaderTyped
  <2>2. NameEnd(pos) = pos + CDR_SIZE + NameBytes[unit.name]
    BY DEF NameEnd, Record, unit
  <2>3. QED
    BY <2>1, <2>2
<1>4. NextRecord(unit) \in Nat
  BY <1>2, <1>3 DEF NextRecord
<1> DEFINE wide == Wide(unit)
<1>5. wide \in Seq(Nat)
  BY <1>2, EmptySeq DEF Wide
<1> HIDE DEF wide
<1>6. \A value \in Nat, i \in Nat \ {0} : Widened(value, wide, i) \in Nat
  <2> TAKE value \in Nat, i \in Nat \ {0}
  <2>1. CASE Full(value) = 1 /\ i <= Len(wide)
    <3>1. i \in 1..Len(wide)
      BY <1>5, <2>1, LenProperties
    <3>2. QED
      BY <1>5, <2>1, <3>1, ElementOfSeq DEF Widened
  <2>2. CASE ~(Full(value) = 1 /\ i <= Len(wide))
    BY <2>2 DEF Widened
  <2>3. QED
    BY <2>1, <2>2
<1>7. \A value : Full(value) \in Nat
  BY DEF Full
<1>8. EntryOf(unit) \in Entry
  <2> DEFINE i == 1 + Full(unit.uncomp) + Full(unit.comp)
             u == Widened(unit.uncomp, wide, 1)
             o == Widened(unit.offset, wide, i)
  <2>1. i \in Nat \ {0} /\ 1 \in Nat \ {0}
    BY <1>7
  <2> HIDE DEF i
  <2>2. u \in Nat /\ o \in Nat
    BY <1>2, <1>6, <2>1
  <2>3. EntryOf(unit) =
          [ name |-> unit.name, stored |-> unit.stored,
            is_encrypted |-> unit.encrypted, uncompressed_size |-> u,
            local_header_offset |-> o ]
    BY DEF EntryOf, wide, i
  <2> HIDE DEF u, o
  <2>4. QED
    BY <1>2, <2>2, <2>3 DEF Entry
<1>9. QED
  BY <1>1, <1>2, <1>3, <1>4, <1>8 DEF unit

LEMMA ListRecordKeeps ==
  ASSUME WriterTyped, ReaderTyped, GoesByTheLast, ListRecord
  PROVE  ReaderTyped' /\ GoesByTheLast'
<1>1. /\ pc = "list" /\ AtRecord /\ pos' = NextRecord(Record)
      /\ entries' = Append(entries, EntryOf(Record))
      /\ UNCHANGED <<archive, pc, eocd_pos, wide_pos, cd_offset, cd_size, built,
                     nodes, result>>
  BY DEF ListRecord, AtRecord, endVars, treeVars
<1>2. EntryOf(Record) \in Entry /\ NextRecord(Record) \in Nat
  BY <1>1, RecordBefore
<1>3. entries' \in Seq(Entry) /\ built = 0 /\ result = "none"
  <2>1. entries \in Seq(Entry)
    BY DEF ReaderTyped
  <2> HIDE DEF Entry
  <2>2. Append(entries, EntryOf(Record)) \in Seq(Entry)
    BY <1>2, <2>1, AppendProperties
  <2>3. QED
    BY <1>1, <2>2 DEF ReaderTyped
<1>4. built' \in 0..Len(entries')
  <2>1. Len(entries') \in Nat
    BY <1>3, LenProperties
  <2>2. QED
    BY <1>1, <1>3, <2>1
<1> HIDE DEF Entry
<1>5. ReaderTyped'
  BY <1>1, <1>2, <1>3, <1>4 DEF ReaderTyped
<1>6. GoesByTheLast'
  BY <1>1, <1>3, SameGoing
<1>7. QED
  BY <1>5, <1>6

LEMMA ReaderKeepsTypes ==
  ASSUME WriterTyped, ReaderTyped, GoesByTheLast, Next
  PROVE  ReaderTyped' /\ GoesByTheLast'
<1>1. CASE NoLocator \/ NoEnd64 \/ DirectoryOutside \/ RecordCutOff
  <2>1. /\ pc \in {"locate", "wide", "load", "list"} /\ pc' = "done"
        /\ result' \in {"NotZip", "BadCentralDirectory", "Io"}
        /\ result' = "NotZip" => pc \in {"locate", "wide"}
        /\ UNCHANGED <<archive, eocd_pos, wide_pos, cd_offset, cd_size, pos,
                       entries, built, nodes>>
    BY <1>1 DEF NoLocator, NoEnd64, DirectoryOutside, RecordCutOff, AtRecord,
       Fail, Stop, endVars, treeVars
  <2>2. result = "none"
    BY <2>1 DEF ReaderTyped
  <2>3. GoesByTheLast'
    BY <2>1, <2>2, SameGoing
  <2>4. QED
    BY <2>1, <2>3 DEF ReaderTyped
<1>2. CASE ReadFails
  <2>1. /\ pc' = "done" /\ result' = "Io"
        /\ UNCHANGED <<archive, eocd_pos, wide_pos, cd_offset, cd_size, pos,
                       entries, built, nodes>>
    BY <1>2 DEF ReadFails, Fail, Stop, endVars, treeVars
  <2>2. QED
    BY <2>1 DEF ReaderTyped, GoesByTheLast
<1>3. CASE LoadDirectory \/ DirectoryEnds
  <2>1. /\ pc \in {"load", "list"} /\ pc' \in {"list", "build"}
        /\ pc' = "list" => cd_offset + cd_size <= Len(archive)
        /\ UNCHANGED <<archive, eocd_pos, wide_pos, cd_offset, cd_size, pos,
                       entries, built, nodes, result>>
    BY <1>3 DEF LoadDirectory, DirectoryEnds, endVars, treeVars
  <2>2. result = "none"
    BY <2>1 DEF ReaderTyped
  <2>3. GoesByTheLast'
    BY <2>1, <2>2, SameGoing
  <2>4. QED
    BY <2>1, <2>3 DEF ReaderTyped
<1>4. CASE BuildNode
  <2>1. /\ pc = "build" /\ built < Len(entries) /\ built' = built + 1
        /\ UNCHANGED <<archive, pc, eocd_pos, wide_pos, cd_offset, cd_size, pos,
                       entries, result>>
    BY <1>4 DEF BuildNode, endVars
  <2>2. result = "none" /\ Len(entries) \in Nat /\ built \in 0..Len(entries)
    BY <2>1, LenProperties DEF ReaderTyped
  <2>3. built' \in 0..Len(entries)
    BY <2>1, <2>2
  <2>4. GoesByTheLast'
    BY <2>1, <2>2, SameGoing
  <2>5. QED
    BY <2>1, <2>3, <2>4 DEF ReaderTyped
<1>5. CASE Attach
  <2>1. /\ pc = "build" /\ pc' = "done" /\ result' = "Ok"
        /\ UNCHANGED <<archive, eocd_pos, wide_pos, cd_offset, cd_size, pos,
                       entries, built>>
    BY <1>5 DEF Attach, Stop, endVars
  <2>2. result = "none"
    BY <2>1 DEF ReaderTyped
  <2>3. GoesByTheLast'
    BY <2>1, <2>2, SameGoing
  <2>4. QED
    BY <2>1, <2>3 DEF ReaderTyped
<1>6. QED
  BY <1>1, <1>2, <1>3, <1>4, <1>5, FindEndKeeps, NoEndKeeps, FindLocatorKeeps,
     ReadEnd64Keeps, ListRecordKeeps DEF Next

-----------------------------------------------------------------------------
(* The tree.                                                               *)
LEMMA NothingGrown == ASSUME built = 0, nodes = <<>> PROVE Growing
<1>1. DOMAIN nodes = {}
  OBVIOUS
<1>2. QED
  BY <1>1 DEF Growing

LEMMA SameData ==
  ASSUME UNCHANGED <<archive, entries>>
  PROVE  \A i : (IsReadable(i)' <=> IsReadable(i)) /\ DataAt(i)' = DataAt(i)
<1>1. \A i : IsReadable(i)' <=> IsReadable(i)
  BY DEF IsReadable
<1>2. \A i : DataAt(i)' = DataAt(i)
  BY DEF DataAt, local_data_offset, HasAt, Unit
<1>3. QED
  BY <1>1, <1>2

(* Nothing changes about the nodes but, in the end, the map that has them. *)
LEMMA SameGrowing ==
  ASSUME Growing, UNCHANGED <<archive, faulty, entries, built>>,
         DOMAIN nodes' = DOMAIN nodes, \A k \in DOMAIN nodes : nodes'[k] = nodes[k]
  PROVE  Growing'
<1>1. \A k : Files(k)' = Files(k) /\ Above(k)' = Above(k) /\ (Clean(k)' <=> Clean(k))
  BY DEF Files, Above, Clean
<1>2. \A k \in DOMAIN nodes : (Located(k) => Located(k)') /\ (Lasts(k) => Lasts(k)')
  BY <1>1, SameData DEF Located, IsLast, Lasts
<1>3. \A k \in DOMAIN nodes' :
        /\ nodes'[k] \in Node /\ Clean(k) /\ Above(k) \subseteq DOMAIN nodes'
        /\ Located(k)' /\ Lasts(k)'
  BY <1>2 DEF Growing
<1>4. ASSUME NEW i \in 1..built', ~IsDir(entries'[i].name),
             Clean(TrimSlashes(entries'[i].name))
      PROVE  TrimSlashes(entries'[i].name) \in DOMAIN nodes'
  BY <1>4 DEF Growing
<1>5. QED
  BY <1>1, <1>3, <1>4 DEF Growing, Node

(* An entry of the list.                                                   *)
LEMMA EntryFacts ==
  ASSUME ReaderTyped, NEW i \in 1..Len(entries)
  PROVE  entries[i].name \in Name /\ entries[i].uncompressed_size \in Nat
<1>1. entries[i] \in Entry
  <2> HIDE DEF Entry
  <2>1. QED
    BY ElementOfSeq DEF ReaderTyped
<1>2. QED
  BY <1>1 DEF Entry

LEMMA DataAtType ==
  ASSUME WriterTyped, ReaderTyped, NEW i \in 1..Len(entries)
  PROVE  /\ DataAt(i) \in Nat \cup {NoValue}
         /\ DataAt(i) = NoValue <=> ~IsPlainAt(entries[i].local_header_offset)
<1> DEFINE at == entries[i].local_header_offset
           unit == Unit(at)
<1>1. at \in Nat
  <2>1. entries[i] \in Entry
    <3> HIDE DEF Entry
    <3>1. QED
      BY ElementOfSeq DEF ReaderTyped
  <2>2. QED
    BY <2>1 DEF Entry
<1> HIDE DEF at
<1>2. CASE HasAt(at, LFH_SIZE, "LFH") /\ ~unit.encrypted
  <2>1. unit \in Units /\ unit.kind = "LFH"
    BY <1>1, <1>2, ArchiveFacts, SizesAssumption DEF HasAt, WriterTyped
  <2>2. DataAt(i) = at + LFH_SIZE + unit.name_len + unit.extra_len
    BY <1>2 DEF DataAt, local_data_offset, at
  <2> HIDE DEF unit
  <2>3. unit.name_len \in Nat /\ unit.extra_len \in Nat
    BY <2>1, UnitFacts
  <2>4. DataAt(i) \in Nat
    BY <1>1, <2>2, <2>3, SizesAssumption
  <2>5. QED
    BY <1>2, <2>4, NoValueAssumption DEF IsPlainAt, at, unit
<1>3. CASE ~(HasAt(at, LFH_SIZE, "LFH") /\ ~unit.encrypted)
  BY <1>3 DEF DataAt, local_data_offset, IsPlainAt, at
<1>4. QED
  BY <1>2, <1>3

LEMMA BuildNodeGrows ==
  ASSUME WriterTyped, ReaderTyped, Growing, BuildNode
  PROVE  Growing'
<1> DEFINE b == built + 1
           entry == entries[b]
           name == entry.name
           raw == TrimSlashes(name)
           grown == Grown(nodes, raw)
           isFile == ~IsDir(name) /\ raw \in DOMAIN grown
<1>1. /\ built \in Nat /\ built < Len(entries) /\ b \in 1..Len(entries)
      /\ built' = b /\ UNCHANGED <<archive, faulty, entries>>
  <2>1. built < Len(entries) /\ built' = b /\ UNCHANGED <<archive, faulty, entries>>
    BY DEF BuildNode
  <2>2. Len(entries) \in Nat /\ built \in Nat
    BY LenProperties DEF ReaderTyped
  <2>3. QED
    BY <2>1, <2>2
<1>2. PICK location :
        /\ location = DataAt(b) \/ (faulty /\ location = NoValue)
        /\ nodes' = IF ~isFile THEN grown
                    ELSE [grown EXCEPT ![raw] = WithFile(grown[raw], entry, location)]
  BY DEF BuildNode, DataAt
<1>3. name \in Name /\ entry.uncompressed_size \in Nat
  BY <1>1, EntryFacts
<1>4. /\ \A k \in Created(raw) : Clean(k) /\ Above(k) \subseteq Created(raw)
      /\ Clean(raw) => raw \in Created(raw)
  BY <1>3, CreatedFacts
<1>5. /\ DOMAIN grown = DOMAIN nodes \cup Created(raw)
      /\ \A k \in DOMAIN nodes : grown[k] = nodes[k]
      /\ \A k \in Created(raw) : k \notin DOMAIN nodes => grown[k] = NewDirectory
  BY DEF Grown
<1>6. \A k \in DOMAIN nodes :
        /\ nodes[k] \in Node /\ Clean(k) /\ Above(k) \subseteq DOMAIN nodes
        /\ Located(k) /\ Lasts(k)
  BY DEF Growing
<1> DEFINE new == WithFile(grown[raw], entry, location)
<1> HIDE DEF entry, name, raw, grown
<1>7. /\ DOMAIN nodes' = DOMAIN grown
      /\ \A k \in DOMAIN grown : ~(isFile /\ k = raw) => nodes'[k] = grown[k]
      /\ isFile => nodes'[raw] = new
  <2> HIDE DEF new
  <2>1. nodes' = IF ~isFile THEN grown ELSE [grown EXCEPT ![raw] = new]
    BY <1>2 DEF new
  <2>2. \E D : grown = [k \in D |-> grown[k]]
    BY DEF grown, Grown
  <2>3. QED
    BY <2>1, <2>2
<1>8. \A k : Files(k)' = Files(k) \cup (IF ~IsDir(name) /\ raw = k THEN {b} ELSE {})
  <2>1. \A i : i \in 1..b <=> i \in 1..built \/ i = b
    BY <1>1
  <2>2. QED
    BY <1>1, <2>1 DEF Files, entry, name, raw
<1>9. \A k : \A i \in Files(k) : i \in Nat /\ i < b /\ i # b
  BY <1>1 DEF Files
<1>10. \A i : (IsReadable(i)' <=> IsReadable(i)) /\ DataAt(i)' = DataAt(i)
  BY <1>1, SameData
<1>11. DataAt(b) \in Nat \cup {NoValue}
  BY <1>1, DataAtType
<1>12. ASSUME NEW k \in Created(raw), k \notin DOMAIN nodes PROVE Files(k) = {}
  <2>1. Clean(k)
    BY <1>4
  <2>2. \A i \in Files(k) :
          i \in 1..built /\ ~IsDir(entries[i].name) /\ TrimSlashes(entries[i].name) = k
    BY DEF Files
  <2>3. QED
    BY <1>12, <2>1, <2>2 DEF Growing
<1>13. \A k \in DOMAIN grown : /\ grown[k] \in Node /\ Clean(k)
                               /\ Above(k) \subseteq DOMAIN grown
  <2>1. NewDirectory \in Node
    BY DEF NewDirectory, Node
  <2> HIDE DEF Node
  <2>2. QED
    BY <1>4, <1>5, <1>6, <2>1
<1>14. ASSUME NEW k \in DOMAIN grown, ~(isFile /\ k = raw)
       PROVE  nodes'[k] \in Node /\ Located(k)' /\ Lasts(k)'
  <2>1. Files(k)' = Files(k) /\ nodes'[k] = grown[k]
    BY <1>7, <1>8, <1>14
  <2>2. CASE k \in DOMAIN nodes
    <3>1. nodes'[k] = nodes[k]
      BY <1>5, <2>1, <2>2
    <3>2. nodes[k] \in Node /\ Located(k) /\ Lasts(k)
      BY <1>6, <2>2
    <3>3. Located(k)'
      BY <1>1, <1>10, <2>1, <3>1, <3>2 DEF Located, IsLast
    <3>4. Lasts(k)'
      BY <1>1, <2>1, <3>1, <3>2 DEF Lasts
    <3>5. QED
      BY <3>1, <3>2, <3>3, <3>4
  <2>3. CASE k \notin DOMAIN nodes
    <3>1. k \in Created(raw)
      BY <1>5, <2>3
    <3>2. nodes'[k] = NewDirectory /\ Files(k)' = {}
      BY <1>5, <1>12, <2>1, <2>3, <3>1
    <3>3. Located(k)'
      BY <3>2 DEF Located, NewDirectory
    <3>4. nodes'[k].is_directory = TRUE
      BY <3>2 DEF NewDirectory
    <3>5. Lasts(k)'
      BY <3>2, <3>4 DEF Lasts
    <3>6. QED
      BY <1>13, <2>1, <3>3, <3>5
  <2>4. QED
    BY <2>2, <2>3
<1>15. ASSUME NEW k, k = raw, isFile
       PROVE  nodes'[k] \in Node /\ Located(k)' /\ Lasts(k)'
  <2>1. nodes'[k] = new /\ Files(k)' = Files(k) \cup {b}
    BY <1>7, <1>8, <1>15
  <2>2. /\ new.is_directory = FALSE /\ new.file_length = entry.uncompressed_size
        /\ new.file_location = IF IsReadable(b) THEN location
                                                ELSE grown[k].file_location
        /\ grown[k] \in Node
    BY <1>13, <1>15 DEF WithFile, IsReadable, entry
  <2>3. new \in Node
    <3>1. grown[k].file_location \in Nat \cup {NoValue}
      BY <2>2 DEF Node
    <3>2. location \in Nat \cup {NoValue}
      BY <1>2, <1>11
    <3>3. QED
      BY <1>3, <2>2, <3>1, <3>2 DEF WithFile, Node, entry, IsReadable
  <2> HIDE DEF new
  <2>4. Lasts(k)'
    <3>1. Files(k)' # {} /\ b \in Files(k)'
      BY <2>1
    <3>2. \A i \in Files(k)' : (\A j \in Files(k)' : j <= i) => i = b
      BY <1>1, <1>9, <2>1
    <3>3. entries'[b].uncompressed_size = entry.uncompressed_size
      BY <1>1 DEF entry
    <3>4. QED
      BY <2>1, <2>2, <3>1, <3>2, <3>3 DEF Lasts
  <2>5. Located(k)'
    <3> HIDE DEF isFile
    <3>4. PICK c : c = b
      OBVIOUS
    <3>5. /\ Files(k)' = Files(k) \cup {c} /\ c \in Nat
          /\ \A i \in Files(k) : i \in Nat /\ i < c /\ i # c
          /\ (IsReadable(c)' <=> IsReadable(c)) /\ DataAt(c)' = DataAt(c)
          /\ faulty' = faulty
      BY <1>1, <1>9, <1>10, <2>1, <3>4
    <3>6. \A i : (IsReadable(i)' <=> IsReadable(i)) /\ DataAt(i)' = DataAt(i)
      BY <1>10
    <3> HIDE DEF b
    <3>1. CASE IsReadable(c)
      <4>1. nodes'[k].file_location = location /\ c \in Files(k)'
        BY <2>1, <2>2, <3>1, <3>4, <3>5
      <4>2. \A j \in Files(k)' : j <= c /\ j \in Nat
        BY <3>5
      <4>4. IsLast(k, c)'
        BY <3>1, <3>5, <4>2 DEF IsLast
      <4>5. CASE location = DataAt(c) /\ DataAt(c) # NoValue
        BY <3>5, <4>1, <4>4, <4>5 DEF Located
      <4>6. CASE ~(location = DataAt(c) /\ DataAt(c) # NoValue)
        <5>1. location = NoValue /\ (faulty \/ DataAt(c) = NoValue)
          BY <1>2, <3>4, <4>6
        <5>2. ASSUME NEW i \in Files(k)', IsLast(k, i)' PROVE i = c
          BY <3>1, <3>5, <4>1, <4>2, <5>2 DEF IsLast
        <5>3. QED
          BY <3>5, <4>1, <5>1, <5>2 DEF Located
      <4>7. QED
        BY <4>5, <4>6
    <3>2. CASE ~IsReadable(c) /\ k \in DOMAIN nodes
      <4>1. nodes'[k].file_location = nodes[k].file_location /\ Located(k)
        BY <1>5, <1>6, <1>15, <2>1, <2>2, <3>2, <3>4
      <4>3. \A i : IsLast(k, i)' <=> IsLast(k, i)
        BY <3>2, <3>5, <3>6 DEF IsLast
      <4>4. \A i \in Files(k)' : IsLast(k, i)' => i \in Files(k)
        BY <3>2, <3>5 DEF IsLast
      <4>5. QED
        BY <3>5, <3>6, <4>1, <4>3, <4>4 DEF Located
    <3>3. CASE ~IsReadable(c) /\ k \notin DOMAIN nodes
      <4>1. k \in Created(raw)
        BY <1>5, <1>15, <3>3 DEF isFile
      <4>2. nodes'[k].file_location = NoValue
        BY <1>5, <2>1, <2>2, <3>3, <3>4, <4>1, <1>15 DEF NewDirectory
      <4>3. Files(k)' = {c} /\ ~IsReadable(c)'
        BY <1>12, <3>3, <3>5, <4>1
      <4>4. QED
        BY <4>2, <4>3 DEF Located, IsLast
    <3>7. QED
      BY <3>1, <3>2, <3>3
  <2>6. QED
    BY <2>1, <2>3, <2>4, <2>5
<1>16. \A k : (Clean(k)' <=> Clean(k)) /\ Above(k)' = Above(k)
  BY DEF Clean, Above
<1>17. \A k \in DOMAIN nodes' :
         /\ nodes'[k] \in Node /\ Clean(k) /\ Above(k) \subseteq DOMAIN nodes'
         /\ Located(k)' /\ Lasts(k)'
  BY <1>7, <1>13, <1>14, <1>15
<1>18. ASSUME NEW i \in 1..built', ~IsDir(entries'[i].name),
              Clean(TrimSlashes(entries'[i].name))
       PROVE  TrimSlashes(entries'[i].name) \in DOMAIN nodes'
  <2>1. CASE i = b
    <3>1. TrimSlashes(entries'[i].name) = raw
      BY <1>1, <2>1 DEF entry, name, raw
    <3>2. QED
      BY <1>4, <1>5, <1>7, <1>18, <3>1
  <2>2. CASE i # b
    <3>1. i \in 1..built
      BY <1>1, <2>2
    <3>2. TrimSlashes(entries[i].name) \in DOMAIN nodes
      BY <1>1, <1>18, <3>1 DEF Growing
    <3>3. QED
      BY <1>1, <1>5, <1>7, <3>2
  <2>3. QED
    BY <2>1, <2>2
<1>19. QED
  BY <1>16, <1>17, <1>18 DEF Growing, Node

(* Every node is attached: those above it are nodes.                       *)
LEMMA AttachKeeps == ASSUME Growing, Attach PROVE Growing'
<1>1. Attached(nodes) = DOMAIN nodes
  BY DEF Attached, Growing
<1>2. /\ UNCHANGED <<archive, faulty, entries, built>> /\ DOMAIN nodes' = DOMAIN nodes
      /\ \A k \in DOMAIN nodes : nodes'[k] = nodes[k]
  BY <1>1 DEF Attach
<1>3. QED
  BY <1>2, SameGrowing

LEMMA ReaderGrows ==
  ASSUME WriterTyped, ReaderTyped, Growing, Next
  PROVE  Growing'
<1>1. CASE FindEnd \/ NoEnd \/ FindLocator \/ NoLocator \/ ReadEnd64 \/ NoEnd64
           \/ LoadDirectory \/ DirectoryOutside \/ ReadFails
           \/ ListRecord \/ RecordCutOff \/ DirectoryEnds
  <2>1. pc \notin {"build", "done"} /\ UNCHANGED <<built, nodes>>
    BY <1>1 DEF FindEnd, NoEnd, FindLocator, NoLocator, ReadEnd64, NoEnd64,
       LoadDirectory, DirectoryOutside, ReadFails, ListRecord, RecordCutOff,
       DirectoryEnds, AtRecord, Fail, treeVars
  <2>2. built' = 0 /\ nodes' = <<>>
    BY <2>1 DEF ReaderTyped
  <2>3. (built = 0 /\ nodes = <<>> => Growing)'
    BY NothingGrown, PTL
  <2>4. QED
    BY <2>2, <2>3
<1>2. QED
  BY <1>1, BuildNodeGrows, AttachKeeps DEF Next

-----------------------------------------------------------------------------
(* The invariant, and what follows from it.                                *)
LEMMA InitInv == RoundTripInit => Inv
<1> SUFFICES ASSUME RoundTripInit PROVE Inv
  OBVIOUS
<1>1. /\ pc = "search" /\ result = "none" /\ entries = <<>>
      /\ built = 0 /\ nodes = <<>> /\ InitReader
      /\ {eocd_pos, wide_pos, cd_offset, cd_size, pos} = {0}
  BY DEF RoundTripInit, InitReader
<1>2. /\ members = <<>> \/ members \in Writes
      /\ offset = 0 /\ w_cd_size = 0 /\ lh_offsets = <<>> /\ next_member = 1
      /\ w_pc \in {"entry", "done"}
      /\ archive = <<>> \/ archive \in Archives
  BY DEF RoundTripInit, InitWriter, Foreign
<1>3. archive \in Seq(Units) /\ lh_offsets \in Seq(Nat) /\ Len(lh_offsets) = 0
  <2> HIDE DEF Units
  <2>1. QED
    BY <1>2, ArchivesAssumption, EmptySeq
<1>4. next_member \in 1..(Len(members) + 1)
  <2>1. Len(members) \in Nat
    BY <1>2, MemberFacts
  <2>2. QED
    BY <1>2, <2>1
<1>5. WriterTyped
  <2> HIDE DEF InitReader
  <2>1. QED
    BY <1>1, <1>2, <1>3, <1>4 DEF WriterTyped
<1>6. ReaderTyped
  <2>1. entries \in Seq(Entry) /\ Len(entries) = 0
    BY <1>1, EmptySeq
  <2>2. QED
    BY <1>1, <2>1 DEF ReaderTyped
<1>7. GoesByTheLast
  BY <1>1 DEF GoesByTheLast
<1>8. Growing
  BY <1>1, NothingGrown
<1>9. QED
  BY <1>5, <1>6, <1>7, <1>8 DEF Inv

LEMMA NextInv == Inv /\ [RoundTripNext]_allVars => Inv'
<1> SUFFICES ASSUME Inv, [RoundTripNext]_allVars PROVE Inv'
  OBVIOUS
<1> USE DEF Inv
<1>1. CASE ~Written /\ WriterNext /\ UNCHANGED readerVars
  <2>1. WriterTyped'
    BY <1>1, WriterKeepsTypes
  <2>2. InitReader /\ InitReader'
    BY <1>1 DEF WriterTyped, InitReader, readerVars, endVars, treeVars
  <2>3. /\ pc = "search" /\ UNCHANGED <<pc, eocd_pos, wide_pos, cd_offset, cd_size,
                                         pos, entries, built, nodes, result>>
    BY <1>1, <2>2 DEF InitReader, readerVars, endVars, treeVars
  <2>4. ReaderTyped'
    BY <2>3 DEF ReaderTyped
  <2>5. GoesByTheLast'
    BY <2>2 DEF GoesByTheLast, InitReader
  <2>6. Growing'
    <3>1. (built = 0 /\ nodes = <<>> => Growing)'
      BY NothingGrown, PTL
    <3>2. QED
      BY <2>2, <3>1 DEF InitReader
  <2>7. QED
    BY <2>1, <2>4, <2>5, <2>6
<1>2. CASE Written /\ Next /\ UNCHANGED writerVars
  <2>1. archive' = archive
    BY <1>2 DEF Next, FindEnd, NoEnd, FindLocator, NoLocator, ReadEnd64, NoEnd64,
       LoadDirectory, DirectoryOutside, ReadFails, ListRecord, RecordCutOff,
       DirectoryEnds, BuildNode, Attach, Fail
  <2>2. QED
    BY <1>2, <2>1, WriterIdle, ReaderKeepsTypes, ReaderGrows
<1>3. CASE UNCHANGED allVars
  <2>1. /\ UNCHANGED <<archive, faulty, pc, eocd_pos, wide_pos, cd_offset, cd_size,
                       pos, entries, built, nodes, result>>
        /\ UNCHANGED writerVars /\ UNCHANGED readerVars
    BY <1>3 DEF allVars, vars, readerVars, endVars, treeVars
  <2>2. WriterTyped'
    <3>1. InitReader => InitReader'
      BY <2>1 DEF InitReader, readerVars, endVars, treeVars
    <3> HIDE DEF InitReader
    <3>2. QED
      BY <2>1, <3>1 DEF WriterTyped, writerVars, Written, More
  <2>3. ReaderTyped'
    BY <2>1 DEF ReaderTyped
  <2>4. GoesByTheLast'
    <3>1. /\ Signatures' = Signatures /\ (HasEnd' <=> HasEnd)
          /\ (IsZip64(Unit(Max(Signatures))))' <=> IsZip64(Unit(Max(Signatures)))
      BY <2>1, SameSearch DEF IsZip64
    <3>2. QED
      BY <2>1, <3>1 DEF GoesByTheLast
  <2>5. Growing'
    BY <2>1, SameGrowing
  <2>6. QED
    BY <2>2, <2>3, <2>4, <2>5
<1>4. QED
  BY <1>1, <1>2, <1>3 DEF RoundTripNext

(* A true end is the last signature: its comment holds no other.           *)
LEMMA TrueEndIsLast ==
  ASSUME WriterTyped, NEW p \in TrueEnds
  PROVE  HasEnd /\ Max(Signatures) = p
<1>1. /\ Len(archive) \in Nat /\ EOCD_MIN_SIZE \in Nat \ {0} /\ W16 \in Nat \ {0}
      /\ SIG_SIZE \in Nat /\ SIG_SIZE <= EOCD_MIN_SIZE
  BY ArchiveFacts, SizesAssumption, WidthAssumption DEF WriterTyped
<1>2. /\ p \in Nat /\ p + EOCD_MIN_SIZE <= Len(archive)
      /\ Unit(p).kind = "EOCD" /\ Unit(p).comment_len < W16
      /\ p + EOCD_MIN_SIZE + Unit(p).comment_len = Len(archive)
      /\ \A q \in (p + 1)..(Len(archive) - 1) : Unit(q).kind # "EOCD"
  BY <1>1 DEF TrueEnds
<1>3. Unit(p).comment_len \in Nat
  <2> DEFINE unit == Unit(p)
  <2>1. unit \in Units /\ unit.kind = "EOCD"
    BY <1>1, <1>2, ArchiveFacts DEF WriterTyped
  <2> HIDE DEF unit
  <2>2. unit.comment_len \in Nat
    BY <2>1, UnitFacts
  <2>3. QED
    BY <2>2 DEF unit
<1>4. p \in Signatures
  <2> DEFINE rest == Unit(p).comment_len
             n == Len(archive)
  <2>1. p >= n - MAX_EOCD_SEARCH /\ p \in 0..(n - 1)
    <3> HIDE DEF rest, n
    <3>1. rest \in Nat /\ rest < W16 /\ p + EOCD_MIN_SIZE + rest = n /\ n \in Nat
      BY <1>1, <1>2, <1>3 DEF rest, n
    <3>2. QED
      BY <1>1, <1>2, <3>1 DEF MAX_EOCD_SEARCH
  <2>2. p + SIG_SIZE <= n
    BY <1>1, <1>2
  <2>3. QED
    BY <1>2, <2>1, <2>2 DEF Signatures, Window
<1>5. /\ Max(Signatures) \in Nat /\ Max(Signatures) < Len(archive)
      /\ Unit(Max(Signatures)).kind = "EOCD" /\ p <= Max(Signatures)
  BY <1>4, SignatureFacts DEF WriterTyped
<1>6. Max(Signatures) = p
  <2> SUFFICES ASSUME Max(Signatures) # p PROVE FALSE
    OBVIOUS
  <2>1. Max(Signatures) \in (p + 1)..(Len(archive) - 1)
    BY <1>1, <1>2, <1>5
  <2>2. QED
    BY <1>2, <1>5, <2>1
<1>7. QED
  BY <1>1, <1>2, <1>4, <1>6 DEF HasEnd

LEMMA InvImplies ==
  Inv => TypeOK /\ CommentsAreSkipped /\ LocatedIsPlain /\ LastFileWins
<1> SUFFICES ASSUME Inv
             PROVE  TypeOK /\ CommentsAreSkipped /\ LocatedIsPlain /\ LastFileWins
  OBVIOUS
<1> USE DEF Inv
<1>1. \A k \in DOMAIN nodes :
        /\ nodes[k] \in Node /\ Clean(k) /\ Above(k) \subseteq DOMAIN nodes
        /\ Located(k) /\ Lasts(k)
  BY DEF Growing
<1>2. TypeOK
  <2>1. ASSUME NEW k \in DOMAIN nodes
        PROVE  k # NoName /\ \A i \in DOMAIN k : k[i] # Empty \/ i = 1
    <3>1. /\ k \in Seq(Part) /\ k # <<>> /\ k[Len(k)] # Empty
          /\ \A i \in 2..Len(k) : k[i] # Empty
      BY <1>1 DEF Clean
    <3>2. Len(k) \in Nat /\ DOMAIN k = 1..Len(k)
      BY <3>1, LenProperties
    <3>3. k # NoName
      BY <3>1 DEF NoName
    <3>4. \A i \in 1..Len(k) : i = 1 \/ i \in 2..Len(k)
      BY <3>2
    <3>5. QED
      BY <3>1, <3>2, <3>3, <3>4
  <2> HIDE DEF Node, Entry
  <2>2. QED
    BY <1>1, <2>1 DEF TypeOK, ReaderTyped
<1>3. CommentsAreSkipped
  <2>1. ASSUME NEW p \in TrueEnds
        PROVE  /\ pc # "search" /\ result # "Io" => eocd_pos = p
               /\ result = "NotZip" => IsZip64(Unit(p))
    <3>1. HasEnd /\ Max(Signatures) = p
      BY TrueEndIsLast
    <3>2. QED
      BY <3>1 DEF GoesByTheLast
  <2>2. QED
    BY <2>1 DEF CommentsAreSkipped
<1>4. LocatedIsPlain
  <2>1. ASSUME NEW i, DataAt(i) # NoValue
        PROVE  LET at == entries[i].local_header_offset
               IN  /\ IsPlainAt(at)
                   /\ DataAt(i)
                        = at + LFH_SIZE + Unit(at).name_len + Unit(at).extra_len
    BY <2>1 DEF DataAt, local_data_offset, IsPlainAt
  <2>2. ASSUME NEW k, NEW i \in Files(k), DataAt(i) = NoValue
        PROVE  ~IsPlainAt(entries[i].local_header_offset)
    <3>1. built \in Nat /\ built <= Len(entries) /\ Len(entries) \in Nat
      BY LenProperties DEF ReaderTyped
    <3>2. i \in 1..Len(entries)
      BY <3>1 DEF Files
    <3>3. QED
      BY <2>2, <3>2, DataAtType
  <2>3. QED
    BY <1>1, <2>1, <2>2 DEF LocatedIsPlain, Located, IsLast
<1>5. LastFileWins
  BY <1>1 DEF LastFileWins, Lasts
<1>6. QED
  BY <1>2, <1>3, <1>4, <1>5

(* The inductive invariant holds of every archive, written or foreign, and *)
(* at every step of the writer and the reader.                             *)
THEOREM Invariance == RoundTripSpec => []Inv
<1>1. QED
  BY InitInv, NextInv, PTL DEF RoundTripSpec

(* The search settles on the end record whose comment ends the file,       *)
(* however long the comment is (find_eocd).                                *)
THEOREM CommentsSkipped == RoundTripSpec => []CommentsAreSkipped
<1>1. Inv => CommentsAreSkipped
  BY InvImplies
<1>2. QED
  BY Invariance, <1>1, PTL

(* Whatever clashing entries the directory lists, in any order, a path is  *)
(* a file if one of them is one, of the last one's size, and keeps every   *)
(* directory above it (build_tree).                                        *)
THEOREM LastWins == RoundTripSpec => []LastFileWins
<1>1. Inv => LastFileWins
  BY InvImplies
<1>2. QED
  BY Invariance, <1>1, PTL

(* A node is located where the plain data of the last entry of its name    *)
(* that is stored and not encrypted begin, and left without a location     *)
(* only if there are none (build_tree, local_data_offset).                 *)
THEOREM OnlyPlainIsLocated == RoundTripSpec => []LocatedIsPlain
<1>1. Inv => LocatedIsPlain
  BY InvImplies
<1>2. QED
  BY Invariance, <1>1, PTL

(* The types of the reader's state, the paths of the tree included.        *)
THEOREM Types == RoundTripSpec => []TypeOK
<1>1. Inv => TypeOK
  BY InvImplies
<1>2. QED
  BY Invariance, <1>1, PTL

-----------------------------------------------------------------------------
(* Where nothing that is written of a member holds an end record, there is *)
(* none before the archive's own, and an archive that was cut off has at   *)
(* most the beginning of it.                                               *)
Quiet == \A i \in DOMAIN members : ~HoldsAnEnd(i)
EndIsCut ==
  /\ ~Written => w_result = "none"
  /\ ~Written /\ Quiet => \A i \in 1..Len(archive) : archive[i].kind # "EOCD"
  /\ w_result = "Err" /\ Quiet =>
       \A i \in 1..Len(archive) :
         archive[i].kind = "EOCD" => (i - 1) + EOCD_MIN_SIZE > Len(archive)

LEMMA PieceIsQuiet ==
  ASSUME WriterTyped, ~Written, Quiet, w_pc # "end",
         w_pc \in {"entry", "central"} => More
  PROVE  \A i \in 1..Len(Piece) : Piece[i].kind # "EOCD"
<1>1. next_member \in 1..Len(members) /\ Piece \in Seq(Units)
  BY PieceFacts
<1>2. next_member \in DOMAIN members /\ DOMAIN Piece = 1..Len(Piece)
  <2> HIDE DEF Units
  <2>1. QED
    BY <1>1, MemberFacts, LenProperties DEF WriterTyped
<1>3. ~HoldsAnEnd(next_member)
  BY <1>2 DEF Quiet
<1>4. SUFFICES ~HasAnEnd(Piece)
  BY <1>2 DEF HasAnEnd
<1>5. CASE w_pc = "entry"
  BY <1>3, <1>5 DEF Piece, LocalPiece, Member, HoldsAnEnd
<1>6. CASE w_pc = "data"
  BY <1>3, <1>6 DEF Piece, Member, HoldsAnEnd
<1>7. CASE w_pc = "central"
  <2>1. next_member \in DOMAIN lh_offsets
    BY <1>1, <1>7, LenProperties DEF WriterTyped
  <2>2. QED
    BY <1>3, <1>7, <2>1 DEF Piece, CentralPiece, Member, HoldsAnEnd
<1>8. QED
  BY <1>5, <1>6, <1>7 DEF WriterTyped, Written

LEMMA WriterCuts ==
  ASSUME WriterTyped, EndIsCut, ~Written, WriterNext
  PROVE  EndIsCut'
<1>1. members' = members /\ (Quiet' => Quiet) /\ w_result = "none"
  <2>1. members' = members
    BY DEF WriterNext, WriteLocal, WriteData, EntriesWritten, WriteCentral,
       RecordsWritten, WriteEnd, WriteFails
  <2>2. \A i \in DOMAIN lh_offsets :
          i \in DOMAIN lh_offsets' /\ lh_offsets'[i] = lh_offsets[i]
    <3>1. CASE lh_offsets' = lh_offsets
      BY <3>1
    <3>2. CASE lh_offsets' = Append(lh_offsets, offset)
      <4>1. lh_offsets \in Seq(Nat) /\ offset \in Nat
        BY DEF WriterTyped
      <4>2. /\ lh_offsets' \in Seq(Nat) /\ Len(lh_offsets') = Len(lh_offsets) + 1
            /\ \A i \in 1..Len(lh_offsets) : lh_offsets'[i] = lh_offsets[i]
        BY <3>2, <4>1, AppendProperties
      <4>3. /\ DOMAIN lh_offsets = 1..Len(lh_offsets) /\ Len(lh_offsets) \in Nat
            /\ DOMAIN lh_offsets' = 1..Len(lh_offsets')
        BY <4>1, <4>2, LenProperties
      <4>4. QED
        BY <4>2, <4>3
    <3>3. QED
      BY <3>1, <3>2 DEF WriterNext, WriteLocal, HeaderNoted, WriteData,
         EntriesWritten, WriteCentral, RecordsWritten, WriteEnd, WriteFails
  <2>3. \A i : HoldsAnEnd(i) => HoldsAnEnd(i)'
    BY <2>1, <2>2 DEF HoldsAnEnd, HasAnEnd, LocalOf, CentralOf, Named, Size
  <2>4. QED
    BY <2>1, <2>3 DEF Quiet, EndIsCut
<1>2. archive \in Seq(Units) /\ Len(archive) \in Nat
  BY ArchiveFacts DEF WriterTyped
<1>3. Quiet => \A i \in 1..Len(archive) : archive[i].kind # "EOCD"
  BY DEF EndIsCut
<1>4. CASE EntriesWritten \/ RecordsWritten
  <2>1. archive' = archive /\ w_result' = "none" /\ w_pc' # "done"
    BY <1>1, <1>4 DEF EntriesWritten, RecordsWritten
  <2>2. QED
    BY <1>1, <1>3, <2>1 DEF EndIsCut, Written
<1>5. CASE WriteLocal \/ WriteData \/ WriteCentral
  <2>1. /\ archive' = archive \o Piece /\ w_result' = "none"
        /\ w_pc # "end" /\ (w_pc \in {"entry", "central"} => More)
    BY <1>1, <1>5 DEF WriteLocal, WriteData, WriteCentral
  <2>2. Piece \in Seq(Units)
    BY <2>1, PieceFacts
  <2> DEFINE p == Piece
             m == Len(archive)
  <2>3. Quiet => \A i \in 1..Len(p) : p[i].kind # "EOCD"
    BY <2>1, PieceIsQuiet
  <2> HIDE DEF p
  <2>4. /\ Len(p) \in Nat /\ Len(archive \o p) = m + Len(p)
        /\ \A i \in 1..m : (archive \o p)[i] = archive[i]
        /\ \A i \in 1..Len(p) : (archive \o p)[m + i] = p[i]
    BY <1>2, <2>2, Joined DEF p
  <2> HIDE DEF m
  <2>5. ASSUME Quiet, NEW i \in 1..(m + Len(p))
        PROVE  (archive \o p)[i].kind # "EOCD"
    <3>1. CASE i <= m
      <4>1. i \in 1..m
        BY <3>1
      <4>2. QED
        BY <1>3, <2>4, <2>5, <4>1 DEF m
    <3>2. CASE ~(i <= m)
      <4>1. i - m \in 1..Len(p) /\ m + (i - m) = i
        BY <1>2, <2>4, <3>2 DEF m
      <4>2. QED
        BY <2>3, <2>4, <2>5, <4>1
    <3>3. QED
      BY <3>1, <3>2
  <2>6. archive' = archive \o p
    BY <2>1 DEF p
  <2>7. QED
    BY <1>1, <2>1, <2>4, <2>5, <2>6 DEF EndIsCut
<1>6. CASE WriteEnd
  BY <1>6 DEF EndIsCut, WriteEnd, Written
<1>7. CASE WriteFails
  <2>1. /\ w_pc = "end" \/ More
        /\ w_pc' = "done" /\ w_result' = "Err"
    BY <1>7 DEF WriteFails
  <2>2. PICK n \in 0..(Len(Piece) - 1) : archive' = archive \o SubSeq(Piece, 1, n)
    BY <1>7 DEF WriteFails
  <2>3. Piece \in Seq(Units) /\ Len(Piece) \in Nat
    <3>1. Piece \in Seq(Units)
      BY <2>1, PieceFacts
    <3>2. QED
      BY <3>1, LenProperties
  <2> DEFINE p == SubSeq(Piece, 1, n)
             m == Len(archive)
  <2>4. /\ p \in Seq(Units) /\ Len(p) = n
        /\ \A i \in 1..n : p[i] = Piece[i]
    <3>1. /\ 1 \in Int /\ n \in Int /\ \A i \in 1..n : Piece[i] \in Units
      <4> HIDE DEF Units
      <4>1. QED
        BY <2>3, ElementOfSeq
    <3>2. /\ p \in Seq(Units) /\ Len(p) = IF 1 <= n THEN n - 1 + 1 ELSE 0
          /\ \A i \in 1..(n - 1 + 1) : p[i] = Piece[1 + i - 1]
      BY <3>1, SubSeqProperties
    <3>3. n \in Nat /\ n - 1 + 1 = n /\ (IF 1 <= n THEN n ELSE 0) = n
          /\ \A i \in 1..n : 1 + i - 1 = i
      BY <2>3
    <3> HIDE DEF p
    <3>4. QED
      BY <3>2, <3>3
  <2>5. ASSUME Quiet, w_pc # "end"
        PROVE  \A i \in 1..n : p[i].kind # "EOCD"
    <3>1. \A i \in 1..Len(Piece) : Piece[i].kind # "EOCD"
      BY <2>1, <2>5, PieceIsQuiet
    <3>2. \A i \in 1..n : i \in 1..Len(Piece)
      BY <2>3
    <3>3. QED
      BY <2>4, <3>1, <3>2
  <2>6. w_pc = "end" => n < EOCD_MIN_SIZE
    <3> SUFFICES ASSUME w_pc = "end" PROVE n < EOCD_MIN_SIZE
      OBVIOUS
    <3> DEFINE end == EndRecord(Len(members) % W16, w_cd_size, offset, 0)
    <3>1. Piece = StoredEnd(end)
      BY DEF Piece, EndPiece
    <3>2. end \in Units
      BY MemberFacts, Remainder, RecordFacts DEF WriterTyped
    <3> HIDE DEF end
    <3>3. Len(Piece) = EOCD_MIN_SIZE
      BY <3>1, <3>2, StoredEndFacts
    <3>4. QED
      BY <3>3, SizesAssumption
  <2> HIDE DEF p
  <2>7. /\ Len(archive \o p) = m + n
        /\ \A i \in 1..m : (archive \o p)[i] = archive[i]
        /\ \A i \in 1..n : (archive \o p)[m + i] = p[i]
    BY <1>2, <2>4, Joined
  <2> HIDE DEF m
  <2>8. ASSUME Quiet, NEW i \in 1..(m + n), (archive \o p)[i].kind = "EOCD"
        PROVE  (i - 1) + EOCD_MIN_SIZE > m + n
    <3>1. ~(i <= m)
      <4> SUFFICES ASSUME i <= m PROVE FALSE
        OBVIOUS
      <4>1. i \in 1..m
        OBVIOUS
      <4>2. QED
        BY <1>3, <2>7, <2>8, <4>1 DEF m
    <3>2. i - m \in 1..n /\ m + (i - m) = i
      BY <1>2, <2>3, <3>1 DEF m
    <3>3. w_pc = "end"
      BY <2>5, <2>7, <2>8, <3>2
    <3>4. n < EOCD_MIN_SIZE /\ EOCD_MIN_SIZE \in Nat /\ m \in Nat /\ n \in Nat
      BY <1>2, <2>3, <2>6, <3>3, SizesAssumption DEF m
    <3>5. QED
      BY <3>1, <3>4
  <2>9. archive' = archive \o p
    BY <2>2 DEF p
  <2>10. QED
    BY <1>1, <2>1, <2>7, <2>8, <2>9 DEF EndIsCut, Written
<1>8. QED
  BY <1>4, <1>5, <1>6, <1>7 DEF WriterNext

LEMMA CutImplies == Inv /\ EndIsCut => CutIsRefused
<1> SUFFICES ASSUME Inv, EndIsCut, w_result = "Err", result = "Ok", Quiet
             PROVE  FALSE
  BY DEF CutIsRefused, Quiet
<1>1. HasEnd
  BY DEF Inv, ReaderTyped, GoesByTheLast
<1> DEFINE p == Max(Signatures)
<1>2. /\ p \in Nat /\ p < Len(archive) /\ Unit(p).kind = "EOCD"
      /\ p + EOCD_MIN_SIZE <= Len(archive) /\ Len(archive) \in Nat
  BY <1>1, SignatureFacts, ArchiveFacts DEF HasEnd, Inv, WriterTyped
<1> HIDE DEF p
<1>3. p + 1 \in 1..Len(archive) /\ (p + 1) - 1 = p
  BY <1>2
<1>4. p + EOCD_MIN_SIZE > Len(archive)
  BY <1>2, <1>3 DEF EndIsCut, Unit
<1>5. QED
  BY <1>2, <1>4, SizesAssumption

LEMMA AlwaysCut == RoundTripSpec => []EndIsCut
<1>1. RoundTripInit => EndIsCut
  <2> SUFFICES ASSUME RoundTripInit PROVE EndIsCut
    OBVIOUS
  <2>1. w_result = "none" /\ (~Written => archive = <<>>)
    BY DEF RoundTripInit, InitWriter, Foreign, Written
  <2>2. ~Written => 1..Len(archive) = {}
    BY <2>1, EmptySeq
  <2>3. QED
    BY <2>1, <2>2 DEF EndIsCut
<1>2. Inv /\ EndIsCut /\ [RoundTripNext]_allVars => EndIsCut'
  <2> SUFFICES ASSUME Inv, EndIsCut, [RoundTripNext]_allVars PROVE EndIsCut'
    OBVIOUS
  <2>1. CASE ~Written /\ WriterNext
    BY <2>1, WriterCuts DEF Inv
  <2>2. CASE UNCHANGED <<archive, writerVars>>
    BY <2>2 DEF EndIsCut, Quiet, HoldsAnEnd, HasAnEnd, LocalOf, CentralOf, Named,
       Size, Written, writerVars
  <2>3. CASE Written /\ Next /\ UNCHANGED writerVars
    <3>1. archive' = archive
      BY <2>3 DEF Next, FindEnd, NoEnd, FindLocator, NoLocator, ReadEnd64,
         NoEnd64, LoadDirectory, DirectoryOutside, ReadFails, ListRecord,
         RecordCutOff, DirectoryEnds, BuildNode, Attach, Fail
    <3>2. QED
      BY <2>2, <2>3, <3>1
  <2>4. QED
    BY <2>1, <2>2, <2>3 DEF RoundTripNext, allVars, vars
<1>3. QED
  BY Invariance, <1>1, <1>2, PTL DEF RoundTripSpec

(* An output that was cut off is no archive, unless what is in it of a      *)
(* member, its data, name or fields, spells the end record of another      *)
(* (write_stored, find_eocd).                                              *)
THEOREM CutOffIsRefused == RoundTripSpec => []CutIsRefused
BY Invariance, AlwaysCut, CutImplies, PTL

-----------------------------------------------------------------------------
(* What the writer writes the reader reads back.  The pieces are there one *)
(* after the other: a header and data for every member, a record for every *)
(* member, the end record.                                                 *)
HeaderOf(i) == LocalHeader(FALSE, NameBytes[members[i].name], 0)
DataBegin(i) == Taken(i - 1) + LFH_SIZE + NameBytes[members[i].name]
RecordPlace(i) == Taken(Len(members)) + Listed(i - 1)
RecordOf(i) ==
  CentralRecord(members[i].name, TRUE, FALSE, Len(members[i].data),
                Len(members[i].data), Taken(i - 1), 0, <<>>, 0)
EndPlace == Taken(Len(members)) + Listed(Len(members))

IsAt(p, unit) == p < Len(archive) /\ Unit(p) = unit
MemberThere(i) ==
  /\ IsAt(Taken(i - 1), HeaderOf(i)) /\ Taken(i) <= Len(archive)
  /\ \A k \in 1..Len(members[i].data) :
       IsAt(DataBegin(i) + (k - 1), members[i].data[k])
MembersThere(n) == \A i \in 1..n : MemberThere(i)
RecordsThere(n) == \A i \in 1..n : IsAt(RecordPlace(i), RecordOf(i))
Noted(n) == \A i \in 1..n : lh_offsets[i] = Taken(i - 1)

Complete ==
  /\ Len(archive) = EndPlace + EOCD_MIN_SIZE
  /\ MembersThere(Len(members)) /\ RecordsThere(Len(members))
  /\ IsAt(EndPlace, OwnEnd)
  /\ \A p \in (EndPlace + 1)..(Len(archive) - 1) : Unit(p) = Byte

(* What is there at each stage of the writer.                              *)
Stage ==
  /\ w_pc = "entry" =>
       /\ Len(archive) = Taken(next_member - 1) /\ offset = Taken(next_member - 1)
       /\ w_cd_size = 0
       /\ MembersThere(next_member - 1) /\ Noted(next_member - 1)
  /\ w_pc = "data" =>
       /\ Len(archive) = DataBegin(next_member) /\ offset = Taken(next_member - 1)
       /\ w_cd_size = 0
       /\ MembersThere(next_member - 1) /\ Noted(next_member)
       /\ IsAt(Taken(next_member - 1), HeaderOf(next_member))
  /\ w_pc = "central" =>
       /\ Len(archive) = RecordPlace(next_member) /\ offset = Taken(Len(members))
       /\ w_cd_size = Listed(next_member - 1)
       /\ MembersThere(Len(members)) /\ Noted(Len(members))
       /\ RecordsThere(next_member - 1)
  /\ w_pc = "end" =>
       /\ Len(archive) = EndPlace /\ offset = Taken(Len(members))
       /\ w_cd_size = Listed(Len(members))
       /\ MembersThere(Len(members)) /\ RecordsThere(Len(members))
  /\ w_result = "Ok" => Complete

(* The reader stands before the record of the first member it has not      *)
(* listed, or before the end record.                                       *)
Found == Len(entries)
Expected(i) ==
  [ name                |-> members[i].name,
    stored              |-> TRUE,
    is_encrypted        |-> FALSE,
    uncompressed_size   |-> Len(members[i].data),
    local_header_offset |-> Taken(i - 1) ]
Reading ==
  /\ pc \notin {"locate", "wide"} /\ result \notin {"NotZip", "BadCentralDirectory"}
  /\ pc \notin {"search", "done"} =>
       cd_offset = Taken(Len(members)) /\ cd_size = Listed(Len(members))
  /\ pc \in {"search", "load"} => Found = 0 /\ pos = 0
  /\ pc = "list" => pos = Listed(Found)
  /\ Found <= Len(members)
  /\ \A i \in 1..Found : entries[i] = Expected(i)
  /\ pc \in {"build", "done"} /\ result # "Io" => Found = Len(members)

OwnInv == Fits => Stage /\ (w_result = "Ok" => Reading)

-----------------------------------------------------------------------------
(* Where each member and each record is: behind those before it.           *)
LEMMA PlaceFacts ==
  ASSUME members = <<>> \/ members \in Writes, NEW i \in 1..Len(members)
  PROVE  /\ LocalBytes(i) \in Nat \ {0} /\ RecordBytes(i) \in Nat \ {0}
         /\ NameBytes[members[i].name] \in Nat /\ Len(members[i].data) \in Nat
         /\ LFH_SIZE \in Nat \ {0} /\ CDR_SIZE \in Nat \ {0}
<1> DEFINE l == NameBytes[members[i].name]
           d == Len(members[i].data)
<1>1. l \in Nat /\ d \in Nat /\ LFH_SIZE \in Nat \ {0} /\ CDR_SIZE \in Nat \ {0}
  BY MemberFacts, SizesAssumption
<1>2. LocalBytes(i) = LFH_SIZE + l + d /\ RecordBytes(i) = CDR_SIZE + l
  BY DEF LocalBytes, RecordBytes
<1> HIDE DEF l, d
<1>3. LFH_SIZE + l + d \in Nat \ {0} /\ CDR_SIZE + l \in Nat \ {0}
  BY <1>1
<1>4. QED
  BY <1>1, <1>2, <1>3 DEF l, d

LEMMA TakenFacts ==
  ASSUME members = <<>> \/ members \in Writes
  PROVE  /\ Taken(0) = 0
         /\ \A i \in 0..Len(members) : Taken(i) \in Nat
         /\ \A i \in 1..Len(members) : Taken(i) = Taken(i - 1) + LocalBytes(i)
         /\ \A i, j \in 0..Len(members) : i <= j => Taken(i) <= Taken(j)
<1> DEFINE n == Len(members)
           size == [i \in 1..n |-> LocalBytes(i)]
           Rule(f) == [k \in 0..n |->
             IF k = 0 THEN 0 ELSE LET before == f[k - 1]
                                  IN  before + LocalBytes(k)]
           sums == CHOOSE f : f = Rule(f)
<1>1. n \in Nat /\ \A i \in 1..n : LocalBytes(i) \in Nat
  BY MemberFacts, PlaceFacts
<1>2. \A i : Taken(i) = sums[i]
  BY DEF Taken
<1>3. \A i \in 1..n : size[i] \in Nat /\ size[i] = LocalBytes(i)
  <2> HIDE DEF n
  <2>1. QED
    BY <1>1
<1> HIDE DEF n, size
<1>4. PICK f : f \in [0..n -> Nat] /\ Sums(f, n, size)
  BY <1>1, <1>3, SumsExist
<1>5. f = Rule(f)
  <2>1. ASSUME NEW i \in 1..n PROVE f[i] = f[i - 1] + LocalBytes(i)
    BY <1>3, <1>4 DEF Sums
  <2>2. \A i \in 0..n : i = 0 \/ i \in 1..n
    BY <1>1
  <2>3. \A i \in 0..n : f[i] = Rule(f)[i]
    BY <1>4, <2>1, <2>2 DEF Sums
  <2>4. QED
    BY <1>4, <2>3
<1>6. sums = Rule(sums)
  <2> HIDE DEF Rule
  <2>1. QED
    BY <1>5
<1> HIDE DEF sums
<1>7. Sums(sums, n, size)
  <2>1. sums[0] = 0
    BY <1>1, <1>6
  <2>2. ASSUME NEW i \in 1..n PROVE sums[i] = sums[i - 1] + LocalBytes(i)
    <3>1. i \in 0..n /\ i # 0
      BY <1>1
    <3>2. QED
      BY <1>6, <3>1
  <2>3. QED
    BY <1>3, <2>1, <2>2 DEF Sums
<1>8. /\ \A i \in 0..n : sums[i] \in Nat
      /\ \A i, j \in 0..n : i <= j => sums[i] <= sums[j]
  BY <1>1, <1>3, <1>7, SumsGrow
<1>9. QED
  BY <1>2, <1>3, <1>7, <1>8 DEF Sums, n


LEMMA ListedFacts ==
  ASSUME members = <<>> \/ members \in Writes
  PROVE  /\ Listed(0) = 0
         /\ \A i \in 0..Len(members) : Listed(i) \in Nat
         /\ \A i \in 1..Len(members) : Listed(i) = Listed(i - 1) + RecordBytes(i)
         /\ \A i, j \in 0..Len(members) : i <= j => Listed(i) <= Listed(j)
<1> DEFINE n == Len(members)
           size == [i \in 1..n |-> RecordBytes(i)]
           Rule(f) == [k \in 0..n |->
             IF k = 0 THEN 0 ELSE LET before == f[k - 1]
                                  IN  before + RecordBytes(k)]
           sums == CHOOSE f : f = Rule(f)
<1>1. n \in Nat /\ \A i \in 1..n : RecordBytes(i) \in Nat
  BY MemberFacts, PlaceFacts
<1>2. \A i : Listed(i) = sums[i]
  BY DEF Listed
<1>3. \A i \in 1..n : size[i] \in Nat /\ size[i] = RecordBytes(i)
  <2> HIDE DEF n
  <2>1. QED
    BY <1>1
<1> HIDE DEF n, size
<1>4. PICK f : f \in [0..n -> Nat] /\ Sums(f, n, size)
  BY <1>1, <1>3, SumsExist
<1>5. f = Rule(f)
  <2>1. ASSUME NEW i \in 1..n PROVE f[i] = f[i - 1] + RecordBytes(i)
    BY <1>3, <1>4 DEF Sums
  <2>2. \A i \in 0..n : i = 0 \/ i \in 1..n
    BY <1>1
  <2>3. \A i \in 0..n : f[i] = Rule(f)[i]
    BY <1>4, <2>1, <2>2 DEF Sums
  <2>4. QED
    BY <1>4, <2>3
<1>6. sums = Rule(sums)
  <2> HIDE DEF Rule
  <2>1. QED
    BY <1>5
<1> HIDE DEF sums
<1>7. Sums(sums, n, size)
  <2>1. sums[0] = 0
    BY <1>1, <1>6
  <2>2. ASSUME NEW i \in 1..n PROVE sums[i] = sums[i - 1] + RecordBytes(i)
    <3>1. i \in 0..n /\ i # 0
      BY <1>1
    <3>2. QED
      BY <1>6, <3>1
  <2>3. QED
    BY <1>3, <2>1, <2>2 DEF Sums
<1>8. /\ \A i \in 0..n : sums[i] \in Nat
      /\ \A i, j \in 0..n : i <= j => sums[i] <= sums[j]
  BY <1>1, <1>3, <1>7, SumsGrow
<1>9. QED
  BY <1>2, <1>3, <1>7, <1>8 DEF Sums, n

(* What fits takes no more than the fields can say.                        *)
LEMMA PlacesFit ==
  ASSUME members = <<>> \/ members \in Writes, Fits
  PROVE  LET n == Len(members)
         IN  /\ n \in Nat /\ n < W16 - 1
             /\ Taken(n) \in Nat /\ Taken(n) < W32 - 1
             /\ Listed(n) \in Nat /\ Listed(n) < W32 - 1
             /\ EndPlace \in Nat /\ EndPlace = Taken(n) + Listed(n)
             /\ Taken(0) = 0 /\ Listed(0) = 0
             /\ \A i \in 0..n :
                  /\ Taken(i) \in Nat /\ Taken(i) <= Taken(n)
                  /\ Listed(i) \in Nat /\ Listed(i) <= Listed(n)
<1> DEFINE n == Len(members)
<1>1. /\ n \in Nat /\ n < W16 - 1 /\ Taken(n) < W32 - 1 /\ Listed(n) < W32 - 1
  BY MemberFacts DEF Fits
<1>2. n \in 0..n /\ \A i \in 0..n : i <= n
  BY <1>1
<1>3. /\ Taken(0) = 0 /\ Listed(0) = 0
      /\ \A i \in 0..n :
           /\ Taken(i) \in Nat /\ Taken(i) <= Taken(n)
           /\ Listed(i) \in Nat /\ Listed(i) <= Listed(n)
  BY <1>2, TakenFacts, ListedFacts
<1>4. EndPlace = Taken(n) + Listed(n) /\ EndPlace \in Nat
  <2>1. EndPlace = Taken(n) + Listed(n)
    BY DEF EndPlace
  <2>2. Taken(n) \in Nat /\ Listed(n) \in Nat
    BY <1>2, <1>3
  <2>3. QED
    BY <2>1, <2>2
<1>5. QED
  BY <1>1, <1>2, <1>3, <1>4

(* A member and its record are before those that follow.                   *)
LEMMA PlaceOf ==
  ASSUME members = <<>> \/ members \in Writes, Fits, NEW i \in 1..Len(members)
  PROVE  LET name == members[i].name
             size == Len(members[i].data)
         IN  /\ name \in Name /\ Cut[name] = name
             /\ NameBytes[name] \in Nat /\ NameBytes[name] < W16
             /\ size \in Nat /\ size < W32 - 1
             /\ Taken(i - 1) \in Nat /\ Taken(i - 1) < W32 - 1
             /\ DataBegin(i) = Taken(i - 1) + LFH_SIZE + NameBytes[name]
             /\ DataBegin(i) \in Nat /\ Taken(i - 1) < DataBegin(i)
             /\ Taken(i) = DataBegin(i) + size
             /\ Taken(i) \in Nat /\ Taken(i) <= Taken(Len(members))
             /\ Listed(i - 1) \in Nat /\ Listed(i) \in Nat
             /\ Listed(i) = Listed(i - 1) + CDR_SIZE + NameBytes[name]
             /\ Listed(i) <= Listed(Len(members))
             /\ RecordPlace(i) \in Nat
             /\ RecordPlace(i) = Taken(Len(members)) + Listed(i - 1)
             /\ RecordPlace(i) + RecordBytes(i) = Taken(Len(members)) + Listed(i)
             /\ RecordPlace(i) < EndPlace
<1> DEFINE n == Len(members)
           l == NameBytes[members[i].name]
           size == Len(members[i].data)
           a == Taken(i - 1)
           b == Taken(i)
           c == Listed(i - 1)
           d == Listed(i)
           t == Taken(n)
           u == Listed(n)
<1>1. /\ members[i].name \in Name /\ l \in Nat /\ size \in Nat
      /\ LFH_SIZE \in Nat \ {0} /\ CDR_SIZE \in Nat \ {0}
  BY MemberFacts, PlaceFacts
<1>2. l < W16 /\ Cut[members[i].name] = members[i].name
  BY MemberFacts DEF Fits
<1>3. i \in 0..n /\ i - 1 \in 0..n
  BY PlacesFit
<1>4. /\ a \in Nat /\ b \in Nat /\ c \in Nat /\ d \in Nat
      /\ b <= t /\ d <= u
      /\ t \in Nat /\ u \in Nat /\ t < W32 - 1 /\ u < W32 - 1
  BY <1>3, PlacesFit
<1>5. b = a + LocalBytes(i) /\ d = c + RecordBytes(i)
  BY <1>3, TakenFacts, ListedFacts
<1>6. /\ LocalBytes(i) = LFH_SIZE + l + size /\ RecordBytes(i) = CDR_SIZE + l
      /\ DataBegin(i) = a + LFH_SIZE + l /\ RecordPlace(i) = t + c
      /\ EndPlace = t + u
  BY DEF LocalBytes, RecordBytes, DataBegin, RecordPlace, EndPlace
<1> HIDE DEF n, l, size, a, b, c, d, t, u
<1>7. /\ b = (a + LFH_SIZE + l) + size /\ d = c + CDR_SIZE + l
      /\ (t + c) + (CDR_SIZE + l) = t + d
      /\ a + LFH_SIZE + l \in Nat /\ a < a + LFH_SIZE + l /\ t + c \in Nat
  BY <1>1, <1>4, <1>5, <1>6
<1>8. a < W32 - 1 /\ size < W32 - 1 /\ t + c < t + u
  <2>1. W32 \in Nat
    BY WidthAssumption
  <2>2. QED
    BY <1>1, <1>4, <1>7, <2>1
<1>9. QED
  BY <1>1, <1>2, <1>4, <1>6, <1>7, <1>8 DEF n, l, size, a, b, c, d, t, u

(* The places depend on nothing but the members.                           *)
LEMMA SamePlaces ==
  ASSUME members' = members
  PROVE  /\ Fits' <=> Fits
         /\ EndPlace' = EndPlace /\ OwnEnd' = OwnEnd
         /\ \A i : /\ Taken(i)' = Taken(i) /\ Listed(i)' = Listed(i)
                   /\ HeaderOf(i)' = HeaderOf(i) /\ DataBegin(i)' = DataBegin(i)
                   /\ RecordPlace(i)' = RecordPlace(i)
                   /\ RecordOf(i)' = RecordOf(i) /\ Expected(i)' = Expected(i)
<1>1. \A i : Taken(i)' = Taken(i) /\ Listed(i)' = Listed(i)
  BY DEF Taken, Listed, LocalBytes, RecordBytes
<1>2. (Taken(Len(members)))' = Taken(Len(members))
      /\ (Listed(Len(members)))' = Listed(Len(members))
  BY DEF Taken, Listed, LocalBytes, RecordBytes
<1>3. \A i : (Taken(i - 1))' = Taken(i - 1) /\ (Listed(i - 1))' = Listed(i - 1)
  BY DEF Taken, Listed, LocalBytes, RecordBytes
<1>4. Fits' <=> Fits
  <2>1. OwnEnd' = OwnEnd
    BY <1>2 DEF OwnEnd
  <2>2. ASSUME NEW e, e = OwnEnd
        PROVE  (\A i \in 1..(EOCD_MIN_SIZE - 1) : Spelled(<<OwnEnd>>, i) \notin Ends)'
               <=> \A i \in 1..(EOCD_MIN_SIZE - 1) : Spelled(<<OwnEnd>>, i) \notin Ends
    BY <2>1
  <2>3. QED
    BY <1>2, <2>2 DEF Fits
<1>5. EndPlace' = EndPlace /\ OwnEnd' = OwnEnd
  BY <1>2 DEF EndPlace, OwnEnd
<1>6. \A i : /\ HeaderOf(i)' = HeaderOf(i) /\ DataBegin(i)' = DataBegin(i)
             /\ RecordPlace(i)' = RecordPlace(i)
             /\ RecordOf(i)' = RecordOf(i) /\ Expected(i)' = Expected(i)
  BY <1>2, <1>3 DEF HeaderOf, DataBegin, RecordPlace, RecordOf, Expected
<1>7. QED
  BY <1>1, <1>4, <1>5, <1>6

(* What has been written stays where it is.                                *)
Longer ==
  /\ Len(archive)' \in Nat /\ Len(archive) \in Nat /\ Len(archive) <= Len(archive)'
  /\ \A p \in Nat : p < Len(archive) => Unit(p)' = Unit(p)

LEMMA Appended ==
  ASSUME archive \in Seq(Units), NEW piece \in Seq(Units),
         archive' = archive \o piece
  PROVE  /\ Longer
         /\ Len(archive) \in Nat /\ Len(archive)' = Len(archive) + Len(piece)
         /\ \A p : \A k \in 1..Len(piece) :
              p = Len(archive) + (k - 1) => Unit(p)' = piece[k]
<1> DEFINE m == Len(archive)
           n == Len(piece)
           u == archive \o piece
<1>1. /\ m \in Nat /\ n \in Nat /\ Len(u) = m + n
      /\ \A i \in 1..m : u[i] = archive[i]
      /\ \A i \in 1..n : u[m + i] = piece[i]
  BY Joined
<1>2. archive' = u /\ Len(archive)' = Len(u)
  OBVIOUS
<1>3. \A p : Unit(p)' = u[p + 1]
  BY <1>2 DEF Unit
<1> HIDE DEF n, u
<1>4. \A p \in Nat : p < m => Unit(p)' = Unit(p)
  <2>1. \A p \in Nat : p < m => p + 1 \in 1..m
    BY <1>1
  <2>2. QED
    BY <1>1, <1>3, <2>1 DEF Unit
<1>5. ASSUME NEW p, NEW k \in 1..n, p = m + (k - 1) PROVE Unit(p)' = piece[k]
  <2>1. p + 1 = m + k
    BY <1>1, <1>5
  <2>2. QED
    BY <1>1, <1>3, <2>1
<1>6. QED
  BY <1>1, <1>2, <1>4, <1>5 DEF Longer, n

LEMMA StillThere ==
  ASSUME members = <<>> \/ members \in Writes, members' = members, Fits, Longer,
         NEW n \in 0..Len(members)
  PROVE  /\ MembersThere(n) => MembersThere(n)'
         /\ RecordsThere(n) => RecordsThere(n)'
         /\ \A i \in 1..Len(members) :
              IsAt(Taken(i - 1), HeaderOf(i)) => IsAt(Taken(i - 1), HeaderOf(i))'
<1>1. \A i \in 1..n : i \in 1..Len(members)
  BY PlacesFit
<1>2. ASSUME NEW p \in Nat, NEW unit, IsAt(p, unit) PROVE IsAt(p, unit)'
  BY <1>2 DEF IsAt, Longer
<1>3. ASSUME NEW i \in 1..Len(members), IsAt(Taken(i - 1), HeaderOf(i))
      PROVE  IsAt(Taken(i - 1), HeaderOf(i))'
  <2>1. ASSUME NEW p, p = Taken(i - 1), NEW unit, unit = HeaderOf(i), IsAt(p, unit)
        PROVE  IsAt(Taken(i - 1), HeaderOf(i))'
    <3>1. p \in Nat /\ (Taken(i - 1))' = p /\ HeaderOf(i)' = unit
      BY <2>1, PlaceOf, SamePlaces
    <3>2. IsAt(p, unit)'
      BY <1>2, <2>1, <3>1
    <3>3. QED
      BY <3>1, <3>2 DEF IsAt
  <2>2. QED
    BY <1>3, <2>1
<1>4. ASSUME NEW i \in 1..n, MemberThere(i) PROVE MemberThere(i)'
  <2>1. IsAt(Taken(i - 1), HeaderOf(i))'
    BY <1>1, <1>3, <1>4 DEF MemberThere
  <2>2. (Taken(i) <= Len(archive))'
    <3>1. Taken(i) \in Nat /\ Taken(i)' = Taken(i) /\ Taken(i) <= Len(archive)
      BY <1>1, <1>4, PlaceOf, SamePlaces DEF MemberThere
    <3>2. QED
      BY <3>1 DEF Longer
  <2>3. ASSUME NEW k \in 1..Len(members[i].data), NEW p,
               p = DataBegin(i) + (k - 1), NEW unit, unit = members[i].data[k]
        PROVE  IsAt(p, unit)'
    <3>1. IsAt(p, unit)
      BY <1>4, <2>3 DEF MemberThere
    <3>2. p \in Nat
      <4>1. DataBegin(i) \in Nat /\ k \in Nat /\ k >= 1
        BY <1>1, PlaceOf
      <4>2. QED
        BY <2>3, <4>1
    <3>3. QED
      BY <1>2, <3>1, <3>2
  <2>4. /\ DataBegin(i)' = DataBegin(i) /\ members'[i].data = members[i].data
    BY SamePlaces
  <2>5. \A k \in 1..Len(members[i].data) :
          (IsAt(DataBegin(i) + (k - 1), members[i].data[k]))'
    BY <2>3, <2>4 DEF IsAt
  <2>6. QED
    BY <2>1, <2>2, <2>5 DEF MemberThere
<1>5. ASSUME NEW i \in 1..n, IsAt(RecordPlace(i), RecordOf(i))
      PROVE  IsAt(RecordPlace(i), RecordOf(i))'
  <2>1. ASSUME NEW p, p = RecordPlace(i), NEW unit, unit = RecordOf(i), IsAt(p, unit)
        PROVE  IsAt(RecordPlace(i), RecordOf(i))'
    <3>1. p \in Nat /\ RecordPlace(i)' = p /\ RecordOf(i)' = unit
      BY <1>1, <2>1, PlaceOf, SamePlaces
    <3>2. IsAt(p, unit)'
      BY <1>2, <2>1, <3>1
    <3>3. QED
      BY <3>1, <3>2 DEF IsAt
  <2>2. QED
    BY <1>5, <2>1
<1>6. QED
  BY <1>3, <1>4, <1>5 DEF MembersThere, RecordsThere

(* No field of what fits is cut.                                           *)
LEMMA PieceFits ==
  ASSUME WriterTyped, Fits, Stage, ~Written, w_pc \in {"entry", "central"} => More
  PROVE  LET i == next_member
         IN  /\ Piece \in Seq(Units) /\ Len(members) \in Nat
             /\ w_pc # "end" => i \in 1..Len(members)
             /\ w_pc = "entry" =>
                  /\ Piece[1] = HeaderOf(i)
                  /\ Len(Piece) = LFH_SIZE + NameBytes[members[i].name]
             /\ w_pc = "data" => Piece = members[i].data
             /\ w_pc = "central" =>
                  Piece[1] = RecordOf(i) /\ Len(Piece) = RecordBytes(i)
             /\ w_pc = "end" =>
                  /\ Piece[1] = OwnEnd /\ Len(Piece) = EOCD_MIN_SIZE
                  /\ \A k \in 2..EOCD_MIN_SIZE : Piece[k] = Byte
<1> DEFINE i == next_member
<1>1. members = <<>> \/ members \in Writes
  BY DEF WriterTyped
<1>2. /\ Piece \in Seq(Units) /\ Len(members) \in Nat
      /\ w_pc # "end" => i \in 1..Len(members)
  BY <1>1, PieceFacts, MemberFacts
<1>3. ASSUME w_pc # "end"
      PROVE  /\ Member.name = members[i].name /\ members[i].name \in Name
             /\ Cut[Member.name] = members[i].name
             /\ NameBytes[members[i].name] % W16 = NameBytes[members[i].name]
             /\ NameBytes[members[i].name] \in Nat
             /\ Size(Member) = Len(members[i].data) /\ Len(members[i].data) \in Nat
             /\ Taken(i - 1) \in Nat
  <2>1. i \in 1..Len(members)
    BY <1>2, <1>3
  <2>2. /\ members[i].name \in Name /\ Cut[members[i].name] = members[i].name
        /\ NameBytes[members[i].name] \in Nat /\ NameBytes[members[i].name] < W16
        /\ Len(members[i].data) \in Nat /\ Len(members[i].data) < W32 - 1
        /\ Taken(i - 1) \in Nat
    BY <1>1, <2>1, PlaceOf
  <2>3. Len(members[i].data) < W32
    BY <2>2, WidthAssumption
  <2>4. QED
    BY <2>2, <2>3, Remainder DEF Member, Size
<1>4. CASE w_pc = "entry"
  <2> DEFINE l == NameBytes[members[i].name]
             name == members[i].name
  <2>1. Piece = Named(LocalHeader(FALSE, l, 0), LFH_SIZE, Member)
    BY <1>3, <1>4 DEF Piece, LocalPiece, LocalOf
  <2>2. HeaderOf(i) = LocalHeader(FALSE, l, 0)
    BY DEF HeaderOf
  <2>3. l \in Nat /\ name \in Name /\ NameBytes[name] = l /\ Member.name = name
    BY <1>3, <1>4
  <2> HIDE DEF l, name
  <2>4. LocalHeader(FALSE, l, 0) \in Units /\ LFH_SIZE \in Nat \ {0}
    BY <2>3, RecordFacts, SizesAssumption
  <2> DEFINE header == LocalHeader(FALSE, l, 0)
  <2> HIDE DEF header
  <2>5. header \in Units
    BY <2>4 DEF header
  <2>6. /\ Named(header, LFH_SIZE, Member)[1] = header
        /\ Len(Named(header, LFH_SIZE, Member)) = LFH_SIZE + NameBytes[name]
    <3>1. LFH_SIZE \in Nat \ {0}
      BY SizesAssumption
    <3>2. ASSUME NEW m, m.name = name
          PROVE  /\ Named(header, LFH_SIZE, m)[1] = header
                 /\ Len(Named(header, LFH_SIZE, m)) = LFH_SIZE + NameBytes[name]
      <4>1. name \in Name
        BY <2>3
      <4>2. QED
        BY ONLY <2>5, <3>1, <3>2, <4>1, NamedFacts
    <3>3. QED
      BY <2>3, <3>2
  <2>7. QED
    BY <1>2, <1>4, <2>1, <2>2, <2>6 DEF header, name
<1>5. CASE w_pc = "data"
  BY <1>2, <1>5 DEF Piece, Member
<1>6. CASE w_pc = "central"
  <2> DEFINE record == RecordOf(i)
             name == members[i].name
  <2>1. lh_offsets[i] = Taken(i - 1)
    BY <1>2, <1>6 DEF Stage, Noted
  <2>2. Piece = Named(record, CDR_SIZE, Member)
    BY <1>3, <1>6, <2>1 DEF Piece, CentralPiece, CentralOf, RecordOf
  <2>3. /\ record \in Units /\ name \in Name /\ CDR_SIZE \in Nat \ {0}
        /\ Member.name = name
    BY <1>3, <1>6, RecordFacts, SizesAssumption DEF RecordOf
  <2>4. RecordBytes(i) = CDR_SIZE + NameBytes[name]
    BY DEF RecordBytes
  <2> HIDE DEF record, name
  <2>5. /\ Named(record, CDR_SIZE, Member)[1] = record
        /\ Len(Named(record, CDR_SIZE, Member)) = CDR_SIZE + NameBytes[name]
    BY <2>3, NamedFacts
  <2>6. QED
    BY <1>2, <1>6, <2>2, <2>4, <2>5 DEF record
<1>7. CASE w_pc = "end"
  <2> DEFINE n == Len(members)
             end == OwnEnd
  <2>1. w_cd_size = Listed(n) /\ offset = Taken(n)
    BY <1>7 DEF Stage
  <2>2. /\ n \in Nat /\ Listed(n) \in Nat /\ Taken(n) \in Nat /\ n % W16 = n
    <3>1. n \in Nat /\ Listed(n) \in Nat /\ Taken(n) \in Nat /\ n < W16 - 1
      BY <1>1, PlacesFit
    <3>2. n < W16
      BY <3>1, WidthAssumption
    <3>3. QED
      BY <3>1, <3>2, Remainder
  <2>3. Piece = StoredEnd(end)
    BY <1>7, <2>1, <2>2 DEF Piece, EndPiece, OwnEnd
  <2>4. /\ end \in Units
        /\ \A k \in 1..(EOCD_MIN_SIZE - 1) : Spelled(<<end>>, k) \notin Ends
    BY <2>2, RecordFacts DEF OwnEnd, Fits
  <2> HIDE DEF end
  <2>5. QED
    BY <1>2, <1>7, <2>3, <2>4, StoredEndFacts DEF end
<1>8. QED
  BY <1>2, <1>4, <1>5, <1>6, <1>7 DEF WriterTyped, Written

LEMMA WriteLocalStage ==
  ASSUME WriterTyped, Fits, Stage, w_result = "none", WriteLocal
  PROVE  Stage'
<1> SUFFICES ASSUME NEW i, i = next_member PROVE Stage'
  OBVIOUS
<1>1. /\ w_pc = "entry" /\ More /\ archive' = archive \o Piece
      /\ lh_offsets' = Append(lh_offsets, offset) /\ w_pc' = "data"
      /\ UNCHANGED <<members, next_member, offset, w_cd_size, w_result>>
  BY DEF WriteLocal, HeaderNoted
<1>2. /\ members = <<>> \/ members \in Writes
      /\ archive \in Seq(Units) /\ lh_offsets \in Seq(Nat) /\ offset \in Nat
      /\ Len(lh_offsets) = i - 1
  BY <1>1 DEF WriterTyped
<1>3. /\ Len(archive) = Taken(i - 1) /\ offset = Taken(i - 1) /\ w_cd_size = 0
      /\ MembersThere(i - 1) /\ Noted(i - 1)
  BY <1>1 DEF Stage
<1>4. /\ Piece \in Seq(Units) /\ Piece[1] = HeaderOf(i)
      /\ Len(Piece) = LFH_SIZE + NameBytes[members[i].name]
      /\ i \in 1..Len(members) /\ Len(members) \in Nat
  BY <1>1, PieceFits DEF Written
<1>5. /\ Longer /\ Len(archive) \in Nat /\ Len(archive)' = Len(archive) + Len(Piece)
      /\ \A p : \A k \in 1..Len(Piece) :
           p = Len(archive) + (k - 1) => Unit(p)' = Piece[k]
  BY <1>1, <1>2, <1>4, Appended
<1>6. /\ DataBegin(i) = Taken(i - 1) + LFH_SIZE + NameBytes[members[i].name]
      /\ Taken(i - 1) < DataBegin(i) /\ DataBegin(i) \in Nat /\ Taken(i - 1) \in Nat
      /\ NameBytes[members[i].name] \in Nat /\ LFH_SIZE \in Nat \ {0}
  BY <1>2, <1>4, PlaceOf, SizesAssumption
<1>7. Len(archive)' = DataBegin(i)
  <2> DEFINE l == NameBytes[members[i].name]
             m == Len(archive)
             q == Len(Piece)
  <2>1. m + q = m + LFH_SIZE + l
    <3>1. q = LFH_SIZE + l /\ l \in Nat /\ LFH_SIZE \in Nat /\ m \in Nat
      BY <1>4, <1>5, <1>6
    <3> HIDE DEF l, m, q
    <3>2. QED
      BY <3>1
  <2>2. QED
    BY <1>3, <1>5, <1>6, <2>1
<1>8. IsAt(Taken(i - 1), HeaderOf(i))'
  <2>1. ASSUME NEW p, p = Taken(i - 1) PROVE IsAt(Taken(i - 1), HeaderOf(i))'
    <3>1. 1 \in 1..Len(Piece) /\ p = Len(archive) + (1 - 1)
      <4>1. Len(Piece) \in Nat /\ Len(Piece) # 0
        <5> DEFINE l == NameBytes[members[i].name]
        <5>1. LFH_SIZE + l \in Nat /\ LFH_SIZE + l # 0
          BY <1>6
        <5>2. QED
          BY <1>4, <5>1
      <4>2. QED
        BY <1>3, <1>5, <2>1, <4>1
    <3>2. Unit(p)' = HeaderOf(i)
      BY <1>4, <1>5, <3>1
    <3>3. (Taken(i - 1))' = p /\ HeaderOf(i)' = HeaderOf(i)
      BY <1>1, <2>1, SamePlaces
    <3>4. p < Len(archive)'
      BY <1>6, <1>7, <2>1
    <3>5. QED
      BY <3>2, <3>3, <3>4 DEF IsAt
  <2>2. QED
    BY <2>1
<1>9. MembersThere(i - 1)'
  <2>1. i - 1 \in 0..Len(members)
    BY <1>4
  <2>2. QED
    BY <1>1, <1>2, <1>3, <1>5, <2>1, StillThere
<1>10. Noted(i)'
  <2>1. /\ \A j \in 1..(i - 1) : lh_offsets'[j] = lh_offsets[j]
        /\ lh_offsets'[i] = Taken(i - 1)
    <3>1. (i - 1) + 1 = i
      BY <1>4
    <3>2. QED
      BY <1>1, <1>2, <1>3, <3>1, AppendProperties
  <2>2. \A j \in 1..i : j = i \/ j \in 1..(i - 1)
    BY <1>4
  <2>3. \A j : (Taken(j - 1))' = Taken(j - 1)
    BY <1>1, SamePlaces
  <2>4. QED
    BY <1>3, <2>1, <2>2, <2>3 DEF Noted
<1>11. /\ (Taken(i - 1))' = Taken(i - 1) /\ DataBegin(i)' = DataBegin(i)
       /\ next_member' = i
  BY <1>1, SamePlaces
<1>12. QED
  BY <1>1, <1>3, <1>7, <1>8, <1>9, <1>10, <1>11 DEF Stage

LEMMA WriteDataStage ==
  ASSUME WriterTyped, Fits, Stage, w_result = "none", WriteData
  PROVE  Stage'
<1> SUFFICES ASSUME NEW i, i = next_member PROVE Stage'
  OBVIOUS
<1> DEFINE data == members[i].data
           l == NameBytes[members[i].name]
           size == Len(data)
<1>1. /\ w_pc = "data" /\ archive' = archive \o Piece
      /\ offset' = (offset + LFH_SIZE + l + Size(Member)) % W32
      /\ next_member' = i + 1 /\ w_pc' = "entry"
      /\ UNCHANGED <<members, lh_offsets, w_cd_size, w_result>>
  BY DEF WriteData, Member
<1>2. members = <<>> \/ members \in Writes
  BY DEF WriterTyped
<1>3. /\ Len(archive) = DataBegin(i) /\ offset = Taken(i - 1) /\ w_cd_size = 0
      /\ MembersThere(i - 1) /\ Noted(i) /\ IsAt(Taken(i - 1), HeaderOf(i))
  BY <1>1 DEF Stage
<1>4. /\ Piece = data /\ data \in Seq(Units)
      /\ i \in 1..Len(members) /\ Len(members) \in Nat
  BY <1>1, PieceFits DEF Written
<1>5. /\ Longer /\ Len(archive) \in Nat /\ Len(archive)' = Len(archive) + size
      /\ \A p : \A k \in 1..size : p = Len(archive) + (k - 1) => Unit(p)' = data[k]
  BY <1>1, <1>4, Appended DEF WriterTyped
<1>6. /\ DataBegin(i) = Taken(i - 1) + LFH_SIZE + l /\ DataBegin(i) \in Nat
      /\ Taken(i) = DataBegin(i) + size /\ Taken(i) \in Nat /\ size \in Nat
      /\ Taken(i) <= Taken(Len(members)) /\ size < W32 - 1
  BY <1>2, <1>4, PlaceOf
<1>7. \A j : /\ Taken(j)' = Taken(j) /\ HeaderOf(j)' = HeaderOf(j)
             /\ DataBegin(j)' = DataBegin(j)
  BY <1>1, SamePlaces
<1>8. Len(archive)' = Taken(i)
  BY <1>3, <1>5, <1>6
<1>9. offset' = Taken(i)
  <2>1. Size(Member) = size
    <3>1. size < W32
      BY <1>6, WidthAssumption
    <3>2. QED
      BY <1>6, <3>1, Remainder DEF Size, Member
  <2>2. Taken(i) < W32
    <3>1. Taken(Len(members)) < W32 - 1 /\ Taken(Len(members)) \in Nat
      BY <1>2, PlacesFit
    <3>2. QED
      BY <1>6, <3>1, WidthAssumption
  <2>3. offset' = Taken(i) % W32
    BY <1>1, <1>3, <1>6, <2>1
  <2>4. QED
    BY <1>6, <2>2, <2>3, Remainder
<1>10. MemberThere(i)'
  <2>1. IsAt(Taken(i - 1), HeaderOf(i))'
    BY <1>1, <1>2, <1>3, <1>4, <1>5, StillThere, 0 \in 0..Len(members)
  <2>2. (Taken(i) <= Len(archive))'
    BY <1>6, <1>7, <1>8
  <2>3. ASSUME NEW k \in 1..size, NEW p, p = DataBegin(i) + (k - 1)
        PROVE  IsAt(p, data[k])'
    <3>1. Unit(p)' = data[k]
      BY <1>3, <1>5, <2>3
    <3>2. p < Len(archive)'
      <4> HIDE DEF size
      <4>1. p < DataBegin(i) + size
        BY <1>6, <2>3
      <4>2. QED
        BY <1>6, <1>8, <4>1
    <3>3. data[k]' = data[k]
      BY <1>1
    <3>4. QED
      BY <3>1, <3>2, <3>3 DEF IsAt
  <2>4. DataBegin(i)' = DataBegin(i) /\ members'[i].data = members[i].data
    BY <1>1, <1>7
  <2>5. \A k \in 1..Len(members[i].data) :
          (IsAt(DataBegin(i) + (k - 1), members[i].data[k]))'
    BY <2>3, <2>4 DEF IsAt
  <2>6. QED
    BY <2>1, <2>2, <2>4, <2>5 DEF MemberThere
<1>11. MembersThere(i)'
  <2>1. i - 1 \in 0..Len(members) /\ \A j \in 1..i : j = i \/ j \in 1..(i - 1)
    BY <1>4
  <2>2. MembersThere(i - 1)'
    BY <1>1, <1>2, <1>3, <1>5, <2>1, StillThere
  <2>3. QED
    BY <1>10, <2>1, <2>2 DEF MembersThere
<1>12. Noted(i)'
  <2>1. \A j : (Taken(j - 1))' = Taken(j - 1)
    BY <1>1, SamePlaces
  <2>2. QED
    BY <1>1, <1>3, <2>1 DEF Noted
<1>13. next_member' - 1 = i
  BY <1>1, <1>4
<1>14. /\ (Taken(next_member - 1))' = Taken(i)
       /\ (MembersThere(next_member - 1))' /\ (Noted(next_member - 1))'
  <2>1. \A j : Taken(j)' = Taken(j) /\ (j = i => MembersThere(j)' /\ Noted(j)')
    BY <1>7, <1>11, <1>12
  <2>2. QED
    BY <1>13, <2>1 DEF MembersThere, Noted, Taken, LocalBytes
<1>15. QED
  BY <1>1, <1>3, <1>8, <1>9, <1>14 DEF Stage

(* The writer goes on to the directory, and from there to the end record.  *)
LEMMA PhaseEndsStage ==
  ASSUME WriterTyped, Fits, Stage, w_result = "none",
         EntriesWritten \/ RecordsWritten
  PROVE  Stage'
<1> DEFINE n == Len(members)
<1>1. /\ members = <<>> \/ members \in Writes
      /\ next_member \in 1..(n + 1) /\ n \in Nat
  BY MemberFacts DEF WriterTyped
<1>2. /\ ~More /\ UNCHANGED <<archive, members, offset, lh_offsets, w_cd_size, w_result>>
  BY DEF EntriesWritten, RecordsWritten
<1>3. next_member = n + 1 /\ next_member - 1 = n
  BY <1>1, <1>2 DEF More
<1>4. /\ Longer
      /\ Len(archive)' = Len(archive) /\ Len(members)' = n
  <2>1. Len(archive) \in Nat
    BY ArchiveFacts DEF WriterTyped
  <2>2. Len(archive)' = Len(archive) /\ \A p : Unit(p)' = Unit(p)
    BY <1>2, SameSearch
  <2>3. QED
    BY <1>2, <2>1, <2>2 DEF Longer
<1>5. \A i : Taken(i)' = Taken(i) /\ Listed(i)' = Listed(i)
  BY <1>2, SamePlaces
<1>6. /\ (Taken(Len(members)))' = Taken(n) /\ (Listed(Len(members)))' = Listed(n)
      /\ EndPlace' = EndPlace /\ EndPlace = Taken(n) + Listed(n)
      /\ Taken(n) \in Nat /\ Listed(0) = 0
  BY <1>1, <1>2, SamePlaces, PlacesFit DEF Taken, Listed, LocalBytes, RecordBytes
<1>7. MembersThere(n) => (MembersThere(Len(members)))'
  <2>1. n \in 0..Len(members)
    BY <1>1
  <2>2. MembersThere(n) => MembersThere(n)'
    BY <1>1, <1>2, <1>4, <2>1, StillThere
  <2>3. QED
    BY <1>4, <2>2 DEF MembersThere
<1>8. CASE EntriesWritten
  <2>1. w_pc = "entry" /\ w_pc' = "central" /\ next_member' = 1
    BY <1>8 DEF EntriesWritten
  <2>2. /\ Len(archive) = Taken(n) /\ offset = Taken(n) /\ w_cd_size = 0
        /\ MembersThere(n) /\ Noted(n)
    BY <1>3, <2>1 DEF Stage
  <2>3. (Noted(Len(members)))'
    <3>1. \A j : (Taken(j - 1))' = Taken(j - 1)
      BY <1>2, SamePlaces
    <3>2. QED
      BY <1>2, <2>2, <3>1 DEF Noted
  <2>4. (RecordsThere(next_member - 1))'
    <3>1. next_member' - 1 = 0
      BY <2>1
    <3>2. QED
      BY <3>1 DEF RecordsThere
  <2>5. /\ (RecordPlace(next_member))' = Taken(n)
        /\ (Listed(next_member - 1))' = 0
    <3>1. next_member' - 1 = 0
      BY <2>1
    <3>2. (Listed(next_member - 1))' = Listed(0)
      BY <1>2, <3>1 DEF Listed, RecordBytes
    <3>3. Taken(n) + 0 = Taken(n)
      BY <1>6
    <3>4. QED
      BY <1>6, <3>2, <3>3 DEF RecordPlace
  <2>6. QED
    BY <1>2, <1>4, <1>6, <1>7, <2>1, <2>2, <2>3, <2>4, <2>5 DEF Stage
<1>9. CASE RecordsWritten
  <2>1. w_pc = "central" /\ w_pc' = "end"
    BY <1>9 DEF RecordsWritten
  <2>2. /\ Len(archive) = RecordPlace(next_member) /\ offset = Taken(n)
        /\ w_cd_size = Listed(n) /\ MembersThere(n) /\ RecordsThere(n)
    BY <1>3, <2>1 DEF Stage
  <2>3. RecordPlace(next_member) = EndPlace
    BY <1>3, <1>6 DEF RecordPlace
  <2>4. (RecordsThere(Len(members)))'
    <3>1. n \in 0..Len(members)
      BY <1>1
    <3>2. RecordsThere(n)'
      BY <1>1, <1>2, <1>4, <2>2, <3>1, StillThere
    <3>3. QED
      BY <1>4, <3>2 DEF RecordsThere
  <2>5. QED
    BY <1>2, <1>4, <1>6, <1>7, <2>1, <2>2, <2>3, <2>4 DEF Stage
<1>10. QED
  BY <1>8, <1>9

LEMMA WriteCentralStage ==
  ASSUME WriterTyped, Fits, Stage, w_result = "none", WriteCentral
  PROVE  Stage'
<1> SUFFICES ASSUME NEW i, i = next_member PROVE Stage'
  OBVIOUS
<1> DEFINE n == Len(members)
           l == NameBytes[members[i].name]
<1>1. /\ w_pc = "central" /\ More /\ archive' = archive \o Piece
      /\ w_cd_size' = (w_cd_size + CDR_SIZE + l) % W32
      /\ next_member' = i + 1 /\ w_pc' = "central"
      /\ UNCHANGED <<members, offset, lh_offsets, w_result>>
  BY DEF WriteCentral, Member
<1>2. members = <<>> \/ members \in Writes
  BY DEF WriterTyped
<1>3. /\ Len(archive) = RecordPlace(i) /\ offset = Taken(n)
      /\ w_cd_size = Listed(i - 1)
      /\ MembersThere(n) /\ Noted(n) /\ RecordsThere(i - 1)
  BY <1>1 DEF Stage
<1>4. /\ Piece \in Seq(Units) /\ Piece[1] = RecordOf(i) /\ Len(Piece) = RecordBytes(i)
      /\ i \in 1..n /\ n \in Nat
  BY <1>1, PieceFits DEF Written
<1>5. /\ Longer /\ Len(archive) \in Nat /\ Len(archive)' = Len(archive) + Len(Piece)
      /\ \A p : \A k \in 1..Len(Piece) :
           p = Len(archive) + (k - 1) => Unit(p)' = Piece[k]
  BY <1>1, <1>4, Appended DEF WriterTyped
<1>6. /\ RecordPlace(i) \in Nat /\ Listed(i - 1) \in Nat /\ Listed(i) \in Nat
      /\ Listed(i) = Listed(i - 1) + CDR_SIZE + l /\ Listed(i) <= Listed(n)
      /\ RecordPlace(i) + RecordBytes(i) = Taken(n) + Listed(i)
      /\ RecordBytes(i) \in Nat \ {0}
  BY <1>2, <1>4, PlaceOf, PlaceFacts
<1>7. /\ \A j : /\ Taken(j)' = Taken(j) /\ Listed(j)' = Listed(j)
                /\ RecordPlace(j)' = RecordPlace(j) /\ RecordOf(j)' = RecordOf(j)
      /\ (Taken(Len(members)))' = Taken(n)
  BY <1>1, SamePlaces DEF Taken, LocalBytes
<1>8. Len(archive)' = Taken(n) + Listed(i)
  BY <1>3, <1>4, <1>5, <1>6
<1>9. w_cd_size' = Listed(i)
  <2>1. Listed(i) < W32
    <3>1. Listed(n) < W32 - 1 /\ Listed(n) \in Nat
      BY <1>2, PlacesFit
    <3>2. QED
      BY <1>6, <3>1, WidthAssumption
  <2>2. w_cd_size' = Listed(i) % W32
    BY <1>1, <1>3, <1>6
  <2>3. QED
    BY <1>6, <2>1, <2>2, Remainder
<1>10. (IsAt(RecordPlace(i), RecordOf(i)))'
  <2>1. ASSUME NEW p, p = RecordPlace(i) PROVE (IsAt(RecordPlace(i), RecordOf(i)))'
    <3>1. 1 \in 1..Len(Piece) /\ p = Len(archive) + (1 - 1)
      BY <1>3, <1>4, <1>5, <1>6, <2>1
    <3>2. Unit(p)' = RecordOf(i)
      BY <1>4, <1>5, <3>1
    <3>3. p < Len(archive)'
      BY <1>3, <1>4, <1>5, <1>6, <2>1
    <3>4. (RecordPlace(i))' = p /\ RecordOf(i)' = RecordOf(i)
      BY <1>7, <2>1
    <3>5. QED
      BY <3>2, <3>3, <3>4 DEF IsAt
  <2>2. QED
    BY <2>1
<1>11. /\ (MembersThere(Len(members)))' /\ (RecordsThere(i - 1))'
  <2>1. n \in 0..Len(members) /\ i - 1 \in 0..Len(members)
    BY <1>4
  <2>2. MembersThere(n)' /\ (RecordsThere(i - 1))'
    BY <1>1, <1>2, <1>3, <1>5, <2>1, StillThere
  <2>3. Len(members)' = n
    BY <1>1
  <2>4. QED
    BY <2>2, <2>3 DEF MembersThere
<1>12. (Noted(Len(members)))'
  <2>1. \A j : (Taken(j - 1))' = Taken(j - 1)
    BY <1>1, SamePlaces
  <2>2. QED
    BY <1>1, <1>3, <2>1 DEF Noted
<1>13. next_member' - 1 = i /\ \A j \in 1..i : j = i \/ j \in 1..(i - 1)
  BY <1>1, <1>4
<1>14. (RecordsThere(next_member - 1))'
  <2>1. \A j \in 1..i : (IsAt(RecordPlace(j), RecordOf(j)))'
    BY <1>10, <1>11, <1>13 DEF RecordsThere
  <2>2. QED
    BY <1>13, <2>1 DEF RecordsThere
<1>15. /\ (RecordPlace(next_member))' = Taken(n) + Listed(i)
       /\ (Listed(next_member - 1))' = Listed(i)
  <2>1. (Listed(next_member - 1))' = Listed(i)
    BY <1>1, <1>13 DEF Listed, RecordBytes
  <2>2. QED
    BY <1>7, <2>1 DEF RecordPlace
<1>16. QED
  BY <1>1, <1>3, <1>7, <1>8, <1>9, <1>11, <1>12, <1>14, <1>15 DEF Stage

LEMMA WriteEndCompletes ==
  ASSUME WriterTyped, Fits, Stage, WriteEnd
  PROVE  Stage'
<1> DEFINE n == Len(members)
           m == Len(archive)
<1>1. /\ w_pc = "end" /\ archive' = archive \o Piece
      /\ w_pc' = "done" /\ members' = members
  BY DEF WriteEnd
<1>2. members = <<>> \/ members \in Writes
  BY DEF WriterTyped
<1>3. m = EndPlace /\ MembersThere(n) /\ RecordsThere(n)
  BY <1>1 DEF Stage
<1>4. /\ Piece \in Seq(Units) /\ n \in Nat
      /\ Piece[1] = OwnEnd /\ Len(Piece) = EOCD_MIN_SIZE
      /\ \A k \in 2..EOCD_MIN_SIZE : Piece[k] = Byte
  BY <1>1, PieceFits DEF Written
<1>5. /\ Longer /\ m \in Nat /\ Len(archive)' = m + EOCD_MIN_SIZE
      /\ \A p : \A k \in 1..EOCD_MIN_SIZE : p = m + (k - 1) => Unit(p)' = Piece[k]
  BY <1>1, <1>4, Appended DEF WriterTyped
<1>6. EndPlace' = EndPlace /\ OwnEnd' = OwnEnd
  BY <1>1, SamePlaces
<1>7. /\ (MembersThere(Len(members)))' /\ (RecordsThere(Len(members)))'
  <2>1. n \in 0..Len(members)
    BY <1>4
  <2>2. MembersThere(n)' /\ RecordsThere(n)'
    BY <1>1, <1>2, <1>3, <1>5, <2>1, StillThere
  <2>3. Len(members)' = n
    BY <1>1
  <2>4. QED
    BY <2>2, <2>3 DEF MembersThere, RecordsThere
<1>8. EOCD_MIN_SIZE \in Nat \ {0, 1}
  BY SizesAssumption
<1>9. (IsAt(EndPlace, OwnEnd))'
  <2>1. ASSUME NEW p, p = EndPlace PROVE (IsAt(EndPlace, OwnEnd))'
    <3>1. 1 \in 1..EOCD_MIN_SIZE /\ p = m + (1 - 1) /\ p < m + EOCD_MIN_SIZE
      BY <1>3, <1>5, <1>8, <2>1
    <3>2. Unit(p)' = OwnEnd /\ p < Len(archive)'
      BY <1>4, <1>5, <3>1
    <3>3. QED
      BY <1>6, <2>1, <3>2 DEF IsAt
  <2>2. QED
    BY <2>1
<1>10. ASSUME NEW p \in (m + 1)..(m + EOCD_MIN_SIZE - 1) PROVE Unit(p)' = Byte
  <2>1. /\ (p - m) + 1 \in 2..EOCD_MIN_SIZE /\ (p - m) + 1 \in 1..EOCD_MIN_SIZE
        /\ p = m + (((p - m) + 1) - 1)
    BY <1>5, <1>8
  <2>2. QED
    BY <1>4, <1>5, <2>1
<1>11. Complete'
  <2> HIDE DEF m
  <2>1. /\ EndPlace' = m /\ Len(archive)' = EndPlace' + EOCD_MIN_SIZE
        /\ Len(archive)' - 1 = m + EOCD_MIN_SIZE - 1
    BY <1>3, <1>5, <1>6, <1>8
  <2>2. \A p \in (EndPlace' + 1)..(Len(archive)' - 1) : Unit(p)' = Byte
    BY <1>10, <2>1
  <2>3. QED
    BY <1>7, <1>9, <2>1, <2>2 DEF Complete, Byte
<1>12. QED
  BY <1>1, <1>11 DEF Stage

(* The reader that has not begun.                                          *)
LEMMA ReadingBegins ==
  ASSUME members = <<>> \/ members \in Writes, InitReader PROVE Reading
<1>1. Found = 0
  BY EmptySeq DEF InitReader, Found
<1>2. QED
  BY <1>1, MemberFacts DEF InitReader, Reading

LEMMA WriterKeepsOrder ==
  ASSUME WriterTyped, EndIsCut, OwnInv, ~Written, WriterNext, UNCHANGED readerVars
  PROVE  OwnInv'
<1>1. members' = members
  BY DEF WriterNext, WriteLocal, WriteData, EntriesWritten, WriteCentral,
     RecordsWritten, WriteEnd, WriteFails
<1>2. (Fits' <=> Fits) /\ w_result = "none"
  BY <1>1, SamePlaces DEF EndIsCut
<1>3. SUFFICES ASSUME Fits PROVE Stage' /\ (w_result' = "Ok" => Reading')
  BY <1>2 DEF OwnInv
<1>4. CASE WriteEnd
  <2>1. WriterTyped'
    BY WriterKeepsTypes
  <2>2. (members = <<>> \/ members \in Writes)' /\ InitReader'
    BY <2>1 DEF WriterTyped, InitReader, readerVars, endVars, treeVars
  <2>3. Reading'
    BY <2>2, ReadingBegins, PTL
  <2>4. QED
    BY <1>3, <1>4, <2>3, WriteEndCompletes DEF OwnInv
<1>5. CASE WriteFails
  BY <1>5 DEF WriteFails, Stage
<1>6. CASE ~WriteEnd /\ ~WriteFails
  <2>1. w_result' = "none"
    BY <1>2, <1>6 DEF WriterNext, WriteLocal, WriteData, EntriesWritten,
       WriteCentral, RecordsWritten
  <2>2. QED
    BY <1>2, <1>3, <1>6, <2>1, WriteLocalStage, WriteDataStage, PhaseEndsStage,
       WriteCentralStage DEF OwnInv, WriterNext
<1>7. QED
  BY <1>4, <1>5, <1>6

(* The reader finds the end record that was written: no byte behind it is  *)
(* a signature, and none of its fields says "see the 64-bit record".       *)
LEMMA OwnEndFound ==
  ASSUME members = <<>> \/ members \in Writes, archive \in Seq(Units), Fits, Complete
  PROVE  /\ HasEnd /\ Unit(Max(Signatures)) = OwnEnd /\ ~IsZip64(OwnEnd)
         /\ OwnEnd.cd_offset = Taken(Len(members))
         /\ OwnEnd.cd_size = Listed(Len(members))
         /\ Taken(Len(members)) + Listed(Len(members)) <= Len(archive)
<1> DEFINE n == Len(members)
           e == EndPlace
           last == Max(Signatures)
<1>1. /\ n \in Nat /\ n < W16 - 1
      /\ Taken(n) \in Nat /\ Taken(n) < W32 - 1
      /\ Listed(n) \in Nat /\ Listed(n) < W32 - 1
      /\ e \in Nat /\ e = Taken(n) + Listed(n)
  BY PlacesFit
<1>2. /\ EOCD_MIN_SIZE \in Nat \ {0, 1} /\ W16 \in Nat \ {0} /\ W32 \in Nat \ {0}
      /\ SIG_SIZE \in Nat /\ SIG_SIZE <= EOCD_MIN_SIZE
  BY SizesAssumption, WidthAssumption
<1>3. /\ OwnEnd.kind = "EOCD" /\ OwnEnd.total = n
      /\ OwnEnd.cd_size = Listed(n) /\ OwnEnd.cd_offset = Taken(n)
  BY DEF OwnEnd, EndRecord
<1>4. ~IsZip64(OwnEnd)
  BY <1>1, <1>2, <1>3 DEF IsZip64
<1> HIDE DEF n
<1>5. /\ Len(archive) = e + EOCD_MIN_SIZE /\ Unit(e) = OwnEnd
      /\ \A p \in (e + 1)..(Len(archive) - 1) : Unit(p) = Byte
  BY DEF Complete, IsAt
<1> HIDE DEF e
<1>6. e \in Signatures
  <2>1. /\ e \in 0..(Len(archive) - 1) /\ e >= Len(archive) - MAX_EOCD_SEARCH
        /\ e + SIG_SIZE <= Len(archive)
    BY <1>1, <1>2, <1>5 DEF MAX_EOCD_SEARCH
  <2>2. QED
    BY <1>3, <1>5, <2>1 DEF Signatures, Window
<1>7. /\ last \in Nat /\ last < Len(archive) /\ Unit(last).kind = "EOCD"
      /\ e <= last
  BY <1>6, SignatureFacts
<1> HIDE DEF last
<1>8. last = e
  <2> SUFFICES ASSUME last # e PROVE FALSE
    OBVIOUS
  <2>1. last \in (e + 1)..(Len(archive) - 1)
    BY <1>1, <1>2, <1>5, <1>7
  <2>2. Unit(last) = Byte
    BY <1>5, <2>1
  <2>3. QED
    BY <1>7, <2>2 DEF Byte
<1>9. HasEnd
  <2>1. Len(archive) >= EOCD_MIN_SIZE /\ e + EOCD_MIN_SIZE <= Len(archive)
    BY <1>1, <1>2, <1>5
  <2>2. QED
    BY <1>6, <1>8, <2>1 DEF HasEnd, last
<1>10. e <= Len(archive)
  BY <1>1, <1>2, <1>5
<1>11. QED
  BY <1>1, <1>3, <1>4, <1>5, <1>8, <1>9, <1>10 DEF last, n

(* What the reader stands before.                                          *)
LEMMA NextListed ==
  ASSUME WriterTyped, ReaderTyped, Fits, Complete, Reading, pc = "list"
  PROVE  LET i == Found + 1
         IN  /\ Found \in Nat /\ pos = Listed(Found)
             /\ Found = Len(members) => ~AtRecord
             /\ Found # Len(members) =>
                  /\ i \in 1..Len(members) /\ AtRecord /\ FitsName
                  /\ Record = RecordOf(i) /\ NameEnd(pos) = Listed(i)
<1> DEFINE n == Len(members)
           i == Found + 1
<1>1. /\ members = <<>> \/ members \in Writes
      /\ Found \in Nat /\ Found <= n /\ pos = Listed(Found) /\ n \in Nat
      /\ cd_offset = Taken(n) /\ cd_size = Listed(n)
  BY MemberFacts, LenProperties DEF WriterTyped, ReaderTyped, Reading, Found
<1>2. CASE Found = n
  <2>1. ~(pos + SIG_SIZE <= cd_size)
    BY <1>1, <1>2, PlacesFit, SizesAssumption
  <2>2. QED
    BY <1>1, <1>2, <2>1 DEF AtRecord
<1>3. CASE Found # n
  <2>1. i \in 1..n /\ i - 1 = Found
    BY <1>1, <1>3
  <2> HIDE DEF i
  <2> DEFINE l == NameBytes[members[i].name]
  <2>2. /\ Listed(i - 1) \in Nat /\ Listed(i) \in Nat
        /\ Listed(i) = Listed(i - 1) + CDR_SIZE + l /\ Listed(i) <= Listed(n)
        /\ l \in Nat /\ RecordPlace(i) = Taken(n) + Listed(i - 1)
        /\ CDR_SIZE \in Nat \ {0} /\ Listed(n) \in Nat
    BY <1>1, <2>1, PlaceOf, PlaceFacts, PlacesFit
  <2>3. Unit(RecordPlace(i)) = RecordOf(i)
    BY <2>1 DEF Complete, RecordsThere, IsAt
  <2>4. cd_offset + pos = RecordPlace(i)
    BY <1>1, <2>1, <2>2
  <2>5. Record = RecordOf(i)
    BY <2>3, <2>4 DEF Record
  <2>6. RecordOf(i).kind = "CDR" /\ RecordOf(i).name = members[i].name
    BY DEF RecordOf, CentralRecord
  <2>7. NameEnd(pos) = Listed(i)
    <3>1. NameEnd(pos) = pos + CDR_SIZE + l
      BY <2>3, <2>4, <2>6 DEF NameEnd
    <3>2. QED
      BY <1>1, <2>1, <2>2, <3>1
  <2> HIDE DEF l
  <2>8. /\ pos + CDR_SIZE <= cd_size /\ Listed(i) <= cd_size
        /\ pos + SIG_SIZE <= cd_size
    <3>1. SIG_SIZE \in Nat /\ SIG_SIZE <= CDR_SIZE
      BY SizesAssumption
    <3>2. QED
      BY <1>1, <2>1, <2>2, <3>1
  <2>9. QED
    BY <1>1, <1>3, <2>1, <2>5, <2>6, <2>7, <2>8 DEF AtRecord, FitsName, i
<1>4. QED
  BY <1>2, <1>3

LEMMA SameReading ==
  ASSUME Reading, members' = members, entries' = entries,
         pc' \notin {"locate", "wide"},
         result' \notin {"NotZip", "BadCentralDirectory"},
         pc' \notin {"search", "done"} =>
           cd_offset' = Taken(Len(members)) /\ cd_size' = Listed(Len(members)),
         pc' \in {"search", "load"} => Found = 0 /\ pos' = 0,
         pc' = "list" => pos' = Listed(Found),
         pc' \in {"build", "done"} /\ result' # "Io" => Found = Len(members)
  PROVE  Reading'
<1>1. \A i : /\ Taken(i)' = Taken(i) /\ Listed(i)' = Listed(i)
             /\ Expected(i)' = Expected(i)
  BY SamePlaces
<1>2. /\ (Taken(Len(members)))' = Taken(Len(members))
      /\ (Listed(Len(members)))' = Listed(Len(members))
      /\ Found' = Found /\ (Listed(Found))' = Listed(Found)
  BY DEF Taken, Listed, LocalBytes, RecordBytes, Found
<1>3. QED
  BY <1>1, <1>2 DEF Reading

LEMMA ListRecordExpected ==
  ASSUME WriterTyped, ReaderTyped, Fits, Complete, Reading, ListRecord
  PROVE  LET i == Found + 1
         IN  /\ i \in 1..Len(members) /\ Found \in Nat
             /\ entries' = Append(entries, Expected(i)) /\ pos' = Listed(i)
             /\ pc = "list"
             /\ UNCHANGED <<archive, pc, cd_offset, cd_size, result>>
<1> DEFINE i == Found + 1
           name == members[i].name
           size == Len(members[i].data)
           at == Taken(i - 1)
<1>1. /\ AtRecord /\ pc = "list"
      /\ entries' = Append(entries, EntryOf(Record)) /\ pos' = NextRecord(Record)
      /\ UNCHANGED <<archive, pc, cd_offset, cd_size, result>>
  BY DEF ListRecord, AtRecord, endVars
<1>2. /\ i \in 1..Len(members) /\ Found \in Nat
      /\ Record = RecordOf(i) /\ NameEnd(pos) = Listed(i)
  BY <1>1, NextListed
<1>3. /\ size \in Nat /\ size < W32 - 1 /\ at \in Nat /\ at < W32 - 1
      /\ Listed(i) \in Nat
  BY <1>2, PlaceOf DEF WriterTyped
<1> HIDE DEF i
<1>4. /\ Record.name = name /\ Record.stored = TRUE /\ Record.encrypted = FALSE
      /\ Record.comp = size /\ Record.uncomp = size /\ Record.offset = at
      /\ Record.extra_len = 0 /\ Record.comment_len = 0
  BY <1>2 DEF RecordOf, CentralRecord
<1>5. Full(size) = 0 /\ Full(at) = 0
  BY <1>3, WidthAssumption DEF Full
<1>6. EntryOf(Record) = Expected(i)
  <2>1. \A wide : \A k : Widened(size, wide, k) = size /\ Widened(at, wide, k) = at
    BY <1>5 DEF Widened
  <2> HIDE DEF size, at, name
  <2>2. EntryOf(Record) =
          [ name |-> name, stored |-> TRUE, is_encrypted |-> FALSE,
            uncompressed_size |-> size, local_header_offset |-> at ]
    BY <1>4, <2>1 DEF EntryOf
  <2>3. QED
    BY <2>2 DEF Expected, name, size, at
<1>7. pos' = Listed(i)
  <2>1. NextRecord(Record) = Listed(i) + 0 + 0
    BY <1>2, <1>4 DEF NextRecord
  <2>2. QED
    BY <1>1, <1>3, <2>1
<1>8. QED
  BY <1>1, <1>2, <1>6, <1>7 DEF i

LEMMA ListRecordReads ==
  ASSUME WriterTyped, ReaderTyped, Fits, Complete, Reading, ListRecord,
         members' = members
  PROVE  Reading'
<1> SUFFICES ASSUME NEW i, i = Found + 1 PROVE Reading'
  OBVIOUS
<1>1. /\ i \in 1..Len(members) /\ Found \in Nat
      /\ entries' = Append(entries, Expected(i)) /\ pos' = Listed(i)
      /\ pc = "list" /\ UNCHANGED <<archive, pc, cd_offset, cd_size, result>>
  BY ListRecordExpected
<1>2. \A j \in 1..Found : entries[j] = Expected(j)
  BY DEF Reading
<1>3. entries \in Seq(Entry)
  BY DEF ReaderTyped
<1>4. Expected(i) \in Entry
  <2>1. /\ members[i].name \in Name /\ Len(members[i].data) \in Nat
        /\ Taken(i - 1) \in Nat
    BY <1>1, PlaceOf DEF WriterTyped
  <2> HIDE DEF Name
  <2>2. QED
    BY <2>1 DEF Expected, Entry
<1>5. /\ Found' = i /\ entries'[i] = Expected(i)
      /\ \A j \in 1..Found : entries'[j] = entries[j]
  <2> HIDE DEF Entry
  <2>1. QED
    BY <1>1, <1>3, <1>4, AppendProperties DEF Found
<1>6. \A j : Expected(j)' = Expected(j) /\ Listed(j)' = Listed(j)
  BY SamePlaces
<1>7. \A j \in 1..i : j = i \/ j \in 1..Found
  BY <1>1
<1>8. \A j \in 1..Found' : entries'[j] = Expected(j)'
  BY <1>2, <1>5, <1>6, <1>7
<1>9. /\ (Taken(Len(members)))' = Taken(Len(members))
      /\ (Listed(Len(members)))' = Listed(Len(members))
      /\ (Listed(Found))' = Listed(i)
  BY <1>5 DEF Taken, Listed, LocalBytes, RecordBytes
<1>10. i <= Len(members) /\ Len(members)' = Len(members)
  BY <1>1, MemberFacts DEF WriterTyped
<1>11. QED
  BY <1>1, <1>5, <1>8, <1>9, <1>10 DEF Reading

LEMMA ReaderKeepsReading ==
  ASSUME WriterTyped, ReaderTyped, Fits, Complete, Reading, Next,
         members' = members
  PROVE  Reading'
<1>1. /\ members = <<>> \/ members \in Writes
      /\ archive \in Seq(Units)
  BY DEF WriterTyped
<1>2. /\ HasEnd /\ Unit(Max(Signatures)) = OwnEnd /\ ~IsZip64(OwnEnd)
      /\ OwnEnd.cd_offset = Taken(Len(members))
      /\ OwnEnd.cd_size = Listed(Len(members))
      /\ Taken(Len(members)) + Listed(Len(members)) <= Len(archive)
  BY <1>1, OwnEndFound
<1>3. pc # "done" => result = "none"
  BY DEF ReaderTyped
<1>4. CASE FindEnd
  <2>1. /\ pc = "search" /\ pc' = "load"
        /\ cd_offset' = Taken(Len(members)) /\ cd_size' = Listed(Len(members))
        /\ UNCHANGED <<pos, entries, result>>
    BY <1>2, <1>4 DEF FindEnd
  <2>2. Found = 0 /\ pos = 0 /\ result' = "none"
    BY <1>3, <2>1 DEF Reading
  <2>3. QED
    BY <2>1, <2>2, SameReading
<1>5. CASE NoEnd \/ FindLocator \/ NoLocator \/ ReadEnd64 \/ NoEnd64
  BY <1>2, <1>5 DEF NoEnd, FindLocator, NoLocator, ReadEnd64, NoEnd64, Reading
<1>6. CASE LoadDirectory
  <2>1. /\ pc = "load" /\ pc' = "list"
        /\ UNCHANGED <<cd_offset, cd_size, pos, entries, result>>
    BY <1>6 DEF LoadDirectory, endVars
  <2>2. /\ Found = 0 /\ pos = 0 /\ Listed(0) = 0 /\ result = "none"
        /\ cd_offset = Taken(Len(members)) /\ cd_size = Listed(Len(members))
    BY <1>1, <1>3, <2>1, PlacesFit DEF Reading
  <2>3. QED
    BY <2>1, <2>2, SameReading
<1>7. CASE DirectoryOutside
  <2>1. /\ pc = "load" /\ cd_offset + cd_size > Len(archive)
    BY <1>7 DEF DirectoryOutside
  <2>2. cd_offset = Taken(Len(members)) /\ cd_size = Listed(Len(members))
    BY <2>1 DEF Reading
  <2>3. Taken(Len(members)) + Listed(Len(members)) \in Nat /\ Len(archive) \in Nat
    BY <1>1, PlacesFit, ArchiveFacts
  <2>4. QED
    BY <1>2, <2>1, <2>2, <2>3
<1>8. CASE ReadFails
  <2>1. pc' = "done" /\ result' = "Io" /\ UNCHANGED <<pos, entries>>
    BY <1>8 DEF ReadFails, Fail, Stop
  <2>2. QED
    BY <2>1, SameReading
<1>9. CASE ListRecord
  BY <1>9, ListRecordReads
<1>10. CASE RecordCutOff
  <2>1. AtRecord /\ ~FitsName /\ pc = "list"
    BY <1>10 DEF RecordCutOff, AtRecord
  <2>2. QED
    BY <2>1, NextListed
<1>11. CASE DirectoryEnds
  <2>1. /\ pc = "list" /\ ~AtRecord /\ pc' = "build"
        /\ UNCHANGED <<cd_offset, cd_size, pos, entries, result>>
    BY <1>11 DEF DirectoryEnds, endVars
  <2>2. Found = Len(members)
    BY <2>1, NextListed
  <2>3. /\ result = "none"
        /\ cd_offset = Taken(Len(members)) /\ cd_size = Listed(Len(members))
    BY <1>3, <2>1 DEF Reading
  <2>4. QED
    BY <2>1, <2>2, <2>3, SameReading
<1>12. CASE BuildNode \/ Attach
  <2>1. /\ pc = "build" /\ pc' \in {"build", "done"} /\ result' \in {result, "Ok"}
        /\ UNCHANGED <<cd_offset, cd_size, pos, entries>>
    BY <1>12 DEF BuildNode, Attach, Stop, endVars
  <2>2. /\ result = "none" /\ Found = Len(members)
        /\ cd_offset = Taken(Len(members)) /\ cd_size = Listed(Len(members))
    BY <1>3, <2>1 DEF Reading
  <2>3. QED
    BY <2>1, <2>2, SameReading
<1>13. QED
  BY <1>4, <1>5, <1>6, <1>7, <1>8, <1>9, <1>10, <1>11, <1>12 DEF Next

(* A step of the reader leaves the archive, and so what is there.          *)
LEMMA SameStage ==
  ASSUME UNCHANGED <<archive, writerVars>>
  PROVE  Stage' <=> Stage
<1>1. /\ members' = members /\ w_pc' = w_pc /\ next_member' = next_member
      /\ offset' = offset /\ lh_offsets' = lh_offsets /\ w_cd_size' = w_cd_size
      /\ w_result' = w_result /\ archive' = archive
  BY DEF writerVars
<1>2. /\ EndPlace' = EndPlace /\ OwnEnd' = OwnEnd
      /\ \A i : /\ HeaderOf(i)' = HeaderOf(i) /\ DataBegin(i)' = DataBegin(i)
                /\ RecordPlace(i)' = RecordPlace(i) /\ RecordOf(i)' = RecordOf(i)
                /\ Taken(i)' = Taken(i) /\ (Taken(i - 1))' = Taken(i - 1)
  BY <1>1, SamePlaces DEF Taken, LocalBytes
<1>3. /\ (Taken(next_member - 1))' = Taken(next_member - 1)
      /\ (Taken(Len(members)))' = Taken(Len(members))
      /\ (Listed(next_member - 1))' = Listed(next_member - 1)
      /\ (Listed(Len(members)))' = Listed(Len(members))
      /\ (DataBegin(next_member))' = DataBegin(next_member)
      /\ (RecordPlace(next_member))' = RecordPlace(next_member)
      /\ (HeaderOf(next_member))' = HeaderOf(next_member)
  BY <1>1 DEF Taken, Listed, LocalBytes, RecordBytes, DataBegin, RecordPlace,
     HeaderOf
<1>4. \A p, unit : IsAt(p, unit)' <=> IsAt(p, unit)
  BY <1>1 DEF IsAt, Unit
<1>5. \A i : MemberThere(i)' <=> MemberThere(i)
  BY <1>1, <1>2 DEF MemberThere, IsAt, Unit
<1>6. \A n : /\ MembersThere(n)' <=> MembersThere(n)
             /\ RecordsThere(n)' <=> RecordsThere(n)
             /\ Noted(n)' <=> Noted(n)
  BY <1>1, <1>2, <1>5 DEF MembersThere, RecordsThere, Noted, IsAt, Unit
<1>7. /\ (MembersThere(next_member - 1))' <=> MembersThere(next_member - 1)
      /\ (MembersThere(Len(members)))' <=> MembersThere(Len(members))
      /\ (RecordsThere(next_member - 1))' <=> RecordsThere(next_member - 1)
      /\ (RecordsThere(Len(members)))' <=> RecordsThere(Len(members))
      /\ (Noted(next_member - 1))' <=> Noted(next_member - 1)
      /\ (Noted(next_member))' <=> Noted(next_member)
      /\ (Noted(Len(members)))' <=> Noted(Len(members))
  BY <1>1, <1>2, <1>5 DEF MembersThere, RecordsThere, Noted, IsAt, Unit
<1>8. Complete' <=> Complete
  BY <1>1, <1>2, <1>7 DEF Complete, IsAt, Unit
<1>9. (IsAt(Taken(next_member - 1), HeaderOf(next_member)))'
        <=> IsAt(Taken(next_member - 1), HeaderOf(next_member))
  BY <1>1, <1>3 DEF IsAt, Unit
<1>10. QED
  BY <1>1, <1>2, <1>3, <1>7, <1>8, <1>9 DEF Stage

(* A piece is what lies between its ends.                                  *)
LEMMA Between ==
  ASSUME NEW s \in Seq(Units), NEW t \in Seq(Units), NEW from \in Nat,
         from + Len(t) <= Len(s), \A k \in 1..Len(t) : s[from + k] = t[k]
  PROVE  SubSeq(s, from + 1, from + Len(t)) = t
<1> DEFINE l == Len(t)
           piece == SubSeq(s, from + 1, from + l)
<1>1. l \in Nat /\ Len(s) \in Nat
  BY LenProperties
<1>2. \A x \in (from + 1)..(from + l) : s[x] \in Units
  <2>1. \A x \in (from + 1)..(from + l) : x \in 1..Len(s)
    BY <1>1
  <2> HIDE DEF Units
  <2>2. QED
    BY <2>1, ElementOfSeq
<1> HIDE DEF l
<1>3. /\ piece \in Seq(Units)
      /\ Len(piece) = IF from + 1 <= from + l THEN (from + l) - (from + 1) + 1 ELSE 0
      /\ \A x \in 1..((from + l) - (from + 1) + 1) :
           piece[x] = s[(from + 1) + x - 1]
  <2>1. from + 1 \in Int /\ from + l \in Int
    BY <1>1
  <2> HIDE DEF Units
  <2>2. QED
    BY <1>2, <2>1, SubSeqProperties
<1> HIDE DEF piece
<1>4. Len(piece) = l
  BY <1>1, <1>3
<1>5. ASSUME NEW x \in 1..l PROVE piece[x] = t[x]
  <2>1. /\ x \in 1..((from + l) - (from + 1) + 1)
        /\ (from + 1) + x - 1 = from + x
    BY <1>1
  <2>2. QED
    BY <1>3, <2>1 DEF l
<1>6. piece = t
  <2>1. Len(t) = l
    BY DEF l
  <2> HIDE DEF Units
  <2>2. QED
    BY <1>3, <1>4, <1>5, <2>1, SeqEqual
<1>7. QED
  BY <1>6 DEF piece, l

LEMMA MemberIsListed ==
  ASSUME WriterTyped, Fits, Complete, Reading, NEW i \in 1..Found
  PROVE  EntryIsMember(i)
<1> DEFINE data == members[i].data
           l == NameBytes[members[i].name]
           size == Len(data)
           at == Taken(i - 1)
           begin == at + LFH_SIZE + l
<1>1. i \in 1..Len(members)
  BY MemberFacts DEF WriterTyped, Reading, Found
<1>2. /\ entries[i].name = members[i].name /\ entries[i].stored = TRUE
      /\ entries[i].is_encrypted = FALSE
      /\ entries[i].uncompressed_size = size
      /\ entries[i].local_header_offset = at
  <2>1. entries[i] = Expected(i)
    BY DEF Reading
  <2>2. QED
    BY <2>1 DEF Expected
<1>3. /\ DataBegin(i) = begin /\ begin \in Nat /\ at \in Nat /\ size \in Nat
      /\ Taken(i) = begin + size /\ Taken(i) \in Nat /\ l \in Nat
      /\ LFH_SIZE \in Nat \ {0}
  BY <1>1, PlaceOf, PlaceFacts DEF WriterTyped
<1>4. /\ Unit(at) = HeaderOf(i) /\ Taken(i) <= Len(archive)
      /\ \A k \in 1..size : Unit(begin + (k - 1)) = data[k]
  BY <1>1, <1>3 DEF Complete, MembersThere, MemberThere, IsAt
<1>5. archive \in Seq(Units) /\ data \in Seq(Units) /\ Len(archive) \in Nat
  BY <1>1, MemberFacts, ArchiveFacts DEF WriterTyped
<1>6. local_data_offset(at) = begin
  <2>1. /\ Unit(at).kind = "LFH" /\ Unit(at).encrypted = FALSE
        /\ Unit(at).name_len = l /\ Unit(at).extra_len = 0
    BY <1>4 DEF HeaderOf, LocalHeader
  <2>2. at + LFH_SIZE <= Len(archive) /\ at + LFH_SIZE + l + 0 = begin
    <3> HIDE DEF at, l, size
    <3>1. QED
      BY <1>3, <1>4, <1>5
  <2>3. QED
    BY <2>1, <2>2 DEF local_data_offset, HasAt
<1> HIDE DEF data, at, begin
<1>7. \A k \in 1..size : archive[begin + k] = data[k]
  <2>1. \A k \in 1..size : (begin + (k - 1)) + 1 = begin + k
    BY <1>3
  <2>2. QED
    BY <1>4, <2>1 DEF Unit
<1>8. SubSeq(archive, begin + 1, begin + size) = data
  <2>1. begin + Len(data) <= Len(archive)
    BY <1>3, <1>4
  <2> HIDE DEF Units
  <2>2. QED
    BY <1>3, <1>5, <1>7, <2>1, Between
<1>9. QED
  BY <1>2, <1>6, <1>8 DEF EntryIsMember, IsReadable, data, at, begin

LEMMA OrderImplies ==
  ASSUME WriterTyped, ReaderTyped, OwnInv PROVE ReadsBackInOrder
<1> SUFFICES ASSUME w_result = "Ok", Fits
             PROVE  /\ Len(entries) <= Len(members)
                    /\ \A i \in DOMAIN entries : EntryIsMember(i)
                    /\ pc \in {"build", "done"} /\ result # "Io" =>
                         Len(entries) = Len(members) /\ result \in {"none", "Ok"}
  BY DEF ReadsBackInOrder
<1>1. Complete /\ Reading
  BY DEF OwnInv, Stage
<1>2. DOMAIN entries = 1..Found
  BY LenProperties DEF ReaderTyped, Found
<1>3. \A i \in DOMAIN entries : EntryIsMember(i)
  BY <1>1, <1>2, MemberIsListed
<1>4. QED
  BY <1>1, <1>3 DEF Reading, ReaderTyped, Found

LEMMA InitOrder == RoundTripInit => OwnInv
<1> SUFFICES ASSUME RoundTripInit PROVE OwnInv
  OBVIOUS
<1>1. w_result = "none" /\ WriterTyped
  BY InitInv DEF RoundTripInit, InitWriter, Foreign, Inv
<1>2. CASE w_pc = "done"
  BY <1>1, <1>2 DEF OwnInv, Stage
<1>3. CASE w_pc # "done"
  <2>1. /\ archive = <<>> /\ w_pc = "entry" /\ next_member = 1 /\ offset = 0
        /\ w_cd_size = 0
    BY <1>3 DEF RoundTripInit, InitWriter, Foreign
  <2>2. next_member - 1 = 0 /\ Len(archive) = 0
    BY <2>1, EmptySeq
  <2>3. Fits => Taken(0) = 0
    BY <1>1, PlacesFit DEF WriterTyped
  <2>4. MembersThere(0) /\ Noted(0)
    BY DEF MembersThere, Noted
  <2>5. QED
    BY <1>1, <2>1, <2>2, <2>3, <2>4 DEF OwnInv, Stage
<1>4. QED
  BY <1>2, <1>3

LEMMA NextOrder ==
  ASSUME Inv, EndIsCut, OwnInv, [RoundTripNext]_allVars
  PROVE  OwnInv'
<1>1. CASE ~Written /\ WriterNext /\ UNCHANGED readerVars
  BY <1>1, WriterKeepsOrder DEF Inv
<1>2. CASE Written /\ Next /\ UNCHANGED writerVars
  <2>1. archive' = archive /\ members' = members /\ w_result' = w_result
    BY <1>2 DEF writerVars, Next, FindEnd, NoEnd, FindLocator, NoLocator,
       ReadEnd64, NoEnd64, LoadDirectory, DirectoryOutside, ReadFails,
       ListRecord, RecordCutOff, DirectoryEnds, BuildNode, Attach, Fail
  <2>2. (Fits' <=> Fits) /\ (Stage' <=> Stage)
    BY <1>2, <2>1, SamePlaces, SameStage
  <2>3. Fits /\ w_result = "Ok" => Reading'
    BY <1>2, <2>1, ReaderKeepsReading DEF Inv, OwnInv, Stage
  <2>4. QED
    BY <2>1, <2>2, <2>3 DEF OwnInv
<1>3. CASE UNCHANGED allVars
  <2>1. /\ UNCHANGED <<archive, writerVars>>
        /\ UNCHANGED <<members, w_result, pc, cd_offset, cd_size, pos, entries, result>>
    BY <1>3 DEF allVars, vars, readerVars, endVars, writerVars
  <2>2. (Fits' <=> Fits) /\ (Stage' <=> Stage)
    BY <2>1, SamePlaces, SameStage
  <2>3. Reading => Reading'
    BY <2>1, SameReading DEF Reading
  <2>4. QED
    BY <2>1, <2>2, <2>3 DEF OwnInv
<1>4. QED
  BY <1>1, <1>2, <1>3 DEF RoundTripNext

(* Of every list of members the fields have room for, whatever their data  *)
(* holds, records of other archives included: the archive that is written  *)
(* lists the members in order and nothing else, each with its name, its    *)
(* size and the header before its data, and is never refused (write_stored *)
(* and parse_central_directory of zip.rs).                                 *)
THEOREM WritingIsReadBack == RoundTripSpec => []ReadsBackInOrder
<1>1. Inv /\ OwnInv => ReadsBackInOrder
  BY OrderImplies DEF Inv
<1>2. QED
  BY Invariance, AlwaysCut, InitOrder, NextOrder, <1>1, PTL DEF RoundTripSpec
=============================================================================
