----------------------------- MODULE TarProofs -------------------------------
(***************************************************************************)
(* Proofs about the TAR reader and the TAR writer.  For every archive,     *)
(* sound, damaged, cut off, or with data that looks like headers: an       *)
(* override reaches the next entry and no other, the data of two entries   *)
(* do not overlap, and the tree shows the last entry of each name.  What   *)
(* the writer writes the reader reads back.                                *)
(***************************************************************************)
EXTENDS TarRoundTrip, Lemmas

TrimmedNames == { TrimSlashes(TrimDots(name)) : name \in Name }
EntryType ==
  [name : TrimmedNames, size : Nat, is_dir : BOOLEAN, data_offset : Nat]

HeaderOf(entry) == entry.data_offset - 1

(* What is pending at a stop is what the headers before it override.       *)
Holds(p, field, value) ==
  \/ value = NoValue /\ Overriding(p, field) = {}
  \/ value # NoValue /\ Overriding(p, field) = {value}
Pending ==
  /\ pending_name \in Name \cup {NoValue}
  /\ pending_size \in Nat \cup {NoValue}
  /\ pos < Len(archive) =>
       /\ pos \in Stops
       /\ Holds(pos, "name", pending_name) /\ Holds(pos, "size", pending_size)

(* An entry is that of a header, with what overrides its fields.           *)
RightEntry(entry) ==
  LET at == HeaderOf(entry)
  IN  /\ at \in Stops /\ ~IsMeta(at)
      /\ entry.size = FieldOf(at, "size")
      /\ entry.name = TrimSlashes(TrimDots(FieldOf(at, "name")))

Collected ==
  /\ archive \in Archives /\ pos \in Nat
  /\ entries \in Seq(EntryType)
  /\ \A i \in 1..Len(entries) :
       RightEntry(entries[i]) /\ PastPayload(HeaderOf(entries[i])) <= pos
  /\ \A i, j \in 1..Len(entries) :
       i < j => PastPayload(HeaderOf(entries[i])) <= HeaderOf(entries[j])

Inv == Collected /\ (pc \in {"detect", "scan"} => Pending)

-----------------------------------------------------------------------------
(* Blocks and how many of them a payload takes.                            *)
LEMMA BlocksFacts ==
  ASSUME NEW m \in Nat, NEW n \in Nat, m <= n
  PROVE  Blocks(m) \in Nat /\ Blocks(n) \in Nat /\ Blocks(m) <= Blocks(n)
<1> DEFINE x == m + BLOCK - 1
           y == n + BLOCK - 1
           q == x \div BLOCK
           r == y \div BLOCK
<1>1. x \in Nat /\ y \in Nat /\ x <= y /\ BLOCK \in Nat \ {0}
  BY BlockAssumption
<1> HIDE DEF x, y
<1>2. q \in Nat /\ r \in Nat /\ x % BLOCK \in 0..(BLOCK - 1)
      /\ y % BLOCK \in 0..(BLOCK - 1)
  BY <1>1
<1>3. x = BLOCK * q + (x % BLOCK) /\ y = BLOCK * r + (y % BLOCK)
  BY <1>1
<1> HIDE DEF q, r
<1>4. ASSUME r < q PROVE FALSE
  <2>1. PICK k \in Nat : q = (r + 1) + k
    <3>1. q - (r + 1) \in Nat /\ q = (r + 1) + (q - (r + 1))
      BY <1>2, <1>4
    <3>2. QED
      BY <3>1
  <2>2. BLOCK * q = (BLOCK * r + BLOCK) + BLOCK * k
    BY <1>1, <1>2, <2>1
  <2> DEFINE u == BLOCK * r
             v == BLOCK * k
             w == BLOCK * q
  <2>3. u \in Nat /\ v \in Nat
    BY <1>1, <1>2, <2>1
  <2>4. w = (u + BLOCK) + v
    BY <2>2
  <2>5. x = w + (x % BLOCK) /\ y = u + (y % BLOCK)
    BY <1>3
  <2> HIDE DEF u, v, w
  <2>6. QED
    BY <1>1, <1>2, <2>3, <2>4, <2>5
<1>5. q <= r
  BY <1>2, <1>4
<1>6. QED
  BY <1>2, <1>5 DEF Blocks, q, r, x, y

(* What a block of the archive is made of.                                 *)
LEMMA BlockFacts ==
  ASSUME archive \in Archives, NEW p \in Nat, p < Len(archive)
  PROVE  /\ Len(archive) \in Nat
         /\ IsBlock(Block(p))
         /\ Block(p).zero \in BOOLEAN /\ (Block(p).zero <=> Block(p) = ZeroBlock)
         /\ Block(p) # ZeroBlock =>
              /\ Block(p).size \in Nat /\ Block(p).name \in Name
              /\ Block(p).typeflag \in Typeflag
              /\ Block(p).body.name \in Name \cup {NoValue}
              /\ Block(p).body.size \in Nat \cup {NoValue}
<1>1. Len(archive) \in Nat /\ DOMAIN archive = 1..Len(archive)
  BY ArchivesAssumption
<1>2. p + 1 \in DOMAIN archive
  BY <1>1
<1>3. IsBlock(Block(p))
  BY <1>2, ArchivesAssumption DEF Block
<1>4. ZeroBlock.zero = TRUE
  BY DEF ZeroBlock
<1>5. CASE Block(p) = ZeroBlock
  BY <1>1, <1>3, <1>4, <1>5
<1>6. CASE Block(p) # ZeroBlock
  <2>1. /\ Block(p).zero = FALSE
        /\ Block(p).size \in Nat /\ Block(p).name \in Name
        /\ Block(p).typeflag \in Typeflag
        /\ Block(p).body.name \in Name \cup {NoValue}
        /\ Block(p).body.size \in Nat \cup {NoValue}
    BY <1>3, <1>6 DEF IsBlock, HeaderBlock
  <2>2. QED
    BY <1>1, <1>3, <1>6, <2>1
<1>7. QED
  BY <1>5, <1>6

(* Every block that is read leads to a later one.                          *)
LEMMA AfterFacts ==
  ASSUME archive \in Archives, NEW p \in Nat, p < Len(archive)
  PROVE  /\ After(p) \in Nat /\ p < After(p)
         /\ Block(p) = ZeroBlock => After(p) = p + 1
         /\ Block(p) # ZeroBlock => After(p) = PastPayload(p)
<1>1. CASE Block(p) = ZeroBlock
  BY <1>1, BlockFacts DEF After
<1>2. CASE Block(p) # ZeroBlock
  <2>1. ~Block(p).zero /\ Block(p).size \in Nat
    BY <1>2, BlockFacts
  <2>2. Blocks(Block(p).size) \in Nat
    BY <2>1, BlocksFacts
  <2>3. QED
    BY <1>2, <2>1, <2>2 DEF After, PastPayload
<1>3. QED
  BY <1>1, <1>2

(* The stops, one after the other.                                         *)
LEMMA StopsFacts ==
  ASSUME archive \in Archives
  PROVE  /\ \A p \in Stops : p \in Nat /\ p < Len(archive)
         /\ 0 < Len(archive) => 0 \in Stops
         /\ \A p \in Stops : After(p) < Len(archive) => After(p) \in Stops
         /\ \A p, q \in Stops : p < q => After(p) <= q
<1> DEFINE n == Len(archive)
           G(x) == IF x < n THEN After(x) ELSE x
           Rule(f) == [i \in 0..n |->
             IF i = 0 THEN 0
             ELSE IF f[i - 1] < n THEN After(f[i - 1]) ELSE f[i - 1]]
           stop == CHOOSE f : f = Rule(f)
           next == [i \in Nat |-> [x \in Nat |-> G(x)]]
<1>1. n \in Nat
  BY ArchivesAssumption
<1>2. Stops = { stop[i] : i \in 0..n } \cap 0..(n - 1)
  BY DEF Stops
<1>3. \A x \in Nat : G(x) \in Nat /\ x <= G(x) /\ (x < n => x < G(x))
  BY AfterFacts
<1> HIDE DEF G
<1>4. next \in [Nat -> [Nat -> Nat]]
  BY <1>3
<1>5. PICK f : Recursion(f, n, Nat, 0, next)
  <2> HIDE DEF next, n
  <2>1. 0 \in Nat
    OBVIOUS
  <2>2. QED
    BY <1>1, <1>4, <2>1, RecursionExists
<1> HIDE DEF n
<1>6. f = Rule(f)
  <2>1. ASSUME NEW i \in 1..n PROVE f[i] = G(f[i - 1])
    <3>1. i \in Nat /\ i - 1 \in 0..n /\ f[i - 1] \in Nat
      BY <1>1, <1>5 DEF Recursion
    <3>2. QED
      BY <1>5, <3>1 DEF Recursion
  <2>2. \A i \in 0..n : i = 0 \/ i \in 1..n
    BY <1>1
  <2>3. \A i \in 0..n : f[i] = Rule(f)[i]
    BY <1>5, <2>1, <2>2 DEF Recursion, G
  <2>4. QED
    BY <1>5, <2>3 DEF Recursion
<1>7. stop = Rule(stop)
  <2> HIDE DEF Rule
  <2>1. QED
    BY <1>6
<1> HIDE DEF stop
<1>8. stop[0] = 0
  BY <1>1, <1>7
<1>9. \A i \in 1..n : stop[i] = G(stop[i - 1])
  <2>1. \A i \in 1..n : i \in 0..n /\ i # 0
    BY <1>1
  <2>2. QED
    BY <1>7, <2>1 DEF G
<1>10. \A i \in 0..n : stop[i] \in Nat
  <2>1. stop[0] \in Nat /\ \A i \in 1..n : stop[i - 1] \in Nat => stop[i] \in Nat
    BY <1>3, <1>8, <1>9
  <2>2. QED
    BY <1>1, <2>1, ValuesUpTo
<1>11. \A i \in 0..n : i <= stop[i] \/ n <= stop[i]
  <2> DEFINE S == { i \in 0..n : i <= stop[i] \/ n <= stop[i] }
  <2>1. 0 \in S
    BY <1>1, <1>8
  <2>2. ASSUME NEW i \in 1..n, i - 1 \in S PROVE i \in S
    <3>1. i \in 0..n /\ i - 1 \in 0..n /\ stop[i] \in Nat /\ stop[i - 1] \in Nat
      BY <1>1, <1>10
    <3>2. stop[i] = G(stop[i - 1])
      BY <1>9
    <3>3. /\ stop[i - 1] <= stop[i]
          /\ stop[i - 1] < n => stop[i - 1] < stop[i]
      BY <1>3, <3>1, <3>2
    <3>4. i - 1 <= stop[i - 1] \/ n <= stop[i - 1]
      BY <2>2
    <3>5. i <= stop[i] \/ n <= stop[i]
      BY <1>1, <3>1, <3>3, <3>4
    <3>6. QED
      BY <3>1, <3>5
  <2>3. 0..n \subseteq S
    <3> HIDE DEF S
    <3>1. QED
      BY <1>1, <2>1, <2>2, UpTo
  <2>4. QED
    BY <2>3
<1>12. ASSUME NEW i \in 0..n PROVE \A j \in 0..n : i <= j => stop[i] <= stop[j]
  <2> DEFINE S == { j \in 0..n : i <= j => stop[i] <= stop[j] }
  <2>1. 0 \in S
    BY <1>1, <1>10
  <2>2. ASSUME NEW j \in 1..n, j - 1 \in S PROVE j \in S
    <3>1. /\ j \in 0..n /\ j - 1 \in 0..n
          /\ stop[j] \in Nat /\ stop[j - 1] \in Nat /\ stop[i] \in Nat
      BY <1>1, <1>10
    <3>2. stop[j - 1] <= stop[j]
      BY <1>3, <1>9, <3>1
    <3>3. i <= j - 1 => stop[i] <= stop[j - 1]
      BY <2>2
    <3>4. i <= j => stop[i] <= stop[j]
      BY <3>1, <3>2, <3>3
    <3>5. QED
      BY <3>1, <3>4
  <2>3. 0..n \subseteq S
    <3> HIDE DEF S
    <3>1. QED
      BY <1>1, <2>1, <2>2, UpTo
  <2>4. QED
    BY <2>3
<1>13. \A p \in Stops : p \in Nat /\ p < n
  BY <1>1, <1>2
<1>14. \A p \in Stops : \E i \in 0..n : stop[i] = p
  BY <1>2
<1>15. ASSUME NEW p \in Stops, NEW i \in 0..n, stop[i] = p
       PROVE  i + 1 \in 0..n /\ stop[i + 1] = After(p)
  <2>1. p \in Nat /\ p < n /\ i <= p
    BY <1>1, <1>11, <1>13, <1>15
  <2>2. i + 1 \in 1..n /\ i + 1 \in 0..n /\ (i + 1) - 1 = i
    BY <1>1, <2>1
  <2>3. stop[i + 1] = G(p)
    BY <1>9, <1>15, <2>2
  <2>4. QED
    BY <2>1, <2>2, <2>3 DEF G
<1>16. 0 < n => 0 \in Stops
  BY <1>1, <1>2, <1>8
<1>17. ASSUME NEW p \in Stops, After(p) < n PROVE After(p) \in Stops
  <2>1. PICK i \in 0..n : stop[i] = p
    BY <1>14
  <2>2. i + 1 \in 0..n /\ stop[i + 1] = After(p) /\ stop[i + 1] \in Nat
    BY <1>10, <1>15, <2>1
  <2>3. QED
    BY <1>1, <1>2, <1>17, <2>2
<1>18. ASSUME NEW p \in Stops, NEW q \in Stops, p < q PROVE After(p) <= q
  <2>1. PICK i \in 0..n : stop[i] = p
    BY <1>14
  <2>2. PICK j \in 0..n : stop[j] = q
    BY <1>14
  <2>3. p \in Nat /\ q \in Nat
    BY <1>13
  <2>4. ~(j <= i)
    BY <1>12, <1>18, <2>1, <2>2, <2>3
  <2>5. i + 1 <= j
    BY <1>1, <2>4
  <2>6. i + 1 \in 0..n /\ stop[i + 1] = After(p)
    BY <1>15, <2>1
  <2>7. QED
    BY <1>12, <2>2, <2>5, <2>6
<1>19. QED
  BY <1>13, <1>16, <1>17, <1>18 DEF n

(* The headers that override a field at a stop.                            *)
Speaks(q, field) ==
  /\ ~Block(q).zero
  /\ Block(q).typeflag \in {"longname", "pax"}
  /\ Block(q).body[field] # NoValue
Sources(p, field) ==
  { q \in Stops :
      /\ q < p /\ Speaks(q, field)
      /\ \A s \in Stops : q < s /\ s < p => IsMeta(s) /\ ~Speaks(s, field) }

(* The overriding values are those of the headers that speak last.         *)
LEMMA OverridingIsSources ==
  ASSUME NEW p, NEW field
  PROVE  Overriding(p, field) = { Block(q).body[field] : q \in Sources(p, field) }
<1>1. Sources(p, field) =
        { q \in Stops :
            /\ q < p /\ ~Block(q).zero
            /\ Block(q).typeflag \in {"longname", "pax"}
            /\ Block(q).body[field] # NoValue
            /\ \A s \in Stops : q < s /\ s < p =>
                 /\ IsMeta(s)
                 /\ ~Block(s).zero
                      /\ Block(s).typeflag \in {"longname", "pax"}
                    => Block(s).body[field] = NoValue }
  BY DEF Sources, Speaks
<1>2. QED
  BY <1>1 DEF Overriding

(* What overrides a field at a stop, from what does at the one before.     *)
LEMMA NextStop ==
  ASSUME archive \in Archives, NEW p \in Stops, After(p) < Len(archive),
         NEW field
  PROVE  /\ After(p) \in Stops
         /\ IsMeta(p) /\ ~Speaks(p, field)
              => Overriding(After(p), field) = Overriding(p, field)
         /\ IsMeta(p) /\ Speaks(p, field)
              => Overriding(After(p), field) = {Block(p).body[field]}
         /\ ~IsMeta(p) => Overriding(After(p), field) = {}
<1> DEFINE n == After(p)
<1>1. p \in Nat /\ p < Len(archive) /\ n \in Stops
  BY StopsFacts
<1>2. n \in Nat /\ p < n
  BY <1>1, AfterFacts
<1>3. ASSUME NEW s \in Stops PROVE s \in Nat /\ (s < n <=> s < p \/ s = p)
  <2>1. s \in Nat /\ (p < s => n <= s)
    BY StopsFacts
  <2>2. QED
    BY <1>1, <1>2, <2>1
<1> HIDE DEF n
<1>4. ASSUME IsMeta(p), ~Speaks(p, field)
      PROVE  Sources(n, field) = Sources(p, field)
  BY <1>1, <1>2, <1>3, <1>4 DEF Sources
<1>5. ASSUME IsMeta(p), Speaks(p, field) PROVE Sources(n, field) = {p}
  <2>1. \A s \in Stops : ~(p < s /\ s < n)
    BY <1>1, <1>3
  <2>2. p \in Sources(n, field)
    BY <1>1, <1>2, <1>5, <2>1 DEF Sources
  <2>3. ASSUME NEW q \in Sources(n, field) PROVE q = p
    <3>1. /\ q \in Stops /\ q < n
          /\ \A s \in Stops : q < s /\ s < n => ~Speaks(s, field)
      BY DEF Sources
    <3>2. ~(q < p)
      BY <1>1, <1>2, <1>5, <3>1
    <3>3. QED
      BY <1>3, <3>1, <3>2
  <2>4. QED
    BY <2>2, <2>3
<1>6. ASSUME ~IsMeta(p) PROVE Sources(n, field) = {}
  <2>1. ~Speaks(p, field)
    BY <1>6 DEF Speaks, IsMeta
  <2>2. QED
    BY <1>1, <1>2, <1>3, <1>6, <2>1 DEF Sources
<1>7. IsMeta(p) /\ ~Speaks(p, field)
        => Overriding(n, field) = Overriding(p, field)
  BY <1>4, OverridingIsSources
<1>8. IsMeta(p) /\ Speaks(p, field)
        => Overriding(n, field) = {Block(p).body[field]}
  BY <1>5, OverridingIsSources
<1>9. ~IsMeta(p) => Overriding(n, field) = {}
  BY <1>6, OverridingIsSources
<1>10. QED
  BY <1>1, <1>7, <1>8, <1>9 DEF n

(* What is pending is handed on from a stop to the next.                   *)
LEMMA Handed ==
  ASSUME archive \in Archives, NEW p \in Stops, After(p) < Len(archive),
         NEW field, NEW value, Holds(p, field, value)
  PROVE  /\ IsMeta(p) /\ ~Speaks(p, field) => Holds(After(p), field, value)
         /\ IsMeta(p) /\ Speaks(p, field)
              => Holds(After(p), field, Block(p).body[field])
         /\ ~IsMeta(p) => Holds(After(p), field, NoValue)
<1>1. Speaks(p, field) => Block(p).body[field] # NoValue
  BY DEF Speaks
<1>2. QED
  BY <1>1, NextStop DEF Holds

(* So the field of an entry is what is pending, or its own.                *)
LEMMA FieldIsPending ==
  ASSUME NEW p, NEW field, NEW value, Holds(p, field, value)
  PROVE  FieldOf(p, field) = ValueOr(value, Block(p)[field])
<1>1. CASE value = NoValue /\ Overriding(p, field) = {}
  BY <1>1 DEF FieldOf, ValueOr
<1>2. CASE value # NoValue /\ Overriding(p, field) = {value}
  <2>1. (CHOOSE v \in {value} : TRUE) = value
    OBVIOUS
  <2>2. QED
    BY <1>2, <2>1 DEF FieldOf, ValueOr
<1>3. QED
  BY <1>1, <1>2 DEF Holds

(* As long as the archive is the same, so is what is said of it.           *)
LEMMA SameArchive ==
  ASSUME archive' = archive
  PROVE  /\ Stops' = Stops
         /\ \A p : PastPayload(p)' = PastPayload(p)
         /\ \A p : IsMeta(p)' <=> IsMeta(p)
         /\ \A p, field : FieldOf(p, field)' = FieldOf(p, field)
         /\ \A p, field, value : Holds(p, field, value)' <=> Holds(p, field, value)
         /\ \A entry : RightEntry(entry)' <=> RightEntry(entry)
<1>1. Stops' = Stops
  BY DEF Stops, After, Block
<1>2. \A p : PastPayload(p)' = PastPayload(p) /\ (IsMeta(p)' <=> IsMeta(p))
             /\ Block(p)' = Block(p)
  BY DEF PastPayload, IsMeta, Block
<1>3. \A p, field : Overriding(p, field)' = Overriding(p, field)
  BY <1>1 DEF Overriding, IsMeta, Block
<1>4. \A p, field, value : Holds(p, field, value)' <=> Holds(p, field, value)
  BY <1>3 DEF Holds
<1>5. \A p, field : FieldOf(p, field)' = FieldOf(p, field)
  <2> SUFFICES ASSUME NEW p, NEW field
               PROVE  FieldOf(p, field)' = FieldOf(p, field)
    OBVIOUS
  <2>1. Overriding(p, field)' = Overriding(p, field) /\ Block(p)' = Block(p)
    BY <1>2, <1>3
  <2>2. QED
    BY <2>1 DEF FieldOf
<1>6. \A entry : RightEntry(entry)' <=> RightEntry(entry)
  BY <1>1, <1>2, <1>5 DEF RightEntry, HeaderOf
<1>7. QED
  BY <1>1, <1>2, <1>4, <1>5, <1>6

(* The header of an entry lies in the archive.                             *)
LEMMA EntryFacts ==
  ASSUME Collected, NEW i \in 1..Len(entries)
  PROVE  /\ entries[i] \in EntryType
         /\ HeaderOf(entries[i]) \in Nat
         /\ HeaderOf(entries[i]) < Len(archive)
         /\ PastPayload(HeaderOf(entries[i])) \in Nat
<1>1. entries[i] \in EntryType
  <2> HIDE DEF EntryType
  <2>1. QED
    BY ElementOfSeq DEF Collected
<1>2. HeaderOf(entries[i]) \in Stops /\ ~IsMeta(HeaderOf(entries[i]))
  BY DEF Collected, RightEntry
<1>3. archive \in Archives
  BY DEF Collected
<1>4. HeaderOf(entries[i]) \in Nat /\ HeaderOf(entries[i]) < Len(archive)
  BY <1>2, <1>3, StopsFacts
<1>5. Block(HeaderOf(entries[i])) # ZeroBlock
  BY <1>2, <1>3, <1>4, BlockFacts DEF IsMeta
<1>6. QED
  BY <1>1, <1>3, <1>4, <1>5, AfterFacts

(* A step that adds no entry and does not move back keeps what is said of  *)
(* the entries.                                                            *)
LEMMA CollectedKept ==
  ASSUME Collected, UNCHANGED <<archive, entries>>, pos' \in Nat, pos <= pos'
  PROVE  Collected'
<1>1. ASSUME NEW i \in 1..Len(entries)
      PROVE  /\ RightEntry(entries[i])'
             /\ PastPayload(HeaderOf(entries[i]))' <= pos'
             /\ \A j \in 1..Len(entries) : i < j =>
                  PastPayload(HeaderOf(entries[i]))' <= HeaderOf(entries[j])'
  <2>1. /\ RightEntry(entries[i])' <=> RightEntry(entries[i])
        /\ PastPayload(HeaderOf(entries[i]))' = PastPayload(HeaderOf(entries[i]))
        /\ \A j \in 1..Len(entries) : HeaderOf(entries[j])' = HeaderOf(entries[j])
    BY SameArchive DEF RightEntry, HeaderOf, PastPayload, Block
  <2>2. /\ RightEntry(entries[i]) /\ PastPayload(HeaderOf(entries[i])) <= pos
        /\ \A j \in 1..Len(entries) :
             i < j => PastPayload(HeaderOf(entries[i])) <= HeaderOf(entries[j])
        /\ pos \in Nat
    BY DEF Collected
  <2>3. PastPayload(HeaderOf(entries[i])) \in Nat
    BY EntryFacts
  <2>4. QED
    BY <2>1, <2>2, <2>3
<1>2. QED
  BY <1>1 DEF Collected

(* Every action keeps the invariant.                                       *)
LEMMA InitInv == Init => Inv
<1> SUFFICES ASSUME Init PROVE Inv
  OBVIOUS
<1>1. archive \in Archives /\ pos = 0 /\ entries = <<>>
      /\ pending_name = NoValue /\ pending_size = NoValue
  BY DEF Init, InitReader
<1>2. Collected
  BY <1>1, EmptySeq DEF Collected
<1>3. ASSUME 0 < Len(archive)
      PROVE  0 \in Stops /\ \A field : Overriding(0, field) = {}
  <2>1. 0 \in Stops /\ \A s \in Stops : s \in Nat
    BY <1>1, <1>3, StopsFacts
  <2>2. \A field : Sources(0, field) = {}
    BY <2>1 DEF Sources
  <2>3. QED
    BY <2>1, <2>2, OverridingIsSources
<1>4. Pending
  BY <1>1, <1>3 DEF Pending, Holds
<1>5. QED
  BY <1>2, <1>4 DEF Inv

(* A step that ends the scan keeps the invariant.                          *)
LEMMA StopKeeps ==
  ASSUME Inv, UNCHANGED <<archive, entries>>, pos' \in Nat, pos <= pos',
         pc' \notin {"detect", "scan"}
  PROVE  Inv'
<1>1. Collected'
  BY CollectedKept DEF Inv
<1>2. QED
  BY <1>1 DEF Inv

(* A step that stays where it is keeps what is pending.                    *)
LEMMA StayKeeps ==
  ASSUME Inv, UNCHANGED <<archive, scanVars>>,
         pc' \in {"detect", "scan"} => pc \in {"detect", "scan"}
  PROVE  Inv'
<1>1. UNCHANGED <<archive, pos, entries, pending_name, pending_size>>
  BY DEF scanVars
<1>2. Collected'
  BY <1>1, CollectedKept DEF Inv, Collected
<1>3. Pending => Pending'
  BY <1>1, SameArchive DEF Pending
<1>4. QED
  BY <1>2, <1>3 DEF Inv

(* The scanner goes from a stop to the next one.                           *)
LEMMA ScanFacts ==
  ASSUME Inv, pc = "scan", pos < Len(archive)
  PROVE  /\ Collected /\ archive \in Archives /\ pos \in Nat
         /\ pos \in Stops /\ After(pos) \in Nat /\ pos < After(pos)
         /\ Holds(pos, "name", pending_name) /\ Holds(pos, "size", pending_size)
         /\ pending_name \in Name \cup {NoValue}
         /\ pending_size \in Nat \cup {NoValue}
<1>1. Collected /\ archive \in Archives /\ pos \in Nat /\ Pending
  BY DEF Inv, Collected
<1>2. QED
  BY <1>1, AfterFacts DEF Pending

(* A meta header or a zero block that is passed keeps the invariant.       *)
LEMMA PassedKeeps ==
  ASSUME Inv, pc = "scan", pos < Len(archive), IsMeta(pos),
         UNCHANGED <<archive, entries>>, pos' = After(pos),
         pending_name' =
           IF Speaks(pos, "name") THEN Block(pos).body["name"] ELSE pending_name,
         pending_size' =
           IF Speaks(pos, "size") THEN Block(pos).body["size"] ELSE pending_size,
         pending_name' \in Name \cup {NoValue},
         pending_size' \in Nat \cup {NoValue}
  PROVE  Inv'
<1>1. Collected'
  BY ScanFacts, CollectedKept
<1>2. ASSUME pos' < Len(archive)
      PROVE  /\ pos' \in Stops
             /\ Holds(pos', "name", pending_name')
             /\ Holds(pos', "size", pending_size')
  BY <1>2, ScanFacts, StopsFacts, Handed
<1>3. /\ Stops' = Stops
      /\ \A p, field, value : Holds(p, field, value)' <=> Holds(p, field, value)
  BY SameArchive
<1>4. Pending'
  <2>1. /\ Holds(pos, "name", pending_name)' <=> Holds(pos', "name", pending_name')
        /\ Holds(pos, "size", pending_size)' <=> Holds(pos', "size", pending_size')
    BY SameArchive DEF Holds, Overriding, IsMeta, Block
  <2>2. QED
    BY <1>2, <1>3, <2>1 DEF Pending
<1>5. QED
  BY <1>1, <1>4 DEF Inv

(* The steps of the scan, one by one.                                      *)
LEMMA ScanEndsKeeps == ASSUME Inv, ScanEnds PROVE Inv'
<1>1. UNCHANGED <<archive, entries>> /\ pc' = "build"
      /\ (pos' = pos \/ pos' = pos + 1)
  BY DEF ScanEnds
<1>2. pos \in Nat
  BY DEF Inv, Collected
<1>3. QED
  BY <1>1, <1>2, StopKeeps

LEMMA FirstZeroBlockKeeps == ASSUME Inv, FirstZeroBlock PROVE Inv'
<1>1. /\ pc = "scan" /\ pos < Len(archive) /\ Block(pos) = ZeroBlock
      /\ pos' = pos + 1
      /\ UNCHANGED <<archive, pending_name, pending_size, entries>>
  BY DEF FirstZeroBlock
<1>2. Block(pos).zero = TRUE
  BY <1>1 DEF ZeroBlock
<1>3. pos' = After(pos)
  BY <1>1, <1>2 DEF After
<1>4. IsMeta(pos) /\ ~Speaks(pos, "name") /\ ~Speaks(pos, "size")
  BY <1>2 DEF IsMeta, Speaks
<1>5. QED
  BY <1>1, <1>3, <1>4, ScanFacts, PassedKeeps

(* A header that is not refused is left behind with its payload.           *)
LEMMA HeaderFacts ==
  ASSUME Inv, AtHeader, Skip
  PROVE  /\ pc = "scan" /\ pos < Len(archive) /\ ~Block(pos).zero
         /\ pos' = After(pos) /\ UNCHANGED <<archive, pc>>
         /\ Block(pos).size \in Nat /\ Block(pos).name \in Name
         /\ Block(pos).typeflag \in Typeflag
         /\ Block(pos).body.name \in Name \cup {NoValue}
         /\ Block(pos).body.size \in Nat \cup {NoValue}
<1>1. /\ pc = "scan" /\ pos < Len(archive) /\ Block(pos) # ZeroBlock
      /\ pos' = PastPayload(pos) /\ UNCHANGED <<archive, pc>>
  BY DEF AtHeader, Skip
<1>2. archive \in Archives /\ pos \in Nat
  BY DEF Inv, Collected
<1>3. QED
  BY <1>1, <1>2, AfterFacts, BlockFacts

LEMMA OverrideKeeps == ASSUME Inv, Override PROVE Inv'
<1>1. /\ AtHeader /\ Skip /\ UNCHANGED entries
      /\ Block(pos).typeflag \in {"longname", "pax"}
      /\ pending_name' = ValueOr(Block(pos).body.name, pending_name)
      /\ pending_size' = ValueOr(Block(pos).body.size, pending_size)
  BY DEF Override
<1>2. /\ Speaks(pos, "name") <=> Block(pos).body.name # NoValue
      /\ Speaks(pos, "size") <=> Block(pos).body.size # NoValue
      /\ IsMeta(pos)
  BY <1>1, HeaderFacts DEF Speaks, IsMeta
<1>3. /\ pending_name' =
           IF Speaks(pos, "name") THEN Block(pos).body["name"] ELSE pending_name
      /\ pending_size' =
           IF Speaks(pos, "size") THEN Block(pos).body["size"] ELSE pending_size
  BY <1>1, <1>2 DEF ValueOr
<1>4. /\ pending_name' \in Name \cup {NoValue}
      /\ pending_size' \in Nat \cup {NoValue}
  BY <1>1, HeaderFacts, ScanFacts DEF ValueOr
<1>5. QED
  BY <1>1, <1>2, <1>3, <1>4, HeaderFacts, PassedKeeps

LEMMA LongLinkKeeps == ASSUME Inv, LongLink PROVE Inv'
<1>1. /\ AtHeader /\ Skip /\ Block(pos).typeflag = "longlink"
      /\ UNCHANGED <<pending_name, pending_size, entries>>
  BY DEF LongLink
<1>2. IsMeta(pos) /\ ~Speaks(pos, "name") /\ ~Speaks(pos, "size")
  BY <1>1 DEF IsMeta, Speaks
<1>3. QED
  BY <1>1, <1>2, HeaderFacts, ScanFacts, PassedKeeps

LEMMA MemberKeeps == ASSUME Inv, Member PROVE Inv'
<1> DEFINE entry == EntryAt(pos)
<1>1. /\ AtHeader /\ Skip
      /\ Block(pos).typeflag \in {"file", "dir", "other"}
      /\ entries' = entries \/ entries' = Append(entries, entry)
      /\ pending_name' = NoValue /\ pending_size' = NoValue
  BY DEF Member, TakePending
<1>2. /\ pc = "scan" /\ pos < Len(archive) /\ ~Block(pos).zero
      /\ pos' = After(pos) /\ UNCHANGED <<archive, pc>>
      /\ Block(pos).size \in Nat /\ Block(pos).name \in Name
  BY <1>1, HeaderFacts
<1>3. /\ Collected /\ archive \in Archives /\ pos \in Nat
      /\ pos \in Stops /\ pos' \in Nat /\ pos < pos'
      /\ Holds(pos, "name", pending_name) /\ Holds(pos, "size", pending_size)
      /\ pending_name \in Name \cup {NoValue}
      /\ pending_size \in Nat \cup {NoValue}
  BY <1>2, ScanFacts
<1>4. ~IsMeta(pos)
  BY <1>1, <1>2 DEF IsMeta
<1>5. Pending'
  <2>1. ASSUME pos' < Len(archive)
        PROVE  /\ pos' \in Stops
               /\ Holds(pos', "name", NoValue) /\ Holds(pos', "size", NoValue)
    BY <1>2, <1>3, <1>4, <2>1, StopsFacts, Handed
  <2>2. /\ Stops' = Stops
        /\ Holds(pos, "name", pending_name)' <=> Holds(pos', "name", pending_name')
        /\ Holds(pos, "size", pending_size)' <=> Holds(pos', "size", pending_size')
    BY <1>2, SameArchive DEF Holds, Overriding, IsMeta, Block
  <2>3. QED
    BY <1>1, <1>2, <2>1, <2>2 DEF Pending
<1>6. entry \in EntryType /\ RightEntry(entry) /\ HeaderOf(entry) = pos
  <2>1. /\ FieldOf(pos, "name") = ValueOr(pending_name, Block(pos).name)
        /\ FieldOf(pos, "size") = ValueOr(pending_size, Block(pos).size)
    <3>1. Block(pos).name = Block(pos)["name"] /\ Block(pos).size = Block(pos)["size"]
      OBVIOUS
    <3>2. QED
      BY <1>3, <3>1, FieldIsPending
  <2>2. FieldOf(pos, "name") \in Name /\ FieldOf(pos, "size") \in Nat
    BY <1>2, <1>3, <2>1 DEF ValueOr
  <2>3. /\ entry.name = TrimSlashes(TrimDots(FieldOf(pos, "name")))
        /\ entry.size = FieldOf(pos, "size") /\ entry.data_offset = pos + 1
    BY <2>1 DEF EntryAt, DataStart
  <2>4. entry.name \in TrimmedNames
    BY <2>2, <2>3 DEF TrimmedNames
  <2>5. entry \in EntryType
    BY <1>3, <2>2, <2>3, <2>4 DEF EntryType, EntryAt, EndsWithSlash
  <2>6. HeaderOf(entry) = pos
    BY <1>3, <2>3 DEF HeaderOf
  <2>7. QED
    BY <1>3, <1>4, <2>3, <2>5, <2>6 DEF RightEntry
<1>7. PastPayload(pos) = pos'
  BY <1>1 DEF Skip
<1>8. CASE entries' = entries
  <2>1. Collected'
    BY <1>2, <1>3, <1>8, CollectedKept
  <2>2. QED
    BY <1>5, <2>1 DEF Inv
<1>9. CASE entries' = Append(entries, entry)
  <2> DEFINE n == Len(entries)
  <2>1. entries \in Seq(EntryType) /\ n \in Nat
    BY <1>3, LenProperties DEF Collected
  <2>2. /\ entries' \in Seq(EntryType) /\ Len(entries') = n + 1
        /\ \A i \in 1..n : entries'[i] = entries[i]
        /\ entries'[n + 1] = entry
    <3> HIDE DEF EntryType, entry
    <3>1. entry \in EntryType
      BY <1>6
    <3>2. QED
      BY <1>9, <2>1, <3>1, AppendProperties
  <2> HIDE DEF entry, n
  <2>3. ASSUME NEW i \in 1..(n + 1)
        PROVE  /\ RightEntry(entries'[i])
               /\ PastPayload(HeaderOf(entries'[i])) <= pos'
               /\ \A j \in 1..(n + 1) : i < j =>
                    PastPayload(HeaderOf(entries'[i])) <= HeaderOf(entries'[j])
    <3>1. CASE i \in 1..n
      <4>1. /\ entries'[i] = entries[i] /\ RightEntry(entries[i])
            /\ PastPayload(HeaderOf(entries[i])) <= pos
            /\ \A j \in 1..n : i < j =>
                 PastPayload(HeaderOf(entries[i])) <= HeaderOf(entries[j])
        BY <1>3, <2>2, <3>1 DEF Collected, n
      <4>2. PastPayload(HeaderOf(entries[i])) \in Nat
        BY <1>3, <3>1, EntryFacts DEF n
      <4>3. PastPayload(HeaderOf(entries'[i])) <= pos'
        BY <1>3, <4>1, <4>2
      <4>4. ASSUME NEW j \in 1..(n + 1), i < j
            PROVE  PastPayload(HeaderOf(entries'[i])) <= HeaderOf(entries'[j])
        <5>1. CASE j \in 1..n
          BY <2>2, <4>1, <4>4, <5>1
        <5>2. CASE j = n + 1
          BY <1>6, <2>2, <4>1, <5>2
        <5>3. QED
          BY <2>1, <5>1, <5>2
      <4>5. QED
        BY <4>1, <4>3, <4>4
    <3>2. CASE i = n + 1
      <4>1. entries'[i] = entry /\ \A j \in 1..(n + 1) : ~(i < j)
        BY <2>1, <2>2, <3>2
      <4>2. pos' <= pos'
        BY <1>3
      <4>3. QED
        BY <1>6, <1>7, <4>1, <4>2
    <3>3. QED
      BY <2>1, <3>1, <3>2
  <2>4. \A i \in 1..(n + 1) :
          /\ RightEntry(entries[i])' <=> RightEntry(entries'[i])
          /\ PastPayload(HeaderOf(entries[i]))' = PastPayload(HeaderOf(entries'[i]))
          /\ HeaderOf(entries[i])' = HeaderOf(entries'[i])
    <3> TAKE i \in 1..(n + 1)
    <3>1. /\ Stops' = Stops
          /\ \A p : IsMeta(p)' <=> IsMeta(p)
          /\ \A p, field : FieldOf(p, field)' = FieldOf(p, field)
          /\ \A p : PastPayload(p)' = PastPayload(p)
      BY <1>2, SameArchive
    <3>2. QED
      BY <1>2, <3>1 DEF RightEntry, HeaderOf, PastPayload, Block, IsMeta
  <2>5. Collected'
    BY <1>2, <1>3, <2>2, <2>3, <2>4 DEF Collected
  <2>6. QED
    BY <1>5, <2>5 DEF Inv
<1>10. QED
  BY <1>1, <1>8, <1>9

LEMMA NextInv == Inv /\ [Next]_vars => Inv'
<1> SUFFICES ASSUME Inv, [Next]_vars PROVE Inv'
  OBVIOUS
<1>1. CASE Detect \/ BuildNode \/ Attach \/ UNCHANGED vars
  <2>1. /\ UNCHANGED <<archive, scanVars>>
        /\ pc' \in {"detect", "scan"} => pc \in {"detect", "scan"}
    BY <1>1 DEF Detect, BuildNode, Attach, vars
  <2>2. QED
    BY <2>1, StayKeeps
<1>2. CASE NotDetected \/ ScanFails \/ NotTar \/ PayloadTruncated
  <2>1. UNCHANGED <<archive, scanVars>> /\ pc' = "done"
    BY <1>2 DEF NotDetected, ScanFails, NotTar, PayloadTruncated, Stop
  <2>2. QED
    BY <2>1, StayKeeps
<1>3. QED
  BY <1>1, <1>2, ScanEndsKeeps, FirstZeroBlockKeeps, OverrideKeeps,
     LongLinkKeeps, MemberKeeps DEF Next

(* What the conjuncts of the invariant say.                                *)
LEMMA InvImplies == Inv => OverridesReachNextEntry /\ EntriesApart
<1> SUFFICES ASSUME Inv PROVE OverridesReachNextEntry /\ EntriesApart
  OBVIOUS
<1> DEFINE n == Len(entries)
<1>1. Collected
  BY DEF Inv
<1>2. n \in Nat /\ DOMAIN entries = 1..n
  BY <1>1, LenProperties DEF Collected
<1>3. OverridesReachNextEntry
  BY <1>1, <1>2 DEF Collected, RightEntry, HeaderOf, OverridesReachNextEntry
<1>4. ASSUME NEW i \in 1..n,
             entries[i].size <= Block(entries[i].data_offset - 1).size
      PROVE  /\ entries[i].data_offset + Blocks(entries[i].size) <= pos
             /\ \A j \in 1..n : i < j =>
                  entries[i].data_offset + Blocks(entries[i].size)
                    < entries[j].data_offset
  <2> DEFINE p == HeaderOf(entries[i])
             size == entries[i].size
  <2>1. /\ entries[i] \in EntryType
        /\ p \in Nat /\ p < Len(archive) /\ PastPayload(p) \in Nat
    BY <1>1, EntryFacts
  <2>2. size \in Nat /\ entries[i].data_offset \in Nat
        /\ entries[i].data_offset = p + 1
    BY <2>1 DEF EntryType, HeaderOf
  <2>3. Block(p).size \in Nat
    <3>1. ~IsMeta(p) /\ archive \in Archives
      BY <1>1 DEF Collected, RightEntry
    <3>2. Block(p) # ZeroBlock
      BY <2>1, <3>1, BlockFacts DEF IsMeta
    <3>3. QED
      BY <2>1, <3>1, <3>2, BlockFacts
  <2>4. /\ Blocks(size) \in Nat /\ Blocks(Block(p).size) \in Nat
        /\ Blocks(size) <= Blocks(Block(p).size)
    BY <1>4, <2>2, <2>3, BlocksFacts DEF HeaderOf
  <2>5. PastPayload(p) = (p + 1) + Blocks(Block(p).size)
    BY DEF PastPayload
  <2>6. /\ PastPayload(p) <= pos /\ pos \in Nat
        /\ \A j \in 1..n : i < j => PastPayload(p) <= HeaderOf(entries[j])
    BY <1>1 DEF Collected
  <2>7. \A j \in 1..n : /\ entries[j].data_offset \in Nat
                        /\ entries[j].data_offset = HeaderOf(entries[j]) + 1
                        /\ HeaderOf(entries[j]) \in Nat
    <3>1. \A j \in 1..n : entries[j] \in EntryType /\ HeaderOf(entries[j]) \in Nat
      BY <1>1, EntryFacts
    <3>2. QED
      BY <3>1 DEF EntryType, HeaderOf
  <2> HIDE DEF p, size, n
  <2>8. (p + 1) + Blocks(size) <= PastPayload(p)
    BY <2>1, <2>4, <2>5
  <2>9. (p + 1) + Blocks(size) <= pos
    BY <2>1, <2>4, <2>6, <2>8
  <2>10. ASSUME NEW j \in 1..n, i < j
         PROVE  (p + 1) + Blocks(size) < entries[j].data_offset
    BY <2>1, <2>4, <2>6, <2>7, <2>8, <2>10
  <2>11. QED
    BY <2>2, <2>9, <2>10 DEF size
<1>5. EntriesApart
  BY <1>2, <1>4 DEF EntriesApart
<1>6. QED
  BY <1>3, <1>5

-----------------------------------------------------------------------------
(* Trimming leaves a name a name: what is chosen exists.                   *)
LEMMA TrimDotsIsName ==
  ASSUME NEW name \in Name
  PROVE  TrimDots(name) \in Name
<1> DEFINE n == Len(name)
           T == { d \in 0..(n - 1) : d = n - 1 \/ name[d + 1] # Dot }
           Fits(d) == /\ \A i \in 1..d : name[i] = Dot
                      /\ d = Len(name) - 1 \/ name[d + 1] # Dot
           dots == CHOOSE d \in 0..(Len(name) - 1) : Fits(d)
<1>1. name \in Seq(Part) /\ n \in Nat /\ n # 0
  BY LenProperties, EmptySeq DEF Name
<1> HIDE DEF n
<1>2. PICK d \in T : \A e \in T : d <= e
  <2>1. T \in SUBSET Nat /\ n - 1 \in T
    BY <1>1
  <2> HIDE DEF T
  <2>2. QED
    BY <2>1, LeastElement
<1>3. ASSUME NEW i \in 1..d PROVE name[i] = Dot
  <2>1. i - 1 \notin T
    BY <1>1, <1>2
  <2>2. i - 1 \in 0..(n - 1) /\ (i - 1) + 1 = i
    BY <1>1
  <2>3. QED
    BY <2>1, <2>2
<1>4. d \in 0..(Len(name) - 1) /\ Fits(d)
  BY <1>3 DEF n
<1>5. dots \in 0..(Len(name) - 1)
  <2> HIDE DEF Fits
  <2>1. QED
    BY <1>4
<1>6. TrimDots(name) = SubSeq(name, dots + 1, Len(name))
  BY DEF TrimDots
<1> HIDE DEF dots
<1>7. /\ SubSeq(name, dots + 1, Len(name)) \in Seq(Part)
      /\ Len(SubSeq(name, dots + 1, Len(name))) # 0
  <2>1. dots + 1 \in Int /\ Len(name) \in Int /\ dots + 1 <= Len(name)
        /\ \A i \in (dots + 1)..Len(name) : name[i] \in Part
    BY <1>1, <1>5, ElementOfSeq DEF n
  <2>2. QED
    BY <2>1, SubSeqProperties
<1>8. QED
  BY <1>6, <1>7, EmptySeq DEF Name

LEMMA TrimSlashesIsName ==
  ASSUME NEW name \in Name
  PROVE  TrimSlashes(name) \in Name
<1> DEFINE n == Len(name)
           T == { d \in 0..(n - 1) : d = n - 1 \/ name[n - d] # Empty }
           Fits(k) == /\ \A i \in (k + 1)..Len(name) : name[i] = Empty
                      /\ k = 1 \/ name[k] # Empty
           kept == CHOOSE k \in 1..Len(name) : Fits(k)
<1>1. name \in Seq(Part) /\ n \in Nat /\ n # 0
  BY LenProperties, EmptySeq DEF Name
<1> HIDE DEF n
<1>2. PICK d \in T : \A e \in T : d <= e
  <2>1. T \in SUBSET Nat /\ n - 1 \in T
    BY <1>1
  <2> HIDE DEF T
  <2>2. QED
    BY <2>1, LeastElement
<1>3. ASSUME NEW i \in (n - d + 1)..n PROVE name[i] = Empty
  <2>1. n - i \in 0..(n - 1) /\ n - (n - i) = i /\ n - i < d
    BY <1>1, <1>2
  <2>2. n - i \notin T
    BY <1>2, <2>1
  <2>3. QED
    BY <2>1, <2>2
<1>4. n - d \in 1..Len(name) /\ Fits(n - d)
  <2>1. n - d = 1 \/ name[n - d] # Empty
    BY <1>1, <1>2
  <2>2. QED
    BY <1>1, <1>2, <1>3, <2>1 DEF n
<1>5. kept \in 1..Len(name)
  <2> HIDE DEF Fits
  <2>1. QED
    BY <1>4
<1>6. TrimSlashes(name) = SubSeq(name, 1, kept)
  BY DEF TrimSlashes
<1> HIDE DEF kept
<1>7. SubSeq(name, 1, kept) \in Seq(Part) /\ Len(SubSeq(name, 1, kept)) # 0
  <2>1. kept \in Int /\ 1 <= kept /\ \A i \in 1..kept : name[i] \in Part
    BY <1>1, <1>5, ElementOfSeq DEF n
  <2>2. QED
    BY <2>1, SubSeqProperties
<1>8. QED
  BY <1>6, <1>7, EmptySeq DEF Name

LEMMA TrimmedIsName == TrimmedNames \subseteq Name
BY TrimDotsIsName, TrimSlashesIsName DEF TrimmedNames

(* The parts of a name that has no empty one are all of it.                *)
LEMMA ComponentsFacts ==
  ASSUME NEW name \in Seq(Part)
  PROVE  /\ Components(name) \in Seq(Part)
         /\ ~Contains(name, Empty) => Components(name) = name
<1> DEFINE n == Len(name)
           X == Seq(Part)
           none == <<>>
           G(i, x) == IF name[i] = Empty THEN x ELSE Append(x, name[i])
           Rule(f) == [i \in 0..n |->
             IF i = 0 THEN none
             ELSE IF name[i] = Empty THEN f[i - 1] ELSE Append(f[i - 1], name[i])]
           parts == CHOOSE f : f = Rule(f)
           next == [i \in Nat |-> [x \in X |-> IF i \in 1..n THEN G(i, x) ELSE x]]
<1>1. n \in Nat /\ \A i \in 1..n : name[i] \in Part
  BY LenProperties, ElementOfSeq
<1>2. Components(name) = parts[n]
  BY DEF Components
<1>3. none \in X
  BY EmptySeq
<1>4. \A i \in 1..n : \A x \in X : G(i, x) \in X
  BY <1>1, AppendProperties
<1> HIDE DEF n, none, G
<1>5. next \in [Nat -> [X -> X]]
  BY <1>4
<1>6. PICK f : Recursion(f, n, X, none, next)
  <2> HIDE DEF next
  <2>1. QED
    BY <1>1, <1>3, <1>5, RecursionExists
<1>7. f = Rule(f)
  <2>1. ASSUME NEW i \in 1..n PROVE f[i] = G(i, f[i - 1])
    <3>1. i \in Nat /\ i - 1 \in 0..n /\ f[i - 1] \in X
      BY <1>1, <1>6 DEF Recursion
    <3>2. f[i] = next[i][f[i - 1]]
      BY <1>6 DEF Recursion
    <3>3. QED
      BY <3>1, <3>2
  <2>2. \A i \in 0..n : i = 0 \/ i \in 1..n
    BY <1>1
  <2>3. \A i \in 0..n : f[i] = Rule(f)[i]
    BY <1>6, <2>1, <2>2 DEF Recursion, G
  <2>4. QED
    BY <1>6, <2>3 DEF Recursion
<1>8. parts = Rule(parts)
  <2> HIDE DEF Rule
  <2>1. QED
    BY <1>7
<1> HIDE DEF parts
<1>9. parts[0] = none
  BY <1>1, <1>8
<1>10. \A i \in 1..n : parts[i] = G(i, parts[i - 1])
  <2>1. \A i \in 1..n : i \in 0..n /\ i # 0
    BY <1>1
  <2>2. QED
    BY <1>8, <2>1 DEF G
<1>11. \A i \in 0..n : parts[i] \in X
  <2>1. parts[0] \in X /\ \A i \in 1..n : parts[i - 1] \in X => parts[i] \in X
    BY <1>3, <1>4, <1>9, <1>10
  <2>2. QED
    BY <1>1, <2>1, ValuesUpTo
<1>12. ASSUME ~Contains(name, Empty) PROVE parts[n] = name
  <2> DEFINE S == { i \in 0..n : parts[i] = SubSeq(name, 1, i) }
  <2>1. 0 \in S
    <3>1. 0 \in 0..n /\ 1 \in Int /\ 0 \in Int /\ 0 < 1
      BY <1>1
    <3>2. SubSeq(name, 1, 0) = <<>>
      BY <3>1, SubSeqEmpty
    <3>3. QED
      BY <1>9, <3>1, <3>2 DEF none
  <2>2. ASSUME NEW i \in 1..n, i - 1 \in S PROVE i \in S
    <3>1. i \in 0..n /\ i \in Nat /\ i - 1 \in 0..n /\ 1 \in 1..n
      BY <1>1
    <3>2. name[i] # Empty
      BY <1>12 DEF Contains, n
    <3>3. parts[i] = Append(parts[i - 1], name[i])
      BY <1>10, <3>2 DEF G
    <3>4. parts[i - 1] = SubSeq(name, 1, i - 1)
      BY <2>2
    <3>5. SubSeq(name, 1, i) = SubSeq(name, 1, i - 1) \o <<name[i]>>
      BY <1>1, <3>1, SubSeqRecursiveSecond DEF n
    <3>6. Append(parts[i - 1], name[i]) = parts[i - 1] \o <<name[i]>>
      BY <1>1, <1>11, <3>1, AppendIsConcat
    <3>7. QED
      BY <3>1, <3>3, <3>4, <3>5, <3>6
  <2>3. 0..n \subseteq S
    <3> HIDE DEF S
    <3>1. QED
      BY <1>1, <2>1, <2>2, UpTo
  <2>4. parts[n] = SubSeq(name, 1, n)
    BY <1>1, <2>3
  <2>5. QED
    BY <2>4, SubSeqFull DEF n
<1>13. QED
  BY <1>1, <1>2, <1>11, <1>12

(* What lies above a path, and above that.                                 *)
LEMMA AboveFacts ==
  ASSUME NEW path \in Seq(Part)
  PROVE  /\ path # <<>> => path \in Above(path)
         /\ \A k \in Above(path) : k \in Seq(Part) /\ Above(k) \subseteq Above(path)
<1> DEFINE n == Len(path)
<1>1. n \in Nat /\ \A i \in 1..n : path[i] \in Part
  BY LenProperties, ElementOfSeq
<1>2. ASSUME path # <<>> PROVE path \in Above(path)
  <2>1. n \in 1..n /\ SubSeq(path, 1, n) = path
    BY <1>1, <1>2, SubSeqFull, EmptySeq
  <2>2. QED
    BY <2>1 DEF Above
<1>3. ASSUME NEW m \in 1..n
      PROVE  /\ SubSeq(path, 1, m) \in Seq(Part) /\ Len(SubSeq(path, 1, m)) = m
             /\ \A i \in 1..m :
                  SubSeq(SubSeq(path, 1, m), 1, i) = SubSeq(path, 1, i)
  <2>1. m \in Int /\ 1 <= m /\ m <= n
    BY <1>1
  <2>2. \A i \in 1..m : path[i] \in Part
    BY <1>1, <2>1
  <2>3. SubSeq(path, 1, m) \in Seq(Part) /\ Len(SubSeq(path, 1, m)) = m
    BY <2>1, <2>2, SubSeqProperties
  <2>4. ASSUME NEW i \in 1..m
        PROVE  SubSeq(SubSeq(path, 1, m), 1, i) = SubSeq(path, 1, i)
    <3>1. 1 \in 1..n /\ 1 \in 1..(m - 1 + 1) /\ i \in 1..(m - 1 + 1)
          /\ 1 + 1 - 1 = 1 /\ 1 + i - 1 = i
      BY <1>1, <2>1
    <3>2. SubSeq(SubSeq(path, 1, m), 1, i) = SubSeq(path, 1 + 1 - 1, 1 + i - 1)
      BY <3>1, SubSeqOfSubSeq
    <3>3. QED
      BY <3>1, <3>2
  <2>5. QED
    BY <2>3, <2>4
<1>4. ASSUME NEW m \in 1..n
      PROVE  Above(SubSeq(path, 1, m)) \subseteq Above(path)
  <2>1. \A i \in 1..m : i \in 1..n
    BY <1>1
  <2>2. Above(SubSeq(path, 1, m)) = { SubSeq(path, 1, i) : i \in 1..m }
    BY <1>3 DEF Above
  <2>3. QED
    BY <2>1, <2>2 DEF Above
<1>5. QED
  BY <1>2, <1>3, <1>4 DEF Above

-----------------------------------------------------------------------------
(* What build_tree has made of the entries it has handled.  The kind of a  *)
(* node is that of the last entry of its name, and its place that of the   *)
(* last file: the two are kept apart, for a directory leaves the place.    *)
Plain(i) == ~Contains(entries[i].name, Empty)
SameName(i) == { j \in Handled : entries[j].name = entries[i].name }
Placed(i) ==
  LET name == entries[i].name
      files == { j \in SameName(i) : ~entries[j].is_dir }
  IN  /\ name \in DOMAIN nodes
      /\ (\A j \in SameName(i) : j <= i) =>
           nodes[name].is_directory = entries[i].is_dir
      /\ i \in files /\ (\A j \in files : j <= i) =>
           /\ nodes[name].file_location = entries[i].data_offset
           /\ nodes[name].file_length = entries[i].size

Closed == \A k \in DOMAIN nodes : Above(k) \subseteq DOMAIN nodes
Tree ==
  /\ built \in 0..Len(entries)
  /\ pc \in {"detect", "scan"} => built = 0
  /\ \A k \in DOMAIN nodes : nodes[k] \in Node
  /\ Closed
  /\ \A i \in Handled : Plain(i) => Placed(i)

LEMMA InitTree == Init => Tree
<1> SUFFICES ASSUME Init PROVE Tree
  OBVIOUS
<1>1. built = 0 /\ entries = <<>> /\ nodes = << >>
  BY DEF Init, InitReader
<1>2. DOMAIN nodes = {}
  BY <1>1
<1>3. Handled = {} /\ built \in 0..Len(entries)
  BY <1>1, EmptySeq DEF Handled
<1>4. QED
  BY <1>1, <1>2, <1>3 DEF Tree, Closed

(* A step of the scan leaves the tree empty.                               *)
LEMMA ScanKeepsTree ==
  ASSUME Tree, built = 0, UNCHANGED treeVars, Len(entries') \in Nat
  PROVE  Tree'
<1>1. built' = 0 /\ nodes' = nodes
  BY DEF treeVars
<1>2. Handled' = {}
  BY <1>1 DEF Handled
<1>3. Closed'
  BY <1>1 DEF Tree, Closed, Above
<1>4. QED
  BY <1>1, <1>2, <1>3 DEF Tree

LEMMA SameTree ==
  ASSUME Tree, UNCHANGED <<entries, treeVars>>,
         pc' \in {"detect", "scan"} => pc \in {"detect", "scan"}
  PROVE  Tree'
<1>1. UNCHANGED <<entries, built, nodes>>
  BY DEF treeVars
<1>2. Handled' = Handled
  BY <1>1 DEF Handled
<1>3. \A i \in Handled : Plain(i) => Plain(i)' /\ Placed(i)'
  BY <1>1, <1>2 DEF Tree, Plain, Placed, SameName, Contains
<1>4. \A i : Plain(i)' => Plain(i)
  BY <1>1 DEF Plain, Contains
<1>5. Closed'
  BY <1>1 DEF Tree, Closed, Above
<1>6. QED
  BY <1>1, <1>2, <1>3, <1>4, <1>5 DEF Tree

(* The map after an entry: its directories are there, other nodes stay.    *)
LEMMA GrownFacts ==
  ASSUME Tree, NEW entry \in EntryType
  PROVE  LET map == WithLeaf(Grown(nodes, entry.name), entry)
         IN  /\ DOMAIN map = DOMAIN nodes \cup KeysFor(entry.name)
             /\ \A k \in DOMAIN map : map[k] \in Node
             /\ \A k \in DOMAIN nodes : k # entry.name => map[k] = nodes[k]
             /\ entry.name \in DOMAIN map =>
                  /\ map[entry.name].is_directory = entry.is_dir
                  /\ ~entry.is_dir =>
                       /\ map[entry.name].file_location = entry.data_offset
                       /\ map[entry.name].file_length = entry.size
             /\ entry.name \in DOMAIN nodes /\ entry.is_dir =>
                  /\ map[entry.name].file_location
                       = nodes[entry.name].file_location
                  /\ map[entry.name].file_length = nodes[entry.name].file_length
<1> DEFINE grown == Grown(nodes, entry.name)
           map == WithLeaf(grown, entry)
           file == [ is_directory  |-> FALSE,
                     file_location |-> entry.data_offset,
                     file_length   |-> entry.size ]
<1>1. /\ DOMAIN grown = DOMAIN nodes \cup KeysFor(entry.name)
      /\ \A k \in DOMAIN nodes : grown[k] = nodes[k]
      /\ \A k \in DOMAIN grown : grown[k] \in Node
  <2>1. NewDirectory \in Node
    BY DEF NewDirectory, Node
  <2>2. \A k \in DOMAIN nodes : nodes[k] \in Node
    BY DEF Tree
  <2> HIDE DEF Node, NewDirectory
  <2>3. QED
    BY <2>1, <2>2 DEF Grown, Node
<1>2. /\ entry.is_dir \in BOOLEAN /\ entry.size \in Nat
      /\ entry.data_offset \in Nat
  BY DEF EntryType
<1>3. file \in Node
  BY <1>2 DEF Node
<1> HIDE DEF grown
<1>4. CASE entry.name \notin DOMAIN grown
  <2>1. map = grown
    BY <1>4 DEF WithLeaf
  <2>2. QED
    BY <1>1, <1>4, <2>1 DEF grown
<1>5. CASE entry.name \in DOMAIN grown /\ entry.is_dir
  <2> DEFINE old == grown[entry.name]
             new == [old EXCEPT !.is_directory = TRUE]
  <2>1. map = [grown EXCEPT ![entry.name] = new]
    BY <1>5 DEF WithLeaf
  <2>2. old \in Node
    BY <1>1, <1>5
  <2>3. /\ new \in Node /\ new.is_directory = TRUE
        /\ new.file_location = old.file_location
        /\ new.file_length = old.file_length
    BY <2>2 DEF Node
  <2> HIDE DEF new, map, Node
  <2>4. /\ DOMAIN map = DOMAIN grown /\ map[entry.name] = new
        /\ \A k \in DOMAIN grown : k # entry.name => map[k] = grown[k]
    BY <1>5, <2>1
  <2>5. QED
    BY <1>1, <1>5, <2>3, <2>4 DEF grown, map
<1>6. CASE entry.name \in DOMAIN grown /\ ~entry.is_dir
  <2>1. map = [grown EXCEPT ![entry.name] = file]
    BY <1>6 DEF WithLeaf
  <2>2. /\ file.is_directory = FALSE
        /\ file.file_location = entry.data_offset
        /\ file.file_length = entry.size
    OBVIOUS
  <2> HIDE DEF file, map, Node
  <2>3. /\ DOMAIN map = DOMAIN grown /\ map[entry.name] = file
        /\ \A k \in DOMAIN grown : k # entry.name => map[k] = grown[k]
    BY <1>6, <2>1
  <2>4. QED
    BY <1>1, <1>2, <1>3, <1>6, <2>2, <2>3 DEF grown, map
<1>7. QED
  BY <1>4, <1>5, <1>6

LEMMA BuildNodeKeepsTree == ASSUME Inv, Tree, BuildNode PROVE Tree'
<1> DEFINE b == built + 1
           entry == entries[b]
<1>1. /\ pc = "build" /\ built < Len(entries) /\ built' = b
      /\ nodes' = IF entry.name = NoName THEN nodes
                  ELSE WithLeaf(Grown(nodes, entry.name), entry)
      /\ UNCHANGED <<pc, entries>>
  BY DEF BuildNode, scanVars
<1>2. /\ entries \in Seq(EntryType) /\ Len(entries) \in Nat /\ built \in Nat
      /\ b \in 1..Len(entries)
  BY <1>1, LenProperties DEF Inv, Collected, Tree
<1>3. entry \in EntryType
  <2> HIDE DEF EntryType
  <2>1. QED
    BY <1>2, ElementOfSeq
<1>4. entry.name \in Seq(Part) /\ entry.name # <<>>
  BY <1>3, TrimmedIsName DEF EntryType, Name
<1>5. Handled' = IF entry.name = NoName THEN Handled ELSE Handled \cup {b}
  <2>1. \A i : i \in 1..b <=> i \in 1..built \/ i = b
    BY <1>2
  <2>2. QED
    BY <1>1, <2>1 DEF Handled
<1>6. \A i \in Handled : i \in Nat /\ i < b
  BY <1>2 DEF Handled
<1>7. CASE entry.name = NoName
  <2>1. nodes' = nodes /\ Handled' = Handled /\ entries' = entries
    BY <1>1, <1>5, <1>7
  <2>2. \A i : Plain(i)' <=> Plain(i)
    BY <2>1 DEF Plain, Contains
  <2>3. \A i \in Handled : Placed(i) => Placed(i)'
    BY <2>1 DEF Placed, SameName
  <2>4. Closed'
    BY <2>1 DEF Tree, Closed, Above
  <2>5. QED
    BY <1>1, <1>2, <2>1, <2>2, <2>3, <2>4 DEF Tree
<1>8. CASE entry.name # NoName
  <2> DEFINE map == WithLeaf(Grown(nodes, entry.name), entry)
  <2>1. nodes' = map /\ Handled' = Handled \cup {b}
    BY <1>1, <1>5, <1>8
  <2>2. /\ DOMAIN map = DOMAIN nodes \cup KeysFor(entry.name)
        /\ \A k \in DOMAIN map : map[k] \in Node
        /\ \A k \in DOMAIN nodes : k # entry.name => map[k] = nodes[k]
        /\ entry.name \in DOMAIN map =>
             /\ map[entry.name].is_directory = entry.is_dir
             /\ ~entry.is_dir =>
                  /\ map[entry.name].file_location = entry.data_offset
                  /\ map[entry.name].file_length = entry.size
        /\ entry.name \in DOMAIN nodes /\ entry.is_dir =>
             /\ map[entry.name].file_location = nodes[entry.name].file_location
             /\ map[entry.name].file_length = nodes[entry.name].file_length
    <3> HIDE DEF entry
    <3>1. QED
      BY <1>3, GrownFacts
  <2>3. Closed'
    <3>1. \A k \in KeysFor(entry.name) : Above(k) \subseteq KeysFor(entry.name)
      BY <1>4, ComponentsFacts, AboveFacts DEF KeysFor
    <3>2. \A k : Above(k)' = Above(k)
      BY DEF Above
    <3> HIDE DEF map, entry
    <3>3. QED
      BY <2>1, <2>2, <3>1, <3>2 DEF Tree, Closed
  <2>4. ~Contains(entry.name, Empty) => entry.name \in DOMAIN map
    <3>1. ~Contains(entry.name, Empty) => entry.name \in KeysFor(entry.name)
      BY <1>4, ComponentsFacts, AboveFacts DEF KeysFor
    <3>2. QED
      BY <2>2, <3>1
  <2> HIDE DEF map
  <2>5. ASSUME NEW i \in Handled', Plain(i)' PROVE Placed(i)'
    <3> DEFINE name == entries[i].name
    <3>1. entries' = entries /\ Plain(i)
      BY <1>1, <2>5 DEF Plain, Contains
    <3>2. SameName(i)' =
            IF name = entry.name THEN SameName(i) \cup {b} ELSE SameName(i)
      BY <2>1, <3>1 DEF SameName
    <3>3. CASE i = b
      <4>1. name = entry.name /\ name \in DOMAIN map
        BY <2>4, <3>1, <3>3 DEF Plain
      <4>2. QED
        BY <2>1, <2>2, <3>1, <3>3, <4>1 DEF Placed
    <3>4. CASE i # b /\ name # entry.name
      <4>1. i \in Handled /\ Placed(i)
        BY <2>1, <3>1, <3>4 DEF Tree
      <4>2. name \in DOMAIN nodes /\ name \in DOMAIN map /\ map[name] = nodes[name]
        BY <2>2, <3>4, <4>1 DEF Placed
      <4>3. SameName(i)' = SameName(i)
        BY <3>2, <3>4
      <4>4. QED
        BY <2>1, <3>1, <4>1, <4>2, <4>3 DEF Placed
    <3>5. CASE i # b /\ name = entry.name
      <4>1. i \in Handled /\ Placed(i)
        BY <2>1, <3>1, <3>5 DEF Tree
      <4>2. name \in DOMAIN nodes /\ name \in DOMAIN map
        BY <2>2, <4>1 DEF Placed
      <4>3. SameName(i)' = SameName(i) \cup {b} /\ ~(b <= i)
        BY <1>2, <1>6, <3>2, <3>5, <4>1
      <4>4. CASE entry.is_dir
        <5>1. /\ map[name].file_location = nodes[name].file_location
              /\ map[name].file_length = nodes[name].file_length
          BY <2>2, <3>5, <4>2, <4>4
        <5>2. { j \in SameName(i)' : ~entries[j].is_dir }
                = { j \in SameName(i) : ~entries[j].is_dir }
          BY <4>3, <4>4
        <5>3. QED
          BY <2>1, <3>1, <4>1, <4>2, <4>3, <5>1, <5>2 DEF Placed
      <4>5. CASE ~entry.is_dir
        <5>1. b \in { j \in SameName(i)' : ~entries[j].is_dir }
          BY <4>3, <4>5
        <5>2. QED
          BY <2>1, <3>1, <4>2, <4>3, <5>1 DEF Placed
      <4>6. QED
        BY <4>4, <4>5
    <3>6. QED
      BY <3>3, <3>4, <3>5
  <2>6. \A k \in DOMAIN nodes' : nodes'[k] \in Node
    BY <2>1, <2>2
  <2>7. QED
    BY <1>1, <1>2, <2>3, <2>5, <2>6 DEF Tree, Node
<1>9. QED
  BY <1>7, <1>8

(* Every node is attached, for what lies above it is in the map.           *)
LEMMA AttachKeepsTree == ASSUME Tree, Attach PROVE Tree'
<1>1. Attached(nodes) = DOMAIN nodes
  BY DEF Attached, Tree, Closed
<1>2. /\ DOMAIN nodes' = DOMAIN nodes
      /\ \A k \in DOMAIN nodes : nodes'[k] = nodes[k]
      /\ pc' = "done" /\ UNCHANGED <<entries, built>>
  BY <1>1 DEF Attach, scanVars
<1>3. Handled' = Handled
  BY <1>2 DEF Handled
<1>4. \A i : Plain(i)' <=> Plain(i)
  BY <1>2 DEF Plain, Contains
<1>5. \A i \in Handled : Placed(i) => Placed(i)'
  <2> TAKE i \in Handled
  <2>1. SameName(i)' = SameName(i)
    BY <1>2, <1>3 DEF SameName
  <2>2. QED
    BY <1>2, <2>1 DEF Placed
<1>6. Closed'
  BY <1>2 DEF Tree, Closed, Above
<1>7. QED
  BY <1>2, <1>3, <1>4, <1>5, <1>6 DEF Tree, Node

LEMMA NextTree == Inv /\ Inv' /\ Tree /\ [Next]_vars => Tree'
<1> SUFFICES ASSUME Inv, Inv', Tree, [Next]_vars PROVE Tree'
  OBVIOUS
<1>1. CASE Detect \/ NotDetected \/ ScanFails \/ NotTar \/ PayloadTruncated
           \/ UNCHANGED vars
  <2>1. /\ UNCHANGED <<entries, treeVars>>
        /\ pc' \in {"detect", "scan"} => pc \in {"detect", "scan"}
    BY <1>1 DEF Detect, NotDetected, ScanFails, NotTar, PayloadTruncated, Stop,
       vars, scanVars
  <2>2. QED
    BY <2>1, SameTree
<1>2. CASE ScanEnds \/ FirstZeroBlock \/ Override \/ LongLink \/ Member
  <2>1. pc = "scan" /\ UNCHANGED treeVars
    BY <1>2 DEF ScanEnds, FirstZeroBlock, Override, LongLink, Member, AtHeader,
       Skip
  <2>2. Len(entries') \in Nat
    BY LenProperties DEF Inv, Collected
  <2>3. built = 0
    BY <2>1 DEF Tree
  <2>4. QED
    BY <2>1, <2>2, <2>3, ScanKeepsTree
<1>3. QED
  BY <1>1, <1>2, BuildNodeKeepsTree, AttachKeepsTree DEF Next

LEMMA TreeImplies == Inv /\ Tree => LastEntryWins
<1> SUFFICES ASSUME Inv, Tree, NEW i \in Handled, Plain(i),
                    \A j \in SameName(i) : j <= i
             PROVE  LET name == entries[i].name
                        files == { j \in SameName(i) : ~entries[j].is_dir }
                    IN  /\ name \in DOMAIN nodes
                        /\ nodes[name].is_directory = entries[i].is_dir
                        /\ \A f \in files : (\A j \in files : j <= f) =>
                             /\ nodes[name].file_location = entries[f].data_offset
                             /\ nodes[name].file_length = entries[f].size
  BY DEF LastEntryWins, Plain, SameName
<1>1. Placed(i)
  BY DEF Tree
<1>2. \A f \in SameName(i) :
        /\ f \in Handled /\ entries[f].name = entries[i].name
        /\ SameName(f) = SameName(i) /\ Plain(f)
  BY DEF SameName, Plain
<1>3. \A f \in SameName(i) : Placed(f)
  BY <1>2 DEF Tree
<1>4. QED
  BY <1>1, <1>2, <1>3 DEF Placed

-----------------------------------------------------------------------------
(* The inductive invariant: what is pending is what the headers since the  *)
(* last entry override, and every entry is that of a header the scanner    *)
(* has passed, with its payload, before it came to the next.               *)
THEOREM Invariance == Spec => []Inv
<1>1. QED
  BY InitInv, NextInv, PTL DEF Spec

(* Of every archive: the name and the size of an entry are what the last   *)
(* long name or PAX header before it overrides them with, no other entry   *)
(* lying between, or else its own (pending_name and pending_size of        *)
(* scan_entries in tar.rs).                                                *)
THEOREM OverridesReach == Spec => []OverridesReachNextEntry
<1>1. QED
  BY Invariance, InvImplies, PTL

(* Of every archive: entries come out in the order of their headers, and   *)
(* unless an override gives it more bytes than its header counts, the data *)
(* of an entry end before the next header (scan_entries of tar.rs).        *)
THEOREM EntriesStayApart == Spec => []EntriesApart
<1>1. QED
  BY Invariance, InvImplies, PTL

(* The invariant of the tree: it holds all that lies above each of its     *)
(* nodes, and each node is what the entries handled so far say.            *)
THEOREM TreeInvariance == Spec => []Tree
<1>1. Inv /\ Tree /\ [Next]_vars => (Inv /\ Tree)'
  BY NextInv, NextTree
<1>2. QED
  BY <1>1, InitInv, InitTree, PTL DEF Spec

(* Of every archive, its entries in any order and of any kind: the node at *)
(* a name has the kind of the last entry of that name and the place of the *)
(* last file among them (build_tree of tar.rs).                            *)
THEOREM LastWins == Spec => []LastEntryWins
<1>1. QED
  BY Invariance, TreeInvariance, TreeImplies, PTL

-----------------------------------------------------------------------------
HeaderFor(i) ==
  HeaderBlock(TRUE, "file", Cut[members[i].name], members[i].size, NoBody)

(* What has been written is a beginning of the whole archive: the header   *)
(* and the data of every member, then zero blocks.                         *)
Layout ==
  /\ IsSequence(archive)
  /\ \A i \in 1..Len(members) :
       /\ Taken(i - 1) < Len(archive) => Block(Taken(i - 1)) = HeaderFor(i)
       /\ \A k \in 1..Len(members[i].data) :
            Taken(i - 1) + k < Len(archive) =>
              Block(Taken(i - 1) + k) = members[i].data[k]
  /\ \A p \in 0..(Len(archive) - 1) : Taken(Len(members)) <= p =>
       Block(p) = ZeroBlock

(* How much of it that is.                                                 *)
Progress ==
  /\ next_member \in 1..(Len(members) + 1) /\ copied \in Nat
  /\ CASE w_pc = "entry" ->
            copied = 0 /\ Len(archive) = Taken(next_member - 1)
       [] w_pc = "data" ->
            /\ next_member <= Len(members)
            /\ copied <= Len(members[next_member].data)
            /\ Len(archive) = Taken(next_member - 1) + 1 + copied
       [] w_pc = "trailer" ->
            copied = 1 /\ Len(archive) = Taken(Len(members)) + 1
       [] OTHER ->
            w_result = "Ok" => Len(archive) = Taken(Len(members)) + 2
  /\ w_pc # "done" => w_result # "Ok"

(* The reader stands before the header of the first member it has not      *)
(* read, or in what follows the last one.                                  *)
Found == Len(entries)
Reading ==
  /\ entries \in Seq({ Expected(i) : i \in 1..Len(members) })
  /\ Found <= Len(members)
  /\ \A i \in 1..Found : entries[i] = Expected(i)
  /\ Found # 0 => Taken(Found - 1) < Len(archive)
  /\ pc # "done" => result = "none"
  /\ pc \in {"detect", "scan"} =>
       /\ pending_name = NoValue /\ pending_size = NoValue
       /\ \/ consecutive_zero = 0 /\ pos = Taken(Found)
          \/ /\ consecutive_zero = 1 /\ Found = Len(members)
             /\ pos = Taken(Found) + 1
  /\ pc \in {"build", "done"} /\ w_result = "Ok" /\ result # "Io" =>
       Found = Len(members)

-----------------------------------------------------------------------------
(* A sequence with one more element.                                       *)
LEMMA AppendSequence ==
  ASSUME NEW s, IsSequence(s), NEW e
  PROVE  /\ IsSequence(Append(s, e))
         /\ Len(Append(s, e)) = Len(s) + 1
         /\ \A i \in 1..Len(s) : Append(s, e)[i] = s[i]
         /\ Append(s, e)[Len(s) + 1] = e
<1> DEFINE S == { s[i] : i \in 1..Len(s) } \cup {e}
<1>1. Len(s) \in Nat /\ s = [i \in 1..Len(s) |-> s[i]]
  BY DEF IsSequence
<1>2. \A i \in 1..Len(s) : s[i] \in S
  OBVIOUS
<1>3. e \in S
  OBVIOUS
<1> HIDE DEF S
<1>4. s \in [1..Len(s) -> S]
  BY <1>1, <1>2
<1>5. s \in Seq(S)
  BY <1>1, <1>4, SeqDef
<1>6. /\ Append(s, e) \in Seq(S) /\ Len(Append(s, e)) = Len(s) + 1
      /\ \A i \in 1..Len(s) : Append(s, e)[i] = s[i]
      /\ Append(s, e)[Len(s) + 1] = e
  BY <1>3, <1>5, AppendProperties
<1>7. /\ Len(Append(s, e)) \in Nat
      /\ Append(s, e) \in [1..Len(Append(s, e)) -> S]
  BY <1>6, LenProperties
<1>8. Append(s, e) = [i \in 1..Len(Append(s, e)) |-> Append(s, e)[i]]
  BY <1>7
<1>9. QED
  BY <1>6, <1>7, <1>8 DEF IsSequence

(* What is written.                                                        *)
LEMMA MemberFacts ==
  ASSUME members \in Writes
  PROVE  /\ Len(members) \in Nat
         /\ \A i \in 1..Len(members) :
              /\ IsSequence(members[i].data)
              /\ Len(members[i].data) \in Nat
              /\ Len(members[i].data) = Blocks(members[i].size)
              /\ Cut[members[i].name] \in Name
<1>1. IsSequence(members) /\ \A i \in DOMAIN members : IsMember(members[i])
  BY WritesAssumption
<1>2. Len(members) \in Nat /\ DOMAIN members = 1..Len(members)
  BY <1>1 DEF IsSequence
<1>3. QED
  BY <1>1, <1>2 DEF IsMember, IsSequence

(* Where the members lie, one after the other.                             *)
LEMMA TakenFacts ==
  ASSUME members \in Writes
  PROVE  /\ Taken(0) = 0
         /\ \A i \in 0..Len(members) : Taken(i) \in Nat
         /\ \A i \in 1..Len(members) :
              Taken(i) = Taken(i - 1) + 1 + Len(members[i].data)
         /\ \A i, j \in 0..Len(members) : i <= j => Taken(i) <= Taken(j)
<1> DEFINE n == Len(members)
           G(i, x) == IF i \in 1..n THEN x + 1 + Len(members[i].data) ELSE 0
           Rule(f) == [k \in 0..n |->
             IF k = 0 THEN 0 ELSE f[k - 1] + 1 + Len(members[k].data)]
           blocks == CHOOSE f : f = Rule(f)
           next == [i \in Nat |-> [x \in Nat |-> G(i, x)]]
<1>1. n \in Nat /\ \A i \in 1..n : Len(members[i].data) \in Nat
  BY MemberFacts
<1>2. \A i : Taken(i) = blocks[i]
  BY DEF Taken
<1>3. next \in [Nat -> [Nat -> Nat]]
  <2>1. ASSUME NEW i \in Nat, NEW x \in Nat PROVE G(i, x) \in Nat
    <3>1. i \in 1..n => Len(members[i].data) \in Nat
      BY <1>1
    <3> DEFINE l == Len(members[i].data)
    <3> HIDE DEF n, l
    <3>2. l \in Nat => x + 1 + l \in Nat
      OBVIOUS
    <3>3. QED
      BY <3>1, <3>2 DEF l
  <2> HIDE DEF G
  <2>2. QED
    BY <2>1
<1>4. PICK f : Recursion(f, n, Nat, 0, next)
  <2> HIDE DEF next, n
  <2>1. 0 \in Nat
    OBVIOUS
  <2>2. QED
    BY <1>1, <1>3, <2>1, RecursionExists
<1> HIDE DEF n
<1>5. f = Rule(f)
  <2>1. ASSUME NEW i \in 1..n PROVE f[i] = f[i - 1] + 1 + Len(members[i].data)
    <3>1. i \in Nat /\ i - 1 \in 0..n /\ f[i - 1] \in Nat
      BY <1>1, <1>4 DEF Recursion
    <3>2. QED
      BY <1>4, <3>1 DEF Recursion
  <2>2. \A i \in 0..n : i = 0 \/ i \in 1..n
    BY <1>1
  <2>3. \A i \in 0..n : f[i] = Rule(f)[i]
    BY <1>4, <2>1, <2>2 DEF Recursion
  <2>4. QED
    BY <1>4, <2>3 DEF Recursion
<1>6. blocks = Rule(blocks)
  <2> HIDE DEF Rule
  <2>1. QED
    BY <1>5
<1> HIDE DEF blocks
<1>7. blocks[0] = 0
  BY <1>1, <1>6
<1>8. \A i \in 1..n : blocks[i] = blocks[i - 1] + 1 + Len(members[i].data)
  <2>1. \A i \in 1..n : i \in 0..n /\ i # 0
    BY <1>1
  <2>2. QED
    BY <1>6, <2>1
<1>9. \A i \in 0..n : blocks[i] \in Nat
  <2>1. blocks[0] \in Nat /\ \A i \in 1..n : blocks[i - 1] \in Nat => blocks[i] \in Nat
    BY <1>1, <1>7, <1>8
  <2>2. QED
    BY <1>1, <2>1, ValuesUpTo
<1>10. ASSUME NEW i \in 0..n PROVE \A j \in 0..n : i <= j => blocks[i] <= blocks[j]
  <2> DEFINE S == { j \in 0..n : i <= j => blocks[i] <= blocks[j] }
  <2>1. 0 \in S
    BY <1>1, <1>9
  <2>2. ASSUME NEW j \in 1..n, j - 1 \in S PROVE j \in S
    <3>1. /\ j \in 0..n /\ j - 1 \in 0..n
          /\ blocks[j] \in Nat /\ blocks[j - 1] \in Nat /\ blocks[i] \in Nat
      BY <1>1, <1>9
    <3>2. blocks[j - 1] <= blocks[j]
      <4>1. blocks[j] = blocks[j - 1] + 1 + Len(members[j].data)
        BY <1>8
      <4>2. Len(members[j].data) \in Nat
        BY <1>1
      <4>3. QED
        BY <3>1, <4>1, <4>2
    <3>3. i <= j - 1 => blocks[i] <= blocks[j - 1]
      BY <2>2
    <3>4. i <= j => blocks[i] <= blocks[j]
      BY <3>1, <3>2, <3>3
    <3>5. QED
      BY <3>1, <3>4
  <2>3. 0..n \subseteq S
    <3> HIDE DEF S
    <3>1. QED
      BY <1>1, <2>1, <2>2, UpTo
  <2>4. QED
    BY <2>3
<1>11. QED
  BY <1>2, <1>7, <1>8, <1>9, <1>10 DEF n

(* Members do not overlap, and nothing of them lies behind the last.       *)
LEMMA Apart ==
  ASSUME members \in Writes, NEW i \in 1..Len(members)
  PROVE  /\ Taken(i - 1) \in Nat /\ Len(members[i].data) \in Nat
         /\ Taken(i) = Taken(i - 1) + 1 + Len(members[i].data)
         /\ Taken(i) <= Taken(Len(members)) /\ Taken(Len(members)) \in Nat
         /\ \A j \in 1..Len(members) : i < j => Taken(i) <= Taken(j - 1)
<1>1. Len(members) \in Nat
  BY MemberFacts
<1>2. /\ i \in 0..Len(members) /\ i - 1 \in 0..Len(members)
      /\ Len(members) \in 0..Len(members)
  BY <1>1
<1>3. \A j \in 1..Len(members) : i < j => j - 1 \in 0..Len(members) /\ i <= j - 1
  BY <1>1
<1>4. QED
  BY <1>1, <1>2, <1>3, TakenFacts, MemberFacts

(* A block that is written is that of one member and before the trailer.   *)
LEMMA Position ==
  ASSUME members \in Writes, NEW i \in 1..Len(members),
         NEW k \in 0..Len(members[i].data)
  PROVE  /\ Taken(i - 1) + k \in Nat /\ Taken(i - 1) + k < Taken(Len(members))
         /\ \A j \in 1..Len(members) : \A c \in 0..Len(members[j].data) :
              Taken(i - 1) + k = Taken(j - 1) + c => i = j /\ k = c
<1> DEFINE a == Taken(i - 1)
           l == Len(members[i].data)
           t == Taken(i)
           last == Taken(Len(members))
<1>1. /\ a \in Nat /\ l \in Nat /\ t = a + 1 + l /\ t <= last /\ last \in Nat
      /\ \A j \in 1..Len(members) : i < j => t <= Taken(j - 1)
  BY Apart
<1>2. k \in Nat /\ k <= l
  BY <1>1
<1>3. ASSUME NEW j \in 1..Len(members), NEW c \in 0..Len(members[j].data),
             a + k = Taken(j - 1) + c
      PROVE  i = j /\ k = c
  <2> DEFINE b == Taken(j - 1)
             m == Len(members[j].data)
             u == Taken(j)
  <2>1. b \in Nat /\ m \in Nat /\ u = b + 1 + m /\ (j < i => u <= a)
    BY Apart
  <2>2. c \in Nat /\ c <= m
    BY <2>1
  <2>3. i \in Nat /\ j \in Nat
    BY MemberFacts
  <2>4. i < j => t <= b
    BY <1>1
  <2>5. a + k = b + c
    BY <1>3
  <2>6. i = j => a = b
    OBVIOUS
  <2> HIDE DEF a, b, l, m, t, u
  <2>7. QED
    BY <1>1, <1>2, <2>1, <2>2, <2>3, <2>4, <2>5, <2>6
<1>4. a + k \in Nat /\ a + k < last
  <2> HIDE DEF a, l, t, last
  <2>1. QED
    BY <1>1, <1>2
<1>5. QED
  BY <1>3, <1>4

-----------------------------------------------------------------------------
(* A block is appended where it belongs.                                   *)
Belongs(b) ==
  LET end == Len(archive)
  IN  /\ \A i \in 1..Len(members) :
           /\ Taken(i - 1) = end => b = HeaderFor(i)
           /\ \A k \in 1..Len(members[i].data) :
                Taken(i - 1) + k = end => b = members[i].data[k]
      /\ Taken(Len(members)) <= end => b = ZeroBlock

(* The block at place c of a member, its header or one of its data.        *)
LEMMA PlaceBelongs ==
  ASSUME members \in Writes, NEW j \in 1..Len(members),
         NEW c \in 0..Len(members[j].data), Len(archive) = Taken(j - 1) + c,
         NEW b, b = IF c = 0 THEN HeaderFor(j) ELSE members[j].data[c]
  PROVE  Belongs(b)
<1>1. /\ ~(Taken(Len(members)) <= Len(archive)) /\ Len(archive) \in Nat
      /\ \A i \in 1..Len(members) : \A k \in 0..Len(members[i].data) :
           Len(archive) = Taken(i - 1) + k => j = i /\ c = k
  <2>1. /\ Len(archive) < Taken(Len(members)) /\ Len(archive) \in Nat
        /\ \A i \in 1..Len(members) : \A k \in 0..Len(members[i].data) :
             Len(archive) = Taken(i - 1) + k => j = i /\ c = k
    BY Position
  <2>2. Taken(Len(members)) \in Nat
    BY Apart
  <2>3. QED
    BY <2>1, <2>2
<1>2. ASSUME NEW i \in 1..Len(members), Taken(i - 1) = Len(archive)
      PROVE  b = HeaderFor(i)
  <2>1. 0 \in 0..Len(members[i].data) /\ Taken(i - 1) + 0 = Len(archive)
    BY <1>1, <1>2, Apart
  <2>2. j = i /\ c = 0
    BY <1>1, <2>1
  <2>3. QED
    BY <2>2
<1>3. ASSUME NEW i \in 1..Len(members), NEW k \in 1..Len(members[i].data),
             Taken(i - 1) + k = Len(archive)
      PROVE  b = members[i].data[k]
  <2>1. k \in 0..Len(members[i].data) /\ k # 0
    BY Apart
  <2>2. j = i /\ c = k
    BY <1>1, <1>3, <2>1
  <2>3. QED
    BY <2>1, <2>2
<1>4. QED
  BY <1>1, <1>2, <1>3 DEF Belongs

LEMMA LayoutAppend ==
  ASSUME members \in Writes, Layout, NEW b, Belongs(b),
         archive' = Append(archive, b), members' = members
  PROVE  Layout' /\ Len(archive') = Len(archive) + 1
<1> DEFINE new == Append(archive, b)
           E == Len(archive)
<1>1. IsSequence(archive) /\ E \in Nat
  BY DEF Layout, IsSequence
<1>2. /\ IsSequence(new) /\ Len(new) = E + 1 /\ new[E + 1] = b
      /\ \A i \in 1..E : new[i] = archive[i]
  BY <1>1, AppendSequence
<1> HIDE DEF new
<1>3. archive' = new
  BY DEF new
<1>4. \A p \in Nat : p < E => new[p + 1] = Block(p)
  BY <1>1, <1>2 DEF Block
<1>5. ASSUME NEW i \in 1..Len(members)
      PROVE  /\ Taken(i - 1) < E + 1 => new[Taken(i - 1) + 1] = HeaderFor(i)
             /\ \A k \in 1..Len(members[i].data) : Taken(i - 1) + k < E + 1 =>
                  new[Taken(i - 1) + k + 1] = members[i].data[k]
  <2>1. Taken(i - 1) \in Nat /\ Len(members[i].data) \in Nat
    BY Apart
  <2>2. Taken(i - 1) < E + 1 => new[Taken(i - 1) + 1] = HeaderFor(i)
    <3>1. CASE Taken(i - 1) = E
      BY <1>2, <3>1 DEF Belongs
    <3>2. CASE Taken(i - 1) # E
      BY <1>1, <1>4, <2>1, <3>2 DEF Layout
    <3>3. QED
      BY <3>1, <3>2
  <2>3. ASSUME NEW k \in 1..Len(members[i].data), Taken(i - 1) + k < E + 1
        PROVE  new[Taken(i - 1) + k + 1] = members[i].data[k]
    <3>1. Taken(i - 1) + k \in Nat
      BY <2>1
    <3>2. CASE Taken(i - 1) + k = E
      BY <1>2, <3>2 DEF Belongs
    <3>3. CASE Taken(i - 1) + k # E
      BY <1>1, <1>4, <2>3, <3>1, <3>3 DEF Layout
    <3>4. QED
      BY <3>2, <3>3
  <2>4. QED
    BY <2>2, <2>3
<1>6. ASSUME NEW p \in 0..((E + 1) - 1), Taken(Len(members)) <= p
      PROVE  new[p + 1] = ZeroBlock
  <2>1. CASE p = E
    BY <1>2, <1>6, <2>1 DEF Belongs
  <2>2. CASE p # E
    BY <1>1, <1>4, <1>6, <2>2 DEF Layout
  <2>3. QED
    BY <2>1, <2>2
<1>7. (\A i : Taken(i)' = Taken(i)) /\ \A i : HeaderFor(i)' = HeaderFor(i)
  BY DEF Taken, HeaderFor
<1>8. QED
  BY <1>2, <1>3, <1>5, <1>6, <1>7 DEF Layout, Block

(* A step of the writer leaves the reader where it begins.                 *)
Begins ==
  /\ pc = "detect" /\ entries = <<>> /\ pos = 0 /\ consecutive_zero = 0
  /\ pending_name = NoValue /\ pending_size = NoValue /\ result = "none"

LEMMA BeginsReading == ASSUME members \in Writes, Begins PROVE Reading
<1>1. Len(members) \in Nat /\ Taken(0) = 0
  BY TakenFacts, MemberFacts
<1>2. entries \in Seq({ Expected(i) : i \in 1..Len(members) }) /\ Found = 0
  BY EmptySeq DEF Begins, Found
<1>3. QED
  BY <1>1, <1>2 DEF Reading, Begins

(* While the writer runs the reader has not begun.                         *)
Writing == w_pc # "done" => Begins
OwnInv == members \in Writes /\ Layout /\ Progress /\ Reading /\ Writing

LEMMA HeaderKeeps ==
  ASSUME members \in Writes, Layout, Progress, WriteHeader
  PROVE  Layout' /\ Progress'
<1> DEFINE n == next_member
           b == HeaderFor(n)
<1>1. /\ w_pc = "entry" /\ n \in 1..Len(members) /\ Len(archive) = Taken(n - 1)
      /\ archive' = Append(archive, b) /\ w_pc' = "data" /\ copied = 0
      /\ UNCHANGED <<members, next_member, copied, w_result>>
  BY MemberFacts DEF WriteHeader, Progress, HeaderFor
<1>2. Belongs(b)
  <2>1. 0 \in 0..Len(members[n].data) /\ Len(archive) = Taken(n - 1) + 0
    BY <1>1, Apart
  <2> HIDE DEF b
  <2>2. QED
    BY <1>1, <2>1, PlaceBelongs DEF b
<1>3. Layout' /\ Len(archive') = Len(archive) + 1
  BY <1>1, <1>2, LayoutAppend
<1>4. \A i : Taken(i)' = Taken(i)
  BY <1>1 DEF Taken
<1>5. Len(members[n].data) \in Nat /\ Taken(n - 1) \in Nat
  BY <1>1, Apart
<1>6. QED
  BY <1>1, <1>3, <1>4, <1>5 DEF Progress

LEMMA DataKeeps ==
  ASSUME members \in Writes, Layout, Progress, WriteData
  PROVE  Layout' /\ Progress'
<1> DEFINE n == next_member
           c == copied + 1
           b == members[n].data[c]
<1>1. /\ w_pc = "data" /\ n \in 1..Len(members) /\ c \in 1..Len(members[n].data)
      /\ Len(archive) = Taken(n - 1) + c /\ copied \in Nat
      /\ archive' = Append(archive, b) /\ w_pc' = "data" /\ copied' = c
      /\ UNCHANGED <<members, next_member, w_result>>
  <2>1. /\ w_pc = "data" /\ n \in 1..(Len(members) + 1) /\ n <= Len(members)
        /\ copied \in Nat /\ copied < Len(members[n].data)
        /\ Len(archive) = Taken(n - 1) + 1 + copied
        /\ archive' = Append(archive, b) /\ copied' = c
        /\ UNCHANGED <<members, w_pc, next_member, w_result>>
    BY DEF WriteData, Progress
  <2>2. n \in 1..Len(members)
    BY <2>1, MemberFacts
  <2>3. Len(members[n].data) \in Nat /\ Taken(n - 1) \in Nat
    BY <2>2, Apart
  <2>4. QED
    BY <2>1, <2>2, <2>3
<1>2. Belongs(b)
  <2>1. c \in 0..Len(members[n].data) /\ c # 0
    BY <1>1, Apart
  <2> HIDE DEF b, c
  <2>2. QED
    BY <1>1, <2>1, PlaceBelongs DEF b
<1>3. Layout' /\ Len(archive') = Len(archive) + 1
  BY <1>1, <1>2, LayoutAppend
<1>4. \A i : Taken(i)' = Taken(i)
  BY <1>1 DEF Taken
<1>5. Len(members[n].data) \in Nat /\ Taken(n - 1) \in Nat
  BY <1>1, Apart
<1>6. w_result' # "Ok"
  BY <1>1 DEF Progress
<1>7. Len(archive') = Taken(n - 1) + 1 + c
  BY <1>1, <1>3, <1>5
<1>8. n <= Len(members) /\ c <= Len(members[n].data) /\ c \in Nat
      /\ n \in 1..(Len(members) + 1)
  BY <1>1, <1>5, MemberFacts
<1> HIDE DEF c
<1>9. QED
  BY <1>1, <1>3, <1>4, <1>6, <1>7, <1>8 DEF Progress

LEMMA EntryWrittenKeeps ==
  ASSUME members \in Writes, Layout, Progress, EntryWritten
  PROVE  Layout' /\ Progress'
<1> DEFINE n == next_member
<1>1. /\ w_pc = "data" /\ n \in 1..Len(members) /\ Len(members) \in Nat
      /\ copied = Len(members[n].data)
      /\ Len(archive) = Taken(n - 1) + 1 + copied
      /\ w_pc' = "entry" /\ next_member' = n + 1 /\ copied' = 0
      /\ UNCHANGED <<archive, members, w_result>>
  BY MemberFacts DEF EntryWritten, Progress
<1>2. (\A i : Taken(i)' = Taken(i)) /\ (\A i : HeaderFor(i)' = HeaderFor(i))
  BY <1>1 DEF Taken, HeaderFor
<1>3. Layout'
  BY <1>1, <1>2 DEF Layout, Block
<1>4. Taken(n) = Taken(n - 1) + 1 + Len(members[n].data)
  BY <1>1, Apart
<1>5. (n + 1) - 1 = n /\ n + 1 \in 1..(Len(members) + 1)
  BY <1>1
<1>6. QED
  BY <1>1, <1>2, <1>3, <1>4, <1>5 DEF Progress

LEMMA TrailerKeeps ==
  ASSUME members \in Writes, Layout, Progress, WriteTrailer
  PROVE  Layout' /\ Progress'
<1> DEFINE last == Len(members)
<1>1. /\ last \in Nat /\ Taken(last) \in Nat /\ copied \in 0..1
      /\ next_member \in 1..(last + 1)
      /\ Len(archive) = Taken(last) + copied
      /\ archive' = Append(archive, ZeroBlock)
      /\ copied' = copied + 1
      /\ IF copied = 1 THEN w_pc' = "done" /\ w_result' = "Ok"
                       ELSE w_pc' = "trailer" /\ w_result' = w_result
      /\ w_result # "Ok" /\ UNCHANGED <<members, next_member>>
  <2>1. last \in Nat /\ last \in 0..last
    BY MemberFacts
  <2>2. Taken(last) \in Nat
    BY <2>1, TakenFacts
  <2>3. CASE w_pc = "entry"
    <3>1. next_member - 1 = last
      BY <2>1, <2>3 DEF WriteTrailer, Progress
    <3>2. QED
      BY <2>1, <2>2, <2>3, <3>1 DEF WriteTrailer, Progress
  <2>4. CASE w_pc = "trailer"
    BY <2>1, <2>2, <2>4 DEF WriteTrailer, Progress
  <2>5. QED
    BY <2>3, <2>4 DEF WriteTrailer
<1>2. Belongs(ZeroBlock)
  <2>1. ASSUME NEW i \in 1..last
        PROVE  /\ Taken(i - 1) # Len(archive)
               /\ \A k \in 1..Len(members[i].data) : Taken(i - 1) + k # Len(archive)
    <3>1. Taken(last) <= Len(archive) /\ Len(archive) \in Nat
      BY <1>1
    <3>2. ASSUME NEW k \in 0..Len(members[i].data)
          PROVE  Taken(i - 1) + k # Len(archive)
      BY <1>1, <3>1, Position
    <3>3. Taken(i - 1) + 0 = Taken(i - 1) /\ Len(members[i].data) \in Nat
      BY Apart
    <3>4. QED
      BY <3>2, <3>3
  <2>2. QED
    BY <2>1 DEF Belongs
<1>3. Layout' /\ Len(archive') = Len(archive) + 1
  BY <1>1, <1>2, LayoutAppend
<1>4. (\A i : Taken(i)' = Taken(i)) /\ last' = last
  BY <1>1 DEF Taken
<1>5. CASE copied = 0
  BY <1>1, <1>3, <1>4, <1>5 DEF Progress
<1>6. CASE copied = 1
  BY <1>1, <1>3, <1>4, <1>6 DEF Progress
<1>7. QED
  BY <1>1, <1>5, <1>6

LEMMA WriteFailsKeeps ==
  ASSUME members \in Writes, Layout, Progress, WriteFails
  PROVE  Layout' /\ Progress'
<1>1. /\ UNCHANGED <<archive, members, next_member, copied>>
      /\ w_pc' = "done" /\ w_result' = "Err"
  BY DEF WriteFails
<1>2. (\A i : Taken(i)' = Taken(i)) /\ (\A i : HeaderFor(i)' = HeaderFor(i))
  BY <1>1 DEF Taken, HeaderFor
<1>3. Layout'
  BY <1>1, <1>2 DEF Layout, Block
<1>4. QED
  BY <1>1, <1>3 DEF Progress

LEMMA WriterKeeps ==
  ASSUME OwnInv, WriterNext, UNCHANGED <<pc, scanVars, treeVars, result>>
  PROVE  OwnInv'
<1>1. members' = members
  BY DEF WriterNext, WriteHeader, WriteData, EntryWritten, WriteTrailer,
     WriteFails
<1>2. w_pc # "done"
  BY DEF WriterNext, WriteHeader, WriteData, EntryWritten, WriteTrailer,
     WriteFails
<1>3. Begins'
  BY <1>2 DEF OwnInv, Writing, Begins, scanVars
<1>4. Layout' /\ Progress'
  BY HeaderKeeps, DataKeeps, EntryWrittenKeeps, TrailerKeeps, WriteFailsKeeps
     DEF WriterNext, OwnInv
<1>5. members' \in Writes
  BY <1>1 DEF OwnInv
<1>6. Reading'
  <2>1. (members \in Writes /\ Begins => Reading)'
    BY BeginsReading, PTL
  <2>2. QED
    BY <1>3, <1>5, <2>1
<1>7. QED
  BY <1>3, <1>4, <1>5, <1>6 DEF OwnInv, Writing

-----------------------------------------------------------------------------
(* What the reader finds behind the members it has read: the header of the *)
(* next one, or the trailer.                                               *)
LEMMA NextHeader ==
  ASSUME OwnInv, pc \in {"detect", "scan"}, pos < Len(archive)
  PROVE  /\ Len(archive) \in Nat /\ pos \in Nat
         /\ \/ /\ Found < Len(members) /\ pos = Taken(Found)
               /\ consecutive_zero = 0
               /\ Block(pos) = HeaderFor(Found + 1)
            \/ Found = Len(members) /\ Block(pos) = ZeroBlock
<1>1. Len(archive) \in Nat /\ Len(members) \in Nat /\ Found \in 0..Len(members)
  <2>1. Len(archive) \in Nat /\ Len(members) \in Nat
    BY MemberFacts DEF OwnInv, Layout, IsSequence
  <2>2. Found \in Nat
    BY LenProperties DEF OwnInv, Reading, Found
  <2>3. QED
    BY <2>1, <2>2 DEF OwnInv, Reading
<1>2. Taken(Found) \in Nat
  BY <1>1, TakenFacts DEF OwnInv
<1>3. \/ consecutive_zero = 0 /\ pos = Taken(Found)
      \/ Found = Len(members) /\ pos = Taken(Found) + 1
  BY DEF OwnInv, Reading
<1>4. CASE Found = Len(members)
  <2>1. pos \in 0..(Len(archive) - 1) /\ Taken(Len(members)) <= pos
    BY <1>1, <1>2, <1>3, <1>4
  <2>2. Block(pos) = ZeroBlock
    BY <2>1 DEF OwnInv, Layout
  <2>3. QED
    BY <1>1, <1>4, <2>1, <2>2
<1>5. CASE Found # Len(members)
  <2>1. consecutive_zero = 0 /\ pos = Taken(Found)
    BY <1>3, <1>5
  <2>2. Found + 1 \in 1..Len(members) /\ (Found + 1) - 1 = Found
    BY <1>1, <1>5
  <2>3. Block(Taken(Found)) = HeaderFor(Found + 1)
    BY <2>1, <2>2 DEF OwnInv, Layout
  <2>4. QED
    BY <1>1, <1>2, <1>5, <2>1, <2>3
<1>6. QED
  BY <1>4, <1>5

LEMMA HeadFacts ==
  ASSUME NEW i
  PROVE  /\ HeaderFor(i).zero = FALSE /\ HeaderFor(i).magic = TRUE
         /\ HeaderFor(i).typeflag = "file" /\ HeaderFor(i).size = members[i].size
         /\ HeaderFor(i).name = Cut[members[i].name]
         /\ HeaderFor(i) # ZeroBlock /\ HasMagic(HeaderFor(i))
<1>1. /\ HeaderFor(i).zero = FALSE /\ HeaderFor(i).magic = TRUE
      /\ HeaderFor(i).typeflag = "file" /\ HeaderFor(i).size = members[i].size
      /\ HeaderFor(i).name = Cut[members[i].name]
  BY DEF HeaderFor, HeaderBlock
<1>2. ZeroBlock.zero = TRUE
  BY DEF ZeroBlock
<1>3. QED
  BY <1>1, <1>2 DEF HasMagic

(* What no step of the reader changes.                                     *)
LEMMA ReaderFrame ==
  ASSUME OwnInv, UNCHANGED <<archive, writerVars>>
  PROVE  /\ members' \in Writes /\ Layout' /\ Progress'
         /\ members' = members /\ archive' = archive /\ w_pc' = w_pc
         /\ w_result' = w_result
         /\ \A i : Taken(i)' = Taken(i) /\ Expected(i)' = Expected(i)
<1>1. UNCHANGED <<archive, members, w_pc, next_member, copied, w_result>>
  BY DEF writerVars
<1>2. \A i : Taken(i)' = Taken(i) /\ HeaderFor(i)' = HeaderFor(i)
  BY <1>1 DEF Taken, HeaderFor
<1>3. \A i : Expected(i)' = Expected(i)
  BY <1>1, <1>2 DEF Expected
<1>4. Layout'
  BY <1>1, <1>2 DEF OwnInv, Layout, Block
<1>5. Progress'
  BY <1>1, <1>2 DEF OwnInv, Progress
<1>6. QED
  BY <1>1, <1>2, <1>3, <1>4, <1>5 DEF OwnInv

(* A step that finds no member.                                            *)
LEMMA SameReading ==
  ASSUME OwnInv, UNCHANGED <<archive, writerVars, entries>>,
         pc' # "done" => result' = "none",
         pc' \in {"detect", "scan"} =>
           /\ pending_name' = NoValue /\ pending_size' = NoValue
           /\ \/ consecutive_zero' = 0 /\ pos' = Taken(Found)
              \/ /\ consecutive_zero' = 1 /\ Found = Len(members)
                 /\ pos' = Taken(Found) + 1,
         pc' \in {"build", "done"} /\ w_result = "Ok" /\ result' # "Io" =>
           Found = Len(members)
  PROVE  Reading'
<1>1. /\ members' = members /\ archive' = archive /\ w_result' = w_result
      /\ \A i : Taken(i)' = Taken(i) /\ Expected(i)' = Expected(i)
  BY ReaderFrame
<1>2. Found' = Found
  BY DEF Found
<1>3. { Expected(i) : i \in 1..Len(members) }' = { Expected(i) : i \in 1..Len(members) }
  BY <1>1
<1>4. /\ entries' \in Seq({ Expected(i) : i \in 1..Len(members) }')
      /\ Found' <= Len(members')
      /\ \A i \in 1..Found' : entries'[i] = Expected(i)'
  BY <1>1, <1>2, <1>3 DEF OwnInv, Reading
<1>5. (Found # 0 => Taken(Found - 1) < Len(archive))'
  <2>1. (Taken(Found - 1))' = Taken(Found - 1)
    BY <1>1, <1>2 DEF Taken
  <2>2. QED
    BY <1>1, <1>2, <2>1 DEF OwnInv, Reading
<1>6. (Taken(Found))' = Taken(Found)
  BY <1>1, <1>2 DEF Taken
<1>7. QED
  BY <1>1, <1>2, <1>4, <1>5, <1>6 DEF Reading

LEMMA SameFound ==
  ASSUME OwnInv, w_pc = "done", UNCHANGED <<archive, writerVars, entries>>,
         pc' # "done" => result' = "none",
         pc' \in {"detect", "scan"} =>
           /\ pending_name' = NoValue /\ pending_size' = NoValue
           /\ \/ consecutive_zero' = 0 /\ pos' = Taken(Found)
              \/ /\ consecutive_zero' = 1 /\ Found = Len(members)
                 /\ pos' = Taken(Found) + 1,
         pc' \in {"build", "done"} /\ w_result = "Ok" /\ result' # "Io" =>
           Found = Len(members)
  PROVE  OwnInv'
<1>1. members' \in Writes /\ Layout' /\ Progress' /\ w_pc' = w_pc
  BY ReaderFrame
<1>2. Reading'
  BY SameReading
<1>3. QED
  BY <1>1, <1>2 DEF OwnInv, Writing

(* The end of a complete archive is not met before the last member.        *)
LEMMA EndIsBehind ==
  ASSUME OwnInv, w_pc = "done", pc = "scan", w_result = "Ok",
         pos >= Len(archive)
  PROVE  FALSE
<1>1. Len(archive) = Taken(Len(members)) + 2
  BY DEF OwnInv, Progress
<1>2. Len(members) \in Nat /\ Found \in 0..Len(members)
  <2>1. Found \in Nat
    BY LenProperties DEF OwnInv, Reading, Found
  <2>2. QED
    BY <2>1, MemberFacts DEF OwnInv, Reading
<1>3. /\ Taken(Found) \in Nat /\ Taken(Len(members)) \in Nat
      /\ Taken(Found) <= Taken(Len(members))
  BY <1>2, TakenFacts DEF OwnInv
<1>4. pos \in {Taken(Found), Taken(Found) + 1}
  BY DEF OwnInv, Reading
<1>5. QED
  BY <1>1, <1>3, <1>4

LEMMA ReaderQuietKeeps ==
  ASSUME OwnInv, w_pc = "done", UNCHANGED writerVars,
         Detect \/ NotDetected \/ ScanFails \/ ScanEnds \/ FirstZeroBlock
           \/ BuildNode \/ Attach
  PROVE  OwnInv'
<1>1. CASE Detect
  BY <1>1, SameFound DEF Detect, scanVars, OwnInv, Reading
<1>2. CASE NotDetected
  <2>1. pc = "detect" /\ pc' = "done" /\ UNCHANGED <<archive, entries>>
    BY <1>2 DEF NotDetected, Stop, scanVars
  <2>2. CASE Len(archive) = 0
    BY <1>2, <2>1, <2>2, SameFound DEF NotDetected, Stop
  <2>3. CASE Len(archive) # 0
    <3>1. ~HasMagic(Block(0))
      BY <1>2, <2>3 DEF NotDetected
    <3>2. Len(members) \in Nat /\ Taken(0) = 0 /\ Len(archive) \in Nat
      BY TakenFacts, MemberFacts DEF OwnInv, Layout, IsSequence
    <3>3. CASE Len(members) = 0
      <4>1. Found = Len(members)
        BY <3>2, <3>3, LenProperties DEF OwnInv, Reading, Found
      <4>2. QED
        BY <2>1, <4>1, SameFound
    <3>4. CASE Len(members) # 0
      <4>1. 1 \in 1..Len(members) /\ 1 - 1 = 0 /\ 0 < Len(archive)
        BY <2>3, <3>2, <3>4
      <4>2. Block(0) = HeaderFor(1)
        BY <3>2, <4>1 DEF OwnInv, Layout
      <4>3. QED
        BY <3>1, <4>2, HeadFacts
    <3>5. QED
      BY <3>3, <3>4
  <2>4. QED
    BY <2>2, <2>3
<1>3. CASE ScanFails
  BY <1>3, SameFound DEF ScanFails, Stop, scanVars
<1>4. CASE ScanEnds
  <2>1. pc = "scan" /\ pc' = "build" /\ UNCHANGED <<archive, entries>>
    BY <1>4 DEF ScanEnds
  <2>2. w_result = "Ok" => Found = Len(members)
    <3>1. CASE pos >= Len(archive)
      BY <2>1, <3>1, EndIsBehind
    <3>2. CASE ~(pos >= Len(archive))
      BY <1>4, <2>1, <3>2 DEF ScanEnds, OwnInv, Reading
    <3>3. QED
      BY <3>1, <3>2
  <2>3. result' = "none"
    BY <1>4, <2>1 DEF ScanEnds, OwnInv, Reading
  <2>4. QED
    BY <2>1, <2>2, <2>3, SameFound
<1>5. CASE FirstZeroBlock
  <2>1. /\ pc = "scan" /\ pc' = "scan" /\ pos < Len(archive)
        /\ Block(pos) = ZeroBlock /\ consecutive_zero = 0
        /\ pos' = pos + 1 /\ consecutive_zero' = 1
        /\ UNCHANGED <<archive, entries, pending_name, pending_size>>
    BY <1>5 DEF FirstZeroBlock
  <2>2. Found = Len(members)
    BY <2>1, NextHeader, HeadFacts
  <2>3. /\ pending_name = NoValue /\ pending_size = NoValue
        /\ pos = Taken(Found) /\ result' = "none"
    BY <1>5, <2>1 DEF OwnInv, Reading, FirstZeroBlock
  <2>4. QED
    BY <2>1, <2>2, <2>3, SameFound
<1>6. CASE BuildNode \/ Attach
  <2>1. /\ pc = "build" /\ pc' \in {"build", "done"}
        /\ UNCHANGED <<archive, entries>>
    BY <1>6 DEF BuildNode, Attach, scanVars
  <2>2. result = "none" /\ (pc' # "done" => result' = "none")
    BY <1>6, <2>1 DEF BuildNode, Attach, OwnInv, Reading
  <2>3. w_result = "Ok" => Found = Len(members)
    BY <2>1, <2>2 DEF OwnInv, Reading
  <2>4. QED
    BY <2>1, <2>2, <2>3, SameFound
<1>7. QED
  BY <1>1, <1>2, <1>3, <1>4, <1>5, <1>6

(* The reader takes every block it stops at for what it was written as.    *)
LEMMA NoOtherHeader ==
  ASSUME OwnInv
  PROVE  ~(NotTar \/ Override \/ PayloadTruncated \/ LongLink)
<1> SUFFICES ASSUME AtHeader, \/ Refused(Block(pos))
                              \/ Block(pos).typeflag \in {"longname", "pax", "longlink"}
             PROVE  FALSE
  BY DEF NotTar, Override, PayloadTruncated, LongLink
<1>1. pc = "scan" /\ pos < Len(archive) /\ Block(pos) # ZeroBlock
  BY DEF AtHeader
<1>2. Block(pos) = HeaderFor(Found + 1)
  BY <1>1, NextHeader
<1>3. Block(pos).magic = TRUE /\ Block(pos).typeflag = "file"
  BY <1>2, HeadFacts
<1>4. QED
  BY <1>3 DEF Refused

LEMMA MemberIsExpected ==
  ASSUME OwnInv, Member
  PROVE  LET n == Found + 1
         IN  /\ n \in 1..Len(members) /\ pc = "scan" /\ pc' = "scan"
             /\ Taken(n - 1) < Len(archive)
             /\ entries' = Append(entries, Expected(n))
             /\ pending_name' = NoValue /\ pending_size' = NoValue
             /\ consecutive_zero' = 0 /\ pos' = Taken(n)
             /\ UNCHANGED <<archive, result>>
<1> DEFINE n == Found + 1
           b == Block(pos)
<1>1. /\ pc = "scan" /\ pos < Len(archive) /\ b # ZeroBlock
      /\ pending_name' = NoValue /\ pending_size' = NoValue
      /\ consecutive_zero' = 0 /\ pos' = PastPayload(pos) /\ pc' = "scan"
      /\ UNCHANGED <<archive, result>>
      /\ entries' = IF b.typeflag = "other" /\ ~EntryAt(pos).is_dir
                      THEN entries ELSE Append(entries, EntryAt(pos))
  BY DEF Member, AtHeader, Skip, TakePending
<1>2. Found < Len(members) /\ pos = Taken(Found) /\ b = HeaderFor(n)
  BY <1>1, NextHeader
<1>3. n \in 1..Len(members) /\ n - 1 = Found
  <2>1. Found \in Nat
    BY LenProperties DEF OwnInv, Reading, Found
  <2>2. QED
    BY <1>2, <2>1, MemberFacts DEF OwnInv
<1>4. /\ b.typeflag = "file" /\ b.size = members[n].size
      /\ b.name = Cut[members[n].name]
  BY <1>2, HeadFacts
<1>5. pending_name = NoValue /\ pending_size = NoValue
  BY <1>1 DEF OwnInv, Reading
<1>6. EntryAt(pos) = Expected(n)
  <2>1. ValueOr(pending_name, b.name) = Cut[members[n].name]
        /\ ValueOr(pending_size, b.size) = members[n].size
    BY <1>4, <1>5 DEF ValueOr
  <2>2. DataStart(pos) = Taken(n - 1) + 1
    BY <1>2, <1>3 DEF DataStart
  <2>3. \A name : (b.typeflag = "dir" \/ EndsWithSlash(name)) = EndsWithSlash(name)
    BY <1>4 DEF EndsWithSlash
  <2> HIDE DEF b, n
  <2>4. QED
    BY <2>1, <2>2, <2>3 DEF EntryAt, Expected, b
<1>7. pos' = Taken(n)
  <2>1. Len(members[n].data) = Blocks(members[n].size)
    BY <1>3, MemberFacts DEF OwnInv
  <2>2. Taken(n) = Taken(n - 1) + 1 + Len(members[n].data)
    BY <1>3, Apart DEF OwnInv
  <2>3. QED
    BY <1>1, <1>2, <1>3, <1>4, <2>1, <2>2 DEF PastPayload
<1>8. entries' = Append(entries, Expected(n))
  BY <1>1, <1>4, <1>6
<1>9. QED
  BY <1>1, <1>2, <1>3, <1>7, <1>8

LEMMA MemberKeepsOrder ==
  ASSUME OwnInv, w_pc = "done", UNCHANGED writerVars, Member
  PROVE  OwnInv'
<1> DEFINE n == Found + 1
           S == { Expected(i) : i \in 1..Len(members) }
<1>1. /\ n \in 1..Len(members) /\ pc = "scan" /\ pc' = "scan"
      /\ Taken(n - 1) < Len(archive)
      /\ entries' = Append(entries, Expected(n))
      /\ pending_name' = NoValue /\ pending_size' = NoValue
      /\ consecutive_zero' = 0 /\ pos' = Taken(n)
      /\ UNCHANGED <<archive, result>>
  BY MemberIsExpected
<1>2. /\ members' \in Writes /\ Layout' /\ Progress'
      /\ members' = members /\ archive' = archive /\ w_pc' = w_pc
      /\ w_result' = w_result
      /\ \A i : Taken(i)' = Taken(i) /\ Expected(i)' = Expected(i)
  BY <1>1, ReaderFrame
<1>3. entries \in Seq(S) /\ Expected(n) \in S /\ Found \in Nat
  BY <1>1, LenProperties DEF OwnInv, Reading, Found
<1> HIDE DEF S
<1>4. /\ Append(entries, Expected(n)) \in Seq(S)
      /\ Len(Append(entries, Expected(n))) = n
      /\ \A i \in 1..Found : Append(entries, Expected(n))[i] = entries[i]
      /\ Append(entries, Expected(n))[n] = Expected(n)
  BY <1>3, AppendProperties DEF Found
<1>5. /\ entries' \in Seq(S) /\ Found' = n /\ entries'[n] = Expected(n)
      /\ \A i \in 1..Found : entries'[i] = entries[i]
  BY <1>1, <1>4 DEF Found
<1>6. \A i \in 1..Found' : entries'[i] = Expected(i)'
  <2>1. \A i \in 1..Found : entries[i] = Expected(i)
    BY DEF OwnInv, Reading
  <2>2. \A i \in 1..n : i = n \/ i \in 1..Found
    BY <1>3
  <2>3. QED
    BY <1>2, <1>5, <2>1, <2>2
<1>7. S' = S
  BY <1>2 DEF S
<1>8. (Taken(Found))' = Taken(n) /\ (Taken(Found - 1))' = Taken(n - 1)
  BY <1>2, <1>5 DEF Taken
<1>9. n <= Len(members) /\ pc # "done" /\ result = "none"
  BY <1>1, MemberFacts DEF OwnInv, Reading
<1>10. Reading'
  <2>1. (entries \in Seq(S))'
    BY <1>5, <1>7
  <2> HIDE DEF n
  <2>2. QED
    BY <1>1, <1>2, <1>5, <1>6, <1>8, <1>9, <2>1 DEF Reading, S
<1>11. QED
  BY <1>2, <1>10 DEF OwnInv, Writing

LEMMA NextOrder ==
  ASSUME OwnInv, [RoundTripNext]_allVars
  PROVE  OwnInv'
<1>1. CASE ~Written /\ WriterNext /\ UNCHANGED <<pc, scanVars, treeVars, result>>
  BY <1>1, WriterKeeps
<1>2. CASE Written /\ Next /\ UNCHANGED writerVars
  BY <1>2, NoOtherHeader, MemberKeepsOrder, ReaderQuietKeeps DEF Written, Next
<1>3. CASE UNCHANGED allVars
  <2>1. /\ UNCHANGED <<archive, writerVars, pc, pos, consecutive_zero,
                       pending_name, pending_size, entries, result>>
        /\ UNCHANGED <<members, w_pc>>
    BY <1>3 DEF allVars, vars, scanVars, writerVars
  <2>2. /\ members' \in Writes /\ Layout' /\ Progress'
        /\ \A i : Taken(i)' = Taken(i) /\ Expected(i)' = Expected(i)
    BY <2>1, ReaderFrame
  <2>3. Reading'
    BY <2>1, SameReading DEF OwnInv, Reading
  <2>4. Writing'
    BY <2>1 DEF OwnInv, Writing, Begins
  <2>5. QED
    BY <2>2, <2>3, <2>4 DEF OwnInv
<1>4. QED
  BY <1>1, <1>2, <1>3 DEF RoundTripNext

-----------------------------------------------------------------------------
(* The data of a member are there when the next header is, or the trailer. *)
LEMMA OrderImplies ==
  ASSUME OwnInv, members # <<>> PROVE ReadsBackInOrder
<1>1. /\ Len(members) \in Nat /\ Len(archive) \in Nat /\ IsSequence(archive)
      /\ Found \in 0..Len(members) /\ DOMAIN entries = 1..Found
  <2>1. Found \in Nat /\ DOMAIN entries = 1..Found
    BY LenProperties DEF OwnInv, Reading, Found
  <2>2. QED
    BY <2>1, MemberFacts DEF OwnInv, Reading, Layout, IsSequence
<1>2. ASSUME NEW i \in 1..Found, i < Found \/ w_result = "Ok"
      PROVE  DataIsThere(i)
  <2> DEFINE from == Taken(i - 1) + 1
             data == members[i].data
             l == Len(data)
             E == Len(archive)
             S == { data[k] : k \in 1..l }
  <2>1. i \in 1..Len(members)
    BY <1>1
  <2>2. entries[i].data_offset = from
    <3>1. entries[i] = Expected(i)
      BY DEF OwnInv, Reading
    <3>2. QED
      BY <3>1 DEF Expected
  <2>3. /\ Taken(i - 1) \in Nat /\ l \in Nat
        /\ Taken(i) = from + l
        /\ Taken(i) <= Taken(Len(members)) /\ Taken(Len(members)) \in Nat
        /\ \A j \in 1..Len(members) : i < j => Taken(i) <= Taken(j - 1)
    BY <2>1, Apart DEF OwnInv
  <2>4. from + l <= E
    <3>1. CASE i < Found
      <4>1. Found \in 1..Len(members) /\ Found # 0
        BY <1>1, <3>1
      <4>2. Taken(Found - 1) < E
        BY <4>1 DEF OwnInv, Reading
      <4>3. Taken(i) <= Taken(Found - 1) /\ Taken(Found - 1) \in Nat
        BY <2>3, <3>1, <4>1, Apart DEF OwnInv
      <4>4. QED
        BY <1>1, <2>3, <4>2, <4>3
    <3>2. CASE w_result = "Ok"
      <4>1. E = Taken(Len(members)) + 2
        BY <3>2 DEF OwnInv, Progress
      <4>2. QED
        BY <2>3, <4>1
    <3>3. QED
      BY <1>2, <3>1, <3>2
  <2>5. \A k \in 1..l : archive[from + k] = data[k]
    <3> TAKE k \in 1..l
    <3> DEFINE a == Taken(i - 1)
    <3>1. a + k < E /\ (a + k) + 1 = from + k
      <4>1. a \in Nat /\ l \in Nat /\ from = a + 1 /\ k \in Nat /\ k <= l
        BY <2>3
      <4> HIDE DEF a, l, from
      <4>2. QED
        BY <1>1, <2>4, <4>1
    <3>2. Block(Taken(i - 1) + k) = data[k]
      BY <2>1, <3>1 DEF OwnInv, Layout
    <3>3. QED
      BY <3>1, <3>2 DEF Block
  <2>6. IsSequence(data)
    BY <2>1, MemberFacts DEF OwnInv
  <2> HIDE DEF data, from
  <2>7. data \in Seq(S)
    <3>1. data = [k \in 1..l |-> data[k]]
      BY <2>6 DEF IsSequence
    <3>2. data \in [1..l -> S]
      BY <3>1
    <3>3. QED
      BY <2>3, <3>2, SeqDef
  <2> DEFINE piece == SubSeq(archive, from + 1, from + l)
  <2>8. from \in Nat
    BY <2>3 DEF from
  <2>9. \A x \in (from + 1)..(from + l) : archive[x] \in S
    <3> TAKE x \in (from + 1)..(from + l)
    <3>1. x - from \in 1..l /\ from + (x - from) = x
      BY <2>3, <2>8
    <3>2. archive[x] = data[x - from]
      BY <2>5, <3>1
    <3>3. QED
      BY <3>1, <3>2
  <2> HIDE DEF S, l
  <2>10. /\ piece \in Seq(S)
         /\ Len(piece) = IF from + 1 <= from + l THEN (from + l) - (from + 1) + 1 ELSE 0
         /\ \A x \in 1..((from + l) - (from + 1) + 1) :
              piece[x] = archive[(from + 1) + x - 1]
    <3>1. from + 1 \in Int /\ from + l \in Int
      BY <2>3, <2>8
    <3>2. QED
      BY <2>9, <3>1, SubSeqProperties
  <2> HIDE DEF piece
  <2>11. Len(piece) = l
    BY <2>3, <2>8, <2>10
  <2>12. ASSUME NEW x \in 1..l PROVE piece[x] = data[x]
    <3>1. /\ x \in 1..((from + l) - (from + 1) + 1)
          /\ (from + 1) + x - 1 = from + x
      BY <2>3, <2>8
    <3>2. QED
      BY <2>5, <2>10, <3>1
  <2>13. piece = data
    <3>1. Len(data) = l
      BY DEF l
    <3>2. QED
      BY <2>7, <2>10, <2>11, <2>12, <3>1, SeqEqual
  <2>14. QED
    BY <2>2, <2>13 DEF DataIsThere, piece, data, l
<1>3. \A i \in 1..Found : entries[i] = Expected(i)
  BY DEF OwnInv, Reading
<1>4. w_result = "Ok" /\ pc \in {"build", "done"} /\ result # "Io"
        => Found = Len(members)
  BY DEF OwnInv, Reading
<1>5. Found <= Len(members)
  BY <1>1
<1>6. QED
  BY <1>1, <1>2, <1>3, <1>4, <1>5 DEF ReadsBackInOrder, Found

RoundTripInv == members # <<>> => OwnInv

(* Of every list of members, whatever their data holds, headers and zero   *)
(* blocks included, and wherever the output fails: the reader finds the    *)
(* members in order from the first and nothing else, each with its data,   *)
(* all of them if the archive is complete (write and scan_entries of       *)
(* tar.rs).                                                                *)
THEOREM WritingIsReadBack == RoundTripSpec => []ReadsBackInOrder
<1>1. RoundTripInit => RoundTripInv
  <2> SUFFICES ASSUME RoundTripInit, members # <<>> PROVE OwnInv
    BY DEF RoundTripInv
  <2>1. /\ archive = <<>> /\ members \in Writes /\ w_pc = "entry"
        /\ next_member = 1 /\ copied = 0 /\ w_result = "none" /\ Begins
    BY DEF RoundTripInit, Foreign, InitWriter, InitReader, Begins
  <2>2. Len(members) \in Nat /\ Taken(0) = 0
    BY <2>1, TakenFacts, MemberFacts
  <2>3. IsSequence(archive) /\ Len(archive) = 0
    <3>1. archive \in Seq({}) /\ Len(archive) = 0
      BY <2>1, EmptySeq
    <3>2. archive = [i \in 1..0 |-> archive[i]]
      BY <2>1, <3>1, LenProperties
    <3>3. QED
      BY <3>1, <3>2 DEF IsSequence
  <2>4. Layout
    <3>1. \A i \in 1..Len(members) : Taken(i - 1) \in Nat /\ Len(members[i].data) \in Nat
      BY <2>1, Apart
    <3>2. ASSUME NEW i \in 1..Len(members)
          PROVE  /\ ~(Taken(i - 1) < 0)
                 /\ \A k \in 1..Len(members[i].data) : ~(Taken(i - 1) + k < 0)
      BY <3>1
    <3>3. QED
      BY <2>3, <3>2 DEF Layout
  <2>5. Progress
    BY <2>1, <2>2, <2>3 DEF Progress
  <2>6. Reading
    BY <2>1, BeginsReading
  <2>7. QED
    BY <2>1, <2>4, <2>5, <2>6 DEF OwnInv, Writing
<1>2. RoundTripInv /\ [RoundTripNext]_allVars => RoundTripInv'
  <2>1. ASSUME [RoundTripNext]_allVars PROVE members' = members
    <3>1. UNCHANGED writerVars => members' = members
      BY DEF writerVars
    <3>2. QED
      BY <2>1, <3>1 DEF RoundTripNext, allVars, WriterNext, WriteHeader,
         WriteData, EntryWritten, WriteTrailer, WriteFails
  <2>2. QED
    BY <2>1, NextOrder DEF RoundTripInv
<1>3. RoundTripInv => ReadsBackInOrder
  BY OrderImplies DEF RoundTripInv, ReadsBackInOrder
<1>4. QED
  BY <1>1, <1>2, <1>3, PTL DEF RoundTripSpec
=============================================================================
