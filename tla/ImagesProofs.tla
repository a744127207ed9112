---------------------------- MODULE ImagesProofs ----------------------------
(***************************************************************************)
(* What the readers of Images return, proved for every set of images and   *)
(* every value of the constants.                                           *)
(***************************************************************************)
EXTENDS Images, Lemmas

-----------------------------------------------------------------------------
(* The places of a set, in order.                                          *)
LEMMA NthFacts ==
  ASSUME NEW n \in Nat, NEW S \in SUBSET (1..n)
  PROVE  /\ Cardinality(S) \in Nat
         /\ \A k \in 1..Cardinality(S) : Nth(S, k) \in S /\ CountTo(S, Nth(S, k)) = k
         /\ \A i \in S : CountTo(S, i) \in 1..Cardinality(S) /\ Nth(S, CountTo(S, i)) = i
         /\ \A j, k \in 1..Cardinality(S) : Nth(S, j) = Nth(S, k) => j = k
<1>1. IsFiniteSet(S) /\ Cardinality(S) \in Nat
  <2>1. IsFiniteSet(1..n)
    BY FS_Interval
  <2>2. IsFiniteSet(S)
    BY <2>1, FS_Subset
  <2>3. QED
    BY <2>2, FS_CardinalityType
<1>2. /\ \A k \in S : CountTo(S, k) \in 1..Cardinality(S)
      /\ \A r \in 1..Cardinality(S) : \E k \in S : CountTo(S, k) = r
  BY Counting
<1>3. S \in SUBSET (Nat \ {0})
  OBVIOUS
<1>4. \A i, j \in S : CountTo(S, i) = CountTo(S, j) => i = j
  BY <1>3, CountOrder
<1>5. \A k : Nth(S, k) = CHOOSE i \in S : CountTo(S, i) = k
  BY DEF Nth, CountTo
<1>6. ASSUME NEW k \in 1..Cardinality(S)
      PROVE  Nth(S, k) \in S /\ CountTo(S, Nth(S, k)) = k
  <2>1. \E i \in S : CountTo(S, i) = k
    BY <1>2
  <2>2. QED
    BY <1>5, <2>1
<1>7. ASSUME NEW i \in S
      PROVE  CountTo(S, i) \in 1..Cardinality(S) /\ Nth(S, CountTo(S, i)) = i
  BY <1>2, <1>4, <1>6
<1>8. \A j, k \in 1..Cardinality(S) : Nth(S, j) = Nth(S, k) => j = k
  BY <1>6
<1>9. QED
  BY <1>1, <1>6, <1>7, <1>8

(* The elements that are chosen of a sequence.                             *)
LEMMA ChosenFacts ==
  ASSUME NEW X, NEW s \in Seq(X), NEW S \in SUBSET (DOMAIN s)
  PROVE  /\ Chosen(s, S) \in Seq(X) /\ Len(Chosen(s, S)) = Cardinality(S)
         /\ Cardinality(S) \in Nat
         /\ \A k \in 1..Cardinality(S) :
              /\ Nth(S, k) \in S /\ Chosen(s, S)[k] = s[Nth(S, k)]
              /\ CountTo(S, Nth(S, k)) = k
         /\ \A i \in S : \E k \in 1..Cardinality(S) : Nth(S, k) = i
         /\ \A j, k \in 1..Cardinality(S) : Nth(S, j) = Nth(S, k) => j = k
<1>1. Len(s) \in Nat /\ DOMAIN s = 1..Len(s) /\ \A i \in 1..Len(s) : s[i] \in X
  BY LenProperties, ElementOfSeq
<1>2. S \in SUBSET (1..Len(s))
  BY <1>1
<1>3. /\ Cardinality(S) \in Nat
      /\ \A k \in 1..Cardinality(S) : Nth(S, k) \in S /\ CountTo(S, Nth(S, k)) = k
      /\ \A i \in S : CountTo(S, i) \in 1..Cardinality(S) /\ Nth(S, CountTo(S, i)) = i
      /\ \A j, k \in 1..Cardinality(S) : Nth(S, j) = Nth(S, k) => j = k
  BY <1>1, <1>2, NthFacts
<1>4. Chosen(s, S) = [k \in 1..Cardinality(S) |-> s[Nth(S, k)]]
  BY DEF Chosen
<1>5. \A k \in 1..Cardinality(S) : s[Nth(S, k)] \in X
  BY <1>1, <1>2, <1>3
<1>6. Chosen(s, S) \in [1..Cardinality(S) -> X]
  BY <1>4, <1>5
<1>7. Chosen(s, S) \in Seq(X) /\ Len(Chosen(s, S)) = Cardinality(S)
  BY <1>3, <1>6, SeqDef, LenProperties
<1>8. QED
  BY <1>3, <1>4, <1>7

-----------------------------------------------------------------------------
(* Sums of the sizes of nodes.                                             *)
Counted(ns, S) == [k \in 1..Len(ns) |-> IF k \in S THEN ns[k].size ELSE 0]

LEMMA TotalFacts ==
  ASSUME NEW ns, Sized(ns), NEW S
  PROVE  \E f \in [0..Len(ns) -> Nat] :
           /\ f[0] = 0 /\ \A k \in 1..Len(ns) : f[k] = f[k - 1] + Counted(ns, S)[k]
           /\ TotalSize(ns, S) = f[Len(ns)]
<1> DEFINE n == Len(ns)
           part(k) == IF k \in S THEN ns[k].size ELSE 0
           Rule(f) == [k \in 0..n |-> IF k = 0 THEN 0 ELSE f[k - 1] + part(k)]
           sum == CHOOSE f : f = Rule(f)
<1>1. n \in Nat /\ \A k \in 1..n : part(k) \in Nat /\ part(k) = Counted(ns, S)[k]
  BY DEF Sized, Counted
<1>2. TotalSize(ns, S) = sum[n]
  BY DEF TotalSize
<1> DEFINE size == Counted(ns, S)
<1>3. \A k \in 1..n : size[k] \in Nat
  BY <1>1
<1>4. PICK g : g \in [0..n -> Nat] /\ Sums(g, n, size)
  <2> HIDE DEF n, size
  <2>1. QED
    BY <1>1, <1>3, SumsExist
<1>5. g = Rule(g)
  <2>1. \A k \in 0..n : g[k] = IF k = 0 THEN 0 ELSE g[k - 1] + part(k)
    <3>1. \A k \in 0..n : k = 0 \/ k \in 1..n
      BY <1>1
    <3> HIDE DEF part, n
    <3>2. QED
      BY <1>1, <1>4, <3>1 DEF Sums
  <2> HIDE DEF part, n
  <2>2. QED
    BY <1>4, <2>1
<1> HIDE DEF Rule
<1>6. sum = Rule(sum)
  BY <1>5
<1>7. sum \in [0..n -> Nat] /\ sum[0] = 0
      /\ \A k \in 1..n : sum[k] = sum[k - 1] + part(k)
  <2> HIDE DEF sum, part, n
  <2>1. \A k \in 0..n : sum[k] = IF k = 0 THEN 0 ELSE sum[k - 1] + part(k)
    BY <1>6 DEF Rule
  <2>2. sum[0] = 0 /\ \A k \in 1..n : sum[k] = sum[k - 1] + part(k)
    <3>1. 0 \in 0..n /\ \A k \in 1..n : k \in 0..n /\ k # 0
      BY <1>1
    <3>2. QED
      BY <2>1, <3>1
  <2>3. \A k \in 0..n : sum[k] \in Nat
    <3>1. sum[0] \in Nat /\ \A k \in 1..n : sum[k - 1] \in Nat => sum[k] \in Nat
      BY <1>1, <2>2
    <3>2. QED
      BY <1>1, <3>1, ValuesUpTo
  <2>4. QED
    BY <1>6, <2>2, <2>3 DEF Rule
<1>8. QED
  BY <1>1, <1>2, <1>7

LEMMA TotalIsNat ==
  ASSUME NEW ns, Sized(ns), NEW S
  PROVE  TotalSize(ns, S) \in Nat
<1>1. PICK f \in [0..Len(ns) -> Nat] : TotalSize(ns, S) = f[Len(ns)]
  BY TotalFacts
<1>2. Len(ns) \in 0..Len(ns)
  BY DEF Sized
<1>3. QED
  BY <1>1, <1>2

(* The sum depends on the sizes of the nodes that are counted only.        *)
LEMMA TotalSame ==
  ASSUME NEW ns, Sized(ns), NEW ms, Sized(ms), Len(ms) = Len(ns), NEW S,
         \A k \in 1..Len(ns) : k \in S => ms[k].size = ns[k].size
  PROVE  TotalSize(ms, S) = TotalSize(ns, S)
<1> DEFINE n == Len(ns)
<1>1. PICK f \in [0..n -> Nat] :
        /\ f[0] = 0 /\ \A k \in 1..n : f[k] = f[k - 1] + Counted(ns, S)[k]
        /\ TotalSize(ns, S) = f[n]
  BY TotalFacts
<1>2. PICK g \in [0..n -> Nat] :
        /\ g[0] = 0 /\ \A k \in 1..n : g[k] = g[k - 1] + Counted(ms, S)[k]
        /\ TotalSize(ms, S) = g[n]
  <2>1. PICK g \in [0..Len(ms) -> Nat] :
          /\ g[0] = 0 /\ \A k \in 1..Len(ms) : g[k] = g[k - 1] + Counted(ms, S)[k]
          /\ TotalSize(ms, S) = g[Len(ms)]
    BY TotalFacts
  <2>2. Len(ms) = n
    OBVIOUS
  <2> HIDE DEF n
  <2>3. QED
    BY <2>1, <2>2
<1>3. n \in Nat /\ \A k \in 1..n : Counted(ms, S)[k] = Counted(ns, S)[k]
  BY DEF Sized, Counted
<1> DEFINE T == { k \in 0..n : g[k] = f[k] }
<1>4. 0 \in T /\ \A k \in 1..n : k - 1 \in T => k \in T
  <2> HIDE DEF n
  <2>1. QED
    BY <1>1, <1>2, <1>3
<1>5. 0..n \subseteq T
  <2> HIDE DEF n, T
  <2>1. QED
    BY <1>3, <1>4, UpTo
<1>6. n \in 0..n
  BY <1>3
<1>7. QED
  BY <1>1, <1>2, <1>5, <1>6

(* Two sets without a common node.                                         *)
LEMMA TotalUnion ==
  ASSUME NEW ns, Sized(ns), NEW S, NEW T, S \cap T = {}
  PROVE  TotalSize(ns, S \cup T) = TotalSize(ns, S) + TotalSize(ns, T)
<1> DEFINE n == Len(ns)
<1>1. PICK f \in [0..n -> Nat] :
        /\ f[0] = 0 /\ \A k \in 1..n : f[k] = f[k - 1] + Counted(ns, S)[k]
        /\ TotalSize(ns, S) = f[n]
  BY TotalFacts
<1>2. PICK g \in [0..n -> Nat] :
        /\ g[0] = 0 /\ \A k \in 1..n : g[k] = g[k - 1] + Counted(ns, T)[k]
        /\ TotalSize(ns, T) = g[n]
  BY TotalFacts
<1>3. PICK h \in [0..n -> Nat] :
        /\ h[0] = 0 /\ \A k \in 1..n : h[k] = h[k - 1] + Counted(ns, S \cup T)[k]
        /\ TotalSize(ns, S \cup T) = h[n]
  BY TotalFacts
<1>4. n \in Nat /\ \A k \in 1..n :
        /\ Counted(ns, S \cup T)[k] = Counted(ns, S)[k] + Counted(ns, T)[k]
        /\ Counted(ns, S)[k] \in Nat /\ Counted(ns, T)[k] \in Nat
  BY DEF Sized, Counted
<1> DEFINE U == { k \in 0..n : h[k] = f[k] + g[k] }
<1>5. 0 \in U /\ \A k \in 1..n : k - 1 \in U => k \in U
  <2> HIDE DEF n
  <2>1. 0 \in U
    BY <1>1, <1>2, <1>3, <1>4
  <2>2. ASSUME NEW k \in 1..n, k - 1 \in U PROVE k \in U
    <3>1. k \in 0..n /\ k - 1 \in 0..n
      BY <1>4
    <3>2. f[k - 1] \in Nat /\ g[k - 1] \in Nat
      BY <3>1
    <3> DEFINE a == Counted(ns, S)[k]
               b == Counted(ns, T)[k]
    <3>3. /\ a \in Nat /\ b \in Nat /\ f[k] = f[k - 1] + a /\ g[k] = g[k - 1] + b
          /\ h[k] = h[k - 1] + (a + b) /\ h[k - 1] = f[k - 1] + g[k - 1]
      BY <1>1, <1>2, <1>3, <1>4, <2>2
    <3> HIDE DEF a, b
    <3>4. h[k] = f[k] + g[k]
      BY <3>2, <3>3
    <3>5. QED
      BY <3>1, <3>4
  <2>3. QED
    BY <2>1, <2>2
<1>6. 0..n \subseteq U
  <2> HIDE DEF n, U
  <2>1. QED
    BY <1>4, <1>5, UpTo
<1>7. n \in 0..n
  BY <1>4
<1>8. QED
  BY <1>1, <1>2, <1>3, <1>6, <1>7

LEMMA TotalOfOne ==
  ASSUME NEW ns, Sized(ns), NEW m \in 1..Len(ns)
  PROVE  TotalSize(ns, {m}) = ns[m].size
<1> DEFINE n == Len(ns)
<1>1. PICK f \in [0..n -> Nat] :
        /\ f[0] = 0 /\ \A k \in 1..n : f[k] = f[k - 1] + Counted(ns, {m})[k]
        /\ TotalSize(ns, {m}) = f[n]
  BY TotalFacts
<1>2. /\ n \in Nat /\ ns[m].size \in Nat
      /\ \A k \in 1..n : Counted(ns, {m})[k] = IF k = m THEN ns[m].size ELSE 0
  BY DEF Sized, Counted
<1> DEFINE U == { k \in 0..n : f[k] = IF k < m THEN 0 ELSE ns[m].size }
<1>3. 0 \in U /\ \A k \in 1..n : k - 1 \in U => k \in U
  <2> HIDE DEF n
  <2>1. 0 \in U
    BY <1>1, <1>2 DEF n
  <2>2. ASSUME NEW k \in 1..n, k - 1 \in U PROVE k \in U
    <3>1. k \in 0..n /\ k - 1 \in 0..n /\ m \in 1..n
      BY <1>2 DEF n
    <3>2. f[k] = f[k - 1] + (IF k = m THEN ns[m].size ELSE 0)
      BY <1>1, <1>2
    <3>3. f[k - 1] = IF k - 1 < m THEN 0 ELSE ns[m].size
      BY <2>2
    <3>4. f[k] = IF k < m THEN 0 ELSE ns[m].size
      <4>1. CASE k < m
        BY <1>2, <3>1, <3>2, <3>3, <4>1
      <4>2. CASE k = m
        BY <1>2, <3>1, <3>2, <3>3, <4>2
      <4>3. CASE k > m
        BY <1>2, <3>1, <3>2, <3>3, <4>3
      <4>4. QED
        BY <3>1, <4>1, <4>2, <4>3
    <3>5. QED
      BY <3>1, <3>4
  <2>3. QED
    BY <2>1, <2>2
<1>4. 0..n \subseteq U
  <2> HIDE DEF n, U
  <2>1. QED
    BY <1>2, <1>3, UpTo
<1>5. n \in 0..n /\ ~(n < m)
  BY <1>2
<1>6. QED
  BY <1>1, <1>4, <1>5

(* The same tree but for the sizes.                                        *)
Resized(ns, size) == [k \in 1..Len(ns) |-> [ns[k] EXCEPT !.size = size[k]]]

LEMMA ResizedFacts ==
  ASSUME NEW ns, Parsed(ns), NEW size \in [1..Len(ns) -> Nat]
  PROVE  /\ Len(Resized(ns, size)) = Len(ns) /\ Parsed(Resized(ns, size))
         /\ \A k \in 1..Len(ns) :
              /\ Resized(ns, size)[k].size = size[k]
              /\ Resized(ns, size)[k].name = ns[k].name
              /\ Resized(ns, size)[k].is_directory = ns[k].is_directory
              /\ Resized(ns, size)[k].location = ns[k].location
              /\ Resized(ns, size)[k].length = ns[k].length
              /\ Resized(ns, size)[k].parent = ns[k].parent
<1> DEFINE n == Len(ns)
           t == Resized(ns, size)
           node(k) == [ns[k] EXCEPT !.size = size[k]]
<1>1. n \in Nat /\ DOMAIN ns = 1..n
  BY TreeFacts
<1>2. t = [k \in 1..n |-> node(k)]
  BY DEF Resized
<1>3. ASSUME NEW k \in 1..n
      PROVE  /\ node(k) = [ name |-> ns[k].name, is_directory |-> ns[k].is_directory,
                            size |-> size[k], location |-> ns[k].location,
                            length |-> ns[k].length, parent |-> ns[k].parent ]
             /\ ns[k].is_directory \in BOOLEAN /\ size[k] \in Nat
             /\ ns[k].parent \in 0..(k - 1)
             /\ ns[k].parent # 0 => ns[ns[k].parent].is_directory
  <2>1. IsNode(ns[k]) /\ ns[k].parent \in 0..(k - 1)
        /\ (ns[k].parent # 0 => ns[ns[k].parent].is_directory)
    BY DEF Parsed
  <2>2. QED
    BY <2>1 DEF IsNode
<1> HIDE DEF node, n
<1>4. Len(t) = n
  <2> DEFINE X == { node(k) : k \in 1..n }
  <2>1. t \in [1..n -> X]
    BY <1>2
  <2> HIDE DEF X
  <2>2. t \in Seq(X)
    BY <1>1, <2>1, SeqDef
  <2>3. QED
    BY <1>1, <2>1, <2>2, LenProperties
<1>5. \A k \in 1..n : t[k] = node(k)
  BY <1>2
<1>6. \A k \in 1..n :
        /\ t[k].size = size[k] /\ t[k].name = ns[k].name
        /\ t[k].is_directory = ns[k].is_directory
        /\ t[k].location = ns[k].location /\ t[k].length = ns[k].length
        /\ t[k].parent = ns[k].parent
  BY <1>3, <1>5
<1>7. \A k \in 1..n : IsNode(t[k])
  BY <1>3, <1>5, <1>6 DEF IsNode
<1>8. \A k \in 1..n : t[k].parent \in 0..(k - 1)
                      /\ (t[k].parent # 0 => t[t[k].parent].is_directory)
  <2> SUFFICES ASSUME NEW k \in 1..n
               PROVE  t[k].parent \in 0..(k - 1)
                      /\ (t[k].parent # 0 => t[t[k].parent].is_directory)
    OBVIOUS
  <2>1. t[k].parent = ns[k].parent /\ ns[k].parent \in 0..(k - 1)
        /\ (ns[k].parent # 0 => ns[ns[k].parent].is_directory)
    BY <1>3, <1>6
  <2>2. ns[k].parent # 0 => ns[k].parent \in 1..n
    BY <1>1, <2>1
  <2>3. QED
    BY <1>6, <2>1, <2>2
<1>9. t = [k \in 1..n |-> t[k]]
  BY <1>2
<1>10. Parsed(t)
  <2> HIDE DEF t
  <2>1. QED
    BY <1>1, <1>4, <1>7, <1>8, <1>9 DEF Parsed
<1>11. QED
  BY <1>4, <1>6, <1>10 DEF n

(* calculate_directory_size sets the sizes of the directories and nothing  *)
(* else: each is what its children have, those of its directories already  *)
(* set.                                                                    *)
SizesOf(ns, t) ==
  \E size \in [1..Len(ns) -> Nat] :
    /\ t = Resized(ns, size)
    /\ \A k \in 1..Len(ns) :
         size[k] = IF ns[k].is_directory THEN TotalSize(t, Children(ns, k)) % Word
                   ELSE ns[k].size
LEMMA DirectorySizes ==
  ASSUME NEW ns, Parsed(ns)
  PROVE  SizesOf(ns, calculate_directory_size(ns))
<1> DEFINE n == Len(ns)
           X == { Resized(ns, size) : size \in [1..n -> Nat] }
           total(t, k) == TotalSize(t, Children(ns, k)) % Word
           set(t, k) == IF ns[k].is_directory THEN [t EXCEPT ![k].size = total(t, k)]
                        ELSE t
           Rule(f) == [k \in 1..(n + 1) |-> IF k > n THEN ns ELSE set(f[k + 1], k)]
           with == CHOOSE f : f = Rule(f)
<1>1. n \in Nat /\ DOMAIN ns = 1..n /\ Sized(ns) /\ Word \in Nat \ {0}
  BY TreeFacts, TreeAssumption
<1>2. calculate_directory_size(ns) = with[1]
  BY DEF calculate_directory_size
<1>3. ASSUME NEW size \in [1..n -> Nat], NEW k \in 1..n
      PROVE  LET t == Resized(ns, size)
             IN  /\ total(t, k) \in Nat
                 /\ [t EXCEPT ![k].size = total(t, k)]
                      = Resized(ns, [size EXCEPT ![k] = total(t, k)])
  <2> DEFINE t == Resized(ns, size)
  <2>1. Parsed(t) /\ Len(t) = n
    BY ResizedFacts
  <2>2. Sized(t)
    BY <2>1, TreeFacts
  <2>3. TotalSize(t, Children(ns, k)) \in Nat
    BY <2>2, TotalIsNat
  <2>4. total(t, k) \in Nat
    <3> DEFINE v == TotalSize(t, Children(ns, k))
    <3>1. v \in Nat
      BY <2>3
    <3> HIDE DEF v
    <3>2. v % Word \in Nat
      BY <1>1, <3>1
    <3>3. QED
      BY <3>2 DEF v
  <2> DEFINE v == total(t, k)
  <2>5. v \in Nat
    BY <2>4
  <2> HIDE DEF v, n
  <2>6. [t EXCEPT ![k].size = v] = Resized(ns, [size EXCEPT ![k] = v])
    <3>1. t = [j \in 1..n |-> [ns[j] EXCEPT !.size = size[j]]]
      BY DEF Resized, n
    <3>2. \A j \in 1..n : [size EXCEPT ![k] = v][j] = IF j = k THEN v ELSE size[j]
      BY DEF n
    <3>3. Resized(ns, [size EXCEPT ![k] = v])
            = [j \in 1..n |-> [ns[j] EXCEPT !.size = [size EXCEPT ![k] = v][j]]]
      BY DEF Resized, n
    <3>4. [[ns[k] EXCEPT !.size = size[k]] EXCEPT !.size = v]
            = [ns[k] EXCEPT !.size = v]
      OBVIOUS
    <3>5. [t EXCEPT ![k].size = v]
            = [j \in 1..n |-> IF j = k THEN [t[k] EXCEPT !.size = v] ELSE t[j]]
      BY <3>1
    <3> HIDE DEF t
    <3>6. \A j \in 1..n : (IF j = k THEN [t[k] EXCEPT !.size = v] ELSE t[j])
             = [ns[j] EXCEPT !.size = [size EXCEPT ![k] = v][j]]
      BY <3>1, <3>2, <3>4 DEF n
    <3>7. QED
      BY <3>3, <3>5, <3>6
  <2>7. QED
    BY <2>5, <2>6 DEF v
<1>4. ns \in X
  <2> DEFINE own == [k \in 1..n |-> ns[k].size]
  <2>1. own \in [1..n -> Nat]
    BY <1>1 DEF Sized
  <2>2. ASSUME NEW k \in 1..n PROVE [ns[k] EXCEPT !.size = own[k]] = ns[k]
    <3>1. IsNode(ns[k]) /\ own[k] = ns[k].size
      BY DEF Parsed
    <3> HIDE DEF own
    <3>2. QED
      BY <3>1 DEF IsNode
  <2> HIDE DEF own
  <2>3. Resized(ns, own) = ns
    <3>1. ns = [k \in 1..n |-> ns[k]]
      BY DEF Parsed
    <3>2. QED
      BY <2>2, <3>1 DEF Resized
  <2>4. QED
    BY <2>1, <2>3
<1>5. ASSUME NEW t \in X, NEW k \in 1..n PROVE set(t, k) \in X
  <2>1. PICK size \in [1..n -> Nat] : t = Resized(ns, size)
    OBVIOUS
  <2>2. total(t, k) \in Nat
        /\ [t EXCEPT ![k].size = total(t, k)]
             = Resized(ns, [size EXCEPT ![k] = total(t, k)])
    BY <1>3, <2>1
  <2> HIDE DEF total
  <2>3. [size EXCEPT ![k] = total(t, k)] \in [1..n -> Nat]
    BY <2>2
  <2>4. QED
    BY <2>2, <2>3
<1> HIDE DEF X, n
<1>6. \E f \in [1..(n + 1) -> X] : f = Rule(f)
  <2> DEFINE up(i, t) == IF i \in 1..n THEN set(t, n + 1 - i) ELSE t
             step == [i \in Nat |-> [t \in X |-> up(i, t)]]
  <2>1. step \in [Nat -> [X -> X]]
    <3>1. ASSUME NEW i \in Nat, NEW t \in X PROVE up(i, t) \in X
      <4>1. i \in 1..n => n + 1 - i \in 1..n
        BY <1>1
      <4> HIDE DEF set
      <4>2. QED
        BY <1>5, <4>1
    <3> HIDE DEF up
    <3>2. QED
      BY <3>1
  <2>2. PICK g : Recursion(g, n, X, ns, step)
    <3> HIDE DEF step
    <3>1. QED
      BY <1>1, <1>4, <2>1, RecursionExists
  <2>3. /\ g \in [0..n -> X] /\ g[0] = ns
        /\ \A i \in 1..n : g[i] = set(g[i - 1], n + 1 - i)
    <3>1. /\ g \in [0..n -> X] /\ g[0] = ns
          /\ \A i \in 1..n : g[i] = step[i][g[i - 1]]
      BY <2>2 DEF Recursion
    <3>2. \A i \in 1..n : i \in Nat /\ g[i - 1] \in X
      BY <1>1, <3>1
    <3> HIDE DEF set
    <3>3. QED
      BY <3>1, <3>2
  <2> HIDE DEF step
  <2> DEFINE f == [k \in 1..(n + 1) |-> g[n + 1 - k]]
  <2>4. \A k \in 1..(n + 1) : n + 1 - k \in 0..n
    BY <1>1
  <2>5. f \in [1..(n + 1) -> X]
    BY <2>3, <2>4
  <2>6. ASSUME NEW k \in 1..(n + 1)
        PROVE  f[k] = IF k > n THEN ns ELSE set(f[k + 1], k)
    <3> HIDE DEF set
    <3>1. CASE k > n
      <4>1. k = n + 1 /\ n + 1 - k = 0
        BY <1>1, <3>1
      <4>2. QED
        BY <2>3, <3>1, <4>1
    <3>2. CASE ~(k > n)
      <4>1. /\ n + 1 - k \in 1..n /\ k + 1 \in 1..(n + 1)
            /\ n + 1 - (k + 1) = (n + 1 - k) - 1 /\ n + 1 - (n + 1 - k) = k
        BY <1>1, <3>2
      <4>2. f[k] = g[n + 1 - k] /\ f[k + 1] = g[(n + 1 - k) - 1]
        BY <4>1
      <4>3. g[n + 1 - k] = set(g[(n + 1 - k) - 1], k)
        BY <2>3, <4>1
      <4> HIDE DEF f
      <4>4. QED
        BY <3>2, <4>2, <4>3
    <3>3. QED
      BY <3>1, <3>2
  <2> HIDE DEF f, set
  <2>7. f = Rule(f)
    BY <2>5, <2>6
  <2>8. QED
    BY <2>5, <2>7
<1>7. with = Rule(with)
  <2> HIDE DEF Rule
  <2>1. QED
    BY <1>6
<1> HIDE DEF with
<1>8. /\ with[n + 1] = ns
      /\ \A k \in 1..n : with[k] = set(with[k + 1], k)
  <2> HIDE DEF set
  <2>1. \A k \in 1..(n + 1) : with[k] = IF k > n THEN ns ELSE set(with[k + 1], k)
    BY <1>7
  <2>2. n + 1 \in 1..(n + 1) /\ n + 1 > n
        /\ \A k \in 1..n : k \in 1..(n + 1) /\ ~(k > n)
    BY <1>1
  <2>3. QED
    BY <2>1, <2>2
(* From the last node to the first: the sizes behind are what they should. *)
<1> DEFINE Done(m) ==
      \E size \in [1..n -> Nat] :
        /\ with[m] = Resized(ns, size)
        /\ \A k \in 1..n :
             size[k] = IF k >= m /\ ns[k].is_directory
                         THEN total(with[m], k) ELSE ns[k].size
           S == { i \in 0..n : Done(n + 1 - i) }
<1>9. 0 \in S
  <2>1. PICK size \in [1..n -> Nat] : ns = Resized(ns, size)
    BY <1>4 DEF X
  <2>2. \A k \in 1..n : size[k] = ns[k].size
    BY <2>1, ResizedFacts DEF n
  <2>3. \A k \in 1..n : ~(k >= n + 1)
    BY <1>1
  <2>4. Done(n + 1)
    <3> HIDE DEF total
    <3>1. QED
      BY <1>8, <2>1, <2>2, <2>3
  <2>5. n + 1 - 0 = n + 1 /\ 0 \in 0..n
    BY <1>1
  <2> HIDE DEF Done
  <2>6. QED
    BY <2>4, <2>5
<1>10. ASSUME NEW i \in 1..n, i - 1 \in S PROVE i \in S
  <2> DEFINE m == n + 1 - i
  <2>1. m \in 1..n /\ n + 1 - (i - 1) = m + 1 /\ i \in 0..n
    BY <1>1
  <2>2. Done(m + 1)
    BY <1>10, <2>1
  <2> DEFINE after == with[m + 1]
  <2>3. PICK size \in [1..n -> Nat] :
          /\ after = Resized(ns, size)
          /\ \A k \in 1..n :
               size[k] = IF k >= m + 1 /\ ns[k].is_directory
                           THEN total(after, k) ELSE ns[k].size
    BY <2>2
  <2>4. with[m] = set(after, m)
    BY <1>8, <2>1
  <2>5. Done(m)
    <3>1. CASE ~ns[m].is_directory
      <4>1. with[m] = after
        BY <2>4, <3>1
      <4>2. \A k \in 1..n : k >= m /\ ns[k].is_directory <=> k >= m + 1 /\ ns[k].is_directory
        BY <2>1, <3>1
      <4> HIDE DEF total, m, after
      <4>3. \A k \in 1..n : size[k] = IF k >= m /\ ns[k].is_directory
                                        THEN total(after, k) ELSE ns[k].size
        BY <2>3, <4>2
      <4>4. QED
        BY <2>3, <4>1, <4>3
    <3>2. CASE ns[m].is_directory
      <4> DEFINE v == total(after, m)
                 new == [size EXCEPT ![m] = v]
      <4>1. v \in Nat /\ [after EXCEPT ![m].size = v] = Resized(ns, new)
        BY <1>3, <2>1, <2>3
      <4>2. with[m] = Resized(ns, new)
        BY <2>4, <3>2, <4>1
      <4>3. new \in [1..n -> Nat] /\ \A k \in 1..n : new[k] = IF k = m THEN v ELSE size[k]
        <5> HIDE DEF v, m
        <5>1. QED
          BY <2>1, <4>1
      <4>4. ASSUME NEW k \in 1..n, k >= m PROVE total(with[m], k) = total(after, k)
        <5> DEFINE t == with[m]
        <5>0. /\ new \in [1..Len(ns) -> Nat] /\ size \in [1..Len(ns) -> Nat]
              /\ t = Resized(ns, new) /\ after = Resized(ns, size)
          BY <2>3, <4>2, <4>3 DEF n
        <5> HIDE DEF new, after, t
        <5>1. Parsed(after) /\ Len(after) = n /\ Parsed(t) /\ Len(t) = n
          BY <5>0, ResizedFacts DEF n
        <5>2. Sized(after) /\ Sized(t)
          BY <5>1, TreeFacts
        <5>3. \A j \in 1..n : j # m => t[j].size = after[j].size
          <6>1. \A j \in 1..n : t[j].size = new[j] /\ after[j].size = size[j]
            BY <5>0, ResizedFacts DEF n
          <6> HIDE DEF m
          <6>2. QED
            BY <4>3, <6>1
        <5>4. m \notin Children(ns, k)
          <6>1. ns[m].parent \in 0..(m - 1)
            BY <2>1 DEF Parsed, n
          <6>2. QED
            BY <2>1, <4>4, <6>1 DEF Children
        <5> HIDE DEF m
        <5>5. TotalSize(t, Children(ns, k)) = TotalSize(after, Children(ns, k))
          BY <5>1, <5>2, <5>3, <5>4, TotalSame
        <5>6. QED
          BY <5>5 DEF t
      <4>5. \A k \in 1..n : new[k] = IF k >= m /\ ns[k].is_directory
                                       THEN total(with[m], k) ELSE ns[k].size
        <5> SUFFICES ASSUME NEW k \in 1..n
                     PROVE  new[k] = IF k >= m /\ ns[k].is_directory
                                       THEN total(with[m], k) ELSE ns[k].size
          OBVIOUS
        <5> HIDE DEF total, new, after
        <5>1. CASE k = m
          <6>1. k >= m /\ new[k] = v
            BY <2>1, <4>3, <5>1
          <6>2. total(with[m], k) = total(after, k)
            BY <4>4, <6>1
          <6>3. QED
            BY <3>2, <5>1, <6>1, <6>2
        <5>2. CASE k # m
          <6>1. k >= m <=> k >= m + 1
            BY <2>1, <5>2
          <6>2. new[k] = size[k]
            BY <4>3, <5>2
          <6>3. k >= m => total(with[m], k) = total(after, k)
            BY <4>4
          <6> HIDE DEF m
          <6>4. QED
            BY <2>3, <6>1, <6>2, <6>3
        <5>3. QED
          BY <5>1, <5>2
      <4> HIDE DEF new, total, after, m
      <4>6. QED
        BY <4>2, <4>3, <4>5
    <3>3. QED
      BY <3>1, <3>2
  <2> HIDE DEF Done
  <2>6. QED
    BY <2>1, <2>5
<1>11. 0..n \subseteq S
  <2> HIDE DEF S
  <2>1. QED
    BY <1>1, <1>9, <1>10, UpTo
<1>12. Done(1)
  <2>1. n \in 0..n /\ n + 1 - n = 1
    BY <1>1
  <2> HIDE DEF Done
  <2>2. QED
    BY <1>11, <2>1
<1>13. QED
  <2> DEFINE t == with[1]
  <2>1. PICK size \in [1..n -> Nat] :
          /\ t = Resized(ns, size)
          /\ \A k \in 1..n :
               size[k] = IF k >= 1 /\ ns[k].is_directory
                           THEN total(t, k) ELSE ns[k].size
    BY <1>12
  <2>2. \A k \in 1..n : k >= 1
    BY <1>1
  <2> HIDE DEF t
  <2>3. \A k \in 1..n : size[k] = IF ns[k].is_directory
                                    THEN TotalSize(t, Children(ns, k)) % Word
                                    ELSE ns[k].size
    BY <2>1, <2>2
  <2>4. SizesOf(ns, t)
    BY <2>1, <2>3 DEF SizesOf, n
  <2>5. QED
    BY <1>2, <2>4 DEF t

-----------------------------------------------------------------------------
(* The directories a node is in.                                           *)
AncestorFacts(ns, above) ==
  /\ above[0] = {}
  /\ \A k \in 1..Len(ns) : above[k] = {k} \cup above[ns[k].parent]
LEMMA AncestorsAbove ==
  ASSUME Parsed(nodes)
  PROVE  \E above \in [0..Len(nodes) -> SUBSET (1..Len(nodes))] :
           /\ AncestorFacts(nodes, above)
           /\ \A k \in 0..Len(nodes) : Ancestors(k) = above[k] \ {k}
<1> DEFINE n == Len(nodes)
           X == SUBSET (1..n)
           up == [i \in 1..n |-> nodes[i].parent]
           step == [i \in 1..n |-> [s \in X |-> {i} \cup s]]
           Rule(f) == [i \in 0..n |-> IF i = 0 THEN {} ELSE {i} \cup f[nodes[i].parent]]
           above == CHOOSE f : f = Rule(f)
<1>1. n \in Nat /\ \A i \in 1..n : up[i] \in 0..(i - 1) /\ up[i] = nodes[i].parent
  BY DEF Parsed
<1>2. \A i \in 1..n : step[i] \in [X -> X]
  OBVIOUS
<1>3. {} \in X
  OBVIOUS
<1>4. PICK g : ByParent(g, n, X, {}, up, step)
  <2> HIDE DEF X, up, step, n
  <2>1. QED
    BY <1>1, <1>2, <1>3, ByParentExists
<1>5. /\ g \in [0..n -> X] /\ g[0] = {}
      /\ \A i \in 1..n : g[i] = {i} \cup g[nodes[i].parent]
  <2>1. g \in [0..n -> X] /\ g[0] = {} /\ \A i \in 1..n : g[i] = step[i][g[up[i]]]
    BY <1>4 DEF ByParent
  <2>2. \A i \in 1..n : up[i] \in 0..n
    BY <1>1
  <2> HIDE DEF X, up
  <2>3. \A i \in 1..n : g[up[i]] \in X
    BY <2>1, <2>2
  <2>4. QED
    BY <1>1, <2>1, <2>3
<1>6. g = Rule(g)
  <2>1. \A i \in 0..n : i = 0 \/ i \in 1..n
    BY <1>1
  <2>2. \A i \in 0..n : g[i] = IF i = 0 THEN {} ELSE {i} \cup g[nodes[i].parent]
    <3> HIDE DEF n, X
    <3>1. QED
      BY <1>5, <2>1
  <2> HIDE DEF X, n
  <2>3. QED
    BY <1>5, <2>2
<1>7. above = Rule(above)
  <2> HIDE DEF Rule
  <2>1. QED
    BY <1>6
<1>8. \A k : Ancestors(k) = above[k] \ {k}
  BY DEF Ancestors
<1> HIDE DEF above
<1>9. above = [i \in 0..n |-> above[i]]
  BY <1>7
<1>10. above[0] = {} /\ \A i \in 1..n : above[i] = {i} \cup above[nodes[i].parent]
  <2>1. 0 \in 0..n /\ \A i \in 1..n : i \in 0..n /\ i # 0
    BY <1>1
  <2> HIDE DEF n
  <2>2. \A i \in 0..n : above[i] = IF i = 0 THEN {} ELSE {i} \cup above[nodes[i].parent]
    BY <1>7
  <2>3. QED
    BY <2>1, <2>2
<1>11. \A k \in 0..n : above[k] \in X
  <2> DEFINE S == { k \in 0..n : \A i \in 0..k : above[i] \in X }
  <2>1. 0 \in S
    <3>1. 0 \in 0..n /\ \A i \in 0..0 : i = 0
      BY <1>1
    <3>2. QED
      BY <1>3, <1>10, <3>1
  <2>2. ASSUME NEW k \in 1..n, k - 1 \in S PROVE k \in S
    <3>1. k \in 0..n /\ \A i \in 0..k : i \in 0..(k - 1) \/ i = k
      BY <1>1
    <3>2. above[nodes[k].parent] \in X
      BY <1>1, <2>2
    <3>3. above[k] \in X
      <4> HIDE DEF n
      <4>1. QED
        BY <1>10, <3>2
    <3> HIDE DEF X
    <3>4. QED
      BY <2>2, <3>1, <3>3
  <2>3. 0..n \subseteq S
    <3> HIDE DEF S
    <3>1. QED
      BY <1>1, <2>1, <2>2, UpTo
  <2>4. \A k \in 0..n : k \in S /\ k \in 0..k
    BY <1>1, <2>3
  <2> HIDE DEF X
  <2>5. QED
    BY <2>4
<1>12. above \in [0..n -> X]
  <2> HIDE DEF X, n
  <2>1. QED
    BY <1>9, <1>11
<1>13. QED
  BY <1>8, <1>10, <1>12 DEF AncestorFacts

(* The rest of a sum does not change when a part is reduced.               *)
LEMMA ReducedSum ==
  ASSUME NEW w \in Nat \ {0}, NEW a \in Nat, NEW b \in Nat
  PROVE  (a + (b % w)) % w = (a + b) % w
<1>1. b = w * (b \div w) + (b % w) /\ b \div w \in Nat /\ b % w \in 0..(w - 1)
  OBVIOUS
<1> DEFINE q == b \div w
           r == b % w
           c == a + r
<1>2. c \in Nat /\ a + b = c + w * q
  <2> HIDE DEF q, r
  <2>1. w * q \in Nat
    <3>1. q \in Nat
      BY <1>1 DEF q
    <3>2. \A x, y \in Nat : x * y \in Nat
      OBVIOUS
    <3>3. QED
      BY <3>1, <3>2
  <2>2. b = w * q + r /\ r \in Nat
    BY <1>1 DEF q, r
  <2> DEFINE p == w * q
  <2> HIDE DEF p
  <2>3. QED
    BY <2>1, <2>2
<1>3. c = w * (c \div w) + (c % w) /\ c \div w \in Nat /\ c % w \in 0..(w - 1)
  BY <1>2
<1> DEFINE d == a + b
<1>4. d = w * (d \div w) + (d % w) /\ d \div w \in Nat /\ d % w \in 0..(w - 1)
  OBVIOUS
<1> DEFINE x == c \div w
           y == d \div w
           s == c % w
           t == d % w
<1>5. w * x + s + w * q = w * y + t
  BY <1>2, <1>3, <1>4
<1>6. x \in Nat /\ y \in Nat /\ q \in Nat /\ s \in 0..(w - 1) /\ t \in 0..(w - 1)
  BY <1>1, <1>3, <1>4
<1> HIDE DEF x, y, s, t, q, c, d
<1> DEFINE z == x + q - y
<1>7. z \in Int /\ w * z = t - s
  <2>1. w * z = w * x + w * q - w * y
    BY <1>6
  <2> DEFINE e == w * x
             f == w * q
             g == w * y
  <2>2. e \in Nat /\ f \in Nat /\ g \in Nat /\ e + s + f = g + t
    BY <1>5, <1>6
  <2>3. z \in Int
    BY <1>6
  <2> HIDE DEF e, f, g, z
  <2>4. e + f - g = t - s
    BY <1>6, <2>2
  <2>5. QED
    BY <2>1, <2>3, <2>4 DEF e, f, g
<1> HIDE DEF z
<1>8. z = 0
  <2>1. CASE z >= 1
    <3>1. w * z >= w
      BY <1>7, <2>1
    <3>2. QED
      BY <1>6, <1>7, <3>1
  <2>2. CASE z <= -1
    <3>1. w * z <= -w
      BY <1>7, <2>2
    <3>2. QED
      BY <1>6, <1>7, <3>1
  <2>3. QED
    BY <1>7, <2>1, <2>2
<1>9. s = t
  BY <1>6, <1>7, <1>8
<1>10. QED
  BY <1>9 DEF s, t, c, d, r

(* With directories that have what their children have, each has what the  *)
(* files below it have: the directories below it are replaced by what is   *)
(* in them, one after the other.                                           *)
Totalled(ns) ==
  \A k \in 1..Len(ns) :
    ns[k].is_directory => ns[k].size = TotalSize(ns, Children(ns, k)) % Word
FilesBelow(d) ==
  { k \in DOMAIN nodes : ~nodes[k].is_directory /\ d \in Ancestors(k) }
LEMMA TotalsBelow ==
  ASSUME Parsed(nodes), Totalled(nodes),
         NEW d \in DOMAIN nodes, nodes[d].is_directory
  PROVE  nodes[d].size = TotalSize(nodes, FilesBelow(d)) % Word
<1> DEFINE n == Len(nodes)
           B == { k \in 1..n : d \in Ancestors(k) }
           up(k) == nodes[k].parent
           dir(k) == nodes[k].is_directory
<1>1. /\ n \in Nat /\ DOMAIN nodes = 1..n /\ Sized(nodes) /\ d \in 1..n
      /\ Word \in Nat \ {0}
  BY TreeFacts, TreeAssumption
<1>2. \A k \in 1..n : /\ up(k) \in 0..(k - 1) /\ nodes[k].size \in Nat
                      /\ dir(k) \in BOOLEAN /\ (up(k) # 0 => dir(up(k)))
  BY DEF Parsed, IsNode
<1>3. PICK above \in [0..n -> SUBSET (1..n)] :
        /\ AncestorFacts(nodes, above)
        /\ \A k \in 0..n : Ancestors(k) = above[k] \ {k}
  BY AncestorsAbove
<1>4. above[0] = {} /\ \A k \in 1..n : above[k] = {k} \cup above[up(k)]
  BY <1>3 DEF AncestorFacts
<1> HIDE DEF n, up, dir
<1>5. \A k \in 0..n : \A x \in above[k] : x \in 1..k
  <2> DEFINE S == { k \in 0..n : \A i \in 0..k : \A x \in above[i] : x \in 1..i }
  <2>1. 0 \in S
    BY <1>1, <1>4
  <2>2. ASSUME NEW k \in 1..n, k - 1 \in S PROVE k \in S
    <3>1. k \in 0..n /\ \A i \in 0..k : i \in 0..(k - 1) \/ i = k
      BY <1>1
    <3>2. up(k) \in 0..(k - 1) /\ \A x \in above[up(k)] : x \in 1..up(k)
      BY <1>2, <2>2
    <3>3. \A x \in above[k] : x \in 1..k
      BY <1>4, <3>2
    <3>4. QED
      BY <2>2, <3>1, <3>3
  <2>3. 0..n \subseteq S
    <3> HIDE DEF S
    <3>1. QED
      BY <1>1, <2>1, <2>2, UpTo
  <2>4. \A k \in 0..n : k \in S /\ k \in 0..k
    BY <1>1, <2>3
  <2>5. QED
    BY <2>4
<1>6. ASSUME NEW k \in 1..n
      PROVE  /\ k \in B => k > d
             /\ k \in B <=> up(k) # 0 /\ (up(k) = d \/ up(k) \in B)
  <2>1. /\ k \in 0..n /\ up(k) \in 0..n /\ up(k) < k /\ up(k) \in Nat
        /\ (up(k) # 0 => up(k) \in 1..n)
    BY <1>1, <1>2
  <2>2. k \in B <=> d \in above[k] /\ d # k
    BY <1>3, <2>1
  <2>3. d \in above[k] => d <= k
    BY <1>5, <2>1
  <2>4. k \in B => k > d
    BY <1>1, <2>2, <2>3
  <2>5. d \in above[k] <=> d = k \/ d \in above[up(k)]
    BY <1>4
  <2>6. d \in above[up(k)] => d # k
    BY <1>1, <1>5, <2>1
  <2>7. k \in B <=> d \in above[up(k)]
    BY <2>2, <2>5, <2>6
  <2>8. CASE up(k) = 0
    BY <1>4, <2>7, <2>4, <2>8
  <2>9. CASE up(k) # 0
    <3>1. up(k) \in B <=> d \in above[up(k)] /\ d # up(k)
      BY <1>3, <2>1, <2>9
    <3>2. d \in above[d]
      BY <1>1, <1>4
    <3>3. QED
      BY <2>4, <2>7, <2>9, <3>1, <3>2
  <2>10. QED
    BY <2>8, <2>9
<1>7. B \subseteq 1..n
  OBVIOUS
<1>8. FilesBelow(d) = { k \in B : ~dir(k) }
  BY <1>1 DEF FilesBelow, dir
<1> HIDE DEF B
<1> DEFINE F(m) == { k \in B : up(k) <= m /\ (k > m \/ ~dir(k)) }
           total(S) == TotalSize(nodes, S)
           S == { i \in 0..(n - d) : total(F(d + i)) % Word = nodes[d].size }
<1>9. \A T : total(T) \in Nat
  BY <1>1, TotalIsNat
<1>10. \A k \in 1..n : Children(nodes, k) = { j \in 1..n : up(j) = k }
  BY <1>1 DEF Children, up
<1>11. 0 \in S
  <2>1. F(d) = Children(nodes, d)
    <3>1. ASSUME NEW k \in F(d) PROVE k \in Children(nodes, d)
      <4>1. k \in 1..n /\ up(k) <= d /\ up(k) # 0 /\ (up(k) = d \/ up(k) \in B)
        BY <1>6, <1>7
      <4>2. up(k) \in B => up(k) > d
        BY <1>6, <1>7
      <4>3. up(k) = d
        BY <1>1, <1>2, <4>1, <4>2
      <4>4. QED
        BY <1>1, <1>10, <4>1, <4>3
    <3>2. ASSUME NEW k \in Children(nodes, d) PROVE k \in F(d)
      <4>1. k \in 1..n /\ up(k) = d /\ d # 0
        BY <1>1, <1>10
      <4>2. k \in B /\ k > d
        BY <1>6, <4>1
      <4>3. QED
        BY <1>1, <4>1, <4>2
    <3>3. QED
      BY <3>1, <3>2
  <2>2. total(Children(nodes, d)) % Word = nodes[d].size
    BY <1>1 DEF Totalled, n
  <2>3. d + 0 = d /\ 0 \in 0..(n - d)
    BY <1>1
  <2> HIDE DEF F, total
  <2>4. QED
    BY <2>1, <2>2, <2>3
<1>12. ASSUME NEW i \in 1..(n - d), i - 1 \in S PROVE i \in S
  <2> DEFINE m == d + i
  <2>1. m \in 1..n /\ m - 1 = d + (i - 1) /\ i \in 0..(n - d) /\ m > d /\ m \in Nat
    BY <1>1
  <2>2. total(F(m - 1)) % Word = nodes[d].size
    BY <1>12, <2>1
  <2> HIDE DEF m
  <2>3. CASE m \in B /\ dir(m)
    <3> DEFINE R == F(m - 1) \ {m}
               C == Children(nodes, m)
    <3>1. m \in F(m - 1)
      BY <1>2, <2>1, <2>3
    <3>2. F(m) = R \cup C
      <4>1. ASSUME NEW k \in F(m), k \notin C PROVE k \in R
        <5>1. k \in B /\ k \in 1..n /\ up(k) <= m /\ up(k) # m /\ (k > m \/ ~dir(k))
          BY <1>7, <1>10, <2>1, <4>1
        <5>2. up(k) <= m - 1 /\ up(k) \in Nat
          BY <1>2, <2>1, <5>1
        <5>3. k # m /\ (k > m - 1 \/ ~dir(k))
          BY <2>1, <2>3, <5>1
        <5>4. QED
          BY <5>1, <5>2, <5>3
      <4>2. ASSUME NEW k \in R PROVE k \in F(m)
        <5>1. k \in B /\ k \in 1..n /\ up(k) <= m - 1 /\ k # m /\ (k > m - 1 \/ ~dir(k))
          BY <1>7
        <5>2. up(k) <= m
          BY <1>2, <2>1, <5>1
        <5>3. k > m \/ ~dir(k)
          BY <2>1, <5>1
        <5>4. QED
          BY <5>1, <5>2, <5>3
      <4>3. ASSUME NEW k \in C PROVE k \in F(m)
        <5>1. k \in 1..n /\ up(k) = m /\ m # 0
          BY <1>10, <2>1
        <5>2. k \in B /\ k > m
          BY <1>2, <1>6, <2>1, <2>3, <5>1
        <5>3. QED
          BY <2>1, <5>1, <5>2
      <4> HIDE DEF F, R, C
      <4>4. QED
        BY <4>1, <4>2, <4>3
    <3>3. R \cap C = {}
      <4>1. ASSUME NEW k \in R, k \in C PROVE FALSE
        <5>1. up(k) <= m - 1 /\ up(k) = m
          BY <1>10, <2>1, <4>1
        <5>2. QED
          BY <2>1, <5>1
      <4>2. QED
        BY <4>1
    <3>4. F(m - 1) = R \cup {m} /\ R \cap {m} = {}
      BY <3>1
    <3> HIDE DEF R, C, F
    <3>5. total(F(m)) = total(R) + total(C)
      BY <1>1, <3>2, <3>3, TotalUnion
    <3>6. total(F(m - 1)) = total(R) + nodes[m].size
      <4>1. total(F(m - 1)) = total(R) + total({m})
        BY <1>1, <3>4, TotalUnion
      <4>2. total({m}) = nodes[m].size
        BY <1>1, <2>1, TotalOfOne DEF n
      <4>3. QED
        BY <4>1, <4>2
    <3>7. nodes[m].size = total(C) % Word
      BY <2>1, <2>3 DEF Totalled, n, dir, C
    <3>8. total(R) \in Nat /\ total(C) \in Nat
      BY <1>9
    <3> HIDE DEF total
    <3>9. (total(R) + (total(C) % Word)) % Word = (total(R) + total(C)) % Word
      BY <1>1, <3>8, ReducedSum
    <3>10. total(F(m)) % Word = nodes[d].size
      BY <2>2, <3>5, <3>6, <3>7, <3>9
    <3>11. QED
      BY <2>1, <3>10 DEF m
  <2>4. CASE ~(m \in B /\ dir(m))
    <3>1. F(m) = F(m - 1)
      <4>1. \A k \in B : up(k) # m
        <5>1. ASSUME NEW k \in B, up(k) = m PROVE FALSE
          <6>1. k \in 1..n /\ m # 0 /\ dir(m)
            BY <1>2, <1>7, <2>1, <5>1
          <6>2. m = d \/ m \in B
            BY <1>6, <5>1, <6>1
          <6>3. QED
            BY <2>1, <1>1, <2>4, <6>1, <6>2
        <5>2. QED
          BY <5>1
      <4>2. ASSUME NEW k \in B
            PROVE  /\ up(k) <= m <=> up(k) <= m - 1
                   /\ (k > m \/ ~dir(k)) <=> (k > m - 1 \/ ~dir(k))
        <5>1. k \in 1..n /\ up(k) \in Nat /\ up(k) # m
          BY <1>2, <1>7, <4>1
        <5>2. k = m => ~dir(k)
          BY <2>4
        <5>3. k # m => (k > m <=> k > m - 1)
          BY <2>1, <5>1
        <5>4. QED
          BY <2>1, <5>1, <5>2, <5>3
      <4>3. QED
        BY <4>2
    <3> HIDE DEF F, total
    <3>2. QED
      BY <2>1, <2>2, <3>1 DEF m
  <2>5. QED
    BY <2>3, <2>4
<1>13. 0..(n - d) \subseteq S
  <2>1. n - d \in Nat
    BY <1>1
  <2> HIDE DEF S
  <2>2. QED
    BY <1>11, <1>12, <2>1, UpTo
<1>14. F(n) = FilesBelow(d)
  <2>1. \A k \in B : k \in 1..n /\ up(k) <= n /\ ~(k > n)
    BY <1>1, <1>2, <1>7
  <2>2. QED
    BY <1>8, <2>1
<1>15. n - d \in 0..(n - d) /\ d + (n - d) = n
  BY <1>1
<1> HIDE DEF F, total
<1>16. total(F(n)) % Word = nodes[d].size
  BY <1>13, <1>15
<1>17. QED
  BY <1>14, <1>16 DEF total

-----------------------------------------------------------------------------
(* What the constructors make, and how a tree begins.                      *)
LEMMA NewNodes ==
  ASSUME NEW name, NEW size \in Nat, NEW location, NEW length, NEW parent
  PROVE  /\ IsMade(new_directory(name, parent), name, TRUE, None, None, parent)
         /\ IsMade(new_file(name, size, parent), name, FALSE, None, None, parent)
         /\ IsMade(new_file_with_location(name, size, location, length, parent),
                   name, FALSE, location, length, parent)
         /\ IsMade([new_file(name, size, parent) EXCEPT !.length = length],
                   name, FALSE, None, length, parent)
<1> DEFINE Is(x, d, n, at, len) ==
             x \in [ name : {name}, is_directory : {d}, size : {n}, location : {at},
                     length : {len}, parent : {parent} ]
<1>1. Is(new_directory(name, parent), TRUE, 0, None, None)
  BY DEF new_directory
<1>2. Is(new_file(name, size, parent), FALSE, size, None, None)
  BY DEF new_directory, new_file
<1>3. Is(new_file_with_location(name, size, location, length, parent),
         FALSE, size, location, length)
  BY DEF new_directory, new_file, new_file_with_location
<1>4. Is([new_file(name, size, parent) EXCEPT !.length = length],
         FALSE, size, None, length)
  BY DEF new_directory, new_file
<1>6. ASSUME NEW x, NEW d \in BOOLEAN, NEW n \in Nat, NEW at, NEW len,
             Is(x, d, n, at, len)
      PROVE  IsMade(x, name, d, at, len, parent)
  BY <1>6, MadeNode
<1> HIDE DEF Is
<1>7. 0 \in Nat /\ TRUE \in BOOLEAN /\ FALSE \in BOOLEAN
  OBVIOUS
<1>8. QED
  BY <1>1, <1>2, <1>3, <1>4, <1>6, <1>7

LEMMA RootFacts ==
  /\ Parsed(<<>>) /\ Parsed(WithRoot) /\ Len(WithRoot) = 1
  /\ WithRoot[1].is_directory /\ WithRoot[1].name = <<Slash>>
  /\ WithRoot[1].location = None /\ WithRoot[1].parent = 0
<1> DEFINE r == new_directory(<<Slash>>, 0)
<1>1. IsNode(r) /\ r.is_directory /\ r.name = <<Slash>> /\ r.location = None
      /\ r.parent = 0
  BY DEF new_directory, IsNode
<1> HIDE DEF r
<1>2. WithRoot = << r >>
  BY DEF WithRoot, r
<1>3. Len(<< r >>) = 1 /\ << r >>[1] = r /\ << r >> = [k \in 1..1 |-> << r >>[k]]
  OBVIOUS
<1>4. Parsed(<< r >>)
  <2>1. 1 \in Nat /\ \A k \in 1..1 : k = 1
    OBVIOUS
  <2> DEFINE s == << r >>
  <2>2. Len(s) = 1 /\ s[1] = r /\ s = [k \in 1..1 |-> s[k]]
    BY <1>3
  <2> HIDE DEF s
  <2>3. \A k \in 1..1 : IsNode(s[k]) /\ s[k].parent \in 0..(k - 1)
                        /\ (s[k].parent # 0 => s[s[k].parent].is_directory)
    BY <1>1, <2>1, <2>2
  <2>4. Parsed(s)
    BY <2>1, <2>2, <2>3 DEF Parsed
  <2>5. QED
    BY <2>4 DEF s
<1>5. Parsed(<<>>)
  <2>1. Len(<<>>) = 0 /\ 0 \in Nat /\ \A k \in 1..0 : FALSE
    OBVIOUS
  <2> DEFINE s == [k \in 1..0 |-> <<>>[k]]
  <2>2. <<>> = s
    <3>1. s \in Seq({}) /\ Len(s) = 0
      <4>1. s \in [1..0 -> {}]
        OBVIOUS
      <4> HIDE DEF s
      <4>2. QED
        BY <4>1, SeqDef, LenProperties
    <3> HIDE DEF s
    <3>2. QED
      BY <3>1, EmptySeq
  <2>3. QED
    BY <2>1, <2>2 DEF Parsed
<1>6. QED
  BY <1>1, <1>2, <1>3, <1>4, <1>5

(* A root with its children.                                               *)
LEMMA RootedTree ==
  ASSUME NEW m \in Nat, NEW child, child = [k \in 1..m |-> child[k]],
         \A k \in 1..m : IsNode(child[k]) /\ child[k].parent = 1
  PROVE  /\ Parsed(WithRoot \o child) /\ Len(WithRoot \o child) = m + 1
         /\ (WithRoot \o child)[1] = WithRoot[1]
         /\ \A k \in 2..(m + 1) : (WithRoot \o child)[k] = child[k - 1]
<1> DEFINE X == { child[k] : k \in 1..m } \cup { WithRoot[1] }
           t == WithRoot \o child
<1>1. Parsed(WithRoot) /\ Len(WithRoot) = 1 /\ WithRoot[1].is_directory
      /\ WithRoot = [k \in 1..1 |-> WithRoot[k]] /\ IsNode(WithRoot[1])
      /\ WithRoot[1].parent = 0
  <2>1. 1 \in 1..1
    OBVIOUS
  <2>2. QED
    BY <2>1, RootFacts DEF Parsed
<1>2. child \in Seq(X) /\ Len(child) = m
  <2>1. \A k \in 1..m : child[k] \in X
    OBVIOUS
  <2> HIDE DEF X
  <2>2. child \in [1..m -> X]
    BY <2>1
  <2>3. QED
    BY <2>2, SeqDef, LenProperties
<1>3. WithRoot \in Seq(X)
  <2>1. \A k \in 1..1 : WithRoot[k] \in X
    OBVIOUS
  <2> HIDE DEF X
  <2>2. WithRoot \in [1..1 -> X] /\ 1 \in Nat
    BY <1>1, <2>1
  <2>3. QED
    BY <2>2, SeqDef
<1> HIDE DEF X
<1>4. /\ t \in Seq(X) /\ Len(t) = 1 + m
      /\ \A k \in 1..(1 + m) : t[k] = IF k <= 1 THEN WithRoot[k] ELSE child[k - 1]
  BY <1>1, <1>2, <1>3, ConcatProperties
<1>5. t[1] = WithRoot[1] /\ \A k \in 2..(m + 1) : t[k] = child[k - 1]
  <2>1. 1 \in 1..(1 + m) /\ 1 <= 1
        /\ \A k \in 2..(m + 1) : k \in 1..(1 + m) /\ ~(k <= 1)
    OBVIOUS
  <2> HIDE DEF t
  <2>2. QED
    BY <1>4, <2>1
<1>6. t = [k \in 1..(1 + m) |-> t[k]]
  <2>1. t \in [1..Len(t) -> X]
    BY <1>4, LenProperties
  <2> HIDE DEF t
  <2>2. QED
    BY <1>4, <2>1
<1>7. ASSUME NEW k \in 1..(1 + m)
      PROVE  /\ IsNode(t[k]) /\ t[k].parent \in 0..(k - 1)
             /\ t[k].parent # 0 => t[t[k].parent].is_directory
  <2> HIDE DEF t
  <2>1. CASE k = 1
    BY <1>1, <1>5, <2>1
  <2>2. CASE k # 1
    <3>1. k \in 2..(m + 1) /\ k - 1 \in 1..m /\ 1 \in 0..(k - 1)
      BY <2>2
    <3>2. t[k] = child[k - 1] /\ IsNode(child[k - 1]) /\ child[k - 1].parent = 1
      BY <1>5, <3>1
    <3>3. QED
      BY <1>1, <1>5, <3>1, <3>2
  <2>3. QED
    BY <2>1, <2>2
<1>8. 1 + m \in Nat /\ 1 + m = m + 1
  OBVIOUS
<1>9. Parsed(t)
  <2> HIDE DEF t
  <2>1. QED
    BY <1>4, <1>6, <1>7, <1>8 DEF Parsed
<1>10. QED
  BY <1>4, <1>5, <1>8, <1>9
LEMMA Calculated ==
  ASSUME NEW ns, Parsed(ns)
  PROVE  /\ Parsed(calculate_directory_size(ns))
         /\ Totalled(calculate_directory_size(ns))
         /\ SameButSizes(ns, calculate_directory_size(ns))
<1> DEFINE t == calculate_directory_size(ns)
<1>1. PICK size \in [1..Len(ns) -> Nat] :
        /\ t = Resized(ns, size)
        /\ \A k \in 1..Len(ns) :
             size[k] = IF ns[k].is_directory THEN TotalSize(t, Children(ns, k)) % Word
                       ELSE ns[k].size
  BY DirectorySizes DEF SizesOf
<1> HIDE DEF t
<1>2. /\ Len(t) = Len(ns) /\ Parsed(t)
      /\ \A k \in 1..Len(ns) :
           /\ t[k].size = size[k] /\ t[k].name = ns[k].name
           /\ t[k].is_directory = ns[k].is_directory
           /\ t[k].location = ns[k].location /\ t[k].length = ns[k].length
           /\ t[k].parent = ns[k].parent
  BY <1>1, ResizedFacts
<1>3. DOMAIN t = 1..Len(ns) /\ DOMAIN ns = 1..Len(ns)
  BY <1>2, TreeFacts
<1>4. \A k : Children(t, k) = Children(ns, k)
  BY <1>2, <1>3 DEF Children
<1>5. Totalled(t)
  BY <1>1, <1>2, <1>4 DEF Totalled
<1>6. QED
  BY <1>2, <1>5 DEF SameButSizes, t

-----------------------------------------------------------------------------
(* One image is read, by the reader of its kind.                           *)
LEMMA OwnSteps ==
  ASSUME [Next]_vars
  PROVE  /\ image' = image
         /\ \/ UNCHANGED vars
            \/ image.kind = "disc" /\ (IsoNext \/ UdfNext)
            \/ image.kind = "ntfs" /\ NtfsNext
            \/ image.kind = "squash" /\ SquashNext
            \/ image.kind = "disk" /\ DiskNext
            \/ image.kind = "container" /\ ContainerNext
<1>1. ASSUME IsoNext PROVE image' = image /\ image.kind = "disc"
  BY <1>1 DEF IsoNext, ReadDescriptor, BadDisc, OpenIso, IsoPanics, IsoSkip, IsoFile,
     IsoDirectory, IsoFails, IsoAborts, IsoReturn, Return, AtSubdirectory, AtEntry, At,
     Goto, Stop, TryUdf
<1>2. ASSUME UdfNext PROVE image' = image /\ image.kind = "disc"
  BY <1>2 DEF UdfNext, NotUdf, FindAnchor, ReadVds, VdsFails, BadVolume, OpenUdf, UdfSkip,
     UdfFile, UdfDirectory, UdfUnreadable, UdfAborts, UdfReturn, Return,
     MoreDescriptors, AtVolume, AtUdfDirectory, At, Goto, Stop
<1>3. ASSUME NtfsNext PROVE image' = image /\ image.kind = "ntfs"
  BY <1>3 DEF NtfsNext, NtfsDetect, NtfsUnprobed, BadBoot, ReadBoot, ReadError,
     RecordPanics, KeepRecord, PassRecord, BuildTree, NtfsFile, NtfsDirectory, NtfsTooDeep,
     NtfsReturn, Return, AtRecord, At, Goto, Stop
<1>4. ASSUME SquashNext PROVE image' = image /\ image.kind = "squash"
  BY <1>4 DEF SquashNext, SquashDetect, SquashUnprobed, BadSuper, ReadSuper, SquashFails,
     SquashDirectory, SquashFile, SquashOther, SquashReturn, Return, AtInode, CanDescend,
     At, Goto, Stop
<1>5. ASSUME DiskNext PROVE image' = image /\ image.kind = "disk"
  BY <1>5 DEF DiskNext, GptTree, GptError, NoGpt, MbrTree, MbrError, WholeImage, Answer,
     Refuse, At, Goto, Stop
<1>6. ASSUME ContainerNext PROVE image' = image /\ image.kind = "container"
  BY <1>6 DEF ContainerNext, Detect, Unprobed, ParseHeaders, RefuseHeaders, Answer, Refuse,
     At, Goto, Stop
<1>7. CASE UNCHANGED vars
  BY <1>7 DEF vars
<1>8. CASE Next
  BY <1>1, <1>2, <1>3, <1>4, <1>5, <1>6, <1>8 DEF Next
<1>9. QED
  BY <1>7, <1>8

(* It is one of the images the readers are given.                          *)
LEMMA StartsWithImage ==
  ASSUME Init
  PROVE  IsImage(image) /\ result = "none" /\ nodes = <<>> /\ stack = <<>>
<1>1. QED
  BY ImagesAssumption DEF Init, Begin

-----------------------------------------------------------------------------
(* Containers: what each header stands for are nodes in the root.          *)
InRoot(child, m) ==
  /\ m \in Nat /\ child = [k \in 1..m |-> child[k]]
  /\ \A k \in 1..m : IsNode(child[k]) /\ child[k].parent = 1

LEMMA OneChild ==
  ASSUME NEW x, IsNode(x), x.parent = 1
  PROVE  InRoot(<< x >>, 1) /\ << x >>[1] = x
<1>1. << x >> = [k \in 1..1 |-> << x >>[k]] /\ << x >>[1] = x
  OBVIOUS
<1>2. 1 \in Nat /\ \A k \in 1..1 : k = 1
  OBVIOUS
<1> DEFINE s == << x >>
<1> HIDE DEF s
<1>3. s = [k \in 1..1 |-> s[k]] /\ s[1] = x
  BY <1>1 DEF s
<1>4. InRoot(s, 1)
  BY <1>2, <1>3 DEF InRoot
<1>5. QED
  BY <1>3, <1>4 DEF s

LEMMA DirectoryFacts ==
  ASSUME NEW name
  PROVE  IsNode(Directory(name)) /\ Directory(name).parent = 1
         /\ Directory(name).location = None
<1>1. 0 \in Nat
  OBVIOUS
<1>2. IsMade(new_directory(name, 1), name, TRUE, None, None, 1)
  BY <1>1, NewNodes
<1>3. QED
  BY <1>2 DEF Directory, IsMade

LEMMA VirtualFacts ==
  ASSUME NEW name, NEW size \in Nat
  PROVE  IsNode(Virtual(name, size)) /\ Virtual(name, size).parent = 1
         /\ Virtual(name, size).location = None
<1>1. IsMade([new_file(name, size, 1) EXCEPT !.length = size], name, FALSE, None, size, 1)
  BY NewNodes
<1>2. QED
  BY <1>1 DEF Virtual, IsMade

(* The elements of a property list that are closed are among its elements. *)
LEMMA ClosedFacts ==
  ASSUME NEW X, NEW xml \in Seq(X)
  PROVE  Closed(xml) \in Seq(X)
<1> DEFINE open == { i \in DOMAIN xml : ~xml[i].closed }
           S == { i \in DOMAIN xml : \A j \in open : i < j }
<1>1. Len(xml) \in Nat /\ DOMAIN xml = 1..Len(xml)
  BY LenProperties
<1>2. S \in SUBSET (1..Len(xml)) /\ \A i \in S : \A j \in 1..i : j \in S
  <2>1. open \in SUBSET (1..Len(xml))
    BY <1>1
  <2> HIDE DEF open
  <2>2. QED
    BY <1>1, <2>1
<1> HIDE DEF S
<1>3. SubSeq(xml, 1, Cardinality(S)) \in Seq(X)
  BY <1>2, PrefixFacts
<1>4. QED
  BY <1>3 DEF Closed, S

LEMMA OidsFacts ==
  ASSUME Header.oids \in Seq(Nat)
  PROVE  Oids \in Seq(Nat)
<1> DEFINE s == Header.oids
           unused == { i \in DOMAIN s : s[i] = 0 }
           S == { i \in DOMAIN s : i <= MaxOids /\ \A j \in unused : i < j }
<1>1. Len(s) \in Nat /\ DOMAIN s = 1..Len(s) /\ MaxOids \in Nat
  BY LenProperties, ContainerAssumption
<1>2. S \in SUBSET (1..Len(s)) /\ \A i \in S : \A j \in 1..i : j \in S
  <2>1. unused \in SUBSET (1..Len(s))
    BY <1>1
  <2> HIDE DEF unused
  <2>2. QED
    BY <1>1, <2>1
<1> HIDE DEF S
<1>3. SubSeq(s, 1, Cardinality(S)) \in Seq(Nat)
  <2> HIDE DEF s
  <2>1. s \in Seq(Nat)
    BY DEF s
  <2>2. QED
    BY <1>2, <2>1, PrefixFacts
<1>4. QED
  BY <1>3 DEF Oids, S

(* The images of a WIM in the order of their indexes are its images.       *)
LEMMA ByIndexFacts ==
  ASSUME NEW xml \in Seq(Element)
  PROVE  /\ DOMAIN ByIndex(xml) = 1..Len(xml) /\ Len(xml) \in Nat
         /\ \A k \in 1..Len(xml) : ByIndex(xml)[k] \in Element
         /\ ByIndex(xml) = <<>> <=> xml = <<>>
<1> DEFINE n == Len(xml)
           base == n + 1
           key(i) == xml[i].index * base + i
           S == { key(i) : i \in DOMAIN xml }
<1>1. n \in Nat /\ DOMAIN xml = 1..n /\ \A i \in 1..n : xml[i] \in Element
  BY LenProperties, ElementOfSeq
<1>2. ASSUME NEW i \in 1..n PROVE key(i) \in Nat \ {0} /\ key(i) % base = i
  <2>1. xml[i].index \in Nat
    BY <1>1 DEF Element
  <2> DEFINE x == xml[i].index
             p == x * base
  <2>2. \A a, b \in Nat : a * b \in Nat
    OBVIOUS
  <2>3. p \in Nat /\ base \in Nat \ {0} /\ x \in Nat
    BY <1>1, <2>1, <2>2
  <2>4. key(i) \in Nat \ {0}
    <3> HIDE DEF p
    <3>1. p + i \in Nat \ {0}
      BY <1>1, <2>3
    <3>2. QED
      BY <3>1 DEF p
  <2>5. (p + i) % base = i
    <3> DEFINE m == p + i
               q == m \div base
               r == m % base
    <3>1. m \in Nat /\ i \in 0..(base - 1)
      <4> HIDE DEF p
      <4>1. QED
        BY <1>1, <2>3
    <3>2. m = base * q + r /\ q \in Nat /\ r \in 0..(base - 1)
      <4> HIDE DEF m, base
      <4>1. QED
        BY <2>3, <3>1
    <3>3. base * q + r = x * base + i
      BY <3>2
    <3> HIDE DEF q, r, m, x
    <3>4. q = x
      <4> HIDE DEF base
      <4> DEFINE d == q - x
      <4>1. base * d = i - r /\ d \in Int
        <5> DEFINE e == base * q
                   f == x * base
        <5>1. e \in Nat /\ f \in Nat /\ e + r = f + i
          BY <2>2, <2>3, <3>2, <3>3
        <5>2. base * d = e - f
          BY <2>3, <3>2
        <5> HIDE DEF e, f
        <5>3. e - f = i - r
          BY <3>1, <3>2, <5>1
        <5>4. d \in Int
          BY <2>3, <3>2
        <5>5. QED
          BY <5>2, <5>3, <5>4
      <4> HIDE DEF d
      <4>2. ~(d >= 1)
        <5>1. SUFFICES ASSUME d >= 1 PROVE FALSE
          OBVIOUS
        <5>2. base * d >= base
          BY <2>3, <4>1, <5>1
        <5>3. QED
          BY <2>3, <3>1, <3>2, <4>1, <5>2
      <4>3. ~(d <= -1)
        <5>1. SUFFICES ASSUME d <= -1 PROVE FALSE
          OBVIOUS
        <5>2. base * d <= -base
          BY <2>3, <4>1, <5>1
        <5>3. QED
          BY <2>3, <3>1, <3>2, <4>1, <5>2
      <4>4. d = 0
        BY <4>1, <4>2, <4>3
      <4>5. QED
        BY <2>3, <3>2, <4>4 DEF d
    <3>5. r = i
      <4>1. base * x = x * base /\ x * base \in Nat
        BY <2>2, <2>3
      <4> DEFINE e == x * base
      <4>2. e + r = e + i /\ e \in Nat
        BY <3>3, <3>4, <4>1
      <4> HIDE DEF e
      <4>3. QED
        BY <3>1, <3>2, <4>2
    <3>6. QED
      BY <3>5 DEF r, m
  <2>6. QED
    BY <2>4, <2>5
<1> HIDE DEF key, base
<1>3. /\ S = { key(i) : i \in 1..n } /\ S \in SUBSET (Nat \ {0})
      /\ IsFiniteSet(S) /\ Cardinality(S) = n
  <2>1. S = { key(i) : i \in 1..n } /\ S \in SUBSET (Nat \ {0})
    BY <1>1, <1>2
  <2>2. \A i, j \in 1..n : key(i) = key(j) => i = j
    <3>1. ASSUME NEW i \in 1..n, NEW j \in 1..n, key(i) = key(j) PROVE i = j
      <4>1. key(i) % base = i /\ key(j) % base = j
        BY <1>2
      <4>2. QED
        BY <3>1, <4>1
    <3>2. QED
      BY <3>1
  <2>3. IsFiniteSet(1..n) /\ Cardinality(1..n) = n
    <3>1. n \in Nat
      BY <1>1
    <3> HIDE DEF n
    <3>2. /\ IsFiniteSet(1..n)
          /\ Cardinality(1..n) = IF 1 > n THEN 0 ELSE n - 1 + 1
      BY <3>1, FS_Interval
    <3>3. QED
      BY <3>1, <3>2
  <2> DEFINE f == [s \in S |-> s % base]
  <2>4. \A s \in S : f[s] \in 1..n
    BY <1>2, <2>1
  <2>5. \A s, t \in S : f[s] = f[t] => s = t
    BY <1>2, <2>1
  <2>6. \A i \in 1..n : \E s \in S : f[s] = i
    <3>1. ASSUME NEW i \in 1..n PROVE \E s \in S : f[s] = i
      <4>1. key(i) \in S /\ key(i) % base = i
        BY <1>2, <2>1
      <4>2. QED
        BY <4>1
    <3>2. QED
      BY <3>1
  <2> HIDE DEF f
  <2>7. IsFiniteSet(S) /\ Cardinality(S) = Cardinality(1..n)
    <3> HIDE DEF S
    <3>1. QED
      BY <2>3, <2>4, <2>5, <2>6, SameCount
  <2>8. QED
    BY <2>1, <2>3, <2>7
<1> HIDE DEF S
<1>4. \E m \in Nat : S \in SUBSET (1..m)
  <2> DEFINE size == [i \in 1..n |-> key(i)]
  <2>1. \A i \in 1..n : size[i] \in Nat /\ size[i] = key(i)
    BY <1>2
  <2> HIDE DEF size
  <2>2. PICK f : f \in [0..n -> Nat] /\ Sums(f, n, size)
    BY <1>1, <2>1, SumsExist
  <2>3. \A i, j \in 0..n : i <= j => f[i] <= f[j]
    BY <1>1, <2>1, <2>2, SumsGrow
  <2>4. ASSUME NEW i \in 1..n PROVE key(i) <= f[n]
    <3>1. i \in 0..n /\ i - 1 \in 0..n /\ n \in 0..n /\ i <= n
      BY <1>1
    <3>2. f[i] = f[i - 1] + size[i] /\ f[i] <= f[n]
      BY <2>2, <2>3, <3>1 DEF Sums
    <3>3. f[i - 1] \in Nat /\ f[i] \in Nat /\ f[n] \in Nat
      BY <2>2, <3>1
    <3>4. size[i] \in Nat /\ size[i] = key(i)
      BY <2>1
    <3>5. QED
      BY <3>2, <3>3, <3>4
  <2>5. f[n] \in Nat
    BY <1>1, <2>2
  <2>6. S \in SUBSET (1..f[n])
    BY <1>2, <1>3, <2>4, <2>5
  <2>7. QED
    BY <2>5, <2>6
<1>5. PICK m \in Nat : S \in SUBSET (1..m)
  BY <1>4
<1>6. \A k \in 1..n : Nth(S, k) \in S
  BY <1>3, <1>5, NthFacts
<1> DEFINE order == InOrder(S)
<1>7. \A k \in 1..n : order[k] = Nth(S, k)
  BY <1>3 DEF InOrder
<1>8. ByIndex(xml) = [k \in DOMAIN xml |-> xml[order[k] % base]]
  BY DEF ByIndex, S, key, base
<1>9. \A k \in 1..n : xml[order[k] % base] \in Element
  <2>1. ASSUME NEW k \in 1..n PROVE xml[order[k] % base] \in Element
    <3>1. PICK i \in 1..n : order[k] = key(i)
      BY <1>3, <1>6, <1>7
    <3>2. order[k] % base = i
      BY <1>2, <3>1
    <3>3. QED
      BY <1>1, <3>2
  <2>2. QED
    BY <2>1
<1> HIDE DEF order
<1>10. /\ DOMAIN ByIndex(xml) = 1..n
       /\ \A k \in 1..n : ByIndex(xml)[k] \in Element
  BY <1>1, <1>8, <1>9
<1>11. QED
  <2>1. ByIndex(xml) = <<>> <=> n = 0
    <3>1. ByIndex(xml) \in Seq(Element) /\ Len(ByIndex(xml)) = n
      <4>1. ByIndex(xml) \in [1..n -> Element]
        BY <1>1, <1>8, <1>9
      <4>2. QED
        BY <1>1, <4>1, SeqDef, LenProperties
    <3>2. QED
      BY <3>1, EmptySeq
  <2>2. xml = <<>> <=> n = 0
    BY EmptySeq
  <2>3. QED
    BY <1>1, <1>10, <2>1, <2>2

LEMMA HeaderChildrenFacts ==
  ASSUME IsContainer(image), IsSound
  PROVE  \E m : /\ InRoot(HeaderChildren, m)
                /\ \A k \in 1..m :
                     HeaderChildren[k].location # None =>
                       read_at(Trailer, HeaderChildren[k].location, HeaderChildren[k].length)
<1> DEFINE Fine(child) ==
             \E m : InRoot(child, m) /\ \A k \in 1..m : child[k].location = None
<1>1. ASSUME NEW x, IsNode(x), x.parent = 1, x.location = None PROVE Fine(<< x >>)
  <2>1. InRoot(<< x >>, 1) /\ << x >>[1] = x
    BY <1>1, OneChild
  <2> DEFINE s == << x >>
  <2>2. InRoot(s, 1) /\ s[1] = x
    BY <2>1
  <2> HIDE DEF s
  <2>3. \A k \in 1..1 : s[k].location = None
    <3>1. \A k \in 1..1 : k = 1
      OBVIOUS
    <3>2. QED
      BY <1>1, <2>2, <3>1
  <2>4. Fine(s)
    BY <2>2, <2>3
  <2>5. QED
    BY <2>4 DEF s
<1>2. ASSUME NEW m \in Nat, NEW s, s = [k \in 1..m |-> s[k]],
             \A k \in 1..m : IsNode(s[k]) /\ s[k].parent = 1 /\ s[k].location = None
      PROVE  Fine(s)
  BY <1>2 DEF InRoot
<1> HIDE DEF Fine
<1>3. CASE Format("vhd")
  <2>1. Header \in [ magic : BOOLEAN, checksum : BOOLEAN, dynamic : BOOLEAN,
                     type : {"fixed", "dynamic", "differencing"},
                     size : Nat, data_offset : Nat ]
    BY <1>3 DEF IsContainer, IsHeader, Format, Header
  <2>2. HeaderChildren = VhdChildren /\ VhdIsSound
    BY <1>3 DEF HeaderChildren, IsSound, Format
  <2>3. CASE Header.type = "fixed"
    <3> DEFINE x == new_file_with_location(<<"disk.img">>, Header.size, 0, Header.size, 1)
    <3>1. VhdChildren = << x >>
      BY <2>3 DEF VhdChildren
    <3>2. IsMade(x, <<"disk.img">>, FALSE, 0, Header.size, 1)
      <4>1. Header.size \in Nat
        BY <2>1
      <4>2. QED
        BY <4>1, NewNodes
    <3> HIDE DEF x
    <3>3. InRoot(<< x >>, 1) /\ << x >>[1] = x
      BY <3>2, OneChild DEF IsMade
    <3>4. read_at(Trailer, 0, Header.size)
      <4>1. FitsBefore(Header.size)
        BY <2>2, <2>3 DEF VhdIsSound
      <4>2. 0 + Header.size = Header.size
        BY <2>1
      <4>3. QED
        BY <4>1, <4>2 DEF FitsBefore, read_at
    <3> DEFINE s == << x >>
    <3>5. InRoot(s, 1) /\ s[1] = x /\ HeaderChildren = s
      BY <2>2, <3>1, <3>3
    <3> HIDE DEF s
    <3>6. \A k \in 1..1 : read_at(Trailer, s[k].location, s[k].length)
      <4>1. \A k \in 1..1 : k = 1
        OBVIOUS
      <4>2. x.location = 0 /\ x.length = Header.size
        BY <3>2 DEF IsMade
      <4>3. QED
        BY <3>4, <3>5, <4>1, <4>2
    <3>7. QED
      BY <3>5, <3>6
  <2>4. CASE Header.type # "fixed"
    <3>1. VhdChildren = << Virtual(<<"disk.img">>, Header.size) >>
      BY <2>4 DEF VhdChildren
    <3>2. Header.size \in Nat
      BY <2>1
    <3>3. Fine(VhdChildren)
      BY <1>1, <3>1, <3>2, VirtualFacts
    <3>4. QED
      BY <2>2, <3>3 DEF Fine
  <2>5. QED
    BY <2>3, <2>4
<1>4. CASE Format("qcow2")
  <2>1. Header.size \in Nat
    BY <1>4 DEF IsContainer, IsHeader, Format, Header
  <2>2. HeaderChildren = QcowChildren
    BY <1>4 DEF HeaderChildren, Format
  <2>3. Fine(QcowChildren)
    BY <1>1, <2>1, VirtualFacts DEF QcowChildren
  <2>4. QED
    BY <2>2, <2>3 DEF Fine
<1>5. CASE Format("vmdk")
  <2>1. Header.capacity * DiskSector \in Nat
    <3>1. Header.capacity \in Nat
      BY <1>5 DEF IsContainer, IsHeader, Format, Header
    <3>2. \A a, b \in Nat : a * b \in Nat
      OBVIOUS
    <3>3. QED
      BY <3>1, <3>2, DiskAssumption
  <2>2. HeaderChildren = VmdkChildren
    BY <1>5 DEF HeaderChildren, Format
  <2>3. Fine(VmdkChildren)
    BY <1>1, <2>1, VirtualFacts DEF VmdkChildren
  <2>4. QED
    BY <2>2, <2>3 DEF Fine
<1>6. CASE Format("wim")
  <2>1. Header.xml \in Seq(Element) /\ Header.images \in Nat /\ MaxImages \in Nat
    BY <1>6, ContainerAssumption DEF IsContainer, IsHeader, Format, Header
  <2>2. HeaderChildren = WimChildren
    BY <1>6 DEF HeaderChildren, Format
  <2> DEFINE xml == ByIndex(Closed(Header.xml))
             count == IF Header.images < MaxImages THEN Header.images ELSE MaxImages
             m == Len(Closed(Header.xml))
  <2>3. /\ DOMAIN xml = 1..m /\ m \in Nat /\ \A k \in 1..m : xml[k] \in Element
    BY <2>1, ClosedFacts, ByIndexFacts
  <2>4. CASE xml = <<>>
    <3> DEFINE s == [i \in 1..count |-> Directory(<<"Image", i>>)]
    <3>1. WimChildren = s
      BY <2>4 DEF WimChildren
    <3>2. count \in Nat
      BY <2>1
    <3>3. \A k \in 1..count : s[k] = Directory(<<"Image", k>>)
      OBVIOUS
    <3>4. s = [k \in 1..count |-> s[k]]
      OBVIOUS
    <3> HIDE DEF s, count
    <3>5. \A k \in 1..count : IsNode(s[k]) /\ s[k].parent = 1 /\ s[k].location = None
      BY <3>3, DirectoryFacts
    <3>6. Fine(s)
      BY <1>2, <3>2, <3>4, <3>5
    <3>7. QED
      BY <2>2, <3>1, <3>6 DEF Fine
  <2>5. CASE xml # <<>>
    <3> DEFINE node(x) == [Directory(ImageName(x)) EXCEPT !.size = x.bytes]
               s == [k \in DOMAIN xml |-> node(xml[k])]
    <3>1. WimChildren = s
      BY <2>5 DEF WimChildren
    <3>2. s = [k \in 1..m |-> s[k]] /\ \A k \in 1..m : s[k] = node(xml[k])
      BY <2>3
    <3>3. ASSUME NEW x \in Element
          PROVE  IsNode(node(x)) /\ node(x).parent = 1 /\ node(x).location = None
      <4>1. x.bytes \in Nat
        BY DEF Element
      <4>2. node(x) \in [ name : {ImageName(x)}, is_directory : {TRUE}, size : {x.bytes},
                          location : {None}, length : {None}, parent : {1} ]
        BY DEF Directory, new_directory
      <4> HIDE DEF node
      <4>3. IsMade(node(x), ImageName(x), TRUE, None, None, 1)
        BY <4>1, <4>2, MadeNode, TRUE \in BOOLEAN
      <4>4. QED
        BY <4>3 DEF IsMade
    <3> HIDE DEF s, xml, m, node
    <3>4. Fine(s)
      <4>1. \A k \in 1..m : IsNode(s[k]) /\ s[k].parent = 1 /\ s[k].location = None
        BY <2>3, <3>2, <3>3
      <4>2. QED
        BY <1>2, <2>3, <3>2, <4>1
    <3>5. QED
      BY <2>2, <3>1, <3>4 DEF Fine
  <2>6. QED
    BY <2>4, <2>5
<1>7. CASE Format("dmg")
  <2>1. Header.xml \in Seq(Element) /\ Header.sectors \in Nat
    BY <1>7 DEF IsContainer, IsHeader, Format, Header
  <2>2. HeaderChildren = DmgChildren
    BY <1>7 DEF HeaderChildren, Format
  <2>3. CASE DmgXml = <<>>
    <3>1. Saturated(Header.sectors * DiskSector) \in Nat
      <4>1. \A a, b \in Nat : a * b \in Nat
        OBVIOUS
      <4>2. Header.sectors * DiskSector \in Nat
        BY <2>1, <4>1, DiskAssumption
      <4>3. QED
        BY <4>2, TreeAssumption DEF Saturated
    <3>2. Fine(DmgChildren)
      BY <1>1, <2>3, <3>1, VirtualFacts DEF DmgChildren
    <3>3. QED
      BY <2>2, <3>2 DEF Fine
  <2>4. CASE DmgXml # <<>>
    <3> DEFINE s == [k \in DOMAIN DmgXml |-> Directory(DmgXml[k].name)]
               m == Len(DmgXml)
    <3>1. DmgXml \in Seq(Element)
      <4> DEFINE c == Closed(Header.xml)
                 S == { i \in DOMAIN c : c[i].name # <<>> }
      <4>1. c \in Seq(Element)
        BY <2>1, ClosedFacts
      <4>2. S \in SUBSET (DOMAIN c)
        OBVIOUS
      <4> HIDE DEF S, c
      <4>3. Chosen(c, S) \in Seq(Element)
        BY <4>1, <4>2, ChosenFacts
      <4>4. DmgXml = Chosen(c, S)
        BY <2>4 DEF DmgXml, Select, c, S
      <4>5. QED
        BY <4>3, <4>4
    <3>2. m \in Nat /\ DOMAIN DmgXml = 1..m
      BY <3>1, LenProperties
    <3>3. s = [k \in 1..m |-> s[k]] /\ \A k \in 1..m : s[k] = Directory(DmgXml[k].name)
      BY <3>2
    <3>4. DmgChildren = s
      BY <2>4 DEF DmgChildren
    <3> HIDE DEF s, m
    <3>5. \A k \in 1..m : IsNode(s[k]) /\ s[k].parent = 1 /\ s[k].location = None
      BY <3>3, DirectoryFacts
    <3>6. Fine(s)
      BY <1>2, <3>2, <3>3, <3>5
    <3>7. QED
      BY <2>2, <3>4, <3>6 DEF Fine
  <2>5. QED
    BY <2>3, <2>4
<1>8. CASE Format("apfs")
  <2>1. Oids \in Seq(Nat)
    BY <1>8, OidsFacts DEF IsContainer, IsHeader, IsNxSuperblock, Format, Header
  <2>2. HeaderChildren = ApfsChildren
    BY <1>8 DEF HeaderChildren, Format
  <2> DEFINE m == Len(Oids)
  <2>3. m \in Nat /\ DOMAIN Oids = 1..m
    BY <2>1, LenProperties
  <2> DEFINE s == [k \in DOMAIN Oids |-> Directory(VolumeName(Oids[k]))]
  <2>4. s = [k \in 1..m |-> s[k]] /\ \A k \in 1..m : s[k] = Directory(VolumeName(Oids[k]))
    BY <2>3
  <2>5. ApfsChildren = s
    BY DEF ApfsChildren
  <2> HIDE DEF s, m
  <2>6. \A k \in 1..m : IsNode(s[k]) /\ s[k].parent = 1 /\ s[k].location = None
    BY <2>4, DirectoryFacts
  <2>7. Fine(s)
    BY <1>2, <2>3, <2>4, <2>6
  <2>8. QED
    BY <2>2, <2>5, <2>7 DEF Fine
<1>9. QED
  BY <1>3, <1>4, <1>5, <1>6, <1>7, <1>8 DEF IsContainer, Format

(* What is sound has been detected, if detect was asked.                   *)
LEMMA SoundIsDetected ==
  ASSUME IsContainer(image), IsSound
  PROVE  Detected
<1>1. /\ \A n \in {FooterSize, WimHeader, VmdkHeader, QcowHeader} :
           n \in Nat /\ MagicSize <= n
      /\ MagicSize \in Nat /\ image.size \in Nat
  BY ContainerAssumption DEF IsContainer
<1>2. ASSUME NEW at \in Nat, at + MagicSize <= image.size PROVE CanRead(at, MagicSize)
  <2>1. ~(at < 0) /\ (IF at < image.size THEN at ELSE image.size) = at
    BY <1>1, <1>2
  <2>2. seek(0, at) = at
    BY <2>1 DEF seek
  <2>3. ~(MagicSize < image.size - at) => MagicSize = image.size - at
    BY <1>1, <1>2
  <2>4. QED
    BY <2>1, <2>2, <2>3 DEF CanRead, read_exact, read
<1>3. CASE Format("vhd") \/ Format("dmg")
  <2>1. image.size >= FooterSize /\ Header.magic
    BY <1>3 DEF IsSound, VhdIsSound, DmgIsSound, Format
  <2>2. Trailer \in Nat /\ Trailer + MagicSize <= image.size
    BY <1>1, <2>1 DEF Trailer, FromEnd
  <2>3. MagicAt = Trailer
    BY <1>3 DEF MagicAt, Format
  <2>4. HasMagic
    BY <1>2, <2>1, <2>2, <2>3 DEF HasMagic
  <2>5. QED
    BY <1>3, <2>1, <2>4 DEF Detected, VhdDetects, DmgDetects, Format
<1>4. CASE Format("qcow2") \/ Format("vmdk") \/ Format("wim")
  <2>1. /\ Header.magic
        /\ Format("qcow2") => image.size >= QcowHeader
        /\ Format("vmdk") => image.size >= VmdkHeader
        /\ Format("wim") => image.size >= WimHeader
    BY <1>4 DEF IsSound, QcowIsSound, VmdkIsSound, WimIsSound, Format
  <2>2. MagicAt = 0 /\ 0 + MagicSize <= image.size
    BY <1>1, <1>4, <2>1 DEF MagicAt, Format
  <2>3. HasMagic
    BY <1>2, <2>1, <2>2, 0 \in Nat DEF HasMagic
  <2>4. QED
    BY <1>4, <2>1, <2>3 DEF Detected, QcowDetects, VmdkDetects, WimDetects, Format
<1>5. CASE Format("apfs")
  <2>1. ApfsDetects
    BY <1>5 DEF IsSound, ApfsIsSound, Format
  <2>2. QED
    BY <1>5, <2>1 DEF Detected, Format
<1>6. QED
  BY <1>3, <1>4, <1>5 DEF IsContainer, Format

(* Where a container's reader is, and what it has found and made.          *)
ContainerInv ==
  image.kind = "container" =>
    /\ IsContainer(image)
    /\ pc \in {"detect", "open", "done"} /\ result \in {"none", "Ok", "Err"}
    /\ pc = "done" <=> result # "none"
    /\ found.cursor = image.cursor
    /\ pc = "open" /\ image.probed => (found.detected <=> Detected)
    /\ result = "Ok" =>
         /\ image.probed => found.detected
         /\ Parsed(nodes) /\ Totalled(nodes)
         /\ \A k \in DOMAIN nodes :
              nodes[k].location # None =>
                read_at(Trailer, nodes[k].location, nodes[k].length)

LEMMA ContainerInit ==
  ASSUME Init
  PROVE  ContainerInv
<1> SUFFICES ASSUME image.kind = "container" PROVE ContainerInv
  BY DEF ContainerInv
<1>1. IsImage(image) /\ result = "none"
  BY StartsWithImage
<1>2. IsContainer(image)
  BY <1>1 DEF IsImage
<1>3. pc = StartPc["container"] /\ found = StartFound["container"]
  BY DEF Init, Begin
<1>4. pc = "detect" /\ found.cursor = image.cursor
  BY <1>3 DEF StartPc, StartFound
<1>5. QED
  BY <1>1, <1>2, <1>4 DEF ContainerInv

LEMMA ContainerSteps ==
  ASSUME ContainerInv, [Next]_vars
  PROVE  ContainerInv'
<1>1. image' = image
  BY OwnSteps
<1>2. CASE image.kind # "container"
  BY <1>1, <1>2 DEF ContainerInv
<1> SUFFICES ASSUME image.kind = "container" PROVE ContainerInv'
  BY <1>2
<1>3. /\ IsContainer(image)
      /\ pc \in {"detect", "open", "done"} /\ result \in {"none", "Ok", "Err"}
      /\ pc = "done" <=> result # "none"
      /\ found.cursor = image.cursor
      /\ pc = "open" /\ image.probed => (found.detected <=> Detected)
  BY DEF ContainerInv
<1>4. IsContainer(image)' /\ (Detected' <=> Detected) /\ Trailer' = Trailer
  BY <1>1, <1>3 DEF IsContainer, IsHeader, Detected, VhdDetects, QcowDetects, VmdkDetects,
     WimDetects, DmgDetects, ApfsDetects, HasMagic, MagicAt, CanRead, Format, Header, Trailer
<1>5. CASE UNCHANGED vars
  BY <1>1, <1>4, <1>5 DEF ContainerInv, vars, Parsed, Totalled
<1>6. CASE Detect
  <2>1. found' = [ detected |-> Detected, cursor |->
                     PutBack(image.size, found.cursor, MagicAt, MagicSize) ]
        /\ pc = "detect" /\ pc' = "open" /\ result' = result
    BY <1>6 DEF Detect, At, Goto
  <2>2. PutBack(image.size, found.cursor, MagicAt, MagicSize) = image.cursor
    <3>1. image.cursor \in Nat
      BY <1>3 DEF IsContainer
    <3>2. ~(image.cursor < 0)
      BY <3>1
    <3>3. QED
      BY <1>3, <3>2 DEF PutBack, seek
  <2>3. found'.cursor = image.cursor /\ (found'.detected <=> Detected)
    BY <2>1, <2>2
  <2>4. result = "none"
    BY <1>3, <2>1
  <2>5. QED
    BY <1>1, <1>3, <1>4, <2>1, <2>3, <2>4 DEF ContainerInv
<1>7. CASE Unprobed
  BY <1>1, <1>3, <1>4, <1>7 DEF ContainerInv, Unprobed, At, Goto
<1>8. CASE RefuseHeaders
  BY <1>1, <1>3, <1>4, <1>8 DEF ContainerInv, RefuseHeaders, Refuse, At, Stop
<1>9. CASE ParseHeaders
  <2> DEFINE ns == WithRoot \o HeaderChildren
  <2>1. /\ pc = "open" /\ IsSound /\ nodes' = calculate_directory_size(ns)
        /\ found' = found /\ pc' = "done" /\ result' = "Ok"
    BY <1>9 DEF ParseHeaders, At, Answer, Stop
  <2>2. PICK m : /\ InRoot(HeaderChildren, m)
                 /\ \A k \in 1..m :
                      HeaderChildren[k].location # None =>
                        read_at(Trailer, HeaderChildren[k].location,
                                HeaderChildren[k].length)
    BY <1>3, <2>1, HeaderChildrenFacts
  <2>3. /\ m \in Nat /\ Parsed(ns) /\ Len(ns) = m + 1 /\ ns[1] = WithRoot[1]
        /\ \A k \in 2..(m + 1) : ns[k] = HeaderChildren[k - 1]
    <3> DEFINE child == HeaderChildren
    <3>1. InRoot(child, m)
      BY <2>2
    <3> HIDE DEF child
    <3>2. /\ m \in Nat /\ child = [k \in 1..m |-> child[k]]
          /\ \A k \in 1..m : IsNode(child[k]) /\ child[k].parent = 1
      BY <3>1 DEF InRoot
    <3>3. QED
      BY <3>2, RootedTree DEF child
  <2> HIDE DEF ns
  <2>4. Parsed(nodes') /\ Totalled(nodes') /\ SameButSizes(ns, nodes')
    BY <2>1, <2>3, Calculated
  <2>5. ASSUME NEW k \in DOMAIN nodes', nodes'[k].location # None
        PROVE  read_at(Trailer, nodes'[k].location, nodes'[k].length)
    <3>1. /\ k \in 1..(m + 1) /\ nodes'[k].location = ns[k].location
          /\ nodes'[k].length = ns[k].length
      <4>1. DOMAIN nodes' = 1..Len(nodes') /\ Len(nodes') = m + 1
        BY <2>3, <2>4, TreeFacts DEF SameButSizes
      <4>2. QED
        BY <2>3, <2>4, <4>1 DEF SameButSizes
    <3>2. k # 1
      BY <2>3, <2>5, <3>1, RootFacts
    <3>3. k \in 2..(m + 1) /\ k - 1 \in 1..m
      BY <2>3, <3>1, <3>2
    <3>4. QED
      BY <2>2, <2>3, <2>5, <3>1, <3>3
  <2>6. image.probed => found'.detected
    <3>1. Detected
      BY <1>3, <2>1, SoundIsDetected
    <3>2. QED
      BY <1>3, <2>1, <3>1
  <2>7. Parsed(nodes)' /\ Totalled(nodes)'
    BY <2>4 DEF Parsed, Totalled
  <2>8. QED
    BY <1>1, <1>3, <1>4, <2>1, <2>5, <2>6, <2>7 DEF ContainerInv
<1>10. QED
  BY <1>5, <1>6, <1>7, <1>8, <1>9, OwnSteps DEF ContainerNext

(* A container that is read has been detected, its located disk lies in    *)
(* front of the footer, and detect has put the cursor back.                *)
THEOREM ContainersHold == Spec => []ContainersHoldTheirDisks
<1>1. ContainerInv => ContainersHoldTheirDisks
  BY DEF ContainerInv, ContainersHoldTheirDisks, Finished
<1>2. Init => ContainerInv
  BY ContainerInit
<1>3. ContainerInv /\ [Next]_vars => ContainerInv'
  BY ContainerSteps
<1>4. QED
  BY <1>1, <1>2, <1>3, PTL DEF Spec

-----------------------------------------------------------------------------
(* Disks: a child of the root is found by its name, when no other has it.  *)
LEMMA ChildFound ==
  ASSUME NEW ns, Parsed(ns), 1 \in 1..Len(ns), NEW k \in 1..Len(ns), ns[k].parent = 1,
         NEW x, ns[k].name = x, x # ns[1].name,
         \A c \in Children(ns, 1) : ns[c].name = x => c = k
  PROVE  find_node(ns, 1, << x >>) = k
<1> DEFINE D == DOMAIN ns \cup {None}
           path == << x >>
           named(i, n) == { c \in Children(ns, n) : ns[c].name = path[i] }
           least(i, n) == CHOOSE c \in named(i, n) : \A d \in named(i, n) : c <= d
           value(f, i, n) ==
             IF i > Len(path) \/ n = None THEN n
             ELSE IF i = Len(path) /\ path[i] = ns[n].name THEN n
             ELSE IF named(i, n) = {} THEN None ELSE f[i + 1][least(i, n)]
           Rule(f) == [i \in 1..(Len(path) + 1) |-> [n \in D |-> value(f, i, n)]]
           from == CHOOSE f : f = Rule(f)
<1>1. find_node(ns, 1, path) = from[1][1]
  BY DEF find_node
<1>2. Len(path) = 1 /\ path[1] = x /\ DOMAIN ns = 1..Len(ns) /\ Len(ns) \in Nat
  BY TreeFacts
<1>3. 1 # None /\ 1 \in D /\ \A n \in D : n # None => n \in 1..Len(ns)
  BY <1>2, TreeAssumption
<1>4. \A n : named(1, n) \subseteq D /\ named(1, n) \in SUBSET Nat
  BY <1>2 DEF Children
<1>5. \A n : named(1, n) # {} => least(1, n) \in D /\ least(1, n) \in named(1, n)
  <2>1. ASSUME NEW n, named(1, n) # {} PROVE \E c \in named(1, n) : \A d \in named(1, n) : c <= d
    <3> DEFINE T == named(1, n)
    <3>1. T \in SUBSET Nat /\ T # {}
      BY <1>4, <2>1
    <3> HIDE DEF T
    <3>2. \E c \in T : \A d \in T : c <= d
      BY <3>1, LeastElement
    <3>3. QED
      BY <3>2 DEF T
  <2> HIDE DEF named
  <2>2. QED
    BY <1>4, <2>1
<1> HIDE DEF path, named, least, D
<1>6. \E f : f = Rule(f)
  <2> DEFINE last == [n \in D |-> n]
             first == [n \in D |-> IF n = None THEN n
                                   ELSE IF path[1] = ns[n].name THEN n
                                   ELSE IF named(1, n) = {} THEN None
                                   ELSE last[least(1, n)]]
             f == [i \in 1..2 |-> IF i = 1 THEN first ELSE last]
  <2>1. f[1] = first /\ f[2] = last
    OBVIOUS
  <2> HIDE DEF f
  <2>2. [n \in D |-> value(f, 1, n)] = first
    BY <1>2, <2>1
  <2>3. [n \in D |-> value(f, 2, n)] = last
    BY <1>2
  <2>4. \A i \in 1..2 : i = 1 \/ i = 2
    OBVIOUS
  <2> HIDE DEF value, first, last
  <2>5. Rule(f) = [i \in 1..2 |-> IF i = 1 THEN first ELSE last]
    BY <1>2, <2>2, <2>3, <2>4
  <2>6. QED
    BY <2>5 DEF f
<1>7. from = Rule(from)
  <2> HIDE DEF Rule
  <2>1. QED
    BY <1>6
<1> HIDE DEF from
<1>8. from[2] = [n \in D |-> value(from, 2, n)] /\ from[1] = [n \in D |-> value(from, 1, n)]
  <2>1. 1 \in 1..(Len(path) + 1) /\ 2 \in 1..(Len(path) + 1)
    BY <1>2
  <2> DEFINE row(i) == [n \in D |-> value(from, i, n)]
  <2>2. from = [i \in 1..(Len(path) + 1) |-> row(i)]
    BY <1>7
  <2> HIDE DEF row
  <2>3. from[1] = row(1) /\ from[2] = row(2)
    BY <2>1, <2>2
  <2>4. QED
    BY <2>3 DEF row
<1>9. \A n \in D : from[2][n] = n
  BY <1>2, <1>8
<1>10. k \in named(1, 1) /\ \A c \in named(1, 1) : c = k
  BY <1>2 DEF Children, named
<1>11. least(1, 1) = k
  BY <1>5, <1>10
<1>12. from[1][1] = value(from, 1, 1)
  BY <1>3, <1>8
<1>13. value(from, 1, 1) = from[2][k]
  <2>1. named(1, 1) # {} /\ ~(path[1] = ns[1].name)
    BY <1>2, <1>10
  <2>2. 1 + 1 = 2
    OBVIOUS
  <2>3. QED
    BY <1>2, <1>3, <1>11, <2>1, <2>2
<1>14. k \in D
  BY <1>5, <1>10, <1>11
<1>15. QED
  BY <1>1, <1>9, <1>12, <1>13, <1>14 DEF path

(* A root with files whose names differ and have no "/".                   *)
DiskTree(t, m) ==
  /\ m \in Nat /\ Len(t) = m + 1 /\ Parsed(t) /\ Totalled(t)
  /\ \A k \in 2..Len(t) :
       find_node(t, 1, << t[k].name >>) = k /\ Slash \notin ToSet(t[k].name)
LEMMA NamedTree ==
  ASSUME NEW child, NEW m, InRoot(child, m),
         \A k \in 1..m : Slash \notin ToSet(child[k].name),
         \A j, k \in 1..m : child[j].name = child[k].name => j = k
  PROVE  DiskTree(calculate_directory_size(WithRoot \o child), m)
<1> DEFINE ns == WithRoot \o child
           t == calculate_directory_size(ns)
<1>1. /\ m \in Nat /\ Parsed(ns) /\ Len(ns) = m + 1 /\ ns[1] = WithRoot[1]
      /\ \A k \in 2..(m + 1) : ns[k] = child[k - 1]
  BY RootedTree DEF InRoot
<1> HIDE DEF ns
<1>2. Parsed(t) /\ Totalled(t) /\ SameButSizes(ns, t)
  BY <1>1, Calculated
<1> HIDE DEF t
<1>3. Len(t) = m + 1 /\ DOMAIN t = 1..(m + 1)
  BY <1>1, <1>2, TreeFacts DEF SameButSizes
<1>4. t[1].name = << Slash >>
  <2>1. 1 \in 1..Len(ns)
    BY <1>1
  <2>2. QED
    BY <1>1, <1>2, <2>1, RootFacts DEF SameButSizes
<1>5. ASSUME NEW k \in 2..(m + 1)
      PROVE  k - 1 \in 1..m /\ t[k].name = child[k - 1].name /\ t[k].parent = 1
  <2>1. k - 1 \in 1..m /\ k \in 1..(m + 1)
    BY <1>1
  <2>2. t[k].name = ns[k].name /\ t[k].parent = ns[k].parent
    BY <1>1, <1>2, <2>1 DEF SameButSizes
  <2>3. QED
    BY <1>1, <2>1, <2>2 DEF InRoot
<1>6. ASSUME NEW k \in 2..(m + 1)
      PROVE  find_node(t, 1, << t[k].name >>) = k /\ Slash \notin ToSet(t[k].name)
  <2>1. Slash \notin ToSet(t[k].name)
    BY <1>5
  <2>2. Slash \in ToSet(<< Slash >>)
    <3> DEFINE s == << Slash >>
    <3>1. DOMAIN s = {1} /\ s[1] = Slash
      OBVIOUS
    <3> HIDE DEF s
    <3>2. Slash \in ToSet(s)
      BY <3>1 DEF ToSet
    <3>3. QED
      BY <3>2 DEF s
  <2>3. t[k].name # t[1].name
    BY <1>4, <2>1, <2>2
  <2>4. \A c \in Children(t, 1) : t[c].name = t[k].name => c = k
    <3>1. ASSUME NEW c \in Children(t, 1), t[c].name = t[k].name PROVE c = k
      <4>1. c \in 1..(m + 1) /\ c # 1
        BY <1>3, <2>3, <3>1 DEF Children
      <4>2. c \in 2..(m + 1)
        BY <4>1
      <4>3. c - 1 = k - 1
        BY <1>5, <3>1, <4>2
      <4>4. QED
        BY <1>1, <4>2, <4>3
    <3>2. QED
      BY <3>1
  <2>5. 1 \in 1..Len(t) /\ k \in 1..Len(t) /\ t[k].parent = 1
    BY <1>1, <1>3, <1>5
  <2>6. find_node(t, 1, << t[k].name >>) = k
    BY <1>2, <2>3, <2>4, <2>5, ChildFound
  <2>7. QED
    BY <2>1, <2>6
<1>7. QED
  BY <1>1, <1>2, <1>3, <1>6 DEF DiskTree, t, ns

LEMMA PartitionNodeFacts ==
  ASSUME NEW name, NEW p, p.length \in Nat
  PROVE  IsNode(PartitionNode(name, p)) /\ PartitionNode(name, p).parent = 1
         /\ PartitionNode(name, p).name = name
<1>1. IsMade(new_file(name, 0, 1), name, FALSE, None, None, 1)
  BY NewNodes, 0 \in Nat
<1>2. IsMade(new_file_with_location(name, p.length, p.start, p.length, 1),
             name, FALSE, p.start, p.length, 1)
  BY NewNodes
<1>3. QED
  BY <1>1, <1>2 DEF PartitionNode, IsMade

(* The characters of the names: none is a "/".                             *)
NameParts == Plain \cup Nat \cup {Underscore, Dash, PartitionName}
LEMMA NoSlash ==
  ASSUME NEW name \in Seq(NameParts)
  PROVE  Slash \notin ToSet(name)
<1>1. Slash \notin NameParts
  BY DiskAssumption DEF NameParts
<1>2. \A i \in DOMAIN name : name[i] \in NameParts
  BY ElementOfSeq, LenProperties
<1>3. QED
  BY <1>1, <1>2 DEF ToSet

LEMMA GptNameFacts ==
  ASSUME NEW p, p.index \in Nat, p.name \in Seq(Nat \cup {Slash})
  PROVE  /\ GptName(p) \in Seq(NameParts)
         /\ Len(GptName(p)) \in Nat \ {0} /\ GptName(p)[Len(GptName(p))] = p.index
<1> DEFINE a == IF p.name = <<>> THEN <<PartitionName, Dash, p.index>>
                ELSE sanitize(p.name)
           b == <<Dash, p.index>>
<1>1. p.index \in NameParts /\ Dash \in NameParts /\ PartitionName \in NameParts
      /\ Underscore \in NameParts /\ Plain \subseteq NameParts
  BY DEF NameParts
<1>2. sanitize(p.name) \in Seq(NameParts)
  <2>1. Len(p.name) \in Nat /\ DOMAIN p.name = 1..Len(p.name)
    BY LenProperties
  <2>2. sanitize(p.name) \in [1..Len(p.name) -> NameParts]
    BY <1>1, <2>1 DEF sanitize
  <2>3. QED
    BY <2>1, <2>2, SeqDef
<1>3. a \in Seq(NameParts)
  <2>1. <<PartitionName, Dash, p.index>> \in Seq(NameParts)
    BY <1>1
  <2>2. QED
    BY <1>2, <2>1
<1>4. b \in Seq(NameParts) /\ Len(b) = 2 /\ b[2] = p.index
  BY <1>1
<1>5. GptName(p) = a \o b
  BY DEF GptName
<1> HIDE DEF a, b
<1>6. Len(a) \in Nat
  BY <1>3, LenProperties
<1>7. /\ a \o b \in Seq(NameParts) /\ Len(a \o b) = Len(a) + 2
      /\ \A i \in 1..(Len(a) + 2) : (a \o b)[i] = IF i <= Len(a) THEN a[i] ELSE b[i - Len(a)]
  <2>1. /\ a \o b \in Seq(NameParts) /\ Len(a \o b) = Len(a) + Len(b)
        /\ \A i \in 1..(Len(a) + Len(b)) :
             (a \o b)[i] = IF i <= Len(a) THEN a[i] ELSE b[i - Len(a)]
    BY <1>3, <1>4, ConcatProperties
  <2>2. QED
    BY <1>4, <2>1
<1>8. (a \o b)[Len(a) + 2] = b[2]
  <2>1. Len(a) + 2 \in 1..(Len(a) + 2) /\ ~(Len(a) + 2 <= Len(a))
        /\ (Len(a) + 2) - Len(a) = 2
    BY <1>6
  <2>2. QED
    BY <1>7, <2>1
<1>9. QED
  BY <1>4, <1>5, <1>6, <1>7, <1>8

(* A GPT's partitions are its used entries, each under a name of its own.  *)
LEMMA GptTreeFacts ==
  ASSUME NEW array \in Seq([ used : BOOLEAN, first : Nat, last : Nat,
                             name : Seq(Nat \cup {Slash}) ])
  PROVE  DiskTree(to_tree(GptPartitions(array), GptNames(GptPartitions(array))),
                  Cardinality({ i \in DOMAIN array : array[i].used }))
<1> DEFINE S == { i \in DOMAIN array : array[i].used }
           m == Cardinality(S)
           parts == GptPartitions(array)
           names == GptNames(parts)
           child == [k \in DOMAIN parts |-> PartitionNode(names[k], parts[k])]
<1>1. /\ Len(array) \in Nat /\ DOMAIN array = 1..Len(array)
      /\ \A i \in 1..Len(array) :
           array[i] \in [ used : BOOLEAN, first : Nat, last : Nat,
                          name : Seq(Nat \cup {Slash}) ]
  BY LenProperties, ElementOfSeq
<1>2. S \in SUBSET (1..Len(array))
  BY <1>1
<1> HIDE DEF S
<1>3. /\ m \in Nat /\ \A k \in 1..m : Nth(S, k) \in S
      /\ \A j, k \in 1..m : Nth(S, j) = Nth(S, k) => j = k
  BY <1>1, <1>2, NthFacts
<1> DEFINE entry(k) == array[Nth(S, k)]
           made(k) == [ index |-> Nth(S, k) - 1, start |-> (entry(k).first * DiskSector) % Word,
                        length |-> GptLength(entry(k)), name |-> entry(k).name ]
<1>4. parts = [k \in 1..m |-> made(k)]
  <2>1. InOrder(S) = [k \in 1..m |-> Nth(S, k)]
    BY DEF InOrder
  <2> DEFINE used == InOrder(S)
  <2>2. DOMAIN used = 1..m /\ \A k \in 1..m : used[k] = Nth(S, k)
    BY <2>1
  <2>3. parts = [ k \in DOMAIN used |->
                    [ index |-> used[k] - 1,
                      start |-> (array[used[k]].first * DiskSector) % Word,
                      length |-> GptLength(array[used[k]]), name |-> array[used[k]].name ] ]
    BY DEF GptPartitions, S
  <2> HIDE DEF used
  <2>4. QED
    BY <2>2, <2>3
<1>5. ASSUME NEW k \in 1..m
      PROVE  /\ made(k).index \in Nat /\ made(k).name \in Seq(Nat \cup {Slash})
             /\ made(k).length \in Nat
  <2>1. Nth(S, k) \in 1..Len(array)
    BY <1>2, <1>3
  <2>2. entry(k).first \in Nat /\ entry(k).last \in Nat
        /\ entry(k).name \in Seq(Nat \cup {Slash})
    BY <1>1, <2>1
  <2>3. GptLength(entry(k)) \in Nat
    <3>1. \A x \in Nat : Saturated(x) \in Nat
      BY TreeAssumption DEF Saturated
    <3> SUFFICES ASSUME NEW e, e.last \in Nat, e.first \in Nat
                 PROVE  GptLength(e) \in Nat
      BY <2>2
    <3> DEFINE last == Saturated(e.last + 1)
               span == IF last < e.first THEN 0 ELSE last - e.first
    <3>2. e.last + 1 \in Nat /\ e.first \in Nat
      OBVIOUS
    <3>3. last \in Nat
      BY <3>1, <3>2
    <3> HIDE DEF last
    <3>4. span \in Nat
      BY <3>2, <3>3
    <3> HIDE DEF span
    <3>5. \A a, b \in Nat : a * b \in Nat
      OBVIOUS
    <3>6. span * DiskSector \in Nat
      BY <3>4, <3>5, DiskAssumption
    <3>7. GptLength(e) = Saturated(span * DiskSector)
      BY DEF GptLength, span, last
    <3>8. QED
      BY <3>1, <3>6, <3>7
  <2> HIDE DEF entry
  <2>4. QED
    BY <1>1, <2>1, <2>2, <2>3, SMTT(20)
<1> HIDE DEF made, m, parts
<1>6. DOMAIN parts = 1..m /\ \A k \in 1..m : parts[k] = made(k)
  BY <1>4
<1>7. \A k \in 1..m : names[k] = GptName(made(k))
  BY <1>6 DEF GptNames
<1> HIDE DEF names
<1>8. child = [k \in 1..m |-> child[k]]
      /\ \A k \in 1..m : child[k] = PartitionNode(GptName(made(k)), made(k))
  BY <1>6, <1>7
<1>9. to_tree(parts, names) = calculate_directory_size(WithRoot \o child)
  BY DEF to_tree
<1> HIDE DEF child
<1>10. \A k \in 1..m : IsNode(child[k]) /\ child[k].parent = 1
                       /\ child[k].name = GptName(made(k))
  BY <1>5, <1>8, PartitionNodeFacts
<1>11. InRoot(child, m)
  BY <1>3, <1>8, <1>10 DEF InRoot, m
<1>12. \A k \in 1..m : Slash \notin ToSet(child[k].name)
  BY <1>5, <1>10, GptNameFacts, NoSlash
<1>13. ASSUME NEW j \in 1..m, NEW k \in 1..m, child[j].name = child[k].name
       PROVE  j = k
  <2>1. made(j).index = made(k).index
    BY <1>5, <1>10, <1>13, GptNameFacts
  <2>2. Nth(S, j) - 1 = Nth(S, k) - 1
    BY <2>1 DEF made
  <2>3. Nth(S, j) \in 1..Len(array) /\ Nth(S, k) \in 1..Len(array)
    BY <1>2, <1>3 DEF m
  <2>4. Nth(S, j) = Nth(S, k)
    BY <1>1, <2>2, <2>3
  <2>5. QED
    BY <1>3, <2>4 DEF m
<1>14. DiskTree(calculate_directory_size(WithRoot \o child), m)
  BY <1>11, <1>12, <1>13, NamedTree
<1>15. QED
  BY <1>9, <1>14 DEF m, S, names, parts

(* An MBR's are its slots with a type or with sectors; the index keeps the *)
(* names apart.                                                            *)
LEMMA MbrTreeFacts ==
  ASSUME NEW slots \in [1..4 -> [type : Nat, lba : Nat, sectors : Nat]]
  PROVE  \E m \in Nat :
           DiskTree(to_tree(MbrPartitions(slots), MbrNames(MbrPartitions(slots))), m)
<1> DEFINE S == { i \in DOMAIN slots : slots[i].type # 0 \/ slots[i].sectors # 0 }
           m == Cardinality(S)
           parts == MbrPartitions(slots)
           names == MbrNames(parts)
           child == [k \in DOMAIN parts |-> PartitionNode(names[k], parts[k])]
<1>1. 4 \in Nat /\ DOMAIN slots = 1..4
      /\ \A i \in 1..4 : slots[i] \in [type : Nat, lba : Nat, sectors : Nat]
  OBVIOUS
<1>2. S \in SUBSET (1..4)
  BY <1>1
<1> HIDE DEF S
<1>3. /\ m \in Nat /\ \A k \in 1..m : Nth(S, k) \in S
      /\ \A j, k \in 1..m : Nth(S, j) = Nth(S, k) => j = k
  BY <1>1, <1>2, NthFacts
<1> DEFINE made(k) == [ index |-> Nth(S, k) - 1, type |-> slots[Nth(S, k)].type,
                        start |-> slots[Nth(S, k)].lba * DiskSector,
                        length |-> slots[Nth(S, k)].sectors * DiskSector ]
<1>4. parts = [k \in 1..m |-> made(k)]
  <2>1. InOrder(S) = [k \in 1..m |-> Nth(S, k)]
    BY DEF InOrder
  <2> DEFINE used == InOrder(S)
  <2>2. DOMAIN used = 1..m /\ \A k \in 1..m : used[k] = Nth(S, k)
    BY <2>1
  <2>3. parts = [ k \in DOMAIN used |->
                    [ index |-> used[k] - 1, type |-> slots[used[k]].type,
                      start |-> slots[used[k]].lba * DiskSector,
                      length |-> slots[used[k]].sectors * DiskSector ] ]
    BY DEF MbrPartitions, S
  <2> HIDE DEF used
  <2>4. QED
    BY <2>2, <2>3
<1>5. ASSUME NEW k \in 1..m
      PROVE  made(k).index \in Nat /\ made(k).type \in Nat /\ made(k).length \in Nat
             /\ Nth(S, k) \in 1..4
  <2>1. Nth(S, k) \in 1..4
    BY <1>2, <1>3
  <2>2. slots[Nth(S, k)].type \in Nat /\ slots[Nth(S, k)].sectors \in Nat
    BY <1>1, <2>1
  <2>3. \A a, b \in Nat : a * b \in Nat
    OBVIOUS
  <2>4. slots[Nth(S, k)].sectors * DiskSector \in Nat
    BY <2>2, <2>3, DiskAssumption
  <2>5. QED
    BY <2>1, <2>2, <2>4
<1> HIDE DEF made, m, parts
<1>6. DOMAIN parts = 1..m /\ \A k \in 1..m : parts[k] = made(k)
  BY <1>4
<1>7. \A k \in 1..m : names[k] = MbrName(made(k))
  BY <1>6 DEF MbrNames
<1> HIDE DEF names
<1>8. child = [k \in 1..m |-> child[k]]
      /\ \A k \in 1..m : child[k] = PartitionNode(MbrName(made(k)), made(k))
  BY <1>6, <1>7
<1>9. to_tree(parts, names) = calculate_directory_size(WithRoot \o child)
  BY DEF to_tree
<1> HIDE DEF child
<1>10. \A k \in 1..m : IsNode(child[k]) /\ child[k].parent = 1
                       /\ child[k].name = MbrName(made(k))
  BY <1>5, <1>8, PartitionNodeFacts, SMTT(20)
<1>11. InRoot(child, m)
  BY <1>3, <1>8, <1>10 DEF InRoot, m
<1>12. ASSUME NEW k \in 1..m
       PROVE  MbrName(made(k)) \in Seq(NameParts) /\ MbrName(made(k))[3] = made(k).index
  <2>1. \A a, b, c, d, e \in NameParts :
          << a, b, c, d, e >> \in Seq(NameParts) /\ << a, b, c, d, e >>[3] = c
    OBVIOUS
  <2>2. PartitionName \in NameParts /\ Dash \in NameParts /\ made(k).index \in NameParts
        /\ made(k).type \in NameParts
    BY <1>5 DEF NameParts
  <2>3. QED
    BY <2>1, <2>2 DEF MbrName
<1>13. \A k \in 1..m : Slash \notin ToSet(child[k].name)
  BY <1>10, <1>12, NoSlash
<1>14. ASSUME NEW j \in 1..m, NEW k \in 1..m, child[j].name = child[k].name
       PROVE  j = k
  <2>1. made(j).index = made(k).index
    BY <1>10, <1>12, <1>14
  <2>2. Nth(S, j) - 1 = Nth(S, k) - 1
    BY <2>1 DEF made
  <2>3. Nth(S, j) = Nth(S, k)
    BY <1>5, <2>2
  <2>4. QED
    BY <1>3, <2>3 DEF m
<1>15. DiskTree(calculate_directory_size(WithRoot \o child), m)
  BY <1>11, <1>13, <1>14, NamedTree
<1>16. QED
  BY <1>3, <1>9, <1>15 DEF names, parts, m

LEMMA WholeTreeFacts ==
  ASSUME NEW size \in Nat
  PROVE  DiskTree(calculate_directory_size(WithRoot \o
           << PartitionNode(<<"image">>, [length |-> size, start |-> 0]) >>), 1)
<1> DEFINE p == [length |-> size, start |-> 0]
           x == PartitionNode(<<"image">>, p)
           child == << x >>
<1>1. IsNode(x) /\ x.parent = 1 /\ x.name = <<"image">>
  <2>1. p.length \in Nat
    OBVIOUS
  <2> HIDE DEF p
  <2>2. QED
    BY <2>1, PartitionNodeFacts
<1> HIDE DEF x
<1>2. InRoot(child, 1) /\ child[1] = x
  BY <1>1, OneChild
<1>3. Slash \notin ToSet(<<"image">>)
  <2> DEFINE s == <<"image">>
  <2>1. DOMAIN s = {1} /\ s[1] = "image"
    OBVIOUS
  <2> HIDE DEF s
  <2>2. Slash \notin ToSet(s)
    BY <2>1, DiskAssumption DEF ToSet
  <2>3. QED
    BY <2>2 DEF s
<1> HIDE DEF child
<1>4. /\ \A k \in 1..1 : Slash \notin ToSet(child[k].name)
      /\ \A j, k \in 1..1 : child[j].name = child[k].name => j = k
  BY <1>1, <1>2, <1>3
<1>5. DiskTree(calculate_directory_size(WithRoot \o child), 1)
  BY <1>2, <1>4, NamedTree
<1>6. QED
  BY <1>5 DEF child, x, p

(* Where a disk's readers are, and the tree they have made.                *)
UsedEntries == Cardinality({ i \in DOMAIN image.gpt.array : image.gpt.array[i].used })
DiskInv ==
  image.kind = "disk" =>
    /\ IsDisk(image)
    /\ pc \in {"gpt", "mbr", "done"}
    /\ pc = "done" <=> result # "none"
    /\ pc = "gpt" => image.via # "mbr"
    /\ pc = "mbr" => image.via = "mbr" \/ ~HasGpt
    /\ result = "Ok" =>
         \E m \in Nat :
             /\ DiskTree(nodes, m)
             /\ HasGpt /\ image.via # "mbr" => m = UsedEntries

LEMMA DiskInit ==
  ASSUME Init
  PROVE  DiskInv
<1> SUFFICES ASSUME image.kind = "disk" PROVE DiskInv
  BY DEF DiskInv
<1>1. IsDisk(image) /\ result = "none"
  BY StartsWithImage DEF IsImage
<1>2. pc = StartPc["disk"]
  BY DEF Init, Begin
<1>3. pc = IF image.via = "mbr" THEN "mbr" ELSE "gpt"
  BY <1>2 DEF StartPc
<1>4. QED
  BY <1>1, <1>3 DEF DiskInv

LEMMA DiskSteps ==
  ASSUME DiskInv, [Next]_vars
  PROVE  DiskInv'
<1>1. image' = image
  BY OwnSteps
<1>2. CASE image.kind # "disk"
  BY <1>1, <1>2 DEF DiskInv
<1> SUFFICES ASSUME image.kind = "disk" PROVE DiskInv'
  BY <1>2
<1>3. /\ IsDisk(image)
      /\ pc \in {"gpt", "mbr", "done"}
      /\ pc = "done" <=> result # "none"
      /\ pc = "gpt" => image.via # "mbr"
      /\ pc = "mbr" => image.via = "mbr" \/ ~HasGpt
  BY DEF DiskInv
<1>4. IsDisk(image)' /\ (HasGpt' <=> HasGpt) /\ UsedEntries' = UsedEntries
  BY <1>1, <1>3 DEF IsDisk, HasGpt, UsedEntries
<1>5. CASE UNCHANGED vars
  BY <1>1, <1>4, <1>5 DEF DiskInv, vars, DiskTree, Parsed, Totalled
<1>6. CASE GptTree
  <2>1. /\ pc = "gpt" /\ HasGpt /\ image.gpt.array # None /\ pc' = "done" /\ result' = "Ok"
        /\ nodes' = to_tree(GptPartitions(image.gpt.array),
                            GptNames(GptPartitions(image.gpt.array)))
    BY <1>6 DEF GptTree, GptIsUsable, At, Answer, Stop
  <2>2. image.gpt.array \in Seq([ used : BOOLEAN, first : Nat, last : Nat,
                                  name : Seq(Nat \cup {Slash}) ])
    BY <1>3, <2>1 DEF IsDisk, HasGpt
  <2>3. DiskTree(nodes', UsedEntries)
    BY <2>1, <2>2, GptTreeFacts DEF UsedEntries
  <2>5. DiskTree(nodes, UsedEntries)'
    BY <1>4, <2>3 DEF DiskTree, Parsed, Totalled
  <2>6. UsedEntries \in Nat
    BY <2>3 DEF DiskTree
  <2>7. QED
    BY <1>1, <1>3, <1>4, <2>1, <2>5, <2>6 DEF DiskInv
<1>7. CASE NoGpt
  BY <1>1, <1>3, <1>4, <1>7 DEF DiskInv, NoGpt, At, Goto
<1>8. CASE GptError \/ MbrError
  BY <1>1, <1>3, <1>4, <1>8 DEF DiskInv, GptError, MbrError, Refuse, At, Stop
<1>9. CASE MbrTree
  <2>1. /\ pc = "mbr" /\ HasMbr /\ pc' = "done" /\ result' = "Ok"
        /\ nodes' = to_tree(MbrPartitions(image.mbr.slots),
                            MbrNames(MbrPartitions(image.mbr.slots)))
    BY <1>9 DEF MbrTree, At, Answer, Stop
  <2>2. image.mbr.slots \in [1..4 -> [type : Nat, lba : Nat, sectors : Nat]]
    BY <1>3, <2>1 DEF IsDisk, HasMbr
  <2>3. PICK m \in Nat : DiskTree(nodes', m)
    BY <2>1, <2>2, MbrTreeFacts
  <2>4. \E n \in Nat : DiskTree(nodes, n)'
    BY <2>3 DEF DiskTree, Parsed, Totalled
  <2>5. QED
    BY <1>1, <1>3, <1>4, <2>1, <2>4 DEF DiskInv
<1>10. CASE WholeImage
  <2>1. /\ pc = "mbr" /\ pc' = "done" /\ result' = "Ok" /\ image.via = "raw"
        /\ nodes' = calculate_directory_size(WithRoot \o
             << PartitionNode(<<"image">>, [length |-> image.size, start |-> 0]) >>)
    BY <1>10 DEF WholeImage, At, Answer, Stop
  <2>2. DiskTree(nodes', 1)
    BY <1>3, <2>1, WholeTreeFacts DEF IsDisk
  <2>3. \E n \in Nat : DiskTree(nodes, n)'
    BY <2>2 DEF DiskTree, Parsed, Totalled
  <2>4. QED
    BY <1>1, <1>3, <1>4, <2>1, <2>3 DEF DiskInv
<1>11. QED
  BY <1>5, <1>6, <1>7, <1>8, <1>9, <1>10, OwnSteps DEF DiskNext

(* Each partition of a disk is found by the name it is given, whatever the *)
(* disk calls it, and a disk with a usable GPT shows the GPT's.            *)
THEOREM PartitionsAreFound == Spec => []PartitionsResolve
<1>1. DiskInv => PartitionsResolve
  <2> SUFFICES ASSUME DiskInv, image.kind = "disk", result = "Ok"
               PROVE  PartitionsResolve
    BY DEF PartitionsResolve, Finished
  <2>1. PICK m \in Nat :
                 /\ DiskTree(nodes, m)
                 /\ HasGpt /\ image.via # "mbr" => m = UsedEntries
    BY DEF DiskInv
  <2>2. Len(nodes) = m + 1 /\ Len(nodes) \in Nat
    BY <2>1, TreeFacts DEF DiskTree
  <2>3. m \in Nat
    BY <2>1
  <2>4. QED
    BY <2>1, <2>2, <2>3 DEF PartitionsResolve, DiskTree, UsedEntries
<1>2. Init => DiskInv
  BY DiskInit
<1>3. DiskInv /\ [Next]_vars => DiskInv'
  BY DiskSteps
<1>4. QED
  BY <1>1, <1>2, <1>3, PTL DEF Spec

-----------------------------------------------------------------------------
(* Trees that grow out of readings (Lemmas): frames as the readers push    *)
(* them, paths as the nodes have them.                                     *)

(* The first entry becomes a directory, and what is in it is next.         *)
LEMMA BuiltDirectory ==
  ASSUME NEW R, IsReading(R), NEW ns, NEW st, NEW src, NEW level,
         Built(R, ns, st, src, level), Len(st) > R.off, Last(st).entries # <<>>,
         Head(Last(st).entries) \in R.keep,
         NEW e, e = R.key[Head(Last(st).entries)],
         NEW y, IsMadeFor(R, y, e, Last(st).node), e \in R.fine, R.dir[e],
         Descends(R, e) => Len(st) - R.off < R.max,
         NEW es, es \in Seq(R.entries),
         \A i \in 1..Len(es) : es[i] \in R.keep => R.key[es[i]] \in R.in[e],
         \A d \in R.in[e] : \E i \in 1..Len(es) : R.key[es[i]] = d
  PROVE  \E s, l : /\ Built(R, Append(ns, y), Append(Drawn(st), Frame(Len(ns) + 1, es)), s, l)
                   /\ IsEnlarged(ns, src, level, Append(ns, y), s, l, e, Last(st).node)
<1> DEFINE p == Last(st).node
           t == Append(ns, y)
           m == Len(ns)
           n == Len(st)
           f == Frame(m + 1, es)
           u == Drawn(st)
           v == Append(u, f)
           F == FramesOver(R.entries)
<1>1. /\ st \in Seq(F) /\ R.off \in Nat /\ st # <<>> /\ n \in Nat
  BY EmptySeq, LenProperties DEF Built, FramesOpen, IsReading
<1>0. n \in (R.off + 1)..n /\ n + 1 \in (R.off + 1)..(n + 1)
  BY <1>1
<1>2. /\ Last(st) = st[n] /\ st[n].entries[1] = Head(Last(st).entries)
      /\ Len(st[n].entries) \in Nat \ {0}
      /\ u \in Seq(F) /\ Len(u) = n
  BY <1>1, DrawnFacts
<1>3. p \in 1..m /\ ns[p].is_directory /\ e \in R.in[src[p]]
      /\ level[p] + R.off + 1 = n
  <2>1. 1 \in 1..Len(st[n].entries)
    <3>1. \A i \in Nat \ {0} : 1 \in 1..i
      OBVIOUS
    <3>2. QED
      BY <1>2, <3>1
  <2>2. QED
    BY <1>0, <1>2, <2>1 DEF Built, FramesOpen
<1>4. NodesBuilt(R, ns, src, level)
  BY DEF Built
<1>5. m \in Nat \ {0} /\ level[p] \in Nat
  BY <1>3, <1>4, TreeFacts DEF NodesBuilt
<1>6. IsMadeFor(R, y, e, p)
  BY DEF p
<1>7. Descends(R, e) => level[p] + 1 < R.max
  BY <1>1, <1>3, <1>5
<1>8. f \in F /\ f.node = m + 1 /\ f.entries = es
  BY <1>5 DEF FramesOver, Frame
<1> HIDE DEF p, f, u, F, n
<1>9. /\ v \in Seq(F) /\ Len(v) = n + 1 /\ v[n + 1] = f
      /\ \A j \in 1..n : v[j] = u[j]
  <2>1. u \in Seq(F) /\ f \in F
    BY <1>2, <1>8
  <2>2. /\ v \in Seq(F) /\ Len(v) = Len(u) + 1 /\ v[Len(u) + 1] = f
        /\ \A j \in 1..Len(u) : v[j] = u[j]
    BY <2>1, AppendProperties
  <2>3. QED
    BY <1>2, <2>2
<1>10. PICK s, l : NodesBuilt(R, t, s, l) /\ IsEnlarged(ns, src, level, t, s, l, e, p)
  BY <1>3, <1>4, <1>6, <1>7, BuiltNode
<1>11. t[m + 1] = y
  BY <1>3, <1>4, <1>6, <1>7, BuiltNode
<1> HIDE DEF t, v
<1>12. /\ FramesOpen(R, t, u, s, l)
       /\ \A k \in 1..m : \A d \in R.in[s[k]] :
            HasChild(t, s, k, d) \/ Waits(R, u, k, d) \/ IsLost(R, k, d, l)
  BY <1>10, BuiltTaken DEF p, u, m
<1>13. Len(t) = m + 1 /\ s[m + 1] = e /\ l[m + 1] = level[p] + 1
  BY <1>10 DEF IsEnlarged, m
<1>14. \A j \in (R.off + 1)..(n + 1) : j = n + 1 \/ j \in (R.off + 1)..n
  BY <1>1
<1>15. \A j \in (R.off + 1)..n : v[j] = u[j]
  BY <1>1, <1>9
<1>16. ASSUME NEW j \in (R.off + 1)..(n + 1)
       PROVE  /\ v[j].node \in 1..Len(t) /\ t[v[j].node].is_directory
              /\ l[v[j].node] + R.off + 1 = j
              /\ \A i \in 1..Len(v[j].entries) :
                   v[j].entries[i] \in R.keep
                     => R.key[v[j].entries[i]] \in R.in[s[v[j].node]]
  <2>1. CASE j = n + 1
    <3>1. v[j] = f
      BY <1>9, <2>1
    <3>2. y.is_directory
      BY DEF IsMadeFor
    <3>3. l[m + 1] + R.off + 1 = n + 1
      BY <1>1, <1>3, <1>5, <1>13
    <3> HIDE DEF m
    <3>4. m + 1 \in 1..(m + 1)
      BY <1>5
    <3>5. QED
      BY <1>8, <1>11, <1>13, <2>1, <3>1, <3>2, <3>3, <3>4
  <2>2. CASE j \in (R.off + 1)..n
    <3>1. v[j] = u[j]
      BY <1>15, <2>2
    <3>2. QED
      BY <1>2, <1>12, <2>2, <3>1 DEF FramesOpen
  <2>3. QED
    BY <1>14, <2>1, <2>2
<1>17. FramesOpen(R, t, v, s, l)
  BY <1>9, <1>16 DEF FramesOpen, F
<1>18. \A k, d : Waits(R, u, k, d) => Waits(R, v, k, d)
  <2> SUFFICES ASSUME NEW k, NEW d, Waits(R, u, k, d) PROVE Waits(R, v, k, d)
    OBVIOUS
  <2>1. PICK j \in (R.off + 1)..n : u[j].node = k
          /\ \E i \in 1..Len(u[j].entries) : R.key[u[j].entries[i]] = d
    BY <1>2 DEF Waits
  <2>2. v[j] = u[j] /\ j \in (R.off + 1)..Len(v)
    BY <1>1, <1>9, <1>15
  <2>3. QED
    BY <2>1, <2>2 DEF Waits
<1>19. ASSUME NEW k \in 1..(m + 1), NEW d \in R.in[s[k]]
       PROVE  HasChild(t, s, k, d) \/ Waits(R, v, k, d) \/ IsLost(R, k, d, l)
  <2>1. CASE k = m + 1
    <3>1. PICK i \in 1..Len(es) : R.key[es[i]] = d
      BY <1>13, <2>1
    <3>2. n + 1 \in (R.off + 1)..Len(v)
      BY <1>0, <1>9
    <3>3. QED
      BY <1>8, <1>9, <2>1, <3>1, <3>2 DEF Waits
  <2>2. CASE k \in 1..m
    BY <1>12, <1>18, <2>2
  <2>3. QED
    BY <1>5, <2>1, <2>2
<1>20. Built(R, t, v, s, l)
  BY <1>10, <1>13, <1>17, <1>19 DEF Built, NothingMissing
<1>21. QED
  BY <1>10, <1>20 DEF t, v, f, m, u, p

(* The tree begins with its root; without further frames `es` is in it.    *)
LEMMA BuiltRoot ==
  ASSUME NEW R, IsReading(R), NEW ns, Parsed(ns), Len(ns) = 1, ns[1].is_directory,
         R.root \in R.fine, Descends(R, R.root) => R.max > 0,
         NEW st, st \in Seq(FramesOver(R.entries)), Len(st) = R.off + 1,
         NEW es, st[R.off + 1] = Frame(1, es),
         \A i \in 1..Len(es) : es[i] \in R.keep => R.key[es[i]] \in R.in[R.root],
         \A d \in R.in[R.root] : \E i \in 1..Len(es) : R.key[es[i]] = d
  PROVE  \E s, l : Built(R, ns, st, s, l)
<1> DEFINE s == [k \in 1..1 |-> R.root]
           l == [k \in 1..1 |-> 0]
<1>1. /\ R.root \in R.sources /\ R.max \in Nat /\ R.off \in Nat
  BY DEF IsReading
<1>2. 1 \in 1..1 /\ (\A k \in 1..1 : k = 1) /\ \A k \in 2..1 : FALSE
  OBVIOUS
<1>3. /\ s \in [1..1 -> R.sources] /\ s[1] = R.root /\ l \in [1..1 -> Nat] /\ l[1] = 0
  BY <1>1, <1>2
<1> HIDE DEF s, l
<1>4. NodesBuilt(R, ns, s, l)
  BY <1>1, <1>2, <1>3 DEF NodesBuilt
<1>5. st[R.off + 1].node = 1 /\ st[R.off + 1].entries = es
  BY DEF Frame
<1>6. \A j \in (R.off + 1)..Len(st) : j = R.off + 1
  BY <1>1
<1>7. R.off + 1 \in (R.off + 1)..Len(st) /\ l[1] + R.off + 1 = R.off + 1
  BY <1>1, <1>3
<1>8. FramesOpen(R, ns, st, s, l)
  BY <1>2, <1>3, <1>5, <1>6, <1>7 DEF FramesOpen
<1>9. NothingMissing(R, ns, st, s, l)
  <2>1. ASSUME NEW d \in R.in[R.root] PROVE Waits(R, st, 1, d)
    BY <1>5, <1>7 DEF Waits
  <2>2. QED
    BY <1>2, <1>3, <2>1 DEF NothingMissing
<1>10. QED
  BY <1>4, <1>8, <1>9 DEF Built
(* What is below an entry, as one level after the other.                   *)
HasLevels(root, in, named, depth, S, X) ==
  \E at : IsBelow(at, root, in, named, depth, S, X)
           /\ NamesBelow(root, in, named, depth) = AllLevels(at, depth)
LEMMA LevelsBelow ==
  ASSUME NEW S, NEW root, root \in S, NEW in, in \in [S -> SUBSET S],
         NEW X, NEW named, NamedIn(X, S, in, named), NEW depth, depth \in Nat
  PROVE  HasLevels(root, in, named, depth, S, X)
<1> DEFINE Y == SUBSET (Seq(X) \X S)
           first == { << <<>>, root >> }
           next(T) == UNION { { << Append(x[1], named[e]), e >> : e \in in[x[2]] } : x \in T }
           step == [i \in Nat |-> [T \in Y |-> next(T)]]
           Rule(f) == [d \in 0..depth |-> IF d = 0 THEN first ELSE next(f[d - 1])]
           at == CHOOSE f : f = Rule(f)
<1>1. first \in Y
  <2>1. <<>> \in Seq(X)
    OBVIOUS
  <2>2. << <<>>, root >> \in Seq(X) \X S
    BY <2>1
  <2>3. QED
    BY <2>2
<1>2. ASSUME NEW T \in Y PROVE next(T) \in Y
  <2>1. ASSUME NEW x \in T, NEW e \in in[x[2]]
        PROVE  << Append(x[1], named[e]), e >> \in Seq(X) \X S
    <3>1. x[1] \in Seq(X) /\ x[2] \in S
      OBVIOUS
    <3>2. named[e] \in X /\ e \in S
      BY <3>1 DEF NamedIn
    <3>3. Append(x[1], named[e]) \in Seq(X)
      BY <3>1, <3>2, AppendProperties
    <3>4. QED
      BY <3>2, <3>3
  <2>2. QED
    BY <2>1
<1> HIDE DEF first, next, Y
<1>3. step \in [Nat -> [Y -> Y]]
  BY <1>2
<1>4. PICK f : Recursion(f, depth, Y, first, step)
  <2> HIDE DEF step
  <2>1. QED
    BY <1>1, <1>3, RecursionExists
<1>5. /\ f \in [0..depth -> Y] /\ f[0] = first
      /\ \A d \in 1..depth : f[d] = next(f[d - 1])
  <2>1. f \in [0..depth -> Y] /\ f[0] = first
        /\ \A d \in 1..depth : f[d] = step[d][f[d - 1]]
    BY <1>4 DEF Recursion
  <2>2. \A d \in 1..depth : d \in Nat /\ d - 1 \in 0..depth
    OBVIOUS
  <2>3. QED
    BY <2>1, <2>2
<1>6. \A d \in 0..depth : d = 0 \/ d \in 1..depth
  OBVIOUS
<1>7. f = Rule(f)
  <2>1. \A d \in 0..depth : f[d] = IF d = 0 THEN first ELSE next(f[d - 1])
    BY <1>5, <1>6
  <2>2. QED
    BY <1>5, <2>1
<1>8. at = Rule(at)
  <2> HIDE DEF Rule
  <2>1. QED
    BY <1>7
<1>9. NamesBelow(root, in, named, depth) = UNION { at[d] : d \in 0..depth }
  BY DEF NamesBelow, first, next
<1> HIDE DEF at
<1>10. at = [d \in 0..depth |-> at[d]] /\ at[0] = first
       /\ \A d \in 1..depth : at[d] = next(at[d - 1])
  <2>1. 0 \in 0..depth /\ \A d \in 1..depth : d \in 0..depth /\ d # 0
    OBVIOUS
  <2>2. \A d \in 0..depth : at[d] = IF d = 0 THEN first ELSE next(at[d - 1])
    BY <1>8
  <2>3. at = [d \in 0..depth |-> at[d]]
    BY <1>8
  <2>4. QED
    BY <2>1, <2>2, <2>3
<1>11. \A d \in 0..depth : at[d] \in Y
  <2> DEFINE G == { d \in 0..depth : at[d] \in Y }
  <2>1. 0 \in G
    BY <1>1, <1>10
  <2>2. ASSUME NEW d \in 1..depth, d - 1 \in G PROVE d \in G
    <3>1. d \in 0..depth
      OBVIOUS
    <3>2. QED
      BY <1>2, <1>10, <2>2, <3>1
  <2> HIDE DEF G
  <2>3. 0..depth \subseteq G
    BY <2>1, <2>2, UpTo
  <2>4. QED
    BY <2>3 DEF G
<1>12. at \in [0..depth -> Y]
  BY <1>10, <1>11
<1>13. IsBelow(at, root, in, named, depth, S, X)
  BY <1>10, <1>12 DEF IsBelow, first, next, Y
<1>14. QED
  BY <1>9, <1>13 DEF AllLevels, HasLevels
(* The path to a node.                                                     *)
LEMMA PathFacts ==
  ASSUME Parsed(nodes), \A k \in 2..Len(nodes) : nodes[k].parent \in 1..(k - 1),
         Len(nodes) >= 1
  PROVE  /\ PathOf(1) = <<>>
         /\ \A k \in 2..Len(nodes) :
              PathOf(k) = Append(PathOf(nodes[k].parent), nodes[k].name)
<1> DEFINE n == Len(nodes)
           X == { nodes[k].name : k \in 2..n }
           N == [k \in 2..n |-> nodes[k].name]
           Rule(f) == [i \in 1..n |-> IF i = 1 THEN <<>>
                                      ELSE Append(f[nodes[i].parent], nodes[i].name)]
           path == CHOOSE f : f = Rule(f)
<1>1. n \in Nat /\ n >= 1
  BY TreeFacts
<1>2. \A k \in 2..n : N[k] = nodes[k].name /\ N[k] \in X
  OBVIOUS
<1>3. PICK P : IsPath(P, nodes, N) /\ P \in [1..n -> Seq(X)]
  <2> HIDE DEF X, N
  <2>1. QED
    BY <1>2, PathsExist DEF n
<1>4. P[1] = <<>> /\ \A k \in 2..n : P[k] = Append(P[nodes[k].parent], nodes[k].name)
  BY <1>2, <1>3 DEF IsPath
<1> HIDE DEF X, N, n
<1>5. 1 \in 1..n /\ \A i \in 1..n : i = 1 \/ i \in 2..n
  BY <1>1
<1>6. P = Rule(P)
  <2>1. \A i \in 1..n : P[i] = IF i = 1 THEN <<>>
                               ELSE Append(P[nodes[i].parent], nodes[i].name)
    BY <1>4, <1>5
  <2>2. QED
    BY <1>3, <2>1
<1>7. path = Rule(path)
  <2> HIDE DEF Rule
  <2>1. QED
    BY <1>6
<1>8. \A k : PathOf(k) = path[k]
  BY DEF PathOf, n
<1> HIDE DEF path
<1>9. \A i \in 1..n : path[i] = IF i = 1 THEN <<>>
                                ELSE Append(path[nodes[i].parent], nodes[i].name)
  BY <1>7
<1>10. \A i \in 2..n : i \in 1..n /\ i # 1
  BY <1>1
<1>11. QED
  BY <1>5, <1>8, <1>9, <1>10 DEF n
(* What is chosen of a sequence.                                           *)
LEMMA ChosenSet ==
  ASSUME NEW X, NEW s \in Seq(X), NEW S \in SUBSET (DOMAIN s)
  PROVE  /\ Chosen(s, S) \in Seq(X) /\ ToSet(Chosen(s, S)) = { s[i] : i \in S }
<1> DEFINE c == Cardinality(S)
           t == Chosen(s, S)
<1>1. /\ t \in Seq(X) /\ Len(t) = c
      /\ \A k \in 1..c : Nth(S, k) \in S /\ t[k] = s[Nth(S, k)]
      /\ \A i \in S : \E k \in 1..c : Nth(S, k) = i
  BY ChosenFacts
<1> HIDE DEF t, c
<1>2. ToSet(t) = { t[i] : i \in 1..c }
  BY <1>1, ElementsOf
<1>3. QED
  BY <1>1, <1>2 DEF t

-----------------------------------------------------------------------------
(* The ISO 9660 reader.  What is in a directory that is read.              *)
LEMMA DiscFacts ==
  ASSUME IsImage(image), image.kind = "disc"
  PROVE  /\ DOMAIN image.sectors \subseteq Nat /\ LastSector \in Nat
         /\ \A s \in DOMAIN image.sectors :
              IsIsoSector(image.sectors[s]) \/ IsUdfSector(image.sectors[s])
         /\ \A s : RecordsIn(s) \in Seq(Record)
         /\ \A s : Holds(s, "cd001") => /\ s \in DOMAIN image.sectors
                                        /\ image.sectors[s].root \in Record
                                        /\ image.sectors[s].type
                                             \in {"primary", "joliet", "other", "end"}
<1>1. \A s \in DOMAIN image.sectors :
        IsIsoSector(image.sectors[s]) \/ IsUdfSector(image.sectors[s])
  BY DEF IsImage
<1>2. \A s : Holds(s, "records") => image.sectors[s].records \in Seq(Record)
  BY <1>1 DEF Holds, IsIsoSector, IsUdfSector
<1>3. <<>> \in Seq(Record)
  OBVIOUS
<1>4. \A s : RecordsIn(s) \in Seq(Record)
  BY <1>2, <1>3 DEF RecordsIn
<1>5. \A s : Holds(s, "cd001") => /\ s \in DOMAIN image.sectors
                                  /\ image.sectors[s].root \in Record
                                  /\ image.sectors[s].type
                                       \in {"primary", "joliet", "other", "end"}
  BY <1>1 DEF Holds, IsIsoSector, IsUdfSector
<1>6. IsFiniteSet(DOMAIN image.sectors) /\ DOMAIN image.sectors = 0 .. (LastSector - 1)
  BY DEF IsImage, LastSector
<1>7. LastSector \in Nat
  BY <1>6, FS_CardinalityType DEF LastSector
<1>8. DOMAIN image.sectors \subseteq Nat
  BY <1>6, <1>7
<1>9. QED
  BY <1>1, <1>4, <1>5, <1>7, <1>8

LEMMA ListingFacts ==
  ASSUME IsImage(image), image.kind = "disc", NEW r, r \in Record
  PROVE  /\ Listing(r) \in Seq(Record)
         /\ r.dir => /\ ToSet(Listing(r)) \subseteq { e \in InDirectory(r) : e.sound }
                     /\ AllFit(InDirectory(r))
                          => ToSet(Listing(r)) = { e \in InDirectory(r) : e.sound }
<1> DEFINE n == r.length
           seqs == [i \in 1..n |-> RecordsIn(r.extent + i - 1)]
           records == AllRecords(r)
           broken == { i \in DOMAIN records : ~records[i].fits }
           b == CutOff(records, broken)
           S == { i \in DOMAIN b : b[i].sound }
           D == UNION { ToSet(RecordsIn(r.extent + i)) : i \in 0..(n - 1) }
<1>1. n \in Nat /\ r.extent \in Nat
  BY DEF Record
<1>2. seqs \in Seq(Seq(Record)) /\ Len(seqs) = n
  <2>1. \A i \in 1..n : RecordsIn(r.extent + i - 1) \in Seq(Record)
    BY DiscFacts
  <2>2. seqs \in [1..n -> Seq(Record)]
    BY <2>1
  <2> HIDE DEF seqs, n
  <2>3. QED
    BY <1>1, <2>2, SeqDef, LenProperties
<1>3. records = FlattenSeq(seqs)
  BY DEF AllRecords
<1>4. \A i \in 1..n : seqs[i] = RecordsIn(r.extent + i - 1)
  OBVIOUS
<1> HIDE DEF seqs, records
<1>5. /\ records \in Seq(Record)
      /\ ToSet(records) = UNION { ToSet(seqs[i]) : i \in 1..n }
  BY <1>2, <1>3, FlattenedSet
<1>6. ToSet(records) = D
  <2>1. ASSUME NEW i \in 1..n PROVE i - 1 \in 0..(n - 1) /\ seqs[i] = RecordsIn(r.extent + (i - 1))
    <3>1. r.extent + i - 1 = r.extent + (i - 1)
      BY <1>1
    <3>2. QED
      BY <1>1, <1>4, <3>1
  <2>2. ASSUME NEW i \in 0..(n - 1) PROVE i + 1 \in 1..n /\ seqs[i + 1] = RecordsIn(r.extent + i)
    <3>1. r.extent + (i + 1) - 1 = r.extent + i /\ i + 1 \in 1..n
      BY <1>1
    <3>2. QED
      BY <1>4, <3>1
  <2>3. QED
    BY <1>5, <2>1, <2>2
<1>7. /\ b \in Seq(Record) /\ ToSet(b) \subseteq ToSet(records)
      /\ broken = {} => ToSet(b) = ToSet(records)
  <2>1. broken \in SUBSET (DOMAIN records)
    OBVIOUS
  <2> HIDE DEF broken
  <2>2. QED
    BY <1>5, <2>1, CutOffSet
<1>8. Listing(r) = Chosen(b, S)
  BY DEF Listing, Select, CutOff, records
<1> HIDE DEF b
<1>9. Chosen(b, S) \in Seq(Record) /\ ToSet(Chosen(b, S)) = { b[i] : i \in S }
  <2>1. S \in SUBSET (DOMAIN b)
    OBVIOUS
  <2> HIDE DEF S
  <2>2. QED
    BY <1>7, <2>1, ChosenSet
<1>10. ToSet(b) = { b[i] : i \in DOMAIN b }
  BY DEF ToSet
<1>11. { b[i] : i \in S } = { e \in ToSet(b) : e.sound }
  BY <1>10
<1>12. r.dir => InDirectory(r) = D
  BY DEF InDirectory
<1>13. ASSUME AllFit(D) PROVE broken = {}
  <2>1. ToSet(records) = { records[i] : i \in DOMAIN records }
    BY DEF ToSet
  <2>2. QED
    BY <1>6, <1>13, <2>1 DEF AllFit
<1> HIDE DEF S, D, broken, n
<1>14. QED
  BY <1>6, <1>7, <1>8, <1>9, <1>11, <1>12, <1>13

IsoReading ==
  [ entries |-> Record, sources |-> Record, key |-> [r \in Record |-> r],
    keep |-> { r \in Record : NameOf(r) \notin Dots },
    fine |-> { r \in Record : r.dir => InImage(r.extent, r.length) },
    in |-> [r \in Record |-> IF r.dir THEN { e \in ToSet(Listing(r)) : NameOf(e) \notin Dots }
                             ELSE {}],
    name |-> [r \in Record |-> NameOf(r)], dir |-> [r \in Record |-> r.dir],
    location |-> [r \in Record |-> IF r.dir THEN None ELSE r.extent],
    root |-> found.root, max |-> CallDepth, lossy |-> FALSE, off |-> 0 ]
LEMMA IsoSame ==
  ASSUME image' = image, found' = found
  PROVE  IsoReading' = IsoReading
<1>1. \A r : NameOf(r)' = NameOf(r)
  BY DEF NameOf, PlainName
<1>2. \A r : Listing(r)' = Listing(r)
  <2>1. \A s : RecordsIn(s)' = RecordsIn(s)
    BY DEF RecordsIn, Holds
  <2>2. \A r : AllRecords(r)' = AllRecords(r)
    BY <2>1 DEF AllRecords
  <2>3. QED
    BY <2>2 DEF Listing, Select
<1>3. \A s, n : InImage(s, n)' = InImage(s, n)
  BY DEF InImage
<1>4. QED
  BY <1>1, <1>2, <1>3 DEF IsoReading

(* The descriptors read so far.                                            *)
ScanFound ==
  [sector : Nat, primary : Record \cup {None}, joliet : Record \cup {None}]
OfType(type, n) == { s \in VdStart..(n - 1) : image.sectors[s].type = type }
IsLatest(v, type, n) ==
  IF OfType(type, n) = {} THEN v = None
  ELSE \E s \in OfType(type, n) :
         v = image.sectors[s].root /\ \A t \in OfType(type, n) : t <= s
Scanned ==
  /\ found \in ScanFound /\ found.sector >= VdStart
  /\ \A t \in VdStart..(found.sector - 1) :
       Holds(t, "cd001") /\ image.sectors[t].type # "end"
  /\ IsLatest(found.primary, "primary", found.sector)
  /\ IsLatest(found.joliet, "joliet", found.sector)
LEMMA LatestGrows ==
  ASSUME NEW n, n \in Nat, n >= VdStart, NEW type, NEW v, IsLatest(v, type, n),
         NEW w, w = (IF image.sectors[n].type = type THEN image.sectors[n].root ELSE v)
  PROVE  IsLatest(w, type, n + 1)
<1>1. VdStart \in Nat
  BY DiscAssumption
<1>2. \A s : s \in VdStart..((n + 1) - 1) <=> s \in VdStart..(n - 1) \/ s = n
  BY <1>1
<1>3. CASE image.sectors[n].type = type
  <2>1. n \in OfType(type, n + 1) /\ \A t \in OfType(type, n + 1) : t <= n
    BY <1>1, <1>2, <1>3 DEF OfType
  <2>2. QED
    BY <1>3, <2>1 DEF IsLatest
<1>4. CASE image.sectors[n].type # type
  <2>1. OfType(type, n + 1) = OfType(type, n)
    BY <1>2, <1>4 DEF OfType
  <2>2. QED
    BY <1>4, <2>1 DEF IsLatest
<1>5. QED
  BY <1>3, <1>4
LEMMA ScanStep ==
  ASSUME IsImage(image), image.kind = "disc", Scanned, ReadDescriptor
  PROVE  Scanned'
<1> DEFINE n == found.sector
           c == image.sectors[n]
<1>1. /\ image' = image /\ Holds(n, "cd001") /\ c.type # "end"
      /\ found' = CASE c.type = "primary" ->
                         [found EXCEPT !.sector = @ + 1, !.primary = c.root]
                    [] c.type = "joliet" ->
                         [found EXCEPT !.sector = @ + 1, !.joliet = c.root]
                    [] OTHER -> [found EXCEPT !.sector = @ + 1]
  BY DEF ReadDescriptor, IsDescriptor, Vd, Goto
<1>2. c.root \in Record /\ n \in Nat /\ n >= VdStart /\ VdStart \in Nat
  BY <1>1, DiscFacts, DiscAssumption DEF Scanned, ScanFound
<1>3. found \in ScanFound
  BY DEF Scanned
<1> HIDE DEF n, c
<1>4. /\ found' \in ScanFound /\ found'.sector = n + 1
      /\ found'.primary = IF c.type = "primary" THEN c.root ELSE found.primary
      /\ found'.joliet = IF c.type = "joliet" THEN c.root ELSE found.joliet
  <2>0. n + 1 \in Nat /\ found.sector = n
    BY <1>2 DEF n
  <2>1. CASE c.type = "primary"
    <3>1. found' = [found EXCEPT !.sector = @ + 1, !.primary = c.root]
      BY <1>1, <2>1
    <3>2. QED
      BY <1>2, <1>3, <2>0, <2>1, <3>1 DEF ScanFound
  <2>2. CASE c.type = "joliet"
    <3>1. found' = [found EXCEPT !.sector = @ + 1, !.joliet = c.root]
      BY <1>1, <2>2
    <3>2. QED
      BY <1>2, <1>3, <2>0, <2>2, <3>1 DEF ScanFound
  <2>3. CASE c.type # "primary" /\ c.type # "joliet"
    <3>1. found' = [found EXCEPT !.sector = @ + 1]
      BY <1>1, <2>3
    <3>2. QED
      BY <1>2, <1>3, <2>0, <2>3, <3>1 DEF ScanFound
  <2>4. QED
    BY <2>1, <2>2, <2>3
<1>5. /\ IsLatest(found.primary, "primary", n) /\ IsLatest(found.joliet, "joliet", n)
      /\ \A t \in VdStart..(n - 1) : Holds(t, "cd001") /\ image.sectors[t].type # "end"
  BY DEF Scanned, n
<1>6. IsLatest(found'.primary, "primary", n + 1)
  BY <1>2, <1>4, <1>5, LatestGrows DEF c
<1>7. IsLatest(found'.joliet, "joliet", n + 1)
  BY <1>2, <1>4, <1>5, LatestGrows DEF c
<1>8. \A t \in VdStart..((n + 1) - 1) : t \in VdStart..(n - 1) \/ t = n
  BY <1>2
<1>9. \A t \in VdStart..((n + 1) - 1) : Holds(t, "cd001") /\ image.sectors[t].type # "end"
  BY <1>1, <1>5, <1>8 DEF c
<1>10. found'.sector >= VdStart
  BY <1>2, <1>4
<1>11. QED
  BY <1>1, <1>4, <1>6, <1>7, <1>9, <1>10 DEF Scanned, IsLatest, OfType, Holds

(* At the end the last of each kind is known.                              *)
LEMMA ScanEnd ==
  ASSUME IsImage(image), image.kind = "disc", Scanned, ~IsDescriptor
  PROVE  /\ found.primary = Latest("primary") /\ found.joliet = Latest("joliet")
         /\ ChosenRoot(found) = DiscRoot
<1> DEFINE n == found.sector
<1>1. VdStart \in Nat /\ n \in Nat /\ n >= VdStart /\ DOMAIN image.sectors \subseteq Nat
  BY DiscAssumption, DiscFacts DEF Scanned, ScanFound
<1>2. \A t \in VdStart..(n - 1) :
        Holds(t, "cd001") /\ image.sectors[t].type # "end" /\ t \in DOMAIN image.sectors
  BY DEF Scanned, Holds
<1>3. ~(Holds(n, "cd001") /\ image.sectors[n].type # "end")
  BY DEF IsDescriptor, Vd
<1> HIDE DEF n
<1>4. Descriptors = VdStart..(n - 1)
  <2>1. ASSUME NEW s \in Descriptors PROVE s \in VdStart..(n - 1)
    <3>1. /\ s \in Nat /\ s >= VdStart
          /\ \A t \in VdStart..s : Holds(t, "cd001") /\ image.sectors[t].type # "end"
      BY <1>1 DEF Descriptors
    <3>2. ~(n \in VdStart..s)
      BY <1>3, <3>1
    <3>3. QED
      BY <1>1, <3>1, <3>2
  <2>2. ASSUME NEW s \in VdStart..(n - 1) PROVE s \in Descriptors
    <3>1. s \in DOMAIN image.sectors /\ s >= VdStart
      BY <1>1, <1>2
    <3>2. \A t \in VdStart..s : t \in VdStart..(n - 1)
      BY <1>1
    <3>3. \A t \in VdStart..s :
            IF Holds(t, "cd001") THEN image.sectors[t].type # "end" ELSE FALSE
      BY <1>2, <3>2
    <3>4. QED
      BY <3>1, <3>3 DEF Descriptors
  <2>3. QED
    BY <2>1, <2>2
<1>5. ASSUME NEW type, NEW v, IsLatest(v, type, n) PROVE v = Latest(type)
  <2> DEFINE own == { s \in Descriptors : image.sectors[s].type = type }
             h == CHOOSE s \in own : \A t \in own : t <= s
  <2>1. own = OfType(type, n) /\ own \subseteq Nat
    BY <1>1, <1>4 DEF OfType
  <2>2. Latest(type) = IF own = {} THEN None ELSE image.sectors[h].root
    BY DEF Latest
  <2> HIDE DEF own, h
  <2>3. CASE own = {}
    BY <1>5, <2>1, <2>2, <2>3 DEF IsLatest
  <2>4. CASE own # {}
    <3>1. PICK s \in own : v = image.sectors[s].root /\ \A t \in own : t <= s
      BY <1>5, <2>1, <2>4 DEF IsLatest
    <3>2. h \in own /\ \A t \in own : t <= h
      BY <3>1 DEF h
    <3>3. h = s
      BY <2>1, <3>1, <3>2
    <3>4. QED
      BY <2>2, <2>4, <3>1, <3>3
  <2>5. QED
    BY <2>3, <2>4
<1>6. IsLatest(found.primary, "primary", n) /\ IsLatest(found.joliet, "joliet", n)
  BY DEF Scanned, n
<1>7. found.primary = Latest("primary") /\ found.joliet = Latest("joliet")
  BY <1>5, <1>6
<1>8. QED
  BY <1>7 DEF ChosenRoot, VdType, DiscRoot

(* The tree of an ISO 9660 disc grows out of its records.                  *)
LEMMA IsoReadingFacts ==
  ASSUME IsImage(image), image.kind = "disc", found \in IsoFound
  PROVE  /\ IsReading(IsoReading)
         /\ IsoReading.entries = Record /\ IsoReading.sources = Record
         /\ \A r \in Record :
              /\ IsoReading.key[r] = r
              /\ r \in IsoReading.keep <=> NameOf(r) \notin Dots
              /\ r \in IsoReading.fine <=> (r.dir => InImage(r.extent, r.length))
              /\ IsoReading.in[r]
                   = IF r.dir THEN { e \in ToSet(Listing(r)) : NameOf(e) \notin Dots } ELSE {}
              /\ IsoReading.name[r] = NameOf(r) /\ IsoReading.dir[r] = r.dir
              /\ IsoReading.location[r] = IF r.dir THEN None ELSE r.extent
         /\ IsoReading.root = found.root /\ found.root \in Record
         /\ IsoReading.max = CallDepth /\ CallDepth \in Nat \ {0}
         /\ ~IsoReading.lossy /\ IsoReading.off = 0
<1> DEFINE below(r) == IF r.dir THEN { e \in ToSet(Listing(r)) : NameOf(e) \notin Dots } ELSE {}
<1>1. found.root \in Record
  BY DEF IsoFound
<1>2. \A r \in Record : below(r) \in SUBSET Record
  <2>1. \A r \in Record : ToSet(Listing(r)) \subseteq Record
    BY ListingFacts, ElementsOf
  <2>2. QED
    BY <2>1
<1>3. \A r \in Record : \A e \in below(r) : NameOf(e) \notin Dots
  OBVIOUS
<1> HIDE DEF below
<1>4. /\ IsoReading.entries = Record /\ IsoReading.sources = Record
      /\ IsoReading.key = [r \in Record |-> r]
      /\ IsoReading.keep = { r \in Record : NameOf(r) \notin Dots }
      /\ IsoReading.fine = { r \in Record : r.dir => InImage(r.extent, r.length) }
      /\ IsoReading.in = [r \in Record |-> below(r)]
      /\ IsoReading.name = [r \in Record |-> NameOf(r)]
      /\ IsoReading.dir = [r \in Record |-> r.dir]
      /\ IsoReading.location = [r \in Record |-> IF r.dir THEN None ELSE r.extent]
      /\ IsoReading.root = found.root /\ IsoReading.max = CallDepth
      /\ ~IsoReading.lossy /\ IsoReading.off = 0
  BY DEF IsoReading, below
<1>5. CallDepth \in Nat \ {0}
  BY TreeAssumption
<1>6. IsReading(IsoReading)
  <2>1. IsoReading.in \in [Record -> SUBSET Record]
    BY <1>2, <1>4
  <2>2. \A x \in Record : x \notin IsoReading.keep =>
          \A s \in Record : IsoReading.key[x] \notin IsoReading.in[s]
    BY <1>3, <1>4
  <2>3. IsoReading.key \in [Record -> Record]
    BY <1>4
  <2>4. QED
    BY <1>1, <1>4, <1>5, <2>1, <2>2, <2>3 DEF IsReading
<1>7. QED
  BY <1>1, <1>4, <1>5, <1>6 DEF below

IsoTree == \E src, level : Built(IsoReading, nodes, stack, src, level)
LEMMA IsoSteps ==
  ASSUME IsImage(image), image.kind = "disc", found \in IsoFound, IsoTree,
         IsoSkip \/ IsoFile \/ IsoDirectory
  PROVE  IsoTree'
<1> DEFINE R == IsoReading
           x == Entry
<1>0. image' = image /\ found' = found
  BY DEF IsoSkip, IsoFile, IsoDirectory, AtSubdirectory, AtEntry, Goto
<1>1. R' = R
  BY <1>0, IsoSame
<1>2. PICK src, level : Built(R, nodes, stack, src, level)
  BY DEF IsoTree
<1>3. Busy
  BY DEF IsoSkip, IsoFile, IsoDirectory, AtSubdirectory, AtEntry
<1>4. /\ IsReading(R) /\ R.off = 0 /\ R.max = CallDepth /\ CallDepth \in Nat \ {0}
      /\ stack \in Seq(FramesOver(Record))
  BY <1>2, IsoReadingFacts DEF Built, FramesOpen
<1>5. /\ stack # <<>> /\ Last(stack).entries # <<>> /\ Top = Last(stack)
      /\ x = Head(Last(stack).entries) /\ Rest = Drawn(stack)
  BY <1>3 DEF Busy, Top, Entry, Rest, Drawn
<1>6. x \in Record /\ Len(stack) \in Nat \ {0}
  BY <1>4, <1>5, DrawnFacts
<1>7. /\ R.key[x] = x
      /\ x \in R.keep <=> NameOf(x) \notin Dots
      /\ x \in R.fine <=> (x.dir => InImage(x.extent, x.length))
      /\ R.in[x] = IF x.dir THEN { e \in ToSet(Listing(x)) : NameOf(e) \notin Dots } ELSE {}
      /\ R.name[x] = NameOf(x) /\ R.dir[x] = x.dir
      /\ R.location[x] = IF x.dir THEN None ELSE x.extent
      /\ ~R.lossy
  BY <1>6, IsoReadingFacts
<1>8. x.dir \in BOOLEAN /\ x.extent \in Nat /\ x.length \in Nat
  BY <1>6 DEF Record
<1>9. Len(stack) > R.off
  BY <1>4, <1>6
<1>10. SUFFICES \E s, l : Built(R, nodes', stack', s, l)
  BY <1>1 DEF IsoTree
<1> HIDE DEF R, x
<1>11. CASE IsoSkip
  <2>1. NameOf(x) \in Dots /\ stack' = Drawn(stack) /\ nodes' = nodes
    BY <1>5, <1>11 DEF IsoSkip, Skip, x
  <2>2. Built(R, nodes, Drawn(stack), src, level)
    BY <1>2, <1>4, <1>5, <1>7, <1>9, <2>1, BuiltSkip
  <2>3. QED
    BY <2>1, <2>2
<1>12. CASE IsoFile
  <2> DEFINE y == new_file_with_location(NameOf(x), x.length, x.extent, x.length,
                                         Last(stack).node)
  <2>1. /\ NameOf(x) \notin Dots /\ ~x.dir /\ stack' = Drawn(stack)
        /\ nodes' = Append(nodes, y)
    BY <1>5, <1>12 DEF IsoFile, AddFile, x
  <2>2. IsMadeFor(R, y, x, Last(stack).node)
    <3>1. IsMade(y, NameOf(x), FALSE, x.extent, x.length, Last(stack).node)
      BY <1>8, NewNodes
    <3> HIDE DEF y
    <3>2. QED
      BY <1>7, <1>8, <2>1, <3>1, MadeFor
  <2>3. ~Descends(R, x)
    BY <1>7, <2>1 DEF Descends
  <2> HIDE DEF y
  <2>4. QED
    BY <1>2, <1>4, <1>5, <1>7, <1>9, <2>1, <2>2, <2>3, BuiltFile
<1>13. CASE IsoDirectory
  <2> DEFINE y == new_directory(NameOf(x), Last(stack).node)
             es == Listing(x)
  <2>1. /\ NameOf(x) \notin Dots /\ x.dir /\ Len(stack) < CallDepth
        /\ InImage(x.extent, x.length)
        /\ nodes' = Append(nodes, y)
        /\ stack' = Append(Drawn(stack), Frame(Len(nodes) + 1, es))
    BY <1>5, <1>13 DEF IsoDirectory, AtSubdirectory, AddDirectory, x
  <2>2. IsMadeFor(R, y, x, Last(stack).node)
    <3>1. IsMade(y, NameOf(x), TRUE, None, None, Last(stack).node)
      BY 0 \in Nat, NewNodes
    <3> HIDE DEF y
    <3>2. QED
      BY <1>7, <1>8, <2>1, <3>1, MadeFor
  <2>3. es \in Seq(Record) /\ R.entries = Record
    BY <1>6, ListingFacts, IsoReadingFacts DEF R
  <2>4. \A i \in 1..Len(es) : es[i] \in ToSet(es) /\ es[i] \in Record
    BY <2>3, ElementsOf
  <2>5. \A e \in ToSet(es) : \E i \in 1..Len(es) : es[i] = e
    BY <2>3, ElementsOf
  <2>6. \A r \in Record : R.key[r] = r /\ (r \in R.keep <=> NameOf(r) \notin Dots)
    BY IsoReadingFacts DEF R
  <2> HIDE DEF y, es
  <2>7. R.in[x] = { e \in ToSet(es) : NameOf(e) \notin Dots }
    BY <1>7, <2>1 DEF es
  <2>8. \A i \in 1..Len(es) : es[i] \in R.keep => R.key[es[i]] \in R.in[x]
    BY <2>4, <2>6, <2>7
  <2>9. \A d \in R.in[x] : \E i \in 1..Len(es) : R.key[es[i]] = d
    BY <2>4, <2>5, <2>6, <2>7
  <2>10. Descends(R, x) => Len(stack) - R.off < R.max
    BY <1>4, <1>6, <2>1
  <2>11. x \in R.keep /\ x \in R.fine /\ R.dir[x] /\ x = R.key[Head(Last(stack).entries)]
    BY <1>5, <1>7, <2>1
  <2>12. es \in Seq(R.entries)
    BY <2>3
  <2>13. Head(Last(stack).entries) \in R.keep
    BY <1>5, <2>11
  <2>14. \E s, l : Built(R, Append(nodes, y),
                         Append(Drawn(stack), Frame(Len(nodes) + 1, es)), s, l)
    BY <1>2, <1>4, <1>5, <1>9, <2>2, <2>8, <2>9, <2>10, <2>11, <2>12, <2>13, BuiltDirectory
  <2>15. QED
    BY <2>1, <2>14
<1>14. QED
  BY <1>11, <1>12, <1>13

-----------------------------------------------------------------------------
(* The UDF reader.  What its sectors hold.                                 *)
LEMMA SumOfIsNat ==
  ASSUME NEW s, s \in Seq(ExtentAd)
  PROVE  SumOf(s) \in Nat
<1> DEFINE n == Len(s)
           size == [i \in 1..n |-> s[i].length]
           Rule(f) == [i \in 0..n |-> IF i = 0 THEN 0 ELSE f[i - 1] + s[i].length]
           sum == CHOOSE f : f = Rule(f)
<1>1. n \in Nat /\ \A i \in 1..n : s[i] \in ExtentAd
  BY LenProperties, ElementOfSeq
<1>2. \A i \in 1..n : s[i].length \in Nat /\ size[i] = s[i].length
  BY <1>1 DEF ExtentAd
<1>3. SumOf(s) = sum[n]
  BY DEF SumOf
<1>4. PICK g : g \in [0..n -> Nat] /\ Sums(g, n, size)
  <2>1. \A i \in 1..n : size[i] \in Nat
    BY <1>2
  <2> HIDE DEF n, size
  <2>2. QED
    BY <1>1, <2>1, SumsExist
<1> HIDE DEF n, size
<1>5. g = Rule(g)
  <2>1. \A k \in 0..n : k = 0 \/ k \in 1..n
    BY <1>1
  <2>2. \A k \in 0..n : g[k] = IF k = 0 THEN 0 ELSE g[k - 1] + s[k].length
    BY <1>2, <1>4, <2>1 DEF Sums
  <2>3. QED
    BY <1>4, <2>2
<1>6. sum = Rule(sum)
  <2> HIDE DEF Rule
  <2>1. QED
    BY <1>5
<1> HIDE DEF sum
<1>7. \A k \in 0..n : sum[k] = IF k = 0 THEN 0 ELSE sum[k - 1] + s[k].length
  BY <1>6
<1>8. \A k \in 0..n : sum[k] \in Nat
  <2>1. sum[0] \in Nat
    <3>1. 0 \in 0..n
      BY <1>1
    <3>2. QED
      BY <1>7, <3>1
  <2>2. ASSUME NEW k \in 1..n, sum[k - 1] \in Nat PROVE sum[k] \in Nat
    <3>1. k \in 0..n /\ k # 0
      BY <1>1
    <3>2. QED
      BY <1>2, <1>7, <2>2, <3>1
  <2>3. QED
    BY <1>1, <2>1, <2>2, ValuesUpTo
<1>9. QED
  BY <1>1, <1>3, <1>8

(* The descriptors of a file entry; where the first is taken as it stands  *)
(* its type stays what it is.                                              *)
LEMMA ExtentFacts ==
  ASSUME NEW c, c.flags \in {"short", "long", "inline", "other"},
         c.ads \in Seq(ExtentAd), c.size \in Nat
  PROVE  Extents(c) \in Seq(ExtentAd) /\ Length(c) \in Nat
<1>1. /\ Used(c.ads) \in Seq(ExtentAd) /\ Recorded(c.ads) \in Seq(ExtentAd)
      /\ TotalLength(c.ads) \in Nat
  <2> DEFINE B == { i \in DOMAIN c.ads : c.ads[i].length = 0 \/ c.ads[i].type = 3 }
  <2>1. Used(c.ads) = CutOff(c.ads, B)
    BY DEF Used, CutOff
  <2>2. B \in SUBSET (DOMAIN c.ads)
    OBVIOUS
  <2> HIDE DEF B
  <2>3. Used(c.ads) \in Seq(ExtentAd)
    BY <2>1, <2>2, CutOffSet
  <2> DEFINE u == Used(c.ads)
             S == { i \in DOMAIN u : u[i].type = 0 }
  <2>4. Recorded(c.ads) = Chosen(u, S) /\ S \in SUBSET (DOMAIN u)
    BY DEF Recorded, Select
  <2> HIDE DEF S
  <2>5. Chosen(u, S) \in Seq(ExtentAd)
    BY <2>3, <2>4, ChosenSet
  <2>6. QED
    BY <2>3, <2>4, <2>5, SumOfIsNat DEF TotalLength
<1>2. AsItStands(c.ads) \in Seq(ExtentAd)
  <2>1. <<>> \in Seq(ExtentAd)
    OBVIOUS
  <2>2. ASSUME c.ads # <<>>
        PROVE  << [c.ads[1] EXCEPT !.length = @ + TypeUnit * c.ads[1].type] >> \in Seq(ExtentAd)
    <3>1. c.ads[1] \in ExtentAd
      <4>1. Len(c.ads) \in Nat /\ Len(c.ads) # 0
        BY <2>2, EmptySeq, LenProperties
      <4>2. 1 \in 1..Len(c.ads)
        BY <4>1
      <4>3. QED
        BY <4>2, ElementOfSeq
    <3> DEFINE a == c.ads[1]
    <3> HIDE DEF a
    <3>2. a \in ExtentAd
      BY <3>1 DEF a
    <3>3. a.length + TypeUnit * a.type \in Nat
      <4>1. \A x, y \in Nat : x * y \in Nat
        OBVIOUS
      <4>2. a.length \in Nat /\ a.type \in Nat /\ TypeUnit \in Nat
        BY <3>2, UdfAssumption DEF ExtentAd
      <4> DEFINE z == TypeUnit * a.type
      <4>3. z \in Nat
        BY <4>1, <4>2
      <4> HIDE DEF z
      <4>4. a.length + z \in Nat
        BY <4>2, <4>3
      <4>5. QED
        BY <4>4 DEF z
    <3> DEFINE w == a.length + TypeUnit * a.type
               raw == [a EXCEPT !.length = w]
    <3> HIDE DEF w
    <3>4. raw \in ExtentAd
      BY <3>2, <3>3 DEF ExtentAd, w
    <3>5. << raw >> \in Seq(ExtentAd)
      BY <3>4
    <3>6. QED
      BY <3>5 DEF w, a
  <2>3. QED
    BY <2>1, <2>2 DEF AsItStands
<1>3. <<>> \in Seq(ExtentAd)
  OBVIOUS
<1>4. SumOf(AsItStands(c.ads)) \in Nat
  BY <1>2, SumOfIsNat
<1>5. QED
  BY <1>1, <1>2, <1>3, <1>4 DEF Extents, Length

LEMMA UdfSectorFacts ==
  ASSUME IsImage(image), image.kind = "disc"
  PROVE  /\ \A s : FidsIn(s) \in Seq(Fid)
         /\ \A s : Holds(s, "fe") => /\ Sector(s).fids \in Seq(Fid)
                                     /\ Extents(Sector(s)) \in Seq(ExtentAd)
                                     /\ Length(Sector(s)) \in Nat
         /\ \A s : CanAllocate(s) => Holds(s, "fe")
         /\ \A s : Holds(s, "fsd") => Sector(s).root \in Nat
         /\ \A s : Holds(s, "pd") => Sector(s).number \in Nat /\ Sector(s).start \in Nat
         /\ \A s : Holds(s, "lvd") =>
              /\ Sector(s).fsd \in [location : Nat, partition : Nat]
              /\ Sector(s).maps
                   \in Seq([meta : BOOLEAN, length : Nat, ref : Nat, file : Nat])
         /\ \A s : Holds(s, "avdp") => Sector(s).location \in Nat /\ Sector(s).length \in Nat
<1>1. \A s \in DOMAIN image.sectors : IsIsoSector(Sector(s)) \/ IsUdfSector(Sector(s))
  BY DiscFacts DEF Sector
<1>2. \A s, tag : Holds(s, tag) => s \in DOMAIN image.sectors /\ Sector(s).tag = tag
  BY DEF Holds, Sector
<1>3. \A s : Holds(s, "fids") => Sector(s).fids \in Seq(Fid)
  BY <1>1, <1>2 DEF IsIsoSector, IsUdfSector
<1>4. <<>> \in Seq(Fid)
  OBVIOUS
<1>5. \A s : FidsIn(s) \in Seq(Fid)
  BY <1>3, <1>4 DEF FidsIn
<1>6. ASSUME NEW s, Holds(s, "fe")
      PROVE  /\ Sector(s).fids \in Seq(Fid)
             /\ Extents(Sector(s)) \in Seq(ExtentAd) /\ Length(Sector(s)) \in Nat
  <2>1. /\ Sector(s).flags \in {"short", "long", "inline", "other"}
        /\ Sector(s).ads \in Seq(ExtentAd) /\ Sector(s).fids \in Seq(Fid)
        /\ Sector(s).size \in Nat
    BY <1>1, <1>2, <1>6 DEF IsIsoSector, IsUdfSector
  <2>2. QED
    BY <2>1, ExtentFacts
<1>7. \A s : Holds(s, "fsd") => Sector(s).root \in Nat
  BY <1>1, <1>2 DEF IsIsoSector, IsUdfSector
<1>8. \A s : Holds(s, "pd") => Sector(s).number \in Nat /\ Sector(s).start \in Nat
  BY <1>1, <1>2 DEF IsIsoSector, IsUdfSector
<1>9. \A s : Holds(s, "lvd") =>
        /\ Sector(s).fsd \in [location : Nat, partition : Nat]
        /\ Sector(s).maps \in Seq([meta : BOOLEAN, length : Nat, ref : Nat, file : Nat])
  BY <1>1, <1>2 DEF IsIsoSector, IsUdfSector
<1>10. \A s : Holds(s, "avdp") => Sector(s).location \in Nat /\ Sector(s).length \in Nat
  BY <1>1, <1>2 DEF IsIsoSector, IsUdfSector
<1>11. \A s : CanAllocate(s) => Holds(s, "fe")
  BY DEF CanAllocate
<1>12. QED
  BY <1>5, <1>6, <1>7, <1>8, <1>9, <1>10, <1>11

(* The descriptors of the volume, and where they say its root is.          *)
PartitionType == [number : Nat, start : Nat]
MapType == [meta : BOOLEAN, length : Nat, ref : Nat, file : Nat]
VdsFound ==
  [ sector : Nat, end : Nat, partitions : Seq(PartitionType),
    fsd : [location : Nat, partition : Nat] \cup {None}, meta : MapType \cup {None} ]
LEMMA AnchorFacts ==
  ASSUME IsImage(image), image.kind = "disc", Anchors # <<>>
  PROVE  Holds(Head(Anchors), "avdp")
<1> DEFINE n == LastSector
           low == (IF n < AnchorAt THEN n ELSE AnchorAt) - CompactFrom
           a == << AnchorAt >>
           b == IF n # AnchorAt THEN << n >> ELSE <<>>
           c == IF n > AnchorAt THEN << n - AnchorAt >> ELSE <<>>
           d == [ i \in 1..low |-> CompactFrom + i - 1 ]
<1>1. n \in Nat /\ AnchorAt \in Nat /\ CompactFrom \in Nat
  BY DiscFacts, UdfAssumption
<1>2. a \in Seq(Int) /\ b \in Seq(Int) /\ c \in Seq(Int)
  <2>1. <<>> \in Seq(Int) /\ \A x \in Int : << x >> \in Seq(Int)
    OBVIOUS
  <2>2. AnchorAt \in Int /\ n \in Int /\ n - AnchorAt \in Int
    BY <1>1
  <2>3. QED
    BY <2>1, <2>2
<1>3. d \in Seq(Int)
  <2>1. low \in Int
    BY <1>1
  <2> HIDE DEF low
  <2>2. d \in [1..low -> Int]
    BY <1>1
  <2>3. CASE low \in Nat
    BY <2>2, <2>3, SeqDef
  <2>4. CASE low \notin Nat
    <3>1. 1..low = 1..0 /\ 0 \in Nat
      BY <2>1, <2>4
    <3>2. d \in [1..0 -> Int]
      BY <2>2, <3>1
    <3> HIDE DEF d
    <3>3. QED
      BY <3>1, <3>2, SeqDef
  <2>5. QED
    BY <2>3, <2>4
<1>4. Candidates = a \o b \o c \o d
  BY DEF Candidates
<1> HIDE DEF a, b, c, d
<1>5. Candidates \in Seq(Int)
  BY <1>2, <1>3, <1>4, ConcatProperties
<1> DEFINE S == { i \in DOMAIN Candidates : Holds(Candidates[i], "avdp") }
<1>6. Anchors = Chosen(Candidates, S) /\ S \in SUBSET (DOMAIN Candidates)
  BY DEF Anchors, Select
<1>7. \A x \in { Candidates[i] : i \in S } : Holds(x, "avdp")
  OBVIOUS
<1> HIDE DEF S
<1>8. Anchors \in Seq(Int) /\ \A x \in ToSet(Anchors) : Holds(x, "avdp")
  BY <1>5, <1>6, <1>7, ChosenSet
<1>9. Head(Anchors) \in ToSet(Anchors)
  <2>1. Head(Anchors) = Anchors[1] /\ 1 \in 1..Len(Anchors)
    BY <1>8, EmptySeq, LenProperties
  <2>2. QED
    BY <1>8, <2>1, ElementsOf
<1>10. QED
  BY <1>8, <1>9

LEMMA MetaMapFacts ==
  ASSUME NEW maps, maps \in Seq(MapType)
  PROVE  MetaMap(maps) \in MapType \cup {None}
<1> DEFINE empty == { i \in DOMAIN maps : maps[i].length = 0 }
           meta == { i \in DOMAIN maps : maps[i].meta /\ \A j \in empty : i < j }
           h == CHOOSE i \in meta : \A j \in meta : j <= i
<1>1. MetaMap(maps) = IF meta = {} THEN None ELSE maps[h]
  BY DEF MetaMap
<1>2. Len(maps) \in Nat /\ DOMAIN maps = 1..Len(maps) /\ \A i \in 1..Len(maps) : maps[i] \in MapType
  BY LenProperties, ElementOfSeq
<1>3. meta \subseteq 1..Len(maps)
  BY <1>2
<1> HIDE DEF meta
<1>4. CASE meta # {}
  <2>1. meta \subseteq 0..Len(maps)
    BY <1>2, <1>3
  <2>2. \E i \in meta : \A j \in meta : i >= j
    BY <1>2, <1>4, <2>1, GreatestElement
  <2>3. \E i \in meta : \A j \in meta : j <= i
    BY <2>2
  <2>4. h \in meta
    BY <2>3
  <2>5. QED
    BY <1>1, <1>2, <1>3, <2>4
<1>5. QED
  BY <1>1, <1>4

LEMMA VdsTyped ==
  ASSUME IsImage(image), image.kind = "disc",
         FindAnchor \/ (found \in VdsFound /\ ReadVds)
  PROVE  found' \in VdsFound
<1>1. CASE FindAnchor
  <2> DEFINE vds == Sector(Head(Anchors))
  <2>1. found' = [ sector |-> vds.location, end |-> vds.location + vds.length,
                   partitions |-> <<>>, fsd |-> None, meta |-> None ]
        /\ Anchors # <<>>
    BY <1>1 DEF FindAnchor, Recognised
  <2>2. vds.location \in Nat /\ vds.length \in Nat
    BY <2>1, AnchorFacts, UdfSectorFacts
  <2> HIDE DEF vds
  <2>3. vds.location + vds.length \in Nat /\ <<>> \in Seq(PartitionType)
    BY <2>2
  <2>4. QED
    BY <2>1, <2>2, <2>3 DEF VdsFound
<1>2. CASE found \in VdsFound /\ ReadVds
  <2> DEFINE c == Sector(found.sector)
  <2>1. /\ found.sector < found.end /\ found.sector \in DOMAIN image.sectors
        /\ found' = CASE c.tag = "pd" -> WithPartition(found, c)
                      [] c.tag = "lvd" -> WithVolume(found, c)
                      [] c.tag = "td" -> [found EXCEPT !.end = found.sector]
                      [] OTHER -> [found EXCEPT !.sector = @ + 1]
    BY <1>2 DEF ReadVds, MoreDescriptors
  <2>2. /\ found \in VdsFound /\ found.sector \in Nat /\ found.sector + 1 \in Nat
        /\ found.partitions \in Seq(PartitionType)
        /\ found.meta \in MapType \cup {None}
    BY <1>2 DEF VdsFound
  <2>3. \A tag : c.tag = tag => Holds(found.sector, tag)
    BY <2>1 DEF Holds, Sector
  <2>4. CASE c.tag = "pd"
    <3>1. c.number \in Nat /\ c.start \in Nat
      BY <2>3, <2>4, UdfSectorFacts
    <3>2. found' = WithPartition(found, c)
      BY <2>1, <2>4
    <3> DEFINE p == [number |-> c.number, start |-> c.start]
               ps == Append(found.partitions, p)
    <3>3. p \in PartitionType
      BY <3>1 DEF PartitionType
    <3>4. ps \in Seq(PartitionType)
      BY <2>2, <3>3, AppendProperties
    <3>5. found' = [found EXCEPT !.sector = @ + 1, !.partitions = ps]
      BY <3>2 DEF WithPartition
    <3> HIDE DEF ps
    <3>6. QED
      BY <2>2, <3>4, <3>5 DEF VdsFound
  <2>5. CASE c.tag = "lvd"
    <3>1. c.fsd \in [location : Nat, partition : Nat] /\ c.maps \in Seq(MapType)
      BY <2>3, <2>5, UdfSectorFacts DEF MapType
    <3>2. found' = WithVolume(found, c)
      BY <2>1, <2>5
    <3> DEFINE m == IF MetaMap(c.maps) = None THEN found.meta ELSE MetaMap(c.maps)
    <3>3. m \in MapType \cup {None}
      BY <2>2, <3>1, MetaMapFacts
    <3>4. found' = [found EXCEPT !.sector = @ + 1, !.fsd = c.fsd, !.meta = m]
      BY <3>2 DEF WithVolume
    <3> HIDE DEF m
    <3>5. QED
      BY <2>2, <3>1, <3>3, <3>4 DEF VdsFound
  <2>6. CASE c.tag = "td"
    <3>1. found' = [found EXCEPT !.end = found.sector]
      BY <2>1, <2>6
    <3>2. QED
      BY <2>2, <3>1 DEF VdsFound
  <2>7. CASE c.tag \notin {"pd", "lvd", "td"}
    <3>1. found' = [found EXCEPT !.sector = @ + 1]
      BY <2>1, <2>7
    <3>2. QED
      BY <2>2, <3>1 DEF VdsFound
  <2>8. QED
    BY <2>4, <2>5, <2>6, <2>7
<1>3. QED
  BY <1>1, <1>2

LEMMA NumberedFacts ==
  ASSUME NEW ps, ps \in Seq(PartitionType), ps = found.partitions, NEW number
  PROVE  /\ Numbered(number) \in Seq(PartitionType)
         /\ ToSet(Numbered(number)) = { p \in ToSet(ps) : p.number = number }
<1> DEFINE S == { i \in DOMAIN ps : ps[i].number = number }
<1>1. Numbered(number) = Chosen(ps, S) /\ S \in SUBSET (DOMAIN ps)
  BY DEF Numbered, Select
<1>2. { ps[i] : i \in S } = { p \in ToSet(ps) : p.number = number }
  BY DEF ToSet
<1> HIDE DEF S
<1>3. QED
  BY <1>1, <1>2, ChosenSet

LEMMA VolumeRootFacts ==
  ASSUME IsImage(image), image.kind = "disc", found \in VdsFound, VolumeRoot # None
  PROVE  VolumeRoot \in UdfFound
<1>1. /\ found.partitions \in Seq(PartitionType)
      /\ found.fsd \in [location : Nat, partition : Nat] \cup {None}
      /\ found.meta \in MapType \cup {None}
  BY DEF VdsFound
<1>2. found.fsd # None
  BY DEF VolumeRoot
<1>3. PartitionStart # None /\ PartitionStart = PartitionStart
  BY <1>2 DEF VolumeRoot
<1>4. PartitionStart \in Nat
  <2>1. CASE found.meta # None
    <3> DEFINE own == Numbered(found.meta.ref)
               fe == Head(own).start + found.meta.file
    <3>1. own # <<>> /\ CanAllocate(fe) /\ Extents(Sector(fe)) # <<>>
          /\ PartitionStart = Head(own).start + Head(Extents(Sector(fe))).location
      BY <1>3, <2>1 DEF PartitionStart
    <3>2. own \in Seq(PartitionType)
      BY <1>1, NumberedFacts
    <3> HIDE DEF own
    <3>8. Head(own) \in PartitionType
      BY <3>1, <3>2, FirstElement
    <3>3. Head(own).start \in Nat
      BY <3>8 DEF PartitionType
    <3> HIDE DEF fe
    <3>4. Extents(Sector(fe)) \in Seq(ExtentAd)
      BY <3>1, UdfSectorFacts
    <3>5. Head(Extents(Sector(fe))) \in ExtentAd
      BY <3>1, <3>4, FirstElement
    <3>6. Head(Extents(Sector(fe))).location \in Nat
      BY <3>5 DEF ExtentAd
    <3>7. QED
      BY <3>1, <3>3, <3>6
  <2>2. CASE found.meta = None
    <3> DEFINE own == Numbered(found.fsd.partition) \o found.partitions
    <3>1. own # <<>> /\ PartitionStart = Head(own).start
      BY <1>3, <2>2 DEF PartitionStart
    <3>2. own \in Seq(PartitionType)
      BY <1>1, NumberedFacts, ConcatProperties
    <3> HIDE DEF own
    <3>8. Head(own) \in PartitionType
      BY <3>1, <3>2, FirstElement
    <3>3. Head(own).start \in Nat
      BY <3>8 DEF PartitionType
    <3>4. QED
      BY <3>1, <3>3
  <2>3. QED
    BY <2>1, <2>2
<1> DEFINE at == PartitionStart + found.fsd.location
           here == { i \in 0..FsdWindow : Holds(at + i, "fsd") /\ InImage(at, i) }
           h == CHOOSE i \in here : \A j \in here : i <= j
<1>5. /\ FileSet(at) # None
      /\ VolumeRoot = [start |-> PartitionStart, icb |-> Sector(FileSet(at)).root]
  BY <1>2, <1>3 DEF VolumeRoot
<1>6. here # {} /\ FileSet(at) = at + h
  BY <1>5 DEF FileSet
<1>7. here \subseteq Nat
  BY UdfAssumption
<1>8. \A i \in here : Holds(at + i, "fsd")
  OBVIOUS
<1> HIDE DEF here, at
<1>9. h \in here
  BY <1>6, <1>7, LeastElement
<1>10. Sector(FileSet(at)).root \in Nat
  BY <1>6, <1>8, <1>9, UdfSectorFacts
<1>11. QED
  BY <1>4, <1>5, <1>10 DEF UdfFound

-----------------------------------------------------------------------------
(* A directory without further entries is left; behind the last one the    *)
(* sizes are set and the tree is returned.                                 *)
LEMMA ReturnKeeps ==
  ASSUME NEW R, IsReading(R), NEW src, NEW level, Built(R, nodes, stack, src, level), Return
  PROVE  /\ Built(R, nodes', stack', src, level) /\ Len(nodes') = Len(nodes)
         /\ image' = image /\ found' = found
         /\ \/ pc' = pc /\ result' = result
            \/ pc' = "done" /\ result' = "Ok" /\ stack' = <<>>
               /\ Parsed(nodes') /\ Totalled(nodes')
<1>2. /\ stack # <<>> /\ Top = Last(stack) /\ Last(stack).entries = <<>>
      /\ stack' = Front(stack) /\ found' = found
  BY DEF Return, Top
<1>3. Built(R, nodes, Front(stack), src, level)
  BY <1>2, BuiltReturn
<1>4. CASE Len(stack) # 1
  <2>1. UNCHANGED <<image, pc, nodes, result>>
    BY <1>4 DEF Return
  <2>2. QED
    BY <1>2, <1>3, <2>1
<1>5. CASE Len(stack) = 1
  <2>1. nodes' = calculate_directory_size(nodes) /\ pc' = "done" /\ result' = "Ok" /\ image' = image
    BY <1>5 DEF Return, Stop
  <2>2. Parsed(nodes)
    BY DEF Built, NodesBuilt
  <2>3. stack \in Seq(FramesOver(R.entries))
    BY DEF Built, FramesOpen
  <2>4. Front(stack) = <<>>
    <3>1. Front(stack) \in Seq(FramesOver(R.entries)) /\ Len(Front(stack)) = 0
      BY <1>2, <1>5, <2>3, FrontFacts
    <3>2. QED
      BY <3>1, EmptySeq
  <2>5. /\ Parsed(nodes') /\ Totalled(nodes') /\ SameButSizes(nodes, nodes')
    BY <2>1, <2>2, Calculated
  <2>6. Built(R, nodes', <<>>, src, level) /\ Len(nodes') = Len(nodes)
    BY <1>3, <2>4, <2>5, BuiltSizes DEF SameButSizes
  <2>7. QED
    BY <1>2, <2>1, <2>4, <2>5, <2>6
<1>6. QED
  BY <1>4, <1>5
LEMMA ReturnBuilt ==
  ASSUME NEW R, IsReading(R), IsBuilt(R, nodes, stack), Return
  PROVE  /\ IsBuilt(R, nodes', stack') /\ image' = image /\ found' = found
         /\ \/ pc' = pc /\ result' = result
            \/ pc' = "done" /\ result' = "Ok" /\ stack' = <<>>
               /\ Parsed(nodes') /\ Totalled(nodes')
<1>1. PICK src, level : Built(R, nodes, stack, src, level)
  BY DEF IsBuilt
<1>2. /\ Built(R, nodes', stack', src, level)
      /\ image' = image /\ found' = found
      /\ \/ pc' = pc /\ result' = result
         \/ pc' = "done" /\ result' = "Ok" /\ stack' = <<>>
            /\ Parsed(nodes') /\ Totalled(nodes')
  BY <1>1, ReturnKeeps
<1>3. QED
  BY <1>2 DEF IsBuilt

(* The identifiers of a directory that is read: those in front of a bad    *)
(* one, and all of them where the volume has none that is bad.             *)
Within(start, x) == UNION { ToSet(FidsIn(start + x.location + i)) : i \in 0..(x.length - 1) }
FidsOf(start, icb) ==
  IF Inline(Sector(start + icb)) THEN ToSet(Sector(start + icb).fids)
  ELSE UNION { Within(start, x) : x \in ToSet(Extents(Sector(start + icb))) }
NoneIsBad ==
  ~ \E s \in DOMAIN image.sectors :
      /\ Holds(s, "fids") \/ Holds(s, "fe")
      /\ \E f \in ToSet(Sector(s).fids) : f.bad
LEMMA ExtentFids ==
  ASSUME IsImage(image), image.kind = "disc", NEW start \in Nat,
         NEW x, x \in ExtentAd,
         NEW t, t = FlattenSeq([i \in 1..x.length |-> FidsIn(start + x.location + i - 1)])
  PROVE  t \in Seq(Fid) /\ ToSet(t) = Within(start, x)
<1> DEFINE n == x.length
           seqs == [i \in 1..n |-> FidsIn(start + x.location + i - 1)]
<1>1. n \in Nat /\ x.location \in Nat
  BY DEF ExtentAd
<1>2. seqs \in Seq(Seq(Fid)) /\ Len(seqs) = n
  <2>1. \A i \in 1..n : FidsIn(start + x.location + i - 1) \in Seq(Fid)
    BY UdfSectorFacts
  <2>2. seqs \in [1..n -> Seq(Fid)]
    BY <2>1
  <2> HIDE DEF seqs, n
  <2>3. QED
    BY <1>1, <2>2, SeqDef, LenProperties
<1>3. \A i \in 1..n : seqs[i] = FidsIn(start + x.location + i - 1)
  OBVIOUS
<1>4. t = FlattenSeq(seqs)
  OBVIOUS
<1> HIDE DEF seqs
<1>5. t \in Seq(Fid) /\ ToSet(t) = UNION { ToSet(seqs[i]) : i \in 1..n }
  BY <1>2, <1>4, FlattenedSet
<1>6. ASSUME NEW i \in 1..n
      PROVE  i - 1 \in 0..(n - 1) /\ seqs[i] = FidsIn(start + x.location + (i - 1))
  <2>1. start + x.location + i - 1 = start + x.location + (i - 1)
    BY <1>1
  <2>2. QED
    BY <1>1, <1>3, <2>1
<1>7. ASSUME NEW i \in 0..(n - 1)
      PROVE  i + 1 \in 1..n /\ seqs[i + 1] = FidsIn(start + x.location + i)
  <2>1. start + x.location + (i + 1) - 1 = start + x.location + i /\ i + 1 \in 1..n
    BY <1>1
  <2>2. QED
    BY <1>3, <2>1
<1>8. QED
  BY <1>5, <1>6, <1>7 DEF Within

LEMMA AllFidsFacts ==
  ASSUME IsImage(image), image.kind = "disc", NEW start \in Nat, NEW icb \in Nat,
         CanAllocate(start + icb)
  PROVE  /\ AllFids(start, icb) \in Seq(Fid)
         /\ ToSet(AllFids(start, icb)) = FidsOf(start, icb)
<1> DEFINE c == Sector(start + icb)
           of(x) == FlattenSeq([i \in 1..x.length |-> FidsIn(start + x.location + i - 1)])
           ads == Extents(c)
           seqs == [j \in DOMAIN ads |-> of(ads[j])]
<1>1. c.fids \in Seq(Fid) /\ ads \in Seq(ExtentAd)
  BY UdfSectorFacts
<1>2. CASE Inline(c)
  BY <1>1, <1>2 DEF AllFids, FidsOf
<1>3. CASE ~Inline(c)
  <2>1. AllFids(start, icb) = FlattenSeq(seqs)
    BY <1>3 DEF AllFids
  <2>2. FidsOf(start, icb) = UNION { Within(start, x) : x \in ToSet(ads) }
    BY <1>3 DEF FidsOf
  <2>3. \A x \in ExtentAd : of(x) \in Seq(Fid) /\ ToSet(of(x)) = Within(start, x)
    BY ExtentFids
  <2> HIDE DEF of, ads
  <2>4. /\ Len(ads) \in Nat /\ DOMAIN ads = 1..Len(ads)
        /\ \A j \in 1..Len(ads) : ads[j] \in ExtentAd
        /\ ToSet(ads) = { ads[j] : j \in 1..Len(ads) }
    BY <1>1, ElementsOf, ElementOfSeq
  <2>5. seqs \in Seq(Seq(Fid)) /\ Len(seqs) = Len(ads)
    <3>1. seqs \in [1..Len(ads) -> Seq(Fid)]
      BY <2>3, <2>4
    <3> HIDE DEF seqs
    <3>2. QED
      BY <2>4, <3>1, SeqDef, LenProperties
  <2>6. \A j \in 1..Len(ads) : seqs[j] = of(ads[j])
    BY <2>4
  <2> HIDE DEF seqs
  <2>7. /\ FlattenSeq(seqs) \in Seq(Fid)
        /\ ToSet(FlattenSeq(seqs)) = UNION { ToSet(seqs[j]) : j \in 1..Len(ads) }
    BY <2>5, FlattenedSet
  <2>8. \A j \in 1..Len(ads) : ToSet(seqs[j]) = Within(start, ads[j])
    BY <2>3, <2>4, <2>6
  <2>9. QED
    BY <2>1, <2>2, <2>4, <2>7, <2>8
<1>4. QED
  BY <1>2, <1>3

LEMMA IdentifierFacts ==
  ASSUME IsImage(image), image.kind = "disc", NEW start \in Nat, NEW icb \in Nat,
         CanAllocate(start + icb)
  PROVE  /\ Identifiers(start, icb) \in Seq(Fid)
         /\ ToSet(Identifiers(start, icb)) \subseteq FidsOf(start, icb)
         /\ NoneIsBad => ToSet(Identifiers(start, icb)) = FidsOf(start, icb)
<1> DEFINE fids == AllFids(start, icb)
           bad == { i \in DOMAIN fids : fids[i].bad }
<1>1. fids \in Seq(Fid) /\ ToSet(fids) = FidsOf(start, icb)
  BY AllFidsFacts
<1>2. Identifiers(start, icb) = CutOff(fids, bad)
  BY DEF Identifiers, CutOff
<1>3. bad \in SUBSET (DOMAIN fids)
  OBVIOUS
<1>4. ASSUME NoneIsBad PROVE bad = {}
  <2>1. ASSUME NEW f \in FidsOf(start, icb) PROVE ~f.bad
    <3>1. Holds(start + icb, "fe")
      BY UdfSectorFacts
    <3>2. CASE Inline(Sector(start + icb))
      BY <1>4, <2>1, <3>1, <3>2 DEF FidsOf, NoneIsBad, Holds
    <3>3. CASE ~Inline(Sector(start + icb))
      <4>1. PICK x : f \in Within(start, x)
        BY <2>1, <3>3 DEF FidsOf
      <4>2. PICK s : f \in ToSet(FidsIn(s))
        BY <4>1 DEF Within
      <4>3. ToSet(<<>>) = {}
        BY DEF ToSet
      <4>4. Holds(s, "fids") /\ f \in ToSet(Sector(s).fids)
        BY <4>2, <4>3 DEF FidsIn
      <4>5. QED
        BY <1>4, <4>4 DEF NoneIsBad, Holds
    <3>4. QED
      BY <3>2, <3>3
  <2>2. ToSet(fids) = { fids[i] : i \in DOMAIN fids }
    BY DEF ToSet
  <2>3. QED
    BY <1>1, <2>1, <2>2
<1> HIDE DEF fids, bad
<1>5. QED
  BY <1>1, <1>2, <1>3, <1>4, CutOffSet

(* The tree of a volume grows out of its identifiers.                      *)
LocationOf(f) ==
  IF f.dir THEN None
  ELSE IF ~CanAllocate(found.start + f.icb) THEN None
  ELSE IF Extents(Sector(found.start + f.icb)) = <<>> THEN None
  ELSE found.start + Head(Extents(Sector(found.start + f.icb))).location
Shown(f) ==
  IF f.dir /\ CanList(found.start, f.icb)
    THEN { g \in ToSet(Identifiers(found.start, f.icb)) : ~Hidden(g) } ELSE {}
UdfSources == Fid \cup {VolumeRootFile}
UdfReading ==
  [ entries |-> Fid, sources |-> UdfSources, key |-> [f \in Fid |-> f],
    keep |-> { f \in Fid : ~Hidden(f) }, fine |-> UdfSources,
    in |-> [f \in UdfSources |-> Shown(f)],
    name |-> [f \in Fid |-> GivenUdfName(f)], dir |-> [f \in UdfSources |-> f.dir],
    location |-> [f \in Fid |-> LocationOf(f)],
    root |-> VolumeRootFile, max |-> CallDepth, lossy |-> FALSE, off |-> 0 ]
LEMMA UdfSourceFacts ==
  ASSUME found \in UdfFound, NEW f, f \in UdfSources
  PROVE  f.dir \in BOOLEAN /\ f.icb \in Nat /\ found.start \in Nat
<1>1. found.icb \in Nat /\ found.start \in Nat
  BY DEF UdfFound
<1>2. CASE f \in Fid
  BY <1>1, <1>2 DEF Fid
<1>3. CASE f = VolumeRootFile
  BY <1>1, <1>3 DEF VolumeRootFile
<1>4. QED
  BY <1>2, <1>3 DEF UdfSources
LEMMA UdfSame ==
  ASSUME image' = image, found' = found
  PROVE  UdfReading' = UdfReading
<1>1. \A s : Sector(s)' = Sector(s)
  BY DEF Sector
<1>2. \A s : FidsIn(s)' = FidsIn(s)
  BY <1>1 DEF FidsIn, Holds
<1>3. \A s : CanAllocate(s)' = CanAllocate(s)
  BY <1>1 DEF CanAllocate, Holds
<1>4. \A s, n : InImage(s, n)' = InImage(s, n)
  BY DEF InImage
<1>5. \A start, icb : CanList(start, icb)' = CanList(start, icb)
  BY <1>1, <1>3, <1>4 DEF CanList
<1>6. \A start, icb : AllFids(start, icb)' = AllFids(start, icb)
  BY <1>1, <1>2 DEF AllFids
<1>7. \A start, icb : Identifiers(start, icb)' = Identifiers(start, icb)
  BY <1>6 DEF Identifiers
<1>8. \A f : LocationOf(f)' = LocationOf(f)
  BY <1>1, <1>3 DEF LocationOf
<1>9. \A f : Shown(f)' = Shown(f)
  BY <1>5, <1>7 DEF Shown
<1>10. VolumeRootFile' = VolumeRootFile /\ UdfSources' = UdfSources
  BY DEF VolumeRootFile, UdfSources
<1>11. QED
  BY <1>8, <1>9, <1>10 DEF UdfReading
LEMMA UdfReadingFacts ==
  ASSUME IsImage(image), image.kind = "disc", found \in UdfFound
  PROVE  /\ IsReading(UdfReading)
         /\ UdfReading.entries = Fid /\ UdfReading.sources = UdfSources
         /\ \A f \in Fid :
              /\ f \in UdfSources /\ UdfReading.key[f] = f
              /\ f \in UdfReading.keep <=> ~Hidden(f)
              /\ UdfReading.name[f] = GivenUdfName(f)
              /\ UdfReading.location[f] = LocationOf(f)
         /\ \A f \in UdfSources :
              /\ f \in UdfReading.fine /\ UdfReading.dir[f] = f.dir
              /\ UdfReading.in[f] = Shown(f) /\ Shown(f) \subseteq Fid
         /\ UdfReading.root = VolumeRootFile /\ VolumeRootFile \in UdfSources
         /\ UdfReading.max = CallDepth /\ CallDepth \in Nat \ {0}
         /\ ~UdfReading.lossy /\ UdfReading.off = 0
<1>1. \A f \in UdfSources : Shown(f) \in SUBSET Fid
  <2>1. ASSUME NEW f \in UdfSources, CanList(found.start, f.icb)
        PROVE  ToSet(Identifiers(found.start, f.icb)) \subseteq Fid
    <3>1. Identifiers(found.start, f.icb) \in Seq(Fid)
      BY <2>1, UdfSourceFacts, IdentifierFacts DEF CanList
    <3>2. QED
      BY <3>1, ElementsOf
  <2>2. QED
    BY <2>1 DEF Shown
<1>2. \A f, g : g \in Shown(f) => ~Hidden(g)
  BY DEF Shown
<1>3. /\ UdfReading.entries = Fid /\ UdfReading.sources = UdfSources
      /\ UdfReading.key = [f \in Fid |-> f]
      /\ UdfReading.keep = { f \in Fid : ~Hidden(f) } /\ UdfReading.fine = UdfSources
      /\ UdfReading.in = [f \in UdfSources |-> Shown(f)]
      /\ UdfReading.name = [f \in Fid |-> GivenUdfName(f)]
      /\ UdfReading.dir = [f \in UdfSources |-> f.dir]
      /\ UdfReading.location = [f \in Fid |-> LocationOf(f)]
      /\ UdfReading.root = VolumeRootFile /\ UdfReading.max = CallDepth
      /\ ~UdfReading.lossy /\ UdfReading.off = 0
  BY DEF UdfReading
<1>4. VolumeRootFile \in UdfSources /\ Fid \subseteq UdfSources
  BY DEF UdfSources
<1>5. CallDepth \in Nat \ {0}
  BY TreeAssumption
<1>6. IsReading(UdfReading)
  <2>1. UdfReading.in \in [UdfSources -> SUBSET UdfSources]
    BY <1>1, <1>3, <1>4
  <2>2. \A x \in Fid : x \notin UdfReading.keep =>
          \A s \in UdfSources : UdfReading.key[x] \notin UdfReading.in[s]
    BY <1>2, <1>3
  <2>3. UdfReading.key \in [Fid -> UdfSources]
    BY <1>3, <1>4
  <2>4. QED
    BY <1>3, <1>4, <1>5, <2>1, <2>2, <2>3 DEF IsReading
<1>7. QED
  BY <1>1, <1>3, <1>4, <1>5, <1>6

UdfTree == IsBuilt(UdfReading, nodes, stack)
LEMMA FileNodeFacts ==
  ASSUME IsImage(image), image.kind = "disc", found \in UdfFound,
         NEW f, f \in Fid, ~f.dir, NEW name, NEW p
  PROVE  \E len : IsMade(FileNode(name, found.start + f.icb, p), name, FALSE,
                         LocationOf(f), len, p)
<1> DEFINE s == found.start + f.icb
<1>1. CASE ~CanAllocate(s)
  <2>1. FileNode(name, s, p) = new_file(name, 0, p) /\ LocationOf(f) = None
    BY <1>1 DEF FileNode, LocationOf
  <2>2. QED
    BY 0 \in Nat, <2>1, NewNodes
<1>2. CASE CanAllocate(s) /\ Extents(Sector(s)) = <<>>
  <2>1. FileNode(name, s, p) = new_file(name, Length(Sector(s)), p) /\ LocationOf(f) = None
    BY <1>2 DEF FileNode, LocationOf
  <2>2. Length(Sector(s)) \in Nat
    BY <1>2, UdfSectorFacts
  <2>3. QED
    BY <2>1, <2>2, NewNodes
<1>3. CASE CanAllocate(s) /\ Extents(Sector(s)) # <<>>
  <2> DEFINE at == found.start + Head(Extents(Sector(s))).location
             n == Length(Sector(s))
  <2>1. FileNode(name, s, p) = new_file_with_location(name, n, at, n, p) /\ LocationOf(f) = at
    BY <1>3 DEF FileNode, LocationOf
  <2>2. n \in Nat
    BY <1>3, UdfSectorFacts
  <2> HIDE DEF at, n
  <2>3. IsMade(new_file_with_location(name, n, at, n, p), name, FALSE, at, n, p)
    BY <2>2, NewNodes
  <2>4. QED
    BY <2>1, <2>3
<1>4. QED
  BY <1>1, <1>2, <1>3
LEMMA UdfSteps ==
  ASSUME IsImage(image), image.kind = "disc", found \in UdfFound, UdfTree,
         UdfSkip \/ UdfFile \/ UdfDirectory \/ UdfUnreadable
  PROVE  UdfTree' /\ image' = image /\ found' = found
<1> DEFINE R == UdfReading
           x == Entry
<1>0. image' = image /\ found' = found
  BY DEF UdfSkip, UdfFile, UdfDirectory, UdfUnreadable, Goto
<1>1. R' = R
  BY <1>0, UdfSame
<1>2. PICK src, level : Built(R, nodes, stack, src, level)
  BY DEF UdfTree, IsBuilt
<1>3. Busy
  BY DEF UdfSkip, UdfFile, UdfDirectory, UdfUnreadable, AtUdfDirectory
<1>4. /\ IsReading(R) /\ R.off = 0 /\ R.max = CallDepth /\ CallDepth \in Nat \ {0}
      /\ stack \in Seq(FramesOver(Fid)) /\ R.entries = Fid
  BY <1>2, UdfReadingFacts DEF Built, FramesOpen
<1>5. /\ stack # <<>> /\ Last(stack).entries # <<>> /\ Top = Last(stack)
      /\ x = Head(Last(stack).entries) /\ Rest = Drawn(stack)
  BY <1>3 DEF Busy, Top, Entry, Rest, Drawn
<1>6. x \in Fid /\ Len(stack) \in Nat \ {0}
  BY <1>4, <1>5, DrawnFacts
<1>7. /\ R.key[x] = x /\ x \in R.fine
      /\ x \in R.keep <=> ~Hidden(x)
      /\ R.in[x] = Shown(x)
      /\ R.name[x] = GivenUdfName(x) /\ R.dir[x] = x.dir
      /\ R.location[x] = LocationOf(x) /\ ~R.lossy
  BY <1>6, UdfReadingFacts
<1>8. x.dir \in BOOLEAN /\ x.icb \in Nat /\ found.start \in Nat
  BY <1>6, UdfSourceFacts DEF UdfSources
<1>9. Len(stack) > R.off
  BY <1>4, <1>6
<1>10. SUFFICES \E s, l : Built(R, nodes', stack', s, l)
  BY <1>0, <1>1 DEF UdfTree, IsBuilt
<1> HIDE DEF R, x
<1>11. CASE UdfSkip
  <2>1. Hidden(x) /\ stack' = Drawn(stack) /\ nodes' = nodes
    BY <1>5, <1>11 DEF UdfSkip, Skip, x
  <2>2. Built(R, nodes, Drawn(stack), src, level)
    BY <1>2, <1>4, <1>5, <1>7, <1>9, <2>1, BuiltSkip
  <2>3. QED
    BY <2>1, <2>2
<1>12. CASE UdfFile
  <2> DEFINE y == FileNode(GivenUdfName(x), found.start + x.icb, Last(stack).node)
  <2>1. ~Hidden(x) /\ ~x.dir /\ stack' = Drawn(stack) /\ nodes' = Append(nodes, y)
    BY <1>5, <1>12 DEF UdfFile, AddFile, x
  <2>2. IsMadeFor(R, y, x, Last(stack).node)
    <3>1. PICK len : IsMade(y, GivenUdfName(x), FALSE, LocationOf(x), len, Last(stack).node)
      BY <1>6, <2>1, FileNodeFacts
    <3> HIDE DEF y
    <3>2. QED
      BY <1>7, <1>8, <2>1, <3>1, MadeFor
  <2>3. ~Descends(R, x)
    BY <1>7, <2>1 DEF Descends, Shown
  <2> HIDE DEF y
  <2>4. QED
    BY <1>2, <1>4, <1>5, <1>7, <1>9, <2>1, <2>2, <2>3, BuiltFile
<1>13. CASE UdfDirectory \/ UdfUnreadable
  <2> DEFINE y == new_directory(GivenUdfName(x), Last(stack).node)
             es == IF CanList(found.start, x.icb) THEN Identifiers(found.start, x.icb) ELSE <<>>
  <2>1. /\ ~Hidden(x) /\ x.dir /\ Len(stack) < CallDepth
        /\ nodes' = Append(nodes, y)
        /\ stack' = Append(Drawn(stack), Frame(Len(nodes) + 1, es))
    BY <1>5, <1>13 DEF UdfDirectory, UdfUnreadable, AtUdfDirectory, AddDirectory, x
  <2>2. IsMadeFor(R, y, x, Last(stack).node)
    <3>1. IsMade(y, GivenUdfName(x), TRUE, None, None, Last(stack).node)
      BY 0 \in Nat, NewNodes
    <3>2. LocationOf(x) = None
      BY <2>1 DEF LocationOf
    <3> HIDE DEF y
    <3>3. QED
      BY <1>7, <1>8, <2>1, <3>1, <3>2, MadeFor
  <2>3. es \in Seq(Fid)
    <3>1. CanList(found.start, x.icb) => Identifiers(found.start, x.icb) \in Seq(Fid)
      BY <1>8, IdentifierFacts DEF CanList
    <3>2. <<>> \in Seq(Fid)
      OBVIOUS
    <3>3. QED
      BY <3>1, <3>2
  <2>4. Shown(x) = { g \in ToSet(es) : ~Hidden(g) }
    <3>1. ToSet(<<>>) = {}
      BY DEF ToSet
    <3>2. QED
      BY <2>1, <3>1 DEF Shown
  <2> HIDE DEF es
  <2>5. \A i \in 1..Len(es) : es[i] \in ToSet(es) /\ es[i] \in Fid
    BY <2>3, ElementsOf
  <2>6. \A e \in ToSet(es) : \E i \in 1..Len(es) : es[i] = e
    BY <2>3, ElementsOf
  <2>7. \A f \in Fid : R.key[f] = f /\ (f \in R.keep <=> ~Hidden(f))
    BY UdfReadingFacts DEF R
  <2> HIDE DEF y
  <2>8. \A i \in 1..Len(es) : es[i] \in R.keep => R.key[es[i]] \in R.in[x]
    BY <1>7, <2>4, <2>5, <2>7
  <2>9. \A d \in R.in[x] : \E i \in 1..Len(es) : R.key[es[i]] = d
    BY <1>7, <2>4, <2>5, <2>6, <2>7
  <2>10. Descends(R, x) => Len(stack) - R.off < R.max
    BY <1>4, <1>6, <2>1
  <2>11. x \in R.keep /\ x \in R.fine /\ R.dir[x] /\ x = R.key[Head(Last(stack).entries)]
    BY <1>5, <1>7, <2>1
  <2>12. es \in Seq(R.entries)
    BY <1>4, <2>3
  <2>13. Head(Last(stack).entries) \in R.keep
    BY <1>5, <2>11
  <2>14. \E s, l : Built(R, Append(nodes, y),
                         Append(Drawn(stack), Frame(Len(nodes) + 1, es)), s, l)
    BY <1>2, <1>4, <1>5, <1>9, <2>2, <2>8, <2>9, <2>10, <2>11, <2>12, <2>13, BuiltDirectory
  <2>15. QED
    BY <2>1, <2>14
<1>14. QED
  BY <1>11, <1>12, <1>13

-----------------------------------------------------------------------------
(* Where the readers of a disc are: what has been found, and a tree that   *)
(* grows out of it.                                                        *)
IsoOpen == found \in IsoFound /\ found.root = DiscRoot /\ IsBuilt(IsoReading, nodes, stack)
UdfOpen == found \in UdfFound /\ IsBuilt(UdfReading, nodes, stack)
AtDepth(R) ==
  /\ Len(stack) = CallDepth /\ Busy /\ Entry \in R.keep /\ R.dir[R.key[Entry]]
DiscInv ==
  image.kind = "disc" =>
    /\ IsImage(image)
    /\ pc # "done" => result = "none"
    /\ pc = "descriptors" => Scanned
    /\ pc = "iso" => IsoOpen
    /\ pc = "vds" => found \in VdsFound
    /\ pc = "udf" => UdfOpen
    /\ result = "Ok" => /\ IsoOpen \/ UdfOpen
                        /\ stack = <<>> /\ Parsed(nodes) /\ Totalled(nodes)
    /\ result = "Abort" => \/ IsoOpen /\ AtDepth(IsoReading)
                           \/ UdfOpen /\ AtDepth(UdfReading)

(* What only depends on the image.                                         *)
LEMMA ImageOnly ==
  ASSUME image' = image
  PROVE  /\ DiscRoot' = DiscRoot /\ IsoIsWhole' = IsoIsWhole /\ UdfIsWhole' = UdfIsWhole
         /\ Recognised' = Recognised /\ Anchors' = Anchors
         /\ \A s, tag : Holds(s, tag)' = Holds(s, tag)
         /\ \A s, n : InImage(s, n)' = InImage(s, n)
         /\ \A r : Listing(r)' = Listing(r)
         /\ \A start, icb : /\ CanList(start, icb)' = CanList(start, icb)
                            /\ Identifiers(start, icb)' = Identifiers(start, icb)
<1>1. \A s, tag : Holds(s, tag)' = Holds(s, tag)
  BY DEF Holds
<1>2. \A s, n : InImage(s, n)' = InImage(s, n)
  BY DEF InImage
<1>3. \A s : RecordsIn(s)' = RecordsIn(s)
  BY <1>1 DEF RecordsIn
<1>4. \A r : Listing(r)' = Listing(r)
  <2>1. \A r : AllRecords(r)' = AllRecords(r)
    BY <1>3 DEF AllRecords
  <2>2. QED
    BY <2>1 DEF Listing, Select
<1>5. DiscRoot' = DiscRoot
  <2>1. Descriptors' = Descriptors
    BY <1>1 DEF Descriptors
  <2>2. \A type : Latest(type)' = Latest(type)
    BY <2>1 DEF Latest
  <2>3. QED
    BY <2>2 DEF DiscRoot
<1>6. \A r : InDirectory(r)' = InDirectory(r)
  BY <1>3 DEF InDirectory
<1>7. \A r : CanDetect(r)' = CanDetect(r)
  BY <1>2 DEF CanDetect
<1>8. IsoIsWhole' = IsoIsWhole
  BY <1>2, <1>5, <1>6, <1>7 DEF IsoIsWhole, DiscNames
<1>9. \A s : Sector(s)' = Sector(s)
  BY DEF Sector
<1>10. LastSector' = LastSector
  BY DEF LastSector
<1>11. Candidates' = Candidates
  BY <1>10 DEF Candidates
<1>12. Anchors' = Anchors
  BY <1>1, <1>11 DEF Anchors, Select
<1>13. HasMarker' = HasMarker
  BY <1>1 DEF HasMarker
<1>14. Recognised' = Recognised
  BY <1>12, <1>13 DEF Recognised
<1>15. \A s : CanAllocate(s)' = CanAllocate(s)
  BY <1>1, <1>9 DEF CanAllocate
<1>16. \A start, icb : CanList(start, icb)' = CanList(start, icb)
  BY <1>2, <1>9, <1>15 DEF CanList
<1>17. \A start, icb : Identifiers(start, icb)' = Identifiers(start, icb)
  <2>1. \A s : FidsIn(s)' = FidsIn(s)
    BY <1>1, <1>9 DEF FidsIn
  <2>2. \A start, icb : AllFids(start, icb)' = AllFids(start, icb)
    BY <1>9, <2>1 DEF AllFids
  <2>3. QED
    BY <2>2 DEF Identifiers
<1>18. UdfIsWhole' = UdfIsWhole
  BY <1>12, <1>14 DEF UdfIsWhole, Sector, Holds, CanList, CanAllocate, InImage
<1>19. QED
  BY <1>1, <1>2, <1>4, <1>5, <1>8, <1>12, <1>14, <1>16, <1>17, <1>18

(* A tree begins with the root, its entries in the only frame.             *)
OpenedIso ==
  /\ IsImage(image) /\ image.kind = "disc" /\ found \in IsoFound
  /\ found.root.dir => InImage(found.root.extent, found.root.length)
  /\ nodes = WithRoot
  /\ stack = << Frame(1, IF found.root.dir THEN Listing(found.root) ELSE <<>>) >>
OpenedUdf ==
  /\ IsImage(image) /\ image.kind = "disc" /\ found \in UdfFound
  /\ CanList(found.start, found.icb) /\ nodes = WithRoot
  /\ stack = << Frame(1, Identifiers(found.start, found.icb)) >>
LEMMA OneFrame ==
  ASSUME NEW X, NEW es, es \in Seq(X)
  PROVE  /\ << Frame(1, es) >> \in Seq(FramesOver(X)) /\ Len(<< Frame(1, es) >>) = 1
         /\ << Frame(1, es) >>[1] = Frame(1, es)
<1>1. Frame(1, es) \in FramesOver(X)
  BY DEF Frame, FramesOver
<1> DEFINE f == Frame(1, es)
           F == FramesOver(X)
<1> HIDE DEF f, F
<1>2. << f >> \in Seq(F) /\ Len(<< f >>) = 1 /\ << f >>[1] = f
  BY <1>1 DEF f, F
<1>3. QED
  BY <1>2 DEF f, F
LEMMA OpenedIsoGrows == OpenedIso => IsBuilt(IsoReading, nodes, stack)
<1> SUFFICES ASSUME OpenedIso PROVE IsBuilt(IsoReading, nodes, stack)
  OBVIOUS
<1> DEFINE R == IsoReading
           root == found.root
           es == IF root.dir THEN Listing(root) ELSE <<>>
<1>1. /\ IsReading(R) /\ R.entries = Record /\ R.root = root /\ root \in Record
      /\ R.max \in Nat \ {0} /\ R.off = 0
      /\ \A r \in Record :
           /\ R.key[r] = r /\ (r \in R.keep <=> NameOf(r) \notin Dots)
           /\ r \in R.fine <=> (r.dir => InImage(r.extent, r.length))
           /\ R.in[r] = IF r.dir THEN { e \in ToSet(Listing(r)) : NameOf(e) \notin Dots } ELSE {}
  BY IsoReadingFacts DEF OpenedIso
<1>2. es \in Seq(Record)
  <2>1. Listing(root) \in Seq(Record)
    BY <1>1, ListingFacts DEF OpenedIso
  <2>2. <<>> \in Seq(Record)
    OBVIOUS
  <2>3. QED
    BY <2>1, <2>2
<1>3. R.in[root] = { e \in ToSet(es) : NameOf(e) \notin Dots }
  <2>1. ToSet(<<>>) = {}
    BY DEF ToSet
  <2>2. QED
    BY <1>1, <2>1
<1>4. root \in R.fine /\ nodes = WithRoot /\ stack = << Frame(1, es) >>
  BY <1>1 DEF OpenedIso
<1> HIDE DEF R, root, es
<1>5. \A i \in 1..Len(es) : es[i] \in ToSet(es) /\ es[i] \in Record
  BY <1>2, ElementsOf
<1>6. \A e \in ToSet(es) : \E i \in 1..Len(es) : es[i] = e
  BY <1>2, ElementsOf
<1>7. \A i \in 1..Len(es) : es[i] \in R.keep => R.key[es[i]] \in R.in[R.root]
  BY <1>1, <1>3, <1>5
<1>8. \A d \in R.in[R.root] : \E i \in 1..Len(es) : R.key[es[i]] = d
  <2>1. ASSUME NEW d \in R.in[R.root] PROVE \E i \in 1..Len(es) : R.key[es[i]] = d
    <3>1. d \in ToSet(es)
      BY <1>1, <1>3
    <3>2. PICK i \in 1..Len(es) : es[i] = d
      BY <1>6, <3>1
    <3>3. R.key[es[i]] = es[i]
      BY <1>1, <1>5
    <3>4. QED
      BY <3>2, <3>3
  <2>2. QED
    BY <2>1
<1>9. Parsed(nodes) /\ Len(nodes) = 1 /\ nodes[1].is_directory
  BY <1>4, RootFacts
<1>10. stack \in Seq(FramesOver(R.entries)) /\ Len(stack) = R.off + 1
       /\ stack[R.off + 1] = Frame(1, es)
  BY <1>1, <1>2, <1>4, OneFrame
<1>11. R.root \in R.fine /\ (Descends(R, R.root) => R.max > 0)
  BY <1>1, <1>4
<1>12. \E s, l : Built(R, nodes, stack, s, l)
  BY <1>1, <1>7, <1>8, <1>9, <1>10, <1>11, BuiltRoot
<1>13. QED
  BY <1>12 DEF IsBuilt, R
LEMMA OpenedUdfGrows == OpenedUdf => IsBuilt(UdfReading, nodes, stack)
<1> SUFFICES ASSUME OpenedUdf PROVE IsBuilt(UdfReading, nodes, stack)
  OBVIOUS
<1> DEFINE R == UdfReading
           root == VolumeRootFile
           es == Identifiers(found.start, found.icb)
<1>1. /\ IsReading(R) /\ R.entries = Fid /\ R.root = root /\ root \in UdfSources
      /\ R.max \in Nat \ {0} /\ R.off = 0 /\ root \in R.fine /\ R.in[root] = Shown(root)
      /\ \A f \in Fid : R.key[f] = f /\ (f \in R.keep <=> ~Hidden(f))
  BY UdfReadingFacts DEF OpenedUdf
<1>2. es \in Seq(Fid)
  BY IdentifierFacts DEF OpenedUdf, CanList, UdfFound
<1>3. R.in[root] = { g \in ToSet(es) : ~Hidden(g) }
  <2>1. root.dir /\ root.icb = found.icb
    BY DEF VolumeRootFile
  <2>2. QED
    BY <1>1, <2>1 DEF Shown, OpenedUdf
<1>4. nodes = WithRoot /\ stack = << Frame(1, es) >>
  BY DEF OpenedUdf
<1> HIDE DEF R, root, es
<1>5. \A i \in 1..Len(es) : es[i] \in ToSet(es) /\ es[i] \in Fid
  BY <1>2, ElementsOf
<1>6. \A e \in ToSet(es) : \E i \in 1..Len(es) : es[i] = e
  BY <1>2, ElementsOf
<1>7. \A i \in 1..Len(es) : es[i] \in R.keep => R.key[es[i]] \in R.in[R.root]
  BY <1>1, <1>3, <1>5
<1>8. \A d \in R.in[R.root] : \E i \in 1..Len(es) : R.key[es[i]] = d
  BY <1>1, <1>3, <1>5, <1>6
<1>9. Parsed(nodes) /\ Len(nodes) = 1 /\ nodes[1].is_directory
  BY <1>4, RootFacts
<1>10. stack \in Seq(FramesOver(R.entries)) /\ Len(stack) = R.off + 1
       /\ stack[R.off + 1] = Frame(1, es)
  BY <1>1, <1>2, <1>4, OneFrame
<1>11. R.root \in R.fine /\ (Descends(R, R.root) => R.max > 0)
  BY <1>1
<1>12. \E s, l : Built(R, nodes, stack, s, l)
  BY <1>1, <1>7, <1>8, <1>9, <1>10, <1>11, BuiltRoot
<1>13. QED
  BY <1>12 DEF IsBuilt, R
LEMMA OpenedIsoGrowsNext == (OpenedIso => IsBuilt(IsoReading, nodes, stack))'
BY OpenedIsoGrows, PTL
LEMMA OpenedUdfGrowsNext == (OpenedUdf => IsBuilt(UdfReading, nodes, stack))'
BY OpenedUdfGrows, PTL

(* The same where nothing changes.                                         *)
LEMMA OpenSame ==
  ASSUME image' = image, found' = found
  PROVE  /\ Scanned' = Scanned
         /\ UNCHANGED <<nodes, stack>> =>
              /\ IsoOpen' = IsoOpen /\ UdfOpen' = UdfOpen
              /\ AtDepth(IsoReading)' = AtDepth(IsoReading)
              /\ AtDepth(UdfReading)' = AtDepth(UdfReading)
<1>1. IsoReading' = IsoReading /\ UdfReading' = UdfReading
  BY IsoSame, UdfSame
<1>2. Scanned' = Scanned
  BY DEF Scanned, Holds, IsLatest, OfType
<1>3. ASSUME UNCHANGED <<nodes, stack>>
      PROVE  /\ IsoOpen' = IsoOpen /\ UdfOpen' = UdfOpen
             /\ AtDepth(IsoReading)' = AtDepth(IsoReading)
             /\ AtDepth(UdfReading)' = AtDepth(UdfReading)
  <2>1. DiscRoot' = DiscRoot
    BY ImageOnly
  <2>2. IsBuilt(IsoReading, nodes, stack)' = IsBuilt(IsoReading, nodes, stack)
        /\ IsBuilt(UdfReading, nodes, stack)' = IsBuilt(UdfReading, nodes, stack)
    BY <1>1, <1>3 DEF IsBuilt
  <2>3. IsoOpen' = IsoOpen /\ UdfOpen' = UdfOpen
    BY <2>1, <2>2 DEF IsoOpen, UdfOpen
  <2>4. Busy' = Busy /\ Entry' = Entry
    BY <1>3 DEF Busy, Entry, Top
  <2>5. QED
    BY <1>1, <1>3, <2>3, <2>4 DEF AtDepth
<1>4. QED
  BY <1>2, <1>3

LEMMA DiscInit ==
  ASSUME Init
  PROVE  DiscInv
<1> SUFFICES ASSUME image.kind = "disc" PROVE DiscInv
  BY DEF DiscInv
<1>1. /\ IsImage(image) /\ result = "none" /\ pc = "descriptors"
      /\ found = [sector |-> VdStart, primary |-> None, joliet |-> None]
  BY StartsWithImage DEF Init, Begin, StartPc, StartFound
<1>2. VdStart \in Nat
  BY DiscAssumption
<1>3. \A type : OfType(type, VdStart) = {}
  BY <1>2 DEF OfType
<1>4. Scanned
  <2>1. \A t \in VdStart..(VdStart - 1) : FALSE
    BY <1>2
  <2>2. QED
    BY <1>1, <1>2, <1>3, <2>1 DEF Scanned, ScanFound, IsLatest
<1>5. QED
  BY <1>1, <1>4 DEF DiscInv

LEMMA IsoStep ==
  ASSUME DiscInv, image.kind = "disc", image' = image, IsoNext
  PROVE  DiscInv'
<1>1. /\ IsImage(image) /\ image'.kind = "disc" /\ IsImage(image')
      /\ pc # "done" => result = "none"
  BY DEF DiscInv
<1>2. CASE ReadDescriptor
  <2>1. Scanned /\ pc = "descriptors" /\ pc' = pc /\ result' = result
    BY <1>2 DEF DiscInv, ReadDescriptor, At, Goto
  <2>2. Scanned'
    BY <1>1, <1>2, <2>1, ScanStep
  <2>3. QED
    BY <1>1, <2>1, <2>2 DEF DiscInv
<1>3. CASE BadDisc \/ IsoFails
  <2>1. pc' = "vrs" /\ result' = result /\ pc # "done"
    BY <1>3 DEF BadDisc, IsoFails, AtSubdirectory, AtEntry, At, TryUdf
  <2>2. QED
    BY <1>1, <2>1 DEF DiscInv
<1>4. CASE OpenIso
  <2> DEFINE r == ChosenRoot(found)
  <2>1. /\ Scanned /\ ~IsDescriptor /\ pc' = "iso" /\ result' = result /\ pc # "done"
        /\ r # None /\ (r.dir => InImage(r.extent, r.length))
        /\ stack' = << Frame(1, IF r.dir THEN Listing(r) ELSE <<>>) >>
        /\ found' = [ type |-> VdType(found), root |-> r,
                      rock |-> VdType(found) = "primary" /\ HasSignature(r) ]
        /\ nodes' = WithRoot
    BY <1>4 DEF DiscInv, OpenIso, At, Goto
  <2>2. r = DiscRoot
    BY <1>1, <2>1, ScanEnd
  <2>3. r \in Record /\ VdType(found) \in {"primary", "joliet"}
    BY <2>1 DEF Scanned, ScanFound, ChosenRoot, VdType
  <2> HIDE DEF r
  <2>4. found' \in IsoFound /\ found'.root = r
    BY <2>1, <2>3 DEF IsoFound
  <2>5. DiscRoot' = DiscRoot
    BY ImageOnly
  <2>6. OpenedIso'
    <3>1. Listing(found.root)' = Listing(r)
      BY <2>4 DEF Listing, Select, AllRecords, RecordsIn, Holds
    <3>2. InImage(found.root.extent, found.root.length)' = InImage(r.extent, r.length)
      BY <2>4 DEF InImage
    <3>3. WithRoot' = WithRoot
      BY DEF WithRoot, new_directory
    <3>4. QED
      BY <1>1, <2>1, <2>4, <3>1, <3>2 DEF OpenedIso
  <2>7. IsBuilt(IsoReading, nodes, stack)'
    BY <2>6, OpenedIsoGrowsNext
  <2>8. IsoOpen'
    BY <2>2, <2>4, <2>5, <2>7 DEF IsoOpen
  <2>9. QED
    BY <1>1, <2>1, <2>8 DEF DiscInv
<1>5. CASE IsoSkip \/ IsoFile \/ IsoDirectory
  <2>1. /\ pc = "iso" /\ pc' = "iso" /\ result' = result /\ found' = found /\ IsoOpen
    BY <1>5 DEF DiscInv, IsoSkip, IsoFile, IsoDirectory, AtSubdirectory, AtEntry, At, Goto
  <2>2. IsoTree /\ found \in IsoFound
    BY <2>1 DEF IsoOpen, IsBuilt, IsoTree
  <2>3. IsoTree'
    BY <1>1, <1>5, <2>2, IsoSteps
  <2>4. IsBuilt(IsoReading, nodes, stack)'
    BY <2>3 DEF IsoTree, IsBuilt
  <2>5. DiscRoot' = DiscRoot
    BY ImageOnly
  <2>6. IsoOpen'
    BY <2>1, <2>4, <2>5 DEF IsoOpen
  <2>7. QED
    BY <1>1, <2>1, <2>6 DEF DiscInv
<1>6. CASE IsoAborts
  <2>1. /\ IsoOpen /\ pc' = "done" /\ result' = "Abort" /\ UNCHANGED <<found, nodes, stack>>
        /\ Busy /\ NameOf(Entry) \notin Dots /\ Entry.dir /\ Len(stack) = CallDepth
    BY <1>6 DEF DiscInv, IsoAborts, AtSubdirectory, AtEntry, At, Stop
  <2>2. Entry \in Record
    <3>1. stack \in Seq(FramesOver(Record)) /\ found \in IsoFound
      BY <1>1, <2>1, IsoReadingFacts DEF IsoOpen, IsBuilt, Built, FramesOpen
    <3>2. stack # <<>> /\ Last(stack).entries # <<>> /\ Entry = Head(Last(stack).entries)
      BY <2>1 DEF Busy, Entry, Top
    <3>3. QED
      BY <3>1, <3>2, DrawnFacts
  <2>3. Entry \in IsoReading.keep /\ IsoReading.dir[IsoReading.key[Entry]]
    BY <1>1, <2>1, <2>2, IsoReadingFacts DEF IsoOpen
  <2>4. AtDepth(IsoReading)
    BY <2>1, <2>3 DEF AtDepth
  <2>5. IsoOpen' /\ AtDepth(IsoReading)'
    BY <2>1, <2>4, OpenSame
  <2>6. QED
    BY <1>1, <2>1, <2>5 DEF DiscInv
<1>7. CASE IsoReturn
  <2>1. pc = "iso" /\ IsoOpen /\ Return
    BY <1>7 DEF DiscInv, IsoReturn, At
  <2>2. IsReading(IsoReading) /\ IsBuilt(IsoReading, nodes, stack)
    BY <1>1, <2>1, IsoReadingFacts DEF IsoOpen
  <2>3. /\ IsBuilt(IsoReading, nodes', stack') /\ found' = found
        /\ \/ pc' = pc /\ result' = result
           \/ pc' = "done" /\ result' = "Ok" /\ stack' = <<>>
              /\ Parsed(nodes') /\ Totalled(nodes')
    BY <2>1, <2>2, ReturnBuilt
  <2>4. IsoReading' = IsoReading /\ DiscRoot' = DiscRoot
    BY <2>3, IsoSame, ImageOnly
  <2>5. IsoOpen'
    BY <2>1, <2>3, <2>4 DEF IsoOpen, IsBuilt
  <2>6. Parsed(nodes)' = Parsed(nodes') /\ Totalled(nodes)' = Totalled(nodes')
    BY DEF Parsed, Totalled, IsNode, TotalSize, Children
  <2>7. QED
    BY <1>1, <2>1, <2>3, <2>5, <2>6 DEF DiscInv
<1>8. CASE IsoPanics
  <2>1. pc' = "done" /\ result' = "Panic"
    BY <1>8 DEF IsoPanics, Stop
  <2>2. QED
    BY <1>1, <2>1 DEF DiscInv
<1>9. QED
  BY <1>2, <1>3, <1>4, <1>5, <1>6, <1>7, <1>8 DEF IsoNext

LEMMA UdfStep ==
  ASSUME DiscInv, image.kind = "disc", image' = image, UdfNext
  PROVE  DiscInv'
<1>1. /\ IsImage(image) /\ image'.kind = "disc" /\ IsImage(image')
      /\ pc # "done" => result = "none"
  BY DEF DiscInv
<1>2. CASE NotUdf \/ VdsFails \/ BadVolume
  <2>1. pc' = "done" /\ result' = "Err"
    BY <1>2 DEF NotUdf, VdsFails, BadVolume, Stop
  <2>2. QED
    BY <1>1, <2>1 DEF DiscInv
<1>3. CASE FindAnchor \/ ReadVds
  <2>1. pc' = "vds" /\ result' = result /\ result = "none" /\ (ReadVds => found \in VdsFound)
    BY <1>1, <1>3 DEF DiscInv, FindAnchor, ReadVds, MoreDescriptors, At, Goto
  <2>2. found' \in VdsFound
    BY <1>1, <1>3, <2>1, VdsTyped
  <2>3. VdsFound' = VdsFound
    BY DEF VdsFound, PartitionType, MapType
  <2>4. QED
    BY <1>1, <2>1, <2>2 DEF DiscInv
<1>4. CASE OpenUdf
  <2>1. /\ found \in VdsFound /\ VolumeRoot # None /\ pc' = "udf" /\ result' = result
        /\ result = "none"
        /\ CanList(VolumeRoot.start, VolumeRoot.icb)
        /\ stack' = << Frame(1, Identifiers(VolumeRoot.start, VolumeRoot.icb)) >>
        /\ found' = VolumeRoot /\ nodes' = WithRoot
    BY <1>1, <1>4 DEF DiscInv, OpenUdf, AtVolume, At, Goto
  <2>2. found' \in UdfFound
    BY <1>1, <2>1, VolumeRootFacts
  <2> DEFINE s == VolumeRoot.start
             b == VolumeRoot.icb
  <2>3. found'.start = s /\ found'.icb = b
    BY <2>1
  <2>4. /\ CanList(s, b) /\ stack' = << Frame(1, Identifiers(s, b)) >>
    BY <2>1
  <2> HIDE DEF s, b
  <2>5. CanList(found.start, found.icb)' = CanList(s, b)
    BY <2>3 DEF CanList, CanAllocate, Holds, Sector, InImage
  <2>6. Identifiers(found.start, found.icb)' = Identifiers(s, b)
    <3>1. \A k : FidsIn(k)' = FidsIn(k)
      BY DEF FidsIn, Holds, Sector
    <3>2. AllFids(found.start, found.icb)' = AllFids(s, b)
      BY <2>3, <3>1 DEF AllFids, Sector
    <3>3. QED
      BY <3>2 DEF Identifiers
  <2>7. OpenedUdf'
    BY <1>1, <2>1, <2>2, <2>4, <2>5, <2>6 DEF OpenedUdf
  <2>8. IsBuilt(UdfReading, nodes, stack)'
    BY <2>7, OpenedUdfGrowsNext
  <2>9. UdfOpen'
    BY <2>2, <2>8 DEF UdfOpen
  <2>10. QED
    BY <1>1, <2>1, <2>9 DEF DiscInv
<1>5. CASE UdfSkip \/ UdfFile \/ UdfDirectory \/ UdfUnreadable
  <2>1. /\ pc = "udf" /\ pc' = "udf" /\ result' = result /\ found' = found /\ UdfOpen
    BY <1>5 DEF DiscInv, UdfSkip, UdfFile, UdfDirectory, UdfUnreadable, AtUdfDirectory,
                At, Goto
  <2>2. UdfTree /\ found \in UdfFound
    BY <2>1 DEF UdfOpen, UdfTree
  <2>3. UdfTree'
    BY <1>1, <1>5, <2>2, UdfSteps
  <2>4. UdfOpen'
    BY <2>1, <2>2, <2>3 DEF UdfOpen, UdfTree
  <2>5. QED
    BY <1>1, <2>1, <2>4 DEF DiscInv
<1>6. CASE UdfAborts
  <2>1. /\ UdfOpen /\ pc' = "done" /\ result' = "Abort" /\ UNCHANGED <<found, nodes, stack>>
        /\ Busy /\ ~Hidden(Entry) /\ Entry.dir /\ Len(stack) = CallDepth
    BY <1>6 DEF DiscInv, UdfAborts, AtUdfDirectory, At, Stop
  <2>2. Entry \in Fid
    <3>1. stack \in Seq(FramesOver(Fid)) /\ found \in UdfFound
      BY <1>1, <2>1, UdfReadingFacts DEF UdfOpen, IsBuilt, Built, FramesOpen
    <3>2. stack # <<>> /\ Last(stack).entries # <<>> /\ Entry = Head(Last(stack).entries)
      BY <2>1 DEF Busy, Entry, Top
    <3>3. QED
      BY <3>1, <3>2, DrawnFacts
  <2>3. Entry \in UdfReading.keep /\ UdfReading.dir[UdfReading.key[Entry]]
    BY <1>1, <2>1, <2>2, UdfReadingFacts DEF UdfOpen
  <2>4. AtDepth(UdfReading)
    BY <2>1, <2>3 DEF AtDepth
  <2>5. UdfOpen' /\ AtDepth(UdfReading)'
    BY <2>1, <2>4, OpenSame
  <2>6. QED
    BY <1>1, <2>1, <2>5 DEF DiscInv
<1>7. CASE UdfReturn
  <2>1. pc = "udf" /\ UdfOpen /\ Return
    BY <1>7 DEF DiscInv, UdfReturn, At
  <2>2. IsReading(UdfReading) /\ IsBuilt(UdfReading, nodes, stack)
    BY <1>1, <2>1, UdfReadingFacts DEF UdfOpen
  <2>3. /\ IsBuilt(UdfReading, nodes', stack') /\ found' = found
        /\ \/ pc' = pc /\ result' = result
           \/ pc' = "done" /\ result' = "Ok" /\ stack' = <<>>
              /\ Parsed(nodes') /\ Totalled(nodes')
    BY <2>1, <2>2, ReturnBuilt
  <2>4. UdfReading' = UdfReading
    BY <2>3, UdfSame
  <2>5. UdfOpen'
    BY <2>1, <2>3, <2>4 DEF UdfOpen, IsBuilt
  <2>6. Parsed(nodes)' = Parsed(nodes') /\ Totalled(nodes)' = Totalled(nodes')
    BY DEF Parsed, Totalled, IsNode, TotalSize, Children
  <2>7. QED
    BY <1>1, <2>1, <2>3, <2>5, <2>6 DEF DiscInv
<1>8. QED
  BY <1>2, <1>3, <1>4, <1>5, <1>6, <1>7 DEF UdfNext

LEMMA DiscSteps ==
  ASSUME DiscInv, [Next]_vars
  PROVE  DiscInv'
<1>1. image' = image
  BY OwnSteps
<1>2. CASE image.kind # "disc"
  BY <1>1, <1>2 DEF DiscInv
<1>3. CASE image.kind = "disc" /\ UNCHANGED vars
  <2>1. UNCHANGED <<image, pc, found, stack, nodes, result>>
    BY <1>3 DEF vars
  <2>2. /\ Scanned' = Scanned /\ IsoOpen' = IsoOpen /\ UdfOpen' = UdfOpen
        /\ AtDepth(IsoReading)' = AtDepth(IsoReading)
        /\ AtDepth(UdfReading)' = AtDepth(UdfReading)
    BY <2>1, OpenSame
  <2>3. Parsed(nodes)' = Parsed(nodes) /\ Totalled(nodes)' = Totalled(nodes)
    BY <2>1 DEF Parsed, Totalled, IsNode, TotalSize, Children
  <2>4. QED
    BY <2>1, <2>2, <2>3 DEF DiscInv
<1>4. CASE image.kind = "disc" /\ (IsoNext \/ UdfNext)
  BY <1>1, <1>4, IsoStep, UdfStep
<1>5. QED
  BY <1>1, <1>2, <1>3, <1>4, OwnSteps

-----------------------------------------------------------------------------
(* The names that a tree has: every node is there, and what is there has a *)
(* node, unless it is a directory at the last depth.                       *)
NodesAre(R, src, names) ==
  \A k \in 2..Len(nodes) :
    /\ src[k] \in R.sources /\ PathOf(k) # <<>> /\ << PathOf(k), src[k] >> \in names
    /\ nodes[k].is_directory = R.dir[src[k]] /\ nodes[k].location = R.location[src[k]]
AllNamed(R, src, names) ==
  \A x \in names :
    /\ x[2] \in R.fine
    /\ x[1] # <<>> => \E k \in 2..Len(nodes) : PathOf(k) = x[1] /\ src[k] = x[2]
MostNamed(R, src, names) ==
  \A x \in names :
    \/ x[1] = <<>>
    \/ R.lossy /\ Len(x[1]) = R.max /\ R.dir[x[2]]
    \/ \E k \in 2..Len(nodes) : PathOf(k) = x[1] /\ src[k] = x[2]
AsDeep(level) == \A k \in 1..Len(nodes) : Len(PathOf(k)) = level[k]
LEMMA NamesAreNodes ==
  ASSUME NEW R, IsReading(R), NEW src, NEW level, NEW st, Built(R, nodes, st, src, level),
         NEW W, IsCover(R, W), NEW named, SameNames(R, W, named),
         NEW names, names = NamesBelow(R.root, W, named, R.max)
  PROVE  /\ NodesAre(R, src, names)
         /\ st = <<>> /\ ~R.lossy /\ HasAll(R, W, names) => AllNamed(R, src, names)
         /\ st = <<>> /\ HasAll(R, W, names) => MostNamed(R, src, names)
         /\ AsDeep(level)
<1>0. /\ W \in [R.sources -> SUBSET R.sources]
      /\ \A e \in R.sources : R.in[e] \subseteq W[e]
      /\ \A e \in R.sources : \A f \in W[e] : named[f] = R.name[f]
  BY DEF IsCover, SameNames
<1> DEFINE n == Len(nodes)
           P == [k \in 1..n |-> PathOf(k)]
           N == [k \in 1..n |-> nodes[k].name]
           X == { named[e] : e \in R.sources } \cup { nodes[k].name : k \in 1..n }
<1>1. /\ Parsed(nodes) /\ n \in Nat /\ n >= 1 /\ NodesBuilt(R, nodes, src, level)
      /\ R.root \in R.sources /\ R.max \in Nat
      /\ src \in [1..n -> R.sources]
      /\ \A k \in 1..n : src[k] \in R.fine
      /\ \A k \in 2..n :
           /\ nodes[k].parent \in 1..(k - 1)
           /\ src[k] \in R.in[src[nodes[k].parent]]
           /\ nodes[k].name = R.name[src[k]] /\ nodes[k].is_directory = R.dir[src[k]]
           /\ nodes[k].location = R.location[src[k]]
  BY TreeFacts DEF Built, NodesBuilt, IsReading
<1>2. /\ PathOf(1) = <<>>
      /\ \A k \in 2..n : PathOf(k) = Append(PathOf(nodes[k].parent), nodes[k].name)
  BY <1>1, PathFacts
<1>3. \A k \in 2..n : k \in 1..n /\ nodes[k].parent \in 1..n
  BY <1>1
<1>4. IsPath(P, nodes, N)
  <2>1. P[1] = <<>>
    BY <1>1, <1>2
  <2>2. \A k \in 2..n : P[k] = Append(P[nodes[k].parent], N[k])
    BY <1>2, <1>3
  <2> HIDE DEF P, N
  <2>3. QED
    BY <2>1, <2>2 DEF IsPath
<1>5. IsNamed(N, nodes, named, src)
  <2>1. ASSUME NEW k \in 2..n PROVE N[k] = named[src[k]]
    <3>1. src[nodes[k].parent] \in R.sources
      BY <1>1, <1>3
    <3>2. src[k] \in W[src[nodes[k].parent]]
      BY <1>0, <1>1, <3>1
    <3>3. named[src[k]] = R.name[src[k]]
      BY <1>0, <3>1, <3>2
    <3>4. QED
      BY <1>1, <1>3, <3>3
  <2> HIDE DEF N
  <2>2. QED
    BY <2>1 DEF IsNamed
<1>6. NamedIn(X, R.sources, W, named)
  BY <1>0 DEF NamedIn
<1>7. \A k \in 1..n : P[k] = PathOf(k)
  OBVIOUS
<1> HIDE DEF X, P, N
<1>8. PICK at : /\ IsBelow(at, R.root, W, named, R.max, R.sources, X)
                /\ NamesBelow(R.root, W, named, R.max) = AllLevels(at, R.max)
  <2>1. HasLevels(R.root, W, named, R.max, R.sources, X)
    BY <1>0, <1>1, <1>6, LevelsBelow
  <2>2. QED
    BY <2>1 DEF HasLevels
<1>9. \A k \in 1..n : level[k] \in 0..R.max /\ << P[k], src[k] >> \in at[level[k]]
  BY <1>0, <1>1, <1>4, <1>5, <1>8, BuiltSound DEF n
<1>10. ASSUME NEW k \in 2..n
       PROVE  src[k] \in R.sources /\ PathOf(k) # <<>> /\ << PathOf(k), src[k] >> \in names
  <2>1. << PathOf(k), src[k] >> \in names
    <3> DEFINE own == << P[k], src[k] >>
    <3>1. level[k] \in 0..R.max /\ own \in at[level[k]] /\ P[k] = PathOf(k)
      BY <1>3, <1>7, <1>9
    <3>2. own = << PathOf(k), src[k] >>
      BY <3>1
    <3> HIDE DEF own
    <3>3. own \in names
      BY <1>8, <3>1 DEF AllLevels
    <3>4. QED
      BY <3>2, <3>3
  <2>2. PathOf(k) # <<>>
    <3> DEFINE p == PathOf(nodes[k].parent)
               m == nodes[k].name
    <3>1. p \in Seq(X)
      <4>1. at \in [0..R.max -> SUBSET (Seq(X) \X R.sources)]
        BY <1>8 DEF IsBelow
      <4> DEFINE q == nodes[k].parent
      <4>2. q \in 1..n
        BY <1>3
      <4> HIDE DEF q
      <4>3. << P[q], src[q] >> \in at[level[q]] /\ level[q] \in 0..R.max
        BY <1>9, <4>2
      <4>4. << P[q], src[q] >> \in Seq(X) \X R.sources
        BY <4>1, <4>3
      <4>5. P[q] \in Seq(X)
        BY <4>4
      <4>6. QED
        BY <1>7, <4>2, <4>5 DEF q
    <3>2. m \in X
      BY <1>3 DEF X
    <3>3. PathOf(k) = Append(p, m)
      BY <1>2
    <3> HIDE DEF p, m
    <3>4. Len(Append(p, m)) = Len(p) + 1 /\ Len(p) \in Nat
      BY <3>1, <3>2, AppendProperties, LenProperties
    <3>5. Len(<<>>) = 0
      OBVIOUS
    <3>6. QED
      BY <3>3, <3>4, <3>5
  <2>3. QED
    BY <1>1, <1>3, <2>1, <2>2
<1>11. \A d \in 0..R.max : \A x \in at[d] : Len(x[1]) = d
  BY <1>0, <1>1, <1>8, PathLengths
<1>12. ASSUME st = <<>>, HasAll(R, W, names), NEW x \in names
       PROVE  \/ \E k \in 1..n : PathOf(k) = x[1] /\ src[k] = x[2]
              \/ R.lossy /\ Len(x[1]) = R.max /\ R.dir[x[2]]
  <2>1. HoldsAll(R, W, at)
    BY <1>8, <1>12 DEF HoldsAll, HasAll, AllLevels
  <2>2. AllThere(R, nodes, P, src, level, at)
    BY <1>4, <1>5, <1>8, <1>12, <2>1, BuiltComplete
  <2>3. PICK d \in 0..R.max : x \in at[d]
    BY <1>8, <1>12 DEF AllLevels
  <2>4. Len(x[1]) = d
    BY <1>11, <2>3
  <2>5. IsThere(nodes, P, src, level, x, d) \/ (R.lossy /\ d = R.max /\ R.dir[x[2]])
    BY <2>2, <2>3 DEF AllThere
  <2>6. QED
    BY <1>7, <2>4, <2>5 DEF IsThere, n
<1>13. \A k \in 1..n : src[k] \in R.fine /\ (PathOf(k) # <<>> => k \in 2..n)
  BY <1>1, <1>2
<1>14. st = <<>> /\ ~R.lossy /\ HasAll(R, W, names) => AllNamed(R, src, names)
  BY <1>12, <1>13 DEF AllNamed, n
<1>15. st = <<>> /\ HasAll(R, W, names) => MostNamed(R, src, names)
  <2>1. ASSUME st = <<>>, HasAll(R, W, names), NEW x \in names, x[1] # <<>>
        PROVE  \/ R.lossy /\ Len(x[1]) = R.max /\ R.dir[x[2]]
               \/ \E k \in 2..n : PathOf(k) = x[1] /\ src[k] = x[2]
    <3>1. CASE R.lossy /\ Len(x[1]) = R.max /\ R.dir[x[2]]
      BY <3>1
    <3>2. CASE \E k \in 1..n : PathOf(k) = x[1] /\ src[k] = x[2]
      <4>1. PICK k \in 1..n : PathOf(k) = x[1] /\ src[k] = x[2]
        BY <3>2
      <4>2. k \in 2..n
        BY <1>13, <2>1, <4>1
      <4>3. QED
        BY <4>1, <4>2
    <3>3. QED
      BY <1>12, <2>1, <3>1, <3>2
  <2>2. QED
    BY <2>1 DEF MostNamed, n
<1>16. AsDeep(level)
  <2>1. ASSUME NEW k \in 1..n PROVE Len(PathOf(k)) = level[k]
    <3> DEFINE own == << P[k], src[k] >>
    <3>1. level[k] \in 0..R.max /\ own \in at[level[k]] /\ own[1] = PathOf(k)
      BY <1>7, <1>9
    <3> HIDE DEF own
    <3>2. QED
      BY <1>11, <3>1
  <2>2. QED
    BY <2>1 DEF AsDeep, n
<1>17. QED
  BY <1>1, <1>10, <1>14, <1>15, <1>16 DEF n, NodesAre

(* The entry a reader has come to, with a path as long as it is deep.      *)
LEMMA EntryIsThere ==
  ASSUME NEW R, IsReading(R), NEW ns, NEW st, NEW src, NEW level,
         Built(R, ns, st, src, level), Len(st) > R.off, Last(st).entries # <<>>,
         Head(Last(st).entries) \in R.keep, Len(st) - R.off <= R.max,
         NEW W, IsCover(R, W), NEW named
  PROVE  \E x \in NamesBelow(R.root, W, named, R.max) :
           Len(x[1]) = Len(st) - R.off /\ x[2] = R.key[Head(Last(st).entries)]
<1> DEFINE X == { named[e] : e \in R.sources }
           d == Len(st) - R.off
           e == R.key[Head(Last(st).entries)]
<1>1. /\ R.root \in R.sources /\ R.max \in Nat
      /\ W \in [R.sources -> SUBSET R.sources]
      /\ \A f \in R.sources : R.in[f] \subseteq W[f]
  BY DEF IsReading, IsCover
<1>2. NamedIn(X, R.sources, W, named) /\ \A f \in R.sources : named[f] \in X
  BY <1>1 DEF NamedIn
<1> HIDE DEF X
<1>3. PICK at : /\ IsBelow(at, R.root, W, named, R.max, R.sources, X)
                /\ NamesBelow(R.root, W, named, R.max) = AllLevels(at, R.max)
  <2>1. HasLevels(R.root, W, named, R.max, R.sources, X)
    BY <1>1, <1>2, LevelsBelow
  <2>2. QED
    BY <2>1 DEF HasLevels
<1>4. (\E p : << p, e >> \in at[d]) /\ d \in 0..R.max
  BY <1>1, <1>2, <1>3, EntryBelow
<1>5. PICK p : << p, e >> \in at[d]
  BY <1>4
<1> DEFINE x == << p, e >>
<1>6. x \in at[d] /\ x[1] = p /\ x[2] = e
  BY <1>5
<1> HIDE DEF x, d, e
<1>7. Len(x[1]) = d
  BY <1>1, <1>3, <1>4, <1>6, PathLengths
<1>8. x \in NamesBelow(R.root, W, named, R.max)
  BY <1>3, <1>4, <1>6 DEF AllLevels
<1>9. QED
  BY <1>6, <1>7, <1>8 DEF d, e

(* What is below is of the same kind as the root.                           *)
LEMMA NamesAreThere ==
  ASSUME NEW S, NEW root, root \in S, NEW in, in \in [S -> SUBSET S], NEW named,
         NEW depth, depth \in Nat
  PROVE  /\ \A x \in NamesBelow(root, in, named, depth) : x[2] \in S
         /\ \A x \in NamesBelow(root, in, named, depth) : x = << x[1], x[2] >>
<1> DEFINE X == { named[e] : e \in S }
<1>1. NamedIn(X, S, in, named)
  BY DEF NamedIn
<1> HIDE DEF X
<1>2. HasLevels(root, in, named, depth, S, X)
  BY <1>1, LevelsBelow
<1>3. PICK at : IsBelow(at, root, in, named, depth, S, X)
                /\ NamesBelow(root, in, named, depth) = AllLevels(at, depth)
  BY <1>2 DEF HasLevels
<1>4. \A d \in 0..depth : at[d] \subseteq Seq(X) \X S
  BY <1>3 DEF IsBelow
<1>5. \A d \in 0..depth : \A x \in at[d] : x[2] \in S /\ x = << x[1], x[2] >>
  BY <1>4
<1>6. QED
  BY <1>3, <1>5 DEF AllLevels

-----------------------------------------------------------------------------
(* What the tree of a disc holds.                                          *)
LEMMA FoundKinds == found \in IsoFound => found \notin UdfFound
<1> SUFFICES ASSUME found \in IsoFound, found \in UdfFound PROVE FALSE
  OBVIOUS
<1>1. DOMAIN found = {"type", "root", "rock"}
  BY DEF IsoFound
<1>2. DOMAIN found = {"start", "icb"}
  BY DEF UdfFound
<1>3. "rock" \in {"type", "root", "rock"} /\ "rock" \notin {"start", "icb"}
  OBVIOUS
<1>4. QED
  BY <1>1, <1>2, <1>3

(* The records of a directory, as a reading has them and as they are.      *)
DiscNamesIn == [r \in Record |-> { e \in InDirectory(r) : InTree(e) }]
LEMMA IsoNames ==
  ASSUME IsImage(image), image.kind = "disc", found \in IsoFound
  PROVE  /\ DiscNamesIn \in [Record -> SUBSET Record]
         /\ \A r \in Record : /\ IsoReading.in[r] \subseteq DiscNamesIn[r]
                              /\ (r.dir /\ AllFit(InDirectory(r))) \/ ~r.dir =>
                                   DiscNamesIn[r] \subseteq IsoReading.in[r]
         /\ DiscNames(NameOf, InTree)
              = NamesBelow(DiscRoot, DiscNamesIn, IsoReading.name, CallDepth)
<1>1. ASSUME NEW r \in Record
      PROVE  /\ { e \in InDirectory(r) : InTree(e) } \in SUBSET Record
             /\ IsoReading.in[r] \subseteq { e \in InDirectory(r) : InTree(e) }
             /\ (r.dir /\ AllFit(InDirectory(r))) \/ ~r.dir =>
                  { e \in InDirectory(r) : InTree(e) } \subseteq IsoReading.in[r]
  <2>1. InDirectory(r) \subseteq Record
    <3>1. \A s : ToSet(RecordsIn(s)) \subseteq Record
      BY DiscFacts, ElementsOf
    <3>2. QED
      BY <3>1 DEF InDirectory
  <2>2. IsoReading.in[r]
          = IF r.dir THEN { e \in ToSet(Listing(r)) : NameOf(e) \notin Dots } ELSE {}
    BY IsoReadingFacts
  <2>3. r.dir => /\ ToSet(Listing(r)) \subseteq { e \in InDirectory(r) : e.sound }
                 /\ AllFit(InDirectory(r))
                      => ToSet(Listing(r)) = { e \in InDirectory(r) : e.sound }
    BY ListingFacts
  <2>4. \A e : e.id = <<>> \/ e.parent => NameOf(e) \in Dots
    BY DEF NameOf, PlainName, Dots
  <2>5. \A e : e.sound /\ NameOf(e) \notin Dots <=> InTree(e) /\ e.sound
    <3>1. \A e : e.parent \/ ~e.parent
      OBVIOUS
    <3>2. QED
      BY <2>4, <3>1 DEF InTree, IsOwn
  <2>6. \A e : InTree(e) => e.sound /\ NameOf(e) \notin Dots
    BY DEF InTree, IsOwn
  <2>7. ~r.dir => InDirectory(r) = {}
    BY DEF InDirectory
  <2>8. IsoReading.in[r] \subseteq { e \in InDirectory(r) : InTree(e) }
    BY <2>2, <2>3, <2>5
  <2>9. (r.dir /\ AllFit(InDirectory(r))) \/ ~r.dir =>
          { e \in InDirectory(r) : InTree(e) } \subseteq IsoReading.in[r]
    BY <2>2, <2>3, <2>6, <2>7
  <2>10. QED
    BY <2>1, <2>8, <2>9
<1>2. IsoReading.name = [e \in Record |-> NameOf(e)]
  BY DEF IsoReading
<1>3. DiscNames(NameOf, InTree)
        = NamesBelow(DiscRoot, DiscNamesIn, IsoReading.name, CallDepth)
  BY <1>2 DEF DiscNames, DiscNamesIn
<1>4. QED
  BY <1>1, <1>3 DEF DiscNamesIn

LEMMA IsoTreeHolds == DiscInv => IsoTreeIsTheDisc
<1> SUFFICES ASSUME DiscInv, result = "Ok", ByIso PROVE IsoTreeIsTheDisc
  BY DEF IsoTreeIsTheDisc
<1> DEFINE R == IsoReading
           disc == DiscNames(NameOf, InTree)
           directories == { x[2] : x \in { y \in disc : y[2].dir } }
<1>1. /\ image.kind = "disc" /\ found \in IsoFound /\ IsImage(image)
      /\ IsoOpen /\ stack = <<>>
  BY FoundKinds DEF DiscInv, ByIso, IsoOpen, UdfOpen
<1>2. PICK src, level : Built(R, nodes, stack, src, level)
  BY <1>1 DEF IsoOpen, IsBuilt
<1>3. /\ IsReading(R) /\ R.sources = Record /\ R.root = DiscRoot /\ R.max = CallDepth
      /\ ~R.lossy /\ DiscRoot \in Record /\ CallDepth \in Nat
      /\ \A r \in Record :
           /\ r \in R.fine <=> (r.dir => InImage(r.extent, r.length))
           /\ R.name[r] = NameOf(r) /\ R.dir[r] = r.dir
           /\ R.location[r] = IF r.dir THEN None ELSE r.extent
  BY <1>1, IsoReadingFacts DEF IsoOpen
<1>4. /\ DiscNamesIn \in [Record -> SUBSET Record]
      /\ \A r \in Record : /\ R.in[r] \subseteq DiscNamesIn[r]
                           /\ (r.dir /\ AllFit(InDirectory(r))) \/ ~r.dir =>
                                DiscNamesIn[r] \subseteq R.in[r]
      /\ disc = NamesBelow(DiscRoot, DiscNamesIn, R.name, CallDepth)
  BY <1>1, IsoNames
<1> HIDE DEF R, disc
<1>20. IsCover(R, DiscNamesIn) /\ SameNames(R, DiscNamesIn, R.name)
  BY <1>3, <1>4 DEF IsCover, SameNames
<1>21. NodesAre(R, src, disc) /\ (HasAll(R, DiscNamesIn, disc) => AllNamed(R, src, disc))
  <2>1. disc = NamesBelow(R.root, DiscNamesIn, R.name, R.max)
    BY <1>3, <1>4
  <2>2. QED
    BY <1>1, <1>2, <1>3, <1>20, <2>1, NamesAreNodes
<1>5. /\ \A k \in 2..Len(nodes) :
           /\ src[k] \in Record /\ PathOf(k) # <<>> /\ << PathOf(k), src[k] >> \in disc
           /\ nodes[k].is_directory = R.dir[src[k]]
           /\ nodes[k].location = R.location[src[k]]
      /\ (\A x \in disc : DiscNamesIn[x[2]] \subseteq R.in[x[2]]) =>
           \A x \in disc :
             /\ x[2] \in R.fine
             /\ x[1] # <<>> => \E k \in 2..Len(nodes) : PathOf(k) = x[1] /\ src[k] = x[2]
  BY <1>3, <1>21 DEF NodesAre, AllNamed, HasAll
<1>6. \A x \in disc : x[2] \in Record
  BY <1>3, <1>4, NamesAreThere
<1>7. SUFFICES ASSUME AllFit(UNION { InDirectory(d) : d \in directories })
      PROVE  /\ \A d \in directories : InImage(d.extent, d.length)
             /\ TreeOf(LAMBDA k : << PathOf(k), nodes[k].is_directory, nodes[k].location >>)
                  = { << x[1], x[2].dir, IF x[2].dir THEN None ELSE x[2].extent >> :
                        x \in { y \in disc : y[1] # <<>> } }
  BY DEF IsoTreeIsTheDisc, disc
<1>8. \A x \in disc : DiscNamesIn[x[2]] \subseteq R.in[x[2]]
  <2>1. ASSUME NEW x \in disc, x[2].dir PROVE AllFit(InDirectory(x[2]))
    BY <1>7, <2>1 DEF AllFit
  <2>2. QED
    BY <1>4, <1>6, <2>1
<1>9. \A d \in directories : InImage(d.extent, d.length)
  BY <1>3, <1>5, <1>6, <1>8
<1> DEFINE Of(x) == << x[1], x[2].dir, IF x[2].dir THEN None ELSE x[2].extent >>
           Tree == { << PathOf(k), nodes[k].is_directory, nodes[k].location >> : k \in 2..Len(nodes) }
           Disc == { Of(x) : x \in { y \in disc : y[1] # <<>> } }
<1>10. ASSUME NEW k \in 2..Len(nodes)
       PROVE  << PathOf(k), nodes[k].is_directory, nodes[k].location >>
                = Of(<< PathOf(k), src[k] >>)
  BY <1>3, <1>5
<1>11. Tree \subseteq Disc
  <2>1. ASSUME NEW k \in 2..Len(nodes)
        PROVE  << PathOf(k), nodes[k].is_directory, nodes[k].location >> \in Disc
    <3> DEFINE x == << PathOf(k), src[k] >>
    <3>1. x \in disc /\ x[1] # <<>>
      BY <1>5
    <3>2. << PathOf(k), nodes[k].is_directory, nodes[k].location >> = Of(x)
      BY <1>10
    <3> HIDE DEF x, Of
    <3>3. QED
      BY <3>1, <3>2
  <2>2. QED
    BY <2>1
<1>12. Disc \subseteq Tree
  <2>1. ASSUME NEW x \in disc, x[1] # <<>> PROVE Of(x) \in Tree
    <3>1. PICK k \in 2..Len(nodes) : PathOf(k) = x[1] /\ src[k] = x[2]
      BY <1>5, <1>8, <2>1
    <3>2. << PathOf(k), nodes[k].is_directory, nodes[k].location >>
            = Of(<< PathOf(k), src[k] >>)
      BY <1>10
    <3>3. Of(<< PathOf(k), src[k] >>) = Of(x)
      BY <3>1
    <3> HIDE DEF Of
    <3>4. QED
      BY <3>2, <3>3
  <2> HIDE DEF Of, Tree
  <2>2. QED
    BY <2>1
<1>13. Tree = Disc
  BY <1>11, <1>12
<1>14. TreeOf(LAMBDA k : << PathOf(k), nodes[k].is_directory, nodes[k].location >>) = Tree
  BY DEF TreeOf
<1> HIDE DEF Tree
<1>15. QED
  BY <1>9, <1>13, <1>14

(* The identifiers of a directory, as a reading has them and as they are.  *)
VolumeNamesIn == [f \in UdfSources |-> InVolumeDirectory(f)]
LEMMA UdfNames ==
  ASSUME IsImage(image), image.kind = "disc", found \in UdfFound
  PROVE  /\ VolumeNamesIn \in [UdfSources -> SUBSET UdfSources]
         /\ \A f \in UdfSources : /\ UdfReading.in[f] \subseteq VolumeNamesIn[f]
                                  /\ VolumeNamesIn[f] \subseteq Fid
                                  /\ NoneIsBad => VolumeNamesIn[f] \subseteq UdfReading.in[f]
         /\ VolumeNames
              = NamesBelow(VolumeRootFile, VolumeNamesIn, UdfReading.name, CallDepth)
<1>1. ASSUME NEW f \in UdfSources
      PROVE  /\ InVolumeDirectory(f) \subseteq Fid
             /\ UdfReading.in[f] \subseteq InVolumeDirectory(f)
             /\ NoneIsBad => InVolumeDirectory(f) \subseteq UdfReading.in[f]
  <2>1. UdfReading.in[f] = Shown(f) /\ f.dir \in BOOLEAN /\ f.icb \in Nat /\ found.start \in Nat
    BY UdfReadingFacts, UdfSourceFacts
  <2>2. CASE ~f.dir \/ ~CanList(found.start, f.icb)
    BY <2>1, <2>2 DEF InVolumeDirectory, Shown
  <2>3. CASE f.dir /\ CanList(found.start, f.icb)
    <3> DEFINE c == Sector(found.start + f.icb)
               all == FidsOf(found.start, f.icb)
               ids == ToSet(Identifiers(found.start, f.icb))
    <3>1. CanAllocate(found.start + f.icb)
      BY <2>3 DEF CanList
    <3>2. ids \subseteq all /\ (NoneIsBad => ids = all)
      BY <2>1, <3>1, IdentifierFacts
    <3>3. all \subseteq Fid
      <4>1. AllFids(found.start, f.icb) \in Seq(Fid)
            /\ ToSet(AllFids(found.start, f.icb)) = all
        BY <2>1, <3>1, AllFidsFacts
      <4>2. QED
        BY <4>1, ElementsOf
    <3>4. InVolumeDirectory(f)
            = { g \in all : ~g.blank /\ ~g.deleted /\ ~g.parent /\ GivenUdfName(g) # <<>> }
      BY <2>3 DEF InVolumeDirectory, FidsOf, Within
    <3>5. Shown(f) = { g \in ids : ~Hidden(g) }
      BY <2>3 DEF Shown
    <3>6. \A g : ~Hidden(g) <=> ~g.blank /\ ~g.deleted /\ ~g.parent /\ GivenUdfName(g) # <<>>
      BY DEF Hidden
    <3> HIDE DEF all, ids
    <3>7. QED
      BY <2>1, <3>2, <3>3, <3>4, <3>5, <3>6
  <2>4. QED
    BY <2>1, <2>2, <2>3
<1>2. Fid \subseteq UdfSources /\ \A f \in UdfSources : VolumeNamesIn[f] = InVolumeDirectory(f)
  BY DEF UdfSources, VolumeNamesIn
<1>3. VolumeNamesIn \in [UdfSources -> SUBSET UdfSources]
  BY <1>1, <1>2 DEF VolumeNamesIn
<1>4. UdfReading.name = [f \in Fid |-> GivenUdfName(f)]
  BY DEF UdfReading
<1>5. VolumeNames
        = NamesBelow(VolumeRootFile, VolumeNamesIn, UdfReading.name, CallDepth)
  BY <1>4 DEF VolumeNames, VolumeNamesIn, UdfSources
<1>6. QED
  BY <1>1, <1>2, <1>3, <1>5

LEMMA UdfTreeHolds == DiscInv => UdfTreeIsTheVolume
<1> SUFFICES ASSUME DiscInv, result = "Ok", ByUdf PROVE UdfTreeIsTheVolume
  BY DEF UdfTreeIsTheVolume
<1> DEFINE R == UdfReading
           Of(x) == << x[1], x[2].dir >>
           Tree == { << PathOf(k), nodes[k].is_directory >> : k \in 2..Len(nodes) }
           Disc == { Of(x) : x \in { y \in VolumeNames : y[1] # <<>> } }
<1>1. /\ image.kind = "disc" /\ found \in UdfFound /\ IsImage(image)
      /\ UdfOpen /\ stack = <<>>
  BY FoundKinds DEF DiscInv, ByUdf, IsoOpen, UdfOpen
<1>2. PICK src, level : Built(R, nodes, stack, src, level)
  BY <1>1 DEF UdfOpen, IsBuilt
<1>3. /\ IsReading(R) /\ R.sources = UdfSources /\ R.root = VolumeRootFile
      /\ R.max = CallDepth /\ ~R.lossy /\ VolumeRootFile \in UdfSources /\ CallDepth \in Nat
      /\ \A f \in UdfSources : R.dir[f] = f.dir
  BY <1>1, UdfReadingFacts
<1>4. /\ VolumeNamesIn \in [UdfSources -> SUBSET UdfSources]
      /\ \A f \in UdfSources : /\ R.in[f] \subseteq VolumeNamesIn[f]
                               /\ NoneIsBad => VolumeNamesIn[f] \subseteq R.in[f]
      /\ VolumeNames = NamesBelow(VolumeRootFile, VolumeNamesIn, R.name, CallDepth)
  BY <1>1, UdfNames
<1> HIDE DEF R
<1>5. IsCover(R, VolumeNamesIn) /\ SameNames(R, VolumeNamesIn, R.name)
  BY <1>3, <1>4 DEF IsCover, SameNames
<1>6. /\ NodesAre(R, src, VolumeNames)
      /\ HasAll(R, VolumeNamesIn, VolumeNames) => AllNamed(R, src, VolumeNames)
  <2>1. VolumeNames = NamesBelow(R.root, VolumeNamesIn, R.name, R.max)
    BY <1>3, <1>4
  <2>2. QED
    BY <1>1, <1>2, <1>3, <1>5, <2>1, NamesAreNodes
<1>7. SUFFICES ASSUME NoneIsBad PROVE Tree = Disc
  <2>1. TreeOf(LAMBDA k : << PathOf(k), nodes[k].is_directory >>) = Tree
    BY DEF TreeOf
  <2> HIDE DEF Tree
  <2>2. QED
    BY <2>1 DEF UdfTreeIsTheVolume, NoneIsBad
<1>8. \A x \in VolumeNames : x[2] \in UdfSources
  BY <1>3, <1>4, NamesAreThere
<1>9. HasAll(R, VolumeNamesIn, VolumeNames)
  BY <1>4, <1>7, <1>8 DEF HasAll
<1>10. ASSUME NEW k \in 2..Len(nodes)
       PROVE  /\ << PathOf(k), nodes[k].is_directory >> = Of(<< PathOf(k), src[k] >>)
              /\ << PathOf(k), src[k] >> \in VolumeNames /\ PathOf(k) # <<>>
  BY <1>3, <1>6 DEF NodesAre
<1>11. Tree \subseteq Disc
  <2>1. ASSUME NEW k \in 2..Len(nodes)
        PROVE  << PathOf(k), nodes[k].is_directory >> \in Disc
    <3> DEFINE x == << PathOf(k), src[k] >>
    <3>1. x \in VolumeNames /\ x[1] # <<>>
      BY <1>10
    <3>2. << PathOf(k), nodes[k].is_directory >> = Of(x)
      BY <1>10
    <3> HIDE DEF x, Of
    <3>3. QED
      BY <3>1, <3>2
  <2>2. QED
    BY <2>1
<1>12. Disc \subseteq Tree
  <2>1. ASSUME NEW x \in VolumeNames, x[1] # <<>> PROVE Of(x) \in Tree
    <3>1. PICK k \in 2..Len(nodes) : PathOf(k) = x[1] /\ src[k] = x[2]
      BY <1>6, <1>9, <2>1 DEF AllNamed
    <3>2. << PathOf(k), nodes[k].is_directory >> = Of(<< PathOf(k), src[k] >>)
      BY <1>10
    <3>3. Of(<< PathOf(k), src[k] >>) = Of(x)
      BY <3>1
    <3> HIDE DEF Of
    <3>4. QED
      BY <3>2, <3>3
  <2> HIDE DEF Of, Tree
  <2>2. QED
    BY <2>1
<1>13. QED
  BY <1>11, <1>12

(* Only the readers of a disc have no limit of their own.                  *)
AbortInv == result = "Abort" => image.kind = "disc"
LEMMA AbortSteps ==
  ASSUME AbortInv, [Next]_vars
  PROVE  AbortInv'
<1>1. image' = image
  BY OwnSteps
<1>2. Return => result' \in {result, "Ok"}
  BY DEF Return, Stop
<1>3. CASE image.kind = "disc"
  BY <1>1, <1>3 DEF AbortInv
<1>4. CASE image.kind = "ntfs" /\ NtfsNext
  <2>1. result' \in {result, "Ok", "Err", "Panic"}
    BY <1>2, <1>4 DEF NtfsNext, NtfsDetect, NtfsUnprobed, BadBoot, ReadBoot, ReadError,
       RecordPanics, KeepRecord, PassRecord, BuildTree, NtfsFile, NtfsDirectory, NtfsTooDeep, NtfsReturn, Stop, Goto
  <2>2. QED
    BY <1>1, <2>1 DEF AbortInv
<1>5. CASE image.kind = "squash" /\ SquashNext
  <2>1. result' \in {result, "Ok", "Err"}
    BY <1>2, <1>5 DEF SquashNext, SquashDetect, SquashUnprobed, BadSuper, ReadSuper,
       SquashFails, SquashDirectory, SquashFile, SquashOther, SquashReturn, Stop, Goto
  <2>2. QED
    BY <1>1, <2>1 DEF AbortInv
<1>6. CASE image.kind = "disk" /\ DiskNext
  <2>1. result' \in {result, "Ok", "Err"}
    BY <1>6 DEF DiskNext, GptTree, GptError, NoGpt, MbrTree, MbrError, WholeImage,
       Refuse, Answer, Stop, Goto
  <2>2. QED
    BY <1>1, <2>1 DEF AbortInv
<1>7. CASE image.kind = "container" /\ ContainerNext
  <2>1. result' \in {result, "Ok", "Err"}
    BY <1>7 DEF ContainerNext, Detect, Unprobed, ParseHeaders, RefuseHeaders,
       Refuse, Answer, Stop, Goto
  <2>2. QED
    BY <1>1, <2>1 DEF AbortInv
<1>8. CASE UNCHANGED vars
  BY <1>1, <1>8 DEF AbortInv, vars
<1>9. QED
  BY <1>3, <1>4, <1>5, <1>6, <1>7, <1>8, OwnSteps

(* What uses up the stack is a directory as deep as the stack allows.      *)
LEMMA DeepHolds == DiscInv /\ AbortInv => OnlyDeepDiscsAbort
<1> SUFFICES ASSUME DiscInv, AbortInv, result = "Abort" PROVE GoesTooDeep
  BY DEF OnlyDeepDiscsAbort
<1>1. /\ image.kind = "disc" /\ IsImage(image)
      /\ (IsoOpen /\ AtDepth(IsoReading)) \/ (UdfOpen /\ AtDepth(UdfReading))
  BY DEF AbortInv, DiscInv
<1>2. ASSUME NEW R, IsReading(R), R.off = 0, R.max = CallDepth, CallDepth \in Nat \ {0},
             IsBuilt(R, nodes, stack), AtDepth(R), NEW W, IsCover(R, W), NEW named
      PROVE  \E x \in NamesBelow(R.root, W, named, R.max) :
               Len(x[1]) = CallDepth /\ R.dir[x[2]]
  <2>1. PICK src, level : Built(R, nodes, stack, src, level)
    BY <1>2 DEF IsBuilt
  <2>2. /\ Last(stack).entries # <<>> /\ Head(Last(stack).entries) \in R.keep
        /\ Len(stack) = CallDepth /\ R.dir[R.key[Head(Last(stack).entries)]]
    BY <1>2 DEF AtDepth, Busy, Entry, Top
  <2>3. Len(stack) > R.off /\ Len(stack) - R.off <= R.max /\ Len(stack) - R.off = CallDepth
    BY <1>2, <2>2
  <2>4. PICK x \in NamesBelow(R.root, W, named, R.max) :
          Len(x[1]) = Len(stack) - R.off /\ x[2] = R.key[Head(Last(stack).entries)]
    BY <1>2, <2>1, <2>2, <2>3, EntryIsThere
  <2>5. QED
    BY <2>2, <2>3, <2>4
<1>3. CASE IsoOpen /\ AtDepth(IsoReading)
  <2> DEFINE R == IsoReading
  <2>1. /\ IsReading(R) /\ R.sources = Record /\ R.root = DiscRoot /\ R.max = CallDepth
        /\ R.off = 0 /\ DiscRoot \in Record /\ CallDepth \in Nat \ {0}
        /\ \A r \in Record : R.dir[r] = r.dir
    BY <1>1, <1>3, IsoReadingFacts DEF IsoOpen
  <2>2. /\ DiscNamesIn \in [Record -> SUBSET Record]
        /\ \A r \in Record : R.in[r] \subseteq DiscNamesIn[r]
        /\ DiscNames(NameOf, InTree) = NamesBelow(DiscRoot, DiscNamesIn, R.name, CallDepth)
    BY <1>1, <1>3, IsoNames DEF IsoOpen
  <2>3. IsBuilt(R, nodes, stack) /\ AtDepth(R) /\ ByIso
    BY <1>1, <1>3 DEF IsoOpen, ByIso
  <2> HIDE DEF R
  <2>4. IsCover(R, DiscNamesIn)
    BY <2>1, <2>2 DEF IsCover
  <2>5. PICK x \in NamesBelow(R.root, DiscNamesIn, R.name, R.max) :
          Len(x[1]) = CallDepth /\ R.dir[x[2]]
    BY <1>2, <2>1, <2>3, <2>4
  <2>6. x \in DiscNames(NameOf, InTree)
    BY <2>1, <2>2, <2>5
  <2>7. x[2] \in Record
    BY <2>1, <2>2, <2>6, NamesAreThere
  <2>8. x[2].dir
    BY <2>1, <2>5, <2>7
  <2>9. QED
    BY <2>3, <2>5, <2>6, <2>8 DEF GoesTooDeep
<1>4. CASE UdfOpen /\ AtDepth(UdfReading)
  <2> DEFINE R == UdfReading
  <2>1. /\ IsReading(R) /\ R.sources = UdfSources /\ R.root = VolumeRootFile
        /\ R.max = CallDepth /\ R.off = 0 /\ VolumeRootFile \in UdfSources
        /\ CallDepth \in Nat \ {0}
        /\ \A f \in UdfSources : R.dir[f] = f.dir
    BY <1>1, <1>4, UdfReadingFacts DEF UdfOpen
  <2>2. /\ VolumeNamesIn \in [UdfSources -> SUBSET UdfSources]
        /\ \A f \in UdfSources : R.in[f] \subseteq VolumeNamesIn[f]
        /\ VolumeNames = NamesBelow(VolumeRootFile, VolumeNamesIn, R.name, CallDepth)
    BY <1>1, <1>4, UdfNames DEF UdfOpen
  <2>3. IsBuilt(R, nodes, stack) /\ AtDepth(R) /\ ByUdf
    BY <1>1, <1>4 DEF UdfOpen, ByUdf
  <2> HIDE DEF R
  <2>4. IsCover(R, VolumeNamesIn)
    BY <2>1, <2>2 DEF IsCover
  <2>5. PICK x \in NamesBelow(R.root, VolumeNamesIn, R.name, R.max) :
          Len(x[1]) = CallDepth /\ R.dir[x[2]]
    BY <1>2, <2>1, <2>3, <2>4
  <2>6. x \in VolumeNames
    BY <2>1, <2>2, <2>5
  <2>7. x[2] \in UdfSources
    BY <2>1, <2>2, <2>6, NamesAreThere
  <2>8. x[2].dir
    BY <2>1, <2>5, <2>7
  <2>9. QED
    BY <2>3, <2>5, <2>6, <2>8 DEF GoesTooDeep
<1>5. QED
  BY <1>1, <1>3, <1>4

-----------------------------------------------------------------------------
(* The tree of a disc read as ISO 9660 is the one its records describe.    *)
THEOREM IsoTreeIsRight == Spec => []IsoTreeIsTheDisc
<1>1. Init => DiscInv
  BY DiscInit
<1>2. DiscInv /\ [Next]_vars => DiscInv'
  BY DiscSteps
<1>3. DiscInv => IsoTreeIsTheDisc
  BY IsoTreeHolds
<1>4. QED
  BY <1>1, <1>2, <1>3, PTL DEF Spec

(* The tree of a UDF volume has every name of its directories.             *)
THEOREM UdfTreeIsRight == Spec => []UdfTreeIsTheVolume
<1>1. Init => DiscInv
  BY DiscInit
<1>2. DiscInv /\ [Next]_vars => DiscInv'
  BY DiscSteps
<1>3. DiscInv => UdfTreeIsTheVolume
  BY UdfTreeHolds
<1>4. QED
  BY <1>1, <1>2, <1>3, PTL DEF Spec

(* The stack is used up by the depth of a disc's directories alone.        *)
THEOREM AbortsAreDeep == Spec => []OnlyDeepDiscsAbort
<1>1. Init => DiscInv /\ AbortInv
  BY DiscInit DEF Init, Begin, AbortInv
<1>2. DiscInv /\ AbortInv /\ [Next]_vars => (DiscInv /\ AbortInv)'
  BY DiscSteps, AbortSteps
<1>3. DiscInv /\ AbortInv => OnlyDeepDiscsAbort
  BY DeepHolds
<1>4. QED
  BY <1>1, <1>2, <1>3, PTL DEF Spec

(* The root is below itself, at no depth.                                  *)
LEMMA RootIsThere ==
  ASSUME NEW S, NEW root, root \in S, NEW W, W \in [S -> SUBSET S], NEW named,
         NEW depth \in Nat
  PROVE  << <<>>, root >> \in NamesBelow(root, W, named, depth)
<1> DEFINE X == { named[e] : e \in S }
<1>1. NamedIn(X, S, W, named)
  BY DEF NamedIn
<1>2. HasLevels(root, W, named, depth, S, X)
  BY <1>1, LevelsBelow
<1> HIDE DEF X
<1>3. PICK at : IsBelow(at, root, W, named, depth, S, X)
                /\ NamesBelow(root, W, named, depth) = AllLevels(at, depth)
  BY <1>2 DEF HasLevels
<1>4. << <<>>, root >> \in at[0] /\ 0 \in 0..depth
  BY <1>3 DEF IsBelow
<1>5. QED
  BY <1>3, <1>4 DEF AllLevels

-----------------------------------------------------------------------------
(* What the readers know of a file system that is whole by the time they   *)
(* give it up.                                                             *)
Known(s) == [number |-> Sector(s).number, start |-> Sector(s).start]
Seen(tag) == { s \in Sector(Head(Anchors)).location .. (found.sector - 1) : Holds(s, tag) }
Vds == Sector(Head(Anchors)).location
         .. (Sector(Head(Anchors)).location + Sector(Head(Anchors)).length - 1)
Those(tag) == { s \in Vds : Holds(s, tag) }
WholeVds ==
  /\ Vds \subseteq DOMAIN image.sectors /\ Those("td") = {} /\ Cardinality(Those("lvd")) = 1
  /\ \A l \in Those("lvd") : Sector(l).maps = <<>>
VdsScanned ==
  LET anchor == Sector(Head(Anchors))
  IN  /\ found.end = anchor.location + anchor.length
      /\ found.sector \in anchor.location .. found.end
      /\ ToSet(found.partitions) = { Known(p) : p \in Seen("pd") }
      /\ \A l \in Seen("lvd") : found.fsd = Sector(l).fsd
      /\ found.meta = None
HealthInv ==
  image.kind = "disc" =>
    /\ pc \in {"vrs", "vds"} \/ result = "Err" => ~IsoIsWhole
    /\ pc = "vds" => Recognised /\ (WholeVds => VdsScanned)
    /\ result = "Err" => ~UdfIsWhole

(* The reader of ISO 9660 gives up on no disc that is whole.               *)
LEMMA IsoGivesUp ==
  ASSUME DiscInv, image.kind = "disc", BadDisc \/ IsoFails
  PROVE  ~IsoIsWhole
<1> SUFFICES ASSUME IsoIsWhole PROVE FALSE
  OBVIOUS
<1> DEFINE W == [r \in Record |-> { e \in InDirectory(r) : IsOwn(e) }]
           named == [e \in Record |-> e.id]
           Names == NamesBelow(DiscRoot, W, named, CallDepth)
<1>1. /\ IsImage(image) /\ DiscRoot # None /\ DiscRoot.sound /\ CanDetect(DiscRoot)
      /\ \A x \in Names : x[2].dir => InImage(x[2].extent, x[2].length)
  BY DEF DiscInv, IsoIsWhole, DiscNames
<1>2. \A r \in Record : W[r] \in SUBSET Record
  <2>1. \A s : ToSet(RecordsIn(s)) \subseteq Record
    BY <1>1, DiscFacts, ElementsOf
  <2>2. QED
    BY <2>1 DEF InDirectory
<1>3. CASE BadDisc
  <2>1. pc = "descriptors" /\ Scanned /\ ~IsDescriptor
    BY <1>3 DEF BadDisc, At, DiscInv
  <2>2. ChosenRoot(found) = DiscRoot
    BY <1>1, <2>1, ScanEnd
  <2>3. DiscRoot.dir /\ ~InImage(DiscRoot.extent, DiscRoot.length)
    BY <1>1, <1>3, <2>2 DEF BadDisc
  <2>4. DiscRoot \in Record
    BY <1>1, <2>1, <2>2 DEF Scanned, ScanFound, ChosenRoot
  <2>5. W \in [Record -> SUBSET Record]
    BY <1>2
  <2> DEFINE x == << <<>>, DiscRoot >>
  <2> HIDE DEF W, named
  <2>6. x \in Names
    BY <2>4, <2>5, RootIsThere, TreeAssumption
  <2>7. x[2] = DiscRoot
    OBVIOUS
  <2> HIDE DEF x
  <2>8. QED
    BY <1>1, <2>3, <2>6, <2>7
<1>4. CASE IsoFails
  <2> DEFINE R == IsoReading
  <2>1. /\ IsoOpen /\ Busy /\ Entry.dir /\ NameOf(Entry) \notin Dots
        /\ Len(stack) < CallDepth /\ ~InImage(Entry.extent, Entry.length)
    BY <1>4 DEF IsoFails, AtSubdirectory, AtEntry, At, DiscInv
  <2>2. /\ IsReading(R) /\ R.sources = Record /\ R.entries = Record /\ R.root = DiscRoot
        /\ R.max = CallDepth /\ R.off = 0 /\ CallDepth \in Nat
        /\ \A r \in Record : R.key[r] = r /\ (r \in R.keep <=> NameOf(r) \notin Dots)
    BY <1>1, <2>1, IsoReadingFacts DEF IsoOpen
  <2>3. \A r \in Record : R.in[r] \subseteq DiscNamesIn[r]
        /\ DiscNamesIn \in [Record -> SUBSET Record]
    BY <1>1, <2>1, IsoNames DEF IsoOpen
  <2>4. PICK src, level : Built(R, nodes, stack, src, level)
    BY <2>1 DEF IsoOpen, IsBuilt
  <2> HIDE DEF R
  <2>5. Entry \in Record /\ Entry = Head(Last(stack).entries) /\ Last(stack).entries # <<>>
        /\ stack # <<>>
    <3>1. stack \in Seq(FramesOver(Record))
      BY <2>2, <2>4 DEF Built, FramesOpen
    <3>2. stack # <<>> /\ Last(stack).entries # <<>> /\ Entry = Head(Last(stack).entries)
      BY <2>1 DEF Busy, Entry, Top
    <3>3. QED
      BY <3>1, <3>2, DrawnFacts
  <2>6. Len(stack) \in Nat /\ Len(stack) > 0
    <3>1. stack \in Seq(FramesOver(Record))
      BY <2>2, <2>4 DEF Built, FramesOpen
    <3>2. QED
      BY <2>5, <3>1, EmptySeq, LenProperties
  <2>7. IsCover(R, W)
    <3>1. \A r \in Record : DiscNamesIn[r] = { e \in InDirectory(r) : InTree(e) }
      BY DEF DiscNamesIn
    <3>3. \A r \in Record : DiscNamesIn[r] \subseteq W[r]
      BY <3>1 DEF InTree
    <3>4. W \in [Record -> SUBSET Record]
      BY <1>2
    <3> HIDE DEF W
    <3>5. QED
      BY <2>2, <2>3, <3>3, <3>4 DEF IsCover
  <2> HIDE DEF W, named
  <2>8. PICK x \in NamesBelow(R.root, W, named, R.max) :
          Len(x[1]) = Len(stack) - R.off /\ x[2] = R.key[Head(Last(stack).entries)]
    <3>1. Len(stack) > R.off /\ Len(stack) - R.off <= R.max
          /\ Head(Last(stack).entries) \in R.keep
      BY <2>1, <2>2, <2>5, <2>6
    <3>2. IsReading(R) /\ Last(stack).entries # <<>>
      BY <2>2, <2>5
    <3>3. QED
      BY <2>4, <2>7, <3>1, <3>2, EntryIsThere
  <2>9. x \in Names /\ x[2] = Entry
    BY <2>2, <2>5, <2>8
  <2>10. QED
    BY <1>1, <2>1, <2>9
<1>5. QED
  BY <1>3, <1>4

(* What a step through the descriptors adds.                               *)
LEMMA SeenGrows ==
  ASSUME IsImage(image), image.kind = "disc", Anchors # <<>>, image' = image,
         found.sector \in Nat, found.sector >= Sector(Head(Anchors)).location,
         found'.sector = found.sector + 1, NEW tag
  PROVE  Seen(tag)' = Seen(tag) \cup { s \in {found.sector} : Holds(s, tag) }
<1>1. Sector(Head(Anchors)).location \in Nat
  BY AnchorFacts, UdfSectorFacts
<1> DEFINE loc == Sector(Head(Anchors)).location
           k == found.sector
<1>2. Sector(Head(Anchors)).location' = loc
  BY ImageOnly DEF Sector
<1>3. Seen(tag)' = { s \in loc..(k + 1 - 1) : Holds(s, tag) }
  <2>1. Seen(tag)' = { s \in (Sector(Head(Anchors)).location') .. (found'.sector - 1) :
                         Holds(s, tag)' }
    BY DEF Seen
  <2>2. \A s : Holds(s, tag)' = Holds(s, tag)
    BY ImageOnly
  <2>3. QED
    BY <1>2, <2>1, <2>2
<1>4. Seen(tag) = { s \in loc..(k - 1) : Holds(s, tag) }
  BY DEF Seen
<1>5. loc \in Nat /\ k \in Nat /\ k >= loc
  BY <1>1
<1> HIDE DEF loc, k
<1>6. \A s : s \in loc..(k + 1 - 1) <=> s \in loc..(k - 1) \/ s = k
  BY <1>5
<1>7. Seen(tag)' = Seen(tag) \cup { s \in {k} : Holds(s, tag) }
  BY <1>3, <1>4, <1>6
<1>8. QED
  BY <1>7 DEF k

LEMMA VdsScans ==
  ASSUME IsImage(image), image.kind = "disc", image' = image, Recognised, WholeVds,
         FindAnchor \/ (found \in VdsFound /\ ReadVds /\ VdsScanned)
  PROVE  VdsScanned'
<1> DEFINE anchor == Sector(Head(Anchors))
           loc == anchor.location
           end == anchor.location + anchor.length
<1>1. /\ Anchors # <<>> /\ loc \in Nat /\ anchor.length \in Nat /\ end \in Nat /\ end >= loc
  BY AnchorFacts, UdfSectorFacts DEF Recognised
<1>2. /\ Sector(Head(Anchors))' = anchor /\ (\A s : Sector(s)' = Sector(s))
      /\ (\A s : Known(s)' = Known(s))
  <2>1. \A s : Sector(s)' = Sector(s)
    BY DEF Sector
  <2>2. QED
    BY <2>1, ImageOnly DEF Known, Sector
<1>3. SUFFICES /\ found'.end = end /\ found'.sector \in loc .. end
               /\ ToSet(found'.partitions) = { Known(p) : p \in Seen("pd")' }
               /\ \A l \in Seen("lvd")' : found'.fsd = Sector(l).fsd
               /\ found'.meta = None
  <2>1. { Known(p) : p \in Seen("pd") }' = { Known(p) : p \in Seen("pd")' }
    BY <1>2
  <2>2. (\A l \in Seen("lvd") : found.fsd = Sector(l).fsd)'
          <=> \A l \in Seen("lvd")' : found'.fsd = Sector(l).fsd
    BY <1>2
  <2>3. ToSet(found.partitions)' = ToSet(found'.partitions)
    BY DEF ToSet
  <2> HIDE DEF anchor
  <2>4. QED
    BY <1>2, <1>3, <2>1, <2>2, <2>3 DEF VdsScanned
<1>4. CASE FindAnchor
  <2>1. found' = [ sector |-> loc, end |-> end, partitions |-> <<>>, fsd |-> None,
                   meta |-> None ]
    BY <1>4 DEF FindAnchor
  <2>2. \A tag : Seen(tag)' = {}
    <3>1. \A tag : Seen(tag)' = { s \in (Sector(Head(Anchors)).location')
                                          .. (found'.sector - 1) : Holds(s, tag)' }
      BY DEF Seen
    <3>2. Sector(Head(Anchors)).location' = loc /\ found'.sector = loc
      BY <1>2, <2>1
    <3> HIDE DEF loc
    <3>3. loc .. (loc - 1) = {}
      BY <1>1
    <3>4. QED
      BY <3>1, <3>2, <3>3
  <2>3. ToSet(<<>>) = {}
    BY DEF ToSet
  <2> HIDE DEF loc, end
  <2>4. QED
    BY <1>1, <2>1, <2>2, <2>3
<1>5. CASE found \in VdsFound /\ ReadVds /\ VdsScanned
  <2> DEFINE k == found.sector
             c == Sector(k)
  <2>1. /\ k < found.end /\ k \in DOMAIN image.sectors
        /\ found' = CASE c.tag = "pd" -> WithPartition(found, c)
                      [] c.tag = "lvd" -> WithVolume(found, c)
                      [] c.tag = "td" -> [found EXCEPT !.end = found.sector]
                      [] OTHER -> [found EXCEPT !.sector = @ + 1]
    BY <1>5 DEF ReadVds, MoreDescriptors
  <2>2. /\ found.end = end /\ k \in loc..end
        /\ ToSet(found.partitions) = { Known(p) : p \in Seen("pd") }
        /\ \A l \in Seen("lvd") : found.fsd = Sector(l).fsd
        /\ found.meta = None
    BY <1>5 DEF VdsScanned
  <2>3. \A tag : c.tag = tag <=> Holds(k, tag)
    BY <2>1 DEF Holds, Sector
  <2>4. k \in Nat /\ k >= loc /\ k < end /\ k + 1 \in loc..end
    BY <1>1, <2>1, <2>2
  <2>5. k \in Vds
    BY <1>1, <2>4 DEF Vds
  <2>6. c.tag # "td"
    BY <2>3, <2>5 DEF WholeVds, Those
  <2>7. found \in VdsFound /\ found.partitions \in Seq(PartitionType)
    BY <1>5 DEF VdsFound
  <2>8. ASSUME found'.sector = k + 1
        PROVE  /\ Seen("pd")' = IF c.tag = "pd" THEN Seen("pd") \cup {k} ELSE Seen("pd")
               /\ Seen("lvd")' = IF c.tag = "lvd" THEN Seen("lvd") \cup {k} ELSE Seen("lvd")
    <3>1. Seen("pd")' = Seen("pd") \cup { s \in {k} : Holds(s, "pd") }
      BY <1>1, <2>4, <2>8, SeenGrows
    <3>2. Seen("lvd")' = Seen("lvd") \cup { s \in {k} : Holds(s, "lvd") }
      BY <1>1, <2>4, <2>8, SeenGrows
    <3>3. \A tag : { s \in {k} : Holds(s, tag) } = IF c.tag = tag THEN {k} ELSE {}
      BY <2>3
    <3>4. \A S : S \cup {} = S
      OBVIOUS
    <3> HIDE DEF k, c
    <3>5. QED
      BY <3>1, <3>2, <3>3, <3>4
  <2>9. CASE c.tag = "pd"
    <3> DEFINE ps == Append(found.partitions, Known(k))
    <3>1. found' = [found EXCEPT !.sector = k + 1, !.partitions = ps]
      BY <2>1, <2>9 DEF WithPartition, Known
    <3>2. Known(k) \in PartitionType
      BY <2>3, <2>9, UdfSectorFacts DEF Known, PartitionType
    <3>3. ToSet(ps) = ToSet(found.partitions) \cup {Known(k)}
      BY <2>7, <3>2, AppendedSet
    <3> HIDE DEF ps
    <3>4. /\ found'.sector = k + 1 /\ found'.partitions = ps /\ found'.fsd = found.fsd
          /\ found'.end = found.end /\ found'.meta = found.meta
      BY <2>7, <3>1 DEF VdsFound
    <3>5. Seen("pd")' = Seen("pd") \cup {k} /\ Seen("lvd")' = Seen("lvd")
      BY <2>8, <2>9, <3>4
    <3> HIDE DEF loc, end, k
    <3>6. { Known(p) : p \in Seen("pd") \cup {k} } = { Known(p) : p \in Seen("pd") } \cup {Known(k)}
      OBVIOUS
    <3>7. QED
      BY <2>2, <2>4, <3>3, <3>4, <3>5, <3>6
  <2>10. CASE c.tag = "lvd"
    <3> DEFINE m == IF MetaMap(c.maps) = None THEN found.meta ELSE MetaMap(c.maps)
    <3>1. found' = [found EXCEPT !.sector = k + 1, !.fsd = c.fsd, !.meta = m]
      BY <2>1, <2>10 DEF WithVolume
    <3>2. k \in Those("lvd")
      BY <2>3, <2>5, <2>10 DEF Those
    <3>3. c.maps = <<>>
      BY <3>2 DEF WholeVds
    <3>4. MetaMap(<<>>) = None
      BY DEF MetaMap
    <3>5. m = None
      BY <2>2, <3>3, <3>4
    <3> HIDE DEF m
    <3>6. /\ found'.sector = k + 1 /\ found'.partitions = found.partitions
          /\ found'.fsd = c.fsd /\ found'.end = found.end /\ found'.meta = None
      BY <2>7, <3>1, <3>5 DEF VdsFound
    <3>7. Seen("pd")' = Seen("pd") /\ Seen("lvd")' = Seen("lvd") \cup {k}
      BY <2>8, <2>10, <3>6
    <3>8. Seen("lvd") \subseteq Those("lvd")
      <4>1. loc..(k - 1) \subseteq Vds
        BY <1>1, <2>4 DEF Vds
      <4>2. QED
        BY <4>1 DEF Seen, Those
    <3>9. \A l \in Those("lvd") : l = k
      <4>1. DOMAIN image.sectors = 0..(LastSector - 1) /\ LastSector \in Nat
        BY DiscFacts DEF IsImage, LastSector
      <4>2. IsFiniteSet(Those("lvd"))
        <5>1. IsFiniteSet(0..(LastSector - 1)) /\ Those("lvd") \subseteq 0..(LastSector - 1)
          BY <4>1, FS_Interval DEF WholeVds, Those
        <5>2. QED
          BY <5>1, FS_Subset
      <4>3. Cardinality(Those("lvd")) = 1
        BY DEF WholeVds
      <4>4. PICK x : Those("lvd") = {x}
        BY <4>2, <4>3, FS_Singleton
      <4>5. QED
        BY <3>2, <4>4
    <3> HIDE DEF loc, end, k
    <3>10. QED
      BY <2>2, <2>4, <3>6, <3>7, <3>8, <3>9
  <2>11. CASE c.tag \notin {"pd", "lvd", "td"}
    <3>1. found' = [found EXCEPT !.sector = k + 1]
      BY <2>1, <2>11
    <3>2. /\ found'.sector = k + 1 /\ found'.partitions = found.partitions
          /\ found'.fsd = found.fsd /\ found'.end = found.end /\ found'.meta = found.meta
      BY <2>7, <3>1 DEF VdsFound
    <3>3. Seen("pd")' = Seen("pd") /\ Seen("lvd")' = Seen("lvd")
      BY <2>8, <2>11, <3>2
    <3> HIDE DEF loc, end, k
    <3>4. QED
      BY <2>2, <2>4, <3>2, <3>3
  <2>12. QED
    BY <2>6, <2>9, <2>10, <2>11
<1>6. QED
  BY <1>4, <1>5

(* The file set of a volume, and the root there.                           *)
WholeVolume(l) ==
  LET own == { p \in Those("pd") : Sector(p).number = Sector(l).fsd.partition }
  IN  /\ Cardinality(own) = 1
      /\ \A p \in own :
           LET fsd == Sector(p).start + Sector(l).fsd.location
           IN  Holds(fsd, "fsd") /\ CanList(Sector(p).start, Sector(fsd).root)
LEMMA WholeParts ==
  ASSUME UdfIsWhole
  PROVE  Recognised /\ WholeVds /\ \A l \in Those("lvd") : WholeVolume(l)
BY DEF UdfIsWhole, WholeVds, Vds, Those, WholeVolume

LEMMA VolumeFound ==
  ASSUME IsImage(image), image.kind = "disc", found \in VdsFound, UdfIsWhole, VdsScanned,
         found.sector >= found.end
  PROVE  VolumeRoot # None /\ CanList(VolumeRoot.start, VolumeRoot.icb)
<1>1. Recognised /\ WholeVds /\ \A l \in Those("lvd") : WholeVolume(l)
  BY WholeParts
<1> DEFINE anchor == Sector(Head(Anchors))
           loc == anchor.location
           end == anchor.location + anchor.length
<1>2. /\ loc \in Nat /\ anchor.length \in Nat /\ end \in Nat /\ end >= loc
  BY <1>1, AnchorFacts, UdfSectorFacts DEF Recognised
<1>3. /\ found.end = end /\ found.sector \in loc..end
      /\ ToSet(found.partitions) = { Known(p) : p \in Seen("pd") }
      /\ \A l \in Seen("lvd") : found.fsd = Sector(l).fsd
      /\ found.meta = None
  BY DEF VdsScanned
<1>4. found.sector = end
  BY <1>2, <1>3
<1>5. Seen("pd") = Those("pd") /\ Seen("lvd") = Those("lvd")
  <2>1. Vds = loc..(found.sector - 1)
    BY <1>2, <1>4 DEF Vds
  <2>2. \A tag : Seen(tag) = { s \in loc..(found.sector - 1) : Holds(s, tag) }
    BY DEF Seen
  <2> HIDE DEF loc
  <2>3. QED
    BY <2>1, <2>2 DEF Those
<1> HIDE DEF anchor, loc, end
<1>6. IsFiniteSet(DOMAIN image.sectors)
  BY DEF IsImage
<1>7. \A tag : IsFiniteSet(Those(tag))
  BY <1>1, <1>6, FS_Subset DEF WholeVds, Those
<1>8. PICK l : l \in Those("lvd")
  <2>1. Cardinality(Those("lvd")) = 1
    BY <1>1 DEF WholeVds
  <2>2. QED
    BY <1>7, <2>1, FS_Singleton
<1> DEFINE own == { p \in Those("pd") : Sector(p).number = Sector(l).fsd.partition }
<1>9. Cardinality(own) = 1
      /\ \A p \in own :
           LET fsd == Sector(p).start + Sector(l).fsd.location
           IN  Holds(fsd, "fsd") /\ CanList(Sector(p).start, Sector(fsd).root)
  BY <1>1, <1>8 DEF WholeVolume
<1>10. PICK p : own = {p}
  <2>1. IsFiniteSet(own)
    BY <1>7, FS_Subset
  <2>2. QED
    BY <1>9, <2>1, FS_Singleton
<1>11. /\ p \in Those("pd") /\ Sector(p).number = Sector(l).fsd.partition
       /\ \A q \in Those("pd") : Sector(q).number = Sector(l).fsd.partition => q = p
  BY <1>10
<1>12. /\ Holds(Sector(p).start + Sector(l).fsd.location, "fsd")
       /\ CanList(Sector(p).start, Sector(Sector(p).start + Sector(l).fsd.location).root)
  BY <1>9, <1>10
<1> HIDE DEF own
<1>13. /\ Holds(p, "pd") /\ Holds(l, "lvd") /\ Sector(p).start \in Nat
       /\ Sector(l).fsd \in [location : Nat, partition : Nat]
  BY <1>8, <1>11, UdfSectorFacts DEF Those
<1>14. found.fsd = Sector(l).fsd /\ found.fsd # None /\ found.fsd.location \in Nat
  BY <1>3, <1>5, <1>8, <1>13, UdfAssumption
<1>15. PartitionStart = Sector(p).start
  <2> DEFINE n == found.fsd.partition
             ps == found.partitions
             all == Numbered(n) \o ps
  <2>1. ps \in Seq(PartitionType)
    BY DEF VdsFound
  <2>2. Numbered(n) \in Seq(PartitionType) /\ ToSet(Numbered(n)) = { q \in ToSet(ps) : q.number = n }
    BY <2>1, NumberedFacts
  <2>3. ToSet(Numbered(n)) = { Known(p) }
    <3>1. \A q \in Those("pd") : Known(q).number = Sector(q).number
      BY DEF Known
    <3>2. ToSet(ps) = { Known(q) : q \in Those("pd") }
      BY <1>3, <1>5
    <3>3. n = Sector(l).fsd.partition
      BY <1>14
    <3> HIDE DEF n, ps
    <3>4. \A x : x \in ToSet(Numbered(n)) => x = Known(p)
      BY <1>11, <2>2, <3>1, <3>2, <3>3
    <3>5. Known(p) \in ToSet(Numbered(n))
      BY <1>11, <2>2, <3>1, <3>2, <3>3
    <3>6. QED
      BY <3>4, <3>5
  <2> HIDE DEF n, ps
  <2>4. Numbered(n) # <<>>
    <3>1. ToSet(<<>>) = {}
      BY DEF ToSet
    <3>2. QED
      BY <2>3, <3>1
  <2>5. Head(Numbered(n)) = Known(p)
    BY <2>2, <2>3, <2>4, FirstElement
  <2>6. all # <<>> /\ Head(all) = Known(p)
    <3> DEFINE s == Numbered(n)
    <3>1. s \in Seq(PartitionType) /\ s # <<>> /\ Head(s) = Known(p)
      BY <2>2, <2>4, <2>5
    <3> HIDE DEF s
    <3>2. Len(s) \in Nat /\ Len(s) > 0 /\ Head(s) = s[1]
      BY <3>1, EmptySeq, LenProperties, FirstElement
    <3>3. s \o ps \in Seq(PartitionType) /\ Len(s \o ps) = Len(s) + Len(ps)
          /\ \A i \in 1..Len(s) : (s \o ps)[i] = s[i]
      BY <2>1, <3>1, ConcatProperties
    <3>4. Len(ps) \in Nat
      BY <2>1, LenProperties
    <3>5. s \o ps # <<>>
      BY <3>2, <3>3, <3>4, EmptySeq
    <3>6. Head(s \o ps) = (s \o ps)[1]
      BY <3>3, <3>5, FirstElement
    <3>7. QED
      BY <3>1, <3>2, <3>3, <3>5, <3>6 DEF s
  <2>7. PartitionStart = Head(all).start
    BY <1>3, <2>6 DEF PartitionStart, n, ps
  <2>8. Known(p).start = Sector(p).start
    BY DEF Known
  <2> HIDE DEF all
  <2>9. QED
    BY <2>6, <2>7, <2>8
<1> DEFINE at == PartitionStart + found.fsd.location
           here == { i \in 0..FsdWindow : Holds(at + i, "fsd") /\ InImage(at, i) }
           h == CHOOSE i \in here : \A j \in here : i <= j
<1>16. at \in Nat /\ Holds(at, "fsd") /\ CanList(PartitionStart, Sector(at).root)
  BY <1>12, <1>13, <1>14, <1>15
<1>17. FileSet(at) = IF here = {} THEN None ELSE at + h
  BY DEF FileSet
<1> HIDE DEF at
<1>18. FileSet(at) = at
  <2>1. 0 \in here /\ here \subseteq Nat
    <3>1. InImage(at, 0)
      BY <1>16 DEF InImage
    <3>2. at + 0 = at /\ 0 \in 0..FsdWindow /\ 0..FsdWindow \subseteq Nat
      BY <1>16, UdfAssumption
    <3>3. QED
      BY <1>16, <3>1, <3>2
  <2> HIDE DEF here
  <2>2. h \in here /\ h <= 0
    BY <2>1, LeastElement
  <2> HIDE DEF h
  <2>3. h \in Nat
    BY <2>1, <2>2
  <2>4. h = 0
    BY <2>2, <2>3
  <2>5. QED
    BY <1>16, <1>17, <2>1, <2>4
<1>19. VolumeRoot = [start |-> PartitionStart, icb |-> Sector(at).root]
  <2>1. PartitionStart # None /\ at # None
    BY <1>13, <1>15, <1>16, TreeAssumption
  <2>2. at = PartitionStart + found.fsd.location
    BY DEF at
  <2>3. QED
    BY <1>14, <1>18, <2>1, <2>2 DEF VolumeRoot
<1>20. Sector(at).root \in Nat
  BY <1>16, UdfSectorFacts
<1>21. VolumeRoot \in [start : Nat, icb : Nat]
  BY <1>13, <1>15, <1>19, <1>20
<1>22. QED
  BY <1>16, <1>19, <1>21, UdfAssumption

LEMMA HealthSteps ==
  ASSUME DiscInv, HealthInv, [Next]_vars
  PROVE  HealthInv'
<1>1. image' = image
  BY OwnSteps
<1>2. CASE image.kind # "disc"
  BY <1>1, <1>2 DEF HealthInv
<1>3. CASE image.kind = "disc" /\ UNCHANGED vars
  <2>1. /\ IsoIsWhole' = IsoIsWhole /\ UdfIsWhole' = UdfIsWhole
        /\ Recognised' = Recognised
    BY <1>1, ImageOnly
  <2>2. VdsScanned' = VdsScanned /\ WholeVds' = WholeVds
    <3>1. Anchors' = Anchors /\ (\A s, tag : Holds(s, tag)' = Holds(s, tag))
      BY <1>1, ImageOnly
    <3>2. (\A s : Sector(s)' = Sector(s)) /\ (\A s : Known(s)' = Known(s))
      BY <1>1 DEF Known, Sector
    <3>3. Vds' = Vds /\ (\A tag : Those(tag)' = Those(tag)) /\ (\A tag : Seen(tag)' = Seen(tag))
      BY <1>3, <3>1, <3>2 DEF Vds, Those, Seen, vars
    <3>4. QED
      BY <1>3, <3>1, <3>2, <3>3 DEF VdsScanned, WholeVds, vars
  <2>3. QED
    BY <1>3, <2>1, <2>2 DEF HealthInv, vars
<1>4. CASE image.kind = "disc" /\ (IsoNext \/ UdfNext)
  <2>1. /\ IsoIsWhole' = IsoIsWhole /\ UdfIsWhole' = UdfIsWhole
        /\ Recognised' = Recognised
    BY <1>1, ImageOnly
  <2>2. WholeVds' = WholeVds
    <3>1. Anchors' = Anchors /\ (\A s, tag : Holds(s, tag)' = Holds(s, tag))
      BY <1>1, ImageOnly
    <3>2. (\A s : Sector(s)' = Sector(s))
      BY <1>1 DEF Sector
    <3>3. Vds' = Vds /\ (\A tag : Those(tag)' = Those(tag))
      BY <3>1, <3>2 DEF Vds, Those
    <3>4. QED
      BY <1>1, <3>2, <3>3 DEF WholeVds
  <2>3. /\ image.kind = "disc" /\ image'.kind = "disc" /\ IsImage(image)
        /\ pc # "done" => result = "none"
    BY <1>1, <1>4 DEF DiscInv
  <2>4. CASE BadDisc \/ IsoFails
    <3>1. pc' = "vrs" /\ result' = result /\ result = "none" /\ ~IsoIsWhole
      BY <2>3, <2>4, IsoGivesUp DEF BadDisc, IsoFails, AtSubdirectory, AtEntry, At, TryUdf
    <3>2. QED
      BY <2>1, <2>3, <3>1 DEF HealthInv
  <2>5. CASE ReadDescriptor \/ OpenIso \/ IsoPanics \/ IsoSkip \/ IsoFile \/ IsoDirectory
             \/ IsoAborts \/ IsoReturn
    <3>1. /\ pc' \in {"descriptors", "iso", "done"}
          /\ result' \in {"none", "Panic", "Abort", "Ok"}
      BY <2>3, <2>5 DEF ReadDescriptor, OpenIso, IsoPanics, IsoSkip, IsoFile, IsoDirectory,
         IsoAborts, IsoReturn, AtSubdirectory, AtEntry, At, Goto, Stop, Return
    <3>2. QED
      BY <2>3, <3>1 DEF HealthInv
  <2>6. CASE OpenUdf \/ UdfSkip \/ UdfFile \/ UdfDirectory \/ UdfUnreadable \/ UdfAborts
             \/ UdfReturn
    <3>1. /\ pc' \in {"udf", "done"}
          /\ result' \in {"none", "Abort", "Ok"}
      BY <2>3, <2>6 DEF OpenUdf, UdfSkip, UdfFile, UdfDirectory, UdfUnreadable, UdfAborts,
         UdfReturn, AtVolume, AtUdfDirectory, At, Goto, Stop, Return
    <3>2. QED
      BY <2>3, <3>1 DEF HealthInv
  <2>7. CASE NotUdf
    <3>1. pc = "vrs" /\ ~Recognised /\ pc' = "done" /\ result' = "Err"
      BY <2>7 DEF NotUdf, At, Stop
    <3>2. ~UdfIsWhole /\ ~IsoIsWhole
      BY <2>3, <3>1, WholeParts DEF HealthInv
    <3>3. QED
      BY <2>1, <2>3, <3>1, <3>2 DEF HealthInv
  <2>8. CASE FindAnchor \/ ReadVds
    <3>1. /\ pc \in {"vrs", "vds"} /\ Recognised /\ pc' = "vds" /\ result' = "none"
          /\ ~IsoIsWhole
          /\ ReadVds => pc = "vds" /\ found \in VdsFound
      BY <2>3, <2>8 DEF FindAnchor, ReadVds, MoreDescriptors, At, Goto, HealthInv, DiscInv
    <3>2. WholeVds => VdsScanned'
      BY <1>1, <2>3, <2>8, <3>1, VdsScans DEF HealthInv
    <3>3. QED
      BY <2>1, <2>2, <2>3, <3>1, <3>2 DEF HealthInv
  <2>9. CASE VdsFails
    <3>1. /\ pc = "vds" /\ found.sector < found.end /\ found.sector \notin DOMAIN image.sectors
          /\ pc' = "done" /\ result' = "Err" /\ ~IsoIsWhole /\ Recognised
      BY <2>3, <2>9 DEF VdsFails, MoreDescriptors, At, Stop, HealthInv
    <3>2. ~UdfIsWhole
      <4> SUFFICES ASSUME UdfIsWhole PROVE FALSE
        OBVIOUS
      <4>1. WholeVds /\ VdsScanned
        BY <2>3, <3>1, WholeParts DEF HealthInv
      <4> DEFINE anchor == Sector(Head(Anchors))
      <4>2. anchor.location \in Nat /\ anchor.length \in Nat
        BY <2>3, <3>1, AnchorFacts, UdfSectorFacts DEF Recognised
      <4>3. /\ found.end = anchor.location + anchor.length
            /\ found.sector \in anchor.location..found.end
        BY <4>1 DEF VdsScanned
      <4>4. found.sector \in anchor.location..(anchor.location + anchor.length - 1)
        BY <3>1, <4>2, <4>3
      <4>5. QED
        BY <3>1, <4>1, <4>4 DEF WholeVds, Vds
    <3>3. QED
      BY <2>1, <2>3, <3>1, <3>2 DEF HealthInv
  <2>10. CASE BadVolume
    <3>1. /\ pc = "vds" /\ found.sector >= found.end /\ found \in VdsFound
          /\ ~(VolumeRoot # None /\ CanList(VolumeRoot.start, VolumeRoot.icb))
          /\ pc' = "done" /\ result' = "Err" /\ ~IsoIsWhole
      BY <2>3, <2>10 DEF BadVolume, AtVolume, At, Stop, HealthInv, DiscInv
    <3>2. ~UdfIsWhole
      BY <2>3, <3>1, WholeParts, VolumeFound DEF HealthInv
    <3>3. QED
      BY <2>1, <2>3, <3>1, <3>2 DEF HealthInv
  <2>11. QED
    BY <1>4, <2>4, <2>5, <2>6, <2>7, <2>8, <2>9, <2>10 DEF IsoNext, UdfNext
<1>5. QED
  BY <1>2, <1>3, <1>4, OwnSteps

(* What is left of the entries are records of the disc, so that it is one  *)
(* of them that ends the call when a name is too short.                    *)
DiscRecords == UNION { ToSet(RecordsIn(s)) : s \in DOMAIN image.sectors }
PanicInv ==
  image.kind = "disc" =>
    /\ pc = "iso" => stack \in Seq(FramesOver(DiscRecords))
    /\ result \in {"none", "Ok", "Err", "Abort", "Panic"}
    /\ result = "Panic" => NamesShort
LEMMA ListedRecords ==
  ASSUME IsImage(image), image.kind = "disc", NEW r \in Record
  PROVE  (IF r.dir THEN Listing(r) ELSE <<>>) \in Seq(DiscRecords)
<1> SUFFICES ASSUME r.dir PROVE Listing(r) \in Seq(DiscRecords)
  OBVIOUS
<1>1. Listing(r) \in Seq(Record) /\ ToSet(Listing(r)) \subseteq InDirectory(r)
  BY ListingFacts
<1>2. \A s : ToSet(RecordsIn(s)) \subseteq DiscRecords
  <2>1. ASSUME NEW s, s \notin DOMAIN image.sectors PROVE ToSet(RecordsIn(s)) = {}
    BY <2>1 DEF RecordsIn, Holds, ToSet
  <2>2. QED
    BY <2>1 DEF DiscRecords
<1>3. InDirectory(r) \subseteq DiscRecords
  BY <1>2 DEF InDirectory
<1> DEFINE l == Listing(r)
<1> HIDE DEF l
<1>4. \A i \in 1..Len(l) : l[i] \in DiscRecords
  BY <1>1, <1>3, ElementsOf DEF l
<1>5. l \in Seq(DiscRecords)
  BY <1>1, <1>4 DEF l
<1>6. QED
  BY <1>5 DEF l

LEMMA PanicSteps ==
  ASSUME DiscInv, PanicInv, [Next]_vars
  PROVE  PanicInv'
<1> DEFINE F == FramesOver(DiscRecords)
<1>1. image' = image
  BY OwnSteps
<1>2. CASE image.kind # "disc"
  BY <1>1, <1>2 DEF PanicInv
<1>3. (\A s : RecordsIn(s)' = RecordsIn(s)) /\ (\A r : Listing(r)' = Listing(r))
  <2>1. \A s : RecordsIn(s)' = RecordsIn(s)
    BY <1>1 DEF RecordsIn, Holds
  <2>2. \A r : AllRecords(r)' = AllRecords(r)
    BY <2>1 DEF AllRecords
  <2>3. QED
    BY <2>1, <2>2 DEF Listing, Select
<1>4. DiscRecords' = DiscRecords
  BY <1>1, <1>3 DEF DiscRecords
<1>5. (stack \in Seq(FramesOver(DiscRecords)))' <=> stack' \in Seq(F)
  BY <1>4 DEF FramesOver
<1>6. CASE image.kind = "disc" /\ UNCHANGED vars
  <2>1. NamesShort' = NamesShort
    BY <1>1, <1>3, <1>6 DEF NamesShort, ByIso, HasShortName, PlainName, vars
  <2>2. QED
    BY <1>5, <1>6, <2>1 DEF PanicInv, vars
<1>7. CASE image.kind = "disc" /\ (IsoNext \/ UdfNext)
  <2>1. IsImage(image) /\ (pc # "done" => result = "none")
    BY <1>7 DEF DiscInv
  <2>2. CASE ReadDescriptor \/ BadDisc \/ IsoFails \/ UdfNext
    <3>1. Return => pc' \in {pc, "done"} /\ result' \in {result, "Ok"}
      BY DEF Return, Stop
    <3>2. pc # "done" /\ pc' # "iso" /\ result' \in {"none", "Ok", "Err", "Abort"}
      <4>1. CASE ReadDescriptor \/ BadDisc \/ IsoFails
        BY <2>1, <4>1 DEF ReadDescriptor, BadDisc, IsoFails, AtSubdirectory, AtEntry, At,
           TryUdf, Goto
      <4>2. CASE UdfNext
        BY <2>1, <3>1, <4>2 DEF UdfNext, NotUdf, FindAnchor, ReadVds, VdsFails, BadVolume,
           OpenUdf, UdfSkip, UdfFile, UdfDirectory, UdfUnreadable, UdfAborts, UdfReturn,
           MoreDescriptors, AtVolume, AtUdfDirectory, At, Goto, Stop
      <4>3. QED
        BY <2>2, <4>1, <4>2
    <3>3. QED
      BY <3>2 DEF PanicInv
  <2>3. CASE OpenIso
    <3> DEFINE r == ChosenRoot(found)
               es == IF r.dir THEN Listing(r) ELSE <<>>
    <3>1. /\ pc = "descriptors" /\ r # None /\ Scanned /\ result' = result
          /\ stack' = << Frame(1, es) >>
      BY <1>7, <2>3 DEF OpenIso, At, Goto, DiscInv
    <3>2. r \in Record
      BY <3>1 DEF Scanned, ScanFound, ChosenRoot, VdType
    <3>3. es \in Seq(DiscRecords)
      BY <1>7, <2>1, <3>2, ListedRecords
    <3> HIDE DEF es, r
    <3>4. << Frame(1, es) >> \in Seq(F)
      BY <3>3, OneFrame
    <3>5. QED
      BY <1>5, <2>1, <3>1, <3>4 DEF PanicInv
  <2>4. CASE IsoPanics \/ IsoSkip \/ IsoFile \/ IsoDirectory \/ IsoAborts
    <3>1. /\ pc = "iso" /\ Busy /\ stack \in Seq(F) /\ IsoOpen /\ found' = found
      BY <1>7, <2>4 DEF IsoPanics, IsoSkip, IsoFile, IsoDirectory, IsoAborts,
         AtSubdirectory, AtEntry, At, PanicInv, DiscInv
    <3>2. /\ stack # <<>> /\ Last(stack).entries # <<>> /\ Rest = Drawn(stack)
          /\ Entry = Head(Last(stack).entries)
      BY <3>1 DEF Busy, Top, Entry, Rest, Drawn
    <3>3. Entry \in DiscRecords /\ Rest \in Seq(F)
      BY <3>1, <3>2, DrawnFacts
    <3>4. CASE IsoPanics
      <4>1. result' = "Panic" /\ pc' = "done" /\ HasShortName(Entry)
        BY <3>4 DEF IsoPanics, Stop
      <4>2. NamesShort
        BY <1>7, <3>1, <3>3, <4>1 DEF NamesShort, ByIso, IsoOpen, DiscRecords
      <4>3. NamesShort' = NamesShort
        BY <1>1, <1>3, <3>1 DEF NamesShort, ByIso, HasShortName, PlainName
      <4>4. QED
        BY <4>1, <4>2, <4>3 DEF PanicInv
    <3>5. CASE IsoAborts
      BY <3>5 DEF IsoAborts, Stop, PanicInv
    <3>6. CASE IsoSkip \/ IsoFile
      <4>1. stack' = Rest /\ result' = result
        BY <3>6 DEF IsoSkip, IsoFile, Skip, AddFile, Goto
      <4>2. QED
        BY <1>5, <2>1, <3>1, <3>3, <4>1 DEF PanicInv
    <3>7. CASE IsoDirectory
      <4> DEFINE es == Listing(Entry)
                 f == Frame(Len(nodes) + 1, es)
      <4>1. stack' = Append(Rest, f) /\ result' = result /\ Entry.dir
        BY <3>7 DEF IsoDirectory, AtSubdirectory, AddDirectory, Goto
      <4>2. Entry \in Record
        <5>1. \A s : ToSet(RecordsIn(s)) \subseteq Record
          BY <1>7, <2>1, DiscFacts, ElementsOf
        <5>2. QED
          BY <3>3, <5>1 DEF DiscRecords
      <4>3. es \in Seq(DiscRecords)
        BY <1>7, <2>1, <4>1, <4>2, ListedRecords
      <4>4. Len(nodes) \in Nat
        <5>1. Parsed(nodes)
          BY <3>1 DEF IsoOpen, IsBuilt, Built, NodesBuilt
        <5>2. QED
          BY <5>1, TreeFacts
      <4> HIDE DEF es
      <4>5. f \in F
        BY <4>3, <4>4 DEF Frame, FramesOver
      <4> HIDE DEF f, F
      <4>6. Append(Rest, f) \in Seq(F)
        BY <3>3, <4>5, AppendProperties
      <4>7. QED
        BY <1>5, <2>1, <3>1, <4>1, <4>6 DEF PanicInv
    <3>8. QED
      BY <2>4, <3>4, <3>5, <3>6, <3>7
  <2>5. CASE IsoReturn
    <3>1. pc = "iso" /\ stack \in Seq(F) /\ stack # <<>> /\ stack' = Front(stack)
      BY <1>7, <2>5 DEF IsoReturn, Return, At, PanicInv
    <3>2. Front(stack) \in Seq(F)
      BY <3>1, FrontFacts
    <3>3. result' \in {"none", "Ok"}
      BY <2>1, <2>5, <3>1 DEF IsoReturn, Return, Stop
    <3>4. QED
      BY <1>5, <3>1, <3>2, <3>3 DEF PanicInv
  <2>6. QED
    BY <1>7, <2>2, <2>3, <2>4, <2>5 DEF IsoNext
<1>8. QED
  BY <1>2, <1>6, <1>7, OwnSteps

(* A disc with a whole file system of either kind is read, but for the two *)
(* things that end the call.                                               *)
THEOREM HealthyDiscsAreRead == Spec => []AnyHealthyFileSystemIsFound
<1> DEFINE I == DiscInv /\ HealthInv /\ AbortInv /\ PanicInv
<1>1. Init => I
  <2> SUFFICES ASSUME Init PROVE HealthInv /\ AbortInv /\ PanicInv
    BY DiscInit
  <2>1. result = "none" /\ (image.kind = "disc" => pc = "descriptors")
    BY DEF Init, Begin, StartPc
  <2>2. QED
    BY <2>1 DEF HealthInv, AbortInv, PanicInv
<1>2. I /\ [Next]_vars => I'
  BY DiscSteps, HealthSteps, AbortSteps, PanicSteps
<1>3. I => AnyHealthyFileSystemIsFound
  <2> SUFFICES ASSUME I, image.kind = "disc", IsoIsWhole \/ UdfIsWhole
               PROVE  \/ result \in {"none", "Ok"}
                      \/ result = "Abort" /\ GoesTooDeep
                      \/ result = "Panic" /\ NamesShort
    BY DEF AnyHealthyFileSystemIsFound
  <2>1. result = "Abort" => GoesTooDeep
    BY DeepHolds DEF OnlyDeepDiscsAbort
  <2>2. result # "Err"
    BY DEF HealthInv
  <2>3. QED
    BY <2>1, <2>2 DEF PanicInv
<1> HIDE DEF I
<1>4. QED
  BY <1>1, <1>2, <1>3, PTL DEF Spec

-----------------------------------------------------------------------------
(* SquashFS: what stands in a directory.                                   *)
SquashName == [name : Seq(Nat), block : Nat, offset : Nat]

PlainItem ==
  [kind : {"header"}, count : Nat, block : Nat]
  \cup [kind : {"entry"}, name : Seq(Nat), offset : Nat]
IsPlainListing(items, from, to) ==
  /\ from <= to => items[from].kind = "header"
  /\ \A h \in from..to :
       items[h].kind = "header" =>
         LET next == h + items[h].count + 2
         IN  /\ \A i \in (h + 1)..to : i < next => items[i].kind = "entry"
             /\ next <= to => items[next].kind = "header"
LEMMA ItemFacts ==
  ASSUME NEW x, x \in PlainItem
  PROVE  /\ x.kind = "header" \/ x.kind = "entry"
         /\ x.kind = "header" => x.count \in Nat /\ x.block \in Nat
         /\ x.kind = "entry" => x.name \in Seq(Nat) /\ x.offset \in Nat
BY DEF PlainItem

LEMMA PlainSeq ==
  ASSUME NEW its, its \in Seq(PlainItem)
  PROVE  its \in Seq(DirectoryItem)
<1>1. Len(its) \in Nat /\ its = [i \in 1..Len(its) |-> its[i]]
  BY LenProperties
<1>2. \A i \in 1..Len(its) : its[i] \in DirectoryItem
  BY ElementOfSeq DEF PlainItem, DirectoryItem
<1>3. QED
  BY <1>1, <1>2, SeqDef

(* The header of an entry is the last before it, and counts it.            *)
IsUnder(items, from, to, h, i) ==
  /\ h \in from..to /\ h < i /\ items[h].kind = "header"
  /\ \A j \in (h + 1)..i : items[j].kind = "entry"
LEMMA HeaderBefore ==
  ASSUME NEW items, NEW from, from \in Nat \ {0}, NEW to, to \in Nat,
         \A j \in from..to : items[j] \in PlainItem, IsPlainListing(items, from, to),
         NEW i, i \in from..to, items[i].kind = "entry"
  PROVE  \E h : IsUnder(items, from, to, h, i) /\ i <= h + items[h].count + 1
<1>1. \A j \in from..to : items[j] \in PlainItem
  OBVIOUS
<1>2. /\ items[from].kind = "header"
      /\ \A h \in from..to : items[h].kind = "header" =>
           /\ \A j \in (h + 1)..to : j < h + items[h].count + 2 => items[j].kind = "entry"
           /\ h + items[h].count + 2 <= to => items[h + items[h].count + 2].kind = "header"
  BY DEF IsPlainListing
<1> DEFINE Hs == { h \in 0..i : h >= from /\ items[h].kind = "header" }
<1>3. from \in Hs /\ i \in Nat
  BY <1>2
<1>4. PICK h \in Hs : \A g \in Hs : h >= g
  BY <1>3, GreatestElement
<1>5. /\ h \in from..to /\ items[h].kind = "header" /\ h <= i
      /\ \A j \in from..i : items[j].kind = "header" => j <= h
  BY <1>4
<1> HIDE DEF Hs
<1>6. h # i
  BY <1>5
<1>7. \A j \in (h + 1)..i : items[j].kind = "entry"
  <2> TAKE j \in (h + 1)..i
  <2>1. j \in from..to /\ ~(j <= h)
    BY <1>5
  <2>2. QED
    BY <1>1, <1>5, <2>1, ItemFacts
<1>8. i <= h + items[h].count + 1
  <2>1. items[h].count \in Nat
    BY <1>1, <1>5, ItemFacts
  <2> DEFINE next == h + items[h].count + 2
  <2>2. next \in Nat /\ next > h /\ (i > h + items[h].count + 1 => next <= i)
    BY <1>5, <2>1
  <2>3. next <= to => items[next].kind = "header"
    BY <1>2, <1>5
  <2> HIDE DEF next
  <2>4. ~(next <= i)
    BY <1>5, <2>2, <2>3
  <2>5. QED
    BY <1>5, <2>1, <2>2, <2>4
<1>9. IsUnder(items, from, to, h, i)
  BY <1>5, <1>6, <1>7 DEF IsUnder
<1>10. QED
  BY <1>8, <1>9

LEMMA OneHeader ==
  ASSUME NEW items, NEW from, from \in Nat, NEW to, to \in Nat, NEW i, i \in Nat,
         NEW h, IsUnder(items, from, to, h, i), NEW g, IsUnder(items, from, to, g, i)
  PROVE  g = h
BY DEF IsUnder

(* What the reader finds in a directory are its entries.                   *)
UnderOf(its, h) ==
  LET named == Select(ItemsUnder(its, h), LAMBDA e : IF e.kind = "entry"
                                                       THEN e.name \notin Dots ELSE FALSE)
  IN  [i \in DOMAIN named |-> [name |-> named[i].name, block |-> its[h].block,
                               offset |-> named[i].offset]]
LEMMA UnderType ==
  ASSUME NEW its, its \in Seq(DirectoryItem), NEW h, h \in 1..Len(its),
         its[h].kind = "header"
  PROVE  UnderOf(its, h) \in Seq(SquashName)
<1> DEFINE last == LastUnder(its, h, Len(its))
           to == IF last < Len(its) THEN last ELSE Len(its)
           under == SubSeq(its, h + 1, to)
<1>1. /\ Len(its) \in Nat /\ \A i \in 1..Len(its) : its[i] \in DirectoryItem
  BY LenProperties
<1>2. its[h].count \in Nat /\ its[h].block \in Nat
  BY <1>1 DEF DirectoryItem
<1>3. last \in Nat /\ last >= h
  <2> DEFINE C == CutUnder(its, h, Len(its))
  <2>1. CASE C = {}
    BY <1>2, <2>1 DEF LastUnder
  <2>2. CASE C # {}
    <3>1. \A c \in C : c \in Nat /\ c > h
      BY DEF CutUnder
    <3> HIDE DEF C
    <3>2. PICK c \in C : \A d \in C : c <= d
      BY <2>2, <3>1, LeastElement
    <3>3. Min(C) \in C
      BY <3>2 DEF Min
    <3>4. last = Min(C)
      BY <2>2 DEF LastUnder, C
    <3>5. QED
      BY <3>1, <3>3, <3>4
  <2>3. QED
    BY <2>1, <2>2
<1>4. to \in Int /\ h <= to /\ to <= Len(its) /\ h + 1 \in Int /\ h \in Nat
  BY <1>1, <1>3
<1> HIDE DEF last, to
<1>5. under \in Seq(DirectoryItem)
  <2>1. \A i \in (h + 1)..to : its[i] \in DirectoryItem
    BY <1>1, <1>4
  <2>2. QED
    BY <1>4, <2>1, SubSeqProperties
<1>6. ItemsUnder(its, h) = under
  BY DEF ItemsUnder, last, to
<1> HIDE DEF under
<1> DEFINE S == { i \in DOMAIN under : IF under[i].kind = "entry"
                                         THEN under[i].name \notin Dots ELSE FALSE }
           named == Chosen(under, S)
<1>7. named \in Seq(DirectoryItem) /\ ToSet(named) = { under[i] : i \in S }
  <2>1. S \in SUBSET (DOMAIN under)
    OBVIOUS
  <2> HIDE DEF S
  <2>2. QED
    BY <1>5, <2>1, ChosenSet
<1>8. UnderOf(its, h) = [i \in DOMAIN named |-> [name |-> named[i].name,
                           block |-> its[h].block, offset |-> named[i].offset]]
  BY <1>6 DEF UnderOf, Select
<1>9. \A x \in ToSet(named) : x.name \in Seq(Nat) /\ x.offset \in Nat
  <2> TAKE x \in ToSet(named)
  <2>1. x.kind = "entry"
    BY <1>7
  <2>2. x \in DirectoryItem
    <3> HIDE DEF named
    <3>1. QED
      BY <1>7, ElementsOf
  <2>3. QED
    BY <2>1, <2>2 DEF DirectoryItem
<1> HIDE DEF named
<1>10. /\ DOMAIN named = 1..Len(named) /\ Len(named) \in Nat
       /\ ToSet(named) = { named[i] : i \in 1..Len(named) }
  BY <1>7, ElementsOf
<1>11. \A i \in 1..Len(named) : UnderOf(its, h)[i] \in SquashName
  BY <1>2, <1>8, <1>9, <1>10 DEF SquashName
<1>12. UnderOf(its, h) = [i \in 1..Len(named) |-> UnderOf(its, h)[i]]
  BY <1>8, <1>10
<1>13. QED
  BY <1>10, <1>11, <1>12, SeqDef

EntryAt(items, h, i) ==
  [name |-> items[i].name, block |-> items[h].block, offset |-> items[i].offset]
LEMMA UnderFacts ==
  ASSUME NEW its, its \in Seq(PlainItem), NEW h, h \in 1..Len(its),
         its[h].kind = "header",
         \A i \in (h + 1)..Len(its) : i <= h + its[h].count + 1 => its[i].kind = "entry"
  PROVE  /\ UnderOf(its, h) \in Seq(SquashName)
         /\ ToSet(UnderOf(its, h))
              = { EntryAt(its, h, i) :
                    i \in { j \in (h + 1)..Len(its) :
                              j <= h + its[h].count + 1 /\ its[j].name \notin Dots } }
<1>1. /\ Len(its) \in Nat /\ \A i \in 1..Len(its) : its[i] \in PlainItem
      /\ its[h].count \in Nat /\ its[h].block \in Nat
  BY LenProperties, ItemFacts
<1> DEFINE last == h + its[h].count + 1
           to == IF last < Len(its) THEN last ELSE Len(its)
           under == SubSeq(its, h + 1, to)
           X == { x \in PlainItem : x.kind = "entry" }
<1>2. /\ to \in Nat /\ to >= h /\ to <= Len(its)
      /\ \A i \in (h + 1)..Len(its) : i <= to <=> i <= last
  BY <1>1
<1>3. ItemsUnder(its, h) = under
  <2>1. \A i \in 1..Len(its) : its[i].kind # "cut"
    BY <1>1, ItemFacts
  <2>2. CutUnder(its, h, Len(its)) = {}
    BY <2>1 DEF CutUnder
  <2>3. QED
    BY <2>2 DEF ItemsUnder, LastUnder
<1>4. \A i \in (h + 1)..to : its[i] \in X
  BY <1>1, <1>2
<1> HIDE DEF last, to, X
<1>5. /\ under \in Seq(X) /\ Len(under) = to - h
      /\ \A i \in 1..(to - h) : under[i] = its[h + i]
  <2>1. h \in Nat /\ h + 1 \in Int /\ to \in Int /\ h <= to
    BY <1>2
  <2>2. /\ SubSeq(its, h + 1, to) \in Seq(X)
        /\ Len(SubSeq(its, h + 1, to)) = IF h + 1 <= to THEN to - (h + 1) + 1 ELSE 0
        /\ \A i \in 1..(to - (h + 1) + 1) : SubSeq(its, h + 1, to)[i] = its[(h + 1) + i - 1]
    BY <1>4, <2>1, SubSeqProperties
  <2>3. \A i \in 1..(to - h) : under[i] = its[h + i]
    <3> TAKE i \in 1..(to - h)
    <3>1. i \in 1..(to - (h + 1) + 1) /\ (h + 1) + i - 1 = h + i
      BY <2>1
    <3>2. QED
      BY <2>2, <3>1
  <2>4. QED
    BY <2>1, <2>2, <2>3
<1> HIDE DEF under
<1> DEFINE S == { i \in DOMAIN under : under[i].name \notin Dots }
           named == Chosen(under, S)
<1>6. /\ named \in Seq(X) /\ ToSet(named) = { under[i] : i \in S }
  <2>1. S \in SUBSET (DOMAIN under)
    OBVIOUS
  <2> HIDE DEF S
  <2>2. QED
    BY <1>5, <2>1, ChosenSet
<1>7. UnderOf(its, h) = [i \in DOMAIN named |-> [name |-> named[i].name,
                           block |-> its[h].block, offset |-> named[i].offset]]
  <2> DEFINE T == { i \in DOMAIN under : IF under[i].kind = "entry"
                                           THEN under[i].name \notin Dots ELSE FALSE }
  <2>1. \A i \in DOMAIN under : under[i].kind = "entry"
    BY <1>5, LenProperties DEF X
  <2>2. T = S
    BY <2>1
  <2>3. UnderOf(its, h) = [i \in DOMAIN Chosen(under, T) |->
                             [name |-> Chosen(under, T)[i].name, block |-> its[h].block,
                              offset |-> Chosen(under, T)[i].offset]]
    BY <1>3 DEF UnderOf, Select
  <2> HIDE DEF S, T
  <2>4. QED
    BY <2>2, <2>3
<1> HIDE DEF named
<1>8. /\ DOMAIN named = 1..Len(named) /\ Len(named) \in Nat
      /\ ToSet(named) = { named[i] : i \in 1..Len(named) }
      /\ \A i \in 1..Len(named) : named[i] \in X
  <2>1. named \in Seq(X)
    BY <1>6
  <2>2. DOMAIN named = 1..Len(named) /\ Len(named) \in Nat
        /\ ToSet(named) = { named[i] : i \in 1..Len(named) }
    BY ONLY <2>1, ElementsOf
  <2>3. \A i \in 1..Len(named) : named[i] \in X
    BY ONLY <2>1, ElementOfSeq
  <2>4. QED
    BY <2>2, <2>3
<1>9. UnderOf(its, h) \in Seq(SquashName)
  BY PlainSeq, UnderType
<1>10. ToSet(UnderOf(its, h)) = { [name |-> x.name, block |-> its[h].block,
                                    offset |-> x.offset] : x \in ToSet(named) }
  <2>1. DOMAIN UnderOf(its, h) = 1..Len(named)
    BY <1>7, <1>8
  <2>2. ToSet(UnderOf(its, h)) = { UnderOf(its, h)[i] : i \in 1..Len(named) }
    BY <2>1 DEF ToSet
  <2>3. \A i \in 1..Len(named) : UnderOf(its, h)[i] =
          [name |-> named[i].name, block |-> its[h].block, offset |-> named[i].offset]
    BY <1>7, <1>8
  <2> DEFINE made(x) == [name |-> x.name, block |-> its[h].block, offset |-> x.offset]
  <2>4. \A i \in 1..Len(named) : UnderOf(its, h)[i] = made(named[i])
    BY <2>3
  <2> HIDE DEF made
  <2>5. { UnderOf(its, h)[i] : i \in 1..Len(named) } = { made(named[i]) : i \in 1..Len(named) }
    BY <2>4
  <2>6. { made(named[i]) : i \in 1..Len(named) } = { made(x) : x \in ToSet(named) }
    BY <1>8
  <2>7. ToSet(UnderOf(its, h)) = { made(x) : x \in ToSet(named) }
    BY <2>2, <2>5, <2>6
  <2>8. QED
    BY <2>7 DEF made
<1>11. ToSet(named) = { its[i] : i \in { j \in (h + 1)..to : its[j].name \notin Dots } }
  <2>1. DOMAIN under = 1..(to - h)
    BY <1>2, <1>5, LenProperties
  <2>2. \A x : x \in ToSet(named) =>
          x \in { its[i] : i \in { j \in (h + 1)..to : its[j].name \notin Dots } }
    <3> TAKE x
    <3> HAVE x \in ToSet(named)
    <3>1. PICK i \in 1..(to - h) : under[i].name \notin Dots /\ x = under[i]
      BY <1>6, <2>1 DEF S
    <3>2. h + i \in (h + 1)..to /\ x = its[h + i]
      BY <1>2, <1>5, <3>1
    <3>3. QED
      BY <3>1, <3>2
  <2>3. \A j \in (h + 1)..to : its[j].name \notin Dots => its[j] \in ToSet(named)
    <3> TAKE j \in (h + 1)..to
    <3> HAVE its[j].name \notin Dots
    <3>1. j - h \in 1..(to - h) /\ h + (j - h) = j
      BY <1>2
    <3>2. under[j - h] = its[j]
      BY <1>5, <3>1
    <3>3. j - h \in S
      BY <2>1, <3>1, <3>2 DEF S
    <3>4. QED
      BY <1>6, <3>2, <3>3
  <2>4. QED
    BY <2>2, <2>3
<1>12. { j \in (h + 1)..to : its[j].name \notin Dots }
         = { j \in (h + 1)..Len(its) : j <= last /\ its[j].name \notin Dots }
  BY <1>1, <1>2
<1>13. ToSet(UnderOf(its, h))
         = { EntryAt(its, h, i) :
               i \in { j \in (h + 1)..Len(its) : j <= last /\ its[j].name \notin Dots } }
  BY <1>10, <1>11, <1>12 DEF EntryAt
<1>14. QED
  BY <1>9, <1>13 DEF last

LEMMA HeaderOf ==
  ASSUME NEW items, NEW from, from \in Nat, NEW to, to \in Nat, NEW i, i \in Nat,
         NEW g, IsUnder(items, from, to, g, i)
  PROVE  (CHOOSE h \in from..to : /\ h < i /\ items[h].kind = "header"
                                  /\ \A j \in (h + 1)..i : items[j].kind = "entry") = g
<1> DEFINE P(h) == /\ h < i /\ items[h].kind = "header"
                   /\ \A j \in (h + 1)..i : items[j].kind = "entry"
<1>1. g \in from..to /\ P(g)
  BY DEF IsUnder
<1>2. \A h \in from..to : P(h) => h = g
  <2> TAKE h \in from..to
  <2> HAVE P(h)
  <2>1. IsUnder(items, from, to, h, i)
    BY DEF IsUnder
  <2>2. QED
    BY <2>1, OneHeader
<1> HIDE DEF P
<1>3. (CHOOSE h \in from..to : P(h)) = g
  BY <1>1, <1>2
<1>4. QED
  BY <1>3 DEF P

(* A part of a block, with its own numbers.                                *)
IsPart(its, items, off, n) ==
  /\ its \in Seq(PlainItem) /\ Len(its) = n /\ \A i \in 1..n : its[i] = items[off + i]
  /\ \A i \in (off + 1)..(off + n) : items[i] \in PlainItem
IsHeaderOf(its, n, h) == h \in 1..n /\ its[h].kind = "header"
NamedUnder(its, n, h) ==
  { j \in (h + 1)..n : j <= h + its[h].count + 1 /\ its[j].name \notin Dots }
LEMMA PartExists ==
  ASSUME NEW items, NEW off, off \in Nat, NEW n, n \in Nat,
         \A i \in (off + 1)..(off + n) : items[i] \in PlainItem
  PROVE  IsPart(SubSeq(items, off + 1, off + n), items, off, n)
<1> DEFINE to == off + n
           its == SubSeq(items, off + 1, to)
<1>1. off + 1 \in Int /\ to \in Int /\ off <= to
  OBVIOUS
<1>2. \A i \in (off + 1)..to : items[i] \in PlainItem
  OBVIOUS
<1>3. /\ its \in Seq(PlainItem)
      /\ Len(its) = IF off + 1 <= to THEN to - (off + 1) + 1 ELSE 0
      /\ \A i \in 1..(to - (off + 1) + 1) : its[i] = items[(off + 1) + i - 1]
  <2> HIDE DEF to
  <2>1. QED
    BY <1>1, <1>2, SubSeqProperties
<1>4. (IF off + 1 <= to THEN to - (off + 1) + 1 ELSE 0) = n
  OBVIOUS
<1>5. \A i \in 1..n : its[i] = items[off + i]
  <2> TAKE i \in 1..n
  <2>1. i \in 1..(to - (off + 1) + 1) /\ (off + 1) + i - 1 = off + i
    OBVIOUS
  <2> HIDE DEF its, to
  <2>2. QED
    BY <1>3, <2>1
<1> HIDE DEF its
<1>6. IsPart(its, items, off, n)
  BY <1>2, <1>3, <1>4, <1>5 DEF IsPart
<1>7. QED
  BY <1>6 DEF its

LEMMA PartHeaders ==
  ASSUME NEW items, NEW off, off \in Nat, NEW n, n \in Nat, NEW its,
         IsPart(its, items, off, n), IsPlainListing(items, off + 1, off + n),
         NEW h, IsHeaderOf(its, n, h)
  PROVE  /\ its[h].count \in Nat
         /\ \A i \in (h + 1)..n : i <= h + its[h].count + 1 =>
              /\ its[i].kind = "entry"
              /\ IsUnder(items, off + 1, off + n, off + h, off + i)
<1>1. /\ h \in 1..n /\ its[h].kind = "header" /\ its[h] = items[off + h]
      /\ its[h] \in PlainItem /\ off + h \in (off + 1)..(off + n)
  BY ElementOfSeq DEF IsPart, IsHeaderOf
<1>2. its[h].count \in Nat
  BY <1>1, ItemFacts
<1>3. \A i \in ((off + h) + 1)..(off + n) :
        i < (off + h) + items[off + h].count + 2 => items[i].kind = "entry"
  BY <1>1 DEF IsPlainListing
<1>4. \A i \in (h + 1)..n : i <= h + its[h].count + 1 => items[off + i].kind = "entry"
  <2> TAKE i \in (h + 1)..n
  <2> HAVE i <= h + its[h].count + 1
  <2>1. off + i \in ((off + h) + 1)..(off + n)
        /\ off + i < (off + h) + items[off + h].count + 2
    BY <1>1, <1>2
  <2>2. QED
    BY <1>3, <2>1
<1>5. \A i \in (h + 1)..n : i <= h + its[h].count + 1 =>
        /\ its[i].kind = "entry" /\ IsUnder(items, off + 1, off + n, off + h, off + i)
  <2> TAKE i \in (h + 1)..n
  <2> HAVE i <= h + its[h].count + 1
  <2>1. i \in 1..n /\ its[i] = items[off + i] /\ off + h < off + i
    BY <1>1 DEF IsPart
  <2>2. \A j \in ((off + h) + 1)..(off + i) : items[j].kind = "entry"
    <3> TAKE j \in ((off + h) + 1)..(off + i)
    <3>1. PICK k \in (h + 1)..n : j = off + k /\ k <= i
      <4>1. j - off \in (h + 1)..n /\ j = off + (j - off) /\ j - off <= i
        BY <1>1
      <4>2. QED
        BY <4>1
    <3>2. k <= h + its[h].count + 1
      BY <1>1, <1>2, <3>1
    <3>3. QED
      BY <1>4, <3>1, <3>2
  <2>3. QED
    BY <1>1, <1>4, <2>1, <2>2 DEF IsUnder
<1>6. QED
  BY <1>2, <1>5

LEMMA PartNames ==
  ASSUME NEW items, NEW off, off \in Nat, NEW n, n \in Nat, NEW its,
         IsPart(its, items, off, n), IsPlainListing(items, off + 1, off + n),
         NEW i, i \in 1..n, items[off + i].kind = "entry", items[off + i].name \notin Dots
  PROVE  \E h : /\ IsHeaderOf(its, n, h) /\ i \in NamedUnder(its, n, h)
                /\ IsUnder(items, off + 1, off + n, off + h, off + i)
<1>1. off + 1 \in Nat \ {0} /\ off + n \in Nat /\ off + i \in (off + 1)..(off + n)
  OBVIOUS
<1>2. \A j \in (off + 1)..(off + n) : items[j] \in PlainItem
  BY DEF IsPart
<1>3. PICK g : /\ IsUnder(items, off + 1, off + n, g, off + i)
               /\ off + i <= g + items[g].count + 1
  BY <1>1, <1>2, HeaderBefore
<1>4. g \in (off + 1)..(off + n) /\ g < off + i /\ items[g].kind = "header"
  BY <1>3 DEF IsUnder
<1>5. PICK h \in 1..n : g = off + h /\ h < i
  <2>1. g - off \in 1..n /\ g = off + (g - off) /\ g - off < i
    BY <1>4
  <2>2. QED
    BY <2>1
<1>6. its[h] = items[g] /\ its[i] = items[off + i] /\ its[h] \in PlainItem
  BY <1>5, ElementOfSeq DEF IsPart
<1>7. its[h].count \in Nat
  BY <1>4, <1>6, ItemFacts
<1>8. i \in (h + 1)..n /\ i <= h + its[h].count + 1
  BY <1>3, <1>5, <1>6, <1>7
<1>9. IsHeaderOf(its, n, h) /\ i \in NamedUnder(its, n, h)
  BY <1>4, <1>6, <1>8 DEF IsHeaderOf, NamedUnder
<1>10. QED
  BY <1>3, <1>5, <1>9

NamesIn(items, from, to) ==
  LET mine == from..to
      header(i) == CHOOSE h \in mine :
                     /\ h < i /\ items[h].kind = "header"
                     /\ \A j \in (h + 1)..i : items[j].kind = "entry"
  IN  { [name |-> items[i].name, block |-> items[header(i)].block,
         offset |-> items[i].offset] :
          i \in { j \in mine : IF items[j].kind = "entry" THEN items[j].name \notin Dots
                               ELSE FALSE } }
PartUnder(its, n) ==
  [h \in 1..n |-> IF its[h].kind = "header" THEN UnderOf(its, h) ELSE <<>>]
HasNamesUnder(S, its, n) ==
  \A x : x \in S <=> \E h : /\ IsHeaderOf(its, n, h)
                            /\ \E i \in NamedUnder(its, n, h) : x = EntryAt(its, h, i)
LEMMA PartSequences ==
  ASSUME NEW items, NEW off, off \in Nat, NEW n, n \in Nat, NEW its,
         IsPart(its, items, off, n), IsPlainListing(items, off + 1, off + n)
  PROVE  /\ FlattenSeq(PartUnder(its, n)) \in Seq(SquashName)
         /\ HasNamesUnder(ToSet(FlattenSeq(PartUnder(its, n))), its, n)
<1> DEFINE part == PartUnder(its, n)
<1>1. \A h : IsHeaderOf(its, n, h) =>
        /\ UnderOf(its, h) \in Seq(SquashName)
        /\ ToSet(UnderOf(its, h)) = { EntryAt(its, h, i) : i \in NamedUnder(its, n, h) }
  <2> TAKE h
  <2> HAVE IsHeaderOf(its, n, h)
  <2>1. its \in Seq(PlainItem) /\ Len(its) = n
    BY DEF IsPart
  <2>2. h \in 1..Len(its) /\ its[h].kind = "header"
    BY <2>1 DEF IsHeaderOf
  <2>3. \A i \in (h + 1)..n : i <= h + its[h].count + 1 => its[i].kind = "entry"
    <3>1. /\ its[h].count \in Nat
          /\ \A i \in (h + 1)..n : i <= h + its[h].count + 1 =>
               /\ its[i].kind = "entry"
               /\ IsUnder(items, off + 1, off + n, off + h, off + i)
      BY PartHeaders
    <3>2. QED
      BY <3>1
  <2>4. \A i \in (h + 1)..Len(its) : i <= h + its[h].count + 1 => its[i].kind = "entry"
    BY <2>1, <2>3
  <2>5. /\ UnderOf(its, h) \in Seq(SquashName)
        /\ ToSet(UnderOf(its, h))
             = { EntryAt(its, h, i) :
                   i \in { j \in (h + 1)..Len(its) :
                             j <= h + its[h].count + 1 /\ its[j].name \notin Dots } }
    BY <2>1, <2>2, <2>4, UnderFacts
  <2>6. QED
    BY <2>1, <2>5 DEF NamedUnder
<1>2. /\ DOMAIN part = 1..n
      /\ \A h \in 1..n : part[h] = IF its[h].kind = "header" THEN UnderOf(its, h) ELSE <<>>
      /\ part = [h \in 1..n |-> part[h]]
  BY DEF PartUnder
<1> HIDE DEF part
<1>3. \A h \in 1..n : part[h] \in Seq(SquashName)
  <2> TAKE h \in 1..n
  <2>1. CASE its[h].kind = "header"
    BY <1>1, <1>2, <2>1 DEF IsHeaderOf
  <2>2. CASE its[h].kind # "header"
    <3>1. part[h] = <<>> /\ <<>> \in Seq(SquashName)
      BY <1>2, <2>2
    <3>2. QED
      BY <3>1
  <2>3. QED
    BY <2>1, <2>2
<1>4. part \in Seq(Seq(SquashName)) /\ Len(part) = n
  BY <1>2, <1>3, SeqDef
<1>5. /\ FlattenSeq(part) \in Seq(SquashName)
      /\ ToSet(FlattenSeq(part)) = UNION { ToSet(part[h]) : h \in 1..n }
  BY <1>4, FlattenedSet
<1>6. \A h \in 1..n : ~IsHeaderOf(its, n, h) => ToSet(part[h]) = {}
  BY <1>2 DEF ToSet, IsHeaderOf
<1>7. \A h : IsHeaderOf(its, n, h) =>
        h \in 1..n /\ ToSet(part[h]) = { EntryAt(its, h, i) : i \in NamedUnder(its, n, h) }
  BY <1>1, <1>2 DEF IsHeaderOf
<1>8. \A x : x \in ToSet(FlattenSeq(part)) <=>
        \E h : IsHeaderOf(its, n, h) /\ x \in ToSet(part[h])
  BY <1>5, <1>6, <1>7
<1>9. \A x : x \in ToSet(FlattenSeq(part)) <=>
        \E h : /\ IsHeaderOf(its, n, h)
               /\ \E i \in NamedUnder(its, n, h) : x = EntryAt(its, h, i)
  BY <1>7, <1>8
<1>10. QED
  BY <1>5, <1>9 DEF part, HasNamesUnder

LEMMA PartEntries ==
  ASSUME NEW items, NEW off, off \in Nat, NEW n, n \in Nat, NEW its,
         IsPart(its, items, off, n), IsPlainListing(items, off + 1, off + n)
  PROVE  ToSet(FlattenSeq(PartUnder(its, n))) = NamesIn(items, off + 1, off + n)
<1> DEFINE mine == (off + 1)..(off + n)
           header(i) == CHOOSE h \in mine :
                          /\ h < i /\ items[h].kind = "header"
                          /\ \A j \in (h + 1)..i : items[j].kind = "entry"
           Named == { j \in mine : IF items[j].kind = "entry" THEN items[j].name \notin Dots
                                   ELSE FALSE }
<1>1. \A g, i : i \in Nat /\ IsUnder(items, off + 1, off + n, g, i) => header(i) = g
  <2> TAKE g, i
  <2> HAVE i \in Nat /\ IsUnder(items, off + 1, off + n, g, i)
  <2>1. off + 1 \in Nat /\ off + n \in Nat
    OBVIOUS
  <2>2. QED
    BY <2>1, HeaderOf
<1>2. NamesIn(items, off + 1, off + n) = { EntryAt(items, header(i), i) : i \in Named }
  BY DEF NamesIn, EntryAt
<1> HIDE DEF header
<1>3. \A h, i : IsHeaderOf(its, n, h) /\ i \in NamedUnder(its, n, h) =>
        /\ off + i \in Named
        /\ EntryAt(its, h, i) = EntryAt(items, header(off + i), off + i)
  <2> TAKE h, i
  <2> HAVE IsHeaderOf(its, n, h) /\ i \in NamedUnder(its, n, h)
  <2>1. /\ h \in 1..n /\ i \in (h + 1)..n /\ i <= h + its[h].count + 1
        /\ its[i].name \notin Dots
    BY DEF IsHeaderOf, NamedUnder
  <2>2. /\ its[i].kind = "entry" /\ IsUnder(items, off + 1, off + n, off + h, off + i)
    BY <2>1, PartHeaders
  <2>3. i \in 1..n /\ off + i \in mine
    BY <2>1
  <2>4. its[i] = items[off + i] /\ its[h] = items[off + h]
    BY <2>1, <2>3 DEF IsPart
  <2>5. header(off + i) = off + h
    BY <1>1, <2>2, <2>3
  <2>6. QED
    BY <2>1, <2>2, <2>3, <2>4, <2>5 DEF EntryAt
<1>4. \A i \in Named : \E h, j : /\ IsHeaderOf(its, n, h) /\ j \in NamedUnder(its, n, h)
                                 /\ EntryAt(its, h, j) = EntryAt(items, header(i), i)
  <2> TAKE i \in Named
  <2>1. i \in mine /\ items[i].kind = "entry" /\ items[i].name \notin Dots
    OBVIOUS
  <2>2. PICK j \in 1..n : i = off + j
    <3>1. i - off \in 1..n /\ i = off + (i - off)
      BY <2>1
    <3>2. QED
      BY <3>1
  <2>3. PICK h : /\ IsHeaderOf(its, n, h) /\ j \in NamedUnder(its, n, h)
                 /\ IsUnder(items, off + 1, off + n, off + h, off + j)
    BY <2>1, <2>2, PartNames
  <2>4. header(i) = off + h
    BY <1>1, <2>1, <2>2, <2>3
  <2>5. its[j] = items[i] /\ its[h] = items[off + h]
    BY <2>2, <2>3 DEF IsPart, IsHeaderOf
  <2>6. EntryAt(its, h, j) = EntryAt(items, header(i), i)
    BY <2>4, <2>5 DEF EntryAt
  <2>7. QED
    BY <2>3, <2>6
<1> HIDE DEF Named
<1>5. \A x : x \in ToSet(FlattenSeq(PartUnder(its, n))) <=>
        \E h : /\ IsHeaderOf(its, n, h)
               /\ \E i \in NamedUnder(its, n, h) : x = EntryAt(its, h, i)
  <2>1. HasNamesUnder(ToSet(FlattenSeq(PartUnder(its, n))), its, n)
    BY PartSequences
  <2>2. QED
    BY <2>1 DEF HasNamesUnder
<1>6. \A x : x \in ToSet(FlattenSeq(PartUnder(its, n)))
               <=> x \in { EntryAt(items, header(i), i) : i \in Named }
  <2>1. \A x : x \in ToSet(FlattenSeq(PartUnder(its, n)))
                 => x \in { EntryAt(items, header(i), i) : i \in Named }
    BY <1>3, <1>5
  <2>2. \A i \in Named : EntryAt(items, header(i), i) \in ToSet(FlattenSeq(PartUnder(its, n)))
    <3> TAKE i \in Named
    <3>1. PICK h, j : /\ IsHeaderOf(its, n, h) /\ j \in NamedUnder(its, n, h)
                      /\ EntryAt(its, h, j) = EntryAt(items, header(i), i)
      BY <1>4
    <3>2. QED
      BY <1>5, <3>1
  <2>3. QED
    BY <2>1, <2>2
<1>7. QED
  BY <1>2, <1>6

LEMMA NoCut ==
  ASSUME NEW items, items \in Seq(DirectoryItem), NEW from, from \in Nat \ {0},
         NEW to, to \in Nat, to <= Len(items), IsListing(items, from, to),
         \A i \in from..to : items[i].kind # "cut"
  PROVE  /\ IsPlainListing(items, from, to)
         /\ \A i \in from..to : items[i] \in PlainItem
<1>1. \A i \in from..to : items[i] \in PlainItem
  <2> TAKE i \in from..to
  <2>1. i \in 1..Len(items)
    BY LenProperties
  <2>2. items[i] \in DirectoryItem
    BY <2>1, ElementOfSeq
  <2>3. QED
    BY <2>2 DEF DirectoryItem, PlainItem
<1>2. from <= to => items[from].kind = "header"
  BY DEF IsListing
<1>3. ASSUME NEW h \in from..to, items[h].kind = "header"
      PROVE  LET next == h + items[h].count + 2
             IN  /\ \A i \in (h + 1)..to : i < next => items[i].kind = "entry"
                 /\ next <= to => items[next].kind = "header"
  <2>1. items[h].count \in Nat /\ h \in Nat
    BY <1>1, <1>3, ItemFacts
  <2>2. CutUnder(items, h, to) = {}
    BY <2>1 DEF CutUnder
  <2>3. LastUnder(items, h, to) + 1 = h + items[h].count + 2
    BY <2>1, <2>2 DEF LastUnder
  <2>4. /\ \A i \in (h + 1)..to :
              i < LastUnder(items, h, to) + 1 => items[i].kind \in {"entry", "cut"}
        /\ LastUnder(items, h, to) + 1 <= to
              => items[LastUnder(items, h, to) + 1].kind = "header"
    BY <1>3 DEF IsListing
  <2>5. \A i \in (h + 1)..to : items[i].kind # "cut"
    BY <2>1
  <2>6. QED
    BY <2>3, <2>4, <2>5
<1>4. QED
  BY <1>1, <1>2, <1>3 DEF IsPlainListing

LEMMA DirectoryEntries ==
  ASSUME NEW inode, inode.offset \in Nat, inode.size \in Nat,
         NEW items, items \in Seq(DirectoryItem),
         items = image.dirs[inode.block + 1].items,
         inode.offset + inode.size <= Len(items),
         \A i \in (inode.offset + 1)..(inode.offset + inode.size) : items[i].kind # "cut",
         IsListing(items, inode.offset + 1, EndOf(inode, items))
  PROVE  EntriesOf(inode) \in Seq(SquashName) /\ ToSet(EntriesOf(inode)) = SquashEntries(inode)
<1> DEFINE off == inode.offset
           n == inode.size
           its == SubSeq(items, off + 1, off + n)
<1>1. Len(items) \in Nat
  BY LenProperties
<1>2. EndOf(inode, items) = off + n
  BY <1>1 DEF EndOf
<1>3. ItemsOf(inode) = its
  BY <1>2 DEF ItemsOf
<1>4. /\ IsPlainListing(items, off + 1, off + n)
      /\ \A i \in (off + 1)..(off + n) : items[i] \in PlainItem
  <2>1. off + 1 \in Nat \ {0} /\ off + n \in Nat
    OBVIOUS
  <2>2. QED
    BY <1>2, <2>1, NoCut
<1>5. IsPart(its, items, off, n)
  BY <1>4, PartExists
<1> HIDE DEF its
<1>6. EntriesOf(inode) = FlattenSeq(PartUnder(its, n))
  <2>1. DOMAIN its = 1..n
    BY <1>5, LenProperties DEF IsPart
  <2>2. QED
    BY <1>3, <2>1 DEF EntriesOf, UnderOf, PartUnder
<1>7. SquashEntries(inode) = NamesIn(items, off + 1, off + n)
  BY DEF SquashEntries, NamesIn
<1>8. FlattenSeq(PartUnder(its, n)) \in Seq(SquashName)
  BY <1>4, <1>5, PartSequences
<1>9. ToSet(FlattenSeq(PartUnder(its, n))) = NamesIn(items, off + 1, off + n)
  BY <1>4, <1>5, PartEntries
<1>10. QED
  BY <1>6, <1>7, <1>8, <1>9

-----------------------------------------------------------------------------
EntriesIn(its) ==
  FlattenSeq([h \in DOMAIN its |->
                IF its[h].kind = "header" THEN UnderOf(its, h) ELSE <<>>])
LEMMA EntriesForm == \A i : EntriesOf(i) = EntriesIn(ItemsOf(i))
BY DEF EntriesOf, EntriesIn, UnderOf

(* Whatever is cut off, what is found are entries.                         *)
LEMMA EntriesType ==
  ASSUME NEW inode, ItemsOf(inode) \in Seq(DirectoryItem)
  PROVE  EntriesOf(inode) \in Seq(SquashName)
<1> DEFINE its == ItemsOf(inode)
           n == Len(its)
           part == PartUnder(its, n)
<1>1. n \in Nat /\ DOMAIN its = 1..n
  BY LenProperties
<1>2. EntriesOf(inode) = FlattenSeq(part)
  BY <1>1, EntriesForm DEF EntriesIn, PartUnder
<1>3. its \in Seq(DirectoryItem)
  OBVIOUS
<1> HIDE DEF its
<1>4. \A h \in 1..n : part[h] \in Seq(SquashName)
  <2> TAKE h \in 1..n
  <2>1. CASE its[h].kind = "header"
    BY <1>3, <2>1, UnderType DEF PartUnder
  <2>2. CASE its[h].kind # "header"
    <3>1. part[h] = <<>> /\ <<>> \in Seq(SquashName)
      BY <2>2 DEF PartUnder
    <3>2. QED
      BY <3>1
  <2>3. QED
    BY <2>1, <2>2
<1>5. part = [h \in 1..n |-> part[h]]
  BY DEF PartUnder
<1> HIDE DEF n, part
<1>6. part \in Seq(Seq(SquashName))
  BY <1>1, <1>4, <1>5, SeqDef
<1>7. QED
  BY <1>2, <1>6, FlattenedSet

(* What an image holds at the places its inodes name.                      *)
LEMMA SquashFacts ==
  ASSUME IsSquash(image)
  PROVE  /\ Super.block \in Nat /\ Super.offset \in Nat /\ Super.block_size \in Nat
         /\ Super.magic \in BOOLEAN /\ SquashDepth \in Nat /\ SquashMagicSize \in Nat
         /\ image.size \in Nat /\ image.cursor \in Nat
BY SquashAssumption DEF IsSquash, Super

IsLocated(e) == e.block \in Nat /\ e.offset \in Nat
LEMMA InodeFacts ==
  ASSUME IsSquash(image), NEW e, IsLocated(e), CanReadInode(e)
  PROVE  /\ InodeOf(e) \in SquashInode /\ InodeOf(e).type \in {"dir", "reg", "other"}
         /\ e.block + 1 \in DOMAIN image.inodes
         /\ InodeOf(e) \in ToSet(image.inodes[e.block + 1].items)
         /\ InodeOf(e).type = "reg"
              => Len(InodeOf(e).blocks) >= block_count_for(InodeOf(e))
<1> DEFINE b == image.inodes[e.block + 1]
<1>1. image.inodes \in Seq(Block(SquashInode))
  BY DEF IsSquash
<1>2. CanReadBlock(image.inodes, e.block) /\ ~(e.offset >= Len(b.items))
  BY DEF CanReadInode
<1>3. e.block + 1 \in 1..Len(image.inodes)
  BY <1>1, <1>2, LenProperties DEF CanReadBlock, IsLocated
<1>4. b \in Block(SquashInode)
  BY <1>1, <1>3, ElementOfSeq
<1>5. b.items \in Seq(SquashInode)
  BY <1>4 DEF Block
<1>6. e.offset + 1 \in 1..Len(b.items)
  BY <1>2, <1>5, LenProperties DEF IsLocated
<1>7. InodeOf(e) = b.items[e.offset + 1] /\ InodeOf(e) \in SquashInode
  BY <1>5, <1>6, ElementOfSeq DEF InodeOf
<1>8. InodeOf(e) \in ToSet(b.items)
  BY <1>5, <1>6, <1>7, LenProperties DEF ToSet
<1>9. e.block + 1 \in DOMAIN image.inodes
  BY <1>1, <1>3, LenProperties
<1>10. InodeOf(e).type \in {"dir", "reg", "other", "cut"}
  BY <1>7 DEF SquashInode
<1>11. (CASE b.items[e.offset + 1].type = "cut" -> FALSE
          [] b.items[e.offset + 1].type = "reg" ->
               Len(b.items[e.offset + 1].blocks) >= block_count_for(b.items[e.offset + 1])
          [] OTHER -> TRUE)
  BY <1>2 DEF CanReadInode
<1> HIDE DEF b
<1>12. InodeOf(e).type # "cut"
  BY <1>7, <1>11
<1>13. InodeOf(e).type = "reg" => Len(InodeOf(e).blocks) >= block_count_for(InodeOf(e))
  BY <1>7, <1>11
<1>14. QED
  BY <1>7, <1>8, <1>9, <1>10, <1>12, <1>13 DEF b

LEMMA SquashDirectoryFacts ==
  ASSUME IsSquash(image), NEW e, IsLocated(e), CanReadInode(e), InodeOf(e).type = "dir",
         CanReadDirectory(InodeOf(e))
  PROVE  /\ EntriesOf(InodeOf(e)) \in Seq(SquashName)
         /\ InOneBlock => ToSet(EntriesOf(InodeOf(e))) = SquashEntries(InodeOf(e))
<1> DEFINE inode == InodeOf(e)
           items == image.dirs[inode.block + 1].items
<1>1. /\ inode \in SquashInode /\ inode.type = "dir"
      /\ e.block + 1 \in DOMAIN image.inodes
      /\ inode \in ToSet(image.inodes[e.block + 1].items)
  BY InodeFacts
<1> HIDE DEF inode
<1>2. inode.block \in Nat /\ inode.offset \in Nat /\ inode.size \in Nat
  BY <1>1 DEF SquashInode
<1>3. image.dirs \in Seq(Block(DirectoryItem)) /\ Len(image.dirs) \in Nat
  BY LenProperties DEF IsSquash
<1>4. inode.block < Len(image.dirs) /\ inode.offset <= Len(items)
  BY DEF CanReadDirectory, CanReadBlock, inode
<1>5. inode.block + 1 \in 1..Len(image.dirs)
  BY <1>2, <1>3, <1>4
<1>6. image.dirs[inode.block + 1] \in Block(DirectoryItem)
  BY <1>3, <1>5, ElementOfSeq
<1>7. items \in Seq(DirectoryItem)
  BY <1>6 DEF Block
<1>8. /\ IsListing(items, inode.offset + 1, EndOf(inode, items))
      /\ InOneBlock =>
           /\ inode.offset + inode.size <= Len(items)
           /\ \A i \in (inode.offset + 1)..(inode.offset + inode.size) :
                items[i].kind # "cut"
  BY <1>1, <1>4 DEF IsSquash, InOneBlock
<1>9. EntriesOf(inode) \in Seq(SquashName)
  <2> DEFINE from == inode.offset + 1
             end == EndOf(inode, items)
  <2>1. /\ Len(items) \in Nat /\ from \in Int /\ end \in Int
        /\ from <= end + 1 /\ end <= Len(items) /\ from >= 1
    <3> DEFINE n == Len(items)
               last == inode.offset + inode.size
    <3>1. n \in Nat /\ inode.offset <= n
      BY <1>4, <1>7, LenProperties
    <3>2. last \in Nat /\ last >= inode.offset
      BY <1>2
    <3>3. end = IF last < n THEN last ELSE n
      BY DEF EndOf
    <3> HIDE DEF last, n, end
    <3>4. QED
      BY <1>2, <3>1, <3>2, <3>3 DEF n
  <2>2. ItemsOf(inode) = SubSeq(items, from, end)
    BY DEF ItemsOf
  <2> HIDE DEF items, from, end
  <2>3. \A i \in from..end : items[i] \in DirectoryItem
    BY <1>7, <2>1, ElementOfSeq
  <2>4. SubSeq(items, from, end) \in Seq(DirectoryItem)
    BY <2>1, <2>3, SubSeqProperties
  <2>5. QED
    BY <2>2, <2>4, EntriesType
<1>10. InOneBlock => ToSet(EntriesOf(inode)) = SquashEntries(inode)
  <2> HIDE DEF items
  <2>1. items = image.dirs[inode.block + 1].items
    BY DEF items
  <2>2. QED
    BY <1>2, <1>7, <1>8, <2>1, DirectoryEntries
<1>11. QED
  BY <1>9, <1>10 DEF inode

LEMMA PlainFacts ==
  ASSUME IsSquash(image), IsSuper, NEW e, IsLocated(e), CanReadInode(e),
         InodeOf(e).type = "reg"
  PROVE  /\ IsPlain(InodeOf(e)) = InOnePiece(InodeOf(e)) /\ IsPlain(InodeOf(e)) \in BOOLEAN
         /\ InodeOf(e).size \in Nat /\ InodeOf(e).start \in Nat
<1> DEFINE inode == InodeOf(e)
<1>1. /\ inode \in SquashInode /\ inode.type = "reg"
      /\ Len(inode.blocks) >= block_count_for(inode)
  BY InodeFacts
<1> HIDE DEF inode
<1>2. /\ inode.size \in Nat /\ inode.start \in Nat /\ inode.fragment \in BOOLEAN
      /\ inode.blocks \in Seq([plain : BOOLEAN])
  BY <1>1 DEF SquashInode
<1>3. Super.block_size \in Nat \ {0}
  BY SquashFacts DEF IsSuper
<1>4. ~inode.fragment =>
        (block_count_for(inode) = 1 <=> inode.size \in 1..Super.block_size)
  BY <1>2, <1>3, OneBlock DEF block_count_for
<1>5. block_count_for(inode) = 1 =>
        /\ (\A i \in DOMAIN inode.blocks : i = 1 => inode.blocks[i].plain)
             <=> inode.blocks[1].plain
        /\ inode.blocks[1].plain \in BOOLEAN
  <2> HAVE block_count_for(inode) = 1
  <2>1. Len(inode.blocks) \in Nat /\ Len(inode.blocks) >= 1
        /\ DOMAIN inode.blocks = 1..Len(inode.blocks)
    BY <1>1, <1>2, LenProperties
  <2>2. 1 \in 1..Len(inode.blocks)
    BY <2>1
  <2>3. inode.blocks[1] \in [plain : BOOLEAN]
    BY ONLY <1>2, <2>2, ElementOfSeq
  <2>4. QED
    BY <2>1, <2>2, <2>3
<1>6. QED
  BY <1>1, <1>2, <1>4, <1>5 DEF IsPlain, InOnePiece, inode

-----------------------------------------------------------------------------
(* The tree of a SquashFS image grows out of its entries.                  *)
IsDir(e) == IF CanReadInode(e) THEN InodeOf(e).type = "dir" ELSE FALSE
SquashLocation(e) ==
  IF CanReadInode(e) THEN IF InOnePiece(InodeOf(e)) THEN InodeOf(e).start ELSE None
  ELSE None
CanBeRead(e) == CanReadInode(e) /\ (IsDir(e) => CanReadDirectory(InodeOf(e)))
InListing(e) ==
  IF CanBeRead(e) /\ IsDir(e) THEN ToSet(EntriesOf(InodeOf(e))) ELSE {}
SquashReading ==
  [ entries |-> SquashEntry, sources |-> SquashEntry, key |-> [e \in SquashEntry |-> e],
    keep |-> SquashEntry, fine |-> { e \in SquashEntry : CanBeRead(e) },
    in |-> [e \in SquashEntry |-> InListing(e)],
    name |-> [e \in SquashEntry |-> e.name], dir |-> [e \in SquashEntry |-> IsDir(e)],
    location |-> [e \in SquashEntry |-> SquashLocation(e)],
    root |-> SquashRoot, max |-> SquashDepth + 1, lossy |-> FALSE, off |-> 1 ]

LEMMA SquashEntryFacts ==
  ASSUME IsSquash(image)
  PROVE  /\ \A e \in SquashEntry : IsLocated(e)
         /\ SquashRoot \in SquashEntry /\ SquashName \subseteq SquashEntry
         /\ \A e \in SquashEntry : InListing(e) \subseteq SquashName
         /\ InOneBlock => \A e \in SquashEntry : InListing(e) = InSquashDirectory(e)
<1>1. \A e \in SquashEntry : IsLocated(e)
  BY SquashFacts DEF SquashEntry, SquashRoot, IsLocated
<1>2. SquashRoot \in SquashEntry /\ SquashName \subseteq SquashEntry
  BY DEF SquashEntry, SquashName
<1>3. \A e : InSquashDirectory(e)
               = IF CanBeRead(e) /\ IsDir(e) THEN SquashEntries(InodeOf(e)) ELSE {}
  BY DEF InSquashDirectory, CanBeRead, IsDir
<1>4. \A e \in SquashEntry : CanBeRead(e) /\ IsDir(e) =>
        /\ InListing(e) \subseteq SquashName
        /\ InOneBlock => InListing(e) = SquashEntries(InodeOf(e))
  <2> TAKE e \in SquashEntry
  <2> HAVE CanBeRead(e) /\ IsDir(e)
  <2>1. CanReadInode(e) /\ InodeOf(e).type = "dir" /\ CanReadDirectory(InodeOf(e))
    BY DEF CanBeRead, IsDir
  <2>2. /\ EntriesOf(InodeOf(e)) \in Seq(SquashName)
        /\ InOneBlock => ToSet(EntriesOf(InodeOf(e))) = SquashEntries(InodeOf(e))
    BY <1>1, <2>1, SquashDirectoryFacts
  <2>3. ToSet(EntriesOf(InodeOf(e))) \subseteq SquashName
    BY ONLY <2>2, ElementsOf
  <2>4. QED
    BY <2>2, <2>3 DEF InListing
<1>5. \A e : ~(CanBeRead(e) /\ IsDir(e)) => InListing(e) = {} /\ InSquashDirectory(e) = {}
  BY <1>3 DEF InListing
<1>6. QED
  BY <1>1, <1>2, <1>3, <1>4, <1>5

LEMMA SquashReadingFacts ==
  ASSUME IsSquash(image)
  PROVE  /\ IsReading(SquashReading)
         /\ SquashReading.entries = SquashEntry /\ SquashReading.sources = SquashEntry
         /\ SquashReading.keep = SquashEntry
         /\ \A e \in SquashEntry :
              /\ SquashReading.key[e] = e /\ e \in SquashReading.keep
              /\ e \in SquashReading.fine <=> CanBeRead(e)
              /\ SquashReading.in[e] = InListing(e)
              /\ SquashReading.name[e] = e.name
              /\ SquashReading.dir[e] = IsDir(e) /\ IsDir(e) \in BOOLEAN
              /\ SquashReading.location[e] = SquashLocation(e)
         /\ SquashReading.root = SquashRoot
         /\ SquashReading.max = SquashDepth + 1 /\ SquashDepth \in Nat
         /\ ~SquashReading.lossy /\ SquashReading.off = 1
<1>1. /\ \A e \in SquashEntry : InListing(e) \subseteq SquashEntry
      /\ SquashRoot \in SquashEntry
  BY SquashEntryFacts
<1>2. SquashDepth \in Nat
  BY SquashFacts
<1>3. \A e \in SquashEntry : IsDir(e) \in BOOLEAN
  BY DEF IsDir
<1>4. IsReading(SquashReading)
  BY <1>1, <1>2 DEF IsReading, SquashReading
<1>5. QED
  BY <1>2, <1>3, <1>4 DEF SquashReading

LEMMA NamesListed ==
  ASSUME IsSquash(image), InOneBlock
  PROVE  SquashNames = NamesBelow(SquashReading.root, SquashReading.in,
                                  SquashReading.name, SquashReading.max)
<1>1. [e \in SquashEntry |-> InSquashDirectory(e)] = [e \in SquashEntry |-> InListing(e)]
  BY SquashEntryFacts
<1>2. QED
  BY <1>1 DEF SquashNames, SquashReading

LEMMA SquashSame ==
  ASSUME image' = image
  PROVE  /\ SquashReading' = SquashReading /\ SquashRoot' = SquashRoot /\ Super' = Super
         /\ IsSuper' = IsSuper /\ SquashNames' = SquashNames
         /\ \A e : CanBeRead(e)' = CanBeRead(e)
<1>1. Super' = Super
  BY DEF Super
<1>2. SquashRoot' = SquashRoot /\ IsSuper' = IsSuper
  BY <1>1 DEF SquashRoot, IsSuper
<1>3. SquashEntry' = SquashEntry
  BY <1>2 DEF SquashEntry
<1>4. \A e : CanReadInode(e)' = CanReadInode(e)
  BY <1>1 DEF CanReadInode, block_count_for
<1>5. \A e : InodeOf(e)' = InodeOf(e)
  BY DEF InodeOf
<1>6. \A i : CanReadDirectory(i)' = CanReadDirectory(i)
  BY DEF CanReadDirectory
<1>7. \A i : SquashEntries(i)' = SquashEntries(i)
  BY DEF SquashEntries
<1>8. \A i : InOnePiece(i)' = InOnePiece(i)
  BY <1>1 DEF InOnePiece
<1>9. \A e : IsDir(e)' = IsDir(e)
  BY <1>4, <1>5 DEF IsDir
<1>10. \A e : CanBeRead(e)' = CanBeRead(e)
  BY <1>4, <1>5, <1>6, <1>9 DEF CanBeRead
<1>11. \A e : SquashLocation(e)' = SquashLocation(e)
  BY <1>4, <1>5, <1>8 DEF SquashLocation
<1>12. \A e : InSquashDirectory(e)' = InSquashDirectory(e)
  BY <1>4, <1>5, <1>6, <1>7 DEF InSquashDirectory
<1>13. SquashReading' = SquashReading
  <2>1. \A i : EntriesOf(i)' = EntriesOf(i)
    <3>1. \A i : ItemsOf(i)' = ItemsOf(i)
      BY DEF ItemsOf, EndOf
    <3>2. (\A i : EntriesOf(i) = EntriesIn(ItemsOf(i)))'
      BY EntriesForm, PTL
    <3>3. QED
      BY <3>1, <3>2, EntriesForm
  <2>2. \A e : InListing(e)' = InListing(e)
    BY <1>5, <1>9, <1>10, <2>1 DEF InListing
  <2>3. QED
    BY <1>2, <1>3, <1>9, <1>10, <1>11, <2>2 DEF SquashReading
<1>14. SquashNames' = SquashNames
  BY <1>2, <1>3, <1>12 DEF SquashNames
<1>15. QED
  BY <1>1, <1>2, <1>10, <1>13, <1>14

(* One entry is handled: the root, which is alone, or one of a directory.  *)
AtSquashRoot == nodes = <<>> /\ stack = << Frame(0, << SquashRoot >>) >>
RootIsDone(st) == st # <<>> => st[1].entries = <<>>
SquashTree == IsBuilt(SquashReading, nodes, stack) /\ RootIsDone(stack)
SquashNode(y, e) ==
  /\ IsNode(y) /\ y.name = e.name /\ y.is_directory = IsDir(e)
  /\ y.location = SquashLocation(e)
LEMMA SquashNodes ==
  ASSUME IsSquash(image), IsSuper, NEW e, e \in SquashEntry, CanReadInode(e), NEW p
  PROVE  /\ InodeOf(e).type = "dir" =>
              SquashNode(new_directory(e.name, p), e) /\ new_directory(e.name, p).parent = p
         /\ InodeOf(e).type = "reg" =>
              /\ SquashNode(SquashFileNode(e.name, InodeOf(e), p), e)
              /\ SquashFileNode(e.name, InodeOf(e), p).parent = p
         /\ InodeOf(e).type = "other" =>
              SquashNode(new_file(e.name, 0, p), e) /\ new_file(e.name, 0, p).parent = p
<1> DEFINE inode == InodeOf(e)
<1>1. IsLocated(e)
  BY SquashEntryFacts
<1>2. inode.type # "reg" => SquashLocation(e) = None
  BY DEF SquashLocation, InOnePiece
<1>3. IsDir(e) = (inode.type = "dir")
  BY DEF IsDir
<1>4. ASSUME inode.type = "dir"
      PROVE  SquashNode(new_directory(e.name, p), e) /\ new_directory(e.name, p).parent = p
  <2>1. IsMade(new_directory(e.name, p), e.name, TRUE, None, None, p)
    BY 0 \in Nat, NewNodes
  <2>2. QED
    BY <1>2, <1>3, <1>4, <2>1 DEF IsMade, SquashNode
<1>5. ASSUME inode.type = "other"
      PROVE  SquashNode(new_file(e.name, 0, p), e) /\ new_file(e.name, 0, p).parent = p
  <2>1. IsMade(new_file(e.name, 0, p), e.name, FALSE, None, None, p)
    BY 0 \in Nat, NewNodes
  <2>2. QED
    BY <1>2, <1>3, <1>5, <2>1 DEF IsMade, SquashNode
<1>6. ASSUME inode.type = "reg"
      PROVE  /\ SquashNode(SquashFileNode(e.name, inode, p), e)
             /\ SquashFileNode(e.name, inode, p).parent = p
  <2>1. /\ IsPlain(inode) = InOnePiece(inode) /\ IsPlain(inode) \in BOOLEAN
        /\ inode.size \in Nat /\ inode.start \in Nat
    BY <1>1, <1>6, PlainFacts
  <2>2. SquashLocation(e) = IF IsPlain(inode) THEN inode.start ELSE None
    BY <2>1 DEF SquashLocation
  <2> HIDE DEF inode
  <2>3. /\ IsMade(new_file_with_location(e.name, inode.size, inode.start, inode.size, p),
                  e.name, FALSE, inode.start, inode.size, p)
        /\ IsMade([new_file(e.name, inode.size, p) EXCEPT !.length = inode.size],
                  e.name, FALSE, None, inode.size, p)
    BY <2>1, NewNodes
  <2>4. CASE IsPlain(inode)
    <3>1. SquashFileNode(e.name, inode, p)
            = new_file_with_location(e.name, inode.size, inode.start, inode.size, p)
      BY <2>4 DEF SquashFileNode
    <3>2. QED
      BY <1>3, <1>6, <2>2, <2>3, <2>4, <3>1 DEF IsMade, SquashNode
  <2>5. CASE ~IsPlain(inode)
    <3>1. SquashFileNode(e.name, inode, p)
            = [new_file(e.name, inode.size, p) EXCEPT !.length = inode.size]
      BY <2>5 DEF SquashFileNode
    <3>2. QED
      BY <1>3, <1>6, <2>2, <2>3, <2>5, <3>1 DEF IsMade, SquashNode
  <2>6. QED
    BY <2>4, <2>5
<1>7. QED
  BY <1>4, <1>5, <1>6

(* The entries of a directory that is read, as those that wait.            *)
SquashListing(e) == IF InodeOf(e).type = "dir" THEN EntriesOf(InodeOf(e)) ELSE <<>>
LEMMA SquashWaiting ==
  ASSUME IsSquash(image), NEW e, e \in SquashEntry, CanBeRead(e),
         NEW es, es = SquashListing(e), NEW R, R = SquashReading
  PROVE  /\ es \in Seq(R.entries)
         /\ \A i \in 1..Len(es) : es[i] \in R.keep => R.key[es[i]] \in R.in[e]
         /\ \A d \in R.in[e] : \E i \in 1..Len(es) : R.key[es[i]] = d
<1>1. IsLocated(e) /\ SquashName \subseteq SquashEntry
  BY SquashEntryFacts
<1>2. /\ R.entries = SquashEntry /\ \A x \in SquashEntry : R.key[x] = x
      /\ R.in[e] = InListing(e)
  BY SquashReadingFacts
<1>3. InListing(e) = IF IsDir(e) THEN ToSet(EntriesOf(InodeOf(e))) ELSE {}
  BY DEF InListing
<1>4. IsDir(e) = (InodeOf(e).type = "dir")
  BY DEF IsDir, CanBeRead
<1>5. CASE InodeOf(e).type = "dir"
  <2>1. CanReadInode(e) /\ CanReadDirectory(InodeOf(e))
    BY <1>4, <1>5 DEF CanBeRead
  <2>2. es = EntriesOf(InodeOf(e))
    BY <1>5 DEF SquashListing
  <2>3. es \in Seq(SquashName)
    BY <1>1, <1>5, <2>1, <2>2, SquashDirectoryFacts
  <2>4. /\ ToSet(es) = { es[i] : i \in 1..Len(es) } /\ ToSet(es) \subseteq SquashName
        /\ Len(es) \in Nat /\ DOMAIN es = 1..Len(es)
    BY ONLY <2>3, ElementsOf
  <2>5. ToSet(es) = R.in[e]
    BY <1>2, <1>3, <1>4, <1>5, <2>2
  <2>6. \A i \in 1..Len(es) : es[i] \in ToSet(es) /\ es[i] \in SquashEntry
    BY <1>1, <2>4
  <2>7. es = [i \in 1..Len(es) |-> es[i]]
    BY <2>3, <2>4
  <2>8. es \in Seq(R.entries)
    BY <1>2, <2>4, <2>6, <2>7, SeqDef
  <2>9. \A d \in R.in[e] : \E i \in 1..Len(es) : R.key[es[i]] = d
    BY <1>2, <2>4, <2>5, <2>6
  <2>10. QED
    BY <1>2, <2>5, <2>6, <2>8, <2>9
<1>6. CASE InodeOf(e).type # "dir"
  <2>1. es = <<>>
    BY <1>6 DEF SquashListing
  <2>2. R.in[e] = {}
    BY <1>2, <1>3, <1>4, <1>6
  <2>3. es \in Seq(R.entries) /\ 1..Len(es) = {}
    BY ONLY <2>1
  <2>4. QED
    BY <2>2, <2>3
<1>7. QED
  BY <1>5, <1>6

(* The root gets its node.                                                 *)
LEMMA SquashRootStep ==
  ASSUME IsSquash(image), CanBeRead(SquashRoot), NEW y, SquashNode(y, SquashRoot),
         y.parent = 0, NEW ns, ns = << y >>, NEW st,
         st = IF IsDir(SquashRoot)
                THEN << Frame(0, <<>>), Frame(1, SquashListing(SquashRoot)) >>
                ELSE << Frame(0, <<>>) >>
  PROVE  IsBuilt(SquashReading, ns, st)
<1> DEFINE R == SquashReading
           e == SquashRoot
           es == SquashListing(SquashRoot)
<1>1. /\ IsReading(R) /\ R.off = 1 /\ R.max = SquashDepth + 1 /\ SquashDepth \in Nat
      /\ R.root = e /\ ~R.lossy /\ e \in SquashEntry /\ R.entries = SquashEntry
  BY SquashReadingFacts, SquashEntryFacts
<1>2. e \in R.fine /\ R.in[e] = InListing(e)
  BY <1>1, SquashReadingFacts
<1>3. /\ es \in Seq(R.entries)
      /\ \A i \in 1..Len(es) : es[i] \in R.keep => R.key[es[i]] \in R.in[e]
      /\ \A d \in R.in[e] : \E i \in 1..Len(es) : R.key[es[i]] = d
  BY <1>1, SquashWaiting
<1>4. Parsed(ns) /\ Len(ns) = 1 /\ ns[1] = y
  BY DEF Parsed, SquashNode
<1>5. IsDir(e) \in BOOLEAN /\ y.is_directory = IsDir(e)
  BY DEF IsDir, SquashNode
<1>6. Frame(0, <<>>) \in FramesOver(R.entries) /\ Frame(1, es) \in FramesOver(R.entries)
  BY <1>3 DEF Frame, FramesOver
<1> HIDE DEF R, es
<1>7. CASE IsDir(e)
  <2>1. st = << Frame(0, <<>>), Frame(1, es) >>
    BY <1>7 DEF es
  <2>2. st \in Seq(FramesOver(R.entries)) /\ Len(st) = R.off + 1 /\ st[R.off + 1] = Frame(1, es)
    BY <1>1, <1>6, <2>1
  <2>3. R.max > 0
    BY <1>1
  <2>4. ns[1].is_directory
    BY ONLY <1>4, <1>5, <1>7
  <2>5. \E s, l : Built(R, ns, st, s, l)
    BY <1>1, <1>2, <1>3, <1>4, <2>2, <2>3, <2>4, BuiltRoot
  <2>6. QED
    BY <2>5 DEF IsBuilt, R
<1>8. CASE ~IsDir(e)
  <2>1. st = << Frame(0, <<>>) >>
    BY <1>8
  <2>2. st \in Seq(FramesOver(R.entries)) /\ Len(st) = R.off
    BY <1>1, <1>6, <2>1
  <2>3. ~Descends(R, R.root)
    BY <1>1, <1>2, <1>8 DEF Descends, InListing
  <2>4. IsBuilt(R, ns, st)
    BY <1>1, <1>2, <1>4, <2>2, <2>3, BuiltLeaf
  <2>5. QED
    BY <2>4 DEF R
<1>9. QED
  BY <1>5, <1>7, <1>8

(* An entry of a directory gets its node.                                  *)
LEMMA SquashEntryStep ==
  ASSUME IsSquash(image), NEW ns, NEW st, IsBuilt(SquashReading, ns, st),
         Len(st) > 1, Last(st).entries # <<>>, Len(st) - 1 <= SquashDepth,
         NEW e, e = Head(Last(st).entries), CanBeRead(e), NEW y, SquashNode(y, e),
         y.parent = Last(st).node, NEW t,
         t = IF IsDir(e) THEN Append(Drawn(st), Frame(Len(ns) + 1, SquashListing(e)))
             ELSE Drawn(st)
  PROVE  IsBuilt(SquashReading, Append(ns, y), t)
<1> DEFINE R == SquashReading
           es == SquashListing(e)
<1>1. /\ IsReading(R) /\ R.off = 1 /\ R.max = SquashDepth + 1 /\ SquashDepth \in Nat
      /\ ~R.lossy /\ R.entries = SquashEntry /\ R.keep = SquashEntry
  BY SquashReadingFacts
<1>2. PICK src, level : Built(R, ns, st, src, level)
  BY DEF IsBuilt
<1>3. st \in Seq(FramesOver(SquashEntry)) /\ Len(st) \in Nat
  BY <1>1, <1>2, LenProperties DEF Built, FramesOpen
<1>4. st # <<>>
  BY <1>3
<1>5. e \in SquashEntry
  BY <1>3, <1>4, DrawnFacts
<1>6. /\ R.key[e] = e /\ e \in R.keep /\ e \in R.fine
      /\ R.in[e] = InListing(e)
      /\ R.name[e] = e.name /\ R.dir[e] = IsDir(e) /\ R.location[e] = SquashLocation(e)
      /\ IsDir(e) \in BOOLEAN
  BY <1>5, SquashReadingFacts
<1>7. IsMadeFor(R, y, e, Last(st).node)
  BY <1>6 DEF IsMadeFor, SquashNode
<1>8. /\ es \in Seq(R.entries)
      /\ \A i \in 1..Len(es) : es[i] \in R.keep => R.key[es[i]] \in R.in[e]
      /\ \A d \in R.in[e] : \E i \in 1..Len(es) : R.key[es[i]] = d
  BY <1>5, SquashWaiting
<1>9. Len(st) > R.off /\ e = R.key[Head(Last(st).entries)] /\ Head(Last(st).entries) \in R.keep
  BY <1>1, <1>6
<1>10. InListing(e) # {} => IsDir(e)
  BY DEF InListing
<1> HIDE DEF R, es
<1>11. CASE IsDir(e)
  <2>1. t = Append(Drawn(st), Frame(Len(ns) + 1, es))
    BY <1>11 DEF es
  <2>2. Descends(R, e) => Len(st) - R.off < R.max
    BY <1>1, <1>3
  <2>3. R.dir[e]
    BY <1>6, <1>11
  <2>4. \E s, l : Built(R, Append(ns, y), Append(Drawn(st), Frame(Len(ns) + 1, es)), s, l)
    BY <1>1, <1>2, <1>6, <1>7, <1>8, <1>9, <2>2, <2>3, BuiltDirectory
  <2>5. QED
    BY <2>1, <2>4 DEF IsBuilt, R
<1>12. CASE ~IsDir(e)
  <2>1. t = Drawn(st)
    BY <1>12
  <2>2. ~Descends(R, e)
    BY <1>1, <1>6, <1>10, <1>12 DEF Descends
  <2>3. \E s, l : Built(R, Append(ns, y), Drawn(st), s, l)
    BY <1>1, <1>2, <1>6, <1>7, <1>9, <2>2, BuiltFile
  <2>4. QED
    BY <2>1, <2>3 DEF IsBuilt, R
<1>13. QED
  BY <1>6, <1>11, <1>12

(* The frame of the root is the first and has nothing to wait for.         *)
LEMMA FirstFrame ==
  ASSUME NEW X, NEW st, st \in Seq(FramesOver(X)), st # <<>>, RootIsDone(st)
  PROVE  /\ Last(st).entries # <<>> =>
              /\ Len(st) > 1 /\ RootIsDone(Drawn(st))
              /\ \A f \in FramesOver(X) : RootIsDone(Append(Drawn(st), f))
         /\ RootIsDone(Front(st))
<1>1. Len(st) \in Nat \ {0} /\ st = [j \in 1..Len(st) |-> st[j]]
  BY LenProperties
<1>2. st[1].entries = <<>> /\ Last(st) = st[Len(st)]
  BY <1>1 DEF RootIsDone, Last
<1>3. ASSUME Last(st).entries # <<>>
      PROVE  /\ Len(st) > 1 /\ RootIsDone(Drawn(st))
             /\ \A f \in FramesOver(X) : RootIsDone(Append(Drawn(st), f))
  <2>1. Len(st) > 1
    BY <1>1, <1>2, <1>3
  <2>2. /\ Drawn(st) \in Seq(FramesOver(X)) /\ Len(Drawn(st)) = Len(st)
        /\ \A j \in 1..(Len(st) - 1) : Drawn(st)[j] = st[j]
    BY <1>3, DrawnFacts
  <2>3. 1 \in 1..(Len(st) - 1)
    BY <1>1, <2>1
  <2>4. Drawn(st)[1].entries = <<>>
    BY <1>2, <2>2, <2>3
  <2>5. \A f \in FramesOver(X) : Append(Drawn(st), f)[1] = Drawn(st)[1]
    <3> TAKE f \in FramesOver(X)
    <3>1. 1 \in 1..Len(Drawn(st))
      BY <1>1, <2>1, <2>2
    <3> DEFINE t == Drawn(st)
    <3>2. t \in Seq(FramesOver(X)) /\ 1 \in 1..Len(t)
      BY <2>2, <3>1
    <3> HIDE DEF t
    <3>3. Append(t, f)[1] = t[1]
      BY ONLY <3>2, f \in FramesOver(X), AppendProperties
    <3>4. QED
      BY <3>3 DEF t
  <2>6. QED
    BY <2>1, <2>4, <2>5 DEF RootIsDone
<1>4. RootIsDone(Front(st))
  <2> DEFINE f == Front(st)
  <2>1. f \in Seq(FramesOver(X)) /\ Len(f) = Len(st) - 1
        /\ \A j \in 1..(Len(st) - 1) : f[j] = st[j]
    BY FrontFacts
  <2> HIDE DEF f
  <2>2. ASSUME f # <<>> PROVE f[1].entries = <<>>
    <3>1. Len(f) # 0
      BY <2>1, <2>2
    <3>2. 1 \in 1..(Len(st) - 1)
      BY <1>1, <2>1, <3>1
    <3>3. QED
      BY <1>2, <2>1, <3>2
  <2>3. QED
    BY <2>2 DEF RootIsDone, f
<1>5. QED
  BY <1>3, <1>4

LEMMA SquashFrames ==
  ASSUME IsSquash(image), SquashTree, stack # <<>>
  PROVE  /\ stack \in Seq(FramesOver(SquashEntry)) /\ Len(stack) \in Nat \ {0}
         /\ Busy => /\ Entry \in SquashEntry /\ Entry = Head(Last(stack).entries)
                    /\ Last(stack).entries # <<>> /\ Top = Last(stack)
                    /\ Rest = Drawn(stack) /\ Len(stack) > 1 /\ RootIsDone(Drawn(stack))
                    /\ \A f \in FramesOver(SquashEntry) : RootIsDone(Append(Drawn(stack), f))
         /\ RootIsDone(Front(stack))
<1>1. SquashReading.entries = SquashEntry
  BY SquashReadingFacts
<1>2. stack \in Seq(FramesOver(SquashEntry))
  BY <1>1 DEF SquashTree, IsBuilt, Built, FramesOpen
<1>3. Len(stack) \in Nat \ {0}
  BY <1>2, LenProperties
<1>4. RootIsDone(stack)
  BY DEF SquashTree
<1>5. /\ Last(stack).entries # <<>> =>
           /\ Len(stack) > 1 /\ RootIsDone(Drawn(stack))
           /\ \A f \in FramesOver(SquashEntry) : RootIsDone(Append(Drawn(stack), f))
      /\ RootIsDone(Front(stack))
  BY <1>2, <1>4, FirstFrame
<1>6. Busy => /\ Last(stack).entries # <<>> /\ Top = Last(stack)
              /\ Entry = Head(Last(stack).entries) /\ Rest = Drawn(stack)
  BY DEF Busy, Top, Entry, Rest, Drawn
<1>7. Busy => Entry \in SquashEntry
  BY <1>2, <1>6, DrawnFacts
<1>8. QED
  BY <1>2, <1>3, <1>5, <1>6, <1>7

LEMMA SquashBegins ==
  ASSUME AtSquashRoot
  PROVE  /\ Entry = SquashRoot /\ Top.node = 0 /\ Len(stack) = 1 /\ Busy
         /\ Rest = << Frame(0, <<>>) >>
<1> DEFINE f == Frame(0, << SquashRoot >>)
<1>1. stack = << f >> /\ f = [node |-> 0, entries |-> << SquashRoot >>]
  BY DEF AtSquashRoot, Frame
<1>2. Last(stack) = f /\ Front(stack) = <<>> /\ Len(stack) = 1 /\ stack # <<>>
  <2> HIDE DEF f
  <2>1. Len(stack) = 1 /\ stack[1] = f /\ stack # <<>>
    BY <1>1
  <2>2. stack \in Seq({f})
    BY <1>1
  <2>3. Front(stack) \in Seq({f}) /\ Len(Front(stack)) = 0
    BY ONLY <2>1, <2>2, FrontFacts
  <2>4. Front(stack) = <<>>
    BY ONLY <2>3
  <2>5. QED
    BY <2>1, <2>4 DEF Last
<1>3. Top = f /\ Top.entries = << SquashRoot >> /\ Top.node = 0
  BY <1>1, <1>2 DEF Top
<1>4. Entry = SquashRoot
  BY <1>3 DEF Entry
<1>5. [Top EXCEPT !.entries = Tail(@)] = Frame(0, <<>>)
  <2>1. Tail(<< SquashRoot >>) = <<>>
    OBVIOUS
  <2>2. QED
    BY <1>1, <1>3, <2>1 DEF Frame
<1> HIDE DEF f
<1>6. Rest = << Frame(0, <<>>) >>
  <2>1. Rest = Append(<<>>, Frame(0, <<>>))
    BY <1>2, <1>5 DEF Rest
  <2>2. QED
    BY <2>1
<1>7. Busy
  BY <1>2, <1>3 DEF Busy
<1>8. QED
  BY <1>2, <1>3, <1>4, <1>6, <1>7

(* What a step down adds.                                                  *)
LEMMA SquashAdds ==
  ASSUME IsSquash(image), IsSuper, Entry \in SquashEntry,
         SquashDirectory \/ SquashFile \/ SquashOther
  PROVE  /\ CanBeRead(Entry) /\ Len(stack) - 1 <= SquashDepth
         /\ \E y : /\ SquashNode(y, Entry) /\ y.parent = Top.node
                   /\ nodes' = Append(nodes, y)
         /\ stack' = IF IsDir(Entry)
                       THEN Append(Rest, Frame(Len(nodes) + 1, SquashListing(Entry)))
                       ELSE Rest
<1> DEFINE e == Entry
           p == Top.node
<1>1. CanReadInode(e) /\ Len(stack) - 1 <= SquashDepth
  BY DEF SquashDirectory, SquashFile, SquashOther, CanDescend
<1>2. IsDir(e) = (InodeOf(e).type = "dir")
  BY <1>1 DEF IsDir
<1>3. /\ InodeOf(e).type = "dir" =>
           SquashNode(new_directory(e.name, p), e) /\ new_directory(e.name, p).parent = p
      /\ InodeOf(e).type = "reg" =>
           /\ SquashNode(SquashFileNode(e.name, InodeOf(e), p), e)
           /\ SquashFileNode(e.name, InodeOf(e), p).parent = p
      /\ InodeOf(e).type = "other" =>
           SquashNode(new_file(e.name, 0, p), e) /\ new_file(e.name, 0, p).parent = p
  BY <1>1, SquashNodes
<1>4. CASE SquashDirectory
  <2>1. /\ InodeOf(e).type = "dir" /\ CanReadDirectory(InodeOf(e))
        /\ nodes' = Append(nodes, new_directory(e.name, p))
        /\ stack' = Append(Rest, Frame(Len(nodes) + 1, EntriesOf(InodeOf(e))))
    BY <1>4 DEF SquashDirectory, AddDirectory
  <2>2. QED
    BY <1>1, <1>2, <1>3, <2>1 DEF CanBeRead, SquashListing
<1>5. CASE SquashFile
  <2>1. /\ InodeOf(e).type = "reg" /\ stack' = Rest
        /\ nodes' = Append(nodes, SquashFileNode(e.name, InodeOf(e), p))
    BY <1>5 DEF SquashFile, AddFile
  <2>2. QED
    BY <1>1, <1>2, <1>3, <2>1 DEF CanBeRead
<1>6. CASE SquashOther
  <2>1. /\ InodeOf(e).type = "other" /\ stack' = Rest
        /\ nodes' = Append(nodes, new_file(e.name, 0, p))
    BY <1>6 DEF SquashOther, AddFile
  <2>2. QED
    BY <1>1, <1>2, <1>3, <2>1 DEF CanBeRead
<1>7. QED
  BY <1>4, <1>5, <1>6

LEMMA SquashSteps ==
  ASSUME IsSquash(image), IsSuper, AtSquashRoot \/ SquashTree,
         SquashDirectory \/ SquashFile \/ SquashOther
  PROVE  SquashTree'
<1>1. image' = image /\ Busy
  BY DEF SquashDirectory, SquashFile, SquashOther, Goto, CanDescend, AtInode
<1>2. SUFFICES IsBuilt(SquashReading, nodes', stack') /\ RootIsDone(stack')
  BY <1>1, SquashSame DEF SquashTree, IsBuilt, RootIsDone
<1> DEFINE e == Entry
           es == SquashListing(e)
           e2 == Frame(Len(nodes) + 1, es)
<1>3. stack # <<>>
  BY <1>1 DEF Busy
<1>4. e \in SquashEntry
  BY <1>1, <1>3, SquashFrames, SquashBegins, SquashEntryFacts
<1>5. /\ CanBeRead(e) /\ Len(stack) - 1 <= SquashDepth
      /\ stack' = IF IsDir(e) THEN Append(Rest, e2) ELSE Rest
  BY <1>4, SquashAdds
<1>6. PICK y : SquashNode(y, e) /\ y.parent = Top.node /\ nodes' = Append(nodes, y)
  BY <1>4, SquashAdds
<1>7. CASE AtSquashRoot
  <2>1. /\ e = SquashRoot /\ Top.node = 0 /\ Rest = << Frame(0, <<>>) >> /\ nodes = <<>>
    BY <1>7, SquashBegins DEF AtSquashRoot
  <2>2. nodes' = << y >>
    BY <1>6, <2>1
  <2>3. stack' = IF IsDir(SquashRoot)
                   THEN << Frame(0, <<>>), Frame(1, SquashListing(SquashRoot)) >>
                   ELSE << Frame(0, <<>>) >>
    <3>1. Len(nodes) + 1 = 1
      BY <2>1
    <3>2. \A f : Append(<< Frame(0, <<>>) >>, f) = << Frame(0, <<>>), f >>
      <4> DEFINE g == Frame(0, <<>>)
      <4> SUFFICES ASSUME NEW f PROVE Append(<< g >>, f) = << g, f >>
        OBVIOUS
      <4> HIDE DEF g
      <4>1. << g >> \in Seq({g, f}) /\ Len(<< g >>) = 1 /\ << g >>[1] = g
        OBVIOUS
      <4>2. /\ Append(<< g >>, f) \in Seq({g, f}) /\ Len(Append(<< g >>, f)) = 2
            /\ Append(<< g >>, f)[1] = g /\ Append(<< g >>, f)[2] = f
        BY <4>1, AppendProperties
      <4>3. << g, f >> \in Seq({g, f}) /\ Len(<< g, f >>) = 2
            /\ << g, f >>[1] = g /\ << g, f >>[2] = f
        OBVIOUS
      <4> DEFINE s == Append(<< g >>, f)
                 t == << g, f >>
      <4>4. \A i \in 1..2 : s[i] = t[i]
        BY <4>2, <4>3
      <4>5. s \in Seq({g, f}) /\ t \in Seq({g, f}) /\ Len(s) = 2 /\ Len(t) = 2
        BY <4>2, <4>3
      <4> HIDE DEF s, t
      <4>6. s = [i \in 1..2 |-> s[i]] /\ t = [i \in 1..2 |-> t[i]]
        BY <4>5, LenProperties
      <4>7. s = t
        BY <4>4, <4>6
      <4>8. QED
        BY <4>7 DEF s, t
    <3>3. QED
      BY <1>5, <2>1, <3>1, <3>2
  <2>4. IsBuilt(SquashReading, nodes', stack')
    BY <1>5, <1>6, <2>1, <2>2, <2>3, SquashRootStep
  <2>5. stack'[1] = Frame(0, <<>>)
    BY <2>3
  <2>6. RootIsDone(stack')
    BY <2>5 DEF RootIsDone, Frame
  <2>7. QED
    BY <2>4, <2>6
<1>8. CASE SquashTree
  <2>1. /\ stack \in Seq(FramesOver(SquashEntry)) /\ e = Head(Last(stack).entries)
        /\ Last(stack).entries # <<>> /\ Top = Last(stack)
        /\ Rest = Drawn(stack) /\ Len(stack) > 1 /\ RootIsDone(Drawn(stack))
        /\ \A f \in FramesOver(SquashEntry) : RootIsDone(Append(Drawn(stack), f))
    BY <1>1, <1>3, <1>8, SquashFrames
  <2>2. IsBuilt(SquashReading, nodes, stack)
    BY <1>8 DEF SquashTree
  <2>3. stack' = IF IsDir(e) THEN Append(Drawn(stack), e2) ELSE Drawn(stack)
    BY <1>5, <2>1
  <2>4. y.parent = Last(stack).node
    BY <1>6, <2>1
  <2>5. IsBuilt(SquashReading, nodes', stack')
    <3> DEFINE t == stack'
    <3>1. t = IF IsDir(e) THEN Append(Drawn(stack), Frame(Len(nodes) + 1, SquashListing(e)))
              ELSE Drawn(stack)
      BY <2>3
    <3> HIDE DEF t, e
    <3>2. IsBuilt(SquashReading, Append(nodes, y), t)
      BY <1>5, <1>6, <2>1, <2>2, <2>4, <3>1, SquashEntryStep
    <3>3. QED
      BY <1>6, <3>2 DEF t
  <2>6. e2 \in FramesOver(SquashEntry)
    <3>1. es \in Seq(SquashEntry)
      BY <1>4, <1>5, SquashWaiting, SquashReadingFacts
    <3>2. Len(nodes) + 1 \in Nat
      BY <2>2 DEF IsBuilt, Built, NodesBuilt, Parsed
    <3> HIDE DEF es
    <3>3. QED
      BY <3>1, <3>2 DEF Frame, FramesOver
  <2>7. RootIsDone(stack')
    BY <2>1, <2>3, <2>6
  <2>8. QED
    BY <2>5, <2>7
<1>9. QED
  BY <1>7, <1>8

(* Where the reader is, and what it has found out and made.                *)
SquashIsBad ==
  \E x \in SquashNames :
    \/ Len(x[1]) > SquashDepth \/ ~CanReadInode(x[2])
    \/ IF CanReadInode(x[2]) /\ InodeOf(x[2]).type = "dir"
         THEN ~CanReadDirectory(InodeOf(x[2])) ELSE FALSE
SquashInv ==
  image.kind = "squash" =>
    /\ IsSquash(image)
    /\ pc # "done" => result = "none"
    /\ pc \in {"detect", "super"} => nodes = <<>>
    /\ result \in {"none", "Ok", "Err"}
    /\ found.cursor = image.cursor /\ found.detected \in {None, Super.magic}
    /\ pc = "squash" => IsSuper /\ (AtSquashRoot \/ SquashTree)
    /\ result = "Ok" => /\ IsSuper /\ IsBuilt(SquashReading, nodes, stack)
                        /\ stack = <<>> /\ Parsed(nodes) /\ Totalled(nodes)
    /\ InOneBlock /\ result = "Err" => ~IsSuper \/ ~Super.plain \/ SquashIsBad

LEMMA SquashInit ==
  ASSUME Init
  PROVE  SquashInv
<1> SUFFICES ASSUME image.kind = "squash" PROVE SquashInv
  BY DEF SquashInv
<1>1. IsImage(image) /\ result = "none" /\ nodes = <<>>
  BY StartsWithImage
<1>2. IsSquash(image)
  BY <1>1 DEF IsImage
<1>3. pc = "detect" /\ found = [detected |-> None, cursor |-> image.cursor]
  BY DEF Init, Begin, StartPc, StartFound
<1>4. QED
  BY <1>1, <1>2, <1>3 DEF SquashInv

(* What makes the reader give up is there.                                 *)
LEMMA SquashGivesUp ==
  ASSUME IsSquash(image), InOneBlock, AtSquashRoot \/ SquashTree, SquashFails
  PROVE  SquashIsBad
<1> DEFINE R == SquashReading
           e == Entry
<1>1. /\ Busy /\ \/ Len(stack) - 1 > SquashDepth
                 \/ ~CanReadInode(e)
                 \/ /\ CanReadInode(e) /\ InodeOf(e).type = "dir"
                    /\ ~CanReadDirectory(InodeOf(e))
  BY DEF SquashFails, AtInode
<1>2. /\ IsReading(R) /\ R.off = 1 /\ R.max = SquashDepth + 1 /\ SquashDepth \in Nat
      /\ R.sources = SquashEntry /\ R.keep = SquashEntry /\ R.root = SquashRoot
      /\ SquashRoot \in SquashEntry /\ \A x \in SquashEntry : R.key[x] = x
  BY SquashReadingFacts, SquashEntryFacts
<1>3. SquashNames = NamesBelow(R.root, R.in, R.name, R.max)
  BY NamesListed
<1>4. R.in \in [R.sources -> SUBSET R.sources]
  BY <1>2 DEF IsReading
<1>5. \E x \in SquashNames : Len(x[1]) = Len(stack) - 1 /\ x[2] = e
  <2>1. CASE AtSquashRoot
    <3>1. e = SquashRoot /\ Len(stack) = 1
      BY <2>1, SquashBegins
    <3>2. R.max \in Nat
      BY <1>2
    <3> HIDE DEF R
    <3>3. << <<>>, SquashRoot >> \in SquashNames
      BY <1>2, <1>3, <1>4, <3>2, RootIsThere
    <3>4. Len(<<>>) = 0
      OBVIOUS
    <3>5. QED
      BY <3>1, <3>3, <3>4
  <2>2. CASE SquashTree
    <3>1. stack # <<>>
      BY <1>1 DEF Busy
    <3>2. /\ e \in SquashEntry /\ e = Head(Last(stack).entries) /\ Len(stack) > 1
          /\ Last(stack).entries # <<>>
      BY <1>1, <2>2, <3>1, SquashFrames
    <3>3. IsBuilt(R, nodes, stack)
      BY <2>2 DEF SquashTree
    <3>4. PICK src, level : Built(R, nodes, stack, src, level)
      BY <3>3 DEF IsBuilt
    <3>5. Len(stack) > R.off /\ Head(Last(stack).entries) \in R.keep
      BY <1>2, <3>2
    <3> HIDE DEF R, e
    <3>6. Len(stack) - R.off <= R.max
      BY <1>2, <3>2, <3>3, <3>5, DepthLimit
    <3>7. IsCover(R, R.in)
      BY <1>4 DEF IsCover
    <3>8. \E x \in NamesBelow(R.root, R.in, R.name, R.max) :
            Len(x[1]) = Len(stack) - R.off /\ x[2] = R.key[Head(Last(stack).entries)]
      <4>1. IsReading(R) /\ R.off \in {0, 1}
        BY <1>2
      <4> DEFINE in == R.in
                 named == R.name
      <4>2. IsCover(R, in)
        BY <3>7
      <4>3. Last(stack).entries # <<>>
        BY <3>2
      <4> HIDE DEF in, named
      <4>4. \E x \in NamesBelow(R.root, in, named, R.max) :
              Len(x[1]) = Len(stack) - R.off /\ x[2] = R.key[Head(Last(stack).entries)]
        BY ONLY <4>1, <3>4, <3>5, <4>3, <3>6, <4>2, EntryIsThere
      <4>5. QED
        BY <4>4 DEF in, named
    <3>9. R.key[Head(Last(stack).entries)] = e
      BY <1>2, <3>2
    <3>10. QED
      BY <1>2, <1>3, <3>8, <3>9
  <2>3. QED
    BY <2>1, <2>2
<1>6. PICK x \in SquashNames : Len(x[1]) = Len(stack) - 1 /\ x[2] = e
  BY <1>5
<1> HIDE DEF e, R
<1>7. QED
  BY <1>1, <1>6 DEF SquashIsBad

LEMMA SquashInvSteps ==
  ASSUME SquashInv, [Next]_vars
  PROVE  SquashInv'
<1>1. image' = image
  BY OwnSteps
<1>2. CASE image.kind # "squash"
  BY <1>1, <1>2 DEF SquashInv
<1> SUFFICES ASSUME image.kind = "squash" PROVE SquashInv'
  BY <1>2
<1>3. /\ IsSquash(image)
      /\ pc # "done" => result = "none"
      /\ pc \in {"detect", "super"} => nodes = <<>>
      /\ result \in {"none", "Ok", "Err"}
      /\ found.cursor = image.cursor /\ found.detected \in {None, Super.magic}
      /\ pc = "squash" => IsSuper /\ (AtSquashRoot \/ SquashTree)
  BY DEF SquashInv
<1>4. /\ SquashReading' = SquashReading /\ SquashRoot' = SquashRoot /\ Super' = Super
      /\ IsSuper' = IsSuper /\ SquashNames' = SquashNames
  BY <1>1, SquashSame
<1>5. IsSquash(image)' /\ SquashIsBad' = SquashIsBad /\ InOneBlock' = InOneBlock
  <2>1. \A x : CanReadInode(x)' = CanReadInode(x)
    BY <1>1, <1>4 DEF CanReadInode, block_count_for
  <2>2. \A x : InodeOf(x)' = InodeOf(x)
    BY <1>1 DEF InodeOf
  <2>3. \A i : CanReadDirectory(i)' = CanReadDirectory(i)
    BY <1>1 DEF CanReadDirectory
  <2>4. IsSquash(image)'
    BY <1>1, <1>3 DEF IsSquash
  <2>5. InOneBlock' = InOneBlock
    BY <1>1 DEF InOneBlock
  <2>6. QED
    BY <1>4, <2>1, <2>2, <2>3, <2>4, <2>5 DEF SquashIsBad
<1>6. UNCHANGED <<nodes, stack>> => AtSquashRoot' = AtSquashRoot /\ SquashTree' = SquashTree
  BY <1>4 DEF AtSquashRoot, SquashTree, IsBuilt, RootIsDone
<1>7. CASE UNCHANGED vars
  <2>1. /\ nodes' = nodes /\ stack' = stack /\ pc' = pc /\ result' = result /\ found' = found
    BY <1>7 DEF vars
  <2>2. IsBuilt(SquashReading, nodes, stack)' = IsBuilt(SquashReading, nodes, stack)
        /\ Parsed(nodes)' = Parsed(nodes) /\ Totalled(nodes)' = Totalled(nodes)
    BY <1>4, <2>1 DEF IsBuilt, Parsed, Totalled
  <2>3. QED
    BY <1>1, <1>4, <1>5, <1>6, <2>1, <2>2 DEF SquashInv
<1>8. CASE SquashDetect
  <2>1. found' = [ detected |-> Super.magic, cursor |->
                     PutBack(image.size, found.cursor, 0, SquashMagicSize) ]
        /\ pc = "detect" /\ pc' = "super" /\ result' = result /\ nodes' = nodes
    BY <1>8 DEF SquashDetect, At, Goto
  <2>2. PutBack(image.size, found.cursor, 0, SquashMagicSize) = image.cursor
    <3>1. image.cursor \in Nat
      BY <1>3, SquashFacts
    <3>2. ~(image.cursor < 0)
      BY <3>1
    <3>3. QED
      BY <1>3, <3>2 DEF PutBack, seek
  <2>3. found'.cursor = image.cursor /\ found'.detected = Super.magic
    BY <2>1, <2>2
  <2>4. result = "none" /\ nodes = <<>>
    BY <1>3, <2>1
  <2>5. QED
    BY <1>1, <1>4, <1>5, <2>1, <2>3, <2>4 DEF SquashInv
<1>9. CASE SquashUnprobed
  <2>1. /\ found' = found /\ pc' = "super" /\ result' = result /\ result = "none"
        /\ nodes' = nodes /\ nodes = <<>>
    BY <1>3, <1>9 DEF SquashUnprobed, At, Goto
  <2>2. QED
    BY <1>1, <1>3, <1>4, <1>5, <2>1 DEF SquashInv
<1>10. CASE BadSuper
  <2>1. found' = found /\ pc' = "done" /\ result' = "Err" /\ (~IsSuper \/ ~Super.plain)
    BY <1>10 DEF BadSuper, Stop, IsUncompressed
  <2>2. QED
    BY <1>1, <1>3, <1>4, <1>5, <2>1 DEF SquashInv
<1>11. CASE ReadSuper
  <2>1. /\ found' = found /\ pc = "super" /\ pc' = "squash" /\ result' = result /\ IsSuper
        /\ nodes' = nodes
        /\ stack' = << Frame(0, << [name |-> <<Slash>>, block |-> Super.block,
                                    offset |-> Super.offset] >>) >>
    BY <1>11 DEF ReadSuper, At, Goto
  <2>2. stack' = << Frame(0, << SquashRoot >>) >>
    BY <2>1 DEF SquashRoot
  <2>3. AtSquashRoot'
    BY <1>3, <1>4, <2>1, <2>2 DEF AtSquashRoot
  <2>4. result = "none"
    BY <1>3, <2>1
  <2>5. QED
    BY <1>1, <1>3, <1>4, <1>5, <2>1, <2>3, <2>4 DEF SquashInv
<1>12. CASE SquashFails
  <2>1. found' = found /\ pc = "squash" /\ pc' = "done" /\ result' = "Err"
    BY <1>12 DEF SquashFails, AtInode, At, Stop
  <2>2. InOneBlock => SquashIsBad
    BY <1>3, <1>12, <2>1, SquashGivesUp
  <2>3. QED
    BY <1>1, <1>3, <1>4, <1>5, <2>1, <2>2 DEF SquashInv
<1>13. CASE SquashDirectory \/ SquashFile \/ SquashOther
  <2>1. found' = found /\ pc = "squash" /\ pc' = "squash" /\ result' = result
    BY <1>13 DEF SquashDirectory, SquashFile, SquashOther, CanDescend, AtInode, At, Goto
  <2>2. SquashTree'
    BY <1>3, <1>13, <2>1, SquashSteps
  <2>3. result = "none" /\ IsSuper
    BY <1>3, <2>1
  <2>4. QED
    BY <1>1, <1>3, <1>4, <1>5, <2>1, <2>2, <2>3 DEF SquashInv
<1>14. CASE SquashReturn
  <2>1. pc = "squash" /\ Return /\ result = "none" /\ IsSuper
    BY <1>3, <1>14 DEF SquashReturn, At
  <2>2. SquashTree
    <3>1. ~Busy
      BY <2>1 DEF Return, Busy
    <3>2. QED
      BY <1>3, <2>1, <3>1, SquashBegins
  <2>3. IsReading(SquashReading) /\ IsBuilt(SquashReading, nodes, stack)
    BY <1>3, <2>2, SquashReadingFacts DEF SquashTree
  <2>4. /\ IsBuilt(SquashReading, nodes', stack') /\ found' = found
        /\ \/ pc' = pc /\ result' = result
           \/ pc' = "done" /\ result' = "Ok" /\ stack' = <<>>
              /\ Parsed(nodes') /\ Totalled(nodes')
    BY <2>1, <2>3, ReturnBuilt
  <2>5. RootIsDone(stack')
    <3>1. stack # <<>> /\ stack' = Front(stack)
      BY <2>1 DEF Return
    <3>2. QED
      BY <1>3, <2>2, <3>1, SquashFrames
  <2>6. SquashTree' /\ IsBuilt(SquashReading, nodes, stack)'
    BY <1>4, <2>4, <2>5 DEF SquashTree, IsBuilt, RootIsDone
  <2>7. CASE pc' = pc /\ result' = result
    BY <1>1, <1>3, <1>4, <1>5, <2>1, <2>4, <2>6, <2>7 DEF SquashInv
  <2>8. CASE pc' = "done" /\ result' = "Ok" /\ stack' = <<>>
             /\ Parsed(nodes') /\ Totalled(nodes')
    <3>1. Parsed(nodes)' /\ Totalled(nodes)'
      BY <2>8 DEF Parsed, Totalled
    <3>2. QED
      BY <1>1, <1>3, <1>4, <1>5, <2>1, <2>4, <2>6, <2>8, <3>1 DEF SquashInv
  <2>9. QED
    BY <2>4, <2>7, <2>8
<1>15. QED
  <2>1. UNCHANGED vars \/ SquashNext
    BY OwnSteps
  <2>2. QED
    BY <1>7, <1>8, <1>9, <1>10, <1>11, <1>12, <1>13, <1>14, <2>1 DEF SquashNext

LEMMA SquashTreeIsWhole ==
  ASSUME IsSquash(image), InOneBlock, IsSuper, IsBuilt(SquashReading, nodes, stack),
         stack = <<>>
  PROVE  TreeOf(LAMBDA k : << PathOf(k), nodes[k].location # None >>)
           = { << x[1], InOnePiece(InodeOf(x[2])) >> :
                 x \in { y \in SquashNames : y[1] # <<>> } }
<1>2. /\ IsSquash(image) /\ InOneBlock /\ IsSuper
      /\ IsBuilt(SquashReading, nodes, stack) /\ stack = <<>>
  OBVIOUS
<1> DEFINE R == SquashReading
           Of(x) == << x[1], InOnePiece(InodeOf(x[2])) >>
           Tree == { << PathOf(k), nodes[k].location # None >> : k \in 2..Len(nodes) }
           There == { Of(x) : x \in { y \in SquashNames : y[1] # <<>> } }
<1>4. PICK src, level : Built(R, nodes, stack, src, level)
  BY <1>2 DEF IsBuilt
<1>5. /\ IsReading(R) /\ R.sources = SquashEntry /\ R.root = SquashRoot
      /\ R.max = SquashDepth + 1 /\ ~R.lossy
      /\ \A e \in SquashEntry : /\ e \in R.fine <=> CanBeRead(e)
                                /\ R.location[e] = SquashLocation(e)
  BY <1>2, SquashReadingFacts
<1>6. /\ SquashNames = NamesBelow(R.root, R.in, R.name, R.max)
      /\ R.in \in [R.sources -> SUBSET R.sources] /\ R.root \in R.sources /\ R.max \in Nat
  BY <1>2, <1>5, NamesListed DEF IsReading
<1> HIDE DEF R
<1>7. IsCover(R, R.in) /\ SameNames(R, R.in, R.name) /\ HasAll(R, R.in, SquashNames)
  BY <1>6 DEF IsCover, SameNames, HasAll
<1>8. NodesAre(R, src, SquashNames) /\ AllNamed(R, src, SquashNames)
  <2> DEFINE in == R.in
             named == R.name
  <2>1. /\ IsCover(R, in) /\ SameNames(R, in, named)
        /\ SquashNames = NamesBelow(R.root, in, named, R.max)
    BY <1>6, <1>7
  <2>2. HasAll(R, in, SquashNames) /\ IsReading(R) /\ ~R.lossy /\ stack = <<>>
    BY <1>2, <1>5, <1>7
  <2> HIDE DEF in, named
  <2>3. /\ NodesAre(R, src, SquashNames)
        /\ stack = <<>> /\ ~R.lossy /\ HasAll(R, in, SquashNames)
             => AllNamed(R, src, SquashNames)
    BY ONLY <1>4, <2>1, <2>2, NamesAreNodes
  <2>4. QED
    BY <2>2, <2>3
<1>9. \A x \in SquashNames : x[2] \in SquashEntry /\ CanReadInode(x[2])
  <2>1. \A x \in SquashNames : x[2] \in R.sources
    <3> DEFINE in == R.in
               named == R.name
    <3>1. /\ in \in [R.sources -> SUBSET R.sources]
          /\ SquashNames = NamesBelow(R.root, in, named, R.max)
      BY <1>6
    <3> HIDE DEF in, named
    <3>2. QED
      BY <1>6, <3>1, NamesAreThere
  <2>2. QED
    BY <1>5, <1>8, <2>1 DEF AllNamed, CanBeRead
<1>10. \A e \in SquashEntry : CanReadInode(e) =>
         (SquashLocation(e) # None) = InOnePiece(InodeOf(e))
  <2> TAKE e \in SquashEntry
  <2> HAVE CanReadInode(e)
  <2>1. InOnePiece(InodeOf(e)) \in BOOLEAN
    BY DEF InOnePiece
  <2>2. CASE InOnePiece(InodeOf(e))
    <3>1. InodeOf(e).type = "reg" /\ IsLocated(e)
      BY <1>2, <2>2, SquashEntryFacts DEF InOnePiece
    <3>2. InodeOf(e).start \in Nat
      BY <1>2, <3>1, PlainFacts
    <3>3. SquashLocation(e) = InodeOf(e).start
      BY <2>2 DEF SquashLocation
    <3>4. QED
      BY <2>2, <3>2, <3>3, TreeAssumption
  <2>3. CASE ~InOnePiece(InodeOf(e))
    BY <2>1, <2>3 DEF SquashLocation
  <2>4. QED
    BY <2>1, <2>2, <2>3
<1>11. ASSUME NEW k \in 2..Len(nodes)
       PROVE  /\ << PathOf(k), nodes[k].location # None >> = Of(<< PathOf(k), src[k] >>)
              /\ << PathOf(k), src[k] >> \in SquashNames /\ PathOf(k) # <<>>
  <2>1. /\ << PathOf(k), src[k] >> \in SquashNames /\ PathOf(k) # <<>>
        /\ nodes[k].location = R.location[src[k]]
    BY <1>8 DEF NodesAre
  <2>2. src[k] \in SquashEntry /\ CanReadInode(src[k])
    BY <1>9, <2>1
  <2>3. (nodes[k].location # None) = InOnePiece(InodeOf(src[k]))
    BY <1>5, <1>10, <2>1, <2>2
  <2>4. QED
    BY <2>1, <2>3
<1>12. Tree \subseteq There
  <2>1. ASSUME NEW k \in 2..Len(nodes)
        PROVE  << PathOf(k), nodes[k].location # None >> \in There
    <3> DEFINE x == << PathOf(k), src[k] >>
    <3>1. x \in SquashNames /\ x[1] # <<>>
      BY <1>11
    <3>2. << PathOf(k), nodes[k].location # None >> = Of(x)
      BY <1>11
    <3> HIDE DEF x, Of
    <3>3. QED
      BY <3>1, <3>2
  <2>2. QED
    BY <2>1
<1>13. There \subseteq Tree
  <2>1. ASSUME NEW x \in SquashNames, x[1] # <<>> PROVE Of(x) \in Tree
    <3>1. PICK k \in 2..Len(nodes) : PathOf(k) = x[1] /\ src[k] = x[2]
      BY <1>8, <2>1 DEF AllNamed
    <3>2. << PathOf(k), nodes[k].location # None >> = Of(<< PathOf(k), src[k] >>)
      BY <1>11
    <3>3. Of(<< PathOf(k), src[k] >>) = Of(x)
      BY <3>1
    <3> HIDE DEF Of
    <3>4. QED
      BY <3>2, <3>3
  <2> HIDE DEF Of, Tree
  <2>2. QED
    BY <2>1
<1>15. TreeOf(LAMBDA k : << PathOf(k), nodes[k].location # None >>) = There
  <2>1. TreeOf(LAMBDA k : << PathOf(k), nodes[k].location # None >>) = Tree
    BY DEF TreeOf
  <2> HIDE DEF Tree, There
  <2>2. QED
    BY <1>12, <1>13, <2>1
<1>16. QED
  BY <1>15

LEMMA SquashTreeHolds == SquashInv => SquashTreeIsTheImage
<1> SUFFICES ASSUME SquashInv, Finished("squash") PROVE SquashTreeIsTheImage
  BY DEF SquashTreeIsTheImage
<1>1. image.kind = "squash" /\ result # "none"
  BY DEF Finished
<1>2. /\ IsSquash(image) /\ result \in {"Ok", "Err"}
      /\ found.cursor = image.cursor /\ found.detected \in {None, Super.magic}
      /\ result = "Ok" => IsSuper /\ IsBuilt(SquashReading, nodes, stack) /\ stack = <<>>
      /\ InOneBlock /\ result = "Err" => ~IsSuper \/ ~Super.plain \/ SquashIsBad
  BY <1>1 DEF SquashInv
<1>3. result = "Ok" => found.detected # FALSE
  <2>1. None # FALSE /\ (IsSuper => Super.magic)
    BY TreeAssumption DEF IsSuper
  <2>2. Super.magic \in BOOLEAN
    BY <1>2, SquashFacts
  <2>3. QED
    BY <1>2, <2>1, <2>2
<1>4. CASE ~InOneBlock
  BY <1>2, <1>3, <1>4 DEF SquashTreeIsTheImage
<1>5. CASE InOneBlock /\ result # "Ok"
  <2>1. ~IsSuper \/ ~Super.plain \/ SquashIsBad
    BY <1>2, <1>5
  <2>2. QED
    BY <1>5, <2>1 DEF SquashTreeIsTheImage, SquashIsBad
<1>6. ASSUME InOneBlock, result = "Ok"
      PROVE  TreeOf(LAMBDA k : << PathOf(k), nodes[k].location # None >>)
               = { << x[1], InOnePiece(InodeOf(x[2])) >> :
                     x \in { y \in SquashNames : y[1] # <<>> } }
  BY <1>2, <1>6, SquashTreeIsWhole
<1>7. QED
  BY <1>2, <1>3, <1>4, <1>5, <1>6 DEF SquashTreeIsTheImage

(* The tree of a SquashFS image has every name of its directories, and an  *)
(* image that is refused has something that cannot be read.                *)
THEOREM SquashTreeIsRight == Spec => []SquashTreeIsTheImage
<1>1. Init => SquashInv
  BY SquashInit
<1>2. SquashInv /\ [Next]_vars => SquashInv'
  BY SquashInvSteps
<1>3. SquashInv => SquashTreeIsTheImage
  BY SquashTreeHolds
<1>4. QED
  BY <1>1, <1>2, <1>3, PTL DEF Spec

-----------------------------------------------------------------------------
(* Where each source has one node only: a directory, the root.             *)
LEMMA SoleDirectory ==
  ASSUME NEW R, IsReading(R), OneFolder(R), NEW ns, NEW st, IsSole(R, ns, st),
         Len(st) > R.off, Last(st).entries # <<>>,
         NEW e, e = R.key[Head(Last(st).entries)],
         NEW y, IsMadeFor(R, y, e, Last(st).node), e \in R.fine, R.dir[e],
         Len(st) - R.off < R.max,
         NEW es, es \in Seq(R.entries),
         \A i \in 1..Len(es) : R.key[es[i]] \in R.in[e],
         \A i, h \in 1..Len(es) : R.key[es[i]] = R.key[es[h]] => i = h,
         \A d \in R.in[e] : \E i \in 1..Len(es) : R.key[es[i]] = d
  PROVE  IsSole(R, Append(ns, y), Append(Drawn(st), Frame(Len(ns) + 1, es)))
<1> DEFINE t == Append(ns, y)
           u == Drawn(st)
           f == Frame(Len(ns) + 1, es)
           v == Append(u, f)
<1>1. PICK src, level : Built(R, ns, st, src, level) /\ Sole(R, ns, st, src)
  BY DEF IsSole
<1>2. Head(Last(st).entries) \in R.keep /\ u \in Seq(FramesOver(R.entries))
  BY <1>1, OthersWait
<1>3. PICK s, l : /\ Built(R, t, v, s, l)
                  /\ IsEnlarged(ns, src, level, t, s, l, e, Last(st).node)
  <2>1. /\ Descends(R, e) => Len(st) - R.off < R.max
        /\ \A i \in 1..Len(es) : es[i] \in R.keep => R.key[es[i]] \in R.in[e]
    OBVIOUS
  <2> HIDE DEF t, u, f, v
  <2>2. \E s, l : /\ Built(R, Append(ns, y), Append(Drawn(st), Frame(Len(ns) + 1, es)), s, l)
                   /\ IsEnlarged(ns, src, level, Append(ns, y), s, l, e, Last(st).node)
    <3>1. /\ IsReading(R) /\ Built(R, ns, st, src, level) /\ Len(st) > R.off
          /\ Last(st).entries # <<>> /\ Head(Last(st).entries) \in R.keep
          /\ e = R.key[Head(Last(st).entries)] /\ IsMadeFor(R, y, e, Last(st).node)
          /\ e \in R.fine /\ R.dir[e] /\ (Descends(R, e) => Len(st) - R.off < R.max)
          /\ es \in Seq(R.entries)
          /\ \A i \in 1..Len(es) : es[i] \in R.keep => R.key[es[i]] \in R.in[e]
          /\ \A d \in R.in[e] : \E i \in 1..Len(es) : R.key[es[i]] = d
      BY <1>1, <1>2, <2>1
    <3>2. QED
      BY ONLY <3>1, BuiltDirectory
  <2>3. QED
    BY <2>2 DEF t, u, f, v
<1>4. Sole(R, t, u, s)
  BY <1>1, <1>3, SoleAdded
<1>5. NodesBuilt(R, t, s, l)
  BY <1>3 DEF Built
<1>6. Len(ns) \in Nat /\ Len(t) = Len(ns) + 1 /\ s[Len(t)] = e
  BY <1>1, <1>3, TreeFacts DEF IsEnlarged, Built, NodesBuilt
<1>7. e \in R.sources
  <2>1. Len(t) \in 1..Len(t)
    BY <1>6
  <2>2. QED
    BY <1>5, <1>6, <2>1 DEF NodesBuilt
<1>8. f \in FramesOver(R.entries) /\ f.entries = es
  <2>1. Len(ns) + 1 \in Nat
    BY <1>6
  <2>2. QED
    BY <2>1 DEF Frame, FramesOver
<1> HIDE DEF t, u, f
<1>9. /\ Len(v) = Len(u) + 1 /\ Len(u) \in Nat /\ v[Len(u) + 1] = f
      /\ \A j \in 1..Len(u) : v[j] = u[j]
  BY <1>2, <1>8, AppendProperties, LenProperties
<1> HIDE DEF v
<1>10. v[Len(u) + 1].entries = es
  BY <1>8, <1>9
<1>11. Sole(R, t, v, s)
  <2>1. /\ IsReading(R) /\ OneFolder(R) /\ NodesBuilt(R, t, s, l) /\ Len(u) \in Nat
        /\ Sole(R, t, u, s) /\ e \in R.sources /\ s[Len(t)] = e
        /\ \A i \in 1..Len(es) : R.key[es[i]] \in R.in[e]
        /\ \A i, h \in 1..Len(es) : R.key[es[i]] = R.key[es[h]] => i = h
        /\ Len(v) = Len(u) + 1 /\ (\A j \in 1..Len(u) : v[j] = u[j])
        /\ v[Len(u) + 1].entries = es
    BY <1>4, <1>5, <1>6, <1>7, <1>9, <1>10
  <2>2. QED
    BY ONLY <2>1, SolePushed
<1>12. IsSole(R, t, v)
  BY <1>3, <1>11 DEF IsSole
<1>13. QED
  BY <1>12 DEF t, u, f, v

LEMMA SoleRoot ==
  ASSUME NEW R, IsReading(R), OneFolder(R), R.off = 0,
         NEW ns, Parsed(ns), Len(ns) = 1, ns[1].is_directory,
         R.root \in R.fine, R.max > 0,
         NEW es, es \in Seq(R.entries),
         \A i \in 1..Len(es) : R.key[es[i]] \in R.in[R.root],
         \A i, h \in 1..Len(es) : R.key[es[i]] = R.key[es[h]] => i = h,
         \A d \in R.in[R.root] : \E i \in 1..Len(es) : R.key[es[i]] = d
  PROVE  IsSole(R, ns, << Frame(1, es) >>)
<1> DEFINE f == Frame(1, es)
           v == << f >>
<1>1. f \in FramesOver(R.entries) /\ f.entries = es
  BY DEF Frame, FramesOver
<1>2. v \in Seq(FramesOver(R.entries)) /\ Len(v) = 1 /\ v[1] = f
  <2> HIDE DEF f
  <2>1. QED
    BY <1>1
<1> HIDE DEF v
<1>3. /\ Len(v) = R.off + 1 /\ v[R.off + 1] = Frame(1, es)
  BY <1>2 DEF f
<1> HIDE DEF f
<1>4. PICK s, l : Built(R, ns, v, s, l)
  BY <1>2, <1>3, BuiltRoot
<1>5. NodesBuilt(R, ns, s, l) /\ s[1] = R.root /\ R.root \in R.sources
  BY <1>4 DEF Built, NodesBuilt, IsReading
<1> DEFINE u == << >>
<1>6. Len(u) = 0
  OBVIOUS
<1> HIDE DEF u
<1>7. Sole(R, ns, u, s)
  <2>1. (\A a \in 1..1 : a = 1) /\ \A j \in (0 + 1)..0 : FALSE
    OBVIOUS
  <2>2. QED
    BY <1>6, <2>1 DEF Sole
<1>8. /\ Len(u) \in Nat /\ Len(v) = Len(u) + 1 /\ (\A j \in 1..Len(u) : v[j] = u[j])
      /\ v[Len(u) + 1].entries = es
  <2>1. \A j \in 1..0 : FALSE
    OBVIOUS
  <2>2. QED
    BY <1>1, <1>2, <1>6, <2>1
<1>9. s[Len(ns)] = R.root
  BY <1>5
<1>10. Sole(R, ns, v, s)
  <2>1. /\ IsReading(R) /\ OneFolder(R) /\ NodesBuilt(R, ns, s, l) /\ Len(u) \in Nat
        /\ Sole(R, ns, u, s) /\ R.root \in R.sources /\ s[Len(ns)] = R.root
        /\ \A i \in 1..Len(es) : R.key[es[i]] \in R.in[R.root]
        /\ \A i, h \in 1..Len(es) : R.key[es[i]] = R.key[es[h]] => i = h
        /\ Len(v) = Len(u) + 1 /\ (\A j \in 1..Len(u) : v[j] = u[j])
        /\ v[Len(u) + 1].entries = es
    BY <1>5, <1>7, <1>8, <1>9
  <2>2. QED
    BY ONLY <2>1, SolePushed
<1>11. QED
  BY <1>4, <1>10 DEF IsSole, v, f

(* A directory is left, or the tree returned.                              *)
LEMMA ReturnSole ==
  ASSUME NEW R, IsReading(R), IsSole(R, nodes, stack), Return
  PROVE  /\ IsSole(R, nodes', stack') /\ image' = image /\ found' = found
         /\ \/ pc' = pc /\ result' = result
            \/ pc' = "done" /\ result' = "Ok" /\ stack' = <<>>
               /\ Parsed(nodes') /\ Totalled(nodes')
<1>1. PICK src, level : Built(R, nodes, stack, src, level) /\ Sole(R, nodes, stack, src)
  BY DEF IsSole
<1>2. stack # <<>> /\ stack' = Front(stack) /\ stack \in Seq(FramesOver(R.entries))
  BY <1>1 DEF Return, Built, FramesOpen
<1> DEFINE n == Len(stack)
           t == Front(stack)
<1>3. /\ t \in Seq(FramesOver(R.entries)) /\ Len(t) = n - 1 /\ n \in Nat \ {0}
      /\ \A i \in 1..(n - 1) : t[i] = stack[i]
  BY <1>2, FrontFacts
<1>4. R.off \in Nat
  BY DEF IsReading
<1> HIDE DEF n, t
<1>5. \A j \in (R.off + 1)..Len(t) : j \in (R.off + 1)..n /\ t[j] = stack[j]
  BY <1>3, <1>4
<1>6. /\ Built(R, nodes', stack', src, level) /\ Len(nodes') = Len(nodes)
      /\ image' = image /\ found' = found
      /\ \/ pc' = pc /\ result' = result
         \/ pc' = "done" /\ result' = "Ok" /\ stack' = <<>>
            /\ Parsed(nodes') /\ Totalled(nodes')
  BY <1>1, ReturnKeeps
<1>7. Sole(R, nodes', t, src)
  <2>1. /\ \A a, b \in 1..Len(nodes) : src[a] = src[b] => a = b
        /\ \A j \in (R.off + 1)..n :
             /\ \A i, h \in 1..Len(stack[j].entries) :
                  R.key[stack[j].entries[i]] = R.key[stack[j].entries[h]] => i = h
             /\ \A i \in 1..Len(stack[j].entries) : \A k \in 1..Len(nodes) :
                  src[k] # R.key[stack[j].entries[i]]
    BY <1>1 DEF Sole, n
  <2>2. \A j \in (R.off + 1)..Len(t) :
          /\ \A i, h \in 1..Len(t[j].entries) :
               R.key[t[j].entries[i]] = R.key[t[j].entries[h]] => i = h
          /\ \A i \in 1..Len(t[j].entries) : \A k \in 1..Len(nodes) :
               src[k] # R.key[t[j].entries[i]]
    <3> TAKE j \in (R.off + 1)..Len(t)
    <3>1. j \in (R.off + 1)..n /\ t[j] = stack[j]
      BY <1>5
    <3>2. QED
      BY <2>1, <3>1
  <2>3. Len(nodes') = Len(nodes)
    BY <1>6
  <2>4. QED
    BY <2>1, <2>2, <2>3 DEF Sole
<1>8. Sole(R, nodes', stack', src)
  BY <1>2, <1>7 DEF t
<1>9. QED
  BY <1>6, <1>8 DEF IsSole

-----------------------------------------------------------------------------
(* The NTFS reader.  The first of what is chosen of a sequence.            *)
LEMMA FirstChosen ==
  ASSUME NEW X, NEW s \in Seq(X), NEW S \in SUBSET (DOMAIN s), NEW i \in S,
         \A j \in S : i <= j
  PROVE  Chosen(s, S) # <<>> /\ Chosen(s, S)[1] = s[i]
<1> DEFINE c == Cardinality(S)
           n == Len(s)
<1>1. n \in Nat /\ DOMAIN s = 1..n
  BY LenProperties
<1>2. /\ Chosen(s, S) \in Seq(X) /\ Len(Chosen(s, S)) = c /\ c \in Nat
      /\ \A k \in 1..c : /\ Nth(S, k) \in S /\ Chosen(s, S)[k] = s[Nth(S, k)]
                         /\ CountTo(S, Nth(S, k)) = k
  BY ChosenFacts
<1>3. S \in SUBSET (1..n)
  BY <1>1
<1> HIDE DEF n
<1>4. CountTo(S, i) \in 1..c
  BY <1>1, <1>3, Counting
<1>5. 1 \in 1..c
  BY <1>2, <1>4
<1>6. Nth(S, 1) \in S /\ CountTo(S, Nth(S, 1)) = 1 /\ Chosen(s, S)[1] = s[Nth(S, 1)]
  BY <1>2, <1>5
<1>7. Nth(S, 1) = i
  <2> DEFINE j == Nth(S, 1)
  <2>1. S \in SUBSET (Nat \ {0}) /\ j \in S /\ CountTo(S, j) = 1
    BY <1>3, <1>6
  <2> HIDE DEF j
  <2>2. ~(i < j)
    <3>1. i < j => CountTo(S, i) < CountTo(S, j)
      BY <2>1, CountOrder
    <3>2. QED
      BY <1>2, <1>4, <2>1, <3>1
  <2>3. i <= j /\ i \in Nat /\ j \in Nat
    BY <2>1
  <2>4. i = j
    BY <2>2, <2>3
  <2>5. QED
    BY <2>4 DEF j
<1>8. Chosen(s, S) # <<>>
  <2>1. Len(<<>>) = 0
    OBVIOUS
  <2>2. QED
    BY <1>2, <1>5, <2>1
<1>9. QED
  BY <1>6, <1>7, <1>8
LEMMA NoneChosen == \A s : Chosen(s, {}) = <<>>
<1>1. Cardinality({}) = 0
  BY FS_EmptySet
<1>2. QED
  BY <1>1 DEF Chosen

(* The names of a record: where its attributes are names, and those of     *)
(* some namespaces.                                                        *)
MftRecord == [ file : BOOLEAN, usa : BOOLEAN, in_use : BOOLEAN, attributes : Seq(Attribute) ]
NamePlaces(W) ==
  { i \in DOMAIN W : IF W[i].type = "name" THEN W[i].whole /\ W[i].namespace # Dos
                     ELSE FALSE }
OwnPlaces(W, S) ==
  { i \in DOMAIN W : IF W[i].type = "name" THEN W[i].whole /\ W[i].namespace \in S
                     ELSE FALSE }
LEMMA AttributeFacts ==
  ASSUME NEW a \in Attribute
  PROVE  /\ a.type = "name" => /\ a.whole \in BOOLEAN /\ a.parent \in Nat
                               /\ a.namespace \in Nat /\ a.directory \in BOOLEAN
         /\ a.type = "data" =>
              /\ a.whole \in BOOLEAN /\ a.resident \in BOOLEAN /\ a.at \in Nat /\ a.size \in Nat
              /\ a.runs \in Seq([sparse : BOOLEAN, delta : Int, length : Nat])
<1>1. CASE a \in [ type : {"name"}, fits : BOOLEAN, whole : BOOLEAN, parent : Nat,
                   name : Seq(Nat), namespace : Nat, directory : BOOLEAN ]
  BY <1>1
<1>2. CASE a \in [ type : {"data"}, fits : BOOLEAN, whole : BOOLEAN, resident : BOOLEAN,
                   at : Nat, size : Nat,
                   runs : Seq([sparse : BOOLEAN, delta : Int, length : Nat]) ]
  BY <1>2
<1>3. CASE a \in [ type : {"other", "edge"}, fits : BOOLEAN ]
  BY <1>3
<1>4. QED
  BY <1>1, <1>2, <1>3 DEF Attribute
LEMMA WalkedFacts ==
  ASSUME NEW record \in MftRecord
  PROVE  /\ Walked(record) \in Seq(Attribute)
         /\ DOMAIN Walked(record) = 1..Len(Walked(record)) /\ Len(Walked(record)) \in Nat
         /\ \A i \in DOMAIN Walked(record) : Walked(record)[i] \in Attribute
<1> DEFINE as == record.attributes
           B == { i \in DOMAIN as : ~as[i].fits }
           W == Walked(record)
<1>1. as \in Seq(Attribute)
  BY DEF MftRecord
<1>2. W = CutOff(as, B)
  BY DEF Walked, CutOff
<1>3. B \in SUBSET (DOMAIN as)
  OBVIOUS
<1> HIDE DEF as, B, W
<1>4. W \in Seq(Attribute)
  BY <1>1, <1>2, <1>3, CutOffSet
<1>5. DOMAIN W = 1..Len(W) /\ Len(W) \in Nat /\ \A i \in 1..Len(W) : W[i] \in Attribute
  BY <1>4, LenProperties, ElementOfSeq
<1>6. QED
  BY <1>4, <1>5 DEF W

(* The first of the best namespace.                                        *)
IsBest(W, I, i) ==
  \A j \in I : \/ namespace_priority(W[j].namespace) < namespace_priority(W[i].namespace)
               \/ /\ namespace_priority(W[j].namespace) = namespace_priority(W[i].namespace)
                  /\ i <= j
(* The best of the names is the first of the best namespace.               *)
LEMMA BestFacts ==
  ASSUME NEW W \in Seq(Attribute), NEW I \in SUBSET (DOMAIN W), I # {}
  PROVE  \E i \in I : BestName(Chosen(W, I)) = W[i] /\ IsBest(W, I, i)
<1> DEFINE c == Cardinality(I)
           names == Chosen(W, I)
           q(k) == namespace_priority(names[k].namespace)
           Best(i) == \A j \in 1..c : q(j) < q(i) \/ (q(j) = q(i) /\ i <= j)
           b == CHOOSE i \in 1..c : Best(i)
<1>1. /\ names \in Seq(Attribute) /\ Len(names) = c /\ c \in Nat
      /\ \A k \in 1..c : /\ Nth(I, k) \in I /\ names[k] = W[Nth(I, k)]
                         /\ CountTo(I, Nth(I, k)) = k
      /\ \A i \in I : \E k \in 1..c : Nth(I, k) = i
  BY ChosenFacts
<1>2. DOMAIN names = 1..c /\ DOMAIN W = 1..Len(W)
  BY <1>1, LenProperties
<1>3. \A n : namespace_priority(n) \in 0..3
  BY DEF namespace_priority
<1>4. BestName(names) = names[b]
  BY <1>2 DEF BestName
<1>5. \E i \in 1..c : Best(i)
  <2> DEFINE Q == { q(k) : k \in 1..c }
  <2>1. Q \in SUBSET (0..3)
    BY <1>3
  <2>2. Q # {}
    BY <1>1
  <2> HIDE DEF Q, q
  <2>3. PICK M \in Q : \A v \in Q : M >= v
    BY <2>1, <2>2, GreatestElement
  <2> DEFINE T == { k \in 1..c : q(k) = M }
  <2>4. T \in SUBSET Nat /\ T # {}
    BY <2>3 DEF Q
  <2> HIDE DEF T
  <2>5. PICK i \in T : \A v \in T : i <= v
    BY <2>4, LeastElement
  <2>6. i \in 1..c /\ q(i) = M
    BY DEF T
  <2>7. ASSUME NEW j \in 1..c PROVE q(j) < q(i) \/ (q(j) = q(i) /\ i <= j)
    <3>1. q(j) \in Q /\ q(j) \in Nat /\ M \in Nat
      BY <2>1, <2>3 DEF Q
    <3>2. q(j) = M => i <= j
      BY <2>5 DEF T
    <3>3. QED
      BY <2>3, <2>6, <3>1, <3>2
  <2>8. QED
    BY <2>6, <2>7
<1> HIDE DEF Best
<1>6. b \in 1..c /\ Best(b)
  BY <1>5
<1> HIDE DEF b, names, c, q
<1>7. Nth(I, b) \in I /\ names[b] = W[Nth(I, b)]
  BY <1>1, <1>6
<1>8. ASSUME NEW j \in I
      PROVE  LET p(k) == namespace_priority(W[k].namespace)
             IN  p(j) < p(Nth(I, b)) \/ (p(j) = p(Nth(I, b)) /\ Nth(I, b) <= j)
  <2>1. PICK k \in 1..c : Nth(I, k) = j
    BY <1>1
  <2>2. q(k) < q(b) \/ (q(k) = q(b) /\ b <= k)
    BY <1>6 DEF Best
  <2>3. /\ q(k) = namespace_priority(W[j].namespace)
        /\ q(b) = namespace_priority(W[Nth(I, b)].namespace)
    BY <1>1, <1>7, <2>1 DEF q
  <2>4. b <= k => Nth(I, b) <= j
    <3> DEFINE h == Nth(I, b)
    <3>1. h \in I /\ CountTo(I, h) = b /\ CountTo(I, j) = k /\ I \in SUBSET (Nat \ {0})
      BY <1>1, <1>2, <1>6, <2>1
    <3> HIDE DEF h
    <3>2. j < h <=> CountTo(I, j) < CountTo(I, h)
      BY <3>1, CountOrder
    <3>3. b \in Nat /\ k \in Nat /\ j \in Nat /\ h \in Nat
      BY <1>6, <3>1
    <3>4. QED
      BY <3>1, <3>2, <3>3 DEF h
  <2>5. QED
    BY <2>2, <2>3, <2>4
<1>9. QED
  BY <1>4, <1>7, <1>8 DEF names, IsBest

(* The name a record is listed by is the one its attributes give it.       *)
LEMMA OwnIsFirst ==
  ASSUME NEW W \in Seq(Attribute), NEW I \in SUBSET (DOMAIN W), NEW O \in SUBSET I,
         NEW i \in I, IsBest(W, I, i)
  PROVE  /\ i \in O /\ (\A j \in O : namespace_priority(W[j].namespace)
                                       = namespace_priority(W[i].namespace))
              => Chosen(W, O) # <<>> /\ Chosen(W, O)[1] = W[i]
         /\ (\A j \in O : namespace_priority(W[j].namespace)
                            > namespace_priority(W[i].namespace)) => Chosen(W, O) = <<>>
<1> DEFINE p(k) == namespace_priority(W[k].namespace)
<1>1. \A k : p(k) \in 0..3
  BY DEF namespace_priority
<1>2. \A j \in I : p(j) < p(i) \/ (p(j) = p(i) /\ i <= j)
  BY DEF IsBest
<1> HIDE DEF p
<1>3. ASSUME i \in O, \A j \in O : p(j) = p(i)
      PROVE  Chosen(W, O) # <<>> /\ Chosen(W, O)[1] = W[i]
  <2>1. \A j \in O : i <= j
    BY <1>1, <1>2, <1>3
  <2>2. QED
    BY <1>3, <2>1, FirstChosen
<1>4. ASSUME \A j \in O : p(j) > p(i) PROVE Chosen(W, O) = <<>>
  <2>1. \A j \in O : FALSE
    BY <1>1, <1>2, <1>4
  <2>2. O = {}
    BY <2>1
  <2>3. QED
    BY <2>2, NoneChosen
<1>5. QED
  BY <1>3, <1>4 DEF p
LEMMA NameIsGiven ==
  ASSUME NEW n, image.mft[n + 1] \in MftRecord
  PROVE  /\ NamesOf(image.mft[n + 1]) # <<>> <=> GivenNames(n) # <<>>
         /\ GivenNames(n) # <<>> =>
              /\ BestName(NamesOf(image.mft[n + 1])) = GivenName(n)
              /\ GivenName(n) \in Attribute /\ GivenName(n).type = "name"
<1> DEFINE W == Walked(image.mft[n + 1])
           I == NamePlaces(W)
           O3 == OwnPlaces(W, {Win32AndDos})
           O2 == OwnPlaces(W, {Win32})
           O1 == OwnPlaces(W, {Posix})
           O0 == OwnPlaces(W, Nat \ {Win32AndDos, Win32, Dos, Posix})
           a == Chosen(W, O3)
           b == Chosen(W, O2)
           c == Chosen(W, O1)
           d == Chosen(W, O0)
           g == a \o b \o c \o d
           p(k) == namespace_priority(W[k].namespace)
<1>1. W \in Seq(Attribute) /\ \A i \in DOMAIN W : W[i] \in Attribute
  BY WalkedFacts
<1>2. NamesOf(image.mft[n + 1]) = Chosen(W, I)
  BY DEF NamesOf, Select, NamePlaces
<1>3. GivenNames(n) = g
  BY DEF GivenNames, Select, OwnPlaces
<1> HIDE DEF W
<1>4. \A i \in DOMAIN W : W[i].type = "name" => W[i].namespace \in Nat
  BY <1>1, AttributeFacts
<1>5. /\ I \in SUBSET (DOMAIN W) /\ O3 \in SUBSET I /\ O2 \in SUBSET I
      /\ O1 \in SUBSET I /\ O0 \in SUBSET I /\ \A i \in I : W[i].type = "name"
      /\ \A i \in I : i \in O3 \/ i \in O2 \/ i \in O1 \/ i \in O0
      /\ \A i \in O3 : p(i) = 3
      /\ \A i \in O2 : p(i) = 2
      /\ \A i \in O1 : p(i) = 1
      /\ \A i \in O0 : p(i) = 0
  BY <1>4 DEF NamePlaces, OwnPlaces, namespace_priority, Win32AndDos, Win32, Posix, Dos
<1>6. a \in Seq(Attribute) /\ b \in Seq(Attribute) /\ c \in Seq(Attribute) /\ d \in Seq(Attribute)
  <2> HIDE DEF I, O3, O2, O1, O0
  <2>1. \A O \in SUBSET I : Chosen(W, O) \in Seq(Attribute)
    BY <1>1, <1>5, ChosenFacts
  <2>2. QED
    BY <1>5, <2>1
<1> HIDE DEF I, O3, O2, O1, O0, a, b, c, d
<1>7. /\ g # <<>> <=> a # <<>> \/ b # <<>> \/ c # <<>> \/ d # <<>>
      /\ g # <<>> => g[1] = IF a # <<>> THEN a[1] ELSE IF b # <<>> THEN b[1]
                            ELSE IF c # <<>> THEN c[1] ELSE d[1]
  <2>1. FirstOf(g, a, b, c, d)
    BY <1>6, FirstOfFour
  <2> HIDE DEF g
  <2>2. QED
    BY <2>1 DEF FirstOf
<1> HIDE DEF g
<1>8. CASE I = {}
  <2>1. Chosen(W, I) = <<>>
    BY <1>8, NoneChosen
  <2>2. O3 = {} /\ O2 = {} /\ O1 = {} /\ O0 = {}
    BY <1>5, <1>8
  <2>3. a = <<>> /\ b = <<>> /\ c = <<>> /\ d = <<>>
    BY <2>2, NoneChosen DEF a, b, c, d
  <2>4. QED
    BY <1>2, <1>3, <1>7, <2>1, <2>3
<1>9. CASE I # {}
  <2>1. PICK i \in I : BestName(Chosen(W, I)) = W[i] /\ IsBest(W, I, i)
    BY <1>1, <1>5, <1>9, BestFacts
  <2> HIDE DEF p
  <2>2. ASSUME NEW O \in SUBSET I
        PROVE  /\ i \in O /\ (\A j \in O : p(j) = p(i))
                    => Chosen(W, O) # <<>> /\ Chosen(W, O)[1] = W[i]
               /\ (\A j \in O : p(j) > p(i)) => Chosen(W, O) = <<>>
    <3>2. /\ i \in O /\ (\A j \in O : namespace_priority(W[j].namespace)
                                       = namespace_priority(W[i].namespace))
               => Chosen(W, O) # <<>> /\ Chosen(W, O)[1] = W[i]
          /\ (\A j \in O : namespace_priority(W[j].namespace)
                             > namespace_priority(W[i].namespace)) => Chosen(W, O) = <<>>
      BY <1>1, <1>5, <2>1, OwnIsFirst
    <3>3. QED
      BY <3>2 DEF p
  <2>3. Chosen(W, I) # <<>>
    <3>1. \E k \in 1..Cardinality(I) : Nth(I, k) = i
      BY <1>1, <1>5, ChosenFacts
    <3>2. Len(Chosen(W, I)) = Cardinality(I) /\ Cardinality(I) \in Nat
      BY <1>1, <1>5, ChosenFacts
    <3>3. Len(<<>>) = 0
      OBVIOUS
    <3>4. QED
      BY <3>1, <3>2, <3>3
  <2>4. g # <<>> /\ g[1] = W[i]
    <3>1. CASE i \in O3
      <4>1. a # <<>> /\ a[1] = W[i]
        BY <1>5, <2>2, <3>1 DEF a
      <4>2. QED
        BY <1>7, <4>1
    <3>2. CASE i \in O2
      <4>1. p(i) = 2 /\ (\A j \in O3 : p(j) > p(i)) /\ \A j \in O2 : p(j) = p(i)
        BY <1>5, <3>2
      <4>2. a = <<>> /\ b # <<>> /\ b[1] = W[i]
        BY <1>5, <2>2, <3>2, <4>1 DEF a, b
      <4>3. QED
        BY <1>7, <4>2
    <3>3. CASE i \in O1
      <4>1. /\ p(i) = 1 /\ (\A j \in O3 : p(j) > p(i)) /\ (\A j \in O2 : p(j) > p(i))
            /\ \A j \in O1 : p(j) = p(i)
        BY <1>5, <3>3
      <4>2. a = <<>> /\ b = <<>> /\ c # <<>> /\ c[1] = W[i]
        BY <1>5, <2>2, <3>3, <4>1 DEF a, b, c
      <4>3. QED
        BY <1>7, <4>2
    <3>4. CASE i \in O0
      <4>1. /\ p(i) = 0 /\ (\A j \in O3 : p(j) > p(i)) /\ (\A j \in O2 : p(j) > p(i))
            /\ (\A j \in O1 : p(j) > p(i)) /\ \A j \in O0 : p(j) = p(i)
        BY <1>5, <3>4
      <4>2. a = <<>> /\ b = <<>> /\ c = <<>> /\ d # <<>> /\ d[1] = W[i]
        BY <1>5, <2>2, <3>4, <4>1 DEF a, b, c, d
      <4>3. QED
        BY <1>7, <4>2
    <3>5. QED
      BY <1>5, <3>1, <3>2, <3>3, <3>4
  <2>5. GivenName(n) = W[i]
    BY <1>3, <2>4 DEF GivenName
  <2>6. W[i] \in Attribute /\ W[i].type = "name"
    BY <1>1, <1>5
  <2>7. QED
    BY <1>2, <1>3, <2>1, <2>3, <2>4, <2>5, <2>6
<1>10. QED
  BY <1>8, <1>9

(* What is kept of a record in use, and which these are.                   *)
InfoOf(n) == RecordInfo(image.mft[n + 1], n)
LEMMA NtfsFacts ==
  ASSUME IsNtfs(image)
  PROVE  /\ RecordGuard \in Nat /\ SystemRecordCount \in Nat /\ RootRecord \in Nat
         /\ NtfsDepth \in Nat /\ RootRecord < SystemRecordCount /\ image.base \in Nat
         /\ Len(image.mft) \in Nat /\ DOMAIN image.mft = 1..Len(image.mft)
         /\ \A i \in DOMAIN image.mft : image.mft[i] \in MftRecord
<1>1. image.mft \in Seq(MftRecord) /\ image.base \in Nat
  BY DEF IsNtfs, MftRecord
<1>2. /\ Len(image.mft) \in Nat /\ DOMAIN image.mft = 1..Len(image.mft)
      /\ \A i \in 1..Len(image.mft) : image.mft[i] \in MftRecord
  BY <1>1, LenProperties, ElementOfSeq
<1>3. QED
  BY <1>1, <1>2, NtfsAssumption
LEMMA UserFacts ==
  ASSUME IsNtfs(image)
  PROVE  /\ \A n \in UserRecords :
              /\ n \in Nat /\ n <= RecordGuard /\ n # RootRecord
              /\ n + 1 \in DOMAIN image.mft /\ image.mft[n + 1] \in MftRecord
              /\ GivenNames(n) # <<>>
         /\ \A n \in Nat : BootIsSound /\ n <= RecordGuard /\ ~Breaks(n) =>
              (IsRecord(n) <=> n \in UserRecords)
<1>1. /\ RecordGuard \in Nat /\ SystemRecordCount \in Nat /\ RootRecord \in Nat
      /\ RootRecord < SystemRecordCount
      /\ Len(image.mft) \in Nat /\ DOMAIN image.mft = 1..Len(image.mft)
      /\ \A i \in DOMAIN image.mft : image.mft[i] \in MftRecord
  BY NtfsFacts
<1>2. ASSUME NEW n \in UserRecords
      PROVE  /\ n \in Nat /\ n <= RecordGuard /\ n # RootRecord
             /\ n + 1 \in DOMAIN image.mft /\ image.mft[n + 1] \in MftRecord
             /\ GivenNames(n) # <<>>
  <2>1. n \in SystemRecordCount..(Len(image.mft) - 1) /\ n <= RecordGuard
        /\ GivenNames(n) # <<>>
    BY DEF UserRecords
  <2>2. n \in Nat /\ n # RootRecord /\ n + 1 \in 1..Len(image.mft)
    BY <1>1, <2>1
  <2>3. QED
    BY <1>1, <2>1, <2>2
<1>3. ASSUME BootIsSound, NEW n \in Nat, n <= RecordGuard, ~Breaks(n)
      PROVE  IsRecord(n) <=> n \in UserRecords
  <2>1. CASE n + 1 \in DOMAIN image.mft
    <3>1. NamesOf(image.mft[n + 1]) # <<>> <=> GivenNames(n) # <<>>
      BY <1>1, <2>1, NameIsGiven
    <3>2. n >= SystemRecordCount /\ n # RootRecord <=> n \in SystemRecordCount..(Len(image.mft) - 1)
      BY <1>1, <2>1
    <3>3. /\ mft_record_size \in Int /\ FixupSize \in Nat /\ FlagsEnd \in Nat
          /\ FixupSize <= FlagsEnd
      BY <1>3, NtfsAssumption DEF BootIsSound
    <3>4. Readable(n) <=> /\ image.mft[n + 1].file /\ image.mft[n + 1].usa
                          /\ image.mft[n + 1].in_use /\ mft_record_size >= FlagsEnd
      <4>1. /\ image.mft[n + 1].file \in BOOLEAN /\ image.mft[n + 1].usa \in BOOLEAN
            /\ image.mft[n + 1].in_use \in BOOLEAN
        BY <1>1, <2>1 DEF MftRecord
      <4>2. mft_record_size >= FlagsEnd <=> ~(mft_record_size < FlagsEnd)
        BY <3>3
      <4>3. mft_record_size >= FlagsEnd => mft_record_size >= FixupSize
        BY <3>3
      <4>4. Fixed(n) => ~(mft_record_size < FlagsEnd)
        BY <1>3 DEF Breaks
      <4>5. QED
        BY <2>1, <4>1, <4>2, <4>3, <4>4 DEF Readable, Fixed
    <3>5. QED
      BY <1>3, <2>1, <3>1, <3>2, <3>4 DEF IsRecord, UserRecords
  <2>2. CASE n + 1 \notin DOMAIN image.mft
    <3>1. n \notin SystemRecordCount..(Len(image.mft) - 1)
      BY <1>1, <2>2
    <3>2. QED
      BY <2>2, <3>1 DEF IsRecord, Readable, Fixed, UserRecords
  <2>3. QED
    BY <2>1, <2>2
<1>4. QED
  BY <1>2, <1>3
LEMMA DataFacts ==
  ASSUME NEW record \in MftRecord
  PROVE  /\ DataOf(record) \in Seq(Attribute)
         /\ \A i \in 1..Len(DataOf(record)) :
              DataOf(record)[i] \in Attribute /\ DataOf(record)[i].type = "data"
<1> DEFINE W == Walked(record)
           S == { i \in DOMAIN W : IF W[i].type = "data" THEN W[i].whole ELSE FALSE }
           c == Cardinality(S)
<1>1. W \in Seq(Attribute) /\ \A i \in DOMAIN W : W[i] \in Attribute
  BY WalkedFacts
<1>2. DataOf(record) = Chosen(W, S)
  BY DEF DataOf, Select
<1> HIDE DEF W
<1>3. S \in SUBSET (DOMAIN W) /\ \A i \in S : W[i].type = "data"
  OBVIOUS
<1> HIDE DEF S, c
<1>4. /\ Chosen(W, S) \in Seq(Attribute) /\ Len(Chosen(W, S)) = c
      /\ \A k \in 1..c : Nth(S, k) \in S /\ Chosen(W, S)[k] = W[Nth(S, k)]
  BY <1>1, <1>3, ChosenFacts DEF c
<1>5. QED
  BY <1>1, <1>2, <1>3, <1>4
LEMMA InfoFacts ==
  ASSUME IsNtfs(image), NEW n \in UserRecords
  PROVE  /\ InfoOf(n).mft_num = n /\ InfoOf(n).name = GivenName(n).name
         /\ InfoOf(n).parent_ref = GivenName(n).parent /\ GivenName(n).parent \in Nat
         /\ InfoOf(n).is_directory = GivenName(n).directory
         /\ GivenName(n).directory \in BOOLEAN /\ InfoOf(n).file_size \in Nat
         /\ InfoOf(n).file_location = FileLocation(DataOf(image.mft[n + 1]), n)
<1> DEFINE record == image.mft[n + 1]
           data == DataOf(record)
<1>1. record \in MftRecord /\ GivenNames(n) # <<>>
  BY UserFacts
<1>2. /\ BestName(NamesOf(record)) = GivenName(n)
      /\ GivenName(n) \in Attribute /\ GivenName(n).type = "name"
  BY <1>1, NameIsGiven
<1>3. GivenName(n).parent \in Nat /\ GivenName(n).directory \in BOOLEAN
  BY <1>2, AttributeFacts
<1>4. (IF data = <<>> THEN 0 ELSE Last(data).size) \in Nat
  <2>1. /\ data \in Seq(Attribute)
        /\ \A i \in 1..Len(data) : data[i] \in Attribute /\ data[i].type = "data"
    BY <1>1, DataFacts
  <2> HIDE DEF data
  <2>2. CASE data # <<>>
    <3>1. Len(data) \in 1..Len(data)
      BY <2>1, <2>2, EmptySeq, LenProperties
    <3>2. Last(data) \in Attribute /\ Last(data).type = "data"
      BY <2>1, <3>1 DEF Last
    <3>3. QED
      BY <2>2, <3>2, AttributeFacts
  <2>3. QED
    BY <2>2
<1>5. InfoOf(n) = [ mft_num |-> n, name |-> GivenName(n).name,
                    parent_ref |-> GivenName(n).parent,
                    is_directory |-> GivenName(n).directory,
                    file_size |-> IF data = <<>> THEN 0 ELSE Last(data).size,
                    file_location |-> FileLocation(data, n) ]
  BY <1>2 DEF InfoOf, RecordInfo
<1> HIDE DEF data, record
<1>6. QED
  BY <1>3, <1>4, <1>5 DEF data, record

(* What depends on the image and on where it begins stays as it is.        *)
NtfsEntry == { InfoOf(k) : k \in UserRecords }
RecordNames(record) ==
  LET own(S) == Select(Walked(record),
                  LAMBDA a : IF a.type = "name" THEN a.whole /\ a.namespace \in S
                             ELSE FALSE)
  IN  own({Win32AndDos}) \o own({Win32}) \o own({Posix})
        \o own(Nat \ {Win32AndDos, Win32, Dos, Posix})
LocatedIn(data, n) == { i \in DOMAIN data : Located(data[i], n) # None }
LatestIn(S) == CHOOSE i \in S : \A j \in S : j <= i
LEMMA NamesOfRecord == \A n : GivenNames(n) = RecordNames(image.mft[n + 1])
BY DEF GivenNames, RecordNames
LEMMA NtfsImageSame ==
  ASSUME image' = image
  PROVE  /\ UserRecords' = UserRecords /\ BootIsSound' = BootIsSound
         /\ NtfsNames' = NtfsNames /\ IsNtfs(image)' = IsNtfs(image)
         /\ AllCanBeRead' = AllCanBeRead /\ NoneIsCutOff' = NoneIsCutOff
         /\ \A n : /\ GivenName(n)' = GivenName(n) /\ InFolder(n)' = InFolder(n)
                   /\ IsFolder(n)' = IsFolder(n) /\ IsRecord(n)' = IsRecord(n)
<1>1. \A n : GivenNames(n)' = GivenNames(n)
  <2>1. (\A n : GivenNames(n) = RecordNames(image.mft[n + 1]))'
    BY NamesOfRecord, PTL
  <2>2. \A n : GivenNames(n) = RecordNames(image.mft[n + 1])
    BY NamesOfRecord
  <2>3. QED
    BY <2>1, <2>2
<1>2. \A n : GivenName(n)' = GivenName(n)
  BY <1>1 DEF GivenName
<1>3. UserRecords' = UserRecords
  BY <1>1 DEF UserRecords, mft_record_size, cluster_size, Boot
<1>4. \A n : IsFolder(n)' = IsFolder(n)
  BY <1>2 DEF IsFolder
<1>5. \A n : InFolder(n)' = InFolder(n)
  BY <1>2, <1>3, <1>4 DEF InFolder
<1>6. NtfsNames' = NtfsNames
  BY <1>2, <1>4, <1>5 DEF NtfsNames
<1>7. BootIsSound' = BootIsSound
  <2>1. Boot' = Boot
    BY DEF Boot
  <2>2. mft_record_size' = mft_record_size
    BY <2>1 DEF mft_record_size, cluster_size
  <2>3. QED
    BY <2>1, <2>2 DEF BootIsSound
<1>8. IsNtfs(image)' = IsNtfs(image)
  BY DEF IsNtfs
<1>9. \A n : IsRecord(n)' = IsRecord(n)
  BY DEF IsRecord, Readable, Fixed, mft_record_size, cluster_size, Boot
<1>10. AllCanBeRead' = AllCanBeRead /\ NoneIsCutOff' = NoneIsCutOff
  BY DEF AllCanBeRead, NoneIsCutOff, mft_record_size, cluster_size, Boot
<1>11. QED
  BY <1>2, <1>3, <1>4, <1>5, <1>6, <1>7, <1>8, <1>9, <1>10

(* What is collected of the records below a number: of each that is there  *)
(* what is kept of it, once.                                               *)
Collected(records, m) ==
  /\ records \in Seq(NtfsEntry)
  /\ \A i \in 1..Len(records) : records[i].mft_num < m
  /\ \A i, j \in 1..Len(records) : records[i].mft_num = records[j].mft_num => i = j
  /\ \A k \in UserRecords : k < m => \E i \in 1..Len(records) : records[i] = InfoOf(k)
NtfsRead ==
  /\ found = [base |-> found.base, mft_num |-> found.mft_num, records |-> found.records]
  /\ found.base = image.base /\ found.mft_num \in 0..(RecordGuard + 1)
  /\ Collected(found.records, found.mft_num)
  /\ \A n \in 0..(found.mft_num - 1) : n \notin image.failing
LEMMA NtfsInfoSame ==
  ASSUME image' = image, found'.base = found.base
  PROVE  /\ \A n : InfoOf(n)' = InfoOf(n)
         /\ NtfsEntry' = NtfsEntry
         /\ \A records, m : Collected(records, m)' = Collected(records, m)
<1>1. Boot' = Boot
  BY DEF Boot
<1>2. cluster_size' = cluster_size
  BY <1>1 DEF cluster_size
<1>3. \A n : RecordOffset(n)' = RecordOffset(n)
  BY <1>1, <1>2 DEF RecordOffset, mft_record_size
<1>4. \A a, n : Located(a, n)' = Located(a, n)
  BY <1>2, <1>3 DEF Located
<1>5. \A data, n : FileLocation(data, n)' = FileLocation(data, n)
  <2>1. \A data, n : LocatedIn(data, n)' = LocatedIn(data, n)
    BY <1>4 DEF LocatedIn
  <2>2. \A data, n : FileLocation(data, n)
          = IF LocatedIn(data, n) = {} THEN None
            ELSE Located(data[LatestIn(LocatedIn(data, n))], n)
    BY DEF FileLocation, LocatedIn, LatestIn
  <2>3. \A data, n : FileLocation(data, n)'
          = (IF LocatedIn(data, n) = {} THEN None
             ELSE Located(data[LatestIn(LocatedIn(data, n))], n))'
    BY DEF FileLocation, LocatedIn, LatestIn
  <2>4. QED
    BY <1>4, <2>1, <2>2, <2>3
<1>6. \A n : InfoOf(n)' = InfoOf(n)
  BY <1>5 DEF InfoOf, RecordInfo
<1>7. UserRecords' = UserRecords
  BY NtfsImageSame
<1>8. NtfsEntry' = NtfsEntry
  BY <1>6, <1>7 DEF NtfsEntry
<1>9. \A records, m : Collected(records, m)' = Collected(records, m)
  BY <1>6, <1>7, <1>8 DEF Collected
<1>10. QED
  BY <1>6, <1>8, <1>9
LEMMA NtfsEntryFacts ==
  ASSUME IsNtfs(image)
  PROVE  /\ \A k \in UserRecords : InfoOf(k) \in NtfsEntry /\ InfoOf(k).mft_num = k
         /\ \A x \in NtfsEntry : x.mft_num \in UserRecords /\ x = InfoOf(x.mft_num)
<1>1. \A k \in UserRecords : InfoOf(k).mft_num = k
  BY InfoFacts
<1>2. QED
  BY <1>1 DEF NtfsEntry
LEMMA CollectedNone == Collected(<<>>, 0) \/ ~IsNtfs(image)
<1> SUFFICES ASSUME IsNtfs(image) PROVE Collected(<<>>, 0)
  OBVIOUS
<1>1. \A k \in UserRecords : ~(k < 0)
  BY UserFacts
<1>2. \A i \in 1..Len(<<>>) : FALSE
  OBVIOUS
<1>3. <<>> \in Seq(NtfsEntry)
  OBVIOUS
<1>4. QED
  BY <1>1, <1>2, <1>3 DEF Collected
LEMMA CollectedOne ==
  ASSUME IsNtfs(image), NEW m \in Nat, NEW records, Collected(records, m)
  PROVE  /\ m \notin UserRecords => Collected(records, m + 1)
         /\ m \in UserRecords => Collected(Append(records, InfoOf(m)), m + 1)
<1>1. /\ \A k \in UserRecords : InfoOf(k) \in NtfsEntry /\ InfoOf(k).mft_num = k
      /\ \A x \in NtfsEntry : x.mft_num \in UserRecords /\ x = InfoOf(x.mft_num)
  BY NtfsEntryFacts
<1>2. UserRecords \subseteq Nat
  BY UserFacts
<1>3. /\ records \in Seq(NtfsEntry)
      /\ \A i \in 1..Len(records) : records[i].mft_num < m
      /\ \A i, j \in 1..Len(records) : records[i].mft_num = records[j].mft_num => i = j
      /\ \A k \in UserRecords : k < m => \E i \in 1..Len(records) : records[i] = InfoOf(k)
  BY DEF Collected
<1>4. \A i \in 1..Len(records) : records[i] \in NtfsEntry /\ records[i].mft_num \in Nat
  BY <1>1, <1>2, <1>3, ElementOfSeq
<1>5. \A k \in UserRecords : k < m + 1 => k < m \/ k = m
  BY <1>2
<1>6. \A i \in 1..Len(records) : records[i].mft_num < m + 1
  BY <1>3, <1>4
<1>7. ASSUME m \notin UserRecords PROVE Collected(records, m + 1)
  BY <1>3, <1>5, <1>6, <1>7 DEF Collected
<1>8. ASSUME m \in UserRecords PROVE Collected(Append(records, InfoOf(m)), m + 1)
  <2> DEFINE x == InfoOf(m)
             t == Append(records, x)
             n == Len(records)
  <2>1. x \in NtfsEntry /\ x.mft_num = m
    BY <1>1, <1>8
  <2> HIDE DEF x
  <2>2. /\ t \in Seq(NtfsEntry) /\ Len(t) = n + 1 /\ t[n + 1] = x
        /\ \A i \in 1..n : t[i] = records[i]
    BY <1>3, <2>1, AppendProperties
  <2>3. n \in Nat
    BY <1>3, LenProperties
  <2> HIDE DEF t, n
  <2>4. \A i \in 1..(n + 1) : i \in 1..n \/ i = n + 1
    BY <2>3
  <2>5. n + 1 \in 1..(n + 1) /\ \A i \in 1..n : i \in 1..(n + 1)
    BY <2>3
  <2>6. \A i \in 1..n : records[i].mft_num < m /\ records[i].mft_num < m + 1
                        /\ records[i].mft_num # m
    BY <1>3, <1>4, <1>6 DEF n
  <2>7. \A i \in 1..(n + 1) : t[i].mft_num < m + 1
    BY <2>1, <2>2, <2>4, <2>6
  <2>8. \A i, j \in 1..(n + 1) : t[i].mft_num = t[j].mft_num => i = j
    <3>1. \A i, j \in 1..n : records[i].mft_num = records[j].mft_num => i = j
      BY <1>3 DEF n
    <3>2. QED
      BY <2>1, <2>2, <2>4, <2>6, <3>1
  <2>9. \A k \in UserRecords : k < m + 1 => \E i \in 1..(n + 1) : t[i] = InfoOf(k)
    <3> TAKE k \in UserRecords
    <3> HAVE k < m + 1
    <3>1. CASE k = m
      BY <2>2, <2>5, <3>1 DEF x
    <3>2. CASE k < m
      <4>1. PICK i \in 1..n : records[i] = InfoOf(k)
        BY <1>3, <3>2 DEF n
      <4>2. QED
        BY <2>2, <2>5, <4>1
    <3>3. QED
      BY <1>5, <3>1, <3>2
  <2>10. Collected(t, m + 1)
    BY <2>2, <2>7, <2>8, <2>9 DEF Collected
  <2>11. QED
    BY <2>10 DEF t, x
<1>9. QED
  BY <1>7, <1>8
LEMMA RecordSteps ==
  ASSUME IsNtfs(image), BootIsSound, NtfsRead, KeepRecord \/ PassRecord
  PROVE  NtfsRead'
<1> DEFINE m == found.mft_num
           rs == found.records
<1>1. /\ image' = image /\ m <= RecordGuard /\ m \notin image.failing /\ ~Breaks(m)
      /\ \/ IsRecord(m) /\ found' = [ found EXCEPT !.mft_num = @ + 1,
                                                   !.records = Append(@, InfoOf(m)) ]
         \/ ~IsRecord(m) /\ found' = [found EXCEPT !.mft_num = @ + 1]
  <2>1. m <= RecordGuard /\ m \notin image.failing /\ ~Breaks(m)
    BY DEF KeepRecord, PassRecord, AtRecord, RecordRead
  <2>2. image' = image
    BY DEF KeepRecord, PassRecord, Goto
  <2>3. CASE KeepRecord
    BY <2>1, <2>2, <2>3 DEF KeepRecord, InfoOf
  <2>4. CASE PassRecord
    BY <2>1, <2>2, <2>4 DEF PassRecord
  <2>5. QED
    BY <2>3, <2>4
<1>2. /\ found = [base |-> found.base, mft_num |-> m, records |-> rs]
      /\ found.base = image.base /\ m \in 0..(RecordGuard + 1) /\ Collected(rs, m)
      /\ \A n \in 0..(m - 1) : n \notin image.failing
  BY DEF NtfsRead
<1>3. RecordGuard \in Nat
  BY NtfsAssumption
<1>4. m \in Nat /\ m + 1 \in 0..(RecordGuard + 1)
  BY <1>1, <1>2, <1>3
<1>5. IsRecord(m) <=> m \in UserRecords
  BY <1>1, <1>4, UserFacts
<1> DEFINE rt == IF IsRecord(m) THEN Append(rs, InfoOf(m)) ELSE rs
<1>6. Collected(rt, m + 1)
  BY <1>2, <1>4, <1>5, CollectedOne
<1>7. found' = [base |-> found.base, mft_num |-> m + 1, records |-> rt]
  <2> DEFINE b == found.base
  <2>1. found = [base |-> b, mft_num |-> m, records |-> rs]
    BY <1>2
  <2>2. \/ IsRecord(m) /\ found' = [ found EXCEPT !.mft_num = m + 1,
                                                 !.records = Append(rs, InfoOf(m)) ]
        \/ ~IsRecord(m) /\ found' = [found EXCEPT !.mft_num = m + 1]
    BY <1>1
  <2> HIDE DEF b, m, rs
  <2>3. found \in [base : {b}, mft_num : {m}, records : {rs}]
    BY <2>1
  <2>4. found' \in [base : {b}, mft_num : {m + 1}, records : {rt}]
    BY <2>2, <2>3
  <2>5. QED
    BY <2>4 DEF b
<1> HIDE DEF rt, m, rs
<1>8. /\ found'.base = found.base /\ found'.mft_num = m + 1 /\ found'.records = rt
      /\ found' = [base |-> found'.base, mft_num |-> found'.mft_num, records |-> found'.records]
  BY <1>7
<1>10. Collected(found.records, found.mft_num)'
  <2>1. /\ \A k : InfoOf(k)' = InfoOf(k)
        /\ NtfsEntry' = NtfsEntry /\ UserRecords' = UserRecords
    BY <1>1, <1>8, NtfsInfoSame, NtfsImageSame
  <2>2. QED
    BY <1>6, <1>8, <2>1 DEF Collected
<1>11. \A n \in 0..(found'.mft_num - 1) : n \notin image'.failing
  <2>1. \A n \in 0..((m + 1) - 1) : n \in 0..(m - 1) \/ n = m
    BY <1>4
  <2>2. QED
    BY <1>1, <1>2, <1>8, <2>1
<1>12. QED
  BY <1>1, <1>2, <1>4, <1>8, <1>10, <1>11 DEF NtfsRead

-----------------------------------------------------------------------------
(* The tree of an NTFS volume: a node stands for a record.                 *)
NtfsReading ==
  [ entries |-> NtfsEntry, sources |-> Nat, key |-> [x \in NtfsEntry |-> x.mft_num],
    keep |-> NtfsEntry, fine |-> Nat, in |-> [n \in Nat |-> InFolder(n)],
    name |-> [n \in Nat |-> GivenName(n).name], dir |-> [n \in Nat |-> IsFolder(n)],
    location |-> [n \in Nat |-> IF IsFolder(n) THEN None ELSE InfoOf(n).file_location],
    root |-> RootRecord, max |-> NtfsDepth + 1, lossy |-> TRUE, off |-> 0 ]
LEMMA NtfsReadingFacts ==
  ASSUME IsNtfs(image)
  PROVE  /\ IsReading(NtfsReading) /\ OneFolder(NtfsReading)
         /\ NtfsReading.entries = NtfsEntry /\ NtfsReading.sources = Nat
         /\ NtfsReading.keep = NtfsEntry /\ NtfsReading.fine = Nat
         /\ \A x \in NtfsEntry : NtfsReading.key[x] = x.mft_num
         /\ \A n \in Nat :
              /\ NtfsReading.in[n] = InFolder(n) /\ NtfsReading.name[n] = GivenName(n).name
              /\ NtfsReading.dir[n] = IsFolder(n)
              /\ NtfsReading.location[n]
                   = IF IsFolder(n) THEN None ELSE InfoOf(n).file_location
         /\ NtfsReading.root = RootRecord /\ RootRecord \in Nat
         /\ NtfsReading.max = NtfsDepth + 1 /\ NtfsDepth \in Nat
         /\ NtfsReading.lossy /\ NtfsReading.off = 0
         /\ NtfsReading.in = [n \in Nat |-> InFolder(n)]
         /\ NtfsReading.name = [n \in Nat |-> GivenName(n).name]
<1>1. RootRecord \in Nat /\ NtfsDepth \in Nat
  BY NtfsAssumption
<1>2. /\ UserRecords \subseteq Nat /\ RootRecord \notin UserRecords
      /\ \A x \in NtfsEntry : x.mft_num \in Nat
  BY UserFacts, NtfsEntryFacts
<1>3. \A n : InFolder(n) \subseteq UserRecords
             /\ \A m \in InFolder(n) : GivenName(m).parent = n
  BY DEF InFolder
<1>4. /\ NtfsReading.entries = NtfsEntry /\ NtfsReading.sources = Nat
      /\ NtfsReading.keep = NtfsEntry /\ NtfsReading.fine = Nat
      /\ NtfsReading.key = [x \in NtfsEntry |-> x.mft_num]
      /\ NtfsReading.in = [n \in Nat |-> InFolder(n)]
      /\ NtfsReading.name = [n \in Nat |-> GivenName(n).name]
      /\ NtfsReading.dir = [n \in Nat |-> IsFolder(n)]
      /\ NtfsReading.location
           = [n \in Nat |-> IF IsFolder(n) THEN None ELSE InfoOf(n).file_location]
      /\ NtfsReading.root = RootRecord /\ NtfsReading.max = NtfsDepth + 1
      /\ NtfsReading.lossy /\ NtfsReading.off = 0
  BY DEF NtfsReading
<1>5. IsReading(NtfsReading)
  <2> DEFINE R == NtfsReading
  <2>1. R.key \in [R.entries -> R.sources]
    BY <1>2, <1>4
  <2>2. R.in \in [R.sources -> SUBSET R.sources]
    <3>1. \A n \in Nat : InFolder(n) \in SUBSET Nat
      BY <1>2, <1>3
    <3>2. [n \in Nat |-> InFolder(n)] \in [Nat -> SUBSET Nat]
      BY ONLY <3>1
    <3>3. QED
      BY <1>4, <3>2
  <2>3. R.root \in R.sources /\ R.max \in Nat /\ R.off \in {0, 1} /\ R.keep = R.entries
    BY <1>1, <1>4
  <2> HIDE DEF R
  <2>4. IsReading(R)
    BY <2>1, <2>2, <2>3 DEF IsReading
  <2>5. QED
    BY <2>4 DEF R
<1>6. OneFolder(NtfsReading)
  BY <1>2, <1>3, <1>4 DEF OneFolder
<1>7. QED
  BY <1>1, <1>4, <1>5, <1>6
LEMMA NtfsReadingSame ==
  ASSUME image' = image, found'.base = found.base
  PROVE  NtfsReading' = NtfsReading
<1>1. NtfsEntry' = NtfsEntry /\ \A n : InfoOf(n)' = InfoOf(n)
  BY NtfsInfoSame
<1>2. \A n : /\ GivenName(n)' = GivenName(n) /\ InFolder(n)' = InFolder(n)
             /\ IsFolder(n)' = IsFolder(n)
  BY NtfsImageSame
<1>3. QED
  BY <1>1, <1>2 DEF NtfsReading

(* What is listed in a folder.                                             *)
LEMMA ChildrenFacts ==
  ASSUME IsNtfs(image), Collected(found.records, RecordGuard + 1),
         NEW n \in Nat, IsFolder(n)
  PROVE  /\ ChildrenOf(n) \in Seq(NtfsEntry)
         /\ \A i \in 1..Len(ChildrenOf(n)) : ChildrenOf(n)[i].mft_num \in InFolder(n)
         /\ \A i, h \in 1..Len(ChildrenOf(n)) :
              ChildrenOf(n)[i].mft_num = ChildrenOf(n)[h].mft_num => i = h
         /\ \A m \in InFolder(n) : \E i \in 1..Len(ChildrenOf(n)) :
              ChildrenOf(n)[i].mft_num = m
<1> DEFINE rs == found.records
           S == { i \in DOMAIN rs : rs[i].parent_ref = n /\ rs[i].parent_ref # rs[i].mft_num }
           es == Chosen(rs, S)
           c == Cardinality(S)
<1>1. /\ rs \in Seq(NtfsEntry)
      /\ \A i, j \in 1..Len(rs) : rs[i].mft_num = rs[j].mft_num => i = j
      /\ \A k \in UserRecords : k < RecordGuard + 1 => \E i \in 1..Len(rs) : rs[i] = InfoOf(k)
  BY DEF Collected
<1>2. DOMAIN rs = 1..Len(rs) /\ \A i \in 1..Len(rs) : rs[i] \in NtfsEntry
  BY <1>1, LenProperties, ElementOfSeq
<1>3. /\ \A k \in UserRecords : InfoOf(k).mft_num = k /\ k \in Nat /\ k < RecordGuard + 1
      /\ \A x \in NtfsEntry : x.mft_num \in UserRecords /\ x = InfoOf(x.mft_num)
      /\ \A k \in UserRecords : InfoOf(k).parent_ref = GivenName(k).parent
  <2>1. \A k \in UserRecords : k \in Nat /\ k <= RecordGuard
    BY UserFacts
  <2>2. RecordGuard \in Nat
    BY NtfsAssumption
  <2>3. QED
    BY <2>1, <2>2, NtfsEntryFacts, InfoFacts
<1>4. ChildrenOf(n) = es
  BY DEF ChildrenOf, Select
<1>5. InFolder(n) = { m \in UserRecords : GivenName(m).parent = n /\ m # n }
  BY DEF InFolder
<1> HIDE DEF rs
<1>6. S \in SUBSET (DOMAIN rs)
  OBVIOUS
<1>7. /\ es \in Seq(NtfsEntry) /\ Len(es) = c
      /\ \A k \in 1..c : Nth(S, k) \in S /\ es[k] = rs[Nth(S, k)]
      /\ \A i \in S : \E k \in 1..c : Nth(S, k) = i
      /\ \A j, k \in 1..c : Nth(S, j) = Nth(S, k) => j = k
  <2> HIDE DEF S
  <2>1. rs \in Seq(NtfsEntry) /\ S \in SUBSET (DOMAIN rs)
    BY <1>1, <1>6
  <2>2. QED
    BY ONLY <2>1, ChosenFacts
<1>8. \A i \in S : /\ i \in 1..Len(rs) /\ rs[i] \in NtfsEntry
                   /\ rs[i].parent_ref = n /\ rs[i].parent_ref # rs[i].mft_num
  BY <1>2
<1>9. \A i \in 1..Len(rs) : rs[i].parent_ref = n /\ rs[i].parent_ref # rs[i].mft_num => i \in S
  BY <1>2
<1> HIDE DEF S, c, es
<1>10. ASSUME NEW i \in 1..c PROVE es[i].mft_num \in InFolder(n)
  <2> DEFINE x == es[i]
             k == x.mft_num
  <2>1. x \in NtfsEntry /\ x.parent_ref = n /\ n # k
    BY <1>7, <1>8
  <2> HIDE DEF x
  <2>2. k \in UserRecords /\ x = InfoOf(k)
    BY <1>3, <2>1
  <2>3. GivenName(k).parent = n
    BY <1>3, <2>1, <2>2
  <2>4. k \in InFolder(n)
    BY <1>5, <2>1, <2>2, <2>3
  <2>5. QED
    BY <2>4 DEF x
<1>11. ASSUME NEW i \in 1..c, NEW h \in 1..c, es[i].mft_num = es[h].mft_num PROVE i = h
  <2>1. /\ Nth(S, i) \in 1..Len(rs) /\ Nth(S, h) \in 1..Len(rs)
        /\ rs[Nth(S, i)].mft_num = rs[Nth(S, h)].mft_num
    BY <1>7, <1>8, <1>11
  <2>2. Nth(S, i) = Nth(S, h)
    BY <1>1, <2>1
  <2>3. QED
    BY <1>7, <2>2
<1>12. ASSUME NEW m \in InFolder(n) PROVE \E i \in 1..c : es[i].mft_num = m
  <2>1. m \in UserRecords /\ GivenName(m).parent = n /\ m # n
    BY <1>5
  <2>2. PICK i \in 1..Len(rs) : rs[i] = InfoOf(m)
    BY <1>1, <1>3, <2>1
  <2>3. rs[i].parent_ref = n /\ rs[i].mft_num = m
    BY <1>3, <2>1, <2>2
  <2>4. i \in S
    BY <1>9, <2>1, <2>3
  <2>5. PICK k \in 1..c : Nth(S, k) = i
    BY <1>7, <2>4
  <2>6. es[k].mft_num = m
    BY <1>7, <2>3, <2>5
  <2>7. QED
    BY <2>6
<1>13. QED
  BY <1>4, <1>7, <1>10, <1>11, <1>12

(* What is done with an entry: its node is made, unless it is too deep.    *)
NtfsTree == IsSole(NtfsReading, nodes, stack)
LEMMA NtfsFrames ==
  ASSUME IsNtfs(image), NtfsTree, Busy
  PROVE  /\ stack # <<>> /\ Last(stack).entries # <<>> /\ Top = Last(stack)
         /\ Len(stack) \in Nat /\ Len(stack) > 0
         /\ Entry = Head(Last(stack).entries) /\ Rest = Drawn(stack)
         /\ Entry.mft_num \in UserRecords /\ Entry = InfoOf(Entry.mft_num)
         /\ NtfsReading.key[Head(Last(stack).entries)] = Entry.mft_num
<1>1. /\ stack # <<>> /\ Last(stack).entries # <<>> /\ Top = Last(stack)
      /\ Entry = Head(Last(stack).entries) /\ Rest = Drawn(stack)
  BY DEF Busy, Top, Entry, Rest, Drawn
<1>2. PICK src, level : Built(NtfsReading, nodes, stack, src, level)
  BY DEF NtfsTree, IsSole
<1>3. stack \in Seq(FramesOver(NtfsEntry))
  BY <1>2, NtfsReadingFacts DEF Built, FramesOpen
<1>4. Head(Last(stack).entries) \in NtfsEntry /\ Len(stack) \in Nat \ {0}
  BY <1>1, <1>3, DrawnFacts
<1>5. /\ Entry.mft_num \in UserRecords /\ Entry = InfoOf(Entry.mft_num)
      /\ NtfsReading.key[Entry] = Entry.mft_num
  BY <1>1, <1>4, NtfsEntryFacts, NtfsReadingFacts
<1>6. QED
  BY <1>1, <1>4, <1>5
LEMMA NtfsSteps ==
  ASSUME IsNtfs(image), NtfsRead, found.mft_num = RecordGuard + 1, NtfsTree,
         NtfsFile \/ NtfsDirectory \/ NtfsTooDeep
  PROVE  IsSole(NtfsReading, nodes', stack')
<1> DEFINE R == NtfsReading
           e == Entry.mft_num
           p == Last(stack).node
<1>1. Busy
  BY DEF NtfsFile, NtfsDirectory, NtfsTooDeep
<1>2. /\ stack # <<>> /\ Last(stack).entries # <<>> /\ Top = Last(stack)
      /\ Len(stack) \in Nat /\ Len(stack) > 0 /\ Rest = Drawn(stack)
      /\ e \in UserRecords /\ Entry = InfoOf(e) /\ R.key[Head(Last(stack).entries)] = e
  BY <1>1, NtfsFrames
<1>3. /\ Entry.name = GivenName(e).name /\ Entry.is_directory = GivenName(e).directory
      /\ GivenName(e).directory \in BOOLEAN /\ Entry.file_size \in Nat
      /\ Entry.file_location = InfoOf(e).file_location
  BY <1>2, InfoFacts
<1>4. e \in Nat /\ e # RootRecord
  BY <1>2, UserFacts
<1>5. IsFolder(e) = Entry.is_directory
  BY <1>3, <1>4 DEF IsFolder
<1>6. /\ IsReading(R) /\ OneFolder(R) /\ R.lossy /\ R.off = 0 /\ R.max = NtfsDepth + 1
      /\ NtfsDepth \in Nat /\ e \in R.fine /\ R.in[e] = InFolder(e)
      /\ R.name[e] = Entry.name /\ R.dir[e] = Entry.is_directory
      /\ R.location[e] = (IF Entry.is_directory THEN None ELSE Entry.file_location)
      /\ R.entries = NtfsEntry /\ \A x \in NtfsEntry : R.key[x] = x.mft_num
  BY <1>3, <1>4, <1>5, NtfsReadingFacts
<1>7. IsSole(R, nodes, stack) /\ Len(stack) > R.off
  BY <1>2, <1>6 DEF NtfsTree
<1> HIDE DEF R, e
<1>8. CASE NtfsTooDeep
  <2>1. nodes' = nodes /\ stack' = Drawn(stack) /\ Entry.is_directory /\ Len(stack) > NtfsDepth
    BY <1>2, <1>8 DEF NtfsTooDeep, Skip
  <2>2. Len(stack) - R.off >= R.max
    BY <1>2, <1>6, <2>1
  <2>3. R.dir[R.key[Head(Last(stack).entries)]]
    BY <1>2, <1>6, <2>1
  <2>4. IsSole(R, nodes, Drawn(stack))
    BY <1>2, <1>6, <1>7, <2>2, <2>3, SoleSkip
  <2>5. QED
    BY <2>1, <2>4 DEF R
<1>9. CASE NtfsFile
  <2> DEFINE y == IF Entry.file_location = None
                    THEN new_file(Entry.name, Entry.file_size, p)
                    ELSE new_file_with_location(Entry.name, Entry.file_size,
                           Entry.file_location, Entry.file_size, p)
  <2>1. nodes' = Append(nodes, y) /\ stack' = Drawn(stack) /\ ~Entry.is_directory
    BY <1>2, <1>9 DEF NtfsFile, AddFile
  <2>2. IsMadeFor(R, y, e, p)
    <3>1. \E len : IsMade(y, Entry.name, FALSE, Entry.file_location, len, p)
      BY <1>3, NewNodes
    <3> HIDE DEF y, p
    <3>2. (FALSE <=> R.dir[e]) /\ R.dir[e] \in BOOLEAN /\ Entry.name = R.name[e]
          /\ Entry.file_location = R.location[e]
      BY <1>3, <1>6, <2>1
    <3>3. QED
      BY <3>1, <3>2, MadeFor
  <2>3. ~Descends(R, e)
    <3>1. InFolder(e) = {}
      BY <1>5, <2>1 DEF InFolder
    <3>2. QED
      BY <1>6, <2>1, <3>1 DEF Descends
  <2> HIDE DEF y
  <2>4. IsSole(R, Append(nodes, y), Drawn(stack))
    <3>1. /\ IsReading(R) /\ OneFolder(R) /\ IsSole(R, nodes, stack)
          /\ Len(stack) > R.off /\ Last(stack).entries # <<>>
          /\ e = R.key[Head(Last(stack).entries)]
          /\ IsMadeFor(R, y, e, Last(stack).node) /\ e \in R.fine /\ ~Descends(R, e)
      BY <1>2, <1>6, <1>7, <2>2, <2>3
    <3>2. QED
      BY ONLY <3>1, SoleFile
  <2>5. QED
    BY <2>1, <2>4 DEF R
<1>10. CASE NtfsDirectory
  <2> DEFINE y == new_directory(Entry.name, p)
             es == ChildrenOf(e)
  <2>1. /\ nodes' = Append(nodes, y) /\ Entry.is_directory /\ Len(stack) <= NtfsDepth
        /\ stack' = Append(Drawn(stack), Frame(Len(nodes) + 1, es))
    BY <1>2, <1>10 DEF NtfsDirectory, AddDirectory, e
  <2>2. IsMadeFor(R, y, e, p)
    <3>1. IsMade(y, Entry.name, TRUE, None, None, p)
      BY 0 \in Nat, NewNodes
    <3> HIDE DEF y, p
    <3>2. (TRUE <=> R.dir[e]) /\ R.dir[e] \in BOOLEAN /\ Entry.name = R.name[e]
          /\ None = R.location[e]
      BY <1>3, <1>6, <2>1
    <3>3. QED
      BY <3>1, <3>2, MadeFor
  <2>3. /\ es \in Seq(NtfsEntry)
        /\ \A i \in 1..Len(es) : es[i].mft_num \in InFolder(e)
        /\ \A i, h \in 1..Len(es) : es[i].mft_num = es[h].mft_num => i = h
        /\ \A m \in InFolder(e) : \E i \in 1..Len(es) : es[i].mft_num = m
    BY <1>4, <1>5, <2>1, ChildrenFacts DEF NtfsRead
  <2> HIDE DEF y, es
  <2>4. \A i \in 1..Len(es) : R.key[es[i]] = es[i].mft_num
    BY <1>6, <2>3, ElementOfSeq
  <2>5. /\ es \in Seq(R.entries)
        /\ \A i \in 1..Len(es) : R.key[es[i]] \in R.in[e]
        /\ \A i, h \in 1..Len(es) : R.key[es[i]] = R.key[es[h]] => i = h
        /\ \A d \in R.in[e] : \E i \in 1..Len(es) : R.key[es[i]] = d
    BY <1>6, <2>3, <2>4
  <2>6. IsSole(R, Append(nodes, y), Append(Drawn(stack), Frame(Len(nodes) + 1, es)))
    <3>0. Len(stack) - R.off < R.max
      BY <1>2, <1>6, <2>1
    <3>1. /\ IsReading(R) /\ OneFolder(R) /\ IsSole(R, nodes, stack)
          /\ Len(stack) > R.off /\ Last(stack).entries # <<>>
          /\ e = R.key[Head(Last(stack).entries)]
          /\ IsMadeFor(R, y, e, Last(stack).node) /\ e \in R.fine /\ R.dir[e]
      BY <1>2, <1>6, <1>7, <2>1, <2>2
    <3>2. QED
      BY ONLY <2>5, <3>0, <3>1, SoleDirectory
  <2>7. QED
    BY <2>1, <2>6 DEF R
<1>11. QED
  BY <1>8, <1>9, <1>10
LEMMA NtfsRoot ==
  ASSUME IsNtfs(image), NtfsRead, BuildTree
  PROVE  /\ found.mft_num = RecordGuard + 1 /\ IsSole(NtfsReading, nodes', stack')
<1> DEFINE R == NtfsReading
           es == ChildrenOf(RootRecord)
<1>1. /\ found.mft_num > RecordGuard /\ nodes' = WithRoot /\ stack' = << Frame(1, es) >>
  BY DEF BuildTree
<1>2. found.mft_num = RecordGuard + 1
  <2>1. found.mft_num \in 0..(RecordGuard + 1) /\ RecordGuard \in Nat
    BY NtfsAssumption DEF NtfsRead
  <2>2. QED
    BY <1>1, <2>1
<1>3. /\ IsReading(R) /\ OneFolder(R) /\ R.off = 0 /\ R.max = NtfsDepth + 1 /\ NtfsDepth \in Nat
      /\ R.root = RootRecord /\ RootRecord \in R.fine /\ RootRecord \in Nat
      /\ R.in[RootRecord] = InFolder(RootRecord)
      /\ R.entries = NtfsEntry /\ \A x \in NtfsEntry : R.key[x] = x.mft_num
  BY NtfsReadingFacts
<1>4. IsFolder(RootRecord)
  BY DEF IsFolder
<1>5. /\ es \in Seq(NtfsEntry)
      /\ \A i \in 1..Len(es) : es[i].mft_num \in InFolder(RootRecord)
      /\ \A i, h \in 1..Len(es) : es[i].mft_num = es[h].mft_num => i = h
      /\ \A m \in InFolder(RootRecord) : \E i \in 1..Len(es) : es[i].mft_num = m
  BY <1>2, <1>3, <1>4, ChildrenFacts DEF NtfsRead
<1> HIDE DEF R, es
<1>6. \A i \in 1..Len(es) : R.key[es[i]] = es[i].mft_num
  BY <1>3, <1>5, ElementOfSeq
<1>7. /\ es \in Seq(R.entries)
      /\ \A i \in 1..Len(es) : R.key[es[i]] \in R.in[R.root]
      /\ \A i, h \in 1..Len(es) : R.key[es[i]] = R.key[es[h]] => i = h
      /\ \A d \in R.in[R.root] : \E i \in 1..Len(es) : R.key[es[i]] = d
  BY <1>3, <1>5, <1>6
<1>8. IsSole(R, WithRoot, << Frame(1, es) >>)
  <2>1. Parsed(WithRoot) /\ Len(WithRoot) = 1 /\ WithRoot[1].is_directory
    BY RootFacts
  <2>2. IsReading(R) /\ OneFolder(R) /\ R.off = 0 /\ R.root \in R.fine /\ R.max > 0
    BY <1>3
  <2> DEFINE w == WithRoot
  <2>3. Parsed(w) /\ Len(w) = 1 /\ w[1].is_directory
    BY <2>1
  <2> HIDE DEF w
  <2>4. IsSole(R, w, << Frame(1, es) >>)
    BY ONLY <1>7, <2>2, <2>3, SoleRoot
  <2>5. QED
    BY <2>4 DEF w
<1>9. QED
  BY <1>1, <1>2, <1>8 DEF R, es

(* Where the reader is, and what it has collected and made.                *)
NtfsInv ==
  image.kind = "ntfs" =>
    /\ IsNtfs(image)
    /\ pc # "done" => result = "none"
    /\ result \in {"none", "Ok", "Err", "Panic"}
    /\ pc \in {"detect", "boot"} => found.cursor = image.base
    /\ pc \in {"mft", "tree"} \/ result = "Ok" => BootIsSound /\ NtfsRead
    /\ pc = "tree" \/ result = "Ok" => found.mft_num = RecordGuard + 1 /\ NtfsTree
    /\ result = "Ok" => stack = <<>> /\ Parsed(nodes) /\ Totalled(nodes)
    /\ result = "Err" => ~BootIsSound \/ ~AllCanBeRead
    /\ result = "Panic" => BootIsSound /\ ~NoneIsCutOff

LEMMA NtfsInit ==
  ASSUME Init
  PROVE  NtfsInv
<1> SUFFICES ASSUME image.kind = "ntfs" PROVE NtfsInv
  BY DEF NtfsInv
<1>1. IsImage(image) /\ result = "none"
  BY StartsWithImage
<1>2. IsNtfs(image)
  BY <1>1 DEF IsImage
<1>3. pc = "detect" /\ found = [cursor |-> image.base]
  BY DEF Init, Begin, StartPc, StartFound
<1>4. QED
  BY <1>1, <1>2, <1>3 DEF NtfsInv
LEMMA NtfsInvSteps ==
  ASSUME NtfsInv, [Next]_vars
  PROVE  NtfsInv'
<1>1. image' = image
  BY OwnSteps
<1>2. CASE image.kind # "ntfs"
  BY <1>1, <1>2 DEF NtfsInv
<1> SUFFICES ASSUME image.kind = "ntfs" PROVE NtfsInv'
  BY <1>2
<1>3. /\ IsNtfs(image)
      /\ pc # "done" => result = "none"
      /\ result \in {"none", "Ok", "Err", "Panic"}
      /\ pc \in {"detect", "boot"} => found.cursor = image.base
      /\ pc \in {"mft", "tree"} \/ result = "Ok" => BootIsSound /\ NtfsRead
      /\ pc = "tree" \/ result = "Ok" => found.mft_num = RecordGuard + 1 /\ NtfsTree
      /\ result = "Ok" => stack = <<>> /\ Parsed(nodes) /\ Totalled(nodes)
      /\ result = "Err" => ~BootIsSound \/ ~AllCanBeRead
      /\ result = "Panic" => BootIsSound /\ ~NoneIsCutOff
  BY DEF NtfsInv
<1>4. /\ IsNtfs(image)' /\ BootIsSound' = BootIsSound /\ image'.kind = "ntfs"
      /\ AllCanBeRead' = AllCanBeRead /\ NoneIsCutOff' = NoneIsCutOff
  BY <1>1, <1>3, NtfsImageSame
<1>5. CASE UNCHANGED vars
  <2>1. /\ nodes' = nodes /\ stack' = stack /\ pc' = pc /\ result' = result /\ found' = found
    BY <1>5 DEF vars
  <2>2. NtfsReading' = NtfsReading /\ \A r, m : Collected(r, m)' = Collected(r, m)
    BY <1>1, <2>1, NtfsReadingSame, NtfsInfoSame
  <2>3. NtfsTree' = NtfsTree
    BY <2>1, <2>2 DEF NtfsTree
  <2>4. Parsed(nodes)' = Parsed(nodes) /\ Totalled(nodes)' = Totalled(nodes)
    BY <2>1 DEF Parsed, Totalled
  <2>5. NtfsRead' = NtfsRead
    <3>1. Collected(found.records, found.mft_num)' = Collected(found.records, found.mft_num)
      <4>1. /\ \A k : InfoOf(k)' = InfoOf(k)
            /\ NtfsEntry' = NtfsEntry /\ UserRecords' = UserRecords
        BY <1>1, <2>1, NtfsInfoSame, NtfsImageSame
      <4>2. QED
        BY <2>1, <4>1 DEF Collected
    <3>2. QED
      BY <1>1, <2>1, <3>1 DEF NtfsRead
  <2>6. QED
    BY <1>1, <1>3, <1>4, <2>1, <2>3, <2>4, <2>5 DEF NtfsInv
<1>6. CASE NtfsDetect
  <2>1. /\ found' = [cursor |-> PutBack(image.size, found.cursor, found.cursor + OemAt, OemSize)]
        /\ pc = "detect" /\ pc' = "boot" /\ result' = result
    BY <1>6 DEF NtfsDetect, At, Goto
  <2>2. PutBack(image.size, found.cursor, found.cursor + OemAt, OemSize) = image.base
    <3>1. image.base \in Nat /\ found.cursor = image.base
      BY <1>3, <2>1, NtfsFacts
    <3>2. ~(image.base < 0)
      BY <3>1
    <3>3. QED
      BY <3>1, <3>2 DEF PutBack, seek
  <2>3. found'.cursor = image'.base /\ result = "none"
    BY <1>1, <1>3, <2>1, <2>2
  <2>4. QED
    BY <1>4, <2>1, <2>3 DEF NtfsInv
<1>7. CASE NtfsUnprobed
  <2>1. found' = found /\ pc = "detect" /\ pc' = "boot" /\ result' = result /\ result = "none"
    BY <1>3, <1>7 DEF NtfsUnprobed, At, Goto
  <2>2. QED
    BY <1>1, <1>3, <1>4, <2>1 DEF NtfsInv
<1>8. CASE BadBoot
  <2>1. pc = "boot" /\ pc' = "done" /\ result' = "Err" /\ ~IsNtfsBoot
    BY <1>8 DEF BadBoot, At, Stop
  <2>2. ~BootIsSound
    BY <1>3, <2>1 DEF IsNtfsBoot, BootIsSound
  <2>3. QED
    BY <1>4, <2>1, <2>2 DEF NtfsInv
<1>9. CASE ReadBoot
  <2>1. /\ pc = "boot" /\ pc' = "mft" /\ result' = result /\ IsNtfsBoot
        /\ found' = [base |-> found.cursor, mft_num |-> 0, records |-> <<>>]
    BY <1>9 DEF ReadBoot, At, Goto
  <2>2. BootIsSound /\ found.cursor = image.base /\ result = "none"
    BY <1>3, <2>1 DEF IsNtfsBoot, BootIsSound
  <2>3. NtfsRead'
    <3>1. (Collected(<<>>, 0) \/ ~IsNtfs(image))'
      BY CollectedNone, PTL
    <3>2. found'.records = <<>> /\ found'.mft_num = 0 /\ found'.base = image'.base
          /\ found' = [base |-> found'.base, mft_num |-> found'.mft_num,
                       records |-> found'.records]
      BY <1>1, <2>1, <2>2
    <3>3. Collected(found.records, found.mft_num)'
      BY <1>4, <3>1, <3>2 DEF Collected
    <3>4. 0 \in 0..(RecordGuard + 1)
      BY NtfsAssumption
    <3>5. \A n \in 0..(0 - 1) : FALSE
      OBVIOUS
    <3>6. QED
      BY <3>2, <3>3, <3>4, <3>5 DEF NtfsRead
  <2>4. QED
    BY <1>4, <2>1, <2>2, <2>3 DEF NtfsInv
<1>10. CASE KeepRecord \/ PassRecord
  <2>1. pc = "mft" /\ pc' = "mft" /\ result' = result /\ result = "none"
    BY <1>3, <1>10 DEF KeepRecord, PassRecord, AtRecord, At, Goto
  <2>2. NtfsRead' /\ BootIsSound
    BY <1>3, <1>10, <2>1, RecordSteps
  <2>3. QED
    BY <1>4, <2>1, <2>2 DEF NtfsInv
<1>11. ASSUME found' = found, NtfsRead PROVE NtfsReading' = NtfsReading /\ NtfsRead'
  <2>1. NtfsReading' = NtfsReading
    BY <1>1, <1>11, NtfsReadingSame
  <2>2. /\ \A k : InfoOf(k)' = InfoOf(k)
        /\ NtfsEntry' = NtfsEntry /\ UserRecords' = UserRecords
    BY <1>1, <1>11, NtfsInfoSame, NtfsImageSame
  <2>3. Collected(found.records, found.mft_num)'
    BY <1>11, <2>2 DEF Collected, NtfsRead
  <2>4. QED
    BY <1>1, <1>11, <2>1, <2>3 DEF NtfsRead
<1>12. CASE BuildTree
  <2>1. pc = "mft" /\ pc' = "tree" /\ result' = result /\ result = "none" /\ found' = found
        /\ BootIsSound /\ NtfsRead
    BY <1>3, <1>12 DEF BuildTree, At, Goto
  <2>2. found.mft_num = RecordGuard + 1 /\ IsSole(NtfsReading, nodes', stack')
    BY <1>3, <1>12, <2>1, NtfsRoot
  <2>3. NtfsTree' /\ NtfsRead'
    BY <1>11, <2>1, <2>2 DEF NtfsTree
  <2>4. QED
    BY <1>4, <2>1, <2>2, <2>3 DEF NtfsInv
<1>13. CASE NtfsFile \/ NtfsDirectory \/ NtfsTooDeep
  <2>1. pc = "tree" /\ pc' = "tree" /\ result' = result /\ result = "none" /\ found' = found
        /\ BootIsSound /\ NtfsRead /\ found.mft_num = RecordGuard + 1 /\ NtfsTree
    BY <1>3, <1>13 DEF NtfsFile, NtfsDirectory, NtfsTooDeep, At, Goto
  <2>2. IsSole(NtfsReading, nodes', stack')
    BY <1>3, <1>13, <2>1, NtfsSteps
  <2>3. NtfsTree' /\ NtfsRead'
    BY <1>11, <2>1, <2>2 DEF NtfsTree
  <2>4. QED
    BY <1>4, <2>1, <2>3 DEF NtfsInv
<1>14. CASE NtfsReturn
  <2>1. pc = "tree" /\ Return /\ result = "none"
        /\ BootIsSound /\ NtfsRead /\ found.mft_num = RecordGuard + 1 /\ NtfsTree
    BY <1>3, <1>14 DEF NtfsReturn, At
  <2>2. IsReading(NtfsReading) /\ IsSole(NtfsReading, nodes, stack)
    BY <1>3, <2>1, NtfsReadingFacts DEF NtfsTree
  <2>3. /\ IsSole(NtfsReading, nodes', stack') /\ found' = found
        /\ \/ pc' = pc /\ result' = result
           \/ pc' = "done" /\ result' = "Ok" /\ stack' = <<>>
              /\ Parsed(nodes') /\ Totalled(nodes')
    BY <2>1, <2>2, ReturnSole
  <2>4. NtfsTree' /\ NtfsRead'
    BY <1>11, <2>1, <2>3 DEF NtfsTree
  <2>5. CASE pc' = pc /\ result' = result
    BY <1>4, <2>1, <2>3, <2>4, <2>5 DEF NtfsInv
  <2>6. CASE pc' = "done" /\ result' = "Ok" /\ stack' = <<>>
             /\ Parsed(nodes') /\ Totalled(nodes')
    <3>1. Parsed(nodes)' /\ Totalled(nodes)'
      BY <2>6 DEF Parsed, Totalled
    <3>2. QED
      BY <1>4, <2>1, <2>3, <2>4, <2>6, <3>1 DEF NtfsInv
  <2>7. QED
    BY <2>3, <2>5, <2>6
<1>15. CASE ReadError
  <2>1. /\ pc' = "done" /\ result' = "Err"
        /\ found.mft_num <= RecordGuard /\ found.mft_num \in image.failing
    <3>1. Stop("Err") /\ AtRecord /\ ~RecordRead
      BY <1>15 DEF ReadError
    <3>2. pc' = "done" /\ result' = "Err"
      BY <3>1 DEF Stop
    <3>3. QED
      BY <3>1, <3>2 DEF AtRecord, RecordRead
  <2>2. NtfsRead
    BY <1>3, <1>15 DEF ReadError, AtRecord, At
  <2>3. found.mft_num \in 0..RecordGuard
    BY <2>1, <2>2, NtfsAssumption DEF NtfsRead
  <2>4. ~AllCanBeRead
    BY <2>1, <2>3 DEF AllCanBeRead
  <2>5. QED
    BY <1>4, <2>1, <2>4 DEF NtfsInv
<1>16. CASE RecordPanics
  <2>1. pc' = "done" /\ result' = "Panic" /\ Breaks(found.mft_num)
    BY <1>16 DEF RecordPanics, Stop
  <2>2. BootIsSound
    BY <1>3, <1>16 DEF RecordPanics, AtRecord, At
  <2>3. ~NoneIsCutOff
    <3>1. /\ mft_record_size \in Int /\ FlagsEnd \in Nat /\ SignatureSize \in Nat
          /\ SignatureSize <= FlagsEnd
      BY <2>2, NtfsAssumption DEF BootIsSound
    <3>2. CASE mft_record_size < SignatureSize \/ mft_record_size < FlagsEnd
      BY <3>1, <3>2 DEF NoneIsCutOff
    <3>3. CASE /\ Readable(found.mft_num)
               /\ \E a \in ToSet(Walked(image.mft[found.mft_num + 1])) : a.type = "edge"
      <4> DEFINE i == found.mft_num + 1
                 as == image.mft[i].attributes
                 B == { k \in DOMAIN as : ~as[k].fits }
      <4>1. i \in DOMAIN image.mft /\ image.mft[i] \in MftRecord
        BY <1>3, <3>3, NtfsFacts DEF Readable, Fixed
      <4>2. ToSet(Walked(image.mft[i])) \subseteq ToSet(as)
        <5>1. as \in Seq(Attribute)
          BY <4>1 DEF MftRecord
        <5>2. Walked(image.mft[i]) = CutOff(as, B)
          BY DEF Walked, CutOff
        <5>3. B \in SUBSET (DOMAIN as)
          OBVIOUS
        <5> HIDE DEF B, as, i
        <5>4. QED
          BY <5>1, <5>2, <5>3, CutOffSet
      <4>3. QED
        BY <3>3, <4>1, <4>2 DEF NoneIsCutOff
    <3>4. QED
      BY <2>1, <3>2, <3>3 DEF Breaks
  <2>4. QED
    BY <1>4, <2>1, <2>2, <2>3 DEF NtfsInv
<1>17. QED
  <2>1. UNCHANGED vars \/ NtfsNext
    BY OwnSteps
  <2>2. QED
    BY <1>5, <1>6, <1>7, <1>8, <1>9, <1>10, <1>12, <1>13, <1>14, <1>15, <1>16, <2>1
       DEF NtfsNext

-----------------------------------------------------------------------------
(* What is returned was read by one of the readers, each of which sets the *)
(* sizes of the directories.                                               *)
WasRead == result = "Ok" => image.kind \in {"disc", "ntfs", "squash", "disk", "container"}
ReadInv == WasRead /\ DiscInv /\ NtfsInv /\ SquashInv /\ DiskInv /\ ContainerInv
LEMMA ReadTotals ==
  ASSUME ReadInv, result = "Ok"
  PROVE  Parsed(nodes) /\ Totalled(nodes)
<1>1. CASE image.kind = "disc"
  BY <1>1 DEF ReadInv, DiscInv
<1>2. CASE image.kind = "ntfs"
  BY <1>2 DEF ReadInv, NtfsInv
<1>3. CASE image.kind = "squash"
  BY <1>3 DEF ReadInv, SquashInv
<1>4. CASE image.kind = "disk"
  BY <1>4 DEF ReadInv, DiskInv, DiskTree
<1>5. CASE image.kind = "container"
  BY <1>5 DEF ReadInv, ContainerInv
<1>6. QED
  BY <1>1, <1>2, <1>3, <1>4, <1>5 DEF ReadInv, WasRead

(* A directory has the size of the files below it, however deep, in the    *)
(* tree of every reader.                                                   *)
THEOREM SizesAreTotals == Spec => []DirectorySizesAreTotals
<1>1. Init => ReadInv
  <2> SUFFICES ASSUME Init PROVE ReadInv
    OBVIOUS
  <2>1. WasRead
    BY StartsWithImage DEF WasRead
  <2>2. QED
    BY <2>1, DiscInit, NtfsInit, SquashInit, DiskInit, ContainerInit DEF ReadInv
<1>2. ReadInv /\ [Next]_vars => ReadInv'
  <2> SUFFICES ASSUME ReadInv, [Next]_vars PROVE ReadInv'
    OBVIOUS
  <2>1. WasRead'
    <3>1. \/ UNCHANGED <<result, image>>
          \/ image.kind \in {"disc", "ntfs", "squash", "disk", "container"} /\ image' = image
      BY OwnSteps DEF vars
    <3>2. WasRead
      BY DEF ReadInv
    <3>3. QED
      BY <3>1, <3>2 DEF WasRead
  <2>2. /\ DiscInv' /\ NtfsInv' /\ SquashInv' /\ DiskInv' /\ ContainerInv'
    BY DiscSteps, NtfsInvSteps, SquashInvSteps, DiskSteps, ContainerSteps DEF ReadInv
  <2>3. QED
    BY <2>1, <2>2 DEF ReadInv
<1>3. ReadInv => DirectorySizesAreTotals
  <2> SUFFICES ASSUME ReadInv, result = "Ok", NEW d \in DOMAIN nodes, nodes[d].is_directory
               PROVE  nodes[d].size = TotalSize(nodes, FilesBelow(d)) % Word
    BY DEF DirectorySizesAreTotals, FilesBelow
  <2>1. QED
    BY ReadTotals, TotalsBelow
<1>4. QED
  BY <1>1, <1>2, <1>3, PTL DEF Spec

-----------------------------------------------------------------------------
(* A file of one run lies from its first cluster on.                       *)
LEMMA FirstLcn ==
  ASSUME NEW runs, Len(runs) = 1, runs[1].delta \in Int
  PROVE  Lcn(runs, 1) = runs[1].delta
<1> DEFINE Rule(f) == [k \in 0..Len(runs) |-> IF k = 0 THEN 0 ELSE f[k - 1] + runs[k].delta]
           at == CHOOSE f : f = Rule(f)
           g == [k \in 0..Len(runs) |-> IF k = 0 THEN 0 ELSE runs[1].delta]
<1>1. Lcn(runs, 1) = at[1]
  BY DEF Lcn
<1>2. g = Rule(g)
  <2>1. \A k \in 0..Len(runs) : g[k] = IF k = 0 THEN 0 ELSE g[k - 1] + runs[k].delta
    OBVIOUS
  <2>2. QED
    BY <2>1
<1>3. at = Rule(at)
  <2> HIDE DEF Rule, g
  <2>1. QED
    BY <1>2
<1> HIDE DEF at
<1>4. at[0] = 0 /\ at[1] = at[0] + runs[1].delta
  BY <1>3
<1>5. QED
  BY <1>1, <1>4
LEMMA OneRun ==
  ASSUME NEW runs \in Seq([sparse : BOOLEAN, delta : Int, length : Nat]),
         Len(runs) = 1, ~runs[1].sparse
  PROVE  /\ Lcn(runs, 1) \in Int
         /\ ClustersOf(runs) = [j \in 1..runs[1].length |-> Lcn(runs, 1) + j - 1]
<1> DEFINE Part(i) == [ j \in 1..runs[i].length |->
                          IF runs[i].sparse THEN -1 ELSE Lcn(runs, i) + j - 1 ]
           parts == [i \in DOMAIN runs |-> Part(i)]
<1>1. /\ DOMAIN runs = 1..1 /\ runs[1] \in [sparse : BOOLEAN, delta : Int, length : Nat]
  <2> DEFINE Run == [sparse : BOOLEAN, delta : Int, length : Nat]
  <2>1. runs \in Seq(Run)
    OBVIOUS
  <2> HIDE DEF Run
  <2>2. DOMAIN runs = 1..1
    BY <2>1, LenProperties
  <2>3. runs[1] \in Run
    BY <2>1, ElementOfSeq
  <2>4. QED
    BY <2>2, <2>3 DEF Run
<1>2. runs[1].delta \in Int /\ runs[1].length \in Nat
  BY <1>1
<1>3. Lcn(runs, 1) \in Int
  BY <1>2, FirstLcn
<1>4. Part(1) = [j \in 1..runs[1].length |-> Lcn(runs, 1) + j - 1]
  OBVIOUS
<1>5. Part(1) \in Seq(Int)
  <2>1. \A j \in 1..runs[1].length : Lcn(runs, 1) + j - 1 \in Int
    BY <1>2, <1>3
  <2>2. Part(1) \in [1..runs[1].length -> Int]
    BY <1>4, <2>1
  <2> HIDE DEF Part
  <2>3. QED
    BY <1>2, <2>2, SeqDef
<1>6. parts = [i \in 1..1 |-> Part(i)]
  BY <1>1
<1>7. ClustersOf(runs) = FlattenSeq(parts)
  BY DEF ClustersOf
<1> HIDE DEF Part
<1>8. \A i \in 1..1 : Part(i) \in Seq(Int)
  BY <1>5
<1>9. parts \in Seq(Seq(Int)) /\ Len(parts) = 1 /\ parts[1] = Part(1)
  <2>1. parts \in [1..1 -> Seq(Int)] /\ parts[1] = Part(1)
    BY <1>6, <1>8
  <2> DEFINE X == Seq(Int)
  <2>2. parts \in Seq(X)
    <3>1. parts \in [1..1 -> X]
      BY <2>1
    <3> HIDE DEF parts, X
    <3>2. parts \in UNION { [1..n -> X] : n \in Nat }
      BY <3>1
    <3>3. QED
      BY ONLY <3>2, SeqDef
  <2> HIDE DEF parts
  <2>3. QED
    BY <2>1, <2>2, LenProperties
<1> HIDE DEF parts
<1>10. FlattenSeq(parts) = Part(1)
  BY <1>9, FlattenOne
<1>11. QED
  BY <1>3, <1>4, <1>7, <1>10
(* The only data attribute of a record is the one that locates its file.   *)
LEMMA NtfsRangesHold == NtfsInv => NtfsRangesAreTheFiles
<1> SUFFICES ASSUME NtfsInv, Finished("ntfs"), result = "Ok",
                    NEW r \in ToSet(found.records),
                    NEW a \in ToSet(DataOf(image.mft[r.mft_num + 1])), ~a.resident,
                    Len(DataOf(image.mft[r.mft_num + 1])) = 1, r.file_location # None,
                    NEW v \in DOMAIN ClustersOf(a.runs), (v - 1) * cluster_size < a.size
             PROVE  r.file_location + (v - 1) * cluster_size
                      = image.base + ClustersOf(a.runs)[v] * cluster_size
  BY DEF NtfsRangesAreTheFiles
<1> DEFINE n == r.mft_num
           data == DataOf(image.mft[n + 1])
<1>1. IsNtfs(image) /\ NtfsRead
  BY DEF NtfsInv, Finished
<1>2. found.records \in Seq(NtfsEntry) /\ found.base = image.base
  BY <1>1 DEF NtfsRead, Collected
<1>3. r \in NtfsEntry
  BY <1>2, ElementsOf
<1>4. n \in UserRecords /\ r = InfoOf(n)
  BY <1>1, <1>3, NtfsEntryFacts
<1>5. image.mft[n + 1] \in MftRecord
  BY <1>1, <1>4, UserFacts
<1>6. r.file_location = FileLocation(data, n)
  BY <1>1, <1>4, InfoFacts
<1>7. data \in Seq(Attribute) /\ data[1] \in Attribute /\ data[1].type = "data" /\ Len(data) = 1
  BY <1>5, DataFacts
<1> HIDE DEF data, n
<1>8. a = data[1] /\ DOMAIN data = 1..1
  <2>1. a \in { data[i] : i \in 1..Len(data) } /\ DOMAIN data = 1..Len(data)
    BY <1>7, ElementsOf DEF data, n
  <2>2. QED
    BY <1>7, <2>1
<1>9. a.runs \in Seq([sparse : BOOLEAN, delta : Int, length : Nat])
  BY <1>7, <1>8, AttributeFacts
<1>10. FileLocation(data, n) = Located(a, n) /\ Located(a, n) # None
  <2> DEFINE set == { i \in DOMAIN data : Located(data[i], n) # None }
  <2>1. set # {}
    BY <1>6 DEF FileLocation
  <2>2. set = {1}
    BY <1>8, <2>1
  <2>3. (CHOOSE i \in set : \A j \in set : j <= i) = 1
    BY <2>2
  <2>4. FileLocation(data, n) = Located(data[1], n)
    BY <2>1, <2>3 DEF FileLocation
  <2>5. QED
    BY <1>6, <1>8, <2>4
<1>11. /\ Len(a.runs) = 1 /\ ~had_sparse(a.runs)
       /\ Located(a, n) = found.base + Lcn(a.runs, 1) * cluster_size
  BY <1>10 DEF Located
<1>12. ~a.runs[1].sparse
  BY <1>9, <1>11, LenProperties DEF had_sparse
<1>13. /\ Lcn(a.runs, 1) \in Int
       /\ ClustersOf(a.runs) = [j \in 1..a.runs[1].length |-> Lcn(a.runs, 1) + j - 1]
  BY <1>9, <1>11, <1>12, OneRun
<1>14. v \in Nat /\ ClustersOf(a.runs)[v] = Lcn(a.runs, 1) + v - 1
  <2>1. a.runs[1].length \in Nat
    <3> DEFINE Run == [sparse : BOOLEAN, delta : Int, length : Nat]
               s == a.runs
    <3>1. s \in Seq(Run) /\ Len(s) = 1
      BY <1>9, <1>11
    <3> HIDE DEF Run, s
    <3>2. s[1] \in Run
      <4>1. 1 \in 1..Len(s)
        BY <3>1
      <4>2. QED
        BY ONLY <3>1, <4>1, ElementOfSeq
    <3>3. QED
      BY <3>2 DEF Run, s
  <2>2. QED
    BY <1>13, <2>1
<1>15. cluster_size \in Nat /\ image.base \in Nat
  BY <1>1 DEF IsNtfs, cluster_size, Boot
<1>16. \A l, w, c, b \in Int : b + l * c + (w - 1) * c = b + (l + w - 1) * c
  OBVIOUS
<1> HIDE DEF cluster_size
<1>17. QED
  BY <1>2, <1>6, <1>10, <1>11, <1>13, <1>14, <1>15, <1>16
(* Every cluster of a file that a record locates outside itself is where   *)
(* the range of its node has it.                                           *)
THEOREM NtfsRangesAreRight == Spec => []NtfsRangesAreTheFiles
<1>1. Init => NtfsInv
  BY NtfsInit
<1>2. NtfsInv /\ [Next]_vars => NtfsInv'
  BY NtfsInvSteps
<1>3. NtfsInv => NtfsRangesAreTheFiles
  BY NtfsRangesHold
<1>4. QED
  BY <1>1, <1>2, <1>3, PTL DEF Spec

-----------------------------------------------------------------------------
(* Each name of an NTFS volume has one node, and each node has one.        *)
LEMMA NtfsNamesAre ==
  ASSUME IsNtfs(image)
  PROVE  /\ NtfsNames = { x \in NamesBelow(NtfsReading.root, NtfsReading.in,
                                           NtfsReading.name, NtfsReading.max) :
                            x[1] # <<>> /\ ~(Len(x[1]) = NtfsReading.max
                                              /\ IsFolder(x[2])) }
         /\ \A x \in NtfsNames : x[2] \in Nat /\ x = << x[1], x[2] >>
<1> DEFINE in == NtfsReading.in
           named == NtfsReading.name
           all == NamesBelow(RootRecord, in, named, NtfsDepth + 1)
<1>1. /\ in = [n \in Nat |-> InFolder(n)] /\ named = [n \in Nat |-> GivenName(n).name]
      /\ NtfsReading.root = RootRecord /\ RootRecord \in Nat
      /\ NtfsReading.max = NtfsDepth + 1 /\ NtfsDepth \in Nat
      /\ in \in [Nat -> SUBSET Nat]
  BY NtfsReadingFacts DEF IsReading
<1>2. NtfsNames = { x \in all : x[1] # <<>> /\ ~(Len(x[1]) = NtfsDepth + 1 /\ IsFolder(x[2])) }
  BY <1>1 DEF NtfsNames
<1>3. NtfsDepth + 1 \in Nat
  BY <1>1
<1> HIDE DEF in, named
<1>4. \A x \in all : x[2] \in Nat /\ x = << x[1], x[2] >>
  BY <1>1, <1>3, NamesAreThere
<1> HIDE DEF all
<1>5. \A x \in NtfsNames : x[2] \in Nat /\ x = << x[1], x[2] >>
  BY <1>2, <1>4
<1>6. QED
  BY <1>1, <1>2, <1>5 DEF all, in, named
HasNode(src, x) == \E k \in 2..Len(nodes) : PathOf(k) = x[1] /\ src[k] = x[2]
NtfsNodesAre(src) ==
  /\ \A k \in 2..Len(nodes) : /\ << PathOf(k), src[k] >> \in NtfsNames
                              /\ nodes[k].is_directory = IsFolder(src[k])
  /\ \A k, m \in 2..Len(nodes) : src[k] = src[m] => k = m
  /\ \A x \in NtfsNames : HasNode(src, x)
LEMMA NtfsNodes ==
  ASSUME IsNtfs(image), NtfsTree, stack = <<>>
  PROVE  Len(nodes) \in Nat \ {0} /\ \E src : NtfsNodesAre(src)
<1> DEFINE R == NtfsReading
           all == NamesBelow(R.root, R.in, R.name, R.max)
<1>1. PICK src, level : Built(R, nodes, stack, src, level) /\ Sole(R, nodes, stack, src)
  BY DEF NtfsTree, IsSole
<1>2. /\ IsReading(R) /\ R.sources = Nat /\ R.lossy
      /\ \A n \in Nat : R.dir[n] = IsFolder(n)
  BY NtfsReadingFacts
<1>3. /\ R.in \in [R.sources -> SUBSET R.sources] /\ R.root \in R.sources /\ R.max \in Nat
  BY <1>2 DEF IsReading
<1>4. /\ NtfsNames = { x \in all : x[1] # <<>> /\ ~(Len(x[1]) = R.max /\ IsFolder(x[2])) }
      /\ \A x \in NtfsNames : x[2] \in Nat
  BY NtfsNamesAre
<1> HIDE DEF R
<1>5. NodesAre(R, src, all) /\ MostNamed(R, src, all) /\ AsDeep(level)
  <2> DEFINE in == R.in
             named == R.name
  <2>1. /\ IsCover(R, in) /\ SameNames(R, in, named)
        /\ all = NamesBelow(R.root, in, named, R.max) /\ HasAll(R, in, all)
    BY <1>3 DEF IsCover, SameNames, HasAll
  <2> HIDE DEF in, named, all
  <2>2. /\ NodesAre(R, src, all) /\ AsDeep(level)
        /\ stack = <<>> /\ HasAll(R, in, all) => MostNamed(R, src, all)
    BY ONLY <1>1, <1>2, <2>1, NamesAreNodes
  <2>3. QED
    BY <2>1, <2>2
<1> HIDE DEF all
<1>6. /\ Parsed(nodes) /\ Len(nodes) \in Nat /\ Len(nodes) >= 1
      /\ \A k \in 1..Len(nodes) : Descends(R, src[k]) => level[k] < R.max
      /\ \A k \in 1..Len(nodes) : level[k] \in Nat
      /\ src \in [1..Len(nodes) -> Nat]
  BY <1>1, <1>2, TreeFacts DEF Built, NodesBuilt
<1>7. ASSUME NEW k \in 2..Len(nodes)
      PROVE  << PathOf(k), src[k] >> \in NtfsNames /\ nodes[k].is_directory = IsFolder(src[k])
  <2> DEFINE x == << PathOf(k), src[k] >>
  <2>1. /\ x \in all /\ PathOf(k) # <<>> /\ src[k] \in Nat
        /\ nodes[k].is_directory = R.dir[src[k]]
    BY <1>2, <1>5 DEF NodesAre
  <2>2. k \in 1..Len(nodes)
    BY <1>6
  <2>3. R.dir[src[k]] = IsFolder(src[k])
    BY <1>2, <2>1
  <2>4. ~(Len(PathOf(k)) = R.max /\ IsFolder(src[k]))
    <3> SUFFICES ASSUME Len(PathOf(k)) = R.max, IsFolder(src[k]) PROVE FALSE
      OBVIOUS
    <3>1. Descends(R, src[k])
      BY <1>2, <2>3 DEF Descends
    <3>2. level[k] < R.max /\ level[k] = R.max
      BY <1>5, <1>6, <2>2, <3>1 DEF AsDeep
    <3>3. QED
      BY <1>3, <3>2
  <2>5. x \in all /\ x[1] # <<>> /\ ~(Len(x[1]) = R.max /\ IsFolder(x[2]))
    BY <2>1, <2>4
  <2> HIDE DEF x
  <2>6. x \in NtfsNames
    BY <1>4, <2>5
  <2>7. QED
    BY <2>1, <2>3, <2>6 DEF x
<1>8. \A k, m \in 2..Len(nodes) : src[k] = src[m] => k = m
  <2>1. \A k \in 2..Len(nodes) : k \in 1..Len(nodes)
    BY <1>6
  <2>2. \A a, b \in 1..Len(nodes) : src[a] = src[b] => a = b
    BY <1>1 DEF Sole
  <2>3. QED
    BY <2>1, <2>2
<1>9. ASSUME NEW x \in NtfsNames PROVE HasNode(src, x)
  <2>1. x \in all /\ x[1] # <<>> /\ ~(Len(x[1]) = R.max /\ IsFolder(x[2])) /\ x[2] \in Nat
    BY <1>4
  <2>2. ~(R.lossy /\ Len(x[1]) = R.max /\ R.dir[x[2]])
    BY <1>2, <2>1
  <2>3. QED
    BY <1>5, <2>1, <2>2 DEF MostNamed, HasNode
<1>10. QED
  BY <1>6, <1>7, <1>8, <1>9 DEF NtfsNodesAre
LEMMA NtfsCount ==
  ASSUME IsNtfs(image), Len(nodes) \in Nat \ {0}, NEW src, NtfsNodesAre(src)
  PROVE  Len(nodes) - 1 = Cardinality(NtfsNames)
<1> DEFINE n == Len(nodes)
           f == [x \in NtfsNames |->
                   CHOOSE k \in 2..n : PathOf(k) = x[1] /\ src[k] = x[2]]
<1>1. \A x \in NtfsNames : x = << x[1], x[2] >>
  BY NtfsNamesAre
<1>2. ASSUME NEW x \in NtfsNames
      PROVE  f[x] \in 2..n /\ PathOf(f[x]) = x[1] /\ src[f[x]] = x[2]
  <2>1. \E k \in 2..n : PathOf(k) = x[1] /\ src[k] = x[2]
    BY DEF NtfsNodesAre, HasNode
  <2>2. f[x] = CHOOSE k \in 2..n : PathOf(k) = x[1] /\ src[k] = x[2]
    OBVIOUS
  <2> HIDE DEF f
  <2>3. QED
    BY <2>1, <2>2
<1> HIDE DEF f
<1>3. \A x, y \in NtfsNames : f[x] = f[y] => x = y
  <2> SUFFICES ASSUME NEW x \in NtfsNames, NEW y \in NtfsNames, f[x] = f[y] PROVE x = y
    OBVIOUS
  <2>1. x[1] = y[1] /\ x[2] = y[2]
    BY <1>2
  <2>2. QED
    BY <1>1, <2>1
<1>4. \A t \in 2..n : \E x \in NtfsNames : f[x] = t
  <2> SUFFICES ASSUME NEW t \in 2..n PROVE \E x \in NtfsNames : f[x] = t
    OBVIOUS
  <2> DEFINE x == << PathOf(t), src[t] >>
  <2>1. x \in NtfsNames /\ x[2] = src[t]
    BY DEF NtfsNodesAre
  <2> HIDE DEF x
  <2>2. f[x] \in 2..n /\ src[f[x]] = src[t]
    BY <1>2, <2>1
  <2>3. f[x] = t
    BY <2>2 DEF NtfsNodesAre
  <2>4. QED
    BY <2>1, <2>3
<1>5. IsFiniteSet(2..n) /\ Cardinality(2..n) = n - 1
  BY FS_Interval
<1> DEFINE T == 2..n
           S == NtfsNames
<1>6. /\ \A x \in S : f[x] \in T
      /\ \A x, y \in S : f[x] = f[y] => x = y
      /\ \A t \in T : \E x \in S : f[x] = t
      /\ IsFiniteSet(T)
  BY <1>2, <1>3, <1>4, <1>5
<1>7. Cardinality(S) = Cardinality(T)
  <2> HIDE DEF S, T
  <2>1. QED
    BY ONLY <1>6, SameCount
<1>8. QED
  BY <1>5, <1>7
(* The nodes are the names.                                                *)
LEMMA NtfsTreeHolds == NtfsInv => NtfsTreeIsTheNameSpace
<1> SUFFICES ASSUME NtfsInv, Finished("ntfs") PROVE NtfsTreeIsTheNameSpace
  BY DEF NtfsTreeIsTheNameSpace
<1>1. /\ IsNtfs(image) /\ result \in {"Ok", "Err", "Panic"}
      /\ result = "Ok" => BootIsSound /\ NtfsRead /\ NtfsTree /\ stack = <<>>
      /\ result = "Ok" => found.mft_num = RecordGuard + 1
      /\ result = "Err" => ~BootIsSound \/ ~AllCanBeRead
      /\ result = "Panic" => BootIsSound /\ ~NoneIsCutOff
  BY DEF NtfsInv, Finished
<1>2. result = "Ok" => AllCanBeRead
  <2> SUFFICES ASSUME result = "Ok" PROVE AllCanBeRead
    OBVIOUS
  <2> DEFINE m == found.mft_num
  <2>1. m = RecordGuard + 1 /\ RecordGuard \in Nat
    BY <1>1, NtfsAssumption
  <2>2. \A n \in 0..(m - 1) : n \notin image.failing
    BY <1>1 DEF NtfsRead
  <2> HIDE DEF m
  <2>3. \A n \in 0..RecordGuard : n \notin image.failing
    BY ONLY <2>1, <2>2
  <2>4. QED
    BY <2>3 DEF AllCanBeRead
<1>3. ASSUME result = "Ok"
      PROVE  /\ Len(nodes) - 1 = Cardinality(NtfsNames)
             /\ TreeOf(LAMBDA k : << PathOf(k), nodes[k].is_directory >>)
                  = { << x[1], IsFolder(x[2]) >> : x \in NtfsNames }
  <2> DEFINE Of(x) == << x[1], IsFolder(x[2]) >>
             Tree == { << PathOf(k), nodes[k].is_directory >> : k \in 2..Len(nodes) }
             There == { Of(x) : x \in NtfsNames }
  <2>1. PICK src : Len(nodes) \in Nat \ {0} /\ NtfsNodesAre(src)
    BY <1>1, <1>3, NtfsNodes
  <2>2. Tree \subseteq There
    <3>1. ASSUME NEW k \in 2..Len(nodes)
          PROVE  << PathOf(k), nodes[k].is_directory >> \in There
      <4> DEFINE x == << PathOf(k), src[k] >>
      <4>1. x \in NtfsNames /\ << PathOf(k), nodes[k].is_directory >> = Of(x)
        BY <2>1 DEF NtfsNodesAre
      <4> HIDE DEF x, Of
      <4>2. QED
        BY <4>1
    <3>2. QED
      BY <3>1
  <2>3. There \subseteq Tree
    <3>1. ASSUME NEW x \in NtfsNames PROVE Of(x) \in Tree
      <4>1. PICK k \in 2..Len(nodes) : PathOf(k) = x[1] /\ src[k] = x[2]
        BY <2>1 DEF NtfsNodesAre, HasNode
      <4>2. << PathOf(k), nodes[k].is_directory >> = Of(x)
        BY <2>1, <4>1 DEF NtfsNodesAre
      <4> HIDE DEF Of
      <4>3. QED
        BY <4>2
    <3> HIDE DEF Of, Tree
    <3>2. QED
      BY <3>1
  <2>4. TreeOf(LAMBDA k : << PathOf(k), nodes[k].is_directory >>) = Tree
    BY DEF TreeOf
  <2> HIDE DEF Tree
  <2>5. QED
    BY <1>1, <2>1, <2>2, <2>3, <2>4, NtfsCount
<1>4. QED
  BY <1>1, <1>2, <1>3 DEF NtfsTreeIsTheNameSpace
(* An NTFS volume is read when its boot sector is sound, and its tree has  *)
(* each record that hangs on the root, down to the limit, exactly once.    *)
THEOREM NtfsTreeIsRight == Spec => []NtfsTreeIsTheNameSpace
<1>1. Init => NtfsInv
  BY NtfsInit
<1>2. NtfsInv /\ [Next]_vars => NtfsInv'
  BY NtfsInvSteps
<1>3. NtfsInv => NtfsTreeIsTheNameSpace
  BY NtfsTreeHolds
<1>4. QED
  BY <1>1, <1>2, <1>3, PTL DEF Spec
=============================================================================
