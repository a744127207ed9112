------------------------------- MODULE Lemmas -------------------------------
(***************************************************************************)
(* Lemmas that the proofs about several components cite: induction over    *)
(* numbers, stated with sets so that first-order provers can use it, what  *)
(* it says of functions defined by recursion (that they exist, and what    *)
(* their values are), how many elements of a set come before one of them,  *)
(* facts about ranges of the image, and how a tree grows that is read off  *)
(* directory by directory.                                                 *)
(***************************************************************************)
EXTENDS Integers, ImageRange, SequencesExt, SequenceTheorems,
        FiniteSetTheorems, WellFoundedInduction, TLAPS

-----------------------------------------------------------------------------
(* A set of numbers has a least one: "<" is well-founded.                  *)
LEMMA LeastElement ==
  ASSUME NEW T \in SUBSET Nat, T # {}
  PROVE  \E x \in T : \A y \in T : x <= y
<1> DEFINE R == OpToRel(<, Nat)
<1>1. IsWellFoundedOn(R, Nat)
  BY NatLessThanWellFounded
<1>2. \A x, y \in Nat : y < x => <<y, x>> \in R
  BY DEF OpToRel
<1> HIDE DEF R
<1>3. PICK x \in T : \A y \in T : ~ (<<y, x>> \in R)
  BY <1>1, WFMin
<1>4. \A y \in T : ~(y < x)
  BY <1>2, <1>3
<1>5. QED
  BY <1>4

(* What holds of 0 and is handed on holds of every number.                 *)
LEMMA SetInduction ==
  ASSUME NEW S \in SUBSET Nat, 0 \in S, \A n \in S : n + 1 \in S
  PROVE  S = Nat
<1> SUFFICES ASSUME Nat \ S # {} PROVE FALSE
  OBVIOUS
<1>1. PICK x \in Nat \ S : \A y \in Nat \ S : x <= y
  BY LeastElement
<1>2. x - 1 \in Nat /\ x - 1 \notin S
  OBVIOUS
<1>3. QED
  BY <1>1, <1>2

(* The same up to a number n.                                              *)
LEMMA UpTo ==
  ASSUME NEW n \in Nat, NEW S,
         0 \in S, \A i \in 1..n : i - 1 \in S => i \in S
  PROVE  0..n \subseteq S
<1> DEFINE T == { i \in Nat : i <= n => i \in S }
<1>1. 0 \in T
  OBVIOUS
<1>2. ASSUME NEW i \in T PROVE i + 1 \in T
  <2>1. CASE i + 1 <= n
    <3>1. i \in S /\ i + 1 \in 1..n /\ (i + 1) - 1 = i
      BY <2>1
    <3>2. QED
      BY <3>1
  <2>2. CASE ~(i + 1 <= n)
    BY <2>2
  <2>3. QED
    BY <2>1, <2>2
<1>3. T = Nat
  <2> HIDE DEF T
  <2>1. T \in SUBSET Nat
    BY DEF T
  <2>2. QED
    BY <1>1, <1>2, <2>1, SetInduction
<1>4. QED
  BY <1>3

(* The values of a function that is defined step by step.                  *)
LEMMA ValuesUpTo ==
  ASSUME NEW n \in Nat, NEW X, NEW f,
         f[0] \in X, \A i \in 1..n : f[i - 1] \in X => f[i] \in X
  PROVE  \A i \in 0..n : f[i] \in X
<1> DEFINE S == { i \in 0..n : f[i] \in X }
<1>1. 0 \in S /\ \A i \in 1..n : i - 1 \in S => i \in S
  OBVIOUS
<1>2. 0..n \subseteq S
  <2> HIDE DEF S
  <2>1. QED
    BY <1>1, UpTo
<1>3. QED
  BY <1>2

(* A function that takes step[i] from its value at i - 1 to that at i.     *)
Recursion(f, n, X, first, step) ==
  /\ f \in [0..n -> X]
  /\ f[0] = first
  /\ \A i \in 1..n : f[i] = step[i][f[i - 1]]
LEMMA RecursionExists ==
  ASSUME NEW n \in Nat, NEW X, NEW first \in X,
         NEW step \in [Nat -> [X -> X]]
  PROVE  \E f : Recursion(f, n, X, first, step)
<1> DEFINE Is(m, f) == f[0] = first /\ \A i \in 1..m : f[i] = step[i][f[i - 1]]
           S == { m \in Nat : \E f \in [0..m -> X] : Is(m, f) }
<1>1. 0 \in S
  <2>1. [i \in 0..0 |-> first] \in [0..0 -> X] /\ Is(0, [i \in 0..0 |-> first])
    OBVIOUS
  <2>2. QED
    BY <2>1
<1>2. ASSUME NEW m \in S PROVE m + 1 \in S
  <2>1. PICK e \in [0..m -> X] : Is(m, e)
    OBVIOUS
  <2>2. m \in Nat
    OBVIOUS
  <2> DEFINE next == step[m + 1][e[m]]
             g == [i \in 0..(m + 1) |-> IF i = m + 1 THEN next ELSE e[i]]
  <2>3. next \in X
    BY <2>2
  <2>4. g \in [0..(m + 1) -> X]
    BY <2>2, <2>3
  <2>5. g[0] = first
    BY <2>1, <2>2
  <2>6. ASSUME NEW i \in 1..(m + 1) PROVE g[i] = step[i][g[i - 1]]
    <3>1. i - 1 \in 0..m /\ g[i - 1] = e[i - 1]
      BY <2>2
    <3>2. CASE i = m + 1
      BY <2>2, <3>1, <3>2
    <3>3. CASE i # m + 1
      BY <2>1, <2>2, <3>1, <3>3
    <3>4. QED
      BY <3>2, <3>3
  <2> HIDE DEF g
  <2>7. \E h \in [0..(m + 1) -> X] : Is(m + 1, h)
    BY <2>4, <2>5, <2>6
  <2>8. m + 1 \in Nat
    BY <2>2
  <2>9. QED
    BY <2>7, <2>8
<1>3. S = Nat
  <2> HIDE DEF S
  <2>1. S \in SUBSET Nat
    BY DEF S
  <2>2. QED
    BY <1>1, <1>2, <2>1, SetInduction
<1>4. PICK f \in [0..n -> X] : Is(n, f)
  BY <1>3
<1>5. Recursion(f, n, X, first, step)
  BY <1>4 DEF Recursion
<1>6. QED
  BY <1>5

(* A list made by passing over another and keeping some of its elements.   *)
Filters(f, n, X, keep, elem) ==
  /\ f \in [0..n -> Seq(X)]
  /\ f[0] = <<>>
  /\ \A i \in 1..n :
       f[i] = IF i \in keep THEN Append(f[i - 1], elem[i]) ELSE f[i - 1]
LEMMA FilteredExists ==
  ASSUME NEW n \in Nat, NEW X, NEW keep, NEW elem,
         \A i \in 1..n : i \in keep => elem[i] \in X
  PROVE  \E f : Filters(f, n, X, keep, elem)
<1> DEFINE G(i, s) == IF i \in 1..n /\ i \in keep THEN Append(s, elem[i]) ELSE s
           step == [i \in Nat |-> [s \in Seq(X) |-> G(i, s)]]
<1>1. \A i \in Nat, s \in Seq(X) : G(i, s) \in Seq(X)
  BY AppendProperties
<1>2. step \in [Nat -> [Seq(X) -> Seq(X)]]
  <2> HIDE DEF G
  <2>1. QED
    BY <1>1
<1>3. <<>> \in Seq(X)
  BY EmptySeq
<1>4. PICK f : Recursion(f, n, Seq(X), <<>>, step)
  <2> HIDE DEF step
  <2>1. QED
    BY <1>2, <1>3, RecursionExists
<1>5. ASSUME NEW i \in 1..n
      PROVE  f[i] = IF i \in keep THEN Append(f[i - 1], elem[i]) ELSE f[i - 1]
  <2>1. i \in Nat /\ i - 1 \in 0..n /\ f[i - 1] \in Seq(X)
    BY <1>4 DEF Recursion
  <2>2. f[i] = step[i][f[i - 1]]
    BY <1>4 DEF Recursion
  <2>3. step[i][f[i - 1]] = G(i, f[i - 1])
    <3> HIDE DEF G
    <3>1. QED
      BY <2>1
  <2>4. QED
    BY <2>2, <2>3
<1>6. QED
  BY <1>4, <1>5 DEF Recursion, Filters

(* A set of numbers with an upper bound has a greatest one.                *)
LEMMA GreatestElement ==
  ASSUME NEW n \in Nat, NEW S \in SUBSET (0..n), S # {}
  PROVE  \E x \in S : \A y \in S : x >= y
<1> DEFINE T == { i \in Nat : i <= n /\ n - i \in S }
<1>1. T # {}
  <2>1. PICK x \in S : TRUE
    OBVIOUS
  <2>2. x \in 0..n
    OBVIOUS
  <2>3. n - x \in Nat /\ n - x <= n /\ n - (n - x) = x
    BY <2>2
  <2>4. n - x \in T
    BY <2>3
  <2>5. QED
    BY <2>4
<1>2. PICK i \in T : \A j \in T : i <= j
  <2> HIDE DEF T
  <2>1. T \in SUBSET Nat
    BY DEF T
  <2>2. QED
    BY <1>1, <2>1, LeastElement
<1>3. ASSUME NEW y \in S PROVE n - i >= y
  <2>1. y \in 0..n
    OBVIOUS
  <2>2. n - y \in Nat /\ n - y <= n /\ n - (n - y) = y
    BY <2>1
  <2>3. n - y \in T
    BY <2>2
  <2>4. i <= n - y /\ i \in Nat
    BY <1>2, <2>3
  <2>5. QED
    BY <2>1, <2>4
<1>4. n - i \in S
  BY <1>2
<1>5. QED
  BY <1>3, <1>4

-----------------------------------------------------------------------------
(* The sums of the first sizes, each from the one before it.               *)
Sums(f, n, size) == f[0] = 0 /\ \A i \in 1..n : f[i] = f[i - 1] + size[i]
LEMMA SumsExist ==
  ASSUME NEW n \in Nat, NEW size, \A i \in 1..n : size[i] \in Nat
  PROVE  \E f : f \in [0..n -> Nat] /\ Sums(f, n, size)
<1> DEFINE G(i, x) == IF i \in 1..n THEN x + size[i] ELSE 0
           next == [i \in Nat |-> [x \in Nat |-> G(i, x)]]
<1>1. next \in [Nat -> [Nat -> Nat]]
  <2>1. ASSUME NEW i \in Nat, NEW x \in Nat PROVE G(i, x) \in Nat
    OBVIOUS
  <2> HIDE DEF G
  <2>2. QED
    BY <2>1
<1>2. PICK f : Recursion(f, n, Nat, 0, next)
  <2> HIDE DEF next
  <2>1. 0 \in Nat
    OBVIOUS
  <2>2. QED
    BY <1>1, <2>1, RecursionExists
<1>3. f[0] = 0 /\ f \in [0..n -> Nat]
  BY <1>2 DEF Recursion
<1>4. ASSUME NEW i \in 1..n PROVE f[i] = f[i - 1] + size[i]
  <2>1. i \in Nat /\ i - 1 \in 0..n /\ f[i - 1] \in Nat
    BY <1>3
  <2>2. next[i][f[i - 1]] = f[i - 1] + size[i]
    BY <2>1
  <2>3. QED
    BY <1>2, <2>2 DEF Recursion
<1>5. QED
  BY <1>3, <1>4 DEF Sums

LEMMA SumsGrow ==
  ASSUME NEW n \in Nat, NEW size, \A i \in 1..n : size[i] \in Nat,
         NEW f, Sums(f, n, size)
  PROVE  /\ \A i \in 0..n : f[i] \in Nat
         /\ \A i, j \in 0..n : i <= j => f[i] <= f[j]
<1>1. ASSUME NEW i \in 0..n PROVE f[i] \in Nat
  <2>1. f[0] \in Nat /\ \A k \in 1..n : f[k - 1] \in Nat => f[k] \in Nat
    BY DEF Sums
  <2>2. QED
    BY <2>1, ValuesUpTo
<1>2. ASSUME NEW i \in 0..n PROVE \A j \in 0..n : i <= j => f[i] <= f[j]
  <2> DEFINE S == { j \in 0..n : i <= j => f[i] <= f[j] }
  <2>1. 0 \in S
    BY <1>1
  <2>2. ASSUME NEW j \in 1..n, j - 1 \in S PROVE j \in S
    <3>1. /\ j \in 0..n /\ j - 1 \in 0..n
          /\ f[j] \in Nat /\ f[j - 1] \in Nat /\ f[i] \in Nat
      BY <1>1
    <3>2. f[j - 1] <= f[j]
      <4>1. f[j] = f[j - 1] + size[j] /\ size[j] \in Nat
        BY DEF Sums
      <4>2. QED
        BY <3>1, <4>1
    <3>3. i <= j - 1 => f[i] <= f[j - 1]
      BY <2>2
    <3>4. i <= j => f[i] <= f[j]
      BY <3>1, <3>2, <3>3
    <3>5. QED
      BY <3>1, <3>4
  <2>3. 0..n \subseteq S
    <3> HIDE DEF S
    <3>1. QED
      BY <2>1, <2>2, UpTo
  <2>4. QED
    BY <2>3
<1>3. QED
  BY <1>1, <1>2

-----------------------------------------------------------------------------
(* Division rounds down.                                                   *)
LEMMA FloorFacts ==
  ASSUME NEW n \in Nat, NEW d \in Nat \ {0}
  PROVE  n \div d \in Nat /\ (n \div d) * d <= n
<1>1. n \div d \in Nat /\ n % d \in 0..(d - 1)
  OBVIOUS
<1>2. n = d * (n \div d) + (n % d)
  OBVIOUS
<1> DEFINE q == n \div d
<1> HIDE DEF q
<1>3. d * q = q * d /\ q * d \in Nat
  BY <1>1 DEF q
<1>4. QED
  BY <1>1, <1>2, <1>3 DEF q

(* Products of numbers.                                                    *)
LEMMA Products ==
  /\ \A a, b \in Nat : a * b \in Nat
  /\ \A a, b, c \in Nat : a <= b => a * c <= b * c
  /\ \A a, b, c \in Nat : (a + b) * c = a * c + b * c
  /\ \A a, b, c \in Nat : (a * b) * c = a * (b * c)
<1>1. \A a, b \in Nat : a * b \in Nat
  OBVIOUS
<1>2. \A a, b, c \in Nat : (a + b) * c = a * c + b * c
  OBVIOUS
<1>3. \A a, b, c \in Nat : (a * b) * c = a * (b * c)
  OBVIOUS
<1>4. ASSUME NEW a \in Nat, NEW b \in Nat, NEW c \in Nat, a <= b
      PROVE  a * c <= b * c
  <2>1. PICK e \in Nat : b = a + e
    <3>1. b - a \in Nat /\ b = a + (b - a)
      BY <1>4
    <3>2. QED
      BY <3>1
  <2>2. b * c = a * c + e * c /\ e * c \in Nat /\ a * c \in Nat
    BY <1>1, <1>2, <2>1
  <2> DEFINE x == a * c
             y == e * c
             z == b * c
  <2> HIDE DEF x, y, z
  <2>3. z = x + y /\ x \in Nat /\ y \in Nat
    BY <2>2 DEF x, y, z
  <2>4. x <= z
    BY <2>3
  <2>5. QED
    BY <2>4 DEF x, z
<1>5. QED
  BY <1>1, <1>2, <1>3, <1>4

-----------------------------------------------------------------------------
(* The sequences of a sequence, one after the other: joined step by step.  *)
Joins(f, n, X, seqs) ==
  /\ f \in [0..n -> Seq(X)]
  /\ f[0] = <<>>
  /\ \A i \in 1..n : f[i] = f[i - 1] \o seqs[i]
LEMMA Flattening ==
  ASSUME NEW X, NEW seqs \in Seq(Seq(X))
  PROVE  \E f : Joins(f, Len(seqs), X, seqs) /\ FlattenSeq(seqs) = f[Len(seqs)]
<1> DEFINE n == Len(seqs)
           G(i, s) == IF i \in 1..n THEN s \o seqs[i] ELSE s
           next == [i \in Nat |-> [s \in Seq(X) |-> G(i, s)]]
           Rule(f) == [i \in 1..n |-> IF i = 1 THEN seqs[i] ELSE f[i - 1] \o seqs[i]]
           flatten == CHOOSE f : f = Rule(f)
<1>1. n \in Nat /\ \A i \in 1..n : seqs[i] \in Seq(X)
  BY LenProperties, ElementOfSeq
<1>2. FlattenSeq(seqs) = IF n = 0 THEN seqs ELSE flatten[n]
  BY DEF FlattenSeq
<1> HIDE DEF n
<1>3. next \in [Nat -> [Seq(X) -> Seq(X)]]
  <2>1. ASSUME NEW i \in Nat, NEW s \in Seq(X) PROVE G(i, s) \in Seq(X)
    BY <1>1, ConcatProperties
  <2> HIDE DEF G
  <2>2. QED
    BY <2>1
<1>4. PICK f : Recursion(f, n, Seq(X), <<>>, next)
  <2> HIDE DEF next
  <2>1. <<>> \in Seq(X)
    BY EmptySeq
  <2>2. QED
    BY <1>1, <1>3, <2>1, RecursionExists
<1>5. Joins(f, n, X, seqs)
  <2>1. f \in [0..n -> Seq(X)] /\ f[0] = <<>>
    BY <1>4 DEF Recursion
  <2>2. ASSUME NEW i \in 1..n PROVE f[i] = f[i - 1] \o seqs[i]
    <3>1. i \in Nat /\ i - 1 \in 0..n /\ f[i - 1] \in Seq(X)
      BY <1>1, <2>1
    <3>2. f[i] = next[i][f[i - 1]]
      BY <1>4 DEF Recursion
    <3>3. QED
      BY <3>1, <3>2
  <2>3. QED
    BY <2>1, <2>2 DEF Joins
<1> HIDE DEF next
<1>6. CASE n = 0
  <2>1. seqs = <<>>
    BY <1>6, EmptySeq DEF n
  <2>2. QED
    BY <1>2, <1>5, <1>6, <2>1 DEF Joins, n
<1>7. CASE n # 0
  <2> DEFINE g == [i \in 1..n |-> f[i]]
  <2>1. ASSUME NEW i \in 1..n PROVE f[i] = Rule(g)[i]
    <3>1. CASE i = 1
      <4>1. f[i] = f[i - 1] \o seqs[i] /\ f[0] = <<>>
        BY <1>5 DEF Joins
      <4>2. <<>> \o seqs[i] = seqs[i]
        BY <1>1, ConcatEmptySeq
      <4>3. i - 1 = 0
        BY <3>1
      <4>4. f[i] = seqs[i]
        BY <4>1, <4>2, <4>3
      <4>5. QED
        BY <3>1, <4>4
    <3>2. CASE i # 1
      <4>1. i - 1 \in 1..n
        BY <1>1, <3>2
      <4>2. f[i] = f[i - 1] \o seqs[i]
        BY <1>5 DEF Joins
      <4>3. QED
        BY <3>2, <4>1, <4>2
    <3>3. QED
      BY <3>1, <3>2
  <2>2. g = Rule(g)
    <3>1. \A i \in 1..n : g[i] = Rule(g)[i]
      BY <2>1
    <3>2. QED
      BY <3>1
  <2>3. flatten = Rule(flatten)
    <3> HIDE DEF Rule, g
    <3>1. QED
      BY <2>2
  <2> HIDE DEF flatten
  <2>4. \A i \in 1..n :
          flatten[i] = IF i = 1 THEN seqs[i] ELSE flatten[i - 1] \o seqs[i]
    BY <2>3
  <2> DEFINE S == { i \in 0..n : i # 0 => flatten[i] = f[i] }
  <2>5. ASSUME NEW i \in 1..n, i - 1 \in S PROVE i \in S
    <3>1. f[i] = Rule(g)[i] /\ i \in 0..n
      BY <1>1, <2>1
    <3>2. CASE i = 1
      BY <2>4, <3>1, <3>2
    <3>3. CASE i # 1
      <4>1. i - 1 \in 1..n /\ i - 1 # 0
        BY <1>1, <3>3
      <4>2. flatten[i - 1] = f[i - 1]
        BY <2>5, <4>1
      <4>3. QED
        BY <2>4, <3>1, <3>3, <4>1, <4>2
    <3>4. QED
      BY <3>2, <3>3
  <2>6. 0..n \subseteq S
    <3>1. 0 \in S
      BY <1>1
    <3> HIDE DEF S
    <3>2. QED
      BY <1>1, <2>5, <3>1, UpTo
  <2>7. flatten[n] = f[n]
    BY <1>1, <1>7, <2>6
  <2>8. QED
    BY <1>2, <1>5, <1>7, <2>7 DEF n
<1>8. QED
  BY <1>6, <1>7

-----------------------------------------------------------------------------
(* Counting.  A set of numbers from a on that has all below each of them   *)
(* is an interval.                                                         *)
LEMMA InitialSegment ==
  ASSUME NEW a \in Nat, NEW n \in Nat, NEW S \in SUBSET (a..n),
         \A i \in S : \A j \in a..i : j \in S
  PROVE  /\ Cardinality(S) \in Nat
         /\ S = a..(a + Cardinality(S) - 1)
<1>1. CASE S = {}
  BY <1>1, FS_EmptySet
<1>2. CASE S # {}
  <2>1. S \in SUBSET (0..n)
    OBVIOUS
  <2>2. PICK m \in S : \A y \in S : m >= y
    BY <1>2, <2>1, GreatestElement
  <2>3. m \in a..n /\ S = a..m
    <3>1. m \in a..n /\ \A y \in S : y \in a..m
      BY <2>2
    <3>2. \A y \in a..m : y \in S
      OBVIOUS
    <3>3. QED
      BY <3>1, <3>2
  <2>4. Cardinality(S) = m - a + 1
    BY <2>3, FS_Interval
  <2>5. QED
    BY <2>3, <2>4
<1>3. QED
  BY <1>1, <1>2

(* How many numbers of a set there are up to m.                            *)
CountTo(S, m) == Cardinality({ i \in S : i <= m })

LEMMA CountFacts ==
  ASSUME NEW S \in SUBSET (Nat \ {0})
  PROVE  /\ CountTo(S, 0) = 0
         /\ \A m \in Nat : CountTo(S, m) \in Nat
         /\ \A m \in Nat \ {0} :
              CountTo(S, m) = CountTo(S, m - 1) + (IF m \in S THEN 1 ELSE 0)
         /\ \A m, k \in Nat : m <= k => CountTo(S, m) <= CountTo(S, k)
         /\ \A m \in S : CountTo(S, m) # 0
<1> DEFINE Low(m) == { i \in S : i <= m }
<1>0. \A i \in S : i \in Nat \ {0}
  OBVIOUS
<1>1. Low(0) = {}
  <2>1. \A i \in S : ~(i <= 0)
    BY <1>0
  <2>2. QED
    BY <2>1
<1>2. ASSUME NEW m \in Nat PROVE Low(m) \in SUBSET (1..m)
  <2>1. \A i \in Low(m) : i \in 1..m
    BY <1>0
  <2>2. QED
    BY <2>1
<1>3. ASSUME NEW m \in Nat
      PROVE  IsFiniteSet(Low(m)) /\ Cardinality(Low(m)) \in Nat
  <2>1. IsFiniteSet(1..m)
    BY FS_Interval
  <2> DEFINE L == Low(m)
  <2>2. L \in SUBSET (1..m)
    BY <1>2
  <2> HIDE DEF L
  <2>3. IsFiniteSet(L)
    BY <2>1, <2>2, FS_Subset
  <2>4. Cardinality(L) \in Nat
    BY <2>3, FS_CardinalityType
  <2>5. QED
    BY <2>3, <2>4 DEF L
<1>4. ASSUME NEW m \in Nat \ {0}
      PROVE  Cardinality(Low(m))
               = Cardinality(Low(m - 1)) + (IF m \in S THEN 1 ELSE 0)
  <2>1. m - 1 \in Nat /\ m \notin Low(m - 1)
    OBVIOUS
  <2> DEFINE L == Low(m - 1)
  <2>2. IsFiniteSet(L) /\ Cardinality(L) \in Nat
    BY <1>3, <2>1
  <2>3. CASE m \in S
    <3>1. \A i \in S : i <= m <=> (i <= m - 1 \/ i = m)
      BY <1>0
    <3>4. Low(m) = L \cup {m}
      BY <2>3, <3>1
    <3>2. Cardinality(L \cup {m}) = Cardinality(L) + 1
      <4> HIDE DEF L
      <4>1. m \notin L
        BY <2>1 DEF L
      <4>2. QED
        BY <2>2, <4>1, FS_AddElement
    <3>3. QED
      BY <2>3, <3>2, <3>4
  <2>4. CASE m \notin S
    <3>1. \A i \in S : i <= m <=> i <= m - 1
      BY <1>0, <2>4
    <3>2. Low(m) = L
      BY <3>1
    <3>3. QED
      BY <2>2, <2>4, <3>2
  <2>5. QED
    BY <2>3, <2>4
<1>5. ASSUME NEW m \in Nat, NEW k \in Nat, m <= k
      PROVE  Cardinality(Low(m)) <= Cardinality(Low(k))
  <2>1. Low(m) \in SUBSET Low(k)
    <3>1. \A i \in S : i <= m => i <= k
      BY <1>0, <1>5
    <3>2. QED
      BY <3>1
  <2> DEFINE L == Low(m)
             H == Low(k)
  <2>2. L \in SUBSET H /\ IsFiniteSet(H)
    BY <1>3, <2>1
  <2> HIDE DEF L, H
  <2>3. Cardinality(L) <= Cardinality(H)
    BY <2>2, FS_Subset
  <2>4. QED
    BY <2>3 DEF L, H
<1>6. ASSUME NEW m \in S PROVE Cardinality(Low(m)) # 0
  <2>1. m \in Low(m) /\ m \in Nat
    OBVIOUS
  <2>2. IsFiniteSet(Low(m))
    BY <1>3, <2>1
  <2> HIDE DEF Low
  <2>3. QED
    BY <2>1, <2>2, FS_EmptySet
<1>7. Cardinality(Low(0)) = 0
  BY <1>1, FS_EmptySet
<1>8. QED
  BY <1>3, <1>4, <1>5, <1>6, <1>7 DEF CountTo

(* Of a set up to n: how many there are, how many lie before one of them,  *)
(* and that every number up to that is the count at one of them.           *)
LEMMA Counting ==
  ASSUME NEW n \in Nat, NEW S \in SUBSET (1..n)
  PROVE  /\ CountTo(S, n) = Cardinality(S)
         /\ \A k \in S : Cardinality({ j \in S : j < k }) = CountTo(S, k) - 1
         /\ \A k \in S : CountTo(S, k) \in 1..Cardinality(S)
         /\ \A r \in 1..Cardinality(S) : \E k \in S : CountTo(S, k) = r
<1>1. S \in SUBSET (Nat \ {0})
  OBVIOUS
<1>2. /\ CountTo(S, 0) = 0
      /\ \A m \in Nat : CountTo(S, m) \in Nat
      /\ \A m \in Nat \ {0} :
           CountTo(S, m) = CountTo(S, m - 1) + (IF m \in S THEN 1 ELSE 0)
      /\ \A m, k \in Nat : m <= k => CountTo(S, m) <= CountTo(S, k)
      /\ \A m \in S : CountTo(S, m) # 0
  BY <1>1, CountFacts
<1>3. CountTo(S, n) = Cardinality(S)
  <2>1. \A i \in S : i <= n
    OBVIOUS
  <2>3. { i \in S : i <= n } = S
    BY <2>1
  <2>2. QED
    BY <2>3 DEF CountTo
<1>4. ASSUME NEW k \in S
      PROVE  Cardinality({ j \in S : j < k }) = CountTo(S, k) - 1
  <2>1. k \in Nat \ {0} /\ k - 1 \in Nat
    OBVIOUS
  <2>2. { j \in S : j < k } = { j \in S : j <= k - 1 }
    <3>1. \A j \in S : j < k <=> j <= k - 1
      <4>1. \A j \in S : j \in Nat
        OBVIOUS
      <4>2. QED
        BY <2>1, <4>1
    <3>2. QED
      BY <3>1
  <2>3. Cardinality({ j \in S : j < k }) = CountTo(S, k - 1)
    BY <2>2 DEF CountTo
  <2>4. CountTo(S, k) = CountTo(S, k - 1) + 1
    BY <1>2, <2>1
  <2>5. CountTo(S, k - 1) \in Nat
    BY <1>2, <2>1
  <2>6. QED
    BY <2>3, <2>4, <2>5
<1>5. ASSUME NEW k \in S PROVE CountTo(S, k) \in 1..CountTo(S, n)
  <2>1. k \in Nat /\ k <= n
    OBVIOUS
  <2>2. QED
    BY <1>2, <2>1
<1>6. ASSUME NEW r \in 1..CountTo(S, n) PROVE \E k \in S : CountTo(S, k) = r
  <2> DEFINE T == { m \in Nat : CountTo(S, m) >= r }
  <2>1. n \in T /\ CountTo(S, n) \in Nat /\ r \in Nat \ {0}
    BY <1>2
  <2>2. PICK m \in T : \A y \in T : m <= y
    <3>1. T \in SUBSET Nat /\ T # {}
      BY <2>1
    <3> HIDE DEF T
    <3>2. QED
      BY <3>1, LeastElement
  <2>3. m \in Nat \ {0}
    BY <1>2, <2>1
  <2>4. m - 1 \in Nat /\ m - 1 \notin T
    BY <2>2, <2>3
  <2>5. CountTo(S, m - 1) \in Nat /\ CountTo(S, m - 1) < r
    BY <1>2, <2>1, <2>4
  <2>6. CountTo(S, m) = CountTo(S, m - 1) + (IF m \in S THEN 1 ELSE 0)
    BY <1>2, <2>3
  <2>7. m \in S /\ CountTo(S, m) = r
    BY <2>1, <2>2, <2>5, <2>6
  <2>8. QED
    BY <2>7
<1>7. QED
  BY <1>3, <1>4, <1>5, <1>6

(* The count tells the elements apart, and keeps their order.              *)
LEMMA CountOrder ==
  ASSUME NEW S \in SUBSET (Nat \ {0}), NEW i \in S, NEW j \in S
  PROVE  /\ CountTo(S, i) \in Nat /\ CountTo(S, j) \in Nat
         /\ i < j <=> CountTo(S, i) < CountTo(S, j)
         /\ CountTo(S, i) = CountTo(S, j) => i = j
<1>1. /\ \A m \in Nat : CountTo(S, m) \in Nat
      /\ \A m \in Nat \ {0} :
           CountTo(S, m) = CountTo(S, m - 1) + (IF m \in S THEN 1 ELSE 0)
      /\ \A m, k \in Nat : m <= k => CountTo(S, m) <= CountTo(S, k)
  BY CountFacts
<1>2. ASSUME NEW a \in S, NEW b \in S, a < b PROVE CountTo(S, a) < CountTo(S, b)
  <2>1. a \in Nat /\ b \in Nat \ {0} /\ b - 1 \in Nat /\ a <= b - 1
    <3>1. \A x \in S : x \in Nat \ {0}
      OBVIOUS
    <3>2. a \in Nat \ {0} /\ b \in Nat \ {0}
      BY <3>1
    <3>3. QED
      BY <1>2, <3>2
  <2>2. /\ CountTo(S, a) <= CountTo(S, b - 1)
        /\ CountTo(S, b) = CountTo(S, b - 1) + 1
        /\ CountTo(S, a) \in Nat /\ CountTo(S, b - 1) \in Nat
    BY <1>1, <2>1
  <2>3. QED
    BY <2>2
<1>3. i \in Nat /\ j \in Nat /\ CountTo(S, i) \in Nat /\ CountTo(S, j) \in Nat
  <2>1. \A x \in S : x \in Nat
    OBVIOUS
  <2>2. QED
    BY <1>1, <2>1
<1>4. /\ i < j => CountTo(S, i) < CountTo(S, j)
      /\ j < i => CountTo(S, j) < CountTo(S, i)
  BY <1>2
<1>5. QED
  BY <1>3, <1>4

(* A larger element added to a set counts last.                            *)
LEMMA CountNext ==
  ASSUME NEW n \in Nat, NEW S \in SUBSET (1..n)
  PROVE  /\ Cardinality(S) \in Nat
         /\ Cardinality(S \cup {n + 1}) = Cardinality(S) + 1
         /\ CountTo(S \cup {n + 1}, n + 1) = Cardinality(S) + 1
         /\ \A k \in S : CountTo(S \cup {n + 1}, k) = CountTo(S, k)
<1> DEFINE T == S \cup {n + 1}
<1>1. IsFiniteSet(S) /\ Cardinality(S) \in Nat
  <2>1. IsFiniteSet(1..n)
    BY FS_Interval
  <2>2. IsFiniteSet(S)
    BY <2>1, FS_Subset
  <2>3. QED
    BY <2>2, FS_CardinalityType
<1>2. n + 1 \notin S
  OBVIOUS
<1>3. Cardinality(T) = Cardinality(S) + 1
  BY <1>1, <1>2, FS_AddElement
<1>4. n + 1 \in Nat /\ T \in SUBSET (1..(n + 1))
  OBVIOUS
<1>5. CountTo(T, n + 1) = Cardinality(T)
  <2> HIDE DEF T
  <2>1. QED
    BY <1>4, Counting
<1>6. ASSUME NEW k \in S PROVE CountTo(T, k) = CountTo(S, k)
  <2>1. ~(n + 1 <= k)
    OBVIOUS
  <2>2. { i \in T : i <= k } = { i \in S : i <= k }
    BY <2>1
  <2>3. QED
    BY <2>2 DEF CountTo
<1>7. QED
  BY <1>1, <1>3, <1>5, <1>6

(* What is mapped one to one to all of another set has as many elements.   *)
LEMMA SameCount ==
  ASSUME NEW S, NEW T, IsFiniteSet(T), NEW f, \A x \in S : f[x] \in T,
         \A x, y \in S : f[x] = f[y] => x = y, \A t \in T : \E x \in S : f[x] = t
  PROVE  IsFiniteSet(S) /\ Cardinality(S) = Cardinality(T)
<1> DEFINE g == [x \in S |-> f[x]]
<1>1. g \in [S -> T]
  OBVIOUS
<1>2. g \in Injection(S, T)
  BY <1>1 DEF Injection, IsInjective
<1>3. g \in Surjection(S, T)
  BY <1>1 DEF Surjection
<1> HIDE DEF g
<1>4. QED
  BY <1>2, <1>3, FS_Injection

-----------------------------------------------------------------------------
(* How deep an element lies, where each has one before it, or 0, above it.  *)
LEMMA Ancestry ==
  ASSUME NEW n \in Nat, NEW up, \A i \in 1..n : up[i] \in 0..(i - 1)
  PROVE  \E f \in [0..n -> Nat] : f[0] = 0 /\ \A i \in 1..n : f[i] = 1 + f[up[i]]
<1> DEFINE Is(m, f) == f[0] = 0 /\ \A i \in 1..m : f[i] = 1 + f[up[i]]
           S == { m \in 0..n : \E f \in [0..m -> Nat] : Is(m, f) }
<1>1. 0 \in S
  <2> DEFINE f == [i \in 0..0 |-> 0]
  <2>1. f \in [0..0 -> Nat] /\ f[0] = 0 /\ 0 \in 0..n
    OBVIOUS
  <2>2. \A i \in 1..0 : FALSE
    OBVIOUS
  <2> HIDE DEF f
  <2>3. Is(0, f)
    BY <2>1, <2>2
  <2>4. QED
    BY <2>1, <2>3
<1>2. ASSUME NEW m \in 1..n, m - 1 \in S PROVE m \in S
  <2>1. PICK e \in [0..(m - 1) -> Nat] : Is(m - 1, e)
    BY <1>2
  <2>2. m \in Nat /\ up[m] \in 0..(m - 1) /\ m \in 0..n
    OBVIOUS
  <2> DEFINE f == [i \in 0..m |-> IF i <= m - 1 THEN e[i] ELSE 1 + e[up[m]]]
  <2>3. \A i \in 0..m : i <= m - 1 => i \in 0..(m - 1)
    BY <2>2
  <2>4. f \in [0..m -> Nat]
    BY <2>2, <2>3
  <2>5. f[0] = 0
    <3>1. 0 \in 0..m /\ 0 <= m - 1
      BY <2>2
    <3>2. QED
      BY <2>1, <3>1
  <2>6. ASSUME NEW i \in 1..m PROVE f[i] = 1 + f[up[i]]
    <3>1. up[i] \in 0..(i - 1) /\ i \in 0..m
      BY <2>2
    <3>2. up[i] \in 0..m /\ up[i] <= m - 1
      BY <2>2, <3>1
    <3>3. f[up[i]] = e[up[i]]
      BY <3>2
    <3>4. CASE i <= m - 1
      <4>1. f[i] = e[i] /\ i \in 1..(m - 1)
        BY <3>1, <3>4
      <4>2. QED
        BY <2>1, <3>3, <4>1
    <3>5. CASE ~(i <= m - 1)
      <4>1. i = m
        BY <2>2, <3>5
      <4>2. f[i] = 1 + e[up[m]]
        BY <3>1, <3>5
      <4>3. QED
        BY <3>3, <4>1, <4>2
    <3>6. QED
      BY <3>4, <3>5
  <2> HIDE DEF f
  <2>7. QED
    BY <2>2, <2>4, <2>5, <2>6
<1>3. n \in S
  <2>1. 0..n \subseteq S
    <3> HIDE DEF S
    <3>1. QED
      BY <1>1, <1>2, UpTo
  <2>2. n \in 0..n
    OBVIOUS
  <2> HIDE DEF S
  <2>3. QED
    BY <2>1, <2>2
<1>4. QED
  BY <1>3

(* The levels of nodes that know the one they are in, 0 for none.          *)
LevelIn(all, base, k) ==
  LET level[i \in 0..Len(all)] ==
        IF i = 0 THEN base ELSE 1 + level[all[i].parent]
  IN  level[k]
ParentsIn(all) == \A k \in 1..Len(all) : all[k].parent \in 0..(k - 1)

LEMMA LevelFacts ==
  ASSUME NEW X, NEW all \in Seq(X), ParentsIn(all), NEW base \in Int
  PROVE  /\ LevelIn(all, base, 0) = base
         /\ \A k \in 1..Len(all) :
              LevelIn(all, base, k) = 1 + LevelIn(all, base, all[k].parent)
         /\ \A k \in 0..Len(all) :
              LevelIn(all, base, k) \in Int /\ LevelIn(all, base, k) >= base
<1> DEFINE n == Len(all)
           Rule(f) == [i \in 0..n |-> IF i = 0 THEN base ELSE 1 + f[all[i].parent]]
           level == CHOOSE f : f = Rule(f)
           up == [i \in 1..n |-> all[i].parent]
<1>1. n \in Nat
  BY LenProperties
<1>2. \A k : LevelIn(all, base, k) = level[k]
  BY DEF LevelIn
<1>3. \A i \in 1..n : all[i].parent \in 0..(i - 1)
  BY DEF ParentsIn
<1> HIDE DEF n
<1>4. \A i \in 1..n : up[i] = all[i].parent
  OBVIOUS
<1> HIDE DEF up
<1>5. PICK f \in [0..n -> Nat] : f[0] = 0 /\ \A i \in 1..n : f[i] = 1 + f[up[i]]
  BY <1>1, <1>3, <1>4, Ancestry
<1> DEFINE g == [i \in 0..n |-> base + f[i]]
<1>6. g = Rule(g)
  <2>1. \A i \in 0..n : i = 0 \/ (i \in 1..n /\ i # 0)
    BY <1>1
  <2>2. ASSUME NEW i \in 0..n
        PROVE  g[i] = IF i = 0 THEN base ELSE 1 + g[all[i].parent]
    <3>1. CASE i = 0
      BY <1>5, <3>1
    <3>2. CASE i # 0
      <4>1. i \in 1..n /\ up[i] \in 0..n /\ up[i] = all[i].parent
        <5>1. i \in 1..n /\ up[i] = all[i].parent /\ up[i] \in 0..(i - 1)
          BY <1>3, <1>4, <2>1, <3>2
        <5>2. \A x \in 0..(i - 1) : x \in 0..n
          BY <1>1
        <5>3. QED
          BY <5>1, <5>2
      <4>2. f[i] = 1 + f[up[i]] /\ f[up[i]] \in Nat
        BY <1>5, <4>1
      <4>3. g[i] = base + (1 + f[up[i]]) /\ g[all[i].parent] = base + f[up[i]]
        BY <4>1, <4>2
      <4>4. QED
        BY <3>2, <4>2, <4>3
    <3>3. QED
      BY <3>1, <3>2
  <2>3. QED
    BY <2>2
<1>7. level = Rule(level)
  <2> HIDE DEF Rule
  <2> HIDE DEF g
  <2>1. QED
    BY <1>6
<1> HIDE DEF level
<1>8. level[0] = base
  BY <1>1, <1>7
<1>9. \A i \in 1..n : level[i] = 1 + level[all[i].parent]
  <2>1. \A i \in 1..n : i \in 0..n /\ i # 0
    BY <1>1
  <2>2. QED
    BY <1>7, <2>1
<1>10. \A i \in 0..n : level[i] \in Int /\ level[i] >= base
  <2> DEFINE S == { m \in 0..n : \A i \in 0..m : level[i] \in Int /\ level[i] >= base }
  <2>1. 0 \in S
    <3>1. 0 \in 0..n /\ \A i \in 0..0 : i = 0
      BY <1>1
    <3>2. QED
      BY <1>8, <3>1
  <2>2. ASSUME NEW m \in 1..n, m - 1 \in S PROVE m \in S
    <3>1. m \in 0..n /\ \A i \in 0..m : i = m \/ i \in 0..(m - 1)
      BY <1>1
    <3>2. level[all[m].parent] \in Int /\ level[all[m].parent] >= base
      BY <1>3, <2>2
    <3>3. level[m] \in Int /\ level[m] >= base
      BY <1>9, <3>2
    <3>4. QED
      BY <2>2, <3>1, <3>3
  <2>3. 0..n \subseteq S
    <3> HIDE DEF S
    <3>1. QED
      BY <1>1, <2>1, <2>2, UpTo
  <2>4. \A i \in 0..n : i \in S /\ i \in 0..i
    BY <1>1, <2>3
  <2>5. QED
    BY <2>4
<1>11. QED
  BY <1>2, <1>8, <1>9, <1>10 DEF n

(* More nodes do not change the levels of those that are there.            *)
LEMMA SameLevels ==
  ASSUME NEW X, NEW all \in Seq(X), ParentsIn(all), NEW base \in Int,
         NEW more \in Seq(X), ParentsIn(more), Len(all) <= Len(more),
         \A k \in 1..Len(all) : more[k].parent = all[k].parent
  PROVE  \A k \in 0..Len(all) : LevelIn(more, base, k) = LevelIn(all, base, k)
<1> DEFINE n == Len(all)
           S == { m \in 0..n :
                   \A k \in 0..m : LevelIn(more, base, k) = LevelIn(all, base, k) }
<1>1. n \in Nat /\ Len(more) \in Nat /\ n <= Len(more)
  BY LenProperties
<1>2. /\ LevelIn(all, base, 0) = base
      /\ \A k \in 1..n :
           LevelIn(all, base, k) = 1 + LevelIn(all, base, all[k].parent)
  BY LevelFacts
<1>3. /\ LevelIn(more, base, 0) = base
      /\ \A k \in 1..Len(more) :
           LevelIn(more, base, k) = 1 + LevelIn(more, base, more[k].parent)
  BY LevelFacts
<1>4. \A k \in 1..n : more[k].parent = all[k].parent /\ all[k].parent \in 0..(k - 1)
  BY DEF ParentsIn
<1> HIDE DEF n
<1>5. 0 \in S
  <2>1. 0 \in 0..n /\ \A k \in 0..0 : k = 0
    BY <1>1
  <2>2. QED
    BY <1>2, <1>3, <2>1
<1>6. ASSUME NEW m \in 1..n, m - 1 \in S PROVE m \in S
  <2>1. /\ m \in 0..n /\ \A k \in 0..m : k = m \/ k \in 0..(m - 1)
        /\ m \in 1..Len(more)
    BY <1>1
  <2>2. LevelIn(more, base, all[m].parent) = LevelIn(all, base, all[m].parent)
    BY <1>4, <1>6
  <2>3. LevelIn(more, base, m) = LevelIn(all, base, m)
    BY <1>2, <1>3, <1>4, <2>1, <2>2
  <2>4. QED
    BY <1>6, <2>1, <2>3
<1>7. 0..n \subseteq S
  <2> HIDE DEF S
  <2>1. QED
    BY <1>1, <1>5, <1>6, UpTo
<1>8. \A k \in 0..n : k \in S /\ k \in 0..k
  BY <1>1, <1>7
<1>9. QED
  BY <1>8 DEF n

(* The nodes that are in one.                                              *)
InsideOf(all, d) == { k \in 1..Len(all) : all[k].parent = d }
LEMMA InsideFacts ==
  ASSUME NEW X, NEW all \in Seq(X), NEW d
  PROVE  /\ InsideOf(all, d) \in SUBSET (1..Len(all))
         /\ IsFiniteSet(InsideOf(all, d)) /\ Cardinality(InsideOf(all, d)) \in Nat
<1>1. Len(all) \in Nat /\ InsideOf(all, d) \in SUBSET (1..Len(all))
  BY LenProperties DEF InsideOf
<1>2. IsFiniteSet(1..Len(all))
  BY <1>1, FS_Interval
<1>3. IsFiniteSet(InsideOf(all, d))
  BY <1>1, <1>2, FS_Subset
<1>4. QED
  BY <1>1, <1>3, FS_CardinalityType

LEMMA InsideAppended ==
  ASSUME NEW X, NEW all \in Seq(X), NEW node \in X, NEW d
  PROVE  InsideOf(Append(all, node), d)
           = IF node.parent = d THEN InsideOf(all, d) \cup {Len(all) + 1}
                                ELSE InsideOf(all, d)
<1> DEFINE more == Append(all, node)
           n == Len(all)
<1>1. /\ Len(more) = n + 1 /\ n \in Nat /\ more[n + 1] = node
      /\ \A i \in 1..n : more[i] = all[i]
  BY AppendProperties, LenProperties
<1> HIDE DEF more, n
<1>2. \A i \in 1..(n + 1) : i \in 1..n \/ i = n + 1
  BY <1>1
<1>3. (\A i \in 1..n : i \in 1..(n + 1)) /\ n + 1 \in 1..(n + 1)
  BY <1>1
<1>4. InsideOf(more, d) = { k \in 1..(n + 1) : more[k].parent = d }
  BY <1>1 DEF InsideOf
<1>5. InsideOf(all, d) = { k \in 1..n : all[k].parent = d }
  BY DEF InsideOf, n
<1>6. QED
  BY <1>1, <1>2, <1>3, <1>4, <1>5 DEF more, n

-----------------------------------------------------------------------------
(* A sequence without its last element.                                    *)
LEMMA FrontFacts ==
  ASSUME NEW X, NEW s \in Seq(X), s # <<>>
  PROVE  /\ Front(s) \in Seq(X) /\ Len(Front(s)) = Len(s) - 1
         /\ Len(s) \in Nat \ {0} /\ s[Len(s)] \in X
         /\ \A i \in 1..(Len(s) - 1) : Front(s)[i] = s[i]
<1>1. Len(s) \in Nat \ {0}
  BY EmptySeq, LenProperties
<1> DEFINE m == Len(s)
           k == Len(s) - 1
<1>2. k \in Nat /\ \A i \in 1..k : s[i] \in X
  BY <1>1, ElementOfSeq
<1>3. Front(s) = SubSeq(s, 1, k)
  BY DEF Front
<1>4. s[Len(s)] \in X
  BY <1>1, ElementOfSeq
<1> HIDE DEF k
<1>5. /\ Front(s) \in Seq(X)
      /\ Len(Front(s)) = IF 1 <= k THEN k - 1 + 1 ELSE 0
      /\ \A i \in 1..(k - 1 + 1) : Front(s)[i] = s[1 + i - 1]
  BY <1>2, <1>3, SubSeqProperties
<1>6. Len(Front(s)) = k /\ \A i \in 1..k : Front(s)[i] = s[i]
  <2>1. k - 1 + 1 = k /\ \A i \in 1..k : 1 + i - 1 = i
    BY <1>2
  <2>2. QED
    BY <1>2, <1>5, <2>1
<1>7. QED
  BY <1>1, <1>4, <1>5, <1>6 DEF k

(* What is joined keeps its place.                                         *)
KeepsPlaces(f, n, X, seqs) ==
  /\ \A i \in 0..n : f[i] \in Seq(X) /\ Len(f[i]) \in Nat
  /\ \A i \in 1..n : Len(f[i]) = Len(f[i - 1]) + Len(seqs[i])
  /\ \A i, j \in 0..n : i <= j => Len(f[i]) <= Len(f[j])
  /\ \A i \in 1..n : \A k \in 1..Len(seqs[i]) :
       f[n][Len(f[i - 1]) + k] = seqs[i][k]
  /\ \A p \in 1..Len(f[n]) :
       \E i \in 1..n : \E k \in 1..Len(seqs[i]) : p = Len(f[i - 1]) + k
LEMMA JoinedPlaces ==
  ASSUME NEW n \in Nat, NEW X, NEW seqs, \A i \in 1..n : seqs[i] \in Seq(X),
         NEW f, Joins(f, n, X, seqs)
  PROVE  KeepsPlaces(f, n, X, seqs)
<1> DEFINE size == [i \in 1..n |-> Len(seqs[i])]
           total == [i \in 0..n |-> Len(f[i])]
<1>1. /\ f \in [0..n -> Seq(X)] /\ f[0] = <<>>
      /\ \A i \in 1..n : f[i] = f[i - 1] \o seqs[i]
  BY DEF Joins
<1>2. \A i \in 0..n : f[i] \in Seq(X) /\ Len(f[i]) \in Nat
  BY <1>1, LenProperties
<1>3. \A i \in 1..n : Len(seqs[i]) \in Nat /\ i \in Nat /\ i \in 0..n /\ i - 1 \in 0..n
  BY LenProperties
<1>4. ASSUME NEW i \in 1..n
      PROVE  /\ Len(f[i]) = Len(f[i - 1]) + Len(seqs[i])
             /\ \A p \in 1..Len(f[i - 1]) : f[i][p] = f[i - 1][p]
             /\ \A k \in 1..Len(seqs[i]) : f[i][Len(f[i - 1]) + k] = seqs[i][k]
  <2>1. f[i - 1] \in Seq(X) /\ seqs[i] \in Seq(X) /\ f[i] = f[i - 1] \o seqs[i]
    BY <1>1, <1>2, <1>3
  <2> DEFINE a == f[i - 1]
             b == seqs[i]
  <2>2. Len(a) \in Nat /\ Len(b) \in Nat
    BY <1>2, <1>3
  <2> HIDE DEF a, b
  <2>3. /\ Len(a \o b) = Len(a) + Len(b)
        /\ \A p \in 1..(Len(a) + Len(b)) :
             (a \o b)[p] = IF p <= Len(a) THEN a[p] ELSE b[p - Len(a)]
    BY <2>1, ConcatProperties DEF a, b
  <2>4. ASSUME NEW p \in 1..Len(a) PROVE (a \o b)[p] = a[p]
    BY <2>2, <2>3
  <2>5. ASSUME NEW k \in 1..Len(b) PROVE (a \o b)[Len(a) + k] = b[k]
    <3>1. Len(a) + k \in 1..(Len(a) + Len(b)) /\ ~(Len(a) + k <= Len(a))
          /\ (Len(a) + k) - Len(a) = k
      BY <2>2
    <3>2. QED
      BY <2>3, <3>1
  <2>6. QED
    BY <2>1, <2>3, <2>4, <2>5 DEF a, b
<1>5. Sums(total, n, size) /\ \A i \in 1..n : size[i] \in Nat
  <2>1. Len(f[0]) = 0
    BY <1>1, EmptySeq
  <2>2. 0 \in 0..n
    OBVIOUS
  <2>3. QED
    BY <1>3, <1>4, <2>1, <2>2 DEF Sums
<1>6. \A i, j \in 0..n : i <= j => Len(f[i]) <= Len(f[j])
  <2>1. \A i \in 0..n : total[i] = Len(f[i])
    OBVIOUS
  <2> HIDE DEF total, size
  <2>2. \A i, j \in 0..n : i <= j => total[i] <= total[j]
    BY <1>5, SumsGrow
  <2>3. QED
    BY <2>1, <2>2
<1> DEFINE Kept(i, m) == \A p \in 1..Len(f[i]) : f[m][p] = f[i][p]
           S(i) == { m \in 0..n : i <= m => Kept(i, m) }
<1>7. ASSUME NEW i \in 0..n PROVE 0..n \subseteq S(i)
  <2>1. 0 \in S(i)
    <3>1. 0 \in 0..n /\ (i <= 0 => i = 0)
      OBVIOUS
    <3>2. QED
      BY <3>1
  <2>2. ASSUME NEW m \in 1..n, m - 1 \in S(i) PROVE m \in S(i)
    <3>1. CASE i <= m - 1
      <4>1. Len(f[i]) <= Len(f[m - 1]) /\ Len(f[i]) \in Nat /\ Len(f[m - 1]) \in Nat
        BY <1>2, <1>3, <1>6, <3>1
      <4>2. \A p \in 1..Len(f[i]) : p \in 1..Len(f[m - 1])
        BY <4>1
      <4>3. \A p \in 1..Len(f[i]) : f[m][p] = f[m - 1][p]
        BY <1>4, <4>2
      <4>4. QED
        BY <1>3, <2>2, <3>1, <4>3
    <3>2. CASE ~(i <= m - 1)
      <4>1. i <= m => i = m
        BY <3>2
      <4>2. QED
        BY <1>3, <4>1
    <3>3. QED
      BY <3>1, <3>2
  <2> HIDE DEF S
  <2>3. QED
    BY <2>1, <2>2, UpTo
<1>8. \A i \in 0..n : Kept(i, n)
  <2>1. n \in 0..n /\ \A i \in 0..n : i <= n
    OBVIOUS
  <2>2. QED
    BY <1>7, <2>1
<1>9. ASSUME NEW i \in 1..n, NEW k \in 1..Len(seqs[i])
      PROVE  f[n][Len(f[i - 1]) + k] = seqs[i][k]
  <2>1. Len(f[i - 1]) + k \in 1..Len(f[i])
    <3>1. /\ Len(f[i]) = Len(f[i - 1]) + Len(seqs[i])
          /\ Len(f[i - 1]) \in Nat /\ Len(seqs[i]) \in Nat
      BY <1>2, <1>3, <1>4
    <3>2. \A a, b \in Nat : \A x \in 1..b : a + x \in 1..(a + b)
      OBVIOUS
    <3>3. QED
      BY <3>1, <3>2
  <2>2. QED
    BY <1>3, <1>4, <1>8, <2>1
<1> DEFINE Placed(m) ==
             \A p \in 1..Len(f[m]) :
               \E i \in 1..n : \E k \in 1..Len(seqs[i]) : p = Len(f[i - 1]) + k
           T == { m \in 0..n : Placed(m) }
<1>10. 0..n \subseteq T
  <2>1. 0 \in T
    <3>1. \A p \in 1..Len(f[0]) : FALSE
      BY <1>1, EmptySeq
    <3>2. QED
      BY <3>1
  <2>2. ASSUME NEW m \in 1..n, m - 1 \in T PROVE m \in T
    <3> SUFFICES ASSUME NEW p \in 1..Len(f[m])
                 PROVE  \E i \in 1..n : \E k \in 1..Len(seqs[i]) :
                          p = Len(f[i - 1]) + k
      BY <1>3
    <3>1. CASE p <= Len(f[m - 1])
      <4>1. p \in 1..Len(f[m - 1])
        BY <1>2, <1>3, <3>1
      <4>2. QED
        BY <2>2, <4>1
    <3>2. CASE ~(p <= Len(f[m - 1]))
      <4> DEFINE k == p - Len(f[m - 1])
      <4>1. k \in 1..Len(seqs[m]) /\ p = Len(f[m - 1]) + k
        <5>1. /\ Len(f[m]) = Len(f[m - 1]) + Len(seqs[m])
              /\ Len(f[m - 1]) \in Nat /\ Len(seqs[m]) \in Nat
          BY <1>2, <1>3, <1>4
        <5>2. \A a, b \in Nat : \A x \in 1..(a + b) :
                ~(x <= a) => x - a \in 1..b /\ x = a + (x - a)
          OBVIOUS
        <5>3. QED
          BY <3>2, <5>1, <5>2
      <4>2. QED
        BY <4>1
    <3>3. QED
      BY <3>1, <3>2
  <2> HIDE DEF T
  <2>3. QED
    BY <2>1, <2>2, UpTo
<1>11. Placed(n)
  <2>1. n \in 0..n
    OBVIOUS
  <2>2. QED
    BY <1>10, <2>1
<1>12. QED
  BY <1>2, <1>4, <1>6, <1>9, <1>11 DEF KeepsPlaces

-----------------------------------------------------------------------------
(* A span is a sequence of offsets with as many elements as asked for.     *)
LEMMA SpanProperties ==
  ASSUME NEW from \in Nat, NEW count \in Nat
  PROVE  /\ Span(from, count) \in Seq(Nat)
         /\ Len(Span(from, count)) = count
         /\ \A i \in 1..count : Span(from, count)[i] = from + i - 1
<1>1. Span(from, count) \in [1..count -> Nat]
  BY DEF Span
<1>2. Span(from, count) \in Seq(Nat)
  BY <1>1, SeqDef
<1>3. Len(Span(from, count)) = count
  BY <1>1, <1>2, LenProperties
<1>4. QED
  BY <1>2, <1>3 DEF Span

(* The empty span, whatever its offset, is the empty sequence.             *)
LEMMA SpanEmpty ==
  ASSUME NEW from \in Nat
  PROVE  Span(from, 0) = <<>>
<1>1. /\ Span(from, 0) \in Seq(Nat)
      /\ Len(Span(from, 0)) = 0
  BY SpanProperties
<1>2. QED
  BY <1>1, EmptySeq

(* Two adjacent spans, one after the other, are one span.                  *)
LEMMA SpanConcat ==
  ASSUME NEW from \in Nat, NEW m \in Nat, NEW n \in Nat
  PROVE  Span(from, m) \o Span(from + m, n) = Span(from, m + n)
<1> DEFINE s == Span(from, m)
           t == Span(from + m, n)
           u == Span(from, m + n)
<1>1. /\ s \in Seq(Nat) /\ Len(s) = m
      /\ \A i \in 1..m : s[i] = from + i - 1
  BY SpanProperties
<1>2. /\ t \in Seq(Nat) /\ Len(t) = n
      /\ \A i \in 1..n : t[i] = (from + m) + i - 1
  BY SpanProperties, from + m \in Nat
<1>3. /\ u \in Seq(Nat) /\ Len(u) = m + n
      /\ \A i \in 1..(m + n) : u[i] = from + i - 1
  BY SpanProperties, m + n \in Nat
<1> HIDE DEF s, t, u
<1>4. /\ s \o t \in Seq(Nat)
      /\ Len(s \o t) = m + n
      /\ \A i \in 1..(m + n) :
           (s \o t)[i] = IF i <= m THEN s[i] ELSE t[i - m]
  BY <1>1, <1>2, ConcatProperties
<1>5. ASSUME NEW i \in 1..(m + n)
      PROVE  (s \o t)[i] = u[i]
  <2>1. CASE i <= m
    BY <2>1, <1>1, <1>3, <1>4
  <2>2. CASE ~(i <= m)
    <3>1. i - m \in 1..n
      BY <2>2
    <3>2. t[i - m] = (from + m) + (i - m) - 1
      BY <3>1, <1>2
    <3>3. (s \o t)[i] = t[i - m]
      BY <2>2, <1>4
    <3>4. u[i] = from + i - 1
      BY <1>3
    <3>5. (from + m) + (i - m) - 1 = from + i - 1
      OBVIOUS
    <3>6. QED
      BY <3>2, <3>3, <3>4, <3>5
  <2>3. QED
    BY <2>1, <2>2
<1>6. s \o t = u
  BY <1>3, <1>4, <1>5, SeqEqual
<1>7. QED
  BY <1>6 DEF s, t, u

(* A piece of a span is a span.                                            *)
LEMMA SpanSubSeq ==
  ASSUME NEW from \in Nat, NEW count \in Nat,
         NEW i \in 1..(count + 1), NEW j \in (i - 1)..count
  PROVE  SubSeq(Span(from, count), i, j) = Span(from + i - 1, j - i + 1)
<1> DEFINE a == i - 1
           n == j - i + 1
<1>0. /\ a \in Nat /\ n \in Nat /\ a + n <= count
      /\ i = a + 1 /\ j = a + n /\ from + i - 1 = from + a
  OBVIOUS
<1> HIDE DEF a, n
<1> DEFINE s == Span(from, count)
           t == Span(from + a, n)
           p == SubSeq(s, a + 1, a + n)
<1>1. /\ s \in Seq(Nat) /\ Len(s) = count
      /\ \A x \in 1..count : s[x] = from + x - 1
  BY SpanProperties
<1>2. /\ t \in Seq(Nat) /\ Len(t) = n
      /\ \A x \in 1..n : t[x] = (from + a) + x - 1
  BY <1>0, SpanProperties, from + a \in Nat
<1> HIDE DEF s, t
<1>3. \A x \in (a + 1)..(a + n) : s[x] \in Nat
  BY <1>0, <1>1
<1>4. /\ p \in Seq(Nat)
      /\ Len(p) = IF a + 1 <= a + n THEN (a + n) - (a + 1) + 1 ELSE 0
      /\ \A x \in 1..((a + n) - (a + 1) + 1) : p[x] = s[(a + 1) + x - 1]
  <2>1. a + 1 \in Int /\ a + n \in Int
    BY <1>0
  <2>2. QED
    BY <2>1, <1>3, SubSeqProperties
<1> HIDE DEF p
<1>5. Len(p) = n
  BY <1>0, <1>4
<1>6. ASSUME NEW k \in 1..n
      PROVE  p[k] = t[k]
  <2>1. k \in 1..((a + n) - (a + 1) + 1)
    BY <1>0
  <2>2. p[k] = s[(a + 1) + k - 1]
    BY <2>1, <1>4
  <2>3. (a + 1) + k - 1 = a + k /\ a + k \in 1..count
    BY <1>0
  <2>4. s[a + k] = from + (a + k) - 1
    BY <2>3, <1>1
  <2>5. QED
    <3>1. t[k] = (from + a) + k - 1
      BY <1>2
    <3>2. from + (a + k) - 1 = (from + a) + k - 1
      BY <1>0
    <3>3. QED
      BY <2>2, <2>3, <2>4, <3>1, <3>2
<1>7. p = t
  BY <1>2, <1>4, <1>5, <1>6, SeqEqual
<1>8. QED
  BY <1>0, <1>7 DEF p, s, t, n

(* A sequence up to the first place that is not in a set.                  *)
LEMMA PrefixFacts ==
  ASSUME NEW X, NEW s \in Seq(X), NEW S \in SUBSET (1..Len(s)),
         \A i \in S : \A j \in 1..i : j \in S
  PROVE  /\ Cardinality(S) \in Nat /\ Cardinality(S) <= Len(s)
         /\ S = 1..Cardinality(S)
         /\ SubSeq(s, 1, Cardinality(S)) \in Seq(X)
         /\ Len(SubSeq(s, 1, Cardinality(S))) = Cardinality(S)
         /\ \A i \in S : SubSeq(s, 1, Cardinality(S))[i] = s[i]
<1> DEFINE c == Cardinality(S)
<1>1. Len(s) \in Nat /\ \A i \in 1..Len(s) : s[i] \in X
  BY LenProperties, ElementOfSeq
<1>2. c \in Nat /\ S = 1..(1 + c - 1)
  <2>1. 1 \in Nat /\ S \in SUBSET (1..Len(s)) /\ \A i \in S : \A j \in 1..i : j \in S
    OBVIOUS
  <2>2. QED
    BY <1>1, <2>1, InitialSegment
<1> HIDE DEF c
<1>3. S = 1..c /\ c <= Len(s)
  <2>1. S = 1..c
    BY <1>2
  <2>2. c = 0 \/ c \in S
    BY <1>2
  <2>3. QED
    BY <1>1, <1>2, <2>1, <2>2
<1>4. \A i \in 1..c : s[i] \in X
  BY <1>1, <1>2, <1>3
<1>5. /\ SubSeq(s, 1, c) \in Seq(X)
      /\ Len(SubSeq(s, 1, c)) = IF 1 <= c THEN c - 1 + 1 ELSE 0
      /\ \A i \in 1..(c - 1 + 1) : SubSeq(s, 1, c)[i] = s[1 + i - 1]
  BY <1>2, <1>4, SubSeqProperties
<1>6. Len(SubSeq(s, 1, c)) = c /\ \A i \in 1..c : SubSeq(s, 1, c)[i] = s[i]
  <2>1. c - 1 + 1 = c /\ \A i \in 1..c : 1 + i - 1 = i
    BY <1>2
  <2>2. QED
    BY <1>2, <1>5, <2>1
<1>7. QED
  BY <1>2, <1>3, <1>5, <1>6 DEF c

-----------------------------------------------------------------------------
(* Sums of the sizes of nodes.                                             *)
Sized(ns) == Len(ns) \in Nat /\ \A k \in 1..Len(ns) : ns[k].size \in Nat

-----------------------------------------------------------------------------
(* A tree: every node but the first is in a directory that comes before.   *)
IsNode(x) ==
  /\ x = [ name |-> x.name, is_directory |-> x.is_directory, size |-> x.size,
           location |-> x.location, length |-> x.length, parent |-> x.parent ]
  /\ x.is_directory \in BOOLEAN /\ x.size \in Nat
Parsed(ns) ==
  /\ Len(ns) \in Nat /\ ns = [k \in 1..Len(ns) |-> ns[k]]
  /\ \A k \in 1..Len(ns) :
       /\ IsNode(ns[k]) /\ ns[k].parent \in 0..(k - 1)
       /\ ns[k].parent # 0 => ns[ns[k].parent].is_directory

LEMMA TreeFacts ==
  ASSUME NEW ns, Parsed(ns)
  PROVE  /\ Len(ns) \in Nat /\ DOMAIN ns = 1..Len(ns) /\ Sized(ns)
         /\ ns \in Seq({ ns[k] : k \in 1..Len(ns) })
<1>1. Len(ns) \in Nat /\ DOMAIN ns = 1..Len(ns)
  BY DEF Parsed
<1>2. Sized(ns)
  BY DEF Parsed, IsNode, Sized
<1> DEFINE X == { ns[k] : k \in 1..Len(ns) }
<1>3. ns \in [1..Len(ns) -> X]
  <2>1. ns = [k \in 1..Len(ns) |-> ns[k]]
    BY DEF Parsed
  <2>2. \A k \in 1..Len(ns) : ns[k] \in X
    OBVIOUS
  <2> HIDE DEF X
  <2>3. QED
    BY <2>1, <2>2
<1> HIDE DEF X
<1>4. ns \in Seq(X)
  BY <1>1, <1>3, SeqDef
<1>5. QED
  BY <1>1, <1>2, <1>4 DEF X

-----------------------------------------------------------------------------
(* A function whose value at a node is made from the one at its parent.    *)
ByParent(f, n, X, first, up, step) ==
  /\ f \in [0..n -> X] /\ f[0] = first
  /\ \A i \in 1..n : f[i] = step[i][f[up[i]]]
LEMMA ByParentExists ==
  ASSUME NEW n \in Nat, NEW up, \A i \in 1..n : up[i] \in 0..(i - 1),
         NEW X, NEW first \in X, NEW step, \A i \in 1..n : step[i] \in [X -> X]
  PROVE  \E f : ByParent(f, n, X, first, up, step)
<1> DEFINE Is(m, f) == f[0] = first /\ \A i \in 1..m : f[i] = step[i][f[up[i]]]
           S == { m \in 0..n : \E f \in [0..m -> X] : Is(m, f) }
<1>1. 0 \in S
  <2> DEFINE f == [i \in 0..0 |-> first]
  <2>1. f \in [0..0 -> X] /\ f[0] = first /\ 0 \in 0..n
    OBVIOUS
  <2>2. \A i \in 1..0 : FALSE
    OBVIOUS
  <2> HIDE DEF f
  <2>3. Is(0, f)
    BY <2>1, <2>2
  <2>4. QED
    BY <2>1, <2>3
<1>2. ASSUME NEW m \in 1..n, m - 1 \in S PROVE m \in S
  <2>1. PICK e \in [0..(m - 1) -> X] : Is(m - 1, e)
    BY <1>2
  <2>2. m \in Nat /\ up[m] \in 0..(m - 1) /\ m \in 0..n
    OBVIOUS
  <2> DEFINE next == step[m][e[up[m]]]
             f == [i \in 0..m |-> IF i <= m - 1 THEN e[i] ELSE next]
  <2>3. next \in X
    <3>1. e[up[m]] \in X
      BY <2>2
    <3>2. QED
      BY <3>1
  <2>4. \A i \in 0..m : i <= m - 1 => i \in 0..(m - 1)
    BY <2>2
  <2>5. f \in [0..m -> X]
    <3> HIDE DEF next
    <3>1. QED
      BY <2>2, <2>3, <2>4
  <2>6. f[0] = first
    <3>1. 0 \in 0..m /\ 0 <= m - 1
      BY <2>2
    <3> HIDE DEF next
    <3>2. QED
      BY <2>1, <3>1
  <2>7. ASSUME NEW i \in 1..m PROVE f[i] = step[i][f[up[i]]]
    <3>1. up[i] \in 0..(i - 1) /\ i \in 0..m
      BY <2>2
    <3>2. up[i] \in 0..m /\ up[i] <= m - 1
      BY <2>2, <3>1
    <3> HIDE DEF next
    <3>3. f[up[i]] = e[up[i]]
      BY <3>2
    <3>4. CASE i <= m - 1
      <4>1. f[i] = e[i] /\ i \in 1..(m - 1)
        BY <3>1, <3>4
      <4> HIDE DEF f
      <4>2. QED
        BY <2>1, <3>3, <4>1
    <3>5. CASE ~(i <= m - 1)
      <4>1. i = m
        BY <2>2, <3>5
      <4>2. f[i] = next
        BY <3>1, <3>5
      <4> HIDE DEF f
      <4>3. QED
        BY <3>3, <4>1, <4>2 DEF next
    <3>6. QED
      BY <3>4, <3>5
  <2> HIDE DEF f
  <2>8. QED
    BY <2>2, <2>5, <2>6, <2>7
<1>3. n \in S
  <2>1. 0..n \subseteq S
    <3> HIDE DEF S
    <3>1. QED
      BY <1>1, <1>2, UpTo
  <2>2. n \in 0..n
    OBVIOUS
  <2> HIDE DEF S
  <2>3. QED
    BY <2>1, <2>2
<1>4. PICK f \in [0..n -> X] : Is(n, f)
  BY <1>3
<1>5. QED
  BY <1>4 DEF ByParent

-----------------------------------------------------------------------------
(* What the constructors make.                                             *)
IsMade(x, name, directory, location, length, parent) ==
  /\ IsNode(x) /\ x.name = name /\ x.is_directory = directory
  /\ x.location = location /\ x.length = length /\ x.parent = parent
LEMMA MadeNode ==
  ASSUME NEW x, NEW name, NEW d \in BOOLEAN, NEW n \in Nat, NEW at, NEW len, NEW parent,
         x \in [ name : {name}, is_directory : {d}, size : {n}, location : {at},
                 length : {len}, parent : {parent} ]
  PROVE  IsMade(x, name, d, at, len, parent)
<1>1. x = [ name |-> x.name, is_directory |-> x.is_directory, size |-> x.size,
            location |-> x.location, length |-> x.length, parent |-> x.parent ]
  OBVIOUS
<1>2. /\ x.name = name /\ x.parent = parent /\ x.is_directory = d /\ x.size = n
      /\ x.location = at /\ x.length = len
  OBVIOUS
<1>3. QED
  BY <1>1, <1>2 DEF IsNode, IsMade

(* A node is added in a directory that is there.                           *)
LEMMA AppendedTree ==
  ASSUME NEW ns, Parsed(ns), NEW x, IsNode(x), x.parent \in 0..Len(ns),
         x.parent # 0 => ns[x.parent].is_directory
  PROVE  /\ Parsed(Append(ns, x)) /\ Len(Append(ns, x)) = Len(ns) + 1
         /\ Append(ns, x)[Len(ns) + 1] = x
         /\ \A k \in 1..Len(ns) : Append(ns, x)[k] = ns[k]
<1> DEFINE n == Len(ns)
           X == { ns[k] : k \in 1..n } \cup {x}
           t == Append(ns, x)
<1>1. n \in Nat /\ ns \in Seq({ ns[k] : k \in 1..n })
  BY TreeFacts
<1>2. ns \in Seq(X) /\ x \in X
  <2>1. \A k \in 1..n : ns[k] \in X
    OBVIOUS
  <2>2. ns = [k \in 1..n |-> ns[k]]
    BY DEF Parsed
  <2> HIDE DEF X
  <2>3. ns \in [1..n -> X]
    BY <2>1, <2>2
  <2>4. ns \in Seq(X)
    BY <1>1, <2>3, SeqDef
  <2>5. QED
    BY <2>4 DEF X
<1> HIDE DEF X
<1>3. /\ t \in Seq(X) /\ Len(t) = n + 1 /\ t[n + 1] = x
      /\ \A k \in 1..n : t[k] = ns[k]
  BY <1>2, AppendProperties
<1>4. t = [k \in 1..(n + 1) |-> t[k]]
  <2>1. t \in [1..Len(t) -> X]
    BY <1>3, LenProperties
  <2> HIDE DEF t, n
  <2>2. QED
    BY <1>3, <2>1
<1>5. ASSUME NEW k \in 1..(n + 1)
      PROVE  /\ IsNode(t[k]) /\ t[k].parent \in 0..(k - 1)
             /\ t[k].parent # 0 => t[t[k].parent].is_directory
  <2>1. CASE k = n + 1
    <3>1. t[k] = x /\ x.parent \in 0..(k - 1)
      BY <1>1, <1>3, <2>1
    <3>2. x.parent # 0 => x.parent \in 1..n
      BY <1>1
    <3> HIDE DEF t, n
    <3>3. QED
      BY <1>3, <3>1, <3>2 DEF n
  <2>2. CASE k # n + 1
    <3>1. k \in 1..n /\ t[k] = ns[k]
      BY <1>1, <1>3, <2>2
    <3>2. /\ IsNode(ns[k]) /\ ns[k].parent \in 0..(k - 1)
          /\ ns[k].parent # 0 => ns[ns[k].parent].is_directory
      BY <3>1 DEF Parsed
    <3>3. ns[k].parent # 0 => ns[k].parent \in 1..n
      <4>1. n \in Nat /\ k \in 1..n /\ ns[k].parent \in 0..(k - 1)
        BY <1>1, <3>1, <3>2
      <4> HIDE DEF n
      <4>2. QED
        BY ONLY <4>1
    <3> HIDE DEF t, n
    <3>4. QED
      BY <1>3, <3>1, <3>2, <3>3
  <2>3. QED
    BY <2>1, <2>2
<1>6. n + 1 \in Nat
  BY <1>1
<1>7. Parsed(t)
  <2> HIDE DEF t, n
  <2>1. QED
    BY <1>3, <1>4, <1>5, <1>6 DEF Parsed
<1>8. QED
  BY <1>3, <1>7

(* The tree that is returned: the sizes are set, all else is as it was.    *)
SameButSizes(ns, t) ==
  /\ Len(t) = Len(ns)
  /\ \A k \in 1..Len(ns) :
       /\ t[k].name = ns[k].name /\ t[k].is_directory = ns[k].is_directory
       /\ t[k].location = ns[k].location /\ t[k].length = ns[k].length
       /\ t[k].parent = ns[k].parent

-----------------------------------------------------------------------------
(* The trees of the readers that go down into directories.  A reading says *)
(* what such a reader makes of its entries: a node stands for a source,    *)
(* `in` are the sources in each, `key` is the source of an entry that      *)
(* waits in a frame, `keep` the entries that get a node, `fine` are the    *)
(* sources that can have one, and `name`, `dir` and `location` are what    *)
(* the node of a source has; `max` is the depth down to which there are    *)
(* nodes, `lossy` says that directories at that depth are left out, and    *)
(* `off` is the number of frames that are not a directory's.               *)
IsReading(R) ==
  /\ R.key \in [R.entries -> R.sources] /\ R.in \in [R.sources -> SUBSET R.sources]
  /\ R.root \in R.sources /\ R.max \in Nat /\ R.off \in {0, 1}
  /\ \A x \in R.entries : x \notin R.keep => \A s \in R.sources : R.key[x] \notin R.in[s]
FramesOver(X) == [node : Nat, entries : Seq(X)]

(* What must not be at the last depth.                                     *)
Descends(R, e) == R.in[e] # {} \/ (R.lossy /\ R.dir[e])

(* Every node but the root stands for something that is in what its        *)
(* directory stands for, one level deeper.                                 *)
NodesBuilt(R, ns, src, level) ==
  /\ Parsed(ns) /\ Len(ns) >= 1
  /\ src \in [1..Len(ns) -> R.sources] /\ src[1] = R.root
  /\ \A k \in 1..Len(ns) : src[k] \in R.fine
  /\ level \in [1..Len(ns) -> Nat] /\ level[1] = 0
  /\ \A k \in 1..Len(ns) : Descends(R, src[k]) => level[k] < R.max
  /\ \A k \in 2..Len(ns) :
       /\ ns[k].parent \in 1..(k - 1) /\ level[k] = level[ns[k].parent] + 1
       /\ src[k] \in R.in[src[ns[k].parent]]
       /\ ns[k].name = R.name[src[k]] /\ ns[k].is_directory = R.dir[src[k]]
       /\ ns[k].location = R.location[src[k]]

(* A frame is a directory's, and of the entries that wait in it those that *)
(* get a node are in the directory; only what has been passed over may be  *)
(* missing.                                                                *)
FramesOpen(R, ns, st, src, level) ==
  /\ st \in Seq(FramesOver(R.entries))
  /\ \A j \in (R.off + 1)..Len(st) :
       /\ st[j].node \in 1..Len(ns) /\ ns[st[j].node].is_directory
       /\ level[st[j].node] + R.off + 1 = j
       /\ \A i \in 1..Len(st[j].entries) :
            st[j].entries[i] \in R.keep
              => R.key[st[j].entries[i]] \in R.in[src[st[j].node]]
HasChild(ns, src, k, e) == \E c \in 2..Len(ns) : ns[c].parent = k /\ src[c] = e
Waits(R, st, k, e) ==
  \E j \in (R.off + 1)..Len(st) :
    st[j].node = k /\ \E i \in 1..Len(st[j].entries) : R.key[st[j].entries[i]] = e
IsLost(R, k, e, level) == R.lossy /\ R.dir[e] /\ level[k] + 1 = R.max
NothingMissing(R, ns, st, src, level) ==
  \A k \in 1..Len(ns) : \A e \in R.in[src[k]] :
    HasChild(ns, src, k, e) \/ Waits(R, st, k, e) \/ IsLost(R, k, e, level)
Built(R, ns, st, src, level) ==
  /\ NodesBuilt(R, ns, src, level) /\ FramesOpen(R, ns, st, src, level)
  /\ NothingMissing(R, ns, st, src, level)

(* The stack when an entry has been taken from its last frame.             *)
Drawn(st) == Append(Front(st), [Last(st) EXCEPT !.entries = Tail(@)])
LEMMA DrawnFacts ==
  ASSUME NEW X, NEW st \in Seq(FramesOver(X)), st # <<>>, Last(st).entries # <<>>
  PROVE  /\ Drawn(st) \in Seq(FramesOver(X)) /\ Len(Drawn(st)) = Len(st)
         /\ Len(st) \in Nat \ {0} /\ Last(st) = st[Len(st)] /\ st[Len(st)].node \in Nat
         /\ \A j \in 1..(Len(st) - 1) : Drawn(st)[j] = st[j]
         /\ Drawn(st)[Len(st)].node = st[Len(st)].node
         /\ Head(Last(st).entries) \in X
         /\ st[Len(st)].entries[1] = Head(Last(st).entries)
         /\ Len(st[Len(st)].entries) \in Nat \ {0}
         /\ Len(Drawn(st)[Len(st)].entries) = Len(st[Len(st)].entries) - 1
         /\ \A i \in 1..Len(Drawn(st)[Len(st)].entries) :
              Drawn(st)[Len(st)].entries[i] = st[Len(st)].entries[i + 1]
<1> DEFINE F == FramesOver(X)
           n == Len(st)
           f == Last(st)
           g == [f EXCEPT !.entries = Tail(@)]
           s == f.entries
<1>1. /\ Front(st) \in Seq(F) /\ Len(Front(st)) = n - 1 /\ n \in Nat \ {0}
      /\ st[n] \in F /\ \A i \in 1..(n - 1) : Front(st)[i] = st[i]
  BY FrontFacts
<1>2. f = st[n] /\ f \in F
  BY <1>1 DEF Last
<1>3. s \in Seq(X) /\ s # <<>> /\ f.node \in Nat
  BY <1>2 DEF FramesOver
<1>4. /\ Head(s) \in X /\ Tail(s) \in Seq(X) /\ Len(Tail(s)) = Len(s) - 1
      /\ \A i \in 1..Len(Tail(s)) : Tail(s)[i] = s[i + 1]
  BY <1>3, HeadTailProperties
<1>5. Head(s) = s[1] /\ Len(s) \in Nat \ {0}
  BY <1>3, EmptySeq
<1>6. g \in F /\ g.node = f.node /\ g.entries = Tail(s)
  BY <1>2, <1>4 DEF FramesOver
<1> HIDE DEF F, g, f, s, n
<1>7. /\ Append(Front(st), g) \in Seq(F) /\ Len(Append(Front(st), g)) = Len(Front(st)) + 1
      /\ \A i \in 1..Len(Front(st)) : Append(Front(st), g)[i] = Front(st)[i]
      /\ Append(Front(st), g)[Len(Front(st)) + 1] = g
  BY <1>1, <1>6, AppendProperties
<1>8. n - 1 + 1 = n
  BY <1>1
<1>9. Drawn(st) = Append(Front(st), g)
  BY DEF Drawn, g, f
<1>10. /\ Drawn(st) \in Seq(F) /\ Len(Drawn(st)) = n /\ Drawn(st)[n] = g
       /\ \A i \in 1..(n - 1) : Drawn(st)[i] = st[i]
  BY <1>1, <1>7, <1>8, <1>9
<1>11. QED
  BY <1>1, <1>2, <1>3, <1>4, <1>5, <1>6, <1>10 DEF F, f, s, n

(* An entry is passed over.                                                *)
LEMMA BuiltSkip ==
  ASSUME NEW R, IsReading(R), NEW ns, NEW st, NEW src, NEW level,
         Built(R, ns, st, src, level), Len(st) > R.off, Last(st).entries # <<>>,
         Head(Last(st).entries) \notin R.keep
           \/ IsLost(R, Last(st).node, R.key[Head(Last(st).entries)], level)
  PROVE  Built(R, ns, Drawn(st), src, level)
<1> DEFINE t == Drawn(st)
           n == Len(st)
           x == Head(Last(st).entries)
<1>1. st \in Seq(FramesOver(R.entries)) /\ R.off \in Nat /\ st # <<>>
  BY EmptySeq DEF Built, FramesOpen, IsReading
<1>2. /\ t \in Seq(FramesOver(R.entries)) /\ Len(t) = n
      /\ n \in Nat \ {0} /\ Last(st) = st[n]
      /\ \A j \in 1..(n - 1) : t[j] = st[j]
      /\ t[n].node = st[n].node
      /\ x \in R.entries /\ st[n].entries[1] = x
      /\ Len(st[n].entries) \in Nat \ {0}
      /\ Len(t[n].entries) = Len(st[n].entries) - 1
      /\ \A i \in 1..Len(t[n].entries) : t[n].entries[i] = st[n].entries[i + 1]
  BY <1>1, DrawnFacts
<1> HIDE DEF t, n, x
<1>3. \A j \in (R.off + 1)..n : j = n \/ (j \in 1..(n - 1) /\ t[j] = st[j])
  BY <1>1, <1>2
<1>4. \A i \in 1..Len(t[n].entries) : i + 1 \in 1..Len(st[n].entries)
  BY <1>2
<1>5. FramesOpen(R, ns, t, src, level)
  <2>1. \A j \in (R.off + 1)..n :
          /\ st[j].node \in 1..Len(ns) /\ ns[st[j].node].is_directory
          /\ level[st[j].node] + R.off + 1 = j
          /\ \A i \in 1..Len(st[j].entries) :
               st[j].entries[i] \in R.keep
                 => R.key[st[j].entries[i]] \in R.in[src[st[j].node]]
    BY DEF Built, FramesOpen, n
  <2>2. ASSUME NEW j \in (R.off + 1)..n
        PROVE  /\ t[j].node = st[j].node
               /\ \A i \in 1..Len(t[j].entries) :
                    \E h \in 1..Len(st[j].entries) : t[j].entries[i] = st[j].entries[h]
    <3>1. CASE j = n
      BY <1>2, <1>4, <3>1
    <3>2. CASE j # n
      BY <1>3, <3>2
    <3>3. QED
      BY <3>1, <3>2
  <2>3. ASSUME NEW j \in (R.off + 1)..n
        PROVE  /\ t[j].node \in 1..Len(ns) /\ ns[t[j].node].is_directory
               /\ level[t[j].node] + R.off + 1 = j
               /\ \A i \in 1..Len(t[j].entries) :
                    t[j].entries[i] \in R.keep
                      => R.key[t[j].entries[i]] \in R.in[src[t[j].node]]
    <3>1. t[j].node = st[j].node
      BY <2>2
    <3>2. ASSUME NEW i \in 1..Len(t[j].entries), t[j].entries[i] \in R.keep
          PROVE  R.key[t[j].entries[i]] \in R.in[src[st[j].node]]
      <4>1. PICK h \in 1..Len(st[j].entries) : t[j].entries[i] = st[j].entries[h]
        BY <2>2
      <4>2. QED
        BY <2>1, <3>2, <4>1
    <3>3. QED
      BY <2>1, <3>1, <3>2
  <2>4. QED
    BY <1>2, <2>3 DEF FramesOpen
<1>6. ASSUME NEW k \in 1..Len(ns), NEW e \in R.in[src[k]]
      PROVE  HasChild(ns, src, k, e) \/ Waits(R, t, k, e) \/ IsLost(R, k, e, level)
  <2>1. HasChild(ns, src, k, e) \/ Waits(R, st, k, e) \/ IsLost(R, k, e, level)
    BY DEF Built, NothingMissing
  <2>2. CASE Waits(R, st, k, e)
    <3>1. PICK j \in (R.off + 1)..n : st[j].node = k
            /\ \E i \in 1..Len(st[j].entries) : R.key[st[j].entries[i]] = e
      BY <2>2 DEF Waits, n
    <3>2. PICK i \in 1..Len(st[j].entries) : R.key[st[j].entries[i]] = e
      BY <3>1
    <3>3. CASE j # n
      BY <1>2, <1>3, <3>1, <3>2, <3>3 DEF Waits
    <3>4. CASE j = n /\ i = 1
      <4>1. R.key[x] = e /\ Last(st).node = k
        BY <1>2, <3>1, <3>2, <3>4
      <4>2. src[k] \in R.sources
        BY DEF Built, NodesBuilt
      <4>3. ~(x \notin R.keep)
        BY <1>2, <4>1, <4>2 DEF IsReading
      <4>4. IsLost(R, k, e, level)
        BY <4>1, <4>3 DEF x
      <4>5. QED
        BY <4>4
    <3>5. CASE j = n /\ i # 1
      <4>1. i - 1 \in 1..Len(t[n].entries) /\ (i - 1) + 1 = i
        BY <1>2, <3>2, <3>5
      <4>2. R.key[t[n].entries[i - 1]] = e
        BY <1>2, <3>2, <3>5, <4>1
      <4>3. j \in (R.off + 1)..Len(t) /\ t[j].node = k
        BY <1>2, <3>1, <3>5
      <4>4. QED
        BY <3>5, <4>1, <4>2, <4>3 DEF Waits
    <3>6. QED
      BY <3>3, <3>4, <3>5
  <2>3. QED
    BY <2>1, <2>2
<1>7. QED
  BY <1>5, <1>6 DEF Built, NothingMissing, t

(* A directory without further entries is left.                            *)
LEMMA BuiltReturn ==
  ASSUME NEW R, IsReading(R), NEW ns, NEW st, NEW src, NEW level,
         Built(R, ns, st, src, level), st # <<>>, Last(st).entries = <<>>
  PROVE  Built(R, ns, Front(st), src, level)
<1> DEFINE t == Front(st)
           n == Len(st)
<1>1. st \in Seq(FramesOver(R.entries)) /\ R.off \in Nat
  BY DEF Built, FramesOpen, IsReading
<1>2. /\ t \in Seq(FramesOver(R.entries)) /\ Len(t) = n - 1 /\ n \in Nat \ {0}
      /\ \A i \in 1..(n - 1) : t[i] = st[i]
  BY <1>1, FrontFacts
<1>3. st[n].entries = <<>>
  BY DEF Last
<1> HIDE DEF t, n
<1>4. \A j \in (R.off + 1)..(n - 1) : j \in (R.off + 1)..n /\ t[j] = st[j]
  BY <1>1, <1>2
<1>5. FramesOpen(R, ns, t, src, level)
  <2>1. \A j \in (R.off + 1)..n :
          /\ st[j].node \in 1..Len(ns) /\ ns[st[j].node].is_directory
          /\ level[st[j].node] + R.off + 1 = j
          /\ \A i \in 1..Len(st[j].entries) :
               st[j].entries[i] \in R.keep
                 => R.key[st[j].entries[i]] \in R.in[src[st[j].node]]
    BY DEF Built, FramesOpen, n
  <2>2. QED
    BY <1>2, <1>4, <2>1 DEF FramesOpen
<1>6. \A k, e : Waits(R, st, k, e) => Waits(R, t, k, e)
  <2> SUFFICES ASSUME NEW k, NEW e, Waits(R, st, k, e) PROVE Waits(R, t, k, e)
    OBVIOUS
  <2>0. PICK j \in (R.off + 1)..n : st[j].node = k
          /\ \E i \in 1..Len(st[j].entries) : R.key[st[j].entries[i]] = e
    BY DEF Waits, n
  <2>1. j # n
    <3>1. Len(<<>>) = 0
      OBVIOUS
    <3>2. QED
      BY <1>3, <2>0, <3>1
  <2>2. j \in (R.off + 1)..(n - 1)
    BY <1>1, <1>2, <2>1
  <2>3. t[j] = st[j] /\ j \in (R.off + 1)..Len(t)
    BY <1>2, <1>4, <2>2
  <2>4. QED
    BY <2>0, <2>3 DEF Waits
<1>7. QED
  BY <1>5, <1>6 DEF Built, NothingMissing, t

(* A node is added.                                                        *)
Extends(g, f, n, v, X) ==
  g \in [1..(n + 1) -> X] /\ g[n + 1] = v /\ \A k \in 1..n : g[k] = f[k]
LEMMA ExtensionExists ==
  ASSUME NEW n \in Nat, NEW X, NEW f, f \in [1..n -> X], NEW v, v \in X
  PROVE  \E g : Extends(g, f, n, v, X)
<1> DEFINE g == [k \in 1..(n + 1) |-> IF k = n + 1 THEN v ELSE f[k]]
<1>1. \A k \in 1..(n + 1) : k = n + 1 \/ k \in 1..n
  OBVIOUS
<1>2. n + 1 \in 1..(n + 1) /\ \A k \in 1..n : k \in 1..(n + 1) /\ k # n + 1
  OBVIOUS
<1>3. g \in [1..(n + 1) -> X] /\ g[n + 1] = v /\ \A k \in 1..n : g[k] = f[k]
  BY <1>1, <1>2
<1>4. Extends(g, f, n, v, X)
  BY <1>3 DEF Extends
<1>5. QED
  BY <1>4

IsEnlarged(ns, src, level, t, s, l, e, p) ==
  /\ Len(t) = Len(ns) + 1 /\ t[Len(ns) + 1].parent = p /\ s[Len(ns) + 1] = e
  /\ l[Len(ns) + 1] = level[p] + 1
  /\ \A k \in 1..Len(ns) : t[k] = ns[k] /\ s[k] = src[k] /\ l[k] = level[k]
IsMadeFor(R, y, e, p) ==
  /\ IsNode(y) /\ y.parent = p
  /\ y.name = R.name[e] /\ y.is_directory = R.dir[e] /\ y.location = R.location[e]
LEMMA BuiltNode ==
  ASSUME NEW R, IsReading(R), NEW ns, NEW src, NEW level, NodesBuilt(R, ns, src, level),
         NEW p \in 1..Len(ns), ns[p].is_directory, NEW e \in R.in[src[p]],
         NEW y, IsMadeFor(R, y, e, p), e \in R.fine,
         Descends(R, e) => level[p] + 1 < R.max
  PROVE  /\ \E s, l : /\ NodesBuilt(R, Append(ns, y), s, l)
                       /\ IsEnlarged(ns, src, level, Append(ns, y), s, l, e, p)
         /\ e \in R.sources /\ level[p] \in Nat /\ Len(ns) \in Nat
         /\ Append(ns, y)[Len(ns) + 1] = y
<1> DEFINE n == Len(ns)
           t == Append(ns, y)
<1>1. /\ Parsed(ns) /\ n \in Nat /\ n # 0 /\ src \in [1..n -> R.sources] /\ src[1] = R.root
      /\ level \in [1..n -> Nat] /\ level[1] = 0
      /\ R.in \in [R.sources -> SUBSET R.sources]
  BY TreeFacts DEF NodesBuilt, IsReading
<1>2. e \in R.sources /\ level[p] + 1 \in Nat
  <2>1. src[p] \in R.sources /\ level[p] \in Nat
    BY <1>1
  <2>2. R.in[src[p]] \subseteq R.sources
    BY <1>1, <2>1
  <2>3. QED
    BY <2>1, <2>2
<1>3. /\ Parsed(t) /\ Len(t) = n + 1 /\ t[n + 1] = y /\ \A k \in 1..n : t[k] = ns[k]
  <2>1. IsNode(y) /\ y.parent \in 0..n /\ ns[y.parent].is_directory
    BY <1>1 DEF IsMadeFor
  <2>2. QED
    BY <1>1, <2>1, AppendedTree
<1>4. PICK s \in [1..(n + 1) -> R.sources] : s[n + 1] = e /\ \A k \in 1..n : s[k] = src[k]
  <2> DEFINE X == R.sources
  <2>1. n \in Nat /\ src \in [1..n -> X] /\ e \in X
    BY <1>1, <1>2
  <2> HIDE DEF n, X
  <2>2. \E g : Extends(g, src, n, e, X)
    BY <2>1, ExtensionExists
  <2>3. QED
    BY <2>2 DEF X, Extends
<1>5. PICK l \in [1..(n + 1) -> Nat] :
        l[n + 1] = level[p] + 1 /\ \A k \in 1..n : l[k] = level[k]
  <2> DEFINE v == level[p] + 1
  <2>1. n \in Nat /\ level \in [1..n -> Nat] /\ v \in Nat
    BY <1>1, <1>2
  <2> HIDE DEF n, v
  <2>2. \E g : Extends(g, level, n, v, Nat)
    BY <2>1, ExtensionExists
  <2>3. QED
    BY <2>2 DEF v, Extends
<1>6. 1 \in 1..n /\ \A k \in 1..(n + 1) : k = n + 1 \/ k \in 1..n
  BY <1>1
<1> HIDE DEF t
<1>7. \A k \in 1..(n + 1) : Descends(R, s[k]) => l[k] < R.max
  <2>1. \A k \in 1..n : Descends(R, src[k]) => level[k] < R.max
    BY DEF NodesBuilt
  <2> HIDE DEF n
  <2>2. QED
    BY <1>4, <1>5, <1>6, <2>1
<1>8. ASSUME NEW k \in 2..(n + 1)
      PROVE  /\ t[k].parent \in 1..(k - 1) /\ l[k] = l[t[k].parent] + 1
             /\ s[k] \in R.in[s[t[k].parent]]
             /\ t[k].name = R.name[s[k]] /\ t[k].is_directory = R.dir[s[k]]
             /\ t[k].location = R.location[s[k]]
  <2>1. CASE k = n + 1
    <3>1. t[k] = y /\ y.parent = p /\ p \in 1..(k - 1) /\ s[k] = e
          /\ l[k] = level[p] + 1 /\ l[p] = level[p] /\ s[p] = src[p]
      BY <1>1, <1>3, <1>4, <1>5, <2>1 DEF IsMadeFor
    <3>2. l[k] = l[t[k].parent] + 1 /\ s[t[k].parent] = src[p]
      BY <3>1
    <3>3. y.name = R.name[e] /\ y.is_directory = R.dir[e] /\ y.location = R.location[e]
      BY DEF IsMadeFor
    <3>4. e \in R.in[src[p]]
      OBVIOUS
    <3> HIDE DEF n
    <3>5. s[k] \in R.in[s[t[k].parent]]
      BY <3>1, <3>2, <3>4
    <3>6. t[k].parent \in 1..(k - 1)
      BY <3>1
    <3>7. /\ t[k].name = R.name[s[k]] /\ t[k].is_directory = R.dir[s[k]]
          /\ t[k].location = R.location[s[k]]
      BY <3>1, <3>3
    <3>8. QED
      BY <3>2, <3>5, <3>6, <3>7
  <2>2. CASE k # n + 1
    <3>1. k \in 2..n /\ k \in 1..n
      <4>1. n \in Nat /\ k \in 2..(n + 1) /\ k # n + 1
        BY <1>1, <1>8, <2>2
      <4> HIDE DEF n
      <4>2. QED
        BY ONLY <4>1
    <3>2. /\ ns[k].parent \in 1..(k - 1) /\ level[k] = level[ns[k].parent] + 1
          /\ src[k] \in R.in[src[ns[k].parent]]
          /\ ns[k].name = R.name[src[k]] /\ ns[k].is_directory = R.dir[src[k]]
          /\ ns[k].location = R.location[src[k]]
      BY <3>1 DEF NodesBuilt
    <3>3. ns[k].parent \in 1..n
      BY <1>1, <3>1, <3>2
    <3> HIDE DEF n
    <3>4. t[k] = ns[k] /\ s[k] = src[k] /\ l[k] = level[k]
      BY <1>3, <1>4, <1>5, <3>1
    <3>5. s[t[k].parent] = src[ns[k].parent] /\ l[t[k].parent] = level[ns[k].parent]
      BY <1>4, <1>5, <3>3, <3>4
    <3>6. t[k].parent \in 1..(k - 1) /\ l[k] = l[t[k].parent] + 1
      BY <3>2, <3>4, <3>5
    <3>7. s[k] \in R.in[s[t[k].parent]]
      BY <3>2, <3>4, <3>5
    <3>8. /\ t[k].name = R.name[s[k]] /\ t[k].is_directory = R.dir[s[k]]
          /\ t[k].location = R.location[s[k]]
      BY <3>2, <3>4
    <3>9. QED
      BY <3>6, <3>7, <3>8
  <2>3. QED
    BY <2>1, <2>2
<1>9. NodesBuilt(R, t, s, l)
  <2>1. Len(t) >= 1 /\ s[1] = R.root /\ l[1] = 0
    BY <1>1, <1>3, <1>4, <1>5, <1>6
  <2>3. \A k \in 1..(n + 1) : s[k] \in R.fine
    BY <1>4, <1>6 DEF NodesBuilt
  <2> HIDE DEF n
  <2>2. QED
    BY <1>3, <1>4, <1>5, <1>7, <1>8, <2>1, <2>3 DEF NodesBuilt
<1>10. IsEnlarged(ns, src, level, t, s, l, e, p)
  BY <1>3, <1>4, <1>5 DEF IsEnlarged, IsMadeFor
<1>11. QED
  <2>1. level[p] \in Nat
    BY <1>1
  <2>2. QED
    BY <1>1, <1>2, <1>3, <1>9, <1>10, <2>1 DEF t

(* The frames that stay, and what waits in them, when the entry that came  *)
(* first has been given a node.                                            *)
LEMMA BuiltTaken ==
  ASSUME NEW R, IsReading(R), NEW ns, NEW st, NEW src, NEW level,
         Built(R, ns, st, src, level), Len(st) > R.off, Last(st).entries # <<>>,
         NEW e, e = R.key[Head(Last(st).entries)],
         NEW t, NEW s, NEW l, IsEnlarged(ns, src, level, t, s, l, e, Last(st).node)
  PROVE  /\ FramesOpen(R, t, Drawn(st), s, l)
         /\ \A k \in 1..Len(ns) : \A d \in R.in[s[k]] :
              HasChild(t, s, k, d) \/ Waits(R, Drawn(st), k, d) \/ IsLost(R, k, d, l)
<1> DEFINE u == Drawn(st)
           n == Len(st)
           m == Len(ns)
           x == Head(Last(st).entries)
<1>1. st \in Seq(FramesOver(R.entries)) /\ R.off \in Nat /\ st # <<>>
  BY EmptySeq DEF Built, FramesOpen, IsReading
<1>2. /\ u \in Seq(FramesOver(R.entries)) /\ Len(u) = n
      /\ n \in Nat \ {0} /\ Last(st) = st[n]
      /\ \A j \in 1..(n - 1) : u[j] = st[j]
      /\ u[n].node = st[n].node
      /\ x \in R.entries /\ st[n].entries[1] = x
      /\ Len(st[n].entries) \in Nat \ {0}
      /\ Len(u[n].entries) = Len(st[n].entries) - 1
      /\ \A i \in 1..Len(u[n].entries) : u[n].entries[i] = st[n].entries[i + 1]
  BY <1>1, DrawnFacts
<1>3. m \in Nat \ {0}
  BY TreeFacts DEF Built, NodesBuilt
<1> HIDE DEF u, n, m, x
<1>4. \A j \in (R.off + 1)..n : j = n \/ (j \in 1..(n - 1) /\ u[j] = st[j])
  BY <1>1, <1>2
<1>5. \A i \in 1..Len(u[n].entries) : i + 1 \in 1..Len(st[n].entries)
  BY <1>2
<1>6. \A j \in (R.off + 1)..n :
        /\ st[j].node \in 1..m /\ ns[st[j].node].is_directory
        /\ level[st[j].node] + R.off + 1 = j
        /\ \A i \in 1..Len(st[j].entries) :
             st[j].entries[i] \in R.keep
               => R.key[st[j].entries[i]] \in R.in[src[st[j].node]]
  BY DEF Built, FramesOpen, n, m
<1>7. ASSUME NEW j \in (R.off + 1)..n
      PROVE  /\ u[j].node = st[j].node
             /\ \A i \in 1..Len(u[j].entries) :
                  \E h \in 1..Len(st[j].entries) : u[j].entries[i] = st[j].entries[h]
  <2>1. CASE j = n
    BY <1>2, <1>5, <2>1
  <2>2. CASE j # n
    BY <1>4, <2>2
  <2>3. QED
    BY <2>1, <2>2
<1>8. \A k \in 1..m : t[k] = ns[k] /\ s[k] = src[k] /\ l[k] = level[k] /\ k \in 1..(m + 1)
  BY <1>3 DEF m, IsEnlarged
<1>9. ASSUME NEW j \in (R.off + 1)..n
      PROVE  /\ u[j].node \in 1..Len(t) /\ t[u[j].node].is_directory
             /\ l[u[j].node] + R.off + 1 = j
             /\ \A i \in 1..Len(u[j].entries) :
                  u[j].entries[i] \in R.keep
                    => R.key[u[j].entries[i]] \in R.in[s[u[j].node]]
  <2>1. u[j].node = st[j].node /\ st[j].node \in 1..m
    BY <1>6, <1>7
  <2>2. Len(t) = m + 1
    BY DEF m, IsEnlarged
  <2>3. ASSUME NEW i \in 1..Len(u[j].entries), u[j].entries[i] \in R.keep
        PROVE  R.key[u[j].entries[i]] \in R.in[src[st[j].node]]
    <3>1. PICK h \in 1..Len(st[j].entries) : u[j].entries[i] = st[j].entries[h]
      BY <1>7
    <3>2. QED
      BY <1>6, <2>3, <3>1
  <2>4. QED
    BY <1>6, <1>8, <2>1, <2>2, <2>3
<1>10. FramesOpen(R, t, u, s, l)
  BY <1>2, <1>9 DEF FramesOpen
<1>11. ASSUME NEW k \in 1..m, NEW d \in R.in[s[k]]
       PROVE  HasChild(t, s, k, d) \/ Waits(R, u, k, d) \/ IsLost(R, k, d, l)
  <2>1. d \in R.in[src[k]]
    BY <1>8
  <2>2. HasChild(ns, src, k, d) \/ Waits(R, st, k, d) \/ IsLost(R, k, d, level)
    BY <2>1 DEF Built, NothingMissing, m
  <2>3. CASE HasChild(ns, src, k, d)
    <3>1. PICK c \in 2..m : ns[c].parent = k /\ src[c] = d
      BY <2>3 DEF HasChild, m
    <3>2. c \in 1..m /\ c \in 2..(m + 1)
      BY <1>3
    <3>3. Len(t) = m + 1
      BY DEF m, IsEnlarged
    <3>4. QED
      BY <1>8, <3>1, <3>2, <3>3 DEF HasChild
  <2>4. CASE Waits(R, st, k, d)
    <3>1. PICK j \in (R.off + 1)..n : st[j].node = k
            /\ \E i \in 1..Len(st[j].entries) : R.key[st[j].entries[i]] = d
      BY <2>4 DEF Waits, n
    <3>2. PICK i \in 1..Len(st[j].entries) : R.key[st[j].entries[i]] = d
      BY <3>1
    <3>3. CASE j # n
      BY <1>2, <1>4, <3>1, <3>2, <3>3 DEF Waits
    <3>4. CASE j = n /\ i = 1
      <4>1. d = e /\ st[n].node = k
        BY <1>2, <3>1, <3>2, <3>4 DEF x
      <4>2. t[m + 1].parent = k /\ s[m + 1] = d /\ Len(t) = m + 1
        BY <1>2, <4>1 DEF m, IsEnlarged
      <4>3. m + 1 \in 2..(m + 1)
        BY <1>3
      <4>4. QED
        BY <4>2, <4>3 DEF HasChild
    <3>5. CASE j = n /\ i # 1
      <4>0. i \in 1..Len(st[n].entries)
        BY <3>2, <3>5
      <4>1. i - 1 \in 1..Len(u[n].entries) /\ (i - 1) + 1 = i
        BY <1>2, <3>5, <4>0
      <4>2. R.key[u[n].entries[i - 1]] = d
        BY <1>2, <3>2, <3>5, <4>1
      <4>3. j \in (R.off + 1)..Len(u) /\ u[j].node = k
        BY <1>2, <3>1, <3>5
      <4>4. QED
        BY <3>5, <4>1, <4>2, <4>3 DEF Waits
    <3>6. QED
      BY <3>3, <3>4, <3>5
  <2>5. CASE IsLost(R, k, d, level)
    BY <1>8, <2>5 DEF IsLost
  <2>6. QED
    BY <2>2, <2>3, <2>4, <2>5
<1>12. QED
  BY <1>10, <1>11 DEF u, m

(* The first entry becomes a file.                                         *)
LEMMA BuiltFile ==
  ASSUME NEW R, IsReading(R), NEW ns, NEW st, NEW src, NEW level,
         Built(R, ns, st, src, level), Len(st) > R.off, Last(st).entries # <<>>,
         Head(Last(st).entries) \in R.keep,
         NEW e, e = R.key[Head(Last(st).entries)],
         NEW y, IsMadeFor(R, y, e, Last(st).node), e \in R.fine, ~Descends(R, e)
  PROVE  \E s, l : /\ Built(R, Append(ns, y), Drawn(st), s, l)
                   /\ IsEnlarged(ns, src, level, Append(ns, y), s, l, e, Last(st).node)
<1> DEFINE p == Last(st).node
           t == Append(ns, y)
<1>1. /\ st \in Seq(FramesOver(R.entries)) /\ R.off \in Nat /\ st # <<>>
      /\ Len(st) \in Nat
  BY EmptySeq, LenProperties DEF Built, FramesOpen, IsReading
<1>2. Last(st) = st[Len(st)] /\ st[Len(st)].entries[1] = Head(Last(st).entries)
      /\ Len(st[Len(st)].entries) \in Nat \ {0}
  BY <1>1, DrawnFacts
<1>3. p \in 1..Len(ns) /\ ns[p].is_directory /\ e \in R.in[src[p]]
  <2>1. Len(st) \in (R.off + 1)..Len(st) /\ 1 \in 1..Len(st[Len(st)].entries)
    BY <1>1, <1>2
  <2>2. QED
    BY <1>2, <2>1 DEF Built, FramesOpen
<1>4. NodesBuilt(R, ns, src, level)
  BY DEF Built
<1> HIDE DEF p
<1>5. IsMadeFor(R, y, e, p)
  BY DEF p
<1>6. PICK s, l : NodesBuilt(R, t, s, l) /\ IsEnlarged(ns, src, level, t, s, l, e, p)
  BY <1>3, <1>4, <1>5, BuiltNode
<1>7. /\ FramesOpen(R, t, Drawn(st), s, l)
      /\ \A k \in 1..Len(ns) : \A d \in R.in[s[k]] :
           HasChild(t, s, k, d) \/ Waits(R, Drawn(st), k, d) \/ IsLost(R, k, d, l)
  BY <1>6, BuiltTaken DEF p
<1>8. NothingMissing(R, t, Drawn(st), s, l)
  <2>1. Len(ns) \in Nat /\ Len(t) = Len(ns) + 1 /\ s[Len(ns) + 1] = e
    BY <1>4, <1>6, TreeFacts DEF NodesBuilt, IsEnlarged
  <2>2. \A k \in 1..Len(t) : k \in 1..Len(ns) \/ k = Len(ns) + 1
    BY <2>1
  <2>3. R.in[e] = {}
    BY DEF Descends
  <2>4. QED
    BY <1>7, <2>1, <2>2, <2>3 DEF NothingMissing
<1>9. Built(R, t, Drawn(st), s, l)
  BY <1>6, <1>7, <1>8 DEF Built
<1>10. QED
  BY <1>6, <1>9 DEF t, p

(* The sizes of the directories do not matter.                             *)
LEMMA BuiltSizes ==
  ASSUME NEW R, NEW ns, NEW src, NEW level, Built(R, ns, <<>>, src, level),
         NEW t, Parsed(t), SameButSizes(ns, t)
  PROVE  Built(R, t, <<>>, src, level)
<1>0. Len(<<>>) = 0
  OBVIOUS
<1>1. NodesBuilt(R, t, src, level)
  <2>1. Len(ns) \in Nat /\ Len(t) = Len(ns)
    BY TreeFacts DEF Built, NodesBuilt, SameButSizes
  <2>2. \A k \in 2..Len(ns) : k \in 1..Len(ns)
    BY <2>1
  <2>3. ASSUME NEW k \in 2..Len(ns)
        PROVE  /\ t[k].parent \in 1..(k - 1) /\ level[k] = level[t[k].parent] + 1
               /\ src[k] \in R.in[src[t[k].parent]]
               /\ t[k].name = R.name[src[k]] /\ t[k].is_directory = R.dir[src[k]]
               /\ t[k].location = R.location[src[k]]
    <3>1. /\ t[k].name = ns[k].name /\ t[k].is_directory = ns[k].is_directory
          /\ t[k].location = ns[k].location /\ t[k].parent = ns[k].parent
      BY <2>2 DEF SameButSizes
    <3>2. /\ ns[k].parent \in 1..(k - 1) /\ level[k] = level[ns[k].parent] + 1
          /\ src[k] \in R.in[src[ns[k].parent]]
          /\ ns[k].name = R.name[src[k]] /\ ns[k].is_directory = R.dir[src[k]]
          /\ ns[k].location = R.location[src[k]]
      BY DEF Built, NodesBuilt
    <3>3. QED
      BY <3>1, <3>2
  <2>4. QED
    BY <2>1, <2>3 DEF Built, NodesBuilt
<1>2. FramesOpen(R, t, <<>>, src, level)
  <2>1. R.off \in Nat => \A j \in (R.off + 1)..0 : FALSE
    OBVIOUS
  <2>2. \A j \in (R.off + 1)..Len(<<>>) :
          /\ <<>>[j].node \in 1..Len(ns) /\ ns[<<>>[j].node].is_directory
    BY DEF Built, FramesOpen
  <2> DEFINE s == <<>>
  <2> HIDE DEF s
  <2>3. FramesOpen(R, ns, s, src, level) => FramesOpen(R, t, s, src, level)
    <3>1. Len(t) = Len(ns) /\ \A k \in 1..Len(ns) : t[k].is_directory = ns[k].is_directory
      BY DEF SameButSizes
    <3>2. QED
      BY <3>1 DEF FramesOpen
  <2>4. QED
    BY <2>3 DEF s, Built
<1>3. NothingMissing(R, t, <<>>, src, level)
  <2>1. Len(ns) \in Nat /\ Len(t) = Len(ns) /\ \A k \in 2..Len(ns) : k \in 1..Len(ns)
    BY TreeFacts DEF Built, NodesBuilt, SameButSizes
  <2>2. \A k, e : HasChild(ns, src, k, e) => HasChild(t, src, k, e)
    BY <2>1 DEF HasChild, SameButSizes
  <2>3. QED
    BY <2>1, <2>2 DEF Built, NothingMissing
<1>4. QED
  BY <1>1, <1>2, <1>3 DEF Built

-----------------------------------------------------------------------------
(* What is below an entry, one level after the other.                      *)
IsBelow(at, root, in, named, depth, S, X) ==
  /\ at \in [0..depth -> SUBSET (Seq(X) \X S)] /\ at[0] = { << <<>>, root >> }
  /\ \A d \in 1..depth :
       at[d] = UNION { { << Append(x[1], named[e]), e >> : e \in in[x[2]] } :
                         x \in at[d - 1] }
AllLevels(at, depth) == UNION { at[d] : d \in 0..depth }
NamedIn(X, S, in, named) == \A x \in S : \A e \in in[x] : named[e] \in X

(* The path to a node is the path to its directory and its name.           *)
IsPath(P, ns, N) ==
  /\ P[1] = <<>> /\ \A k \in 2..Len(ns) : P[k] = Append(P[ns[k].parent], N[k])
LEMMA PathsExist ==
  ASSUME NEW ns, Parsed(ns), \A k \in 2..Len(ns) : ns[k].parent \in 1..(k - 1),
         NEW X, NEW N, \A k \in 2..Len(ns) : N[k] \in X, Len(ns) >= 1
  PROVE  \E P : IsPath(P, ns, N) /\ P \in [1..Len(ns) -> Seq(X)]
<1> DEFINE n == Len(ns)
           Y == Seq(X)
           up == [i \in 1..n |-> ns[i].parent]
           step == [i \in 1..n |-> [p \in Y |-> IF i = 1 THEN <<>> ELSE Append(p, N[i])]]
<1>1. n \in Nat /\ \A i \in 1..n : up[i] \in 0..(i - 1) /\ up[i] = ns[i].parent
  BY DEF Parsed
<1>2. <<>> \in Y
  OBVIOUS
<1>3. \A i \in 1..n : step[i] \in [Y -> Y]
  <2>1. ASSUME NEW i \in 1..n, NEW p \in Y
        PROVE  (IF i = 1 THEN <<>> ELSE Append(p, N[i])) \in Y
    <3>1. CASE i = 1
      BY <1>2, <3>1
    <3>2. CASE i # 1
      <4>1. N[i] \in X
        BY <1>1, <3>2
      <4>2. Append(p, N[i]) \in Y
        BY <4>1, AppendProperties
      <4>3. QED
        BY <3>2, <4>2
    <3>3. QED
      BY <3>1, <3>2
  <2> HIDE DEF Y
  <2>2. QED
    BY <2>1
<1> HIDE DEF Y, up, n
<1>4. PICK f : ByParent(f, n, Y, <<>>, up, step)
  <2> HIDE DEF step
  <2>1. QED
    BY <1>1, <1>2, <1>3, ByParentExists
<1> DEFINE P == [k \in 1..n |-> f[k]]
<1>5. f \in [0..n -> Y] /\ \A i \in 1..n : f[i] = step[i][f[up[i]]]
  BY <1>4 DEF ByParent
<1>6. ASSUME NEW i \in 1..n
      PROVE  /\ i \in 0..n /\ f[i] \in Y /\ f[up[i]] \in Y
             /\ f[i] = IF i = 1 THEN <<>> ELSE Append(f[ns[i].parent], N[i])
  <2>1. i \in 0..n /\ up[i] \in 0..n
    BY <1>1
  <2>2. f[i] \in Y /\ f[up[i]] \in Y
    BY <1>5, <2>1
  <2>3. QED
    BY <1>1, <1>5, <2>1, <2>2
<1>7. P \in [1..n -> Y]
  BY <1>6
<1>8. 1 \in 1..n /\ \A k \in 2..n : k \in 1..n /\ k # 1 /\ ns[k].parent \in 1..n
  BY <1>1 DEF n
<1>9. P[1] = <<>> /\ \A k \in 2..n : P[k] = Append(P[ns[k].parent], N[k])
  BY <1>6, <1>8
<1>10. QED
  BY <1>7, <1>9 DEF IsPath, n, Y

(* Every node is something that is there, with the path that leads to it.  *)
IsNamed(N, ns, named, src) == \A k \in 2..Len(ns) : N[k] = named[src[k]]
LEMMA BuiltSound ==
  ASSUME NEW R, IsReading(R), NEW ns, NEW src, NEW level, NodesBuilt(R, ns, src, level),
         NEW W, \A e \in R.sources : R.in[e] \subseteq W[e],
         NEW named, NEW X, NEW at, IsBelow(at, R.root, W, named, R.max, R.sources, X),
         NEW N, IsNamed(N, ns, named, src), NEW P, IsPath(P, ns, N)
  PROVE  \A k \in 1..Len(ns) :
           level[k] \in 0..R.max /\ << P[k], src[k] >> \in at[level[k]]
<1> DEFINE n == Len(ns)
           Good(k) == level[k] \in 0..R.max /\ << P[k], src[k] >> \in at[level[k]]
           S == { k \in 0..n : \A i \in 1..k : Good(i) }
<1>1. /\ n \in Nat /\ n >= 1 /\ R.max \in Nat
      /\ src[1] = R.root /\ level[1] = 0 /\ P[1] = <<>>
      /\ \A k \in 1..n : level[k] \in Nat /\ src[k] \in R.sources
  BY TreeFacts DEF NodesBuilt, IsReading, IsPath
<1>2. at[0] = { << <<>>, R.root >> }
      /\ \A d \in 1..R.max :
           at[d] = UNION { { << Append(x[1], named[e]), e >> : e \in W[x[2]] } :
                             x \in at[d - 1] }
  BY DEF IsBelow
<1>3. 0 \in S
  <2>1. 0 \in 0..n /\ \A i \in 1..0 : FALSE
    BY <1>1
  <2> HIDE DEF Good, n
  <2>2. QED
    BY <2>1
<1>4. ASSUME NEW k \in 1..n, k - 1 \in S PROVE k \in S
  <2>1. k \in 0..n /\ \A i \in 1..k : i \in 1..(k - 1) \/ i = k
    BY <1>1
  <2>2. Good(k)
    <3>1. CASE k = 1
      <4>1. 0 \in 0..R.max
        BY <1>1
      <4>2. QED
        BY <1>1, <1>2, <3>1, <4>1
    <3>2. CASE k # 1
      <4>1. k \in 2..n
        BY <1>1, <3>2
      <4> DEFINE p == ns[k].parent
      <4>2. /\ p \in 1..(k - 1) /\ level[k] = level[p] + 1
            /\ src[k] \in R.in[src[p]]
        BY <4>1 DEF NodesBuilt
      <4>3. P[k] = Append(P[p], named[src[k]])
        BY <4>1 DEF IsPath, IsNamed
      <4>4. p \in 1..n /\ Good(p)
        <5>1. \A i \in 1..(k - 1) : Good(i) /\ i \in 1..n
          <6> HIDE DEF Good
          <6>1. QED
            BY <1>1, <1>4
        <5>2. QED
          BY <4>2, <5>1
      <4> HIDE DEF p, n
      <4>5. level[p] < R.max
        BY <4>2, <4>4 DEF NodesBuilt, Descends, n
      <4>6. level[k] \in 1..R.max /\ level[k] - 1 = level[p]
        BY <1>1, <4>2, <4>4, <4>5
      <4>7. src[k] \in W[src[p]]
        BY <1>1, <4>2, <4>4
      <4> DEFINE above == << P[p], src[p] >>
                 own == << P[k], src[k] >>
      <4>8. above \in at[level[k] - 1]
        BY <4>4, <4>6
      <4>9. own \in { << Append(above[1], named[e]), e >> : e \in W[above[2]] }
        BY <4>3, <4>7
      <4>10. own \in at[level[k]]
        <5> HIDE DEF above, own
        <5>1. at[level[k]]
                = UNION { { << Append(x[1], named[e]), e >> : e \in W[x[2]] } :
                            x \in at[level[k] - 1] }
          BY <1>2, <4>6
        <5>2. QED
          BY <4>8, <4>9, <5>1
      <4>11. level[k] \in 0..R.max
        BY <4>6
      <4>12. QED
        BY <4>10, <4>11
    <3>3. QED
      BY <3>1, <3>2
  <2> HIDE DEF Good
  <2>3. QED
    BY <1>4, <2>1, <2>2
<1>5. 0..n \subseteq S
  <2> HIDE DEF S, n
  <2>1. QED
    BY <1>1, <1>3, <1>4, UpTo
<1>6. n \in 0..n
  BY <1>1
<1> HIDE DEF Good, n
<1>7. \A k \in 1..n : Good(k)
  BY <1>5, <1>6
<1>8. QED
  BY <1>7 DEF Good, n

(* Whatever is there has a node, when nothing is open any more.            *)
HoldsAll(R, W, at) ==
  \A d \in 0..R.max : \A x \in at[d] : d < R.max => W[x[2]] \subseteq R.in[x[2]]
IsThere(ns, P, src, level, x, d) ==
  \E k \in 1..Len(ns) : P[k] = x[1] /\ src[k] = x[2] /\ level[k] = d
AllThere(R, ns, P, src, level, at) ==
  \A d \in 0..R.max : \A x \in at[d] :
    IsThere(ns, P, src, level, x, d) \/ (R.lossy /\ d = R.max /\ R.dir[x[2]])
LEMMA BuiltComplete ==
  ASSUME NEW R, IsReading(R), NEW ns, NEW src, NEW level,
         NEW st, st = <<>>, Built(R, ns, st, src, level),
         NEW W, NEW named, NEW X, NEW at,
         IsBelow(at, R.root, W, named, R.max, R.sources, X),
         HoldsAll(R, W, at),
         NEW N, IsNamed(N, ns, named, src), NEW P, IsPath(P, ns, N)
  PROVE  AllThere(R, ns, P, src, level, at)
<1> DEFINE n == Len(ns)
           Has(x, d) == \E k \in 1..n : P[k] = x[1] /\ src[k] = x[2] /\ level[k] = d
           Good(d) == \A x \in at[d] : Has(x, d) \/ (R.lossy /\ d = R.max /\ R.dir[x[2]])
           S == { d \in 0..R.max : Good(d) }
<1>1. /\ n \in Nat /\ n >= 1 /\ R.max \in Nat
      /\ src[1] = R.root /\ level[1] = 0 /\ P[1] = <<>>
  BY TreeFacts DEF Built, NodesBuilt, IsReading, IsPath
<1>2. at[0] = { << <<>>, R.root >> }
      /\ \A d \in 1..R.max :
           at[d] = UNION { { << Append(x[1], named[e]), e >> : e \in W[x[2]] } :
                             x \in at[d - 1] }
  BY DEF IsBelow
<1>3. \A k, e : ~Waits(R, st, k, e)
  <2>1. R.off \in Nat /\ Len(<<>>) = 0
    BY DEF IsReading
  <2>2. \A j \in (R.off + 1)..0 : FALSE
    BY <2>1
  <2>3. QED
    BY <2>1, <2>2 DEF Waits
<1>4. 0 \in S
  <2>1. ASSUME NEW x \in at[0] PROVE Has(x, 0)
    <3>1. x = << <<>>, R.root >> /\ 1 \in 1..n
      BY <1>1, <1>2
    <3>2. QED
      BY <1>1, <3>1
  <2>2. 0 \in 0..R.max
    BY <1>1
  <2>3. QED
    BY <2>1, <2>2
<1>5. ASSUME NEW d \in 1..R.max, d - 1 \in S PROVE d \in S
  <2>1. ASSUME NEW y \in at[d], ~(R.lossy /\ d = R.max /\ R.dir[y[2]]) PROVE Has(y, d)
    <3>1. PICK x \in at[d - 1] : y \in { << Append(x[1], named[e]), e >> : e \in W[x[2]] }
      BY <1>2
    <3>2. PICK e \in W[x[2]] : y = << Append(x[1], named[e]), e >>
      BY <3>1
    <3>3. d - 1 \in 0..R.max /\ d - 1 < R.max /\ d - 1 # R.max /\ (d - 1) + 1 = d
      BY <1>1
    <3>4. Has(x, d - 1)
      BY <1>5, <3>3
    <3>5. PICK k \in 1..n : P[k] = x[1] /\ src[k] = x[2] /\ level[k] = d - 1
      BY <3>4
    <3>6. e \in R.in[src[k]]
      BY <3>1, <3>2, <3>3, <3>5 DEF HoldsAll
    <3>7. HasChild(ns, src, k, e) \/ IsLost(R, k, e, level)
      BY <1>3, <3>6 DEF Built, NothingMissing, n
    <3>8. ~IsLost(R, k, e, level)
      BY <2>1, <3>2, <3>3, <3>5 DEF IsLost
    <3>9. PICK c \in 2..n : ns[c].parent = k /\ src[c] = e
      BY <3>7, <3>8 DEF HasChild, n
    <3>10. level[c] = level[k] + 1
      BY <3>9 DEF Built, NodesBuilt, n
    <3>11. P[c] = Append(P[k], named[e])
      BY <3>9 DEF IsPath, IsNamed, n
    <3>12. c \in 1..n
      BY <1>1
    <3>13. P[c] = y[1] /\ src[c] = y[2] /\ level[c] = d
      BY <3>2, <3>3, <3>5, <3>9, <3>10, <3>11
    <3>14. QED
      BY <3>12, <3>13
  <2>2. d \in 0..R.max
    OBVIOUS
  <2> HIDE DEF Has
  <2>3. QED
    BY <2>1, <2>2
<1>6. 0..R.max \subseteq S
  <2> HIDE DEF S
  <2>1. QED
    BY <1>1, <1>4, <1>5, UpTo
<1>7. \A d \in 0..R.max : Good(d)
  <2> HIDE DEF Good
  <2>1. QED
    BY <1>6
<1>8. QED
  BY <1>7 DEF AllThere, IsThere

-----------------------------------------------------------------------------
(* What is in a sequence, and in one that is made from others.             *)
LEMMA ElementsOf ==
  ASSUME NEW X, NEW s \in Seq(X)
  PROVE  /\ ToSet(s) = { s[i] : i \in 1..Len(s) } /\ ToSet(s) \subseteq X
         /\ DOMAIN s = 1..Len(s) /\ Len(s) \in Nat
<1>1. Len(s) \in Nat /\ DOMAIN s = 1..Len(s) /\ \A i \in 1..Len(s) : s[i] \in X
  BY LenProperties, ElementOfSeq
<1>2. QED
  BY <1>1 DEF ToSet
LEMMA FlattenedSet ==
  ASSUME NEW X, NEW seqs \in Seq(Seq(X))
  PROVE  /\ FlattenSeq(seqs) \in Seq(X)
         /\ ToSet(FlattenSeq(seqs)) = UNION { ToSet(seqs[i]) : i \in 1..Len(seqs) }
<1> DEFINE n == Len(seqs)
           t == FlattenSeq(seqs)
<1>1. n \in Nat /\ \A i \in 1..n : seqs[i] \in Seq(X)
  BY LenProperties, ElementOfSeq
<1>2. PICK f : Joins(f, n, X, seqs) /\ t = f[n]
  BY Flattening
<1> HIDE DEF t, n
<1>3. KeepsPlaces(f, n, X, seqs)
  BY <1>1, <1>2, JoinedPlaces
<1>4. n \in 0..n /\ \A i \in 1..n : i \in 0..n /\ i - 1 \in 0..n
  BY <1>1
<1>5. /\ t \in Seq(X) /\ Len(t) \in Nat
      /\ \A i \in 1..n : Len(f[i]) = Len(f[i - 1]) + Len(seqs[i]) /\ Len(f[i]) <= Len(t)
                         /\ Len(f[i - 1]) \in Nat
      /\ \A i \in 1..n : \A k \in 1..Len(seqs[i]) : t[Len(f[i - 1]) + k] = seqs[i][k]
      /\ \A p \in 1..Len(t) :
           \E i \in 1..n : \E k \in 1..Len(seqs[i]) : p = Len(f[i - 1]) + k
  <2>1. \A i \in 1..n : i <= n
    BY <1>1
  <2>2. QED
    BY <1>2, <1>3, <1>4, <2>1 DEF KeepsPlaces
<1>6. ToSet(t) = { t[i] : i \in 1..Len(t) }
  BY <1>5, ElementsOf
<1>7. \A i \in 1..n : ToSet(seqs[i]) = { seqs[i][k] : k \in 1..Len(seqs[i]) }
                      /\ Len(seqs[i]) \in Nat
  BY <1>1, ElementsOf
<1>8. ASSUME NEW i \in 1..n, NEW k \in 1..Len(seqs[i])
      PROVE  Len(f[i - 1]) + k \in 1..Len(t)
  <2>1. /\ Len(f[i]) = Len(f[i - 1]) + Len(seqs[i]) /\ Len(f[i]) <= Len(t)
        /\ Len(f[i - 1]) \in Nat /\ Len(seqs[i]) \in Nat /\ Len(t) \in Nat
    BY <1>5, <1>7
  <2>2. k \in Nat /\ 1 <= k /\ k <= Len(seqs[i])
    BY <2>1
  <2> DEFINE a == Len(f[i - 1])
             b == Len(seqs[i])
  <2> HIDE DEF a, b
  <2>3. a \in Nat /\ b \in Nat /\ k <= b /\ a + b <= Len(t)
    BY <2>1, <2>2 DEF a, b
  <2>4. a + k \in 1..Len(t)
    BY <2>1, <2>2, <2>3
  <2>5. QED
    BY <2>4 DEF a
<1>9. QED
  <2>1. ASSUME NEW x \in ToSet(t) PROVE x \in UNION { ToSet(seqs[i]) : i \in 1..n }
    <3>1. PICK p \in 1..Len(t) : x = t[p]
      BY <1>6
    <3>2. PICK i \in 1..n : \E k \in 1..Len(seqs[i]) : p = Len(f[i - 1]) + k
      BY <1>5
    <3>3. x \in ToSet(seqs[i])
      <4>1. PICK k \in 1..Len(seqs[i]) : p = Len(f[i - 1]) + k
        BY <3>2
      <4>2. x = seqs[i][k]
        BY <1>5, <3>1, <4>1
      <4>3. QED
        BY <1>7, <4>2
    <3>4. QED
      BY <3>3
  <2>2. ASSUME NEW i \in 1..n, NEW x \in ToSet(seqs[i]) PROVE x \in ToSet(t)
    <3>1. PICK k \in 1..Len(seqs[i]) : x = seqs[i][k]
      BY <1>7
    <3>2. QED
      BY <1>5, <1>6, <1>8, <3>1
  <2>3. QED
    BY <1>5, <2>1, <2>2 DEF t, n

(* A sequence up to the first of some places.                              *)
CutOff(s, B) == SubSeq(s, 1, Cardinality({ i \in DOMAIN s : \A j \in B : i < j }))
LEMMA CutOffSet ==
  ASSUME NEW X, NEW s \in Seq(X), NEW B \in SUBSET (DOMAIN s)
  PROVE  /\ CutOff(s, B) \in Seq(X) /\ ToSet(CutOff(s, B)) \subseteq ToSet(s)
         /\ Len(CutOff(s, B)) <= Len(s)
         /\ \A i \in 1..Len(CutOff(s, B)) : CutOff(s, B)[i] = s[i] /\ i \notin B
         /\ B = {} => ToSet(CutOff(s, B)) = ToSet(s)
<1> DEFINE S == { i \in DOMAIN s : \A j \in B : i < j }
           c == Cardinality(S)
           t == SubSeq(s, 1, c)
<1>1. Len(s) \in Nat /\ DOMAIN s = 1..Len(s) /\ ToSet(s) = { s[i] : i \in 1..Len(s) }
  BY ElementsOf
<1>2. S \in SUBSET (1..Len(s)) /\ \A i \in S : \A j \in 1..i : j \in S
  BY <1>1
<1>3. /\ c \in Nat /\ S = 1..c /\ t \in Seq(X) /\ Len(t) = c /\ c <= Len(s)
      /\ \A i \in S : t[i] = s[i]
  <2> HIDE DEF S
  <2>1. QED
    BY <1>2, PrefixFacts
<1>4. ToSet(t) = { t[i] : i \in 1..c }
  <2> HIDE DEF t, c, S
  <2>1. QED
    BY <1>3, ElementsOf
<1>5. \A i \in S : i \notin B /\ i \in 1..Len(s)
  BY <1>1, <1>2
<1>6. B = {} => S = 1..Len(s)
  BY <1>1
<1>7. CutOff(s, B) = t
  BY DEF CutOff
<1> HIDE DEF S, c, t
<1>8. \A i \in 1..c : t[i] = s[i] /\ i \notin B /\ i \in 1..Len(s)
  BY <1>3, <1>5
<1>9. ToSet(t) \subseteq ToSet(s)
  BY <1>1, <1>4, <1>8
<1>10. ASSUME B = {} PROVE ToSet(t) = ToSet(s)
  <2>1. 1..c = 1..Len(s)
    BY <1>3, <1>6, <1>10
  <2>2. QED
    BY <1>1, <1>4, <1>8, <2>1
<1>11. QED
  BY <1>3, <1>7, <1>8, <1>9, <1>10
(* A node that is made with what a source has.                             *)
LEMMA MadeFor ==
  ASSUME NEW R, NEW e, NEW p, NEW y, NEW name, NEW d \in BOOLEAN, NEW at, NEW len,
         IsMade(y, name, d, at, len, p),
         name = R.name[e], d <=> R.dir[e], R.dir[e] \in BOOLEAN, at = R.location[e]
  PROVE  IsMadeFor(R, y, e, p)
BY DEF IsMade, IsMadeFor

-----------------------------------------------------------------------------
(* What all readings have in common.  Each step down makes a path longer.  *)
LEMMA PathLengths ==
  ASSUME NEW at, NEW root, NEW in, NEW named, NEW depth \in Nat, NEW S, NEW X,
         IsBelow(at, root, in, named, depth, S, X)
  PROVE  \A d \in 0..depth : \A x \in at[d] : Len(x[1]) = d
<1> DEFINE Good(d) == \A x \in at[d] : Len(x[1]) = d
           T == { d \in 0..depth : Good(d) }
<1>1. 0 \in T
  <2>1. \A x \in at[0] : x = << <<>>, root >>
    BY DEF IsBelow
  <2>2. Len(<<>>) = 0 /\ 0 \in 0..depth
    OBVIOUS
  <2>3. QED
    BY <2>1, <2>2
<1>2. ASSUME NEW d \in 1..depth, d - 1 \in T PROVE d \in T
  <2>1. ASSUME NEW y \in at[d] PROVE Len(y[1]) = d
    <3>1. at[d] = UNION { { << Append(x[1], named[e]), e >> : e \in in[x[2]] } :
                            x \in at[d - 1] }
      BY DEF IsBelow
    <3>2. PICK x \in at[d - 1] : y \in { << Append(x[1], named[e]), e >> : e \in in[x[2]] }
      BY <3>1
    <3>3. PICK e \in in[x[2]] : y = << Append(x[1], named[e]), e >>
      BY <3>2
    <3>4. d - 1 \in 0..depth /\ at[d - 1] \in SUBSET (Seq(X) \X S)
      BY DEF IsBelow
    <3>5. x \in Seq(X) \X S
      BY <3>4
    <3>6. x[1] \in Seq(X)
      BY <3>5
    <3>7. Len(x[1]) = d - 1
      BY <1>2
    <3>8. Len(Append(x[1], named[e])) = Len(x[1]) + 1
      BY <3>6
    <3>9. y[1] = Append(x[1], named[e])
      BY <3>3
    <3>10. QED
      BY <3>7, <3>8, <3>9
  <2>2. d \in 0..depth
    OBVIOUS
  <2>3. QED
    BY <2>1, <2>2
<1>3. 0..depth \subseteq T
  <2> HIDE DEF T
  <2>1. QED
    BY <1>1, <1>2, UpTo
<1>4. QED
  BY <1>3

(* The entry a reader has come to is something that is there.              *)
LEMMA EntryBelow ==
  ASSUME NEW R, IsReading(R), NEW ns, NEW st, NEW src, NEW level,
         Built(R, ns, st, src, level), Len(st) > R.off, Last(st).entries # <<>>,
         Head(Last(st).entries) \in R.keep, Len(st) - R.off <= R.max,
         NEW W, \A e \in R.sources : R.in[e] \subseteq W[e],
         NEW named, NEW X, NEW at, IsBelow(at, R.root, W, named, R.max, R.sources, X),
         \A e \in R.sources : named[e] \in X
  PROVE  /\ \E p : << p, R.key[Head(Last(st).entries)] >> \in at[Len(st) - R.off]
         /\ Len(st) - R.off \in 0..R.max
<1> DEFINE n == Len(st)
           x == Head(Last(st).entries)
           k == st[n].node
           N == [j \in 1..Len(ns) |-> named[src[j]]]
<1>1. st \in Seq(FramesOver(R.entries)) /\ R.off \in Nat /\ st # <<>> /\ R.max \in Nat
  <2>1. st \in Seq(FramesOver(R.entries)) /\ R.off \in Nat /\ R.max \in Nat
    BY DEF Built, FramesOpen, IsReading
  <2>2. QED
    BY <2>1, EmptySeq, LenProperties
<1>2. /\ n \in Nat \ {0} /\ st[n].entries[1] = x
      /\ Len(st[n].entries) \in Nat \ {0}
  BY <1>1, DrawnFacts
<1>3. n \in (R.off + 1)..n /\ 1 \in 1..Len(st[n].entries)
  BY <1>1, <1>2
<1>4. /\ k \in 1..Len(ns) /\ level[k] + R.off + 1 = n
      /\ R.key[x] \in R.in[src[k]]
  <2> HIDE DEF x
  <2>1. QED
    BY <1>2, <1>3 DEF Built, FramesOpen, x
<1>5. /\ Parsed(ns) /\ Len(ns) >= 1 /\ Len(ns) \in Nat
      /\ \A j \in 2..Len(ns) : ns[j].parent \in 1..(j - 1)
      /\ src \in [1..Len(ns) -> R.sources] /\ level[k] \in Nat
  BY <1>4, TreeFacts DEF Built, NodesBuilt
<1>6. \A j \in 2..Len(ns) : N[j] \in X
  BY <1>5
<1>7. IsNamed(N, ns, named, src)
  BY <1>5 DEF IsNamed
<1> HIDE DEF N
<1>8. PICK P : IsPath(P, ns, N)
  BY <1>5, <1>6, PathsExist
<1>9. NodesBuilt(R, ns, src, level)
  BY DEF Built
<1> HIDE DEF x, n, k
<1>10. << P[k], src[k] >> \in at[level[k]]
  BY <1>4, <1>7, <1>8, <1>9, BuiltSound
<1>11. level[k] + 1 = n - R.off /\ n - R.off \in 1..R.max /\ (n - R.off) - 1 = level[k]
  BY <1>1, <1>2, <1>4, <1>5, SMTT(20) DEF n
<1> DEFINE d == n - R.off
           e == R.key[x]
           above == << P[k], src[k] >>
           own == << Append(P[k], named[e]), e >>
<1>12. e \in W[src[k]]
  BY <1>4, <1>5
<1>13. at[d] = UNION { { << Append(y[1], named[f]), f >> : f \in W[y[2]] } :
                         y \in at[d - 1] }
  BY <1>11 DEF IsBelow
<1>14. above \in at[d - 1]
  BY <1>10, <1>11
<1>15. own \in { << Append(above[1], named[f]), f >> : f \in W[above[2]] }
  BY <1>12
<1>16. own \in at[d]
  <2> HIDE DEF above, own, d
  <2>1. QED
    BY <1>13, <1>14, <1>15
<1>17. d \in 0..R.max
  BY <1>11
<1>18. QED
  BY <1>16, <1>17 DEF x, n
(* A tree that grows out of a reading, whatever its nodes stand for.       *)
IsBuilt(R, ns, st) == \E src, level : Built(R, ns, st, src, level)

(* The names that a reading's tree has, and those that are there.          *)
IsCover(R, W) ==
  W \in [R.sources -> SUBSET R.sources] /\ \A e \in R.sources : R.in[e] \subseteq W[e]
SameNames(R, W, named) == \A e \in R.sources : \A f \in W[e] : named[f] = R.name[f]
HasAll(R, W, names) == \A x \in names : W[x[2]] \subseteq R.in[x[2]]

-----------------------------------------------------------------------------
(* A frame with an entry that gets a node is a directory's, and that is    *)
(* not at the last depth.                                                  *)
LEMMA DepthLimit ==
  ASSUME NEW R, IsReading(R), NEW ns, NEW st, IsBuilt(R, ns, st),
         Len(st) > R.off, Last(st).entries # <<>>, Head(Last(st).entries) \in R.keep
  PROVE  Len(st) - R.off <= R.max
<1>1. PICK src, level : Built(R, ns, st, src, level)
  BY DEF IsBuilt
<1>2. R.off \in {0, 1} /\ R.max \in Nat
  BY DEF IsReading
<1>3. FramesOpen(R, ns, st, src, level) /\ NodesBuilt(R, ns, src, level)
  BY <1>1 DEF Built
<1>4. st \in Seq(FramesOver(R.entries)) /\ st # <<>>
  BY <1>2, <1>3 DEF FramesOpen
<1> DEFINE j == Len(st)
           p == st[j].node
<1>5. /\ j \in Nat \ {0} /\ Last(st) = st[j]
      /\ st[j].entries[1] = Head(Last(st).entries) /\ Len(st[j].entries) \in Nat \ {0}
  BY ONLY <1>4, Last(st).entries # <<>>, DrawnFacts
<1>6. j \in (R.off + 1)..Len(st)
  BY <1>2, <1>5
<1> HIDE DEF j
<1>7. /\ p \in 1..Len(ns) /\ level[p] + R.off + 1 = j
      /\ \A i \in 1..Len(st[j].entries) :
           st[j].entries[i] \in R.keep => R.key[st[j].entries[i]] \in R.in[src[p]]
  BY <1>3, <1>6 DEF FramesOpen
<1>8. R.in[src[p]] # {}
  <2>1. 1 \in 1..Len(st[j].entries)
    BY <1>5
  <2>2. QED
    BY <1>5, <1>7, <2>1
<1>9. level[p] < R.max /\ level[p] \in Nat
  BY <1>3, <1>7, <1>8 DEF NodesBuilt, Descends
<1>10. QED
  BY <1>2, <1>7, <1>9 DEF j

(* A root without anything in it, and no frame but those that are not a    *)
(* directory's.                                                            *)
LEMMA BuiltLeaf ==
  ASSUME NEW R, IsReading(R), NEW ns, Parsed(ns), Len(ns) = 1,
         R.root \in R.fine, ~Descends(R, R.root),
         NEW st, st \in Seq(FramesOver(R.entries)), Len(st) = R.off
  PROVE  IsBuilt(R, ns, st)
<1> DEFINE src == [k \in 1..1 |-> R.root]
           level == [k \in 1..1 |-> 0]
<1>1. R.root \in R.sources /\ R.off \in {0, 1} /\ R.in[R.root] = {}
  BY DEF IsReading, Descends
<1>2. /\ src \in [1..Len(ns) -> R.sources] /\ level \in [1..Len(ns) -> Nat]
      /\ \A k \in 1..Len(ns) : src[k] = R.root /\ level[k] = 0
      /\ 1 \in 1..Len(ns)
  BY <1>1
<1> HIDE DEF src, level
<1>3. NodesBuilt(R, ns, src, level)
  BY <1>2 DEF NodesBuilt
<1>4. FramesOpen(R, ns, st, src, level)
  <2>1. (R.off + 1)..Len(st) = {}
    BY <1>1
  <2>2. QED
    BY <2>1 DEF FramesOpen
<1>5. NothingMissing(R, ns, st, src, level)
  BY <1>1, <1>2 DEF NothingMissing
<1>6. QED
  BY <1>3, <1>4, <1>5 DEF Built, IsBuilt

-----------------------------------------------------------------------------
(* Where no source is in two others and every entry is kept, no source has *)
(* two nodes, and none that waits has a node already.                      *)
OneFolder(R) ==
  /\ R.keep = R.entries
  /\ \A a, b \in R.sources : \A e \in R.in[a] : e # R.root /\ (e \in R.in[b] => a = b)
Sole(R, ns, st, src) ==
  /\ \A a, b \in 1..Len(ns) : src[a] = src[b] => a = b
  /\ \A j \in (R.off + 1)..Len(st) :
       /\ \A i, h \in 1..Len(st[j].entries) :
            R.key[st[j].entries[i]] = R.key[st[j].entries[h]] => i = h
       /\ \A i \in 1..Len(st[j].entries) : \A k \in 1..Len(ns) :
            src[k] # R.key[st[j].entries[i]]

(* What waits beside the first entry is not what the first entry is.       *)
LEMMA OthersWait ==
  ASSUME NEW R, IsReading(R), OneFolder(R), NEW ns, NEW st, NEW src, NEW level,
         Built(R, ns, st, src, level), Sole(R, ns, st, src),
         Len(st) > R.off, Last(st).entries # <<>>
  PROVE  /\ Sole(R, ns, Drawn(st), src)
         /\ \A j \in (R.off + 1)..Len(st) : \A i \in 1..Len(Drawn(st)[j].entries) :
              R.key[Drawn(st)[j].entries[i]] # R.key[Head(Last(st).entries)]
         /\ Drawn(st) \in Seq(FramesOver(R.entries)) /\ Len(Drawn(st)) = Len(st)
         /\ \A k \in 1..Len(ns) : src[k] # R.key[Head(Last(st).entries)]
         /\ Head(Last(st).entries) \in R.keep
<1> DEFINE u == Drawn(st)
           n == Len(st)
           x == Head(Last(st).entries)
           key(j, i) == R.key[st[j].entries[i]]
           at(j, i) == IF j = n THEN i + 1 ELSE i
<1>1. st \in Seq(FramesOver(R.entries)) /\ R.off \in Nat /\ st # <<>>
  BY EmptySeq DEF Built, FramesOpen, IsReading
<1>2. /\ u \in Seq(FramesOver(R.entries)) /\ Len(u) = n
      /\ n \in Nat \ {0} /\ \A j \in 1..(n - 1) : u[j] = st[j]
      /\ x \in R.entries /\ st[n].entries[1] = x
      /\ Len(st[n].entries) \in Nat \ {0}
      /\ Len(u[n].entries) = Len(st[n].entries) - 1
      /\ \A i \in 1..Len(u[n].entries) : u[n].entries[i] = st[n].entries[i + 1]
  BY <1>1, DrawnFacts
<1>3. \A j \in 1..n : st[j].entries \in Seq(R.entries)
  BY <1>1, ElementOfSeq DEF FramesOver
<1> HIDE DEF u, n, x
<1>4. \A j \in (R.off + 1)..n : j \in 1..n /\ (j = n \/ j \in 1..(n - 1))
  BY <1>1, <1>2
<1>5. ASSUME NEW j \in (R.off + 1)..n, NEW i \in 1..Len(st[j].entries)
      PROVE  key(j, i) \in R.in[src[st[j].node]]
  <2>1. st[j].entries[i] \in R.keep
    BY <1>3, <1>4, ElementOfSeq DEF OneFolder
  <2>2. QED
    BY <2>1 DEF Built, FramesOpen, n
<1>6. /\ \A k \in 1..Len(ns) : src[k] \in R.sources
      /\ \A j \in (R.off + 1)..n :
           st[j].node \in 1..Len(ns) /\ level[st[j].node] + R.off + 1 = j
      /\ \A a, b \in 1..Len(ns) : src[a] = src[b] => a = b
      /\ \A j \in (R.off + 1)..n : \A i, h \in 1..Len(st[j].entries) :
           key(j, i) = key(j, h) => i = h
      /\ \A j \in (R.off + 1)..n : \A i \in 1..Len(st[j].entries) :
           \A k \in 1..Len(ns) : src[k] # key(j, i)
  BY DEF Built, NodesBuilt, FramesOpen, Sole, n
<1>7. ASSUME NEW j \in (R.off + 1)..n, NEW i \in 1..Len(st[j].entries),
             NEW g \in (R.off + 1)..n, NEW h \in 1..Len(st[g].entries),
             key(j, i) = key(g, h)
      PROVE  j = g /\ i = h
  <2>1. src[st[j].node] = src[st[g].node]
    <3> DEFINE a == src[st[j].node]
               b == src[st[g].node]
               e == key(j, i)
    <3>1. a \in R.sources /\ b \in R.sources /\ e \in R.in[a] /\ e \in R.in[b]
      BY <1>5, <1>6, <1>7
    <3> HIDE DEF a, b, e
    <3>2. a = b
      BY <3>1 DEF OneFolder
    <3>3. QED
      BY <3>2 DEF a, b
  <2>2. st[j].node = st[g].node
    BY <1>6, <2>1
  <2>3. j = g
    BY <1>6, <2>2
  <2>4. QED
    BY <1>6, <1>7, <2>3
<1>8. n \in (R.off + 1)..n /\ 1 \in 1..Len(st[n].entries) /\ key(n, 1) = R.key[x]
  <2>1. n > R.off
    BY DEF n
  <2>2. \A i \in Nat \ {0} : 1 \in 1..i
    OBVIOUS
  <2>3. QED
    BY <1>1, <1>2, <2>1, <2>2
<1>9. ASSUME NEW j \in (R.off + 1)..n, NEW i \in 1..Len(u[j].entries)
      PROVE  /\ at(j, i) \in 1..Len(st[j].entries) /\ R.key[u[j].entries[i]] = key(j, at(j, i))
             /\ j = n => at(j, i) # 1
  <2>1. CASE j = n
    <3>1. i + 1 \in 1..Len(st[n].entries) /\ i + 1 # 1
      BY <1>2, <2>1
    <3>2. u[j].entries[i] = st[n].entries[i + 1]
      BY <1>2, <2>1
    <3>3. QED
      BY <2>1, <3>1, <3>2
  <2>2. CASE j # n
    <3>1. u[j] = st[j]
      BY <1>2, <1>4, <2>2
    <3>2. QED
      BY <2>2, <3>1
  <2>3. QED
    BY <2>1, <2>2
<1>10. \A j \in (R.off + 1)..n : \A i, h \in 1..Len(u[j].entries) :
         at(j, i) = at(j, h) => i = h
  <2> TAKE j \in (R.off + 1)..n
  <2> TAKE i, h \in 1..Len(u[j].entries)
  <2>1. \A a, b \in 1..Len(u[j].entries) : a + 1 = b + 1 => a = b
    OBVIOUS
  <2>2. QED
    BY <2>1
<1> HIDE DEF key, at
<1>11. \A j \in (R.off + 1)..n : \A i \in 1..Len(u[j].entries) :
         R.key[u[j].entries[i]] # R.key[x]
  <2> SUFFICES ASSUME NEW j \in (R.off + 1)..n, NEW i \in 1..Len(u[j].entries),
                      R.key[u[j].entries[i]] = R.key[x]
               PROVE  FALSE
    OBVIOUS
  <2>1. /\ at(j, i) \in 1..Len(st[j].entries) /\ key(j, at(j, i)) = key(n, 1)
        /\ j = n => at(j, i) # 1
    BY <1>8, <1>9
  <2>2. j = n /\ at(j, i) = 1
    BY <1>7, <1>8, <2>1
  <2>3. QED
    BY <2>1, <2>2
<1>12. \A j \in (R.off + 1)..n : \A i, h \in 1..Len(u[j].entries) :
         R.key[u[j].entries[i]] = R.key[u[j].entries[h]] => i = h
  <2> SUFFICES ASSUME NEW j \in (R.off + 1)..n, NEW i \in 1..Len(u[j].entries),
                      NEW h \in 1..Len(u[j].entries),
                      R.key[u[j].entries[i]] = R.key[u[j].entries[h]]
               PROVE  i = h
    OBVIOUS
  <2>1. /\ at(j, i) \in 1..Len(st[j].entries) /\ at(j, h) \in 1..Len(st[j].entries)
        /\ key(j, at(j, i)) = key(j, at(j, h))
    BY <1>9
  <2>2. at(j, i) = at(j, h)
    BY <1>7, <2>1
  <2>3. QED
    BY <1>10, <2>2
<1>13. \A j \in (R.off + 1)..n : \A i \in 1..Len(u[j].entries) : \A k \in 1..Len(ns) :
         src[k] # R.key[u[j].entries[i]]
  <2> TAKE j \in (R.off + 1)..n
  <2> TAKE i \in 1..Len(u[j].entries)
  <2>1. at(j, i) \in 1..Len(st[j].entries) /\ R.key[u[j].entries[i]] = key(j, at(j, i))
    BY <1>9
  <2>2. \A k \in 1..Len(ns) : src[k] # key(j, at(j, i))
    BY <1>6, <2>1
  <2>3. QED
    BY <2>1, <2>2
<1>14. Sole(R, ns, u, src)
  BY <1>2, <1>6, <1>12, <1>13 DEF Sole
<1>15. \A k \in 1..Len(ns) : src[k] # R.key[x]
  BY <1>6, <1>8
<1>16. x \in R.keep
  BY <1>2 DEF OneFolder
<1>17. QED
  BY <1>2, <1>11, <1>14, <1>15, <1>16 DEF u, n, x

(* The first entry gets its node.                                          *)
LEMMA SoleAdded ==
  ASSUME NEW R, IsReading(R), OneFolder(R), NEW ns, NEW st, NEW src, NEW level,
         Built(R, ns, st, src, level), Sole(R, ns, st, src),
         Len(st) > R.off, Last(st).entries # <<>>,
         NEW t, NEW s, NEW l,
         IsEnlarged(ns, src, level, t, s, l, R.key[Head(Last(st).entries)], Last(st).node)
  PROVE  Sole(R, t, Drawn(st), s)
<1> DEFINE u == Drawn(st)
           n == Len(st)
           m == Len(ns)
           e == R.key[Head(Last(st).entries)]
<1>1. /\ Sole(R, ns, u, src) /\ Len(u) = n
      /\ \A j \in (R.off + 1)..n : \A i \in 1..Len(u[j].entries) : R.key[u[j].entries[i]] # e
      /\ \A k \in 1..m : src[k] # e
  BY OthersWait
<1>2. /\ Len(t) = m + 1 /\ s[m + 1] = e /\ \A k \in 1..m : s[k] = src[k]
      /\ m \in Nat
  BY TreeFacts DEF IsEnlarged, Built, NodesBuilt
<1> HIDE DEF u, n, m, e
<1>3. \A k \in 1..Len(t) : k = m + 1 \/ (k \in 1..m /\ s[k] = src[k])
  BY <1>2
<1>4. \A a, b \in 1..m : src[a] = src[b] => a = b
  BY <1>1 DEF Sole, m
<1>5. \A a, b \in 1..Len(t) : s[a] = s[b] => a = b
  <2> TAKE a, b \in 1..Len(t)
  <2>1. (a = m + 1 /\ s[a] = e) \/ (a \in 1..m /\ s[a] = src[a] /\ s[a] # e)
    BY <1>1, <1>2, <1>3
  <2>2. (b = m + 1 /\ s[b] = e) \/ (b \in 1..m /\ s[b] = src[b] /\ s[b] # e)
    BY <1>1, <1>2, <1>3
  <2>3. QED
    BY <1>4, <2>1, <2>2
<1>6. \A j \in (R.off + 1)..n :
        /\ \A i, h \in 1..Len(u[j].entries) :
             R.key[u[j].entries[i]] = R.key[u[j].entries[h]] => i = h
        /\ \A i \in 1..Len(u[j].entries) : \A k \in 1..m :
             src[k] # R.key[u[j].entries[i]]
  BY <1>1 DEF Sole, m
<1>7. \A j \in (R.off + 1)..n : \A i \in 1..Len(u[j].entries) : \A k \in 1..Len(t) :
        s[k] # R.key[u[j].entries[i]]
  BY <1>1, <1>2, <1>3, <1>6
<1>8. Sole(R, t, u, s)
  BY <1>1, <1>5, <1>6, <1>7 DEF Sole
<1>9. QED
  BY <1>8 DEF u

(* The last node is a directory, and what is in it is next.                *)
LEMMA SolePushed ==
  ASSUME NEW R, IsReading(R), OneFolder(R), NEW t, NEW s, NEW l, NodesBuilt(R, t, s, l),
         NEW u, Len(u) \in Nat, Sole(R, t, u, s),
         NEW e, e \in R.sources, s[Len(t)] = e, NEW es,
         \A i \in 1..Len(es) : R.key[es[i]] \in R.in[e],
         \A i, h \in 1..Len(es) : R.key[es[i]] = R.key[es[h]] => i = h,
         NEW v, Len(v) = Len(u) + 1, \A j \in 1..Len(u) : v[j] = u[j],
         v[Len(u) + 1].entries = es
  PROVE  Sole(R, t, v, s)
<1> DEFINE n == Len(u)
           m == Len(t)
<1>1. R.off \in Nat /\ n \in Nat /\ m \in Nat /\ m >= 1
  BY TreeFacts DEF IsReading, NodesBuilt
<1>2. ASSUME NEW i \in 1..Len(es), NEW k \in 1..m, s[k] = R.key[es[i]] PROVE FALSE
  <2> DEFINE d == R.key[es[i]]
  <2>1. d \in R.in[e] /\ s[k] = d
    BY <1>2
  <2> HIDE DEF d
  <2>2. d # R.root
    BY <2>1 DEF OneFolder
  <2>3. s[1] = R.root
    BY DEF NodesBuilt
  <2>4. k \in 2..m
    BY <1>1, <2>1, <2>2, <2>3
  <2> DEFINE p == t[k].parent
  <2>5. p \in 1..(k - 1) /\ s[k] \in R.in[s[p]]
    BY <2>4 DEF NodesBuilt, m
  <2>6. p \in 1..m /\ p # m /\ m \in 1..m
    BY <1>1, <2>4, <2>5
  <2> HIDE DEF p
  <2>7. s[p] \in R.sources
    BY <2>6 DEF NodesBuilt, m
  <2>8. s[p] = e
    BY <2>1, <2>5, <2>7 DEF OneFolder
  <2>9. s[p] = s[m] => p = m
    BY <2>6 DEF Sole, m
  <2>10. QED
    BY <2>6, <2>8, <2>9 DEF m
<1>3. \A j \in (R.off + 1)..(n + 1) : j = n + 1 \/ (j \in (R.off + 1)..n /\ j \in 1..n)
  BY <1>1
<1> HIDE DEF n, m
<1>4. ASSUME NEW j \in (R.off + 1)..(n + 1)
      PROVE  /\ \A i, h \in 1..Len(v[j].entries) :
                  R.key[v[j].entries[i]] = R.key[v[j].entries[h]] => i = h
             /\ \A i \in 1..Len(v[j].entries) : \A k \in 1..m :
                  s[k] # R.key[v[j].entries[i]]
  <2>1. CASE j = n + 1
    <3>1. v[j].entries = es
      BY <2>1 DEF n
    <3>2. QED
      BY <1>2, <3>1
  <2>2. CASE j \in (R.off + 1)..n /\ j \in 1..n
    <3>1. v[j] = u[j]
      BY <2>2 DEF n
    <3>2. /\ \A i, h \in 1..Len(u[j].entries) :
               R.key[u[j].entries[i]] = R.key[u[j].entries[h]] => i = h
          /\ \A i \in 1..Len(u[j].entries) : \A k \in 1..m :
               s[k] # R.key[u[j].entries[i]]
      BY <2>2 DEF Sole, n, m
    <3>3. QED
      BY <3>1, <3>2
  <2>3. QED
    BY <1>3, <2>1, <2>2
<1>5. Len(v) = n + 1 /\ \A a, b \in 1..m : s[a] = s[b] => a = b
  BY DEF n, m, Sole
<1>6. QED
  BY <1>4, <1>5 DEF Sole, m

(* The tree and what waits, each source once.                              *)
IsSole(R, ns, st) ==
  \E src, level : Built(R, ns, st, src, level) /\ Sole(R, ns, st, src)
LEMMA SoleSkip ==
  ASSUME NEW R, IsReading(R), OneFolder(R), NEW ns, NEW st, IsSole(R, ns, st),
         Len(st) > R.off, Last(st).entries # <<>>,
         R.lossy, R.dir[R.key[Head(Last(st).entries)]], Len(st) - R.off >= R.max
  PROVE  IsSole(R, ns, Drawn(st))
<1>1. PICK src, level : Built(R, ns, st, src, level) /\ Sole(R, ns, st, src)
  BY DEF IsSole
<1> DEFINE n == Len(st)
<1>2. Sole(R, ns, Drawn(st), src) /\ Head(Last(st).entries) \in R.keep
  BY <1>1, OthersWait
<1>3. IsBuilt(R, ns, st)
  BY <1>1 DEF IsBuilt
<1>4. n - R.off <= R.max
  BY <1>2, <1>3, DepthLimit
<1>5. R.off \in {0, 1} /\ R.max \in Nat /\ st \in Seq(FramesOver(R.entries))
      /\ NodesBuilt(R, ns, src, level) /\ FramesOpen(R, ns, st, src, level)
  BY <1>1 DEF IsReading, Built, FramesOpen
<1>6. st # <<>> /\ n \in Nat
  BY <1>5, EmptySeq, LenProperties
<1>7. Last(st) = st[n]
  BY <1>5, <1>6, DrawnFacts
<1>8. n \in (R.off + 1)..Len(st)
  BY <1>5, <1>6
<1> HIDE DEF n
<1>9. st[n].node \in 1..Len(ns) /\ level[st[n].node] + R.off + 1 = n
  BY <1>5, <1>8 DEF FramesOpen
<1>10. level[st[n].node] \in Nat
  BY <1>5, <1>9 DEF NodesBuilt
<1>11. level[st[n].node] + 1 = R.max
  BY <1>4, <1>5, <1>6, <1>9, <1>10 DEF n
<1>12. IsLost(R, Last(st).node, R.key[Head(Last(st).entries)], level)
  BY <1>7, <1>11 DEF IsLost
<1>13. Built(R, ns, Drawn(st), src, level)
  BY <1>1, <1>12, BuiltSkip
<1>14. QED
  BY <1>2, <1>13 DEF IsSole

LEMMA SoleFile ==
  ASSUME NEW R, IsReading(R), OneFolder(R), NEW ns, NEW st, IsSole(R, ns, st),
         Len(st) > R.off, Last(st).entries # <<>>,
         NEW e, e = R.key[Head(Last(st).entries)],
         NEW y, IsMadeFor(R, y, e, Last(st).node), e \in R.fine, ~Descends(R, e)
  PROVE  IsSole(R, Append(ns, y), Drawn(st))
<1>1. PICK src, level : Built(R, ns, st, src, level) /\ Sole(R, ns, st, src)
  BY DEF IsSole
<1>2. Head(Last(st).entries) \in R.keep
  BY <1>1, OthersWait
<1>3. PICK s, l : /\ Built(R, Append(ns, y), Drawn(st), s, l)
                  /\ IsEnlarged(ns, src, level, Append(ns, y), s, l, e, Last(st).node)
  BY <1>1, <1>2, BuiltFile
<1>4. Sole(R, Append(ns, y), Drawn(st), s)
  BY <1>1, <1>3, SoleAdded
<1>5. QED
  BY <1>3, <1>4 DEF IsSole

(* The first of sequences that are joined.                                 *)
LEMMA FirstOfTwo ==
  ASSUME NEW X, NEW a \in Seq(X), NEW b \in Seq(X)
  PROVE  /\ a \o b \in Seq(X)
         /\ a # <<>> => a \o b # <<>> /\ (a \o b)[1] = a[1]
         /\ a = <<>> => a \o b = b
<1>1. /\ a \o b \in Seq(X) /\ Len(a \o b) = Len(a) + Len(b)
      /\ \A i \in 1..(Len(a) + Len(b)) :
           (a \o b)[i] = IF i <= Len(a) THEN a[i] ELSE b[i - Len(a)]
  BY ConcatProperties
<1>2. Len(a) \in Nat /\ Len(b) \in Nat
  BY LenProperties
<1>3. ASSUME a # <<>> PROVE a \o b # <<>> /\ (a \o b)[1] = a[1]
  <2>1. Len(a) # 0
    BY <1>3, EmptySeq
  <2>2. 1 \in 1..(Len(a) + Len(b)) /\ 1 <= Len(a) /\ Len(a) + Len(b) # 0
    BY <1>2, <2>1
  <2>3. Len(<<>>) = 0
    OBVIOUS
  <2>4. QED
    BY <1>1, <2>2, <2>3
<1>4. a = <<>> => a \o b = b
  BY ConcatEmptySeq
<1>5. QED
  BY <1>1, <1>3, <1>4
FirstOf(g, a, b, c, d) ==
  /\ g # <<>> <=> a # <<>> \/ b # <<>> \/ c # <<>> \/ d # <<>>
  /\ g # <<>> => g[1] = IF a # <<>> THEN a[1] ELSE IF b # <<>> THEN b[1]
                        ELSE IF c # <<>> THEN c[1] ELSE d[1]
LEMMA FirstOfFour ==
  ASSUME NEW X, NEW a \in Seq(X), NEW b \in Seq(X), NEW c \in Seq(X), NEW d \in Seq(X)
  PROVE  FirstOf(a \o b \o c \o d, a, b, c, d)
<1> DEFINE e == a \o b
           f == e \o c
<1>1. /\ e \in Seq(X)
      /\ a # <<>> => e # <<>> /\ e[1] = a[1]
      /\ a = <<>> => e = b
  BY FirstOfTwo
<1> HIDE DEF e
<1>2. /\ f \in Seq(X)
      /\ e # <<>> => f # <<>> /\ f[1] = e[1]
      /\ e = <<>> => f = c
  BY <1>1, FirstOfTwo
<1> HIDE DEF f
<1>3. /\ f \o d \in Seq(X)
      /\ f # <<>> => f \o d # <<>> /\ (f \o d)[1] = f[1]
      /\ f = <<>> => f \o d = d
  BY <1>2, FirstOfTwo
<1>4. f \o d = a \o b \o c \o d
  BY DEF e, f
<1> DEFINE g == f \o d
<1>5. g = a \o b \o c \o d
  BY <1>4
<1> HIDE DEF g
<1>6. /\ g \in Seq(X) /\ (g # <<>> <=> a # <<>> \/ b # <<>> \/ c # <<>> \/ d # <<>>)
      /\ g # <<>> => g[1] = IF a # <<>> THEN a[1] ELSE IF b # <<>> THEN b[1]
                            ELSE IF c # <<>> THEN c[1] ELSE d[1]
  BY <1>1, <1>2, <1>3 DEF g
<1>7. QED
  BY <1>5, <1>6 DEF FirstOf

-----------------------------------------------------------------------------
(* A single sequence is all there is.                                      *)
LEMMA FlattenOne ==
  ASSUME NEW X, NEW seqs \in Seq(Seq(X)), Len(seqs) = 1
  PROVE  FlattenSeq(seqs) = seqs[1]
<1>1. PICK f : Joins(f, 1, X, seqs) /\ FlattenSeq(seqs) = f[1]
  BY Flattening
<1>2. seqs[1] \in Seq(X)
  BY ElementOfSeq
<1>3. f[0] = <<>> /\ f[1] = f[0] \o seqs[1]
  <2>1. 1 \in 1..1 /\ 1 - 1 = 0
    OBVIOUS
  <2>2. QED
    BY <1>1, <2>1 DEF Joins
<1>4. QED
  BY <1>1, <1>2, <1>3, ConcatEmptySeq

(* The first of a sequence that is not empty.                              *)
LEMMA FirstElement ==
  ASSUME NEW X, NEW s \in Seq(X), s # <<>>
  PROVE  Head(s) = s[1] /\ Head(s) \in X /\ Head(s) \in ToSet(s) /\ 1 \in 1..Len(s)
<1>1. Len(s) \in Nat /\ Len(s) # 0
  BY EmptySeq, LenProperties
<1>2. 1 \in 1..Len(s) /\ Head(s) = s[1]
  BY <1>1
<1>3. QED
  BY <1>2, ElementsOf, ElementOfSeq

(* The elements of a sequence to which one is appended.                    *)
LEMMA AppendedSet ==
  ASSUME NEW X, NEW s \in Seq(X), NEW x \in X
  PROVE  ToSet(Append(s, x)) = ToSet(s) \cup {x}
<1> DEFINE t == Append(s, x)
<1>1. /\ t \in Seq(X) /\ Len(t) = Len(s) + 1 /\ Len(s) \in Nat
      /\ \A i \in 1..Len(s) : t[i] = s[i]
      /\ t[Len(s) + 1] = x
  BY AppendProperties, LenProperties
<1> HIDE DEF t
<1>2. \A i : i \in 1..Len(t) <=> i \in 1..Len(s) \/ i = Len(t)
  BY <1>1
<1>3. \A y : y \in ToSet(t) <=> \E i \in 1..Len(t) : t[i] = y
  BY <1>1, ElementsOf
<1>4. \A y : y \in ToSet(s) <=> \E i \in 1..Len(s) : s[i] = y
  BY ElementsOf
<1>5. \A y : y \in ToSet(t) <=> y \in ToSet(s) \/ y = x
  BY <1>1, <1>2, <1>3, <1>4
<1>6. QED
  BY <1>5 DEF t

(* A file of one block.                                                    *)
LEMMA OneBlock ==
  ASSUME NEW size, size \in Nat, NEW block, block \in Nat \ {0}
  PROVE  (size + (block - 1)) \div block = 1 <=> size \in 1..block
<1> DEFINE n == size + (block - 1)
           q == n \div block
           r == n % block
<1>1. n \in Nat /\ q \in Int /\ r \in 0..(block - 1) /\ n = block * q + r
  OBVIOUS
<1>2. q >= 2 => block * q >= block * 2
  BY <1>1
<1>3. q <= 0 => block * q <= 0
  BY <1>1
<1>4. q = 1 => block * q = block
  BY <1>1
<1> HIDE DEF q, r
<1>5. q = 1 <=> n >= block /\ n < block * 2
  BY <1>1, <1>2, <1>3, <1>4
<1>6. QED
  BY <1>5 DEF q
=============================================================================
