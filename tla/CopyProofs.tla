----------------------------- MODULE CopyProofs -----------------------------
(***************************************************************************)
(* Proofs about the two loops that copy files out of the image.            *)
(*                                                                         *)
(* Extract, for every tree, host file system, chunk size and image: types, *)
(* confinement to the output directory, that nothing on the host is        *)
(* removed or changes its kind, that every file written is intact except   *)
(* possibly the last, that what the tree does not name is untouched and    *)
(* that an extraction that returns Ok has mirrored the tree.               *)
(*                                                                         *)
(* CatNode, for every chunk size, image and node: the type invariant, the  *)
(* prefix property, the bounds of the reads, and that the chunked loop     *)
(* implements the abstract copy of module Stream.                          *)
(***************************************************************************)
EXTENDS CatNode, Extract, Lemmas

Inv == TypeOK /\ Bookkeeping /\ FilesIntact

-----------------------------------------------------------------------------
(* The operators Extract is built from.                                    *)

(* The node of a call is a node of the tree, with the types the tree has.  *)
LEMMA CallType ==
  ASSUME tree \in Trees, NEW t \in Call(tree)
  PROVE  /\ t.here \in Path
         /\ tree.kids[t.node] \in Seq(DOMAIN tree.kids)
         /\ tree.is_directory[t.node] \in BOOLEAN
         /\ tree.name[t.node] \in Seq(Part)
         /\ tree.file_location[t.node] \in Nat \cup {NoValue}
         /\ tree.file_length[t.node] \in Nat \cup {NoValue}
BY TreesAssumption DEF IsTree, Call

(* A file's range is a place and a length.                                 *)
LEMMA RangeType ==
  ASSUME tree \in Trees, NEW t \in Call(tree), HasRange(t.node)
  PROVE  FileRange(t)[1] \in Nat /\ FileRange(t)[2] \in Nat
BY CallType, NoValueAssumption DEF HasRange, FileRange

(* A name validate_entry_name accepts leads to a path one component below. *)
LEMMA JoinValid ==
  ASSUME NEW here \in Path, NEW name \in Seq(Part), ValidName(name)
  PROVE  /\ Join(here, name) \in Path
         /\ Len(Join(here, name)) = Len(here) + 1
         /\ \A i \in 1..Len(here) : Join(here, name)[i] = here[i]
         /\ Join(here, name)[Len(here) + 1] = name[1]
<1>1. Len(name) = 1
  BY DEF ValidName
<1>2. Join(here, name) = here \o name
  BY <1>1 DEF Join
<1>3. Len(here) \in Nat
  BY LenProperties DEF Path
<1>4. /\ here \o name \in Seq(Part)
      /\ Len(here \o name) = Len(here) + Len(name)
      /\ \A i \in 1..(Len(here) + Len(name)) : (here \o name)[i] =
           IF i <= Len(here) THEN here[i] ELSE name[i - Len(here)]
  BY ConcatProperties DEF Path
<1>5. QED
  BY <1>1, <1>2, <1>3, <1>4 DEF Path

(* A name that safe_join accepts stays inside the output directory.        *)
LEMMA TargetInside ==
  ASSUME tree \in Trees, NEW t \in Call(tree), Inside(t.here), SafeJoin(t)
  PROVE  Target(t) \in Path /\ Inside(Target(t))
<1> DEFINE name == tree.name[t.node]
<1>1. t.here \in Path /\ name \in Seq(Part) /\ ValidName(name)
  BY CallType DEF SafeJoin
<1>2. /\ Target(t) \in Path
      /\ Len(Target(t)) = Len(t.here) + 1
      /\ \A i \in 1..Len(t.here) : Target(t)[i] = t.here[i]
      /\ Target(t)[Len(t.here) + 1] = name[1]
  BY <1>1, JoinValid DEF Target
<1>3. name[1] \notin {"", ".", ".."} \cup Unusable
  BY <1>1 DEF ValidName
<1>4. StartsWith(Target(t), OutDir)
  BY DEF SafeJoin
<1>5. Len(t.here) \in Nat /\ Len(OutDir) \in Nat
  BY <1>1, PartAssumption, LenProperties DEF Path
<1>6. ASSUME NEW i \in (Len(OutDir) + 1)..Len(Target(t))
      PROVE  Target(t)[i] \notin {"", ".", ".."} \cup Unusable
  <2>1. CASE i = Len(t.here) + 1
    BY <2>1, <1>2, <1>3
  <2>2. CASE i # Len(t.here) + 1
    <3>1. i \in 1..Len(t.here) /\ i \in (Len(OutDir) + 1)..Len(t.here)
      BY <2>2, <1>2, <1>5
    <3>2. t.here[i] \notin {"", ".", ".."} \cup Unusable
      BY <3>1 DEF Inside
    <3>3. Target(t)[i] = t.here[i]
      BY <3>1, <1>2
    <3>4. QED
      BY <3>2, <3>3
  <2>3. QED
    BY <2>1, <2>2
<1>7. QED
  BY <1>2, <1>4, <1>6 DEF Inside

(* The ancestors of a target are the target and those of its directory.    *)
LEMMA AncestorsOfTarget ==
  ASSUME tree \in Trees, NEW t \in Call(tree), SafeJoin(t)
  PROVE  Ancestors(Target(t)) \subseteq Ancestors(t.here) \cup {Target(t)}
<1> DEFINE here == t.here
           name == tree.name[t.node]
           path == here \o name
<1>1. here \in Seq(Part) /\ name \in Seq(Part) /\ Len(name) = 1
  BY CallType DEF SafeJoin, ValidName, Path
<1>2. Target(t) = path
  BY <1>1 DEF Target, Join
<1> HIDE DEF here, name
<1>3. /\ path \in Seq(Part) /\ Len(path) = Len(here) + 1 /\ Len(here) \in Nat
  BY <1>1, ConcatProperties, LenProperties
<1>4. ASSUME NEW i \in 0..Len(path)
      PROVE  SubSeq(path, 1, i) \in Ancestors(here) \cup {path}
  <2>1. CASE i = 0
    <3>1. SubSeq(path, 1, i) = <<>> /\ SubSeq(here, 1, i) = <<>>
      BY <2>1, SubSeqEmpty
    <3>2. i \in 0..Len(here)
      BY <2>1, <1>3
    <3>3. QED
      BY <3>1, <3>2 DEF Ancestors
  <2>2. CASE i \in 1..Len(here)
    <3>1. SubSeq(path, 1, i) = SubSeq(here, 1, i)
      <4>1. 1 \in 1..Len(here)
        BY <2>2, <1>3
      <4>2. QED
        BY <1>1, <2>2, <4>1, SubSeqOfConcat1
    <3>2. i \in 0..Len(here)
      BY <2>2, <1>3
    <3>3. QED
      BY <3>1, <3>2 DEF Ancestors
  <2>3. CASE i = Len(path)
    BY <1>3, <2>3, SubSeqFull
  <2>4. QED
    BY <1>3, <2>1, <2>2, <2>3
<1>5. QED
  BY <1>2, <1>4 DEF Ancestors, here

(* The output directory is inside itself.                                  *)
LEMMA OutDirInside == Inside(OutDir) /\ OutDir \in Path
<1>1. Len(OutDir) \in Nat
  BY PartAssumption, LenProperties
<1>2. StartsWith(OutDir, OutDir)
  BY <1>1 DEF StartsWith
<1>3. (Len(OutDir) + 1)..Len(OutDir) = {}
  BY <1>1
<1>4. QED
  BY <1>2, <1>3, PartAssumption DEF Inside, Path

(* What lies above a path are paths.                                       *)
LEMMA AncestorsArePaths ==
  ASSUME NEW path \in Path
  PROVE  Ancestors(path) \subseteq Path
<1>1. Len(path) \in Nat /\ \A x \in 1..Len(path) : path[x] \in Part
  BY LenProperties, ElementOfSeq DEF Path
<1>2. ASSUME NEW i \in 0..Len(path)
      PROVE  SubSeq(path, 1, i) \in Seq(Part)
  <2>1. \A x \in 1..i : path[x] \in Part
    BY <1>1
  <2>2. 1 \in Int /\ i \in Int
    BY <1>1
  <2>3. QED
    BY <2>1, <2>2, SubSeqProperties
<1>3. QED
  BY <1>2 DEF Ancestors, Path

(* What is above a directory above the path is above the path.             *)
LEMMA AncestorsOfAncestor ==
  ASSUME NEW path \in Path, NEW made \in Ancestors(path)
  PROVE  Ancestors(made) \subseteq Ancestors(path)
<1>1. Len(path) \in Nat /\ path \in Seq(Part)
  BY LenProperties DEF Path
<1>2. PICK i \in 0..Len(path) : made = SubSeq(path, 1, i)
  BY DEF Ancestors
<1>3. Len(made) = i /\ \A x \in 1..i : made[x] = path[x]
  BY <1>1, <1>2, SubSeqProperties, ElementOfSeq
<1>4. ASSUME NEW j \in 0..Len(made)
      PROVE  SubSeq(made, 1, j) = SubSeq(path, 1, j)
  BY <1>1, <1>2, <1>3
<1>5. QED
  BY <1>1, <1>2, <1>3, <1>4 DEF Ancestors

(* Making directories adds them and keeps every entry that is there.       *)
LEMMA WithDirsProperties ==
  ASSUME IsFileSystem(host), NEW path \in Path
  PROVE  /\ IsFileSystem(WithDirs(path))
         /\ DOMAIN host \subseteq DOMAIN WithDirs(path)
         /\ \A p \in DOMAIN host : WithDirs(path)[p] = host[p]
         /\ Ancestors(path) \subseteq DOMAIN WithDirs(path)
         /\ \A p \in DOMAIN WithDirs(path) : p \notin DOMAIN host =>
              p \in Ancestors(path) /\ WithDirs(path)[p] = Dir
<1>1. Dir \in Entry
  BY EmptySeq DEF Dir, Entry
<1>2. DOMAIN WithDirs(path) = DOMAIN host \cup Ancestors(path)
  BY DEF WithDirs
<1>3. \A p \in DOMAIN WithDirs(path) :
        WithDirs(path)[p] = IF p \in DOMAIN host THEN host[p] ELSE Dir
  BY DEF WithDirs
<1>4. WithDirs(path) \in [DOMAIN WithDirs(path) -> Entry]
  BY <1>1 DEF WithDirs, IsFileSystem
<1>5. DOMAIN WithDirs(path) \subseteq Path
  BY <1>2, AncestorsArePaths DEF IsFileSystem
<1>6. QED
  BY <1>2, <1>3, <1>4, <1>5 DEF IsFileSystem

(* Writing a file changes that entry only.                                 *)
LEMMA WithFileProperties ==
  ASSUME IsFileSystem(host), NEW path \in Path, NEW bytes \in Seq(Nat)
  PROVE  /\ IsFileSystem(WithFile(path, bytes))
         /\ DOMAIN WithFile(path, bytes) = DOMAIN host \cup {path}
         /\ WithFile(path, bytes)[path] = File(bytes)
         /\ \A p \in DOMAIN host : p # path =>
              WithFile(path, bytes)[p] = host[p]
<1>1. bytes \in Seq(Byte)
  BY SeqMonotonic, Nat \subseteq Byte DEF Byte
<1>2. File(bytes) \in Entry
  BY <1>1 DEF File, Entry
<1>3. QED
  BY <1>2 DEF WithFile, IsFileSystem

(* The calls for the children of a directory: one for each, in it.         *)
LEMMA CallsProperties ==
  ASSUME tree \in Trees, NEW nodes \in Seq(DOMAIN tree.kids),
         NEW here \in Path
  PROVE  /\ Calls(nodes, here) \in Seq(Call(tree))
         /\ Len(Calls(nodes, here)) = Len(nodes)
         /\ \A i \in 1..Len(nodes) : /\ Calls(nodes, here)[i].here = here
                                    /\ Calls(nodes, here)[i].node = nodes[i]
<1> DEFINE c == Calls(nodes, here)
<1>1. Len(nodes) \in Nat /\ \A i \in 1..Len(nodes) : nodes[i] \in DOMAIN tree.kids
  BY LenProperties, ElementOfSeq
<1>2. c \in [1..Len(nodes) -> Call(tree)]
  BY <1>1 DEF Calls, Call
<1>3. c \in Seq(Call(tree))
  BY <1>1, <1>2, SeqDef
<1>4. Len(c) = Len(nodes)
  BY <1>1, <1>2, <1>3, LenProperties
<1>5. \A i \in 1..Len(nodes) : c[i].here = here /\ c[i].node = nodes[i]
  BY DEF Calls
<1>6. QED
  BY <1>3, <1>4, <1>5

(* While a file is copied, its range and the host have their types, and    *)
(* the bytes a write adds continue the span written so far.                *)
LEMMA CopyFacts ==
  ASSUME TypeOK, Bookkeeping, pc \in {"read", "write"}
  PROVE  /\ FileRange(task)[1] \in Nat /\ FileRange(task)[2] \in Nat
         /\ Len(log) \in Nat /\ Len(log) \in 1..Len(log)
         /\ Target(task) \in DOMAIN host /\ Target(task) \in Path
         /\ HasRange(task.node)
<1>1. /\ tree \in Trees /\ task \in Call(tree) /\ log \in Seq(Call(tree))
      /\ IsFileSystem(host)
  BY DEF TypeOK
<1>2. Len(log) > 0 /\ log[Len(log)] = task /\ IsFile(task)
  BY DEF Bookkeeping
<1>3. Len(log) \in Nat /\ Len(log) \in 1..Len(log)
  BY <1>1, <1>2, LenProperties
<1>4. HasRange(task.node) /\ Target(task) \in DOMAIN host
  BY <1>2, <1>3 DEF Bookkeeping
<1>5. QED
  BY <1>1, <1>3, <1>4, RangeType DEF IsFileSystem

(* A write of part of a chunk leaves a longer prefix of the range.         *)
LEMMA CopiedProperties ==
  ASSUME TypeOK, Bookkeeping, pc = "write", NEW n \in 0..Len(buffer)
  PROVE  LET loc == FileRange(task)[1]
             written == FileRange(task)[2] - remaining
         IN  /\ written \in Nat /\ Len(buffer) \in Nat
             /\ Len(buffer) <= remaining /\ remaining \in Nat
             /\ Span(loc, written + n) \in Seq(Nat)
             /\ Copied(Target(task), n)
                  = WithFile(Target(task), Span(loc, written + n))
<1> DEFINE loc == FileRange(task)[1]
           written == FileRange(task)[2] - remaining
           b == Len(buffer)
           at == loc + written
<1>1. /\ loc \in Nat /\ written \in Nat /\ b \in Nat /\ n \in Nat /\ n <= b
      /\ remaining \in Nat /\ at \in Nat /\ written + n \in Nat
  <2>1. /\ loc \in Nat /\ FileRange(task)[2] \in Nat
        /\ remaining \in Nat /\ buffer \in Seq(Nat)
    BY CopyFacts DEF TypeOK
  <2>2. b \in Nat
    BY <2>1, LenProperties
  <2>3. remaining <= FileRange(task)[2]
    BY DEF Bookkeeping
  <2>4. n \in Nat /\ n <= b
    BY <2>2
  <2> HIDE DEF b, loc
  <2>5. QED
    BY <2>1, <2>2, <2>3, <2>4
<1>2. /\ Holds(task, written)
      /\ buffer = Span(at, b) /\ b <= remaining
  BY DEF Bookkeeping
<1>3. 1 \in 1..(b + 1) /\ n \in (1 - 1)..b
  BY <1>1
<1>4. at + 1 - 1 = at /\ n - 1 + 1 = n
  BY <1>1
<1> HIDE DEF b, at
<1>5. SubSeq(Span(at, b), 1, n) = Span(at + 1 - 1, n - 1 + 1)
  BY <1>1, <1>3, SpanSubSeq
<1>6. SubSeq(buffer, 1, n) = Span(at, n)
  BY <1>2, <1>4, <1>5
<1> HIDE DEF loc, written
<1>7. Span(loc, written) \o Span(loc + written, n) = Span(loc, written + n)
  BY <1>1, SpanConcat
<1>8. host[Target(task)].bytes = Span(loc, written)
  BY <1>2 DEF File, Holds, loc, written
<1>9. Copied(Target(task), n) = WithFile(Target(task), Span(loc, written + n))
  BY <1>6, <1>7, <1>8 DEF Copied, at
<1>10. Span(loc, written + n) \in Seq(Nat)
  BY <1>1, SpanProperties
<1>11. QED
  BY <1>1, <1>2, <1>9, <1>10 DEF loc, written, b

-----------------------------------------------------------------------------
(* The invariant, action by action.                                        *)

(* Every action keeps the invariant.                                       *)
LEMMA InitInv == Init => Inv
<1> SUFFICES ASSUME Init
             PROVE  Inv
  OBVIOUS
<1>1. Len(<<>>) = 0 /\ \A S : <<>> \in Seq(S)
  BY EmptySeq
<1>2. TypeOK
  <2>1. task \in Call(tree)
    BY OutDirInside, TreesAssumption DEF Init, Call, IsTree
  <2>2. todo \in Seq(Call(tree)) /\ log \in Seq(Call(tree)) /\ buffer \in Seq(Nat)
    BY EmptySeq DEF Init
  <2>3. QED
    BY <2>1, <2>2, HostsAssumption DEF Init, TypeOK
<1>3. Bookkeeping
  BY <1>1 DEF Init, Bookkeeping
<1>4. FilesIntact
  BY <1>1 DEF Init, FilesIntact
<1>5. QED
  BY <1>2, <1>3, <1>4 DEF Inv

(* Returning, or closing a file, leaves the host as it is.                 *)
LEMMA SameHostInv ==
  ASSUME Inv,
         UNCHANGED host, UNCHANGED walkVars, UNCHANGED copyVars,
         \/ pc # "done" /\ Fail
         \/ pc = "walk" /\ pc' = "done" /\ result' = "Ok"
         \/ pc = "read" /\ remaining = 0 /\ pc' = "walk" /\ UNCHANGED result
  PROVE  Inv'
<1> USE DEF walkVars, copyVars, Fail
<1>1. TypeOK'
  BY DEF Inv, TypeOK, Call
<1>2. Bookkeeping'
  BY DEF Inv, Bookkeeping, Inside, Ancestors, IsFile, HasRange, Target,
         FileRange, Holds
<1>3. FilesIntact'
  <2>1. SUFFICES ASSUME NEW i \in 1..Len(log), IsFile(log[i]), ~Superseded(i)
                 PROVE  /\ Target(log[i]) \in DOMAIN host
                        /\ \E k \in 0..FileRange(log[i])[2] : Holds(log[i], k)
                        /\ i < Len(log) \/ pc' = "walk" \/ result' = "Ok" =>
                             Holds(log[i], FileRange(log[i])[2])
    BY DEF FilesIntact, IsFile, Superseded, Target, FileRange, Holds
  <2> DEFINE len == FileRange(log[i])[2]
  <2>2. /\ Target(log[i]) \in DOMAIN host
        /\ \E k \in 0..len : Holds(log[i], k)
        /\ i < Len(log) \/ pc = "walk" \/ result = "Ok" => Holds(log[i], len)
    BY <2>1 DEF Inv, FilesIntact
  <2>3. CASE pc = "read" /\ remaining = 0 /\ pc' = "walk" /\ UNCHANGED result
    <3>1. SUFFICES ASSUME ~(i < Len(log))
                   PROVE  Holds(log[i], len)
      BY <2>2
    <3>2. i = Len(log) /\ log[i] = task
      BY <2>3, <3>1, LenProperties DEF Inv, TypeOK, Bookkeeping
    <3>3. Holds(log[i], len - remaining)
      BY <2>3, <3>2 DEF Inv, Bookkeeping
    <3>4. len \in Nat
      BY <2>3, <3>2, CopyFacts DEF Inv
    <3>5. len - remaining = len
      BY <2>3, <3>4
    <3>6. QED
      BY <3>3, <3>5
  <2>4. CASE pc = "walk" /\ pc' = "done" /\ result' = "Ok"
    BY <2>2, <2>4
  <2>5. CASE pc # "done" /\ Fail
    <3>1. pc' # "walk" /\ result' # "Ok"
      BY <2>5
    <3>2. QED
      BY <2>2, <3>1
  <2>6. QED
    BY <2>3, <2>4, <2>5
<1>4. QED
  BY <1>1, <1>2, <1>3 DEF Inv

(* A directory made or a file opened leaves every earlier file complete,   *)
(* unless the new entry takes its place.                                   *)
LEMMA EarlierFiles ==
  ASSUME Inv, pc = "walk", tree' = tree,
         NEW t \in Call(tree), log' = Append(log, t),
         DOMAIN host \subseteq DOMAIN host',
         \A p \in DOMAIN host : p # Target(t) => host'[p] = host[p]
  PROVE  /\ Len(log) \in Nat /\ log' \in Seq(Call(tree))
         /\ Len(log') = Len(log) + 1 /\ log'[Len(log) + 1] = t
         /\ \A i \in 1..Len(log) :
              /\ log'[i] = log[i]
              /\ IsFile(log[i]) => HasRange(log[i].node)
              /\ IsFile(log[i]) => Target(log[i]) \in DOMAIN host'
              /\ IsFile(log[i]) /\ (~Superseded(i))' =>
                   /\ FileRange(log[i])[2] \in Nat
                   /\ host'[Target(log[i])] =
                        File(Span(FileRange(log[i])[1], FileRange(log[i])[2]))
<1>1. /\ log \in Seq(Call(tree)) /\ tree \in Trees
  BY DEF Inv, TypeOK
<1>2. /\ Len(log) \in Nat /\ log' \in Seq(Call(tree))
      /\ Len(log') = Len(log) + 1 /\ log'[Len(log) + 1] = t
      /\ \A i \in 1..Len(log) : log'[i] = log[i]
  BY <1>1, AppendProperties, LenProperties
<1>3. ASSUME NEW i \in 1..Len(log), IsFile(log[i])
      PROVE  /\ HasRange(log[i].node)
             /\ Target(log[i]) \in DOMAIN host'
             /\ FileRange(log[i])[2] \in Nat
  <2>1. HasRange(log[i].node) /\ Target(log[i]) \in DOMAIN host
    BY <1>3 DEF Inv, Bookkeeping
  <2>2. log[i] \in Call(tree)
    BY <1>1, ElementOfSeq
  <2>3. QED
    BY <1>1, <2>1, <2>2, RangeType
<1>4. ASSUME NEW i \in 1..Len(log), IsFile(log[i]), (~Superseded(i))'
      PROVE  host'[Target(log[i])] =
               File(Span(FileRange(log[i])[1], FileRange(log[i])[2]))
  <2>1. /\ Len(log) + 1 \in (i + 1)..Len(log')
        /\ (i + 1)..Len(log) \subseteq (i + 1)..Len(log')
        /\ (i + 1)..Len(log) \subseteq 1..Len(log)
    BY <1>2
  <2>2. \A j \in (i + 1)..Len(log') : Target(log'[j]) # Target(log[i])
    BY <1>2, <1>4 DEF Superseded, Target
  <2>3. Target(t) # Target(log[i])
    BY <1>2, <2>1, <2>2
  <2>4. ~Superseded(i)
    BY <1>2, <2>1, <2>2 DEF Superseded
  <2>5. Target(log[i]) \in DOMAIN host /\ Holds(log[i], FileRange(log[i])[2])
    BY <1>4, <2>4 DEF Inv, FilesIntact
  <2>6. QED
    BY <2>3, <2>5 DEF Holds
<1>5. QED
  BY <1>2, <1>3, <1>4

LEMMA PrepareInv ==
  ASSUME Inv, Prepare
  PROVE  Inv'
<1>1. /\ tree \in Trees /\ IsFileSystem(host) /\ log \in Seq(Call(tree))
  BY DEF Inv, TypeOK
<1>2. PICK nodes \in Seq(DOMAIN tree.kids) : todo' = Calls(nodes, OutDir)
  <2>1. tree.top \in DOMAIN tree.kids
    BY <1>1, TreesAssumption DEF IsTree
  <2>2. tree.kids[tree.top] \in Seq(DOMAIN tree.kids)
    BY <1>1, <2>1, TreesAssumption DEF IsTree
  <2> DEFINE Node == DOMAIN tree.kids
             n == tree.top
  <2>3. <<tree.top>> \in Seq(DOMAIN tree.kids)
    <3>1. SUFFICES <<n>> \in Seq(Node)
      OBVIOUS
    <3>2. n \in Node
      BY <2>1
    <3> HIDE DEF n, Node
    <3>3. QED
      BY <3>2
  <2>4. QED
    BY <2>2, <2>3 DEF Prepare, DirMade, TopLevel
<1>3. /\ todo' \in Seq(Call(tree)) /\ Len(todo') = Len(nodes)
      /\ \A i \in 1..Len(nodes) : todo'[i].here = OutDir
  BY <1>1, <1>2, OutDirInside, CallsProperties
<1>4. /\ IsFileSystem(host') /\ DOMAIN host \subseteq DOMAIN host'
      /\ Ancestors(OutDir) \subseteq DOMAIN host'
      /\ \A p \in DOMAIN host : host'[p] = host[p]
  BY <1>1, OutDirInside, WithDirsProperties DEF Prepare, DirMade
<1>5. TypeOK'
  BY <1>3, <1>4 DEF Inv, TypeOK, Prepare, DirMade, copyVars, Call
<1>6. Bookkeeping'
  <2>1. \A i \in 1..Len(todo') : /\ Inside(todo'[i].here)
                                  /\ Ancestors(todo'[i].here) \subseteq DOMAIN host'
    BY <1>3, <1>4, OutDirInside
  <2>2. QED
    BY <1>4, <2>1 DEF Inv, Bookkeeping, Prepare, DirMade, copyVars, Inside, Ancestors,
                      IsFile, HasRange, Target
<1>7. FilesIntact'
  <2>1. log' = <<>>
    BY DEF Inv, Bookkeeping, Prepare, DirMade
  <2>2. QED
    BY <2>1, EmptySeq DEF FilesIntact
<1>8. QED
  BY <1>5, <1>6, <1>7 DEF Inv

(* A failing preparation leaves some of the output directory's ancestors.  *)
LEMMA PrepareFailsInv ==
  ASSUME Inv, PrepareFails
  PROVE  Inv'
<1>1. CASE UNCHANGED host
  BY <1>1, SameHostInv DEF PrepareFails
<1>2. CASE \E made \in Ancestors(OutDir) : host' = WithDirs(made)
  <2>1. PICK made \in Ancestors(OutDir) : host' = WithDirs(made)
    BY <1>2
  <2>2. made \in Path
    BY OutDirInside, AncestorsArePaths
  <2>3. IsFileSystem(host)
    BY DEF Inv, TypeOK
  <2>4. /\ IsFileSystem(host') /\ DOMAIN host \subseteq DOMAIN host'
        /\ \A p \in DOMAIN host : host'[p] = host[p]
    BY <2>1, <2>2, <2>3, WithDirsProperties
  <2>5. TypeOK'
    BY <2>4 DEF Inv, TypeOK, PrepareFails, Fail, walkVars, copyVars, Call
  <2>6. /\ pc' = "done" /\ result' = "Err"
        /\ log' = <<>> /\ Len(log') = 0 /\ todo' = todo
    BY EmptySeq DEF Inv, Bookkeeping, PrepareFails, Fail, walkVars
  <2>7. Bookkeeping' /\ FilesIntact'
    <3>1. \A i \in 1..Len(todo') :
            /\ Inside(todo'[i].here)
            /\ Ancestors(todo'[i].here) \subseteq DOMAIN host'
      BY <2>4, <2>6 DEF Inv, Bookkeeping
    <3>2. Bookkeeping'
      <4>1. (\A i \in 1..Len(log) : IsFile(log[i]) =>
               HasRange(log[i].node) /\ Target(log[i]) \in DOMAIN host)'
        <5>1. 1..Len(log') = {}
          BY <2>6
        <5>2. QED
          BY <5>1
      <4>2. ~(pc' \in {"read", "write"}) /\ pc' # "prepare"
        BY <2>6
      <4>3. (pc = "done" <=> result # "none")'
        BY <2>6
      <4>4. QED
        BY <3>1, <4>1, <4>2, <4>3 DEF Bookkeeping, Inside, Ancestors
    <3>3. FilesIntact'
      BY <2>6 DEF FilesIntact
    <3>4. QED
      BY <3>2, <3>3
  <2>8. QED
    BY <2>5, <2>7 DEF Inv
<1>3. QED
  BY <1>1, <1>2 DEF PrepareFails

(* The rest of the work list keeps its directories.                        *)
LEMMA RestOfList ==
  ASSUME Inv, todo # <<>>
  PROVE  /\ Head(todo) \in Call(tree) /\ Inside(Head(todo).here)
         /\ Ancestors(Head(todo).here) \subseteq DOMAIN host
         /\ Tail(todo) \in Seq(Call(tree)) /\ Len(Tail(todo)) \in Nat
         /\ \A i \in 1..Len(Tail(todo)) :
              /\ Inside(Tail(todo)[i].here)
              /\ Ancestors(Tail(todo)[i].here) \subseteq DOMAIN host
<1>1. todo \in Seq(Call(tree))
  BY DEF Inv, TypeOK
<1>2. /\ Head(todo) \in Call(tree) /\ Head(todo) = todo[1]
      /\ Tail(todo) \in Seq(Call(tree)) /\ Len(Tail(todo)) = Len(todo) - 1
      /\ \A i \in 1..Len(Tail(todo)) : Tail(todo)[i] = todo[i + 1]
      /\ Len(todo) \in Nat /\ Len(todo) > 0
  BY <1>1, HeadTailProperties, EmptySeq, LenProperties
<1>3. \A i \in 1..Len(todo) :
        Inside(todo[i].here) /\ Ancestors(todo[i].here) \subseteq DOMAIN host
  BY DEF Inv, Bookkeeping
<1>4. 1 \in 1..Len(todo)
  BY <1>2
<1>5. \A i \in 1..Len(Tail(todo)) : i + 1 \in 1..Len(todo)
  BY <1>2
<1>6. QED
  BY <1>2, <1>3, <1>4, <1>5

LEMMA EnterDirectoryInv ==
  ASSUME Inv, EnterDirectory
  PROVE  Inv'
<1> DEFINE t == Head(todo)
           c == Calls(tree.kids[t.node], Target(t))
<1>1. /\ tree \in Trees /\ IsFileSystem(host)
      /\ pc = "walk" /\ todo # <<>> /\ SafeJoin(t) /\ tree.is_directory[t.node]
      /\ host' = WithDirs(Target(t))
      /\ todo' = c \o Tail(todo) /\ log' = Append(log, t)
      /\ UNCHANGED <<tree, before, pc, task, result>> /\ UNCHANGED copyVars
  BY DEF Inv, TypeOK, EnterDirectory, DirMade
<1>2. /\ t \in Call(tree) /\ Inside(t.here)
      /\ Tail(todo) \in Seq(Call(tree)) /\ Len(Tail(todo)) \in Nat
      /\ \A i \in 1..Len(Tail(todo)) :
           /\ Inside(Tail(todo)[i].here)
           /\ Ancestors(Tail(todo)[i].here) \subseteq DOMAIN host
  BY <1>1, RestOfList
<1>3. Target(t) \in Path /\ Inside(Target(t))
  BY <1>1, <1>2, TargetInside
<1>4. /\ IsFileSystem(host') /\ DOMAIN host \subseteq DOMAIN host'
      /\ Ancestors(Target(t)) \subseteq DOMAIN host'
      /\ \A p \in DOMAIN host : host'[p] = host[p]
  BY <1>1, <1>3, WithDirsProperties
<1>5. /\ c \in Seq(Call(tree)) /\ Len(c) \in Nat
      /\ \A i \in 1..Len(c) : c[i].here = Target(t)
  <2>1. tree.kids[t.node] \in Seq(DOMAIN tree.kids)
    BY <1>1, <1>2, CallType
  <2>2. QED
    BY <1>1, <1>3, <2>1, CallsProperties, LenProperties
<1> HIDE DEF t, c
<1>6. /\ Len(log) \in Nat /\ log' \in Seq(Call(tree))
      /\ Len(log') = Len(log) + 1 /\ log'[Len(log) + 1] = t
      /\ \A i \in 1..Len(log) :
           /\ log'[i] = log[i]
           /\ IsFile(log[i]) => HasRange(log[i].node)
           /\ IsFile(log[i]) => Target(log[i]) \in DOMAIN host'
           /\ IsFile(log[i]) /\ (~Superseded(i))' =>
                /\ FileRange(log[i])[2] \in Nat
                /\ host'[Target(log[i])] =
                     File(Span(FileRange(log[i])[1], FileRange(log[i])[2]))
  BY <1>1, <1>2, <1>4, EarlierFiles
<1>7. /\ todo' \in Seq(Call(tree))
      /\ \A i \in 1..Len(todo') :
           /\ Inside(todo'[i].here)
           /\ Ancestors(todo'[i].here) \subseteq DOMAIN host'
  <2>1. /\ todo' \in Seq(Call(tree)) /\ Len(todo') = Len(c) + Len(Tail(todo))
        /\ \A i \in 1..(Len(c) + Len(Tail(todo))) : todo'[i] =
             IF i <= Len(c) THEN c[i] ELSE Tail(todo)[i - Len(c)]
    BY <1>1, <1>2, <1>5, ConcatProperties
  <2>2. ASSUME NEW i \in 1..Len(todo')
        PROVE  /\ Inside(todo'[i].here)
               /\ Ancestors(todo'[i].here) \subseteq DOMAIN host'
    <3>1. CASE i <= Len(c)
      <4>1. i \in 1..Len(c)
        BY <3>1, <1>5
      <4>2. QED
        BY <3>1, <4>1, <2>1, <1>3, <1>4, <1>5
    <3>2. CASE ~(i <= Len(c))
      <4>1. i - Len(c) \in 1..Len(Tail(todo))
        BY <3>2, <2>1, <1>2, <1>5
      <4>2. QED
        BY <3>2, <4>1, <2>1, <1>2, <1>4
    <3>3. QED
      BY <3>1, <3>2
  <2>3. QED
    BY <2>1, <2>2
<1>8. TypeOK'
  BY <1>1, <1>4, <1>6, <1>7 DEF Inv, TypeOK, copyVars, Call
<1>9. \A i \in 1..Len(log') : IsFile(log'[i]) => i \in 1..Len(log) /\ log'[i] = log[i]
  BY <1>1, <1>6 DEF IsFile
<1>10. Bookkeeping'
  <2>1. \A i \in 1..Len(log') : IsFile(log'[i]) =>
          HasRange(log'[i].node) /\ Target(log'[i]) \in DOMAIN host'
    BY <1>6, <1>9
  <2>2. QED
    BY <1>1, <1>7, <2>1
    DEF Inv, Bookkeeping, Inside, Ancestors, IsFile, HasRange, Target
<1>11. FilesIntact'
  <2>1. \A i \in 1..Len(log') : IsFile(log'[i]) /\ (~Superseded(i))' =>
          /\ Target(log'[i]) \in DOMAIN host'
          /\ FileRange(log'[i])[2] \in 0..FileRange(log'[i])[2]
          /\ host'[Target(log'[i])] =
               File(Span(FileRange(log'[i])[1], FileRange(log'[i])[2]))
    BY <1>6, <1>9
  <2>2. QED
    BY <1>1, <2>1 DEF FilesIntact, IsFile, Target, FileRange, Holds
<1>12. QED
  BY <1>8, <1>10, <1>11 DEF Inv

LEMMA OpenFileInv ==
  ASSUME Inv, OpenFile
  PROVE  Inv'
<1> DEFINE t == Head(todo)
           loc == tree.file_location[t.node]
           len == tree.file_length[t.node]
<1>1. /\ tree \in Trees /\ IsFileSystem(host)
      /\ pc = "walk" /\ todo # <<>> /\ SafeJoin(t)
      /\ ~tree.is_directory[t.node] /\ HasRange(t.node)
      /\ host' = WithFile(Target(t), <<>>)
      /\ pos' = loc /\ remaining' = len /\ task' = t
      /\ todo' = Tail(todo) /\ log' = Append(log, t) /\ pc' = "read"
      /\ UNCHANGED <<tree, before, buffer, result>>
  BY DEF Inv, TypeOK, OpenFile, FileMade, Creatable
<1>2. /\ t \in Call(tree) /\ Inside(t.here)
      /\ Tail(todo) \in Seq(Call(tree))
      /\ \A i \in 1..Len(Tail(todo)) :
           /\ Inside(Tail(todo)[i].here)
           /\ Ancestors(Tail(todo)[i].here) \subseteq DOMAIN host
  BY <1>1, RestOfList
<1>3. Target(t) \in Path /\ Inside(Target(t))
  BY <1>1, <1>2, TargetInside
<1>4. /\ FileRange(t) = <<loc, len>> /\ loc \in Nat /\ len \in Nat
  BY <1>1, <1>2, RangeType DEF FileRange
<1>5. /\ IsFileSystem(host') /\ DOMAIN host' = DOMAIN host \cup {Target(t)}
      /\ host'[Target(t)] = File(<<>>)
      /\ \A p \in DOMAIN host : p # Target(t) => host'[p] = host[p]
  <2>1. <<>> \in Seq(Nat)
    BY EmptySeq
  <2>2. QED
    BY <1>1, <1>3, <2>1, WithFileProperties
<1>6. Span(loc, 0) = <<>>
  BY <1>4, SpanEmpty
<1> HIDE DEF t, loc, len
<1>7. /\ Len(log) \in Nat /\ log' \in Seq(Call(tree))
      /\ Len(log') = Len(log) + 1 /\ log'[Len(log) + 1] = t
      /\ \A i \in 1..Len(log) :
           /\ log'[i] = log[i]
           /\ IsFile(log[i]) => HasRange(log[i].node)
           /\ IsFile(log[i]) => Target(log[i]) \in DOMAIN host'
           /\ IsFile(log[i]) /\ (~Superseded(i))' =>
                /\ FileRange(log[i])[2] \in Nat
                /\ host'[Target(log[i])] =
                     File(Span(FileRange(log[i])[1], FileRange(log[i])[2]))
  BY <1>1, <1>2, <1>5, EarlierFiles
<1>8. TypeOK'
  BY <1>1, <1>2, <1>4, <1>5, <1>7 DEF Inv, TypeOK, Call
<1>9. \A i \in 1..Len(log') :
        i \in 1..Len(log) \/ (i = Len(log') /\ log'[i] = t)
  BY <1>7
<1>10. Bookkeeping'
  <2>1. \A i \in 1..Len(log') : IsFile(log'[i]) =>
          HasRange(log'[i].node) /\ Target(log'[i]) \in DOMAIN host'
    BY <1>1, <1>5, <1>7, <1>9
  <2>2. /\ Len(log') > 0 /\ log'[Len(log')] = t
        /\ IsFile(t) /\ Inside(Target(t))
    BY <1>1, <1>3, <1>7 DEF IsFile
  <2>3. /\ remaining' <= len /\ len - remaining' = 0 /\ pos' = loc + 0
        /\ host'[Target(t)] = File(Span(loc, 0))
    BY <1>1, <1>4, <1>5, <1>6
  <2>4. FileRange(t)[1] = loc /\ FileRange(t)[2] = len
    BY <1>4
  <2>5. pc # "done" /\ result = "none"
    BY <1>1 DEF Inv, Bookkeeping
  <2>6. \A i \in 1..Len(todo') : /\ Inside(todo'[i].here)
                                  /\ Ancestors(todo'[i].here) \subseteq DOMAIN host'
    BY <1>1, <1>2, <1>5
  <2>7. QED
    BY <1>1, <2>1, <2>2, <2>3, <2>4, <2>5, <2>6
    DEF Bookkeeping, Inside, Ancestors, IsFile, HasRange, Target, FileRange, Holds
<1>11. FilesIntact'
  <2>1. ASSUME NEW i \in 1..Len(log'), IsFile(log'[i]), (~Superseded(i))'
        PROVE  /\ Target(log'[i]) \in DOMAIN host'
               /\ \E k \in 0..FileRange(log'[i])[2] :
                    host'[Target(log'[i])] = File(Span(FileRange(log'[i])[1], k))
               /\ i < Len(log') => host'[Target(log'[i])] =
                    File(Span(FileRange(log'[i])[1], FileRange(log'[i])[2]))
    <3>1. CASE i \in 1..Len(log)
      <4>1. FileRange(log'[i])[2] \in 0..FileRange(log'[i])[2]
        BY <1>7, <2>1, <3>1
      <4>2. QED
        BY <1>7, <2>1, <3>1, <4>1
    <3>2. CASE i = Len(log') /\ log'[i] = t
      <4>1. FileRange(t)[1] = loc /\ FileRange(t)[2] = len /\ 0 \in 0..len
        BY <1>4
      <4>2. Target(t) \in DOMAIN host' /\ host'[Target(t)] = File(Span(loc, 0))
        BY <1>5, <1>6
      <4>3. ~(i < Len(log'))
        BY <3>2, <1>7
      <4>4. QED
        BY <3>2, <4>1, <4>2, <4>3
    <3>3. QED
      BY <3>1, <3>2, <1>9
  <2>2. result' # "Ok"
    BY <1>1 DEF Inv, Bookkeeping
  <2>3. QED
    BY <1>1, <2>1, <2>2 DEF FilesIntact, IsFile, Target, FileRange, Holds
<1>12. QED
  BY <1>8, <1>10, <1>11 DEF Inv

LEMMA ReadChunkInv ==
  ASSUME Inv, ReadChunk
  PROVE  Inv'
<1> DEFINE loc == FileRange(task)[1]
           len == FileRange(task)[2]
           n == Minimum(remaining, Chunk)
<1>1. /\ pc = "read" /\ remaining > 0 /\ pc' = "write"
      /\ buffer' = Span(pos, n) /\ pos' = pos + n
      /\ UNCHANGED <<host, remaining, result>> /\ UNCHANGED walkVars
  BY DEF ReadChunk, to_read
<1>2. /\ loc \in Nat /\ len \in Nat /\ remaining \in Nat /\ pos \in Nat
      /\ remaining <= len /\ pos = loc + (len - remaining)
  BY <1>1, CopyFacts DEF Inv, TypeOK, Bookkeeping
<1>3. n \in Nat /\ n > 0 /\ n <= remaining
  BY <1>1, <1>2, ChunkAssumption DEF Minimum
<1>4. buffer' \in Seq(Nat) /\ Len(buffer') = n
  <2> HIDE DEF n
  <2>1. QED
    BY <1>1, <1>2, <1>3, SpanProperties
<1>5. TypeOK'
  BY <1>1, <1>2, <1>3, <1>4 DEF Inv, TypeOK, walkVars, Call
<1>6. Bookkeeping'
  <2>1. /\ buffer' = Span(loc + (len - remaining), Len(buffer'))
        /\ pos' = loc + (len - remaining) + Len(buffer')
        /\ Len(buffer') > 0 /\ Len(buffer') <= remaining
    BY <1>1, <1>2, <1>3, <1>4
  <2>2. QED
    BY <1>1, <2>1 DEF Inv, Bookkeeping, walkVars, Inside, Ancestors, IsFile, HasRange,
                      Target, FileRange, Holds
<1>7. FilesIntact'
  BY <1>1 DEF Inv, FilesIntact, walkVars, IsFile, Superseded, Target,
              FileRange, Holds
<1>8. QED
  BY <1>5, <1>6, <1>7 DEF Inv

(* Bytes of the chunk written to the file being copied disturb no other    *)
(* entry, and leave it a prefix of its range.                              *)
LEMMA CopyStep ==
  ASSUME Inv, pc = "write", NEW n \in 0..Len(buffer),
         host' = Copied(Target(task), n), UNCHANGED walkVars
  PROVE  LET written == FileRange(task)[2] - remaining
         IN  /\ written \in Nat /\ written + n <= FileRange(task)[2]
             /\ IsFileSystem(host') /\ DOMAIN host' = DOMAIN host
             /\ host'[Target(task)] = File(Span(FileRange(task)[1], written + n))
             /\ \A i \in 1..Len(log) : IsFile(log[i]) /\ ~Superseded(i) =>
                  /\ Target(log[i]) \in DOMAIN host'
                  /\ \E k \in 0..FileRange(log[i])[2] :
                       host'[Target(log[i])] = File(Span(FileRange(log[i])[1], k))
                  /\ i < Len(log) => host'[Target(log[i])] =
                       File(Span(FileRange(log[i])[1], FileRange(log[i])[2]))
<1> DEFINE loc == FileRange(task)[1]
           len == FileRange(task)[2]
           written == len - remaining
           path == Target(task)
<1>1. /\ loc \in Nat /\ len \in Nat /\ Len(log) \in 1..Len(log)
      /\ path \in DOMAIN host /\ path \in Path /\ log[Len(log)] = task
      /\ Len(log) \in Nat
  BY CopyFacts DEF Inv, Bookkeeping
<1>2. /\ written \in Nat /\ Len(buffer) \in Nat
      /\ Len(buffer) <= remaining /\ remaining \in Nat
      /\ Span(loc, written + n) \in Seq(Nat)
      /\ host' = WithFile(path, Span(loc, written + n))
  BY CopiedProperties DEF Inv
<1>3. written + n <= len /\ written + n \in 0..len
  <2>1. n \in Nat /\ n <= remaining
    BY <1>2
  <2>2. QED
    BY <1>1, <1>2, <2>1
<1> HIDE DEF loc, len, written, path
<1>4. /\ IsFileSystem(host') /\ DOMAIN host' = DOMAIN host
      /\ host'[path] = File(Span(loc, written + n))
      /\ \A p \in DOMAIN host : p # path => host'[p] = host[p]
  <2>1. IsFileSystem(host)
    BY DEF Inv, TypeOK
  <2>2. DOMAIN host \cup {path} = DOMAIN host
    BY <1>1
  <2> DEFINE bytes == Span(loc, written + n)
  <2>3. bytes \in Seq(Nat) /\ path \in Path /\ host' = WithFile(path, bytes)
    BY <1>1, <1>2
  <2> HIDE DEF bytes
  <2>4. /\ IsFileSystem(host') /\ DOMAIN host' = DOMAIN host \cup {path}
        /\ host'[path] = File(bytes)
        /\ \A p \in DOMAIN host : p # path => host'[p] = host[p]
    <3>1. /\ IsFileSystem(WithFile(path, bytes))
          /\ DOMAIN WithFile(path, bytes) = DOMAIN host \cup {path}
          /\ WithFile(path, bytes)[path] = File(bytes)
          /\ \A p \in DOMAIN host : p # path =>
               WithFile(path, bytes)[p] = host[p]
      BY <2>1, <2>3, WithFileProperties
    <3>2. QED
      BY <2>3, <3>1
  <2>5. QED
    BY <2>2, <2>4 DEF bytes
<1>5. ASSUME NEW i \in 1..Len(log), IsFile(log[i]), ~Superseded(i)
      PROVE  /\ Target(log[i]) \in DOMAIN host'
             /\ \E k \in 0..FileRange(log[i])[2] :
                  host'[Target(log[i])] = File(Span(FileRange(log[i])[1], k))
             /\ i < Len(log) => host'[Target(log[i])] =
                  File(Span(FileRange(log[i])[1], FileRange(log[i])[2]))
  <2>1. /\ Target(log[i]) \in DOMAIN host
        /\ \E k \in 0..FileRange(log[i])[2] : Holds(log[i], k)
        /\ i < Len(log) => Holds(log[i], FileRange(log[i])[2])
    BY <1>5 DEF Inv, FilesIntact
  <2>2. CASE i < Len(log)
    <3>1. Len(log) \in (i + 1)..Len(log)
      BY <1>1, <2>2
    <3>2. Target(log[i]) # path
      BY <1>1, <1>5, <3>1 DEF Superseded, path
    <3>3. QED
      BY <1>4, <2>1, <3>2 DEF Holds
  <2>3. CASE ~(i < Len(log))
    <3>1. i = Len(log) /\ log[i] = task
      BY <1>1, <2>3
    <3>2. QED
      BY <1>3, <1>4, <2>1, <2>3, <3>1 DEF loc, len, path
  <2>4. QED
    BY <2>2, <2>3
<1>6. QED
  BY <1>2, <1>3, <1>4, <1>5 DEF loc, len, written, path

LEMMA WriteChunkInv ==
  ASSUME Inv, WriteChunk
  PROVE  Inv'
<1> DEFINE loc == FileRange(task)[1]
           len == FileRange(task)[2]
           b == Len(buffer)
<1>1. /\ pc = "write" /\ pc' = "read" /\ host' = Copied(Target(task), b)
      /\ remaining' = remaining - b
      /\ UNCHANGED <<pos, buffer, result>> /\ UNCHANGED walkVars
  BY DEF WriteChunk
<1>2. /\ loc \in Nat /\ len \in Nat /\ remaining \in Nat
      /\ buffer \in Seq(Nat) /\ b \in Nat /\ b <= remaining
      /\ remaining <= len /\ pos = loc + (len - remaining) + b
  BY <1>1, CopyFacts, LenProperties DEF Inv, TypeOK, Bookkeeping
<1>3. b \in 0..Len(buffer)
  BY <1>2
<1>4. /\ IsFileSystem(host') /\ DOMAIN host' = DOMAIN host
      /\ host'[Target(task)] = File(Span(loc, (len - remaining) + b))
      /\ \A i \in 1..Len(log) : IsFile(log[i]) /\ ~Superseded(i) =>
           /\ Target(log[i]) \in DOMAIN host'
           /\ \E k \in 0..FileRange(log[i])[2] :
                host'[Target(log[i])] = File(Span(FileRange(log[i])[1], k))
           /\ i < Len(log) => host'[Target(log[i])] =
                File(Span(FileRange(log[i])[1], FileRange(log[i])[2]))
  BY <1>1, <1>3, CopyStep
<1> HIDE DEF loc, len, b
<1>5. /\ remaining' \in Nat /\ remaining' <= len
      /\ len - remaining' = (len - remaining) + b
      /\ pos = loc + (len - remaining')
  BY <1>1, <1>2
<1>6. TypeOK'
  BY <1>1, <1>4, <1>5 DEF Inv, TypeOK, walkVars, Call
<1>7. Bookkeeping'
  <2>1. host'[Target(task)] = File(Span(loc, len - remaining'))
    BY <1>4, <1>5
  <2>2. QED
    BY <1>1, <1>4, <1>5, <2>1
    DEF Inv, Bookkeeping, walkVars, Inside, Ancestors, IsFile, HasRange, Target,
        FileRange, Holds, loc, len
<1>8. FilesIntact'
  <2>1. result # "Ok"
    BY <1>1 DEF Inv, Bookkeeping
  <2>2. QED
    BY <1>1, <1>4, <2>1
    DEF FilesIntact, walkVars, IsFile, Superseded, Target, FileRange, Holds
<1>9. QED
  BY <1>6, <1>7, <1>8 DEF Inv

LEMMA WriteFailsInv ==
  ASSUME Inv, WriteFails
  PROVE  Inv'
<1>1. /\ pc = "write" /\ pc' = "done" /\ result' = "Err"
      /\ UNCHANGED walkVars /\ UNCHANGED copyVars
  BY DEF WriteFails, Fail
<1>2. PICK n \in 0..(Len(buffer) - 1) : host' = Copied(Target(task), n)
  BY DEF WriteFails
<1>3. n \in 0..Len(buffer)
  BY LenProperties DEF Inv, TypeOK
<1>4. /\ IsFileSystem(host') /\ DOMAIN host' = DOMAIN host
      /\ \A i \in 1..Len(log) : IsFile(log[i]) /\ ~Superseded(i) =>
           /\ Target(log[i]) \in DOMAIN host'
           /\ \E k \in 0..FileRange(log[i])[2] :
                host'[Target(log[i])] = File(Span(FileRange(log[i])[1], k))
           /\ i < Len(log) => host'[Target(log[i])] =
                File(Span(FileRange(log[i])[1], FileRange(log[i])[2]))
  BY <1>1, <1>2, <1>3, CopyStep
<1>5. TypeOK'
  BY <1>1, <1>4 DEF Inv, TypeOK, walkVars, copyVars, Call
<1>6. Bookkeeping'
  BY <1>1, <1>4 DEF Inv, Bookkeeping, walkVars, Inside, Ancestors, IsFile, HasRange,
                    Target
<1>7. FilesIntact'
  BY <1>1, <1>4 DEF FilesIntact, walkVars, IsFile, Superseded, Target,
                    FileRange, Holds
<1>8. QED
  BY <1>5, <1>6, <1>7 DEF Inv

(* Every step keeps the invariant.                                         *)
LEMMA NextInv ==
  ASSUME Inv, [Next]_vars
  PROVE  Inv'
<1>1. CASE Prepare
  BY <1>1, PrepareInv
<1>2. CASE EnterDirectory
  BY <1>2, EnterDirectoryInv
<1>3. CASE OpenFile
  BY <1>3, OpenFileInv
<1>4. CASE ReadChunk
  BY <1>4, ReadChunkInv
<1>5. CASE WriteChunk
  BY <1>5, WriteChunkInv
<1>6. CASE WriteFails
  BY <1>6, WriteFailsInv
<1>11. CASE PrepareFails
  BY <1>11, PrepareFailsInv
<1>7. CASE VisitFails \/ ReadFails
  BY <1>7, SameHostInv DEF VisitFails, ReadFails
<1>8. CASE CloseFile \/ Finish
  BY <1>8, SameHostInv DEF CloseFile, Finish
<1>9. CASE UNCHANGED vars
  <2>1. TypeOK'
    BY <1>9 DEF Inv, TypeOK, vars, Call
  <2>2. Bookkeeping'
    BY <1>9 DEF Inv, Bookkeeping, vars, Inside, Ancestors, IsFile, HasRange, Target,
                FileRange, Holds
  <2>3. FilesIntact'
    BY <1>9 DEF Inv, FilesIntact, vars, IsFile, Superseded, Target,
                FileRange, Holds
  <2>4. QED
    BY <2>1, <2>2, <2>3 DEF Inv
<1>10. QED
  BY <1>1, <1>2, <1>3, <1>4, <1>5, <1>6, <1>7, <1>8, <1>9,
     <1>11 DEF Next

-----------------------------------------------------------------------------
(* Types, the bookkeeping and the files' contents are invariant.           *)
THEOREM Invariance == Spec => []Inv
<1>1. Init => Inv
  BY InitInv
<1>2. Inv /\ [Next]_vars => Inv'
  BY NextInv
<1>3. QED
  BY <1>1, <1>2, PTL DEF Spec

(* Whatever fails, and whatever names collide, every file extraction has   *)
(* opened and nothing has replaced holds a prefix of its range, and every  *)
(* one but the last holds all of it.                                       *)
THEOREM FilesStayIntact == Spec => []FilesIntact
<1>1. Inv => FilesIntact
  BY DEF Inv
<1>2. QED
  BY <1>1, Invariance, PTL

(* An extraction writes nothing outside its output directory: validated    *)
(* names keep every target one plain component below a directory that is   *)
(* inside already.                                                         *)
THEOREM StaysConfined == Spec => Confined
<1> DEFINE Step == \A p \in DOMAIN host' :
                     \/ p \in DOMAIN host /\ host'[p] = host[p]
                     \/ Inside(p)
                     \/ pc = "prepare" /\ p \in Ancestors(OutDir)
<1>1. ASSUME Inv, [Next]_vars
      PROVE  [Step]_host
  <2>1. tree \in Trees /\ IsFileSystem(host)
    BY <1>1 DEF Inv, TypeOK
  <2>2. CASE Prepare
    <3>1. \A p \in DOMAIN host' : p \notin DOMAIN host => p \in Ancestors(OutDir)
      BY <2>1, <2>2, OutDirInside, WithDirsProperties DEF Prepare, DirMade
    <3>2. \A p \in DOMAIN host : host'[p] = host[p]
      BY <2>1, <2>2, OutDirInside, WithDirsProperties DEF Prepare, DirMade
    <3>3. QED
      BY <2>2, <3>1, <3>2 DEF Prepare, DirMade
  <2>3. CASE EnterDirectory
    <3> DEFINE t == Head(todo)
    <3>1. /\ t \in Call(tree) /\ Inside(t.here) /\ SafeJoin(t)
          /\ Ancestors(t.here) \subseteq DOMAIN host
      BY <1>1, <2>3, RestOfList DEF EnterDirectory, DirMade
    <3>2. Target(t) \in Path /\ Inside(Target(t))
      BY <2>1, <3>1, TargetInside
    <3>3. /\ \A p \in DOMAIN host' : p \notin DOMAIN host =>
                p \in Ancestors(Target(t))
          /\ \A p \in DOMAIN host : host'[p] = host[p]
      BY <2>1, <2>3, <3>2, WithDirsProperties DEF EnterDirectory, DirMade
    <3>4. Ancestors(Target(t)) \subseteq Ancestors(t.here) \cup {Target(t)}
      BY <2>1, <3>1, AncestorsOfTarget
    <3>5. QED
      BY <3>1, <3>2, <3>3, <3>4
  <2>4. CASE OpenFile
    <3> DEFINE t == Head(todo)
    <3>1. t \in Call(tree) /\ Inside(t.here) /\ SafeJoin(t)
      BY <1>1, <2>4, RestOfList DEF OpenFile, FileMade, Creatable
    <3>2. Target(t) \in Path /\ Inside(Target(t)) /\ <<>> \in Seq(Nat)
      BY <2>1, <3>1, TargetInside, EmptySeq
    <3>3. host' = WithFile(Target(t), <<>>)
      BY <2>4 DEF OpenFile, FileMade, Creatable
    <3>4. /\ DOMAIN host' = DOMAIN host \cup {Target(t)}
          /\ \A p \in DOMAIN host : p # Target(t) => host'[p] = host[p]
      BY <2>1, <3>2, <3>3, WithFileProperties
    <3>5. QED
      BY <3>2, <3>4
  <2>5. CASE WriteChunk \/ WriteFails
    <3>1. PICK n \in 0..Len(buffer) : host' = Copied(Target(task), n)
      BY <1>1, <2>5, LenProperties DEF Inv, TypeOK, WriteChunk, WriteFails
    <3>2. Inside(Target(task))
      BY <1>1, <2>5 DEF Inv, Bookkeeping, WriteChunk, WriteFails
    <3>3. \A p \in DOMAIN host' :
            p = Target(task) \/ (p \in DOMAIN host /\ host'[p] = host[p])
      BY <3>1 DEF Copied, WithFile
    <3>4. QED
      BY <3>2, <3>3
  <2>6. CASE UNCHANGED host
    BY <2>6
  <2>8. CASE PrepareFails /\ host' # host
    <3>1. PICK made \in Ancestors(OutDir) : host' = WithDirs(made)
      BY <2>8 DEF PrepareFails
    <3>2. made \in Path /\ Ancestors(made) \subseteq Ancestors(OutDir)
      BY OutDirInside, AncestorsArePaths, AncestorsOfAncestor
    <3>3. \A p \in DOMAIN host' : p \notin DOMAIN host => p \in Ancestors(made)
      BY <2>1, <3>1, <3>2, WithDirsProperties
    <3>4. \A p \in DOMAIN host : host'[p] = host[p]
      BY <2>1, <3>1, <3>2, WithDirsProperties
    <3>5. QED
      BY <2>8, <3>2, <3>3, <3>4 DEF PrepareFails
  <2>7. QED
    BY <1>1, <2>2, <2>3, <2>4, <2>5, <2>6, <2>8
    DEF Next, vars, VisitFails, ReadChunk, ReadFails, CloseFile,
        Finish
<1>2. QED
  BY <1>1, Invariance, PTL DEF Spec, Confined

(* No step removes an entry or makes a file of a directory or the reverse. *)
LEMMA KindsStep ==
  ASSUME Inv, [Next]_vars
  PROVE  \A p \in DOMAIN host :
           p \in DOMAIN host' /\ host'[p].is_dir = host[p].is_dir
<1>1. tree \in Trees /\ IsFileSystem(host)
  BY DEF Inv, TypeOK
<1>2. CASE Prepare
  BY <1>2 DEF Prepare, DirMade, WithDirs
<1>3. CASE EnterDirectory
  BY <1>3 DEF EnterDirectory, DirMade, WithDirs
<1>4. CASE OpenFile
  <2> DEFINE path == Target(Head(todo))
  <2>1. host' = WithFile(path, <<>>) /\ CanCreateFile(path)
    BY <1>4 DEF OpenFile, FileMade, Creatable
  <2> HIDE DEF path
  <2>2. /\ DOMAIN host \subseteq DOMAIN host'
        /\ \A p \in DOMAIN host : p # path => host'[p] = host[p]
        /\ host'[path].is_dir = FALSE
    BY <2>1 DEF WithFile, File
  <2>3. path \in DOMAIN host => host[path].is_dir = FALSE
    <3>1. path \in DOMAIN host => host[path].is_dir \in BOOLEAN
      BY <1>1 DEF IsFileSystem, Entry
    <3>2. path \in DOMAIN host => ~host[path].is_dir
      BY <2>1 DEF CanCreateFile
    <3>3. QED
      BY <3>1, <3>2
  <2>4. QED
    BY <2>2, <2>3
<1>5. CASE WriteChunk \/ WriteFails
  <2>1. PICK n \in 0..Len(buffer) : host' = Copied(Target(task), n)
    BY <1>5, LenProperties DEF Inv, TypeOK, WriteChunk, WriteFails
  <2>2. host[Target(task)].is_dir = FALSE
    BY <1>5 DEF Inv, Bookkeeping, WriteChunk, WriteFails, Holds, File
  <2>3. /\ DOMAIN host \subseteq DOMAIN host'
        /\ \A p \in DOMAIN host : p # Target(task) => host'[p] = host[p]
        /\ host'[Target(task)].is_dir = FALSE
    BY <2>1 DEF Copied, WithFile, File
  <2>4. QED
    BY <2>2, <2>3
<1>6. CASE UNCHANGED host
  BY <1>6
<1>8. CASE PrepareFails
  BY <1>8 DEF PrepareFails, WithDirs
<1>7. QED
  BY <1>2, <1>3, <1>4, <1>5, <1>6, <1>8
  DEF Next, vars, VisitFails, ReadChunk, ReadFails, CloseFile,
      Finish

(* Nothing on the host is removed or changes between file and directory:   *)
(* where a name is taken by an entry of the other kind the call fails.     *)
THEOREM KindsAreKept == Spec => KindsKept
<1> DEFINE Step == \A p \in DOMAIN host :
                     p \in DOMAIN host' /\ host'[p].is_dir = host[p].is_dir
<1>1. Inv /\ [Next]_vars => [Step]_host
  BY KindsStep
<1>2. QED
  BY <1>1, Invariance, PTL DEF Spec, KindsKept

-----------------------------------------------------------------------------
(* Nothing but the tree's own entries.                                     *)

(* Entries made or changed by a step are of the output directory's         *)
(* ancestors or named by a call of the log.                                *)
LEMMA NamedStep ==
  ASSUME OnlyNamedEntries, Len(log) \in Nat,
         UNCHANGED <<tree, before>>, DOMAIN host \subseteq DOMAIN host',
         \A i \in 1..Len(log) : i \in 1..Len(log') /\ log'[i] = log[i],
         \A p \in DOMAIN host' :
           \/ p \in DOMAIN host /\ host'[p] = host[p]
           \/ p \in Ancestors(OutDir) /\ host'[p] = Dir
           \/ \E i \in 1..Len(log') : Target(log'[i]) = p
  PROVE  OnlyNamedEntries'
<1>1. \A t : Target(t)' = Target(t)
  BY DEF Target
<1>2. ASSUME NEW p \in DOMAIN host'
      PROVE  \/ p \in DOMAIN before /\ host'[p] = before[p]
             \/ p \in Ancestors(OutDir) /\ host'[p] = Dir
             \/ \E i \in 1..Len(log') : Target(log'[i]) = p
  <2>1. CASE p \in DOMAIN host /\ host'[p] = host[p]
    BY <2>1 DEF OnlyNamedEntries
  <2>2. QED
    BY <2>1
<1>3. QED
  BY <1>1, <1>2 DEF OnlyNamedEntries, Ancestors

(* Every step leaves what the tree does not name as it was.                *)
LEMMA NamedNext ==
  ASSUME Inv, OnlyNamedEntries, [Next]_vars
  PROVE  OnlyNamedEntries'
<1>1. /\ tree \in Trees /\ IsFileSystem(host) /\ log \in Seq(Call(tree))
      /\ Len(log) \in Nat
  BY LenProperties DEF Inv, TypeOK
<1>2. CASE Prepare
  <2>1. UNCHANGED <<tree, before, log>> /\ host' = WithDirs(OutDir)
    BY <1>2 DEF Prepare, DirMade
  <2>2. QED
    BY <1>1, <2>1, OutDirInside, WithDirsProperties, NamedStep
<1>3. CASE PrepareFails
  <2>1. UNCHANGED <<tree, before, log>>
    BY <1>3 DEF PrepareFails, walkVars
  <2>2. CASE UNCHANGED host
    BY <1>1, <2>1, <2>2, NamedStep
  <2>3. CASE host' # host
    <3>1. PICK made \in Ancestors(OutDir) : host' = WithDirs(made)
      BY <1>3, <2>3 DEF PrepareFails
    <3>2. made \in Path /\ Ancestors(made) \subseteq Ancestors(OutDir)
      BY OutDirInside, AncestorsArePaths, AncestorsOfAncestor
    <3>3. /\ DOMAIN host \subseteq DOMAIN host'
          /\ \A p \in DOMAIN host : host'[p] = host[p]
          /\ \A p \in DOMAIN host' : p \notin DOMAIN host =>
               p \in Ancestors(OutDir) /\ host'[p] = Dir
      BY <1>1, <3>1, <3>2, WithDirsProperties
    <3>4. QED
      BY <1>1, <2>1, <3>3, NamedStep
  <2>4. QED
    BY <2>2, <2>3
<1>4. CASE EnterDirectory
  <2> DEFINE t == Head(todo)
  <2>1. /\ UNCHANGED <<tree, before>> /\ host' = WithDirs(Target(t))
        /\ log' = Append(log, t) /\ SafeJoin(t) /\ todo # <<>>
    BY <1>4 DEF EnterDirectory, DirMade
  <2>2. /\ t \in Call(tree) /\ Inside(t.here)
        /\ Ancestors(t.here) \subseteq DOMAIN host
    BY <2>1, RestOfList
  <2>3. Target(t) \in Path
    BY <1>1, <2>1, <2>2, TargetInside
  <2> HIDE DEF t
  <2>4. /\ DOMAIN host \subseteq DOMAIN host'
        /\ \A p \in DOMAIN host : host'[p] = host[p]
        /\ \A p \in DOMAIN host' : p \notin DOMAIN host => p \in Ancestors(Target(t))
    BY <1>1, <2>1, <2>3, WithDirsProperties
  <2>5. \A p \in DOMAIN host' : p \notin DOMAIN host => p = Target(t)
    BY <1>1, <2>1, <2>2, <2>4, AncestorsOfTarget
  <2>6. /\ Len(log) + 1 \in 1..Len(log') /\ log'[Len(log) + 1] = t
        /\ \A i \in 1..Len(log) : i \in 1..Len(log') /\ log'[i] = log[i]
    BY <1>1, <2>1, <2>2, AppendProperties
  <2>7. QED
    BY <1>1, <2>1, <2>4, <2>5, <2>6, NamedStep
<1>5. CASE OpenFile
  <2> DEFINE t == Head(todo)
  <2>1. /\ UNCHANGED <<tree, before>> /\ host' = WithFile(Target(t), <<>>)
        /\ log' = Append(log, t) /\ todo # <<>>
    BY <1>5 DEF OpenFile, FileMade
  <2>2. t \in Call(tree)
    BY <2>1, RestOfList
  <2> HIDE DEF t
  <2>3. /\ DOMAIN host' = DOMAIN host \cup {Target(t)}
        /\ \A p \in DOMAIN host : p # Target(t) => host'[p] = host[p]
    BY <2>1 DEF WithFile
  <2>4. /\ Len(log) + 1 \in 1..Len(log') /\ log'[Len(log) + 1] = t
        /\ \A i \in 1..Len(log) : i \in 1..Len(log') /\ log'[i] = log[i]
    BY <1>1, <2>1, <2>2, AppendProperties
  <2>5. QED
    BY <1>1, <2>1, <2>3, <2>4, NamedStep
<1>6. CASE WriteChunk \/ WriteFails
  <2>1. PICK n \in 0..Len(buffer) : host' = Copied(Target(task), n)
    BY <1>6, LenProperties DEF Inv, TypeOK, WriteChunk, WriteFails
  <2>2. /\ UNCHANGED <<tree, before, log>> /\ pc = "write"
    BY <1>6 DEF WriteChunk, WriteFails, walkVars
  <2>3. log[Len(log)] = task /\ Len(log) \in 1..Len(log) /\ Target(task) \in DOMAIN host
    BY <2>2, CopyFacts DEF Inv, Bookkeeping
  <2>4. /\ DOMAIN host' = DOMAIN host
        /\ \A p \in DOMAIN host : p # Target(task) => host'[p] = host[p]
    BY <2>1, <2>3 DEF Copied, WithFile
  <2>5. QED
    BY <1>1, <2>2, <2>3, <2>4, NamedStep
<1>7. CASE UNCHANGED <<tree, before, host, log>>
  BY <1>1, <1>7, NamedStep
<1>8. QED
  BY <1>2, <1>3, <1>4, <1>5, <1>6, <1>7
  DEF Next, vars, walkVars, VisitFails, ReadChunk, ReadFails, CloseFile, Finish

(* For every tree and host, whatever fails: no entry appears, changes or   *)
(* disappears but those the visited nodes name and the output directory's  *)
(* ancestors that had to be made.                                          *)
THEOREM OthersAreUntouched == Spec => []OnlyNamedEntries
<1>1. Init => OnlyNamedEntries
  BY DEF Init, OnlyNamedEntries
<1>2. QED
  BY <1>1, NamedNext, Invariance, PTL DEF Spec

-----------------------------------------------------------------------------
(* Ok means a mirror of the tree.                                          *)

(* What the calls have done so far: each one's entry is of its node's      *)
(* kind; no node is called for twice; each call is for a node that has to  *)
(* be visited, in its place; and unless the extraction has failed every    *)
(* node that is due has been called for or is on the work list.            *)
KindsMatch ==
  \A i \in 1..Len(log) :
    /\ Target(log[i]) \in DOMAIN host
    /\ host[Target(log[i])].is_dir = tree.is_directory[log[i].node]
Once ==
  /\ \A i, j \in 1..Len(log) : log[i].node = log[j].node => i = j
  /\ \A i, j \in 1..Len(todo) : todo[i].node = todo[j].node => i = j
  /\ \A i \in 1..Len(log), j \in 1..Len(todo) : log[i].node # todo[j].node
Placed ==
  /\ \A i \in 1..Len(log) : InPlace(log[i], i - 1) /\ log[i].node \in Visited
  /\ \A i \in 1..Len(todo) :
       InPlace(todo[i], Len(log)) /\ todo[i].node \in Visited
Met(n) ==
  \/ \E i \in 1..Len(log) : log[i].node = n
  \/ \E i \in 1..Len(todo) : todo[i].node = n
AllMet ==
  result # "Err" /\ pc # "prepare" =>
    \A n \in DOMAIN tree.kids :
      IsTopLevel(n) \/ (\E i \in 1..Len(log) : ChildOf(n, log[i].node)) => Met(n)
NothingLeft ==
  /\ result = "Ok" => todo = <<>>
  /\ pc = "prepare" => todo = <<>> /\ log = <<>>

Mirror == KindsMatch /\ Once /\ Placed /\ AllMet /\ NothingLeft

(* The nodes to be visited are closed under what makes a node due.         *)
LEMMA VisitedClosed ==
  ASSUME NEW n \in DOMAIN tree.kids,
         IsTopLevel(n) \/ \E p \in Visited : ChildOf(n, p)
  PROVE  n \in Visited
<1>1. ASSUME NEW S \in SUBSET DOMAIN tree.kids,
             \A m \in DOMAIN tree.kids :
               IsTopLevel(m) \/ (\E p \in S : ChildOf(m, p)) => m \in S
      PROVE  n \in S
  <2>1. \A p \in Visited : p \in S
    BY <1>1 DEF Visited
  <2>2. QED
    BY <1>1, <2>1
<1>2. QED
  BY <1>1 DEF Visited

(* A node has one parent at most, and the top has none.                    *)
LEMMA OneParent ==
  ASSUME tree \in Trees, NEW n, NEW m1 \in DOMAIN tree.kids,
         NEW m2 \in DOMAIN tree.kids, ChildOf(n, m1)
  PROVE  /\ n # tree.top
         /\ ChildOf(n, m2) => m1 = m2
         /\ IsTopLevel(n) => m1 = tree.top /\ IsTopLevel(n) /\ ~IsTopLevel(m1)
<1>1. /\ tree.top \in DOMAIN tree.kids
      /\ \A p, q \in DOMAIN tree.kids :
           \A k \in 1..Len(tree.kids[p]), l \in 1..Len(tree.kids[q]) :
             /\ tree.kids[p][k] # tree.top
             /\ tree.kids[p][k] = tree.kids[q][l] => p = q /\ k = l
  BY TreesAssumption DEF IsTree
<1>2. n # tree.top /\ (ChildOf(n, m2) => m1 = m2)
  BY <1>1 DEF ChildOf
<1>3. ASSUME IsTopLevel(n)
      PROVE  m1 = tree.top /\ ~IsTopLevel(m1)
  <2>1. CASE tree.is_directory[tree.top] /\ tree.name[tree.top] = Slash
    <3>1. TopLevel = tree.kids[tree.top]
      BY <2>1 DEF TopLevel
    <3>2. QED
      BY <1>1, <1>3, <3>1 DEF IsTopLevel, ChildOf
  <2>2. CASE ~(tree.is_directory[tree.top] /\ tree.name[tree.top] = Slash)
    <3>1. TopLevel = <<tree.top>> /\ Len(TopLevel) = 1 /\ TopLevel[1] = tree.top
      BY <2>2 DEF TopLevel
    <3>2. QED
      BY <1>2, <1>3, <3>1 DEF IsTopLevel
  <2>3. QED
    BY <2>1, <2>2
<1>4. QED
  BY <1>2, <1>3

(* A child of a directory that is still to be entered has not been called  *)
(* for.                                                                    *)
LEMMA ChildIsNew ==
  ASSUME Inv, Mirror, NEW n, NEW i \in 1..Len(todo), ChildOf(n, todo[i].node)
  PROVE  ~Met(n)
<1>1. /\ tree \in Trees /\ Len(log) \in Nat /\ todo[i].node \in DOMAIN tree.kids
      /\ \A j \in 1..Len(log) : log[j].node \in DOMAIN tree.kids
  <2>1. tree \in Trees /\ log \in Seq(Call(tree)) /\ todo \in Seq(Call(tree))
    BY DEF Inv, TypeOK
  <2>2. /\ \A j \in 1..Len(log) : log[j] \in Call(tree)
        /\ todo[i] \in Call(tree) /\ Len(log) \in Nat
    BY <2>1, ElementOfSeq, LenProperties
  <2>3. QED
    BY <2>1, <2>2 DEF Call
<1>2. ASSUME NEW t, NEW k \in Nat, k <= Len(log), InPlace(t, k), t.node = n
      PROVE  FALSE
  <2>1. CASE IsTopLevel(n)
    <3>1. todo[i].node = tree.top /\ ~IsTopLevel(todo[i].node)
      BY <1>1, <2>1, OneParent
    <3>2. InPlace(todo[i], Len(log))
      BY DEF Mirror, Placed
    <3>3. PICK j \in 1..Len(log) : ChildOf(todo[i].node, log[j].node)
      BY <3>1, <3>2 DEF InPlace
    <3>4. QED
      BY <1>1, <3>1, <3>3, OneParent
  <2>2. CASE \E j \in 1..k : ChildOf(n, log[j].node)
    <3>1. PICK j \in 1..Len(log) : ChildOf(n, log[j].node)
      BY <1>1, <1>2, <2>2
    <3>2. log[j].node = todo[i].node
      BY <1>1, <3>1, OneParent
    <3>3. QED
      BY <3>2 DEF Mirror, Once
  <2>3. QED
    BY <1>2, <2>1, <2>2 DEF InPlace
<1>3. \A j \in 1..Len(log) : j - 1 \in Nat /\ j - 1 <= Len(log)
  BY <1>1
<1>4. QED
  BY <1>1, <1>2, <1>3 DEF Met, Mirror, Placed

(* A call t moved from the work list to the log, and the calls c it adds   *)
(* in front of the rest of the list.                                       *)
Moved(t, c) ==
  /\ Len(log') = Len(log) + 1 /\ log'[Len(log) + 1] = t
  /\ \A i \in 1..Len(log) : log'[i] = log[i]
  /\ Len(todo') = Len(c) + (Len(todo) - 1)
  /\ \A i \in 1..Len(c) : todo'[i] = c[i]
  /\ \A i \in (Len(c) + 1)..(Len(c) + (Len(todo) - 1)) :
       todo'[i] = todo[(i - Len(c)) + 1]

LEMMA MovedCall ==
  ASSUME Inv, todo # <<>>, log' = Append(log, Head(todo)),
         NEW c \in Seq(Call(tree)), todo' = c \o Tail(todo)
  PROVE  /\ Moved(Head(todo), c) /\ Len(c) \in Nat
         /\ Head(todo) = todo[1] /\ Len(todo) > 0
         /\ \A k \in 1..Len(c) : c[k].node \in DOMAIN tree.kids
<1> DEFINE L == Len(log)
           M == Len(todo)
           C == Len(c)
           t == Head(todo)
<1>1. /\ log \in Seq(Call(tree)) /\ todo \in Seq(Call(tree))
      /\ L \in Nat /\ M \in Nat /\ C \in Nat
  BY LenProperties DEF Inv, TypeOK
<1>2. /\ t \in Call(tree) /\ t = todo[1] /\ M > 0
      /\ Tail(todo) \in Seq(Call(tree)) /\ Len(Tail(todo)) = M - 1
      /\ \A i \in 1..(M - 1) : Tail(todo)[i] = todo[i + 1]
  BY <1>1, HeadTailProperties, EmptySeq
<1>3. /\ Len(log') = L + 1 /\ log'[L + 1] = t
      /\ \A i \in 1..L : log'[i] = log[i]
  BY <1>1, <1>2, AppendProperties
<1>4. /\ Len(todo') = C + (M - 1)
      /\ \A i \in 1..C : todo'[i] = c[i]
      /\ \A i \in (C + 1)..(C + (M - 1)) : todo'[i] = todo[(i - C) + 1]
  <2>1. /\ Len(todo') = C + (M - 1)
        /\ \A i \in 1..(C + (M - 1)) : todo'[i] =
             IF i <= C THEN c[i] ELSE Tail(todo)[i - C]
    <3> HIDE DEF C, M
    <3>1. QED
      BY <1>1, <1>2, ConcatProperties DEF C, M
  <2> HIDE DEF C, M
  <2>2. \A i \in 1..C : i \in 1..(C + (M - 1)) /\ i <= C
    BY <1>1, <1>2
  <2>3. \A i \in (C + 1)..(C + (M - 1)) :
          i \in 1..(C + (M - 1)) /\ ~(i <= C) /\ i - C \in 1..(M - 1)
    BY <1>1, <1>2
  <2>4. QED
    BY <1>2, <2>1, <2>2, <2>3
<1>5. \A k \in 1..C : c[k].node \in DOMAIN tree.kids
  <2>1. \A k \in 1..C : c[k] \in Call(tree)
    BY ElementOfSeq
  <2>2. QED
    BY <2>1 DEF Call
<1>6. QED
  BY <1>1, <1>2, <1>3, <1>4, <1>5 DEF Moved

(* It keeps what the calls have done so far.                               *)
LEMMA VisitStep ==
  ASSUME Inv, Mirror, pc = "walk", UNCHANGED <<tree, result>>,
         Len(todo) > 0, NEW c, Len(c) \in Nat, Moved(todo[1], c),
         \A k \in 1..Len(c) : /\ c[k].node \in DOMAIN tree.kids
                              /\ ChildOf(c[k].node, todo[1].node)
                              /\ c[k].here = Target(todo[1]),
         \A j, k \in 1..Len(c) : c[j].node = c[k].node => j = k,
         \A n : ChildOf(n, todo[1].node) => \E k \in 1..Len(c) : c[k].node = n
  PROVE  (Once /\ Placed /\ AllMet)'
<1> DEFINE L == Len(log)
           M == Len(todo)
           C == Len(c)
           t == todo[1]
<1>2. /\ L \in Nat /\ M \in Nat /\ C \in Nat /\ M > 0 /\ 1 \in 1..M /\ t = todo[1]
  BY LenProperties DEF Inv, TypeOK
<1>3. /\ Len(log') = L + 1 /\ log'[L + 1] = t
      /\ \A i \in 1..L : log'[i] = log[i]
  BY DEF Moved
<1>4. /\ Len(todo') = C + (M - 1)
      /\ \A i \in 1..C : todo'[i] = c[i]
      /\ \A i \in (C + 1)..(C + (M - 1)) : todo'[i] = todo[(i - C) + 1]
  BY DEF Moved
<1>5. /\ \A n : IsTopLevel(n)' <=> IsTopLevel(n)
      /\ \A n, m : ChildOf(n, m)' <=> ChildOf(n, m)
      /\ \A u : Target(u)' = Target(u)
  BY DEF IsTopLevel, TopLevel, ChildOf, Target
<1>6. Visited' = Visited
  BY DEF Visited, IsTopLevel, TopLevel, ChildOf
<1>7. \A k \in 1..C : ChildOf(c[k].node, t.node) /\ c[k].here = Target(t)
  OBVIOUS
<1>8. \A j, k \in 1..C : c[j].node = c[k].node => j = k
  OBVIOUS
<1>9. \A n : ChildOf(n, t.node) => \E k \in 1..C : c[k].node = n
  OBVIOUS
<1>10. \A k \in 1..C : ~Met(c[k].node)
  BY <1>2, <1>7, ChildIsNew
<1>11. \A k \in 1..C : c[k].node \in DOMAIN tree.kids
  OBVIOUS
<1>12. L \in Nat /\ M \in Nat /\ C \in Nat /\ M > 0
  BY <1>2
<1> HIDE DEF L, M, C, t
<1>13. ASSUME NEW i \in 1..Len(todo')
       PROVE  \/ i \in 1..C /\ todo'[i] = c[i]
              \/ \E k \in 2..M : i = (k - 1) + C /\ todo'[i] = todo[k]
  <2>1. CASE i <= C
    <3>1. i \in 1..C
      BY <1>4, <1>12, <2>1
    <3>2. QED
      BY <1>4, <3>1
  <2>2. CASE ~(i <= C)
    <3>1. i \in (C + 1)..(C + (M - 1))
      BY <1>4, <1>12, <2>2
    <3>2. (i - C) + 1 \in 2..M /\ i = (((i - C) + 1) - 1) + C
      BY <1>12, <3>1
    <3>3. QED
      BY <1>4, <3>1, <3>2
  <2>3. QED
    BY <2>1, <2>2
<1>14. ASSUME NEW k \in 2..M
       PROVE  k \in 1..M /\ \E i \in 1..Len(todo') : todo'[i] = todo[k]
  <2>1. /\ (k - 1) + C \in (C + 1)..(C + (M - 1))
        /\ (k - 1) + C \in 1..(C + (M - 1))
        /\ (((k - 1) + C) - C) + 1 = k /\ k \in 1..M
    BY <1>12
  <2>2. todo'[(k - 1) + C] = todo[k]
    BY <1>4, <2>1
  <2>3. QED
    BY <1>4, <2>1, <2>2
<1>15. \A i \in 1..Len(log') : i \in 1..L \/ i = L + 1
  BY <1>3, <1>12
<1>16. /\ \A i \in 1..L : i \in 1..Len(log') /\ i \in 1..(L + 1)
       /\ L + 1 \in 1..Len(log')
       /\ \A i \in 1..C : i \in 1..Len(todo')
  BY <1>3, <1>4, <1>12
<1>17. Once'
  <2>1. /\ \A i, j \in 1..L : log[i].node = log[j].node => i = j
        /\ \A i, j \in 1..M : todo[i].node = todo[j].node => i = j
        /\ \A i \in 1..L, j \in 1..M : log[i].node # todo[j].node
    BY DEF Mirror, Once, L, M
  <2>2. ASSUME NEW i \in 1..Len(log'), NEW j \in 1..Len(log'),
               log'[i].node = log'[j].node
        PROVE  i = j
    <3>1. CASE i \in 1..L /\ j \in 1..L
      BY <1>3, <2>1, <2>2, <3>1
    <3> DEFINE last == log'[L + 1].node
    <3>5. \A k \in 1..L : log'[k].node # last
      BY <1>2, <1>3, <2>1
    <3>2. CASE i \in 1..L /\ j = L + 1
      BY <2>2, <3>2, <3>5
    <3>3. CASE i = L + 1 /\ j \in 1..L
      BY <2>2, <3>3, <3>5
    <3>4. QED
      BY <1>15, <3>1, <3>2, <3>3
  <2>3. \A k \in 1..C : /\ \A i \in 1..L : c[k].node # log[i].node
                        /\ \A i \in 1..M : c[k].node # todo[i].node
    BY <1>10 DEF Met, L, M
  <2>4. ASSUME NEW i \in 1..Len(todo'), NEW j \in 1..Len(todo'),
               todo'[i].node = todo'[j].node
        PROVE  i = j
    <3>1. CASE i \in 1..C /\ todo'[i] = c[i]
      <4>1. CASE j \in 1..C /\ todo'[j] = c[j]
        BY <1>8, <2>4, <3>1, <4>1
      <4>2. CASE \E l \in 2..M : j = (l - 1) + C /\ todo'[j] = todo[l]
        BY <1>14, <2>3, <2>4, <3>1, <4>2
      <4>3. QED
        BY <1>13, <4>1, <4>2
    <3>2. CASE \E k \in 2..M : i = (k - 1) + C /\ todo'[i] = todo[k]
      <4>1. PICK k \in 2..M : i = (k - 1) + C /\ todo'[i] = todo[k]
        BY <3>2
      <4>2. CASE j \in 1..C /\ todo'[j] = c[j]
        BY <1>14, <2>3, <2>4, <4>1, <4>2
      <4>3. CASE \E l \in 2..M : j = (l - 1) + C /\ todo'[j] = todo[l]
        <5>1. PICK l \in 2..M : j = (l - 1) + C /\ todo'[j] = todo[l]
          BY <4>3
        <5>2. k = l
          BY <1>14, <2>1, <2>4, <4>1, <5>1
        <5>3. QED
          BY <4>1, <5>1, <5>2
      <4>4. QED
        BY <1>13, <4>2, <4>3
    <3>3. QED
      BY <1>13, <3>1, <3>2
  <2>5. ASSUME NEW i \in 1..Len(log'), NEW j \in 1..Len(todo')
        PROVE  log'[i].node # todo'[j].node
    <3>1. \/ i \in 1..L /\ log'[i] = log[i]
          \/ log'[i] = todo[1]
      BY <1>2, <1>3, <1>15
    <3>2. CASE j \in 1..C /\ todo'[j] = c[j]
      BY <1>2, <2>3, <3>1, <3>2
    <3>3. CASE \E k \in 2..M : todo'[j] = todo[k]
      <4>1. PICK k \in 2..M : todo'[j] = todo[k]
        BY <3>3
      <4>2. k \in 1..M /\ k # 1
        BY <1>12
      <4>3. QED
        BY <1>2, <2>1, <3>1, <4>1, <4>2
    <3>4. QED
      BY <1>13, <3>2, <3>3
  <2>6. QED
    BY <2>2, <2>4, <2>5 DEF Once
<1>18. Placed'
  <2> DEFINE Is(u, n) ==
               \/ IsTopLevel(u.node) /\ u.here = OutDir
               \/ \E j \in 1..n :
                    ChildOf(u.node, log'[j].node) /\ u.here = Target(log'[j])
  <2>1. ASSUME NEW u, NEW n \in Nat, n <= L, InPlace(u, n)
        PROVE  \A m \in Nat : n <= m /\ m <= L + 1 => Is(u, m)
    <3>1. CASE IsTopLevel(u.node) /\ u.here = OutDir
      BY <3>1
    <3>2. CASE \E j \in 1..n : ChildOf(u.node, log[j].node) /\ u.here = Target(log[j])
      <4>1. PICK j \in 1..n : ChildOf(u.node, log[j].node) /\ u.here = Target(log[j])
        BY <3>2
      <4>2. j \in 1..L /\ \A m \in Nat : n <= m => j \in 1..m
        BY <1>12, <2>1
      <4>3. ChildOf(u.node, log'[j].node) /\ u.here = Target(log'[j])
        BY <1>3, <4>1, <4>2
      <4>4. QED
        BY <4>2, <4>3
    <3>3. QED
      BY <2>1, <3>1, <3>2 DEF InPlace
  <2>2. /\ \A i \in 1..L : InPlace(log[i], i - 1) /\ log[i].node \in Visited
        /\ \A i \in 1..M : InPlace(todo[i], L) /\ todo[i].node \in Visited
    BY DEF Mirror, Placed, L, M
  <2>3. \A i \in 1..L : i - 1 \in Nat /\ i - 1 <= L /\ i - 1 <= L + 1
    BY <1>12
  <2>4. L + 1 \in Nat /\ L <= L + 1 /\ L <= L /\ (L + 1) - 1 = L
    BY <1>12
  <2>5. \A i \in 1..M : Is(todo[i], L) /\ Is(todo[i], L + 1)
    <3> HIDE DEF Is
    <3>1. QED
      BY <1>12, <2>1, <2>2, <2>4
  <2>6. ASSUME NEW i \in 1..Len(log')
        PROVE  Is(log'[i], i - 1) /\ log'[i].node \in Visited
    <3> HIDE DEF Is
    <3>1. CASE i \in 1..L
      <4>1. Is(log[i], i - 1)
        <5>1. i - 1 \in Nat /\ i - 1 <= L /\ i - 1 <= L + 1 /\ i - 1 <= i - 1
          BY <1>12, <3>1
        <5>2. QED
          BY <2>1, <2>2, <3>1, <5>1
      <4>2. QED
        BY <1>3, <2>2, <3>1, <4>1
    <3>2. CASE i = L + 1
      BY <1>2, <1>3, <2>2, <2>4, <2>5, <3>2
    <3>3. QED
      BY <1>15, <3>1, <3>2
  <2>7. ASSUME NEW i \in 1..Len(todo')
        PROVE  Is(todo'[i], L + 1) /\ todo'[i].node \in Visited
    <3>1. CASE i \in 1..C /\ todo'[i] = c[i]
      <4>1. ChildOf(c[i].node, log'[L + 1].node) /\ c[i].here = Target(log'[L + 1])
        BY <1>3, <1>7, <3>1
      <4>2. L + 1 \in 1..(L + 1)
        BY <1>12
      <4>3. Is(c[i], L + 1)
        BY <4>1, <4>2
      <4>4. c[i].node \in Visited
        BY <1>2, <1>7, <1>11, <2>2, <3>1, VisitedClosed
      <4> HIDE DEF Is
      <4>5. QED
        BY <3>1, <4>3, <4>4
    <3>2. CASE \E k \in 2..M : todo'[i] = todo[k]
      <4> HIDE DEF Is
      <4>1. QED
        BY <1>14, <2>2, <2>5, <3>2
    <3> HIDE DEF Is
    <3>3. QED
      BY <1>13, <3>1, <3>2
  <2>8. tree' = tree /\ Len(log') = L + 1
    BY <1>3
  <2>9. \A i \in 1..Len(log') : Is(log'[i], i - 1) => (InPlace(log[i], i - 1))'
    BY <1>5 DEF InPlace
  <2>10. \A i \in 1..Len(todo') : Is(todo'[i], Len(log')) => (InPlace(todo[i], Len(log)))'
    BY <1>5 DEF InPlace
  <2> HIDE DEF Is
  <2>11. QED
    BY <1>6, <2>6, <2>7, <2>8, <2>9, <2>10 DEF Placed
<1>19. AllMet'
  <2>1. ASSUME NEW n, Met(n)
        PROVE  Met(n)'
    <3>1. CASE \E i \in 1..L : log[i].node = n
      BY <1>3, <1>16, <3>1 DEF Met
    <3>2. CASE todo[1].node = n
      BY <1>2, <1>3, <1>16, <3>2 DEF Met
    <3>3. CASE \E i \in 2..M : todo[i].node = n
      BY <1>14, <3>3 DEF Met
    <3>4. \A i \in 1..M : i = 1 \/ i \in 2..M
      BY <1>12
    <3>5. QED
      BY <2>1, <3>1, <3>2, <3>3, <3>4 DEF Met, L, M
  <2>2. ASSUME NEW n, ChildOf(n, t.node)
        PROVE  Met(n)'
    <3>1. PICK k \in 1..C : c[k].node = n
      BY <1>9, <2>2
    <3>2. k \in 1..Len(todo') /\ todo'[k].node = n
      BY <1>4, <1>16, <3>1
    <3>3. QED
      BY <3>2 DEF Met
  <2>3. ASSUME result # "Err", NEW n \in DOMAIN tree.kids,
               IsTopLevel(n) \/ (\E i \in 1..Len(log') : ChildOf(n, log'[i].node))
        PROVE  Met(n)'
    <3>1. \A m \in DOMAIN tree.kids :
            IsTopLevel(m) \/ (\E i \in 1..L : ChildOf(m, log[i].node)) => Met(m)
      BY <2>3 DEF Mirror, AllMet, L
    <3>2. CASE IsTopLevel(n) \/ (\E i \in 1..L : ChildOf(n, log[i].node))
      BY <2>1, <2>3, <3>1, <3>2
    <3>3. CASE ChildOf(n, t.node)
      BY <2>2, <3>3
    <3>4. QED
      BY <1>3, <1>15, <2>3, <3>2, <3>3
  <2>4. \A n : /\ IsTopLevel(n)' => IsTopLevel(n)
               /\ \A i \in 1..Len(log') :
                    ChildOf(n, log[i].node)' => ChildOf(n, log'[i].node)
    BY DEF IsTopLevel, TopLevel, ChildOf
  <2>5. QED
    BY <2>3, <2>4 DEF AllMet
<1>20. QED
  BY <1>17, <1>18, <1>19

(* The same nodes, calls and kinds, and nothing left to do on Ok.          *)
LEMMA SameMirror ==
  ASSUME Mirror, UNCHANGED <<tree, todo, log>>,
         \A p \in DOMAIN host : p \in DOMAIN host' /\ host'[p].is_dir = host[p].is_dir,
         result' = "Ok" => todo = <<>>,
         pc' # "prepare" \/ UNCHANGED <<pc, result>>,
         result' = "Err" \/ (result # "Err" /\ pc # "prepare") \/ UNCHANGED <<pc, result>>
  PROVE  Mirror'
<1>1. /\ \A n : IsTopLevel(n)' <=> IsTopLevel(n)
      /\ \A n, m : ChildOf(n, m)' <=> ChildOf(n, m)
      /\ \A u : Target(u)' = Target(u)
      /\ \A n : Met(n)' <=> Met(n)
      /\ \A u, n : InPlace(u, n)' <=> InPlace(u, n)
      /\ Visited' = Visited
  BY DEF IsTopLevel, TopLevel, ChildOf, Target, Met, InPlace, Visited
<1>2. KindsMatch'
  BY DEF Mirror, KindsMatch, Target
<1>3. Once'
  BY DEF Mirror, Once
<1>4. Placed'
  <2>1. \A i \in 1..Len(log) : InPlace(log[i], i - 1) => InPlace(log[i], i - 1)'
    BY DEF InPlace, IsTopLevel, TopLevel, ChildOf, Target
  <2>2. \A i \in 1..Len(todo) : InPlace(todo[i], Len(log)) => InPlace(todo[i], Len(log))'
    BY DEF InPlace, IsTopLevel, TopLevel, ChildOf, Target
  <2>3. QED
    BY <1>1, <2>1, <2>2 DEF Mirror, Placed
<1>5. AllMet'
  BY DEF Mirror, AllMet, Met, IsTopLevel, TopLevel, ChildOf
<1>6. NothingLeft'
  BY DEF Mirror, NothingLeft
<1>7. QED
  BY <1>2, <1>3, <1>4, <1>5, <1>6 DEF Mirror

LEMMA InitMirror == Init => Mirror
<1> SUFFICES ASSUME Init PROVE Mirror
  OBVIOUS
<1>1. Len(log) = 0 /\ Len(todo) = 0 /\ log = <<>> /\ todo = <<>> /\ pc = "prepare"
  BY EmptySeq DEF Init
<1>2. QED
  BY <1>1 DEF Mirror, KindsMatch, Once, Placed, AllMet, NothingLeft

(* At the start the top level is due.                                      *)
LEMMA PrepareMirror ==
  ASSUME Inv, Mirror, Prepare
  PROVE  Mirror'
<1>1. /\ UNCHANGED <<tree, result>> /\ log = <<>> /\ log' = <<>> /\ Len(log') = 0
      /\ todo' = Calls(TopLevel, OutDir) /\ result # "Ok" /\ pc' = "walk"
      /\ tree \in Trees
  BY EmptySeq DEF Prepare, Mirror, NothingLeft, Inv, TypeOK, Bookkeeping
<1>2. tree.top \in DOMAIN tree.kids /\ tree.kids[tree.top] \in Seq(DOMAIN tree.kids)
  BY <1>1, TreesAssumption DEF IsTree
<1>3. TopLevel \in Seq(DOMAIN tree.kids)
  <2> DEFINE Node == DOMAIN tree.kids
             n == tree.top
  <2>1. <<n>> \in Seq(Node)
    <3>1. n \in Node
      BY <1>2
    <3> HIDE DEF n, Node
    <3>2. QED
      BY <3>1
  <2>2. QED
    BY <1>2, <2>1 DEF TopLevel
<1>4. /\ Len(todo') = Len(TopLevel) /\ Len(TopLevel) \in Nat
      /\ \A i \in 1..Len(TopLevel) :
           todo'[i].here = OutDir /\ todo'[i].node = TopLevel[i]
  BY <1>1, <1>3, OutDirInside, CallsProperties, LenProperties
<1>5. \A i, j \in 1..Len(TopLevel) : TopLevel[i] = TopLevel[j] => i = j
  <2>1. CASE tree.is_directory[tree.top] /\ tree.name[tree.top] = Slash
    BY <1>1, <1>2, <2>1, TreesAssumption DEF IsTree, TopLevel
  <2>2. CASE ~(tree.is_directory[tree.top] /\ tree.name[tree.top] = Slash)
    <3>1. Len(TopLevel) = 1
      BY <2>2 DEF TopLevel
    <3>2. QED
      BY <3>1
  <2>3. QED
    BY <2>1, <2>2
<1>6. \A i \in 1..Len(TopLevel) : TopLevel[i] \in Visited
  <2>1. \A i \in 1..Len(TopLevel) :
          TopLevel[i] \in DOMAIN tree.kids /\ IsTopLevel(TopLevel[i])
    BY <1>3, ElementOfSeq DEF IsTopLevel
  <2>2. QED
    BY <2>1, VisitedClosed
<1>7. /\ \A n : IsTopLevel(n)' <=> IsTopLevel(n)
      /\ Visited' = Visited
  BY <1>1 DEF IsTopLevel, TopLevel, ChildOf, Visited
<1>8. 1..Len(log') = {}
  BY <1>1
<1>9. KindsMatch' /\ NothingLeft'
  BY <1>1, <1>8 DEF KindsMatch, NothingLeft
<1>10. Once'
  BY <1>4, <1>5, <1>8 DEF Once
<1>11. Placed'
  <2>1. \A i \in 1..Len(todo') : IsTopLevel(todo'[i].node) /\ todo'[i].here = OutDir
    BY <1>4 DEF IsTopLevel
  <2>2. \A i \in 1..Len(todo') : InPlace(todo[i], Len(log))'
    BY <1>1, <2>1 DEF InPlace, IsTopLevel, TopLevel
  <2>3. QED
    BY <1>4, <1>6, <1>7, <1>8, <2>2 DEF Placed
<1>12. AllMet'
  <2>1. \A n : IsTopLevel(n) => Met(n)'
    BY <1>4 DEF IsTopLevel, Met
  <2>2. QED
    BY <1>7, <1>8, <2>1 DEF AllMet
<1>13. QED
  BY <1>9, <1>10, <1>11, <1>12 DEF Mirror

(* A visit adds an entry of the node's kind.                               *)
LEMMA KindsVisit ==
  ASSUME Inv, Mirror, [Next]_vars, UNCHANGED tree, NEW c, Moved(todo[1], c),
         Target(todo[1]) \in DOMAIN host',
         host'[Target(todo[1])].is_dir = tree.is_directory[todo[1].node]
  PROVE  KindsMatch'
<1>1. /\ Len(log') = Len(log) + 1 /\ log'[Len(log) + 1] = todo[1]
      /\ \A i \in 1..Len(log) : log'[i] = log[i]
  BY DEF Moved
<1>2. \A i \in 1..Len(log') : i \in 1..Len(log) \/ i = Len(log) + 1
  BY <1>1, LenProperties DEF Inv, TypeOK
<1>3. ASSUME NEW i \in 1..Len(log')
      PROVE  /\ Target(log'[i]) \in DOMAIN host'
             /\ host'[Target(log'[i])].is_dir = tree.is_directory[log'[i].node]
  <2>1. CASE i \in 1..Len(log)
    BY <1>1, <2>1, KindsStep DEF Mirror, KindsMatch
  <2>2. CASE i = Len(log) + 1
    BY <1>1, <2>2
  <2>3. QED
    BY <1>2, <2>1, <2>2
<1>4. QED
  BY <1>3 DEF KindsMatch, Target

LEMMA EnterMirror ==
  ASSUME Inv, Mirror, EnterDirectory
  PROVE  Mirror'
<1> DEFINE t == Head(todo)
           kids == tree.kids[t.node]
           c == Calls(kids, Target(t))
<1>1. /\ pc = "walk" /\ todo # <<>> /\ SafeJoin(t) /\ tree.is_directory[t.node]
      /\ CanCreateDirs(Target(t)) /\ host' = WithDirs(Target(t))
      /\ todo' = c \o Tail(todo) /\ log' = Append(log, t)
      /\ UNCHANGED <<tree, pc, result>>
      /\ tree \in Trees /\ IsFileSystem(host)
  BY DEF EnterDirectory, DirMade, Inv, TypeOK
<1>2. /\ t \in Call(tree) /\ Target(t) \in Path
  BY <1>1, RestOfList, TargetInside
<1>3. kids \in Seq(DOMAIN tree.kids) /\ t.node \in DOMAIN tree.kids
  BY <1>1, <1>2, CallType DEF Call
<1>4. /\ c \in Seq(Call(tree)) /\ Len(c) = Len(kids)
      /\ \A i \in 1..Len(kids) : c[i].here = Target(t) /\ c[i].node = kids[i]
  BY <1>1, <1>2, <1>3, CallsProperties
<1>5. \A i, j \in 1..Len(kids) : kids[i] = kids[j] => i = j
  BY <1>1, <1>3, TreesAssumption DEF IsTree
<1>6. \A n : ChildOf(n, t.node) <=> \E k \in 1..Len(kids) : kids[k] = n
  BY <1>1 DEF ChildOf
<1> HIDE DEF c
<1>7. /\ Moved(t, c) /\ Len(c) \in Nat /\ t = todo[1] /\ Len(todo) > 0
      /\ \A k \in 1..Len(c) : c[k].node \in DOMAIN tree.kids
  BY <1>1, <1>4, MovedCall
<1> HIDE DEF t, kids
<1>8. (Once /\ Placed /\ AllMet)'
  <2>1. \A k \in 1..Len(c) : ChildOf(c[k].node, t.node) /\ c[k].here = Target(t)
    BY <1>4, <1>6
  <2>2. \A j, k \in 1..Len(c) : c[j].node = c[k].node => j = k
    BY <1>4, <1>5
  <2>3. \A n : ChildOf(n, t.node) => \E k \in 1..Len(c) : c[k].node = n
    BY <1>4, <1>6
  <2>4. QED
    BY <1>1, <1>7, <2>1, <2>2, <2>3, VisitStep
<1>9. KindsMatch'
  <2>1. Target(t) \in Ancestors(Target(t))
    <3>1. Len(Target(t)) \in 0..Len(Target(t))
      BY <1>2, LenProperties DEF Path
    <3>2. SubSeq(Target(t), 1, Len(Target(t))) = Target(t)
      BY <1>2, SubSeqFull DEF Path
    <3>3. QED
      BY <3>1, <3>2 DEF Ancestors
  <2>2. Target(t) \in DOMAIN host' /\ host'[Target(t)].is_dir = TRUE
    <3>1. Target(t) \in DOMAIN host => host[Target(t)].is_dir = TRUE
      BY <1>1, <2>1 DEF CanCreateDirs, IsFileSystem, Entry
    <3>2. QED
      BY <1>1, <2>1, <3>1 DEF WithDirs, Dir
  <2>3. tree.is_directory[t.node] = TRUE
    BY <1>1, <1>3, TreesAssumption DEF IsTree
  <2>4. QED
    BY <1>1, <1>7, <2>2, <2>3, KindsVisit DEF Next
<1>10. NothingLeft'
  BY <1>1 DEF NothingLeft, Inv, Bookkeeping
<1>11. QED
  BY <1>8, <1>9, <1>10 DEF Mirror

LEMMA OpenMirror ==
  ASSUME Inv, Mirror, OpenFile
  PROVE  Mirror'
<1> DEFINE t == Head(todo)
<1>1. /\ pc = "walk" /\ pc' = "read" /\ todo # <<>> /\ ~tree.is_directory[t.node]
      /\ host' = WithFile(Target(t), <<>>)
      /\ todo' = Tail(todo) /\ log' = Append(log, t)
      /\ UNCHANGED <<tree, result>> /\ tree \in Trees /\ todo \in Seq(Call(tree))
  BY DEF OpenFile, FileMade, Inv, TypeOK
<1>2. t \in Call(tree) /\ t.node \in DOMAIN tree.kids
  BY <1>1, RestOfList DEF Call
<1>3. /\ <<>> \in Seq(Call(tree)) /\ Len(<<>>) = 0 /\ todo' = <<>> \o Tail(todo)
  BY <1>1, EmptySeq, HeadTailProperties, ConcatEmptySeq
<1>4. /\ Moved(t, <<>>) /\ t = todo[1] /\ Len(todo) > 0
  BY <1>1, <1>3, MovedCall
<1>5. \A n : ~ChildOf(n, t.node)
  BY <1>1 DEF ChildOf
<1> HIDE DEF t
<1>6. (Once /\ Placed /\ AllMet)'
  <2>1. 1..Len(<<>>) = {} /\ Len(<<>>) \in Nat
    BY <1>3
  <2>2. QED
    BY <1>1, <1>4, <1>5, <2>1, VisitStep
<1>7. KindsMatch'
  <2>1. Target(t) \in DOMAIN host' /\ host'[Target(t)].is_dir = FALSE
    BY <1>1 DEF WithFile, File
  <2>2. tree.is_directory[t.node] = FALSE
    BY <1>1, <1>2, TreesAssumption DEF IsTree
  <2>3. OpenFile => [Next]_vars
    BY DEF Next
  <2>4. QED
    BY <1>1, <1>4, <2>1, <2>2, <2>3, KindsVisit
<1>8. NothingLeft'
  BY <1>1 DEF NothingLeft, Inv, Bookkeeping
<1>9. QED
  BY <1>6, <1>7, <1>8 DEF Mirror

(* Every step keeps the mirror.                                            *)
LEMMA NextMirror ==
  ASSUME Inv, Mirror, [Next]_vars
  PROVE  Mirror'
<1>1. CASE Prepare
  BY <1>1, PrepareMirror
<1>2. CASE EnterDirectory
  BY <1>2, EnterMirror
<1>3. CASE OpenFile
  BY <1>3, OpenMirror
<1>4. CASE PrepareFails \/ VisitFails \/ ReadFails \/ WriteFails
  <2>1. UNCHANGED <<tree, todo, log>> /\ pc' = "done" /\ result' = "Err"
    BY <1>4 DEF PrepareFails, VisitFails, ReadFails, WriteFails, Fail, walkVars
  <2>2. QED
    BY <2>1, KindsStep, SameMirror
<1>5. CASE ReadChunk \/ WriteChunk \/ CloseFile
  <2>1. /\ UNCHANGED <<tree, todo, log, result>> /\ pc # "prepare" /\ pc' # "prepare"
        /\ pc # "done" /\ result = "none"
    BY <1>5 DEF ReadChunk, WriteChunk, CloseFile, walkVars, Inv, Bookkeeping
  <2>2. QED
    BY <2>1, KindsStep, SameMirror
<1>6. CASE Finish
  <2>1. /\ UNCHANGED <<tree, todo, log>> /\ todo = <<>> /\ pc = "walk" /\ pc' = "done"
        /\ result = "none" /\ result' = "Ok"
    BY <1>6 DEF Finish, walkVars, Inv, Bookkeeping
  <2>2. QED
    BY <2>1, KindsStep, SameMirror
<1>7. CASE UNCHANGED vars
  <2>1. UNCHANGED <<tree, todo, log, pc, result>>
    BY <1>7 DEF vars
  <2>2. result' = "Ok" => todo = <<>>
    BY <2>1 DEF Mirror, NothingLeft
  <2>3. QED
    BY <2>1, <2>2, KindsStep, SameMirror
<1>8. QED
  BY <1>1, <1>2, <1>3, <1>4, <1>5, <1>6, <1>7 DEF Next

(* For every tree and host: an extraction that returns Ok has visited each *)
(* node it has to, once, below the entry of its parent, and the host has a *)
(* directory for each directory and a file for each file.                  *)
THEOREM OkIsAMirror == Spec => []OkMirrorsTree
<1>1. ASSUME Inv, Mirror
      PROVE  OkMirrorsTree
  <2>1. SUFFICES ASSUME result = "Ok"
                 PROVE  { log[i].node : i \in 1..Len(log) } = Visited
    BY <1>1 DEF OkMirrorsTree, Mirror, KindsMatch, Once, Placed
  <2> DEFINE S == { log[i].node : i \in 1..Len(log) }
  <2>2. S \subseteq Visited
    BY <1>1 DEF Mirror, Placed
  <2>3. S \in SUBSET DOMAIN tree.kids
    BY <2>2 DEF Visited
  <2>4. pc = "done" /\ todo = <<>> /\ Len(todo) = 0
    BY <1>1, <2>1, EmptySeq DEF Inv, Bookkeeping, Mirror, NothingLeft
  <2>5. \A n \in DOMAIN tree.kids :
          IsTopLevel(n) \/ (\E i \in 1..Len(log) : ChildOf(n, log[i].node)) => n \in S
    BY <1>1, <2>1, <2>4 DEF Mirror, AllMet, Met
  <2>6. \A n \in DOMAIN tree.kids :
          IsTopLevel(n) \/ (\E p \in S : ChildOf(n, p)) => n \in S
    BY <2>5
  <2>7. Visited \subseteq S
    <3> HIDE DEF S
    <3>1. QED
      BY <2>3, <2>6 DEF Visited
  <2>8. QED
    BY <2>2, <2>7
<1>2. Spec => []Mirror
  BY InitMirror, NextMirror, Invariance, PTL DEF Spec
<1>3. QED
  BY <1>1, <1>2, Invariance, PTL

-----------------------------------------------------------------------------
(* CatNode.                                                                *)

CatInv == CatTypeOK /\ CatBookkeeping /\ PrefixOfRange

USE ChunkAssumption, ImageAssumption, NoValueAssumption, NodesAssumption

(* A node that passes the two checks has a range of natural numbers.       *)
LEMMA CatRangeType ==
  ASSUME node \in Nodes, NodeHasRange
  PROVE  Location \in Nat /\ Length \in Nat
BY DEF NodeHasRange, Location, Length

(* A chunk is asked for while bytes remain, and never more than remain.    *)
LEMMA ToReadType ==
  ASSUME remaining \in Nat
  PROVE  /\ toRead \in Nat
         /\ toRead <= remaining
         /\ remaining > 0 => toRead > 0
BY DEF toRead, Minimum

(* Every action keeps the invariant.                                       *)
LEMMA CatInitInv == CatInit => CatInv
<1> SUFFICES ASSUME CatInit
             PROVE  CatInv
  OBVIOUS
<1>1. CatTypeOK
  <2>1. <<>> \in Seq(Nat) /\ Len(<<>>) = 0
    BY EmptySeq
  <2>2. QED
    BY <2>1 DEF CatInit, CatTypeOK
<1>2. CatBookkeeping
  BY DEF CatInit, CatBookkeeping
<1>3. PrefixOfRange
  <2>1. CASE NodeHasRange
    <3>1. Location \in Nat /\ Length \in Nat
      BY <2>1, CatRangeType DEF CatInit
    <3>2. sent = Span(Location, 0)
      BY <3>1, SpanEmpty DEF CatInit
    <3>3. QED
      BY <2>1, <3>1, <3>2 DEF CatInit, PrefixOfRange
  <2>2. CASE ~NodeHasRange
    BY <2>2 DEF CatInit, PrefixOfRange
  <2>3. QED
    BY <2>1, <2>2
<1>4. QED
  BY <1>1, <1>2, <1>3 DEF CatInv

(* A return moves no data: it keeps the invariant when an Ok comes only    *)
(* after the whole range was sent.                                         *)
LEMMA ReturnInv ==
  ASSUME CatInv, pc # "done",
         NEW outcome \in {"Ok", "Pipe", "Err"}, Return(outcome),
         UNCHANGED <<node, pos, remaining, buffer, drained, sent>>,
         NodeHasRange \/ outcome = "Err",
         outcome = "Ok" => sent = Span(Location, Length)
  PROVE  CatInv'
<1>1. CatTypeOK'
  BY DEF CatInv, CatTypeOK, Return
<1>2. CatBookkeeping'
  BY DEF CatBookkeeping, Return
<1>3. NodeHasRange' = NodeHasRange /\ Location' = Location /\ Length' = Length
  BY DEF NodeHasRange, Location, Length
<1>4. PrefixOfRange'
  BY <1>3 DEF CatInv, PrefixOfRange, Return
<1>5. QED
  BY <1>1, <1>2, <1>4 DEF CatInv

LEMMA SeekInv ==
  ASSUME CatInv, Seek
  PROVE  CatInv'
<1>1. /\ node \in Nodes /\ NodeHasRange
      /\ Location \in Nat /\ Length \in Nat
  BY CatRangeType DEF CatInv, CatTypeOK, Seek
<1>2. NodeHasRange' /\ Location' = Location /\ Length' = Length
  BY <1>1 DEF Seek, NodeHasRange, Location, Length
<1>3. /\ sent' = <<>> /\ buffer' = <<>> /\ drained' = 0
      /\ pos' = Location /\ remaining' = Length /\ pc' = "read"
      /\ result' = result /\ result = "none" /\ node' = node
  BY DEF CatInv, CatBookkeeping, Seek
<1>4. Len(<<>>) = 0 /\ <<>> \in Seq(Nat)
  BY EmptySeq
<1>5. CatTypeOK'
  BY <1>1, <1>3, <1>4 DEF CatInv, CatTypeOK
<1>6. toRead' \in Nat /\ (remaining' > 0 => toRead' > 0)
  BY <1>1, <1>3 DEF toRead, Minimum
<1>7. Span(Location, 0) = <<>>
  BY <1>1, SpanEmpty
<1>8. CatBookkeeping'
  <2>1. /\ Length - remaining' = 0
        /\ Location + 0 = Location
        /\ Location = Location + 0 + Len(buffer')
    BY <1>1, <1>3, <1>4
  <2>2. /\ buffer' = Span(Location + 0, Len(buffer'))
        /\ sent' = Span(Location, 0 + drained')
    BY <1>1, <1>3, <1>4, <1>7
  <2>3. QED
    BY <1>1, <1>2, <1>3, <1>4, <1>6, <2>1, <2>2 DEF CatBookkeeping
<1>9. PrefixOfRange'
  BY <1>1, <1>2, <1>3, <1>7 DEF PrefixOfRange
<1>10. QED
  BY <1>5, <1>8, <1>9 DEF CatInv

LEMMA ReadInv ==
  ASSUME CatInv, Read
  PROVE  CatInv'
<1>1. PICK n \in 1..(toRead - Len(buffer)) :
        /\ buffer' = buffer \o Span(pos, n)
        /\ pos' = pos + n
        /\ pc' = IF Len(buffer) + n = toRead THEN "write" ELSE "read"
  BY DEF Read
<1>2. UNCHANGED <<node, remaining, drained, sent, result>>
  BY DEF Read
<1> DEFINE whole == Length - remaining
<1>3. /\ pc = "read" /\ remaining > 0 /\ NodeHasRange
      /\ node \in Nodes /\ pos \in Nat /\ remaining \in Nat
      /\ buffer \in Seq(Nat) /\ Len(buffer) \in Nat
      /\ drained = 0 /\ remaining <= Length /\ Len(buffer) < toRead
      /\ pos = Location + whole + Len(buffer)
      /\ buffer = Span(Location + whole, Len(buffer))
      /\ sent = Span(Location, whole + drained)
      /\ result = "none"
  BY LenProperties DEF CatInv, CatTypeOK, CatBookkeeping, Read
<1>4. Location \in Nat /\ Length \in Nat
  BY <1>3, CatRangeType
<1>5. toRead \in Nat /\ toRead <= remaining
  BY <1>3, ToReadType
<1>6. n \in Nat /\ n > 0 /\ Len(buffer) + n <= toRead /\ whole \in Nat
  BY <1>1, <1>3, <1>4, <1>5
<1>7. /\ NodeHasRange' /\ Location' = Location /\ Length' = Length
      /\ toRead' = toRead
  BY <1>2, <1>3 DEF NodeHasRange, Location, Length, toRead
<1>8. /\ buffer' = Span(Location + whole, Len(buffer) + n)
      /\ buffer' \in Seq(Nat) /\ Len(buffer') = Len(buffer) + n
  <2> DEFINE start == Location + whole
             k == Len(buffer)
  <2>1. /\ start \in Nat /\ k \in Nat /\ n \in Nat /\ k + n \in Nat
        /\ buffer = Span(start, k) /\ pos = start + k
    BY <1>3, <1>4, <1>6
  <2>2. buffer' = buffer \o Span(pos, n)
    BY <1>1
  <2>3. SUFFICES /\ buffer' = Span(start, k + n)
                 /\ buffer' \in Seq(Nat) /\ Len(buffer') = k + n
    OBVIOUS
  <2> HIDE DEF start, k
  <2>4. Span(start, k) \o Span(start + k, n) = Span(start, k + n)
    BY <2>1, SpanConcat
  <2>5. buffer' = Span(start, k + n)
    BY <2>1, <2>2, <2>4
  <2>6. QED
    BY <2>1, <2>5, SpanProperties
<1>9. CatTypeOK'
  BY <1>1, <1>2, <1>3, <1>6, <1>8 DEF CatInv, CatTypeOK
<1>10. CatBookkeeping'
  <2>1. whole' = whole
    BY <1>2, <1>7
  <2>2. pos' = Location + whole + Len(buffer')
    <3>1. pos' = pos + n /\ Len(buffer') = Len(buffer) + n
      BY <1>1, <1>8
    <3>2. pos = Location + whole + Len(buffer)
      BY <1>3
    <3> HIDE DEF whole
    <3>3. QED
      BY <3>1, <3>2, <1>3, <1>4, <1>6
  <2>3. pc' \in {"read", "write"} /\ Len(buffer') <= toRead
    BY <1>1, <1>6, <1>8
  <2>4. /\ pc' = "read" => Len(buffer') < toRead
        /\ pc' = "write" => Len(buffer') = toRead /\ drained < Len(buffer')
    BY <1>1, <1>3, <1>5, <1>6, <1>8
  <2> HIDE DEF whole
  <2>5. QED
    BY <1>2, <1>3, <1>7, <1>8, <2>1, <2>2, <2>3, <2>4 DEF CatBookkeeping, whole
<1>11. PrefixOfRange'
  BY <1>2, <1>3, <1>7 DEF CatInv, PrefixOfRange
<1>12. QED
  BY <1>9, <1>10, <1>11 DEF CatInv

LEMMA WriteInv ==
  ASSUME CatInv, Write
  PROVE  CatInv'
<1> DEFINE whole == Length - remaining
           b == Len(buffer)
<1>1. PICK n \in 1..(b - drained) :
        /\ sent' = sent \o SubSeq(buffer, drained + 1, drained + n)
        /\ IF drained + n = b
             THEN /\ remaining' = remaining - toRead
                  /\ buffer' = <<>>
                  /\ drained' = 0
                  /\ pc' = "read"
             ELSE /\ drained' = drained + n
                  /\ UNCHANGED <<remaining, buffer, pc>>
  BY DEF Write, WholeChunk
<1>2. UNCHANGED <<node, pos, result>>
  BY DEF Write, WholeChunk
<1>3. /\ pc = "write" /\ NodeHasRange
      /\ node \in Nodes /\ pos \in Nat /\ remaining \in Nat
      /\ buffer \in Seq(Nat) /\ b \in Nat /\ sent \in Seq(Nat)
      /\ drained \in 0..b /\ remaining <= Length
      /\ b = toRead /\ drained < b
      /\ pos = Location + whole + b
      /\ buffer = Span(Location + whole, b)
      /\ sent = Span(Location, whole + drained)
      /\ result = "none"
  BY LenProperties DEF CatInv, CatTypeOK, CatBookkeeping, Write, WholeChunk
<1>4. Location \in Nat /\ Length \in Nat
  BY <1>3, CatRangeType
<1>5. toRead \in Nat /\ toRead <= remaining
  BY <1>3, ToReadType
<1>6. /\ n \in Nat /\ n > 0 /\ drained \in Nat /\ drained + n <= b
      /\ whole \in Nat /\ whole + b <= Length
  BY <1>1, <1>3, <1>4, <1>5
<1>7. NodeHasRange' /\ Location' = Location /\ Length' = Length
  BY <1>2, <1>3 DEF NodeHasRange, Location, Length
<1>8. sent' = Span(Location, whole + drained + n)
  <2> DEFINE loc == Location
             start == Location + whole
             m == whole + drained
             i == drained + 1
             j == drained + n
  <2>1. /\ loc \in Nat /\ start \in Nat /\ m \in Nat /\ n \in Nat
        /\ b \in Nat /\ i \in 1..(b + 1) /\ j \in (i - 1)..b
    <3>1. loc \in Nat /\ b \in Nat
      BY <1>3, <1>4
    <3> HIDE DEF loc, b, whole
    <3>2. start = loc + whole
      BY DEF loc
    <3>3. start \in Nat /\ m \in Nat /\ n \in Nat
      BY <1>6, <3>1, <3>2
    <3>4. i \in 1..(b + 1) /\ j \in (i - 1)..b
      BY <1>6, <3>1
    <3>5. QED
      BY <3>1, <3>3, <3>4
  <2>1a. /\ start + i - 1 = loc + m /\ j - i + 1 = n
         /\ whole + drained + n = m + n
    <3>1. loc \in Nat
      BY <2>1
    <3> HIDE DEF loc, b, whole
    <3>2. start = loc + whole
      BY DEF loc
    <3>3. QED
      BY <1>6, <3>1, <3>2
  <2>2. /\ buffer = Span(start, b) /\ sent = Span(loc, m)
        /\ sent' = sent \o SubSeq(buffer, i, j)
    BY <1>1, <1>3
  <2>3. SUFFICES sent' = Span(loc, m + n)
    BY <2>1a
  <2> HIDE DEF loc, start, b, m, i, j
  <2>4. SubSeq(Span(start, b), i, j) = Span(start + i - 1, j - i + 1)
    BY <2>1, SpanSubSeq
  <2>5. Span(loc, m) \o Span(loc + m, n) = Span(loc, m + n)
    BY <2>1, SpanConcat
  <2>6. QED
    BY <2>1a, <2>2, <2>4, <2>5, Zenon
<1>9. whole + drained + n \in 0..Length
  BY <1>4, <1>6
<1>10. sent' \in Seq(Nat)
  <2> HIDE DEF whole
  <2>1. QED
    BY <1>4, <1>8, <1>9, SpanProperties
<1>11. PrefixOfRange'
  <2>1. \E i \in 0..Length' : sent' = Span(Location', i)
    BY <1>7, <1>8, <1>9
  <2>2. QED
    BY <1>2, <1>3, <1>7, <2>1 DEF PrefixOfRange
<1>12. CASE drained + n = b
  <2>1. /\ remaining' = remaining - b /\ buffer' = <<>>
        /\ drained' = 0 /\ pc' = "read"
    BY <1>1, <1>3, <1>12
  <2>2. Len(<<>>) = 0 /\ <<>> \in Seq(Nat)
    BY EmptySeq
  <2>3. remaining' \in Nat /\ remaining' <= Length
    BY <1>3, <1>4, <1>5, <2>1
  <2>4. CatTypeOK'
    BY <1>2, <1>3, <1>10, <2>1, <2>2, <2>3 DEF CatTypeOK
  <2>5. toRead' \in Nat /\ (remaining' > 0 => toRead' > 0)
    BY <2>3 DEF toRead, Minimum
  <2>6. Length - remaining' = whole + b
    BY <1>3, <1>4, <2>1, <2>3
  <2>7. pos' = Location + (whole + b) + 0
    <3> HIDE DEF b
    <3>1. QED
      BY <1>2, <1>3, <1>4, <1>6
  <2>8. sent' = Span(Location, (whole + b) + 0)
    BY <1>3, <1>6, <1>8, <1>12
  <2>9. Span(Location + (whole + b), 0) = <<>>
    <3>1. Location + (whole + b) \in Nat
      BY <1>3, <1>4, <1>6, SMTT(20)
    <3> HIDE DEF whole, b
    <3>2. QED
      BY <3>1, SpanEmpty
  <2>10. CatBookkeeping'
    <3> HIDE DEF whole, b
    <3>1. QED
      BY <1>2, <1>3, <1>7, <2>1, <2>2, <2>3, <2>5, <2>6, <2>7, <2>8, <2>9
      DEF CatBookkeeping
  <2>11. QED
    BY <1>11, <2>4, <2>10 DEF CatInv
<1>13. CASE drained + n # b
  <2>1. drained' = drained + n /\ UNCHANGED <<remaining, buffer, pc>>
    BY <1>1, <1>13
  <2>2. drained + n < b
    <3>1. drained + n <= b /\ n \in Nat /\ drained \in Nat /\ b \in Nat
      BY <1>3, <1>6
    <3> HIDE DEF b
    <3>2. QED
      BY <1>13, <3>1
  <2>3. CatTypeOK'
    BY <1>2, <1>3, <1>6, <1>10, <2>1, <2>2 DEF CatTypeOK
  <2>4. toRead' = toRead
    BY <2>1 DEF toRead
  <2>5. sent' = Span(Location, whole + drained')
    <3>1. whole + drained' = whole + drained + n
      BY <1>6, <2>1
    <3>2. QED
      BY <1>8, <3>1
  <2>6. CatBookkeeping'
    <3>1. whole' = whole /\ b' = b
      BY <1>7, <2>1
    <3>2. drained' < b /\ result' # "done" /\ pc' = "write"
      BY <1>2, <1>3, <2>1, <2>2
    <3> HIDE DEF whole
    <3>3. QED
      BY <1>2, <1>3, <1>5, <1>7, <2>1, <2>4, <2>5, <3>1, <3>2
      DEF CatBookkeeping, whole
  <2>7. QED
    BY <1>11, <2>3, <2>6 DEF CatInv
<1>14. QED
  BY <1>12, <1>13

(* Every step keeps the invariant.                                         *)
LEMMA CatNextInv ==
  ASSUME CatInv, [CatNext]_catVars
  PROVE  CatInv'
<1>1. CASE Refuse
  BY <1>1, ReturnInv DEF Refuse
<1>2. CASE Seek
  BY <1>2, SeekInv
<1>3. CASE SeekFails
  BY <1>3, ReturnInv DEF SeekFails
<1>4. CASE Read
  BY <1>4, ReadInv
<1>5. CASE CatReadFails
  <2>1. NodeHasRange
    BY <1>5 DEF CatInv, CatBookkeeping, CatReadFails
  <2>2. QED
    BY <1>5, <2>1, ReturnInv DEF CatReadFails
<1>6. CASE Write
  BY <1>6, WriteInv
<1>7. CASE CatWriteFails
  <2>1. NodeHasRange
    BY <1>7 DEF CatInv, CatBookkeeping, CatWriteFails
  <2>2. PICK outcome \in {"Pipe", "Err"} : Return(outcome)
    BY <1>7 DEF CatWriteFails
  <2>3. QED
    BY <1>7, <2>1, <2>2, ReturnInv DEF CatWriteFails
<1>8. CASE LoopEnds
  <2>1. /\ NodeHasRange /\ node \in Nodes /\ remaining = 0 /\ drained = 0
        /\ sent = Span(Location, Length - remaining + drained)
    BY <1>8 DEF CatInv, CatTypeOK, CatBookkeeping, LoopEnds
  <2>2. Length - remaining + drained = Length
    BY <2>1, CatRangeType
  <2>3. QED
    BY <1>8, <2>1, <2>2, ReturnInv DEF LoopEnds
<1>9. CASE UNCHANGED catVars
  <2>1. /\ NodeHasRange' = NodeHasRange /\ Location' = Location
        /\ Length' = Length /\ toRead' = toRead
    BY <1>9 DEF catVars, NodeHasRange, Location, Length, toRead
  <2>2. CatTypeOK' /\ CatBookkeeping' /\ PrefixOfRange'
    BY <1>9, <2>1 DEF CatInv, catVars, CatTypeOK, CatBookkeeping, PrefixOfRange
  <2>3. QED
    BY <2>2 DEF CatInv
<1>10. QED
  BY <1>1, <1>2, <1>3, <1>4, <1>5, <1>6, <1>7, <1>8, <1>9 DEF CatNext

(* The variables keep their types, and the loop's bookkeeping holds.       *)
THEOREM CatInvariance == CatSpec => []CatInv
<1>1. CatInit => CatInv
  BY CatInitInv
<1>2. CatInv /\ [CatNext]_catVars => CatInv'
  BY CatNextInv
<1>3. QED
  BY <1>1, <1>2, PTL DEF CatSpec

(* The writer only ever holds a prefix of the file's range of the image,   *)
(* and all of it on an Ok, for every chunk size and every division of the  *)
(* reads and writes (the promise of cat_node's documentation).             *)
THEOREM SendsPrefix == CatSpec => []PrefixOfRange
<1>1. CatInv => PrefixOfRange
  BY DEF CatInv
<1>2. QED
  BY <1>1, CatInvariance, PTL

(* The reads stay inside the file's range.                                 *)
THEOREM ReadsInRange == CatSpec => []ReadsOnlyRange
<1>1. ASSUME CatInv
      PROVE  ReadsOnlyRange
  <2>1. SUFFICES ASSUME pc \in {"read", "write"}, NodeHasRange
                 PROVE  pos >= Location /\ pos <= Location + Length
    BY DEF ReadsOnlyRange
  <2>2. /\ Location \in Nat /\ Length \in Nat
        /\ remaining \in Nat /\ Len(buffer) \in Nat
    BY <1>1, <2>1, CatRangeType, LenProperties DEF CatInv, CatTypeOK
  <2>3. toRead \in Nat /\ toRead <= remaining
    BY <2>2, ToReadType
  <2>4. /\ remaining <= Length /\ Len(buffer) <= toRead
        /\ pos = Location + (Length - remaining) + Len(buffer)
    BY <1>1, <2>1 DEF CatInv, CatBookkeeping
  <2> DEFINE b == Len(buffer)
  <2>5. /\ b \in Nat /\ b <= toRead
        /\ pos = Location + (Length - remaining) + b
    BY <2>2, <2>4
  <2> HIDE DEF b
  <2>6. QED
    BY <2>2, <2>3, <2>4, <2>5
<1>2. QED
  BY <1>1, CatInvariance, PTL

(* After its return the call gives the writer nothing and keeps its        *)
(* verdict.                                                                *)
THEOREM ReturnIsFinal == CatSpec => NothingAfterReturn
<1>1. CatInv /\ [CatNext]_catVars => [result = "none"]_<<sent, result>>
  BY DEF CatInv, CatBookkeeping, CatNext, catVars, Refuse, Seek, SeekFails, Read,
         CatReadFails, Write, CatWriteFails, LoopEnds
<1>2. QED
  BY <1>1, CatInvariance, PTL DEF CatSpec, NothingAfterReturn

(* The chunked loop of cat_node implements the abstract copy: its initial  *)
(* states are Stream's, a write delivers more of the range, a return ends  *)
(* the copy, and every other step is a stutter.                            *)
THEOREM Refinement == CatSpec => ImplementsStream
<1> DEFINE range == IF NodeHasRange THEN <<Location, Length>> ELSE <<0, 0>>
<1>1. CatInit => Abstract!Init
  <2>1. SUFFICES ASSUME CatInit
                 PROVE  range \in Nat \X Nat /\ sent = <<>> /\ ending = "running"
    BY DEF Abstract!Init
  <2>2. node \in Nodes
    BY <2>1 DEF CatInit
  <2>3. QED
    BY <2>1, <2>2, CatRangeType DEF CatInit, ending
<1>2. ASSUME CatInv, CatInv', [CatNext]_catVars
      PROVE  [Abstract!Next]_Abstract!vars
  <2>1. CASE UNCHANGED catVars
    BY <2>1 DEF catVars, Abstract!vars, NodeHasRange, Location, Length, ending
  <2>2. CASE CatNext
    <3>1. node' = node
      BY <2>2 DEF CatNext, Refuse, Seek, SeekFails, Read, CatReadFails, Write,
                  CatWriteFails, LoopEnds
    <3>2. /\ range' = range /\ NodeHasRange' = NodeHasRange
          /\ Location' = Location /\ Length' = Length
      BY <3>1 DEF NodeHasRange, Location, Length
    <3>3. CASE Seek \/ Read
      <4>1. sent' = sent /\ result' = result
        BY <1>2, <3>3 DEF CatInv, CatBookkeeping, Seek, Read
      <4>2. QED
        BY <3>2, <4>1 DEF Abstract!vars, ending
    <3>4. CASE Refuse \/ SeekFails \/ CatReadFails \/ CatWriteFails
      <4>1. /\ result = "none" /\ sent' = sent
            /\ result' \in {"Pipe", "Err"}
        BY <1>2, <3>4 DEF CatInv, CatBookkeeping, Return, Refuse, SeekFails,
                          CatReadFails, CatWriteFails
      <4>2. Abstract!GiveUp
        BY <3>2, <4>1 DEF Abstract!GiveUp, ending
      <4>3. QED
        BY <4>2 DEF Abstract!Next
    <3>5. CASE LoopEnds
      <4>1. result = "none" /\ sent' = sent /\ result' = "Ok" /\ NodeHasRange
        BY <1>2, <3>5 DEF CatInv, CatBookkeeping, Return, LoopEnds
      <4>2. sent = Span(Location, Length)
        BY <1>2, <3>2, <4>1 DEF CatInv, PrefixOfRange
      <4>3. Abstract!Span(Location, Length) = Span(Location, Length)
        BY DEF Abstract!Span, Span
      <4>4. Abstract!Finish
        BY <3>2, <4>1, <4>2, <4>3 DEF Abstract!Finish, ending
      <4>5. QED
        BY <4>4 DEF Abstract!Next
    <3>6. CASE Write
      <4>1. /\ NodeHasRange /\ result = "none" /\ result' = "none"
            /\ node \in Nodes
        BY <1>2, <3>6 DEF CatInv, CatTypeOK, CatBookkeeping, Write, WholeChunk
      <4>2. /\ sent \in Seq(Nat) /\ sent' \in Seq(Nat)
            /\ Len(sent) <= Len(sent')
        <5>1. PICK n \in 1..(Len(buffer) - drained) :
                sent' = sent \o SubSeq(buffer, drained + 1, drained + n)
          BY <3>6 DEF Write, WholeChunk
        <5>2. /\ sent \in Seq(Nat) /\ sent' \in Seq(Nat)
              /\ buffer \in Seq(Nat) /\ drained \in 0..Len(buffer)
          BY <1>2 DEF CatInv, CatTypeOK
        <5>3. SubSeq(buffer, drained + 1, drained + n) \in Seq(Nat)
          <6>1. \A x \in (drained + 1)..(drained + n) : buffer[x] \in Nat
            BY <5>1, <5>2, LenProperties
          <6>2. drained + 1 \in Int /\ drained + n \in Int
            BY <5>1, <5>2, LenProperties
          <6>3. QED
            BY <6>1, <6>2, SubSeqProperties
        <5>4. Len(sent') = Len(sent)
                 + Len(SubSeq(buffer, drained + 1, drained + n))
          BY <5>1, <5>2, <5>3, ConcatProperties
        <5>5. QED
          BY <5>2, <5>3, <5>4, LenProperties
      <4>3. PICK m \in 0..Length : sent' = Span(Location, m)
        BY <1>2, <3>2, <4>1 DEF CatInv, PrefixOfRange
      <4>4. m \in Len(sent)..Length
        <5>1. Location \in Nat /\ Length \in Nat /\ Len(sent) \in Nat
          BY <4>1, <4>2, CatRangeType, LenProperties
        <5>2. Len(sent') = m
          BY <4>3, <5>1, SpanProperties
        <5>3. QED
          BY <4>2, <4>3, <5>1, <5>2
      <4>5. Abstract!Span(Location, m) = Span(Location, m)
        BY DEF Abstract!Span, Span
      <4>6. range[1] = Location /\ range[2] = Length
        BY <4>1
      <4>7. Abstract!Deliver
        BY <3>2, <4>1, <4>3, <4>4, <4>5, <4>6 DEF Abstract!Deliver, ending
      <4>8. QED
        BY <4>7 DEF Abstract!Next
    <3>7. QED
      BY <2>2, <3>3, <3>4, <3>5, <3>6 DEF CatNext
  <2>3. QED
    BY <1>2, <2>1, <2>2
<1>3. QED
  BY <1>1, <1>2, CatInvariance, PTL DEF CatSpec, ImplementsStream, Abstract!Spec
=============================================================================
