----------------------------- MODULE ParsedTree -----------------------------
(***************************************************************************)
(* The tree that every reader returns (src/tree.rs) and the state that the *)
(* readers of disc, volume and container images share: one image is read,  *)
(* by the reader its kind calls for.  The tree is the sequence of its      *)
(* nodes in the order they are made, each with the index of its parent;    *)
(* the recursion over directories is a stack of what is still to be done   *)
(* in each.  Every read is preceded by a seek to an absolute position, so  *)
(* that a reader's place in the image is not part of its state.            *)
(***************************************************************************)
EXTENDS Integers, Sequences, FiniteSets, SequencesExt

CONSTANTS
  Images,     \* sets of the images that are read: each has a `kind`
  Word,       \* the sizes that fit a u64: 2^64
  Slash,      \* the character "/"
  Period,     \* the character "."
  CallDepth,  \* bound: directories that may be open before the thread's
              \* stack is used up, where the reader has no limit of its own
  None

ASSUME TreeAssumption ==
  /\ CallDepth \in Nat \ {0} /\ Word \in Nat \ {0}
  /\ None \notin Nat \cup BOOLEAN

(* The k-th of a set of places, the set in order, and the elements of a    *)
(* sequence that pass a test, in order.                                    *)
Nth(S, k) == CHOOSE i \in S : Cardinality({ j \in S : j <= i }) = k
InOrder(S) == [k \in 1..Cardinality(S) |-> Nth(S, k)]
Chosen(s, S) == [k \in 1..Cardinality(S) |-> s[Nth(S, k)]]
Select(s, Test(_)) == Chosen(s, { i \in DOMAIN s : Test(s[i]) })

(* The names a directory has for itself and for its parent.                *)
Dots == { <<Period>>, <<Period, Period>> }

VARIABLES
  image,
  pc,         \* where in the image's reader the call is
  found,      \* what was collected before the tree is begun
  stack,      \* the open directories: their node and their remaining entries
  nodes,
  result      \* "none", "Ok", "Err", "Panic", or "Abort" when the stack is
              \* used up

vars == <<image, pc, found, stack, nodes, result>>

-----------------------------------------------------------------------------
(* src/image_io/mmap.rs: Read, Seek and RandomAccess of an image of `len`  *)
(* bytes that is mapped into memory.                                       *)
(*                                                                         *)
(* A seek may go behind the end; one before the start is an error, which   *)
(* leaves the cursor where it is.                                          *)
seek(cursor, place) == IF place < 0 THEN cursor ELSE place
FromEnd(len, n) == len + n

(* The bytes a read returns: it ends with the image.                       *)
read(len, cursor, n) ==
  LET rest == len - (IF cursor < len THEN cursor ELSE len)
  IN  IF n < rest THEN n ELSE rest
read_exact(len, cursor, n) == read(len, cursor, n) = n

(* RandomAccess: all of a range or nothing.                                *)
read_at(len, offset, n) == offset + n <= len

(* What a detect does with the cursor: it is left behind what was read,    *)
(* and put back.                                                           *)
LeftBehind(len, saved, at, n) == seek(saved, at) + read(len, seek(saved, at), n)
PutBack(len, saved, at, n) == seek(LeftBehind(len, saved, at, n), saved)

-----------------------------------------------------------------------------
(* The four constructors and add_child.                                    *)
new_directory(name, parent) ==
  [ name |-> name, is_directory |-> TRUE, size |-> 0,
    location |-> None, length |-> None, parent |-> parent ]
new_file(name, size, parent) ==
  [new_directory(name, parent) EXCEPT !.is_directory = FALSE, !.size = size]
new_file_with_location(name, size, location, length, parent) ==
  [new_file(name, size, parent) EXCEPT !.location = location, !.length = length]
WithRoot == << new_directory(<<Slash>>, 0) >>
Children(ns, d) == { k \in DOMAIN ns : ns[k].parent = d }

(* The sizes of some of the nodes, added.                                  *)
TotalSize(ns, S) ==
  LET sum[k \in 0..Len(ns)] ==
        IF k = 0 THEN 0 ELSE sum[k - 1] + (IF k \in S THEN ns[k].size ELSE 0)
  IN  sum[Len(ns)]

(* calculate_directory_size of the root: children come after their parent, *)
(* so that the sums can be made from the last node to the first.  Where no *)
(* overflow is looked for the sum wraps.                                   *)
(* (Mutant: only the files directly inside count.)                         *)
DirectFiles(ns) ==
  [k \in DOMAIN ns |->
     IF ns[k].is_directory
       THEN [ns[k] EXCEPT !.size = TotalSize(ns, Children(ns, k)) % Word]
       ELSE ns[k]]
calculate_directory_size(ns) ==
  LET with[k \in 1..(Len(ns) + 1)] ==
        IF k > Len(ns) THEN ns
        ELSE LET after == with[k + 1]
             IN  IF ns[k].is_directory
                   THEN [after EXCEPT ![k].size =
                           TotalSize(after, Children(ns, k)) % Word]
                   ELSE after
  IN  with[1]

(* find_node from node `k`: a path that is the node's own name is taken    *)
(* for the node; of children with one name the first counts.               *)
find_node(ns, k, path) ==
  LET from[i \in 1..(Len(path) + 1)] ==
        [ n \in DOMAIN ns \cup {None} |->
            IF i > Len(path) \/ n = None THEN n
            ELSE IF i = Len(path) /\ path[i] = ns[n].name THEN n
            ELSE LET named == { c \in Children(ns, n) : ns[c].name = path[i] }
                 IN  IF named = {} THEN None
                     ELSE from[i + 1][CHOOSE c \in named : \A d \in named : c <= d] ]
  IN  from[1][k]

-----------------------------------------------------------------------------
Begin(p, f) ==
  /\ \E i \in DOMAIN Images : image \in Images[i]
  /\ pc = p[image.kind] /\ found = f[image.kind]
  /\ stack = <<>> /\ nodes = <<>> /\ result = "none"

At(kind, p) == image.kind = kind /\ pc = p
Goto(p) == pc' = p /\ UNCHANGED <<image, result>>
Stop(r) == pc' = "done" /\ result' = r /\ UNCHANGED image

(* A directory is entered: its node is made and its entries are to be      *)
(* handled before those behind it.                                         *)
Top == Last(stack)
Entry == Head(Top.entries)
Busy == stack # <<>> /\ Top.entries # <<>>
Rest == Append(Front(stack), [Top EXCEPT !.entries = Tail(@)])
Frame(node, entries) == [node |-> node, entries |-> entries]
Skip == stack' = Rest /\ UNCHANGED nodes
AddFile(node) == stack' = Rest /\ nodes' = Append(nodes, node)
AddDirectory(name, entries) ==
  /\ nodes' = Append(nodes, new_directory(name, Top.node))
  /\ stack' = Append(Rest, Frame(Len(nodes) + 1, entries))
Return ==
  /\ stack # <<>> /\ Top.entries = <<>>
  /\ stack' = Front(stack)
  /\ UNCHANGED found
  /\ IF Len(stack) = 1
       THEN nodes' = calculate_directory_size(nodes) /\ Stop("Ok")
       ELSE UNCHANGED <<image, pc, nodes, result>>

-----------------------------------------------------------------------------
(* What a reader of the tree relies on.                                    *)
Ancestors(k) ==
  LET above[i \in 0..Len(nodes)] ==
        IF i = 0 THEN {} ELSE {i} \cup above[nodes[i].parent]
  IN  above[k] \ {k}
PathOf(k) ==
  LET path[i \in 1..Len(nodes)] ==
        IF i = 1 THEN <<>> ELSE Append(path[nodes[i].parent], nodes[i].name)
  IN  path[k]

(* What is below an entry down to a depth, each with the path to it: `in`  *)
(* has what is directly in an entry, `named` its name.                     *)
NamesBelow(root, in, named, depth) ==
  LET at[d \in 0..depth] ==
        IF d = 0 THEN { << <<>>, root >> }
        ELSE UNION { { << Append(x[1], named[e]), e >> : e \in in[x[2]] } :
                       x \in at[d - 1] }
  IN  UNION { at[d] : d \in 0..depth }
=============================================================================
