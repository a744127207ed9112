------------------------------ MODULE Extract -------------------------------
(***************************************************************************)
(* `extract_node` (src/lib.rs): write a node of the parsed tree, with all  *)
(* that is below it, under a directory of the host.  The recursion of      *)
(* extract_into is a work list: the nodes still to be visited, in order,   *)
(* each with the directory it goes into; every `?` abandons the list.      *)
(*                                                                         *)
(* The host's file system is a function from paths to what is there.  A    *)
(* path is the sequence of the components of the PathBuf the code passes;  *)
(* the name of a node is the sequence of the parts a split at '/' yields,  *)
(* so that a name with a separator has more than one part and the empty    *)
(* name is <<"">>.                                                         *)
(***************************************************************************)
EXTENDS CopyLoop

CONSTANTS
  Trees,      \* the trees a parser may have built: see TreesAssumption
  Hosts,      \* the file systems extraction may start on
  OutDir,     \* output_path, canonicalized: a sequence of components
  Part,       \* the parts node names are made of
  Unusable,   \* the parts with a backslash or a NUL in them
  OldByte     \* a byte that was on the host before

Byte == Nat \cup {OldByte}
Path == Seq(Part)
Dir == [is_dir |-> TRUE, bytes |-> <<>>]
File(bytes) == [is_dir |-> FALSE, bytes |-> bytes]
Entry == [is_dir : BOOLEAN, bytes : Seq(Byte)]
IsFileSystem(h) == DOMAIN h \subseteq Path /\ h \in [DOMAIN h -> Entry]

(* `kids` lists the children in the order of the Vec; the nodes of a tree  *)
(* are the domain of each of its functions.  A node is owned by one Vec,   *)
(* so that it has one parent at most, the top none.  A file may have       *)
(* children: the TAR reader makes one of a directory whose name a file     *)
(* takes.                                                                  *)
IsTree(t) ==
  LET Node == DOMAIN t.kids
  IN  /\ t.top \in Node
      /\ t.kids \in [Node -> Seq(Node)]
      /\ t.is_directory \in [Node -> BOOLEAN]
      /\ t.name \in [Node -> Seq(Part)]
      /\ t.file_location \in [Node -> Nat \cup {NoValue}]
      /\ t.file_length \in [Node -> Nat \cup {NoValue}]
      /\ \A m1, m2 \in Node : \A k1 \in 1..Len(t.kids[m1]), k2 \in 1..Len(t.kids[m2]) :
           /\ t.kids[m1][k1] # t.top
           /\ t.kids[m1][k1] = t.kids[m2][k2] => m1 = m2 /\ k1 = k2

ASSUME PartAssumption == OutDir \in Seq(Part) /\ Unusable \subseteq Part
ASSUME TreesAssumption == \A t \in Trees : IsTree(t)
ASSUME HostsAssumption == \A h \in Hosts : IsFileSystem(h)

\* pc is "prepare", "walk", "read", "write" or "done"; result ends as "Ok" or
\* "Err".
VARIABLES
  tree,       \* the argument `node`, with all that is below it
  before,     \* the host when the call was made (history)
  host,       \* the host now
  todo,       \* the calls of extract_into still to come
  task,       \* the call whose file is being copied
  log         \* the calls that made a directory or opened a file (history)

vars == <<tree, before, host, pc, todo, task, pos, remaining, buffer, log,
          result>>
walkVars == <<tree, before, todo, task, log>>
copyVars == <<pos, remaining, buffer>>

-----------------------------------------------------------------------------
(* The root the parsers produce is named "/".                              *)
Slash == <<"", "">>

(* Mutant: "." and ".." are let through.                                   *)
OnePart(name) ==
  /\ Len(name) = 1
  /\ name[1] \notin {""} \cup Unusable

(* validate_entry_name: one part, not empty, not "." or "..", usable.      *)
ValidName(name) ==
  /\ Len(name) = 1
  /\ name[1] \notin {"", ".", ".."} \cup Unusable

(* PathBuf::join: a rooted path replaces the one it is joined to.          *)
Join(here, name) ==
  IF Len(name) > 1 /\ name[1] = "" THEN name ELSE here \o name

(* Path::starts_with, on components.                                       *)
StartsWith(path, root) ==
  /\ Len(root) <= Len(path)
  /\ \A i \in 1..Len(root) : path[i] = root[i]

Target(t) == Join(t.here, tree.name[t.node])

(* safe_join succeeds for the call.                                        *)
SafeJoin(t) ==
  /\ ValidName(tree.name[t.node])
  /\ StartsWith(Target(t), OutDir)

HasRange(n) ==
  tree.file_location[n] # NoValue /\ tree.file_length[n] # NoValue

(* create_dir_all: each ancestor must be a directory or not there yet.     *)
Ancestors(path) == { SubSeq(path, 1, i) : i \in 0..Len(path) }

CanCreateDirs(path) ==
  \A p \in Ancestors(path) : p \in DOMAIN host => host[p].is_dir

WithDirs(path) ==
  [p \in DOMAIN host \cup Ancestors(path) |->
     IF p \in DOMAIN host THEN host[p] ELSE Dir]

(* File::create truncates a file that is there, and refuses a directory.   *)
CanCreateFile(path) == path \in DOMAIN host => ~host[path].is_dir

WithFile(path, bytes) ==
  [p \in DOMAIN host \cup {path} |->
     IF p = path THEN File(bytes) ELSE host[p]]

(* What extract_into and extract_node make of a directory, and what        *)
(* extract_file_at does before it copies: the file must be creatable and   *)
(* is then empty.  (Mutants: what is in a directory is removed first; the  *)
(* file is opened without truncating it.)                                  *)
EmptiedFirst(path) ==
  LET kept == { p \in DOMAIN host : p = path \/ ~StartsWith(p, path) }
  IN  [p \in kept \cup Ancestors(path) |->
         IF p \in kept THEN host[p] ELSE Dir]
DirMade(path) == WithDirs(path)

Opened(path) ==
  IF path \in DOMAIN host THEN host ELSE WithFile(path, <<>>)
FileMade(path) == WithFile(path, <<>>)

Creatable(path) == CanCreateFile(path)

(* Mutant: the children go to the output directory, not to their parent's. *)
Flattened(nodes, here) ==
  [i \in 1..Len(nodes) |-> [node |-> nodes[i], here |-> OutDir]]

Calls(nodes, here) ==
  [i \in 1..Len(nodes) |-> [node |-> nodes[i], here |-> here]]

Copied(path, n) == WithFile(path, host[path].bytes \o SubSeq(buffer, 1, n))

Fail == pc' = "done" /\ result' = "Err"

-----------------------------------------------------------------------------
Init ==
  /\ tree \in Trees
  /\ before \in Hosts
  /\ host = before
  /\ pc = "prepare"
  /\ todo = <<>>
  /\ task = [node |-> tree.top, here |-> OutDir]
  /\ pos = 0
  /\ remaining = 0
  /\ buffer = <<>>
  /\ log = <<>>
  /\ result = "none"

(* The children of the root "/", or the node that was passed.              *)
TopLevel ==
  IF tree.is_directory[tree.top] /\ tree.name[tree.top] = Slash
    THEN tree.kids[tree.top]
    ELSE <<tree.top>>

(* The output directory, then the nodes that go into it.                   *)
Prepare ==
  /\ pc = "prepare"
  /\ CanCreateDirs(OutDir)
  /\ host' = DirMade(OutDir)
  /\ todo' = Calls(TopLevel, OutDir)
  /\ pc' = "walk"
  /\ UNCHANGED <<tree, before, task, log, result>> /\ UNCHANGED copyVars

(* create_dir_all may fail half-way, and canonicalize after it.            *)
PrepareFails ==
  /\ pc = "prepare"
  /\ Fail
  /\ \/ UNCHANGED host
     \/ \E made \in Ancestors(OutDir) :
          CanCreateDirs(made) /\ host' = WithDirs(made)
  /\ UNCHANGED walkVars /\ UNCHANGED copyVars

(* extract_into of a directory: made, then its children, in order.         *)
EnterDirectory ==
  /\ pc = "walk" /\ todo # <<>>
  /\ LET t == Head(todo)
     IN  /\ SafeJoin(t)
         /\ tree.is_directory[t.node]
         /\ CanCreateDirs(Target(t))
         /\ host' = DirMade(Target(t))
         /\ todo' = Calls(tree.kids[t.node], Target(t)) \o Tail(todo)
         /\ log' = Append(log, t)
  /\ UNCHANGED <<tree, before, pc, task, result>> /\ UNCHANGED copyVars

(* extract_file_at up to its loop: seek, then create or truncate.  The     *)
(* create_dir_all of the parent in between finds the directory this node   *)
(* goes into, which is there by then.                                      *)
OpenFile ==
  /\ pc = "walk" /\ todo # <<>>
  /\ LET t == Head(todo)
     IN  /\ SafeJoin(t)
         /\ ~tree.is_directory[t.node] /\ HasRange(t.node)
         /\ Creatable(Target(t))
         /\ host' = FileMade(Target(t))
         /\ pos' = tree.file_location[t.node]
         /\ remaining' = tree.file_length[t.node]
         /\ task' = t
         /\ log' = Append(log, t)
  /\ todo' = Tail(todo)
  /\ pc' = "read"
  /\ UNCHANGED <<tree, before, buffer, result>>

(* An unsafe name, a file without a range, or an error of the host or of   *)
(* the image's seek: returned before the host is touched.                  *)
VisitFails ==
  /\ pc = "walk" /\ todo # <<>>
  /\ Fail
  /\ UNCHANGED host /\ UNCHANGED walkVars /\ UNCHANGED copyVars

to_read == Minimum(remaining, Chunk)

(* read_exact of the next chunk.                                           *)
ReadChunk ==
  /\ pc = "read" /\ remaining > 0
  /\ LET n == to_read
     IN  /\ pos + n <= ImageSize
         /\ buffer' = Span(pos, n)
         /\ pos' = pos + n
  /\ pc' = "write"
  /\ UNCHANGED <<host, remaining, result>> /\ UNCHANGED walkVars

ReadFails ==
  /\ pc = "read" /\ remaining > 0
  /\ Fail
  /\ UNCHANGED host /\ UNCHANGED walkVars /\ UNCHANGED copyVars

WriteChunk ==
  /\ pc = "write"
  /\ host' = Copied(Target(task), Len(buffer))
  /\ remaining' = remaining - Len(buffer)
  /\ pc' = "read"
  /\ UNCHANGED <<pos, buffer, result>> /\ UNCHANGED walkVars

(* write_all fails (a full disk, say) after part of the chunk.             *)
WriteFails ==
  /\ pc = "write"
  /\ \E n \in 0..(Len(buffer) - 1) : host' = Copied(Target(task), n)
  /\ Fail
  /\ UNCHANGED walkVars /\ UNCHANGED copyVars

CloseFile ==
  /\ pc = "read" /\ remaining = 0
  /\ pc' = "walk"
  /\ UNCHANGED <<host, result>> /\ UNCHANGED walkVars /\ UNCHANGED copyVars

Finish ==
  /\ pc = "walk" /\ todo = <<>>
  /\ pc' = "done" /\ result' = "Ok"
  /\ UNCHANGED host /\ UNCHANGED walkVars /\ UNCHANGED copyVars

Next ==
  \/ Prepare \/ PrepareFails
  \/ EnterDirectory \/ OpenFile \/ VisitFails
  \/ ReadChunk \/ ReadFails \/ WriteChunk \/ WriteFails
  \/ CloseFile \/ Finish

(* One thread runs the recursion: it always takes its next step.           *)
Spec == Init /\ [][Next]_vars /\ WF_vars(Next)

-----------------------------------------------------------------------------
Call(t) == [node : DOMAIN t.kids, here : Path]

TypeOK ==
  /\ tree \in Trees
  /\ IsFileSystem(before) /\ IsFileSystem(host)
  /\ pc \in {"prepare", "walk", "read", "write", "done"}
  /\ todo \in Seq(Call(tree))
  /\ task \in Call(tree)
  /\ pos \in Nat /\ remaining \in Nat
  /\ buffer \in Seq(Nat)
  /\ log \in Seq(Call(tree))
  /\ result \in {"none", "Ok", "Err"}

(* A path the host resolves to itself, OutDir or below it.                 *)
Inside(path) ==
  /\ StartsWith(path, OutDir)
  /\ \A i \in (Len(OutDir) + 1)..Len(path) :
       path[i] \notin {"", ".", ".."} \cup Unusable

(* Whatever names the tree has, a step creates or changes only entries     *)
(* inside the output directory (or makes that directory): the extraction   *)
(* writes nowhere else.                                                    *)
Confined ==
  [][\A p \in DOMAIN host' :
       \/ p \in DOMAIN host /\ host'[p] = host[p]
       \/ Inside(p)
       \/ pc = "prepare" /\ p \in Ancestors(OutDir)]_host

(* Nothing on the host is removed, and no directory is ever replaced by a  *)
(* file or a file by a directory, even where entries of the tree collide.  *)
KindsKept ==
  [][\A p \in DOMAIN host :
       p \in DOMAIN host' /\ host'[p].is_dir = host[p].is_dir]_host

IsFile(t) == ~tree.is_directory[t.node]
FileRange(t) == <<tree.file_location[t.node], tree.file_length[t.node]>>
(* The host has the first k bytes of the call's file.                      *)
Holds(t, k) == host[Target(t)] = File(Span(FileRange(t)[1], k))
Superseded(i) ==
  \E j \in (i + 1)..Len(log) : Target(log[j]) = Target(log[i])

(* Every file opened holds a prefix of its range of the image, and all of  *)
(* it as soon as the walk has gone on to anything else: whatever fails,    *)
(* only the last file opened can be incomplete.  (A later entry of the     *)
(* same name in the same directory replaces the file.)                     *)
FilesIntact ==
  \A i \in 1..Len(log) :
    IsFile(log[i]) /\ ~Superseded(i) =>
      /\ Target(log[i]) \in DOMAIN host
      /\ \E k \in 0..FileRange(log[i])[2] : Holds(log[i], k)
      /\ i < Len(log) \/ pc = "walk" \/ result = "Ok" =>
           Holds(log[i], FileRange(log[i])[2])

(* What makes the properties above and below inductive: the directories on *)
(* the work list exist inside the output directory, and while a file is    *)
(* copied it is the last one opened, its entry, the chunk in flight and    *)
(* the reader's cursor add up to its range.                                *)
Bookkeeping ==
  /\ pc = "done" <=> result # "none"
  /\ pc = "prepare" => log = <<>>
  /\ \A i \in 1..Len(todo) :
       Inside(todo[i].here) /\ Ancestors(todo[i].here) \subseteq DOMAIN host
  /\ \A i \in 1..Len(log) : IsFile(log[i]) =>
       HasRange(log[i].node) /\ Target(log[i]) \in DOMAIN host
  /\ pc \in {"read", "write"} =>
       LET loc == FileRange(task)[1]
           len == FileRange(task)[2]
           written == len - remaining
       IN  /\ Len(log) > 0 /\ log[Len(log)] = task
           /\ IsFile(task) /\ Inside(Target(task))
           /\ remaining <= len
           /\ Holds(task, written)
           /\ pc = "read" => pos = loc + written
           /\ pc = "write" =>
                /\ Len(buffer) > 0 /\ Len(buffer) <= remaining
                /\ buffer = Span(loc + written, Len(buffer))
                /\ pos = loc + written + Len(buffer)

(* Everything else on the host is as it was before the call: no entry      *)
(* appears, changes or disappears that no visited node of the tree names.  *)
OnlyNamedEntries ==
  /\ DOMAIN before \subseteq DOMAIN host
  /\ \A p \in DOMAIN host :
       \/ p \in DOMAIN before /\ host[p] = before[p]
       \/ p \in Ancestors(OutDir) /\ host[p] = Dir
       \/ \E i \in 1..Len(log) : Target(log[i]) = p

(* The nodes an extraction has to visit: those of the top level and, from  *)
(* there on, the children of directories.                                  *)
ChildOf(n, m) ==
  tree.is_directory[m] /\ \E k \in 1..Len(tree.kids[m]) : tree.kids[m][k] = n
IsTopLevel(n) == \E k \in 1..Len(TopLevel) : TopLevel[k] = n
Visited ==
  { n \in DOMAIN tree.kids :
      \A S \in SUBSET DOMAIN tree.kids :
        (\A m \in DOMAIN tree.kids :
           IsTopLevel(m) \/ (\E p \in S : ChildOf(m, p)) => m \in S) => n \in S }

(* A call for a node of the top level, or for a child of a directory made  *)
(* by one of the first n calls, in that directory.                         *)
InPlace(t, n) ==
  \/ IsTopLevel(t.node) /\ t.here = OutDir
  \/ \E j \in 1..n : ChildOf(t.node, log[j].node) /\ t.here = Target(log[j])

(* Ok means that the host mirrors the tree: every node has been visited,   *)
(* once, each under the entry of its parent and after it, and where the    *)
(* tree has a directory there is one, where it has a file a file.          *)
OkMirrorsTree ==
  result = "Ok" =>
    /\ { log[i].node : i \in 1..Len(log) } = Visited
    /\ \A i, j \in 1..Len(log) : log[i].node = log[j].node => i = j
    /\ \A i \in 1..Len(log) :
         /\ InPlace(log[i], i - 1)
         /\ Target(log[i]) \in DOMAIN host
         /\ host[Target(log[i])].is_dir = tree.is_directory[log[i].node]
=============================================================================
