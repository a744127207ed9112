------------------------------ MODULE HfsTree -------------------------------
(***************************************************************************)
(* `build_tree` (src/formats/hfsplus.rs): from the flat list of catalog    *)
(* records of an HFS+ volume to a tree.  Folders are placeholders in the   *)
(* map `nodes`, keyed by CNID; attaching a folder moves its placeholder,   *)
(* with all that was attached to it, out of `nodes` into its parent's      *)
(* children.  The folders are visited in the iteration order of a HashMap, *)
(* which differs from run to run: any order is possible here.  Files are   *)
(* attached last, each by walking the path of its parent from the root.    *)
(*                                                                         *)
(* The directory sizes are left out: ParsedTree has them.  At the end the  *)
(* walk over the leaf nodes (HfsLeaves) and this tree are composed.        *)
(***************************************************************************)
EXTENDS HfsLeaves

CONSTANT PathGuard  \* the limit of cnid_path's loop: 1000 in the code
ASSUME NamesAssumption == Name \subseteq Nat  \* names are compared
ASSUME GuardAssumption == PathGuard \in Nat \ {0}

VARIABLES
  catalog,        \* folder_map, without its entry for the root, and the
                  \* file records in the order of the catalog
  pass,           \* the repetition of the attaching loop
  remaining,      \* the folders this pass still has to visit, in order
  still_pending,  \* those it could not attach
  nodes,          \* the placeholders not yet moved: the keys of `nodes`
  children,       \* for each folder its children: folder CNIDs and files
  next_file       \* the file_items handled so far

treeVars == <<catalog, pass, remaining, still_pending, nodes, children,
              next_file>>

Folders == DOMAIN catalog.folder_map
Parent(cnid) == catalog.folder_map[cnid].parent_cnid
File(i) == catalog.files[i]

(* A child of a folder is another folder, or the i-th file record.         *)
FolderChild(cnid) == [kind |-> "folder", id |-> cnid]
FileChild(i) == [kind |-> "file", id |-> i]

MaxIters == Cardinality(Folders) + 2

-----------------------------------------------------------------------------
(* Mutant: the folder's own name alone.                                    *)
OwnName(cnid) ==
  IF cnid \in Folders THEN << catalog.folder_map[cnid].name >> ELSE <<>>

(* cnid_path: the names from the root to a folder.  It stops at a child of *)
(* the root, at a folder the catalog lacks, and when the guard is reached. *)
cnid_path(cnid) ==
  LET names[guard \in 0..PathGuard] ==
        [ c \in Cnid |->
            IF guard = 0 \/ c \notin Folders
              THEN <<>>
              ELSE LET above == IF Parent(c) \in {Root, NoParent}
                                  THEN <<>>
                                  ELSE names[guard - 1][Parent(c)]
                   IN  Append(above, catalog.folder_map[c].name) ]
  IN  names[PathGuard][cnid]

(* find_by_path_mut: follow the first folder of each name down from the    *)
(* root.  The set is empty when some name does not resolve.                *)
FirstFolder(dir, name) ==
  LET hits == { k \in 1..Len(children[dir]) :
                  /\ children[dir][k].kind = "folder"
                  /\ catalog.folder_map[children[dir][k].id].name = name }
  IN  { children[dir][k].id : k \in { k \in hits : \A j \in hits : k <= j } }

find_by_path(path) ==
  LET reached[i \in 0..Len(path)] ==
        IF i = 0 THEN {Root}
                 ELSE UNION { FirstFolder(d, path[i]) : d \in reached[i - 1] }
  IN  reached[Len(path)]

-----------------------------------------------------------------------------
NoFolders == [c \in {} |-> <<>>]
InitTree ==
  /\ catalog = [folder_map |-> NoFolders, files |-> <<>>]
  /\ pass = 1 /\ remaining = <<>> /\ still_pending = <<>>
  /\ nodes = {Root} /\ children = [c \in {Root} |-> <<>>]
  /\ next_file = 1

(* The first three passes.  Of several records of one folder the last one  *)
(* counts; the map is then iterated in any order.                          *)
FolderMap ==
  LET listed == { i \in DOMAIN records : records[i].kind = "folder" }
      last(cnid) == CHOOSE i \in listed :
                      /\ records[i].cnid = cnid
                      /\ \A j \in listed : records[j].cnid = cnid => j <= i
  IN  [ cnid \in { records[i].cnid : i \in listed } \ {Root} |->
          [ name        |-> records[last(cnid)].name,
            parent_cnid |-> records[last(cnid)].parent_cnid ] ]
FileItems ==
  LET listed[i \in 0..Len(records)] ==
        IF i = 0 THEN <<>>
        ELSE LET before == listed[i - 1]
             IN  IF records[i].kind = "file" THEN Append(before, records[i])
                                             ELSE before
  IN  listed[Len(records)]
Index ==
  /\ pc = "index"
  /\ catalog' = [folder_map |-> FolderMap, files |-> FileItems]
  /\ remaining' \in SetToSeqs(DOMAIN FolderMap)
  /\ nodes' = DOMAIN FolderMap \cup {Root}
  /\ children' = [c \in DOMAIN FolderMap \cup {Root} |-> <<>>]
  /\ pc' = "folders"
  /\ UNCHANGED <<records, pass, still_pending, next_file>>

(* The folder and its parent are both still in `nodes`.  The mutant does   *)
(* not take the root for a folder.                                         *)
NotUnderRoot(cnid) == {cnid, Parent(cnid)} \subseteq nodes \ {Root}
CanAttach(cnid) == {cnid, Parent(cnid)} \subseteq nodes

(* The placeholders without the one that moves.  (Mutant: it is copied.)   *)
Copied(cnid) == nodes
Without(cnid) == nodes \ {cnid}

(* The folder moves.  When it is its own parent, it is taken out first,    *)
(* finds no parent and is dropped.                                         *)
AttachFolder ==
  /\ pc = "folders" /\ remaining # <<>>
  /\ LET child == Head(remaining)
         parent == Parent(child)
     IN  /\ CanAttach(child)
         /\ nodes' = Without(child)
         /\ children' = IF parent \in nodes'
                          THEN [children EXCEPT
                                  ![parent] = Append(@, FolderChild(child))]
                          ELSE children
  /\ remaining' = Tail(remaining)
  /\ UNCHANGED <<records, catalog, pc, pass, still_pending, next_file>>

KeepPending ==
  /\ pc = "folders" /\ remaining # <<>>
  /\ ~CanAttach(Head(remaining))
  /\ still_pending' = Append(still_pending, Head(remaining))
  /\ remaining' = Tail(remaining)
  /\ UNCHANGED <<records, catalog, pc, pass, nodes, children, next_file>>

(* The end of a pass; no more than MaxIters passes are made.               *)
EndPass ==
  /\ pc = "folders" /\ remaining = <<>>
  /\ IF still_pending = <<>> \/ pass = MaxIters
       THEN pc' = "files" /\ UNCHANGED pass
       ELSE pass' = pass + 1 /\ UNCHANGED pc
  /\ remaining' = still_pending
  /\ still_pending' = <<>>
  /\ UNCHANGED <<records, catalog, nodes, children, next_file>>

(* The file goes to the folder its parent's path leads to, if any.         *)
AttachFile ==
  /\ pc = "files" /\ next_file <= Len(catalog.files)
  /\ LET dirs == find_by_path(cnid_path(File(next_file).parent_cnid))
     IN  children' = [d \in DOMAIN children |->
                        IF d \in dirs
                          THEN Append(children[d], FileChild(next_file))
                          ELSE children[d]]
  /\ next_file' = next_file + 1
  /\ UNCHANGED <<records, catalog, pc, pass, remaining, still_pending, nodes>>

(* sort_children_recursive: children of one name stay as they were.  What  *)
(* the root does not lead to is dropped with `nodes`.                      *)
NameOf(child) ==
  IF child.kind = "folder" THEN catalog.folder_map[child.id].name
                           ELSE File(child.id).name
ByName(list) ==
  LET earlier(i) ==
        { j \in DOMAIN list :
            \/ NameOf(list[j]) < NameOf(list[i])
            \/ NameOf(list[j]) = NameOf(list[i]) /\ j < i }
  IN  [ k \in DOMAIN list |->
          list[CHOOSE i \in DOMAIN list : Cardinality(earlier(i)) = k - 1] ]
Finish ==
  /\ pc = "files" /\ next_file > Len(catalog.files)
  /\ children' = [d \in DOMAIN children |-> ByName(children[d])]
  /\ pc' = "done"
  /\ UNCHANGED <<records, catalog, pass, remaining, still_pending, nodes, next_file>>

TreeNext ==
  Index \/ AttachFolder \/ KeepPending \/ EndPass \/ AttachFile \/ Finish

-----------------------------------------------------------------------------
TreeTypeOK ==
  /\ DOMAIN catalog.folder_map \subseteq Cnid \ {Root}
  /\ catalog.folder_map \in
       [DOMAIN catalog.folder_map -> [name : Name, parent_cnid : Cnid]]
  /\ catalog.files \in Seq({ r \in CatalogRecord : r.kind = "file" })
  /\ pass \in 1..MaxIters
  /\ remaining \in Seq(Folders) /\ still_pending \in Seq(Folders)
  /\ Root \in nodes /\ nodes \subseteq Folders \cup {Root}
  /\ children \in [Folders \cup {Root} ->
                     Seq([kind : {"folder"}, id : Folders] \cup
                         [kind : {"file"}, id : 1..Len(catalog.files)])]
  /\ next_file \in 1..(Len(catalog.files) + 1)

(* The folders a folder was moved into, and where its placeholder is now.  *)
Holders(child) ==
  { d \in DOMAIN children :
      \E k \in 1..Len(children[d]) : children[d][k] = child }
SelfParented == { c \in Folders : Parent(c) = c }

(* A placeholder is never in two places and only a folder that names       *)
(* itself as its parent is lost in a move: every other folder is still in  *)
(* `nodes`, or is exactly once among the children of its parent.           *)
PlacedOnce ==
  /\ \A c \in Folders \ SelfParented :
       Holders(FolderChild(c)) = IF c \in nodes THEN {} ELSE {Parent(c)}
  /\ \A d \in DOMAIN children : IsInjective(children[d])

(* Every folder the catalog puts directly under the root is found there    *)
(* once the folders are attached, whatever order the map was iterated in.  *)
TopLevelComplete ==
  pc \in {"files", "done"} =>
    \A c \in Folders : Parent(c) = Root => c \notin nodes

(* A catalog as a healthy volume has it: parents exist, lead to the root,  *)
(* no deeper than cnid_path follows them, CNID 0 is no folder, and a       *)
(* folder has no two entries of one name.                                  *)
LeadsToRoot(cnid, through) ==
  LET below[steps \in 0..PathGuard] ==
        IF steps = 0
          THEN {Root}
          ELSE {Root} \cup { c \in through : Parent(c) \in below[steps - 1] }
  IN  cnid \in below[PathGuard]
Healthy ==
  /\ NoParent \notin Folders
  /\ \A c \in Folders : LeadsToRoot(c, Folders)
  /\ \A i \in 1..Len(catalog.files) :
       File(i).parent_cnid \in Folders \cup {Root}
  /\ \A c, d \in Folders :
       Parent(c) = Parent(d)
         /\ catalog.folder_map[c].name = catalog.folder_map[d].name => c = d

(* In a healthy volume a file is in the tree just when all the folders     *)
(* above it are, and then in the folder its record names and in no other:  *)
(* a path never leads into a wrong folder, nor into the void.              *)
FilesFollowFolders ==
  Healthy =>
    \A i \in 1..(next_file - 1) :
      Holders(FileChild(i)) =
        IF LeadsToRoot(File(i).parent_cnid, Folders \ nodes)
          THEN {File(i).parent_cnid} ELSE {}

(* "After Pass 4 only the root node remains in `nodes`; subdirectory nodes *)
(* were removed and nested inside it" (hfsplus.rs, above the attaching of  *)
(* the files), for the catalog of a healthy volume.                        *)
OnlyRootRemains == Healthy /\ pc = "files" => nodes = {Root}

-----------------------------------------------------------------------------
(* `detect_and_parse`: the walk over the leaf nodes of the catalog, then   *)
(* the tree made of its records.                                           *)
vars == <<pc, records, leafVars, treeVars>>

Init == InitLeaves /\ InitTree
Next ==
  \/ LeavesNext /\ UNCHANGED treeVars
  \/ TreeNext /\ UNCHANGED leafVars
Spec == Init /\ [][Next]_vars /\ WF_vars(Next)

-----------------------------------------------------------------------------
(* The types of both halves.                                               *)
TypeOK ==
  /\ pc \in {"header", "node0", "leaf", "index", "folders", "files", "done"}
  /\ LeavesTypeOK /\ TreeTypeOK

(* The call returns on every image: links between leaf nodes that go in a  *)
(* circle are followed no further than the catalog has nodes, and the      *)
(* attaching of folders ends although on a corrupt catalog something is    *)
(* pending in every pass.                                                  *)
Terminates == <>(pc = "done")
=============================================================================
