------------------------------- MODULE FSTree -------------------------------
(***************************************************************************)
(* The nodes of an fstree_t as operators: a tree is a record               *)
(*   [nodes, bytype, vol]                                                  *)
(* where node 1 is the root, a directory lists its children in the order   *)
(* of the linked list, bytype is nodes_by_type, and vol are the blocks of  *)
(* the volume up to data_offset.  A path is a sequence of components, as   *)
(* fstree_canonicalize_path leaves it (without "." and empty ones, with    *)
(* "..").  Of a file's data only the blocks are kept: FSTreeFiles has the  *)
(* rest.                                                                   *)
(***************************************************************************)
EXTENDS Integers, Sequences, SequencesExt, TLC

CONSTANT NameOrder     \* the names, in the order of strcmp

Types == {"dir", "file", "fifo", "socket", "dev", "symlink", "link"}

Node(type, name, parent) ==
  [type |-> type, name |-> name, parent |-> parent, kids |-> <<>>,
   implicit |-> FALSE, target |-> <<>>, resolved |-> 0, links |-> 0,
   inode |-> 0, start |-> 0, blocks |-> 0]

fstree_create ==
  [nodes  |-> <<[Node("dir", "", 0) EXCEPT !.implicit = TRUE]>>,
   bytype |-> [ty \in Types |-> IF ty = "dir" THEN <<1>> ELSE <<>>],
   vol    |-> <<>>]

\* The member of a set with one member.  {Step(a) : a \in {x}} makes TLC
\* evaluate x once, however often Step uses it.
Only(S) == CHOOSE x \in S : TRUE

Child(t, n, name) ==
  LET c == {i \in 2 .. Len(t.nodes) : t.nodes[i].parent = n /\ t.nodes[i].name = name}
  IN IF c = {} THEN 0 ELSE CHOOSE i \in c : TRUE

\* Mutant: the list by type is forgotten.
Insert_untyped(t, node) ==
  LET i == Len(t.nodes) + 1
  IN [t EXCEPT !.nodes = [Append(@, node) EXCEPT ![node.parent].kids = <<i>> \o @]]

\* A new node goes to the head of both lists it is in.
Insert(t, node) ==
  LET i == Len(t.nodes) + 1
  IN [t EXCEPT !.nodes = [Append(@, node) EXCEPT ![node.parent].kids = <<i>> \o @],
               !.bytype[node.type] = <<i>> \o @]

\* One component of a path.
PathStep(acc, c, create) ==
  LET node == acc.t.nodes[acc.n]
      it   == Child(acc.t, acc.n, c)
  IN IF acc.n = 0 THEN acc
     ELSE IF node.type # "dir" THEN [acc EXCEPT !.n = 0, !.err = "ENOTDIR"]
     ELSE IF c = ".." THEN [acc EXCEPT !.n = IF node.parent # 0 THEN node.parent ELSE @]
     ELSE IF it # 0 THEN [acc EXCEPT !.n = it]
     ELSE IF ~create THEN [acc EXCEPT !.n = 0, !.err = "ENOENT"]
     ELSE [acc EXCEPT !.t = Insert(@, [Node("dir", c, acc.n) EXCEPT !.implicit = TRUE]),
                      !.n = Len(acc.t.nodes) + 1]

(* fstree_node_from_path: [t, n, err], n = 0 if there is no such node. *)
node_from_path(t, root, path, create) ==
  FoldLeft(LAMBDA a, c : Only({PathStep(acc, c, create) : acc \in {a}}),
           [t |-> t, n |-> root, err |-> ""], path)

\* What mknode_at does if the name is taken: only a directory that was made
\* on the way to something else may still be added.
Existing(t, i, type) ==
  IF t.nodes[i].type = "dir" /\ type = "dir" /\ t.nodes[i].implicit
  THEN [t |-> [t EXCEPT !.nodes[i].implicit = FALSE], n |-> i, err |-> ""]
  ELSE [t |-> t, n |-> 0, err |-> "EEXIST"]

\* The node itself, once the directory p.n it belongs to is there.
AddChild(p, name, type, target) ==
  LET old == Child(p.t, p.n, name)
  IN IF p.n = 0 THEN p
     ELSE IF p.t.nodes[p.n].type # "dir" THEN [p EXCEPT !.n = 0, !.err = "ENOTDIR"]
     ELSE IF old # 0 THEN Existing(p.t, old, type)
     ELSE [t |-> Insert(p.t, [Node(type, name, p.n) EXCEPT !.target = target]),
           n |-> Len(p.t.nodes) + 1, err |-> ""]

(* mknode_at: the directories above are created, then the node.  A failing *)
(* call leaves the directories behind.                                     *)
mknode_at(t, path, type, target) ==
  Only({AddChild(p, path[Len(path)], type, target) :
          p \in {node_from_path(t, 1, Front(path), TRUE)}})

(* fstree_file_append for a file that was just created: its blocks go to   *)
(* the end of the data.                                                    *)
file_append(t, n, count) ==
  IF count = 0 THEN t
  ELSE [t EXCEPT !.nodes[n].start = Len(t.vol), !.nodes[n].blocks = count,
                 !.vol = @ \o [i \in 1 .. count |-> [k |-> "data", n |-> n, i |-> i]]]

(* fstree_get_path, made canonical by its callers. *)
get_path(t, n) ==
  LET path[i \in 1 .. Len(t.nodes)] ==
        IF t.nodes[i].parent = 0 THEN <<>>
        ELSE Append(path[t.nodes[i].parent], t.nodes[i].name)
  IN path[n]

-----------------------------------------------------------------------------
Rank(name) == CHOOSE i \in 1 .. Len(NameOrder) : NameOrder[i] = name

\* The nodes below the root that satisfy a type, each directory's children
\* before those of its subdirectories (linearize_dir_tree, map_inodes_dfs).
Linear(t, types) ==
  LET in(s) == SelectSeq(s, LAMBDA i : t.nodes[i].type \in types)
      dirs(s) == SelectSeq(s, LAMBDA i : t.nodes[i].type = "dir")
      list[i \in 1 .. Len(t.nodes)] ==
        in(t.nodes[i].kids)
          \o FlattenSeq([k \in 1 .. Len(dirs(t.nodes[i].kids)) |-> list[dirs(t.nodes[i].kids)[k]]])
  IN list[1]

(* fstree_sort: the children of every directory by name, and the lists by  *)
(* type rebuilt from them, the root in front of the directories.           *)
SortKids(t) ==
  LET by(i, j) == Rank(t.nodes[i].name) < Rank(t.nodes[j].name)
  IN [t EXCEPT !.nodes = [i \in 1 .. Len(@) |-> [@[i] EXCEPT !.kids = SortSeq(@, by)]]]

Relist(t) ==
  [t EXCEPT !.bytype = [ty \in Types |-> IF ty = "dir" THEN <<1>> \o Linear(t, {ty})
                                         ELSE Linear(t, {ty})]]

fstree_sort(t) == Only({Relist(s) : s \in {SortKids(t)}})

\* Where a hard link points: a path from the root, or else from its directory.
LinkTarget(t, i) ==
  LET abs == node_from_path(t, 1, t.nodes[i].target, FALSE).n
      rel == node_from_path(t, t.nodes[i].parent, t.nodes[i].target, FALSE).n
  IN IF abs # 0 THEN abs ELSE rel

(* The first loop of fstree_resolve_hard_links, [t, ok]. *)
find_targets(t) ==
  LET links == {i \in 1 .. Len(t.nodes) : t.nodes[i].type = "link"}
  IN [t |-> [t EXCEPT !.nodes = [i \in 1 .. Len(@) |->
               IF i \in links THEN [@[i] EXCEPT !.resolved = LinkTarget(t, i)] ELSE @[i]]],
      ok |-> \A i \in links : LinkTarget(t, i) # 0]

\* Mutant: links that still point to a link are not counted.
LinkStep_once(acc, i) ==
  LET to == acc.t.nodes[i].resolved
  IN IF acc.t.nodes[to].type # "link" THEN acc
     ELSE [acc EXCEPT !.t.nodes[i].resolved = acc.t.nodes[to].resolved,
                      !.resolved = @ + 1]

\* A link to a link takes over what that one points to at that moment.
LinkStep(acc, i) ==
  LET to   == acc.t.nodes[i].resolved
      next == acc.t.nodes[to].resolved
      left == IF acc.t.nodes[next].type = "link" THEN 1 ELSE 0
  IN IF acc.t.nodes[to].type # "link" THEN acc
     ELSE [acc EXCEPT !.t.nodes[i].resolved = next,
                      !.remaining = @ + left, !.resolved = @ + 1 - left]

(* One pass of the second: [t, remaining, resolved]. *)
link_pass(t) ==
  FoldLeft(LAMBDA a, i : Only({LinkStep(acc, i) : acc \in {a}}),
           [t |-> t, remaining |-> 0, resolved |-> 0], t.bytype["link"])

(* And the third. *)
count_links(t) ==
  LET to(n) == SelectSeq(t.bytype["link"], LAMBDA l : t.nodes[l].resolved = n)
  IN [t EXCEPT !.nodes = [n \in 1 .. Len(@) |-> [@[n] EXCEPT !.links = @ + Len(to(n))]]]

(* fstree_create_inode_table: the root is 0. *)
InodeTable(t) == <<1>> \o Linear(t, Types \ {"link"})

NumberInodes(t, table) ==
  [t EXCEPT !.nodes = [n \in 1 .. Len(@) |->
     IF @[n].type = "link" THEN @[n]
     ELSE [@[n] EXCEPT !.inode = (CHOOSE k \in 1 .. Len(table) : table[k] = n) - 1]]]

create_inode_table(t) == Only({NumberInodes(t, table) : table \in {InodeTable(t)}})

\* Mutant: the file right at the gap keeps its place.
add_gap_behind(t, index, size) ==
  LET free  == [i \in 1 .. size |-> [k |-> "free", n |-> 0, i |-> 0]]
      moved == {f \in 1 .. Len(t.nodes) : t.nodes[f].type = "file" /\ t.nodes[f].start > index}
  IN [t EXCEPT
        !.vol = SubSeq(@, 1, index) \o free \o SubSeq(@, index + 1, Len(@)),
        !.nodes = [i \in 1 .. Len(@) |->
                     IF i \in moved THEN [@[i] EXCEPT !.start = @ + size] ELSE @[i]]]

(* fstree_add_gap inside the data or at its end. *)
add_gap(t, index, size) ==
  LET free  == [i \in 1 .. size |-> [k |-> "free", n |-> 0, i |-> 0]]
      moved == {f \in 1 .. Len(t.nodes) :
                  /\ index < Len(t.vol)
                  /\ t.nodes[f].type = "file" /\ t.nodes[f].start >= index}
  IN [t EXCEPT
        !.vol = SubSeq(@, 1, index) \o free \o SubSeq(@, index + 1, Len(@)),
        !.nodes = [i \in 1 .. Len(@) |->
                     IF i \in moved THEN [@[i] EXCEPT !.start = @ + size] ELSE @[i]]]
=============================================================================
