------------------------------ MODULE ArchiveFS ------------------------------
(***************************************************************************)
(* The file sink and the tar and cpio filesystems.  The sink sends every   *)
(* record to the filesystem whose bind point is the longest prefix of its  *)
(* path and makes a node of it; build_format of one of the filesystems     *)
(* then sorts the tree, resolves the hard links and puts the headers in    *)
(* front of the data that is already on the volume.  Blocks stand for      *)
(* bytes: a header is one block, or two for a long path, and all files end *)
(* on a block (they are padded to one).                                    *)
(***************************************************************************)
EXTENDS FSTree, FiniteSets

CONSTANTS Filesystems,
          Kinds,         \* of filesystems: "tar", "cpio"
          BindScripts,   \* what the configuration binds: <<[prefix, fs], ...>>
          Records,       \* the records of the sources: [type, path, target, blocks]
          MaxRecs,       \* bound: how many records the sources have
          LongPath       \* paths with this many components need a longer header

VARIABLES kind,          \* of the filesystems
          script,        \* the bindings still to be made
          given,         \* all bindings of the configuration
          binds,         \* the list of the sink
          trees,         \* per filesystem, its tree
          added,         \* the records taken so far, as a set
          work,          \* the filesystem that is being built
          files,         \* files that have no header yet
          pc,
          result         \* ok, or what failed: add, links or format

vars == <<kind, script, given, binds, trees, added, work, files, pc, result>>

-----------------------------------------------------------------------------
(* file_sink_bind: a prefix that is bound already gets the new target. *)
file_sink_bind ==
  /\ pc = "bind" /\ script # <<>>
  /\ LET b   == Head(script)
         old == {i \in 1 .. Len(binds) : binds[i].prefix = b.prefix}
     IN binds' = IF old = {} THEN <<b>> \o binds
                 ELSE [binds EXCEPT ![CHOOSE i \in old : TRUE].fs = b.fs]
  /\ script' = Tail(script)
  /\ UNCHANGED <<kind, given, trees, added, work, files, pc, result>>

StartAdding ==
  /\ pc = "bind" /\ script = <<>>
  /\ pc' = "add"
  /\ UNCHANGED <<kind, script, given, binds, trees, added, work, files, result>>

\* Mutant: the first bind point that matches is taken.
bind_point_from_path_first(path) ==
  LET m == {i \in 1 .. Len(binds) :
              /\ Len(binds[i].prefix) < Len(path) /\ IsPrefix(binds[i].prefix, path)}
  IN IF m = {} THEN 0 ELSE CHOOSE i \in m : \A j \in m : i <= j

(* The longest bind point strictly above the path, 0 if there is none. *)
bind_point_from_path(path) ==
  LET m == {i \in 1 .. Len(binds) :
              /\ Len(binds[i].prefix) < Len(path) /\ IsPrefix(binds[i].prefix, path)}
  IN IF m = {} THEN 0
     ELSE CHOOSE i \in m : \A j \in m : Len(binds[j].prefix) <= Len(binds[i].prefix)

(* The path as the filesystem at bind point i sees it. *)
retarget_path(i, path) ==
  LET p == binds[i].prefix
  IN IF Len(p) < Len(path) /\ IsPrefix(p, path) THEN SubSeq(path, Len(p) + 1, Len(path))
     ELSE path

(* fstree_canonicalize_path: "" in front is a leading slash. *)
canonicalize(path) == SelectSeq(path, LAMBDA c : c \notin {"", "."})

(* One record of the loop in file_sink_add_data.  A node that cannot be    *)
(* made ends it.                                                           *)
AddRecord(rec) ==
  /\ pc = "add" /\ result = "ok" /\ Cardinality(added) < MaxRecs
  /\ added' = added \cup {rec}
  /\ \E i \in {bind_point_from_path(rec.path)} :
       \/ /\ i = 0
          /\ UNCHANGED <<trees, result>>
       \/ /\ i # 0 /\ rec.type \in {"symlink", "link"} /\ rec.target = <<>>
          /\ result' = "add"
          /\ UNCHANGED trees
       \/ /\ i # 0 /\ (rec.type \in {"symlink", "link"} => rec.target # <<>>)
          /\ LET f      == binds[i].fs
                 target == IF rec.type = "link"
                           THEN canonicalize(retarget_path(i, rec.target)) ELSE rec.target
             IN \E m \in {mknode_at(trees[f], retarget_path(i, rec.path), rec.type, target)} :
                  /\ trees' = [trees EXCEPT ![f] =
                                 IF m.n # 0 /\ rec.type = "file"
                                 THEN file_append(m.t, m.n, rec.blocks) ELSE m.t]
                  /\ result' = IF m.n = 0 THEN "add" ELSE "ok"
  /\ UNCHANGED <<kind, script, given, binds, work, files, pc>>

-----------------------------------------------------------------------------
(* build_format of filesystem f, of kind k: sorting and the targets of the *)
(* links.  The sink does not depend on the kind.                           *)
BuildFormat(f, k) ==
  /\ pc = "add" /\ result = "ok"
  /\ \E t \in {fstree_sort(trees[f])} : \E s \in {find_targets(t)} :
       /\ trees' = [trees EXCEPT ![f] = s.t]
       /\ result' = IF s.ok THEN "ok" ELSE "links"
  /\ work' = f /\ kind' = k /\ pc' = "links"
  /\ UNCHANGED <<script, given, binds, added, files>>

\* Mutant: that no link could be resolved is not noticed.
LinkPass_endless ==
  /\ pc = "links" /\ result = "ok"
  /\ \E p \in {link_pass(trees[work])} : \E c \in {count_links(p.t)} :
        \/ /\ p.remaining = 0
           /\ trees' = [trees EXCEPT ![work] = IF kind = "cpio" THEN create_inode_table(c) ELSE c]
           /\ pc' = "tree" /\ UNCHANGED result
        \/ /\ p.remaining # 0
           /\ trees' = [trees EXCEPT ![work] = p.t]
           /\ UNCHANGED <<result, pc>>
  /\ UNCHANGED <<kind, script, given, binds, added, work, files>>

(* The links to links, a pass at a time; when none are left the links are  *)
(* counted, and cpio numbers the inodes.                                   *)
LinkPass ==
  /\ pc = "links" /\ result = "ok"
  /\ \E p \in {link_pass(trees[work])} : \E c \in {count_links(p.t)} :
        \/ /\ p.remaining = 0
           /\ trees' = [trees EXCEPT ![work] = IF kind = "cpio" THEN create_inode_table(c) ELSE c]
           /\ pc' = "tree" /\ UNCHANGED result
        \/ /\ p.remaining # 0
           /\ trees' = [trees EXCEPT ![work] = p.t]
           /\ result' = IF p.resolved = 0 THEN "links" ELSE "ok"
           /\ UNCHANGED pc
  /\ UNCHANGED <<kind, script, given, binds, added, work, files>>

(* tarfs_write_header, tarfs_write_hard_link and cpio_write_header. *)
HeaderSize(t, n) == IF Len(get_path(t, n)) >= LongPath THEN 2 ELSE 1

Header(t, n) == [i \in 1 .. HeaderSize(t, n) |->
                   [k |-> IF i = 1 THEN "hdr" ELSE "cont", n |-> n, i |-> i]]

Headers(t, ns) == FlattenSeq([i \in 1 .. Len(ns) |-> Header(t, ns[i])])

Overwrite(vol, at, blocks) ==
  SubSeq(vol, 1, at) \o blocks \o SubSeq(vol, at + Len(blocks) + 1, Len(vol))

(* write_tree_dfs of tar: a directory in front of what is in it. *)
write_tree_dfs(t) ==
  LET dfs[n \in 1 .. Len(t.nodes)] ==
        (IF t.nodes[n].type \in {"file", "link"} \/ n = 1 THEN <<>> ELSE <<n>>)
          \o FlattenSeq([k \in 1 .. Len(t.nodes[n].kids) |-> dfs[t.nodes[n].kids[k]]])
  IN dfs[1]

(* write_tree of cpio: the inode table, then the links. *)
write_tree(t) ==
  SelectSeq(InodeTable(t), LAMBDA n : t.nodes[n].type # "file") \o t.bytype["link"]

(* What the format cannot store: tar no sockets, cpio only links to files. *)
CannotStore(t) ==
  IF kind = "tar" THEN t.bytype["socket"] # <<>>
  ELSE \E i \in 1 .. Len(t.bytype["link"]) :
         t.nodes[t.nodes[t.bytype["link"][i]].resolved].type # "file"

(* Everything but the files goes to the front of the volume. *)
WriteTree ==
  /\ pc = "tree" /\ result = "ok"
  /\ LET t == trees[work]
         h == Headers(t, IF kind = "tar" THEN write_tree_dfs(t) ELSE write_tree(t))
         g == add_gap(t, 0, Len(h))
     IN IF CannotStore(t)
        THEN result' = "format" /\ UNCHANGED <<trees, pc, files>>
        ELSE /\ trees' = [trees EXCEPT ![work] = [g EXCEPT !.vol = Overwrite(@, 0, h)]]
             /\ files' = t.bytype["file"]
             /\ pc' = "files" /\ UNCHANGED result
  /\ UNCHANGED <<kind, script, given, binds, added, work>>

(* insert_file_headers: a gap in front of the next file that has data. *)
InsertFileHeader ==
  /\ pc = "files" /\ files # <<>>
  /\ LET t  == trees[work]
         n  == Head(files)
         at == t.nodes[n].start
         h  == Header(t, n)
         g  == add_gap(t, at, Len(h))
     IN trees' = IF t.nodes[n].blocks = 0 THEN trees
                 ELSE [trees EXCEPT ![work] = [g EXCEPT !.vol = Overwrite(@, at, h)]]
  /\ files' = Tail(files)
  /\ UNCHANGED <<kind, script, given, binds, added, work, pc, result>>

(* The empty files, and the links of tar or the trailer of cpio, follow    *)
(* the data.                                                               *)
AppendRest ==
  /\ pc = "files" /\ files = <<>>
  /\ LET t     == trees[work]
         empty == SelectSeq(t.bytype["file"], LAMBDA n : t.nodes[n].blocks = 0)
         rest  == IF kind = "tar" THEN Headers(t, empty \o t.bytype["link"])
                  ELSE Headers(t, empty) \o <<[k |-> "trailer", n |-> 0, i |-> 0]>>
     IN trees' = [trees EXCEPT ![work].vol = @ \o rest]
  /\ pc' = "done"
  /\ UNCHANGED <<kind, script, given, binds, added, work, files, result>>

-----------------------------------------------------------------------------
Init ==
  /\ kind = "none" /\ work = 0
  /\ script \in BindScripts /\ given = script
  /\ binds = <<>> /\ added = {} /\ files = <<>>
  /\ trees = [f \in Filesystems |-> fstree_create]
  /\ pc = "bind" /\ result = "ok"

Build == LinkPass \/ WriteTree \/ InsertFileHeader \/ AppendRest

Next ==
  \/ file_sink_bind \/ StartAdding
  \/ \E rec \in Records : AddRecord(rec)
  \/ \E f \in Filesystems, k \in Kinds : BuildFormat(f, k)
  \/ Build

Spec == Init /\ [][Next]_vars /\ WF_vars(Build)

-----------------------------------------------------------------------------
Elems(s) == {s[i] : i \in 1 .. Len(s)}

(* The tree and the lists through it agree: every node is once in the list *)
(* of its parent and once in the list of its type, and siblings have       *)
(* different names.                                                        *)
TypeOK ==
  /\ pc \in {"bind", "add", "links", "tree", "files", "done"}
  /\ \A f \in Filesystems :
       LET t == trees[f]
           all == 1 .. Len(t.nodes)
       IN /\ \A n \in all :
               /\ Elems(t.nodes[n].kids) = {i \in all : t.nodes[i].parent = n}
               /\ IsInjective(t.nodes[n].kids)
               /\ t.nodes[n].kids # <<>> => t.nodes[n].type = "dir"
               /\ \A i, j \in Elems(t.nodes[n].kids) :
                    t.nodes[i].name = t.nodes[j].name => i = j
          /\ \A ty \in Types :
               /\ Elems(t.bytype[ty]) = {i \in all : t.nodes[i].type = ty}
               /\ IsInjective(t.bytype[ty])

(* Which filesystem a path belongs to, from the bindings as they were      *)
(* given: the longest prefix, and for one prefix the last binding.         *)
Above(path) == {i \in 1 .. Len(given) :
                  Len(given[i].prefix) < Len(path) /\ IsPrefix(given[i].prefix, path)}
Owner(path) ==
  CHOOSE i \in Above(path) : \A j \in Above(path) :
    \/ Len(given[j].prefix) < Len(given[i].prefix)
    \/ Len(given[j].prefix) = Len(given[i].prefix) /\ j <= i

\* A path with its ".." taken out.
Walk(path) == FoldLeft(LAMBDA s, c : IF c # ".." THEN Append(s, c)
                                     ELSE IF s = <<>> THEN s ELSE Front(s), <<>>, path)

InOwner(path) == SubSeq(path, Len(given[Owner(path)].prefix) + 1, Len(path))

(* After any number of records every filesystem holds exactly the paths    *)
(* bound to it, with the type of their records, and directories that were  *)
(* never named wherever a path needs one; a record that is in the way of   *)
(* an earlier one is an error and not dropped.                             *)
TreeMatchesRecords ==
  result # "add" =>
    \A f \in Filesystems :
      LET t     == trees[f]
          recs  == {r \in added : Above(r.path) # {} /\ given[Owner(r.path)].fs = f}
          named == {[path |-> Walk(InOwner(r.path)), type |-> r.type, implicit |-> FALSE] : r \in recs}
          dirs  == UNION {{Walk(SubSeq(InOwner(r.path), 1, k)) : k \in 0 .. Len(InOwner(r.path)) - 1} : r \in recs}
          paths == {x.path : x \in named}
      IN {[path |-> get_path(t, n), type |-> t.nodes[n].type, implicit |-> t.nodes[n].implicit] :
            n \in 2 .. Len(t.nodes)}
         = named \cup {[path |-> d, type |-> "dir", implicit |-> TRUE] : d \in dirs \ (paths \cup {<<>>})}

\* Where following links from link n gets to in at most k steps.
Links(t) == Elems(t.bytype["link"])
Reached(t, n) ==
  LET S[k \in 0 .. Cardinality(Links(t))] ==
        IF k = 0 THEN {LinkTarget(t, n)}
        ELSE UNION {{i} \cup (IF i \in Links(t) THEN {LinkTarget(t, i)} ELSE {}) : i \in S[k - 1]}
  IN S[Cardinality(Links(t))]

Dangling(t) == \E n \in Links(t) : LinkTarget(t, n) = 0
Cyclic(t)   == \E n \in Links(t) : n \in Reached(t, n)

(* Hard links end up at the node that following them leads to, in whatever *)
(* order and over however many other links, which is never a link itself,  *)
(* and every node counts the links that lead to it.  Resolving fails for a *)
(* target that is not there or a cycle, and for nothing else.              *)
LinksRight ==
  work # 0 =>
  LET t == trees[work]
  IN /\ result = "links" => Dangling(t) \/ Cyclic(t)
     /\ pc \in {"tree", "files", "done"} =>
          /\ ~Dangling(t) /\ ~Cyclic(t)
          /\ \A n \in Links(t) : t.nodes[n].resolved \in Reached(t, n) \ Links(t)
          /\ \A n \in 1 .. Len(t.nodes) :
               t.nodes[n].links = Len(SelectSeq(t.bytype["link"], LAMBDA l : t.nodes[l].resolved = n))

(* A hard link whose target, taken from the root, is not a link itself.    *)
Direct(t, n) ==
  LET to == node_from_path(t, 1, t.nodes[n].target, FALSE).n
  IN to # 0 /\ to \notin Links(t)

(* The finished image can be read from front to back: a header, the data   *)
(* that belongs to it in full and in order, the next header, to the end;   *)
(* it has every node of the tree once (tar leaves out the root), a direct  *)
(* hard link of tar comes after its target, and no two inodes of cpio have *)
(* the same number.                                                        *)
UnpackRight ==
  pc = "done" =>
    LET t    == trees[work]
        v    == t.vol
        hdrs == {p \in 1 .. Len(v) : v[p].k = "hdr"}
        data(n) == IF t.nodes[n].type = "file" THEN t.nodes[n].blocks ELSE 0
        entry(n) == Header(t, n) \o [i \in 1 .. data(n) |-> [k |-> "data", n |-> n, i |-> i]]
        end  == Len(v) + (IF kind = "cpio" THEN 0 ELSE 1)
    IN /\ end = 1 \/ 1 \in hdrs
       /\ \A p \in hdrs : /\ SubSeq(v, p, p + Len(entry(v[p].n)) - 1) = entry(v[p].n)
                          /\ p + Len(entry(v[p].n)) \in hdrs \cup {end}
       /\ {v[p].n : p \in hdrs} = (IF kind = "tar" THEN 2 ELSE 1) .. Len(t.nodes)
       /\ \A p, q \in hdrs : v[p].n = v[q].n => p = q
       /\ kind = "tar" => \A p, q \in hdrs :
            v[p].n \in Links(t) /\ Direct(t, v[p].n) /\ v[q].n = t.nodes[v[p].n].resolved => q < p
       /\ kind = "cpio" => {t.nodes[n].inode : n \in (1 .. Len(t.nodes)) \ Links(t)}
                             = 0 .. Len(t.nodes) - Len(t.bytype["link"]) - 1

(* build_format comes to an end, whatever the links are. *)
BuildEnds == pc = "links" ~> (pc = "done" \/ result # "ok")
=============================================================================
