---------------------------- MODULE FsDepTracker ----------------------------
(***************************************************************************)
(* fs_dep_tracker_t (lib/imgtool/fsdeptracker.c) and the configuration     *)
(* callbacks of lib/imgtool/state.c that feed it.  Reading the description *)
(* file builds a nest of volumes, partition managers, partitions,          *)
(* filesystems and files used as volumes; commit() then finishes all of    *)
(* them, one node of the tracker's graph at a time.                        *)
(*                                                                         *)
(* An object is its number in the order of creation.  The tracker keys its *)
(* nodes by type AND object: a partition that carries a filesystem has two *)
(* nodes, (partition, p) and (volume, p), with no edge between them.       *)
(***************************************************************************)
EXTENDS Integers, Sequences, SequencesExt, FiniteSets

CONSTANT MaxBlocks     \* bound: blocks in the description

ASSUME TrackerAssumption == MaxBlocks \in Nat

VARIABLES
  objs,     \* what was created: kind and the object it was created on
  open,     \* the blocks of the description the parser is in, innermost last
  left,     \* how many more blocks the description may have
  nodes,    \* tracker->nodes, in list order
  edges,    \* tracker->edges: <<node, depends_on>>
  phase,    \* "config", "commit", "done", "failed" or "cycle"
  built     \* history: the nodes commit() has finished, in order

vars == <<objs, open, left, nodes, edges, phase, built>>

Kinds == {"volume", "fs", "partition", "partmgr"}
OutFile == 1

Top == Last(open)
OnVolume == objs[Top].kind \in {"volume", "partition"}

\* Mutant: new nodes go to the end of the list.
get_by_ptr_last(list, node) ==
  IF \E k \in 1..Len(list) : list[k] = node THEN list ELSE list \o <<node>>

\* get_by_ptr: a node that is not known yet goes to the head of the list.
get_by_ptr(list, node) ==
  IF \E k \in 1..Len(list) : list[k] = node THEN list ELSE <<node>> \o list

\* add_dependency: first the child is looked up, then its parent.
add_dependency(child, parent) ==
  /\ nodes' = get_by_ptr(get_by_ptr(nodes, child), parent)
  /\ edges' = edges \cup {<<child, parent>>}

Node(type, obj) == [type |-> type, obj |-> obj]

Init ==
  /\ objs = <<[kind |-> "volume", on |-> OutFile]>>
  /\ open = <<OutFile>>
  /\ left = MaxBlocks
  /\ nodes = <<Node("volume", OutFile)>>
  /\ edges = {}
  /\ phase = "config"
  /\ built = <<>>

\* The parser enters a block, whose object is n.
Enter(n) ==
  /\ phase = "config"
  /\ left > 0
  /\ left' = left - 1
  /\ open' = Append(open, n)

\* A new object of this kind on the innermost block, whose block is entered;
\* the tracker is told that it depends on its parent as a node of type ptype.
Create(kind, ptype) ==
  LET n == Len(objs) + 1
  IN  /\ Enter(n)
      /\ objs' = Append(objs, [kind |-> kind, on |-> Top])
      /\ add_dependency(Node(kind, n), Node(ptype, Top))
      /\ UNCHANGED <<phase, built>>

cb_create_fs == OnVolume /\ Create("fs", "volume")
cb_create_part_mgr == OnVolume /\ Create("partmgr", "volume")
cb_create_partition == objs[Top].kind = "partmgr" /\ Create("partition", "partmgr")
cb_create_volumefile == objs[Top].kind = "fs" /\ Create("volume", "fs")

\* The "raw" volume hands out its parent again and registers nothing.
cb_create_volume ==
  /\ OnVolume
  /\ Enter(Top)
  /\ UNCHANGED <<objs, nodes, edges, phase, built>>

CloseBlock ==
  /\ phase = "config"
  /\ Len(open) > 1
  /\ open' = Front(open)
  /\ UNCHANGED <<objs, left, nodes, edges, phase, built>>

\* imgtool_state_process: the whole description has been read.
StartCommit ==
  /\ phase = "config"
  /\ Len(open) = 1
  /\ phase' = "commit"
  /\ UNCHANGED <<objs, open, left, nodes, edges, built>>

(***************************************************************************)
(* One round of the loop in dep_tracker_commit.                            *)
(***************************************************************************)
dep_count(node) == Cardinality({ e \in edges : e[2] = node })

Pick == SelectInSeq(nodes, LAMBDA x : dep_count(x) = 0)

\* Mutant: the edges of a finished node stay.
ResolveKeepsEdges ==
  /\ phase = "commit"
  /\ nodes # <<>>
  /\ Pick # 0
  /\ nodes' = RemoveAt(nodes, Pick)
  /\ built' = Append(built, nodes[Pick])
  /\ UNCHANGED <<objs, open, left, edges, phase>>

\* build_format() and commit() of the node succeed: it leaves the graph.
Resolve ==
  /\ phase = "commit"
  /\ nodes # <<>>
  /\ Pick # 0
  /\ nodes' = RemoveAt(nodes, Pick)
  /\ edges' = { e \in edges : e[1] # nodes[Pick] }
  /\ built' = Append(built, nodes[Pick])
  /\ UNCHANGED <<objs, open, left, phase>>

\* commit() returns -1: one of them fails, or every node is depended on.
GiveUp ==
  /\ phase = "commit"
  /\ nodes # <<>>
  /\ phase' = IF Pick = 0 THEN "cycle" ELSE "failed"
  /\ UNCHANGED <<objs, open, left, nodes, edges, built>>

\* Mutant: the loop goes on when the list is empty.
CommitNotDone == phase = "commit" /\ nodes = <<>> /\ UNCHANGED vars

CommitDone ==
  /\ phase = "commit"
  /\ nodes = <<>>
  /\ phase' = "done"
  /\ UNCHANGED <<objs, open, left, nodes, edges, built>>

Next ==
  \/ cb_create_fs \/ cb_create_part_mgr \/ cb_create_partition
  \/ cb_create_volumefile \/ cb_create_volume \/ CloseBlock \/ StartCommit
  \/ Resolve \/ GiveUp \/ CommitDone

\* The description is a finite file, and neither the parser nor commit() blocks.
Spec == Init /\ [][Next]_vars /\ WF_vars(Next)
-----------------------------------------------------------------------------
\* a lies on b, directly or through other objects.
Inside(a, b) ==
  LET up[x \in 1..Len(objs)] ==
        IF x = OutFile THEN FALSE ELSE objs[x].on = b \/ up[objs[x].on]
  IN  up[a]

\* fsdeptracker.h: commit() runs "in the correct dependency order": what lies on
\* a volume, partition or partition manager has been built before that is
\* committed.  The graph alone does not say so for a filesystem on a partition;
\* the order of the node list has to.
InnermostFirst ==
  \A i, j \in 1..Len(built) : i < j => ~Inside(built[j].obj, built[i].obj)

\* Nothing is finished twice (its reference would be dropped twice), when
\* commit() succeeds every object of the description has been finished, and a
\* description, being a nest of blocks, never looks like a cycle.
AllCommitted ==
  /\ phase # "cycle"
  /\ \A i, j \in 1..Len(built) : built[i] = built[j] => i = j
  /\ phase = "done" => \A o \in 1..Len(objs) : \E i \in 1..Len(built) : built[i].obj = o

\* commit() ends.
Terminates == <>(phase \in {"done", "failed"})
=============================================================================
