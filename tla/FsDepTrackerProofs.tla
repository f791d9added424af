------------------------ MODULE FsDepTrackerProofs -------------------------
(***************************************************************************)
(* The tracker commits the innermost objects first, every one of them and  *)
(* none twice, whatever the description nests.  The edges alone do not say *)
(* so: a partition has two nodes with no edge between them, and the order  *)
(* of the list has to make up for it.                                      *)
(***************************************************************************)
EXTENDS FsDepTracker, TLAPS, FiniteSetTheorems, SequenceTheorems, DataLemmas

Objs == 1..Len(objs)

\* The node an object got when it was created, and the node it depends on.
Own(x) == Node(objs[x].kind, x)
Par(x) ==
  Node(IF objs[objs[x].on].kind = "partition" THEN "volume" ELSE objs[objs[x].on].kind,
       objs[x].on)

Listed(n) == \E i \in 1..Len(nodes) : nodes[i] = n

\* A node stands for its object as what it is, or for a partition as a volume.
Proper(n) ==
  /\ n \in [type : Kinds, obj : Objs]
  /\ \/ n.type = objs[n.obj].kind
     \/ n.type = "volume" /\ objs[n.obj].kind = "partition"

\* What each kind of object is created on.
Fits(x) ==
  LET parent == objs[objs[x].on].kind
  IN  /\ objs[x].kind \in {"fs", "partmgr"} => parent \in {"volume", "partition"}
      /\ objs[x].kind = "partition" => parent = "partmgr"
      /\ objs[x].kind = "volume" => parent = "fs"

\* The objects are numbered in the order of creation, on what was there.
NestOK ==
  /\ objs \in Seq([kind : Kinds, on : Nat])
  /\ Len(objs) >= 1 /\ objs[OutFile].kind = "volume"
  /\ \A x \in 2..Len(objs) : objs[x].on \in 1..(x - 1) /\ Fits(x)
  /\ open \in Seq(Objs) /\ Len(open) >= 1
  /\ phase \in {"config", "commit", "done", "failed"}

GraphOK ==
  /\ nodes \in Seq([type : Kinds, obj : Objs])
  /\ built \in Seq([type : Kinds, obj : Objs])
  /\ \A i \in 1..Len(nodes) : Proper(nodes[i])
  /\ \A x \in Objs : Listed(Own(x)) \/ \E k \in 1..Len(built) : built[k] = Own(x)
  /\ edges = { <<Own(x), Par(x)>> : x \in { y \in 2..Len(objs) : Listed(Own(y)) } }
  /\ phase = "config" => built = <<>>
  /\ phase = "done" => nodes = <<>>

\* No node is there twice, in the list or among the finished ones.
Distinct ==
  /\ \A i, j \in 1..Len(nodes) : nodes[i] = nodes[j] => i = j
  /\ \A i, j \in 1..Len(built) : built[i] = built[j] => i = j
  /\ \A i \in 1..Len(nodes), j \in 1..Len(built) : nodes[i] # built[j]

\* Whatever was put into the list after an object was created is in front of it.
ListOrder ==
  \A i, j \in 1..Len(nodes) :
    /\ nodes[j] = Own(nodes[j].obj)
    /\ nodes[i].obj > nodes[j].obj \/ (nodes[i].obj = nodes[j].obj /\ i # j)
    => i < j

\* What lies directly on a finished object was finished before, with all its nodes.
ChildrenFirst ==
  \A k \in 1..Len(built) : \A x \in 2..Len(objs) :
    objs[x].on = built[k].obj =>
      /\ \A i \in 1..Len(nodes) : nodes[i].obj # x
      /\ \A j \in 1..Len(built) : built[j].obj = x => j < k

TrackerInv == NestOK /\ GraphOK /\ Distinct /\ ListOrder /\ ChildrenFirst
-----------------------------------------------------------------------------
\* The equation of the recursive function in Inside.
UpEquation(b, h) ==
  h = [x \in 1..Len(objs) |-> IF x = OutFile THEN FALSE ELSE objs[x].on = b \/ h[objs[x].on]]

\* The recursive definition of Inside defines a function: that of the objects
\* that are in every set closed under lying on b or on a member.
LEMMA InsideDefined ==
  ASSUME NestOK, NEW b
  PROVE  \E h : UpEquation(b, h)
<1> DEFINE Closed(T) == \A x \in 2..Len(objs) : objs[x].on = b \/ objs[x].on \in T => x \in T
           In(x) == \A T \in SUBSET (1..Len(objs)) : Closed(T) => x \in T
           h == [x \in 1..Len(objs) |-> In(x)]
<1>1. Len(objs) \in Nat /\ \A x \in 2..Len(objs) : objs[x].on \in 1..(x - 1)
  BY DEF NestOK
<1>2. ~In(OutFile)
  <2>1. Closed(2..Len(objs))
    OBVIOUS
  <2>2. 2..Len(objs) \in SUBSET (1..Len(objs)) /\ OutFile \notin 2..Len(objs)
    BY <1>1 DEF OutFile
  <2> HIDE DEF Closed
  <2> QED BY <2>1, <2>2
<1>3. ASSUME NEW x \in 2..Len(objs)
      PROVE  In(x) <=> objs[x].on = b \/ In(objs[x].on)
  <2>1. objs[x].on = b \/ In(objs[x].on) => In(x)
    OBVIOUS
  <2>2. ASSUME objs[x].on # b, ~In(objs[x].on) PROVE ~In(x)
    <3>1. PICK T \in SUBSET (1..Len(objs)) : Closed(T) /\ objs[x].on \notin T
      BY <2>2
    <3>2. Closed(T \ {x})
      BY <3>1, <2>2
    <3> QED BY <3>2, T \ {x} \in SUBSET (1..Len(objs))
  <2> QED BY <2>1, <2>2
<1> HIDE DEF In
<1>4. \A x \in 1..Len(objs) : h[x] = In(x)
  OBVIOUS
<1>5. \A x \in 1..Len(objs) :
        In(x) = IF x = OutFile THEN FALSE ELSE objs[x].on = b \/ h[objs[x].on]
  <2> SUFFICES ASSUME NEW x \in 1..Len(objs), x # OutFile
               PROVE  In(x) = (objs[x].on = b \/ h[objs[x].on])
    BY <1>2 DEF In
  <2>1. x \in 2..Len(objs) /\ objs[x].on \in 1..Len(objs)
    BY <1>1 DEF OutFile
  <2>2. h[objs[x].on] = In(objs[x].on)
    BY <1>4, <2>1
  <2> QED BY <1>3, <2>1, <2>2 DEF In
<1>6. h = [x \in 1..Len(objs) |-> IF x = OutFile THEN FALSE ELSE objs[x].on = b \/ h[objs[x].on]]
  BY <1>5
<1> QED BY <1>6 DEF UpEquation

\* What lies inside b is in every set that is closed in this way.
LEMMA InsideClosed ==
  ASSUME NestOK, NEW b, NEW a \in Objs, NEW S, Inside(a, b),
         \A x \in 2..Len(objs) : objs[x].on = b \/ objs[x].on \in S => x \in S
  PROVE  a \in S
<1> DEFINE up == CHOOSE h : UpEquation(b, h)
<1>1. Len(objs) \in Nat /\ \A x \in 2..Len(objs) : objs[x].on \in 1..(x - 1)
  BY DEF NestOK
<1>2. UpEquation(b, up)
  BY InsideDefined
<1>3. up[a]
  BY DEF Inside, UpEquation
<1> HIDE DEF up
<1>4. \A x \in 1..Len(objs) :
        up[x] = IF x = OutFile THEN FALSE ELSE objs[x].on = b \/ up[objs[x].on]
  BY <1>2 DEF UpEquation
<1> SUFFICES ASSUME a \notin S PROVE FALSE
  OBVIOUS
<1> DEFINE Bad == { x \in 1..Len(objs) : up[x] /\ x \notin S }
<1>5. Bad \subseteq Nat /\ a \in Bad
  BY <1>1, <1>3 DEF Objs
<1>6. PICK x \in Bad : \A y \in Bad : x <= y
  BY <1>5, NatLeast
<1>7. x # OutFile /\ (objs[x].on = b \/ up[objs[x].on])
  BY <1>4, <1>6
<1>8. x \in 2..Len(objs) /\ objs[x].on \in 1..(x - 1)
  BY <1>1, <1>6, <1>7 DEF OutFile
<1>9. objs[x].on \notin Bad
  BY <1>1, <1>6, <1>8
<1> QED BY <1>1, <1>6, <1>7, <1>8, <1>9
-----------------------------------------------------------------------------
\* The edges are finite, so that a count of 0 means that there is none.
LEMMA CountZero ==
  ASSUME GraphOK, NEW n
  PROVE  /\ dep_count(n) = 0 <=> \A e \in edges : e[2] # n
         /\ dep_count(n) = 0 <=> \A x \in 2..Len(objs) : Listed(Own(x)) => Par(x) # n
<1> DEFINE Xs == { y \in 2..Len(objs) : Listed(Own(y)) }
           E == { e \in edges : e[2] = n }
<1>1. IsFiniteSet(2..Len(objs))
  BY FS_Interval DEF GraphOK
<1>2. IsFiniteSet(Xs)
  BY <1>1, FS_Subset
<1>3. edges = { <<Own(x), Par(x)>> : x \in Xs }
  BY DEF GraphOK
<1>4. IsFiniteSet(edges)
  <2> DEFINE f == [x \in Xs |-> <<Own(x), Par(x)>>]
  <2>1. f \in Surjection(Xs, edges)
    BY <1>3 DEF Surjection
  <2> QED BY <1>2, <2>1, FS_Surjection
<1>5. IsFiniteSet(E)
  BY <1>4, FS_Subset
<1>6. dep_count(n) = 0 <=> E = {}
  BY <1>5, FS_EmptySet DEF dep_count
<1>7. E = {} <=> \A e \in edges : e[2] # n
  OBVIOUS
<1>8. (\A e \in edges : e[2] # n) <=> \A x \in Xs : Par(x) # n
  <2>1. \A x \in Xs : <<Own(x), Par(x)>> \in edges /\ <<Own(x), Par(x)>>[2] = Par(x)
    BY <1>3
  <2>2. \A e \in edges : \E x \in Xs : e[2] = Par(x)
    BY <1>3
  <2> QED BY <2>1, <2>2
<1> QED BY <1>6, <1>7, <1>8

\* The node the round picks is the first one that nothing depends on.
LEMMA PickFirst ==
  ASSUME GraphOK
  PROVE  /\ Pick \in 0..Len(nodes)
         /\ Pick = 0 => \A i \in 1..Len(nodes) : dep_count(nodes[i]) # 0
         /\ Pick # 0 => /\ dep_count(nodes[Pick]) = 0
                        /\ \A i \in 1..(Pick - 1) : dep_count(nodes[i]) # 0
<1> DEFINE I == { i \in 1..Len(nodes) : dep_count(nodes[i]) = 0 }
<1>1. Len(nodes) \in Nat
  BY DEF GraphOK
<1>2. Pick = IF I # {} THEN Min(I) ELSE 0
  BY DEF Pick, SelectInSeq
<1>3. I # {} => Min(I) \in I /\ \A i \in I : Min(I) <= i
  BY <1>1, MinIsLeast
<1>4. CASE I = {}
  BY <1>1, <1>2, <1>4
<1>5. CASE I # {}
  <2>1. Pick \in I /\ \A i \in I : Pick <= i
    BY <1>2, <1>3, <1>5
  <2>2. \A i \in 1..(Pick - 1) : i \in 1..Len(nodes) /\ i \notin I
    BY <1>1, <2>1
  <2> QED BY <1>1, <2>1, <2>2
<1> QED BY <1>4, <1>5

\* The numbers in the state, in the form the arithmetic of the proofs needs.
LEMMA Shape ==
  ASSUME TrackerInv
  PROVE  /\ Len(objs) \in Nat \ {0} /\ Len(nodes) \in Nat /\ Len(built) \in Nat
         /\ nodes # <<>> => Len(nodes) # 0
         /\ \A k \in 1..Len(nodes) : nodes[k].obj \in 1..Len(objs) /\ nodes[k].obj \in Nat
         /\ \A k \in 1..Len(built) : built[k].obj \in 1..Len(objs) /\ built[k].obj \in Nat
         /\ \A x \in 2..Len(objs) :
              objs[x].on \in 1..Len(objs) /\ objs[x].on \in Nat /\ objs[x].on < x
<1>1. Len(objs) \in Nat /\ Len(objs) >= 1
  BY DEF TrackerInv, NestOK
<1>2. /\ Len(nodes) \in Nat /\ Len(built) \in Nat
      /\ nodes # <<>> => Len(nodes) # 0
  BY DEF TrackerInv, GraphOK
<1>3. /\ \A k \in 1..Len(nodes) : nodes[k] \in [type : Kinds, obj : Objs]
      /\ \A k \in 1..Len(built) : built[k] \in [type : Kinds, obj : Objs]
  <2>1. /\ nodes \in Seq([type : Kinds, obj : Objs])
        /\ built \in Seq([type : Kinds, obj : Objs])
    BY DEF TrackerInv, GraphOK
  <2> QED BY <2>1, ElementOfSeq
<1>4. \A x \in 2..Len(objs) : objs[x].on \in 1..(x - 1)
  BY DEF TrackerInv, NestOK
<1> QED BY <1>1, <1>2, <1>3, <1>4 DEF Objs

\* Nothing that is listed lies directly on the object of the node the round picks.
LEMMA PickedIsInnermost ==
  ASSUME TrackerInv, Pick # 0, NEW y \in 2..Len(objs), objs[y].on = nodes[Pick].obj
  PROVE  \A i \in 1..Len(nodes) : nodes[i].obj # y
<1> DEFINE N == nodes[Pick]
           x == N.obj
<1>1. /\ Len(objs) \in Nat /\ Len(nodes) \in Nat
      /\ Pick \in 1..Len(nodes) /\ Proper(N) /\ x \in 1..Len(objs)
  BY PickFirst, Shape DEF TrackerInv, GraphOK
<1>2. /\ \A i \in 1..(Pick - 1) : dep_count(nodes[i]) # 0
      /\ dep_count(N) = 0
  BY PickFirst DEF TrackerInv
<1>3. /\ \A z \in 2..Len(objs) : objs[z].on \in Nat /\ objs[z].on < z
      /\ \A k \in 1..Len(nodes) : nodes[k].obj \in 1..Len(objs) /\ nodes[k].obj \in Nat
  BY Shape
<1> SUFFICES ASSUME NEW i \in 1..Len(nodes), nodes[i].obj = y PROVE FALSE
  OBVIOUS
<1>4. CASE N = Own(x)
  <2> DEFINE Later(k) == k # Pick /\ nodes[k].obj >= x
             M == { nodes[k].obj : k \in { l \in 1..Len(nodes) : Later(l) } }
  <2>1. i \in { l \in 1..Len(nodes) : Later(l) }
    BY <1>1, <1>3
  <2>2. M \subseteq 0..Len(objs) /\ M # {}
    <3>1. nodes[i].obj \in M
      BY <2>1
    <3> QED BY <1>3, <3>1
  <2>3. PICK m \in M : \A l \in M : l <= m
    BY <1>1, <2>2, NatGreatest
  <2>4. PICK k \in 1..Len(nodes) : Later(k) /\ nodes[k].obj = m
    BY <2>3
  <2>5. \A l \in 1..Len(nodes) : Later(l) => l < Pick /\ nodes[l].obj \in M
    BY <1>1, <1>3, <1>4 DEF TrackerInv, ListOrder
  <2>6. dep_count(nodes[k]) # 0
    <3>1. k \in 1..(Pick - 1)
      BY <1>1, <2>4, <2>5
    <3> QED BY <1>2, <3>1
  <2>7. PICK z \in 2..Len(objs) : Listed(Own(z)) /\ Par(z) = nodes[k]
    BY <2>6, CountZero DEF TrackerInv
  <2>8. objs[z].on = m
    BY <2>4, <2>7 DEF Par, Node
  <2>9. PICK l \in 1..Len(nodes) : nodes[l] = Own(z)
    BY <2>7 DEF Listed
  <2>10. nodes[l].obj = z
    BY <2>9 DEF Own, Node
  <2>11. z > m /\ m >= x /\ m \in Nat
    BY <1>1, <1>3, <2>2, <2>3, <2>4, <2>8
  <2>12. Later(l) /\ nodes[l].obj > m
    BY <1>1, <2>10, <2>11
  <2>13. nodes[l].obj <= m
    BY <2>3, <2>5, <2>12
  <2> QED BY <1>3, <2>11, <2>12, <2>13
<1>5. CASE N # Own(x)
  <2>1. objs[x].kind = "partition" /\ N = Node("volume", x)
    BY <1>1, <1>5 DEF Proper, Own, Node
  <2>2. Par(y) = N
    BY <2>1 DEF Par
  <2>3. ~Listed(Own(y))
    BY <1>2, <2>2, CountZero DEF TrackerInv
  <2>4. objs[y].kind # "partition"
    BY <2>1 DEF TrackerInv, NestOK, Fits
  <2>5. nodes[i] = Own(y)
    BY <2>4 DEF TrackerInv, GraphOK, Proper, Own, Node
  <2> QED BY <2>3, <2>5 DEF Listed
<1> QED BY <1>4, <1>5

\* As long as nodes are listed, one of them can be picked.
LEMMA NoCycle ==
  ASSUME TrackerInv, nodes # <<>>
  PROVE  Pick # 0
<1> SUFFICES ASSUME Pick = 0 PROVE FALSE
  OBVIOUS
<1>1. /\ Len(objs) \in Nat /\ Len(nodes) \in Nat \ {0}
      /\ \A k \in 1..Len(nodes) : nodes[k].obj \in 1..Len(objs)
  BY Shape
<1> DEFINE M == { nodes[k].obj : k \in 1..Len(nodes) }
<1>2. M \subseteq 0..Len(objs) /\ M # {}
  <2>1. nodes[1].obj \in M
    BY <1>1
  <2> QED BY <1>1, <2>1
<1>3. PICK m \in M : \A l \in M : l <= m
  BY <1>1, <1>2, NatGreatest
<1>4. PICK k \in 1..Len(nodes) : nodes[k].obj = m
  BY <1>3
<1>5. dep_count(nodes[k]) # 0
  BY PickFirst DEF TrackerInv
<1>6. PICK z \in 2..Len(objs) : Listed(Own(z)) /\ Par(z) = nodes[k]
  BY <1>5, CountZero DEF TrackerInv
<1>7. PICK l \in 1..Len(nodes) : nodes[l] = Own(z)
  BY <1>6 DEF Listed
<1>8. objs[z].on = m /\ nodes[l].obj = z
  BY <1>4, <1>6, <1>7 DEF Own, Par, Node
<1>9. m \in Nat /\ z \in Nat /\ m < z
  BY <1>8, Shape
<1>10. z \in M
  BY <1>7, <1>8
<1>11. z <= m
  BY <1>3, <1>10
<1> QED BY <1>9, <1>11
-----------------------------------------------------------------------------
\* The tracker starts with the node of the output file alone.
LEMMA InitTracker ==
  ASSUME Init
  PROVE  TrackerInv
<1> USE DEF Init, OutFile, Node
<1>1. NestOK
  BY DEF NestOK, Objs, Kinds
<1>2. Own(1) = nodes[1] /\ Len(objs) = 1 /\ Len(nodes) = 1 /\ Len(built) = 0
  BY DEF Own
<1>3. GraphOK
  <2>1. nodes \in Seq([type : Kinds, obj : Objs]) /\ built \in Seq([type : Kinds, obj : Objs])
    BY DEF Kinds, Objs
  <2>2. \A i \in 1..Len(nodes) : Proper(nodes[i])
    BY DEF Proper, Kinds, Objs
  <2>3. \A x \in Objs : Listed(Own(x))
    BY <1>2 DEF Objs, Listed
  <2>4. 2..Len(objs) = {}
    BY <1>2
  <2> QED BY <2>1, <2>2, <2>3, <2>4 DEF GraphOK
<1>4. Distinct /\ ListOrder /\ ChildrenFirst
  BY <1>2 DEF Distinct, ListOrder, ChildrenFirst
<1> QED BY <1>1, <1>3, <1>4 DEF TrackerInv

\* A new object leaves the others, their nodes and what those depend on as they are.
LEMMA CreateKeepsObjects ==
  ASSUME TrackerInv, NEW kind \in Kinds, NEW ptype, Create(kind, ptype),
         NEW n, n = Len(objs) + 1
  PROVE  /\ objs' \in Seq([kind : Kinds, on : Nat]) /\ Len(objs') = n
         /\ objs'[n] = [kind |-> kind, on |-> Top]
         /\ \A x \in 1..Len(objs) : objs'[x] = objs[x] /\ Own(x)' = Own(x)
         /\ \A x \in 2..Len(objs) : Par(x)' = Par(x)
         /\ Own(n)' = Node(kind, n)
         /\ Top \in 1..Len(objs) /\ Top \in Nat
<1> DEFINE new == [kind |-> kind, on |-> Top]
<1>1. /\ open \in Seq(Objs) /\ Len(open) >= 1 /\ Len(objs) \in Nat
      /\ objs \in Seq([kind : Kinds, on : Nat])
  BY DEF TrackerInv, NestOK
<1>2. Top \in 1..Len(objs) /\ Top \in Nat
  BY <1>1 DEF Top, Last, Objs
<1>3. objs' = Append(objs, new) /\ new \in [kind : Kinds, on : Nat]
  BY <1>2 DEF Create
<1>4. /\ objs' \in Seq([kind : Kinds, on : Nat]) /\ Len(objs') = n
      /\ objs'[n] = new
      /\ \A x \in 1..Len(objs) : objs'[x] = objs[x]
  BY <1>1, <1>3
<1>5. \A x \in 1..Len(objs) : Own(x)' = Own(x)
  BY <1>4 DEF Own
<1>6. \A x \in 2..Len(objs) : Par(x)' = Par(x)
  <2> TAKE x \in 2..Len(objs)
  <2>1. x \in 1..Len(objs) /\ objs[x].on \in 1..Len(objs)
    BY <1>1, Shape
  <2> QED BY <1>4, <2>1 DEF Par
<1>7. Own(n)' = Node(kind, n)
  BY <1>1, <1>4 DEF Own
<1> QED BY <1>2, <1>4, <1>5, <1>6, <1>7

\* The list grows at its head: by the node of the new object and, in front of it,
\* by that of its parent when this is not in the list.
LEMMA CreateGrowsList ==
  ASSUME TrackerInv, NEW kind \in Kinds, NEW ptype, Create(kind, ptype)
  PROVE  LET own == Node(kind, Len(objs) + 1)
             par == Node(ptype, Top)
             d == IF Listed(par) THEN 1 ELSE 2
         IN  /\ Len(nodes') = Len(nodes) + d
             /\ \A i \in 1..Len(nodes) : nodes'[i + d] = nodes[i]
             /\ nodes'[d] = own
             /\ d = 2 => nodes'[1] = par
             /\ nodes' \in Seq({own, par} \cup [type : Kinds, obj : Objs])
<1> DEFINE own == Node(kind, Len(objs) + 1)
           par == Node(ptype, Top)
           T == { own, par } \cup [type : Kinds, obj : Objs]
<1>1. Len(objs) \in Nat /\ Len(nodes) \in Nat /\ Top \in 1..Len(objs)
  BY Shape, CreateKeepsObjects
<1>2. nodes \in Seq([type : Kinds, obj : Objs])
  BY DEF TrackerInv, GraphOK
<1>3. \A i \in 1..Len(nodes) : nodes[i].obj \in 1..Len(objs)
  BY Shape
<1>4. own.obj = Len(objs) + 1 /\ par.obj = Top
  BY DEF Node
<1>5. ~Listed(own) /\ own # par
  BY <1>1, <1>3, <1>4 DEF Listed
<1> HIDE DEF own, par
<1>6. get_by_ptr(nodes, own) = <<own>> \o nodes
  BY <1>5 DEF get_by_ptr, Listed
<1>7. nodes \in Seq(T)
  <2>1. \A i \in 1..Len(nodes) : nodes[i] \in T
    BY <1>2, ElementOfSeq
  <2> QED BY <1>2, <2>1
<1> DEFINE one == <<own>> \o nodes
<1>8. /\ one \in Seq(T) /\ Len(one) = Len(nodes) + 1 /\ one[1] = own
      /\ \A i \in 1..Len(nodes) : one[i + 1] = nodes[i]
  BY <1>1, <1>7
<1> HIDE DEF one, T
<1>9. (\E k \in 1..Len(one) : one[k] = par) <=> Listed(par)
  <2>1. ASSUME NEW k \in 1..Len(one), one[k] = par PROVE Listed(par)
    <3>1. k - 1 \in 1..Len(nodes) /\ one[k] = nodes[k - 1]
      BY <1>1, <1>5, <1>8, <2>1
    <3> QED BY <2>1, <3>1 DEF Listed
  <2>2. ASSUME NEW k \in 1..Len(nodes), nodes[k] = par
        PROVE  k + 1 \in 1..Len(one) /\ one[k + 1] = par
    BY <1>1, <1>8, <2>2
  <2> QED BY <2>1, <2>2 DEF Listed
<1>10. nodes' = get_by_ptr(one, par)
  BY <1>6 DEF Create, add_dependency, one, own, par
<1>11. CASE Listed(par)
  <2>1. nodes' = one
    BY <1>9, <1>10, <1>11 DEF get_by_ptr
  <2> QED BY <1>8, <1>11, <2>1 DEF own, par, T
<1>12. CASE ~Listed(par)
  <2>1. nodes' = <<par>> \o one
    BY <1>9, <1>10, <1>12 DEF get_by_ptr
  <2>2. par \in T
    BY DEF T
  <2>3. /\ Len(<<par>> \o one) = Len(one) + 1 /\ (<<par>> \o one)[1] = par
        /\ \A i \in 1..Len(one) : (<<par>> \o one)[i + 1] = one[i]
        /\ <<par>> \o one \in Seq(T)
    BY <1>8, <2>2
  <2>4. \A i \in 1..Len(nodes) : (<<par>> \o one)[i + 2] = nodes[i]
    <3> TAKE i \in 1..Len(nodes)
    <3>1. i + 1 \in 1..Len(one) /\ (i + 1) + 1 = i + 2
      BY <1>1, <1>8
    <3> QED BY <1>8, <2>3, <3>1
  <2>5. (<<par>> \o one)[2] = own
    BY <1>1, <1>8, <2>3
  <2> QED BY <1>1, <1>8, <1>12, <2>1, <2>3, <2>4, <2>5 DEF own, par, T
<1> QED BY <1>11, <1>12

\* A callback that creates an object of this kind on the innermost block, whose
\* object the tracker knows as a node of type ptype, keeps the invariant.
LEMMA CreateStep ==
  ASSUME TrackerInv, NEW kind \in Kinds, NEW ptype \in Kinds, Create(kind, ptype),
         ptype = IF objs[Top].kind = "partition" THEN "volume" ELSE objs[Top].kind,
         kind \in {"fs", "partmgr"} => objs[Top].kind \in {"volume", "partition"},
         kind = "partition" => objs[Top].kind = "partmgr",
         kind = "volume" => objs[Top].kind = "fs"
  PROVE  TrackerInv'
<1>1. PICK n : n = Len(objs) + 1
  OBVIOUS
<1>2. PICK top : top = Top
  OBVIOUS
<1>3. PICK own, par : own = Node(kind, n) /\ par = Node(ptype, top)
  OBVIOUS
<1>4. /\ Len(objs) \in Nat \ {0} /\ Len(nodes) \in Nat /\ n \in Nat
      /\ \A k \in 1..Len(nodes) : nodes[k].obj \in 1..Len(objs) /\ nodes[k].obj \in Nat
      /\ \A x \in 2..Len(objs) : objs[x].on \in 1..Len(objs) /\ objs[x].on \in Nat /\ objs[x].on < x
  BY <1>1, Shape
<1>5. /\ objs' \in Seq([kind : Kinds, on : Nat]) /\ Len(objs') = n
      /\ objs'[n] = [kind |-> kind, on |-> top]
      /\ \A x \in 1..Len(objs) : objs'[x] = objs[x] /\ Own(x)' = Own(x)
      /\ \A x \in 2..Len(objs) : Par(x)' = Par(x)
      /\ Own(n)' = own
      /\ top \in 1..Len(objs) /\ top \in Nat
  BY <1>1, <1>2, <1>3, CreateKeepsObjects
<1>6. PICK d \in {1, 2} :
        /\ Len(nodes') = Len(nodes) + d
        /\ \A i \in 1..Len(nodes) : nodes'[i + d] = nodes[i]
        /\ nodes'[d] = own
        /\ d = 2 => nodes'[1] = par /\ ~Listed(par)
        /\ d = 1 => Listed(par)
  <2> DEFINE e == IF Listed(par) THEN 1 ELSE 2
  <2>1. /\ Len(nodes') = Len(nodes) + e
        /\ \A i \in 1..Len(nodes) : nodes'[i + e] = nodes[i]
        /\ nodes'[e] = own
        /\ e = 2 => nodes'[1] = par
    BY <1>1, <1>2, <1>3, CreateGrowsList, Zenon
  <2>2. e \in {1, 2} /\ (e = 2 => ~Listed(par)) /\ (e = 1 => Listed(par))
    OBVIOUS
  <2> HIDE DEF e
  <2> QED BY <2>1, <2>2
<1>7. /\ own.obj = n /\ own.type = kind /\ own \in [type : Kinds, obj : 1..n]
      /\ par.obj = top /\ par.type = ptype /\ par \in [type : Kinds, obj : 1..n]
  BY <1>1, <1>3, <1>4, <1>5 DEF Node
<1>8. Par(n)' = par
  <2>1. objs'[n].on = top /\ objs'[top] = objs[top]
    BY <1>5
  <2> QED BY <1>2, <1>3, <2>1 DEF Par
<1>9. /\ phase = "config" /\ phase' = "config" /\ built' = <<>> /\ built = <<>>
      /\ edges' = edges \cup {<<own, par>>} /\ open' = Append(open, n)
  BY <1>1, <1>2, <1>3 DEF Create, Enter, add_dependency, TrackerInv, GraphOK
<1>10. ASSUME NEW i \in 1..Len(nodes')
       PROVE  \/ i - d \in 1..Len(nodes) /\ nodes'[i] = nodes[i - d]
              \/ i = d /\ nodes'[i] = own
              \/ i = 1 /\ d = 2 /\ nodes'[i] = par
  <2>1. CASE i > d
    <3>1. i - d \in 1..Len(nodes) /\ (i - d) + d = i
      BY <1>4, <1>6, <2>1
    <3> QED BY <1>6, <3>1
  <2>2. CASE i <= d
    BY <1>4, <1>6, <2>2
  <2> QED BY <1>4, <1>6, <2>1, <2>2
<1>11. ASSUME NEW m PROVE Listed(m)' <=> Listed(m) \/ m = own \/ m = par
  <2>1. ASSUME NEW i \in 1..Len(nodes), nodes[i] = m PROVE Listed(m)'
    <3>1. i + d \in 1..Len(nodes')
      BY <1>4, <1>6
    <3> QED BY <1>6, <2>1, <3>1 DEF Listed
  <2>2. Listed(own)'
    BY <1>4, <1>6 DEF Listed
  <2>3. Listed(par)'
    <3>1. CASE d = 2
      BY <1>4, <1>6, <3>1 DEF Listed
    <3>2. CASE d = 1
      <4>1. PICK i \in 1..Len(nodes) : nodes[i] = par
        BY <1>6, <3>2 DEF Listed
      <4>2. i + d \in 1..Len(nodes')
        BY <1>4, <1>6
      <4> QED BY <1>6, <4>1, <4>2 DEF Listed
    <3> QED BY <3>1, <3>2
  <2>4. ASSUME Listed(m)' PROVE Listed(m) \/ m = own \/ m = par
    BY <1>10, <2>4 DEF Listed
  <2> QED BY <2>1, <2>2, <2>3, <2>4 DEF Listed
<1>12. NestOK'
  <2>1. objs'[OutFile] = objs[OutFile]
    BY <1>4, <1>5 DEF OutFile
  <2>2. ASSUME NEW x \in 2..n PROVE objs'[x].on \in 1..(x - 1) /\ Fits(x)'
    <3>1. CASE x = n
      <4>1. objs'[x].on = top /\ objs'[x].kind = kind /\ objs'[top] = objs[top]
        BY <1>5, <3>1
      <4> QED BY <1>1, <1>2, <1>4, <1>5, <3>1, <4>1 DEF Fits
    <3>2. CASE x # n
      <4>1. x \in 2..Len(objs) /\ x \in 1..Len(objs)
        BY <1>1, <1>4, <3>2
      <4>2. objs[x].on \in 1..(x - 1) /\ Fits(x) /\ objs[x].on \in 1..Len(objs)
        BY <1>4, <4>1 DEF TrackerInv, NestOK
      <4> QED BY <1>5, <4>1, <4>2 DEF Fits
    <3> QED BY <3>1, <3>2
  <2>3. open' \in Seq(1..n) /\ Len(open') >= 1
    <3>1. open \in Seq(1..Len(objs)) /\ 1..Len(objs) \subseteq 1..n
      BY <1>1, <1>4 DEF TrackerInv, NestOK, Objs
    <3>2. open \in Seq(1..n) /\ n \in 1..n
      BY <1>1, <1>4, <3>1, SeqMonotonic
    <3> QED BY <1>9, <3>2
  <2> QED BY <1>1, <1>4, <1>5, <1>9, <2>1, <2>2, <2>3 DEF TrackerInv, NestOK, Objs
<1>13. GraphOK'
  <2>1. nodes' \in Seq([type : Kinds, obj : 1..n])
    <3>1. [type : Kinds, obj : Objs] \subseteq [type : Kinds, obj : 1..n]
      BY <1>1, <1>4 DEF Objs
    <3>2. {own, par} \cup [type : Kinds, obj : Objs] \subseteq [type : Kinds, obj : 1..n]
      BY <1>7, <3>1
    <3> DEFINE S == {own, par} \cup [type : Kinds, obj : Objs]
               T == [type : Kinds, obj : 1..n]
    <3>3. nodes' \in Seq(S) /\ S \subseteq T
      BY <1>1, <1>2, <1>3, <3>2, CreateGrowsList
    <3> HIDE DEF S, T
    <3>4. nodes' \in Seq(T)
      BY <3>3, SeqMonotonic
    <3> QED BY <3>4 DEF T
  <2>2. \A i \in 1..Len(nodes') : nodes'[i] \in [type : Kinds, obj : 1..n]
    BY <2>1, ElementOfSeq
  <2>3. \A i \in 1..Len(nodes') : Proper(nodes[i])'
    <3> TAKE i \in 1..Len(nodes')
    <3>1. objs'[n].kind = kind /\ objs'[top] = objs[top]
      BY <1>5
    <3>2. CASE nodes'[i] = own
      BY <1>5, <1>7, <2>2, <3>1, <3>2 DEF Proper, Objs
    <3>3. CASE nodes'[i] = par
      BY <1>2, <1>5, <1>7, <2>2, <3>1, <3>3 DEF Proper, Objs
    <3>4. ASSUME NEW k \in 1..Len(nodes), nodes'[i] = nodes[k] PROVE Proper(nodes[i])'
      <4>1. Proper(nodes[k]) /\ nodes[k].obj \in 1..Len(objs)
        BY <1>4 DEF TrackerInv, GraphOK
      <4> QED BY <1>5, <2>2, <3>4, <4>1 DEF Proper, Objs
    <3> QED BY <1>10, <3>2, <3>3, <3>4
  <2>4. \A x \in 1..Len(objs) : Listed(Own(x))
    BY <1>9 DEF TrackerInv, GraphOK, Objs
  <2>5. \A x \in 1..n : Listed(Own(x))'
    <3> TAKE x \in 1..n
    <3>1. x = n \/ x \in 1..Len(objs)
      BY <1>1, <1>4
    <3> QED BY <1>5, <1>11, <2>4, <3>1
  <2>6. edges' = { <<Own(x), Par(x)>>' : x \in 2..n }
    <3>1. edges = { <<Own(x), Par(x)>> : x \in 2..Len(objs) }
      <4>1. { y \in 2..Len(objs) : Listed(Own(y)) } = 2..Len(objs)
        BY <1>4, <2>4
      <4> QED BY <4>1 DEF TrackerInv, GraphOK
    <3>2. 2..n = 2..Len(objs) \cup {n}
      BY <1>1, <1>4
    <3>3. \A x \in 2..Len(objs) : <<Own(x), Par(x)>>' = <<Own(x), Par(x)>>
      BY <1>4, <1>5
    <3>4. <<Own(n), Par(n)>>' = <<own, par>>
      BY <1>5, <1>8
    <3> QED BY <1>9, <3>1, <3>2, <3>3, <3>4
  <2>7. { y \in 2..n : Listed(Own(y))' } = 2..n
    BY <1>4, <2>5
  <2> QED BY <1>5, <1>9, <2>1, <2>3, <2>5, <2>6, <2>7 DEF GraphOK, Objs
<1>14. Distinct'
  <2> SUFFICES ASSUME NEW i \in 1..Len(nodes'), NEW j \in 1..Len(nodes'), nodes'[i] = nodes'[j]
               PROVE  i = j
    BY <1>9 DEF Distinct
  <2>1. \A k \in 1..Len(nodes) : nodes[k] # own
    BY <1>1, <1>4, <1>7
  <2>2. d = 2 => \A k \in 1..Len(nodes) : nodes[k] # par
    BY <1>6 DEF Listed
  <2>3. own # par
    BY <1>1, <1>4, <1>5, <1>7
  <2>4. \A k, l \in 1..Len(nodes) : nodes[k] = nodes[l] => k = l
    BY DEF TrackerInv, Distinct
  <2>5. CASE /\ i - d \in 1..Len(nodes) /\ nodes'[i] = nodes[i - d]
             /\ j - d \in 1..Len(nodes) /\ nodes'[j] = nodes[j - d]
    <3>1. i - d = j - d
      BY <2>4, <2>5
    <3> QED BY <1>4, <1>6, <3>1
  <2> QED BY <1>10, <2>1, <2>2, <2>3, <2>5
<1>15. ListOrder'
  <2> SUFFICES ASSUME NEW i \in 1..Len(nodes'), NEW j \in 1..Len(nodes'),
                      nodes'[j] = Own(nodes[j].obj)',
                      \/ nodes'[i].obj > nodes'[j].obj
                      \/ nodes'[i].obj = nodes'[j].obj /\ i # j
               PROVE  i < j
    BY DEF ListOrder
  <2>1. CASE nodes'[j] = own
    <3>1. \A k \in 1..Len(nodes) : nodes[k].obj < n
      BY <1>1, <1>4
    <3>2. par.obj < n
      BY <1>1, <1>4, <1>5, <1>7
    <3>3. nodes'[i] = own \/ nodes'[i].obj < n
      BY <1>10, <3>1, <3>2
    <3>4. nodes'[i] = own /\ i # j
      <4>1. nodes'[j].obj = n
        BY <1>7, <2>1
      <4>2. nodes'[i].obj \in Nat
        BY <1>4, <1>5, <1>7, <1>10
      <4> QED BY <1>4, <1>7, <3>3, <4>1, <4>2
    <3>5. i = j
      BY <1>14, <2>1, <3>4 DEF Distinct
    <3> QED BY <3>4, <3>5
  <2>2. CASE nodes'[j] = par /\ d = 2
    <3>1. Own(top)' = Own(top) /\ Listed(Own(top))
      BY <1>5, <1>9 DEF TrackerInv, GraphOK, Objs
    <3> QED BY <1>6, <1>7, <2>2, <3>1
  <2>3. CASE j - d \in 1..Len(nodes) /\ nodes'[j] = nodes[j - d]
    <3>1. nodes[j - d] = Own(nodes[j - d].obj)
      BY <1>4, <1>5, <2>3
    <3>2. CASE i - d \in 1..Len(nodes) /\ nodes'[i] = nodes[i - d]
      <4> DEFINE k == i - d
                 l == j - d
      <4>1. k # l \/ i = j
        BY <1>4, <1>6
      <4>2. nodes[k].obj > nodes[l].obj \/ (nodes[k].obj = nodes[l].obj /\ k # l)
        BY <2>3, <3>2, <4>1
      <4> HIDE DEF k, l
      <4>3. k < l
        BY <2>3, <3>1, <3>2, <4>2 DEF TrackerInv, ListOrder, k, l
      <4> QED BY <1>4, <1>6, <4>3 DEF k, l
    <3>3. CASE i <= d
      BY <1>4, <1>6, <2>3, <3>3
    <3> QED BY <1>6, <1>10, <3>2, <3>3
  <2> QED BY <1>10, <2>1, <2>2, <2>3
<1>16. ChildrenFirst'
  BY <1>9 DEF ChildrenFirst
<1> QED BY <1>12, <1>13, <1>14, <1>15, <1>16 DEF TrackerInv

\* A node that is finished leaves the list, and with it the edge it brought.
LEMMA ResolveStep ==
  ASSUME TrackerInv, Resolve
  PROVE  TrackerInv'
<1>1. PICK N, p : N = nodes[Pick] /\ p = Pick
  OBVIOUS
<1>2. /\ Len(objs) \in Nat \ {0} /\ Len(nodes) \in Nat /\ Len(built) \in Nat
      /\ \A k \in 1..Len(nodes) : nodes[k].obj \in 1..Len(objs) /\ nodes[k].obj \in Nat
      /\ \A x \in 2..Len(objs) : objs[x].on \in 1..Len(objs) /\ objs[x].on \in Nat /\ objs[x].on < x
  BY Shape
<1>3. /\ nodes \in Seq([type : Kinds, obj : Objs]) /\ built \in Seq([type : Kinds, obj : Objs])
      /\ \A k, l \in 1..Len(nodes) : nodes[k] = nodes[l] => k = l
  BY DEF TrackerInv, GraphOK, Distinct
<1>4. p \in 1..Len(nodes) /\ nodes[p] = N /\ N \in [type : Kinds, obj : Objs]
  <2>1. Pick \in 0..Len(nodes) /\ Pick # 0
    BY PickFirst DEF TrackerInv, Resolve
  <2>2. p \in 1..Len(nodes) /\ nodes[p] = N
    BY <1>1, <1>2, <2>1
  <2>3. nodes[p] \in [type : Kinds, obj : Objs]
    BY <1>3, <2>2, ElementOfSeq
  <2> QED BY <2>2, <2>3
<1>5. /\ UNCHANGED <<objs, open, left, phase>> /\ phase = "commit"
      /\ nodes' = RemoveAt(nodes, p)
      /\ edges' = { e \in edges : e[1] # N }
      /\ built' = Append(built, N)
  BY <1>1 DEF Resolve
<1>6. /\ nodes' \in Seq([type : Kinds, obj : Objs]) /\ Len(nodes') = Len(nodes) - 1
      /\ \A i \in 1..(Len(nodes) - 1) : nodes'[i] = IF i < p THEN nodes[i] ELSE nodes[i + 1]
  BY <1>3, <1>4, <1>5, RemoveAtFacts
<1>7. /\ built' \in Seq([type : Kinds, obj : Objs]) /\ Len(built') = Len(built) + 1
      /\ built'[Len(built) + 1] = N
      /\ \A k \in 1..Len(built) : built'[k] = built[k]
  BY <1>3, <1>4, <1>5
<1>8. \A x : Own(x)' = Own(x) /\ Par(x)' = Par(x)
  BY <1>5 DEF Own, Par
<1> DEFINE from(i) == IF i < p THEN i ELSE i + 1
<1>9. /\ \A i \in 1..Len(nodes') : from(i) \in 1..Len(nodes) \ {p} /\ nodes'[i] = nodes[from(i)]
      /\ \A i, j \in 1..Len(nodes') : i < j <=> from(i) < from(j)
      /\ \A k \in 1..Len(nodes) \ {p} : \E i \in 1..Len(nodes') : k = from(i)
  <2>1. \A i \in 1..Len(nodes') : from(i) \in 1..Len(nodes) \ {p} /\ nodes'[i] = nodes[from(i)]
    BY <1>2, <1>4, <1>6
  <2>2. \A i, j \in 1..Len(nodes') : i < j <=> from(i) < from(j)
    BY <1>2, <1>4, <1>6
  <2>3. ASSUME NEW k \in 1..Len(nodes) \ {p} PROVE \E i \in 1..Len(nodes') : k = from(i)
    <3>1. CASE k < p
      <4>1. k \in 1..Len(nodes')
        BY <1>2, <1>4, <1>6, <3>1
      <4>2. from(k) = k
        BY <3>1
      <4> HIDE DEF from
      <4> QED BY <4>1, <4>2
    <3>2. CASE k > p
      <4>1. k - 1 \in 1..Len(nodes') /\ from(k - 1) = k
        BY <1>2, <1>4, <1>6, <3>2
      <4> QED BY <4>1
    <3> QED BY <1>2, <1>4, <3>1, <3>2
  <2> QED BY <2>1, <2>2, <2>3
<1> HIDE DEF from
<1>10. ASSUME NEW m PROVE Listed(m)' <=> Listed(m) /\ m # N
  <2>1. ASSUME Listed(m)' PROVE Listed(m) /\ m # N
    BY <1>3, <1>4, <1>9, <2>1 DEF Listed
  <2>2. ASSUME Listed(m), m # N PROVE Listed(m)'
    <3>1. PICK k \in 1..Len(nodes) : nodes[k] = m
      BY <2>2 DEF Listed
    <3>2. k # p
      BY <1>4, <2>2, <3>1
    <3> QED BY <1>9, <3>1, <3>2 DEF Listed
  <2> QED BY <2>1, <2>2
<1>11. NestOK'
  BY <1>5 DEF TrackerInv, NestOK, Objs, Fits
<1>12. GraphOK'
  <2>1. \A i \in 1..Len(nodes') : Proper(nodes[i])'
    <3> TAKE i \in 1..Len(nodes')
    <3>1. Proper(nodes[from(i)]) /\ nodes'[i] = nodes[from(i)]
      BY <1>9 DEF TrackerInv, GraphOK
    <3> QED BY <1>5, <3>1 DEF Proper, Objs
  <2>2. ASSUME NEW x \in Objs
        PROVE  Listed(Own(x))' \/ \E k \in 1..Len(built') : built'[k] = Own(x)'
    <3>1. CASE Own(x) = N
      BY <1>2, <1>7, <1>8, <3>1
    <3>2. CASE Listed(Own(x)) /\ Own(x) # N
      BY <1>8, <1>10, <3>2
    <3>3. ASSUME NEW k \in 1..Len(built), built[k] = Own(x)
          PROVE  k \in 1..Len(built') /\ built'[k] = Own(x)'
      BY <1>2, <1>7, <1>8, <3>3
    <3> QED BY <3>1, <3>2, <3>3 DEF TrackerInv, GraphOK
  <2>3. edges' = { <<Own(x), Par(x)>> : x \in { y \in 2..Len(objs) : Listed(Own(y)) /\ Own(y) # N } }
    <3>1. edges = { <<Own(x), Par(x)>> : x \in { y \in 2..Len(objs) : Listed(Own(y)) } }
      BY DEF TrackerInv, GraphOK
    <3> QED BY <1>5, <3>1
  <2>4. { y \in 2..Len(objs) : Listed(Own(y)) /\ Own(y) # N }
          = { y \in 2..Len(objs') : Listed(Own(y))' }
    BY <1>5, <1>8, <1>10
  <2>5. edges' = { <<Own(x), Par(x)>>' : x \in { y \in 2..Len(objs') : Listed(Own(y))' } }
    BY <1>8, <2>3, <2>4
  <2> QED BY <1>5, <1>6, <1>7, <2>1, <2>2, <2>5 DEF GraphOK, Objs
<1>13. Distinct'
  <2>1. \A i, j \in 1..Len(nodes') : nodes'[i] = nodes'[j] => i = j
    <3> TAKE i, j \in 1..Len(nodes')
    <3>1. nodes'[i] = nodes'[j] => from(i) = from(j)
      BY <1>3, <1>9
    <3>2. from(i) \in Nat /\ ~(from(i) < from(i))
      BY <1>2, <1>9
    <3>3. from(i) = from(j) => ~(i < j) /\ ~(j < i)
      BY <1>9, <3>2
    <3> QED BY <1>2, <1>6, <3>1, <3>3
  <2>2. \A k \in 1..Len(built) : built[k] # N
    BY <1>4 DEF TrackerInv, Distinct
  <2>3. \A k \in 1..Len(built') : k = Len(built) + 1 \/ k \in 1..Len(built)
    BY <1>2, <1>7
  <2>4. \A k, l \in 1..Len(built') : built'[k] = built'[l] => k = l
    BY <1>7, <2>2, <2>3 DEF TrackerInv, Distinct
  <2>5. \A i \in 1..Len(nodes'), k \in 1..Len(built') : nodes'[i] # built'[k]
    <3> TAKE i \in 1..Len(nodes'), k \in 1..Len(built')
    <3>1. nodes'[i] = nodes[from(i)] /\ from(i) \in 1..Len(nodes) /\ from(i) # p
      BY <1>9
    <3>2. nodes'[i] # N
      BY <1>3, <1>4, <3>1
    <3> QED BY <1>7, <2>3, <3>1, <3>2 DEF TrackerInv, Distinct
  <2> QED BY <2>1, <2>4, <2>5 DEF Distinct
<1>14. ListOrder'
  <2> SUFFICES ASSUME NEW i \in 1..Len(nodes'), NEW j \in 1..Len(nodes'),
                      nodes'[j] = Own(nodes[j].obj)',
                      \/ nodes'[i].obj > nodes'[j].obj
                      \/ nodes'[i].obj = nodes'[j].obj /\ i # j
               PROVE  i < j
    BY DEF ListOrder
  <2>1. nodes[from(j)] = Own(nodes[from(j)].obj)
    BY <1>5, <1>9 DEF Own
  <2>2. i # j => from(i) # from(j)
    <3>1. from(i) \in Nat /\ from(j) \in Nat /\ i \in Nat /\ j \in Nat
      BY <1>2, <1>6, <1>9
    <3>2. (i < j <=> from(i) < from(j)) /\ (j < i <=> from(j) < from(i))
      BY <1>9
    <3> QED BY <3>1, <3>2
  <2>3. from(i) < from(j)
    BY <1>9, <2>1, <2>2 DEF TrackerInv, ListOrder
  <2> QED BY <1>9, <2>3
<1>15. ChildrenFirst'
  <2> SUFFICES ASSUME NEW k \in 1..Len(built'), NEW x \in 2..Len(objs),
                      objs[x].on = built'[k].obj
               PROVE  /\ \A i \in 1..Len(nodes') : nodes'[i].obj # x
                      /\ \A j \in 1..Len(built') : built'[j].obj = x => j < k
    BY <1>5 DEF ChildrenFirst
  <2>1. k = Len(built) + 1 \/ k \in 1..Len(built)
    BY <1>2, <1>7
  <2>2. \A i \in 1..Len(nodes) : nodes[i].obj # x
    <3>1. CASE k \in 1..Len(built)
      BY <1>7, <3>1 DEF TrackerInv, ChildrenFirst
    <3>2. CASE k = Len(built) + 1
      BY <1>1, <1>7, <3>2, PickedIsInnermost DEF Resolve
    <3> QED BY <2>1, <3>1, <3>2
  <2>3. \A j \in 1..Len(built') : built'[j].obj = x => j < k
    <3> SUFFICES ASSUME NEW j \in 1..Len(built'), built'[j].obj = x PROVE j < k
      OBVIOUS
    <3>1. j # Len(built) + 1
      BY <1>4, <1>7, <2>2
    <3>2. j \in 1..Len(built)
      BY <1>2, <1>7, <3>1
    <3>3. CASE k \in 1..Len(built)
      BY <1>7, <3>2, <3>3 DEF TrackerInv, ChildrenFirst
    <3>4. CASE k = Len(built) + 1
      BY <1>2, <3>2, <3>4
    <3> QED BY <2>1, <3>3, <3>4
  <2> QED BY <1>9, <2>2, <2>3
<1> QED BY <1>11, <1>12, <1>13, <1>14, <1>15 DEF TrackerInv

\* The steps that leave the objects and the graph alone.
LEMMA OtherSteps ==
  ASSUME TrackerInv, UNCHANGED <<objs, nodes, edges, built>>,
         open' \in Seq(Objs) /\ Len(open') >= 1,
         \/ phase' = phase
         \/ phase = "config" /\ phase' = "commit"
         \/ phase = "commit" /\ phase' = "failed"
         \/ phase = "commit" /\ phase' = "done" /\ nodes = <<>>
  PROVE  TrackerInv'
<1>1. NestOK'
  BY DEF TrackerInv, NestOK, Objs, Fits
<1>2. GraphOK'
  <2>1. /\ \A m : Listed(m)' <=> Listed(m)
        /\ \A x : Own(x)' = Own(x) /\ Par(x)' = Par(x)
        /\ \A m : Proper(m)' <=> Proper(m)
        /\ Objs' = Objs
    BY DEF Listed, Own, Par, Proper, Objs
  <2>2. /\ nodes' \in Seq([type : Kinds, obj : Objs'])
        /\ built' \in Seq([type : Kinds, obj : Objs'])
        /\ \A i \in 1..Len(nodes') : Proper(nodes[i])'
    BY <2>1 DEF TrackerInv, GraphOK, Proper, Objs
  <2>3. \A x \in Objs' : Listed(Own(x))' \/ \E k \in 1..Len(built') : built'[k] = Own(x)'
    BY DEF TrackerInv, GraphOK, Listed, Own, Objs
  <2>4. edges' = { <<Own(x), Par(x)>>' : x \in { y \in 2..Len(objs') : Listed(Own(y))' } }
    BY DEF TrackerInv, GraphOK, Listed, Own, Par
  <2>5. (phase' = "config" => built' = <<>>) /\ (phase' = "done" => nodes' = <<>>)
    BY DEF TrackerInv, GraphOK
  <2> QED BY <2>2, <2>3, <2>4, <2>5 DEF GraphOK
<1>3. Distinct' /\ ListOrder' /\ ChildrenFirst'
  BY DEF TrackerInv, Distinct, ListOrder, ChildrenFirst, Own
<1> QED BY <1>1, <1>2, <1>3 DEF TrackerInv

\* Every callback and every round of commit() keeps the invariant.
LEMMA NextTracker ==
  ASSUME TrackerInv, [Next]_vars
  PROVE  TrackerInv'
<1>1. open \in Seq(Objs) /\ Len(open) \in Nat /\ Len(open) >= 1 /\ Top \in Objs
  BY DEF TrackerInv, NestOK, Top, Last
<1>2. CASE cb_create_fs
  <2>1. "fs" \in Kinds /\ "volume" \in Kinds
    BY DEF Kinds
  <2> QED BY <1>2, <2>1, CreateStep DEF cb_create_fs, OnVolume
<1>3. CASE cb_create_part_mgr
  <2>1. "partmgr" \in Kinds /\ "volume" \in Kinds
    BY DEF Kinds
  <2> QED BY <1>3, <2>1, CreateStep DEF cb_create_part_mgr, OnVolume
<1>4. CASE cb_create_partition
  <2>1. "partition" \in Kinds /\ "partmgr" \in Kinds
    BY DEF Kinds
  <2> QED BY <1>4, <2>1, CreateStep DEF cb_create_partition
<1>5. CASE cb_create_volumefile
  <2>1. "volume" \in Kinds /\ "fs" \in Kinds
    BY DEF Kinds
  <2> QED BY <1>5, <2>1, CreateStep DEF cb_create_volumefile
<1>6. CASE cb_create_volume
  <2>1. open' \in Seq(Objs) /\ Len(open') >= 1
    BY <1>1, <1>6 DEF cb_create_volume, Enter
  <2> QED BY <1>6, <2>1, OtherSteps DEF cb_create_volume
<1>7. CASE CloseBlock
  <2>1. open' \in Seq(Objs) /\ Len(open') >= 1
    BY <1>1, <1>7 DEF CloseBlock, Front
  <2> QED BY <1>7, <2>1, OtherSteps DEF CloseBlock
<1>8. CASE StartCommit
  BY <1>1, <1>8, OtherSteps DEF StartCommit
<1>9. CASE Resolve
  BY <1>9, ResolveStep
<1>10. CASE GiveUp
  BY <1>1, <1>10, NoCycle, OtherSteps DEF GiveUp
<1>11. CASE CommitDone
  BY <1>1, <1>11, OtherSteps DEF CommitDone
<1>12. CASE UNCHANGED vars
  BY <1>1, <1>12, OtherSteps DEF vars
<1> QED BY <1>2, <1>3, <1>4, <1>5, <1>6, <1>7, <1>8, <1>9, <1>10, <1>11, <1>12 DEF Next

\* The tracker's list and edges, and what commit() has taken out of them, are
\* as TrackerInv says in every state the callbacks and commit() can reach.
THEOREM TrackerInvariant == Spec => []TrackerInv
  BY InitTracker, NextTracker, PTL DEF Spec

\* Direct children come first, so all that lies inside an object comes first.
LEMMA InnermostFromInv ==
  ASSUME TrackerInv
  PROVE  InnermostFirst
<1> SUFFICES ASSUME NEW i \in 1..Len(built), NEW j \in 1..Len(built), i < j,
                    Inside(built[j].obj, built[i].obj)
             PROVE  FALSE
  BY DEF InnermostFirst
<1> DEFINE S == { x \in 1..Len(objs) : /\ \A k \in 1..Len(nodes) : nodes[k].obj # x
                                       /\ \A k \in 1..Len(built) : built[k].obj = x => k < i }
<1>1. /\ Len(built) \in Nat /\ Len(objs) \in Nat /\ built[j].obj \in Objs
      /\ \A x \in 2..Len(objs) : x \in 1..Len(objs) /\ objs[x].on \in Objs
  BY Shape DEF Objs
<1>2. \A x \in 2..Len(objs) : objs[x].on = built[i].obj => x \in S
  BY <1>1 DEF TrackerInv, ChildrenFirst
<1>3. ASSUME NEW x \in 2..Len(objs), objs[x].on \in S PROVE x \in S
  <2>1. ~Listed(Own(objs[x].on))
    BY <1>3 DEF Listed, Own, Node
  <2>2. PICK k \in 1..Len(built) : built[k] = Own(objs[x].on)
    BY <1>1, <2>1 DEF TrackerInv, GraphOK
  <2>3. built[k].obj = objs[x].on /\ k < i
    BY <1>3, <2>2 DEF Own, Node
  <2>4. /\ \A l \in 1..Len(nodes) : nodes[l].obj # x
        /\ \A l \in 1..Len(built) : built[l].obj = x => l < k
    BY <2>3 DEF TrackerInv, ChildrenFirst
  <2>5. \A l \in 1..Len(built) : built[l].obj = x => l < i
    BY <1>1, <2>3, <2>4
  <2> QED BY <1>1, <2>4, <2>5
<1> HIDE DEF S
<1>4. built[j].obj \in S
  BY <1>1, <1>2, <1>3, InsideClosed DEF TrackerInv
<1> QED BY <1>1, <1>4 DEF S

\* With an empty list, the node of every object has been finished.
LEMMA CommittedFromInv ==
  ASSUME TrackerInv
  PROVE  AllCommitted
<1>1. phase # "cycle"
  BY DEF TrackerInv, NestOK
<1>2. \A i, j \in 1..Len(built) : built[i] = built[j] => i = j
  BY DEF TrackerInv, Distinct
<1>3. ASSUME phase = "done", NEW o \in 1..Len(objs)
      PROVE  \E i \in 1..Len(built) : built[i].obj = o
  <2>1. ~Listed(Own(o))
    BY <1>3 DEF TrackerInv, GraphOK, Listed
  <2>2. PICK i \in 1..Len(built) : built[i] = Own(o)
    BY <2>1 DEF TrackerInv, GraphOK, Objs
  <2> QED BY <2>2 DEF Own, Node
<1> QED BY <1>1, <1>2, <1>3 DEF AllCommitted

\* dep_tracker_commit finishes what lies on an object, directly or through
\* others, before the object itself, whatever the description nests.
THEOREM TrackerInnermostFirst == Spec => []InnermostFirst
  BY TrackerInvariant, InnermostFromInv, PTL

\* dep_tracker_commit finishes no node twice, finds no cycle, and when it
\* succeeds it has finished every object of the description.
THEOREM TrackerAllCommitted == Spec => []AllCommitted
  BY TrackerInvariant, CommittedFromInv, PTL
=============================================================================
