-------------------------- MODULE ConfigFileProofs --------------------------
(***************************************************************************)
(* The recursive parser of the configuration file, for files of any length *)
(* and any nesting: it holds every object exactly as often as it has calls *)
(* for its blocks, it attaches every object to the block its line is       *)
(* written in, and its verdict on a file is that of counting braces.       *)
(***************************************************************************)
EXTENDS ConfigFile, TLAPS, FiniteSetTheorems, SequenceTheorems, DataLemmas

Words == DOMAIN children

Frame == [kwd : {"global"} \cup Words, obj : Nat]

IsSeq(s) == s \in Seq({ s[i] : i \in DOMAIN s })

\* An object has the fields that stay as they are when it is used.
HasFields(r) == {"kind", "parent", "at"} \subseteq DOMAIN r

\* The active calls are for blocks of the n objects that were made; the first
\* one is for the file itself.
StackOK(s, n) ==
  /\ s \in Seq(Frame) /\ Len(s) >= 1 /\ s[1].kwd = "global" /\ s[1].obj = 1
  /\ \A i \in 2..Len(s) : s[i].kwd \in Words
  /\ \A i \in 1..Len(s) : s[i].obj \in 1..n

ObjsOK(os) == IsSeq(os) /\ Len(os) >= 1 /\ \A o \in 1..Len(os) : HasFields(os[o])

StateOK ==
  /\ lines \in Seq(Lines)
  /\ StackOK(stack, Len(objs))
  /\ ObjsOK(objs)
  /\ refs \in Seq(Int) /\ Len(refs) = Len(objs)
  /\ status \in {"parse", "syntax", "failed", "read", "done"}
  /\ status \in {"read", "done"} => Len(stack) = 1

FrameCount(s, o) == Cardinality({ i \in 2..Len(s) : s[i].obj = o })

-----------------------------------------------------------------------------
\* Sequences whose elements have no type that could be named.
LEMMA SeqIsSeq ==
  ASSUME NEW S, NEW s \in Seq(S)
  PROVE  IsSeq(s) /\ Len(s) \in Nat /\ DOMAIN s = 1..Len(s)
<1> DEFINE R == { s[i] : i \in DOMAIN s }
<1>1. Len(s) \in Nat /\ DOMAIN s = 1..Len(s) /\ s \in [1..Len(s) -> S]
  BY LenProperties
<1>2. s \in [1..Len(s) -> R]
  BY <1>1
<1>3. s \in Seq(R)
  <2> HIDE DEF R
  <2> QED BY <1>1, <1>2
<1> QED BY <1>1, <1>3 DEF IsSeq

\* Appending to such a sequence.
LEMMA AppendIsSeq ==
  ASSUME NEW s, IsSeq(s), NEW e
  PROVE  /\ IsSeq(Append(s, e)) /\ Len(Append(s, e)) = Len(s) + 1 /\ Len(s) \in Nat
         /\ Append(s, e)[Len(s) + 1] = e
         /\ \A i \in 1..Len(s) : Append(s, e)[i] = s[i]
<1>1. PICK S : s \in Seq(S)
  BY DEF IsSeq
<1>2. Append(s, e) \in Seq(S \cup {e})
  BY <1>1
<1>3. IsSeq(Append(s, e))
  BY <1>2, SeqIsSeq
<1> QED BY <1>1, <1>3

\* Changing one element of it.
LEMMA ExceptIsSeq ==
  ASSUME NEW s, IsSeq(s), NEW o \in 1..Len(s), NEW e
  PROVE  /\ IsSeq([s EXCEPT ![o] = e]) /\ Len([s EXCEPT ![o] = e]) = Len(s)
         /\ [s EXCEPT ![o] = e][o] = e
         /\ \A i \in 1..Len(s) : i # o => [s EXCEPT ![o] = e][i] = s[i]
<1>1. PICK S : s \in Seq(S)
  BY DEF IsSeq
<1>2. s \in Seq(S \cup {e})
  BY <1>1, SeqMonotonic
<1>3. [s EXCEPT ![o] = e] \in Seq(S \cup {e})
  BY <1>2, ExceptSeq
<1>4. IsSeq([s EXCEPT ![o] = e])
  BY <1>3, SeqIsSeq
<1> QED BY <1>1, <1>4

\* The keyword tables, as far as the proofs look at them.
LEMMA Tables ==
  /\ \A w \in {"global"} \cup Words : Keywords(w) \subseteq Words
  /\ "global" \notin Words /\ "listing" \in Words
  /\ \A w \in ReturnsParent : w \in Words /\ (w # "raw" => children[w] = {} /\ w # "listing")
  /\ "raw" \in ReturnsParent
  /\ \A k, w : w \in property_names(k) => w \notin Words
<1>1. Words = {"fat", "volumefile", "raw", "dosmbr", "partition", "mountgroup", "filter",
               "listing", "tarunpack", "bind", "allow", "discard"}
  BY DEF Words, children
<1>2. \A w \in {"global"} \cup Words : Keywords(w) \subseteq Words
  <2>1. cfg_global \subseteq Words
    BY <1>1 DEF cfg_global, cfg_fs_or_volume
  <2>2. /\ children["fat"] \subseteq Words /\ children["volumefile"] \subseteq Words
        /\ children["raw"] \subseteq Words /\ children["dosmbr"] \subseteq Words
        /\ children["partition"] \subseteq Words /\ children["mountgroup"] \subseteq Words
        /\ children["filter"] \subseteq Words /\ children["listing"] \subseteq Words
        /\ children["tarunpack"] \subseteq Words /\ children["bind"] \subseteq Words
        /\ children["allow"] \subseteq Words /\ children["discard"] \subseteq Words
    BY <1>1 DEF children, cfg_fs_or_volume, cfg_sources
  <2>3. \A w \in Words : children[w] \subseteq Words
    BY <1>1, <2>2
  <2> QED BY <2>1, <2>3 DEF Keywords
<1>3. \A k, w : w \in property_names(k) => w \notin Words
  BY <1>1 DEF property_names
<1>4. \A w \in ReturnsParent : w \in Words /\ (w # "raw" => children[w] = {} /\ w # "listing")
  BY <1>1 DEF ReturnsParent, children
<1> QED BY <1>1, <1>2, <1>3, <1>4 DEF ReturnsParent

\* How the number of frames of an object changes with the innermost call.
LEMMA CountPush ==
  ASSUME NEW S, NEW s \in Seq(S), Len(s) >= 1, NEW e, NEW o
  PROVE  /\ FrameCount(Append(s, e), o) = FrameCount(s, o) + (IF e.obj = o THEN 1 ELSE 0)
         /\ FrameCount(s, o) \in Nat
<1> DEFINE I == { i \in 2..Len(s) : s[i].obj = o }
           J == { i \in 2..Len(Append(s, e)) : Append(s, e)[i].obj = o }
<1>1. Len(s) \in Nat /\ Len(Append(s, e)) = Len(s) + 1 /\ Append(s, e)[Len(s) + 1] = e
      /\ \A i \in 1..Len(s) : Append(s, e)[i] = s[i]
  OBVIOUS
<1>2. IsFiniteSet(I) /\ Len(s) + 1 \notin I
  <2>1. IsFiniteSet(2..Len(s))
    BY <1>1, FS_Interval
  <2> QED BY <1>1, <2>1, FS_Subset
<1>3. J = IF e.obj = o THEN I \cup {Len(s) + 1} ELSE I
  <2>1. 2..Len(Append(s, e)) = 2..Len(s) \cup {Len(s) + 1}
    BY <1>1
  <2> QED BY <1>1, <2>1
<1>4. Cardinality(I \cup {Len(s) + 1}) = Cardinality(I) + 1 /\ Cardinality(I) \in Nat
  BY <1>2, FS_AddElement, FS_CardinalityType
<1>5. FrameCount(s, o) = Cardinality(I) /\ FrameCount(Append(s, e), o) = Cardinality(J)
  BY DEF FrameCount
<1> HIDE DEF I, J
<1> QED BY <1>3, <1>4, <1>5

\* The innermost call returns.
LEMMA CountPop ==
  ASSUME NEW S, NEW s \in Seq(S), Len(s) > 1, NEW o
  PROVE  FrameCount(Front(s), o) = FrameCount(s, o) - (IF s[Len(s)].obj = o THEN 1 ELSE 0)
<1>1. /\ Front(s) \in Seq(S) /\ Len(Front(s)) >= 1 /\ s[Len(s)] \in S
      /\ s = Append(Front(s), s[Len(s)])
  <2>1. /\ Front(s) \in Seq(S) /\ Len(Front(s)) = Len(s) - 1 /\ s[Len(s)] \in S
        /\ \A i \in 1..(Len(s) - 1) : Front(s)[i] = s[i]
    BY DEF Front
  <2> HIDE DEF Front
  <2> DEFINE t == Append(Front(s), s[Len(s)])
  <2>2. t \in Seq(S) /\ Len(t) = Len(s) /\ \A i \in 1..Len(s) : t[i] = s[i]
    BY <2>1
  <2>3. s = t
    BY <2>2, SeqEqual
  <2> QED BY <2>1, <2>3
<1>2. /\ FrameCount(s, o) = FrameCount(Front(s), o) + (IF s[Len(s)].obj = o THEN 1 ELSE 0)
      /\ FrameCount(Front(s), o) \in Nat
  <2> DEFINE f == Front(s)
             e == s[Len(s)]
  <2>1. f \in Seq(S) /\ Len(f) >= 1 /\ s = Append(f, e)
    BY <1>1
  <2> HIDE DEF f, e
  <2>2. /\ FrameCount(Append(f, e), o) = FrameCount(f, o) + (IF e.obj = o THEN 1 ELSE 0)
        /\ FrameCount(f, o) \in Nat
    BY <2>1, CountPush
  <2> QED BY <2>1, <2>2 DEF f, e
<1> QED BY <1>2
-----------------------------------------------------------------------------
RefInv == StateOK /\ RefsBalanced

\* The objects are the same; what a listing has stored or read may change.
ObjsKept ==
  /\ IsSeq(objs') /\ Len(objs') = Len(objs)
  /\ \A o \in 1..Len(objs) :
       /\ HasFields(objs'[o])
       /\ objs'[o].kind = objs[o].kind /\ objs'[o].parent = objs[o].parent
       /\ objs'[o].at = objs[o].at

\* The callback of the line returned this object.
Made(l, child) ==
  \/ child = Top.obj /\ l.word \in ReturnsParent /\ objs' = objs
  \/ child = Len(objs) + 1 /\ l.word \notin ReturnsParent /\ objs' = Append(objs, NewObj(l))

\* A new object has no references but the ones that are counted here.
Holds(child, n) ==
  /\ refs' \in Seq(Int) /\ Len(refs') = Len(objs')
  /\ \A o \in 1..Len(objs') :
       refs'[o] = (IF o <= Len(objs) THEN refs[o] ELSE 0) + (IF o = child THEN n ELSE 0)

Opening(l) == l.tail = "open" /\ (l.word = "listing" \/ children[l.word] # {})
GoodWord(l) == l.word \in Keywords(Top.kwd) /\ ~ArgError(l)

\* What the innermost call looks like.
LEMMA TopFacts ==
  ASSUME StateOK
  PROVE  /\ Len(stack) \in Nat /\ Len(stack) >= 1 /\ Len(objs) \in Nat /\ Len(lines) \in Nat
         /\ Top.obj \in 1..Len(objs) /\ Top.kwd \in {"global"} \cup Words
         /\ Top = stack[Len(stack)] /\ stack \in Seq(Frame)
         /\ refs \in Seq(Int) /\ Len(refs) = Len(objs) /\ IsSeq(objs)
         /\ \A o \in 1..Len(objs) : refs[o] \in Int
         /\ Len(stack) = 1 \/ Len(stack) > 1
<1>1. /\ stack \in Seq(Frame) /\ Len(stack) >= 1 /\ lines \in Seq(Lines)
      /\ \A i \in 1..Len(stack) : stack[i].obj \in 1..Len(objs)
      /\ refs \in Seq(Int) /\ Len(refs) = Len(objs) /\ IsSeq(objs)
  BY DEF StateOK, StackOK, ObjsOK
<1>2. Len(stack) \in Nat /\ Len(lines) \in Nat /\ Len(objs) \in Nat
  BY <1>1
<1>3. Top \in Frame /\ Top.obj \in 1..Len(objs)
  BY <1>1, <1>2, ElementOfSeq DEF Top
<1>4. Top.kwd \in {"global"} \cup Words
  BY <1>3 DEF Frame
<1>5. \A o \in 1..Len(objs) : refs[o] \in Int
  BY <1>1, ElementOfSeq
<1>6. Len(stack) = 1 \/ Len(stack) > 1
  <2>1. PICK k : k = Len(stack)
    OBVIOUS
  <2>2. k \in Nat /\ k >= 1
    BY <1>1, <1>2, <2>1
  <2>3. k = 1 \/ k > 1
    BY <2>2
  <2> QED BY <2>1, <2>3
<1> QED BY <1>1, <1>2, <1>3, <1>4, <1>5, <1>6 DEF Top

\* A call for a block begins or ends.
LEMMA StackPush ==
  ASSUME NEW s, NEW n \in Nat, StackOK(s, n), NEW m \in Nat, n <= m,
         NEW f \in Frame, f.kwd \in Words, f.obj \in 1..m
  PROVE  /\ StackOK(Append(s, f), m) /\ StackOK(s, m)
         /\ Len(Append(s, f)) = Len(s) + 1 /\ Append(s, f)[Len(s) + 1] = f
         /\ \A i \in 1..Len(s) : Append(s, f)[i] = s[i]
<1> DEFINE t == Append(s, f)
<1>1. /\ s \in Seq(Frame) /\ Len(s) \in Nat /\ Len(s) >= 1 /\ s[1].kwd = "global" /\ s[1].obj = 1
      /\ \A i \in 2..Len(s) : s[i].kwd \in Words
      /\ \A i \in 1..Len(s) : s[i].obj \in 1..n
  BY DEF StackOK
<1>2. /\ t \in Seq(Frame) /\ Len(t) = Len(s) + 1 /\ t[Len(s) + 1] = f
      /\ \A i \in 1..Len(s) : t[i] = s[i]
  BY <1>1
<1> HIDE DEF t
<1>3. \A i \in 1..Len(s) : s[i].obj \in 1..m
  BY <1>1
<1>4. \A i \in 1..Len(t) : t[i].obj \in 1..m
  <2> TAKE i \in 1..Len(t)
  <2>1. i \in 1..Len(s) \/ i = Len(s) + 1
    BY <1>1, <1>2
  <2> QED BY <1>2, <1>3, <2>1
<1>5. \A i \in 2..Len(t) : t[i].kwd \in Words
  <2> TAKE i \in 2..Len(t)
  <2>1. (i \in 2..Len(s) /\ i \in 1..Len(s)) \/ i = Len(s) + 1
    BY <1>1, <1>2
  <2> QED BY <1>1, <1>2, <2>1
<1>6. StackOK(s, m) /\ StackOK(t, m)
  BY <1>1, <1>2, <1>3, <1>4, <1>5 DEF StackOK
<1> QED BY <1>2, <1>6 DEF t

\* The calls that are left when the innermost one returns.
LEMMA StackPop ==
  ASSUME NEW s, NEW n \in Nat, StackOK(s, n), Len(s) > 1
  PROVE  /\ StackOK(Front(s), n) /\ Len(Front(s)) = Len(s) - 1
         /\ \A i \in 1..(Len(s) - 1) : Front(s)[i] = s[i]
<1> DEFINE t == Front(s)
<1>1. /\ s \in Seq(Frame) /\ Len(s) \in Nat /\ s[1].kwd = "global" /\ s[1].obj = 1
      /\ \A i \in 2..Len(s) : s[i].kwd \in Words
      /\ \A i \in 1..Len(s) : s[i].obj \in 1..n
  BY DEF StackOK
<1>2. /\ t \in Seq(Frame) /\ Len(t) = Len(s) - 1
      /\ \A i \in 1..(Len(s) - 1) : t[i] = s[i]
  BY <1>1 DEF Front
<1> HIDE DEF t
<1>3. /\ \A i \in 1..Len(t) : t[i].obj \in 1..n
      /\ \A i \in 2..Len(t) : t[i].kwd \in Words
  BY <1>1, <1>2
<1>4. StackOK(t, n)
  BY <1>1, <1>2, <1>3 DEF StackOK
<1> QED BY <1>2, <1>4 DEF t

\* Dropping an object takes one reference from it.
LEMMA DropFacts ==
  ASSUME NEW r \in Seq(Int), NEW c \in 1..Len(r)
  PROVE  /\ drop(r, c) \in Seq(Int) /\ Len(drop(r, c)) = Len(r)
         /\ \A o \in 1..Len(r) : drop(r, c)[o] = IF o = c THEN r[o] - 1 ELSE r[o]
<1>1. r[c] - 1 \in Int
  BY ElementOfSeq
<1> QED BY <1>1, ExceptSeq DEF drop

\* A keyword line is refused, or its object is kept for a block, or dropped.
LEMMA KeywordCases ==
  ASSUME StateOK, NEW l, KeywordLine(l)
  PROVE  \/ /\ ~GoodWord(l) /\ status' = "syntax"
            /\ UNCHANGED <<stack, objs, refs>>
         \/ status' = "failed" /\ UNCHANGED <<stack, objs, refs>>
         \/ /\ GoodWord(l)
            /\ \E child :
                 /\ Made(l, child)
                 /\ \/ /\ Opening(l) /\ Holds(child, 1) /\ status' = status
                       /\ stack' = Append(stack, [kwd |-> l.word, obj |-> child])
                    \/ /\ l.tail = "end" /\ Holds(child, 0)
                       /\ UNCHANGED <<stack, status>>
                    \/ /\ ~Opening(l) /\ l.tail # "end" /\ Holds(child, 0)
                       /\ UNCHANGED stack /\ status' = "syntax"
<1>1. CASE ~GoodWord(l)
  BY <1>1 DEF GoodWord, KeywordLine, Fail
<1>2. CASE GoodWord(l)
  <2>1. PICK child \in Callback(l) :
         LET objs1 == IF child > Len(objs) THEN Append(objs, NewObj(l)) ELSE objs
             refs1 == IF child > Len(objs) THEN Append(refs, 1)
                      ELSE IF child = 0 THEN refs ELSE [refs EXCEPT ![child] = @ + 1]
         IN /\ objs' = objs1
            /\ \/ child = 0 /\ Fail("failed", refs)
               \/ /\ child # 0 /\ Opening(l)
                  /\ stack' = Append(stack, [kwd |-> l.word, obj |-> child])
                  /\ refs' = refs1
                  /\ UNCHANGED <<stored, got, status>>
               \/ /\ child # 0 /\ l.tail = "end"
                  /\ refs' = drop(refs1, child)
                  /\ UNCHANGED <<stack, stored, got, status>>
               \/ /\ child # 0 /\ ~Opening(l) /\ l.tail # "end"
                  /\ Fail("syntax", drop(refs1, child))
    BY <1>2 DEF GoodWord, KeywordLine, Opening
  <2>2. /\ Len(objs) \in Nat /\ Top.obj \in 1..Len(objs) /\ refs[Top.obj] \in Int
        /\ refs \in Seq(Int) /\ Len(refs) = Len(objs) /\ IsSeq(objs)
    BY TopFacts
  <2>3. CASE child = 0
    BY <2>1, <2>2, <2>3 DEF Fail
  <2>4. CASE child # 0
    <3> DEFINE refs1 == IF child > Len(objs) THEN Append(refs, 1) ELSE [refs EXCEPT ![child] = @ + 1]
    <3>1. Made(l, child)
      BY <2>1, <2>2, <2>4 DEF Made, Callback
    <3>2. child \in 1..(Len(objs) + 1)
      BY <2>2, <3>1 DEF Made
    <3>3. Len(objs') = (IF child > Len(objs) THEN Len(objs) + 1 ELSE Len(objs))
      BY <2>2, <3>1, AppendIsSeq DEF Made
    <3>4. ASSUME refs' = refs1 PROVE Holds(child, 1)
      <4>1. CASE child = Len(objs) + 1
        BY <2>2, <3>3, <3>4, <4>1 DEF Holds
      <4>2. CASE child # Len(objs) + 1
        BY <2>2, <3>2, <3>3, <3>4, <4>2 DEF Holds
      <4> QED BY <4>1, <4>2
    <3>5. ASSUME refs' = drop(refs1, child) PROVE Holds(child, 0)
      <4>1. CASE child = Len(objs) + 1
        <5> DEFINE r == Append(refs, 1)
        <5>1. /\ r \in Seq(Int) /\ Len(r) = Len(objs) + 1 /\ r[Len(objs) + 1] = 1
              /\ \A o \in 1..Len(objs) : r[o] = refs[o] /\ refs[o] \in Int
          BY <2>2
        <5>2. refs' = drop(r, child)
          BY <2>2, <3>5, <4>1
        <5> HIDE DEF r, refs1
        <5>3. /\ refs' \in Seq(Int) /\ Len(refs') = Len(objs) + 1
              /\ \A o \in 1..Len(r) : refs'[o] = IF o = child THEN r[o] - 1 ELSE r[o]
          <6>1. child \in 1..Len(r)
            BY <2>2, <4>1, <5>1
          <6> QED BY <5>1, <5>2, <6>1, DropFacts
        <5> QED BY <2>2, <3>3, <4>1, <5>1, <5>3 DEF Holds
      <4>2. CASE child # Len(objs) + 1
        BY <2>2, <3>2, <3>3, <3>5, <4>2 DEF Holds, drop
      <4> QED BY <4>1, <4>2
    <3> QED BY <1>2, <2>1, <2>4, <3>1, <3>4, <3>5 DEF Fail
  <2> QED BY <2>3, <2>4
<1> QED BY <1>1, <1>2

\* The step leaves the calls, the references and the objects alone.
LEMMA RefsKept ==
  ASSUME RefInv, UNCHANGED <<stack, refs>>, ObjsKept, lines' \in Seq(Lines),
         status' \in {"parse", "syntax", "failed", "read", "done"},
         status' \in {"read", "done"} => Len(stack) = 1
  PROVE  RefInv'
<1>1. ObjsOK(objs')
  BY DEF RefInv, StateOK, ObjsOK, ObjsKept
<1> QED BY <1>1 DEF RefInv, StateOK, RefsBalanced, ObjsKept

\* Nothing happens to the objects.
LEMMA SameObjs ==
  ASSUME StateOK, objs' = objs
  PROVE  ObjsKept
  BY DEF StateOK, ObjsOK, ObjsKept

\* A call returns: its caller drops the object of the block.
LEMMA RefsPop ==
  ASSUME RefInv, Len(stack) > 1, refs' = drop(refs, Top.obj), stack' = Front(stack),
         objs' = objs, lines' \in Seq(Lines), status' = status
  PROVE  RefInv'
<1>1. /\ stack \in Seq(Frame) /\ Len(objs) \in Nat /\ refs \in Seq(Int)
      /\ Len(refs) = Len(objs) /\ \A o \in 1..Len(objs) : refs[o] \in Int
      /\ Top.obj \in 1..Len(objs) /\ Top = stack[Len(stack)]
  BY TopFacts DEF RefInv
<1>2. StackOK(stack', Len(objs'))
  BY <1>1, StackPop DEF RefInv, StateOK
<1>3. /\ refs' \in Seq(Int) /\ Len(refs') = Len(refs)
      /\ \A o \in 1..Len(refs) : refs'[o] = IF o = Top.obj THEN refs[o] - 1 ELSE refs[o]
  BY <1>1, DropFacts
<1>4. StateOK'
  BY <1>1, <1>2, <1>3 DEF RefInv, StateOK
<1>5. \A o \in 1..Len(objs) : FrameCount(stack', o) = refs'[o]
  <2> TAKE o \in 1..Len(objs)
  <2>1. FrameCount(Front(stack), o) = FrameCount(stack, o) - (IF Top.obj = o THEN 1 ELSE 0)
    BY <1>1, CountPop
  <2>2. refs[o] = FrameCount(stack, o)
    BY <1>1 DEF RefInv, RefsBalanced, FrameCount
  <2> QED BY <1>1, <1>3, <2>1, <2>2
<1>6. RefsBalanced'
  BY <1>5 DEF RefsBalanced, FrameCount
<1> QED BY <1>4, <1>6 DEF RefInv

\* The objects after a callback has returned one.
LEMMA MadeFacts ==
  ASSUME StateOK, NEW l, NEW child, Made(l, child), l.word \in Words
  PROVE  /\ IsSeq(objs') /\ Len(objs') >= Len(objs) /\ Len(objs') \in Nat
         /\ \A o \in 1..Len(objs') : HasFields(objs'[o])
         /\ \A o \in 1..Len(objs) : objs'[o] = objs[o]
         /\ child \in 1..Len(objs')
         /\ Len(objs') > Len(objs) => /\ Len(objs') = Len(objs) + 1 /\ child = Len(objs')
                                      /\ objs'[child] = NewObj(l) /\ l.word \notin ReturnsParent
         /\ Len(objs') = Len(objs) => /\ objs' = objs /\ child = Top.obj
                                      /\ l.word \in ReturnsParent
<1>1. /\ Len(objs) \in Nat /\ Top.obj \in 1..Len(objs) /\ IsSeq(objs)
      /\ \A o \in 1..Len(objs) : HasFields(objs[o])
  BY TopFacts DEF StateOK, ObjsOK
<1>2. CASE child = Top.obj /\ l.word \in ReturnsParent /\ objs' = objs
  BY <1>1, <1>2
<1>3. CASE child = Len(objs) + 1 /\ l.word \notin ReturnsParent /\ objs' = Append(objs, NewObj(l))
  <2>1. HasFields(NewObj(l))
    BY DEF NewObj, HasFields
  <2>2. /\ IsSeq(objs') /\ Len(objs') = Len(objs) + 1
        /\ objs'[Len(objs) + 1] = NewObj(l)
        /\ \A i \in 1..Len(objs) : objs'[i] = objs[i]
    BY <1>1, <1>3, AppendIsSeq
  <2> QED BY <1>1, <1>3, <2>1, <2>2
<1> QED BY <1>2, <1>3 DEF Made

\* A keyword line whose object is kept for its block, or dropped again.
LEMMA RefsMade ==
  ASSUME RefInv, NEW l, NEW child, Made(l, child), l.word \in Words, lines' \in Seq(Lines),
         status = "parse", status' \in {"parse", "syntax"},
         NEW f \in Frame, f.obj = child, f.kwd = l.word,
         \/ Holds(child, 1) /\ stack' = Append(stack, f)
         \/ Holds(child, 0) /\ stack' = stack
  PROVE  RefInv'
<1>1. /\ stack \in Seq(Frame) /\ Len(stack) >= 1 /\ Len(objs) \in Nat
      /\ \A i \in 1..Len(stack) : stack[i].obj \in 1..Len(objs)
      /\ \A o \in 1..Len(objs) : refs[o] \in Int
  BY TopFacts DEF RefInv, StateOK, StackOK
<1>2. /\ IsSeq(objs') /\ Len(objs') >= Len(objs) /\ Len(objs') \in Nat
      /\ \A o \in 1..Len(objs') : HasFields(objs'[o])
      /\ child \in 1..Len(objs') /\ child \in Nat
  BY MadeFacts DEF RefInv
<1>3. PICK n \in {0, 1} :
        /\ Holds(child, n)
        /\ n = 1 => stack' = Append(stack, f)
        /\ n = 0 => stack' = stack
  OBVIOUS
<1>4. StateOK'
  <2>1. refs' \in Seq(Int) /\ Len(refs') = Len(objs')
    BY <1>3 DEF Holds
  <2>2. StackOK(stack', Len(objs'))
    <3>1. StackOK(stack, Len(objs))
      BY DEF RefInv, StateOK
    <3>2. StackOK(Append(stack, f), Len(objs')) /\ StackOK(stack, Len(objs'))
      BY <1>1, <1>2, <3>1, StackPush
    <3> QED BY <1>3, <3>2
  <2>3. ObjsOK(objs')
    BY <1>1, <1>2 DEF RefInv, StateOK, ObjsOK
  <2> QED BY <2>1, <2>2, <2>3 DEF StateOK
<1>5. \A o \in 1..Len(objs') : FrameCount(stack', o) = refs'[o]
  <2> TAKE o \in 1..Len(objs')
  <2>1. FrameCount(stack, o) \in Nat
    BY <1>1, CountPush
  <2>2. FrameCount(stack', o) = FrameCount(stack, o) + (IF o = child THEN n ELSE 0)
    <3>1. CASE n = 0
      BY <1>3, <2>1, <3>1
    <3>2. CASE n = 1
      <4>1. FrameCount(Append(stack, f), o) = FrameCount(stack, o) + (IF f.obj = o THEN 1 ELSE 0)
        BY <1>1, CountPush
      <4> QED BY <1>3, <3>2, <4>1
    <3> QED BY <3>1, <3>2
  <2>3. FrameCount(stack, o) = IF o <= Len(objs) THEN refs[o] ELSE 0
    <3>1. CASE o \in 1..Len(objs)
      <4>1. FrameCount(stack, o) = refs[o]
        BY <3>1 DEF RefInv, RefsBalanced, FrameCount
      <4> QED BY <1>1, <3>1, <4>1
    <3>2. CASE o > Len(objs)
      <4>1. { i \in 2..Len(stack) : stack[i].obj = o } = {}
        BY <1>1, <1>2, <3>2
      <4>2. FrameCount(stack, o) = 0
        BY <4>1, FS_EmptySet DEF FrameCount
      <4> QED BY <1>1, <1>2, <3>2, <4>2
    <3> QED BY <1>1, <1>2, <3>1, <3>2
  <2> QED BY <1>3, <2>2, <2>3 DEF Holds
<1>6. RefsBalanced'
  BY <1>5 DEF RefsBalanced, FrameCount
<1> QED BY <1>4, <1>6 DEF RefInv

\* The parser starts with the call for the file and holds nothing.
LEMMA RefsInit ==
  ASSUME Init
  PROVE  RefInv
<1>1. Words # {} /\ "global" \notin Words
  BY Tables
<1>2. StackOK(stack, Len(objs))
  BY DEF Init, StackOK, Frame
<1>3. objs \in Seq({objs[1]}) /\ Len(objs) = 1 /\ HasFields(objs[1])
  BY DEF Init, HasFields
<1>4. ObjsOK(objs)
  BY <1>3, SeqIsSeq DEF ObjsOK
<1>5. StateOK
  BY <1>2, <1>3, <1>4 DEF StateOK, Init
<1>6. { i \in 2..Len(stack) : stack[i].obj = 1 } = {} /\ refs[1] = 0
  BY DEF Init
<1>7. RefsBalanced
  <2>1. \A o \in 1..Len(objs) : o = 1
    BY <1>3
  <2> QED BY <1>6, <2>1, FS_EmptySet DEF RefsBalanced
<1> QED BY <1>5, <1>7 DEF RefInv

\* A '}' is refused, or ends the innermost call.
LEMMA RefsClose ==
  ASSUME RefInv, NEW l, CloseBlock(l), lines' \in Seq(Lines), status = "parse"
  PROVE  RefInv'
<1>1. CASE Len(stack) = 1 \/ l.tail # "end"
  BY <1>1, RefsKept, SameObjs DEF CloseBlock, Fail, RefInv
<1>2. CASE ~(Len(stack) = 1 \/ l.tail # "end")
  <2>1. Len(stack) > 1
    <3>1. Len(stack) = 1 \/ Len(stack) > 1
      BY TopFacts DEF RefInv
    <3> QED BY <1>2, <3>1, Zenon
  <2> QED BY <1>2, <2>1, RefsPop DEF CloseBlock
<1> QED BY <1>1, <1>2

\* A keyword line, whatever its callback does.
LEMMA RefsKeyword ==
  ASSUME RefInv, NEW l, KeywordLine(l), lines' \in Seq(Lines), status = "parse"
  PROVE  RefInv'
<1>1. (StateOK /\ ObjsKept) \/ objs' # objs
  BY SameObjs DEF RefInv
<1>2. CASE /\ status' \in {"syntax", "failed"} /\ UNCHANGED <<stack, objs, refs>>
  BY <1>1, <1>2, RefsKept
<1>3. ASSUME GoodWord(l), NEW child, Made(l, child), status' \in {"parse", "syntax"},
             \/ Holds(child, 1) /\ stack' = Append(stack, [kwd |-> l.word, obj |-> child])
             \/ Holds(child, 0) /\ UNCHANGED stack
      PROVE  RefInv'
  <2>1. l.word \in Words
    BY <1>3, Tables, TopFacts DEF RefInv, GoodWord
  <2>2. child \in Nat
    BY <1>3, <2>1, MadeFacts DEF RefInv
  <2>3. PICK f : f = [kwd |-> l.word, obj |-> child]
    OBVIOUS
  <2>4. f \in Frame /\ f.obj = child /\ f.kwd = l.word
    BY <2>1, <2>2, <2>3 DEF Frame
  <2> QED BY <1>3, <2>1, <2>3, <2>4, RefsMade
<1> QED BY <1>2, <1>3, KeywordCases DEF RefInv

\* An entry of a listing changes the data of the listing's object.
LEMMA DataKept ==
  ASSUME StateOK, NEW o \in 1..Len(objs), NEW d, objs' = [objs EXCEPT ![o].data = d]
  PROVE  ObjsKept
<1>1. IsSeq(objs) /\ \A i \in 1..Len(objs) : HasFields(objs[i])
  BY DEF StateOK, ObjsOK
<1>2. PICK r : r = [objs[o] EXCEPT !.data = d]
  OBVIOUS
<1>3. /\ HasFields(r) /\ r.kind = objs[o].kind /\ r.parent = objs[o].parent
      /\ r.at = objs[o].at
  BY <1>1, <1>2 DEF HasFields
<1>4. PICK s, t : s = objs /\ t = [s EXCEPT ![o] = r]
  OBVIOUS
<1>5. objs' = t
  BY <1>2, <1>4
<1>6. /\ IsSeq(t) /\ Len(t) = Len(objs) /\ t[o] = r
      /\ \A i \in 1..Len(objs) : i # o => t[i] = objs[i]
  <2>1. IsSeq(s) /\ o \in 1..Len(s)
    BY <1>1, <1>4
  <2>2. /\ IsSeq([s EXCEPT ![o] = r]) /\ Len([s EXCEPT ![o] = r]) = Len(s)
        /\ [s EXCEPT ![o] = r][o] = r
        /\ \A i \in 1..Len(s) : i # o => [s EXCEPT ![o] = r][i] = s[i]
    BY <2>1, ExceptIsSeq
  <2> QED BY <1>4, <2>2
<1> QED BY <1>1, <1>3, <1>5, <1>6 DEF ObjsKept

\* The object of the innermost call, or the first listing that is not drained.
LEMMA UnreadObject ==
  ASSUME StateOK, Unread # {}
  PROVE  Min(Unread) \in 1..Len(objs)
<1>1. Unread \subseteq Nat
  BY TopFacts DEF Unread
<1>2. Min(Unread) \in Unread
  BY <1>1, MinIsLeast
<1> QED BY <1>2 DEF Unread

\* RefInv is inductive.
LEMMA RefsNext ==
  ASSUME RefInv, [Next]_vars
  PROVE  RefInv'
<1>1. StateOK /\ lines \in Seq(Lines) /\ (objs' = objs => ObjsKept)
  BY SameObjs DEF RefInv, StateOK
<1>2. ASSUME NEW l \in Lines, parse(l) PROVE RefInv'
  <2>1. lines' \in Seq(Lines) /\ status = "parse"
    BY <1>1, <1>2 DEF parse
  <2>2. CASE UNCHANGED <<stack, objs, refs>> /\ status' \in {"parse", "syntax", "failed"}
    BY <1>1, <2>1, <2>2, RefsKept
  <2>3. CASE l.tag = "word" /\ l.word \in property_names(objs[Top.obj].kind) /\ PropertyLine(l)
    BY <2>1, <2>2, <2>3 DEF PropertyLine, Fail
  <2>4. CASE KeywordLine(l)
    BY <2>1, <2>4, RefsKeyword
  <2>5. CASE CloseBlock(l)
    BY <2>1, <2>5, RefsClose
  <2> QED BY <1>2, <2>1, <2>2, <2>3, <2>4, <2>5 DEF parse, Fail
<1>3. ASSUME NEW l \in Lines, plain_listing(l) PROVE RefInv'
  <2>1. lines' \in Seq(Lines) /\ status = "parse"
    BY <1>1, <1>3 DEF plain_listing
  <2>2. CASE CloseBlock(l)
    BY <2>1, <2>2, RefsClose
  <2>3. CASE UNCHANGED <<stack, objs, refs>> /\ status' \in {"parse", "syntax", "failed"}
    BY <1>1, <2>1, <2>3, RefsKept
  <2>4. CASE ListingEntry(l)
    <3>1. CASE UNCHANGED objs /\ Fail("syntax", refs)
      BY <2>3, <3>1 DEF Fail
    <3>2. ASSUME NEW d, objs' = [objs EXCEPT ![Top.obj].data = d], UNCHANGED <<stack, refs, got, status>>
          PROVE  RefInv'
      <4>1. ObjsKept
        BY <1>1, <3>2, DataKept, TopFacts
      <4> QED BY <2>1, <3>2, <4>1, RefsKept
    <3> QED BY <2>4, <3>1, <3>2 DEF ListingEntry
  <2> QED BY <1>3, <2>1, <2>2, <2>3, <2>4 DEF plain_listing
<1>4. CASE EndOfFile
  <2>1. Len(stack) = 1 \/ Len(stack) > 1
    BY <1>1, TopFacts
  <2>2. /\ UNCHANGED <<lines, objs, stack, refs>> /\ status' \in {"syntax", "read"}
        /\ status' = "read" => Len(stack) = 1
    <3>1. CASE Len(stack) > 1
      BY <1>4, <3>1 DEF EndOfFile, Fail
    <3>2. CASE ~(Len(stack) > 1)
      <4>1. Len(stack) = 1
        BY <2>1, <3>2, Zenon
      <4> QED BY <1>4, <3>2, <4>1 DEF EndOfFile
    <3> QED BY <3>1, <3>2
  <2> QED BY <1>1, <2>2, RefsKept
<1>5. CASE FetchFails
  BY <1>1, <1>5, RefsKept DEF FetchFails, Fail
<1>6. CASE ReturnError
  BY <1>1, <1>6, RefsPop DEF ReturnError
<1>7. CASE get_next_record
  <2>1. PICK d : objs' = [objs EXCEPT ![Min(Unread)].data = d]
    BY <1>7 DEF get_next_record
  <2>2. ObjsKept
    BY <1>1, <1>7, <2>1, DataKept, UnreadObject DEF get_next_record
  <2> QED BY <1>1, <1>7, <2>2, RefsKept DEF get_next_record, RefInv, StateOK
<1>8. CASE OpenFails
  BY <1>1, <1>8, RefsKept DEF OpenFails
<1>9. CASE AllRead
  BY <1>1, <1>9, RefsKept DEF AllRead, StateOK
<1>10. CASE UNCHANGED vars
  BY <1>1, <1>10, RefsKept DEF vars, StateOK
<1> QED BY <1>2, <1>3, <1>4, <1>5, <1>6, <1>7, <1>8, <1>9, <1>10 DEF Next

\* In every state the parser holds an object exactly as often as it has active
\* calls for blocks of that object, also while an error goes up through the calls.
THEOREM ConfigRefsBalanced == Spec => []RefsBalanced
<1>1. Init => RefInv
  BY RefsInit
<1>2. RefInv /\ [Next]_vars => RefInv'
  BY RefsNext
<1>3. RefInv => RefsBalanced
  BY DEF RefInv
<1> QED BY <1>1, <1>2, <1>3, PTL DEF Spec
-----------------------------------------------------------------------------
\* How many braces are open after the first i lines of a file.
OpenSet(s, i)  == { k \in 1..i : Opens(s[k]) }
CloseSet(s, i) == { k \in 1..i : Closes(s[k]) }
Level(s, i)    == Cardinality(OpenSet(s, i)) - Cardinality(CloseSet(s, i))

\* The last line that opened a block at this level.
BlockLines(s, n, d) == { j \in 1..n : Opens(s[j]) /\ Level(s, j) = d } \cup {0}
LineOf(s, d) == Max(BlockLines(s, Len(s), d))

\* A line changes the level by at most one.
LEMMA LevelStep ==
  ASSUME NEW s, NEW i \in Nat
  PROVE  /\ Level(s, 0) = 0 /\ Level(s, i) \in Int
         /\ Opens(s[i + 1]) => Level(s, i + 1) = Level(s, i) + 1
         /\ Closes(s[i + 1]) => Level(s, i + 1) = Level(s, i) - 1
         /\ ~Opens(s[i + 1]) /\ ~Closes(s[i + 1]) => Level(s, i + 1) = Level(s, i)
         /\ IsFiniteSet(OpenSet(s, i)) /\ IsFiniteSet(CloseSet(s, i))
         /\ Cardinality(OpenSet(s, i)) \in Nat /\ Cardinality(CloseSet(s, i)) \in Nat
<1>1. \A n \in Nat : /\ IsFiniteSet(OpenSet(s, n)) /\ IsFiniteSet(CloseSet(s, n))
                     /\ Cardinality(OpenSet(s, n)) \in Nat
                     /\ Cardinality(CloseSet(s, n)) \in Nat
  <2> TAKE n \in Nat
  <2>1. IsFiniteSet(1..n)
    BY FS_Interval
  <2>2. OpenSet(s, n) \in SUBSET (1..n) /\ CloseSet(s, n) \in SUBSET (1..n)
    BY DEF OpenSet, CloseSet
  <2>3. IsFiniteSet(OpenSet(s, n)) /\ IsFiniteSet(CloseSet(s, n))
    BY <2>1, <2>2, FS_Subset
  <2> QED BY <2>3, FS_CardinalityType
<1>2. Level(s, 0) = 0
  <2>1. OpenSet(s, 0) = {} /\ CloseSet(s, 0) = {}
    BY DEF OpenSet, CloseSet
  <2> QED BY <2>1, FS_EmptySet DEF Level
<1>3. ~(Opens(s[i + 1]) /\ Closes(s[i + 1]))
  BY DEF Opens, Closes
<1>4. 1..(i + 1) = 1..i \cup {i + 1} /\ i + 1 \notin 1..i
  OBVIOUS
<1>5. Cardinality(OpenSet(s, i + 1))
        = Cardinality(OpenSet(s, i)) + (IF Opens(s[i + 1]) THEN 1 ELSE 0)
  <2>1. i + 1 \notin OpenSet(s, i)
    BY <1>4 DEF OpenSet
  <2>2. OpenSet(s, i + 1) = IF Opens(s[i + 1]) THEN OpenSet(s, i) \cup {i + 1} ELSE OpenSet(s, i)
    BY <1>4 DEF OpenSet
  <2>3. Cardinality(OpenSet(s, i) \cup {i + 1}) = Cardinality(OpenSet(s, i)) + 1
    BY <1>1, <2>1, FS_AddElement
  <2> QED BY <1>1, <2>2, <2>3
<1>6. Cardinality(CloseSet(s, i + 1))
        = Cardinality(CloseSet(s, i)) + (IF Closes(s[i + 1]) THEN 1 ELSE 0)
  <2>1. i + 1 \notin CloseSet(s, i)
    BY <1>4 DEF CloseSet
  <2>2. CloseSet(s, i + 1) = IF Closes(s[i + 1]) THEN CloseSet(s, i) \cup {i + 1} ELSE CloseSet(s, i)
    BY <1>4 DEF CloseSet
  <2>3. Cardinality(CloseSet(s, i) \cup {i + 1}) = Cardinality(CloseSet(s, i)) + 1
    BY <1>1, <2>1, FS_AddElement
  <2> QED BY <1>1, <2>2, <2>3
<1> QED BY <1>1, <1>2, <1>3, <1>5, <1>6 DEF Level

\* Lines after the i-th one have no part in the level.
LEMMA LevelPrefix ==
  ASSUME NEW s, NEW t, NEW i \in Nat, \A k \in 1..i : s[k] = t[k]
  PROVE  Level(s, i) = Level(t, i)
<1>1. OpenSet(s, i) = OpenSet(t, i) /\ CloseSet(s, i) = CloseSet(t, i)
  BY DEF OpenSet, CloseSet
<1> QED BY <1>1 DEF Level

\* Counting a set in two parts.
LEMMA DisjointCount ==
  ASSUME NEW A, NEW B, IsFiniteSet(A), IsFiniteSet(B), A \cap B = {}
  PROVE  /\ Cardinality(A \cup B) = Cardinality(A) + Cardinality(B)
         /\ Cardinality(A) \in Nat /\ Cardinality(B) \in Nat
<1>1. Cardinality(A) \in Nat /\ Cardinality(B) \in Nat
  BY FS_CardinalityType
<1>2. Cardinality(A \cap B) = 0
  BY FS_EmptySet
<1>3. Cardinality(A \cup B) = Cardinality(A) + Cardinality(B) - Cardinality(A \cap B)
  BY FS_Union
<1> QED BY <1>1, <1>2, <1>3

\* A block encloses a line when the levels say so.
LEMMA EnclosingLevel ==
  ASSUME NEW s, NEW i \in Nat \ {0}
  PROVE  /\ Enclosing(s, i) = Max(BlockLines(s, i - 1, Level(s, i - 1)))
         /\ Enclosing(s, i) \in BlockLines(s, i - 1, Level(s, i - 1))
         /\ Enclosing(s, i) \in 0..(i - 1)
<1> DEFINE O(j) == { k \in j + 1 .. i - 1 : Opens(s[k]) }
           C(j) == { k \in j + 1 .. i - 1 : Closes(s[k]) }
           E == { j \in 1 .. i - 1 : Opens(s[j]) /\ Cardinality(O(j)) = Cardinality(C(j)) } \cup {0}
<1>1. Enclosing(s, i) = Max(E)
  BY DEF Enclosing
<1>2. \A j \in 1..(i - 1) : (Cardinality(O(j)) = Cardinality(C(j))) <=> Level(s, j) = Level(s, i - 1)
  <2> TAKE j \in 1..(i - 1)
  <2>1. j \in Nat /\ i - 1 \in Nat
    OBVIOUS
  <2>2. IsFiniteSet(O(j)) /\ IsFiniteSet(C(j))
    <3>1. IsFiniteSet(j + 1 .. i - 1)
      BY <2>1, FS_Interval
    <3> QED BY <3>1, FS_Subset
  <2>3. /\ OpenSet(s, i - 1) = OpenSet(s, j) \cup O(j) /\ OpenSet(s, j) \cap O(j) = {}
        /\ CloseSet(s, i - 1) = CloseSet(s, j) \cup C(j) /\ CloseSet(s, j) \cap C(j) = {}
    BY <2>1 DEF OpenSet, CloseSet
  <2>4. /\ Cardinality(OpenSet(s, j)) \in Nat /\ Cardinality(CloseSet(s, j)) \in Nat
        /\ IsFiniteSet(OpenSet(s, j)) /\ IsFiniteSet(CloseSet(s, j))
    BY <2>1, LevelStep
  <2> HIDE DEF O, C
  <2>5. /\ Cardinality(OpenSet(s, i - 1)) = Cardinality(OpenSet(s, j)) + Cardinality(O(j))
        /\ Cardinality(O(j)) \in Nat
    BY <2>2, <2>3, <2>4, DisjointCount
  <2>6. /\ Cardinality(CloseSet(s, i - 1)) = Cardinality(CloseSet(s, j)) + Cardinality(C(j))
        /\ Cardinality(C(j)) \in Nat
    BY <2>2, <2>3, <2>4, DisjointCount
  <2> QED BY <2>4, <2>5, <2>6 DEF Level
<1> HIDE DEF O, C
<1>3. E = BlockLines(s, i - 1, Level(s, i - 1))
  BY <1>2 DEF BlockLines
<1>4. E \subseteq 0..(i - 1) /\ E # {} /\ i - 1 \in Nat
  OBVIOUS
<1>5. Max(E) \in E
  <2> HIDE DEF E
  <2> QED BY <1>4, MaxIsGreatest
<1> HIDE DEF E
<1> QED BY <1>1, <1>3, <1>4, <1>5

\* The block a line is written in is known once the lines before it are.
LEMMA EnclosingPrefix ==
  ASSUME NEW s, NEW t, NEW i \in Nat \ {0}, \A k \in 1..(i - 1) : s[k] = t[k]
  PROVE  Enclosing(s, i) = Enclosing(t, i)
<1>1. i - 1 \in Nat
  OBVIOUS
<1>2. \A j \in 0..(i - 1) : Level(s, j) = Level(t, j)
  BY LevelPrefix
<1>3. BlockLines(s, i - 1, Level(s, i - 1)) = BlockLines(t, i - 1, Level(t, i - 1))
  BY <1>1, <1>2 DEF BlockLines
<1> QED BY <1>3, EnclosingLevel

FunctionOn(f, S) == f = [x \in S |-> f[x]]

Defined(n, E, R, V, z) ==
  \E f : /\ FunctionOn(f, 0..n) /\ f[0] = z
         /\ \A j \in 1..n : f[j] = IF j \in R THEN f[E[j]] ELSE V[j]

\* A function that looks at earlier arguments only can be defined.
LEMMA BlockRecursion ==
  ASSUME NEW n \in Nat, NEW E, \A j \in 1..n : E[j] \in 0..(j - 1), NEW R, NEW V, NEW z
  PROVE  Defined(n, E, R, V, z)
<1> DEFINE Rec(f, m) ==
             f = [j \in 0..m |-> IF j = 0 THEN z ELSE IF j \in R THEN f[E[j]] ELSE V[j]]
           S == { m \in Nat : m <= n => \E f : Rec(f, m) }
<1>1. 0 \in S
  <2>1. Rec([j \in 0..0 |-> z], 0)
    OBVIOUS
  <2> QED BY <2>1
<1>2. ASSUME NEW m \in Nat, m \in S PROVE m + 1 \in S
  <2> SUFFICES ASSUME m + 1 <= n PROVE \E f : Rec(f, m + 1)
    OBVIOUS
  <2>1. PICK f : Rec(f, m)
    BY <1>2
  <2> DEFINE v == IF m + 1 \in R THEN f[E[m + 1]] ELSE V[m + 1]
             g == [j \in 0..(m + 1) |-> IF j <= m THEN f[j] ELSE v]
  <2>2. \A j \in 0..m : g[j] = f[j]
    OBVIOUS
  <2>3. g[m + 1] = v
    OBVIOUS
  <2>4. g = [j \in 0..(m + 1) |-> g[j]]
    OBVIOUS
  <2> HIDE DEF g
  <2>5. E[m + 1] \in 0..m
    OBVIOUS
  <2>6. \A j \in 1..m : j \in 1..n /\ j \in 0..m /\ E[j] \in 0..m
    OBVIOUS
  <2>7. \A j \in 0..m : g[j] = IF j = 0 THEN z ELSE IF j \in R THEN g[E[j]] ELSE V[j]
    <3> TAKE j \in 0..m
    <3>1. f[j] = IF j = 0 THEN z ELSE IF j \in R THEN f[E[j]] ELSE V[j]
      BY <2>1
    <3>2. CASE j = 0
      BY <2>2, <3>1, <3>2
    <3>3. CASE j # 0
      <4>1. j \in 1..m
        BY <3>3
      <4>2. g[E[j]] = f[E[j]]
        BY <2>2, <2>6, <4>1
      <4> QED BY <2>2, <3>1, <3>3, <4>2
    <3> QED BY <3>2, <3>3
  <2>8. g[m + 1] = IF m + 1 = 0 THEN z ELSE IF m + 1 \in R THEN g[E[m + 1]] ELSE V[m + 1]
    BY <2>2, <2>3, <2>5
  <2>9. \A j \in 0..(m + 1) : j \in 0..m \/ j = m + 1
    OBVIOUS
  <2>10. \A j \in 0..(m + 1) : g[j] = IF j = 0 THEN z ELSE IF j \in R THEN g[E[j]] ELSE V[j]
    BY <2>7, <2>8, <2>9
  <2>11. Rec(g, m + 1)
    BY <2>4, <2>10
  <2> QED BY <2>11
<1> HIDE DEF S
<1>3. n \in S
  BY <1>1, <1>2, SetInduction
<1>4. PICK f : Rec(f, n)
  BY <1>3 DEF S
<1>5. FunctionOn(f, 0..n)
  BY <1>4 DEF FunctionOn
<1>6. f[0] = z /\ \A j \in 1..n : f[j] = IF j \in R THEN f[E[j]] ELSE V[j]
  BY <1>4
<1> QED BY <1>5, <1>6 DEF Defined

\* The recursion that defines the kind of the object a block is for.
LEMMA KindRec ==
  ASSUME NEW s, Len(s) \in Nat
  PROVE  /\ BlockKind(s)[0] = "outfile"
         /\ \A j \in 1..Len(s) :
              BlockKind(s)[j] = IF s[j].word = "raw" THEN BlockKind(s)[Enclosing(s, j)]
                                ELSE s[j].word
<1> DEFINE n == Len(s)
           E == [j \in 1..n |-> Enclosing(s, j)]
           R == { j \in 1..n : s[j].word = "raw" }
           V == [j \in 1..n |-> s[j].word]
           Body(f) == [j \in 0..n |-> IF j = 0 THEN "outfile"
                                      ELSE IF s[j].word = "raw" THEN f[Enclosing(s, j)]
                                      ELSE s[j].word]
<1>1. \A j \in 1..n : E[j] \in 0..(j - 1)
  BY EnclosingLevel
<1>2. PICK f : /\ FunctionOn(f, 0..n) /\ f[0] = "outfile"
               /\ \A j \in 1..n : f[j] = IF j \in R THEN f[E[j]] ELSE V[j]
  <2> HIDE DEF E, R, V, n, Body
  <2>1. n \in Nat
    BY DEF n
  <2>2. Defined(n, E, R, V, "outfile")
    BY <1>1, <2>1, BlockRecursion
  <2> QED BY <2>2 DEF Defined
<1>3. f = Body(f)
  <2>1. \A j \in 1..n : /\ E[j] = Enclosing(s, j) /\ V[j] = s[j].word
                        /\ j \in R <=> s[j].word = "raw"
    OBVIOUS
  <2>2. \A j \in 0..n : j = 0 \/ j \in 1..n
    OBVIOUS
  <2> HIDE DEF E, R, V
  <2> QED BY <1>2, <2>1, <2>2 DEF FunctionOn
<1>4. BlockKind(s) = Body(BlockKind(s))
  BY <1>3 DEF BlockKind
<1> QED BY <1>4

\* The recursion that defines the object of a block.
LEMMA ObjectRec ==
  ASSUME NEW s, NEW os, Len(s) \in Nat
  PROVE  /\ BlockObject(s, os)[0] = 1
         /\ \A j \in 1..Len(s) :
              BlockObject(s, os)[j] = IF s[j].word = "raw" THEN BlockObject(s, os)[Enclosing(s, j)]
                                      ELSE ObjectAt(os, j)
<1> DEFINE n == Len(s)
           E == [j \in 1..n |-> Enclosing(s, j)]
           R == { j \in 1..n : s[j].word = "raw" }
           V == [j \in 1..n |-> ObjectAt(os, j)]
           Body(f) == [j \in 0..n |-> IF j = 0 THEN 1
                                      ELSE IF s[j].word = "raw" THEN f[Enclosing(s, j)]
                                      ELSE ObjectAt(os, j)]
<1>1. \A j \in 1..n : E[j] \in 0..(j - 1)
  BY EnclosingLevel
<1>2. PICK f : /\ FunctionOn(f, 0..n) /\ f[0] = 1
               /\ \A j \in 1..n : f[j] = IF j \in R THEN f[E[j]] ELSE V[j]
  <2> HIDE DEF E, R, V, n, Body
  <2>1. n \in Nat
    BY DEF n
  <2>2. Defined(n, E, R, V, 1)
    BY <1>1, <2>1, BlockRecursion
  <2> QED BY <2>2 DEF Defined
<1>3. f = Body(f)
  <2>1. \A j \in 1..n : /\ E[j] = Enclosing(s, j) /\ V[j] = ObjectAt(os, j)
                        /\ j \in R <=> s[j].word = "raw"
    OBVIOUS
  <2>2. \A j \in 0..n : j = 0 \/ j \in 1..n
    OBVIOUS
  <2> HIDE DEF E, R, V
  <2> QED BY <1>2, <2>1, <2>2 DEF FunctionOn
<1>4. BlockObject(s, os) = Body(BlockObject(s, os))
  BY <1>3 DEF BlockObject
<1> QED BY <1>4

\* The file t begins with the lines of s.
Continues(s, t) ==
  /\ Len(s) \in Nat /\ Len(t) \in Nat /\ Len(s) <= Len(t)
  /\ \A k \in 1..Len(s) : t[k] = s[k]

\* Further lines do not change the blocks that the earlier ones are written in.
LEMMA EnclosingKept ==
  ASSUME NEW s, NEW t, Continues(s, t), NEW i \in 1..(Len(s) + 1)
  PROVE  Enclosing(t, i) = Enclosing(s, i) /\ Enclosing(s, i) \in 0..(i - 1)
<1>1. Len(s) \in Nat /\ i \in Nat \ {0} /\ \A k \in 1..(i - 1) : s[k] = t[k]
  BY DEF Continues
<1> QED BY <1>1, EnclosingPrefix, EnclosingLevel

\* Nor what kind of object they are for.
LEMMA KindKept ==
  ASSUME NEW s, NEW t, Continues(s, t)
  PROVE  \A j \in 0..Len(s) : BlockKind(t)[j] = BlockKind(s)[j]
<1> DEFINE B == { j \in 0..Len(s) : BlockKind(t)[j] # BlockKind(s)[j] }
<1> SUFFICES ASSUME B # {} PROVE FALSE
  OBVIOUS
<1>1. /\ Len(s) \in Nat /\ Len(t) \in Nat /\ Len(s) <= Len(t)
      /\ \A k \in 1..Len(s) : t[k] = s[k]
  BY DEF Continues
<1>2. PICK m \in B : \A j \in B : m <= j
  <2>1. B \subseteq Nat
    BY <1>1
  <2> HIDE DEF B
  <2> QED BY <2>1, NatLeast
<1>3. m # 0
  BY <1>1, <1>2, KindRec
<1>4. m \in 1..Len(s) /\ m \in 1..Len(t)
  BY <1>1, <1>2, <1>3
<1>5. /\ BlockKind(s)[m] = IF s[m].word = "raw" THEN BlockKind(s)[Enclosing(s, m)] ELSE s[m].word
      /\ BlockKind(t)[m] = IF t[m].word = "raw" THEN BlockKind(t)[Enclosing(t, m)] ELSE t[m].word
  BY <1>1, <1>4, KindRec
<1>6. Enclosing(t, m) = Enclosing(s, m) /\ Enclosing(s, m) \in 0..(m - 1)
  BY <1>1, <1>4, EnclosingKept
<1>7. Enclosing(s, m) \notin B /\ Enclosing(s, m) \in 0..Len(s)
  BY <1>1, <1>2, <1>4, <1>6
<1>8. BlockKind(t)[Enclosing(s, m)] = BlockKind(s)[Enclosing(s, m)]
  BY <1>7
<1> QED BY <1>1, <1>2, <1>4, <1>5, <1>6, <1>8

\* No two objects were made at the same line.
OneObjectPerLine(os) == \A p, q \in 1..Len(os) : os[p].at = os[q].at => p = q

\* A line that opens a block has made an object, unless it stands for its parent.
OpensHaveObjects(s, os) ==
  \A j \in 1..Len(s) : Opens(s[j]) /\ s[j].word # "raw" => \E p \in 1..Len(os) : os[p].at = j

\* The objects of os are the first ones of os2, made at the same lines.
SameLines(os, os2) ==
  /\ Len(os) \in Nat /\ Len(os2) \in Nat /\ Len(os) <= Len(os2)
  /\ \A p \in 1..Len(os) : os2[p].at = os[p].at

\* The object that was made at a line is found by its line.
LEMMA ObjectFound ==
  ASSUME NEW os, OneObjectPerLine(os), NEW p \in 1..Len(os)
  PROVE  ObjectAt(os, os[p].at) = p
<1>1. \E q : q \in 1..Len(os) /\ os[q].at = os[p].at
  OBVIOUS
<1>2. ObjectAt(os, os[p].at) \in 1..Len(os) /\ os[ObjectAt(os, os[p].at)].at = os[p].at
  BY <1>1 DEF ObjectAt
<1> QED BY <1>2 DEF OneObjectPerLine

\* Further lines and objects do not change the objects of the blocks there are.
LEMMA ObjectKept ==
  ASSUME NEW s, NEW t, Continues(s, t), NEW os, NEW os2, SameLines(os, os2),
         OneObjectPerLine(os2), OpensHaveObjects(s, os)
  PROVE  \A j \in 0..Len(s) : j = 0 \/ Opens(s[j]) =>
           BlockObject(t, os2)[j] = BlockObject(s, os)[j]
<1> DEFINE B == { j \in 0..Len(s) : /\ j = 0 \/ Opens(s[j])
                                    /\ BlockObject(t, os2)[j] # BlockObject(s, os)[j] }
<1> SUFFICES ASSUME B # {} PROVE FALSE
  OBVIOUS
<1>1. /\ Len(s) \in Nat /\ Len(t) \in Nat /\ Len(s) <= Len(t)
      /\ \A k \in 1..Len(s) : t[k] = s[k]
  BY DEF Continues
<1>2. PICK m \in B : \A j \in B : m <= j
  <2>1. B \subseteq Nat
    BY <1>1
  <2> HIDE DEF B
  <2> QED BY <2>1, NatLeast
<1>3. m # 0
  BY <1>1, <1>2, ObjectRec
<1>4. m \in 1..Len(s) /\ m \in 1..Len(t) /\ Opens(s[m])
  BY <1>1, <1>2, <1>3
<1>5. /\ BlockObject(s, os)[m] = IF s[m].word = "raw" THEN BlockObject(s, os)[Enclosing(s, m)]
                                 ELSE ObjectAt(os, m)
      /\ BlockObject(t, os2)[m] = IF t[m].word = "raw" THEN BlockObject(t, os2)[Enclosing(t, m)]
                                  ELSE ObjectAt(os2, m)
  BY <1>1, <1>4, ObjectRec
<1>6. CASE s[m].word = "raw"
  <2>1. Enclosing(t, m) = Enclosing(s, m) /\ Enclosing(s, m) \in 0..(m - 1)
    BY <1>1, <1>4, EnclosingKept
  <2>2. Enclosing(s, m) = 0 \/ Opens(s[Enclosing(s, m)])
    <3>1. Enclosing(s, m) \in BlockLines(s, m - 1, Level(s, m - 1))
      BY <1>4, EnclosingLevel
    <3> QED BY <3>1 DEF BlockLines
  <2>3. Enclosing(s, m) \notin B /\ Enclosing(s, m) \in 0..Len(s)
    BY <1>1, <1>2, <1>4, <2>1
  <2>4. BlockObject(t, os2)[Enclosing(s, m)] = BlockObject(s, os)[Enclosing(s, m)]
    BY <2>2, <2>3
  <2> QED BY <1>1, <1>2, <1>4, <1>5, <1>6, <2>1, <2>4
<1>7. CASE s[m].word # "raw"
  <2>1. PICK p \in 1..Len(os) : os[p].at = m
    BY <1>4, <1>7 DEF OpensHaveObjects
  <2>2. p \in 1..Len(os2) /\ os2[p].at = m /\ OneObjectPerLine(os)
    BY <2>1 DEF SameLines, OneObjectPerLine
  <2>3. ObjectAt(os, m) = p /\ ObjectAt(os2, m) = p
    BY <2>1, <2>2, ObjectFound
  <2> QED BY <1>1, <1>2, <1>4, <1>5, <1>7, <2>3
<1> QED BY <1>6, <1>7

\* The innermost open blocks when a line is added.
LEMMA LineAppended ==
  ASSUME NEW S, NEW s \in Seq(S), NEW e
  PROVE  LET t == Append(s, e)
             n == Len(s)
         IN /\ n \in Nat /\ Len(t) = n + 1 /\ t[n + 1] = e /\ Continues(s, t)
            /\ Level(s, n) \in Int
            /\ Opens(e) => Level(t, n + 1) = Level(s, n) + 1
            /\ Closes(e) => Level(t, n + 1) = Level(s, n) - 1
            /\ ~Opens(e) /\ ~Closes(e) => Level(t, n + 1) = Level(s, n)
            /\ Enclosing(t, n + 1) = LineOf(s, Level(s, n))
            /\ Enclosing(s, n + 1) = LineOf(s, Level(s, n))
            /\ \A d : Opens(e) /\ d # Level(s, n) + 1 => LineOf(t, d) = LineOf(s, d)
            /\ \A d : ~Opens(e) => LineOf(t, d) = LineOf(s, d)
            /\ Opens(e) => LineOf(t, Level(s, n) + 1) = n + 1
            /\ \A d : /\ LineOf(s, d) \in 0..n
                      /\ LineOf(s, d) = 0 \/ Opens(s[LineOf(s, d)])
<1> DEFINE t == Append(s, e)
           n == Len(s)
<1>1. n \in Nat /\ Len(t) = n + 1 /\ t[n + 1] = e /\ \A k \in 1..n : t[k] = s[k]
  OBVIOUS
<1>2. Continues(s, t)
  BY <1>1 DEF Continues
<1> HIDE DEF t
<1>3. \A j \in 0..n : Level(t, j) = Level(s, j)
  BY <1>1, LevelPrefix
<1>4. /\ Level(s, n) \in Int
      /\ Opens(e) => Level(t, n + 1) = Level(s, n) + 1
      /\ Closes(e) => Level(t, n + 1) = Level(s, n) - 1
      /\ ~Opens(e) /\ ~Closes(e) => Level(t, n + 1) = Level(s, n)
  <2>1. Level(t, n) = Level(s, n)
    BY <1>1, <1>3
  <2>2. n \in Nat /\ t[n + 1] = e
    BY <1>1
  <2>3. /\ Level(t, n) \in Int
        /\ Opens(t[n + 1]) => Level(t, n + 1) = Level(t, n) + 1
        /\ Closes(t[n + 1]) => Level(t, n + 1) = Level(t, n) - 1
        /\ ~Opens(t[n + 1]) /\ ~Closes(t[n + 1]) => Level(t, n + 1) = Level(t, n)
    BY <2>2, LevelStep
  <2> QED BY <2>1, <2>2, <2>3
<1>5. /\ Enclosing(s, n + 1) = LineOf(s, Level(s, n))
      /\ Enclosing(t, n + 1) = LineOf(s, Level(s, n))
  <2>1. n + 1 \in Nat \ {0} /\ (n + 1) - 1 = n /\ n + 1 \in 1..(n + 1)
    BY <1>1
  <2>2. Enclosing(s, n + 1) = LineOf(s, Level(s, n))
    BY <2>1, EnclosingLevel DEF LineOf
  <2> QED BY <1>2, <2>1, <2>2, EnclosingKept
<1>6. \A d : BlockLines(t, n + 1, d)
              = IF Opens(e) /\ d = Level(s, n) + 1 THEN BlockLines(s, n, d) \cup {n + 1}
                ELSE BlockLines(s, n, d)
  <2> TAKE d
  <2>1. 1..(n + 1) = 1..n \cup {n + 1}
    BY <1>1
  <2>2. \A j \in 1..n : (Opens(t[j]) /\ Level(t, j) = d) <=> (Opens(s[j]) /\ Level(s, j) = d)
    BY <1>1, <1>3
  <2>3. (Opens(t[n + 1]) /\ Level(t, n + 1) = d) <=> (Opens(e) /\ d = Level(s, n) + 1)
    BY <1>1, <1>4
  <2> QED BY <2>1, <2>2, <2>3 DEF BlockLines
<1>7. \A d : /\ BlockLines(s, n, d) \subseteq 0..n /\ BlockLines(s, n, d) # {}
             /\ \A j \in BlockLines(s, n, d) : j = 0 \/ Opens(s[j])
  BY <1>1 DEF BlockLines
<1>8. \A d : LineOf(s, d) \in BlockLines(s, n, d)
  BY <1>1, <1>7, MaxIsGreatest DEF LineOf
<1>9. Opens(e) => LineOf(t, Level(s, n) + 1) = n + 1
  <2> HAVE Opens(e)
  <2> DEFINE d == Level(s, n) + 1
             T == BlockLines(t, n + 1, d)
  <2>1. PICK m \in Nat : m = n + 1
    BY <1>1
  <2>2. BlockLines(s, n, d) \subseteq 0..m
    BY <1>1, <1>7, <2>1
  <2>3. T = BlockLines(s, n, d) \cup {m}
    BY <1>6, <2>1
  <2>4. T \subseteq 0..m /\ m \in T
    BY <2>1, <2>2, <2>3
  <2>5. LineOf(t, d) = Max(T)
    BY <1>1 DEF LineOf
  <2> HIDE DEF T
  <2>6. Max(T) \in T /\ \A j \in T : j <= Max(T)
    BY <2>1, <2>4, MaxIsGreatest
  <2>7. Max(T) = m
    <3>1. PICK x : x = Max(T)
      OBVIOUS
    <3>2. x \in 0..m /\ m <= x
      BY <2>4, <2>6, <3>1
    <3> QED BY <3>1, <3>2
  <2> QED BY <2>1, <2>5, <2>7
<1>10. \A d : (~Opens(e) \/ d # Level(s, n) + 1) => LineOf(t, d) = LineOf(s, d)
  BY <1>1, <1>6 DEF LineOf
<1> QED BY <1>1, <1>2, <1>4, <1>5, <1>7, <1>8, <1>9, <1>10 DEF t

-----------------------------------------------------------------------------
\* A call is for the block that was opened at line j.
FrameOK(f, s, os, j) ==
  /\ f.kwd = BlockWord(s, j)
  /\ f.obj = BlockObject(s, os)[j]
  /\ os[f.obj].kind = BlockKind(s)[j]

\* The active calls are for the blocks that are open after the lines of s.
Parsed(st, s, os) ==
  /\ Level(s, Len(s)) = Len(st) - 1 /\ LineOf(s, 0) = 0
  /\ \A k \in 1..Len(st) : FrameOK(st[k], s, os, LineOf(s, k - 1))
  /\ OpensHaveObjects(s, os)

\* The objects of os are the first ones of os2.
ObjectsKept(os, os2) ==
  /\ SameLines(os, os2)
  /\ \A o \in 1..Len(os) : os2[o].kind = os[o].kind /\ os2[o].parent = os[o].parent

\* The lines the objects were made at.
MadeAt(os, n) ==
  /\ os[1].at = 0 /\ \A o \in 2..Len(os) : os[o].at \in 1..n
  /\ OneObjectPerLine(os)

Attached(os, s) ==
  \A o \in 2..Len(os) : os[o].parent = BlockObject(s, os)[Enclosing(s, os[o].at)]

\* A call stays the call for its block.
LEMMA FrameKept ==
  ASSUME NEW s, NEW t, Continues(s, t), NEW os, NEW os2, ObjectsKept(os, os2),
         OneObjectPerLine(os2), OpensHaveObjects(s, os),
         NEW f, f.obj \in 1..Len(os), NEW j \in 0..Len(s), j = 0 \/ Opens(s[j]),
         FrameOK(f, s, os, j)
  PROVE  FrameOK(f, t, os2, j)
<1>1. BlockObject(t, os2)[j] = BlockObject(s, os)[j]
  BY ObjectKept DEF ObjectsKept
<1>2. BlockKind(t)[j] = BlockKind(s)[j]
  BY KindKept
<1>3. BlockWord(t, j) = BlockWord(s, j)
  BY DEF BlockWord, Continues
<1>4. os2[f.obj].kind = os[f.obj].kind
  BY DEF ObjectsKept
<1> QED BY <1>1, <1>2, <1>3, <1>4 DEF FrameOK

\* Objects stay attached where they are, and a new one is attached to the block
\* of the line that follows.
LEMMA AttachedKept ==
  ASSUME NEW s, NEW t, Continues(s, t), NEW os, NEW os2, ObjectsKept(os, os2),
         OneObjectPerLine(os2), OpensHaveObjects(s, os), MadeAt(os, Len(s)), Attached(os, s),
         \A o \in 2..Len(os2) : o > Len(os) =>
           /\ os2[o].at = Len(s) + 1
           /\ os2[o].parent = BlockObject(s, os)[Enclosing(s, Len(s) + 1)]
  PROVE  Attached(os2, t)
<1> SUFFICES ASSUME NEW o \in 2..Len(os2)
             PROVE  os2[o].parent = BlockObject(t, os2)[Enclosing(t, os2[o].at)]
  BY DEF Attached
<1>1. Len(s) \in Nat /\ Len(os) \in Nat /\ Len(os2) \in Nat
  BY DEF Continues, ObjectsKept, SameLines
<1>2. os2[o].at \in 1..(Len(s) + 1)
      /\ os2[o].parent = BlockObject(s, os)[Enclosing(s, os2[o].at)]
  <2>1. CASE o > Len(os)
    BY <1>1, <2>1
  <2>2. CASE ~(o > Len(os))
    <3>1. o \in 2..Len(os) /\ o \in 1..Len(os)
      BY <1>1, <2>2
    <3> QED BY <1>1, <3>1 DEF Attached, MadeAt, ObjectsKept, SameLines
  <2> QED BY <2>1, <2>2
<1>3. PICK i : i = os2[o].at
  OBVIOUS
<1>4. Enclosing(t, i) = Enclosing(s, i) /\ Enclosing(s, i) \in 0..(i - 1)
  BY <1>2, <1>3, EnclosingKept
<1>5. Enclosing(s, i) \in 0..Len(s)
  BY <1>1, <1>2, <1>3, <1>4
<1>6. Enclosing(s, i) = 0 \/ Opens(s[Enclosing(s, i)])
  <2>1. Enclosing(s, i) \in BlockLines(s, i - 1, Level(s, i - 1))
    BY <1>1, <1>2, <1>3, EnclosingLevel
  <2> QED BY <2>1 DEF BlockLines
<1>7. BlockObject(t, os2)[Enclosing(s, i)] = BlockObject(s, os)[Enclosing(s, i)]
  BY <1>5, <1>6, ObjectKept DEF ObjectsKept
<1> QED BY <1>2, <1>3, <1>4, <1>7

\* What is allowed in a block with this keyword and this kind of object; b is
\* the line of the block, 0 for the file itself.
LegalLine(l, b, w, k) ==
  IF w = "listing"
  THEN \/ l.tag = "comment"
       \/ l.tag = "close" /\ l.tail = "end"
       \/ l.tag = "entry" /\ parse_line(l.line) # Bad
  ELSE \/ l.tag = "comment"
       \/ l.tag = "close" /\ l.tail = "end" /\ b # 0
       \/ /\ l.tag = "word" /\ l.word \in property_names(k)
          /\ l.arg \notin {"none", "bad"} /\ l.tail = "end"
       \/ /\ l.tag = "word" /\ l.word \in Keywords(w) /\ ~ArgError(l)
          /\ l.tail = "end" \/ Opening(l)

\* Whether a line is legal depends on its block only.
LEMMA LegalByBlock ==
  ASSUME NEW s, NEW i
  PROVE  Legal(s, i) <=> LegalLine(s[i], Enclosing(s, i), BlockWord(s, Enclosing(s, i)),
                                   BlockKind(s)[Enclosing(s, i)])
<1>1. PICK l, b, w, k : /\ l = s[i] /\ b = Enclosing(s, i) /\ w = BlockWord(s, b)
                        /\ k = BlockKind(s)[b]
  OBVIOUS
<1>2. Legal(s, i) <=>
        IF w = "listing"
        THEN \/ l.tag = "comment"
             \/ l.tag = "close" /\ l.tail = "end"
             \/ l.tag = "entry" /\ parse_line(l.line) # Bad
        ELSE \/ l.tag = "comment"
             \/ l.tag = "close" /\ l.tail = "end" /\ b # 0
             \/ /\ l.tag = "word" /\ l.word \in property_names(k)
                /\ l.arg \notin {"none", "bad"} /\ l.tail = "end"
             \/ /\ l.tag = "word" /\ l.word \in Keywords(w) /\ ~ArgError(l)
                /\ \/ l.tail = "end"
                   \/ l.tail = "open" /\ (children[l.word] # {} \/ l.word = "listing")
  BY <1>1 DEF Legal
<1> QED BY <1>1, <1>2 DEF LegalLine, Opening

\* Further lines do not change what was legal.
LEMMA LegalKept ==
  ASSUME NEW s, NEW t, Continues(s, t), NEW i \in 1..Len(s)
  PROVE  Legal(t, i) <=> Legal(s, i)
<1>1. PICK b : b = Enclosing(s, i)
  OBVIOUS
<1>2. Len(s) \in Nat /\ i \in 1..(Len(s) + 1) /\ t[i] = s[i]
  BY DEF Continues
<1>3. Enclosing(t, i) = b /\ b \in 0..(i - 1)
  BY <1>1, <1>2, EnclosingKept
<1>4. b \in 0..Len(s)
  BY <1>2, <1>3
<1>5. BlockWord(t, b) = BlockWord(s, b)
  BY <1>4 DEF BlockWord, Continues
<1>6. BlockKind(t)[b] = BlockKind(s)[b]
  BY <1>4, KindKept
<1> QED BY <1>1, <1>2, <1>3, <1>5, <1>6, LegalByBlock

\* What the parser knows of the block it is in.
LEMMA InnermostBlock ==
  ASSUME NEW S, NEW s \in Seq(S), NEW n \in Nat, NEW st, StackOK(st, n), NEW os, Parsed(st, s, os)
  PROVE  LET f == st[Len(st)]
             b == LineOf(s, Len(st) - 1)
         IN /\ b = Enclosing(s, Len(s) + 1) /\ b \in 0..Len(s) /\ (b = 0 \/ Opens(s[b]))
            /\ FrameOK(f, s, os, b)
            /\ b = 0 <=> Len(st) = 1
<1> DEFINE f == st[Len(st)]
           b == LineOf(s, Len(st) - 1)
<1>1. /\ Len(st) \in Nat /\ Len(st) >= 1 /\ Len(st) \in 1..Len(st)
      /\ \A i \in 2..Len(st) : st[i].kwd \in Words
  BY DEF StackOK
<1>2. Level(s, Len(s)) = Len(st) - 1 /\ LineOf(s, 0) = 0 /\ FrameOK(f, s, os, b)
  BY <1>1 DEF Parsed
<1>3. b = Enclosing(s, Len(s) + 1) /\ b \in 0..Len(s) /\ (b = 0 \/ Opens(s[b]))
  BY <1>2, LineAppended
<1>4. Len(st) = 1 => b = 0
  BY <1>2
<1>5. Len(st) # 1 => b # 0
  <2>1. SUFFICES ASSUME Len(st) # 1, b = 0 PROVE FALSE
    OBVIOUS
  <2>2. Len(st) \in 2..Len(st)
    <3>1. PICK m \in Nat : m = Len(st)
      BY <1>1
    <3>2. m >= 1 /\ m # 1
      BY <1>1, <2>1, <3>1
    <3>3. m \in 2..m
      BY <3>2
    <3> QED BY <3>1, <3>3
  <2>3. f.kwd \in Words
    BY <1>1, <2>2
  <2>4. f.kwd = "global"
    BY <1>2, <2>1 DEF FrameOK, BlockWord
  <2> QED BY <2>3, <2>4, Tables
<1> QED BY <1>2, <1>3, <1>4, <1>5

\* A line that is added is judged by the innermost call.
LEMMA LegalAdded ==
  ASSUME NEW S, NEW s \in Seq(S), NEW n \in Nat, NEW st, StackOK(st, n), NEW os, Parsed(st, s, os),
         NEW l
  PROVE  LET f == st[Len(st)]
             b == LineOf(s, Len(st) - 1)
         IN Legal(Append(s, l), Len(s) + 1) <=> LegalLine(l, b, f.kwd, os[f.obj].kind)
<1>1. PICK t, f, b : t = Append(s, l) /\ f = st[Len(st)] /\ b = LineOf(s, Len(st) - 1)
  OBVIOUS
<1>2. /\ b = Enclosing(s, Len(s) + 1) /\ b \in 0..Len(s) /\ FrameOK(f, s, os, b)
  BY <1>1, InnermostBlock
<1>3. Len(s) \in Nat /\ t[Len(s) + 1] = l /\ Continues(s, t)
  BY <1>1, LineAppended
<1>4. Enclosing(t, Len(s) + 1) = b
  BY <1>2, <1>3, EnclosingKept
<1>5. BlockWord(t, b) = f.kwd
  BY <1>2, <1>3 DEF BlockWord, Continues, FrameOK
<1>6. BlockKind(t)[b] = os[f.obj].kind
  BY <1>2, <1>3, KindKept DEF FrameOK
<1> QED BY <1>1, <1>3, <1>4, <1>5, <1>6, LegalByBlock

\* The calls that are active before and after a step are for the same blocks.
LEMMA ParsedFrames ==
  ASSUME NEW S, NEW s \in Seq(S), NEW t, Continues(s, t), NEW os, NEW os2, ObjectsKept(os, os2),
         OneObjectPerLine(os2), NEW st, StackOK(st, Len(os)), Parsed(st, s, os),
         NEW k \in 1..Len(st), LineOf(t, k - 1) = LineOf(s, k - 1)
  PROVE  FrameOK(st[k], t, os2, LineOf(t, k - 1))
<1>1. PICK f, j : f = st[k] /\ j = LineOf(s, k - 1)
  OBVIOUS
<1>2. FrameOK(f, s, os, j) /\ OpensHaveObjects(s, os)
  BY <1>1 DEF Parsed
<1>3. f.obj \in 1..Len(os)
  BY <1>1 DEF StackOK
<1>4. j \in 0..Len(s) /\ (j = 0 \/ Opens(s[j]))
  BY <1>1, LineAppended
<1>5. FrameOK(f, t, os2, j)
  BY <1>2, <1>3, <1>4, FrameKept
<1> QED BY <1>1, <1>5

\* What was opened before has its object.
LEMMA OpensKept ==
  ASSUME NEW s, NEW t, Continues(s, t), NEW os, NEW os2, SameLines(os, os2), OpensHaveObjects(s, os),
         NEW j \in 1..Len(s), Opens(t[j]), t[j].word # "raw"
  PROVE  \E p \in 1..Len(os2) : os2[p].at = j
<1>1. PICK p \in 1..Len(os) : os[p].at = j
  BY DEF OpensHaveObjects, Continues
<1> QED BY <1>1 DEF SameLines

\* An entry of a listing is stored or read.
LEMMA ParsedData ==
  ASSUME NEW S, NEW s \in Seq(S), NEW os, NEW os2, ObjectsKept(os, os2),
         OneObjectPerLine(os2), NEW st, StackOK(st, Len(os)), Parsed(st, s, os)
  PROVE  Parsed(st, s, os2)
<1>1. Continues(s, s)
  BY DEF Continues
<1>2. \A k \in 1..Len(st) : FrameOK(st[k], s, os2, LineOf(s, k - 1))
  BY <1>1, ParsedFrames
<1>3. OpensHaveObjects(s, os2)
  BY <1>1, OpensKept DEF OpensHaveObjects, Parsed, ObjectsKept
<1> QED BY <1>2, <1>3 DEF Parsed

\* A line that is no brace.
LEMMA ParsedLine ==
  ASSUME NEW S, NEW s \in Seq(S), NEW e, ~Opens(e), ~Closes(e), NEW os, NEW os2,
         ObjectsKept(os, os2), OneObjectPerLine(os2), NEW st, StackOK(st, Len(os)),
         Parsed(st, s, os)
  PROVE  Parsed(st, Append(s, e), os2)
<1>1. PICK t : t = Append(s, e)
  OBVIOUS
<1>2. /\ Len(s) \in Nat /\ Len(t) = Len(s) + 1 /\ t[Len(s) + 1] = e /\ Continues(s, t)
      /\ Level(t, Len(s) + 1) = Level(s, Len(s))
      /\ \A d : LineOf(t, d) = LineOf(s, d)
  BY <1>1, LineAppended
<1>3. \A k \in 1..Len(st) : FrameOK(st[k], t, os2, LineOf(t, k - 1))
  BY <1>2, ParsedFrames
<1>4. OpensHaveObjects(t, os2)
  <2> SUFFICES ASSUME NEW j \in 1..Len(t), Opens(t[j]), t[j].word # "raw"
               PROVE  \E p \in 1..Len(os2) : os2[p].at = j
    BY DEF OpensHaveObjects
  <2>1. j \in 1..Len(s)
    BY <1>2
  <2> QED BY <1>2, <2>1, OpensKept DEF Parsed, ObjectsKept
<1> QED BY <1>1, <1>2, <1>3, <1>4 DEF Parsed

\* A '}' ends the innermost call.
LEMMA ParsedClose ==
  ASSUME NEW S, NEW s \in Seq(S), NEW e, Closes(e), NEW os, Len(os) \in Nat,
         OneObjectPerLine(os), NEW st, StackOK(st, Len(os)), Parsed(st, s, os), Len(st) > 1
  PROVE  Parsed(Front(st), Append(s, e), os)
<1>1. PICK t, st2 : t = Append(s, e) /\ st2 = Front(st)
  OBVIOUS
<1>2. ~Opens(e)
  BY DEF Opens, Closes
<1>3. /\ Len(s) \in Nat /\ Len(t) = Len(s) + 1 /\ t[Len(s) + 1] = e /\ Continues(s, t)
      /\ Level(t, Len(s) + 1) = Level(s, Len(s)) - 1
      /\ \A d : LineOf(t, d) = LineOf(s, d)
  BY <1>1, <1>2, LineAppended
<1>4. Len(st) \in Nat /\ Len(st2) = Len(st) - 1 /\ \A i \in 1..(Len(st) - 1) : st2[i] = st[i]
  BY <1>1, StackPop DEF StackOK
<1>5. ObjectsKept(os, os)
  BY DEF ObjectsKept, SameLines
<1>6. \A k \in 1..Len(st) : FrameOK(st[k], t, os, LineOf(t, k - 1))
  BY <1>3, <1>5, ParsedFrames
<1>7. \A k \in 1..Len(st2) : FrameOK(st2[k], t, os, LineOf(t, k - 1))
  BY <1>4, <1>6
<1>8. OpensHaveObjects(t, os)
  <2> SUFFICES ASSUME NEW j \in 1..Len(t), Opens(t[j]), t[j].word # "raw"
               PROVE  \E p \in 1..Len(os) : os[p].at = j
    BY DEF OpensHaveObjects
  <2>1. j \in 1..Len(s)
    BY <1>2, <1>3
  <2> QED BY <1>3, <1>5, <2>1, OpensKept DEF Parsed, ObjectsKept
<1>9. Level(t, Len(t)) = Len(st2) - 1 /\ LineOf(t, 0) = 0
  <2>1. Level(s, Len(s)) = Len(st) - 1 /\ LineOf(s, 0) = 0
    BY DEF Parsed
  <2> QED BY <1>3, <1>4, <2>1
<1> QED BY <1>1, <1>7, <1>8, <1>9 DEF Parsed

\* A '{' begins a call, for the new object or once more for the parent.
LEMMA ParsedOpen ==
  ASSUME NEW S, NEW s \in Seq(S), NEW e, Opens(e), NEW os, NEW os2,
         ObjectsKept(os, os2), OneObjectPerLine(os2), NEW st, StackOK(st, Len(os)),
         Parsed(st, s, os), NEW f, f.kwd = e.word,
         IF e.word = "raw" THEN f.obj = st[Len(st)].obj
         ELSE f.obj \in 1..Len(os2) /\ os2[f.obj].at = Len(s) + 1 /\ os2[f.obj].kind = e.word
  PROVE  Parsed(Append(st, f), Append(s, e), os2)
<1>1. PICK t, st2, n : t = Append(s, e) /\ st2 = Append(st, f) /\ n = Len(s)
  OBVIOUS
<1>2. /\ n \in Nat /\ Len(t) = n + 1 /\ t[n + 1] = e /\ Continues(s, t)
      /\ Level(t, n + 1) = Level(s, n) + 1
      /\ \A d : d # Level(s, n) + 1 => LineOf(t, d) = LineOf(s, d)
      /\ LineOf(t, Level(s, n) + 1) = n + 1
  BY <1>1, LineAppended
<1>3. /\ Len(st) \in Nat /\ Len(st) >= 1 /\ Len(st2) = Len(st) + 1 /\ st2[Len(st) + 1] = f
      /\ \A k \in 1..Len(st) : st2[k] = st[k]
      /\ st[Len(st)].obj \in 1..Len(os)
  BY <1>1 DEF StackOK
<1>4. Level(s, n) = Len(st) - 1 /\ LineOf(s, 0) = 0 /\ OpensHaveObjects(s, os)
  BY <1>1 DEF Parsed
<1>5. \A k \in 1..Len(st) : FrameOK(st2[k], t, os2, LineOf(t, k - 1))
  <2> TAKE k \in 1..Len(st)
  <2>1. LineOf(t, k - 1) = LineOf(s, k - 1)
    BY <1>2, <1>3, <1>4
  <2> QED BY <1>2, <1>3, <2>1, ParsedFrames
<1>6. FrameOK(f, t, os2, n + 1)
  <2>1. f.kwd = BlockWord(t, n + 1)
    BY <1>2 DEF BlockWord
  <2>2. PICK b : b = LineOf(s, Len(st) - 1)
    OBVIOUS
  <2>3. /\ b = Enclosing(s, n + 1) /\ b \in 0..n /\ (b = 0 \/ Opens(s[b]))
        /\ FrameOK(st[Len(st)], s, os, b)
    <3>1. Len(os) \in Nat
      BY DEF ObjectsKept, SameLines
    <3> QED BY <1>1, <2>2, <3>1, InnermostBlock
  <2>4. Enclosing(t, n + 1) = b
    BY <1>1, <1>2, <2>3, EnclosingKept
  <2>5. n + 1 \in 1..Len(t) /\ Len(t) \in Nat
    BY <1>2
  <2>6. CASE e.word = "raw"
    <3>1. FrameOK(st[Len(st)], t, os2, b)
      BY <1>1, <1>2, <1>3, <1>4, <2>3, FrameKept
    <3>2. /\ BlockObject(t, os2)[n + 1] = BlockObject(t, os2)[b]
          /\ BlockKind(t)[n + 1] = BlockKind(t)[b]
      BY <1>2, <2>4, <2>5, <2>6, ObjectRec, KindRec
    <3> QED BY <2>1, <2>6, <3>1, <3>2 DEF FrameOK
  <2>7. CASE e.word # "raw"
    <3>1. f.obj \in 1..Len(os2) /\ os2[f.obj].at = n + 1 /\ os2[f.obj].kind = e.word
      BY <1>1, <2>7
    <3>2. ObjectAt(os2, n + 1) = f.obj
      BY <3>1, ObjectFound
    <3>3. BlockObject(t, os2)[n + 1] = ObjectAt(os2, n + 1) /\ BlockKind(t)[n + 1] = e.word
      BY <1>2, <2>5, <2>7, ObjectRec, KindRec
    <3> QED BY <2>1, <3>1, <3>2, <3>3 DEF FrameOK
  <2> QED BY <2>6, <2>7
<1>7. \A k \in 1..Len(st2) : FrameOK(st2[k], t, os2, LineOf(t, k - 1))
  <2> TAKE k \in 1..Len(st2)
  <2>1. CASE k \in 1..Len(st)
    BY <1>5, <2>1
  <2>2. CASE k \notin 1..Len(st)
    <3>1. k = Len(st) + 1
      BY <1>3, <2>2
    <3>2. LineOf(t, k - 1) = n + 1
      BY <1>2, <1>3, <1>4, <3>1
    <3> QED BY <1>3, <1>6, <3>1, <3>2
  <2> QED BY <2>1, <2>2
<1>8. OpensHaveObjects(t, os2)
  <2> SUFFICES ASSUME NEW j \in 1..Len(t), Opens(t[j]), t[j].word # "raw"
               PROVE  \E p \in 1..Len(os2) : os2[p].at = j
    BY DEF OpensHaveObjects
  <2>1. CASE j \in 1..Len(s)
    BY <1>2, <1>4, <2>1, OpensKept DEF ObjectsKept
  <2>2. CASE j = n + 1
    BY <1>1, <1>2, <2>2
  <2> QED BY <1>1, <1>2, <2>1, <2>2
<1>9. Level(t, Len(t)) = Len(st2) - 1 /\ LineOf(t, 0) = 0
  BY <1>2, <1>3, <1>4
<1> QED BY <1>1, <1>7, <1>8, <1>9 DEF Parsed

-----------------------------------------------------------------------------
(* The inductive invariant: while the file is being parsed or after it was *)
(* taken, the calls are for the blocks that counting braces finds.         *)
BlockInv ==
  /\ MadeAt(objs, Len(lines))
  /\ AttachedToBlock
  /\ SyntaxJudged
  /\ status \in {"parse", "read", "done"} => Parsed(stack, lines, objs)

ParseInv == RefInv /\ BlockInv

\* What counting braces says about the next line.
Verdict(l) == LegalLine(l, LineOf(lines, Len(stack) - 1), Top.kwd, objs[Top.obj].kind)

\* The objects after the next line: at most one more, attached to the innermost call.
Grown ==
  /\ ObjectsKept(objs, objs')
  /\ MadeAt(objs', Len(lines) + 1)
  /\ \A o \in 2..Len(objs') : o > Len(objs) => /\ objs'[o].at = Len(lines) + 1
                                               /\ objs'[o].parent = Top.obj

\* Nothing was made.
LEMMA GrownSame ==
  ASSUME StateOK, MadeAt(objs, Len(lines)), ObjsKept
  PROVE  Grown /\ MadeAt(objs', Len(lines)) /\ ObjectsKept(objs, objs')
<1>1. /\ Len(objs) \in Nat /\ Len(lines) \in Nat /\ Len(objs) >= 1 /\ Len(objs') = Len(objs)
      /\ \A o \in 1..Len(objs) : /\ objs'[o].kind = objs[o].kind /\ objs'[o].at = objs[o].at
                                 /\ objs'[o].parent = objs[o].parent
  BY TopFacts DEF StateOK, ObjsOK, ObjsKept
<1>2. ObjectsKept(objs, objs')
  BY <1>1 DEF ObjectsKept, SameLines
<1>3. MadeAt(objs', Len(lines)) /\ MadeAt(objs', Len(lines) + 1)
  BY <1>1 DEF MadeAt, OneObjectPerLine
<1> QED BY <1>1, <1>2, <1>3 DEF Grown

\* A callback returned an object.
LEMMA GrownMade ==
  ASSUME StateOK, MadeAt(objs, Len(lines)), NEW l, l.word \in Words, NEW child, Made(l, child)
  PROVE  Grown
<1>1. /\ Len(objs) \in Nat /\ Len(lines) \in Nat /\ Len(objs) >= 1
      /\ Len(objs') >= Len(objs) /\ Len(objs') \in Nat
      /\ \A o \in 1..Len(objs) : objs'[o] = objs[o]
      /\ Len(objs') > Len(objs) => Len(objs') = Len(objs) + 1 /\ objs'[Len(objs')] = NewObj(l)
      /\ NewObj(l).at = Len(lines) + 1 /\ NewObj(l).parent = Top.obj
  BY TopFacts, MadeFacts DEF NewObj, StateOK, ObjsOK
<1>2. ObjectsKept(objs, objs')
  BY <1>1 DEF ObjectsKept, SameLines
<1>3. \A o \in 2..Len(objs') : o > Len(objs) => /\ objs'[o].at = Len(lines) + 1
                                                /\ objs'[o].parent = Top.obj
  <2> SUFFICES ASSUME NEW o \in 2..Len(objs'), o > Len(objs)
               PROVE  objs'[o].at = Len(lines) + 1 /\ objs'[o].parent = Top.obj
    OBVIOUS
  <2>1. o = Len(objs') /\ Len(objs') > Len(objs)
    BY <1>1
  <2>2. objs'[o] = NewObj(l)
    BY <1>1, <2>1
  <2> QED BY <1>1, <2>2
<1>4. \A o \in 1..Len(objs') : \/ o \in 1..Len(objs)
                               \/ o \in 2..Len(objs') /\ o > Len(objs) /\ o = Len(objs')
  BY <1>1
<1>5. /\ objs'[1].at = 0
      /\ \A o \in 1..Len(objs) : objs'[o].at \in 0..Len(lines) /\ (o # 1 => objs'[o].at # 0)
  <2>1. \A o \in 1..Len(objs) : o = 1 \/ o \in 2..Len(objs)
    BY <1>1
  <2> QED BY <1>1, <2>1 DEF MadeAt
<1>6. \A o \in 2..Len(objs') : objs'[o].at \in 1..(Len(lines) + 1)
  BY <1>1, <1>3, <1>4, <1>5
<1>7. OneObjectPerLine(objs')
  <2> SUFFICES ASSUME NEW p \in 1..Len(objs'), NEW q \in 1..Len(objs'), objs'[p].at = objs'[q].at
               PROVE  p = q
    BY DEF OneObjectPerLine
  <2>1. CASE p \in 1..Len(objs) /\ q \in 1..Len(objs)
    BY <1>1, <2>1 DEF MadeAt, OneObjectPerLine
  <2>2. ASSUME NEW o \in 1..Len(objs') PROVE o \in 1..Len(objs) <=> objs'[o].at # Len(lines) + 1
    BY <1>1, <1>3, <1>4, <1>5, <2>2
  <2> QED BY <1>4, <2>1, <2>2
<1> QED BY <1>2, <1>3, <1>5, <1>6, <1>7 DEF Grown, MadeAt

\* A line was accepted, found wrong, or could not be dealt with.
LEMMA LineJudged ==
  ASSUME ParseInv, status = "parse", NEW l \in Lines, lines' = Append(lines, l), Grown,
         \/ status' = "parse" /\ Verdict(l) /\ Parsed(stack', lines', objs')
         \/ status' = "syntax" /\ ~Verdict(l)
         \/ status' = "failed"
  PROVE  BlockInv'
<1>1. PICK s, t, os, os2, st, n :
        /\ s = lines /\ t = lines' /\ os = objs /\ os2 = objs' /\ st = stack /\ n = Len(s)
  OBVIOUS
<1>2. /\ s \in Seq(Lines) /\ StackOK(st, Len(os)) /\ Len(os) \in Nat /\ Parsed(st, s, os)
      /\ t = Append(s, l) /\ MadeAt(os, n) /\ Attached(os, s)
      /\ \A i \in 1..n : Legal(s, i)
  BY <1>1, TopFacts DEF ParseInv, BlockInv, RefInv, StateOK, AttachedToBlock, Attached, SyntaxJudged
<1>3. n \in Nat /\ Len(t) = n + 1 /\ Continues(s, t)
  BY <1>1, <1>2, LineAppended
<1>4. /\ FrameOK(st[Len(st)], s, os, Enclosing(s, n + 1))
      /\ LineOf(s, Len(st) - 1) = Enclosing(s, n + 1)
  BY <1>1, <1>2, InnermostBlock
<1>5. /\ ObjectsKept(os, os2) /\ MadeAt(os2, n + 1)
      /\ \A o \in 2..Len(os2) : o > Len(os) => os2[o].at = n + 1 /\ os2[o].parent = Top.obj
  BY <1>1 DEF Grown
<1>6. Top = st[Len(st)] /\ Top.obj = BlockObject(s, os)[Enclosing(s, n + 1)]
  BY <1>1, <1>4 DEF Top, FrameOK
<1>7. Attached(os2, t)
  <2>1. OneObjectPerLine(os2) /\ OpensHaveObjects(s, os)
    BY <1>2, <1>5 DEF MadeAt, Parsed
  <2> QED BY <1>1, <1>2, <1>3, <1>5, <1>6, <2>1, AttachedKept
<1>8. Legal(t, n + 1) <=> Verdict(l)
  BY <1>1, <1>2, <1>6, LegalAdded DEF Verdict
<1>9. \A i \in 1..n : Legal(t, i)
  BY <1>1, <1>2, <1>3, LegalKept
<1>10. SyntaxJudged'
  <2>1. t # <<>>
    BY <1>2, <1>3
  <2>2. Verdict(l) => \A i \in 1..Len(t) : Legal(t, i)
    BY <1>3, <1>8, <1>9
  <2>3. ~Verdict(l) => ~Legal(t, Len(t))
    BY <1>3, <1>8
  <2>4. CASE status' = "parse" /\ Verdict(l)
    BY <1>1, <2>2, <2>4 DEF SyntaxJudged
  <2>5. CASE status' = "syntax" /\ ~Verdict(l)
    BY <1>1, <2>1, <2>3, <2>5 DEF SyntaxJudged
  <2>6. CASE status' = "failed"
    BY <2>6 DEF SyntaxJudged
  <2> QED BY <2>4, <2>5, <2>6
<1>11. AttachedToBlock'
  BY <1>1, <1>7 DEF AttachedToBlock, Attached
<1>12. MadeAt(objs', Len(lines'))
  BY <1>1, <1>3, <1>5
<1>13. status' \in {"parse", "read", "done"} => Parsed(stack', lines', objs')
  OBVIOUS
<1> QED BY <1>10, <1>11, <1>12, <1>13 DEF BlockInv

\* A line that is no brace and makes no object.
LEMMA JudgePlain ==
  ASSUME ParseInv, status = "parse", NEW l \in Lines, lines' = Append(lines, l),
         UNCHANGED stack, ObjsKept,
         \/ status' = "parse" /\ Verdict(l) /\ ~Opens(l) /\ ~Closes(l)
         \/ status' = "syntax" /\ ~Verdict(l)
         \/ status' = "failed"
  PROVE  BlockInv'
<1>1. Grown
  BY GrownSame DEF ParseInv, RefInv, BlockInv
<1>2. ASSUME ~Opens(l), ~Closes(l) PROVE Parsed(stack', lines', objs')
  <2>1. PICK s, os, os2, st : s = lines /\ os = objs /\ os2 = objs' /\ st = stack
    OBVIOUS
  <2>2. /\ s \in Seq(Lines) /\ StackOK(st, Len(os)) /\ Parsed(st, s, os)
        /\ ObjectsKept(os, os2) /\ OneObjectPerLine(os2)
    BY <1>1, <2>1 DEF ParseInv, RefInv, StateOK, BlockInv, Grown, MadeAt
  <2>3. Parsed(st, Append(s, l), os2)
    BY <1>2, <2>2, ParsedLine
  <2> QED BY <2>1, <2>3
<1> QED BY <1>1, <1>2, LineJudged

\* A '}': refused, or the end of the innermost block.
LEMMA JudgeClose ==
  ASSUME ParseInv, status = "parse", NEW l \in Lines, lines' = Append(lines, l),
         Closes(l), CloseBlock(l)
  PROVE  BlockInv'
<1>1. PICK s, os, st : s = lines /\ os = objs /\ st = stack
  OBVIOUS
<1>2. /\ s \in Seq(Lines) /\ StackOK(st, Len(os)) /\ Parsed(st, s, os) /\ Len(os) \in Nat
      /\ OneObjectPerLine(os) /\ (Len(st) = 1 \/ Len(st) > 1) /\ Len(st) \in Nat /\ Len(st) >= 1
      /\ StateOK
  BY <1>1, TopFacts DEF ParseInv, RefInv, StateOK, BlockInv, MadeAt
<1>3. ObjsKept
  BY <1>2, SameObjs DEF CloseBlock
<1>4. LineOf(s, Len(st) - 1) = 0 <=> Len(st) = 1
  BY <1>2, InnermostBlock
<1>5. Len(st) = 1 => Top.kwd = "global"
  BY <1>1, <1>2 DEF Top, StackOK
<1>6. Verdict(l) <=> l.tail = "end" /\ Len(st) # 1
  <2>1. PICK b, w, k : b = LineOf(lines, Len(stack) - 1) /\ w = Top.kwd /\ k = objs[Top.obj].kind
    OBVIOUS
  <2>2. b = 0 <=> Len(st) = 1
    BY <1>1, <1>4, <2>1
  <2>3. Verdict(l) <=> LegalLine(l, b, w, k)
    BY <2>1 DEF Verdict
  <2>4. w = "listing" => Len(st) # 1
    BY <1>5, <2>1
  <2>5. LegalLine(l, b, w, k) <=> l.tail = "end" /\ (w = "listing" \/ b # 0)
    BY DEF LegalLine, Closes
  <2> QED BY <2>2, <2>3, <2>4, <2>5
<1>7. CASE Len(stack) = 1 \/ l.tail # "end"
  <2>1. UNCHANGED stack /\ status' = "syntax"
    BY <1>7 DEF CloseBlock, Fail
  <2> QED BY <1>1, <1>3, <1>6, <1>7, <2>1, JudgePlain
<1>8. CASE ~(Len(stack) = 1 \/ l.tail # "end")
  <2>1. stack' = Front(stack) /\ status' = status /\ objs' = objs
    BY <1>8 DEF CloseBlock
  <2>2. Len(st) > 1
    BY <1>1, <1>2, <1>8, Zenon
  <2>3. Parsed(Front(st), Append(s, l), os)
    BY <1>2, <2>2, ParsedClose
  <2>4. Parsed(stack', lines', objs')
    BY <1>1, <2>1, <2>3
  <2>5. Grown
    BY <1>2, <1>3, GrownSame DEF ParseInv, BlockInv
  <2>6. Verdict(l)
    BY <1>1, <1>6, <1>8
  <2> QED BY <2>1, <2>4, <2>5, <2>6, LineJudged
<1> QED BY <1>7, <1>8

\* A line that starts with the name of a property.
LEMMA JudgeProperty ==
  ASSUME ParseInv, status = "parse", NEW l \in Lines, lines' = Append(lines, l),
         l.tag = "word", Top.kwd # "listing", l.word \in property_names(objs[Top.obj].kind),
         PropertyLine(l)
  PROVE  BlockInv'
<1>1. UNCHANGED <<stack, objs>> /\ StateOK
  BY DEF PropertyLine, Fail, ParseInv, RefInv
<1>2. ObjsKept
  BY <1>1, SameObjs
<1>3. l.word \notin Keywords(Top.kwd)
  BY <1>1, Tables, TopFacts
<1>4. Verdict(l) <=> l.arg \notin {"none", "bad"} /\ l.tail = "end"
  BY <1>3 DEF Verdict, LegalLine
<1>5. \/ status' = "parse" /\ l.arg \notin {"none", "bad"} /\ l.tail = "end"
      \/ status' = "syntax" /\ ~(l.arg \notin {"none", "bad"} /\ l.tail = "end")
      \/ status' = "failed"
  BY DEF PropertyLine, Fail
<1>6. ~Closes(l) /\ (l.tail = "end" => ~Opens(l))
  BY DEF Closes, Opens
<1> QED BY <1>1, <1>2, <1>4, <1>5, <1>6, JudgePlain

\* A keyword line: its object is attached and its block opened where the line is.
LEMMA JudgeKeyword ==
  ASSUME ParseInv, status = "parse", NEW l \in Lines, lines' = Append(lines, l),
         l.tag = "word", Top.kwd # "listing", l.word \notin property_names(objs[Top.obj].kind),
         KeywordLine(l)
  PROVE  BlockInv'
<1>1. StateOK /\ MadeAt(objs, Len(lines)) /\ Parsed(stack, lines, objs)
  BY DEF ParseInv, RefInv, BlockInv
<1>2. Verdict(l) <=> GoodWord(l) /\ (l.tail = "end" \/ Opening(l))
  BY DEF Verdict, LegalLine, GoodWord
<1>3. ~Closes(l) /\ (l.tail = "end" => ~Opens(l)) /\ (Opening(l) => Opens(l))
  BY DEF Closes, Opens, Opening
<1>4. ASSUME UNCHANGED <<stack, objs>>, (status' = "syntax" /\ ~GoodWord(l)) \/ status' = "failed"
      PROVE  BlockInv'
  BY <1>1, <1>2, <1>4, SameObjs, JudgePlain
<1>5. ASSUME GoodWord(l), NEW child, Made(l, child),
             \/ /\ Opening(l) /\ status' = status
                /\ stack' = Append(stack, [kwd |-> l.word, obj |-> child])
             \/ l.tail = "end" /\ UNCHANGED <<stack, status>>
             \/ ~Opening(l) /\ l.tail # "end" /\ UNCHANGED stack /\ status' = "syntax"
      PROVE  BlockInv'
  <2>1. l.word \in Words
    BY <1>1, <1>5, Tables, TopFacts DEF GoodWord
  <2>2. Grown
    BY <1>1, <1>5, <2>1, GrownMade
  <2>3. PICK s, os, os2, st : s = lines /\ os = objs /\ os2 = objs' /\ st = stack
    OBVIOUS
  <2>4. /\ s \in Seq(Lines) /\ StackOK(st, Len(os)) /\ Parsed(st, s, os)
        /\ ObjectsKept(os, os2) /\ OneObjectPerLine(os2)
    BY <1>1, <2>2, <2>3 DEF StateOK, Grown, MadeAt
  <2>5. CASE l.tail = "end" /\ UNCHANGED <<stack, status>>
    <3>1. Parsed(st, Append(s, l), os2)
      BY <1>3, <2>4, <2>5, ParsedLine
    <3> QED BY <1>2, <1>5, <2>2, <2>3, <2>5, <3>1, LineJudged
  <2>6. CASE ~Opening(l) /\ l.tail # "end" /\ UNCHANGED stack /\ status' = "syntax"
    BY <1>2, <2>2, <2>6, LineJudged
  <2>7. CASE /\ Opening(l) /\ status' = status
             /\ stack' = Append(stack, [kwd |-> l.word, obj |-> child])
    <3>1. PICK f : f = [kwd |-> l.word, obj |-> child]
      OBVIOUS
    <3>2. f.kwd = l.word /\ f.obj = child
      BY <3>1
    <3>3. l.word \in ReturnsParent => l.word = "raw"
      BY <2>7, Tables DEF Opening
    <3>4. IF l.word = "raw" THEN f.obj = st[Len(st)].obj
          ELSE f.obj \in 1..Len(os2) /\ os2[f.obj].at = Len(s) + 1 /\ os2[f.obj].kind = l.word
      <4>1. /\ l.word \in ReturnsParent => child = Top.obj
            /\ l.word \notin ReturnsParent =>
                 /\ child = Len(objs) + 1 /\ child \in 1..Len(objs') /\ objs'[child] = NewObj(l)
        <5>1. Len(objs) \in Nat /\ IsSeq(objs)
          BY <1>1, TopFacts
        <5>2. CASE l.word \in ReturnsParent
          BY <1>5, <5>2 DEF Made
        <5>3. CASE l.word \notin ReturnsParent
          <6>1. child = Len(objs) + 1 /\ objs' = Append(objs, NewObj(l))
            BY <1>5, <5>3 DEF Made
          <6>2. Len(objs') = Len(objs) + 1 /\ objs'[Len(objs) + 1] = NewObj(l)
            BY <5>1, <6>1, AppendIsSeq
          <6> QED BY <5>1, <5>3, <6>1, <6>2
        <5> QED BY <5>2, <5>3
      <4>2. NewObj(l).at = Len(lines) + 1 /\ NewObj(l).kind = l.word
        BY DEF NewObj
      <4>3. "raw" \in ReturnsParent
        BY Tables
      <4> QED BY <2>3, <3>2, <3>3, <4>1, <4>2, <4>3 DEF Top
    <3>5. Parsed(Append(st, f), Append(s, l), os2)
      BY <1>3, <2>4, <2>7, <3>2, <3>4, ParsedOpen
    <3>6. Parsed(stack', lines', objs')
      BY <2>3, <2>7, <3>1, <3>5
    <3>7. status' = "parse" /\ Verdict(l)
      BY <1>2, <1>5, <2>7
    <3> QED BY <2>2, <3>6, <3>7, LineJudged
  <2> QED BY <1>5, <2>5, <2>6, <2>7
<1> QED BY <1>1, <1>4, <1>5, KeywordCases

\* The parser starts outside of all blocks.
LEMMA BlockInit ==
  ASSUME Init
  PROVE  BlockInv
<1>1. lines = <<>> /\ Len(lines) = 0 /\ Len(stack) = 1 /\ Len(objs) = 1 /\ status = "parse"
  BY DEF Init
<1>2. objs[1].at = 0 /\ objs[1].kind = "outfile" /\ stack[1].kwd = "global" /\ stack[1].obj = 1
  BY DEF Init
<1>3. MadeAt(objs, Len(lines)) /\ AttachedToBlock /\ SyntaxJudged
  BY <1>1, <1>2 DEF MadeAt, OneObjectPerLine, AttachedToBlock, SyntaxJudged
<1>4. PICK s, os, st : s = lines /\ os = objs /\ st = stack
  OBVIOUS
<1>5. Level(s, 0) = 0
  BY LevelStep
<1>6. LineOf(s, 0) = 0
  <2>1. s \in Seq({})
    BY <1>1, <1>4
  <2>2. LineOf(s, 0) \in 0..Len(s)
    BY <2>1, LineAppended
  <2> QED BY <1>1, <1>4, <2>2
<1>7. FrameOK(st[1], s, os, 0)
  <2>1. Len(s) \in Nat
    BY <1>1, <1>4
  <2>2. BlockObject(s, os)[0] = 1 /\ BlockKind(s)[0] = "outfile"
    BY <2>1, ObjectRec, KindRec
  <2> QED BY <1>2, <1>4, <2>2 DEF FrameOK, BlockWord
<1>8. OpensHaveObjects(s, os)
  BY <1>1, <1>4 DEF OpensHaveObjects
<1>9. \A k \in 1..Len(st) : FrameOK(st[k], s, os, LineOf(s, k - 1))
  <2>1. \A k \in 1..Len(st) : k = 1 /\ k - 1 = 0
    BY <1>1, <1>4
  <2> QED BY <1>6, <1>7, <2>1
<1>10. Level(s, Len(s)) = Len(st) - 1
  <2>1. Len(s) = 0 /\ Len(st) - 1 = 0
    BY <1>1, <1>4
  <2> QED BY <1>5, <2>1
<1>11. Parsed(st, s, os)
  BY <1>6, <1>8, <1>9, <1>10 DEF Parsed
<1> QED BY <1>3, <1>4, <1>11 DEF BlockInv

\* A step that fetches no line.
LEMMA BlockKept ==
  ASSUME ParseInv, UNCHANGED lines, ObjsKept,
         status' \in {"parse", "read", "done"} => status \in {"parse", "read", "done"} /\ UNCHANGED stack,
         status' \in {"read", "done"} => Len(stack) = 1,
         status' = "syntax" => Enclosing(lines, Len(lines) + 1) # 0 \/ status = "syntax",
         status \notin {"parse", "read", "done"} => UNCHANGED objs
  PROVE  BlockInv'
<1>1. PICK s, os, os2, st : s = lines /\ os = objs /\ os2 = objs' /\ st = stack
  OBVIOUS
<1>2. /\ s \in Seq(Lines) /\ StackOK(st, Len(os)) /\ StateOK /\ MadeAt(os, Len(s)) /\ Attached(os, s)
      /\ SyntaxJudged /\ Len(s) \in Nat
  BY <1>1, TopFacts DEF ParseInv, RefInv, StateOK, BlockInv, AttachedToBlock, Attached
<1>3. MadeAt(os2, Len(s)) /\ ObjectsKept(os, os2) /\ Len(os2) = Len(os) /\ Len(os) \in Nat
  BY <1>1, <1>2, GrownSame DEF ObjsKept, ObjectsKept, SameLines
<1>4. status \in {"parse", "read", "done"} => Parsed(st, s, os2) /\ Parsed(st, s, os)
  <2>1. status \in {"parse", "read", "done"} => Parsed(st, s, os)
    BY <1>1 DEF ParseInv, BlockInv
  <2> QED BY <1>2, <1>3, <2>1, ParsedData DEF MadeAt
<1>5. Attached(os2, s)
  <2>1. CASE status \notin {"parse", "read", "done"}
    BY <1>1, <1>2, <2>1
  <2>2. CASE status \in {"parse", "read", "done"}
    <3>1. OpensHaveObjects(s, os) /\ OneObjectPerLine(os2) /\ Continues(s, s)
      BY <1>2, <1>3, <1>4, <2>2 DEF Parsed, MadeAt, Continues
    <3>2. \A o \in 2..Len(os2) : ~(o > Len(os))
      BY <1>3
    <3> QED BY <1>2, <1>3, <3>1, <3>2, AttachedKept
  <2> QED BY <2>1, <2>2
<1>6. SyntaxJudged'
  <2>1. ASSUME status' \in {"parse", "read", "done"} PROVE \A i \in 1..Len(s) : Legal(s, i)
    BY <1>1, <1>2, <2>1 DEF SyntaxJudged
  <2>2. ASSUME status' \in {"read", "done"}
        PROVE  Cardinality({i \in 1..Len(s) : Opens(s[i])}) = Cardinality({i \in 1..Len(s) : Closes(s[i])})
    <3>1. Level(s, Len(s)) = 0
      BY <1>1, <1>4, <2>2 DEF Parsed
    <3>2. /\ Cardinality(OpenSet(s, Len(s))) \in Nat /\ Cardinality(CloseSet(s, Len(s))) \in Nat
          /\ Level(s, Len(s)) = Cardinality(OpenSet(s, Len(s))) - Cardinality(CloseSet(s, Len(s)))
      BY <1>2, LevelStep DEF Level
    <3>3. Cardinality(OpenSet(s, Len(s))) = Cardinality(CloseSet(s, Len(s)))
      BY <3>1, <3>2
    <3> QED BY <3>3 DEF OpenSet, CloseSet
  <2>3. ASSUME status' = "syntax"
        PROVE  (s # <<>> /\ ~Legal(s, Len(s))) \/ Enclosing(s, Len(s) + 1) # 0
    BY <1>1, <1>2, <2>3 DEF SyntaxJudged
  <2> QED BY <1>1, <2>1, <2>2, <2>3 DEF SyntaxJudged
<1>7. AttachedToBlock'
  BY <1>1, <1>5 DEF AttachedToBlock, Attached
<1>8. MadeAt(objs', Len(lines'))
  BY <1>1, <1>3
<1>9. status' \in {"parse", "read", "done"} => Parsed(stack', lines', objs')
  BY <1>1, <1>4
<1> QED BY <1>6, <1>7, <1>8, <1>9 DEF BlockInv

\* ParseInv is inductive.
LEMMA ParseNext ==
  ASSUME ParseInv, [Next]_vars
  PROVE  ParseInv'
<1>1. RefInv /\ StateOK /\ BlockInv /\ (objs' = objs => ObjsKept)
  BY SameObjs DEF ParseInv, RefInv
<1>2. RefInv'
  BY <1>1, RefsNext
<1> SUFFICES BlockInv'
  BY <1>2 DEF ParseInv
<1>3. ASSUME NEW l \in Lines, parse(l) PROVE BlockInv'
  <2>1. status = "parse" /\ Top.kwd # "listing" /\ lines' = Append(lines, l)
    BY <1>3 DEF parse
  <2>2. CASE l.tag = "word" /\ l.word \in property_names(objs[Top.obj].kind) /\ PropertyLine(l)
    BY <2>1, <2>2, JudgeProperty
  <2>3. CASE l.tag = "word" /\ l.word \notin property_names(objs[Top.obj].kind) /\ KeywordLine(l)
    BY <2>1, <2>3, JudgeKeyword
  <2>4. CASE l.tag = "close" /\ CloseBlock(l)
    BY <2>1, <2>4, JudgeClose DEF Closes
  <2>5. CASE l.tag = "comment" /\ UNCHANGED <<stack, objs, refs, stored, got, status>>
    <3>1. Verdict(l) /\ ~Opens(l) /\ ~Closes(l)
      BY <2>5 DEF Verdict, LegalLine, Opens, Closes
    <3> QED BY <1>1, <2>1, <2>5, <3>1, JudgePlain
  <2>6. CASE l.tag \in {"junk", "encoding", "entry"} /\ Fail("syntax", refs) /\ UNCHANGED objs
    <3>1. ~Verdict(l)
      BY <2>1, <2>6 DEF Verdict, LegalLine
    <3>2. UNCHANGED stack /\ status' = "syntax"
      BY <2>6 DEF Fail
    <3> QED BY <1>1, <2>1, <2>6, <3>1, <3>2, JudgePlain
  <2> QED BY <1>3, <2>2, <2>3, <2>4, <2>5, <2>6 DEF parse
<1>4. ASSUME NEW l \in Lines, plain_listing(l) PROVE BlockInv'
  <2>1. status = "parse" /\ Top.kwd = "listing" /\ lines' = Append(lines, l)
    BY <1>4 DEF plain_listing
  <2>2. CASE l.tag = "close" /\ CloseBlock(l)
    BY <2>1, <2>2, JudgeClose DEF Closes
  <2>3. CASE l.tag = "comment" /\ UNCHANGED <<stack, objs, refs, stored, got, status>>
    <3>1. Verdict(l) /\ ~Opens(l) /\ ~Closes(l)
      BY <2>3 DEF Verdict, LegalLine, Opens, Closes
    <3> QED BY <1>1, <2>1, <2>3, <3>1, JudgePlain
  <2>4. CASE l.tag \notin {"close", "comment"} /\ ListingEntry(l)
    <3>1. PICK e : e = IF l.tag = "entry" THEN parse_line(l.line) ELSE Bad
      OBVIOUS
    <3>2. Verdict(l) <=> l.tag = "entry" /\ parse_line(l.line) # Bad
      BY <2>1, <2>4 DEF Verdict, LegalLine
    <3>3. CASE e = Bad
      <4>1. UNCHANGED <<stack, objs>> /\ status' = "syntax"
        BY <2>4, <3>1, <3>3 DEF ListingEntry, Fail
      <4>2. ~Verdict(l)
        BY <3>1, <3>2, <3>3
      <4> QED BY <1>1, <2>1, <4>1, <4>2, JudgePlain
    <3>4. CASE e # Bad
      <4>1. UNCHANGED <<stack, status>> /\ \E d : objs' = [objs EXCEPT ![Top.obj].data = d]
        BY <2>4, <3>1, <3>4 DEF ListingEntry
      <4>2. ObjsKept
        BY <1>1, <4>1, DataKept, TopFacts
      <4>3. l.tag = "entry" /\ Verdict(l)
        BY <3>1, <3>2, <3>4
      <4>4. ~Opens(l) /\ ~Closes(l)
        BY <4>3 DEF Opens, Closes
      <4> QED BY <2>1, <4>1, <4>2, <4>3, <4>4, JudgePlain
    <3> QED BY <3>3, <3>4
  <2> QED BY <1>4, <2>2, <2>3, <2>4 DEF plain_listing
<1>5. CASE EndOfFile
  <2>1. /\ status = "parse" /\ UNCHANGED <<lines, objs, stack>>
        /\ \/ status' = "syntax" /\ Len(stack) > 1
           \/ status' = "read" /\ ~(Len(stack) > 1)
    BY <1>5 DEF EndOfFile, Fail
  <2>2. Len(stack) = 1 \/ Len(stack) > 1
    BY <1>1, TopFacts
  <2>3. Enclosing(lines, Len(lines) + 1) = 0 <=> Len(stack) = 1
    <3>1. PICK s, os, st : s = lines /\ os = objs /\ st = stack
      OBVIOUS
    <3>2. /\ s \in Seq(Lines) /\ StackOK(st, Len(os)) /\ Parsed(st, s, os) /\ Len(os) \in Nat
      BY <1>1, <2>1, <3>1, TopFacts DEF StateOK, BlockInv
    <3>3. Enclosing(s, Len(s) + 1) = 0 <=> Len(st) = 1
      BY <3>2, InnermostBlock
    <3> QED BY <3>1, <3>3
  <2>4. Len(stack) > 1 => Len(stack) # 1
    <3>1. PICK k \in Nat : k = Len(stack)
      BY <1>1, TopFacts
    <3>2. k > 1 => k # 1
      OBVIOUS
    <3> QED BY <3>1, <3>2
  <2>5. status' = "syntax" => Enclosing(lines, Len(lines) + 1) # 0
    BY <2>1, <2>3, <2>4
  <2>6. status' = "read" => Len(stack) = 1
    BY <2>1, <2>2
  <2> QED BY <1>1, <2>1, <2>5, <2>6, BlockKept
<1>6. CASE FetchFails
  BY <1>1, <1>6, BlockKept DEF FetchFails, Fail
<1>7. CASE ReturnError
  BY <1>1, <1>7, BlockKept DEF ReturnError
<1>8. CASE get_next_record
  <2>1. PICK d : objs' = [objs EXCEPT ![Min(Unread)].data = d]
    BY <1>8 DEF get_next_record
  <2>2. ObjsKept
    BY <1>1, <1>8, <2>1, DataKept, UnreadObject DEF get_next_record
  <2>3. Len(stack) = 1
    BY <1>1, <1>8 DEF get_next_record, StateOK
  <2> QED BY <1>8, <2>2, <2>3, BlockKept DEF get_next_record
<1>9. CASE OpenFails
  BY <1>1, <1>9, BlockKept DEF OpenFails
<1>10. CASE AllRead
  <2>1. Len(stack) = 1
    BY <1>1, <1>10 DEF AllRead, StateOK
  <2> QED BY <1>1, <1>10, <2>1, BlockKept DEF AllRead
<1>11. CASE UNCHANGED vars
  <2>1. UNCHANGED <<lines, stack, objs, status>>
    BY <1>11 DEF vars
  <2>2. status \in {"read", "done"} => Len(stack) = 1
    BY <1>1 DEF StateOK
  <2> QED BY <1>1, <2>1, <2>2, BlockKept
<1> QED BY <1>3, <1>4, <1>5, <1>6, <1>7, <1>8, <1>9, <1>10, <1>11 DEF Next

\* The calls of the parser and the blocks of the file agree, in every state.
THEOREM ConfigInvariant == Spec => []ParseInv
<1>1. Init => ParseInv
  BY RefsInit, BlockInit DEF ParseInv
<1>2. ParseInv /\ [Next]_vars => ParseInv'
  BY ParseNext
<1> QED BY <1>1, <1>2, PTL DEF Spec

\* The parser takes the lines that counting braces allows, and no other, for
\* every file and every nesting of its blocks (parse, plain_listing).
THEOREM ConfigSyntaxJudged == Spec => []SyntaxJudged
<1>1. ParseInv => SyntaxJudged
  BY DEF ParseInv, BlockInv
<1> QED BY <1>1, ConfigInvariant, PTL

\* Every object hangs off the object of the block its line is written in.
THEOREM ConfigAttached == Spec => []AttachedToBlock
<1>1. ParseInv => AttachedToBlock
  BY DEF ParseInv, BlockInv
<1> QED BY <1>1, ConfigInvariant, PTL
=============================================================================
