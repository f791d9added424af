---------------------------- MODULE MCTarReader -----------------------------
(***************************************************************************)
(* Archives of up to two members, cut off at any place, with blocks of two *)
(* bytes and a buffer of four.                                             *)
(***************************************************************************)
EXTENDS TarReader

Ent(type, name, size) ==
  [type |-> type, name |-> name, link |-> "", uid |-> 1, size |-> size,
   payload |-> size, fields |-> <<>>, map |-> <<>>, mapblks |-> 0, real |-> 0]

Field(key, val, num, map) == [key |-> key, val |-> val, num |-> num, map |-> map]
R(offset, count) == [offset |-> offset, count |-> count]

Pax(fields) == [Ent("x", "", 1) EXCEPT !.fields = fields]

Path == Field("path", "p", 0, <<>>)
Uid  == Field("uid", "", 7, <<>>)
Size(n) == Field("size", "", n, <<>>)
Real(n) == Field("realsize", "", n, <<>>)
Map(m)  == Field("map", "", 0, m)
Major   == Field("major", "", 0, <<>>)
Xattr   == Field("xattr", "", 0, <<>>)

Broken  == Field("malformed", "", 0, <<>>)

\* A sparse file with a hole in front, in the middle and at its end.
Holes == <<R(1, 2), R(4, 1), R(6, 0)>>

\* The same without the region of no bytes that says where the end is.
NoEnd == <<R(1, 2), R(4, 1)>>

ShortMaps ==
  { <<Pax(<<Real(7), Map(NoEnd)>>), Ent("file", "m", 3)>>,
    <<[Ent("S", "n", 3) EXCEPT !.map = NoEnd, !.real = 7, !.mapblks = 1]>> }

Members == ShortMaps \cup
  { <<Ent("file", "a", 3)>>, <<Ent("file", "b", 0)>>, <<Ent("dir", "d", 0)>>,
    <<[Ent("link", "l", 1) EXCEPT !.link = "a"]>>,
    <<Ent("L", "long", 3), Ent("file", "b", 1)>>,
    <<[Ent("K", "", 2) EXCEPT !.link = "far"], [Ent("slink", "s", 0) EXCEPT !.link = "n"]>>,
    <<Ent("g", "", 3), Ent("L", "gone", 1), Pax(<<Uid, Xattr>>), Ent("file", "c", 2)>>,
    <<Pax(<<Size(3)>>), [Ent("file", "e", 0) EXCEPT !.payload = 3]>>,
    <<Pax(<<Real(6), Map(Holes)>>), [Ent("file", "f", 3) EXCEPT !.uid = 2]>>,
    <<Pax(<<Major, Real(6), Path>>),
      [Ent("file", "h", 5) EXCEPT !.map = Holes, !.mapblks = 1]>>,
    <<[Ent("S", "i", 3) EXCEPT !.map = Holes, !.real = 6, !.mapblks = 1]>>,
    <<Ent("L", "long", 1), Ent("unknown", "u", 3)>>,
    <<Pax(<<Path, Uid>>), Ent("file", "", 1)>>, <<Ent("file", "", 3)>>,
    <<[Ent("S", "j", 3) EXCEPT !.map = <<R(4, 1), R(1, 2)>>, !.real = 6]>>,
    <<Pax(<<Real(6), Map(Holes)>>), Ent("file", "k", 1)>>,
    <<Pax(<<Path, Broken>>), Ent("file", "o", 1)>>,
    <<Ent("bad", "", 0)>> }

Fill(x, n) == [i \in 1 .. n |-> x]

\* A header takes a block; the data of a file is numbered behind its map.
EntryBytes(e, i) ==
  LET skip == IF e.mapblks > 0 THEN e.mapblks * BS ELSE 0
      ext  == IF e.type = "S" THEN Fill([t |-> "map", v |-> 0], skip) ELSE <<>>
      off  == IF e.type = "S" THEN 0 ELSE skip
      data == [n \in 1 .. e.payload |->
                IF n <= off THEN [t |-> "map", v |-> 0]
                ELSE [t |-> "data", v |-> 100 * i + n - off]]
  IN <<[t |-> "hdr", v |-> i]>> \o Fill([t |-> "hcont", v |-> 0], BS - 1)
       \o ext \o data \o Fill(Zero, Padded(e.payload) - e.payload)

RECURSIVE AllBytes(_, _)
AllBytes(ents, i) ==
  IF i > Len(ents) THEN <<>> ELSE EntryBytes(ents[i], i) \o AllBytes(ents, i + 1)

Tail2(n) == Fill(Zero, n * BS)

Complete(ents) ==
  [ents |-> ents, bytes |-> AllBytes(ents, 1) \o Tail2(2),
   good |-> \A i \in 1 .. Len(ents) :
              /\ ents[i].type # "bad" /\ ents[i].map # NoEnd
              /\ \A k \in 1 .. Len(ents[i].fields) :
                   ents[i].fields[k].key # "malformed" /\ ents[i].fields[k].map # NoEnd]

\* All pairs of members, complete; and one member, cut off anywhere, alone or
\* behind another.
AllArchives ==
  {Complete(m \o n) : m \in Members, n \in Members \cup {<<>>}}
  \cup UNION {LET a == Complete(m)
              IN {[ents |-> m, bytes |-> SubSeq(a.bytes, 1, n), good |-> FALSE] : n \in 0 .. Len(a.bytes)} : m \in Members}
  \cup {LET b == AllBytes(<<Ent("file", "a", 1), Ent("file", "b", 1)>>, 1)
        IN [ents |-> <<Ent("file", "a", 1), Ent("file", "b", 1)>>, good |-> TRUE,
            bytes |-> SubSeq(b, 1, 2 * BS) \o Fill(Zero, n * BS) \o SubSeq(b, 2 * BS + 1, 4 * BS)] : n \in 0 .. 1}

\* A file whose map leaves out its end, and another one.
ShortMap == {Complete(m \o <<Ent("file", "a", 3)>>) : m \in ShortMaps}

\* A hole whose length does not fit into an int32_t.
BigHole ==
  {Complete(<<[Ent("S", "i", 1) EXCEPT !.map = <<R(WRAP + 1, 1)>>, !.real = WRAP + 2]>>)}
=============================================================================
