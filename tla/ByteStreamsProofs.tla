-------------------------- MODULE ByteStreamsProofs --------------------------
(***************************************************************************)
(* The input streams, for any size of the buffers, any files, requests and *)
(* decoders: no byte is lost, doubled or out of order, the end of the file *)
(* is reported only when all of it was handed out, and the lines returned  *)
(* are those of the content, wherever the buffers end in them.             *)
(***************************************************************************)
EXTENDS ByteStreams, TLAPS, SequenceTheorems, DataLemmas

Alphabet == STRING

FileType == [pos : Nat, buf : Seq(Alphabet), off : Nat]
StrmType == [buf : Seq(Alphabet), off : Nat, eof : BOOLEAN]
OpType == [kind : {"none", "read", "skip", "line"}, left : Nat, line : Seq(Alphabet), made : Nat]

-----------------------------------------------------------------------------
\* The end of the end of a sequence.
LEMMA SuffixOfSuffix ==
  ASSUME NEW A, NEW s \in Seq(A), NEW n \in 0..Len(s), NEW i \in 0..n, NEW k \in 0..(n - i)
  PROVE  SubSeq(SubSeq(s, i + 1, n), k + 1, n - i) = SubSeq(s, i + k + 1, n)
<1> DEFINE t == SubSeq(s, i + 1, n)
           l == SubSeq(t, k + 1, n - i)
           r == SubSeq(s, i + k + 1, n)
<1>1. t \in Seq(A) /\ Len(t) = n - i /\ \A j \in 1..(n - i) : t[j] = s[i + j]
  OBVIOUS
<1> HIDE DEF t
<1>2. l \in Seq(A) /\ Len(l) = n - i - k /\ \A j \in 1..(n - i - k) : l[j] = t[k + j]
  BY <1>1
<1>3. r \in Seq(A) /\ Len(r) = n - i - k /\ \A j \in 1..(n - i - k) : r[j] = s[i + k + j]
  OBVIOUS
<1> HIDE DEF l, r
<1>4. \A j \in 1..(n - i - k) : l[j] = r[j]
  BY <1>1, <1>2, <1>3
<1>5. l = r
  BY <1>2, <1>3, <1>4, SeqEqual
<1> QED BY <1>5 DEF l, r, t

\* The start of the end of a sequence.
LEMMA PrefixOfSuffix ==
  ASSUME NEW A, NEW s \in Seq(A), NEW n \in 0..Len(s), NEW i \in 0..n, NEW k \in 0..(n - i)
  PROVE  SubSeq(SubSeq(s, i + 1, n), 1, k) = SubSeq(s, i + 1, i + k)
<1> DEFINE t == SubSeq(s, i + 1, n)
           l == SubSeq(t, 1, k)
           r == SubSeq(s, i + 1, i + k)
<1>1. t \in Seq(A) /\ Len(t) = n - i /\ \A j \in 1..(n - i) : t[j] = s[i + j]
  OBVIOUS
<1> HIDE DEF t
<1>2. l \in Seq(A) /\ Len(l) = k /\ \A j \in 1..k : l[j] = t[j]
  BY <1>1
<1>3. r \in Seq(A) /\ Len(r) = k /\ \A j \in 1..k : r[j] = s[i + j]
  OBVIOUS
<1> HIDE DEF l, r
<1>4. \A j \in 1..k : l[j] = r[j]
  BY <1>1, <1>2, <1>3
<1>5. l = r
  BY <1>2, <1>3, <1>4, SeqEqual
<1> QED BY <1>5 DEF l, r, t

\* A sequence cut in two.
LEMMA CutInTwo ==
  ASSUME NEW A, NEW s \in Seq(A), NEW m \in 0..Len(s), NEW k \in 0..m
  PROVE  /\ SubSeq(s, 1, k) \o SubSeq(s, k + 1, m) = SubSeq(s, 1, m)
         /\ SubSeq(s, 1, m) \o SubSeq(s, m + 1, Len(s)) = s
<1>0. Len(s) \in Nat
  OBVIOUS
<1>1. SubSeq(s, 1, k) \o SubSeq(s, k + 1, m) = SubSeq(s, 1, m)
  <2>1. 1 \in 1..(Len(s) + 1) /\ k \in (1 - 1)..Len(s) /\ m \in k..Len(s)
    BY <1>0
  <2> QED BY <2>1, ConcatAdjacentSubSeq
<1>2. SubSeq(s, 1, m) \o SubSeq(s, m + 1, Len(s)) = SubSeq(s, 1, Len(s))
  <2>1. 1 \in 1..(Len(s) + 1) /\ m \in (1 - 1)..Len(s) /\ Len(s) \in m..Len(s)
    BY <1>0
  <2> QED BY <2>1, ConcatAdjacentSubSeq
<1>3. SubSeq(s, 1, Len(s)) = s
  BY SubSeqFull
<1> QED BY <1>1, <1>2, <1>3

-----------------------------------------------------------------------------
\* What the tokens of a compressed file stand for, token by token.
LEMMA UnpackedFacts ==
  ASSUME NEW s \in Setups, s.decoder
  PROVE  /\ Unpacked(s, 0) = <<>>
         /\ \A n \in 0..Len(s.data) : Unpacked(s, n) \in Seq(Alphabet)
         /\ \A n \in 1..Len(s.data) :
              Unpacked(s, n) = Unpacked(s, n - 1) \o s.expand[s.data[n]]
<1>0. PICK m \in Nat : m = Len(s.data)
  BY SetupsAssumption
<1>1. \A n \in 1..m : s.expand[s.data[n]] \in Seq(Alphabet)
  BY <1>0, SetupsAssumption DEF Alphabet
<1> HIDE DEF Alphabet
<1> DEFINE S == Seq(Alphabet)
           G == [t \in (1..m) \X S |-> t[2] \o s.expand[s.data[t[1]]]]
           Eq(u) == u = [k \in 0..m |->
                           IF k = 0 THEN <<>> ELSE u[k - 1] \o s.expand[s.data[k]]]
<1>2. ASSUME NEW j \in 1..m, NEW x \in S
      PROVE  G[<<j, x>>] = x \o s.expand[s.data[j]] /\ G[<<j, x>>] \in S
  <2>1. G[<<j, x>>] = x \o s.expand[s.data[j]]
    OBVIOUS
  <2>2. x \o s.expand[s.data[j]] \in S
    BY <1>1, ConcatProperties
  <2> QED BY <2>1, <2>2
<1>3. <<>> \in S
  OBVIOUS
<1> HIDE DEF G, S
<1>4. PICK f : Loop(f, m, <<>>, G) /\ \A j \in 0..m : f[j] \in S
  BY <1>2, <1>3, LoopExists
<1>5. Eq(f)
  <2>1. ASSUME NEW j \in 0..m
        PROVE  (IF j = 0 THEN <<>> ELSE G[<<j, f[j - 1]>>])
                 = IF j = 0 THEN <<>> ELSE f[j - 1] \o s.expand[s.data[j]]
    <3>1. j # 0 => j \in 1..m /\ f[j - 1] \in S
      BY <1>4
    <3> QED BY <1>2, <3>1
  <2> QED BY <1>4, <2>1 DEF Loop
<1>6. PICK u : Eq(u) /\ \A n : Unpacked(s, n) = u[n]
  <2>1. \A n : Unpacked(s, n) = (CHOOSE u : Eq(u))[n]
    BY <1>0 DEF Unpacked
  <2>2. Eq(CHOOSE u : Eq(u))
    BY <1>5
  <2> QED BY <2>1, <2>2
<1>7. u[0] = <<>> /\ \A n \in 1..m : u[n] = u[n - 1] \o s.expand[s.data[n]]
  <2>1. 0 \in 0..m /\ \A n \in 1..m : n \in 0..m /\ n # 0
    OBVIOUS
  <2>2. \A n \in 0..m : u[n] = IF n = 0 THEN <<>> ELSE u[n - 1] \o s.expand[s.data[n]]
    BY <1>6
  <2>3. u[0] = <<>>
    BY <2>1, <2>2
  <2>4. ASSUME NEW n \in 1..m PROVE u[n] = u[n - 1] \o s.expand[s.data[n]]
    BY <2>1, <2>2
  <2> QED BY <2>3, <2>4
<1> DEFINE M == { n \in Nat : n <= m => u[n] \in S }
<1>8. 0 \in M
  BY <1>3, <1>7
<1>9. ASSUME NEW n \in Nat, n \in M PROVE n + 1 \in M
  <2> SUFFICES ASSUME n + 1 <= m PROVE u[n + 1] \in S
    OBVIOUS
  <2>1. u[n] \in S /\ n + 1 \in 1..m /\ (n + 1) - 1 = n
    BY <1>9
  <2>2. u[n + 1] = u[n] \o s.expand[s.data[n + 1]]
    BY <1>7, <2>1
  <2> QED BY <1>2, <2>1, <2>2
<1> HIDE DEF M
<1>10. \A n \in Nat : n \in M
  BY <1>8, <1>9, SetInduction
<1>11. \A n \in 0..m : u[n] \in S
  BY <1>10 DEF M
<1> QED BY <1>0, <1>6, <1>7, <1>11 DEF S

-----------------------------------------------------------------------------
\* The file stream: its buffer is a part of the file, the part before pos.
FileOK(data, f) ==
  /\ f \in FileType
  /\ f.off <= Len(f.buf) /\ Len(f.buf) <= BUFSZ
  /\ Len(f.buf) <= f.pos /\ f.pos <= Len(data)
  /\ f.buf = SubSeq(data, f.pos - Len(f.buf) + 1, f.pos)

TakenFrom(f) == f.pos - (Len(f.buf) - f.off)

\* What is unread of the buffer of the file stream follows what was taken.
LEMMA FileUnread ==
  ASSUME setup \in Setups, NEW f, FileOK(setup.data, f)
  PROVE  /\ TakenFrom(f) \in 0..Len(setup.data) /\ TakenFrom(f) <= f.pos
         /\ SubSeq(f.buf, f.off + 1, Len(f.buf)) = SubSeq(setup.data, TakenFrom(f) + 1, f.pos)
         /\ \A j \in 1..Len(f.buf) : f.buf[j] = setup.data[f.pos - Len(f.buf) + j]
<1>0. setup.data \in Seq(Alphabet) /\ Len(setup.data) \in Nat
  BY SetupsAssumption DEF Alphabet
<1> HIDE DEF Alphabet
<1>1. PICK p \in Nat, o \in Nat, b \in Seq(Alphabet) : p = f.pos /\ o = f.off /\ b = f.buf
  BY DEF FileOK, FileType
<1>2. PICK l \in Nat, m \in Nat : l = Len(b) /\ m = Len(setup.data)
  BY <1>0
<1>3. o <= l /\ l <= p /\ p <= m /\ b = SubSeq(setup.data, (p - l) + 1, p)
  BY <1>1, <1>2 DEF FileOK
<1>4. PICK i \in 0..p : i = p - l
  BY <1>3
<1>5. l = p - i /\ o \in 0..(p - i) /\ p \in 0..Len(setup.data)
  BY <1>2, <1>3, <1>4
<1>6. SubSeq(SubSeq(setup.data, i + 1, p), o + 1, p - i) = SubSeq(setup.data, i + o + 1, p)
  BY <1>0, <1>5, SuffixOfSuffix
<1>7. SubSeq(b, o + 1, l) = SubSeq(setup.data, i + o + 1, p)
  BY <1>3, <1>4, <1>5, <1>6
<1>8. TakenFrom(f) = i + o
  BY <1>1, <1>2, <1>4, <1>5 DEF TakenFrom
<1>9. \A j \in 1..l : b[j] = setup.data[i + j]
  BY <1>0, <1>3, <1>4, <1>5
<1>10. TakenFrom(f) \in 0..Len(setup.data) /\ TakenFrom(f) <= f.pos
  <2>1. o <= p - i /\ i <= p /\ p <= m /\ i \in Nat
    BY <1>2, <1>4, <1>5
  <2>2. i + o \in 0..m /\ i + o <= p
    BY <2>1
  <2> QED BY <1>1, <1>2, <1>8, <2>2
<1>11. SubSeq(f.buf, f.off + 1, Len(f.buf)) = SubSeq(setup.data, TakenFrom(f) + 1, f.pos)
  BY <1>1, <1>2, <1>7, <1>8
<1>12. \A j \in 1..Len(f.buf) : f.buf[j] = setup.data[f.pos - Len(f.buf) + j]
  BY <1>1, <1>2, <1>4, <1>9
<1> QED BY <1>10, <1>11, <1>12

\* A refill keeps what is unread, and reads until the buffer is full or the file
\* ends.
LEMMA Refill ==
  ASSUME setup \in Setups, NEW f, FileOK(setup.data, f), NEW g, g = file_precache(Compact(f))
  PROVE  /\ FileOK(setup.data, g) /\ TakenFrom(g) = TakenFrom(f) /\ g.off = 0
         /\ g.pos = Len(setup.data) \/ Len(g.buf) = BUFSZ
<1> USE BUFSZAssumption
<1>0. setup.data \in Seq(Alphabet) /\ Len(setup.data) \in Nat
  BY SetupsAssumption DEF Alphabet
<1> HIDE DEF Alphabet
<1>1. PICK p \in Nat, o \in Nat, b \in Seq(Alphabet) : p = f.pos /\ o = f.off /\ b = f.buf
  BY DEF FileOK, FileType
<1>2. PICK l \in Nat, m \in Nat : l = Len(b) /\ m = Len(setup.data)
  BY <1>0
<1>3. o <= l /\ l <= p /\ p <= m /\ l <= BUFSZ
  BY <1>1, <1>2 DEF FileOK
<1>4. PICK r : r = SubSeq(b, o + 1, l)
  OBVIOUS
<1>5. r \in Seq(Alphabet) /\ Len(r) = l - o
  BY <1>2, <1>3, <1>4
<1>6. PICK x \in Nat : x = BUFSZ - Len(r)
  BY <1>3, <1>5
<1>7. PICK k \in Nat : k = (IF x < m - p THEN x ELSE m - p)
  <2>1. m - p \in Nat
    BY <1>3
  <2>2. (IF x < m - p THEN x ELSE m - p) \in Nat
    BY <2>1
  <2> QED BY <2>2
<1>8. PICK z : z = r \o SubSeq(setup.data, p + 1, p + k)
  OBVIOUS
<1>9. g = [pos |-> p + k, buf |-> z, off |-> 0]
  <2>1. f = [pos |-> p, buf |-> b, off |-> o]
    BY <1>1 DEF FileOK, FileType
  <2>2. Compact(f) = [f EXCEPT !.buf = r, !.off = 0]
    BY <1>1, <1>2, <1>4 DEF Compact
  <2>3. PICK h : h = [pos |-> p, buf |-> r, off |-> 0]
    OBVIOUS
  <2>4. Compact(f) = h
    BY <2>1, <2>2, <2>3
  <2>5. h.buf = r /\ h.pos = p
    BY <2>3
  <2>6. BUFSZ - Len(h.buf) = x /\ Len(setup.data) - h.pos = m - p
    BY <1>2, <1>6, <2>5
  <2>7. file_precache(h) = [h EXCEPT !.buf = z, !.pos = p + k]
    BY <1>7, <1>8, <2>5, <2>6 DEF file_precache
  <2>8. [h EXCEPT !.buf = z, !.pos = p + k] = [pos |-> p + k, buf |-> z, off |-> 0]
    <3>1. PICK q : q = p + k
      OBVIOUS
    <3>2. [h EXCEPT !.buf = z, !.pos = q] = [[h EXCEPT !.buf = z] EXCEPT !.pos = q]
      OBVIOUS
    <3>3. PICK w : w = [pos |-> p, buf |-> z, off |-> 0]
      OBVIOUS
    <3>a. [h EXCEPT !.buf = z] = w
      BY <2>3, <3>3
    <3>b. [w EXCEPT !.pos = q] = [pos |-> q, buf |-> z, off |-> 0]
      BY <3>3
    <3>4. [[h EXCEPT !.buf = z] EXCEPT !.pos = q] = [pos |-> q, buf |-> z, off |-> 0]
      BY <3>a, <3>b, Zenon
    <3>5. [h EXCEPT !.buf = z, !.pos = q] = [pos |-> q, buf |-> z, off |-> 0]
      BY <3>2, <3>4
    <3> QED BY <3>1, <3>5, Zenon
  <2>9. g = file_precache(h)
    BY <2>4
  <2> QED BY <2>7, <2>8, <2>9
<1>10. PICK t \in 0..p : t = p - (l - o)
  BY <1>3
<1>11. TakenFrom(f) = t /\ r = SubSeq(setup.data, t + 1, p)
  BY <1>1, <1>2, <1>4, <1>10, FileUnread DEF TakenFrom
<1>12. p + k <= m /\ (p + k = m \/ (l - o) + k = BUFSZ) /\ (l - o) + k <= BUFSZ
  BY <1>3, <1>5, <1>6, <1>7
<1>13. z = SubSeq(setup.data, t + 1, p + k)
  <2>1. /\ t + 1 \in 1..(Len(setup.data) + 1) /\ p \in ((t + 1) - 1)..Len(setup.data)
        /\ p + k \in p..Len(setup.data)
    BY <1>2, <1>3, <1>12
  <2> QED BY <1>0, <1>8, <1>11, <2>1, ConcatAdjacentSubSeq
<1>14. z \in Seq(Alphabet) /\ Len(z) = (l - o) + k
  <2>1. t + 1 \in 1..(Len(setup.data) + 1) /\ p + k \in t..Len(setup.data)
    BY <1>2, <1>3, <1>12
  <2>2. z \in Seq(Alphabet) /\ Len(z) = (p + k) - t
    BY <1>0, <1>13, <2>1
  <2> QED BY <1>3, <1>10, <2>2
<1>15. g.pos = p + k /\ g.buf = z /\ g.off = 0 /\ g \in FileType
  BY <1>9, <1>14 DEF FileType
<1>16. g.pos - Len(g.buf) = t /\ Len(g.buf) \in Nat
  BY <1>3, <1>10, <1>14, <1>15
<1>17. FileOK(setup.data, g)
  <2>1. g.buf = SubSeq(setup.data, g.pos - Len(g.buf) + 1, g.pos)
    BY <1>13, <1>15, <1>16
  <2>2. 0 <= Len(g.buf) /\ Len(g.buf) <= BUFSZ /\ Len(g.buf) <= g.pos
    BY <1>3, <1>12, <1>14, <1>15
  <2>3. g.pos <= Len(setup.data)
    BY <1>2, <1>12, <1>15
  <2> QED BY <1>15, <2>1, <2>2, <2>3 DEF FileOK
<1>18. TakenFrom(g) = t
  BY <1>14, <1>15, <1>16, <1>3, <1>10 DEF TakenFrom
<1> QED BY <1>2, <1>11, <1>12, <1>14, <1>15, <1>17, <1>18

-----------------------------------------------------------------------------
\* The decoding stream, and what is unread in its buffer.
StrmOK(t) ==
  /\ t \in StrmType
  /\ t.off <= Len(t.buf) /\ Len(t.buf) <= BUFSZ

Rest(t) == SubSeq(t.buf, t.off + 1, Len(t.buf))

\* Bytes taken from the decoding stream are the first of those unread.
LEMMA StrmTake ==
  ASSUME NEW t, StrmOK(t), NEW n \in 0..Len(Rest(t)), NEW u, u = [t EXCEPT !.off = @ + n]
  PROVE  /\ StrmOK(u) /\ u.buf = t.buf /\ u.eof = t.eof
         /\ Rest(t) \in Seq(Alphabet) /\ Rest(u) \in Seq(Alphabet)
         /\ SubSeq(Rest(t), 1, n) \in Seq(Alphabet)
         /\ SubSeq(Rest(t), 1, n) \o Rest(u) = Rest(t)
<1> USE BUFSZAssumption
<1> HIDE DEF Alphabet
<1>1. PICK b \in Seq(Alphabet), o \in Nat, e \in BOOLEAN : t = [buf |-> b, off |-> o, eof |-> e]
  BY DEF StrmOK, StrmType
<1>2. PICK l \in Nat : l = Len(b)
  OBVIOUS
<1>3. o \in 0..l /\ l <= BUFSZ
  BY <1>1, <1>2 DEF StrmOK
<1>4. PICK r : r = SubSeq(b, o + 1, l)
  OBVIOUS
<1>5. r \in Seq(Alphabet) /\ Len(r) = l - o /\ Rest(t) = r
  <2>1. r \in Seq(Alphabet) /\ Len(r) = l - o
    BY <1>2, <1>3, <1>4
  <2>2. t.buf = b /\ t.off = o
    BY <1>1
  <2> QED BY <1>2, <1>4, <2>1, <2>2 DEF Rest
<1>6. n \in Nat /\ n <= l - o
  BY <1>5
<1>7. PICK q \in Nat : q = o + n
  BY <1>6
<1>8. u = [buf |-> b, off |-> q, eof |-> e]
  BY <1>1, <1>7
<1>9. q <= l
  BY <1>3, <1>6, <1>7
<1>10. u.buf = b /\ u.off = q /\ u.eof = e /\ t.buf = b /\ t.eof = e
  BY <1>1, <1>8
<1>11. StrmOK(u)
  BY <1>2, <1>3, <1>8, <1>9, <1>10 DEF StrmOK, StrmType
<1>12. Rest(u) = SubSeq(r, n + 1, l - o)
  <2>1. n \in 0..(l - o) /\ l \in 0..Len(b) /\ o + n + 1 = q + 1
    BY <1>2, <1>6, <1>7
  <2>2. SubSeq(SubSeq(b, o + 1, l), n + 1, l - o) = SubSeq(b, o + n + 1, l)
    BY <1>3, <2>1, SuffixOfSuffix
  <2>3. Rest(u) = SubSeq(b, q + 1, l)
    BY <1>2, <1>10 DEF Rest
  <2> QED BY <1>4, <2>1, <2>2, <2>3
<1>13. SubSeq(r, 1, n) \o SubSeq(r, n + 1, Len(r)) = r
  <2>1. n \in 0..Len(r) /\ 0 \in 0..n
    BY <1>5, <1>6
  <2> QED BY <1>5, <2>1, CutInTwo
<1>14. SubSeq(r, 1, n) \in Seq(Alphabet) /\ SubSeq(r, n + 1, l - o) \in Seq(Alphabet)
  BY <1>5, <1>6
<1> QED BY <1>5, <1>10, <1>11, <1>12, <1>13, <1>14

\* What was handed out, what the decoding stream holds and what the decoder has
\* not written yet are what the tokens taken from the file stand for.
Kept(s, f, t, p, g) ==
  IF s.decoder THEN (g \o Rest(t)) \o p = Unpacked(s, TakenFrom(f))
               ELSE g = Unpacked(s, TakenFrom(f))

StreamInv ==
  /\ setup \in Setups /\ FileOK(setup.data, file) /\ StrmOK(strm)
  /\ pend \in Seq(Alphabet) /\ got \in Seq(Alphabet)
  /\ Kept(setup, file, strm, pend, got)

\* What Unread, Buf and Off are, with and without a decoder.
LEMMA UnreadIs ==
  ASSUME StreamInv
  PROVE  /\ setup.decoder => Unread = Rest(strm)
         /\ ~setup.decoder => Unread = SubSeq(file.buf, file.off + 1, Len(file.buf))
         /\ Buf \in Seq(Alphabet) /\ Unread \in Seq(Alphabet)
         /\ Off \in Nat /\ Off <= Len(Buf) /\ Len(Unread) = Len(Buf) - Off
<1> HIDE DEF Alphabet
<1>1. setup.decoder \in BOOLEAN
  BY SetupsAssumption DEF StreamInv
<1>2. Buf \in Seq(Alphabet) /\ Off \in Nat /\ Off <= Len(Buf)
  BY DEF StreamInv, StrmOK, StrmType, FileOK, FileType, Buf, Off
<1>3. Unread \in Seq(Alphabet) /\ Len(Unread) = Len(Buf) - Off
  BY <1>2 DEF Unread
<1>4. setup.decoder => Unread = Rest(strm)
  BY DEF Unread, Rest, Buf, Off
<1>5. ~setup.decoder => Unread = SubSeq(file.buf, file.off + 1, Len(file.buf))
  BY <1>1 DEF Unread, Buf, Off
<1> QED BY <1>2, <1>3, <1>4, <1>5

\* Whoever takes bytes from the stream takes the next ones.
LEMMA TakeKeeps ==
  ASSUME StreamInv, NEW n \in 0..Len(Unread), Take(n), setup' = setup, pend' = pend
  PROVE  /\ StreamInv'
         /\ setup.decoder => file' = file /\ strm'.buf = strm.buf /\ strm'.eof = strm.eof
<1> HIDE DEF Alphabet
<1>0. setup \in Setups /\ pend \in Seq(Alphabet) /\ got \in Seq(Alphabet)
  BY DEF StreamInv
<1>1. CASE setup.decoder
  <2>1. strm' = [strm EXCEPT !.off = @ + n] /\ file' = file
        /\ got' = got \o SubSeq(Rest(strm), 1, n) /\ n \in 0..Len(Rest(strm))
    BY <1>1, UnreadIs DEF Take
  <2>2. StrmOK(strm)
    BY DEF StreamInv
  <2>3. /\ StrmOK(strm') /\ strm'.buf = strm.buf /\ strm'.eof = strm.eof
        /\ Rest(strm') \in Seq(Alphabet)
        /\ SubSeq(Rest(strm), 1, n) \in Seq(Alphabet)
        /\ SubSeq(Rest(strm), 1, n) \o Rest(strm') = Rest(strm)
    BY <2>1, <2>2, StrmTake
  <2>4. got' \in Seq(Alphabet) /\ got' \o Rest(strm') = got \o Rest(strm)
    <3>1. PICK x \in Seq(Alphabet), y \in Seq(Alphabet) :
            x = SubSeq(Rest(strm), 1, n) /\ y = Rest(strm')
      BY <2>3
    <3>2. got \o x \in Seq(Alphabet) /\ (got \o x) \o y = got \o (x \o y)
      <4>1. got \o x \in Seq(Alphabet)
        BY <1>0, ConcatProperties
      <4>2. (got \o x) \o y = got \o (x \o y)
        BY <1>0, ConcatAssociative
      <4> QED BY <4>1, <4>2
    <3>3. x \o y = Rest(strm) /\ got' = got \o x
      BY <2>1, <2>3, <3>1
    <3> QED BY <3>1, <3>2, <3>3
  <2>5. Kept(setup, file, strm, pend, got)
    BY DEF StreamInv
  <2>6. Kept(setup', file', strm', pend', got')
    BY <1>1, <2>1, <2>4, <2>5 DEF Kept
  <2>7. FileOK(setup.data, file)
    BY DEF StreamInv
  <2> QED BY <1>0, <2>1, <2>3, <2>4, <2>6, <2>7 DEF StreamInv
<1>2. CASE ~setup.decoder
  <2>1. setup.data \in Seq(Alphabet) /\ FileOK(setup.data, file)
    BY SetupsAssumption DEF StreamInv, Alphabet
  <2>2. PICK d \in Seq(Alphabet) : d = setup.data
    BY <2>1
  <2>3. PICK p \in Nat, b \in Seq(Alphabet), o \in Nat : file = [pos |-> p, buf |-> b, off |-> o]
    BY <2>1 DEF FileOK, FileType
  <2>4. file.pos = p /\ file.buf = b /\ file.off = o
    BY <2>3
  <2>5. PICK T \in Nat : T = TakenFrom(file)
    BY <2>1, FileUnread, <1>0
  <2>6. T <= p /\ p <= Len(d) /\ Unread = SubSeq(d, T + 1, p)
    <3>1. Unread = SubSeq(file.buf, file.off + 1, Len(file.buf))
      BY <1>2, UnreadIs
    <3>2. /\ T <= file.pos
          /\ SubSeq(file.buf, file.off + 1, Len(file.buf)) = SubSeq(setup.data, T + 1, file.pos)
      BY <1>0, <2>1, <2>5, FileUnread
    <3>3. file.pos <= Len(setup.data)
      BY <2>1 DEF FileOK
    <3> QED BY <2>2, <2>4, <3>1, <3>2, <3>3
  <2>7. Len(Unread) = p - T /\ n <= p - T /\ n \in Nat
    BY <2>6
  <2>8. SubSeq(Unread, 1, n) = SubSeq(d, T + 1, T + n)
    BY <2>6, <2>7, PrefixOfSuffix
  <2>9. got = SubSeq(d, 1, T)
    BY <1>2, <2>2, <2>5 DEF StreamInv, Kept, Unpacked
  <2>10. SubSeq(d, 1, T) \o SubSeq(d, T + 1, T + n) = SubSeq(d, 1, T + n)
    <3>1. PICK k : k = T + n
      OBVIOUS
    <3>2. k \in 0..Len(d) /\ T \in 0..k
      BY <2>6, <2>7, <3>1
    <3>3. SubSeq(d, 1, T) \o SubSeq(d, T + 1, k) = SubSeq(d, 1, k)
      BY <3>2, CutInTwo
    <3> QED BY <3>1, <3>3
  <2>11. got' = SubSeq(d, 1, T + n)
    BY <2>8, <2>9, <2>10 DEF Take
  <2>12. got' \in Seq(Alphabet)
    BY <2>6, <2>7, <2>11
  <2>13. PICK q \in Nat : q = o + n
    BY <2>7
  <2>14. file' = [pos |-> p, buf |-> b, off |-> q] /\ strm' = strm
    BY <1>2, <2>3, <2>13 DEF Take
  <2>15. file'.pos = p /\ file'.buf = b /\ file'.off = q
    BY <2>14
  <2>16. Len(Unread) = Len(b) - o /\ o <= Len(b)
    BY <1>2, <2>4, UnreadIs DEF Buf, Off
  <2>17. q <= Len(b) /\ p - (Len(b) - q) = T + n
    BY <2>4, <2>5, <2>7, <2>13, <2>16 DEF TakenFrom
  <2>18. FileOK(setup'.data, file')
    BY <2>1, <2>4, <2>14, <2>15, <2>17 DEF FileOK, FileType
  <2>19. TakenFrom(file') = T + n
    BY <2>15, <2>17, SMTT(30) DEF TakenFrom
  <2>20. Kept(setup', file', strm', pend', got')
    BY <1>2, <2>2, <2>11, <2>19 DEF Kept, Unpacked
  <2> QED BY <1>0, <1>2, <2>12, <2>14, <2>18, <2>20 DEF StreamInv
<1>3. setup.decoder \in BOOLEAN
  BY <1>0, SetupsAssumption
<1> QED BY <1>1, <1>2, <1>3

\* The memmove of istream_precache keeps what is unread.
LEMMA StrmCompact ==
  ASSUME NEW t, StrmOK(t), NEW u, u = Compact(t)
  PROVE  StrmOK(u) /\ u.off = 0 /\ u.buf = Rest(t) /\ u.eof = t.eof /\ Rest(u) = Rest(t)
<1> USE BUFSZAssumption
<1> HIDE DEF Alphabet
<1>1. PICK b \in Seq(Alphabet), o \in Nat, e \in BOOLEAN : t = [buf |-> b, off |-> o, eof |-> e]
  BY DEF StrmOK, StrmType
<1>2. t.buf = b /\ t.off = o /\ t.eof = e
  BY <1>1
<1>3. PICK r : r = SubSeq(b, o + 1, Len(b))
  OBVIOUS
<1>4. r \in Seq(Alphabet) /\ Len(r) = Len(b) - o /\ Len(r) <= BUFSZ /\ Rest(t) = r
  <2>1. o <= Len(b) /\ Len(b) <= BUFSZ
    BY <1>2 DEF StrmOK
  <2>2. r \in Seq(Alphabet) /\ Len(r) = Len(b) - o
    BY <1>3, <2>1
  <2>3. Len(r) <= BUFSZ
    BY <2>1, <2>2
  <2> QED BY <1>2, <1>3, <2>2, <2>3 DEF Rest
<1>5. u = [buf |-> r, off |-> 0, eof |-> e]
  <2>1. u = [t EXCEPT !.buf = r, !.off = 0]
    BY <1>2, <1>3 DEF Compact
  <2>2. [t EXCEPT !.buf = r, !.off = 0] = [[t EXCEPT !.buf = r] EXCEPT !.off = 0]
    OBVIOUS
  <2>3. PICK w : w = [buf |-> r, off |-> o, eof |-> e]
    OBVIOUS
  <2>4. [t EXCEPT !.buf = r] = w
    BY <1>1, <2>3
  <2>5. [w EXCEPT !.off = 0] = [buf |-> r, off |-> 0, eof |-> e]
    BY <2>3
  <2> QED BY <2>1, <2>2, <2>4, <2>5, Zenon
<1>6. u.buf = r /\ u.off = 0 /\ u.eof = e
  BY <1>5
<1>7. StrmOK(u)
  BY <1>4, <1>5, <1>6 DEF StrmOK, StrmType
<1>8. Rest(u) = r
  <2>1. Rest(u) = SubSeq(r, 0 + 1, Len(r))
    BY <1>6 DEF Rest
  <2>2. SubSeq(r, 1, Len(r)) = r
    BY <1>4, SubSeqFull
  <2> QED BY <2>1, <2>2
<1> QED BY <1>2, <1>4, <1>6, <1>7, <1>8

\* The end of a sequence with another one behind it.
LEMMA SuffixOfConcat ==
  ASSUME NEW A, NEW b \in Seq(A), NEW x \in Seq(A), NEW o \in 0..Len(b)
  PROVE  SubSeq(b \o x, o + 1, Len(b \o x)) = SubSeq(b, o + 1, Len(b)) \o x
<1> DEFINE y == b \o x
           z == SubSeq(b, o + 1, Len(b))
<1>1. y \in Seq(A) /\ Len(y) = Len(b) + Len(x)
      /\ \A j \in 1..(Len(b) + Len(x)) : y[j] = IF j <= Len(b) THEN b[j] ELSE x[j - Len(b)]
  BY ConcatProperties
<1>2. z \in Seq(A) /\ Len(z) = Len(b) - o /\ \A j \in 1..(Len(b) - o) : z[j] = b[o + j]
  OBVIOUS
<1> HIDE DEF y, z
<1>3. PICK m \in Nat, n \in Nat, h \in Nat : m = Len(b) /\ n = Len(x) /\ h = m - o
  OBVIOUS
<1> DEFINE l == SubSeq(y, o + 1, Len(y))
           r == z \o x
<1>4. l \in Seq(A) /\ Len(l) = h + n /\ \A j \in 1..(h + n) : l[j] = y[o + j]
  BY <1>1, <1>3
<1>5. r \in Seq(A) /\ Len(r) = h + n
      /\ \A j \in 1..(h + n) : r[j] = IF j <= h THEN z[j] ELSE x[j - h]
  <2>1. r \in Seq(A) /\ Len(r) = Len(z) + Len(x)
        /\ \A j \in 1..(Len(z) + Len(x)) : r[j] = IF j <= Len(z) THEN z[j] ELSE x[j - Len(z)]
    BY <1>2, ConcatProperties
  <2>2. Len(z) = h /\ Len(x) = n
    BY <1>2, <1>3
  <2> HIDE DEF r
  <2> QED BY <2>1, <2>2
<1> HIDE DEF l, r
<1>6. ASSUME NEW j \in 1..(h + n) PROVE l[j] = r[j]
  <2>1. l[j] = y[o + j] /\ o + j \in 1..(m + n) /\ (o + j <= m <=> j <= h)
        /\ (o + j) - m = j - h
    BY <1>3, <1>4
  <2>2. CASE j <= h
    BY <1>1, <1>2, <1>3, <1>5, <2>1, <2>2
  <2>3. CASE ~(j <= h)
    BY <1>1, <1>3, <1>5, <2>1, <2>3
  <2> QED BY <2>2, <2>3
<1>7. l = r
  BY <1>4, <1>5, <1>6, SeqEqual
<1> QED BY <1>7 DEF l, r, y, z

Written(t, x, c) == [t EXCEPT !.buf = @ \o x, !.eof = c]

\* Bytes written to the decoding stream come after those unread.
LEMMA StrmWrite ==
  ASSUME NEW t, StrmOK(t), NEW x \in Seq(Alphabet), NEW c \in BOOLEAN,
         Len(t.buf) + Len(x) <= BUFSZ
  PROVE  /\ StrmOK(Written(t, x, c)) /\ Written(t, x, c).off = t.off
         /\ Written(t, x, c).buf = t.buf \o x /\ Written(t, x, c).eof = c
         /\ Rest(Written(t, x, c)) = Rest(t) \o x
<1> USE BUFSZAssumption
<1> HIDE DEF Alphabet
<1>1. PICK b \in Seq(Alphabet), o \in Nat, e \in BOOLEAN : t = [buf |-> b, off |-> o, eof |-> e]
  BY DEF StrmOK, StrmType
<1>2. t.buf = b /\ t.off = o
  BY <1>1
<1>3. PICK y : y = b \o x
  OBVIOUS
<1>4. y \in Seq(Alphabet) /\ Len(y) = Len(b) + Len(x)
  BY <1>3, ConcatProperties
<1>5. PICK u : u = [buf |-> y, off |-> o, eof |-> c]
  OBVIOUS
<1>6. u.buf = y /\ u.off = o /\ u.eof = c
  <2>1. u.buf = y /\ u.off = o
    BY <1>5
  <2>2. u.eof = c
    BY <1>5, Zenon
  <2> QED BY <2>1, <2>2
<1>7. u = Written(t, x, c)
  <2>1. [t EXCEPT !.buf = @ \o x, !.eof = c] = [t EXCEPT !.buf = y, !.eof = c]
    BY <1>2, <1>3
  <2>2. [t EXCEPT !.buf = y, !.eof = c] = [[t EXCEPT !.buf = y] EXCEPT !.eof = c]
    OBVIOUS
  <2>3. PICK w : w = [buf |-> y, off |-> o, eof |-> e]
    OBVIOUS
  <2>4. [t EXCEPT !.buf = y] = w
    BY <1>1, <2>3
  <2>5. [w EXCEPT !.eof = c] = [buf |-> y, off |-> o, eof |-> c]
    BY <2>3
  <2> QED BY <1>5, <2>1, <2>2, <2>4, <2>5, Zenon DEF Written
<1>8. o <= Len(b) /\ Len(y) <= BUFSZ
  BY <1>2, <1>4 DEF StrmOK
<1>9. StrmOK(u)
  BY <1>4, <1>5, <1>6, <1>8 DEF StrmOK, StrmType
<1>10. Rest(u) = Rest(t) \o x
  <2>1. o \in 0..Len(b)
    BY <1>8
  <2>2. SubSeq(y, o + 1, Len(y)) = SubSeq(b, o + 1, Len(b)) \o x
    BY <1>3, <2>1, SuffixOfConcat
  <2> QED BY <1>2, <1>6, <2>2 DEF Rest
<1>11. u.off = t.off /\ u.buf = t.buf \o x
  BY <1>2, <1>3, <1>6
<1> QED BY <1>6, <1>7, <1>9, <1>10, <1>11

-----------------------------------------------------------------------------
\* Four sequences in a row.
LEMMA Regroup ==
  \A g, u, x, y \in Seq(Alphabet) : (g \o (u \o x)) \o y = (g \o u) \o (x \o y)
<1> HIDE DEF Alphabet
<1> SUFFICES ASSUME NEW g \in Seq(Alphabet), NEW u \in Seq(Alphabet),
                    NEW x \in Seq(Alphabet), NEW y \in Seq(Alphabet)
             PROVE  (g \o (u \o x)) \o y = (g \o u) \o (x \o y)
  BY Zenon
<1>1. (g \o u) \o x = g \o (u \o x)
  BY ConcatAssociative
<1>2. g \o u \in Seq(Alphabet)
  BY ConcatProperties
<1>3. PICK v \in Seq(Alphabet) : v = g \o u
  BY <1>2
<1>4. (v \o x) \o y = v \o (x \o y)
  BY ConcatAssociative, SMTT(30)
<1> QED BY <1>1, <1>3, <1>4

\* One round of process_data: the next token, what there is to write, how much of
\* it there is room for, and whether the decoder reports the end.
Round(T, out, n, end) ==
  /\ T = TakenFrom(file) /\ T + 1 \in 1..Len(setup.data)
  /\ file.buf[file.off + 1] = setup.data[T + 1]
  /\ out = IF pend = <<>> THEN setup.expand[setup.data[T + 1]] ELSE pend
  /\ n <= Len(out) /\ Len(strm.buf) + n <= BUFSZ /\ (n = 0 => out = <<>>)
  /\ end = (pend = <<>> /\ (file.pos = Len(setup.data) /\ file.off + 1 = Len(file.buf))
             /\ setup.trailer)
  /\ file' = IF pend = <<>> THEN [file EXCEPT !.off = @ + 1] ELSE file
  /\ pend' = SubSeq(out, n + 1, Len(out))
  /\ strm' = [strm EXCEPT !.buf = @ \o SubSeq(out, 1, n), !.eof = @ \/ end]
  /\ op' = [op EXCEPT !.made = @ + n]
  /\ pc' = IF end THEN "refilled" ELSE "process"

\* Every round of process_data is of that form.
LEMMA DecoderFacts ==
  ASSUME StreamInv, setup.decoder, DecoderCall
  PROVE  \E T \in Nat, out \in Seq(Alphabet), n \in Nat, end \in BOOLEAN : Round(T, out, n, end)
<1> USE BUFSZAssumption
<1> HIDE DEF Alphabet
<1>0. /\ setup \in Setups /\ FileOK(setup.data, file) /\ StrmOK(strm) /\ pend \in Seq(Alphabet)
  BY DEF StreamInv
<1>1. setup.data \in Seq(Alphabet) /\ setup.trailer \in BOOLEAN
      /\ \A i \in 1..Len(setup.data) : setup.expand[setup.data[i]] \in Seq(Alphabet)
  BY <1>0, SetupsAssumption DEF Alphabet
<1>3. PICK p \in Nat, b \in Seq(Alphabet), o \in Nat : file.pos = p /\ file.buf = b /\ file.off = o
  BY <1>0 DEF FileOK, FileType
<1>4. PICK T \in Nat : T = TakenFrom(file)
  BY <1>0, FileUnread
<1>5. o < Len(b) /\ Len(b) <= BUFSZ /\ Len(b) <= p /\ p <= Len(setup.data) /\ Len(strm.buf) < BUFSZ
      /\ Len(strm.buf) \in Nat
  <2>1. o < Len(b)
    BY <1>3 DEF DecoderCall
  <2>2. Len(b) <= BUFSZ /\ Len(b) <= p /\ p <= Len(setup.data)
    BY <1>0, <1>3 DEF FileOK
  <2>3. Len(strm.buf) < BUFSZ
    BY DEF DecoderCall
  <2>4. Len(strm.buf) \in Nat
    BY <1>0 DEF StrmOK, StrmType
  <2> QED BY <2>1, <2>2, <2>3, <2>4
<1>6. T + 1 \in 1..Len(setup.data) /\ b[o + 1] = setup.data[T + 1]
  <2>1. T = p - (Len(b) - o)
    BY <1>3, <1>4 DEF TakenFrom
  <2>2. o + 1 \in 1..Len(b)
    BY <1>5
  <2>3. b[o + 1] = setup.data[p - Len(b) + (o + 1)]
    BY <1>0, <1>3, <2>2, FileUnread
  <2>4. p - Len(b) + (o + 1) = T + 1 /\ T + 1 \in 1..Len(setup.data)
    BY <1>1, <1>5, <2>1
  <2> QED BY <2>3, <2>4
<1>7. PICK e \in Seq(Alphabet) : e = setup.expand[setup.data[T + 1]]
  BY <1>1, <1>6
<1>8. PICK out \in Seq(Alphabet) : out = (IF pend = <<>> THEN e ELSE pend)
  BY <1>0
<1>9. PICK l \in Nat, room \in Nat : l = Len(strm.buf) /\ room = BUFSZ - l /\ l < BUFSZ
  <2>1. PICK l \in Nat : l = Len(strm.buf) /\ l < BUFSZ
    BY <1>5
  <2>2. BUFSZ - l \in Nat
    BY <2>1
  <2> QED BY <2>1, <2>2
<1>10. PICK n \in Nat : n = (IF Len(out) < room THEN Len(out) ELSE room) /\ n <= Len(out) /\ n <= room
  OBVIOUS
<1>11. Len(strm.buf) + n <= BUFSZ /\ (n = 0 => out = <<>>)
  <2>0. PICK z \in Nat : z = BUFSZ
    OBVIOUS
  <2>1. l + n <= BUFSZ /\ room > 0
    <3>1. room = z - l /\ l < z /\ n <= room
      BY <1>9, <1>10, <2>0
    <3>2. l + n <= z /\ room > 0
      BY <3>1
    <3> QED BY <2>0, <3>2
  <2>2. n = 0 => Len(out) = 0
    BY <1>10, <2>1
  <2> QED BY <1>9, <2>1, <2>2, EmptySeq
<1>12. PICK end \in BOOLEAN :
         end = (pend = <<>> /\ (file.pos = Len(setup.data) /\ file.off + 1 = Len(file.buf))
                /\ setup.trailer)
  OBVIOUS
<1>13. file.buf[file.off + 1] = setup.data[T + 1]
  BY <1>3, <1>6
<1>14. /\ strm' = [strm EXCEPT !.buf = @ \o SubSeq(out, 1, n), !.eof = @ \/ end]
       /\ pend' = SubSeq(out, n + 1, Len(out))
       /\ file' = IF pend = <<>> THEN [file EXCEPT !.off = @ + 1] ELSE file
       /\ op' = [op EXCEPT !.made = @ + n]
       /\ pc' = IF end THEN "refilled" ELSE "process"
  BY <1>7, <1>8, <1>9, <1>10, <1>12, <1>13, Zenon DEF DecoderCall
<1>15. Round(T, out, n, end)
  BY <1>4, <1>6, <1>7, <1>8, <1>10, <1>11, <1>12, <1>13, <1>14, Zenon DEF Round
<1> QED BY <1>15

\* What the decoder takes from the file stream and what it writes, and keeps to
\* itself, are the same bytes.
LEMMA DecoderKeeps ==
  ASSUME StreamInv, setup.decoder, DecoderCall
  PROVE  StreamInv' /\ strm'.off = strm.off
<1> USE BUFSZAssumption
<1> HIDE DEF Alphabet
<1>0. /\ setup \in Setups /\ FileOK(setup.data, file) /\ StrmOK(strm)
      /\ pend \in Seq(Alphabet) /\ got \in Seq(Alphabet)
      /\ (got \o Rest(strm)) \o pend = Unpacked(setup, TakenFrom(file))
      /\ setup' = setup /\ got' = got
  BY DEF StreamInv, Kept, DecoderCall
<1>1. PICK T \in Nat, out \in Seq(Alphabet), n \in Nat, end \in BOOLEAN : Round(T, out, n, end)
  BY DecoderFacts
<1>2. PICK p \in Nat, b \in Seq(Alphabet), o \in Nat : file = [pos |-> p, buf |-> b, off |-> o]
  BY <1>0 DEF FileOK, FileType
<1>3. file.pos = p /\ file.buf = b /\ file.off = o
  BY <1>2
<1>5. o < Len(b) /\ Len(b) <= p /\ p <= Len(setup.data) /\ T = p - (Len(b) - o)
  BY <1>0, <1>1, <1>3 DEF DecoderCall, FileOK, Round, TakenFrom
<1>12. PICK x \in Seq(Alphabet), y \in Seq(Alphabet) :
         x = SubSeq(out, 1, n) /\ y = SubSeq(out, n + 1, Len(out)) /\ Len(x) = n /\ x \o y = out
  <2>1. n \in 0..Len(out) /\ 0 \in 0..n
    BY <1>1 DEF Round
  <2>2. SubSeq(out, 1, n) \o SubSeq(out, n + 1, Len(out)) = out
    BY <2>1, CutInTwo
  <2>3. SubSeq(out, 1, n) \in Seq(Alphabet) /\ SubSeq(out, n + 1, Len(out)) \in Seq(Alphabet)
        /\ Len(SubSeq(out, 1, n)) = n
    BY <2>1
  <2> QED BY <2>2, <2>3
<1>13. PICK c \in BOOLEAN :
         /\ strm' = [strm EXCEPT !.buf = @ \o x, !.eof = c] /\ pend' = y
         /\ file' = IF pend = <<>> THEN [file EXCEPT !.off = @ + 1] ELSE file
  <2>1. /\ strm' = [strm EXCEPT !.buf = @ \o x, !.eof = @ \/ end] /\ pend' = y
        /\ file' = IF pend = <<>> THEN [file EXCEPT !.off = @ + 1] ELSE file
    BY <1>1, <1>12, Zenon DEF Round
  <2>2. (strm.eof \/ end) \in BOOLEAN
    OBVIOUS
  <2>3. [strm EXCEPT !.buf = @ \o x, !.eof = @ \/ end] = [strm EXCEPT !.buf = @ \o x, !.eof = strm.eof \/ end]
    OBVIOUS
  <2> QED BY <2>1, <2>2, <2>3, Zenon
<1>14. Len(strm.buf) + Len(x) <= BUFSZ
  BY <1>1, <1>12 DEF Round
<1>15. StrmOK(strm') /\ strm'.off = strm.off /\ Rest(strm') = Rest(strm) \o x
  <2>1. strm' = Written(strm, x, c)
    BY <1>13, Zenon DEF Written
  <2> QED BY <1>0, <1>14, <2>1, StrmWrite
<1>16. Rest(strm) \in Seq(Alphabet)
  BY <1>0 DEF Rest, StrmOK, StrmType
<1>17. (got \o Rest(strm')) \o y = (got \o Rest(strm)) \o out
  <2>1. PICK u \in Seq(Alphabet) : u = Rest(strm)
    BY <1>16
  <2>2. PICK g \in Seq(Alphabet) : g = got
    BY <1>0
  <2>3. (g \o (u \o x)) \o y = (g \o u) \o (x \o y)
    <3>1. g \in Seq(Alphabet) /\ u \in Seq(Alphabet) /\ x \in Seq(Alphabet) /\ y \in Seq(Alphabet)
      OBVIOUS
    <3>2. \A u1, x1, y1 \in Seq(Alphabet) : (g \o (u1 \o x1)) \o y1 = (g \o u1) \o (x1 \o y1)
      BY Regroup, <3>1, Zenon
    <3>3. \A x1, y1 \in Seq(Alphabet) : (g \o (u \o x1)) \o y1 = (g \o u) \o (x1 \o y1)
      BY <3>2, <3>1, Zenon
    <3>4. \A y1 \in Seq(Alphabet) : (g \o (u \o x)) \o y1 = (g \o u) \o (x \o y1)
      BY <3>3, <3>1, Zenon
    <3> QED BY <3>1, <3>4, Zenon
  <2> QED BY <1>12, <1>15, <2>1, <2>2, <2>3
<1>18. CASE pend = <<>>
  <2>1. file' = [pos |-> p, buf |-> b, off |-> o + 1]
    BY <1>2, <1>13, <1>18
  <2>2. file'.pos = p /\ file'.buf = b /\ file'.off = o + 1 /\ file' \in FileType
    BY <2>1 DEF FileType
  <2>3. FileOK(setup.data, file')
    BY <1>0, <1>3, <1>5, <2>2 DEF FileOK
  <2>4. TakenFrom(file') = T + 1
    BY <1>5, <2>2 DEF TakenFrom
  <2>5. got \o Rest(strm) = Unpacked(setup, T)
    <3>1. got \o Rest(strm) \in Seq(Alphabet)
      BY <1>0, <1>16, ConcatProperties
    <3>2. (got \o Rest(strm)) \o <<>> = got \o Rest(strm)
      BY <3>1, ConcatEmptySeq
    <3> QED BY <1>0, <1>1, <1>18, <3>2 DEF Round
  <2>6. Unpacked(setup, T + 1) = Unpacked(setup, T) \o out
    <3>1. T + 1 \in 1..Len(setup.data) /\ out = setup.expand[setup.data[T + 1]]
      BY <1>1, <1>18 DEF Round
    <3>2. Unpacked(setup, T + 1) = Unpacked(setup, (T + 1) - 1) \o setup.expand[setup.data[T + 1]]
      BY <1>0, <3>1, UnpackedFacts
    <3>3. (T + 1) - 1 = T
      OBVIOUS
    <3> QED BY <3>1, <3>2, <3>3
  <2>7. (got \o Rest(strm')) \o y = Unpacked(setup, TakenFrom(file'))
    BY <1>17, <2>4, <2>5, <2>6
  <2>8. Kept(setup', file', strm', pend', got')
    BY <1>0, <1>13, <2>7 DEF Kept
  <2> QED BY <1>0, <1>12, <1>13, <1>15, <2>3, <2>8 DEF StreamInv
<1>19. CASE pend # <<>>
  <2>1. file' = file /\ out = pend
    BY <1>1, <1>13, <1>19 DEF Round
  <2>2. Kept(setup', file', strm', pend', got')
    BY <1>0, <1>13, <1>17, <2>1 DEF Kept
  <2> QED BY <1>0, <1>13, <1>15, <2>1, <2>2 DEF StreamInv
<1> QED BY <1>18, <1>19

-----------------------------------------------------------------------------
\* The call that is being served: after a refill nothing of the buffer is read,
\* and only a decoding stream has a stream below it.
CallInv ==
  /\ op \in OpType
  /\ pc \in {"idle", "copy", "precache", "wrapped", "process", "refilled"}
  /\ pc \in {"wrapped", "process"} => setup.decoder
  /\ pc \in {"wrapped", "process", "refilled"} => Off = 0

ConsInv == StreamInv /\ CallInv

\* The record of no call is a record of a call.
LEMMA NoOpType == NoOp \in OpType
<1> HIDE DEF Alphabet
<1>1. <<>> \in Seq(Alphabet)
  OBVIOUS
<1> QED BY <1>1 DEF NoOp, OpType

\* Nothing is read and nothing handed out at the start.
LEMMA ConsInit == Init => ConsInv
<1> SUFFICES ASSUME Init PROVE ConsInv
  OBVIOUS
<1> HIDE DEF Alphabet
<1>1. setup \in Setups /\ setup.data \in Seq(Alphabet) /\ setup.decoder \in BOOLEAN
      /\ Len(setup.data) \in Nat
  BY SetupsAssumption DEF Init, Alphabet
<1>2. file = [pos |-> 0, buf |-> <<>>, off |-> 0] /\ file.pos = 0 /\ file.buf = <<>> /\ file.off = 0
  BY DEF Init
<1>3. strm = [buf |-> <<>>, off |-> 0, eof |-> FALSE] /\ strm.buf = <<>> /\ strm.off = 0
  BY DEF Init
<1>4. pend = <<>> /\ got = <<>> /\ pc = "idle" /\ op = NoOp
  BY DEF Init
<1>5. <<>> \in Seq(Alphabet) /\ Len(<<>>) = 0
  OBVIOUS
<1>6. SubSeq(setup.data, 1, 0) = <<>>
  BY <1>1
<1>7. FileOK(setup.data, file)
  <2>1. file \in FileType
    BY <1>2, <1>5 DEF FileType
  <2>2. file.pos - Len(file.buf) + 1 = 1
    BY <1>2, <1>5
  <2>3. file.buf = SubSeq(setup.data, file.pos - Len(file.buf) + 1, file.pos)
    BY <1>2, <1>6, <2>2
  <2> QED BY <1>1, <1>2, <1>5, <2>1, <2>3, BUFSZAssumption DEF FileOK
<1>8. StrmOK(strm)
  BY <1>3, <1>5, BUFSZAssumption DEF StrmOK, StrmType
<1>9. TakenFrom(file) = 0
  BY <1>2, <1>5 DEF TakenFrom
<1>10. Rest(strm) = <<>>
  BY <1>3, <1>5 DEF Rest
<1>11. Unpacked(setup, 0) = <<>>
  BY <1>1, <1>6, UnpackedFacts DEF Unpacked
<1>12. <<>> \o <<>> = <<>>
  BY <1>5, ConcatEmptySeq
<1>13. Kept(setup, file, strm, pend, got)
  BY <1>4, <1>9, <1>10, <1>11, <1>12 DEF Kept
<1>14. op \in OpType
  BY <1>4, NoOpType
<1> QED BY <1>1, <1>4, <1>5, <1>7, <1>8, <1>13, <1>14 DEF ConsInv, StreamInv, CallInv

\* Nothing that the streams hold is touched.
LEMMA StreamSame ==
  ASSUME StreamInv, UNCHANGED <<setup, file, pend, strm, got>>
  PROVE  StreamInv' /\ Off' = Off /\ Buf' = Buf
  BY DEF StreamInv, Off, Buf

\* istream_read and istream_skip take no more than there is.
LEMMA CopyKeeps == ASSUME ConsInv, CopyRound PROVE ConsInv'
<1> USE BUFSZAssumption
<1> HIDE DEF Alphabet
<1>0. StreamInv /\ op \in OpType /\ op.left \in Nat /\ pc = "copy"
  BY DEF ConsInv, CallInv, OpType, CopyRound
<1>1. Unread \in Seq(Alphabet) /\ Len(Unread) \in Nat
  BY <1>0, UnreadIs
<1>2. PICK n \in Nat : n = (IF op.left < Len(Unread) THEN op.left ELSE Len(Unread))
                       /\ n <= op.left /\ n <= Len(Unread)
  BY <1>0, <1>1
<1>3. CASE op.left = 0 /\ Return("ok") /\ UNCHANGED <<file, strm, got>>
  <2>1. StreamInv'
    BY <1>0, <1>3, StreamSame DEF CopyRound
  <2>2. op' \in OpType /\ pc' = "idle"
    BY <1>3, NoOpType DEF Return
  <2> QED BY <2>1, <2>2 DEF ConsInv, CallInv
<1>4. CASE pc' = "precache" /\ UNCHANGED <<file, strm, got, op, result>>
  <2>1. StreamInv'
    BY <1>0, <1>4, StreamSame DEF CopyRound
  <2> QED BY <1>0, <1>4, <2>1 DEF ConsInv, CallInv
<1>5. CASE Take(n) /\ op' = [op EXCEPT !.left = @ - n] /\ UNCHANGED <<pc, result>>
  <2>1. StreamInv'
    <3>1. n \in 0..Len(Unread) /\ setup' = setup /\ pend' = pend
      BY <1>1, <1>2 DEF CopyRound
    <3> QED BY <1>0, <1>5, <3>1, TakeKeeps
  <2>2. op' \in OpType
    <3>1. op.left - n \in Nat
      BY <1>0, <1>2
    <3> QED BY <1>0, <1>5, <3>1 DEF OpType
  <2>3. pc' = "copy"
    BY <1>0, <1>5
  <2> QED BY <2>1, <2>2, <2>3 DEF ConsInv, CallInv
<1> QED BY <1>2, <1>3, <1>4, <1>5, Zenon DEF CopyRound

\* istream_precache keeps what is unread and leaves nothing read in the buffer.
LEMMA PrecacheKeeps == ASSUME ConsInv, istream_precache PROVE ConsInv'
<1> HIDE DEF Alphabet
<1>0. StreamInv /\ op \in OpType /\ setup \in Setups /\ setup' = setup
      /\ pend' = pend /\ got' = got /\ op' = op
  BY DEF ConsInv, CallInv, StreamInv, istream_precache
<1>1. CASE setup.decoder
  <2>1. strm' = Compact(strm) /\ file' = file /\ pc' \in {"refilled", "wrapped"}
    BY <1>1 DEF istream_precache
  <2>2. StrmOK(strm') /\ strm'.off = 0 /\ Rest(strm') = Rest(strm)
    BY <1>0, <2>1, StrmCompact DEF StreamInv
  <2>3. Kept(setup', file', strm', pend', got')
    BY <1>0, <1>1, <2>1, <2>2 DEF Kept, StreamInv
  <2>4. StreamInv'
    BY <1>0, <2>1, <2>2, <2>3 DEF StreamInv
  <2>5. Off' = 0
    BY <1>0, <1>1, <2>2 DEF Off
  <2> QED BY <1>0, <1>1, <2>1, <2>4, <2>5 DEF ConsInv, CallInv
<1>2. CASE ~setup.decoder
  <2>1. file' = file_precache(Compact(file)) /\ strm' = strm /\ pc' = "refilled"
    BY <1>2 DEF istream_precache
  <2>2. FileOK(setup.data, file') /\ TakenFrom(file') = TakenFrom(file) /\ file'.off = 0
    BY <1>0, <2>1, Refill DEF StreamInv
  <2>3. Kept(setup', file', strm', pend', got')
    BY <1>0, <2>1, <2>2 DEF Kept, StreamInv
  <2>4. StreamInv'
    BY <1>0, <2>1, <2>2, <2>3 DEF StreamInv
  <2>5. Off' = 0
    BY <1>0, <1>2, <2>2 DEF Off
  <2> QED BY <1>0, <2>1, <2>4, <2>5 DEF ConsInv, CallInv
<1>3. setup.decoder \in BOOLEAN
  BY <1>0, SetupsAssumption
<1> QED BY <1>1, <1>2, <1>3

\* The refill of the wrapped stream.
LEMMA WrappedKeeps == ASSUME ConsInv, PrecacheWrapped PROVE ConsInv'
<1> HIDE DEF Alphabet
<1>0. /\ StreamInv /\ op \in OpType /\ setup \in Setups /\ setup' = setup /\ strm' = strm
      /\ pend' = pend /\ got' = got /\ pc' = "process" /\ pc = "wrapped"
      /\ op' = [op EXCEPT !.made = 0] /\ setup.decoder /\ Off = 0
      /\ file' = file_precache(Compact(file))
  BY DEF ConsInv, CallInv, StreamInv, PrecacheWrapped
<1>1. FileOK(setup.data, file') /\ TakenFrom(file') = TakenFrom(file)
  BY <1>0, Refill DEF StreamInv
<1>2. Kept(setup', file', strm', pend', got')
  BY <1>0, <1>1 DEF Kept, StreamInv
<1>3. StreamInv'
  BY <1>0, <1>1, <1>2 DEF StreamInv
<1>4. Off' = 0 /\ op' \in OpType
  BY <1>0 DEF Off, OpType
<1> QED BY <1>0, <1>3, <1>4 DEF ConsInv, CallInv

\* A round of process_data, with the call it belongs to.
LEMMA DecoderCallKeeps == ASSUME ConsInv, DecoderCall PROVE ConsInv'
<1> HIDE DEF Alphabet
<1>0. StreamInv /\ op \in OpType /\ setup' = setup /\ setup.decoder /\ Off = 0 /\ pc = "process"
  BY DEF ConsInv, CallInv, DecoderCall
<1>1. StreamInv' /\ strm'.off = strm.off
  BY <1>0, DecoderKeeps
<1>2. Off' = 0
  BY <1>0, <1>1 DEF Off
<1>3. pc' \in {"refilled", "process"}
  BY DEF DecoderCall
<1>4. op' \in OpType
  <2>1. PICK n \in Nat : op' = [op EXCEPT !.made = @ + n]
    BY <1>0, DecoderFacts DEF Round
  <2> QED BY <1>0, <2>1 DEF OpType
<1> QED BY <1>0, <1>1, <1>2, <1>3, <1>4 DEF ConsInv, CallInv

\* The actions that look at the streams and do not touch them.
LEMMA ReadersKeep ==
  ASSUME ConsInv,
         \/ \E n \in Sizes : Call("read", n) \/ Call("skip", n)
         \/ Call("line", 0)
         \/ ProcessDone \/ AfterRefill \/ LineAtEnd \/ ReadError
  PROVE  ConsInv'
<1> USE BUFSZAssumption
<1> HIDE DEF Alphabet
<1>0. StreamInv /\ op \in OpType /\ CallInv
  BY DEF ConsInv, CallInv
<1>1. UNCHANGED <<setup, file, pend, strm, got>>
  BY DEF Call, ProcessDone, AfterRefill, LineAtEnd, ReadError
<1>2. StreamInv' /\ Off' = Off
  BY <1>0, <1>1, StreamSame
<1>3. ASSUME NEW r, Return(r) PROVE CallInv'
  BY <1>3, NoOpType DEF Return, CallInv
<1>4. ASSUME NEW k \in {"read", "skip", "line"}, NEW n \in Nat, Call(k, n) PROVE CallInv'
  <2>1. op' = [NoOp EXCEPT !.kind = k, !.left = n] /\ pc' \in {"precache", "copy"}
    BY <1>4 DEF Call
  <2>2. op' \in OpType
    BY <2>1, NoOpType DEF OpType
  <2> QED BY <2>1, <2>2 DEF CallInv
<1>5. CASE ProcessDone
  BY <1>0, <1>1, <1>2, <1>5 DEF ProcessDone, CallInv, ConsInv
<1>6. CASE AfterRefill
  <2>1. CASE pc' = "copy" /\ UNCHANGED <<op, result>>
    BY <1>0, <1>2, <2>1 DEF CallInv, ConsInv
  <2> QED BY <1>2, <1>3, <1>6, <2>1 DEF AfterRefill, ConsInv
<1>7. CASE LineAtEnd
  BY <1>2, <1>3, <1>7 DEF LineAtEnd, ConsInv
<1>8. CASE ReadError
  BY <1>2, <1>3, <1>8 DEF ReadError, ConsInv
<1>9. ASSUME NEW n \in Sizes, Call("read", n) \/ Call("skip", n) PROVE ConsInv'
  BY <1>2, <1>4, <1>9 DEF ConsInv
<1>10. CASE Call("line", 0)
  BY <1>2, <1>4, <1>10 DEF ConsInv
<1> QED BY <1>5, <1>6, <1>7, <1>8, <1>9, <1>10

\* istream_get_line takes the buffer up to the line feed, or all of it.
LEMMA LineKeeps == ASSUME ConsInv, LineRound PROVE ConsInv'
<1> HIDE DEF Alphabet
<1>0. /\ StreamInv /\ op \in OpType /\ Off = 0 /\ Buf # <<>> /\ setup' = setup /\ pend' = pend
  BY DEF ConsInv, CallInv, LineRound
<1>1. Buf \in Seq(Alphabet) /\ Len(Unread) = Len(Buf)
  BY <1>0, UnreadIs
<1> DEFINE lfs == {i \in 1 .. Len(Buf) : Buf[i] = "LF"}
           i   == IF lfs = {} THEN Len(Buf) ELSE CHOOSE k \in lfs : \A j \in lfs : k <= j
           n   == IF lfs = {} THEN i
                  ELSE IF i > 1 /\ Buf[i - 1] = "CR" THEN i - 2 ELSE i - 1
           all == LineSoFar(SubSeq(Buf, 1, n))
<1>2. i \in 1..Len(Buf)
  <2>1. Len(Buf) \in Nat \ {0}
    BY <1>0, <1>1, EmptySeq
  <2>2. lfs \subseteq Nat
    OBVIOUS
  <2>3. CASE lfs = {}
    BY <2>1, <2>3
  <2>4. CASE lfs # {}
    <3>1. \E k \in lfs : \A j \in lfs : k <= j
      BY <2>2, <2>4, NatLeast
    <3>2. (CHOOSE k \in lfs : \A j \in lfs : k <= j) \in lfs
      BY <3>1
    <3> QED BY <2>4, <3>2
  <2> QED BY <2>3, <2>4
<1>3. Take(i)
  BY Zenon DEF LineRound
<1>4. pc' \in {"precache", "idle"} /\ (op' = NoOp \/ op' = [op EXCEPT !.line = all]
                                      \/ op' = [op EXCEPT !.line = <<>>])
  BY DEF LineRound, Return
<1> HIDE DEF i
<1>5. StreamInv'
  BY <1>0, <1>1, <1>2, <1>3, TakeKeeps
<1>6. n \in 0..Len(Buf)
  BY <1>1, <1>2
<1> HIDE DEF n
<1>7. all \in Seq(Alphabet) /\ <<>> \in Seq(Alphabet)
  <2>1. SubSeq(Buf, 1, n) \in Seq(Alphabet) /\ op.line \in Seq(Alphabet)
    BY <1>0, <1>1, <1>6 DEF OpType
  <2> QED BY <2>1, ConcatProperties DEF LineSoFar
<1> HIDE DEF all
<1>8. op' \in OpType
  BY <1>0, <1>4, <1>7, NoOpType DEF OpType
<1> QED BY <1>4, <1>5, <1>8 DEF ConsInv, CallInv

-----------------------------------------------------------------------------
\* One step per action of the specification but the failure of the decoder.
LEMMA ConsStep == ConsInv /\ [Next]_vars /\ ~DecoderFails => ConsInv'
<1> SUFFICES ASSUME ConsInv, [Next]_vars, ~DecoderFails PROVE ConsInv'
  OBVIOUS
<1>1. CASE CopyRound
  BY <1>1, CopyKeeps
<1>2. CASE istream_precache
  BY <1>2, PrecacheKeeps
<1>3. CASE PrecacheWrapped
  BY <1>3, WrappedKeeps
<1>4. CASE DecoderCall
  BY <1>4, DecoderCallKeeps
<1>5. CASE LineRound
  BY <1>5, LineKeeps
<1>6. CASE \/ \E n \in Sizes : Call("read", n) \/ Call("skip", n)
           \/ Call("line", 0)
           \/ ProcessDone \/ AfterRefill \/ LineAtEnd \/ ReadError
  BY <1>6, ReadersKeep
<1>7. CASE UNCHANGED vars \/ DecoderStuck
  <2>1. StreamInv' /\ Off' = Off
    BY <1>7, StreamSame DEF ConsInv, DecoderStuck, vars
  <2> QED BY <1>7, <2>1 DEF ConsInv, CallInv, DecoderStuck, vars
<1> QED BY <1>1, <1>2, <1>3, <1>4, <1>5, <1>6, <1>7 DEF Next, Work

\* Once the decoder has failed the stream is not used any more: what it wrote in the
\* call that failed is gone, and only the buffers are known to be in bounds.
Failed ==
  /\ pc = "idle" /\ result = "error"
  /\ Len(file.buf) <= BUFSZ /\ Len(strm.buf) <= BUFSZ

\* The failure leads there, ...
LEMMA DecoderFailsFails == ConsInv /\ DecoderFails => Failed'
<1> SUFFICES ASSUME ConsInv, DecoderFails PROVE Failed'
  OBVIOUS
<1> HIDE DEF Alphabet
<1>1. FileOK(setup.data, file) /\ StrmOK(strm) /\ op \in OpType
  BY DEF ConsInv, StreamInv, CallInv
<1>2. pc' = "idle" /\ result' = "error"
  BY DEF DecoderFails, Return
<1>3. file'.buf = file.buf /\ Len(file.buf) <= BUFSZ
  BY <1>1 DEF DecoderFails, FileOK, FileType
<1>4. PICK b \in Seq(Alphabet), k \in Nat : b = strm.buf /\ k = op.made
  BY <1>1 DEF StrmOK, StrmType, OpType
<1>5. strm'.buf = SubSeq(b, 1, Len(b) - k)
  BY <1>1, <1>4 DEF DecoderFails, StrmOK, StrmType
<1>6. Len(SubSeq(b, 1, Len(b) - k)) <= Len(b)
  <2>1. PICK l \in Nat : l = Len(b)
    OBVIOUS
  <2>2. l - k \in Int /\ l - k <= l
    BY <2>1
  <2>3. PICK m \in Int : m = l - k /\ m <= l
    BY <2>2
  <2>4. CASE m \in Nat
    BY <2>1, <2>3, <2>4
  <2>5. CASE m \notin Nat
    BY <2>1, <2>3, <2>5
  <2> QED BY <2>4, <2>5
<1>7. Len(strm'.buf) <= BUFSZ
  <2>1. Len(b) <= BUFSZ /\ Len(b) \in Nat
    BY <1>1, <1>4 DEF StrmOK
  <2>2. Len(SubSeq(b, 1, Len(b) - k)) \in Nat
    OBVIOUS
  <2> QED BY <1>5, <1>6, <2>1, <2>2, BUFSZAssumption
<1> QED BY <1>2, <1>3, <1>7 DEF Failed

\* ... and from there nothing leads anywhere.
LEMMA FailedStays == Failed /\ [Next]_vars => UNCHANGED vars
<1> SUFFICES ASSUME Failed, Next PROVE FALSE
  OBVIOUS
<1>1. pc = "idle" /\ result = "error"
  BY DEF Failed
<1>2. ASSUME NEW k, NEW n PROVE ~Call(k, n)
  BY <1>1 DEF Call
<1>3. ~Work /\ ~ReadError
  BY <1>1 DEF Work, ReadError, CopyRound, istream_precache, PrecacheWrapped, DecoderCall,
              DecoderFails, DecoderStuck, Meets, ProcessDone, AfterRefill, LineRound, LineAtEnd
<1> QED BY <1>2, <1>3 DEF Next

\* The inductive invariant of the streams: the buffer of the file stream is the part
\* of the file in front of its position, and what was handed out, is unread and is
\* pending is what the tokens taken stand for, unless the decoder has failed.
THEOREM StreamInvariant == Spec => [](ConsInv \/ Failed)
<1>1. Init => ConsInv
  BY ConsInit
<1>2. ConsInv /\ [Next]_vars => ConsInv' \/ Failed'
  BY ConsStep, DecoderFailsFails
<1>3. Failed /\ [Next]_vars => Failed'
  BY FailedStays DEF vars, Failed
<1> QED BY <1>1, <1>2, <1>3, PTL DEF Spec

\* The invariant gives Conserved.
LEMMA ConsImplies == ConsInv => Conserved
<1> SUFFICES ASSUME ConsInv PROVE Conserved
  OBVIOUS
<1>0. StreamInv /\ setup \in Setups /\ FileOK(setup.data, file) /\ Kept(setup, file, strm, pend, got)
      /\ StrmOK(strm) /\ setup.decoder \in BOOLEAN
  BY SetupsAssumption DEF ConsInv, StreamInv
<1>1. Taken = TakenFrom(file)
  BY DEF Taken, TakenFrom
<1>2. SubSeq(file.buf, file.off + 1, Len(file.buf)) = SubSeq(setup.data, Taken + 1, file.pos)
  BY <1>0, <1>1, FileUnread
<1>3. setup.decoder => (got \o Unread) \o pend = Unpacked(setup, Taken)
  BY <1>0, <1>1, UnreadIs DEF Kept
<1>4. ~setup.decoder => got = Unpacked(setup, Taken)
  BY <1>0, <1>1 DEF Kept
<1>5. Len(file.buf) <= BUFSZ /\ Len(strm.buf) <= BUFSZ
  BY <1>0 DEF FileOK, StrmOK
<1> QED BY <1>0, <1>2, <1>3, <1>4, <1>5 DEF Conserved

\* istream_precache, istream_read, istream_skip, istream_get_line and process_data
\* lose, double and reorder no byte, and no buffer is overfull, for any BUFSZ, any
\* files and decoders and any sequence of requests.
THEOREM StreamConserved == Spec => []Conserved
<1>1. Spec => [](ConsInv \/ Failed)
  BY StreamInvariant
<1>2. ConsInv => Conserved
  BY ConsImplies
<1>3. Failed => Conserved
  BY DEF Failed, Conserved
<1> QED BY <1>1, <1>2, <1>3, PTL

-----------------------------------------------------------------------------
\* Why an empty buffer means the end.  The decoder keeps something to itself only
\* while there are tokens left; it reports the end with the last token; a round of
\* process_data that has made nothing has only seen tokens that unpack to nothing,
\* of a buffer that is full or ends with the file.
AtEnd == TakenFrom(file) = Len(setup.data)

PendMeansMore == setup.decoder /\ pend # <<>> => ~AtEnd
EndMeansAll   == setup.decoder /\ strm.eof => AtEnd /\ pc \notin {"wrapped", "process"}
FullOrAtEnd   == pc = "process" => file.pos = Len(setup.data) \/ Len(file.buf) = BUFSZ
NothingMade   == pc = "process" /\ op.made = 0 =>
                   \A j \in 1..file.off : setup.expand[file.buf[j]] = <<>>
EmptyMeansEnd == pc = "refilled" /\ Buf = <<>> => AtEnd
EofIsIdle     == result = "eof" => pc = "idle" /\ AtEnd /\ Unread = <<>>

EofInv == PendMeansMore /\ EndMeansAll /\ FullOrAtEnd /\ NothingMade /\ EmptyMeansEnd /\ EofIsIdle

AllFeed == \A s \in Setups : Feeds(s)

\* No end is reported at the start.
LEMMA EofInit == Init => EofInv
<1> SUFFICES ASSUME Init PROVE EofInv
  OBVIOUS
<1>1. pend = <<>> /\ strm.eof = FALSE /\ pc = "idle" /\ result = "ok"
  BY DEF Init
<1> QED BY <1>1 DEF EofInv, PendMeansMore, EndMeansAll, FullOrAtEnd, NothingMade, EmptyMeansEnd, EofIsIdle

\* The calls, and the steps that take bytes: no refill is going on before or after.
LEMMA EofOutside ==
  ASSUME ConsInv, EofInv, pc' \in {"idle", "copy", "precache"},
         setup' = setup, pend' = pend, result' # "eof",
         setup.decoder => file' = file /\ strm'.eof = strm.eof
  PROVE  EofInv'
<1>1. PendMeansMore'
  BY DEF EofInv, PendMeansMore, AtEnd
<1>2. EndMeansAll'
  BY DEF EofInv, EndMeansAll, AtEnd
<1> QED BY <1>1, <1>2 DEF EofInv, FullOrAtEnd, NothingMade, EmptyMeansEnd, EofIsIdle

\* The rounds of istream_read and istream_skip report no end.
LEMMA EofCopy == ASSUME ConsInv, EofInv, CopyRound PROVE EofInv'
<1> HIDE DEF Alphabet
<1>0. StreamInv /\ op.left \in Nat /\ pc = "copy" /\ setup' = setup /\ pend' = pend /\ result # "eof"
  BY DEF ConsInv, CallInv, OpType, CopyRound, EofInv, EofIsIdle
<1>1. Unread \in Seq(Alphabet) /\ Len(Unread) \in Nat
  BY <1>0, UnreadIs
<1>2. PICK n \in 0..Len(Unread) : n = (IF op.left < Len(Unread) THEN op.left ELSE Len(Unread))
  BY <1>0, <1>1
<1>3. CASE Return("ok") /\ UNCHANGED <<file, strm, got>>
  <2>1. pc' = "idle" /\ result' # "eof"
    BY <1>3 DEF Return
  <2> QED BY <1>0, <1>3, <2>1, EofOutside
<1>4. CASE pc' = "precache" /\ UNCHANGED <<file, strm, got, op, result>>
  BY <1>0, <1>4, EofOutside
<1>5. CASE Take(n) /\ UNCHANGED <<pc, result>>
  <2>1. setup.decoder => file' = file /\ strm'.eof = strm.eof
    BY <1>0, <1>5, TakeKeeps
  <2> QED BY <1>0, <1>5, <2>1, EofOutside
<1> QED BY <1>2, <1>3, <1>4, <1>5, Zenon DEF CopyRound

\* Nor does a line with something in it.
LEMMA EofLine == ASSUME ConsInv, EofInv, LineRound PROVE EofInv'
<1>1. StreamInv /\ setup' = setup /\ pend' = pend /\ result # "eof"
  BY DEF ConsInv, LineRound, EofInv, EofIsIdle
<1>2. setup.decoder => file' = file /\ strm'.eof = strm.eof
  <2>1. PICK i : Take(i)
    BY Zenon DEF LineRound
  <2>2. ASSUME setup.decoder PROVE file' = file /\ strm' = [strm EXCEPT !.off = @ + i]
    BY <2>1, <2>2 DEF Take
  <2>3. strm \in StrmType
    BY <1>1 DEF StreamInv, StrmOK
  <2> QED BY <2>2, <2>3 DEF StrmType
<1>3. pc' \in {"precache", "idle"} /\ result' # "eof"
  BY <1>1 DEF LineRound, Return
<1> QED BY <1>1, <1>2, <1>3, EofOutside

\* Without a decoder a refill that brings nothing has met the end of the file; with
\* one, istream_precache does nothing only after the decoder reported the end.
LEMMA EofPrecache == ASSUME ConsInv, EofInv, istream_precache PROVE EofInv'
<1> HIDE DEF Alphabet
<1>0. StreamInv /\ setup \in Setups /\ setup' = setup /\ pend' = pend /\ result' = result /\ result # "eof"
  BY DEF ConsInv, StreamInv, istream_precache, EofInv, EofIsIdle
<1>1. CASE setup.decoder
  <2>1. strm' = Compact(strm) /\ file' = file /\ pc' = IF strm.eof THEN "refilled" ELSE "wrapped"
    BY <1>1 DEF istream_precache
  <2>2. strm'.eof = strm.eof
    BY <1>0, <2>1, StrmCompact DEF StreamInv
  <2>3. PendMeansMore' /\ AtEnd' = AtEnd
    BY <1>0, <2>1 DEF EofInv, PendMeansMore, AtEnd
  <2>4. strm.eof => AtEnd
    BY <1>1 DEF EofInv, EndMeansAll
  <2>5. EndMeansAll'
    BY <1>0, <2>1, <2>2, <2>3, <2>4 DEF EndMeansAll
  <2>6. EmptyMeansEnd'
    BY <2>1, <2>3, <2>4 DEF EmptyMeansEnd
  <2> QED BY <1>0, <2>1, <2>3, <2>5, <2>6 DEF EofInv, FullOrAtEnd, NothingMade, EofIsIdle
<1>2. CASE ~setup.decoder
  <2>1. file' = file_precache(Compact(file)) /\ pc' = "refilled"
    BY <1>2 DEF istream_precache
  <2>2. FileOK(setup.data, file') /\ file'.off = 0 /\ (file'.pos = Len(setup.data) \/ Len(file'.buf) = BUFSZ)
    BY <1>0, <2>1, Refill DEF StreamInv
  <2>3. EmptyMeansEnd'
    <3> SUFFICES ASSUME file'.buf = <<>> PROVE TakenFrom(file') = Len(setup.data)
      BY <1>0, <1>2 DEF EmptyMeansEnd, Buf, AtEnd
    <3>1. Len(file'.buf) = 0 /\ file'.pos \in Nat
      BY <2>2 DEF FileOK, FileType
    <3>2. file'.pos = Len(setup.data)
      BY <2>2, <3>1, BUFSZAssumption
    <3> QED BY <2>2, <3>1, <3>2 DEF TakenFrom
  <2> QED BY <1>0, <1>2, <2>1, <2>3
      DEF EofInv, PendMeansMore, EndMeansAll, FullOrAtEnd, NothingMade, EofIsIdle
<1>3. setup.decoder \in BOOLEAN
  BY <1>0, SetupsAssumption
<1> QED BY <1>1, <1>2, <1>3

\* The refill of the wrapped stream fills the buffer or meets the end of the file.
LEMMA EofWrapped == ASSUME ConsInv, EofInv, PrecacheWrapped PROVE EofInv'
<1> HIDE DEF Alphabet
<1>0. /\ StreamInv /\ setup \in Setups /\ setup' = setup /\ strm' = strm /\ pend' = pend
      /\ pc' = "process" /\ pc = "wrapped" /\ setup.decoder /\ result' = result /\ result # "eof"
      /\ file' = file_precache(Compact(file))
  BY DEF ConsInv, CallInv, StreamInv, PrecacheWrapped, EofInv, EofIsIdle
<1>1. FileOK(setup.data, file') /\ TakenFrom(file') = TakenFrom(file) /\ file'.off = 0
      /\ (file'.pos = Len(setup.data) \/ Len(file'.buf) = BUFSZ)
  BY <1>0, Refill DEF StreamInv
<1>2. AtEnd' = AtEnd
  BY <1>0, <1>1 DEF AtEnd
<1>3. PendMeansMore' /\ EndMeansAll'
  BY <1>0, <1>2 DEF EofInv, PendMeansMore, EndMeansAll
<1>4. FullOrAtEnd' /\ NothingMade'
  BY <1>0, <1>1 DEF FullOrAtEnd, NothingMade
<1> QED BY <1>0, <1>3, <1>4 DEF EofInv, EmptyMeansEnd, EofIsIdle

\* A round of process_data that makes nothing has taken a token that unpacks to
\* nothing; after the last token nothing is pending.
LEMMA EofDecoder == ASSUME AllFeed, ConsInv, EofInv, DecoderCall PROVE EofInv'
<1> HIDE DEF Alphabet
<1>0. /\ StreamInv /\ setup \in Setups /\ FileOK(setup.data, file) /\ setup' = setup
      /\ pc = "process" /\ setup.decoder /\ result' = result /\ result # "eof" /\ op \in OpType
      /\ StrmOK(strm) /\ strm \in StrmType /\ pend \in Seq(Alphabet)
  BY DEF ConsInv, CallInv, StreamInv, StrmOK, DecoderCall, EofInv, EofIsIdle
<1>1. PICK T \in Nat, out \in Seq(Alphabet), n \in Nat, end \in BOOLEAN : Round(T, out, n, end)
  BY <1>0, DecoderFacts
<1>2. PICK N \in Nat : N = Len(setup.data)
  BY <1>0, SetupsAssumption
<1>3. PICK p \in Nat, b \in Seq(Alphabet), o \in Nat : file = [pos |-> p, buf |-> b, off |-> o]
  BY <1>0 DEF FileOK, FileType
<1>4. file.pos = p /\ file.buf = b /\ file.off = o
  BY <1>3
<1>5. PICK l \in Nat : l = Len(b) /\ o < l /\ T = p - (l - o) /\ p <= N
  <2>1. PICK l \in Nat : l = Len(b)
    OBVIOUS
  <2>2. T = p - (l - o)
    BY <1>1, <1>4, <2>1 DEF Round, TakenFrom
  <2>3. o < l /\ p <= N
    BY <1>0, <1>2, <1>4, <2>1 DEF DecoderCall, FileOK
  <2> QED BY <2>1, <2>2, <2>3
<1>6. N > 0 => setup.expand[setup.data[N]] = <<>>
  BY <1>0, <1>2 DEF AllFeed, Feeds
<1>7. ~strm.eof
  BY <1>0 DEF EofInv, EndMeansAll
<1>8. file'.pos = p /\ file'.buf = b
  BY <1>1, <1>3, <1>4 DEF Round
<1>9. pend = <<>> => file'.off = o + 1 /\ TakenFrom(file') = T + 1
  <2>1. ASSUME pend = <<>> PROVE file'.off = o + 1
    BY <1>1, <1>3, <2>1 DEF Round
  <2> QED BY <1>5, <1>8, <2>1 DEF TakenFrom
<1>10. pend # <<>> => file' = file /\ TakenFrom(file') = T /\ out = pend /\ T # N
  BY <1>0, <1>1, <1>2 DEF Round, EofInv, PendMeansMore, AtEnd
<1>11. PendMeansMore'
  <2> SUFFICES ASSUME pend' # <<>>, TakenFrom(file') = N PROVE FALSE
    BY <1>0, <1>2 DEF PendMeansMore, AtEnd
  <2>1. pend = <<>>
    BY <1>10
  <2>2. T + 1 = N /\ N > 0
    BY <1>9, <2>1
  <2>3. out = <<>>
    BY <1>1, <1>6, <2>1, <2>2 DEF Round
  <2>4. SubSeq(out, n + 1, Len(out)) = <<>>
    BY <2>3
  <2> QED BY <1>1, <2>4 DEF Round
<1>12. end => TakenFrom(file') = N
  <2> SUFFICES ASSUME end PROVE TakenFrom(file') = N
    OBVIOUS
  <2>1. pend = <<>> /\ p = N /\ o + 1 = l
    BY <1>1, <1>2, <1>4, <1>5 DEF Round
  <2> QED BY <1>5, <1>9, <2>1
<1>13. strm'.eof => end
  <2>1. strm' = [strm EXCEPT !.buf = @ \o SubSeq(out, 1, n), !.eof = @ \/ end]
    BY <1>1 DEF Round
  <2>2. strm'.eof = (strm.eof \/ end)
    BY <1>0, <2>1 DEF StrmType
  <2> QED BY <1>7, <2>2
<1>14. pc' = IF end THEN "refilled" ELSE "process"
  BY <1>1 DEF Round
<1>15. EndMeansAll' /\ EmptyMeansEnd'
  BY <1>0, <1>2, <1>12, <1>13, <1>14 DEF EndMeansAll, EmptyMeansEnd, AtEnd
<1>16. FullOrAtEnd'
  BY <1>0, <1>4, <1>8 DEF EofInv, FullOrAtEnd
<1>17. NothingMade'
  <2> SUFFICES ASSUME op'.made = 0, NEW j \in 1..file'.off
               PROVE  setup.expand[b[j]] = <<>>
    BY <1>0, <1>8 DEF NothingMade
  <2>1. op'.made = op.made + n /\ op.made \in Nat
    BY <1>0, <1>1 DEF Round, OpType
  <2>2. op.made = 0 /\ n = 0
    BY <2>1
  <2>3. \A i \in 1..o : setup.expand[b[i]] = <<>>
    BY <1>0, <1>4, <2>2 DEF EofInv, NothingMade
  <2>4. out = <<>>
    BY <1>1, <2>2 DEF Round
  <2>5. pend = <<>> /\ setup.expand[b[o + 1]] = <<>>
    BY <1>1, <1>4, <1>10, <2>4 DEF Round
  <2>6. j \in 1..(o + 1)
    BY <1>9, <2>5
  <2>7. j \in 1..o \/ j = o + 1
    BY <2>6
  <2> QED BY <2>3, <2>5, <2>7
<1> QED BY <1>0, <1>11, <1>15, <1>16, <1>17 DEF EofInv, EofIsIdle

\* process_data stops: if nothing at all was unpacked, the file has ended.
LEMMA EofDone == ASSUME AllFeed, ConsInv, EofInv, ProcessDone PROVE EofInv'
<1> HIDE DEF Alphabet
<1>0. /\ StreamInv /\ setup \in Setups /\ FileOK(setup.data, file) /\ StrmOK(strm) /\ setup' = setup
      /\ pc = "process" /\ setup.decoder /\ result' = result /\ result # "eof" /\ op \in OpType
      /\ UNCHANGED <<setup, file, pend, strm, op>>
  BY DEF ConsInv, CallInv, StreamInv, ProcessDone, EofInv, EofIsIdle
<1>1. PendMeansMore' /\ AtEnd' = AtEnd /\ Buf' = Buf
  BY <1>0 DEF EofInv, PendMeansMore, AtEnd, Buf
<1>2. ~strm.eof
  BY <1>0 DEF EofInv, EndMeansAll
<1>3. EndMeansAll'
  BY <1>0, <1>2 DEF EndMeansAll
<1>4. pc' \in {"refilled", "wrapped"}
  BY DEF ProcessDone
<1>5. ASSUME pc' = "refilled", Buf = <<>> PROVE AtEnd
  <2>1. strm.buf = <<>> /\ Len(strm.buf) = 0
    BY <1>0, <1>5 DEF Buf
  <2>2. file.off = Len(file.buf) /\ op.made = 0
    BY <1>5, <2>1, BUFSZAssumption DEF ProcessDone
  <2>3. PICK p \in Nat, l \in Nat, N \in Nat : p = file.pos /\ l = Len(file.buf) /\ N = Len(setup.data)
    BY <1>0, SetupsAssumption DEF FileOK, FileType
  <2>4. TakenFrom(file) = p /\ l <= p /\ p <= N
    BY <1>0, <2>2, <2>3 DEF TakenFrom, FileOK
  <2>5. CASE p = N
    BY <2>3, <2>4, <2>5 DEF AtEnd
  <2>6. CASE p # N
    <3>1. l = BUFSZ
      BY <1>0, <2>3, <2>6 DEF EofInv, FullOrAtEnd
    <3>2. PICK i \in Nat : i = p - l
      BY <2>4
    <3>3. i \in 0..(N - 1 - BUFSZ)
      BY <2>4, <2>6, <3>1, <3>2
    <3>4. PICK j \in (i + 1)..(i + BUFSZ) : setup.expand[setup.data[j]] # <<>>
      BY <1>0, <2>3, <3>3 DEF AllFeed, Feeds
    <3>5. PICK k \in 1..l : j = i + k
      <4>1. j - i \in 1..l /\ j = i + (j - i)
        BY <3>1
      <4> QED BY <4>1
    <3>6. file.buf[k] = setup.data[j]
      <4>1. file.buf[k] = setup.data[p - l + k]
        BY <1>0, <2>3, FileUnread
      <4> QED BY <3>2, <3>5, <4>1
    <3>7. setup.expand[file.buf[k]] = <<>>
      BY <1>0, <2>2, <2>3 DEF EofInv, NothingMade
    <3> QED BY <3>4, <3>6, <3>7
  <2> QED BY <2>5, <2>6
<1>6. EmptyMeansEnd'
  BY <1>1, <1>5 DEF EmptyMeansEnd
<1> QED BY <1>0, <1>1, <1>3, <1>4, <1>6 DEF EofInv, FullOrAtEnd, NothingMade, EofIsIdle

\* The calls, the ends of the calls and the failures of read(2).
LEMMA EofReaders ==
  ASSUME ConsInv, EofInv,
         \/ \E n \in Sizes : Call("read", n) \/ Call("skip", n)
         \/ Call("line", 0)
         \/ AfterRefill \/ LineAtEnd \/ ReadError
  PROVE  EofInv'
<1>0. StreamInv /\ UNCHANGED <<setup, file, pend, strm, got>>
  BY DEF ConsInv, Call, AfterRefill, LineAtEnd, ReadError
<1>1. pc' \in {"idle", "copy", "precache"}
  BY DEF Call, AfterRefill, LineAtEnd, ReadError, Return
<1>2. CASE result' # "eof"
  BY <1>0, <1>1, <1>2, EofOutside
<1>3. CASE result' = "eof"
  <2>1. pc = "refilled" /\ Buf = <<>> /\ pc' = "idle"
    BY <1>3 DEF Call, AfterRefill, LineAtEnd, ReadError, Return, EofInv, EofIsIdle
  <2>2. AtEnd /\ AtEnd'
    BY <1>0, <2>1 DEF EofInv, EmptyMeansEnd, AtEnd
  <2>3. Unread' = <<>>
    <3>1. Unread \in Seq(Alphabet) /\ Off = 0 /\ Len(Buf) = 0 /\ Len(Unread) = Len(Buf) - Off
      BY <1>0, <2>1, UnreadIs DEF ConsInv, CallInv
    <3>2. Unread = <<>>
      BY <3>1, EmptySeq
    <3> QED BY <1>0, <3>2 DEF Unread, Buf, Off
  <2>4. EndMeansAll' /\ PendMeansMore'
    BY <1>0, <2>1, <2>2 DEF EofInv, EndMeansAll, PendMeansMore
  <2> QED BY <2>1, <2>2, <2>3, <2>4 DEF EofInv, FullOrAtEnd, NothingMade, EmptyMeansEnd, EofIsIdle
<1> QED BY <1>2, <1>3

\* One step per action of the specification.
LEMMA EofStep == AllFeed => (ConsInv /\ EofInv /\ [Next]_vars /\ ~DecoderFails => EofInv')
<1> SUFFICES ASSUME AllFeed, ConsInv, EofInv, [Next]_vars, ~DecoderFails PROVE EofInv'
  OBVIOUS
<1>1. CASE CopyRound
  BY <1>1, EofCopy
<1>2. CASE istream_precache
  BY <1>2, EofPrecache
<1>3. CASE PrecacheWrapped
  BY <1>3, EofWrapped
<1>4. CASE DecoderCall
  BY <1>4, EofDecoder
<1>5. CASE LineRound
  BY <1>5, EofLine
<1>6. CASE ProcessDone
  BY <1>6, EofDone
<1>7. CASE \/ \E n \in Sizes : Call("read", n) \/ Call("skip", n)
           \/ Call("line", 0)
           \/ AfterRefill \/ LineAtEnd \/ ReadError
  BY <1>7, EofReaders
<1>8. CASE UNCHANGED vars \/ DecoderStuck
  BY <1>8 DEF DecoderStuck, vars, EofInv, PendMeansMore, EndMeansAll, FullOrAtEnd, NothingMade,
              EmptyMeansEnd, EofIsIdle, AtEnd, Unread, Buf, Off
<1> QED BY <1>1, <1>2, <1>3, <1>4, <1>5, <1>6, <1>7, <1>8 DEF Next, Work

\* At the end of the tokens, with nothing unread and nothing pending, all of the
\* content was handed out.
LEMMA AtEndHasAll == ASSUME ConsInv, EofInv, AtEnd, Unread = <<>> PROVE got = Content
<1> HIDE DEF Alphabet
<1>1. StreamInv /\ got \in Seq(Alphabet) /\ setup.decoder \in BOOLEAN
  BY SetupsAssumption DEF ConsInv, StreamInv
<1>2. CASE setup.decoder
  <2>1. pend = <<>> /\ Rest(strm) = <<>>
    BY <1>1, <1>2, UnreadIs DEF EofInv, PendMeansMore
  <2>2. (got \o <<>>) \o <<>> = got
    BY <1>1, ConcatEmptySeq
  <2> QED BY <1>1, <1>2, <2>1, <2>2 DEF StreamInv, Kept, AtEnd, Content
<1>3. CASE ~setup.decoder
  BY <1>1, <1>3 DEF StreamInv, Kept, AtEnd, Content
<1> QED BY <1>1, <1>2, <1>3

\* That is the case when an end is reported.
LEMMA EofImplies == ConsInv /\ EofInv => EofMeansAll
<1> SUFFICES ASSUME ConsInv, EofInv, result = "eof" PROVE got = Content
  BY DEF EofMeansAll
<1>1. AtEnd /\ Unread = <<>>
  BY DEF EofInv, EofIsIdle
<1> QED BY <1>1, AtEndHasAll

\* With files that the decoder can unpack at least something of in every full
\* buffer, and whose last token unpacks to nothing, an end of file reported by
\* istream_read or istream_get_line means that the caller has all of the content.
THEOREM StreamEofMeansAll == AllFeed => (Spec => []EofMeansAll)
<1> SUFFICES ASSUME AllFeed PROVE Spec => []EofMeansAll
  OBVIOUS
<1>1. Init => ConsInv /\ EofInv
  BY ConsInit, EofInit
<1>2. ConsInv /\ EofInv /\ [Next]_vars => (ConsInv /\ EofInv)' \/ Failed'
  BY ConsStep, EofStep, DecoderFailsFails
<1>3. Failed /\ [Next]_vars => Failed'
  BY FailedStays DEF vars, Failed
<1>4. ConsInv /\ EofInv => EofMeansAll
  BY EofImplies
<1>5. Failed => EofMeansAll
  BY DEF Failed, EofMeansAll
<1> QED BY <1>1, <1>2, <1>3, <1>4, <1>5, PTL DEF Spec

-----------------------------------------------------------------------------
(***************************************************************************)
(* Lines.  istream_get_line sees the content in pieces, one refill at a    *)
(* time; SplitUpTo goes over all of it byte by byte.  The invariant says   *)
(* that both are at the same place: the lines returned and the line so far *)
(* are what the bytes handed out split into.                               *)
(***************************************************************************)
\* s is how t starts.
Starts(s, t) == Len(s) <= Len(t) /\ \A j \in 1..Len(s) : s[j] = t[j]

\* For sequences that is IsPrefix.
LEMMA StartsIsPrefix ==
  ASSUME NEW A, NEW s \in Seq(A), NEW t \in Seq(A), Starts(s, t)
  PROVE  IsPrefix(s, t)
<1>1. PICK n \in Nat, m \in Nat : n = Len(s) /\ m = Len(t) /\ n <= m
  BY DEF Starts
<1>2. SubSeq(s, 1, n) \in Seq(A) /\ Len(SubSeq(s, 1, n)) = n /\ \A j \in 1..n : SubSeq(s, 1, n)[j] = s[j]
  BY <1>1
<1>3. SubSeq(t, 1, n) \in Seq(A) /\ Len(SubSeq(t, 1, n)) = n /\ \A j \in 1..n : SubSeq(t, 1, n)[j] = t[j]
  BY <1>1
<1>4. SubSeq(s, 1, n) = SubSeq(t, 1, n)
  BY <1>1, <1>2, <1>3, SeqEqual DEF Starts
<1> QED BY <1>1, <1>4 DEF IsPrefix

\* A sequence starts with itself, and what is put behind it does not matter.
LEMMA StartsMore ==
  ASSUME NEW A, NEW r \in Seq(A), NEW s \in Seq(A), Starts(r, s), NEW e \in A
  PROVE  Starts(s, s) /\ Starts(r, Append(s, e)) /\ Append(s, e) \in Seq(A)
  BY DEF Starts

\* Trimming keeps the alphabet, and takes away a space at the end in any case.
LEMMA TrimFacts ==
  ASSUME NEW A, NEW asked \in BOOLEAN, NEW s \in Seq(A)
  PROVE  /\ trim(asked, s) \in Seq(A)
         /\ s = <<>> => trim(asked, s) = <<>>
         /\ ~asked => trim(asked, s) = s
         /\ asked /\ s # <<>> /\ s[Len(s)] \in Space => trim(asked, Front(s)) = trim(asked, s)
<1> DEFINE keep(x) == {i \in 1 .. Len(x) : x[i] \notin Space}
           lo(K) == CHOOSE i \in K : \A j \in K : i <= j
           hi(K) == CHOOSE i \in K : \A j \in K : i >= j
<1>0. PICK m \in Nat : m = Len(s)
  OBVIOUS
<1>1. ASSUME NEW x, asked
      PROVE  trim(asked, x) = IF keep(x) = {} THEN <<>> ELSE SubSeq(x, lo(keep(x)), hi(keep(x)))
  BY <1>1 DEF trim
<1>2. ASSUME NEW K, K \subseteq 1..m, K # {} PROVE lo(K) \in K /\ hi(K) \in K
  <2>1. K \subseteq Nat /\ K \subseteq 0..m
    BY <1>2
  <2>2. \E i \in K : \A j \in K : i <= j
    BY <1>2, <2>1, NatLeast
  <2>3. \E i \in K : \A j \in K : j <= i
    BY <1>2, <2>1, NatGreatest
  <2>4. \E i \in K : \A j \in K : i >= j
    BY <2>1, <2>3
  <2> QED BY <2>2, <2>4
<1>3. ~asked => trim(asked, s) = s
  BY DEF trim
<1>4. keep(s) \subseteq 1..m
  BY <1>0
<1> HIDE DEF lo, hi
<1>5. asked => trim(asked, s) \in Seq(A)
  <2> SUFFICES ASSUME asked PROVE trim(asked, s) \in Seq(A)
    OBVIOUS
  <2>1. CASE keep(s) = {}
    <3>1. trim(asked, s) = <<>>
      BY <1>1, <2>1
    <3>2. <<>> \in Seq(A)
      OBVIOUS
    <3> QED BY <3>1, <3>2, Zenon
  <2>2. CASE keep(s) # {}
    <3>1. PICK a \in 1..m, b \in 1..m : a = lo(keep(s)) /\ b = hi(keep(s))
      BY <1>2, <1>4, <2>2
    <3>2. SubSeq(s, a, b) \in Seq(A)
      BY <1>0
    <3>3. trim(asked, s) = SubSeq(s, a, b)
      BY <1>1, <2>2, <3>1
    <3> QED BY <3>2, <3>3
  <2> QED BY <2>1, <2>2
<1>6. s = <<>> => trim(asked, s) = <<>>
  <2> SUFFICES ASSUME s = <<>> PROVE trim(asked, s) = <<>>
    OBVIOUS
  <2>1. keep(s) = {}
    OBVIOUS
  <2> QED BY <1>1, <1>3, <2>1
<1>7. ASSUME asked, s # <<>>, s[m] \in Space PROVE trim(asked, Front(s)) = trim(asked, s)
  <2>1. m > 0
    BY <1>0, <1>7, EmptySeq
  <2>2. PICK f : f = Front(s)
    OBVIOUS
  <2>3. f \in Seq(A) /\ Len(f) = m - 1 /\ \A j \in 1..(m - 1) : f[j] = s[j]
    BY <1>0, <2>1, <2>2 DEF Front
  <2>4. keep(f) = keep(s)
    <3>1. \A j \in 1..m : j \in 1..(m - 1) \/ j = m
      OBVIOUS
    <3>2. \A j \in 1..(m - 1) : j \in 1..m
      OBVIOUS
    <3> QED BY <1>0, <1>7, <2>3, <3>1, <3>2
  <2>5. CASE keep(s) = {}
    BY <1>1, <1>7, <2>2, <2>4, <2>5
  <2>6. CASE keep(s) # {}
    <3>1. keep(s) \subseteq 1..(m - 1)
      BY <2>3, <2>4
    <3>2. PICK a \in 1..(m - 1), b \in 1..(m - 1) : a = lo(keep(s)) /\ b = hi(keep(s))
      BY <1>2, <1>4, <2>6, <3>1
    <3>3. SubSeq(f, a, b) = SubSeq(s, a, b)
      BY <1>0, <2>3
    <3> QED BY <1>1, <1>7, <2>2, <2>4, <2>6, <3>2, <3>3
  <2> QED BY <2>5, <2>6
<1> QED BY <1>0, <1>3, <1>5, <1>6, <1>7

\* A line put behind the others: nothing in front of it changes.
LEMMA PutLineFacts ==
  ASSUME NEW A, NEW s, s.trim \in BOOLEAN, NEW ls \in Seq(Seq(A)), NEW part \in Seq(A), NEW lf \in BOOLEAN
  PROVE  /\ PutLine(s, ls, part, lf) \in Seq(Seq(A))
         /\ Starts(ls, PutLine(s, ls, part, lf))
<1> DEFINE bare == IF lf /\ part # <<>> /\ part[Len(part)] = "CR" THEN Front(part) ELSE part
           text == trim(s.trim, bare)
<1>1. bare \in Seq(A)
  <2>1. part # <<>> => Front(part) \in Seq(A)
    <3> SUFFICES ASSUME part # <<>> PROVE SubSeq(part, 1, Len(part) - 1) \in Seq(A)
      BY DEF Front
    <3>1. Len(part) \in Nat \ {0}
      BY EmptySeq
    <3> QED BY <3>1
  <2> QED BY <2>1
<1> HIDE DEF bare
<1>2. text \in Seq(A)
  BY <1>1, TrimFacts
<1>3. PutLine(s, ls, part, lf) = IF text = <<>> /\ (s.trim \/ ~lf) THEN ls ELSE Append(ls, text)
  BY DEF PutLine, bare
<1> HIDE DEF text
<1>4. Starts(ls, ls)
  BY DEF Starts
<1>5. Append(ls, text) \in Seq(Seq(A)) /\ Starts(ls, Append(ls, text))
  BY <1>2, <1>4, StartsMore, SMTT(30)
<1> QED BY <1>3, <1>4, <1>5

Text(s) == Unpacked(s, Len(s.data))

Splittable(s, A) == s.trim \in BOOLEAN /\ Text(s) \in Seq(A)

\* What SplitUpTo gives, byte by byte.
LEMMA SplitFacts ==
  ASSUME NEW s, NEW A, Splittable(s, A)
  PROVE  /\ SplitUpTo(s, 0) = <<<<>>, <<>>>>
         /\ \A n \in 0..Len(Text(s)) : SplitUpTo(s, n) \in Seq(Seq(A)) \X Seq(A)
         /\ \A n \in 1..Len(Text(s)) :
              SplitUpTo(s, n) =
                IF Text(s)[n] = "LF"
                THEN <<PutLine(s, SplitUpTo(s, n - 1)[1], SplitUpTo(s, n - 1)[2], TRUE), <<>>>>
                ELSE <<SplitUpTo(s, n - 1)[1], Append(SplitUpTo(s, n - 1)[2], Text(s)[n])>>
<1>0. PICK c \in Seq(A), m \in Nat : c = Text(s) /\ m = Len(c)
  BY DEF Splittable
<1> DEFINE S == Seq(Seq(A)) \X Seq(A)
           Turn(k, x) == IF c[k] = "LF" THEN <<PutLine(s, x[1], x[2], TRUE), <<>>>>
                         ELSE <<x[1], Append(x[2], c[k])>>
           G == [t \in (1..m) \X S |-> Turn(t[1], t[2])]
           Eq(u) == u = [k \in 0..m |-> IF k = 0 THEN <<<<>>, <<>>>> ELSE Turn(k, u[k - 1])]
<1>1. ASSUME NEW j \in 1..m, NEW x \in S PROVE Turn(j, x) \in S
  <2>1. x[1] \in Seq(Seq(A)) /\ x[2] \in Seq(A) /\ c[j] \in A
    BY <1>0
  <2>2. PutLine(s, x[1], x[2], TRUE) \in Seq(Seq(A)) /\ <<>> \in Seq(A)
    <3>1. PutLine(s, x[1], x[2], TRUE) \in Seq(Seq(A))
      <4>1. PICK y \in Seq(Seq(A)), z \in Seq(A), b \in BOOLEAN : y = x[1] /\ z = x[2] /\ b = TRUE
        BY <2>1
      <4>2. PutLine(s, y, z, b) \in Seq(Seq(A))
        BY PutLineFacts DEF Splittable
      <4> QED BY <4>1, <4>2, Zenon
    <3>2. <<>> \in Seq(A)
      OBVIOUS
    <3> QED BY <3>1, <3>2
  <2>3. Append(x[2], c[j]) \in Seq(A)
    BY <2>1
  <2>4. <<PutLine(s, x[1], x[2], TRUE), <<>>>> \in S
    BY <2>2
  <2>5. <<x[1], Append(x[2], c[j])>> \in S
    BY <2>1, <2>3
  <2> QED BY <2>4, <2>5, Zenon
<1>2. <<<<>>, <<>>>> \in S
  <2>1. <<>> \in Seq(A)
    OBVIOUS
  <2>2. <<>> \in Seq(Seq(A))
    OBVIOUS
  <2>3. \A y \in Seq(Seq(A)), z \in Seq(A) : <<y, z>> \in S
    OBVIOUS
  <2> QED BY <2>1, <2>2, <2>3, Zenon
<1>3. ASSUME NEW j \in 1..m, NEW x \in S PROVE G[<<j, x>>] = Turn(j, x) /\ G[<<j, x>>] \in S
  <2>1. <<j, x>> \in (1..m) \X S /\ <<j, x>>[1] = j /\ <<j, x>>[2] = x
    OBVIOUS
  <2> HIDE DEF S, Turn
  <2>2. G[<<j, x>>] = Turn(j, x)
    BY <2>1
  <2> QED BY <1>1, <2>2
<1> HIDE DEF G, S, Turn
<1>4. PICK f : Loop(f, m, <<<<>>, <<>>>>, G) /\ \A j \in 0..m : f[j] \in S
  BY <1>2, <1>3, LoopExists
<1>5. Eq(f)
  <2>1. ASSUME NEW j \in 0..m
        PROVE  (IF j = 0 THEN <<<<>>, <<>>>> ELSE G[<<j, f[j - 1]>>])
                 = IF j = 0 THEN <<<<>>, <<>>>> ELSE Turn(j, f[j - 1])
    <3>1. j # 0 => j \in 1..m /\ f[j - 1] \in S
      BY <1>4
    <3> QED BY <1>3, <3>1
  <2> QED BY <1>4, <2>1 DEF Loop
<1>6. PICK u : Eq(u) /\ \A n : SplitUpTo(s, n) = u[n]
  <2>1. \A n : SplitUpTo(s, n) = (CHOOSE u : Eq(u))[n]
    BY <1>0 DEF SplitUpTo, Text, Turn
  <2>2. Eq(CHOOSE u : Eq(u))
    BY <1>5
  <2> QED BY <2>1, <2>2
<1>7. u[0] = <<<<>>, <<>>>> /\ \A n \in 1..m : u[n] = Turn(n, u[n - 1])
  <2>1. 0 \in 0..m /\ \A n \in 1..m : n \in 0..m /\ n # 0
    OBVIOUS
  <2>2. \A n \in 0..m : u[n] = IF n = 0 THEN <<<<>>, <<>>>> ELSE Turn(n, u[n - 1])
    BY <1>6
  <2>3. u[0] = <<<<>>, <<>>>>
    BY <2>1, <2>2
  <2>4. ASSUME NEW n \in 1..m PROVE u[n] = Turn(n, u[n - 1])
    BY <2>1, <2>2
  <2> QED BY <2>3, <2>4
<1> DEFINE M == { n \in Nat : n <= m => u[n] \in S }
<1>8. 0 \in M
  BY <1>2, <1>7
<1>9. ASSUME NEW n \in Nat, n \in M PROVE n + 1 \in M
  <2> SUFFICES ASSUME n + 1 <= m PROVE u[n + 1] \in S
    OBVIOUS
  <2>1. u[n] \in S /\ n + 1 \in 1..m /\ (n + 1) - 1 = n
    BY <1>9
  <2>2. u[n + 1] = Turn(n + 1, u[n])
    BY <1>7, <2>1
  <2> QED BY <1>1, <2>1, <2>2
<1> HIDE DEF M
<1>10. \A n \in Nat : n \in M
  BY <1>8, <1>9, SetInduction
<1>11. \A n \in 0..m : u[n] \in S
  BY <1>10 DEF M
<1>12. \A n \in 1..m : SplitUpTo(s, n) = Turn(n, SplitUpTo(s, n - 1))
  BY <1>6, <1>7
<1> QED BY <1>0, <1>6, <1>7, <1>11, <1>12 DEF S, Turn

\* The lines found in the first n bytes, and the line so far.
Found(s, n) == SplitUpTo(s, n)[1]
SoFar(s, n) == SplitUpTo(s, n)[2]

\* They are a sequence of texts and a text.
LEMMA SplitType ==
  ASSUME NEW s, NEW A, Splittable(s, A), NEW n \in 0..Len(Text(s))
  PROVE  Found(s, n) \in Seq(Seq(A)) /\ SoFar(s, n) \in Seq(A)
<1>1. \A k \in 0..Len(Text(s)) : SplitUpTo(s, k) \in Seq(Seq(A)) \X Seq(A)
  BY SplitFacts, Zenon
<1>2. SplitUpTo(s, n) \in Seq(Seq(A)) \X Seq(A)
  BY <1>1
<1> QED BY <1>2 DEF Found, SoFar

\* What one byte more makes of them.
LEMMA SplitNext ==
  ASSUME NEW s, NEW A, Splittable(s, A), NEW n \in Nat, n + 1 <= Len(Text(s))
  PROVE  /\ Text(s)[n + 1] = "LF" =>
              Found(s, n + 1) = PutLine(s, Found(s, n), SoFar(s, n), TRUE) /\ SoFar(s, n + 1) = <<>>
         /\ Text(s)[n + 1] # "LF" =>
              Found(s, n + 1) = Found(s, n) /\ SoFar(s, n + 1) = Append(SoFar(s, n), Text(s)[n + 1])
<1> DEFINE Step(k) == SplitUpTo(s, k) =
                IF Text(s)[k] = "LF"
                THEN <<PutLine(s, SplitUpTo(s, k - 1)[1], SplitUpTo(s, k - 1)[2], TRUE), <<>>>>
                ELSE <<SplitUpTo(s, k - 1)[1], Append(SplitUpTo(s, k - 1)[2], Text(s)[k])>>
<1>1. \A k \in 1..Len(Text(s)) : Step(k)
  BY SplitFacts, Zenon
<1> HIDE DEF Step
<1>2. PICK k \in 1..Len(Text(s)) : k = n + 1 /\ k - 1 = n
  OBVIOUS
<1>3. Step(k)
  BY <1>1
<1>4. Text(s)[k] = "LF" =>
        SplitUpTo(s, k) = <<PutLine(s, SplitUpTo(s, n)[1], SplitUpTo(s, n)[2], TRUE), <<>>>>
  BY <1>2, <1>3, Zenon DEF Step
<1>5. Text(s)[k] # "LF" =>
        SplitUpTo(s, k) = <<SplitUpTo(s, n)[1], Append(SplitUpTo(s, n)[2], Text(s)[k])>>
  BY <1>2, <1>3, Zenon DEF Step
<1>6. \A x, y : <<x, y>>[1] = x /\ <<x, y>>[2] = y
  OBVIOUS
<1>7. Text(s)[k] = "LF" =>
        Found(s, k) = PutLine(s, Found(s, n), SoFar(s, n), TRUE) /\ SoFar(s, k) = <<>>
  BY <1>4, <1>6, Zenon DEF Found, SoFar
<1>8. Text(s)[k] # "LF" =>
        Found(s, k) = Found(s, n) /\ SoFar(s, k) = Append(SoFar(s, n), Text(s)[k])
  <2>1. PICK x, y : x = SplitUpTo(s, n)[1] /\ y = Append(SplitUpTo(s, n)[2], Text(s)[k])
    OBVIOUS
  <2>2. Text(s)[k] # "LF" => SplitUpTo(s, k) = <<x, y>>
    BY <1>5, <2>1
  <2>3. Text(s)[k] # "LF" => SplitUpTo(s, k)[1] = x /\ SplitUpTo(s, k)[2] = y
    BY <1>6, <2>2
  <2> QED BY <2>1, <2>3 DEF Found, SoFar
<1> QED BY <1>2, <1>7, <1>8, Zenon

\* A line that was found stays where it is.
LEMMA SplitGrows ==
  ASSUME NEW s, NEW A, Splittable(s, A), NEW n \in 0..Len(Text(s))
  PROVE  Starts(Found(s, n), Found(s, Len(Text(s))))
<1>0. PICK m \in Nat : m = Len(Text(s))
  BY DEF Splittable
<1> DEFINE M == { d \in Nat : n + d <= m => Starts(Found(s, n), Found(s, n + d)) }
<1>1. ASSUME NEW k \in Nat, k + 1 <= m PROVE Starts(Found(s, k), Found(s, k + 1))
  <2>1. PICK ls \in Seq(Seq(A)), pt \in Seq(A), b \in BOOLEAN :
          ls = Found(s, k) /\ pt = SoFar(s, k) /\ b = TRUE
    <3>1. k \in 0..Len(Text(s))
      BY <1>0, <1>1
    <3> QED BY <3>1, SplitType
  <2>2. Starts(ls, PutLine(s, ls, pt, b)) /\ Starts(ls, ls)
    <3>1. Starts(ls, PutLine(s, ls, pt, b))
      BY PutLineFacts DEF Splittable
    <3> QED BY <3>1 DEF Starts
  <2>3. Found(s, k + 1) = PutLine(s, ls, pt, b) \/ Found(s, k + 1) = ls
    BY <1>0, <1>1, <2>1, SplitNext
  <2> QED BY <2>1, <2>2, <2>3, Zenon
<1>2. 0 \in M
  <2>1. Found(s, n) \in Seq(Seq(A)) /\ n + 0 = n
    BY SplitType
  <2>2. Starts(Found(s, n), Found(s, n))
    BY <2>1 DEF Starts
  <2> QED BY <2>1, <2>2
<1>3. ASSUME NEW d \in Nat, d \in M PROVE d + 1 \in M
  <2> SUFFICES ASSUME n + (d + 1) <= m PROVE Starts(Found(s, n), Found(s, n + (d + 1)))
    OBVIOUS
  <2>1. PICK k \in Nat : k = n + d /\ k + 1 = n + (d + 1) /\ k + 1 <= m
    BY <1>0
  <2>2. Starts(Found(s, n), Found(s, k)) /\ Starts(Found(s, k), Found(s, k + 1))
    BY <1>1, <1>3, <2>1
  <2>3. PICK x \in Seq(Seq(A)), y \in Seq(Seq(A)), z \in Seq(Seq(A)) :
          x = Found(s, n) /\ y = Found(s, k) /\ z = Found(s, k + 1)
    <3>1. k \in 0..Len(Text(s)) /\ k + 1 \in 0..Len(Text(s))
      BY <1>0, <2>1
    <3> QED BY <3>1, SplitType
  <2>4. Starts(x, y) /\ Starts(y, z) => Starts(x, z)
    BY DEF Starts
  <2> QED BY <2>1, <2>2, <2>3, <2>4
<1> HIDE DEF M
<1>5. \A d \in Nat : d \in M
  BY <1>2, <1>3, SetInduction
<1>6. PICK d \in Nat : n + d = m
  <2>1. m - n \in Nat /\ n + (m - n) = m
    BY <1>0
  <2> QED BY <2>1
<1>7. d \in M
  BY <1>5
<1> QED BY <1>0, <1>6, <1>7 DEF M

\* Bytes that are no line feeds only make the line longer.
LEMMA SplitRun ==
  ASSUME NEW s, NEW A, Splittable(s, A),
         NEW n \in Nat, NEW k \in Nat, n + k <= Len(Text(s)),
         \A j \in 1..k : Text(s)[n + j] # "LF"
  PROVE  /\ Found(s, n + k) = Found(s, n)
         /\ SoFar(s, n + k) = SoFar(s, n) \o SubSeq(Text(s), n + 1, n + k)
<1>0. PICK c \in Seq(A), m \in Nat : c = Text(s) /\ m = Len(c)
  BY DEF Splittable
<1>1. PICK pt \in Seq(A) : SoFar(s, n) = pt
  <2>1. n \in 0..Len(Text(s))
    BY <1>0
  <2> QED BY <2>1, SplitType
<1> DEFINE Good(d) == Found(s, n + d) = Found(s, n) /\ SoFar(s, n + d) = pt \o SubSeq(c, n + 1, n + d)
           M == { d \in Nat : d <= k => Good(d) }
<1>2. 0 \in M
  <2>1. SubSeq(c, n + 1, n + 0) = <<>> /\ n + 0 = n
    BY <1>0
  <2>2. pt \o <<>> = pt
    BY ConcatEmptySeq
  <2> QED BY <1>1, <2>1, <2>2
<1> HIDE DEF Good
<1>3. ASSUME NEW d \in Nat, d \in M PROVE d + 1 \in M
  <2> SUFFICES ASSUME d + 1 <= k PROVE Good(d + 1)
    OBVIOUS
  <2>1. PICK e \in Nat : e = n + d /\ e + 1 = n + (d + 1) /\ e + 1 <= m
    BY <1>0
  <2>2. PICK y \in Seq(A) : y = SubSeq(c, n + 1, e)
    <3>1. SubSeq(c, n + 1, e) \in Seq(A)
      BY <1>0, <2>1
    <3> QED BY <3>1
  <2>3. Found(s, e) = Found(s, n) /\ SoFar(s, e) = pt \o y
    <3>1. d <= k => Good(d)
      BY <1>3
    <3>2. d <= k
      OBVIOUS
    <3>3. Good(d)
      BY <3>1, <3>2
    <3> QED BY <2>1, <2>2, <3>3 DEF Good
  <2>4. c[e + 1] # "LF" /\ c[e + 1] \in A
    BY <1>0, <2>1
  <2>5. Found(s, e + 1) = Found(s, n) /\ SoFar(s, e + 1) = Append(pt \o y, c[e + 1])
    <3>1. e + 1 <= Len(Text(s)) /\ Text(s)[e + 1] # "LF" /\ Text(s)[e + 1] = c[e + 1]
      BY <1>0, <2>1, <2>4
    <3>2. Found(s, e + 1) = Found(s, e) /\ SoFar(s, e + 1) = Append(SoFar(s, e), Text(s)[e + 1])
      BY <3>1, SplitNext
    <3> QED BY <2>3, <3>1, <3>2
  <2>6. SubSeq(c, n + 1, e + 1) = Append(y, c[e + 1])
    <3>1. Len(y) = d /\ \A j \in 1..d : y[j] = c[n + j]
      BY <1>0, <2>1, <2>2
    <3>2. /\ Append(y, c[e + 1]) \in Seq(A) /\ Len(Append(y, c[e + 1])) = d + 1
          /\ \A j \in 1..(d + 1) : Append(y, c[e + 1])[j] = IF j = d + 1 THEN c[e + 1] ELSE y[j]
      BY <2>4, <3>1
    <3>3. /\ SubSeq(c, n + 1, e + 1) \in Seq(A) /\ Len(SubSeq(c, n + 1, e + 1)) = d + 1
          /\ \A j \in 1..(d + 1) : SubSeq(c, n + 1, e + 1)[j] = c[n + j]
      BY <1>0, <2>1
    <3>4. ASSUME NEW j \in 1..(d + 1) PROVE Append(y, c[e + 1])[j] = SubSeq(c, n + 1, e + 1)[j]
      <4>1. j = d + 1 \/ j \in 1..d
        OBVIOUS
      <4>2. n + (d + 1) = e + 1
        BY <2>1
      <4> QED BY <3>1, <3>2, <3>3, <4>1, <4>2
    <3>5. PICK p \in Seq(A), q \in Seq(A) : p = Append(y, c[e + 1]) /\ q = SubSeq(c, n + 1, e + 1)
      BY <3>2, <3>3
    <3>6. Len(p) = Len(q) /\ \A j \in 1..Len(p) : p[j] = q[j]
      BY <3>2, <3>3, <3>4, <3>5
    <3>7. p = q
      BY <3>6, SeqEqual
    <3> QED BY <3>5, <3>7
  <2>7. PICK a \in A : a = c[e + 1]
    BY <2>4
  <2>8. Append(pt \o y, a) = pt \o Append(y, a)
    <3>0. pt \o y \in Seq(A) /\ Append(y, a) \in Seq(A)
      BY ConcatProperties
    <3>a. Append(pt \o y, a) \in Seq(A) /\ pt \o Append(y, a) \in Seq(A)
      BY <3>0, ConcatProperties
    <3>1. PICK l \in Seq(A), r \in Seq(A) : l = Append(pt \o y, a) /\ r = pt \o Append(y, a)
      BY <3>a
    <3>2. Len(l) = Len(pt) + Len(y) + 1 /\ Len(r) = Len(pt) + Len(y) + 1
      BY <3>1
    <3>3. \A j \in 1..Len(l) : l[j] = r[j]
      BY <3>1
    <3> QED BY <3>1, <3>2, <3>3, SeqEqual
  <2> QED BY <2>1, <2>5, <2>6, <2>7, <2>8 DEF Good
<1> HIDE DEF M
<1>4. \A d \in Nat : d \in M
  BY <1>2, <1>3, SetInduction
<1>5. Good(k)
  <2>1. k \in M /\ k <= k
    BY <1>4
  <2> QED BY <2>1 DEF M
<1> QED BY <1>0, <1>1, <1>5 DEF Good

\* A CR is trimmed, or there is none.
CrHandled(s, A) == s.trim \/ "CR" \notin A

\* The next line feed is the i-th byte; how many bytes in front of it are copied,
\* and what the line is then.
FeedAt(s, n, i) == Text(s)[n + i] = "LF" /\ \A j \in 1..(i - 1) : Text(s)[n + j] # "LF"
UpToCr(s, n, i) == IF i > 1 /\ Text(s)[n + (i - 1)] = "CR" THEN i - 2 ELSE i - 1
Joined(s, n, i) == SoFar(s, n) \o SubSeq(Text(s), n + 1, n + UpToCr(s, n, i))

\* A line feed ends the line.  Of the two places that may leave out the CR in front
\* of it, istream_get_line's in the last buffer and that of the whole line, it does
\* not matter which does it if spaces are trimmed anyway or there is no CR.
LEMMA SplitAtFeed ==
  ASSUME NEW s, NEW A, Splittable(s, A), CrHandled(s, A),
         NEW n \in Nat, NEW i \in Nat \ {0}, n + i <= Len(Text(s)), FeedAt(s, n, i)
  PROVE  /\ SoFar(s, n + i) = <<>>
         /\ Found(s, n + i) = IF trim(s.trim, Joined(s, n, i)) = <<>> /\ s.trim THEN Found(s, n)
                              ELSE Append(Found(s, n), trim(s.trim, Joined(s, n, i)))
<1>0. PICK c \in Seq(A), m \in Nat, t \in BOOLEAN : c = Text(s) /\ m = Len(c) /\ t = s.trim
  BY DEF Splittable
<1>a. c[n + i] = "LF" /\ \A j \in 1..(i - 1) : c[n + j] # "LF"
  BY <1>0 DEF FeedAt
<1>b. PICK part \in Seq(A) :
        part = SubSeq(c, n + 1, n + (IF i > 1 /\ c[n + (i - 1)] = "CR" THEN i - 2 ELSE i - 1))
  <2>1. PICK q \in Nat : q = (IF i > 1 /\ c[n + (i - 1)] = "CR" THEN i - 2 ELSE i - 1) /\ n + q <= m
    BY <1>0
  <2>2. SubSeq(c, n + 1, n + q) \in Seq(A)
    BY <1>0, <2>1
  <2> QED BY <2>1, <2>2
<1>c. PICK all : all = SoFar(s, n) \o part
  OBVIOUS
<1>d. Joined(s, n, i) = all
  BY <1>0, <1>b, <1>c DEF Joined, UpToCr
<1>1. PICK k \in Nat : k = i - 1 /\ n + k + 1 = n + i /\ n + k <= m
  BY <1>0
<1>2. PICK pt \in Seq(A) : SoFar(s, n) = pt
  <2>1. n \in 0..Len(Text(s))
    BY <1>0, <1>1
  <2> QED BY <2>1, SplitType
<1>3. PICK x \in Seq(A) : x = SubSeq(c, n + 1, n + k)
  <2>1. SubSeq(c, n + 1, n + k) \in Seq(A)
    BY <1>0, <1>1
  <2> QED BY <2>1
<1>4. Len(x) = k /\ \A j \in 1..k : x[j] = c[n + j]
  BY <1>0, <1>1, <1>3
<1>5. Found(s, n + k) = Found(s, n) /\ SoFar(s, n + k) = pt \o x
  <2>1. n + k <= Len(Text(s)) /\ \A j \in 1..k : Text(s)[n + j] # "LF"
    BY <1>0, <1>a, <1>1
  <2> QED BY <1>0, <1>2, <1>3, <2>1, SplitRun
<1>6. PICK full \in Seq(A) : full = pt \o x
  BY ConcatProperties
<1>7. Found(s, n + i) = PutLine(s, Found(s, n), full, TRUE) /\ SoFar(s, n + i) = <<>>
  <2>1. PICK e \in Nat : e = n + k
    OBVIOUS
  <2>2. e + 1 <= Len(Text(s)) /\ Text(s)[e + 1] = "LF" /\ e + 1 = n + i
    BY <1>0, <1>a, <1>1, <2>1
  <2>3. Found(s, e + 1) = PutLine(s, Found(s, e), SoFar(s, e), TRUE) /\ SoFar(s, e + 1) = <<>>
    BY <2>2, SplitNext
  <2> QED BY <1>5, <1>6, <2>1, <2>2, <2>3
<1>8. all = pt \o part /\ all \in Seq(A)
  <2>1. all = pt \o part
    BY <1>c, <1>2
  <2>2. pt \o part \in Seq(A)
    BY ConcatProperties
  <2> QED BY <2>1, <2>2
<1> DEFINE bare == IF full # <<>> /\ full[Len(full)] = "CR" THEN Front(full) ELSE full
<1>9. trim(t, bare) = trim(t, all)
  <2>1. CASE i > 1 /\ c[n + (i - 1)] = "CR"
    <3>1. k > 0 /\ c[n + k] = "CR" /\ "CR" \in A
      BY <1>0, <1>1, <2>1
    <3>2. t
      BY <1>0, <3>1 DEF CrHandled
    <3>3. x # <<>> /\ x[k] = "CR" /\ Len(full) = Len(pt) + k /\ full[Len(pt) + k] = x[k]
      <4>1. x # <<>>
        BY <1>4, <3>1
      <4>2. k \in 1..k /\ x[k] = "CR"
        BY <1>4, <3>1
      <4>3. Len(full) = Len(pt) + k /\ full[Len(pt) + k] = x[k]
        <5>1. PICK l \in Nat : l = Len(pt)
          OBVIOUS
        <5>2. /\ Len(full) = Len(pt) + Len(x)
              /\ \A j \in 1..(Len(pt) + Len(x)) : full[j] = IF j <= Len(pt) THEN pt[j] ELSE x[j - Len(pt)]
          BY <1>6, ConcatProperties
        <5>3. l + k \in 1..(l + k) /\ ~(l + k <= l) /\ (l + k) - l = k
          BY <3>1, <5>1
        <5> QED BY <1>4, <5>1, <5>2, <5>3
      <4> QED BY <4>1, <4>2, <4>3
    <3>4. full # <<>> /\ full[Len(full)] = "CR" /\ bare = Front(full)
      BY <1>6, <3>1, <3>3
    <3>5. part = SubSeq(c, n + 1, n + (k - 1))
      BY <1>b, <1>1, <2>1
    <3>6. Len(part) = k - 1 /\ \A j \in 1..(k - 1) : part[j] = c[n + j]
      BY <1>0, <1>1, <3>1, <3>5
    <3>7. Front(full) = all
      <4>1. PICK l \in Nat : l = Len(pt)
        OBVIOUS
      <4>2. PICK p \in Seq(A) : p = Front(full)
        <5>1. SubSeq(full, 1, Len(full) - 1) \in Seq(A)
          BY <3>1, <3>3, <4>1
        <5> QED BY <5>1 DEF Front
      <4>3. Len(p) = l + (k - 1) /\ \A j \in 1..(l + (k - 1)) : p[j] = full[j]
        BY <3>1, <3>3, <4>1, <4>2 DEF Front
      <4>4. Len(all) = l + (k - 1) /\ \A j \in 1..(l + (k - 1)) : all[j] = IF j <= l THEN pt[j] ELSE part[j - l]
        <5>1. /\ Len(all) = Len(pt) + Len(part)
              /\ \A j \in 1..(Len(pt) + Len(part)) : all[j] = IF j <= Len(pt) THEN pt[j] ELSE part[j - Len(pt)]
          <6>1. \A y \in Seq(A) :
                  /\ Len(pt \o y) = Len(pt) + Len(y)
                  /\ \A j \in 1..(Len(pt) + Len(y)) :
                       (pt \o y)[j] = IF j <= Len(pt) THEN pt[j] ELSE y[j - Len(pt)]
            BY ConcatProperties
          <6> QED BY <1>8, <6>1, Zenon
        <5> QED BY <3>6, <4>1, <5>1
      <4>5. \A j \in 1..(l + (k - 1)) : full[j] = IF j <= l THEN pt[j] ELSE x[j - l]
        BY <1>4, <1>6, <3>1, <4>1
      <4>6. ASSUME NEW j \in 1..(l + (k - 1)) PROVE p[j] = all[j]
        <5>1. j <= l \/ j - l \in 1..(k - 1)
          BY <4>1
        <5>2. j - l \in 1..(k - 1) => x[j - l] = part[j - l]
          <6>1. \A h \in 1..(k - 1) : x[h] = c[n + h] /\ part[h] = c[n + h]
            BY <1>4, <3>6
          <6> QED BY <6>1
        <5> QED BY <4>3, <4>4, <4>5, <5>1, <5>2
      <4>7. p = all
        <5>1. PICK q \in Seq(A) : q = all
          BY <1>8
        <5>2. Len(p) = Len(q) /\ \A j \in 1..Len(p) : p[j] = q[j]
          BY <4>3, <4>4, <4>6, <5>1
        <5>3. p = q
          BY <5>2, SeqEqual
        <5> QED BY <5>1, <5>3
      <4> QED BY <4>2, <4>7
    <3>8. trim(t, Front(full)) = trim(t, full)
      BY <3>2, <3>4, TrimFacts DEF Space
    <3> QED BY <3>4, <3>7
  <2>2. CASE ~(i > 1 /\ c[n + (i - 1)] = "CR")
    <3>1. part = x
      BY <1>b, <1>1, <1>3, <2>2
    <3>2. all = full
      BY <1>6, <1>8, <3>1
    <3>3. CASE t
      <4>1. full # <<>> /\ full[Len(full)] = "CR" => trim(t, Front(full)) = trim(t, full)
        BY <3>3, TrimFacts DEF Space
      <4> QED BY <3>2, <4>1
    <3>4. CASE ~t
      <4>1. full # <<>> => full[Len(full)] \in A
        <5> SUFFICES ASSUME full # <<>> PROVE full[Len(full)] \in A
          OBVIOUS
        <5>1. Len(full) \in Nat \ {0}
          BY EmptySeq
        <5> QED BY <5>1
      <4>2. "CR" \notin A
        BY <1>0, <3>4 DEF CrHandled
      <4> QED BY <3>2, <4>1, <4>2
    <3> QED BY <3>3, <3>4
  <2> QED BY <2>1, <2>2
<1> HIDE DEF bare
<1>10. PutLine(s, Found(s, n), full, TRUE)
         = IF trim(t, bare) = <<>> /\ (t \/ ~TRUE) THEN Found(s, n) ELSE Append(Found(s, n), trim(t, bare))
  BY <1>0 DEF PutLine, bare
<1>11. PutLine(s, Found(s, n), full, TRUE)
         = IF trim(t, all) = <<>> /\ t THEN Found(s, n) ELSE Append(Found(s, n), trim(t, all))
  BY <1>9, <1>10
<1> QED BY <1>0, <1>d, <1>7, <1>11

\* What is left at the end of the content is a line if there is anything in it.
LEMMA SplitAtEnd ==
  ASSUME NEW s, NEW A, Splittable(s, A), NEW ls, NEW part \in Seq(A)
  PROVE  PutLine(s, ls, part, FALSE) =
           IF part = <<>> \/ (s.trim /\ trim(s.trim, part) = <<>>) THEN ls
           ELSE Append(ls, trim(s.trim, part))
<1>1. PICK t \in BOOLEAN : t = s.trim
  BY DEF Splittable
<1>2. (part = <<>> => trim(t, part) = <<>>) /\ (~t => trim(t, part) = part)
  BY TrimFacts
<1>3. PutLine(s, ls, part, FALSE) = IF trim(t, part) = <<>> THEN ls ELSE Append(ls, trim(t, part))
  BY <1>1 DEF PutLine
<1> QED BY <1>1, <1>2, <1>3

-----------------------------------------------------------------------------
\* The content of a compressed file grows token by token.
LEMMA UnpackedGrows ==
  ASSUME NEW s \in Setups, s.decoder, NEW n \in 0..Len(s.data)
  PROVE  Starts(Unpacked(s, n), Text(s))
<1> HIDE DEF Alphabet
<1>0. PICK m \in Nat : m = Len(s.data)
  BY SetupsAssumption
<1> DEFINE M == { d \in Nat : n + d <= m => Starts(Unpacked(s, n), Unpacked(s, n + d)) }
<1>1. \A k \in 0..m : Unpacked(s, k) \in Seq(Alphabet)
  BY <1>0, UnpackedFacts
<1>2. 0 \in M
  <2>1. n + 0 = n /\ Unpacked(s, n) \in Seq(Alphabet)
    BY <1>0, <1>1
  <2>2. Starts(Unpacked(s, n), Unpacked(s, n))
    BY <2>1 DEF Starts
  <2> QED BY <2>1, <2>2
<1>3. ASSUME NEW d \in Nat, d \in M PROVE d + 1 \in M
  <2> SUFFICES ASSUME n + (d + 1) <= m PROVE Starts(Unpacked(s, n), Unpacked(s, n + (d + 1)))
    OBVIOUS
  <2>1. PICK k \in 1..m : k = n + (d + 1) /\ k - 1 = n + d /\ k - 1 \in 0..m
    BY <1>0
  <2>2. Starts(Unpacked(s, n), Unpacked(s, k - 1))
    BY <1>3, <2>1
  <2>3. PICK x \in Seq(Alphabet), y \in Seq(Alphabet), z \in Seq(Alphabet) :
          x = Unpacked(s, n) /\ y = Unpacked(s, k - 1) /\ z = s.expand[s.data[k]]
    <3>1. s.expand[s.data[k]] \in Seq(Alphabet)
      BY <1>0, SetupsAssumption DEF Alphabet
    <3> QED BY <1>0, <1>1, <2>1, <3>1
  <2>4. Unpacked(s, k) = y \o z
    BY <1>0, <2>3, UnpackedFacts
  <2>5. Starts(x, y) => Starts(x, y \o z)
    BY ConcatProperties DEF Starts
  <2> QED BY <2>1, <2>2, <2>3, <2>4, <2>5
<1> HIDE DEF M
<1>5. \A d \in Nat : d \in M
  BY <1>2, <1>3, SetInduction
<1>6. PICK d \in Nat : n + d = m
  <2>1. m - n \in Nat /\ n + (m - n) = m
    BY <1>0
  <2> QED BY <2>1
<1>7. d \in M
  BY <1>5
<1> QED BY <1>0, <1>6, <1>7 DEF M, Text

\* The bytes handed out are the first of the content, and those in the buffer are
\* the next.
LEMMA Ahead ==
  ASSUME ConsInv
  PROVE  /\ Text(setup) \in Seq(Alphabet) /\ Content = Text(setup)
         /\ Starts(got \o Unread, Text(setup))
<1> HIDE DEF Alphabet
<1>0. /\ StreamInv /\ setup \in Setups /\ setup.decoder \in BOOLEAN /\ got \in Seq(Alphabet)
      /\ pend \in Seq(Alphabet) /\ FileOK(setup.data, file) /\ Kept(setup, file, strm, pend, got)
  BY SetupsAssumption DEF ConsInv, StreamInv
<1>1. Content = Text(setup)
  BY DEF Content, Text
<1>2. PICK T \in 0..Len(setup.data) : T = TakenFrom(file)
  BY <1>0, FileUnread
<1>3. PICK u \in Seq(Alphabet) : u = Unread
  BY <1>0, UnreadIs
<1>4. CASE setup.decoder
  <2>1. (got \o u) \o pend = Unpacked(setup, T)
    BY <1>0, <1>2, <1>3, <1>4, UnreadIs DEF Kept
  <2>2. PICK t \in Seq(Alphabet) : t = Text(setup)
    <3>1. Len(setup.data) \in 0..Len(setup.data)
      BY <1>0, SetupsAssumption
    <3> QED BY <1>0, <1>4, <3>1, UnpackedFacts DEF Text
  <2>3. Starts((got \o u) \o pend, t)
    BY <1>0, <1>4, <2>1, <2>2, UnpackedGrows
  <2>4. PICK g \in Seq(Alphabet) : g = got \o u
    BY <1>0, ConcatProperties
  <2>5. Starts(g \o pend, t) => Starts(g, t)
    BY <1>0, ConcatProperties DEF Starts
  <2> QED BY <1>1, <1>3, <2>2, <2>3, <2>4, <2>5
<1>5. CASE ~setup.decoder
  <2>1. PICK c \in Seq(Alphabet) : c = setup.data
    BY <1>0, SetupsAssumption DEF Alphabet
  <2>2. PICK p \in Nat : p = file.pos /\ T <= p /\ p <= Len(c)
    <3>1. file.pos \in Nat /\ T <= file.pos
      BY <1>0, <1>2, FileUnread DEF FileType, FileOK
    <3>2. file.pos <= Len(c)
      BY <1>0, <2>1 DEF FileOK
    <3> QED BY <3>1, <3>2
  <2>3. got = SubSeq(c, 1, T) /\ Text(setup) = SubSeq(c, 1, Len(c))
    BY <1>0, <1>2, <1>5, <2>1 DEF Kept, Unpacked, Text
  <2>4. Text(setup) = c
    BY <2>3, SubSeqFull
  <2>5. u = SubSeq(c, T + 1, p)
    BY <1>0, <1>2, <1>3, <1>5, <2>1, <2>2, UnreadIs, FileUnread
  <2>6. got \o u = SubSeq(c, 1, p)
    <3>1. p \in 0..Len(c) /\ T \in 0..p
      BY <1>2, <2>1, <2>2
    <3> QED BY <2>3, <2>5, <3>1, CutInTwo
  <2>7. Starts(SubSeq(c, 1, p), c)
    BY <2>2 DEF Starts
  <2> QED BY <1>1, <1>3, <2>1, <2>4, <2>6, <2>7
<1> QED BY <1>0, <1>4, <1>5

\* The same, byte by byte.
LEMMA AheadBytes ==
  ASSUME ConsInv
  PROVE  /\ Len(got) + Len(Unread) <= Len(Text(setup))
         /\ Len(got) \in Nat /\ Len(Unread) \in Nat
         /\ \A j \in 1..Len(Unread) : Unread[j] = Text(setup)[Len(got) + j]
         /\ Len(got) = Len(Text(setup)) => got = Text(setup)
<1> HIDE DEF Alphabet
<1>1. PICK g \in Seq(Alphabet), u \in Seq(Alphabet), t \in Seq(Alphabet) :
        g = got /\ u = Unread /\ t = Text(setup)
  BY Ahead, UnreadIs DEF ConsInv, StreamInv
<1>2. Starts(g \o u, t)
  BY <1>1, Ahead
<1>3. PICK l \in Nat, n \in Nat : l = Len(g) /\ n = Len(u)
  OBVIOUS
<1>4. Len(g \o u) = l + n /\ \A j \in 1..(l + n) : (g \o u)[j] = IF j <= l THEN g[j] ELSE u[j - l]
  BY <1>3, ConcatProperties
<1>5. l + n <= Len(t) /\ \A j \in 1..(l + n) : (g \o u)[j] = t[j]
  BY <1>2, <1>4 DEF Starts
<1>6. ASSUME NEW j \in 1..n PROVE u[j] = t[l + j]
  <2>1. l + j \in 1..(l + n) /\ ~(l + j <= l) /\ (l + j) - l = j
    BY <1>3
  <2> QED BY <1>4, <1>5, <2>1
<1>7. ASSUME l = Len(t) PROVE g = t
  <2>1. \A j \in 1..l : g[j] = t[j]
    BY <1>3, <1>4, <1>5
  <2> QED BY <1>3, <1>7, <2>1, SeqEqual
<1> QED BY <1>1, <1>3, <1>5, <1>6, <1>7

-----------------------------------------------------------------------------
\* Readers of lines have the spaces around them trimmed, or the content has no CR:
\* istream_get_line leaves out a CR in front of a line feed only if both are in the
\* buffer at the same time.
LinesTrimmed ==
  \A s \in Setups : s.reader = "lines" =>
    s.trim \in BOOLEAN /\ (s.trim \/ Text(s) \in Seq(Alphabet \ {"CR"}))

AllOf(s) == PutLine(s, Found(s, Len(Text(s))), SoFar(s, Len(Text(s))), FALSE)

\* Between any two rounds the lines returned and the line so far are those of the
\* bytes handed out, or everything was returned, the last line included.
InStep ==
  /\ lines = Found(setup, Len(got))
  /\ pc # "idle" => op.line = SoFar(setup, Len(got))
  /\ pc = "idle" /\ result = "ok" => SoFar(setup, Len(got)) = <<>>
  /\ result = "eof" => lines = AllOf(setup)

AllLines ==
  /\ Len(got) = Len(Text(setup)) /\ lines = AllOf(setup)
  /\ pc # "idle" => op.line = <<>>

LineInv ==
  setup.reader = "lines" =>
    /\ pc # "copy" /\ (pc # "idle" => op.kind = "line")
    /\ InStep \/ AllLines

\* The lemmas on splitting apply.
LEMMA CanSplit ==
  ASSUME LinesTrimmed, ConsInv, setup.reader = "lines"
  PROVE  \E A : Splittable(setup, A) /\ CrHandled(setup, A)
<1>1. setup \in Setups /\ Text(setup) \in Seq(Alphabet)
  BY Ahead DEF ConsInv, StreamInv
<1>2. setup.trim \in BOOLEAN /\ (setup.trim \/ Text(setup) \in Seq(Alphabet \ {"CR"}))
  BY <1>1 DEF LinesTrimmed
<1>3. CASE setup.trim
  BY <1>1, <1>2, <1>3 DEF Splittable, CrHandled
<1>4. CASE Text(setup) \in Seq(Alphabet \ {"CR"})
  <2>1. Splittable(setup, Alphabet \ {"CR"}) /\ CrHandled(setup, Alphabet \ {"CR"})
    BY <1>2, <1>4 DEF Splittable, CrHandled
  <2> QED BY <2>1
<1> QED BY <1>2, <1>3, <1>4

\* Nothing was read and nothing returned.
LEMMA LineInit == LinesTrimmed /\ Init => LineInv
<1> SUFFICES ASSUME LinesTrimmed, Init, setup.reader = "lines" PROVE LineInv
  BY DEF LineInv
<1>1. ConsInv
  BY ConsInit
<1>2. PICK A : Splittable(setup, A)
  BY <1>1, CanSplit
<1>3. SplitUpTo(setup, 0) = <<<<>>, <<>>>>
  BY <1>2, SplitFacts
<1>4. Found(setup, 0) = <<>> /\ SoFar(setup, 0) = <<>>
  BY <1>3 DEF Found, SoFar
<1>5. got = <<>> /\ Len(got) = 0 /\ lines = <<>> /\ pc = "idle" /\ result = "ok"
  BY DEF Init
<1>6. InStep
  BY <1>4, <1>5 DEF InStep
<1> QED BY <1>5, <1>6 DEF LineInv

\* Refills and decoding do not touch lines.
LEMMA LineQuiet ==
  ASSUME LineInv, UNCHANGED <<setup, got, lines, result>>, pc # "idle", pc' \notin {"idle", "copy"},
         op'.line = op.line, op'.kind = op.kind
  PROVE  LineInv'
<1> SUFFICES ASSUME setup.reader = "lines" PROVE LineInv'
  BY DEF LineInv
<1>1. pc' # "copy" /\ op'.kind = "line" /\ (InStep \/ AllLines)
  BY DEF LineInv
<1>2. InStep => InStep'
  BY DEF InStep
<1>3. AllLines => AllLines'
  BY DEF AllLines
<1> QED BY <1>1, <1>2, <1>3 DEF LineInv

\* A line is put into the call, ...
WithLine(o, v) == [o EXCEPT !.line = v]

\* ... which stays the call it is.
LEMMA OpLine ==
  ASSUME NEW o \in OpType, NEW v
  PROVE  WithLine(o, v).line = v /\ WithLine(o, v).kind = o.kind
  BY DEF OpType, WithLine

\* One round of istream_get_line.
LEMMA LineTakes == ASSUME LinesTrimmed, ConsInv, LineInv, LineRound PROVE LineInv'
<1> HIDE DEF Alphabet
<1> SUFFICES ASSUME setup.reader = "lines" PROVE LineInv'
  BY DEF LineInv, LineRound
<1>0. /\ StreamInv /\ op \in OpType /\ Off = 0 /\ Buf # <<>> /\ setup' = setup /\ pc = "refilled"
      /\ op.kind = "line"
  BY DEF ConsInv, CallInv, LineRound, LineInv, Return
<1>1. PICK b \in Seq(Alphabet), l \in Nat \ {0} : b = Buf /\ l = Len(b) /\ Unread = b
  <2>1. Buf \in Seq(Alphabet) /\ Unread = SubSeq(Buf, 1, Len(Buf))
    BY <1>0, UnreadIs DEF Unread
  <2>2. Unread = Buf /\ Len(Buf) \in Nat \ {0}
    BY <1>0, <2>1, SubSeqFull, EmptySeq
  <2> QED BY <2>1, <2>2
<1>2. PICK n \in Nat, c \in Seq(Alphabet) : n = Len(got) /\ c = Text(setup) /\ got \in Seq(Alphabet)
  BY <1>0, Ahead DEF StreamInv
<1>3. n + l <= Len(c) /\ \A j \in 1..l : b[j] = c[n + j]
  BY <1>1, <1>2, AheadBytes
<1>4. PICK A : Splittable(setup, A) /\ CrHandled(setup, A)
  BY CanSplit
<1>5. c \in Seq(A) /\ setup.trim \in BOOLEAN
  BY <1>2, <1>4 DEF Splittable
<1>6. InStep /\ lines = Found(setup, n) /\ op.line = SoFar(setup, n)
  <2>1. ~AllLines
    BY <1>2, <1>3, <1>5 DEF AllLines
  <2>2. InStep
    BY <2>1 DEF LineInv
  <2> QED BY <1>0, <1>2, <2>2 DEF InStep
<1> DEFINE lfs == {j \in 1 .. Len(Buf) : Buf[j] = "LF"}
           fst == IF lfs = {} THEN Len(Buf) ELSE CHOOSE k \in lfs : \A j \in lfs : k <= j
           len(i) == IF lfs = {} THEN i
                     ELSE IF i > 1 /\ Buf[i - 1] = "CR" THEN i - 2 ELSE i - 1
           all(i) == LineSoFar(SubSeq(Buf, 1, len(i)))
<1>7. PICK i \in 1..l : /\ i = fst
                        /\ lfs = {} => i = l
                        /\ lfs # {} => b[i] = "LF" /\ \A j \in 1..(i - 1) : b[j] # "LF"
  <2>1. CASE lfs = {}
    BY <1>1, <2>1
  <2>2. CASE lfs # {}
    <3>1. lfs \subseteq Nat
      BY <1>1
    <3>2. \E k \in lfs : \A j \in lfs : k <= j
      BY <2>2, <3>1, NatLeast
    <3>3. PICK k \in lfs : k = fst /\ \A j \in lfs : k <= j
      BY <2>2, <3>2
    <3>4. k \in 1..l /\ b[k] = "LF"
      BY <1>1, <3>3
    <3>5. ASSUME NEW j \in 1..(k - 1) PROVE b[j] # "LF"
      <4>1. j \in 1..l /\ ~(k <= j)
        BY <3>4
      <4>2. j \notin lfs
        BY <3>3, <4>1
      <4> QED BY <1>1, <4>1, <4>2
    <3> QED BY <2>2, <3>3, <3>4, <3>5
  <2> QED BY <2>1, <2>2
<1>8. /\ Take(i)
      /\ \/ /\ lfs = {} /\ op' = WithLine(op, all(i)) /\ pc' = "precache" /\ UNCHANGED <<lines, result>>
         \/ /\ lfs # {} /\ setup.trim /\ trim(setup.trim, all(i)) = <<>>
            /\ op' = WithLine(op, <<>>) /\ pc' = "precache" /\ UNCHANGED <<lines, result>>
         \/ /\ lfs # {} /\ ~(setup.trim /\ trim(setup.trim, all(i)) = <<>>)
            /\ lines' = Append(lines, trim(setup.trim, all(i))) /\ Return("ok")
  BY <1>7, Zenon DEF LineRound, WithLine
<1> HIDE DEF fst
<1>9. Len(got') = n + i
  <2>1. got' = got \o SubSeq(b, 1, i)
    BY <1>1, <1>8 DEF Take
  <2>2. SubSeq(b, 1, i) \in Seq(Alphabet) /\ Len(SubSeq(b, 1, i)) = i
    BY <1>1
  <2>3. Len(got \o SubSeq(b, 1, i)) = Len(got) + Len(SubSeq(b, 1, i))
    BY <1>2, <2>2, ConcatProperties
  <2> QED BY <1>2, <2>1, <2>2, <2>3
<1>10. ASSUME NEW k \in 0..l PROVE SubSeq(b, 1, k) = SubSeq(c, n + 1, n + k) /\ SubSeq(c, n + 1, n + k) \in Seq(A)
  <2>1. SubSeq(b, 1, k) \in Seq(Alphabet) /\ Len(SubSeq(b, 1, k)) = k /\ \A j \in 1..k : SubSeq(b, 1, k)[j] = b[j]
    BY <1>1
  <2>2. /\ SubSeq(c, n + 1, n + k) \in Seq(A) /\ Len(SubSeq(c, n + 1, n + k)) = k
        /\ \A j \in 1..k : SubSeq(c, n + 1, n + k)[j] = c[n + j]
    BY <1>3, <1>5
  <2>3. \A j \in 1..k : b[j] = c[n + j]
    BY <1>3
  <2>4. PICK x, y : x = SubSeq(b, 1, k) /\ y = SubSeq(c, n + 1, n + k)
    OBVIOUS
  <2>5. x \in Seq(Alphabet) /\ y \in Seq(A) /\ Len(x) = k /\ Len(y) = k /\ \A j \in 1..k : x[j] = y[j]
    BY <2>1, <2>2, <2>3, <2>4
  <2>6. x = [j \in 1..k |-> x[j]] /\ y = [j \in 1..k |-> y[j]]
    BY <2>5
  <2>7. x = y
    BY <2>5, <2>6
  <2> QED BY <2>2, <2>4, <2>7
<1>11. CASE lfs = {}
  <2>1. i = l /\ all(i) = SoFar(setup, n) \o SubSeq(c, n + 1, n + l)
    <3>1. i = l /\ len(i) = l
      BY <1>7, <1>11
    <3>2. SubSeq(b, 1, l) = SubSeq(c, n + 1, n + l)
      <4>1. l \in 0..l
        OBVIOUS
      <4> QED BY <1>10, <4>1
    <3>3. all(i) = op.line \o SubSeq(b, 1, l)
      BY <1>1, <3>1 DEF LineSoFar
    <3> QED BY <1>6, <3>1, <3>2, <3>3
  <2>2. \A j \in 1..l : c[n + j] # "LF"
    BY <1>1, <1>3, <1>11
  <2>3. Found(setup, n + l) = Found(setup, n) /\ SoFar(setup, n + l) = SoFar(setup, n) \o SubSeq(c, n + 1, n + l)
    BY <1>2, <1>3, <1>4, <2>2, SplitRun
  <2>4. op' = WithLine(op, all(i)) /\ pc' = "precache" /\ lines' = lines /\ result' = result
    BY <1>8, <1>11
  <2> HIDE DEF all
  <2>5. op'.line = all(i) /\ op'.kind = "line"
    BY <1>0, <2>4, OpLine
  <2>6. result # "eof" \/ lines = AllOf(setup)
    BY <1>6 DEF InStep
  <2>7. InStep'
    BY <1>0, <1>6, <1>9, <2>1, <2>3, <2>4, <2>5, <2>6 DEF InStep
  <2> QED BY <2>4, <2>5, <2>7 DEF LineInv
<1>12. CASE lfs # {}
  <2>1. PICK k \in 0..l : k = len(i) /\ k = IF i > 1 /\ c[n + (i - 1)] = "CR" THEN i - 2 ELSE i - 1
    <3>1. i > 1 => i - 1 \in 1..l /\ b[i - 1] = c[n + (i - 1)]
      BY <1>3
    <3>2. len(i) = IF i > 1 /\ c[n + (i - 1)] = "CR" THEN i - 2 ELSE i - 1
      BY <1>1, <1>12, <3>1
    <3>3. (IF i > 1 /\ c[n + (i - 1)] = "CR" THEN i - 2 ELSE i - 1) \in 0..l
      OBVIOUS
    <3> QED BY <3>2, <3>3
  <2>2. PICK part \in Seq(A) : part = SubSeq(c, n + 1, n + k)
    BY <1>10
  <2>3. all(i) = SoFar(setup, n) \o part
    BY <1>1, <1>6, <1>10, <2>1, <2>2 DEF LineSoFar
  <2> HIDE DEF len, all
  <2>4. c[n + i] = "LF" /\ \A j \in 1..(i - 1) : c[n + j] # "LF"
    <3>1. b[i] = "LF" /\ \A j \in 1..(i - 1) : b[j] # "LF"
      BY <1>7, <1>12
    <3>2. \A j \in 1..(i - 1) : j \in 1..l
      OBVIOUS
    <3> QED BY <1>3, <3>1, <3>2
  <2>5. PICK a : a = all(i)
    OBVIOUS
  <2>6. /\ SoFar(setup, n + i) = <<>>
        /\ Found(setup, n + i) = IF trim(setup.trim, a) = <<>> /\ setup.trim THEN Found(setup, n)
                                 ELSE Append(Found(setup, n), trim(setup.trim, a))
    <3>1. i \in Nat \ {0} /\ n + i <= Len(c)
      BY <1>3, <1>5
    <3>2. part = SubSeq(c, n + 1, n + (IF i > 1 /\ c[n + (i - 1)] = "CR" THEN i - 2 ELSE i - 1))
      BY <2>1, <2>2
    <3>3. a = SoFar(setup, n) \o part
      BY <2>3, <2>5
    <3>4. PICK h \in Nat \ {0} : h = i
      BY <3>1
    <3>5. n + h <= Len(Text(setup)) /\ FeedAt(setup, n, h)
      BY <1>2, <2>4, <3>1, <3>4 DEF FeedAt
    <3>6. a = Joined(setup, n, h)
      BY <1>2, <3>2, <3>3, <3>4 DEF Joined, UpToCr
    <3>7. /\ SoFar(setup, n + h) = <<>>
          /\ Found(setup, n + h) = IF trim(setup.trim, a) = <<>> /\ setup.trim THEN Found(setup, n)
                                   ELSE Append(Found(setup, n), trim(setup.trim, a))
      BY <1>4, <3>5, <3>6, SplitAtFeed
    <3> QED BY <3>4, <3>7
  <2>7. CASE setup.trim /\ trim(setup.trim, a) = <<>>
    <3>1. op' = WithLine(op, <<>>) /\ pc' = "precache" /\ lines' = lines /\ result' = result
      BY <1>8, <1>12, <2>5, <2>7, Zenon
    <3>2. op'.line = <<>> /\ op'.kind = "line"
      BY <1>0, <3>1, OpLine
    <3>3. Found(setup, n + i) = lines
      BY <1>6, <2>6, <2>7
    <3>4. result # "eof" \/ lines = AllOf(setup)
      BY <1>6 DEF InStep
    <3>5. InStep'
      BY <1>0, <1>9, <2>6, <3>1, <3>2, <3>3, <3>4 DEF InStep
    <3> QED BY <3>1, <3>2, <3>5 DEF LineInv
  <2>8. CASE ~(setup.trim /\ trim(setup.trim, a) = <<>>)
    <3>1. lines' = Append(lines, trim(setup.trim, a)) /\ Return("ok")
      BY <1>8, <1>12, <2>5, <2>8, Zenon
    <3>2. pc' = "idle" /\ result' = "ok"
      BY <3>1 DEF Return
    <3>3. Found(setup, n + i) = lines'
      BY <1>6, <2>6, <2>8, <3>1
    <3>4. InStep'
      BY <1>0, <1>9, <2>6, <3>2, <3>3 DEF InStep
    <3> QED BY <3>2, <3>4 DEF LineInv
  <2> QED BY <2>7, <2>8
<1> QED BY <1>11, <1>12

\* The end of the file.
LEMMA LineEnds == ASSUME LinesTrimmed, ConsInv, EofInv, LineInv, LineAtEnd PROVE LineInv'
<1> HIDE DEF Alphabet
<1> SUFFICES ASSUME setup.reader = "lines" PROVE LineInv'
  BY DEF LineInv, LineAtEnd
<1>0. /\ StreamInv /\ op \in OpType /\ Off = 0 /\ Buf = <<>> /\ pc = "refilled" /\ pc' = "idle"
      /\ setup' = setup /\ got' = got /\ AtEnd
  BY DEF ConsInv, CallInv, LineAtEnd, EofInv, EmptyMeansEnd, Return
<1>1. PICK A : Splittable(setup, A) /\ CrHandled(setup, A)
  BY CanSplit
<1>2. Len(got) = Len(Text(setup))
  <2>1. Unread = <<>>
    <3>1. Unread \in Seq(Alphabet) /\ Len(Unread) = 0
      BY <1>0, UnreadIs
    <3> QED BY <3>1, EmptySeq
  <2>2. got = Content
    BY <1>0, <2>1, AtEndHasAll
  <2> QED BY <2>2, Ahead
<1>3. CASE AllLines
  <2>1. op.line = <<>>
    BY <1>0, <1>3 DEF AllLines
  <2>2. lines' = lines
    BY <2>1 DEF LineAtEnd
  <2>3. AllLines'
    BY <1>0, <1>3, <2>2 DEF AllLines
  <2> QED BY <1>0, <2>3 DEF LineInv
<1>4. CASE InStep
  <2>1. PICK part \in Seq(A) : part = SoFar(setup, Len(got)) /\ op.line = part
    <3>1. Len(got) \in 0..Len(Text(setup))
      BY <1>2, AheadBytes
    <3>2. SoFar(setup, Len(got)) \in Seq(A)
      BY <1>1, <3>1, SplitType
    <3> QED BY <1>0, <1>4, <3>2 DEF InStep
  <2>2. lines = Found(setup, Len(got))
    BY <1>4 DEF InStep
  <2>3. AllOf(setup) = IF part = <<>> \/ (setup.trim /\ trim(setup.trim, part) = <<>>) THEN lines
                       ELSE Append(lines, trim(setup.trim, part))
    <3>1. AllOf(setup) = PutLine(setup, lines, part, FALSE)
      BY <1>2, <2>1, <2>2 DEF AllOf
    <3>2. PutLine(setup, lines, part, FALSE)
            = IF part = <<>> \/ (setup.trim /\ trim(setup.trim, part) = <<>>) THEN lines
              ELSE Append(lines, trim(setup.trim, part))
      BY <1>1, SplitAtEnd
    <3> QED BY <3>1, <3>2
  <2>4. lines' = AllOf(setup)
    <3>1. \/ (part = <<>> \/ (setup.trim /\ trim(setup.trim, part) = <<>>)) /\ lines' = lines
          \/ /\ part # <<>> /\ ~(setup.trim /\ trim(setup.trim, part) = <<>>)
             /\ lines' = Append(lines, trim(setup.trim, part))
      BY <2>1 DEF LineAtEnd
    <3> QED BY <2>3, <3>1
  <2>5. AllLines'
    BY <1>0, <1>2, <2>4 DEF AllLines
  <2> QED BY <1>0, <2>5 DEF LineInv
<1> QED BY <1>3, <1>4 DEF LineInv

\* One step per action of the specification.
LEMMA LineStep ==
  LinesTrimmed => (ConsInv /\ EofInv /\ LineInv /\ [Next]_vars /\ ~DecoderFails => LineInv')
<1> SUFFICES ASSUME LinesTrimmed, ConsInv, EofInv, LineInv, [Next]_vars, ~DecoderFails
             PROVE  LineInv'
  OBVIOUS
<1>0. op \in OpType
  BY DEF ConsInv, CallInv
<1>1. CASE istream_precache
  BY <1>1, LineQuiet DEF istream_precache
<1>2. CASE PrecacheWrapped
  <2>1. op'.line = op.line /\ op'.kind = op.kind
    BY <1>0, <1>2 DEF PrecacheWrapped, OpType
  <2> QED BY <1>2, <2>1, LineQuiet DEF PrecacheWrapped
<1>3. CASE DecoderCall
  <2>1. PICK n \in Nat : op' = [op EXCEPT !.made = @ + n]
    BY <1>3, DecoderFacts DEF Round, ConsInv, CallInv, DecoderCall
  <2>2. op'.line = op.line /\ op'.kind = op.kind
    BY <1>0, <2>1 DEF OpType
  <2>3. UNCHANGED <<setup, got, lines, result>> /\ pc = "process" /\ pc' \in {"refilled", "process"}
    BY <1>3 DEF DecoderCall
  <2> QED BY <2>2, <2>3, LineQuiet
<1>4. CASE ProcessDone
  BY <1>4, LineQuiet DEF ProcessDone
<1>5. CASE LineRound
  BY <1>5, LineTakes
<1>6. CASE LineAtEnd
  BY <1>6, LineEnds
<1>7. CASE CopyRound \/ AfterRefill
  BY <1>7 DEF CopyRound, AfterRefill, LineInv, Take
<1>8. ASSUME NEW n, NEW k \in {"read", "skip", "line"}, Call(k, n) PROVE LineInv'
  <2> SUFFICES ASSUME setup.reader = "lines" PROVE LineInv'
    BY <1>8 DEF LineInv, Call
  <2>1. /\ pc = "idle" /\ result = "ok" /\ k = "line" /\ UNCHANGED <<setup, got, lines, result>>
        /\ pc' = "precache" /\ op' = [NoOp EXCEPT !.kind = k, !.left = n]
    BY <1>8 DEF Call
  <2>2. op'.kind = "line" /\ op'.line = <<>>
    BY <2>1 DEF NoOp
  <2>3. InStep => InStep'
    BY <2>1, <2>2 DEF InStep
  <2>4. AllLines => AllLines'
    BY <2>1, <2>2 DEF AllLines
  <2> QED BY <2>1, <2>2, <2>3, <2>4 DEF LineInv
<1>9. CASE ReadError
  <2> SUFFICES ASSUME setup.reader = "lines" PROVE LineInv'
    BY <1>9 DEF LineInv, ReadError
  <2>1. UNCHANGED <<setup, got, lines>> /\ pc' = "idle" /\ result' = "error"
    BY <1>9 DEF ReadError, Return
  <2>2. InStep => InStep'
    BY <2>1 DEF InStep
  <2>3. AllLines => AllLines'
    BY <2>1 DEF AllLines
  <2> QED BY <2>1, <2>2, <2>3 DEF LineInv
<1>10. CASE UNCHANGED vars \/ DecoderStuck
  BY <1>10 DEF DecoderStuck, vars, LineInv, InStep, AllLines
<1>11. ASSUME NEW n \in Sizes, Call("read", n) \/ Call("skip", n) PROVE LineInv'
  BY <1>8, <1>11
<1>12. CASE Call("line", 0)
  BY <1>8, <1>12
<1> QED BY <1>1, <1>2, <1>3, <1>4, <1>5, <1>6, <1>7, <1>9, <1>10, <1>11, <1>12 DEF Next, Work

\* The invariant gives LinesRight.
LEMMA LineImplies == ASSUME LinesTrimmed, ConsInv, EofInv, LineInv PROVE LinesRight
<1> SUFFICES ASSUME setup.reader = "lines"
             PROVE  IsPrefix(lines, SplitLines) /\ (result = "eof" => lines = SplitLines)
  BY DEF LinesRight
<1>1. SplitLines = AllOf(setup)
  BY DEF SplitLines, AllOf, Found, SoFar, Content, Text
<1>2. PICK A : Splittable(setup, A)
  BY CanSplit
<1>3. PICK m \in Nat, n \in Nat : n <= m /\ m = Len(Text(setup)) /\ n = Len(got)
  <2>1. Len(Text(setup)) \in Nat /\ Len(got) \in 0..Len(Text(setup))
    BY <1>2, AheadBytes DEF Splittable
  <2> QED BY <2>1
<1>4. PICK f \in Seq(Seq(A)), p \in Seq(A), b \in BOOLEAN :
        f = Found(setup, m) /\ p = SoFar(setup, m) /\ b = FALSE
  <2>1. m \in 0..Len(Text(setup))
    BY <1>3
  <2> QED BY <1>2, <2>1, SplitType
<1>5. PICK z \in Seq(Seq(A)) : z = AllOf(setup) /\ Starts(f, z)
  <2>1. PutLine(setup, f, p, b) \in Seq(Seq(A)) /\ Starts(f, PutLine(setup, f, p, b))
    BY <1>2, PutLineFacts DEF Splittable
  <2>2. AllOf(setup) = PutLine(setup, f, p, b)
    BY <1>3, <1>4 DEF AllOf
  <2> QED BY <2>1, <2>2
<1>6. CASE AllLines
  <2>1. lines = z /\ Starts(z, z)
    BY <1>5, <1>6 DEF AllLines, Starts
  <2> QED BY <1>1, <1>5, <2>1, StartsIsPrefix
<1>7. CASE InStep
  <2>1. PICK g \in Seq(Seq(A)) : g = Found(setup, n) /\ Starts(g, f)
    <3>1. n \in 0..Len(Text(setup))
      BY <1>3
    <3> QED BY <1>2, <1>3, <1>4, <3>1, SplitType, SplitGrows
  <2>2. Starts(g, z)
    BY <1>5, <2>1 DEF Starts
  <2>3. lines = g /\ (result = "eof" => lines = AllOf(setup))
    BY <1>3, <1>7, <2>1 DEF InStep
  <2> QED BY <1>1, <1>5, <2>2, <2>3, StartsIsPrefix
<1> QED BY <1>6, <1>7 DEF LineInv

\* istream_get_line returns the lines of the file, in order, each once, and all of
\* them before it reports the end, wherever the ends of the buffers fall: for files
\* the decoder can unpack (AllFeed) and readers that trim, or files without CR.
THEOREM StreamLinesRight == AllFeed /\ LinesTrimmed => (Spec => []LinesRight)
<1> SUFFICES ASSUME AllFeed, LinesTrimmed PROVE Spec => []LinesRight
  OBVIOUS
<1>1. Init => ConsInv /\ EofInv /\ LineInv
  BY ConsInit, EofInit, LineInit
<1>2. ConsInv /\ EofInv /\ LineInv => LinesRight
  BY LineImplies
<1>3. ConsInv /\ EofInv /\ LineInv /\ [Next]_vars
        => (ConsInv /\ EofInv /\ LineInv)' \/ (Failed /\ LinesRight)'
  <2>1. ASSUME ConsInv, EofInv, LineInv, DecoderFails PROVE (Failed /\ LinesRight)'
    <3>1. UNCHANGED <<setup, lines>> /\ result' = "error"
      BY <2>1 DEF DecoderFails, Return
    <3>2. LinesRight'
      BY <1>2, <2>1, <3>1 DEF LinesRight, SplitLines, Content
    <3> QED BY <2>1, <3>2, DecoderFailsFails
  <2> QED BY <2>1, ConsStep, EofStep, LineStep
<1>4. Failed /\ LinesRight /\ [Next]_vars => (Failed /\ LinesRight)'
  BY FailedStays DEF vars, Failed, LinesRight, SplitLines, Content
<1> QED BY <1>1, <1>2, <1>3, <1>4, PTL DEF Spec
=============================================================================
