----------------------------- MODULE TarReader -----------------------------
(***************************************************************************)
(* Reading a tar archive: read_header and what it keeps from the extended  *)
(* headers in front of an entry, get_next_record of the tar source, and    *)
(* the stream of a file, which fills in the holes of sparse files.  Every  *)
(* round of every loop is a step.                                          *)
(*                                                                         *)
(* The archive is a sequence of bytes, possibly cut short.  A header takes *)
(* BS of them; the first says which member of "ents" it encodes.  What is  *)
(* in the payload of an extended header (the records of a PAX header, a    *)
(* long name, a sparse map) is kept with the header; a record of a PAX     *)
(* header that cannot be parsed has the key "malformed".  An entry is      *)
(*   [type, name, link, uid, size, payload, fields, map, mapblks, real]    *)
(* where size is the size field of the header and payload the number of    *)
(* bytes behind it; uid stands for all plain numbers in a header.          *)
(***************************************************************************)
EXTENDS Integers, Sequences, SequencesExt

CONSTANTS BS,        \* TAR_RECORD_SIZE, 512
          BUFSZ,     \* size of the buffer of a file's stream, 1024
          MAXLEN,    \* TAR_MAX_PATH_LEN, TAR_MAX_SYMLINK_LEN, TAR_MAX_PAX_LEN
          WRAP,      \* 2^32: the length of a hole goes through an int32_t; sizes
                     \* are uint64_t, that is below WRAP * WRAP
          Archives   \* the archives considered: [ents, bytes, good]

ASSUME SizesAssumption == {BS, BUFSZ} \subseteq Nat \ {0}

VARIABLES arc,       \* the archive
          pos,       \* how much of it was read
          pc,        \* where the current call is
          out,       \* the header that is being decoded
          set,       \* set_by_pax
          zero,      \* prev_was_zero
          tar,       \* the source: [left, apparent, locked, want]
          ts,        \* the stream of the file: [sparse, offset, buf, eof]
          recs,      \* the records returned
          taken,     \* per record, what was read of its stream
          result     \* of the last call: ok, eof or error

vars == <<arc, pos, pc, out, set, zero, tar, ts, recs, taken, result>>

NoHeader == [name |-> "", link |-> "", uid |-> 0, type |-> "", rsize |-> 0,
             asize |-> 0, sparse |-> <<>>]

NoStream == [sparse |-> <<>>, offset |-> 0, buf |-> <<>>, eof |-> FALSE]

Zero == [t |-> "zero", v |-> 0]

Least(a, b) == IF a < b THEN a ELSE b

-----------------------------------------------------------------------------
(* The stream below: what istream_read and istream_skip see of it. *)
Rest == Len(arc.bytes) - pos

Bytes(n) == SubSeq(arc.bytes, pos + 1, pos + n)

(* skip_padding, skip_entry and get_next_record round up to whole blocks. *)
Padded(n) == IF n % BS = 0 THEN n ELSE n + BS - (n % BS)

Fail ==
  /\ result' = "error" /\ pc' = "idle"
  /\ UNCHANGED <<out, set, zero, tar, ts, recs, taken>>

-----------------------------------------------------------------------------
(* get_next_record: skips what is left of the file before it.  The caller  *)
(* has dropped that file's stream, and says whether it wants another one.  *)
get_next_record(want) ==
  /\ pc = "idle" /\ result = "ok" /\ ~tar.locked
  /\ IF Rest < tar.left
     THEN pos' = Len(arc.bytes) /\ Fail
     ELSE /\ pos' = pos + tar.left
          /\ tar' = [tar EXCEPT !.left = 0, !.want = want]
          /\ pc' = "header" /\ out' = NoHeader /\ set' = {} /\ zero' = FALSE
          /\ UNCHANGED <<ts, recs, taken, result>>
  /\ UNCHANGED arc

(* The header at pos, if there is one. *)
IsZero == \A i \in 1 .. BS : arc.bytes[pos + i] = Zero
IsHeader == arc.bytes[pos + 1].t = "hdr"
Entry == arc.ents[arc.bytes[pos + 1].v]

Extended == {"x", "g", "L", "K"}

(* The archive ends in front of a whole header: out_eof. *)
AtEnd ==
  /\ pc = "header" /\ Rest < BS
  /\ pos' = Len(arc.bytes)
  /\ result' = "eof" /\ pc' = "idle"
  /\ UNCHANGED <<arc, out, set, zero, tar, ts, recs, taken>>

(* Two blocks of zeros in a row end it as well. *)
ZeroBlock ==
  /\ pc = "header" /\ Rest >= BS /\ IsZero
  /\ pos' = pos + BS
  /\ zero' = TRUE
  /\ IF zero THEN result' = "eof" /\ pc' = "idle" ELSE UNCHANGED <<result, pc>>
  /\ UNCHANGED <<arc, out, set, tar, ts, recs, taken>>

(* fail_magic and fail_chksum. *)
BadHeader ==
  /\ pc = "header" /\ Rest >= BS /\ ~IsZero
  /\ ~IsHeader \/ (IsHeader /\ Entry.type = "bad")
  /\ pos' = pos + BS
  /\ Fail
  /\ UNCHANGED arc

(* apply_handler: what one record of a PAX header does. *)
apply_handler(acc, f) ==
  LET o == acc.out
  IN CASE f.key = "path"     -> [out |-> [o EXCEPT !.name = f.val], set |-> acc.set \cup {"NAME"}]
       [] f.key = "linkpath" -> [out |-> [o EXCEPT !.link = f.val], set |-> acc.set \cup {"LINK"}]
       [] f.key = "size"     -> [out |-> [o EXCEPT !.rsize = f.num], set |-> acc.set \cup {"SIZE"}]
       [] f.key = "uid"      -> [out |-> [o EXCEPT !.uid = f.num], set |-> acc.set \cup {"UID"}]
       [] f.key = "realsize" -> [out |-> [o EXCEPT !.asize = f.num], set |-> acc.set \cup {"SPARSE_SIZE"}]
       [] f.key = "major"    -> [out |-> o, set |-> acc.set \cup {"GNU_1_X"}]
       [] f.key = "map"      -> [out |-> [o EXCEPT !.sparse = f.map], set |-> acc.set]
       [] OTHER              -> acc     \* extended attributes, unknown keys

\* Mutant: the flags of the headers before stay set.
read_pax_header_keep(e) ==
  LET o == FoldLeft(apply_handler, [out |-> NoHeader, set |-> set], e.fields)
  IN out' = o.out /\ set' = o.set

(* TAR_TYPE_PAX: the header starts over and its records are applied. *)
read_pax_header(e) ==
  LET o == FoldLeft(apply_handler, [out |-> NoHeader, set |-> {}], e.fields)
  IN out' = o.out /\ set' = o.set

Malformed(e) == e.type = "x" /\ \E k \in 1 .. Len(e.fields) : e.fields[k].key = "malformed"

(* The headers that only say something about the next one.  Their payload  *)
(* must be there, with its padding; a global header is skipped, and that   *)
(* there is not enough to skip is noticed with the next header.            *)
ExtendedHeader ==
  /\ pc = "header" /\ Rest >= BS /\ IsHeader /\ Entry.type \in Extended
  /\ LET e == Entry
         more == Rest - BS >= Padded(e.size)
     IN /\ pos' = IF more THEN pos + BS + Padded(e.size) ELSE Len(arc.bytes)
        /\ \/ /\ e.type = "g"
              /\ UNCHANGED <<out, set>>
           \/ /\ e.type = "L" /\ more /\ e.size \in 1 .. MAXLEN
              /\ out' = [out EXCEPT !.name = e.name]
              /\ set' = set \cup {"NAME"}
           \/ /\ e.type = "K" /\ more /\ e.size \in 1 .. MAXLEN
              /\ out' = [out EXCEPT !.link = e.link]
              /\ set' = set \cup {"LINK"}
           \/ /\ e.type = "x" /\ more /\ e.size \in 1 .. MAXLEN /\ ~Malformed(e)
              /\ read_pax_header(e)
  /\ zero' = FALSE
  /\ UNCHANGED <<arc, pc, tar, ts, recs, taken, result>>

(* Their payload is too long, not there, or not the records of a header. *)
ExtendedFails ==
  /\ pc = "header" /\ Rest >= BS /\ IsHeader /\ Entry.type \in Extended \ {"g"}
  /\ \/ Entry.size \notin 1 .. MAXLEN /\ pos' = pos + BS
     \/ /\ Entry.size \in 1 .. MAXLEN
        /\ Rest - BS < Padded(Entry.size) \/ Malformed(Entry)
        /\ pos' = Least(pos + BS + Padded(Entry.size), Len(arc.bytes))
  /\ Fail
  /\ UNCHANGED arc

(* decode_header: what no extended header has set comes from the entry. *)
decode_header(e, o) ==
  [o EXCEPT !.name  = IF "NAME" \in set THEN @ ELSE e.name,
            !.link  = IF "LINK" \in set \/ e.type \notin {"link", "slink"}
                      THEN @ ELSE e.link,
            !.rsize = IF "SIZE" \in set THEN @ ELSE e.size,
            !.uid   = IF "UID" \in set THEN @ ELSE e.uid,
            !.type  = IF e.type = "S" THEN "file" ELSE e.type]

(* The sparse map of the entry itself: read_gnu_old_sparse reads it from   *)
(* the header and the blocks behind it, read_gnu_new_sparse from the       *)
(* payload, of which it takes it off; one of each for an 'S' entry with    *)
(* the keys of GNU 1.x.                                                    *)
OldSparse(e) == e.type = "S"
NewSparse == "GNU_1_X" \in set

OldBytes(e) == IF OldSparse(e) THEN e.mapblks * BS ELSE 0
NewBytes(e) == IF NewSparse THEN e.mapblks * BS ELSE 0
MapBytes(e) == OldBytes(e) + NewBytes(e)

MapFails(e, o) ==
  /\ OldSparse(e) \/ NewSparse
  /\ e.map = <<>> \/ Rest - BS < MapBytes(e) \/ o.rsize < NewBytes(e)

read_sparse(e, o) ==
  [o EXCEPT !.sparse = IF OldSparse(e) \/ NewSparse THEN e.map ELSE @,
            !.asize  = IF OldSparse(e) THEN e.real ELSE @,
            !.rsize  = @ - NewBytes(e)]

(* The header of an entry ends read_header. *)
EntryHeader ==
  /\ pc = "header" /\ Rest >= BS /\ IsHeader /\ Entry.type \notin Extended \cup {"bad"}
  /\ LET e == Entry
         o == decode_header(e, out)
         r == read_sparse(e, o)
     IN IF MapFails(e, o)
        THEN pos' = Least(pos + BS + MapBytes(e), Len(arc.bytes)) /\ Fail
        ELSE /\ pos' = pos + BS + MapBytes(e)
             /\ out' = [r EXCEPT !.asize = IF r.sparse = <<>> THEN r.rsize ELSE @]
             /\ pc' = "record"
             /\ UNCHANGED <<set, zero, tar, ts, recs, taken, result>>
  /\ UNCHANGED arc

-----------------------------------------------------------------------------
(* What get_next_record makes of the header. *)
SumOf(map) == FoldLeft(LAMBDA n, r : n + r.count, 0, map)

Ordered(map) == \A i \in 1 .. Len(map) - 1 :
                  map[i].offset + map[i].count <= map[i + 1].offset

Skipped(o) ==
  \/ o.name = "" \/ o.type = "unknown"
  \/ o.sparse # <<>> /\ (~Ordered(o.sparse) \/ SumOf(o.sparse) # o.rsize)

(* An entry without a name, of an unknown type or with a map that does not *)
(* fit is passed over, and read_header starts afresh.                      *)
SkipEntry ==
  /\ pc = "record" /\ Skipped(out)
  /\ IF Rest < Padded(out.rsize)
     THEN pos' = Len(arc.bytes) /\ Fail
     ELSE /\ pos' = pos + Padded(out.rsize)
          /\ out' = NoHeader /\ set' = {} /\ zero' = FALSE /\ pc' = "header"
          /\ UNCHANGED <<tar, ts, recs, taken, result>>
  /\ UNCHANGED arc

(* Any other is returned; a regular file with its stream, if asked for,    *)
(* which locks the source until it is dropped.                             *)
ReturnRecord ==
  /\ pc = "record" /\ ~Skipped(out)
  /\ LET strm == tar.want /\ out.type = "file"
     IN /\ tar' = [tar EXCEPT !.apparent = out.asize, !.left = Padded(out.rsize),
                              !.locked = strm]
        /\ ts' = [NoStream EXCEPT !.sparse = IF strm THEN out.sparse ELSE <<>>]
        /\ taken' = Append(taken, [strm |-> strm, bytes |-> <<>>, end |-> FALSE])
  /\ recs' = Append(recs, [type |-> out.type, name |-> out.name, link |-> out.link,
                           uid |-> out.uid, size |-> out.asize])
  /\ out' = NoHeader /\ pc' = "idle"
  /\ UNCHANGED <<arc, pos, set, zero, result>>

-----------------------------------------------------------------------------
(* The stream of the file.  The reader takes what is in the buffer and has *)
(* it filled again, until nothing comes.                                   *)
Cur == Len(taken)

ReadStream ==
  /\ pc = "idle" /\ result = "ok" /\ tar.locked /\ ~taken[Cur].end
  /\ IF ts.eof
     THEN taken' = [taken EXCEPT ![Cur].end = TRUE] /\ UNCHANGED <<ts, pc>>
     ELSE ts' = [ts EXCEPT !.buf = <<>>] /\ pc' = "fill" /\ UNCHANGED taken
  /\ UNCHANGED <<arc, pos, out, set, zero, tar, recs, result>>

(* It may be dropped at any time, read or not. *)
tar_istream_destroy ==
  /\ pc = "idle" /\ result = "ok" /\ tar.locked
  /\ tar' = [tar EXCEPT !.locked = FALSE]
  /\ ts' = NoStream
  /\ UNCHANGED <<arc, pos, pc, out, set, zero, recs, taken, result>>

(* How much may still go into the buffer. *)
Room == Least(BUFSZ - Len(ts.buf), tar.apparent)

(* tar_istream_precache has filled the buffer or met the end of the file. *)
FillDone ==
  /\ pc = "fill" /\ Room = 0
  /\ ts' = [ts EXCEPT !.eof = Len(ts.buf) < BUFSZ]
  /\ taken' = [taken EXCEPT ![Cur].bytes = @ \o ts.buf,
                            ![Cur].end = ts.buf = <<>>]
  /\ pc' = "idle"
  /\ UNCHANGED <<arc, pos, out, set, zero, tar, recs, result>>

InHole == ts.sparse # <<>> /\ ts.sparse[1].offset > ts.offset

(* A hole: as many zeros as its length, taken as an int32_t, allows. *)
HoleBytes ==
  LET n == (ts.sparse[1].offset - ts.offset) % WRAP
  IN IF n >= WRAP \div 2 \/ n > Room THEN Room ELSE n

FillHole ==
  /\ pc = "fill" /\ Room > 0 /\ InHole
  /\ LET n == HoleBytes
     IN /\ ts' = [ts EXCEPT !.buf = @ \o [i \in 1 .. n |-> Zero], !.offset = @ + n]
        /\ tar' = [tar EXCEPT !.apparent = @ - n]
  /\ UNCHANGED <<arc, pos, pc, out, set, zero, recs, taken, result>>

Region == ts.sparse # <<>> /\ ~InHole
Available == ts.sparse[1].offset + ts.sparse[1].count - ts.offset

\* Mutant: the next region is not taken.
NextRegion_stay ==
  /\ pc = "fill" /\ Room > 0 /\ Region /\ Available <= 0
  /\ UNCHANGED <<arc, pos, pc, out, set, zero, tar, ts, recs, taken, result>>

(* The current region is used up. *)
NextRegion ==
  /\ pc = "fill" /\ Room > 0 /\ Region /\ Available <= 0
  /\ ts' = [ts EXCEPT !.sparse = Tail(@)]
  /\ UNCHANGED <<arc, pos, pc, out, set, zero, tar, recs, taken, result>>

\* Mutant: a region may be read past its end.
ReadLimit_none == Room

(* At most what the region still has may be read. *)
ReadLimit == IF Region THEN Least(Room, Available) ELSE Room

(* Data comes from the archive; that it ends early ends the file as well.  *)
(* When the map is used up and the file is said to be longer, what follows *)
(* the data in the archive is taken for it, padding and headers, and what  *)
(* is left for get_next_record to skip goes below zero.                    *)
FillData ==
  /\ pc = "fill" /\ Room > 0 /\ ~InHole /\ (Region => Available > 0)
  /\ LET n == Least(ReadLimit, Rest)
     IN IF n = 0
        THEN /\ ts' = [ts EXCEPT !.eof = TRUE]
             /\ taken' = [taken EXCEPT ![Cur].bytes = @ \o ts.buf,
                                       ![Cur].end = ts.buf = <<>>]
             /\ pc' = "idle"
             /\ UNCHANGED <<pos, tar>>
        ELSE /\ ts' = [ts EXCEPT !.buf = @ \o Bytes(n), !.offset = @ + n]
             /\ pos' = pos + n
             /\ tar' = [tar EXCEPT !.apparent = @ - n, !.left = (@ - n) % (WRAP * WRAP)]
             /\ UNCHANGED <<pc, taken>>
  /\ UNCHANGED <<arc, out, set, zero, recs, result>>

-----------------------------------------------------------------------------
Init ==
  /\ arc \in Archives
  /\ pos = 0 /\ pc = "idle" /\ out = NoHeader /\ set = {} /\ zero = FALSE
  /\ tar = [left |-> 0, apparent |-> 0, locked |-> FALSE, want |-> FALSE]
  /\ ts = NoStream /\ recs = <<>> /\ taken = <<>> /\ result = "ok"

Work ==
  \/ AtEnd \/ ZeroBlock \/ BadHeader \/ ExtendedHeader \/ ExtendedFails
  \/ EntryHeader \/ SkipEntry \/ ReturnRecord
  \/ FillDone \/ FillHole \/ NextRegion \/ FillData

Next ==
  \/ \E want \in BOOLEAN : get_next_record(want)
  \/ ReadStream \/ tar_istream_destroy
  \/ Work

Spec == Init /\ [][Next]_vars /\ WF_vars(Work)

-----------------------------------------------------------------------------
(* The members of the archive, read off its entries: an entry that is not  *)
(* an extended header, with the extended headers in front of it.           *)
Ends(a) == {i \in 1 .. Len(a.ents) : a.ents[i].type \notin Extended}

Before(a, i) ==
  LET from == {j \in Ends(a) : j < i} \cup {0}
      last == CHOOSE j \in from : \A k \in from : k <= j
      pax  == {j \in last + 1 .. i - 1 : a.ents[j].type = "x"}
      first == IF pax = {} THEN last + 1 ELSE CHOOSE j \in pax : \A k \in pax : k <= j
  IN SubSeq(a.ents, first, i - 1)

(* The last value the extended headers give a field, or the entry's own. *)
Value(a, i, type, key, own) ==
  LET ext  == Before(a, i)
      vals(e) == IF e.type = type THEN <<IF type = "L" THEN e.name ELSE e.link>>
                 ELSE IF e.type # "x" THEN <<>>
                 ELSE LET fs == SelectSeq(e.fields, LAMBDA f : f.key = key)
                      IN [k \in 1 .. Len(fs) |-> IF key \in {"path", "linkpath"}
                                                 THEN fs[k].val ELSE fs[k].num]
      all  == FoldLeft(LAMBDA s, e : s \o vals(e), <<>>, ext)
  IN IF all = <<>> THEN own ELSE all[Len(all)]

PaxMap(a, i) ==
  LET ms == FoldLeft(LAMBDA s, e : IF e.type # "x" THEN s
                       ELSE s \o SelectSeq(e.fields, LAMBDA f : f.key = "map"),
                     <<>>, Before(a, i))
  IN IF ms = <<>> THEN a.ents[i].map ELSE ms[Len(ms)].map

Stored(a, i) == Value(a, i, "-", "size", a.ents[i].size)
                  - (IF a.ents[i].type = "S" THEN 0 ELSE a.ents[i].mapblks * BS)

RecordOf(a, i) ==
  LET e == a.ents[i]
  IN [type |-> IF e.type = "S" THEN "file" ELSE e.type,
      name |-> Value(a, i, "L", "path", e.name),
      link |-> IF e.type \in {"link", "slink"} THEN Value(a, i, "K", "linkpath", e.link)
               ELSE Value(a, i, "K", "linkpath", ""),
      uid  |-> Value(a, i, "-", "uid", e.uid),
      size |-> IF PaxMap(a, i) = <<>> THEN Stored(a, i)
               ELSE Value(a, i, "-", "realsize", e.real)]

(* Where the header of entry i is. *)
HeaderAt(a, i) ==
  LET at == {p \in 1 .. Len(a.bytes) : a.bytes[p].t = "hdr" /\ a.bytes[p].v = i}
  IN IF at = {} THEN Len(a.bytes) ELSE (CHOOSE p \in at : TRUE) - 1

(* The entries that should be returned. *)
Wanted(a) ==
  SelectSeq([i \in 1 .. Len(a.ents) |-> i],
            LAMBDA i : /\ i \in Ends(a) /\ a.ents[i].type \notin {"unknown", "bad"}
                       /\ RecordOf(a, i).name # ""
                       /\ LET m == PaxMap(a, i)
                          IN m = <<>> \/ (Ordered(m) /\ SumOf(m) = Stored(a, i))
                       /\ HeaderAt(a, i) + BS <= Len(a.bytes))

(* Every entry comes back once, in order, with the name, the link target,  *)
(* the numbers and the size its own extended headers give it and nothing   *)
(* left from the headers of another entry, whatever the caller did with    *)
(* the data of the entries before it: read all, some or none of it.  The   *)
(* end is reported only when there is no other, and an archive without a   *)
(* bad header, a malformed PAX record or a map that leaves out the end of  *)
(* its file, and that was not cut off, causes no error.                    *)
RecordsRight ==
  LET w == Wanted(arc)
  IN /\ Len(recs) <= Len(w)
     /\ \A k \in 1 .. Len(recs) : recs[k] = RecordOf(arc, w[k])
     /\ result = "eof" => Len(recs) = Len(w)
     /\ arc.good => result # "error"

(* The content of a file: its data at the places the map says, zeros       *)
(* everywhere else.  The data of entry i is numbered in the archive.       *)
ContentOf(a, i) ==
  LET m   == PaxMap(a, i)
      rec == RecordOf(a, i)
      before(k) == SumOf(SubSeq(m, 1, k - 1))
      byte(n) == LET in == {k \in 1 .. Len(m) : n - 1 \in m[k].offset .. m[k].offset + m[k].count - 1}
                 IN IF m = <<>> THEN [t |-> "data", v |-> 100 * i + n]
                    ELSE IF in = {} THEN Zero
                    ELSE LET k == CHOOSE k \in in : TRUE
                         IN [t |-> "data", v |-> 100 * i + before(k) + n - m[k].offset]
  IN [n \in 1 .. rec.size |-> byte(n)]

(* Up to where the map of entry i says what is data and what is not. *)
Mapped(a, i) ==
  LET m == PaxMap(a, i)
  IN IF m = <<>> THEN RecordOf(a, i).size
     ELSE Least(m[Len(m)].offset + m[Len(m)].count, RecordOf(a, i).size)

MapsAll(a, i) == Mapped(a, i) = RecordOf(a, i).size

(* What is read from the stream of a file, in any pieces, is that file's   *)
(* content, as far as its map goes and up to where the archive may have    *)
(* been cut off; if the archive was cut off inside a file that was read,   *)
(* the end of the archive is not reported as a regular one.  Behind the    *)
(* last region of a map that does not go to the end of its file nothing is *)
(* promised.  The buffer of the stream is never overrun.                   *)
ContentRight ==
  LET w == Wanted(arc)
  IN /\ Len(ts.buf) <= BUFSZ
     /\ \A k \in 1 .. Len(taken) :
          LET n == Least(Len(taken[k].bytes), Mapped(arc, w[k]))
          IN /\ IsPrefix(SubSeq(taken[k].bytes, 1, n), ContentOf(arc, w[k]))
             /\ MapsAll(arc, w[k]) => Len(taken[k].bytes) = n
             /\ taken[k].end /\ result = "eof" /\ MapsAll(arc, w[k])
                  => taken[k].bytes = ContentOf(arc, w[k])

(* Without that exception it does not hold: with its list of regions empty *)
(* tar_istream_precache reads on, padding and the next header included.    *)
AllContentRight ==
  \A k \in 1 .. Len(taken) : IsPrefix(taken[k].bytes, ContentOf(arc, Wanted(arc)[k]))

(* Every call returns: neither the loop over the headers nor the one that  *)
(* fills the buffer of a stream goes on for ever.                          *)
CallsReturn == pc # "idle" ~> pc = "idle"
=============================================================================
