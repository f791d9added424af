----------------------------- MODULE FileListing -----------------------------
(***************************************************************************)
(* The listing file source: lines like                                     *)
(*     nod /dev/console 0600 6 7 c 13 37                                   *)
(* are parsed by add_line, packed into byte records in a list of fixed     *)
(* size pools and unpacked again by get_next_record.  A listing is the     *)
(* value [pool_list, offset]; the module has operators on such values and  *)
(* no variables.                                                           *)
(*                                                                         *)
(* Bytes are the numbers 0..255.  The text of a line is given by its       *)
(* fields: keyword, file name, how many of the three numbers mode, UID and *)
(* GID can be read, their values, and the remaining words.  A path is a    *)
(* sequence of components, each a sequence of bytes.                       *)
(***************************************************************************)
EXTENDS Integers, Sequences, SequencesExt, FiniteSetsExt

CONSTANTS
  PoolSize,      \* sizeof(((pool_t *)0)->buffer), 1024 in the code
  LengthValues   \* the values of a length byte, 256 in the code

\* Every record whose lengths fit their bytes fits a pool.
ASSUME PoolSizeAssumption ==
  /\ PoolSize \in Nat /\ LengthValues \in Nat /\ LengthValues >= 4
  /\ PoolSize >= 43 + 2 * LengthValues

(* FILE_SOURCE_TYPE in the order of the enum. *)
DIR       == 0
FILE      == 1
FIFO      == 2
SOCKET    == 3
CHAR_DEV  == 4
BLOCK_DEV == 5
SYMLINK   == 6
HARD_LINK == 7

keywords == [dir |-> DIR, file |-> FILE, pipe |-> FIFO, sock |-> SOCKET,
             nod |-> CHAR_DEV, slink |-> SYMLINK, link |-> HARD_LINK]

Dot   == <<46>>      \* the component "."
Slash == 47

(* The text of a path. *)
PathText(comps) ==
  FoldLeft(LAMBDA s, c : IF s = <<>> THEN c ELSE s \o <<Slash>> \o c, <<>>, comps)

(* fstree_canonicalize_path: no empty and no "." components are left. *)
canonicalize_path(comps) == SelectSeq(comps, LAMBDA c : c # <<>> /\ c # Dot)

Bad == [type |-> -1]

(* add_line up to the encoding: the entry a line stands for, or Bad.  The  *)
(* device letter may turn CHAR_DEV into BLOCK_DEV; a regular file may name *)
(* the file its data comes from; the name, and the target of a hard link   *)
(* or a file, are made canonical, the target of a symlink is not.  makedev *)
(* is for major numbers below 4096 and minor numbers below 256.            *)
parse_line(l) ==
  LET kw   == l.keyword
      type == IF kw = "nod" /\ l.extra # <<>> /\ l.extra[1] = "b"
              THEN BLOCK_DEV ELSE keywords[kw]
      raw  == IF l.extra = <<>> THEN <<>> ELSE l.extra[1]
      target == IF type \in {FILE, HARD_LINK} THEN canonicalize_path(raw) ELSE raw
      wellformed ==
        /\ kw \in DOMAIN keywords
        /\ l.name # <<>>
        /\ l.numbers = 3
        /\ CASE kw = "nod"  -> Len(l.extra) = 3 /\ l.extra[1] \in {"b", "c"}
             [] kw = "file" -> Len(l.extra) <= 1 /\ (l.extra # <<>> => target # <<>>)
             [] kw = "slink" -> Len(l.extra) = 1
             [] kw = "link"  -> Len(l.extra) = 1 /\ target # <<>>
             [] OTHER        -> l.extra = <<>>
  IN IF ~wellformed THEN Bad
     ELSE [type   |-> type,
           mode   |-> l.mode, uid |-> l.uid, gid |-> l.gid,
           name   |-> PathText(canonicalize_path(l.name)),
           target |-> IF type \in {FILE, SYMLINK, HARD_LINK}
                      THEN PathText(target) ELSE <<>>,
           devno  |-> IF kw = "nod" THEN l.extra[2] * 256 + l.extra[3] ELSE 0]

-----------------------------------------------------------------------------
(* The two length bits of a UID or a GID. *)
IdLen(id) == CASE id <= 15 -> 0 [] id \in 16 .. 255 -> 1
               [] id \in 256 .. 65535 -> 2 [] OTHER -> 3

Byte(v, k) == (v \div 256 ^ k) % 256

store_u32(v, len) ==
  CASE len = 3 -> <<Byte(v, 3), Byte(v, 2), Byte(v, 1), Byte(v, 0)>>
    [] len = 2 -> <<Byte(v, 1), Byte(v, 0)>>
    [] OTHER   -> <<Byte(v, 0)>>

\* Mutant: the group ID is not looked at when both IDs could share a byte.
get_encoded_size_uid(e) ==
  Len(e.name) + (IF Len(e.name) > 31 THEN 3 ELSE 2)
    + (IF e.type \in {HARD_LINK, SYMLINK} THEN 0 ELSE 1)
    + (IF e.type = HARD_LINK THEN 0 ELSE IF e.uid <= 15 THEN 1 ELSE 2)
    + (CASE e.type \in {CHAR_DEV, BLOCK_DEV}    -> 4
         [] e.type \in {SYMLINK, HARD_LINK, FILE} -> 1 + Len(e.target)
         [] OTHER                                 -> 0)

(* The bytes a record is said to take; encode_entry must write as many. *)
get_encoded_size(e) ==
  LET idlen(id) == IF id <= 255 THEN 1 ELSE IF id <= 65535 THEN 2 ELSE 4
  IN  2 + (IF Len(e.name) > 31 THEN 1 ELSE 0) + Len(e.name)
        + (IF e.type \in {HARD_LINK, SYMLINK} THEN 0 ELSE 1)
        + (IF e.type = HARD_LINK THEN 0
           ELSE IF e.uid <= 15 /\ e.gid <= 15 THEN 1
           ELSE idlen(e.uid) + idlen(e.gid))
        + (CASE e.type \in {CHAR_DEV, BLOCK_DEV}    -> 4
             [] e.type \in {SYMLINK, HARD_LINK, FILE} -> 1 + Len(e.target)
             [] OTHER                                 -> 0)

encode_entry(e) ==
  LET n  == Len(e.name)
      ul == IdLen(e.uid)
      gl == IdLen(e.gid)
  IN  <<e.type + (IF n <= 31 THEN n * 8 ELSE 0),
        ul * 64 + gl * 16 + ((e.mode \div 256) % 16)>>
      \o (IF e.type \in {HARD_LINK, SYMLINK} THEN <<>> ELSE <<e.mode % 256>>)
      \o (IF e.type = HARD_LINK THEN <<>>
          ELSE IF ul = 0 /\ gl = 0 THEN <<e.uid * 16 + e.gid>>
          ELSE store_u32(e.uid, ul) \o store_u32(e.gid, gl))
      \o (IF n > 31 THEN <<(n - 32) % LengthValues>> ELSE <<>>)
      \o e.name
      \o (CASE e.type \in {CHAR_DEV, BLOCK_DEV}  -> store_u32(e.devno, 3)
            [] e.type \in {SYMLINK, HARD_LINK}   -> <<(Len(e.target) - 1) % LengthValues>> \o e.target
            [] e.type = FILE                     -> <<Len(e.target) % LengthValues>> \o e.target
            [] OTHER                             -> <<>>)

(* A byte of a pool; the ones never written are zero. *)
ByteAt(buf, o) == IF o < Len(buf) THEN buf[o + 1] ELSE 0

(* The index of the first pool with room for size bytes; one behind the    *)
(* last when a pool has to be added.  The room is a size_t: a pool that    *)
(* was written past its end seems to have plenty.                          *)
get_pool(pools, size) ==
  Min({i \in 1 .. Len(pools) :
         pools[i].used > PoolSize \/ PoolSize - pools[i].used >= size} \cup {Len(pools) + 1})

file_source_listing_create == [pool_list |-> <<>>, offset |-> 0]

(* The end of add_line: the record is written behind the used part of its  *)
(* pool, which then grows by the computed size.  Nothing stops a record    *)
(* from being longer than a pool; what is written past the end of one is   *)
(* undefined: it stays there (kept) or is lost.                            *)
store_entry(lst, e, kept) ==
  LET size  == get_encoded_size(e)
      i     == get_pool(lst.pool_list, size)
      pools == IF i > Len(lst.pool_list)
               THEN Append(lst.pool_list, [used |-> 0, buffer |-> <<>>])
               ELSE lst.pool_list
      p     == pools[i]
      all   == [o \in 1 .. p.used |-> ByteAt(p.buffer, o - 1)] \o encode_entry(e)
  IN [lst EXCEPT !.pool_list =
        [pools EXCEPT ![i] = [used   |-> (p.used + size) % 65536,
                              buffer |-> IF kept THEN all
                                         ELSE SubSeq(all, 1, Min({PoolSize, Len(all)}))]]]

-----------------------------------------------------------------------------
(* The pool that holds the linear offset of the reader, 0 if none does,    *)
(* and the bytes of the pools before it.                                   *)
UsedBefore(pools, i) == FoldLeft(LAMBDA s, p : s + p.used, 0, SubSeq(pools, 1, i - 1))

PoolAt(lst) ==
  LET ok == {i \in 1 .. Len(lst.pool_list) :
               lst.offset < UsedBefore(lst.pool_list, i) + lst.pool_list[i].used}
  IN IF ok = {} THEN 0 ELSE Min(ok)

AtEnd(lst) == PoolAt(lst) = 0

load_u32(buf, o, len) ==
  CASE len = 3 -> ByteAt(buf, o) * 16777216 + ByteAt(buf, o + 1) * 65536
                    + ByteAt(buf, o + 2) * 256 + ByteAt(buf, o + 3)
    [] len = 2 -> ByteAt(buf, o) * 256 + ByteAt(buf, o + 1)
    [] OTHER   -> ByteAt(buf, o)

LoadedLen(len) == CASE len = 3 -> 4 [] len = 2 -> 2 [] OTHER -> 1

Header == [type : Nat, short : Nat, ul : Nat, gl : Nat, perm : Nat, next : Nat]
Owner  == [uid : Nat, gid : Nat, next : Nat]
Extent == [at : Nat, len : Nat]

(* The fixed part of the record at offset o of a pool. *)
decode_header[buf \in Seq(Nat), o \in Nat] ==
  LET type  == ByteAt(buf, o) % 8
      flags == ByteAt(buf, o + 1)
  IN [type  |-> type,
      short |-> ByteAt(buf, o) \div 8,
      ul    |-> flags \div 64,
      gl    |-> (flags \div 16) % 4,
      perm  |-> CASE type = HARD_LINK -> 511
                  [] type = SYMLINK   -> 511 + ((flags % 16) \div 2) * 512
                  [] OTHER            -> (flags % 16) * 256 + ByteAt(buf, o + 2),
      next  |-> o + (IF type \in {HARD_LINK, SYMLINK} THEN 2 ELSE 3)]

(* UID and GID behind header h. *)
decode_ids[buf \in Seq(Nat), h \in Header] ==
  CASE h.type = HARD_LINK -> [uid |-> 0, gid |-> 0, next |-> h.next]
    [] h.type # HARD_LINK /\ h.ul = 0 /\ h.gl = 0 ->
         [uid |-> ByteAt(buf, h.next) \div 16, gid |-> ByteAt(buf, h.next) % 16,
          next |-> h.next + 1]
    [] OTHER ->
         [uid  |-> load_u32(buf, h.next, h.ul),
          gid  |-> load_u32(buf, h.next + LoadedLen(h.ul), h.gl),
          next |-> h.next + LoadedLen(h.ul) + LoadedLen(h.gl)]

(* Where the name is and how long it is: no length means a length byte. *)
decode_name[buf \in Seq(Nat), h \in Header, o \in Nat] ==
  IF h.short = 0 THEN [at |-> o + 1, len |-> 32 + ByteAt(buf, o)]
  ELSE [at |-> o, len |-> h.short]

(* The record behind the name: device number or target. *)
decode_rest[buf \in Seq(Nat), h \in Header, ids \in Owner, name \in Extent] ==
  LET o    == name.at + name.len
      dev  == h.type \in {CHAR_DEV, BLOCK_DEV}
      tlen == CASE h.type \in {SYMLINK, HARD_LINK} -> ByteAt(buf, o) + 1
                [] h.type = FILE -> ByteAt(buf, o)
                [] OTHER -> 0
      \* strndup stops at a zero byte
      text(p, n) ==
        SubSeq(buf, p + 1, Min({o1 \in p .. p + n - 1 : ByteAt(buf, o1) = 0} \cup {p + n}))
  IN [record |-> [type |-> h.type, mode |-> h.perm, uid |-> ids.uid, gid |-> ids.gid,
                  name |-> text(name.at, name.len), target |-> text(o + 1, tlen),
                  devno |-> IF dev THEN load_u32(buf, o, 3) ELSE 0],
      next |-> CASE dev -> o + 4
                 [] h.type \in {SYMLINK, HARD_LINK, FILE} -> o + 1 + tlen
                 [] OTHER -> o]

(* get_next_record, when the reader is not at the end: the record found at *)
(* the offset and the number of bytes it took.                             *)
decode_entry(lst) ==
  LET i     == PoolAt(lst)
      start == lst.offset - UsedBefore(lst.pool_list, i)
      buf   == lst.pool_list[i].buffer
      h     == decode_header[buf, start]
      ids   == decode_ids[buf, h]
      d     == decode_rest[buf, h, ids, decode_name[buf, h, ids.next]]
  IN [record |-> d.record, bytes |-> d.next - start]

(* The reader moves on only when the record is handed out. *)
advance(lst) == [lst EXCEPT !.offset = @ + decode_entry(lst).bytes]

(* The format has room for the entry: no empty name (that of the root      *)
(* directory), and lengths that fit their bytes.                           *)
Fits(e) ==
  /\ Len(e.name) \in 1 .. 31 + LengthValues
  /\ Len(e.target) <= (IF e.type = FILE THEN LengthValues - 1 ELSE LengthValues)

(* What get_next_record hands out for an entry: links have fixed           *)
(* permissions and a hard link has no owner.                               *)
Expected(e) ==
  CASE e.type = HARD_LINK -> [e EXCEPT !.mode = 511, !.uid = 0, !.gid = 0]
    [] e.type = SYMLINK   -> [e EXCEPT !.mode = 511 + (((@ \div 256) % 16) \div 2) * 512]
    [] OTHER              -> e
=============================================================================
