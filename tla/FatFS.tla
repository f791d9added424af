------------------------------- MODULE FatFS --------------------------------
(***************************************************************************)
(* build_format of the FAT filesystem: short names for all entries, the    *)
(* directories in a gap in front of the files, all of it moved up behind   *)
(* the two FATs, and the FATs written through a window that slides over    *)
(* them.  The unit of sizes is a directory entry; FAT offsets count        *)
(* entries of the FAT.  The tree keeps its data in blocks of the preferred *)
(* cluster size, the clusters of the image may be smaller.                 *)
(***************************************************************************)
EXTENDS FSTree, FiniteSets, FiniteSetsExt

CONSTANTS BaseLen, ExtLen,  \* characters of a short name: 8 and 3
          GenBase, MaxGen,  \* the ~number: decimal, up to 999999
          LongChars,        \* characters in a long name entry: 13
          ToUpper,          \* a function on the lower case letters
          Illegal,          \* characters a short name cannot have, " " and "." too
          NonAscii,         \* what is not in the ASCII range, e.g. a UTF-8 sequence
          SecUnits,         \* directory entries in a sector: 16
          Pref,             \* sectors in a block of the tree: 8
          MinSectors,       \* FAT32_MIN_SECTORS
          EntPerSec,        \* FAT32_ENTRIES_PER_SECTOR
          Window,           \* entries in FAT_WINDOW_SIZE
          Reserved,         \* FAT32_RESERVED_COUNT
          Volumes,          \* the volumes it is built on: [sectors, max]
          Records,          \* what can be added: [type, path, size]
          MaxNodes          \* bound: nodes besides the root

VARIABLES vol,              \* sectors the volume has now, and at most
          tree, size,       \* size: per node, in units
          dir,              \* per directory, where it starts and its size
          ents,             \* per directory, the entries written
          spc, spf,         \* sectors per cluster and per FAT
          first,            \* per file, start_index in clusters
          base,             \* the sector the data of the tree starts at
          super,            \* super block and info sector
          fat, window, winoff, chains, done,
          pc, result

layout == <<dir, ents, spc, spf, first, base, super>>
fats   == <<fat, window, winoff, chains, done>>
vars   == <<vol, tree, size, layout, fats, pc, result>>

Units    == Pref * SecUnits        \* CLUSTER_SIZE_PREFERRED
Up(n, m) == (n + m - 1) \div m
CLUSTER_OFFSET == 2
EOC   == -1
Media == -2

-----------------------------------------------------------------------------
(* Short names. *)
Blank(n) == [i \in 1 .. n |-> " "]

\* The loop that looks for the extension; 0 is NULL.
FindExt(name) ==
  LET step(a, i) == CASE name[i] = " " -> a
                      [] name[i] = "." -> IF a.cand = 0 THEN [a EXCEPT !.cand = i + 1] ELSE a
                      [] OTHER -> [ext |-> IF a.cand # 0 THEN a.cand ELSE a.ext, cand |-> 0]
  IN FoldLeft(step, [ext |-> 0, cand |-> 0], [i \in 1 .. Len(name) |-> i])

\* Every run of illegal characters is one "_"; what does not fit, or is
\* changed to one, has to get a number.
convert(text, outlen) ==
  LET bad(i) == text[i] \in Illegal
      keep   == SelectSeq([i \in 1 .. Len(text) |-> i],
                          LAMBDA i : bad(i) => (i = 1 \/ ~bad(i - 1)))
      out    == SubSeq(keep, 1, Min({outlen, Len(keep)}))
      ch(i)  == CASE bad(i) -> "_"
                  [] text[i] \in DOMAIN ToUpper -> ToUpper[text[i]]
                  [] OTHER -> text[i]
  IN [text |-> [k \in 1 .. outlen |-> IF k <= Len(out) THEN ch(out[k]) ELSE " "],
      conv |-> IF Len(keep) > outlen \/ \E k \in 1 .. Len(out) : bad(out[k]) THEN "suffixed"
               ELSE IF \E k \in 1 .. Len(out) : text[out[k]] \in DOMAIN ToUpper THEN "ok"
               ELSE "same"]

\* snprintf of "~%u" in base GenBase.
GenText(gen) ==
  LET digits[n \in 0 .. MaxGen] ==
        IF n = 0 THEN <<>> ELSE Append(digits[n \div GenBase], ToString(n % GenBase))
  IN <<"~">> \o digits[gen]

\* The number replaces the last character, or as many as it needs.
append_generation(text, gen) ==
  LET last == Max({1} \cup {i \in 1 .. BaseLen : text[i] # " "})
      gt   == GenText(gen)
      at   == Min({last, BaseLen - Len(gt) + 1})
  IN [i \in 1 .. BaseLen |-> IF i \in at .. at + Len(gt) - 1 THEN gt[i - at + 1] ELSE text[i]]

\* The name and the extension of a name that starts with neither " " nor ".".
Parts(name) ==
  LET f    == FindExt(name)
      end  == IF f.cand = 0 THEN Len(name) ELSE f.cand - 1
      last == Max({i \in 1 .. Len(name) : name[i] \notin {" ", "."}})
  IN IF f.ext = 0 THEN [stem |-> SubSeq(name, 1, last), ext |-> <<>>]
     ELSE [stem |-> SubSeq(name, 1, f.ext - 2), ext |-> SubSeq(name, f.ext, end)]

NoName == [conv |-> "error", base |-> <<>>, ext |-> <<>>]

\* The converted parts of a name, with a number if they need one.
Assemble(b, e, gen) ==
  LET conv == IF "suffixed" \in {e.conv, b.conv} THEN "suffixed"
              ELSE IF "ok" \in {e.conv, b.conv} THEN "ok" ELSE "same"
  IN IF conv # "suffixed" /\ gen = 1 THEN [conv |-> conv, base |-> b.text, ext |-> e.text]
     ELSE IF gen > MaxGen THEN NoName
     ELSE [conv |-> "suffixed", base |-> append_generation(b.text, gen), ext |-> e.text]

Converted(p, gen) ==
  Assemble(IF p.stem = <<>> THEN [text |-> [Blank(BaseLen) EXCEPT ![1] = "_"], conv |-> "same"]
           ELSE convert(p.stem, BaseLen),
           convert(p.ext, ExtLen), gen)

(* fatfs_mk_shortname: [conv, base, ext]. *)
fatfs_mk_shortname(name, gen) ==
  IF name[1] \in {" ", "."} THEN NoName ELSE Converted(Parts(name), gen)

\* Mutant: only the entry before is looked at.
Taken_last(list, s) == list # <<>> /\ list[Len(list)].s.base = s.base /\ list[Len(list)].s.ext = s.ext

(* is_in_short_name_list *)
Taken(list, s) == \E i \in 1 .. Len(list) : list[i].s.base = s.base /\ list[i].s.ext = s.ext

(* The do-while loop: the first number whose name is not taken, or that    *)
(* there is none.                                                          *)
ShortName(name, list) ==
  LET stop(s) == {g \in DOMAIN s : s[g].conv = "error" \/ ~Taken(list, s[g])}
  IN Only({s[Min(stop(s))] : s \in {[g \in 1 .. MaxGen + 1 |-> fatfs_mk_shortname(name, g)]}})

(* The children of directory n with their short names; conv is "error" for *)
(* what cannot be stored.                                                  *)
Named(t, n) ==
  LET add(list, c) ==
        LET nm == t.nodes[c].name
            ok == /\ \A i \in 1 .. Len(nm) : nm[i] \notin NonAscii
                  /\ t.nodes[c].type \in {"dir", "file"}
        IN Append(list, [n |-> c, s |-> IF ok THEN ShortName(nm, list) ELSE NoName])
  IN FoldLeft(LAMBDA a, c : Only({add(list, c) : list \in {a}}), <<>>, t.nodes[n].kids)

LongCount(name) == Up(Len(name) + 1, LongChars)

(* write_long_entry: the last part of the name comes first.  The checksum  *)
(* is the short name itself.                                               *)
LongEntries(name, short) ==
  LET text  == Append(name, "NUL")
      count == LongCount(name)
      part(i) == SubSeq(text, (i - 1) * LongChars + 1, Min({i * LongChars, Len(text)}))
  IN [k \in 1 .. count |-> [k |-> "long", seq |-> count - k + 1, last |-> k = 1,
                            text |-> part(count - k + 1), sum |-> <<short.base, short.ext>>]]

\* get_cluster_index, in units.
Cluster(start, s) == start \div (SecUnits * s) + CLUSTER_OFFSET

(* fatfs_serialize_directory, with the locations that are known by then.   *)
Serialize(t, n, d, s, f, sz) ==
  LET dots == <<[k |-> "dot", cluster |-> Cluster(d[n].start, s)],
                [k |-> "dotdot", cluster |-> IF t.nodes[n].parent = 1 THEN 0
                                             ELSE Cluster(d[t.nodes[n].parent].start, s)]>>
      short(c) == [k |-> "short", base |-> c.s.base, ext |-> c.s.ext, type |-> t.nodes[c.n].type,
                   cluster |-> IF t.nodes[c.n].type = "dir" THEN Cluster(d[c.n].start, s)
                               ELSE f[c.n] + CLUSTER_OFFSET,
                   size |-> IF t.nodes[c.n].type = "dir" THEN d[c.n].size ELSE sz[c.n]]
      entry(c) == (IF c.s.conv \in {"ok", "suffixed"}
                   THEN LongEntries(t.nodes[c.n].name, c.s) ELSE <<>>) \o <<short(c)>>
      all(list) == FlattenSeq([i \in 1 .. Len(list) |-> entry(list[i])])
  IN (IF n = 1 THEN <<>> ELSE dots) \o Only({all(list) : list \in {Named(t, n)}})

-----------------------------------------------------------------------------
Grow(v, s) == [v EXCEPT !.sectors = Max({@, Up(s, Pref) * Pref})]

\* A record that makes a node, with its data (ArchiveFS and FSTreeFiles have
\* what else can happen then).
AddRecord(rec) ==
  /\ pc = "add" /\ Cardinality(DOMAIN size) <= MaxNodes
  /\ \E m \in {mknode_at(tree, rec.path, rec.type, <<>>)} :
       \E t \in {IF m.n = 0 \/ rec.type # "file" THEN m.t
                 ELSE file_append(m.t, m.n, Up(rec.size, Units))} :
          /\ m.n # 0 /\ Len(t.vol) * Pref <= vol.max
          /\ tree' = t
          /\ vol' = Grow(vol, Len(t.vol) * Pref)
          /\ size' = [i \in 1 .. Len(t.nodes) |-> IF i = m.n THEN rec.size
                                                  ELSE IF i \in DOMAIN size THEN size[i] ELSE 0]
  /\ UNCHANGED <<layout, fats, pc, result>>

\* Blocks of the directories in front of place k of the list.
BlocksBefore(order, sz, k) ==
  FoldLeft(LAMBDA a, i : a + Up(sz[order[i]], Units), 0, [i \in 1 .. k - 1 |-> i])

(* fstree_sort and compute_dir_sizes *)
compute_dir_sizes ==
  /\ pc = "add"
  /\ \E t \in {fstree_sort(tree)} :
       LET order == t.bytype["dir"]       \* the root is in front
           at(n) == CHOOSE k \in 1 .. Len(order) : order[k] = n
           zero  == [n \in 1 .. Len(t.nodes) |-> [start |-> 0, size |-> 0]]
           none  == [n \in 1 .. Len(t.nodes) |-> 0]
           bad   == \E k \in 1 .. Len(order) : \E c \in ToSet(Named(t, order[k])) : c.s.conv = "error"
       IN /\ tree' = t
          /\ IF bad THEN result' = "serialize" /\ dir' = zero
             ELSE /\ result' = result
                  /\ \E sz \in {[n \in ToSet(order) |-> Len(Serialize(t, n, zero, Pref, none, size))]} :
                       dir' = [n \in 1 .. Len(t.nodes) |->
                                 IF n \notin ToSet(order) THEN zero[n]
                                 ELSE [start |-> BlocksBefore(order, sz, at(n)) * Units, size |-> sz[n]]]
  /\ pc' = "gap"
  /\ UNCHANGED <<vol, size, ents, spc, spf, first, base, super, fats>>

(* fstree_add_gap: one block for an empty root. *)
AddGap ==
  /\ pc = "gap" /\ result = "ok"
  /\ LET order == tree.bytype["dir"]
         total == IF tree.nodes[1].kids = <<>> THEN 1
                  ELSE BlocksBefore(order, [n \in ToSet(order) |-> dir[n].size], Len(order) + 1)
     IN IF (Len(tree.vol) + total) * Pref > vol.max
        THEN result' = "serialize" /\ UNCHANGED <<vol, tree>>
        ELSE /\ tree' = add_gap(tree, 0, total)
             /\ vol' = Grow(vol, (Len(tree.vol) + total) * Pref)
             /\ UNCHANGED result
  /\ pc' = "params"
  /\ UNCHANGED <<size, layout, fats>>

\* The loop over the cluster sizes stops at the first that is too large.
SecsPerCluster(sectors) ==
  Max({1} \cup {i \in 1 .. Pref : \A j \in 1 .. i : sectors \div j >= MinSectors})

adjust_file_indices(start, s) == (start * Pref) \div s

(* enforce_min_size, compute_fs_parameters and adjust_file_indices *)
compute_fs_parameters ==
  /\ pc = "params" /\ result = "ok"
  /\ vol' = [vol EXCEPT !.sectors = Max({@, MinSectors})]
  /\ spc' = SecsPerCluster(vol'.sectors)
  /\ spf' = Up(vol'.sectors \div spc', EntPerSec)
  /\ first' = [n \in 1 .. Len(tree.nodes) |->
                 IF tree.nodes[n].type = "file" THEN adjust_file_indices(tree.nodes[n].start, spc') ELSE 0]
  /\ pc' = "dirs"
  /\ UNCHANGED <<tree, size, dir, ents, base, super, fats, result>>

(* write_directory_contents: block i of directory n replaces a block of    *)
(* the gap.                                                                *)
write_directory_contents ==
  /\ pc = "dirs"
  /\ ents' = [n \in ToSet(tree.bytype["dir"]) |-> Serialize(tree, n, dir, spc, first, size)]
  /\ tree' = [tree EXCEPT !.vol = [b \in 1 .. Len(@) |->
       LET ds == {n \in ToSet(tree.bytype["dir"]) :
                    b - 1 \in dir[n].start \div Units .. Up(dir[n].start + dir[n].size, Units) - 1}
       IN IF ds = {} THEN @[b]
          ELSE LET n == CHOOSE n \in ds : TRUE
               IN [k |-> "dir", n |-> n, i |-> b - dir[n].start \div Units]]]
  /\ pc' = "move"
  /\ UNCHANGED <<vol, size, dir, spc, spf, first, base, super, fats, result>>

(* The data goes behind the FATs, then the super block and the info sector *)
(* are written and the FATs cleared.                                       *)
MoveData ==
  /\ pc = "move"
  /\ LET start == Reserved + 2 * spf
         end   == start + Len(tree.vol) * Pref
         cnt   == (Grow(vol, end).sectors - start) \div spc
     IN IF end > vol.max
        THEN result' = "fat" /\ UNCHANGED <<vol, base, super>>
        ELSE /\ base' = start
             /\ vol' = Grow(vol, end)
             /\ super' = [spc |-> spc, spf |-> spf, root |-> CLUSTER_OFFSET, clusters |-> cnt,
                          free |-> cnt - Len(tree.vol), next |-> Len(tree.vol) + CLUSTER_OFFSET]
             /\ UNCHANGED result
  /\ pc' = "fat"
  /\ UNCHANGED <<tree, size, dir, ents, spc, spf, first, fats>>

Entries == spf * EntPerSec

ChainLen(sz) == Up(sz, SecUnits * spc)

\* Mutant: the files in the order of their names.
FileChains_unsorted ==
  [i \in 1 .. Len(tree.bytype["file"]) |->
     LET n == tree.bytype["file"][i]
     IN [index |-> first[n] + CLUSTER_OFFSET, count |-> ChainLen(size[n])]]

FileChains ==
  LET list == SortSeq(tree.bytype["file"], LAMBDA a, b : first[a] < first[b])
  IN [i \in 1 .. Len(list) |-> [index |-> first[list[i]] + CLUSTER_OFFSET,
                                count |-> ChainLen(size[list[i]])]]

DirChains ==
  LET list == SortSeq(tree.bytype["dir"], LAMBDA a, b : dir[a].start < dir[b].start)
  IN [i \in 1 .. Len(list) |-> [index |-> Cluster(dir[list[i]].start, spc),
                                count |-> Max({1, ChainLen(dir[list[i]].size)})]]

(* fatfs_build_fats: directories, then files, in the order of the volume. *)
fatfs_build_fats ==
  /\ pc = "fat" /\ result = "ok" /\ winoff = -1
  /\ fat' = [e \in 0 .. Entries - 1 |-> 0]
  /\ window' = [e \in 0 .. Window - 1 |-> CASE e = 0 -> Media [] e = 1 -> EOC [] OTHER -> 0]
  /\ winoff' = 0 /\ done' = 0
  /\ chains' = SelectSeq(DirChains \o FileChains, LAMBDA c : c.count > 0)
  /\ UNCHANGED <<vol, tree, size, layout, pc, result>>

Offset == Head(chains).index + done - winoff

\* Both copies of the FAT get the same; there is only one here.
Written(w, count) ==
  [e \in 0 .. Entries - 1 |-> IF e - winoff \in 0 .. count - 1 THEN w[e - winoff] ELSE fat[e]]

\* Mutant: what is kept of the window is one entry short.
slide_window_short(off) ==
  [e \in 0 .. Window - 1 |-> IF e < off - Window \div 2 - 1 THEN window[e + Window \div 2] ELSE 0]

(* The part of slide_window that moves the rest of the window down. *)
slide_window(off) ==
  [e \in 0 .. Window - 1 |-> IF e < off - Window \div 2 THEN window[e + Window \div 2] ELSE 0]

(* One entry of write_cluster_chain_32, the window moved on if necessary.  *)
WriteEntry ==
  /\ pc = "fat" /\ result = "ok" /\ winoff >= 0 /\ chains # <<>>
  /\ LET c     == Head(chains)
         half  == Window \div 2
         slide == Entries > Window /\ Offset > half
         next  == IF done + 1 < c.count THEN c.index + done + 1 ELSE EOC
     IN /\ fat' = IF slide THEN Written(window, half) ELSE fat
        /\ winoff' = IF slide THEN winoff + half ELSE winoff
        /\ window' = [(IF slide THEN slide_window(Offset) ELSE window) EXCEPT
                        ![c.index + done - winoff'] = next]
        /\ chains' = IF done + 1 < c.count THEN chains ELSE Tail(chains)
        /\ done' = IF done + 1 < c.count THEN done + 1 ELSE 0
  /\ UNCHANGED <<vol, tree, size, layout, pc, result>>

flush_window ==
  /\ pc = "fat" /\ winoff >= 0 /\ chains = <<>>
  /\ fat' = Written(window, Window)
  /\ pc' = "done"
  /\ UNCHANGED <<vol, tree, size, layout, window, winoff, chains, done, result>>

-----------------------------------------------------------------------------
Init ==
  /\ vol \in Volumes /\ tree = fstree_create /\ size = <<0>>
  /\ dir = <<>> /\ ents = <<>> /\ first = <<>> /\ super = <<>>
  /\ spc = Pref /\ spf = 0 /\ base = 0
  /\ fat = <<>> /\ window = <<>> /\ winoff = -1 /\ chains = <<>> /\ done = 0
  /\ pc = "add" /\ result = "ok"

Next ==
  \/ \E rec \in Records : AddRecord(rec)
  \/ compute_dir_sizes \/ AddGap \/ compute_fs_parameters
  \/ write_directory_contents \/ MoveData
  \/ fatfs_build_fats \/ WriteEntry \/ flush_window

Spec == Init /\ [][Next]_vars

-----------------------------------------------------------------------------
(* What was written to a directory, read as a driver reads it: the long    *)
(* entries in front of a short entry, if there are any and they belong to  *)
(* it, are its name.                                                       *)
Trim(s) == SubSeq(s, 1, Max({0} \cup {i \in 1 .. Len(s) : s[i] # " "}))

NameAt(es, p) ==
  LET run(q) == \A i \in q .. p - 1 : es[i].k = "long" /\ es[i].sum = <<es[p].base, es[p].ext>>
                                      /\ es[i].seq = p - i /\ es[i].last = (i = q)
      from   == {q \in 1 .. p - 1 : run(q)}
      parts  == FlattenSeq([i \in 1 .. p - Min(from) |-> es[p - i].text])
      short  == Trim(es[p].base) \o (IF Trim(es[p].ext) = <<>> THEN <<>> ELSE <<".">> \o Trim(es[p].ext))
  IN IF from = {} THEN short ELSE SubSeq(parts, 1, SelectInSeq(parts, LAMBDA c : c = "NUL") - 1)

Shorts(es) == SelectSeq([i \in 1 .. Len(es) |-> i], LAMBDA i : es[i].k = "short")

\* FAT has no dots or spaces at the end of a short name.
Stripped(name) == SubSeq(name, 1, Max({i \in 1 .. Len(name) : name[i] \notin {" ", "."}}))

(* The window never has to hold an entry outside of it, in front of it     *)
(* because of the order of the chains or behind it because of a jump: the  *)
(* memset behind the write position would run over.                        *)
WindowHolds == chains # <<>> => Offset \in 0 .. Window

(* Every directory reads back as the names of the tree, in order, however  *)
(* many of them had to be numbered, and no two entries of a directory have *)
(* the same short name.                                                    *)
NamesRight ==
  pc \in {"move", "fat", "done"} =>
    \A n \in DOMAIN ents :
      LET es == ents[n]
          sh == Shorts(es)
          kids == tree.nodes[n].kids
      IN /\ Len(sh) = Len(kids)
         /\ \A i \in 1 .. Len(sh) :
              NameAt(es, sh[i]) \in {tree.nodes[kids[i]].name, Stripped(tree.nodes[kids[i]].name)}
         /\ \A i, j \in 1 .. Len(sh) :
              es[sh[i]].base = es[sh[j]].base /\ es[sh[i]].ext = es[sh[j]].ext => i = j

\* What is in sector a of the image.
SectorAt(a) ==
  LET s == a - base
  IN IF s \in 0 .. Len(tree.vol) * Pref - 1 THEN [b |-> tree.vol[s \div Pref + 1], i |-> s % Pref]
     ELSE [b |-> [k |-> "none", n |-> 0, i |-> 0], i |-> 0]

\* The clusters of a file that starts with cluster c.
Chain(c) ==
  LET walk[k \in 0 .. Entries] ==
        IF k = 0 THEN <<c>>
        ELSE Only({IF Len(p) < k \/ p[k] \notin DOMAIN fat \/ fat[p[k]] < 2 THEN p
                   ELSE Append(p, fat[p[k]]) : p \in {walk[k - 1]}})
  IN walk[Entries]

ClusterSectors(c) == [i \in 1 .. super.spc |->
                        Reserved + 2 * super.spf + (c - CLUSTER_OFFSET) * super.spc + i - 1]

Content(chain) ==
  LET sec == FlattenSeq([i \in 1 .. Len(chain) |-> ClusterSectors(chain[i])])
  IN [i \in 1 .. Len(sec) |-> SectorAt(sec[i])]

\* The entry of node n, and what its chain of clusters has to give.
EntryOf(n) ==
  LET p  == tree.nodes[n].parent
      at == CHOOSE i \in 1 .. Len(tree.nodes[p].kids) : tree.nodes[p].kids[i] = n
  IN ents[p][Shorts(ents[p])[at]]

Reads(n, cluster, units) ==
  LET kind == IF tree.nodes[n].type = "dir" THEN "dir" ELSE "data"
      chain == Chain(cluster)
      want == [i \in 1 .. Up(units, SecUnits) |->
                 [b |-> [k |-> kind, n |-> n, i |-> (i - 1) \div Pref + 1], i |-> (i - 1) % Pref]]
  IN /\ Len(chain) = Max({1, ChainLen(units)})
     /\ \A c \in ToSet(chain) : c < super.clusters + CLUSTER_OFFSET
     /\ fat[chain[Len(chain)]] = EOC
     /\ \E got \in {Content(chain)} : SubSeq(got, 1, Len(want)) = want

\* The clusters divide the blocks of the tree, and the FAT has an entry for
\* every cluster in use.  The code sees to neither.
Divides  == Pref % spc = 0
FatHolds == \A c \in ToSet(DirChains \o FileChains) : c.index + c.count <= Entries

(* A driver that starts at the root cluster finds in the FAT, for every    *)
(* directory and every file with data, a chain of exactly the clusters     *)
(* that hold it, and with clusters of the preferred size the info sector   *)
(* names what is free.                                                     *)
ImageReads ==
  pc = "done" =>
    /\ Reads(1, super.root, dir[1].size)
    /\ \A n \in 2 .. Len(tree.nodes) :
         LET units == IF tree.nodes[n].type = "dir" THEN dir[n].size ELSE size[n]
         IN units > 0 => Reads(n, EntryOf(n).cluster, units) /\ EntryOf(n).size = units
    /\ \A n \in DOMAIN ents \ {1} :
         LET up == tree.nodes[n].parent
         IN /\ ents[n][1].cluster = EntryOf(n).cluster
            /\ ents[n][2].cluster = IF up = 1 THEN 0 ELSE EntryOf(up).cluster
    /\ spc = Pref => /\ super.free = super.clusters - Cardinality({e \in 2 .. Entries - 1 : fat[e] # 0})
                     /\ super.next \in DOMAIN fat => fat[super.next] = 0

(* ImageReads for the sizes of volumes that the code gets right: clusters  *)
(* that divide the blocks of the tree, and a FAT that was not outgrown by  *)
(* moving the data behind it.                                              *)
ReadBack == pc = "done" /\ Divides /\ FatHolds => ImageReads
=============================================================================
