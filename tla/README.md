# TLA+ models of imagetool

`imagebuild` reads a description file and produces a disk image: nested volumes, partition tables, partitions,
filesystems and files that act as volumes, populated from directories, tarballs and listings. The program is a
single thread, so what makes it hard is not scheduling but **shared state under long sequences of calls**: all
files of a filesystem share one volume and move each other around, partitions push each other, nested volumes
forward requests through several translations of block indices, and a failure half way leaves part of the work done.

## Inventory

| Component | State | Operations | Interacts with | What makes it correct |
|---|---|---|---|---|
| fstree file data (`lib/filesystem/fstree/file_*.c`, `add_gap.c`) | `data_offset`, per file `size`, `start_index`, sparse list; bytes on the volume | append, write, truncate, read, move_to_end, add_gap | calls the volume (`volume_memmove`, `write_partial_block`, `discard_blocks`) | reading back returns what was written; runs and gaps tile `[0, data_offset)`; failures damage nobody else |
| sparse accounting (`file_mark_*.c`, `truncate_sparse`) | list of regions | mark, unmark, cut | used by all of the above | the list is sorted, merged, and names exactly the holes |
| file as volume (`fstree/file_volume.c`) | the file, a minimum of blocks | read, write, move, discard, truncate by block | file data functions below, a nested filesystem above | a volume inside a file keeps its blocks while the files around it grow |
| fstree nodes (`mknode.c`, `node_from_path.c`, `resolve_hard_links.c`, `sort.c`, `create_inode_table.c`) | tree, lists by type, link counts, inode table | add node, look up, resolve links, sort, number | file sink, filesystem drivers | implicit directories, links resolve or are refused, every inode numbered once |
| file sink (`filesink.c`) | bind points | bind, add_data | sources below, fstrees above | every record ends up where the longest matching bind point says |
| tar, cpio and FAT filesystems | tree, volume, parameters | build_format | fstree, volume | the image unpacks (is read by a driver) to the tree |
| volumes (`lib/image/basic`) | size, used-block bitmap | read, write, move, discard, truncate, commit | stacked on each other | what was written is read back, bounds hold, unused blocks read as zeros |
| MBR partition table (`lib/image/partition/mbr`) | partition entries (start, count, used) | create, grow, shrink, move, commit | volume below, volume users above | partitions never overlap, minimum sizes kept, table fits the disk |
| dependency tracker (`fsdeptracker.c`) | nodes and edges | add_*, commit | configuration callbacks | everything is finished, the innermost first |
| mount groups, filter, aggregate (`state.c`, `filesource/*.c`) | stacked sources, rules | add_nested, get_next_record | sources -> filter -> group -> sink | every allowed record arrives once |
| listing source (`listing.c`) | pools of packed records, read position | add_line, get_next_record | configuration parser, sink | every accepted line that fits the packed format comes back as a record |
| tar source and tar reader (`filesource/tar.c`, `lib/tar`) | stream position, header under construction, lock, sparse map | get_next_record, stream of a file | byte streams below, sink above | records and contents are those of the archive |
| byte streams and decompressors (`lib/fstream`, `lib/xfrm`) | buffers, end-of-input flags | precache, read, skip, get_line | tar source, configuration file | no byte lost or doubled at the edges of a buffer |
| configuration parser (`lib/gcfg`, `gcfg_file.c`) | active calls, one per open block | parse | callbacks of `state.c` | blocks are matched, errors stop the parse and leak nothing |

The hazards of these components are listed, line by line, in `PROJECT.json`.

## Modules

| Module | Models | State and operations in the code |
|---|---|---|
| `SparseList` | `file_sparse_holes_t` and its list operations, as operators on sequences of regions | `MarkSparse` = `fstree_file_mark_sparse`, `MarkNotSparse` = `fstree_file_mark_not_sparse`, `TruncateSparse` = `truncate_sparse` |
| `FileLayout` | abstract specification: what the file functions promise about block ownership | `data_offset`, `start_index`, `count` (blocks of a file), `gap` (blocks of `fstree_add_gap`) |
| `FSTreeFiles` | the file functions themselves, with the bytes on the volume, and a file used as a volume (`fsvol_*`) | `fs` = `fstree_t` and the volume; `job` = rest of the call in progress (one step is one iteration of its loop); `use` = `FSTREE_FLAG_NO_SPARSE` and the kind of requests |
| `FileLayoutProofs`, `FSTreeFilesProofs`, `FsDepTrackerProofs`, `ConfigFileProofs`, `MbrDiskProofs`, `ByteStreamsProofs` | theorems about the module each is named after | |
| `FSTreeContentsProofs` | the theorems about the contents of files, on top of `FSTreeFilesProofs` | |
| `DataLemmas` | what these proofs share: least and greatest elements, induction over sets of numbers, recursive functions as loops, `RemoveAt` and `InsertAt` | |
| `FSTree` | the nodes of an fstree, as operators on a tree value | `nodes`, `bytype` = `nodes_by_type`, `vol` = the blocks up to `data_offset`; `mknode_at`, `node_from_path`, `fstree_sort`, `find_targets`/`link_pass`/`count_links` = `fstree_resolve_hard_links`, `create_inode_table`, `add_gap` |
| `ArchiveFS` | file sink, tar and cpio filesystem, on top of `FSTree` | `binds` = the list of bind points, `trees` = one fstree per filesystem, `work`/`files`/`pc` = where `build_format` is. One action per bind, per record, per pass of the link resolution and per header put between the files |
| `FatFS` | `build_format` of the FAT filesystem, on top of `FSTree` | `dir` = `data.dir.start/size`, `spc`/`spf` = `secs_per_cluster`/`secs_per_fat`, `first` = `start_index` in clusters, `fat`, `window`, `winoff` = the FAT and the window that slides over it; one action per function, one per entry of a cluster chain |
| `FsDepTracker` | the tracker and the callbacks that feed it | `nodes` in list order, `edges`, `phase`; `open` = the parser's position in the description |
| `MountGroup` | mount group, filter and aggregate, pulled by the file sink | `group`/`filter` = wrapped sources and `have_aggregate`, `it` = `aggregate->it`, `pos` = what the leaf sources handed out |
| `FileListing` | the listing source, as operators on a listing value | `pool_list`, `offset`; `parse_line`/`encode_entry`/`get_pool` = `add_line`, `decode_entry`/`advance` = `get_next_record`. Records are real byte sequences; a name's length wraps as its byte does (`LengthValues`), and a record larger than a pool (`PoolSize`) is kept up to its end or beyond |
| `ConfigFile` | `gcfg_parse_file`, the keyword tables, the callbacks, and the listings read back | `stack` = the active calls of `parse()`, `objs` and `refs` = the objects and how often the parser holds them, `stored`/`got` = entries in and records out |
| `ByteStreams` | file and transforming input streams with `istream_read`, `istream_skip`, `istream_get_line` | `file`, `strm` = buffer, offset and `eof` of both streams, `pend` = what the decoder holds back, `op` = the call; one step per round of a loop |
| `TarReader` | `read_header`, pax headers, sparse maps, the tar source and the stream of a file | `pos` in the archive, `out`/`set`/`zero` = the locals of `read_header`, `tar` = `file_source_tar_t`, `ts` = `tar_istream_t`; one step per round of a loop |
| `MbrDisk` | the partition table and its partitions as volumes | `mbr.part` = `disk->partitions` (index, blk_count, minimum, blk_used, flags), `mbr.disk` = which partition wrote a sector; `live` = the blocks a user of a partition wrote; `on` = the partition of the last call |
| `FileVolume` | the file volume and the helpers that address a volume by bytes, as operators on the state of a volume | `data`, `eof` = the file; `bits` = the bitmap; `used` = `bytes_used`; `cow`, `punch` = what the operating system offers |
| `VolumeStack` | the file volume as a filesystem uses it, directly or through the block size adapter | `vol`, next to `want`, what a reader of `volume.h` expects; `use` = block size, offset and kinds of calls |
| `MC*` | small instances | |

`FSTreeFiles` instantiates `FileLayout` (`Layout`) with the accounting part of its state and is checked to implement
it. `ConfigFile` builds on `FileListing`, `ArchiveFS` and `FatFS` on `FSTree`, `VolumeStack` on `FileVolume`.

Operators whose names end in a variant of another (`Taken_last`, `Insert_untyped`, ...) are mutants: the same
definition with a plausible mistake. `PROJECT.json` pairs each property with one that breaks it; no specification uses them.

### Abstractions worth knowing

* Sizes are in the smallest unit a property can tell apart: bytes in `FSTreeFiles`, `FileVolume`, `FileListing` and
  `TarReader`, tokens in `ByteStreams`, blocks in `ArchiveFS` (a header is one block, two for a long path), directory
  entries in `FatFS`.
* `TarReader` keeps the text of a header with its first byte; how a number or a pax record is written is left out, what
  it sets is not. The conversion of the length of a hole to `int32_t` is kept (`WRAP`).
* `ByteStreams` takes a decompressor by its protocol: units of input that give nothing, one byte, or more than a
  buffer of output, a trailer, and damaged units, at which the call fails (`DecoderFails`) or, in gzip, the loop of
  `process_data` goes on without moving (`DecoderStuck`). What the libraries do inside is external, and so is which damage
  they notice: that in the very last unit of a gzip file, after which no input is left, is not modelled.
* A byte written behind a pool of the listing source is kept or lost, as the choice `kept` says; what else it may hit on
  the heap is not modelled.
* `ConfigFile` takes an argument as good, bad or missing. Every callback may fail.
* `FatFS` writes short names character by character because its property is about them; alphabets and lengths are
  constants.

## Runs

| Run | Shows | Bounds |
|---|---|---|
| `file_layout` | the files and gaps tile the used area (also proved) | three files, six blocks: one file in front, one moved, one behind |
| `fstree_files` | contents survive, failed calls included; nothing of what was cut off stays on the volume; append only extends; sparse lists are sorted, merged and inside the file; the layout is that of `FileLayout` | two files, four blocks of two bytes, one gap block. With `FSTREE_FLAG_NO_SPARSE` buffers of one to three bytes (below, at and above a block); with sparse files whole blocks; files used as volumes that write, move, discard and truncate blocks. The volume can be exhausted by one file alone |
| `dep_tracker` | innermost first, everything committed, commit ends | all descriptions of up to six blocks: a volume file inside a filesystem on a partition is five deep |
| `mount_group` | all allowed records, once, in order; pulling ends | three leaf sources (one empty), up to three rules of six |
| `mount_group_two` | **violated**: a second source in the group replaces the first | two sources |
| `mbr_disk` | partitions stay packed and aligned; what `get_max_block_count` promises can be written; a call on one partition, also one that fails half way, and commit do not change what the others hold, except those made smaller and those behind one that is | three partitions, alignment 2, eleven sectors: the reserved unit, four more and an odd sector, so that one partition can push two and the disk runs full; one block written per partition |
| `volume_stack` | what was written or moved reads back, discarded blocks read as zeros, commit cuts nothing off | blocks of three bytes (a start, a middle, an end) and up to six of them; users with blocks of one, two (starting inside a block), three and six bytes; with and without `copy_file_range` and holes |
| `config_file` | the recursive parser judges a file as counting its braces does; objects are attached to the block they are written in; references balance on every error path, also while the error goes up through the calls; listings come back; the build comes to a verdict | files of up to seven lines out of 33 that make up to two objects besides the output file: three levels of blocks. Pools of 51 bytes and lengths of four values in place of 256 hold several short records, or one of the longest the format allows, which fills a pool to its last byte; first fit leaves holes. One line has a name and a target too long for the format |
| `byte_streams` | no byte is lost, doubled or reordered; end of file is reported only when all was handed out; lines are those of the file; every call returns, also on damaged input, except at damage the decoder does not report | buffers of three bytes; every plain file of up to five bytes of text, space, CR and LF, every compressed one of up to four units, and some with a damaged unit in every place, reported and not; requests smaller and larger than a buffer |
| `tar_reader` | the records are those of the members, with the names and numbers their extended headers give and no others; what a file's stream hands out is a prefix of its content, as far as its map goes, all of it at its end; every call returns | blocks of two bytes, a buffer of four; all pairs of twenty members (long names, pax, three sparse formats, maps that leave out the end of the file, broken headers and pax records), each member cut off at every byte; streams dropped unread, half read or read |
| `archive_fs` | each record is found where its bind point puts it, or was refused; hard links lead to the node that following them leads to and cycles are refused; the image unpacks to the tree; build_format ends | two filesystems of both kinds, three ways of binding, up to four of twelve records that are in each other's way: enough for a link to a link to a link, and a cycle of three |
| `fat_fs` | the window holds every entry it is given; directories read back as the names of the tree with distinct short names; a driver following the FAT finds all data | up to four nodes; names of up to six characters for short names of four and one; a window of eight entries over FATs of up to 20; a volume that grows, one with small clusters, one with clusters of the preferred size |

Deadlock checking is off where the program stops: after a failed call, at the end of commit or of a build, and when the
input is read.

What the passing runs leave out, because the code does not do it, is part of the statement of the property or of the
instance, and is a hazard in `PROJECT.json`:

* `OthersKept` covers all calls, failing ones and commit included, but leaves out the partitions a call makes smaller and
  those behind one of them: `shrink_partition` (part.c:39-45) cuts off the end of the whole table and renumbers the later
  partitions without moving their data. At commit, which first shrinks each partition to what it uses, it is about the
  partitions up to the first that has something to cut off; `MaxIsPromised` is about tables that fit the disk.
* In `volume_stack` users that move blocks write them whole (the move of a block that ends behind the file never
  returns with `copy_file_range`), users that set the size of the file neither move nor discard (one block too many is
  marked as used), and `ReadBack` excepts small blocks behind `bytes_used` in a block in use (reading them fails).
* `RecordsComeBack` is about listings all of whose entries fit the packed format (`Fits`): no entry for the root directory,
  whose empty name is read as a long one, and names and targets whose lengths fit their bytes. `add_line` checks neither
  the lengths (listing.c:178, 190) nor that a record is no larger than a pool (listing.c:53-73, 596).
* `CallsReturn` of `ByteStreams` excepts damage the decoder does not report (`setup.stuck`). After a call that failed
  `Conserved` promises only that the buffers are not overrun.
* `ContentRight` promises nothing behind the last region of a sparse map that does not go to the end of its file.
* `ReadBack` of `FatFS` is about cluster sizes that divide 4096 bytes and FATs that were not outgrown.

### Known deviations and how to see them

`mount_group_two` is listed as a finding. The configurations below are kept to reproduce other behaviours that a reader
of the headers would not expect; each ends with a counterexample.

| Configuration | Module, property | What it shows |
|---|---|---|
| `FSTreeTail.cfg` | `MCFSTreeFiles`, `ReadsBack` | `append_to_tail` (file_append.c:22) takes a hole that ends in front of the tail for one that holds it; the stored tail is lost. All drivers of the repository set `FSTREE_FLAG_NO_SPARSE`, so only other users of the library meet it |
| `MbrMove.cfg` | `MbrDisk`, `DataKept` | a block moved behind the used area is not counted as used (part.c:263) and the next move drops it |
| `VolumeMoves.cfg` | `MCVolumeStack`, `ReadBack` | a moved block smaller than those of the file is not marked as used (file_volume.c:432) and reads as zeros |
| `ListingLong.cfg` | `MCConfigFile`, `AllRecordsComeBack` | the root directory, or a name too long for its byte, is accepted and comes back as another record (listing.c:178, 190) |
| `DamagedStream.cfg` | `MCByteStreams`, `CallsAlwaysReturn` | the loop of gzip's `process_data` does not know `Z_DATA_ERROR` and goes on for ever at damage (gzip.c:38-69) |
| `TarShortMap.cfg` | `MCTarReader`, `AllContentRight` | with the list of regions used up before the end of the file, padding and the next header are handed out as data, and `file_bytes_left` wraps (tar.c:64-104) |
| `TarBigHole.cfg` | `MCTarReader`, `CallsReturn` | a hole of a multiple of 4 GiB makes no progress (tar.c:66) |
| `Bzip2Stream.cfg` | `MCByteStreams`, `EofMeansAll` | a whole buffer of input that gives no output yet is taken for the end (istream_xfrm.c:54) |
| `FatClusters.cfg` | `MCFatFS`, `ImageReads` | with three sectors per cluster files start inside a cluster (fatfs.c:15) |
| `FatGrows.cfg` | `MCFatFS`, `ImageReads` | on a volume that grows, the last clusters have no entry in the FAT (fatfs.c:26) |

## Fairness

The program is one thread that never blocks, and every loop runs until its own condition ends it.

* `FsDepTracker` and `ConfigFile` ask for weak fairness of their whole next-state relation: the description is a finite
  file, so the parser comes to its end, and the loops behind it run on their own. In `ConfigFile` the bound on the number
  of lines is the length of the file.
* `MountGroup` asks for weak fairness of pulling only, because `file_sink_add_data` is a loop that runs until the group
  reports the end or an error; nothing is assumed about how long the description is.
* `ByteStreams` and `TarReader` ask for weak fairness of `Work`, the rounds of the call in progress. Nothing is assumed
  about whether the caller makes another call.
* `ArchiveFS` asks for weak fairness of `Build`, the steps of `build_format`, not of adding records.

No other module states fairness.

## Proofs

The theorems hold for every value of the constants that satisfies the named assumptions of the module: any files, block
sizes, buffers, partitions, descriptions and requests. The bounds the runs need (`MaxLines`, `MaxObjs`, `MaxGaps`, ...)
are arbitrary there too. Each proof rests on an inductive invariant that TLC was asked about first.

| Theorem | Property | Inductive invariant |
|---|---|---|
| `TypeCorrect`, `FilesDisjoint`, `NoBlockLost` | `TypeOK`, `NoOverlap`, `NoLeak` of `FileLayout` | `LayoutInv` (`LayoutInvariant`) |
| `FilesSparseListsOK` | `SparseListsOK` of `FSTreeFiles` | `FilesInv` (`FilesInvariant`) |
| `TrackerInnermostFirst`, `TrackerAllCommitted` | `InnermostFirst`, `AllCommitted` of `FsDepTracker` | `TrackerInv` (`TrackerInvariant`) |
| `ConfigRefsBalanced` | `RefsBalanced` of `ConfigFile` | `RefInv` |
| `ConfigSyntaxJudged`, `ConfigAttached` | `SyntaxJudged`, `AttachedToBlock` of `ConfigFile` | `ParseInv` (`ConfigInvariant`) |
| `FilesImplementLayout`, `TreeTilesVolume` | `ImplementsLayout` of `FSTreeFiles` | `TreeInv` (`TreeInvariant`) |
| `FilesReadBack`, `AppendsExtend`, `NothingStale` | `ContentsKept`, `AppendExtends`, `NoStaleBytes` of `FSTreeFiles` | `TreeInv` and `ContInv` (`ContentsInvariant`) |
| `MbrPacked`, `MbrMaxIsPromised`, `MbrOthersKept` | `Packed`, `MaxIsPromised`, `OthersKept` of `MbrDisk` | `MbrInv` (`MbrInvariant`) |
| `StreamConserved` | `Conserved` of `ByteStreams` | `ConsInv`, or a failed call (`StreamInvariant`) |
| `StreamEofMeansAll` | `EofMeansAll` of `ByteStreams` | `ConsInv` and `EofInv` |
| `StreamLinesRight` | `LinesRight` of `ByteStreams` | `ConsInv`, `EofInv` and `LineInv` |

### Block layout (`FileLayoutProofs`)

Only `LayoutAssumption` is assumed, that the bound is a natural number. None of the three properties is inductive alone:
closing the hole a run leaves is only harmless because the runs behind it are contiguous (`NoLeak`) and none starts
inside it (`NoOverlap`), and the subtraction of its length only stays natural because of both. The argument rewrites
the two invariants as one formula, `Tiles`: every block below `data_offset` has exactly one owner and every owned
block is below it. `MoveLemma` shows that moving a run behind the others preserves the tiling, block by block through
the permutation of blocks it performs; growing, releasing and failing steps are that lemma followed by one block at the
end. `Truncate` and `AddGap` shift everything behind one index and are proved directly.

### Sparse lists (`FSTreeFilesProofs`)

The first half is about lists alone. `MarkSparseFacts`, `MarkNotSparseFacts` and `TruncateSparseFacts` say of the list
operations of `SparseList` that a well-formed list stays well-formed and that the set of its blocks afterwards is the
one before with the block added, without it, or cut at the new end. That is where the cases are: a block that joins two
regions, one in the middle of a region, one at either end, and a loop over the list (a recursive function).

The second half carries these to the calls. `FilesInv` says that all lists are well formed and end with their file
(`TreeGood`), and what a call in progress still has to do fits the files (`JobGood`): the buffers that are left are not
empty and the bytes to overwrite lie in the file. The latter is what makes `write_partial_block` mark only blocks the
file has, and it is not local to a step: `fstree_file_write` splits the buffer at the end of the file, and then the
appends, the truncation and failures in between must not make the file shorter. All calls are covered, with those of
`file_volume.c` on top; failing branches leave whatever the volume did, but lists and sizes in order.

### The file functions implement the layout (`FSTreeFilesProofs`)

The refinement maps the blocks of a file to the number its functions compute from the size and the sparse list,
`PhysBlocks`. `TreeInv` joins `FilesInv`, the tiling of the abstract specification (`LayoutInv` under the mapping), and
`Room`: everything up to `data_offset` lies on the volume, unless a call has failed. Two arguments carry the steps.

*Counting.* `PhysBlocks` of a file is the blocks its size needs less the blocks its list holds, a sum over the list.
The proofs about the list operations give the set of blocks that are sparse; `Held` is the size of that set, so that
marking a block changes the count by one if it was not marked before, and cutting a list by what was behind the cut.

*Steps.* An iteration of any of the loops leaves the layout as it is, shifts the runs behind one index by a block up or
down (a block stored, dropped or made sparse in the middle of a file), cuts a run (`fstree_file_truncate`), or opens a gap.
Each is a step of `FileLayout`, with the failing branches: a call that fails after it moved its file behind the others
leaves the blocks in the new order, which is still a tiling. Truncation is the call that could not undo its work, and it
is shown not to fail while it closes the hole: a file with blocks lies on the volume completely, so the blocks that move
down are all there.

### Contents of files (`FSTreeContentsProofs`)

The three theorems are about what is read back, byte by byte, and so about everything the layout leaves out. Like the
properties they state, they say nothing of `SparseTails`, uses in which a file may have holes and end inside a block, where
`append_to_tail` loses bytes (see *Known deviations*). All other uses, sizes, buffers and volumes are covered, and no new
assumption is made about constants.

*Invariant.* `ContInv` has two faces. Until a call fails (`Going`) it is `Kept`: there are no holes, or no file ends inside a
block (`Tails`); the rest of a last block is zero (`Padded`); gaps and what lies behind the used area are zero (`Clean`); a
file that no call is working on holds its contents, and the one in `job` holds its part of them (`PartOf`): the bytes it has
are the final ones except where the rest of the buffer has still to be written, and the buffers left to append make up what
is missing at its end. After a failure the model takes no further call, and `ContInv` says that every file reads as `want`.
`ContentsKept` alone is not inductive for two reasons: in the middle of a call nothing is said of the file itself, and that
a file may grow into the padding of its tail or into blocks behind the used area without writing zeros first rests on
`Padded` and `Clean`, which are what `NoStaleBytes` becomes between two iterations.

*Where a byte is.* `Rank(l, i)` is the number of blocks before block `i` of a file that are stored, and `ByteAt` the byte
at that place of its run, zero in a hole. The code counts differently, subtracting regions from an index while it walks the
list (`Skipped`); `SkippedRank` shows that both agree. Marking a block sparse, or stored, moves the rank of the blocks
behind it by one (`RankChanges`), which is what shifting the blocks behind it on the volume makes up for. These lemmas and those about the
operations of the volume are the last part of `FSTreeFilesProofs`.

*Operations.* What `volume_memmove`, a partial write and a discard do to the blocks is said once (`Copied`, `WriteDisk`,
`DiscardDisk`). `Carries(s, t, f)` says that file `f` has the same bytes in `t` as in `s`, in blocks that may have moved, and
each operation is described by it for the files it does not name and by one formula for the file it does: `Puts` (data at a
place of one block, for an iteration of append and write), `Cuts` (truncate). The longest are `FillPuts` and `RemovePuts`,
where a block is put into, or taken out of, the middle of a run while the rest is shifted, `ShrinkDoes`, which closes the
hole and pads the new tail, and `GapDoes`. That the moves never run into another file is the layout invariant: `TreeInv`
gives `Sound`, runs apart from each other and within the volume, and it is the reason the layout was proved first.

*Calls.* The last part carries these to the steps: starting a call cuts its buffer at the end of the file, each iteration
takes a piece off `job`, and returning leaves nothing of it. When an iteration fails, the promise is about the other files:
they keep their contents, while `want` of the file that was being written is set to whatever can be read of it, and of that
file only `AppendsExtend` says more. `NothingStale` reads `Padded` and `Clean` off the invariant with the tiling of the used area.

### Order of commit (`FsDepTrackerProofs`)

`TrackerInv` describes the graph: nodes in the list and committed ones are disjoint and without duplicates, the edges are
exactly those of the objects not committed yet to what they were created on, an object created later stands in front
of an earlier one (`ListOrder`), and what lies directly on a committed object was committed before (`ChildrenFirst`).
`InnermostFirst` is about objects that lie on each other through any number of others, a recursive function: it
follows from `ChildrenFirst` by induction along the chain. `AllCommitted` needs `ListOrder`: a list that is not empty
always has a node without edges to it, because the objects are numbered in order of creation, so commit never
reports a cycle.

### Parser (`ConfigFileProofs`)

`RefInv` counts references for every state, the unwinding after an error included. `ParseInv` compares the recursive
parser with counting braces: `Level` is the number of braces open at a line, the active calls are as many, call `d` is for
the last line that opened level `d`, and it holds the object of that line, or that of the call above if the block stands
for its parent. The syntax verdict and the place of each object are then read off the innermost call.

### Partition table (`MbrDiskProofs`)

`MbrInv` says of the table that each partition starts where the one in front ends, that sizes and minimums are multiples
of the alignment, that no partition is smaller than its minimum or uses more than it has, and at most one is marked FILL.
`shrink_partition`, `grow_partition` and the loops over them (shrink all behind, expand all at commit, recursive functions)
are described by what they do to the sizes: partition `k` gets `n` sectors more and the later ones move by as many, `n`
aligned. `MaxIsPromised` follows from the invariant with arithmetic: what `get_max_count` adds to the size of a partition
is free after the later ones are cut down, so that the growth a write asks for ends on the disk.

`OthersKept` is about data, sectors of the disk through partitions that move. Shrinking discards from the sector in front of
the new end of the table, which lies in the last partition or behind it, and so the proof has to locate what is cut off;
growing pushes the later partitions back with `memmove`, and their data is carried along; everything else writes
inside the partition it was called for. Each call is described by the function from old to new sectors it performs on
the other partitions, and the theorem says that it is the identity seen from inside them, for those it does not make smaller
and that have none in front that is (`Uncut`).

That includes calls that end half way. `grow_partition` cuts the partitions behind down, pushes them back one after the other
and may fail at any of them; `GrowSteps` and `GrowKeeps` follow the loop, and `MemMoveFails` says that a refused move
wrote nothing. What was cut before the failure lies behind the last partition that is not smaller (`ShrinkBehindKeeps`,
`CutKeeps`). Commit is a loop of shrinks and one of growths: a partition with nothing to cut off is still as tight when its
turn comes (`TightStays`), so shrinking leaves it and those in front alone, and the growth of a partition moves the later
ones with all they hold (`GrowReads`, `ExpandKeeps`, `CommitKeeps`).

### Streams (`ByteStreamsProofs`)

`ConsInv`: the buffer of the file stream is the part of the file in front of its position, and what was handed out, what is
unread in the outer buffer and what the decoder still holds is, one after the other, what the tokens taken so far unpack
to. When the decoder reports damage the call fails and what it wrote in that round is dropped. No further call is
made (`FailedStays`), and of such a state the invariant says only what is still promised, that no buffer is overrun
(`Failed`); `StreamLinesRight` says besides that the lines returned until then are those of the file.
`EofInv` adds what each flag means on the way: an end flag is set only when all tokens are taken, a round of the
decoder that makes nothing has seen only tokens that unpack to nothing. `StreamEofMeansAll` has the hypothesis `AllFeed`:
every full buffer of the file unpacks to something, and the last token to nothing. The first is the limit of the code
(see `Bzip2Stream.cfg` above for what happens without it), the second is how the formats end, with a trailer.
The compressed files of the `byte_streams` run are those that satisfy the same condition, `Feeds`.

`StreamLinesRight` compares `istream_get_line` with splitting the whole content (`SplitLines`). `LineInv` says that the lines
returned and the line under construction are what the bytes handed out so far split into, or that everything, the last
line without a break included, was returned. Its second hypothesis, `LinesTrimmed`, is that a reader trims its lines, as all
callers in the repository do, or that there is no CR in the file: `get_line` drops a CR in front of a LF only when both
are in the buffer at once, so that without trimming the result depends on where a buffer ends.

### Induction

The provers cannot instantiate the library's induction theorems. `DataLemmas` goes around them with sets: a set of numbers
that holds 0 and is closed under successor holds all of them (`SetInduction`, from the least element of the complement),
and a recursive function is the union of its finite approximations (`LoopExists`). That is enough for the recursive
functions of `SparseList`, `MbrDisk`, `ByteStreams`, `FsDepTracker` and `ConfigFile`, sums over a list (`Total`) and splitting
into lines (`SplitUpTo`) included. It does not reach the folds of the community modules.

### Only model-checked

* liveness under fairness: `Terminates`, `PullEnds`, `CallsReturn`, `BuildEnds`;
* `RecordsComeBack` of `ConfigFile`;
* `MountGroup`, `VolumeStack`, `TarReader`, `ArchiveFS` and `FatFS`: what the folds of `FSTree`, `FileListing` and `FatFS`
  compute is an induction over folds.

## Not modelled

* `filesource/directory.c`: a loop over `readdir()` and `fstatat()`; its state is the host's file system. `MountGroup`
  takes it as a sequence of records.
* `ostream_xfrm.c`, `unix/ostream.c` and compression: library functions without a caller in `imagebuild`. The output
  stream that is used, that of a volume, is part of `ArchiveFS` and `FatFS`.
* How numbers, sizes, strings, vectors and enums are scanned (`lib/gcfg/parse_*.c`, `lib/tar/number.c`, base64 and URL
  decoding): pure conversions of text without state.
* Device numbers with a major above 4095 or a minor above 255, whose packing by `makedev` needs more than the low bits.
* A volume that fills up while tar and cpio headers are appended (`WriteTree`, `InsertFileHeader`, `AppendRest` of `ArchiveFS`).
  A `read` that fails inside the stream of a file of a tarball.
* What a write outside of an outgrown FAT hits: `Written` of `FatFS` drops it, and no property speaks of such states (`FatHolds`).
* Byte layouts of the headers of tar, cpio, FAT and the partition table, time stamps, permissions and owners, labels.
* The plugin registry, a list looked up by name; option parsing; out-of-memory paths, on which the tool exits; the
  external compression libraries; block devices.

## What is left

* `FatFS`: `WindowHolds`, from chains that are sorted and no further apart than half a window.
* `VolumeStack`: `TypeOK` and `ImageKept`; `MountGroup`: `TypeOK` and, for a single source, `AllRecords`. Both need their folds
  over sequences written as recursive functions first.
