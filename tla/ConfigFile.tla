----------------------------- MODULE ConfigFile ------------------------------
(***************************************************************************)
(* The configuration file of imagebuild: the recursive line parser of      *)
(* libgcfg, the keyword tables that imgtool_state_init_config wires up, the *)
(* callbacks that make an object for each keyword, and the listing blocks  *)
(* whose lines go to the listing file source (FileListing) and come back   *)
(* as records when the sources are read.                                   *)
(*                                                                         *)
(* parse() calls itself for every block; the calls that are active are the *)
(* frames of stack.  A line is a record of what the parser can tell apart: *)
(*   [tag |-> "word", word, arg, tail]  a keyword or property line: its    *)
(*        argument ("none", "bad", or a value) and what follows            *)
(*        ("end", "open" for '{', "openjunk" for '{' and more, "junk")     *)
(*   [tag |-> "close", tail]            a '}' and what follows             *)
(*   [tag |-> "entry", line]            a line of a listing                *)
(*   [tag |-> "comment"], [tag |-> "junk"], [tag |-> "encoding"]           *)
(* Fetching lines (skipping of empty ones, trimming) is ByteStreams' part. *)
(***************************************************************************)
EXTENDS FileListing, FiniteSets, Bags

CONSTANTS Lines,     \* the lines a file may consist of
          MaxLines,  \* bound: lines in a file
          MaxObjs    \* bound: objects a file makes, the output file included

VARIABLES lines,     \* the lines fetched so far
          stack,     \* active calls: [keyword of the block, its object]
          objs,      \* the objects made: [kind, name, parent, at, data]
          refs,      \* how often the parser holds each of them
          stored,    \* listing entries accepted, per object
          got,       \* listing records read back, per object
          status     \* parse, syntax, failed, read, done

vars == <<lines, stack, objs, refs, stored, got, status>>

-----------------------------------------------------------------------------
(* The keyword lists, and what the built-in plugins put into them. *)
cfg_sources      == {"listing", "tarunpack", "filter"}
cfg_fs_or_volume == {"fat", "raw", "dosmbr"}
cfg_global       == {"mountgroup"} \cup cfg_fs_or_volume

children == [fat |-> {"volumefile"}, volumefile |-> cfg_fs_or_volume,
             raw |-> cfg_fs_or_volume, dosmbr |-> {"partition"},
             partition |-> cfg_fs_or_volume,
             mountgroup |-> {"bind"} \cup cfg_sources,
             filter |-> {"allow", "discard"} \cup cfg_sources,
             listing |-> {}, tarunpack |-> {}, bind |-> {},
             allow |-> {}, discard |-> {}]

TakesString == {"fat", "volumefile", "listing", "tarunpack", "bind", "allow", "discard"}

(* Callbacks that return another reference to the parent. *)
ReturnsParent == {"raw", "bind", "allow", "discard"}

(* The properties objects can reflect on. *)
property_names(kind) ==
  CASE kind = "outfile"   -> {"minsize", "maxsize"}
    [] kind = "partition" -> {"type", "bootable", "grow", "fill"}
    [] kind = "fat"       -> {"label", "oem"}
    [] OTHER              -> {}

Keywords(kwd) == IF kwd = "global" THEN cfg_global ELSE children[kwd]

-----------------------------------------------------------------------------
Top == stack[Len(stack)]

drop(r, o) == [r EXCEPT ![o] = @ - 1]

(* A call that cannot go on reports the error and returns -1. *)
Fail(how, r) ==
  /\ status' = how
  /\ refs' = r
  /\ UNCHANGED <<stack, stored, got>>

(* A keyword's callback: the object it returns and the tables after it, or *)
(* 0 for a failure (bind needs a filesystem of that name; any callback may *)
(* run out of memory or be refused by the tracker).                        *)
FsNamed(n) == \E o \in 1 .. Len(objs) : objs[o].kind = "fat" /\ objs[o].name = n

Callback(l) ==
  IF l.word \in ReturnsParent
  THEN IF l.word = "bind" /\ ~FsNamed(l.arg) THEN {0} ELSE {0, Top.obj}
  ELSE {0, Len(objs) + 1}

\* Mutant: everything hangs off the output file.
NewObj_flat(l) == [kind |-> l.word, name |-> l.arg, parent |-> 1,
                   at |-> Len(lines) + 1, data |-> file_source_listing_create]

NewObj(l) == [kind |-> l.word, name |-> l.arg, parent |-> Top.obj,
              at |-> Len(lines) + 1, data |-> file_source_listing_create]

(* A line that starts with the name of a property of the block's object:   *)
(* the value is parsed and set, and nothing may follow.                    *)
PropertyLine(l) ==
  \/ /\ l.arg \notin {"none", "bad"} /\ l.tail = "end"
     /\ UNCHANGED <<stack, objs, refs, stored, got, status>>
  \/ /\ l.arg \notin {"none", "bad"}      \* object_set_property refuses
     /\ Fail("failed", refs) /\ UNCHANGED objs
  \/ /\ l.arg \in {"none", "bad"} \/ l.tail # "end"
     /\ Fail("syntax", refs) /\ UNCHANGED objs

ArgError(l) ==
  IF l.word \in TakesString THEN l.arg \in {"none", "bad"} ELSE l.arg # "none"

(* A keyword line: the callback makes the child, then its block is opened, *)
(* or it is done with and dropped.                                         *)
KeywordLine(l) ==
  IF l.word \notin Keywords(Top.kwd) \/ ArgError(l)
  THEN Fail("syntax", refs) /\ UNCHANGED objs
  ELSE \E child \in Callback(l) :
    LET objs1 == IF child > Len(objs) THEN Append(objs, NewObj(l)) ELSE objs
        refs1 == IF child > Len(objs) THEN Append(refs, 1)
                 ELSE IF child = 0 THEN refs ELSE [refs EXCEPT ![child] = @ + 1]
        opens == l.tail = "open" /\ (l.word = "listing" \/ children[l.word] # {})
    IN /\ Len(objs1) <= MaxObjs
       /\ objs' = objs1
       /\ \/ child = 0 /\ Fail("failed", refs)
          \/ /\ child # 0 /\ opens
             /\ stack' = Append(stack, [kwd |-> l.word, obj |-> child])
             /\ refs' = refs1
             /\ UNCHANGED <<stored, got, status>>
          \/ /\ child # 0 /\ l.tail = "end"
             /\ refs' = drop(refs1, child)
             /\ UNCHANGED <<stack, stored, got, status>>
          \/ /\ child # 0 /\ ~opens /\ l.tail # "end"
             /\ Fail("syntax", drop(refs1, child))

\* Mutant: the object of a block is not dropped at its end.
CloseBlock_keeps(l) ==
  /\ UNCHANGED objs
  /\ IF Len(stack) = 1 \/ l.tail # "end"
     THEN Fail("syntax", refs)
     ELSE stack' = Front(stack) /\ UNCHANGED <<refs, stored, got, status>>

(* '}': the call for the block returns and its caller, having no           *)
(* finalize_object to call for any of the keywords, drops the object.      *)
CloseBlock(l) ==
  /\ UNCHANGED objs
  /\ IF Len(stack) = 1 \/ l.tail # "end"
     THEN Fail("syntax", refs)
     ELSE /\ refs' = drop(refs, Top.obj)
          /\ stack' = Front(stack)
          /\ UNCHANGED <<stored, got, status>>

(* The -1 goes up through the active calls: each caller drops the object   *)
(* whose block it was parsing and returns -1 in turn.                      *)
ReturnError ==
  /\ status \in {"syntax", "failed"} /\ Len(stack) > 1
  /\ refs' = drop(refs, Top.obj)
  /\ stack' = Front(stack)
  /\ UNCHANGED <<lines, objs, stored, got, status>>

(* One round of the loop in parse(). *)
parse(l) ==
  /\ status = "parse" /\ Top.kwd # "listing" /\ Len(lines) < MaxLines
  /\ lines' = Append(lines, l)
  /\ \/ /\ l.tag = "word"
        /\ l.word \in property_names(objs[Top.obj].kind)
        /\ PropertyLine(l)
     \/ /\ l.tag = "word"
        /\ l.word \notin property_names(objs[Top.obj].kind)
        /\ KeywordLine(l)
     \/ l.tag = "close" /\ CloseBlock(l)
     \/ l.tag = "comment" /\ UNCHANGED <<stack, objs, refs, stored, got, status>>
     \/ l.tag \in {"junk", "encoding", "entry"} /\ Fail("syntax", refs) /\ UNCHANGED objs

(* listing_add_line and add_line: a comment is skipped, '}' is reported to *)
(* plain_listing, everything else has to be an entry.                      *)
ListingEntry(l) ==
  LET e == IF l.tag = "entry" THEN parse_line(l.line) ELSE Bad
      o == Top.obj
  IN IF e = Bad THEN Fail("syntax", refs) /\ UNCHANGED objs
     ELSE /\ \E kept \in BOOLEAN : objs' = [objs EXCEPT ![o].data = store_entry(@, e, kept)]
          /\ stored' = [stored EXCEPT ![o] = Append(@, e)]
          /\ UNCHANGED <<stack, refs, got, status>>

plain_listing(l) ==
  /\ status = "parse" /\ Top.kwd = "listing" /\ Len(lines) < MaxLines
  /\ lines' = Append(lines, l)
  /\ \/ l.tag = "close" /\ CloseBlock(l)
     \/ l.tag = "comment" /\ UNCHANGED <<stack, objs, refs, stored, got, status>>
     \/ l.tag \notin {"close", "comment"} /\ ListingEntry(l)

\* Mutant: the level is not looked at when the file ends.
EndOfFile_anywhere ==
  /\ status = "parse"
  /\ status' = "read"
  /\ UNCHANGED <<lines, stack, objs, refs, stored, got>>

(* fetch_line finds the end of the file, or fails. *)
EndOfFile ==
  /\ status = "parse"
  /\ UNCHANGED <<lines, objs>>
  /\ IF Len(stack) > 1 THEN Fail("syntax", refs)
     ELSE status' = "read" /\ UNCHANGED <<stack, refs, stored, got>>

FetchFails ==
  /\ status = "parse"
  /\ Fail("failed", refs)
  /\ UNCHANGED <<lines, objs>>

(* imgtool_state_process reads the sources one after the other. *)
Unread == {o \in 1 .. Len(objs) : objs[o].kind = "listing" /\ ~AtEnd(objs[o].data)}

\* Mutant: the record is looked at but not taken.
get_next_record_peek ==
  /\ status = "read" /\ Unread # {}
  /\ UNCHANGED vars

get_next_record ==
  /\ status = "read" /\ Unread # {}
  /\ \E o \in {Min(Unread)} :
       /\ got' = [got EXCEPT ![o] = Append(@, decode_entry(objs[o].data).record)]
       /\ objs' = [objs EXCEPT ![o].data = advance(@)]
  /\ UNCHANGED <<lines, stack, refs, stored, status>>

(* The data of a regular file cannot be opened: the build stops. *)
OpenFails ==
  /\ status = "read" /\ Unread # {}
  /\ decode_entry(objs[Min(Unread)].data).record.type = FILE
  /\ status' = "failed"
  /\ UNCHANGED <<lines, stack, objs, refs, stored, got>>

AllRead ==
  /\ status = "read" /\ Unread = {}
  /\ status' = "done"
  /\ UNCHANGED <<lines, stack, objs, refs, stored, got>>

Init ==
  /\ lines = <<>>
  /\ stack = <<[kwd |-> "global", obj |-> 1]>>
  /\ objs = <<[kind |-> "outfile", name |-> "none", parent |-> 0, at |-> 0,
               data |-> file_source_listing_create]>>
  /\ refs = <<0>>
  /\ stored = [o \in 1 .. MaxObjs |-> <<>>]
  /\ got = [o \in 1 .. MaxObjs |-> <<>>]
  /\ status = "parse"

Next ==
  \/ \E l \in Lines : parse(l) \/ plain_listing(l)
  \/ EndOfFile \/ FetchFails \/ ReturnError
  \/ get_next_record \/ OpenFails \/ AllRead

Spec == Init /\ [][Next]_vars /\ WF_vars(Next)

-----------------------------------------------------------------------------
(* How a reader of a file s sees it, by counting braces.                   *)
Opens(l)  == l.tag = "word" /\ l.tail = "open"
Closes(l) == l.tag = "close"

\* The line that opens the block line i of the file is written in, or 0.
Enclosing(s, i) ==
  LET balanced(j) == Cardinality({k \in j + 1 .. i - 1 : Opens(s[k])})
                       = Cardinality({k \in j + 1 .. i - 1 : Closes(s[k])})
  IN Max({j \in 1 .. i - 1 : Opens(s[j]) /\ balanced(j)} \cup {0})

BlockWord(s, j) == IF j = 0 THEN "global" ELSE s[j].word

(* raw { } stands for the volume it is written in. *)
BlockKind(s) ==
  LET kind[j \in 0 .. Len(s)] ==
        IF j = 0 THEN "outfile"
        ELSE IF s[j].word = "raw" THEN kind[Enclosing(s, j)] ELSE s[j].word
  IN kind

Legal(s, i) ==
  LET l == s[i]
      b == Enclosing(s, i)
  IN IF BlockWord(s, b) = "listing"
     THEN \/ l.tag = "comment"
          \/ l.tag = "close" /\ l.tail = "end"
          \/ l.tag = "entry" /\ parse_line(l.line) # Bad
     ELSE \/ l.tag = "comment"
          \/ l.tag = "close" /\ l.tail = "end" /\ b # 0
          \/ /\ l.tag = "word"
             /\ l.word \in property_names(BlockKind(s)[b])
             /\ l.arg \notin {"none", "bad"} /\ l.tail = "end"
          \/ /\ l.tag = "word"
             /\ l.word \in Keywords(BlockWord(s, b))
             /\ ~ArgError(l)
             /\ \/ l.tail = "end"
                \/ l.tail = "open" /\ (children[l.word] # {} \/ l.word = "listing")

(* What the recursive parser says about a file is what counting braces     *)
(* says: it goes on only while every line is allowed in the block it is    *)
(* written in, takes the file only if all blocks are closed, and reports a *)
(* syntax error only for a line that is not allowed where it stands or for *)
(* a block left open at the end (parse, plain_listing).                    *)
SyntaxJudged ==
  /\ status \in {"parse", "read", "done"} => \A i \in 1 .. Len(lines) : Legal(lines, i)
  /\ status \in {"read", "done"} =>
       Cardinality({i \in 1 .. Len(lines) : Opens(lines[i])})
         = Cardinality({i \in 1 .. Len(lines) : Closes(lines[i])})
  /\ status = "syntax" => \/ lines # <<>> /\ ~Legal(lines, Len(lines))
                          \/ Enclosing(lines, Len(lines) + 1) # 0

(* The object that was made at a line, and the one a block's lines are for. *)
ObjectAt(os, j) == CHOOSE p \in 1 .. Len(os) : os[p].at = j

BlockObject(s, os) ==
  LET obj[j \in 0 .. Len(s)] ==
        IF j = 0 THEN 1
        ELSE IF s[j].word = "raw" THEN obj[Enclosing(s, j)]
        ELSE ObjectAt(os, j)
  IN obj

(* Every object is attached to the object of the block its line is written *)
(* in, however blocks that stand for their parent (raw) come in between    *)
(* (parse hands child to the nested call as parent).                       *)
AttachedToBlock ==
  \A o \in 2 .. Len(objs) :
    objs[o].parent = BlockObject(lines, objs)[Enclosing(lines, objs[o].at)]

(* The parser holds an object exactly as often as it has calls for blocks  *)
(* of that object, so none is left behind or dropped twice on any of the   *)
(* error paths, and an object with an open block stays alive.              *)
RefsBalanced ==
  \A o \in 1 .. Len(objs) :
    refs[o] = Cardinality({i \in 2 .. Len(stack) : stack[i].obj = o})

AsBag(s) == FoldLeft(LAMBDA b, e : b (+) SetToBag({e}), EmptyBag, s)

(* The records of source o came back, each once and nothing else. *)
ComesBack(o) ==
  AsBag(got[o]) = AsBag([i \in 1 .. Len(stored[o]) |-> Expected(stored[o][i])])

(* However the records of a listing were spread over the pools, filling    *)
(* them to the last byte, reading the source to its end gives back every   *)
(* accepted entry once and nothing else (encode_entry, get_encoded_size,   *)
(* get_pool, get_next_record), as long as the format has room for all of   *)
(* them: add_line checks neither the lengths nor the size of a pool.       *)
RecordsComeBack ==
  status = "done" =>
    \A o \in 1 .. Len(objs) : (\A i \in 1 .. Len(stored[o]) : Fits(stored[o][i])) => ComesBack(o)

(* The same of all listings.  Not so: a root directory, a name or a target *)
(* too long is accepted and comes back as something else (ListingLong.cfg). *)
AllRecordsComeBack == status = "done" => \A o \in 1 .. Len(objs) : ComesBack(o)

(* A file is read to its end and its sources are drained: the build comes  *)
(* to a verdict and all calls have returned.                               *)
Terminates == <>(status \in {"syntax", "failed", "done"} /\ Len(stack) = 1)

=============================================================================
