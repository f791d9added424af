---------------------------- MODULE MCConfigFile -----------------------------
(***************************************************************************)
(* Configuration files of a few lines.                                     *)
(***************************************************************************)
EXTENDS ConfigFile

Word(w, a, t) == [tag |-> "word", word |-> w, arg |-> a, tail |-> t]

Entry(k, n, nums, u, g, x) ==
  [tag |-> "entry",
   line |-> [keyword |-> k, name |-> n, numbers |-> nums, mode |-> 493,
             uid |-> u, gid |-> g, extra |-> x]]

A == <<97>>
B == <<98>>
Text(n) == [i \in 1 .. n |-> 99]

\* Short entries of three kinds, one as long as the format allows, which fills a pool
\* to the last byte, and one with a name and a target that are too long for it; and
\* lines that are wrong.
Entries ==
  {Entry("file", <<A, Dot, B>>, 3, 0, 16, <<>>),
   Entry("nod", <<A>>, 3, 256, 0, <<"b", 8, 1>>),
   Entry("link", <<B>>, 3, 0, 0, << <<Dot, A>> >>),
   Entry("slink", <<Text(31 + LengthValues)>>, 3, 65536, 65536, << <<Text(LengthValues)>> >>),
   Entry("file", <<Text(32 + LengthValues)>>, 3, 65536, 65536, << <<Text(LengthValues)>> >>),
   Entry("link", <<B>>, 3, 0, 0, << <<Dot>> >>),
   Entry("slink", <<B>>, 3, 0, 0, <<>>),
   Entry("pipe", <<B>>, 2, 0, 0, <<>>)}

ConfigLines ==
  {Word("mountgroup", "none", "open"), Word("mountgroup", "x", "end"),
   Word("listing", "d", "open"), Word("listing", "none", "open"),
   Word("filter", "none", "open"), Word("allow", "p", "end"),
   Word("tarunpack", "d", "end"), Word("tarunpack", "d", "open"),
   Word("fat", "n", "open"), Word("fat", "n", "end"), Word("fat", "n", "junk"),
   Word("bind", "n", "end"),
   Word("volumefile", "f", "open"),
   Word("raw", "none", "open"), Word("raw", "none", "openjunk"),
   Word("dosmbr", "none", "open"), Word("partition", "none", "open"),
   Word("maxsize", "bad", "end"), Word("fill", "yes", "end"),
   Word("label", "l", "end"), Word("label", "l", "junk"),
   [tag |-> "close", tail |-> "end"], [tag |-> "close", tail |-> "junk"],
   [tag |-> "comment"], [tag |-> "encoding"]}

AllLines == Entries \cup ConfigLines

\* A listing with a directory, the root directory and a name that is too long.
LongLines ==
  {Word("mountgroup", "none", "open"), Word("listing", "d", "open"),
   [tag |-> "close", tail |-> "end"],
   Entry("dir", <<B>>, 3, 0, 15, <<>>), Entry("dir", <<Dot>>, 3, 0, 0, <<>>),
   Entry("dir", <<Text(32 + LengthValues)>>, 3, 0, 0, <<>>)}
=============================================================================
