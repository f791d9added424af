--------------------------- MODULE MCByteStreams ----------------------------
(***************************************************************************)
(* Buffers of three bytes.                                                 *)
(***************************************************************************)
EXTENDS ByteStreams

Bytes == {"a", "SP", "CR", "LF"}
Plain == [t \in Bytes |-> <<t>>]

SeqsUpTo(S, n) == UNION {[1 .. k -> S] : k \in 0 .. n}

\* Files read directly: lines as the configuration file is read, and lines
\* without CR that are kept as they are.
LineFiles ==
  {[data |-> d, decoder |-> FALSE, trailer |-> FALSE, expand |-> Plain, broken |-> {}, stuck |-> {},
    reader |-> "lines", trim |-> TRUE] : d \in SeqsUpTo(Bytes, 5)}
  \cup
  {[data |-> d, decoder |-> FALSE, trailer |-> FALSE, expand |-> Plain, broken |-> {}, stuck |-> {},
    reader |-> "lines", trim |-> FALSE] : d \in SeqsUpTo({"a", "LF"}, 6)}

Raw ==
  {[data |-> [i \in 1 .. n |-> "a"], decoder |-> FALSE, trailer |-> FALSE,
    expand |-> Plain, broken |-> {}, stuck |-> {}, reader |-> "bytes", trim |-> FALSE] : n \in 0 .. 8}

\* Compressed files: units of input that unpack to nothing, one byte or more
\* than a buffer, and the trailer.
Expand == [n |-> <<>>, one |-> <<"a">>, line |-> <<"a", "LF">>,
           many |-> <<"a", "b", "c", "d">>, end |-> <<>>]

\* gzip, xz, zstd with a checksum: no buffer of input is swallowed whole.
Compressed ==
  {s \in {[data |-> Append(d, "end"), decoder |-> TRUE, trailer |-> t, expand |-> Expand,
           broken |-> {}, stuck |-> {}, reader |-> r, trim |-> FALSE] : t \in BOOLEAN,
             d \in SeqsUpTo({"n", "one", "line", "many"}, 4), r \in {"bytes", "lines"}} : Feeds(s)}

\* Damaged files: at the token "bad" all decoders but the one of gzip report
\* an error, and that one takes and writes nothing more.
DamagedExpand == [n |-> <<>>, one |-> <<"a">>, many |-> <<"a", "b", "c", "d">>, bad |-> <<>>]

Damaged ==
  {s \in {[data |-> d, decoder |-> TRUE, trailer |-> t, expand |-> DamagedExpand,
           broken |-> IF gzip THEN {} ELSE {"bad"}, stuck |-> IF gzip THEN {"bad"} ELSE {},
           reader |-> r, trim |-> FALSE] :
             gzip \in BOOLEAN, t \in BOOLEAN, r \in {"bytes", "lines"},
             d \in SeqsUpTo({"n", "one", "many", "bad"}, 4)} :
     /\ \E i \in 1 .. Len(s.data) : s.data[i] = "bad"
     /\ s.stuck # {} => s.trailer
     /\ Feeds(s)}

AllSetups == LineFiles \cup Raw \cup Compressed \cup Damaged

\* bzip2: a block can be unpacked only when all of it is there.
Bzip2Blocks ==
  {[data |-> <<"n", "n", "n", "n", "many", "end">>, decoder |-> TRUE, trailer |-> TRUE,
    expand |-> Expand, broken |-> {}, stuck |-> {}, reader |-> "bytes", trim |-> FALSE]}
=============================================================================
