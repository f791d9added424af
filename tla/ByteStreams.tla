----------------------------- MODULE ByteStreams -----------------------------
(***************************************************************************)
(* Input streams: a file stream with a buffer of BUFSZ bytes, optionally a *)
(* decompressing stream on top of it, and the ways they are read:          *)
(* istream_read, istream_skip and istream_get_line.                        *)
(*                                                                         *)
(* Every round of every loop is a step, so the buffers can be looked at    *)
(* between the refills.  The file holds tokens.  Without a decoder a token *)
(* is a byte; with one, a token is a unit of compressed input and          *)
(* setup.expand says what it unpacks to: nothing for the inside of a block *)
(* that cannot be unpacked yet.  The last token is the trailer; taking it  *)
(* makes the decoder report the end, except for zstd (setup.trailer FALSE),*)
(* which reports an end only when it is told to flush.  A damaged file has *)
(* tokens the decoder cannot take: it reports an error at those of         *)
(* setup.broken, and at those of setup.stuck it does not.                  *)
(***************************************************************************)
EXTENDS Integers, Sequences, SequencesExt

CONSTANTS BUFSZ,     \* size of the buffers, 262144 in the code
          Setups,    \* the files, decoders and readers considered
          Sizes      \* the sizes that are asked for

ASSUME BUFSZAssumption == BUFSZ \in Nat \ {0} /\ Sizes \subseteq Nat

ASSUME SetupsAssumption ==
  \A s \in Setups :
    /\ s.data \in Seq(STRING) /\ s.decoder \in BOOLEAN /\ s.trailer \in BOOLEAN
    /\ s.broken \subseteq STRING /\ s.stuck \subseteq STRING
    /\ s.decoder => \A i \in 1 .. Len(s.data) : s.expand[s.data[i]] \in Seq(STRING)

VARIABLES setup,     \* [data, decoder, trailer, expand, broken, stuck, reader, trim]
          file,      \* the file stream: [pos, buf, off]
          pend,      \* what the decoder has unpacked and not written yet
          strm,      \* the decoding stream: [buf, off, eof]
          pc,        \* where the current call is
          op,        \* the call: [kind, left, line, made]
          got,       \* all bytes taken from the stream so far
          lines,     \* the lines returned so far
          result     \* what the last call returned: ok, eof or error

vars == <<setup, file, pend, strm, pc, op, got, lines, result>>

NoOp == [kind |-> "none", left |-> 0, line |-> <<>>, made |-> 0]

-----------------------------------------------------------------------------
(* The stream the caller reads from. *)
Buf == IF setup.decoder THEN strm.buf ELSE file.buf
Off == IF setup.decoder THEN strm.off ELSE file.off

Unread == SubSeq(Buf, Off + 1, Len(Buf))

\* Mutant: what is unread is dropped with what was read.
Compact_drop(s) == [s EXCEPT !.buf = <<>>, !.off = 0]

(* istream_precache moves what is unread to the front, ... *)
Compact(s) == [s EXCEPT !.buf = SubSeq(@, s.off + 1, Len(@)), !.off = 0]

(* ... and file_precache reads until the buffer is full or the file ends.  *)
(* It notes the end in a flag of its own, not in istream_t.eof.            *)
file_precache(f) ==
  LET n == BUFSZ - Len(f.buf)
      k == IF n < Len(setup.data) - f.pos THEN n ELSE Len(setup.data) - f.pos
  IN [f EXCEPT !.buf = @ \o SubSeq(setup.data, f.pos + 1, f.pos + k),
               !.pos = @ + k]

(* n bytes are taken from the stream. *)
Take(n) ==
  /\ got' = got \o SubSeq(Unread, 1, n)
  /\ IF setup.decoder
     THEN strm' = [strm EXCEPT !.off = @ + n] /\ UNCHANGED file
     ELSE file' = [file EXCEPT !.off = @ + n] /\ UNCHANGED strm

Return(r) ==
  /\ result' = r
  /\ pc' = "idle"
  /\ op' = NoOp

-----------------------------------------------------------------------------
(* The calls.  istream_get_line starts with a refill, the others with what *)
(* is in the buffer.                                                       *)
Call(kind, n) ==
  /\ pc = "idle" /\ result = "ok"
  /\ IF setup.reader = "lines" THEN kind = "line" ELSE kind # "line"
  /\ op' = [NoOp EXCEPT !.kind = kind, !.left = n]
  /\ pc' = IF kind = "line" THEN "precache" ELSE "copy"
  /\ UNCHANGED <<setup, file, pend, strm, got, lines, result>>

(* The loop of istream_read and istream_skip. *)
CopyRound ==
  /\ pc = "copy"
  /\ LET n == IF op.left < Len(Unread) THEN op.left ELSE Len(Unread)
     IN \/ /\ op.left = 0
           /\ Return("ok")
           /\ UNCHANGED <<file, strm, got>>
        \/ /\ op.left > 0 /\ Unread = <<>>
           /\ pc' = "precache"
           /\ UNCHANGED <<file, strm, got, op, result>>
        \/ /\ op.left > 0 /\ Unread # <<>>
           /\ Take(n)
           /\ op' = [op EXCEPT !.left = @ - n]
           /\ UNCHANGED <<pc, result>>
  /\ UNCHANGED <<setup, pend, lines>>

(* istream_precache on the stream of the caller. *)
istream_precache ==
  /\ pc = "precache"
  /\ IF setup.decoder
     THEN /\ strm' = Compact(strm)
          /\ pc' = IF strm.eof THEN "refilled" ELSE "wrapped"
          /\ UNCHANGED file
     ELSE /\ file' = file_precache(Compact(file))
          /\ pc' = "refilled"
          /\ UNCHANGED strm
  /\ UNCHANGED <<setup, pend, op, got, lines, result>>

(* precache of the decoding stream, first half of a round: the wrapped     *)
(* stream is refilled.  Its eof flag stays unset, so the decoder is never  *)
(* told to flush.                                                          *)
PrecacheWrapped ==
  /\ pc = "wrapped"
  /\ file' = file_precache(Compact(file))
  /\ op' = [op EXCEPT !.made = 0]
  /\ pc' = "process"
  /\ UNCHANGED <<setup, pend, strm, got, lines, result>>

(* The loop of process_data goes on and the decoder, its output written,   *)
(* comes to a token of S.                                                  *)
Meets(S) ==
  /\ pc = "process" /\ pend = <<>>
  /\ file.off < Len(file.buf) /\ Len(strm.buf) < BUFSZ
  /\ file.buf[file.off + 1] \in S

(* One round of the loop in process_data: the decoder takes a unit of      *)
(* input, unless it still has output, and writes what there is room for.   *)
DecoderCall ==
  /\ pc = "process"
  /\ file.off < Len(file.buf) /\ Len(strm.buf) < BUFSZ
  /\ ~Meets(setup.broken \cup setup.stuck)
  /\ LET tok   == file.buf[file.off + 1]
         last  == file.pos = Len(setup.data) /\ file.off + 1 = Len(file.buf)
         taken == pend = <<>>
         out   == IF taken THEN setup.expand[tok] ELSE pend
         room  == BUFSZ - Len(strm.buf)
         n     == IF Len(out) < room THEN Len(out) ELSE room
         end   == taken /\ last /\ setup.trailer      \* XFRM_STREAM_END
     IN /\ file' = IF taken THEN [file EXCEPT !.off = @ + 1] ELSE file
        /\ pend' = SubSeq(out, n + 1, Len(out))
        /\ strm' = [strm EXCEPT !.buf = @ \o SubSeq(out, 1, n),
                                !.eof = @ \/ end]
        /\ op' = [op EXCEPT !.made = @ + n]
        /\ pc' = IF end THEN "refilled" ELSE "process"
  /\ UNCHANGED <<setup, got, lines, result>>

(* XFRM_STREAM_ERROR: precache returns before it adds the counters, so the *)
(* input of this call stays in the buffer and its output is dropped; all   *)
(* calls that are active return -1.                                        *)
DecoderFails ==
  /\ Meets(setup.broken)
  /\ file' = [file EXCEPT !.off = 0]
  /\ strm' = [strm EXCEPT !.buf = SubSeq(@, 1, Len(@) - op.made)]
  /\ Return("error")
  /\ UNCHANGED <<setup, pend, got, lines>>

(* Z_DATA_ERROR, which the loop of gzip.c does not look at: nothing is     *)
(* taken, nothing is written, and the decoder is called again.             *)
DecoderStuck ==
  /\ Meets(setup.stuck)
  /\ UNCHANGED vars

\* Mutant: the loop goes on whether or not anything was unpacked.
ProcessDone_always ==
  /\ pc = "process"
  /\ file.off = Len(file.buf) \/ Len(strm.buf) = BUFSZ
  /\ pc' = IF Len(strm.buf) = BUFSZ THEN "refilled" ELSE "wrapped"
  /\ UNCHANGED <<setup, file, pend, strm, op, got, lines, result>>

(* process_data has run out of input or of room: precache goes on only if  *)
(* something was unpacked, and not if the decoder of a format without      *)
(* trailer (zstd) says XFRM_STREAM_BUFFER_FULL.                            *)
ProcessDone ==
  /\ pc = "process"
  /\ file.off = Len(file.buf) \/ Len(strm.buf) = BUFSZ
  /\ pc' = IF op.made = 0 \/ (~setup.trailer /\ file.off < Len(file.buf))
           THEN "refilled" ELSE "wrapped"
  /\ UNCHANGED <<setup, file, pend, strm, op, got, lines, result>>

\* Mutant: a buffer that is not full is taken for the end.
AfterRefill_short ==
  /\ pc = "refilled" /\ op.kind # "line"
  /\ IF Len(Buf) < BUFSZ
     THEN Return(IF op.kind = "skip" THEN "error" ELSE "eof")
     ELSE pc' = "copy" /\ UNCHANGED <<op, result>>
  /\ UNCHANGED <<setup, file, pend, strm, got, lines>>

(* After the refill, istream_read and istream_skip: an empty buffer is the *)
(* end of the file; istream_skip reports it as an error.                   *)
AfterRefill ==
  /\ pc = "refilled" /\ op.kind # "line"
  /\ IF Buf = <<>>
     THEN Return(IF op.kind = "skip" THEN "error" ELSE "eof")
     ELSE pc' = "copy" /\ UNCHANGED <<op, result>>
  /\ UNCHANGED <<setup, file, pend, strm, got, lines>>

-----------------------------------------------------------------------------
Space == {"SP", "CR", "LF"}

(* ltrim and rtrim, when the flags ask for them. *)
trim(asked, s) ==
  IF ~asked THEN s
  ELSE LET keep == {i \in 1 .. Len(s) : s[i] \notin Space}
       IN IF keep = {} THEN <<>>
          ELSE SubSeq(s, CHOOSE i \in keep : \A j \in keep : i <= j,
                         CHOOSE i \in keep : \A j \in keep : i >= j)

\* Mutant: the part of a line that was in the previous buffer is lost.
LineSoFar_last(part) == part

(* What has been put together of the line with the part from this buffer. *)
LineSoFar(part) == op.line \o part

(* istream_get_line: the part of the line that is in the buffer is taken,  *)
(* a CR in front of the LF left out; without an LF the line goes on.       *)
(* Empty lines are skipped when the lines are trimmed.                     *)
LineRound ==
  /\ pc = "refilled" /\ op.kind = "line" /\ Buf # <<>>
  /\ LET lfs == {i \in 1 .. Len(Buf) : Buf[i] = "LF"}
         i   == IF lfs = {} THEN Len(Buf) ELSE CHOOSE k \in lfs : \A j \in lfs : k <= j
         n   == IF lfs = {} THEN i
                ELSE IF i > 1 /\ Buf[i - 1] = "CR" THEN i - 2 ELSE i - 1
         all == LineSoFar(SubSeq(Buf, 1, n))
     IN /\ Take(i)
        /\ \/ /\ lfs = {}
              /\ op' = [op EXCEPT !.line = all]
              /\ pc' = "precache"
              /\ UNCHANGED <<lines, result>>
           \/ /\ lfs # {} /\ setup.trim /\ trim(setup.trim, all) = <<>>
              /\ op' = [op EXCEPT !.line = <<>>]
              /\ pc' = "precache"
              /\ UNCHANGED <<lines, result>>
           \/ /\ lfs # {} /\ ~(setup.trim /\ trim(setup.trim, all) = <<>>)
              /\ lines' = Append(lines, trim(setup.trim, all))
              /\ Return("ok")
  /\ UNCHANGED <<setup, pend>>

(* The end of the file: what is left is a line, if there is something left.*)
LineAtEnd ==
  /\ pc = "refilled" /\ op.kind = "line" /\ Buf = <<>>
  /\ \/ /\ op.line = <<>> \/ (setup.trim /\ trim(setup.trim, op.line) = <<>>)
        /\ Return("eof")
        /\ UNCHANGED lines
     \/ /\ op.line # <<>> /\ ~(setup.trim /\ trim(setup.trim, op.line) = <<>>)
        /\ lines' = Append(lines, trim(setup.trim, op.line))
        /\ Return("ok")
  /\ UNCHANGED <<setup, file, pend, strm, got>>

(* A read(2) on the file fails: all calls that are active return -1. *)
ReadError ==
  /\ pc \in {"precache", "wrapped"}
  /\ Return("error")
  /\ UNCHANGED <<setup, file, pend, strm, got, lines>>

Init ==
  /\ setup \in Setups
  /\ file = [pos |-> 0, buf |-> <<>>, off |-> 0]
  /\ strm = [buf |-> <<>>, off |-> 0, eof |-> FALSE]
  /\ pend = <<>>
  /\ pc = "idle" /\ op = NoOp
  /\ got = <<>> /\ lines = <<>> /\ result = "ok"

Work ==
  \/ CopyRound \/ istream_precache \/ PrecacheWrapped
  \/ DecoderCall \/ DecoderFails \/ DecoderStuck \/ ProcessDone \/ AfterRefill
  \/ LineRound \/ LineAtEnd

Next ==
  \/ \E n \in Sizes : Call("read", n) \/ Call("skip", n)
  \/ Call("line", 0)
  \/ Work \/ ReadError

Spec == Init /\ [][Next]_vars /\ WF_vars(Work)

-----------------------------------------------------------------------------
(* What the first n tokens of the file stand for. *)
Unpacked(s, n) ==
  LET u[k \in 0 .. Len(s.data)] ==
        IF k = 0 THEN <<>> ELSE u[k - 1] \o s.expand[s.data[k]]
  IN IF s.decoder THEN u[n] ELSE SubSeq(s.data, 1, n)

Content == Unpacked(setup, Len(setup.data))

(* How many tokens have been taken out of the file stream. *)
Taken == file.pos - (Len(file.buf) - file.off)

(* No byte is lost, doubled or out of order on its way from the file to    *)
(* the caller: the buffer of the file stream holds the tokens that follow  *)
(* the ones taken from it, and what was handed out, what the decoding      *)
(* stream's buffer holds and what the decoder has not written yet are      *)
(* together what the tokens taken stand for, between any two rounds of any *)
(* loop (istream_precache's memmove, the counters of precache and          *)
(* process_data, the offsets of istream_read).  After a call that failed   *)
(* that is not promised: precache drops what the decoder wrote before its  *)
(* error.  No buffer ever has to hold more than it can.                    *)
Conserved ==
  /\ result # "error" =>
       /\ SubSeq(file.buf, file.off + 1, Len(file.buf)) = SubSeq(setup.data, Taken + 1, file.pos)
       /\ IF setup.decoder THEN (got \o Unread) \o pend = Unpacked(setup, Taken)
                           ELSE got = Unpacked(setup, Taken)
  /\ Len(file.buf) <= BUFSZ /\ Len(strm.buf) <= BUFSZ

(* Compressed data with which a refill is never in vain: of any BUFSZ      *)
(* tokens in front of the last one, one unpacks to something, and the last *)
(* one, the trailer, to nothing.                                           *)
Feeds(s) ==
  s.decoder =>
    LET n == Len(s.data)
    IN /\ n > 0 => s.expand[s.data[n]] = <<>>
       /\ \A i \in 0 .. n - 1 - BUFSZ :
            \E j \in i + 1 .. i + BUFSZ : s.expand[s.data[j]] # <<>>

(* The end of the file is reported only after all of it has been handed    *)
(* out: istream_read takes an empty buffer for the end, so a refill must   *)
(* not come back with nothing while there is more to unpack.               *)
EofMeansAll == result = "eof" => got = Content

(* A line put together from the bytes in front of a line feed (lf) or of    *)
(* the end of the content, as a reader of the documentation of             *)
(* istream_get_line counts them: a CR in front of the line feed left out,  *)
(* trimmed and dropped if empty when asked for; at the end a line only if  *)
(* there is anything in it.                                                *)
PutLine(s, ls, part, lf) ==
  LET bare == IF lf /\ part # <<>> /\ part[Len(part)] = "CR" THEN Front(part) ELSE part
      text == trim(s.trim, bare)
  IN IF text = <<>> /\ (s.trim \/ ~lf) THEN ls ELSE Append(ls, text)

(* The lines the first n bytes of the content make up, and what follows    *)
(* the last line feed in them.                                             *)
SplitUpTo(s, n) ==
  LET c == Unpacked(s, Len(s.data))
      acc[k \in 0 .. Len(c)] ==
        IF k = 0 THEN <<<<>>, <<>>>>
        ELSE IF c[k] = "LF" THEN <<PutLine(s, acc[k - 1][1], acc[k - 1][2], TRUE), <<>>>>
        ELSE <<acc[k - 1][1], Append(acc[k - 1][2], c[k])>>
  IN acc[n]

(* The lines of the content. *)
SplitLines ==
  LET end == SplitUpTo(setup, Len(Content)) IN PutLine(setup, end[1], end[2], FALSE)

(* The lines returned are those of the file, wherever the ends of the      *)
(* buffers fall in them: what istream_get_line has put together of a line  *)
(* when it refills the buffer goes in front of what it finds then.         *)
LinesRight ==
  setup.reader = "lines" =>
    /\ IsPrefix(lines, SplitLines)
    /\ result = "eof" => lines = SplitLines

(* A call returns, with the end or an error if the file is cut off or      *)
(* damaged, unless it comes to damage that the decoder does not report: a  *)
(* round of precache that unpacks nothing is the last, and the loops of    *)
(* istream_read and istream_get_line end with an empty buffer.             *)
CallsReturn == pc # "idle" ~> pc = "idle" \/ Meets(setup.stuck)

(* Without the exception that does not hold: the loop of gzip.c goes on    *)
(* for ever when inflate says Z_DATA_ERROR with input left.                *)
CallsAlwaysReturn == pc # "idle" ~> pc = "idle"
=============================================================================
