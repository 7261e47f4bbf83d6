------------------------------ MODULE UploadPayload ------------------------------
(***************************************************************************)
(* What put_file makes of a local file before a byte is sent, and what the *)
(* DOS helper makes of the bytes it received (server/msx_transfer.py:      *)
(* prepare_msx_basic_source, prepare_put_payload; msx_xfer_engine.inc:     *)
(* loader_xfer_put_packbits_finalize).                                     *)
(*                                                                         *)
(* Both host passes stream: they keep a bounded state across the blocks    *)
(* they read.  A byte is its value.  Size and CRC-32 of an image stand for *)
(* the image itself.  Progress, cancellation and the staging files are     *)
(* left out, as is the check that the source did not change meanwhile.     *)
(***************************************************************************)
EXTENDS Integers, Sequences, SequencesExt

CONSTANTS
  TextBytes,   \* bytes of the BASIC listings that are read
  TextLength,  \* bound on their length
  DataBytes,   \* bytes of the other files
  DataLength,  \* bound on their length
  Chunk,       \* chunk_size, from which pending output is written; 65536
  Packet,      \* largest literal or run of a packet; 128
  Savings,     \* least saving worth a packed transfer; 256 or three percent
  MaxSize      \* max_size, of a file and of its wire image; 2^32 - 1

VARIABLES
  basic,       \* whether the target is a .BAS file
  source,      \* the bytes of the local file read so far
  text,        \* state of the BASIC normalisation
  packed       \* state of the PackBits encoder, over the normalised bytes

uploadVars == <<basic, source, text, packed>>

CR == 13  LF == 10  EOF == 26  TAB == 9  SPACE == 32
Blank == {TAB, SPACE}
Digits == 48 .. 57

Repeat(b, n) == [i \in 1 .. n |-> b]
Remainder(s, i) == SubSeq(s, i, Len(s))

----------------------------------------------------------------------------
\* _normalize_msx_basic_stream.

NoText ==
  [out |-> <<>>, start |-> 0, held |-> <<>>, numbered |-> FALSE, saw |-> FALSE,
   cr |-> FALSE, eof |-> FALSE, bad |-> FALSE]

\* Mutant of FinishLine: a row without a number is kept.
KeepBlankRow(t) ==
  LET out == t.out \o t.held \o <<CR, LF>> IN
  [t EXCEPT !.out = out, !.held = <<>>, !.saw = @ \/ t.numbered,
            !.start = Len(out), !.numbered = FALSE, !.cr = FALSE]

\* finish_line: a row of blanks is taken back from the output.
FinishLine(t) ==
  LET out == IF t.numbered THEN t.out \o t.held \o <<CR, LF>>
             ELSE SubSeq(t.out, 1, t.start)
  IN [t EXCEPT !.out = out, !.held = IF t.numbered THEN <<>> ELSE @,
               !.saw = @ \/ t.numbered, !.start = Len(out),
               !.numbered = FALSE, !.cr = FALSE]

\* A character of a line; its first non-blank one has to be a digit.
LineByte(t, b) ==
  IF ~t.numbered /\ b \in Blank THEN [t EXCEPT !.out = Append(@, b)]
  ELSE IF ~t.numbered /\ b \notin Digits THEN [t EXCEPT !.bad = TRUE]
  ELSE LET held == Append(t.held, b) IN
       IF Len(held) >= Chunk
         THEN [t EXCEPT !.numbered = TRUE, !.out = @ \o held, !.held = <<>>]
         ELSE [t EXCEPT !.numbered = TRUE, !.held = held]

TextByte(was, b) ==
  IF was.bad THEN was
  ELSE IF was.eof THEN [was EXCEPT !.bad = (b # EOF)]
  ELSE IF was.cr /\ b = LF THEN FinishLine(was)
  ELSE LET t == IF was.cr THEN FinishLine(was) ELSE was IN
       CASE b = EOF -> [FinishLine(t) EXCEPT !.eof = TRUE]
         [] b = CR -> [t EXCEPT !.cr = TRUE]
         [] b = LF -> FinishLine(t)
         [] b < SPACE /\ b # TAB -> [t EXCEPT !.bad = TRUE]
         [] OTHER -> LineByte(t, b)

TextEnd(t) ==
  LET e == IF t.cr \/ ~t.eof THEN FinishLine(t) ELSE t IN
  [e EXCEPT !.bad = @ \/ ~e.saw, !.out = Append(@, EOF)]

----------------------------------------------------------------------------
\* _deterministic_packbits.

NoPack == [lit |-> <<>>, run |-> <<>>, out |-> <<>>]

RECURSIVE FlushLiterals(_, _)
FlushLiterals(p, final) ==
  IF Len(p.lit) >= Packet \/ (final /\ p.lit # <<>>)
    THEN LET n == IF Len(p.lit) < Packet THEN Len(p.lit) ELSE Packet IN
         FlushLiterals(
           [p EXCEPT !.out = @ \o <<n - 1>> \o SubSeq(p.lit, 1, n),
                     !.lit = Remainder(@, n + 1)], final)
    ELSE p

\* Mutant of SettleRun: a run leaves the literals before it unwritten.
SettleOutOfOrder(p) ==
  IF Len(p.run) >= 3
    THEN [p EXCEPT !.run = <<>>, !.out = @ \o <<257 - Len(p.run), p.run[1]>>]
    ELSE FlushLiterals([p EXCEPT !.lit = @ \o p.run, !.run = <<>>], FALSE)

\* settle_run: runs of one or two bytes become literals.
SettleRun(p) ==
  IF Len(p.run) >= 3
    THEN LET q == FlushLiterals(p, TRUE) IN
         [q EXCEPT !.run = <<>>, !.out = @ \o <<257 - Len(p.run), p.run[1]>>]
    ELSE FlushLiterals([p EXCEPT !.lit = @ \o p.run, !.run = <<>>], FALSE)

PackByte(p, b) ==
  IF p.run # <<>> /\ p.run[1] = b /\ Len(p.run) < Packet
    THEN [p EXCEPT !.run = Append(@, b)]
    ELSE [SettleRun(p) EXCEPT !.run = <<b>>]

PackEnd(p) == FlushLiterals(SettleRun(p), TRUE)
Pack(s) == PackEnd(FoldLeft(PackByte, NoPack, s)).out

\* looks_already_compressed, by a magic prefix of a file that is not BASIC.
Compressed(s) == s # <<>> /\ s[1] = 31

\* prepare_put_payload: the wire image of a transfer, or "refused".  Whoever
\* reads the source, for the checksum or to pack it, stops behind max_size.
Payload(mode, s) ==
  LET wire == Pack(s)
      Sends(enc, image) == [enc |-> enc, wire |-> image]
  IN  IF Len(s) > MaxSize THEN Sends("refused", <<>>)
      ELSE IF mode = "raw" \/ (mode = "auto" /\ Compressed(s)) THEN Sends("raw", s)
      ELSE IF Len(wire) > MaxSize
        THEN IF mode = "packbits" THEN Sends("refused", <<>>) ELSE Sends("raw", s)
      ELSE IF mode = "packbits" \/ Len(s) - Len(wire) >= Savings THEN Sends("packbits", wire)
      ELSE Sends("raw", s)

----------------------------------------------------------------------------
\* loader_xfer_packbits_loop: the image the helper writes, or <<-1>> if it
\* refuses the stream; `final` is the size the OPEN declared.
RECURSIVE Unpack(_, _, _)
Unpack(wire, final, out) ==
  IF wire = <<>> THEN IF Len(out) = final THEN out ELSE <<-1>>
  ELSE LET c == wire[1]
           n == IF c < 128 THEN c + 1 ELSE 257 - c
           k == IF c < 128 THEN n + 1 ELSE 2
       IN IF c \in {128, 255} \/ Len(wire) < k \/ Len(out) + n > final THEN <<-1>>
          ELSE Unpack(Remainder(wire, k + 1), final,
                 out \o IF c < 128 THEN SubSeq(wire, 2, k) ELSE Repeat(wire[2], n))

Received(p, final) ==
  IF p.enc = "packbits" THEN Unpack(p.wire, final, <<>>) ELSE p.wire

----------------------------------------------------------------------------
UploadInit ==
  /\ basic \in BOOLEAN /\ source = <<>> /\ text = NoText /\ packed = NoPack

\* One more byte of the source.  The encoder runs over the finished listing;
\* for other files it is fed as the source is read.
ReadText ==
  /\ basic /\ Len(source) < TextLength
  /\ \E b \in TextBytes :
       source' = Append(source, b) /\ text' = TextByte(text, b)
  /\ UNCHANGED <<basic, packed>>

ReadData ==
  /\ ~basic /\ Len(source) < DataLength
  /\ \E b \in DataBytes :
       source' = Append(source, b) /\ packed' = PackByte(packed, b)
  /\ UNCHANGED <<basic, text>>

UploadNext == ReadText \/ ReadData

----------------------------------------------------------------------------
\* The listing MSX-DOS should get, stated over the whole source.

Upto(s) == SelectInSeq(s, LAMBDA b : b = EOF)
Listing == IF Upto(source) = 0 THEN source ELSE SubSeq(source, 1, Upto(source) - 1)
AfterEof == IF Upto(source) = 0 THEN {}
            ELSE {source[i] : i \in Upto(source) .. Len(source)}

\* A row ends before position i of s; a line feed behind a return ends none.
Breaks(s) ==
  {i \in 1 .. Len(s) : s[i] = CR \/ (s[i] = LF /\ (i = 1 \/ s[i - 1] # CR))}
\* The row before the break i, without the line feed of the break before.
Row(s, i) ==
  LET before == {j \in Breaks(s) : j < i}
      last   == IF before = {} THEN 0 ELSE CHOOSE j \in before : \A k \in before : k <= j
  IN SelectSeq(SubSeq(s, last + 1, i - 1), LAMBDA b : b # LF)
Rows(s) ==
  LET ends == SetToSortSeq(Breaks(s) \cup {Len(s) + 1}, <)
  IN [k \in 1 .. Len(ends) |-> Row(s, ends[k])]

Printed(r) == SelectSeq(r, LAMBDA b : b \notin Blank)
Numbered == SelectSeq(Rows(Listing), LAMBDA r : Printed(r) # <<>>)
IsListing ==
  /\ AfterEof \subseteq {EOF}
  /\ \A i \in DOMAIN Listing : Listing[i] >= SPACE \/ Listing[i] \in {CR, LF, TAB}
  /\ Numbered # <<>> /\ \A i \in DOMAIN Numbered : Printed(Numbered[i])[1] \in Digits

Canonical ==
  FlattenSeq([i \in DOMAIN Numbered |-> Numbered[i] \o <<CR, LF>>]) \o <<EOF>>

\* What the helper writes for a transfer of the image s.
Arrives(s) ==
  \A mode \in {"auto", "raw", "packbits"} :
    LET p == Payload(mode, s) IN
    /\ p.enc # "refused" => Received(p, Len(s)) = s
    /\ p.enc = "refused" <=>
         Len(s) > MaxSize \/ (mode = "packbits" /\ Len(Pack(s)) > MaxSize)
    /\ mode = "auto" => Len(p.wire) <= Len(s)

\* A put delivers what it promises (prepare_msx_basic_source,
\* prepare_put_payload, the decoder of the helper): a listing arrives as
\* numbered rows with CR LF and one end mark, whatever its line ends, blanks
\* and blocks were, or is refused if it is none; every other file arrives byte
\* by byte; the host refuses only what is longer than a size field can say, and
\* the helper refuses no stream the host packed; an automatic transfer is never
\* longer than the file.
UploadArrives ==
  IF basic
    THEN LET end == TextEnd(text) IN
         /\ end.bad = ~IsListing
         /\ ~end.bad => end.out = Canonical /\ Arrives(end.out)
    ELSE PackEnd(packed).out = Pack(source) /\ Arrives(source)
===============================================================================
