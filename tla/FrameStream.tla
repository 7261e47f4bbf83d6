------------------------------- MODULE FrameStream -------------------------------
(***************************************************************************)
(* FrameParser (server/msx_protocol.py) as V3Session uses it: feed for     *)
(* whatever the stream delivers, finish when an attempt is over.           *)
(*                                                                         *)
(* The rest of the project takes a frame for one unit.  Here it is a       *)
(* sequence of bytes that arrives in pieces of any length, between the     *)
(* bytes of frames that were cut or damaged.  A byte is a string; the      *)
(* eleven bytes of the header are four (magic, one for version and type,   *)
(* one for the length), and the two of the CRC are one string that         *)
(* determines the body: that a damaged body has the CRC of another is not  *)
(* modelled.  Errors the parser reports are diagnostics and left out.      *)
(***************************************************************************)
EXTENDS Naturals, Sequences, SequencesExt, TLC

CONSTANTS
  MaxFramePayload, \* largest payload; 65535, or what was negotiated
  Payloads,    \* payloads of the frames the peer sends
  Noise,       \* bytes that belong to no frame
  MaxPieces,   \* bound on the frames, fragments and noise of a stream
  MaxBroken    \* a piece behind so many others is not a broken one

VARIABLES
  buffer,      \* FrameParser._buffer
  decoded,     \* history: payloads of the frames feed and finish returned
  fed,         \* history: bytes fed since the last finish
  since,       \* history: payloads returned since the last finish
  coming,      \* bytes on their way to the host
  whole,       \* history: payloads of frames that arrived uncut
  sending,     \* history: the undamaged frame coming is the rest of, or None
  pieces,      \* pieces the peer sent
  clean        \* history: nothing was cut or damaged so far

streamVars == <<buffer, decoded, fed, since, coming, whole, sending, pieces, clean>>

Magic == <<"M", "X">>
HeaderSize == 4
Digit == [n \in 0 .. 9 |-> ToString(n)]
NoFrame == <<"none">>

Crc(body) == ToString(body)
Body(payload) == Magic \o <<"v", Digit[Len(payload)]>> \o payload
EncodeFrame(payload) == Append(Body(payload), Crc(Body(payload)))

----------------------------------------------------------------------------
\* The parser.

\* _decode_header: version, type and length are possible.
HeaderHolds(b) == b[3] = "v" /\ \E n \in 0 .. MaxFramePayload : b[4] = Digit[n]
PayloadLength(b) == CHOOSE n \in 0 .. MaxFramePayload : b[4] = Digit[n]
FrameSize(b) == HeaderSize + PayloadLength(b) + 1

PayloadOf(b) == SubSeq(b, HeaderSize + 1, FrameSize(b) - 1)
FrameHolds(b) == b[FrameSize(b)] = Crc(SubSeq(b, 1, FrameSize(b) - 1))

\* Positions of the magic in b, from a position on.
MagicAt(b, from) ==
  {i \in from .. Len(b) - 1 : b[i] = Magic[1] /\ b[i + 1] = Magic[2]}
First(S) == CHOOSE i \in S : \A j \in S : i <= j
Suffix(b, i) == SubSeq(b, i, Len(b))

\* Mutant of HalfMagic: nothing is kept for the next call.
NoHalf(b) == <<>>

\* The last byte may be the first half of a magic.
HalfMagic(b) == IF b # <<>> /\ Last(b) = Magic[1] THEN <<Last(b)>> ELSE <<>>

\* The loop of feed: [buf, out], what stays in the buffer and the payloads of
\* the frames found.  After an impossible candidate one byte is dropped.
RECURSIVE Scan(_, _)
Scan(b, out) ==
  LET at == MagicAt(b, 1) IN
  IF at = {} THEN [buf |-> HalfMagic(b), out |-> out]
  ELSE LET c == Suffix(b, First(at)) IN
       IF Len(c) < HeaderSize THEN [buf |-> c, out |-> out]
       ELSE IF ~HeaderHolds(c) THEN Scan(Tail(c), out)
       ELSE IF Len(c) < FrameSize(c) THEN [buf |-> c, out |-> out]
       ELSE IF ~FrameHolds(c) THEN Scan(Tail(c), out)
       ELSE Scan(Suffix(c, FrameSize(c) + 1), Append(out, PayloadOf(c)))

\* _find_valid_frame: positions of complete valid frames behind the first byte.
LaterFrames(b) ==
  {i \in MagicAt(b, 2) :
     LET c == Suffix(b, i) IN
     Len(c) >= HeaderSize /\ HeaderHolds(c) /\ Len(c) >= FrameSize(c)
       /\ FrameHolds(c)}

\* Mutant of Salvage: the tail is dropped with whatever it holds.
DropTail(r) == r.out

\* finish: an incomplete candidate hides no complete frame behind it.  feed
\* leaves nothing but such a candidate or less than a header.
RECURSIVE Salvage(_)
Salvage(r) ==
  IF Len(r.buf) < HeaderSize \/ LaterFrames(r.buf) = {} THEN r.out
  ELSE Salvage(Scan(Suffix(r.buf, First(LaterFrames(r.buf))), r.out))

Feed(n) ==
  /\ n \in 1 .. Len(coming)
  /\ LET got == SubSeq(coming, 1, n)
         r   == Scan(buffer \o got, <<>>)
     IN /\ buffer' = r.buf
        /\ decoded' = decoded \o r.out
        /\ since' = since \o r.out
        /\ fed' = fed \o got
  /\ coming' = Suffix(coming, n + 1)
  /\ IF coming' = <<>> /\ sending # NoFrame
       THEN whole' = Append(whole, sending) /\ sending' = NoFrame
       ELSE UNCHANGED <<whole, sending>>
  /\ UNCHANGED <<pieces, clean>>

\* An attempt that ends in the middle of a frame has cut it.
Finish ==
  /\ fed # <<>>
  /\ decoded' = decoded \o Salvage(Scan(buffer, <<>>))
  /\ buffer' = <<>> /\ fed' = <<>> /\ since' = <<>>
  /\ IF sending # NoFrame /\ Len(coming) < Len(EncodeFrame(sending))
       THEN sending' = NoFrame /\ clean' = FALSE
       ELSE UNCHANGED <<sending, clean>>
  /\ UNCHANGED <<coming, whole, pieces>>

----------------------------------------------------------------------------
\* The peer and the line.

Nested == EncodeFrame(<<"n">>)
Frames == {EncodeFrame(p) : p \in Payloads \cup {Nested}}

\* A frame of which the end is missing, or with one byte replaced by another.
Cuts == UNION {{SubSeq(f, 1, n) : n \in 1 .. Len(f) - 1} : f \in Frames}
Damaged ==
  UNION {{[f EXCEPT ![3] = "u"], [f EXCEPT ![4] = Digit[9]],
          [f EXCEPT ![4] = Digit[0]], [f EXCEPT ![Len(f)] = "c"]} : f \in Frames}
  \ Frames

Sends(bytes, frame, intact) ==
  /\ coming = <<>> /\ pieces < MaxPieces
  /\ pieces' = pieces + 1
  /\ coming' = bytes /\ sending' = frame /\ clean' = (clean /\ intact)
  /\ UNCHANGED <<buffer, decoded, fed, since, whole>>

SendFrame == \E p \in Payloads \cup {Nested} : Sends(EncodeFrame(p), p, TRUE)
SendNoise == \E b \in Noise : Sends(<<b>>, NoFrame, TRUE)
SendBroken ==
  pieces < MaxBroken /\ \E f \in Cuts \cup Damaged : Sends(f, NoFrame, FALSE)

StreamInit ==
  /\ buffer = <<>> /\ decoded = <<>> /\ fed = <<>> /\ since = <<>>
  /\ coming = <<>> /\ whole = <<>> /\ sending = NoFrame
  /\ pieces = 0 /\ clean = TRUE

StreamNext ==
  \/ \E n \in 1 .. Len(coming) : Feed(n)
  \/ Finish
  \/ SendFrame \/ SendNoise \/ SendBroken

----------------------------------------------------------------------------
\* What feed makes of a stream does not depend on where it was split: it is
\* what one call makes of all the bytes.
SplitsDoNotMatter == Scan(<<>> \o fed, <<>>) = [buf |-> buffer, out |-> since]

\* The frames of the payload of another frame; feed may take them for frames
\* only once the frame around them was cut or damaged.
Own(payloads) == SelectSeq(payloads, LAMBDA p : p # <<"n">>)

\* The parser is faithful to the stream (FrameParser.feed, finish): splits do
\* not matter; every frame that arrived uncut is returned once, in order, as
\* soon as nothing broken is before it and at the end of the attempt at the
\* latest; nothing else is returned but a frame from the payload of a broken
\* one.
ParserIsFaithful ==
  /\ SplitsDoNotMatter
  /\ IsPrefix(Own(decoded), whole)
  /\ clean => decoded = whole
  /\ fed = <<>> => Own(decoded) = whole
===============================================================================
