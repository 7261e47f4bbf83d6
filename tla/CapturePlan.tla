------------------------------ MODULE CapturePlan ------------------------------
(***************************************************************************)
(* A screenshot: the display registers are read, the addresses the picture *)
(* needs are planned and fetched, and the renderer works on what was       *)
(* fetched (server/msx_screenshot.py, and the estimate and the guard of    *)
(* t_screenshot in server/msx_mcp_server.py).  Plan and renderer name      *)
(* their addresses in two different pieces of code.  Unless the capture is *)
(* atomic the program runs on and may change the display in between.       *)
(*                                                                         *)
(* Colours and pixels are left out; a byte of VRAM is its address.  The    *)
(* registers are named by number; those of which only one bit matters are  *)
(* named for it.                                                           *)
(***************************************************************************)
EXTENDS Integers, Sequences, FiniteSets, FiniteSetsExt, Bitwise

CONSTANTS
  Screens,     \* displays the program may show
  LaterScreens,\* displays it may change to during a capture
  Captures,    \* arguments of the captures asked for
  Chars,       \* values of the characters and sprite patterns that are shown
  VramPayload, \* largest VRAM read, in bytes
  NoPage       \* no page was asked for

VARIABLES
  screen,      \* the display the program shows
  shot         \* the capture

captureVars == <<screen, shot>>

VRAM_SIZE == 131072
VramBank == 16384
Pages(mode) == IF mode \in {5, 6} THEN 4 ELSE 2

\* low and mid are the register blocks the host reads in one request each.
NoShot == [stage |-> "idle", ask |-> <<>>, mode |-> 0, low |-> <<>>, mid |-> <<>>,
           width |-> 40, ranges |-> {}, estimate |-> <<>>, reads |-> {}]

TileRows(height) == (height + 7) \div 8
HeightOf(mid) == IF mid.tall THEN 212 ELSE 192
Stride(mode) == IF mode \in {5, 6} THEN 128 ELSE 256

----------------------------------------------------------------------------
\* _table_addr for a set of indices: the index bits that the table mask
\* leaves out come from the base, those it covers are cut by it.
Table(base, low, bits, indices) ==
  LET b    == base % VRAM_SIZE
      cut  == 2 ^ (bits - low)
      high == [h \in 0 .. cut - 1 |->
                 (b \div 2 ^ bits) * 2 ^ bits + (((b \div 2 ^ low) % cut) & h) * 2 ^ low]
  IN {high[(i \div 2 ^ low) % cut] + (i % 2 ^ low) : i \in indices}

ColourBase(low, mid) == mid.r10 * 16384 + low.r3 * 64
SpriteBase(low, mid) == mid.r11 * 32768 + low.r5 * 128

\* _bitmap_page_base.
PageBase(mode, low, page) ==
  IF page # NoPage THEN page * (VRAM_SIZE \div Pages(mode))
  ELSE IF mode \in {5, 6} THEN (low.r2 & 96) * 1024
  ELSE (low.r2 & 32) * 2048

SpriteMode(mode) == IF mode \in {1, 2, 3} THEN 1 ELSE 2
SpritesShown(s) == s.ask.sprites /\ s.mode # 0 /\ ~s.mid.spd

----------------------------------------------------------------------------
\* _addresses_for_capture: what the host fetches.

PlannedText(s) ==
  IF s.width = 40
    THEN Table(s.low.r2 * 1024, 10, 12,
           {3072 + i : i \in 0 .. TileRows(HeightOf(s.mid)) * 40 - 1})
    ELSE Table(s.low.r2 * 1024, 10, 12, 0 .. TileRows(HeightOf(s.mid)) * 80 - 1)
         \cup Table(ColourBase(s.low, s.mid), 6, 9, 0 .. TileRows(HeightOf(s.mid)) * 10 - 1)

PlannedTiles(s) ==
  LET wide == s.mode \in {2, 4}
      size == IF wide THEN 8192 ELSE 2048
  IN Table(s.low.r2 * 1024, 10, 10, 0 .. 1023)
     \cup Table(s.low.r4 * 2048, 11, IF wide THEN 13 ELSE 11, 0 .. size - 1)
     \cup (CASE s.mode = 1 -> Table(ColourBase(s.low, s.mid), 6, 6, 0 .. 63)
             [] wide -> Table(ColourBase(s.low, s.mid), 6, 13, 0 .. 8191)
             [] OTHER -> {})

\* Mutant of PlannedBitmap: the vertical scroll is not followed.
UnscrolledBitmap(s) ==
  LET base == PageBase(s.mode, s.low, s.ask.page)
  IN base .. base + HeightOf(s.mid) * Stride(s.mode) - 1

PlannedBitmap(s) ==
  LET base == PageBase(s.mode, s.low, s.ask.page)
      w    == Stride(s.mode)
  IN UNION {LET line == (y + s.mid.scroll) % 256
            IN base + line * w .. base + (line + 1) * w - 1
            : y \in 0 .. HeightOf(s.mid) - 1}

PlannedSprites(s) ==
  IF ~SpritesShown(s) THEN {}
  ELSE (IF SpriteMode(s.mode) = 2
          THEN Table(SpriteBase(s.low, s.mid), 7, 10, 0 .. 1023)
          ELSE Table(SpriteBase(s.low, s.mid), 7, 7, 0 .. 127))
       \cup Table(s.low.r6 * 2048, 11, 11, 0 .. 2047)

Planned(s) ==
  PlannedSprites(s) \cup
  (CASE s.mode = 0 -> PlannedText(s) \cup Table(s.low.r4 * 2048, 11, 11, 0 .. 2047)
     [] s.mode \in 1 .. 4 -> PlannedTiles(s)
     [] OTHER -> PlannedBitmap(s))

\* _ranges: the addresses as intervals <<first, size>>.
Ranges(S) ==
  LET ends == {a \in S : a + 1 \notin S}
  IN {<<a, Min({e \in ends : e >= a}) - a + 1>> : a \in {b \in S : b - 1 \notin S}}

----------------------------------------------------------------------------
\* What render_vram reads, line by line.

Lines(s) == {(y + s.mid.scroll) % 256 : y \in 0 .. HeightOf(s.mid) - 1}

\* SCREEN 0 scrolls within the glyphs only.
TextReads(s) ==
  LET rows  == {y \div 8 : y \in 0 .. HeightOf(s.mid) - 1}
      glyph == {char * 8 + line : char \in Chars, line \in 0 .. 7}
  IN Table(s.low.r4 * 2048, 11, 11, glyph) \cup
     (IF s.width = 40
        THEN Table(s.low.r2 * 1024, 10, 12, {3072 + r * 40 + c : r \in rows, c \in 0 .. 39})
        ELSE Table(s.low.r2 * 1024, 10, 12, {r * 80 + c : r \in rows, c \in 0 .. 79})
             \cup Table(ColourBase(s.low, s.mid), 6, 9,
                        {r * 10 + c \div 8 : r \in rows, c \in 0 .. 79}))

TileReads(s) ==
  LET third == {((line \div 64) * 256 + char) * 8 + (line % 8) : line \in Lines(s), char \in Chars}
  IN Table(s.low.r2 * 1024, 10, 10, {(line \div 8) * 32 + c : line \in Lines(s), c \in 0 .. 31})
     \cup
     (CASE s.mode = 1 ->
             Table(s.low.r4 * 2048, 11, 11, {char * 8 + (line % 8) : line \in Lines(s), char \in Chars})
             \cup Table(ColourBase(s.low, s.mid), 6, 6, {char \div 8 : char \in Chars})
        [] s.mode = 3 ->
             Table(s.low.r4 * 2048, 11, 11,
                   {char * 8 + ((line \div 4) % 8) : line \in Lines(s), char \in Chars})
        [] OTHER ->
             Table(s.low.r4 * 2048, 11, 13, third)
             \cup Table(ColourBase(s.low, s.mid), 6, 13, third))

\* The first and the last byte of a line stand for the line.
BitmapReads(s) ==
  LET base == PageBase(s.mode, s.low, s.ask.page)
  IN {base + line * Stride(s.mode) + i : line \in Lines(s), i \in {0, 77, Stride(s.mode) - 1}}

\* _composite_sprites: any of the 32 sprites may be shown, on any of its lines.
SpriteReads(s) ==
  LET base == SpriteBase(s.low, s.mid)
      size == IF s.low.big THEN 16 ELSE 8
      shape(n) == IF s.low.big
                    THEN {(n - (n % 4)) * 8 + row + half : row \in 0 .. 15, half \in {0, 16}}
                    ELSE {n * 8 + row : row \in 0 .. 7}
      record == {n * 4 + field : n \in 0 .. 31, field \in 0 .. 3}
  IN IF ~SpritesShown(s) THEN {}
     ELSE (IF SpriteMode(s.mode) = 1 THEN Table(base, 7, 7, record)
           ELSE Table(base, 7, 10, {512 + r : r \in record})
                \cup Table(base, 7, 10, {n * 16 + row : n \in 0 .. 31, row \in 0 .. size - 1}))
          \cup Table(s.low.r6 * 2048, 11, 11, UNION {shape(n) : n \in Chars})

RendererReads(s) ==
  SpriteReads(s) \cup
  (CASE s.mode = 0 -> TextReads(s)
     [] s.mode \in 1 .. 4 -> TileReads(s)
     [] OTHER -> BitmapReads(s))

----------------------------------------------------------------------------
\* vpeek: the requests of one range.
RECURSIVE Requests(_, _)
Requests(addr, n) ==
  IF n = 0 THEN {}
  ELSE LET size == Min({n, VramPayload, VramBank - (addr % VramBank)})
       IN {<<addr, size>>} \cup Requests(addr + size, n - size)

\* _real_screenshot_estimate: reads and bytes on the wire, a frame having 13
\* bytes around its payload, a RAM read request four and a VRAM one five.
MetadataSizes(mode) == IF mode = 0 THEN <<1, 8, 16, 3, 1>> ELSE <<1, 8, 16, 3>>
RECURSIVE EstimateRange(_, _, _)
EstimateRange(base, size, offset) ==
  IF offset >= size THEN <<0, 0>>
  ELSE LET chunk == Min({size - offset, VramPayload, VramBank - ((base + offset) % VramBank)})
           rest  == EstimateRange(base, size, offset + chunk)
       IN <<rest[1] + 1, rest[2] + chunk + 31>>

Estimate(s) ==
  LET parts == {<<r, EstimateRange(r[1], r[2], 0)>> : r \in s.ranges}
      meta  == MetadataSizes(s.mode)
  IN <<Len(meta) + MapThenSumSet(LAMBDA p : p[2][1], parts),
       (IF s.mode = 0 THEN 29 ELSE 28) + 30 * Len(meta)
         + MapThenSumSet(LAMBDA p : p[2][2], parts)>>

\* More than ten seconds at 19200 baud with the margin of 1.15.
SlowEstimate(e) == e[2] * 1150 > 10 * 100 * 19200

----------------------------------------------------------------------------
Ask ==
  /\ shot = NoShot
  /\ \E ask \in Captures : shot' = [NoShot EXCEPT !.stage = "asked", !.ask = ask]
  /\ UNCHANGED screen

\* plan_realmsx_capture and capture_openmsx, one read after the other.  A page
\* the mode does not have ends the capture.
ReadMode ==
  /\ shot.stage = "asked"
  /\ shot' = [shot EXCEPT !.stage = "mode", !.mode = screen.mode]
  /\ UNCHANGED screen

ReadLow ==
  /\ shot.stage = "mode"
  /\ shot' = [shot EXCEPT !.stage = "low", !.low = screen.low]
  /\ UNCHANGED screen

ReadMid ==
  /\ shot.stage = "low"
  /\ shot' = [shot EXCEPT !.stage = "registers", !.mid = screen.mid]
  /\ UNCHANGED screen

BadPage(s) == s.mode > 4 /\ s.ask.page # NoPage /\ s.ask.page >= Pages(s.mode)
Width(s) ==
  IF s.ask.agent /\ screen.linlen \in {40, 80} THEN screen.linlen
  ELSE IF s.low.columns80 THEN 80 ELSE 40

Plan ==
  /\ shot.stage = "registers"
  /\ LET s == [shot EXCEPT !.width = Width(shot)] IN
     shot' = IF BadPage(s) THEN [s EXCEPT !.stage = "refused"]
             ELSE [s EXCEPT !.stage = "planned", !.ranges = Ranges(Planned(s))]
  /\ UNCHANGED screen

\* _guard_slow_real_screenshot; openMSX has no such link.
Guard ==
  /\ shot.stage = "planned" /\ shot.ask.agent
  /\ shot' = [shot EXCEPT !.estimate = Estimate(shot),
                !.stage = IF shot.ask.slow /\ ~shot.ask.allow /\ SlowEstimate(Estimate(shot))
                          THEN "refused" ELSE "guarded"]
  /\ UNCHANGED screen

\* acquire_realmsx_capture with vpeek, and _capture_vram.
Acquire ==
  /\ \/ shot.stage = "guarded"
     \/ shot.stage = "planned" /\ ~shot.ask.agent
  /\ shot' = [shot EXCEPT !.stage = "acquired",
                !.reads = IF shot.ask.agent
                          THEN UNION {Requests(r[1], r[2]) : r \in shot.ranges}
                          ELSE shot.ranges]
  /\ UNCHANGED screen

\* The program changes the display, once.
Redisplay ==
  /\ shot.stage \in {"mode", "low", "registers", "planned", "guarded"}
  /\ ~shot.ask.atomic /\ screen \in Screens
  /\ screen' \in LaterScreens
  /\ UNCHANGED shot

CaptureInit == screen \in Screens /\ shot = NoShot
CaptureNext ==
  \/ Ask \/ ReadMode \/ ReadLow \/ ReadMid \/ Plan \/ Guard \/ Acquire \/ Redisplay

----------------------------------------------------------------------------
Interval(r) == r[1] .. r[1] + r[2] - 1
Fetched == UNION {Interval(r) : r \in shot.reads}
ReadBytes == MapThenSumSet(LAMBDA r : r[2], shot.reads)

\* A capture that was acquired can be drawn (_addresses_for_capture and
\* render_vram name the same addresses, whatever the mask bits of the table
\* registers, the scroll, the page, or a display that changed between the
\* reads): the renderer finds every byte it looks at among those fetched;
\* each was fetched once, by reads that fit a frame and stay in a bank; and
\* the reads and bytes the caller was asked to accept are the ones made.
CaptureIsDrawable ==
  shot.stage = "acquired" =>
    /\ RendererReads(shot) \subseteq Fetched
    /\ Fetched \subseteq 0 .. VRAM_SIZE - 1 /\ Cardinality(Fetched) = ReadBytes
    /\ shot.ask.agent =>
         /\ \A r \in shot.reads :
              r[2] <= VramPayload /\ r[1] \div VramBank = (r[1] + r[2] - 1) \div VramBank
         /\ shot.estimate[1] = Cardinality(shot.reads) + Len(MetadataSizes(shot.mode))
         /\ shot.estimate[2] = ReadBytes + 31 * Cardinality(shot.reads)
              + IF shot.mode = 0 THEN 179 ELSE 148
===============================================================================
