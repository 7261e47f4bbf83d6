----------------------------- MODULE MCHostCalls -----------------------------
(***************************************************************************)
(* Parts of the host that share no state, checked in one run: `part` says  *)
(* which of them a behaviour is about, and the others stay where they      *)
(* start.                                                                  *)
(***************************************************************************)
EXTENDS ProgramTools, MemoryAccess, FrameStream, UploadPayload, CapturePlan,
        ResumeJournal, LegacyKeyboard, FaultProxy

VARIABLE part

----------------------------------------------------------------------------
\* Programs.

Raw(space, address, length, digest) ==
  [space |-> space, address |-> address, length |-> length, digest |-> digest,
   payloads |-> 1]
Manifest(segments, entry, requires, mapper) ==
  [kind |-> "manifest", suffix |-> "manifest", length |-> 1, segments |-> segments,
   entry |-> entry, requires |-> requires, mapper |-> mapper]
At(mode, address) == [mode |-> mode, address |-> address]

\* Files that load, overlap, reach the agent or the end of a small VRAM, and
\* ones no parser takes.
SomeFiles ==
  {Manifest(<<Raw("ram", 4, 2, "matches"), Raw("vram", 0, 2, "absent")>>,
            At("call", 4), {}, "none"),
   Manifest(<<Raw("ram", 4, 2, "absent"), Raw("ram", 5, 1, "absent")>>,
            At("run", 4), {}, "none"),
   Manifest(<<Raw("ram", 1, 2, "absent")>>, NoEntry, {}, "none"),
   Manifest(<<Raw("ram", 4, 1, "differs")>>, NoEntry, {}, "none"),
   Manifest(<<Raw("ram", 4, 1, "absent")>>, NoEntry, {"vdp"}, "ascii8"),
   [kind |-> "com", suffix |-> "com", length |-> 2],
   [kind |-> "bload", suffix |-> "bload", length |-> 2, start |-> 5, end |-> 6, execute |-> 5],
   [kind |-> "bload", suffix |-> "other", length |-> 1, start |-> 7, end |-> 7, execute |-> 0],
   [kind |-> "bload", suffix |-> "bload", length |-> 2, start |-> 1, end |-> 2, execute |-> 1],
   [kind |-> "flat-rom", suffix |-> "flat-rom", length |-> 2, init |-> 4]}

----------------------------------------------------------------------------
\* Memory.

SomePage1 == 3 .. 5

----------------------------------------------------------------------------
\* Frames.

SomePayloads == {<<"M">>}

----------------------------------------------------------------------------
\* Screenshots: all modes, with table registers of which the masks cut
\* nothing, everything, or something.

Low(r2, r3, r4, r5, r6, big, wide) ==
  [r2 |-> r2, r3 |-> r3, r4 |-> r4, r5 |-> r5, r6 |-> r6, big |-> big, columns80 |-> wide]
Mid(r10, r11, tall, scroll) ==
  [r10 |-> r10, r11 |-> r11, tall |-> tall, scroll |-> scroll, spd |-> FALSE]
Layouts ==
  {<<Low(0, 0, 0, 0, 0, FALSE, FALSE), Mid(0, 0, FALSE, 0)>>,
   <<Low(127, 255, 63, 255, 63, TRUE, TRUE), Mid(7, 3, TRUE, 255)>>,
   <<Low(42, 159, 1, 239, 15, TRUE, FALSE), Mid(0, 1, TRUE, 100)>>}
SomeScreens ==
  {[mode |-> m, low |-> l[1], mid |-> l[2], linlen |-> 38] : m \in 0 .. 8 \cup 10 .. 12, l \in Layouts}
OtherScreens ==
  {[mode |-> 2, low |-> Low(63, 0, 3, 128, 7, FALSE, TRUE), mid |-> Mid(1, 0, FALSE, 3), linlen |-> 80]}
Capture(agent, sprites, page, atomic, slow) ==
  [agent |-> agent, sprites |-> sprites, page |-> page, atomic |-> atomic,
   slow |-> slow, allow |-> FALSE]
SomeCaptures ==
  {Capture(TRUE, TRUE, 9, FALSE, FALSE), Capture(TRUE, FALSE, 3, TRUE, TRUE),
   Capture(FALSE, TRUE, 1, TRUE, FALSE)}

----------------------------------------------------------------------------
\* Journals.

SomeBlocks == ("e" :> 0) @@ ("a" :> 2) @@ ("b" :> 2)

----------------------------------------------------------------------------
\* Typing: a line longer than the ring, and one more.

SomeLines == <<"c", "c", "c", "r", "c", "r">>

----------------------------------------------------------------------------
Parts == {"programs", "memory", "frames", "upload", "capture", "journal", "typing", "proxy"}

\* A part that is not looked at has one initial state.
HostInit ==
  /\ part \in Parts
  /\ Init
  /\ part # "programs" =>
       machine.os = "dos" /\ machine.native /\ machine.vramSize = 1
  /\ AccessInit /\ (part # "memory" => runtime = "resident" /\ framed /\ banks = 8)
  /\ StreamInit
  /\ UploadInit /\ (part # "upload" => ~basic)
  /\ CaptureInit /\ (part # "capture" => screen = CHOOSE s \in Screens : TRUE)
  /\ JournalInit
  /\ part # "journal" =>
       dir[1] = NoFile /\ local = [l \in Locals |-> NoFile] /\ remote = [t \in Targets |-> NoFile]
  /\ KeyboardInit /\ (part # "typing" => put = 0 /\ byT)
  /\ ProxyInit

\* Every part but the one a behaviour is about.
Still(name) ==
  /\ name # "programs" => UNCHANGED vars
  /\ name # "memory" => UNCHANGED accessVars
  /\ name # "frames" => UNCHANGED streamVars
  /\ name # "upload" => UNCHANGED uploadVars
  /\ name # "capture" => UNCHANGED captureVars
  /\ name # "journal" => UNCHANGED journalVars
  /\ name # "typing" => UNCHANGED keyboardVars
  /\ name # "proxy" => UNCHANGED proxyVars

HostNext ==
  /\ UNCHANGED part
  /\ \/ part = "programs" /\ Next
     \/ part = "memory" /\ AccessNext
     \/ part = "frames" /\ StreamNext
     \/ part = "upload" /\ UploadNext
     \/ part = "capture" /\ CaptureNext
     \/ part = "journal" /\ JournalNext
     \/ part = "typing" /\ KeyboardNext
     \/ part = "proxy" /\ ProxyNext
  /\ Still(part)

hostVars ==
  <<part, vars, accessVars, streamVars, uploadVars, captureVars, journalVars,
    keyboardVars, proxyVars>>
HostSpec == HostInit /\ [][HostNext]_hostVars
=============================================================================
