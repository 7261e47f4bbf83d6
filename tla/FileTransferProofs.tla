--------------------------- MODULE FileTransferProofs ---------------------------
(***************************************************************************)
(* Proofs about FileTransfer, for every set of transfer IDs, file size,    *)
(* window, journal interval and number of faults, from the invariant of    *)
(* FileTransferInv: here a PUT, and what both directions have in common.   *)
(***************************************************************************)
EXTENDS FileTransferInv, SequenceTheorems, TLAPS


----------------------------------------------------------------------------
(* Blocks. *)

LEMMA PrefixFacts ==
  ASSUME NEW n \in Nat
  PROVE  /\ Prefix(n) \in Blocks /\ Len(Prefix(n)) = n
         /\ \A k \in 1 .. n : Prefix(n)[k] = k
         /\ Prefix(0) = <<>>
<1>1. Prefix(n) \in Blocks /\ Len(Prefix(n)) = n /\ \A k \in 1 .. n : Prefix(n)[k] = k
  BY IsASeq DEF Prefix, Blocks
<1>2. Prefix(0) = <<>>
  BY DEF Prefix
<1> QED BY <1>1, <1>2

LEMMA PrefixGrows ==
  ASSUME NEW n \in Nat PROVE Prefix(n) \o <<n + 1>> = Prefix(n + 1)
<1> DEFINE s == Prefix(n) \o <<n + 1>>
<1>1. Prefix(n) \in Blocks /\ Len(Prefix(n)) = n /\ \A k \in 1 .. n : Prefix(n)[k] = k
  BY PrefixFacts
<1>2. Prefix(n + 1) \in Blocks /\ Len(Prefix(n + 1)) = n + 1
      /\ \A k \in 1 .. n + 1 : Prefix(n + 1)[k] = k
  BY PrefixFacts, n + 1 \in Nat
<1>3. <<n + 1>> \in Blocks /\ Len(<<n + 1>>) = 1 /\ <<n + 1>>[1] = n + 1
  BY DEF Blocks
<1>4. s \in Blocks /\ Len(s) = n + 1
      /\ \A k \in 1 .. n + 1 : s[k] = IF k <= n THEN Prefix(n)[k] ELSE <<n + 1>>[k - n]
  BY <1>1, <1>3, ConcatProperties DEF Blocks
<1>5. ASSUME NEW k \in 1 .. n + 1 PROVE s[k] = Prefix(n + 1)[k]
  <2>1. CASE k <= n
    BY <2>1, <1>1, <1>2, <1>4
  <2>2. CASE ~(k <= n)
    <3>1. k = n + 1 /\ k - n = 1
      BY <2>2
    <3>2. s[k] = <<n + 1>>[k - n]
      BY <2>2, <1>4
    <3> QED BY <1>2, <1>3, <3>1, <3>2
  <2> QED BY <2>1, <2>2
<1> HIDE DEF s
<1> QED BY <1>2, <1>4, <1>5, SeqEqual DEF Blocks, s

LEMMA SubFacts ==
  ASSUME NEW s \in Blocks, NEW n \in 0 .. Len(s)
  PROVE  /\ SubSeq(s, 1, n) \in Blocks /\ Len(SubSeq(s, 1, n)) = n
         /\ \A k \in 1 .. n : SubSeq(s, 1, n)[k] = s[k]
         /\ SubSeq(s, 1, Len(s)) = s
<1>1. \A i \in 1 .. n : s[i] \in Nat
  BY DEF Blocks
<1>2. SubSeq(s, 1, n) \in Blocks
  BY <1>1, SubSeqProperties DEF Blocks
<1>3. Len(SubSeq(s, 1, n)) = n /\ \A k \in 1 .. n : SubSeq(s, 1, n)[k] = s[k]
  BY DEF Blocks
<1>4. SubSeq(s, 1, Len(s)) = s
  BY SubSeqFull DEF Blocks
<1> QED BY <1>2, <1>3, <1>4

\* What is cut off and written behind a prefix leaves the prefix.
LEMMA Rewritten ==
  ASSUME NEW s \in Blocks, NEW a \in Blocks, NEW m \in 0 .. Len(s), NEW k \in 0 .. m
  PROVE  /\ SubSeq(s, 1, m) \o a \in Blocks
         /\ Len(SubSeq(s, 1, m) \o a) = m + Len(a)
         /\ SubSeq(SubSeq(s, 1, m) \o a, 1, k) = SubSeq(s, 1, k)
<1> DEFINE b == SubSeq(s, 1, m)
           c == b \o a
<1>0. Len(s) \in Nat /\ Len(a) \in Nat /\ m \in Nat /\ k \in 0 .. Len(s)
  BY DEF Blocks
<1>1. b \in Blocks /\ Len(b) = m /\ \A i \in 1 .. m : b[i] = s[i]
  BY SubFacts
<1>2. c \in Blocks /\ Len(c) = m + Len(a) /\ \A i \in 1 .. m : c[i] = b[i]
  <2>1. /\ c \in Seq(Nat) /\ Len(c) = Len(b) + Len(a)
        /\ \A i \in 1 .. Len(b) + Len(a) :
             c[i] = IF i <= Len(b) THEN b[i] ELSE a[i - Len(b)]
    <3>1. b \in Seq(Nat) /\ a \in Seq(Nat)
      BY <1>1 DEF Blocks
    <3> HIDE DEF b
    <3> QED BY <3>1, ConcatProperties
  <2>2. \A i \in 1 .. m : i \in 1 .. Len(b) + Len(a) /\ i <= Len(b)
    BY <1>0, <1>1
  <2> HIDE DEF b, c
  <2> QED BY <1>1, <2>1, <2>2 DEF Blocks
<1>3. SubSeq(c, 1, k) \in Blocks /\ Len(SubSeq(c, 1, k)) = k
      /\ \A i \in 1 .. k : SubSeq(c, 1, k)[i] = c[i]
  <2>1. k \in 0 .. Len(c)
    BY <1>0, <1>2
  <2> HIDE DEF c
  <2> QED BY <2>1, <1>2, SubFacts
<1>4. SubSeq(s, 1, k) \in Blocks /\ Len(SubSeq(s, 1, k)) = k
      /\ \A i \in 1 .. k : SubSeq(s, 1, k)[i] = s[i]
  BY <1>0, SubFacts
<1>5. \A i \in 1 .. k : SubSeq(c, 1, k)[i] = SubSeq(s, 1, k)[i]
  BY <1>1, <1>2, <1>3, <1>4
<1>6. SubSeq(c, 1, k) = SubSeq(s, 1, k)
  <2> HIDE DEF c
  <2> QED BY <1>3, <1>4, <1>5, SeqEqual DEF Blocks
<1> QED BY <1>2, <1>6

----------------------------------------------------------------------------
(* Records keep their types, field by field. *)

LEMMA TransferUpdates ==
  ASSUME NEW r \in Transfers
  PROVE  /\ \A v \in States : [r EXCEPT !.state = v] \in Transfers
         /\ \A v \in Nat : [r EXCEPT !.accepted = v] \in Transfers
         /\ \A v \in Nat : [r EXCEPT !.durable = v] \in Transfers
         /\ \A v \in Nat : [r EXCEPT !.from = v] \in Transfers
         /\ \A v \in Nat : [r EXCEPT !.sent = v] \in Transfers
         /\ \A v \in Blocks : [r EXCEPT !.pending = v] \in Transfers
         /\ \A v \in Blocks : [r EXCEPT !.prefix = v] \in Transfers
         /\ \A v \in Blocks : [r EXCEPT !.whole = v] \in Transfers
         /\ \A v \in BOOLEAN : [r EXCEPT !.close = v] \in Transfers
         /\ \A v \in BOOLEAN : [r EXCEPT !.ready = v] \in Transfers
         /\ \A v \in BOOLEAN : [r EXCEPT !.armed = v] \in Transfers
         /\ \A v \in BOOLEAN : [r EXCEPT !.pump = v] \in Transfers
         /\ \A v \in BOOLEAN : [r EXCEPT !.acked = v] \in Transfers
         /\ \A v \in BOOLEAN : [r EXCEPT !.rewind = v] \in Transfers
BY DEF Transfers

LEMMA HelperUpdates ==
  ASSUME NEW pcs, NEW r \in Helpers(pcs)
  PROVE  /\ \A v \in pcs : [r EXCEPT !.pc = v] \in Helpers(pcs)
         /\ \A v \in Nat : [r EXCEPT !.from = v] \in Helpers(pcs)
         /\ \A v \in Blocks : [r EXCEPT !.crc = v] \in Helpers(pcs)
         /\ \A v \in Blocks : [r EXCEPT !.acc = v] \in Helpers(pcs)
         /\ \A v \in Blocks : [r EXCEPT !.src = v] \in Helpers(pcs)
         /\ \A v \in Phases : [r EXCEPT !.phase = v] \in Helpers(pcs)
         /\ \A v \in BOOLEAN : [r EXCEPT !.owned = v] \in Helpers(pcs)
         /\ \A v \in BOOLEAN : [r EXCEPT !.resume = v] \in Helpers(pcs)
         /\ \A v \in BOOLEAN : [r EXCEPT !.replay = v] \in Helpers(pcs)
BY DEF Helpers

LEMMA HostUpdates ==
  ASSUME NEW pcs, NEW r \in Hosts(pcs)
  PROVE  /\ \A v \in pcs : [r EXCEPT !.pc = v] \in Hosts(pcs)
         /\ \A v \in Ids : [r EXCEPT !.id = v] \in Hosts(pcs)
         /\ \A v \in States : [r EXCEPT !.st = v] \in Hosts(pcs)
         /\ \A v \in Nat : [r EXCEPT !.dur = v] \in Hosts(pcs)
         /\ \A v \in Nat : [r EXCEPT !.acc = v] \in Hosts(pcs)
         /\ \A v \in BOOLEAN : [r EXCEPT !.resumed = v] \in Hosts(pcs)
         /\ \A v \in BOOLEAN : [r EXCEPT !.attach = v] \in Hosts(pcs)
         /\ \A v \in BOOLEAN : [r EXCEPT !.same = v] \in Hosts(pcs)
         /\ \A v \in BOOLEAN : [r EXCEPT !.intent = v] \in Hosts(pcs)
         /\ \A v \in BOOLEAN : [r EXCEPT !.sent = v] \in Hosts(pcs)
         /\ \A v \in Blocks : [r EXCEPT !.whole = v] \in Hosts(pcs)
         /\ \A v \in Blocks : [r EXCEPT !.prefix = v] \in Hosts(pcs)
BY DEF Hosts

LEMMA Idles ==
  /\ IdleTransfer \in Transfers
  /\ \A pcs : "prompt" \in pcs => AtPrompt \in Helpers(pcs)
  /\ \A pcs : "idle" \in pcs => NoTransfer \in Hosts(pcs)
<1>1. "IDLE" \in States /\ <<>> \in Blocks /\ "RECEIVING" \in Phases
  BY DEF States, Terminal, Blocks, Phases, Rank
<1>2. IdleTransfer \in Transfers
  BY <1>1 DEF IdleTransfer, Transfers
<1>3. \A pcs : "prompt" \in pcs => AtPrompt \in Helpers(pcs)
  BY <1>1 DEF AtPrompt, Helpers
<1>4. \A pcs : "idle" \in pcs => NoTransfer \in Hosts(pcs)
  BY <1>1 DEF NoTransfer, Hosts
<1> QED BY <1>2, <1>3, <1>4

LEMMA StateNames ==
  /\ {"IDLE", "STAGED", "OPENING", "READY", "TRANSFERRING", "VERIFYING",
      "POSTPROCESS", "COMPLETE", "FAILED", "CANCELLED"} \subseteq States
  /\ <<>> \in Blocks
BY DEF States, Moving, Terminal, Blocks

----------------------------------------------------------------------------
(* PUT: what never shrinks. *)

\* What the talk of the host and the agent relies on, and no step takes back:
\* that the transfer has been begun and its prefix is the file's, what no loss
\* of power can take, and what is prepared and published.
Grows ==
  /\ Past => Past'
  /\ Past /\ Sound => Sound'
  /\ \A i \in Ids : Kept[i] \subseteq Kept'[i]
  /\ Prepared \subseteq Prepared'
  /\ OwnOuts \subseteq OwnOuts'
  /\ HasName => HasName'

\* The helper moves on, with nothing else of it changed.
LEMMA MovesOn ==
  ASSUME hlp \in Helpers(PutHelperPcs), NEW p \in PutHelperPcs, Goto(p)
  PROVE  /\ hlp' \in Helpers(PutHelperPcs)
         /\ hlp'.pc = p
         /\ hlp'.id = hlp.id /\ hlp'.resume = hlp.resume
         /\ hlp'.replay = hlp.replay /\ hlp'.from = hlp.from
         /\ hlp'.crc = hlp.crc /\ hlp'.acc = hlp.acc
         /\ hlp'.phase = hlp.phase /\ hlp'.owned = hlp.owned
<1>1. hlp' \in Helpers(PutHelperPcs)
  BY HelperUpdates DEF Goto
<1> QED BY <1>1 DEF Goto, Helpers

\* Any failure of a helper that is at work keeps the invariant.
LEMMA FailsKeeps ==
  ASSUME PutMachine, Fails, UNCHANGED <<x, disk, linked, typed, file>>,
         hlp.pc \notin {"prompt", "claim", "pumping"}
  PROVE  PutMachine' /\ Grows
<1> USE DEF PutMachine
<1>1. /\ hlp' \in Helpers(PutHelperPcs)
      /\ hlp'.pc = "fail" /\ hlp'.id = hlp.id
      /\ hlp'.crc = hlp.crc /\ hlp'.acc = hlp.acc
      /\ hlp'.phase = hlp.phase /\ hlp'.owned = hlp.owned
  <2>1. "fail" \in PutHelperPcs
    BY DEF PutHelperPcs
  <2> QED BY <2>1, MovesOn DEF Fails, PutMachineTypes
<1>2. PutMachineTypes'
  BY <1>1 DEF PutMachineTypes, WireTypes
<1>3. Owned'
  BY <1>1 DEF Owned
<1>4. PutLive'
  BY <1>1 DEF PutLive, Publishing, Whole, Size, Receiving
<1>5. PutHeld'
  BY <1>1 DEF PutHeld, Receiving
<1>6. DiskSafe'
  BY <1>1 DEF DiskSafe, HasName, Whole, Size, Foreigns, Public, Twin
<1>7. ScratchKnown'
  BY <1>1 DEF ScratchKnown, OwnOuts, Foreigns, Whole, Size, Public, Out
<1>8. HelperStep'
  BY <1>1 DEF HelperStep, WireOpen, Receiving, Flushing
<1>9. Grows
  BY <1>1 DEF Grows, Past, Sound, Kept, Prepared, OwnOuts, HasName, Public, Whole, Size, Foreigns
<1>10. PutResidentFits'
  <2>1. x.state # "IDLE" => x.id \in Ids
    BY DEF Owned
  <2> QED BY <1>9, <2>1 DEF Grows, PutResidentFits, Sound, Prefix
<1> QED BY <1>2, <1>3, <1>4, <1>5, <1>6, <1>7, <1>8, <1>9, <1>10

\* A step of the helper alone, on which resident and disk stand still.
LEMMA QuietMove ==
  ASSUME PutMachine, UNCHANGED <<x, disk, linked, typed, file>>,
         hlp' \in Helpers(PutHelperPcs), hlp'.id = hlp.id,
         hlp.pc \notin {"prompt", "claim", "mkpart", "pumping", "ensure", "fail"},
         hlp'.pc \notin {"prompt", "claim", "mkpart"}
  PROVE  /\ PutMachineTypes' /\ Owned' /\ DiskSafe' /\ PutResidentFits'
         /\ Grows /\ Prepared' = Prepared
<1> USE DEF PutMachine
<1>1. PutMachineTypes'
  BY DEF PutMachineTypes, WireTypes
<1>2. Owned'
  BY DEF Owned
<1>3. DiskSafe'
  BY DEF DiskSafe, HasName, Whole, Size, Foreigns, Public, Twin
<1>4. Grows
  BY DEF Grows, Past, Sound, Kept, Prepared, OwnOuts, HasName, Public, Whole, Size, Foreigns
<1>5. PutResidentFits'
  <2>1. x.state # "IDLE" => x.id \in Ids
    BY DEF Owned
  <2> QED BY <1>4, <2>1 DEF Grows, PutResidentFits, Sound, Prefix
<1>6. Prepared' = Prepared
  BY DEF Prepared, HasName, OwnOuts, Whole, Size, Foreigns
<1> QED BY <1>1, <1>2, <1>3, <1>4, <1>5, <1>6

\* In most of them the helper only moves on.
LEMMA QuietGoto ==
  ASSUME PutMachine, UNCHANGED <<x, disk, linked, typed, file>>,
         NEW p \in PutHelperPcs, Goto(p),
         hlp.pc \notin {"prompt", "claim", "mkpart", "pumping", "ensure", "fail", "decoding"},
         p \notin {"prompt", "claim", "mkpart"},
         PutLive', PutHeld', HelperStep'
  PROVE  PutMachine' /\ Grows
<1> USE DEF PutMachine
<1>1. /\ hlp' \in Helpers(PutHelperPcs)
      /\ hlp'.pc = p /\ hlp'.id = hlp.id
      /\ hlp'.phase = hlp.phase /\ hlp'.owned = hlp.owned
  BY MovesOn DEF PutMachineTypes
<1>2. /\ PutMachineTypes' /\ Owned' /\ DiskSafe' /\ PutResidentFits' /\ Grows
  BY <1>1, QuietMove
<1>3. ScratchKnown'
  BY <1>1 DEF ScratchKnown, OwnOuts, Foreigns, Whole, Size, Public, Out
<1> QED BY <1>2, <1>3

LEMMA PrepareKeeps ==
  ASSUME PutMachine, Prepare
  PROVE  PutMachine' /\ Grows
<1> USE DEF PutMachine
<1>0. /\ UNCHANGED <<x, disk, linked, typed, file>>
      /\ hlp \in Helpers(PutHelperPcs) /\ disk \in Disks /\ x \in Transfers
      /\ hlp.pc = "prepare" /\ hlp.id \in Ids
      /\ hlp.crc = <<>> /\ hlp.acc = <<>> /\ hlp.phase = "RECEIVING"
  BY DEF Prepare, KeepsDisk, wireVars, PutMachineTypes, WireTypes, Owned, HelperStep
<1>1. CASE Fails
  BY <1>0, <1>1, FailsKeeps
<1>2. CASE MayCreate /\ Goto("mkmeta")
  <2>1. /\ hlp'.pc = "mkmeta" /\ hlp'.id = hlp.id /\ hlp'.phase = hlp.phase
        /\ hlp'.crc = hlp.crc /\ hlp'.acc = hlp.acc /\ "mkmeta" \in PutHelperPcs
    BY <1>0, <1>2, MovesOn DEF PutHelperPcs
  <2>2. PutLive'
    BY <1>0, <2>1 DEF PutLive, Publishing, Receiving, Whole, Size
  <2>3. PutHeld'
    BY <2>1 DEF PutHeld, Receiving
  <2>4. HelperStep'
    BY <1>0, <1>2, <2>1 DEF HelperStep, MayCreate, Meta, WireOpen, Receiving, Flushing
  <2> QED BY <1>0, <1>2, <2>1, <2>2, <2>3, <2>4, QuietGoto
<1>3. ASSUME NEW c \in Blocks, NEW f \in Phases,
             hlp' = [hlp EXCEPT !.pc = "ready", !.crc = c, !.phase = f],
             Len(c) <= Size, f = Meta \/ (f = "PUBLISHED" /\ HasName),
             f \notin Public => Part # None /\ Part.data = c,
             f \in Public => c = Whole,
             f # "RECEIVING" => hlp.id \in OwnOuts,
             f = "DECODING" => file.packed
      PROVE  PutMachine' /\ Grows
  <2>1. hlp' \in Helpers(PutHelperPcs)
    <3>1. "ready" \in PutHelperPcs
      BY DEF PutHelperPcs
    <3> QED BY <1>0, <1>3, <3>1, HelperUpdates
  <2>2. /\ hlp'.pc = "ready" /\ hlp'.id = hlp.id /\ hlp'.phase = f
        /\ hlp'.crc = c /\ hlp'.acc = <<>> /\ hlp'.owned = hlp.owned
    BY <1>0, <1>3 DEF Helpers
  <2>3. /\ PutMachineTypes' /\ Owned' /\ DiskSafe' /\ PutResidentFits'
        /\ Grows /\ Prepared' = Prepared
    BY <1>0, <2>1, <2>2, QuietMove
  <2>4. PutLive'
    BY <1>0, <2>2 DEF PutLive, Publishing, Receiving, Whole, Size
  <2>5. PutHeld'
    BY <2>2 DEF PutHeld, Receiving
  <2>6. ScratchKnown'
    BY <1>0, <1>3, <2>2 DEF ScratchKnown, OwnOuts, Foreigns, Whole, Size, Public, Out
  <2>7. HelperStep'
    BY <1>0, <1>3, <2>2 DEF HelperStep, WireOpen, MetaFits, Receiving, Flushing, Meta, Part,
      HasName, Whole, Size, Public
  <2> QED BY <2>3, <2>4, <2>5, <2>6, <2>7
<1>4. Size \in Nat /\ Whole \in Blocks /\ Len(Whole) = Size
  <2>1. Size \in Nat
    BY WireAssumption DEF PutMachineTypes, WireTypes, Size
  <2> QED BY <2>1, PrefixFacts DEF Whole
<1>5. CASE /\ MayReread
           /\ hlp' = [hlp EXCEPT !.pc = "ready", !.crc = Part.data, !.phase = Meta]
  <2>1. Part.data \in Blocks /\ Len(Part.data) <= Size
    BY <1>0, <1>5 DEF MayReread, Part, Disks, Files
  <2>2. Meta \in Phases /\ Meta \notin Public
    BY <1>0, <1>5 DEF MayReread, Phases, Rank, Public
  <2>3. Meta # "RECEIVING" => hlp.id \in OwnOuts
    BY <1>0, <1>5 DEF MayReread, ScratchKnown, Public, Meta
  <2>4. /\ Part.data \in Blocks /\ Meta \in Phases /\ Len(Part.data) <= Size
        /\ hlp' = [hlp EXCEPT !.pc = "ready", !.crc = Part.data, !.phase = Meta]
        /\ Meta = Meta \/ (Meta = "PUBLISHED" /\ HasName)
        /\ Meta \notin Public => Part # None /\ Part.data = Part.data
        /\ Meta \in Public => Part.data = Whole
        /\ Meta # "RECEIVING" => hlp.id \in OwnOuts
        /\ Meta = "DECODING" => file.packed
    BY <1>5, <2>1, <2>2, <2>3 DEF MayReread
  <2> HIDE DEF PutMachine
  <2> QED BY <1>3, <2>4, Zenon
<1>6. CASE /\ MaySkipWire
           /\ hlp' = [hlp EXCEPT !.pc = "ready", !.crc = Whole, !.phase = Meta]
  <2>2. Meta \in Phases /\ Meta \in Public
    BY <1>0, <1>6 DEF MaySkipWire, Phases, Rank, Public
  <2>3. Meta # "RECEIVING" => hlp.id \in OwnOuts
    BY <1>0, <2>2 DEF ScratchKnown, Public, Meta
  <2>4. /\ Len(Whole) <= Size
        /\ Meta = Meta \/ (Meta = "PUBLISHED" /\ HasName)
        /\ Meta \notin Public => Part # None /\ Part.data = Whole
        /\ Meta = "DECODING" => file.packed
    BY <1>4, <2>2 DEF Public
  <2> HIDE DEF PutMachine
  <2> QED BY <1>3, <1>4, <1>6, <2>2, <2>3, <2>4, Zenon
<1>7. CASE /\ MayReplay
           /\ hlp' = [hlp EXCEPT !.pc = "ready", !.crc = Whole, !.phase = "PUBLISHED"]
  <2>1. hlp.id \in Prepared /\ Meta = None
    BY <1>0, <1>7 DEF MayReplay, HelperStep
  <2>2. HasName /\ hlp.id \in OwnOuts
    BY <1>0, <2>1 DEF Prepared, Meta
  <2>3. "PUBLISHED" \in Phases /\ "PUBLISHED" \in Public
    BY DEF Phases, Rank, Public
  <2>4. /\ Len(Whole) <= Size
        /\ "PUBLISHED" = Meta \/ ("PUBLISHED" = "PUBLISHED" /\ HasName)
        /\ "PUBLISHED" \notin Public => Part # None /\ Part.data = Whole
        /\ "PUBLISHED" = "DECODING" => file.packed
    BY <1>4, <2>2, <2>3
  <2> HIDE DEF PutMachine
  <2> QED BY <1>3, <1>4, <1>7, <2>2, <2>3, <2>4, Zenon
<1> QED BY <1>1, <1>2, <1>5, <1>6, <1>7 DEF Prepare

\* Appending in two parts, or at once.
LEMMA AppendedTwice ==
  ASSUME NEW a \in Blocks, NEW b \in Blocks, NEW c \in Blocks
  PROVE  (a \o b) \o c = a \o (b \o c)
BY ConcatAssociative DEF Blocks

LEMMA Appended ==
  ASSUME NEW a \in Blocks, NEW b \in Blocks
  PROVE  /\ a \o b \in Blocks /\ Len(a \o b) = Len(a) + Len(b)
         /\ a \o <<>> = a /\ <<>> \o a = a
         /\ Len(a) \in Nat
<1>1. a \o b \in Blocks /\ Len(a \o b) = Len(a) + Len(b) /\ Len(a) \in Nat
  BY ConcatProperties DEF Blocks
<1>2. a \o <<>> = a /\ <<>> \o a = a
  BY ConcatEmptySeq DEF Blocks
<1> QED BY <1>1, <1>2

LEMMA PollKeeps ==
  ASSUME PutMachine, Poll
  PROVE  PutMachine' /\ Grows
<1> USE DEF PutMachine
<1> DEFINE acc == hlp.acc \o x.pending
<1>0. /\ UNCHANGED <<x, disk, linked, typed, file>>
      /\ hlp \in Helpers(PutHelperPcs) /\ x \in Transfers
      /\ hlp.pc = "poll" /\ hlp.id \in Ids
      /\ hlp.crc \in Blocks /\ hlp.acc \in Blocks /\ x.pending \in Blocks
      /\ Size \in Nat /\ Whole \in Blocks /\ Len(Whole) = Size
  <2>1. Size \in Nat
    BY WireAssumption DEF PutMachineTypes, WireTypes, Size
  <2>2. Whole \in Blocks /\ Len(Whole) = Size
    BY <2>1, PrefixFacts DEF Whole
  <2> QED BY <2>1, <2>2 DEF Poll, KeepsDisk, wireVars, PutMachineTypes, WireTypes, Owned,
      Transfers, Helpers
<1>1. CASE Fails
  BY <1>0, <1>1, FailsKeeps
<1>2. ASSUME NEW p \in {"final", "pump"}, Goto(p),
             p = "final" => x.close /\ x.state \notin {"FAILED", "CANCELLED"},
             p = "pump" => x.pending = <<>>
      PROVE  PutMachine' /\ Grows
  <2>1. /\ hlp'.pc = p /\ hlp'.id = hlp.id /\ hlp'.phase = hlp.phase
        /\ hlp'.crc = hlp.crc /\ hlp'.acc = hlp.acc /\ p \in PutHelperPcs
    BY <1>0, <1>2, MovesOn DEF PutHelperPcs, Receiving
  <2>2. PutLive'
    BY <1>0, <1>2, <2>1 DEF PutLive, Publishing, Receiving, Owned, Whole, Size, Moving
  <2>3. PutHeld'
    BY <1>0, <1>2, <2>1, <2>2 DEF PutHeld, Receiving, Flushing, Held, Sound, PutLive, Owned
  <2>4. HelperStep'
    BY <1>0, <1>2, <2>1 DEF HelperStep, Meta, Part, WireOpen, Receiving, Flushing, MetaFits,
      HasName, Public, Whole, Size
  <2> QED BY <1>0, <1>2, <2>1, <2>2, <2>3, <2>4, QuietGoto
<1>3. CASE /\ x.pending # <<>> /\ ~x.close
           /\ hlp' = [hlp EXCEPT !.acc = acc,
                        !.pc = IF IsFull(acc) THEN "write" ELSE "release"]
  <2> DEFINE p == IF IsFull(acc) THEN "write" ELSE "release"
  <2>0. acc \in Blocks /\ p \in {"write", "release"} /\ p \in PutHelperPcs
        /\ hlp' = [hlp EXCEPT !.acc = acc, !.pc = p]
    BY <1>0, <1>3, Appended DEF PutHelperPcs, Receiving
  <2> HIDE DEF acc, p
  <2>1. hlp' \in Helpers(PutHelperPcs)
    BY <1>0, <2>0, HelperUpdates
  <2>2. /\ hlp'.pc = p /\ hlp'.id = hlp.id /\ hlp'.phase = hlp.phase
        /\ hlp'.crc = hlp.crc /\ hlp'.acc = acc /\ hlp'.owned = hlp.owned
    BY <1>0, <2>0 DEF Helpers
  <2>3. /\ PutMachineTypes' /\ Owned' /\ DiskSafe' /\ PutResidentFits'
        /\ Grows /\ Prepared' = Prepared
    BY <1>0, <2>0, <2>1, <2>2, QuietMove
  <2>4. x.state = "TRANSFERRING" /\ x.state \in Moving /\ Len(x.pending) = 1
        /\ x.accepted <= Size /\ x.accepted \in Nat
    BY <1>0, <1>3 DEF PutLive, Moving, Transfers
  <2>5. PutLive'
    BY <1>0, <1>3, <2>0, <2>2, <2>4 DEF PutLive, Publishing, Receiving, Flushing, Whole, Size, Moving
  <2>6. /\ (hlp.crc \o hlp.acc) \o x.pending = hlp.crc \o acc
        /\ Len(hlp.crc \o acc) = Len(hlp.crc) + Len(acc)
        /\ Len(acc) = Len(hlp.acc) + Len(x.pending)
        /\ Len(hlp.crc) \in Nat /\ Len(hlp.acc) \in Nat
    <3>1. hlp.acc \o x.pending \in Blocks
      BY <1>0, Appended
    <3>2. (hlp.crc \o hlp.acc) \o x.pending = hlp.crc \o (hlp.acc \o x.pending)
      BY <1>0, AppendedTwice
    <3>3. Len(hlp.acc \o x.pending) = Len(hlp.acc) + Len(x.pending)
      BY <1>0, Appended, Zenon
    <3>4. Len(hlp.crc \o (hlp.acc \o x.pending)) = Len(hlp.crc) + Len(hlp.acc \o x.pending)
      BY <1>0, <3>1, Appended, Zenon
    <3>5. Len(hlp.crc) \in Nat /\ Len(hlp.acc) \in Nat
      BY <1>0, Appended, Zenon
    <3> QED BY <3>2, <3>3, <3>4, <3>5 DEF acc
  <2>7. Held = hlp.crc \o acc /\ Held' = hlp.crc \o acc
    BY <1>0, <2>0, <2>2, <2>6 DEF Held
  <2>8. PutHeld'
    BY <1>0, <1>3, <2>0, <2>2, <2>7, <2>4 DEF PutHeld, Receiving, Flushing, Sound
  <2>9. hlp.phase \notin Public
    <3>1. Len(Held) = x.accepted
      BY <1>0, <2>4 DEF PutHeld, Receiving
    <3> QED BY <1>0, <2>4, <2>6, <2>7, <3>1 DEF HelperStep, WireOpen, Receiving
  <2>10. ScratchKnown'
    BY <1>0, <2>0, <2>2 DEF ScratchKnown, OwnOuts, Foreigns, Whole, Size, Public, Out
  <2>11. HelperStep'
    BY <1>0, <2>0, <2>2, <2>9 DEF HelperStep, Meta, Part, WireOpen, Receiving, Flushing, MetaFits,
      HasName, Public
  <2> QED BY <2>3, <2>5, <2>8, <2>10, <2>11
<1>4. \/ Fails
      \/ Goto("final") /\ x.close /\ x.state \notin {"FAILED", "CANCELLED"}
      \/ Goto("pump") /\ x.pending = <<>>
      \/ /\ x.pending # <<>> /\ ~x.close
         /\ hlp' = [hlp EXCEPT !.acc = acc,
                      !.pc = IF IsFull(acc) THEN "write" ELSE "release"]
  BY DEF Poll
<1>5. CASE Goto("final") /\ x.close /\ x.state \notin {"FAILED", "CANCELLED"}
  BY <1>2, <1>5
<1>6. CASE Goto("pump") /\ x.pending = <<>>
  BY <1>2, <1>6
<1> QED BY <1>1, <1>3, <1>4, <1>5, <1>6

LEMMA PublishingMovesKeep ==
  ASSUME PutMachine, RequireAbsent \/ Recover \/ Revalidate
  PROVE  PutMachine' /\ Grows
<1> USE DEF PutMachine
<1>0. /\ UNCHANGED <<x, disk, linked, typed, file>>
      /\ hlp \in Helpers(PutHelperPcs) /\ x \in Transfers /\ disk \in Disks
      /\ hlp.pc \in {"publish", "absent"} /\ hlp.id \in Ids
      /\ Size \in Nat /\ Len(Whole) = Size
  <2>1. Size \in Nat
    BY WireAssumption DEF PutMachineTypes, WireTypes, Size
  <2>2. Len(Whole) = Size
    BY <2>1, PrefixFacts DEF Whole
  <2> QED BY <2>1, <2>2 DEF RequireAbsent, Recover, Revalidate, KeepsDisk, wireVars,
      PutMachineTypes, WireTypes, Owned
<1>1. CASE Fails
  BY <1>0, <1>1, FailsKeeps
<1>2. ASSUME NEW p \in {"mark", "marked", "rename", "clean"}, Goto(p),
             HelperStep'
      PROVE  PutMachine' /\ Grows
  <2>1. /\ hlp'.pc = p /\ hlp'.id = hlp.id /\ hlp'.phase = hlp.phase /\ p \in PutHelperPcs
    BY <1>0, <1>2, MovesOn DEF PutHelperPcs, Publishing
  <2>2. PutLive'
    BY <1>0, <1>2, <2>1 DEF PutLive, Publishing, Receiving, Whole, Size
  <2>3. PutHeld'
    BY <1>0, <1>2, <2>1 DEF PutHeld, Receiving
  <2> QED BY <1>0, <1>2, <2>1, <2>2, <2>3, QuietGoto
<1>3. CASE RequireAbsent /\ Goto("mark") /\ disk.target = None
  <2>1. /\ hlp'.pc = "mark" /\ hlp'.id = hlp.id /\ hlp'.phase = hlp.phase
    BY <1>0, <1>3, MovesOn DEF PutHelperPcs, Publishing
  <2>2. SourceReady
    <3>1. CASE hlp.pc = "absent"
      BY <1>0, <1>3, <3>1 DEF SourceReady, RequireAbsent, HelperStep, PublishSource
    <3>2. CASE hlp.pc = "publish" /\ ~file.packed /\ hlp.phase = "RECEIVING"
      <4>1. Part # None /\ Part.data = Whole
        BY <3>2 DEF HelperStep, WireOpen, Public
      <4>2. Part.mine /\ Part.safe = Len(Part.data)
        BY <1>0, <3>2, <4>1 DEF DiskSafe, Part
      <4> QED BY <1>0, <1>3, <3>2, <4>1, <4>2 DEF SourceReady, PublishSource
    <3> QED BY <1>3, <3>1, <3>2 DEF RequireAbsent
  <2>3. HelperStep'
    BY <1>0, <1>3, <2>1, <2>2 DEF HelperStep, RequireAbsent, Meta, WireOpen, Receiving, Flushing, MetaFits,
      SourceReady, PublishSource, Part, Out, HasName, Whole, Size
  <2> QED BY <1>2, <1>3, <2>3
<1>4. CASE Recover /\ Goto("marked") /\ Complete(disk.target)
  <2>1. /\ hlp'.pc = "marked" /\ hlp'.id = hlp.id /\ hlp'.phase = hlp.phase
    BY <1>0, <1>4, MovesOn DEF PutHelperPcs, Publishing
  <2>2. HasName /\ hlp.phase = "PUBLISHING" /\ Meta = "PUBLISHING"
    BY <1>0, <1>4 DEF HasName, Complete, DiskSafe, Recover, HelperStep, WireOpen, MetaFits, Twin, Foreigns,
      Meta, Public
  <2>3. HelperStep'
    BY <1>0, <1>4, <2>1, <2>2 DEF HelperStep, Meta, WireOpen, Receiving, Flushing, HasName, Whole, Size
  <2> QED BY <1>2, <1>4, <2>3
<1>5. CASE Recover /\ Goto("rename") /\ disk.target = None /\ Complete(PublishSource)
  <2>1. /\ hlp'.pc = "rename" /\ hlp'.id = hlp.id /\ hlp'.phase = hlp.phase
    BY <1>0, <1>5, MovesOn DEF PutHelperPcs, Publishing
  <2>2. hlp.phase = "PUBLISHING" /\ Meta = "PUBLISHING"
    BY <1>0, <1>5 DEF HasName, Recover, HelperStep, WireOpen, MetaFits, Meta
  <2>3. SourceReady
    <3>1. CASE file.packed
      <4>1. Out # None /\ Out.data = Whole /\ Out.safe = Len(Out.data)
        BY <1>0, <1>5, <3>1 DEF PublishSource, Complete, DiskSafe, Out
      <4>2. Out \notin Foreigns
        BY <1>0, <2>2, <3>1 DEF ScratchKnown, OwnOuts, Meta, Public, Out
      <4>3. Out.mine
        BY <1>0, <4>1, <4>2 DEF DiskSafe, Out, Disks, Files
      <4> QED BY <1>0, <1>5, <3>1, <4>1, <4>3 DEF SourceReady, PublishSource
    <3>2. CASE ~file.packed
      <4>1. Part # None /\ Part.data = Whole
        BY <1>5, <3>2 DEF PublishSource, Complete
      <4>2. Part.mine /\ Part.safe = Len(Part.data)
        BY <1>0, <4>1 DEF DiskSafe, Part
      <4> QED BY <1>0, <1>5, <3>2, <4>1, <4>2 DEF SourceReady, PublishSource
    <3> QED BY <3>1, <3>2
  <2>4. HelperStep'
    BY <1>0, <1>5, <2>1, <2>2, <2>3 DEF HelperStep, Meta, WireOpen, Receiving, Flushing,
      SourceReady, PublishSource, Part, Out, Whole, Size
  <2> QED BY <1>2, <1>5, <2>4
<1>6. CASE Revalidate /\ Goto("clean") /\ Complete(disk.target)
  <2>1. /\ hlp'.pc = "clean" /\ hlp'.id = hlp.id /\ hlp'.phase = hlp.phase
    BY <1>0, <1>6, MovesOn DEF PutHelperPcs, Publishing
  <2>2. HasName /\ hlp.phase = "PUBLISHED"
    BY <1>0, <1>6 DEF HasName, Complete, DiskSafe, Revalidate, HelperStep, WireOpen, MetaFits, Twin, Foreigns,
      Meta, Public
  <2>3. HelperStep'
    BY <1>0, <1>6, <2>1, <2>2 DEF HelperStep, Meta, WireOpen, Receiving, Flushing, HasName, Whole, Size
  <2> QED BY <1>2, <1>6, <2>3
<1> QED BY <1>1, <1>3, <1>4, <1>5, <1>6 DEF RequireAbsent, Recover, Revalidate

----------------------------------------------------------------------------
(* PUT: the steps in which helper or agent change flags of the resident. *)

\* What of the resident's transfer the invariant of a PUT tells apart.
SameTransfer ==
  /\ x' \in Transfers
  /\ x'.state = x.state /\ x'.id = x.id /\ x'.replay = x.replay
  /\ x'.from = x.from /\ x'.accepted = x.accepted /\ x'.durable = x.durable
  /\ x'.prefix = x.prefix /\ x'.pending = x.pending /\ x'.close = x.close
  /\ x'.whole = x.whole
  /\ x.state = "IDLE" => x' = x

LEMMA Unset ==
  ASSUME NEW r \in Transfers
  PROVE  /\ ~r.pump => [r EXCEPT !.pump = FALSE] = r
         /\ ~r.armed => [r EXCEPT !.armed = FALSE] = r
         /\ [r EXCEPT !.armed = FALSE, !.pump = FALSE] =
              [[r EXCEPT !.armed = FALSE] EXCEPT !.pump = FALSE]
<1>1. ASSUME ~r.pump PROVE [r EXCEPT !.pump = FALSE] = r
  <2>1. r.pump = FALSE
    BY <1>1 DEF Transfers
  <2> QED BY <2>1 DEF Transfers
<1>2. ASSUME ~r.armed PROVE [r EXCEPT !.armed = FALSE] = r
  <2>1. r.armed = FALSE
    BY <1>2 DEF Transfers
  <2> QED BY <2>1 DEF Transfers
<1>3. [r EXCEPT !.armed = FALSE, !.pump = FALSE] =
        [[r EXCEPT !.armed = FALSE] EXCEPT !.pump = FALSE]
  OBVIOUS
<1> QED BY <1>1, <1>2, <1>3

\* The pump flag and, once begun, the fast-v1 flag.
LEMMA FlagsKeep ==
  ASSUME PutMachine, NEW b \in BOOLEAN
  PROVE  /\ x' = [x EXCEPT !.pump = FALSE] => SameTransfer /\ ~x'.pump
         /\ x.state # "IDLE" /\ x' = [x EXCEPT !.pump = b] => SameTransfer
         /\ x.state # "IDLE" /\ x' = [[x EXCEPT !.armed = TRUE] EXCEPT !.pump = FALSE] =>
              SameTransfer /\ ~x'.pump
         /\ x' = [x EXCEPT !.armed = FALSE, !.pump = FALSE] => SameTransfer /\ ~x'.pump
<1>0. x \in Transfers
  BY DEF PutMachine, PutMachineTypes, WireTypes
<1>1. x.state = "IDLE" => ~x.pump /\ ~x.armed
  BY DEF PutMachine, Owned, IdleTransfer
<1>2. ASSUME x' = [x EXCEPT !.pump = FALSE] PROVE SameTransfer /\ ~x'.pump
  <2>1. x.state = "IDLE" => x' = x
    BY <1>0, <1>1, <1>2, Unset
  <2>2. x' \in Transfers
    BY <1>0, <1>2, TransferUpdates
  <2> QED BY <1>0, <1>2, <2>1, <2>2 DEF SameTransfer, Transfers
<1>3. x.state # "IDLE" /\ x' = [x EXCEPT !.pump = b] => SameTransfer
  BY <1>0, TransferUpdates DEF SameTransfer, Transfers
<1>4. ASSUME x.state # "IDLE", x' = [[x EXCEPT !.armed = TRUE] EXCEPT !.pump = FALSE]
      PROVE  SameTransfer /\ ~x'.pump
  <2>1. [x EXCEPT !.armed = TRUE] \in Transfers
    BY <1>0, TransferUpdates
  <2>2. x' \in Transfers
    BY <1>4, <2>1, TransferUpdates
  <2> QED BY <1>0, <1>4, <2>2 DEF SameTransfer, Transfers
<1>5. ASSUME x' = [x EXCEPT !.armed = FALSE, !.pump = FALSE]
      PROVE  SameTransfer /\ ~x'.pump
  <2>1. [x EXCEPT !.armed = FALSE] \in Transfers
    BY <1>0, TransferUpdates
  <2>2. x' = [[x EXCEPT !.armed = FALSE] EXCEPT !.pump = FALSE]
    BY <1>0, <1>5, Unset
  <2>3. x' \in Transfers
    BY <2>1, <2>2, TransferUpdates
  <2>4. x.state = "IDLE" => x' = x
    BY <1>0, <1>1, <2>2, Unset
  <2> QED BY <1>0, <1>5, <2>3, <2>4 DEF SameTransfer, Transfers
<1> QED BY <1>2, <1>3, <1>4, <1>5

LEMMA SameKeeps ==
  ASSUME PutMachine, SameTransfer, UNCHANGED <<disk, file>>,
         linked' \in BOOLEAN, typed' \in Ids \cup {None},
         x'.pump => hlp'.pc = "pumping",
         \/ UNCHANGED hlp
         \/ hlp.pc = "pump" /\ (Goto("pumping") \/ Goto("poll"))
         \/ hlp.pc = "pumping" /\ Goto("poll")
  PROVE  PutMachine' /\ Grows
<1> USE DEF PutMachine
<1>0. /\ hlp \in Helpers(PutHelperPcs) /\ hlp' \in Helpers(PutHelperPcs)
      /\ hlp'.id = hlp.id /\ hlp'.phase = hlp.phase /\ hlp'.replay = hlp.replay
      /\ hlp'.crc = hlp.crc /\ hlp'.acc = hlp.acc /\ hlp'.owned = hlp.owned
      /\ \/ UNCHANGED hlp
         \/ hlp.pc \in {"pump", "pumping"} /\ hlp'.pc \in {"pumping", "poll"}
  <2>1. {"pumping", "poll"} \subseteq PutHelperPcs
    BY DEF PutHelperPcs, Receiving
  <2>2. hlp \in Helpers(PutHelperPcs)
    BY DEF PutMachineTypes
  <2> QED BY <2>1, <2>2, MovesOn
<1>1. PutMachineTypes'
  BY <1>0 DEF PutMachineTypes, WireTypes, SameTransfer
<1>2. Owned'
  BY <1>0 DEF Owned, SameTransfer, IdleTransfer
<1>3. PutLive'
  BY <1>0 DEF PutLive, Publishing, Receiving, Whole, Size, Moving, SameTransfer
<1>4. PutHeld'
  BY <1>0 DEF PutHeld, Receiving, Flushing, Held, Sound, SameTransfer
<1>5. DiskSafe'
  BY <1>0 DEF DiskSafe, HasName, Whole, Size, Foreigns, Public, Twin
<1>6. Grows /\ Prepared' = Prepared
  <2>1. Grows
    BY <1>0 DEF Grows, Past, Sound, Kept, Prepared, OwnOuts, HasName, Public, Whole, Size, Foreigns, SameTransfer
  <2>2. Prepared' = Prepared
    BY <1>0 DEF Prepared, HasName, OwnOuts, Whole, Size, Foreigns
  <2> QED BY <2>1, <2>2
<1>7. ScratchKnown'
  BY <1>0 DEF ScratchKnown, OwnOuts, Foreigns, Whole, Size, Public, Out
<1>8. HelperStep'
  BY <1>0, <1>6 DEF HelperStep, Meta, Part, Out, WireOpen, Receiving, Flushing, MetaFits,
    HasName, Public, SourceReady, PublishSource, Whole, Size
<1>9. PutResidentFits'
  <2>1. x.state # "IDLE" => x.id \in Ids
    BY DEF Owned
  <2> QED BY <1>6, <2>1 DEF Grows, PutResidentFits, Sound, Prefix, SameTransfer, IdleTransfer
<1> QED BY <1>1, <1>2, <1>3, <1>4, <1>5, <1>6, <1>7, <1>8, <1>9

LEMMA PumpKeeps ==
  ASSUME PutMachine, EnterPump \/ LeavePump
  PROVE  PutMachine' /\ Grows
<1>0. /\ UNCHANGED <<disk, file>>
      /\ linked' \in BOOLEAN /\ typed' \in Ids \cup {None}
      /\ hlp \in Helpers(PutHelperPcs) /\ x.state # "IDLE"
  BY DEF EnterPump, LeavePump, CallsTsr, KeepsDisk, wireVars, PutMachine, PutMachineTypes, WireTypes, Owned
<1>1. CASE EnterPump /\ CallsTsr([x EXCEPT !.pump = TRUE]) /\ Goto("pumping")
  <2>1. SameTransfer
    BY <1>0, <1>1, FlagsKeep DEF CallsTsr
  <2>2. hlp'.pc = "pumping"
    BY <1>0, <1>1 DEF Goto, Helpers
  <2> QED BY <1>0, <1>1, <2>1, <2>2, SameKeeps DEF EnterPump
<1>2. CASE EnterPump /\ Goto("poll") /\ KeepsDisk
  <2>1. SameTransfer /\ ~x'.pump
    BY <1>0, <1>2 DEF EnterPump, KeepsDisk, SameTransfer, PutMachine, Owned, PutMachineTypes, WireTypes
  <2> QED BY <1>0, <1>2, <2>1, SameKeeps DEF EnterPump
<1>3. CASE LeavePump
  <2>1. SameTransfer /\ ~x'.pump
    BY <1>0, <1>3, FlagsKeep DEF CallsTsr, LeavePump
  <2> QED BY <1>0, <1>3, <2>1, SameKeeps DEF LeavePump
<1> QED BY <1>1, <1>2, <1>3 DEF EnterPump

\* What the sizes are, and that the file stands still.
LEMMA SizeFacts ==
  ASSUME PutMachineTypes
  PROVE  /\ Size \in Nat /\ Whole \in Blocks /\ Len(Whole) = Size
         /\ file' = file => Size' = Size /\ Whole' = Whole /\ Foreigns' = Foreigns
<1>1. Size \in Nat
  BY WireAssumption DEF PutMachineTypes, WireTypes, Size
<1>2. Whole \in Blocks /\ Len(Whole) = Size
  BY <1>1, PrefixFacts DEF Whole
<1>3. file' = file => Size' = Size /\ Whole' = Whole /\ Foreigns' = Foreigns
  BY DEF Size, Whole, Foreigns
<1> QED BY <1>1, <1>2, <1>3

\* On a disk that stands still, nothing that is kept is lost.
LEMMA DiskStands ==
  ASSUME PutMachine, UNCHANGED <<disk, file>>,
         hlp.pc \in {"ensure", "fail"} => hlp'.pc \in {"ensure", "fail"} /\ hlp'.id = hlp.id,
         hlp'.pc # "mkpart",
         Past => Past', Past /\ Sound => Sound'
  PROVE  DiskSafe' /\ Grows
<1> USE DEF PutMachine
<1>1. DiskSafe'
  BY DEF DiskSafe, HasName, Whole, Size, Foreigns, Public, Twin
<1>2. Grows
  BY DEF Grows, Kept, Prepared, OwnOuts, HasName, Public, Whole, Size, Foreigns
<1> QED BY <1>1, <1>2

LEMMA StartKeeps ==
  ASSUME PutMachine, Start
  PROVE  PutMachine' /\ Grows
<1> USE DEF PutMachine
<1>0. /\ UNCHANGED <<x, disk, linked, file>> /\ typed' = None
      /\ hlp.pc = "prompt" /\ typed \in Ids
  BY DEF Start, PutMachineTypes, WireTypes
<1>1. hlp' \in Helpers(PutHelperPcs) /\ hlp'.pc = "claim" /\ hlp'.id = typed
      /\ hlp'.phase = "RECEIVING" /\ ~hlp'.owned /\ hlp'.crc = <<>> /\ hlp'.acc = <<>>
  <2>1. "claim" \in PutHelperPcs /\ "RECEIVING" \in Phases /\ <<>> \in Blocks
    BY StateNames DEF PutHelperPcs, Phases, Rank
  <2> QED BY <1>0, <2>1 DEF Start, AtPrompt, Helpers
<1>2. PutMachineTypes'
  BY <1>0, <1>1 DEF PutMachineTypes, WireTypes
<1>3. Owned'
  BY <1>0, <1>1 DEF Owned
<1>4. PutLive'
  BY <1>0, <1>1 DEF PutLive, Publishing, Receiving, Whole, Size, Moving
<1>5. PutHeld'
  BY <1>1 DEF PutHeld, Receiving
<1>6. DiskSafe' /\ Grows
  BY <1>0, <1>1, DiskStands DEF Past, Sound
<1>7. ScratchKnown'
  BY <1>0, <1>1 DEF ScratchKnown, OwnOuts, Foreigns, Whole, Size, Public, Out
<1>8. HelperStep'
  BY <1>1 DEF HelperStep, WireOpen, Receiving, Flushing
<1>9. PutResidentFits'
  <2>1. x.state # "IDLE" => x.id \in Ids
    BY DEF Owned
  <2> QED BY <1>0, <1>6, <2>1 DEF Grows, PutResidentFits, Sound, Prefix
<1> QED BY <1>2, <1>3, <1>4, <1>5, <1>6, <1>7, <1>8, <1>9

\* The helper returns to the prompt, and the resident keeps what it knows.
LEMMA ReturnKeeps ==
  ASSUME PutMachine, UNCHANGED <<linked, typed, file>>, hlp' = AtPrompt,
         x' \in Transfers, ~x'.pump,
         x'.state = "IDLE" => x' = IdleTransfer,
         x'.state \notin Moving \cup {"OPENING", "VERIFYING", "POSTPROCESS"},
         x'.state # "IDLE" => x'.id \in Ids /\ x'.whole = Whole,
         x'.close => x'.state \in {"COMPLETE", "FAILED"},
         x'.pending = <<>>,
         disk' \in Disks, DiskSafe', Grows, PutResidentFits',
         \A i \in Ids : disk'.meta[i] = disk.meta[i]
  PROVE  PutMachine'
<1> USE DEF PutMachine
<1>0. hlp' \in Helpers(PutHelperPcs) /\ hlp'.pc = "prompt" /\ hlp'.phase = "RECEIVING" /\ ~hlp'.owned
  BY Idles DEF AtPrompt, PutHelperPcs
<1>1. PutMachineTypes'
  BY <1>0 DEF PutMachineTypes, WireTypes
<1>2. Owned'
  BY <1>0 DEF Owned
<1>3. PutLive'
  BY <1>0, StateNames DEF PutLive, Publishing, Receiving, Whole, Size, Moving
<1>4. PutHeld'
  BY <1>0 DEF PutHeld, Receiving
<1>5. HelperStep'
  BY <1>0 DEF HelperStep, WireOpen, Receiving, Flushing
<1>6. ScratchKnown'
  BY <1>0 DEF ScratchKnown, Grows, Public
<1> QED BY <1>1, <1>2, <1>3, <1>4, <1>5, <1>6

LEMMA ForeignFacts ==
  ASSUME PutMachineTypes PROVE Foreigns \subseteq Files /\ None \notin Foreigns
<1>1. ASSUME NEW d \in {<<Size + 1>>, Whole}
      PROVE  [data |-> d, safe |-> Len(d), mine |-> FALSE] \in Files
  <2>1. d \in Blocks /\ Len(d) \in Nat
    <3>1. CASE d = Whole
      BY <3>1, SizeFacts
    <3>2. CASE d = <<Size + 1>>
      <4>1. Size + 1 \in Nat
        BY SizeFacts
      <4> QED BY <3>2, <4>1 DEF Blocks
    <3> QED BY <1>1, <3>1, <3>2
  <2> QED BY <2>1 DEF Files
<1>2. Foreigns \subseteq Files
  BY <1>1 DEF Foreigns
<1> QED BY <1>2, NoneAssumption

LEMMA ClaimKeeps ==
  ASSUME PutMachine, Claim
  PROVE  PutMachine' /\ Grows
<1> USE DEF PutMachine
<1>0. /\ UNCHANGED <<disk, linked, typed, file>> /\ ~file.get
      /\ hlp.pc = "claim" /\ hlp \in Helpers(PutHelperPcs) /\ x \in Transfers /\ disk \in Disks
      /\ ~x.pump
  BY DEF Claim, KeepsDisk, CallsTsr, wireVars, PutMachineTypes, WireTypes, Owned
<1>1. CASE ~ClaimOk(hlp.id)
  <2>1. hlp' = AtPrompt /\ UNCHANGED x
    BY <1>1 DEF Claim, KeepsDisk
  <2>2. DiskSafe' /\ Grows
    BY <1>0, <2>1, DiskStands DEF Past, Sound, AtPrompt
  <2>3. PutResidentFits'
    <3>1. x.state # "IDLE" => x.id \in Ids
      BY DEF Owned
    <3> QED BY <2>1, <2>2, <3>1 DEF Grows, PutResidentFits, Sound, Prefix
  <2>4. x.state \notin Moving \cup {"OPENING", "VERIFYING", "POSTPROCESS"}
    BY <1>0 DEF PutLive, Moving, Receiving, Publishing
  <2>5. /\ x.state = "IDLE" => x = IdleTransfer
        /\ x.state # "IDLE" => x.id \in Ids /\ x.whole = Whole
        /\ x.close => x.state \in {"COMPLETE", "FAILED"}
        /\ x.pending = <<>>
    BY <2>4 DEF Owned, PutLive, Moving
  <2> QED BY <1>0, <2>1, <2>2, <2>3, <2>4, <2>5, SizeFacts, ReturnKeeps
<1>2. CASE ClaimOk(hlp.id)
  <2>0. /\ x.state = "STAGED" /\ x.id = hlp.id /\ hlp.id \in Ids
        /\ x' = [x EXCEPT !.state = "OPENING", !.ready = FALSE]
        /\ hlp' = [hlp EXCEPT !.pc = "prepare", !.resume = x.resume, !.replay = x.replay,
                     !.from = x.from, !.crc = <<>>]
    BY <1>0, <1>2 DEF Claim, ClaimOk, CallsTsr, Claimed, Owned
  <2>1. /\ x' \in Transfers /\ x'.state = "OPENING" /\ x'.id = hlp.id /\ x'.prefix = x.prefix
        /\ x'.durable = x.durable /\ x'.accepted = x.accepted /\ x'.from = x.from
        /\ x'.pending = x.pending /\ x'.whole = x.whole /\ x'.replay = x.replay
        /\ x'.close = x.close /\ x'.pump = x.pump
    <3>1. x' \in Transfers
      BY <1>0, <2>0, TransferUpdates, StateNames
    <3> QED BY <1>0, <2>0, <3>1 DEF Transfers
  <2>2. /\ hlp' \in Helpers(PutHelperPcs) /\ hlp'.pc = "prepare" /\ hlp'.id = hlp.id
        /\ hlp'.replay = x.replay /\ hlp'.crc = <<>> /\ hlp'.acc = hlp.acc
        /\ hlp'.phase = hlp.phase /\ hlp'.owned = hlp.owned
    <3>1. "prepare" \in PutHelperPcs /\ x.resume \in BOOLEAN /\ x.replay \in BOOLEAN
          /\ x.from \in Nat /\ <<>> \in Blocks
      BY <1>0, StateNames DEF PutHelperPcs, Transfers
    <3> QED BY <1>0, <2>0, <3>1 DEF Helpers
  <2>3. PutMachineTypes'
    BY <1>0, <2>1, <2>2 DEF PutMachineTypes, WireTypes
  <2>4. Owned'
    BY <1>0, <2>0, <2>1, <2>2 DEF Owned
  <2>5. PutLive'
    BY <1>0, <2>0, <2>1, <2>2 DEF PutLive, Publishing, Receiving, Whole, Size, Moving
  <2>6. PutHeld'
    BY <2>2 DEF PutHeld, Receiving
  <2>7. DiskSafe' /\ Grows
    BY <1>0, <2>0, <2>1, <2>2, DiskStands DEF Past
  <2>8. ScratchKnown'
    BY <1>0, <2>2 DEF ScratchKnown, OwnOuts, Foreigns, Whole, Size, Public, Out
  <2>9. x.replay => x.id \in Prepared'
    BY <2>7 DEF PutResidentFits, Grows
  <2>10. HelperStep'
    BY <1>0, <2>0, <2>2, <2>9 DEF HelperStep, WireOpen, Receiving, Flushing
  <2>11. PutResidentFits'
    BY <2>0, <2>1, <2>7, <2>9 DEF PutResidentFits, Sound, Prefix, Grows, Readied0, Moving
  <2> QED BY <2>3, <2>4, <2>5, <2>6, <2>7, <2>8, <2>10, <2>11
<1> QED BY <1>1, <1>2

LEMMA ReadyKeeps ==
  ASSUME PutMachine, Ready
  PROVE  PutMachine' /\ Grows
<1> USE DEF PutMachine
<1>0. /\ UNCHANGED <<disk, linked, typed, file>>
      /\ hlp.pc = "ready" /\ hlp \in Helpers(PutHelperPcs) /\ x \in Transfers /\ disk \in Disks
      /\ hlp.crc \in Blocks /\ hlp.acc = <<>> /\ Len(hlp.crc) \in Nat /\ Len(hlp.crc) <= Size
      /\ hlp.id \in Ids
  <2>1. /\ hlp.pc = "ready" /\ hlp \in Helpers(PutHelperPcs)
        /\ hlp.acc = <<>> /\ Len(hlp.crc) <= Size /\ hlp.id \in Ids
    BY DEF Ready, PutMachineTypes, HelperStep, Owned
  <2>2. hlp.crc \in Blocks
    BY <2>1 DEF Helpers
  <2> QED BY <2>1, <2>2, Appended DEF Ready, KeepsDisk, CallsTsr, wireVars, PutMachineTypes, WireTypes
<1>1. CASE ~ReadyOk(hlp.id)
  BY <1>0, <1>1, FailsKeeps DEF Ready, KeepsDisk
<1>2. CASE ReadyOk(hlp.id)
  <2>0. /\ x.state = "OPENING" /\ x.id = hlp.id /\ Goto("pump")
        /\ x' = [x EXCEPT !.state = "READY", !.ready = TRUE, !.prefix = hlp.crc,
                   !.from = Len(hlp.crc), !.durable = Len(hlp.crc), !.accepted = Len(hlp.crc)]
    BY <1>2 DEF Ready, ReadyOk, CallsTsr, Readied
  <2>1. /\ x' \in Transfers /\ x'.state = "READY" /\ x'.id = hlp.id /\ x'.prefix = hlp.crc
        /\ x'.durable = Len(hlp.crc) /\ x'.accepted = Len(hlp.crc) /\ x'.from = Len(hlp.crc)
        /\ x'.pending = x.pending /\ x'.whole = x.whole /\ x'.replay = x.replay
        /\ x'.close = x.close /\ x'.pump = x.pump
    <3>1. x' \in Transfers
      BY <1>0, <2>0, TransferUpdates, StateNames
    <3> QED BY <1>0, <2>0, <3>1 DEF Transfers
  <2>2. /\ hlp' \in Helpers(PutHelperPcs) /\ hlp'.pc = "pump" /\ hlp'.id = hlp.id
        /\ hlp'.crc = hlp.crc /\ hlp'.acc = <<>>
        /\ hlp'.phase = hlp.phase /\ hlp'.owned = hlp.owned
    <3>1. "pump" \in PutHelperPcs
      BY DEF PutHelperPcs, Receiving
    <3> QED BY <1>0, <2>0, <3>1, MovesOn
  <2>a. x.pending = <<>> /\ ~x.close /\ ~x.pump /\ "READY" \in Moving
    BY <1>0, <2>0 DEF PutLive, Owned, Moving
  <2>3. PutMachineTypes'
    BY <1>0, <2>1, <2>2 DEF PutMachineTypes, WireTypes
  <2>4. Owned'
    BY <1>0, <2>1, <2>2, <2>a DEF Owned
  <2>5. PutLive'
    BY <1>0, <2>0, <2>1, <2>2, <2>a DEF PutLive, Publishing, Receiving, Whole, Size, Moving
  <2>b. hlp.crc \o <<>> = hlp.crc
    BY <1>0, Appended
  <2>6. PutHeld'
    BY <1>0, <2>1, <2>2, <2>a, <2>b DEF PutHeld, Receiving, Held, Flushing, Sound
  <2>7. DiskSafe' /\ Grows
    BY <1>0, <2>0, <2>1, <2>2, DiskStands DEF Past
  <2>8. ScratchKnown'
    BY <1>0, <2>2 DEF ScratchKnown, OwnOuts, Foreigns, Whole, Size, Public, Out
  <2>9. HelperStep'
    BY <1>0, <2>0, <2>2 DEF HelperStep, WireOpen, Receiving, Flushing, MetaFits, Meta, Part, Public,
      HasName, Whole, Size
  <2>10. PutResidentFits'
    <3>1. hlp.id \in Prepared
      BY <1>0, NoneAssumption DEF HelperStep, WireOpen, MetaFits, Meta, Prepared, ScratchKnown, Helpers
    <3>2. hlp.crc \in Kept[hlp.id]
      <4>1. CASE hlp.phase \in Public
        BY <1>0, <4>1 DEF HelperStep, WireOpen, MetaFits, Meta, Kept
      <4>2. CASE hlp.phase \notin Public
        <5>1. Part # None /\ Part.data = hlp.crc
          BY <1>0, <4>2 DEF HelperStep, WireOpen
        <5>2. Part.safe = Len(Part.data)
          BY <1>0, <5>1 DEF DiskSafe, Part
        <5>3. SubSeq(hlp.crc, 1, Len(hlp.crc)) = hlp.crc
          BY <1>0, SubFacts
        <5> QED BY <1>0, <5>1, <5>2, <5>3 DEF Kept, Part
      <4> QED BY <4>1, <4>2
    <3> QED BY <1>0, <2>1, <2>7, <3>1, <3>2 DEF PutResidentFits, Grows
  <2> QED BY <2>3, <2>4, <2>5, <2>6, <2>7, <2>8, <2>9, <2>10
<1> QED BY <1>1, <1>2

LEMMA ReleaseKeeps ==
  ASSUME PutMachine, Release
  PROVE  PutMachine' /\ Grows
<1> USE DEF PutMachine
<1>0. /\ UNCHANGED <<disk, linked, typed, file>>
      /\ hlp.pc = "release" /\ hlp \in Helpers(PutHelperPcs) /\ x \in Transfers /\ disk \in Disks
      /\ hlp.crc \in Blocks /\ hlp.acc \in Blocks
  BY DEF Release, KeepsDisk, CallsTsr, wireVars, PutMachineTypes, WireTypes, Helpers
<1>1. CASE ~ReleaseOk
  BY <1>0, <1>1, FailsKeeps DEF Release, KeepsDisk
<1>2. CASE ReleaseOk
  <2>0. /\ x.state = "TRANSFERRING" /\ "TRANSFERRING" \in Moving /\ Goto("pump") /\ x.id = hlp.id
        /\ x' = [x EXCEPT !.pending = <<>>]
    BY <1>2 DEF Release, ReleaseOk, CallsTsr, Released, PutLive, Moving
  <2>1. /\ x' \in Transfers /\ x'.state = x.state /\ x'.id = x.id /\ x'.prefix = x.prefix
        /\ x'.durable = x.durable /\ x'.accepted = x.accepted /\ x'.from = x.from
        /\ x'.pending = <<>> /\ x'.whole = x.whole /\ x'.replay = x.replay
        /\ x'.close = x.close /\ x'.pump = x.pump
    <3>1. x' \in Transfers
      BY <1>0, <2>0, TransferUpdates, StateNames
    <3> QED BY <1>0, <2>0, <3>1 DEF Transfers
  <2>2. /\ hlp' \in Helpers(PutHelperPcs) /\ hlp'.pc = "pump" /\ hlp'.id = hlp.id
        /\ hlp'.crc = hlp.crc /\ hlp'.acc = hlp.acc
        /\ hlp'.phase = hlp.phase /\ hlp'.owned = hlp.owned
    <3>1. "pump" \in PutHelperPcs
      BY DEF PutHelperPcs, Receiving
    <3> QED BY <1>0, <2>0, <3>1, MovesOn
  <2>3. PutMachineTypes'
    BY <1>0, <2>1, <2>2 DEF PutMachineTypes, WireTypes
  <2>4. Owned'
    BY <1>0, <2>0, <2>1, <2>2 DEF Owned
  <2>5. PutLive'
    BY <1>0, <2>0, <2>1, <2>2 DEF PutLive, Publishing, Receiving, Whole, Size, Moving
  <2>6. PutHeld'
    <3>1. (hlp.crc \o hlp.acc) \o <<>> = hlp.crc \o hlp.acc
      BY <1>0, Appended
    <3>2. Held' = Held
      BY <1>0, <2>1, <2>2, <3>1 DEF Held
    <3> QED BY <1>0, <2>0, <2>1, <2>2, <3>2 DEF PutHeld, Receiving, Flushing, Sound
  <2>7. DiskSafe' /\ Grows
    BY <1>0, <2>0, <2>1, <2>2, DiskStands DEF Past, Sound
  <2>8. ScratchKnown'
    BY <1>0, <2>2 DEF ScratchKnown, OwnOuts, Foreigns, Whole, Size, Public, Out
  <2>9. HelperStep'
    BY <1>0, <2>0, <2>2 DEF HelperStep, WireOpen, Receiving, Flushing, MetaFits, Meta, Part, Public,
      HasName, Whole, Size
  <2>10. PutResidentFits'
    <3>1. x.id \in Ids
      BY <2>0 DEF Owned
    <3> QED BY <2>0, <2>1, <2>7, <3>1 DEF PutResidentFits, Sound, Prefix, Grows
  <2> QED BY <2>3, <2>4, <2>5, <2>6, <2>7, <2>8, <2>9, <2>10
<1> QED BY <1>1, <1>2

LEMMA CommitKeeps ==
  ASSUME PutMachine, Commit
  PROVE  PutMachine' /\ Grows
<1> USE DEF PutMachine
<1>0. /\ UNCHANGED <<disk, linked, typed, file>>
      /\ hlp.pc = "commit" /\ hlp \in Helpers(PutHelperPcs) /\ x \in Transfers /\ disk \in Disks
      /\ hlp.crc \in Blocks /\ hlp.acc \in Blocks
  BY DEF Commit, KeepsDisk, CallsTsr, wireVars, PutMachineTypes, WireTypes, Helpers
<1>1. CASE ~CommitOk(Len(hlp.acc))
  BY <1>0, <1>1, FailsKeeps DEF Commit, KeepsDisk
<1>2. CASE CommitOk(Len(hlp.acc))
  <2>0. /\ x.state = "TRANSFERRING" /\ "TRANSFERRING" \in Moving /\ x.id = hlp.id
        /\ x' = [x EXCEPT !.durable = x.accepted, !.prefix = hlp.crc, !.pending = <<>>]
        /\ hlp' = [hlp EXCEPT !.pc = "pump", !.acc = <<>>]
    BY <1>2 DEF Commit, CommitOk, CallsTsr, Committed, PutLive, Moving
  <2>1. /\ x' \in Transfers /\ x'.state = x.state /\ x'.id = x.id /\ x'.prefix = hlp.crc
        /\ x'.durable = x.accepted /\ x'.accepted = x.accepted /\ x'.from = x.from
        /\ x'.pending = <<>> /\ x'.whole = x.whole /\ x'.replay = x.replay
        /\ x'.close = x.close /\ x'.pump = x.pump
    <3>1. x.accepted \in Nat
      BY <1>0 DEF Transfers
    <3>2. x' \in Transfers
      BY <1>0, <2>0, <3>1, TransferUpdates, StateNames
    <3> QED BY <1>0, <2>0, <3>2 DEF Transfers
  <2>2. /\ hlp' \in Helpers(PutHelperPcs) /\ hlp'.pc = "pump" /\ hlp'.id = hlp.id
        /\ hlp'.crc = hlp.crc /\ hlp'.acc = <<>>
        /\ hlp'.phase = hlp.phase /\ hlp'.owned = hlp.owned
    <3>1. "pump" \in PutHelperPcs /\ <<>> \in Blocks
      BY StateNames DEF PutHelperPcs, Receiving
    <3>2. hlp' \in Helpers(PutHelperPcs)
      BY <1>0, <2>0, <3>1, HelperUpdates
    <3> QED BY <1>0, <2>0, <3>2 DEF Helpers
  <2>3. PutMachineTypes'
    BY <1>0, <2>1, <2>2 DEF PutMachineTypes, WireTypes
  <2>4. Owned'
    BY <1>0, <2>0, <2>1, <2>2 DEF Owned
  <2>5. PutLive'
    BY <1>0, <2>0, <2>1, <2>2 DEF PutLive, Publishing, Receiving, Whole, Size, Moving
  <2>6. /\ Held = hlp.crc /\ Len(hlp.crc) = x.accepted
        /\ Sound => hlp.crc = Prefix(x.accepted)
    BY <1>0, <2>0 DEF PutHeld, Receiving, Held
  <2>7. hlp.crc \o <<>> = hlp.crc
    BY <1>0, Appended
  <2>8. Sound => Sound'
    BY <2>1, <2>6 DEF Sound, Prefix
  <2>9. Sound' => hlp.crc = Prefix(x.accepted)
    BY <2>1 DEF Sound, Prefix
  <2>10. PutHeld'
    BY <1>0, <2>0, <2>1, <2>2, <2>6, <2>7, <2>9 DEF PutHeld, Receiving, Flushing, Held, Prefix
  <2>11. DiskSafe' /\ Grows
    BY <1>0, <2>0, <2>1, <2>2, <2>8, DiskStands DEF Past
  <2>12. ScratchKnown'
    BY <1>0, <2>2 DEF ScratchKnown, OwnOuts, Foreigns, Whole, Size, Public, Out
  <2>13. HelperStep'
    BY <1>0, <2>0, <2>2 DEF HelperStep, WireOpen, Receiving, Flushing, MetaFits, Meta, Part, Public,
      HasName, Whole, Size
  <2>14. PutResidentFits'
    <3>1. x.id \in Ids /\ x.id \in Prepared
      BY <2>0 DEF Owned, PutResidentFits, Readied0
    <3>2. hlp.crc \in Kept[hlp.id]
      <4>1. hlp.phase \notin Public
        BY <1>0 DEF HelperStep, Flushing
      <4>2. Part # None /\ Part.data = hlp.crc
        BY <1>0, <4>1 DEF HelperStep, WireOpen, Receiving
      <4>3. Part.safe = Len(Part.data)
        BY <1>0, <2>0, <3>1, <4>2 DEF DiskSafe, Part
      <4>4. SubSeq(hlp.crc, 1, Len(hlp.crc)) = hlp.crc /\ Len(hlp.crc) \in Nat
        BY <1>0, SubFacts, Appended
      <4> QED BY <1>0, <2>0, <3>1, <4>2, <4>3, <4>4 DEF Kept, Part
    <3>3. hlp.crc \in Kept'[x'.id] /\ x'.id \in Prepared'
      BY <2>0, <2>1, <2>11, <3>1, <3>2 DEF Grows
    <3>4. x'.accepted > x'.from => Sound'
      BY <2>1, <2>8 DEF PutResidentFits
    <3>5. x'.state # "COMPLETE"
      BY <2>0, <2>1
    <3> QED BY <2>0, <2>1, <3>3, <3>4, <3>5 DEF PutResidentFits
  <2> QED BY <2>3, <2>4, <2>5, <2>10, <2>11, <2>12, <2>13, <2>14
<1> QED BY <1>1, <1>2

LEMMA PostprocessKeeps ==
  ASSUME PutMachine, Postprocess
  PROVE  PutMachine' /\ Grows
<1> USE DEF PutMachine
<1>0. /\ UNCHANGED <<disk, linked, typed, file>> /\ ~file.get
      /\ hlp.pc = "postprocess" /\ hlp \in Helpers(PutHelperPcs) /\ x \in Transfers /\ disk \in Disks
  BY DEF Postprocess, KeepsDisk, CallsTsr, wireVars, PutMachineTypes, WireTypes, Helpers
<1>1. CASE ~PostprocessOk
  BY <1>0, <1>1, FailsKeeps DEF Postprocess, KeepsDisk
<1>2. CASE PostprocessOk
  <2>0. /\ x.state = "VERIFYING" /\ Goto("publish") /\ x.id = hlp.id /\ x.close /\ x.durable = Size
        /\ x.pending = <<>>
        /\ x' = [x EXCEPT !.state = "POSTPROCESS", !.armed = FALSE]
    BY <1>0, <1>2 DEF Postprocess, PostprocessOk, CallsTsr, Postprocessed, PutLive, Moving
  <2>1. /\ x' \in Transfers /\ x'.state = "POSTPROCESS" /\ x'.id = x.id /\ x'.prefix = x.prefix
        /\ x'.durable = x.durable /\ x'.accepted = x.accepted /\ x'.from = x.from
        /\ x'.pending = <<>> /\ x'.whole = x.whole /\ x'.replay = x.replay
        /\ x'.close = x.close /\ x'.pump = x.pump
    <3>1. x' \in Transfers
      BY <1>0, <2>0, TransferUpdates, StateNames
    <3> QED BY <1>0, <2>0, <3>1 DEF Transfers
  <2>2. /\ hlp' \in Helpers(PutHelperPcs) /\ hlp'.pc = "publish" /\ hlp'.id = hlp.id
        /\ hlp'.crc = hlp.crc /\ hlp'.acc = hlp.acc
        /\ hlp'.phase = hlp.phase /\ hlp'.owned = hlp.owned
    <3>1. "publish" \in PutHelperPcs
      BY DEF PutHelperPcs, Publishing
    <3> QED BY <1>0, <2>0, <3>1, MovesOn
  <2>3. PutMachineTypes'
    BY <1>0, <2>1, <2>2 DEF PutMachineTypes, WireTypes
  <2>4. Owned'
    BY <1>0, <2>0, <2>1, <2>2 DEF Owned
  <2>5. PutLive'
    BY <1>0, <2>0, <2>1, <2>2 DEF PutLive, Publishing, Receiving, Whole, Size, Moving
  <2>6. PutHeld'
    BY <1>0, <2>1 DEF PutHeld, Moving
  <2>7. DiskSafe' /\ Grows
    BY <1>0, <2>0, <2>1, <2>2, DiskStands DEF Past, Sound
  <2>8. ScratchKnown'
    BY <1>0, <2>2 DEF ScratchKnown, OwnOuts, Foreigns, Whole, Size, Public, Out
  <2>9. HelperStep'
    BY <1>0, <2>0, <2>2 DEF HelperStep, WireOpen, Receiving, Flushing, MetaFits, Meta, Part, Public,
      HasName, Whole, Size
  <2>10. PutResidentFits'
    <3>1. x.id \in Ids
      BY <2>0 DEF Owned
    <3> QED BY <2>0, <2>1, <2>7, <3>1 DEF PutResidentFits, Sound, Prefix, Grows, Readied0
  <2> QED BY <2>3, <2>4, <2>5, <2>6, <2>7, <2>8, <2>9, <2>10
<1> QED BY <1>1, <1>2

LEMMA FinishKeeps ==
  ASSUME PutMachine, Finish
  PROVE  PutMachine' /\ Grows
<1> USE DEF PutMachine
<1>0. /\ UNCHANGED <<disk, linked, typed, file>>
      /\ hlp.pc = "finish" /\ x \in Transfers /\ disk \in Disks
      /\ x.state = "POSTPROCESS" /\ x.close /\ x.durable = Size /\ x.pending = <<>> /\ x.id \in Ids
      /\ x.whole = Whole /\ ~x.pump
  BY DEF Finish, CallsTsr, wireVars, PutMachineTypes, WireTypes, PutLive, Publishing, Moving, Owned
<1>1. FinishOk
  BY <1>0, SizeFacts DEF FinishOk, WireSize
<1>2. /\ hlp' = AtPrompt
      /\ x' = [x EXCEPT !.state = "COMPLETE", !.ready = FALSE, !.armed = FALSE]
  BY <1>0, <1>1 DEF Finish, Finished, CallsTsr
<1>3. /\ x' \in Transfers /\ x'.state = "COMPLETE" /\ x'.id = x.id /\ x'.prefix = x.prefix
      /\ x'.durable = x.durable /\ x'.accepted = x.accepted /\ x'.from = x.from
      /\ x'.pending = <<>> /\ x'.whole = x.whole /\ x'.replay = x.replay
      /\ x'.close = x.close /\ x'.pump = x.pump
  <2>1. x' \in Transfers
    BY <1>0, <1>2, TransferUpdates, StateNames
  <2> QED BY <1>0, <1>2, <2>1 DEF Transfers
<1>4. DiskSafe' /\ Grows
  BY <1>0, <1>2, <1>3, DiskStands DEF Past, Sound, AtPrompt
<1>5. PutResidentFits'
  BY <1>0, <1>3, <1>4 DEF PutResidentFits, Sound, Prefix, Grows, Readied0, HelperStep
<1> QED BY <1>0, <1>2, <1>3, <1>4, <1>5, ReturnKeeps, SizeFacts DEF Moving

LEMMA FailKeeps ==
  ASSUME PutMachine, Fail
  PROVE  PutMachine' /\ Grows
<1> USE DEF PutMachine
<1>0. /\ UNCHANGED <<linked, typed, file>> /\ hlp' = AtPrompt
      /\ hlp.pc = "fail" /\ x \in Transfers /\ disk \in Disks /\ hlp.id \in Ids
      /\ x.state \notin {"IDLE", "COMPLETE"} /\ x.id \in Ids /\ x.whole = Whole /\ ~x.pump
      /\ hlp.owned => Out \notin Foreigns
  BY DEF Fail, wireVars, PutMachineTypes, WireTypes, PutLive, Owned, ScratchKnown
<1>1. /\ x' \in Transfers /\ x'.state \in {"FAILED", "CANCELLED"} /\ x'.id = x.id
      /\ x'.prefix = x.prefix /\ x'.durable = x.durable /\ x'.accepted = x.accepted
      /\ x'.from = x.from /\ x'.whole = x.whole /\ x'.replay = x.replay
      /\ x'.pump = x.pump /\ x'.close = x.close
      /\ x'.pending = <<>> /\ (x'.state = "CANCELLED" => x.state = "CANCELLED")
  <2>1. CASE x.state = "CANCELLED"
    <3>1. x' = [x EXCEPT !.armed = FALSE]
      BY <2>1 DEF Fail, Finished
    <3>2. x' \in Transfers
      BY <1>0, <3>1, TransferUpdates
    <3> QED BY <1>0, <2>1, <3>1, <3>2 DEF Transfers, PutLive
  <2>2. CASE x.state # "CANCELLED"
    <3>1. x' = [x EXCEPT !.state = "FAILED", !.pending = <<>>, !.ready = FALSE, !.armed = FALSE]
      BY <2>2 DEF Fail, Finished
    <3>2. x' \in Transfers
      BY <1>0, <3>1, TransferUpdates, StateNames
    <3> QED BY <1>0, <3>1, <3>2 DEF Transfers
  <2> QED BY <2>1, <2>2
<1>2. /\ disk' \in Disks /\ disk'.meta = disk.meta /\ disk'.target = disk.target
      /\ \A i \in Ids : i # hlp.id => disk'.part[i] = disk.part[i] /\ disk'.out[i] = disk.out[i]
      /\ disk'.out[hlp.id] = IF hlp.owned THEN None ELSE disk.out[hlp.id]
      /\ disk.part[hlp.id] = None => disk'.part[hlp.id] = None
      /\ disk.part[hlp.id] # None =>
           /\ disk.part[hlp.id] \in Files
           /\ disk'.part[hlp.id] # None
           /\ disk'.part[hlp.id].data = disk.part[hlp.id].data
           /\ disk'.part[hlp.id].mine = disk.part[hlp.id].mine
           /\ disk'.part[hlp.id].safe = Len(disk.part[hlp.id].data)
  <2> DEFINE o == IF hlp.owned THEN None ELSE disk.out[hlp.id]
             p == Closed(disk.part[hlp.id])
  <2>1. /\ disk' = [disk EXCEPT !.part[hlp.id] = p, !.out[hlp.id] = o]
        /\ disk.part[hlp.id] \in Files \cup {None} /\ disk.out[hlp.id] \in Files \cup {None}
    BY <1>0 DEF Fail, Disks
  <2>2. ASSUME disk.part[hlp.id] # None
        PROVE  /\ p \in Files /\ p.data = disk.part[hlp.id].data
               /\ p.mine = disk.part[hlp.id].mine /\ p.safe = Len(disk.part[hlp.id].data)
    <3>1. Len(disk.part[hlp.id].data) \in Nat
      BY <2>1, <2>2 DEF Files, Blocks
    <3> QED BY <2>1, <2>2, <3>1 DEF Files, Closed
  <2>3. p \in Files \cup {None} /\ o \in Files \cup {None} /\ (p = None <=> disk.part[hlp.id] = None)
    BY <2>1, <2>2, NoneAssumption DEF Closed
  <2> HIDE DEF p, o
  <2>4. disk' \in Disks
    BY <1>0, <2>1, <2>3 DEF Disks
  <2>5. disk'.part[hlp.id] = p /\ disk'.out[hlp.id] = o
    BY <1>0, <2>1, <2>3 DEF Disks
  <2>6. /\ disk'.meta = disk.meta /\ disk'.target = disk.target
        /\ \A i \in Ids : i # hlp.id => disk'.part[i] = disk.part[i] /\ disk'.out[i] = disk.out[i]
    BY <1>0, <2>1 DEF Disks
  <2> QED BY <2>1, <2>2, <2>3, <2>4, <2>5, <2>6 DEF o
<1>3. hlp'.pc = "prompt" /\ hlp'.id = None
  BY <1>0 DEF AtPrompt
<1>4. DiskSafe'
  <2>1. HasName' = HasName /\ Twin' = Twin /\ Foreigns' = Foreigns
    BY <1>0, <1>2, SizeFacts DEF HasName, Twin
  <2>2. DiskSafe
    OBVIOUS
  <2>3. \A i \in Ids : disk'.part[i] # None =>
          /\ disk'.part[i].mine
          /\ disk'.part[i].safe <= Len(disk'.part[i].data)
          /\ disk'.part[i].safe = Len(disk'.part[i].data)
    <3> TAKE i \in Ids
    <3>1. CASE i = hlp.id
      <4>1. disk.part[i] # None => Len(disk.part[i].data) \in Nat
        BY <1>2, <3>1 DEF Files, Blocks
      <4> HIDE DEF PutMachine
      <4> QED BY <1>2, <2>2, <3>1, <4>1 DEF DiskSafe
    <3>2. CASE i # hlp.id
      <4> HIDE DEF PutMachine
      <4> QED BY <1>2, <2>2, <3>2 DEF DiskSafe
    <3> QED BY <3>1, <3>2
  <2>4. \A i \in Ids : disk'.out[i] # None => disk'.out[i] = disk.out[i]
    BY <1>2
  <2> HIDE DEF PutMachine
  <2> QED BY <1>2, <2>1, <2>2, <2>3, <2>4 DEF DiskSafe
<1>5. \A i \in Ids : Kept[i] \subseteq Kept'[i]
  <2>1. ASSUME NEW i \in Ids, NEW b \in Blocks, b \in Kept[i] PROVE b \in Kept'[i]
    <3>1. /\ disk'.meta[i] = disk.meta[i] /\ disk'.target = disk.target
          /\ HasName => HasName'
      BY <1>0, <1>2 DEF HasName, Whole, Size
    <3>2. CASE /\ disk.part[i] # None /\ disk.part[i].safe >= Len(b)
               /\ SubSeq(disk.part[i].data, 1, Len(b)) = b
      <4>1. /\ disk'.part[i] # None /\ disk'.part[i].data = disk.part[i].data
            /\ disk'.part[i].safe \in {disk.part[i].safe, Len(disk.part[i].data)}
        BY <1>2, <3>2
      <4>2. disk.part[i].safe <= Len(disk.part[i].data) /\ Len(b) \in Nat
            /\ disk.part[i].safe \in Nat /\ Len(disk.part[i].data) \in Nat
        BY <1>0, <3>2 DEF DiskSafe, Disks, Files, Blocks
      <4> HIDE DEF PutMachine
      <4>3. disk'.part[i].safe >= Len(b)
        BY <3>2, <4>1, <4>2
      <4> QED BY <2>1, <3>2, <4>1, <4>3 DEF Kept
    <3> QED BY <2>1, <3>1, <3>2 DEF Kept
  <2>2. \A i \in Ids : Kept[i] \subseteq Blocks
    BY DEF Kept
  <2> QED BY <2>1, <2>2
<1>6. OwnOuts \subseteq OwnOuts' /\ Prepared \subseteq Prepared'
  <2>1. Foreigns' = Foreigns /\ file' = file
    BY <1>0, SizeFacts
  <2>2. None \notin Foreigns
    BY ForeignFacts
  <2>3. OwnOuts \subseteq OwnOuts'
    BY <1>0, <1>2, <2>1, <2>2 DEF OwnOuts
  <2>4. HasName => HasName'
    BY <1>0, <1>2 DEF HasName, Whole, Size
  <2> QED BY <1>0, <1>2, <1>3, <2>3, <2>4 DEF Prepared
<1>7. Grows
  BY <1>0, <1>1, <1>2, <1>5, <1>6 DEF Grows, Past, Sound, HasName, Whole, Size
<1>8. PutResidentFits'
  BY <1>0, <1>1, <1>7 DEF PutResidentFits, Sound, Prefix, Grows, Readied0, Moving
<1>9. x'.close => x'.state \in {"COMPLETE", "FAILED"}
  BY <1>1 DEF Owned
<1> QED BY <1>0, <1>1, <1>2, <1>4, <1>7, <1>8, <1>9, ReturnKeeps, SizeFacts DEF Moving

----------------------------------------------------------------------------
(* PUT: the helper's steps on the disk. *)

\* One entry of the directory changes.
LEMMA DiskUpdates ==
  ASSUME disk \in Disks, NEW i \in Ids
  PROVE  /\ \A v \in Phases \cup {None, "TORN"} :
              disk' = [disk EXCEPT !.meta[i] = v] =>
                /\ disk' \in Disks /\ disk'.meta[i] = v
                /\ disk'.part = disk.part /\ disk'.out = disk.out /\ disk'.target = disk.target
                /\ \A j \in Ids : j # i => disk'.meta[j] = disk.meta[j]
         /\ \A v \in Files \cup {None} :
              disk' = [disk EXCEPT !.part[i] = v] =>
                /\ disk' \in Disks /\ disk'.part[i] = v
                /\ disk'.meta = disk.meta /\ disk'.out = disk.out /\ disk'.target = disk.target
                /\ \A j \in Ids : j # i => disk'.part[j] = disk.part[j]
         /\ \A v \in Files \cup {None} :
              disk' = [disk EXCEPT !.out[i] = v] =>
                /\ disk' \in Disks /\ disk'.out[i] = v
                /\ disk'.meta = disk.meta /\ disk'.part = disk.part /\ disk'.target = disk.target
                /\ \A j \in Ids : j # i => disk'.out[j] = disk.out[j]
         /\ disk.part[i] \in Files \cup {None} /\ disk.out[i] \in Files \cup {None}
         /\ disk.meta[i] \in Phases \cup {None, "TORN"}
<1>1. \A v \in Phases \cup {None, "TORN"} :
        disk' = [disk EXCEPT !.meta[i] = v] =>
          /\ disk' \in Disks /\ disk'.meta[i] = v
          /\ disk'.part = disk.part /\ disk'.out = disk.out /\ disk'.target = disk.target
          /\ \A j \in Ids : j # i => disk'.meta[j] = disk.meta[j]
  BY DEF Disks
<1>2. \A v \in Files \cup {None} :
        disk' = [disk EXCEPT !.part[i] = v] =>
          /\ disk' \in Disks /\ disk'.part[i] = v
          /\ disk'.meta = disk.meta /\ disk'.out = disk.out /\ disk'.target = disk.target
          /\ \A j \in Ids : j # i => disk'.part[j] = disk.part[j]
  BY DEF Disks
<1>3. \A v \in Files \cup {None} :
        disk' = [disk EXCEPT !.out[i] = v] =>
          /\ disk' \in Disks /\ disk'.out[i] = v
          /\ disk'.meta = disk.meta /\ disk'.part = disk.part /\ disk'.target = disk.target
          /\ \A j \in Ids : j # i => disk'.out[j] = disk.out[j]
  BY DEF Disks
<1>4. /\ disk.part[i] \in Files \cup {None} /\ disk.out[i] \in Files \cup {None}
      /\ disk.meta[i] \in Phases \cup {None, "TORN"}
  BY DEF Disks
<1> QED BY <1>1, <1>2, <1>3, <1>4

\* What a step of the helper on the disk, that does not tell the resident,
\* leaves to show.
LEMMA DiskMove ==
  ASSUME PutMachine, UNCHANGED <<x, linked, typed, file>>,
         hlp' \in Helpers(PutHelperPcs), hlp'.id = hlp.id, disk' \in Disks,
         hlp.pc \notin {"prompt", "claim", "pumping", "fail"},
         hlp'.pc \notin {"prompt", "claim"},
         \A i \in Ids : Kept[i] \subseteq Kept'[i],
         Prepared \subseteq Prepared', OwnOuts \subseteq OwnOuts', HasName => HasName',
         PutLive', PutHeld', DiskSafe', ScratchKnown', HelperStep'
  PROVE  PutMachine' /\ Grows
<1> USE DEF PutMachine
<1>1. PutMachineTypes'
  BY DEF PutMachineTypes, WireTypes
<1>2. Owned'
  BY DEF Owned, PutLive
<1>3. Grows
  BY DEF Grows, Past, Sound
<1>4. PutResidentFits'
  <2>1. x.state # "IDLE" => x.id \in Ids
    BY DEF Owned
  <2> QED BY <1>3, <2>1 DEF Grows, PutResidentFits, Sound, Prefix
<1> QED BY <1>1, <1>2, <1>3, <1>4

\* Changes of a sidecar.
LEMMA SetMetaKeeps ==
  ASSUME PutMachine, UNCHANGED <<x, linked, typed, file>>,
         NEW v \in Phases \cup {None}, disk' = [disk EXCEPT !.meta[hlp.id] = v],
         hlp' \in Helpers(PutHelperPcs), hlp'.id = hlp.id,
         hlp.pc \notin {"prompt", "claim", "pumping", "ensure", "fail"},
         hlp'.pc \notin {"prompt", "claim"},
         v = None => \/ hlp.pc = "mkpart" /\ hlp.phase = "RECEIVING"
                     \/ HasName /\ hlp.id \in OwnOuts,
         hlp'.pc = "mkpart" => Meta = None,
         Meta \in Public => v \in Public \/ HasName,
         v \in Public => disk.target = None \/ HasName,
         v \in {"DECODING"} \cup Public => hlp.id \in OwnOuts,
         hlp'.phase # "RECEIVING" => hlp.id \in OwnOuts,
         hlp'.owned = hlp.owned /\ ~hlp.owned,
         PutLive', PutHeld', HelperStep'
  PROVE  PutMachine' /\ Grows
<1> USE DEF PutMachine
<1>0. hlp.id \in Ids /\ disk \in Disks
  BY DEF PutMachineTypes, Owned
<1>1. /\ disk' \in Disks /\ disk'.meta[hlp.id] = v
      /\ disk'.part = disk.part /\ disk'.out = disk.out /\ disk'.target = disk.target
      /\ \A j \in Ids : j # hlp.id => disk'.meta[j] = disk.meta[j]
  BY <1>0, DiskUpdates
<1>2. OwnOuts' = OwnOuts /\ HasName' = HasName
  BY <1>1, SizeFacts DEF OwnOuts, HasName
<1>3. \A i \in Ids : Kept[i] \subseteq Kept'[i]
  BY <1>0, <1>1, <1>2 DEF Kept, Meta
<1>4. Prepared \subseteq Prepared'
  BY <1>0, <1>1, <1>2, NoneAssumption DEF Prepared, Meta
<1>5. DiskSafe'
  <2>1. Twin' = Twin
    BY <1>1, SizeFacts DEF Twin
  <2>2. Twin => \A i \in Ids : disk'.meta[i] \notin Public
    BY <1>0, <1>1 DEF DiskSafe, Twin, HasName
  <2>3. Foreigns' = Foreigns
    BY SizeFacts
  <2> HIDE DEF PutMachine
  <2>4. DiskSafe /\ hlp'.id = hlp.id
    BY DEF PutMachine
  <2> QED BY <1>1, <1>2, <2>1, <2>2, <2>3, <2>4 DEF DiskSafe
<1>6. ScratchKnown'
  <2>1. \A i \in Ids : disk'.meta[i] \in {"DECODING"} \cup Public => i \in OwnOuts
    BY <1>0, <1>1 DEF ScratchKnown
  <2> QED BY <1>2, <2>1 DEF ScratchKnown
<1> QED BY <1>1, <1>2, <1>3, <1>4, <1>5, <1>6, DiskMove

LEMMA SidecarStepsKeep ==
  ASSUME PutMachine, CreateMeta \/ OwnScratch \/ MarkPublishing \/ MarkPublished \/ CleanMeta
  PROVE  PutMachine' /\ Grows
<1> USE DEF PutMachine
<1>0. /\ UNCHANGED <<x, linked, typed, file>>
      /\ hlp \in Helpers(PutHelperPcs) /\ x \in Transfers /\ disk \in Disks
      /\ hlp.pc \in {"mkmeta", "publish", "mark", "marked", "cleanmeta"} /\ hlp.id \in Ids
  BY DEF CreateMeta, OwnScratch, MarkPublishing, MarkPublished, CleanMeta, SetPhase, KeepsResident,
    KeepsDisk, wireVars, PutMachineTypes, WireTypes, Owned
<1>1. CASE CreateMeta
  <2>1. /\ hlp' \in Helpers(PutHelperPcs) /\ hlp'.pc = "mkpart" /\ hlp'.id = hlp.id
        /\ hlp'.crc = hlp.crc /\ hlp'.acc = hlp.acc /\ hlp'.phase = hlp.phase
        /\ hlp'.owned = hlp.owned
    <3>1. "mkpart" \in PutHelperPcs
      BY DEF PutHelperPcs
    <3> QED BY <1>0, <1>1, <3>1, MovesOn DEF CreateMeta
  <2>2. /\ hlp.pc = "mkmeta" /\ disk' = [disk EXCEPT !.meta[hlp.id] = "RECEIVING"]
        /\ "RECEIVING" \in Phases
    BY <1>1 DEF CreateMeta, Phases, Rank
  <2>3. Meta = None /\ hlp.phase = "RECEIVING" /\ ~hlp.owned /\ hlp.crc = <<>> /\ hlp.acc = <<>>
    BY <1>0, <2>2 DEF HelperStep, ScratchKnown
  <2>4. PutLive'
    BY <1>0, <2>1, <2>2 DEF PutLive, Publishing, Receiving, Whole, Size, Moving
  <2>5. PutHeld'
    BY <2>1 DEF PutHeld, Receiving
  <2>6. disk'.meta[hlp.id] = "RECEIVING"
    BY <1>0, <2>2, DiskUpdates
  <2>7. HelperStep'
    BY <2>1, <2>3, <2>6 DEF HelperStep, WireOpen, Receiving, Flushing, Meta
  <2>8. "RECEIVING" \notin {"DECODING"} \cup Public /\ Meta \notin Public /\ "RECEIVING" # None
    BY <2>3, NoneAssumption, <2>2 DEF Public, Phases, Rank
  <2> QED BY <1>0, <2>1, <2>2, <2>3, <2>4, <2>5, <2>7, <2>8, SetMetaKeeps
<1>2. CASE OwnScratch
  <2>1. CASE Fails /\ KeepsDisk
    BY <1>0, <2>1, FailsKeeps DEF KeepsDisk
  <2>2. CASE Out = None /\ SetPhase("DECODING", "decode")
    <3>1. /\ hlp' = [hlp EXCEPT !.phase = "DECODING", !.pc = "decode"]
          /\ disk' = [disk EXCEPT !.meta[hlp.id] = "DECODING"]
          /\ hlp.pc = "publish" /\ hlp.phase = "RECEIVING" /\ file.packed
          /\ "DECODING" \in Phases /\ "decode" \in PutHelperPcs
      BY <1>2, <2>2 DEF OwnScratch, SetPhase, Phases, Rank, PutHelperPcs, Publishing
    <3>2. hlp' \in Helpers(PutHelperPcs)
      BY <1>0, <3>1, HelperUpdates
    <3>3. /\ hlp'.pc = "decode" /\ hlp'.id = hlp.id /\ hlp'.phase = "DECODING"
          /\ hlp'.owned = hlp.owned /\ ~hlp.owned
      BY <1>0, <3>1 DEF Helpers, ScratchKnown
    <3>4. PutLive'
      BY <1>0, <3>1, <3>3 DEF PutLive, Publishing, Receiving, Whole, Size, Moving
    <3>5. PutHeld'
      BY <3>3 DEF PutHeld, Receiving
    <3>6. disk'.meta[hlp.id] = "DECODING"
      BY <1>0, <3>1, DiskUpdates
    <3>7. HelperStep'
      BY <1>0, <3>1, <3>3, <3>6 DEF HelperStep, WireOpen, Receiving, Flushing, Meta
    <3>8. hlp.id \in OwnOuts
      BY <1>0, <2>2, ForeignFacts DEF OwnOuts, Out
    <3>9. Meta \notin Public
      BY <1>0, <3>1 DEF HelperStep, WireOpen, MetaFits, Public
    <3> QED BY <1>0, <3>1, <3>2, <3>3, <3>4, <3>5, <3>7, <3>8, <3>9, SetMetaKeeps, NoneAssumption
      DEF Public
  <2> QED BY <1>2, <2>1, <2>2 DEF OwnScratch
<1>3. CASE MarkPublishing
  <2>1. /\ hlp' = [hlp EXCEPT !.phase = "PUBLISHING", !.pc = "rename"]
        /\ disk' = [disk EXCEPT !.meta[hlp.id] = "PUBLISHING"]
        /\ hlp.pc = "mark" /\ SourceReady
        /\ "PUBLISHING" \in Phases /\ "rename" \in PutHelperPcs
    BY <1>3 DEF MarkPublishing, SetPhase, Phases, Rank, PutHelperPcs, Publishing, HelperStep
  <2>2. hlp' \in Helpers(PutHelperPcs)
    BY <1>0, <2>1, HelperUpdates
  <2>3. /\ hlp'.pc = "rename" /\ hlp'.id = hlp.id /\ hlp'.phase = "PUBLISHING"
        /\ hlp'.owned = hlp.owned /\ ~hlp.owned
    BY <1>0, <2>1 DEF Helpers, ScratchKnown
  <2>4. PutLive'
    BY <1>0, <2>1, <2>3 DEF PutLive, Publishing, Receiving, Whole, Size, Moving
  <2>5. PutHeld'
    BY <2>3 DEF PutHeld, Receiving
  <2>6. /\ disk'.meta[hlp.id] = "PUBLISHING" /\ disk'.part = disk.part /\ disk'.out = disk.out
        /\ disk'.target = disk.target
    BY <1>0, <2>1, DiskUpdates
  <2>7. SourceReady'
    BY <1>0, <2>1, <2>3, <2>6, SizeFacts DEF SourceReady, PublishSource, Part, Out
  <2>8. HelperStep'
    BY <1>0, <2>1, <2>3, <2>6, <2>7 DEF HelperStep, WireOpen, Receiving, Flushing, Meta
  <2>9. hlp.id \in OwnOuts
    BY <1>0, <2>1 DEF ScratchKnown, HelperStep, OwnOuts
  <2>10. disk.target = None
    BY <2>1 DEF SourceReady
  <2> QED BY <1>0, <2>1, <2>2, <2>3, <2>4, <2>5, <2>8, <2>9, <2>10, SetMetaKeeps, NoneAssumption
    DEF Public
<1>4. CASE MarkPublished
  <2>1. /\ hlp' = [hlp EXCEPT !.phase = "PUBLISHED", !.pc = "clean"]
        /\ disk' = [disk EXCEPT !.meta[hlp.id] = "PUBLISHED"]
        /\ hlp.pc = "marked" /\ HasName /\ hlp.phase = "PUBLISHING"
        /\ "PUBLISHED" \in Phases /\ "clean" \in PutHelperPcs
    BY <1>4 DEF MarkPublished, SetPhase, Phases, Rank, PutHelperPcs, Publishing, HelperStep
  <2>2. hlp' \in Helpers(PutHelperPcs)
    BY <1>0, <2>1, HelperUpdates
  <2>3. /\ hlp'.pc = "clean" /\ hlp'.id = hlp.id /\ hlp'.phase = "PUBLISHED"
        /\ hlp'.owned = hlp.owned /\ ~hlp.owned
    BY <1>0, <2>1 DEF Helpers, ScratchKnown
  <2>4. PutLive'
    BY <1>0, <2>1, <2>3 DEF PutLive, Publishing, Receiving, Whole, Size, Moving
  <2>5. PutHeld'
    BY <2>3 DEF PutHeld, Receiving
  <2>6. /\ disk'.meta[hlp.id] = "PUBLISHED" /\ disk'.target = disk.target
    BY <1>0, <2>1, DiskUpdates
  <2>7. HasName'
    BY <1>0, <2>1, <2>6, SizeFacts DEF HasName
  <2>8. HelperStep'
    BY <1>0, <2>1, <2>3, <2>6, <2>7 DEF HelperStep, WireOpen, Receiving, Flushing, Meta
  <2>9. hlp.id \in OwnOuts
    BY <1>0, <2>1 DEF ScratchKnown
  <2> QED BY <1>0, <2>1, <2>2, <2>3, <2>4, <2>5, <2>8, <2>9, SetMetaKeeps, NoneAssumption
    DEF Public
<1>5. CASE CleanMeta
  <2>1. /\ Goto("finish")
        /\ disk' = [disk EXCEPT !.meta[hlp.id] = None]
        /\ hlp.pc = "cleanmeta" /\ HasName /\ (file.packed => Out = None)
        /\ "finish" \in PutHelperPcs
    BY <1>5 DEF CleanMeta, PutHelperPcs, Publishing, HelperStep
  <2>2. /\ hlp' \in Helpers(PutHelperPcs) /\ hlp'.pc = "finish" /\ hlp'.id = hlp.id
        /\ hlp'.phase = hlp.phase /\ hlp'.owned = hlp.owned /\ ~hlp.owned
    BY <1>0, <2>1, MovesOn DEF ScratchKnown
  <2>4. PutLive'
    BY <1>0, <2>1, <2>2 DEF PutLive, Publishing, Receiving, Whole, Size, Moving
  <2>5. PutHeld'
    BY <2>2 DEF PutHeld, Receiving
  <2>6. disk'.target = disk.target /\ disk'.out = disk.out
    BY <1>0, <2>1, DiskUpdates
  <2>7. HasName'
    BY <1>0, <2>1, <2>6, SizeFacts DEF HasName
  <2>8. HelperStep'
    BY <1>0, <2>1, <2>2, <2>6, <2>7 DEF HelperStep, WireOpen, Receiving, Flushing, Out
  <2>9. hlp.id \in OwnOuts
    BY <1>0, <2>1, ForeignFacts DEF OwnOuts, Out
  <2>10. None \notin Public
    BY NoneAssumption DEF Public, Phases, Rank
  <2> QED BY <1>0, <2>1, <2>2, <2>4, <2>5, <2>8, <2>9, <2>10, SetMetaKeeps
<1> QED BY <1>1, <1>2, <1>3, <1>4, <1>5

\* Changes of a partial file.
LEMMA SetPartKeeps ==
  ASSUME PutMachine, UNCHANGED <<x, linked, typed, file>>,
         NEW f \in Files, disk' = [disk EXCEPT !.part[hlp.id] = f],
         f.mine, f.safe <= Len(f.data), f.safe = Len(f.data) \/ hlp'.pc \in {"ensure", "fail"},
         Part = None \/ (/\ f.safe >= Part.safe
                         /\ \A k \in 0 .. Part.safe : SubSeq(f.data, 1, k) = SubSeq(Part.data, 1, k)),
         hlp' \in Helpers(PutHelperPcs), hlp'.id = hlp.id,
         hlp.pc \notin {"prompt", "claim", "pumping", "fail"},
         hlp'.pc \notin {"prompt", "claim", "mkpart"},
         hlp'.phase = hlp.phase,
         hlp'.owned = hlp.owned /\ ~hlp.owned,
         PutLive', PutHeld', HelperStep'
  PROVE  PutMachine' /\ Grows
<1> USE DEF PutMachine
<1>0. hlp.id \in Ids /\ disk \in Disks
  BY DEF PutMachineTypes, Owned
<1>1. /\ disk' \in Disks /\ disk'.part[hlp.id] = f /\ disk.part[hlp.id] \in Files \cup {None}
      /\ disk'.meta = disk.meta /\ disk'.out = disk.out /\ disk'.target = disk.target
      /\ \A j \in Ids : j # hlp.id => disk'.part[j] = disk.part[j]
  BY <1>0, DiskUpdates
<1>2. OwnOuts' = OwnOuts /\ HasName' = HasName
  BY <1>1, SizeFacts DEF OwnOuts, HasName
<1>3. \A i \in Ids : Kept[i] \subseteq Kept'[i]
  <2>1. ASSUME NEW i \in Ids, NEW b \in Blocks, b \in Kept[i] PROVE b \in Kept'[i]
    <3>1. CASE /\ i = hlp.id /\ disk.part[i] # None /\ disk.part[i].safe >= Len(b)
               /\ SubSeq(disk.part[i].data, 1, Len(b)) = b
      <4>1. /\ disk.part[i].safe \in Nat /\ Len(b) \in Nat /\ f.safe \in Nat
        BY <1>1, <3>1 DEF Files, Blocks
      <4>2. /\ Len(b) \in 0 .. Part.safe /\ f.safe >= Part.safe
            /\ SubSeq(f.data, 1, Len(b)) = SubSeq(Part.data, 1, Len(b))
        BY <3>1, <4>1 DEF Part
      <4>3. /\ disk'.part[i] = f /\ f # None
            /\ Part.safe >= Len(b) /\ SubSeq(Part.data, 1, Len(b)) = b
        BY <1>1, <3>1, NoneAssumption DEF Part, Files
      <4>4. f.safe >= Len(b)
        <5> HIDE DEF PutMachine
        <5>1. Part.safe \in Nat
          BY <1>1, <3>1 DEF Part, Files
        <5> QED BY <4>1, <4>2, <4>3, <5>1
      <4>5. disk'.part[i] # None /\ disk'.part[i].safe >= Len(b)
            /\ SubSeq(disk'.part[i].data, 1, Len(b)) = b
        <5> HIDE DEF PutMachine
        <5> QED BY <4>2, <4>3, <4>4, Zenon
      <4> QED BY <4>5 DEF Kept
    <3> QED BY <1>0, <1>1, <1>2, <2>1, <3>1 DEF Kept
  <2>2. \A i \in Ids : Kept[i] \subseteq Blocks
    BY DEF Kept
  <2> QED BY <2>1, <2>2
<1>4. Prepared \subseteq Prepared'
  BY <1>0, <1>1, <1>2 DEF Prepared
<1>5. DiskSafe'
  <2>1. Twin' = Twin /\ Foreigns' = Foreigns
    BY <1>1, SizeFacts DEF Twin
  <2>2. \A i \in Ids : disk.part[i] # None /\ hlp.id # i =>
          disk.part[i].safe = Len(disk.part[i].data)
    BY DEF DiskSafe
  <2> HIDE DEF PutMachine
  <2>3. DiskSafe
    BY DEF PutMachine
  <2> QED BY <1>1, <1>2, <2>1, <2>2, <2>3 DEF DiskSafe
<1>6. ScratchKnown'
  BY <1>1, <1>2 DEF ScratchKnown
<1> QED BY <1>1, <1>2, <1>3, <1>4, <1>5, <1>6, DiskMove

LEMMA CreatePartKeeps ==
  ASSUME PutMachine, CreatePart
  PROVE  PutMachine' /\ Grows
<1> USE DEF PutMachine
<1>0. /\ UNCHANGED <<x, linked, typed, file>>
      /\ hlp \in Helpers(PutHelperPcs) /\ x \in Transfers /\ disk \in Disks
      /\ hlp.pc = "mkpart" /\ hlp.id \in Ids
      /\ Meta = "RECEIVING" /\ hlp.phase = "RECEIVING" /\ ~hlp.owned
      /\ hlp.crc = <<>> /\ hlp.acc = <<>>
  BY DEF CreatePart, KeepsResident, wireVars, PutMachineTypes, WireTypes, Owned, HelperStep, ScratchKnown
<1>1. CASE Part = None
  <2>1. Goto("ready") /\ disk' = [disk EXCEPT !.part[hlp.id] = File(<<>>, 0)]
    BY <1>1 DEF CreatePart
  <2>2. /\ hlp' \in Helpers(PutHelperPcs) /\ hlp'.pc = "ready" /\ hlp'.id = hlp.id
        /\ hlp'.crc = hlp.crc /\ hlp'.acc = hlp.acc /\ hlp'.phase = hlp.phase
        /\ hlp'.owned = hlp.owned
    <3>1. "ready" \in PutHelperPcs
      BY DEF PutHelperPcs
    <3> QED BY <1>0, <2>1, <3>1, MovesOn
  <2>3. /\ File(<<>>, 0) \in Files /\ File(<<>>, 0).mine /\ File(<<>>, 0).data = <<>>
        /\ File(<<>>, 0).safe = 0 /\ Len(<<>>) = 0
    BY StateNames DEF File, Files
  <2>4. PutLive'
    BY <1>0, <2>2 DEF PutLive, Publishing, Receiving, Whole, Size, Moving
  <2>5. PutHeld'
    BY <2>2 DEF PutHeld, Receiving
  <2>6. disk'.part[hlp.id] = File(<<>>, 0) /\ disk'.meta = disk.meta
    BY <1>0, <2>1, <2>3, DiskUpdates
  <2>7. HelperStep'
    BY <1>0, <2>2, <2>3, <2>6, NoneAssumption, SizeFacts
      DEF HelperStep, WireOpen, Receiving, Flushing, Meta, MetaFits, Part, Public
  <2> HIDE DEF PutMachine
  <2> QED BY <1>0, <1>1, <2>1, <2>2, <2>3, <2>4, <2>5, <2>7, SetPartKeeps
<1>2. CASE Part # None
  <2>1. /\ Goto("fail") /\ disk' = [disk EXCEPT !.meta[hlp.id] = None]
    BY <1>2 DEF CreatePart, Fails
  <2>2. /\ hlp' \in Helpers(PutHelperPcs) /\ hlp'.pc = "fail" /\ hlp'.id = hlp.id
        /\ hlp'.phase = hlp.phase /\ hlp'.owned = hlp.owned
    <3>1. "fail" \in PutHelperPcs
      BY DEF PutHelperPcs
    <3> QED BY <1>0, <2>1, <3>1, MovesOn
  <2>3. PutLive'
    BY <1>0, <2>2 DEF PutLive, Publishing, Receiving, Whole, Size, Moving
  <2>4. PutHeld'
    BY <2>2 DEF PutHeld, Receiving
  <2>5. HelperStep'
    BY <1>0, <2>2 DEF HelperStep, WireOpen, Receiving, Flushing
  <2>6. Meta \notin Public /\ None \notin {"DECODING"} \cup Public
    BY <1>0, NoneAssumption DEF Public, Phases, Rank
  <2> HIDE DEF PutMachine
  <2> QED BY <1>0, <2>1, <2>2, <2>3, <2>4, <2>5, <2>6, SetMetaKeeps
<1> QED BY <1>1, <1>2

\* What a window does to the partial file: behind what is ENSUREd it is
\* written anew.
LEMMA Extended ==
  ASSUME PutMachine, hlp.pc = "write", NEW a \in Blocks
  PROVE  LET f == File(SubSeq(Part.data, 1, Len(hlp.crc)) \o a, Part.safe) IN
         /\ Part \in Files /\ Part # None /\ Part.data = hlp.crc /\ Part.mine /\ Part.safe = Len(hlp.crc)
         /\ f \in Files /\ f.mine /\ f.safe = Part.safe /\ f.data = hlp.crc \o a
         /\ Len(f.data) = Len(hlp.crc) + Len(a) /\ f.safe <= Len(f.data)
         /\ \A k \in 0 .. Part.safe : SubSeq(f.data, 1, k) = SubSeq(Part.data, 1, k)
<1> USE DEF PutMachine
<1> DEFINE b == SubSeq(Part.data, 1, Len(hlp.crc)) \o a
           f == File(b, Part.safe)
<1>1. /\ hlp.id \in Ids /\ disk \in Disks /\ hlp.phase \notin Public /\ hlp.crc \in Blocks
  BY DEF PutMachineTypes, Owned, HelperStep, Flushing, Helpers
<1>2. Part # None /\ Part.data = hlp.crc /\ Part \in Files
  BY <1>1, DiskUpdates DEF HelperStep, WireOpen, Receiving, Part
<1>3. Part.mine /\ Part.safe = Len(hlp.crc) /\ Part.safe \in Nat /\ Len(hlp.crc) \in Nat
  BY <1>1, <1>2 DEF DiskSafe, Part, Files
<1>4. SubSeq(hlp.crc, 1, Len(hlp.crc)) = hlp.crc
  BY <1>1, <1>3, SubFacts
<1>5. b = hlp.crc \o a
  BY <1>2, <1>4
<1>6. b \in Blocks /\ Len(b) = Len(hlp.crc) + Len(a) /\ Len(a) \in Nat
  BY <1>1, <1>5, Appended
<1>7. \A k \in 0 .. Part.safe : SubSeq(b, 1, k) = SubSeq(Part.data, 1, k)
  <2>1. ASSUME NEW k \in 0 .. Len(hlp.crc)
        PROVE  SubSeq(SubSeq(hlp.crc, 1, Len(hlp.crc)) \o a, 1, k) = SubSeq(hlp.crc, 1, k)
    <3>1. Len(hlp.crc) \in 0 .. Len(hlp.crc)
      BY <1>3
    <3> QED BY <1>1, <3>1, Rewritten
  <2> QED BY <1>2, <1>3, <2>1
<1> HIDE DEF b
<1>8. f \in Files /\ f.mine /\ f.safe = Part.safe /\ f.data = b
  BY <1>3, <1>6 DEF File, Files
<1>9. /\ f.data = hlp.crc \o a /\ Len(f.data) = Len(hlp.crc) + Len(a) /\ f.safe <= Len(f.data)
      /\ \A k \in 0 .. Part.safe : SubSeq(f.data, 1, k) = SubSeq(Part.data, 1, k)
  BY <1>3, <1>5, <1>6, <1>7, <1>8
<1> HIDE DEF f
<1>10. /\ Part \in Files /\ Part # None /\ Part.data = hlp.crc /\ Part.mine /\ Part.safe = Len(hlp.crc)
       /\ f \in Files /\ f.mine /\ f.safe = Part.safe /\ f.data = hlp.crc \o a
       /\ Len(f.data) = Len(hlp.crc) + Len(a) /\ f.safe <= Len(f.data)
       /\ \A k \in 0 .. Part.safe : SubSeq(f.data, 1, k) = SubSeq(Part.data, 1, k)
  BY <1>2, <1>3, <1>8, <1>9
<1> QED BY <1>10 DEF f, b

LEMMA WriteKeeps ==
  ASSUME PutMachine, WriteWindow
  PROVE  PutMachine' /\ Grows
<1> USE DEF PutMachine
<1>0. /\ UNCHANGED <<x, linked, typed, file>>
      /\ hlp \in Helpers(PutHelperPcs) /\ x \in Transfers /\ disk \in Disks
      /\ hlp.pc = "write" /\ hlp.id \in Ids /\ ~hlp.owned /\ hlp.phase \notin Public
      /\ hlp.crc \in Blocks /\ hlp.acc \in Blocks /\ x.pending \in Blocks
  BY DEF WriteWindow, KeepsResident, wireVars, PutMachineTypes, WireTypes, Owned, HelperStep, ScratchKnown,
    Flushing, Helpers, Transfers
<1> DEFINE f == File(SubSeq(Part.data, 1, Len(hlp.crc)) \o hlp.acc, Part.safe)
<1>1. /\ Part # None /\ Part.data = hlp.crc /\ Part.mine /\ Part.safe = Len(hlp.crc)
      /\ f \in Files /\ f.mine /\ f.safe = Part.safe /\ f.data = hlp.crc \o hlp.acc
      /\ Len(f.data) = Len(hlp.crc) + Len(hlp.acc) /\ f.safe <= Len(f.data)
      /\ \A k \in 0 .. Part.safe : SubSeq(f.data, 1, k) = SubSeq(Part.data, 1, k)
  BY <1>0, Extended
<1>2. /\ disk' = [disk EXCEPT !.part[hlp.id] = f]
      /\ hlp' = [hlp EXCEPT !.pc = "ensure", !.crc = hlp.crc \o hlp.acc]
  BY <1>0 DEF WriteWindow
<1> HIDE DEF f
<1>3. /\ hlp' \in Helpers(PutHelperPcs) /\ hlp'.pc = "ensure" /\ hlp'.id = hlp.id
      /\ hlp'.crc = hlp.crc \o hlp.acc /\ hlp'.acc = hlp.acc /\ hlp'.phase = hlp.phase
      /\ hlp'.owned = hlp.owned
  <2>1. "ensure" \in PutHelperPcs /\ hlp.crc \o hlp.acc \in Blocks
    BY <1>0, Appended DEF PutHelperPcs, Receiving
  <2>2. hlp' \in Helpers(PutHelperPcs)
    BY <1>0, <1>2, <2>1, HelperUpdates
  <2> QED BY <1>0, <1>2, <2>2 DEF Helpers
<1>4. PutLive'
  BY <1>0, <1>3 DEF PutLive, Publishing, Receiving, Whole, Size, Moving
<1>5. PutHeld'
  BY <1>0, <1>3 DEF PutHeld, Receiving, Flushing, Held, Sound
<1>6. disk'.part[hlp.id] = f /\ disk'.meta = disk.meta /\ disk'.target = disk.target
  BY <1>0, <1>1, <1>2, DiskUpdates
<1>7. HelperStep'
  BY <1>0, <1>1, <1>3, <1>6, NoneAssumption
    DEF HelperStep, WireOpen, Receiving, Flushing, Meta, MetaFits, Part, Public, HasName, Whole, Size
<1>8. /\ f.safe = Len(f.data) \/ hlp'.pc \in {"ensure", "fail"}
      /\ f.safe >= Part.safe
  BY <1>0, <1>1, <1>3 DEF Files, Blocks
<1> HIDE DEF PutMachine
<1> QED BY <1>0, <1>1, <1>2, <1>3, <1>4, <1>5, <1>7, <1>8, SetPartKeeps

LEMMA EnsureKeeps ==
  ASSUME PutMachine, EnsureWindow
  PROVE  PutMachine' /\ Grows
<1> USE DEF PutMachine
<1>0. /\ UNCHANGED <<x, linked, typed, file>>
      /\ hlp \in Helpers(PutHelperPcs) /\ x \in Transfers /\ disk \in Disks
      /\ hlp.pc = "ensure" /\ hlp.id \in Ids /\ ~hlp.owned /\ hlp.phase \notin Public
  BY DEF EnsureWindow, KeepsResident, wireVars, PutMachineTypes, WireTypes, Owned, HelperStep, ScratchKnown,
    Flushing
<1> DEFINE f == [Part EXCEPT !.safe = Len(Part.data)]
<1>1. /\ Part # None /\ Part \in Files /\ Part.data = hlp.crc /\ Part.mine
      /\ Part.safe <= Len(Part.data)
  <2>1. Part # None /\ Part.data = hlp.crc
    BY <1>0 DEF HelperStep, WireOpen, Receiving
  <2>2. Part \in Files
    BY <1>0, <2>1, DiskUpdates DEF Part
  <2> QED BY <1>0, <2>1, <2>2 DEF DiskSafe, Part
<1>2. /\ f \in Files /\ f.mine /\ f.safe = Len(Part.data) /\ f.data = Part.data
  BY <1>1 DEF Files, Blocks
<1>3. disk' = [disk EXCEPT !.part[hlp.id] = f] /\ Goto("commit")
  BY <1>0 DEF EnsureWindow, Part, Disks
<1> HIDE DEF f
<1>4. /\ hlp' \in Helpers(PutHelperPcs) /\ hlp'.pc = "commit" /\ hlp'.id = hlp.id
      /\ hlp'.crc = hlp.crc /\ hlp'.acc = hlp.acc /\ hlp'.phase = hlp.phase
      /\ hlp'.owned = hlp.owned
  <2>1. "commit" \in PutHelperPcs
    BY DEF PutHelperPcs, Receiving
  <2> QED BY <1>0, <1>3, <2>1, MovesOn
<1>5. PutLive'
  BY <1>0, <1>4 DEF PutLive, Publishing, Receiving, Whole, Size, Moving
<1>6. PutHeld'
  BY <1>0, <1>4 DEF PutHeld, Receiving, Flushing, Held, Sound
<1>7. disk'.part[hlp.id] = f /\ disk'.meta = disk.meta /\ disk'.target = disk.target
  BY <1>0, <1>2, <1>3, DiskUpdates
<1>8. HelperStep'
  BY <1>0, <1>1, <1>2, <1>4, <1>7, NoneAssumption
    DEF HelperStep, WireOpen, Receiving, Flushing, Meta, MetaFits, Part, Public, HasName, Whole, Size
<1>9. /\ f.safe = Len(f.data) /\ f.safe <= Len(f.data) /\ f.safe >= Part.safe
      /\ \A k \in 0 .. Part.safe : SubSeq(f.data, 1, k) = SubSeq(Part.data, 1, k)
  BY <1>1, <1>2 DEF Files, Blocks
<1> HIDE DEF PutMachine
<1> QED BY <1>0, <1>2, <1>3, <1>4, <1>5, <1>6, <1>8, <1>9, SetPartKeeps

LEMMA FinalizeKeeps ==
  ASSUME PutMachine, Finalize
  PROVE  PutMachine' /\ Grows
<1> USE DEF PutMachine
<1>0. /\ UNCHANGED <<x, linked, typed, file>>
      /\ hlp \in Helpers(PutHelperPcs) /\ x \in Transfers /\ disk \in Disks
      /\ hlp.pc = "final" /\ hlp.id \in Ids /\ ~hlp.owned /\ hlp.phase \in Phases
  BY DEF Finalize, KeepsResident, wireVars, PutMachineTypes, WireTypes, Owned, ScratchKnown, Helpers
<1>1. CASE Fails /\ UNCHANGED disk
  BY <1>0, <1>1, FailsKeeps
<1>2. CASE hlp.crc = Whole /\ Goto("postprocess") /\ hlp.phase \in Public /\ UNCHANGED disk
  <2>1. /\ hlp'.pc = "postprocess" /\ hlp'.id = hlp.id
        /\ hlp'.crc = hlp.crc /\ hlp'.acc = hlp.acc /\ hlp'.phase = hlp.phase
        /\ "postprocess" \in PutHelperPcs
    BY <1>0, <1>2, MovesOn DEF PutHelperPcs
  <2>2. PutLive'
    BY <1>0, <2>1 DEF PutLive, Publishing, Receiving, Whole, Size, Moving
  <2>3. PutHeld'
    BY <2>1 DEF PutHeld, Receiving
  <2>4. HelperStep'
    BY <1>0, <1>2, <2>1 DEF HelperStep, WireOpen, Receiving, Flushing, Meta, MetaFits, Part, Public,
      HasName, Whole, Size
  <2> QED BY <1>0, <1>2, <2>1, <2>2, <2>3, <2>4, QuietGoto
<1>3. CASE /\ hlp.crc = Whole /\ Goto("postprocess") /\ hlp.phase \notin Public
           /\ disk' = [disk EXCEPT !.part[hlp.id].safe = Len(Part.data)]
  <2> DEFINE f == [Part EXCEPT !.safe = Len(Part.data)]
  <2>1. /\ Part # None /\ Part \in Files /\ Part.data = hlp.crc /\ Part.mine
        /\ Part.safe = Len(Part.data)
    <3>1. Part # None /\ Part.data = hlp.crc
      BY <1>0, <1>3 DEF HelperStep, WireOpen
    <3>2. Part \in Files
      BY <1>0, <3>1, DiskUpdates DEF Part
    <3> QED BY <1>0, <3>1, <3>2 DEF DiskSafe, Part
  <2>2. /\ f \in Files /\ f.mine /\ f.safe = Len(Part.data) /\ f.data = Part.data
    BY <2>1 DEF Files, Blocks
  <2>3. disk' = [disk EXCEPT !.part[hlp.id] = f]
    BY <1>0, <1>3 DEF Part, Disks
  <2> HIDE DEF f
  <2>4. /\ hlp' \in Helpers(PutHelperPcs) /\ hlp'.pc = "postprocess" /\ hlp'.id = hlp.id
        /\ hlp'.crc = hlp.crc /\ hlp'.acc = hlp.acc /\ hlp'.phase = hlp.phase
        /\ hlp'.owned = hlp.owned
    <3>1. "postprocess" \in PutHelperPcs
      BY DEF PutHelperPcs
    <3> QED BY <1>0, <1>3, <3>1, MovesOn
  <2>5. PutLive'
    BY <1>0, <2>4 DEF PutLive, Publishing, Receiving, Whole, Size, Moving
  <2>6. PutHeld'
    BY <2>4 DEF PutHeld, Receiving
  <2>7. disk'.part[hlp.id] = f /\ disk'.meta = disk.meta /\ disk'.target = disk.target
    BY <1>0, <2>2, <2>3, DiskUpdates
  <2>8. HelperStep'
    BY <1>0, <1>3, <2>1, <2>2, <2>4, <2>7, NoneAssumption
      DEF HelperStep, WireOpen, Receiving, Flushing, Meta, MetaFits, Part, Public, HasName, Whole, Size
  <2>9. /\ f.safe = Len(f.data) /\ f.safe <= Len(f.data) /\ f.safe >= Part.safe
        /\ \A k \in 0 .. Part.safe : SubSeq(f.data, 1, k) = SubSeq(Part.data, 1, k)
    BY <2>1, <2>2 DEF Files, Blocks
  <2> HIDE DEF PutMachine
  <2> QED BY <1>0, <2>2, <2>3, <2>4, <2>5, <2>6, <2>8, <2>9, SetPartKeeps
<1>4. Rank[hlp.phase] < Rank["PUBLISHING"] <=> hlp.phase \notin Public
  BY <1>0 DEF Rank, Public, Phases
<1> QED BY <1>1, <1>2, <1>3, <1>4 DEF Finalize

\* Changes of the scratch output, which no other program owns.
LEMMA SetOutKeeps ==
  ASSUME PutMachine, UNCHANGED <<x, linked, typed, file>>,
         NEW f \in Files \cup {None}, disk' = [disk EXCEPT !.out[hlp.id] = f],
         f # None => f.mine /\ f.safe = Len(f.data),
         hlp.id \in OwnOuts,
         hlp' \in Helpers(PutHelperPcs), hlp'.id = hlp.id,
         hlp.pc \notin {"prompt", "claim", "pumping", "mkpart", "ensure", "fail"},
         hlp'.pc \notin {"prompt", "claim", "mkpart"},
         hlp'.phase = hlp.phase, hlp'.owned => hlp'.pc = "decoding",
         PutLive', PutHeld', HelperStep'
  PROVE  PutMachine' /\ Grows
<1> USE DEF PutMachine
<1>0. hlp.id \in Ids /\ disk \in Disks
  BY DEF PutMachineTypes, Owned
<1>1. /\ disk' \in Disks /\ disk'.out[hlp.id] = f
      /\ disk'.meta = disk.meta /\ disk'.part = disk.part /\ disk'.target = disk.target
      /\ \A j \in Ids : j # hlp.id => disk'.out[j] = disk.out[j]
  BY <1>0, DiskUpdates
<1>2. f \notin Foreigns /\ Foreigns' = Foreigns /\ HasName' = HasName /\ Twin' = Twin
  <2>1. \A g \in Foreigns : ~g.mine
    BY DEF Foreigns
  <2> QED BY <1>1, <2>1, SizeFacts, ForeignFacts DEF HasName, Twin
<1>3. OwnOuts \subseteq OwnOuts' /\ hlp.id \in OwnOuts'
  BY <1>0, <1>1, <1>2 DEF OwnOuts
<1>4. \A i \in Ids : Kept[i] \subseteq Kept'[i]
  BY <1>1, <1>2 DEF Kept
<1>5. Prepared \subseteq Prepared'
  BY <1>1, <1>2, <1>3 DEF Prepared
<1>6. DiskSafe'
  <2> HIDE DEF PutMachine
  <2>1. DiskSafe
    BY DEF PutMachine
  <2>2. \A i \in Ids : disk.part[i] # None => disk.part[i].safe = Len(disk.part[i].data)
    BY <2>1 DEF DiskSafe
  <2> QED BY <1>1, <1>2, <2>1, <2>2 DEF DiskSafe
<1>7. ScratchKnown'
  <2>1. \A i \in Ids : disk'.meta[i] \in {"DECODING"} \cup Public => i \in OwnOuts'
    BY <1>1, <1>3 DEF ScratchKnown
  <2>2. Out' \notin Foreigns'
    BY <1>1, <1>2 DEF Out
  <2> QED BY <1>3, <2>1, <2>2 DEF ScratchKnown
<1> QED BY <1>1, <1>2, <1>3, <1>4, <1>5, <1>6, <1>7, DiskMove

LEMMA ScratchStepsKeep ==
  ASSUME PutMachine, DropScratch \/ CreateScratch \/ Decode
  PROVE  PutMachine' /\ Grows
<1> USE DEF PutMachine
<1>0. /\ UNCHANGED <<x, linked, typed, file>>
      /\ hlp \in Helpers(PutHelperPcs) /\ x \in Transfers /\ disk \in Disks
      /\ hlp.pc \in {"publish", "decode", "decoding"} /\ hlp.id \in Ids
      /\ hlp.phase = "DECODING" /\ file.packed /\ Meta = "DECODING" /\ hlp.id \in OwnOuts
      /\ {"decode", "decoding", "absent"} \subseteq PutHelperPcs
  BY DEF DropScratch, CreateScratch, Decode, KeepsResident, wireVars, PutMachineTypes, WireTypes, Owned,
    HelperStep, WireOpen, MetaFits, ScratchKnown, PutHelperPcs, Publishing
<1>1. CASE Fails /\ UNCHANGED disk
  BY <1>0, <1>1, FailsKeeps
<1>2. ASSUME NEW p \in {"decode", "decoding", "absent"}, NEW f \in Files \cup {None},
             disk' = [disk EXCEPT !.out[hlp.id] = f],
             f # None => f.mine /\ f.safe = Len(f.data),
             hlp' \in Helpers(PutHelperPcs), hlp'.id = hlp.id, hlp'.pc = p,
             hlp'.phase = hlp.phase, hlp'.owned <=> p = "decoding",
             p = "absent" => f # None /\ f.mine /\ f.data = Whole /\ f.safe = Size
      PROVE  PutMachine' /\ Grows
  <2>1. PutLive'
    BY <1>0, <1>2 DEF PutLive, Publishing, Receiving, Whole, Size, Moving
  <2>2. PutHeld'
    BY <1>2 DEF PutHeld, Receiving
  <2>3. disk'.meta = disk.meta /\ disk'.out[hlp.id] = f
    BY <1>0, <1>2, DiskUpdates
  <2>4. HelperStep'
    BY <1>0, <1>2, <2>3 DEF HelperStep, WireOpen, Receiving, Flushing, Meta, Out, Whole, Size
  <2> HIDE DEF PutMachine
  <2> QED BY <1>0, <1>2, <2>1, <2>2, <2>4, SetOutKeeps
<1>3. CASE DropScratch
  <2>1. Goto("decode") /\ disk' = [disk EXCEPT !.out[hlp.id] = None] /\ hlp.pc = "publish"
    BY <1>3 DEF DropScratch
  <2>2. /\ hlp' \in Helpers(PutHelperPcs) /\ hlp'.pc = "decode" /\ hlp'.id = hlp.id
        /\ hlp'.phase = hlp.phase /\ hlp'.owned = hlp.owned /\ ~hlp.owned
    BY <1>0, <2>1, MovesOn DEF ScratchKnown
  <2> QED BY <1>0, <1>2, <2>1, <2>2
<1>4. CASE CreateScratch /\ Out = None
  <2>1. /\ disk' = [disk EXCEPT !.out[hlp.id] = File(<<>>, 0)]
        /\ hlp' = [hlp EXCEPT !.pc = "decoding", !.owned = TRUE]
    BY <1>4 DEF CreateScratch
  <2>2. /\ hlp' \in Helpers(PutHelperPcs) /\ hlp'.pc = "decoding" /\ hlp'.id = hlp.id
        /\ hlp'.phase = hlp.phase /\ hlp'.owned
    BY <1>0, <2>1 DEF Helpers
  <2>3. /\ File(<<>>, 0) \in Files /\ File(<<>>, 0).mine /\ File(<<>>, 0).data = <<>>
        /\ File(<<>>, 0).safe = 0 /\ Len(<<>>) = 0
    BY StateNames DEF File, Files
  <2> QED BY <1>0, <1>2, <2>1, <2>2, <2>3
<1>5. CASE Decode /\ Complete(Part)
  <2>1. /\ disk' = [disk EXCEPT !.out[hlp.id] = File(Whole, Size)]
        /\ hlp' = [hlp EXCEPT !.pc = "absent", !.owned = FALSE]
    BY <1>5 DEF Decode
  <2>2. /\ hlp' \in Helpers(PutHelperPcs) /\ hlp'.pc = "absent" /\ hlp'.id = hlp.id
        /\ hlp'.phase = hlp.phase /\ ~hlp'.owned
    BY <1>0, <2>1 DEF Helpers
  <2>3. /\ File(Whole, Size) \in Files /\ File(Whole, Size).mine /\ File(Whole, Size).data = Whole
        /\ File(Whole, Size).safe = Size /\ Len(Whole) = Size
    BY SizeFacts DEF File, Files
  <2>4. File(Whole, Size) # None
    BY <2>3, NoneAssumption
  <2> QED BY <1>0, <1>2, <2>1, <2>2, <2>3, <2>4
<1> QED BY <1>1, <1>3, <1>4, <1>5 DEF DropScratch, CreateScratch, Decode

LEMMA CleanPartKeeps ==
  ASSUME PutMachine, CleanPart
  PROVE  PutMachine' /\ Grows
<1> USE DEF PutMachine
<1>0. /\ UNCHANGED <<x, linked, typed, file>>
      /\ hlp \in Helpers(PutHelperPcs) /\ x \in Transfers /\ disk \in Disks
      /\ hlp.pc = "clean" /\ hlp.id \in Ids /\ ~hlp.owned /\ HasName
      /\ hlp.phase = "PUBLISHED" /\ hlp.id \in OwnOuts /\ Goto("cleanmeta")
  BY DEF CleanPart, KeepsResident, wireVars, PutMachineTypes, WireTypes, Owned, ScratchKnown, HelperStep
<1> DEFINE o == IF file.packed THEN None ELSE disk.out[hlp.id]
<1>1. /\ disk' = [disk EXCEPT !.part[hlp.id] = None, !.out[hlp.id] = o]
      /\ o \in Files \cup {None}
  BY <1>0, DiskUpdates DEF CleanPart, Disks
<1> HIDE DEF o
<1>2. /\ disk' \in Disks /\ disk'.meta = disk.meta /\ disk'.target = disk.target
      /\ \A i \in Ids : disk'.part[i] = IF i = hlp.id THEN None ELSE disk.part[i]
      /\ \A i \in Ids : disk'.out[i] = IF i = hlp.id THEN o ELSE disk.out[i]
  BY <1>0, <1>1 DEF Disks
<1>3. /\ hlp' \in Helpers(PutHelperPcs) /\ hlp'.pc = "cleanmeta" /\ hlp'.id = hlp.id
      /\ hlp'.phase = hlp.phase /\ hlp'.owned = hlp.owned
  <2>1. "cleanmeta" \in PutHelperPcs
    BY DEF PutHelperPcs, Publishing
  <2> QED BY <1>0, <2>1, MovesOn
<1>4. HasName' /\ Foreigns' = Foreigns /\ Twin' = Twin /\ None \notin Foreigns
  BY <1>0, <1>2, SizeFacts, ForeignFacts DEF HasName, Twin
<1>5. OwnOuts \subseteq OwnOuts' /\ hlp.id \in OwnOuts'
  BY <1>0, <1>2, <1>4 DEF OwnOuts, o
<1>6. \A i \in Ids : Kept[i] \subseteq Kept'[i]
  BY <1>4 DEF Kept
<1>7. Prepared \subseteq Prepared'
  BY <1>0, <1>2, <1>3, <1>4, <1>5 DEF Prepared
<1>8. DiskSafe'
  <2>1. \A i \in Ids : disk.part[i] # None => disk.part[i].safe = Len(disk.part[i].data)
    BY <1>0 DEF DiskSafe
  <2>2. \A i \in Ids : disk'.out[i] # None => disk'.out[i] = disk.out[i]
    BY <1>2 DEF o
  <2>3. DiskSafe
    OBVIOUS
  <2> HIDE DEF PutMachine
  <2> QED BY <1>2, <1>4, <2>1, <2>2, <2>3 DEF DiskSafe
<1>9. ScratchKnown'
  <2>1. \A i \in Ids : disk'.meta[i] \in {"DECODING"} \cup Public => i \in OwnOuts'
    BY <1>2, <1>5 DEF ScratchKnown
  <2> QED BY <1>0, <1>3, <1>5, <2>1 DEF ScratchKnown
<1>10. PutLive'
  BY <1>0, <1>3 DEF PutLive, Publishing, Receiving, Whole, Size, Moving
<1>11. PutHeld'
  BY <1>3 DEF PutHeld, Receiving
<1>12. HelperStep'
  BY <1>0, <1>2, <1>3, <1>4 DEF HelperStep, WireOpen, Receiving, Flushing, Out, o
<1> QED BY <1>0, <1>2, <1>3, <1>4, <1>5, <1>6, <1>7, <1>8, <1>9, <1>10, <1>11, <1>12, DiskMove

\* The publication: from here on the name holds the whole file.
LEMMA RenameKeeps ==
  ASSUME PutMachine, Rename
  PROVE  PutMachine' /\ Grows
<1> USE DEF PutMachine
<1>0. /\ UNCHANGED <<x, linked, typed, file>>
      /\ hlp \in Helpers(PutHelperPcs) /\ x \in Transfers /\ disk \in Disks
      /\ hlp.pc = "rename" /\ hlp.id \in Ids /\ ~hlp.owned /\ SourceReady
      /\ hlp.phase = "PUBLISHING" /\ Meta = "PUBLISHING" /\ hlp.id \in OwnOuts
  BY DEF Rename, KeepsResident, wireVars, PutMachineTypes, WireTypes, Owned, ScratchKnown, HelperStep
<1> DEFINE o == IF file.packed THEN None ELSE disk.out[hlp.id]
           p == IF file.packed THEN disk.part[hlp.id] ELSE None
<1>1. /\ disk' = [disk EXCEPT !.target = PublishSource, !.out[hlp.id] = o, !.part[hlp.id] = p]
      /\ o \in Files \cup {None} /\ p \in Files \cup {None} /\ PublishSource \in Files
      /\ Goto("marked")
  BY <1>0, DiskUpdates DEF Rename, SourceReady, PublishSource, Out, Part, Disks
<1> HIDE DEF o, p
<1>2. /\ disk' \in Disks /\ disk'.meta = disk.meta /\ disk'.target = PublishSource
      /\ \A i \in Ids : disk'.part[i] = IF i = hlp.id THEN p ELSE disk.part[i]
      /\ \A i \in Ids : disk'.out[i] = IF i = hlp.id THEN o ELSE disk.out[i]
  BY <1>0, <1>1 DEF Disks
<1>3. /\ hlp' \in Helpers(PutHelperPcs) /\ hlp'.pc = "marked" /\ hlp'.id = hlp.id
      /\ hlp'.phase = hlp.phase /\ hlp'.owned = hlp.owned
  <2>1. "marked" \in PutHelperPcs
    BY DEF PutHelperPcs, Publishing
  <2> QED BY <1>0, <1>1, <2>1, MovesOn
<1>4. HasName' /\ ~Twin' /\ Foreigns' = Foreigns /\ None \notin Foreigns
  BY <1>0, <1>2, SizeFacts, ForeignFacts DEF HasName, Twin, SourceReady
<1>5. OwnOuts \subseteq OwnOuts' /\ hlp.id \in OwnOuts'
  BY <1>0, <1>2, <1>4 DEF OwnOuts, o
<1>6. \A i \in Ids : Kept[i] \subseteq Kept'[i]
  BY <1>4 DEF Kept
<1>7. Prepared \subseteq Prepared'
  BY <1>0, <1>2, <1>3, <1>4, <1>5 DEF Prepared
<1>8. DiskSafe'
  <2>1. \A i \in Ids : disk.part[i] # None => disk.part[i].safe = Len(disk.part[i].data)
    BY <1>0 DEF DiskSafe
  <2>2. /\ \A i \in Ids : disk'.out[i] # None => disk'.out[i] = disk.out[i]
        /\ \A i \in Ids : disk'.part[i] # None => disk'.part[i] = disk.part[i]
    BY <1>2 DEF o, p
  <2>3. DiskSafe
    OBVIOUS
  <2> HIDE DEF PutMachine
  <2> QED BY <1>2, <1>4, <2>1, <2>2, <2>3 DEF DiskSafe
<1>9. ScratchKnown'
  <2>1. \A i \in Ids : disk'.meta[i] \in {"DECODING"} \cup Public => i \in OwnOuts'
    BY <1>2, <1>5 DEF ScratchKnown
  <2> QED BY <1>0, <1>3, <1>5, <2>1 DEF ScratchKnown
<1>10. PutLive'
  BY <1>0, <1>3 DEF PutLive, Publishing, Receiving, Whole, Size, Moving
<1>11. PutHeld'
  BY <1>3 DEF PutHeld, Receiving
<1>12. HelperStep'
  BY <1>0, <1>2, <1>3, <1>4 DEF HelperStep, WireOpen, Receiving, Flushing, Meta
<1> QED BY <1>0, <1>2, <1>3, <1>4, <1>5, <1>6, <1>7, <1>8, <1>9, <1>10, <1>11, <1>12, DiskMove

\* A DOS call that fails, a WRITE half way.
LEMMA DosErrorKeeps ==
  ASSUME PutMachine, DosError
  PROVE  PutMachine' /\ Grows
<1> USE DEF PutMachine
<1>0. /\ UNCHANGED <<x, linked, typed, file>>
      /\ hlp \in Helpers(PutHelperPcs) /\ hlp.pc \in CallsDos /\ hlp.id \in Ids
      /\ disk \in Disks /\ Fails
  BY DEF DosError, PutMachineTypes, WireTypes, Owned, CallsDos
<1>1. CASE UNCHANGED disk
  BY <1>0, <1>1, FailsKeeps DEF CallsDos
<1>2. CASE hlp.pc = "write" /\ \E k \in 1 .. Len(hlp.acc) :
             disk' = [disk EXCEPT !.part[hlp.id].data =
                        SubSeq(@, 1, Len(hlp.crc)) \o SubSeq(hlp.acc, 1, k)]
  <2>1. PICK k \in 1 .. Len(hlp.acc) :
          disk' = [disk EXCEPT !.part[hlp.id].data =
                     SubSeq(@, 1, Len(hlp.crc)) \o SubSeq(hlp.acc, 1, k)]
    BY <1>2
  <2> DEFINE a == SubSeq(hlp.acc, 1, k)
             f == File(SubSeq(Part.data, 1, Len(hlp.crc)) \o a, Part.safe)
  <2>2. hlp.acc \in Blocks /\ a \in Blocks
    <3>1. hlp.acc \in Blocks
      BY <1>0 DEF Helpers
    <3>2. k \in 0 .. Len(hlp.acc)
      BY <3>1 DEF Blocks
    <3> QED BY <3>1, <3>2, SubFacts
  <2> HIDE DEF a
  <2>3. /\ Part \in Files /\ Part # None /\ Part.mine
        /\ f \in Files /\ f.mine /\ f.safe = Part.safe
        /\ f.safe <= Len(f.data)
        /\ \A j \in 0 .. Part.safe : SubSeq(f.data, 1, j) = SubSeq(Part.data, 1, j)
    BY <1>2, <2>2, Extended
  <2>4. disk' = [disk EXCEPT !.part[hlp.id] = f]
    <3>1. [Part EXCEPT !.data = SubSeq(Part.data, 1, Len(hlp.crc)) \o a] = f
      <4> DEFINE d == SubSeq(Part.data, 1, Len(hlp.crc)) \o a
                 g == [Part EXCEPT !.data = d]
      <4>1. f.data = d /\ d \in Blocks /\ Part.mine = TRUE /\ f.mine = TRUE
        BY <2>3 DEF File, Files
      <4> HIDE DEF d
      <4>2. g \in Files /\ g.data = d /\ g.safe = Part.safe /\ g.mine = TRUE
        BY <2>3, <4>1 DEF Files
      <4> HIDE DEF f, g
      <4>3. g = f
        BY <2>3, <4>1, <4>2 DEF Files
      <4> QED BY <4>3 DEF g, d
    <3>2. disk' = [disk EXCEPT !.part[hlp.id] =
                     [Part EXCEPT !.data = SubSeq(Part.data, 1, Len(hlp.crc)) \o a]]
      BY <1>0, <2>1 DEF Part, Disks, a
    <3> QED BY <3>1, <3>2
  <2> HIDE DEF f
  <2>5. /\ hlp' \in Helpers(PutHelperPcs) /\ hlp'.pc = "fail" /\ hlp'.id = hlp.id
        /\ hlp'.phase = hlp.phase /\ hlp'.owned = hlp.owned /\ ~hlp.owned
    <3>1. "fail" \in PutHelperPcs
      BY DEF PutHelperPcs
    <3> QED BY <1>0, <1>2, <3>1, MovesOn DEF Fails, ScratchKnown
  <2>6. PutLive'
    BY <1>0, <1>2, <2>5 DEF PutLive, Publishing, Receiving, Whole, Size, Moving
  <2>7. PutHeld'
    BY <2>5 DEF PutHeld, Receiving
  <2>8. HelperStep'
    BY <2>5, <1>0 DEF HelperStep, WireOpen, Receiving, Flushing
  <2>9. f.safe >= Part.safe
    BY <2>3 DEF Files
  <2> HIDE DEF PutMachine
  <2> QED BY <1>0, <1>2, <2>3, <2>4, <2>5, <2>6, <2>7, <2>8, <2>9, SetPartKeeps
<1> QED BY <1>1, <1>2 DEF DosError

\* Every step of the helper, and every DOS error.
LEMMA HelperKeeps ==
  ASSUME PutMachine, HelperSteps \/ DosError \/ TimesOut(NoBlockComes)
  PROVE  PutMachine' /\ Grows
<1> USE DEF PutMachine
<1>0. ~file.get /\ hlp.pc \in PutHelperPcs
  BY DEF PutMachineTypes, Helpers
<1>1. ~GetHelperSteps
  BY <1>0 DEF GetHelperSteps, ScanSource, ReadySource, Refill, PublishBlock, PollGet, PutHelperPcs,
    Receiving, Publishing
<1>2. CASE PutHelperSteps
  <2> HIDE DEF PutMachine
  <2> QED BY <1>2, PrepareKeeps, SidecarStepsKeep, CreatePartKeeps, ReadyKeeps, PollKeeps, ReleaseKeeps,
        WriteKeeps, EnsureKeeps, CommitKeeps, FinalizeKeeps, ScratchStepsKeep, PublishingMovesKeep,
        RenameKeeps, CleanPartKeeps DEF PutHelperSteps
<1>3. CASE Start \/ Claim \/ EnterPump \/ LeavePump \/ Postprocess \/ Finish \/ Fail
  <2> HIDE DEF PutMachine
  <2> QED BY <1>3, StartKeeps, ClaimKeeps, PumpKeeps, PostprocessKeeps, FinishKeeps, FailKeeps
<1>4. CASE DosError
  <2> HIDE DEF PutMachine
  <2> QED BY <1>4, DosErrorKeeps
<1>5. CASE TimesOut(NoBlockComes)
  <2>1. Fails /\ UNCHANGED <<x, disk, linked, typed, file>> /\ hlp.pc = "poll"
    BY <1>5 DEF TimesOut
  <2> HIDE DEF PutMachine
  <2> QED BY <2>1, FailsKeeps
<1> QED BY <1>1, <1>2, <1>3, <1>4, <1>5 DEF HelperSteps

----------------------------------------------------------------------------
(* PUT: the machine stops, and other programs. *)

LEMMA RemainsFacts ==
  ASSUME NEW f \in Files, f.safe <= Len(f.data), NEW r \in Remains(f)
  PROVE  /\ r \in Files /\ r.mine = f.mine /\ r.safe = Len(r.data) /\ r.safe >= f.safe
         /\ \A j \in 0 .. f.safe : SubSeq(r.data, 1, j) = SubSeq(f.data, 1, j)
         /\ f.safe = Len(f.data) => r = f
<1>0. /\ f # None /\ f.data \in Blocks /\ f.safe \in Nat /\ Len(f.data) \in Nat
      /\ f.mine \in BOOLEAN
  BY NoneAssumption DEF Files, Blocks
<1>1. CASE \E k \in f.safe .. Len(f.data) :
             r = [f EXCEPT !.data = SubSeq(f.data, 1, k), !.safe = k]
  <2>1. PICK k \in f.safe .. Len(f.data) :
          r = [f EXCEPT !.data = SubSeq(f.data, 1, k), !.safe = k]
    BY <1>1
  <2> DEFINE b == SubSeq(f.data, 1, k)
  <2>2. k \in Nat /\ k \in 0 .. Len(f.data)
    BY <1>0
  <2>3. b \in Blocks /\ Len(b) = k /\ (k = Len(f.data) => b = f.data)
    BY <1>0, <2>2, SubFacts
  <2>4. \A j \in 0 .. f.safe : SubSeq(b, 1, j) = SubSeq(f.data, 1, j)
    <3>1. ASSUME NEW j \in 0 .. f.safe
          PROVE  SubSeq(SubSeq(f.data, 1, k) \o <<>>, 1, j) = SubSeq(f.data, 1, j)
      <4>1. j \in 0 .. k
        BY <1>0, <2>2
      <4> QED BY <1>0, <2>2, <4>1, Rewritten, StateNames
    <3>2. b \o <<>> = b
      BY <2>3, Appended
    <3> QED BY <3>1, <3>2
  <2> HIDE DEF b
  <2>5. r = [f EXCEPT !.data = b, !.safe = k]
    BY <2>1 DEF b
  <2>6. r \in Files /\ r.mine = f.mine /\ r.data = b /\ r.safe = k
    BY <2>2, <2>3, <2>5 DEF Files
  <2>7. f.safe = Len(f.data) => r = f
    BY <1>0, <2>3, <2>6 DEF Files
  <2> QED BY <1>0, <2>3, <2>4, <2>6, <2>7
<1>2. CASE \E k \in (f.safe + 1) .. Len(f.data) :
             r = [f EXCEPT !.data = SubSeq(f.data, 1, k - 1) \o <<0>>, !.safe = k]
  <2>1. PICK k \in (f.safe + 1) .. Len(f.data) :
          r = [f EXCEPT !.data = SubSeq(f.data, 1, k - 1) \o <<0>>, !.safe = k]
    BY <1>2
  <2> DEFINE b == SubSeq(f.data, 1, k - 1) \o <<0>>
  <2>2. k \in Nat /\ k - 1 \in 0 .. Len(f.data)
    BY <1>0
  <2>a. <<0>> \in Blocks /\ Len(<<0>>) = 1
    BY DEF Blocks
  <2>3. b \in Blocks /\ Len(b) = k
        /\ \A j \in 0 .. f.safe : SubSeq(b, 1, j) = SubSeq(f.data, 1, j)
    <3>1. ASSUME NEW j \in 0 .. k - 1
          PROVE  /\ b \in Blocks /\ Len(b) = (k - 1) + Len(<<0>>)
                 /\ SubSeq(b, 1, j) = SubSeq(f.data, 1, j)
      BY <1>0, <2>2, <2>a, Rewritten
    <3>2. 0 .. f.safe \subseteq 0 .. k - 1 /\ 0 \in 0 .. k - 1
      BY <1>0, <2>2
    <3>3. b \in Blocks /\ Len(b) = (k - 1) + Len(<<0>>)
      BY <3>1, <3>2
    <3>4. Len(b) = k
      BY <2>2, <2>a, <3>3
    <3> HIDE DEF b
    <3> QED BY <3>1, <3>2, <3>3, <3>4
  <2> HIDE DEF b
  <2>5. r = [f EXCEPT !.data = b, !.safe = k]
    BY <2>1 DEF b
  <2>6. r \in Files /\ r.mine = f.mine /\ r.data = b /\ r.safe = k
    BY <2>2, <2>3, <2>5 DEF Files
  <2>7. f.safe # Len(f.data) /\ r.safe >= f.safe
    BY <1>0, <2>1, <2>6
  <2> QED BY <2>3, <2>6, <2>7
<1> QED BY <1>0, <1>1, <1>2 DEF Remains

\* What was closed or ENSUREd is as it was; the sidecar may be torn.
LEMMA ResetDisk ==
  ASSUME PutMachine, Reset
  PROVE  /\ disk' \in Disks /\ disk'.out = disk.out /\ disk'.target = disk.target
         /\ \A i \in Ids : disk.part[i] = None => disk'.part[i] = None
         /\ \A i \in Ids : disk.part[i] # None =>
              /\ disk'.part[i] # None /\ disk'.part[i].mine
              /\ disk'.part[i].safe = Len(disk'.part[i].data)
              /\ disk'.part[i].safe >= disk.part[i].safe
              /\ \A j \in 0 .. disk.part[i].safe :
                   SubSeq(disk'.part[i].data, 1, j) = SubSeq(disk.part[i].data, 1, j)
         /\ \A i \in Ids : \/ disk'.meta[i] = disk.meta[i]
                           \/ i = hlp.id /\ hlp.pc # "prompt" /\ TearsMeta /\ disk'.meta[i] = "TORN"
<1> USE DEF PutMachine
<1>0. /\ x' = IdleTransfer /\ hlp' = AtPrompt /\ typed' = None /\ linked' = FALSE /\ file' = file
      /\ disk \in Disks /\ hlp.phase \in Phases /\ (hlp.pc # "prompt" => hlp.id \in Ids)
  BY DEF Reset, PowerLoss, PutMachineTypes, Owned, Helpers
<1>1. CASE hlp.pc = "prompt"
  <2>1. disk' = disk
    BY <1>1 DEF Reset, PowerLoss
  <2>2. \A i \in Ids : disk.part[i] # None =>
          disk.part[i].mine /\ disk.part[i].safe = Len(disk.part[i].data)
          /\ disk.part[i] \in Files
    BY <1>0, <1>1 DEF DiskSafe, Disks
  <2>3. \A i \in Ids : disk.part[i] # None => disk.part[i].safe >= disk.part[i].safe
    BY <2>2 DEF Files
  <2> QED BY <1>0, <2>1, <2>2, <2>3
<1>2. CASE hlp.pc # "prompt"
  <2>1. PICK part \in Remains(Part), out \in Remains(Out), target \in Remains(disk.target),
             meta \in {Meta} \cup (IF TearsMeta THEN {"TORN"} ELSE {}) :
          disk' = [disk EXCEPT !.part[hlp.id] = part, !.out[hlp.id] = out, !.target = target,
                     !.meta[hlp.id] = meta]
    BY <1>2 DEF Reset, PowerLoss
  <2>2. target = disk.target
    <3>1. CASE disk.target = None
      BY <2>1, <3>1 DEF Remains
    <3>2. CASE disk.target # None
      <4>1. disk.target \in Files /\ disk.target.safe = Len(disk.target.data)
        <5>1. disk.target \in Files
          BY <1>0, <3>2 DEF Disks
        <5>2. CASE HasName
          BY <5>1, <5>2, SizeFacts DEF HasName
        <5>3. CASE disk.target \in Foreigns
          <6>1. PICK d \in {<<Size + 1>>, Whole} :
                  disk.target = [data |-> d, safe |-> Len(d), mine |-> FALSE]
            BY <5>3 DEF Foreigns
          <6> QED BY <5>1, <6>1
        <5> QED BY <3>2, <5>1, <5>2, <5>3 DEF DiskSafe
      <4>2. disk.target.safe <= Len(disk.target.data)
        BY <4>1 DEF Files
      <4> QED BY <2>1, <4>1, <4>2, RemainsFacts
    <3> QED BY <3>1, <3>2
  <2>3. out = Out /\ Out \in Files \cup {None}
    <3>0. Out \in Files \cup {None}
      BY <1>0, <1>2, DiskUpdates DEF Out
    <3>1. CASE Out = None
      BY <2>1, <3>0, <3>1 DEF Remains
    <3>2. CASE Out # None
      <4>1. Out \in Files /\ Out.safe = Len(Out.data)
        BY <1>0, <1>2, <3>0, <3>2 DEF DiskSafe, Out
      <4>2. Out.safe <= Len(Out.data)
        BY <4>1 DEF Files
      <4> QED BY <2>1, <3>0, <4>1, <4>2, RemainsFacts
    <3> QED BY <3>1, <3>2
  <2>4. /\ Part = None => part = None
        /\ Part # None =>
             /\ part \in Files /\ part.mine /\ part.safe = Len(part.data)
             /\ part.safe >= Part.safe
             /\ \A j \in 0 .. Part.safe : SubSeq(part.data, 1, j) = SubSeq(Part.data, 1, j)
    <3>1. Part = None => part = None
      BY <2>1 DEF Remains
    <3>2. ASSUME Part # None
          PROVE  Part \in Files /\ Part.mine /\ Part.safe <= Len(Part.data)
      BY <1>0, <1>2, <3>2, DiskUpdates DEF DiskSafe, Part
    <3> QED BY <2>1, <3>1, <3>2, RemainsFacts
  <2>5. part \in Files \cup {None} /\ meta \in Phases \cup {None, "TORN"}
    BY <1>0, <1>2, <2>1, <2>4, DiskUpdates DEF Meta
  <2>6. /\ disk' \in Disks /\ disk'.target = disk.target
        /\ disk'.out = [disk.out EXCEPT ![hlp.id] = out]
        /\ disk'.part = [disk.part EXCEPT ![hlp.id] = part]
        /\ disk'.meta = [disk.meta EXCEPT ![hlp.id] = meta]
    BY <1>0, <1>2, <2>1, <2>2, <2>3, <2>5 DEF Disks
  <2>7. disk'.out = disk.out
    BY <1>0, <1>2, <2>3, <2>6 DEF Out, Disks
  <2>8. /\ \A i \in Ids : disk'.part[i] = IF i = hlp.id THEN part ELSE disk.part[i]
        /\ \A i \in Ids : disk'.meta[i] = IF i = hlp.id THEN meta ELSE disk.meta[i]
    BY <1>0, <1>2, <2>6 DEF Disks
  <2>9. \A i \in Ids : i # hlp.id /\ disk.part[i] # None =>
          /\ disk.part[i].mine /\ disk.part[i].safe = Len(disk.part[i].data)
          /\ disk.part[i].safe >= disk.part[i].safe
    BY <1>0 DEF DiskSafe, Disks, Files
  <2>10. \A i \in Ids : disk.part[i] # None =>
         /\ disk'.part[i] # None /\ disk'.part[i].mine
         /\ disk'.part[i].safe = Len(disk'.part[i].data)
         /\ disk'.part[i].safe >= disk.part[i].safe
         /\ \A j \in 0 .. disk.part[i].safe :
              SubSeq(disk'.part[i].data, 1, j) = SubSeq(disk.part[i].data, 1, j)
    BY <2>4, <2>8, <2>9, NoneAssumption DEF Part
  <2> QED BY <1>2, <2>1, <2>4, <2>6, <2>7, <2>8, <2>10 DEF Part, Meta
<1> QED BY <1>1, <1>2

LEMMA ResetKeeps ==
  ASSUME PutMachine, Reset
  PROVE  PutMachine' /\ Grows
<1> USE DEF PutMachine
<1>0. /\ x' = IdleTransfer /\ hlp' = AtPrompt /\ typed' = None /\ linked' = FALSE /\ file' = file
      /\ disk \in Disks /\ hlp.phase \in Phases /\ (hlp.pc # "prompt" => hlp.id \in Ids)
  BY DEF Reset, PowerLoss, PutMachineTypes, Owned, Helpers
<1>1. /\ x' \in Transfers /\ x'.state = "IDLE" /\ x'.accepted = 0 /\ x'.durable = 0 /\ x'.from = 0
      /\ x'.prefix = <<>> /\ x'.pending = <<>> /\ ~x'.close /\ ~x'.pump /\ ~x'.replay
      /\ hlp' \in Helpers(PutHelperPcs) /\ hlp'.pc = "prompt" /\ hlp'.phase = "RECEIVING" /\ ~hlp'.owned
      /\ hlp'.id = None
  <2>1. "prompt" \in PutHelperPcs
    BY DEF PutHelperPcs
  <2> QED BY <1>0, <2>1, Idles DEF IdleTransfer, AtPrompt
<1>2. /\ disk' \in Disks /\ disk'.out = disk.out /\ disk'.target = disk.target
      /\ \A i \in Ids : disk.part[i] = None => disk'.part[i] = None
      /\ \A i \in Ids : disk.part[i] # None =>
           /\ disk'.part[i] # None /\ disk'.part[i].mine
           /\ disk'.part[i].safe = Len(disk'.part[i].data)
           /\ disk'.part[i].safe >= disk.part[i].safe
           /\ \A j \in 0 .. disk.part[i].safe :
                SubSeq(disk'.part[i].data, 1, j) = SubSeq(disk.part[i].data, 1, j)
      /\ \A i \in Ids : \/ disk'.meta[i] = disk.meta[i]
                        \/ i = hlp.id /\ hlp.pc # "prompt" /\ TearsMeta /\ disk'.meta[i] = "TORN"
  BY ResetDisk
<1>3. HasName' = HasName /\ Twin' = Twin /\ Foreigns' = Foreigns /\ OwnOuts' = OwnOuts
  BY <1>0, <1>2, SizeFacts DEF HasName, Twin, OwnOuts
<1>4. \A i \in Ids : disk.meta[i] \in Public => disk'.meta[i] \in Public \/ HasName
  <2>1. ASSUME hlp.pc # "prompt", TearsMeta, Meta \in Public PROVE HasName
    BY <2>1, NoneAssumption DEF TearsMeta, HelperStep, WireOpen, MetaFits, Public, Phases, Rank
  <2> QED BY <1>2, <2>1 DEF Meta
<1>5. \A i \in Ids : Kept[i] \subseteq Kept'[i]
  <2>1. ASSUME NEW i \in Ids, NEW b \in Blocks, b \in Kept[i] PROVE b \in Kept'[i]
    <3>1. CASE /\ disk.part[i] # None /\ disk.part[i].safe >= Len(b)
               /\ SubSeq(disk.part[i].data, 1, Len(b)) = b
      <4>1. disk'.part[i].safe \in Nat /\ disk.part[i].safe \in Nat /\ Len(b) \in Nat
        BY <1>0, <1>2, <3>1 DEF Disks, Files, Blocks
      <4>2. Len(b) \in 0 .. disk.part[i].safe
        BY <3>1, <4>1
      <4>3. /\ disk'.part[i] # None /\ disk'.part[i].safe >= disk.part[i].safe
            /\ SubSeq(disk'.part[i].data, 1, Len(b)) = SubSeq(disk.part[i].data, 1, Len(b))
        BY <1>2, <3>1, <4>2
      <4>4. disk'.part[i].safe >= Len(b)
        BY <3>1, <4>1, <4>3
      <4> QED BY <3>1, <4>3, <4>4 DEF Kept
    <3> QED BY <1>3, <1>4, <2>1, <3>1 DEF Kept
  <2>2. \A i \in Ids : Kept[i] \subseteq Blocks
    BY DEF Kept
  <2> QED BY <2>1, <2>2
<1>6. Prepared \subseteq Prepared'
  BY <1>1, <1>2, <1>3, NoneAssumption DEF Prepared
<1>7. Grows
  BY <1>1, <1>3, <1>5, <1>6, PrefixFacts DEF Grows, Past, Sound
<1>8. PutMachineTypes'
  BY <1>0, <1>1, <1>2 DEF PutMachineTypes, WireTypes
<1>9. Owned'
  BY <1>0, <1>1 DEF Owned
<1>10. PutLive'
  BY <1>1 DEF PutLive, Publishing, Receiving, Moving
<1>11. PutHeld'
  BY <1>1 DEF PutHeld, Receiving
<1>12. DiskSafe'
  <2>1. DiskSafe
    OBVIOUS
  <2>2. \A i \in Ids : disk'.part[i] # None =>
          /\ disk'.part[i].mine /\ disk'.part[i].safe = Len(disk'.part[i].data)
          /\ disk'.part[i].safe <= Len(disk'.part[i].data)
    BY <1>2 DEF Disks, Files
  <2>3. \A i \in Ids : disk'.meta[i] \in Public => disk.meta[i] \in Public
    BY <1>2 DEF Public
  <2> HIDE DEF PutMachine
  <2> QED BY <1>2, <1>3, <2>1, <2>2, <2>3 DEF DiskSafe
<1>13. ScratchKnown'
  BY <1>1, <1>2, <1>3 DEF ScratchKnown, Public
<1>14. HelperStep'
  BY <1>1 DEF HelperStep, WireOpen, Receiving, Flushing
<1>15. PutResidentFits'
  BY <1>1 DEF PutResidentFits, Readied0, Moving
<1> QED BY <1>7, <1>8, <1>9, <1>10, <1>11, <1>12, <1>13, <1>14, <1>15

LEMMA IntrudeKeeps ==
  ASSUME PutMachine, Intrude
  PROVE  PutMachine' /\ Grows
<1> USE DEF PutMachine
<1>0. /\ UNCHANGED <<x, hlp, linked, typed, file>> /\ hlp.pc = "prompt" /\ disk.target = None
      /\ disk \in Disks
  BY DEF Intrude, IntrudeTarget, ChangeSource, IntrudeDest, PutMachineTypes
<1>1. PICK f \in Foreigns : f.data # Whole /\ disk' = [disk EXCEPT !.target = f]
  BY DEF Intrude, IntrudeTarget, ChangeSource, IntrudeDest, PutMachineTypes
<1>2. /\ disk' \in Disks /\ disk'.target = f /\ disk'.meta = disk.meta /\ disk'.part = disk.part
      /\ disk'.out = disk.out /\ f # None
  <2>1. f \in Files
    BY ForeignFacts
  <2> QED BY <1>0, <1>1, <2>1, ForeignFacts DEF Disks
<1>3. /\ ~HasName /\ ~HasName' /\ ~Twin' /\ Foreigns' = Foreigns /\ OwnOuts' = OwnOuts
  BY <1>0, <1>1, <1>2, SizeFacts DEF HasName, Twin, OwnOuts
<1>4. Grows
  BY <1>0, <1>2, <1>3 DEF Grows, Past, Sound, Kept, Prepared
<1>5. PutMachineTypes'
  BY <1>0, <1>2 DEF PutMachineTypes, WireTypes
<1>6. Owned' /\ PutHeld'
  BY <1>0 DEF Owned, PutHeld, Receiving
<1>7. PutLive'
  BY <1>0 DEF PutLive, Publishing, Receiving, Moving, Whole, Size
<1>8. DiskSafe'
  <2>1. DiskSafe
    OBVIOUS
  <2> HIDE DEF PutMachine
  <2> QED BY <1>0, <1>1, <1>2, <1>3, <2>1 DEF DiskSafe
<1>9. ScratchKnown'
  BY <1>0, <1>2, <1>3 DEF ScratchKnown
<1>10. HelperStep'
  BY <1>0 DEF HelperStep, WireOpen, Receiving, Flushing
<1>11. PutResidentFits'
  <2>1. x.state # "IDLE" => x.id \in Ids
    BY DEF Owned
  <2> QED BY <1>0, <1>4, <2>1 DEF Grows, PutResidentFits, Sound, Prefix
<1> QED BY <1>4, <1>5, <1>6, <1>7, <1>8, <1>9, <1>10, <1>11

----------------------------------------------------------------------------
(* PUT: the agent serves a request. *)

\* What the types of a call make of it.
LEMMA CallFacts ==
  ASSUME PutMachine, PutTalk, call # None
  PROVE  /\ GoodPutCall(call) /\ call.id \in Ids
         /\ call.id = x.id => x.state # "IDLE"
<1>1. GoodPutCall(call)
  BY DEF PutTalk, PutCallFits
<1>2. call.id \in Ids
  BY <1>1 DEF GoodPutCall, Requests
<1>3. x.state = "IDLE" => x.id = None
  BY DEF PutMachine, Owned, IdleTransfer
<1> QED BY <1>1, <1>2, <1>3, WireAssumption

\* The resident goes to another state; helper and disk stand still.
LEMMA AgentMove ==
  ASSUME PutMachine, UNCHANGED <<hlp, disk, linked, typed, file>>,
         x' \in Transfers, ~x'.pump, x'.state # "IDLE", x'.id \in Ids,
         x'.state \notin {"COMPLETE", "FAILED"},
         x'.close => x'.state = "VERIFYING",
         PutLive', PutHeld', PutResidentFits'
  PROVE  /\ PutMachine'
         /\ (Past => Past') /\ (Past /\ Sound => Sound') => Grows
<1> USE DEF PutMachine
<1>1. PutMachineTypes' /\ Owned'
  BY DEF PutMachineTypes, WireTypes, Owned
<1>2. DiskSafe'
  BY DEF DiskSafe, HasName, Whole, Size, Foreigns, Public, Twin
<1>3. ScratchKnown'
  BY DEF ScratchKnown, OwnOuts, Foreigns, Whole, Size, Public, Out
<1>4. Kept' = Kept /\ Prepared' = Prepared /\ OwnOuts' = OwnOuts /\ HasName' = HasName
  BY DEF Kept, Prepared, OwnOuts, HasName, Public, Whole, Size, Foreigns
<1>5. HelperStep'
  BY <1>4 DEF HelperStep, Meta, Part, Out, WireOpen, Receiving, Flushing, MetaFits,
    HasName, Public, SourceReady, PublishSource, Whole, Size
<1>6. (Past => Past') /\ (Past /\ Sound => Sound') => Grows
  BY <1>4 DEF Grows
<1> QED BY <1>1, <1>2, <1>3, <1>5, <1>6

\* What is answered about a transfer of its own is true.
LEMMA Answered ==
  ASSUME PutMachine', NEW y \in Transfers, Answer(y),
         x'.state # "IDLE", call.id = x'.id, call.op = "put" => Sound'
  PROVE  PutReplyFits'
<1>1. /\ x' \in Transfers /\ call' = call /\ rsp' = Report(y)
      /\ x'.state = y.state /\ x'.accepted = y.accepted /\ x'.durable = y.durable
      /\ x'.prefix = y.prefix /\ x'.whole = y.whole
  BY DEF Answer, PutMachine, PutMachineTypes, WireTypes, Transfers
<1>2. /\ rsp'.state = x'.state /\ rsp'.durable = x'.durable /\ rsp'.prefix = x'.prefix
  BY <1>1 DEF Report
<1>3. rsp' \in Reports
  BY <1>1, StateNames DEF Report, Reports, Transfers
<1>4. /\ rsp'.prefix \in (Kept[call.id])'
      /\ Readied0(rsp'.state) => (call.id \in Prepared)'
      /\ rsp'.state = "COMPLETE" => HasName'
  BY <1>1, <1>2 DEF PutMachine, PutResidentFits, Readied0
<1>5. /\ Opened(rsp'.state) => Past'
      /\ rsp'.prefix = Prefix(rsp'.durable) => Sound'
  BY <1>2 DEF Opened, Past, Sound, Prefix
<1>6. (call.op = "put" => rsp.prefix = Prefix(rsp.durable))' /\ rsp'.state # "IDLE"
  BY <1>1, <1>2 DEF Sound, Prefix
<1> QED BY <1>3, <1>4, <1>5, <1>6 DEF PutReplyFits, GoodPutReply, Opened, Readied0, Prefix

\* A block is taken.
LEMMA PutTaken ==
  ASSUME PutMachine, PutTalk, UNCHANGED <<hlp, disk>>, ServePut, Takes
  PROVE  PutMachine' /\ Grows /\ PutReplyFits'
<1> USE DEF PutMachine
<1> DEFINE y == [x EXCEPT !.pending = <<call.offset + 1>>, !.accepted = @ + 1,
                          !.state = "TRANSFERRING"]
<1>0. /\ Answer(y) /\ call # None /\ x.pump /\ call.id = x.id /\ call.offset = x.accepted
      /\ x.state \in Moving /\ x.pending = <<>> /\ x.accepted < Size
      /\ GoodPutCall(call) /\ call.op = "put" /\ call.id \in Ids
      /\ x \in Transfers /\ hlp.pc = "pumping" /\ hlp \in Helpers(PutHelperPcs)
      /\ x.accepted \in Nat /\ hlp.id = x.id /\ x.state # "IDLE" /\ x.whole = Whole
      /\ UNCHANGED <<linked, typed, file>>
  BY CallFacts DEF ServePut, CanHear, CanPut, IsOurs, Takes, Answer, PutMachineTypes, WireTypes,
    Owned, PutLive, Transfers, Moving
<1>1. Past /\ Sound
  BY <1>0 DEF GoodPutCall
<1>2. <<x.accepted + 1>> \in Blocks /\ Len(<<x.accepted + 1>>) = 1 /\ x.accepted + 1 \in Nat
      /\ <<x.accepted + 1>> # <<>>
  BY <1>0 DEF Blocks
<1>3. y \in Transfers
  <2>1. [x EXCEPT !.pending = <<call.offset + 1>>] \in Transfers
    BY <1>0, <1>2, TransferUpdates
  <2>2. [[x EXCEPT !.pending = <<call.offset + 1>>] EXCEPT !.accepted = x.accepted + 1] \in Transfers
    BY <1>2, <2>1, TransferUpdates
  <2>3. [[[x EXCEPT !.pending = <<call.offset + 1>>] EXCEPT !.accepted = x.accepted + 1]
           EXCEPT !.state = "TRANSFERRING"] \in Transfers
    BY <2>2, StateNames, TransferUpdates
  <2> QED BY <2>3, <1>0 DEF Transfers
<1>4. x' \in Transfers
  BY <1>0, <1>3, TransferUpdates DEF Answer
<1>5. /\ x'.state = "TRANSFERRING" /\ x'.id = x.id /\ x'.replay = x.replay
      /\ x'.from = x.from /\ x'.accepted = x.accepted + 1 /\ x'.durable = x.durable
      /\ x'.prefix = x.prefix /\ x'.pending = <<x.accepted + 1>> /\ x'.close = x.close
      /\ x'.whole = x.whole /\ ~x'.pump
  BY <1>0 DEF Answer, Transfers
<1>6. x.close = FALSE
  BY <1>0 DEF Owned, Moving, Transfers
<1>7. PutLive'
  BY <1>0, <1>2, <1>5, <1>6, SizeFacts DEF PutLive, Publishing, Receiving, Moving
<1>8. PutHeld'
  <2>1. /\ hlp.crc \in Blocks /\ hlp.acc \in Blocks /\ hlp.crc \o hlp.acc \in Blocks
    BY <1>0, Appended DEF Helpers
  <2>2. /\ Len(x.prefix) = x.durable /\ hlp.crc = x.prefix
        /\ Len(Held) = x.accepted /\ Held = hlp.crc \o hlp.acc \o <<>>
        /\ Sound => Held = Prefix(x.accepted)
    BY <1>0 DEF PutHeld, Receiving, Held
  <2>3. Held = hlp.crc \o hlp.acc
    BY <2>1, <2>2, StateNames, Appended
  <2>4. Held' = (hlp.crc \o hlp.acc) \o <<x.accepted + 1>>
    BY <1>0, <1>5 DEF Held
  <2>5. Len(Held') = x.accepted + 1
    <3>1. Held \in Blocks /\ Held' = Held \o <<x.accepted + 1>> /\ Len(Held) = x.accepted
      BY <2>1, <2>2, <2>3, <2>4
    <3>2. ASSUME NEW a \in Blocks PROVE Len(a \o <<x.accepted + 1>>) = Len(a) + 1
      BY <1>2, Appended
    <3>3. Len(Held \o <<x.accepted + 1>>) = Len(Held) + 1
      BY <3>1, <3>2
    <3> QED BY <3>1, <3>3
  <2>6. Held' = Prefix(x.accepted + 1)
    BY <1>0, <1>1, <2>2, <2>3, <2>4, PrefixGrows
  <2> QED BY <1>0, <1>5, <2>2, <2>5, <2>6 DEF PutHeld, Flushing
<1>9. Past' /\ Sound'
  BY <1>1, <1>5 DEF Past, Sound, Prefix
<1>10. PutResidentFits'
  <2>1. x.prefix \in Kept[x.id] /\ x.id \in Prepared
    BY <1>0 DEF PutResidentFits, Readied0
  <2>2. Kept' = Kept /\ Prepared' = Prepared
    BY <1>0 DEF Kept, Prepared, OwnOuts, HasName, Public, Whole, Size, Foreigns
  <2> QED BY <1>5, <1>9, <2>1, <2>2 DEF PutResidentFits
<1>11. PutMachine' /\ Grows
  <2> HIDE DEF PutMachine, y
  <2> QED BY <1>0, <1>4, <1>5, <1>6, <1>7, <1>8, <1>9, <1>10, AgentMove
<1>12. PutReplyFits'
  <2> HIDE DEF PutMachine, y
  <2> QED BY <1>0, <1>3, <1>5, <1>9, <1>11, Answered
<1> QED BY <1>11, <1>12

LEMMA PutClosed ==
  ASSUME PutMachine, PutTalk, UNCHANGED <<hlp, disk>>, ServeClose,
         x.state # "COMPLETE", ~x.close
  PROVE  PutMachine' /\ Grows /\ PutReplyFits'
<1> USE DEF PutMachine
<1> DEFINE y == [x EXCEPT !.close = TRUE, !.state = "VERIFYING"]
<1>0. /\ Answer(y) /\ call # None /\ call.id = x.id /\ call.id \in Ids
      /\ x.state \in Moving /\ x.pending = <<>> /\ x.durable = Size /\ x.state # "IDLE"
      /\ x \in Transfers /\ hlp.id = x.id /\ x.whole = Whole
      /\ hlp.pc \in {"pump", "pumping", "poll", "fail"} /\ call.op # "put"
      /\ UNCHANGED <<linked, typed, file>>
  BY CallFacts, SizeFacts DEF ServeClose, CanHear, CanClose, IsOurs, Answer, PutMachineTypes, WireTypes,
    Owned, PutLive, Moving, WireSize, PutHeld, Receiving, Flushing
<1>1. y \in Transfers
  <2>1. [x EXCEPT !.close = TRUE] \in Transfers
    BY <1>0, TransferUpdates
  <2>2. [[x EXCEPT !.close = TRUE] EXCEPT !.state = "VERIFYING"] \in Transfers
    BY <2>1, StateNames, TransferUpdates
  <2> QED BY <2>2, <1>0 DEF Transfers
<1>2. x' \in Transfers
  BY <1>0, <1>1, TransferUpdates DEF Answer
<1>3. /\ x'.state = "VERIFYING" /\ x'.id = x.id /\ x'.replay = x.replay
      /\ x'.from = x.from /\ x'.accepted = x.accepted /\ x'.durable = x.durable
      /\ x'.prefix = x.prefix /\ x'.pending = <<>> /\ x'.close
      /\ x'.whole = x.whole /\ ~x'.pump
  BY <1>0 DEF Answer, Transfers
<1>4. PutLive'
  BY <1>0, <1>3, SizeFacts DEF PutLive, Publishing, Receiving, Moving
<1>5. PutHeld'
  BY <1>3 DEF PutHeld, Moving
<1>6. Past /\ Past' /\ (Sound' <=> Sound)
  BY <1>0, <1>3 DEF Past, Sound, Prefix, Moving
<1>7. PutResidentFits'
  <2>1. x.prefix \in Kept[x.id] /\ x.id \in Prepared /\ (x.accepted > x.from => Sound)
    BY <1>0 DEF PutResidentFits, Readied0
  <2>2. Kept' = Kept /\ Prepared' = Prepared
    BY <1>0 DEF Kept, Prepared, OwnOuts, HasName, Public, Whole, Size, Foreigns
  <2> QED BY <1>3, <1>6, <2>1, <2>2 DEF PutResidentFits
<1>8. PutMachine' /\ Grows
  <2> HIDE DEF PutMachine, y
  <2> QED BY <1>0, <1>2, <1>3, <1>4, <1>5, <1>6, <1>7, AgentMove
<1>9. PutReplyFits'
  <2> HIDE DEF PutMachine, y
  <2> QED BY <1>0, <1>1, <1>3, <1>8, Answered
<1> QED BY <1>8, <1>9

LEMMA PutCancelled ==
  ASSUME PutMachine, PutTalk, UNCHANGED <<hlp, disk>>, ServeCancel, x.state # "COMPLETE"
  PROVE  PutMachine' /\ Grows /\ PutReplyFits'
<1> USE DEF PutMachine
<1> DEFINE y == [x EXCEPT !.state = "CANCELLED", !.pending = <<>>, !.close = FALSE, !.armed = FALSE]
<1>0. /\ Answer(y) /\ call # None /\ call.id = x.id /\ call.id \in Ids
      /\ x.state \notin {"IDLE", "POSTPROCESS"} /\ x \in Transfers /\ x.whole = Whole
      /\ hlp.pc \notin Publishing /\ call.op # "put"
      /\ UNCHANGED <<linked, typed, file>>
  BY CallFacts DEF ServeCancel, CanHear, CanCancel, IsOurs, Answer, PutMachineTypes, WireTypes, PutLive
<1>1. y \in Transfers
  <2>1. [x EXCEPT !.state = "CANCELLED"] \in Transfers
    BY <1>0, StateNames, TransferUpdates
  <2>2. [[x EXCEPT !.state = "CANCELLED"] EXCEPT !.pending = <<>>] \in Transfers
    BY <2>1, StateNames, TransferUpdates
  <2>3. [[[x EXCEPT !.state = "CANCELLED"] EXCEPT !.pending = <<>>] EXCEPT !.close = FALSE] \in Transfers
    BY <2>2, TransferUpdates
  <2>4. [[[[x EXCEPT !.state = "CANCELLED"] EXCEPT !.pending = <<>>] EXCEPT !.close = FALSE]
            EXCEPT !.armed = FALSE] \in Transfers
    BY <2>3, TransferUpdates
  <2> QED BY <2>4, <1>0 DEF Transfers
<1>2. x' \in Transfers
  BY <1>0, <1>1, TransferUpdates DEF Answer
<1>3. /\ x'.state = "CANCELLED" /\ x'.id = x.id /\ x'.replay = x.replay
      /\ x'.from = x.from /\ x'.accepted = x.accepted /\ x'.durable = x.durable
      /\ x'.prefix = x.prefix /\ x'.pending = <<>> /\ ~x'.close
      /\ x'.whole = x.whole /\ ~x'.pump
  BY <1>0 DEF Answer, Transfers
<1>4. PutLive'
  BY <1>0, <1>3, SizeFacts DEF PutLive, Publishing, Receiving, Moving
<1>5. PutHeld'
  BY <1>3 DEF PutHeld, Moving
<1>6. Past' /\ (Sound' <=> Sound)
  BY <1>0, <1>3 DEF Past, Sound, Prefix
<1>7. PutResidentFits'
  <2>1. x.prefix \in Kept[x.id] /\ (x.replay => x.id \in Prepared) /\ (x.accepted > x.from => Sound)
    BY <1>0 DEF PutResidentFits
  <2>2. Kept' = Kept /\ Prepared' = Prepared
    BY <1>0 DEF Kept, Prepared, OwnOuts, HasName, Public, Whole, Size, Foreigns
  <2> QED BY <1>3, <1>6, <2>1, <2>2 DEF PutResidentFits, Readied0, Moving
<1>8. PutMachine' /\ Grows
  <2> HIDE DEF PutMachine, y
  <2> QED BY <1>0, <1>2, <1>3, <1>4, <1>5, <1>6, <1>7, AgentMove
<1>9. PutReplyFits'
  <2> HIDE DEF PutMachine, y
  <2> QED BY <1>0, <1>1, <1>3, <1>8, Answered
<1> QED BY <1>8, <1>9

\* The machine is opened for another transfer.
LEMMA PutOpened ==
  ASSUME PutMachine, PutTalk, UNCHANGED <<hlp, disk>>, ServeOpen
  PROVE  /\ PutMachine' /\ PutReplyFits'
         /\ call.op = "open" /\ Kept' = Kept /\ Prepared' = Prepared
         /\ HasName' = HasName /\ OwnOuts' = OwnOuts
<1> USE DEF PutMachine
<1> DEFINE y == Staged(call)
<1>0. /\ Answer(y) /\ call # None /\ call.id \in Ids /\ call.op = "open" /\ x.state \in Terminal
      /\ GoodPutCall(call) /\ call.offset \in Nat /\ call.replay \in BOOLEAN /\ call.resume \in BOOLEAN
      /\ call.prefix \in Blocks /\ call.whole = Whole /\ call.prefix \in Kept[call.id]
      /\ (call.replay => call.id \in Prepared) /\ Whole \in Blocks /\ Size \in Nat
      /\ UNCHANGED <<linked, typed, file>>
  BY CallFacts, SizeFacts DEF ServeOpen, CanHear, CanOpen, Answer, GoodPutCall, Requests
<1>1. y \in Transfers
  BY <1>0, StateNames DEF Staged, IdleTransfer, Transfers
<1>2. x' \in Transfers
  BY <1>0, <1>1, TransferUpdates DEF Answer
<1>3. /\ x'.state = "STAGED" /\ x'.id = call.id /\ x'.replay = call.replay
      /\ x'.from = call.offset /\ x'.accepted = call.offset /\ x'.durable = call.offset
      /\ x'.prefix = call.prefix /\ x'.pending = <<>> /\ ~x'.close
      /\ x'.whole = Whole /\ ~x'.pump
  BY <1>0 DEF Answer, Staged, IdleTransfer
<1>4. PutLive'
  BY <1>0, <1>3, SizeFacts DEF PutLive, Publishing, Receiving, Moving, Terminal
<1>5. PutHeld'
  BY <1>3 DEF PutHeld, Moving
<1>6. Kept' = Kept /\ Prepared' = Prepared /\ HasName' = HasName /\ OwnOuts' = OwnOuts
  BY <1>0 DEF Kept, Prepared, OwnOuts, HasName, Public, Whole, Size, Foreigns
<1>7. PutResidentFits'
  BY <1>0, <1>3, <1>6 DEF PutResidentFits, Readied0, Moving
<1>8. PutMachine'
  <2> HIDE DEF PutMachine, y
  <2> QED BY <1>0, <1>2, <1>3, <1>4, <1>5, <1>7, AgentMove
<1>9. PutReplyFits'
  <2>1. call.id = x'.id /\ x'.state # "IDLE"
    BY <1>3
  <2> HIDE DEF PutMachine, y
  <2> QED BY <1>0, <1>1, <1>8, <2>1, "open" # "put", Answered
<1> QED BY <1>0, <1>6, <1>8, <1>9

\* Any other request changes flags only.
LEMMA FlagsAnswered ==
  ASSUME PutMachine, PutTalk, UNCHANGED <<hlp, disk>>, call # None, call.id = x.id,
         NEW y \in {x, [x EXCEPT !.armed = TRUE]}, Answer(y)
  PROVE  PutMachine' /\ Grows /\ PutReplyFits'
<1>0. x \in Transfers /\ y \in Transfers /\ x.state # "IDLE"
      /\ UNCHANGED <<linked, typed, file>> /\ linked' \in BOOLEAN /\ typed' \in Ids \cup {None}
  BY CallFacts, TransferUpdates DEF Answer, PutMachine, PutMachineTypes, WireTypes
<1>1. SameTransfer /\ ~x'.pump
  <2>1. CASE y = x
    BY <2>1, FlagsKeep DEF Answer
  <2>2. CASE y = [x EXCEPT !.armed = TRUE]
    BY <1>0, <2>2, FlagsKeep DEF Answer
  <2> QED BY <2>1, <2>2
<1>2. PutMachine' /\ Grows
  BY <1>0, <1>1, SameKeeps
<1>3. PutReplyFits'
  <2>1. call.op = "put" => Past /\ Sound
    BY CallFacts DEF GoodPutCall
  <2>2. call.op = "put" => Sound'
    BY <1>2, <2>1 DEF Grows
  <2> QED BY <1>0, <1>1, <1>2, <2>2, Answered DEF SameTransfer
<1> QED BY <1>2, <1>3

LEMMA ServeKeeps ==
  ASSUME PutMachine, PutTalk, UNCHANGED <<hlp, disk>>, Serve
  PROVE  /\ PutMachine' /\ PutReplyFits'
         /\ \/ Grows
            \/ /\ ServeOpen /\ call.op = "open" /\ Kept' = Kept /\ Prepared' = Prepared
               /\ HasName' = HasName /\ OwnOuts' = OwnOuts
<1>0. ~file.get /\ call # None
  BY DEF PutMachine, PutMachineTypes, Serve, ServeOpen, ServeStatus, ServeBegin, ServePut,
    ServeRead, ServeAck, ServeClose, ServeCancel, Refuse, CanHear
<1>1. CASE ServeOpen
  BY <1>1, PutOpened
<1>2. CASE ServeStatus
  BY <1>0, <1>2, FlagsAnswered DEF ServeStatus, IsOurs
<1>3. CASE ServeBegin
  BY <1>0, <1>3, FlagsAnswered DEF ServeBegin, Begun, CanBegin, IsOurs
<1>4. CASE ServePut
  <2>1. CASE Takes
    BY <1>4, <2>1, PutTaken
  <2>2. CASE ~Takes
    BY <1>0, <1>4, <2>2, FlagsAnswered DEF ServePut, CanPut, IsOurs
  <2> QED BY <2>1, <2>2
<1>5. CASE ServeRead \/ ServeAck
  BY <1>0, <1>5, CallFacts DEF ServeRead, ServeAck, CanHear, GoodPutCall
<1>6. CASE ServeClose
  <2>1. CASE x.state = "COMPLETE" \/ x.close
    BY <1>0, <1>6, <2>1, FlagsAnswered DEF ServeClose, CanClose, IsOurs
  <2> QED BY <1>6, <2>1, PutClosed
<1>7. CASE ServeCancel
  <2>1. CASE x.state = "COMPLETE"
    BY <1>0, <1>7, <2>1, FlagsAnswered DEF ServeCancel, CanCancel, IsOurs
  <2> QED BY <1>7, <2>1, PutCancelled
<1>8. CASE Refuse
  <2>1. SameTransfer /\ ~x'.pump
    BY <1>8, FlagsKeep DEF Refuse
  <2>2. PutMachine' /\ Grows
    BY <1>8, <2>1, SameKeeps DEF Refuse, PutMachine, PutMachineTypes, WireTypes
  <2> QED BY <1>8, <2>2 DEF Refuse, PutReplyFits
<1> QED BY <1>1, <1>2, <1>3, <1>4, <1>5, <1>6, <1>7, <1>8 DEF Serve

----------------------------------------------------------------------------
(* PUT: what was said stays true while nothing new is said. *)

LEMMA HostStays ==
  ASSUME PutHostFits, Grows, UNCHANGED <<host, file>> PROVE PutHostFits'
<1>1. host.pc \in Opening \cup Binding \cup PutStream => host.pc # "idle" /\ host.id \in Ids
  BY DEF PutHostFits, GoodPut, Opening, Binding, PutStream
<1>2. Prefix(host.dur)' = Prefix(host.dur)
  BY DEF Prefix
<1>3. ASSUME host.pc \in Binding \cup PutStream PROVE Past' /\ (host.id \in Prepared)'
  BY <1>3 DEF PutHostFits, GoodPut, Grows
<1>4. ASSUME host.pc \in PutStream \/ (host.pc \in Binding /\ host.same) PROVE Sound'
  BY <1>4 DEF PutHostFits, GoodPut, Grows
<1>5. ASSUME host.pc \in Opening \cup PutStream \/ (host.pc \in Binding /\ host.same)
      PROVE  (Prefix(host.dur) \in Kept[host.id])'
  BY <1>1, <1>2, <1>5 DEF PutHostFits, GoodPut, Grows
<1>6. ASSUME host.pc # "idle", host.intent PROVE (host.id \in Prepared)'
  BY <1>6 DEF PutHostFits, GoodPut, Grows
<1>7. host.st = "COMPLETE" => HasName'
  BY DEF PutHostFits, GoodPut, Grows
<1> QED BY <1>3, <1>4, <1>5, <1>6, <1>7 DEF PutHostFits, GoodPut

LEMMA CallStays ==
  ASSUME PutCallFits, Grows, UNCHANGED <<call, file>> PROVE PutCallFits'
<1>1. SUFFICES ASSUME call # None PROVE GoodPutCall(call)'
  BY DEF PutCallFits
<1>2. GoodPutCall(call) /\ call.id \in Ids
  BY <1>1 DEF PutCallFits, GoodPutCall, Requests
<1>3. call.op = "put" => Past' /\ Sound'
  BY <1>2 DEF GoodPutCall, Grows
<1>4. ASSUME call.op = "open"
      PROVE  /\ (call.prefix \in Kept[call.id])'
             /\ call.replay => (call.id \in Prepared)'
             /\ (call.prefix = Prefix(call.offset) /\ call.whole = Whole)'
  BY <1>2, <1>4 DEF GoodPutCall, Grows, Prefix, Whole, Size
<1> QED BY <1>2, <1>3, <1>4 DEF GoodPutCall

LEMMA ReplyStays ==
  ASSUME PutReplyFits, PutCallFits, rsp # None => call # None, Grows, UNCHANGED <<call, rsp, file>>
  PROVE  PutReplyFits'
<1>1. SUFFICES ASSUME rsp \notin {None, Refused} PROVE GoodPutReply(rsp)'
  BY DEF PutReplyFits, Refused
<1>2. GoodPutReply(rsp) /\ call.id \in Ids
  BY <1>1 DEF PutReplyFits, PutCallFits, GoodPutCall, Requests
<1>3. Opened(rsp.state) => Past' /\ (rsp.prefix = Prefix(rsp.durable) => Sound')
  BY <1>2 DEF GoodPutReply, Grows
<1>4. /\ (rsp.prefix \in Kept[call.id])'
      /\ Readied0(rsp.state) => (call.id \in Prepared)'
      /\ rsp.state = "COMPLETE" => HasName'
  BY <1>2 DEF GoodPutReply, Grows
<1> QED BY <1>2, <1>3, <1>4 DEF GoodPutReply, Opened, Readied0, Prefix

LEMMA TalkStays ==
  ASSUME PutTalk, Grows, UNCHANGED <<host, journal, call, linked, file>>,
         PutReplyFits', rsp' # None => call # None,
         ~linked /\ host.pc # "idle" /\ Cut => Cut'
  PROVE  PutTalk'
<1>1. Calling'
  BY DEF PutTalk, Calling, Request, Whole, Prefix, Size
<1>2. PutHostFits'
  BY HostStays DEF PutTalk
<1>3. PutJournalFits'
  BY DEF PutTalk, PutJournalFits, Grows, Prefix
<1>4. PutCallFits'
  BY CallStays DEF PutTalk
<1> QED BY <1>1, <1>2, <1>3, <1>4 DEF PutTalk

LEMMA HelperTalks ==
  ASSUME PutInv, HelperSteps \/ DosError \/ TimesOut(NoBlockComes), UNCHANGED HostVars
  PROVE  PutInv'
<1>1. PutMachine' /\ Grows
  BY HelperKeeps DEF PutInv
<1>2. /\ UNCHANGED <<call, rsp, linked, file, host, journal>> /\ ~Cut
  BY DEF HelperSteps, PutHelperSteps, GetHelperSteps, DosError, TimesOut, HostVars, hostVars, Cut, CallsDos,
    Prepare, CreateMeta, CreatePart, Ready, Poll, Release, WriteWindow, EnsureWindow, Commit, Finalize,
    OwnScratch, DropScratch, CreateScratch, Decode, RequireAbsent, MarkPublishing, Recover, Rename,
    MarkPublished, Revalidate, CleanPart, CleanMeta, ScanSource, ReadySource, Refill, PublishBlock, PollGet,
    Start, Claim, EnterPump, LeavePump, Postprocess, Finish, Fail, KeepsDisk, KeepsResident, CallsTsr,
    SetPhase, wireVars
<1>3. PutReplyFits'
  BY <1>1, <1>2, ReplyStays DEF PutInv, PutTalk, Calling
<1>4. PutTalk'
  BY <1>1, <1>2, <1>3, TalkStays DEF PutInv, PutTalk, Calling
<1> QED BY <1>1, <1>4 DEF PutInv

LEMMA IntrudeTalks ==
  ASSUME PutInv, Intrude
  PROVE  PutInv'
<1>1. PutMachine' /\ Grows
  BY IntrudeKeeps DEF PutInv
<1>2. UNCHANGED <<call, rsp, linked, file, host, journal, x, hlp, typed>>
  BY DEF Intrude, hostVars
<1>3. PutReplyFits'
  BY <1>1, <1>2, ReplyStays DEF PutInv, PutTalk, Calling
<1>4. PutTalk'
  BY <1>1, <1>2, <1>3, TalkStays DEF PutInv, PutTalk, Calling, Cut
<1> QED BY <1>1, <1>4 DEF PutInv

LEMMA ResetTalks ==
  ASSUME PutInv, Reset
  PROVE  PutInv'
<1>1. PutMachine' /\ Grows
  BY ResetKeeps DEF PutInv
<1>2. /\ UNCHANGED <<host, journal, file>> /\ call' = None /\ rsp' = None /\ linked' = FALSE
      /\ Cut'
  BY DEF Reset, PowerLoss, HostVars, hostVars, Cut, AtPrompt
<1>3. Calling'
  BY <1>2 DEF PutInv, PutTalk, Calling
<1>4. PutHostFits'
  BY <1>1, <1>2, HostStays DEF PutInv, PutTalk
<1>5. PutJournalFits'
  BY <1>1, <1>2 DEF PutInv, PutTalk, PutJournalFits, Grows, Prefix
<1>6. PutCallFits' /\ PutReplyFits'
  BY <1>2 DEF PutCallFits, PutReplyFits
<1> QED BY <1>1, <1>3, <1>4, <1>5, <1>6 DEF PutInv, PutTalk

LEMMA AgentTalks ==
  ASSUME PutInv, AgentAction
  PROVE  PutInv'
<1>0. /\ PutMachine /\ PutTalk /\ Serve
      /\ UNCHANGED <<hlp, disk, host, journal, call, linked, file, typed>> /\ call # None
  BY DEF AgentAction, HostVars, hostVars, PutInv, Serve, ServeOpen, ServeStatus, ServeBegin, ServePut,
    ServeRead, ServeAck, ServeClose, ServeCancel, Refuse, CanHear, Answer
<1>1. /\ PutMachine' /\ PutReplyFits'
      /\ \/ Grows
         \/ /\ ServeOpen /\ call.op = "open" /\ Kept' = Kept /\ Prepared' = Prepared
            /\ HasName' = HasName /\ OwnOuts' = OwnOuts
  BY <1>0, ServeKeeps
\* A session that has ended is served only what an ended call left.
<1>2. ASSUME ~linked, host.pc # "idle" PROVE x' = x /\ ~(call.op = "open")
  <2>1. Cut /\ call = Request(host) /\ (host.pc \in Opening => call = None)
    BY <1>0, <1>2 DEF PutTalk, Calling
  <2>2. host.pc = "open" => host.pc \in Opening
    BY DEF Opening
  <2>3. call.op # "open"
    BY <1>0, <2>1, <2>2 DEF Request, StatusSteps, CloseSteps
  <2>4. call.id # x.id
    BY <1>0, <2>1, CallFacts DEF Cut, IdleTransfer
  <2>5. Refuse
    <3>1. ~ServeRead /\ ~ServeAck
      BY <1>0, CallFacts DEF ServeRead, ServeAck, CanHear, GoodPutCall
    <3> QED BY <1>0, <2>3, <2>4, <3>1 DEF Serve, ServeOpen, ServeStatus, ServeBegin, ServePut,
          ServeClose, ServeCancel, CanHear, CanBegin, CanPut, CanClose, CanCancel, IsOurs
  <2>6. SameTransfer
    BY <1>0, <2>5, FlagsKeep DEF Refuse
  <2>7. x.state = "IDLE"
    BY <2>1 DEF Cut, IdleTransfer
  <2> QED BY <2>3, <2>6, <2>7 DEF SameTransfer
<1>3. CASE Grows
  <2>1. PutTalk'
    BY <1>0, <1>1, <1>2, <1>3, TalkStays DEF Cut
  <2> QED BY <1>1, <2>1 DEF PutInv
\* Another transfer is begun for a host that asked for it, or is gone.
<1>4. CASE call.op = "open" /\ Kept' = Kept /\ Prepared' = Prepared
           /\ HasName' = HasName /\ OwnOuts' = OwnOuts
  <2>1. host.pc \in {"open", "idle"}
    BY <1>0, <1>2, <1>4 DEF PutTalk, Calling, Request, StatusSteps, CloseSteps
  <2>2. Calling'
    BY <1>0, <1>2 DEF PutTalk, Calling, Request, Whole, Prefix, Size, Cut
  <2>3. PutHostFits'
    BY <1>0, <1>4, <2>1 DEF PutTalk, PutHostFits, GoodPut, Binding, PutStream, Opening
  <2>4. PutJournalFits'
    BY <1>0, <1>4 DEF PutTalk, PutJournalFits, Prefix
  <2>5. PutCallFits'
    BY <1>0, <1>4 DEF PutTalk, PutCallFits, GoodPutCall, Prefix, Whole, Size
  <2> QED BY <1>1, <2>2, <2>3, <2>4, <2>5 DEF PutInv, PutTalk
<1> QED BY <1>1, <1>3, <1>4

LEMMA ReconnectTalks ==
  ASSUME PutInv, Reconnect
  PROVE  PutInv'
<1>0. /\ PutMachine /\ PutTalk /\ host.pc = "idle"
      /\ UNCHANGED <<hlp, disk, host, journal, file>> /\ linked' = TRUE
      /\ call' = None /\ rsp' = None /\ typed' \in {typed, None}
      /\ x' = [x EXCEPT !.armed = FALSE, !.pump = FALSE] /\ typed \in Ids \cup {None}
  BY DEF Reconnect, Rebootstrap, HostVars, hostVars, PutInv, PutMachine, PutMachineTypes, WireTypes
<1>1. SameTransfer /\ ~x'.pump
  BY <1>0, FlagsKeep
<1>2. PutMachine' /\ Grows
  BY <1>0, <1>1, SameKeeps
<1>3. Calling'
  BY <1>0 DEF Calling
<1>4. PutHostFits'
  BY <1>0, <1>2, HostStays DEF PutTalk
<1>5. PutJournalFits'
  BY <1>0, <1>2 DEF PutTalk, PutJournalFits, Grows, Prefix
<1>6. PutCallFits' /\ PutReplyFits'
  BY <1>0 DEF PutCallFits, PutReplyFits
<1> QED BY <1>2, <1>3, <1>4, <1>5, <1>6 DEF PutInv, PutTalk

----------------------------------------------------------------------------
(* PUT: the host moves on. *)

\* What the journal says behind a step of the host.
Journals ==
  /\ journal' \in [Ids -> PutRecords \cup {None}]
  /\ \A i \in Ids : journal'[i] # None =>
       /\ Prefix(journal'[i].off) \in Kept[i]
       /\ journal'[i].close => i \in Prepared

LEMMA HostFits ==
  ASSUME PutInv, UNCHANGED <<x, hlp, disk, linked, file>>, NEW h,
         host' = h, call' = Request(h), rsp' = None, GoodPut(h), Journals,
         h.pc # "idle" => journal'[h.id] # None,
         typed' \in Ids \cup {None},
         ~linked /\ h.pc # "idle" => host.pc # "idle" /\ typed' = typed /\ h.pc \notin Opening
  PROVE  PutInv'
<1>0. /\ PutMachine /\ PutTalk /\ host' = h /\ call' = Request(h) /\ rsp' = None
      /\ UNCHANGED <<linked, file>> /\ linked \in BOOLEAN
      /\ h \in Hosts(PutHostPcs) /\ ~file.get
  BY DEF PutInv, PutMachine, PutMachineTypes, WireTypes, GoodPut
<1>1. SameTransfer
  BY <1>0 DEF SameTransfer, PutMachine, PutMachineTypes, WireTypes
<1>2. PutMachine'
  <2>1. x'.pump => hlp'.pc = "pumping"
    BY <1>0 DEF PutMachine, Owned
  <2> QED BY <1>0, <1>1, <2>1, SameKeeps
<1>3. /\ Kept' = Kept /\ Prepared' = Prepared /\ HasName' = HasName
      /\ Past' = Past /\ Sound' = Sound /\ Whole' = Whole
      /\ \A n : Prefix(n)' = Prefix(n)
  BY <1>0 DEF Kept, Prepared, OwnOuts, HasName, Public, Whole, Size, Foreigns, Past, Sound, Prefix
<1>4. PutHostFits'
  <2>1. (Prefix(host.dur))' = Prefix(h.dur)
    BY <1>0 DEF Prefix
  <2> QED BY <1>0, <1>3, <2>1 DEF PutHostFits, GoodPut
<1>5. PutJournalFits'
  BY <1>0, <1>3 DEF PutJournalFits, Journals, Prefix
<1>6. PutReplyFits'
  BY <1>0 DEF PutReplyFits
<1>7. call' # None => h.pc # "idle" /\ h.id \in Ids
  BY <1>0 DEF Request, StatusSteps, CloseSteps, GoodPut
<1>8. PutCallFits'
  <2>1. SUFFICES ASSUME call' # None PROVE GoodPutCall(call)'
    BY DEF PutCallFits
  <2>2. /\ h.dur \in Nat /\ h.acc \in Nat /\ h.prefix \in Blocks
        /\ h.resumed \in BOOLEAN /\ h.intent \in BOOLEAN /\ h.pc \in PutHostPcs
    BY <1>0 DEF Hosts
  <2>3. CASE h.pc \in StatusSteps \cup CloseSteps \cup {"begin", "cancel"}
    <3>1. \E op \in {"status", "close", "begin", "cancel"} : call' = [op |-> op, id |-> h.id]
      BY <1>0, <2>3 DEF Request, StatusSteps, CloseSteps
    <3>2. call' \in Requests /\ call'.op \in {"status", "close", "begin", "cancel"}
      BY <1>7, <2>1, <3>1 DEF Requests
    <3> QED BY <3>2 DEF GoodPutCall
  <2>4. CASE h.pc = "open"
    <3>1. call' = [op |-> "open", id |-> h.id, offset |-> h.dur, resume |-> h.resumed,
                   replay |-> h.intent, prefix |-> Prefix(h.dur), whole |-> Whole]
      BY <1>0, <2>4 DEF Request, StatusSteps, CloseSteps
    <3>2. Prefix(h.dur) \in Blocks /\ Whole \in Blocks
      BY <1>0, <2>2, PrefixFacts, SizeFacts DEF PutMachine
    <3>3. call' \in Requests /\ call'.op = "open"
      BY <1>7, <2>1, <2>2, <3>1, <3>2 DEF Requests
    <3>4. h.pc \in Opening
      BY <2>4 DEF Opening
    <3>5. /\ call'.prefix = Prefix(h.dur) /\ call'.offset = h.dur /\ call'.whole = Whole
          /\ call'.id = h.id /\ call'.replay = h.intent
      BY <3>1
    <3>6. Prefix(h.dur) \in Kept[h.id] /\ (h.intent => h.id \in Prepared)
      BY <1>7, <2>1, <3>4 DEF GoodPut
    <3>7. call'.prefix \in Kept'[call'.id] /\ (call'.replay => call'.id \in Prepared')
      BY <1>3, <3>5, <3>6
    <3>8. (call.prefix = Prefix(call.offset) /\ call.whole = Whole)'
      BY <1>3, <3>5 DEF Prefix
    <3> QED BY <3>3, <3>7, <3>8 DEF GoodPutCall
  <2>5. CASE h.pc = "put"
    <3>1. call' = [op |-> "put", id |-> h.id, offset |-> h.acc, prefix |-> h.prefix]
      BY <1>0, <2>5 DEF Request, StatusSteps, CloseSteps
    <3>2. call' \in Requests /\ call'.op = "put"
      BY <1>7, <2>1, <2>2, <3>1 DEF Requests
    <3>3. Past /\ Sound
      BY <2>5 DEF GoodPut, PutStream
    <3> QED BY <1>3, <3>2, <3>3 DEF GoodPutCall
  <2>6. h.pc \notin {"read", "ack"}
    BY <2>2 DEF PutHostPcs, Opening, Binding, PutStream
  <2> QED BY <1>0, <2>1, <2>3, <2>4, <2>5, <2>6 DEF Request
<1>9. Calling'
  <2>1. h.pc = "idle" => call' = None
    BY <1>7
  <2>2. ASSUME ~linked, h.pc # "idle" PROVE Cut'
    BY <1>0, <2>2 DEF PutTalk, Calling, Cut
  <2>3. h.pc # "idle" => h.id \in Ids
    BY DEF GoodPut
  <2>4. call' = (Request(host))'
    BY <1>0 DEF Request, Whole, Prefix, Size
  <2> QED BY <1>0, <2>1, <2>2, <2>3, <2>4 DEF Calling
<1> QED BY <1>2, <1>4, <1>5, <1>6, <1>8, <1>9 DEF PutInv, PutTalk

LEMMA BecomeFits ==
  ASSUME PutInv, UNCHANGED <<x, hlp, disk>>, NEW h, Become(h), GoodPut(h), Journals,
         h.pc # "idle" => journal'[h.id] # None,
         typed' \in Ids \cup {None},
         ~linked /\ h.pc # "idle" => host.pc # "idle" /\ typed' = typed /\ h.pc \notin Opening
  PROVE  PutInv'
BY HostFits DEF Become

LEMMA IdleHost == ASSUME PutInv PROVE GoodPut(NoTransfer) /\ NoTransfer.pc = "idle"
<1>1. "idle" \in PutHostPcs
  BY DEF PutHostPcs
<1> QED BY <1>1, Idles DEF GoodPut, NoTransfer, Opening, Binding, PutStream

LEMMA JournalStands == ASSUME PutInv, UNCHANGED journal PROVE Journals
BY DEF PutInv, PutTalk, PutJournalFits, Journals

LEMMA RaiseFits ==
  ASSUME PutInv, UNCHANGED <<x, hlp, disk>>, Raise
  PROVE  PutInv'
BY BecomeFits, IdleHost, JournalStands DEF Raise, PutInv, PutMachine, PutMachineTypes, WireTypes

\* A step of the host to a good state of the same transfer.
LEMMA ContinueFits ==
  ASSUME PutInv, UNCHANGED <<x, hlp, disk, typed>>, host.pc # "idle", Journals,
         \A i \in Ids : journal[i] # None => journal'[i] # None,
         NEW h, Become(h), GoodPut(h), h.id = host.id,
         linked \/ h.pc \notin Opening
  PROVE  PutInv'
<1>1. /\ host.id \in Ids /\ journal[host.id] # None
      /\ typed \in Ids \cup {None}
  BY DEF PutInv, PutTalk, Calling, PutJournalFits, PutMachine, PutMachineTypes, WireTypes
<1> QED BY <1>1, BecomeFits

\* A round of a loop, or its cancellation.
LEMMA RoundFits ==
  ASSUME PutInv, UNCHANGED <<x, hlp, disk, typed>>, host.pc # "idle", Journals,
         \A i \in Ids : journal[i] # None => journal'[i] # None,
         NEW h \in Hosts(PutHostPcs), NEW p \in PutHostPcs \ {"idle"},
         Round(h, p), GoodPut(At(h, p)), h.id = host.id, linked \/ p \notin Opening
  PROVE  PutInv'
<1>1. /\ host.id \in Ids /\ "cancel" \in PutHostPcs
  BY DEF PutInv, PutTalk, Calling, PutHostPcs
<1>2. /\ At(h, p).id = host.id /\ At(h, p).pc = p
      /\ At(h, p).st = h.st /\ At(h, p).intent = h.intent
  BY DEF At, Hosts
<1>3. /\ At(h, "cancel").id = host.id /\ At(h, "cancel").pc = "cancel"
      /\ At(h, "cancel").st = h.st /\ At(h, "cancel").intent = h.intent
      /\ At(h, "cancel") \in Hosts(PutHostPcs)
  BY <1>1, HostUpdates DEF At, Hosts
<1>4. GoodPut(At(h, "cancel"))
  BY <1>1, <1>2, <1>3 DEF GoodPut, Opening, Binding, PutStream
<1>5. CASE Become(At(h, p))
  BY <1>2, <1>5, ContinueFits
<1>6. CASE Become(At(h, "cancel"))
  <2>1. "cancel" \notin Opening
    BY DEF Opening
  <2> QED BY <1>3, <1>4, <1>6, <2>1, ContinueFits
<1> QED BY <1>5, <1>6 DEF Round

\* What a host at work may count on, and what a reply tells it.
LEMMA AtWork ==
  ASSUME PutInv, host.pc # "idle"
  PROVE  /\ GoodPut(host) /\ host \in Hosts(PutHostPcs) /\ host.id \in Ids
         /\ journal[host.id] # None /\ journal[host.id] \in PutRecords
         /\ Journals <=> /\ journal' \in [Ids -> PutRecords \cup {None}]
                         /\ \A i \in Ids : journal'[i] # None =>
                              /\ Prefix(journal'[i].off) \in Kept[i]
                              /\ journal'[i].close => i \in Prepared
         /\ ~file.get /\ Size \in Nat
         /\ host.dur \in Nat /\ host.acc \in Nat
BY SizeFacts DEF PutInv, PutTalk, PutHostFits, GoodPut, PutJournalFits, PutMachine, PutMachineTypes,
  Hosts, Journals

LEMMA Heard ==
  ASSUME PutInv, host.pc # "idle", rsp # None
  PROVE  /\ call # None /\ call = Request(host) /\ call.id = host.id
         /\ host.pc \in Opening => linked
         /\ host.pc = "put" => call.op = "put"
         /\ ~Bad(rsp) => GoodPutReply(rsp)
<1>1. /\ call # None /\ call = Request(host)
      /\ host.pc \in Opening => linked
  BY DEF PutInv, PutTalk, Calling
<1>2. call.id = host.id /\ (host.pc = "put" => call.op = "put")
  BY <1>1 DEF Request, StatusSteps, CloseSteps
<1>3. ~Bad(rsp) => rsp # Refused
  BY DEF Bad, Refused
<1> QED BY <1>1, <1>2, <1>3 DEF PutInv, PutTalk, PutReplyFits

\* The host goes on in the same way, with only its place changed.
LEMMA OpeningGoes ==
  ASSUME PutInv, host.pc \in Opening, NEW p \in Opening
  PROVE  GoodPut(At(host, p)) /\ At(host, p).id = host.id
<1>0. host.pc # "idle" /\ p # "idle" /\ p \in PutHostPcs /\ p \notin Binding \cup PutStream
  BY DEF Opening, Binding, PutStream, PutHostPcs
<1>1. GoodPut(host) /\ host \in Hosts(PutHostPcs)
  BY <1>0, AtWork
<1>2. /\ At(host, p) \in Hosts(PutHostPcs) /\ At(host, p).pc = p
      /\ At(host, p).id = host.id /\ At(host, p).st = host.st
      /\ At(host, p).intent = host.intent /\ At(host, p).dur = host.dur
  BY <1>0, <1>1, HostUpdates DEF At, Hosts
<1> HIDE DEF At
<1> QED BY <1>0, <1>1, <1>2 DEF GoodPut, PutStream

LEMMA OpeningFits ==
  ASSUME PutInv, UNCHANGED <<x, hlp, disk>>, GotOpen \/ TypeLine \/ LineTaken
  PROVE  PutInv'
<1>1. CASE GotOpen
  <2>0. host.pc = "open" /\ host.pc # "idle" /\ host.pc \in Opening /\ rsp # None
        /\ "type" \in Opening /\ "type" \in PutHostPcs \ {"idle"}
    BY <1>1 DEF GotOpen, Replied, Opening, PutHostPcs
  <2>1. CASE Raise
    BY <2>1, RaiseFits
  <2>2. CASE Round(host, "type") /\ UNCHANGED <<journal, done, typed>>
    <3>1. GoodPut(At(host, "type")) /\ linked /\ Journals /\ host \in Hosts(PutHostPcs)
      BY <2>0, <2>2, OpeningGoes, Heard, JournalStands, AtWork
    <3> QED BY <2>0, <2>2, <3>1, RoundFits
  <2> QED BY <1>1, <2>1, <2>2 DEF GotOpen
<1>2. CASE TypeLine
  <2>0. /\ host.pc = "type" /\ host.pc # "idle" /\ linked /\ Become(At(host, "typing")) /\ typed' = host.id
        /\ journal' = journal /\ host.pc \in Opening /\ "typing" \in Opening
    BY <1>2 DEF TypeLine, Opening
  <2>1. GoodPut(At(host, "typing")) /\ At(host, "typing").id = host.id /\ Journals
        /\ journal[host.id] # None /\ host.id \in Ids
    BY <2>0, OpeningGoes, JournalStands, AtWork
  <2> QED BY <2>0, <2>1, BecomeFits
<1>3. CASE LineTaken
  <2>0. /\ host.pc = "typing" /\ host.pc # "idle" /\ linked /\ Become(At(host, "await"))
        /\ UNCHANGED <<journal, typed>> /\ host.pc \in Opening /\ "await" \in Opening
    BY <1>3 DEF LineTaken, Continue, Opening
  <2>1. GoodPut(At(host, "await")) /\ At(host, "await").id = host.id /\ Journals
    BY <2>0, OpeningGoes, JournalStands
  <2> QED BY <2>0, <2>1, ContinueFits
<1> QED BY <1>1, <1>2, <1>3

\* A status that finds the transfer open binds the host to it.
LEMMA BoundFits ==
  ASSUME PutInv, host.pc # "idle", rsp # None, ~Bad(rsp),
         rsp.state \notin {"STAGED", "OPENING"}
  PROVE  /\ Bound(rsp) \in Hosts(PutHostPcs) /\ Bound(rsp).pc \in Binding
         /\ At(Bound(rsp), Bound(rsp).pc) = Bound(rsp)
         /\ Bound(rsp).id = host.id /\ GoodPut(Bound(rsp))
<1> DEFINE p == IF rsp.state \in Moving THEN "begin" ELSE "adopt"
           s == (rsp.prefix = Prefix(rsp.durable))
<1>0. /\ host \in Hosts(PutHostPcs) /\ host.id \in Ids /\ GoodPutReply(rsp)
      /\ rsp.state \in States /\ rsp.durable \in Nat /\ rsp.accepted \in Nat
      /\ p \in Binding /\ p \in PutHostPcs /\ s \in BOOLEAN /\ call.id = host.id
      /\ (host.intent => host.id \in Prepared)
  BY AtWork, Heard DEF GoodPutReply, Reports, Binding, PutHostPcs, GoodPut
<1>1. Bound(rsp) = [[[[[host EXCEPT !.pc = p] EXCEPT !.st = rsp.state] EXCEPT !.dur = rsp.durable]
                       EXCEPT !.acc = rsp.accepted] EXCEPT !.same = s]
  BY <1>0 DEF Bound, Hosts
<1> HIDE DEF p, s
<1>2. /\ [host EXCEPT !.pc = p] \in Hosts(PutHostPcs)
      /\ [[host EXCEPT !.pc = p] EXCEPT !.st = rsp.state] \in Hosts(PutHostPcs)
      /\ [[[host EXCEPT !.pc = p] EXCEPT !.st = rsp.state] EXCEPT !.dur = rsp.durable] \in Hosts(PutHostPcs)
  BY <1>0, HostUpdates
<1>3. [[[[host EXCEPT !.pc = p] EXCEPT !.st = rsp.state] EXCEPT !.dur = rsp.durable]
                       EXCEPT !.acc = rsp.accepted] \in Hosts(PutHostPcs)
  BY <1>0, <1>2, HostUpdates
<1>4. Bound(rsp) \in Hosts(PutHostPcs)
  <2>1. \A r \in Hosts(PutHostPcs) : [r EXCEPT !.same = s] \in Hosts(PutHostPcs)
    BY <1>0, HostUpdates
  <2> QED BY <1>1, <1>3, <2>1
<1>5. /\ Bound(rsp).pc = p /\ Bound(rsp).st = rsp.state /\ Bound(rsp).dur = rsp.durable
      /\ Bound(rsp).same = s /\ Bound(rsp).id = host.id /\ Bound(rsp).intent = host.intent
  BY <1>0 DEF Bound, Hosts, p, s
<1>6. At(Bound(rsp), Bound(rsp).pc) = Bound(rsp)
  BY <1>4 DEF At, Hosts
<1>7. Opened(rsp.state) /\ Readied0(rsp.state)
  BY <1>0 DEF Opened, Readied0, Bad, States, Terminal, GoodPutReply
<1>8. /\ Past /\ host.id \in Prepared /\ (s => Sound /\ Prefix(rsp.durable) \in Kept[host.id])
      /\ rsp.state = "COMPLETE" => HasName
  BY <1>0, <1>7 DEF GoodPutReply, s
<1>9. p \notin Opening \cup PutStream
  BY <1>0 DEF Binding, Opening, PutStream
<1> HIDE DEF GoodPut
<1>10. GoodPut(Bound(rsp))
  BY <1>0, <1>4, <1>5, <1>8, <1>9 DEF GoodPut, PutStream
<1> QED BY <1>0, <1>4, <1>5, <1>6, <1>10

LEMMA RecoverFits ==
  ASSUME PutInv, UNCHANGED <<x, hlp, disk>>, GotRecover \/ GotAwait
  PROVE  PutInv'
<1>0. /\ host.pc \in {"recover", "await"} /\ host.pc # "idle" /\ host.pc \in Opening /\ rsp # None
      /\ {"open", "type", "await"} \subseteq Opening
      /\ {"open", "type", "await"} \subseteq PutHostPcs \ {"idle"}
  BY DEF GotRecover, GotAwait, Replied, Opening, PutHostPcs
<1>1. linked /\ host \in Hosts(PutHostPcs) /\ (UNCHANGED journal => Journals)
  BY <1>0, Heard, AtWork, JournalStands
<1>2. CASE Raise
  BY <1>2, RaiseFits
<1>3. CASE Continue(At(host, "open"))
  BY <1>0, <1>1, <1>3, OpeningGoes, ContinueFits DEF Continue
<1>4. ASSUME NEW p \in {"type", "await"}, Round(host, p), UNCHANGED <<journal, typed>>
      PROVE  PutInv'
  BY <1>0, <1>1, <1>4, OpeningGoes, RoundFits
<1>5. ASSUME ~Bad(rsp), rsp.state \notin {"STAGED", "OPENING"}, UNCHANGED <<journal, typed>>,
             Round(Bound(rsp), Bound(rsp).pc) \/ Become(Bound(rsp))
      PROVE  PutInv'
  <2>1. /\ Bound(rsp) \in Hosts(PutHostPcs) /\ Bound(rsp).pc \in Binding
        /\ At(Bound(rsp), Bound(rsp).pc) = Bound(rsp)
        /\ Bound(rsp).id = host.id /\ GoodPut(Bound(rsp))
    BY <1>0, <1>5, BoundFits
  <2>2. Bound(rsp).pc \in PutHostPcs \ {"idle"}
    BY <2>1 DEF Binding, PutHostPcs
  <2>3. CASE Round(Bound(rsp), Bound(rsp).pc)
    BY <1>0, <1>1, <1>5, <2>1, <2>2, <2>3, RoundFits
  <2>4. CASE Become(Bound(rsp))
    BY <1>0, <1>1, <1>5, <2>1, <2>4, ContinueFits
  <2> QED BY <1>5, <2>3, <2>4
<1>6. CASE GotRecover
  BY <1>2, <1>3, <1>4, <1>5, <1>6 DEF GotRecover
<1>7. CASE GotAwait
  BY <1>2, <1>4, <1>5, <1>7 DEF GotAwait, Continue
<1> QED BY <1>6, <1>7

\* A host that streams knows that all is well, whatever it does next.
LEMMA StreamGoes ==
  ASSUME PutInv, host.pc \in PutStream \/ (host.pc \in Binding /\ host.same),
         NEW h \in Hosts(PutHostPcs), h.id = host.id,
         Prefix(h.dur) \in Kept[h.id], h.st = "COMPLETE" => HasName,
         NEW p \in PutStream, p \in {"lastclose", "finish"} => h.st = "COMPLETE"
  PROVE  /\ GoodPut(At(h, p)) /\ At(h, p).id = host.id
         /\ p \in PutHostPcs \ {"idle"} /\ p \notin Opening /\ host.pc # "idle"
<1>0. /\ host.pc # "idle" /\ p \in PutHostPcs \ {"idle"} /\ p \notin Binding \cup Opening
      /\ host.pc \in Binding \cup PutStream
  BY DEF Binding, PutStream, Opening, PutHostPcs
<1>1. host.id \in Ids /\ Past /\ host.id \in Prepared /\ Sound
  BY <1>0, AtWork DEF GoodPut
<1>2. /\ At(h, p) \in Hosts(PutHostPcs) /\ At(h, p).pc = p /\ At(h, p).id = h.id
      /\ At(h, p).st = h.st /\ At(h, p).dur = h.dur
  BY <1>0, HostUpdates DEF At, Hosts
<1> HIDE DEF At
<1> QED BY <1>0, <1>1, <1>2 DEF GoodPut

LEMMA TurnFacts ==
  ASSUME NEW h
  PROVE  Turn(h) \in PutStream /\ (Turn(h) \in {"lastclose", "finish"} => h.st = "COMPLETE")
BY DEF Turn, PutStream

\* A record that is journalled is backed by what is kept.
LEMMA JournalSet ==
  ASSUME PutInv, host.pc # "idle", NEW r \in PutRecords,
         journal' = [journal EXCEPT ![host.id] = r] \/ journal' = journal,
         Prefix(r.off) \in Kept[host.id], r.close => host.id \in Prepared
  PROVE  Journals /\ \A i \in Ids : journal[i] # None => journal'[i] # None
<1>1. /\ host.id \in Ids /\ journal \in [Ids -> PutRecords \cup {None}] /\ r # None
      /\ \A i \in Ids : journal[i] # None =>
           Prefix(journal[i].off) \in Kept[i] /\ (journal[i].close => i \in Prepared)
  BY AtWork, NoneAssumption DEF PutInv, PutTalk, PutJournalFits
<1>2. CASE journal' = [journal EXCEPT ![host.id] = r]
  BY <1>1, <1>2 DEF Journals
<1>3. CASE journal' = journal
  BY <1>1, <1>3 DEF Journals
<1> QED BY <1>2, <1>3

LEMMA OffsetSet ==
  ASSUME PutInv, host.pc # "idle", NEW d \in Nat, Prefix(d) \in Kept[host.id],
         journal' = [journal EXCEPT ![host.id].off = d] \/ journal' = journal
  PROVE  Journals /\ \A i \in Ids : journal[i] # None => journal'[i] # None
<1>1. host.id \in Ids /\ journal[host.id] \in PutRecords /\ journal[host.id] # None
      /\ journal \in [Ids -> PutRecords \cup {None}]
      /\ (journal[host.id].close => host.id \in Prepared)
  BY AtWork DEF PutInv, PutTalk, PutJournalFits
<1> DEFINE r == [journal[host.id] EXCEPT !.off = d]
<1>2. r \in PutRecords /\ r.off = d /\ r.close = journal[host.id].close
  BY <1>1 DEF PutRecords
<1>3. journal' = [journal EXCEPT ![host.id] = r] \/ journal' = journal
  BY <1>1
<1> HIDE DEF r
<1> QED BY <1>1, <1>2, <1>3, JournalSet

LEMMA AdoptFits ==
  ASSUME PutInv, UNCHANGED <<x, hlp, disk>>, Adopt
  PROVE  PutInv'
<1>0. host.pc = "adopt" /\ host.pc # "idle" /\ host.pc \in Binding
  BY DEF Adopt, Binding
<1>1. CASE Raise
  BY <1>1, RaiseFits
<1>2. CASE /\ host.same /\ UNCHANGED typed
           /\ Become(At(host, "seal")) \/ Round(host, Turn(host))
           /\ journal' = [journal EXCEPT ![host.id].off = host.dur]
  <2>1. /\ host \in Hosts(PutHostPcs) /\ host.dur \in Nat
        /\ Prefix(host.dur) \in Kept[host.id] /\ (host.st = "COMPLETE" => HasName)
    BY <1>0, <1>2, AtWork DEF GoodPut
  <2>2. Journals /\ \A i \in Ids : journal[i] # None => journal'[i] # None
    BY <1>0, <1>2, <2>1, OffsetSet
  <2>3. CASE Become(At(host, "seal"))
    <3>1. "seal" \in PutStream /\ "seal" \notin {"lastclose", "finish"}
      BY DEF PutStream
    <3>2. GoodPut(At(host, "seal")) /\ At(host, "seal").id = host.id /\ "seal" \notin Opening
      BY <1>0, <1>2, <2>1, <3>1, StreamGoes
    <3>3. At(host, "seal").pc = "seal"
      BY <2>1 DEF At, Hosts
    <3> QED BY <1>0, <1>2, <2>2, <2>3, <3>2, <3>3, ContinueFits
  <2>4. CASE Round(host, Turn(host))
    <3>1. /\ GoodPut(At(host, Turn(host))) /\ Turn(host) \in PutHostPcs \ {"idle"} /\ Turn(host) \notin Opening
      BY <1>0, <1>2, <2>1, TurnFacts, StreamGoes
    <3> QED BY <1>0, <1>2, <2>1, <2>2, <2>4, <3>1, RoundFits
  <2> QED BY <1>2, <2>3, <2>4
<1> QED BY <1>1, <1>2 DEF Adopt

\* A boundary that a reply brings is taken over, and journalled.
LEMMA ReconcileFits ==
  ASSUME PutInv, UNCHANGED <<x, hlp, disk>>, host.pc \in PutStream,
         NEW h \in Hosts(PutHostPcs), h.id = host.id, h.st = "COMPLETE" => HasName,
         NEW d \in Nat, Prefix(d) \in Kept[host.id], Reconcile(h, d)
  PROVE  PutInv'
<1>1. CASE Raise
  BY <1>1, RaiseFits
<1>2. CASE /\ Round([h EXCEPT !.dur = d], Turn([h EXCEPT !.dur = d]))
           /\ journal' = Checkpoint(d) /\ UNCHANGED typed
  <2> DEFINE now == [h EXCEPT !.dur = d]
  <2>1. now \in Hosts(PutHostPcs) /\ now.id = host.id /\ now.st = h.st /\ now.dur = d
    BY HostUpdates DEF Hosts
  <2>2. Round(now, Turn(now)) /\ host.pc # "idle"
    BY <1>2 DEF PutStream
  <2>3. Journals /\ \A i \in Ids : journal[i] # None => journal'[i] # None
    BY <1>2, <2>2, OffsetSet DEF Checkpoint
  <2> HIDE DEF now
  <2>4. Prefix(now.dur) \in Kept[now.id] /\ (now.st = "COMPLETE" => HasName)
    BY <2>1
  <2>5. Turn(now) \in PutStream /\ (Turn(now) \in {"lastclose", "finish"} => now.st = "COMPLETE")
    BY TurnFacts
  <2>6. /\ GoodPut(At(now, Turn(now))) /\ Turn(now) \in PutHostPcs \ {"idle"} /\ Turn(now) \notin Opening
    BY <2>1, <2>4, <2>5, StreamGoes
  <2> QED BY <1>2, <2>1, <2>2, <2>3, <2>6, RoundFits
<1> QED BY <1>1, <1>2 DEF Reconcile

LEMMA StreamFits ==
  ASSUME PutInv, UNCHANGED <<x, hlp, disk>>, GotPut \/ GotPoll
  PROVE  PutInv'
<1>0. host.pc \in {"put", "poll"} /\ host.pc # "idle" /\ rsp # None /\ host.pc \in PutStream
  BY DEF GotPut, GotPoll, Replied, PutStream
<1>1. CASE Raise
  BY <1>1, RaiseFits
<1>2. ASSUME ~Bad(rsp), host.pc = "put" \/ rsp.prefix = Prefix(rsp.durable)
      PROVE  /\ Prefix(rsp.durable) \in Kept[host.id] /\ rsp.durable \in Nat /\ rsp.state \in States
             /\ rsp.state = "COMPLETE" => HasName
  BY <1>0, <1>2, Heard DEF GoodPutReply, Reports
<1>3. host \in Hosts(PutHostPcs) /\ host.acc + 1 \in Nat /\ (host.st = "COMPLETE" => HasName)
  BY <1>0, AtWork DEF GoodPut
<1>4. CASE GotPut /\ ~Bad(rsp) /\ Reconcile([host EXCEPT !.acc = @ + 1], rsp.durable)
  <2> DEFINE h == [host EXCEPT !.acc = host.acc + 1]
  <2>1. h \in Hosts(PutHostPcs) /\ h.id = host.id /\ h.st = host.st /\ Reconcile(h, rsp.durable)
    BY <1>3, <1>4, HostUpdates DEF Hosts
  <2>2. host.pc = "put"
    BY <1>4 DEF GotPut, Replied
  <2> HIDE DEF h
  <2> QED BY <1>0, <1>2, <1>3, <1>4, <2>1, <2>2, ReconcileFits
<1>5. CASE /\ GotPoll /\ ~Bad(rsp) /\ rsp.prefix = Prefix(rsp.durable)
           /\ Reconcile([host EXCEPT !.st = rsp.state], rsp.durable)
  <2> DEFINE h == [host EXCEPT !.st = rsp.state]
  <2>1. h \in Hosts(PutHostPcs) /\ h.id = host.id /\ h.st = rsp.state /\ Reconcile(h, rsp.durable)
    BY <1>2, <1>3, <1>5, HostUpdates DEF Hosts
  <2> HIDE DEF h
  <2> QED BY <1>0, <1>2, <1>5, <2>1, ReconcileFits
<1>6. CASE GotPut
  BY <1>1, <1>4, <1>6 DEF GotPut
<1>7. CASE GotPoll
  BY <1>1, <1>5, <1>7 DEF GotPoll
<1> QED BY <1>6, <1>7

LEMMA SealFits ==
  ASSUME PutInv, UNCHANGED <<x, hlp, disk>>, SaveIntent
  PROVE  PutInv'
<1>0. host.pc \in {"seal", "intent"} /\ host.pc # "idle" /\ host.pc \in PutStream
  BY DEF SaveIntent, PutStream
<1>1. CASE Raise
  BY <1>1, RaiseFits
<1> DEFINE now == [host EXCEPT !.intent = TRUE]
<1>2. CASE /\ host.dur = Size /\ UNCHANGED typed
           /\ journal' = [journal EXCEPT ![host.id] = Record(Size, TRUE)]
           /\ Round(now, Turn(now)) \/ Become(At(now, "close"))
  <2>1. /\ host \in Hosts(PutHostPcs) /\ Size \in Nat /\ host.id \in Prepared
        /\ Prefix(Size) \in Kept[host.id] /\ (host.st = "COMPLETE" => HasName)
    BY <1>0, <1>2, AtWork DEF GoodPut
  <2>2. /\ now \in Hosts(PutHostPcs) /\ now.id = host.id /\ now.dur = Size /\ now.st = host.st
    <3>1. TRUE \in BOOLEAN
      OBVIOUS
    <3>2. now \in Hosts(PutHostPcs)
      BY <2>1, <3>1, HostUpdates, Zenon
    <3> QED BY <1>2, <2>1, <3>2 DEF Hosts
  <2>3. Record(Size, TRUE) \in PutRecords /\ Record(Size, TRUE).off = Size
    BY <2>1 DEF Record, PutRecords
  <2>4. Journals /\ \A i \in Ids : journal[i] # None => journal'[i] # None
    BY <1>0, <1>2, <2>1, <2>3, JournalSet
  <2> HIDE DEF now
  <2>5. ASSUME NEW p \in PutStream, p \in {"lastclose", "finish"} => now.st = "COMPLETE"
        PROVE  /\ GoodPut(At(now, p)) /\ At(now, p).id = host.id
               /\ p \in PutHostPcs \ {"idle"} /\ p \notin Opening
    BY <1>0, <2>1, <2>2, <2>5, StreamGoes
  <2>6. CASE Round(now, Turn(now))
    <3>1. Turn(now) \in PutStream /\ (Turn(now) \in {"lastclose", "finish"} => now.st = "COMPLETE")
      BY TurnFacts
    <3>2. GoodPut(At(now, Turn(now))) /\ Turn(now) \in PutHostPcs \ {"idle"} /\ Turn(now) \notin Opening
      BY <2>5, <3>1
    <3> QED BY <1>0, <1>2, <2>2, <2>4, <2>6, <3>2, RoundFits
  <2>7. CASE Become(At(now, "close"))
    <3>1. "close" \in PutStream /\ "close" \notin {"lastclose", "finish"} /\ At(now, "close").pc = "close"
      BY <2>2 DEF PutStream, At, Hosts
    <3>2. GoodPut(At(now, "close")) /\ At(now, "close").id = host.id /\ "close" \notin Opening
      BY <2>5, <3>1
    <3> QED BY <1>0, <1>2, <2>4, <2>7, <3>1, <3>2, ContinueFits
  <2> QED BY <1>2, <2>6, <2>7
<1> QED BY <1>1, <1>2 DEF SaveIntent

LEMMA CloseFits ==
  ASSUME PutInv, UNCHANGED <<x, hlp, disk>>, GotClose
  PROVE  PutInv'
<1>0. host.pc \in {"close", "lastclose"} /\ host.pc # "idle" /\ host.pc \in PutStream
  BY DEF GotClose, CloseSteps, PutStream
<1>1. CASE Raise
  BY <1>1, RaiseFits
<1> DEFINE p == IF host.pc = "close" THEN "poll" ELSE "finish"
           now == [host EXCEPT !.sent = TRUE]
<1>2. CASE Continue([host EXCEPT !.sent = TRUE, !.pc = IF @ = "close" THEN "poll" ELSE "finish"])
  <2>1. /\ host \in Hosts(PutHostPcs) /\ Prefix(host.dur) \in Kept[host.id]
        /\ (host.st = "COMPLETE" => HasName)
        /\ (host.pc = "lastclose" => host.st = "COMPLETE")
    BY <1>0, AtWork DEF GoodPut
  <2>2. /\ now \in Hosts(PutHostPcs) /\ now.id = host.id /\ now.dur = host.dur /\ now.st = host.st
    <3>1. TRUE \in BOOLEAN
      OBVIOUS
    <3>2. now \in Hosts(PutHostPcs)
      BY <2>1, <3>1, HostUpdates, Zenon
    <3> QED BY <2>1, <3>2 DEF Hosts
  <2>3. p \in PutStream /\ (p \in {"lastclose", "finish"} => now.st = "COMPLETE")
    BY <1>0, <2>1, <2>2 DEF PutStream
  <2>4. [host EXCEPT !.sent = TRUE, !.pc = IF @ = "close" THEN "poll" ELSE "finish"] = At(now, p)
    BY <2>1 DEF At, Hosts
  <2>5. At(now, p).pc = p
    BY <2>2 DEF At, Hosts
  <2>6. Become(At(now, p)) /\ UNCHANGED <<journal, typed>>
    BY <1>2, <2>4 DEF Continue
  <2> HIDE DEF now, p
  <2>7. GoodPut(At(now, p)) /\ At(now, p).id = host.id /\ p \notin Opening
    BY <1>0, <2>1, <2>2, <2>3, StreamGoes
  <2>8. Journals
    BY <2>6, JournalStands
  <2> QED BY <1>0, <2>5, <2>6, <2>7, <2>8, ContinueFits
<1> QED BY <1>1, <1>2 DEF GotClose

LEMMA CompleteFits ==
  ASSUME PutInv, UNCHANGED <<x, hlp, disk>>, CompletePut
  PROVE  PutInv'
<1>1. CASE Raise
  BY <1>1, RaiseFits
<1>2. CASE /\ Become(NoTransfer) /\ UNCHANGED typed
           /\ journal' = [journal EXCEPT ![host.id] = None] /\ host.pc = "finish"
  <2>1. Journals
    BY <1>2 DEF PutInv, PutTalk, PutJournalFits, Journals
  <2> QED BY <1>2, <2>1, IdleHost, BecomeFits DEF PutInv, PutMachine, PutMachineTypes, WireTypes
<1> QED BY <1>1, <1>2 DEF CompletePut

LEMMA BeginFits ==
  ASSUME PutInv, UNCHANGED <<x, hlp, disk>>, GotBegin \/ GotCancel \/ Stalls
  PROVE  PutInv'
<1>1. CASE Raise
  BY <1>1, RaiseFits
<1>2. CASE GotBegin /\ Continue(At(host, "adopt"))
  <2>0. host.pc = "begin" /\ host.pc # "idle" /\ host.pc \in Binding /\ "adopt" \in Binding
        /\ "adopt" \in PutHostPcs /\ "adopt" \notin Opening \cup PutStream
        /\ host.pc \notin Opening \cup PutStream
    BY <1>2 DEF GotBegin, Replied, Binding, PutHostPcs, Opening, PutStream
  <2>1. GoodPut(host) /\ host \in Hosts(PutHostPcs)
    BY <2>0, AtWork
  <2>2. /\ At(host, "adopt") \in Hosts(PutHostPcs) /\ At(host, "adopt").pc = "adopt"
        /\ At(host, "adopt").id = host.id /\ At(host, "adopt").st = host.st
        /\ At(host, "adopt").intent = host.intent /\ At(host, "adopt").dur = host.dur
        /\ At(host, "adopt").same = host.same
    BY <2>0, <2>1, HostUpdates DEF At, Hosts
  <2> HIDE DEF At
  <2>3. GoodPut(At(host, "adopt"))
    BY <2>0, <2>1, <2>2 DEF GoodPut, PutStream
  <2>4. Journals
    BY <1>2, JournalStands DEF Continue
  <2> QED BY <1>2, <2>0, <2>2, <2>3, <2>4, ContinueFits DEF Continue
<1>3. CASE Stalls
  <2>1. Journals /\ typed' \in Ids \cup {None}
    BY <1>3, JournalStands DEF Stalls, PutInv, PutMachine, PutMachineTypes, WireTypes
  <2> QED BY <1>3, <2>1, IdleHost, BecomeFits DEF Stalls
<1> QED BY <1>1, <1>2, <1>3 DEF GotBegin, GotCancel

\* The host starts: anew, from nothing; or again, from what is journalled.
LEMMA StartFits ==
  ASSUME PutInv, UNCHANGED <<x, hlp, disk>>, Puts
  PROVE  PutInv'
<1>0. /\ host.pc = "idle" /\ linked /\ UNCHANGED typed
      /\ typed \in Ids \cup {None} /\ <<>> \in Blocks
  BY StateNames DEF Puts, PutAnew, PutResume, Continue, PutInv, PutMachine, PutMachineTypes, WireTypes
<1>1. CASE PutAnew
  <2>1. PICK i \in Ids : /\ journal' = [journal EXCEPT ![i] = Record(0, FALSE)]
                         /\ host' = [NoTransfer EXCEPT !.pc = "open", !.id = i]
                         /\ call' = Request(host')
    BY <1>1 DEF PutAnew
  <2> DEFINE h == [NoTransfer EXCEPT !.pc = "open", !.id = i]
  <2>2. <<>> \in Kept[i] /\ Prefix(0) = <<>>
    BY <1>0, PrefixFacts DEF Kept
  <2>3. h \in Hosts(PutHostPcs) /\ h.pc = "open" /\ h.id = i /\ h.dur = 0 /\ ~h.intent /\ h.st = "IDLE"
    <3>1. "open" \in PutHostPcs /\ "IDLE" \in States
      BY StateNames DEF PutHostPcs, Opening
    <3> QED BY <1>0, <3>1 DEF NoTransfer, Hosts
  <2>4. Journals /\ journal'[i] # None
    <3>1. Record(0, FALSE) \in PutRecords /\ Record(0, FALSE) # None
          /\ Record(0, FALSE).off = 0 /\ ~Record(0, FALSE).close
      <4>1. Record(0, FALSE) \in PutRecords /\ Record(0, FALSE).off = 0 /\ Record(0, FALSE).close = FALSE
        BY DEF Record, PutRecords
      <4> QED BY <4>1, NoneAssumption
    <3> QED BY <2>1, <2>2, <3>1 DEF PutInv, PutTalk, PutJournalFits, Journals
  <2>5. rsp' = None
    BY <1>0, <1>1 DEF PutAnew, PutInv, PutTalk, Calling
  <2>6. host' = h /\ call' = Request(h) /\ UNCHANGED <<linked, file>>
    BY <1>1, <2>1 DEF PutAnew
  <2>7. GoodPut(h)
    BY <2>2, <2>3, "open" # "idle" DEF GoodPut, Binding, PutStream
  <2> HIDE DEF h
  <2> QED BY <1>0, <2>3, <2>4, <2>5, <2>6, <2>7, HostFits
<1>2. ASSUME NEW a \in BOOLEAN, PutResume(a) PROVE PutInv'
  <2>1. PICK i \in Matching :
          Continue([NoTransfer EXCEPT !.pc = "recover", !.id = i, !.resumed = TRUE,
                   !.attach = a, !.dur = journal[i].off, !.intent = journal[i].close])
    BY <1>2 DEF PutResume
  <2> DEFINE h == [NoTransfer EXCEPT !.pc = "recover", !.id = i, !.resumed = TRUE,
                   !.attach = a, !.dur = journal[i].off, !.intent = journal[i].close]
  <2>2. /\ i \in Ids /\ journal[i] # None /\ journal[i] \in PutRecords
        /\ Prefix(journal[i].off) \in Kept[i] /\ (journal[i].close => i \in Prepared)
        /\ journal[i].off \in Nat /\ journal[i].close \in BOOLEAN
    BY DEF Matching, PutInv, PutTalk, PutJournalFits, PutRecords
  <2>3. h \in Hosts(PutHostPcs) /\ h.pc = "recover" /\ h.id = i /\ h.dur = journal[i].off
        /\ h.intent = journal[i].close /\ h.st = "IDLE"
    <3>1. "recover" \in PutHostPcs /\ "IDLE" \in States
      BY StateNames DEF PutHostPcs, Opening
    <3> QED BY <1>0, <2>2, <3>1 DEF NoTransfer, Hosts
  <2>4. GoodPut(h)
    BY <2>2, <2>3 DEF GoodPut, Binding, PutStream
  <2>5. Become(h) /\ UNCHANGED <<journal, typed>>
    BY <2>1 DEF Continue
  <2> HIDE DEF h
  <2>6. Journals
    BY <2>5, JournalStands
  <2> QED BY <1>0, <2>2, <2>3, <2>4, <2>5, <2>6, BecomeFits
<1> QED BY <1>1, <1>2 DEF Puts

LEMMA GivesUp ==
  ASSUME PutInv, UNCHANGED <<x, hlp, disk>>, GiveUp
  PROVE  PutInv'
<1>0. /\ host' = NoTransfer /\ linked' = FALSE /\ UNCHANGED <<journal, call, rsp, typed, file>>
      /\ PutMachine /\ PutTalk
  BY DEF GiveUp, PutInv
<1>1. SameTransfer
  BY <1>0 DEF SameTransfer, PutMachine, PutMachineTypes, WireTypes
<1>2. PutMachine' /\ Grows
  <2>1. x'.pump => hlp'.pc = "pumping"
    BY <1>0 DEF PutMachine, Owned
  <2>2. linked' \in BOOLEAN /\ typed' \in Ids \cup {None}
    BY <1>0 DEF PutMachine, PutMachineTypes, WireTypes
  <2> QED BY <1>0, <1>1, <2>1, <2>2, SameKeeps
<1>3. Calling'
  BY <1>0 DEF PutTalk, Calling, NoTransfer
<1>4. PutHostFits'
  <2>1. NoTransfer \in Hosts(PutHostPcs) /\ NoTransfer.pc = "idle" /\ NoTransfer.st = "IDLE"
    BY IdleHost DEF GoodPut, NoTransfer
  <2> QED BY <1>0, <2>1 DEF PutHostFits, GoodPut, Opening, Binding, PutStream
<1>5. PutJournalFits'
  BY <1>0, <1>2 DEF PutTalk, PutJournalFits, Grows, Prefix, NoTransfer
<1>6. PutCallFits'
  BY <1>0, <1>2, CallStays DEF PutTalk
<1>7. PutReplyFits'
  BY <1>0, <1>2, ReplyStays DEF PutTalk, Calling
<1> QED BY <1>2, <1>3, <1>4, <1>5, <1>6, <1>7 DEF PutInv, PutTalk

LEMMA HostTalks ==
  ASSUME PutInv, HostAction
  PROVE  PutInv'
<1>0. UNCHANGED <<x, hlp, disk>> /\ ~file.get /\ host.pc \in PutHostPcs
  BY DEF HostAction, MsxVars, PutInv, PutMachine, PutMachineTypes, PutTalk, PutHostFits, GoodPut, Hosts
<1>1. ~GetHostSteps /\ ~Gets
  <2>1. host.pc \notin {"read", "ack", "complete", "link", "unlink", "forget"}
    BY <1>0 DEF PutHostPcs, Opening, Binding, PutStream
  <2> QED BY <1>0, <2>1 DEF GetHostSteps, Gets, GetRecover, GetAwait, GetAdopt, GotRead, GotAck, GetClosed,
      GetComplete, LinkDest, Unlink, CompleteGet, GetAnew, GetResume, Replied
<1>2. CASE PutHostSteps
  BY <1>0, <1>2, RecoverFits, AdoptFits, StreamFits, SealFits, CloseFits, CompleteFits DEF PutHostSteps
<1>3. CASE SharedHostSteps
  BY <1>0, <1>3, OpeningFits, BeginFits DEF SharedHostSteps
<1>4. CASE Puts \/ Stalls
  BY <1>0, <1>4, StartFits, BeginFits
<1>5. CASE GiveUp
  BY <1>0, <1>5, GivesUp
<1> QED BY <1>1, <1>2, <1>3, <1>4, <1>5 DEF HostAction, HostSteps

----------------------------------------------------------------------------
(* PUT: the invariant. *)

LEMMA PutStarts ==
  ASSUME Init, ~file.get PROVE PutInv
<1> USE DEF Init, HostInit, LocalInit
<1>0. /\ x \in Transfers /\ hlp \in Helpers(PutHelperPcs) /\ GoodPut(host)
      /\ x.state = "IDLE" /\ x.prefix = <<>> /\ x.pending = <<>> /\ ~x.close /\ ~x.pump /\ ~x.replay
      /\ x.accepted = 0 /\ x.from = 0
      /\ hlp.pc = "prompt" /\ hlp.phase = "RECEIVING" /\ ~hlp.owned
      /\ host.pc = "idle" /\ host.id = None
  <2>1. "prompt" \in PutHelperPcs /\ "idle" \in PutHostPcs
    BY DEF PutHelperPcs, PutHostPcs
  <2>2. NoTransfer \in Hosts(PutHostPcs)
    BY <2>1, Idles
  <2>3. GoodPut(NoTransfer)
    BY <2>2 DEF GoodPut, NoTransfer, Opening, Binding, PutStream
  <2> QED BY <2>1, <2>3, Idles DEF IdleTransfer, AtPrompt, NoTransfer
<1>1. WireTypes
  BY <1>0 DEF WireTypes
<1>2. PICK out \in {None} \cup Foreigns, target \in {None} \cup Foreigns :
        disk = [meta |-> [i \in Ids |-> None], part |-> [i \in Ids |-> None],
               out |-> [i \in Ids |-> out], target |-> target]
  OBVIOUS
<1>3. Foreigns \subseteq Files /\ None \notin Foreigns
      /\ \A g \in Foreigns : g.safe = Len(g.data) /\ ~g.mine
  <2>1. Foreigns \subseteq Files /\ None \notin Foreigns
    <3>1. Size \in Nat
      BY WireAssumption DEF Size
    <3>2. Whole \in Blocks
      BY <3>1, PrefixFacts DEF Whole
    <3>3. Size + 1 \in Nat
      BY <3>1
    <3>4. <<Size + 1>> \in Blocks
      BY <3>3 DEF Blocks
    <3>5. ASSUME NEW d \in Blocks PROVE [data |-> d, safe |-> Len(d), mine |-> FALSE] \in Files
      <4>1. Len(d) \in Nat
        BY DEF Blocks
      <4> QED BY <4>1 DEF Files
    <3>6. Foreigns \subseteq Files
      BY <3>2, <3>4, <3>5 DEF Foreigns
    <3>7. None \notin Files
      BY NoneAssumption
    <3> QED BY <3>6, <3>7
  <2>2. ASSUME NEW g \in Foreigns PROVE g.safe = Len(g.data) /\ ~g.mine
    <3>1. PICK d \in {<<Size + 1>>, Whole} : g = [data |-> d, safe |-> Len(d), mine |-> FALSE]
      BY DEF Foreigns
    <3> QED BY <3>1
  <2> QED BY <2>1, <2>2
<1>4. disk \in Disks
  BY <1>2, <1>3 DEF Disks
<1>5. PutMachineTypes
  BY <1>0, <1>1, <1>4 DEF PutMachineTypes
<1>6. Owned /\ PutLive /\ PutHeld
  BY <1>0 DEF Owned, PutLive, PutHeld, Moving, Receiving, Publishing
<1>7. DiskSafe
  <2>1. None \notin Public
    BY NoneAssumption DEF Public, Phases, Rank
  <2> QED BY <1>2, <1>3, <2>1 DEF DiskSafe
<1>8. ScratchKnown /\ HelperStep
  BY <1>0, <1>2, NoneAssumption DEF ScratchKnown, HelperStep, Public, Phases, Rank, WireOpen, Receiving, Flushing
<1>9. PutResidentFits
  BY <1>0 DEF PutResidentFits, Readied0, Moving
<1>10. PutTalk
  BY <1>0 DEF PutTalk, Calling, PutHostFits, PutJournalFits, PutCallFits, PutReplyFits
<1> QED BY <1>5, <1>6, <1>7, <1>8, <1>9, <1>10 DEF PutInv, PutMachine

LEMMA PutStep == PutInv /\ [Next]_vars => PutInv'
<1>1. ASSUME PutInv, Next PROVE PutInv'
  BY <1>1, HostTalks, AgentTalks, ReconnectTalks, HelperTalks, ResetTalks, IntrudeTalks
    DEF Next, HelperAction, Interrupted
<1>2. ASSUME PutInv, UNCHANGED vars PROVE PutInv'
  <2>1. /\ UNCHANGED <<x, hlp, disk, linked, typed, file, call, rsp, host, journal>>
        /\ PutMachine /\ PutTalk
    BY <1>2 DEF vars, PutInv
  <2>2. SameTransfer /\ (x'.pump => hlp'.pc = "pumping")
        /\ linked' \in BOOLEAN /\ typed' \in Ids \cup {None}
    BY <2>1 DEF SameTransfer, PutMachine, PutMachineTypes, WireTypes, Owned
  <2>3. PutMachine' /\ Grows
    BY <2>1, <2>2, SameKeeps
  <2>4. PutReplyFits'
    BY <2>1, <2>3, ReplyStays DEF PutTalk, Calling
  <2>5. PutTalk'
    BY <2>1, <2>3, <2>4, TalkStays DEF PutTalk, Calling, Cut
  <2> QED BY <2>3, <2>5 DEF PutInv
<1> QED BY <1>1, <1>2

----------------------------------------------------------------------------
(* PUT: the properties. *)

LEMMA PutBlocks == ASSUME PutInv PROVE NothingLost
<1>1. PutMachine /\ ~file.get
  BY DEF PutInv, PutMachine, PutMachineTypes
<1>2. ASSUME x.state \in Moving, hlp.pc \in Receiving
      PROVE  /\ hlp.id = x.id /\ Len(Held) = x.accepted
             /\ x.accepted > x.from => Held = Prefix(x.accepted)
  BY <1>1, <1>2 DEF PutMachine, PutLive, PutHeld, PutResidentFits
<1> QED BY <1>1, <1>2 DEF NothingLost

LEMMA PutBacked == ASSUME PutInv PROVE JournalBacked
<1>1. PutMachine /\ PutTalk /\ ~file.get
  BY DEF PutInv, PutMachine, PutMachineTypes
<1>2. ASSUME NEW i \in Ids, journal[i] # None, journal[i].off > 0
      PROVE  \/ HasPrefix(disk.part[i], journal[i].off)
             \/ disk.meta[i] \in {"PUBLISHING", "PUBLISHED"}
             \/ Complete(disk.target)
  <2>1. Prefix(journal[i].off) \in Kept[i] /\ journal[i].off \in Nat
    BY <1>1, <1>2 DEF PutTalk, PutJournalFits, PutRecords
  <2>2. Len(Prefix(journal[i].off)) = journal[i].off
    BY <2>1, PrefixFacts
  <2>3. Prefix(journal[i].off) # <<>>
    BY <1>2, <2>2
  <2> QED BY <2>1, <2>2, <2>3 DEF Kept, HasPrefix, Public, HasName, Complete
<1> QED BY <1>1, <1>2 DEF JournalBacked

\* An output that is somebody else's is left alone, whatever happens.
LEMMA OutsStand ==
  ASSUME PutMachine, HelperSteps \/ DosError \/ TimesOut(NoBlockComes),
         NEW i \in Ids, disk.out[i] \in Foreigns
  PROVE  disk'.out[i] = disk.out[i]
<1> USE DEF PutMachine
<1>0. disk \in Disks /\ (hlp.pc # "prompt" => hlp.id \in Ids) /\ None \notin Foreigns
      /\ \A g \in Foreigns : ~g.mine
  <2>1. \A g \in Foreigns : ~g.mine
    BY DEF Foreigns
  <2> QED BY <2>1, ForeignFacts DEF PutMachineTypes, Owned
<1>1. ASSUME hlp.id \in Ids, hlp.id \in OwnOuts, file.packed PROVE hlp.id # i
  BY <1>1 DEF OwnOuts
<1>2. CASE DropScratch
  <2>1. hlp.id # i
    BY <1>0, <1>1, <1>2 DEF DropScratch, HelperStep, ScratchKnown
  <2> QED BY <1>0, <1>2, <2>1 DEF DropScratch, Disks
<1>3. CASE CreateScratch
  <2>1. UNCHANGED disk \/ hlp.id # i
    BY <1>0, <1>3 DEF CreateScratch, Out
  <2> QED BY <1>0, <1>3, <2>1 DEF CreateScratch, Disks
<1>4. CASE Decode
  <2>1. hlp.id # i
    BY <1>0, <1>4 DEF Decode, HelperStep, ScratchKnown, Out
  <2> QED BY <1>0, <1>4, <2>1 DEF Decode, Disks
<1>5. CASE Rename
  <2>1. file.packed => hlp.id # i
    <3>1. ASSUME file.packed PROVE Out.mine
      BY <1>5, <3>1 DEF Rename, HelperStep, SourceReady, PublishSource
    <3> QED BY <1>0, <3>1 DEF Out
  <2>2. \/ UNCHANGED disk
        \/ disk'.out = [disk.out EXCEPT ![hlp.id] = IF file.packed THEN None ELSE @]
    BY <1>0, <1>5 DEF Rename, Disks
  <2> QED BY <1>0, <2>1, <2>2 DEF Disks
<1>6. CASE CleanPart
  <2>1. file.packed => hlp.id # i
    BY <1>0, <1>1, <1>6 DEF CleanPart, HelperStep, ScratchKnown
  <2> QED BY <1>0, <1>6, <2>1 DEF CleanPart, Disks
<1>7. CASE Fail
  <2>1. hlp.owned => hlp.id # i
    BY <1>0, <1>7 DEF Fail, ScratchKnown, Out
  <2> QED BY <1>0, <1>7, <2>1 DEF Fail, Disks
<1>8. CASE \/ Prepare \/ Ready \/ Poll \/ Release \/ Commit \/ RequireAbsent \/ Recover \/ Revalidate
           \/ GetHelperSteps \/ Start \/ Claim \/ EnterPump \/ LeavePump \/ Postprocess \/ Finish
           \/ TimesOut(NoBlockComes)
  BY <1>8 DEF Prepare, Ready, Poll, Release, Commit, RequireAbsent, Recover, Revalidate, GetHelperSteps,
    ScanSource, ReadySource, Refill, PublishBlock, PollGet, Start, Claim, EnterPump, LeavePump, Postprocess,
    Finish, TimesOut, KeepsDisk, CallsTsr
<1>9. CASE CreateMeta \/ CreatePart \/ WriteWindow \/ EnsureWindow \/ Finalize \/ OwnScratch
           \/ MarkPublishing \/ MarkPublished \/ CleanMeta \/ DosError
  BY <1>0, <1>9 DEF CreateMeta, CreatePart, WriteWindow, EnsureWindow, Finalize, OwnScratch,
    MarkPublishing, MarkPublished, CleanMeta, DosError, SetPhase, KeepsDisk, Disks
<1> QED BY <1>2, <1>3, <1>4, <1>5, <1>6, <1>7, <1>8, <1>9 DEF HelperSteps, PutHelperSteps

LEMMA PutScratch ==
  ASSUME PutInv, [Next]_vars, NEW i \in Ids, disk.out[i] \in Foreigns
  PROVE  disk'.out[i] = disk.out[i]
<1>0. PutMachine /\ ~file.get /\ disk \in Disks
  BY DEF PutInv, PutMachine, PutMachineTypes
<1>1. CASE HelperAction \/ Interrupted
  BY <1>0, <1>1, OutsStand DEF HelperAction, Interrupted
<1>2. CASE Reset
  BY <1>0, <1>2, ResetDisk
<1>3. CASE Intrude
  BY <1>0, <1>3 DEF Intrude, IntrudeTarget, ChangeSource, IntrudeDest, Disks
<1>4. CASE HostAction \/ AgentAction \/ Reconnect \/ UNCHANGED vars
  BY <1>4 DEF HostAction, MsxVars, AgentAction, Reconnect, vars
<1> QED BY <1>1, <1>2, <1>3, <1>4 DEF Next

\* Nobody but Rename gives the target its name.
LEMMA TargetStands ==
  ASSUME PutMachine, \/ HelperSteps /\ ~Rename
                     \/ DosError \/ TimesOut(NoBlockComes) \/ Reset
  PROVE  disk'.target = disk.target
<1>0. disk \in Disks
  BY DEF PutMachine, PutMachineTypes
<1>1. CASE Reset
  BY <1>1, ResetDisk
<1>2. CASE TimesOut(NoBlockComes)
  BY <1>2 DEF TimesOut
<1>3. CASE DosError
  BY <1>0, <1>3 DEF DosError, Disks
<1>4. CASE \/ Prepare \/ Ready \/ Poll \/ Release \/ Commit \/ RequireAbsent \/ Recover \/ Revalidate
           \/ GetHelperSteps \/ Start \/ Claim \/ EnterPump \/ LeavePump \/ Postprocess \/ Finish
  BY <1>4 DEF Prepare, Ready, Poll, Release, Commit, RequireAbsent, Recover, Revalidate, GetHelperSteps,
    ScanSource, ReadySource, Refill, PublishBlock, PollGet, Start, Claim, EnterPump, LeavePump, Postprocess,
    Finish, KeepsDisk, CallsTsr
<1>5. CASE CreateMeta \/ CreatePart \/ WriteWindow \/ EnsureWindow \/ Finalize \/ OwnScratch
           \/ MarkPublishing \/ MarkPublished \/ CleanMeta
  BY <1>0, <1>5 DEF CreateMeta, CreatePart, WriteWindow, EnsureWindow, Finalize, OwnScratch,
    MarkPublishing, MarkPublished, CleanMeta, SetPhase, KeepsDisk, Disks
<1>6. CASE DropScratch \/ CreateScratch \/ Decode \/ CleanPart \/ Fail
  BY <1>0, <1>6 DEF DropScratch, CreateScratch, Decode, CleanPart, Fail, Disks
<1> QED BY <1>1, <1>2, <1>3, <1>4, <1>5, <1>6 DEF HelperSteps, PutHelperSteps

\* What the name holds, in the words of AtomicTransfer.
LEMMA TargetNames ==
  ASSUME PutMachine
  PROVE  /\ disk.target = None => TargetHolds = "absent"
         /\ HasName => TargetHolds = "whole"
         /\ disk.target # None /\ ~HasName => TargetHolds = "foreign"
<1>0. None \notin Foreigns /\ \A g \in Foreigns : ~g.mine
  <2>1. \A g \in Foreigns : ~g.mine
    BY DEF Foreigns
  <2> QED BY <2>1, ForeignFacts DEF PutMachine
<1>1. disk.target = None => TargetHolds = "absent"
  BY <1>0 DEF TargetHolds, Complete
<1>2. ASSUME HasName PROVE TargetHolds = "whole"
  BY <1>0, <1>2 DEF TargetHolds, HasName, Complete
<1>3. ASSUME disk.target # None, ~HasName PROVE TargetHolds = "foreign"
  <2>1. disk.target \in Foreigns
    BY <1>3 DEF PutMachine, DiskSafe
  <2> QED BY <1>3, <2>1 DEF TargetHolds
<1> QED BY <1>1, <1>2, <1>3


\* A behaviour is about one file, and in one direction.
LEMMA FileStands == ASSUME [Next]_vars PROVE file' = file
<1>1. CASE HostAction
  <2>1. CASE HostSteps
    BY <2>1 DEF HostSteps, PutHostSteps, GetHostSteps, SharedHostSteps, GotRecover, GotAwait, Adopt, GotPut,
      GotPoll, Reconcile, SaveIntent, GotClose, CompletePut, GetRecover, GetAwait, GetAdopt, GotRead, GotAck,
      GetClosed, GetComplete, LinkDest, Unlink, CompleteGet, GetReopens, GetAttaches, GetRaises, GetContinues,
      GetRound, GotOpen, TypeLine, LineTaken, GotBegin, GotCancel, Raise, Continue, Round, Become
  <2>2. CASE Puts \/ Stalls \/ Gets \/ GiveUp
    BY <2>2 DEF Puts, PutAnew, PutResume, Stalls, Gets, GetAnew, GetResume, GetContinues, GiveUp, Continue, Become
  <2> QED BY <1>1, <2>1, <2>2 DEF HostAction
<1>2. CASE AgentAction \/ Reconnect
  BY <1>2 DEF AgentAction, Reconnect, Rebootstrap, Serve, ServeOpen, ServeStatus, ServeBegin, ServePut,
    ServeRead, ServeAck, ServeClose, ServeCancel, Refuse, Answer
<1>3. CASE HelperAction \/ Interrupted
  BY <1>3 DEF HelperAction, Interrupted, HelperSteps, PutHelperSteps, GetHelperSteps, DosError, TimesOut,
    Prepare, CreateMeta, CreatePart, Ready, Poll, Release, WriteWindow, EnsureWindow, Commit, Finalize,
    OwnScratch, DropScratch, CreateScratch, Decode, RequireAbsent, MarkPublishing, Recover, Rename,
    MarkPublished, Revalidate, CleanPart, CleanMeta, ScanSource, ReadySource, Refill, PublishBlock, PollGet,
    Start, Claim, EnterPump, LeavePump, Postprocess, Finish, Fail, KeepsDisk, KeepsResident, CallsTsr,
    SetPhase, wireVars
<1>4. CASE Reset \/ Intrude \/ UNCHANGED vars
  BY <1>4 DEF Reset, Intrude, vars
<1> QED BY <1>1, <1>2, <1>3, <1>4 DEF Next

\* A transfer is reported by its last step only.
LEMMA DoneStands ==
  ASSUME HostAction, ~CompletePut, ~CompleteGet PROVE done' = done
<1>1. CASE HostSteps
  BY <1>1 DEF HostSteps, PutHostSteps, GetHostSteps, SharedHostSteps, GotRecover, GotAwait, Adopt, GotPut,
    GotPoll, Reconcile, SaveIntent, GotClose, GetRecover, GetAwait, GetAdopt, GotRead, GotAck,
    GetClosed, GetComplete, LinkDest, Unlink, GetReopens, GetAttaches, GetRaises, GetContinues,
    GetRound, GotOpen, TypeLine, LineTaken, GotBegin, GotCancel, Raise, Continue
<1>2. CASE Puts \/ Stalls \/ Gets \/ GiveUp
  BY <1>2 DEF Puts, PutAnew, PutResume, Stalls, Gets, GetAnew, GetResume, GetContinues, GiveUp, Continue
<1> QED BY <1>1, <1>2 DEF HostAction

LEMMA PutIsAtomic ==
  ASSUME PutInv, [Next]_vars
  PROVE  Atomic!Next \/ UNCHANGED Atomic!vars
<1>0. PutMachine /\ PutMachine' /\ PutTalk /\ ~file.get /\ ~file'.get
      /\ Foreigns' = Foreigns /\ Whole' = Whole
  <2>1. PutInv'
    BY PutStep
  <2>2. PutMachine /\ PutMachine' /\ PutTalk /\ ~file.get /\ ~file'.get
    BY <2>1 DEF PutInv, PutMachine, PutMachineTypes
  <2> QED BY <2>2, FileStands, SizeFacts DEF PutMachine
<1>1. ASSUME disk'.target = disk.target PROVE TargetHolds' = TargetHolds
  BY <1>0, <1>1 DEF TargetHolds, Complete
<1>2. ASSUME disk'.target = disk.target, done' = done PROVE UNCHANGED Atomic!vars
  BY <1>0, <1>1, <1>2 DEF Atomic!vars
<1>3. CASE HelperAction \/ Interrupted
  <2>1. done' = done
    BY <1>3 DEF HelperAction, Interrupted, HostVars, hostVars
  <2>2. CASE Rename /\ disk.target = None
    <3>1. HasName'
      <4>1. HasName' \/ disk'.target = None
        <5>1. hlp'.pc = "marked"
          BY <1>0, <2>2 DEF Rename, Goto, PutMachine, PutMachineTypes, Helpers
        <5> QED BY <1>0, <5>1 DEF PutMachine, HelperStep
      <4>2. HasName' => disk'.target # None
        BY DEF HasName
      <4> QED BY <1>0, <2>2, <4>1 DEF PutMachine, HelperStep, SourceReady, HasName, Rename, PutMachineTypes, Disks
    <3>2. TargetHolds = "absent" /\ TargetHolds' = "whole"
      <4>1. TargetHolds = "absent"
        BY <1>0, <2>2, TargetNames
      <4>2. \A g \in Foreigns' : ~g.mine
        BY <1>0 DEF Foreigns
      <4>3. disk'.target # None /\ disk'.target \notin Foreigns' /\ disk'.target.data = Whole'
        BY <1>0, <3>1, <4>2 DEF HasName
      <4>4. TargetHolds' = "whole"
        BY <4>3 DEF TargetHolds, Complete
      <4> QED BY <4>1, <4>4
    <3>3. Atomic!Publish
      BY <1>0, <2>1, <3>2 DEF Atomic!Publish
    <3> QED BY <3>3 DEF Atomic!Next
  <2>3. CASE Rename /\ disk.target # None
    BY <1>2, <2>1, <2>3 DEF Rename
  <2>4. CASE ~Rename
    BY <1>0, <1>2, <1>3, <2>1, <2>4, TargetStands DEF HelperAction, Interrupted
  <2> QED BY <2>2, <2>3, <2>4
<1>4. CASE Reset
  BY <1>0, <1>2, <1>4, TargetStands DEF Reset, HostVars, hostVars
<1>5. CASE Intrude
  <2>1. /\ disk.target = None /\ done' = done
        /\ \E f \in Foreigns : f.data # Whole /\ disk' = [disk EXCEPT !.target = f]
    BY <1>0, <1>5 DEF Intrude, IntrudeTarget, ChangeSource, IntrudeDest, hostVars
  <2>2. disk'.target \in Foreigns
    BY <1>0, <2>1 DEF PutMachine, PutMachineTypes, Disks
  <2>3. disk'.target # None /\ TargetHolds' = "foreign"
    BY <1>0, <2>2, ForeignFacts DEF PutMachine, TargetHolds
  <2>4. TargetHolds = "absent"
    BY <1>0, <2>1, TargetNames
  <2>5. Atomic!Intrude
    BY <1>0, <2>1, <2>3, <2>4 DEF Atomic!Intrude
  <2> QED BY <2>5 DEF Atomic!Next
<1>6. CASE HostAction
  <2>0. UNCHANGED disk /\ TargetHolds' = TargetHolds
    BY <1>1, <1>6 DEF HostAction, MsxVars
  <2>1. CASE CompletePut /\ done' # done
    <3>1. host.pc = "finish" /\ done' = done \cup {host.id}
      BY <2>1 DEF CompletePut, Raise
    <3>2. HasName
      <4>1. "finish" \in PutStream
        BY DEF PutStream
      <4> QED BY <1>0, <3>1 DEF PutTalk, PutHostFits, GoodPut
    <3>3. TargetHolds = "whole"
      BY <1>0, <3>2, TargetNames
    <3>4. Atomic!Report
      BY <1>0, <2>0, <3>1, <3>3 DEF Atomic!Report
    <3> QED BY <3>4 DEF Atomic!Next
  <2>2. ~CompleteGet
    BY <1>0 DEF CompleteGet, PutTalk, PutHostFits, GoodPut, Hosts, PutHostPcs, Opening, Binding, PutStream
  <2>3. CASE ~CompletePut \/ done' = done
    BY <1>2, <1>6, <2>0, <2>2, <2>3, DoneStands
  <2> QED BY <2>1, <2>3
<1>7. CASE AgentAction \/ Reconnect \/ UNCHANGED vars
  BY <1>2, <1>7 DEF AgentAction, Reconnect, vars, HostVars, hostVars
<1> QED BY <1>3, <1>4, <1>5, <1>6, <1>7 DEF Next

LEMMA PutBegins == ASSUME Init, ~file.get PROVE Atomic!Init
<1>1. PutMachine
  BY PutStarts DEF PutInv
<1>2. disk.target = None \/ disk.target \in Foreigns
  BY DEF Init
<1>3. TargetHolds \in {"absent", "foreign"}
  <2>1. CASE disk.target = None
    BY <1>1, <2>1, TargetNames
  <2>2. CASE disk.target \in Foreigns
    <3>1. disk.target # None
      BY <1>1, <2>2, ForeignFacts DEF PutMachine
    <3> QED BY <2>2, <3>1 DEF TargetHolds
  <2> QED BY <1>2, <2>1, <2>2
<1> QED BY <1>3 DEF Atomic!Init, Init, HostInit
=================================================================================
