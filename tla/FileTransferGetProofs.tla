-------------------------- MODULE FileTransferGetProofs --------------------------
(***************************************************************************)
(* Proofs about FileTransfer, for every set of transfer IDs, file size,    *)
(* window, journal interval and number of faults: the other direction, and *)
(* the theorems about both.                                                *)
(***************************************************************************)
EXTENDS FileTransferProofs

----------------------------------------------------------------------------
(* Blocks and versions of the file. *)

LEMMA VersionFacts ==
  ASSUME GetMachineTypes
  PROVE  /\ Versions \subseteq Blocks /\ Wholes \subseteq Blocks
         /\ file' = file => Versions' = Versions /\ Wholes' = Wholes /\ Whole' = Whole
                            /\ Foreigns' = Foreigns
<1>1. Size \in Nat
  BY WireAssumption DEF GetMachineTypes, WireTypes, Size
<1>2. Whole \in Blocks /\ Len(Whole) = Size
  BY <1>1, PrefixFacts DEF Whole
<1>3. <<Size + 1>> \in Blocks
  <2>1. Size + 1 \in Nat
    BY <1>1
  <2> QED BY <2>1 DEF Blocks
<1>4. Size # 0 => [Whole EXCEPT ![Size] = Size + 1] \in Blocks
  <2>1. Size # 0 => Size \in 1 .. Len(Whole) /\ Size + 1 \in Nat
    BY <1>1, <1>2
  <2> QED BY <1>2, <2>1, ExceptSeq DEF Blocks
<1>5. Versions \subseteq Blocks /\ Wholes \subseteq Blocks
  BY <1>2, <1>3, <1>4, StateNames DEF Versions, Wholes
<1>6. file' = file => Versions' = Versions /\ Wholes' = Wholes /\ Whole' = Whole /\ Foreigns' = Foreigns
  BY DEF Versions, Wholes, Whole, Prefix, Size, Foreigns
<1> QED BY <1>5, <1>6

LEMMA TailFacts ==
  ASSUME NEW s \in Blocks, s # <<>>
  PROVE  /\ Tail(s) \in Blocks /\ Len(Tail(s)) = Len(s) - 1 /\ Len(s) \in Nat \ {0}
         /\ \A k \in 1 .. Len(s) - 1 : Tail(s)[k] = s[k + 1]
         /\ Head(s) = s[1] /\ s[1] \in Nat
BY HeadTailProperties DEF Blocks

LEMMA WindowFacts ==
  ASSUME hlp.src \in Blocks, hlp.from \in Nat, hlp.from < Len(hlp.src)
  PROVE  /\ NextWindow \in Blocks /\ NextWindow # <<>>
         /\ hlp.from + Len(NextWindow) <= Len(hlp.src)
         /\ \A k \in 1 .. Len(NextWindow) : NextWindow[k] = hlp.src[hlp.from + k]
<1> DEFINE n == Len(hlp.src) - hlp.from
           left == SubSeq(hlp.src, hlp.from + 1, Len(hlp.src))
<1>0. n \in Nat \ {0} /\ Window \in Nat \ {0} /\ Len(hlp.src) \in Nat
  BY WireAssumption DEF Blocks
<1>1. left \in Blocks /\ Len(left) = n /\ \A k \in 1 .. n : left[k] = hlp.src[hlp.from + k]
  <2>1. \A i \in hlp.from + 1 .. Len(hlp.src) : hlp.src[i] \in Nat
    BY DEF Blocks
  <2>2. left \in Blocks
    BY <2>1, SubSeqProperties DEF Blocks
  <2>3. Len(left) = n /\ \A k \in 1 .. n : left[k] = hlp.src[hlp.from + k]
    <3>1. hlp.from + 1 \in 1 .. Len(hlp.src) + 1 /\ Len(hlp.src) \in Nat
          /\ Len(hlp.src) - (hlp.from + 1) + 1 = n
      BY <1>0
    <3>2. /\ Len(left) = IF hlp.from + 1 <= Len(hlp.src) THEN Len(hlp.src) - (hlp.from + 1) + 1 ELSE 0
          /\ \A k \in 1 .. Len(hlp.src) - (hlp.from + 1) + 1 :
               left[k] = hlp.src[(hlp.from + 1) + k - 1]
      <4>1. hlp.from + 1 \in Int /\ Len(hlp.src) \in Int
        BY <1>0
      <4> QED BY <4>1, <2>1, SubSeqProperties
    <3>3. \A k \in 1 .. n : (hlp.from + 1) + k - 1 = hlp.from + k
      BY <1>0
    <3>4. hlp.from + 1 <= Len(hlp.src)
      BY <1>0
    <3> HIDE DEF left
    <3>5. Len(left) = n
      BY <3>1, <3>2, <3>4
    <3>6. ASSUME NEW k \in 1 .. n PROVE left[k] = hlp.src[hlp.from + k]
      <4>1. left[k] = hlp.src[(hlp.from + 1) + k - 1]
        BY <3>1, <3>2
      <4> QED BY <4>1, <3>3
    <3> QED BY <3>5, <3>6
  <2> QED BY <2>2, <2>3
<1>2. CASE Len(left) > Window
  <2>1. NextWindow = SubSeq(left, 1, Window) /\ Window \in 0 .. Len(left) /\ Window < n
    BY <1>0, <1>1, <1>2 DEF NextWindow
  <2> HIDE DEF left
  <2>2. /\ NextWindow \in Blocks /\ Len(NextWindow) = Window
        /\ \A k \in 1 .. Window : NextWindow[k] = left[k]
    BY <1>1, <2>1, SubFacts
  <2>3. NextWindow # <<>>
    BY <1>0, <2>2
  <2>4. \A k \in 1 .. Window : k \in 1 .. n /\ NextWindow[k] = left[k]
    BY <1>0, <2>1, <2>2
  <2>5. \A k \in 1 .. Window : NextWindow[k] = hlp.src[hlp.from + k]
    BY <1>1, <2>4
  <2>6. hlp.from + Window <= Len(hlp.src)
    BY <1>0, <2>1
  <2> QED BY <2>2, <2>3, <2>5, <2>6
<1>3. CASE ~(Len(left) > Window)
  <2>1. NextWindow = left
    BY <1>3 DEF NextWindow
  <2> HIDE DEF left
  <2> QED BY <1>0, <1>1, <2>1
<1> QED BY <1>2, <1>3

----------------------------------------------------------------------------
(* GET: what the talk relies on, and no step of the helper takes back. *)

GetGrows ==
  /\ Past => Past'
  /\ x'.id = x.id /\ x'.prefix = x.prefix
  /\ x'.state = "IDLE" <=> x.state = "IDLE"
  /\ Past /\ ~Unarmed => ~Unarmed'
  /\ x'.close => x.close

\* The helper's record, with another place and what goes with it.
LEMMA GetGoesTo ==
  ASSUME hlp \in Helpers(GetHelperPcs), NEW p \in GetHelperPcs, Goto(p)
  PROVE  /\ hlp' \in Helpers(GetHelperPcs)
         /\ hlp'.pc = p
         /\ hlp'.id = hlp.id /\ hlp'.from = hlp.from
         /\ hlp'.crc = hlp.crc /\ hlp'.acc = hlp.acc
         /\ hlp'.src = hlp.src /\ hlp'.owned = hlp.owned
<1>1. hlp' \in Helpers(GetHelperPcs)
  BY HelperUpdates DEF Goto
<1> QED BY <1>1 DEF Goto, Helpers

\* Types, while the disk stands still.
LEMMA GetTypesStand ==
  ASSUME GetMachineTypes, UNCHANGED <<disk, file>>, x' \in Transfers,
         linked' \in BOOLEAN, typed' \in Ids \cup {None},
         hlp' \in Helpers(GetHelperPcs), ~hlp'.owned
  PROVE  GetMachineTypes'
<1>1. PICK target \in {None} \cup {Source(v) : v \in Versions} :
        disk = [meta |-> [i \in Ids |-> None], part |-> [i \in Ids |-> None],
                out |-> [i \in Ids |-> None], target |-> target]
  BY DEF GetMachineTypes
<1>2. Versions' = Versions /\ \A v : (Source(v))' = Source(v)
  BY VersionFacts DEF Source, File
<1>3. target \in ({None} \cup {Source(v) : v \in Versions})'
  BY <1>1, <1>2 DEF Source, File
<1>4. disk' = [meta |-> [i \in Ids |-> None], part |-> [i \in Ids |-> None],
               out |-> [i \in Ids |-> None], target |-> target]
  BY <1>1
<1> QED BY <1>3, <1>4 DEF GetMachineTypes, WireTypes

\* What a helper at its work has for types.
LEMMA GetTyped ==
  ASSUME GetMachine
  PROVE  /\ x \in Transfers /\ hlp \in Helpers(GetHelperPcs) /\ ~hlp.owned /\ file.get
         /\ linked \in BOOLEAN /\ typed \in Ids \cup {None}
         /\ hlp.src \in Blocks /\ hlp.acc \in Blocks /\ hlp.crc \in Blocks /\ hlp.from \in Nat
         /\ x.pending \in Blocks /\ x.prefix \in Blocks /\ x.whole \in Blocks
         /\ x.accepted \in Nat /\ x.durable \in Nat /\ x.sent \in Nat /\ x.from \in Nat
         /\ x.state \in States /\ WireSize \in Nat /\ Len(hlp.src) \in Nat /\ Len(hlp.acc) \in Nat
         /\ x.pump \in BOOLEAN /\ x.armed \in BOOLEAN
<1>1. /\ x \in Transfers /\ hlp \in Helpers(GetHelperPcs) /\ ~hlp.owned /\ file.get
      /\ linked \in BOOLEAN /\ typed \in Ids \cup {None}
  BY DEF GetMachine, GetMachineTypes, WireTypes
<1> QED BY <1>1 DEF Transfers, Helpers, WireSize, Blocks

----------------------------------------------------------------------------
(* GET: the helper's steps. *)

\* The resident stands still and the helper only moves: what is left to show.
LEMMA GetQuiet ==
  ASSUME GetMachine, UNCHANGED <<x, disk, file, linked>>, typed' \in Ids \cup {None},
         hlp' \in Helpers(GetHelperPcs), ~hlp'.owned, hlp.pc # "pumping",
         hlp'.pc # "prompt" => hlp'.id \in Ids,
         x.state = "IDLE" \/ x.state = "COMPLETE" => hlp'.pc \in {"prompt", "claim"},
         x.state = "FAILED" => hlp'.pc \in {"prompt", "claim", "fail"},
         hlp'.pc \in Working => hlp.pc \in Working
  PROVE  GetMachineTypes' /\ Owned' /\ GetCounts' /\ GetOffer' /\ GetGrows
<1> USE DEF GetMachine
<1>1. GetMachineTypes'
  BY GetTyped, GetTypesStand DEF GetMachine
<1>2. Owned'
  BY DEF Owned
<1>3. GetCounts'
  BY VersionFacts DEF GetCounts, WireSize
<1>4. GetOffer'
  BY DEF GetOffer
<1>5. GetGrows
  BY DEF GetGrows, Past, Unarmed
<1> QED BY <1>1, <1>2, <1>3, <1>4, <1>5

\* Any failure of a helper that is at work.
LEMMA GetFailsKeeps ==
  ASSUME GetMachine, Fails, UNCHANGED <<x, disk, linked, typed, file>>,
         hlp.pc \notin {"prompt", "claim", "pumping", "finish"}
  PROVE  GetMachine' /\ GetGrows
<1> USE DEF GetMachine
<1>1. /\ hlp' \in Helpers(GetHelperPcs)
      /\ hlp'.pc = "fail" /\ hlp'.id = hlp.id /\ ~hlp'.owned
      /\ hlp'.from = hlp.from /\ hlp'.crc = hlp.crc
  <2>1. "fail" \in GetHelperPcs
    BY DEF GetHelperPcs
  <2> QED BY <2>1, GetTyped, GetGoesTo DEF Fails
<1>2. GetMachineTypes' /\ Owned' /\ GetCounts' /\ GetOffer' /\ GetGrows
  <2>1. "fail" \notin Working
    BY DEF Working
  <2> QED BY <1>1, <2>1, GetTyped, GetQuiet DEF Owned
<1>3. GetLive'
  BY <1>1 DEF GetLive, Working, WireSize
<1>4. GetWindow'
  BY <1>1 DEF GetWindow, Working
<1>5. GetInStep'
  BY <1>1 DEF GetInStep, Working
<1> QED BY <1>2, <1>3, <1>4, <1>5

LEMMA GetStartKeeps ==
  ASSUME GetMachine, Start
  PROVE  GetMachine' /\ GetGrows
<1> USE DEF GetMachine
<1>0. /\ UNCHANGED <<x, disk, linked, file>> /\ typed' = None
      /\ hlp.pc = "prompt" /\ typed \in Ids
  BY GetTyped DEF Start
<1>1. hlp' \in Helpers(GetHelperPcs) /\ hlp'.pc = "claim" /\ hlp'.id = typed
      /\ ~hlp'.owned /\ hlp'.acc = <<>>
  <2>1. "claim" \in GetHelperPcs /\ "RECEIVING" \in Phases /\ <<>> \in Blocks
    BY StateNames DEF GetHelperPcs, Phases, Rank
  <2> QED BY <1>0, <2>1 DEF Start, AtPrompt, Helpers
<1>2. GetMachineTypes' /\ Owned' /\ GetCounts' /\ GetOffer' /\ GetGrows
  <2>1. "claim" \notin Working
    BY DEF Working
  <2> QED BY <1>0, <1>1, <2>1, GetQuiet
<1>3. GetLive'
  BY <1>0, <1>1 DEF GetLive, Working, WireSize
<1>4. GetWindow'
  BY <1>1 DEF GetWindow, Working
<1>5. GetInStep'
  BY <1>1 DEF GetInStep, Working
<1> QED BY <1>2, <1>3, <1>4, <1>5

LEMMA GetClaimKeeps ==
  ASSUME GetMachine, Claim
  PROVE  GetMachine' /\ GetGrows
<1> USE DEF GetMachine
<1>0. /\ UNCHANGED <<disk, linked, typed, file>> /\ file.get
      /\ hlp.pc = "claim" /\ hlp \in Helpers(GetHelperPcs) /\ x \in Transfers
      /\ ~x.pump /\ hlp.acc = <<>> /\ hlp.id \in Ids /\ ~hlp.owned
      /\ x.state \in States /\ x.from \in Nat /\ x.prefix \in Blocks
      /\ typed \in Ids \cup {None} /\ linked \in BOOLEAN
  BY GetTyped DEF Claim, KeepsDisk, CallsTsr, wireVars, Owned, GetWindow
<1>1. CASE ~ClaimOk(hlp.id)
  <2>1. hlp' = AtPrompt /\ UNCHANGED x
    BY <1>1 DEF Claim, KeepsDisk
  <2>2. hlp' \in Helpers(GetHelperPcs) /\ hlp'.pc = "prompt" /\ ~hlp'.owned
    BY <2>1, Idles DEF AtPrompt, GetHelperPcs
  <2>3. GetMachineTypes' /\ Owned' /\ GetCounts' /\ GetOffer' /\ GetGrows
    <3>1. "prompt" \notin Working
      BY DEF Working
    <3> QED BY <1>0, <2>1, <2>2, <3>1, GetQuiet
  <2>4. GetLive'
    BY <1>0, <2>1, <2>2 DEF GetLive, Working, WireSize
  <2>5. GetWindow'
    BY <2>2 DEF GetWindow, Working
  <2>6. GetInStep'
    BY <2>2 DEF GetInStep, Working
  <2> QED BY <2>3, <2>4, <2>5, <2>6
<1>2. CASE ClaimOk(hlp.id)
  <2>0. /\ x.state = "STAGED" /\ x.id = hlp.id
        /\ x' = [[x EXCEPT !.state = "OPENING"] EXCEPT !.ready = FALSE]
        /\ hlp' = [hlp EXCEPT !.pc = "scan", !.resume = x.resume, !.replay = x.replay,
                     !.from = x.from, !.crc = x.prefix]
    BY <1>0, <1>2 DEF Claim, ClaimOk, CallsTsr, Claimed
  <2>1. x' \in Transfers
    BY <1>0, <2>0, StateNames, TransferUpdates
  <2>2. /\ x'.state = "OPENING" /\ x'.id = x.id /\ x'.prefix = x.prefix /\ ~x'.ready
        /\ x'.pending = x.pending /\ x'.acked = x.acked /\ x'.rewind = x.rewind
        /\ x'.sent = x.sent /\ x'.from = x.from /\ x'.durable = x.durable
        /\ x'.close = x.close /\ x'.armed = x.armed /\ x'.pump = x.pump /\ x'.whole = x.whole
    BY <1>0, <2>0 DEF Transfers
  <2>3. hlp' \in Helpers(GetHelperPcs)
    <3>1. x.resume \in BOOLEAN /\ x.replay \in BOOLEAN /\ "scan" \in GetHelperPcs
      BY <1>0 DEF Transfers, GetHelperPcs
    <3> QED BY <1>0, <2>0, <3>1 DEF Helpers
  <2>4. /\ hlp'.pc = "scan" /\ hlp'.id = hlp.id /\ hlp'.from = x.from
        /\ hlp'.crc = x.prefix /\ hlp'.acc = <<>> /\ ~hlp'.owned
    BY <1>0, <2>0 DEF Helpers
  <2>5. GetMachineTypes'
    BY <1>0, <2>1, <2>3, <2>4, GetTypesStand
  <2>6. Owned'
    BY <1>0, <2>0, <2>2, <2>4 DEF Owned
  <2>7. GetLive'
    BY <1>0, <2>0, <2>2, <2>4 DEF GetLive, Working, Staging, Moving, WireSize
  <2>8. GetCounts'
    BY <1>0, <2>0, <2>2, VersionFacts DEF GetCounts, Readied0, Moving
  <2>9. GetWindow'
    BY <2>4 DEF GetWindow, Working
  <2>10. GetInStep' /\ GetOffer'
    BY <2>2 DEF GetInStep, GetOffer
  <2>11. GetGrows
    BY <2>0, <2>2 DEF GetGrows, Past
  <2> QED BY <2>5, <2>6, <2>7, <2>8, <2>9, <2>10, <2>11
<1> QED BY <1>1, <1>2

\* The pump flag, and nothing else of the transfer.
GetSame ==
  /\ x' \in Transfers
  /\ x'.state = x.state /\ x'.id = x.id /\ x'.from = x.from
  /\ x'.accepted = x.accepted /\ x'.durable = x.durable /\ x'.prefix = x.prefix
  /\ x'.pending = x.pending /\ x'.close = x.close /\ x'.ready = x.ready
  /\ x'.whole = x.whole /\ x'.sent = x.sent /\ x'.acked = x.acked
  /\ x'.rewind = x.rewind
  /\ x.state = "IDLE" => x' = x

\* A step that leaves all but the flags, and at most goes on in the pump.
LEMMA GetSameKeeps ==
  ASSUME GetMachine, GetSame, UNCHANGED <<disk, file>>,
         linked' \in BOOLEAN, typed' \in Ids \cup {None},
         x'.pump => hlp'.pc = "pumping" /\ x'.armed,
         x'.armed => x.armed, ~x'.armed /\ x.armed => hlp.pc \notin {"read", "emit"},
         x.acked /\ hlp.pc \in Working => x'.armed = x.armed /\ ~x'.pump,
         \/ UNCHANGED hlp
         \/ hlp.pc = "pump" /\ (Goto("pumping") \/ Goto("poll"))
         \/ hlp.pc = "pumping" /\ Goto("poll")
  PROVE  GetMachine' /\ (x'.armed = x.armed => GetGrows)
<1> USE DEF GetMachine
<1>0. /\ hlp \in Helpers(GetHelperPcs) /\ hlp' \in Helpers(GetHelperPcs)
      /\ hlp'.id = hlp.id /\ hlp'.from = hlp.from /\ hlp'.src = hlp.src
      /\ hlp'.crc = hlp.crc /\ hlp'.acc = hlp.acc /\ ~hlp'.owned
      /\ \/ UNCHANGED hlp
         \/ /\ hlp.pc \in {"pump", "pumping"} /\ hlp'.pc \in {"pumping", "poll"}
            /\ hlp.pc \in Working /\ hlp'.pc \in Working
  <2>1. {"pumping", "poll"} \subseteq GetHelperPcs
    BY DEF GetHelperPcs, Working
  <2>2. hlp \in Helpers(GetHelperPcs) /\ ~hlp.owned
    BY GetTyped
  <2>3. {"pump", "pumping", "poll"} \subseteq Working
    BY DEF Working
  <2> QED BY <2>1, <2>2, <2>3, GetGoesTo
<1>1. GetMachineTypes'
  BY <1>0, GetTypesStand DEF GetSame
<1>2. Owned'
  BY <1>0 DEF Owned, GetSame, IdleTransfer
<1>3. GetLive'
  BY <1>0 DEF GetLive, Working, Staging, Moving, WireSize, GetSame, IdleTransfer
<1>4. GetCounts'
  BY <1>0, VersionFacts DEF GetCounts, WireSize, Readied0, GetSame
<1>5. GetWindow'
  <2>1. AtEnd' = AtEnd
    BY <1>0 DEF AtEnd
  <2> QED BY <1>0, <2>1, VersionFacts DEF GetWindow, Working
<1>6. GetInStep'
  <2>1. AtEnd' = AtEnd /\ Untold' = Untold
    BY <1>0 DEF AtEnd, Untold, GetSame
  <2>2. ASSUME x.ready, hlp.pc \in Working PROVE NextIsToCome => NextIsToCome' \/ hlp.pc \notin {"read", "emit"}
    BY <1>0, <2>1, <2>2 DEF NextIsToCome, GetSame
  <2>3. (GoesBack => GoesBack') /\ (NothingLeft => NothingLeft')
    BY <1>0, <2>1 DEF GoesBack, NothingLeft, GetSame
  <2>4. hlp.pc \in Working /\ Offers => Offers'
    BY <1>0, <2>1 DEF Offers, GetSame
  <2> QED BY <1>0, <2>2, <2>3, <2>4 DEF GetInStep, GetSame
<1>7. GetOffer'
  BY DEF GetOffer, GetSame
<1>8. x'.armed = x.armed => GetGrows
  BY <1>0 DEF GetGrows, Past, Unarmed, GetSame
<1> QED BY <1>1, <1>2, <1>3, <1>4, <1>5, <1>6, <1>7, <1>8

LEMMA GetPumpKeeps ==
  ASSUME GetMachine, EnterPump \/ LeavePump
  PROVE  GetMachine' /\ GetGrows
<1>0. /\ UNCHANGED <<disk, file>>
      /\ linked' \in BOOLEAN /\ typed' \in Ids \cup {None}
      /\ hlp \in Helpers(GetHelperPcs) /\ x.state # "IDLE" /\ x \in Transfers
      /\ hlp.pc \in {"pump", "pumping"} /\ (x.pump => hlp.pc = "pumping")
  BY GetTyped DEF EnterPump, LeavePump, CallsTsr, KeepsDisk, wireVars, GetMachine, Owned
<1>1. CASE EnterPump /\ CanPump /\ CallsTsr([x EXCEPT !.pump = TRUE]) /\ Goto("pumping")
  <2>1. x' = [x EXCEPT !.pump = TRUE] /\ TRUE \in BOOLEAN /\ x.armed /\ hlp.pc = "pump" /\ x.ready
    BY <1>1 DEF CallsTsr, CanPump, EnterPump
  <2>2. x' \in Transfers
    BY <1>0, <2>1, TransferUpdates, Zenon
  <2>3. GetSame /\ x'.armed = x.armed
    BY <1>0, <2>1, <2>2 DEF GetSame, Transfers
  <2>4. hlp'.pc = "pumping"
    BY <1>0, <1>1 DEF Goto, Helpers
  <2>5. ~x.acked
    <3>1. "pump" \in Working /\ "pump" \notin {"read", "emit"}
      BY DEF Working
    <3>2. x.state # "CANCELLED"
      BY <2>1 DEF GetMachine, GetLive, Moving
    <3> QED BY <2>1, <3>1, <3>2 DEF GetMachine, GetInStep, GoesBack, NothingLeft, Offers, Untold
  <2> QED BY <1>0, <1>1, <2>1, <2>3, <2>4, <2>5, GetSameKeeps
<1>2. CASE EnterPump /\ Goto("poll") /\ KeepsDisk
  <2>1. x' = x /\ ~x.pump /\ hlp.pc = "pump"
    BY <1>0, <1>2 DEF EnterPump, KeepsDisk
  <2>2. GetSame
    BY <1>0, <2>1 DEF GetSame
  <2> QED BY <1>0, <1>2, <2>1, <2>2, GetSameKeeps
<1>3. CASE LeavePump
  <2>1. x' = [x EXCEPT !.pump = FALSE] /\ FALSE \in BOOLEAN /\ hlp.pc = "pumping"
    BY <1>3 DEF CallsTsr, LeavePump
  <2>2. x' \in Transfers
    BY <1>0, <2>1, TransferUpdates, Zenon
  <2>3. GetSame /\ x'.armed = x.armed /\ ~x'.pump
    BY <1>0, <2>1, <2>2 DEF GetSame, Transfers
  <2> QED BY <1>0, <1>3, <2>1, <2>3, GetSameKeeps DEF LeavePump
<1> QED BY <1>1, <1>2, <1>3 DEF EnterPump

LEMMA GetPostprocessKeeps ==
  ASSUME GetMachine, Postprocess
  PROVE  GetMachine' /\ GetGrows
<1> USE DEF GetMachine
<1>0. /\ UNCHANGED <<disk, linked, typed, file>> /\ file.get
      /\ hlp.pc = "postprocess" /\ hlp \in Helpers(GetHelperPcs) /\ x \in Transfers
      /\ ~x.pump /\ hlp.id \in Ids
      /\ typed \in Ids \cup {None} /\ linked \in BOOLEAN
  BY GetTyped DEF Postprocess, KeepsDisk, CallsTsr, wireVars, Owned
<1>1. CASE Fails /\ KeepsDisk
  BY <1>0, <1>1, GetFailsKeeps DEF KeepsDisk
<1>2. CASE PostprocessOk /\ CallsTsr(Postprocessed) /\ Goto("finish")
  <2>0. /\ x.state = "VERIFYING" /\ x.close /\ x.pending = <<>> /\ x.durable = WireSize /\ x.ready
        /\ x' = [[x EXCEPT !.state = "POSTPROCESS"] EXCEPT !.armed = FALSE]
        /\ "finish" \in GetHelperPcs
    BY <1>0, <1>2 DEF PostprocessOk, CallsTsr, Postprocessed, GetHelperPcs, GetLive
  <2>1. x' \in Transfers
    BY <1>0, <2>0, StateNames, TransferUpdates
  <2>2. /\ x'.state = "POSTPROCESS" /\ x'.id = x.id /\ x'.prefix = x.prefix /\ x'.ready
        /\ x'.pending = x.pending /\ x'.sent = x.sent /\ x'.durable = x.durable
        /\ x'.close = x.close /\ ~x'.armed /\ x'.pump = x.pump /\ x'.whole = x.whole
    BY <1>0, <2>0 DEF Transfers
  <2>3. /\ hlp' \in Helpers(GetHelperPcs) /\ hlp'.pc = "finish" /\ hlp'.id = hlp.id /\ ~hlp'.owned
    BY <1>2, <2>0, GetTyped, GetGoesTo
  <2>4. GetMachineTypes'
    BY <1>0, <2>1, <2>3, GetTypesStand
  <2>5. Owned'
    BY <1>0, <2>0, <2>2, <2>3 DEF Owned
  <2>6. GetLive'
    BY <1>0, <2>0, <2>2, <2>3 DEF GetLive, Working, Staging, Moving, WireSize
  <2>7. GetCounts'
    BY <1>0, <2>0, <2>2, VersionFacts DEF GetCounts, WireSize
  <2>8. GetWindow' /\ GetInStep' /\ GetOffer'
    BY <2>0, <2>2, <2>3 DEF GetWindow, GetInStep, GetOffer, Working
  <2>9. GetGrows
    BY <2>0, <2>2, <2>3 DEF GetGrows, Past, Unarmed, Working
  <2> QED BY <2>4, <2>5, <2>6, <2>7, <2>8, <2>9
<1> QED BY <1>0, <1>1, <1>2 DEF Postprocess

\* The helper is back at the prompt, and the transfer has ended.
LEMMA GetReturnKeeps ==
  ASSUME GetMachine, UNCHANGED <<disk, linked, typed, file>>, hlp' = AtPrompt,
         x.state # "IDLE", hlp.pc # "pumping",
         x' \in Transfers, x'.id = x.id, x'.prefix = x.prefix, x'.whole = x.whole,
         x'.durable = x.durable, x'.close = x.close, x'.sent = x.sent, x'.pump = x.pump,
         ~x'.armed, x'.state \in {"FAILED", "CANCELLED", "COMPLETE"},
         x'.ready => x.ready /\ x'.state = "CANCELLED" /\ x'.pending = x.pending
                     /\ x'.accepted = x.accepted,
         x'.state = "COMPLETE" => x.close, x'.state = "CANCELLED" => ~x.close,
         Readied0(x'.state) => Readied0(x.state)
  PROVE  GetMachine' /\ GetGrows
<1> USE DEF GetMachine
<1>0. hlp' \in Helpers(GetHelperPcs) /\ hlp'.pc = "prompt" /\ ~hlp'.owned
  BY Idles DEF AtPrompt, GetHelperPcs
<1>1. GetMachineTypes'
  BY <1>0, GetTyped, GetTypesStand
<1>2. Owned' /\ ~x'.pump
  BY <1>0 DEF Owned
<1>3. GetLive'
  BY <1>0, <1>2 DEF GetLive, Working, Staging, Moving, WireSize
<1>4. GetCounts'
  BY VersionFacts DEF GetCounts, WireSize
<1>5. GetWindow' /\ GetInStep' /\ GetOffer'
  BY <1>0 DEF GetWindow, GetInStep, GetOffer, Working
<1>6. GetGrows
  BY <1>0 DEF GetGrows, Past, Unarmed, Working
<1> QED BY <1>1, <1>2, <1>3, <1>4, <1>5, <1>6

LEMMA GetFinishKeeps ==
  ASSUME GetMachine, Finish
  PROVE  GetMachine' /\ GetGrows
<1>0. /\ UNCHANGED <<disk, linked, typed, file>> /\ hlp.pc = "finish" /\ x \in Transfers
      /\ x.state = "POSTPROCESS" /\ x.close /\ FinishOk /\ hlp' = AtPrompt /\ x.state # "CANCELLED"
  <2>1. hlp.pc = "finish" /\ UNCHANGED <<disk, linked, typed, file>>
    BY DEF Finish, CallsTsr, wireVars
  <2>2. x.state = "POSTPROCESS" /\ x.close /\ FinishOk
    BY <2>1 DEF GetMachine, GetLive, FinishOk
  <2> QED BY <2>1, <2>2, GetTyped DEF Finish
<1>1. x' = [[[x EXCEPT !.state = "COMPLETE"] EXCEPT !.ready = FALSE] EXCEPT !.armed = FALSE]
  BY <1>0 DEF Finish, CallsTsr, Finished
<1>2. x' \in Transfers
  <2>1. [x EXCEPT !.state = "COMPLETE"] \in Transfers
    BY <1>0, StateNames, TransferUpdates
  <2>2. [[x EXCEPT !.state = "COMPLETE"] EXCEPT !.ready = FALSE] \in Transfers
    BY <2>1, TransferUpdates
  <2> QED BY <1>1, <2>2, TransferUpdates
<1>3. /\ x'.state = "COMPLETE" /\ x'.id = x.id /\ x'.prefix = x.prefix /\ x'.whole = x.whole
      /\ x'.durable = x.durable /\ x'.close = x.close /\ x'.sent = x.sent /\ x'.pump = x.pump
      /\ ~x'.armed /\ ~x'.ready
  BY <1>0, <1>1 DEF Transfers
<1> QED BY <1>0, <1>2, <1>3, GetReturnKeeps DEF Readied0

\* No file of a PUT is on the disk: to close them is to leave it.
LEMMA GetDiskStays ==
  ASSUME GetMachineTypes, hlp.id \in Ids
  PROVE  /\ Fail => disk' = disk
         /\ PowerLoss => disk' = disk
<1>1. PICK target \in {None} \cup {Source(v) : v \in Versions} :
        disk = [meta |-> [i \in Ids |-> None], part |-> [i \in Ids |-> None],
                out |-> [i \in Ids |-> None], target |-> target]
  BY DEF GetMachineTypes
<1>2. /\ Part = None /\ Out = None /\ Meta = None
  BY <1>1 DEF Part, Out, Meta
<1>3. /\ [disk EXCEPT !.part[hlp.id] = None] = disk
      /\ [disk EXCEPT !.out[hlp.id] = None] = disk
      /\ [disk EXCEPT !.meta[hlp.id] = None] = disk
      /\ [disk EXCEPT !.target = target] = disk
  <2>1. [[i \in Ids |-> None] EXCEPT ![hlp.id] = None] = [i \in Ids |-> None]
    OBVIOUS
  <2>2. disk.part = [i \in Ids |-> None] /\ disk.out = [i \in Ids |-> None]
        /\ disk.meta = [i \in Ids |-> None] /\ disk.target = target
    BY <1>1
  <2>3. disk \in [meta : {disk.meta}, part : {disk.part}, out : {disk.out}, target : {disk.target}]
    BY <1>1
  <2>4. /\ [disk EXCEPT !.part[hlp.id] = None] = [disk EXCEPT !.part = [disk.part EXCEPT ![hlp.id] = None]]
        /\ [disk EXCEPT !.out[hlp.id] = None] = [disk EXCEPT !.out = [disk.out EXCEPT ![hlp.id] = None]]
        /\ [disk EXCEPT !.meta[hlp.id] = None] = [disk EXCEPT !.meta = [disk.meta EXCEPT ![hlp.id] = None]]
    OBVIOUS
  <2>5. /\ [disk EXCEPT !.part = disk.part] = disk /\ [disk EXCEPT !.out = disk.out] = disk
        /\ [disk EXCEPT !.meta = disk.meta] = disk /\ [disk EXCEPT !.target = target] = disk
    BY <2>2, <2>3
  <2>6. /\ [disk.part EXCEPT ![hlp.id] = None] = disk.part
        /\ [disk.out EXCEPT ![hlp.id] = None] = disk.out
        /\ [disk.meta EXCEPT ![hlp.id] = None] = disk.meta
    BY <2>1, <2>2
  <2> QED BY <2>4, <2>5, <2>6
<1>4. ASSUME Fail PROVE disk' = disk
  <2>1. disk' = [disk EXCEPT !.part[hlp.id] = Closed(@),
                             !.out[hlp.id] = IF hlp.owned THEN None ELSE @]
    BY <1>4 DEF Fail
  <2>2. Closed(disk.part[hlp.id]) = None /\ disk.out[hlp.id] = None
    BY <1>2 DEF Part, Out, Closed
  <2>3. disk' = [[disk EXCEPT !.part[hlp.id] = None] EXCEPT !.out[hlp.id] = None]
    BY <1>3, <2>1, <2>2
  <2> QED BY <1>3, <2>3
<1>5. ASSUME PowerLoss PROVE disk' = disk
  <2>1. CASE hlp.pc = "prompt"
    BY <1>5, <2>1 DEF PowerLoss
  <2>2. CASE hlp.pc # "prompt"
    <3>1. ~TearsMeta
      BY DEF TearsMeta, GetMachineTypes, Helpers, GetHelperPcs, Working
    <3>2. PICK part \in Remains(Part), out \in Remains(Out), tar \in Remains(disk.target),
               meta \in {Meta} \cup (IF TearsMeta THEN {"TORN"} ELSE {}) :
            disk' = [disk EXCEPT !.part[hlp.id] = part, !.out[hlp.id] = out,
                                 !.target = tar, !.meta[hlp.id] = meta]
      BY <1>5, <2>2 DEF PowerLoss
    <3>3. part = None /\ out = None /\ meta = None
      BY <1>2, <3>1, <3>2 DEF Remains
    <3>4. tar = target
      <4>1. CASE target = None
        BY <1>1, <4>1 DEF Remains
      <4>2. CASE target # None
        <5>1. PICK v \in Versions : target = Source(v)
          BY <1>1, <4>2
        <5>2. v \in Blocks /\ Len(v) \in Nat /\ SubSeq(v, 1, Len(v)) = v
          <6>1. v \in Blocks /\ Len(v) \in 0 .. Len(v)
            BY VersionFacts DEF Blocks
          <6> QED BY <6>1, SubFacts DEF Blocks
        <5>3. target = [data |-> v, safe |-> Len(v), mine |-> FALSE]
          BY <5>1 DEF Source, File
        <5>4. tar \in {[target EXCEPT !.data = SubSeq(v, 1, k), !.safe = k] : k \in Len(v) .. Len(v)}
                        \cup {[target EXCEPT !.data = SubSeq(v, 1, k - 1) \o <<0>>, !.safe = k] :
                                k \in (Len(v) + 1) .. Len(v)}
          BY <1>1, <4>2, <5>3 DEF Remains
        <5>5. (Len(v) + 1) .. Len(v) = {} /\ Len(v) .. Len(v) = {Len(v)}
          BY <5>2
        <5>6. tar = [target EXCEPT !.data = SubSeq(v, 1, Len(v)), !.safe = Len(v)]
          BY <5>4, <5>5, Zenon
        <5>7. tar = [target EXCEPT !.data = v, !.safe = Len(v)]
          BY <5>2, <5>6
        <5>8. target \in [data : {v}, safe : {Len(v)}, mine : {FALSE}]
          BY <5>3
        <5>9. [target EXCEPT !.data = v, !.safe = Len(v)] = target
          BY <5>8
        <5> QED BY <5>7, <5>9
      <4> QED BY <4>1, <4>2
    <3>5. disk' = [[[[disk EXCEPT !.part[hlp.id] = None] EXCEPT !.out[hlp.id] = None]
                      EXCEPT !.target = target] EXCEPT !.meta[hlp.id] = None]
      BY <3>2, <3>3, <3>4
    <3> QED BY <1>3, <3>5
  <2> QED BY <2>1, <2>2
<1> QED BY <1>4, <1>5

LEMMA GetFailKeeps ==
  ASSUME GetMachine, Fail
  PROVE  GetMachine' /\ GetGrows
<1>0. /\ UNCHANGED <<disk, linked, typed, file>> /\ hlp.pc = "fail" /\ x \in Transfers
      /\ x.state # "IDLE" /\ hlp' = AtPrompt /\ x' = Finished(FALSE) /\ hlp.id \in Ids
      /\ x.state \in States
  <2>1. hlp.pc = "fail" /\ x.state # "IDLE" /\ hlp.id \in Ids
    BY DEF Fail, GetMachine, Owned
  <2> QED BY <2>1, GetTyped, GetDiskStays DEF Fail, GetMachine, wireVars
<1>1. CASE x.state = "CANCELLED"
  <2>1. x' = [x EXCEPT !.armed = FALSE]
    BY <1>0, <1>1 DEF Finished
  <2>2. x' \in Transfers
    BY <1>0, <2>1, TransferUpdates
  <2>3. /\ x'.state = "CANCELLED" /\ x'.id = x.id /\ x'.prefix = x.prefix /\ x'.whole = x.whole
        /\ x'.durable = x.durable /\ x'.close = x.close /\ x'.sent = x.sent /\ x'.pump = x.pump
        /\ ~x'.armed /\ x'.ready = x.ready /\ x'.pending = x.pending /\ x'.accepted = x.accepted
    BY <1>0, <1>1, <2>1 DEF Transfers
  <2>4. ~x.close
    BY <1>1 DEF GetMachine, Owned
  <2> QED BY <1>0, <2>2, <2>3, <2>4, GetReturnKeeps DEF Readied0, Moving
<1>2. CASE x.state # "CANCELLED"
  <2>1. x' = [[[[x EXCEPT !.state = "FAILED"] EXCEPT !.pending = <<>>] EXCEPT !.ready = FALSE]
                EXCEPT !.armed = FALSE]
    BY <1>0, <1>2 DEF Finished
  <2>2. x' \in Transfers
    <3>1. [x EXCEPT !.state = "FAILED"] \in Transfers
      BY <1>0, StateNames, TransferUpdates
    <3>2. [[x EXCEPT !.state = "FAILED"] EXCEPT !.pending = <<>>] \in Transfers
      BY <3>1, StateNames, TransferUpdates
    <3>3. [[[x EXCEPT !.state = "FAILED"] EXCEPT !.pending = <<>>] EXCEPT !.ready = FALSE] \in Transfers
      BY <3>2, TransferUpdates
    <3> QED BY <2>1, <3>3, TransferUpdates
  <2>3. /\ x'.state = "FAILED" /\ x'.id = x.id /\ x'.prefix = x.prefix /\ x'.whole = x.whole
        /\ x'.durable = x.durable /\ x'.close = x.close /\ x'.sent = x.sent /\ x'.pump = x.pump
        /\ ~x'.armed /\ ~x'.ready
    BY <1>0, <2>1 DEF Transfers
  <2> QED BY <1>0, <2>2, <2>3, GetReturnKeeps DEF Readied0, Moving
<1> QED BY <1>1, <1>2

LEMMA GetScanKeeps ==
  ASSUME GetMachine, ScanSource
  PROVE  GetMachine' /\ GetGrows
<1> USE DEF GetMachine
<1>0. /\ UNCHANGED <<x, disk, linked, typed, file>> /\ hlp.pc = "scan" /\ hlp.acc = <<>>
      /\ typed \in Ids \cup {None} /\ hlp.id \in Ids
      /\ x.state \notin {"IDLE", "COMPLETE", "FAILED"} /\ hlp \in Helpers(GetHelperPcs)
      /\ hlp.from \in Nat /\ ~hlp.owned
  BY GetTyped DEF ScanSource, KeepsDisk, wireVars, GetWindow, Owned
<1>1. CASE Fails
  BY <1>0, <1>1, GetFailsKeeps
<1>2. CASE /\ disk.target # None
           /\ hlp.from <= Len(disk.target.data)
           /\ SubSeq(disk.target.data, 1, hlp.from) = hlp.crc
           /\ hlp' = [hlp EXCEPT !.pc = "scanned", !.src = disk.target.data]
  <2>1. disk.target.data \in Versions /\ disk.target.data \in Blocks
    <3>1. PICK target \in {None} \cup {Source(v) : v \in Versions} :
            disk = [meta |-> [i \in Ids |-> None], part |-> [i \in Ids |-> None],
                    out |-> [i \in Ids |-> None], target |-> target]
      BY DEF GetMachineTypes
    <3>2. PICK v \in Versions : disk.target = Source(v)
      BY <1>2, <3>1
    <3> QED BY <3>2, VersionFacts DEF Source, File
  <2>2. hlp' \in Helpers(GetHelperPcs)
    <3>1. "scanned" \in GetHelperPcs
      BY DEF GetHelperPcs
    <3> QED BY <1>0, <1>2, <2>1, <3>1 DEF Helpers
  <2>3. /\ hlp'.pc = "scanned" /\ hlp'.id = hlp.id /\ hlp'.from = hlp.from /\ hlp'.crc = hlp.crc
        /\ hlp'.acc = <<>> /\ ~hlp'.owned /\ hlp'.src = disk.target.data
    BY <1>0, <1>2 DEF Helpers
  <2>4. GetMachineTypes' /\ Owned' /\ GetCounts' /\ GetOffer' /\ GetGrows
    <3>1. "scanned" \notin Working
      BY DEF Working
    <3> QED BY <1>0, <2>2, <2>3, <3>1, GetQuiet
  <2>5. GetLive'
    BY <1>0, <2>3 DEF GetLive, Working, WireSize
  <2>6. GetWindow'
    BY <1>0, <1>2, <2>1, <2>3, VersionFacts DEF GetWindow, Working
  <2>7. GetInStep'
    BY <2>3 DEF GetInStep, Working
  <2> QED BY <2>4, <2>5, <2>6, <2>7
<1> QED BY <1>1, <1>2 DEF ScanSource

LEMMA GetReadyKeeps ==
  ASSUME GetMachine, ReadySource
  PROVE  GetMachine' /\ GetGrows
<1> USE DEF GetMachine
<1>0. /\ UNCHANGED <<disk, linked, typed, file>> /\ hlp.pc = "scanned" /\ hlp.acc = <<>>
      /\ hlp.id \in Ids /\ hlp.src \in Versions /\ hlp.src \in Blocks
      /\ hlp.from \in 0 .. Len(hlp.src) /\ SubSeq(hlp.src, 1, hlp.from) = hlp.crc
      /\ hlp \in Helpers(GetHelperPcs) /\ x \in Transfers /\ ~hlp.owned
  BY GetTyped DEF ReadySource, KeepsDisk, CallsTsr, wireVars, GetWindow, Owned
<1>1. CASE Fails /\ KeepsDisk
  BY <1>0, <1>1, GetFailsKeeps DEF KeepsDisk
<1>2. CASE ReadyOk(hlp.id) /\ CallsTsr(ReadiedSource(hlp.src, hlp.from)) /\ Goto("read")
  <2> DEFINE y == [[[[[[x EXCEPT !.state = "READY"] EXCEPT !.ready = TRUE] EXCEPT !.whole = hlp.src]
                        EXCEPT !.durable = hlp.from] EXCEPT !.accepted = hlp.from]
                        EXCEPT !.prefix = SubSeq(hlp.src, 1, hlp.from)]
  <2>0. /\ x.state = "OPENING" /\ x.id = hlp.id /\ x' = y /\ hlp.from \in Nat
        /\ x.durable = hlp.from /\ x.prefix = hlp.crc /\ "read" \in GetHelperPcs
        /\ x.pending = <<>> /\ ~x.acked /\ ~x.rewind /\ x.sent = 0 /\ ~x.armed /\ ~x.pump /\ ~x.close
        /\ hlp.crc \in Blocks
    <3>1. x.state = "OPENING" /\ x.id = hlp.id /\ x' = ReadiedSource(hlp.src, hlp.from)
      BY <1>2 DEF ReadyOk, CallsTsr
    <3>2. x' = y
      BY <3>1 DEF ReadiedSource
    <3> HIDE DEF y
    <3> QED BY <1>0, <3>1, <3>2, GetTyped DEF GetLive, Staging, Owned, Moving, GetHelperPcs, Working
  <2>1. x' \in Transfers
    <3>1. [x EXCEPT !.state = "READY"] \in Transfers
      BY <1>0, StateNames, TransferUpdates
    <3>2. [[x EXCEPT !.state = "READY"] EXCEPT !.ready = TRUE] \in Transfers
      <4>1. \A r \in Transfers : [r EXCEPT !.ready = TRUE] \in Transfers
        BY DEF Transfers
      <4> QED BY <3>1, <4>1
    <3>3. [[[x EXCEPT !.state = "READY"] EXCEPT !.ready = TRUE] EXCEPT !.whole = hlp.src] \in Transfers
      BY <1>0, <3>2, TransferUpdates
    <3>4. [[[[x EXCEPT !.state = "READY"] EXCEPT !.ready = TRUE] EXCEPT !.whole = hlp.src]
             EXCEPT !.durable = hlp.from] \in Transfers
      BY <2>0, <3>3, TransferUpdates
    <3>5. [[[[[x EXCEPT !.state = "READY"] EXCEPT !.ready = TRUE] EXCEPT !.whole = hlp.src]
             EXCEPT !.durable = hlp.from] EXCEPT !.accepted = hlp.from] \in Transfers
      BY <2>0, <3>4, TransferUpdates
    <3>6. y \in Transfers
      BY <1>0, <2>0, <3>5, TransferUpdates
    <3> HIDE DEF y
    <3> QED BY <2>0, <3>6
  <2>2. /\ x'.state = "READY" /\ x'.id = x.id /\ x'.prefix = x.prefix /\ x'.ready
        /\ x'.pending = <<>> /\ ~x'.acked /\ ~x'.rewind /\ x'.whole = hlp.src
        /\ x'.sent = 0 /\ x'.durable = hlp.from /\ x'.accepted = hlp.from
        /\ ~x'.close /\ ~x'.armed /\ ~x'.pump
    BY <1>0, <2>0 DEF Transfers
  <2> HIDE DEF y
  <2>3. /\ hlp' \in Helpers(GetHelperPcs) /\ hlp'.pc = "read" /\ hlp'.id = hlp.id /\ ~hlp'.owned
        /\ hlp'.from = hlp.from /\ hlp'.src = hlp.src /\ hlp'.acc = <<>>
    BY <1>0, <1>2, <2>0, GetTyped, GetGoesTo
  <2>4. GetMachineTypes'
    BY <1>0, <2>1, <2>3, GetTyped, GetTypesStand
  <2>5. Owned'
    BY <1>0, <2>0, <2>2, <2>3 DEF Owned
  <2>6. GetLive'
    BY <1>0, <2>0, <2>2, <2>3 DEF GetLive, Working, Staging, Moving, WireSize
  <2>7. GetCounts'
    <3>1. WireSize' = Len(hlp.src) /\ Len(hlp.src) \in Nat
      BY <1>0, <2>2 DEF WireSize, Blocks
    <3>2. x.durable = Len(x.prefix)
      BY DEF GetCounts
    <3> QED BY <1>0, <2>0, <2>2, <3>1, <3>2, VersionFacts DEF GetCounts, Wholes
  <2>8. GetWindow'
    <3>1. Len(hlp'.acc) = 0
      BY <2>3
    <3> QED BY <1>0, <2>3, <3>1, VersionFacts DEF GetWindow, Working
  <2>9. GetInStep'
    BY <1>0, <2>0, <2>2, <2>3 DEF GetInStep, NextIsToCome, Untold, Working
  <2>10. GetOffer' /\ GetGrows
    BY <2>0, <2>2 DEF GetOffer, GetGrows, Past
  <2> QED BY <2>4, <2>5, <2>6, <2>7, <2>8, <2>9, <2>10
<1> QED BY <1>1, <1>2 DEF ReadySource

LEMMA GetRefillKeeps ==
  ASSUME GetMachine, Refill
  PROVE  GetMachine' /\ GetGrows
<1> USE DEF GetMachine
<1>0. /\ UNCHANGED <<x, disk, linked, typed, file>> /\ hlp.pc = "read" /\ hlp.pc \in Working
      /\ hlp.id \in Ids /\ hlp.src \in Versions /\ hlp.src \in Blocks /\ hlp.from \in Nat
      /\ hlp.from <= Len(hlp.src) /\ Len(hlp.src) \in Nat
      /\ hlp \in Helpers(GetHelperPcs) /\ ~hlp.owned /\ hlp.acc \in Blocks
      /\ typed \in Ids \cup {None}
      /\ hlp.from + Len(hlp.acc) <= Len(hlp.src)
      /\ \A k \in 1 .. Len(hlp.acc) : hlp.acc[k] = hlp.src[hlp.from + k]
      /\ x.state \notin {"IDLE", "COMPLETE", "FAILED"}
  BY GetTyped DEF Refill, KeepsDisk, wireVars, GetWindow, Owned, Working
<1>1. x.ready => hlp.id = x.id /\ hlp.src = x.whole /\ NextIsToCome
  BY <1>0 DEF GetInStep
<1>2. CASE AtEnd
  <2>1. Goto("pump") /\ "pump" \in GetHelperPcs
    BY <1>2 DEF Refill, Goto, GetHelperPcs, Working
  <2>2. /\ hlp' \in Helpers(GetHelperPcs) /\ hlp'.pc = "pump" /\ hlp'.id = hlp.id /\ ~hlp'.owned
        /\ hlp'.from = hlp.from /\ hlp'.src = hlp.src /\ hlp'.acc = hlp.acc
    BY <2>1, GetTyped, GetGoesTo
  <2>3. GetMachineTypes' /\ Owned' /\ GetCounts' /\ GetOffer' /\ GetGrows
    BY <1>0, <2>2, GetQuiet
  <2>4. GetLive'
    BY <1>0, <2>2 DEF GetLive, Working, Staging, Moving, WireSize
  <2>5. AtEnd'
    BY <1>2, <2>2 DEF AtEnd
  <2>6. GetWindow'
    BY <1>0, <2>2, <2>5, VersionFacts DEF GetWindow, Working
  <2>7. GetInStep'
    BY <1>0, <1>1, <2>2, <2>5 DEF GetInStep, NextIsToCome, NothingLeft, Untold
  <2> QED BY <2>3, <2>4, <2>6, <2>7
<1>3. CASE ~AtEnd
  <2> DEFINE acc == IF hlp.acc = <<>> THEN NextWindow ELSE hlp.acc
  <2>0. hlp.from < Len(hlp.src)
    BY <1>0, <1>3 DEF AtEnd
  <2>1. /\ acc \in Blocks /\ acc # <<>>
        /\ hlp.from + Len(acc) <= Len(hlp.src)
        /\ \A k \in 1 .. Len(acc) : acc[k] = hlp.src[hlp.from + k]
    BY <1>0, <2>0, WindowFacts
  <2>2. hlp' = [hlp EXCEPT !.pc = "emit", !.acc = acc] /\ "emit" \in GetHelperPcs
    BY <1>0, <1>3 DEF Refill, GetHelperPcs, Working, Helpers
  <2> HIDE DEF acc
  <2>3. hlp' \in Helpers(GetHelperPcs)
    BY <1>0, <2>1, <2>2 DEF Helpers
  <2>4. /\ hlp'.pc = "emit" /\ hlp'.id = hlp.id /\ ~hlp'.owned
        /\ hlp'.from = hlp.from /\ hlp'.src = hlp.src /\ hlp'.acc = acc
    BY <1>0, <2>2 DEF Helpers
  <2>5. GetMachineTypes' /\ Owned' /\ GetCounts' /\ GetOffer' /\ GetGrows
    BY <1>0, <2>3, <2>4, GetQuiet
  <2>6. x.state # "VERIFYING"
    <3>1. x.state = "VERIFYING" => x.ready /\ x.accepted = WireSize
      BY DEF GetLive
    <3> QED BY <1>0, <1>1, <1>3, <3>1 DEF NextIsToCome, AtEnd, WireSize
  <2>7. x.state \in Moving => x.ready
    BY <1>0 DEF GetLive
  <2>8. GetLive'
    BY <1>0, <2>4, <2>6, <2>7 DEF GetLive, Working, Staging, WireSize
  <2>9. ~AtEnd'
    BY <1>3, <2>4 DEF AtEnd
  <2>10. GetWindow'
    BY <1>0, <2>1, <2>4, <2>9, VersionFacts DEF GetWindow, Working
  <2>11. GetInStep'
    BY <1>0, <1>1, <2>4 DEF GetInStep, NextIsToCome, Untold
  <2> QED BY <2>5, <2>8, <2>10, <2>11
<1> QED BY <1>2, <1>3

LEMMA GetPublishKeeps ==
  ASSUME GetMachine, PublishBlock
  PROVE  GetMachine' /\ GetGrows
<1> USE DEF GetMachine
<1>0. /\ UNCHANGED <<disk, linked, typed, file>> /\ hlp.pc = "emit" /\ hlp.pc \in Working
      /\ hlp.id \in Ids /\ hlp.src \in Versions /\ hlp.src \in Blocks /\ hlp.from \in Nat
      /\ hlp.from <= Len(hlp.src) /\ Len(hlp.src) \in Nat /\ ~AtEnd
      /\ hlp \in Helpers(GetHelperPcs) /\ ~hlp.owned /\ hlp.acc \in Blocks
      /\ hlp.from + Len(hlp.acc) <= Len(hlp.src) /\ hlp.acc # <<>>
      /\ \A k \in 1 .. Len(hlp.acc) : hlp.acc[k] = hlp.src[hlp.from + k]
      /\ x.state \notin {"IDLE", "OPENING", "VERIFYING", "POSTPROCESS", "COMPLETE", "FAILED"}
      /\ x \in Transfers /\ x.accepted \in Nat /\ ~x.pump /\ ~x.close /\ WireSize \in Nat
      /\ (x.state \in Moving => x.ready)
  BY GetTyped DEF PublishBlock, KeepsDisk, CallsTsr, wireVars, GetWindow, Owned, GetLive, Working
<1>1. x.ready => /\ hlp.id = x.id /\ hlp.src = x.whole /\ NextIsToCome
                 /\ x.accepted + 1 <= WireSize
  <2>1. x.ready => hlp.id = x.id /\ hlp.src = x.whole /\ NextIsToCome
    BY <1>0 DEF GetInStep
  <2> QED BY <1>0, <2>1 DEF NextIsToCome, AtEnd, WireSize
<1>2. /\ Head(hlp.acc) \in Nat /\ Head(hlp.acc) = hlp.src[hlp.from + 1] /\ <<Head(hlp.acc)>> \in Blocks
  <2>1. Head(hlp.acc) = hlp.acc[1] /\ hlp.acc[1] \in Nat /\ Len(hlp.acc) \in Nat \ {0}
    BY <1>0, TailFacts
  <2> QED BY <1>0, <2>1 DEF Blocks
<1>3. CASE Fails /\ KeepsDisk
  BY <1>0, <1>3, GetFailsKeeps DEF KeepsDisk
<1>4. CASE PublishOk /\ x.accepted + 1 > WireSize
  <2>0. /\ x' = [[[x EXCEPT !.state = "FAILED"] EXCEPT !.armed = FALSE] EXCEPT !.accepted = x.accepted + 1]
        /\ ~x.ready /\ "fail" \in GetHelperPcs
    BY <1>0, <1>1, <1>4 DEF PublishBlock, Published, CallsTsr, Transfers, GetHelperPcs
  <2>1. x' \in Transfers
    <3>1. [[x EXCEPT !.state = "FAILED"] EXCEPT !.armed = FALSE] \in Transfers
      BY <1>0, StateNames, TransferUpdates
    <3>2. x.accepted + 1 \in Nat
      BY <1>0
    <3> QED BY <2>0, <3>1, <3>2, TransferUpdates
  <2>2. /\ x'.state = "FAILED" /\ x'.id = x.id /\ x'.prefix = x.prefix /\ ~x'.ready
        /\ x'.sent = x.sent /\ x'.durable = x.durable /\ x'.whole = x.whole
        /\ x'.close = x.close /\ ~x'.armed /\ x'.pump = x.pump
    BY <1>0, <2>0 DEF Transfers
  <2>3. Goto("fail")
    <3>1. Goto(IF Published(Head(hlp.acc)).state = "FAILED" THEN "fail" ELSE "pump")
          /\ x' = Published(Head(hlp.acc))
      BY <1>4 DEF PublishBlock, CallsTsr
    <3> QED BY <2>2, <3>1
  <2>4. /\ hlp' \in Helpers(GetHelperPcs) /\ hlp'.pc = "fail" /\ hlp'.id = hlp.id /\ ~hlp'.owned
    BY <2>0, <2>3, GetTyped, GetGoesTo
  <2>5. GetMachineTypes'
    BY <1>0, <2>1, <2>4, GetTyped, GetTypesStand
  <2>6. Owned'
    BY <1>0, <2>2, <2>4 DEF Owned
  <2>7. GetLive'
    BY <1>0, <2>2, <2>4 DEF GetLive, Working, Staging, Moving, WireSize
  <2>8. GetCounts'
    BY <1>0, <2>2, VersionFacts DEF GetCounts, WireSize, Readied0, Moving
  <2>9. GetWindow' /\ GetInStep' /\ GetOffer'
    BY <2>2, <2>4 DEF GetWindow, GetInStep, GetOffer, Working
  <2>10. GetGrows
    BY <1>0, <2>2, <2>4 DEF GetGrows, Past, Unarmed, Working
  <2> QED BY <2>5, <2>6, <2>7, <2>8, <2>9, <2>10
<1>5. CASE PublishOk /\ ~(x.accepted + 1 > WireSize)
  <2>0. /\ x' = [[[x EXCEPT !.pending = <<Head(hlp.acc)>>] EXCEPT !.accepted = x.accepted + 1]
                   EXCEPT !.state = "TRANSFERRING"]
        /\ "pump" \in GetHelperPcs /\ x.pending = <<>>
    BY <1>0, <1>5 DEF PublishBlock, Published, CallsTsr, Transfers, GetHelperPcs, Working, PublishOk
  <2>1. x' \in Transfers
    <3>1. [x EXCEPT !.pending = <<Head(hlp.acc)>>] \in Transfers
      BY <1>0, <1>2, TransferUpdates
    <3>2. x.accepted + 1 \in Nat
      BY <1>0
    <3>3. [[x EXCEPT !.pending = <<Head(hlp.acc)>>] EXCEPT !.accepted = x.accepted + 1] \in Transfers
      BY <3>1, <3>2, TransferUpdates
    <3> QED BY <2>0, <3>3, StateNames, TransferUpdates
  <2>2. /\ x'.state = "TRANSFERRING" /\ x'.id = x.id /\ x'.prefix = x.prefix /\ x'.ready = x.ready
        /\ x'.sent = x.sent /\ x'.durable = x.durable /\ x'.whole = x.whole
        /\ x'.close = x.close /\ x'.armed = x.armed /\ x'.pump = x.pump
        /\ x'.pending = <<Head(hlp.acc)>> /\ x'.accepted = x.accepted + 1
        /\ x'.acked = x.acked /\ x'.rewind = x.rewind
    BY <1>0, <2>0 DEF Transfers
  <2>3. Goto("pump")
    <3>1. Goto(IF Published(Head(hlp.acc)).state = "FAILED" THEN "fail" ELSE "pump")
          /\ x' = Published(Head(hlp.acc))
      BY <1>5 DEF PublishBlock, CallsTsr
    <3> QED BY <2>2, <3>1
  <2>4. /\ hlp' \in Helpers(GetHelperPcs) /\ hlp'.pc = "pump" /\ hlp'.id = hlp.id /\ ~hlp'.owned
        /\ hlp'.from = hlp.from /\ hlp'.src = hlp.src /\ hlp'.acc = hlp.acc
        /\ hlp'.pc \in Working
    BY <2>0, <2>3, GetTyped, GetGoesTo DEF Working
  <2>5. <<Head(hlp.acc)>> # <<>>
    OBVIOUS
  <2>6. GetMachineTypes'
    BY <1>0, <2>1, <2>4, GetTyped, GetTypesStand
  <2>7. Owned'
    BY <1>0, <2>2, <2>4 DEF Owned
  <2>8. GetLive'
    BY <1>0, <1>1, <2>2, <2>4, <2>5 DEF GetLive, Working, Staging, Moving, WireSize
  <2>9. GetCounts'
    <3>1. x.whole \in Versions
      <4>1. x.whole # <<>>
        BY <1>0, <1>5 DEF WireSize
      <4> QED BY <4>1 DEF GetCounts, Wholes
    <3> QED BY <1>0, <2>2, <3>1, VersionFacts DEF GetCounts, WireSize
  <2>10. AtEnd' = AtEnd
    BY <2>4 DEF AtEnd
  <2>11. GetWindow'
    BY <1>0, <2>4, VersionFacts DEF GetWindow, Working
  <2>12. x.ready => /\ x'.accepted = hlp.from + 1 /\ ~x'.acked /\ ~x'.rewind
                    /\ x'.pending = <<hlp.src[hlp.from + 1]>>
    BY <1>1, <1>2, <2>2 DEF NextIsToCome, Untold
  <2>13. GetInStep'
    BY <1>0, <1>1, <2>2, <2>4, <2>10, <2>12 DEF GetInStep, Offers
  <2>14. GetOffer'
    BY <1>1, <2>2, <2>12 DEF GetOffer
  <2>15. GetGrows
    BY <1>0, <2>2, <2>4 DEF GetGrows, Past, Unarmed
  <2> QED BY <2>6, <2>7, <2>8, <2>9, <2>11, <2>13, <2>14, <2>15
<1> QED BY <1>3, <1>4, <1>5 DEF PublishBlock

\* Where a helper that polls is, if it is the transfer's.
LEMMA PollPlace ==
  ASSUME GetMachine, hlp.pc = "poll"
  PROVE  /\ x.state \notin {"IDLE", "COMPLETE", "FAILED", "OPENING", "POSTPROCESS"}
         /\ x.ready => hlp.id = x.id /\ hlp.src = x.whole
         /\ x.ready /\ x.state # "CANCELLED" => GoesBack \/ NothingLeft \/ Offers
         /\ ~x.ready => /\ ~x.acked /\ ~x.rewind /\ x.state # "VERIFYING"
                        /\ x.state \in Moving => x.pending # <<>>
BY DEF GetMachine, Owned, GetLive, GetInStep, Working

\* The flags that a poll takes.
LEMMA PolledFacts ==
  ASSUME GetMachine
  PROVE  /\ GetPolled \in Transfers
         /\ GetPolled.state = x.state /\ GetPolled.id = x.id /\ GetPolled.from = x.from
         /\ GetPolled.accepted = x.accepted /\ GetPolled.durable = x.durable
         /\ GetPolled.prefix = x.prefix /\ GetPolled.pending = x.pending
         /\ GetPolled.close = x.close /\ GetPolled.ready = x.ready
         /\ GetPolled.armed = x.armed /\ GetPolled.pump = x.pump
         /\ GetPolled.whole = x.whole /\ GetPolled.sent = x.sent
         /\ GetPolled.rewind => x.rewind
         /\ GetPolled.acked => x.acked
         /\ GetPoll = "rewind" => ~GetPolled.rewind /\ GetPolled.acked = x.acked
         /\ GetPoll = "sent" => ~GetPolled.acked /\ GetPolled.rewind = x.rewind
         /\ GetPoll \notin {"rewind", "sent"} => GetPolled = x
<1>1. x \in Transfers
  BY GetTyped
<1>2. CASE GetPoll = "rewind"
  <2>1. GetPolled = [x EXCEPT !.rewind = FALSE] /\ FALSE \in BOOLEAN
    BY <1>2 DEF GetPolled
  <2>2. GetPolled \in Transfers
    BY <1>1, <2>1, TransferUpdates, Zenon
  <2> QED BY <1>1, <1>2, <2>1, <2>2 DEF Transfers
<1>3. CASE GetPoll = "sent"
  <2>1. GetPolled = [x EXCEPT !.acked = FALSE] /\ FALSE \in BOOLEAN
    BY <1>3 DEF GetPolled
  <2>2. GetPolled \in Transfers
    BY <1>1, <2>1, TransferUpdates, Zenon
  <2> QED BY <1>1, <1>3, <2>1, <2>2 DEF Transfers
<1>4. CASE GetPoll \notin {"rewind", "sent"}
  BY <1>1, <1>4 DEF GetPolled
<1> QED BY <1>2, <1>3, <1>4

\* What was heard.
LEMMA HeardFacts ==
  ASSUME GetMachine
  PROVE  /\ GetPoll = "stop" <=> x.state \in {"FAILED", "CANCELLED"}
         /\ GetPoll = "rewind" => x.rewind
         /\ GetPoll \in {"sent", "close", "wait"} => ~x.rewind
         /\ GetPoll = "sent" => x.acked \/ (~x.close /\ x.pending = <<>>)
         /\ GetPoll = "close" => x.close /\ ~x.acked
         /\ GetPoll = "wait" => x.pending # <<>> /\ ~x.acked /\ ~x.close
BY DEF GetPoll

LEMMA GetPollKeeps ==
  ASSUME GetMachine, PollGet
  PROVE  GetMachine' /\ GetGrows
<1> USE DEF GetMachine
<1>0. /\ UNCHANGED <<disk, linked, typed, file>> /\ x' = GetPolled /\ hlp.pc = "poll" /\ hlp.pc \in Working
      /\ hlp.id \in Ids /\ hlp.src \in Versions /\ hlp.src \in Blocks /\ hlp.from \in Nat
      /\ hlp.from <= Len(hlp.src) /\ Len(hlp.src) \in Nat
      /\ hlp \in Helpers(GetHelperPcs) /\ ~hlp.owned /\ hlp.acc \in Blocks
      /\ hlp.from + Len(hlp.acc) <= Len(hlp.src) /\ (~AtEnd => hlp.acc # <<>>)
      /\ \A k \in 1 .. Len(hlp.acc) : hlp.acc[k] = hlp.src[hlp.from + k]
      /\ x \in Transfers /\ x.accepted \in Nat /\ ~x.pump /\ WireSize \in Nat
      /\ x.durable \in Nat /\ x.state \notin {"IDLE", "COMPLETE", "FAILED", "OPENING", "POSTPROCESS"}
      /\ {"read", "pump", "postprocess"} \subseteq GetHelperPcs
      /\ typed \in Ids \cup {None} /\ linked \in BOOLEAN
  <2>1. hlp.pc = "poll" /\ hlp.pc \in Working /\ {"read", "pump", "postprocess"} \subseteq GetHelperPcs
    BY DEF PollGet, Working, GetHelperPcs
  <2> QED BY <2>1, GetTyped, PollPlace DEF PollGet, CallsTsr, wireVars, GetWindow, Owned
<1>1. CASE GetPoll = "stop" /\ Fails
  <2>1. x' = x
    BY <1>0, <1>1, PolledFacts
  <2> QED BY <1>0, <1>1, <2>1, GetFailsKeeps
\* In the cases that remain the transfer goes on.
<1>2. /\ x' \in Transfers /\ x'.state = x.state /\ x'.id = x.id /\ x'.from = x.from
      /\ x'.accepted = x.accepted /\ x'.durable = x.durable
      /\ x'.prefix = x.prefix /\ x'.pending = x.pending
      /\ x'.close = x.close /\ x'.ready = x.ready
      /\ x'.armed = x.armed /\ x'.pump = x.pump
      /\ x'.whole = x.whole /\ x'.sent = x.sent
      /\ (x'.rewind => x.rewind) /\ (x'.acked => x.acked)
  BY <1>0, PolledFacts
<1>3. ASSUME hlp' \in Helpers(GetHelperPcs), hlp'.id = hlp.id, ~hlp'.owned,
             hlp'.pc \in {"read", "pump", "postprocess"}, x.state # "CANCELLED",
             x.state = "VERIFYING" \/ hlp'.pc # "postprocess",
             hlp'.pc = "read" => x.state \notin Moving \/ x.ready
      PROVE  GetMachineTypes' /\ Owned' /\ GetLive' /\ GetCounts' /\ GetOffer' /\ GetGrows
  <2>1. GetMachineTypes'
    BY <1>0, <1>2, <1>3, GetTypesStand
  <2>2. Owned'
    BY <1>0, <1>2, <1>3 DEF Owned
  <2>3. GetLive'
    <3>1. hlp.pc \in Working
      BY <1>0
    <3> QED BY <1>0, <1>2, <1>3, <3>1, PollPlace DEF GetLive, Working, Staging, Moving, WireSize
  <2>4. GetCounts'
    BY <1>0, <1>2, VersionFacts DEF GetCounts, WireSize
  <2>5. GetOffer'
    BY <1>2 DEF GetOffer
  <2>6. GetGrows
    <3>1. hlp'.pc \in Working => hlp.pc \in Working
      BY <1>0
    <3> QED BY <1>2, <3>1 DEF GetGrows, Past, Unarmed
  <2> QED BY <2>1, <2>2, <2>3, <2>4, <2>5, <2>6
<1>4. CASE GetPoll = "rewind" /\ hlp' = [hlp EXCEPT !.pc = "read", !.from = x.durable, !.acc = <<>>]
  <2>1. x.rewind /\ x.ready /\ x.state # "CANCELLED" /\ GoesBack /\ ~x'.rewind /\ x'.acked = x.acked
        /\ hlp.id = x.id /\ hlp.src = x.whole
    <3>1. x.rewind /\ x.state # "CANCELLED" /\ ~x'.rewind /\ x'.acked = x.acked
      BY <1>0, <1>4, PolledFacts, HeardFacts
    <3> QED BY <1>0, <3>1, PollPlace DEF NothingLeft, Offers
  <2>2. hlp' \in Helpers(GetHelperPcs)
    BY <1>0, <1>4, StateNames DEF Helpers
  <2>3. /\ hlp'.pc = "read" /\ hlp'.id = hlp.id /\ ~hlp'.owned /\ hlp'.from = x.durable
        /\ hlp'.src = hlp.src /\ hlp'.acc = <<>>
    BY <1>0, <1>4 DEF Helpers
  <2>4. GetMachineTypes' /\ Owned' /\ GetLive' /\ GetCounts' /\ GetOffer' /\ GetGrows
    BY <1>3, <2>1, <2>2, <2>3
  <2>5. x.durable <= Len(hlp.src) /\ Len(hlp'.acc) = 0
    BY <2>1, <2>3 DEF GetCounts, WireSize
  <2>6. GetWindow'
    BY <1>0, <2>3, <2>5, VersionFacts DEF GetWindow, Working
  <2>7. GetInStep'
    BY <1>0, <1>2, <2>1, <2>3 DEF GetInStep, NextIsToCome, GoesBack, Untold
  <2> QED BY <2>4, <2>6, <2>7
<1>5. CASE GetPoll = "sent" /\ ~AtEnd
           /\ hlp' = [hlp EXCEPT !.pc = "read", !.from = @ + 1, !.acc = Tail(@)]
  <2>1. /\ x.state # "CANCELLED" /\ ~x.rewind /\ ~x'.acked /\ ~x'.rewind
        /\ x.acked \/ (~x.close /\ x.pending = <<>>)
    BY <1>0, <1>5, PolledFacts, HeardFacts
  <2>2. x.ready => Offers /\ x.pending = <<>> /\ x.acked /\ x.armed
    <3>1. <<hlp.src[hlp.from + 1]>> # <<>>
      OBVIOUS
    <3> QED BY <1>0, <1>5, <2>1, <3>1, PollPlace DEF GoesBack, NothingLeft, Offers
  <2>3. ~x.ready => x.state \notin Moving
    BY <1>0, <2>1, PollPlace
  <2>4. /\ Tail(hlp.acc) \in Blocks /\ Len(Tail(hlp.acc)) = Len(hlp.acc) - 1 /\ Len(hlp.acc) \in Nat \ {0}
        /\ \A k \in 1 .. Len(hlp.acc) - 1 : Tail(hlp.acc)[k] = hlp.acc[k + 1]
        /\ hlp.from + 1 \in Nat /\ hlp.from + 1 <= Len(hlp.src)
    <3>1. hlp.acc # <<>> /\ hlp.from # Len(hlp.src)
      BY <1>0, <1>5 DEF AtEnd
    <3>2. /\ Tail(hlp.acc) \in Blocks /\ Len(Tail(hlp.acc)) = Len(hlp.acc) - 1 /\ Len(hlp.acc) \in Nat \ {0}
          /\ \A k \in 1 .. Len(hlp.acc) - 1 : Tail(hlp.acc)[k] = hlp.acc[k + 1]
      BY <1>0, <3>1, TailFacts
    <3>3. hlp.from + 1 \in Nat /\ hlp.from + 1 <= Len(hlp.src)
      BY <1>0, <3>1
    <3> QED BY <3>2, <3>3
  <2>5. hlp' = [[[hlp EXCEPT !.pc = "read"] EXCEPT !.from = hlp.from + 1] EXCEPT !.acc = Tail(hlp.acc)]
    BY <1>0, <1>5 DEF Helpers
  <2>6. hlp' \in Helpers(GetHelperPcs)
    <3>1. [hlp EXCEPT !.pc = "read"] \in Helpers(GetHelperPcs)
      BY <1>0, HelperUpdates
    <3>2. [[hlp EXCEPT !.pc = "read"] EXCEPT !.from = hlp.from + 1] \in Helpers(GetHelperPcs)
      BY <2>4, <3>1, HelperUpdates
    <3> QED BY <2>4, <2>5, <3>2, HelperUpdates
  <2>7. /\ hlp'.pc = "read" /\ hlp'.id = hlp.id /\ ~hlp'.owned /\ hlp'.from = hlp.from + 1
        /\ hlp'.src = hlp.src /\ hlp'.acc = Tail(hlp.acc)
    BY <1>0, <2>5 DEF Helpers
  <2>8. GetMachineTypes' /\ Owned' /\ GetLive' /\ GetCounts' /\ GetOffer' /\ GetGrows
    BY <1>3, <2>1, <2>3, <2>6, <2>7
  <2>9. /\ (hlp.from + 1) + Len(Tail(hlp.acc)) <= Len(hlp.src)
        /\ \A k \in 1 .. Len(Tail(hlp.acc)) : Tail(hlp.acc)[k] = hlp.src[(hlp.from + 1) + k]
    <3>1. (hlp.from + 1) + Len(Tail(hlp.acc)) <= Len(hlp.src)
      BY <1>0, <2>4
    <3>2. ASSUME NEW k \in 1 .. Len(Tail(hlp.acc))
          PROVE Tail(hlp.acc)[k] = hlp.src[(hlp.from + 1) + k]
      <4>1. k \in 1 .. Len(hlp.acc) - 1 /\ k + 1 \in 1 .. Len(hlp.acc)
            /\ hlp.from + (k + 1) = (hlp.from + 1) + k
        BY <1>0, <2>4
      <4>2. Tail(hlp.acc)[k] = hlp.acc[k + 1] /\ hlp.acc[k + 1] = hlp.src[hlp.from + (k + 1)]
        BY <1>0, <2>4, <4>1
      <4> QED BY <4>1, <4>2
    <3> QED BY <3>1, <3>2
  <2>10. GetWindow'
    BY <1>0, <2>4, <2>7, <2>9, VersionFacts DEF GetWindow, Working
  <2>11. x.ready => x'.accepted = hlp'.from /\ Untold' /\ x'.armed /\ hlp.id = x.id /\ hlp.src = x.whole
    BY <1>0, <1>2, <2>1, <2>2, <2>7, PollPlace DEF Offers, Untold
  <2>12. GetInStep'
    BY <1>2, <2>1, <2>7, <2>11 DEF GetInStep, NextIsToCome
  <2> QED BY <2>8, <2>10, <2>12
<1>6. ASSUME NEW p \in {"pump", "postprocess"}, Goto(p), x.state # "CANCELLED",
             p = "postprocess" => x.state = "VERIFYING", p = "pump" => ~x.rewind,
             p = "pump" /\ x.ready => (NothingLeft \/ Offers) /\ (Offers => x.pending # <<>>)
      PROVE  GetMachine' /\ GetGrows
  <2>1. /\ hlp' \in Helpers(GetHelperPcs) /\ hlp'.pc = p /\ hlp'.id = hlp.id /\ ~hlp'.owned
        /\ hlp'.from = hlp.from /\ hlp'.src = hlp.src /\ hlp'.acc = hlp.acc
    BY <1>0, <1>6, GetGoesTo
  <2>2. GetMachineTypes' /\ Owned' /\ GetLive' /\ GetCounts' /\ GetOffer' /\ GetGrows
    BY <1>3, <1>6, <2>1
  <2>3. AtEnd' = AtEnd
    BY <2>1 DEF AtEnd
  <2>4. GetWindow'
    BY <1>0, <1>6, <2>1, <2>3, VersionFacts DEF GetWindow, Working
  <2>5. GetInStep'
    <3>1. CASE p = "postprocess"
      BY <2>1, <3>1 DEF GetInStep, Working
    <3>2. CASE p = "pump"
      <4>1. x.ready => hlp.id = x.id /\ hlp.src = x.whole
        BY <1>0, PollPlace
      <4>2. x.ready => NothingLeft' \/ Offers'
        BY <1>2, <1>6, <2>1, <2>3, <3>2 DEF NothingLeft, Offers, Untold
      <4> QED BY <1>2, <2>1, <3>2, <4>1, <4>2 DEF GetInStep
    <3> QED BY <1>6, <3>1, <3>2
  <2> QED BY <2>2, <2>4, <2>5
<1>7. CASE GetPoll = "close" /\ AtEnd /\ Goto("postprocess")
  <2>1. x.close /\ x.state # "CANCELLED"
    BY <1>7, HeardFacts
  <2>2. x.state = "VERIFYING"
    BY <1>0, <2>1 DEF Owned
  <2> QED BY <1>6, <1>7, <2>1, <2>2
<1>8. CASE Waits /\ Goto("pump")
  <2>0. file.get
    BY GetTyped
  <2>1. GetPoll = "wait" \/ (AtEnd /\ GetPoll = "sent") \/ (~AtEnd /\ GetPoll = "close")
    BY <1>8, <2>0 DEF Waits
  <2>2. x.state # "CANCELLED" /\ ~x.rewind
    BY <2>1, HeardFacts
  <2>3. x.ready => (NothingLeft \/ Offers) /\ (Offers => x.pending # <<>>)
    <3>1. x.close => x.state = "VERIFYING" /\ x.pending = <<>>
      BY <1>0, <2>2 DEF Owned, GetLive
    <3>2. <<hlp.src[hlp.from + 1]>> # <<>>
      OBVIOUS
    <3>3. x.ready => (NothingLeft \/ Offers)
      BY <1>0, <2>2, PollPlace DEF GoesBack
    <3>4. NothingLeft => AtEnd
      BY DEF NothingLeft
    <3>5. Offers => ~AtEnd /\ (x.pending = <<>> => x.acked)
      BY <3>2 DEF Offers
    <3> QED BY <2>1, <3>1, <3>3, <3>4, <3>5, HeardFacts
  <2> QED BY <1>6, <1>8, <2>2, <2>3
<1> QED BY <1>1, <1>4, <1>5, <1>7, <1>8 DEF PollGet

LEMMA GetHelperKeeps ==
  ASSUME GetMachine, HelperSteps \/ TimesOut(NoBlockComes) \/ DosError
  PROVE  GetMachine' /\ GetGrows
<1>0. file.get /\ hlp.pc \in GetHelperPcs /\ ~file.packed
  BY DEF GetMachine, GetMachineTypes, Helpers
<1>1. ~PutHelperSteps
  BY <1>0 DEF PutHelperSteps, GetHelperPcs, Working, Prepare, CreateMeta, CreatePart, Ready, Poll, Release,
    WriteWindow, EnsureWindow, Commit, Finalize, OwnScratch, DropScratch, CreateScratch, Decode,
    RequireAbsent, MarkPublishing, Recover, Rename, MarkPublished, Revalidate, CleanPart, CleanMeta
<1>2. CASE GetHelperSteps
  BY <1>2, GetScanKeeps, GetReadyKeeps, GetRefillKeeps, GetPublishKeeps, GetPollKeeps DEF GetHelperSteps
<1>3. CASE Start \/ Claim \/ EnterPump \/ LeavePump \/ Postprocess \/ Finish \/ Fail
  BY <1>3, GetStartKeeps, GetClaimKeeps, GetPumpKeeps, GetPostprocessKeeps, GetFinishKeeps, GetFailKeeps
<1>4. CASE TimesOut(NoBlockComes)
  BY <1>4, GetFailsKeeps DEF TimesOut
<1>5. CASE DosError
  <2>1. hlp.pc \in {"scan", "read"}
    BY <1>0, <1>5 DEF DosError, CallsDos, GetHelperPcs, Working
  <2> QED BY <1>5, <2>1, GetFailsKeeps DEF DosError
<1> QED BY <1>1, <1>2, <1>3, <1>4, <1>5 DEF HelperSteps

----------------------------------------------------------------------------
(* GET: the agent serves a request. *)

\* What the types of a call make of it.
LEMMA GetCallFacts ==
  ASSUME GetMachine, GetTalk, call # None
  PROVE  /\ GoodGetCall(call) /\ call.id \in Ids
         /\ call.id = x.id => x.state # "IDLE"
<1>1. GoodGetCall(call)
  BY DEF GetTalk, GetCallFits
<1>2. call.id \in Ids
  BY <1>1 DEF GoodGetCall, Requests
<1>3. x.state = "IDLE" => x.id = None
  BY DEF GetMachine, Owned, IdleTransfer
<1> QED BY <1>1, <1>2, <1>3, WireAssumption

\* The resident changes; helper and disk stand still.
LEMMA GetAgentMove ==
  ASSUME GetMachine, UNCHANGED <<hlp, disk, linked, typed, file>>,
         x' \in Transfers, ~x'.pump, x'.state # "IDLE", x'.id \in Ids,
         x'.state \in {"COMPLETE", "FAILED"} => x'.state = x.state,
         x'.close => x'.state = "VERIFYING",
         GetLive', GetCounts', GetInStep', GetOffer'
  PROVE  GetMachine'
<1> USE DEF GetMachine
<1>1. GetMachineTypes'
  BY GetTyped, GetTypesStand
<1>2. Owned'
  BY DEF Owned
<1>3. GetWindow'
  <2>1. AtEnd' = AtEnd
    BY DEF AtEnd
  <2> QED BY <2>1, VersionFacts DEF GetWindow
<1> QED BY <1>1, <1>2, <1>3

\* An answer without data.
LEMMA NoData ==
  ASSUME NEW y
  PROVE  Report(y) = [Report(y) EXCEPT !.data = <<>>]
<1>1. Report(y) \in [ok : {TRUE}, state : {y.state}, accepted : {y.accepted},
                     durable : {y.durable}, prefix : {y.prefix}, whole : {y.whole}, data : {<<>>}]
  BY DEF Report
<1>2. Report(y).data = <<>>
  BY DEF Report
<1> QED BY <1>1, <1>2

\* What is answered about a transfer of its own is true.
LEMMA GetAnswered ==
  ASSUME GetMachine', NEW y \in Transfers, NEW d \in Blocks,
         x' = [y EXCEPT !.pump = FALSE], rsp' = [Report(y) EXCEPT !.data = d], UNCHANGED call,
         x'.state # "IDLE", call.id = x'.id, call.op = "begin" => Past' /\ ~Unarmed'
  PROVE  GetReplyFits'
<1>1. /\ x' \in Transfers
      /\ x'.state = y.state /\ x'.accepted = y.accepted /\ x'.durable = y.durable
      /\ x'.prefix = y.prefix /\ x'.whole = y.whole
  BY DEF GetMachine, GetMachineTypes, WireTypes, Transfers
<1>2. /\ rsp'.state = x'.state /\ rsp'.durable = x'.durable /\ rsp'.prefix = x'.prefix
      /\ rsp'.whole = x'.whole
  BY <1>1 DEF Report
<1>3. rsp' \in Reports
  BY <1>1, StateNames DEF Report, Reports, Transfers
<1>4. /\ x'.durable = Len(x'.prefix) /\ x'.whole \in Wholes'
      /\ Readied0(x'.state) => x'.whole \in Versions'
      /\ x'.state \in {"VERIFYING", "POSTPROCESS", "COMPLETE"} \/ x'.close =>
           x'.durable = Len(x'.whole)
  BY DEF GetMachine, GetCounts, GetLive, WireSize, Readied0, Moving
<1>5. Opened(rsp'.state) => Past'
  BY <1>2 DEF Opened, Past
<1> QED BY <1>2, <1>3, <1>4, <1>5 DEF GetReplyFits, GoodGetReply, Opened, Readied0

\* Flags only, as of every answer that changes nothing.
LEMMA GetFlagsAnswered ==
  ASSUME GetMachine, GetTalk, UNCHANGED <<hlp, disk, linked, typed, file>>,
         x' = [x EXCEPT !.pump = FALSE]
  PROVE  GetMachine' /\ GetGrows /\ GetSame
<1>1. x \in Transfers /\ linked \in BOOLEAN /\ typed \in Ids \cup {None} /\ FALSE \in BOOLEAN
  BY GetTyped
<1>2. x' \in Transfers
  BY <1>1, TransferUpdates, Zenon
<1>3. x.state = "IDLE" => x' = x
  BY DEF GetMachine, Owned, IdleTransfer
<1>4. GetSame /\ x'.armed = x.armed /\ ~x'.pump
  BY <1>1, <1>2, <1>3 DEF GetSame, Transfers
<1> QED BY <1>1, <1>4, GetSameKeeps

LEMMA GetStatusKeeps ==
  ASSUME GetMachine, GetTalk, UNCHANGED <<hlp, disk>>, call # None, call.id = x.id,
         call.op # "begin", Answer(x)
  PROVE  GetMachine' /\ GetGrows /\ GetReplyFits'
<1>1. GetMachine' /\ GetGrows /\ GetSame
  BY GetFlagsAnswered DEF Answer
<1>2. x \in Transfers /\ x.state # "IDLE" /\ x'.state # "IDLE" /\ call.id = x'.id
  BY <1>1, GetTyped, GetCallFacts DEF GetSame
<1>3. rsp' = [Report(x) EXCEPT !.data = <<>>]
  BY NoData DEF Answer
<1> QED BY <1>1, <1>2, <1>3, StateNames, GetAnswered DEF Answer

LEMMA GetBegunKeeps ==
  ASSUME GetMachine, GetTalk, UNCHANGED <<hlp, disk>>, ServeBegin
  PROVE  GetMachine' /\ GetGrows /\ GetReplyFits'
<1> USE DEF GetMachine
<1>0. /\ Answer(Begun) /\ call # None /\ call.id = x.id /\ call.id \in Ids /\ call.op = "begin"
      /\ x.state \in Moving /\ x.ready /\ x.state # "IDLE" /\ file.get
      /\ x \in Transfers /\ hlp.id = x.id /\ hlp.pc \in Working \cup {"fail"}
      /\ x.durable \in Nat /\ ~x.close
      /\ UNCHANGED <<linked, typed, file, call>>
  BY GetTyped, GetCallFacts DEF ServeBegin, CanHear, CanBegin, IsOurs, Answer, GetLive, Owned, Moving
<1>1. Begun \in Transfers /\ Begun.armed /\ Begun.state = x.state /\ Begun.id = x.id
      /\ Begun.prefix = x.prefix /\ Begun.durable = x.durable /\ Begun.close = x.close
      /\ Begun.ready = x.ready /\ Begun.whole = x.whole /\ Begun.from = x.from
      /\ \/ /\ ~x.armed /\ Overhangs
            /\ Begun.pending = <<>> /\ ~Begun.acked /\ Begun.rewind
            /\ Begun.accepted = x.durable /\ Begun.sent = x.durable
         \/ /\ ~(~x.armed /\ Overhangs)
            /\ Begun.pending = x.pending /\ Begun.acked = x.acked /\ Begun.rewind = x.rewind
            /\ Begun.accepted = x.accepted /\ Begun.sent = x.sent
  <2>1. CASE ~x.armed /\ Overhangs
    <3>1. Begun = [[[[[[x EXCEPT !.armed = TRUE] EXCEPT !.pending = <<>>] EXCEPT !.acked = FALSE]
                      EXCEPT !.rewind = TRUE] EXCEPT !.accepted = x.durable] EXCEPT !.sent = x.durable]
      BY <1>0, <2>1 DEF Begun
    <3>2. [x EXCEPT !.armed = TRUE] \in Transfers
      BY <1>0, TransferUpdates
    <3>3. [[x EXCEPT !.armed = TRUE] EXCEPT !.pending = <<>>] \in Transfers
      BY <3>2, StateNames, TransferUpdates
    <3>4. [[[x EXCEPT !.armed = TRUE] EXCEPT !.pending = <<>>] EXCEPT !.acked = FALSE] \in Transfers
      BY <3>3, TransferUpdates
    <3>5. [[[[x EXCEPT !.armed = TRUE] EXCEPT !.pending = <<>>] EXCEPT !.acked = FALSE]
                      EXCEPT !.rewind = TRUE] \in Transfers
      BY <3>4, TransferUpdates
    <3>6. [[[[[x EXCEPT !.armed = TRUE] EXCEPT !.pending = <<>>] EXCEPT !.acked = FALSE]
                      EXCEPT !.rewind = TRUE] EXCEPT !.accepted = x.durable] \in Transfers
      BY <1>0, <3>5, TransferUpdates
    <3>7. Begun \in Transfers
      BY <1>0, <3>1, <3>6, TransferUpdates
    <3> QED BY <1>0, <2>1, <3>1, <3>7 DEF Transfers
  <2>2. CASE ~(~x.armed /\ Overhangs)
    <3>1. Begun = [x EXCEPT !.armed = TRUE]
      BY <1>0, <2>2 DEF Begun
    <3>2. Begun \in Transfers
      BY <1>0, <3>1, TransferUpdates
    <3> QED BY <1>0, <2>2, <3>1, <3>2 DEF Transfers
  <2> QED BY <2>1, <2>2
<1>2. x' \in Transfers
  BY <1>0, <1>1, TransferUpdates DEF Answer
<1>3. /\ x'.armed /\ ~x'.pump /\ x'.state = x.state /\ x'.id = x.id
      /\ x'.prefix = x.prefix /\ x'.durable = x.durable /\ x'.close = x.close
      /\ x'.ready = x.ready /\ x'.whole = x.whole /\ x'.from = x.from
      /\ x'.pending = Begun.pending /\ x'.acked = Begun.acked /\ x'.rewind = Begun.rewind
      /\ x'.accepted = Begun.accepted /\ x'.sent = Begun.sent
  BY <1>0, <1>1 DEF Answer, Transfers
<1>4. GetLive'
  BY <1>0, <1>3 DEF GetLive, Moving, Staging, Working
<1>5. GetCounts'
  BY <1>0, <1>1, <1>3, VersionFacts DEF GetCounts, WireSize
<1>6. GetOffer'
  BY <1>1, <1>3 DEF GetOffer
<1>7. GetInStep'
  <2>1. AtEnd' = AtEnd
    BY DEF AtEnd
  <2>2. CASE ~x.armed /\ Overhangs
    <3>1. hlp.pc \notin {"read", "emit"}
      BY <1>0, <2>2 DEF GetInStep, NextIsToCome, Overhangs, Working
    <3>2. GoesBack'
      BY <1>1, <1>3, <2>2 DEF GoesBack, Untold
    <3> QED BY <1>0, <1>3, <3>1, <3>2 DEF GetInStep
  <2>3. CASE ~(~x.armed /\ Overhangs)
    <3>1. /\ x'.pending = x.pending /\ x'.acked = x.acked /\ x'.rewind = x.rewind
          /\ x'.accepted = x.accepted /\ x'.sent = x.sent
      BY <1>1, <1>3, <2>3
    <3>2. /\ NextIsToCome => NextIsToCome'
          /\ GoesBack => GoesBack'
          /\ NothingLeft => NothingLeft'
          /\ Offers => Offers'
      BY <1>3, <2>1, <3>1 DEF NextIsToCome, GoesBack, NothingLeft, Offers, Untold
    <3> QED BY <1>3, <3>2 DEF GetInStep
  <2> QED BY <2>2, <2>3
<1>8. GetMachine'
  <2>1. x'.state \notin {"IDLE", "COMPLETE", "FAILED"} /\ x'.id \in Ids /\ ~x'.close
    BY <1>0, <1>3 DEF Moving
  <2> HIDE DEF GetMachine
  <2> QED BY <1>0, <1>2, <1>3, <1>4, <1>5, <1>6, <1>7, <2>1, GetAgentMove
<1>9. GetGrows /\ Past' /\ ~Unarmed'
  BY <1>0, <1>3 DEF GetGrows, Past, Unarmed, Moving
<1>10. GetReplyFits'
  <2>1. rsp' = [Report(Begun) EXCEPT !.data = <<>>]
    BY <1>0, NoData DEF Answer
  <2> HIDE DEF GetMachine
  <2> QED BY <1>0, <1>1, <1>3, <1>8, <1>9, <2>1, StateNames, GetAnswered DEF Answer
<1> QED BY <1>8, <1>9, <1>10

\* The block on offer is taken.
LEMMA GetTakenKeeps ==
  ASSUME GetMachine, GetTalk, UNCHANGED <<hlp, disk>>, ServeRead, x.pending # <<>>
  PROVE  GetMachine' /\ GetGrows /\ GetReplyFits'
<1> USE DEF GetMachine
<1> DEFINE y == [x EXCEPT !.pending = <<>>, !.acked = TRUE, !.sent = x.accepted,
                          !.state = "TRANSFERRING"]
<1>0. /\ x' = [y EXCEPT !.pump = FALSE] /\ rsp' = [Report(y) EXCEPT !.data = x.pending]
      /\ call # None /\ call.id = x.id /\ call.id \in Ids /\ call.op = "read"
      /\ x.pump /\ hlp.pc = "pumping" /\ x.armed /\ x.ready /\ x.state \in Moving
      /\ x \in Transfers /\ x.accepted \in Nat /\ x.pending \in Blocks
      /\ UNCHANGED <<linked, typed, file, call>>
  <2>1. x.pump /\ hlp.pc = "pumping" /\ x.armed /\ x.ready /\ x.state \in Moving
    BY DEF ServeRead, CanRead, Owned, GetLive
  <2>2. x' = [y EXCEPT !.pump = FALSE] /\ rsp' = [Report(y) EXCEPT !.data = x.pending]
    BY DEF ServeRead
  <2> QED BY <2>1, <2>2, GetTyped, GetCallFacts DEF ServeRead, CanHear, CanRead, IsOurs
<1>1. Offers /\ ~x.acked /\ hlp.id = x.id /\ hlp.src = x.whole /\ ~x.close
  <2>1. "pumping" \in Working /\ x.state # "CANCELLED" /\ ~x.close
    BY <1>0 DEF Working, Moving, Owned
  <2> QED BY <1>0, <2>1 DEF GetInStep, GoesBack, NothingLeft, Offers, Untold
<1>2. y \in Transfers
  <2>1. [x EXCEPT !.pending = <<>>] \in Transfers
    BY <1>0, StateNames, TransferUpdates
  <2>2. [[x EXCEPT !.pending = <<>>] EXCEPT !.acked = TRUE] \in Transfers
    BY <2>1, TransferUpdates
  <2>3. [[[x EXCEPT !.pending = <<>>] EXCEPT !.acked = TRUE] EXCEPT !.sent = x.accepted] \in Transfers
    BY <1>0, <2>2, TransferUpdates
  <2>4. y = [[[[x EXCEPT !.pending = <<>>] EXCEPT !.acked = TRUE] EXCEPT !.sent = x.accepted]
              EXCEPT !.state = "TRANSFERRING"]
    OBVIOUS
  <2> HIDE DEF y
  <2> QED BY <2>3, <2>4, StateNames, TransferUpdates
<1>3. x' \in Transfers
  BY <1>0, <1>2, TransferUpdates
<1>4. /\ x'.armed = x.armed /\ ~x'.pump /\ x'.state = "TRANSFERRING" /\ x'.id = x.id
      /\ x'.prefix = x.prefix /\ x'.durable = x.durable /\ x'.close = x.close
      /\ x'.ready = x.ready /\ x'.whole = x.whole /\ x'.from = x.from
      /\ x'.pending = <<>> /\ x'.acked /\ x'.rewind = x.rewind
      /\ x'.accepted = x.accepted /\ x'.sent = x.accepted
  BY <1>0 DEF Transfers
<1> HIDE DEF y
<1>5. x.accepted <= WireSize /\ WireSize \in Nat
  <2>1. hlp.from <= Len(hlp.src) /\ hlp.from # Len(hlp.src)
    BY <1>0, <1>1 DEF GetWindow, Working, Offers, AtEnd
  <2> QED BY <1>1, <2>1, GetTyped DEF Offers, WireSize
<1>6. GetLive'
  BY <1>0, <1>1, <1>4 DEF GetLive, Moving, Staging, Working
<1>7. GetCounts'
  BY <1>0, <1>4, <1>5, VersionFacts DEF GetCounts, WireSize
<1>8. GetOffer'
  BY <1>4 DEF GetOffer
<1>9. GetInStep'
  <2>1. AtEnd' = AtEnd
    BY DEF AtEnd
  <2>2. Offers'
    BY <1>0, <1>1, <1>4, <2>1 DEF Offers
  <2> QED BY <1>0, <1>1, <1>4, <2>2 DEF GetInStep
<1>10. GetMachine'
  <2>1. x'.state \notin {"IDLE", "COMPLETE", "FAILED"} /\ x'.id \in Ids /\ ~x'.close
    BY <1>0, <1>1, <1>4
  <2> HIDE DEF GetMachine
  <2> QED BY <1>0, <1>3, <1>4, <1>6, <1>7, <1>8, <1>9, <2>1, GetAgentMove
<1>11. GetGrows
  BY <1>0, <1>4 DEF GetGrows, Past, Unarmed, Moving
<1>12. GetReplyFits'
  <2> HIDE DEF GetMachine
  <2> QED BY <1>0, <1>2, <1>4, <1>10, GetAnswered
<1> QED BY <1>10, <1>11, <1>12

\* A checkpoint is heard of.
LEMMA GetAckedKeeps ==
  ASSUME GetMachine, GetTalk, UNCHANGED <<hlp, disk>>, ServeAck
  PROVE  /\ GetMachine' /\ GetReplyFits' /\ call.op = "ack"
         /\ Past' /\ ~Unarmed' /\ ~x'.close
         /\ x'.id = x.id /\ call.id = x.id /\ x'.prefix = call.prefix /\ x.state # "IDLE"
<1> USE DEF GetMachine
<1> DEFINE y == [x EXCEPT !.durable = x.sent, !.prefix = call.prefix]
<1>0. /\ Answer(y)
      /\ call # None /\ call.id = x.id /\ call.id \in Ids /\ call.op = "ack"
      /\ call.offset = x.sent /\ call.offset = Len(call.prefix) /\ call.prefix \in Blocks
      /\ x.state # "IDLE" /\ Past /\ ~Unarmed /\ ~x.close /\ (x.pump \/ ~x.armed)
      /\ x \in Transfers /\ x.sent \in Nat
      /\ UNCHANGED <<linked, typed, file, call>>
  <2>1. GoodGetCall(call) /\ call.op = "ack"
    BY GetCallFacts DEF ServeAck, CanHear
  <2>2. call.prefix \in Blocks
    BY <2>1 DEF GoodGetCall, Requests
  <2> QED BY <2>1, <2>2, GetTyped, GetCallFacts DEF ServeAck, CanHear, CanAck, IsOurs, Answer, GoodGetCall
<1>1. y \in Transfers
  <2>1. [x EXCEPT !.durable = x.sent] \in Transfers
    BY <1>0, TransferUpdates
  <2>2. [[x EXCEPT !.durable = x.sent] EXCEPT !.prefix = call.prefix] \in Transfers
    BY <1>0, <2>1, TransferUpdates
  <2> QED BY <2>2
<1>2. x' \in Transfers
  BY <1>0, <1>1, TransferUpdates DEF Answer
<1>3. /\ x'.armed = x.armed /\ ~x'.pump /\ x'.state = x.state /\ x'.id = x.id
      /\ x'.prefix = call.prefix /\ x'.durable = x.sent /\ x'.close = x.close
      /\ x'.ready = x.ready /\ x'.whole = x.whole /\ x'.from = x.from
      /\ x'.pending = x.pending /\ x'.acked = x.acked /\ x'.rewind = x.rewind
      /\ x'.accepted = x.accepted /\ x'.sent = x.sent
  BY <1>0 DEF Answer, Transfers
<1> HIDE DEF y
<1>4. GetLive'
  BY <1>0, <1>3 DEF GetLive, Staging, Past
<1>5. GetCounts'
  BY <1>0, <1>3, VersionFacts DEF GetCounts, WireSize
<1>6. GetOffer'
  BY <1>3 DEF GetOffer
<1>7. x.ready /\ hlp.pc \in Working => hlp.pc = "pumping" /\ x.state # "CANCELLED"
  BY <1>0 DEF Unarmed, Owned, GetLive, Moving
<1>8. GetInStep'
  <2>1. AtEnd' = AtEnd
    BY DEF AtEnd
  <2>2. /\ GoesBack => GoesBack'
        /\ NothingLeft => NothingLeft'
        /\ Offers => Offers'
    BY <1>3, <2>1 DEF GoesBack, NothingLeft, Offers, Untold
  <2> QED BY <1>3, <1>7, <2>2 DEF GetInStep
<1>9. GetMachine'
  <2> HIDE DEF GetMachine
  <2> QED BY <1>0, <1>2, <1>3, <1>4, <1>5, <1>6, <1>8, GetAgentMove
<1>10. Past' /\ ~Unarmed' /\ ~x'.close
  BY <1>0, <1>3 DEF Past, Unarmed
<1>11. GetReplyFits'
  <2>1. rsp' = [Report(y) EXCEPT !.data = <<>>]
    BY <1>0, NoData DEF Answer
  <2> HIDE DEF GetMachine
  <2> QED BY <1>0, <1>1, <1>3, <1>9, <2>1, StateNames, GetAnswered DEF Answer
<1> QED BY <1>0, <1>3, <1>9, <1>10, <1>11

\* All was received: the end is asked for, or the transfer is cancelled.
LEMMA GetClosedKeeps ==
  ASSUME GetMachine, GetTalk, UNCHANGED <<hlp, disk>>, ServeClose,
         x.state # "COMPLETE", ~x.close
  PROVE  /\ GetMachine' /\ GetReplyFits' /\ call.op = "close"
         /\ Past' /\ x'.id = x.id /\ x'.prefix = x.prefix /\ x.state # "IDLE"
<1> USE DEF GetMachine
<1> DEFINE y == [x EXCEPT !.close = TRUE, !.state = "VERIFYING"]
<1>0. /\ Answer(y) /\ call # None /\ call.id = x.id /\ call.id \in Ids /\ call.op = "close"
      /\ x.state \in Moving /\ x.pending = <<>> /\ x.durable = WireSize /\ x.accepted = WireSize
      /\ x.state # "IDLE" /\ x \in Transfers /\ WireSize \in Nat
      /\ x.ready /\ hlp.id = x.id /\ hlp.pc \in Working \cup {"fail"}
      /\ UNCHANGED <<linked, typed, file, call>>
  BY GetTyped, GetCallFacts DEF ServeClose, CanHear, CanClose, IsOurs, Answer, GetLive, Moving
<1>1. hlp.pc # "emit"
  <2>1. ASSUME hlp.pc = "emit" PROVE FALSE
    <3>1. NextIsToCome /\ hlp.src = x.whole /\ ~AtEnd
      BY <1>0, <2>1 DEF GetInStep, GetWindow, Working
    <3> QED BY <1>0, <3>1 DEF NextIsToCome, AtEnd, WireSize
  <2> QED BY <2>1
<1>2. y \in Transfers
  <2>1. [x EXCEPT !.close = TRUE] \in Transfers
    BY <1>0, TransferUpdates
  <2>2. [[x EXCEPT !.close = TRUE] EXCEPT !.state = "VERIFYING"] \in Transfers
    BY <2>1, StateNames, TransferUpdates
  <2> QED BY <2>2
<1>3. x' \in Transfers
  BY <1>0, <1>2, TransferUpdates DEF Answer
<1>4. /\ x'.armed = x.armed /\ ~x'.pump /\ x'.state = "VERIFYING" /\ x'.id = x.id
      /\ x'.prefix = x.prefix /\ x'.durable = x.durable /\ x'.close
      /\ x'.ready = x.ready /\ x'.whole = x.whole /\ x'.from = x.from
      /\ x'.pending = x.pending /\ x'.acked = x.acked /\ x'.rewind = x.rewind
      /\ x'.accepted = x.accepted /\ x'.sent = x.sent
  BY <1>0 DEF Answer, Transfers
<1> HIDE DEF y
<1>5. GetLive'
  BY <1>0, <1>1, <1>4 DEF GetLive, Moving, Staging, Working, WireSize
<1>6. GetCounts'
  BY <1>0, <1>4, VersionFacts DEF GetCounts, WireSize
<1>7. GetOffer'
  BY <1>4 DEF GetOffer
<1>8. GetInStep'
  <2>1. AtEnd' = AtEnd
    BY DEF AtEnd
  <2>2. /\ NextIsToCome => NextIsToCome'
        /\ GoesBack => GoesBack'
        /\ NothingLeft => NothingLeft'
        /\ hlp.pc \in Working /\ Offers => Offers'
    BY <1>4, <2>1 DEF NextIsToCome, GoesBack, NothingLeft, Offers, Untold
  <2>3. x.state # "CANCELLED"
    BY <1>0 DEF Moving
  <2> QED BY <1>4, <2>2, <2>3 DEF GetInStep
<1>9. GetMachine'
  <2>1. x'.state \notin {"IDLE", "COMPLETE", "FAILED"} /\ x'.id \in Ids
    BY <1>0, <1>4
  <2> HIDE DEF GetMachine
  <2> QED BY <1>0, <1>3, <1>4, <1>5, <1>6, <1>7, <1>8, <2>1, GetAgentMove
<1>10. GetReplyFits'
  <2>1. rsp' = [Report(y) EXCEPT !.data = <<>>]
    BY <1>0, NoData DEF Answer
  <2> HIDE DEF GetMachine
  <2> QED BY <1>0, <1>2, <1>4, <1>9, <2>1, StateNames, GetAnswered DEF Answer
<1> QED BY <1>0, <1>4, <1>9, <1>10 DEF Past

LEMMA GetCancelledKeeps ==
  ASSUME GetMachine, GetTalk, UNCHANGED <<hlp, disk>>, ServeCancel, x.state # "COMPLETE"
  PROVE  /\ GetMachine' /\ GetReplyFits' /\ call.op = "cancel"
         /\ Past' /\ x'.id = x.id /\ x'.prefix = x.prefix /\ x.state # "IDLE"
<1> USE DEF GetMachine
<1> DEFINE y == [x EXCEPT !.state = "CANCELLED", !.pending = <<>>, !.close = FALSE, !.armed = FALSE]
<1>0. /\ Answer(y) /\ call # None /\ call.id = x.id /\ call.id \in Ids /\ call.op = "cancel"
      /\ x.state \notin {"IDLE", "POSTPROCESS"} /\ x \in Transfers /\ hlp.pc # "finish"
      /\ (x.pump \/ ~x.armed)
      /\ UNCHANGED <<linked, typed, file, call>>
  BY GetTyped, GetCallFacts DEF ServeCancel, CanHear, CanCancel, IsOurs, Answer, GetLive
<1>1. y \in Transfers
  <2>1. [x EXCEPT !.state = "CANCELLED"] \in Transfers
    BY <1>0, StateNames, TransferUpdates
  <2>2. [[x EXCEPT !.state = "CANCELLED"] EXCEPT !.pending = <<>>] \in Transfers
    BY <2>1, StateNames, TransferUpdates
  <2>3. [[[x EXCEPT !.state = "CANCELLED"] EXCEPT !.pending = <<>>] EXCEPT !.close = FALSE] \in Transfers
    BY <2>2, TransferUpdates
  <2>4. [[[[x EXCEPT !.state = "CANCELLED"] EXCEPT !.pending = <<>>] EXCEPT !.close = FALSE]
            EXCEPT !.armed = FALSE] \in Transfers
    BY <2>3, TransferUpdates
  <2> QED BY <2>4, <1>0 DEF Transfers
<1>2. x' \in Transfers
  BY <1>0, <1>1, TransferUpdates DEF Answer
<1>3. /\ ~x'.armed /\ ~x'.pump /\ x'.state = "CANCELLED" /\ x'.id = x.id
      /\ x'.prefix = x.prefix /\ x'.durable = x.durable /\ ~x'.close
      /\ x'.ready = x.ready /\ x'.whole = x.whole /\ x'.from = x.from
      /\ x'.pending = <<>> /\ x'.acked = x.acked /\ x'.rewind = x.rewind
      /\ x'.accepted = x.accepted /\ x'.sent = x.sent
  BY <1>0 DEF Answer, Transfers
<1> HIDE DEF y
<1>4. GetLive'
  BY <1>0, <1>3 DEF GetLive, Moving, Staging
<1>5. GetCounts'
  BY <1>0, <1>3, VersionFacts DEF GetCounts, WireSize, Readied0, Moving
<1>6. GetOffer'
  BY <1>3 DEF GetOffer
<1>7. GetInStep'
  <2>1. hlp.pc \in {"read", "emit"} => ~x.armed
    BY <1>0 DEF Owned
  <2>2. hlp.pc \in {"read", "emit"} /\ NextIsToCome => NextIsToCome'
    BY <1>3, <2>1 DEF NextIsToCome, Untold
  <2> QED BY <1>3, <2>2 DEF GetInStep
<1>8. GetMachine'
  <2> HIDE DEF GetMachine
  <2> QED BY <1>0, <1>2, <1>3, <1>4, <1>5, <1>6, <1>7, GetAgentMove
<1>9. GetReplyFits'
  <2>1. rsp' = [Report(y) EXCEPT !.data = <<>>]
    BY <1>0, NoData DEF Answer
  <2> HIDE DEF GetMachine
  <2> QED BY <1>0, <1>1, <1>3, <1>8, <2>1, StateNames, GetAnswered DEF Answer
<1> QED BY <1>0, <1>3, <1>8, <1>9 DEF Past

\* The machine is opened for another transfer.
LEMMA GetOpenedKeeps ==
  ASSUME GetMachine, GetTalk, UNCHANGED <<hlp, disk>>, ServeOpen
  PROVE  /\ GetMachine' /\ GetReplyFits' /\ call.op = "open"
         /\ x'.id = call.id /\ x'.prefix = call.prefix /\ x'.state # "IDLE"
<1> USE DEF GetMachine
<1> DEFINE y == Staged(call)
<1>0. /\ Answer(y) /\ call # None /\ call.id \in Ids /\ call.op = "open" /\ x.state \in Terminal
      /\ GoodGetCall(call) /\ call.offset \in Nat /\ call.replay \in BOOLEAN /\ call.resume \in BOOLEAN
      /\ call.prefix \in Blocks /\ call.whole \in Blocks /\ call.whole \in Wholes
      /\ call.offset = Len(call.prefix) /\ hlp.pc # "finish" /\ x \in Transfers
      /\ UNCHANGED <<linked, typed, file, call>>
  <2>1. call # None /\ call.op = "open" /\ GoodGetCall(call) /\ x.state \in Terminal /\ hlp.pc # "finish"
    BY GetCallFacts DEF ServeOpen, CanHear, CanOpen, GetLive, Terminal
  <2>2. /\ call.id \in Ids /\ call.offset \in Nat /\ call.replay \in BOOLEAN /\ call.resume \in BOOLEAN
        /\ call.prefix \in Blocks /\ call.whole \in Blocks
    BY <2>1 DEF GoodGetCall, Requests
  <2> QED BY <2>1, <2>2, GetTyped DEF ServeOpen, CanHear, Answer, GoodGetCall
<1>1. y \in Transfers
  <2>1. /\ call.id \in Ids /\ call.offset \in Nat /\ call.replay \in BOOLEAN /\ call.resume \in BOOLEAN
        /\ call.prefix \in Blocks /\ call.whole \in Blocks
    BY <1>0
  <2> HIDE DEF GetMachine
  <2> QED BY <2>1, StateNames DEF Staged, IdleTransfer, Transfers
<1>2. x' \in Transfers
  BY <1>0, <1>1, TransferUpdates DEF Answer
<1>3. /\ x'.state = "STAGED" /\ x'.id = call.id
      /\ x'.from = call.offset /\ x'.accepted = call.offset /\ x'.durable = call.offset
      /\ x'.prefix = call.prefix /\ x'.pending = <<>> /\ ~x'.close
      /\ x'.whole = call.whole /\ ~x'.pump /\ ~x'.armed /\ ~x'.ready
      /\ ~x'.acked /\ ~x'.rewind /\ x'.sent = 0
  BY <1>0 DEF Answer, Staged, IdleTransfer
<1>4. GetLive'
  BY <1>0, <1>3 DEF GetLive, Moving, Staging
<1>5. GetCounts'
  BY <1>0, <1>3, VersionFacts DEF GetCounts, WireSize, Readied0, Moving
<1>6. GetOffer' /\ GetInStep'
  BY <1>3 DEF GetOffer, GetInStep
<1>7. GetMachine'
  <2> HIDE DEF GetMachine
  <2> QED BY <1>0, <1>2, <1>3, <1>4, <1>5, <1>6, GetAgentMove
<1>8. GetReplyFits'
  <2>1. rsp' = [Report(y) EXCEPT !.data = <<>>] /\ call.op # "begin"
    BY <1>0, NoData DEF Answer
  <2>2. x' = [y EXCEPT !.pump = FALSE] /\ call.id = x'.id /\ x'.state # "IDLE"
    BY <1>0, <1>3 DEF Answer
  <2> HIDE DEF GetMachine, y
  <2> QED BY <1>0, <1>1, <1>7, <2>1, <2>2, StateNames, GetAnswered
<1> QED BY <1>0, <1>3, <1>7, <1>8

LEMMA GetServeKeeps ==
  ASSUME GetMachine, GetTalk, UNCHANGED <<hlp, disk>>, Serve
  PROVE  /\ GetMachine' /\ GetReplyFits'
         /\ \/ GetGrows
            \/ /\ call.op = "ack" /\ Past' /\ ~Unarmed' /\ ~x'.close
               /\ x'.id = x.id /\ call.id = x.id /\ x'.prefix = call.prefix /\ x.state # "IDLE"
            \/ /\ call.op \in {"close", "cancel"} /\ x.state # "IDLE"
               /\ Past' /\ x'.id = x.id /\ x'.prefix = x.prefix
            \/ /\ call.op = "open" /\ x'.id = call.id /\ x'.prefix = call.prefix /\ x'.state # "IDLE"
<1>0. file.get /\ call # None
  BY DEF GetMachine, GetMachineTypes, Serve, ServeOpen, ServeStatus, ServeBegin, ServePut,
    ServeRead, ServeAck, ServeClose, ServeCancel, Refuse, CanHear
<1>1. CASE ServeOpen
  BY <1>1, GetOpenedKeeps
<1>2. CASE ServeStatus
  BY <1>0, <1>2, GetStatusKeeps DEF ServeStatus, IsOurs, CanHear
<1>3. CASE ServeBegin
  BY <1>3, GetBegunKeeps
<1>4. CASE ServePut
  BY <1>0, <1>4, GetCallFacts DEF ServePut, CanHear, GoodGetCall
<1>5. CASE ServeRead
  <2>1. CASE x.pending # <<>>
    BY <1>5, <2>1, GetTakenKeeps
  <2>2. CASE x.pending = <<>>
    <3>1. Answer(x) /\ call.op = "read" /\ call.id = x.id
      BY <1>5, <2>2, NoData DEF ServeRead, Answer, CanRead, IsOurs, CanHear
    <3> QED BY <1>0, <3>1, GetStatusKeeps
  <2> QED BY <2>1, <2>2
<1>6. CASE ServeAck
  BY <1>6, GetAckedKeeps
<1>7. CASE ServeClose
  <2>1. CASE x.state = "COMPLETE" \/ x.close
    BY <1>0, <1>7, <2>1, GetStatusKeeps DEF ServeClose, CanClose, IsOurs, CanHear
  <2> QED BY <1>7, <2>1, GetClosedKeeps
<1>8. CASE ServeCancel
  <2>1. CASE x.state = "COMPLETE"
    BY <1>0, <1>8, <2>1, GetStatusKeeps DEF ServeCancel, CanCancel, IsOurs, CanHear
  <2> QED BY <1>8, <2>1, GetCancelledKeeps
<1>9. CASE Refuse
  <2>1. GetMachine' /\ GetGrows
    BY <1>9, GetFlagsAnswered DEF Refuse
  <2> QED BY <1>9, <2>1 DEF Refuse, GetReplyFits
<1> QED BY <1>1, <1>2, <1>3, <1>4, <1>5, <1>6, <1>7, <1>8, <1>9 DEF Serve

----------------------------------------------------------------------------
(* GET: what was said stays true, and the files with it, while the host     *)
(* stands still.                                                           *)

LEMMA GetHostStays ==
  ASSUME GetMachineTypes, GetHostFits, UNCHANGED <<host, file>>,
         host.pc \in Binding \cup GetStream => Past',
         host.pc \in Binding /\ x'.id = host.id =>
           x.id = host.id /\ x'.prefix = x.prefix /\ (x'.close => x.close),
         host.pc \in {"adopt", "read", "ack"} /\ ~Unarmed => ~Unarmed',
         host.pc \in {"read", "ack"} /\ x'.id = host.id /\ (x.id = host.id => ~x.close) => ~x'.close
  PROVE  GetHostFits'
<1>1. Versions' = Versions /\ Wholes' = Wholes
  BY VersionFacts
<1>2. "adopt" \in Binding /\ {"read", "ack"} \subseteq GetStream
  BY DEF Binding, GetStream
<1> QED BY <1>1, <1>2 DEF GetHostFits, GoodGet

LEMMA GetFilesStand ==
  ASSUME GetMachineTypes, GetFiles, UNCHANGED <<local, host, journal, file>>, call' \in {call, None},
         host.pc \in GetStream /\ x'.id = host.id => Has(host.id, x'.prefix),
         local.dest = None /\ x'.state # "IDLE" => SyncedIfHeld(x'.id, x'.prefix)
  PROVE  GetFiles'
<1>1. LocalTypes'
  BY DEF GetFiles, LocalTypes
<1>2. GetPart'
  <2>1. Partial' = Partial
    BY DEF Partial
  <2> QED BY <2>1 DEF GetFiles, GetPart, Has, HoldsPrefix
<1>3. GetSynced'
  <2>1. ASSUME local.dest = None
        PROVE  /\ \A i \in Ids : journal[i] # None => InSync(i, journal[i].prefix)
               /\ x'.state # "IDLE" => SyncedIfHeld(x'.id, x'.prefix)
               /\ host.pc \in Binding => SyncedIfHeld(host.id, host.prefix)
               /\ host.pc = "ack" => InSync(host.id, host.prefix)
               /\ call # None /\ call.op \in {"open", "ack"} => SyncedIfHeld(call.id, call.prefix)
    BY <2>1 DEF GetFiles, GetSynced
  <2> QED BY <2>1 DEF GetSynced, SyncedIfHeld, InSync, Has, HoldsPrefix, Synced
<1>4. DestFits'
  BY VersionFacts DEF GetFiles, DestFits
<1> QED BY <1>1, <1>2, <1>3, <1>4 DEF GetFiles

LEMMA GetTalkStays ==
  ASSUME GetInv, GetGrows, UNCHANGED <<host, journal, local, call, linked, file>>,
         GetReplyFits', rsp' # None => call # None,
         ~linked /\ host.pc # "idle" /\ Cut => Cut'
  PROVE  GetTalk' /\ GetFiles'
<1>0. GetMachine /\ GetTalk /\ GetFiles /\ GetMachineTypes
  BY DEF GetInv, GetMachine
<1>1. Calling'
  BY <1>0 DEF GetTalk, Calling, Request, Whole, Prefix, Size
<1>2. GetHostFits'
  BY <1>0, GetHostStays DEF GetTalk, GetGrows, GetHostFits, GoodGet, Binding, GetStream
<1>3. GetJournalFits'
  BY <1>0, VersionFacts DEF GetTalk, GetJournalFits
<1>4. GetCallFits'
  BY <1>0, VersionFacts DEF GetTalk, GetCallFits, GoodGetCall, GetGrows
<1>5. GetFiles'
  <2>1. host.pc \in GetStream /\ x'.id = host.id => Has(host.id, x'.prefix)
    BY <1>0 DEF GetFiles, GetPart, GetGrows
  <2>2. local.dest = None /\ x'.state # "IDLE" => SyncedIfHeld(x'.id, x'.prefix)
    BY <1>0 DEF GetFiles, GetSynced, GetGrows
  <2> QED BY <1>0, <2>1, <2>2, GetFilesStand
<1> QED BY <1>1, <1>2, <1>3, <1>4, <1>5 DEF GetTalk

LEMMA GetReplyStays ==
  ASSUME GetMachineTypes, GetReplyFits, GetGrows, UNCHANGED <<call, rsp, file>>
  PROVE  GetReplyFits'
<1>1. SUFFICES ASSUME rsp \notin {None, Refused} PROVE GoodGetReply(rsp)'
  BY DEF GetReplyFits, Refused
<1>2. GoodGetReply(rsp)
  BY <1>1 DEF GetReplyFits
<1>3. Opened(rsp.state) => Past'
  BY <1>2 DEF GoodGetReply, GetGrows
<1>4. call.op = "begin" => Past' /\ ~Unarmed'
  BY <1>2 DEF GoodGetReply, GetGrows
<1> QED BY <1>2, <1>3, <1>4, VersionFacts DEF GoodGetReply, GetGrows, Opened, Readied0

LEMMA GetHelperTalks ==
  ASSUME GetInv, HelperSteps \/ DosError \/ TimesOut(NoBlockComes), UNCHANGED HostVars
  PROVE  GetInv'
<1>1. GetMachine' /\ GetGrows
  BY GetHelperKeeps DEF GetInv
<1>2. /\ UNCHANGED <<call, rsp, linked, file, host, journal, local>> /\ ~Cut
  BY DEF HelperSteps, PutHelperSteps, GetHelperSteps, DosError, TimesOut, HostVars, hostVars, Cut, CallsDos,
    Prepare, CreateMeta, CreatePart, Ready, Poll, Release, WriteWindow, EnsureWindow, Commit, Finalize,
    OwnScratch, DropScratch, CreateScratch, Decode, RequireAbsent, MarkPublishing, Recover, Rename,
    MarkPublished, Revalidate, CleanPart, CleanMeta, ScanSource, ReadySource, Refill, PublishBlock, PollGet,
    Start, Claim, EnterPump, LeavePump, Postprocess, Finish, Fail, KeepsDisk, KeepsResident, CallsTsr,
    SetPhase, wireVars
<1>3. GetReplyFits'
  BY <1>1, <1>2, GetReplyStays DEF GetInv, GetTalk, GetMachine
<1>4. GetTalk' /\ GetFiles'
  BY <1>1, <1>2, <1>3, GetTalkStays DEF GetInv, GetTalk, Calling
<1> QED BY <1>1, <1>4 DEF GetInv

LEMMA GetAgentTalks ==
  ASSUME GetInv, AgentAction
  PROVE  GetInv'
<1>0. /\ GetMachine /\ GetTalk /\ GetFiles /\ Serve /\ GetMachineTypes
      /\ UNCHANGED <<hlp, disk, host, journal, local, call, linked, file, typed>> /\ call # None
  BY DEF AgentAction, HostVars, hostVars, GetInv, GetMachine, Serve, ServeOpen, ServeStatus, ServeBegin,
    ServePut, ServeRead, ServeAck, ServeClose, ServeCancel, Refuse, CanHear, Answer
<1>1. /\ GetMachine' /\ GetReplyFits'
      /\ \/ GetGrows
         \/ /\ call.op = "ack" /\ Past' /\ ~Unarmed' /\ ~x'.close
            /\ x'.id = x.id /\ call.id = x.id /\ x'.prefix = call.prefix /\ x.state # "IDLE"
         \/ /\ call.op \in {"close", "cancel"} /\ x.state # "IDLE"
            /\ Past' /\ x'.id = x.id /\ x'.prefix = x.prefix
         \/ /\ call.op = "open" /\ x'.id = call.id /\ x'.prefix = call.prefix /\ x'.state # "IDLE"
  BY <1>0, GetServeKeeps
<1>2. GoodGetCall(call) /\ call.id \in Ids
  BY <1>0, GetCallFacts
\* A session that has ended is served only what an ended call left.
<1>3. ASSUME ~linked, host.pc # "idle" PROVE x' = x
  <2>1. Cut /\ call = Request(host) /\ (host.pc \in Opening => call = None)
    BY <1>0, <1>3 DEF GetTalk, Calling
  <2>2. host.pc = "open" => host.pc \in Opening
    BY DEF Opening
  <2>3. call.op # "open"
    BY <1>0, <2>1, <2>2 DEF Request, StatusSteps, CloseSteps
  <2>4. call.id # x.id
    BY <1>0, <1>2, <2>1, WireAssumption DEF Cut, IdleTransfer
  <2>5. Refuse
    BY <1>0, <2>3, <2>4 DEF Serve, ServeOpen, ServeStatus, ServeBegin, ServePut, ServeRead, ServeAck,
          ServeClose, ServeCancel, CanHear, CanBegin, CanPut, CanRead, CanAck, CanClose, CanCancel, IsOurs
  <2>6. GetSame
    BY <1>0, <2>5, GetFlagsAnswered DEF Refuse
  <2>7. x.state = "IDLE"
    BY <2>1 DEF Cut, IdleTransfer
  <2> QED BY <2>6, <2>7 DEF GetSame
<1>4. Calling'
  BY <1>0, <1>3 DEF GetTalk, Calling, Request, Whole, Prefix, Size, Cut
<1>5. GetJournalFits'
  BY <1>0, VersionFacts DEF GetTalk, GetJournalFits
<1>6. host.pc # "idle" /\ linked => call = Request(host) /\ host.id \in Ids
  BY <1>0 DEF GetTalk, Calling
<1>7. CASE GetGrows
  <2>1. rsp' # None => call # None
    BY <1>0
  <2>2. ~linked /\ host.pc # "idle" /\ Cut => Cut'
    BY <1>0, <1>3 DEF Cut
  <2>3. GetTalk' /\ GetFiles'
    BY <1>0, <1>1, <1>7, <2>1, <2>2, GetTalkStays
  <2> QED BY <1>1, <2>3 DEF GetInv
\* The host that stored a checkpoint, or one before it, is heard.
<1>8. CASE /\ call.op = "ack" /\ Past' /\ ~Unarmed' /\ ~x'.close
           /\ x'.id = x.id /\ call.id = x.id /\ x'.prefix = call.prefix /\ x.state # "IDLE"
  <2>1. ~linked => host.pc = "idle"
    BY <1>3, <1>8, <1>0, <1>2, WireAssumption DEF GetTalk, Calling, Cut, IdleTransfer
  <2>2. host.pc \in {"idle", "ack"} /\ (host.pc = "ack" => call.id = host.id /\ call.prefix = host.prefix)
    BY <1>0, <1>6, <1>8, <2>1 DEF Request, StatusSteps, CloseSteps
  <2>3. host.pc \notin Binding
    BY <2>2 DEF Binding
  <2>4. GetHostFits'
    BY <1>0, <1>8, <2>3, GetHostStays DEF GetTalk
  <2>5. GetCallFits'
    BY <1>0, <1>2, <1>8, VersionFacts DEF GetCallFits, GoodGetCall
  <2>6. host.pc \in GetStream /\ x'.id = host.id => Has(host.id, x'.prefix)
    <3>1. ASSUME host.pc \in GetStream PROVE Has(host.id, host.prefix)
      <4>1. Partial # None /\ Partial.data = host.prefix /\ host.prefix \in Blocks
        BY <1>0, <3>1 DEF GetFiles, GetPart, GetStream, GetTalk, GetHostFits, GoodGet, Hosts
      <4>2. SubSeq(host.prefix, 1, Len(host.prefix)) = host.prefix
        BY <4>1, SubFacts DEF Blocks
      <4> QED BY <4>1, <4>2 DEF Has, HoldsPrefix, Partial, Blocks
    <3> QED BY <1>8, <2>2, <3>1 DEF GetStream
  <2>7. local.dest = None => SyncedIfHeld(x'.id, x'.prefix)
    BY <1>0, <1>8 DEF GetFiles, GetSynced
  <2>8. GetFiles'
    BY <1>0, <2>6, <2>7, GetFilesStand
  <2> QED BY <1>1, <1>4, <1>5, <2>4, <2>5, <2>8 DEF GetInv, GetTalk
\* The host asks for the end, or gives up.
<1>9. CASE /\ call.op \in {"close", "cancel"} /\ x.state # "IDLE"
           /\ Past' /\ x'.id = x.id /\ x'.prefix = x.prefix
  <2>1. host.pc # "idle" => linked
    BY <1>3, <1>9, <1>0 DEF GetTalk, Calling, Cut, IdleTransfer
  <2>2. host.pc \in {"idle", "close", "lastclose", "cancel"}
    BY <1>0, <1>6, <1>9, <2>1 DEF Request, StatusSteps, CloseSteps
  <2>3. host.pc \notin Binding \cup {"adopt", "read", "ack"}
    BY <2>2 DEF Binding
  <2>4. GetHostFits'
    BY <1>0, <1>9, <2>3, GetHostStays DEF GetTalk
  <2>5. GetCallFits'
    BY <1>0, <1>2, <1>9, VersionFacts DEF GetCallFits, GoodGetCall
  <2>6. host.pc \in GetStream /\ x'.id = host.id => Has(host.id, x'.prefix)
    BY <1>0, <1>9 DEF GetFiles, GetPart
  <2>7. local.dest = None => SyncedIfHeld(x'.id, x'.prefix)
    BY <1>0, <1>9 DEF GetFiles, GetSynced
  <2>8. GetFiles'
    BY <1>0, <2>6, <2>7, GetFilesStand
  <2> QED BY <1>1, <1>4, <1>5, <2>4, <2>5, <2>8 DEF GetInv, GetTalk
\* Another transfer is begun for a host that asked for it, or is gone.
<1>10. CASE call.op = "open" /\ x'.id = call.id /\ x'.prefix = call.prefix /\ x'.state # "IDLE"
  <2>1. host.pc # "idle" => linked
    BY <1>3, <1>10, <1>0, <1>2, WireAssumption DEF GetTalk, Calling, Cut, IdleTransfer
  <2>2. host.pc \in {"idle", "open"}
    BY <1>0, <1>6, <1>10, <2>1 DEF Request, StatusSteps, CloseSteps
  <2>3. host.pc \notin Binding \cup GetStream \cup {"adopt", "read", "ack"}
    BY <2>2 DEF Binding, GetStream
  <2>4. GetHostFits'
    BY <1>0, <2>3, GetHostStays DEF GetTalk
  <2>5. GetCallFits'
    BY <1>0, <1>2, <1>10, VersionFacts DEF GetCallFits, GoodGetCall
  <2>6. local.dest = None => SyncedIfHeld(x'.id, x'.prefix)
    BY <1>0, <1>10 DEF GetFiles, GetSynced
  <2>7. GetFiles'
    BY <1>0, <2>3, <2>6, GetFilesStand
  <2> QED BY <1>1, <1>4, <1>5, <2>4, <2>5, <2>7 DEF GetInv, GetTalk
<1> QED BY <1>1, <1>7, <1>8, <1>9, <1>10

LEMMA GetReconnects ==
  ASSUME GetInv, Reconnect
  PROVE  GetInv'
<1>0. /\ GetMachine /\ GetTalk /\ GetFiles /\ GetMachineTypes /\ host.pc = "idle"
      /\ UNCHANGED <<hlp, disk, host, journal, local, file>> /\ linked' = TRUE
      /\ call' = None /\ rsp' = None /\ typed' \in Ids \cup {None}
      /\ x' = [[x EXCEPT !.armed = FALSE] EXCEPT !.pump = FALSE] /\ x \in Transfers
      /\ (x.pump \/ ~x.armed) /\ FALSE \in BOOLEAN
  BY GetTyped DEF Reconnect, Rebootstrap, HostVars, hostVars, GetInv, GetMachine
<1>1. x' \in Transfers
  <2>1. [x EXCEPT !.armed = FALSE] \in Transfers
    BY <1>0, TransferUpdates, Zenon
  <2>2. \A r \in Transfers : [r EXCEPT !.pump = FALSE] \in Transfers
    BY TransferUpdates
  <2> QED BY <1>0, <2>1, <2>2
<1>2. GetSame /\ ~x'.armed /\ ~x'.pump
  <2>1. x.state = "IDLE" => x' = x
    <3>1. x.state = "IDLE" => x.armed = FALSE /\ x.pump = FALSE
      BY <1>0 DEF GetMachine, Owned, IdleTransfer
    <3>2. x.armed = FALSE /\ x.pump = FALSE => x' = x
      BY <1>0 DEF Transfers
    <3> QED BY <3>1, <3>2
  <2> QED BY <1>0, <1>1, <2>1 DEF GetSame, Transfers
<1>3. GetMachine'
  <2>1. x.armed => hlp.pc = "pumping" /\ x.ready /\ x.state # "CANCELLED"
    BY <1>0 DEF GetMachine, Owned, GetLive, Moving
  <2>2. x.acked /\ hlp.pc \in Working => ~x.armed
    BY <1>0, <2>1 DEF GetMachine, GetInStep, GoesBack, NothingLeft, Offers, Untold
  <2>3. x'.armed = FALSE /\ (~x.armed => x'.armed = x.armed) /\ linked' \in BOOLEAN
    BY <1>0, <1>1, <1>2 DEF Transfers
  <2> QED BY <1>0, <1>2, <2>1, <2>2, <2>3, GetSameKeeps
<1>4. Calling' /\ GetCallFits' /\ GetReplyFits'
  BY <1>0 DEF Calling, GetCallFits, GetReplyFits
<1>5. GetHostFits'
  BY <1>0, GetHostStays DEF GetTalk, Binding, GetStream
<1>6. GetJournalFits'
  BY <1>0, VersionFacts DEF GetTalk, GetJournalFits
<1>7. GetFiles'
  <2>1. local.dest = None /\ x'.state # "IDLE" => SyncedIfHeld(x'.id, x'.prefix)
    BY <1>0, <1>2 DEF GetFiles, GetSynced, GetSame
  <2>2. host.pc \notin GetStream
    BY <1>0 DEF GetStream
  <2> QED BY <1>0, <2>1, <2>2, GetFilesStand
<1> QED BY <1>3, <1>4, <1>5, <1>6, <1>7 DEF GetInv, GetTalk

\* The MSX restarts.
LEMMA GetResets ==
  ASSUME GetInv, Reset
  PROVE  GetInv'
<1>0. /\ GetMachine /\ GetTalk /\ GetFiles /\ GetMachineTypes
      /\ UNCHANGED <<host, journal, local, file>> /\ linked' = FALSE
      /\ call' = None /\ rsp' = None /\ typed' = None
      /\ x' = IdleTransfer /\ hlp' = AtPrompt /\ PowerLoss
  BY DEF Reset, PowerLoss, HostVars, hostVars, GetInv, GetMachine
<1>1. disk' = disk
  <2>1. hlp.pc # "prompt" => hlp.id \in Ids
    BY <1>0 DEF GetMachine, Owned
  <2> QED BY <1>0, <2>1, GetDiskStays DEF PowerLoss
<1>2. hlp' \in Helpers(GetHelperPcs) /\ hlp'.pc = "prompt" /\ ~hlp'.owned /\ x' \in Transfers
  BY <1>0, Idles DEF AtPrompt, GetHelperPcs
<1>3. /\ x'.state = "IDLE" /\ x'.id = None /\ ~x'.ready /\ ~x'.armed /\ ~x'.pump /\ ~x'.close
      /\ x'.pending = <<>> /\ ~x'.acked /\ ~x'.rewind /\ x'.prefix = <<>> /\ x'.durable = 0
      /\ x'.whole = <<>>
  BY <1>0 DEF IdleTransfer
<1>4. GetMachine'
  <2>1. GetMachineTypes'
    BY <1>0, <1>1, <1>2, GetTypesStand
  <2>2. Owned'
    BY <1>0, <1>2, <1>3 DEF Owned
  <2>3. GetLive'
    BY <1>2, <1>3 DEF GetLive, Moving, Staging, Working
  <2>4. GetCounts' /\ GetOffer'
    BY <1>3 DEF GetCounts, GetOffer, Readied0, Moving, Wholes
  <2>5. GetWindow' /\ GetInStep'
    BY <1>2 DEF GetWindow, GetInStep, Working
  <2> QED BY <2>1, <2>2, <2>3, <2>4, <2>5 DEF GetMachine
<1>5. Calling' /\ GetCallFits' /\ GetReplyFits'
  <2>1. Cut'
    BY <1>0, <1>2 DEF Cut
  <2> QED BY <1>0, <2>1 DEF Calling, GetCallFits, GetReplyFits, GetTalk
<1>6. GetHostFits'
  <2>1. host.pc \in Binding \cup GetStream => x'.id # host.id
    <3>1. host.pc \in Binding \cup GetStream => host.id \in Ids
      BY <1>0 DEF GetTalk, Calling, Binding, GetStream
    <3> QED BY <1>3, <3>1, WireAssumption
  <2>2. Past' /\ ~Unarmed' /\ ~x'.close
    BY <1>3 DEF Past, Unarmed
  <2> QED BY <1>0, <2>1, <2>2, GetHostStays DEF GetTalk
<1>7. GetJournalFits'
  BY <1>0, VersionFacts DEF GetTalk, GetJournalFits
<1>8. GetFiles'
  <2>1. host.pc \in GetStream => x'.id # host.id
    <3>1. host.pc \in GetStream => host.id \in Ids
      BY <1>0 DEF GetTalk, Calling, Binding, GetStream
    <3> QED BY <1>3, <3>1, WireAssumption
  <2> QED BY <1>0, <1>3, <2>1, GetFilesStand
<1> QED BY <1>4, <1>5, <1>6, <1>7, <1>8 DEF GetInv, GetTalk

\* The source changes under the transfer, or the destination is taken.
LEMMA GetIntrudes ==
  ASSUME GetInv, Intrude
  PROVE  GetInv'
<1>0. /\ GetMachine /\ GetTalk /\ GetFiles /\ GetMachineTypes /\ file.get
      /\ UNCHANGED <<x, hlp, host, journal, call, rsp, linked, typed, file>>
      /\ \/ \E v \in Versions : local' = local /\ disk' = [disk EXCEPT !.target = Source(v)]
         \/ disk' = disk /\ local.dest = None /\ local' = [local EXCEPT !.dest = ForeignDest]
  BY GetTyped DEF Intrude, hostVars, GetInv, GetMachine, IntrudeTarget, ChangeSource, IntrudeDest
<1>1. GetMachineTypes'
  <2>1. CASE disk' = disk
    BY <1>0, <2>1, GetTyped, GetTypesStand DEF GetMachine
  <2>2. CASE \E v \in Versions : disk' = [disk EXCEPT !.target = Source(v)]
    <3>1. PICK v \in Versions : disk' = [disk EXCEPT !.target = Source(v)]
      BY <2>2
    <3>2. disk' = [meta |-> [i \in Ids |-> None], part |-> [i \in Ids |-> None],
                   out |-> [i \in Ids |-> None], target |-> Source(v)]
      BY <1>0, <3>1 DEF GetMachineTypes
    <3>3. Versions' = Versions /\ Source(v)' = Source(v)
      BY <1>0, VersionFacts DEF Source, File
    <3>4. \E w \in Versions' : disk' = [meta |-> [i \in Ids |-> None], part |-> [i \in Ids |-> None],
                   out |-> [i \in Ids |-> None], target |-> Source(w)]
      BY <3>1, <3>2, <3>3
    <3> QED BY <1>0, <3>4 DEF GetMachineTypes, WireTypes, Source, File
  <2> QED BY <1>0, <2>1, <2>2
<1>2. GetMachine'
  <2>1. Owned' /\ GetLive' /\ GetOffer'
    BY <1>0 DEF GetMachine, Owned, GetLive, GetOffer, WireSize
  <2>2. GetCounts' /\ GetWindow'
    BY <1>0, VersionFacts DEF GetMachine, GetCounts, GetWindow, WireSize, AtEnd
  <2>3. GetInStep'
    BY <1>0 DEF GetMachine, GetInStep, NextIsToCome, GoesBack, NothingLeft, Offers, Untold, AtEnd
  <2> QED BY <1>1, <2>1, <2>2, <2>3 DEF GetMachine
<1>3. GetGrows
  BY <1>0 DEF GetGrows, Past, Unarmed
<1>4. GetReplyFits'
  BY <1>0, <1>3, GetReplyStays DEF GetTalk
<1>5. CASE local' = local
  <2>1. GetTalk' /\ GetFiles'
    BY <1>0, <1>3, <1>4, <1>5, GetTalkStays DEF GetTalk, Calling, Cut
  <2> QED BY <1>2, <2>1 DEF GetInv
<1>6. CASE local.dest = None /\ local' = [local EXCEPT !.dest = ForeignDest]
  <2>1. local'.part = local.part /\ local'.dest = ForeignDest
    BY <1>0, <1>6 DEF GetFiles, LocalTypes
  <2>2. ForeignDest \in DestFiles /\ ForeignDest # None /\ ~ForeignDest.mine
    <3>1. <<0>> \in Blocks
      BY DEF Blocks
    <3>2. ForeignDest \in DestFiles
      BY <3>1 DEF ForeignDest, DestFiles
    <3> QED BY <3>2, NoneAssumption DEF ForeignDest
  <2>3. GetTalk'
    <3>1. Calling'
      BY <1>0 DEF GetTalk, Calling, Request, Whole, Prefix, Size, Cut
    <3>2. GetHostFits'
      BY <1>0, <1>3, GetHostStays DEF GetTalk, GetGrows, GetHostFits, GoodGet, Binding, GetStream
    <3>3. GetJournalFits'
      BY <1>0, VersionFacts DEF GetTalk, GetJournalFits
    <3>4. GetCallFits'
      BY <1>0, <1>3, VersionFacts DEF GetTalk, GetCallFits, GoodGetCall, GetGrows
    <3> QED BY <1>4, <3>1, <3>2, <3>3, <3>4 DEF GetTalk
  <2>4. LocalTypes'
    BY <1>0, <1>6, <2>1, <2>2 DEF GetFiles, LocalTypes
  <2>5. GetPart'
    BY <1>0, <2>1 DEF GetFiles, GetPart, Partial, Has, HoldsPrefix
  <2>6. GetSynced'
    BY <2>1, <2>2 DEF GetSynced
  <2>7. DestFits'
    BY <1>0, <1>6, <2>1, <2>2 DEF GetFiles, DestFits, ForeignDest
  <2> QED BY <1>2, <2>3, <2>4, <2>5, <2>6, <2>7 DEF GetInv, GetFiles
<1> QED BY <1>0, <1>5, <1>6

----------------------------------------------------------------------------
(* GET: the host moves on. *)

\* What the journal says behind a step of the host.
GetJournals ==
  /\ journal' \in [Ids -> GetRecords \cup {None}]
  /\ \A i \in Ids : journal'[i] # None =>
       journal'[i].off = Len(journal'[i].prefix) /\ journal'[i].whole \in Wholes

LEMMA GetHostMoves ==
  ASSUME GetInv, UNCHANGED <<x, hlp, disk, linked, file>>, NEW h,
         host' = h, call' = Request(h), rsp' = None, GoodGet(h), GetJournals,
         typed' \in Ids \cup {None},
         ~linked /\ h.pc # "idle" => host.pc # "idle" /\ typed' = typed /\ h.pc \notin Opening
  PROVE  /\ GetMachine' /\ GetTalk'
         /\ call' # None => call'.id = h.id /\ h.pc # "idle"
         /\ call' # None /\ call'.op \in {"open", "ack"} => h.pc = call'.op /\ call'.prefix = h.prefix
<1>0. /\ GetMachine /\ GetTalk /\ GetMachineTypes /\ h \in Hosts(GetHostPcs) /\ file.get
      /\ h.whole \in Wholes /\ linked \in BOOLEAN
  BY GetTyped DEF GetInv, GetMachine, GoodGet
<1>1. GetSame
  BY <1>0, GetTyped DEF GetSame
<1>2. GetMachine'
  <2>1. x'.pump => hlp'.pc = "pumping" /\ x'.armed
    BY <1>0 DEF GetMachine, Owned, GetLive
  <2>2. x.acked /\ hlp.pc \in Working /\ x.pump => FALSE
    BY <1>0 DEF GetMachine, Owned, GetLive, GetInStep, GoesBack, NothingLeft, Offers, Untold, Moving
  <2> QED BY <1>0, <1>1, <2>1, <2>2, GetSameKeeps
<1>3. Versions' = Versions /\ Wholes' = Wholes /\ Past' = Past /\ Unarmed' = Unarmed
  BY <1>0, VersionFacts DEF Past, Unarmed
<1>4. GetHostFits'
  BY <1>3 DEF GetHostFits, GoodGet
<1>5. GetJournalFits'
  BY <1>3 DEF GetJournalFits, GetJournals
<1>6. GetReplyFits'
  BY DEF GetReplyFits
<1>7. call' # None => h.pc # "idle" /\ h.id \in Ids
  BY <1>0 DEF Request, StatusSteps, CloseSteps, GoodGet
<1>8. /\ call' # None => GoodGetCall(call)' /\ call'.id = h.id
      /\ call' # None /\ call'.op \in {"open", "ack"} => h.pc = call'.op /\ call'.prefix = h.prefix
  <2>1. SUFFICES ASSUME call' # None
                 PROVE  /\ GoodGetCall(call)' /\ call'.id = h.id
                        /\ call'.op \in {"open", "ack"} => h.pc = call'.op /\ call'.prefix = h.prefix
    OBVIOUS
  <2>2. /\ h.dur \in Nat /\ h.acc \in Nat /\ h.prefix \in Blocks /\ h.whole \in Blocks
        /\ h.resumed \in BOOLEAN /\ h.intent \in BOOLEAN /\ h.pc \in GetHostPcs
    BY <1>0 DEF Hosts
  <2>3. CASE h.pc \in StatusSteps \cup CloseSteps \cup {"begin", "cancel"}
    <3>1. \E op \in {"status", "close", "begin", "cancel"} : call' = [op |-> op, id |-> h.id]
      BY <1>0, <2>3 DEF Request, StatusSteps, CloseSteps
    <3>2. call' \in Requests /\ call'.op \in {"status", "close", "begin", "cancel"} /\ call'.id = h.id
      BY <1>7, <2>1, <3>1 DEF Requests
    <3> QED BY <3>2 DEF GoodGetCall
  <2>4. CASE h.pc = "open"
    <3>1. call' = [op |-> "open", id |-> h.id, offset |-> h.dur, resume |-> h.resumed,
                   replay |-> h.intent, prefix |-> h.prefix, whole |-> h.whole]
      BY <1>0, <2>4 DEF Request, StatusSteps, CloseSteps
    <3>2. call' \in Requests /\ call'.op = "open"
      BY <1>7, <2>1, <2>2, <3>1 DEF Requests
    <3>3. h.dur = Len(h.prefix)
      BY <2>4 DEF GoodGet, Opening
    <3>4. call'.prefix = h.prefix /\ call'.offset = h.dur /\ call'.whole = h.whole /\ call'.id = h.id
      BY <3>1
    <3> QED BY <1>0, <1>3, <2>4, <3>2, <3>3, <3>4 DEF GoodGetCall
  <2>5. CASE h.pc \in {"read", "ack"}
    <3>1. call' = [op |-> h.pc, id |-> h.id, offset |-> h.acc, prefix |-> h.prefix]
      BY <1>0, <2>5 DEF Request, StatusSteps, CloseSteps
    <3>2. call' \in Requests /\ call'.op = h.pc
      BY <1>7, <2>1, <2>2, <2>5, <3>1 DEF Requests
    <3>3. Past /\ ~Unarmed /\ (x.id = h.id => ~x.close) /\ h.acc = Len(h.prefix)
      BY <2>5 DEF GoodGet, GetStream
    <3>4. call'.prefix = h.prefix /\ call'.offset = h.acc /\ call'.id = h.id
      BY <3>1
    <3> QED BY <1>3, <2>5, <3>2, <3>3, <3>4 DEF GoodGetCall
  <2>6. h.pc # "put"
    BY <2>2 DEF GetHostPcs, Opening, Binding, GetStream
  <2> QED BY <1>0, <2>1, <2>3, <2>4, <2>5, <2>6 DEF Request
<1>9. Calling'
  <2>1. h.pc = "idle" => call' = None
    BY <1>7
  <2>2. ASSUME ~linked, h.pc # "idle" PROVE Cut'
    BY <1>0, <2>2 DEF GetTalk, Calling, Cut
  <2>3. h.pc # "idle" => h.id \in Ids
    BY DEF GoodGet
  <2>4. call' = (Request(host))'
    BY <1>0 DEF Request, Whole, Prefix, Size
  <2> QED BY <1>0, <2>1, <2>2, <2>3, <2>4 DEF Calling
<1> QED BY <1>2, <1>4, <1>5, <1>6, <1>7, <1>8, <1>9 DEF GetTalk, GetCallFits

\* One partial file is written, and its journal.
LEMMA GetFilesMove ==
  ASSUME GetInv, UNCHANGED <<x, file>>, NEW h, host' = h,
         NEW i \in Ids, NEW f \in PartFiles, f.safe <= Len(f.data),
         local' = [local EXCEPT !.part[i] = f],
         \A j \in Ids \ {i} : journal'[j] = journal[j], call' # None => call'.id \in Ids,
         h.pc # "idle" => h.id = i, h.pc \notin {"unlink", "forget"},
         h.pc \in Opening =>
           /\ journal'[i] # None /\ h.dur = journal'[i].off /\ h.prefix = journal'[i].prefix
           /\ HoldsPrefix(f, h.prefix),
         h.pc \in Binding /\ h.same => HoldsPrefix(f, h.prefix),
         h.pc \in GetStream => f.data = h.prefix /\ (x.id = i => HoldsPrefix(f, x.prefix)),
         local.dest = None =>
           /\ journal'[i] # None => Synced(f, journal'[i].prefix)
           /\ x.state # "IDLE" /\ x.id = i /\ HoldsPrefix(f, x.prefix) => Synced(f, x.prefix)
           /\ h.pc \in Binding /\ HoldsPrefix(f, h.prefix) => Synced(f, h.prefix)
           /\ h.pc = "ack" => Synced(f, h.prefix)
           /\ call' # None /\ call'.op \in {"open", "ack"} =>
                IF call'.id = i THEN HoldsPrefix(f, call'.prefix) => Synced(f, call'.prefix)
                                ELSE call' = call
  PROVE  GetFiles'
<1>0. /\ GetFiles /\ GetMachineTypes /\ f # None
      /\ local'.dest = local.dest /\ local'.part[i] = f
      /\ \A j \in Ids \ {i} : local'.part[j] = local.part[j]
      /\ local' \in [part : [Ids -> PartFiles \cup {None}], dest : DestFiles \cup {None}]
  BY NoneAssumption DEF GetInv, GetMachine, GetFiles, LocalTypes
<1>1. LocalTypes'
  BY <1>0 DEF GetFiles, LocalTypes
<1>2. \A j \in Ids : \A p :
        /\ j # i => (Has(j, p))' = Has(j, p) /\ (InSync(j, p))' = InSync(j, p)
        /\ j = i => (Has(j, p))' = HoldsPrefix(f, p) /\ (InSync(j, p))' = Synced(f, p)
  BY <1>0 DEF Has, InSync, HoldsPrefix, Synced
<1>3. GetPart'
  <2>1. h.pc # "idle" => Partial' = f
    BY <1>0 DEF Partial
  <2>2. h.pc \in Opening \cup Binding \cup GetStream => h.pc # "idle"
    BY DEF Opening, Binding, GetStream
  <2>3. h.pc \in Opening => Has(h.id, h.prefix)'
    BY <1>2, <2>2
  <2>4. h.pc \in Binding /\ h.same => Has(h.id, h.prefix)'
    BY <1>2, <2>2
  <2>5. h.pc \in GetStream /\ x.id = h.id => Has(h.id, x.prefix)'
    <3>1. \A p : p = x.prefix => p = x'.prefix
      OBVIOUS
    <3> QED BY <1>2, <2>2, <3>1
  <2> QED BY <1>0, <2>1, <2>2, <2>3, <2>4, <2>5 DEF GetPart
<1>4. GetSynced'
  <2>1. SUFFICES ASSUME local.dest = None
                 PROVE  /\ \A j \in Ids : journal'[j] # None => InSync(j, journal[j].prefix)'
                        /\ x.state # "IDLE" => SyncedIfHeld(x.id, x.prefix)'
                        /\ h.pc \in Binding => SyncedIfHeld(h.id, h.prefix)'
                        /\ h.pc = "ack" => InSync(h.id, h.prefix)'
                        /\ call' # None /\ call'.op \in {"open", "ack"} =>
                             SyncedIfHeld(call.id, call.prefix)'
    BY <1>0 DEF GetSynced
  <2>2. /\ \A j \in Ids : journal[j] # None => Synced(local.part[j], journal[j].prefix)
        /\ x.state # "IDLE" =>
             (Has(x.id, x.prefix) => Synced(local.part[x.id], x.prefix))
        /\ call # None /\ call.op \in {"open", "ack"} =>
             (Has(call.id, call.prefix) => Synced(local.part[call.id], call.prefix))
    BY <1>0, <2>1 DEF GetFiles, GetSynced, SyncedIfHeld, InSync
  <2>3. \A j \in Ids : journal'[j] # None => Synced(local'.part[j], journal'[j].prefix)
    BY <1>0, <2>1, <2>2
  <2>4. x.state # "IDLE" /\ x.id \in Ids =>
          (local'.part[x.id] # None /\ HoldsPrefix(local'.part[x.id], x.prefix)
             => Synced(local'.part[x.id], x.prefix))
    BY <1>0, <2>1, <2>2 DEF Has
  <2>5. x.state # "IDLE" => x.id \in Ids
    BY DEF GetInv, GetMachine, Owned
  <2>6. call' # None /\ call'.op \in {"open", "ack"} /\ call'.id \in Ids =>
          (local'.part[call'.id] # None /\ HoldsPrefix(local'.part[call'.id], call'.prefix)
             => Synced(local'.part[call'.id], call'.prefix))
    BY <1>0, <2>1, <2>2 DEF Has
  <2>7. h.pc \in Binding => (HoldsPrefix(f, h.prefix) => Synced(f, h.prefix)) /\ h.id = i
    BY <2>1 DEF Binding
  <2>8. h.pc = "ack" => Synced(f, h.prefix) /\ h.id = i
    BY <2>1
  <2> QED BY <1>0, <2>3, <2>4, <2>5, <2>6, <2>7, <2>8
        DEF SyncedIfHeld, InSync, Has, HoldsPrefix, Synced
<1>5. DestFits'
  BY <1>0, VersionFacts DEF GetFiles, DestFits
<1> QED BY <1>1, <1>3, <1>4, <1>5 DEF GetFiles

\* The same, with the call that goes with it.
LEMMA GetHostGoes ==
  ASSUME GetInv, UNCHANGED <<x, hlp, disk>>, NEW h, Become(h), GoodGet(h), GetJournals,
         typed' \in Ids \cup {None},
         ~linked /\ h.pc # "idle" => host.pc # "idle" /\ typed' = typed /\ h.pc \notin Opening,
         NEW i \in Ids, NEW f \in PartFiles, f.safe <= Len(f.data),
         local' = [local EXCEPT !.part[i] = f],
         \A j \in Ids \ {i} : journal'[j] = journal[j],
         h.pc # "idle" => h.id = i, h.pc \notin {"unlink", "forget"},
         h.pc \in Opening =>
           /\ journal'[i] # None /\ h.dur = journal'[i].off /\ h.prefix = journal'[i].prefix
           /\ HoldsPrefix(f, h.prefix),
         h.pc \in Binding /\ h.same => HoldsPrefix(f, h.prefix),
         h.pc \in GetStream => f.data = h.prefix /\ (x.id = i => HoldsPrefix(f, x.prefix)),
         local.dest = None =>
           /\ journal'[i] # None => Synced(f, journal'[i].prefix)
           /\ x.state # "IDLE" /\ x.id = i /\ HoldsPrefix(f, x.prefix) => Synced(f, x.prefix)
           /\ h.pc \in Binding /\ HoldsPrefix(f, h.prefix) => Synced(f, h.prefix)
           /\ h.pc = "ack" => Synced(f, h.prefix)
  PROVE  GetInv'
<1>1. /\ host' = h /\ call' = Request(h) /\ rsp' = None /\ UNCHANGED <<linked, file>>
  BY DEF Become
<1>2. /\ GetMachine' /\ GetTalk'
      /\ call' # None => call'.id = h.id /\ h.pc # "idle"
      /\ call' # None /\ call'.op \in {"open", "ack"} => h.pc = call'.op /\ call'.prefix = h.prefix
  BY <1>1, GetHostMoves
<1>3. h.pc = "open" => h.pc \in Opening
  BY DEF Opening
<1>4. local.dest = None /\ call' # None /\ call'.op \in {"open", "ack"} =>
        IF call'.id = i THEN HoldsPrefix(f, call'.prefix) => Synced(f, call'.prefix)
                        ELSE call' = call
  BY <1>2, <1>3
<1>5. GetFiles'
  BY <1>1, <1>2, <1>4, GetFilesMove
<1> QED BY <1>2, <1>5 DEF GetInv

\* What a host at work may count on.
LEMMA GetAtWork ==
  ASSUME GetInv
  PROVE  /\ GoodGet(host) /\ host \in Hosts(GetHostPcs) /\ typed \in Ids \cup {None} /\ file.get
         /\ GetMachine /\ GetMachineTypes /\ GetTalk /\ GetFiles
         /\ host.dur \in Nat /\ host.acc \in Nat /\ host.prefix \in Blocks /\ host.whole \in Blocks
         /\ host.pc # "idle" => host.id \in Ids
         /\ host.pc \notin {"idle", "forget"} =>
              /\ Partial \in PartFiles /\ Partial # None /\ Partial.safe <= Len(Partial.data)
              /\ Partial.data \in Blocks /\ Partial.safe \in Nat
              /\ [local EXCEPT !.part[host.id] = Partial] = local
         /\ GetJournals <=> /\ journal' \in [Ids -> GetRecords \cup {None}]
                            /\ \A i \in Ids : journal'[i] # None =>
                                 journal'[i].off = Len(journal'[i].prefix) /\ journal'[i].whole \in Wholes
         /\ journal' = journal => GetJournals
<1>1. /\ GoodGet(host) /\ host \in Hosts(GetHostPcs) /\ typed \in Ids \cup {None} /\ file.get
      /\ GetMachine /\ GetMachineTypes /\ GetTalk /\ GetFiles
  BY GetTyped DEF GetInv, GetTalk, GetHostFits, GoodGet, GetMachine
<1>2. host.dur \in Nat /\ host.acc \in Nat /\ host.prefix \in Blocks /\ host.whole \in Blocks
  BY <1>1 DEF Hosts
<1>3. host.pc # "idle" => host.id \in Ids
  BY <1>1 DEF GoodGet
<1>4. ASSUME host.pc \notin {"idle", "forget"}
      PROVE  /\ Partial \in PartFiles /\ Partial # None /\ Partial.safe <= Len(Partial.data)
             /\ Partial.data \in Blocks /\ Partial.safe \in Nat
             /\ [local EXCEPT !.part[host.id] = Partial] = local
  <2>1. Partial # None
    BY <1>1, <1>4 DEF GetFiles, GetPart
  <2>2. Partial \in PartFiles /\ Partial.safe <= Len(Partial.data)
    BY <1>1, <1>3, <1>4, <2>1 DEF GetFiles, LocalTypes, Partial
  <2>3. [local EXCEPT !.part[host.id] = Partial] = local
    <3>1. local \in [part : [Ids -> PartFiles \cup {None}], dest : DestFiles \cup {None}]
      BY <1>1 DEF GetFiles, LocalTypes
    <3>2. [local.part EXCEPT ![host.id] = Partial] = local.part
      BY <1>3, <1>4, <3>1 DEF Partial
    <3>3. [local EXCEPT !.part = local.part] = local
      BY <3>1
    <3>4. [local EXCEPT !.part[host.id] = Partial] =
            [local EXCEPT !.part = [local.part EXCEPT ![host.id] = Partial]]
      OBVIOUS
    <3> QED BY <3>2, <3>3, <3>4
  <2> QED BY <2>1, <2>2, <2>3 DEF PartFiles
<1>5. journal' = journal => GetJournals
  BY <1>1 DEF GetTalk, GetJournalFits, GetJournals
<1> QED BY <1>1, <1>2, <1>3, <1>4, <1>5 DEF GetJournals

\* What a reply tells the host.
LEMMA GetHeard ==
  ASSUME GetInv, host.pc # "idle", rsp # None
  PROVE  /\ call # None /\ call = Request(host) /\ call.id = host.id
         /\ host.pc \in Opening => linked
         /\ host.pc = "begin" => call.op = "begin"
         /\ ~Bad(rsp) => GoodGetReply(rsp)
<1>1. /\ call # None /\ call = Request(host)
      /\ host.pc \in Opening => linked
  BY DEF GetInv, GetTalk, Calling
<1>2. call.id = host.id /\ (host.pc = "begin" => call.op = "begin")
  BY <1>1 DEF Request, StatusSteps, CloseSteps
<1>3. ~Bad(rsp) => rsp # Refused
  BY DEF Bad, Refused
<1> QED BY <1>1, <1>2, <1>3 DEF GetInv, GetTalk, GetReplyFits

\* The host goes on, and the files stay.
LEMMA GetGoesOn ==
  ASSUME GetInv, UNCHANGED <<x, hlp, disk, journal, local>>,
         host.pc \notin {"idle", "unlink", "forget"},
         NEW h, Become(h), GoodGet(h), typed' \in Ids \cup {None},
         h.pc # "idle" => h.id = host.id, h.pc \notin {"ack", "unlink", "forget"},
         ~linked /\ h.pc # "idle" => typed' = typed /\ h.pc \notin Opening,
         h.pc \in Opening => host.pc \in Opening /\ h.dur = host.dur /\ h.prefix = host.prefix,
         h.pc \in Binding =>
           /\ h.same => HoldsPrefix(Partial, h.prefix)
           /\ local.dest = None /\ HoldsPrefix(Partial, h.prefix) => Synced(Partial, h.prefix),
         h.pc \in GetStream => host.pc \in GetStream /\ h.prefix = host.prefix
  PROVE  GetInv'
<1>1. /\ host.id \in Ids /\ Partial \in PartFiles /\ Partial # None
      /\ Partial.safe <= Len(Partial.data)
      /\ local' = [local EXCEPT !.part[host.id] = Partial]
      /\ GetFiles /\ GetMachine /\ GetJournals
  BY GetAtWork
<1>2. host.pc \in Opening =>
        /\ journal[host.id] # None /\ host.dur = journal[host.id].off
        /\ host.prefix = journal[host.id].prefix /\ HoldsPrefix(Partial, host.prefix)
  BY <1>1 DEF GetFiles, GetPart, Has, Partial
<1>3. host.pc \in GetStream =>
        Partial.data = host.prefix /\ (x.id = host.id => HoldsPrefix(Partial, x.prefix))
  BY <1>1 DEF GetFiles, GetPart, Has, Partial
<1>4. local.dest = None =>
        /\ journal'[host.id] # None => Synced(Partial, journal'[host.id].prefix)
        /\ x.state # "IDLE" /\ x.id = host.id /\ HoldsPrefix(Partial, x.prefix) => Synced(Partial, x.prefix)
  BY <1>1 DEF GetFiles, GetSynced, SyncedIfHeld, Has, InSync, Partial
<1> QED BY <1>1, <1>2, <1>3, <1>4, GetHostGoes

LEMMA GetIdle == ASSUME GetInv PROVE GoodGet(NoTransfer) /\ NoTransfer.pc = "idle"
<1>1. "idle" \in GetHostPcs /\ <<>> \in Wholes
  BY DEF GetHostPcs, Wholes
<1> QED BY <1>1, Idles DEF GoodGet, NoTransfer, Opening, Binding, GetStream

LEMMA GetEnds ==
  ASSUME GetInv, UNCHANGED <<x, hlp, disk, journal, local>>,
         host.pc \notin {"idle", "unlink", "forget"}, Become(NoTransfer),
         typed' \in Ids \cup {None}
  PROVE  GetInv'
<1>1. GoodGet(NoTransfer) /\ NoTransfer.pc = "idle"
  BY GetIdle
<1>2. NoTransfer.pc \notin Opening \cup Binding \cup GetStream
  BY <1>1 DEF Opening, Binding, GetStream
<1> HIDE DEF NoTransfer
<1> QED BY <1>1, <1>2, GetGoesOn

\* A place of the host's record.
LEMMA AtFacts ==
  ASSUME NEW h \in Hosts(GetHostPcs), NEW p \in GetHostPcs
  PROVE  /\ At(h, p) \in Hosts(GetHostPcs) /\ At(h, p).pc = p
         /\ At(h, p).id = h.id /\ At(h, p).dur = h.dur /\ At(h, p).acc = h.acc
         /\ At(h, p).same = h.same /\ At(h, p).whole = h.whole /\ At(h, p).prefix = h.prefix
<1>1. At(h, p) \in Hosts(GetHostPcs)
  BY HostUpdates DEF At
<1> QED BY <1>1 DEF At, Hosts

\* A cancelled round asks for nothing but the cancellation.
LEMMA GetCancels ==
  ASSUME GetInv, NEW h \in Hosts(GetHostPcs), h.whole \in Wholes, h.id \in Ids
  PROVE  GoodGet(At(h, "cancel")) /\ At(h, "cancel").id = h.id
         /\ At(h, "cancel").pc \notin Opening \cup Binding \cup GetStream
         /\ At(h, "cancel").pc = "cancel"
<1>1. "cancel" \in GetHostPcs
  BY DEF GetHostPcs
<1>2. /\ At(h, "cancel") \in Hosts(GetHostPcs) /\ At(h, "cancel").pc = "cancel"
      /\ At(h, "cancel").id = h.id /\ At(h, "cancel").whole = h.whole
  BY <1>1, AtFacts
<1> HIDE DEF At
<1> QED BY <1>2 DEF GoodGet, Opening, Binding, GetStream

\* A round, or its cancellation, while the files stay.
LEMMA GetRounds ==
  ASSUME GetInv, UNCHANGED <<x, hlp, disk, journal, local, typed>>,
         host.pc \notin {"idle", "unlink", "forget"},
         NEW h \in Hosts(GetHostPcs), h.whole \in Wholes, h.id = host.id,
         NEW p \in GetHostPcs \ {"idle", "ack", "unlink", "forget"},
         Round(h, p), GoodGet(At(h, p)),
         linked \/ p \notin Opening,
         p \in Opening => host.pc \in Opening /\ h.dur = host.dur /\ h.prefix = host.prefix,
         p \in Binding =>
           /\ h.same => HoldsPrefix(Partial, h.prefix)
           /\ local.dest = None /\ HoldsPrefix(Partial, h.prefix) => Synced(Partial, h.prefix),
         p \in GetStream => host.pc \in GetStream /\ h.prefix = host.prefix
  PROVE  GetInv'
<1>1. host.id \in Ids /\ typed \in Ids \cup {None}
  BY GetAtWork
<1>2. CASE Become(At(h, p))
  <2>1. /\ At(h, p).id = h.id /\ At(h, p).pc = p /\ At(h, p).dur = h.dur /\ At(h, p).same = h.same
        /\ At(h, p).prefix = h.prefix
    BY AtFacts
  <2> HIDE DEF At
  <2> QED BY <1>1, <1>2, <2>1, GetGoesOn
<1>3. CASE Become(At(h, "cancel"))
  <2>1. /\ GoodGet(At(h, "cancel")) /\ At(h, "cancel").id = h.id
        /\ At(h, "cancel").pc \notin Opening \cup Binding \cup GetStream
        /\ At(h, "cancel").pc = "cancel"
    BY <1>1, GetCancels
  <2> HIDE DEF At
  <2> QED BY <1>1, <1>3, <2>1, GetGoesOn
<1> QED BY <1>2, <1>3 DEF Round

LEMMA GetSharedFits ==
  ASSUME GetInv, UNCHANGED <<x, hlp, disk, local>>, SharedHostSteps
  PROVE  GetInv'
<1>0. /\ typed \in Ids \cup {None} /\ host \in Hosts(GetHostPcs) /\ GoodGet(host)
      /\ host.pc # "idle" => host.id \in Ids
      /\ host.whole \in Wholes
  BY GetAtWork DEF GoodGet
<1>1. CASE GotOpen
  <2>1. host.pc = "open" /\ rsp # None /\ host.pc # "idle" /\ host.pc \in Opening /\ linked
        /\ "type" \in Opening /\ "type" \in GetHostPcs \ {"idle", "ack", "unlink", "forget"}
        /\ "type" \notin Binding \cup GetStream
    <3>1. host.pc = "open" /\ rsp # None /\ host.pc \in Opening /\ "type" \in Opening
          /\ "type" \in GetHostPcs /\ "type" \notin Binding \cup GetStream
      BY <1>1 DEF GotOpen, Replied, Opening, GetHostPcs, Binding, GetStream
    <3> QED BY <3>1, GetHeard
  <2>2. CASE Raise
    BY <1>0, <2>1, <2>2, GetEnds DEF Raise
  <2>3. CASE Round(host, "type") /\ UNCHANGED <<journal, done, typed>>
    <3>1. GoodGet(At(host, "type"))
      <4>1. /\ At(host, "type") \in Hosts(GetHostPcs) /\ At(host, "type").pc = "type"
            /\ At(host, "type").id = host.id /\ At(host, "type").dur = host.dur
            /\ At(host, "type").whole = host.whole /\ At(host, "type").prefix = host.prefix
        BY <1>0, <2>1, AtFacts
      <4> HIDE DEF At
      <4> QED BY <1>0, <2>1, <4>1 DEF GoodGet
    <3> HIDE DEF At
    <3> QED BY <1>0, <2>1, <2>3, <3>1, GetRounds
  <2> QED BY <1>1, <2>2, <2>3 DEF GotOpen
<1>2. CASE TypeLine \/ LineTaken
  <2>1. PICK p \in {"typing", "await"} :
          /\ host.pc \in {"type", "typing"} /\ linked /\ Become(At(host, p))
          /\ typed' \in Ids \cup {None} /\ journal' = journal
    BY <1>0, <1>2 DEF TypeLine, LineTaken, Continue
  <2>2. host.pc \in Opening /\ p \in Opening /\ p \in GetHostPcs /\ p \notin Binding \cup GetStream
    BY <2>1 DEF Opening, GetHostPcs, Binding, GetStream
  <2>3. /\ At(host, p) \in Hosts(GetHostPcs) /\ At(host, p).pc = p
        /\ At(host, p).id = host.id /\ At(host, p).dur = host.dur
        /\ At(host, p).whole = host.whole /\ At(host, p).prefix = host.prefix
    BY <1>0, <2>2, AtFacts
  <2> HIDE DEF At
  <2>4. GoodGet(At(host, p))
    BY <1>0, <2>1, <2>2, <2>3 DEF GoodGet
  <2> QED BY <1>0, <2>1, <2>2, <2>3, <2>4, GetGoesOn
<1>3. CASE GotBegin
  <2>1. host.pc = "begin" /\ rsp # None /\ host.pc \in Binding /\ "adopt" \in Binding
        /\ "adopt" \in GetHostPcs /\ "adopt" \notin Opening \cup GetStream /\ journal' = journal
        /\ typed' = typed
    BY <1>3 DEF GotBegin, Replied, Raise, Continue, Opening, GetHostPcs, Binding, GetStream
  <2>2. CASE Raise
    BY <1>0, <2>1, <2>2, GetEnds DEF Raise
  <2>3. CASE ~Bad(rsp) /\ Become(At(host, "adopt"))
    <3>1. ~Unarmed
      BY <2>1, <2>3, GetHeard DEF GoodGetReply
    <3>2. /\ At(host, "adopt") \in Hosts(GetHostPcs) /\ At(host, "adopt").pc = "adopt"
          /\ At(host, "adopt").id = host.id /\ At(host, "adopt").acc = host.acc
          /\ At(host, "adopt").whole = host.whole /\ At(host, "adopt").prefix = host.prefix
          /\ At(host, "adopt").same = host.same
      BY <1>0, <2>1, AtFacts
    <3> HIDE DEF At
    <3>3. GoodGet(At(host, "adopt"))
      BY <1>0, <2>1, <3>1, <3>2 DEF GoodGet
    <3>4. /\ host.same => HoldsPrefix(Partial, host.prefix)
          /\ local.dest = None /\ HoldsPrefix(Partial, host.prefix) => Synced(Partial, host.prefix)
      <4>1. GetFiles /\ Partial # None
        BY <2>1, GetAtWork
      <4> QED BY <2>1, <4>1 DEF GetFiles, GetPart, GetSynced, SyncedIfHeld, Has, InSync, Partial
    <3> QED BY <1>0, <2>1, <2>3, <3>2, <3>3, <3>4, GetGoesOn
  <2> QED BY <1>3, <2>2, <2>3 DEF GotBegin, Continue
<1>4. CASE GotCancel
  <2>1. host.pc = "cancel" /\ Raise
    BY <1>4 DEF GotCancel, Replied
  <2> QED BY <1>0, <2>1, GetEnds DEF Raise
<1> QED BY <1>1, <1>2, <1>3, <1>4 DEF SharedHostSteps

LEMMA GetStalls ==
  ASSUME GetInv, UNCHANGED <<x, hlp, disk, local>>, Stalls
  PROVE  GetInv'
<1>1. host.pc \notin {"idle", "unlink", "forget"} /\ Become(NoTransfer) /\ journal' = journal
  BY DEF Stalls, Replied
<1>2. typed' \in Ids \cup {None}
  BY GetAtWork DEF Stalls
<1> HIDE DEF NoTransfer
<1> QED BY <1>1, <1>2, GetEnds

----------------------------------------------------------------------------
(* Files that are cut, and that grow. *)

LEMMA HeldPrefix ==
  ASSUME NEW s \in Blocks, NEW p \in Blocks
  PROVE  /\ Len(s) >= Len(p) /\ SubSeq(s, 1, Len(p)) = p <=>
              Len(s) >= Len(p) /\ \A k \in 1 .. Len(p) : s[k] = p[k]
         /\ Len(s) \in Nat /\ Len(p) \in Nat
<1>1. Len(s) \in Nat /\ Len(p) \in Nat
  BY DEF Blocks
<1>2. ASSUME Len(s) >= Len(p)
      PROVE  SubSeq(s, 1, Len(p)) = p <=> \A k \in 1 .. Len(p) : s[k] = p[k]
  <2>1. /\ SubSeq(s, 1, Len(p)) \in Blocks /\ Len(SubSeq(s, 1, Len(p))) = Len(p)
        /\ \A k \in 1 .. Len(p) : SubSeq(s, 1, Len(p))[k] = s[k]
    BY <1>1, <1>2, SubFacts
  <2>2. (\A k \in 1 .. Len(p) : SubSeq(s, 1, Len(p))[k] = p[k]) => SubSeq(s, 1, Len(p)) = p
    BY <2>1, SeqEqual DEF Blocks
  <2> QED BY <2>1, <2>2
<1> QED BY <1>1, <1>2

LEMMA CutFacts ==
  ASSUME NEW f \in PartFiles, NEW n \in f.safe .. Len(f.data)
  PROVE  LET t == PartFile(SubSeq(f.data, 1, n), f.safe) IN
         /\ t \in PartFiles /\ t.safe <= Len(t.data)
         /\ \A p \in Blocks : HoldsPrefix(t, p) => HoldsPrefix(f, p)
         /\ \A p \in Blocks : Synced(f, p) => Synced(t, p)
<1> DEFINE t == PartFile(SubSeq(f.data, 1, n), f.safe)
<1>1. f.data \in Blocks /\ f.safe \in Nat /\ Len(f.data) \in Nat /\ n \in 0 .. Len(f.data) /\ n \in Nat
  BY DEF PartFiles, Blocks
<1>2. /\ SubSeq(f.data, 1, n) \in Blocks /\ Len(SubSeq(f.data, 1, n)) = n
      /\ \A k \in 1 .. n : SubSeq(f.data, 1, n)[k] = f.data[k]
  BY <1>1, SubFacts
<1>3. t.data = SubSeq(f.data, 1, n) /\ t.safe = f.safe /\ t \in PartFiles
  BY <1>1, <1>2 DEF PartFile, PartFiles
<1> HIDE DEF t
<1>4. t.safe <= Len(t.data) /\ t # None
  BY <1>1, <1>2, <1>3, NoneAssumption
<1>5. ASSUME NEW p \in Blocks, HoldsPrefix(t, p) PROVE HoldsPrefix(f, p)
  <2>1. Len(p) <= n /\ (\A k \in 1 .. Len(p) : SubSeq(f.data, 1, n)[k] = p[k]) /\ Len(p) \in Nat
    BY <1>2, <1>3, <1>5, HeldPrefix DEF HoldsPrefix
  <2>2. \A k \in 1 .. Len(p) : f.data[k] = p[k]
    BY <1>1, <1>2, <2>1
  <2> QED BY <1>1, <2>1, <2>2, HeldPrefix DEF HoldsPrefix
<1>6. ASSUME NEW p \in Blocks, Synced(f, p) PROVE Synced(t, p)
  <2>1. f.safe >= Len(p) /\ (\A k \in 1 .. Len(p) : f.data[k] = p[k]) /\ Len(p) \in Nat
    BY <1>1, <1>6, HeldPrefix DEF Synced, HoldsPrefix
  <2>2. n >= Len(p)
    BY <1>1, <2>1
  <2>3. \A k \in 1 .. Len(p) : SubSeq(f.data, 1, n)[k] = p[k]
    BY <1>1, <1>2, <2>1, <2>2
  <2> QED BY <1>2, <1>3, <1>4, <2>1, <2>2, <2>3, HeldPrefix DEF Synced, HoldsPrefix
<1> QED BY <1>3, <1>4, <1>5, <1>6 DEF t

LEMMA TruncatedFacts ==
  ASSUME NEW f \in PartFiles, f.safe <= Len(f.data), NEW n \in Nat
  PROVE  LET t == Truncated(f, n) IN
         /\ t \in PartFiles /\ t.safe <= Len(t.data)
         /\ \A p \in Blocks : HoldsPrefix(t, p) => t = f \/ Synced(t, p)
         /\ \A p \in Blocks : HoldsPrefix(f, p) /\ Len(p) <= n => HoldsPrefix(t, p)
         /\ \A p \in Blocks : Synced(f, p) /\ Len(p) <= n => Synced(t, p)
         /\ \A p \in Blocks : HoldsPrefix(f, p) /\ Len(p) = n => t.data = p
<1> DEFINE t == Truncated(f, n)
<1>0. f.data \in Blocks /\ f.safe \in Nat /\ Len(f.data) \in Nat
  BY DEF PartFiles, Blocks
<1>1. CASE Len(f.data) > n
  <2>1. /\ SubSeq(f.data, 1, n) \in Blocks /\ Len(SubSeq(f.data, 1, n)) = n
        /\ \A k \in 1 .. n : SubSeq(f.data, 1, n)[k] = f.data[k]
    BY <1>0, <1>1, SubFacts
  <2>2. t = PartFile(SubSeq(f.data, 1, n), n)
    BY <1>1 DEF Truncated
  <2>3. t.data = SubSeq(f.data, 1, n) /\ t.safe = n /\ t \in PartFiles
    BY <2>1, <2>2 DEF PartFile, PartFiles
  <2> HIDE DEF t
  <2>4. t.safe <= Len(t.data) /\ t # None
    BY <2>1, <2>3, NoneAssumption
  <2>5. ASSUME NEW p \in Blocks, HoldsPrefix(t, p) PROVE Synced(t, p)
    BY <2>1, <2>3, <2>4, <2>5, HeldPrefix DEF Synced, HoldsPrefix
  <2>6. ASSUME NEW p \in Blocks, HoldsPrefix(f, p), Len(p) <= n PROVE HoldsPrefix(t, p)
    <3>1. (\A k \in 1 .. Len(p) : f.data[k] = p[k]) /\ Len(p) \in Nat
      BY <1>0, <2>6, HeldPrefix DEF HoldsPrefix
    <3>2. \A k \in 1 .. Len(p) : SubSeq(f.data, 1, n)[k] = p[k]
      BY <2>1, <2>6, <3>1
    <3> QED BY <2>1, <2>3, <2>6, <3>2, HeldPrefix DEF HoldsPrefix
  <2>7. ASSUME NEW p \in Blocks, HoldsPrefix(f, p), Len(p) = n PROVE t.data = p
    BY <2>3, <2>7 DEF HoldsPrefix
  <2>8. ASSUME NEW p \in Blocks, Synced(f, p), Len(p) <= n PROVE Synced(t, p)
    BY <2>5, <2>6, <2>8 DEF Synced
  <2> QED BY <2>3, <2>4, <2>5, <2>6, <2>7, <2>8 DEF t
<1>2. CASE ~(Len(f.data) > n)
  <2>1. t = f
    BY <1>2 DEF Truncated
  <2>2. ASSUME NEW p \in Blocks, HoldsPrefix(f, p), Len(p) = n PROVE f.data = p
    <3>1. Len(f.data) = n
      BY <1>0, <1>2, <2>2 DEF HoldsPrefix
    <3>2. SubSeq(f.data, 1, Len(f.data)) = f.data
      BY <1>0, SubFacts
    <3> QED BY <2>2, <3>1, <3>2 DEF HoldsPrefix
  <2> HIDE DEF t
  <2> QED BY <2>1, <2>2 DEF t
<1> QED BY <1>1, <1>2

LEMMA LengthenedFacts ==
  ASSUME NEW f \in PartFiles, f.safe <= Len(f.data), NEW d \in Blocks,
         NEW s \in f.safe .. Len(f.data \o d)
  PROVE  LET t == PartFile(f.data \o d, s) IN
         /\ t \in PartFiles /\ t.safe <= Len(t.data)
         /\ \A p \in Blocks : HoldsPrefix(f, p) => HoldsPrefix(t, p)
         /\ \A p \in Blocks : Synced(f, p) => Synced(t, p)
         /\ f.data \o d \in Blocks
         /\ s = Len(f.data \o d) => Synced(t, f.data \o d)
<1> DEFINE t == PartFile(f.data \o d, s)
           a == f.data \o d
<1>0. f.data \in Blocks /\ f.safe \in Nat /\ Len(f.data) \in Nat /\ Len(d) \in Nat
  BY DEF PartFiles, Blocks
<1>1. a \in Blocks /\ Len(a) = Len(f.data) + Len(d) /\ \A k \in 1 .. Len(f.data) : a[k] = f.data[k]
  <2>1. /\ a \in Seq(Nat) /\ Len(a) = Len(f.data) + Len(d)
        /\ \A i \in 1 .. Len(f.data) + Len(d) :
             a[i] = IF i <= Len(f.data) THEN f.data[i] ELSE d[i - Len(f.data)]
    BY <1>0, ConcatProperties DEF Blocks
  <2>2. \A i \in 1 .. Len(f.data) : i \in 1 .. Len(f.data) + Len(d) /\ i <= Len(f.data)
    BY <1>0
  <2> HIDE DEF a
  <2> QED BY <2>1, <2>2 DEF Blocks
<1>2. t.data = a /\ t.safe = s /\ t \in PartFiles
  <2>1. s \in Nat
    BY <1>0, <1>1
  <2> HIDE DEF a
  <2>2. t = PartFile(a, s)
    BY DEF a
  <2> HIDE DEF t
  <2> QED BY <1>1, <2>1, <2>2 DEF PartFile, PartFiles
<1>3. t.safe <= Len(t.data) /\ t # None
  <2> HIDE DEF t
  <2> QED BY <1>0, <1>1, <1>2, NoneAssumption
<1> HIDE DEF t
<1>4. s \in f.safe .. Len(a) /\ Len(a) \in Nat
  BY <1>0, <1>1
<1> HIDE DEF a
<1>5. ASSUME NEW p \in Blocks, HoldsPrefix(f, p) PROVE HoldsPrefix(t, p)
  <2>1. Len(p) <= Len(f.data) /\ (\A k \in 1 .. Len(p) : f.data[k] = p[k]) /\ Len(p) \in Nat
    BY <1>0, <1>5, HeldPrefix DEF HoldsPrefix
  <2>2. \A k \in 1 .. Len(p) : a[k] = p[k]
    BY <1>0, <1>1, <2>1
  <2> QED BY <1>0, <1>1, <1>2, <2>1, <2>2, HeldPrefix DEF HoldsPrefix
<1>6. ASSUME NEW p \in Blocks, Synced(f, p) PROVE Synced(t, p)
  <2>1. Len(p) \in Nat
    BY <1>0, HeldPrefix
  <2> QED BY <1>0, <1>2, <1>3, <1>4, <1>5, <1>6, <2>1 DEF Synced
<1>7. ASSUME s = Len(a) PROVE Synced(t, a)
  <2>1. SubSeq(a, 1, Len(a)) = a
    BY <1>1, <1>4, SubFacts
  <2> QED BY <1>2, <1>3, <1>4, <1>7, <2>1 DEF Synced, HoldsPrefix
<1> QED BY <1>1, <1>2, <1>3, <1>5, <1>6, <1>7 DEF t, a

----------------------------------------------------------------------------
(* GET: the steps of the host. *)

\* What the host takes from the first status of a transfer that has begun.
LEMMA GetBoundFacts ==
  ASSUME GetInv, host.pc \in {"recover", "await"}, rsp # None, ~Bad(rsp),
         rsp.state \notin {"IDLE", "STAGED", "OPENING"}
  PROVE  /\ GetBound(rsp) \in Hosts(GetHostPcs) /\ GoodGet(GetBound(rsp))
         /\ GetBound(rsp).pc \in Binding /\ GetBound(rsp).id = host.id
         /\ At(GetBound(rsp), GetBound(rsp).pc) = GetBound(rsp)
         /\ GetBound(rsp).same => HoldsPrefix(Partial, GetBound(rsp).prefix)
         /\ local.dest = None /\ HoldsPrefix(Partial, GetBound(rsp).prefix) =>
              Synced(Partial, GetBound(rsp).prefix)
<1> DEFINE b == GetBound(rsp)
           p == IF rsp.state \in Moving THEN "begin" ELSE "adopt"
           s == rsp.durable >= host.dur /\ HoldsPrefix(Partial, rsp.prefix)
<1>1. /\ host.pc # "idle" /\ host \in Hosts(GetHostPcs) /\ host.id \in Ids
      /\ Partial # None /\ GetFiles /\ GetMachine
  BY GetAtWork
<1>2. GoodGetReply(rsp) /\ call.id = host.id
  BY <1>1, GetHeard
<1>3. /\ rsp \in Reports /\ rsp.durable \in Nat /\ rsp.prefix \in Blocks /\ rsp.whole \in Blocks
      /\ rsp.state \in States
  BY <1>2 DEF GoodGetReply, Reports
<1>4. /\ rsp.durable = Len(rsp.prefix) /\ rsp.whole \in Versions /\ Past
      /\ rsp.state \notin Moving => rsp.durable = Len(rsp.whole)
      /\ x.id = host.id /\ x.state # "IDLE" /\ x.prefix = rsp.prefix
      /\ x.close => rsp.durable = Len(rsp.whole)
  <2>1. Opened(rsp.state) /\ Readied0(rsp.state)
        /\ (rsp.state \notin Moving => rsp.state \in {"VERIFYING", "POSTPROCESS", "COMPLETE"})
    BY <1>3 DEF Opened, Readied0, States, Terminal, Bad
  <2> QED BY <1>2, <2>1 DEF GoodGetReply
<1>5. p \in Binding /\ p \in GetHostPcs /\ s \in BOOLEAN
  BY DEF Binding, GetHostPcs
<1>6. b = [[[[[host EXCEPT !.pc = p] EXCEPT !.acc = rsp.durable] EXCEPT !.prefix = rsp.prefix]
            EXCEPT !.whole = rsp.whole] EXCEPT !.same = s]
  BY DEF GetBound
<1> HIDE DEF p, s
<1>7. b \in Hosts(GetHostPcs)
  <2>1. [host EXCEPT !.pc = p] \in Hosts(GetHostPcs)
    BY <1>1, <1>5, HostUpdates
  <2>2. [[host EXCEPT !.pc = p] EXCEPT !.acc = rsp.durable] \in Hosts(GetHostPcs)
    BY <1>3, <2>1, HostUpdates
  <2>3. [[[host EXCEPT !.pc = p] EXCEPT !.acc = rsp.durable] EXCEPT !.prefix = rsp.prefix]
          \in Hosts(GetHostPcs)
    BY <1>3, <2>2, HostUpdates
  <2>4. [[[[host EXCEPT !.pc = p] EXCEPT !.acc = rsp.durable] EXCEPT !.prefix = rsp.prefix]
          EXCEPT !.whole = rsp.whole] \in Hosts(GetHostPcs)
    BY <1>3, <2>3, HostUpdates
  <2> HIDE DEF b
  <2> QED BY <1>5, <1>6, <2>4, HostUpdates
<1>8. /\ b.pc = p /\ b.id = host.id /\ b.acc = rsp.durable /\ b.prefix = rsp.prefix
      /\ b.whole = rsp.whole /\ b.same = s
  BY <1>1, <1>6 DEF Hosts
<1> HIDE DEF b
<1>9. At(b, b.pc) = b
  BY <1>7 DEF At, Hosts
<1>10. /\ b.same => HoldsPrefix(Partial, b.prefix)
       /\ local.dest = None /\ HoldsPrefix(Partial, b.prefix) => Synced(Partial, b.prefix)
  BY <1>1, <1>4, <1>8 DEF s, GetFiles, GetSynced, SyncedIfHeld, Has, InSync, Partial
<1>11. b.pc = "adopt" => rsp.state \notin Moving
  BY <1>8 DEF p
<1>12. b.pc \notin {"idle"} \cup Opening \cup GetStream
  BY <1>5, <1>8 DEF Opening, Binding, GetStream
<1>13. GoodGet(b)
  <2>1. b.whole \in Wholes
    BY <1>4, <1>8 DEF Wholes
  <2> QED BY <1>1, <1>4, <1>5, <1>7, <1>8, <1>11, <1>12, <2>1 DEF GoodGet, GetStream
<1> QED BY <1>5, <1>7, <1>8, <1>9, <1>10, <1>13 DEF b

\* A host that starts again from where its journal says.
LEMMA GetRecoverFits ==
  ASSUME GetInv, UNCHANGED <<x, hlp, disk>>, GetRecover
  PROVE  GetInv'
<1>0. /\ typed \in Ids \cup {None} /\ host \in Hosts(GetHostPcs) /\ GoodGet(host)
      /\ host.pc = "recover" /\ rsp # None /\ host.pc \in Opening /\ host.id \in Ids
      /\ host.whole \in Wholes /\ Partial \in PartFiles /\ Partial.safe <= Len(Partial.data)
      /\ GetFiles /\ linked
  <2>1. host.pc = "recover" /\ rsp # None /\ host.pc \in Opening
    BY DEF GetRecover, Replied, Opening
  <2> QED BY <2>1, GetAtWork, GetHeard DEF GoodGet
<1>1. CASE GetRaises
  BY <1>0, <1>1, GetEnds DEF GetRaises, Raise
<1>2. CASE Continue(At(host, "open")) /\ SavesPart(Truncated(Partial, host.dur))
  <2>1. "open" \in GetHostPcs /\ "open" \in Opening /\ "open" \notin Binding \cup GetStream
    BY DEF GetHostPcs, Opening, Binding, GetStream
  <2> DEFINE h == At(host, "open")
             f == Truncated(Partial, host.dur)
  <2>2. /\ h \in Hosts(GetHostPcs) /\ h.pc = "open" /\ h.id = host.id /\ h.dur = host.dur
        /\ h.whole = host.whole /\ h.prefix = host.prefix
    BY <1>0, <2>1, AtFacts
  <2>3. /\ host.dur \in Nat /\ host.prefix \in Blocks /\ host.dur = Len(host.prefix)
        /\ journal[host.id] # None /\ host.dur = journal[host.id].off
        /\ host.prefix = journal[host.id].prefix /\ HoldsPrefix(Partial, host.prefix)
    BY <1>0 DEF GetFiles, GetPart, Has, Partial, Hosts, GoodGet
  <2>4. /\ f \in PartFiles /\ f.safe <= Len(f.data)
        /\ \A q \in Blocks : HoldsPrefix(f, q) => f = Partial \/ Synced(f, q)
        /\ \A q \in Blocks : HoldsPrefix(Partial, q) /\ Len(q) <= host.dur => HoldsPrefix(f, q)
        /\ \A q \in Blocks : Synced(Partial, q) /\ Len(q) <= host.dur => Synced(f, q)
    BY <1>0, <2>3, TruncatedFacts
  <2>5. Become(h) /\ journal' = journal /\ typed' = typed /\ local' = [local EXCEPT !.part[host.id] = f]
    BY <1>2 DEF Continue, SavesPart
  <2> HIDE DEF h, f
  <2>6. GoodGet(h)
    BY <1>0, <2>1, <2>2, <2>3 DEF GoodGet
  <2>7. HoldsPrefix(f, h.prefix) /\ Len(host.prefix) <= host.dur
    <3>1. Len(host.prefix) <= host.dur
      BY <2>3
    <3> QED BY <2>2, <2>3, <2>4, <3>1
  <2>8. local.dest = None =>
          /\ Synced(f, journal'[host.id].prefix)
          /\ x.state # "IDLE" /\ x.id = host.id /\ HoldsPrefix(f, x.prefix) => Synced(f, x.prefix)
    <3>1. x.prefix \in Blocks
      BY GetTyped DEF GetInv, Transfers
    <3>2. local.dest = None =>
            /\ Synced(Partial, journal[host.id].prefix)
            /\ x.state # "IDLE" /\ x.id = host.id /\ HoldsPrefix(Partial, x.prefix) => Synced(Partial, x.prefix)
      BY <1>0, <2>3, GetAtWork DEF GetFiles, GetSynced, SyncedIfHeld, Has, InSync, Partial
    <3>3. journal'[host.id].prefix = host.prefix
      BY <2>3, <2>5
    <3> HIDE DEF HoldsPrefix, Synced
    <3> QED BY <2>3, <2>4, <2>7, <3>1, <3>2, <3>3
  <2>9. GetJournals
    BY <2>5, GetAtWork
  <2> QED BY <1>0, <2>1, <2>2, <2>3, <2>4, <2>5, <2>6, <2>7, <2>8, <2>9, GetHostGoes
<1>3. CASE GetAttaches /\ ~Bad(rsp) /\ rsp.state # "IDLE"
  <2>1. local' = local
    BY <1>3 DEF GetAttaches
  <2>2. CASE Raise
    BY <1>0, <2>1, <2>2, GetEnds DEF Raise
  <2>3. ASSUME NEW p \in {"type", "await"}, GetRound(host, p)
        PROVE  GetInv'
    <3>1. p \in Opening /\ p \in GetHostPcs \ {"idle", "ack", "unlink", "forget"} /\ p \notin Binding \cup GetStream
      BY DEF Opening, GetHostPcs, Binding, GetStream
    <3>2. GoodGet(At(host, p))
      <4>1. /\ At(host, p) \in Hosts(GetHostPcs) /\ At(host, p).pc = p
            /\ At(host, p).id = host.id /\ At(host, p).dur = host.dur
            /\ At(host, p).whole = host.whole /\ At(host, p).prefix = host.prefix
        BY <1>0, <3>1, AtFacts
      <4> HIDE DEF At
      <4> QED BY <1>0, <3>1, <4>1 DEF GoodGet
    <3> HIDE DEF At
    <3> QED BY <1>0, <2>1, <2>3, <3>1, <3>2, GetRounds DEF GetRound
  <2>4. CASE rsp.state \notin {"STAGED", "OPENING"} /\ GetRound(GetBound(rsp), GetBound(rsp).pc)
    <3> DEFINE b == GetBound(rsp)
    <3>1. /\ b \in Hosts(GetHostPcs) /\ GoodGet(b) /\ b.pc \in Binding /\ b.id = host.id
          /\ At(b, b.pc) = b
          /\ b.same => HoldsPrefix(Partial, b.prefix)
          /\ local.dest = None /\ HoldsPrefix(Partial, b.prefix) => Synced(Partial, b.prefix)
      BY <1>0, <1>3, <2>4, GetBoundFacts
    <3>2. Round(b, b.pc) /\ UNCHANGED <<journal, typed>>
      BY <2>4 DEF GetRound
    <3> HIDE DEF b
    <3>3. /\ b.pc \in GetHostPcs \ {"idle", "ack", "unlink", "forget"} /\ b.pc \notin Opening \cup GetStream
          /\ b.whole \in Wholes
      BY <3>1 DEF Binding, Opening, GetStream, GetHostPcs, GoodGet
    <3>4. PICK p \in GetHostPcs \ {"idle", "ack", "unlink", "forget"} : p = b.pc
      BY <3>3
    <3>5. Round(b, p) /\ GoodGet(At(b, p))
      BY <3>1, <3>2, <3>4
    <3>6. UNCHANGED <<x, hlp, disk, journal, local, typed>>
      BY <2>1, <3>2
    <3>7. p \notin Opening \cup GetStream /\ host.pc \notin {"idle", "unlink", "forget"}
      BY <1>0, <3>3, <3>4
    <3>8. b.whole \in Wholes /\ b.id = host.id
      BY <3>1, <3>3
    <3> QED BY <3>1, <3>5, <3>6, <3>7, <3>8, GetRounds
  <2> QED BY <1>3, <2>2, <2>3, <2>4 DEF GetAttaches
<1> QED BY <1>1, <1>2, <1>3 DEF GetRecover, GetReopens

\* The helper has begun: its first status is taken, or waited for.
LEMMA GetAwaitFits ==
  ASSUME GetInv, UNCHANGED <<x, hlp, disk>>, GetAwait
  PROVE  GetInv'
<1>0. /\ typed \in Ids \cup {None} /\ host \in Hosts(GetHostPcs) /\ GoodGet(host)
      /\ host.pc = "await" /\ rsp # None /\ host.pc \in Opening /\ host.id \in Ids
      /\ host.whole \in Wholes /\ linked /\ local' = local
  <2>1. host.pc = "await" /\ rsp # None /\ host.pc \in Opening
    BY DEF GetAwait, Replied, Opening
  <2> QED BY <2>1, GetAtWork, GetHeard DEF GoodGet, GetAwait
<1>1. CASE Raise
  BY <1>0, <1>1, GetEnds DEF Raise
<1>2. CASE GetRound(host, "await")
  <2>1. "await" \in Opening /\ "await" \in GetHostPcs \ {"idle", "ack", "unlink", "forget"}
        /\ "await" \notin Binding \cup GetStream
    BY DEF Opening, GetHostPcs, Binding, GetStream
  <2>2. GoodGet(At(host, "await"))
    <3>1. /\ At(host, "await") \in Hosts(GetHostPcs) /\ At(host, "await").pc = "await"
          /\ At(host, "await").id = host.id /\ At(host, "await").dur = host.dur
          /\ At(host, "await").whole = host.whole /\ At(host, "await").prefix = host.prefix
      BY <1>0, <2>1, AtFacts
    <3> HIDE DEF At
    <3> QED BY <1>0, <2>1, <3>1 DEF GoodGet
  <2> QED BY <1>0, <1>2, <2>1, <2>2, GetRounds DEF GetRound
<1>3. CASE ~Bad(rsp) /\ rsp.state \in Moving \cup {"COMPLETE"} /\ Continue(GetBound(rsp))
  <2> DEFINE b == GetBound(rsp)
  <2>1. /\ b \in Hosts(GetHostPcs) /\ GoodGet(b) /\ b.pc \in Binding /\ b.id = host.id
        /\ b.same => HoldsPrefix(Partial, b.prefix)
        /\ local.dest = None /\ HoldsPrefix(Partial, b.prefix) => Synced(Partial, b.prefix)
    <3>1. rsp.state \notin {"IDLE", "STAGED", "OPENING"}
      BY <1>3 DEF Moving
    <3> QED BY <1>0, <1>3, <3>1, GetBoundFacts
  <2>2. Become(b) /\ UNCHANGED <<journal, typed>>
    BY <1>3 DEF Continue
  <2> HIDE DEF b
  <2>3. b.pc \notin {"idle", "ack", "unlink", "forget"} \cup Opening \cup GetStream
    BY <2>1 DEF Binding, Opening, GetStream
  <2> QED BY <1>0, <2>1, <2>2, <2>3, GetGoesOn
<1> QED BY <1>1, <1>2, <1>3 DEF GetAwait

\* The host reads on, or closes, with one partial file and its journal written.
LEMMA GetTurns ==
  ASSUME GetInv, UNCHANGED <<x, hlp, disk, typed>>, host.pc \in {"adopt", "read", "ack"},
         NEW now \in Hosts(GetHostPcs), now.id = host.id, now.whole \in Versions, Past,
         now.acc = Len(now.prefix),
         now.acc < Len(now.whole) => ~Unarmed /\ (x.id = host.id => ~x.close),
         Round(now, GetTurn(now)), GetJournals,
         NEW f \in PartFiles, f.safe <= Len(f.data), f.data = now.prefix,
         local' = [local EXCEPT !.part[host.id] = f],
         \A j \in Ids \ {host.id} : journal'[j] = journal[j],
         x.id = host.id => HoldsPrefix(f, x.prefix),
         local.dest = None =>
           /\ journal'[host.id] # None => Synced(f, journal'[host.id].prefix)
           /\ x.state # "IDLE" /\ x.id = host.id => Synced(f, x.prefix)
  PROVE  GetInv'
<1>0. host.id \in Ids /\ typed' \in Ids \cup {None} /\ host.pc # "idle" /\ now.whole \in Wholes
  BY GetAtWork DEF Wholes
<1>1. ASSUME NEW h, Become(h), GoodGet(h), h.id = host.id, h.pc \in {"read", "close", "cancel"},
             h.prefix = now.prefix
      PROVE  GetInv'
  <2>1. h.pc \notin Opening \cup Binding \cup {"idle", "ack", "unlink", "forget"}
    BY <1>1 DEF Opening, Binding
  <2> QED BY <1>0, <1>1, <2>1, GetHostGoes
<1>2. CASE Become(At(now, GetTurn(now)))
  <2> DEFINE p == GetTurn(now)
  <2>1. p \in {"read", "close"} /\ (p = "read" => now.acc < Len(now.whole))
    BY DEF GetTurn
  <2> HIDE DEF p
  <2>2. p \in GetHostPcs /\ p \in GetStream /\ p \notin Opening \cup Binding \cup {"idle"}
    BY <2>1 DEF GetHostPcs, GetStream, Opening, Binding
  <2>3. /\ At(now, p) \in Hosts(GetHostPcs) /\ At(now, p).pc = p
        /\ At(now, p).id = now.id /\ At(now, p).acc = now.acc
        /\ At(now, p).whole = now.whole /\ At(now, p).prefix = now.prefix
    BY <2>2, AtFacts
  <2> HIDE DEF At
  <2>4. GoodGet(At(now, p))
    BY <1>0, <2>1, <2>2, <2>3 DEF GoodGet
  <2>5. Become(At(now, p))
    BY <1>2 DEF p
  <2> QED BY <1>1, <2>1, <2>3, <2>4, <2>5
<1>3. CASE Become(At(now, "cancel"))
  <2>1. GoodGet(At(now, "cancel")) /\ At(now, "cancel").id = now.id /\ At(now, "cancel").pc = "cancel"
    BY <1>0, GetCancels
  <2>2. At(now, "cancel").prefix = now.prefix
    <3>1. "cancel" \in GetHostPcs
      BY DEF GetHostPcs
    <3> QED BY <3>1, AtFacts
  <2> HIDE DEF At
  <2> QED BY <1>1, <1>3, <2>1, <2>2
<1> QED BY <1>2, <1>3 DEF Round

\* A record of the journal.
LEMMA GetRecorded ==
  ASSUME GetInv, NEW i \in Ids, NEW p \in Blocks, NEW w \in Wholes,
         journal' = [journal EXCEPT ![i] = GetRecord(Len(p), p, w)]
  PROVE  /\ GetJournals /\ \A j \in Ids \ {i} : journal'[j] = journal[j]
         /\ journal'[i] # None /\ journal'[i].prefix = p /\ journal'[i].off = Len(p)
<1> DEFINE r == GetRecord(Len(p), p, w)
<1>1. /\ r \in GetRecords /\ r.off = Len(p) /\ r.prefix = p /\ r.whole = w
  <2>1. Len(p) \in Nat /\ w \in Blocks
    BY VersionFacts, GetAtWork DEF Blocks, Wholes
  <2> QED BY <2>1 DEF GetRecord, GetRecords
<1>2. r # None
  BY <1>1, NoneAssumption
<1> HIDE DEF r
<1>3. journal' = [journal EXCEPT ![i] = r]
  BY DEF r
<1>4. GetJournalFits
  BY DEF GetInv, GetTalk
<1> QED BY <1>1, <1>2, <1>3, <1>4 DEF GetJournalFits, GetJournals

\* The partial file is cut to what the MSX was told of.
LEMMA GetAdoptFits ==
  ASSUME GetInv, UNCHANGED <<x, hlp, disk>>, GetAdopt
  PROVE  GetInv'
<1>0. /\ typed \in Ids \cup {None} /\ host \in Hosts(GetHostPcs) /\ GoodGet(host)
      /\ host.pc = "adopt" /\ host.pc \in Binding /\ host.id \in Ids
      /\ Partial \in PartFiles /\ Partial.safe <= Len(Partial.data)
      /\ Partial # None /\ GetFiles
      /\ host.acc \in Nat /\ host.prefix \in Blocks
  <2>1. host.pc = "adopt" /\ host.pc \in Binding
    BY DEF GetAdopt, Binding
  <2> QED BY <2>1, GetAtWork
<1>1. CASE ~host.same
  BY <1>0, <1>1, GetEnds DEF GetAdopt, GetRaises, Raise
<1>2. CASE host.same
  <2> DEFINE now == [host EXCEPT !.dur = host.acc]
             f == Truncated(Partial, host.acc)
  <2>1. /\ local' = [local EXCEPT !.part[host.id] = f]
        /\ journal' = [journal EXCEPT ![host.id] = GetRecord(host.acc, host.prefix, host.whole)]
        /\ Round(now, GetTurn(now)) /\ typed' = typed
    BY <1>2 DEF GetAdopt, SavesPart
  <2>2. /\ now \in Hosts(GetHostPcs) /\ now.id = host.id /\ now.whole = host.whole
        /\ now.acc = host.acc /\ now.prefix = host.prefix
    <3>1. now \in Hosts(GetHostPcs)
      BY <1>0, HostUpdates
    <3> QED BY <1>0, <3>1 DEF Hosts
  <2>3. /\ Past /\ host.acc = Len(host.prefix) /\ host.whole \in Versions /\ host.whole \in Wholes
        /\ x.id = host.id => x.prefix = host.prefix /\ (x.close => host.acc = Len(host.whole))
        /\ host.acc = Len(host.whole) \/ ~Unarmed
    BY <1>0 DEF GoodGet
  <2>4. HoldsPrefix(Partial, host.prefix)
        /\ (local.dest = None => Synced(Partial, host.prefix))
    BY <1>0, <1>2 DEF GetFiles, GetPart, GetSynced, SyncedIfHeld, Has, InSync, Partial
  <2>5. /\ f \in PartFiles /\ f.safe <= Len(f.data) /\ f.data = host.prefix
        /\ HoldsPrefix(f, host.prefix) /\ (local.dest = None => Synced(f, host.prefix))
    <3>1. Len(host.prefix) <= host.acc
      BY <1>0, <2>3
    <3> QED BY <1>0, <2>3, <2>4, <3>1, TruncatedFacts
  <2>6. /\ GetJournals /\ \A j \in Ids \ {host.id} : journal'[j] = journal[j]
        /\ journal'[host.id].prefix = host.prefix
    BY <1>0, <2>1, <2>3, GetRecorded
  <2> HIDE DEF now, f
  <2>7. now.acc < Len(now.whole) => ~Unarmed /\ (x.id = host.id => ~x.close)
    BY <1>0, <2>2, <2>3
  <2> QED BY <1>0, <2>1, <2>2, <2>3, <2>5, <2>6, <2>7, GetTurns
<1> QED BY <1>1, <1>2

\* A block is read into the partial file, and at a checkpoint fsynced.
LEMMA GotReadFits ==
  ASSUME GetInv, UNCHANGED <<x, hlp, disk>>, GotRead
  PROVE  GetInv'
<1>0. /\ typed \in Ids \cup {None} /\ host \in Hosts(GetHostPcs) /\ GoodGet(host)
      /\ host.pc = "read" /\ host.pc \in GetStream /\ host.id \in Ids /\ host.pc # "idle"
      /\ Partial \in PartFiles /\ Partial.safe <= Len(Partial.data)
      /\ Partial.data \in Blocks /\ Partial.safe \in Nat
      /\ Partial # None /\ GetFiles /\ rsp # None
  <2>1. host.pc = "read" /\ host.pc \in GetStream /\ rsp # None
    BY DEF GotRead, Replied, GetStream
  <2> QED BY <2>1, GetAtWork
<1>1. CASE Bad(rsp)
  BY <1>0, <1>1, GetEnds DEF GotRead, GetRaises, Raise
<1>2. CASE ~Bad(rsp)
  <2> DEFINE data == Partial.data \o rsp.data
             now == [host EXCEPT !.acc = Len(data), !.prefix = data]
             s == IF rsp.data # <<>> /\ CheckpointDue(now.acc) THEN Len(data) ELSE Partial.safe
             f == PartFile(data, s)
  <2>1. rsp.data \in Blocks
    BY <1>0, <1>2, GetHeard DEF GoodGetReply, Reports
  <2>2. Len(data) \in Nat /\ Partial.safe <= Len(data) /\ data \in Blocks
    <3>1. /\ data \in Seq(Nat) /\ Len(data) = Len(Partial.data) + Len(rsp.data)
          /\ Len(Partial.data) \in Nat /\ Len(rsp.data) \in Nat
      BY <1>0, <2>1, ConcatProperties DEF Blocks
    <3> HIDE DEF data
    <3>2. data \in Blocks
      BY <3>1 DEF Blocks
    <3>3. Len(data) \in Nat /\ Partial.safe <= Len(data)
      <4>1. \A a, b, c \in Nat : a <= b => b + c \in Nat /\ a <= b + c
        OBVIOUS
      <4> QED BY <1>0, <3>1, <4>1, Zenon
    <3> QED BY <3>2, <3>3
  <2>3. s \in Partial.safe .. Len(data)
    <3> HIDE DEF data, now
    <3> QED BY <1>0, <2>2
  <2>4. /\ f \in PartFiles /\ f.safe <= Len(f.data)
        /\ \A p \in Blocks : HoldsPrefix(Partial, p) => HoldsPrefix(f, p)
        /\ \A p \in Blocks : Synced(Partial, p) => Synced(f, p)
        /\ s = Len(data) => Synced(f, data)
    <3> HIDE DEF s
    <3> QED BY <1>0, <2>1, <2>3, LengthenedFacts
  <2>5. f.data = data /\ f.safe = s
    BY DEF PartFile
  <2>6. /\ now \in Hosts(GetHostPcs) /\ now.id = host.id /\ now.whole = host.whole
        /\ now.acc = Len(data) /\ now.prefix = data
    <3> HIDE DEF data
    <3>1. now = [[host EXCEPT !.acc = Len(data)] EXCEPT !.prefix = data]
      OBVIOUS
    <3>2. [host EXCEPT !.acc = Len(data)] \in Hosts(GetHostPcs)
      BY <1>0, <2>2, HostUpdates
    <3>3. now \in Hosts(GetHostPcs)
      BY <2>2, <3>1, <3>2, HostUpdates
    <3> QED BY <1>0, <3>3 DEF Hosts
  <2>7. /\ Past /\ host.whole \in Versions /\ host.whole \in Wholes
        /\ ~Unarmed /\ (x.id = host.id => ~x.close)
    BY <1>0 DEF GoodGet
  <2>8. /\ x.prefix \in Blocks /\ (x.id = host.id => HoldsPrefix(Partial, x.prefix))
        /\ journal[host.id] # None => journal[host.id].prefix \in Blocks
        /\ local.dest = None =>
             /\ journal[host.id] # None => Synced(Partial, journal[host.id].prefix)
             /\ x.state # "IDLE" /\ x.id = host.id => Synced(Partial, x.prefix)
    <3>1. x.prefix \in Blocks
      BY GetTyped DEF GetInv, Transfers
    <3>2. x.id = host.id => HoldsPrefix(Partial, x.prefix)
      BY <1>0 DEF GetFiles, GetPart, Has, Partial
    <3>3. journal[host.id] # None => journal[host.id].prefix \in Blocks
      BY <1>0 DEF GetInv, GetTalk, GetJournalFits, GetRecords
    <3>4. local.dest = None =>
            /\ journal[host.id] # None => Synced(Partial, journal[host.id].prefix)
            /\ x.state # "IDLE" /\ x.id = host.id => Synced(Partial, x.prefix)
      BY <1>0, <3>2 DEF GetFiles, GetSynced, SyncedIfHeld, Has, InSync, Partial
    <3> QED BY <3>1, <3>2, <3>3, <3>4
  <2>9. /\ UNCHANGED <<journal, typed>> /\ local' = [local EXCEPT !.part[host.id] = f]
        /\ IF rsp.data # <<>> /\ CheckpointDue(now.acc) THEN Become(At(now, "ack")) /\ s = Len(data)
                                                        ELSE Round(now, GetTurn(now))
    <3>1. [Partial EXCEPT !.data = data] = PartFile(data, Partial.safe)
      <4> HIDE DEF data
      <4> QED BY <1>0, <2>2 DEF PartFiles, PartFile
    <3>2. CASE rsp.data # <<>> /\ CheckpointDue(now.acc)
      <4>1. Continue(At(now, "ack")) /\ SavesPart(PartFile(data, now.acc))
        BY <1>2, <3>2 DEF GotRead
      <4>2. s = Len(data) /\ now.acc = Len(data)
        <5> HIDE DEF data, now
        <5> QED BY <2>6, <3>2
      <4> HIDE DEF data, now, s
      <4> QED BY <3>2, <4>1, <4>2 DEF Continue, SavesPart
    <3>3. CASE ~(rsp.data # <<>> /\ CheckpointDue(now.acc))
      <4>1. GetRound(now, GetTurn(now)) /\ SavesPart([Partial EXCEPT !.data = data])
        BY <1>2, <3>3 DEF GotRead
      <4>2. s = Partial.safe
        <5> HIDE DEF data, now
        <5> QED BY <3>3
      <4> HIDE DEF data, now, s
      <4> QED BY <3>1, <3>3, <4>1, <4>2 DEF GetRound, SavesPart
    <3> QED BY <3>2, <3>3
  <2>10. GetJournals
    BY <2>9, GetAtWork
  <2> HIDE DEF f, s, now, data
  <2>11. local.dest = None =>
          /\ journal'[host.id] # None => Synced(f, journal'[host.id].prefix)
          /\ x.state # "IDLE" /\ x.id = host.id => Synced(f, x.prefix)
    BY <2>4, <2>8, <2>9
  <2>12. x.id = host.id => HoldsPrefix(f, x.prefix)
    BY <2>4, <2>8
  <2>13. CASE Round(now, GetTurn(now))
    BY <1>0, <2>4, <2>5, <2>6, <2>7, <2>9, <2>10, <2>11, <2>12, <2>13, GetTurns
  <2>14. CASE Become(At(now, "ack")) /\ s = Len(data)
    <3> DEFINE h == At(now, "ack")
    <3>1. /\ h \in Hosts(GetHostPcs) /\ h.pc = "ack" /\ h.id = host.id /\ h.acc = Len(data)
          /\ h.whole = host.whole /\ h.prefix = data
      <4>1. "ack" \in GetHostPcs
        BY DEF GetHostPcs, GetStream
      <4> QED BY <2>6, <4>1, AtFacts
    <3>2. Become(h)
      BY <2>14
    <3> HIDE DEF h
    <3>3. h.pc \in GetStream /\ h.pc \notin Opening \cup Binding \cup {"idle", "unlink", "forget"}
      BY <3>1 DEF GetStream, Opening, Binding
    <3>4. GoodGet(h)
      BY <1>0, <2>7, <3>1, <3>3 DEF GoodGet
    <3>5. typed' \in Ids \cup {None} /\ typed' = typed /\ \A j \in Ids \ {host.id} : journal'[j] = journal[j]
      BY <1>0, <2>9
    <3>6. local.dest = None => Synced(f, h.prefix)
      BY <2>4, <2>14, <3>1
    <3> QED BY <1>0, <2>4, <2>5, <2>9, <2>10, <2>11, <2>12, <3>1, <3>2, <3>3, <3>4, <3>5, <3>6, GetHostGoes
  <2> QED BY <2>9, <2>13, <2>14
<1> QED BY <1>1, <1>2

\* The checkpoint that the MSX has confirmed is journalled.
LEMMA GotAckFits ==
  ASSUME GetInv, UNCHANGED <<x, hlp, disk>>, GotAck
  PROVE  GetInv'
<1>0. /\ typed \in Ids \cup {None} /\ host \in Hosts(GetHostPcs) /\ GoodGet(host)
      /\ host.pc = "ack" /\ host.pc \in GetStream /\ host.id \in Ids /\ host.pc # "idle"
      /\ Partial \in PartFiles /\ Partial.safe <= Len(Partial.data)
      /\ Partial # None /\ GetFiles /\ host.acc \in Nat /\ host.prefix \in Blocks
      /\ local' = [local EXCEPT !.part[host.id] = Partial] /\ local' = local
  <2>1. host.pc = "ack" /\ host.pc \in GetStream /\ local' = local
    BY DEF GotAck, Replied, GetStream
  <2> QED BY <2>1, GetAtWork
<1>1. CASE Raise
  BY <1>0, <1>1, GetEnds DEF Raise
<1>2. CASE ~(Bad(rsp) \/ rsp.durable # host.acc)
  <2> DEFINE now == [host EXCEPT !.dur = host.acc]
  <2>1. /\ journal' = [journal EXCEPT ![host.id] = GetRecord(host.acc, host.prefix, host.whole)]
        /\ Round(now, GetTurn(now)) /\ typed' = typed
    BY <1>2 DEF GotAck
  <2>2. /\ now \in Hosts(GetHostPcs) /\ now.id = host.id /\ now.whole = host.whole
        /\ now.acc = host.acc /\ now.prefix = host.prefix
    <3>1. now \in Hosts(GetHostPcs)
      BY <1>0, HostUpdates
    <3> QED BY <1>0, <3>1 DEF Hosts
  <2>3. /\ Past /\ host.acc = Len(host.prefix) /\ host.whole \in Versions /\ host.whole \in Wholes
        /\ ~Unarmed /\ (x.id = host.id => ~x.close)
    BY <1>0 DEF GoodGet
  <2>4. /\ Partial.data = host.prefix
        /\ x.id = host.id => HoldsPrefix(Partial, x.prefix)
        /\ local.dest = None =>
             /\ Synced(Partial, host.prefix)
             /\ x.state # "IDLE" /\ x.id = host.id => Synced(Partial, x.prefix)
    BY <1>0 DEF GetFiles, GetPart, GetSynced, SyncedIfHeld, Has, InSync, Partial
  <2>5. /\ GetJournals /\ \A j \in Ids \ {host.id} : journal'[j] = journal[j]
        /\ journal'[host.id].prefix = host.prefix
    BY <1>0, <2>1, <2>3, GetRecorded
  <2> HIDE DEF now
  <2> QED BY <1>0, <2>1, <2>2, <2>3, <2>4, <2>5, GetTurns
<1> QED BY <1>1, <1>2 DEF GotAck

\* The end of the stream, which touches no file.
LEMMA GetEndingFits ==
  ASSUME GetInv, UNCHANGED <<x, hlp, disk>>, GetClosed \/ GetComplete
  PROVE  GetInv'
<1>0. /\ typed \in Ids \cup {None} /\ host \in Hosts(GetHostPcs) /\ GoodGet(host)
      /\ host.pc \in {"close", "complete"} /\ host.pc \in GetStream /\ host.id \in Ids
      /\ rsp # None /\ local' = local /\ host.whole \in Wholes
  <2>1. host.pc \in {"close", "complete"} /\ host.pc \in GetStream /\ rsp # None /\ local' = local
    BY DEF GetClosed, GetComplete, Replied, GetStream
  <2> QED BY <2>1, GetAtWork DEF GoodGet
<1>1. ASSUME NEW p \in {"complete", "link"}, p = "link" => host.prefix = host.whole
      PROVE  /\ p \in GetStream /\ p \in GetHostPcs \ {"idle", "ack", "unlink", "forget"}
             /\ p \notin Opening \cup Binding /\ GoodGet(At(host, p))
             /\ At(host, p).pc = p /\ At(host, p).id = host.id /\ At(host, p).prefix = host.prefix
  <2>1. p \in GetStream /\ p \in GetHostPcs \ {"idle", "ack", "unlink", "forget"}
        /\ p \notin Opening \cup Binding
    BY DEF GetStream, GetHostPcs, Opening, Binding
  <2>2. /\ At(host, p) \in Hosts(GetHostPcs) /\ At(host, p).pc = p
        /\ At(host, p).id = host.id /\ At(host, p).acc = host.acc
        /\ At(host, p).whole = host.whole /\ At(host, p).prefix = host.prefix
    BY <1>0, <2>1, AtFacts
  <2> HIDE DEF At
  <2> QED BY <1>0, <1>1, <2>1, <2>2 DEF GoodGet
<1>2. CASE Raise
  BY <1>0, <1>2, GetEnds DEF Raise
<1>3. CASE GetRound(host, "complete")
  <2>1. UNCHANGED <<journal, typed>> /\ Round(host, "complete")
    BY <1>3 DEF GetRound
  <2> QED BY <1>0, <1>1, <2>1, GetRounds
<1>4. CASE GetVerified(rsp) /\ Continue(At(host, "link"))
  <2>1. host.prefix = host.whole /\ Become(At(host, "link")) /\ UNCHANGED <<journal, typed>>
    BY <1>4 DEF GetVerified, Continue
  <2> HIDE DEF At
  <2> QED BY <1>0, <1>1, <2>1, GetGoesOn
<1> QED BY <1>2, <1>3, <1>4 DEF GetClosed, GetComplete

\* The destination gets its name, and the partial file loses its own.
LEMMA GetLinksFit ==
  ASSUME GetInv, UNCHANGED <<x, hlp, disk>>, LinkDest \/ Unlink
  PROVE  GetInv'
<1>0. /\ typed \in Ids \cup {None} /\ host \in Hosts(GetHostPcs) /\ GoodGet(host)
      /\ host.pc \in {"link", "unlink"} /\ host.id \in Ids /\ host.whole \in Wholes
      /\ GetFiles /\ GetMachineTypes
      /\ Partial \in PartFiles /\ Partial.safe <= Len(Partial.data)
      /\ Partial.data \in Blocks /\ Partial.safe \in Nat
  <2>1. host.pc \in {"link", "unlink"}
    BY DEF LinkDest, Unlink
  <2> QED BY <2>1, GetAtWork DEF GoodGet
<1>1. CASE LinkDest /\ GetRaises
  <2>1. host.pc \notin {"idle", "unlink", "forget"}
    BY <1>1 DEF LinkDest
  <2> QED BY <1>0, <1>1, <2>1, GetEnds DEF GetRaises, Raise
<1>2. ASSUME NEW p \in {"unlink", "forget"}, Continue(At(host, p)), GetFiles' \/ host' # At(host, p)
      PROVE  GetInv'
  <2>1. p \in GetHostPcs /\ p \notin Opening \cup Binding \cup GetStream \cup {"idle"}
    BY DEF GetHostPcs, Opening, Binding, GetStream
  <2>2. /\ At(host, p) \in Hosts(GetHostPcs) /\ At(host, p).pc = p
        /\ At(host, p).id = host.id /\ At(host, p).whole = host.whole
    BY <1>0, <2>1, AtFacts
  <2>3. GoodGet(At(host, p))
    <3> HIDE DEF At
    <3> QED BY <1>0, <2>1, <2>2 DEF GoodGet, GetStream
  <2>4. /\ UNCHANGED <<journal, typed, linked, file>> /\ host' = At(host, p)
        /\ call' = Request(At(host, p)) /\ rsp' = None
    BY <1>2 DEF Continue, Become
  <2>5. GetJournals
    BY <2>4, GetAtWork
  <2> HIDE DEF At
  <2>6. GetMachine' /\ GetTalk'
    BY <1>0, <2>1, <2>2, <2>3, <2>4, <2>5, GetHostMoves
  <2> QED BY <1>2, <2>4, <2>6 DEF GetInv
<1>3. CASE LinkDest /\ local.dest = None
  <2> DEFINE d == [data |-> Partial.data, mine |-> TRUE]
             f == [Partial EXCEPT !.safe = Len(Partial.data)]
             h == At(host, "unlink")
  <2>1. /\ host.pc = "link" /\ Continue(h)
        /\ local' = [local EXCEPT !.dest = d, !.part[host.id].safe = Len(Partial.data)]
    BY <1>3 DEF LinkDest
  <2>2. f \in PartFiles /\ f.safe <= Len(f.data) /\ f.data = Partial.data /\ d \in DestFiles
        /\ d.mine /\ d.data = Partial.data
    BY <1>0 DEF PartFiles, DestFiles, Blocks
  <2>3. f # None /\ d # None
    BY <2>2, NoneAssumption
  <2>4. local' = [[local EXCEPT !.dest = d] EXCEPT !.part = [local.part EXCEPT ![host.id] = f]]
    <3>1. local \in [part : [Ids -> PartFiles \cup {None}], dest : DestFiles \cup {None}]
      BY <1>0 DEF GetFiles, LocalTypes
    <3> QED BY <1>0, <2>1, <3>1 DEF Partial
  <2> HIDE DEF d, f
  <2>5. /\ local'.dest = d /\ local'.part[host.id] = f
        /\ \A j \in Ids \ {host.id} : local'.part[j] = local.part[j]
        /\ local' \in [part : [Ids -> PartFiles \cup {None}], dest : DestFiles \cup {None}]
    <3>1. local \in [part : [Ids -> PartFiles \cup {None}], dest : DestFiles \cup {None}]
      BY <1>0 DEF GetFiles, LocalTypes
    <3> QED BY <1>0, <2>2, <2>4, <3>1
  <2>6. LocalTypes'
    BY <1>0, <2>2, <2>5 DEF GetFiles, LocalTypes
  <2>7. h.pc = "unlink" /\ h.id = host.id
    <3>1. "unlink" \in GetHostPcs
      BY DEF GetHostPcs
    <3> QED BY <1>0, <3>1, AtFacts
  <2>8. host' = h
    BY <2>1 DEF Continue, Become
  <2> HIDE DEF h
  <2>9. Partial.data \in Versions /\ Versions' = Versions
    <3>1. file' = file
      BY <2>1 DEF Continue, Become
    <3> QED BY <1>0, <2>1, <3>1, VersionFacts DEF GoodGet, GetFiles, GetPart, GetStream
  <2>10. GetPart'
    BY <2>3, <2>5, <2>7, <2>8 DEF GetPart, Partial, Opening, Binding, GetStream
  <2>11. GetSynced'
    BY <2>3, <2>5 DEF GetSynced
  <2>12. DestFits'
    BY <2>2, <2>3, <2>5, <2>9 DEF DestFits
  <2> QED BY <1>2, <2>1, <2>6, <2>10, <2>11, <2>12 DEF h, GetFiles
<1>4. CASE Unlink
  <2> DEFINE h == At(host, "forget")
  <2>1. host.pc = "unlink" /\ Continue(h) /\ local' = [local EXCEPT !.part[host.id] = None]
    BY <1>4 DEF Unlink, SavesPart
  <2>2. /\ local'.dest = local.dest /\ local'.part[host.id] = None
        /\ \A j \in Ids \ {host.id} : local'.part[j] = local.part[j]
        /\ local' \in [part : [Ids -> PartFiles \cup {None}], dest : DestFiles \cup {None}]
    BY <1>0, <2>1 DEF GetFiles, LocalTypes
  <2>3. LocalTypes'
    BY <1>0, <2>2 DEF GetFiles, LocalTypes
  <2>4. h.pc = "forget"
    <3>1. "forget" \in GetHostPcs
      BY DEF GetHostPcs
    <3> QED BY <1>0, <3>1, AtFacts
  <2>5. host' = h /\ file' = file
    BY <2>1 DEF Continue, Become
  <2>6. local.dest # None /\ local.dest.mine /\ local.dest.data \in Versions /\ Versions' = Versions
    BY <1>0, <2>1, <2>5, VersionFacts DEF GetFiles, DestFits
  <2> HIDE DEF h
  <2>7. GetPart'
    BY <2>4, <2>5 DEF GetPart, Opening, Binding, GetStream
  <2>8. GetSynced'
    BY <2>2, <2>6 DEF GetSynced
  <2>9. DestFits'
    BY <2>2, <2>6 DEF DestFits
  <2> QED BY <1>2, <2>1, <2>3, <2>7, <2>8, <2>9 DEF h, GetFiles
<1> QED BY <1>1, <1>3, <1>4 DEF LinkDest

\* A host that stops, with its files as they are.
LEMMA GetLeaves ==
  ASSUME GetInv, UNCHANGED <<x, local, file>>, host'.pc = "idle", call' \in {call, None},
         \A j \in Ids : journal'[j] # None => journal'[j] = journal[j]
  PROVE  GetFiles'
<1>0. GetFiles
  BY DEF GetInv
<1>1. LocalTypes'
  BY <1>0 DEF GetFiles, LocalTypes
<1>2. GetPart'
  BY DEF GetPart, Opening, Binding, GetStream
<1>3. GetSynced'
  <2>1. SUFFICES ASSUME local.dest = None
                 PROVE  /\ \A j \in Ids : journal'[j] # None => Synced(local.part[j], journal'[j].prefix)
                        /\ x.state # "IDLE" => SyncedIfHeld(x.id, x.prefix)
                        /\ call' # None /\ call'.op \in {"open", "ack"} =>
                             SyncedIfHeld(call.id, call.prefix)
    BY DEF GetSynced, SyncedIfHeld, InSync, Has, HoldsPrefix, Synced, Binding
  <2> QED BY <1>0, <2>1 DEF GetFiles, GetSynced, InSync
<1>4. DestFits'
  BY <1>0, VersionFacts, GetAtWork DEF GetFiles, DestFits
<1> QED BY <1>1, <1>2, <1>3, <1>4 DEF GetFiles

\* The get is reported, and forgotten.
LEMMA CompleteGetFits ==
  ASSUME GetInv, UNCHANGED <<x, hlp, disk>>, CompleteGet
  PROVE  GetInv'
<1>0. /\ typed' \in Ids \cup {None} /\ host.id \in Ids /\ GetFiles /\ GetTalk
  BY GetAtWork DEF CompleteGet
<1>1. /\ host' = NoTransfer /\ call' = Request(NoTransfer) /\ rsp' = None
      /\ UNCHANGED <<linked, file, local>> /\ journal' = [journal EXCEPT ![host.id] = None]
  BY DEF CompleteGet, Become
<1>2. GoodGet(NoTransfer) /\ NoTransfer.pc = "idle"
  BY GetIdle
<1>3. GetJournals /\ \A j \in Ids : journal'[j] # None => journal'[j] = journal[j]
  BY <1>0, <1>1 DEF GetTalk, GetJournalFits, GetJournals
<1> HIDE DEF NoTransfer
<1>4. GetMachine' /\ GetTalk' /\ (call' # None => NoTransfer.pc # "idle")
  BY <1>0, <1>1, <1>2, <1>3, GetHostMoves
<1>5. GetFiles'
  BY <1>1, <1>2, <1>3, <1>4, GetLeaves
<1> QED BY <1>4, <1>5 DEF GetInv

\* A host that gives up, and may lose what it had not fsynced.
LEMMA GiveUpFits ==
  ASSUME GetInv, UNCHANGED <<x, hlp, disk>>, GiveUp, LosesUnsynced
  PROVE  GetInv'
<1>0. /\ typed \in Ids \cup {None} /\ host.id \in Ids /\ GetFiles /\ GetTalk /\ file.get
      /\ GetMachine /\ GetMachineTypes
  BY GetAtWork DEF GiveUp
<1>1. /\ host' = NoTransfer /\ linked' = FALSE
      /\ UNCHANGED <<journal, used, done, call, rsp, typed, file>>
  BY DEF GiveUp
<1>2. GoodGet(NoTransfer) /\ NoTransfer.pc = "idle"
  BY GetIdle
<1> HIDE DEF NoTransfer
<1>3. GetMachine'
  <2>1. GetSame
    BY <1>0, GetTyped DEF GetSame
  <2>2. x'.pump => hlp'.pc = "pumping" /\ x'.armed
    BY <1>0 DEF GetMachine, Owned, GetLive
  <2>3. x.acked /\ hlp.pc \in Working /\ x.pump => FALSE
    BY <1>0 DEF GetMachine, Owned, GetLive, GetInStep, GoesBack, NothingLeft, Offers, Untold, Moving
  <2> QED BY <1>0, <1>1, <2>1, <2>2, <2>3, GetSameKeeps
<1>4. GetTalk'
  <2>1. Versions' = Versions /\ Wholes' = Wholes /\ Past' = Past /\ Unarmed' = Unarmed
    BY <1>0, <1>1, VersionFacts DEF Past, Unarmed
  <2>2. GetHostFits'
    BY <1>1, <1>2, <2>1 DEF GetHostFits, GoodGet
  <2>3. GetJournalFits'
    BY <1>0, <1>1, <2>1 DEF GetTalk, GetJournalFits
  <2>4. GetCallFits'
    BY <1>0, <1>1, <2>1 DEF GetTalk, GetCallFits, GoodGetCall
  <2>5. GetReplyFits'
    BY <1>0, <1>1, <2>1 DEF GetTalk, GetReplyFits, GoodGetReply
  <2>6. Calling'
    BY <1>0, <1>1, <1>2 DEF GetTalk, Calling
  <2> QED BY <2>2, <2>3, <2>4, <2>5, <2>6 DEF GetTalk
<1>5. GetFiles'
  <2>1. CASE UNCHANGED local
    BY <1>1, <1>2, <2>1, GetLeaves
  <2>2. CASE ~UNCHANGED local
    <3>1. PICK n \in Partial.safe .. Len(Partial.data) :
            SavesPart(PartFile(SubSeq(Partial.data, 1, n), Partial.safe))
      BY <2>2 DEF LosesUnsynced
    <3>2. Partial # None /\ Partial \in PartFiles /\ Partial.safe <= Len(Partial.data)
      BY <1>0, <2>2 DEF LosesUnsynced, GetFiles, LocalTypes, Partial
    <3> DEFINE f == PartFile(SubSeq(Partial.data, 1, n), Partial.safe)
    <3>3. /\ f \in PartFiles /\ f.safe <= Len(f.data)
          /\ \A p \in Blocks : HoldsPrefix(f, p) => HoldsPrefix(Partial, p)
          /\ \A p \in Blocks : Synced(Partial, p) => Synced(f, p)
      BY <3>1, <3>2, CutFacts
    <3>4. local' = [local EXCEPT !.part[host.id] = f]
      BY <3>1 DEF SavesPart
    <3> HIDE DEF f
    <3>5. /\ x.prefix \in Blocks
          /\ journal[host.id] # None => journal[host.id].prefix \in Blocks
          /\ call # None => call.id \in Ids
          /\ call # None /\ call.op \in {"open", "ack"} => call.prefix \in Blocks
      <4>1. x.prefix \in Blocks
        BY GetTyped DEF GetInv, Transfers
      <4>2. journal[host.id] # None => journal[host.id].prefix \in Blocks
        BY <1>0 DEF GetTalk, GetJournalFits, GetRecords
      <4>3. call # None => call \in Requests
        BY <1>0 DEF GetTalk, GetCallFits, GoodGetCall
      <4>4. call # None => call.id \in Ids
        BY <4>3 DEF Requests
      <4>5. call # None /\ call.op \in {"open", "ack"} => call.prefix \in Blocks
        BY <4>3 DEF Requests
      <4> QED BY <4>1, <4>2, <4>4, <4>5
    <3>6. local.dest = None =>
            /\ journal[host.id] # None => Synced(Partial, journal[host.id].prefix)
            /\ x.state # "IDLE" /\ x.id = host.id /\ HoldsPrefix(Partial, x.prefix) => Synced(Partial, x.prefix)
            /\ call # None /\ call.op \in {"open", "ack"} /\ call.id = host.id =>
                 (HoldsPrefix(Partial, call.prefix) => Synced(Partial, call.prefix))
      BY <1>0, <3>2 DEF GetFiles, GetSynced, SyncedIfHeld, Has, InSync, Partial
    <3>7. local.dest = None =>
            /\ journal'[host.id] # None => Synced(f, journal'[host.id].prefix)
            /\ x.state # "IDLE" /\ x.id = host.id /\ HoldsPrefix(f, x.prefix) => Synced(f, x.prefix)
            /\ call' # None /\ call'.op \in {"open", "ack"} =>
                 IF call'.id = host.id THEN HoldsPrefix(f, call'.prefix) => Synced(f, call'.prefix)
                                       ELSE call' = call
      BY <1>1, <3>3, <3>5, <3>6
    <3>8. NoTransfer.pc \notin Opening \cup Binding \cup GetStream \cup {"unlink", "forget", "ack"}
      BY <1>2 DEF Opening, Binding, GetStream
    <3>9. (\A j \in Ids \ {host.id} : journal'[j] = journal[j]) /\ (call' # None => call'.id \in Ids)
      BY <1>1, <3>5
    <3> QED BY <1>0, <1>1, <1>2, <3>3, <3>4, <3>7, <3>8, <3>9, GetFilesMove
  <2> QED BY <2>1, <2>2
<1> QED BY <1>3, <1>4, <1>5 DEF GetInv

\* A get that starts anew, and one that takes up an earlier one.
LEMMA GetAnewFits ==
  ASSUME GetInv, UNCHANGED <<x, hlp, disk>>, GetAnew
  PROVE  GetInv'
<1>0. typed \in Ids \cup {None} /\ GetFiles /\ GetTalk /\ GetMachineTypes
  BY GetAtWork
<1> DEFINE f == PartFile(<<>>, 0)
<1>1. PICK i \in Ids :
        /\ local' = [local EXCEPT !.part[i] = f]
        /\ journal' = [journal EXCEPT ![i] = GetRecord(0, <<>>, <<>>)]
        /\ host' = [NoTransfer EXCEPT !.pc = "open", !.id = i]
        /\ call' = Request(host')
  BY DEF GetAnew
<1> DEFINE h == [NoTransfer EXCEPT !.pc = "open", !.id = i]
<1>2. /\ h \in Hosts(GetHostPcs) /\ h.pc = "open" /\ h.id = i /\ h.dur = 0
      /\ h.whole = <<>> /\ h.prefix = <<>>
  <2>1. NoTransfer \in Hosts(GetHostPcs) /\ "open" \in GetHostPcs
    BY Idles DEF GetHostPcs, Opening
  <2>2. [NoTransfer EXCEPT !.pc = "open"] \in Hosts(GetHostPcs)
    BY <2>1, HostUpdates
  <2>3. [[NoTransfer EXCEPT !.pc = "open"] EXCEPT !.id = i] \in Hosts(GetHostPcs)
    BY <2>2, HostUpdates
  <2> QED BY <2>3 DEF NoTransfer
<1> HIDE DEF h
<1>3. <<>> \in Blocks /\ <<>> \in Wholes /\ Len(<<>>) = 0
  BY DEF Blocks, Wholes
<1>4. /\ GetJournals /\ \A j \in Ids \ {i} : journal'[j] = journal[j]
      /\ journal'[i] # None /\ journal'[i].prefix = <<>> /\ journal'[i].off = 0
  BY <1>1, <1>3, GetRecorded
<1>5. f \in PartFiles /\ f.safe <= Len(f.data) /\ HoldsPrefix(f, <<>>) /\ Synced(f, <<>>)
      /\ \A p \in Blocks : HoldsPrefix(f, p) => p = <<>>
  <2>1. f \in PartFiles /\ f.data = <<>> /\ f.safe = 0
    BY <1>3 DEF PartFile, PartFiles
  <2> HIDE DEF f
  <2>2. f # None
    BY <2>1, NoneAssumption
  <2>3. SubSeq(<<>>, 1, 0) = <<>>
    BY <1>3, SubFacts
  <2>4. HoldsPrefix(f, <<>>) /\ Synced(f, <<>>)
    BY <1>3, <2>1, <2>2, <2>3 DEF HoldsPrefix, Synced
  <2>5. \A p \in Blocks : HoldsPrefix(f, p) => p = <<>>
    BY <2>1 DEF HoldsPrefix, Blocks
  <2> QED BY <1>3, <2>1, <2>4, <2>5
<1>6. h.pc \in Opening /\ h.pc \notin Binding \cup GetStream
  BY <1>2 DEF Opening, Binding, GetStream
<1>7. GoodGet(h)
  BY <1>2, <1>3, <1>6 DEF GoodGet, GetStream
<1>8. /\ host' = h /\ call' = Request(h) /\ UNCHANGED <<rsp, linked, typed, file, faults, done>>
      /\ host.pc = "idle" /\ linked
  BY <1>1 DEF GetAnew, h
<1>9. rsp' = None
  BY <1>0, <1>8 DEF GetTalk, Calling
<1> HIDE DEF f
<1>10. /\ GetMachine' /\ GetTalk' /\ (call' # None => call'.id = h.id)
       /\ call' # None /\ call'.op \in {"open", "ack"} => h.pc = call'.op /\ call'.prefix = h.prefix
  BY <1>0, <1>4, <1>7, <1>8, <1>9, GetHostMoves
<1>11. GetFiles'
  <2>1. x.prefix \in Blocks
    BY GetTyped DEF GetInv, Transfers
  <2>2. /\ journal'[i] # None => Synced(f, journal'[i].prefix)
        /\ x.state # "IDLE" /\ x.id = i /\ HoldsPrefix(f, x.prefix) => Synced(f, x.prefix)
    BY <1>4, <1>5, <2>1
  <2>3. call' # None /\ call'.op \in {"open", "ack"} =>
          IF call'.id = i THEN HoldsPrefix(f, call'.prefix) => Synced(f, call'.prefix)
                          ELSE call' = call
    BY <1>2, <1>5, <1>10
  <2>4. (call' # None => call'.id \in Ids) /\ h.pc \notin {"unlink", "forget", "ack"}
    BY <1>2, <1>10
  <2>5. HoldsPrefix(f, h.prefix) /\ h.dur = journal'[i].off /\ h.prefix = journal'[i].prefix
    BY <1>2, <1>4, <1>5
  <2> QED BY <1>1, <1>2, <1>4, <1>5, <1>6, <1>8, <2>2, <2>3, <2>4, <2>5, GetFilesMove
<1> QED BY <1>10, <1>11 DEF GetInv

LEMMA GetResumeFits ==
  ASSUME GetInv, UNCHANGED <<x, hlp, disk>>, NEW attach \in BOOLEAN, GetResume(attach)
  PROVE  GetInv'
<1>0. typed \in Ids \cup {None} /\ GetFiles /\ GetTalk /\ GetMachineTypes /\ GetJournalFits
  BY GetAtWork DEF GetTalk
<1>1. PICK i \in Ids :
        /\ journal[i] # None /\ local.part[i] # None
        /\ HoldsPrefix(local.part[i], journal[i].prefix)
        /\ GetContinues([NoTransfer EXCEPT
            !.pc = "recover", !.id = i, !.resumed = TRUE, !.attach = attach,
            !.dur = journal[i].off, !.prefix = journal[i].prefix,
            !.whole = journal[i].whole])
  BY DEF GetResume, Matching
<1> DEFINE h == [NoTransfer EXCEPT
                   !.pc = "recover", !.id = i, !.resumed = TRUE, !.attach = attach,
                   !.dur = journal[i].off, !.prefix = journal[i].prefix,
                   !.whole = journal[i].whole]
<1>2. /\ journal[i] \in GetRecords /\ journal[i].off \in Nat /\ journal[i].prefix \in Blocks
      /\ journal[i].whole \in Blocks /\ journal[i].whole \in Wholes
      /\ journal[i].off = Len(journal[i].prefix)
  <2>1. journal[i] \in GetRecords
    BY <1>0, <1>1 DEF GetJournalFits
  <2> QED BY <1>0, <1>1, <2>1 DEF GetJournalFits, GetRecords
<1>3. /\ h \in Hosts(GetHostPcs) /\ h.pc = "recover" /\ h.id = i /\ h.dur = journal[i].off
      /\ h.whole = journal[i].whole /\ h.prefix = journal[i].prefix
  <2>1. NoTransfer \in Hosts(GetHostPcs) /\ "recover" \in GetHostPcs
    BY Idles DEF GetHostPcs, Opening
  <2> DEFINE h1 == [NoTransfer EXCEPT !.pc = "recover"]
             h2 == [h1 EXCEPT !.id = i]
             h3 == [h2 EXCEPT !.resumed = TRUE]
             h4 == [h3 EXCEPT !.attach = attach]
             h5 == [h4 EXCEPT !.dur = journal[i].off]
             h6 == [h5 EXCEPT !.prefix = journal[i].prefix]
             h7 == [h6 EXCEPT !.whole = journal[i].whole]
  <2>2. h = h7
    BY DEF NoTransfer
  <2> HIDE DEF NoTransfer
  <2>3. h1 \in Hosts(GetHostPcs)
    BY <2>1, HostUpdates
  <2> HIDE DEF h1
  <2>4. h2 \in Hosts(GetHostPcs)
    BY <2>3, HostUpdates
  <2> HIDE DEF h2
  <2>5. h3 \in Hosts(GetHostPcs)
    <3>1. TRUE \in BOOLEAN
      OBVIOUS
    <3> QED BY <2>4, <3>1, HostUpdates, Zenon
  <2> HIDE DEF h3
  <2>6. h4 \in Hosts(GetHostPcs)
    BY <2>5, HostUpdates, Zenon
  <2> HIDE DEF h4
  <2>7. h5 \in Hosts(GetHostPcs)
    BY <1>2, <2>6, HostUpdates
  <2> HIDE DEF h5
  <2>8. h6 \in Hosts(GetHostPcs)
    BY <1>2, <2>7, HostUpdates
  <2> HIDE DEF h6
  <2>9. h7 \in Hosts(GetHostPcs)
    BY <1>2, <2>8, HostUpdates
  <2> QED BY <2>2, <2>9 DEF NoTransfer
<1>4. /\ Become(h) /\ UNCHANGED <<journal, typed, local>> /\ host.pc = "idle" /\ linked
  BY <1>1 DEF GetContinues, Continue, GetResume
<1> HIDE DEF h
<1>5. h.pc \in Opening /\ h.pc \notin Binding \cup GetStream \cup {"unlink", "forget", "ack", "idle"}
  BY <1>3 DEF Opening, Binding, GetStream
<1>6. GoodGet(h)
  BY <1>2, <1>3, <1>5 DEF GoodGet, GetStream
<1>7. local.part[i] \in PartFiles /\ local.part[i].safe <= Len(local.part[i].data)
  BY <1>0, <1>1 DEF GetFiles, LocalTypes
<1>8. local' = [local EXCEPT !.part[i] = local.part[i]]
  <2>1. local \in [part : [Ids -> PartFiles \cup {None}], dest : DestFiles \cup {None}]
    BY <1>0 DEF GetFiles, LocalTypes
  <2>2. [local.part EXCEPT ![i] = local.part[i]] = local.part
    BY <2>1
  <2>3. [local EXCEPT !.part = local.part] = local
    BY <2>1
  <2> QED BY <1>4, <2>2, <2>3
<1>9. local.dest = None =>
        /\ Synced(local.part[i], journal'[i].prefix)
        /\ x.state # "IDLE" /\ x.id = i /\ HoldsPrefix(local.part[i], x.prefix) =>
             Synced(local.part[i], x.prefix)
  BY <1>0, <1>1, <1>4 DEF GetFiles, GetSynced, SyncedIfHeld, Has, InSync
<1>10. GetJournals
  BY <1>4, GetAtWork
<1>11. /\ HoldsPrefix(local.part[i], h.prefix) /\ h.dur = journal'[i].off
       /\ h.prefix = journal'[i].prefix /\ journal'[i] # None
       /\ \A j \in Ids \ {i} : journal'[j] = journal[j]
  BY <1>1, <1>3, <1>4
<1> QED BY <1>0, <1>3, <1>4, <1>5, <1>6, <1>7, <1>8, <1>9, <1>10, <1>11, GetHostGoes

LEMMA GetHostTalks ==
  ASSUME GetInv, HostAction
  PROVE  GetInv'
<1>0. UNCHANGED <<x, hlp, disk>> /\ file.get /\ host.pc \in GetHostPcs
  BY GetAtWork DEF HostAction, MsxVars, Hosts
<1>1. ~PutHostSteps /\ ~Puts
  BY <1>0 DEF PutHostSteps, GotRecover, GotAwait, Adopt, GotPut, GotPoll, SaveIntent, GotClose,
    CompletePut, Puts, PutAnew, PutResume, Replied, GetHostPcs, Opening, Binding, GetStream
<1>2. CASE GetHostSteps
  BY <1>0, <1>2, GetRecoverFits, GetAwaitFits, GetAdoptFits, GotReadFits, GotAckFits, GetEndingFits,
    GetLinksFit, CompleteGetFits DEF GetHostSteps
<1>3. CASE SharedHostSteps /\ UNCHANGED local
  BY <1>0, <1>3, GetSharedFits
<1>4. CASE Stalls /\ UNCHANGED local
  BY <1>0, <1>4, GetStalls
<1>5. CASE Gets
  <2>1. TRUE \in BOOLEAN /\ FALSE \in BOOLEAN
    OBVIOUS
  <2> QED BY <1>0, <1>5, <2>1, GetAnewFits, GetResumeFits, Zenon DEF Gets
<1>6. CASE GiveUp /\ LosesUnsynced
  BY <1>0, <1>6, GiveUpFits
<1> QED BY <1>1, <1>2, <1>3, <1>4, <1>5, <1>6 DEF HostAction, HostSteps

LEMMA GetStarts ==
  ASSUME Init, file.get PROVE GetInv
<1> USE DEF Init, HostInit, LocalInit
<1>0. /\ x \in Transfers /\ hlp \in Helpers(GetHelperPcs) /\ host \in Hosts(GetHostPcs)
      /\ x.state = "IDLE" /\ x.prefix = <<>> /\ x.pending = <<>> /\ ~x.close /\ ~x.pump
      /\ x.durable = 0 /\ ~x.ready /\ ~x.armed /\ x.whole = <<>>
      /\ hlp.pc = "prompt" /\ ~hlp.owned
      /\ host.pc = "idle" /\ host.id = None /\ host.whole = <<>>
  <2>1. "prompt" \in GetHelperPcs /\ "idle" \in GetHostPcs
    BY DEF GetHelperPcs, GetHostPcs
  <2>2. NoTransfer \in Hosts(GetHostPcs)
    BY <2>1, Idles
  <2> QED BY <2>1, <2>2, Idles DEF IdleTransfer, AtPrompt, NoTransfer
<1>1. WireTypes
  BY <1>0 DEF WireTypes
<1>2. GetMachineTypes
  <2>1. Whole \in Versions
    BY DEF Versions
  <2>2. \E target \in {None} \cup {Source(v) : v \in Versions} :
          disk = [meta |-> [i \in Ids |-> None], part |-> [i \in Ids |-> None],
                  out |-> [i \in Ids |-> None], target |-> target]
    BY <2>1
  <2> QED BY <1>0, <1>1, <2>2 DEF GetMachineTypes
<1>3. <<>> \in Wholes
  BY DEF Wholes
<1>4. Owned /\ GetLive /\ GetCounts /\ GetWindow /\ GetInStep /\ GetOffer
  <2>1. Owned
    BY <1>0 DEF Owned
  <2>2. GetLive
    BY <1>0 DEF GetLive, Moving, Working, Staging
  <2>3. GetCounts
    BY <1>0, <1>3 DEF GetCounts, Readied0, Moving
  <2>4. GetWindow /\ GetInStep /\ GetOffer
    BY <1>0 DEF GetWindow, GetInStep, GetOffer, Working
  <2> QED BY <2>1, <2>2, <2>3, <2>4
<1>5. GetTalk
  <2>1. GoodGet(host)
    BY <1>0, <1>3 DEF GoodGet, Opening, Binding, GetStream
  <2>2. Calling
    BY <1>0 DEF Calling
  <2> QED BY <2>1, <2>2 DEF GetTalk, GetHostFits, GetJournalFits, GetCallFits, GetReplyFits
<1>6. GetFiles
  <2>1. LocalTypes /\ GetSynced /\ DestFits
    BY <1>0 DEF LocalTypes, GetSynced, DestFits, Binding
  <2>2. GetPart
    BY <1>0 DEF GetPart, Opening, Binding, GetStream
  <2> QED BY <2>1, <2>2 DEF GetFiles
<1> QED BY <1>2, <1>4, <1>5, <1>6 DEF GetInv, GetMachine

LEMMA GetStep == GetInv /\ [Next]_vars => GetInv'
<1>1. ASSUME GetInv, Next PROVE GetInv'
  BY <1>1, GetHostTalks, GetAgentTalks, GetReconnects, GetHelperTalks, GetResets, GetIntrudes
    DEF Next, HelperAction, Interrupted
<1>2. ASSUME GetInv, UNCHANGED vars PROVE GetInv'
  <2>1. /\ UNCHANGED <<x, hlp, disk, linked, typed, file, call, rsp, host, journal, local>>
        /\ GetMachine /\ GetTalk /\ GetMachineTypes
    BY <1>2, GetAtWork DEF vars
  <2>2. GetSame
    BY <2>1, GetTyped DEF GetSame
  <2>3. x'.pump => hlp'.pc = "pumping" /\ x'.armed
    BY <2>1 DEF GetMachine, Owned, GetLive
  <2>4. x.acked /\ hlp.pc \in Working /\ x.pump => FALSE
    BY <2>1 DEF GetMachine, Owned, GetLive, GetInStep, GoesBack, NothingLeft, Offers, Untold, Moving
  <2>5. linked' \in BOOLEAN /\ typed' \in Ids \cup {None}
    BY <2>1, GetTyped
  <2>6. GetMachine' /\ GetGrows
    BY <2>1, <2>2, <2>3, <2>4, <2>5, GetSameKeeps
  <2>7. GetReplyFits'
    BY <2>1, <2>6, GetReplyStays DEF GetTalk
  <2>8. GetTalk' /\ GetFiles'
    BY <1>2, <2>1, <2>6, <2>7, GetTalkStays DEF GetTalk, Calling, Cut
  <2> QED BY <2>6, <2>8 DEF GetInv
<1> QED BY <1>1, <1>2

----------------------------------------------------------------------------
(* GET: the properties. *)

LEMMA GetBlocks == ASSUME GetInv PROVE NothingLost
BY GetAtWork DEF NothingLost, OnOffer, GetMachine, GetOffer

LEMMA GetBacked == ASSUME GetInv PROVE JournalBacked
<1>1. GetFiles /\ file.get
  BY GetAtWork
<1>2. ASSUME NEW i \in Ids, journal[i] # None
      PROVE  Synced(local.part[i], journal[i].prefix) \/ local.dest # None
  BY <1>1, <1>2 DEF GetFiles, GetSynced, InSync
<1> QED BY <1>1, <1>2 DEF JournalBacked

LEMMA GetScratch ==
  ASSUME GetInv, [Next]_vars, NEW i \in Ids
  PROVE  disk'.out[i] = disk.out[i]
<1>1. GetMachineTypes /\ GetMachineTypes'
  BY GetStep DEF GetInv, GetMachine
<1>2. disk.out[i] = None
  BY <1>1 DEF GetMachineTypes
<1>3. disk'.out[i] = None
  BY <1>1 DEF GetMachineTypes
<1> QED BY <1>2, <1>3

\* What the name holds, in the words of AtomicTransfer.
LEMMA DestNames ==
  ASSUME local.dest # None => local.dest = ForeignDest \/ (local.dest.mine /\ local.dest.data \in Versions)
  PROVE  /\ local.dest = None => DestHolds = "absent"
         /\ local.dest # None /\ local.dest.mine => DestHolds = "whole"
         /\ local.dest # None /\ ~local.dest.mine => DestHolds = "foreign"
<1>1. ~ForeignDest.mine
  BY DEF ForeignDest
<1> QED BY <1>1 DEF DestHolds

\* Nobody but LinkDest, and an intruder, gives the destination its name.
LEMMA DestStands ==
  ASSUME GetInv, [Next]_vars, ~(HostAction /\ LinkDest /\ local.dest = None), ~(Intrude /\ IntrudeDest)
  PROVE  local'.dest = local.dest
<1>0. local \in [part : [Ids -> PartFiles \cup {None}], dest : DestFiles \cup {None}]
  BY DEF GetInv, GetFiles, LocalTypes
<1>1. CASE HostAction
  <2>1. CASE \E i, f : local' = [local EXCEPT !.part[i] = f]
    <3>1. PICK i, f : local' = [local EXCEPT !.part[i] = f]
      BY <2>1
    <3> QED BY <1>0, <3>1
  <2>2. CASE UNCHANGED local
    BY <2>2
  <2>3. CASE GetAnew
    <3>1. PICK i \in Ids : local' = [local EXCEPT !.part[i] = PartFile(<<>>, 0)]
      BY <2>3 DEF GetAnew
    <3> QED BY <2>1, <3>1
  <2>4. CASE GetResume(TRUE) \/ GetResume(FALSE)
    BY <2>2, <2>4 DEF GetResume, GetContinues
  <2>5. CASE LosesUnsynced
    BY <2>1, <2>2, <2>5 DEF LosesUnsynced, SavesPart
  <2>6. CASE GetRecover \/ GetAwait \/ GetAdopt
    BY <2>1, <2>2, <2>6 DEF GetRecover, GetReopens, GetAttaches, GetAwait, GetAdopt, SavesPart, GetRaises
  <2>7. CASE GotRead
    BY <2>1, <2>2, <2>7 DEF GotRead, SavesPart, GetRaises
  <2>8. CASE GotAck \/ GetClosed \/ GetComplete \/ Unlink \/ CompleteGet \/ (LinkDest /\ local.dest # None)
    BY <2>1, <2>2, <2>8 DEF GotAck, GetClosed, GetComplete, Unlink, CompleteGet, LinkDest, SavesPart, GetRaises
  <2> QED BY <1>1, <2>2, <2>3, <2>4, <2>5, <2>6, <2>7, <2>8 DEF HostAction, HostSteps, GetHostSteps, Gets
<1>2. CASE AgentAction \/ Reconnect \/ HelperAction \/ Interrupted \/ Reset \/ UNCHANGED vars
  BY <1>2 DEF AgentAction, Reconnect, HelperAction, Interrupted, Reset, vars, HostVars
<1>3. CASE Intrude
  BY <1>3 DEF Intrude, IntrudeTarget, ChangeSource
<1> QED BY <1>1, <1>2, <1>3 DEF Next

LEMMA GetIsAtomic ==
  ASSUME GetInv, [Next]_vars
  PROVE  Atomic!Next \/ UNCHANGED Atomic!vars
<1>0. /\ GetInv' /\ file.get /\ file'.get /\ Versions' = Versions /\ DestFits /\ DestFits'
      /\ local \in [part : [Ids -> PartFiles \cup {None}], dest : DestFiles \cup {None}]
      /\ local' \in [part : [Ids -> PartFiles \cup {None}], dest : DestFiles \cup {None}]
  <2>1. GetInv'
    BY GetStep
  <2>2. file' = file /\ GetMachineTypes /\ file.get
    BY FileStands, GetAtWork
  <2> QED BY <2>1, <2>2, VersionFacts DEF GetInv, GetFiles, LocalTypes
<1>1. ASSUME local'.dest = local.dest PROVE DestHolds' = DestHolds
  BY <1>0, <1>1 DEF DestHolds, ForeignDest
<1>2. ASSUME local'.dest = local.dest, done' = done PROVE UNCHANGED Atomic!vars
  BY <1>0, <1>1, <1>2 DEF Atomic!vars
<1>3. ForeignDest # None /\ ~ForeignDest.mine
  <2>1. <<0>> \in Blocks
    BY DEF Blocks
  <2>2. ForeignDest \in DestFiles
    BY <2>1 DEF ForeignDest, DestFiles
  <2> QED BY <2>2, NoneAssumption DEF ForeignDest
<1>4. CASE HostAction /\ LinkDest /\ local.dest = None
  <2>1. done' = done
    BY <1>4, DoneStands DEF LinkDest, CompletePut, CompleteGet
  <2>2. local'.dest = [data |-> Partial.data, mine |-> TRUE]
    <3>1. host.id \in Ids
      BY <1>4, GetAtWork DEF LinkDest
    <3> QED BY <1>0, <1>4, <3>1 DEF LinkDest
  <2>3. local'.dest # None /\ local'.dest # ForeignDest
    <3>1. Partial.data \in Blocks
      BY <1>4, GetAtWork DEF LinkDest
    <3>2. local'.dest \in DestFiles
      BY <2>2, <3>1 DEF DestFiles
    <3>3. local'.dest # None
      BY <3>2, NoneAssumption
    <3>4. local'.dest.mine
      BY <2>2
    <3> QED BY <1>3, <3>3, <3>4
  <2>4. DestHolds' = "whole"
    <3>1. ForeignDest' = ForeignDest
      BY DEF ForeignDest
    <3> QED BY <1>0, <2>3, <3>1 DEF DestHolds, DestFits
  <2>5. DestHolds = "absent"
    BY <1>4 DEF DestHolds
  <2>6. Atomic!Publish
    BY <1>0, <2>1, <2>4, <2>5 DEF Atomic!Publish
  <2> QED BY <2>6 DEF Atomic!Next
<1>5. CASE Intrude /\ IntrudeDest
  <2>1. done' = done /\ local.dest = None /\ local'.dest = ForeignDest
    BY <1>0, <1>5 DEF Intrude, IntrudeDest, hostVars
  <2>2. DestHolds = "absent" /\ DestHolds' = "foreign"
    <3>1. ForeignDest' = ForeignDest
      BY DEF ForeignDest
    <3> QED BY <1>3, <2>1, <3>1 DEF DestHolds
  <2>3. Atomic!Intrude
    BY <1>0, <2>1, <2>2 DEF Atomic!Intrude
  <2> QED BY <2>3 DEF Atomic!Next
<1>6. CASE HostAction /\ CompleteGet
  <2>1. host.pc = "forget" /\ done' = done \cup {host.id} /\ local' = local
    BY <1>6 DEF CompleteGet
  <2>2. DestHolds = "whole"
    BY <1>0, <2>1, DestNames DEF DestFits
  <2>3. Atomic!Report
    BY <1>0, <1>1, <2>1, <2>2 DEF Atomic!Report
  <2> QED BY <2>3 DEF Atomic!Next
<1>7. CASE /\ ~(HostAction /\ LinkDest /\ local.dest = None) /\ ~(Intrude /\ IntrudeDest)
           /\ ~(HostAction /\ CompleteGet)
  <2>1. local'.dest = local.dest
    BY <1>7, DestStands
  <2>2. ~CompletePut
    BY GetAtWork DEF CompletePut, Hosts, GetHostPcs, Opening, Binding, GetStream
  <2>3. done' = done
    <3>1. CASE HostAction
      BY <1>7, <2>2, <3>1, DoneStands
    <3>2. CASE AgentAction \/ Reconnect \/ HelperAction \/ Interrupted \/ Reset \/ Intrude \/ UNCHANGED vars
      BY <3>2 DEF AgentAction, Reconnect, HelperAction, Interrupted, Reset, Intrude, vars, HostVars, hostVars
    <3> QED BY <3>1, <3>2 DEF Next
  <2> QED BY <1>2, <2>1, <2>3
<1> QED BY <1>4, <1>5, <1>6, <1>7

LEMMA GetBegins == ASSUME Init, file.get PROVE Atomic!Init
BY DEF Init, HostInit, LocalInit, Atomic!Init, DestHolds

----------------------------------------------------------------------------
(* Both directions. *)

LEMMA TransferStarts == Init => TransferInv
BY PutStarts, GetStarts DEF TransferInv

LEMMA TransferStep == TransferInv /\ [Next]_vars => TransferInv'
<1>1. ASSUME TransferInv, [Next]_vars PROVE TransferInv'
  <2>1. file' = file
    BY <1>1, FileStands
  <2>2. CASE file.get
    BY <1>1, <2>1, <2>2, GetStep DEF TransferInv
  <2>3. CASE ~file.get
    BY <1>1, <2>1, <2>3, PutStep DEF TransferInv
  <2> QED BY <2>2, <2>3
<1> QED BY <1>1

(***************************************************************************)
(* In every reachable state the parties to a transfer agree on where it    *)
(* is: resident, helper, host, both journals and both disks, in either     *)
(* direction and whatever has failed.                                      *)
(***************************************************************************)
THEOREM TransferHolds == Spec => []TransferInv
<1> QED BY TransferStarts, TransferStep, PTL DEF Spec

(***************************************************************************)
(* No block is lost, repeated or out of place: what the resident of a PUT  *)
(* has accepted is what its helper has, and the block that a GET offers is *)
(* the one at its offset, through rewinds and reconnects.                  *)
(***************************************************************************)
THEOREM NoBlockIsLost == Spec => []NothingLost
<1>1. TransferInv => NothingLost
  BY PutBlocks, GetBlocks DEF TransferInv
<1> QED BY <1>1, TransferHolds, PTL

(***************************************************************************)
(* What the host journalled as durable survives any loss of power, on the  *)
(* MSX's disk after a PUT's status and on its own after a GET's fsync: a   *)
(* resumed transfer starts from data that is there.                        *)
(***************************************************************************)
THEOREM JournalIsBacked == Spec => []JournalBacked
<1>1. TransferInv => JournalBacked
  BY PutBacked, GetBacked DEF TransferInv
<1> QED BY <1>1, TransferHolds, PTL

(***************************************************************************)
(* A scratch output that this transfer did not create is never deleted or  *)
(* overwritten, in whatever phase the helper stops or comes back.          *)
(***************************************************************************)
THEOREM ForeignOutputsAreKept == Spec => ScratchOwned
<1>1. ASSUME TransferInv, [Next]_vars
      PROVE  \A i \in Ids : disk.out[i] \in Foreigns => disk'.out[i] = disk.out[i]
  BY <1>1, PutScratch, GetScratch DEF TransferInv
<1>2. TransferInv /\ [Next]_vars =>
        [\A i \in Ids : disk.out[i] \in Foreigns => disk'.out[i] = disk.out[i]]_vars
  BY <1>1
<1> QED BY <1>2, TransferHolds, PTL DEF Spec, ScratchOwned

(***************************************************************************)
(* The whole of it, with its crashes, cancellations and retries, is        *)
(* AtomicTransfer: the name that a transfer is for goes from absent to     *)
(* whole in one step, or is somebody else's and stays so; and only a       *)
(* transfer that left it whole is reported.                                *)
(***************************************************************************)
THEOREM TransferIsAtomic == Spec => ImplementsAtomicTransfer
<1>1. Init => Atomic!Init
  BY PutBegins, GetBegins
<1>2. TransferInv /\ [Next]_vars => [Atomic!Next]_Atomic!vars
  BY PutIsAtomic, GetIsAtomic DEF TransferInv
<1> QED BY <1>1, <1>2, TransferHolds, PTL DEF Spec, ImplementsAtomicTransfer, Atomic!Spec
=================================================================================
