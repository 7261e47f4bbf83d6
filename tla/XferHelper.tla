------------------------------ MODULE XferHelper ------------------------------
(***************************************************************************)
(* The DOS half of a transfer: MSXAIXF.COM (agent/msx_xfer_engine.inc) and *)
(* the files it keeps; here what both directions share.  The helper is one *)
(* process; an action is one DOS call or one TsrCall with the computation  *)
(* around it, so that the resident may serve a request, or the machine     *)
(* stop, between any two of them.                                          *)
(*                                                                         *)
(* A file is its blocks, how many of them are ENSUREd and whether a        *)
(* transfer wrote it, which no code can see.  CREATE, CLOSE, RENAME and    *)
(* DELETE are taken to be durable when they return.                        *)
(***************************************************************************)
EXTENDS XferResident

VARIABLES
  hlp,   \* the running helper
  disk   \* .PRT, .MTD and .OUT of each PUT, and the file itself

helperVars == <<hlp, disk>>

File(blocks, ensured) == [data |-> blocks, safe |-> ensured, mine |-> TRUE]
Foreigns ==  \* somebody else's files, the second one of equal contents
  {[data |-> d, safe |-> Len(d), mine |-> FALSE] : d \in {<<Size + 1>>, Whole}}
Complete(f) == f # None /\ f.data = Whole

\* Phases of the sidecar; "TORN" is a phase pair that fails validation.
Rank == [RECEIVING |-> 0, DECODING |-> 1, PUBLISHING |-> 2, PUBLISHED |-> 3]
Phases == DOMAIN Rank

AtPrompt ==
  [pc |-> "prompt", id |-> None, resume |-> FALSE, replay |-> FALSE,
   from |-> 0, crc |-> <<>>, acc |-> <<>>, phase |-> "RECEIVING",
   owned |-> FALSE, src |-> <<>>]

HelperTypeOK ==
  /\ hlp.id \in Ids \cup {None}
  /\ hlp.phase \in Phases
  /\ Len(hlp.crc) <= Size /\ Len(hlp.acc) <= Window
  /\ \A i \in Ids : disk.meta[i] \in Phases \cup {None, "TORN"}

Goto(pc) == hlp' = [hlp EXCEPT !.pc = pc]
Fails == Goto("fail")

Meta == disk.meta[hlp.id]
Part == disk.part[hlp.id]
Out == disk.out[hlp.id]

KeepsDisk == UNCHANGED <<x, disk, wireVars>>
KeepsResident == UNCHANGED <<x, wireVars>>
CallsTsr(y) == x' = y /\ UNCHANGED <<disk, wireVars>>

----------------------------------------------------------------------------
\* Starting.

\* The prompt runs the command line that was typed.
Start ==
  /\ hlp.pc = "prompt" /\ typed # None
  /\ hlp' = [AtPrompt EXCEPT !.pc = "claim", !.id = typed]
  /\ typed' = None
  /\ UNCHANGED <<x, disk, call, rsp, linked, file, faults>>

\* A helper that claims nothing must not FINISH anything.
Claim ==
  /\ hlp.pc = "claim"
  /\ IF ClaimOk(hlp.id)
       THEN /\ CallsTsr(Claimed)
            /\ hlp' = [hlp EXCEPT !.pc = IF file.get THEN "scan" ELSE "prepare",
                         !.resume = x.resume, !.replay = x.replay,
                         !.from = x.from,
                         !.crc = IF file.get THEN x.prefix ELSE <<>>]
       ELSE hlp' = AtPrompt /\ KeepsDisk

----------------------------------------------------------------------------
\* Serving the host.

EnterPump ==
  /\ hlp.pc = "pump"
  /\ IF CanPump THEN CallsTsr([x EXCEPT !.pump = TRUE]) /\ Goto("pumping")
                ELSE Goto("poll") /\ KeepsDisk

\* Mutant: the pump waits for a frame.
LeavePumpServed ==
  /\ hlp.pc = "pumping" /\ ~x.pump
  /\ KeepsDisk
  /\ Goto("poll")

\* One frame was served, or none was there.
LeavePump ==
  /\ hlp.pc = "pumping"
  /\ CallsTsr([x EXCEPT !.pump = FALSE])
  /\ Goto("poll")

\* What a helper that polls waits for has not come, nor its end: a block of
\* a PUT; that a block of a GET is read, or after its last one CLOSE.
AtEnd == hlp.from = Len(hlp.src)
Waits ==
  IF file.get
    THEN \/ GetPoll = "wait"
         \/ AtEnd /\ GetPoll = "sent"
         \/ ~AtEnd /\ GetPoll = "close"
    ELSE /\ x.state \notin {"FAILED", "CANCELLED"}
         /\ ~x.close /\ x.pending = <<>>

\* A minute of that.  With a host at work it is a fault of timing.
TimesOut(noneComes) ==
  /\ hlp.pc = "poll" /\ Waits
  /\ Fails
  /\ IF noneComes THEN UNCHANGED faults ELSE Fault("timeout")
  /\ UNCHANGED <<x, disk, call, rsp, linked, typed, file>>

----------------------------------------------------------------------------
\* Ending.

Postprocess ==
  /\ hlp.pc = "postprocess"
  /\ IF PostprocessOk THEN CallsTsr(Postprocessed)
                           /\ Goto(IF file.get THEN "finish" ELSE "publish")
                      ELSE Fails /\ KeepsDisk

\* COMPLETE is the last step, after all work on the disk.
Finish ==
  /\ hlp.pc = "finish"
  /\ CallsTsr(Finished(TRUE))
  /\ hlp' = IF FinishOk \/ x.state = "CANCELLED"
              THEN AtPrompt ELSE [hlp EXCEPT !.pc = "fail"]

\* Every failure closes the files, keeps the partial one and the sidecar,
\* and deletes only an output that this helper created.
Closed(f) == IF f = None THEN None ELSE [f EXCEPT !.safe = Len(f.data)]
Fail ==
  /\ hlp.pc = "fail"
  /\ x' = Finished(FALSE)
  /\ disk' = [disk EXCEPT !.part[hlp.id] = Closed(@),
                          !.out[hlp.id] = IF hlp.owned THEN None ELSE @]
  /\ hlp' = AtPrompt
  /\ UNCHANGED wireVars

\* A DOS call fails, a WRITE perhaps after it wrote some blocks.
CallsDos ==
  {"mkmeta", "write", "ensure", "final", "publish", "decode", "decoding",
   "mark", "rename", "marked", "scan", "read"}
DosError ==
  /\ hlp.pc \in CallsDos
  /\ Fault("dos")
  /\ Fails
  /\ \/ UNCHANGED disk
     \/ /\ hlp.pc = "write"
        /\ \E k \in 1 .. Len(hlp.acc) :
             disk' = [disk EXCEPT !.part[hlp.id].data =
                        SubSeq(@, 1, Len(hlp.crc)) \o SubSeq(hlp.acc, 1, k)]
  /\ UNCHANGED <<x, call, rsp, linked, typed, file>>

----------------------------------------------------------------------------
\* The machine stops.

\* What is left of a file: what was ENSUREd, and perhaps more of it, whose
\* last block may be damaged (0).
Remains(f) ==
  IF f = None THEN {None}
  ELSE LET n == Len(f.data) IN
       {[f EXCEPT !.data = SubSeq(f.data, 1, k), !.safe = k] :
          k \in f.safe .. n} \cup
       {[f EXCEPT !.data = SubSeq(f.data, 1, k - 1) \o <<0>>, !.safe = k] :
          k \in (f.safe + 1) .. n}

\* A phase being written may be torn.
TearsMeta ==
  \/ hlp.pc \in {"mkmeta", "mark", "marked"}
  \/ hlp.pc = "publish" /\ file.packed /\ hlp.phase = "RECEIVING"

PowerLoss ==
  /\ x' = IdleTransfer
  /\ hlp' = AtPrompt
  /\ IF hlp.pc = "prompt" THEN UNCHANGED disk
     ELSE \E part \in Remains(Part), out \in Remains(Out),
             target \in Remains(disk.target),
             meta \in {Meta} \cup (IF TearsMeta THEN {"TORN"} ELSE {}) :
            disk' = [disk EXCEPT !.part[hlp.id] = part,
                       !.out[hlp.id] = out, !.target = target,
                       !.meta[hlp.id] = meta]
===============================================================================
