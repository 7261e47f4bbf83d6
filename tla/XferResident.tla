----------------------------- MODULE XferResident -----------------------------
(***************************************************************************)
(* Protocol X in the resident (agent/msx_agent_core.asm): the one staged   *)
(* transfer, the host's requests, and the TsrCalls of the DOS helper.      *)
(*                                                                         *)
(* A request is served from a BIOS hook, at any step of the helper, unless *)
(* fast-v1 is armed; then only inside the helper's own PUMP call.          *)
(***************************************************************************)
EXTENDS XferWire

VARIABLE x  \* xfer_* variables of the resident

IdleTransfer ==
  [state |-> "IDLE", id |-> None, resume |-> FALSE, replay |-> FALSE,
   from |-> 0, accepted |-> 0, durable |-> 0, prefix |-> <<>>,
   pending |-> <<>>, close |-> FALSE, ready |-> FALSE, armed |-> FALSE,
   pump |-> FALSE, whole |-> <<>>, sent |-> 0, acked |-> FALSE, rewind |-> FALSE]

\* The descriptor's wire size; its CRC stands for the blocks of x.whole.
WireSize == Len(x.whole)

ResidentTypeOK ==
  /\ x.state \in States
  /\ x.id \in Ids \cup {None}
  /\ x.durable \in 0 .. Size /\ x.accepted \in x.durable .. Size + 1
  /\ x.sent \in 0 .. Size
  /\ x.from \in 0 .. Size
  /\ Len(x.pending) <= 1

----------------------------------------------------------------------------
\* Requests.

CanHear(op) ==
  /\ call # None /\ rsp = None
  /\ call.op = op
  /\ x.pump \/ ~x.armed

Report(y) ==
  [ok |-> TRUE, state |-> y.state, accepted |-> y.accepted,
   durable |-> y.durable, prefix |-> y.prefix, whole |-> y.whole,
   data |-> <<>>]
Refused == [ok |-> FALSE]

\* The pump takes one frame per call.
Answer(y) ==
  /\ x' = [y EXCEPT !.pump = FALSE]
  /\ rsp' = Report(y)
  /\ UNCHANGED <<call, linked, typed, file, faults>>

IsOurs == call.id = x.id

CanOpen == x.state \in Terminal
CanBegin == IsOurs /\ x.ready /\ x.state \in Moving
CanClose ==
  /\ IsOurs
  /\ \/ x.state = "COMPLETE" \/ x.close
     \/ /\ x.state \in Moving /\ x.pending = <<>>
        /\ x.durable = WireSize /\ x.accepted = WireSize
CanCancel == IsOurs /\ x.state # "POSTPROCESS"

\* A block is taken when there is a worker and its mailbox is free; without
\* them the reply is a success that accepted nothing.
Takes == x.state \in Moving /\ x.pending = <<>> /\ x.ready
CanPut ==
  /\ x.pump
  /\ IsOurs
  /\ call.offset = x.accepted
  /\ Takes => x.accepted < Size /\ x.accepted - x.durable < Window

Staged(c) ==
  [IdleTransfer EXCEPT
    !.state = "STAGED", !.id = c.id, !.resume = c.resume,
    !.replay = c.replay, !.from = c.offset, !.accepted = c.offset,
    !.durable = c.offset, !.prefix = c.prefix, !.whole = c.whole]

ServeOpen == CanHear("open") /\ CanOpen /\ Answer(Staged(call))

ServeStatus == CanHear("status") /\ IsOurs /\ Answer(x)

\* After a reconnect, what was offered or sent of a GET behind the last
\* checkpoint is taken back; the helper hears of it at its next GET_POLL.
Overhangs == x.state = "TRANSFERRING" /\ x.accepted # x.durable
Begun ==
  IF file.get /\ ~x.armed /\ Overhangs
  THEN [x EXCEPT !.armed = TRUE, !.pending = <<>>, !.acked = FALSE,
                 !.rewind = TRUE, !.accepted = x.durable, !.sent = x.durable]
  ELSE [x EXCEPT !.armed = TRUE]

ServeBegin == CanHear("begin") /\ CanBegin /\ Answer(Begun)

ServePut ==
  /\ CanHear("put") /\ CanPut
  /\ Answer(IF Takes THEN [x EXCEPT !.pending = <<call.offset + 1>>,
                                    !.accepted = @ + 1,
                                    !.state = "TRANSFERRING"]
                     ELSE x)

ServeClose ==
  /\ CanHear("close") /\ CanClose
  /\ Answer(IF x.state = "COMPLETE" \/ x.close
              THEN x ELSE [x EXCEPT !.close = TRUE, !.state = "VERIFYING"])

ServeCancel ==
  /\ CanHear("cancel") /\ CanCancel
  /\ Answer(IF x.state = "COMPLETE" THEN x
              ELSE [x EXCEPT !.state = "CANCELLED", !.pending = <<>>,
                             !.close = FALSE, !.armed = FALSE])

\* GET_READ: the pinned block, or at the checkpoint an empty answer.  The
\* block is sent when its answer is.
CanRead ==
  /\ x.pump /\ IsOurs
  /\ call.offset = IF x.pending # <<>> THEN x.accepted - 1 ELSE x.durable
ServeRead ==
  /\ CanHear("read") /\ CanRead
  /\ LET y == IF x.pending = <<>> THEN x
              ELSE [x EXCEPT !.pending = <<>>, !.acked = TRUE,
                             !.sent = x.accepted, !.state = "TRANSFERRING"]
     IN x' = [y EXCEPT !.pump = FALSE] /\ rsp' = [Report(y) EXCEPT !.data = x.pending]
  /\ UNCHANGED <<call, linked, typed, file, faults>>

\* GET_ACK: what was sent last is on the host's disk, with this prefix.
CanAck == IsOurs /\ call.offset = x.sent
ServeAck ==
  /\ CanHear("ack") /\ CanAck
  /\ Answer([x EXCEPT !.durable = x.sent, !.prefix = call.prefix])

Refuse ==
  /\ \/ CanHear("open") /\ ~CanOpen
     \/ CanHear("status") /\ ~IsOurs
     \/ CanHear("begin") /\ ~CanBegin
     \/ CanHear("put") /\ ~CanPut
     \/ CanHear("read") /\ ~CanRead
     \/ CanHear("ack") /\ ~CanAck
     \/ CanHear("close") /\ ~CanClose
     \/ CanHear("cancel") /\ ~CanCancel
  /\ x' = [x EXCEPT !.pump = FALSE]
  /\ rsp' = Refused
  /\ UNCHANGED <<call, linked, typed, file, faults>>

\* The reconnect escape of a host that lost its session: the transfer stays,
\* fast-v1 is disarmed.  What the old session had in flight is gone, perhaps
\* with a command line still in the keyboard spool.
Rebootstrap ==
  /\ ~linked
  /\ x.pump \/ ~x.armed
  /\ x' = [x EXCEPT !.armed = FALSE, !.pump = FALSE]
  /\ linked' = TRUE
  /\ call' = None /\ rsp' = None
  /\ typed' \in {typed, None}
  /\ UNCHANGED <<file, faults>>

Serve == ServeOpen \/ ServeStatus \/ ServeBegin \/ ServePut \/ ServeRead
           \/ ServeAck \/ ServeClose \/ ServeCancel \/ Refuse

----------------------------------------------------------------------------
\* TsrCalls: whether each succeeds, and the transfer it leaves.

ClaimOk(id) == x.state = "STAGED" /\ x.id = id
Claimed == [x EXCEPT !.state = "OPENING", !.ready = FALSE]

ReadyOk(id) == x.state = "OPENING" /\ x.id = id
Readied(blocks) ==
  [x EXCEPT !.state = "READY", !.ready = TRUE, !.prefix = blocks,
            !.from = Len(blocks), !.durable = Len(blocks),
            !.accepted = Len(blocks)]

\* READY of a GET brings the size and CRC that the helper found.
ReadiedSource(blocks, from) ==
  [x EXCEPT !.state = "READY", !.ready = TRUE, !.whole = blocks,
            !.durable = from, !.accepted = from,
            !.prefix = SubSeq(blocks, 1, from)]

CanPump == x.armed /\ x.ready

ReleaseOk == x.pending # <<>>
Released == [x EXCEPT !.pending = <<>>]

CommitOk(n) == x.pending # <<>> /\ n = x.accepted - x.durable
Committed(blocks) ==
  [x EXCEPT !.durable = x.accepted, !.prefix = blocks, !.pending = <<>>]

\* GET_PUBLISH does not look at the state.
PublishOk == x.pending = <<>>
Published(block) ==
  IF x.accepted + 1 > WireSize
  THEN [x EXCEPT !.state = "FAILED", !.armed = FALSE, !.accepted = @ + 1]
  ELSE [x EXCEPT !.pending = <<block>>, !.accepted = @ + 1,
                 !.state = "TRANSFERRING"]

\* GET_POLL: what the helper hears, and the flag it takes with it.
GetPoll ==
  IF x.state \in {"FAILED", "CANCELLED"} THEN "stop"
  ELSE IF x.rewind THEN "rewind"
  ELSE IF x.acked THEN "sent"
  ELSE IF x.close THEN "close"
  ELSE IF x.pending # <<>> THEN "wait"
  ELSE "sent"
GetPolled ==
  CASE GetPoll = "rewind" -> [x EXCEPT !.rewind = FALSE]
    [] GetPoll = "sent" -> [x EXCEPT !.acked = FALSE]
    [] OTHER -> x

PostprocessOk ==
  x.state = "VERIFYING" /\ x.close /\ x.pending = <<>> /\ x.durable = WireSize
Postprocessed == [x EXCEPT !.state = "POSTPROCESS", !.armed = FALSE]

FinishOk ==
  x.state = "POSTPROCESS" /\ x.close /\ x.pending = <<>> /\ x.durable = WireSize
Finished(success) ==
  IF x.state = "CANCELLED" THEN [x EXCEPT !.armed = FALSE]
  ELSE IF ~success
    THEN [x EXCEPT !.state = "FAILED", !.pending = <<>>, !.ready = FALSE,
                   !.armed = FALSE]
  ELSE IF FinishOk
    THEN [x EXCEPT !.state = "COMPLETE", !.ready = FALSE, !.armed = FALSE]
    ELSE [x EXCEPT !.state = "FAILED", !.armed = FALSE]
===============================================================================
