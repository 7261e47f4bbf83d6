------------------------------- MODULE GetHelper -------------------------------
(***************************************************************************)
(* The helper of a GET: it scans the file, reads it in windows, and offers *)
(* the resident one block at a time, without waiting for the host's        *)
(* acknowledgements; after a reconnect it is told to seek back.            *)
(***************************************************************************)
EXTENDS XferHelper

\* The journalled prefix is compared with the file's, and the whole of it is
\* scanned for the size and CRC that READY announces.
ScanSource ==
  /\ hlp.pc = "scan"
  /\ IF /\ disk.target # None
        /\ hlp.from <= Len(disk.target.data)
        /\ SubSeq(disk.target.data, 1, hlp.from) = hlp.crc
       THEN hlp' = [hlp EXCEPT !.pc = "scanned", !.src = disk.target.data]
       ELSE Fails
  /\ KeepsDisk

ReadySource ==
  /\ hlp.pc = "scanned"
  /\ IF ReadyOk(hlp.id)
       THEN CallsTsr(ReadiedSource(hlp.src, hlp.from)) /\ Goto("read")
       ELSE Fails /\ KeepsDisk

\* The next window is read when the last one is gone.
NextWindow ==
  LET left == SubSeq(hlp.src, hlp.from + 1, Len(hlp.src))
  IN IF Len(left) > Window THEN SubSeq(left, 1, Window) ELSE left
Refill ==
  /\ hlp.pc = "read"
  /\ hlp' = IF AtEnd THEN [hlp EXCEPT !.pc = "pump"]
            ELSE [hlp EXCEPT !.pc = "emit",
                             !.acc = IF @ = <<>> THEN NextWindow ELSE @]
  /\ KeepsDisk

PublishBlock ==
  /\ hlp.pc = "emit"
  /\ IF PublishOk
       THEN LET y == Published(Head(hlp.acc)) IN
            CallsTsr(y) /\ Goto(IF y.state = "FAILED" THEN "fail" ELSE "pump")
       ELSE Fails /\ KeepsDisk

PollGet ==
  /\ hlp.pc = "poll" /\ file.get
  /\ CallsTsr(GetPolled)
  /\ \/ GetPoll = "stop" /\ Fails
     \/ /\ GetPoll = "rewind"
        /\ hlp' = [hlp EXCEPT !.pc = "read", !.from = x.durable, !.acc = <<>>]
     \/ /\ GetPoll = "sent" /\ ~AtEnd
        /\ hlp' = [hlp EXCEPT !.pc = "read", !.from = @ + 1, !.acc = Tail(@)]
     \/ GetPoll = "close" /\ AtEnd /\ Goto("postprocess")
     \/ Waits /\ Goto("pump")

GetHelperSteps ==
  ScanSource \/ ReadySource \/ Refill \/ PublishBlock \/ PollGet
===============================================================================
