-------------------------------- MODULE XferHost -------------------------------
(***************************************************************************)
(* The host's end of a transfer: what RealMSX.put_file and get_file        *)
(* (server/msx_real.py) have in common, and their resume journal           *)
(* (TransferJournal, server/msx_transfer.py).                              *)
(*                                                                         *)
(* Either is a synchronous client: it makes one call, acts on the reply    *)
(* and makes the next.  It moves one source file to one target, so that    *)
(* every journal of the directory matches.                                 *)
(***************************************************************************)
EXTENDS XferWire, FiniteSets

CONSTANT JournalEvery  \* FILE_TRANSFER_JOURNAL_INTERVAL, in blocks

ASSUME HostAssumption == JournalEvery \in Nat \ {0}

VARIABLES
  host,     \* the call of put_file or get_file in progress
  journal,  \* resume record of each transfer, on the host's disk
  used,     \* IDs already drawn
  done      \* transfers that were reported as complete

hostVars == <<host, journal, used, done>>

\* whole and prefix: what a GET knows of the file, and has of it.
NoTransfer ==
  [pc |-> "idle", id |-> None, resumed |-> FALSE, attach |-> FALSE,
   st |-> "IDLE", dur |-> 0, acc |-> 0, same |-> FALSE,
   intent |-> FALSE, sent |-> FALSE, whole |-> <<>>, prefix |-> <<>>]

\* TransferJournal refuses to load a close intent below the full boundary.
HostTypeOK ==
  /\ host.id \in Ids \cup {None}
  /\ host.dur \in 0 .. Size /\ host.acc \in 0 .. Size
  /\ used \in SUBSET Ids /\ done \in SUBSET used
  /\ \A i \in Ids :
       journal[i] # None =>
         /\ i \in used
         /\ journal[i].off \in 0 .. Size /\ journal[i].close \in BOOLEAN
         /\ (journal[i].close => journal[i].off = Size)

HostInit ==
  /\ host = NoTransfer
  /\ journal = [i \in Ids |-> None]
  /\ used = {} /\ done = {}
  /\ call = None /\ rsp = None /\ linked = TRUE

----------------------------------------------------------------------------
\* Calls.

StatusSteps == {"recover", "await", "poll", "complete"}
CloseSteps == {"close", "lastclose"}

Request(h) ==
  CASE h.pc \in StatusSteps -> [op |-> "status", id |-> h.id]
    [] h.pc \in CloseSteps -> [op |-> "close", id |-> h.id]
    [] h.pc \in {"begin", "cancel"} -> [op |-> h.pc, id |-> h.id]
    [] h.pc = "open" ->
         [op |-> "open", id |-> h.id, offset |-> h.dur,
          resume |-> h.resumed, replay |-> h.intent,
          prefix |-> IF file.get THEN h.prefix ELSE Prefix(h.dur),
          whole |-> IF file.get THEN h.whole ELSE Whole]
    [] h.pc \in {"put", "read", "ack"} ->
         [op |-> h.pc, id |-> h.id, offset |-> h.acc, prefix |-> h.prefix]
    [] OTHER -> None

Become(h) ==
  host' = h /\ call' = Request(h) /\ rsp' = None
    /\ UNCHANGED <<linked, file, used>>
At(h, pc) == [h EXCEPT !.pc = pc]

Raise == Become(NoTransfer) /\ UNCHANGED <<journal, done, typed, faults>>
Continue(h) == Become(h) /\ UNCHANGED <<journal, done, typed, faults>>

Replied(pc) == host.pc = pc /\ rsp # None

\* _raise_transfer_remote, and every reply that is not an answer.
Bad(r) == ~r.ok \/ r.state \in {"FAILED", "CANCELLED"}

\* Each round of a loop first asks whether the caller cancelled.
Round(h, pc) ==
  \/ Become(At(h, pc)) /\ UNCHANGED faults
  \/ Become(At(h, "cancel")) /\ Fault("cancel")

\* find_matching refuses to choose between two records.
Matching == {i \in Ids : journal[i] # None}

----------------------------------------------------------------------------
\* Opening, and the ways to end early.

GotOpen ==
  /\ Replied("open")
  /\ IF Bad(rsp) THEN Raise
     ELSE Round(host, "type") /\ UNCHANGED <<journal, done, typed>>

\* type_line spools the line behind those the keyboard still holds, and
\* returns once the whole of it is taken.
TypeLine ==
  /\ host.pc = "type" /\ linked /\ typed = None
  /\ Become(At(host, "typing"))
  /\ typed' = host.id
  /\ UNCHANGED <<journal, done, faults>>

LineTaken ==
  host.pc = "typing" /\ linked /\ typed = None /\ Continue(At(host, "await"))

GotBegin ==
  Replied("begin") /\ IF Bad(rsp) THEN Raise ELSE Continue(At(host, "adopt"))

GotCancel == Replied("cancel") /\ Raise

\* The no-progress deadline of a polling loop, or of a line that nobody
\* reads, which is then taken from the keyboard again.
Stalls ==
  /\ \/ \E pc \in {"await", "poll", "complete"} : Replied(pc)
     \/ Replied("read") /\ (rsp.ok => rsp.data = <<>>)
     \/ host.pc \in {"type", "typing"}
  /\ Become(NoTransfer) /\ Fault("stall")
  /\ typed' = IF host.pc = "typing" THEN None ELSE typed
  /\ UNCHANGED <<journal, done>>

\* The call's own deadline, a broken stream, or the end of the process.  A
\* request already sent may still be served, before the next bootstrap.
\* After a power loss of the MSX there is nothing else a call can do.
GiveUp ==
  /\ host.pc # "idle"
  /\ host' = NoTransfer
  /\ linked' = FALSE
  /\ IF linked THEN Fault("giveup") ELSE UNCHANGED faults
  /\ UNCHANGED <<journal, used, done, call, rsp, typed, file>>

SharedHostSteps == GotOpen \/ TypeLine \/ LineTaken \/ GotBegin \/ GotCancel
===============================================================================
