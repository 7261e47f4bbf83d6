------------------------------- MODULE XferWire -------------------------------
(***************************************************************************)
(* What the three parties of a file transfer share: the host's call in     *)
(* progress and its reply, the DOS command line, and the file itself.  A   *)
(* behaviour is about one file, which goes to the MSX (PUT) or comes from  *)
(* it (GET).                                                               *)
(*                                                                         *)
(* Each call crosses the framed link, whose service FramedLink shows: it   *)
(* takes effect at most once, and the host gets its answer or gives up.    *)
(* Data is counted in blocks of the largest payload; block i of the        *)
(* file is the number i, so a lost, repeated or misplaced block shows.  A  *)
(* CRC of some blocks is modelled by the blocks: no collisions.            *)
(***************************************************************************)
EXTENDS Naturals, Sequences

CONSTANTS
  Ids,         \* transfer IDs the host may draw
  None,        \* no call, no reply, no file, no ID
  Sizes,       \* blocks a wire representation may have
  Window,      \* XFER_FAST_ACCUMULATOR_CAPACITY, FILE_TRANSFER_MAX_UNCOMMITTED
  FaultKinds,  \* the faults a behaviour may have
  MaxFaults    \* and how many of them

ASSUME WireAssumption ==
  /\ Sizes \subseteq Nat
  /\ Window \in Nat \ {0}
  /\ MaxFaults \in Nat
  /\ None \notin Ids

VARIABLES
  call,    \* request the host is waiting on
  rsp,     \* reply the agent has made to it
  linked,  \* the session is in step; FALSE until the next bootstrap
  typed,   \* transfer ID of the command line waiting for a DOS prompt
  file,    \* its blocks on the wire, whether PackBits, and whether a GET
  faults   \* faults so far

wireVars == <<call, rsp, linked, typed, file, faults>>

Size == file.blocks

\* The first n blocks of the file, and all of them.
Prefix(n) == [i \in 1 .. n |-> i]
Whole == Prefix(Size)

\* What the source of a GET may be: the file, one with another last block, or
\* another and shorter one.
Versions ==
  {Whole} \cup IF Size = 0 THEN {}
               ELSE {[Whole EXCEPT ![Size] = Size + 1], <<Size + 1>>}

Moving == {"READY", "TRANSFERRING"}
Terminal == {"IDLE", "COMPLETE", "FAILED", "CANCELLED"}
States == Moving \cup Terminal \cup
          {"STAGED", "OPENING", "VERIFYING", "POSTPROCESS"}

Fault(kind) ==
  kind \in FaultKinds /\ faults < MaxFaults /\ faults' = faults + 1
===============================================================================
