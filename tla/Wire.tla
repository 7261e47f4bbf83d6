--------------------------------- MODULE Wire ---------------------------------
(***************************************************************************)
(* The byte stream between the Python host and the MSX resident: a TCP     *)
(* connection, a serial line or a bridge of both.  It keeps order; what a  *)
(* party reads it may have lost, damaged or received late.                 *)
(*                                                                         *)
(* The stream is modelled in units, the groups of bytes the code reads as  *)
(* one thing.  Every unit has the same fields, so that both directions can *)
(* be typed by one record set each; a field a unit does not need holds     *)
(* None or 0.  The field "call" is history: the number of the host call    *)
(* that was current when the unit was sent.  No action of the host or of   *)
(* the resident decides anything by it.                                    *)
(***************************************************************************)
EXTENDS Naturals, Sequences

CONSTANTS
  MaxCalls,   \* bound on the host calls of a behaviour
  Modulus,    \* number of sequence numbers; 65536 in the code
  FrameBytes  \* bytes of a response frame that a one-byte read can consume

ASSUME WireAssumption ==
  /\ MaxCalls \in Nat
  /\ Modulus \in Nat \ {0}
  /\ FrameBytes \in Nat \ {0}

VARIABLES
  toAgent,    \* units the host sent and the resident has not read
  toHost      \* units the resident sent and the host has not read

wireVars == <<toAgent, toHost>>

None == "none"

(***************************************************************************)
(* Framed opcodes, by how the resident answers a repeated request: "write" *)
(* stands for the commands whose small response is cached, "read" for the  *)
(* bulk reads that are computed again, "post" for the commands that take   *)
(* effect after their response was sent (S, s and R).                      *)
(***************************************************************************)
Ops == {"write", "read", "post"}
Mutating == {"write", "post"}

Statuses == {"OK", "BAD_STATE", "BAD_ARG", "BUSY", "CRC_ERROR"}

Calls == 1 .. MaxCalls
Sequence == 0 .. (Modulus - 1)

\* Mutant of NextSequence: the counter does not wrap.
UnwrappedNext(s) == s + 1

\* Sequence numbers are 16 bits and wrap on both sides.
NextSequence(s) == (s + 1) % Modulus

ToAgentUnit ==
  [kind : {"rest"}, call : Calls, seq : Sequence, op : Ops] \cup
  [kind : {"magic", "esc", "hello", "features", "framed"},
   call : 0 .. MaxCalls, seq : {0}, op : {None}]

ToHostUnit ==
  [kind : {"credit", "response", "hello", "refused", "features", "upgraded",
           "torn"},
   call : 0 .. MaxCalls, seq : Sequence, op : Ops \cup {None},
   status : Statuses \cup {None}, left : 1 .. FrameBytes]

\* A unit that is no part of a frame: an ESC, or one of the raw commands.
Raw(kind, n) == [kind |-> kind, call |-> n, seq |-> 0, op |-> None]

\* "M", the first byte of a frame, and the bytes that follow it.
Magic(n) == Raw("magic", n)
Rest(n, s, o) == [kind |-> "rest", call |-> n, seq |-> s, op |-> o]

\* A unit for the host that is no response frame.
Note(kind, n, bytes) ==
  [kind |-> kind, call |-> n, seq |-> 0, op |-> None, status |-> None,
   left |-> bytes]
Credit == Note("credit", 0, 1)

Response(n, s, o, st) ==
  [kind |-> "response", call |-> n, seq |-> s, op |-> o, status |-> st,
   left |-> FrameBytes]

(***************************************************************************)
(* What is left of the stream to the host when one byte of it was read, or *)
(* when the rest of a unit was cut off: the tail of a response is noise.   *)
(***************************************************************************)
AfterByte(q) ==
  IF Head(q).left = 1 THEN Tail(q)
  ELSE <<[Head(q) EXCEPT !.kind = "torn", !.left = @ - 1]>> \o Tail(q)

\* The stream is lossy at the receiver: the next unit never arrives.
LoseToAgent == toAgent # <<>> /\ toAgent' = Tail(toAgent) /\ UNCHANGED toHost
LoseToHost == toHost # <<>> /\ toHost' = Tail(toHost) /\ UNCHANGED toAgent

WireTypeOK == toAgent \in Seq(ToAgentUnit) /\ toHost \in Seq(ToHostUnit)
===============================================================================
