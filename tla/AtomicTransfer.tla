----------------------------- MODULE AtomicTransfer -----------------------------
(***************************************************************************)
(* What a PUT promises of the target's name on the MSX, and a GET of the   *)
(* destination's on the host, whatever fails between: the name holds       *)
(* nothing, or somebody else's file that is never touched, or the whole    *)
(* file; and a transfer that was reported complete left it whole.          *)
(***************************************************************************)
VARIABLES
  target,   \* "absent", "foreign", "whole" or, never, "damaged"
  reported  \* some put_file or get_file returned the name

Init == target \in {"absent", "foreign"} /\ reported = FALSE

\* Somebody else, while no transfer runs.
Intrude == target = "absent" /\ target' = "foreign" /\ UNCHANGED reported

Publish == target = "absent" /\ target' = "whole" /\ UNCHANGED reported

Report == target = "whole" /\ reported' = TRUE /\ UNCHANGED target

Next == Intrude \/ Publish \/ Report

vars == <<target, reported>>

Spec == Init /\ [][Next]_vars
===============================================================================
