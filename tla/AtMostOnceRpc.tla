----------------------------- MODULE AtMostOnceRpc -----------------------------
(***************************************************************************)
(* What a framed session promises its caller, whatever the stream does: a  *)
(* call takes effect at most once; it is reported done only if it did, and *)
(* rejected only if it did not and never will.  A call without a verdict   *)
(* ("unknown") may or may not take effect, even after the caller gave up.  *)
(***************************************************************************)
EXTENDS Naturals

CONSTANTS Calls, Effective  \* calls, and the opcodes that have an effect

VARIABLES op, outcome, effects

vars == <<op, outcome, effects>>

Init ==
  /\ op = [c \in Calls |-> "none"]
  /\ outcome = [c \in Calls |-> "none"]
  /\ effects = [c \in Calls |-> 0]

Issue(c, o) ==
  /\ outcome[c] = "none"
  /\ op' = [op EXCEPT ![c] = o]
  /\ outcome' = [outcome EXCEPT ![c] = "pending"]
  /\ UNCHANGED effects

TakeEffect(c) ==
  /\ outcome[c] \in {"pending", "unknown"}
  /\ op[c] \in Effective
  /\ effects[c] = 0
  /\ effects' = [effects EXCEPT ![c] = 1]
  /\ UNCHANGED <<op, outcome>>

ReportDone(c) ==
  /\ outcome[c] = "pending"
  /\ op[c] \in Effective => effects[c] = 1
  /\ outcome' = [outcome EXCEPT ![c] = "ok"]
  /\ UNCHANGED <<op, effects>>

Reject(c) ==
  /\ outcome[c] = "pending"
  /\ effects[c] = 0
  /\ outcome' = [outcome EXCEPT ![c] = "rejected"]
  /\ UNCHANGED <<op, effects>>

GiveUp(c) ==
  /\ outcome[c] = "pending"
  /\ outcome' = [outcome EXCEPT ![c] = "unknown"]
  /\ UNCHANGED <<op, effects>>

Next ==
  \E c \in Calls :
    \/ \E o \in {"write", "read", "post"} : Issue(c, o)
    \/ TakeEffect(c) \/ ReportDone(c) \/ Reject(c) \/ GiveUp(c)

Spec == Init /\ [][Next]_vars
===============================================================================
