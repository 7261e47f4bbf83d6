------------------------------ MODULE FramedLink ------------------------------
(***************************************************************************)
(* A host session and the resident's framing, joined by the stream: every  *)
(* request a tool makes of a real MSX goes through this protocol.          *)
(*                                                                         *)
(* The environment may lose a unit in either direction, damage a frame,    *)
(* cut a response short, let a deadline pass while an answer is still on   *)
(* its way, and close the stream.  Each of these is a fault; FaultKinds    *)
(* says which ones a behaviour may have and MaxFaults how many.            *)
(***************************************************************************)
EXTENDS V3Host, FrameAgent

CONSTANTS
  Tcp,         \* TRUE: a TCP connection; FALSE: a serial line
  FaultKinds,  \* the faults a behaviour may have
  MaxFaults    \* and how many of them

ASSUME LinkAssumption == Tcp \in BOOLEAN /\ MaxFaults \in Nat

VARIABLES faults

vars == <<wireVars, hostVars, agentVars, faults>>

TypeOK == WireTypeOK /\ HostTypeOK /\ AgentTypeOK /\ faults \in 0 .. MaxFaults

Init ==
  /\ toAgent = <<>> /\ toHost = <<>>
  /\ HostInit
  /\ AgentInit
  /\ faults = 0

Fault(kind) ==
  kind \in FaultKinds /\ faults < MaxFaults /\ faults' = faults + 1

HostCalls(op) == StartCall(op) /\ UNCHANGED <<agentVars, faults>>
HostBoots == (Probe \/ Recover) /\ UNCHANGED <<agentVars, faults>>
HostHears == HostReads /\ UNCHANGED <<agentVars, faults>>
HostLosesStream == HostDisconnected /\ UNCHANGED <<agentVars, faults>>

\* No answer can come any more, whatever the host was waiting for.
Silent == toAgent = <<>> /\ toHost = <<>>

\* A deadline passes because nothing will come, or before what will come.
Deadline == IF Silent THEN UNCHANGED faults ELSE Fault("late")

HostGivesUp == HostTimeouts /\ Deadline /\ UNCHANGED agentVars
AgentStops == HookTimeout /\ Deadline /\ UNCHANGED hostVars

AgentHears == AgentReads /\ UNCHANGED <<hostVars, faults>>
AgentStumbles ==
  /\ \/ AgentCut /\ Fault("cut")
     \/ AgentRejectsCrc /\ Fault("damage")
  /\ UNCHANGED hostVars

Lose ==
  /\ LoseToAgent \/ LoseToHost
  /\ Fault("lose")
  /\ UNCHANGED <<hostVars, agentVars>>

\* A TCP peer goes away: nothing in flight survives and the agent forgets
\* the session before it listens again.
Disconnect ==
  /\ Tcp /\ connected
  /\ Fault("disconnect")
  /\ connected' = FALSE
  /\ toAgent' = <<>> /\ toHost' = <<>>
  /\ SessionReset
  /\ UNCHANGED <<phase, quarantined, bootVars, callVars>>

\* A fresh connection after a broken or a closed one.
Reconnect ==
  /\ Tcp
  /\ ~connected \/ quarantined \/ phase = "down"
  /\ ~InCall
  /\ Attach
  /\ toAgent' = <<>> /\ toHost' = <<>>
  /\ SessionReset
  /\ UNCHANGED faults

\* Another stream over the same serial line.  The agent notices nothing and
\* its late answers stay in flight; opening a line takes longer than a UART,
\* which has one receive register, can hold what the last host sent.  A host
\* may be restarted at any moment (a fault); the operator opens another
\* stream to get rid of a quarantine.
Reopen ==
  /\ ~Tcp
  /\ toAgent = <<>>
  /\ IF quarantined THEN UNCHANGED faults ELSE Fault("reopen")
  /\ Attach
  /\ UNCHANGED <<wireVars, agentVars>>

Next ==
  \/ \E op \in Ops : HostCalls(op)
  \/ HostBoots \/ HostHears \/ HostGivesUp \/ HostLosesStream
  \/ AgentHears \/ AgentStumbles \/ AgentStops
  \/ Lose \/ Disconnect \/ Reconnect \/ Reopen

Spec == Init /\ [][Next]_vars

(***************************************************************************)
(* The host and the agent run, deadlines pass, and the operator attaches   *)
(* again when a stream is broken or quarantined.  Nothing makes a caller   *)
(* call, a fault happen, or a fault stop happening but their bound.        *)
(***************************************************************************)
Fairness ==
  /\ WF_vars(HostHears) /\ WF_vars(HostGivesUp) /\ WF_vars(HostLosesStream)
  /\ WF_vars(AgentHears)
  /\ WF_vars(Probe /\ UNCHANGED <<agentVars, faults>>)
  /\ WF_vars((~connected \/ quarantined) /\ (Reconnect \/ Reopen))

FairSpec == Spec /\ Fairness

-------------------------------------------------------------------------------
(* Safety. *)

\* A call takes effect at most once, however often it was sent, whatever was
\* lost, and across rebootstraps and reconnections (the sequence and cache
\* rules of frame_receive, "at-most-once execution for every accepted
\* sequence").
AtMostOnce == \A c \in Calls : effects[c] <= 1

(***************************************************************************)
(* Why AtMostOnce holds: the inductive invariant its proof rests on.  The  *)
(* stream to the agent holds its units in the order of their calls, none   *)
(* older than the last call the agent accepted; whatever can end a session *)
(* is older than every frame behind it.  So a frame of the accepted call   *)
(* is only ever read in the session that accepted it, and recognised.      *)
(***************************************************************************)
EndsSession(u) == u.kind \in {"esc", "framed"}

Bounds ==
  /\ phase \in {"probe", "escape"} => credits < Escapes
  /\ InCall => issued \in Calls /\ callOp[issued] \in Ops

FramesAreNumbered ==
  \A i \in DOMAIN toAgent :
    toAgent[i].kind = "rest" => toAgent[i].seq = callSeq[toAgent[i].call]

StreamInOrder ==
  \A i, j \in DOMAIN toAgent :
    i < j =>
      /\ toAgent[i].call <= toAgent[j].call
      /\ EndsSession(toAgent[i]) /\ toAgent[j].kind = "rest"
           => toAgent[i].call < toAgent[j].call

NothingOlder ==
  /\ accepted <= issued
  /\ \A i \in DOMAIN toAgent :
       /\ accepted <= toAgent[i].call /\ toAgent[i].call <= issued
       /\ InCall /\ EndsSession(toAgent[i]) => toAgent[i].call < issued

Known(s) == lastReqValid /\ lastSeq = s

AcceptedIsKnown ==
  /\ \A i \in DOMAIN toAgent :
       toAgent[i].kind = "rest" /\ toAgent[i].call = accepted
         => Known(toAgent[i].seq)
  /\ InCall /\ connected /\ accepted = issued => Known(callSeq[issued])

EffectsBehind == \A c \in Calls : c > accepted => effects[c] = 0

AtMostOnceInv ==
  /\ TypeOK /\ Bounds
  /\ FramesAreNumbered /\ StreamInOrder /\ NothingOlder /\ AcceptedIsKnown
  /\ EffectsBehind /\ AtMostOnce

\* No late, duplicated or stale response passes validate_response for a call
\* it was not produced for, also when sequence numbers start again at zero.
AnswersOwnCall ==
  phase = "wait" /\ toHost # <<>> /\ Answers(Head(toHost))
    => Head(toHost).call = issued

\* The bytes behind a frame's "M" are only ever on their way to an agent that
\* parses frames: to a raw dispatcher they would be commands.
NoFrameToRawParser ==
  ~framed => \A i \in DOMAIN toAgent : toAgent[i].kind # "rest"

\* From the failure that quarantined an attachment until another stream is
\* attached, the host puts nothing on the wire: no retry, no resume, no
\* reconnect escape.
QuarantineIsSilent ==
  [][quarantined /\ quarantined' => Len(toAgent') <= Len(toAgent)]_vars

\* While a safe session is usable, both counters agree and nothing is left in
\* flight to the agent, so that the next request is the one it expects.
InStep ==
  phase = "idle" /\ connected /\ ~quarantined
    => framed /\ hostSeq = nextSeq /\ toAgent = <<>>

\* The session implements the at-most-once service: the caller is told the
\* truth.  A call reported done took effect exactly once, and one reported
\* rejected has not and never will.
Rpc == INSTANCE AtMostOnceRpc
         WITH op <- callOp, Effective <- Mutating
ImplementsRpc == Rpc!Spec

(***************************************************************************)
(* Why a safe session over TCP needs no correlation by luck: host and      *)
(* agent move in lockstep.  SafeProfile is the profile of a resident's TCP *)
(* attachment: no retransmission, and a call that failed quarantines it.   *)
(* LockStepInv, which the proofs of InStep, NoFrameToRawParser,            *)
(* AnswersOwnCall and ImplementsRpc rest on, says for every phase of a     *)
(* usable attachment what may be in flight.                                *)
(***************************************************************************)
SafeProfile ==
  /\ Tcp /\ Quarantine /\ Retries = 0
  /\ Modulus > 1
  /\ "damage" \notin FaultKinds

One(q, kinds) == Len(q) = 1 /\ q[1].kind \in kinds

\* At most one unit is in flight: a question, or its answer.
Lone(asks, answers) ==
  /\ toAgent # <<>> => One(toAgent, asks) /\ toHost = <<>>
  /\ toHost # <<>> => One(toHost, answers) /\ toAgent = <<>>

\* What a bootstrap that failed may leave behind: nothing a probe takes for
\* the answer to its escape.
DownStep ==
  /\ \A i \in DOMAIN toAgent : toAgent[i].kind \in {"hello", "features", "framed"}
  /\ \A i \in DOMAIN toHost : toHost[i].kind \notin {"refused", "credit"}

\* An escape is the last unit in flight, and so is its answer.
EscapeStep ==
  /\ \A i \in DOMAIN toAgent :
       /\ toAgent[i].kind \in {"hello", "features", "framed", "esc"}
       /\ toAgent[i].kind = "esc" => i = Len(toAgent)
  /\ \A i \in DOMAIN toHost :
       /\ toHost[i].kind = "refused" => i = Len(toHost) /\ toAgent = <<>>
       /\ toHost[i].kind = "credit" =>
            /\ toAgent = <<>>
            /\ i < Len(toHost) =>
                 i + 1 = Len(toHost) /\ toHost[i + 1].kind = "hello" /\ ~framed

HelloStep ==
  /\ Lone({"hello"}, {"hello"})
  /\ ~asked => toAgent = <<>>
  /\ toHost # <<>> => ~framed

FeaturesStep == Lone({"features"}, {"features"}) /\ ~framed

UpgradeStep ==
  /\ Lone({"framed"}, {"upgraded"})
  /\ toAgent # <<>> => ~framed
  /\ toHost # <<>> => framed /\ nextSeq = 0

IdleStep == framed /\ hostSeq = nextSeq /\ toAgent = <<>> /\ toHost = <<>>

WakeStep ==
  /\ Lone({"magic"}, {"credit"})
  /\ framed
  /\ nextSeq = callSeq[issued] /\ hostSeq = NextSequence(nextSeq)

\* The answer the host waits for says what became of its request.
Faithful(u) ==
  /\ u.call = issued /\ u.status \in Results
  /\ hostSeq = nextSeq
  /\ u.status = "OK" /\ callOp[issued] \in Mutating => effects[issued] = 1
  /\ u.status = "BAD_STATE" => effects[issued] = 0

WaitStep ==
  /\ Lone({"rest"}, {"response", "torn"})
  /\ framed
  /\ hostSeq = NextSequence(callSeq[issued])
  /\ toAgent # <<>> => nextSeq = callSeq[issued]
  /\ One(toHost, {"response"}) => Faithful(toHost[1])

PhaseStep ==
  /\ phase = "down" => DownStep
  /\ phase \in {"probe", "escape"} => EscapeStep
  /\ phase = "hello" => HelloStep
  /\ phase = "features" => FeaturesStep
  /\ phase = "upgrade" => UpgradeStep
  /\ phase = "idle" => IdleStep
  /\ phase = "wake" => WakeStep
  /\ phase = "wait" => WaitStep

\* A frame in flight is the request of the last call, whose caller was told
\* nothing yet that it could contradict.
FrameStep ==
  \A i \in DOMAIN toAgent :
    toAgent[i].kind = "rest" =>
      /\ Len(toAgent) = 1 /\ framed
      /\ toAgent[i].call = issued /\ toAgent[i].op = callOp[issued]
      /\ outcome[issued] \in {"pending", "unknown"}

CallsInOrder ==
  /\ \A c \in Calls : c > issued => outcome[c] = "none"
  /\ InCall => outcome[issued] = "pending" /\ attempt > Retries
  /\ lastReqValid => nextSeq = NextSequence(lastSeq)

LockStepInv ==
  /\ AtMostOnceInv
  /\ quarantined => phase \in {"down", "idle"}
  /\ ~connected => toAgent = <<>> /\ toHost = <<>>
  /\ connected /\ ~quarantined => PhaseStep
  /\ FrameStep /\ CallsInOrder

(* Liveness. *)

\* No request blocks its caller for ever, whatever the stream does.
CallsEnd == InCall ~> ~InCall

\* A quarantined attachment is not the end: attaching again leads to a usable
\* session, whatever stale bytes the stream still holds.
QuarantineIsLeft == quarantined ~> phase = "idle" /\ ~quarantined
===============================================================================
