-------------------------------- MODULE V3Host --------------------------------
(***************************************************************************)
(* The host's end of a framed session: V3Session (server/msx_v3.py) and    *)
(* the bootstrap, recovery and attachment of RealMSX that decide when a    *)
(* session exists and whether it may write (server/msx_real.py).           *)
(*                                                                         *)
(* A session is synchronous and holds one lock per request, so the host is *)
(* one process.  One action sends, or reads one unit, or stops waiting.    *)
(***************************************************************************)
EXTENDS Wire

CONSTANTS
  Retries,     \* retransmissions of a request after its first attempt
  Quarantine,  \* quarantine_on_transport_failure
  Escapes      \* length of RECONNECT_ESCAPE

ASSUME HostAssumption ==
  /\ Retries \in Nat
  /\ Quarantine \in BOOLEAN
  /\ Escapes \in Nat \ {0}

(***************************************************************************)
(* Phases.  "down": a stream and no session.  Bootstrap: "probe" one ESC   *)
(* was sent, "escape" more of them, "hello" the scan for HELLO, "features" *)
(* and "upgrade" the answers to N and F.  Session: "idle", "wake" an "M"   *)
(* was sent, "wait" the whole request was.                                 *)
(***************************************************************************)
Phases == {"down", "probe", "escape", "hello", "features", "upgrade",
           "idle", "wake", "wait"}

\* What request_frame made of a call.  "unknown": no verdict on its effect.
Outcomes == {"none", "pending", "ok", "rejected", "unknown"}

VARIABLES
  phase,
  connected,    \* FALSE once the peer or the network closed the stream
  quarantined,  \* write_quarantined of the attachment
  recovering,   \* the bootstrap is one of _rebootstrap_v3
  asked,        \* this bootstrap has asked for HELLO with "?"
  credits,      \* escapes of this bootstrap the agent has credited
  hostSeq,      \* SequenceCounter of the session
  issued,       \* number of calls made; the current or last call
  attempt,      \* attempt of the current call
  callOp,       \* opcode of each call
  callSeq,      \* sequence number of each call
  outcome       \* result of each call

bootVars == <<recovering, asked, credits>>
callVars == <<hostSeq, issued, attempt, callOp, callSeq, outcome>>
hostVars == <<phase, connected, quarantined, bootVars, callVars>>

HostTypeOK ==
  /\ phase \in Phases
  /\ connected \in BOOLEAN
  /\ quarantined \in BOOLEAN
  /\ recovering \in BOOLEAN
  /\ asked \in BOOLEAN
  /\ credits \in 0 .. Escapes
  /\ hostSeq \in Sequence
  /\ issued \in 0 .. MaxCalls
  /\ attempt \in 0 .. (Retries + 1)
  /\ callOp \in [Calls -> Ops \cup {None}]
  /\ callSeq \in [Calls -> Sequence]
  /\ outcome \in [Calls -> Outcomes]

\* attach_stream with a fresh stream.
HostInit ==
  /\ phase = "down"
  /\ connected = TRUE
  /\ quarantined = FALSE
  /\ recovering = FALSE
  /\ asked = FALSE
  /\ credits = 0
  /\ hostSeq = 0
  /\ issued = 0
  /\ attempt = 0
  /\ callOp = [c \in Calls |-> None]
  /\ callSeq = [c \in Calls |-> 0]
  /\ outcome = [c \in Calls |-> "none"]

Send(u) == toAgent' = Append(toAgent, u)
Sees(kind) == toHost # <<>> /\ Head(toHost).kind = kind
SeesOther(kind) == toHost # <<>> /\ Head(toHost).kind # kind

InCall == phase \in {"wake", "wait"}

-------------------------------------------------------------------------------
(* One request: request_frame under the session lock. *)

\* The lost verdict of a transport failure; a safe profile stops writing.
Fail ==
  /\ outcome' = [outcome EXCEPT ![issued] = "unknown"]
  /\ quarantined' = (quarantined \/ Quarantine)
  /\ phase' = "idle"
  /\ UNCHANGED <<connected, bootVars, hostSeq, issued, attempt, callOp, callSeq>>

\* Except after a transport failure the session stays usable.
Finish(result) ==
  /\ outcome' = [outcome EXCEPT ![issued] = result]
  /\ phase' = "idle"
  /\ UNCHANGED <<connected, quarantined, bootVars, hostSeq, issued, attempt,
                 callOp, callSeq>>

\* The next attempt repeats the identical request; the last one times out.
NextAttemptOrFail ==
  IF attempt <= Retries
    THEN /\ Send(Magic(issued))
         /\ attempt' = attempt + 1
         /\ phase' = "wake"
         /\ UNCHANGED <<connected, quarantined, bootVars, hostSeq, issued,
                        callOp, callSeq, outcome>>
    ELSE Fail /\ UNCHANGED toAgent

\* A call starts: take a sequence number and wake the agent's parser.
StartCall(op) ==
  /\ phase = "idle" /\ ~quarantined
  /\ issued < MaxCalls
  /\ issued' = issued + 1
  /\ attempt' = 1
  /\ callOp' = [callOp EXCEPT ![issued + 1] = op]
  /\ callSeq' = [callSeq EXCEPT ![issued + 1] = hostSeq]
  /\ outcome' = [outcome EXCEPT ![issued + 1] = "pending"]
  /\ hostSeq' = NextSequence(hostSeq)
  /\ phase' = "wake"
  /\ IF connected THEN Send(Magic(issued + 1)) ELSE UNCHANGED toAgent
  /\ UNCHANGED <<toHost, connected, quarantined, bootVars>>

\* _wait_for_frame_wake_ack: one byte, which must be the credit.
WakeCredited ==
  /\ phase = "wake" /\ connected
  /\ Sees("credit")
  /\ toHost' = Tail(toHost)
  /\ Send(Rest(issued, callSeq[issued], callOp[issued]))
  /\ phase' = "wait"
  /\ UNCHANGED <<connected, quarantined, bootVars, callVars>>

\* Any other byte ends the attempt at once; the bytes behind it stay unread.
WakeMismatch ==
  /\ phase = "wake" /\ connected
  /\ SeesOther("credit")
  /\ toHost' = AfterByte(toHost)
  /\ NextAttemptOrFail

WakeTimeout ==
  /\ phase = "wake" /\ connected
  /\ NextAttemptOrFail
  /\ UNCHANGED toHost

\* Mutant of Answers: a response is correlated by its opcode alone.
AnswersByOpcode(u) == u.kind = "response" /\ u.op = callOp[issued]

\* validate_response: kind, opcode and sequence number.
Answers(u) ==
  /\ u.kind = "response"
  /\ u.seq = callSeq[issued] /\ u.op = callOp[issued]

\* _route_frames: what does not answer the request is noise or an orphan.
DiscardUnit ==
  /\ phase = "wait" /\ connected
  /\ toHost # <<>> /\ ~Answers(Head(toHost))
  /\ toHost' = Tail(toHost)
  /\ UNCHANGED <<toAgent, hostVars>>

\* Mutant of Verdict: what is no refusal counts as done.
LenientVerdict(st) == IF st \in {"BAD_STATE", "BAD_ARG"} THEN "rejected" ELSE "ok"

\* _successful and the errors its callers make of the other statuses.
Verdict(st) ==
  CASE st = "OK" -> "ok"
    [] st \in {"BAD_STATE", "BAD_ARG"} -> "rejected"
    [] OTHER -> "unknown"

\* A correlated response ends the call, unless the agent saw a bad CRC.
ReadAnswer ==
  /\ phase = "wait" /\ connected
  /\ toHost # <<>> /\ Answers(Head(toHost))
  /\ toHost' = Tail(toHost)
  /\ IF Head(toHost).status = "CRC_ERROR" /\ attempt <= Retries
       THEN NextAttemptOrFail
       ELSE Finish(Verdict(Head(toHost).status)) /\ UNCHANGED toAgent

\* Mutant of WaitTimeout: the deadline is only looked at when bytes arrive.
WaitTimeoutOnBytes ==
  /\ phase = "wait" /\ connected
  /\ toHost # <<>>
  /\ toHost' = AfterByte(toHost)
  /\ NextAttemptOrFail

\* The deadline; finish() throws away the part of a response it has read.
WaitTimeout ==
  /\ phase = "wait" /\ connected
  /\ toHost' \in {toHost} \cup (IF toHost = <<>> THEN {} ELSE {AfterByte(toHost)})
  /\ NextAttemptOrFail

\* recv returns no bytes, or sendall fails.
CallDisconnected ==
  /\ InCall /\ ~connected
  /\ Fail
  /\ UNCHANGED wireVars

-------------------------------------------------------------------------------
(* Bootstrap and recovery. *)

BootFails(stop) ==
  /\ phase' = "down"
  /\ quarantined' = (quarantined \/ stop)
  /\ UNCHANGED <<connected, bootVars, callVars>>

\* A failed bootstrap or recovery escape quarantines the attachment; a
\* failure behind it does not, and neither does a recovery's HELLO scan.
StopsWrites ==
  \/ phase \in {"probe", "escape"}
  \/ phase = "hello" /\ ~recovering

\* _bootstrap_hello: release a single ESC and wait for its answer.
Probe ==
  /\ phase = "down" /\ connected /\ ~quarantined
  /\ Send(Raw("esc", issued))
  /\ phase' = "probe"
  /\ recovering' = FALSE /\ asked' = FALSE /\ credits' = 0
  /\ UNCHANGED <<toHost, connected, quarantined, callVars>>

\* Mutant of Recover: the recovery does not ask write_quarantined.
RecoverAnyway ==
  /\ phase = "idle" /\ connected
  /\ toHost' = <<>>
  /\ Send(Raw("esc", issued))
  /\ phase' = "escape"
  /\ recovering' = TRUE /\ asked' = FALSE /\ credits' = 0
  /\ UNCHANGED <<connected, quarantined, callVars>>

\* _rebootstrap_v3: discard what has arrived, drop the session, escape.
Recover ==
  /\ phase = "idle" /\ connected /\ ~quarantined
  /\ toHost' = <<>>
  /\ Send(Raw("esc", issued))
  /\ phase' = "escape"
  /\ recovering' = TRUE /\ asked' = FALSE /\ credits' = 0
  /\ UNCHANGED <<connected, quarantined, callVars>>

\* "E,1": the agent is in raw mode and will answer "?".
ProbeRefused ==
  /\ phase = "probe" /\ connected
  /\ Sees("refused")
  /\ toHost' = Tail(toHost)
  /\ Send(Raw("hello", issued))
  /\ phase' = "hello"
  /\ asked' = TRUE
  /\ UNCHANGED <<connected, quarantined, recovering, credits, callVars>>

\* Every credited escape releases the next one, and the last one the scan.
EscapeCredited ==
  /\ phase \in {"probe", "escape"} /\ connected
  /\ Sees("credit")
  /\ toHost' = Tail(toHost)
  /\ credits' = credits + 1
  /\ IF credits + 1 < Escapes
       THEN Send(Raw("esc", issued)) /\ phase' = "escape"
       ELSE UNCHANGED toAgent /\ phase' = "hello"
  /\ UNCHANGED <<connected, quarantined, recovering, asked, callVars>>

\* _scan_bootstrap_hello skips noise up to HELLO; then N is sent.
SkipToHello ==
  /\ phase = "hello" /\ connected
  /\ SeesOther("hello")
  /\ toHost' = Tail(toHost)
  /\ UNCHANGED <<toAgent, hostVars>>

ReadHello ==
  /\ phase = "hello" /\ connected
  /\ Sees("hello")
  /\ toHost' = Tail(toHost)
  /\ Send(Raw("features", issued))
  /\ phase' = "features"
  /\ UNCHANGED <<connected, quarantined, bootVars, callVars>>

\* A recovery whose HELLO was lost drains the stream and asks for another.
AskHello ==
  /\ phase = "hello" /\ connected /\ recovering /\ ~asked
  /\ toHost' = <<>>
  /\ Send(Raw("hello", issued))
  /\ asked' = TRUE
  /\ UNCHANGED <<phase, connected, quarantined, recovering, credits, callVars>>

ReadFeatures ==
  /\ phase = "features" /\ connected
  /\ Sees("features")
  /\ toHost' = Tail(toHost)
  /\ Send(Raw("framed", issued))
  /\ phase' = "upgrade"
  /\ UNCHANGED <<connected, quarantined, bootVars, callVars>>

\* Mutant of SessionStarts: the new session goes on counting.
SessionKeepsCounting ==
  /\ phase = "upgrade" /\ connected
  /\ Sees("upgraded")
  /\ toHost' = Tail(toHost)
  /\ phase' = "idle"
  /\ UNCHANGED <<toAgent, connected, quarantined, bootVars, callVars>>

\* K,3: a new V3Session, which counts its requests from zero.
SessionStarts ==
  /\ phase = "upgrade" /\ connected
  /\ Sees("upgraded")
  /\ toHost' = Tail(toHost)
  /\ phase' = "idle"
  /\ hostSeq' = 0
  /\ UNCHANGED <<toAgent, connected, quarantined, bootVars, issued, attempt,
                 callOp, callSeq, outcome>>

Expected ==
  CASE phase = "probe"    -> {"refused", "credit"}
    [] phase = "escape"   -> {"credit"}
    [] phase = "features" -> {"features"}
    [] phase = "upgrade"  -> {"upgraded"}
    [] OTHER              -> {}

\* An answer the bootstrap does not expect ends it.
BootMismatch ==
  /\ phase \in {"probe", "escape", "features", "upgrade"} /\ connected
  /\ toHost # <<>> /\ Head(toHost).kind \notin Expected
  /\ toHost' = AfterByte(toHost)
  /\ BootFails(StopsWrites)
  /\ UNCHANGED toAgent

\* So does silence, except for the one question of a recovery.
BootTimeout ==
  /\ phase \in {"probe", "escape", "hello", "features", "upgrade"} /\ connected
  /\ phase = "hello" => ~recovering \/ asked
  /\ BootFails(StopsWrites)
  /\ UNCHANGED wireVars

BootDisconnected ==
  /\ phase \in {"probe", "escape", "hello", "features", "upgrade"}
  /\ ~connected
  /\ BootFails(StopsWrites)
  /\ UNCHANGED wireVars

-------------------------------------------------------------------------------
\* Mutant of Attach: the quarantine outlives the attachment.
AttachQuarantined ==
  /\ phase' = "down"
  /\ connected' = TRUE
  /\ recovering' = FALSE /\ asked' = FALSE /\ credits' = 0
  /\ outcome' = IF InCall THEN [outcome EXCEPT ![issued] = "unknown"]
                          ELSE outcome
  /\ UNCHANGED <<quarantined, hostSeq, issued, attempt, callOp, callSeq>>

(***************************************************************************)
(* The operator, or a restarted host process, closes the attachment and    *)
(* attaches another stream; only that lifts a quarantine.  A call that was *)
(* under way stays without a verdict.                                      *)
(***************************************************************************)
Attach ==
  /\ phase' = "down"
  /\ connected' = TRUE
  /\ quarantined' = FALSE
  /\ recovering' = FALSE /\ asked' = FALSE /\ credits' = 0
  /\ outcome' = IF InCall THEN [outcome EXCEPT ![issued] = "unknown"]
                          ELSE outcome
  /\ UNCHANGED <<hostSeq, issued, attempt, callOp, callSeq>>

HostReads ==
  \/ WakeCredited \/ WakeMismatch \/ DiscardUnit \/ ReadAnswer
  \/ ProbeRefused \/ EscapeCredited \/ SkipToHello \/ ReadHello
  \/ ReadFeatures \/ SessionStarts \/ BootMismatch

HostTimeouts == WakeTimeout \/ WaitTimeout \/ AskHello \/ BootTimeout

HostDisconnected == CallDisconnected \/ BootDisconnected
===============================================================================
