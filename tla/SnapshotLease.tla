----------------------------- MODULE SnapshotLease -----------------------------
(***************************************************************************)
(* Atomic captures of a running program: the host's snapshot_lease         *)
(* (server/msx_real.py) and the bounded pause of the resident              *)
(* (agent/msx_agent_core.asm), under the safe profile.  The host makes one *)
(* call at a time; a call without an answer quarantines the attachment.    *)
(* A lease is counted in silent receive timeouts of the resident.          *)
(***************************************************************************)
EXTENDS Naturals

CONSTANTS
  None,
  Lines,        \* subset of {"tcp", "serial"}
  Lease,        \* SNAPSHOT_LEASE_TIMEOUTS
  Attempts,     \* SNAPSHOT_PAUSE_ATTEMPTS, and of the recovery
  Reads,        \* calls of one capture
  MaxCaptures,  \* captures and closes that a behaviour may begin
  FaultKinds,   \* subset of {"late", "damage", "cut", "error", "crash"}
  MaxFaults

ASSUME LeaseAssumption ==
  /\ Lines \subseteq {"tcp", "serial"}
  /\ Lease \in Nat \ {0} /\ Attempts \in Nat \ {0} /\ Reads \in Nat \ {0}
  /\ MaxCaptures \in Nat /\ MaxFaults \in Nat
  /\ None \notin {"status", "S", "read", "g", "boot",
                  "ok", "refused", "running", "paused"}

VARIABLES
  host,       \* the capture in progress, and _snapshot_pause_owned
  link,       \* the attachment: "up", "quarantined", "closed", "listening"
  call, rsp,  \* request the agent has not read, and its answer
  agent,      \* run_state, snapshot_lease, whether sequence numbers agree
  line,       \* the kind of stream
  captures, faults,
  \* History, which guards nothing:
  mark,       \* what the program did since the first read of the capture
  inherited,  \* the pause was there when the host attached
  out         \* the last capture that was delivered

vars == <<host, link, call, rsp, agent, line, captures, faults, mark,
          inherited, out>>
agentVars == <<agent, mark, inherited>>

Idle == [pc |-> "idle", owned |-> FALSE, try |-> 0, reads |-> 0,
         leased |-> FALSE, after |-> "fail", framed |-> TRUE]
Steps == {"probe", "pause", "verify", "read", "final", "resume", "boot",
          "check", "release", "recheck", "leave", "reask", "leaving"}

\* The variables have their types, and a lease runs exactly during a pause.
TypeOK ==
  /\ host \in [pc : Steps \cup {"idle"}, owned : BOOLEAN,
               try : 0 .. Attempts, reads : 0 .. Reads, leased : BOOLEAN,
               after : {"fail", "deliver", "close"}, framed : BOOLEAN]
  /\ link \in {"up", "quarantined", "closed", "listening"}
  /\ agent \in [run : {"running", "paused"}, lease : 0 .. Lease,
                inStep : BOOLEAN]
  /\ agent.lease > 0 <=> agent.run = "paused"
  /\ mark \in {"none", "held", "ran", "mixed"}
  /\ captures \in 0 .. MaxCaptures /\ faults \in 0 .. MaxFaults

Init ==
  /\ host = Idle /\ link = "up" /\ call = None /\ rsp = None
  /\ agent = [run |-> "running", lease |-> 0, inStep |-> TRUE]
  /\ line \in Lines
  /\ captures = 0 /\ faults = 0
  /\ mark = "none" /\ inherited = FALSE /\ out = None

Fault(kind) ==
  kind \in FaultKinds /\ faults < MaxFaults /\ faults' = faults + 1

----------------------------------------------------------------------------
\* The agent.

\* Mutant: the lease runs on.
ResumesLeased ==
  /\ agent' = [agent EXCEPT !.run = "running"]
  /\ mark' = IF mark = "held" THEN "ran" ELSE mark
  /\ inherited' = FALSE

\* The program runs again.
Resumes ==
  /\ agent' = [agent EXCEPT !.run = "running", !.lease = 0]
  /\ mark' = IF mark = "held" THEN "ran" ELSE mark
  /\ inherited' = FALSE

\* Traffic renews a bounded pause.
Renewed(a) == IF a.run = "paused" THEN [a EXCEPT !.lease = Lease] ELSE a

Hears(op) == call = op /\ agent.inStep
Replies(r) ==
  /\ rsp' = (IF link = "up" THEN r ELSE None)
  /\ call' = None
  /\ UNCHANGED <<host, link, line, captures, faults, out>>

ServeStatus ==
  /\ Hears("status")
  /\ agent' = Renewed(agent)
  /\ Replies(agent.run)
  /\ UNCHANGED <<mark, inherited>>

\* A stale read of an abandoned capture belongs to no capture.
ServeRead ==
  /\ Hears("read")
  /\ agent' = Renewed(agent)
  /\ Replies("ok")
  /\ mark' = IF link # "up" THEN mark
             ELSE IF agent.run = "paused" /\ mark \in {"none", "held"}
               THEN "held" ELSE "mixed"
  /\ UNCHANGED inherited

\* The pause begins after its answer was sent.
ServePause ==
  /\ Hears("S") /\ agent.run = "running"
  /\ agent' = [agent EXCEPT !.run = "paused", !.lease = Lease]
  /\ Replies("ok")
  /\ UNCHANGED <<mark, inherited>>

ServeResume ==
  Hears("g") /\ agent.run = "paused" /\ Resumes /\ Replies("ok")

\* A reconnect escape and the raw handshake: a new session, the same pause.
ServeBoot ==
  /\ call = "boot"
  /\ agent' = [Renewed(agent) EXCEPT !.inStep = TRUE]
  /\ Replies("ok")
  /\ UNCHANGED <<mark, inherited>>

\* BAD_STATE, or BAD_ARG while the sequence numbers disagree.
Refuse ==
  /\ call \notin {None, "boot"}
  /\ \/ ~agent.inStep
     \/ call = "S" /\ agent.run = "paused"
     \/ call = "g" /\ agent.run = "running"
  /\ agent' = Renewed(agent)
  /\ Replies("refused")
  /\ UNCHANGED <<mark, inherited>>

\* A damaged request is refused before its number is accepted.
Damage ==
  /\ call \notin {None, "boot"} /\ link = "up"
  /\ Fault("damage")
  /\ agent' = [Renewed(agent) EXCEPT !.inStep = FALSE]
  /\ rsp' = "refused" /\ call' = None
  /\ UNCHANGED <<host, link, line, captures, out, mark, inherited>>

\* Mutant: every timeout starts the lease again.
TimedOutForever ==
  IF agent.lease = 0 THEN Resumes
  ELSE agent' = Renewed(agent) /\ UNCHANGED <<mark, inherited>>

\* A timeout of the pause takes one unit; the last one resumes the program.
TimedOut ==
  IF agent.lease = 1 THEN Resumes
  ELSE agent' = [agent EXCEPT !.lease = @ - 1] /\ UNCHANGED <<mark, inherited>>

Expire ==
  /\ agent.run = "paused"
  /\ TimedOut
  /\ UNCHANGED <<host, link, call, rsp, line, captures, faults, out>>

\* The answer stops half way: a pause that waited for it does not begin, a
\* resume wins.  A buffered stream is then given up, with its session.
Cut ==
  /\ call # None
  /\ Fault("cut")
  /\ call' = None
  /\ CASE line = "tcp" \/ (Hears("g") /\ agent.run = "paused") -> Resumes
       [] OTHER -> IF agent.run = "paused" THEN TimedOut ELSE UNCHANGED agentVars
  /\ link' = IF line = "tcp" /\ link = "up" THEN "quarantined" ELSE link
  /\ host' = IF line = "tcp" /\ link = "up" THEN Idle ELSE host
  /\ UNCHANGED <<rsp, line, captures, out>>

\* A closed connection ends the session, and its pause, before the next
\* listener opens.
SessionLost ==
  /\ line = "tcp" /\ link = "closed"
  /\ link' = "listening" /\ call' = None
  /\ Resumes
  /\ UNCHANGED <<host, rsp, line, captures, faults, out>>

Serve ==
  ServeStatus \/ ServeRead \/ ServePause \/ ServeResume \/ ServeBoot \/ Refuse

----------------------------------------------------------------------------
\* The host.

Sends(pc) ==
  CASE pc \in {"probe", "verify", "final", "check", "recheck", "leave",
             "reask"} -> "status"
    [] pc = "pause" -> "S"
    [] pc = "read" -> "read"
    [] pc \in {"resume", "release", "leaving"} -> "g"
    [] pc = "boot" -> "boot"
    [] OTHER -> None

HostKeeps == UNCHANGED <<agentVars, line, captures, faults, link>>

GoesOn(h) ==
  host' = h /\ call' = Sends(h.pc) /\ rsp' = None /\ UNCHANGED out /\ HostKeeps

At(h, pc) == [h EXCEPT !.pc = pc]
Replied(pc) == host.pc = pc /\ rsp # None

\* The context ends; a close closes the stream whatever happened before.
Ends(h) ==
  /\ host' = [Idle EXCEPT !.owned = h.owned /\ h.after # "close"]
  /\ call' = None /\ rsp' = None
  /\ link' = IF h.after = "close" THEN "closed" ELSE link
  /\ out' = IF h.after = "deliver" THEN [leased |-> h.leased, mark |-> mark]
            ELSE out
  /\ UNCHANGED <<agentVars, line, captures, faults>>

Released(h) == Ends([h EXCEPT !.owned = FALSE])

\* An error inside the context: an owned pause is released first.
CleansUp(h) ==
  IF h.owned THEN GoesOn([h EXCEPT !.pc = "resume", !.after = "fail"])
             ELSE Ends([h EXCEPT !.after = "fail"])

\* A pause that still requires cleanup refuses the next capture.
Capture ==
  /\ host.pc = "idle" /\ link = "up" /\ ~host.owned
  /\ captures < MaxCaptures
  /\ captures' = captures + 1
  /\ host' = At(Idle, "probe") /\ call' = "status" /\ rsp' = None
  /\ mark' = "none" /\ out' = None
  /\ UNCHANGED <<agent, inherited, link, line, faults>>

\* The capture keeps a pause that is there and acquires one if none is,
\* which it owns before S is sent.
GotProbe ==
  /\ Replied("probe")
  /\ CASE rsp = "paused" -> GoesOn(At(host, "read"))
       [] rsp = "running" ->
            GoesOn([host EXCEPT !.pc = "pause", !.owned = TRUE, !.try = 1])
       [] OTHER -> Ends(host)

GotPause ==
  /\ Replied("pause")
  /\ IF rsp = "ok" THEN GoesOn(At(host, "verify")) ELSE CleansUp(host)

\* A lease that has already expired needs a fresh S.
GotVerify ==
  /\ Replied("verify")
  /\ CASE rsp = "paused" ->
            GoesOn([host EXCEPT !.pc = "read", !.leased = TRUE])
       [] rsp = "running" /\ host.try < Attempts ->
            GoesOn([host EXCEPT !.pc = "pause", !.try = @ + 1])
       [] rsp = "running" /\ host.try = Attempts -> Released(host)
       [] OTHER -> CleansUp(host)

AfterReads(h) ==
  IF h.reads < Reads THEN GoesOn(At(h, "read"))
  ELSE IF h.leased THEN GoesOn(At(h, "final"))
  ELSE Ends([h EXCEPT !.after = "deliver"])

GotRead ==
  /\ Replied("read")
  /\ IF rsp = "ok" THEN AfterReads([host EXCEPT !.reads = @ + 1])
                   ELSE CleansUp(host)

\* The body of the context raises, or is cancelled.
BodyFails ==
  /\ Replied("read")
  /\ Fault("error")
  /\ IF host.owned
       THEN /\ host' = At(host, "resume") /\ call' = "g"
       ELSE /\ host' = Idle /\ call' = None
  /\ rsp' = None
  /\ UNCHANGED <<agentVars, line, captures, link, out>>

\* Mutant: the lease is not verified at the end.
FinalUnverified ==
  Replied("final") /\ GoesOn([host EXCEPT !.pc = "resume", !.after = "deliver"])

\* An expired lease discards the capture.
GotFinal ==
  /\ Replied("final")
  /\ CASE rsp = "paused" ->
            GoesOn([host EXCEPT !.pc = "resume", !.after = "deliver"])
       [] rsp = "running" -> Released(host)
       [] OTHER -> CleansUp(host)

\* Mutant: a refused resume counts as one that was not needed.
ResumeAssumed == Replied("resume") /\ Released(host)

\* _resume_snapshot_pause: a direct g, and if it is refused two recoveries.
GotResume ==
  /\ Replied("resume")
  /\ IF rsp = "ok" THEN Released(host)
       ELSE GoesOn([host EXCEPT !.pc = "boot", !.try = 1])

RecoveryFails(h) ==
  IF h.try < Attempts THEN GoesOn([h EXCEPT !.pc = "boot", !.try = @ + 1])
  ELSE Ends([h EXCEPT !.after = IF @ = "deliver" THEN "fail" ELSE @])

GotBoot ==
  Replied("boot") /\ GoesOn([host EXCEPT !.pc = "check", !.framed = TRUE])

GotCheck ==
  /\ Replied("check")
  /\ CASE rsp = "running" -> Released(host)
       [] rsp = "paused" -> GoesOn(At(host, "release"))
       [] OTHER -> RecoveryFails(host)

GotRelease ==
  /\ Replied("release")
  /\ IF rsp = "ok" THEN GoesOn(At(host, "recheck")) ELSE RecoveryFails(host)

GotRecheck ==
  /\ Replied("recheck")
  /\ IF rsp = "running" THEN Released(host) ELSE RecoveryFails(host)

\* disconnect_agent: resume a paused target, then close.  The escapes of a
\* failed recovery are read before what follows them.
Leave ==
  /\ host.pc = "idle" /\ link = "up" /\ captures < MaxCaptures /\ call = None
  /\ captures' = captures + 1
  /\ host' = [host EXCEPT !.pc = "leave", !.after = "close"]
  /\ call' = "status" /\ rsp' = None
  /\ UNCHANGED <<agentVars, link, line, faults, out>>

\* Without a framed session there is nothing to send a direct g on.
Closes(h) ==
  IF ~h.owned THEN Ends(h)
  ELSE IF h.framed THEN GoesOn(At(h, "resume"))
  ELSE GoesOn([h EXCEPT !.pc = "boot", !.try = 1])

GotLeave ==
  /\ Replied("leave")
  /\ IF rsp = "paused" THEN GoesOn(At(host, "reask")) ELSE Closes(host)

\* resume asks for the state itself before it sends g.
GotReask ==
  /\ Replied("reask")
  /\ IF rsp = "paused" THEN GoesOn(At(host, "leaving")) ELSE Closes(host)

GotLeaving == Replied("leaving") /\ Closes(host)

\* With a request or its answer under way the deadline is early.
Deadline == IF call = None /\ rsp = None THEN UNCHANGED faults ELSE Fault("late")

\* No answer before the deadline: quarantine, and no byte more.
GiveUp ==
  /\ host.pc # "idle"
  /\ Deadline
  /\ host' = Idle
  /\ link' = IF host.after = "close" THEN "closed" ELSE "quarantined"
  /\ rsp' = None
  /\ UNCHANGED <<agentVars, line, captures, out, call>>

\* Behind the escapes there is no session that a failure would quarantine.
BootLost ==
  /\ host.pc = "boot"
  /\ Deadline
  /\ rsp' = None /\ UNCHANGED <<agentVars, line, captures, out>>
  /\ IF host.try < Attempts
       THEN /\ host' = [host EXCEPT !.try = @ + 1, !.framed = FALSE]
            /\ call' = "boot" /\ UNCHANGED link
       ELSE /\ host' = [Idle EXCEPT !.owned = host.after # "close",
                                 !.framed = FALSE]
            /\ link' = IF host.after = "close" THEN "closed" ELSE link
            /\ UNCHANGED call

Detach ==
  /\ host.pc = "idle" /\ link = "quarantined"
  /\ link' = "closed"
  /\ UNCHANGED <<host, call, rsp, agentVars, line, captures, faults, out>>

\* The host's process ends.
Crash ==
  /\ link \in {"up", "quarantined"}
  /\ Fault("crash")
  /\ host' = Idle /\ link' = "closed" /\ rsp' = None
  /\ UNCHANGED <<agentVars, line, captures, out, call>>

\* A new attachment: what was under way is read before its escapes, or lost.
Attach ==
  /\ link = IF line = "tcp" THEN "listening" ELSE "closed"
  /\ link' = "up" /\ call' = None
  /\ agent' = [Renewed(agent) EXCEPT !.inStep = TRUE]
  /\ inherited' = (agent.run = "paused")
  /\ UNCHANGED <<host, rsp, line, captures, faults, mark, out>>

HostSteps ==
  \/ GotProbe \/ GotPause \/ GotVerify \/ GotRead \/ GotFinal
  \/ GotResume \/ GotBoot \/ GotCheck \/ GotRelease \/ GotRecheck
  \/ GotLeave \/ GotReask \/ GotLeaving

Next ==
  \/ Capture \/ Leave \/ HostSteps \/ BodyFails \/ GiveUp \/ BootLost
  \/ Detach \/ Crash \/ Attach
  \/ Serve \/ Damage \/ Cut \/ Expire \/ SessionLost

Spec == Init /\ [][Next]_vars

\* The host acts on answers and keeps its deadlines, the resident serves what
\* arrives, and when the host is silent its receive timeouts go by.
Silence == host.pc = "idle" \/ link # "up"
Fairness ==
  /\ WF_vars(HostSteps)
  /\ WF_vars(GiveUp /\ call = None /\ rsp = None)
  /\ WF_vars(Serve)
  /\ WF_vars(Expire /\ Silence)

FairSpec == Spec /\ Fairness

----------------------------------------------------------------------------
\* Properties.

\* A capture under a lease of its own is one moment of the program: it did
\* not run between the first read and the last.
LeasedCaptureIsAtomic == out # None /\ out.leased => out.mark # "mixed"

\* Its strengthening.  Until the first read nothing is marked; while the own
\* lease is read under, a paused program has not run since; what was verified
\* stays verified, for no read follows.
Cleanup == {"resume", "boot", "check", "release", "recheck"}
CaptureInv ==
  /\ host.pc \in {"probe", "pause", "verify", "read"} => host.reads < Reads
  /\ host.pc # "idle" => link = "up"
  /\ link = "up" => call \in {None, "boot", Sends(host.pc)}
  /\ host.pc \in {"probe", "pause", "verify"} => mark = "none"
  /\ host.leased /\ host.pc \in {"read", "final"} /\ agent.run = "paused"
       => mark \in {"none", "held"}
  /\ host.leased /\ host.pc = "final" /\ rsp = "paused" => mark # "mixed"
  /\ host.after = "deliver"
       => host.pc \in Cleanup /\ (host.leased => mark # "mixed")
  /\ LeasedCaptureIsAtomic

\* Every capture that asked for atomicity is: TECHNICAL.md:1123 has the helper
\* verify "that the lease remained active through acquisition; an expired or
\* otherwise uncertain capture is discarded".  It does not hold.
CaptureIsAtomic == out # None => out.mark # "mixed"

\* A context that ends on a usable attachment, and with nothing left to clean
\* up, leaves the program running, unless it was paused before the host came.
PauseIsOwned ==
  host.pc = "idle" /\ link = "up" /\ ~host.owned /\ call = None
    => agent.run = "running" \/ inherited

\* No failure of the host or the stream leaves the program paused.
TargetResumes == agent.run = "paused" ~> agent.run = "running"
===============================================================================
