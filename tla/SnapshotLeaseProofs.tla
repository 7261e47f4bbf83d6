-------------------------- MODULE SnapshotLeaseProofs --------------------------
(***************************************************************************)
(* Proofs about SnapshotLease, for every lease, number of reads, captures  *)
(* and faults, on both kinds of line.                                      *)
(***************************************************************************)
EXTENDS SnapshotLease, TLAPS

USE LeaseAssumption

HostType == [pc : Steps \cup {"idle"}, owned : BOOLEAN,
             try : 0 .. Attempts, reads : 0 .. Reads, leased : BOOLEAN,
             after : {"fail", "deliver", "close"}, framed : BOOLEAN]

(***************************************************************************)
(* The two ways in which the host's state changes keep its type.           *)
(***************************************************************************)
LEMMA TryType ==
  /\ 1 \in 0 .. Attempts
  /\ \A t \in 0 .. Attempts : t < Attempts => t + 1 \in 0 .. Attempts
OBVIOUS

LEMMA IdleType == Idle \in HostType
BY DEF Idle, HostType

LEMMA GoesOnType ==
  ASSUME TypeOK, NEW h \in HostType, GoesOn(h)
  PROVE  TypeOK'
BY DEF TypeOK, HostType, GoesOn, HostKeeps, agentVars

LEMMA EndsType ==
  ASSUME TypeOK, NEW h \in HostType, Ends(h)
  PROVE  TypeOK'
<1>1. host' \in HostType
  BY IdleType DEF HostType, Ends
<1>2. link' \in {"up", "quarantined", "closed", "listening"}
  BY DEF TypeOK, Ends
<1> QED BY <1>1, <1>2 DEF TypeOK, HostType, Ends, agentVars

(***************************************************************************)
(* The resident's steps keep the type, whatever its program does.          *)
(***************************************************************************)
AgentType ==
  /\ agent \in [run : {"running", "paused"}, lease : 0 .. Lease,
                inStep : BOOLEAN]
  /\ agent.lease > 0 <=> agent.run = "paused"
  /\ mark \in {"none", "held", "ran", "mixed"}

LEMMA ResumesType == ASSUME TypeOK, Resumes PROVE AgentType'
<1>1. agent' = [agent EXCEPT !.run = "running", !.lease = 0]
  BY DEF Resumes
<1>2. agent' \in [run : {"running", "paused"}, lease : 0 .. Lease,
                  inStep : BOOLEAN]
  <2>1. 0 \in 0 .. Lease
    OBVIOUS
  <2>2. agent.inStep \in BOOLEAN
    BY DEF TypeOK
  <2>3. agent' = [run |-> "running", lease |-> 0, inStep |-> agent.inStep]
    BY <1>1 DEF TypeOK
  <2> QED BY <2>1, <2>2, <2>3
<1>3. agent'.lease = 0 /\ agent'.run = "running"
  BY <1>1 DEF TypeOK
<1>4. mark' \in {"none", "held", "ran", "mixed"}
  BY DEF TypeOK, Resumes
<1> QED BY <1>2, <1>3, <1>4 DEF AgentType

LEMMA TimedOutType ==
  ASSUME TypeOK, agent.run = "paused", TimedOut PROVE AgentType'
<1>1. CASE agent.lease = 1
  BY <1>1, ResumesType DEF TimedOut
<1>2. CASE agent.lease # 1
  BY <1>2 DEF TypeOK, AgentType, TimedOut
<1> QED BY <1>1, <1>2

LEMMA RenewedType ==
  ASSUME TypeOK
  PROVE  /\ Renewed(agent) \in [run : {"running", "paused"},
                                lease : 0 .. Lease, inStep : BOOLEAN]
         /\ Renewed(agent).lease > 0 <=> Renewed(agent).run = "paused"
         /\ Renewed(agent).run = agent.run
BY DEF TypeOK, Renewed

LEMMA ServeType == ASSUME TypeOK, Serve PROVE TypeOK'
<1>1. CASE ServeStatus
  BY <1>1, RenewedType DEF TypeOK, ServeStatus, Replies
<1>2. CASE ServeRead
  <2>1. mark' \in {"none", "held", "ran", "mixed"}
    BY <1>2 DEF TypeOK, ServeRead
  <2>2. agent' = Renewed(agent)
    BY <1>2 DEF ServeRead
  <2>3. AgentType'
    BY <2>1, <2>2, RenewedType DEF AgentType
  <2>4. /\ host' = host /\ link' = link
        /\ captures' = captures /\ faults' = faults
    BY <1>2 DEF ServeRead, Replies
  <2> QED BY <2>3, <2>4 DEF TypeOK, AgentType
<1>3. CASE ServePause
  <2>1. Lease \in 0 .. Lease /\ Lease > 0
    OBVIOUS
  <2>2. agent' = [run |-> "paused", lease |-> Lease, inStep |-> agent.inStep]
    BY <1>3 DEF TypeOK, ServePause
  <2>3. AgentType'
    BY <1>3, <2>1, <2>2 DEF TypeOK, AgentType, ServePause
  <2> QED BY <1>3, <2>3 DEF TypeOK, AgentType, ServePause, Replies
<1>4. CASE ServeResume
  BY <1>4, ResumesType DEF TypeOK, AgentType, ServeResume, Replies
<1>5. CASE ServeBoot
  <2>1. AgentType'
    BY <1>5, RenewedType DEF TypeOK, AgentType, ServeBoot
  <2> QED BY <1>5, <2>1 DEF TypeOK, AgentType, ServeBoot, Replies
<1>6. CASE Refuse
  BY <1>6, RenewedType DEF TypeOK, Refuse, Replies
<1> QED BY <1>1, <1>2, <1>3, <1>4, <1>5, <1>6 DEF Serve

(***************************************************************************)
(* The host's steps on an answer.                                          *)
(***************************************************************************)
LEMMA AtType ==
  ASSUME NEW h \in HostType, NEW pc \in Steps
  PROVE  At(h, pc) \in HostType
BY DEF HostType, At

LEMMA CleansUpType ==
  ASSUME TypeOK, CleansUp(host) PROVE TypeOK'
<1>1. host \in HostType
  BY DEF TypeOK, HostType
<1>2. CASE host.owned
  <2> DEFINE h == [host EXCEPT !.pc = "resume", !.after = "fail"]
  <2>1. h \in HostType
    BY <1>1 DEF HostType, Steps
  <2> QED BY <1>2, <2>1, GoesOnType DEF CleansUp
<1>3. CASE ~host.owned
  <2> DEFINE h == [host EXCEPT !.after = "fail"]
  <2>1. h \in HostType
    BY <1>1 DEF HostType
  <2> QED BY <1>3, <2>1, EndsType DEF CleansUp
<1> QED BY <1>2, <1>3

LEMMA ReleasedType ==
  ASSUME TypeOK, NEW h \in HostType, Released(h) PROVE TypeOK'
<1>1. [h EXCEPT !.owned = FALSE] \in HostType
  BY DEF HostType
<1> QED BY <1>1, EndsType DEF Released

LEMMA RecoveryFailsType ==
  ASSUME TypeOK, RecoveryFails(host) PROVE TypeOK'
<1>1. host \in HostType
  BY DEF TypeOK, HostType
<1>2. CASE host.try < Attempts
  <2> DEFINE h == [host EXCEPT !.pc = "boot", !.try = @ + 1]
  <2>1. h \in HostType
    BY <1>1, <1>2, TryType DEF HostType, Steps
  <2> QED BY <1>2, <2>1, GoesOnType DEF RecoveryFails
<1>3. CASE ~(host.try < Attempts)
  <2> DEFINE h == [host EXCEPT !.after = IF @ = "deliver" THEN "fail" ELSE @]
  <2>1. h \in HostType
    BY <1>1 DEF HostType
  <2> QED BY <1>3, <2>1, EndsType DEF RecoveryFails
<1> QED BY <1>2, <1>3

LEMMA ClosesType ==
  ASSUME TypeOK, NEW h \in HostType, Closes(h) PROVE TypeOK'
<1>1. At(h, "resume") \in HostType
  BY AtType DEF Steps
<1>2. [h EXCEPT !.pc = "boot", !.try = 1] \in HostType
  BY TryType DEF HostType, Steps
<1> QED BY <1>1, <1>2, GoesOnType, EndsType DEF Closes

LEMMA HostStepsType ==
  ASSUME TypeOK, host.pc = "read" => host.reads < Reads, HostSteps
  PROVE  TypeOK'
<1> USE GoesOnType, EndsType, ReleasedType, CleansUpType, RecoveryFailsType
<1>1. host \in HostType
  BY DEF TypeOK, HostType
<1>2. \A pc \in Steps : At(host, pc) \in HostType
  BY <1>1, AtType
<1>3. CASE GotProbe
  <2>1. [host EXCEPT !.pc = "pause", !.owned = TRUE, !.try = 1] \in HostType
    BY <1>1, TryType, TryType DEF HostType, Steps
  <2> QED BY <1>1, <1>2, <1>3, <2>1 DEF GotProbe, Steps
<1>4. CASE GotPause
  BY <1>2, <1>4 DEF GotPause, Steps
<1>5. CASE GotVerify
  <2>1. [host EXCEPT !.pc = "read", !.leased = TRUE] \in HostType
    BY <1>1 DEF HostType, Steps
  <2>2. host.try < Attempts
          => [host EXCEPT !.pc = "pause", !.try = @ + 1] \in HostType
    BY <1>1, TryType DEF HostType, Steps
  <2> QED BY <1>1, <1>5, <2>1, <2>2 DEF GotVerify
<1>6. CASE GotRead
  <2> DEFINE h == [host EXCEPT !.reads = @ + 1]
  <2>1. h \in HostType
    BY <1>1, <1>6 DEF HostType, GotRead, Replied
  <2>2. At(h, "read") \in HostType /\ At(h, "final") \in HostType
    BY <2>1, AtType DEF Steps
  <2>3. [h EXCEPT !.after = "deliver"] \in HostType
    BY <2>1 DEF HostType
  <2>4. AfterReads(h) => TypeOK'
    BY <2>2, <2>3 DEF AfterReads
  <2> QED BY <1>6, <2>4 DEF GotRead
<1>7. CASE GotFinal
  <2>1. [host EXCEPT !.pc = "resume", !.after = "deliver"] \in HostType
    BY <1>1 DEF HostType, Steps
  <2> QED BY <1>1, <1>7, <2>1 DEF GotFinal
<1>8. CASE GotResume
  <2>1. [host EXCEPT !.pc = "boot", !.try = 1] \in HostType
    BY <1>1, TryType DEF HostType, Steps
  <2> QED BY <1>1, <1>8, <2>1 DEF GotResume
<1>9. CASE GotBoot
  <2>1. [host EXCEPT !.pc = "check", !.framed = TRUE] \in HostType
    BY <1>1 DEF HostType, Steps
  <2> QED BY <1>9, <2>1 DEF GotBoot
<1>10. CASE GotCheck
  BY <1>1, <1>2, <1>10 DEF GotCheck, Steps
<1>11. CASE GotRelease
  BY <1>2, <1>11 DEF GotRelease, Steps
<1>12. CASE GotRecheck
  BY <1>1, <1>12 DEF GotRecheck
<1>13. CASE GotLeave
  BY <1>1, <1>2, <1>13, ClosesType DEF GotLeave, Steps
<1>15. CASE GotReask
  BY <1>1, <1>2, <1>15, ClosesType DEF GotReask, Steps
<1>14. CASE GotLeaving
  BY <1>1, <1>14, ClosesType DEF GotLeaving
<1> QED BY <1>3, <1>4, <1>5, <1>6, <1>7, <1>8, <1>9, <1>10, <1>11, <1>12,
           <1>13, <1>14, <1>15 DEF HostSteps

(***************************************************************************)
(* Every step keeps the type.                                              *)
(***************************************************************************)
LEMMA TypeStep ==
  ASSUME TypeOK, host.pc = "read" => host.reads < Reads, [Next]_vars
  PROVE  TypeOK'
<1>1. host \in HostType /\ AgentType
  BY DEF TypeOK, HostType, AgentType
<1>2. CASE Capture
  <2>1. host' \in HostType
    BY <1>2, IdleType, AtType DEF Capture, Steps
  <2>2. captures' \in 0 .. MaxCaptures
    BY <1>2 DEF TypeOK, Capture
  <2> QED BY <1>2, <2>1, <2>2 DEF TypeOK, HostType, Capture
<1>3. CASE Leave
  <2>1. host' \in HostType
    BY <1>1, <1>3 DEF HostType, Leave, Steps
  <2>2. captures' \in 0 .. MaxCaptures
    BY <1>3 DEF TypeOK, Leave
  <2> QED BY <1>3, <2>1, <2>2 DEF TypeOK, HostType, Leave, agentVars
<1>4. CASE HostSteps
  BY <1>4, HostStepsType
<1>5. ASSUME NEW k, Fault(k) PROVE faults' \in 0 .. MaxFaults
  BY <1>5 DEF TypeOK, Fault
<1>6. Deadline => faults' \in 0 .. MaxFaults
  BY <1>5 DEF TypeOK, Deadline
<1>7. CASE BodyFails
  <2>1. host' \in HostType
    BY <1>1, <1>7, IdleType, AtType DEF BodyFails, Steps
  <2> QED BY <1>5, <1>7, <2>1 DEF TypeOK, HostType, BodyFails, agentVars
<1>8. CASE GiveUp
  BY <1>6, <1>8, IdleType DEF TypeOK, HostType, GiveUp, agentVars
<1>9. CASE BootLost
  <2>1. host' \in HostType
    <3>1. CASE host.try < Attempts
      <4>1. host.try + 1 \in 0 .. Attempts
        BY <1>1, <3>1, TryType DEF HostType
      <4> QED BY <1>1, <1>9, <3>1, <4>1 DEF HostType, BootLost
    <3>2. CASE ~(host.try < Attempts)
      <4>1. host' = [Idle EXCEPT !.owned = host.after # "close",
                                 !.framed = FALSE]
        BY <1>9, <3>2 DEF BootLost
      <4> QED BY <4>1, IdleType DEF HostType
    <3> QED BY <3>1, <3>2
  <2>2. link' \in {"up", "quarantined", "closed", "listening"}
    BY <1>9 DEF TypeOK, BootLost
  <2> QED BY <1>6, <1>9, <2>1, <2>2 DEF TypeOK, HostType, BootLost, agentVars
<1>10. CASE Detach
  BY <1>10 DEF TypeOK, Detach, agentVars
<1>11. CASE Crash
  BY <1>5, <1>11, IdleType DEF TypeOK, HostType, Crash, agentVars
<1>12. CASE Attach
  <2>1. AgentType'
    BY <1>1, <1>12, RenewedType DEF AgentType, Attach
  <2> QED BY <1>12, <2>1 DEF TypeOK, AgentType, Attach
<1>13. CASE Serve
  BY <1>13, ServeType
<1>14. CASE Damage
  <2>1. AgentType'
    BY <1>1, <1>14, RenewedType DEF AgentType, Damage
  <2> QED BY <1>5, <1>14, <2>1 DEF TypeOK, AgentType, Damage
<1>15. CASE Cut
  <2>1. AgentType'
    BY <1>1, <1>15, ResumesType, TimedOutType DEF Cut, AgentType, agentVars
  <2>2. host' \in HostType
    BY <1>1, <1>15, IdleType DEF Cut
  <2>3. link' \in {"up", "quarantined", "closed", "listening"}
    BY <1>15 DEF TypeOK, Cut
  <2>4. captures' \in 0 .. MaxCaptures /\ faults' \in 0 .. MaxFaults
    BY <1>5, <1>15 DEF TypeOK, Cut
  <2> QED BY <2>1, <2>2, <2>3, <2>4 DEF TypeOK, HostType, AgentType
<1>16. CASE Expire
  BY <1>16, TimedOutType DEF TypeOK, AgentType, Expire
<1>17. CASE SessionLost
  BY <1>17, ResumesType DEF TypeOK, AgentType, SessionLost
<1>18. CASE UNCHANGED vars
  BY <1>18 DEF TypeOK, vars
<1> QED BY <1>2, <1>3, <1>4, <1>7, <1>8, <1>9, <1>10, <1>11, <1>12, <1>13,
           <1>14, <1>15, <1>16, <1>17, <1>18 DEF Next

(***************************************************************************)
(* Which request stands for which step of the host.                        *)
(***************************************************************************)
LEMMA SentBy ==
  ASSUME NEW pc \in Steps \cup {"idle"}
  PROVE  /\ Sends(pc) = "read" => pc = "read"
         /\ Sends(pc) = "S" => pc = "pause"
         /\ Sends(pc) = "boot" => pc = "boot"
         /\ pc = "idle" => Sends(pc) = None
BY DEF Sends, Steps

LEMMA GoesOnKeeps ==
  ASSUME CaptureInv, NEW h, GoesOn(h), link = "up",
         h.pc \in {"probe", "pause", "verify", "read"} => h.reads < Reads,
         h.pc \in {"probe", "pause", "verify"} => mark = "none",
         h.leased /\ h.pc \in {"read", "final"} /\ agent.run = "paused"
           => mark \in {"none", "held"},
         h.after = "deliver"
           => h.pc \in Cleanup /\ (h.leased => mark # "mixed")
  PROVE  CaptureInv'
<1>1. /\ host' = h /\ call' = Sends(h.pc) /\ rsp' = None /\ out' = out
      /\ agent' = agent /\ mark' = mark /\ link' = link
  BY DEF GoesOn, HostKeeps, agentVars
<1>2. Sends(host'.pc) = call'
  BY <1>1
<1>3. rsp' # "paused"
  BY <1>1
<1> QED BY <1>1, <1>2, <1>3 DEF CaptureInv, LeasedCaptureIsAtomic, Cleanup, Sends

LEMMA EndsKeeps ==
  ASSUME TypeOK, CaptureInv, NEW h, Ends(h),
         h.after = "deliver" => (h.leased => mark # "mixed")
  PROVE  CaptureInv'
<1>1. /\ host'.pc = "idle" /\ host'.leased = FALSE /\ host'.after = "fail"
      /\ call' = None /\ mark' = mark
  BY DEF Ends, Idle, agentVars
<1>2. LeasedCaptureIsAtomic'
  <2>1. CASE h.after = "deliver"
    <3>1. out' = [leased |-> h.leased, mark |-> mark]
      BY <2>1 DEF Ends
    <3> QED BY <2>1, <3>1 DEF LeasedCaptureIsAtomic
  <2>2. CASE h.after # "deliver"
    BY <2>2 DEF Ends, CaptureInv, LeasedCaptureIsAtomic
  <2> QED BY <2>1, <2>2
<1> QED BY <1>1, <1>2 DEF CaptureInv

(***************************************************************************)
(* The resident's steps disturb only what is said of mark and rsp.         *)
(***************************************************************************)
LEMMA ServeKeeps ==
  ASSUME TypeOK, CaptureInv, Serve PROVE CaptureInv'
<1> DEFINE pc == host.pc
<1>0. pc \in Steps \cup {"idle"}
  BY DEF TypeOK
<1>1. /\ host' = host /\ link' = link /\ out' = out /\ call' = None
  BY DEF Serve, ServeStatus, ServeRead, ServePause, ServeResume, ServeBoot,
         Refuse, Replies
<1>2. Renewed(agent).run = agent.run
  BY RenewedType
<1>3. /\ host.leased /\ pc \in {"read", "final"} /\ agent'.run = "paused"
           => mark' \in {"none", "held"}
      /\ host.leased /\ pc = "final" /\ rsp' = "paused" => mark' # "mixed"
      /\ pc \in {"probe", "pause", "verify"} => mark' = "none"
      /\ host.after = "deliver" => (host.leased => mark' # "mixed")
  <2>1. CASE ServeStatus
    <3>1. mark' = mark /\ agent'.run = agent.run
      BY <1>2, <2>1 DEF ServeStatus
    <3>2. rsp' = "paused" => agent.run = "paused"
      BY <2>1 DEF ServeStatus, Replies
    <3> QED BY <3>1, <3>2 DEF CaptureInv
  <2>2. CASE ServeRead
    <3>1. link = "up" => pc = "read"
      <4>1. call = "read"
        BY <2>2 DEF ServeRead, Hears
      <4> QED BY <1>0, <4>1, SentBy DEF CaptureInv
    <3>2. CASE link = "up"
      <4>1. agent'.run = agent.run
        BY <1>2, <2>2 DEF ServeRead
      <4>2. agent.run = "paused" /\ mark \in {"none", "held"}
              => mark' = "held"
        BY <2>2, <3>2 DEF ServeRead
      <4> QED BY <3>1, <3>2, <4>1, <4>2 DEF CaptureInv, Cleanup
    <3>3. CASE link # "up"
      <4>1. pc = "idle" /\ host.after # "deliver"
        BY <3>3 DEF CaptureInv, Cleanup
      <4> QED BY <4>1
    <3> QED BY <3>2, <3>3
  <2>3. CASE ServePause
    <3>1. mark' = mark /\ rsp' # "paused"
      BY <2>3 DEF ServePause, Replies
    <3>2. link = "up" => pc = "pause"
      <4>1. call = "S"
        BY <2>3 DEF ServePause, Hears
      <4> QED BY <1>0, <4>1, SentBy DEF CaptureInv
    <3> QED BY <3>1, <3>2 DEF CaptureInv, Cleanup
  <2>4. CASE ServeResume
    <3>1. agent'.run = "running"
      BY <2>4 DEF ServeResume, Resumes, TypeOK
    <3>2. mark' = (IF mark = "held" THEN "ran" ELSE mark) /\ rsp' # "paused"
      BY <2>4 DEF ServeResume, Resumes, Replies
    <3> QED BY <3>1, <3>2 DEF CaptureInv
  <2>5. CASE ServeBoot
    <3>1. mark' = mark /\ rsp' # "paused"
      BY <2>5 DEF ServeBoot, Replies
    <3>2. agent'.run = agent.run
      BY <1>2, <2>5, RenewedType DEF ServeBoot
    <3> QED BY <3>1, <3>2 DEF CaptureInv
  <2>6. CASE Refuse
    <3>1. mark' = mark /\ rsp' # "paused" /\ agent'.run = agent.run
      BY <1>2, <2>6 DEF Refuse, Replies
    <3> QED BY <3>1 DEF CaptureInv
  <2> QED BY <2>1, <2>2, <2>3, <2>4, <2>5, <2>6 DEF Serve
<1> QED BY <1>1, <1>3 DEF CaptureInv, LeasedCaptureIsAtomic

(***************************************************************************)
(* The host's steps.  A verified lease is followed by no read.             *)
(***************************************************************************)
LEMMA CleansUpKeeps ==
  ASSUME TypeOK, CaptureInv, host.pc # "idle", CleansUp(host)
  PROVE  CaptureInv'
<1>1. link = "up"
  BY DEF CaptureInv
<1>2. CASE host.owned
  <2> DEFINE h == [host EXCEPT !.pc = "resume", !.after = "fail"]
  <2>1. h.pc = "resume" /\ h.after = "fail"
    BY DEF TypeOK
  <2>2. GoesOn(h)
    BY <1>2 DEF CleansUp
  <2> QED BY <1>1, <2>1, <2>2, GoesOnKeeps
<1>3. CASE ~host.owned
  <2> DEFINE h == [host EXCEPT !.after = "fail"]
  <2>1. h.after = "fail" /\ Ends(h)
    BY <1>3 DEF TypeOK, CleansUp
  <2> QED BY <2>1, EndsKeeps
<1> QED BY <1>2, <1>3

LEMMA ReleasedKeeps ==
  ASSUME TypeOK, CaptureInv, Released(host) PROVE CaptureInv'
<1> DEFINE h == [host EXCEPT !.owned = FALSE]
<1>1. h.after = host.after /\ h.leased = host.leased /\ Ends(h)
  BY DEF TypeOK, Released
<1> QED BY <1>1, EndsKeeps DEF CaptureInv

LEMMA RecoveryFailsKeeps ==
  ASSUME TypeOK, CaptureInv, host.pc # "idle", RecoveryFails(host)
  PROVE  CaptureInv'
<1>1. link = "up"
  BY DEF CaptureInv
<1>2. CASE host.try < Attempts
  <2> DEFINE h == [host EXCEPT !.pc = "boot", !.try = @ + 1]
  <2>1. h.pc = "boot" /\ h.after = host.after /\ h.leased = host.leased
    BY DEF TypeOK
  <2>2. GoesOn(h)
    BY <1>2 DEF RecoveryFails
  <2> QED BY <1>1, <2>1, <2>2, GoesOnKeeps DEF CaptureInv, Cleanup
<1>3. CASE ~(host.try < Attempts)
  <2> DEFINE h == [host EXCEPT !.after = IF @ = "deliver" THEN "fail" ELSE @]
  <2>1. h.after # "deliver" /\ Ends(h)
    BY <1>3 DEF TypeOK, RecoveryFails
  <2> QED BY <2>1, EndsKeeps
<1> QED BY <1>2, <1>3

LEMMA ClosesKeeps ==
  ASSUME TypeOK, CaptureInv, host.pc \in {"leave", "reask", "leaving"}, Closes(host)
  PROVE  CaptureInv'
<1>1. link = "up" /\ host.after # "deliver"
  BY DEF CaptureInv, Cleanup
<1>2. CASE ~host.owned
  BY <1>1, <1>2, EndsKeeps DEF Closes
<1>3. CASE host.owned /\ host.framed
  <2>1. At(host, "resume").pc = "resume"
        /\ At(host, "resume").after = host.after
    BY DEF TypeOK, At
  <2> QED BY <1>1, <1>3, <2>1, GoesOnKeeps DEF Closes
<1>4. CASE host.owned /\ ~host.framed
  <2> DEFINE h == [host EXCEPT !.pc = "boot", !.try = 1]
  <2>1. h.pc = "boot" /\ h.after = host.after /\ GoesOn(h)
    BY <1>4 DEF TypeOK, Closes
  <2> QED BY <1>1, <2>1, GoesOnKeeps
<1> QED BY <1>2, <1>3, <1>4

LEMMA HostStepsKeep ==
  ASSUME TypeOK, CaptureInv, HostSteps PROVE CaptureInv'
<1> USE CleansUpKeeps, ReleasedKeeps, RecoveryFailsKeeps, ClosesKeeps
<1>1. \A pc \in Steps : /\ At(host, pc).pc = pc
                        /\ At(host, pc).after = host.after
                        /\ At(host, pc).leased = host.leased
                        /\ At(host, pc).reads = host.reads
  BY DEF TypeOK, At
<1>2. host.pc # "idle" => link = "up"
  BY DEF CaptureInv
<1>3. CASE GotProbe
  <2>1. host.pc = "probe" /\ mark = "none" /\ host.after # "deliver"
    BY <1>3 DEF GotProbe, Replied, CaptureInv, Cleanup
  <2>2. host.reads < Reads => (GoesOn(At(host, "read")) => CaptureInv')
    BY <1>1, <1>2, <2>1, GoesOnKeeps DEF Steps
  <2> DEFINE h == [host EXCEPT !.pc = "pause", !.owned = TRUE, !.try = 1]
  <2>3. h.pc = "pause" /\ h.after = host.after /\ h.reads = host.reads
    BY DEF TypeOK
  <2>6. host.reads < Reads
    BY <2>1 DEF CaptureInv
  <2>4. GoesOn(h) => CaptureInv'
    BY <1>2, <2>1, <2>3, <2>6, GoesOnKeeps
  <2>5. Ends(host) => CaptureInv'
    BY <2>1, EndsKeeps
  <2> QED BY <1>3, <2>2, <2>4, <2>5, <2>6 DEF GotProbe
<1>4. CASE GotPause
  <2>1. host.pc = "pause"
    BY <1>4 DEF GotPause, Replied
  <2>2. host.reads < Reads /\ mark = "none" /\ host.after # "deliver"
    BY <2>1 DEF CaptureInv, Cleanup
  <2>3. GoesOn(At(host, "verify")) => CaptureInv'
    BY <1>1, <1>2, <2>1, <2>2, GoesOnKeeps DEF Steps
  <2> QED BY <1>4, <2>1, <2>3 DEF GotPause
<1>5. CASE GotVerify
  <2>1. host.pc = "verify"
    BY <1>5 DEF GotVerify, Replied
  <2>2. host.reads < Reads /\ mark = "none" /\ host.after # "deliver"
    BY <2>1 DEF CaptureInv, Cleanup
  <2> DEFINE h == [host EXCEPT !.pc = "read", !.leased = TRUE]
             g == [host EXCEPT !.pc = "pause", !.try = @ + 1]
  <2>3. /\ h.pc = "read" /\ h.after = host.after /\ h.reads = host.reads
        /\ g.pc = "pause" /\ g.after = host.after /\ g.reads = host.reads
    BY DEF TypeOK
  <2>4. GoesOn(h) => CaptureInv'
    BY <1>2, <2>1, <2>2, <2>3, GoesOnKeeps
  <2>5. GoesOn(g) => CaptureInv'
    BY <1>2, <2>1, <2>2, <2>3, GoesOnKeeps
  <2> QED BY <1>5, <2>1, <2>4, <2>5 DEF GotVerify
<1>6. CASE GotRead
  <2>1. host.pc = "read" /\ host.after # "deliver"
    BY <1>6 DEF GotRead, Replied, CaptureInv, Cleanup
  <2> DEFINE h == [host EXCEPT !.reads = @ + 1]
             r == At(h, "read")
             f == At(h, "final")
             d == [h EXCEPT !.after = "deliver"]
  <2>2. /\ r.pc = "read" /\ r.after = host.after /\ r.reads = h.reads
        /\ f.pc = "final" /\ f.after = host.after
        /\ r.leased = host.leased /\ f.leased = host.leased
        /\ h.leased = host.leased /\ d.leased = host.leased
    BY DEF TypeOK, At
  <2>3. ASSUME GoesOn(r), h.reads < Reads PROVE CaptureInv'
    BY <1>2, <2>1, <2>2, <2>3, GoesOnKeeps DEF CaptureInv
  <2>4. ASSUME GoesOn(f) PROVE CaptureInv'
    BY <1>2, <2>1, <2>2, <2>4, GoesOnKeeps DEF CaptureInv
  <2>5. ASSUME Ends(d), ~h.leased PROVE CaptureInv'
    BY <2>2, <2>5, EndsKeeps
  <2>6. AfterReads(h) => CaptureInv'
    BY <2>3, <2>4, <2>5 DEF AfterReads
  <2> QED BY <1>6, <2>1, <2>6 DEF GotRead
<1>7. CASE GotFinal
  <2>1. host.pc = "final"
    BY <1>7 DEF GotFinal, Replied
  <2> DEFINE h == [host EXCEPT !.pc = "resume", !.after = "deliver"]
  <2>2. h.pc = "resume" /\ h.leased = host.leased
    BY DEF TypeOK
  <2>3. ASSUME rsp = "paused", GoesOn(h) PROVE CaptureInv'
    <3>1. h.leased => mark # "mixed"
      BY <2>1, <2>2, <2>3 DEF CaptureInv
    <3> QED BY <1>2, <2>1, <2>2, <2>3, <3>1, GoesOnKeeps DEF Cleanup
  <2> QED BY <1>7, <2>1, <2>3 DEF GotFinal
<1>8. ASSUME host.pc \in Cleanup
      PROVE  /\ link = "up"
             /\ host.after = "deliver" => (host.leased => mark # "mixed")
  BY <1>2, <1>8 DEF CaptureInv, Cleanup
<1>9. CASE GotResume
  <2>1. host.pc = "resume" /\ host.pc \in Cleanup
    BY <1>9 DEF GotResume, Replied, Cleanup
  <2> DEFINE h == [host EXCEPT !.pc = "boot", !.try = 1]
  <2>2. h.pc = "boot" /\ h.after = host.after /\ h.leased = host.leased
    BY DEF TypeOK
  <2>3. GoesOn(h) => CaptureInv'
    BY <1>8, <2>1, <2>2, GoesOnKeeps DEF Cleanup
  <2> QED BY <1>9, <2>3 DEF GotResume
<1>10. CASE GotBoot
  <2>1. host.pc = "boot" /\ host.pc \in Cleanup
    BY <1>10 DEF GotBoot, Replied, Cleanup
  <2> DEFINE h == [host EXCEPT !.pc = "check", !.framed = TRUE]
  <2>2. h.pc = "check" /\ h.after = host.after /\ h.leased = host.leased
    BY DEF TypeOK
  <2>3. GoesOn(h)
    BY <1>10 DEF GotBoot
  <2> QED BY <1>8, <2>1, <2>2, <2>3, GoesOnKeeps DEF Cleanup
<1>11. CASE GotCheck
  <2>1. host.pc = "check" /\ host.pc \in Cleanup
    BY <1>11 DEF GotCheck, Replied, Cleanup
  <2>2. GoesOn(At(host, "release")) => CaptureInv'
    BY <1>1, <1>8, <2>1, GoesOnKeeps DEF Cleanup, Steps
  <2> QED BY <1>11, <2>1, <2>2 DEF GotCheck
<1>12. CASE GotRelease
  <2>1. host.pc = "release" /\ host.pc \in Cleanup
    BY <1>12 DEF GotRelease, Replied, Cleanup
  <2>2. GoesOn(At(host, "recheck")) => CaptureInv'
    BY <1>1, <1>8, <2>1, GoesOnKeeps DEF Cleanup, Steps
  <2> QED BY <1>12, <2>1, <2>2 DEF GotRelease
<1>13. CASE GotRecheck
  BY <1>13 DEF GotRecheck, Replied
<1>14. CASE GotLeave
  <2>1. host.pc = "leave" /\ host.after # "deliver"
    BY <1>14 DEF GotLeave, Replied, CaptureInv, Cleanup
  <2>2. GoesOn(At(host, "reask")) => CaptureInv'
    BY <1>1, <1>2, <2>1, GoesOnKeeps DEF Steps
  <2> QED BY <1>14, <2>1, <2>2 DEF GotLeave
<1>16. CASE GotReask
  <2>1. host.pc = "reask" /\ host.after # "deliver"
    BY <1>16 DEF GotReask, Replied, CaptureInv, Cleanup
  <2>2. GoesOn(At(host, "leaving")) => CaptureInv'
    BY <1>1, <1>2, <2>1, GoesOnKeeps DEF Steps
  <2> QED BY <1>16, <2>1, <2>2 DEF GotReask
<1>15. CASE GotLeaving
  BY <1>15 DEF GotLeaving, Replied
<1> QED BY <1>3, <1>4, <1>5, <1>6, <1>7, <1>9, <1>10, <1>11, <1>12,
           <1>13, <1>14, <1>15, <1>16 DEF HostSteps

(***************************************************************************)
(* Every step keeps the invariant.                                         *)
(***************************************************************************)
LEMMA CaptureStep ==
  ASSUME TypeOK, CaptureInv, [Next]_vars PROVE CaptureInv'
<1>0. host.pc # "idle" => link = "up"
  BY DEF CaptureInv
<1>2. Idle.pc = "idle" /\ Idle.after = "fail" /\ ~Idle.leased
      /\ Sends("idle") = None
  BY DEF Idle, Sends
<1>3. ASSUME Resumes PROVE /\ agent'.run = "running"
                           /\ mark \in {"none", "mixed"} => mark' = mark
                           /\ mark' = "mixed" => mark = "mixed"
  BY <1>3 DEF Resumes, TypeOK
<1>4. ASSUME TimedOut, agent.run = "paused"
      PROVE  \/ Resumes
             \/ agent'.run = "paused" /\ mark' = mark
  BY <1>4 DEF TimedOut, TypeOK
<1>5. ASSUME host' = Idle, out' = out,
             link' = "up" => call' \in {None, "boot"}
      PROVE  CaptureInv'
  BY <1>2, <1>5 DEF CaptureInv, LeasedCaptureIsAtomic
<1>6. ASSUME host' = host, out' = out, link' = link, rsp' = rsp,
             call' \in {call, None},
             Resumes \/ (agent'.run = agent.run /\ mark' = mark)
      PROVE  CaptureInv'
  BY <1>3, <1>6 DEF CaptureInv, LeasedCaptureIsAtomic
<1>7. CASE Capture
  <2>1. /\ host'.pc = "probe" /\ host'.after = "fail" /\ host'.reads < Reads
        /\ ~host'.leased
    BY <1>7 DEF Capture, At, Idle
  <2>2. /\ call' = Sends(host'.pc) /\ mark' = "none" /\ out' = None
        /\ link' = "up"
    BY <1>7, <2>1 DEF Capture, Sends
  <2> QED BY <2>1, <2>2 DEF CaptureInv, LeasedCaptureIsAtomic
<1>8. CASE Leave
  <2>1. host'.pc = "leave" /\ host'.after = "close"
    BY <1>8 DEF Leave, TypeOK
  <2>2. /\ call' = Sends(host'.pc) /\ out' = out /\ link' = "up"
    BY <1>8, <2>1 DEF Leave, Sends
  <2> QED BY <2>1, <2>2 DEF CaptureInv, LeasedCaptureIsAtomic, Leave, agentVars
<1>9. CASE HostSteps
  BY <1>9, HostStepsKeep
<1>10. CASE BodyFails
  <2>1. host.pc = "read" /\ host.after # "deliver" /\ link = "up"
    BY <1>0, <1>10 DEF BodyFails, Replied, CaptureInv, Cleanup
  <2>2. CASE host.owned
    <3>1. /\ host'.pc = "resume" /\ host'.after = host.after
          /\ call' = Sends(host'.pc) /\ out' = out /\ mark' = mark /\ link' = link
      BY <1>10, <2>2 DEF BodyFails, TypeOK, At, Sends, agentVars
    <3> QED BY <2>1, <3>1 DEF CaptureInv, LeasedCaptureIsAtomic
  <2>3. CASE ~host.owned
    BY <1>5, <1>10, <2>3 DEF BodyFails
  <2> QED BY <2>2, <2>3
<1>11. CASE GiveUp
  BY <1>5, <1>11 DEF GiveUp
<1>12. CASE BootLost
  <2>1. host.pc = "boot" /\ link = "up" /\ out' = out /\ mark' = mark
    BY <1>0, <1>12 DEF BootLost, agentVars
  <2>2. CASE host.try < Attempts
    <3>1. /\ host'.pc = "boot" /\ host'.after = host.after
          /\ host'.leased = host.leased /\ call' = "boot" /\ link' = link
      BY <1>12, <2>1, <2>2 DEF BootLost, TypeOK
    <3> QED BY <2>1, <3>1 DEF CaptureInv, LeasedCaptureIsAtomic, Cleanup
  <2>3. CASE ~(host.try < Attempts)
    <3>1. /\ host'.pc = "idle" /\ host'.after = "fail" /\ ~host'.leased
          /\ call' = call
      BY <1>2, <1>12, <2>3 DEF BootLost, Idle
    <3>2. call \in {None, "boot"}
      BY <2>1 DEF CaptureInv, Sends
    <3> QED BY <2>1, <3>1, <3>2 DEF CaptureInv, LeasedCaptureIsAtomic
  <2> QED BY <2>2, <2>3
<1>13. CASE Detach
  <2>1. host' = host /\ host.pc = "idle" /\ link' = "closed" /\ out' = out
    BY <1>13 DEF Detach
  <2> QED BY <2>1 DEF CaptureInv, LeasedCaptureIsAtomic, Cleanup
<1>14. CASE Crash
  BY <1>5, <1>14 DEF Crash
<1>15. CASE Attach
  <2>1. host' = host /\ link # "up" /\ call' = None /\ out' = out
    BY <1>15 DEF Attach
  <2>2. host.pc = "idle"
    BY <1>0, <2>1
  <2> QED BY <2>1, <2>2 DEF CaptureInv, LeasedCaptureIsAtomic, Cleanup
<1>16. CASE Serve
  BY <1>16, ServeKeeps
<1>17. CASE Damage
  <2>1. /\ host' = host /\ link' = link /\ call' = None /\ out' = out
        /\ mark' = mark /\ agent'.run = agent.run /\ rsp' # "paused"
    BY <1>17, RenewedType DEF Damage
  <2> QED BY <2>1 DEF CaptureInv, LeasedCaptureIsAtomic
<1>18. CASE Cut
  <2>1. CASE line = "tcp" /\ link = "up"
    BY <1>5, <1>18, <2>1 DEF Cut
  <2>2. CASE ~(line = "tcp" /\ link = "up")
    <3>1. /\ host' = host /\ out' = out /\ link' = link /\ rsp' = rsp
          /\ call' = None
      BY <1>18, <2>2 DEF Cut
    <3>2. Resumes \/ (agent'.run = agent.run /\ mark' = mark)
      BY <1>4, <1>18 DEF Cut, agentVars
    <3> QED BY <1>6, <3>1, <3>2
  <2> QED BY <2>1, <2>2
<1>19. CASE Expire
  BY <1>4, <1>6, <1>19 DEF Expire
<1>20. CASE SessionLost
  <2>1. host' = host /\ host.pc = "idle" /\ link' # "up" /\ out' = out
    BY <1>0, <1>20 DEF SessionLost
  <2> QED BY <2>1 DEF CaptureInv, LeasedCaptureIsAtomic, Cleanup
<1>21. CASE UNCHANGED vars
  BY <1>21 DEF vars, CaptureInv, LeasedCaptureIsAtomic
<1> QED BY <1>7, <1>8, <1>9, <1>10, <1>11, <1>12, <1>13, <1>14, <1>15,
           <1>16, <1>17, <1>18, <1>19, <1>20, <1>21 DEF Next

(***************************************************************************)
(* An attachment begins with a running program and no capture.             *)
(***************************************************************************)
LEMMA InitInv == Init => TypeOK /\ CaptureInv
<1> SUFFICES ASSUME Init PROVE TypeOK /\ CaptureInv
  OBVIOUS
<1>1. TypeOK
  BY IdleType DEF Init, TypeOK, HostType
<1>2. CaptureInv
  BY DEF Init, Idle, CaptureInv, LeasedCaptureIsAtomic
<1> QED BY <1>1, <1>2

(***************************************************************************)
(* The variables always have their types, and a lease runs exactly during  *)
(* a pause of the program (run_state, snapshot_lease).                     *)
(***************************************************************************)
THEOREM LeaseTypeCorrect == Spec => []TypeOK
<1>1. TypeOK /\ CaptureInv /\ [Next]_vars => (TypeOK /\ CaptureInv)'
  BY TypeStep, CaptureStep DEF CaptureInv
<1> QED BY InitInv, <1>1, PTL DEF Spec

(***************************************************************************)
(* What snapshot_lease delivers from a lease of its own is one moment of   *)
(* the program, however long the lease is, whatever is lost, damaged or    *)
(* late, and whichever pause expires under the host's reads.               *)
(***************************************************************************)
THEOREM CapturesAreAtomic == Spec => []LeasedCaptureIsAtomic
<1>1. TypeOK /\ CaptureInv /\ [Next]_vars => (TypeOK /\ CaptureInv)'
  BY TypeStep, CaptureStep DEF CaptureInv
<1>2. CaptureInv => LeasedCaptureIsAtomic
  BY DEF CaptureInv
<1> QED BY InitInv, <1>1, <1>2, PTL DEF Spec

----------------------------------------------------------------------------
(***************************************************************************)
(* Who owes the program its resume.  An answer "running" is still true when *)
(* it is acted on, for no S is on the wire behind it; hence whoever gives   *)
(* up the ownership of a pause knows that it is over.                       *)
(***************************************************************************)
PauseInv ==
  /\ call = None \/ rsp = None
  /\ rsp = "running" => agent.run = "running"
  /\ link = "up" /\ host.pc \notin {"boot", "idle"} => call # "boot"
  /\ link = "up" /\ host.pc = "resume" /\ rsp = "ok" => agent.run = "running"
  /\ host.pc \in {"pause", "verify"} => host.owned
  /\ link = "up" /\ agent.run = "paused" /\ ~inherited => host.owned

\* Who may own nothing: there is nothing to own.
Free == agent.run = "paused" => inherited

LEMMA GoesOnOwns ==
  ASSUME PauseInv, NEW h, h.pc \in Steps, GoesOn(h),
         h.pc \in {"pause", "verify"} => h.owned,
         h.owned \/ Free
  PROVE  PauseInv'
<1>1. /\ host' = h /\ call' = Sends(h.pc) /\ rsp' = None
      /\ agent' = agent /\ inherited' = inherited /\ link' = link
  BY DEF GoesOn, HostKeeps, agentVars
<1>2. h.pc # "boot" => Sends(h.pc) # "boot"
  BY SentBy
<1>3. None \notin {"running", "ok"}
  BY LeaseAssumption
<1> QED BY <1>1, <1>2, <1>3 DEF PauseInv, Free

LEMMA EndsOwns ==
  ASSUME PauseInv, NEW h, Ends(h), h.owned \in BOOLEAN,
         h.owned \/ Free
  PROVE  PauseInv'
<1>1. /\ call' = None /\ rsp' = None /\ host'.pc = "idle"
      /\ agent' = agent /\ inherited' = inherited
      /\ link' = IF h.after = "close" THEN "closed" ELSE link
      /\ host'.owned = (h.owned /\ h.after # "close")
  BY DEF Ends, Idle, agentVars
<1>3. None \notin {"running", "ok"}
  BY LeaseAssumption
<1> QED BY <1>1, <1>3 DEF PauseInv, Free

\* What the host knows of the program when it acts.
LEMMA OwnedOrFree ==
  ASSUME TypeOK, PauseInv, link = "up"
  PROVE  /\ host.owned \/ Free
         /\ rsp = "running" => Free
         /\ host.pc = "resume" /\ rsp = "ok" => Free
BY DEF TypeOK, PauseInv, Free

LEMMA ReleasedOwns ==
  ASSUME TypeOK, PauseInv, Released(host), Free PROVE PauseInv'
<1> DEFINE h == [host EXCEPT !.owned = FALSE]
<1>1. h.owned = FALSE /\ Ends(h)
  BY DEF TypeOK, Released
<1> HIDE DEF h
<1> QED BY <1>1, EndsOwns

LEMMA CleansUpOwns ==
  ASSUME TypeOK, PauseInv, link = "up", CleansUp(host) PROVE PauseInv'
<1>1. CASE host.owned
  <2> DEFINE h == [host EXCEPT !.pc = "resume", !.after = "fail"]
  <2>1. h.pc = "resume" /\ h.owned /\ GoesOn(h)
    BY <1>1 DEF TypeOK, CleansUp
  <2> HIDE DEF h
  <2> QED BY <2>1, GoesOnOwns DEF Steps
<1>2. CASE ~host.owned
  <2> DEFINE h == [host EXCEPT !.after = "fail"]
  <2>1. h.owned = host.owned /\ host.owned \in BOOLEAN /\ Ends(h)
    BY <1>2 DEF TypeOK, CleansUp
  <2> HIDE DEF h
  <2> QED BY <2>1, OwnedOrFree, EndsOwns
<1> QED BY <1>1, <1>2

LEMMA RecoveryFailsOwns ==
  ASSUME TypeOK, PauseInv, link = "up", RecoveryFails(host) PROVE PauseInv'
<1>1. CASE host.try < Attempts
  <2> DEFINE h == [host EXCEPT !.pc = "boot", !.try = @ + 1]
  <2>1. h.pc = "boot" /\ h.owned = host.owned /\ GoesOn(h)
    BY <1>1 DEF TypeOK, RecoveryFails
  <2> HIDE DEF h
  <2> QED BY <2>1, OwnedOrFree, GoesOnOwns DEF Steps
<1>2. CASE ~(host.try < Attempts)
  <2> DEFINE h == [host EXCEPT !.after = IF @ = "deliver" THEN "fail" ELSE @]
  <2>1. h.owned = host.owned /\ host.owned \in BOOLEAN /\ Ends(h)
    BY <1>2 DEF TypeOK, RecoveryFails
  <2> HIDE DEF h
  <2> QED BY <2>1, OwnedOrFree, EndsOwns
<1> QED BY <1>1, <1>2

LEMMA ClosesOwns ==
  ASSUME TypeOK, PauseInv, link = "up", Closes(host) PROVE PauseInv'
<1>1. CASE ~host.owned
  <2>1. host.owned \in BOOLEAN
    BY DEF TypeOK
  <2> QED BY <1>1, <2>1, OwnedOrFree, EndsOwns DEF Closes
<1>2. CASE host.owned /\ host.framed
  <2>1. At(host, "resume").pc = "resume" /\ At(host, "resume").owned
    BY <1>2 DEF TypeOK, At
  <2> QED BY <1>2, <2>1, GoesOnOwns DEF Closes, Steps
<1>3. CASE host.owned /\ ~host.framed
  <2> DEFINE h == [host EXCEPT !.pc = "boot", !.try = 1]
  <2>1. h.pc = "boot" /\ h.owned /\ GoesOn(h)
    BY <1>3 DEF TypeOK, Closes
  <2> HIDE DEF h
  <2> QED BY <2>1, GoesOnOwns DEF Steps
<1> QED BY <1>1, <1>2, <1>3

LEMMA HostStepsOwn ==
  ASSUME TypeOK, CaptureInv, PauseInv, HostSteps PROVE PauseInv'
<1> USE CleansUpOwns, ReleasedOwns, RecoveryFailsOwns, ClosesOwns, OwnedOrFree
<1>0. link = "up"
  BY DEF CaptureInv, HostSteps, Replied, GotProbe, GotPause, GotVerify, GotRead,
     GotFinal, GotResume, GotBoot, GotCheck, GotRelease, GotRecheck, GotLeave,
     GotReask, GotLeaving
<1>1. \A pc \in Steps : /\ At(host, pc).pc = pc
                        /\ At(host, pc).owned = host.owned
  BY DEF TypeOK, At
<1>2. host.owned \in BOOLEAN
  BY DEF TypeOK
<1>3. CASE GotProbe
  <2>1. CASE rsp = "paused"
    <3>1. GoesOn(At(host, "read"))
      BY <1>3, <2>1 DEF GotProbe
    <3> QED BY <3>1, <1>0, <1>1, GoesOnOwns DEF Steps
  <2>2. CASE rsp = "running"
    <3> DEFINE h == [host EXCEPT !.pc = "pause", !.owned = TRUE, !.try = 1]
    <3>1. h.pc = "pause" /\ h.owned /\ GoesOn(h)
      BY <1>3, <2>2 DEF TypeOK, GotProbe
    <3> HIDE DEF h
    <3> QED BY <3>1, GoesOnOwns DEF Steps
  <2>3. CASE rsp \notin {"paused", "running"}
    <3>1. Ends(host)
      BY <1>3, <2>3 DEF GotProbe
    <3> QED BY <3>1, <1>0, <1>2, EndsOwns
  <2> QED BY <2>1, <2>2, <2>3
<1>4. CASE GotPause
  <2>1. CASE rsp = "ok"
    <3>1. GoesOn(At(host, "verify"))
      BY <1>4, <2>1 DEF GotPause
    <3>2. host.owned
      BY <1>4 DEF GotPause, Replied, PauseInv
    <3>3. At(host, "verify").pc = "verify" /\ At(host, "verify").owned
      BY <3>2 DEF TypeOK, At
    <3> QED BY <3>1, <3>3, GoesOnOwns DEF Steps
  <2> QED BY <1>0, <1>4, <2>1 DEF GotPause
<1>5. CASE GotVerify
  <2>1. CASE rsp = "paused"
    <3> DEFINE h == [host EXCEPT !.pc = "read", !.leased = TRUE]
    <3>1. h.pc = "read" /\ h.owned = host.owned /\ GoesOn(h)
      BY <1>5, <2>1 DEF TypeOK, GotVerify
    <3> HIDE DEF h
    <3> QED BY <3>1, <1>0, GoesOnOwns DEF Steps
  <2>2. CASE rsp = "running" /\ host.try < Attempts
    <3> DEFINE h == [host EXCEPT !.pc = "pause", !.try = @ + 1]
    <3>0. host.owned
      BY <1>5 DEF GotVerify, Replied, PauseInv
    <3>1. h.pc = "pause" /\ h.owned /\ GoesOn(h)
      BY <1>5, <2>2, <3>0 DEF TypeOK, GotVerify
    <3> HIDE DEF h
    <3> QED BY <3>1, GoesOnOwns DEF Steps
  <2>3. CASE rsp = "running" /\ ~(host.try < Attempts)
    <3>1. Released(host)
      BY <1>5, <2>3 DEF TypeOK, GotVerify
    <3> QED BY <3>1, <2>3, <1>0
  <2>4. CASE rsp \notin {"paused", "running"}
    <3>1. CleansUp(host)
      BY <1>5, <2>4 DEF GotVerify
    <3> QED BY <3>1, <1>0
  <2> QED BY <2>1, <2>2, <2>3, <2>4
<1>6. CASE GotRead
  <2>1. CASE rsp = "ok"
    <3> DEFINE h == [host EXCEPT !.reads = @ + 1]
    <3>1. AfterReads(h)
      BY <1>6, <2>1 DEF GotRead
    <3>2. CASE h.reads < Reads
      <4>1. GoesOn(At(h, "read"))
        BY <3>1, <3>2 DEF AfterReads
      <4>2. At(h, "read").pc = "read" /\ At(h, "read").owned = host.owned
        BY DEF TypeOK, At
      <4> QED BY <4>1, <4>2, <1>0, GoesOnOwns DEF Steps
    <3>3. CASE ~(h.reads < Reads) /\ h.leased
      <4>1. GoesOn(At(h, "final"))
        BY <3>1, <3>3 DEF AfterReads
      <4>2. At(h, "final").pc = "final" /\ At(h, "final").owned = host.owned
        BY DEF TypeOK, At
      <4> QED BY <4>1, <4>2, <1>0, GoesOnOwns DEF Steps
    <3>4. CASE ~(h.reads < Reads) /\ ~h.leased
      <4> DEFINE d == [h EXCEPT !.after = "deliver"]
      <4>1. Ends(d) /\ d.owned = host.owned
        BY <3>1, <3>4 DEF AfterReads, TypeOK
      <4> HIDE DEF d
      <4> QED BY <4>1, <1>0, <1>2, EndsOwns
    <3> QED BY <3>2, <3>3, <3>4
  <2> QED BY <1>0, <1>6, <2>1 DEF GotRead
<1>7. CASE GotFinal
  <2>1. CASE rsp = "paused"
    <3> DEFINE h == [host EXCEPT !.pc = "resume", !.after = "deliver"]
    <3>1. h.pc = "resume" /\ h.owned = host.owned /\ GoesOn(h)
      BY <1>7, <2>1 DEF TypeOK, GotFinal
    <3> HIDE DEF h
    <3> QED BY <3>1, <1>0, GoesOnOwns DEF Steps
  <2>2. CASE rsp = "running"
    BY <1>0, <1>7, <2>2 DEF GotFinal
  <2>3. CASE rsp \notin {"paused", "running"}
    <3>1. CleansUp(host)
      BY <1>7, <2>3 DEF GotFinal
    <3> QED BY <3>1, <1>0
  <2> QED BY <2>1, <2>2, <2>3
<1>8. CASE GotResume
  <2>1. CASE rsp = "ok"
    BY <1>0, <1>8, <2>1 DEF GotResume, Replied
  <2>2. CASE rsp # "ok"
    <3> DEFINE h == [host EXCEPT !.pc = "boot", !.try = 1]
    <3>1. h.pc = "boot" /\ h.owned = host.owned /\ GoesOn(h)
      BY <1>8, <2>2 DEF TypeOK, GotResume
    <3> HIDE DEF h
    <3> QED BY <3>1, <1>0, GoesOnOwns DEF Steps
  <2> QED BY <2>1, <2>2
<1>9. CASE GotBoot
  <2> DEFINE h == [host EXCEPT !.pc = "check", !.framed = TRUE]
  <2>1. h.pc = "check" /\ h.owned = host.owned /\ GoesOn(h)
    BY <1>9 DEF TypeOK, GotBoot
  <2> HIDE DEF h
  <2> QED BY <2>1, <1>0, GoesOnOwns DEF Steps
<1>10. CASE GotCheck
  <2>1. CASE rsp = "running"
    BY <1>0, <1>10, <2>1 DEF GotCheck
  <2>2. CASE rsp = "paused"
    <3>1. GoesOn(At(host, "release"))
      BY <1>10, <2>2 DEF GotCheck
    <3> QED BY <3>1, <1>0, <1>1, GoesOnOwns DEF Steps
  <2>3. CASE rsp \notin {"paused", "running"}
    <3>1. RecoveryFails(host)
      BY <1>10, <2>3 DEF GotCheck
    <3> QED BY <3>1, <1>0
  <2> QED BY <2>1, <2>2, <2>3
<1>11. CASE GotRelease
  <2>1. CASE rsp = "ok"
    <3>1. GoesOn(At(host, "recheck"))
      BY <1>11, <2>1 DEF GotRelease
    <3> QED BY <3>1, <1>0, <1>1, GoesOnOwns DEF Steps
  <2> QED BY <1>0, <1>11, <2>1 DEF GotRelease
<1>12. CASE GotRecheck
  BY <1>0, <1>12 DEF GotRecheck
<1>13. CASE GotLeave
  <2>1. CASE rsp = "paused"
    <3>1. GoesOn(At(host, "reask"))
      BY <1>13, <2>1 DEF GotLeave
    <3> QED BY <3>1, <1>0, <1>1, GoesOnOwns DEF Steps
  <2> QED BY <1>0, <1>13, <2>1 DEF GotLeave
<1>14. CASE GotReask
  <2>1. CASE rsp = "paused"
    <3>1. GoesOn(At(host, "leaving"))
      BY <1>14, <2>1 DEF GotReask
    <3> QED BY <3>1, <1>0, <1>1, GoesOnOwns DEF Steps
  <2> QED BY <1>0, <1>14, <2>1 DEF GotReask
<1>15. CASE GotLeaving
  BY <1>0, <1>15 DEF GotLeaving
<1> QED BY <1>3, <1>4, <1>5, <1>6, <1>7, <1>8, <1>9, <1>10, <1>11, <1>12,
           <1>13, <1>14, <1>15 DEF HostSteps

\* Only S pauses a program, and it is sent by a host that owns the pause.
LEMMA ServeOwns ==
  ASSUME TypeOK, CaptureInv, PauseInv, Serve PROVE PauseInv'
<1>0. host.pc \in Steps \cup {"idle"}
  BY DEF TypeOK
<1>1. /\ host' = host /\ link' = link /\ call' = None /\ call # None
      /\ None \notin {"status", "S", "read", "g", "boot", "ok", "refused",
                      "running", "paused"}
  BY LeaseAssumption DEF Serve, ServeStatus, ServeRead, ServePause, ServeResume,
     ServeBoot, Refuse, Replies, Hears
<1>2. rsp = None
  BY <1>1 DEF PauseInv
<1>3. link = "up" => call = "boot" \/ call = Sends(host.pc)
  BY <1>1 DEF CaptureInv
<1>4. CASE ServePause
  <2>1. /\ call = "S" /\ agent'.run = "paused" /\ inherited' = inherited
        /\ rsp' \in {"ok", None}
    BY <1>4 DEF ServePause, Replies, Hears, TypeOK
  <2>2. link = "up" => host.pc = "pause"
    BY <1>0, <1>3, <2>1, SentBy
  <2> QED BY <1>1, <2>1, <2>2 DEF PauseInv
<1>5. CASE ServeResume
  <2>1. agent'.run = "running" /\ inherited' = FALSE /\ rsp' \in {"ok", None}
    BY <1>5 DEF ServeResume, Replies, Resumes, TypeOK
  <2> QED BY <1>1, <2>1 DEF PauseInv
<1>6. CASE ServeStatus \/ ServeRead \/ ServeBoot \/ Refuse
  <2>1. /\ agent'.run = agent.run /\ inherited' = inherited
        /\ rsp' \in {agent.run, "ok", "refused", None}
    BY <1>6, RenewedType DEF ServeStatus, ServeRead, ServeBoot, Refuse, Replies, TypeOK
  <2>2. rsp' = "running" => agent.run = "running"
    BY <1>1, <2>1
  <2>3. link = "up" /\ host.pc = "resume" => rsp' # "ok"
    <3> SUFFICES ASSUME link = "up", host.pc = "resume" PROVE rsp' # "ok"
      OBVIOUS
    <3>1. call = "g"
      BY <1>3 DEF PauseInv, Sends
    <3> QED BY <1>6, <3>1, <1>1 DEF ServeStatus, ServeRead, ServeBoot, Refuse,
          Hears, Replies, TypeOK
  <2> QED BY <1>1, <2>1, <2>2, <2>3 DEF PauseInv
<1> QED BY <1>4, <1>5, <1>6 DEF Serve

LEMMA PauseStep ==
  ASSUME TypeOK, CaptureInv, PauseInv, [Next]_vars PROVE PauseInv'
<1>0. /\ host.pc # "idle" => link = "up"
      /\ None \notin {"status", "S", "read", "g", "boot", "ok", "refused",
                      "running", "paused"}
  BY LeaseAssumption DEF CaptureInv
<1>1. Idle.pc = "idle" /\ Idle.owned = FALSE
  BY DEF Idle
\* The resident lets the program run, or leaves it alone.
<1>2. ASSUME agent'.run \in {agent.run, "running"},
             inherited' = inherited \/ agent'.run = "running",
             host' = host, link' = link, rsp' \in {rsp, "refused"},
             call' \in {call, None}, rsp' = "refused" => call' = None
      PROVE  PauseInv'
  BY <1>0, <1>2 DEF PauseInv
<1>3. CASE Capture
  <2>1. /\ host' = At(Idle, "probe") /\ call' = "status" /\ rsp' = None
        /\ agent' = agent /\ inherited' = inherited /\ link' = link
        /\ ~host.owned
    BY <1>3 DEF Capture
  <2>2. host'.pc = "probe" /\ host'.owned = FALSE
    BY <2>1 DEF At, Idle
  <2> QED BY <1>0, <2>1, <2>2 DEF PauseInv
<1>4. CASE Leave
  <2>1. /\ host'.pc = "leave" /\ host'.owned = host.owned /\ call' = "status"
        /\ rsp' = None /\ link' = link /\ agent' = agent /\ inherited' = inherited
    BY <1>4 DEF Leave, TypeOK, agentVars
  <2> QED BY <1>0, <2>1 DEF PauseInv
<1>5. CASE HostSteps
  BY <1>5, HostStepsOwn
<1>6. CASE BodyFails
  <2>1. /\ rsp' = None /\ agent' = agent /\ inherited' = inherited /\ link' = link
        /\ \/ host.owned /\ host'.pc = "resume" /\ host'.owned /\ call' = "g"
           \/ ~host.owned /\ host'.pc = "idle" /\ ~host'.owned /\ call' = None
    BY <1>1, <1>6 DEF BodyFails, At, TypeOK, agentVars
  <2> QED BY <1>0, <2>1 DEF PauseInv
<1>7. CASE GiveUp \/ Crash
  <2>1. /\ host' = Idle /\ link' # "up" /\ rsp' = None
        /\ agent' = agent
    BY <1>7 DEF GiveUp, Crash, agentVars
  <2> QED BY <1>0, <1>1, <2>1 DEF PauseInv
<1>8. CASE BootLost
  <2>1. rsp' = None /\ agent' = agent /\ inherited' = inherited
    BY <1>8 DEF BootLost, agentVars
  <2>2. CASE host.try < Attempts
    <3>1. host'.pc = "boot" /\ host'.owned = host.owned /\ link' = link
      BY <1>8, <2>2 DEF BootLost, TypeOK
    <3> QED BY <1>0, <2>1, <3>1 DEF PauseInv
  <2>3. CASE ~(host.try < Attempts)
    <3>1. /\ host'.pc = "idle" /\ host'.owned = (host.after # "close")
          /\ link' = IF host.after = "close" THEN "closed" ELSE link
      BY <1>8, <2>3 DEF BootLost, Idle
    <3> QED BY <1>0, <2>1, <3>1 DEF PauseInv
  <2> QED BY <2>2, <2>3
<1>9. CASE Detach
  BY <1>0, <1>9 DEF Detach, agentVars, PauseInv
<1>10. CASE Attach
  <2>1. /\ host' = host /\ link # "up" /\ call' = None /\ rsp' = rsp
        /\ agent'.run = agent.run /\ inherited' = (agent.run = "paused")
    BY <1>10, RenewedType DEF Attach
  <2>2. host.pc = "idle"
    BY <1>0, <2>1
  <2> QED BY <1>0, <2>1, <2>2 DEF PauseInv
<1>11. CASE Serve
  BY <1>11, ServeOwns
<1>12. CASE Damage
  <2>1. agent'.run = agent.run
    BY <1>12, RenewedType DEF Damage
  <2> QED BY <1>2, <1>12, <2>1 DEF Damage
<1>13. CASE Expire
  <2>1. agent'.run \in {agent.run, "running"}
        /\ (inherited' = inherited \/ agent'.run = "running")
    BY <1>13 DEF Expire, TimedOut, Resumes, TypeOK
  <2>2. rsp' = "refused" => call' = None
    BY <1>0, <1>13 DEF Expire, PauseInv
  <2> QED BY <1>2, <1>13, <2>1, <2>2 DEF Expire
<1>14. CASE Cut
  <2>1. agent'.run \in {agent.run, "running"}
        /\ (inherited' = inherited \/ agent'.run = "running")
    BY <1>14 DEF Cut, TimedOut, Resumes, TypeOK, agentVars
  <2>2. CASE line = "tcp" /\ link = "up"
    <3>1. host' = Idle /\ link' # "up" /\ rsp' = rsp /\ rsp = None
      BY <1>14, <2>2 DEF Cut, PauseInv
    <3> QED BY <1>0, <1>1, <3>1 DEF PauseInv
  <2>3. CASE ~(line = "tcp" /\ link = "up")
    BY <1>2, <1>14, <2>1, <2>3 DEF Cut
  <2> QED BY <2>2, <2>3
<1>15. CASE SessionLost
  <2>1. /\ agent'.run = "running" /\ link' # "up" /\ host' = host /\ link # "up"
        /\ rsp' = rsp /\ call' = None
    BY <1>15 DEF SessionLost, Resumes, TypeOK
  <2> QED BY <1>0, <2>1 DEF PauseInv
<1>16. CASE UNCHANGED vars
  BY <1>16 DEF vars, PauseInv
<1> QED BY <1>3, <1>4, <1>5, <1>6, <1>7, <1>8, <1>9, <1>10, <1>11, <1>12, <1>13,
           <1>14, <1>15, <1>16 DEF Next

(***************************************************************************)
(* When a context of snapshot_lease or a disconnect is over on a usable     *)
(* attachment and nothing is left to clean up, the program runs, unless it  *)
(* was paused before the host came: no failure of the body, refused resume  *)
(* or lost answer makes the host forget a pause.                            *)
(***************************************************************************)
THEOREM PausesAreOwned == Spec => []PauseIsOwned
<1>1. Init => PauseInv
  BY LeaseAssumption DEF Init, Idle, PauseInv
<1>2. TypeOK /\ CaptureInv /\ PauseInv /\ [Next]_vars
        => (TypeOK /\ CaptureInv /\ PauseInv)'
  BY TypeStep, CaptureStep, PauseStep DEF CaptureInv
<1>3. TypeOK /\ PauseInv => PauseIsOwned
  BY DEF TypeOK, PauseInv, PauseIsOwned
<1> QED BY InitInv, <1>1, <1>2, <1>3, PTL DEF Spec
=============================================================================
