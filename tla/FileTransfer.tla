------------------------------ MODULE FileTransfer ------------------------------
(***************************************************************************)
(* A file transfer from end to end: put_file or get_file on the host, the  *)
(* resident that serves its requests, the DOS helper, and the disks of     *)
(* both ends, under crashes of the host's process, losses of the session,  *)
(* power losses of the MSX, DOS errors, cancellations and deadlines.       *)
(***************************************************************************)
EXTENDS PutHelper, GetHelper, PutHost, GetHost

vars == <<host, journal, used, done, local, x, hlp, disk,
          call, rsp, linked, typed, file, faults>>

MsxVars == <<x, hlp, disk>>
HostVars == <<hostVars, local>>

\* The directory may hold files of the names that a PUT needs, and not hold
\* the file of a GET.
Source(blocks) == [File(blocks, Len(blocks)) EXCEPT !.mine = FALSE]
Init ==
  /\ HostInit /\ LocalInit
  /\ x = IdleTransfer /\ hlp = AtPrompt
  /\ file \in [blocks : Sizes, packed : BOOLEAN, get : BOOLEAN]
  /\ file.get => ~file.packed
  /\ \E out \in {None} \cup (IF file.get THEN {} ELSE Foreigns),
        target \in {None} \cup (IF file.get THEN {Source(Whole)} ELSE Foreigns) :
       disk = [meta |-> [i \in Ids |-> None], part |-> [i \in Ids |-> None],
               out |-> [i \in Ids |-> out], target |-> target]
  /\ typed = None /\ faults = 0

\* Nobody is sending blocks to the helper, or taking them: its minute runs
\* out, long before the ten of the host, also when the host waits for a second
\* helper whose command line the first one keeps from the prompt.
NoBlockComes ==
  \/ host.pc = "idle" \/ ~linked
  \/ host.pc \in {"type", "typing"} /\ typed # None
  \/ x.state \notin Moving

HostSteps ==
  \/ PutHostSteps /\ UNCHANGED local
  \/ GetHostSteps
  \/ SharedHostSteps /\ UNCHANGED local

HostAction ==
  /\ \/ HostSteps
     \/ (Puts \/ Stalls) /\ UNCHANGED local
     \/ Gets
     \/ GiveUp /\ LosesUnsynced
  /\ UNCHANGED MsxVars

AgentAction == Serve /\ UNCHANGED <<hlp, disk, HostVars>>

Reconnect ==
  host.pc = "idle" /\ Rebootstrap /\ UNCHANGED <<hlp, disk, HostVars>>

HelperSteps ==
  \/ PutHelperSteps \/ GetHelperSteps
  \/ Start \/ Claim \/ EnterPump \/ LeavePump \/ Postprocess \/ Finish \/ Fail

HelperAction == HelperSteps /\ UNCHANGED HostVars

Interrupted ==
  (TimesOut(NoBlockComes) \/ DosError) /\ UNCHANGED HostVars

\* The MSX restarts, with its agent: the request in flight is lost.
Reset ==
  /\ Fault("reset")
  /\ PowerLoss
  /\ typed' = None /\ call' = None /\ rsp' = None /\ linked' = FALSE
  /\ UNCHANGED <<file, HostVars>>

\* Another program takes the target's name, for other contents; or changes
\* the file between two helpers of a GET, or takes the destination's name.
IntrudeTarget ==
  /\ ~file.get /\ disk.target = None
  /\ \E f \in Foreigns :
       f.data # Whole /\ disk' = [disk EXCEPT !.target = f]
  /\ UNCHANGED local
ChangeSource ==
  /\ file.get
  /\ \E v \in Versions : disk' = [disk EXCEPT !.target = Source(v)]
  /\ UNCHANGED local
IntrudeDest ==
  /\ file.get /\ local.dest = None
  /\ local' = [local EXCEPT !.dest = ForeignDest]
  /\ UNCHANGED disk
Intrude ==
  /\ hlp.pc = "prompt"
  /\ Fault("intruder")
  /\ IntrudeTarget \/ ChangeSource \/ IntrudeDest
  /\ UNCHANGED <<x, hlp, hostVars, call, rsp, linked, typed, file>>

Next ==
  \/ HostAction \/ AgentAction \/ Reconnect
  \/ HelperAction \/ Interrupted \/ Reset \/ Intrude

Spec == Init /\ [][Next]_vars

\* A caller that starts a helper has confirmed the DOS prompt; otherwise it
\* only attaches to a transfer that is there.
PromptConfirmed == hlp.pc = "prompt" /\ typed = None
Launches == host.pc = "idle" /\ host'.pc # "idle" /\ ~host'.attach
CarefulNext == Next /\ (Launches => PromptConfirmed)

\* The helper and the host's call run; a frame that arrives is served, at the
\* latest by a pump call; the line is found again after a loss; a minute
\* without a block ends the helper; and a user who wants the file there calls
\* again when the call fails.
CallerRepeats(start) == start /\ PromptConfirmed /\ UNCHANGED MsxVars
StartAnew ==
  Matching = {} /\ ((PutAnew /\ UNCHANGED local) \/ GetAnew)
StartAgain == (PutResume(FALSE) /\ UNCHANGED local) \/ GetResume(FALSE)
Fairness ==
  /\ WF_vars(HelperAction)
  /\ WF_vars(HostSteps /\ UNCHANGED MsxVars)
  /\ SF_vars(AgentAction)
  /\ SF_vars(Reconnect)
  /\ WF_vars(~linked /\ GiveUp /\ UNCHANGED <<local, MsxVars>>)
  /\ SF_vars(NoBlockComes /\ TimesOut(NoBlockComes) /\ UNCHANGED HostVars)
  /\ WF_vars(CallerRepeats(StartAnew))
  /\ SF_vars(CallerRepeats(StartAgain))

FairSpec == Init /\ [][CarefulNext]_vars /\ Fairness

----------------------------------------------------------------------------
\* Properties.

\* The variables of the three parties keep their types and widths.
TypeOK == HostTypeOK /\ ResidentTypeOK /\ HelperTypeOK

Receiving == {"pump", "pumping", "poll", "release", "write", "ensure", "commit"}

\* No block is lost, repeated or out of place.  In a PUT, whenever the
\* resident offers to take data, what it has accepted is what the helper has
\* accumulated or written, plus the block in the mailbox; and once it has
\* accepted a block for this helper, all of it is the file's, in order:
\* nothing is ever added to a partial file whose tail a power loss damaged.
\* In a GET, the block on offer is the one at the offset it is offered at,
\* however often the host came back and had the helper seek.
Held ==
  IF hlp.pc \in {"ensure", "commit"} THEN hlp.crc
  ELSE IF hlp.pc \in {"release", "write"} THEN hlp.crc \o hlp.acc
  ELSE hlp.crc \o hlp.acc \o x.pending

OnOffer == x.state \in Moving /\ x.ready /\ x.pending # <<>>
NothingLost ==
  IF file.get THEN OnOffer => x.pending = <<x.whole[x.accepted]>>
  ELSE x.state \in Moving /\ hlp.pc \in Receiving =>
         /\ hlp.id = x.id
         /\ Len(Held) = x.accepted
         /\ x.accepted > x.from => Held = Prefix(x.accepted)

\* What the host has journalled as durable survives any loss of power.  In a
\* PUT it was ENSUREd, or the publication that needs it no more has begun; in
\* a GET it was fsynced, or the destination has its name.
HasPrefix(f, n) == f # None /\ f.safe >= n /\ SubSeq(f.data, 1, n) = Prefix(n)
Synced(f, blocks) == f # None /\ f.safe >= Len(blocks) /\ HoldsPrefix(f, blocks)
JournalBacked ==
  \A i \in Ids :
    journal[i] # None /\ journal[i].off > 0 =>
      IF file.get
        THEN Synced(local.part[i], journal[i].prefix) \/ local.dest # None
        ELSE \/ HasPrefix(disk.part[i], journal[i].off)
             \/ disk.meta[i] \in {"PUBLISHING", "PUBLISHED"}
             \/ Complete(disk.target)

TargetHolds ==
  CASE disk.target = None -> "absent"
    [] disk.target \in Foreigns -> "foreign"
    [] disk.target \notin Foreigns /\ Complete(disk.target) -> "whole"
    [] OTHER -> "damaged"
DestHolds ==
  IF local.dest = None THEN "absent"
  ELSE IF local.dest = ForeignDest THEN "foreign"
  ELSE IF local.dest.data \in Versions THEN "whole"
  ELSE "damaged"

Atomic ==
  INSTANCE AtomicTransfer
    WITH target <- IF file.get THEN DestHolds ELSE TargetHolds,
         reported <- (done # {})

\* The name a transfer is for never holds part of the file, or parts of two
\* versions of it, somebody else's file is never replaced, and a transfer that
\* returned left the whole file there.
ImplementsAtomicTransfer == Atomic!Spec

\* A cancelled transfer never moves again: the next step of its helper is to
\* close its files and return to the prompt.
CancelledStaysTerminal ==
  [][x.state = "CANCELLED" => x'.state \notin Moving]_vars

\* A scratch output that this transfer did not create is never deleted or
\* overwritten, in whatever phase the helper stops.
ScratchOwned ==
  [][\A i \in Ids :
       disk.out[i] \in Foreigns => disk'.out[i] = disk.out[i]]_vars

\* However the host, the session and the helper fail, the helper comes back
\* to the DOS prompt: it never waits for a host that will not speak again.
HelperReturns == hlp.pc # "prompt" ~> hlp.pc = "prompt"

\* A user who repeats a transfer that failed gets it done, once the faults are
\* over and unless somebody else's file has the name.  The window never
\* leaves host and helper waiting for each other.
NamesAreFree ==
  IF file.get THEN disk.target # None
  ELSE disk.target \notin Foreigns /\ \A i \in Ids : disk.out[i] \notin Foreigns
Arrived == IF file.get THEN local.dest # None ELSE done # {}
TransferCompletes == []NamesAreFree => <>Arrived
===============================================================================
