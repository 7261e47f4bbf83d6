---------------------------- MODULE ProgramTools ----------------------------
(***************************************************************************)
(* The msx_agent_* handlers that put a program on a real MSX and run it:   *)
(* app_load, asm_load, run_basic and reboot of server/msx_mcp_server.py,   *)
(* with the operations of server/msx_real.py they call.  A job is one call *)
(* of a tool; an Exchange is one request of it to the agent, which may be  *)
(* lost before or behind its effect.  While a job runs the machine goes on *)
(* by itself, and somebody may use its keyboard.                           *)
(***************************************************************************)
EXTENDS MsxPrograms

CONSTANTS
  FormatsAsked,      \* values of the argument format
  MaxJobs, MaxFaults

ASSUME ToolsAssumption ==
  FormatsAsked \subseteq Formats \cup {"auto"} /\ MaxJobs \in Nat /\ MaxFaults \in Nat

VARIABLES
  job,      \* the call in progress, or the last one that ended
  link,     \* "up", "quarantined", or "closed"
  touched,  \* history: the job changed something on the machine
  jobs, faults

vars == <<machine, hands, job, link, touched, jobs, faults>>

BasicPromptAttempts == 3     \* BASIC_PROMPT_ATTEMPTS
ToolNames == {"load", "asm", "basic", "file", "reboot"}
Results == {"none", "ok", "refused", "failed"}

NoApplication == [format |-> "none", segments |-> <<>>]
Idle == [tool |-> "none", pc |-> "idle", result |-> "none",
         app |-> NoApplication, entry |-> NoEntry, verify |-> FALSE,
         route |-> "direct", at |-> 1, cell |-> 0,
         lines |-> <<>>, after |-> "done", next |-> "done", tries |-> 0,
         keeps |-> FALSE]

Init ==
  /\ MachineInit
  /\ job = Idle /\ link = "up" /\ touched = FALSE /\ jobs = 0 /\ faults = 0

Ended(result) ==
  [Idle EXCEPT !.tool = job.tool, !.result = result, !.app = job.app, !.keeps = job.keeps]
Goes(pc) == IF pc = "done" THEN Ended("ok") ELSE [job EXCEPT !.pc = pc]
Runtime == machine.runtime

----------------------------------------------------------------------------
(* One request.  A session of a resident is quarantined when an answer is  *)
(* lost, and msx_agent_reboot then gives up the attachment; the session of *)
(* a monitor only fails the call.                                          *)

AfterLoss ==
  CASE job.tool = "reboot" -> "closed"
    [] job.tool # "reboot" /\ Runtime = "resident" -> "quarantined"
    [] OTHER -> "up"

Exchange(effect, onward, linkAfter) ==
  /\ link = "up"
  /\ \/ machine' = effect /\ job' = onward /\ link' = linkAfter /\ UNCHANGED faults
     \/ /\ faults < MaxFaults /\ faults' = faults + 1
        /\ machine' \in {machine, effect}
        /\ link' = AfterLoss /\ job' = Ended("failed")
  /\ touched' = (touched \/ machine' # machine)
  /\ UNCHANGED <<hands, jobs>>

Asks(onward) == Exchange(machine, onward, "up")
Does(effect, onward) == Exchange(effect, onward, "up")

\* A call is refused before it asked anything of the machine.
Begin(new) ==
  /\ job.pc = "idle" /\ link = "up" /\ jobs < MaxJobs
  /\ jobs' = jobs + 1 /\ touched' = FALSE
  /\ job' = new
  /\ machine' = [machine EXCEPT !.ram = [c \in DOMAIN @ |-> 0], !.temp = FALSE,
                   !.vram = [c \in DOMAIN @ |-> 0], !.ran = <<"nothing">>]
  /\ UNCHANGED <<hands, link, faults>>

Refused(tool) == [Idle EXCEPT !.tool = tool, !.result = "refused"]

----------------------------------------------------------------------------
(* msx_agent_app_load.                                                     *)

\* What _validate_basic_bload and the wait for the prompt want.
BasicTakes(app, entry) ==
  /\ app.format = "bload"
  /\ app.segments[1].address >= 4
  /\ entry.mode # "none" => entry.address \in CellsOf(app.segments[1])
  /\ Runtime = "resident"

RunIsOffered == Runtime = "monitor"       \* CAPABILITY_RUN

\* _preflight_agent_direct.
DirectTakes(app, entry) ==
  /\ entry.mode # "none" => RunIsOffered
  /\ \A i \in DOMAIN app.segments :
       app.segments[i].space = "ram" =>
         CellsOf(app.segments[i]) \cap AgentCells(Runtime) = {}
  /\ entry.mode # "none" => entry.address \notin AgentCells(Runtime)

\* The overlap rules of both runtimes come down to the cells of the agent,
\* which nothing in memory lies behind.
Accepts(app, entry, route) ==
  /\ app # Invalid
  /\ entry.mode # "none" => entry.address # Nowhere
  /\ IF route = "basic" THEN BasicTakes(app, entry)
                        ELSE DirectTakes(app, entry) /\ BackendServes(app)

\* What the calls come down to: the parsed file, its entry and the route.
LoadRequest(file, format, execute, environment, verify) ==
  LET app == ParseApplication(file, format)
      route == IF \/ environment = "basic"
                  \/ environment = "auto" /\ app.format = "bload"
               THEN "basic" ELSE "direct"
  IN [app |-> app, route |-> route, verify |-> verify \/ route = "basic",
      entry |-> IF app = Invalid THEN NoEntry ELSE EffectiveEntry(app, execute)]
LoadRequests ==
  {LoadRequest(file, format, execute, environment, verify) :
     file \in Files, format \in FormatsAsked, execute \in EntryModes \cup {"default"},
     environment \in {"auto", "direct", "basic"}, verify \in BOOLEAN}

BeginLoad ==
  \E asked \in LoadRequests :
    LET first == CASE asked.route = "basic" -> "screen"
                   [] asked.route = "direct" /\ Runtime = "monitor" -> "status"
                   [] OTHER -> "write"
    IN Begin(IF Accepts(asked.app, asked.entry, asked.route)
             THEN [Idle EXCEPT !.tool = "load", !.pc = first, !.app = asked.app,
                     !.entry = asked.entry, !.route = asked.route, !.next = "write",
                     !.verify = asked.verify]
             ELSE Refused("load"))

\* Mutant: a running program is not stopped before the image is written.
AsksStatusOnly == job.pc = "status" /\ Asks(Goes("write"))

\* RealMSX.stop: what the monitor launched before is abandoned.
AsksStatus ==
  /\ job.pc = "status"
  /\ Asks(Goes(IF machine.os = "busy" THEN "pause" ELSE "stop"))

\* pause() asks again.  A program that has ended cannot be paused.
AsksPause ==
  /\ job.pc = "pause"
  /\ Asks(IF machine.os = "busy" THEN Goes("freeze") ELSE Ended("failed"))

Freezes ==
  /\ job.pc = "freeze"
  /\ IF machine.os = "busy"
     THEN Does([machine EXCEPT !.os = "paused"], Goes("stop"))
     ELSE Asks(Ended("failed"))

Stops ==
  /\ job.pc = "stop"
  /\ Does([machine EXCEPT !.os = "monitor"], Goes("write"))

----------------------------------------------------------------------------
(* poke, vpoke, peek and vpeek: a range is checked where it is used, then  *)
(* written or read request by request.                                     *)

Segment == job.app.segments[job.at]
SegmentsAreDone == job.at > Len(job.app.segments)

\* Mutant: the range of RAM is checked against its end only.
RangeAllowedAnywhere(segment) ==
  Fits(segment.address, segment.length,
       IF segment.space = "ram" THEN RamCells ELSE machine.vramSize)

RangeAllowed(segment) ==
  IF segment.space = "ram"
  THEN /\ Fits(segment.address, segment.length, RamCells)
       /\ CellsOf(segment) \cap AgentCells(Runtime) = {}
  ELSE Fits(segment.address, segment.length, machine.vramSize)

WithCell(space, cell) ==
  CASE space = "vram" -> [machine EXCEPT !.vram[cell] = job.at]
    [] space = "ram" /\ Writable(cell) -> [machine EXCEPT !.ram[cell] = job.at]
    [] OTHER -> machine

\* Mutant: a range that is refused late is reported like one refused first.
WriteRefusedEarly ==
  /\ job.pc = "write" /\ ~SegmentsAreDone /\ job.cell = 0
  /\ ~RangeAllowed(Segment)
  /\ job' = Ended("refused")
  /\ UNCHANGED <<machine, hands, link, touched, jobs, faults>>

WriteRefused ==
  /\ job.pc = "write" /\ ~SegmentsAreDone /\ job.cell = 0
  /\ ~RangeAllowed(Segment)
  /\ job' = Ended("failed")
  /\ UNCHANGED <<machine, hands, link, touched, jobs, faults>>

NextSegment == [job EXCEPT !.at = @ + 1, !.cell = 0]

WriteCell ==
  /\ job.pc = "write" /\ ~SegmentsAreDone /\ RangeAllowed(Segment)
  /\ job.cell < Segment.length
  /\ Does(WithCell(Segment.space, Segment.address + job.cell),
          [job EXCEPT !.cell = @ + 1])

ReadBack(segment) ==
  \A cell \in CellsOf(segment) :
     IF segment.space = "ram" THEN machine.ram[cell] = job.at
                              ELSE machine.vram[cell] = job.at

Verifies ==
  /\ job.pc = "write" /\ ~SegmentsAreDone /\ RangeAllowed(Segment)
  /\ job.cell = Segment.length
  /\ IF job.verify /\ Segment.length > 0
     THEN Asks(IF ReadBack(Segment) THEN NextSegment ELSE Ended("failed"))
     ELSE /\ job' = NextSegment
          /\ UNCHANGED <<machine, hands, link, touched, jobs, faults>>

Loaded ==
  /\ job.pc = "write" /\ SegmentsAreDone
  /\ job' = CASE job.entry.mode = "none" -> Ended("ok")
              [] job.entry.mode # "none" /\ job.route = "direct" -> Goes("execute")
              [] OTHER -> [Goes("type") EXCEPT !.lines = <<"USR">>, !.tries = 0,
                             !.after = IF job.entry.mode = "call" THEN "probe" ELSE "done",
                             !.next = "done"]
  /\ UNCHANGED <<machine, hands, link, touched, jobs, faults>>

\* The monitor refuses to call or run while what it launched still runs.  A
\* call returns first and is answered then.
Executes ==
  /\ job.pc = "execute"
  /\ LET ran == [machine EXCEPT !.ran = <<"image", machine.ram, machine.vram, jobs>>]
     IN IF machine.os = "monitor"
        THEN Does(IF job.entry.mode = "run" THEN [ran EXCEPT !.os = "busy"] ELSE ran,
                  Ended("ok"))
        ELSE Asks(Ended("failed"))

----------------------------------------------------------------------------
(* The screen, the keyboard, and the prompt behind them.                   *)

\* A prompt has read what was typed before a screen is captured.
Settled == AtPrompt => machine.ring = <<>>

LooksAtScreen ==
  /\ job.pc = "screen" /\ Settled
  /\ Asks(CASE machine.shows = "basic" -> Goes(job.next)
            [] machine.shows = "dos" ->
                 [Goes("type") EXCEPT !.lines = <<"BASIC">>, !.after = "probe"]
            [] OTHER -> Ended("refused"))

\* Mutant: the next line is sent while the machine still reads this one.
TypesLineAhead ==
  /\ job.pc = "type"
  /\ Does(Typed(Head(job.lines), jobs),
          IF Tail(job.lines) = <<>> THEN Goes(job.after)
                                    ELSE [job EXCEPT !.lines = Tail(@)])

\* type_line sends one line and returns when the ring is empty again.
TypesLine ==
  /\ job.pc = "type"
  /\ Does(Typed(Head(job.lines), jobs), [Goes("drain") EXCEPT !.lines = Tail(@)])

Drained ==
  /\ job.pc = "drain" /\ machine.ring = <<>>
  /\ Asks(Goes(IF job.lines # <<>> THEN "type" ELSE job.after))

\* The deadline of the wait: what runs does not read what was typed, and
\* what is in the ring stays there.
NeverDrained ==
  /\ job.pc \in {"drain", "empty"} /\ machine.ring # <<>> /\ ~AtPrompt
  /\ job' = Ended("failed")
  /\ UNCHANGED <<machine, hands, link, touched, jobs, faults>>

Probes ==
  /\ job.pc = "probe" /\ Settled
  /\ Asks(CASE machine.shows = "basic" -> Goes(job.next)
            [] machine.shows # "basic" /\ job.tries + 1 < BasicPromptAttempts ->
                 [job EXCEPT !.tries = @ + 1]
            [] OTHER -> Ended("failed"))

----------------------------------------------------------------------------
(* msx_agent_asm_load: no stop, no read-back, and the entry where the code *)
(* is.                                                                     *)

Code(cell) == [format |-> "asm",
               segments |-> <<[space |-> "ram", address |-> cell, length |-> 1]>>]

BeginAsm ==
  \E cell \in 0 .. RamCells - 1, execute \in EntryModes :
    Begin(IF execute # "none" /\ ~RunIsOffered
          THEN Refused("asm")
          ELSE [Idle EXCEPT !.tool = "asm", !.pc = "write", !.app = Code(cell),
                  !.entry = IF execute = "none" THEN NoEntry
                            ELSE [mode |-> execute, address |-> cell]])

----------------------------------------------------------------------------
(* msx_agent_run_basic and msx_agent_run_basic_file.  The caller confirms  *)
(* what the machine is at; here it tells the truth.                        *)

ConfirmedAt(os) ==
  Runtime = "resident" /\ machine.os = os /\ machine.ring = <<>>

BeginBasic ==
  \E os \in {"dos", "basic"}, clear \in BOOLEAN :
    /\ ConfirmedAt(os)
    /\ Begin([Idle EXCEPT !.tool = "basic", !.pc = "type", !.keeps = ~clear,
                !.lines = (IF os = "dos" THEN <<"BASIC">> ELSE <<>>)
                            \o (IF clear THEN <<"NEW">> ELSE <<>>) \o <<"LINE", "RUN">>])

BeginFile ==
  /\ ConfirmedAt("dos")
  /\ Begin([Idle EXCEPT !.tool = "file", !.pc = "put",
              !.lines = <<"BASIC", "LOAD", "KILL:RUN">>])

\* put_file: the file is there and its worker is about to end, or not.
Puts ==
  /\ job.pc = "put" /\ link = "up"
  /\ \/ /\ machine' = [machine EXCEPT !.temp = TRUE, !.os = "worker", !.shows = "other"]
        /\ job' = Goes("type") /\ UNCHANGED <<link, faults>>
     \/ /\ faults < MaxFaults /\ faults' = faults + 1
        /\ \E temp \in BOOLEAN, os \in {"dos", "worker"} :
             machine' = [machine EXCEPT !.temp = temp, !.os = os]
        /\ job' = Ended("failed") /\ link' \in {"up", "quarantined"}
  /\ touched' = TRUE
  /\ UNCHANGED <<hands, jobs>>

----------------------------------------------------------------------------
(* msx_agent_reboot, and the way around for an agent that does not know R. *)

BeginReboot ==
  /\ Runtime = "resident"
  /\ Begin([Idle EXCEPT !.tool = "reboot", !.pc = "reboot", !.next = "empty"])

Reboots ==
  /\ job.pc = "reboot"
  /\ IF machine.native
     THEN Exchange([machine EXCEPT !.os = "gone"], Ended("ok"), "closed")
     ELSE Asks(Goes("screen"))

\* enqueue_terminal_line: an empty ring first, then the whole line at once.
FindsRingEmpty ==
  /\ job.pc = "empty" /\ machine.ring = <<>>
  /\ Asks(Goes("publish"))

\* Mutant: the count in the answer is not looked at.
PublishesAccepted ==
  /\ job.pc = "publish"
  /\ Exchange(Typed("REBOOT", jobs), Ended("ok"), "closed")

\* The answer counts what is pending: a key that came in between shows.
Publishes ==
  /\ job.pc = "publish"
  /\ Exchange(Typed("REBOOT", jobs),
              Ended(IF machine.ring = <<>> THEN "ok" ELSE "failed"), "closed")

\* The operator connects again, after a reboot to the machine that is back.
Attach ==
  /\ link \in {"quarantined", "closed"} /\ job.pc = "idle" /\ ~Terminal
  /\ link' = "up"
  /\ UNCHANGED <<machine, hands, job, touched, jobs, faults>>

----------------------------------------------------------------------------
Handler ==
  \/ BeginLoad \/ BeginAsm \/ BeginBasic \/ BeginFile \/ BeginReboot
  \/ AsksStatus \/ AsksPause \/ Freezes \/ Stops
  \/ WriteRefused \/ WriteCell \/ Verifies \/ Loaded \/ Executes
  \/ LooksAtScreen \/ TypesLine \/ Drained \/ NeverDrained \/ Probes
  \/ Puts \/ Reboots \/ FindsRingEmpty \/ Publishes

Next ==
  \/ Handler
  \/ Attach
  \/ MachineStep /\ UNCHANGED <<job, link, touched, jobs, faults>>

Spec == Init /\ [][Next]_vars

----------------------------------------------------------------------------
TypeOK ==
  /\ machine.os \in {"dos", "basic", "starting", "busy", "paused", "worker",
                     "monitor", "gone"}
  /\ machine.shows \in {"dos", "basic", "other"}
  /\ job.tool \in ToolNames \cup {"none"} /\ job.result \in Results
  /\ link \in {"up", "quarantined", "closed"}
  /\ touched \in BOOLEAN

\* Nobody else has used the machine and the answers have all come.
Undisturbed == hands = 0

(* Code that app_load submits, by the monitor's call or run or by BASIC's   *)
(* USR, finds every cell of its image: RAM and VRAM hold all segments, the  *)
(* later one where two overlap (load_application; stop, poke and vpoke).    *)
RunsItsImage ==
  /\ job.tool = "load" /\ Undisturbed
  /\ Len(machine.ran) = 4 /\ machine.ran[1] = "image" /\ machine.ran[4] = jobs
  => \A cell \in DOMAIN ImageIn(job.app, "ram") :
        machine.ran[2][cell] = ImageIn(job.app, "ram")[cell]
     /\ \A c \in DOMAIN ImageIn(job.app, "vram") :
          machine.ran[3][c] = ImageIn(job.app, "vram")[c]

(* A call that is refused has changed nothing on the machine: no memory, no *)
(* key, no stopped program ("No target state was changed").                 *)
RefusalChangesNothing == job.result = "refused" => ~touched

(* No tool writes over the memory the agent runs in, whatever the file or   *)
(* the caller says (the range checks of poke).                              *)
AgentIntact == \A cell \in AgentCells(Runtime) : machine.ram[cell] = 0

(* A reboot that may have been submitted ends the attachment, and one that  *)
(* is reported as submitted is the first thing BASIC reads: nothing that    *)
(* was typed on the machine stands before it (enqueue_terminal_line).       *)
RebootIsTerminal ==
  /\ Terminal => link = "closed"
  /\ job.tool = "reboot" /\ job.result = "ok" /\ Terminal /\ machine.os # "gone"
       => Head(machine.ring).text = "REBOOT"

(* run_basic reports success when BASIC has read the whole text: then what  *)
(* runs is the program of the call and nothing of an older one, and a file  *)
(* that brought it is deleted.                                              *)
BasicRunsTheProgram ==
  /\ job.tool \in {"basic", "file"} /\ job.result = "ok" /\ Undisturbed
  => /\ ~machine.temp
     /\ ~job.keeps => machine.ran = <<"new">>
=============================================================================
