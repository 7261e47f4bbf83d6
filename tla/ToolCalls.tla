------------------------------ MODULE ToolCalls ------------------------------
(***************************************************************************)
(* The MCP server around its two channels: the locks, worker threads,      *)
(* cancellation and shutdown of server/mcp_runtime.py, the target slots of *)
(* Session (server/msx_mcp_server.py), and the openMSX client under them.  *)
(* A call is a tool, the locks it still needs, and the steps its handler   *)
(* still has to do; a step of the openMSX channel is one command.  RealMSX *)
(* is here only what Session owns of it: a listener or a link.             *)
(***************************************************************************)
EXTENDS LocalTools, Naturals, FiniteSets

CONSTANTS
  MaxCalls,    \* tool calls that a behaviour may see, numbered as they arrive
  Tools,       \* the tools they name
  FaultKinds,  \* subset of {"spawn", "slow", "hang", "exit", "nok", "link"}
  MaxFaults

Lifespan == 0
Calls == 1..MaxCalls
Workers == Calls \cup {Lifespan}

ASSUME ToolAssumption ==
  MaxCalls \in Nat /\ MaxFaults \in Nat /\ Nobody \notin Workers

VARIABLES
  server,  \* "serving", "closing", "closed"
  call,    \* the calls, and the shutdown of the lifespan as one of them
  lock,    \* RuntimeState: who holds target, local and agent
  slot,    \* Session: what is published
  link,    \* the RealMSX object Session or a handler owns
  dir,     \* the disposable directory of a bench exists
  emu,     \* the openMSX object and its emulator
  faults

vars == <<server, call, lock, slot, link, dir, emu, faults>>

Locks == {"target", "local", "agent"}
Diagnostics == {"local_status", "local_screen", "local_screenshot"}
LocalLifecycle == {"local_boot", "local_boot_auto", "local_attach",
                   "local_shutdown"}
AgentLifecycle == {"agent_listen", "agent_connect", "agent_disconnect",
                   "agent_reboot"}
BenchLifecycle == {"bench_start", "bench_status", "bench_shutdown"}
LocalTools == DOMAIN LocalProgram \cup LocalLifecycle
AgentTools == AgentLifecycle \cup {"agent_op"}
NoTargetIo == {"docs_search", "targets_status", "local_doctor"}
AllTools == LocalTools \cup AgentTools \cup BenchLifecycle \cup NoTargetIo
            \cup {"shutdown_all"}

----------------------------------------------------------------------------
\* The locks of a tool, in the order they are taken.

\* Mutant: diagnostics are local tools like any other.
ScopePlain(tool) ==
  IF tool \in NoTargetIo THEN <<>>
  ELSE IF tool \in BenchLifecycle \cup {"shutdown_all"}
    THEN <<"target", "local", "agent">>
  ELSE IF tool \in LocalTools THEN <<"target", "local">>
  ELSE <<"target", "agent">>

Scope(tool) ==
  IF tool \in NoTargetIo THEN <<>>
  ELSE IF tool \in Diagnostics THEN <<"local">>
  ELSE IF tool \in BenchLifecycle \cup {"shutdown_all"}
    THEN <<"target", "local", "agent">>
  ELSE IF tool \in LocalTools THEN <<"target", "local">>
  ELSE <<"target", "agent">>

----------------------------------------------------------------------------
\* The steps of a handler, decided when it starts.

Refuse == <<"refuse">>
Guarded(bad, steps) == IF bad THEN Refuse ELSE steps

BootProgram ==
  <<"spawn">> \o Settings \o PowerOn \o Advance \o ReadScreen \o <<"publish">>
AttachProgram == <<"connect", "keybuf">> \o ReadScreen \o <<"publishWindow">>
ListenProgram == <<"listen", "accept", "publishAgent">>
ConnectProgram == <<"dial", "publishAgent">>

ImportPackage == <<"poweroff", "import", "dir">>
BenchProgram ==
  <<"mkdir", "listen", "spawn">> \o Settings \o ImportPackage \o PowerOn
  \o Advance \o TypeLines \o ReadScreen
  \o <<"plug", "accept", "publishBench">> \o Status \o <<"request">>

\* A paused program is resumed unless the attachment may not be written to.
Disconnect ==
  IF ~slot.agent THEN <<>>
  ELSE (IF link = "quarantined" THEN <<>> ELSE <<"probe">>)
       \o <<"closeAgent", "forgetAgent">>
Detach == <<"closeAgent", "forgetAgent">>
ShutdownLocal ==
  IF slot.local = "none" THEN <<>>
  ELSE Guarded(slot.local = "bench", <<"close", "forgetLocal">>)
ShutdownBench ==
  IF ~slot.bench THEN <<>>
  ELSE Disconnect \o <<"close", "forgetBench", "rmdir">>

ShutdownAll == IF slot.bench THEN ShutdownBench ELSE Disconnect \o ShutdownLocal

BenchStatus ==
  IF ~slot.bench THEN <<>>
  ELSE Status \o (IF slot.agent THEN <<"request">> ELSE <<>>)

Program(tool) ==
  CASE tool \in DOMAIN LocalProgram ->
         Guarded(slot.local = "none"
                   \/ (slot.local = "bench" /\ tool \in NotOnBench),
                 LocalProgram[tool])
    [] tool \in {"local_boot", "local_boot_auto"} ->
         Guarded(slot.local # "none", BootProgram)
    [] tool = "local_attach" -> Guarded(slot.local # "none", AttachProgram)
    [] tool = "local_shutdown" -> ShutdownLocal
    [] tool = "agent_op" -> Guarded(~slot.agent, <<"request">>)
    [] tool = "agent_listen" -> Guarded(slot.agent \/ slot.bench, ListenProgram)
    [] tool = "agent_connect" ->
         Guarded(slot.agent \/ slot.bench, ConnectProgram)
    [] tool = "agent_disconnect" -> Disconnect
    [] tool = "agent_reboot" ->
         Guarded(~slot.agent, <<"terminal">> \o Detach)
    [] tool = "bench_start" ->
         Guarded(slot.local # "none" \/ slot.agent, BenchProgram)
    [] tool = "bench_status" -> BenchStatus
    [] tool = "bench_shutdown" -> ShutdownBench
    [] tool = "shutdown_all" -> ShutdownAll
    [] OTHER -> <<>>

\* What a failed step leaves to do: the handler's except and finally clauses.
\* The inner finally of the snapshot begins behind its break.
Finally(todo) ==
  (IF Head(todo) # "break" /\ "cont" \in Range(Tail(todo)) THEN <<"cont">> ELSE <<>>)
  \o <<"unlock">>
AtSettings(todo) == Head(todo) \in Range(Settings)

\* Mutant: a failed snapshot leaves the debugger as it is.
RecoveryNoFinally(tool, todo, tries) ==
  CASE tool \in {"local_boot", "local_boot_auto"} ->
         IF tries > 0 THEN <<"close", "again">> ELSE <<"close">>
    [] tool = "local_attach" -> <<"close">>
    [] tool \in {"agent_listen", "agent_connect"} -> <<"closeAgent">>
    [] tool = "bench_start" /\ ~slot.bench -> <<"closeAgent", "close", "rmdir">>
    [] tool = "local_cpu_snapshot" -> <<"unlock">>
    [] OTHER -> <<>>

\* Mutant: a bench that fails keeps its emulator.
RecoveryKeepsMachine(tool, todo, tries) ==
  CASE tool \in {"local_boot", "local_boot_auto"} ->
         IF tries > 0 THEN <<"close", "again">> ELSE <<"close">>
    [] tool = "local_attach" -> <<"close">>
    [] tool \in {"agent_listen", "agent_connect"} -> <<"closeAgent">>
    [] tool = "bench_start" /\ ~slot.bench -> <<"closeAgent", "rmdir">>
    [] tool = "local_cpu_snapshot" -> Finally(todo)
    [] OTHER -> <<>>

\* A headless start that cannot prove its settings closes first by itself.
Recovery(tool, todo, tries) ==
  CASE tool \in {"local_boot", "local_boot_auto"} ->
         IF tries > 0 THEN <<"close", "again">> ELSE <<"close">>
    [] tool = "local_attach" -> <<"close">>
    [] tool \in {"agent_listen", "agent_connect"} -> <<"closeAgent">>
    [] tool = "bench_start" /\ ~slot.bench ->
         (IF Head(todo) = "accept" THEN ReadScreen
          ELSE IF AtSettings(todo) THEN <<"close">> ELSE <<>>)
         \o <<"closeAgent", "close", "rmdir">>
    [] tool = "local_cpu_snapshot" -> Finally(todo)
    [] tool = "agent_reboot" /\ link = "quarantined" -> Detach
    [] OTHER -> <<>>

----------------------------------------------------------------------------
\* Calls, as records.

Idle == [tool |-> "none", st |-> "idle", need |-> <<>>, todo |-> <<>>,
         wait |-> FALSE, cancelled |-> FALSE, tries |-> 0]
Queued(tool) == [Idle EXCEPT !.tool = tool, !.st = "waiting",
                             !.need = Scope(tool)]
Ended == [Idle EXCEPT !.st = "done"]

\* The thread of a call lives while it has steps left.
Live(c) == call[c].todo # <<>>
Step(c) == Head(call[c].todo)
Does(c, step) == Live(c) /\ Step(c) = step /\ ~call[c].wait
Freed(cs) == [l \in Locks |-> IF lock[l] \in cs THEN Nobody ELSE lock[l]]

Passed(w) == [w EXCEPT !.todo = Tail(@), !.wait = FALSE]
Failed(w) ==
  IF Head(w.todo) \in Optional THEN Passed(w)
  ELSE [w EXCEPT !.todo = Recovery(w.tool, w.todo, w.tries), !.wait = FALSE]
Goes(c) == call' = [call EXCEPT ![c] = Passed(@)]
Fails(c) == call' = [call EXCEPT ![c] = Failed(@)]
Fault(kind) == /\ kind \in FaultKinds /\ faults < MaxFaults
               /\ faults' = faults + 1

HostSteps == {"spawn", "connect", "publish", "publishWindow", "close", "reap",
              "detach", "forgetLocal", "lock", "unlock", "again", "refuse",
              "listen", "accept", "dial", "publishAgent", "closeAgent",
              "forgetAgent", "request", "probe", "terminal", "publishBench",
              "forgetBench", "mkdir", "rmdir"}
AgentSteps == {"listen", "accept", "dial", "publishAgent", "closeAgent",
               "forgetAgent", "request", "probe", "terminal"}
DirSteps == {"mkdir", "rmdir", "refuse"}
PairSteps == {"publishBench", "forgetBench"}
Sends(c) == Live(c) /\ Step(c) \notin HostSteps

----------------------------------------------------------------------------
\* A client's calls arrive, wait for their locks and run in a thread.

Arrive(c) ==
  /\ server = "serving" /\ call[c].st = "idle"
  /\ \A d \in Calls : d < c => call[d].st # "idle"
  /\ \E tool \in Tools : call' = [call EXCEPT ![c] = Queued(tool)]
  /\ UNCHANGED <<server, lock, slot, link, dir, emu, faults>>

Acquire(c) ==
  /\ call[c].st = "waiting" /\ call[c].need # <<>>
  /\ lock[Head(call[c].need)] = Nobody
  /\ lock' = [lock EXCEPT ![Head(call[c].need)] = c]
  /\ call' = [call EXCEPT ![c].need = Tail(@)]
  /\ UNCHANGED <<server, slot, link, dir, emu, faults>>

Start(c) ==
  /\ call[c].st = "waiting" /\ call[c].need = <<>>
  /\ call' = [call EXCEPT ![c].st = "working",
                ![c].todo = Program(call[c].tool),
                ![c].tries = IF call[c].tool = "local_boot_auto" THEN 1 ELSE 0]
  /\ UNCHANGED <<server, lock, slot, link, dir, emu, faults>>

\* The thread has ended: leave the lock scope.
Finish(c) ==
  /\ call[c].st = "working" /\ ~Live(c)
  /\ call' = [call EXCEPT ![c] = Ended]
  /\ lock' = Freed({c})
  /\ server' = IF c = Lifespan THEN "closed" ELSE server
  /\ UNCHANGED <<slot, link, dir, emu, faults>>

\* The client cancels a call that still waits for a lock.
CancelWaiting(c) ==
  /\ server = "serving" /\ call[c].st = "waiting"
  /\ call' = [call EXCEPT ![c] = Ended]
  /\ lock' = Freed({c})
  /\ UNCHANGED <<server, slot, link, dir, emu, faults>>

\* Mutant: the locks are left while the thread still runs.
CancelWorkingEarly(c) ==
  /\ server = "serving" /\ call[c].st = "working" /\ ~call[c].cancelled
  /\ call' = [call EXCEPT ![c].cancelled = TRUE, ![c].st = "done"]
  /\ lock' = Freed({c})
  /\ UNCHANGED <<server, slot, link, dir, emu, faults>>

\* The client cancels a running call: its thread is told, its locks stay.
CancelWorking(c) ==
  /\ server = "serving" /\ call[c].st = "working" /\ ~call[c].cancelled
  /\ call' = [call EXCEPT ![c].cancelled = TRUE]
  /\ UNCHANGED <<server, lock, slot, link, dir, emu, faults>>

\* The transport ends: every call is cancelled and the lifespan shuts down.
StopServing ==
  LET waiting == {c \in Calls : call[c].st = "waiting"} IN
  /\ server = "serving" /\ server' = "closing"
  /\ call' = [c \in Workers |->
       IF c = Lifespan THEN Queued("shutdown_all")
       ELSE IF c \in waiting THEN Ended
       ELSE [call[c] EXCEPT !.cancelled = @ \/ call[c].st = "working"]]
  /\ lock' = Freed(waiting)
  /\ UNCHANGED <<slot, link, dir, emu, faults>>

----------------------------------------------------------------------------
\* OpenMSX.cmd in the thread of a call, and the emulator.

\* A snapshot keeps the channel until its unlock.
Keeps(c) == "unlock" \in Range(call[c].todo)

WriteCommand(c) ==
  /\ Sends(c) /\ ~call[c].wait /\ CanWrite(emu, c)
  /\ emu' = Written(emu, c, Step(c))
  /\ call' = [call EXCEPT ![c].wait = TRUE]
  /\ UNCHANGED <<server, lock, slot, link, dir, faults>>

WriteFails(c) ==
  /\ Sends(c) /\ ~call[c].wait /\ Gone(emu)
  /\ Fails(c)
  /\ UNCHANGED <<server, lock, slot, link, dir, emu, faults>>

Serve ==
  /\ emu.proc \in {"running", "window"} /\ emu.sent # <<>>
  /\ emu' = Served(emu)
  /\ UNCHANGED <<server, call, lock, slot, link, dir, faults>>

\* "debug breaked" decides what the snapshot does; everything else goes on.
Resumed(w, val) ==
  IF Head(w.todo) = "breaked"
  THEN [Passed(w) EXCEPT !.todo = CaptureOf(val) \o @] ELSE Passed(w)

Answer(c) ==
  /\ Live(c) /\ call[c].wait /\ emu.replies # <<>>
  /\ emu' = Answered(emu, Keeps(c))
  /\ \/ call' = [call EXCEPT ![c] = Resumed(@, Head(emu.replies).val)]
     \* the text of another command may be refused, or read as anything
     \/ ~Head(emu.replies).own /\ Fails(c)
     \/ ~Head(emu.replies).own
        /\ call' = [call EXCEPT ![c] = Resumed(@, ~Head(emu.replies).val)]
  /\ UNCHANGED <<server, lock, slot, link, dir, faults>>

\* openMSX answers "nok", or the answer does not parse.
Rejected(c) ==
  /\ Live(c) /\ call[c].wait /\ emu.replies # <<>>
  /\ Head(emu.replies).own
  /\ Step(c) \notin {"break", "cont", "setpc", "quit", "breaked"}
  /\ Fault("nok")
  /\ emu' = Answered(emu, Keeps(c))
  /\ Fails(c)
  /\ UNCHANGED <<server, lock, slot, link, dir>>

Late(c) ==
  /\ Live(c) /\ call[c].wait /\ emu.replies = <<>>
  /\ emu' = TimedOut(emu, Keeps(c))
  /\ Fails(c)
  /\ UNCHANGED <<server, lock, slot, link, dir>>

\* Mutant: a command waits for its reply for ever.
TimesOutNever(c) == emu.proc = "hung" /\ emu.sent = <<>> /\ Late(c) /\ UNCHANGED faults

TimesOut(c) == emu.proc = "hung" /\ Late(c) /\ UNCHANGED faults
TimesOutSlow(c) == emu.proc \in {"running", "window"} /\ Late(c) /\ Fault("slow")

GoneWhileWaiting(c) ==
  /\ Live(c) /\ call[c].wait /\ emu.replies = <<>> /\ Gone(emu)
  /\ emu' = Unanswered(emu, Keeps(c))
  /\ Fails(c)
  /\ UNCHANGED <<server, lock, slot, link, dir, faults>>

\* The emulator ends, its user closes the window, or it stops answering.
Exit ==
  /\ emu.proc \in {"running", "window"} /\ Fault("exit")
  /\ emu' = [emu EXCEPT !.proc = IF @ = "window" THEN "shut" ELSE "exited"]
  /\ UNCHANGED <<server, call, lock, slot, link, dir>>

Hang ==
  /\ emu.proc = "running" /\ Fault("hang")
  /\ emu' = [emu EXCEPT !.proc = "hung"]
  /\ UNCHANGED <<server, call, lock, slot, link, dir>>

----------------------------------------------------------------------------
\* The lifecycle of the openMSX object.

Spawn(c) ==
  /\ Does(c, "spawn")
  /\ \/ emu' = Spawned /\ Goes(c) /\ UNCHANGED faults
     \/ emu' = Unspawned /\ Fails(c) /\ Fault("spawn")
  /\ UNCHANGED <<server, lock, slot, link, dir>>

Connect(c) ==
  /\ Does(c, "connect")
  /\ \/ (\E stands \in BOOLEAN : emu' = Attached(stands)) /\ Goes(c)
     \/ emu' = emu /\ Fails(c)
  /\ UNCHANGED <<server, lock, slot, link, dir, faults>>

Publish(c) ==
  /\ \/ Does(c, "publish") /\ slot' = [slot EXCEPT !.local = "owned"]
     \/ Does(c, "publishWindow") /\ slot' = [slot EXCEPT !.local = "attached"]
     \/ Does(c, "forgetLocal") /\ slot' = [slot EXCEPT !.local = "none"]
  /\ Goes(c)
  /\ UNCHANGED <<server, lock, link, dir, emu, faults>>

Close(c) ==
  /\ Does(c, "close")
  /\ call' = [call EXCEPT ![c].todo = CloseSteps(emu) \o Tail(@)]
  /\ UNCHANGED <<server, lock, slot, link, dir, emu, faults>>

Reap(c) ==
  /\ Does(c, "reap") \/ Does(c, "detach")
  /\ emu' = Reaped
  /\ Goes(c)
  /\ UNCHANGED <<server, lock, slot, link, dir, faults>>

Monitor(c) ==
  /\ \/ Does(c, "lock") /\ emu.by \in {Nobody, c} /\ emu' = Locked(emu, c)
     \/ Does(c, "unlock") /\ emu' = Unlocked(emu)
  /\ Goes(c)
  /\ UNCHANGED <<server, lock, slot, link, dir, faults>>

\* profile = auto: the second machine after the first.
Again(c) ==
  /\ Does(c, "again")
  /\ call' = [call EXCEPT ![c].todo = BootProgram, ![c].tries = @ - 1]
  /\ UNCHANGED <<server, lock, slot, link, dir, emu, faults>>

RefuseCall(c) ==
  /\ Does(c, "refuse")
  /\ call' = [call EXCEPT ![c].todo = <<>>]
  /\ UNCHANGED <<server, lock, slot, link, dir, emu, faults>>

----------------------------------------------------------------------------
\* What Session does with RealMSX.

Listen(c) ==
  /\ Does(c, "listen")
  /\ \/ link' = "listening" /\ Goes(c) /\ UNCHANGED faults
     \/ link' = link /\ Fails(c) /\ Fault("link")
  /\ UNCHANGED <<server, lock, slot, dir, emu>>

\* accept and connect end with a session, at their deadline, or as cancelled.
Accept(c) ==
  /\ Does(c, "accept") \/ Does(c, "dial")
  /\ \/ link' = "up" /\ Goes(c)
     \/ link' = link /\ Fails(c)
  /\ UNCHANGED <<server, lock, slot, dir, emu, faults>>

PublishAgent(c) ==
  /\ Does(c, "publishAgent")
  /\ slot' = [slot EXCEPT !.agent = TRUE]
  /\ Goes(c)
  /\ UNCHANGED <<server, lock, link, dir, emu, faults>>

\* A quarantined attachment refuses at once; a request may leave it so.
Request(c) ==
  /\ Does(c, "request") \/ Does(c, "probe") \/ Does(c, "terminal")
  /\ \/ link = "up" /\ Goes(c) /\ UNCHANGED <<link, faults>>
     \/ Fails(c) /\ UNCHANGED <<link, faults>>
     \/ /\ link = "up" /\ Fault("link")
        /\ link' = "quarantined"
        /\ call' = [call EXCEPT ![c].todo =
             IF Step(c) \in Optional THEN Tail(@)
             ELSE IF Step(c) = "terminal" THEN Detach ELSE <<>>]
  /\ UNCHANGED <<server, lock, slot, dir, emu>>

CloseAgent(c) ==
  /\ \/ Does(c, "closeAgent") /\ link' = "none" /\ slot' = slot
     \/ Does(c, "forgetAgent") /\ slot' = [slot EXCEPT !.agent = FALSE]
        /\ link' = link
  /\ Goes(c)
  /\ UNCHANGED <<server, lock, dir, emu, faults>>

----------------------------------------------------------------------------
\* The bench: both channels and a disposable directory.

Directory(c) ==
  /\ \/ Does(c, "mkdir") /\ dir' = TRUE
     \/ Does(c, "rmdir") /\ dir' = FALSE
  /\ Goes(c)
  /\ UNCHANGED <<server, lock, slot, link, emu, faults>>

Pair(c) ==
  /\ \/ /\ Does(c, "publishBench")
        /\ slot' = [local |-> "bench", agent |-> TRUE, bench |-> TRUE]
     \/ /\ Does(c, "forgetBench")
        /\ slot' = [slot EXCEPT !.local = "none", !.bench = FALSE]
  /\ Goes(c)
  /\ UNCHANGED <<server, lock, link, dir, emu, faults>>

----------------------------------------------------------------------------
\* Sessions a client may find: empty, an emulator of our own, a user's window,
\* an agent, both, or a bench.

Sessions ==
  {[slot |-> [local |-> l, agent |-> a, bench |-> FALSE],
    emu |-> CASE l = "none" -> NoEmulator [] l = "owned" -> Spawned
              [] OTHER -> Attached(FALSE)] :
     l \in {"none", "owned", "attached"}, a \in BOOLEAN}
  \cup {[slot |-> [local |-> "bench", agent |-> TRUE, bench |-> TRUE],
         emu |-> Spawned]}

Init ==
  /\ server = "serving"
  /\ call = [c \in Workers |-> Idle]
  /\ lock = [l \in Locks |-> Nobody]
  /\ \E s \in Sessions :
       /\ slot = s.slot /\ emu = s.emu /\ dir = s.slot.bench
       /\ link = IF s.slot.agent THEN "up" ELSE "none"
  /\ faults = 0

\* The steps of a thread that do not wait for an MSX behind the agent link.
LocalStep(c) ==
  \/ Acquire(c) \/ Start(c) \/ Finish(c)
  \/ WriteCommand(c) \/ WriteFails(c) \/ Answer(c) \/ TimesOut(c)
  \/ GoneWhileWaiting(c)
  \/ Spawn(c) \/ Connect(c) \/ Publish(c) \/ Close(c) \/ Reap(c)
  \/ Monitor(c) \/ Again(c) \/ RefuseCall(c)
  \/ Listen(c) \/ Accept(c) \/ PublishAgent(c) \/ CloseAgent(c)
  \/ Directory(c) \/ Pair(c)

Next ==
  \/ \E c \in Workers :
       LocalStep(c) \/ Request(c) \/ Rejected(c) \/ TimesOutSlow(c)
  \/ \E c \in Calls : Arrive(c) \/ CancelWaiting(c) \/ CancelWorking(c)
  \/ StopServing \/ Serve \/ Exit \/ Hang

Spec == Init /\ [][Next]_vars

\* Threads run, deadlines of the host expire, a live emulator serves.  Nothing
\* is promised of a request to the agent.
FairSpec ==
  /\ Spec
  /\ WF_vars(Serve)
  /\ \A c \in Workers : WF_vars(LocalStep(c))

----------------------------------------------------------------------------
\* Properties.

TypeOK ==
  /\ server \in {"serving", "closing", "closed"}
  /\ call \in [Workers -> [tool : AllTools \cup {"none"},
                           st : {"idle", "waiting", "working", "done"},
                           need : Seq(Locks), todo : Seq(STRING),
                           wait : BOOLEAN, cancelled : BOOLEAN,
                           tries : {0, 1}]]
  /\ lock \in [Locks -> Workers \cup {Nobody}]
  /\ slot \in [local : {"none", "owned", "attached", "bench"},
               agent : BOOLEAN, bench : BOOLEAN]
  /\ link \in {"none", "listening", "up", "quarantined"}
  /\ dir \in BOOLEAN
  /\ EmulatorOK(emu, Workers)
  /\ faults \in 0..MaxFaults

\* The channels a thread still has to use.
Channel(step) ==
  IF step \in PairSteps THEN {"local", "agent"}
  ELSE IF step \in AgentSteps THEN {"agent"}
  ELSE IF step \in DirSteps THEN {} ELSE {"local"}
Uses(c) == UNION {Channel(s) : s \in Range(call[c].todo)}

\* Two tool threads never have work left on the same channel, whatever was
\* cancelled or is being shut down: no command of one call can fall between
\* the commands of another (_tool_lock_scope and _run_sync_handler).
OneWorkerPerChannel ==
  \A c, d \in Workers : c # d => Uses(c) \cap Uses(d) = {}

\* When no lifecycle call runs, what the process owns is what Session has
\* published: no emulator, listener, link or directory survives a failed or
\* cancelled start, and a closed server owns nothing ("cannot leave openMSX or
\* a physical-agent socket owned by an exited MCP process", _lifespan).
Lifecycle == LocalLifecycle \cup AgentLifecycle \cup BenchLifecycle
             \cup {"shutdown_all"}
NothingLeaked ==
  /\ (\A c \in Workers : Live(c) => call[c].tool \notin Lifecycle)
       => /\ (emu.proc = "none") = (slot.local = "none")
          /\ (link = "none") = ~slot.agent
          /\ dir = slot.bench
          /\ slot.bench => slot.local = "bench"
  /\ server = "closed" => slot.local = "none" /\ ~slot.agent /\ ~slot.bench

\* As long as every answer was its own, a live emulator stands only if it stood
\* before: a snapshot gives the run state back on every path ("preserving
\* run/break state", OpenMSX.cpu_snapshot).
MovesCpu == {"local_cpu_snapshot", "local_app_run", "local_asm_load"}
RunStateKept ==
  (/\ emu.trust = "good" /\ Alive(emu)
   /\ \A c \in Workers : Live(c) => call[c].tool \notin MovesCpu)
    => emu.broken = emu.held

\* A caller that still waits for its own command gets the reply of that
\* command ("parses the XML reply stream reliably", msx_client.py).
AnswersOwnCommand == emu.trust # "wrong"

\* A local diagnostic ends although a request to the agent never does, unless
\* the bench itself waits for its agent (_LOCAL_DIAGNOSTIC_TOOLS).
WaitsForAgent(c) ==
  Does(c, "request") \/ Does(c, "probe") \/ Does(c, "terminal")
DiagnosticsStayAvailable ==
  \A c \in Calls :
    call[c].tool \in Diagnostics ~>
      \/ call[c].st = "done"
      \/ \E d \in Workers : WaitsForAgent(d) /\ "local" \in Range(Scope(call[d].tool))

\* A server that closes has closed, unless a thread still waits for the agent:
\* no lock is left behind by a cancelled call and no close waits forever.
ServerCloses ==
  server = "closing" ~>
    server = "closed" \/ \E d \in Workers : WaitsForAgent(d)
=============================================================================
