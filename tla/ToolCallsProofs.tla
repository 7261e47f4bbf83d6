---------------------------- MODULE ToolCallsProofs ----------------------------
(***************************************************************************)
(* Two threads never use one channel of the server at a time, what the     *)
(* process owns is what Session has published whenever no lifecycle call   *)
(* runs, and a tool that stops the emulated CPU lets it go again: for      *)
(* every number of calls, whatever tools they name and whatever fails.     *)
(***************************************************************************)
EXTENDS ToolCalls, SequenceTheorems, TLAPS

Steps ==
  HostSteps \cup
  {"mode", "palette", "vram", "breaked", "type", "reset", "tcl", "import",
   "create", "diska", "mute", "power", "poweroff", "time", "keymatrix", "block",
   "poke", "break", "setpc", "regs", "memory", "cpu", "cont", "quit", "keybuf",
   "dir", "plug"}

\* The steps that change nothing of what the process owns.
Talk ==
  Steps \ {"spawn", "connect", "publish", "publishWindow", "close", "reap",
           "detach", "forgetLocal", "again", "refuse", "listen", "accept", "dial",
           "publishAgent", "closeAgent", "forgetAgent", "publishBench",
           "forgetBench", "mkdir", "rmdir", "request", "probe", "terminal"}

\* The steps that use no channel but those of C.
On(C) == {step \in Steps : Channel(step) \subseteq C}

Held(tool) == Range(Scope(tool))

CallRecords ==
  [tool : Tools \cup {"none", "shutdown_all"},
   st : {"idle", "waiting", "working", "done"},
   need : Seq(Locks), todo : Seq(Steps),
   wait : BOOLEAN, cancelled : BOOLEAN, tries : Int]

\* A call that waits or works has the locks of its scope that it does not need
\* any more; only a thread that works has steps, and they stay in its scope.
Holds(w, c) ==
  /\ w.st # "working" => w.todo = <<>>
  /\ w.st \in {"waiting", "working"} =>
       \A l \in Held(w.tool) : lock[l] = c \/ l \in Range(w.need)
  /\ w.st = "working" => w.need = <<>> /\ w.todo \in Seq(On(Held(w.tool)))

ScopeInv ==
  /\ call \in [Workers -> CallRecords]
  /\ lock \in [Locks -> Workers \cup {Nobody}]
  /\ \A c \in Workers : Holds(call[c], c)

----------------------------------------------------------------------------
(* The steps of every handler stay within the locks it takes.              *)

LEMMA OnGrows ==
  ASSUME NEW C, NEW D, C \subseteq D, NEW s \in Seq(On(C))
  PROVE  s \in Seq(On(D))
<1>1. On(C) \subseteq On(D)
  BY DEF On
<1> QED BY <1>1

LEMMA JoinOn ==
  ASSUME NEW S, NEW s \in Seq(S), NEW t \in Seq(S)
  PROVE  s \o t \in Seq(S)
OBVIOUS

LEMMA NoSteps == ASSUME NEW S PROVE <<>> \in Seq(S)
OBVIOUS

LEMMA TailOn ==
  ASSUME NEW S, NEW s \in Seq(S), s # <<>>
  PROVE  /\ Head(s) \in S /\ Tail(s) \in Seq(S)
         /\ Range(s) \subseteq {Head(s)} \cup Range(Tail(s))
<1>1. /\ Tail(s) \in Seq(S) /\ Len(Tail(s)) = Len(s) - 1 /\ Head(s) \in S
      /\ Head(s) = s[1] /\ \A i \in 1..Len(Tail(s)) : Tail(s)[i] = s[i + 1]
  BY HeadTailProperties
<1>2. ASSUME NEW i \in 1..Len(s), i # 1 PROVE s[i] \in Range(Tail(s))
  <2>0. Len(s) \in Nat /\ i \in Int
    BY <1>2
  <2>1. i - 1 \in 1..Len(Tail(s)) /\ (i - 1) + 1 = i
    BY <1>1, <1>2, <2>0
  <2>2. Tail(s)[i - 1] = s[i]
    BY <1>1, <2>1
  <2>3. \A t \in Seq(S) : \A j \in 1..Len(t) : t[j] \in Range(t)
    BY DEF Range
  <2> QED BY <2>1, <2>2, <2>3, <1>1
<1>3. ASSUME NEW x \in Range(s) PROVE x \in {Head(s)} \cup Range(Tail(s))
  <2>1. PICK i \in 1..Len(s) : x = s[i]
    BY DEF Range
  <2> QED BY <2>1, <1>1, <1>2
<1> QED BY <1>1, <1>3

LEMMA StepWords ==
  /\ {"mode", "palette", "vram", "breaked", "type", "reset", "tcl", "import",
      "create", "diska", "mute", "power", "poweroff", "time", "keymatrix", "block",
      "poke", "break", "setpc", "regs", "memory", "cpu", "cont", "quit", "keybuf",
      "dir", "plug", "lock", "unlock"} = Talk
  /\ Talk \subseteq Steps /\ HostSteps \subseteq Steps
  /\ {"quit", "reap", "detach", "close", "again", "forgetLocal", "forgetBench",
      "forgetAgent", "closeAgent", "rmdir", "probe", "request", "terminal",
      "publish", "publishWindow", "accept", "publishBench", "publishAgent", "listen",
      "dial", "mkdir", "spawn", "connect", "refuse"} \subseteq Steps
BY DEF Talk, Steps, HostSteps

LEMMA NotTalk ==
  \A s \in Talk :
    s \notin {"spawn", "connect", "publish", "publishWindow", "close", "reap",
              "detach", "forgetLocal", "again", "refuse", "listen", "accept", "dial",
              "publishAgent", "closeAgent", "forgetAgent", "publishBench",
              "forgetBench", "mkdir", "rmdir", "request", "probe", "terminal"}
BY DEF Talk

LEMMA LocalStepsOn ==
  {"mode", "palette", "vram", "breaked", "type", "reset", "tcl", "import",
   "create", "diska", "mute", "power", "poweroff", "time", "keymatrix", "block",
   "poke", "break", "setpc", "regs", "memory", "cpu", "cont", "quit", "keybuf",
   "dir", "plug", "spawn", "connect", "publish", "publishWindow", "close",
   "reap", "detach", "forgetLocal", "lock", "unlock", "again", "refuse"}
    \subseteq On({"local"})
BY DEF On, Steps, Channel, HostSteps, PairSteps, AgentSteps, DirSteps

LEMMA AgentStepsOn ==
  {"listen", "accept", "dial", "publishAgent", "closeAgent", "forgetAgent",
   "request", "probe", "terminal", "refuse"} \subseteq On({"agent"})
BY DEF On, Steps, Channel, HostSteps, PairSteps, AgentSteps, DirSteps

LEMMA PairStepsOn ==
  {"publishBench", "forgetBench", "mkdir", "rmdir"} \subseteq On({"local", "agent"})
BY DEF On, Steps, Channel, HostSteps, PairSteps, AgentSteps, DirSteps

LEMMA OnSteps == ASSUME NEW C PROVE On(C) \subseteq Steps
BY DEF On

LEMMA LocalProgramsTalk ==
  ASSUME NEW tool \in DOMAIN LocalProgram
  PROVE  LocalProgram[tool] \in Seq(Talk)
<1> DEFINE L == Talk
<1>1. /\ Status \in Seq(L) /\ Screenshot \in Seq(L) /\ CpuSnapshot \in Seq(L)
      /\ Block \in Seq(L) /\ Poke \in Seq(L) /\ Advance \in Seq(L)
      /\ ReadScreen \in Seq(L) /\ TypeLine \in Seq(L) /\ Press \in Seq(L)
      /\ RunAt \in Seq(L) /\ RawTcl \in Seq(L) /\ <<"type">> \in Seq(L)
      /\ <<"reset">> \in Seq(L) /\ <<"import">> \in Seq(L)
      /\ <<"create", "diska">> \in Seq(L)
  BY StepWords DEF Status, Screenshot, CpuSnapshot, Block, Poke, Advance,
     ReadScreen, TypeLine, Press, RunAt, RawTcl
<1> HIDE DEF L
<1>2. TypeLines \in Seq(L) /\ CallAt \in Seq(L)
  BY <1>1, JoinOn DEF TypeLines, CallAt
<1>3. /\ MemoryRead \in Seq(L) /\ MemoryWrite \in Seq(L)
      /\ TypeOneLine \in Seq(L) /\ TypeText \in Seq(L)
      /\ TypeManyLines \in Seq(L) /\ PressKey \in Seq(L)
      /\ Reset \in Seq(L)
  BY <1>1, <1>2, JoinOn DEF MemoryRead, MemoryWrite, TypeOneLine, TypeText,
     TypeManyLines, PressKey, Reset
<1>4. /\ RunBasic \in Seq(L) /\ AppRun \in Seq(L) /\ AppCall \in Seq(L)
      /\ AsmRun \in Seq(L) /\ DosAsmRun \in Seq(L) /\ DiskPutText \in Seq(L)
  BY <1>1, <1>2, JoinOn DEF RunBasic, AppRun, AppCall, AsmRun, DosAsmRun,
     DiskPutText
<1>5. DOMAIN LocalProgram =
        {"local_status", "local_screen", "local_screenshot",
         "local_cpu_snapshot", "local_memory_read", "local_memory_write",
         "local_type_line", "local_type", "local_type_lines", "local_key",
         "local_run_basic", "local_reset", "local_cmd", "local_app_run",
         "local_app_call", "local_asm_load", "local_dos_asm_run",
         "local_disk_put_text"}
  BY DEF LocalProgram
<1>6. /\ LocalProgram["local_status"] = Status
      /\ LocalProgram["local_screen"] = ReadScreen
      /\ LocalProgram["local_screenshot"] = Screenshot
      /\ LocalProgram["local_cpu_snapshot"] = CpuSnapshot
      /\ LocalProgram["local_memory_read"] = MemoryRead
      /\ LocalProgram["local_memory_write"] = MemoryWrite
      /\ LocalProgram["local_type_line"] = TypeOneLine
      /\ LocalProgram["local_type"] = TypeText
      /\ LocalProgram["local_type_lines"] = TypeManyLines
      /\ LocalProgram["local_key"] = PressKey
      /\ LocalProgram["local_run_basic"] = RunBasic
      /\ LocalProgram["local_reset"] = Reset
      /\ LocalProgram["local_cmd"] = RawTcl
      /\ LocalProgram["local_app_run"] = AppRun
      /\ LocalProgram["local_app_call"] = AppCall
      /\ LocalProgram["local_asm_load"] = AsmRun
      /\ LocalProgram["local_dos_asm_run"] = DosAsmRun
      /\ LocalProgram["local_disk_put_text"] = DiskPutText
  BY DEF LocalProgram
<1>7. LocalProgram[tool] \in Seq(L)
  BY <1>1, <1>3, <1>4, <1>5, <1>6
<1> QED BY <1>7 DEF L

LEMMA LocalPrograms ==
  ASSUME NEW tool \in DOMAIN LocalProgram
  PROVE  LocalProgram[tool] \in Seq(On({"local"}))
<1>1. Talk \subseteq On({"local"})
  BY StepWords, LocalStepsOn
<1> QED BY <1>1, LocalProgramsTalk

LEMMA LocalToolHeld ==
  ASSUME NEW tool, tool \in LocalTools
  PROVE  {"local"} \subseteq Held(tool)
<1>1. tool \notin NoTargetIo /\ tool \notin BenchLifecycle \cup {"shutdown_all"}
  BY DEF LocalTools, LocalLifecycle, NoTargetIo, BenchLifecycle, LocalProgram
<1>2. Scope(tool) = <<"local">> \/ Scope(tool) = <<"target", "local">>
  BY <1>1 DEF Scope
<1> QED BY <1>2 DEF Held, Range

LEMMA AgentToolHeld ==
  ASSUME NEW tool, tool \in AgentTools
  PROVE  {"agent"} \subseteq Held(tool)
<1>1. /\ tool \notin NoTargetIo \cup Diagnostics
      /\ tool \notin BenchLifecycle \cup {"shutdown_all"}
      /\ tool \notin LocalTools
  BY DEF AgentTools, AgentLifecycle, Diagnostics, LocalTools, LocalLifecycle,
     NoTargetIo, BenchLifecycle, LocalProgram
<1>2. Scope(tool) = <<"target", "agent">>
  BY <1>1 DEF Scope
<1> QED BY <1>2 DEF Held, Range

LEMMA BenchToolHeld ==
  ASSUME NEW tool, tool \in BenchLifecycle \cup {"shutdown_all"}
  PROVE  {"local", "agent"} \subseteq Held(tool)
<1>1. Scope(tool) = <<"target", "local", "agent">>
  BY DEF Scope, NoTargetIo, Diagnostics, BenchLifecycle
<1> QED BY <1>1 DEF Held, Range

LEMMA RefuseOn ==
  ASSUME NEW C PROVE Refuse \in Seq(On(C))
BY DEF Refuse, On, Steps, HostSteps, Channel, PairSteps, AgentSteps, DirSteps

LEMMA GuardedOn ==
  ASSUME NEW C, NEW bad, NEW steps \in Seq(On(C))
  PROVE  Guarded(bad, steps) \in Seq(On(C))
BY RefuseOn DEF Guarded

LEMMA LocalParts ==
  LET L == On({"local"}) IN
  /\ BootProgram \in Seq(L) /\ AttachProgram \in Seq(L)
  /\ ShutdownLocal \in Seq(L) /\ ReadScreen \in Seq(L)
  /\ Status \in Seq(L)
<1> DEFINE L == On({"local"})
<1>1. /\ Settings \in Seq(L) /\ PowerOn \in Seq(L) /\ Advance \in Seq(L)
      /\ ReadScreen \in Seq(L) /\ Status \in Seq(L)
      /\ <<"spawn">> \in Seq(L) /\ <<"publish">> \in Seq(L)
      /\ <<"connect", "keybuf">> \in Seq(L) /\ <<"publishWindow">> \in Seq(L)
      /\ <<"close", "forgetLocal">> \in Seq(L)
  BY LocalStepsOn DEF Settings, PowerOn, Advance, ReadScreen, Status
<1>2. ShutdownLocal \in Seq(L)
  <2>1. Guarded(slot.local = "bench", <<"close", "forgetLocal">>) \in Seq(L)
    BY <1>1, GuardedOn
  <2> QED BY <2>1, NoSteps DEF ShutdownLocal
<1> HIDE DEF L
<1>3. BootProgram \in Seq(L) /\ AttachProgram \in Seq(L)
  <2>1. AttachProgram \in Seq(L)
    BY <1>1, JoinOn DEF AttachProgram
  <2>2. <<"spawn">> \o Settings \o PowerOn \o Advance \in Seq(L)
    BY <1>1, JoinOn
  <2>3. BootProgram = (<<"spawn">> \o Settings \o PowerOn \o Advance)
                        \o ReadScreen \o <<"publish">>
    BY DEF BootProgram
  <2>4. BootProgram \in Seq(L)
    BY <2>2, <2>3, <1>1, JoinOn
  <2> QED BY <2>1, <2>4
<1> QED BY <1>1, <1>2, <1>3 DEF L

LEMMA AgentParts ==
  LET A == On({"agent"}) IN
  /\ ListenProgram \in Seq(A) /\ ConnectProgram \in Seq(A)
  /\ Disconnect \in Seq(A) /\ Detach \in Seq(A) /\ <<"request">> \in Seq(A)
  /\ (<<"terminal">> \o Detach) \in Seq(A)
<1> DEFINE A == On({"agent"})
<1>1. /\ ListenProgram \in Seq(A) /\ ConnectProgram \in Seq(A)
      /\ Detach \in Seq(A) /\ <<"request">> \in Seq(A)
      /\ <<"terminal">> \in Seq(A) /\ <<"probe">> \in Seq(A)
      /\ <<"closeAgent", "forgetAgent">> \in Seq(A)
  BY AgentStepsOn DEF ListenProgram, ConnectProgram, Detach
<1> HIDE DEF A
<1>2. Disconnect \in Seq(A) /\ (<<"terminal">> \o Detach) \in Seq(A)
  BY <1>1, JoinOn DEF Disconnect
<1> QED BY <1>1, <1>2 DEF A

LEMMA BenchParts ==
  LET B == On({"local", "agent"}) IN
  /\ BenchProgram \in Seq(B) /\ BenchStatus \in Seq(B)
  /\ ShutdownBench \in Seq(B) /\ ShutdownAll \in Seq(B)
<1> DEFINE B == On({"local", "agent"})
<1>1. /\ Disconnect \in Seq(B) /\ ShutdownLocal \in Seq(B)
      /\ Status \in Seq(B) /\ <<"request">> \in Seq(B) /\ ReadScreen \in Seq(B)
  <2>1. {"local"} \subseteq {"local", "agent"} /\ {"agent"} \subseteq {"local", "agent"}
    OBVIOUS
  <2> QED BY <2>1, LocalParts, AgentParts, OnGrows, Zenon
<1>2. On({"local"}) \subseteq B /\ On({"agent"}) \subseteq B
  BY DEF On
<1>3. /\ <<"mkdir", "listen", "spawn">> \in Seq(B) /\ Settings \in Seq(B)
      /\ ImportPackage \in Seq(B) /\ PowerOn \in Seq(B) /\ Advance \in Seq(B)
      /\ TypeLine \in Seq(B) /\ <<"plug", "accept", "publishBench">> \in Seq(B)
      /\ <<"close", "forgetBench", "rmdir">> \in Seq(B)
  BY <1>2, LocalStepsOn, AgentStepsOn, PairStepsOn
     DEF Settings, ImportPackage, PowerOn, Advance, TypeLine
<1> HIDE DEF B
<1>4. TypeLines \in Seq(B)
  BY <1>3, JoinOn DEF TypeLines
<1>5. BenchProgram \in Seq(B)
  <2>1. /\ <<"mkdir", "listen", "spawn">> \o Settings \in Seq(B)
        /\ ImportPackage \o PowerOn \in Seq(B)
    BY <1>3, JoinOn
  <2>2. <<"mkdir", "listen", "spawn">> \o Settings \o ImportPackage \o PowerOn
          \o Advance \o TypeLines \in Seq(B)
    BY <2>1, <1>3, <1>4, JoinOn
  <2> QED BY <2>2, <1>1, <1>3, JoinOn DEF BenchProgram
<1>6. BenchStatus \in Seq(B)
  BY <1>1, JoinOn DEF BenchStatus
<1>7. ShutdownBench \in Seq(B)
  BY <1>1, <1>3, JoinOn DEF ShutdownBench
<1>8. ShutdownAll \in Seq(B)
  BY <1>1, <1>7, JoinOn DEF ShutdownAll
<1> QED BY <1>5, <1>6, <1>7, <1>8 DEF B

LEMMA ProgramOn ==
  ASSUME NEW tool PROVE Program(tool) \in Seq(On(Held(tool)))
<1> DEFINE H == On(Held(tool))
<1>1. CASE tool \in DOMAIN LocalProgram
  <2>1. LocalProgram[tool] \in Seq(H)
    BY <1>1, LocalPrograms, LocalToolHeld, OnGrows DEF LocalTools
  <2>2. Program(tool) = Guarded(slot.local = "none"
             \/ (slot.local = "bench" /\ tool \in NotOnBench), LocalProgram[tool])
    BY <1>1 DEF Program, LocalProgram
  <2> QED BY <2>1, <2>2, GuardedOn
<1>2. CASE tool \in LocalLifecycle
  <2>1. /\ BootProgram \in Seq(H) /\ AttachProgram \in Seq(H)
        /\ ShutdownLocal \in Seq(H)
    BY <1>2, LocalParts, LocalToolHeld, OnGrows DEF LocalTools
  <2>2. \/ Program(tool) = Guarded(slot.local # "none", BootProgram)
        \/ Program(tool) = Guarded(slot.local # "none", AttachProgram)
        \/ Program(tool) = ShutdownLocal
    BY <1>2 DEF Program, LocalProgram, LocalLifecycle
  <2> QED BY <2>1, <2>2, GuardedOn
<1>3. CASE tool \in AgentTools
  <2>1. /\ ListenProgram \in Seq(H) /\ ConnectProgram \in Seq(H)
        /\ Disconnect \in Seq(H) /\ <<"request">> \in Seq(H)
        /\ (<<"terminal">> \o Detach) \in Seq(H)
    BY <1>3, AgentParts, AgentToolHeld, OnGrows
  <2>2. \/ Program(tool) = Guarded(~slot.agent, <<"request">>)
        \/ Program(tool) = Guarded(slot.agent \/ slot.bench, ListenProgram)
        \/ Program(tool) = Guarded(slot.agent \/ slot.bench, ConnectProgram)
        \/ Program(tool) = Disconnect
        \/ Program(tool) = Guarded(~slot.agent, <<"terminal">> \o Detach)
    BY <1>3 DEF Program, LocalProgram, AgentTools, AgentLifecycle
  <2> QED BY <2>1, <2>2, GuardedOn
<1>4. CASE tool \in BenchLifecycle \cup {"shutdown_all"}
  <2>1. /\ BenchProgram \in Seq(H) /\ BenchStatus \in Seq(H)
        /\ ShutdownBench \in Seq(H) /\ ShutdownAll \in Seq(H)
    BY <1>4, BenchParts, BenchToolHeld, OnGrows
  <2>2. \/ Program(tool) = Guarded(slot.local # "none" \/ slot.agent, BenchProgram)
        \/ Program(tool) = BenchStatus
        \/ Program(tool) = ShutdownBench
        \/ Program(tool) = ShutdownAll
    BY <1>4 DEF Program, LocalProgram, BenchLifecycle
  <2> QED BY <2>1, <2>2, GuardedOn
<1>5. CASE /\ tool \notin DOMAIN LocalProgram /\ tool \notin LocalLifecycle
           /\ tool \notin AgentTools
           /\ tool \notin BenchLifecycle \cup {"shutdown_all"}
  BY <1>5 DEF Program, LocalLifecycle, AgentTools, AgentLifecycle, BenchLifecycle
<1> QED BY <1>1, <1>2, <1>3, <1>4, <1>5

LEMMA RecoveryOn ==
  ASSUME NEW tool, NEW todo \in Seq(On(Held(tool))), todo # <<>>, NEW tries
  PROVE  Recovery(tool, todo, tries) \in Seq(On(Held(tool)))
<1> DEFINE H == On(Held(tool))
<1>1. CASE tool \in LocalTools
  <2>1. {"cont", "unlock", "close", "again"} \subseteq H
    BY <1>1, LocalToolHeld, LocalStepsOn DEF On
  <2>2. /\ <<"cont">> \in Seq(H) /\ <<"unlock">> \in Seq(H)
        /\ <<"close">> \in Seq(H) /\ <<"close", "again">> \in Seq(H)
    BY <2>1
  <2>3. Finally(todo) \in Seq(H)
    BY <2>2, JoinOn DEF Finally
  <2>4. \/ Recovery(tool, todo, tries) = <<"close", "again">>
        \/ Recovery(tool, todo, tries) = <<"close">>
        \/ Recovery(tool, todo, tries) = Finally(todo)
        \/ Recovery(tool, todo, tries) = <<>>
    BY <1>1 DEF Recovery, LocalTools, LocalLifecycle, LocalProgram
  <2> HIDE DEF H
  <2>5. Recovery(tool, todo, tries) \in Seq(H)
    BY <2>2, <2>3, <2>4, NoSteps
  <2> QED BY <2>5 DEF H
<1>2. CASE tool \in AgentTools
  <2>1. <<"closeAgent">> \in Seq(H) /\ Detach \in Seq(H)
    BY <1>2, AgentToolHeld, AgentStepsOn DEF On, Detach
  <2>2. \/ Recovery(tool, todo, tries) = <<"closeAgent">>
        \/ Recovery(tool, todo, tries) = Detach
        \/ Recovery(tool, todo, tries) = <<>>
    BY <1>2 DEF Recovery, AgentTools, AgentLifecycle
  <2> HIDE DEF H
  <2>3. Recovery(tool, todo, tries) \in Seq(H)
    BY <2>1, <2>2, NoSteps
  <2> QED BY <2>3 DEF H
<1>3. CASE tool = "bench_start"
  <2>1. {"close", "closeAgent", "rmdir", "mode", "vram"} \subseteq H
    BY <1>3, BenchToolHeld, LocalStepsOn, AgentStepsOn, PairStepsOn
       DEF On, BenchLifecycle
  <2>2. /\ <<"closeAgent", "close", "rmdir">> \in Seq(H)
        /\ <<"mode", "vram">> \in Seq(H) /\ <<"close">> \in Seq(H)
        /\ <<>> \in Seq(H)
    BY <2>1
  <2>3. CASE slot.bench
    BY <1>3, <2>2, <2>3 DEF Recovery
  <2>4. CASE ~slot.bench
    <3>1. Recovery(tool, todo, tries) =
            (IF Head(todo) = "accept" THEN ReadScreen
             ELSE IF AtSettings(todo) THEN <<"close">> ELSE <<>>)
            \o <<"closeAgent", "close", "rmdir">>
      BY <1>3, <2>4 DEF Recovery
    <3>2. (IF Head(todo) = "accept" THEN ReadScreen
           ELSE IF AtSettings(todo) THEN <<"close">> ELSE <<>>) \in Seq(H)
      BY <2>2 DEF ReadScreen
    <3> HIDE DEF H
    <3>3. Recovery(tool, todo, tries) \in Seq(H)
      BY <3>1, <3>2, <2>2, JoinOn
    <3> QED BY <3>3 DEF H
  <2> QED BY <2>3, <2>4
<1>4. CASE tool \notin LocalTools \cup AgentTools \cup {"bench_start"}
  BY <1>4 DEF Recovery, LocalTools, LocalLifecycle, LocalProgram, AgentTools,
     AgentLifecycle
<1> QED BY <1>1, <1>2, <1>3, <1>4

LEMMA OwnSteps ==
  ASSUME ScopeInv, NEW c \in Workers, call[c].todo # <<>>
  PROVE  /\ call[c] \in CallRecords /\ call[c].st = "working"
         /\ call[c].need = <<>> /\ call[c].todo \in Seq(On(Held(call[c].tool)))
BY DEF ScopeInv, Holds

\* What a thread does to its own record while it keeps its locks.
LEMMA ThreadStep ==
  ASSUME ScopeInv, NEW c \in Workers, call[c].todo # <<>>,
         NEW w \in CallRecords,
         w.tool = call[c].tool, w.st = "working", w.need = <<>>,
         w.todo \in Seq(On(Held(w.tool))),
         call' = [call EXCEPT ![c] = w], lock' = lock
  PROVE  ScopeInv'
<1>1. call' \in [Workers -> CallRecords]
  BY DEF ScopeInv
<1>2. lock' \in [Locks -> Workers \cup {Nobody}]
  BY DEF ScopeInv
<1>3. ASSUME NEW d \in Workers PROVE Holds(call[d], d)'
  <2>1. CASE d = c
    <3>1. call'[d] = w
      BY <2>1 DEF ScopeInv
    <3>2. \A l \in Held(w.tool) : lock[l] = c
      <4>1. Range(call[c].need) = {}
        BY OwnSteps DEF Range
      <4> QED BY <4>1, OwnSteps DEF ScopeInv, Holds
    <3> QED BY <3>1, <3>2, <2>1 DEF Holds
  <2>2. CASE d # c
    <3>1. call'[d] = call[d]
      BY <2>2 DEF ScopeInv
    <3> QED BY <3>1 DEF ScopeInv, Holds
  <2> QED BY <2>1, <2>2
<1> QED BY <1>1, <1>2, <1>3 DEF ScopeInv

\* It goes on with other steps.
LEMMA StepsChange ==
  ASSUME ScopeInv, NEW c \in Workers, call[c].todo # <<>>,
         NEW s \in Seq(On(Held(call[c].tool))),
         call' = [call EXCEPT ![c] = [@ EXCEPT !.todo = s, !.wait = FALSE]]
           \/ call' = [call EXCEPT ![c] = [@ EXCEPT !.todo = s]],
         lock' = lock
  PROVE  ScopeInv'
<1>1. s \in Seq(Steps)
  BY OnSteps
<1> DEFINE v == [call[c] EXCEPT !.todo = s, !.wait = FALSE]
           u == [call[c] EXCEPT !.todo = s]
<1>2. CASE call' = [call EXCEPT ![c] = v]
  <2>1. /\ v \in CallRecords /\ v.tool = call[c].tool /\ v.st = "working"
        /\ v.need = <<>> /\ v.todo = s
    BY <1>1, OwnSteps DEF CallRecords
  <2> HIDE DEF v
  <2> QED BY <1>2, <2>1, ThreadStep
<1>3. CASE call' = [call EXCEPT ![c] = u]
  <2>1. /\ u \in CallRecords /\ u.tool = call[c].tool /\ u.st = "working"
        /\ u.need = <<>> /\ u.todo = s
    BY <1>1, OwnSteps DEF CallRecords
  <2> HIDE DEF u
  <2> QED BY <1>3, <2>1, ThreadStep
<1> QED BY <1>2, <1>3

LEMMA GoesOn ==
  ASSUME ScopeInv, NEW c \in Workers, call[c].todo # <<>>, Goes(c), lock' = lock
  PROVE  ScopeInv'
<1> DEFINE s == Tail(call[c].todo)
<1>1. s \in Seq(On(Held(call[c].tool)))
  BY OwnSteps, TailOn
<1>2. call' = [call EXCEPT ![c] = [@ EXCEPT !.todo = s, !.wait = FALSE]]
  BY DEF Goes, Passed
<1> HIDE DEF s
<1> QED BY <1>1, <1>2, StepsChange

LEMMA FailsOn ==
  ASSUME ScopeInv, NEW c \in Workers, call[c].todo # <<>>, Fails(c), lock' = lock
  PROVE  ScopeInv'
<1>1. CASE Head(call[c].todo) \in Optional
  BY <1>1, GoesOn DEF Fails, Failed, Goes
<1>2. CASE Head(call[c].todo) \notin Optional
  <2>1. Recovery(call[c].tool, call[c].todo, call[c].tries)
          \in Seq(On(Held(call[c].tool)))
    BY OwnSteps, RecoveryOn
  <2> QED BY <1>2, <2>1, StepsChange DEF Fails, Failed
<1> QED BY <1>1, <1>2

----------------------------------------------------------------------------
(* ScopeInv is kept by every step.                                         *)

LEMMA InitScope ==
  ASSUME Init PROVE ScopeInv
<1>1. Idle \in CallRecords /\ Idle.todo = <<>> /\ Idle.st = "idle"
  BY DEF Idle, CallRecords
<1>2. \A c \in Workers : call[c] = Idle
  BY DEF Init
<1>3. call \in [Workers -> CallRecords]
  BY <1>1 DEF Init
<1>4. lock \in [Locks -> Workers \cup {Nobody}]
  BY DEF Init
<1> QED BY <1>1, <1>2, <1>3, <1>4 DEF ScopeInv, Holds

LEMMA QueuedHolds ==
  ASSUME NEW tool \in Tools \cup {"none", "shutdown_all"}, NEW c
  PROVE  /\ Queued(tool) \in CallRecords
         /\ Holds(Queued(tool), c)'
<1>1. Scope(tool) \in Seq(Locks)
  <2>1. /\ <<>> \in Seq(Locks) /\ <<"local">> \in Seq(Locks)
        /\ <<"target", "local">> \in Seq(Locks)
        /\ <<"target", "agent">> \in Seq(Locks)
        /\ <<"target", "local", "agent">> \in Seq(Locks)
    BY DEF Locks
  <2>2. Scope(tool) \in
          {<<>>, <<"local">>, <<"target", "local">>, <<"target", "agent">>,
           <<"target", "local", "agent">>}
    BY DEF Scope
  <2> QED BY <2>1, <2>2, Zenon
<1>2. Idle \in CallRecords /\ Idle.todo = <<>>
  BY DEF Idle, CallRecords
<1>3. /\ Queued(tool).tool = tool /\ Queued(tool).st = "waiting"
      /\ Queued(tool).need = Scope(tool) /\ Queued(tool).todo = <<>>
      /\ Queued(tool) \in CallRecords
  BY <1>1, <1>2 DEF Queued, CallRecords
<1> QED BY <1>3 DEF Holds, Held

LEMMA ArriveScope ==
  ASSUME ScopeInv, NEW c \in Calls, Arrive(c) PROVE ScopeInv'
<1>1. PICK tool \in Tools : call' = [call EXCEPT ![c] = Queued(tool)]
  BY DEF Arrive
<1>2. c \in Workers /\ lock' = lock
  BY DEF Workers, Arrive
<1>3. Queued(tool) \in CallRecords /\ Holds(Queued(tool), c)'
  BY QueuedHolds
<1>4. ASSUME NEW d \in Workers PROVE Holds(call[d], d)'
  <2>1. CASE d = c
    <3>1. call'[d] = Queued(tool)
      BY <1>1, <1>2, <2>1 DEF ScopeInv
    <3> QED BY <3>1, <1>3, <2>1 DEF Holds
  <2>2. CASE d # c
    <3>1. call'[d] = call[d]
      BY <1>1, <2>2 DEF ScopeInv
    <3> QED BY <3>1, <1>2 DEF ScopeInv, Holds
  <2> QED BY <2>1, <2>2
<1> QED BY <1>1, <1>2, <1>3, <1>4 DEF ScopeInv

LEMMA AcquireScope ==
  ASSUME ScopeInv, NEW c \in Workers, Acquire(c) PROVE ScopeInv'
<1> DEFINE need == call[c].need
           w == [call[c] EXCEPT !.need = Tail(need)]
<1>1. /\ call[c] \in CallRecords /\ need \in Seq(Locks) /\ need # <<>>
      /\ call[c].st = "waiting" /\ call[c].todo = <<>>
      /\ call' = [call EXCEPT ![c] = w]
      /\ lock[Head(need)] = Nobody
      /\ lock' = [lock EXCEPT ![Head(need)] = c]
  BY DEF ScopeInv, CallRecords, Acquire, Holds
<1>2. /\ Head(need) \in Locks /\ Tail(need) \in Seq(Locks)
      /\ Range(need) \subseteq {Head(need)} \cup Range(Tail(need))
  BY <1>1, TailOn
<1>3. /\ w \in CallRecords /\ w.need = Tail(need) /\ w.st = "waiting"
      /\ w.todo = <<>> /\ w.tool = call[c].tool
  BY <1>1, <1>2 DEF CallRecords
<1>4. Nobody \notin Workers
  BY ToolAssumption
<1> HIDE DEF w, need
<1>5. ASSUME NEW d \in Workers PROVE Holds(call[d], d)'
  <2>1. CASE d = c
    <3>1. call'[d] = w
      BY <1>1, <2>1 DEF ScopeInv
    <3>2. \A l \in Held(w.tool) : lock[l] = c \/ l \in Range(need)
      BY <1>1, <1>3 DEF ScopeInv, Holds, need
    <3>3. \A l \in Held(w.tool) : lock'[l] = c \/ l \in Range(w.need)
      <4>1. ASSUME NEW l \in Held(w.tool) PROVE lock'[l] = c \/ l \in Range(w.need)
        <5>1. CASE l = Head(need)
          BY <1>1, <1>2, <5>1 DEF ScopeInv
        <5>2. CASE l # Head(need) /\ lock[l] = c
          BY <1>1, <5>2 DEF ScopeInv
        <5>3. CASE l # Head(need) /\ lock[l] # c
          BY <3>2, <1>2, <1>3, <5>3
        <5> QED BY <5>1, <5>2, <5>3
      <4> QED BY <4>1
    <3> QED BY <3>1, <3>3, <1>3, <2>1 DEF Holds
  <2>2. CASE d # c
    <3>1. call'[d] = call[d]
      BY <1>1, <2>2 DEF ScopeInv
    <3>2. \A l : lock[l] = d => lock'[l] = d
      BY <1>1, <1>4 DEF ScopeInv
    <3> QED BY <3>1, <3>2 DEF ScopeInv, Holds
  <2> QED BY <2>1, <2>2
<1>6. lock' \in [Locks -> Workers \cup {Nobody}]
  BY <1>1, <1>2 DEF ScopeInv
<1>7. call' \in [Workers -> CallRecords]
  BY <1>1, <1>3 DEF ScopeInv
<1> QED BY <1>5, <1>6, <1>7 DEF ScopeInv

LEMMA StartScope ==
  ASSUME ScopeInv, NEW c \in Workers, Start(c) PROVE ScopeInv'
<1> DEFINE n == IF call[c].tool = "local_boot_auto" THEN 1 ELSE 0
           p == Program(call[c].tool)
           w == [call[c] EXCEPT !.st = "working", !.todo = p, !.tries = n]
<1>1. /\ call[c] \in CallRecords /\ call[c].st = "waiting" /\ call[c].need = <<>>
      /\ call' = [call EXCEPT ![c] = w] /\ lock' = lock
  BY DEF ScopeInv, Start
<1>2. p \in Seq(On(Held(call[c].tool))) /\ p \in Seq(Steps) /\ n \in Int
  BY ProgramOn, OnSteps
<1> HIDE DEF p, n
<1>3. /\ w \in CallRecords /\ w.tool = call[c].tool /\ w.st = "working"
      /\ w.need = <<>> /\ w.todo = p
  BY <1>1, <1>2 DEF CallRecords
<1> HIDE DEF w
<1>4. ASSUME NEW d \in Workers PROVE Holds(call[d], d)'
  <2>1. CASE d = c
    <3>1. call'[d] = w
      BY <1>1, <2>1 DEF ScopeInv
    <3>2. \A l \in Held(w.tool) : lock[l] = c
      <4>1. Range(call[c].need) = {}
        BY <1>1 DEF Range
      <4> QED BY <4>1, <1>1, <1>3 DEF ScopeInv, Holds
    <3> QED BY <3>1, <3>2, <1>1, <1>2, <1>3, <2>1 DEF Holds
  <2>2. CASE d # c
    <3>1. call'[d] = call[d]
      BY <1>1, <2>2 DEF ScopeInv
    <3> QED BY <3>1, <1>1 DEF ScopeInv, Holds
  <2> QED BY <2>1, <2>2
<1> QED BY <1>1, <1>3, <1>4 DEF ScopeInv

\* Some calls are over, and their locks with them.
LEMMA EndedScope ==
  ASSUME ScopeInv, NEW cs, cs \subseteq Workers,
         lock' = Freed(cs), call' \in [Workers -> CallRecords],
         NEW keep, keep \subseteq Workers,
         \A d \in cs \cap keep : call'[d] = Ended,
         \A d \in keep \ cs :
           /\ call'[d].st = call[d].st /\ call'[d].tool = call[d].tool
           /\ call'[d].need = call[d].need /\ call'[d].todo = call[d].todo
  PROVE  /\ lock' \in [Locks -> Workers \cup {Nobody}]
         /\ \A d \in keep : Holds(call[d], d)'
<1>1. lock' \in [Locks -> Workers \cup {Nobody}]
  BY DEF ScopeInv, Freed
<1>2. ASSUME NEW d \in keep PROVE Holds(call[d], d)'
  <2>1. CASE d \in cs
    <3>1. Ended.st = "done" /\ Ended.todo = <<>>
      BY DEF Ended, Idle
    <3> QED BY <2>1, <3>1 DEF Holds
  <2>2. CASE d \notin cs
    <3>1. Holds(call[d], d)
      BY DEF ScopeInv
    <3>2. \A l \in Locks : lock[l] = d => lock'[l] = d
      BY <2>2 DEF Freed, ScopeInv
    <3>3. Held(call[d].tool) \subseteq Locks
      BY DEF Held, Scope, Locks, Range
    <3> QED BY <3>1, <3>2, <3>3, <2>2 DEF Holds
  <2> QED BY <2>1, <2>2
<1> QED BY <1>1, <1>2

LEMMA EndedRecord == Ended \in CallRecords
<1>1. Idle \in CallRecords
  BY DEF Idle, CallRecords
<1> QED BY <1>1 DEF Ended, CallRecords

LEMMA FinishScope ==
  ASSUME ScopeInv, NEW c \in Workers, Finish(c) \/ CancelWaiting(c)
  PROVE  ScopeInv'
<1>1. call' = [call EXCEPT ![c] = Ended] /\ lock' = Freed({c})
  BY DEF Finish, CancelWaiting
<1>2. call' \in [Workers -> CallRecords]
  BY <1>1, EndedRecord DEF ScopeInv
<1>3. /\ call'[c] = Ended
      /\ \A d \in Workers \ {c} : call'[d] = call[d]
  BY <1>1 DEF ScopeInv
<1>4. /\ lock' \in [Locks -> Workers \cup {Nobody}]
      /\ \A d \in Workers : Holds(call[d], d)'
  BY <1>1, <1>2, <1>3, EndedScope
<1> QED BY <1>2, <1>4 DEF ScopeInv

LEMMA CancelWorkingScope ==
  ASSUME ScopeInv, NEW c \in Workers, CancelWorking(c)
  PROVE  ScopeInv'
<1> DEFINE w == [call[c] EXCEPT !.cancelled = TRUE]
<1>1. /\ call[c] \in CallRecords /\ call' = [call EXCEPT ![c] = w] /\ lock' = lock
  BY DEF ScopeInv, CancelWorking
<1>2. /\ w \in CallRecords /\ w.tool = call[c].tool /\ w.st = call[c].st
      /\ w.need = call[c].need /\ w.todo = call[c].todo
  BY <1>1 DEF CallRecords
<1> HIDE DEF w
<1>3. call'[c] = w /\ \A d \in Workers \ {c} : call'[d] = call[d]
  BY <1>1 DEF ScopeInv
<1>4. \A d \in Workers : Holds(call[d], d)'
  BY <1>1, <1>2, <1>3 DEF ScopeInv, Holds
<1> QED BY <1>1, <1>2, <1>4 DEF ScopeInv

LEMMA StopScope ==
  ASSUME ScopeInv, StopServing PROVE ScopeInv'
<1> DEFINE waiting == {c \in Calls : call[c].st = "waiting"}
           told(c) == [call[c] EXCEPT !.cancelled = @ \/ call[c].st = "working"]
<1>1. /\ call' = [c \in Workers |->
            IF c = Lifespan THEN Queued("shutdown_all")
            ELSE IF c \in waiting THEN Ended ELSE told(c)]
      /\ lock' = Freed(waiting)
  BY DEF StopServing
<1>2. ASSUME NEW c \in Workers
      PROVE  /\ told(c) \in CallRecords /\ told(c).st = call[c].st
             /\ told(c).tool = call[c].tool /\ told(c).need = call[c].need
             /\ told(c).todo = call[c].todo
  BY DEF ScopeInv, CallRecords
<1>3. Queued("shutdown_all") \in CallRecords /\ Holds(Queued("shutdown_all"), Lifespan)'
  BY QueuedHolds
<1> HIDE DEF waiting, told
<1>4. call' \in [Workers -> CallRecords]
  BY <1>1, <1>2, <1>3, EndedRecord
<1>5. /\ \A d \in (waiting \cap Calls) : call'[d] = Ended
      /\ \A d \in Calls \ waiting : call'[d] = told(d)
      /\ call'[Lifespan] = Queued("shutdown_all")
      /\ Calls \subseteq Workers /\ waiting \subseteq Workers
  <2>1. /\ Calls \subseteq Workers /\ waiting \subseteq Workers
        /\ Lifespan \in Workers /\ Lifespan \notin Calls
    BY DEF Workers, Calls, Lifespan, waiting
  <2> QED BY <1>1, <2>1
<1>6. /\ lock' \in [Locks -> Workers \cup {Nobody}]
      /\ \A d \in Calls : Holds(call[d], d)'
  <2>1. \A d \in Calls \ waiting :
          /\ call'[d].st = call[d].st /\ call'[d].tool = call[d].tool
          /\ call'[d].need = call[d].need /\ call'[d].todo = call[d].todo
    BY <1>2, <1>5
  <2>2. lock' = Freed(waiting)
    BY <1>1
  <2>3. /\ waiting \subseteq Workers /\ Calls \subseteq Workers
        /\ \A d \in waiting \cap Calls : call'[d] = Ended
    BY <1>5
  <2> QED BY <1>4, <2>1, <2>2, <2>3, EndedScope
<1>7. Holds(call[Lifespan], Lifespan)'
  BY <1>3, <1>5 DEF Holds
<1> QED BY <1>4, <1>6, <1>7 DEF ScopeInv, Workers

\* The steps of a thread keep its locks and leave it steps within its scope.
LEMMA LocalScope ==
  ASSUME ScopeInv, NEW c \in Workers,
         LocalStep(c) \/ Request(c) \/ Rejected(c) \/ TimesOutSlow(c)
  PROVE  ScopeInv'
<1> DEFINE todo == call[c].todo
           H == On(Held(call[c].tool))
<1>1. CASE Acquire(c) BY <1>1, AcquireScope
<1>2. CASE Start(c) BY <1>2, StartScope
<1>3. CASE Finish(c) BY <1>3, FinishScope
<1>4. CASE WriteCommand(c)
  <2> DEFINE w == [call[c] EXCEPT !.wait = TRUE]
  <2>1. /\ todo # <<>> /\ call' = [call EXCEPT ![c] = w] /\ lock' = lock
    BY <1>4 DEF WriteCommand, Sends, Live
  <2>2. /\ w \in CallRecords /\ w.tool = call[c].tool /\ w.st = "working"
        /\ w.need = <<>> /\ w.todo \in Seq(On(Held(w.tool)))
    BY <2>1, OwnSteps DEF CallRecords
  <2> HIDE DEF w
  <2> QED BY <2>1, <2>2, ThreadStep
<1>5. CASE \/ WriteFails(c) \/ Rejected(c) \/ TimesOut(c) \/ TimesOutSlow(c)
           \/ GoneWhileWaiting(c)
  <2>1. todo # <<>> /\ Fails(c) /\ lock' = lock
    BY <1>5 DEF WriteFails, Rejected, TimesOut, TimesOutSlow, Late,
       GoneWhileWaiting, Sends, Live
  <2> QED BY <2>1, FailsOn
<1>6. CASE Answer(c)
  <2>1. todo # <<>> /\ lock' = lock
    BY <1>6 DEF Answer, Live
  <2>2. ASSUME NEW val, call' = [call EXCEPT ![c] = Resumed(@, val)]
        PROVE  ScopeInv'
    <3>1. CASE Step(c) = "breaked"
      <4> DEFINE s == CaptureOf(val) \o Tail(todo)
      <4>1. /\ todo \in Seq(H) /\ Head(todo) = "breaked"
            /\ Head(todo) \in H /\ Tail(todo) \in Seq(H)
        BY <2>1, <3>1, OwnSteps, TailOn DEF Step
      <4>2. "local" \in Held(call[c].tool)
        BY <4>1 DEF On, Channel, PairSteps, AgentSteps, DirSteps
      <4>3. {"regs", "memory", "cpu", "break", "cont"} \subseteq H
        BY <4>2, LocalStepsOn DEF On
      <4>4. /\ <<"regs", "memory", "cpu">> \in Seq(H) /\ <<"break">> \in Seq(H)
            /\ <<"cont">> \in Seq(H)
        BY <4>3
      <4> HIDE DEF H
      <4>5. CaptureOf(val) \in Seq(H)
        BY <4>4, JoinOn DEF CaptureOf, Exact
      <4>6. s \in Seq(H)
        BY <4>1, <4>5, JoinOn
      <4>7. call' = [call EXCEPT ![c] = [@ EXCEPT !.todo = s, !.wait = FALSE]]
        <5>1. Resumed(call[c], val) = [call[c] EXCEPT !.todo = s, !.wait = FALSE]
          <6>1. call[c] \in CallRecords
            BY DEF ScopeInv
          <6> QED BY <6>1, <4>1 DEF Resumed, Passed, CallRecords
        <5> QED BY <2>2, <5>1
      <4> HIDE DEF s
      <4> QED BY <4>6, <4>7, <2>1, StepsChange DEF H
    <3>2. CASE Step(c) # "breaked"
      <4>1. Goes(c)
        BY <2>2, <3>2 DEF Resumed, Step, Goes
      <4> QED BY <4>1, <2>1, GoesOn
    <3> QED BY <3>1, <3>2
  <2>3. CASE Fails(c)
    BY <2>1, <2>3, FailsOn
  <2> QED BY <1>6, <2>2, <2>3 DEF Answer
<1>7. CASE Spawn(c)
  <2>1. todo # <<>> /\ lock' = lock /\ (Goes(c) \/ Fails(c))
    BY <1>7 DEF Spawn, Does, Live
  <2> QED BY <2>1, GoesOn, FailsOn
<1>8. CASE Connect(c) \/ Listen(c) \/ Accept(c)
  <2>1. todo # <<>> /\ lock' = lock /\ (Goes(c) \/ Fails(c))
    BY <1>8 DEF Connect, Listen, Accept, Does, Live
  <2> QED BY <2>1, GoesOn, FailsOn
<1>9. CASE \/ Publish(c) \/ Reap(c) \/ Monitor(c) \/ PublishAgent(c)
           \/ CloseAgent(c) \/ Directory(c) \/ Pair(c)
  <2>1. todo # <<>> /\ lock' = lock /\ Goes(c)
    BY <1>9 DEF Publish, Reap, Monitor, PublishAgent, CloseAgent, Directory,
       Pair, Does, Live
  <2> QED BY <2>1, GoesOn
<1>10. CASE Close(c)
  <2> DEFINE s == CloseSteps(emu) \o Tail(todo)
  <2>1. /\ todo # <<>> /\ Head(todo) = "close" /\ lock' = lock
        /\ call' = [call EXCEPT ![c] = [@ EXCEPT !.todo = s]]
    BY <1>10 DEF Close, Does, Live, Step
  <2>2. Head(todo) \in H /\ Tail(todo) \in Seq(H)
    BY <2>1, OwnSteps, TailOn
  <2>3. "local" \in Held(call[c].tool)
    BY <2>1, <2>2 DEF On, Channel, PairSteps, AgentSteps, DirSteps
  <2>4. {"quit", "reap", "detach"} \subseteq H
    BY <2>3, LocalStepsOn DEF On
  <2>5. <<"quit", "reap">> \in Seq(H) /\ <<"detach">> \in Seq(H)
    BY <2>4
  <2> HIDE DEF H
  <2>6. s \in Seq(H)
    BY <2>2, <2>5, JoinOn DEF CloseSteps
  <2> HIDE DEF s
  <2> QED BY <2>1, <2>6, StepsChange DEF H
<1>11. CASE Again(c)
  <2> DEFINE n == call[c].tries - 1
             w == [call[c] EXCEPT !.todo = BootProgram, !.tries = n]
  <2>1. todo # <<>> /\ Head(todo) = "again" /\ lock' = lock
    BY <1>11 DEF Again, Does, Live, Step
  <2>2. Head(todo) \in H
    BY <2>1, OwnSteps, TailOn
  <2>3. {"local"} \subseteq Held(call[c].tool)
    BY <2>1, <2>2 DEF On, Channel, PairSteps, AgentSteps, DirSteps
  <2>4. BootProgram \in Seq(H) /\ BootProgram \in Seq(Steps)
    BY <2>3, LocalParts, OnGrows, OnSteps
  <2>5. n \in Int
    BY DEF ScopeInv, CallRecords
  <2>6. call' = [call EXCEPT ![c] = w]
    BY <1>11 DEF Again, ScopeInv, CallRecords
  <2> HIDE DEF n
  <2>7. /\ w \in CallRecords /\ w.tool = call[c].tool /\ w.st = "working"
        /\ w.need = <<>> /\ w.todo = BootProgram
    BY <2>1, <2>4, <2>5, OwnSteps DEF CallRecords
  <2> HIDE DEF w
  <2> QED BY <2>1, <2>4, <2>6, <2>7, ThreadStep
<1>12. CASE RefuseCall(c)
  <2>1. /\ todo # <<>> /\ lock' = lock
        /\ call' = [call EXCEPT ![c] = [@ EXCEPT !.todo = <<>>]]
    BY <1>12 DEF RefuseCall, Does, Live
  <2> QED BY <2>1, NoSteps, StepsChange
<1>13. CASE Request(c)
  <2>1. todo # <<>> /\ lock' = lock
    BY <1>13 DEF Request, Does, Live
  <2>2. CASE Goes(c) \/ Fails(c)
    BY <2>1, <2>2, GoesOn, FailsOn
  <2>3. CASE call' = [call EXCEPT ![c].todo =
               IF Step(c) \in Optional THEN Tail(@)
               ELSE IF Step(c) = "terminal" THEN Detach ELSE <<>>]
    <3> DEFINE s == IF Step(c) \in Optional THEN Tail(todo)
                    ELSE IF Step(c) = "terminal" THEN Detach ELSE <<>>
    <3>1. call' = [call EXCEPT ![c] = [@ EXCEPT !.todo = s]]
      BY <2>3
    <3>2. Tail(todo) \in Seq(H) /\ Head(todo) \in H
      BY <2>1, OwnSteps, TailOn
    <3>3. ASSUME Step(c) = "terminal" PROVE Detach \in Seq(H)
      <4>1. {"agent"} \subseteq Held(call[c].tool)
        BY <3>2, <3>3 DEF On, Channel, PairSteps, AgentSteps, Step
      <4> QED BY <4>1, AgentParts, OnGrows
    <3> HIDE DEF H
    <3>4. s \in Seq(H)
      BY <3>2, <3>3, NoSteps
    <3> HIDE DEF s
    <3> QED BY <2>1, <3>1, <3>4, StepsChange DEF H
  <2> QED BY <1>13, <2>2, <2>3 DEF Request
<1> QED BY <1>1, <1>2, <1>3, <1>4, <1>5, <1>6, <1>7, <1>8, <1>9, <1>10, <1>11,
           <1>12, <1>13 DEF LocalStep

LEMMA NextScope ==
  ASSUME ScopeInv, [Next]_vars PROVE ScopeInv'
<1>1. ASSUME NEW c \in Workers,
             LocalStep(c) \/ Request(c) \/ Rejected(c) \/ TimesOutSlow(c)
      PROVE  ScopeInv'
  BY <1>1, LocalScope
<1>2. ASSUME NEW c \in Calls, Arrive(c) \/ CancelWaiting(c) \/ CancelWorking(c)
      PROVE  ScopeInv'
  BY <1>2, ArriveScope, FinishScope, CancelWorkingScope DEF Workers
<1>3. CASE StopServing
  BY <1>3, StopScope
<1>4. CASE Serve \/ Exit \/ Hang \/ UNCHANGED vars
  <2>1. UNCHANGED <<call, lock>>
    BY <1>4 DEF Serve, Exit, Hang, vars
  <2> QED BY <2>1 DEF ScopeInv, Holds
<1> QED BY <1>1, <1>2, <1>3, <1>4 DEF Next

----------------------------------------------------------------------------
LEMMA ScopeSeparates ==
  ASSUME ScopeInv PROVE OneWorkerPerChannel
<1> SUFFICES ASSUME NEW c \in Workers, NEW d \in Workers, c # d,
                    NEW l \in Uses(c) \cap Uses(d)
             PROVE  FALSE
  BY DEF OneWorkerPerChannel
<1>1. ASSUME NEW e \in Workers, l \in Uses(e) PROVE lock[l] = e
  <2>1. PICK step \in Range(call[e].todo) : l \in Channel(step)
    BY <1>1 DEF Uses
  <2>2. call[e].todo # <<>>
    BY <2>1 DEF Range
  <2>3. step \in On(Held(call[e].tool))
    BY <2>1, <2>2, OwnSteps DEF Range
  <2>4. l \in Held(call[e].tool)
    BY <2>1, <2>3 DEF On
  <2>5. Range(call[e].need) = {} /\ call[e].st = "working"
    BY <2>2, OwnSteps DEF Range
  <2> QED BY <2>4, <2>5 DEF ScopeInv, Holds
<1> QED BY <1>1

\* Two tool threads never have work left on the same channel: no cancelled
\* call, failed handler or shutdown lets a thread run without the locks of its
\* tool, however many calls there are (_tool_lock_scope, _run_sync_handler and
\* the handlers of msx_mcp_server.py).
THEOREM ThreadsKeepApart == Spec => []OneWorkerPerChannel
<1>1. ScopeInv /\ [Next]_vars => ScopeInv'
  BY NextScope
<1>2. Init => ScopeInv
  BY InitScope
<1>3. ScopeInv => OneWorkerPerChannel
  BY ScopeSeparates
<1> QED BY <1>1, <1>2, <1>3, PTL DEF Spec
----------------------------------------------------------------------------
(* What the process owns, and how far each lifecycle call is with it.      *)

Machine == emu.proc # "none"
Link == link # "none"
Empty == slot.local = "none" /\ ~slot.agent /\ ~slot.bench

LocalSettled == Machine = (slot.local # "none")
AgentSettled == Link = slot.agent
DirSettled == dir = slot.bench
Settled == LocalSettled /\ AgentSettled /\ DirSettled

\* A thread that talks before the rest; that closes the machine; that gives the
\* attachment up, if there is one.
Talks(todo, rest) == \E s \in Seq(Talk) : todo = s \o rest

Quits == {<<"close">>, <<"quit", "reap">>, <<"reap">>, <<"detach">>}
Closing(todo, rest) ==
  \/ \E q \in Quits : todo = q \o rest
  \/ ~Machine /\ todo = rest

Detaching(todo, rest) ==
  \/ /\ slot.agent /\ Link
     /\ todo \in {<<"probe">> \o (Detach \o rest), Detach \o rest}
  \/ slot.agent /\ ~Link /\ todo = <<"forgetAgent">> \o rest
  \/ ~slot.agent /\ ~Link /\ todo = rest

LocalFits(tool, todo) ==
  \/ LocalSettled /\ todo \in {<<>>, Refuse}
  \/ /\ tool \in {"local_boot", "local_boot_auto", "local_attach"}
     /\ slot.local = "none"
     /\ \/ ~Machine /\ todo \in {BootProgram, AttachProgram}
        \/ Machine /\ (Talks(todo, <<"publish">>) \/ Talks(todo, <<"publishWindow">>))
        \/ Closing(todo, <<>>) \/ Closing(todo, <<"again">>)
  \/ /\ tool = "local_shutdown" /\ slot.local \notin {"none", "bench"}
     /\ Closing(todo, <<"forgetLocal">>)

AgentFits(tool, todo) ==
  \/ AgentSettled /\ todo \in {<<>>, Refuse}
  \/ /\ tool \in {"agent_listen", "agent_connect"} /\ ~slot.agent
     /\ \/ ~Link /\ todo \in {ListenProgram, ConnectProgram}
        \/ Link /\ todo \in {Tail(ListenProgram), Tail(ConnectProgram)}
        \/ todo = <<"closeAgent">>
  \/ /\ tool \in {"agent_disconnect", "agent_reboot"}
     /\ \/ Detaching(todo, <<>>)
        \/ slot.agent /\ Link /\ todo = <<"terminal">> \o Detach

\* The bench: what is left after its directory, listener and machine are there,
\* after it was published, and when its start has failed.
BenchSetup ==
  Settings \o ImportPackage \o PowerOn \o Advance \o TypeLines \o ReadScreen
  \o <<"plug">>
BenchAfter == Status \o <<"request">>
BenchRest == <<"accept", "publishBench">> \o BenchAfter
BenchUndo == <<"closeAgent", "close", "rmdir">>

StartFits(todo) ==
  \/ /\ ~dir /\ ~Link /\ ~Machine
     /\ todo = <<"mkdir", "listen", "spawn">> \o (BenchSetup \o BenchRest)
  \/ dir /\ ~Link /\ ~Machine /\ todo = <<"listen", "spawn">> \o (BenchSetup \o BenchRest)
  \/ dir /\ Link /\ ~Machine /\ todo = <<"spawn">> \o (BenchSetup \o BenchRest)
  \/ dir /\ Link /\ Machine /\ Talks(todo, BenchRest)
  \/ dir /\ Link /\ Machine /\ todo = <<"publishBench">> \o BenchAfter
  \/ Talks(todo, BenchUndo)
  \/ Closing(todo, BenchUndo)
  \/ ~Link /\ Closing(todo, <<"rmdir">>)

BothFits(tool, todo) ==
  \/ Settled /\ tool # "shutdown_all" /\ todo \in {<<>>, Refuse}
  \/ Settled /\ Empty /\ todo = <<>>
  \/ /\ Settled /\ todo \in Seq(Talk \cup {"request"})
     /\ tool = "bench_status" \/ (tool = "bench_start" /\ slot.bench)
  \/ tool = "bench_start" /\ Empty /\ StartFits(todo)
  \/ /\ tool \in {"bench_shutdown", "shutdown_all"} /\ slot.bench /\ dir
     /\ \/ Detaching(todo, <<"close", "forgetBench", "rmdir">>)
        \/ ~slot.agent /\ ~Link /\ Closing(todo, <<"forgetBench", "rmdir">>)
  \/ /\ tool \in {"bench_shutdown", "shutdown_all"} /\ Empty /\ ~Link /\ ~Machine
     /\ todo = <<"rmdir">>
  \/ /\ tool = "shutdown_all" /\ ~slot.bench /\ ~dir
     /\ \/ slot.local # "none" /\ Detaching(todo, <<"close", "forgetLocal">>)
        \/ slot.local = "none" /\ ~Machine /\ Detaching(todo, <<>>)
        \/ /\ slot.local # "none" /\ ~slot.agent /\ ~Link
           /\ Closing(todo, <<"forgetLocal">>)

BothLifecycle == BenchLifecycle \cup {"shutdown_all"}

Fits(w) ==
  /\ w.tool \in LocalLifecycle => LocalFits(w.tool, w.todo)
  /\ w.tool \in AgentLifecycle => AgentFits(w.tool, w.todo)
  /\ w.tool \in BothLifecycle => BothFits(w.tool, w.todo)
  /\ w.tool \notin Lifecycle => w.todo \in Seq(Talk \cup {"request", "refuse"})

\* The calls of a kind that have started and not left their locks.
Busy(tools) == \E c \in Workers : call[c].st = "working" /\ call[c].tool \in tools

ServerInv ==
  /\ server \in {"serving", "closing", "closed"}
  /\ server = "serving" => call[Lifespan].st = "idle"
  /\ server # "serving" => \A c \in Calls : call[c].st # "waiting"
  /\ server = "closing" => call[Lifespan].tool = "shutdown_all"
  /\ server = "closed" =>
       /\ Empty /\ call[Lifespan].st = "done"
       /\ \A c \in Workers : call[c].st = "working" => Held(call[c].tool) = {}

Emulators ==
  [proc : {"none", "running", "hung", "exited", "window", "shut"},
   sent : Seq([cmd : Steps, own : BOOLEAN]),
   replies : Seq([own : BOOLEAN, val : BOOLEAN]),
   broken : BOOLEAN, held : BOOLEAN, trust : {"good", "late", "wrong"},
   by : Workers \cup {Nobody}]

OwnedTypes ==
  /\ emu \in Emulators
  /\ slot \in [local : {"none", "owned", "attached", "bench"},
               agent : BOOLEAN, bench : BOOLEAN]
  /\ slot.bench = (slot.local = "bench")
  /\ dir \in BOOLEAN

OwnedInv ==
  /\ OwnedTypes
  /\ \A c \in Workers : call[c].st = "working" => Fits(call[c])
  /\ \A c \in Workers : call[c].wait => Live(c) /\ Step(c) \notin HostSteps
  /\ Busy(LocalLifecycle \cup BothLifecycle) \/ LocalSettled
  /\ Busy(AgentLifecycle \cup BothLifecycle) \/ AgentSettled
  /\ Busy(BothLifecycle) \/ DirSettled
  /\ ServerInv

----------------------------------------------------------------------------
(* The sequences a lifecycle call goes through.                            *)

LEMMA TalkSteps == ASSUME NEW s \in Seq(Talk) PROVE s \in Seq(Steps)
BY StepWords

LEMMA TalksSelf ==
  ASSUME NEW rest \in Seq(Steps) PROVE Talks(rest, rest)
<1>1. <<>> \in Seq(Talk) /\ rest = <<>> \o rest
  OBVIOUS
<1> QED BY <1>1, Zenon DEF Talks

LEMMA TalksMore ==
  ASSUME NEW s \in Seq(Talk), NEW rest \in Seq(Steps), NEW todo, Talks(todo, rest)
  PROVE  Talks(s \o todo, rest)
<1>1. PICK t \in Seq(Talk) : todo = t \o rest
  BY DEF Talks
<1>2. s \o todo = (s \o t) \o rest /\ s \o t \in Seq(Talk)
  <2>1. s \in Seq(Steps) /\ t \in Seq(Steps)
    BY TalkSteps
  <2>2. (s \o t) \o rest = s \o (t \o rest)
    BY <2>1, ConcatAssociative
  <2> QED BY <1>1, <2>2, JoinOn
<1> QED BY <1>2 DEF Talks

\* A thread that talks goes on talking, or is done with it.
LEMMA TalksOn ==
  ASSUME NEW rest \in Seq(Steps), NEW todo, Talks(todo, rest)
  PROVE  /\ todo \in Seq(Steps)
         /\ \/ todo = rest
            \/ todo # <<>> /\ Head(todo) \in Talk /\ Talks(Tail(todo), rest)
<1>1. PICK t \in Seq(Talk) : todo = t \o rest
  BY DEF Talks
<1>2. t \in Seq(Steps) /\ todo \in Seq(Steps)
  BY <1>1, TalkSteps, JoinOn
<1>3. CASE t = <<>>
  BY <1>1, <1>2, <1>3, ConcatEmptySeq
<1>4. CASE t # <<>>
  <2>1. Head(t) \in Talk /\ Tail(t) \in Seq(Talk)
    BY <1>4, TailOn
  <2>2. todo # <<>> /\ Head(todo) = Head(t) /\ Tail(todo) = Tail(t) \o rest
    BY <1>1, <1>2, <1>4
  <2>3. Talks(Tail(todo), rest)
    BY <2>1, <2>2 DEF Talks
  <2> QED BY <1>2, <2>1, <2>2, <2>3
<1> QED BY <1>3, <1>4

LEMMA CaptureTalks ==
  ASSUME NEW val PROVE CaptureOf(val) \in Seq(Talk)
<1>1. /\ <<"regs", "memory", "cpu">> \in Seq(Talk) /\ <<"break">> \in Seq(Talk)
      /\ <<"cont">> \in Seq(Talk)
  BY StepWords
<1> QED BY <1>1, JoinOn DEF CaptureOf, Exact

----------------------------------------------------------------------------
(* What the operations of the channel make of the emulator.                *)

LEMMA NewEmulators ==
  /\ NoEmulator \in Emulators /\ NoEmulator.proc = "none"
  /\ Spawned \in Emulators /\ Spawned.proc = "running"
  /\ \A b \in BOOLEAN : Attached(b) \in Emulators /\ Attached(b).proc = "window"
<1>1. <<>> \in Seq([cmd : Steps, own : BOOLEAN]) /\ <<>> \in Seq([own : BOOLEAN, val : BOOLEAN])
  OBVIOUS
<1>2. NoEmulator \in Emulators /\ NoEmulator.proc = "none"
  BY <1>1 DEF NoEmulator, Emulators
<1>3. Spawned \in Emulators /\ Spawned.proc = "running"
  BY <1>2 DEF Spawned, Emulators
<1>4. \A b \in BOOLEAN : Attached(b) \in Emulators /\ Attached(b).proc = "window"
  BY <1>2 DEF Attached, Emulators
<1> QED BY <1>2, <1>3, <1>4

----------------------------------------------------------------------------
(* What a step of a thread does, by the first of the steps it has left.    *)

Now(machine, slots, up, directory) ==
  Machine' = machine /\ slot' = slots /\ Link' = up /\ dir' = directory
Same == Now(Machine, slot, Link, dir)

Effect(v, w) ==
  LET step == Head(v.todo)
      Pass == w.todo = Tail(v.todo)
      Undo == w.todo = Recovery(v.tool, v.todo, v.tries)
  IN
  \/ /\ step \in Talk /\ Same
     /\ \/ Pass \/ w.todo = v.todo
        \/ step \notin Optional /\ Undo
        \/ step = "breaked" /\ \E val \in BOOLEAN : w.todo = CaptureOf(val) \o Tail(v.todo)
  \/ step = "request" /\ Same /\ (Pass \/ Undo \/ w.todo = <<>>)
  \/ step = "probe" /\ Same /\ Pass
  \/ step = "terminal" /\ Same /\ (Pass \/ Undo \/ w.todo = Detach)
  \/ /\ step = "spawn"
     /\ \/ Pass /\ Now(TRUE, slot, Link, dir)
        \/ Undo /\ Now(FALSE, slot, Link, dir)
  \/ step = "connect" /\ ((Pass /\ Now(TRUE, slot, Link, dir)) \/ (Undo /\ Same))
  \/ step = "publish" /\ Pass /\ Now(Machine, [slot EXCEPT !.local = "owned"], Link, dir)
  \/ /\ step = "publishWindow" /\ Pass
     /\ Now(Machine, [slot EXCEPT !.local = "attached"], Link, dir)
  \/ step = "forgetLocal" /\ Pass /\ Now(Machine, [slot EXCEPT !.local = "none"], Link, dir)
  \/ /\ step = "close" /\ Same
     /\ w.todo \in {<<"quit", "reap">> \o Tail(v.todo), <<"detach">> \o Tail(v.todo)}
  \/ step \in {"reap", "detach"} /\ Pass /\ Now(FALSE, slot, Link, dir)
  \/ step = "again" /\ Same /\ w.todo = BootProgram
  \/ step = "refuse" /\ Same /\ w.todo = <<>>
  \/ step = "listen" /\ ((Pass /\ Now(Machine, slot, TRUE, dir)) \/ (Undo /\ Same))
  \/ step \in {"accept", "dial"} /\ ((Pass /\ Now(Machine, slot, TRUE, dir)) \/ (Undo /\ Same))
  \/ step = "publishAgent" /\ Pass /\ Now(Machine, [slot EXCEPT !.agent = TRUE], Link, dir)
  \/ step = "closeAgent" /\ Pass /\ Now(Machine, slot, FALSE, dir)
  \/ step = "forgetAgent" /\ Pass /\ Now(Machine, [slot EXCEPT !.agent = FALSE], Link, dir)
  \/ step = "mkdir" /\ Pass /\ Now(Machine, slot, Link, TRUE)
  \/ step = "rmdir" /\ Pass /\ Now(Machine, slot, Link, FALSE)
  \/ /\ step = "publishBench" /\ Pass
     /\ Now(Machine, [local |-> "bench", agent |-> TRUE, bench |-> TRUE], Link, dir)
  \/ /\ step = "forgetBench" /\ Pass
     /\ Now(Machine, [slot EXCEPT !.local = "none", !.bench = FALSE], Link, dir)

Moves(c, w) ==
  /\ call' = [call EXCEPT ![c] = w] /\ server' = server
  /\ w.tool = call[c].tool /\ w.st = call[c].st
  /\ w.wait => w.todo # <<>> /\ Head(w.todo) \notin HostSteps
  /\ emu' \in Emulators
  /\ Effect(call[c], w)

LEMMA RecordChanges ==
  ASSUME NEW v \in CallRecords
  PROVE  /\ Passed(v).todo = Tail(v.todo) /\ Passed(v).tool = v.tool
         /\ Passed(v).st = v.st /\ ~Passed(v).wait
         /\ Failed(v).todo = IF Head(v.todo) \in Optional THEN Tail(v.todo)
                             ELSE Recovery(v.tool, v.todo, v.tries)
         /\ Failed(v).tool = v.tool /\ Failed(v).st = v.st /\ ~Failed(v).wait
BY DEF Passed, Failed, CallRecords

LEMMA SeqFrom ==
  ASSUME NEW S, NEW n \in Nat, NEW f \in [1 .. n -> S] PROVE f \in Seq(S)
BY SeqDef

LEMMA ChannelSteps ==
  ASSUME emu \in Emulators, NEW c \in Workers, NEW cmd \in Steps, NEW keep
  PROVE  /\ Written(emu, c, cmd) \in Emulators /\ Written(emu, c, cmd).proc = emu.proc
         /\ TimedOut(emu, keep) \in Emulators /\ TimedOut(emu, keep).proc = emu.proc
         /\ Unanswered(emu, keep) \in Emulators /\ Unanswered(emu, keep).proc = emu.proc
         /\ Locked(emu, c) \in Emulators /\ Locked(emu, c).proc = emu.proc
         /\ Unlocked(emu) \in Emulators /\ Unlocked(emu).proc = emu.proc
         /\ emu.replies # <<>> =>
              Answered(emu, keep) \in Emulators /\ Answered(emu, keep).proc = emu.proc
         /\ emu.sent # <<>> =>
              /\ Served(emu) \in Emulators
              /\ Served(emu).proc = emu.proc \/ Served(emu).proc = "exited"
<1> DEFINE Sent == Seq([cmd : Steps, own : BOOLEAN])
           Replies == Seq([own : BOOLEAN, val : BOOLEAN])
           late == IF emu.trust = "wrong" THEN emu.trust ELSE "late"
           wrong == IF Head(emu.replies).own THEN emu.trust ELSE "wrong"
           free == IF keep THEN emu.by ELSE Nobody
           gone == IF Head(emu.sent).cmd = "quit" THEN "exited" ELSE emu.proc
           old == [i \in DOMAIN emu.sent |-> [emu.sent[i] EXCEPT !.own = FALSE]]
           dead == [i \in DOMAIN emu.replies |-> [emu.replies[i] EXCEPT !.own = FALSE]]
<1>1. /\ emu.sent \in Sent /\ emu.replies \in Replies
      /\ emu.proc \in {"none", "running", "hung", "exited", "window", "shut"}
      /\ emu.broken \in BOOLEAN /\ emu.held \in BOOLEAN
      /\ emu.trust \in {"good", "late", "wrong"} /\ emu.by \in Workers \cup {Nobody}
  BY DEF Emulators
<1>2. /\ late \in {"good", "late", "wrong"} /\ wrong \in {"good", "late", "wrong"}
      /\ free \in Workers \cup {Nobody}
      /\ gone \in {"none", "running", "hung", "exited", "window", "shut"}
      /\ gone = emu.proc \/ gone = "exited"
  BY <1>1
<1>3. Append(emu.sent, [cmd |-> cmd, own |-> TRUE]) \in Sent
  BY <1>1
<1>4. emu.replies # <<>> => Tail(emu.replies) \in Replies
  BY <1>1
<1>5. emu.sent # <<>> => Tail(emu.sent) \in Sent /\ Head(emu.sent) \in [cmd : Steps, own : BOOLEAN]
  BY <1>1, TailOn
<1>6. emu.sent # <<>> =>
        Append(emu.replies, [own |-> Head(emu.sent).own, val |-> emu.broken]) \in Replies
  <2>1. emu.sent # <<>> =>
          [own |-> Head(emu.sent).own, val |-> emu.broken] \in [own : BOOLEAN, val : BOOLEAN]
    BY <1>1, <1>5
  <2> QED BY <1>1, <2>1
<1>7. old \in Sent
  <2>1. \A i \in 1 .. Len(emu.sent) :
          [emu.sent[i] EXCEPT !.own = FALSE] \in [cmd : Steps, own : BOOLEAN]
    <3>1. \A i \in 1 .. Len(emu.sent) : emu.sent[i] \in [cmd : Steps, own : BOOLEAN]
      BY <1>1, ElementOfSeq DEF Sent, Replies
    <3> QED BY <3>1
  <2>2. DOMAIN emu.sent = 1 .. Len(emu.sent) /\ Len(emu.sent) \in Nat
    BY <1>1
  <2>3. old \in [1 .. Len(emu.sent) -> [cmd : Steps, own : BOOLEAN]]
    BY <2>1, <2>2
  <2> HIDE DEF old
  <2> QED BY <2>2, <2>3, SeqFrom DEF Sent
<1>8. dead \in Replies
  <2>1. \A i \in 1 .. Len(emu.replies) :
          [emu.replies[i] EXCEPT !.own = FALSE] \in [own : BOOLEAN, val : BOOLEAN]
    <3>1. \A i \in 1 .. Len(emu.replies) : emu.replies[i] \in [own : BOOLEAN, val : BOOLEAN]
      BY <1>1, ElementOfSeq DEF Sent, Replies
    <3> QED BY <3>1
  <2>2. DOMAIN emu.replies = 1 .. Len(emu.replies) /\ Len(emu.replies) \in Nat
    BY <1>1
  <2>3. dead \in [1 .. Len(emu.replies) -> [own : BOOLEAN, val : BOOLEAN]]
    BY <2>1, <2>2
  <2> HIDE DEF dead
  <2> QED BY <2>2, <2>3, SeqFrom DEF Replies
<1> HIDE DEF Sent, Replies, late, wrong, free, gone, old, dead
<1>9. Written(emu, c, cmd) \in Emulators /\ Written(emu, c, cmd).proc = emu.proc
  BY <1>3 DEF Written, Emulators, Sent
<1>10. TimedOut(emu, keep) \in Emulators /\ TimedOut(emu, keep).proc = emu.proc
  <2>1. TimedOut(emu, keep) =
          [emu EXCEPT !.sent = old, !.replies = dead, !.by = free, !.trust = late]
    BY DEF TimedOut, old, dead, free, late, Emulators
  <2> QED BY <2>1, <1>2, <1>7, <1>8 DEF Emulators, Sent, Replies
<1>11. Unanswered(emu, keep) \in Emulators /\ Unanswered(emu, keep).proc = emu.proc
  BY <1>2 DEF Unanswered, Emulators, free
<1>12. /\ Locked(emu, c) \in Emulators /\ Locked(emu, c).proc = emu.proc
       /\ Unlocked(emu) \in Emulators /\ Unlocked(emu).proc = emu.proc
  BY DEF Locked, Unlocked, Emulators
<1>13. emu.replies # <<>> =>
         Answered(emu, keep) \in Emulators /\ Answered(emu, keep).proc = emu.proc
  <2>1. Answered(emu, keep) =
          [emu EXCEPT !.replies = Tail(emu.replies), !.by = free, !.trust = wrong]
    BY DEF Answered, free, wrong, Emulators
  <2> QED BY <2>1, <1>2, <1>4 DEF Emulators, Replies
<1>14. ASSUME emu.sent # <<>>
       PROVE  /\ Served(emu) \in Emulators
              /\ Served(emu).proc = emu.proc \/ Served(emu).proc = "exited"
  <2> DEFINE cmd1 == Head(emu.sent).cmd
             sent == Tail(emu.sent)
             replies == Append(emu.replies, [own |-> Head(emu.sent).own, val |-> emu.broken])
             broken == (emu.broken \/ cmd1 = "break") /\ cmd1 \notin Continuing
             held == emu.held /\ cmd1 # "setpc"
  <2>1. Served(emu) = [emu EXCEPT !.sent = sent, !.replies = replies, !.broken = broken,
                                  !.held = held, !.proc = gone]
    BY DEF Served, gone, Emulators
  <2>2. sent \in Sent /\ replies \in Replies /\ broken \in BOOLEAN /\ held \in BOOLEAN
    BY <1>1, <1>5, <1>6, <1>14
  <2> HIDE DEF sent, replies, broken, held
  <2> QED BY <1>2, <2>1, <2>2 DEF Emulators, Sent, Replies
<1> QED BY <1>9, <1>10, <1>11, <1>12, <1>13, <1>14

LEMMA CommandTalks ==
  \A s \in Steps \ HostSteps : s \in Talk
BY DEF Talk, Steps, HostSteps

LEMMA UnmovedIsSame ==
  ASSUME UNCHANGED <<slot, link, dir>>, emu'.proc = emu.proc PROVE Same
BY DEF Same, Now, Machine, Link

\* The steps that talk to the emulator.
LEMMA TalkMoves ==
  ASSUME ScopeInv, OwnedInv, NEW c \in Workers, Live(c),
         \/ WriteCommand(c) \/ WriteFails(c) \/ Answer(c) \/ Rejected(c)
         \/ TimesOut(c) \/ TimesOutSlow(c) \/ GoneWhileWaiting(c)
  PROVE  \E w : Moves(c, w)
<1> DEFINE v == call[c]
           step == Head(v.todo)
<1>1. /\ v \in CallRecords /\ v.todo \in Seq(Steps) /\ v.todo # <<>>
      /\ step \in Steps /\ emu \in Emulators
  <2>1. v \in CallRecords /\ v.todo \in Seq(Steps) /\ v.todo # <<>>
    BY OwnSteps, OnSteps DEF Live, CallRecords
  <2> QED BY <2>1, TailOn DEF OwnedInv, OwnedTypes
<1>2. v.wait => step \notin HostSteps
  BY DEF OwnedInv, Step
<1>3. step \notin HostSteps
  BY <1>2 DEF WriteCommand, WriteFails, Answer, Rejected, TimesOut, TimesOutSlow, Late,
     GoneWhileWaiting, Sends, Step
<1>4. step \in Talk
  BY <1>1, <1>3, CommandTalks
<1>5. UNCHANGED <<server, slot, link, dir>>
  BY DEF WriteCommand, WriteFails, Answer, Rejected, TimesOut, TimesOutSlow, Late,
     GoneWhileWaiting
<1>6. CASE WriteCommand(c)
  <2> DEFINE w == [v EXCEPT !.wait = TRUE]
  <2>1. call' = [call EXCEPT ![c] = w] /\ emu' = Written(emu, c, step)
    BY <1>6 DEF WriteCommand, Step
  <2>2. emu' \in Emulators /\ Same
    BY <1>1, <1>5, <2>1, ChannelSteps, UnmovedIsSame
  <2>3. w.tool = v.tool /\ w.st = v.st /\ w.todo = v.todo
    BY <1>1 DEF CallRecords
  <2> HIDE DEF w
  <2>4. Effect(v, w)
    BY <1>4, <2>2, <2>3 DEF Effect
  <2>5. Moves(c, w)
    BY <1>1, <1>3, <1>5, <2>1, <2>2, <2>3, <2>4 DEF Moves
  <2> QED BY <2>5
<1>7. ASSUME Fails(c), emu' \in Emulators, Same PROVE \E w : Moves(c, w)
  <2> DEFINE w == Failed(v)
  <2>1. call' = [call EXCEPT ![c] = w]
    BY <1>7 DEF Fails
  <2>2. Effect(v, w)
    BY <1>1, <1>4, <1>7, RecordChanges DEF Effect
  <2>3. Moves(c, w)
    BY <1>1, <1>5, <1>7, <2>1, <2>2, RecordChanges DEF Moves
  <2> QED BY <2>3
<1>8. CASE \/ WriteFails(c) \/ Rejected(c) \/ TimesOut(c) \/ TimesOutSlow(c)
           \/ GoneWhileWaiting(c)
  <2>1. /\ Fails(c)
        /\ \/ emu' = emu
           \/ emu' = Answered(emu, Keeps(c)) /\ emu.replies # <<>>
           \/ emu' = TimedOut(emu, Keeps(c)) \/ emu' = Unanswered(emu, Keeps(c))
    <3>1. CASE WriteFails(c) BY <3>1 DEF WriteFails
    <3>2. CASE Rejected(c) BY <3>2 DEF Rejected
    <3>3. CASE TimesOut(c) \/ TimesOutSlow(c) BY <3>3 DEF TimesOut, TimesOutSlow, Late
    <3>4. CASE GoneWhileWaiting(c) BY <3>4 DEF GoneWhileWaiting
    <3> QED BY <1>8, <3>1, <3>2, <3>3, <3>4
  <2>2. emu' \in Emulators /\ emu'.proc = emu.proc
    BY <1>1, <2>1, ChannelSteps
  <2> QED BY <1>5, <1>7, <2>1, <2>2, UnmovedIsSame
<1>9. CASE Answer(c)
  <2>1. emu.replies # <<>> /\ emu' = Answered(emu, Keeps(c))
    BY <1>9 DEF Answer
  <2>2. emu' \in Emulators /\ Same
    BY <1>1, <1>5, <2>1, ChannelSteps, UnmovedIsSame
  <2>3. Head(emu.replies).val \in BOOLEAN
    <3>1. emu.replies \in Seq([own : BOOLEAN, val : BOOLEAN])
      BY <1>1 DEF Emulators
    <3>2. Head(emu.replies) \in [own : BOOLEAN, val : BOOLEAN]
      BY <2>1, <3>1, TailOn
    <3> QED BY <3>2
  <2>4. ASSUME NEW val \in BOOLEAN, call' = [call EXCEPT ![c] = Resumed(@, val)]
        PROVE  \E w : Moves(c, w)
    <3> DEFINE w == Resumed(v, val)
    <3>1. call' = [call EXCEPT ![c] = w]
      BY <2>4
    <3>2. /\ w.tool = v.tool /\ w.st = v.st /\ ~w.wait
          /\ \/ w.todo = Tail(v.todo)
             \/ step = "breaked" /\ w.todo = CaptureOf(val) \o Tail(v.todo)
      <4>1. CASE step = "breaked"
        BY <1>1, <4>1 DEF Resumed, Passed, CallRecords
      <4>2. CASE step # "breaked"
        BY <1>1, <4>2, RecordChanges DEF Resumed
      <4> QED BY <4>1, <4>2
    <3> HIDE DEF w
    <3>3. Effect(v, w)
      BY <1>4, <2>2, <2>4, <3>2 DEF Effect
    <3>4. Moves(c, w)
      BY <1>1, <1>5, <2>2, <3>1, <3>2, <3>3 DEF Moves
    <3> QED BY <3>4
  <2>5. \/ Fails(c)
        \/ \E val \in BOOLEAN : call' = [call EXCEPT ![c] = Resumed(@, val)]
    BY <1>9, <2>3 DEF Answer
  <2> QED BY <1>7, <2>2, <2>4, <2>5
<1> QED BY <1>6, <1>8, <1>9

\* The steps that the host does by itself.
LEMMA HostMoves ==
  ASSUME ScopeInv, OwnedInv, NEW c \in Workers, Live(c),
         \/ Spawn(c) \/ Connect(c) \/ Publish(c) \/ Close(c) \/ Reap(c)
         \/ Monitor(c) \/ Again(c) \/ RefuseCall(c) \/ Listen(c) \/ Accept(c)
         \/ PublishAgent(c) \/ CloseAgent(c) \/ Directory(c) \/ Pair(c) \/ Request(c)
  PROVE  \E w : Moves(c, w)
<1> DEFINE v == call[c]
           step == Head(v.todo)
<1>1. /\ v \in CallRecords /\ v.todo \in Seq(Steps) /\ v.todo # <<>>
      /\ emu \in Emulators
  BY OwnSteps, OnSteps DEF Live, CallRecords, OwnedInv, OwnedTypes
<1>2. server' = server /\ ~v.wait
  BY DEF Spawn, Connect, Publish, Close, Reap, Monitor, Again, RefuseCall, Listen,
     Accept, PublishAgent, CloseAgent, Directory, Pair, Request, Does
<1>3. ASSUME NEW w, call' = [call EXCEPT ![c] = w], w.tool = v.tool, w.st = v.st,
             ~w.wait, emu' \in Emulators, Effect(v, w)
      PROVE  \E x : Moves(c, x)
  BY <1>2, <1>3 DEF Moves
<1>4. ASSUME Goes(c), emu' \in Emulators, Effect(v, Passed(v))
      PROVE  \E x : Moves(c, x)
  BY <1>1, <1>3, <1>4, RecordChanges DEF Goes
<1>5. ASSUME Fails(c), emu' \in Emulators, Effect(v, Failed(v))
      PROVE  \E x : Moves(c, x)
  BY <1>1, <1>3, <1>5, RecordChanges DEF Fails
<1>6. ASSUME NEW s, call' = [call EXCEPT ![c] = [@ EXCEPT !.todo = s]],
             emu' \in Emulators, Effect(v, [v EXCEPT !.todo = s])
      PROVE  \E x : Moves(c, x)
  <2> DEFINE w == [v EXCEPT !.todo = s]
  <2>1. w.tool = v.tool /\ w.st = v.st /\ ~w.wait
    BY <1>1, <1>2 DEF CallRecords
  <2> HIDE DEF w
  <2> QED BY <1>3, <1>6, <2>1 DEF w
<1>7. \A s : [v EXCEPT !.todo = s].todo = s
  BY <1>1 DEF CallRecords
<1>8. /\ Passed(v).todo = Tail(v.todo)
      /\ step \notin Optional =>
           Failed(v).todo = Recovery(v.tool, v.todo, v.tries)
      /\ step \in Optional => Failed(v).todo = Tail(v.todo)
  BY <1>1, RecordChanges
<1>9. CASE Spawn(c)
  <2>1. step = "spawn" /\ step \notin Optional /\ UNCHANGED <<slot, link, dir>>
    BY <1>9 DEF Spawn, Does, Step, Optional
  <2>2. CASE emu' = Spawned /\ Goes(c)
    <3>1. Effect(v, Passed(v))
      BY <1>8, <2>1, <2>2, NewEmulators DEF Effect, Now, Machine, Link
    <3> QED BY <1>4, <2>2, <3>1, NewEmulators
  <2>3. CASE emu' = Unspawned /\ Fails(c)
    <3>1. Effect(v, Failed(v))
      BY <1>8, <2>1, <2>3, NewEmulators DEF Effect, Now, Machine, Link, Unspawned
    <3> QED BY <1>5, <2>3, <3>1, NewEmulators DEF Unspawned
  <2> QED BY <1>9, <2>2, <2>3 DEF Spawn
<1>10. CASE Connect(c)
  <2>1. step = "connect" /\ step \notin Optional /\ UNCHANGED <<slot, link, dir>>
    BY <1>10 DEF Connect, Does, Step, Optional
  <2>2. CASE (\E stands \in BOOLEAN : emu' = Attached(stands)) /\ Goes(c)
    <3>1. emu' \in Emulators /\ emu'.proc = "window"
      BY <2>2, NewEmulators
    <3>2. Effect(v, Passed(v))
      BY <1>8, <2>1, <3>1 DEF Effect, Now, Machine, Link
    <3> QED BY <1>4, <2>2, <3>1, <3>2
  <2>3. CASE emu' = emu /\ Fails(c)
    <3>1. Effect(v, Failed(v))
      BY <1>8, <2>1, <2>3, UnmovedIsSame DEF Effect
    <3> QED BY <1>1, <1>5, <2>3, <3>1
  <2> QED BY <1>10, <2>2, <2>3 DEF Connect
<1>11. CASE Publish(c)
  <2>1. /\ Goes(c) /\ emu' = emu /\ UNCHANGED <<link, dir>>
        /\ \/ step = "publish" /\ slot' = [slot EXCEPT !.local = "owned"]
           \/ step = "publishWindow" /\ slot' = [slot EXCEPT !.local = "attached"]
           \/ step = "forgetLocal" /\ slot' = [slot EXCEPT !.local = "none"]
    BY <1>11 DEF Publish, Does, Step
  <2>2. Effect(v, Passed(v))
    BY <1>8, <2>1 DEF Effect, Now, Machine, Link
  <2> QED BY <1>1, <1>4, <2>1, <2>2
<1>12. CASE Close(c)
  <2> DEFINE s == CloseSteps(emu) \o Tail(v.todo)
  <2>1. /\ step = "close" /\ emu' = emu /\ UNCHANGED <<slot, link, dir>>
        /\ call' = [call EXCEPT ![c] = [@ EXCEPT !.todo = s]]
    BY <1>12 DEF Close, Does, Step
  <2>2. s \in {<<"quit", "reap">> \o Tail(v.todo), <<"detach">> \o Tail(v.todo)}
    BY DEF CloseSteps
  <2> HIDE DEF s
  <2>3. Effect(v, [v EXCEPT !.todo = s])
    BY <1>7, <2>1, <2>2, UnmovedIsSame DEF Effect
  <2> QED BY <1>1, <1>6, <2>1, <2>3
<1>13. CASE Reap(c)
  <2>1. /\ Goes(c) /\ emu' = NoEmulator /\ UNCHANGED <<slot, link, dir>>
        /\ step \in {"reap", "detach"}
    BY <1>13 DEF Reap, Does, Step, Reaped
  <2>2. Effect(v, Passed(v))
    BY <1>8, <2>1, NewEmulators DEF Effect, Now, Machine, Link
  <2> QED BY <1>4, <2>1, <2>2, NewEmulators
<1>14. CASE Monitor(c)
  <2>1. /\ Goes(c) /\ UNCHANGED <<slot, link, dir>> /\ step \in {"lock", "unlock"}
        /\ emu' = Locked(emu, c) \/ emu' = Unlocked(emu)
    BY <1>14 DEF Monitor, Does, Step
  <2>2. emu' \in Emulators /\ emu'.proc = emu.proc
    <3>1. "lock" \in Steps
      BY StepWords
    <3> QED BY <1>1, <2>1, <3>1, ChannelSteps
  <2>3. step \in Talk
    BY <2>1, StepWords
  <2>4. Effect(v, Passed(v))
    BY <1>8, <2>1, <2>2, <2>3, UnmovedIsSame DEF Effect
  <2> QED BY <1>4, <2>1, <2>2, <2>4
<1>15. CASE Again(c)
  <2> DEFINE n == v.tries - 1
             w == [v EXCEPT !.todo = BootProgram, !.tries = n]
  <2>1. /\ step = "again" /\ emu' = emu /\ UNCHANGED <<slot, link, dir>>
        /\ call' = [call EXCEPT ![c] = w]
    BY <1>15, <1>1 DEF Again, Does, Step, CallRecords
  <2> HIDE DEF n
  <2>2. w.tool = v.tool /\ w.st = v.st /\ ~w.wait /\ w.todo = BootProgram
    BY <1>1, <1>2 DEF CallRecords
  <2> HIDE DEF w
  <2>3. Effect(v, w)
    BY <2>1, <2>2, UnmovedIsSame DEF Effect
  <2> QED BY <1>1, <1>3, <2>1, <2>2, <2>3
<1>16. CASE RefuseCall(c)
  <2>1. /\ step = "refuse" /\ emu' = emu /\ UNCHANGED <<slot, link, dir>>
        /\ call' = [call EXCEPT ![c] = [@ EXCEPT !.todo = <<>>]]
    BY <1>16 DEF RefuseCall, Does, Step
  <2>2. Effect(v, [v EXCEPT !.todo = <<>>])
    BY <1>7, <2>1, UnmovedIsSame DEF Effect
  <2> QED BY <1>1, <1>6, <2>1, <2>2
<1>17. CASE Listen(c)
  <2>1. /\ step = "listen" /\ step \notin Optional /\ emu' = emu /\ UNCHANGED <<slot, dir>>
        /\ (link' = "listening" /\ Goes(c)) \/ (link' = link /\ Fails(c))
    BY <1>17 DEF Listen, Does, Step, Optional
  <2>2. (Goes(c) /\ Effect(v, Passed(v))) \/ (Fails(c) /\ Effect(v, Failed(v)))
    BY <1>8, <2>1 DEF Effect, Same, Now, Machine, Link
  <2> QED BY <1>1, <1>4, <1>5, <2>1, <2>2
<1>18. CASE Accept(c)
  <2>1. /\ step \in {"accept", "dial"} /\ step \notin Optional
        /\ emu' = emu /\ UNCHANGED <<slot, dir>>
        /\ (link' = "up" /\ Goes(c)) \/ (link' = link /\ Fails(c))
    BY <1>18 DEF Accept, Does, Step, Optional
  <2>2. (Goes(c) /\ Effect(v, Passed(v))) \/ (Fails(c) /\ Effect(v, Failed(v)))
    BY <1>8, <2>1 DEF Effect, Same, Now, Machine, Link
  <2> QED BY <1>1, <1>4, <1>5, <2>1, <2>2
<1>19. CASE PublishAgent(c) \/ CloseAgent(c)
  <2>1. /\ Goes(c) /\ emu' = emu /\ UNCHANGED dir
        /\ \/ step = "publishAgent" /\ slot' = [slot EXCEPT !.agent = TRUE] /\ link' = link
           \/ step = "closeAgent" /\ link' = "none" /\ slot' = slot
           \/ step = "forgetAgent" /\ slot' = [slot EXCEPT !.agent = FALSE] /\ link' = link
    BY <1>19 DEF PublishAgent, CloseAgent, Does, Step
  <2>2. Effect(v, Passed(v))
    BY <1>8, <2>1 DEF Effect, Now, Machine, Link
  <2> QED BY <1>1, <1>4, <2>1, <2>2
<1>20. CASE Directory(c) \/ Pair(c)
  <2>1. /\ Goes(c) /\ emu' = emu /\ UNCHANGED link
        /\ \/ step = "mkdir" /\ dir' = TRUE /\ slot' = slot
           \/ step = "rmdir" /\ dir' = FALSE /\ slot' = slot
           \/ /\ step = "publishBench" /\ dir' = dir
              /\ slot' = [local |-> "bench", agent |-> TRUE, bench |-> TRUE]
           \/ /\ step = "forgetBench" /\ dir' = dir
              /\ slot' = [slot EXCEPT !.local = "none", !.bench = FALSE]
    BY <1>20 DEF Directory, Pair, Does, Step
  <2>2. Effect(v, Passed(v))
    BY <1>8, <2>1 DEF Effect, Now, Machine, Link
  <2> QED BY <1>1, <1>4, <2>1, <2>2
<1>21. CASE Request(c)
  <2> DEFINE s == IF step \in Optional THEN Tail(v.todo)
                  ELSE IF step = "terminal" THEN Detach ELSE <<>>
  <2>1. /\ step \in {"request", "probe", "terminal"} /\ emu' = emu /\ UNCHANGED <<slot, dir>>
        /\ link' = link \/ (link = "up" /\ link' = "quarantined")
        /\ \/ Goes(c) \/ Fails(c)
           \/ call' = [call EXCEPT ![c] = [@ EXCEPT !.todo = s]]
    BY <1>21 DEF Request, Does, Step
  <2>2. Same
    BY <2>1 DEF Same, Now, Machine, Link
  <2>3. step \in Optional <=> step = "probe"
    BY <2>1 DEF Optional
  <2>4. Effect(v, Passed(v)) /\ Effect(v, Failed(v))
    BY <1>8, <2>1, <2>2, <2>3 DEF Effect
  <2>5. \/ step = "probe" /\ s = Tail(v.todo)
        \/ (step = "terminal" /\ s = Detach) \/ (step = "request" /\ s = <<>>)
    BY <2>1, <2>3
  <2> HIDE DEF s
  <2>6. Effect(v, [v EXCEPT !.todo = s])
    BY <1>7, <2>2, <2>5 DEF Effect
  <2> QED BY <1>1, <1>4, <1>5, <1>6, <2>1, <2>4, <2>6
<1> QED BY <1>9, <1>10, <1>11, <1>12, <1>13, <1>14, <1>15, <1>16, <1>17, <1>18,
           <1>19, <1>20, <1>21

----------------------------------------------------------------------------
(* Every step of a lifecycle call fits what the process owns.              *)

LEMMA Opened ==
  ASSUME NEW x, NEW rest \in Seq(Steps)
  PROVE  /\ <<x>> \o rest # <<>> /\ Head(<<x>> \o rest) = x
         /\ Tail(<<x>> \o rest) = rest
OBVIOUS

LEMMA OpenedTwice ==
  ASSUME NEW x, NEW y, NEW rest \in Seq(Steps)
  PROVE  /\ <<x, y>> \o rest # <<>> /\ Head(<<x, y>> \o rest) = x
         /\ Tail(<<x, y>> \o rest) = <<y>> \o rest
OBVIOUS

LEMMA NoneOpened ==
  ASSUME NEW rest \in Seq(Steps) PROVE <<>> \o rest = rest /\ rest \o <<>> = rest
BY ConcatEmptySeq

LEMMA TalkingMoves ==
  ASSUME NEW v, NEW w, NEW rest \in Seq(Steps), Talks(v.todo, rest), v.todo # rest,
         Effect(v, w)
  PROVE  Same /\ (Talks(w.todo, rest) \/ w.todo = Recovery(v.tool, v.todo, v.tries))
<1>1. Head(v.todo) \in Talk /\ Talks(Tail(v.todo), rest)
  BY TalksOn
<1>2. /\ Same
      /\ \/ w.todo = Tail(v.todo) \/ w.todo = v.todo
         \/ w.todo = Recovery(v.tool, v.todo, v.tries)
         \/ \E val \in BOOLEAN : w.todo = CaptureOf(val) \o Tail(v.todo)
  BY <1>1, NotTalk DEF Effect
<1>3. \A val : Talks(CaptureOf(val) \o Tail(v.todo), rest)
  BY <1>1, CaptureTalks, TalksMore
<1> QED BY <1>1, <1>2, <1>3

LEMMA ClosingMoves ==
  ASSUME NEW v, NEW w, NEW rest \in Seq(Steps), Closing(v.todo, rest), Effect(v, w)
  PROVE  \/ /\ slot' = slot /\ Link' = Link /\ dir' = dir
            /\ Closing(w.todo, rest)'
         \/ ~Machine /\ v.todo = rest
<1>1. CASE v.todo = <<"close">> \o rest
  <2>1. Head(v.todo) = "close" /\ Tail(v.todo) = rest
    BY <1>1, Opened
  <2>2. Same /\ w.todo \in {<<"quit", "reap">> \o rest, <<"detach">> \o rest}
    BY <2>1, NotTalk DEF Effect
  <2> QED BY <2>2 DEF Same, Now, Closing, Quits
<1>2. CASE v.todo = <<"quit", "reap">> \o rest
  <2>1. Head(v.todo) = "quit" /\ Tail(v.todo) = <<"reap">> \o rest
    BY <1>2, OpenedTwice
  <2>2. Same /\ w.todo \in {v.todo, <<"reap">> \o rest}
    BY <2>1 DEF Effect, Optional
  <2> QED BY <1>2, <2>2 DEF Same, Now, Closing, Quits
<1>3. CASE v.todo = <<"reap">> \o rest \/ v.todo = <<"detach">> \o rest
  <2>1. Head(v.todo) \in {"reap", "detach"} /\ Tail(v.todo) = rest
    BY <1>3, Opened
  <2>2. Now(FALSE, slot, Link, dir) /\ w.todo = rest
    BY <2>1, NotTalk DEF Effect
  <2> QED BY <2>2 DEF Now, Closing
<1> QED BY <1>1, <1>2, <1>3 DEF Closing, Quits

LEMMA DetachingMoves ==
  ASSUME OwnedTypes, NEW v, NEW w, NEW rest \in Seq(Steps),
         Detaching(v.todo, rest), Effect(v, w)
  PROVE  \/ /\ Machine' = Machine /\ dir' = dir
            /\ \E a \in BOOLEAN : slot' = [slot EXCEPT !.agent = a]
            /\ Detaching(w.todo, rest)'
         \/ ~slot.agent /\ ~Link /\ v.todo = rest
<1>1. /\ slot.agent \in BOOLEAN /\ slot = [slot EXCEPT !.agent = slot.agent]
      /\ \A a \in BOOLEAN : [slot EXCEPT !.agent = a].agent = a
  BY DEF OwnedTypes
<1>2. Detach = <<"closeAgent", "forgetAgent">>
  BY DEF Detach
<1>3. Detach \o rest \in Seq(Steps)
  <2>1. Detach \in Seq(Steps)
    BY <1>2, StepWords
  <2> QED BY <2>1, JoinOn
<1>4. CASE slot.agent /\ Link /\ v.todo = <<"probe">> \o (Detach \o rest)
  <2>1. Head(v.todo) = "probe" /\ Tail(v.todo) = Detach \o rest
    BY <1>3, <1>4, Opened
  <2>2. Same /\ w.todo = Detach \o rest
    BY <2>1, NotTalk DEF Effect
  <2> QED BY <1>1, <1>4, <2>2 DEF Same, Now, Detaching
<1>5. CASE slot.agent /\ Link /\ v.todo = Detach \o rest
  <2>1. Head(v.todo) = "closeAgent" /\ Tail(v.todo) = <<"forgetAgent">> \o rest
    BY <1>2, <1>5, OpenedTwice
  <2>2. Now(Machine, slot, FALSE, dir) /\ w.todo = <<"forgetAgent">> \o rest
    BY <2>1, NotTalk DEF Effect
  <2> QED BY <1>1, <1>5, <2>2 DEF Now, Detaching
<1>6. CASE slot.agent /\ ~Link /\ v.todo = <<"forgetAgent">> \o rest
  <2>1. Head(v.todo) = "forgetAgent" /\ Tail(v.todo) = rest
    BY <1>6, Opened
  <2>2. Now(Machine, [slot EXCEPT !.agent = FALSE], Link, dir) /\ w.todo = rest
    BY <2>1, NotTalk DEF Effect
  <2> QED BY <1>1, <1>6, <2>2 DEF Now, Detaching
<1> QED BY <1>4, <1>5, <1>6 DEF Detaching

LEMMA Regroup ==
  ASSUME NEW S, NEW p \in Seq(S), NEW x \in Seq(S), NEW y \in Seq(S),
         NEW q, q = p \o x
  PROVE  q \o y = p \o (x \o y) /\ x \o y \in Seq(S)
OBVIOUS

LEMMA Rests ==
  /\ <<>> \in Seq(Steps) /\ <<"again">> \in Seq(Steps) /\ <<"publish">> \in Seq(Steps)
  /\ <<"publishWindow">> \in Seq(Steps) /\ <<"forgetLocal">> \in Seq(Steps)
  /\ <<"forgetBench", "rmdir">> \in Seq(Steps) /\ <<"rmdir">> \in Seq(Steps)
  /\ <<"close", "forgetBench", "rmdir">> \in Seq(Steps)
  /\ <<"close", "forgetLocal">> \in Seq(Steps) /\ Detach \in Seq(Steps)
  /\ BenchUndo \in Seq(Steps) /\ BenchAfter \in Seq(Steps) /\ BenchRest \in Seq(Steps)
<1>1. BenchAfter \in Seq(Steps)
  <2>1. <<"mode">> \in Seq(Steps) /\ <<"request">> \in Seq(Steps)
    BY StepWords
  <2> QED BY <2>1, JoinOn DEF BenchAfter, Status
<1>2. BenchRest \in Seq(Steps)
  <2>1. <<"accept", "publishBench">> \in Seq(Steps)
    BY StepWords
  <2> QED BY <1>1, <2>1, JoinOn DEF BenchRest
<1>3. BenchUndo \in Seq(Steps) /\ Detach \in Seq(Steps)
  BY StepWords DEF BenchUndo, Detach
<1> QED BY <1>1, <1>2, <1>3, StepWords

\* Each kind of channel use begins with a step of its own and then talks.
LEMMA OpensAre ==
  /\ Head(BootProgram) = "spawn" /\ Talks(Tail(BootProgram), <<"publish">>)
  /\ Head(AttachProgram) = "connect" /\ Talks(Tail(AttachProgram), <<"publishWindow">>)
<1>1. /\ Settings \in Seq(Talk) /\ PowerOn \in Seq(Talk) /\ Advance \in Seq(Talk)
      /\ ReadScreen \in Seq(Talk) /\ <<"keybuf">> \in Seq(Talk)
  BY StepWords DEF Settings, PowerOn, Advance, ReadScreen
<1>2. Settings \o PowerOn \o Advance \o ReadScreen \in Seq(Talk)
  BY <1>1, JoinOn
<1>3. /\ <<"spawn">> \in Seq(Steps) /\ <<"connect">> \in Seq(Steps)
      /\ <<"keybuf">> \o ReadScreen \in Seq(Talk)
  BY <1>1, StepWords, JoinOn
<1>4. BootProgram = <<"spawn">> \o (Settings \o PowerOn \o Advance \o ReadScreen \o <<"publish">>)
  <2> DEFINE p == <<"spawn">>  e == <<"publish">>
             q2 == p \o Settings \o PowerOn  q3 == q2 \o Advance  q4 == q3 \o ReadScreen
             m2 == Settings \o PowerOn  m3 == m2 \o Advance  m4 == m3 \o ReadScreen
  <2>1. p \in Seq(Steps) /\ e \in Seq(Steps)
    BY <1>3, Rests
  <2>2. Settings \in Seq(Steps) /\ PowerOn \in Seq(Steps)
    BY <1>1, TalkSteps
  <2>3. Advance \in Seq(Steps)
    BY <1>1, TalkSteps
  <2>4. ReadScreen \in Seq(Steps)
    BY <1>1, TalkSteps
  <2> HIDE DEF p, e
  <2>5. q2 = p \o m2 /\ m2 \in Seq(Steps)
    BY <2>1, <2>2, Regroup
  <2> HIDE DEF q2, m2
  <2>6. q3 = p \o m3 /\ m3 \in Seq(Steps)
    BY <2>1, <2>3, <2>5, Regroup
  <2> HIDE DEF q3, m3
  <2>7. q4 = p \o m4 /\ m4 \in Seq(Steps)
    BY <2>1, <2>4, <2>6, Regroup
  <2> HIDE DEF q4, m4
  <2>8. q4 \o e = p \o (m4 \o e)
    BY <2>1, <2>7, Regroup
  <2> QED BY <2>8 DEF BootProgram, p, e, q2, q3, q4, m2, m3, m4
<1>5. Talks(Settings \o PowerOn \o Advance \o ReadScreen \o <<"publish">>, <<"publish">>)
  BY <1>2 DEF Talks
<1>6. Settings \o PowerOn \o Advance \o ReadScreen \o <<"publish">> \in Seq(Steps)
  BY <1>5, Rests, TalksOn
<1>7. Head(BootProgram) = "spawn" /\ Talks(Tail(BootProgram), <<"publish">>)
  BY <1>4, <1>5, <1>6, Opened
<1>8. <<"connect", "keybuf">> = <<"connect">> \o <<"keybuf">>
  OBVIOUS
<1>9. AttachProgram = <<"connect">> \o (<<"keybuf">> \o ReadScreen \o <<"publishWindow">>)
  <2>1. \A x, y, z \in Seq(Steps) : (x \o y) \o z = x \o (y \o z) /\ x \o y \in Seq(Steps)
    BY ConcatAssociative, JoinOn
  <2>2. <<"keybuf">> \in Seq(Steps) /\ ReadScreen \in Seq(Steps)
    BY <1>1, TalkSteps
  <2>3. (<<"connect">> \o <<"keybuf">>) \o ReadScreen = <<"connect">> \o (<<"keybuf">> \o ReadScreen)
    BY <1>3, <2>1, <2>2
  <2>4. <<"keybuf">> \o ReadScreen \in Seq(Steps)
    BY <2>1, <2>2
  <2> QED BY <1>3, <1>8, <2>1, <2>3, <2>4, Rests DEF AttachProgram
<1>10. Talks(<<"keybuf">> \o ReadScreen \o <<"publishWindow">>, <<"publishWindow">>)
  BY <1>3 DEF Talks
<1>11. <<"keybuf">> \o ReadScreen \o <<"publishWindow">> \in Seq(Steps)
  BY <1>10, Rests, TalksOn
<1>12. Head(AttachProgram) = "connect" /\ Talks(Tail(AttachProgram), <<"publishWindow">>)
  <2> DEFINE r == <<"keybuf">> \o ReadScreen \o <<"publishWindow">>
  <2> HIDE DEF r
  <2>1. Head(<<"connect">> \o r) = "connect" /\ Tail(<<"connect">> \o r) = r
    BY <1>11, Opened DEF r
  <2> QED BY <1>9, <1>10, <2>1 DEF r
<1> QED BY <1>7, <1>12

LEMMA LocalMoves ==
  ASSUME OwnedTypes, NEW v, NEW w, v.tool \in LocalLifecycle, v.todo # <<>>,
         LocalFits(v.tool, v.todo), Effect(v, w), w.tool = v.tool
  PROVE  /\ Link' = Link /\ dir' = dir
         /\ \E l \in {"none", "owned", "attached"} \cup {slot.local} :
              slot' = [slot EXCEPT !.local = l]
         /\ slot.local = "bench" => slot'.local = "bench"
         /\ LocalFits(w.tool, w.todo)'
<1> DEFINE Opens == {"local_boot", "local_boot_auto", "local_attach"}
<1>1. /\ slot = [slot EXCEPT !.local = slot.local]
      /\ \A l : [slot EXCEPT !.local = l].local = l
  BY DEF OwnedTypes
<1>3. ASSUME v.tool \in Opens
      PROVE  \A r : r = Recovery(v.tool, v.todo, v.tries) =>
                      Closing(r, <<>>)' \/ Closing(r, <<"again">>)'
  <2>1. \/ Recovery(v.tool, v.todo, v.tries) = <<"close">>
        \/ Recovery(v.tool, v.todo, v.tries) = <<"close", "again">>
    BY <1>3 DEF Recovery
  <2>2. <<"close">> = <<"close">> \o <<>> /\ <<"close", "again">> = <<"close">> \o <<"again">>
    OBVIOUS
  <2> QED BY <2>1, <2>2 DEF Closing, Quits
<1>4. CASE LocalSettled /\ v.todo \in {<<>>, Refuse}
  <2>1. Head(v.todo) = "refuse"
    BY <1>4 DEF Refuse
  <2>2. Same /\ w.todo = <<>>
    BY <2>1, NotTalk DEF Effect
  <2> QED BY <1>1, <1>4, <2>2 DEF Same, Now, LocalFits, LocalSettled
<1>5. ASSUME slot.local = "none", v.tool \in Opens, ~Machine,
             v.todo \in {BootProgram, AttachProgram}
      PROVE  /\ slot' = slot /\ Link' = Link /\ dir' = dir
             /\ LocalFits(w.tool, w.todo)'
  <2>1. /\ Head(v.todo) \in {"spawn", "connect"}
        /\ Talks(Tail(v.todo), <<"publish">>) \/ Talks(Tail(v.todo), <<"publishWindow">>)
    BY <1>5, OpensAre
  <2>2. \/ w.todo = Tail(v.todo) /\ Now(TRUE, slot, Link, dir)
        \/ w.todo = Recovery(v.tool, v.todo, v.tries) /\ slot' = slot /\ Link' = Link /\ dir' = dir
    BY <2>1, NotTalk DEF Effect, Same, Now
  <2>3. /\ slot' = slot /\ Link' = Link /\ dir' = dir
        /\ \/ Machine' /\ (Talks(w.todo, <<"publish">>) \/ Talks(w.todo, <<"publishWindow">>))
           \/ Closing(w.todo, <<>>)' \/ Closing(w.todo, <<"again">>)'
    BY <1>3, <1>5, <2>1, <2>2 DEF Now
  <2> QED BY <1>5, <2>3 DEF LocalFits
<1>6. ASSUME NEW rest \in {<<"publish">>, <<"publishWindow">>}, slot.local = "none",
             v.tool \in Opens, Machine, Talks(v.todo, rest)
      PROVE  /\ Link' = Link /\ dir' = dir
             /\ \E l \in {"none", "owned", "attached"} : slot' = [slot EXCEPT !.local = l]
             /\ LocalFits(w.tool, w.todo)'
  <2>1. CASE v.todo = rest
    <3>1. Head(v.todo) \in {"publish", "publishWindow"} /\ Tail(v.todo) = <<>>
      <4>1. CASE v.todo = <<"publish">> BY <4>1
      <4>2. CASE v.todo = <<"publishWindow">> BY <4>2
      <4> QED BY <1>6, <2>1, <4>1, <4>2
    <3>2. \E l \in {"owned", "attached"} :
            w.todo = <<>> /\ Now(Machine, [slot EXCEPT !.local = l], Link, dir)
      BY <3>1, NotTalk DEF Effect
    <3> QED BY <1>1, <1>6, <3>2 DEF Now, LocalFits, LocalSettled
  <2>2. CASE v.todo # rest
    <3>1. Same /\ (Talks(w.todo, rest) \/ w.todo = Recovery(v.tool, v.todo, v.tries))
      BY <1>6, <2>2, Rests, TalkingMoves
    <3>2. LocalFits(w.tool, w.todo)'
      BY <1>3, <1>6, <3>1 DEF Same, Now, LocalFits
    <3> QED BY <1>1, <1>6, <3>1, <3>2 DEF Same, Now
  <2> QED BY <2>1, <2>2
<1>7. ASSUME NEW rest \in {<<>>, <<"again">>}, slot.local = "none", v.tool \in Opens,
             Closing(v.todo, rest)
      PROVE  /\ slot' = slot /\ Link' = Link /\ dir' = dir
             /\ LocalFits(w.tool, w.todo)'
  <2>1. CASE ~Machine /\ v.todo = rest
    <3>1. Head(v.todo) = "again"
      BY <1>7, <2>1
    <3>2. Same /\ w.todo = BootProgram
      BY <3>1, NotTalk DEF Effect
    <3> QED BY <1>7, <2>1, <3>2 DEF Same, Now, LocalFits
  <2>2. CASE /\ slot' = slot /\ Link' = Link /\ dir' = dir
             /\ Closing(w.todo, rest)'
    BY <1>7, <2>2 DEF LocalFits
  <2> QED BY <1>7, <2>1, <2>2, Rests, ClosingMoves
<1>8. ASSUME v.tool = "local_shutdown", slot.local \notin {"none", "bench"},
             Closing(v.todo, <<"forgetLocal">>)
      PROVE  /\ Link' = Link /\ dir' = dir
             /\ \E l \in {"none", slot.local} : slot' = [slot EXCEPT !.local = l]
             /\ LocalFits(w.tool, w.todo)'
  <2>1. CASE ~Machine /\ v.todo = <<"forgetLocal">>
    <3>1. Head(v.todo) = "forgetLocal" /\ Tail(v.todo) = <<>>
      BY <2>1
    <3>2. w.todo = <<>> /\ Now(Machine, [slot EXCEPT !.local = "none"], Link, dir)
      BY <3>1, NotTalk DEF Effect
    <3>3. ~Machine' /\ slot'.local = "none"
      BY <1>1, <2>1, <3>2 DEF Now
    <3>4. LocalFits(w.tool, w.todo)'
      BY <3>2, <3>3 DEF LocalFits, LocalSettled, Machine
    <3> QED BY <3>2, <3>4 DEF Now
  <2>2. CASE /\ slot' = slot /\ Link' = Link /\ dir' = dir
             /\ Closing(w.todo, <<"forgetLocal">>)'
    BY <1>1, <1>8, <2>2 DEF LocalFits
  <2> QED BY <1>8, <2>1, <2>2, Rests, ClosingMoves
<1>9. \/ LocalSettled /\ v.todo \in {<<>>, Refuse}
      \/ /\ v.tool \in Opens /\ slot.local = "none"
         /\ \/ ~Machine /\ v.todo \in {BootProgram, AttachProgram}
            \/ Machine /\ (Talks(v.todo, <<"publish">>) \/ Talks(v.todo, <<"publishWindow">>))
            \/ Closing(v.todo, <<>>) \/ Closing(v.todo, <<"again">>)
      \/ /\ v.tool = "local_shutdown" /\ slot.local \notin {"none", "bench"}
         /\ Closing(v.todo, <<"forgetLocal">>)
  BY DEF LocalFits
<1> QED BY <1>1, <1>4, <1>5, <1>6, <1>7, <1>8, <1>9

LEMMA AgentMoves ==
  ASSUME OwnedTypes, NEW v, NEW w, v.tool \in AgentLifecycle, v.todo # <<>>,
         AgentFits(v.tool, v.todo), Effect(v, w), w.tool = v.tool
  PROVE  /\ Machine' = Machine /\ dir' = dir
         /\ \E a \in BOOLEAN : slot' = [slot EXCEPT !.agent = a]
         /\ AgentFits(w.tool, w.todo)'
<1>1. /\ slot.agent \in BOOLEAN /\ slot = [slot EXCEPT !.agent = slot.agent]
      /\ \A a : [slot EXCEPT !.agent = a].agent = a
      /\ Link \in BOOLEAN
  BY DEF OwnedTypes, Link
<1>2. CASE AgentSettled /\ v.todo \in {<<>>, Refuse}
  <2>1. Head(v.todo) = "refuse"
    BY <1>2 DEF Refuse
  <2>2. Same /\ w.todo = <<>>
    BY <2>1, NotTalk DEF Effect
  <2> QED BY <1>1, <1>2, <2>2 DEF Same, Now, AgentFits, AgentSettled
<1>3. ASSUME v.tool \in {"agent_listen", "agent_connect"}, ~slot.agent,
             ~Link, v.todo \in {ListenProgram, ConnectProgram}
      PROVE  /\ Machine' = Machine /\ dir' = dir /\ slot' = slot
             /\ AgentFits(w.tool, w.todo)'
  <2>1. Head(v.todo) \in {"listen", "dial"}
    <3>1. CASE v.todo = ListenProgram BY <3>1 DEF ListenProgram
    <3>2. CASE v.todo = ConnectProgram BY <3>2 DEF ConnectProgram
    <3> QED BY <1>3, <3>1, <3>2
  <2>2. Recovery(v.tool, v.todo, v.tries) = <<"closeAgent">>
    BY <1>3 DEF Recovery
  <2>3. /\ Machine' = Machine /\ dir' = dir /\ slot' = slot
        /\ w.todo = <<"closeAgent">> \/ (w.todo = Tail(v.todo) /\ Link' = TRUE)
    BY <2>1, <2>2, NotTalk DEF Effect, Same, Now
  <2> QED BY <1>3, <2>3 DEF AgentFits
<1>4. ASSUME v.tool \in {"agent_listen", "agent_connect"}, ~slot.agent,
             Link, v.todo \in {Tail(ListenProgram), Tail(ConnectProgram)}
      PROVE  /\ Machine' = Machine /\ dir' = dir
             /\ \E a \in BOOLEAN : slot' = [slot EXCEPT !.agent = a]
             /\ AgentFits(w.tool, w.todo)'
  <2>1. /\ Tail(ListenProgram) = <<"accept", "publishAgent">>
        /\ Tail(ConnectProgram) = <<"publishAgent">>
    BY DEF ListenProgram, ConnectProgram
  <2>2. CASE v.todo = <<"accept", "publishAgent">>
    <3>1. Head(v.todo) = "accept" /\ Tail(v.todo) = <<"publishAgent">>
      BY <2>2
    <3>2. Recovery(v.tool, v.todo, v.tries) = <<"closeAgent">>
      BY <1>4 DEF Recovery
    <3>3. /\ Machine' = Machine /\ dir' = dir /\ slot' = slot
          /\ w.todo = <<"closeAgent">> \/ (w.todo = <<"publishAgent">> /\ Link' = TRUE)
      BY <3>1, <3>2, NotTalk DEF Effect, Same, Now
    <3> QED BY <1>1, <1>4, <2>1, <3>3 DEF AgentFits
  <2>3. CASE v.todo = <<"publishAgent">>
    <3>1. Head(v.todo) = "publishAgent" /\ Tail(v.todo) = <<>>
      BY <2>3
    <3>2. w.todo = <<>> /\ Now(Machine, [slot EXCEPT !.agent = TRUE], Link, dir)
      BY <3>1, NotTalk DEF Effect
    <3>3. AgentSettled'
      BY <1>1, <1>4, <3>2 DEF Now, AgentSettled
    <3> QED BY <3>2, <3>3 DEF Now, AgentFits
  <2> QED BY <1>4, <2>1, <2>2, <2>3
<1>5. ASSUME ~slot.agent, v.todo = <<"closeAgent">>
      PROVE  /\ Machine' = Machine /\ dir' = dir /\ slot' = slot
             /\ AgentFits(w.tool, w.todo)'
  <2>1. Head(v.todo) = "closeAgent" /\ Tail(v.todo) = <<>>
    BY <1>5
  <2>2. w.todo = <<>> /\ Now(Machine, slot, FALSE, dir)
    BY <2>1, NotTalk DEF Effect
  <2>3. AgentSettled'
    BY <1>1, <1>5, <2>2 DEF Now, AgentSettled
  <2> QED BY <2>2, <2>3 DEF Now, AgentFits
<1>6. ASSUME v.tool \in {"agent_disconnect", "agent_reboot"}, Detaching(v.todo, <<>>)
      PROVE  /\ Machine' = Machine /\ dir' = dir
             /\ \E a \in BOOLEAN : slot' = [slot EXCEPT !.agent = a]
             /\ AgentFits(w.tool, w.todo)'
  BY <1>6, Rests, DetachingMoves DEF AgentFits
<1>7. ASSUME v.tool \in {"agent_disconnect", "agent_reboot"}, slot.agent, Link,
             v.todo = <<"terminal">> \o Detach
      PROVE  /\ Machine' = Machine /\ dir' = dir /\ slot' = slot
             /\ AgentFits(w.tool, w.todo)'
  <2>1. Head(v.todo) = "terminal" /\ Tail(v.todo) = Detach
    BY <1>7, Rests, Opened
  <2>2. Recovery(v.tool, v.todo, v.tries) \in {<<>>, Detach}
    BY <1>7 DEF Recovery
  <2>3. Same /\ w.todo \in {<<>>, Detach}
    BY <2>1, <2>2, NotTalk DEF Effect
  <2>4. Detach = Detach \o <<>>
    BY Rests, NoneOpened
  <2>5. AgentSettled' /\ Detaching(Detach, <<>>)'
    BY <1>1, <1>7, <2>3, <2>4 DEF Same, Now, AgentSettled, Detaching
  <2> QED BY <1>7, <2>3, <2>5 DEF Same, Now, AgentFits
<1>8. \/ AgentSettled /\ v.todo \in {<<>>, Refuse}
      \/ /\ v.tool \in {"agent_listen", "agent_connect"} /\ ~slot.agent
         /\ \/ ~Link /\ v.todo \in {ListenProgram, ConnectProgram}
            \/ Link /\ v.todo \in {Tail(ListenProgram), Tail(ConnectProgram)}
            \/ v.todo = <<"closeAgent">>
      \/ /\ v.tool \in {"agent_disconnect", "agent_reboot"}
         /\ \/ Detaching(v.todo, <<>>)
            \/ slot.agent /\ Link /\ v.todo = <<"terminal">> \o Detach
  BY DEF AgentFits
<1> QED BY <1>1, <1>2, <1>3, <1>4, <1>5, <1>6, <1>7, <1>8

LEMMA StepsJoin ==
  \A x, y, z \in Seq(Steps) : (x \o y) \o z = x \o (y \o z) /\ x \o y \in Seq(Steps)
BY ConcatAssociative, JoinOn

LEMMA BenchOpens ==
  /\ BenchSetup \in Seq(Talk)
  /\ BenchProgram = <<"mkdir", "listen", "spawn">> \o (BenchSetup \o BenchRest)
<1> DEFINE p == <<"mkdir", "listen", "spawn">>  u == <<"plug">>
           a == <<"accept", "publishBench">>  ua == <<"plug", "accept", "publishBench">>
           r == <<"request">>
           m2 == Settings \o ImportPackage  m3 == m2 \o PowerOn  m4 == m3 \o Advance
           m5 == m4 \o TypeLines  m6 == m5 \o ReadScreen
<1>1. /\ Settings \in Seq(Talk) /\ ImportPackage \in Seq(Talk) /\ PowerOn \in Seq(Talk)
      /\ Advance \in Seq(Talk) /\ TypeLine \in Seq(Talk) /\ ReadScreen \in Seq(Talk)
      /\ u \in Seq(Talk) /\ Status \in Seq(Talk)
  BY StepWords DEF Settings, ImportPackage, PowerOn, Advance, TypeLine, ReadScreen, Status
<1>2. TypeLines \in Seq(Talk)
  BY <1>1, JoinOn DEF TypeLines
<1>3. p \in Seq(Steps) /\ a \in Seq(Steps) /\ r \in Seq(Steps) /\ ua = u \o a
  BY StepWords
<1> HIDE DEF p, u, a, ua, r
<1>4. m2 \in Seq(Talk)
  BY <1>1, JoinOn
<1>5. m3 \in Seq(Talk)
  <2> HIDE DEF m2
  <2> QED BY <1>1, <1>4, JoinOn
<1>6. m4 \in Seq(Talk)
  <2> HIDE DEF m3
  <2> QED BY <1>1, <1>5, JoinOn
<1>7. m5 \in Seq(Talk)
  <2> HIDE DEF m4
  <2> QED BY <1>2, <1>6, JoinOn
<1>8. m6 \in Seq(Talk)
  <2> HIDE DEF m5
  <2> QED BY <1>1, <1>7, JoinOn
<1>9. BenchSetup = m6 \o u /\ BenchSetup \in Seq(Talk)
  <2>1. BenchSetup = m6 \o u
    BY DEF BenchSetup, u
  <2> HIDE DEF m6
  <2> QED BY <1>1, <1>8, <2>1, JoinOn
<1>10. /\ p \o Settings \in Seq(Steps)
       /\ p \o Settings \o ImportPackage = p \o m2
  <2>1. Settings \in Seq(Steps)
    BY <1>1, TalkSteps
  <2>2. ImportPackage \in Seq(Steps)
    BY <1>1, TalkSteps
  <2> QED BY <1>3, <2>1, <2>2, Regroup
<1>11. (p \o m2) \o PowerOn = p \o m3
  <2>1. m2 \in Seq(Steps) /\ PowerOn \in Seq(Steps)
    BY <1>1, <1>4, TalkSteps
  <2> HIDE DEF m2
  <2> QED BY <1>3, <2>1, Regroup
<1>12. (p \o m3) \o Advance = p \o m4
  <2>1. m3 \in Seq(Steps) /\ Advance \in Seq(Steps)
    BY <1>1, <1>5, TalkSteps
  <2> HIDE DEF m3
  <2> QED BY <1>3, <2>1, Regroup
<1>13. (p \o m4) \o TypeLines = p \o m5
  <2>1. m4 \in Seq(Steps) /\ TypeLines \in Seq(Steps)
    BY <1>2, <1>6, TalkSteps
  <2> HIDE DEF m4
  <2> QED BY <1>3, <2>1, Regroup
<1>14. (p \o m5) \o ReadScreen = p \o m6
  <2>1. m5 \in Seq(Steps) /\ ReadScreen \in Seq(Steps)
    BY <1>1, <1>7, TalkSteps
  <2> HIDE DEF m5
  <2> QED BY <1>3, <2>1, Regroup
<1>15. BenchProgram = ((p \o m6) \o ua) \o Status \o r
  <2>1. BenchProgram = p \o Settings \o ImportPackage \o PowerOn \o Advance \o TypeLines
                         \o ReadScreen \o ua \o Status \o r
    BY DEF BenchProgram, p, ua, r
  <2> HIDE DEF m2, m3, m4, m5, m6
  <2> QED BY <1>10, <1>11, <1>12, <1>13, <1>14, <2>1
<1> HIDE DEF m6
<1>16. m6 \in Seq(Steps) /\ u \in Seq(Steps) /\ Status \in Seq(Steps)
  BY <1>1, <1>8, TalkSteps
<1> DEFINE st == Status  su == BenchSetup  sa == su \o a  sas == sa \o st  sasr == sas \o r
           am == a \o st  amr == am \o r
<1> HIDE DEF st, su
<1>17. m6 \o ua = sa /\ su \in Seq(Steps)
  <2>1. (m6 \o u) \o a = m6 \o (u \o a)
    BY <1>3, <1>16, Regroup
  <2>2. su \in Seq(Steps)
    BY <1>9, TalkSteps DEF su
  <2> QED BY <1>3, <1>9, <2>1, <2>2 DEF su
<1>18. sa \in Seq(Steps) /\ st \in Seq(Steps)
  BY <1>3, <1>16, <1>17, JoinOn DEF st
<1>19. sas = su \o am /\ am \in Seq(Steps)
  BY <1>3, <1>17, <1>18, Regroup
<1>20. sasr = su \o amr
  <2>1. r \in Seq(Steps)
    BY <1>3
  <2>2. su \in Seq(Steps)
    BY <1>17
  <2>3. am \in Seq(Steps)
    BY <1>19
  <2>4. sas = su \o am
    BY <1>19
  <2> HIDE DEF sas, am, sasr, amr, r
  <2>5. sas \o r = su \o (am \o r)
    BY <2>1, <2>2, <2>3, <2>4, StepsJoin
  <2> QED BY <2>5 DEF sasr, amr
<1>21. amr = BenchRest
  <2>1. (a \o st) \o r = a \o (st \o r)
    BY <1>3, <1>18, Regroup
  <2> QED BY <2>1 DEF BenchRest, BenchAfter, a, st, r
<1>22. (p \o m6) \o ua = p \o sa
  <2>1. ua \in Seq(Steps)
    BY <1>3, <1>16, JoinOn
  <2>2. p \in Seq(Steps)
    BY <1>3
  <2>3. m6 \in Seq(Steps)
    BY <1>16
  <2>4. (p \o m6) \o ua = p \o (m6 \o ua)
    BY <2>1, <2>2, <2>3, Regroup
  <2> HIDE DEF sa
  <2> QED BY <1>17, <2>4
<1>23. (p \o sa) \o st = p \o sas /\ sas \in Seq(Steps)
  <2>1. p \in Seq(Steps)
    BY <1>3
  <2> HIDE DEF sa
  <2> QED BY <1>18, <2>1, StepsJoin
<1>24. (p \o sas) \o r = p \o sasr
  <2>1. p \in Seq(Steps) /\ r \in Seq(Steps) /\ sas \in Seq(Steps)
    BY <1>3, <1>23
  <2> HIDE DEF sas
  <2> QED BY <2>1, StepsJoin
<1>25. BenchProgram = p \o sasr
  <2> HIDE DEF sa, sas, sasr
  <2> QED BY <1>15, <1>22, <1>23, <1>24 DEF st
<1> HIDE DEF sasr, amr
<1> QED BY <1>9, <1>20, <1>21, <1>25 DEF p, su

\* A bench_start that has not published: forward, step by step, or undone.
LEMMA StartMoves ==
  ASSUME OwnedTypes, NEW v, NEW w, v.tool = "bench_start", w.tool = v.tool,
         v.todo # <<>>, Empty, StartFits(v.todo), Effect(v, w)
  PROVE  \/ slot' = slot /\ dir' \in BOOLEAN /\ StartFits(w.todo)'
         \/ slot' = slot /\ Settled' /\ w.todo = <<>>
         \/ /\ slot' = [local |-> "bench", agent |-> TRUE, bench |-> TRUE]
            /\ Settled' /\ w.todo = BenchAfter
<1> DEFINE rest == BenchSetup \o BenchRest
           undo == Recovery(v.tool, v.todo, v.tries)
<1>1. /\ rest \in Seq(Steps) /\ Talks(rest, BenchRest)
      /\ BenchRest \in Seq(Steps) /\ BenchUndo \in Seq(Steps) /\ <<"rmdir">> \in Seq(Steps)
  <2>1. BenchSetup \in Seq(Talk) /\ BenchRest \in Seq(Steps)
    BY BenchOpens, Rests
  <2>2. Talks(rest, BenchRest)
    BY <2>1 DEF Talks
  <2>3. BenchSetup \in Seq(Steps)
    BY <2>1, TalkSteps
  <2> QED BY <2>1, <2>2, <2>3, JoinOn, Rests
<1>2. dir \in BOOLEAN /\ ~slot.bench
  BY DEF OwnedTypes, Empty
<1> HIDE DEF rest
<1>3. \A r : r = undo => Talks(r, BenchUndo) \/ Closing(r, BenchUndo)'
  <2>1. undo \in {ReadScreen \o BenchUndo, <<"close">> \o BenchUndo, <<>> \o BenchUndo}
    BY <1>2 DEF Recovery, BenchUndo
  <2>2. ReadScreen \in Seq(Talk) /\ <<>> \in Seq(Talk)
    BY StepWords DEF ReadScreen
  <2> HIDE DEF undo
  <2> QED BY <2>1, <2>2 DEF Talks, Closing, Quits
<1>4. \A r : r = undo /\ slot' = slot /\ dir' = dir =>
              slot' = slot /\ dir' \in BOOLEAN /\ StartFits(r)'
  BY <1>2, <1>3 DEF StartFits
<1> HIDE DEF undo
<1>5. CASE ~dir /\ ~Link /\ ~Machine /\ v.todo = <<"mkdir", "listen", "spawn">> \o rest
  <2>1. Head(v.todo) = "mkdir" /\ Tail(v.todo) = <<"listen", "spawn">> \o rest
    BY <1>1, <1>5
  <2>2. w.todo = <<"listen", "spawn">> \o rest /\ Now(Machine, slot, Link, TRUE)
    BY <2>1, NotTalk DEF Effect
  <2> QED BY <1>5, <2>2 DEF Now, StartFits, rest
<1>6. CASE dir /\ ~Link /\ ~Machine /\ v.todo = <<"listen", "spawn">> \o rest
  <2>1. Head(v.todo) = "listen" /\ Tail(v.todo) = <<"spawn">> \o rest
    BY <1>1, <1>6, OpenedTwice
  <2>2. \/ w.todo = <<"spawn">> \o rest /\ Now(Machine, slot, TRUE, dir)
        \/ w.todo = undo /\ Same
    BY <2>1, NotTalk DEF Effect, undo
  <2> QED BY <1>4, <1>6, <2>2 DEF Now, Same, StartFits, rest
<1>7. CASE dir /\ Link /\ ~Machine /\ v.todo = <<"spawn">> \o rest
  <2>1. Head(v.todo) = "spawn" /\ Tail(v.todo) = rest
    BY <1>1, <1>7, Opened
  <2>2. \/ w.todo = rest /\ Now(TRUE, slot, Link, dir)
        \/ w.todo = undo /\ Now(FALSE, slot, Link, dir)
    BY <2>1, NotTalk DEF Effect, undo
  <2> QED BY <1>1, <1>4, <1>7, <2>2 DEF Now, StartFits
<1>8. CASE dir /\ Link /\ Machine /\ Talks(v.todo, BenchRest)
  <2>1. CASE v.todo = BenchRest
    <3> DEFINE after == BenchAfter
    <3>1. after \in Seq(Steps) /\ v.todo = <<"accept", "publishBench">> \o after
      BY <2>1, Rests DEF BenchRest
    <3> HIDE DEF after
    <3>2. Head(v.todo) = "accept" /\ Tail(v.todo) = <<"publishBench">> \o after
      BY <3>1, OpenedTwice
    <3>3. \/ w.todo = <<"publishBench">> \o after /\ Now(Machine, slot, TRUE, dir)
          \/ w.todo = undo /\ Same
      BY <3>2, NotTalk DEF Effect, undo
    <3> QED BY <1>2, <1>4, <1>8, <3>3 DEF Now, Same, StartFits, after
  <2>2. CASE v.todo # BenchRest
    <3>1. Same /\ (Talks(w.todo, BenchRest) \/ w.todo = undo)
      BY <1>1, <1>8, <2>2, TalkingMoves DEF undo
    <3> QED BY <1>2, <1>4, <1>8, <3>1 DEF Now, Same, StartFits
  <2> QED BY <2>1, <2>2
<1>9. CASE dir /\ Link /\ Machine /\ v.todo = <<"publishBench">> \o BenchAfter
  <2>1. Head(v.todo) = "publishBench" /\ Tail(v.todo) = BenchAfter
    BY <1>9, Opened, Rests
  <2>2. /\ w.todo = BenchAfter
        /\ Now(Machine, [local |-> "bench", agent |-> TRUE, bench |-> TRUE], Link, dir)
    BY <2>1, NotTalk DEF Effect
  <2>3. Settled'
    BY <1>9, <2>2 DEF Now, Settled, LocalSettled, AgentSettled, DirSettled, Machine, Link
  <2> QED BY <2>2, <2>3 DEF Now
<1>10. CASE v.todo = BenchUndo
  <2> DEFINE close == <<"close", "rmdir">>
  <2>1. Head(v.todo) = "closeAgent" /\ Tail(v.todo) = close
    BY <1>10 DEF BenchUndo
  <2>2. w.todo = close /\ Now(Machine, slot, FALSE, dir)
    BY <2>1, NotTalk DEF Effect
  <2>3. close = <<"close">> \o <<"rmdir">>
    OBVIOUS
  <2> HIDE DEF close
  <2>4. Closing(w.todo, <<"rmdir">>)' /\ ~Link'
    BY <2>2, <2>3 DEF Now, Closing, Quits
  <2> QED BY <1>2, <2>2, <2>4 DEF Now, StartFits
<1>11. CASE Talks(v.todo, BenchUndo) /\ v.todo # BenchUndo
  <2>1. Same /\ (Talks(w.todo, BenchUndo) \/ w.todo = undo)
    BY <1>1, <1>11, TalkingMoves DEF undo
  <2> QED BY <1>2, <1>4, <2>1 DEF Now, Same, StartFits
<1>12. CASE Closing(v.todo, BenchUndo) /\ v.todo # BenchUndo
  BY <1>1, <1>2, <1>12, ClosingMoves DEF StartFits
<1>13. CASE ~Link /\ Closing(v.todo, <<"rmdir">>)
  <2>1. CASE ~Machine /\ v.todo = <<"rmdir">>
    <3>1. Head(v.todo) = "rmdir" /\ Tail(v.todo) = <<>>
      BY <2>1
    <3>2. w.todo = <<>> /\ Now(Machine, slot, Link, FALSE)
      BY <3>1, NotTalk DEF Effect
    <3>3. slot.agent = FALSE /\ slot.bench = FALSE
      BY DEF OwnedTypes, Empty
    <3>4. slot' = slot /\ dir' = FALSE /\ ~Link' /\ ~Machine'
      BY <1>13, <2>1, <3>2 DEF Now
    <3>5. Settled'
      BY <3>3, <3>4 DEF Empty, Settled, LocalSettled, AgentSettled, DirSettled,
         Machine, Link
    <3> QED BY <3>2, <3>4, <3>5
  <2>2. CASE slot' = slot /\ Link' = Link /\ dir' = dir /\ Closing(w.todo, <<"rmdir">>)'
    BY <1>2, <1>13, <2>2 DEF StartFits
  <2> QED BY <1>1, <1>13, <2>1, <2>2, ClosingMoves
<1>14. \/ /\ ~dir /\ ~Link /\ ~Machine
          /\ v.todo = <<"mkdir", "listen", "spawn">> \o rest
       \/ dir /\ ~Link /\ ~Machine /\ v.todo = <<"listen", "spawn">> \o rest
       \/ dir /\ Link /\ ~Machine /\ v.todo = <<"spawn">> \o rest
       \/ dir /\ Link /\ Machine /\ Talks(v.todo, BenchRest)
       \/ dir /\ Link /\ Machine /\ v.todo = <<"publishBench">> \o BenchAfter
       \/ Talks(v.todo, BenchUndo)
       \/ Closing(v.todo, BenchUndo)
       \/ ~Link /\ Closing(v.todo, <<"rmdir">>)
  BY DEF StartFits, rest
<1> QED BY <1>5, <1>6, <1>7, <1>8, <1>9, <1>10, <1>11, <1>12, <1>13, <1>14

Slots == [local : {"none", "owned", "attached", "bench"}, agent : BOOLEAN, bench : BOOLEAN]
SlotOK == slot \in Slots /\ slot.bench = (slot.local = "bench") /\ dir \in BOOLEAN

LEMMA SlotChanges ==
  ASSUME OwnedTypes
  PROVE  /\ SlotOK
         /\ slot' = slot /\ dir' \in BOOLEAN => SlotOK'
         /\ \A a \in BOOLEAN :
              slot' = [slot EXCEPT !.agent = a] /\ dir' \in BOOLEAN =>
                SlotOK' /\ slot'.local = slot.local /\ slot'.bench = slot.bench
         /\ slot' = [local |-> "bench", agent |-> TRUE, bench |-> TRUE] /\ dir' \in BOOLEAN =>
              SlotOK' /\ slot'.local = "bench" /\ slot'.bench = TRUE
         /\ slot' = [slot EXCEPT !.local = "none", !.bench = FALSE] /\ dir' \in BOOLEAN =>
              SlotOK' /\ slot'.local = "none" /\ slot'.bench = FALSE /\ slot'.agent = slot.agent
         /\ ~slot.bench /\ slot' = [slot EXCEPT !.local = "none"] /\ dir' \in BOOLEAN =>
              SlotOK' /\ slot'.local = "none" /\ slot'.bench = FALSE /\ slot'.agent = slot.agent
<1>1. /\ slot \in Slots /\ slot.bench = (slot.local = "bench") /\ dir \in BOOLEAN
      /\ slot.agent \in BOOLEAN /\ slot.bench \in BOOLEAN
  BY DEF OwnedTypes, Slots
<1>2. /\ SlotOK
      /\ slot' = slot /\ dir' \in BOOLEAN => SlotOK'
  BY <1>1 DEF SlotOK
<1>3. ASSUME NEW a \in BOOLEAN, slot' = [slot EXCEPT !.agent = a], dir' \in BOOLEAN
      PROVE  SlotOK' /\ slot'.local = slot.local /\ slot'.bench = slot.bench
  <2>1. slot' \in Slots /\ slot'.local = slot.local /\ slot'.bench = slot.bench
    BY <1>1, <1>3 DEF Slots
  <2> QED BY <1>1, <1>3, <2>1 DEF SlotOK
<1>4. ASSUME slot' = [local |-> "bench", agent |-> TRUE, bench |-> TRUE], dir' \in BOOLEAN
      PROVE  SlotOK' /\ slot'.local = "bench" /\ slot'.bench = TRUE
  BY <1>4 DEF SlotOK, Slots
<1>5. ASSUME slot' = [slot EXCEPT !.local = "none", !.bench = FALSE], dir' \in BOOLEAN
      PROVE  SlotOK' /\ slot'.local = "none" /\ slot'.bench = FALSE /\ slot'.agent = slot.agent
  <2>1. slot' \in Slots /\ slot'.local = "none" /\ slot'.bench = FALSE /\ slot'.agent = slot.agent
    BY <1>1, <1>5 DEF Slots
  <2> QED BY <1>5, <2>1 DEF SlotOK
<1>6. ASSUME ~slot.bench, slot' = [slot EXCEPT !.local = "none"], dir' \in BOOLEAN
      PROVE  SlotOK' /\ slot'.local = "none" /\ slot'.bench = FALSE /\ slot'.agent = slot.agent
  <2>1. /\ slot' \in Slots /\ slot'.local = "none" /\ slot'.bench = FALSE
        /\ slot'.agent = slot.agent
    BY <1>1, <1>6 DEF Slots
  <2> QED BY <1>6, <2>1 DEF SlotOK
<1> QED BY <1>2, <1>3, <1>4, <1>5, <1>6

LEMMA BothMoves ==
  ASSUME OwnedTypes, NEW v, NEW w, v.tool \in BothLifecycle, v.todo # <<>>,
         BothFits(v.tool, v.todo), Effect(v, w), w.tool = v.tool
  PROVE  SlotOK' /\ BothFits(w.tool, w.todo)'
<1> DEFINE Downs == {"bench_shutdown", "shutdown_all"}
           Bench == <<"forgetBench", "rmdir">>
           CloseBench == <<"close", "forgetBench", "rmdir">>
           Local == <<"forgetLocal">>
           CloseLocal == <<"close", "forgetLocal">>
           Asks == Talk \cup {"request"}
<1>1. /\ SlotOK /\ dir \in BOOLEAN /\ slot.agent \in BOOLEAN /\ slot.bench \in BOOLEAN
      /\ slot.bench = (slot.local = "bench")
  BY DEF OwnedTypes, SlotOK, Slots
<1>2. /\ Bench \in Seq(Steps) /\ CloseBench \in Seq(Steps) /\ Local \in Seq(Steps)
      /\ CloseLocal \in Seq(Steps) /\ <<>> \in Seq(Steps)
      /\ Head(Bench) = "forgetBench" /\ Tail(Bench) = <<"rmdir">>
      /\ Head(Local) = "forgetLocal" /\ Tail(Local) = <<>>
      /\ CloseBench = <<"close">> \o Bench /\ CloseLocal = <<"close">> \o Local
  BY Rests
<1> HIDE DEF Bench, CloseBench, Local, CloseLocal
<1>3. CASE Settled /\ v.tool # "shutdown_all" /\ v.todo \in {<<>>, Refuse}
  <2>1. Head(v.todo) = "refuse"
    BY <1>3 DEF Refuse
  <2>2. Same /\ w.todo = <<>>
    BY <2>1, NotTalk DEF Effect
  <2>3. Settled'
    BY <1>3, <2>2 DEF Same, Now, Settled, LocalSettled, AgentSettled, DirSettled
  <2> QED BY <1>1, <1>3, <2>2, <2>3, SlotChanges DEF Same, Now, BothFits
<1>4. CASE /\ Settled /\ v.todo \in Seq(Asks)
           /\ v.tool = "bench_status" \/ (v.tool = "bench_start" /\ slot.bench)
  <2>1. Head(v.todo) \in Asks /\ Tail(v.todo) \in Seq(Asks)
    BY <1>4, TailOn
  <2>2. Recovery(v.tool, v.todo, v.tries) = <<>>
    BY <1>4 DEF Recovery
  <2>3. Same /\ \/ w.todo \in {Tail(v.todo), v.todo, <<>>}
                \/ \E val : w.todo = CaptureOf(val) \o Tail(v.todo)
    BY <2>1, <2>2, NotTalk DEF Effect
  <2>4. \A val : CaptureOf(val) \o Tail(v.todo) \in Seq(Asks)
    <3>1. \A s \in Seq(Talk) : s \in Seq(Asks)
      OBVIOUS
    <3> QED BY <2>1, <3>1, CaptureTalks, JoinOn
  <2>5. w.todo \in Seq(Asks)
    <3>1. <<>> \in Seq(Asks)
      OBVIOUS
    <3> QED BY <1>4, <2>1, <2>3, <2>4, <3>1
  <2>6. Settled'
    BY <1>4, <2>3 DEF Same, Now, Settled, LocalSettled, AgentSettled, DirSettled
  <2> QED BY <1>1, <1>4, <2>3, <2>5, <2>6, SlotChanges DEF Same, Now, BothFits
<1>5. CASE v.tool = "bench_start" /\ Empty /\ StartFits(v.todo)
  <2>1. CASE slot' = slot /\ dir' \in BOOLEAN /\ StartFits(w.todo)'
    BY <1>5, <2>1, SlotChanges DEF Empty, BothFits
  <2>2. CASE slot' = slot /\ Settled' /\ w.todo = <<>>
    <3>1. dir' \in BOOLEAN
      BY <1>1, <2>2 DEF Settled, DirSettled
    <3> QED BY <1>5, <2>2, <3>1, SlotChanges DEF BothFits
  <2>3. CASE /\ slot' = [local |-> "bench", agent |-> TRUE, bench |-> TRUE]
             /\ Settled' /\ w.todo = BenchAfter
    <3>1. dir' \in BOOLEAN
      BY <2>3 DEF Settled, DirSettled
    <3>2. BenchAfter \in Seq(Talk \cup {"request"})
      <4>1. Status \in Seq(Asks) /\ <<"request">> \in Seq(Asks)
        BY StepWords DEF Status
      <4> QED BY <4>1, JoinOn DEF BenchAfter
    <3>3. slot'.bench
      BY <2>3, <3>1, SlotChanges
    <3> QED BY <1>5, <2>3, <3>1, <3>2, <3>3, SlotChanges DEF BothFits
  <2> QED BY <1>5, <2>1, <2>2, <2>3, StartMoves
<1>6. ASSUME v.tool \in Downs, slot.bench, dir, ~slot.agent, ~Link, Closing(v.todo, Bench)
      PROVE  SlotOK' /\ BothFits(w.tool, w.todo)'
  <2>1. CASE ~Machine /\ v.todo = Bench
    <3>1. /\ w.todo = <<"rmdir">>
          /\ Now(Machine, [slot EXCEPT !.local = "none", !.bench = FALSE], Link, dir)
      BY <1>2, <2>1, NotTalk DEF Effect
    <3>2. /\ SlotOK' /\ Empty' /\ ~Link' /\ ~Machine'
      BY <1>1, <1>6, <2>1, <3>1, SlotChanges DEF Now, Empty
    <3> QED BY <1>6, <3>1, <3>2 DEF BothFits
  <2>2. CASE slot' = slot /\ Link' = Link /\ dir' = dir /\ Closing(w.todo, Bench)'
    BY <1>1, <1>6, <2>2, SlotChanges DEF BothFits, Bench
  <2> QED BY <1>2, <1>6, <2>1, <2>2, ClosingMoves
<1>7. ASSUME v.tool \in Downs, slot.bench, dir, Detaching(v.todo, CloseBench)
      PROVE  SlotOK' /\ BothFits(w.tool, w.todo)'
  <2>1. CASE ~slot.agent /\ ~Link /\ v.todo = CloseBench
    <3>1. Closing(v.todo, Bench)
      BY <1>2, <2>1 DEF Closing, Quits
    <3> QED BY <1>6, <1>7, <2>1, <3>1
  <2>2. CASE /\ Machine' = Machine /\ dir' = dir
             /\ \E a \in BOOLEAN : slot' = [slot EXCEPT !.agent = a]
             /\ Detaching(w.todo, CloseBench)'
    BY <1>1, <1>7, <2>2, SlotChanges DEF BothFits, CloseBench
  <2> QED BY <1>2, <1>7, <2>1, <2>2, DetachingMoves
<1>8. CASE v.tool \in Downs /\ Empty /\ ~Link /\ ~Machine /\ v.todo = <<"rmdir">>
  <2>1. Head(v.todo) = "rmdir" /\ Tail(v.todo) = <<>>
    BY <1>8
  <2>2. w.todo = <<>> /\ Now(Machine, slot, Link, FALSE)
    BY <2>1, NotTalk DEF Effect
  <2>3. slot.agent = FALSE /\ slot.bench = FALSE /\ slot.local = "none"
    BY <1>1, <1>8 DEF Empty
  <2>4. slot' = slot /\ dir' = FALSE /\ ~Link' /\ ~Machine'
    BY <1>8, <2>2 DEF Now
  <2>5. Settled' /\ Empty'
    BY <2>3, <2>4 DEF Empty, Settled, LocalSettled, AgentSettled, DirSettled, Machine, Link
  <2> QED BY <2>2, <2>4, <2>5, SlotChanges DEF BothFits
<1>9. ASSUME v.tool = "shutdown_all", ~slot.bench, ~dir, slot.local # "none",
             ~slot.agent, ~Link, Closing(v.todo, Local)
      PROVE  SlotOK' /\ BothFits(w.tool, w.todo)'
  <2>1. CASE ~Machine /\ v.todo = Local
    <3>1. w.todo = <<>> /\ Now(Machine, [slot EXCEPT !.local = "none"], Link, dir)
      BY <1>2, <2>1, NotTalk DEF Effect
    <3>2. /\ SlotOK' /\ ~Link' /\ ~Machine' /\ slot'.local = "none" /\ slot'.bench = FALSE
          /\ slot'.agent = FALSE /\ dir' = FALSE
      BY <1>1, <1>9, <2>1, <3>1, SlotChanges DEF Now
    <3>3. Settled' /\ Empty'
      BY <3>2 DEF Empty, Settled, LocalSettled, AgentSettled, DirSettled, Machine, Link
    <3> QED BY <3>1, <3>2, <3>3 DEF BothFits
  <2>2. CASE slot' = slot /\ Link' = Link /\ dir' = dir /\ Closing(w.todo, Local)'
    BY <1>1, <1>9, <2>2, SlotChanges DEF BothFits, Local
  <2> QED BY <1>2, <1>9, <2>1, <2>2, ClosingMoves
<1>10. ASSUME v.tool = "shutdown_all", ~slot.bench, ~dir, slot.local # "none",
              Detaching(v.todo, CloseLocal)
       PROVE  SlotOK' /\ BothFits(w.tool, w.todo)'
  <2>1. CASE ~slot.agent /\ ~Link /\ v.todo = CloseLocal
    <3>1. Closing(v.todo, Local)
      BY <1>2, <2>1 DEF Closing, Quits
    <3> QED BY <1>9, <1>10, <2>1, <3>1
  <2>2. CASE /\ Machine' = Machine /\ dir' = dir
             /\ \E a \in BOOLEAN : slot' = [slot EXCEPT !.agent = a]
             /\ Detaching(w.todo, CloseLocal)'
    BY <1>1, <1>10, <2>2, SlotChanges DEF BothFits, CloseLocal
  <2> QED BY <1>2, <1>10, <2>1, <2>2, DetachingMoves
<1>11. ASSUME v.tool = "shutdown_all", ~slot.bench, ~dir, slot.local = "none", ~Machine,
              Detaching(v.todo, <<>>)
       PROVE  SlotOK' /\ BothFits(w.tool, w.todo)'
  <2>1. /\ Machine' = Machine /\ dir' = dir
        /\ \E a \in BOOLEAN : slot' = [slot EXCEPT !.agent = a]
        /\ Detaching(w.todo, <<>>)'
    BY <1>2, <1>11, DetachingMoves
  <2> QED BY <1>1, <1>11, <2>1, SlotChanges DEF BothFits
<1>12. \/ Settled /\ v.tool # "shutdown_all" /\ v.todo \in {<<>>, Refuse}
       \/ /\ Settled /\ v.todo \in Seq(Asks)
          /\ v.tool = "bench_status" \/ (v.tool = "bench_start" /\ slot.bench)
       \/ v.tool = "bench_start" /\ Empty /\ StartFits(v.todo)
       \/ /\ v.tool \in Downs /\ slot.bench /\ dir
          /\ \/ Detaching(v.todo, CloseBench)
             \/ ~slot.agent /\ ~Link /\ Closing(v.todo, Bench)
       \/ v.tool \in Downs /\ Empty /\ ~Link /\ ~Machine /\ v.todo = <<"rmdir">>
       \/ /\ v.tool = "shutdown_all" /\ ~slot.bench /\ ~dir
          /\ \/ slot.local # "none" /\ Detaching(v.todo, CloseLocal)
             \/ slot.local = "none" /\ ~Machine /\ Detaching(v.todo, <<>>)
             \/ /\ slot.local # "none" /\ ~slot.agent /\ ~Link
                /\ Closing(v.todo, Local)
  BY DEF BothFits, Bench, CloseBench, Local, CloseLocal
<1> QED BY <1>3, <1>4, <1>5, <1>6, <1>7, <1>8, <1>9, <1>10, <1>11, <1>12

\* A tool that is none of the lifecycle changes nothing of it.
LEMMA OtherMoves ==
  ASSUME NEW v, NEW w, v.tool \notin Lifecycle, v.todo # <<>>,
         v.todo \in Seq(Talk \cup {"request", "refuse"}), Effect(v, w)
  PROVE  Same /\ w.todo \in Seq(Talk \cup {"request", "refuse"})
<1> DEFINE Asks == Talk \cup {"request", "refuse"}
<1>1. Head(v.todo) \in Asks /\ Tail(v.todo) \in Seq(Asks)
  BY TailOn
<1>2. Recovery(v.tool, v.todo, v.tries) \in {<<>>, Finally(v.todo)}
  BY DEF Recovery, Lifecycle, LocalLifecycle, AgentLifecycle, BenchLifecycle
<1>3. <<>> \in Seq(Asks) /\ \A s \in Seq(Talk) : s \in Seq(Asks)
  OBVIOUS
<1>4. Finally(v.todo) \in Seq(Asks)
  <2>1. <<"cont">> \in Seq(Asks) /\ <<"unlock">> \in Seq(Asks)
    BY StepWords
  <2> QED BY <1>3, <2>1, JoinOn DEF Finally
<1>5. \A val : CaptureOf(val) \o Tail(v.todo) \in Seq(Asks)
  BY <1>1, <1>3, CaptureTalks, JoinOn
<1>6. Same /\ \/ w.todo \in {Tail(v.todo), v.todo, <<>>, Recovery(v.tool, v.todo, v.tries)}
              \/ \E val : w.todo = CaptureOf(val) \o Tail(v.todo)
  BY <1>1, NotTalk DEF Effect
<1> QED BY <1>1, <1>2, <1>3, <1>4, <1>5, <1>6

----------------------------------------------------------------------------
(* A call that starts fits what the process owns.                          *)

LEMMA DisconnectFits ==
  ASSUME OwnedTypes, AgentSettled, NEW rest \in Seq(Steps)
  PROVE  Detaching(Disconnect \o rest, rest)
<1>1. CASE ~slot.agent
  <2>1. Disconnect \o rest = rest
    BY <1>1, NoneOpened DEF Disconnect
  <2> QED BY <1>1, <2>1 DEF Detaching, AgentSettled
<1>2. CASE slot.agent
  <2>1. Disconnect = <<>> \o Detach \/ Disconnect = <<"probe">> \o Detach
    BY <1>2 DEF Disconnect, Detach
  <2>2. <<>> \o Detach = Detach
    BY NoneOpened, Rests
  <2>3. (<<"probe">> \o Detach) \o rest = <<"probe">> \o (Detach \o rest)
    <3>1. <<"probe">> \in Seq(Steps)
      BY StepWords
    <3> QED BY <3>1, Rests, Regroup
  <2>4. Disconnect \o rest \in {<<"probe">> \o (Detach \o rest), Detach \o rest}
    BY <2>1, <2>2, <2>3
  <2> QED BY <1>2, <2>4 DEF Detaching, AgentSettled
<1> QED BY <1>1, <1>2

LEMMA ShutdownFits ==
  ASSUME OwnedTypes, Settled
  PROVE  /\ BothFits("bench_shutdown", ShutdownBench)
         /\ BothFits("shutdown_all", ShutdownAll)
<1> DEFINE CloseBench == <<"close", "forgetBench", "rmdir">>
           CloseLocal == <<"close", "forgetLocal">>
<1>1. /\ Detaching(Disconnect \o CloseBench, CloseBench)
      /\ Detaching(Disconnect \o CloseLocal, CloseLocal)
      /\ Detaching(Disconnect \o <<>>, <<>>)
  BY Rests, DisconnectFits DEF Settled
<1>2. slot.bench = (slot.local = "bench")
  BY DEF OwnedTypes
<1>3. CASE ~slot.bench
  <2>1. ShutdownBench = <<>>
    BY <1>3 DEF ShutdownBench
  <2>2. ~dir
    BY <1>3 DEF Settled, DirSettled
  <2>3. CASE slot.local = "none"
    <3>1. ShutdownAll = Disconnect \o <<>>
      BY <1>3, <2>3 DEF ShutdownAll, ShutdownLocal
    <3>2. ~Machine
      BY <2>3 DEF Settled, LocalSettled
    <3> QED BY <1>1, <1>3, <2>1, <2>2, <2>3, <3>1, <3>2 DEF BothFits
  <2>4. CASE slot.local # "none"
    <3>1. ShutdownAll = Disconnect \o CloseLocal
      BY <1>2, <1>3, <2>4 DEF ShutdownAll, ShutdownLocal, Guarded
    <3> QED BY <1>1, <1>3, <2>1, <2>2, <2>4, <3>1 DEF BothFits
  <2> QED BY <2>3, <2>4
<1>4. CASE slot.bench
  <2>1. ShutdownBench = Disconnect \o CloseBench /\ ShutdownAll = ShutdownBench
    BY <1>4 DEF ShutdownBench, ShutdownAll
  <2>2. dir
    BY <1>4 DEF Settled, DirSettled
  <2> QED BY <1>1, <1>4, <2>1, <2>2 DEF BothFits
<1> QED BY <1>3, <1>4

LEMMA StartFitsSettled ==
  ASSUME OwnedTypes, Settled
  PROVE  BothFits("bench_start",
                  Guarded(slot.local # "none" \/ slot.agent, BenchProgram))
<1>1. CASE slot.local # "none" \/ slot.agent
  BY <1>1 DEF Guarded, BothFits
<1>2. CASE ~(slot.local # "none" \/ slot.agent)
  <2>1. Empty /\ ~dir /\ ~Link /\ ~Machine
    BY <1>2 DEF OwnedTypes, Empty, Settled, LocalSettled, AgentSettled, DirSettled
  <2>2. StartFits(BenchProgram)
    BY <2>1, BenchOpens DEF StartFits
  <2> QED BY <1>2, <2>1, <2>2 DEF Guarded, BothFits
<1> QED BY <1>1, <1>2

LEMMA LocalProgramFits ==
  ASSUME OwnedTypes, LocalSettled, NEW tool \in LocalLifecycle
  PROVE  LocalFits(tool, Program(tool))
<1>1. CASE tool = "local_shutdown"
  <2>1. Program(tool) = ShutdownLocal
    BY <1>1 DEF Program, LocalProgram
  <2>2. ShutdownLocal \in {<<>>, Refuse} \/ slot.local \notin {"none", "bench"}
    BY DEF ShutdownLocal, Guarded
  <2>3. ASSUME slot.local \notin {"none", "bench"}
        PROVE  Closing(ShutdownLocal, <<"forgetLocal">>)
    <3>1. ShutdownLocal = <<"close", "forgetLocal">>
      BY <2>3 DEF ShutdownLocal, Guarded
    <3>2. <<"close", "forgetLocal">> = <<"close">> \o <<"forgetLocal">>
      OBVIOUS
    <3> QED BY <3>1, <3>2 DEF Closing, Quits
  <2> QED BY <1>1, <2>1, <2>2, <2>3 DEF LocalFits
<1>2. CASE tool # "local_shutdown"
  <2>1. \/ Program(tool) = Guarded(slot.local # "none", BootProgram)
        \/ Program(tool) = Guarded(slot.local # "none", AttachProgram)
    BY <1>2 DEF Program, LocalProgram, LocalLifecycle
  <2>2. slot.local = "none" => ~Machine
    BY DEF LocalSettled
  <2> QED BY <1>2, <2>1, <2>2 DEF Guarded, LocalFits, LocalLifecycle
<1> QED BY <1>1, <1>2

LEMMA AgentProgramFits ==
  ASSUME OwnedTypes, AgentSettled, NEW tool \in AgentLifecycle
  PROVE  AgentFits(tool, Program(tool))
<1>1. CASE tool = "agent_disconnect"
  <2>1. Program(tool) = Disconnect /\ Detaching(Disconnect \o <<>>, <<>>)
    BY <1>1, Rests, DisconnectFits DEF Program, LocalProgram
  <2>2. Disconnect \in Seq(Steps)
    BY AgentParts, OnSteps
  <2>3. Disconnect \o <<>> = Disconnect
    BY <2>2, NoneOpened
  <2> QED BY <1>1, <2>1, <2>3 DEF AgentFits
<1>2. CASE tool = "agent_reboot"
  <2>1. Program(tool) = Guarded(~slot.agent, <<"terminal">> \o Detach)
    BY <1>2 DEF Program, LocalProgram
  <2>2. slot.agent => Link
    BY DEF AgentSettled
  <2> QED BY <1>2, <2>1, <2>2 DEF Guarded, AgentFits
<1>3. CASE tool \in {"agent_listen", "agent_connect"}
  <2>1. \/ Program(tool) = Guarded(slot.agent \/ slot.bench, ListenProgram)
        \/ Program(tool) = Guarded(slot.agent \/ slot.bench, ConnectProgram)
    BY <1>3 DEF Program, LocalProgram
  <2>2. ~slot.agent => ~Link
    BY DEF AgentSettled
  <2> QED BY <1>3, <2>1, <2>2 DEF Guarded, AgentFits
<1> QED BY <1>1, <1>2, <1>3 DEF AgentLifecycle

LEMMA BothProgramFits ==
  ASSUME OwnedTypes, Settled, NEW tool \in BothLifecycle
  PROVE  BothFits(tool, Program(tool))
<1>1. CASE tool = "bench_status"
  <2>1. Program(tool) = BenchStatus
    BY <1>1 DEF Program, LocalProgram
  <2>2. BenchStatus \in Seq(Talk \cup {"request"})
    <3>1. /\ Status \in Seq(Talk \cup {"request"}) /\ <<"request">> \in Seq(Talk \cup {"request"})
          /\ <<>> \in Seq(Talk \cup {"request"})
      BY StepWords DEF Status
    <3> QED BY <3>1, JoinOn DEF BenchStatus
  <2> QED BY <1>1, <2>1, <2>2 DEF BothFits
<1>2. CASE tool = "bench_start"
  <2>1. Program(tool) = Guarded(slot.local # "none" \/ slot.agent, BenchProgram)
    BY <1>2 DEF Program, LocalProgram
  <2> QED BY <1>2, <2>1, StartFitsSettled
<1>3. CASE tool \in {"bench_shutdown", "shutdown_all"}
  <2>1. /\ tool = "bench_shutdown" => Program(tool) = ShutdownBench
        /\ tool = "shutdown_all" => Program(tool) = ShutdownAll
    BY DEF Program, LocalProgram
  <2> QED BY <1>3, <2>1, ShutdownFits
<1> QED BY <1>1, <1>2, <1>3 DEF BothLifecycle, BenchLifecycle

LEMMA OtherProgramFits ==
  ASSUME NEW tool, tool \notin Lifecycle
  PROVE  Program(tool) \in Seq(Talk \cup {"request", "refuse"})
<1> DEFINE Asks == Talk \cup {"request", "refuse"}
<1>1. /\ Refuse \in Seq(Asks) /\ <<"request">> \in Seq(Asks) /\ <<>> \in Seq(Asks)
  BY DEF Refuse
<1>2. CASE tool \in DOMAIN LocalProgram
  <2>1. Program(tool) = Guarded(slot.local = "none"
             \/ (slot.local = "bench" /\ tool \in NotOnBench), LocalProgram[tool])
    BY <1>2 DEF Program, LocalProgram
  <2>2. \A s \in Seq(Talk) : s \in Seq(Asks)
    OBVIOUS
  <2> QED BY <1>1, <1>2, <2>1, <2>2, LocalProgramsTalk DEF Guarded
<1>3. CASE tool \notin DOMAIN LocalProgram
  <2>1. Program(tool) \in {Refuse, <<"request">>, <<>>}
    BY <1>3 DEF Program, Guarded, Lifecycle, LocalLifecycle, AgentLifecycle, BenchLifecycle
  <2> QED BY <1>1, <2>1
<1> QED BY <1>2, <1>3

LEMMA ProgramFits ==
  ASSUME OwnedTypes, NEW w, w.todo = Program(w.tool),
         w.tool \in LocalLifecycle => LocalSettled,
         w.tool \in AgentLifecycle => AgentSettled,
         w.tool \in BothLifecycle => Settled
  PROVE  Fits(w)
BY LocalProgramFits, AgentProgramFits, BothProgramFits, OtherProgramFits DEF Fits

----------------------------------------------------------------------------
(* A call that has ended has left what the process owns settled.           *)

LEMMA Ends ==
  ASSUME NEW rest \in Seq(Steps)
  PROVE  /\ Talks(<<>>, rest) => rest = <<>>
         /\ Closing(<<>>, rest) => ~Machine /\ rest = <<>>
         /\ Detaching(<<>>, rest) => ~slot.agent /\ ~Link /\ rest = <<>>
<1>1. \A s \in Seq(Steps) : s # <<>> => s \o rest # <<>>
  OBVIOUS
<1>2. ASSUME Talks(<<>>, rest) PROVE rest = <<>>
  <2>1. PICK s \in Seq(Talk) : <<>> = s \o rest
    BY <1>2 DEF Talks
  <2>2. s = <<>>
    BY <1>1, <2>1, TalkSteps
  <2> QED BY <2>1, <2>2
<1>3. ASSUME Closing(<<>>, rest) PROVE ~Machine /\ rest = <<>>
  <2>1. \A q \in Quits : q \in Seq(Steps) /\ q # <<>>
    <3>1. /\ <<"close">> \in Seq(Steps) /\ <<"close">> # <<>>
          /\ <<"quit", "reap">> \in Seq(Steps) /\ <<"quit", "reap">> # <<>>
          /\ <<"reap">> \in Seq(Steps) /\ <<"reap">> # <<>>
          /\ <<"detach">> \in Seq(Steps) /\ <<"detach">> # <<>>
      BY StepWords
    <3> QED BY <3>1, Zenon DEF Quits
  <2> QED BY <1>1, <1>3, <2>1 DEF Closing
<1>4. ASSUME Detaching(<<>>, rest) PROVE ~slot.agent /\ ~Link /\ rest = <<>>
  <2>1. /\ <<"forgetAgent">> \in Seq(Steps) /\ <<"forgetAgent">> # <<>>
        /\ Detach \in Seq(Steps) /\ Detach # <<>>
        /\ <<"probe">> \o (Detach \o rest) # <<>>
    <3>1. <<"forgetAgent">> \in Seq(Steps) /\ <<"forgetAgent">> # <<>>
      BY StepWords
    <3>2. Detach \in Seq(Steps) /\ Detach # <<>>
      BY Rests DEF Detach
    <3>3. Detach \o rest \in Seq(Steps)
      BY <3>2, JoinOn
    <3> QED BY <3>1, <3>2, <3>3, Opened
  <2> QED BY <1>1, <1>4, <2>1 DEF Detaching
<1> QED BY <1>2, <1>3, <1>4

LEMMA ProgramsBegin ==
  /\ BootProgram # <<>> /\ AttachProgram # <<>> /\ ListenProgram # <<>>
  /\ ConnectProgram # <<>> /\ Tail(ListenProgram) # <<>> /\ Tail(ConnectProgram) # <<>>
<1>1. \A x, y \in Seq(Steps) : y # <<>> => x \o y # <<>>
  OBVIOUS
<1>2. /\ Settings \in Seq(Steps) /\ PowerOn \in Seq(Steps) /\ Advance \in Seq(Steps)
      /\ ReadScreen \in Seq(Steps) /\ <<"spawn">> \in Seq(Steps)
      /\ <<"connect", "keybuf">> \in Seq(Steps)
  BY StepWords DEF Settings, PowerOn, Advance, ReadScreen
<1>3. BootProgram # <<>>
  <2> DEFINE s == <<"spawn">> \o Settings \o PowerOn \o Advance \o ReadScreen
  <2>1. s \in Seq(Steps)
    BY <1>2, JoinOn
  <2>2. <<"publish">> \in Seq(Steps) /\ <<"publish">> # <<>>
    BY Rests
  <2>3. BootProgram = s \o <<"publish">>
    BY DEF BootProgram
  <2> HIDE DEF s
  <2> QED BY <1>1, <2>1, <2>2, <2>3
<1>4. AttachProgram # <<>>
  <2> DEFINE s == <<"connect", "keybuf">> \o ReadScreen
  <2>1. s \in Seq(Steps)
    BY <1>2, JoinOn
  <2>2. <<"publishWindow">> \in Seq(Steps) /\ <<"publishWindow">> # <<>>
    BY Rests
  <2>3. AttachProgram = s \o <<"publishWindow">>
    BY DEF AttachProgram
  <2> HIDE DEF s
  <2> QED BY <1>1, <2>1, <2>2, <2>3
<1> QED BY <1>3, <1>4 DEF ListenProgram, ConnectProgram

LEMMA LocalDone ==
  ASSUME NEW tool, LocalFits(tool, <<>>) PROVE LocalSettled
<1>1. /\ <<"publish">> # <<>> /\ <<"publishWindow">> # <<>> /\ <<"again">> # <<>>
      /\ <<"forgetLocal">> # <<>>
  OBVIOUS
<1>2. \/ LocalSettled
      \/ slot.local = "none" /\ Closing(<<>>, <<>>)
  BY <1>1, Ends, Rests, ProgramsBegin DEF LocalFits
<1> QED BY <1>2, Ends, Rests DEF LocalSettled, Machine

LEMMA AgentDone ==
  ASSUME NEW tool, AgentFits(tool, <<>>), slot.agent \in BOOLEAN PROVE AgentSettled
<1>1. <<"closeAgent">> # <<>> /\ <<"terminal">> \o Detach # <<>>
  BY Rests, Opened
<1>2. AgentSettled \/ Detaching(<<>>, <<>>)
  BY <1>1, ProgramsBegin DEF AgentFits
<1> QED BY <1>2, Ends, Rests DEF AgentSettled, Link

LEMMA BothDone ==
  ASSUME OwnedTypes, NEW tool, BothFits(tool, <<>>)
  PROVE  Settled /\ (tool = "shutdown_all" => Empty)
<1> DEFINE Bench == <<"forgetBench", "rmdir">>
           CloseBench == <<"close", "forgetBench", "rmdir">>
           Local == <<"forgetLocal">>
           CloseLocal == <<"close", "forgetLocal">>
<1>1. /\ Bench \in Seq(Steps) /\ Bench # <<>> /\ CloseBench \in Seq(Steps) /\ CloseBench # <<>>
      /\ Local \in Seq(Steps) /\ Local # <<>> /\ CloseLocal \in Seq(Steps) /\ CloseLocal # <<>>
      /\ <<>> \in Seq(Steps) /\ <<"rmdir">> # <<>> /\ <<"rmdir">> \in Seq(Steps)
  BY Rests
<1>2. ~StartFits(<<>>)
  <2>1. BenchSetup \o BenchRest \in Seq(Steps)
    BY BenchOpens, Rests, TalkSteps, JoinOn
  <2>2. /\ <<"mkdir", "listen", "spawn">> \o (BenchSetup \o BenchRest) # <<>>
        /\ <<"listen", "spawn">> \o (BenchSetup \o BenchRest) # <<>>
        /\ <<"spawn">> \o (BenchSetup \o BenchRest) # <<>>
    <3> DEFINE rest == BenchSetup \o BenchRest
    <3> HIDE DEF rest
    <3> QED BY <2>1 DEF rest
  <2>3. BenchRest # <<>> /\ BenchUndo # <<>> /\ <<"publishBench">> \o BenchAfter # <<>>
    <3>1. <<"accept", "publishBench">> \o BenchAfter # <<>>
      BY Rests, OpenedTwice
    <3> QED BY <3>1, Rests, Opened DEF BenchRest, BenchUndo
  <2> QED BY <1>1, <2>2, <2>3, Ends, Rests DEF StartFits
<1> HIDE DEF Bench, CloseBench, Local, CloseLocal
<1>3. /\ ~Detaching(<<>>, CloseBench) /\ ~Closing(<<>>, Bench)
      /\ ~Detaching(<<>>, CloseLocal) /\ ~Closing(<<>>, Local)
      /\ Detaching(<<>>, <<>>) => ~slot.agent /\ ~Link
  BY <1>1, Ends
<1>4. \/ Settled /\ tool # "shutdown_all"
      \/ Settled /\ Empty
      \/ tool \in {"bench_status", "bench_start"} /\ Settled
      \/ /\ tool = "shutdown_all" /\ ~slot.bench /\ ~dir /\ slot.local = "none" /\ ~Machine
         /\ ~slot.agent /\ ~Link
  BY <1>1, <1>2, <1>3 DEF BothFits, Bench, CloseBench, Local, CloseLocal
<1>5. slot.agent \in BOOLEAN /\ slot.bench \in BOOLEAN /\ dir \in BOOLEAN
  BY DEF OwnedTypes
<1> QED BY <1>4, <1>5 DEF Settled, LocalSettled, AgentSettled, DirSettled, Empty, Machine, Link

----------------------------------------------------------------------------
(* OwnedInv is kept by every step.                                         *)

\* Two calls that have all their locks have no lock in common.
LEMMA Apart ==
  ASSUME ScopeInv, NEW c \in Workers, NEW d \in Workers, c # d,
         call[c].st \in {"waiting", "working"}, call[c].need = <<>>,
         call[d].st \in {"waiting", "working"}, call[d].need = <<>>
  PROVE  Held(call[c].tool) \cap Held(call[d].tool) = {}
<1>1. Range(call[c].need) = {} /\ Range(call[d].need) = {}
  BY DEF Range
<1>2. /\ \A l \in Held(call[c].tool) : lock[l] = c
      /\ \A l \in Held(call[d].tool) : lock[l] = d
  BY <1>1 DEF ScopeInv, Holds
<1> QED BY <1>2

LEMMA Kinds ==
  /\ \A tool \in LocalLifecycle \cup BothLifecycle : "local" \in Held(tool)
  /\ \A tool \in AgentLifecycle \cup BothLifecycle : "agent" \in Held(tool)
  /\ LocalLifecycle \cap (AgentLifecycle \cup BothLifecycle) = {}
  /\ AgentLifecycle \cap BothLifecycle = {}
  /\ Lifecycle = LocalLifecycle \cup AgentLifecycle \cup BothLifecycle
<1>1. \A tool \in LocalLifecycle : "local" \in Held(tool)
  BY LocalToolHeld DEF LocalTools
<1>2. \A tool \in AgentLifecycle : "agent" \in Held(tool)
  BY AgentToolHeld DEF AgentTools
<1>3. \A tool \in BothLifecycle : "local" \in Held(tool) /\ "agent" \in Held(tool)
  BY BenchToolHeld DEF BothLifecycle
<1>4. /\ LocalLifecycle \cap (AgentLifecycle \cup BothLifecycle) = {}
      /\ AgentLifecycle \cap BothLifecycle = {}
      /\ Lifecycle = LocalLifecycle \cup AgentLifecycle \cup BothLifecycle
  BY DEF LocalLifecycle, AgentLifecycle, BothLifecycle, BenchLifecycle, Lifecycle
<1> QED BY <1>1, <1>2, <1>3, <1>4

LEMMA FitsStay ==
  ASSUME NEW v, Fits(v),
         v.tool \in LocalLifecycle => slot'.local = slot.local /\ Machine' = Machine,
         v.tool \in AgentLifecycle => slot'.agent = slot.agent /\ Link' = Link,
         v.tool \in BothLifecycle => Same
  PROVE  \A w : w.tool = v.tool /\ w.todo = v.todo => Fits(w)'
<1> SUFFICES ASSUME NEW w, w.tool = v.tool, w.todo = v.todo PROVE Fits(w)'
  OBVIOUS
<1>1. ASSUME v.tool \in LocalLifecycle PROVE LocalFits(w.tool, w.todo)'
  BY <1>1 DEF Fits, LocalFits, LocalSettled, Closing
<1>2. ASSUME v.tool \in AgentLifecycle PROVE AgentFits(w.tool, w.todo)'
  BY <1>2 DEF Fits, AgentFits, AgentSettled, Detaching
<1>3. ASSUME v.tool \in BothLifecycle PROVE BothFits(w.tool, w.todo)'
  <2>1. slot' = slot /\ Machine' = Machine /\ Link' = Link /\ dir' = dir
    BY <1>3 DEF Same, Now
  <2>2. Settled' = Settled /\ Empty' = Empty
    BY <2>1 DEF Settled, LocalSettled, AgentSettled, DirSettled, Empty
  <2>3. \A todo, rest : /\ Closing(todo, rest)' = Closing(todo, rest)
                        /\ Detaching(todo, rest)' = Detaching(todo, rest)
    BY <2>1 DEF Closing, Detaching
  <2>4. \A todo : StartFits(todo)' = StartFits(todo)
    BY <2>1, <2>3 DEF StartFits
  <2>5. BothFits(v.tool, v.todo)
    BY <1>3 DEF Fits
  <2> QED BY <2>1, <2>2, <2>3, <2>4, <2>5 DEF BothFits
<1> QED BY <1>1, <1>2, <1>3 DEF Fits

\* The settled parts that a set of calls leaves alone.
LEMMA Stay ==
  ASSUME slot' = slot, Link' = Link, Machine' = Machine, dir' = dir
  PROVE  /\ Same
         /\ LocalSettled' = LocalSettled /\ AgentSettled' = AgentSettled
         /\ DirSettled' = DirSettled /\ Empty' = Empty
BY DEF Same, Now, LocalSettled, AgentSettled, DirSettled, Empty

\* A call in the middle of its work is somewhere else after the step.
LEMMA MovesFit ==
  ASSUME ScopeInv, OwnedInv, NEW c \in Workers, call[c].st = "working", Live(c),
         NEW w, Effect(call[c], w), w.tool = call[c].tool, emu' \in Emulators
  PROVE  /\ OwnedTypes' /\ Fits(w)'
         /\ call[c].tool \notin LocalLifecycle \cup BothLifecycle =>
              slot'.local = slot.local /\ Machine' = Machine
         /\ call[c].tool \notin AgentLifecycle \cup BothLifecycle =>
              slot'.agent = slot.agent /\ Link' = Link
         /\ call[c].tool \notin BothLifecycle =>
              dir' = dir /\ slot'.bench = slot.bench
         /\ call[c].tool \notin Lifecycle => Same
<1> DEFINE v == call[c]
<1>1. v.todo # <<>> /\ Fits(v) /\ OwnedTypes
  BY DEF Live, OwnedInv
<1>2. /\ slot \in Slots /\ slot.bench = (slot.local = "bench") /\ dir \in BOOLEAN
      /\ SlotOK
  BY <1>1 DEF OwnedTypes, Slots, SlotOK
<1>3. SlotOK' => OwnedTypes'
  BY DEF OwnedTypes, SlotOK, Slots
<1>4. CASE v.tool \in LocalLifecycle
  <2>1. PICK l \in {"none", "owned", "attached"} \cup {slot.local} :
          slot' = [slot EXCEPT !.local = l]
    BY <1>1, <1>4, LocalMoves DEF Fits
  <2>2. /\ Link' = Link /\ dir' = dir /\ LocalFits(w.tool, w.todo)'
        /\ slot.local = "bench" => slot'.local = "bench"
    BY <1>1, <1>4, LocalMoves DEF Fits
  <2>3. slot'.agent = slot.agent /\ slot'.bench = slot.bench /\ slot'.local = l
    BY <1>2, <2>1 DEF Slots
  <2>4. slot' \in Slots
    BY <1>2, <2>1 DEF Slots
  <2>5. SlotOK'
    BY <1>2, <2>2, <2>3, <2>4 DEF SlotOK
  <2>6. Fits(w)'
    BY <1>4, <2>2, Kinds DEF Fits
  <2> QED BY <1>3, <1>4, <2>2, <2>3, <2>5, <2>6, Kinds
<1>5. CASE v.tool \in AgentLifecycle
  <2>1. PICK a \in BOOLEAN : slot' = [slot EXCEPT !.agent = a]
    BY <1>1, <1>5, AgentMoves DEF Fits
  <2>2. Machine' = Machine /\ dir' = dir /\ AgentFits(w.tool, w.todo)'
    BY <1>1, <1>5, AgentMoves DEF Fits
  <2>3. SlotOK' /\ slot'.local = slot.local /\ slot'.bench = slot.bench
    BY <1>1, <1>2, <2>1, <2>2, SlotChanges
  <2>4. Fits(w)'
    BY <1>5, <2>2, Kinds DEF Fits
  <2> QED BY <1>3, <1>5, <2>2, <2>3, <2>4, Kinds
<1>6. CASE v.tool \in BothLifecycle
  <2>1. SlotOK' /\ BothFits(w.tool, w.todo)'
    BY <1>1, <1>6, BothMoves DEF Fits
  <2>2. Fits(w)'
    BY <1>6, <2>1, Kinds DEF Fits
  <2> QED BY <1>3, <1>6, <2>1, <2>2, Kinds
<1>7. CASE v.tool \notin Lifecycle
  <2>1. Same /\ w.todo \in Seq(Talk \cup {"request", "refuse"})
    BY <1>1, <1>7, OtherMoves DEF Fits
  <2>2. Fits(w)'
    BY <1>7, <2>1, Kinds DEF Fits
  <2>3. SlotOK'
    BY <1>1, <1>2, <2>1, SlotChanges DEF Same, Now
  <2> QED BY <1>3, <1>7, <2>1, <2>2, <2>3, Kinds DEF Same, Now
<1> QED BY <1>4, <1>5, <1>6, <1>7, Kinds

LEMMA MovesOwned ==
  ASSUME ScopeInv, OwnedInv, NEW c \in Workers, Live(c), NEW w, Moves(c, w)
  PROVE  OwnedInv'
<1> DEFINE Local == LocalLifecycle \cup BothLifecycle
           Agent == AgentLifecycle \cup BothLifecycle
<1>1. call[c].st = "working" /\ call[c].need = <<>> /\ call[c].todo # <<>>
  BY OwnSteps DEF Live
<1>2. /\ call'[c] = w /\ \A d \in Workers \ {c} : call'[d] = call[d]
      /\ w.tool = call[c].tool /\ w.st = "working" /\ server' = server
      /\ w.wait => w.todo # <<>> /\ Head(w.todo) \notin HostSteps
  BY <1>1 DEF Moves, ScopeInv
<1>3. /\ OwnedTypes' /\ Fits(w)'
      /\ call[c].tool \notin Local => slot'.local = slot.local /\ Machine' = Machine
      /\ call[c].tool \notin Agent => slot'.agent = slot.agent /\ Link' = Link
      /\ call[c].tool \notin BothLifecycle => dir' = dir /\ slot'.bench = slot.bench
      /\ call[c].tool \notin Lifecycle => Same
  BY <1>1, MovesFit DEF Moves
<1>4. \A d \in Workers : call'[d].st = call[d].st /\ call'[d].tool = call[d].tool
  BY <1>1, <1>2
<1>5. \A d \in Workers : call'[d].st = "working" => Fits(call[d])'
  <2> SUFFICES ASSUME NEW d \in Workers, call'[d].st = "working" PROVE Fits(call[d])'
    OBVIOUS
  <2>1. CASE d = c
    <3>1. call'[d] = w
      BY <1>2, <2>1
    <3> QED BY <1>3, <3>1 DEF Fits, LocalFits, AgentFits, BothFits
  <2>2. CASE d # c
    <3>1. call'[d] = call[d] /\ call[d].st = "working" /\ Fits(call[d])
      BY <1>2, <2>2 DEF OwnedInv
    <3>2. Held(call[c].tool) \cap Held(call[d].tool) = {}
      <4>1. call[d].need = <<>>
        BY <3>1 DEF ScopeInv, Holds
      <4> QED BY <1>1, <2>2, <3>1, <4>1, Apart
    <3>3. /\ call[d].tool \in LocalLifecycle => call[c].tool \notin Local
          /\ call[d].tool \in AgentLifecycle => call[c].tool \notin Agent
          /\ call[d].tool \in BothLifecycle => call[c].tool \notin Lifecycle
      BY <3>2, Kinds
    <3>4. \A x : x.tool = call[d].tool /\ x.todo = call[d].todo => Fits(x)'
      BY <1>3, <3>1, <3>3, FitsStay
    <3> QED BY <3>1, <3>4
  <2> QED BY <2>1, <2>2
<1>6. \A d \in Workers : call'[d].wait => Live(d)' /\ (Step(d) \notin HostSteps)'
  BY <1>2 DEF OwnedInv, Live, Step
<1>7. /\ Busy(Local)' = Busy(Local) /\ Busy(Agent)' = Busy(Agent)
      /\ Busy(BothLifecycle)' = Busy(BothLifecycle)
      /\ \A tools : call[c].tool \in tools => Busy(tools)
  BY <1>1, <1>4 DEF Busy
<1>8. Busy(Local)' \/ LocalSettled'
  BY <1>3, <1>7 DEF OwnedInv, LocalSettled
<1>9. Busy(Agent)' \/ AgentSettled'
  BY <1>3, <1>7 DEF OwnedInv, AgentSettled
<1>10. Busy(BothLifecycle)' \/ DirSettled'
  BY <1>3, <1>7 DEF OwnedInv, DirSettled
<1>11. ServerInv'
  <2>1. Lifespan \in Workers /\ Calls \subseteq Workers
    BY DEF Workers
  <2>2. ASSUME server = "closed" PROVE Empty'
    <3>1. Held(call[c].tool) = {} /\ Empty
      BY <1>1, <2>2 DEF OwnedInv, ServerInv
    <3>2. call[c].tool \notin Lifecycle
      BY <3>1, Kinds
    <3> QED BY <1>3, <3>1, <3>2 DEF Same, Now, Empty
  <2> QED BY <1>2, <1>4, <2>1, <2>2 DEF OwnedInv, ServerInv
<1> QED BY <1>3, <1>5, <1>6, <1>8, <1>9, <1>10, <1>11 DEF OwnedInv

\* What changes neither the working calls nor what the process owns.
LEMMA StandsOwned ==
  ASSUME OwnedInv, Same, emu' \in Emulators, ServerInv',
         \A d \in Workers :
           \/ /\ call'[d].tool = call[d].tool /\ call'[d].st = call[d].st
              /\ call'[d].todo = call[d].todo /\ call'[d].wait = call[d].wait
           \/ call[d].st # "working" /\ call'[d].st # "working" /\ ~call'[d].wait
  PROVE  OwnedInv'
<1>1. slot' = slot /\ Machine' = Machine /\ Link' = Link /\ dir' = dir
  BY DEF Same, Now
<1>2. OwnedTypes'
  BY <1>1 DEF OwnedInv, OwnedTypes
<1>3. ASSUME NEW d \in Workers, call'[d].st = "working" PROVE Fits(call[d])'
  <2>1. /\ call'[d].tool = call[d].tool /\ call'[d].todo = call[d].todo
        /\ Fits(call[d])
    BY <1>3 DEF OwnedInv
  <2>2. \A w : w.tool = call[d].tool /\ w.todo = call[d].todo => Fits(w)'
    BY <1>1, <2>1, FitsStay
  <2> QED BY <2>1, <2>2
<1>4. \A d \in Workers : call'[d].wait => Live(d)' /\ (Step(d) \notin HostSteps)'
  BY DEF OwnedInv, Live, Step
<1>5. \A tools : Busy(tools)' = Busy(tools)
  BY DEF Busy
<1>6. /\ LocalSettled' = LocalSettled /\ AgentSettled' = AgentSettled
      /\ DirSettled' = DirSettled
  BY <1>1, Stay
<1> QED BY <1>2, <1>3, <1>4, <1>5, <1>6 DEF OwnedInv

LEMMA Unowned ==
  ASSUME OwnedInv, UNCHANGED <<slot, link, dir, emu>>
  PROVE  Same /\ emu' \in Emulators
BY DEF OwnedInv, OwnedTypes, Same, Now, Machine, Link

LEMMA ArriveOwned ==
  ASSUME ScopeInv, OwnedInv, NEW c \in Calls, Arrive(c) PROVE OwnedInv'
<1>1. PICK tool \in Tools : call' = [call EXCEPT ![c] = Queued(tool)]
  BY DEF Arrive
<1>2. /\ server = "serving" /\ server' = server /\ call[c].st = "idle"
      /\ UNCHANGED <<slot, link, dir, emu>>
      /\ c \in Workers /\ c # Lifespan /\ Lifespan \in Workers
  BY DEF Arrive, Workers, Calls, Lifespan
<1>3. Queued(tool).st = "waiting" /\ ~Queued(tool).wait
  BY DEF Queued, Idle
<1>4. call'[c] = Queued(tool) /\ \A d \in Workers \ {c} : call'[d] = call[d]
  BY <1>1, <1>2 DEF ScopeInv
<1>5. ServerInv'
  BY <1>2, <1>4 DEF OwnedInv, ServerInv
<1> QED BY <1>2, <1>3, <1>4, <1>5, Unowned, StandsOwned

LEMMA EndsWaiting ==
  ASSUME ScopeInv, OwnedInv, NEW c \in Calls, CancelWaiting(c) PROVE OwnedInv'
<1>1. /\ call[c].st = "waiting" /\ server = "serving" /\ server' = server
      /\ call' = [call EXCEPT ![c] = Ended]
      /\ UNCHANGED <<slot, link, dir, emu>>
      /\ c \in Workers /\ c # Lifespan /\ Lifespan \in Workers
  BY DEF CancelWaiting, Workers, Calls, Lifespan
<1>2. Ended.st = "done" /\ ~Ended.wait
  BY DEF Ended, Idle
<1>3. call'[c] = Ended /\ \A d \in Workers \ {c} : call'[d] = call[d]
  BY <1>1 DEF ScopeInv
<1>4. ServerInv'
  BY <1>1, <1>3 DEF OwnedInv, ServerInv
<1> QED BY <1>1, <1>2, <1>3, <1>4, Unowned, StandsOwned

LEMMA StopOwned ==
  ASSUME ScopeInv, OwnedInv, StopServing PROVE OwnedInv'
<1> DEFINE waiting == {c \in Calls : call[c].st = "waiting"}
           told(c) == [call[c] EXCEPT !.cancelled = @ \/ call[c].st = "working"]
<1>1. /\ call' = [c \in Workers |->
            IF c = Lifespan THEN Queued("shutdown_all")
            ELSE IF c \in waiting THEN Ended ELSE told(c)]
      /\ server = "serving" /\ server' = "closing"
      /\ UNCHANGED <<slot, link, dir, emu>>
  BY DEF StopServing
<1>2. Lifespan \in Workers /\ Calls \subseteq Workers /\ Lifespan \notin Calls
  BY DEF Workers, Calls, Lifespan
<1>3. \A c \in Workers :
        /\ told(c).st = call[c].st /\ told(c).tool = call[c].tool
        /\ told(c).todo = call[c].todo /\ told(c).wait = call[c].wait
  BY DEF ScopeInv, CallRecords
<1>4. /\ Queued("shutdown_all").st = "waiting" /\ ~Queued("shutdown_all").wait
      /\ Queued("shutdown_all").tool = "shutdown_all"
      /\ Ended.st = "done" /\ ~Ended.wait
  BY DEF Queued, Ended, Idle
<1>5. call[Lifespan].st = "idle"
  BY <1>1 DEF OwnedInv, ServerInv
<1>6. \A c \in waiting : c \in Calls /\ call[c].st = "waiting"
  OBVIOUS
<1>7. \A c \in Calls \ waiting : call[c].st # "waiting"
  OBVIOUS
<1> HIDE DEF told, waiting
<1>8. /\ call'[Lifespan] = Queued("shutdown_all")
      /\ \A c \in waiting : call'[c] = Ended
      /\ \A c \in Calls \ waiting : call'[c] = told(c)
  BY <1>1, <1>2, <1>6
<1>9. ServerInv'
  BY <1>1, <1>2, <1>3, <1>4, <1>7, <1>8 DEF ServerInv
<1>10. \A d \in Workers :
         \/ /\ call'[d].tool = call[d].tool /\ call'[d].st = call[d].st
            /\ call'[d].todo = call[d].todo /\ call'[d].wait = call[d].wait
         \/ call[d].st # "working" /\ call'[d].st # "working" /\ ~call'[d].wait
  BY <1>2, <1>3, <1>4, <1>5, <1>6, <1>8 DEF Workers
<1> QED BY <1>1, <1>9, <1>10, Unowned, StandsOwned

\* The steps that only take a lock, tell a thread or let the emulator go on.
LEMMA QuietOwned ==
  ASSUME ScopeInv, OwnedInv,
         \/ \E c \in Workers : Acquire(c)
         \/ \E c \in Calls : CancelWorking(c)
         \/ Serve \/ Exit \/ Hang \/ UNCHANGED vars
  PROVE  OwnedInv'
<1>1. /\ server' = server
      /\ \A d \in Workers :
           /\ call'[d].tool = call[d].tool /\ call'[d].st = call[d].st
           /\ call'[d].todo = call[d].todo /\ call'[d].wait = call[d].wait
  <2>1. CASE \E c \in Workers : Acquire(c)
    <3>1. PICK c \in Workers : Acquire(c)
      BY <2>1
    <3> DEFINE w == [call[c] EXCEPT !.need = Tail(call[c].need)]
    <3>2. call' = [call EXCEPT ![c] = w] /\ server' = server
      BY <3>1 DEF Acquire, ScopeInv, CallRecords
    <3>3. w.tool = call[c].tool /\ w.st = call[c].st /\ w.todo = call[c].todo
          /\ w.wait = call[c].wait
      BY DEF ScopeInv, CallRecords
    <3> HIDE DEF w
    <3> QED BY <3>2, <3>3 DEF ScopeInv
  <2>2. CASE \E c \in Calls : CancelWorking(c)
    <3>1. PICK c \in Workers : CancelWorking(c)
      BY <2>2 DEF Workers
    <3> DEFINE w == [call[c] EXCEPT !.cancelled = TRUE]
    <3>2. call' = [call EXCEPT ![c] = w] /\ server' = server
      BY <3>1 DEF CancelWorking
    <3>3. w.tool = call[c].tool /\ w.st = call[c].st /\ w.todo = call[c].todo
          /\ w.wait = call[c].wait
      BY DEF ScopeInv, CallRecords
    <3> HIDE DEF w
    <3> QED BY <3>2, <3>3 DEF ScopeInv
  <2>3. CASE Serve \/ Exit \/ Hang \/ UNCHANGED vars
    BY <2>3 DEF Serve, Exit, Hang, vars
  <2> QED BY <2>1, <2>2, <2>3
<1>2. UNCHANGED <<slot, link, dir>>
  BY DEF Acquire, CancelWorking, Serve, Exit, Hang, vars
<1>3. emu' \in Emulators /\ Machine' = Machine
  <2>1. emu \in Emulators
    BY DEF OwnedInv, OwnedTypes
  <2>2. CASE Serve
    <3>1. /\ emu.proc \in {"running", "window"} /\ emu.sent # <<>> /\ emu' = Served(emu)
      BY <2>2 DEF Serve
    <3>2. "lock" \in Steps
      BY StepWords
    <3>3. Lifespan \in Workers
      BY DEF Workers
    <3>4. Served(emu) \in Emulators /\ (Served(emu).proc = emu.proc \/ Served(emu).proc = "exited")
      BY <2>1, <3>1, <3>2, <3>3, ChannelSteps
    <3> QED BY <3>1, <3>4 DEF Machine
  <2>3. CASE Exit \/ Hang
    BY <2>1, <2>3 DEF Exit, Hang, Emulators, Machine
  <2>4. CASE ~Serve /\ ~Exit /\ ~Hang
    BY <2>1, <2>4 DEF Acquire, CancelWorking, Machine, vars
  <2> QED BY <2>2, <2>3, <2>4
<1>4. Same
  BY <1>2, <1>3 DEF Same, Now, Link
<1>5. ServerInv'
  <2>1. Lifespan \in Workers /\ Calls \subseteq Workers /\ slot' = slot
    BY <1>2 DEF Workers
  <2> QED BY <1>1, <2>1 DEF OwnedInv, ServerInv, Empty
<1> QED BY <1>1, <1>3, <1>4, <1>5, StandsOwned

LEMMA StartOwned ==
  ASSUME ScopeInv, OwnedInv, NEW c \in Workers, Start(c) PROVE OwnedInv'
<1> DEFINE n == IF call[c].tool = "local_boot_auto" THEN 1 ELSE 0
           p == Program(call[c].tool)
           w == [call[c] EXCEPT !.st = "working", !.todo = p, !.tries = n]
           Local == LocalLifecycle \cup BothLifecycle
           Agent == AgentLifecycle \cup BothLifecycle
<1>1. /\ call[c] \in CallRecords /\ call[c].st = "waiting" /\ call[c].need = <<>>
      /\ call' = [call EXCEPT ![c] = w] /\ server' = server
      /\ UNCHANGED <<slot, link, dir, emu>>
  BY DEF ScopeInv, Start
<1>2. /\ w.tool = call[c].tool /\ w.st = "working" /\ w.todo = p
      /\ w.wait = call[c].wait
  BY <1>1 DEF CallRecords
<1>3. ~call[c].wait
  <2>1. call[c].todo = <<>>
    BY <1>1 DEF ScopeInv, Holds
  <2> QED BY <2>1 DEF OwnedInv, Live
<1> HIDE DEF w, n
<1>4. call'[c] = w /\ \A d \in Workers \ {c} : call'[d] = call[d]
  BY <1>1 DEF ScopeInv
<1>5. ASSUME NEW d \in Workers, call[d].st = "working"
      PROVE  Held(call[c].tool) \cap Held(call[d].tool) = {}
  <2>1. d # c /\ call[d].need = <<>>
    BY <1>1, <1>5 DEF ScopeInv, Holds
  <2> QED BY <1>1, <1>5, <2>1, Apart
<1>6. /\ call[c].tool \in Local => ~Busy(Local)
      /\ call[c].tool \in Agent => ~Busy(Agent)
      /\ call[c].tool \in BothLifecycle => ~Busy(BothLifecycle)
  BY <1>5, Kinds DEF Busy
<1>7. /\ call[c].tool \in LocalLifecycle => LocalSettled
      /\ call[c].tool \in AgentLifecycle => AgentSettled
      /\ call[c].tool \in BothLifecycle => Settled
  BY <1>6 DEF OwnedInv, Settled
<1>8. OwnedTypes /\ Fits(w)
  BY <1>2, <1>7, ProgramFits DEF OwnedInv, p
<1> HIDE DEF p
<1>9. Same /\ emu' \in Emulators
  BY <1>1, Unowned
<1>10. OwnedTypes'
  BY <1>1 DEF OwnedInv, OwnedTypes
<1>11. ASSUME NEW d \in Workers, call'[d].st = "working" PROVE Fits(call[d])'
  <2>1. PICK v : call'[d] = v /\ Fits(v)
    BY <1>4, <1>8, <1>11 DEF OwnedInv
  <2>2. \A x : x.tool = v.tool /\ x.todo = v.todo => Fits(x)'
    BY <1>9, <2>1, FitsStay DEF Same, Now
  <2> QED BY <2>1, <2>2
<1>12. \A d \in Workers : call'[d].wait => Live(d)' /\ (Step(d) \notin HostSteps)'
  BY <1>2, <1>3, <1>4 DEF OwnedInv, Live, Step
<1>13. \A tools : Busy(tools) => Busy(tools)'
  BY <1>1, <1>4 DEF Busy
<1>14. /\ LocalSettled' = LocalSettled /\ AgentSettled' = AgentSettled
       /\ DirSettled' = DirSettled
  BY <1>9, Stay DEF Same, Now
<1>15. ServerInv'
  <2>1. Lifespan \in Workers /\ Workers = Calls \cup {Lifespan} /\ slot' = slot
    BY <1>1 DEF Workers
  <2> QED BY <1>1, <1>2, <1>4, <2>1 DEF OwnedInv, ServerInv, Empty
<1> QED BY <1>9, <1>10, <1>11, <1>12, <1>13, <1>14, <1>15 DEF OwnedInv

LEMMA FinishOwned ==
  ASSUME ScopeInv, OwnedInv, NEW c \in Workers, Finish(c) PROVE OwnedInv'
<1> DEFINE Local == LocalLifecycle \cup BothLifecycle
           Agent == AgentLifecycle \cup BothLifecycle
<1>1. /\ call[c].st = "working" /\ call[c].todo = <<>> /\ call[c].need = <<>>
      /\ call' = [call EXCEPT ![c] = Ended]
      /\ server' = IF c = Lifespan THEN "closed" ELSE server
      /\ UNCHANGED <<slot, link, dir, emu>>
  BY DEF Finish, Live, ScopeInv, Holds
<1>2. Ended.st = "done" /\ ~Ended.wait
  BY DEF Ended, Idle
<1>3. call'[c] = Ended /\ \A d \in Workers \ {c} : call'[d] = call[d]
  BY <1>1 DEF ScopeInv
<1>4. Fits(call[c]) /\ OwnedTypes
  BY <1>1 DEF OwnedInv
<1>5. /\ call[c].tool \in LocalLifecycle => LocalSettled
      /\ call[c].tool \in AgentLifecycle => AgentSettled
      /\ call[c].tool \in BothLifecycle => Settled
      /\ call[c].tool = "shutdown_all" => Empty
  <2>1. slot.agent \in BOOLEAN
    BY <1>4 DEF OwnedTypes
  <2>2. "shutdown_all" \in BothLifecycle
    BY DEF BothLifecycle
  <2> QED BY <1>1, <1>4, <2>1, <2>2, LocalDone, AgentDone, BothDone DEF Fits
<1>6. Same /\ emu' \in Emulators
  BY <1>1, Unowned
<1>7. OwnedTypes'
  BY <1>1, <1>4 DEF OwnedTypes
<1>8. ASSUME NEW d \in Workers, call'[d].st = "working" PROVE Fits(call[d])'
  <2>1. call'[d] = call[d] /\ Fits(call[d])
    BY <1>2, <1>3, <1>8 DEF OwnedInv
  <2>2. \A x : x.tool = call[d].tool /\ x.todo = call[d].todo => Fits(x)'
    BY <1>6, <2>1, FitsStay DEF Same, Now
  <2> QED BY <2>1, <2>2
<1>9. \A d \in Workers : call'[d].wait => Live(d)' /\ (Step(d) \notin HostSteps)'
  BY <1>2, <1>3 DEF OwnedInv, Live, Step
<1>10. \A tools : Busy(tools) => Busy(tools)' \/ call[c].tool \in tools
  BY <1>3 DEF Busy
<1>11. /\ LocalSettled' = LocalSettled /\ AgentSettled' = AgentSettled
       /\ DirSettled' = DirSettled
  BY <1>6, Stay DEF Same, Now
<1>12. /\ Busy(Local)' \/ LocalSettled'
       /\ Busy(Agent)' \/ AgentSettled'
       /\ Busy(BothLifecycle)' \/ DirSettled'
  BY <1>5, <1>10, <1>11 DEF OwnedInv, Settled
<1>13. ServerInv'
  <2>1. /\ Lifespan \in Workers /\ Workers = Calls \cup {Lifespan}
        /\ Lifespan \notin Calls /\ slot' = slot
    BY <1>1 DEF Workers, Calls, Lifespan
  <2>2. CASE c = Lifespan
    <3>1. call[c].tool = "shutdown_all" /\ server # "serving"
      BY <1>1, <2>2 DEF OwnedInv, ServerInv
    <3>2. Empty'
      BY <1>5, <2>1, <3>1 DEF Empty
    <3>3. ASSUME NEW d \in Workers, call'[d].st = "working"
          PROVE  Held(call'[d].tool) = {}
      <4>1. d # c /\ call'[d] = call[d] /\ call[d].need = <<>>
        BY <1>2, <1>3, <3>3 DEF ScopeInv, Holds
      <4>2. Held(call[c].tool) \cap Held(call[d].tool) = {}
        BY <1>1, <3>3, <4>1, Apart
      <4>3. Held(call[c].tool) = Locks
        BY <3>1 DEF Held, Scope, NoTargetIo, Diagnostics, Locks, Range
      <4>4. Held(call[d].tool) \subseteq Locks
        BY DEF Held, Scope, Locks, Range
      <4> QED BY <4>1, <4>2, <4>3, <4>4
    <3> QED BY <1>1, <1>2, <1>3, <2>1, <2>2, <3>1, <3>2, <3>3 DEF OwnedInv, ServerInv
  <2>3. CASE c # Lifespan
    BY <1>1, <1>2, <1>3, <2>1, <2>3 DEF OwnedInv, ServerInv, Empty
  <2> QED BY <2>2, <2>3
<1> QED BY <1>7, <1>8, <1>9, <1>12, <1>13 DEF OwnedInv

LEMMA InitOwned ==
  ASSUME Init PROVE OwnedInv
<1> DEFINE Window == Attached(FALSE)
<1> HIDE DEF Window
<1> DEFINE Plain ==
             {[slot |-> [local |-> l, agent |-> a, bench |-> FALSE],
               emu |-> CASE l = "none" -> NoEmulator [] l = "owned" -> Spawned
                         [] OTHER -> Window] :
                l \in {"none", "owned", "attached"}, a \in BOOLEAN}
           Bench == [slot |-> [local |-> "bench", agent |-> TRUE, bench |-> TRUE],
                     emu |-> Spawned]
<1>0. ASSUME NEW x \in Plain
      PROVE  \E l \in {"none", "owned", "attached"}, a \in BOOLEAN :
               x = [slot |-> [local |-> l, agent |-> a, bench |-> FALSE],
                    emu |-> CASE l = "none" -> NoEmulator [] l = "owned" -> Spawned
                              [] OTHER -> Window]
  OBVIOUS
<1> HIDE DEF Plain, Bench
<1>1. /\ server = "serving" /\ \A c \in Workers : call[c] = Idle
      /\ Lifespan \in Workers
  BY DEF Init, Workers
<1>2. PICK s \in Plain \cup {Bench} :
        /\ slot = s.slot /\ emu = s.emu /\ dir = s.slot.bench
        /\ link = IF s.slot.agent THEN "up" ELSE "none"
  <2>1. Sessions = Plain \cup {Bench}
    BY DEF Sessions, Plain, Bench, Window
  <2> QED BY <2>1 DEF Init
<1>3. /\ slot \in Slots /\ slot.bench = (slot.local = "bench")
      /\ emu \in {NoEmulator, Spawned, Window}
      /\ emu = NoEmulator <=> slot.local = "none"
  <2>1. Spawned # NoEmulator /\ Window # NoEmulator
    BY NewEmulators DEF Window
  <2>2. CASE s \in Plain
    <3>1. PICK l \in {"none", "owned", "attached"}, a \in BOOLEAN :
            s = [slot |-> [local |-> l, agent |-> a, bench |-> FALSE],
                 emu |-> CASE l = "none" -> NoEmulator [] l = "owned" -> Spawned
                           [] OTHER -> Window]
      BY <1>0, <2>2
    <3>2. /\ s.emu \in {NoEmulator, Spawned, Window}
          /\ s.emu = NoEmulator <=> l = "none"
      BY <2>1, <3>1
    <3>3. slot = [local |-> l, agent |-> a, bench |-> FALSE] /\ emu = s.emu
      BY <1>2, <3>1
    <3>4. slot \in Slots /\ slot.local = l /\ slot.bench = FALSE
      BY <3>3 DEF Slots
    <3> QED BY <3>2, <3>3, <3>4
  <2>3. CASE s = Bench
    <3>1. slot = [local |-> "bench", agent |-> TRUE, bench |-> TRUE] /\ emu = Spawned
      BY <1>2, <2>3 DEF Bench
    <3>2. slot \in Slots /\ slot.local = "bench" /\ slot.bench = TRUE
      BY <3>1 DEF Slots
    <3> QED BY <2>1, <3>1, <3>2
  <2> QED BY <2>2, <2>3
<1>4. emu \in Emulators /\ Machine = (emu # NoEmulator)
  BY <1>3, NewEmulators DEF Machine, Window
<1>5. LocalSettled /\ AgentSettled /\ DirSettled
  BY <1>2, <1>3, <1>4 DEF LocalSettled, AgentSettled, DirSettled, Link, Slots
<1>6. OwnedTypes
  BY <1>2, <1>3, <1>4 DEF OwnedTypes, Slots
<1> QED BY <1>1, <1>5, <1>6 DEF OwnedInv, ServerInv, Idle

LEMMA NextOwned ==
  ASSUME ScopeInv, OwnedInv, [Next]_vars PROVE OwnedInv'
<1>1. ASSUME NEW c \in Workers,
             LocalStep(c) \/ Request(c) \/ Rejected(c) \/ TimesOutSlow(c)
      PROVE  OwnedInv'
  <2>1. CASE Acquire(c) \/ Start(c) \/ Finish(c)
    BY <2>1, QuietOwned, StartOwned, FinishOwned
  <2>2. CASE \/ WriteCommand(c) \/ WriteFails(c) \/ Answer(c) \/ Rejected(c)
             \/ TimesOut(c) \/ TimesOutSlow(c) \/ GoneWhileWaiting(c)
    <3>1. Live(c)
      BY <2>2 DEF WriteCommand, WriteFails, Answer, Rejected, TimesOut, TimesOutSlow,
         Late, GoneWhileWaiting, Sends
    <3> QED BY <2>2, <3>1, TalkMoves, MovesOwned
  <2>3. CASE \/ Spawn(c) \/ Connect(c) \/ Publish(c) \/ Close(c) \/ Reap(c)
             \/ Monitor(c) \/ Again(c) \/ RefuseCall(c) \/ Listen(c) \/ Accept(c)
             \/ PublishAgent(c) \/ CloseAgent(c) \/ Directory(c) \/ Pair(c) \/ Request(c)
    <3>1. Live(c)
      BY <2>3 DEF Spawn, Connect, Publish, Close, Reap, Monitor, Again, RefuseCall,
         Listen, Accept, PublishAgent, CloseAgent, Directory, Pair, Request, Does
    <3> QED BY <2>3, <3>1, HostMoves, MovesOwned
  <2> QED BY <1>1, <2>1, <2>2, <2>3 DEF LocalStep
<1>2. ASSUME NEW c \in Calls, Arrive(c) \/ CancelWaiting(c) \/ CancelWorking(c)
      PROVE  OwnedInv'
  BY <1>2, ArriveOwned, EndsWaiting, QuietOwned
<1>3. CASE StopServing
  BY <1>3, StopOwned
<1>4. CASE Serve \/ Exit \/ Hang \/ UNCHANGED vars
  BY <1>4, QuietOwned
<1> QED BY <1>1, <1>2, <1>3, <1>4 DEF Next

LEMMA OwnedSettles ==
  ASSUME ScopeInv, OwnedInv PROVE NothingLeaked
<1>1. slot.bench = (slot.local = "bench")
  BY DEF OwnedInv, OwnedTypes
<1>2. server = "closed" => slot.local = "none" /\ ~slot.agent /\ ~slot.bench
  BY DEF OwnedInv, ServerInv, Empty
<1>3. ASSUME \A c \in Workers : Live(c) => call[c].tool \notin Lifecycle
      PROVE  LocalSettled /\ AgentSettled /\ DirSettled
  <2>1. ASSUME NEW c \in Workers, call[c].st = "working", ~Live(c)
        PROVE  /\ call[c].tool \in LocalLifecycle => LocalSettled
               /\ call[c].tool \in AgentLifecycle => AgentSettled
               /\ call[c].tool \in BothLifecycle => Settled
    <3>1. Fits(call[c]) /\ call[c].todo = <<>> /\ OwnedTypes
      BY <2>1 DEF OwnedInv, Live
    <3>2. slot.agent \in BOOLEAN
      BY <3>1 DEF OwnedTypes
    <3> QED BY <3>1, <3>2, LocalDone, AgentDone, BothDone DEF Fits
  <2>2. /\ Busy(LocalLifecycle \cup BothLifecycle) => LocalSettled
        /\ Busy(AgentLifecycle \cup BothLifecycle) => AgentSettled
        /\ Busy(BothLifecycle) => DirSettled
    BY <1>3, <2>1, Kinds DEF Busy, Settled
  <2> QED BY <2>2 DEF OwnedInv
<1>4. ASSUME LocalSettled, AgentSettled, DirSettled
      PROVE  /\ (emu.proc = "none") = (slot.local = "none")
             /\ (link = "none") = ~slot.agent
             /\ dir = slot.bench
             /\ slot.bench => slot.local = "bench"
  <2>1. slot.agent \in BOOLEAN
    BY DEF OwnedInv, OwnedTypes
  <2> QED BY <1>1, <1>4, <2>1 DEF LocalSettled, AgentSettled, DirSettled, Machine, Link
<1> QED BY <1>2, <1>3, <1>4 DEF NothingLeaked

\* When no lifecycle call runs, the process owns what Session has published and
\* nothing else, and a closed server owns nothing: no start that failed or was
\* cancelled at any of its steps, no shutdown and no fault leaves an emulator, a
\* listener, a link or a directory behind, however many calls there are
\* (_lifespan, and the except and finally clauses of the lifecycle handlers).
THEOREM NothingIsLeaked == Spec => []NothingLeaked
<1>1. ScopeInv /\ OwnedInv /\ [Next]_vars => ScopeInv' /\ OwnedInv'
  BY NextScope, NextOwned
<1>2. Init => ScopeInv /\ OwnedInv
  BY InitScope, InitOwned
<1>3. ScopeInv /\ OwnedInv => NothingLeaked
  BY OwnedSettles
<1> QED BY <1>1, <1>2, <1>3, PTL DEF Spec

----------------------------------------------------------------------------
(* The run state of the CPU.                                               *)

Debugger == {"break", "cont", "setpc", "breaked"}
Calm == Steps \ Debugger

\* Where a handler that moves the CPU may be.  It asks whether the CPU stands,
\* or looks at one that stands already; or it is going to break, and then the
\* CPU stands for it until it lets it go.
AskingCapture == {<<"lock", "breaked", "unlock">>, <<"breaked", "unlock">>}
LookingCapture ==
  {<<"regs", "memory", "cpu", "unlock">>, <<"memory", "cpu", "unlock">>,
   <<"cpu", "unlock">>, <<"unlock">>}
BreakingCapture == <<"break", "regs", "memory", "cpu", "cont", "unlock">>
StoppedCapture ==
  {<<"regs", "memory", "cpu", "cont", "unlock">>, <<"memory", "cpu", "cont", "unlock">>,
   <<"cpu", "cont", "unlock">>, <<"cont", "unlock">>}
CapturePlaces ==
  AskingCapture \cup LookingCapture \cup {BreakingCapture} \cup StoppedCapture
  \cup {<<"refuse">>, <<>>}

BreakingRun ==
  {<<"poke", "block", "break", "setpc">>, <<"block", "break", "setpc">>,
   <<"break", "setpc">>, <<"poke", "break", "setpc", "mode", "vram">>,
   <<"break", "setpc", "mode", "vram">>}
StoppedRun == {<<"setpc">>, <<"setpc", "mode", "vram">>}
FinishedRun == {<<"mode", "vram">>, <<"vram">>}
RunPlaces == BreakingRun \cup StoppedRun \cup FinishedRun \cup {<<"refuse">>, <<>>}

Places(tool) ==
  IF tool = "local_cpu_snapshot" THEN CapturePlaces
  ELSE IF tool \in MovesCpu THEN RunPlaces ELSE Seq(Calm)

\* What the steps still to be served say of the CPU: it stands for them, and it
\* was running before them.
Halts(todo) == todo \in StoppedCapture \cup StoppedRun
Continues(todo) == todo \in StoppedCapture \cup {BreakingCapture}

\* The steps of a thread that the emulator has not served.
Ahead(c) ==
  IF call[c].wait /\ emu.replies # <<>> THEN Tail(call[c].todo) ELSE call[c].todo

\* At most one command is under way, and a thread waits for it.
Quiet == emu.sent = <<>> /\ emu.replies = <<>> /\ \A c \in Workers : ~call[c].wait
Asked(c) ==
  /\ call[c].wait /\ emu.replies = <<>>
  /\ emu.sent = <<[cmd |-> Step(c), own |-> TRUE]>>
Told(c, val) ==
  /\ call[c].wait /\ emu.sent = <<>>
  /\ emu.replies = <<[own |-> TRUE, val |-> val]>>
  /\ Step(c) = "breaked" => val = emu.held
Exchange == Quiet \/ \E c \in Workers : Asked(c) \/ \E val \in BOOLEAN : Told(c, val)

Poised ==
  /\ emu.broken = (emu.held \/ \E c \in Workers : Halts(Ahead(c)))
  /\ \A c \in Workers : Continues(Ahead(c)) => ~emu.held

KeptInv ==
  /\ \A c \in Workers : call[c].todo \in Places(call[c].tool)
  /\ emu.trust = "good" /\ Alive(emu) => Exchange /\ Poised

\* What serving its first step makes of a sequence.
Moved(t) ==
  LET r == Tail(t) IN
  /\ Head(t) = "break" => ~Halts(t) /\ Halts(r) /\ (Continues(r) <=> Continues(t))
  /\ Head(t) = "cont" => Continues(t) /\ ~Halts(r) /\ ~Continues(r)
  /\ Head(t) = "setpc" => ~Halts(r) /\ ~Continues(r)
  /\ Head(t) = "breaked" => t = <<"breaked", "unlock">>
  /\ Head(t) \notin {"break", "cont", "setpc"} =>
       (Halts(r) <=> Halts(t)) /\ (Continues(r) <=> Continues(t))

LEMMA PlacesTell ==
  /\ ~Halts(<<>>) /\ ~Halts(<<"refuse">>)
  /\ \A t \in AskingCapture : ~Halts(t)
  /\ \A t \in LookingCapture : ~Halts(t)
  /\ ~Halts(BreakingCapture)
  /\ \A t \in BreakingRun : ~Halts(t)
  /\ \A t \in FinishedRun : ~Halts(t)
  /\ \A t \in StoppedCapture \cup StoppedRun : Halts(t)
  /\ ~Continues(<<>>) /\ ~Continues(<<"refuse">>)
  /\ \A t \in AskingCapture : ~Continues(t)
  /\ \A t \in LookingCapture : ~Continues(t)
  /\ \A t \in BreakingRun : ~Continues(t)
  /\ \A t \in FinishedRun : ~Continues(t)
  /\ \A t \in StoppedRun : ~Continues(t)
  /\ \A t \in StoppedCapture \cup {BreakingCapture} : Continues(t)
<1> USE DEF Halts, Continues, StoppedCapture, StoppedRun, BreakingCapture
<1>1. ~Halts(<<>>) /\ ~Halts(<<"refuse">>) /\ ~Continues(<<>>) /\ ~Continues(<<"refuse">>)
  OBVIOUS
<1>2. \A t \in AskingCapture : ~Halts(t) /\ ~Continues(t)
  BY DEF AskingCapture
<1>3. \A t \in LookingCapture : ~Halts(t) /\ ~Continues(t)
  <2>1. ~Halts(<<"regs", "memory", "cpu", "unlock">>) /\ ~Continues(<<"regs", "memory", "cpu", "unlock">>)
    OBVIOUS
  <2>2. ~Halts(<<"memory", "cpu", "unlock">>) /\ ~Continues(<<"memory", "cpu", "unlock">>)
    OBVIOUS
  <2>3. ~Halts(<<"cpu", "unlock">>) /\ ~Continues(<<"cpu", "unlock">>)
    OBVIOUS
  <2>4. ~Halts(<<"unlock">>) /\ ~Continues(<<"unlock">>)
    OBVIOUS
  <2> HIDE DEF Halts, Continues
  <2> QED BY <2>1, <2>2, <2>3, <2>4 DEF LookingCapture
<1>4. ~Halts(BreakingCapture)
  OBVIOUS
<1>5. \A t \in BreakingRun : ~Halts(t) /\ ~Continues(t)
  <2>1. /\ ~Halts(<<"poke", "block", "break", "setpc">>)
        /\ ~Continues(<<"poke", "block", "break", "setpc">>)
    OBVIOUS
  <2>2. ~Halts(<<"block", "break", "setpc">>) /\ ~Continues(<<"block", "break", "setpc">>)
    OBVIOUS
  <2>3. ~Halts(<<"break", "setpc">>) /\ ~Continues(<<"break", "setpc">>)
    OBVIOUS
  <2>4. /\ ~Halts(<<"poke", "break", "setpc", "mode", "vram">>)
        /\ ~Continues(<<"poke", "break", "setpc", "mode", "vram">>)
    OBVIOUS
  <2>5. /\ ~Halts(<<"break", "setpc", "mode", "vram">>)
        /\ ~Continues(<<"break", "setpc", "mode", "vram">>)
    OBVIOUS
  <2> HIDE DEF Halts, Continues
  <2> QED BY <2>1, <2>2, <2>3, <2>4, <2>5 DEF BreakingRun
<1>6. \A t \in FinishedRun : ~Halts(t) /\ ~Continues(t)
  BY DEF FinishedRun
<1>7. \A t \in StoppedRun : ~Continues(t)
  <2>1. ~Continues(<<"setpc">>)
    OBVIOUS
  <2>2. ~Continues(<<"setpc", "mode", "vram">>)
    OBVIOUS
  <2> HIDE DEF Continues
  <2> QED BY <2>1, <2>2
<1>8. /\ \A t \in StoppedCapture \cup StoppedRun : Halts(t)
      /\ \A t \in StoppedCapture \cup {BreakingCapture} : Continues(t)
  BY DEF Halts, Continues
<1> HIDE DEF Halts, Continues, StoppedCapture, StoppedRun, BreakingCapture
<1> QED BY <1>1, <1>2, <1>3, <1>4, <1>5, <1>6, <1>7, <1>8

\* Where a sequence stands after its first step.
LEMMA CaptureTails ==
  ASSUME NEW t \in CapturePlaces, t # <<>>
  PROVE  \/ t = <<"refuse">> /\ Head(t) = "refuse" /\ Tail(t) = <<>>
         \/ t \in AskingCapture /\ Head(t) = "lock" /\ Tail(t) \in AskingCapture
         \/ t = <<"breaked", "unlock">> /\ Head(t) = "breaked" /\ Tail(t) = <<"unlock">>
         \/ /\ t \in LookingCapture /\ Head(t) \in {"regs", "memory", "cpu", "unlock"}
            /\ Tail(t) \in LookingCapture \cup {<<>>}
         \/ t = BreakingCapture /\ Head(t) = "break" /\ Tail(t) \in StoppedCapture
         \/ /\ t \in StoppedCapture /\ Head(t) \in {"regs", "memory", "cpu"}
            /\ Tail(t) \in StoppedCapture
         \/ t = <<"cont", "unlock">> /\ Head(t) = "cont" /\ Tail(t) = <<"unlock">>
<1>1. CASE t \in AskingCapture
  <2>1. t = <<"lock", "breaked", "unlock">> =>
         Head(t) = "lock" /\ Tail(t) = <<"breaked", "unlock">>
    OBVIOUS
  <2>2. t = <<"breaked", "unlock">> =>
         Head(t) = "breaked" /\ Tail(t) = <<"unlock">>
    OBVIOUS
  <2> QED BY <1>1, <2>1, <2>2 DEF AskingCapture
<1>2. CASE t \in LookingCapture
  <2>1. t = <<"regs", "memory", "cpu", "unlock">> =>
         Head(t) = "regs" /\ Tail(t) = <<"memory", "cpu", "unlock">>
    OBVIOUS
  <2>2. t = <<"memory", "cpu", "unlock">> =>
         Head(t) = "memory" /\ Tail(t) = <<"cpu", "unlock">>
    OBVIOUS
  <2>3. t = <<"cpu", "unlock">> =>
         Head(t) = "cpu" /\ Tail(t) = <<"unlock">>
    OBVIOUS
  <2>4. t = <<"unlock">> =>
         Head(t) = "unlock" /\ Tail(t) = <<>>
    OBVIOUS
  <2> QED BY <1>2, <2>1, <2>2, <2>3, <2>4 DEF LookingCapture
<1>3. CASE t = BreakingCapture
  BY <1>3 DEF BreakingCapture, StoppedCapture
<1>4. CASE t \in StoppedCapture
  <2>1. t = <<"regs", "memory", "cpu", "cont", "unlock">> =>
         Head(t) = "regs" /\ Tail(t) = <<"memory", "cpu", "cont", "unlock">>
    OBVIOUS
  <2>2. t = <<"memory", "cpu", "cont", "unlock">> =>
         Head(t) = "memory" /\ Tail(t) = <<"cpu", "cont", "unlock">>
    OBVIOUS
  <2>3. t = <<"cpu", "cont", "unlock">> =>
         Head(t) = "cpu" /\ Tail(t) = <<"cont", "unlock">>
    OBVIOUS
  <2>4. t = <<"cont", "unlock">> =>
         Head(t) = "cont" /\ Tail(t) = <<"unlock">>
    OBVIOUS
  <2> QED BY <1>4, <2>1, <2>2, <2>3, <2>4 DEF StoppedCapture
<1>5. CASE t = <<"refuse">>
  BY <1>5
<1> QED BY <1>1, <1>2, <1>3, <1>4, <1>5 DEF CapturePlaces

LEMMA RunTails ==
  ASSUME NEW t \in RunPlaces, t # <<>>
  PROVE  \/ t = <<"refuse">> /\ Head(t) = "refuse" /\ Tail(t) = <<>>
         \/ t \in BreakingRun /\ Head(t) \in {"poke", "block"} /\ Tail(t) \in BreakingRun
         \/ t \in BreakingRun /\ Head(t) = "break" /\ Tail(t) \in StoppedRun
         \/ t \in StoppedRun /\ Head(t) = "setpc" /\ Tail(t) \in FinishedRun \cup {<<>>}
         \/ /\ t \in FinishedRun /\ Head(t) \in {"mode", "vram"}
            /\ Tail(t) \in FinishedRun \cup {<<>>}
<1>1. CASE t \in BreakingRun
  <2>1. t = <<"poke", "block", "break", "setpc">> =>
         Head(t) = "poke" /\ Tail(t) = <<"block", "break", "setpc">>
    OBVIOUS
  <2>2. t = <<"block", "break", "setpc">> =>
         Head(t) = "block" /\ Tail(t) = <<"break", "setpc">>
    OBVIOUS
  <2>3. t = <<"break", "setpc">> =>
         Head(t) = "break" /\ Tail(t) = <<"setpc">>
    OBVIOUS
  <2>4. t = <<"poke", "break", "setpc", "mode", "vram">> =>
         Head(t) = "poke" /\ Tail(t) = <<"break", "setpc", "mode", "vram">>
    OBVIOUS
  <2>5. t = <<"break", "setpc", "mode", "vram">> =>
         Head(t) = "break" /\ Tail(t) = <<"setpc", "mode", "vram">>
    OBVIOUS
  <2> QED BY <1>1, <2>1, <2>2, <2>3, <2>4, <2>5 DEF BreakingRun, StoppedRun
<1>2. CASE t \in StoppedRun
  <2>1. t = <<"setpc">> =>
         Head(t) = "setpc" /\ Tail(t) = <<>>
    OBVIOUS
  <2>2. t = <<"setpc", "mode", "vram">> =>
         Head(t) = "setpc" /\ Tail(t) = <<"mode", "vram">>
    OBVIOUS
  <2> QED BY <1>2, <2>1, <2>2 DEF StoppedRun, FinishedRun
<1>3. CASE t \in FinishedRun
  <2>1. t = <<"mode", "vram">> =>
         Head(t) = "mode" /\ Tail(t) = <<"vram">>
    OBVIOUS
  <2>2. t = <<"vram">> =>
         Head(t) = "vram" /\ Tail(t) = <<>>
    OBVIOUS
  <2> QED BY <1>3, <2>1, <2>2 DEF FinishedRun
<1>4. CASE t = <<"refuse">>
  BY <1>4
<1> QED BY <1>1, <1>2, <1>3, <1>4 DEF RunPlaces

LEMMA CaptureMoved ==
  ASSUME NEW t \in CapturePlaces, t # <<>>
  PROVE  Tail(t) \in CapturePlaces /\ Moved(t)
<1>1. <<"unlock">> \in LookingCapture /\ <<"cont", "unlock">> \in StoppedCapture
  BY DEF LookingCapture, StoppedCapture
<1>2. <<"breaked", "unlock">> \in AskingCapture
  BY DEF AskingCapture
<1> QED BY <1>1, <1>2, PlacesTell, CaptureTails DEF CapturePlaces, Moved

LEMMA RunMoved ==
  ASSUME NEW t \in RunPlaces, t # <<>>
  PROVE  Tail(t) \in RunPlaces /\ Moved(t)
BY PlacesTell, RunTails DEF RunPlaces, Moved

LEMMA CalmStill ==
  ASSUME NEW t \in Seq(Calm) PROVE ~Halts(t) /\ ~Continues(t)
<1>1. "cont" \notin Calm /\ "setpc" \notin Calm /\ "break" \notin Calm
  BY DEF Calm, Debugger
<1>2. \A i \in 1 .. Len(t) : t[i] \in Calm
  OBVIOUS
<1>3. t # <<"setpc">> /\ t # <<"setpc", "mode", "vram">> /\ t # BreakingCapture
  <2>1. t = <<"setpc">> \/ t = <<"setpc", "mode", "vram">> => 1 \in 1 .. Len(t) /\ t[1] = "setpc"
    OBVIOUS
  <2>2. t = BreakingCapture => 1 \in 1 .. Len(t) /\ t[1] = "break"
    BY DEF BreakingCapture
  <2> QED BY <1>1, <1>2, <2>1, <2>2
<1>4. t # <<"cont", "unlock">>
  <2>1. t = <<"cont", "unlock">> => 1 \in 1 .. Len(t) /\ t[1] = "cont"
    OBVIOUS
  <2> QED BY <1>1, <1>2, <2>1
<1>5. t # <<"cpu", "cont", "unlock">>
  <2>1. t = <<"cpu", "cont", "unlock">> => 2 \in 1 .. Len(t) /\ t[2] = "cont"
    OBVIOUS
  <2> QED BY <1>1, <1>2, <2>1
<1>6. t # <<"memory", "cpu", "cont", "unlock">>
  <2>1. t = <<"memory", "cpu", "cont", "unlock">> => 3 \in 1 .. Len(t) /\ t[3] = "cont"
    OBVIOUS
  <2> QED BY <1>1, <1>2, <2>1
<1>7. t # <<"regs", "memory", "cpu", "cont", "unlock">>
  <2>1. t = <<"regs", "memory", "cpu", "cont", "unlock">> => 4 \in 1 .. Len(t) /\ t[4] = "cont"
    OBVIOUS
  <2> QED BY <1>1, <1>2, <2>1
<1> QED BY <1>3, <1>4, <1>5, <1>6, <1>7 DEF Halts, Continues, StoppedCapture, StoppedRun

LEMMA PlacesMove ==
  ASSUME NEW tool, NEW t \in Places(tool), t # <<>>
  PROVE  Tail(t) \in Places(tool) /\ Moved(t)
<1>1. CASE tool = "local_cpu_snapshot"
  BY <1>1, CaptureMoved DEF Places
<1>2. CASE tool # "local_cpu_snapshot" /\ tool \in MovesCpu
  BY <1>2, RunMoved DEF Places
<1>3. CASE tool # "local_cpu_snapshot" /\ tool \notin MovesCpu
  <2>1. t \in Seq(Calm)
    BY <1>3 DEF Places
  <2>2. Head(t) \in Calm /\ Tail(t) \in Seq(Calm)
    BY <2>1, TailOn
  <2>3. Head(t) \notin Debugger
    BY <2>2 DEF Calm
  <2>4. ~Halts(t) /\ ~Continues(t) /\ ~Halts(Tail(t)) /\ ~Continues(Tail(t))
    BY <2>1, <2>2, CalmStill
  <2>5. Moved(t)
    BY <2>3, <2>4 DEF Moved, Debugger
  <2> QED BY <1>3, <2>2, <2>5 DEF Places
<1> QED BY <1>1, <1>2, <1>3

\* Work that neither holds the CPU nor is going to.
LEMMA EndsStill ==
  ASSUME NEW tool
  PROVE  <<>> \in Places(tool) /\ Refuse \in Places(tool)
<1>1. <<>> \in Seq(Calm) /\ <<"refuse">> \in Seq(Calm)
  BY DEF Calm, Steps, HostSteps, Debugger
<1> QED BY <1>1 DEF Places, CapturePlaces, RunPlaces, Refuse

LEMMA CalmWords ==
  /\ {"mode", "palette", "vram", "type", "reset", "tcl", "import", "create", "diska",
      "mute", "power", "poweroff", "time", "keymatrix", "block", "poke", "regs", "memory",
      "cpu", "quit", "keybuf", "dir", "plug", "lock", "unlock"} \subseteq Calm
  /\ HostSteps \subseteq Calm
  /\ {"reap", "detach", "close", "again", "forgetLocal", "forgetBench",
      "forgetAgent", "closeAgent", "rmdir", "probe", "request", "terminal",
      "publish", "publishWindow", "accept", "publishBench", "publishAgent", "listen",
      "dial", "mkdir", "spawn", "connect", "refuse"} \subseteq Calm
BY DEF Calm, Steps, HostSteps, Debugger

LEMMA CalmParts ==
  /\ <<>> \in Seq(Calm) /\ Refuse \in Seq(Calm) /\ Detach \in Seq(Calm)
  /\ Settings \in Seq(Calm) /\ PowerOn \in Seq(Calm) /\ Advance \in Seq(Calm)
  /\ ReadScreen \in Seq(Calm) /\ Status \in Seq(Calm) /\ Screenshot \in Seq(Calm)
  /\ Block \in Seq(Calm) /\ Poke \in Seq(Calm) /\ TypeLine \in Seq(Calm)
  /\ Press \in Seq(Calm) /\ RawTcl \in Seq(Calm) /\ ImportPackage \in Seq(Calm)
  /\ TypeLines \in Seq(Calm) /\ CallAt \in Seq(Calm)
  /\ BootProgram \in Seq(Calm) /\ AttachProgram \in Seq(Calm)
<1>1. /\ <<>> \in Seq(Calm) /\ Refuse \in Seq(Calm) /\ Detach \in Seq(Calm)
      /\ Settings \in Seq(Calm) /\ PowerOn \in Seq(Calm) /\ Advance \in Seq(Calm)
      /\ ReadScreen \in Seq(Calm) /\ Status \in Seq(Calm) /\ Screenshot \in Seq(Calm)
  BY CalmWords DEF Refuse, Detach, Settings, PowerOn, Advance, ReadScreen, Status, Screenshot
<1>2. /\ Block \in Seq(Calm) /\ Poke \in Seq(Calm) /\ TypeLine \in Seq(Calm)
      /\ Press \in Seq(Calm) /\ RawTcl \in Seq(Calm) /\ ImportPackage \in Seq(Calm)
  BY CalmWords DEF Block, Poke, TypeLine, Press, RawTcl, ImportPackage
<1>3. /\ <<"spawn">> \in Seq(Calm) /\ <<"publish">> \in Seq(Calm)
      /\ <<"connect", "keybuf">> \in Seq(Calm) /\ <<"publishWindow">> \in Seq(Calm)
  BY CalmWords
<1>4. TypeLines \in Seq(Calm) /\ CallAt \in Seq(Calm)
  BY <1>1, <1>2, JoinOn DEF TypeLines, CallAt
<1>5. AttachProgram \in Seq(Calm)
  BY <1>1, <1>3, JoinOn DEF AttachProgram
<1>6. BootProgram \in Seq(Calm)
  <2>1. <<"spawn">> \o Settings \o PowerOn \o Advance \in Seq(Calm)
    BY <1>1, <1>3, JoinOn
  <2> QED BY <2>1, <1>1, <1>3, JoinOn DEF BootProgram
<1> QED BY <1>1, <1>2, <1>4, <1>5, <1>6

LEMMA LocalProgramCalm ==
  ASSUME NEW tool \in DOMAIN LocalProgram, tool \notin MovesCpu
  PROVE  LocalProgram[tool] \in Seq(Calm)
<1>1. /\ Status \in Seq(Calm) /\ ReadScreen \in Seq(Calm) /\ Screenshot \in Seq(Calm)
      /\ RawTcl \in Seq(Calm) /\ TypeLines \in Seq(Calm)
  BY CalmParts
<1>2. <<"type">> \in Seq(Calm) /\ <<"reset">> \in Seq(Calm) /\ <<"import">> \in Seq(Calm)
      /\ <<"create", "diska">> \in Seq(Calm)
  BY CalmWords
<1>3. MemoryRead \in Seq(Calm) /\ MemoryWrite \in Seq(Calm)
  BY CalmParts, JoinOn DEF MemoryRead, MemoryWrite
<1>4. /\ TypeOneLine \in Seq(Calm) /\ TypeText \in Seq(Calm)
      /\ TypeManyLines \in Seq(Calm) /\ PressKey \in Seq(Calm) /\ Reset \in Seq(Calm)
  BY <1>2, CalmParts, JoinOn DEF TypeOneLine, TypeText, TypeManyLines, PressKey, Reset
<1>5. RunBasic \in Seq(Calm)
  <2>1. TypeLine \o Advance \o TypeLines \o Advance \in Seq(Calm)
    BY CalmParts, JoinOn
  <2> QED BY <2>1, CalmParts, JoinOn DEF RunBasic
<1>6. AppCall \in Seq(Calm)
  BY CalmParts, JoinOn DEF AppCall
<1>7. DosAsmRun \in Seq(Calm) /\ DiskPutText \in Seq(Calm)
  BY <1>2, CalmParts, JoinOn DEF DosAsmRun, DiskPutText
<1> QED BY <1>1, <1>3, <1>4, <1>5, <1>6, <1>7 DEF LocalProgram, MovesCpu

LEMMA ProgramCalm ==
  ASSUME NEW tool, tool \notin MovesCpu
  PROVE  Program(tool) \in Seq(Calm)
<1>1. ASSUME NEW bad, NEW s \in Seq(Calm) PROVE Guarded(bad, s) \in Seq(Calm)
  BY <1>1, CalmParts DEF Guarded
<1>2. /\ <<"close", "forgetLocal">> \in Seq(Calm) /\ <<"request">> \in Seq(Calm)
      /\ <<"terminal">> \in Seq(Calm) /\ <<"probe">> \in Seq(Calm)
      /\ <<"closeAgent", "forgetAgent">> \in Seq(Calm)
      /\ <<"close", "forgetBench", "rmdir">> \in Seq(Calm)
      /\ <<"mkdir", "listen", "spawn">> \in Seq(Calm)
      /\ <<"plug", "accept", "publishBench">> \in Seq(Calm)
  BY CalmWords
<1>3. ListenProgram \in Seq(Calm) /\ ConnectProgram \in Seq(Calm)
  BY CalmWords DEF ListenProgram, ConnectProgram
<1>4. Disconnect \in Seq(Calm) /\ <<"terminal">> \o Detach \in Seq(Calm)
  BY <1>2, CalmParts, JoinOn DEF Disconnect
<1>5. ShutdownLocal \in Seq(Calm)
  BY <1>1, <1>2, CalmParts DEF ShutdownLocal
<1>6. ShutdownBench \in Seq(Calm) /\ BenchStatus \in Seq(Calm)
  BY <1>2, <1>4, CalmParts, JoinOn DEF ShutdownBench, BenchStatus
<1>7. ShutdownAll \in Seq(Calm)
  BY <1>4, <1>5, <1>6, JoinOn DEF ShutdownAll
<1>8. BenchProgram \in Seq(Calm)
  <2>1. <<"mkdir", "listen", "spawn">> \o Settings \o ImportPackage \o PowerOn
          \in Seq(Calm)
    BY <1>2, CalmParts, JoinOn
  <2>2. <<"mkdir", "listen", "spawn">> \o Settings \o ImportPackage \o PowerOn
          \o Advance \o TypeLines \in Seq(Calm)
    BY <2>1, CalmParts, JoinOn
  <2> QED BY <1>2, <2>2, CalmParts, JoinOn DEF BenchProgram
<1>9. CASE tool \in DOMAIN LocalProgram
  <2>1. Program(tool) = Guarded(slot.local = "none"
             \/ (slot.local = "bench" /\ tool \in NotOnBench), LocalProgram[tool])
    BY <1>9 DEF Program, LocalProgram
  <2> QED BY <1>1, <1>9, <2>1, LocalProgramCalm
<1>10. CASE tool \notin DOMAIN LocalProgram
  <2>1. \/ Program(tool) = Guarded(slot.local # "none", BootProgram)
        \/ Program(tool) = Guarded(slot.local # "none", AttachProgram)
        \/ Program(tool) = ShutdownLocal
        \/ Program(tool) = Guarded(~slot.agent, <<"request">>)
        \/ Program(tool) = Guarded(slot.agent \/ slot.bench, ListenProgram)
        \/ Program(tool) = Guarded(slot.agent \/ slot.bench, ConnectProgram)
        \/ Program(tool) = Disconnect
        \/ Program(tool) = Guarded(~slot.agent, <<"terminal">> \o Detach)
        \/ Program(tool) = Guarded(slot.local # "none" \/ slot.agent, BenchProgram)
        \/ Program(tool) = BenchStatus
        \/ Program(tool) = ShutdownBench
        \/ Program(tool) = ShutdownAll
        \/ Program(tool) = <<>>
    BY <1>10 DEF Program
  <2> QED BY <1>1, <1>2, <1>3, <1>4, <1>5, <1>6, <1>7, <1>8, <2>1, CalmParts
<1> QED BY <1>9, <1>10

\* A call begins with the CPU as it was found.
LEMMA ProgramPlaced ==
  ASSUME NEW tool
  PROVE  Program(tool) \in Places(tool) /\ ~Halts(Program(tool)) /\ ~Continues(Program(tool))
<1>1. CASE tool = "local_cpu_snapshot"
  <2>1. Program(tool) = Refuse \/ Program(tool) = CpuSnapshot
    BY <1>1 DEF Program, LocalProgram, Guarded
  <2> QED BY <1>1, <2>1, PlacesTell DEF Places, CapturePlaces, AskingCapture, CpuSnapshot, Refuse
<1>2. CASE tool \in {"local_app_run", "local_asm_load"}
  <2>1. \/ Program(tool) = Refuse \/ Program(tool) = AppRun \/ Program(tool) = AsmRun
    <3>1. LocalProgram["local_app_run"] = AppRun /\ LocalProgram["local_asm_load"] = AsmRun
      BY DEF LocalProgram
    <3>2. tool \in DOMAIN LocalProgram
      BY <1>2 DEF LocalProgram
    <3>3. Program(tool) = Guarded(slot.local = "none"
             \/ (slot.local = "bench" /\ tool \in NotOnBench), LocalProgram[tool])
      BY <3>2 DEF Program, LocalProgram
    <3> QED BY <1>2, <3>1, <3>3 DEF Guarded
  <2>2. AppRun = <<"poke", "block", "break", "setpc">>
    <3>1. <<"poke", "block", "break", "setpc">>
            = (<<"poke">> \o <<"block">>) \o <<"break", "setpc">>
      OBVIOUS
    <3> QED BY <3>1 DEF AppRun, Poke, Block, RunAt
  <2>3. AsmRun = <<"poke", "break", "setpc", "mode", "vram">>
    <3>1. <<"poke", "break", "setpc", "mode", "vram">>
            = (<<"poke">> \o <<"break", "setpc">>) \o <<"mode", "vram">>
      OBVIOUS
    <3> QED BY <3>1 DEF AsmRun, Poke, RunAt, ReadScreen
  <2>4. AppRun \in BreakingRun /\ AsmRun \in BreakingRun
    BY <2>2, <2>3 DEF BreakingRun
  <2>5. Places(tool) = RunPlaces
    BY <1>2 DEF Places, MovesCpu
  <2> QED BY <2>1, <2>4, <2>5, PlacesTell DEF RunPlaces, Refuse
<1>3. CASE tool \notin MovesCpu
  <2>1. Places(tool) = Seq(Calm)
    BY <1>3 DEF Places, MovesCpu
  <2> QED BY <1>3, <2>1, ProgramCalm, CalmStill
<1> QED BY <1>1, <1>2, <1>3 DEF MovesCpu

\* What the finally clauses of the snapshot leave to do.
LEMMA FinallyLets ==
  ASSUME NEW t \in CapturePlaces, t # <<>>
  PROVE  Finally(t) = IF t \in StoppedCapture /\ Head(t) # "cont"
                      THEN <<"cont", "unlock">> ELSE <<"unlock">>
<1>1. /\ \A s \in StoppedCapture : "cont" \in Range(s)
      /\ \A s \in LookingCapture \cup AskingCapture \cup {<<>>} : "cont" \notin Range(s)
  <2>1. /\ "cont" \in Range(<<"regs", "memory", "cpu", "cont", "unlock">>)
        /\ "cont" \in Range(<<"memory", "cpu", "cont", "unlock">>)
        /\ "cont" \in Range(<<"cpu", "cont", "unlock">>)
        /\ "cont" \in Range(<<"cont", "unlock">>)
    <3>1. ASSUME NEW s, NEW i \in DOMAIN s, s[i] = "cont" PROVE "cont" \in Range(s)
      BY <3>1 DEF Range
    <3> DEFINE a == <<"regs", "memory", "cpu", "cont", "unlock">>
               b == <<"memory", "cpu", "cont", "unlock">>
    <3>2. 4 \in DOMAIN a /\ a[4] = "cont"
      OBVIOUS
    <3>3. 3 \in DOMAIN b /\ b[3] = "cont"
      OBVIOUS
    <3>4. 2 \in DOMAIN <<"cpu", "cont", "unlock">> /\ <<"cpu", "cont", "unlock">>[2] = "cont"
      OBVIOUS
    <3>5. 1 \in DOMAIN <<"cont", "unlock">> /\ <<"cont", "unlock">>[1] = "cont"
      OBVIOUS
    <3> QED BY <3>1, <3>2, <3>3, <3>4, <3>5
  <2>2. /\ "cont" \notin Range(<<"regs", "memory", "cpu", "unlock">>)
        /\ "cont" \notin Range(<<"memory", "cpu", "unlock">>)
        /\ "cont" \notin Range(<<"cpu", "unlock">>) /\ "cont" \notin Range(<<"unlock">>)
        /\ "cont" \notin Range(<<"lock", "breaked", "unlock">>)
        /\ "cont" \notin Range(<<"breaked", "unlock">>) /\ "cont" \notin Range(<<>>)
    BY DEF Range
  <2> QED BY <2>1, <2>2 DEF StoppedCapture, LookingCapture, AskingCapture
<1>2. \/ t \in StoppedCapture /\ Head(t) # "cont" /\ Head(t) # "break" /\ "cont" \in Range(Tail(t))
      \/ ~(t \in StoppedCapture /\ Head(t) # "cont")
         /\ (Head(t) = "break" \/ "cont" \notin Range(Tail(t)))
  <2>1. <<"unlock">> \in LookingCapture /\ <<"cont", "unlock">> \in StoppedCapture
    BY DEF LookingCapture, StoppedCapture
  <2>2. t \in StoppedCapture => Halts(t)
    BY PlacesTell
  <2>3. <<"breaked", "unlock">> \in AskingCapture
    BY DEF AskingCapture
  <2> QED BY <1>1, <2>1, <2>2, <2>3, CaptureTails, PlacesTell
<1>3. <<"unlock">> = <<>> \o <<"unlock">>
  OBVIOUS
<1>4. <<"cont", "unlock">> = <<"cont">> \o <<"unlock">>
  OBVIOUS
<1> QED BY <1>2, <1>3, <1>4 DEF Finally

\* A step that failed, but for those of the debugger, leaves the CPU to stand if
\* and only if it stood.
LEMMA RecoveryPlaced ==
  ASSUME NEW tool, NEW t \in Places(tool), t # <<>>, NEW tries, NEW r,
         r = Recovery(tool, t, tries)
  PROVE  /\ r \in Places(tool)
         /\ Head(t) \notin {"break", "cont", "setpc"} =>
              (Halts(r) <=> Halts(t)) /\ (Continues(r) => Continues(t))
<1>1. CASE tool = "local_cpu_snapshot"
  <2>1. t \in CapturePlaces /\ r = Finally(t)
    BY <1>1 DEF Places, Recovery
  <2>2. <<"unlock">> \in LookingCapture /\ <<"cont", "unlock">> \in StoppedCapture
    BY DEF LookingCapture, StoppedCapture
  <2>3. r = IF t \in StoppedCapture /\ Head(t) # "cont"
            THEN <<"cont", "unlock">> ELSE <<"unlock">>
    BY <2>1, FinallyLets
  <2>4. r \in CapturePlaces
    BY <2>2, <2>3 DEF CapturePlaces
  <2>5. Head(t) \notin {"break", "cont", "setpc"} =>
              (Halts(r) <=> Halts(t)) /\ (Continues(r) => Continues(t))
    <3>1. t \in StoppedCapture \/ (~Halts(t) /\ (Continues(t) => Head(t) = "break"))
      <4>1. <<"breaked", "unlock">> \in AskingCapture
        BY DEF AskingCapture
      <4> QED BY <2>1, <2>2, <4>1, CaptureTails, PlacesTell
    <3>2. Halts(<<"cont", "unlock">>) /\ Continues(<<"cont", "unlock">>)
      BY <2>2, PlacesTell
    <3>3. ~Halts(<<"unlock">>) /\ ~Continues(<<"unlock">>)
      BY <2>2, PlacesTell
    <3>4. \A s \in StoppedCapture : Halts(s) /\ Continues(s)
      BY PlacesTell
    <3> QED BY <2>3, <3>1, <3>2, <3>3, <3>4
  <2> QED BY <1>1, <2>4, <2>5 DEF Places
<1>2. CASE tool \in {"local_app_run", "local_asm_load"}
  <2>1. Places(tool) = RunPlaces
    BY <1>2 DEF Places, MovesCpu
  <2>2. r = <<>>
    BY <1>2 DEF Recovery
  <2>3. <<>> \in RunPlaces
    BY DEF RunPlaces
  <2> QED BY <2>1, <2>2, <2>3, RunTails, PlacesTell
<1>3. CASE tool \notin MovesCpu
  <2>1. Places(tool) = Seq(Calm)
    BY <1>3 DEF Places, MovesCpu
  <2>2. r \in Seq(Calm)
    <3>1. /\ <<"close">> \in Seq(Calm) /\ <<"close", "again">> \in Seq(Calm)
          /\ <<"closeAgent">> \in Seq(Calm)
          /\ <<"closeAgent", "close", "rmdir">> \in Seq(Calm)
      BY CalmWords
    <3> DEFINE first == IF Head(t) = "accept" THEN ReadScreen
                        ELSE IF AtSettings(t) THEN <<"close">> ELSE <<>>
               undone == first \o <<"closeAgent", "close", "rmdir">>
    <3>2. first \in Seq(Calm)
      BY <3>1, CalmParts
    <3> HIDE DEF first
    <3>3. undone \in Seq(Calm)
      BY <3>1, <3>2, JoinOn
    <3> HIDE DEF undone
    <3>4. \/ r = <<"close", "again">> \/ r = <<"close">> \/ r = <<"closeAgent">>
          \/ r = undone \/ r = Detach \/ r = <<>>
      BY <1>3 DEF Recovery, MovesCpu, undone, first
    <3> QED BY <3>1, <3>3, <3>4, CalmParts
  <2> QED BY <2>1, <2>2, CalmStill
<1> QED BY <1>1, <1>2, <1>3 DEF MovesCpu

----------------------------------------------------------------------------
(* KeptInv is kept by every step.                                          *)

\* The answer of "debug breaked" decides whether the CPU is going to be stopped.
LEMMA CapturePlaced ==
  ASSUME NEW val \in BOOLEAN, NEW s, s = CaptureOf(val) \o <<"unlock">>
  PROVE  /\ val => s \in LookingCapture
         /\ ~val => s = BreakingCapture
<1>1. <<"regs", "memory", "cpu", "unlock">> = <<"regs", "memory", "cpu">> \o <<"unlock">>
  OBVIOUS
<1>2. <<"break", "regs", "memory", "cpu", "cont", "unlock">>
        = ((<<"break">> \o <<"regs", "memory", "cpu">>) \o <<"cont">>) \o <<"unlock">>
  OBVIOUS
<1> QED BY <1>1, <1>2 DEF CaptureOf, Exact, LookingCapture, BreakingCapture

LEMMA CpuHeads ==
  ASSUME NEW tool, NEW t \in Places(tool), t # <<>>
  PROVE  /\ tool \in MovesCpu => Head(t) \notin HostSteps \ {"lock", "unlock", "refuse"}
         /\ Head(t) = "breaked" => tool = "local_cpu_snapshot" /\ Tail(t) = <<"unlock">>
         /\ Halts(t) \/ Continues(t) => Channel(Head(t)) = {"local"}
<1>1. CASE tool = "local_cpu_snapshot"
  <2>1. t \in CapturePlaces
    BY <1>1 DEF Places
  <2>2. Head(t) \in {"refuse", "lock", "breaked", "regs", "memory", "cpu", "unlock", "break", "cont"}
    BY <2>1, CaptureTails
  <2>3. Head(t) = "breaked" => Tail(t) = <<"unlock">>
    BY <2>1, CaptureTails
  <2>4. Head(t) = "refuse" => ~Halts(t) /\ ~Continues(t)
    BY <2>1, CaptureTails, PlacesTell
  <2> QED BY <1>1, <2>2, <2>3, <2>4 DEF HostSteps, Channel, PairSteps, AgentSteps, DirSteps
<1>2. CASE tool \in {"local_app_run", "local_asm_load"}
  <2>1. t \in RunPlaces
    BY <1>2 DEF Places, MovesCpu
  <2>2. Head(t) \in {"refuse", "poke", "block", "break", "setpc", "mode", "vram"}
    BY <2>1, RunTails
  <2>3. Head(t) = "refuse" => ~Halts(t) /\ ~Continues(t)
    BY <2>1, RunTails, PlacesTell
  <2> QED BY <2>2, <2>3 DEF HostSteps, Channel, PairSteps, AgentSteps, DirSteps
<1>3. CASE tool \notin MovesCpu
  <2>1. t \in Seq(Calm)
    BY <1>3 DEF Places, MovesCpu
  <2>2. Head(t) \in Calm
    BY <2>1, TailOn
  <2> QED BY <1>3, <2>1, <2>2, CalmStill DEF Calm, Debugger
<1> QED BY <1>1, <1>2, <1>3 DEF MovesCpu

\* Whatever a thread does next is one of its places, and but for the steps of
\* the debugger it is one with the CPU as it is.
LEMMA EffectPlaced ==
  ASSUME NEW v, NEW w, v.todo \in Places(v.tool), v.todo # <<>>, Effect(v, w),
         w.tool = v.tool
  PROVE  /\ w.todo \in Places(v.tool)
         /\ Head(v.todo) \notin Debugger =>
              (Halts(w.todo) <=> Halts(v.todo)) /\ (Continues(w.todo) => Continues(v.todo))
<1> DEFINE t == v.todo  step == Head(v.todo)
           Kept(s) == /\ s \in Places(v.tool)
                      /\ step \notin Debugger =>
                           (Halts(s) <=> Halts(t)) /\ (Continues(s) => Continues(t))
<1>1. Kept(Tail(t)) /\ Kept(t)
  BY PlacesMove DEF Moved, Debugger
<1>2. Kept(Recovery(v.tool, t, v.tries))
  BY RecoveryPlaced DEF Debugger
<1>3. ASSUME step = "breaked", NEW val \in BOOLEAN
      PROVE  CaptureOf(val) \o Tail(t) \in Places(v.tool)
  <2>1. v.tool = "local_cpu_snapshot" /\ Tail(t) = <<"unlock">>
    BY <1>3, CpuHeads
  <2>2. CaptureOf(val) \o Tail(t) \in LookingCapture \cup {BreakingCapture}
    BY <2>1, CapturePlaced
  <2> QED BY <2>1, <2>2 DEF Places, CapturePlaces
<1>4. ASSUME step = "refuse" PROVE Kept(<<>>)
  <2>1. ~Halts(<<>>) /\ ~Continues(<<>>) /\ <<>> \in Places(v.tool)
    BY EndsStill, PlacesTell
  <2>2. ~Halts(t) /\ ~Continues(t)
    <3>1. Channel(step) # {"local"}
      BY <1>4 DEF Channel, PairSteps, AgentSteps, DirSteps
    <3> QED BY <3>1, CpuHeads
  <2> QED BY <2>1, <2>2
<1>5. ASSUME step \in {"request", "terminal", "close", "again"}
      PROVE  /\ Kept(<<>>) /\ Kept(Detach) /\ Kept(BootProgram)
             /\ Kept(<<"quit", "reap">> \o Tail(t)) /\ Kept(<<"detach">> \o Tail(t))
  <2>1. v.tool \notin MovesCpu
    BY <1>5, CpuHeads DEF HostSteps
  <2>2. Places(v.tool) = Seq(Calm)
    BY <2>1 DEF Places, MovesCpu
  <2>3. Tail(t) \in Seq(Calm)
    BY <2>2, TailOn
  <2>4. <<"quit", "reap">> \in Seq(Calm) /\ <<"detach">> \in Seq(Calm)
    BY CalmWords
  <2>5. /\ <<>> \in Seq(Calm) /\ Detach \in Seq(Calm) /\ BootProgram \in Seq(Calm)
        /\ <<"quit", "reap">> \o Tail(t) \in Seq(Calm) /\ <<"detach">> \o Tail(t) \in Seq(Calm)
    BY <2>3, <2>4, CalmParts, JoinOn
  <2>6. \A s \in Seq(Calm) : Kept(s)
    BY <2>2, CalmStill
  <2> HIDE DEF Kept
  <2> QED BY <2>5, <2>6
<1>6. CASE w.todo = Tail(t) \/ w.todo = t \/ w.todo = Recovery(v.tool, t, v.tries)
  BY <1>1, <1>2, <1>6
<1>7. CASE step \in {"refuse", "request", "terminal", "close", "again"}
  BY <1>1, <1>2, <1>4, <1>5, <1>7 DEF Effect
<1>8. CASE step = "breaked" /\ \E val \in BOOLEAN : w.todo = CaptureOf(val) \o Tail(t)
  BY <1>3, <1>8 DEF Debugger
<1> QED BY <1>6, <1>7, <1>8 DEF Effect

\* The thread that uses the channel is the only one whose work says anything of
\* the CPU, and the only one that waits.
LEMMA Aloof ==
  ASSUME ScopeInv, OwnedInv, KeptInv, NEW c \in Workers, NEW d \in Workers, c # d,
         Live(c), Channel(Step(c)) = {"local"}
  PROVE  /\ ~call[d].wait /\ Ahead(d) = call[d].todo
         /\ ~Halts(call[d].todo) /\ ~Continues(call[d].todo)
<1>1. ASSUME NEW e \in Workers, Live(e), Channel(Step(e)) = {"local"}
      PROVE  "local" \in Uses(e)
  <2>1. call[e].todo \in Seq(Steps) /\ call[e].todo # <<>>
    BY <1>1, OwnSteps, OnSteps DEF Live
  <2>2. Step(e) \in Range(call[e].todo)
    BY <2>1, TailOn DEF Step, Range
  <2> QED BY <1>1, <2>2 DEF Uses
<1>2. ~(Live(d) /\ Channel(Step(d)) = {"local"})
  BY <1>1, ScopeSeparates DEF OneWorkerPerChannel
<1>3. ~call[d].wait
  <2>1. call[d].wait => Live(d) /\ Step(d) \notin HostSteps
    BY DEF OwnedInv
  <2>2. \A s : s \notin HostSteps => Channel(s) = {"local"}
    BY DEF HostSteps, Channel, PairSteps, AgentSteps, DirSteps
  <2> QED BY <1>2, <2>1, <2>2
<1>4. ~Halts(call[d].todo) /\ ~Continues(call[d].todo)
  <2>1. call[d].todo \in Places(call[d].tool)
    BY DEF KeptInv
  <2> QED BY <1>2, <2>1, CpuHeads, PlacesTell DEF Live, Step
<1> QED BY <1>3, <1>4 DEF Ahead

\* Calls change, and none of them in what it means to the CPU.
LEMMA CallsKeep ==
  ASSUME ScopeInv, KeptInv,
         \A d \in Workers : call'[d].todo \in Places(call'[d].tool),
         \A d \in Workers :
           \/ call'[d].wait = call[d].wait /\ call'[d].todo = call[d].todo
           \/ /\ ~call[d].wait /\ ~call'[d].wait
              /\ Halts(call'[d].todo) <=> Halts(call[d].todo)
              /\ Continues(call'[d].todo) => Continues(call[d].todo),
         emu'.proc = emu.proc, emu'.sent = emu.sent, emu'.replies = emu.replies,
         emu'.broken = emu.broken, emu'.held = emu.held, emu'.trust = emu.trust
  PROVE  KeptInv'
<1> SUFFICES ASSUME (emu.trust = "good")', Alive(emu)'
             PROVE  Exchange' /\ Poised'
  BY DEF KeptInv
<1>1. Exchange /\ Poised
  BY DEF KeptInv, Alive
<1>2. \A d \in Workers :
        call[d].wait => /\ call'[d].wait /\ call'[d].todo = call[d].todo
                        /\ Step(d)' = Step(d)
  BY DEF Step
<1>3. \A d \in Workers :
        /\ Halts(Ahead(d))' <=> Halts(Ahead(d))
        /\ Continues(Ahead(d))' => Continues(Ahead(d))
  BY DEF Ahead, Halts, Continues
<1>4. \A d \in Workers : /\ Asked(d) => Asked(d)'
                         /\ \A val \in BOOLEAN : Told(d, val) => Told(d, val)'
  BY <1>2 DEF Asked, Told
<1>5. Quiet => Quiet'
  BY DEF Quiet
<1>6. Exchange'
  BY <1>1, <1>4, <1>5 DEF Exchange
<1>7. Poised'
  BY <1>1, <1>3 DEF Poised
<1> QED BY <1>6, <1>7

\* Nothing is said of a CPU that is gone, or after a reply was late.
LEMMA UnknownKeeps ==
  ASSUME ScopeInv, OwnedInv, KeptInv, NEW c \in Workers, NEW w, Live(c), Moves(c, w),
         ~((emu.trust = "good")' /\ Alive(emu)')
  PROVE  KeptInv'
<1>1. \A d \in Workers : call[d].todo \in Places(call[d].tool)
  BY DEF KeptInv
<1>2. w.todo \in Places(w.tool)
  BY <1>1, EffectPlaced DEF Moves, Live
<1>3. \A d \in Workers : call'[d].todo \in Places(call'[d].tool)
  BY <1>1, <1>2 DEF Moves, ScopeInv
<1> QED BY <1>3 DEF KeptInv

\* A step that the host does by itself, on a channel that stays as it is.
LEMMA HostKeeps ==
  ASSUME ScopeInv, OwnedInv, KeptInv, NEW c \in Workers, NEW w, Live(c), Moves(c, w),
         Step(c) \notin Debugger, ~call[c].wait, ~w.wait,
         emu'.proc = emu.proc, emu'.sent = emu.sent, emu'.replies = emu.replies,
         emu'.broken = emu.broken, emu'.held = emu.held, emu'.trust = emu.trust
  PROVE  KeptInv'
<1>1. \A d \in Workers : call[d].todo \in Places(call[d].tool)
  BY DEF KeptInv
<1>2. /\ w.todo \in Places(w.tool)
      /\ (Halts(w.todo) <=> Halts(call[c].todo))
      /\ (Continues(w.todo) => Continues(call[c].todo))
  BY <1>1, EffectPlaced DEF Moves, Live, Step
<1>3. call'[c] = w /\ \A d \in Workers \ {c} : call'[d] = call[d]
  BY DEF Moves, ScopeInv
<1>4. \A d \in Workers : call'[d].todo \in Places(call'[d].tool)
  BY <1>1, <1>2, <1>3
<1>5. \A d \in Workers :
           \/ call'[d].wait = call[d].wait /\ call'[d].todo = call[d].todo
           \/ /\ ~call[d].wait /\ ~call'[d].wait
              /\ Halts(call'[d].todo) <=> Halts(call[d].todo)
              /\ Continues(call'[d].todo) => Continues(call[d].todo)
  BY <1>2, <1>3
<1> QED BY <1>4, <1>5, CallsKeep

\* A fresh channel: nobody else was using the one it replaces.
LEMMA FreshKeeps ==
  ASSUME ScopeInv, OwnedInv, KeptInv, NEW c \in Workers, NEW w, Live(c), Moves(c, w),
         Step(c) \in {"spawn", "connect"}, ~w.wait,
         emu'.sent = <<>>, emu'.replies = <<>>, emu'.broken = emu'.held
  PROVE  KeptInv'
<1>1. \A d \in Workers : call[d].todo \in Places(call[d].tool)
  BY DEF KeptInv
<1>2. call[c].tool \notin MovesCpu
  BY <1>1, CpuHeads DEF Live, Step, HostSteps
<1>3. w.tool = call[c].tool
  BY DEF Moves
<1>4. w.todo \in Places(w.tool)
  BY <1>1, <1>3, EffectPlaced DEF Moves, Live
<1>5. w.todo \in Seq(Calm)
  BY <1>2, <1>3, <1>4 DEF Places, MovesCpu
<1>6. call'[c] = w /\ \A d \in Workers \ {c} : call'[d] = call[d]
  BY DEF Moves, ScopeInv
<1>7. Channel(Step(c)) = {"local"}
  BY DEF Channel, PairSteps, AgentSteps, DirSteps
<1>8. \A d \in Workers :
        ~call'[d].wait /\ ~Halts(call'[d].todo) /\ ~Continues(call'[d].todo)
  BY <1>5, <1>6, <1>7, CalmStill, Aloof
<1>9. Quiet' /\ Poised'
  <2>1. \A d \in Workers : ~Halts(Ahead(d))' /\ ~Continues(Ahead(d))'
    BY <1>8 DEF Ahead, Halts, Continues
  <2>2. emu'.held \in BOOLEAN
    BY DEF Moves, Emulators
  <2> QED BY <1>8, <2>1, <2>2 DEF Quiet, Poised
<1>10. \A d \in Workers : call'[d].todo \in Places(call'[d].tool)
  BY <1>1, <1>4, <1>6
<1> QED BY <1>9, <1>10 DEF KeptInv, Exchange

\* What the operations of the channel leave alone.
LEMMA ChannelFields ==
  ASSUME emu \in Emulators, NEW c, NEW cmd, NEW keep
  PROVE  /\ Written(emu, c, cmd).proc = emu.proc /\ Written(emu, c, cmd).replies = emu.replies
         /\ Written(emu, c, cmd).sent = Append(emu.sent, [cmd |-> cmd, own |-> TRUE])
         /\ Written(emu, c, cmd).broken = emu.broken /\ Written(emu, c, cmd).held = emu.held
         /\ Written(emu, c, cmd).trust = emu.trust
         /\ TimedOut(emu, keep).trust # "good"
         /\ Unanswered(emu, keep).proc = emu.proc
         /\ Answered(emu, keep).proc = emu.proc /\ Answered(emu, keep).sent = emu.sent
         /\ Answered(emu, keep).replies = Tail(emu.replies)
         /\ Answered(emu, keep).broken = emu.broken /\ Answered(emu, keep).held = emu.held
         /\ Answered(emu, keep).trust = IF Head(emu.replies).own THEN emu.trust ELSE "wrong"
         /\ \A e \in {Locked(emu, c), Unlocked(emu)} :
              /\ e.proc = emu.proc /\ e.sent = emu.sent /\ e.replies = emu.replies
              /\ e.broken = emu.broken /\ e.held = emu.held /\ e.trust = emu.trust
<1>1. /\ TimedOut(emu, keep).trust = IF emu.trust = "wrong" THEN emu.trust ELSE "late"
  BY DEF TimedOut, Emulators
<1> QED BY <1>1 DEF Written, Unanswered, Answered, Locked, Unlocked, Emulators

LEMMA ServedFields ==
  ASSUME emu \in Emulators
  PROVE  LET cmd == Head(emu.sent).cmd IN
         /\ Served(emu).sent = Tail(emu.sent) /\ Served(emu).trust = emu.trust
         /\ Served(emu).replies
              = Append(emu.replies, [own |-> Head(emu.sent).own, val |-> emu.broken])
         /\ Served(emu).broken = ((emu.broken \/ cmd = "break") /\ cmd \notin Continuing)
         /\ Served(emu).held = (emu.held /\ cmd # "setpc")
         /\ Served(emu).proc = IF cmd = "quit" THEN "exited" ELSE emu.proc
BY DEF Served, Emulators

LEMMA HostKept ==
  ASSUME ScopeInv, OwnedInv, KeptInv, NEW c \in Workers,
         \/ Spawn(c) \/ Connect(c) \/ Publish(c) \/ Close(c) \/ Reap(c)
         \/ Monitor(c) \/ Again(c) \/ RefuseCall(c) \/ Listen(c) \/ Accept(c)
         \/ PublishAgent(c) \/ CloseAgent(c) \/ Directory(c) \/ Pair(c) \/ Request(c)
  PROVE  KeptInv'
<1>1. Live(c) /\ ~call[c].wait /\ Step(c) \in HostSteps
  BY DEF Spawn, Connect, Publish, Close, Reap, Monitor, Again, RefuseCall, Listen, Accept,
     PublishAgent, CloseAgent, Directory, Pair, Request, Does, HostSteps
<1>2. PICK w : Moves(c, w)
  BY <1>1, HostMoves
<1>3. call' = [call EXCEPT ![c] = w] /\ call'[c] = w
  BY <1>2 DEF Moves, ScopeInv
<1>4. call[c] \in CallRecords /\ emu \in Emulators
  BY DEF ScopeInv, OwnedInv, OwnedTypes
<1>5. ~w.wait
  <2>1. CASE Goes(c) \/ Fails(c)
    BY <1>3, <1>4, <2>1, RecordChanges DEF Goes, Fails, ScopeInv
  <2>2. ASSUME NEW s, call' = [call EXCEPT ![c].todo = s] PROVE ~w.wait
    BY <1>1, <1>3, <1>4, <2>2 DEF ScopeInv, CallRecords
  <2>3. CASE Close(c) \/ RefuseCall(c)
    BY <2>2, <2>3 DEF Close, RefuseCall
  <2>4. CASE Again(c)
    <3> DEFINE n == call[c].tries - 1
               u == [call[c] EXCEPT !.todo = BootProgram, !.tries = n]
    <3>1. call' = [call EXCEPT ![c] = u]
      BY <2>4 DEF Again, ScopeInv, CallRecords
    <3>2. u.wait = call[c].wait
      BY <1>4 DEF CallRecords
    <3> HIDE DEF u
    <3> QED BY <1>1, <1>3, <3>1, <3>2 DEF ScopeInv
  <2>5. CASE Request(c)
    BY <2>1, <2>2, <2>5 DEF Request
  <2>6. CASE \/ Spawn(c) \/ Connect(c) \/ Publish(c) \/ Reap(c) \/ Monitor(c)
             \/ Listen(c) \/ Accept(c) \/ PublishAgent(c) \/ CloseAgent(c)
             \/ Directory(c) \/ Pair(c)
    BY <2>1, <2>6 DEF Spawn, Connect, Publish, Reap, Monitor, Listen, Accept,
       PublishAgent, CloseAgent, Directory, Pair
  <2> QED BY <2>3, <2>4, <2>5, <2>6
<1>6. Step(c) \notin Debugger
  BY <1>1 DEF HostSteps, Debugger
<1>7. CASE Spawn(c)
  <2>1. CASE emu' = Spawned
    BY <1>1, <1>2, <1>5, <1>7, <2>1, FreshKeeps DEF Spawn, Does, Spawned, NoEmulator
  <2>2. CASE emu' = Unspawned
    BY <1>1, <1>2, <2>2, UnknownKeeps DEF Unspawned, NoEmulator, Alive
  <2> QED BY <1>7, <2>1, <2>2 DEF Spawn
<1>8. CASE Connect(c)
  <2>1. CASE \E stands \in BOOLEAN : emu' = Attached(stands)
    BY <1>1, <1>2, <1>5, <1>8, <2>1, FreshKeeps DEF Connect, Does, Attached, NoEmulator
  <2>2. CASE emu' = emu
    BY <1>1, <1>2, <1>5, <1>6, <2>2, HostKeeps
  <2> QED BY <1>8, <2>1, <2>2 DEF Connect
<1>9. CASE Reap(c)
  BY <1>1, <1>2, <1>9, UnknownKeeps DEF Reap, Reaped, NoEmulator, Alive
<1>10. CASE Monitor(c)
  <2>1. /\ emu'.proc = emu.proc /\ emu'.sent = emu.sent /\ emu'.replies = emu.replies
        /\ emu'.broken = emu.broken /\ emu'.held = emu.held /\ emu'.trust = emu.trust
    <3>1. emu' \in {Locked(emu, c), Unlocked(emu)}
      BY <1>10 DEF Monitor
    <3> QED BY <1>4, <3>1, ChannelFields
  <2> QED BY <1>1, <1>2, <1>5, <1>6, <2>1, HostKeeps
<1>11. CASE ~Spawn(c) /\ ~Connect(c) /\ ~Reap(c) /\ ~Monitor(c)
  <2>1. emu' = emu
    BY <1>11 DEF Publish, Close, Again, RefuseCall, Listen, Accept, PublishAgent,
       CloseAgent, Directory, Pair, Request
  <2> QED BY <1>1, <1>2, <1>5, <1>6, <2>1, HostKeeps
<1> QED BY <1>7, <1>8, <1>9, <1>10, <1>11

LEMMA WriteKept ==
  ASSUME ScopeInv, OwnedInv, KeptInv, NEW c \in Workers, WriteCommand(c)
  PROVE  KeptInv'
<1>1. /\ Live(c) /\ ~call[c].wait /\ Step(c) \notin HostSteps
      /\ emu' = Written(emu, c, Step(c)) /\ emu \in Emulators
  BY DEF WriteCommand, Sends, OwnedInv, OwnedTypes
<1>2. PICK w : Moves(c, w)
  BY <1>1, TalkMoves
<1>3. w.wait /\ w.todo = call[c].todo
  BY <1>2 DEF WriteCommand, Moves, ScopeInv, CallRecords
<1>4. call'[c] = w /\ \A d \in Workers \ {c} : call'[d] = call[d]
  BY <1>2 DEF Moves, ScopeInv
<1>5. CASE ~((emu.trust = "good")' /\ Alive(emu)')
  BY <1>1, <1>2, <1>5, UnknownKeeps
<1>6. CASE (emu.trust = "good")' /\ Alive(emu)'
  <2>1. Exchange /\ Poised
    <3>1. emu'.trust = emu.trust /\ emu'.proc = emu.proc
      BY <1>1, ChannelFields
    <3>2. emu.trust = "good" /\ Alive(emu)
      BY <1>6, <3>1 DEF Alive
    <3> QED BY <3>2 DEF KeptInv
  <2>2. Channel(Step(c)) = {"local"}
    BY <1>1 DEF Channel, HostSteps, PairSteps, AgentSteps, DirSteps
  <2>3. \A d \in Workers : ~call[d].wait
    BY <1>1, <2>2, Aloof
  <2>4. emu.sent = <<>> /\ emu.replies = <<>>
    BY <2>1, <2>3 DEF Exchange, Quiet, Asked, Told
  <2>5. /\ emu'.replies = <<>> /\ emu'.broken = emu.broken /\ emu'.held = emu.held
        /\ emu'.sent = <<[cmd |-> Step(c), own |-> TRUE]>>
    BY <1>1, <2>4, ChannelFields
  <2>6. Asked(c)'
    BY <1>3, <1>4, <2>5 DEF Asked, Step
  <2>7. \A d \in Workers :
          /\ Halts(Ahead(d))' <=> Halts(Ahead(d))
          /\ Continues(Ahead(d))' <=> Continues(Ahead(d))
    BY <1>3, <1>4, <2>4, <2>5 DEF Ahead, Halts, Continues
  <2>8. Poised'
    BY <2>1, <2>5, <2>7 DEF Poised
  <2>9. \A d \in Workers : call'[d].todo \in Places(call'[d].tool)
    BY <1>2, <1>3, <1>4 DEF Moves, KeptInv
  <2> QED BY <2>6, <2>8, <2>9 DEF KeptInv, Exchange
<1> QED BY <1>5, <1>6

\* The reply a thread waits for has come: nothing is under way any more.
LEMMA ToldSteps ==
  ASSUME ScopeInv, OwnedInv, KeptInv, NEW c \in Workers, Live(c), call[c].wait,
         emu.replies # <<>>, emu.trust = "good", Alive(emu)
  PROVE  /\ Channel(Step(c)) = {"local"} /\ Poised
         /\ \E val \in BOOLEAN : Told(c, val)
         /\ Head(emu.replies).own /\ Tail(emu.replies) = <<>>
         /\ Step(c) = "breaked" => Head(emu.replies).val = emu.held
         /\ \A d \in Workers \ {c} :
              ~call[d].wait /\ ~Halts(Ahead(d)) /\ ~Continues(Ahead(d))
<1>1. Exchange /\ Poised
  BY DEF KeptInv
<1>2. Channel(Step(c)) = {"local"}
  BY DEF OwnedInv, Channel, HostSteps, PairSteps, AgentSteps, DirSteps
<1>3. \A d \in Workers \ {c} : ~call[d].wait /\ ~Halts(Ahead(d)) /\ ~Continues(Ahead(d))
  BY <1>2, Aloof
<1>4. PICK val \in BOOLEAN : Told(c, val)
  BY <1>1, <1>3 DEF Exchange, Quiet, Asked, Told
<1>5. emu.replies = <<[own |-> TRUE, val |-> val]>>
  BY <1>4 DEF Told
<1>6. Head(emu.replies) = [own |-> TRUE, val |-> val] /\ Tail(emu.replies) = <<>>
  BY <1>5
<1>7. Head(emu.replies).own /\ Head(emu.replies).val = val
  BY <1>6
<1>8. Step(c) = "breaked" => Head(emu.replies).val = emu.held
  BY <1>4, <1>7 DEF Told
<1> QED BY <1>1, <1>2, <1>3, <1>4, <1>6, <1>7, <1>8

\* A thread took its reply and goes on; the emulator is where it was.
LEMMA TakesKeep ==
  ASSUME ScopeInv, OwnedInv, KeptInv, NEW c \in Workers, NEW w, Live(c), call[c].wait,
         emu.replies # <<>>, emu.trust = "good", Alive(emu),
         Moves(c, w), ~w.wait, NEW keep, emu' = Answered(emu, keep),
         Halts(w.todo) <=> Halts(Ahead(c)),
         Continues(w.todo) => Continues(Ahead(c)) \/ ~emu.held
  PROVE  KeptInv'
<1>1. /\ Poised /\ Head(emu.replies).own /\ Tail(emu.replies) = <<>>
      /\ \A d \in Workers \ {c} : ~call[d].wait /\ ~Halts(Ahead(d)) /\ ~Continues(Ahead(d))
  BY ToldSteps
<1>2. emu.sent = <<>>
  BY ToldSteps DEF Told
<1>3. emu \in Emulators
  BY DEF OwnedInv, OwnedTypes
<1>4. /\ emu'.sent = <<>> /\ emu'.replies = <<>> /\ emu'.broken = emu.broken
      /\ emu'.held = emu.held
  BY <1>1, <1>2, <1>3, ChannelFields
<1>5. call'[c] = w /\ \A d \in Workers \ {c} : call'[d] = call[d]
  BY DEF Moves, ScopeInv
<1>6. \A d \in Workers : ~call'[d].wait
  BY <1>1, <1>5
<1>7. \A d \in Workers \ {c} : Ahead(d) = call[d].todo
  BY <1>1 DEF Ahead
<1>8. \A d \in Workers :
          /\ Halts(Ahead(d))' <=> Halts(Ahead(d))
          /\ Continues(Ahead(d))' => Continues(Ahead(d)) \/ ~emu.held
  <2>1. \A d \in Workers : Ahead(d)' = call'[d].todo
    BY <1>6 DEF Ahead
  <2>2. \A d \in Workers :
          /\ Halts(Ahead(d))' <=> Halts(call'[d].todo)
          /\ Continues(Ahead(d))' <=> Continues(call'[d].todo)
    BY <2>1 DEF Halts, Continues
  <2> QED BY <1>5, <1>7, <2>2
<1>9. Quiet' /\ Poised'
  BY <1>1, <1>4, <1>6, <1>8 DEF Quiet, Poised
<1>10. \A d \in Workers : call[d].todo \in Places(call[d].tool)
  BY DEF KeptInv
<1>11. w.todo \in Places(w.tool)
  BY <1>10, EffectPlaced DEF Moves, Live
<1>12. \A d \in Workers : call'[d].todo \in Places(call'[d].tool)
  BY <1>5, <1>10, <1>11
<1> QED BY <1>9, <1>12 DEF KeptInv, Exchange

LEMMA AnswerKept ==
  ASSUME ScopeInv, OwnedInv, KeptInv, NEW c \in Workers, Answer(c) \/ Rejected(c)
  PROVE  KeptInv'
<1>1. /\ Live(c) /\ call[c].wait /\ emu.replies # <<>>
      /\ emu' = Answered(emu, Keeps(c)) /\ emu \in Emulators
  BY DEF Answer, Rejected, OwnedInv, OwnedTypes
<1>2. PICK w : Moves(c, w)
  BY <1>1, TalkMoves
<1>3. call' = [call EXCEPT ![c] = w] /\ call'[c] = w /\ call[c] \in CallRecords
  BY <1>2 DEF Moves, ScopeInv
<1>4. CASE ~(emu.trust = "good" /\ Alive(emu))
  <2>1. ~((emu.trust = "good")' /\ Alive(emu)')
    BY <1>1, <1>4, ChannelFields DEF Alive
  <2> QED BY <1>1, <1>2, <2>1, UnknownKeeps
<1>5. CASE emu.trust = "good" /\ Alive(emu)
  <2> DEFINE t == call[c].todo
  <2>1. /\ Head(emu.replies).own /\ Poised
        /\ Step(c) = "breaked" => Head(emu.replies).val = emu.held
        /\ \A d \in Workers \ {c} : ~Halts(Ahead(d))
    BY <1>1, <1>5, ToldSteps
  <2>2. t \in Places(call[c].tool) /\ t # <<>> /\ Ahead(c) = Tail(t)
    BY <1>1 DEF KeptInv, Live, Ahead
  <2>3. Moved(t)
    BY <2>2, PlacesMove
  <2>4. CASE Rejected(c)
    <3>1. w = Failed(call[c]) /\ Step(c) \notin Debugger
      BY <1>3, <2>4 DEF Rejected, Fails, ScopeInv, Debugger
    <3>2. ~w.wait
      BY <1>3, <3>1, RecordChanges
    <3>3. /\ Halts(w.todo) <=> Halts(t)
          /\ Continues(w.todo) => Continues(t)
      BY <1>2, <2>2, <3>1, EffectPlaced DEF Moves, Step
    <3>4. Halts(w.todo) <=> Halts(Ahead(c))
      BY <2>2, <2>3, <3>1, <3>3 DEF Moved, Step, Debugger
    <3>5. Continues(w.todo) => Continues(Ahead(c))
      BY <2>2, <2>3, <3>1, <3>3 DEF Moved, Step, Debugger
    <3> QED BY <1>1, <1>2, <1>5, <3>2, <3>4, <3>5, TakesKeep
  <2>5. CASE Answer(c) /\ Step(c) # "breaked"
    <3>1. w = Passed(call[c])
      BY <1>3, <2>1, <2>5 DEF Answer, Resumed, Step, ScopeInv
    <3>2. ~w.wait /\ w.todo = Ahead(c)
      BY <1>3, <2>2, <3>1, RecordChanges
    <3> QED BY <1>1, <1>2, <1>5, <3>2, TakesKeep
  <2>6. CASE Answer(c) /\ Step(c) = "breaked"
    <3> DEFINE val == emu.held
    <3>1. val \in BOOLEAN /\ emu.broken \in BOOLEAN
      BY <1>1 DEF Emulators
    <3>2. w = Resumed(call[c], val)
      BY <1>3, <2>1, <2>6 DEF Answer, ScopeInv
    <3>3. Tail(t) = <<"unlock">> /\ call[c].tool = "local_cpu_snapshot"
      BY <2>2, <2>6, CpuHeads DEF Step
    <3>4. ~w.wait /\ w.todo = CaptureOf(val) \o <<"unlock">>
      BY <1>3, <2>6, <3>2, <3>3 DEF Resumed, Passed, Step, CallRecords
    <3>5. /\ val => w.todo \in LookingCapture
          /\ ~val => w.todo = BreakingCapture
      BY <3>1, <3>4, CapturePlaced
    <3>6. ~Halts(w.todo) /\ (Continues(w.todo) => ~emu.held)
      BY <3>1, <3>5, PlacesTell
    <3>7. ~Halts(Ahead(c))
      BY <2>2, <3>3, PlacesTell DEF LookingCapture
    <3> QED BY <1>1, <1>2, <1>5, <3>4, <3>6, <3>7, TakesKeep
  <2> QED BY <2>4, <2>5, <2>6
<1> QED BY <1>4, <1>5

LEMMA GoneKept ==
  ASSUME ScopeInv, OwnedInv, KeptInv, NEW c \in Workers,
         WriteFails(c) \/ TimesOut(c) \/ TimesOutSlow(c) \/ GoneWhileWaiting(c)
  PROVE  KeptInv'
<1>1. Live(c) /\ emu \in Emulators
  BY DEF WriteFails, TimesOut, TimesOutSlow, Late, GoneWhileWaiting, Sends, OwnedInv, OwnedTypes
<1>2. PICK w : Moves(c, w)
  BY <1>1, TalkMoves
<1>3. ~((emu.trust = "good")' /\ Alive(emu)')
  <2>1. CASE TimesOut(c) \/ TimesOutSlow(c)
    BY <1>1, <2>1, ChannelFields DEF TimesOut, TimesOutSlow, Late
  <2>2. CASE WriteFails(c) \/ GoneWhileWaiting(c)
    BY <1>1, <2>2, ChannelFields DEF WriteFails, GoneWhileWaiting, Gone, Alive
  <2> QED BY <2>1, <2>2
<1> QED BY <1>1, <1>2, <1>3, UnknownKeeps

\* The emulator runs the command that a thread waits for.
LEMMA ServeKept ==
  ASSUME ScopeInv, OwnedInv, KeptInv, Serve PROVE KeptInv'
<1>1. /\ emu.sent # <<>> /\ emu' = Served(emu) /\ call' = call /\ emu \in Emulators
      /\ emu.proc \in {"running", "window"}
  BY DEF Serve, OwnedInv, OwnedTypes
<1>2. \A d \in Workers : call'[d].todo \in Places(call'[d].tool)
  BY <1>1 DEF KeptInv
<1>3. CASE ~((emu.trust = "good")' /\ Alive(emu)')
  BY <1>2, <1>3 DEF KeptInv
<1>4. CASE (emu.trust = "good")' /\ Alive(emu)'
  <2>1. Exchange /\ Poised
    BY <1>1, <1>4, ServedFields DEF KeptInv, Alive
  <2>2. PICK c \in Workers : Asked(c)
    BY <1>1, <2>1 DEF Exchange, Quiet, Told
  <2> DEFINE t == call[c].todo
             step == Step(c)
  <2>3. /\ Live(c) /\ call[c].wait /\ emu.replies = <<>>
        /\ emu.sent = <<[cmd |-> step, own |-> TRUE]>>
        /\ Channel(step) = {"local"}
    BY <2>2 DEF Asked, OwnedInv, Channel, HostSteps, PairSteps, AgentSteps, DirSteps
  <2>4. Head(emu.sent) = [cmd |-> step, own |-> TRUE] /\ Tail(emu.sent) = <<>>
    BY <2>3
  <2>5. Head(emu.sent).cmd = step /\ Head(emu.sent).own
    BY <2>4
  <2>6. /\ emu'.sent = <<>>
        /\ emu'.replies = <<[own |-> TRUE, val |-> emu.broken]>>
        /\ emu'.broken = ((emu.broken \/ step = "break") /\ step \notin Continuing)
        /\ emu'.held = (emu.held /\ step # "setpc")
    <3>1. Append(emu.replies, [own |-> TRUE, val |-> emu.broken])
            = <<[own |-> TRUE, val |-> emu.broken]>>
      BY <2>3
    <3>2. Head(emu.sent).own = TRUE
      BY <2>4
    <3> QED BY <1>1, <2>4, <2>5, <3>1, <3>2, ServedFields
  <2>7. \A d \in Workers \ {c} :
          ~call[d].wait /\ ~Halts(call[d].todo) /\ ~Continues(call[d].todo)
    BY <2>3, Aloof
  <2>8. t \in Places(call[c].tool) /\ t # <<>> /\ Moved(t) /\ step = Head(t)
    BY <2>3, PlacesMove DEF KeptInv, Live, Step
  <2>9. \A d \in Workers : Ahead(d) = call[d].todo
    BY <2>3 DEF Ahead
  <2>10. Ahead(c)' = Tail(t) /\ \A d \in Workers \ {c} : Ahead(d)' = call[d].todo
    BY <1>1, <2>3, <2>6, <2>7 DEF Ahead
  <2>11. /\ Halts(Ahead(c))' <=> Halts(Tail(t))
         /\ Continues(Ahead(c))' <=> Continues(Tail(t))
         /\ \A d \in Workers \ {c} : ~Halts(Ahead(d))' /\ ~Continues(Ahead(d))'
    BY <2>7, <2>10 DEF Halts, Continues
  <2>12. emu.broken \in BOOLEAN /\ emu.held \in BOOLEAN
    BY <1>1 DEF Emulators
  <2>13. /\ emu.broken = (emu.held \/ Halts(t))
         /\ Continues(t) => ~emu.held
    BY <2>1, <2>7, <2>9 DEF Poised
  <2>14. ASSUME NEW val, val = emu.broken PROVE Told(c, val)'
    <3>1. step = "breaked" => ~Halts(t)
      <4>1. <<"breaked", "unlock">> \in AskingCapture
        BY DEF AskingCapture
      <4> QED BY <2>8, <4>1, PlacesTell DEF Moved
    <3>2. step = "breaked" => emu'.held = emu.held
      BY <2>6, <2>12
    <3>3. Step(c)' = step /\ call'[c].wait
      BY <1>1, <2>3 DEF Step
    <3>4. step = "breaked" => val = emu'.held
      BY <2>12, <2>13, <2>14, <3>1, <3>2
    <3> QED BY <2>6, <2>14, <3>3, <3>4 DEF Told
  <2>15. emu'.broken = (emu'.held \/ Halts(Tail(t))) /\ (Continues(Tail(t)) => ~emu'.held)
    <3>1. CASE step = "break"
      BY <2>6, <2>8, <2>12, <2>13, <3>1 DEF Moved, Continuing
    <3>2. CASE step = "cont"
      BY <2>6, <2>8, <2>12, <2>13, <3>2 DEF Moved, Continuing
    <3>3. CASE step = "setpc"
      BY <2>6, <2>8, <2>12, <2>13, <3>3 DEF Moved, Continuing
    <3>4. CASE step \notin {"break", "cont", "setpc"}
      BY <2>6, <2>8, <2>12, <2>13, <3>4 DEF Moved, Continuing
    <3> QED BY <3>1, <3>2, <3>3, <3>4
  <2>16. Poised'
    BY <2>11, <2>15 DEF Poised
  <2> QED BY <1>2, <2>12, <2>14, <2>16 DEF KeptInv, Exchange
<1> QED BY <1>3, <1>4

\* Calls that come, wait, begin, end and are cancelled.
LEMMA CallsKept ==
  ASSUME ScopeInv, OwnedInv, KeptInv,
         \/ \E c \in Workers : Acquire(c) \/ Start(c) \/ Finish(c)
         \/ \E c \in Calls : Arrive(c) \/ CancelWaiting(c) \/ CancelWorking(c)
         \/ StopServing
  PROVE  KeptInv'
<1> DEFINE Stays(d) ==
             \/ /\ call'[d].tool = call[d].tool
                /\ call'[d].wait = call[d].wait /\ call'[d].todo = call[d].todo
             \/ /\ call[d].todo = <<>> /\ ~call'[d].wait
                /\ call'[d].todo \in Places(call'[d].tool)
                /\ ~Halts(call'[d].todo) /\ ~Continues(call'[d].todo)
<1>1. emu' = emu
  BY DEF Acquire, Start, Finish, Arrive, CancelWaiting, CancelWorking, StopServing
<1>2. \A d \in Workers : /\ call[d] \in CallRecords
                         /\ call[d].todo = <<>> => ~call[d].wait
                         /\ call[d].st # "working" => call[d].todo = <<>>
  BY DEF ScopeInv, Holds, OwnedInv, Live
<1>3. /\ Ended.todo = <<>> /\ ~Ended.wait
      /\ \A tool : Queued(tool).todo = <<>> /\ ~Queued(tool).wait
  BY DEF Ended, Queued, Idle
<1>4. \A tool : <<>> \in Places(tool) /\ ~Halts(<<>>) /\ ~Continues(<<>>)
  BY EndsStill, PlacesTell
<1>5. ASSUME NEW c \in Workers, NEW w, call' = [call EXCEPT ![c] = w],
             \/ w.tool = call[c].tool /\ w.wait = call[c].wait /\ w.todo = call[c].todo
             \/ /\ call[c].todo = <<>> /\ ~w.wait /\ w.todo \in Places(w.tool)
                /\ ~Halts(w.todo) /\ ~Continues(w.todo)
      PROVE  \A d \in Workers : Stays(d)
  <2>1. call'[c] = w /\ \A d \in Workers \ {c} : call'[d] = call[d]
    BY <1>5 DEF ScopeInv
  <2> QED BY <1>5, <2>1
<1>6. ASSUME NEW c \in Workers, Acquire(c) PROVE \A d \in Workers : Stays(d)
  <2> DEFINE w == [call[c] EXCEPT !.need = Tail(call[c].need)]
  <2>1. call' = [call EXCEPT ![c] = w]
    BY <1>6 DEF Acquire, ScopeInv, CallRecords
  <2>2. w.tool = call[c].tool /\ w.todo = call[c].todo /\ w.wait = call[c].wait
    BY <1>2 DEF CallRecords
  <2> HIDE DEF w, Stays
  <2> QED BY <1>5, <2>1, <2>2
<1>7. ASSUME NEW c \in Workers, CancelWorking(c) PROVE \A d \in Workers : Stays(d)
  <2> DEFINE w == [call[c] EXCEPT !.cancelled = TRUE]
  <2>1. call' = [call EXCEPT ![c] = w]
    BY <1>7 DEF CancelWorking
  <2>2. w.tool = call[c].tool /\ w.todo = call[c].todo /\ w.wait = call[c].wait
    BY <1>2 DEF CallRecords
  <2> HIDE DEF w, Stays
  <2> QED BY <1>5, <2>1, <2>2
<1>8. ASSUME NEW c \in Workers, Start(c) PROVE \A d \in Workers : Stays(d)
  <2> DEFINE n == IF call[c].tool = "local_boot_auto" THEN 1 ELSE 0
             p == Program(call[c].tool)
             w == [call[c] EXCEPT !.st = "working", !.todo = p, !.tries = n]
  <2>1. call' = [call EXCEPT ![c] = w] /\ call[c].st = "waiting"
    BY <1>8 DEF Start, ScopeInv
  <2>2. w.tool = call[c].tool /\ w.todo = p /\ w.wait = call[c].wait
    BY <1>2 DEF CallRecords
  <2>3. call[c].todo = <<>> /\ ~call[c].wait
    BY <1>2, <2>1
  <2>4. p \in Places(call[c].tool) /\ ~Halts(p) /\ ~Continues(p)
    BY ProgramPlaced
  <2> HIDE DEF w, p, Stays
  <2> QED BY <1>5, <2>1, <2>2, <2>3, <2>4
<1>9. ASSUME NEW c \in Workers, NEW w, call' = [call EXCEPT ![c] = w], call[c].todo = <<>>,
             w = Ended \/ \E tool : w = Queued(tool)
      PROVE  \A d \in Workers : Stays(d)
  <2>1. ~w.wait /\ w.todo = <<>>
    BY <1>3, <1>9
  <2> HIDE DEF Stays
  <2> QED BY <1>4, <1>5, <1>9, <2>1
<1>10. ASSUME NEW c \in Workers, Finish(c) \/ Arrive(c) \/ CancelWaiting(c)
       PROVE  \A d \in Workers : Stays(d)
  <2>1. call[c].todo = <<>>
    BY <1>2, <1>10 DEF Finish, Live, Arrive, CancelWaiting
  <2> HIDE DEF Stays
  <2> QED BY <1>9, <1>10, <2>1 DEF Finish, Arrive, CancelWaiting
<1>11. ASSUME StopServing PROVE \A d \in Workers : Stays(d)
  <2> DEFINE told(c) == [call[c] EXCEPT !.cancelled = @ \/ call[c].st = "working"]
  <2>1. \A d \in Workers :
          \/ d = Lifespan /\ call'[d] = Queued("shutdown_all")
          \/ call[d].st = "waiting" /\ call'[d] = Ended
          \/ call'[d] = told(d)
    BY <1>11 DEF StopServing
  <2>2. \A d \in Workers : /\ told(d).tool = call[d].tool /\ told(d).todo = call[d].todo
                           /\ told(d).wait = call[d].wait
    BY <1>2 DEF CallRecords
  <2>3. call[Lifespan].todo = <<>>
    BY <1>2, <1>11 DEF StopServing, OwnedInv, ServerInv, Workers
  <2> HIDE DEF told
  <2> QED BY <1>2, <1>3, <1>4, <2>1, <2>2, <2>3
<1>12. \A d \in Workers : Stays(d)
  <2> HIDE DEF Stays
  <2>1. Calls \subseteq Workers
    BY DEF Workers
  <2>2. CASE \E c \in Workers : Acquire(c) \/ Start(c) \/ Finish(c)
    BY <1>6, <1>8, <1>10, <2>2
  <2>3. CASE \E c \in Calls : Arrive(c) \/ CancelWaiting(c) \/ CancelWorking(c)
    BY <1>7, <1>10, <2>1, <2>3
  <2> QED BY <1>11, <2>2, <2>3
<1>13. \A d \in Workers : call'[d].todo \in Places(call'[d].tool)
  BY <1>12 DEF KeptInv
<1>14. \A d \in Workers :
           \/ call'[d].wait = call[d].wait /\ call'[d].todo = call[d].todo
           \/ /\ ~call[d].wait /\ ~call'[d].wait
              /\ Halts(call'[d].todo) <=> Halts(call[d].todo)
              /\ Continues(call'[d].todo) => Continues(call[d].todo)
  BY <1>2, <1>4, <1>12
<1> QED BY <1>1, <1>13, <1>14, CallsKeep

LEMMA SessionMachines ==
  ASSUME NEW s \in Sessions PROVE s.emu \in {NoEmulator, Spawned, Attached(FALSE)}
<1> DEFINE Window == Attached(FALSE)
<1> HIDE DEF Window
<1> DEFINE Plain ==
             {[slot |-> [local |-> l, agent |-> a, bench |-> FALSE],
               emu |-> CASE l = "none" -> NoEmulator [] l = "owned" -> Spawned
                         [] OTHER -> Window] :
                l \in {"none", "owned", "attached"}, a \in BOOLEAN}
           Bench == [slot |-> [local |-> "bench", agent |-> TRUE, bench |-> TRUE],
                     emu |-> Spawned]
<1>1. ASSUME NEW x \in Plain PROVE x.emu \in {NoEmulator, Spawned, Window}
  OBVIOUS
<1> HIDE DEF Plain
<1>2. s \in Plain \/ s.emu = Spawned
  <2>1. Bench.emu = Spawned
    OBVIOUS
  <2> HIDE DEF Bench
  <2>2. Sessions = Plain \cup {Bench}
    BY DEF Sessions, Plain, Bench, Window
  <2> QED BY <2>1, <2>2
<1> QED BY <1>1, <1>2 DEF Window

LEMMA InitKept ==
  ASSUME Init PROVE KeptInv
<1>1. \A c \in Workers : call[c] = Idle
  BY DEF Init
<1>2. Idle.todo = <<>> /\ ~Idle.wait
  BY DEF Idle
<1>3. \A c \in Workers : call[c].todo \in Places(call[c].tool)
  BY <1>1, <1>2, EndsStill
<1>4. /\ emu.sent = <<>> /\ emu.replies = <<>> /\ emu.broken = emu.held
      /\ emu.held \in BOOLEAN
  <2>1. PICK s \in Sessions : emu = s.emu
    BY DEF Init
  <2>2. s.emu \in {NoEmulator, Spawned, Attached(FALSE)}
    BY SessionMachines
  <2>3. CASE emu = NoEmulator
    BY <2>3 DEF NoEmulator
  <2>4. CASE emu = Spawned
    BY <2>4 DEF NoEmulator, Spawned
  <2>5. CASE emu = Attached(FALSE)
    BY <2>5 DEF NoEmulator, Attached
  <2> QED BY <2>1, <2>2, <2>3, <2>4, <2>5
<1>5. \A c \in Workers : Ahead(c) = <<>> /\ ~Halts(<<>>) /\ ~Continues(<<>>)
  BY <1>1, <1>2, PlacesTell DEF Ahead
<1>6. Quiet /\ Poised
  BY <1>1, <1>2, <1>4, <1>5 DEF Quiet, Poised
<1> QED BY <1>3, <1>6 DEF KeptInv, Exchange

LEMMA NextKept ==
  ASSUME ScopeInv, OwnedInv, KeptInv, [Next]_vars PROVE KeptInv'
<1>1. ASSUME NEW c \in Workers,
             LocalStep(c) \/ Request(c) \/ Rejected(c) \/ TimesOutSlow(c)
      PROVE  KeptInv'
  BY <1>1, CallsKept, WriteKept, GoneKept, AnswerKept, HostKept DEF LocalStep
<1>2. CASE \/ \E c \in Calls : Arrive(c) \/ CancelWaiting(c) \/ CancelWorking(c)
           \/ StopServing
  BY <1>2, CallsKept
<1>3. CASE Serve
  BY <1>3, ServeKept
<1>4. CASE Exit \/ Hang
  <2>1. call' = call /\ ~Alive(emu)'
    <3>1. emu \in Emulators
      BY DEF OwnedInv, OwnedTypes
    <3> QED BY <1>4, <3>1 DEF Exit, Hang, Alive, Emulators
  <2> QED BY <2>1 DEF KeptInv
<1>5. CASE UNCHANGED vars
  <2>1. call' = call /\ emu' = emu
    BY <1>5 DEF vars
  <2>2. \A d \in Workers : call'[d].todo \in Places(call'[d].tool)
    BY <2>1 DEF KeptInv
  <2> QED BY <2>1, <2>2, CallsKeep
<1> QED BY <1>1, <1>2, <1>3, <1>4, <1>5 DEF Next

LEMMA KeptStands ==
  ASSUME ScopeInv, OwnedInv, KeptInv PROVE RunStateKept
<1> SUFFICES ASSUME emu.trust = "good", Alive(emu),
                    \A c \in Workers : Live(c) => call[c].tool \notin MovesCpu
             PROVE  emu.broken = emu.held
  BY DEF RunStateKept
<1>1. ASSUME NEW c \in Workers PROVE ~Halts(Ahead(c))
  <2>1. CASE Live(c)
    <3>1. call[c].todo \in Seq(Calm) /\ call[c].todo # <<>>
      BY <2>1 DEF KeptInv, Places, MovesCpu, Live
    <3>2. Tail(call[c].todo) \in Seq(Calm)
      BY <3>1, TailOn
    <3> QED BY <3>1, <3>2, CalmStill DEF Ahead
  <2>2. CASE ~Live(c)
    BY <2>2, PlacesTell DEF Ahead, OwnedInv, Live
  <2> QED BY <2>1, <2>2
<1>2. emu.held \in BOOLEAN
  BY DEF OwnedInv, OwnedTypes, Emulators
<1> QED BY <1>1, <1>2 DEF KeptInv, Poised

\* A tool that stops the CPU lets it go again, on every path: while no such tool
\* is at work and every answer was its own, a live emulator stands only if it
\* stood before our first command, however many calls there are, whatever is
\* cancelled, and whichever commands fail (OpenMSX.cpu_snapshot, "preserving
\* run/break state").
THEOREM CpuIsLetGo == Spec => []RunStateKept
<1>1. ScopeInv /\ OwnedInv /\ KeptInv /\ [Next]_vars => ScopeInv' /\ OwnedInv' /\ KeptInv'
  BY NextScope, NextOwned, NextKept
<1>2. Init => ScopeInv /\ OwnedInv /\ KeptInv
  BY InitScope, InitOwned, InitKept
<1>3. ScopeInv /\ OwnedInv /\ KeptInv => RunStateKept
  BY KeptStands
<1> QED BY <1>1, <1>2, <1>3, PTL DEF Spec
=============================================================================
