-------------------------- MODULE ProgramToolsProofs --------------------------
(***************************************************************************)
(* What the tools that place and run programs never do to the machine, for *)
(* all application files, numbers of jobs, faults and lines typed by hand. *)
(***************************************************************************)
EXTENDS ProgramTools, SequenceTheorems, TLAPS

MachineFields == {"runtime", "native", "vramSize", "os", "under", "shows", "ring",
                  "program", "temp", "ram", "vram", "ran"}
JobFields == {"tool", "pc", "result", "app", "entry", "verify", "route", "at",
              "cell", "lines", "after", "next", "tries", "keeps"}
Lines == {"BASIC", "NEW", "LINE", "RUN", "USR", "LOAD", "KILL:RUN"}
Keys == [text : Lines \cup {"PROG", "REBOOT"}, by : Nat]
Segments == [space : {"ram", "vram"}, address : Nat, length : Nat]

MachineRecord(m) == m = [f \in MachineFields |-> m[f]]
JobRecord(j) == j = [f \in JobFields |-> j[f]]

\* The memory of the agent is as it was when the call began.
Safe(m) ==
  /\ MachineRecord(m)
  /\ m.runtime \in Runtimes /\ m.under # "gone"
  /\ DOMAIN m.ram = 0 .. RamCells - 1
  /\ m.ring \in Seq(Keys)
  /\ \A cell \in AgentCells(m.runtime) : m.ram[cell] = 0

\* What ends an attachment, and where its line stands.
Ends(m) == m.os = "gone" \/ \E i \in DOMAIN m.ring : m.ring[i].text = "REBOOT"
AtHead(m) == \A i \in DOMAIN m.ring : m.ring[i].text = "REBOOT" => i = 1

\* A job writes segments of what was parsed and types lines that are not
\* REBOOT; only the tool reboot comes to the steps that end an attachment.
GoodJob(j) ==
  /\ JobRecord(j)
  /\ j.app.segments \in Seq(Segments)
  /\ j.at \in Nat \ {0} /\ j.cell \in Nat
  /\ j.lines \in Seq(Lines) /\ (j.pc \in {"put", "type"} => j.lines # <<>>)
  /\ j.next \in {"done", "write", "empty"} /\ j.after \in {"done", "probe"}
  /\ j.result # "none" => j.pc = "idle"
  /\ j.pc \in {"reboot", "empty", "publish"} \/ j.next = "empty" => j.tool = "reboot"

\* Where a job can still be refused, and where it was.
Clean(j) == j.result = "refused" \/ j.pc \in {"screen", "reboot"}

ToolsInv ==
  /\ Safe(machine)
  /\ jobs \in Nat
  /\ GoodJob(job)
  /\ Clean(job) => ~touched
  /\ job.pc # "idle" => link = "up"
  /\ Ends(machine) => link = "closed"
  /\ job.tool = "reboot" /\ job.result = "ok" => AtHead(machine)

----------------------------------------------------------------------------
LEMMA ParsedSegments ==
  ASSUME NEW file \in Files, NEW format,
         ParseApplication(file, format) # Invalid
  PROVE  ParseApplication(file, format).segments \in Seq(Segments)
<1> DEFINE app == ParseApplication(file, format)
<1>1. CASE app = ParseManifest(file)
  <2>1. /\ file.kind = "manifest"
        /\ \A i \in DOMAIN file.segments : SegmentIsValid(file.segments[i])
        /\ app.segments = [i \in DOMAIN file.segments |-> ParseSegment(file.segments[i])]
    BY <1>1 DEF ParseManifest
  <2>2. file.segments \in Seq(RawSegments)
    BY <2>1, FilesAssumption DEF FilesAssumption
  <2>3. ASSUME NEW i \in DOMAIN file.segments
        PROVE  ParseSegment(file.segments[i]) \in Segments
    <3>1. file.segments[i] \in RawSegments
      BY <2>2
    <3>2. file.segments[i].space \in {"ram", "vram"}
      BY <2>1 DEF SegmentIsValid, Limit
    <3> QED BY <3>1, <3>2 DEF ParseSegment, Segments, RawSegments
  <2>4. app.segments \in [1 .. Len(file.segments) -> Segments]
    BY <2>1, <2>2, <2>3
  <2>5. Len(file.segments) \in Nat
    BY <2>2
  <2> QED BY <2>4, <2>5
<1>2. ASSUME NEW a \in Nat, NEW l \in Nat, NEW f, NEW e, NEW m,
             app = Image(f, a, l, e, m)
      PROVE  app.segments \in Seq(Segments)
  <2>1. app.segments = <<[space |-> "ram", address |-> a, length |-> l]>>
    BY <1>2 DEF Image
  <2>2. [space |-> "ram", address |-> a, length |-> l] \in Segments
    BY DEF Segments
  <2> QED BY <2>1, <2>2
<1>3. CASE app = ParseCom(file)
  <2>1. app = Image("com", 0, file.length, [mode |-> "run", address |-> 0], "none")
    BY <1>3 DEF ParseCom
  <2>2. 0 \in Nat /\ file.length \in Nat
    BY FilesAssumption DEF FilesAssumption
  <2> QED BY <1>2, <2>1, <2>2
<1>4. CASE app = ParseBload(file)
  <2>1. file.kind = "bload"
    BY <1>4 DEF ParseBload
  <2>2. PICK e : app = Image("bload", file.start, file.length, e, "none")
    BY <1>4 DEF ParseBload
  <2>3. file.start \in Nat /\ file.length \in Nat
    BY <2>1, FilesAssumption DEF FilesAssumption
  <2> QED BY <1>2, <2>2, <2>3
<1>5. CASE app = ParseFlatRom(file)
  <2>1. PICK a \in {2, 4} : \E e : app = Image("flat-rom", a, file.length, e, "flat")
    BY <1>5 DEF ParseFlatRom
  <2>2. a \in Nat /\ file.length \in Nat
    BY FilesAssumption DEF FilesAssumption
  <2> QED BY <1>2, <2>1, <2>2
<1>6. \/ app = ParseManifest(file) \/ app = ParseCom(file)
      \/ app = ParseBload(file) \/ app = ParseFlatRom(file)
  BY DEF ParseApplication
<1> QED BY <1>1, <1>3, <1>4, <1>5, <1>6

LEMMA NoLines == ASSUME NEW S PROVE <<>> \in Seq(S)
OBVIOUS

LEMMA EndedIsGood ==
  ASSUME GoodJob(job), NEW result
  PROVE  /\ GoodJob(Ended(result))
         /\ Ended(result).tool = job.tool /\ Ended(result).result = result
         /\ Ended(result).pc = "idle"
<1> DEFINE e == Ended(result)  t == job.tool  a == job.app  k == job.keeps
           b == Idle
<1>1. /\ JobRecord(b)
      /\ b.at = 1 /\ b.cell = 0 /\ b.lines = <<>> /\ b.pc = "idle"
      /\ b.next = "done" /\ b.after = "done"
  BY DEF Idle, JobFields, JobRecord
<1>2. e = [b EXCEPT !.tool = t, !.result = result, !.app = a, !.keeps = k]
  BY DEF Ended
<1>3. <<>> \in Seq(Lines)
  BY NoLines
<1>4. a.segments \in Seq(Segments)
  BY DEF GoodJob
<1> HIDE DEF e, t, a, k, b
<1>5. JobRecord(e)
  BY <1>1, <1>2 DEF JobFields, JobRecord
<1>6. /\ e.app = a /\ e.at = 1 /\ e.cell = 0 /\ e.lines = <<>>
      /\ e.next = "done" /\ e.after = "done" /\ e.pc = "idle"
      /\ e.tool = t /\ e.result = result
  BY <1>1, <1>2 DEF JobFields, JobRecord
<1>7. GoodJob(e)
  BY <1>3, <1>4, <1>5, <1>6 DEF GoodJob
<1> QED BY <1>6, <1>7 DEF e, t

LEMMA GoesIsGood ==
  ASSUME GoodJob(job), NEW pc,
         pc \in {"empty", "publish"} => job.tool = "reboot",
         pc \in {"put", "type"} => job.lines # <<>>,
         pc # "reboot", job.pc # "idle"
  PROVE  GoodJob(Goes(pc)) /\ (pc # "screen" => ~Clean(Goes(pc)))
<1>1. CASE pc = "done"
  BY <1>1, EndedIsGood DEF Goes, Clean
<1>2. CASE pc # "done"
  <2> DEFINE g == [job EXCEPT !.pc = pc]
  <2>1. /\ JobRecord(g)
        /\ g.app = job.app /\ g.at = job.at /\ g.cell = job.cell
        /\ g.lines = job.lines /\ g.next = job.next /\ g.after = job.after
        /\ g.tool = job.tool /\ g.result = job.result /\ g.pc = pc
    BY DEF JobRecord, JobFields, GoodJob
  <2> HIDE DEF g
  <2>2. job.result = "none"
    BY DEF GoodJob
  <2>3. GoodJob(g)
    BY <2>1, <2>2 DEF GoodJob
  <2>4. pc # "screen" => ~Clean(g)
    BY <2>1, <2>2 DEF Clean
  <2> QED BY <1>2, <2>3, <2>4 DEF Goes, g
<1> QED BY <1>1, <1>2

----------------------------------------------------------------------------
(* Steps of the machine, and what the requests do to it.                   *)

LEMMA SameMemory ==
  ASSUME Safe(machine), NEW w, MachineRecord(w), w.runtime = machine.runtime,
         w.ram = machine.ram, w.ring \in Seq(Keys), w.under # "gone"
  PROVE  Safe(w)
BY DEF Safe

LEMMA OsIsNotMemory ==
  ASSUME Safe(machine), NEW os, os # "gone"
  PROVE  /\ Safe([machine EXCEPT !.os = os])
         /\ Ends([machine EXCEPT !.os = os]) => Ends(machine)
<1> DEFINE w == [machine EXCEPT !.os = os]
<1>1. /\ MachineRecord(w) /\ w.runtime = machine.runtime /\ w.ram = machine.ram
      /\ w.ring = machine.ring /\ w.os = os /\ w.under = machine.under
  BY DEF Safe, MachineRecord, MachineFields
<1> HIDE DEF w
<1>2. machine.ring \in Seq(Keys) /\ machine.under # "gone"
  BY DEF Safe
<1>3. Safe(w)
  BY <1>1, <1>2, SameMemory
<1>4. Ends(w) => Ends(machine)
  BY <1>1 DEF Ends
<1> QED BY <1>3, <1>4 DEF w

LEMMA AppendedKey ==
  ASSUME NEW ring \in Seq(Keys), NEW key \in Keys
  PROVE  /\ Append(ring, key) \in Seq(Keys)
         /\ \A i \in DOMAIN Append(ring, key) :
              \/ i \in DOMAIN ring /\ Append(ring, key)[i] = ring[i]
              \/ i = Len(ring) + 1 /\ Append(ring, key)[i] = key
<1> HIDE DEF Keys
<1> QED OBVIOUS

LEMMA TypedIsSafe ==
  ASSUME Safe(machine), NEW text \in Lines \cup {"PROG", "REBOOT"}, NEW by \in Nat
  PROVE  /\ Safe(Typed(text, by))
         /\ text # "REBOOT" =>
              /\ Ends(Typed(text, by)) => Ends(machine)
              /\ AtHead(machine) => AtHead(Typed(text, by))
         /\ machine.ring = <<>> => AtHead(Typed(text, by))
<1> DEFINE key == [text |-> text, by |-> by]
           ring == Append(machine.ring, key)
           w == Typed(text, by)
<1>1. key \in Keys /\ key.text = text
  BY DEF Keys
<1>2. machine.ring \in Seq(Keys) /\ machine.under # "gone"
  BY DEF Safe
<1>3. /\ MachineRecord(w) /\ w.runtime = machine.runtime /\ w.ram = machine.ram
      /\ w.ring = ring /\ w.os = machine.os /\ w.under = machine.under
  <2> HIDE DEF key
  <2>1. w = [machine EXCEPT !.ring = Append(@, key)]
    BY DEF Typed, key
  <2> QED BY <2>1 DEF Safe, MachineRecord, MachineFields
<1> HIDE DEF key, w
<1>4. /\ ring \in Seq(Keys)
      /\ \A i \in DOMAIN ring :
           \/ i \in DOMAIN machine.ring /\ ring[i] = machine.ring[i]
           \/ i = Len(machine.ring) + 1 /\ ring[i] = key
  BY <1>1, <1>2, AppendedKey
<1> HIDE DEF ring
<1>5. Safe(w)
  BY <1>2, <1>3, <1>4, SameMemory
<1>6. ASSUME text # "REBOOT"
      PROVE  /\ Ends(w) => Ends(machine)
             /\ AtHead(machine) => AtHead(w)
  BY <1>1, <1>3, <1>4, <1>6 DEF Ends, AtHead
<1>7. ASSUME machine.ring = <<>>
      PROVE  AtHead(w)
  <2>1. Len(machine.ring) = 0 /\ DOMAIN machine.ring = {}
    BY <1>7
  <2> QED BY <1>3, <1>4, <2>1 DEF AtHead
<1> QED BY <1>5, <1>6, <1>7 DEF w

LEMMA TailKeys ==
  ASSUME NEW ring \in Seq(Keys), ring # <<>>
  PROVE  /\ Tail(ring) \in Seq(Keys) /\ 1 \in DOMAIN ring /\ Head(ring) = ring[1]
         /\ \A i \in DOMAIN Tail(ring) :
              i \in Nat /\ i + 1 \in DOMAIN ring /\ Tail(ring)[i] = ring[i + 1]
<1> HIDE DEF Keys
<1>1. /\ Tail(ring) \in Seq(Keys) /\ Len(ring) \in Nat \ {0}
      /\ Len(Tail(ring)) = Len(ring) - 1 /\ Head(ring) = ring[1]
      /\ DOMAIN ring = 1 .. Len(ring) /\ DOMAIN Tail(ring) = 1 .. Len(Tail(ring))
      /\ \A i \in 1 .. Len(Tail(ring)) : Tail(ring)[i] = ring[i + 1]
  OBVIOUS
<1> QED BY <1>1

\* A line that is gone from the ring was the first; the others move up.
LEMMA TailIsSafe ==
  ASSUME Safe(machine), machine.ring # <<>>, NEW w, MachineRecord(w),
         w.runtime = machine.runtime, w.ram = machine.ram, w.ring = Tail(machine.ring),
         w.under = machine.under, w.os = "gone" => Ends(machine)
  PROVE  Safe(w) /\ (Ends(w) => Ends(machine)) /\ (AtHead(machine) => AtHead(w))
<1>1. machine.ring \in Seq(Keys)
  BY DEF Safe
<1>2. /\ Tail(machine.ring) \in Seq(Keys)
      /\ \A i \in DOMAIN Tail(machine.ring) :
           /\ i \in Nat /\ i + 1 \in DOMAIN machine.ring
           /\ Tail(machine.ring)[i] = machine.ring[i + 1]
  BY <1>1, TailKeys
<1>3. Safe(w)
  <2>1. machine.under # "gone"
    BY DEF Safe
  <2> QED BY <1>2, <2>1, SameMemory
<1>4. Ends(w) => Ends(machine)
  BY <1>2 DEF Ends
<1>5. AtHead(machine) => AtHead(w)
  <2>1. SUFFICES ASSUME AtHead(machine), NEW i \in DOMAIN w.ring,
                        w.ring[i].text = "REBOOT"
                 PROVE  i = 1
    BY DEF AtHead
  <2>2. i + 1 = 1 /\ i \in Nat
    BY <1>2, <2>1 DEF AtHead
  <2>3. i + 1 \in DOMAIN machine.ring
    BY <1>2
  <2>4. DOMAIN machine.ring = 1 .. Len(machine.ring) /\ Len(machine.ring) \in Nat
    BY <1>1
  <2> QED BY <2>2, <2>3, <2>4
<1> QED BY <1>3, <1>4, <1>5

LEMMA LineIsRead ==
  ASSUME Safe(machine), NEW text, NEW by
  PROVE  LET w == AfterLine(text, by)
         IN /\ MachineRecord(w) /\ w.runtime = machine.runtime /\ w.ram = machine.ram
            /\ w.ring = Tail(machine.ring) /\ w.under = machine.under
            /\ w.os = "gone" => machine.os = "gone" \/ text = "REBOOT"
<1> DEFINE w == AfterLine(text, by)
           rest == Tail(machine.ring)
           m == [machine EXCEPT !.ring = rest]
           Read(x) == /\ MachineRecord(x) /\ x.runtime = machine.runtime
                      /\ x.ram = machine.ram /\ x.ring = rest
                      /\ x.under = machine.under
                      /\ x.os = "gone" => machine.os = "gone" \/ text = "REBOOT"
           Runs(what) == [m EXCEPT !.os = "busy", !.shows = "other", !.ran = what]
           image == <<"image", machine.ram, machine.vram, by>>
<1>1. \/ w = m
      \/ \E v : w = [m EXCEPT !.program = v]
      \/ \E v : w = [m EXCEPT !.program = v, !.shows = "other"]
      \/ \E v : w = [m EXCEPT !.shows = v]
      \/ w = [m EXCEPT !.os = "busy", !.shows = "other"]
      \/ w = [m EXCEPT !.os = "starting", !.shows = "other", !.program = <<>>]
      \/ \E v : w = Runs(v)
      \/ \E v : w = [Runs(v) EXCEPT !.temp = FALSE]
      \/ text = "REBOOT" /\ w = [m EXCEPT !.os = "gone"]
  BY DEF AfterLine
<1>2. MachineRecord(machine)
  BY DEF Safe
<1> HIDE DEF w, rest
<1>3. /\ MachineRecord(m) /\ m.runtime = machine.runtime /\ m.ram = machine.ram
      /\ m.ring = rest /\ m.os = machine.os /\ m.under = machine.under
  BY <1>2 DEF MachineRecord, MachineFields
<1> HIDE DEF m
<1>4. ASSUME w = m
      PROVE  Read(w)
  BY <1>3, <1>4
<1>5. ASSUME \E v : w = [m EXCEPT !.program = v]
      PROVE  Read(w)
  BY <1>3, <1>5 DEF MachineRecord, MachineFields
<1>6. ASSUME \E v : w = [m EXCEPT !.program = v, !.shows = "other"]
      PROVE  Read(w)
  BY <1>3, <1>6 DEF MachineRecord, MachineFields
<1>7. ASSUME \E v : w = [m EXCEPT !.shows = v]
      PROVE  Read(w)
  BY <1>3, <1>7 DEF MachineRecord, MachineFields
<1>8. ASSUME w = [m EXCEPT !.os = "busy", !.shows = "other"]
      PROVE  Read(w)
  BY <1>3, <1>8 DEF MachineRecord, MachineFields
<1>9. ASSUME w = [m EXCEPT !.os = "starting", !.shows = "other", !.program = <<>>]
      PROVE  Read(w)
  BY <1>3, <1>9 DEF MachineRecord, MachineFields
<1>10. ASSUME NEW v
       PROVE  /\ MachineRecord(Runs(v)) /\ Runs(v).runtime = m.runtime
              /\ Runs(v).ram = m.ram /\ Runs(v).ring = m.ring
              /\ Runs(v).under = m.under /\ Runs(v).os = "busy"
  <2> DEFINE r == Runs(v)
  <2>1. r = [m EXCEPT !.os = "busy", !.shows = "other", !.ran = v]
    OBVIOUS
  <2> HIDE DEF r
  <2>2. /\ MachineRecord(r) /\ r.runtime = m.runtime /\ r.ram = m.ram
        /\ r.ring = m.ring /\ r.under = m.under /\ r.os = "busy"
    BY <1>3, <2>1 DEF MachineRecord, MachineFields
  <2> QED BY <2>2 DEF r
<1>11. ASSUME \E v : w = Runs(v)
      PROVE  Read(w)
  <2>1. PICK v : w = Runs(v)
    BY <1>11
  <2> HIDE DEF Runs
  <2>2. /\ MachineRecord(w) /\ w.runtime = m.runtime /\ w.ram = m.ram
        /\ w.ring = m.ring /\ w.under = m.under /\ w.os = "busy"
    BY <1>10, <2>1
  <2> QED BY <1>3, <2>2
<1>12. ASSUME \E v : w = [Runs(v) EXCEPT !.temp = FALSE]
      PROVE  Read(w)
  <2>1. PICK v : w = [Runs(v) EXCEPT !.temp = FALSE]
    BY <1>12
  <2> DEFINE r == Runs(v)
  <2>2. /\ MachineRecord(r) /\ r.runtime = m.runtime /\ r.ram = m.ram
        /\ r.ring = m.ring /\ r.under = m.under /\ r.os = "busy"
        /\ w = [r EXCEPT !.temp = FALSE]
    BY <1>10, <2>1
  <2> HIDE DEF r
  <2> QED BY <1>3, <2>2 DEF MachineRecord, MachineFields
<1>13. ASSUME text = "REBOOT" /\ w = [m EXCEPT !.os = "gone"]
      PROVE  Read(w)
  BY <1>3, <1>13 DEF MachineRecord, MachineFields
<1>14. Read(w)
  BY <1>1, <1>4, <1>5, <1>6, <1>7, <1>8, <1>9, <1>11, <1>12, <1>13
<1> QED BY <1>14 DEF w, rest

\* A step of the machine by itself.
Kept(w) == /\ Safe(w)
           /\ Ends(w) => Ends(machine)
           /\ AtHead(machine) => AtHead(w)

LEMMA SameRing ==
  ASSUME Safe(machine), NEW w, MachineRecord(w), w.runtime = machine.runtime,
         w.ram = machine.ram, w.ring = machine.ring, w.under # "gone", w.os # "gone"
  PROVE  Kept(w)
<1>1. Safe(w)
  <2>1. machine.ring \in Seq(Keys)
    BY DEF Safe
  <2> QED BY <2>1, SameMemory
<1> QED BY <1>1 DEF Kept, Ends, AtHead

LEMMA RamIsWritten ==
  ASSUME Safe(machine), NEW cell \in Int, NEW value,
         cell \notin AgentCells(machine.runtime)
  PROVE  Kept([machine EXCEPT !.ram[cell] = value])
<1> DEFINE w == [machine EXCEPT !.ram[cell] = value]
<1>1. /\ MachineRecord(w) /\ w.runtime = machine.runtime /\ w.ring = machine.ring
      /\ w.os = machine.os /\ w.under = machine.under
      /\ w.ram = [machine.ram EXCEPT ![cell] = value]
  BY DEF Safe, MachineRecord, MachineFields
<1> HIDE DEF w
<1>2. DOMAIN w.ram = 0 .. RamCells - 1 /\ w.under # "gone"
  BY <1>1 DEF Safe
<1>3. ASSUME NEW c \in AgentCells(machine.runtime)
      PROVE  w.ram[c] = 0
  <2>1. c \in DOMAIN machine.ram /\ machine.ram[c] = 0 /\ c # cell
    BY DEF Safe, AgentCells, RamCells
  <2> QED BY <1>1, <2>1
<1>4. Safe(w)
  BY <1>1, <1>2, <1>3 DEF Safe
<1>5. Kept(w)
  BY <1>1, <1>4 DEF Kept, Ends, AtHead
<1> QED BY <1>5 DEF w

LEMMA MachineKeeps ==
  ASSUME Safe(machine), MachineStep
  PROVE  Kept(machine')
<1>1. /\ MachineRecord(machine) /\ machine.ring \in Seq(Keys)
      /\ machine.runtime \in Runtimes /\ machine.under # "gone"
  BY DEF Safe
<1>2. CASE ReadLine
  <2> DEFINE key == Head(machine.ring)
  <2>1. machine.ring # <<>> /\ machine' = AfterLine(key.text, key.by)
    BY <1>2 DEF ReadLine
  <2> HIDE DEF key
  <2>2. LET w == AfterLine(key.text, key.by)
        IN /\ MachineRecord(w) /\ w.runtime = machine.runtime /\ w.ram = machine.ram
           /\ w.ring = Tail(machine.ring) /\ w.under = machine.under
           /\ w.os = "gone" => machine.os = "gone" \/ key.text = "REBOOT"
    BY LineIsRead
  <2>3. key.text = "REBOOT" => Ends(machine)
    BY <1>1, <2>1, TailKeys DEF Ends, key
  <2>4. machine.os = "gone" => Ends(machine)
    BY DEF Ends
  <2> QED BY <2>1, <2>2, <2>3, <2>4, TailIsSafe DEF Kept
<1>3. ASSUME NEW os, os \in {"basic", "dos"}, machine' = Prompts(os)
      PROVE  Kept(machine')
  <2>1. /\ MachineRecord(machine') /\ machine'.runtime = machine.runtime
        /\ machine'.ram = machine.ram /\ machine'.ring = machine.ring
        /\ machine'.os = os /\ machine'.under = os
    BY <1>1, <1>3 DEF Prompts, MachineRecord, MachineFields
  <2> QED BY <1>3, <2>1, SameRing
<1>4. CASE BasicIsUp \/ WorkerEnds
  BY <1>3, <1>4 DEF BasicIsUp, WorkerEnds
<1>5. CASE ProgramWrites
  <2>1. PICK cell \in (0 .. RamCells - 1) \ AgentCells(machine.runtime) :
             machine' = [machine EXCEPT !.ram[cell] = 0]
    BY <1>5 DEF ProgramWrites
  <2>2. cell \in Int
    BY DEF RamCells
  <2> QED BY <2>1, <2>2, RamIsWritten
<1>6. CASE ProgramReads
  <2>1. /\ machine.ring # <<>> /\ machine.os = "busy"
        /\ machine' = [machine EXCEPT !.ring = Tail(@)]
    BY <1>6 DEF ProgramReads
  <2> DEFINE rest == Tail(machine.ring)
  <2>2. machine' = [machine EXCEPT !.ring = rest]
    BY <2>1
  <2> HIDE DEF rest
  <2>3. /\ MachineRecord(machine') /\ machine'.runtime = machine.runtime
        /\ machine'.ram = machine.ram /\ machine'.ring = rest
        /\ machine'.os = "busy" /\ machine'.under = machine.under
    BY <1>1, <2>1, <2>2 DEF MachineRecord, MachineFields
  <2> QED BY <2>1, <2>3, TailIsSafe DEF Kept, rest
<1>7. CASE ProgramEnds
  <2> DEFINE under == machine.under
             row == IF under = "monitor" THEN "other" ELSE under
  <2>1. machine' = [machine EXCEPT !.os = under, !.shows = row]
    BY <1>7 DEF ProgramEnds
  <2> HIDE DEF under, row
  <2>2. /\ MachineRecord(machine') /\ machine'.runtime = machine.runtime
        /\ machine'.ram = machine.ram /\ machine'.ring = machine.ring
        /\ machine'.os = under /\ machine'.under = under
    BY <1>1, <2>1 DEF MachineRecord, MachineFields, under
  <2>3. under # "gone"
    BY <1>1 DEF under
  <2> QED BY <2>2, <2>3, SameRing
<1>8. CASE Hands
  <2>1. machine' = Typed("PROG", 0) /\ machine.os # "gone"
    BY <1>8 DEF Hands, Typed
  <2>2. 0 \in Nat
    OBVIOUS
  <2> QED BY <2>1, <2>2, TypedIsSafe DEF Kept
<1>9. CASE Boots
  <2> DEFINE p == Prompts("dos")
  <2>1. machine' = [p EXCEPT !.ring = <<>>, !.program = <<"old">>] /\ machine.os = "gone"
    BY <1>9 DEF Boots
  <2>2. /\ MachineRecord(p) /\ p.runtime = machine.runtime /\ p.ram = machine.ram
        /\ p.under = "dos" /\ p.os = "dos"
    BY <1>1 DEF Prompts, MachineRecord, MachineFields
  <2> HIDE DEF p
  <2>3. /\ MachineRecord(machine') /\ machine'.runtime = machine.runtime
        /\ machine'.ram = machine.ram /\ machine'.ring = <<>>
        /\ machine'.os = "dos" /\ machine'.under = "dos"
    BY <2>1, <2>2 DEF MachineRecord, MachineFields
  <2>4. machine'.ring \in Seq(Keys) /\ DOMAIN machine'.ring = {}
    BY <2>3, NoLines
  <2>5. Safe(machine')
    BY <2>3, <2>4, SameMemory
  <2> QED BY <2>3, <2>4, <2>5 DEF Kept, Ends, AtHead
<1> QED BY <1>2, <1>4, <1>5, <1>6, <1>7, <1>8, <1>9 DEF MachineStep

----------------------------------------------------------------------------
(* The requests of the handlers.                                           *)

LEMMA DoesKeeps ==
  ASSUME ToolsInv, NEW effect, NEW onward, Does(effect, onward),
         Safe(effect), Ends(effect) => Ends(machine),
         GoodJob(onward), Clean(onward) => effect = machine /\ ~touched
  PROVE  ToolsInv'
<1>1. /\ GoodJob(job) /\ Safe(machine) /\ jobs \in Nat /\ ~Ends(machine)
      /\ jobs' = jobs /\ touched' = (touched \/ machine' # machine)
  BY DEF ToolsInv, Does, Exchange
<1>2. machine' = machine \/ machine' = effect
  BY DEF Does, Exchange
<1>3. \/ job' = onward /\ machine' = effect /\ link' = "up"
      \/ job' = Ended("failed")
  BY DEF Does, Exchange
<1>4. /\ GoodJob(Ended("failed")) /\ ~Clean(Ended("failed"))
      /\ Ended("failed").pc = "idle"
  BY <1>1, EndedIsGood DEF Clean
<1>5. Safe(machine') /\ ~Ends(machine')
  BY <1>1, <1>2
<1>6. GoodJob(job') /\ (Clean(job') => ~touched') /\ (job'.pc # "idle" => link' = "up")
  BY <1>1, <1>3, <1>4
<1>7. AtHead(machine')
  BY <1>5 DEF Ends, AtHead
<1> QED BY <1>1, <1>5, <1>6, <1>7 DEF ToolsInv

LEMMA AsksKeeps ==
  ASSUME ToolsInv, NEW onward, Asks(onward), GoodJob(onward), Clean(onward) => ~touched
  PROVE  ToolsInv'
<1>1. Does(machine, onward) /\ Safe(machine)
  BY DEF Asks, Does, ToolsInv
<1> QED BY <1>1, DoesKeeps

\* A step of the host by itself.
LEMMA HostKeeps ==
  ASSUME ToolsInv, job.pc # "idle", GoodJob(job'), Clean(job') => ~touched,
         UNCHANGED <<machine, link, touched, jobs>>
  PROVE  ToolsInv'
<1>1. /\ Safe(machine') /\ jobs' \in Nat /\ (Ends(machine') => link' = "closed")
      /\ Ends(machine) => link = "closed"
      /\ link' = "up"
  BY DEF ToolsInv
<1>2. AtHead(machine')
  BY <1>1 DEF Ends, AtHead
<1> QED BY <1>1, <1>2 DEF ToolsInv

LEMMA BeginKeeps ==
  ASSUME ToolsInv, NEW new, Begin(new), GoodJob(new), new.result # "ok"
  PROVE  ToolsInv'
<1> DEFINE ram == [c \in DOMAIN machine.ram |-> 0]
           vram == [c \in DOMAIN machine.vram |-> 0]
<1>1. /\ machine' = [machine EXCEPT !.ram = ram, !.temp = FALSE, !.vram = vram,
                                   !.ran = <<"nothing">>]
      /\ job' = new /\ jobs' = jobs + 1 /\ ~touched' /\ link' = link /\ link = "up"
  BY DEF Begin
<1>2. /\ MachineRecord(machine) /\ machine.ring \in Seq(Keys) /\ jobs \in Nat
      /\ machine.runtime \in Runtimes /\ machine.under # "gone"
      /\ DOMAIN ram = 0 .. RamCells - 1
      /\ Ends(machine) => link = "closed"
  BY DEF ToolsInv, Safe
<1>3. \A cell \in AgentCells(machine.runtime) : ram[cell] = 0
  BY <1>2 DEF AgentCells, RamCells
<1> HIDE DEF ram, vram
<1>4. /\ MachineRecord(machine') /\ machine'.runtime = machine.runtime
      /\ machine'.ram = ram /\ machine'.ring = machine.ring
      /\ machine'.os = machine.os /\ machine'.under = machine.under
  BY <1>1, <1>2 DEF MachineRecord, MachineFields
<1>5. Safe(machine')
  BY <1>2, <1>3, <1>4 DEF Safe
<1>6. Ends(machine') => Ends(machine)
  BY <1>4 DEF Ends
<1> QED BY <1>1, <1>2, <1>5, <1>6 DEF ToolsInv

----------------------------------------------------------------------------
(* The calls as they begin.                                                *)

LEMMA IdleIsGood ==
  /\ GoodJob(Idle) /\ Idle.result = "none" /\ Idle.tool = "none" /\ Idle.pc = "idle"
  /\ Idle.next = "done" /\ Idle.app.segments = <<>>
  /\ Idle.keeps = FALSE /\ Idle.lines = <<>>
<1>1. /\ JobRecord(Idle) /\ Idle.app = NoApplication /\ Idle.at = 1 /\ Idle.cell = 0
      /\ Idle.lines = <<>> /\ Idle.next = "done" /\ Idle.after = "done"
      /\ Idle.result = "none" /\ Idle.pc = "idle" /\ Idle.tool = "none"
      /\ Idle.keeps = FALSE
  BY DEF Idle, JobRecord, JobFields
<1>2. NoApplication.segments = <<>>
  BY DEF NoApplication
<1>3. <<>> \in Seq(Segments) /\ <<>> \in Seq(Lines)
  BY NoLines
<1> HIDE DEF Idle, NoApplication
<1>4. GoodJob(Idle)
  BY <1>1, <1>2, <1>3 DEF GoodJob
<1> QED BY <1>1, <1>2, <1>4

\* A job that begins as Idle says but for its tool, where it starts, its lines,
\* its application and what comes next.
LEMMA NewJobIsGood ==
  ASSUME NEW new, JobRecord(new), new.app.segments \in Seq(Segments),
         new.at = 1, new.cell = 0, new.lines \in Seq(Lines),
         new.pc \in {"put", "type"} => new.lines # <<>>,
         new.next \in {"done", "write", "empty"}, new.after = "done",
         new.result = "none" \/ new.pc = "idle",
         new.pc \in {"reboot", "empty", "publish"} \/ new.next = "empty"
           => new.tool = "reboot"
  PROVE  GoodJob(new)
BY DEF GoodJob

LEMMA RefusedIsGood ==
  ASSUME NEW tool
  PROVE  GoodJob(Refused(tool)) /\ Refused(tool).result = "refused"
<1> DEFINE new == Refused(tool)  idle == Idle
<1>1. /\ JobRecord(idle) /\ idle.app.segments \in Seq(Segments)
      /\ idle.at = 1 /\ idle.cell = 0 /\ idle.lines \in Seq(Lines)
      /\ idle.next = "done" /\ idle.after = "done" /\ idle.pc = "idle"
  BY IdleIsGood DEF GoodJob, Idle
<1>2. new = [idle EXCEPT !.tool = tool, !.result = "refused"]
  BY DEF Refused
<1> HIDE DEF new, idle
<1>3. /\ JobRecord(new) /\ new.app = idle.app /\ new.lines = idle.lines
      /\ new.at = 1 /\ new.cell = 0 /\ new.next = "done" /\ new.after = "done"
      /\ new.pc = "idle" /\ new.result = "refused"
  BY <1>1, <1>2 DEF JobRecord, JobFields
<1>4. GoodJob(new)
  BY <1>1, <1>3, NewJobIsGood
<1> QED BY <1>3, <1>4 DEF new

LEMMA BeginLoadKeeps == ASSUME ToolsInv, BeginLoad PROVE ToolsInv'
<1>1. PICK asked \in LoadRequests :
        LET first == CASE asked.route = "basic" -> "screen"
                       [] asked.route = "direct" /\ Runtime = "monitor" -> "status"
                       [] OTHER -> "write"
        IN Begin(IF Accepts(asked.app, asked.entry, asked.route)
                 THEN [Idle EXCEPT !.tool = "load", !.pc = first, !.app = asked.app,
                         !.entry = asked.entry, !.route = asked.route, !.next = "write",
                         !.verify = asked.verify]
                 ELSE Refused("load"))
  BY DEF BeginLoad
<1> DEFINE app == asked.app  entry == asked.entry  route == asked.route
           verify == asked.verify  idle == Idle
           first == CASE route = "basic" -> "screen"
                      [] route = "direct" /\ Runtime = "monitor" -> "status"
                      [] OTHER -> "write"
           new == [idle EXCEPT !.tool = "load", !.pc = first, !.app = app,
                     !.entry = entry, !.route = route, !.next = "write",
                     !.verify = verify]
<1>2. CASE ~Accepts(app, entry, route)
  <2>1. Begin(Refused("load"))
    BY <1>1, <1>2
  <2> QED BY <2>1, RefusedIsGood, BeginKeeps
<1>3. CASE Accepts(app, entry, route)
  <2>1. Begin(new)
    BY <1>1, <1>3
  <2>2. app.segments \in Seq(Segments)
    <3>1. PICK file \in Files, format \in FormatsAsked : app = ParseApplication(file, format)
      BY DEF LoadRequests, LoadRequest
    <3>2. app # Invalid
      BY <1>3 DEF Accepts
    <3> QED BY <3>1, <3>2, ParsedSegments
  <2>3. first \in {"screen", "status", "write"}
    OBVIOUS
  <2>4. /\ JobRecord(idle) /\ idle.at = 1 /\ idle.cell = 0 /\ idle.lines \in Seq(Lines)
        /\ idle.after = "done" /\ idle.result = "none"
    BY IdleIsGood DEF GoodJob, Idle
  <2>5. new.app = app /\ new.pc = first /\ new.next = "write" /\ new.result = idle.result
        /\ new.at = idle.at /\ new.cell = idle.cell /\ new.lines = idle.lines
        /\ new.after = idle.after /\ JobRecord(new)
    <3> HIDE DEF app, entry, route, verify, idle, first
    <3> QED BY <2>4 DEF JobRecord, JobFields
  <2> HIDE DEF new, first, app, idle
  <2>6. GoodJob(new)
    BY <2>2, <2>3, <2>4, <2>5, NewJobIsGood
  <2> QED BY <2>1, <2>4, <2>5, <2>6, BeginKeeps
<1> QED BY <1>2, <1>3

LEMMA BeginAsmKeeps == ASSUME ToolsInv, BeginAsm PROVE ToolsInv'
<1>1. PICK cell \in 0 .. RamCells - 1, execute \in EntryModes :
        Begin(IF execute # "none" /\ ~RunIsOffered
              THEN Refused("asm")
              ELSE [Idle EXCEPT !.tool = "asm", !.pc = "write", !.app = Code(cell),
                      !.entry = IF execute = "none" THEN NoEntry
                                ELSE [mode |-> execute, address |-> cell]])
  BY DEF BeginAsm
<1> DEFINE app == Code(cell)  idle == Idle
           entry == IF execute = "none" THEN NoEntry
                    ELSE [mode |-> execute, address |-> cell]
           new == [idle EXCEPT !.tool = "asm", !.pc = "write", !.app = app,
                     !.entry = entry]
<1>2. Begin(Refused("asm")) \/ Begin(new)
  BY <1>1
<1>3. CASE Begin(Refused("asm"))
  BY <1>3, RefusedIsGood, BeginKeeps
<1>4. CASE Begin(new)
  <2>1. app.segments \in Seq(Segments)
    <3>1. [space |-> "ram", address |-> cell, length |-> 1] \in Segments
      BY DEF Segments, RamCells
    <3>2. app.segments = <<[space |-> "ram", address |-> cell, length |-> 1]>>
      BY DEF Code
    <3> QED BY <3>1, <3>2
  <2>2. /\ JobRecord(idle) /\ idle.at = 1 /\ idle.cell = 0 /\ idle.lines \in Seq(Lines)
        /\ idle.after = "done" /\ idle.next = "done" /\ idle.result = "none"
    BY IdleIsGood DEF GoodJob, Idle
  <2>3. /\ new.app = app /\ new.pc = "write" /\ new.next = idle.next
        /\ new.result = idle.result /\ new.at = idle.at /\ new.cell = idle.cell
        /\ new.lines = idle.lines /\ new.after = idle.after /\ JobRecord(new)
    <3> HIDE DEF app, entry, idle
    <3> QED BY <2>2 DEF JobRecord, JobFields
  <2> HIDE DEF new, app, idle
  <2>4. GoodJob(new)
    BY <2>1, <2>2, <2>3, NewJobIsGood
  <2> QED BY <1>4, <2>2, <2>3, <2>4, BeginKeeps
<1> QED BY <1>2, <1>3, <1>4

\* The other three differ in tool, where they start, their lines and what they keep.
TypingJob(tool, pc, keeps, lines, next) ==
  [Idle EXCEPT !.tool = tool, !.pc = pc, !.keeps = keeps, !.lines = lines, !.next = next]

LEMMA BeginTypingKeeps ==
  ASSUME ToolsInv, NEW tool, NEW pc, NEW keeps, NEW lines \in Seq(Lines),
         NEW next \in {"done", "empty"},
         pc = "reboot" \/ next = "empty" => tool = "reboot",
         pc \in {"type", "put", "reboot"}, pc # "reboot" => lines # <<>>,
         Begin(TypingJob(tool, pc, keeps, lines, next))
  PROVE  ToolsInv'
<1> DEFINE idle == Idle
           new == [idle EXCEPT !.tool = tool, !.pc = pc, !.keeps = keeps,
                     !.lines = lines, !.next = next]
<1>1. /\ JobRecord(idle) /\ idle.at = 1 /\ idle.cell = 0
      /\ idle.app.segments \in Seq(Segments)
      /\ idle.after = "done" /\ idle.result = "none"
  BY IdleIsGood DEF GoodJob, Idle
<1> HIDE DEF idle
<1>2. /\ new.app = idle.app /\ new.pc = pc /\ new.next = next /\ new.tool = tool
      /\ new.result = idle.result /\ new.at = idle.at /\ new.cell = idle.cell
      /\ new.lines = lines /\ new.after = idle.after /\ JobRecord(new)
  BY <1>1 DEF JobRecord, JobFields
<1>3. Begin(new)
  BY DEF idle, TypingJob
<1> HIDE DEF new
<1>4. GoodJob(new)
  BY <1>1, <1>2, NewJobIsGood
<1> QED BY <1>1, <1>2, <1>3, <1>4, BeginKeeps

LEMMA BeginBasicKeeps == ASSUME ToolsInv, BeginBasic PROVE ToolsInv'
<1>1. PICK os \in {"dos", "basic"}, clear \in BOOLEAN :
        Begin([Idle EXCEPT !.tool = "basic", !.pc = "type", !.keeps = ~clear,
                 !.lines = (IF os = "dos" THEN <<"BASIC">> ELSE <<>>)
                             \o (IF clear THEN <<"NEW">> ELSE <<>>) \o <<"LINE", "RUN">>])
  BY DEF BeginBasic
<1> DEFINE first == IF os = "dos" THEN <<"BASIC">> ELSE <<>>
           second == IF clear THEN <<"NEW">> ELSE <<>>
           lines == first \o second \o <<"LINE", "RUN">>
           keeps == ~clear
<1>2. lines \in Seq(Lines) /\ lines # <<>>
  <2>1. "BASIC" \in Lines /\ "NEW" \in Lines /\ "LINE" \in Lines /\ "RUN" \in Lines
    BY DEF Lines
  <2> HIDE DEF Lines
  <2> DEFINE third == <<"LINE", "RUN">>
  <2>2. first \in Seq(Lines) /\ second \in Seq(Lines) /\ third \in Seq(Lines)
    BY <2>1
  <2> DEFINE opening == first \o second
  <2>3. Len(third) = 2 /\ lines = opening \o third
    OBVIOUS
  <2> HIDE DEF first, second, third, lines
  <2>4. opening \in Seq(Lines)
    BY <2>2
  <2> HIDE DEF opening
  <2>5. /\ lines \in Seq(Lines) /\ Len(opening) \in Nat
        /\ Len(lines) = Len(opening) + 2
    <3>1. opening \o third \in Seq(Lines)
      BY <2>2, <2>4
    <3>2. Len(opening \o third) = Len(opening) + Len(third) /\ Len(opening) \in Nat
      BY <2>2, <2>4
    <3> QED BY <2>3, <3>1, <3>2
  <2>6. Len(lines) # 0
    BY <2>5
  <2> QED BY <2>5, <2>6
<1>3. Begin([Idle EXCEPT !.tool = "basic", !.pc = "type", !.keeps = keeps, !.lines = lines])
  BY <1>1
<1> HIDE DEF lines, keeps
<1>4. Begin(TypingJob("basic", "type", keeps, lines, "done"))
  <2> DEFINE b == Idle
  <2>1. JobRecord(b) /\ b.next = "done" /\ b.keeps = FALSE /\ b.lines = <<>>
    BY IdleIsGood DEF GoodJob
  <2> HIDE DEF b
  <2>2. [b EXCEPT !.tool = "basic", !.pc = "type", !.keeps = keeps, !.lines = lines]
          = [b EXCEPT !.tool = "basic", !.pc = "type", !.keeps = keeps, !.lines = lines,
               !.next = "done"]
    BY <2>1 DEF JobRecord, JobFields
  <2> QED BY <1>3, <2>2 DEF b, TypingJob
<1> QED BY <1>2, <1>4, BeginTypingKeeps

LEMMA BeginFileKeeps == ASSUME ToolsInv, BeginFile PROVE ToolsInv'
<1> DEFINE lines == <<"BASIC", "LOAD", "KILL:RUN">>
<1>1. lines \in Seq(Lines) /\ lines # <<>>
  <2>1. "BASIC" \in Lines /\ "LOAD" \in Lines /\ "KILL:RUN" \in Lines
    BY DEF Lines
  <2> HIDE DEF Lines
  <2> QED BY <2>1
<1>2. Begin([Idle EXCEPT !.tool = "file", !.pc = "put", !.lines = lines])
  BY DEF BeginFile
<1> HIDE DEF lines
<1>3. Begin(TypingJob("file", "put", FALSE, lines, "done"))
  <2> DEFINE b == Idle
  <2>1. JobRecord(b) /\ b.next = "done" /\ b.keeps = FALSE /\ b.lines = <<>>
    BY IdleIsGood DEF GoodJob
  <2> HIDE DEF b
  <2>2. [b EXCEPT !.tool = "file", !.pc = "put", !.lines = lines]
          = [b EXCEPT !.tool = "file", !.pc = "put", !.keeps = FALSE, !.lines = lines,
               !.next = "done"]
    BY <2>1 DEF JobRecord, JobFields
  <2> QED BY <1>2, <2>2 DEF b, TypingJob
<1> QED BY <1>1, <1>3, BeginTypingKeeps

LEMMA BeginRebootKeeps == ASSUME ToolsInv, BeginReboot PROVE ToolsInv'
<1>1. Begin([Idle EXCEPT !.tool = "reboot", !.pc = "reboot", !.next = "empty"])
  BY DEF BeginReboot
<1>2. Begin(TypingJob("reboot", "reboot", FALSE, <<>>, "empty"))
  <2> DEFINE b == Idle
  <2>1. JobRecord(b) /\ b.next = "done" /\ b.keeps = FALSE /\ b.lines = <<>>
    BY IdleIsGood DEF GoodJob
  <2> HIDE DEF b
  <2>2. [b EXCEPT !.tool = "reboot", !.pc = "reboot", !.next = "empty"]
          = [b EXCEPT !.tool = "reboot", !.pc = "reboot", !.keeps = FALSE, !.lines = <<>>,
               !.next = "empty"]
    BY <2>1 DEF JobRecord, JobFields
  <2> QED BY <1>1, <2>2 DEF b, TypingJob
<1>3. <<>> \in Seq(Lines)
  BY NoLines
<1> QED BY <1>2, <1>3, BeginTypingKeeps

----------------------------------------------------------------------------
(* The steps of a call.                                                    *)

LEMMA StopKeeps ==
  ASSUME ToolsInv, AsksStatus \/ AsksPause \/ Freezes \/ Stops
  PROVE  ToolsInv'
<1>1. GoodJob(job) /\ Safe(machine)
  BY DEF ToolsInv
<1>2. GoodJob(Ended("failed")) /\ ~Clean(Ended("failed"))
  BY <1>1, EndedIsGood DEF Clean
<1>3. ASSUME NEW pc \in {"write", "pause", "stop", "freeze"}, job.pc # "idle"
      PROVE  GoodJob(Goes(pc)) /\ ~Clean(Goes(pc))
  BY <1>1, <1>3, GoesIsGood
<1>4. CASE AsksStatus
  <2>1. PICK pc \in {"pause", "stop"} : Asks(Goes(pc)) /\ job.pc = "status"
    BY <1>4 DEF AsksStatus
  <2> QED BY <1>3, <2>1, AsksKeeps
<1>5. CASE AsksPause
  <2>1. \/ Asks(Goes("freeze")) /\ job.pc = "pause"
        \/ Asks(Ended("failed"))
    BY <1>5 DEF AsksPause
  <2> QED BY <1>2, <1>3, <2>1, AsksKeeps
<1>6. CASE Freezes
  <2>1. \/ Does([machine EXCEPT !.os = "paused"], Goes("stop")) /\ job.pc = "freeze"
        \/ Asks(Ended("failed"))
    BY <1>6 DEF Freezes
  <2>2. /\ Safe([machine EXCEPT !.os = "paused"])
        /\ Ends([machine EXCEPT !.os = "paused"]) => Ends(machine)
    BY <1>1, OsIsNotMemory
  <2>3. CASE Asks(Ended("failed"))
    BY <1>2, <2>3, AsksKeeps
  <2>4. CASE Does([machine EXCEPT !.os = "paused"], Goes("stop")) /\ job.pc = "freeze"
    <3> DEFINE w == [machine EXCEPT !.os = "paused"]
    <3> HIDE DEF w
    <3> QED BY <1>3, <2>2, <2>4, DoesKeeps DEF w
  <2> QED BY <2>1, <2>3, <2>4
<1>7. CASE Stops
  <2>1. Does([machine EXCEPT !.os = "monitor"], Goes("write")) /\ job.pc = "stop"
    BY <1>7 DEF Stops
  <2>2. /\ Safe([machine EXCEPT !.os = "monitor"])
        /\ Ends([machine EXCEPT !.os = "monitor"]) => Ends(machine)
    BY <1>1, OsIsNotMemory
  <2>3. GoodJob(Goes("write")) /\ ~Clean(Goes("write"))
    BY <1>3, <2>1
  <2> QED BY <2>1, <2>2, <2>3, DoesKeeps
<1> QED BY <1>4, <1>5, <1>6, <1>7

LEMMA NextSegmentIsGood ==
  ASSUME GoodJob(job), job.pc = "write"
  PROVE  GoodJob(NextSegment) /\ ~Clean(NextSegment)
<1> DEFINE n == NextSegment  at == job.at + 1
<1>1. n = [job EXCEPT !.at = at, !.cell = 0]
  BY DEF NextSegment
<1>2. at \in Nat \ {0} /\ job.result = "none" /\ JobRecord(job)
  BY DEF GoodJob
<1> HIDE DEF n, at
<1>3. /\ JobRecord(n) /\ n.app = job.app /\ n.at = at /\ n.cell = 0
      /\ n.lines = job.lines /\ n.next = job.next /\ n.after = job.after
      /\ n.tool = job.tool /\ n.result = job.result /\ n.pc = job.pc
  BY <1>1, <1>2 DEF JobRecord, JobFields
<1>4. GoodJob(n)
  BY <1>2, <1>3 DEF GoodJob
<1>5. ~Clean(n)
  BY <1>2, <1>3 DEF Clean
<1> QED BY <1>4, <1>5 DEF n

LEMMA WriteCellKeeps == ASSUME ToolsInv, WriteCell PROVE ToolsInv'
<1> DEFINE cell == job.cell + 1
           onward == [job EXCEPT !.cell = cell]
           target == Segment.address + job.cell
           effect == WithCell(Segment.space, target)
           at == job.at
<1>1. /\ GoodJob(job) /\ Safe(machine) /\ JobRecord(job) /\ job.pc = "write"
      /\ job.result = "none" /\ job.cell \in Nat /\ cell \in Nat
      /\ machine.runtime \in Runtimes /\ MachineRecord(machine)
  BY DEF ToolsInv, GoodJob, Safe, WriteCell
<1>2. Segment \in Segments
  <2>1. /\ job.app.segments \in Seq(Segments) /\ job.at \in Nat \ {0}
        /\ ~(job.at > Len(job.app.segments))
    BY DEF ToolsInv, GoodJob, WriteCell, SegmentsAreDone
  <2> QED BY <2>1 DEF Segment
<1>3. Does(effect, onward) /\ RangeAllowed(Segment) /\ job.cell < Segment.length
  BY DEF WriteCell
<1>4. /\ Segment.address \in Nat /\ Segment.length \in Nat
      /\ Segment.space \in {"ram", "vram"}
  BY <1>2 DEF Segments
<1>5. target \in CellsOf(Segment) /\ target \in Int
  BY <1>1, <1>3, <1>4 DEF CellsOf, EndOf
<1>6. Kept(effect)
  <2>1. CASE effect = machine
    BY <1>1, <2>1 DEF Kept
  <2>2. CASE Segment.space = "vram" /\ effect = [machine EXCEPT !.vram[target] = at]
    <3> HIDE DEF effect, target, at
    <3>1. /\ MachineRecord(effect) /\ effect.runtime = machine.runtime
          /\ effect.ram = machine.ram /\ effect.ring = machine.ring
          /\ effect.os = machine.os /\ effect.under = machine.under
      BY <1>1, <2>2 DEF MachineRecord, MachineFields
    <3>2. Safe(effect)
      BY <1>1, <3>1 DEF Safe
    <3> QED BY <3>1, <3>2 DEF Kept, Ends, AtHead
  <2>3. CASE Segment.space = "ram" /\ effect = [machine EXCEPT !.ram[target] = at]
    <3>1. target \notin AgentCells(machine.runtime)
      BY <1>3, <1>5, <2>3 DEF RangeAllowed, Runtime
    <3> HIDE DEF target, at
    <3> QED BY <1>1, <1>5, <2>3, <3>1, RamIsWritten
  <2>4. \/ Segment.space = "vram" /\ effect = [machine EXCEPT !.vram[target] = at]
        \/ Segment.space = "ram" /\ effect = [machine EXCEPT !.ram[target] = at]
        \/ effect = machine
    BY DEF WithCell
  <2> QED BY <2>1, <2>2, <2>3, <2>4
<1> HIDE DEF cell, effect
<1>7. /\ JobRecord(onward) /\ onward.app = job.app /\ onward.at = job.at
      /\ onward.cell = cell /\ onward.lines = job.lines /\ onward.next = job.next
      /\ onward.after = job.after /\ onward.tool = job.tool
      /\ onward.result = job.result /\ onward.pc = job.pc
  BY <1>1 DEF JobRecord, JobFields
<1> HIDE DEF onward
<1>8. GoodJob(onward)
  BY <1>1, <1>7 DEF GoodJob
<1>9. ~Clean(onward)
  BY <1>1, <1>7 DEF Clean
<1> QED BY <1>3, <1>6, <1>8, <1>9, DoesKeeps DEF Kept

\* A line is about to be typed, and what comes behind it.
LEMMA TypesNext ==
  ASSUME GoodJob(job), job.pc # "idle", NEW text \in Lines, NEW after \in {"done", "probe"},
         NEW tries
  PROVE  /\ LET g == [Goes("type") EXCEPT !.lines = <<text>>, !.tries = tries,
                                          !.after = after, !.next = "done"]
            IN GoodJob(g) /\ ~Clean(g)
         /\ LET g == [Goes("type") EXCEPT !.lines = <<text>>, !.after = after]
            IN GoodJob(g) /\ ~Clean(g)
<1> DEFINE b == Goes("type")  lines == <<text>>
           g == [b EXCEPT !.lines = lines, !.tries = tries, !.after = after,
                          !.next = "done"]
           h == [b EXCEPT !.lines = lines, !.after = after]
<1>1. lines \in Seq(Lines) /\ lines # <<>>
  <2> HIDE DEF Lines
  <2> QED OBVIOUS
<1>2. JobRecord(job) /\ job.result = "none"
  BY DEF GoodJob
<1>3. /\ JobRecord(b) /\ b.app = job.app /\ b.at = job.at /\ b.cell = job.cell
      /\ b.next = job.next /\ b.tool = job.tool /\ b.result = job.result /\ b.pc = "type"
  BY <1>2 DEF Goes, JobRecord, JobFields
<1> HIDE DEF b, lines
<1>4. /\ JobRecord(g) /\ g.app = b.app /\ g.at = b.at /\ g.cell = b.cell
      /\ g.next = "done" /\ g.tool = b.tool /\ g.result = b.result /\ g.pc = b.pc
      /\ g.lines = lines /\ g.after = after
  BY <1>3 DEF JobRecord, JobFields
<1>5. /\ JobRecord(h) /\ h.app = b.app /\ h.at = b.at /\ h.cell = b.cell
      /\ h.next = b.next /\ h.tool = b.tool /\ h.result = b.result /\ h.pc = b.pc
      /\ h.lines = lines /\ h.after = after
  BY <1>3 DEF JobRecord, JobFields
<1> HIDE DEF g, h
<1>6. GoodJob(g) /\ ~Clean(g)
  BY <1>1, <1>2, <1>3, <1>4 DEF GoodJob, Clean
<1>7. GoodJob(h) /\ ~Clean(h)
  BY <1>1, <1>2, <1>3, <1>5 DEF GoodJob, Clean
<1> QED BY <1>6, <1>7 DEF b, lines, g, h

LEMMA FailsByItself ==
  ASSUME ToolsInv, job.pc # "idle", job' = Ended("failed"),
         UNCHANGED <<machine, link, touched, jobs>>
  PROVE  ToolsInv'
<1>1. GoodJob(job') /\ ~Clean(job')
  BY EndedIsGood DEF ToolsInv, Clean
<1> QED BY <1>1, HostKeeps

LEMMA VerifiesKeeps == ASSUME ToolsInv, Verifies PROVE ToolsInv'
<1>1. GoodJob(job) /\ job.pc = "write"
  BY DEF ToolsInv, Verifies
<1>2. /\ GoodJob(NextSegment) /\ ~Clean(NextSegment)
      /\ GoodJob(Ended("failed")) /\ ~Clean(Ended("failed"))
  BY <1>1, NextSegmentIsGood, EndedIsGood DEF Clean
<1>3. \/ Asks(NextSegment)
      \/ Asks(Ended("failed"))
      \/ job' = NextSegment /\ UNCHANGED <<machine, link, touched, jobs>>
  BY DEF Verifies
<1> QED BY <1>1, <1>2, <1>3, AsksKeeps, HostKeeps

LEMMA LoadedKeeps == ASSUME ToolsInv, Loaded PROVE ToolsInv'
<1>1. GoodJob(job) /\ job.pc = "write" /\ UNCHANGED <<machine, link, touched, jobs>>
  BY DEF ToolsInv, Loaded
<1> DEFINE after == IF job.entry.mode = "call" THEN "probe" ELSE "done"
           g == [Goes("type") EXCEPT !.lines = <<"USR">>, !.tries = 0, !.after = after,
                                     !.next = "done"]
<1>2. \/ job' = Ended("ok")
      \/ job' = Goes("execute")
      \/ job' = g
  BY DEF Loaded
<1>3. GoodJob(Ended("ok")) /\ ~Clean(Ended("ok"))
  BY <1>1, EndedIsGood DEF Clean
<1>4. GoodJob(Goes("execute")) /\ ~Clean(Goes("execute"))
  BY <1>1, GoesIsGood
<1>5. GoodJob(g) /\ ~Clean(g)
  <2>1. "USR" \in Lines
    BY DEF Lines
  <2>2. after \in {"done", "probe"}
    OBVIOUS
  <2> HIDE DEF after, Lines
  <2> QED BY <1>1, <2>1, <2>2, TypesNext
<1> HIDE DEF g
<1>6. GoodJob(job') /\ ~Clean(job')
  BY <1>2, <1>3, <1>4, <1>5
<1> QED BY <1>1, <1>6, HostKeeps

LEMMA ExecutesKeeps == ASSUME ToolsInv, Executes PROVE ToolsInv'
<1> DEFINE what == <<"image", machine.ram, machine.vram, jobs>>
           ran == [machine EXCEPT !.ran = what]
           busy == [ran EXCEPT !.os = "busy"]
<1>1. GoodJob(job) /\ Safe(machine) /\ MachineRecord(machine)
  BY DEF ToolsInv, Safe
<1>2. /\ GoodJob(Ended("ok")) /\ ~Clean(Ended("ok"))
      /\ GoodJob(Ended("failed")) /\ ~Clean(Ended("failed"))
  BY <1>1, EndedIsGood DEF Clean
<1>3. \/ Does(busy, Ended("ok"))
      \/ Does(ran, Ended("ok")) /\ machine.os = "monitor"
      \/ Asks(Ended("failed"))
  BY DEF Executes
<1> HIDE DEF what
<1>4. /\ MachineRecord(ran) /\ ran.runtime = machine.runtime /\ ran.ram = machine.ram
      /\ ran.ring = machine.ring /\ ran.os = machine.os /\ ran.under = machine.under
  BY <1>1 DEF MachineRecord, MachineFields
<1> HIDE DEF ran
<1>5. /\ MachineRecord(busy) /\ busy.runtime = machine.runtime /\ busy.ram = machine.ram
      /\ busy.ring = machine.ring /\ busy.os = "busy" /\ busy.under = machine.under
  BY <1>4 DEF MachineRecord, MachineFields
<1> HIDE DEF busy
<1>6. Safe(ran) /\ (Ends(ran) => Ends(machine)) /\ Safe(busy) /\ (Ends(busy) => Ends(machine))
  BY <1>1, <1>4, <1>5 DEF Safe, Ends
<1> QED BY <1>2, <1>3, <1>6, DoesKeeps, AsksKeeps

LEMMA LooksKeeps == ASSUME ToolsInv, LooksAtScreen PROVE ToolsInv'
<1> DEFINE g == [Goes("type") EXCEPT !.lines = <<"BASIC">>, !.after = "probe"]
<1>1. GoodJob(job) /\ job.pc = "screen" /\ ~touched
  BY DEF ToolsInv, LooksAtScreen, Clean
<1>2. \/ Asks(Goes(job.next))
      \/ Asks(g)
      \/ Asks(Ended("refused"))
  BY DEF LooksAtScreen
<1>3. GoodJob(Goes(job.next))
  <2>1. /\ job.next \in {"done", "write", "empty"}
        /\ job.next = "empty" => job.tool = "reboot"
    BY <1>1 DEF GoodJob
  <2> QED BY <1>1, <2>1, GoesIsGood
<1>4. GoodJob(Ended("refused"))
  BY <1>1, EndedIsGood
<1>5. GoodJob(g)
  <2>1. "BASIC" \in Lines
    BY DEF Lines
  <2> HIDE DEF Lines
  <2> QED BY <1>1, <2>1, TypesNext
<1> HIDE DEF g
<1> QED BY <1>1, <1>2, <1>3, <1>4, <1>5, AsksKeeps

LEMMA TypesKeeps == ASSUME ToolsInv, TypesLine PROVE ToolsInv'
<1> DEFINE text == Head(job.lines)  rest == Tail(job.lines)  b == Goes("drain")
           effect == Typed(text, jobs)  g == [b EXCEPT !.lines = rest]
<1>1. /\ GoodJob(job) /\ Safe(machine) /\ job.pc = "type" /\ jobs \in Nat
      /\ job.lines \in Seq(Lines) /\ job.lines # <<>>
      /\ JobRecord(job) /\ job.result = "none"
  BY DEF ToolsInv, TypesLine, GoodJob
<1>2. text \in Lines /\ rest \in Seq(Lines)
  <2> HIDE DEF Lines
  <2> QED BY <1>1
<1>3. Does(effect, g)
  <2>1. /\ JobRecord(b) /\ b.lines = job.lines
    BY <1>1 DEF Goes, JobRecord, JobFields
  <2>2. Does(effect, [b EXCEPT !.lines = Tail(@)])
    BY DEF TypesLine
  <2> HIDE DEF b
  <2> QED BY <2>1, <2>2 DEF JobRecord, JobFields
<1>4. text \in Lines \cup {"PROG", "REBOOT"} /\ text # "REBOOT"
  BY <1>2 DEF Lines
<1> HIDE DEF text, rest
<1>5. Safe(effect) /\ (Ends(effect) => Ends(machine))
  BY <1>1, <1>4, TypedIsSafe
<1>6. /\ JobRecord(b) /\ b.app = job.app /\ b.at = job.at /\ b.cell = job.cell
      /\ b.next = job.next /\ b.after = job.after /\ b.tool = job.tool
      /\ b.result = job.result /\ b.pc = "drain"
  BY <1>1 DEF Goes, JobRecord, JobFields
<1> HIDE DEF b, effect
<1>7. /\ JobRecord(g) /\ g.app = b.app /\ g.at = b.at /\ g.cell = b.cell
      /\ g.next = b.next /\ g.after = b.after /\ g.tool = b.tool
      /\ g.result = b.result /\ g.pc = b.pc /\ g.lines = rest
  BY <1>6 DEF JobRecord, JobFields
<1> HIDE DEF g
<1>8. GoodJob(g) /\ ~Clean(g)
  BY <1>1, <1>2, <1>6, <1>7 DEF GoodJob, Clean
<1> QED BY <1>3, <1>5, <1>8, DoesKeeps

LEMMA DrainedKeeps == ASSUME ToolsInv, Drained \/ FindsRingEmpty PROVE ToolsInv'
<1>1. /\ GoodJob(job) /\ job.after \in {"done", "probe"}
      /\ job.pc = "empty" => job.tool = "reboot"
  BY DEF ToolsInv, GoodJob
<1>2. CASE Drained
  <2> DEFINE pc == IF job.lines # <<>> THEN "type" ELSE job.after
  <2>1. Asks(Goes(pc)) /\ job.pc = "drain"
    BY <1>2 DEF Drained
  <2>2. pc \in {"type", "done", "probe"} /\ (pc = "type" => job.lines # <<>>)
    BY <1>1
  <2> HIDE DEF pc
  <2>3. GoodJob(Goes(pc)) /\ ~Clean(Goes(pc))
    BY <1>1, <2>1, <2>2, GoesIsGood
  <2> QED BY <2>1, <2>3, AsksKeeps
<1>3. CASE FindsRingEmpty
  <2>1. Asks(Goes("publish")) /\ job.pc = "empty"
    BY <1>3 DEF FindsRingEmpty
  <2>2. GoodJob(Goes("publish")) /\ ~Clean(Goes("publish"))
    BY <1>1, <2>1, GoesIsGood
  <2> QED BY <2>1, <2>2, AsksKeeps
<1> QED BY <1>2, <1>3

LEMMA ProbesKeeps == ASSUME ToolsInv, Probes PROVE ToolsInv'
<1> DEFINE tries == job.tries + 1  g == [job EXCEPT !.tries = tries]
<1>1. /\ GoodJob(job) /\ job.pc = "probe" /\ JobRecord(job) /\ job.result = "none"
      /\ job.next \in {"done", "write", "empty"}
      /\ job.next = "empty" => job.tool = "reboot"
  BY DEF ToolsInv, Probes, GoodJob
<1>2. \/ Asks(Goes(job.next))
      \/ Asks(g)
      \/ Asks(Ended("failed"))
  BY DEF Probes
<1>3. GoodJob(Goes(job.next)) /\ ~Clean(Goes(job.next))
  BY <1>1, GoesIsGood
<1>4. GoodJob(Ended("failed")) /\ ~Clean(Ended("failed"))
  BY <1>1, EndedIsGood DEF Clean
<1> HIDE DEF tries
<1>5. /\ JobRecord(g) /\ g.app = job.app /\ g.at = job.at /\ g.cell = job.cell
      /\ g.next = job.next /\ g.after = job.after /\ g.tool = job.tool
      /\ g.result = job.result /\ g.pc = job.pc /\ g.lines = job.lines
  BY <1>1 DEF JobRecord, JobFields
<1> HIDE DEF g
<1>6. GoodJob(g) /\ ~Clean(g)
  BY <1>1, <1>5 DEF GoodJob, Clean
<1> QED BY <1>2, <1>3, <1>4, <1>6, AsksKeeps

LEMMA PutsKeeps == ASSUME ToolsInv, Puts PROVE ToolsInv'
<1>1. /\ GoodJob(job) /\ job.pc = "put" /\ job.lines # <<>>
      /\ Safe(machine) /\ MachineRecord(machine) /\ jobs \in Nat /\ jobs' = jobs
      /\ link = "up" /\ ~Ends(machine)
  BY DEF ToolsInv, Puts, GoodJob, Safe
<1>2. /\ GoodJob(Goes("type")) /\ ~Clean(Goes("type"))
  BY <1>1, GoesIsGood
<1>3. /\ GoodJob(Ended("failed")) /\ ~Clean(Ended("failed"))
      /\ Ended("failed").pc = "idle"
  BY <1>1, EndedIsGood DEF Clean
<1>4. GoodJob(job') /\ ~Clean(job') /\ (job'.pc # "idle" => link' = "up")
  BY <1>1, <1>2, <1>3 DEF Puts
<1>5. PICK temp \in BOOLEAN, os \in {"dos", "worker"} :
        \/ machine' = [machine EXCEPT !.temp = temp, !.os = os, !.shows = "other"]
        \/ machine' = [machine EXCEPT !.temp = temp, !.os = os]
  BY DEF Puts
<1>6. /\ MachineRecord(machine') /\ machine'.runtime = machine.runtime
      /\ machine'.ram = machine.ram /\ machine'.ring = machine.ring
      /\ machine'.os = os /\ machine'.under = machine.under
  BY <1>1, <1>5 DEF MachineRecord, MachineFields
<1>7. Safe(machine') /\ ~Ends(machine')
  BY <1>1, <1>5, <1>6 DEF Safe, Ends
<1>8. AtHead(machine')
  BY <1>7 DEF Ends, AtHead
<1> QED BY <1>1, <1>4, <1>7, <1>8 DEF ToolsInv

\* The two requests that end an attachment.
LEMMA TerminalKeeps ==
  ASSUME ToolsInv, job.tool = "reboot", NEW effect, NEW result \in {"ok", "failed"},
         Exchange(effect, Ended(result), "closed"), Safe(effect),
         result = "ok" => AtHead(effect)
  PROVE  ToolsInv'
<1>1. /\ GoodJob(job) /\ Safe(machine) /\ jobs \in Nat /\ jobs' = jobs
  BY DEF ToolsInv, Exchange
<1>2. /\ machine' = machine \/ machine' = effect
      /\ link' = "closed"
  BY DEF Exchange, AfterLoss
<1>3. \/ job' = Ended(result) /\ machine' = effect
      \/ job' = Ended("failed")
  BY DEF Exchange
<1>4. \A r \in {"ok", "failed"} :
        /\ GoodJob(Ended(r)) /\ ~Clean(Ended(r))
        /\ Ended(r).pc = "idle" /\ Ended(r).result = r
  BY <1>1, EndedIsGood DEF Clean
<1>5. /\ GoodJob(job') /\ ~Clean(job') /\ job'.pc = "idle"
      /\ job'.result = "ok" => AtHead(machine')
  BY <1>3, <1>4
<1>6. Safe(machine')
  BY <1>1, <1>2
<1> QED BY <1>1, <1>2, <1>5, <1>6 DEF ToolsInv

LEMMA RebootsKeeps == ASSUME ToolsInv, Reboots PROVE ToolsInv'
<1> DEFINE effect == [machine EXCEPT !.os = "gone"]
<1>1. /\ GoodJob(job) /\ job.pc = "reboot" /\ job.tool = "reboot" /\ Safe(machine)
      /\ ~touched /\ ~Ends(machine) /\ MachineRecord(machine)
  BY DEF ToolsInv, Reboots, GoodJob, Clean, Safe
<1>2. CASE Asks(Goes("screen"))
  <2>1. GoodJob(Goes("screen"))
    BY <1>1, GoesIsGood
  <2> QED BY <1>1, <1>2, <2>1, AsksKeeps
<1>3. CASE Exchange(effect, Ended("ok"), "closed")
  <2>1. /\ MachineRecord(effect) /\ effect.runtime = machine.runtime
        /\ effect.ram = machine.ram /\ effect.ring = machine.ring
        /\ effect.under = machine.under
    BY <1>1 DEF MachineRecord, MachineFields
  <2> HIDE DEF effect
  <2>2. Safe(effect)
    BY <1>1, <2>1 DEF Safe
  <2>3. AtHead(effect)
    BY <1>1, <2>1 DEF Ends, AtHead
  <2> QED BY <1>1, <1>3, <2>2, <2>3, TerminalKeeps
<1> QED BY <1>2, <1>3 DEF Reboots

LEMMA PublishesKeeps == ASSUME ToolsInv, Publishes PROVE ToolsInv'
<1> DEFINE result == IF machine.ring = <<>> THEN "ok" ELSE "failed"
           effect == Typed("REBOOT", jobs)
<1>1. /\ job.tool = "reboot" /\ Safe(machine) /\ jobs \in Nat
  BY DEF ToolsInv, Publishes, GoodJob
<1>2. Exchange(effect, Ended(result), "closed")
  BY DEF Publishes
<1>3. /\ result \in {"ok", "failed"}
      /\ result = "ok" => machine.ring = <<>>
  OBVIOUS
<1>4. Safe(effect) /\ (machine.ring = <<>> => AtHead(effect))
  BY <1>1, TypedIsSafe
<1> HIDE DEF result, effect
<1> QED BY <1>1, <1>2, <1>3, <1>4, TerminalKeeps

LEMMA HandlerKeeps == ASSUME ToolsInv, Handler PROVE ToolsInv'
<1>1. CASE BeginLoad \/ BeginAsm \/ BeginBasic \/ BeginFile \/ BeginReboot
  BY <1>1, BeginLoadKeeps, BeginAsmKeeps, BeginBasicKeeps, BeginFileKeeps, BeginRebootKeeps
<1>2. CASE AsksStatus \/ AsksPause \/ Freezes \/ Stops
  BY <1>2, StopKeeps
<1>3. CASE WriteRefused \/ NeverDrained
  BY <1>3, FailsByItself DEF WriteRefused, NeverDrained
<1>4. CASE WriteCell \/ Verifies \/ Loaded \/ Executes
  BY <1>4, WriteCellKeeps, VerifiesKeeps, LoadedKeeps, ExecutesKeeps
<1>5. CASE LooksAtScreen \/ TypesLine \/ Drained \/ Probes \/ FindsRingEmpty
  BY <1>5, LooksKeeps, TypesKeeps, DrainedKeeps, ProbesKeeps
<1>6. CASE Puts \/ Reboots \/ Publishes
  BY <1>6, PutsKeeps, RebootsKeeps, PublishesKeeps
<1> QED BY <1>1, <1>2, <1>3, <1>4, <1>5, <1>6 DEF Handler

----------------------------------------------------------------------------
LEMMA ToolsInvInitially == Init => ToolsInv
<1> SUFFICES ASSUME Init PROVE ToolsInv
  OBVIOUS
<1>1. GoodJob(job) /\ job.result = "none" /\ job.pc = "idle" /\ jobs \in Nat /\ ~touched
  BY IdleIsGood DEF Init
<1>2. /\ MachineRecord(machine) /\ machine.runtime \in Runtimes
      /\ machine.under \in {"dos", "basic", "monitor"} /\ machine.os # "gone"
      /\ machine.ring = <<>> /\ machine.ram = [c \in 0 .. RamCells - 1 |-> 0]
  BY DEF Init, MachineInit, MachineRecord, MachineFields
<1>3. machine.ring \in Seq(Keys) /\ DOMAIN machine.ring = {}
  BY <1>2, NoLines
<1>4. Safe(machine)
  BY <1>2, <1>3 DEF Safe, AgentCells, RamCells
<1>5. ~Ends(machine)
  BY <1>2, <1>3 DEF Ends
<1> QED BY <1>1, <1>4, <1>5 DEF ToolsInv, Clean

LEMMA ToolsInvStep == ToolsInv /\ [Next]_vars => ToolsInv'
<1> SUFFICES ASSUME ToolsInv, [Next]_vars PROVE ToolsInv'
  OBVIOUS
<1>1. CASE Handler
  BY <1>1, HandlerKeeps
<1>2. CASE Attach
  <2>1. ~Ends(machine) /\ link' = "up" /\ UNCHANGED <<machine, job, touched, jobs>>
    BY <1>2 DEF Attach, Terminal, Ends
  <2> QED BY <2>1 DEF ToolsInv
<1>3. CASE MachineStep /\ UNCHANGED <<job, link, touched, jobs, faults>>
  <2>1. Kept(machine')
    BY <1>3, MachineKeeps DEF ToolsInv
  <2> QED BY <1>3, <2>1 DEF ToolsInv, Kept
<1>4. CASE UNCHANGED vars
  BY <1>4 DEF vars, ToolsInv
<1> QED BY <1>1, <1>2, <1>3, <1>4 DEF Next

\* No tool ever writes over the memory the agent runs in, for every file a
\* caller may name and whatever else is done to the machine meanwhile.
THEOREM AgentKept == Spec => []AgentIntact
<1>1. ToolsInv => AgentIntact
  BY DEF ToolsInv, Safe, AgentIntact, Runtime
<1> QED BY <1>1, ToolsInvInitially, ToolsInvStep, PTL DEF Spec

\* A call that is refused has changed nothing on the machine, though it may
\* have asked it for its screen first.
THEOREM RefusalsAreClean == Spec => []RefusalChangesNothing
<1>1. ToolsInv => RefusalChangesNothing
  BY DEF ToolsInv, Clean, RefusalChangesNothing
<1> QED BY <1>1, ToolsInvInitially, ToolsInvStep, PTL DEF Spec

\* A reboot that may have been submitted leaves the link closed, and one that
\* is reported as submitted is what BASIC reads next.
THEOREM RebootEnds == Spec => []RebootIsTerminal
<1>1. ToolsInv => RebootIsTerminal
  <2> SUFFICES ASSUME ToolsInv PROVE RebootIsTerminal
    OBVIOUS
  <2>1. Terminal => link = "closed"
    BY DEF ToolsInv, Ends, Terminal
  <2>2. ASSUME job.tool = "reboot", job.result = "ok", Terminal, machine.os # "gone"
        PROVE  Head(machine.ring).text = "REBOOT"
    <3>1. PICK i \in DOMAIN machine.ring : machine.ring[i].text = "REBOOT"
      BY <2>2 DEF Terminal
    <3>2. i = 1
      BY <2>2, <3>1 DEF ToolsInv, AtHead
    <3>3. machine.ring \in Seq(Keys)
      BY DEF ToolsInv, Safe
    <3>4. Head(machine.ring) = machine.ring[1]
      <4> HIDE DEF Keys
      <4> QED BY <3>1, <3>2, <3>3
    <3> QED BY <3>1, <3>2, <3>4
  <2> QED BY <2>1, <2>2 DEF RebootIsTerminal
<1> QED BY <1>1, ToolsInvInitially, ToolsInvStep, PTL DEF Spec

----------------------------------------------------------------------------
(* What a program finds when it runs, while nobody else uses the machine.  *)

\* The numbers of the segments that cover a cell, and of those that the job
\* has written there so far.
Covering(app, space, cell) ==
  {i \in DOMAIN app.segments :
     app.segments[i].space = space /\ cell \in CellsOf(app.segments[i])}
Placed(j, space, cell) ==
  {i \in Covering(j.app, space, cell) :
     i < j.at \/ (i = j.at /\ cell < j.app.segments[i].address + j.cell)}

\* A cell that some of these segments cover holds the latest one of them.
IsLatest(i, S) == S # {} => i \in S /\ \A k \in S : k <= i
Complete(ram, vram, app) ==
  \A cell \in Nat : /\ IsLatest(ram[cell], Covering(app, "ram", cell))
                    /\ IsLatest(vram[cell], Covering(app, "vram", cell))
InPlace(m, j) ==
  \A cell \in Nat : /\ IsLatest(m.ram[cell], Placed(j, "ram", cell))
                    /\ IsLatest(m.vram[cell], Placed(j, "vram", cell))
                    /\ Placed(j, "ram", cell) # {} => cell < RamCells
                    /\ Placed(j, "vram", cell) # {} => cell < VramCells

\* The machine while nobody types on it, in the n-th call.
MonitorStates == {"monitor", "busy", "paused"}
SystemStates == {"dos", "basic", "starting", "busy", "worker", "gone"}
Quiet(m, n) ==
  /\ m.runtime = "monitor" =>
       m.os \in MonitorStates /\ m.under = "monitor" /\ m.ring = <<>>
  /\ m.runtime # "monitor" => m.os \in SystemStates /\ m.under \in {"dos", "basic"}
  /\ m.os \in {"dos", "basic"} => m.under = m.os
  /\ m.shows = "basic" => m.os \in {"basic", "gone"}
  /\ DOMAIN m.vram = 0 .. VramCells - 1 /\ m.vramSize \in 1 .. VramCells
  /\ m.program \in Seq({"old", "new"})
  /\ \A i \in DOMAIN m.ring : m.ring[i].by <= n

\* Nothing moves by itself: the monitor waits, or BASIC with an empty ring.
Steady(m) == m.ring = <<>> /\ m.os \in {"monitor", "basic"}

\* app_load: where the call is, and what memory holds by then.
Halting == {"status", "pause", "freeze", "stop"}
Reading == {"screen", "type", "drain", "probe"}
Route(m, j) ==
  \/ /\ j.route = "direct" /\ j.pc \in Halting \cup {"write", "execute"}
     /\ j.pc # "write" \/ j.entry.mode # "none" => m.runtime = "monitor"
  \/ /\ j.route = "basic" /\ j.pc \in Reading \cup {"write"}
     /\ m.runtime = "resident"
     /\ \A i \in DOMAIN j.app.segments :
          j.app.segments[i].space = "ram" /\ j.app.segments[i].address >= 4
Loading(m, j) ==
  /\ Route(m, j)
  /\ j.pc \in Halting \cup {"screen", "write"} => j.next = "write"
  /\ j.next = "write" /\ j.pc \in Halting \cup Reading => j.at = 1 /\ j.cell = 0
  /\ j.pc = "write" /\ j.entry.mode # "none" => Steady(m) /\ InPlace(m, j)
  /\ j.pc = "execute" => Steady(m) /\ Complete(m.ram, m.vram, j.app)
  /\ j.pc = "type" /\ j.next = "write" => j.lines = <<"BASIC">>
  /\ j.pc = "type" /\ j.next # "write" =>
       j.lines = <<"USR">> /\ Steady(m) /\ Complete(m.ram, m.vram, j.app)
  /\ j.pc = "drain" => j.lines = <<>>
  /\ j.next \in {"write", "done"}

\* The line that runs the image stands alone in the ring, and the image is there.
Submits(m, j, n) ==
  \A i \in DOMAIN m.ring :
    m.ring[i].text = "USR" /\ m.ring[i].by = n =>
      /\ Len(m.ring) = 1 /\ m.os = "basic" /\ Complete(m.ram, m.vram, j.app)
      /\ j.pc = "idle" \/ (j.pc = "drain" /\ j.next = "done")
RanWhole(m, j, n) ==
  Len(m.ran) = 4 /\ m.ran[1] = "image" /\ m.ran[4] = n =>
    Complete(m.ran[2], m.ran[3], j.app)
LoadFits(m, j, n) ==
  /\ j.pc # "idle" => Loading(m, j)
  /\ Submits(m, j, n) /\ RanWhole(m, j, n)

\* run_basic: the lines that BASIC has still to read, and where it is by then.
Ahead(m, j) == IF m.ring = <<>> THEN j.lines ELSE <<m.ring[1].text>> \o j.lines
Stage(m, keeps, r) ==
  \/ r = <<"BASIC", "LOAD", "KILL:RUN">> /\ m.temp /\ m.os \in {"dos", "worker"}
  \/ r = <<"LOAD", "KILL:RUN">> /\ m.temp /\ m.os \in {"starting", "basic"}
  \/ r = <<"KILL:RUN">> /\ m.temp /\ m.os = "basic" /\ m.program = <<"new">>
  \/ r = <<"BASIC", "NEW", "LINE", "RUN">> /\ ~m.temp /\ m.os = "dos"
  \/ r = <<"BASIC", "LINE", "RUN">> /\ ~m.temp /\ m.os = "dos" /\ keeps
  \/ r = <<"NEW", "LINE", "RUN">> /\ ~m.temp /\ m.os \in {"starting", "basic"}
  \/ /\ r = <<"LINE", "RUN">> /\ ~m.temp /\ m.os \in {"starting", "basic"}
     /\ keeps \/ m.program = <<>>
  \/ r = <<"RUN">> /\ ~m.temp /\ m.os = "basic" /\ (keeps \/ m.program = <<"new">>)
  \/ r = <<>> /\ ~m.temp /\ (keeps \/ m.ran = <<"new">>)
Typing(m, j) ==
  /\ j.pc \in {"put", "type", "drain"} /\ j.after = "done"
  /\ j.pc = "put" =>
       m.ring = <<>> /\ m.os = "dos" /\ j.lines = <<"BASIC", "LOAD", "KILL:RUN">>
  /\ j.pc = "type" => m.ring = <<>>
  /\ j.pc \in {"type", "drain"} => Len(m.ring) <= 1 /\ Stage(m, j.keeps, Ahead(m, j))
BasicFits(m, j) ==
  /\ j.pc # "idle" => Typing(m, j)
  /\ j.result = "ok" => m.ring = <<>> /\ Stage(m, j.keeps, <<>>)

\* The other tools: only the reboot uses the keyboard, and nothing else.
OtherFits(m, j) ==
  /\ j.tool = "reboot" =>
       /\ m.runtime = "resident"
       /\ j.pc \in Reading \cup {"reboot", "empty", "publish", "idle"}
       /\ j.pc # "idle" => j.next = "empty"
  /\ j.tool = "asm" => j.route = "direct" /\ j.pc \in {"write", "execute", "idle"}
  /\ j.tool \notin {"reboot", "asm"} => j.pc = "idle"

RunFits(m, j, n) ==
  /\ Quiet(m, n)
  /\ j.tool = "load" => LoadFits(m, j, n)
  /\ j.tool \in {"basic", "file"} => BasicFits(m, j)
  /\ j.tool \notin {"load", "basic", "file"} => OtherFits(m, j)
RunInv ==
  /\ ToolsInv /\ hands \in Nat
  /\ hands = 0 => RunFits(machine, job, jobs)

----------------------------------------------------------------------------
(* The machine by itself.                                                  *)

\* What a line does that a prompt reads.
LEMMA LineDoes ==
  ASSUME MachineRecord(machine), AtPrompt, NEW text, NEW by
  PROVE  LET w == AfterLine(text, by)
         IN /\ MachineRecord(w) /\ w.runtime = machine.runtime /\ w.under = machine.under
            /\ w.vramSize = machine.vramSize /\ w.ram = machine.ram /\ w.vram = machine.vram
            /\ w.ring = Tail(machine.ring)
            /\ \/ w.os = machine.os /\ w.shows \in {machine.shows, machine.os, "other"}
               \/ w.os \in {"busy", "starting"} /\ w.shows = "other"
               \/ w.os = "gone" /\ w.shows = machine.shows
            /\ w.program \in {machine.program, <<>>, <<"new">>, Append(machine.program, "new")}
            /\ w.ran \in {machine.ran, machine.program,
                          <<"image", machine.ram, machine.vram, by>>}
            /\ w.ran = <<"image", machine.ram, machine.vram, by>> =>
                 \/ w.ran = machine.ran \/ w.ran = machine.program
                 \/ text = "USR"
<1> DEFINE rest == Tail(machine.ring)
           m == [machine EXCEPT !.ring = rest]
           Runs(what) == [m EXCEPT !.os = "busy", !.shows = "other", !.ran = what]
           w == AfterLine(text, by)
           image == <<"image", machine.ram, machine.vram, by>>
           Kin(x) == /\ MachineRecord(x) /\ x.runtime = machine.runtime
                     /\ x.under = machine.under /\ x.vramSize = machine.vramSize
                     /\ x.ram = machine.ram /\ x.vram = machine.vram /\ x.ring = rest
<1>1. \/ text = "PROG" /\ w = [m EXCEPT !.os = "busy", !.shows = "other"]
      \/ w = [m EXCEPT !.os = "starting", !.shows = "other", !.program = <<>>]
      \/ w = [m EXCEPT !.program = <<>>]
      \/ w = [m EXCEPT !.program = Append(@, "new"), !.shows = "other"]
      \/ w = [m EXCEPT !.program = <<"new">>]
      \/ w = Runs(machine.program)
      \/ w = [Runs(machine.program) EXCEPT !.temp = FALSE]
      \/ text = "USR" /\ w = Runs(image)
      \/ w = [m EXCEPT !.os = "gone"]
      \/ w = [m EXCEPT !.shows = machine.os]
  BY DEF AfterLine
<1> HIDE DEF rest, image, w
<1>2. /\ Kin(m) /\ m.os = machine.os /\ m.shows = machine.shows
      /\ m.program = machine.program /\ m.ran = machine.ran
  BY DEF MachineRecord, MachineFields
<1> HIDE DEF m
<1> DEFINE Good == /\ Kin(w)
                   /\ \/ w.os = machine.os /\ w.shows \in {machine.shows, machine.os, "other"}
                      \/ w.os \in {"busy", "starting"} /\ w.shows = "other"
                      \/ w.os = "gone" /\ w.shows = machine.shows
                   /\ w.program \in {machine.program, <<>>, <<"new">>,
                                     Append(machine.program, "new")}
                   /\ w.ran \in {machine.ran, machine.program, image}
                   /\ w.ran = image => \/ w.ran = machine.ran \/ w.ran = machine.program
                                       \/ text = "USR"
<1>3. ASSUME w = [m EXCEPT !.os = "busy", !.shows = "other"] PROVE Good
  BY <1>2, <1>3 DEF MachineRecord, MachineFields
<1>4. ASSUME w = [m EXCEPT !.os = "starting", !.shows = "other", !.program = <<>>] PROVE Good
  BY <1>2, <1>4 DEF MachineRecord, MachineFields
<1>5. ASSUME w = [m EXCEPT !.program = <<>>] PROVE Good
  BY <1>2, <1>5 DEF MachineRecord, MachineFields
<1>6. ASSUME w = [m EXCEPT !.program = Append(@, "new"), !.shows = "other"] PROVE Good
  BY <1>2, <1>6 DEF MachineRecord, MachineFields
<1>7. ASSUME w = [m EXCEPT !.program = <<"new">>] PROVE Good
  BY <1>2, <1>7 DEF MachineRecord, MachineFields
<1>8. ASSUME w = Runs(machine.program) PROVE Good
  BY <1>2, <1>8 DEF MachineRecord, MachineFields
<1>9. ASSUME w = [Runs(machine.program) EXCEPT !.temp = FALSE] PROVE Good
  BY <1>2, <1>9 DEF MachineRecord, MachineFields
<1>10. ASSUME text = "USR" /\ w = Runs(image) PROVE Good
  BY <1>2, <1>10 DEF MachineRecord, MachineFields
<1>11. ASSUME w = [m EXCEPT !.os = "gone"] PROVE Good
  BY <1>2, <1>11 DEF MachineRecord, MachineFields
<1>12. ASSUME w = [m EXCEPT !.shows = machine.os] PROVE Good
  BY <1>2, <1>12 DEF MachineRecord, MachineFields
<1>13. Good
  BY <1>1, <1>3, <1>4, <1>5, <1>6, <1>7, <1>8, <1>9, <1>10, <1>11, <1>12
<1> QED BY <1>13 DEF w, rest, image

\* The steps of the machine while nobody types on it.
LEMMA MachineMoves ==
  ASSUME MachineRecord(machine), MachineStep, hands' = 0, hands = 0
  PROVE  LET w == machine'
             Same == /\ w.runtime = machine.runtime /\ w.vramSize = machine.vramSize
                     /\ w.vram = machine.vram /\ w.temp = machine.temp /\ w.ran = machine.ran
         IN /\ MachineRecord(w)
            /\ \/ ReadLine
               \/ /\ machine.os = "starting" /\ w.os = "basic" /\ w.under = "basic"
                  /\ Same /\ w.ring = machine.ring /\ w.ram = machine.ram
                  /\ w.program = machine.program
               \/ /\ machine.os = "worker" /\ w.os = "dos" /\ w.under = "dos"
                  /\ w.shows = "dos" /\ Same /\ w.ring = machine.ring
                  /\ w.ram = machine.ram /\ w.program = machine.program
               \/ /\ machine.os = "busy" /\ w.os = "busy" /\ w.under = machine.under
                  /\ w.shows = machine.shows /\ Same /\ w.program = machine.program
                  /\ w.ring = machine.ring \/ (machine.ring # <<>> /\ w.ring = Tail(machine.ring))
               \/ /\ machine.os = "busy" /\ w.os = machine.under /\ w.under = machine.under
                  /\ w.shows = IF machine.under = "monitor" THEN "other" ELSE machine.under
                  /\ Same /\ w.ring = machine.ring /\ w.ram = machine.ram
                  /\ w.program = machine.program
               \/ /\ machine.os = "gone" /\ w.os = "dos" /\ w.under = "dos"
                  /\ w.shows = "dos" /\ Same /\ w.ring = <<>> /\ w.ram = machine.ram
                  /\ w.program = <<"old">>
<1> DEFINE w == machine'
           Same == /\ w.runtime = machine.runtime /\ w.vramSize = machine.vramSize
                   /\ w.vram = machine.vram /\ w.temp = machine.temp /\ w.ran = machine.ran
<1>1. CASE ReadLine
  <2>1. MachineRecord(machine')
    BY <1>1, LineDoes DEF ReadLine
  <2> QED BY <1>1, <2>1
<1>2. CASE BasicIsUp
  BY <1>2 DEF BasicIsUp, Prompts, MachineRecord, MachineFields
<1>3. CASE WorkerEnds
  BY <1>3 DEF WorkerEnds, Prompts, MachineRecord, MachineFields
<1>4. CASE ProgramWrites
  <2>1. PICK cell : machine' = [machine EXCEPT !.ram[cell] = 0]
    BY <1>4 DEF ProgramWrites
  <2>2. /\ MachineRecord(w) /\ w.os = machine.os /\ w.under = machine.under
        /\ w.shows = machine.shows /\ Same /\ w.program = machine.program
        /\ w.ring = machine.ring
    BY <2>1 DEF MachineRecord, MachineFields
  <2>3. machine.os = "busy"
    BY <1>4 DEF ProgramWrites
  <2> QED BY <2>2, <2>3
<1>5. CASE ProgramReads
  BY <1>5 DEF ProgramReads, MachineRecord, MachineFields
<1>6. CASE ProgramEnds
  BY <1>6 DEF ProgramEnds, MachineRecord, MachineFields
<1>7. CASE Boots
  <2> DEFINE p == Prompts("dos")
  <2>1. /\ MachineRecord(p) /\ p.os = "dos" /\ p.under = "dos" /\ p.shows = "dos"
        /\ p.runtime = machine.runtime /\ p.vramSize = machine.vramSize
        /\ p.vram = machine.vram /\ p.temp = machine.temp /\ p.ran = machine.ran
        /\ p.ram = machine.ram
    BY DEF Prompts, MachineRecord, MachineFields
  <2>2. machine' = [p EXCEPT !.ring = <<>>, !.program = <<"old">>]
    BY <1>7 DEF Boots
  <2> HIDE DEF p
  <2>3. /\ MachineRecord(w) /\ w.os = "dos" /\ w.under = "dos" /\ w.shows = "dos"
        /\ Same /\ w.ram = machine.ram /\ w.ring = <<>> /\ w.program = <<"old">>
    BY <2>1, <2>2 DEF MachineRecord, MachineFields
  <2> QED BY <1>7, <2>3 DEF Boots
<1>8. ~Hands
  BY DEF Hands
<1> QED BY <1>1, <1>2, <1>3, <1>4, <1>5, <1>6, <1>7, <1>8 DEF MachineStep

LEMMA Rest ==
  ASSUME NEW ring \in Seq(Keys), ring # <<>>
  PROVE  /\ \A i \in DOMAIN Tail(ring) : i + 1 \in DOMAIN ring /\ Tail(ring)[i] = ring[i + 1]
         /\ Len(ring) \in Nat \ {0} /\ Len(Tail(ring)) = Len(ring) - 1
         /\ 1 \in DOMAIN ring /\ Head(ring) = ring[1]
         /\ Len(ring) = 1 => Tail(ring) = <<>>
<1> HIDE DEF Keys
<1>1. /\ \A i \in DOMAIN Tail(ring) : i + 1 \in DOMAIN ring /\ Tail(ring)[i] = ring[i + 1]
      /\ Len(ring) \in Nat \ {0} /\ Len(Tail(ring)) = Len(ring) - 1
      /\ 1 \in DOMAIN ring /\ Head(ring) = ring[1] /\ Tail(ring) \in Seq(Keys)
  OBVIOUS
<1>2. ASSUME Len(ring) = 1 PROVE Tail(ring) = <<>>
  <2>1. Len(Tail(ring)) = 0
    BY <1>1, <1>2
  <2> QED BY <1>1, <2>1, EmptySeq
<1> QED BY <1>1, <1>2

LEMMA QuietMoves ==
  ASSUME MachineRecord(machine), machine.ring \in Seq(Keys), NEW n, Quiet(machine, n),
         machine.runtime \in Runtimes, MachineStep, hands' = 0, hands = 0
  PROVE  Quiet(machine', n) /\ MachineRecord(machine') /\ machine'.runtime = machine.runtime
<1> DEFINE w == machine'
<1>0. \A i \in DOMAIN machine.ring : machine.ring[i].by <= n
  BY DEF Quiet
<1>1. CASE ReadLine
  <2> DEFINE text == Head(machine.ring).text  by == Head(machine.ring).by
  <2>1. AtPrompt /\ machine.ring # <<>> /\ w = AfterLine(text, by)
    BY <1>1 DEF ReadLine
  <2> HIDE DEF text, by
  <2>2. /\ MachineRecord(w) /\ w.runtime = machine.runtime /\ w.under = machine.under
        /\ w.vramSize = machine.vramSize /\ w.vram = machine.vram
        /\ w.ring = Tail(machine.ring)
        /\ \/ w.os = machine.os /\ w.shows \in {machine.shows, machine.os, "other"}
           \/ w.os \in {"busy", "starting"} /\ w.shows = "other"
           \/ w.os = "gone" /\ w.shows = machine.shows
        /\ w.program \in {machine.program, <<>>, <<"new">>, Append(machine.program, "new")}
    BY <2>1, LineDoes
  <2> HIDE DEF w
  <2>3. \A i \in DOMAIN w.ring : w.ring[i].by <= n
    BY <1>0, <2>1, <2>2, Rest
  <2>4. w.program \in Seq({"old", "new"})
    <3> DEFINE P == Seq({"old", "new"})
    <3>1. machine.program \in P
      BY DEF Quiet
    <3>2. <<>> \in P /\ <<"new">> \in P /\ Append(machine.program, "new") \in P
      BY <3>1
    <3> HIDE DEF P
    <3>3. w.program \in P
      BY <2>2, <3>1, <3>2
    <3> QED BY <3>3 DEF P
  <2>5. machine.runtime # "monitor"
    BY <2>1 DEF Quiet
  <2>6. machine.os \in {"dos", "basic"}
    BY <2>1 DEF AtPrompt
  <2>7. /\ w.os \in SystemStates /\ w.under \in {"dos", "basic"}
        /\ w.os \in {"dos", "basic"} => w.under = w.os
        /\ w.shows = "basic" => w.os \in {"basic", "gone"}
    BY <2>2, <2>5, <2>6 DEF Quiet, SystemStates
  <2>8. DOMAIN w.vram = 0 .. VramCells - 1 /\ w.vramSize \in 1 .. VramCells
    BY <2>2 DEF Quiet
  <2>9. Quiet(w, n)
    BY <2>2, <2>3, <2>4, <2>5, <2>7, <2>8 DEF Quiet
  <2> QED BY <2>2, <2>9 DEF w
<1>2. CASE ~ReadLine
  <2>1. /\ MachineRecord(w) /\ w.runtime = machine.runtime
        /\ w.vramSize = machine.vramSize /\ w.vram = machine.vram
        /\ w.program \in {machine.program, <<"old">>}
        /\ \/ w.ring = machine.ring /\ w.program = machine.program
           \/ machine.ring # <<>> /\ w.ring = Tail(machine.ring)
           \/ w.ring = <<>> /\ machine.os = "gone"
    BY <1>2, MachineMoves
  <2>2. \A i \in DOMAIN w.ring : w.ring[i].by <= n
    <3> HIDE DEF w
    <3>1. CASE w.ring = machine.ring
      BY <1>0, <3>1
    <3>2. CASE machine.ring # <<>> /\ w.ring = Tail(machine.ring)
      BY <1>0, <3>2, Rest
    <3>3. CASE w.ring = <<>>
      BY <3>3
    <3> QED BY <2>1, <3>1, <3>2, <3>3
  <2>3. w.program \in Seq({"old", "new"})
    <3>1. <<"old">> \in Seq({"old", "new"})
      OBVIOUS
    <3>2. machine.program \in Seq({"old", "new"})
      BY DEF Quiet
    <3> QED BY <2>1, <3>1, <3>2
  <2>4. machine.runtime = "monitor" =>
          w.os \in MonitorStates /\ w.under = "monitor" /\ w.ring = <<>>
    BY <1>2, MachineMoves DEF Quiet, MonitorStates
  <2>5. machine.runtime # "monitor" => w.os \in SystemStates /\ w.under \in {"dos", "basic"}
    BY <1>2, MachineMoves DEF Quiet, SystemStates
  <2>6. /\ w.os \in {"dos", "basic"} => w.under = w.os
        /\ w.shows = "basic" => w.os \in {"basic", "gone"}
    BY <1>2, MachineMoves DEF Quiet, SystemStates, MonitorStates
  <2>7. DOMAIN w.vram = 0 .. VramCells - 1 /\ w.vramSize \in 1 .. VramCells
    BY <2>1 DEF Quiet
  <2> HIDE DEF w
  <2>8. Quiet(w, n)
    BY <2>1, <2>2, <2>3, <2>4, <2>5, <2>6, <2>7 DEF Quiet
  <2> QED BY <2>1, <2>8 DEF w
<1> QED BY <1>1, <1>2

\* Where nothing moves by itself, no step of the machine comes in between.
LEMMA SteadyStands ==
  ASSUME MachineRecord(machine), Steady(machine), MachineStep, hands' = 0, hands = 0
  PROVE  FALSE
<1>1. CASE ReadLine
  BY <1>1 DEF ReadLine, Steady
<1>2. CASE ~ReadLine
  BY <1>2, MachineMoves DEF Steady
<1> QED BY <1>1, <1>2

LEMMA LoadMoves ==
  ASSUME MachineRecord(machine), machine.ring \in Seq(Keys), NEW n, Quiet(machine, n),
         machine.runtime \in Runtimes, MachineStep, hands' = 0, hands = 0,
         NEW j, LoadFits(machine, j, n)
  PROVE  LoadFits(machine', j, n)
<1> DEFINE w == machine'
<1>1. w.runtime = machine.runtime
  BY QuietMoves
<1>2. ASSUME j.pc # "idle" PROVE Loading(w, j)
  <2>1. Loading(machine, j)
    BY <1>2 DEF LoadFits
  <2>2. /\ ~(j.pc = "write" /\ j.entry.mode # "none")
        /\ j.pc # "execute"
        /\ ~(j.pc = "type" /\ j.next # "write")
    BY <2>1, SteadyStands DEF Loading
  <2> HIDE DEF w
  <2>3. Route(w, j)
    BY <1>1, <2>1 DEF Loading, Route
  <2> QED BY <2>1, <2>2, <2>3 DEF Loading
<1>3. Submits(w, j, n)
  <2>1. ASSUME NEW i \in DOMAIN w.ring, w.ring[i].text = "USR", w.ring[i].by = n PROVE FALSE
    <3>1. PICK k \in DOMAIN machine.ring :
            /\ w.ring[i] = machine.ring[k]
            /\ Len(machine.ring) = 1 => w.ring = machine.ring /\ ~ReadLine
      <4>1. CASE w.ring = machine.ring /\ ~ReadLine
        BY <4>1
      <4>2. CASE machine.ring # <<>> /\ w.ring = Tail(machine.ring)
        <5>1. i + 1 \in DOMAIN machine.ring /\ w.ring[i] = machine.ring[i + 1]
          BY <4>2, Rest
        <5>2. Len(machine.ring) # 1
          BY <4>2, Rest
        <5> QED BY <5>1, <5>2
      <4>3. CASE ReadLine
        <5>1. machine.ring # <<>> /\ w.ring = Tail(machine.ring)
          BY <4>3, LineDoes DEF ReadLine
        <5> QED BY <4>2, <5>1
      <4>4. w.ring # <<>>
        OBVIOUS
      <4> QED BY <4>1, <4>2, <4>3, <4>4, MachineMoves
    <3>2. Len(machine.ring) = 1 /\ machine.os = "basic"
      BY <2>1, <3>1 DEF LoadFits, Submits
    <3>3. ~ReadLine
      BY <3>1, <3>2
    <3> QED BY <3>2, <3>3, MachineMoves
  <2> QED BY <2>1 DEF Submits
<1>4. RanWhole(w, j, n)
  <2>1. CASE w.ran = machine.ran
    BY <2>1 DEF LoadFits, RanWhole
  <2>2. CASE ReadLine
    <3> DEFINE text == Head(machine.ring).text  by == Head(machine.ring).by
               image == <<"image", machine.ram, machine.vram, by>>
    <3>1. AtPrompt /\ machine.ring # <<>> /\ w = AfterLine(text, by)
      BY <2>2 DEF ReadLine
    <3>2. machine.ring[1] = Head(machine.ring) /\ 1 \in DOMAIN machine.ring
      BY <3>1, Rest
    <3> HIDE DEF text, by
    <3>3. \/ w.ran = machine.ran \/ w.ran = machine.program
          \/ w.ran = image /\ text = "USR"
      BY <3>1, LineDoes
    <3>4. ASSUME w.ran = machine.program PROVE RanWhole(w, j, n)
      <4>1. machine.program \in Seq({"old", "new"})
        BY DEF Quiet
      <4>2. Len(machine.program) = 4 => machine.program[1] \in {"old", "new"}
        BY <4>1
      <4> QED BY <3>4, <4>2 DEF RanWhole
    <3>5. ASSUME w.ran = image, text = "USR" PROVE RanWhole(w, j, n)
      <4>1. image[2] = machine.ram /\ image[3] = machine.vram /\ image[4] = by
        OBVIOUS
      <4>2. by = n => Complete(machine.ram, machine.vram, j.app)
        BY <3>2, <3>5 DEF LoadFits, Submits, text, by
      <4> HIDE DEF image
      <4> QED BY <3>5, <4>1, <4>2 DEF RanWhole
    <3> HIDE DEF image
    <3> QED BY <2>1, <3>3, <3>4, <3>5
  <2> QED BY <2>1, <2>2, MachineMoves
<1> QED BY <1>2, <1>3, <1>4 DEF LoadFits

\* What run_basic counts on: each of its lines is read where it has an effect.
LEMMA StageReads ==
  ASSUME MachineRecord(machine), AtPrompt, NEW keeps, NEW text, NEW by, NEW s,
         Stage(machine, keeps, <<text>> \o s),
         NEW T, s \in Seq(T), text \in T
  PROVE  Stage(AfterLine(text, by), keeps, s)
<1> DEFINE r == <<text>> \o s
           rest == Tail(machine.ring)
           m == [machine EXCEPT !.ring = rest]
           w == AfterLine(text, by)
           Runs(what) == [m EXCEPT !.os = "busy", !.shows = "other", !.ran = what]
<1>1. r # <<>> /\ Head(r) = text /\ Tail(r) = s /\ Stage(machine, keeps, r)
  OBVIOUS
<1> HIDE DEF rest, w
<1>2. /\ MachineRecord(m) /\ m.os = machine.os /\ m.program = machine.program
      /\ m.temp = machine.temp /\ m.ran = machine.ran
  BY DEF MachineRecord, MachineFields
<1> HIDE DEF r
<1>3. CASE text = "BASIC" /\ machine.os = "dos"
  <2>1. w = [m EXCEPT !.os = "starting", !.shows = "other", !.program = <<>>]
    BY <1>3 DEF w, AfterLine, rest
  <2> HIDE DEF m
  <2>2. w.os = "starting" /\ w.program = <<>> /\ w.temp = machine.temp
    BY <1>2, <2>1 DEF MachineRecord, MachineFields
  <2>3. CASE r = <<"BASIC", "LOAD", "KILL:RUN">> /\ machine.temp
    <3>1. s = <<"LOAD", "KILL:RUN">>
      BY <1>1, <2>3
    <3> QED BY <2>2, <2>3, <3>1 DEF Stage, w
  <2>4. CASE r = <<"BASIC", "NEW", "LINE", "RUN">> /\ ~machine.temp
    <3>1. s = <<"NEW", "LINE", "RUN">>
      BY <1>1, <2>4
    <3> QED BY <2>2, <2>4, <3>1 DEF Stage, w
  <2>5. CASE r = <<"BASIC", "LINE", "RUN">> /\ ~machine.temp
    <3>1. s = <<"LINE", "RUN">>
      BY <1>1, <2>5
    <3> QED BY <2>2, <2>5, <3>1 DEF Stage, w
  <2> QED BY <1>1, <1>3, <2>3, <2>4, <2>5 DEF Stage
<1>4. CASE text = "LOAD" /\ machine.os = "basic"
  <2>1. r = <<"LOAD", "KILL:RUN">> /\ machine.temp
    BY <1>1, <1>4 DEF Stage
  <2>2. w = [m EXCEPT !.program = <<"new">>]
    BY <1>4, <2>1 DEF w, AfterLine, rest
  <2> HIDE DEF m
  <2>3. w.os = "basic" /\ w.program = <<"new">> /\ w.temp = machine.temp
    BY <1>2, <1>4, <2>2 DEF MachineRecord, MachineFields
  <2>4. s = <<"KILL:RUN">>
    BY <1>1, <2>1
  <2> QED BY <2>1, <2>3, <2>4 DEF Stage, w
<1>5. CASE text = "KILL:RUN" /\ machine.os = "basic"
  <2>1. r = <<"KILL:RUN">> /\ machine.temp /\ machine.program = <<"new">>
    BY <1>1, <1>5 DEF Stage
  <2>2. w = [Runs(machine.program) EXCEPT !.temp = FALSE]
    BY <1>5, <2>1 DEF w, AfterLine, rest
  <2> HIDE DEF m
  <2>3. w.ran = <<"new">> /\ ~w.temp
    BY <1>2, <2>1, <2>2 DEF MachineRecord, MachineFields
  <2>4. s = <<>>
    BY <1>1, <2>1
  <2> QED BY <2>3, <2>4 DEF Stage, w
<1>6. CASE text = "NEW" /\ machine.os = "basic"
  <2>1. r = <<"NEW", "LINE", "RUN">> /\ ~machine.temp
    BY <1>1, <1>6 DEF Stage
  <2>2. w = [m EXCEPT !.program = <<>>]
    BY <1>6, <2>1 DEF w, AfterLine, rest
  <2> HIDE DEF m
  <2>3. w.os = "basic" /\ w.program = <<>> /\ w.temp = machine.temp
    BY <1>2, <1>6, <2>2 DEF MachineRecord, MachineFields
  <2>4. s = <<"LINE", "RUN">>
    BY <1>1, <2>1
  <2> QED BY <2>1, <2>3, <2>4 DEF Stage, w
<1>7. CASE text = "LINE" /\ machine.os = "basic"
  <2>1. r = <<"LINE", "RUN">> /\ ~machine.temp /\ (keeps \/ machine.program = <<>>)
    BY <1>1, <1>7 DEF Stage
  <2>2. w = [m EXCEPT !.program = Append(@, "new"), !.shows = "other"]
    BY <1>7, <2>1 DEF w, AfterLine, rest
  <2> HIDE DEF m
  <2>3. /\ w.os = "basic" /\ w.program = Append(machine.program, "new")
        /\ w.temp = machine.temp
    BY <1>2, <1>7, <2>2 DEF MachineRecord, MachineFields
  <2>4. s = <<"RUN">> /\ Append(<<>>, "new") = <<"new">>
    BY <1>1, <2>1
  <2> QED BY <2>1, <2>3, <2>4 DEF Stage, w
<1>8. CASE text = "RUN" /\ machine.os = "basic"
  <2>1. r = <<"RUN">> /\ ~machine.temp /\ (keeps \/ machine.program = <<"new">>)
    BY <1>1, <1>8 DEF Stage
  <2>2. w = Runs(machine.program)
    BY <1>8, <2>1 DEF w, AfterLine, rest
  <2> HIDE DEF m
  <2>3. w.ran = machine.program /\ w.temp = machine.temp
    BY <1>2, <2>2 DEF MachineRecord, MachineFields
  <2>4. s = <<>>
    BY <1>1, <2>1
  <2> QED BY <2>1, <2>3, <2>4 DEF Stage, w
<1>9. \/ text = "BASIC" /\ machine.os = "dos"
      \/ text \in {"LOAD", "KILL:RUN", "NEW", "LINE", "RUN"} /\ machine.os = "basic"
  BY <1>1 DEF Stage, AtPrompt
<1> QED BY <1>3, <1>4, <1>5, <1>6, <1>7, <1>8, <1>9

LEMMA StageOver ==
  ASSUME NEW m, NEW keeps
  PROVE  Stage(m, keeps, <<>>) <=> ~m.temp /\ (keeps \/ m.ran = <<"new">>)
<1> DEFINE r == <<>>
<1>1. /\ r # <<"BASIC", "LOAD", "KILL:RUN">> /\ r # <<"LOAD", "KILL:RUN">>
      /\ r # <<"KILL:RUN">> /\ r # <<"BASIC", "NEW", "LINE", "RUN">>
      /\ r # <<"BASIC", "LINE", "RUN">> /\ r # <<"NEW", "LINE", "RUN">>
      /\ r # <<"LINE", "RUN">> /\ r # <<"RUN">> /\ r = <<>>
  OBVIOUS
<1> HIDE DEF r
<1>2. Stage(m, keeps, r) <=> ~m.temp /\ (keeps \/ m.ran = <<"new">>)
  BY <1>1 DEF Stage
<1> QED BY <1>1, <1>2

LEMMA StageStands ==
  ASSUME MachineRecord(machine), MachineStep, ~ReadLine, hands' = 0, hands = 0,
         NEW keeps, NEW r, Stage(machine, keeps, r)
  PROVE  /\ Stage(machine', keeps, r)
         /\ r # <<>> => machine.os \in {"dos", "worker", "starting", "basic"}
         /\ machine.os \in {"dos", "worker", "starting", "basic"} => machine'.ring = machine.ring
<1> DEFINE w == machine'
<1>1. CASE machine.os \in {"starting", "worker"}
  <2>1. /\ w.os = IF machine.os = "starting" THEN "basic" ELSE "dos"
        /\ w.temp = machine.temp /\ w.ran = machine.ran /\ w.program = machine.program
        /\ w.ring = machine.ring
    BY <1>1, MachineMoves
  <2>2. Stage(w, keeps, r)
    <3> HIDE DEF w
    <3> QED BY <1>1, <2>1 DEF Stage
  <2> QED BY <1>1, <2>1, <2>2
<1>2. CASE machine.os \in {"dos", "basic"}
  BY <1>2, MachineMoves
<1>3. CASE machine.os \notin {"dos", "worker", "starting", "basic"}
  <2>1. r = <<>> /\ ~machine.temp /\ (keeps \/ machine.ran = <<"new">>)
    BY <1>3 DEF Stage
  <2>2. w.temp = machine.temp /\ w.ran = machine.ran
    BY <1>3, MachineMoves
  <2> QED BY <1>3, <2>1, <2>2, StageOver
<1> QED BY <1>1, <1>2, <1>3

LEMMA BasicMoves ==
  ASSUME MachineRecord(machine), machine.ring \in Seq(Keys),
         MachineStep, hands' = 0, hands = 0,
         NEW j, j.lines \in Seq(Lines), BasicFits(machine, j)
  PROVE  BasicFits(machine', j)
<1> DEFINE w == machine'
<1>1. ASSUME j.pc # "idle" PROVE Typing(w, j)
  <2>1. Typing(machine, j)
    BY <1>1 DEF BasicFits
  <2>2. j.pc # "put"
    <3>1. SUFFICES ASSUME j.pc = "put" PROVE FALSE
      OBVIOUS
    <3>2. machine.ring = <<>> /\ machine.os = "dos"
      BY <2>1, <3>1 DEF Typing
    <3>3. ~ReadLine
      BY <3>2 DEF ReadLine
    <3> QED BY <3>2, <3>3, MachineMoves
  <2> DEFINE a == Ahead(machine, j)
  <2>3. Len(machine.ring) <= 1 /\ Stage(machine, j.keeps, a)
    BY <2>1, <2>2 DEF Typing
  <2>4. CASE ~ReadLine
    <3>1. Stage(w, j.keeps, a)
      BY <2>3, <2>4, StageStands
    <3>2. w.ring = machine.ring
      <4>1. CASE machine.os \in {"dos", "worker", "starting", "basic"}
        BY <2>3, <2>4, <4>1, StageStands
      <4>2. CASE machine.os \notin {"dos", "worker", "starting", "basic"}
        <5>1. a = <<>>
          BY <2>3, <2>4, <4>2, StageStands
        <5>2. machine.ring = <<>>
          <6>1. SUFFICES ASSUME machine.ring # <<>> PROVE FALSE
            OBVIOUS
          <6>2. a = <<machine.ring[1].text>> \o j.lines
            BY <6>1 DEF Ahead
          <6> DEFINE x == machine.ring[1].text  T == Lines \cup {x}
          <6>3. x \in T /\ j.lines \in Seq(T)
            <7>1. \A i \in 1 .. Len(j.lines) : j.lines[i] \in Lines
              OBVIOUS
            <7> HIDE DEF Lines
            <7> QED BY <7>1
          <6>4. a = <<x>> \o j.lines
            BY <6>2
          <6> HIDE DEF a, x, T
          <6>5. Len(<<x>> \o j.lines) = 1 + Len(j.lines) /\ Len(j.lines) \in Nat
            BY <6>3
          <6>6. Len(<<x>> \o j.lines) # Len(<<>>)
            BY <6>5
          <6> QED BY <5>1, <6>4, <6>6
        <5> QED BY <2>4, <5>2, MachineMoves
      <4> QED BY <4>1, <4>2
    <3>3. Ahead(w, j) = a
      BY <3>2 DEF Ahead
    <3> HIDE DEF w, a
    <3> QED BY <2>1, <2>2, <2>3, <3>1, <3>2, <3>3 DEF Typing
  <2>5. CASE ReadLine
    <3> DEFINE text == Head(machine.ring).text  by == Head(machine.ring).by
               T == Lines \cup {"PROG", "REBOOT"}
    <3>1. AtPrompt /\ machine.ring # <<>> /\ w = AfterLine(text, by)
      BY <2>5 DEF ReadLine
    <3>2. /\ machine.ring[1] = Head(machine.ring) /\ 1 \in DOMAIN machine.ring
          /\ Len(machine.ring) \in Nat \ {0}
          /\ Len(machine.ring) = 1 => Tail(machine.ring) = <<>>
      BY <3>1, Rest
    <3>3. text \in T
      <4>1. machine.ring[1] \in Keys
        BY <3>2
      <4> QED BY <3>2, <4>1 DEF Keys
    <3>4. j.lines \in Seq(T)
      <4>1. \A i \in 1 .. Len(j.lines) : j.lines[i] \in Lines
        OBVIOUS
      <4> HIDE DEF Lines
      <4> QED BY <4>1
    <3>5. a = <<text>> \o j.lines
      BY <3>1, <3>2 DEF Ahead
    <3> HIDE DEF text, by, T, a
    <3>6. Stage(AfterLine(text, by), j.keeps, j.lines)
      BY <2>3, <3>1, <3>3, <3>4, <3>5, StageReads
    <3>7. AfterLine(text, by).ring = Tail(machine.ring)
      BY <3>1, LineDoes
    <3>8. Tail(machine.ring) = <<>>
      BY <2>3, <3>2
    <3> HIDE DEF w
    <3>9. w.ring = <<>> /\ Stage(w, j.keeps, j.lines)
      BY <3>1, <3>6, <3>7, <3>8
    <3>10. Len(w.ring) = 0 /\ Ahead(w, j) = j.lines
      BY <3>9 DEF Ahead
    <3> QED BY <2>1, <2>2, <3>9, <3>10 DEF Typing
  <2> QED BY <2>4, <2>5
<1>2. ASSUME j.result = "ok" PROVE w.ring = <<>> /\ Stage(w, j.keeps, <<>>)
  <2>1. machine.ring = <<>> /\ Stage(machine, j.keeps, <<>>)
    BY <1>2 DEF BasicFits
  <2>2. ~ReadLine
    BY <2>1 DEF ReadLine
  <2>3. w.ring = <<>>
    BY <2>1, <2>2, MachineMoves
  <2> QED BY <2>1, <2>2, <2>3, StageStands
<1> QED BY <1>1, <1>2 DEF BasicFits

LEMMA RunMoves ==
  ASSUME RunInv, MachineStep, UNCHANGED <<job, link, touched, jobs, faults>>, ToolsInv'
  PROVE  RunInv'
<1>1. hands' = hands \/ hands' = hands + 1
  BY DEF MachineStep, ReadLine, BasicIsUp, WorkerEnds, ProgramWrites, ProgramReads,
     ProgramEnds, Hands, Boots
<1>2. hands \in Nat /\ hands' \in Nat
  BY <1>1 DEF RunInv
<1>3. ASSUME hands' = 0 PROVE RunFits(machine', job, jobs)
  <2>1. hands = 0 /\ RunFits(machine, job, jobs)
    BY <1>1, <1>2, <1>3 DEF RunInv
  <2>2. /\ MachineRecord(machine) /\ machine.ring \in Seq(Keys)
        /\ machine.runtime \in Runtimes /\ job.lines \in Seq(Lines)
        /\ Quiet(machine, jobs)
    BY <2>1 DEF RunInv, ToolsInv, Safe, GoodJob, RunFits
  <2>3. Quiet(machine', jobs) /\ machine'.runtime = machine.runtime
    BY <1>3, <2>1, <2>2, QuietMoves
  <2>4. job.tool = "load" => LoadFits(machine', job, jobs)
    BY <1>3, <2>1, <2>2, LoadMoves DEF RunFits
  <2>5. job.tool \in {"basic", "file"} => BasicFits(machine', job)
    BY <1>3, <2>1, <2>2, BasicMoves DEF RunFits
  <2>6. job.tool \notin {"load", "basic", "file"} => OtherFits(machine', job)
    BY <2>1, <2>3 DEF RunFits, OtherFits
  <2> QED BY <2>3, <2>4, <2>5, <2>6 DEF RunFits
<1> QED BY <1>2, <1>3 DEF RunInv

----------------------------------------------------------------------------
(* One request of a call, and what a call does by itself.                  *)

LEMMA EndedFields ==
  ASSUME JobRecord(job), NEW result
  PROVE  LET e == Ended(result)
         IN /\ e.tool = job.tool /\ e.result = result /\ e.app = job.app
            /\ e.keeps = job.keeps /\ e.pc = "idle" /\ e.route = "direct"
            /\ e.lines = <<>> /\ e.next = "done" /\ e.after = "done"
<1> DEFINE t == job.tool  a == job.app  k == job.keeps
           b == Idle
<1>1. /\ JobRecord(b) /\ b.pc = "idle" /\ b.route = "direct" /\ b.lines = <<>>
      /\ b.next = "done" /\ b.after = "done"
  BY DEF Idle, JobFields, JobRecord
<1> HIDE DEF b, t, a, k
<1>2. Ended(result) = [b EXCEPT !.tool = t, !.result = result, !.app = a, !.keeps = k]
  BY DEF Ended, b, t, a, k
<1> DEFINE e == Ended(result)
<1> HIDE DEF e
<1>3. /\ e.tool = t /\ e.result = result /\ e.app = a /\ e.keeps = k
      /\ e.pc = b.pc /\ e.route = b.route /\ e.lines = b.lines /\ e.next = b.next
      /\ e.after = b.after
  BY <1>1, <1>2 DEF JobFields, JobRecord, e
<1> QED BY <1>1, <1>3 DEF e, t, a, k

\* A call that fails leaves what its last step left.
LEMMA FailureFits ==
  ASSUME JobRecord(job), NEW m, NEW j, NEW n, RunFits(m, j, n),
         j.tool = job.tool, j.app = job.app
  PROVE  RunFits(m, Ended("failed"), n)
<1> DEFINE e == Ended("failed")
<1>1. e.tool = j.tool /\ e.app = j.app /\ e.pc = "idle" /\ e.result = "failed"
      /\ e.route = "direct"
  BY EndedFields
<1> HIDE DEF e
<1>2. ASSUME j.tool = "load" PROVE LoadFits(m, e, n)
  BY <1>1, <1>2 DEF RunFits, LoadFits, Submits, RanWhole
<1>3. BasicFits(m, e)
  BY <1>1 DEF BasicFits
<1>4. ASSUME j.tool \notin {"load", "basic", "file"} PROVE OtherFits(m, e)
  BY <1>1, <1>4 DEF RunFits, OtherFits
<1>5. RunFits(m, e, n)
  BY <1>1, <1>2, <1>3, <1>4 DEF RunFits
<1> QED BY <1>5 DEF e

\* One request, which may be lost before or behind its effect.
LEMMA RequestFits ==
  ASSUME RunInv, ToolsInv', NEW effect, NEW onward, NEW after,
         Exchange(effect, onward, after), onward.tool = job.tool, onward.app = job.app,
         hands = 0 => RunFits(effect, onward, jobs)
  PROVE  RunInv'
<1>1. /\ hands' = hands /\ jobs' = jobs
      /\ \/ machine' = effect /\ job' = onward
         \/ machine' \in {machine, effect} /\ job' = Ended("failed")
  BY DEF Exchange
<1>2. JobRecord(job)
  BY DEF RunInv, ToolsInv, GoodJob
<1>3. ASSUME hands = 0 PROVE RunFits(machine', job', jobs)
  <2>1. /\ RunFits(effect, Ended("failed"), jobs)
        /\ RunFits(machine, Ended("failed"), jobs)
    BY <1>2, <1>3, FailureFits DEF RunInv
  <2> QED BY <1>1, <1>3, <2>1
<1> QED BY <1>1, <1>3 DEF RunInv

\* A step of the host alone.
LEMMA HostFits ==
  ASSUME RunInv, ToolsInv', UNCHANGED <<machine, hands, jobs>>,
         hands = 0 => RunFits(machine, job', jobs)
  PROVE  RunInv'
BY DEF RunInv

\* A call that begins finds nothing of an older one in the ring or in memory.
Starting(m, j) ==
  /\ j.tool = "load" => (j.pc # "idle" => Loading(m, j))
  /\ j.tool \in {"basic", "file"} => Typing(m, j) /\ j.result # "ok"
  /\ j.tool \notin {"load", "basic", "file"} => OtherFits(m, j)

LEMMA BeginFits ==
  ASSUME RunInv, ToolsInv', NEW new, Begin(new),
         hands = 0 =>
           \A w : /\ w.runtime = machine.runtime /\ w.ring = machine.ring
                  /\ w.os = machine.os /\ ~w.temp
                  => Starting(w, new)
  PROVE  RunInv'
<1> DEFINE w == machine'
           ram == [c \in DOMAIN machine.ram |-> 0]
           vram == [c \in DOMAIN machine.vram |-> 0]
<1>1. /\ hands' = hands /\ jobs' = jobs + 1 /\ job' = new
      /\ w = [machine EXCEPT !.ram = ram, !.temp = FALSE, !.vram = vram,
                !.ran = <<"nothing">>]
  BY DEF Begin
<1>2. MachineRecord(machine) /\ jobs \in Nat /\ machine.ring \in Seq(Keys)
  BY DEF RunInv, ToolsInv, Safe
<1> HIDE DEF w, ram
<1>3. /\ w.runtime = machine.runtime /\ w.ring = machine.ring /\ w.os = machine.os
      /\ ~w.temp /\ w.under = machine.under /\ w.shows = machine.shows
      /\ w.vramSize = machine.vramSize /\ w.program = machine.program
      /\ w.ran = <<"nothing">> /\ DOMAIN w.vram = DOMAIN machine.vram
  BY <1>1, <1>2 DEF MachineRecord, MachineFields
<1>4. ASSUME hands = 0 PROVE RunFits(w, new, jobs + 1)
  <2>1. Quiet(machine, jobs) /\ Starting(w, new)
    BY <1>3, <1>4 DEF RunInv, RunFits
  <2>2. \A i \in DOMAIN machine.ring : machine.ring[i].by \in Nat /\ machine.ring[i].by <= jobs
    <3>1. \A i \in DOMAIN machine.ring : machine.ring[i] \in Keys
      BY <1>2
    <3> QED BY <2>1, <3>1 DEF Quiet, Keys
  <2>3. \A i \in DOMAIN w.ring : w.ring[i].by <= jobs + 1 /\ w.ring[i].by # jobs + 1
    BY <1>2, <1>3, <2>2
  <2>4. Quiet(w, jobs + 1)
    BY <1>3, <2>1, <2>3 DEF Quiet
  <2>5. Submits(w, new, jobs + 1)
    BY <2>3 DEF Submits
  <2>6. RanWhole(w, new, jobs + 1)
    BY <1>3 DEF RanWhole
  <2> QED BY <2>1, <2>4, <2>5, <2>6 DEF RunFits, Starting, LoadFits, BasicFits
<1> QED BY <1>1, <1>4 DEF RunInv, w

LEMMA LoadStarts ==
  ASSUME RunInv, ToolsInv', NEW first, NEW app, NEW entry, NEW route, NEW verify,
         Begin([Idle EXCEPT !.tool = "load", !.pc = first, !.app = app,
                  !.entry = entry, !.route = route, !.next = "write", !.verify = verify]),
         \/ /\ route = "basic" /\ first = "screen" /\ machine.runtime = "resident"
            /\ \A i \in DOMAIN app.segments :
                 app.segments[i].space = "ram" /\ app.segments[i].address >= 4
         \/ /\ route = "direct"
            /\ first = IF machine.runtime = "monitor" THEN "status" ELSE "write"
            /\ entry.mode # "none" => machine.runtime = "monitor"
  PROVE  RunInv'
<1> DEFINE b == Idle
           new == [b EXCEPT !.tool = "load", !.pc = first, !.app = app,
                     !.entry = entry, !.route = route, !.next = "write", !.verify = verify]
<1>1. JobRecord(b) /\ b.at = 1 /\ b.cell = 0
  BY IdleIsGood DEF GoodJob, Idle
<1>2. Begin(new)
  OBVIOUS
<1> HIDE DEF b
<1>3. /\ new.tool = "load" /\ new.pc = first /\ new.app = app /\ new.entry = entry
      /\ new.route = route /\ new.next = "write" /\ new.at = 1 /\ new.cell = 0
  BY <1>1 DEF JobRecord, JobFields
<1> HIDE DEF new
<1>4. first \in {"screen", "status", "write"}
  OBVIOUS
<1>5. ASSUME NEW w, w.runtime = machine.runtime PROVE Starting(w, new)
  <2>1. Route(w, new)
    BY <1>3, <1>5 DEF Route, Halting, Reading
  <2>2. ~(new.pc = "write" /\ new.entry.mode # "none")
    BY <1>3
  <2>3. Loading(w, new)
    BY <1>3, <1>4, <2>1, <2>2 DEF Loading
  <2> QED BY <1>3, <2>3 DEF Starting
<1> QED BY <1>2, <1>5, BeginFits

LEMMA RefusedFits ==
  ASSUME RunInv, ToolsInv', NEW tool \in {"load", "asm"}, Begin(Refused(tool))
  PROVE  RunInv'
<1> DEFINE b == Idle  new == Refused(tool)
<1>1. JobRecord(b) /\ b.pc = "idle" /\ b.route = "direct"
  BY IdleIsGood DEF GoodJob, Idle
<1> HIDE DEF b
<1>2. new = [b EXCEPT !.tool = tool, !.result = "refused"]
  BY DEF Refused, b
<1> HIDE DEF new
<1>3. new.tool = tool /\ new.pc = "idle" /\ new.route = "direct"
  BY <1>1, <1>2 DEF JobRecord, JobFields
<1>4. \A w : Starting(w, new)
  BY <1>3 DEF Starting, OtherFits
<1>5. Begin(new)
  BY DEF new
<1> QED BY <1>4, <1>5, BeginFits

\* A BLOAD image has one segment, of RAM.
LEMMA BloadIsOneSegment ==
  ASSUME NEW file, NEW format, ParseApplication(file, format).format = "bload"
  PROVE  LET app == ParseApplication(file, format)
         IN DOMAIN app.segments = {1} /\ app.segments[1].space = "ram"
<1> DEFINE app == ParseApplication(file, format)
<1>1. \/ app = ParseManifest(file) \/ app = ParseCom(file)
      \/ app = ParseBload(file) \/ app = ParseFlatRom(file) \/ app = Invalid
  BY DEF ParseApplication
<1>2. app.format = "bload"
  OBVIOUS
<1> HIDE DEF app
<1>3. \E a, l, e, m : app = Image("bload", a, l, e, m)
  <2>1. Invalid.format = "invalid"
    BY DEF Invalid
  <2>2. \A f, a, l, e, m : Image(f, a, l, e, m).format = f
    BY DEF Image
  <2>3. ParseManifest(file) = Invalid \/ ParseManifest(file).format = "manifest"
    BY DEF ParseManifest
  <2>4. ParseCom(file) = Invalid \/ ParseCom(file).format = "com"
    BY <2>2 DEF ParseCom
  <2>5. ParseFlatRom(file) = Invalid \/ ParseFlatRom(file).format = "flat-rom"
    BY <2>2 DEF ParseFlatRom
  <2>6. ParseBload(file) = Invalid \/ \E a, l, e, m : ParseBload(file) = Image("bload", a, l, e, m)
    BY DEF ParseBload
  <2> HIDE DEF Invalid
  <2> QED BY <1>1, <1>2, <2>1, <2>3, <2>4, <2>5, <2>6
<1>4. PICK a, l, e, m : app = Image("bload", a, l, e, m)
  BY <1>3
<1>5. app.segments = <<[space |-> "ram", address |-> a, length |-> l]>>
  BY <1>4 DEF Image
<1>6. DOMAIN app.segments = {1} /\ app.segments[1].space = "ram"
  <2> DEFINE seg == [space |-> "ram", address |-> a, length |-> l]
  <2>1. seg.space = "ram" /\ app.segments = <<seg>>
    BY <1>5
  <2> HIDE DEF seg
  <2> QED BY <2>1
<1> QED BY <1>6 DEF app

LEMMA BeginLoadFits == ASSUME RunInv, ToolsInv', BeginLoad PROVE RunInv'
<1>1. PICK asked \in LoadRequests :
        LET first == CASE asked.route = "basic" -> "screen"
                       [] asked.route = "direct" /\ Runtime = "monitor" -> "status"
                       [] OTHER -> "write"
        IN Begin(IF Accepts(asked.app, asked.entry, asked.route)
                 THEN [Idle EXCEPT !.tool = "load", !.pc = first, !.app = asked.app,
                         !.entry = asked.entry, !.route = asked.route, !.next = "write",
                         !.verify = asked.verify]
                 ELSE Refused("load"))
  BY DEF BeginLoad
<1> DEFINE app == asked.app  entry == asked.entry  route == asked.route
           verify == asked.verify  idle == Idle
           first == CASE route = "basic" -> "screen"
                      [] route = "direct" /\ Runtime = "monitor" -> "status"
                      [] OTHER -> "write"
           new == [idle EXCEPT !.tool = "load", !.pc = first, !.app = app,
                     !.entry = entry, !.route = route, !.next = "write",
                     !.verify = verify]
<1>2. CASE ~Accepts(app, entry, route)
  <2>1. Begin(Refused("load"))
    BY <1>1, <1>2
  <2> QED BY <2>1, RefusedFits
<1>3. CASE Accepts(app, entry, route)
  <2>1. Begin(new)
    BY <1>1, <1>3
  <2>2. PICK file, format : app = ParseApplication(file, format)
    BY DEF LoadRequests, LoadRequest
  <2>3. route \in {"direct", "basic"} /\ machine.runtime \in Runtimes
    BY DEF LoadRequests, LoadRequest, RunInv, ToolsInv, Safe
  <2>4. CASE route = "basic"
    <3>1. BasicTakes(app, entry) /\ first = "screen"
      BY <1>3, <2>4 DEF Accepts
    <3>2. /\ machine.runtime = "resident" /\ app.format = "bload"
          /\ app.segments[1].address >= 4
      BY <3>1 DEF BasicTakes, Runtime
    <3>3. \A i \in DOMAIN app.segments :
            app.segments[i].space = "ram" /\ app.segments[i].address >= 4
      BY <2>2, <3>2, BloadIsOneSegment
    <3> QED BY <2>1, <2>4, <3>1, <3>2, <3>3, LoadStarts
  <2>5. CASE route = "direct"
    <3>1. DirectTakes(app, entry)
      BY <1>3, <2>5 DEF Accepts
    <3>2. entry.mode # "none" => machine.runtime = "monitor"
      BY <3>1 DEF DirectTakes, RunIsOffered, Runtime
    <3>3. first = IF machine.runtime = "monitor" THEN "status" ELSE "write"
      BY <2>5 DEF Runtime
    <3> QED BY <2>1, <2>5, <3>2, <3>3, LoadStarts
  <2> QED BY <2>3, <2>4, <2>5
<1> QED BY <1>2, <1>3

LEMMA BeginAsmFits == ASSUME RunInv, ToolsInv', BeginAsm PROVE RunInv'
<1>1. PICK cell \in 0 .. RamCells - 1, execute \in EntryModes :
        Begin(IF execute # "none" /\ ~RunIsOffered
              THEN Refused("asm")
              ELSE [Idle EXCEPT !.tool = "asm", !.pc = "write", !.app = Code(cell),
                      !.entry = IF execute = "none" THEN NoEntry
                                ELSE [mode |-> execute, address |-> cell]])
  BY DEF BeginAsm
<1> DEFINE app == Code(cell)  b == Idle
           entry == IF execute = "none" THEN NoEntry
                    ELSE [mode |-> execute, address |-> cell]
           new == [b EXCEPT !.tool = "asm", !.pc = "write", !.app = app, !.entry = entry]
<1>2. Begin(Refused("asm")) \/ Begin(new)
  BY <1>1
<1>3. ASSUME Begin(Refused("asm")) PROVE RunInv'
  BY <1>3, RefusedFits
<1>4. ASSUME Begin(new) PROVE RunInv'
  <2>1. JobRecord(b) /\ b.route = "direct"
    BY IdleIsGood DEF GoodJob, Idle
  <2> HIDE DEF b, app, entry
  <2>2. new.tool = "asm" /\ new.pc = "write" /\ new.route = "direct"
    BY <2>1 DEF JobRecord, JobFields
  <2> HIDE DEF new
  <2>3. \A w : Starting(w, new)
    BY <2>2 DEF Starting, OtherFits
  <2> QED BY <1>4, <2>3, BeginFits
<1> QED BY <1>2, <1>3, <1>4

LEMMA TypingStarts ==
  ASSUME RunInv, ToolsInv', NEW tool, NEW pc, NEW keeps, NEW lines, NEW next,
         Begin(TypingJob(tool, pc, keeps, lines, next)),
         \A w, j : /\ w.runtime = machine.runtime /\ w.ring = machine.ring
                   /\ w.os = machine.os /\ ~w.temp
                   /\ j.tool = tool /\ j.pc = pc /\ j.keeps = keeps /\ j.lines = lines
                   /\ j.next = next /\ j.after = "done" /\ j.result = "none"
                   => Starting(w, j)
  PROVE  RunInv'
<1> DEFINE b == Idle
           new == [b EXCEPT !.tool = tool, !.pc = pc, !.keeps = keeps,
                     !.lines = lines, !.next = next]
<1>1. JobRecord(b) /\ b.after = "done" /\ b.result = "none"
  BY IdleIsGood DEF GoodJob, Idle
<1>2. Begin(new)
  BY DEF TypingJob
<1> HIDE DEF b
<1>3. /\ new.tool = tool /\ new.pc = pc /\ new.keeps = keeps /\ new.lines = lines
      /\ new.next = next /\ new.after = "done" /\ new.result = "none"
  BY <1>1 DEF JobRecord, JobFields
<1> HIDE DEF new
<1>4. \A w : /\ w.runtime = machine.runtime /\ w.ring = machine.ring
             /\ w.os = machine.os /\ ~w.temp
             => Starting(w, new)
  BY <1>3
<1> QED BY <1>2, <1>4, BeginFits

LEMMA Joined ==
  ASSUME NEW S, NEW s \in Seq(S), NEW t \in Seq(S), NEW u \in Seq(S),
         Len(u) = Len(s) + Len(t),
         \A i \in 1 .. Len(s) : u[i] = s[i],
         \A i \in 1 .. Len(t) : u[Len(s) + i] = t[i]
  PROVE  s \o t = u
<1>1. s \o t \in Seq(S) /\ Len(s \o t) = Len(u)
  OBVIOUS
<1>2. ASSUME NEW i \in 1 .. Len(s \o t) PROVE (s \o t)[i] = u[i]
  <2>1. CASE i <= Len(s)
    BY <2>1
  <2>2. CASE i > Len(s)
    <3>1. i - Len(s) \in 1 .. Len(t) /\ (s \o t)[i] = t[i - Len(s)]
      BY <1>1, <2>2
    <3>2. u[Len(s) + (i - Len(s))] = t[i - Len(s)]
      BY <3>1
    <3> QED BY <2>2, <3>1, <3>2
  <2> QED BY <2>1, <2>2
<1> QED BY <1>1, <1>2, SeqEqual

LEMMA OneAndOne ==
  ASSUME NEW S, NEW a \in S, NEW b \in S
  PROVE  <<a>> \o <<b>> = <<a, b>>
<1> DEFINE s == <<a>>  t == <<b>>  u == <<a, b>>
<1>1. /\ Len(s) = 1 /\ Len(t) = 1 /\ Len(u) = 2
      /\ s[1] = a /\ t[1] = b
      /\ u[1] = a /\ u[2] = b
  OBVIOUS
<1>2. s \in Seq(S) /\ t \in Seq(S) /\ u \in Seq(S)
  OBVIOUS
<1> HIDE DEF s, t, u
<1>3. Len(u) = Len(s) + Len(t)
  BY <1>1
<1>4. /\ \A i \in 1 .. Len(s) : u[i] = s[i]
      /\ \A i \in 1 .. Len(t) : u[Len(s) + i] = t[i]
  BY <1>1
<1>5. s \o t = u
  BY <1>2, <1>3, <1>4, Joined
<1> QED BY <1>5 DEF s, t, u

LEMMA OneAndTwo ==
  ASSUME NEW S, NEW a \in S, NEW b \in S, NEW c \in S
  PROVE  <<a>> \o <<b, c>> = <<a, b, c>>
<1> DEFINE s == <<a>>  t == <<b, c>>  u == <<a, b, c>>
<1>1. /\ Len(s) = 1 /\ Len(t) = 2 /\ Len(u) = 3
      /\ s[1] = a /\ t[1] = b /\ t[2] = c
      /\ u[1] = a /\ u[2] = b /\ u[3] = c
  OBVIOUS
<1>2. s \in Seq(S) /\ t \in Seq(S) /\ u \in Seq(S)
  OBVIOUS
<1> HIDE DEF s, t, u
<1>3. Len(u) = Len(s) + Len(t)
  BY <1>1
<1>4. /\ \A i \in 1 .. Len(s) : u[i] = s[i]
      /\ \A i \in 1 .. Len(t) : u[Len(s) + i] = t[i]
  BY <1>1
<1>5. s \o t = u
  BY <1>2, <1>3, <1>4, Joined
<1> QED BY <1>5 DEF s, t, u

LEMMA TwoAndTwo ==
  ASSUME NEW S, NEW a \in S, NEW b \in S, NEW c \in S, NEW d \in S
  PROVE  <<a, b>> \o <<c, d>> = <<a, b, c, d>>
<1> DEFINE s == <<a, b>>  t == <<c, d>>  u == <<a, b, c, d>>
<1>1. /\ Len(s) = 2 /\ Len(t) = 2 /\ Len(u) = 4
      /\ s[1] = a /\ s[2] = b /\ t[1] = c /\ t[2] = d
      /\ u[1] = a /\ u[2] = b /\ u[3] = c /\ u[4] = d
  OBVIOUS
<1>2. s \in Seq(S) /\ t \in Seq(S) /\ u \in Seq(S)
  OBVIOUS
<1> HIDE DEF s, t, u
<1>3. Len(u) = Len(s) + Len(t)
  BY <1>1
<1>4. /\ \A i \in 1 .. Len(s) : u[i] = s[i]
      /\ \A i \in 1 .. Len(t) : u[Len(s) + i] = t[i]
  BY <1>1
<1>5. s \o t = u
  BY <1>2, <1>3, <1>4, Joined
<1> QED BY <1>5 DEF s, t, u

LEMMA BeginBasicFits == ASSUME RunInv, ToolsInv', BeginBasic PROVE RunInv'
<1>1. PICK os \in {"dos", "basic"}, clear \in BOOLEAN :
        /\ ConfirmedAt(os)
        /\ Begin([Idle EXCEPT !.tool = "basic", !.pc = "type", !.keeps = ~clear,
                    !.lines = (IF os = "dos" THEN <<"BASIC">> ELSE <<>>)
                                \o (IF clear THEN <<"NEW">> ELSE <<>>) \o <<"LINE", "RUN">>])
  BY DEF BeginBasic
<1> DEFINE first == IF os = "dos" THEN <<"BASIC">> ELSE <<>>
           second == IF clear THEN <<"NEW">> ELSE <<>>
           lines == first \o second \o <<"LINE", "RUN">>
           keeps == ~clear
<1>2. /\ os = "dos" /\ clear => lines = <<"BASIC", "NEW", "LINE", "RUN">>
      /\ os = "dos" /\ ~clear => lines = <<"BASIC", "LINE", "RUN">>
      /\ os = "basic" /\ clear => lines = <<"NEW", "LINE", "RUN">>
      /\ os = "basic" /\ ~clear => lines = <<"LINE", "RUN">>
  <2>1. /\ <<"BASIC">> \o <<"NEW">> \o <<"LINE", "RUN">> = <<"BASIC", "NEW", "LINE", "RUN">>
        /\ <<"BASIC">> \o <<>> \o <<"LINE", "RUN">> = <<"BASIC", "LINE", "RUN">>
        /\ <<>> \o <<"NEW">> \o <<"LINE", "RUN">> = <<"NEW", "LINE", "RUN">>
        /\ <<>> \o <<>> \o <<"LINE", "RUN">> = <<"LINE", "RUN">>
    <3> DEFINE a == "BASIC"  b == "NEW"  c == "LINE"  d == "RUN"
               z == <<>>
    <3>1. a \in Lines /\ b \in Lines /\ c \in Lines /\ d \in Lines
      BY DEF Lines
    <3>2. z \o z = z
      BY ConcatEmptySeq, EmptySeq
    <3> HIDE DEF a, b, c, d, z, Lines
    <3>3. /\ <<a>> \o z = <<a>> /\ z \o <<b>> = <<b>> /\ z \o <<c, d>> = <<c, d>>
          /\ <<a>> \o <<b>> = <<a, b>> /\ <<a>> \o <<c, d>> = <<a, c, d>>
          /\ <<b>> \o <<c, d>> = <<b, c, d>> /\ <<a, b>> \o <<c, d>> = <<a, b, c, d>>
      <4>1. <<a>> \o z = <<a>> /\ z \o <<b>> = <<b>> /\ z \o <<c, d>> = <<c, d>>
        BY <3>1, ConcatEmptySeq DEF z
      <4>2. <<a>> \o <<b>> = <<a, b>>
        BY <3>1, OneAndOne
      <4>3. <<a>> \o <<c, d>> = <<a, c, d>>
        BY <3>1, OneAndTwo
      <4>4. <<b>> \o <<c, d>> = <<b, c, d>>
        BY <3>1, OneAndTwo
      <4>5. <<a, b>> \o <<c, d>> = <<a, b, c, d>>
        BY <3>1, TwoAndTwo
      <4> QED BY <4>1, <4>2, <4>3, <4>4, <4>5
    <3>4. /\ <<a>> \o <<b>> \o <<c, d>> = <<a, b, c, d>>
          /\ <<a>> \o z \o <<c, d>> = <<a, c, d>>
          /\ z \o <<b>> \o <<c, d>> = <<b, c, d>>
          /\ z \o z \o <<c, d>> = <<c, d>>
      BY <3>2, <3>3, Zenon
    <3> QED BY <3>4 DEF a, b, c, d, z
  <2>3. os = "basic" => os # "dos"
    OBVIOUS
  <2> QED BY <2>1, <2>3
<1>3. Begin([Idle EXCEPT !.tool = "basic", !.pc = "type", !.keeps = keeps, !.lines = lines])
  BY <1>1
<1>4. keeps = ~clear
  OBVIOUS
<1> HIDE DEF lines, keeps
<1>5. Begin(TypingJob("basic", "type", keeps, lines, "done"))
  <2> DEFINE b == Idle
  <2>1. JobRecord(b) /\ b.next = "done" /\ b.keeps = FALSE /\ b.lines = <<>>
    BY IdleIsGood DEF GoodJob, Idle
  <2> HIDE DEF b
  <2>2. [b EXCEPT !.tool = "basic", !.pc = "type", !.keeps = keeps, !.lines = lines]
          = [b EXCEPT !.tool = "basic", !.pc = "type", !.keeps = keeps, !.lines = lines,
               !.next = "done"]
    BY <2>1 DEF JobRecord, JobFields
  <2> QED BY <1>3, <2>2 DEF b, TypingJob
<1>6. machine.os = os /\ machine.ring = <<>>
  BY <1>1 DEF ConfirmedAt
<1>7. ASSUME NEW w, NEW j, w.ring = machine.ring, w.os = machine.os, ~w.temp,
             j.tool = "basic", j.pc = "type", j.keeps = keeps, j.lines = lines,
             j.after = "done", j.result = "none"
      PROVE  Starting(w, j)
  <2>1. Stage(w, keeps, lines)
    BY <1>2, <1>4, <1>6, <1>7 DEF Stage
  <2>2. Ahead(w, j) = lines /\ Len(w.ring) = 0
    BY <1>6, <1>7 DEF Ahead
  <2>3. Typing(w, j)
    BY <1>6, <1>7, <2>1, <2>2 DEF Typing
  <2> QED BY <1>7, <2>3 DEF Starting
<1> QED BY <1>5, <1>7, TypingStarts

LEMMA BeginFileFits == ASSUME RunInv, ToolsInv', BeginFile PROVE RunInv'
<1> DEFINE lines == <<"BASIC", "LOAD", "KILL:RUN">>
<1>2. Begin([Idle EXCEPT !.tool = "file", !.pc = "put", !.lines = lines])
  BY DEF BeginFile
<1>3. machine.os = "dos" /\ machine.ring = <<>>
  BY DEF BeginFile, ConfirmedAt
<1>4. ASSUME NEW w, NEW j, w.ring = machine.ring, w.os = machine.os, ~w.temp,
             j.tool = "file", j.pc = "put", j.lines = lines,
             j.after = "done", j.result = "none"
      PROVE  Starting(w, j)
  BY <1>3, <1>4 DEF Starting, Typing
<1> HIDE DEF lines
<1>5. Begin(TypingJob("file", "put", FALSE, lines, "done"))
  <2> DEFINE b == Idle
  <2>1. JobRecord(b) /\ b.next = "done" /\ b.keeps = FALSE /\ b.lines = <<>>
    BY IdleIsGood DEF GoodJob, Idle
  <2> HIDE DEF b
  <2>2. [b EXCEPT !.tool = "file", !.pc = "put", !.lines = lines]
          = [b EXCEPT !.tool = "file", !.pc = "put", !.keeps = FALSE, !.lines = lines,
               !.next = "done"]
    BY <2>1 DEF JobRecord, JobFields
  <2> QED BY <1>2, <2>2 DEF b, TypingJob
<1> QED BY <1>4, <1>5, TypingStarts

LEMMA BeginRebootFits == ASSUME RunInv, ToolsInv', BeginReboot PROVE RunInv'
<1>1. Begin([Idle EXCEPT !.tool = "reboot", !.pc = "reboot", !.next = "empty"])
      /\ machine.runtime = "resident"
  BY DEF BeginReboot, Runtime
<1>2. Begin(TypingJob("reboot", "reboot", FALSE, <<>>, "empty"))
  <2> DEFINE b == Idle
  <2>1. JobRecord(b) /\ b.next = "done" /\ b.keeps = FALSE /\ b.lines = <<>>
    BY IdleIsGood DEF GoodJob, Idle
  <2> HIDE DEF b
  <2>2. [b EXCEPT !.tool = "reboot", !.pc = "reboot", !.next = "empty"]
          = [b EXCEPT !.tool = "reboot", !.pc = "reboot", !.keeps = FALSE, !.lines = <<>>,
               !.next = "empty"]
    BY <2>1 DEF JobRecord, JobFields
  <2> QED BY <1>1, <2>2 DEF b, TypingJob
<1>3. \A w, j : /\ w.runtime = machine.runtime /\ w.ring = machine.ring
                  /\ w.os = machine.os /\ ~w.temp
                  /\ j.tool = "reboot" /\ j.pc = "reboot" /\ j.keeps = FALSE
                  /\ j.lines = <<>> /\ j.next = "empty" /\ j.after = "done"
                  /\ j.result = "none"
                  => Starting(w, j)
  BY <1>1 DEF Starting, OtherFits
<1> QED BY <1>2, <1>3, TypingStarts

----------------------------------------------------------------------------
(* The steps of a call.                                                    *)

LEMMA GoesFields ==
  ASSUME JobRecord(job), NEW pc
  PROVE  LET g == Goes(pc)
         IN /\ g.tool = job.tool /\ g.app = job.app
            /\ pc # "done" =>
                 /\ g = [job EXCEPT !.pc = pc] /\ JobRecord(g)
                 /\ g.pc = pc /\ g.result = job.result
                 /\ g.keeps = job.keeps /\ g.entry = job.entry /\ g.route = job.route
                 /\ g.at = job.at /\ g.cell = job.cell /\ g.lines = job.lines
                 /\ g.next = job.next /\ g.after = job.after
            /\ pc = "done" => g = Ended("ok") /\ g.pc = "idle"
<1>1. CASE pc = "done"
  BY <1>1, EndedFields DEF Goes
<1>2. CASE pc # "done"
  <2> DEFINE g == [job EXCEPT !.pc = pc]
  <2>1. /\ JobRecord(g) /\ g.pc = pc /\ g.result = job.result /\ g.tool = job.tool
        /\ g.app = job.app /\ g.keeps = job.keeps /\ g.entry = job.entry
        /\ g.route = job.route /\ g.at = job.at /\ g.cell = job.cell
        /\ g.lines = job.lines /\ g.next = job.next /\ g.after = job.after
    BY DEF JobRecord, JobFields
  <2>2. Goes(pc) = g
    BY <1>2 DEF Goes
  <2> HIDE DEF g
  <2>3. g = [job EXCEPT !.pc = pc]
    BY DEF g
  <2> QED BY <1>2, <2>1, <2>2, <2>3
<1> QED BY <1>1, <1>2

\* What the call is by its place, while nobody types.
LEMMA PlaceTells ==
  ASSUME NEW m, NEW j, NEW n, RunFits(m, j, n), j.pc # "idle"
  PROVE  /\ Quiet(m, n)
         /\ j.pc \in Halting => j.tool = "load"
         /\ j.pc \in {"screen", "probe"} => j.tool \in {"load", "reboot"}
         /\ j.pc \in {"write", "execute"} => j.tool \in {"load", "asm"}
         /\ j.pc \in {"type", "drain"} => j.tool \in {"load", "basic", "file", "reboot"}
         /\ j.tool = "load" =>
              Loading(m, j) /\ Submits(m, j, n) /\ RanWhole(m, j, n)
         /\ j.tool \in {"basic", "file"} => Typing(m, j) /\ BasicFits(m, j)
BY DEF RunFits, LoadFits, BasicFits, OtherFits, Typing, Loading, Route, Halting, Reading

\* The machine is the same and so is the tool: what matters is the next place.
LEMMA SameMachineFits ==
  ASSUME NEW m, NEW j, NEW k, NEW n, RunFits(m, j, n), j.pc # "idle",
         k.tool = j.tool, k.app = j.app,
         j.tool = "load" =>
           /\ k.pc # "idle" => Loading(m, k)
           /\ \/ k.pc = "idle" \/ m.ring = <<>>
              \/ ~(j.pc = "drain" /\ j.next = "done"),
         j.tool \in {"basic", "file"} => BasicFits(m, k),
         j.tool \notin {"load", "basic", "file"} => OtherFits(m, k)
  PROVE  RunFits(m, k, n)
<1>1. ASSUME j.tool = "load" PROVE LoadFits(m, k, n)
  <2>1. Submits(m, j, n) /\ RanWhole(m, j, n)
    BY <1>1 DEF RunFits, LoadFits
  <2>2. RanWhole(m, k, n)
    BY <2>1 DEF RanWhole
  <2>3. Submits(m, k, n)
    BY <1>1, <2>1 DEF Submits
  <2> QED BY <1>1, <2>2, <2>3 DEF LoadFits
<1> QED BY <1>1 DEF RunFits

LEMMA NothingPlaced ==
  ASSUME NEW j, j.at = 1, j.cell = 0, j.app.segments \in Seq(Segments), NEW space, NEW cell
  PROVE  Placed(j, space, cell) = {}
<1>1. ASSUME NEW i \in Placed(j, space, cell) PROVE FALSE
  <2>1. i \in DOMAIN j.app.segments /\ cell \in CellsOf(j.app.segments[i])
    BY DEF Placed, Covering
  <2>2. i \in Nat \ {0} /\ j.app.segments[i] \in Segments
    BY <2>1
  <2>3. i = 1 /\ cell < j.app.segments[1].address + 0
    BY <2>2 DEF Placed
  <2>4. j.app.segments[1].address \in Nat /\ cell \in Int /\ j.app.segments[1].address <= cell
    BY <2>1, <2>2, <2>3 DEF CellsOf, EndOf, Segments
  <2> QED BY <2>3, <2>4
<1> QED BY <1>1

\* The monitor's own commands on what runs.
LEMMA StateIsSet ==
  ASSUME RunInv, hands = 0, machine.runtime = "monitor", NEW os \in MonitorStates
  PROVE  LET w == [machine EXCEPT !.os = os]
         IN /\ Quiet(w, jobs) /\ w.ring = <<>> /\ w.os = os /\ w.runtime = "monitor"
            /\ w.ran = machine.ran /\ w.ram = machine.ram /\ w.vram = machine.vram
<1> DEFINE w == [machine EXCEPT !.os = os]
<1>1. Quiet(machine, jobs) /\ MachineRecord(machine)
  BY DEF RunInv, RunFits, ToolsInv, Safe
<1>2. /\ w.os = os /\ w.runtime = machine.runtime /\ w.under = machine.under
      /\ w.ring = machine.ring /\ w.shows = machine.shows /\ w.vram = machine.vram
      /\ w.vramSize = machine.vramSize /\ w.program = machine.program
      /\ w.ran = machine.ran /\ w.ram = machine.ram
  BY <1>1 DEF MachineRecord, MachineFields
<1> HIDE DEF w
<1>3. machine.shows # "basic"
  BY <1>1 DEF Quiet, MonitorStates
<1>4. Quiet(w, jobs) /\ w.ring = <<>>
  BY <1>1, <1>2, <1>3 DEF Quiet, MonitorStates
<1> QED BY <1>2, <1>4 DEF w

LEMMA StopFits ==
  ASSUME RunInv, ToolsInv', AsksStatus \/ AsksPause \/ Freezes \/ Stops
  PROVE  RunInv'
<1>1. JobRecord(job) /\ job.app.segments \in Seq(Segments)
  BY DEF RunInv, ToolsInv, GoodJob
<1>2. job.pc \in Halting
  BY DEF AsksStatus, AsksPause, Freezes, Stops, Halting
<1>3. ASSUME hands = 0
      PROVE  /\ RunFits(machine, job, jobs) /\ job.tool = "load" /\ Loading(machine, job)
             /\ machine.runtime = "monitor" /\ job.route = "direct" /\ job.next = "write"
             /\ job.at = 1 /\ job.cell = 0 /\ RanWhole(machine, job, jobs)
  <2>1. RunFits(machine, job, jobs) /\ job.pc # "idle"
    BY <1>2, <1>3 DEF RunInv, Halting
  <2>2. job.tool = "load" /\ Loading(machine, job) /\ RanWhole(machine, job, jobs)
    BY <1>2, <2>1, PlaceTells
  <2> QED BY <1>2, <2>1, <2>2 DEF Loading, Route, Halting, Reading
<1>4. ASSUME NEW pc \in {"pause", "freeze", "stop"}, Asks(Goes(pc)) PROVE RunInv'
  <2> DEFINE g == Goes(pc)
  <2>1. /\ g.tool = job.tool /\ g.app = job.app /\ g.pc = pc /\ g.route = job.route
        /\ g.next = job.next /\ g.at = job.at /\ g.cell = job.cell
    BY <1>1, GoesFields
  <2>2. Asks(g)
    BY <1>4
  <2> HIDE DEF g
  <2>3. ASSUME hands = 0 PROVE RunFits(machine, g, jobs)
    <3>1. Route(machine, g)
      BY <1>3, <2>1, <2>3 DEF Route, Halting
    <3>2. Loading(machine, g)
      BY <1>3, <2>1, <2>3, <3>1 DEF Loading
    <3>3. machine.ring = <<>>
      BY <1>3, <2>3 DEF RunFits, Quiet
    <3> QED BY <1>2, <1>3, <2>1, <2>3, <3>2, <3>3, SameMachineFits DEF Halting
  <2> QED BY <2>1, <2>2, <2>3, RequestFits DEF Asks
<1>5. ASSUME Asks(Ended("failed")) PROVE RunInv'
  <2>1. hands = 0 => RunFits(machine, Ended("failed"), jobs)
    BY <1>1, <1>3, FailureFits
  <2>2. Ended("failed").tool = job.tool /\ Ended("failed").app = job.app
    BY <1>1, EndedFields
  <2> QED BY <1>5, <2>1, <2>2, RequestFits DEF Asks
<1>6. ASSUME NEW os \in {"paused", "monitor"}, NEW pc,
             pc = IF os = "paused" THEN "stop" ELSE "write",
             Does([machine EXCEPT !.os = os], Goes(pc))
      PROVE  RunInv'
  <2> DEFINE w == [machine EXCEPT !.os = os]  g == Goes(pc)
  <2>1. /\ g.tool = job.tool /\ g.app = job.app /\ g.pc = pc /\ g.route = job.route
        /\ g.next = job.next /\ g.at = job.at /\ g.cell = job.cell
    BY <1>1, <1>6, GoesFields
  <2>2. Does(w, g)
    BY <1>6
  <2>3. hands = 0 => /\ Quiet(w, jobs) /\ w.ring = <<>> /\ w.os = os
                     /\ w.runtime = "monitor" /\ w.ran = machine.ran
    BY <1>3, StateIsSet DEF MonitorStates
  <2> HIDE DEF w, g
  <2>4. ASSUME hands = 0 PROVE RunFits(w, g, jobs)
    <3>1. Route(w, g)
      BY <1>3, <1>6, <2>1, <2>3, <2>4 DEF Route, Halting
    <3>2. pc = "write" => Steady(w)
      BY <1>6, <2>3, <2>4 DEF Steady
    <3>3. InPlace(w, g)
      <4>1. \A space, cell : Placed(g, space, cell) = {}
        BY <1>1, <1>3, <2>1, <2>4, NothingPlaced
      <4> QED BY <4>1 DEF InPlace, IsLatest
    <3>4. Loading(w, g)
      BY <1>3, <1>6, <2>1, <2>4, <3>1, <3>2, <3>3 DEF Loading
    <3>5. Submits(w, g, jobs)
      BY <2>3, <2>4 DEF Submits
    <3>6. RanWhole(w, g, jobs)
      BY <1>3, <2>1, <2>3, <2>4 DEF RanWhole
    <3> QED BY <1>3, <2>1, <2>3, <2>4, <3>4, <3>5, <3>6 DEF RunFits, LoadFits
  <2> QED BY <2>1, <2>2, <2>4, RequestFits DEF Does
<1>7. CASE AsksStatus
  <2>1. Asks(Goes("pause")) \/ Asks(Goes("stop"))
    BY <1>7 DEF AsksStatus
  <2> QED BY <1>4, <2>1
<1>8. CASE AsksPause
  <2>1. Asks(Goes("freeze")) \/ Asks(Ended("failed"))
    BY <1>8 DEF AsksPause
  <2> QED BY <1>4, <1>5, <2>1
<1>9. CASE Freezes
  <2>1. Does([machine EXCEPT !.os = "paused"], Goes("stop")) \/ Asks(Ended("failed"))
    BY <1>9 DEF Freezes
  <2> QED BY <1>5, <1>6, <2>1
<1>10. CASE Stops
  <2>1. Does([machine EXCEPT !.os = "monitor"], Goes("write"))
    BY <1>10 DEF Stops
  <2> QED BY <1>6, <2>1
<1> QED BY <1>7, <1>8, <1>9, <1>10

\* A call that gives up by itself.
LEMMA GivesUpFits ==
  ASSUME RunInv, ToolsInv', job' = Ended("failed"), UNCHANGED <<machine, hands, jobs>>
  PROVE  RunInv'
<1>1. JobRecord(job)
  BY DEF RunInv, ToolsInv, GoodJob
<1>2. hands = 0 => RunFits(machine, job', jobs)
  BY <1>1, FailureFits DEF RunInv
<1> QED BY <1>2, HostFits

\* One more cell of the segment at hand.
LEMMA CellPlaced ==
  ASSUME NEW j, NEW k, j.app.segments \in Seq(Segments), j.at \in DOMAIN j.app.segments,
         j.cell \in Nat, j.cell < j.app.segments[j.at].length,
         k.app = j.app, k.at = j.at, k.cell = j.cell + 1,
         NEW space, NEW cell \in Nat
  PROVE  /\ \A i \in Placed(j, space, cell) : i <= j.at
         /\ IF /\ space = j.app.segments[j.at].space
               /\ cell = j.app.segments[j.at].address + j.cell
            THEN Placed(k, space, cell) = Placed(j, space, cell) \cup {j.at}
            ELSE Placed(k, space, cell) = Placed(j, space, cell)
<1> DEFINE seg == j.app.segments[j.at]
<1>1. /\ seg \in Segments /\ j.at \in Nat
      /\ j.app.segments[j.at] = seg /\ j.cell < seg.length
  OBVIOUS
<1> HIDE DEF seg
<1>2. seg.address \in Nat /\ seg.length \in Nat
  BY <1>1 DEF Segments
<1>3. \A i \in DOMAIN j.app.segments : i \in Nat
  OBVIOUS
<1>4. \A i : i \in Placed(j, space, cell) =>
        i \in DOMAIN j.app.segments /\ (i < j.at \/ i = j.at)
  BY DEF Placed, Covering
<1>5. ASSUME NEW i \in DOMAIN j.app.segments
      PROVE  i \in Placed(k, space, cell) <=>
               \/ i \in Placed(j, space, cell)
               \/ space = seg.space /\ cell = seg.address + j.cell /\ i = j.at
  <2>1. i \in Placed(k, space, cell) <=>
          /\ i \in Covering(j.app, space, cell)
          /\ i < j.at \/ (i = j.at /\ cell < seg.address + (j.cell + 1))
    BY <1>1 DEF Placed
  <2>2. i \in Placed(j, space, cell) <=>
          /\ i \in Covering(j.app, space, cell)
          /\ i < j.at \/ (i = j.at /\ cell < seg.address + j.cell)
    BY <1>1 DEF Placed
  <2>3. cell < seg.address + (j.cell + 1) <=>
          cell < seg.address + j.cell \/ cell = seg.address + j.cell
    BY <1>2
  <2>4. i = j.at /\ cell = seg.address + j.cell =>
          (i \in Covering(j.app, space, cell) <=> space = seg.space)
    <3>1. cell = seg.address + j.cell => cell \in CellsOf(seg)
      BY <1>1, <1>2 DEF CellsOf, EndOf
    <3> QED BY <1>1, <3>1 DEF Covering
  <2> QED BY <2>1, <2>2, <2>3, <2>4
<1>6. \A i : i \in Placed(k, space, cell) => i \in DOMAIN j.app.segments
  BY DEF Placed, Covering
<1>7. \A i \in Placed(j, space, cell) : i <= j.at
  BY <1>1, <1>3, <1>4
<1>8. CASE space = seg.space /\ cell = seg.address + j.cell
  <2>1. \A i : i \in Placed(k, space, cell) <=> i \in Placed(j, space, cell) \cup {j.at}
    BY <1>4, <1>5, <1>6, <1>8
  <2>2. Placed(k, space, cell) = Placed(j, space, cell) \cup {j.at}
    BY <2>1
  <2> QED BY <1>1, <1>7, <1>8, <2>2
<1>9. CASE ~(space = seg.space /\ cell = seg.address + j.cell)
  <2>1. \A i : i \in Placed(k, space, cell) <=> i \in Placed(j, space, cell)
    BY <1>4, <1>5, <1>6, <1>9
  <2>2. Placed(k, space, cell) = Placed(j, space, cell)
    <3>1. Placed(k, space, cell) \subseteq Placed(j, space, cell)
      BY <2>1
    <3>2. Placed(j, space, cell) \subseteq Placed(k, space, cell)
      BY <2>1
    <3> QED BY <3>1, <3>2
  <2> QED BY <1>1, <1>7, <1>9, <2>2
<1> QED BY <1>8, <1>9

LEMMA SegmentPlaced ==
  ASSUME NEW j, NEW k, j.app.segments \in Seq(Segments), j.at \in DOMAIN j.app.segments,
         j.cell = j.app.segments[j.at].length,
         k.app = j.app, k.at = j.at + 1, k.cell = 0,
         NEW space, NEW cell \in Nat
  PROVE  Placed(k, space, cell) = Placed(j, space, cell)
<1> DEFINE C == Covering(j.app, space, cell)
<1>1. ASSUME NEW i \in C
      PROVE  (i \in Placed(k, space, cell)) <=> (i \in Placed(j, space, cell))
  <2>1. i \in DOMAIN j.app.segments /\ cell \in CellsOf(j.app.segments[i])
    BY DEF Covering
  <2>2. i \in Nat /\ j.at \in Nat /\ j.app.segments[i] \in Segments
    BY <2>1
  <2>3. /\ j.app.segments[i].address \in Nat /\ j.app.segments[i].length \in Nat
        /\ j.app.segments[i].address <= cell
        /\ cell < j.app.segments[i].address + j.app.segments[i].length
    BY <2>1, <2>2 DEF CellsOf, EndOf, Segments
  <2>4. i \in Placed(k, space, cell) <=> i < j.at + 1
    <3>1. i \in Placed(k, space, cell) <=>
            i < j.at + 1 \/ (i = j.at + 1 /\ cell < j.app.segments[i].address + 0)
      BY DEF Placed
    <3> QED BY <2>3, <3>1
  <2>5. i \in Placed(j, space, cell) <=> i < j.at \/ i = j.at
    <3>1. i \in Placed(j, space, cell) <=>
            i < j.at \/ (i = j.at /\ cell < j.app.segments[i].address + j.cell)
      BY DEF Placed
    <3> QED BY <2>3, <3>1
  <2> QED BY <2>2, <2>4, <2>5
<1> QED BY <1>1 DEF Placed

LEMMA AllPlaced ==
  ASSUME NEW j, j.app.segments \in Seq(Segments), j.at \in Nat,
         j.at > Len(j.app.segments), NEW space, NEW cell
  PROVE  Placed(j, space, cell) = Covering(j.app, space, cell)
<1>1. \A i \in DOMAIN j.app.segments : i < j.at
  OBVIOUS
<1> QED BY <1>1 DEF Placed, Covering

\* A call at write or behind it, while nobody types.
LEMMA WritingTells ==
  ASSUME RunInv, hands = 0, job.pc \in {"write", "execute"}
  PROVE  /\ RunFits(machine, job, jobs) /\ Quiet(machine, jobs)
         /\ job.tool = "load" =>
              /\ Loading(machine, job) /\ RanWhole(machine, job, jobs)
              /\ \A i \in DOMAIN machine.ring :
                   ~(machine.ring[i].text = "USR" /\ machine.ring[i].by = jobs)
         /\ job.tool # "load" => job.tool = "asm" /\ job.route = "direct"
<1>1. RunFits(machine, job, jobs) /\ job.pc # "idle"
  BY DEF RunInv
<1>2. /\ Quiet(machine, jobs) /\ job.tool \in {"load", "asm"}
      /\ job.tool = "load" =>
           /\ Loading(machine, job) /\ Submits(machine, job, jobs)
           /\ RanWhole(machine, job, jobs)
  BY <1>1, PlaceTells
<1>3. job.tool = "asm" => job.route = "direct"
  BY <1>1 DEF RunFits, OtherFits
<1> QED BY <1>1, <1>2, <1>3 DEF Submits

\* What is written stays in place, and the new cell is there.
LEMMA WritesInPlace ==
  ASSUME RunInv, hands = 0, job.pc = "write", job.tool = "load", job.entry.mode # "none",
         Loading(machine, job), Quiet(machine, jobs),
         ~SegmentsAreDone, RangeAllowed(Segment), job.cell < Segment.length,
         NEW k, k.app = job.app, k.at = job.at, k.cell = job.cell + 1
  PROVE  InPlace(WithCell(Segment.space, Segment.address + job.cell), k)
<1> DEFINE target == Segment.address + job.cell
           effect == WithCell(Segment.space, target)
           seg == Segment
           at == job.at
<1>1. /\ job.app.segments \in Seq(Segments) /\ job.at \in Nat \ {0} /\ job.cell \in Nat
      /\ MachineRecord(machine) /\ DOMAIN machine.ram = 0 .. RamCells - 1
  BY DEF RunInv, ToolsInv, GoodJob, Safe
<1>2. job.at \in DOMAIN job.app.segments /\ seg = job.app.segments[job.at]
  BY <1>1 DEF SegmentsAreDone, Segment
<1>3. seg \in Segments
  BY <1>1, <1>2
<1>4. seg.address \in Nat /\ seg.length \in Nat /\ seg.space \in {"ram", "vram"}
  BY <1>3 DEF Segments
<1>5. Steady(machine) /\ InPlace(machine, job) /\ Route(machine, job)
  BY DEF Loading
<1>6. target \in Nat /\ target < seg.address + seg.length
  BY <1>1, <1>4
<1>7. seg.space = "ram" => target \in DOMAIN machine.ram /\ Writable(target)
  <2>1. SUFFICES ASSUME seg.space = "ram"
                 PROVE  target \in DOMAIN machine.ram /\ Writable(target)
    OBVIOUS
  <2>2. Fits(seg.address, seg.length, RamCells)
    BY <2>1 DEF RangeAllowed
  <2>3. target \in DOMAIN machine.ram
    <3>1. target < RamCells
      <4> HIDE DEF target, seg
      <4> QED BY <1>4, <1>6, <2>2 DEF Fits, RamCells
    <3> QED BY <1>1, <1>6, <3>1 DEF RamCells
  <2>4. machine.under # "basic" \/ seg.address >= 4
    BY <1>2, <1>5 DEF Route, Quiet
  <2>5. Writable(target)
    BY <1>1, <1>4, <2>4 DEF Writable
  <2> QED BY <2>3, <2>5
<1>8. seg.space = "vram" => target \in DOMAIN machine.vram
  <2>1. seg.space = "vram" => Fits(seg.address, seg.length, machine.vramSize)
    BY DEF RangeAllowed
  <2> QED BY <1>4, <1>6, <2>1 DEF Fits, Quiet, VramCells
<1>9. /\ seg.space = "ram" => effect = [machine EXCEPT !.ram[target] = at]
      /\ seg.space = "vram" => effect = [machine EXCEPT !.vram[target] = at]
  BY <1>7 DEF WithCell
<1>15. target = seg.address + job.cell /\ at = job.at
  OBVIOUS
<1> HIDE DEF target, effect, seg, at
<1>10. /\ seg.space = "ram" => effect.ram = [machine.ram EXCEPT ![target] = at]
                               /\ effect.vram = machine.vram
       /\ seg.space = "vram" => effect.vram = [machine.vram EXCEPT ![target] = at]
                                /\ effect.ram = machine.ram
  BY <1>1, <1>9 DEF MachineRecord, MachineFields
<1>11. DOMAIN machine.vram = 0 .. VramCells - 1
  BY DEF Quiet
<1>12. /\ seg.space = "ram" => target < RamCells
       /\ seg.space = "vram" => target < VramCells
  BY <1>1, <1>7, <1>8, <1>11 DEF RamCells, VramCells
<1>13. ASSUME NEW cell \in Nat
       PROVE  /\ IsLatest(effect.ram[cell], Placed(k, "ram", cell))
              /\ IsLatest(effect.vram[cell], Placed(k, "vram", cell))
              /\ Placed(k, "ram", cell) # {} => cell < RamCells
              /\ Placed(k, "vram", cell) # {} => cell < VramCells
  <2>1. /\ IsLatest(machine.ram[cell], Placed(job, "ram", cell))
        /\ IsLatest(machine.vram[cell], Placed(job, "vram", cell))
        /\ Placed(job, "ram", cell) # {} => cell < RamCells
        /\ Placed(job, "vram", cell) # {} => cell < VramCells
    BY <1>5 DEF InPlace
  <2>2. ASSUME NEW space
        PROVE  /\ \A i \in Placed(job, space, cell) : i <= at
               /\ IF space = seg.space /\ cell = target
                  THEN Placed(k, space, cell) = Placed(job, space, cell) \cup {at}
                  ELSE Placed(k, space, cell) = Placed(job, space, cell)
    <3>1. job.cell < seg.length
      BY DEF seg
    <3>2. at \in DOMAIN job.app.segments /\ seg = job.app.segments[at]
      BY <1>2, <1>15
    <3>3. job.at \in DOMAIN job.app.segments /\ job.cell < job.app.segments[job.at].length
      BY <1>2, <3>1
    <3> QED BY <1>1, <1>2, <1>15, <3>3, CellPlaced
  <2>3. at <= at /\ at \in Nat
    BY <1>1 DEF at
  <2>4. ASSUME NEW old, NEW new, NEW space, NEW size \in {RamCells, VramCells},
               DOMAIN old = 0 .. size - 1,
               IsLatest(old[cell], Placed(job, space, cell)),
               Placed(job, space, cell) # {} => cell < size,
               \/ space = seg.space /\ target < size /\ new = [old EXCEPT ![target] = at]
               \/ space # seg.space /\ new = old
        PROVE  /\ IsLatest(new[cell], Placed(k, space, cell))
               /\ Placed(k, space, cell) # {} => cell < size
    <3>1. CASE space = seg.space /\ cell = target
      <4>1. new[cell] = at
        BY <1>6, <2>4, <3>1 DEF RamCells, VramCells
      <4> QED BY <2>2, <2>3, <2>4, <3>1, <4>1 DEF IsLatest
    <3>2. CASE ~(space = seg.space /\ cell = target)
      <4>1. Placed(k, space, cell) = Placed(job, space, cell)
        BY <2>2, <3>2
      <4>2. cell < size => new[cell] = old[cell]
        BY <2>4, <3>2 DEF RamCells, VramCells
      <4> QED BY <2>4, <4>1, <4>2 DEF IsLatest
    <3> QED BY <3>1, <3>2
  <2>5. /\ IsLatest(effect.ram[cell], Placed(k, "ram", cell))
        /\ Placed(k, "ram", cell) # {} => cell < RamCells
    BY <1>1, <1>4, <1>10, <1>12, <2>1, <2>4
  <2>6. /\ IsLatest(effect.vram[cell], Placed(k, "vram", cell))
        /\ Placed(k, "vram", cell) # {} => cell < VramCells
    BY <1>4, <1>10, <1>11, <1>12, <2>1, <2>4
  <2> QED BY <2>5, <2>6
<1>14. InPlace(effect, k)
  BY <1>13 DEF InPlace
<1> QED BY <1>14 DEF effect, seg, target

LEMMA GiveUpsFit ==
  ASSUME RunInv, ToolsInv', WriteRefused \/ NeverDrained
  PROVE  RunInv'
BY GivesUpFits DEF WriteRefused, NeverDrained

LEMMA WithCellFields ==
  ASSUME MachineRecord(machine), NEW space, NEW cell
  PROVE  LET w == WithCell(space, cell)
         IN /\ w.runtime = machine.runtime /\ w.os = machine.os /\ w.under = machine.under
            /\ w.shows = machine.shows /\ w.ring = machine.ring /\ w.program = machine.program
            /\ w.vramSize = machine.vramSize /\ w.ran = machine.ran /\ w.temp = machine.temp
            /\ DOMAIN w.vram = DOMAIN machine.vram
<1> DEFINE w == WithCell(space, cell)  at == job.at
           ram == [machine.ram EXCEPT ![cell] = at]
           vram == [machine.vram EXCEPT ![cell] = at]
<1>1. DOMAIN vram = DOMAIN machine.vram
  OBVIOUS
<1>2. \/ w = [machine EXCEPT !.ram = ram] \/ w = [machine EXCEPT !.vram = vram] \/ w = machine
  BY DEF WithCell
<1> HIDE DEF w, ram, vram
<1>3. /\ w.runtime = machine.runtime /\ w.os = machine.os /\ w.under = machine.under
      /\ w.shows = machine.shows /\ w.ring = machine.ring /\ w.program = machine.program
      /\ w.vramSize = machine.vramSize /\ w.ran = machine.ran /\ w.temp = machine.temp
      /\ w.vram \in {machine.vram, vram}
  BY <1>2 DEF MachineRecord, MachineFields
<1> QED BY <1>1, <1>3 DEF w

LEMMA WriteCellFits == ASSUME RunInv, ToolsInv', WriteCell PROVE RunInv'
<1> DEFINE w == WithCell(Segment.space, Segment.address + job.cell)
           k == [job EXCEPT !.cell = @ + 1]
<1>1. /\ job.pc = "write" /\ ~SegmentsAreDone /\ RangeAllowed(Segment)
      /\ job.cell < Segment.length /\ Exchange(w, k, "up")
  BY DEF WriteCell, Does
<1>2. JobRecord(job) /\ MachineRecord(machine)
  BY DEF RunInv, ToolsInv, GoodJob, Safe
<1>3. /\ w.runtime = machine.runtime /\ w.os = machine.os /\ w.under = machine.under
      /\ w.shows = machine.shows /\ w.ring = machine.ring /\ w.program = machine.program
      /\ w.vramSize = machine.vramSize /\ w.ran = machine.ran
      /\ DOMAIN w.vram = DOMAIN machine.vram
  BY <1>2, WithCellFields
<1>4. /\ k.tool = job.tool /\ k.app = job.app /\ k.pc = job.pc /\ k.entry = job.entry
      /\ k.route = job.route /\ k.next = job.next /\ k.at = job.at /\ k.cell = job.cell + 1
  BY <1>2 DEF JobRecord, JobFields
<1>5. ASSUME hands = 0, job.tool = "load", job.entry.mode # "none",
             Loading(machine, job), Quiet(machine, jobs)
      PROVE  InPlace(w, k)
  BY <1>1, <1>4, <1>5, WritesInPlace
<1> HIDE DEF w, k
<1>6. ASSUME hands = 0 PROVE RunFits(w, k, jobs)
  <2>1. /\ Quiet(machine, jobs)
        /\ job.tool = "load" =>
             /\ Loading(machine, job) /\ RanWhole(machine, job, jobs)
             /\ \A i \in DOMAIN machine.ring :
                  ~(machine.ring[i].text = "USR" /\ machine.ring[i].by = jobs)
        /\ job.tool # "load" => job.tool = "asm" /\ job.route = "direct"
    BY <1>1, <1>6, WritingTells
  <2>2. Quiet(w, jobs)
    BY <1>3, <2>1 DEF Quiet
  <2>3. ASSUME job.tool = "load" PROVE LoadFits(w, k, jobs)
    <3>1. Loading(machine, job)
      BY <2>1, <2>3
    <3>2. Route(w, k)
      BY <1>3, <1>4, <3>1 DEF Loading, Route
    <3>3. k.entry.mode # "none" => Steady(w) /\ InPlace(w, k)
      BY <1>1, <1>3, <1>4, <1>5, <1>6, <2>1, <2>3, <3>1 DEF Loading, Steady
    <3>4. Loading(w, k)
      BY <1>1, <1>4, <3>1, <3>2, <3>3 DEF Loading, Halting, Reading
    <3>5. Submits(w, k, jobs)
      BY <1>3, <2>1, <2>3 DEF Submits
    <3>6. RanWhole(w, k, jobs)
      BY <1>3, <1>4, <2>1, <2>3 DEF RanWhole
    <3> QED BY <3>4, <3>5, <3>6 DEF LoadFits
  <2>4. job.tool # "load" => OtherFits(w, k)
    BY <1>1, <1>4, <2>1 DEF OtherFits
  <2> QED BY <1>4, <2>1, <2>2, <2>3, <2>4 DEF RunFits
<1> QED BY <1>1, <1>4, <1>6, RequestFits

\* The next segment, and the end of them.
LEMMA NextSegmentFits ==
  ASSUME RunInv, hands = 0, job.pc = "write", ~SegmentsAreDone, job.cell = Segment.length
  PROVE  RunFits(machine, NextSegment, jobs)
<1> DEFINE k == NextSegment
<1>1. /\ JobRecord(job) /\ job.app.segments \in Seq(Segments) /\ job.at \in Nat \ {0}
  BY DEF RunInv, ToolsInv, GoodJob
<1>2. /\ k.tool = job.tool /\ k.app = job.app /\ k.pc = job.pc /\ k.entry = job.entry
      /\ k.route = job.route /\ k.next = job.next /\ k.at = job.at + 1 /\ k.cell = 0
  BY <1>1 DEF NextSegment, JobRecord, JobFields
<1> HIDE DEF k
<1>3. job.at \in DOMAIN job.app.segments /\ job.cell = job.app.segments[job.at].length
  BY <1>1 DEF SegmentsAreDone, Segment
<1>4. /\ RunFits(machine, job, jobs)
      /\ job.tool = "load" => Loading(machine, job)
      /\ job.tool # "load" => job.tool = "asm" /\ job.route = "direct"
  BY WritingTells
<1>5. \A space : \A cell \in Nat : Placed(k, space, cell) = Placed(job, space, cell)
  BY <1>1, <1>2, <1>3, SegmentPlaced
<1>6. InPlace(machine, job) => InPlace(machine, k)
  BY <1>5 DEF InPlace
<1>7. ASSUME job.tool = "load" PROVE Loading(machine, k)
  <2>1. Loading(machine, job)
    BY <1>4, <1>7
  <2>2. Route(machine, k)
    BY <1>2, <2>1 DEF Loading, Route
  <2> QED BY <1>2, <1>6, <2>1, <2>2 DEF Loading, Halting, Reading
<1>8. job.tool # "load" => OtherFits(machine, k)
  BY <1>2, <1>4 DEF OtherFits
<1>9. RunFits(machine, k, jobs)
  BY <1>2, <1>4, <1>7, <1>8, SameMachineFits
<1> QED BY <1>9 DEF k

LEMMA VerifiesFits == ASSUME RunInv, ToolsInv', Verifies PROVE RunInv'
<1> DEFINE k == NextSegment
<1>1. /\ job.pc = "write" /\ ~SegmentsAreDone /\ job.cell = Segment.length
      /\ \/ Asks(k) \/ Asks(Ended("failed"))
         \/ job' = k /\ UNCHANGED <<machine, hands, link, touched, jobs, faults>>
  BY DEF Verifies
<1>2. JobRecord(job)
  BY DEF RunInv, ToolsInv, GoodJob
<1>3. k.tool = job.tool /\ k.app = job.app
  BY <1>2 DEF NextSegment, JobRecord, JobFields
<1>4. hands = 0 => RunFits(machine, k, jobs)
  BY <1>1, NextSegmentFits
<1> DEFINE e == Ended("failed")
<1>5. /\ e.tool = job.tool /\ e.app = job.app
      /\ hands = 0 => RunFits(machine, e, jobs)
  BY <1>2, EndedFields, FailureFits DEF RunInv
<1> HIDE DEF k, e
<1>6. ASSUME Asks(k) PROVE RunInv'
  BY <1>3, <1>4, <1>6, RequestFits DEF Asks
<1>7. ASSUME Asks(e) PROVE RunInv'
  BY <1>5, <1>7, RequestFits DEF Asks
<1>8. ASSUME job' = k, UNCHANGED <<machine, hands, link, touched, jobs, faults>> PROVE RunInv'
  BY <1>4, <1>8, HostFits
<1> QED BY <1>1, <1>6, <1>7, <1>8 DEF e

LEMMA LoadedFits == ASSUME RunInv, ToolsInv', Loaded PROVE RunInv'
<1>1. job.pc = "write" /\ SegmentsAreDone /\ UNCHANGED <<machine, hands, jobs>>
  BY DEF Loaded
<1>2. JobRecord(job) /\ job.app.segments \in Seq(Segments) /\ job.at \in Nat \ {0}
  BY DEF RunInv, ToolsInv, GoodJob
<1> DEFINE g == Goes("type")  after == IF job.entry.mode = "call" THEN "probe" ELSE "done"
           t == [g EXCEPT !.lines = <<"USR">>, !.tries = 0, !.after = after, !.next = "done"]
<1>3. \/ job.entry.mode = "none" /\ job' = Ended("ok")
      \/ job.entry.mode # "none" /\ job.route = "direct" /\ job' = Goes("execute")
      \/ job.entry.mode # "none" /\ job.route # "direct" /\ job' = t
  BY DEF Loaded
<1>4. ASSUME hands = 0
      PROVE  /\ RunFits(machine, job, jobs)
             /\ job.tool = "load" => Loading(machine, job)
             /\ job.tool # "load" => job.tool = "asm" /\ job.route = "direct"
             /\ job.tool = "load" /\ job.entry.mode # "none" =>
                  Steady(machine) /\ Complete(machine.ram, machine.vram, job.app)
  <2>1. /\ RunFits(machine, job, jobs)
        /\ job.tool = "load" => Loading(machine, job)
        /\ job.tool # "load" => job.tool = "asm" /\ job.route = "direct"
    BY <1>1, <1>4, WritingTells
  <2>2. ASSUME job.tool = "load", job.entry.mode # "none"
        PROVE  Steady(machine) /\ Complete(machine.ram, machine.vram, job.app)
    <3>1. Steady(machine) /\ InPlace(machine, job)
      BY <1>1, <2>1, <2>2 DEF Loading
    <3>2. \A space, cell : Placed(job, space, cell) = Covering(job.app, space, cell)
      BY <1>1, <1>2, AllPlaced DEF SegmentsAreDone
    <3> QED BY <3>1, <3>2 DEF InPlace, Complete
  <2> QED BY <2>1, <2>2
<1>5. CASE job.entry.mode = "none" /\ job' = Ended("ok")
  <2> DEFINE e == Ended("ok")
  <2>1. e.tool = job.tool /\ e.app = job.app /\ e.pc = "idle" /\ e.route = "direct"
    BY <1>2, EndedFields
  <2> HIDE DEF e
  <2>2. hands = 0 => RunFits(machine, e, jobs)
    BY <1>1, <1>4, <2>1, SameMachineFits DEF OtherFits
  <2>3. job' = e
    BY <1>5 DEF e
  <2> QED BY <1>1, <2>2, <2>3, HostFits
<1>6. CASE job.entry.mode # "none" /\ job.route = "direct" /\ job' = Goes("execute")
  <2> DEFINE x == Goes("execute")
  <2>1. /\ x.tool = job.tool /\ x.app = job.app /\ x.pc = "execute" /\ x.route = job.route
        /\ x.entry = job.entry /\ x.next = job.next
    BY <1>2, GoesFields
  <2> HIDE DEF x
  <2>2. ASSUME hands = 0, job.tool = "load" PROVE Loading(machine, x)
    <3>1. Loading(machine, job)
      BY <1>4, <2>2
    <3>2. Route(machine, x)
      BY <1>1, <1>6, <2>1, <3>1 DEF Loading, Route, Reading
    <3> QED BY <1>1, <1>4, <1>6, <2>1, <2>2, <3>1, <3>2 DEF Loading, Halting, Reading
  <2>3. ASSUME hands = 0, job.tool # "load" PROVE OtherFits(machine, x)
    BY <1>4, <2>1, <2>3 DEF OtherFits
  <2>4. hands = 0 => RunFits(machine, x, jobs)
    BY <1>1, <1>4, <2>1, <2>2, <2>3, SameMachineFits
  <2>5. job' = x
    BY <1>6 DEF x
  <2> QED BY <1>1, <2>4, <2>5, HostFits
<1>7. CASE job.entry.mode # "none" /\ job.route # "direct" /\ job' = t
  <2>1. /\ JobRecord(g) /\ g.tool = job.tool /\ g.app = job.app /\ g.pc = "type"
        /\ g.route = job.route /\ g.entry = job.entry
    BY <1>2, GoesFields
  <2> HIDE DEF g, after
  <2>2. /\ t.tool = job.tool /\ t.app = job.app /\ t.pc = "type"
        /\ t.route = job.route /\ t.entry = job.entry /\ t.next = "done"
        /\ t.lines = <<"USR">>
    BY <2>1 DEF JobRecord, JobFields
  <2>3. job' = t
    BY <1>7
  <2> HIDE DEF t
  <2>4. ASSUME hands = 0, job.tool = "load" PROVE Loading(machine, t)
    <3>1. Loading(machine, job)
      BY <1>4, <2>4
    <3>2. Route(machine, t)
      BY <1>1, <1>7, <2>2, <3>1 DEF Loading, Route, Reading
    <3> QED BY <1>1, <1>4, <1>7, <2>2, <2>4, <3>1, <3>2 DEF Loading, Halting, Reading
  <2>5. ASSUME hands = 0 PROVE job.tool = "load"
    BY <1>4, <1>7, <2>5
  <2>6. hands = 0 => RunFits(machine, t, jobs)
    BY <1>1, <1>4, <2>2, <2>4, <2>5, SameMachineFits
  <2> QED BY <1>1, <2>3, <2>6, HostFits
<1> QED BY <1>3, <1>5, <1>6, <1>7

\* The monitor launches the image, which is complete and stays as it is.
LEMMA ImageLaunches ==
  ASSUME RunInv, hands = 0, job.pc = "execute", machine.os = "monitor",
         NEW os \in {"monitor", "busy"}, NEW w,
         MachineRecord(w), w.os = os,
         w.ran = <<"image", machine.ram, machine.vram, jobs>>,
         \A f \in MachineFields \ {"os", "ran"} : w[f] = machine[f]
  PROVE  RunFits(w, Ended("ok"), jobs)
<1> DEFINE k == Ended("ok")
<1>1. k.tool = job.tool /\ k.app = job.app /\ k.pc = "idle" /\ k.route = "direct"
  BY EndedFields DEF RunInv, ToolsInv, GoodJob
<1> HIDE DEF k
<1>2. /\ Quiet(machine, jobs)
      /\ job.tool = "load" => Loading(machine, job)
      /\ job.tool # "load" => job.tool = "asm"
  BY WritingTells
<1>3. /\ w.runtime = machine.runtime /\ w.under = machine.under /\ w.shows = machine.shows
      /\ w.ring = machine.ring /\ w.program = machine.program /\ w.vram = machine.vram
      /\ w.vramSize = machine.vramSize
  BY DEF MachineFields
<1>4. machine.runtime = "monitor" /\ machine.ring = <<>> /\ machine.under = "monitor"
      /\ machine.shows # "basic"
  BY <1>2 DEF Quiet, SystemStates
<1>5. Quiet(w, jobs)
  BY <1>2, <1>3, <1>4 DEF Quiet, MonitorStates
<1>6. ASSUME job.tool = "load" PROVE LoadFits(w, k, jobs)
  <2>1. Complete(machine.ram, machine.vram, job.app)
    BY <1>2, <1>6 DEF Loading
  <2>2. w.ran[2] = machine.ram /\ w.ran[3] = machine.vram
    OBVIOUS
  <2>3. RanWhole(w, k, jobs)
    BY <1>1, <2>1, <2>2 DEF RanWhole
  <2>4. Submits(w, k, jobs)
    BY <1>3, <1>4 DEF Submits
  <2> QED BY <1>1, <2>3, <2>4 DEF LoadFits
<1>7. job.tool # "load" => OtherFits(w, k)
  BY <1>1, <1>2 DEF OtherFits
<1>8. RunFits(w, k, jobs)
  BY <1>1, <1>2, <1>5, <1>6, <1>7 DEF RunFits
<1> QED BY <1>8 DEF k

LEMMA ExecutesFits == ASSUME RunInv, ToolsInv', Executes PROVE RunInv'
<1> DEFINE image == <<"image", machine.ram, machine.vram, jobs>>
           ran == [machine EXCEPT !.ran = image]
           busy == [ran EXCEPT !.os = "busy"]
           k == Ended("ok")  e == Ended("failed")
<1>1. /\ job.pc = "execute"
      /\ \/ machine.os = "monitor" /\ (Does(ran, k) \/ Does(busy, k))
         \/ Asks(e)
  BY DEF Executes
<1>2. JobRecord(job) /\ MachineRecord(machine)
  BY DEF RunInv, ToolsInv, GoodJob, Safe
<1>3. /\ k.tool = job.tool /\ k.app = job.app /\ e.tool = job.tool /\ e.app = job.app
      /\ hands = 0 => RunFits(machine, e, jobs)
  BY <1>2, EndedFields, FailureFits DEF RunInv
<1> HIDE DEF image
<1>4. /\ MachineRecord(ran) /\ ran.os = machine.os /\ ran.ran = image
      /\ \A f \in MachineFields \ {"os", "ran"} : ran[f] = machine[f]
  BY <1>2 DEF MachineRecord, MachineFields
<1> HIDE DEF ran
<1>5. /\ MachineRecord(busy) /\ busy.os = "busy" /\ busy.ran = image
      /\ \A f \in MachineFields \ {"os", "ran"} : busy[f] = machine[f]
  BY <1>4 DEF MachineRecord, MachineFields
<1> HIDE DEF busy
<1>6. machine.os = "monitor" /\ hands = 0 => RunFits(ran, k, jobs) /\ RunFits(busy, k, jobs)
  BY <1>1, <1>4, <1>5, ImageLaunches DEF image
<1> HIDE DEF k, e
<1>7. ASSUME Asks(e) PROVE RunInv'
  BY <1>3, <1>7, RequestFits DEF Asks
<1>8. ASSUME machine.os = "monitor", NEW w \in {ran, busy}, Does(w, k) PROVE RunInv'
  BY <1>3, <1>6, <1>8, RequestFits DEF Does
<1> QED BY <1>1, <1>7, <1>8

----------------------------------------------------------------------------
(* The screen and the keyboard.                                            *)

\* A reboot asks for the prompt of BASIC first.
LEMMA RebootReads ==
  ASSUME RunInv, hands = 0, job.pc # "idle", job.tool = "reboot"
  PROVE  /\ machine.runtime = "resident" /\ job.next = "empty"
         /\ job.pc \in Reading \cup {"reboot", "empty", "publish"}
BY DEF RunInv, RunFits, OtherFits

\* An answer about the screen, and where it leads.
LEMMA LookFits ==
  ASSUME RunInv, ToolsInv', NEW k, Asks(k), Settled,
         job.pc \in {"screen", "probe"}, k.tool = job.tool, k.app = job.app,
         k.route = job.route, k.entry = job.entry, k.at = job.at, k.cell = job.cell,
         k.next = job.next,
         \/ k.pc = job.next /\ job.next # "done" /\ machine.shows = "basic"
         \/ k.pc = "type" /\ k.lines = <<"BASIC">> /\ job.pc = "screen"
         \/ k.pc = "probe" /\ job.pc = "probe"
  PROVE  RunInv'
<1>1. ASSUME hands = 0 PROVE RunFits(machine, k, jobs)
  <2>1. RunFits(machine, job, jobs) /\ job.pc # "idle" /\ Quiet(machine, jobs)
    BY <1>1 DEF RunInv, RunFits
  <2>2. job.tool \in {"load", "reboot"} /\ (job.tool = "load" => Loading(machine, job))
    BY <2>1, PlaceTells
  <2>3. ASSUME job.tool = "reboot" PROVE OtherFits(machine, k)
    <3>1. machine.runtime = "resident" /\ job.next = "empty"
      BY <1>1, <2>1, <2>3, RebootReads
    <3> QED BY <2>3, <3>1 DEF OtherFits, Reading
  <2>4. ASSUME job.tool = "load" PROVE Loading(machine, k)
    <3>1. Loading(machine, job)
      BY <2>2, <2>4
    <3>2. /\ job.next \in {"write", "done"} /\ k.pc \in {"write", "type", "probe"}
          /\ job.next = "write" => job.at = 1 /\ job.cell = 0
          /\ k.pc # "probe" => job.next = "write"
      BY <3>1 DEF Loading, Reading
    <3>3. Route(machine, job) /\ job.route = "basic" /\ machine.runtime = "resident"
      BY <3>1 DEF Loading, Route, Halting
    <3>4. Route(machine, k)
      BY <3>2, <3>3 DEF Route, Reading, Halting
    <3>5. ASSUME k.pc = "write" PROVE Steady(machine) /\ InPlace(machine, k)
      <4>1. machine.shows = "basic" /\ machine.os \in {"basic", "gone"}
        BY <2>1, <3>2, <3>5 DEF Quiet
      <4>2. machine.os # "gone"
        BY DEF Asks, Exchange, RunInv, ToolsInv, Ends
      <4>3. machine.ring = <<>>
        BY <4>1, <4>2 DEF Settled, AtPrompt
      <4>4. \A space, cell : Placed(k, space, cell) = {}
        <5>1. k.app.segments \in Seq(Segments)
          BY DEF RunInv, ToolsInv, GoodJob
        <5>2. k.at = 1 /\ k.cell = 0
          BY <3>2, <3>5
        <5> QED BY <5>1, <5>2, NothingPlaced
      <4> QED BY <4>1, <4>2, <4>3, <4>4 DEF Steady, InPlace, IsLatest
    <3> QED BY <3>2, <3>4, <3>5 DEF Loading, Halting
  <2> QED BY <2>1, <2>2, <2>3, <2>4, SameMachineFits
<1> QED BY <1>1, RequestFits DEF Asks

\* A call that ends with an answer.
LEMMA AnswerEnds ==
  ASSUME RunInv, ToolsInv', NEW result, Asks(Ended(result)), job.pc # "idle",
         job.tool \notin {"basic", "file"} \/ result # "ok"
  PROVE  RunInv'
<1> DEFINE e == Ended(result)
<1>1. /\ e.tool = job.tool /\ e.app = job.app /\ e.pc = "idle" /\ e.route = "direct"
      /\ e.result = result
  BY EndedFields DEF RunInv, ToolsInv, GoodJob
<1>2. Exchange(machine, e, "up")
  BY DEF Asks
<1> HIDE DEF e
<1>3. ASSUME hands = 0 PROVE RunFits(machine, e, jobs)
  <2>1. RunFits(machine, job, jobs)
    BY <1>3 DEF RunInv
  <2>2. job.tool \in {"basic", "file"} => BasicFits(machine, e)
    BY <1>1 DEF BasicFits
  <2>3. job.tool \notin {"load", "basic", "file"} => OtherFits(machine, e)
    BY <1>1, <2>1 DEF RunFits, OtherFits
  <2> QED BY <1>1, <2>1, <2>2, <2>3, SameMachineFits
<1> QED BY <1>1, <1>2, <1>3, RequestFits

LEMMA LooksFits == ASSUME RunInv, ToolsInv', LooksAtScreen PROVE RunInv'
<1> DEFINE n == Goes(job.next)  g == Goes("type")
           t == [g EXCEPT !.lines = <<"BASIC">>, !.after = "probe"]
<1>1. /\ job.pc = "screen" /\ Settled
      /\ \/ machine.shows = "basic" /\ Asks(n)
         \/ Asks(t)
         \/ Asks(Ended("refused"))
  BY DEF LooksAtScreen
<1>2. JobRecord(job)
  BY DEF RunInv, ToolsInv, GoodJob
<1>3. ASSUME Asks(Ended("refused")) PROVE RunInv'
  BY <1>1, <1>3, AnswerEnds
<1>4. ASSUME machine.shows = "basic", Asks(n) PROVE RunInv'
  <2>1. CASE job.next = "done"
    <3>1. Asks(Ended("ok"))
      BY <1>4, <2>1, <1>2, GoesFields
    <3>2. ASSUME hands = 0 PROVE job.next # "done"
      <4>1. RunFits(machine, job, jobs) /\ job.tool \in {"load", "reboot"}
        BY <1>1, <3>2, PlaceTells DEF RunInv
      <4> QED BY <1>1, <4>1 DEF RunFits, LoadFits, Loading, OtherFits
    <3> QED BY <1>2, <2>1, <3>1, <3>2, RequestFits, EndedFields DEF Asks
  <2>2. CASE job.next # "done"
    <3>1. /\ n.tool = job.tool /\ n.app = job.app /\ n.pc = job.next /\ n.route = job.route
          /\ n.entry = job.entry /\ n.next = job.next /\ n.at = job.at /\ n.cell = job.cell
      BY <1>2, <2>2, GoesFields
    <3> HIDE DEF n
    <3> QED BY <1>1, <1>4, <2>2, <3>1, LookFits
  <2> QED BY <2>1, <2>2
<1>5. ASSUME Asks(t) PROVE RunInv'
  <2>1. /\ JobRecord(g) /\ g.tool = job.tool /\ g.app = job.app /\ g.pc = "type"
        /\ g.route = job.route /\ g.entry = job.entry /\ g.next = job.next
        /\ g.at = job.at /\ g.cell = job.cell
    BY <1>2, GoesFields
  <2> HIDE DEF g
  <2>2. /\ t.tool = job.tool /\ t.app = job.app /\ t.pc = "type" /\ t.lines = <<"BASIC">>
        /\ t.route = job.route /\ t.entry = job.entry /\ t.next = job.next
        /\ t.at = job.at /\ t.cell = job.cell
    BY <2>1 DEF JobRecord, JobFields
  <2>3. Asks(t)
    BY <1>5
  <2> HIDE DEF t
  <2> QED BY <1>1, <2>2, <2>3, LookFits
<1> QED BY <1>1, <1>3, <1>4, <1>5

LEMMA ProbesFits == ASSUME RunInv, ToolsInv', Probes PROVE RunInv'
<1> DEFINE n == Goes(job.next)  t == [job EXCEPT !.tries = @ + 1]
<1>1. /\ job.pc = "probe" /\ Settled
      /\ \/ machine.shows = "basic" /\ Asks(n)
         \/ Asks(t)
         \/ Asks(Ended("failed"))
  BY DEF Probes
<1>2. JobRecord(job)
  BY DEF RunInv, ToolsInv, GoodJob
<1>3. ASSUME Asks(Ended("failed")) PROVE RunInv'
  BY <1>1, <1>3, AnswerEnds
<1>4. ASSUME machine.shows = "basic", Asks(n) PROVE RunInv'
  <2>1. CASE job.next = "done"
    <3>1. Asks(Ended("ok"))
      BY <1>4, <2>1, <1>2, GoesFields
    <3>2. CASE hands = 0
      <4>1. RunFits(machine, job, jobs) /\ job.tool \in {"load", "reboot"}
        BY <1>1, <3>2, PlaceTells DEF RunInv
      <4> QED BY <1>1, <3>1, <4>1, AnswerEnds
    <3>3. CASE hands # 0
      BY <1>2, <3>1, <3>3, RequestFits, EndedFields DEF Asks
    <3> QED BY <3>2, <3>3
  <2>2. CASE job.next # "done"
    <3>1. /\ n.tool = job.tool /\ n.app = job.app /\ n.pc = job.next /\ n.route = job.route
          /\ n.entry = job.entry /\ n.next = job.next /\ n.at = job.at /\ n.cell = job.cell
      BY <1>2, <2>2, GoesFields
    <3> HIDE DEF n
    <3> QED BY <1>1, <1>4, <2>2, <3>1, LookFits
  <2> QED BY <2>1, <2>2
<1>5. ASSUME Asks(t) PROVE RunInv'
  <2>1. /\ t.tool = job.tool /\ t.app = job.app /\ t.pc = "probe"
        /\ t.route = job.route /\ t.entry = job.entry /\ t.next = job.next
        /\ t.at = job.at /\ t.cell = job.cell
    BY <1>1, <1>2 DEF JobRecord, JobFields
  <2>2. Asks(t)
    BY <1>5
  <2> HIDE DEF t
  <2> QED BY <1>1, <2>1, <2>2, LookFits
<1> QED BY <1>1, <1>3, <1>4, <1>5

LEMMA HeadThenTail ==
  ASSUME NEW S, NEW s \in Seq(S), s # <<>>
  PROVE  <<Head(s)>> \o Tail(s) = s
<1> DEFINE h == <<Head(s)>>  t == Tail(s)
<1>1. /\ Len(s) \in Nat \ {0} /\ Head(s) = s[1] /\ Head(s) \in S
      /\ t \in Seq(S) /\ Len(t) = Len(s) - 1
      /\ \A i \in 1 .. Len(t) : t[i] = s[1 + i]
  OBVIOUS
<1>2. h \in Seq(S) /\ Len(h) = 1 /\ h[1] = s[1]
  BY <1>1
<1> HIDE DEF h, t
<1>3. /\ Len(s) = Len(h) + Len(t)
      /\ \A i \in 1 .. Len(h) : s[i] = h[i]
      /\ \A i \in 1 .. Len(t) : s[Len(h) + i] = t[i]
  BY <1>1, <1>2
<1>4. h \o t = s
  BY <1>1, <1>2, <1>3, Joined
<1> QED BY <1>4 DEF h, t

LEMMA StageIsAtPrompt ==
  ASSUME NEW m, NEW keeps, NEW r, Stage(m, keeps, r), r # <<>>
  PROVE  m.os \in {"dos", "worker", "starting", "basic"}
BY DEF Stage

\* A line that joins the ring.
LEMMA TypedFits ==
  ASSUME MachineRecord(machine), machine.ring \in Seq(Keys), jobs \in Nat,
         Quiet(machine, jobs), machine.runtime = "resident", NEW text
  PROVE  LET w == Typed(text, jobs)
         IN /\ Quiet(w, jobs) /\ w.os = machine.os /\ w.ram = machine.ram
            /\ w.vram = machine.vram /\ w.ran = machine.ran /\ w.temp = machine.temp
            /\ w.program = machine.program /\ w.runtime = machine.runtime
            /\ Len(w.ring) = Len(machine.ring) + 1 /\ Len(machine.ring) \in Nat
            /\ \A i \in DOMAIN w.ring :
                 \/ i \in DOMAIN machine.ring /\ w.ring[i] = machine.ring[i]
                 \/ i = Len(w.ring) /\ w.ring[i] = [text |-> text, by |-> jobs]
<1> DEFINE x == [text |-> text, by |-> jobs]
           ring == Append(machine.ring, x)
           w == Typed(text, jobs)
<1>1. w = [machine EXCEPT !.ring = ring]
  BY DEF Typed
<1>2. /\ Len(machine.ring) \in Nat /\ Len(ring) = Len(machine.ring) + 1
      /\ \A i \in DOMAIN ring :
           \/ i \in DOMAIN machine.ring /\ ring[i] = machine.ring[i]
           \/ i = Len(ring) /\ ring[i] = x
  <2> HIDE DEF x, Keys
  <2> DEFINE n == Len(machine.ring)
  <2>1. n \in Nat /\ DOMAIN machine.ring = 1 .. n
    OBVIOUS
  <2>2. /\ Len(ring) = n + 1 /\ DOMAIN ring = 1 .. n + 1
        /\ \A i \in 1 .. n + 1 : ring[i] = IF i <= n THEN machine.ring[i] ELSE x
    <3> DEFINE T == Keys \cup {x}
    <3>1. machine.ring \in Seq(T) /\ x \in T
      <4>1. \A i \in 1 .. n : machine.ring[i] \in Keys
        OBVIOUS
      <4> QED BY <2>1, <4>1
    <3> HIDE DEF T
    <3> QED BY <3>1, AppendProperties
  <2> QED BY <2>1, <2>2
<1> HIDE DEF ring, w
<1>3. /\ w.runtime = machine.runtime /\ w.under = machine.under /\ w.shows = machine.shows
      /\ w.os = machine.os /\ w.program = machine.program /\ w.vram = machine.vram
      /\ w.vramSize = machine.vramSize /\ w.ran = machine.ran /\ w.ram = machine.ram
      /\ w.temp = machine.temp /\ w.ring = ring
  BY <1>1 DEF MachineRecord, MachineFields
<1>4. \A i \in DOMAIN ring : ring[i].by <= jobs
  BY <1>2 DEF Quiet
<1>5. Quiet(w, jobs)
  BY <1>3, <1>4 DEF Quiet
<1> QED BY <1>2, <1>3, <1>5 DEF w, x

LEMMA TypesFits == ASSUME RunInv, ToolsInv', TypesLine PROVE RunInv'
<1> DEFINE w == Typed(Head(job.lines), jobs)  g == Goes("drain")
           k == [g EXCEPT !.lines = Tail(@)]
<1>1. job.pc = "type" /\ Exchange(w, k, "up")
  BY DEF TypesLine, Does
<1>2. /\ JobRecord(job) /\ MachineRecord(machine) /\ machine.ring \in Seq(Keys) /\ jobs \in Nat
      /\ job.lines \in Seq(Lines) /\ job.lines # <<>> /\ job.result = "none"
      /\ job.next \in {"done", "write", "empty"}
  BY <1>1 DEF RunInv, ToolsInv, GoodJob, Safe
<1>3. /\ JobRecord(g) /\ g.tool = job.tool /\ g.app = job.app /\ g.pc = "drain"
      /\ g.route = job.route /\ g.entry = job.entry /\ g.next = job.next
      /\ g.at = job.at /\ g.cell = job.cell /\ g.lines = job.lines
      /\ g.keeps = job.keeps /\ g.after = job.after /\ g.result = job.result
  BY <1>2, GoesFields
<1> HIDE DEF g, w
<1>4. /\ k.tool = job.tool /\ k.app = job.app /\ k.pc = "drain"
      /\ k.route = job.route /\ k.entry = job.entry /\ k.next = job.next
      /\ k.at = job.at /\ k.cell = job.cell /\ k.lines = Tail(job.lines)
      /\ k.keeps = job.keeps /\ k.after = job.after /\ k.result = job.result
  BY <1>3 DEF JobRecord, JobFields
<1> HIDE DEF k
<1>5. ASSUME hands = 0 PROVE RunFits(w, k, jobs)
  <2>1. /\ Quiet(machine, jobs) /\ job.tool \in {"load", "basic", "file", "reboot"}
        /\ RunFits(machine, job, jobs)
        /\ job.tool = "load" =>
             /\ Loading(machine, job) /\ Submits(machine, job, jobs)
             /\ RanWhole(machine, job, jobs)
        /\ job.tool \in {"basic", "file"} => Typing(machine, job) /\ BasicFits(machine, job)
    BY <1>1, <1>5, PlaceTells DEF RunInv
  <2>2. machine.runtime = "resident"
    <3>1. CASE job.tool = "load"
      BY <1>1, <2>1, <3>1 DEF Loading, Route, Halting
    <3>2. CASE job.tool \in {"basic", "file"}
      <4>1. Stage(machine, job.keeps, job.lines)
        BY <1>1, <2>1, <3>2 DEF Typing, Ahead
      <4>2. machine.os \in {"dos", "worker", "starting", "basic"}
        BY <1>2, <4>1, StageIsAtPrompt
      <4>3. machine.runtime \in Runtimes
        BY DEF RunInv, ToolsInv, Safe
      <4> QED BY <2>1, <4>2, <4>3 DEF Quiet, MonitorStates, Runtimes
    <3>3. CASE job.tool = "reboot"
      BY <1>1, <1>5, <3>3, RebootReads
    <3> QED BY <2>1, <3>1, <3>2, <3>3
  <2>3. /\ Quiet(w, jobs) /\ w.os = machine.os /\ w.ram = machine.ram
        /\ w.vram = machine.vram /\ w.ran = machine.ran /\ w.temp = machine.temp
        /\ w.program = machine.program /\ w.runtime = machine.runtime
        /\ Len(w.ring) = Len(machine.ring) + 1 /\ Len(machine.ring) \in Nat
        /\ \A i \in DOMAIN w.ring :
             \/ i \in DOMAIN machine.ring /\ w.ring[i] = machine.ring[i]
             \/ i = Len(w.ring) /\ w.ring[i] = [text |-> Head(job.lines), by |-> jobs]
    BY <1>2, <2>1, <2>2, TypedFits DEF w
  <2>4. ASSUME job.tool = "load" PROVE LoadFits(w, k, jobs)
    <3>1. Loading(machine, job)
      BY <2>1, <2>4
    <3>2. /\ job.lines = <<"BASIC">> \/ job.lines = <<"USR">>
          /\ job.lines = <<"USR">> => job.next = "done" /\ Steady(machine)
                                      /\ Complete(machine.ram, machine.vram, job.app)
      <4>1. CASE job.next = "write"
        <5>1. job.lines = <<"BASIC">>
          BY <1>1, <3>1, <4>1 DEF Loading
        <5>2. Head(<<"BASIC">>) = "BASIC" /\ Head(<<"USR">>) = "USR"
          OBVIOUS
        <5>3. job.lines # <<"USR">>
          BY <5>1, <5>2
        <5> QED BY <5>1, <5>3
      <4>2. CASE job.next # "write"
        BY <1>1, <3>1, <4>2 DEF Loading
      <4> QED BY <4>1, <4>2
    <3>3. k.lines = <<>>
      <4>1. Tail(<<"BASIC">>) = <<>> /\ Tail(<<"USR">>) = <<>>
        OBVIOUS
      <4> QED BY <1>4, <3>2, <4>1
    <3>4. Route(w, k)
      BY <1>1, <1>4, <2>3, <3>1 DEF Loading, Route, Halting, Reading
    <3>5. Loading(w, k)
      BY <1>1, <1>4, <3>1, <3>3, <3>4 DEF Loading, Halting, Reading
    <3>6. ASSUME NEW i \in DOMAIN w.ring, w.ring[i].text = "USR", w.ring[i].by = jobs
          PROVE  /\ Len(w.ring) = 1 /\ w.os = "basic" /\ Complete(w.ram, w.vram, k.app)
                 /\ k.next = "done"
      <4>1. ~(i \in DOMAIN machine.ring /\ w.ring[i] = machine.ring[i])
        BY <1>1, <2>1, <2>4, <3>6 DEF Submits
      <4>2. w.ring[i] = [text |-> Head(job.lines), by |-> jobs]
        BY <2>3, <4>1
      <4>3. Head(job.lines) = "USR"
        BY <3>6, <4>2
      <4>4. job.lines = <<"USR">>
        BY <3>2, <4>3
      <4>5. Steady(machine) /\ Complete(machine.ram, machine.vram, job.app) /\ job.next = "done"
        BY <3>2, <4>4
      <4>6. machine.os = "basic"
        BY <2>1, <2>2, <4>5 DEF Steady, Quiet, SystemStates
      <4>7. Len(machine.ring) = 0
        BY <4>5 DEF Steady
      <4> QED BY <1>4, <2>3, <4>5, <4>6, <4>7
    <3>7. Submits(w, k, jobs)
      BY <1>4, <3>6 DEF Submits
    <3>8. RanWhole(w, k, jobs)
      BY <1>4, <2>1, <2>3, <2>4 DEF RanWhole
    <3> QED BY <3>5, <3>7, <3>8 DEF LoadFits
  <2>5. ASSUME job.tool \in {"basic", "file"} PROVE BasicFits(w, k)
    <3>1. Typing(machine, job) /\ machine.ring = <<>> /\ job.after = "done"
      BY <1>1, <2>1, <2>5 DEF Typing
    <3>2. Stage(machine, job.keeps, job.lines)
      BY <1>1, <3>1 DEF Typing, Ahead
    <3>3. Len(w.ring) = 1 /\ w.ring # <<>>
      <4>1. Len(w.ring) = 1
        BY <2>3, <3>1
      <4>2. w.ring # <<>>
        BY <4>1
      <4> QED BY <4>1, <4>2
    <3>4. w.ring[1].text = Head(job.lines)
      <4>1. Len(w.ring) = 1 /\ DOMAIN machine.ring = {}
        BY <3>1, <3>3
      <4>2. 1 \in DOMAIN w.ring
        <5>1. w.ring \in Seq(Keys \cup {[text |-> Head(job.lines), by |-> jobs]})
          BY <1>2, <3>1 DEF w, Typed, MachineRecord, MachineFields
        <5> QED BY <3>3, <5>1
      <4>3. w.ring[1] = [text |-> Head(job.lines), by |-> jobs]
        BY <2>3, <4>1, <4>2
      <4> QED BY <4>3
    <3>5. Ahead(w, k) = job.lines
      <4>1. Ahead(w, k) = <<Head(job.lines)>> \o Tail(job.lines)
        BY <1>4, <3>3, <3>4 DEF Ahead
      <4> QED BY <1>2, <4>1, HeadThenTail
    <3>6. Stage(w, k.keeps, job.lines)
      BY <1>4, <2>3, <3>2 DEF Stage
    <3>7. Typing(w, k)
      BY <1>4, <3>1, <3>3, <3>5, <3>6 DEF Typing
    <3> QED BY <1>2, <1>4, <3>7 DEF BasicFits
  <2>6. ASSUME job.tool = "reboot" PROVE OtherFits(w, k)
    BY <1>1, <1>4, <1>5, <2>3, <2>6, RebootReads DEF OtherFits, Reading
  <2> QED BY <1>4, <2>1, <2>3, <2>4, <2>5, <2>6 DEF RunFits
<1> QED BY <1>1, <1>4, <1>5, RequestFits

LEMMA DrainedFits == ASSUME RunInv, ToolsInv', Drained PROVE RunInv'
<1> DEFINE pc == IF job.lines # <<>> THEN "type" ELSE job.after
           k == Goes(pc)
<1>1. job.pc = "drain" /\ machine.ring = <<>> /\ Asks(k)
  BY DEF Drained
<1>2. JobRecord(job) /\ job.after \in {"done", "probe"} /\ job.result = "none"
  BY <1>1 DEF RunInv, ToolsInv, GoodJob
<1> HIDE DEF pc
<1>3. /\ k.tool = job.tool /\ k.app = job.app
      /\ pc # "done" =>
           /\ k.pc = pc /\ k.route = job.route /\ k.entry = job.entry
           /\ k.next = job.next /\ k.at = job.at /\ k.cell = job.cell
           /\ k.lines = job.lines /\ k.keeps = job.keeps /\ k.after = job.after
           /\ k.result = job.result
      /\ pc = "done" => k = Ended("ok") /\ k.pc = "idle"
  BY <1>2, GoesFields
<1>4. pc = "done" => k.keeps = job.keeps /\ k.route = "direct"
  BY <1>2, <1>3, EndedFields
<1> HIDE DEF k
<1>5. /\ job.lines # <<>> => pc = "type"
      /\ job.lines = <<>> => pc = job.after
      /\ pc \in {"type", "probe", "done"}
  BY <1>2 DEF pc
<1>6. ASSUME hands = 0 PROVE RunFits(machine, k, jobs)
  <2>1. /\ Quiet(machine, jobs) /\ job.tool \in {"load", "basic", "file", "reboot"}
        /\ RunFits(machine, job, jobs)
        /\ job.tool = "load" => Loading(machine, job)
        /\ job.tool \in {"basic", "file"} => Typing(machine, job)
    BY <1>1, <1>6, PlaceTells DEF RunInv
  <2>2. ASSUME job.tool = "load", k.pc # "idle" PROVE Loading(machine, k)
    <3>1. Loading(machine, job) /\ job.lines = <<>> /\ pc = "probe"
      BY <1>1, <1>2, <1>3, <1>5, <2>1, <2>2 DEF Loading
    <3>2. Route(machine, k)
      BY <1>1, <1>3, <3>1 DEF Loading, Route, Halting, Reading
    <3> QED BY <1>1, <1>3, <3>1, <3>2 DEF Loading, Halting, Reading
  <2>3. ASSUME job.tool \in {"basic", "file"} PROVE BasicFits(machine, k)
    <3>1. job.after = "done" /\ Stage(machine, job.keeps, job.lines)
      BY <1>1, <2>1, <2>3 DEF Typing, Ahead
    <3>2. CASE job.lines = <<>>
      <4>1. k.pc = "idle" /\ k.keeps = job.keeps
        BY <1>3, <1>4, <1>5, <3>1, <3>2
      <4> QED BY <1>1, <3>1, <3>2, <4>1 DEF BasicFits
    <3>3. CASE job.lines # <<>>
      <4>1. /\ k.pc = "type" /\ k.keeps = job.keeps /\ k.lines = job.lines
            /\ k.after = "done" /\ k.result = "none"
        BY <1>2, <1>3, <1>5, <3>1, <3>3
      <4>2. Ahead(machine, k) = job.lines /\ Len(machine.ring) = 0
        BY <1>1, <4>1 DEF Ahead
      <4>3. Typing(machine, k)
        BY <1>1, <3>1, <4>1, <4>2 DEF Typing
      <4> QED BY <4>1, <4>3 DEF BasicFits
    <3> QED BY <3>2, <3>3
  <2>4. ASSUME job.tool = "reboot" PROVE OtherFits(machine, k)
    BY <1>1, <1>3, <1>4, <1>5, <1>6, <2>4, RebootReads DEF OtherFits, Reading
  <2> QED BY <1>1, <1>3, <2>1, <2>2, <2>3, <2>4, SameMachineFits
<1> QED BY <1>1, <1>3, <1>6, RequestFits DEF Asks

\* The file of run_basic_file, and the worker that brought it.
LEMMA PutsFits == ASSUME RunInv, ToolsInv', Puts PROVE RunInv'
<1> DEFINE k == Goes("type")  e == Ended("failed")
<1>1. /\ job.pc = "put" /\ UNCHANGED <<hands, jobs>>
      /\ \/ machine' = [machine EXCEPT !.temp = TRUE, !.os = "worker", !.shows = "other"]
            /\ job' = k
         \/ /\ \E temp \in BOOLEAN, os \in {"dos", "worker"} :
                 machine' = [machine EXCEPT !.temp = temp, !.os = os]
            /\ job' = e
  BY DEF Puts
<1>2. JobRecord(job) /\ MachineRecord(machine) /\ job.result = "none"
      /\ machine.runtime \in Runtimes
  BY <1>1 DEF RunInv, ToolsInv, GoodJob, Safe
<1>3. /\ k.tool = job.tool /\ k.pc = "type" /\ k.lines = job.lines /\ k.keeps = job.keeps
      /\ k.after = job.after /\ k.result = job.result
      /\ e.tool = job.tool /\ e.pc = "idle" /\ e.result = "failed"
  BY <1>2, GoesFields, EndedFields
<1> HIDE DEF k, e
<1>4. ASSUME hands = 0 PROVE RunFits(machine', job', jobs)
  <2> DEFINE w == machine'
  <2>1. /\ Quiet(machine, jobs) /\ job.tool \in {"basic", "file"} /\ Typing(machine, job)
    <3>1. RunFits(machine, job, jobs) /\ job.pc = "put"
      BY <1>1, <1>4 DEF RunInv
    <3>2. job.tool \in {"basic", "file"}
      BY <3>1 DEF RunFits, LoadFits, Loading, Route, OtherFits, Halting, Reading
    <3> QED BY <3>1, <3>2 DEF RunFits, BasicFits
  <2>2. /\ machine.ring = <<>> /\ machine.os = "dos" /\ job.after = "done"
        /\ job.lines = <<"BASIC", "LOAD", "KILL:RUN">>
    BY <1>1, <2>1 DEF Typing
  <2>3. /\ machine.runtime # "monitor" /\ machine.under = "dos" /\ machine.shows # "basic"
    BY <2>1, <2>2 DEF Quiet, MonitorStates
  <2>4. /\ w.runtime = machine.runtime /\ w.under = machine.under /\ w.ring = machine.ring
        /\ w.program = machine.program /\ w.vram = machine.vram
        /\ w.vramSize = machine.vramSize
        /\ w.shows \in {machine.shows, "other"} /\ w.os \in {"dos", "worker"}
        /\ \/ job' = k /\ w.temp /\ w.os = "worker"
           \/ job' = e
    BY <1>1, <1>2 DEF MachineRecord, MachineFields
  <2> HIDE DEF w
  <2>5. Quiet(w, jobs)
    BY <2>1, <2>2, <2>3, <2>4 DEF Quiet, SystemStates
  <2>6. ASSUME job' = k PROVE BasicFits(w, k)
    <3>1. w.temp /\ w.os = "worker"
      <4>1. k # e
        BY <1>3
      <4> QED BY <2>4, <2>6, <4>1
    <3>2. Ahead(w, k) = job.lines /\ Len(w.ring) = 0
      BY <1>3, <2>2, <2>4 DEF Ahead
    <3>3. Stage(w, k.keeps, job.lines)
      BY <2>2, <3>1 DEF Stage
    <3>4. Typing(w, k)
      BY <1>3, <2>2, <2>4, <3>2, <3>3 DEF Typing
    <3> QED BY <1>2, <1>3, <3>4 DEF BasicFits
  <2>7. BasicFits(w, e)
    BY <1>3 DEF BasicFits
  <2>8. BasicFits(w, job') /\ job'.tool = job.tool
    BY <1>3, <2>4, <2>6, <2>7
  <2>9. RunFits(w, job', jobs)
    BY <2>1, <2>5, <2>8 DEF RunFits
  <2> QED BY <2>9 DEF w
<1> QED BY <1>1, <1>4 DEF RunInv

----------------------------------------------------------------------------
(* The reboot.                                                             *)

LEMMA RebootsFits ==
  ASSUME RunInv, ToolsInv', Reboots \/ FindsRingEmpty \/ Publishes
  PROVE  RunInv'
<1>1. job.pc \in {"reboot", "empty", "publish"} /\ JobRecord(job) /\ job.tool = "reboot"
      /\ MachineRecord(machine) /\ machine.ring \in Seq(Keys) /\ jobs \in Nat
  BY DEF Reboots, FindsRingEmpty, Publishes, RunInv, ToolsInv, GoodJob, Safe
<1>2. ASSUME hands = 0
      PROVE  /\ RunFits(machine, job, jobs) /\ Quiet(machine, jobs)
             /\ machine.runtime = "resident" /\ job.next = "empty"
  BY <1>1, <1>2, RebootReads DEF RunInv, RunFits
<1>3. ASSUME NEW pc \in {"screen", "publish"}, Asks(Goes(pc)) PROVE RunInv'
  <2> DEFINE k == Goes(pc)
  <2>1. k.tool = job.tool /\ k.app = job.app /\ k.pc = pc /\ k.next = job.next
    BY <1>1, GoesFields
  <2>2. Exchange(machine, k, "up")
    BY <1>3 DEF Asks
  <2> HIDE DEF k
  <2>3. hands = 0 => RunFits(machine, k, jobs)
    BY <1>1, <1>2, <2>1 DEF RunFits, OtherFits, Reading
  <2> QED BY <2>1, <2>2, <2>3, RequestFits
<1>4. ASSUME NEW w, NEW result, Exchange(w, Ended(result), "closed"),
             hands = 0 => Quiet(w, jobs) /\ w.runtime = "resident"
      PROVE  RunInv'
  <2> DEFINE e == Ended(result)
  <2>1. e.tool = "reboot" /\ e.app = job.app /\ e.pc = "idle"
    BY <1>1, EndedFields
  <2>2. Exchange(w, e, "closed")
    BY <1>4
  <2> HIDE DEF e
  <2>3. hands = 0 => RunFits(w, e, jobs)
    BY <1>4, <2>1 DEF RunFits, OtherFits
  <2> QED BY <1>1, <2>1, <2>2, <2>3, RequestFits
<1>5. CASE Reboots
  <2> DEFINE w == [machine EXCEPT !.os = "gone"]
  <2>1. Exchange(w, Ended("ok"), "closed") \/ Asks(Goes("screen"))
    BY <1>5 DEF Reboots
  <2>2. /\ w.runtime = machine.runtime /\ w.under = machine.under /\ w.os = "gone"
        /\ w.ring = machine.ring /\ w.shows = machine.shows /\ w.program = machine.program
        /\ w.vram = machine.vram /\ w.vramSize = machine.vramSize
    BY <1>1 DEF MachineRecord, MachineFields
  <2> HIDE DEF w
  <2>3. hands = 0 => Quiet(w, jobs) /\ w.runtime = "resident"
    BY <1>2, <2>2 DEF Quiet, SystemStates
  <2> QED BY <1>3, <1>4, <2>1, <2>3
<1>6. CASE FindsRingEmpty
  BY <1>3, <1>6 DEF FindsRingEmpty
<1>7. CASE Publishes
  <2> DEFINE w == Typed("REBOOT", jobs)
  <2>1. Exchange(w, Ended("ok"), "closed") \/ Exchange(w, Ended("failed"), "closed")
    BY <1>7 DEF Publishes
  <2>2. hands = 0 => Quiet(w, jobs) /\ w.runtime = "resident"
    BY <1>1, <1>2, TypedFits
  <2> HIDE DEF w
  <2> QED BY <1>4, <2>1, <2>2
<1> QED BY <1>5, <1>6, <1>7

----------------------------------------------------------------------------
LEMMA RunInvInitially == Init => RunInv
<1> SUFFICES ASSUME Init PROVE RunInv
  OBVIOUS
<1>1. ToolsInv /\ hands = 0 /\ machine.ring = <<>> /\ machine.program = <<"old">>
  BY ToolsInvInitially DEF Init, MachineInit
<1>2. /\ machine.os \in {"dos", "basic", "monitor"} /\ machine.under = machine.os
      /\ (machine.runtime = "monitor") = (machine.os = "monitor")
      /\ machine.runtime = "monitor" => machine.shows = "other"
      /\ machine.runtime = "resident" => machine.shows = machine.os
      /\ machine.runtime \in Runtimes /\ machine.vramSize \in 1 .. VramCells
      /\ DOMAIN machine.vram = 0 .. VramCells - 1
  BY DEF Init, MachineInit
<1>3. Quiet(machine, jobs)
  <2>1. \A i \in DOMAIN machine.ring : machine.ring[i].by <= jobs
    BY <1>1
  <2>2. machine.program \in Seq({"old", "new"})
    BY <1>1
  <2> QED BY <1>1, <1>2, <2>1, <2>2
          DEF Quiet, Runtimes, MonitorStates, SystemStates
<1>4. job.tool = "none" /\ job.pc = "idle"
  BY DEF Init, Idle
<1>5. RunFits(machine, job, jobs)
  BY <1>3, <1>4 DEF RunFits, OtherFits
<1> QED BY <1>1, <1>5 DEF RunInv

LEMMA RunInvStep == RunInv /\ [Next]_vars => RunInv'
<1> SUFFICES ASSUME RunInv, [Next]_vars PROVE RunInv'
  OBVIOUS
<1>1. ToolsInv'
  BY ToolsInvStep DEF RunInv
<1>2. ASSUME UNCHANGED <<machine, hands, job, jobs>> PROVE RunInv'
  BY <1>1, <1>2 DEF RunInv
<1>3. CASE Handler
  <2>1. CASE BeginLoad \/ BeginAsm \/ BeginBasic \/ BeginFile \/ BeginReboot
    BY <1>1, <2>1, BeginLoadFits, BeginAsmFits, BeginBasicFits, BeginFileFits, BeginRebootFits
  <2>2. CASE AsksStatus \/ AsksPause \/ Freezes \/ Stops
    BY <1>1, <2>2, StopFits
  <2>3. CASE WriteRefused \/ WriteCell \/ Verifies \/ Loaded \/ Executes
    BY <1>1, <2>3, GiveUpsFit, WriteCellFits, VerifiesFits, LoadedFits, ExecutesFits
  <2>4. CASE LooksAtScreen \/ TypesLine \/ Drained \/ NeverDrained \/ Probes
    BY <1>1, <2>4, LooksFits, TypesFits, DrainedFits, GiveUpsFit, ProbesFits
  <2>5. CASE Puts \/ Reboots \/ FindsRingEmpty \/ Publishes
    BY <1>1, <2>5, PutsFits, RebootsFits
  <2> QED BY <1>3, <2>1, <2>2, <2>3, <2>4, <2>5 DEF Handler
<1>4. CASE Attach
  BY <1>2, <1>4 DEF Attach
<1>5. CASE MachineStep /\ UNCHANGED <<job, link, touched, jobs, faults>>
  BY <1>1, <1>5, RunMoves
<1>6. CASE UNCHANGED vars
  BY <1>2, <1>6 DEF vars
<1> QED BY <1>3, <1>4, <1>5, <1>6 DEF Next

\* What the image says of a cell is the number of the latest segment there.
LEMMA CompleteIsImage ==
  ASSUME NEW app, app.segments \in Seq(Segments), NEW space, NEW memory,
         \A cell \in Nat : IsLatest(memory[cell], Covering(app, space, cell)),
         NEW c \in DOMAIN ImageIn(app, space)
  PROVE  memory[c] = ImageIn(app, space)[c]
<1> DEFINE covered == UNION {CellsOf(app.segments[i]) :
                               i \in {j \in DOMAIN app.segments : app.segments[j].space = space}}
           S == Covering(app, space, c)
           latest == CHOOSE i \in S : \A j \in S : j <= i
<1>1. ImageIn(app, space) = [cell \in covered |-> CHOOSE i \in Covering(app, space, cell) :
                                \A j \in Covering(app, space, cell) : j <= i]
  BY DEF ImageIn, Covering
<1>2. c \in covered /\ ImageIn(app, space)[c] = latest
  BY <1>1
<1>3. PICK n \in DOMAIN app.segments :
        app.segments[n].space = space /\ c \in CellsOf(app.segments[n])
  BY <1>2
<1>4. c \in Nat
  <2>1. app.segments[n] \in Segments
    OBVIOUS
  <2>2. app.segments[n].address \in Nat /\ app.segments[n].length \in Nat
    BY <2>1 DEF Segments
  <2> QED BY <1>3, <2>2 DEF CellsOf, EndOf
<1>5. n \in S /\ S \subseteq Nat
  BY <1>3 DEF Covering
<1>6. memory[c] \in S /\ \A j \in S : j <= memory[c]
  BY <1>4, <1>5 DEF IsLatest
<1> HIDE DEF S
<1>7. latest \in S /\ \A j \in S : j <= latest
  BY <1>6
<1> HIDE DEF latest
<1>8. memory[c] <= latest /\ latest <= memory[c] /\ memory[c] \in Nat /\ latest \in Nat
  BY <1>5, <1>6, <1>7
<1>9. memory[c] = latest
  BY <1>8
<1> QED BY <1>2, <1>9

\* Code that app_load submits finds its whole image in RAM and VRAM, for every
\* file with segments that overlap as they may, on either runtime and route,
\* with answers lost and programs left running by earlier calls.
THEOREM ImageRuns == Spec => []RunsItsImage
<1>1. RunInv => RunsItsImage
  <2> SUFFICES ASSUME RunInv, job.tool = "load", hands = 0, Len(machine.ran) = 4,
                      machine.ran[1] = "image", machine.ran[4] = jobs
               PROVE  /\ \A c \in DOMAIN ImageIn(job.app, "ram") :
                           machine.ran[2][c] = ImageIn(job.app, "ram")[c]
                      /\ \A c \in DOMAIN ImageIn(job.app, "vram") :
                           machine.ran[3][c] = ImageIn(job.app, "vram")[c]
    BY DEF RunsItsImage, Undisturbed
  <2>1. Complete(machine.ran[2], machine.ran[3], job.app)
    BY DEF RunInv, RunFits, LoadFits, RanWhole
  <2>2. job.app.segments \in Seq(Segments)
    BY DEF RunInv, ToolsInv, GoodJob
  <2> QED BY <2>1, <2>2, CompleteIsImage DEF Complete
<1> QED BY <1>1, RunInvInitially, RunInvStep, PTL DEF Spec

\* run_basic and run_basic_file report success only when BASIC has read every
\* line where it takes effect: what runs is the new program, and its file is gone.
THEOREM ProgramRuns == Spec => []BasicRunsTheProgram
<1>1. RunInv => BasicRunsTheProgram
  <2> SUFFICES ASSUME RunInv, job.tool \in {"basic", "file"}, job.result = "ok", hands = 0
               PROVE  ~machine.temp /\ (~job.keeps => machine.ran = <<"new">>)
    BY DEF BasicRunsTheProgram, Undisturbed
  <2>1. Stage(machine, job.keeps, <<>>)
    BY DEF RunInv, RunFits, BasicFits
  <2> QED BY <2>1, StageOver
<1> QED BY <1>1, RunInvInitially, RunInvStep, PTL DEF Spec
===============================================================================
