---------------------------- MODULE MsxPrograms ----------------------------
(***************************************************************************)
(* The MSX as the handlers of ProgramTools find it: who reads the keyboard *)
(* (os), what the last row of the screen shows, the lines in the keyboard  *)
(* ring, and what memory holds.  A cell of memory is 0, or the number of   *)
(* the segment that the job at hand wrote there.                           *)
(***************************************************************************)
EXTENDS Applications

CONSTANTS MaxHands      \* lines typed on the machine's own keyboard

ASSUME MsxAssumption == MaxHands \in Nat

VARIABLES machine, hands

Runtimes == {"resident", "monitor"}

\* What the agent itself occupies: CPU page 1, or the end of page 3.
AgentCells(runtime) == IF runtime = "resident" THEN {2, 3} ELSE {7}

\* BASIC has the Main-ROM in page 0, and writes there go nowhere.
Writable(cell) == ~(cell \in 0 .. 1 /\ machine.under = "basic")

AtPrompt == machine.os \in {"dos", "basic"}

\* The two things that end an attachment for good.
Terminal ==
  machine.os = "gone" \/ \E i \in DOMAIN machine.ring : machine.ring[i].text = "REBOOT"

\* A line carries the number of the job that typed it, which nobody can see.
Typed(text, by) == [machine EXCEPT !.ring = Append(@, [text |-> text, by |-> by])]

MachineInit ==
  /\ machine \in
       [runtime : Runtimes, native : BOOLEAN, vramSize : 1 .. VramCells,
        os : {"dos", "basic", "monitor"}, under : {"dos", "basic", "monitor"},
        shows : {"dos", "basic", "other"}, ring : {<<>>}, program : {<<"old">>},
        temp : {FALSE}, ram : {[c \in 0 .. RamCells - 1 |-> 0]},
        vram : {[c \in 0 .. VramCells - 1 |-> 0]}, ran : {<<"nothing">>}]
  /\ machine.under = machine.os
  /\ (machine.runtime = "monitor") = (machine.os = "monitor")
  /\ machine.runtime = "monitor" => machine.shows = "other" /\ ~machine.native
  /\ machine.runtime = "resident" => machine.shows = machine.os
  /\ hands = 0

----------------------------------------------------------------------------
(* The machine's own steps.                                                *)

Starts == [machine EXCEPT !.os = "busy", !.shows = "other"]
Prompts(os) == [machine EXCEPT !.os = os, !.under = os, !.shows = os]

\* A line that is no command here ends in a message and a new prompt.
AfterLine(text, by) ==
  LET m == [machine EXCEPT !.ring = Tail(@)]
      Runs(what) == [m EXCEPT !.os = "busy", !.shows = "other", !.ran = what]
  IN CASE text = "PROG" -> [m EXCEPT !.os = "busy", !.shows = "other"]
       [] machine.os = "dos" /\ text = "BASIC" ->
            [m EXCEPT !.os = "starting", !.shows = "other", !.program = <<>>]
       [] machine.os = "basic" /\ text = "NEW" -> [m EXCEPT !.program = <<>>]
       [] machine.os = "basic" /\ text = "LINE" ->
            [m EXCEPT !.program = Append(@, "new"), !.shows = "other"]
       [] machine.os = "basic" /\ text = "LOAD" /\ machine.temp ->
            [m EXCEPT !.program = <<"new">>]
       [] machine.os = "basic" /\ text = "RUN" -> Runs(machine.program)
       [] machine.os = "basic" /\ text = "KILL:RUN" /\ machine.temp ->
            [Runs(machine.program) EXCEPT !.temp = FALSE]
       [] machine.os = "basic" /\ text = "USR" ->
            Runs(<<"image", machine.ram, machine.vram, by>>)
       [] machine.os = "basic" /\ text = "REBOOT" -> [m EXCEPT !.os = "gone"]
       [] OTHER -> [m EXCEPT !.shows = machine.os]

ReadLine ==
  /\ AtPrompt /\ machine.ring # <<>>
  /\ machine' = AfterLine(Head(machine.ring).text, Head(machine.ring).by)
  /\ UNCHANGED hands

BasicIsUp == machine.os = "starting" /\ machine' = Prompts("basic") /\ UNCHANGED hands

\* The worker of a transfer ends behind its last answer to the host.
WorkerEnds == machine.os = "worker" /\ machine' = Prompts("dos") /\ UNCHANGED hands

ProgramWrites ==
  /\ machine.os = "busy"
  /\ \E cell \in (0 .. RamCells - 1) \ AgentCells(machine.runtime) :
       /\ machine.ram[cell] # 0
       /\ machine' = [machine EXCEPT !.ram[cell] = 0]
  /\ UNCHANGED hands

\* A program may read the keyboard as well.
ProgramReads ==
  /\ machine.os = "busy" /\ machine.ring # <<>>
  /\ machine' = [machine EXCEPT !.ring = Tail(@)]
  /\ UNCHANGED hands

ProgramEnds ==
  /\ machine.os = "busy"
  /\ machine' = [machine EXCEPT !.os = machine.under,
                   !.shows = IF machine.under = "monitor" THEN "other" ELSE machine.under]
  /\ UNCHANGED hands

\* Somebody at the machine starts a program.
Hands ==
  /\ hands < MaxHands /\ machine.runtime = "resident"
  /\ machine.os \in {"dos", "basic", "busy", "starting"}
  /\ hands' = hands + 1
  /\ machine' = [machine EXCEPT !.ring = Append(@, [text |-> "PROG", by |-> 0])]

Boots ==
  /\ machine.os = "gone"
  /\ machine' = [Prompts("dos") EXCEPT !.ring = <<>>, !.program = <<"old">>]
  /\ UNCHANGED hands

MachineStep ==
  ReadLine \/ BasicIsUp \/ WorkerEnds \/ ProgramWrites \/ ProgramReads
    \/ ProgramEnds \/ Hands \/ Boots
=============================================================================
