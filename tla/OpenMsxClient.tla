---------------------------- MODULE OpenMsxClient ----------------------------
(***************************************************************************)
(* The control channel of one openMSX (server/msx_client.py): the process, *)
(* the commands written and not yet served, the queue the reader thread    *)
(* fills, and the CPU debugger of the emulator.  A command in flight and a *)
(* reply carry `own`: whether the caller still waits for it.  The code     *)
(* cannot see that mark; it takes the replies in the order they come.      *)
(***************************************************************************)
EXTENDS Sequences, SequencesExt

CONSTANT Nobody

\* Commands after which the emulator's CPU runs, or stands.
Continuing == {"cont", "setpc"}

NoEmulator == [proc |-> "none", sent |-> <<>>, replies |-> <<>>,
               broken |-> FALSE, held |-> FALSE, trust |-> "good",
               by |-> Nobody]

\* proc: "running" and "hung" are ours, as is what is left of an "exited" one;
\* "window" is the user's, "shut" is a window the user closed.
\* held: history, the CPU stood before any of our commands.
\* trust: history, "late" once a command timed out, "wrong" once an answer was
\* taken from the reply of another command.
Ours(e) == e.proc \in {"running", "hung", "exited"}
Alive(e) == e.proc \in {"running", "window"}
Gone(e) == e.proc \in {"none", "exited", "shut"}

EmulatorOK(e, Callers) ==
  /\ e \in [proc : {"none", "running", "hung", "exited", "window", "shut"},
            sent : Seq([cmd : STRING, own : BOOLEAN]),
            replies : Seq([own : BOOLEAN, val : BOOLEAN]),
            broken : BOOLEAN, held : BOOLEAN,
            trust : {"good", "late", "wrong"}, by : Callers \cup {Nobody}]

----------------------------------------------------------------------------
\* Lifecycle.

\* start: a process and a fresh channel.
Spawned == [NoEmulator EXCEPT !.proc = "running"]

\* attach: the window may stand in its own debugger.
Attached(stands) ==
  [NoEmulator EXCEPT !.proc = "window", !.broken = stands, !.held = stands]

\* close, its first half: a window is left alone, a process is asked to quit.
CloseSteps(e) == IF Ours(e) THEN <<"quit", "reap">> ELSE <<"detach">>

\* close, its second half: wait, terminate, kill, and drop the channel.
Reaped == NoEmulator

\* The other half of a failed start: nothing survives it.
Unspawned == NoEmulator

----------------------------------------------------------------------------
\* cmd and the reader.

CanWrite(e, c) == e.by \in {Nobody, c} /\ ~Gone(e)
Written(e, c, cmd) ==
  [e EXCEPT !.sent = Append(@, [cmd |-> cmd, own |-> TRUE]), !.by = c]

\* Mutant: several answers at once let the wait end with any of them.
AnsweredLifo(e, keep) ==
  [e EXCEPT !.replies = Front(@), !.by = IF keep THEN @ ELSE Nobody,
            !.trust = IF Last(e.replies).own THEN @ ELSE "wrong"]

\* The oldest reply is the answer, whichever command it belongs to.
Answered(e, keep) ==
  [e EXCEPT !.replies = Tail(@), !.by = IF keep THEN @ ELSE Nobody,
            !.trust = IF Head(e.replies).own THEN @ ELSE "wrong"]

\* The deadline of cmd passes: command and reply stay where they are.
TimedOut(e, keep) ==
  [e EXCEPT !.sent = [i \in DOMAIN @ |-> [@[i] EXCEPT !.own = FALSE]],
            !.replies = [i \in DOMAIN @ |-> [@[i] EXCEPT !.own = FALSE]],
            !.by = IF keep THEN @ ELSE Nobody,
            !.trust = IF @ = "wrong" THEN @ ELSE "late"]

\* The process is gone and nothing is queued.
Unanswered(e, keep) == [e EXCEPT !.by = IF keep THEN @ ELSE Nobody]

\* The emulator runs one command; the reader queues its reply.
Served(e) ==
  LET cmd == Head(e.sent).cmd IN
  [e EXCEPT !.sent = Tail(@),
            !.replies = Append(@, [own |-> Head(e.sent).own, val |-> e.broken]),
            !.broken = (@ \/ cmd = "break") /\ cmd \notin Continuing,
            !.held = @ /\ cmd # "setpc",
            !.proc = IF cmd = "quit" THEN "exited" ELSE @]

\* RLock: a snapshot holds the channel over several commands.
Locked(e, c) == [e EXCEPT !.by = c]
Unlocked(e) == [e EXCEPT !.by = Nobody]

----------------------------------------------------------------------------
\* The commands an operation sends, in their order.  Neighbours that only ask or
\* set, and whose failure leaves the same work undone, are one command here.

Settings == <<"mute">>
PowerOn == <<"power">>
Advance == <<"time">>
ReadScreen == <<"mode", "vram">>
TypeLine == <<"type">>
TypeLines == TypeLine \o Advance
Press == <<"keymatrix">>
Block == <<"block">>
Poke == <<"poke">>
RunAt == <<"break", "setpc">>
CallAt == TypeLine \o Advance

\* What follows the answer of "debug breaked".
Exact == <<"regs", "memory", "cpu">>
CaptureOf(breaked) ==
  IF breaked THEN Exact ELSE <<"break">> \o Exact \o <<"cont">>
=============================================================================
