----------------------------- MODULE KeyboardSpool -----------------------------
(***************************************************************************)
(* Typing into the resident: the host's type and press                     *)
(* (server/msx_real.py), the resident's private spool                      *)
(* (agent/msx_agent_core.asm), the BIOS keyboard ring, and the program     *)
(* that reads it.  The program is external: it reads when it likes, and a  *)
(* line editor may clear the ring after it accepted a line.                *)
(***************************************************************************)
EXTENDS Naturals, Sequences, SequencesExt

CONSTANTS
  None,
  Text,        \* what one call types: a sequence of "c" and "r" (Return)
  MaxCalls,    \* calls of type or press of one behaviour
  SpoolSize,   \* KEYBUF_SPOOL_CAPACITY
  RingSize,    \* KEYBUF_CAPACITY
  RefillAt,    \* KEYBUF_SPOOL_REFILL_TARGET
  Settle,      \* KEYBUF_SPOOL_SETTLE_TICKS
  Hands,       \* keys pressed on the keyboard itself
  FaultKinds,  \* subset of {"late", "cut", "slow"}
  MaxFaults

ASSUME SpoolAssumption ==
  /\ Text \in Seq({"c", "r"}) /\ Text # <<>>
  /\ MaxCalls \in Nat /\ Hands \in Nat /\ MaxFaults \in Nat
  /\ SpoolSize \in Nat \ {0} /\ RingSize \in Nat \ {0}
  /\ RefillAt \in 1 .. SpoolSize /\ Settle \in Nat
  /\ None \notin Nat

VARIABLES
  host,       \* the call in progress and the last reply it has seen
  link,       \* the attachment: "up", "quarantined" or "down"
  call, rsp,  \* request the resident has not read, and its answer, or Nothing
  spool,      \* keybuf_spool_*: characters, barrier, settle, active, authorized
  ring,       \* KEYBUF
  program,    \* ticks within which the program accepts a line, or None
  calls, hands, faults,
  \* History, which guards nothing:
  seen,       \* characters of each call that the program read in order
  foreign,    \* calls that began behind a Return of somebody else
  lines       \* Returns that reached the ring since the link broke
vars == <<host, link, call, rsp, spool, ring, program, calls, hands,
          faults, seen, foreign, lines>>
pipe == <<call, rsp>>
history == <<seen, foreign, lines>>

Calls == 1 .. MaxCalls
Nothing == [op |-> "none"]
Sent == call.op # "none"
Answered == rsp.op # "none"
Torn == Len(Text) + 1
Char(c, i) == [call |-> c, at |-> i, key |-> Text[i]]
Key(k) == [call |-> 0, at |-> 0, key |-> k]
Chars == {Char(c, i) : c \in Calls, i \in DOMAIN Text}
           \cup {Key(k) : k \in {"c", "r"}}
Fewer(a, b) == IF a < b THEN a ELSE b
HasReturn(q) == \E i \in DOMAIN q : q[i].key = "r"

Empty == [text |-> <<>>, barrier |-> FALSE, settle |-> 0, active |-> FALSE,
          authorized |-> FALSE]
Unseen == [pending |-> 0, credits |-> SpoolSize, barrier |-> FALSE,
           active |-> FALSE, authorized |-> FALSE, first |-> TRUE]
Rest == [pc |-> "idle", offset |-> 0, view |-> Unseen, result |-> "none"]

Init ==
  /\ host = Rest /\ link = "up" /\ call = Nothing /\ rsp = Nothing
  /\ spool = Empty /\ ring = <<>> /\ program = None
  /\ calls = 0 /\ hands = 0 /\ faults = 0
  /\ seen = [c \in Calls |-> 0] /\ foreign = {} /\ lines = 0

\* The variables have their types, and neither buffer is overrun.
TypeOK ==
  /\ host.pc \in {"idle", "typing", "pressing", "cancelling"}
  /\ host.offset \in 0 .. Len(Text)
  /\ host.result \in {"none", "ok", "pressed", "failed", "cancelled"}
  /\ link \in {"up", "quarantined", "down"}
  /\ spool.text \in Seq(Chars) /\ Len(spool.text) <= SpoolSize
  /\ spool.barrier \in BOOLEAN /\ spool.settle \in 0 .. Settle
  /\ spool.active \in BOOLEAN /\ spool.authorized \in BOOLEAN
  /\ ring \in Seq(Chars) /\ Len(ring) <= RingSize
  /\ program \in {None} \cup 0 .. Settle
  /\ calls \in 0 .. MaxCalls /\ hands \in 0 .. Hands /\ faults \in 0 .. MaxFaults

Fault(kind) ==
  kind \in FaultKinds /\ faults < MaxFaults /\ faults' = faults + 1

----------------------------------------------------------------------------
\* The program and the keyboard.

Reads(c) ==
  IF c.call = 0 THEN seen
  ELSE [seen EXCEPT ![c.call] = IF @ + 1 = c.at THEN c.at ELSE Torn]

\* CHGET.  After a Return the line runs; the ring may be cleared.
Read ==
  /\ ring # <<>> /\ program = None
  /\ ring' = Tail(ring)
  /\ seen' = Reads(Head(ring))
  /\ program' = IF Head(ring).key = "r" THEN Settle ELSE None
  /\ UNCHANGED <<host, link, pipe, calls, spool, hands, faults, foreign, lines>>

\* The line was accepted.
Accept ==
  /\ program # None
  /\ program' = None
  /\ ring' \in {ring, <<>>}
  /\ UNCHANGED <<host, link, pipe, calls, spool, hands, faults, history>>

PressedByHand ==
  /\ hands < Hands /\ Len(ring) < RingSize
  /\ hands' = hands + 1
  /\ ring' = Append(ring, Key("c"))
  /\ UNCHANGED <<host, link, pipe, calls, spool, program, faults, history>>

----------------------------------------------------------------------------
\* The resident.

\* How much is drained: to the first Return, and no more than fits.
Upto(q) ==
  IF HasReturn(q) THEN CHOOSE i \in DOMAIN q :
       q[i].key = "r" /\ \A j \in 1 .. i - 1 : q[j].key # "r"
  ELSE Len(q)

\* One sentinel byte stays free: RingSize is KEYBUF_SIZE - 1.
Fits(n) == Fewer(n, RingSize - Len(ring))

Drained == Fits(Upto(spool.text))

\* Mutant: a finished line leaves the authorization for the next one.
AfterDrainAuthorized(n) ==
  LET left == SubSeq(spool.text, n + 1, Len(spool.text))
      ended == spool.text[n].key = "r"
  IN  [text |-> left, barrier |-> ended,
       settle |-> IF ended THEN Settle ELSE spool.settle,
       active |-> ~ended /\ left # <<>>, authorized |-> TRUE]

\* The spool when n characters left it: Return raises the barrier and ends the
\* authorization.
AfterDrain(n) ==
  LET left == SubSeq(spool.text, n + 1, Len(spool.text))
      ended == spool.text[n].key = "r"
  IN  [text |-> left, barrier |-> ended,
       settle |-> IF ended THEN Settle ELSE spool.settle,
       active |-> ~ended /\ left # <<>>, authorized |-> FALSE]

Drain ==
  /\ ~spool.barrier /\ spool.text # <<>>
  /\ spool.active \/ spool.authorized
  /\ IF Drained = 0
       THEN /\ spool' = [spool EXCEPT !.active = TRUE, !.authorized = FALSE]
            /\ UNCHANGED <<ring, lines>>
       ELSE /\ spool' = AfterDrain(Drained)
            /\ ring' = ring \o SubSeq(spool.text, 1, Drained)
            /\ lines' = IF link # "up" /\ spool'.barrier THEN lines + 1 ELSE lines

\* Mutant: the barrier falls as soon as the ring is empty.
SettleAtOnce ==
  /\ spool.barrier /\ ring = <<>>
  /\ spool' = [spool EXCEPT !.barrier = FALSE]
  /\ UNCHANGED <<ring, lines>>

\* The barrier falls when the ring was empty for Settle ticks; the next line
\* needs another authorization.
SettleTick ==
  /\ spool.barrier /\ ring = <<>>
  /\ spool' = IF spool.settle = 0 THEN [spool EXCEPT !.barrier = FALSE]
              ELSE [spool EXCEPT !.settle = @ - 1]
  /\ UNCHANGED <<ring, lines>>

\* Nothing to drain, or a Return that is still in the ring.
RestTick ==
  /\ IF spool.barrier THEN ring # <<>>
     ELSE spool.text = <<>> \/ ~(spool.active \/ spool.authorized)
  /\ UNCHANGED <<spool, ring, lines>>

\* H.TIMI.  A program that clears the ring does so within Settle ticks.
Tick ==
  /\ program # 0
  /\ program' = IF program = None THEN None ELSE program - 1
  /\ SettleTick \/ Drain \/ RestTick
  /\ UNCHANGED <<host, link, pipe, calls, hands, faults, seen, foreign>>

\* An answer nobody waits for any more is discarded with the attachment.
Answers(r) == rsp' = IF link = "up" THEN r ELSE Nothing
Reply(accepted) ==
  [op |-> "T", accepted |-> accepted,
   pending |-> Len(spool'.text) + Len(ring'), credits |-> SpoolSize - Len(spool'.text),
   barrier |-> spool'.barrier, active |-> spool'.active,
   authorized |-> spool'.authorized]

Takes(op) == call.op = op /\ call' = Nothing

\* 'T' with text: as much as fits, and one line when the request pumps it.
ServeSpool ==
  /\ Takes("T")
  /\ LET n == Fewer(call.n, SpoolSize - Len(spool.text))
         text == spool.text \o [i \in 1 .. n |-> Char(call.of, call.from + i)]
         pumped == call.pump /\ ~spool.barrier /\ ~spool.active /\ text # <<>>
     IN  /\ spool' = [spool EXCEPT !.text = text, !.authorized = @ \/ pumped]
         /\ ring' = ring
         /\ Answers(Reply(n))
  /\ UNCHANGED <<host, link, program, calls, hands, faults, history>>

\* Mutant: what is in the ring is left to the program.
CancelSpoolOnly ==
  /\ Takes("C")
  /\ spool' = Empty /\ ring' = ring
  /\ Answers(Reply(0))
  /\ UNCHANGED <<host, link, program, calls, hands, faults, history>>

\* 'T' with the cancel bit: the spool and the ring are discarded.
ServeCancel ==
  /\ Takes("C")
  /\ spool' = Empty /\ ring' = <<>>
  /\ Answers(Reply(0))
  /\ UNCHANGED <<host, link, program, calls, hands, faults, history>>

\* 't': straight into the ring, never between the characters of the spool.
SpoolBusy == spool.text # <<>> \/ spool.barrier \/ spool.active \/ spool.authorized
ServeKey ==
  /\ Takes("t")
  /\ LET accepted == ~SpoolBusy /\ Len(ring) < RingSize
     IN  /\ ring' = IF accepted THEN Append(ring, Key("r")) ELSE ring
         /\ Answers([op |-> "t", accepted |-> accepted])
  /\ UNCHANGED <<host, link, spool, program, calls, hands, faults, history>>

\* The session is lost: the spool is emptied, the ring is the program's.
SessionLost ==
  /\ link = "down" /\ <<spool, call>> # <<Empty, Nothing>>
  /\ spool' = Empty /\ call' = Nothing
  /\ UNCHANGED <<host, link, rsp, ring, program, calls, hands, faults, history>>

----------------------------------------------------------------------------
\* The host.

Begins(pc) ==
  /\ host.pc = "idle" /\ link = "up" /\ calls < MaxCalls
  /\ host' = [Rest EXCEPT !.pc = pc]
  /\ calls' = calls + 1
  /\ UNCHANGED <<link, rsp, spool, ring, program, hands, faults, seen, lines>>

\* type.  Behind a Return of somebody else no barrier protects its text.
Type ==
  /\ Begins("typing")
  /\ foreign' = IF program # None \/ HasReturn(ring) THEN foreign \cup {calls + 1}
                ELSE foreign
  /\ call' = call

\* press("RET").
Press ==
  /\ Begins("pressing")
  /\ call' = [op |-> "t"]
  /\ foreign' = foreign

\* What the next request carries, and whether it authorizes a line.
Left == Len(Text) - host.offset
Batch ==
  LET v == host.view
  IN  IF v.first \/ v.credits >= Fewer(Left, RefillAt) THEN Fewer(v.credits, Left)
      ELSE 0

\* Mutant: only a request with text authorizes a line.
PumpWithText ==
  LET v == host.view
  IN  ~v.barrier /\ ~v.active /\ ~v.authorized /\ Batch > 0

Pump ==
  LET v == host.view
  IN  /\ ~v.barrier /\ ~v.active /\ ~v.authorized
      /\ v.pending > 0 \/ Batch > 0

Waits == host.pc # "idle" /\ (Sent \/ Answered)

Send ==
  /\ host.pc = "typing" /\ link = "up" /\ ~Waits
  /\ call' = [op |-> "T", of |-> calls, from |-> host.offset, n |-> Batch,
              pump |-> Pump]
  /\ UNCHANGED <<host, link, rsp, spool, ring, program, calls, hands, faults,
                 history>>

\* The call ends: result is what its caller learns.
Ends(result) == host' = [host EXCEPT !.pc = "idle", !.result = result]
Got(pc) == host.pc = pc /\ Answered /\ rsp' = Nothing

GotSpool ==
  /\ Got("typing")
  /\ LET offset == host.offset + rsp.accepted
         quiet == rsp.pending = 0 /\ ~rsp.barrier /\ ~rsp.active /\ ~rsp.authorized
     IN  IF offset = Len(Text) /\ quiet THEN Ends("ok")
         ELSE host' = [host EXCEPT !.offset = offset, !.view =
                [pending |-> rsp.pending, credits |-> rsp.credits,
                 barrier |-> rsp.barrier, active |-> rsp.active,
                 authorized |-> rsp.authorized, first |-> FALSE]]
  /\ UNCHANGED <<link, call, spool, ring, program, calls, hands, faults, history>>

GotKey ==
  /\ Got("pressing")
  /\ Ends(IF rsp.accepted THEN "pressed" ELSE "failed")
  /\ UNCHANGED <<link, call, spool, ring, program, calls, hands, faults, history>>

GotCancel ==
  /\ Got("cancelling")
  /\ Ends("cancelled")
  /\ UNCHANGED <<link, call, spool, ring, program, calls, hands, faults, history>>

\* The no-progress deadline, or an interruption of the caller: cancel.
NoProgress ==
  /\ host.pc = "typing" /\ link = "up" /\ ~Waits /\ ~host.view.first
  /\ Fault("slow")
  /\ host' = [host EXCEPT !.pc = "cancelling"]
  /\ call' = [op |-> "C"]
  /\ UNCHANGED <<link, rsp, spool, ring, program, calls, hands, history>>

\* No answer within the deadline: the attachment is quarantined, and the
\* cancellation that type still tries is not sent.
GiveUp ==
  /\ Waits /\ link = "up" /\ Fault("late")
  /\ Ends("failed") /\ link' = "quarantined" /\ rsp' = Nothing
  /\ UNCHANGED <<call, spool, ring, program, calls, hands, history>>

\* The link breaks, or the host closes what it may no longer use.
Cut ==
  /\ \/ link = "up" /\ Fault("cut")
     \/ link = "quarantined" /\ UNCHANGED faults
  /\ link' = "down" /\ rsp' \in {rsp, Nothing}
  /\ UNCHANGED <<host, call, spool, ring, program, calls, hands, history>>

Fails ==
  /\ link = "down" /\ host.pc # "idle" /\ ~Answered
  /\ Ends("failed")
  /\ UNCHANGED <<link, pipe, spool, ring, program, calls, hands, faults, history>>

\* A new attachment: behind the escapes the resident has reset the spool.
Attach ==
  /\ link # "up" /\ host.pc = "idle"
  /\ link' = "up" /\ call' = Nothing /\ rsp' = Nothing /\ spool' = Empty /\ lines' = 0
  /\ UNCHANGED <<host, ring, program, calls, hands, faults, seen, foreign>>

----------------------------------------------------------------------------
Serve == ServeSpool \/ ServeCancel \/ ServeKey
Hears == GotSpool \/ GotKey \/ GotCancel \/ Fails
Next ==
  \/ Type \/ Press \/ Send \/ Hears \/ NoProgress \/ GiveUp \/ Cut \/ Attach
  \/ Serve \/ SessionLost \/ Tick
  \/ Read \/ Accept \/ PressedByHand

Spec == Init /\ [][Next]_vars

\* The interrupt comes, the link answers, the host polls, and the program
\* reads its keyboard.  Calls, keys pressed by hand and faults need not happen.
FairSpec ==
  /\ Spec
  /\ WF_vars(Tick) /\ WF_vars(Read) /\ WF_vars(Accept)
  /\ WF_vars(Serve) /\ WF_vars(Hears) /\ WF_vars(Send)

----------------------------------------------------------------------------
\* A call that reports success typed all of its text, each character once and
\* in order, though the program may clear the ring behind every Return and may
\* be typed at by hand meanwhile; and of a call that fails, the program read
\* a beginning.  Calls that started behind somebody else's Return have no such
\* promise: see Type. (msx_real.py, _type_spooled)
TypedWhole ==
  /\ \A c \in Calls \ foreign : seen[c] # Torn
  /\ host.result = "ok" /\ calls \notin foreign =>
       seen[calls] = Len(Text)

\* Once the peer is lost, at most the line it had authorized reaches the
\* program: the later ones stay in the spool, with a request still in flight
\* or without. (msx_agent_core.asm, keybuf_spool_drain)
LostPeerOneLine == lines <= 1

\* After an acknowledged cancellation the program reads nothing more of the
\* cancelled text, neither from the spool nor from the ring.
\* (msx_real.py, _type_spooled; msx_agent_core.asm, keybuf_spool_cancel)
CancelledNotRead ==
  [][host.result = "cancelled" => seen'[calls] = seen[calls]]_vars

\* While the program reads, every call of type ends without any deadline: no
\* line waits for an authorization that the host believes it has given.
TypeCompletes == host.pc = "typing" ~> host.pc = "idle"
===============================================================================
