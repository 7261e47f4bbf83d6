-------------------------- MODULE KeyboardSpoolProofs --------------------------
(***************************************************************************)
(* For every text and every size of the spool and of the ring: a call that *)
(* succeeds typed all of it in order, a cancelled one has nothing left to  *)
(* read, and one line at most reaches the program after the peer is lost.  *)
(***************************************************************************)
EXTENDS KeyboardSpool, FiniteSetTheorems, SequenceTheorems, TLAPS

Quiet(s) == ~s.barrier /\ ~s.active /\ ~s.authorized
PumpSent == call.op = "T" /\ call.pump
CanDrain == spool.active \/ spool.authorized \/ PumpSent

\* The records have their fields, as far as the argument needs them.
SpoolShape ==
  spool = [text |-> spool.text, barrier |-> spool.barrier, settle |-> spool.settle,
           active |-> spool.active, authorized |-> spool.authorized]
HostShape ==
  host = [pc |-> host.pc, offset |-> host.offset, view |-> host.view,
          result |-> host.result]

\* What the host knows of the spool while the attachment is up: it authorizes a
\* line only in a spool that is quiet and stays so until the request arrives.
Known ==
  link = "up" =>
    /\ lines = 0
    /\ Sent => ~Answered
    /\ Sent => <<host.pc, call.op>> \in
         {<<"typing", "T">>, <<"pressing", "t">>, <<"cancelling", "C">>}
    /\ host.pc \in {"idle", "typing", "pressing", "cancelling"}
    /\ host.pc = "idle" => ~Sent /\ ~Answered
    /\ host.pc \in {"idle", "pressing"} => Quiet(spool)
    /\ host.pc = "cancelling" => Sent \/ Quiet(spool)
    /\ host.pc = "typing" =>
         (Quiet(IF Answered THEN rsp ELSE host.view) => Quiet(spool))

\* A line that may still be drained is the first one since the link broke.
LineInv ==
  /\ SpoolShape /\ HostShape
  /\ PumpSent => Quiet(spool)
  /\ Known
  /\ lines \in Nat /\ lines <= 1
  /\ link # "up" /\ CanDrain => lines = 0

----------------------------------------------------------------------------
LEMMA LineInit == Init => LineInv
  BY DEF Init, LineInv, SpoolShape, HostShape, Known, Rest, Empty, Unseen, Nothing,
         Sent, Answered, PumpSent, CanDrain, Quiet

\* Steps that touch neither the spool nor the requests.
LEMMA ProgramKeepsLine ==
  ASSUME LineInv, Read \/ Accept \/ PressedByHand \/ UNCHANGED vars
  PROVE  LineInv'
<1>1. UNCHANGED <<host, link, call, rsp, spool, lines>>
  BY DEF Read, Accept, PressedByHand, vars, pipe, history
<1> QED
  BY <1>1 DEF LineInv, SpoolShape, HostShape, Known, Sent, Answered, PumpSent,
              CanDrain, Quiet

\* A drained Return spends the only authorization there is.
LEMMA DrainKeepsLine ==
  ASSUME LineInv, Drain, UNCHANGED <<host, link, call, rsp>>
  PROVE  LineInv'
<1>1. ~PumpSent /\ ~Quiet(spool)
  BY DEF LineInv, Drain, Quiet
<1>2. CASE Drained = 0
  <2>1. /\ spool' = [spool EXCEPT !.active = TRUE, !.authorized = FALSE]
        /\ lines' = lines
    BY <1>2 DEF Drain
  <2>2. SpoolShape' /\ spool'.active
    BY <2>1 DEF LineInv, SpoolShape
  <2> QED
    BY <1>1, <2>1, <2>2 DEF Drain, LineInv, HostShape, Known, Sent, Answered,
                            PumpSent, CanDrain, Quiet
<1>3. CASE Drained # 0
  <2>1. /\ spool' = AfterDrain(Drained)
        /\ lines' = IF link # "up" /\ spool'.barrier THEN lines + 1 ELSE lines
    BY <1>3 DEF Drain
  <2>2. SpoolShape' /\ ~spool'.authorized /\ (spool'.barrier => ~spool'.active)
    BY <2>1 DEF AfterDrain, SpoolShape
  <2>3. Known'
    BY <1>1, <2>1 DEF LineInv, Known, Sent, Answered, Quiet
  <2>4. lines' \in Nat /\ lines' <= 1 /\ (link' # "up" /\ CanDrain' => lines' = 0)
    BY <1>1, <2>1, <2>2 DEF Drain, LineInv, CanDrain, PumpSent
  <2> QED
    BY <1>1, <2>2, <2>3, <2>4 DEF LineInv, HostShape, PumpSent
<1> QED
  BY <1>2, <1>3

LEMMA TickKeepsLine ==
  ASSUME LineInv, Tick
  PROVE  LineInv'
<1>1. UNCHANGED <<host, link, call, rsp>>
  BY DEF Tick, pipe
<1>2. CASE SettleTick
  <2>1. SpoolShape' /\ UNCHANGED <<spool.active, spool.authorized, lines>>
    BY <1>2 DEF SettleTick, LineInv, SpoolShape
  <2>2. ~Quiet(spool)
    BY <1>2 DEF SettleTick, Quiet
  <2> QED
    BY <1>1, <2>1, <2>2 DEF LineInv, HostShape, Known, Sent, Answered, PumpSent,
                            CanDrain, Quiet
<1>3. CASE Drain
  BY <1>1, <1>3, DrainKeepsLine
<1>4. CASE RestTick
  BY <1>1, <1>4 DEF RestTick, LineInv, SpoolShape, HostShape, Known, Sent, Answered,
                    PumpSent, CanDrain, Quiet
<1> QED
  BY <1>2, <1>3, <1>4 DEF Tick

LEMMA ServeKeepsLine ==
  ASSUME LineInv, Serve
  PROVE  LineInv'
<1>1. UNCHANGED <<host, link, lines>> /\ Sent /\ call'.op = "none"
  BY DEF Serve, ServeSpool, ServeCancel, ServeKey, Takes, Nothing, history, Sent
<1>2. ~PumpSent' /\ ~Sent' /\ HostShape'
  BY <1>1 DEF PumpSent, Sent, LineInv, HostShape
<1>3. CASE ServeSpool
  <2> DEFINE n == Fewer(call.n, SpoolSize - Len(spool.text))
             text == spool.text \o [i \in 1 .. n |-> Char(call.of, call.from + i)]
             pumped == call.pump /\ ~spool.barrier /\ ~spool.active /\ text # <<>>
  <2>1. /\ spool' = [spool EXCEPT !.text = text, !.authorized = @ \/ pumped]
        /\ pumped => PumpSent
    BY <1>3 DEF ServeSpool, PumpSent, Takes
  <2>2. Answers(Reply(n))
    BY <1>3 DEF ServeSpool
  <2> HIDE DEF n, text, pumped
  <2>3. /\ SpoolShape'
        /\ UNCHANGED <<spool.barrier, spool.active>>
        /\ spool'.authorized <=> (spool.authorized \/ pumped)
    BY <2>1 DEF LineInv, SpoolShape
  <2>4. link = "up" => Answered' /\ (Quiet(rsp') <=> Quiet(spool'))
    BY <2>2 DEF Answers, Reply, Answered, Quiet
  <2>5. link = "up" => host.pc = "typing"
    BY <1>1, <1>3 DEF ServeSpool, Takes, LineInv, Known
  <2> QED
    BY <1>1, <1>2, <2>1, <2>3, <2>4, <2>5 DEF LineInv, Known, CanDrain, PumpSent, Quiet
<1>4. CASE ServeCancel
  <2>1. SpoolShape' /\ Quiet(spool')
    BY <1>4 DEF ServeCancel, Empty, SpoolShape, Quiet
  <2> QED
    BY <1>1, <1>2, <2>1 DEF LineInv, Known, CanDrain, Quiet
<1>5. CASE ServeKey
  <2>1. spool' = spool
    BY <1>5 DEF ServeKey
  <2>2. link = "up" => host.pc = "pressing"
    BY <1>1, <1>5 DEF ServeKey, Takes, LineInv, Known
  <2> QED
    BY <1>1, <1>2, <2>1, <2>2 DEF LineInv, SpoolShape, Known, CanDrain, Quiet
<1> QED
  BY <1>3, <1>4, <1>5 DEF Serve

\* The host authorizes a line only where it knows the spool quiet.
LEMMA SendKeepsLine ==
  ASSUME LineInv, Send
  PROVE  LineInv'
<1>1. /\ UNCHANGED <<host, link, rsp, spool, lines>>
      /\ link = "up" /\ host.pc = "typing" /\ ~Sent /\ ~Answered
      /\ call'.op = "T" /\ call'.pump = Pump
  BY DEF Send, Waits, history
<1>2. Pump => Quiet(host.view)
  BY DEF Pump, Quiet
<1>3. PumpSent' => Quiet(spool)
  BY <1>1, <1>2 DEF PumpSent, LineInv, Known, Quiet
<1> QED
  BY <1>1, <1>3 DEF LineInv, SpoolShape, HostShape, Known, Sent, Answered, Quiet, CanDrain

\* A call begins where the last one left the spool quiet.
LEMMA CallKeepsLine ==
  ASSUME LineInv, Type \/ Press \/ NoProgress
  PROVE  LineInv'
<1>1. /\ UNCHANGED <<link, rsp, spool, lines>>
      /\ link = "up" /\ ~Sent /\ ~Answered
  BY DEF Type, Press, NoProgress, Begins, Waits, history, LineInv, Known
<1>2. HostShape'
  BY DEF Type, Press, NoProgress, Begins, Rest, HostShape, LineInv
<1>3. ~PumpSent'
  BY <1>1 DEF Type, Press, NoProgress, PumpSent, Sent
<1>4. CASE Type
  <2>1. host'.pc = "typing" /\ Quiet(spool) /\ call' = call
    BY <1>1, <1>4 DEF Type, Begins, Rest, LineInv, Known
  <2> QED
    BY <1>1, <1>2, <1>3, <2>1 DEF LineInv, SpoolShape, Known, Sent, Answered, CanDrain,
                                  Quiet
<1>5. CASE Press
  <2>1. host'.pc = "pressing" /\ Quiet(spool) /\ call'.op = "t"
    BY <1>1, <1>5 DEF Press, Begins, Rest, LineInv, Known
  <2> QED
    BY <1>1, <1>2, <1>3, <2>1 DEF LineInv, SpoolShape, Known, Sent, Answered, CanDrain,
                                  Quiet
<1>6. CASE NoProgress
  <2>1. host'.pc = "cancelling" /\ call'.op = "C"
    BY <1>6 DEF NoProgress, LineInv, HostShape
  <2> QED
    BY <1>1, <1>2, <1>3, <2>1 DEF LineInv, SpoolShape, Known, Sent, Answered, CanDrain,
                                  Quiet
<1> QED
  BY <1>4, <1>5, <1>6

\* An answer is the host's newest view of the spool.
LEMMA HearsKeepsLine ==
  ASSUME LineInv, Hears
  PROVE  LineInv'
<1>1. UNCHANGED <<link, call, spool, lines>>
  BY DEF Hears, GotSpool, GotKey, GotCancel, Fails, history, pipe
<1>2. HostShape' /\ SpoolShape'
  BY <1>1 DEF Hears, GotSpool, GotKey, GotCancel, Fails, Ends, LineInv, HostShape,
              SpoolShape
<1>3. Known'
  <2>1. SUFFICES ASSUME link = "up" PROVE Known'
    BY <1>1 DEF Known
  <2>2. Answered /\ ~Answered' /\ ~Sent
    BY <2>1 DEF Hears, GotSpool, GotKey, GotCancel, Fails, Got, Nothing, Answered, Sent,
                LineInv, Known
  <2>3. CASE GotSpool
    <3> DEFINE offset == host.offset + rsp.accepted
               seenNow == [pending |-> rsp.pending, credits |-> rsp.credits,
                           barrier |-> rsp.barrier, active |-> rsp.active,
                           authorized |-> rsp.authorized, first |-> FALSE]
    <3>1. \/ Ends("ok") /\ Quiet(rsp)
          \/ host' = [host EXCEPT !.offset = offset, !.view = seenNow]
      BY <2>3 DEF GotSpool, Quiet
    <3>2. Quiet(seenNow) => Quiet(rsp)
      BY DEF Quiet
    <3> HIDE DEF offset, seenNow
    <3>3. host.pc = "typing" /\ HostShape
      BY <2>3 DEF GotSpool, Got, LineInv
    <3>4. \/ host'.pc = "idle" /\ Quiet(rsp)
          \/ host'.pc = "typing" /\ (Quiet(host'.view) => Quiet(rsp))
      <4>1. CASE Ends("ok") /\ Quiet(rsp)
        BY <3>3, <4>1 DEF Ends, HostShape
      <4>2. CASE host' = [host EXCEPT !.offset = offset, !.view = seenNow]
        <5>1. host'.pc = "typing" /\ host'.view = seenNow
          BY <3>3, <4>2 DEF HostShape
        <5> QED
          BY <3>2, <5>1
      <4> QED
        BY <3>1, <4>1, <4>2
    <3> QED
      BY <1>1, <2>1, <2>2, <2>3, <3>4 DEF LineInv, Known, Sent, GotSpool, Got, Quiet
  <2>4. CASE GotKey \/ GotCancel
    <3>1. host'.pc = "idle" /\ Quiet(spool)
      BY <2>1, <2>2, <2>4 DEF GotKey, GotCancel, Got, Ends, LineInv, HostShape, Known
    <3> QED
      BY <1>1, <2>1, <2>2, <3>1 DEF LineInv, Known, Sent, Quiet
  <2> QED
    BY <2>1, <2>3, <2>4 DEF Hears, Fails
<1> QED
  BY <1>1, <1>2, <1>3 DEF LineInv, PumpSent, CanDrain, Quiet

\* Breaking the link adds no authorization; a reset takes it away.
LEMMA LinkKeepsLine ==
  ASSUME LineInv, GiveUp \/ Cut \/ SessionLost \/ Attach
  PROVE  LineInv'
<1>1. HostShape'
  BY DEF GiveUp, Cut, SessionLost, Attach, Ends, LineInv, HostShape
<1>2. CASE GiveUp
  <2>1. UNCHANGED <<call, spool, lines>> /\ link' # "up" /\ link = "up"
    BY <1>2 DEF GiveUp, history
  <2> QED
    BY <1>1, <2>1 DEF LineInv, SpoolShape, Known, PumpSent, CanDrain, Quiet
<1>3. CASE Cut
  <2>1. UNCHANGED <<call, spool, lines>> /\ link' # "up"
    BY <1>3 DEF Cut, history
  <2> QED
    BY <1>1, <2>1 DEF LineInv, SpoolShape, Known, PumpSent, CanDrain, Quiet
<1>4. CASE SessionLost
  <2>1. spool' = Empty /\ call' = Nothing /\ lines' = lines /\ link' # "up"
    BY <1>4 DEF SessionLost, history
  <2> QED
    BY <1>1, <2>1 DEF LineInv, SpoolShape, Known, PumpSent, CanDrain, Quiet, Empty,
                      Nothing
<1>5. CASE Attach
  <2>1. /\ spool' = Empty /\ call' = Nothing /\ rsp' = Nothing /\ lines' = 0
        /\ link' = "up" /\ host' = host /\ host.pc = "idle"
    BY <1>5 DEF Attach
  <2> QED
    BY <1>1, <2>1 DEF LineInv, SpoolShape, Known, PumpSent, CanDrain, Quiet, Empty,
                      Nothing, Sent, Answered
<1> QED
  BY <1>2, <1>3, <1>4, <1>5

LEMMA LineStep == LineInv /\ [Next]_vars => LineInv'
<1> SUFFICES ASSUME LineInv, [Next]_vars PROVE LineInv'
  OBVIOUS
<1>1. CASE Next
  BY <1>1, ProgramKeepsLine, TickKeepsLine, ServeKeepsLine, SendKeepsLine,
     CallKeepsLine, HearsKeepsLine, LinkKeepsLine DEF Next
<1>2. CASE UNCHANGED vars
  BY <1>2, ProgramKeepsLine
<1> QED
  BY <1>1, <1>2

\* After the peer is lost at most one line more reaches the program, whatever
\* was typed, with spools and rings of any size.
\* (agent/msx_agent_core.asm, keybuf_spool_drain)
THEOREM OneLineAtMost == Spec => []LostPeerOneLine
<1>1. LineInv => LostPeerOneLine
  BY DEF LineInv, LostPeerOneLine
<1> QED
  BY LineInit, LineStep, <1>1, PTL DEF Spec
----------------------------------------------------------------------------
\* Where the characters of a call are on their way to the program.

\* Characters of the current call may still reach the ring.
Live == spool.text # <<>> \/ call.op = "T" \/ (link = "up" /\ host.pc = "typing")

\* What was accepted, as far as the host can know it.
Told == IF Answered THEN host.offset + rsp.accepted ELSE host.offset

\* The ring ends where the spool begins: base characters have left the spool.
Joined(base) ==
  /\ seen[calls] <= base
  /\ \A i \in DOMAIN ring : ring[i].call = calls => ring[i].at <= base
  /\ seen[calls] < base => \E i \in DOMAIN ring : ring[i] = Char(calls, base)

\* Whoever may clear the ring, or will, is waited for by the barrier, and what
\* the ring then holds of the call has been read.
Guarded(base) ==
  /\ program # None =>
       spool.barrier /\ spool.settle >= program /\ seen[calls] = base
  /\ \A i \in DOMAIN ring : ring[i].key = "r" =>
       spool.barrier /\ spool.settle = Settle /\ ring[i] = Char(calls, base)

\* The spool, the request and the host continue one another.
Flow(base) ==
  /\ base + Len(spool.text) <= Len(Text)
  /\ \A j \in DOMAIN spool.text : spool.text[j] = Char(calls, base + j)
  /\ call.op = "T" =>
       /\ call.of = calls /\ call.from = base + Len(spool.text)
       /\ call.n \in 0 .. Len(Text) - call.from
  /\ link = "up" /\ host.pc = "typing" => Told = base + Len(spool.text)
  /\ calls \notin foreign => Joined(base) /\ Guarded(base)

\* The characters of a call stand in the ring in their order, behind those
\* that were read.
InOrder ==
  \A i \in DOMAIN ring : ring[i].call # 0 =>
    /\ ring[i].call <= calls
    /\ ring[i].call \notin foreign =>
         /\ seen[ring[i].call] < ring[i].at
         /\ \/ ring[i].at = seen[ring[i].call] + 1
            \/ \E j \in 1 .. i - 1 : ring[j] = Char(ring[i].call, ring[i].at - 1)
         /\ \A j \in 1 .. i - 1 : ring[j].call = ring[i].call => ring[j].at < ring[i].at

\* What the host was told or has reported.
Promised ==
  /\ host.pc # "idle" \/ host.result # "none" => calls >= 1
  /\ host.result # "none" => host.pc = "idle"
  /\ Answered => ~Sent /\ host.pc # "idle"
  /\ link = "up" /\ host.pc \in {"idle", "pressing"} => spool.text = <<>>
  /\ link = "up" /\ host.pc = "cancelling" => Sent \/ spool.text = <<>>
  /\ host.pc = "typing" /\ Answered =>
       /\ rsp.accepted \in Nat /\ rsp.credits \in 0 .. SpoolSize /\ rsp.pending \in Nat
       /\ {rsp.barrier, rsp.active, rsp.authorized} \subseteq BOOLEAN
       /\ Told <= Len(Text)
       /\ rsp.pending = 0 => spool.text = <<>>
       /\ rsp.pending = 0 /\ Told = Len(Text) /\ calls \notin foreign =>
            seen[calls] = Len(Text)
  /\ host.result = "ok" /\ calls \notin foreign => seen[calls] = Len(Text)
  /\ host.result = "cancelled" \/ (host.pc = "cancelling" /\ Answered) =>
       ~Live /\ \A i \in DOMAIN ring : ring[i].call # calls


\* The variables have their types.
Views == [pending : Nat, credits : 0 .. SpoolSize, barrier : BOOLEAN,
          active : BOOLEAN, authorized : BOOLEAN, first : BOOLEAN]
Hosts == [pc : {"idle", "typing", "pressing", "cancelling"}, offset : 0 .. Len(Text),
          view : Views, result : {"none", "ok", "pressed", "failed", "cancelled"}]
Spools == [text : Seq(Chars), barrier : BOOLEAN, settle : 0 .. Settle,
           active : BOOLEAN, authorized : BOOLEAN]
SpoolTypes ==
  /\ host \in Hosts /\ link \in {"up", "quarantined", "down"}
  /\ spool \in Spools /\ Len(spool.text) <= SpoolSize
  /\ ring \in Seq(Chars) /\ Len(ring) <= RingSize
  /\ program \in {None} \cup 0 .. Settle
  /\ calls \in 0 .. MaxCalls /\ foreign \subseteq 1 .. calls
  /\ seen \in [Calls -> 0 .. Torn]
  /\ \A c \in Calls : /\ c > calls => seen[c] = 0
                      /\ c \notin foreign => seen[c] <= Len(Text)


TypedInv ==
  /\ SpoolTypes /\ InOrder /\ Promised
  /\ Live => calls >= 1 /\ \E base \in 0 .. Len(Text) : Flow(base)

----------------------------------------------------------------------------
\* Operators of the model.

\* A set of numbers has a least one.
LEMMA LeastOf ==
  ASSUME NEW N \in Nat, NEW S \in SUBSET (0 .. N), S # {}
  PROVE  \E n \in S : \A m \in S : n <= m
<1> DEFINE family == {0 .. n : n \in S}
           R == StrictSubsetOrdering(0 .. N)
<1>1. IsFiniteSet(0 .. N)
  BY FS_Interval
<1>2. IsWellFoundedOn(R, FiniteSubsetsOf(0 .. N))
  BY <1>1, FS_StrictSubsetOrderingWellFounded
<1>3. family \subseteq FiniteSubsetsOf(0 .. N) /\ family # {}
  <2>1. \A n \in S : (0 .. n) \subseteq 0 .. N /\ IsFiniteSet(0 .. n)
    BY FS_Interval
  <2> QED BY <2>1 DEF FiniteSubsetsOf
<1>4. PICK d \in family : \A e \in family : <<e, d>> \notin R
  <2> HIDE DEF R, family
  <2> QED BY <1>2, <1>3, WFMin
<1>5. PICK n \in S : d = 0 .. n
  OBVIOUS
<1>6. ASSUME NEW m \in S, m < n PROVE FALSE
  <2>1. 0 .. m \in family /\ 0 .. m \subseteq 0 .. n /\ 0 .. m # 0 .. n
    <3>1. n \in 0 .. n /\ n \notin 0 .. m
      BY <1>6
    <3> QED BY <1>6, <3>1
  <2>2. 0 .. m \in SUBSET (0 .. N) /\ 0 .. n \in SUBSET (0 .. N)
    OBVIOUS
  <2>3. <<0 .. m, 0 .. n>> \in R
    BY <2>1, <2>2 DEF StrictSubsetOrdering
  <2> QED BY <1>4, <1>5, <2>1, <2>3
<1> QED BY <1>6

\* A line ends with its first Return.
LEMMA UptoFacts ==
  ASSUME NEW q \in Seq(Chars), q # <<>>
  PROVE  Upto(q) \in 1 .. Len(q) /\ \A j \in 1 .. Upto(q) - 1 : q[j].key # "r"
<1>1. CASE HasReturn(q)
  <2> DEFINE S == {i \in DOMAIN q : q[i].key = "r"}
  <2>1. S \in SUBSET (0 .. Len(q)) /\ S # {} /\ Len(q) \in Nat
    BY <1>1 DEF HasReturn
  <2>2. PICK n \in S : \A m \in S : n <= m
    <3> HIDE DEF S
    <3> QED BY <2>1, LeastOf
  <2>3. n \in DOMAIN q /\ q[n].key = "r" /\ \A j \in 1 .. n - 1 : q[j].key # "r"
    BY <2>2
  <2>4. \E i \in DOMAIN q : q[i].key = "r" /\ \A j \in 1 .. i - 1 : q[j].key # "r"
    BY <2>3
  <2>5. Upto(q) = CHOOSE i \in DOMAIN q :
                    q[i].key = "r" /\ \A j \in 1 .. i - 1 : q[j].key # "r"
    BY <1>1 DEF Upto
  <2>6. Upto(q) \in DOMAIN q /\ \A j \in 1 .. Upto(q) - 1 : q[j].key # "r"
    BY <2>4, <2>5, Zenon
  <2> QED BY <2>6
<1>2. CASE ~HasReturn(q)
  BY <1>2 DEF Upto, HasReturn
<1> QED BY <1>1, <1>2

LEMMA CharFacts ==
  /\ Len(Text) \in Nat /\ DOMAIN Text = 1 .. Len(Text) /\ Torn = Len(Text) + 1
  /\ \A c, i : Char(c, i).call = c /\ Char(c, i).at = i /\ Char(c, i).key = Text[i]
  /\ \A k : Key(k).call = 0 /\ Key(k).key = k
  /\ Key("c") \in Chars /\ Key("r") \in Chars
  /\ \A c \in Calls, i \in 1 .. Len(Text) : Char(c, i) \in Chars
  /\ \A x \in Chars : x.call # 0 =>
       x.call \in Calls /\ x.at \in 1 .. Len(Text) /\ x = Char(x.call, x.at)
<1>1. Len(Text) \in Nat /\ DOMAIN Text = 1 .. Len(Text) /\ Torn = Len(Text) + 1
  BY SpoolAssumption DEF Torn
<1>2. /\ \A c, i : Char(c, i).call = c /\ Char(c, i).at = i /\ Char(c, i).key = Text[i]
      /\ \A k : Key(k).call = 0 /\ Key(k).key = k
  BY DEF Char, Key
<1>3. /\ Key("c") \in Chars /\ Key("r") \in Chars
      /\ \A c \in Calls, i \in 1 .. Len(Text) : Char(c, i) \in Chars
  BY <1>1 DEF Chars
<1>4. ASSUME NEW x \in Chars, x.call # 0
      PROVE  x.call \in Calls /\ x.at \in 1 .. Len(Text) /\ x = Char(x.call, x.at)
  BY <1>1, <1>2, <1>4 DEF Chars
<1> QED BY <1>1, <1>2, <1>3, <1>4

----------------------------------------------------------------------------
\* Nothing is on its way at first.
LEMMA TypedInit == Init => TypedInv
<1> SUFFICES ASSUME Init PROVE TypedInv
  OBVIOUS
<1>1. SpoolTypes
  BY SpoolAssumption, CharFacts
     DEF Init, SpoolTypes, Hosts, Views, Spools, Rest, Unseen, Empty, Calls
<1>2. ~Live /\ InOrder /\ Promised
  BY DEF Init, Live, InOrder, Promised, Rest, Empty, Nothing, Sent, Answered
<1> QED BY <1>1, <1>2 DEF TypedInv

\* Steps that leave the characters, and what is known of them, where they are.
LEMMA Unmoved ==
  ASSUME TypedInv, UNCHANGED <<host, link, call, rsp, spool, ring, program,
                               calls, seen, foreign>>
  PROVE  TypedInv'
<1>1. SpoolTypes' /\ InOrder' /\ Promised'
  BY DEF TypedInv, SpoolTypes, InOrder, Promised, Live, Told, Sent, Answered
<1>2. Live' <=> Live
  BY DEF Live
<1>3. \A base \in 0 .. Len(Text) : Flow(base) => Flow(base)'
  BY DEF Flow, Joined, Guarded, Told, Answered
<1> QED BY <1>1, <1>2, <1>3 DEF TypedInv

----------------------------------------------------------------------------
\* The program and the keyboard.

\* What is read of a call in good order is its next character.
LEMMA ReadNext ==
  ASSUME TypedInv, ring # <<>>, seen' = Reads(ring[1])
  PROVE  /\ seen' \in [Calls -> 0 .. Torn]
         /\ \A c \in Calls : c # ring[1].call => seen'[c] = seen[c]
         /\ ring[1].call # 0 /\ ring[1].call \notin foreign =>
              /\ ring[1].call \in Calls /\ ring[1].at \in 1 .. Len(Text)
              /\ seen'[ring[1].call] = ring[1].at
              /\ ring[1].at = seen[ring[1].call] + 1
<1> DEFINE h == ring[1]
<1>1. h \in Chars /\ 1 \in DOMAIN ring /\ seen \in [Calls -> 0 .. Torn]
  BY DEF TypedInv, SpoolTypes
<1>2. Len(Text) \in Nat /\ Torn = Len(Text) + 1
  BY CharFacts
<1>3. h.call # 0 => h.call \in Calls /\ h.at \in 1 .. Len(Text)
  BY <1>1, CharFacts
<1>4. h.call # 0 /\ h.call \notin foreign => h.at = seen[h.call] + 1
  BY <1>1 DEF TypedInv, InOrder
<1> HIDE DEF h
<1>5. seen' = IF h.call = 0 THEN seen
              ELSE [seen EXCEPT ![h.call] = IF @ + 1 = h.at THEN h.at ELSE Torn]
  BY DEF Reads, h
<1>6. CASE h.call = 0
  BY <1>1, <1>5, <1>6 DEF h
<1>7. CASE h.call # 0
  <2>1. seen' = [seen EXCEPT ![h.call] = IF @ + 1 = h.at THEN h.at ELSE Torn]
    BY <1>5, <1>7
  <2>2. seen' \in [Calls -> 0 .. Torn] /\ \A c \in Calls : c # h.call => seen'[c] = seen[c]
    BY <1>1, <1>2, <1>3, <1>7, <2>1
  <2>3. h.call \notin foreign => seen'[h.call] = h.at
    BY <1>1, <1>3, <1>4, <1>7, <2>1
  <2> QED BY <1>3, <1>4, <1>7, <2>2, <2>3 DEF h
<1> QED BY <1>6, <1>7

LEMMA ReadKeepsOrder ==
  ASSUME TypedInv, Read
  PROVE  InOrder'
<1>1. /\ ring # <<>> /\ ring' = Tail(ring) /\ seen' = Reads(ring[1])
      /\ UNCHANGED <<calls, foreign>>
  BY DEF Read, history
<1>2. ring \in Seq(Chars) /\ InOrder /\ seen \in [Calls -> 0 .. Torn] /\ Torn \in Nat
  BY CharFacts DEF TypedInv, SpoolTypes
<1>3. /\ Len(ring) \in Nat \ {0} /\ DOMAIN ring = 1 .. Len(ring)
      /\ DOMAIN ring' = 1 .. Len(ring) - 1
      /\ \A i \in 1 .. Len(ring) - 1 : ring'[i] = ring[i + 1]
  BY <1>1, <1>2
<1>4. /\ \A c \in Calls : c # ring[1].call => seen'[c] = seen[c]
      /\ ring[1].call # 0 /\ ring[1].call \notin foreign =>
           seen'[ring[1].call] = ring[1].at /\ ring[1].at = seen[ring[1].call] + 1
  BY <1>1, ReadNext
<1>5. ASSUME NEW i \in 1 .. Len(ring) - 1, ring'[i].call # 0
      PROVE  /\ ring'[i].call <= calls
             /\ ring'[i].call \notin foreign =>
                  /\ seen'[ring'[i].call] < ring'[i].at
                  /\ \/ ring'[i].at = seen'[ring'[i].call] + 1
                     \/ \E j \in 1 .. i - 1 : ring'[j] = Char(ring'[i].call, ring'[i].at - 1)
                  /\ \A j \in 1 .. i - 1 : ring'[j].call = ring'[i].call => ring'[j].at < ring'[i].at
  <2> DEFINE r == ring[i + 1]
  <2>1. i + 1 \in DOMAIN ring /\ ring'[i] = r /\ r \in Chars /\ r.call # 0
    BY <1>2, <1>3, <1>5
  <2>2. r.call \in Calls /\ r.at \in 1 .. Len(Text) /\ r.call <= calls
    BY <1>2, <2>1, CharFacts DEF InOrder
  <2>3. ASSUME r.call \notin foreign
        PROVE  /\ seen'[r.call] < r.at
               /\ \/ r.at = seen'[r.call] + 1
                  \/ \E j \in 1 .. i - 1 : ring'[j] = Char(r.call, r.at - 1)
               /\ \A j \in 1 .. i - 1 : ring'[j].call = r.call => ring'[j].at < r.at
    <3>1. /\ seen[r.call] < r.at
          /\ r.at = seen[r.call] + 1 \/ \E j \in 1 .. i : ring[j] = Char(r.call, r.at - 1)
          /\ \A j \in 1 .. i : ring[j].call = r.call => ring[j].at < r.at
      <4>1. (i + 1) - 1 = i
        BY <1>3
      <4> QED BY <1>2, <2>1, <2>3, <4>1 DEF InOrder
    <3>2. seen[r.call] \in Nat
      BY <1>2, <2>2
    <3>3. \A j \in 1 .. i - 1 : ring'[j] = ring[j + 1] /\ j + 1 \in 1 .. i
      BY <1>3
    <3>4. \A j \in 2 .. i : j - 1 \in 1 .. i - 1 /\ ring'[j - 1] = ring[j]
      BY <1>3
    <3>5. CASE ring[1].call = r.call
      <4>1. seen'[r.call] = ring[1].at /\ ring[1].at = seen[r.call] + 1
        BY <1>4, <2>1, <2>3, <3>5
      <4>2. ring[1].at < r.at
        BY <3>1, <3>5, <1>3
      <4>3. r.at # seen[r.call] + 1
        BY <4>1, <4>2, <3>2
      <4>4. PICK j \in 1 .. i : ring[j] = Char(r.call, r.at - 1)
        BY <3>1, <4>3
      <4>5. CASE j = 1
        <5>1. ring[1].at = r.at - 1
          BY <4>4, <4>5, CharFacts
        <5>2. r.at = seen'[r.call] + 1
          BY <2>2, <4>1, <5>1, CharFacts
        <5> QED BY <3>1, <3>3, <4>1, <4>2, <5>2
      <4>6. CASE j # 1
        <5>1. j - 1 \in 1 .. i - 1 /\ ring'[j - 1] = Char(r.call, r.at - 1)
          BY <4>4, <4>6, <1>3, <3>4
        <5>2. \A l \in 1 .. i - 1 : ring'[l].call = r.call => ring'[l].at < r.at
          BY <3>1, <3>3
        <5> QED BY <4>1, <4>2, <5>1, <5>2
      <4> QED BY <4>5, <4>6
    <3>6. CASE ring[1].call # r.call
      <4>1. seen'[r.call] = seen[r.call]
        BY <1>4, <2>2, <3>6
      <4>2. ASSUME NEW j \in 1 .. i, ring[j] = Char(r.call, r.at - 1) PROVE j \in 2 .. i
        <5>1. j # 1
          BY <3>6, <4>2, CharFacts
        <5> QED BY <5>1, <1>3
      <4>3. \A l \in 1 .. i - 1 : ring'[l].call = r.call => ring'[l].at < r.at
        BY <3>1, <3>3
      <4>4. r.at = seen'[r.call] + 1 \/ \E j \in 1 .. i - 1 : ring'[j] = Char(r.call, r.at - 1)
        BY <3>1, <3>4, <4>1, <4>2
      <4> QED BY <3>1, <4>1, <4>3, <4>4
    <3> QED BY <3>5, <3>6
  <2> QED BY <1>1, <2>1, <2>2, <2>3
<1> QED BY <1>1, <1>3, <1>5 DEF InOrder

LEMMA ReadKeepsFlow ==
  ASSUME TypedInv, Read, calls >= 1, NEW base \in 0 .. Len(Text), Flow(base)
  PROVE  Flow(base)'
<1>1. /\ ring # <<>> /\ ring' = Tail(ring) /\ seen' = Reads(ring[1])
      /\ program = None /\ program' = (IF ring[1].key = "r" THEN Settle ELSE None)
      /\ UNCHANGED <<host, link, call, rsp, spool, calls, foreign>>
  BY DEF Read, history, pipe
<1>2. /\ Len(ring) \in Nat \ {0} /\ DOMAIN ring = 1 .. Len(ring)
      /\ DOMAIN ring' = 1 .. Len(ring) - 1
      /\ \A i \in 1 .. Len(ring) - 1 : i + 1 \in DOMAIN ring /\ ring'[i] = ring[i + 1]
      /\ ring[1] \in Chars /\ seen \in [Calls -> 0 .. Torn] /\ calls \in Calls
      /\ Torn \in Nat
  BY <1>1, CharFacts DEF TypedInv, SpoolTypes, Calls
<1>3. /\ ring[1].call # calls => seen'[calls] = seen[calls]
      /\ calls \notin foreign /\ ring[1].call = calls =>
           seen'[calls] = ring[1].at /\ ring[1].at = seen[calls] + 1
  <2>1. /\ \A c \in Calls : c # ring[1].call => seen'[c] = seen[c]
        /\ ring[1].call # 0 /\ ring[1].call \notin foreign =>
             seen'[ring[1].call] = ring[1].at /\ ring[1].at = seen[ring[1].call] + 1
    BY <1>1, ReadNext
  <2>2. calls # 0
    BY <1>2 DEF Calls
  <2> QED BY <1>2, <2>1, <2>2
<1>4. ASSUME calls \notin foreign PROVE (Joined(base) /\ Guarded(base))'
  <2>1. Joined(base) /\ Guarded(base)
    BY <1>4 DEF Flow
  <2>2. Joined(base)'
    <3>1. seen'[calls] <= base
      BY <1>2, <1>3, <1>4, <2>1 DEF Joined
    <3>2. \A i \in DOMAIN ring' : ring'[i].call = calls => ring'[i].at <= base
      <4>1. ASSUME NEW i \in DOMAIN ring', ring'[i].call = calls PROVE ring'[i].at <= base
        <5>1. i + 1 \in DOMAIN ring /\ ring'[i] = ring[i + 1]
          BY <1>2
        <5> QED BY <2>1, <4>1, <5>1 DEF Joined
      <4> QED BY <4>1
    <3>3. ASSUME seen'[calls] < base PROVE \E i \in DOMAIN ring' : ring'[i] = Char(calls, base)
      <4>1. seen[calls] < base
        BY <1>2, <1>3, <1>4, <3>3
      <4>2. PICK i \in DOMAIN ring : ring[i] = Char(calls, base)
        BY <2>1, <4>1 DEF Joined
      <4>3. i # 1
        BY <1>3, <1>4, <3>3, <4>2, CharFacts
      <4>4. i - 1 \in DOMAIN ring' /\ ring'[i - 1] = ring[i]
        BY <1>2, <4>3
      <4> QED BY <4>2, <4>4
    <3> QED BY <1>1, <3>1, <3>2, <3>3 DEF Joined, Char
  <2>3. Guarded(base)'
    <3>1. ASSUME program' # None
          PROVE  spool'.barrier /\ spool'.settle >= program' /\ seen'[calls] = base
      <4>1. ring[1].key = "r" /\ program' = Settle
        BY <1>1, <3>1
      <4>2. spool.barrier /\ spool.settle = Settle /\ ring[1] = Char(calls, base)
        BY <1>2, <2>1, <4>1 DEF Guarded
      <4> QED BY <1>1, <1>3, <1>4, <4>1, <4>2, CharFacts, SpoolAssumption
    <3>2. \A i \in DOMAIN ring' : ring'[i].key = "r" =>
            spool'.barrier /\ spool'.settle = Settle /\ ring'[i] = Char(calls, base)
      BY <1>1, <1>2, <2>1 DEF Guarded
    <3> QED BY <1>1, <3>1, <3>2 DEF Guarded, Char
  <2> QED BY <2>2, <2>3
<1> QED BY <1>1, <1>4 DEF Flow, Told, Answered, Char

LEMMA ReadKeepsTyped ==
  ASSUME TypedInv, Read
  PROVE  TypedInv'
<1>1. /\ ring # <<>> /\ ring' = Tail(ring) /\ seen' = Reads(ring[1])
      /\ program' = (IF ring[1].key = "r" THEN Settle ELSE None)
      /\ UNCHANGED <<host, link, call, rsp, spool, calls, foreign>>
  BY DEF Read, history, pipe
<1>2. /\ ring \in Seq(Chars) /\ Len(ring) <= RingSize /\ ring[1] \in Chars
      /\ Len(ring) \in Nat \ {0} /\ DOMAIN ring = 1 .. Len(ring)
      /\ seen \in [Calls -> 0 .. Torn] /\ Torn = Len(Text) + 1 /\ Len(Text) \in Nat
      /\ \A c \in Calls : c > calls => seen[c] = 0
      /\ \A c \in Calls : c \notin foreign => seen[c] <= Len(Text)
  BY <1>1, CharFacts DEF TypedInv, SpoolTypes
<1>3. /\ ring' \in Seq(Chars) /\ Len(ring') = Len(ring) - 1 /\ DOMAIN ring' = 1 .. Len(ring) - 1
      /\ \A i \in 1 .. Len(ring) - 1 : i + 1 \in DOMAIN ring /\ ring'[i] = ring[i + 1]
  BY <1>1, <1>2
<1>4. /\ seen' \in [Calls -> 0 .. Torn]
      /\ \A c \in Calls : c # ring[1].call => seen'[c] = seen[c]
      /\ ring[1].call # 0 /\ ring[1].call \notin foreign =>
           /\ ring[1].at \in 1 .. Len(Text)
           /\ seen'[ring[1].call] = ring[1].at
           /\ ring[1].at = seen[ring[1].call] + 1
  BY <1>1, ReadNext
<1>5. SpoolTypes'
  <2>1. \A c \in Calls : c > calls => seen'[c] = 0
    <3>1. ring[1].call # 0 => ring[1].call <= calls
      BY <1>2 DEF TypedInv, InOrder
    <3>2. calls \in Nat
      BY SpoolAssumption DEF TypedInv, SpoolTypes
    <3>3. \A c \in Calls : c > calls => c # ring[1].call
      BY <3>1, <3>2 DEF Calls
    <3> QED BY <1>2, <1>4, <3>3
  <2>2. \A c \in Calls : c \notin foreign => seen'[c] <= Len(Text)
    <3>1. \A c \in Calls : c # 0
      BY DEF Calls
    <3> QED BY <1>2, <1>4, <3>1
  <2>3. Len(ring') <= RingSize
    BY <1>2, <1>3, SpoolAssumption
  <2>4. program' \in {None} \cup 0 .. Settle
    BY <1>1, SpoolAssumption
  <2> QED BY <1>1, <1>3, <1>4, <2>1, <2>2, <2>3, <2>4 DEF TypedInv, SpoolTypes
<1>6. ASSUME calls >= 1, calls \notin foreign, seen[calls] = Len(Text)
      PROVE  seen'[calls] = Len(Text)
  <2>1. calls \in Calls /\ calls # 0
    BY <1>6, SpoolAssumption DEF TypedInv, SpoolTypes, Calls
  <2>2. ring[1].call # calls
    BY <1>2, <1>4, <1>6, <2>1
  <2> QED BY <1>4, <1>6, <2>1, <2>2
<1>7. Promised'
  <2>1. UNCHANGED <<Sent, Answered, Told, Live>>
    BY <1>1 DEF Sent, Answered, Told, Live
  <2>2. \A i \in DOMAIN ring' : \E j \in DOMAIN ring : ring'[i] = ring[j]
    BY <1>3
  <2>3. Promised
    BY DEF TypedInv
  <2>4. /\ host.pc = "typing" /\ Answered => calls >= 1
        /\ host.result = "ok" => calls >= 1
    BY <2>3 DEF Promised
  <2> QED BY <1>1, <1>6, <2>1, <2>2, <2>3, <2>4 DEF Promised
<1>8. ASSUME Live' PROVE calls' >= 1 /\ \E base \in 0 .. Len(Text) : Flow(base)'
  <2>1. Live
    BY <1>1, <1>8 DEF Live
  <2>2. calls >= 1 /\ \E base \in 0 .. Len(Text) : Flow(base)
    BY <2>1 DEF TypedInv
  <2> QED BY <1>1, <2>2, ReadKeepsFlow
<1> QED BY <1>5, <1>7, <1>8, ReadKeepsOrder DEF TypedInv

\* A cleared ring holds nothing that could be out of order.
LEMMA ClearedTyped ==
  ASSUME TypedInv, program # None, program' = None, ring' = <<>>,
         UNCHANGED <<host, link, call, rsp, spool, calls, seen, foreign>>
  PROVE  TypedInv'
<1>1. SpoolTypes' /\ InOrder' /\ Promised'
  <2>1. UNCHANGED <<Sent, Answered, Told, Live>>
    BY DEF Sent, Answered, Told, Live
  <2>2. Len(ring') = 0 /\ ring' \in Seq(Chars) /\ DOMAIN ring' = {}
    OBVIOUS
  <2>3. SpoolTypes'
    BY <2>2, SpoolAssumption DEF TypedInv, SpoolTypes
  <2>4. InOrder'
    BY <2>2 DEF InOrder
  <2>5. Promised'
    BY <2>1, <2>2 DEF TypedInv, Promised
  <2> QED BY <2>3, <2>4, <2>5
<1>2. Live' <=> Live
  BY DEF Live
<1>3. ASSUME NEW base \in 0 .. Len(Text), Flow(base) PROVE Flow(base)'
  <2>1. ASSUME calls \notin foreign PROVE (Joined(base) /\ Guarded(base))'
    <3>1. seen[calls] = base
      BY <1>3, <2>1 DEF Flow, Guarded
    <3> QED BY <3>1, SpoolAssumption DEF Joined, Guarded
  <2> QED BY <1>3, <2>1 DEF Flow, Told, Answered, Char
<1> QED BY <1>1, <1>2, <1>3 DEF TypedInv

LEMMA AcceptKeepsTyped ==
  ASSUME TypedInv, Accept
  PROVE  TypedInv'
<1>1. CASE ring' = <<>>
  BY <1>1, ClearedTyped DEF Accept, history, pipe
<1>2. CASE ring' = ring
  <2>1. /\ program' = None
        /\ UNCHANGED <<host, link, call, rsp, spool, ring, calls, seen, foreign>>
    BY <1>2 DEF Accept, history, pipe
  <2>2. SpoolTypes' /\ InOrder' /\ Promised'
    BY <2>1 DEF TypedInv, SpoolTypes, InOrder, Promised, Live, Told, Sent, Answered
  <2>3. Live' <=> Live
    BY <2>1 DEF Live
  <2>4. \A base \in 0 .. Len(Text) : Flow(base) => Flow(base)'
    BY <2>1 DEF Flow, Joined, Guarded, Told, Answered, Char
  <2> QED BY <2>1, <2>2, <2>3, <2>4 DEF TypedInv
<1> QED BY <1>1, <1>2 DEF Accept

\* A key that is no character of a call may be put behind the others.
LEMMA KeyKeepsOrder ==
  ASSUME TypedInv, NEW k \in Chars, k.call = 0, ring' = Append(ring, k),
         UNCHANGED <<calls, seen, foreign>>
  PROVE  /\ InOrder'
         /\ ring' \in Seq(Chars) /\ Len(ring') = Len(ring) + 1
         /\ DOMAIN ring' = 1 .. Len(ring) + 1 /\ ring'[Len(ring) + 1] = k
         /\ \A i \in DOMAIN ring : i \in DOMAIN ring' /\ ring'[i] = ring[i]
<1>1. /\ ring \in Seq(Chars) /\ Len(ring) \in Nat /\ DOMAIN ring = 1 .. Len(ring)
      /\ ring' \in Seq(Chars) /\ Len(ring') = Len(ring) + 1
      /\ DOMAIN ring' = 1 .. Len(ring) + 1 /\ ring'[Len(ring) + 1] = k
      /\ \A i \in DOMAIN ring : i \in DOMAIN ring' /\ ring'[i] = ring[i]
  BY DEF TypedInv, SpoolTypes
<1>2. \A i \in DOMAIN ring' : ring'[i].call # 0 => i \in DOMAIN ring
  BY <1>1
<1>3. \A i \in DOMAIN ring : \A j \in 1 .. i - 1 : j \in DOMAIN ring
  BY <1>1
<1>4. ASSUME NEW i \in DOMAIN ring', ring'[i].call # 0
      PROVE  /\ ring'[i].call <= calls
             /\ ring'[i].call \notin foreign =>
                  /\ seen[ring'[i].call] < ring'[i].at
                  /\ \/ ring'[i].at = seen[ring'[i].call] + 1
                     \/ \E j \in 1 .. i - 1 : ring'[j] = Char(ring'[i].call, ring'[i].at - 1)
                  /\ \A j \in 1 .. i - 1 : ring'[j].call = ring'[i].call => ring'[j].at < ring'[i].at
  <2>1. i \in DOMAIN ring /\ ring'[i] = ring[i] /\ \A j \in 1 .. i - 1 : ring'[j] = ring[j]
    BY <1>1, <1>2, <1>3, <1>4
  <2> QED BY <1>4, <2>1 DEF TypedInv, InOrder
<1> QED BY <1>1, <1>4 DEF InOrder

LEMMA PressedKeepsTyped ==
  ASSUME TypedInv, PressedByHand
  PROVE  TypedInv'
<1>1. /\ Len(ring) < RingSize /\ ring' = Append(ring, Key("c"))
      /\ UNCHANGED <<host, link, call, rsp, spool, program, calls, seen, foreign>>
  BY DEF PressedByHand, history, pipe
<1>2. Key("c") \in Chars /\ Key("c").call = 0 /\ Key("c").key = "c"
  BY CharFacts
<1>3. /\ InOrder'
      /\ ring' \in Seq(Chars) /\ Len(ring') = Len(ring) + 1
      /\ DOMAIN ring' = 1 .. Len(ring) + 1 /\ ring'[Len(ring) + 1] = Key("c")
      /\ \A i \in DOMAIN ring : i \in DOMAIN ring' /\ ring'[i] = ring[i]
  BY <1>1, <1>2, KeyKeepsOrder
<1>4. /\ Len(ring) \in Nat /\ DOMAIN ring = 1 .. Len(ring)
      /\ \A i \in DOMAIN ring' : ring'[i] = Key("c") \/ (i \in DOMAIN ring /\ ring'[i] = ring[i])
  BY <1>3 DEF TypedInv, SpoolTypes
<1>5. SpoolTypes'
  BY <1>1, <1>3, <1>4, SpoolAssumption DEF TypedInv, SpoolTypes
<1>6. Promised'
  <2>1. UNCHANGED <<Sent, Answered, Told, Live>>
    BY <1>1 DEF Sent, Answered, Told, Live
  <2>2. 0 # calls \/ calls = 0
    OBVIOUS
  <2>3. host.result = "cancelled" \/ (host.pc = "cancelling" /\ Answered) => calls # 0
    <3>1. calls \in Nat
      BY SpoolAssumption DEF TypedInv, SpoolTypes
    <3> QED BY <3>1 DEF TypedInv, Promised
  <2> QED BY <1>1, <1>2, <1>4, <2>1, <2>3 DEF TypedInv, Promised
<1>7. Live' <=> Live
  BY <1>1 DEF Live
<1>8. ASSUME NEW base \in 0 .. Len(Text), calls >= 1, Flow(base) PROVE Flow(base)'
  <2>1. ASSUME calls \notin foreign PROVE (Joined(base) /\ Guarded(base))'
    <3>1. Joined(base) /\ Guarded(base) /\ calls # 0
      BY <1>8, <2>1 DEF Flow
    <3>2. Joined(base)'
      BY <1>1, <1>2, <1>3, <1>4, <3>1 DEF Joined, Char
    <3>3. Guarded(base)'
      BY <1>1, <1>2, <1>4, <3>1 DEF Guarded, Char
    <3> QED BY <3>2, <3>3
  <2> QED BY <1>1, <1>8, <2>1 DEF Flow, Told, Answered, Char
<1> QED BY <1>1, <1>3, <1>5, <1>6, <1>7, <1>8 DEF TypedInv

----------------------------------------------------------------------------
\* The resident's tick.

Counts == program # 0 /\ program' = IF program = None THEN None ELSE program - 1

LEMMA CountsDown ==
  ASSUME TypedInv, Counts
  PROVE  /\ program' \in {None} \cup 0 .. Settle
         /\ program' # None <=> program # None
         /\ program' # None => program' = program - 1 /\ program \in 1 .. Settle
  BY SpoolAssumption DEF Counts, TypedInv, SpoolTypes

\* What a drain takes, and where it puts it.
LEMMA DrainShape ==
  ASSUME TypedInv, Drain, Drained # 0, NEW n, n = Drained
  PROVE  /\ ~spool.barrier /\ spool.text \in Seq(Chars)
         /\ n \in 1 .. Len(spool.text) /\ Len(spool.text) \in Nat /\ Len(ring) \in Nat
         /\ \A j \in 1 .. n - 1 : spool.text[j].key # "r"
         /\ spool' \in Spools /\ Len(spool'.text) = Len(spool.text) - n
         /\ DOMAIN spool'.text = 1 .. Len(spool.text) - n
         /\ \A j \in 1 .. Len(spool.text) - n : spool'.text[j] = spool.text[n + j]
         /\ spool'.barrier = (spool.text[n].key = "r")
         /\ spool.text[n].key = "r" => spool'.settle = Settle
         /\ ring' \in Seq(Chars) /\ Len(ring') = Len(ring) + n /\ Len(ring') <= RingSize
         /\ DOMAIN ring' = 1 .. Len(ring) + n
         /\ \A i \in 1 .. Len(ring) : ring'[i] = ring[i]
         /\ \A j \in 1 .. n : ring'[Len(ring) + j] = spool.text[j]
<1> DEFINE text == spool.text
<1>1. /\ text \in Seq(Chars) /\ text # <<>> /\ Len(text) \in Nat \ {0}
      /\ ring \in Seq(Chars) /\ Len(ring) \in Nat /\ Len(ring) <= RingSize
      /\ spool \in Spools /\ ~spool.barrier /\ RingSize \in Nat
  BY SpoolAssumption DEF Drain, TypedInv, SpoolTypes, Spools
<1>2. Upto(text) \in 1 .. Len(text) /\ \A j \in 1 .. Upto(text) - 1 : text[j].key # "r"
  <2> HIDE DEF text
  <2> QED BY <1>1, UptoFacts
<1>3. n = IF Upto(text) < RingSize - Len(ring) THEN Upto(text) ELSE RingSize - Len(ring)
  BY DEF Drained, Fits, Fewer
<1>4. spool' = AfterDrain(n) /\ ring' = ring \o SubSeq(text, 1, n)
  BY DEF Drain
<1> HIDE DEF text
<1>5. n \in 1 .. Len(text) /\ n <= Upto(text) /\ Len(ring) + n <= RingSize
  <2>1. n # 0
    OBVIOUS
  <2> QED BY <1>1, <1>2, <1>3, <2>1
<1>6. \A j \in 1 .. n - 1 : text[j].key # "r"
  BY <1>2, <1>5
<1>7. /\ SubSeq(text, 1, n) \in Seq(Chars) /\ Len(SubSeq(text, 1, n)) = n
      /\ \A j \in 1 .. n : SubSeq(text, 1, n)[j] = text[j]
  BY <1>1, <1>5
<1>8. /\ ring' \in Seq(Chars) /\ Len(ring') = Len(ring) + n
      /\ DOMAIN ring' = 1 .. Len(ring) + n
      /\ \A i \in 1 .. Len(ring) : ring'[i] = ring[i]
      /\ \A j \in 1 .. n : ring'[Len(ring) + j] = text[j]
  <2> DEFINE new == SubSeq(text, 1, n)
  <2>1. new \in Seq(Chars) /\ Len(new) = n /\ n \in Nat /\ ring' = ring \o new
    BY <1>4, <1>5, <1>7
  <2> HIDE DEF new
  <2>2. /\ ring' \in Seq(Chars) /\ Len(ring') = Len(ring) + n
        /\ \A i \in 1 .. Len(ring) + n :
             ring'[i] = IF i <= Len(ring) THEN ring[i] ELSE new[i - Len(ring)]
    BY <1>1, <2>1, ConcatProperties
  <2>3. DOMAIN ring' = 1 .. Len(ring) + n
    BY <2>2
  <2>4. ASSUME NEW i \in 1 .. Len(ring) PROVE ring'[i] = ring[i]
    <3>1. i \in 1 .. Len(ring) + n /\ i <= Len(ring)
      BY <1>1, <2>1
    <3> QED BY <2>2, <3>1
  <2>5. ASSUME NEW j \in 1 .. n PROVE ring'[Len(ring) + j] = new[j]
    <3>1. Len(ring) + j \in 1 .. Len(ring) + n /\ ~(Len(ring) + j <= Len(ring))
          /\ (Len(ring) + j) - Len(ring) = j
      BY <1>1, <2>1
    <3> QED BY <2>2, <3>1
  <2> QED BY <1>7, <2>2, <2>3, <2>4, <2>5 DEF new
<1> DEFINE left == SubSeq(text, n + 1, Len(text))
<1>9. /\ left \in Seq(Chars) /\ Len(left) = Len(text) - n /\ DOMAIN left = 1 .. Len(text) - n
      /\ \A j \in 1 .. Len(text) - n : left[j] = text[n + j]
  <2>1. left \in Seq(Chars) /\ Len(left) = Len(text) - n
    BY <1>1, <1>5
  <2>2. \A j \in 1 .. Len(text) - n : left[j] = text[n + j]
    BY <1>1, <1>5
  <2> QED BY <1>1, <1>5, <2>1, <2>2
<1>10. /\ spool'.text = left /\ spool'.barrier = (text[n].key = "r")
       /\ spool'.settle = (IF text[n].key = "r" THEN Settle ELSE spool.settle)
       /\ spool'.active = (~(text[n].key = "r") /\ left # <<>>) /\ spool'.authorized = FALSE
       /\ spool' = [text |-> spool'.text, barrier |-> spool'.barrier, settle |-> spool'.settle,
                    active |-> spool'.active, authorized |-> spool'.authorized]
  BY <1>4 DEF AfterDrain, text
<1> HIDE DEF left
<1>11. spool' \in Spools
  <2>1. spool'.settle \in 0 .. Settle
    BY <1>1, <1>10, SpoolAssumption DEF Spools
  <2>2. spool'.barrier \in BOOLEAN /\ spool'.active \in BOOLEAN /\ spool'.authorized \in BOOLEAN
    BY <1>10
  <2>3. spool'.text \in Seq(Chars)
    BY <1>9, <1>10
  <2> QED BY <1>10, <2>1, <2>2, <2>3 DEF Spools
<1> QED BY <1>1, <1>5, <1>6, <1>8, <1>9, <1>10, <1>11 DEF text

\* What is drained continues what is in the ring, and nothing else follows a
\* Return.
LEMMA DrainKeepsTyped ==
  ASSUME TypedInv, Drain, Counts,
         UNCHANGED <<host, link, call, rsp, calls, seen, foreign>>
  PROVE  TypedInv'
<1>1. CASE Drained = 0
  <2>1. spool' = [spool EXCEPT !.active = TRUE, !.authorized = FALSE] /\ ring' = ring
    BY <1>1 DEF Drain
  <2>2. /\ spool' \in Spools /\ UNCHANGED <<spool.text, spool.barrier, spool.settle>>
        /\ ~spool.barrier
    BY <2>1 DEF TypedInv, SpoolTypes, Spools, Drain
  <2>3. SpoolTypes'
    BY <2>1, <2>2, CountsDown DEF TypedInv, SpoolTypes
  <2>4. InOrder' /\ Promised' /\ (Live' <=> Live)
    BY <2>1, <2>2 DEF TypedInv, InOrder, Promised, Live, Told, Sent, Answered
  <2>5. ASSUME NEW base \in 0 .. Len(Text), Flow(base) PROVE Flow(base)'
    BY <2>1, <2>2, <2>5, CountsDown DEF Flow, Joined, Guarded, Told, Answered, Char
  <2> QED BY <2>3, <2>4, <2>5 DEF TypedInv
<1>2. CASE Drained # 0
  <2>0. PICK n : n = Drained
    OBVIOUS
  <2> DEFINE text == spool.text
  <2>1. /\ ~spool.barrier /\ text \in Seq(Chars)
        /\ n \in 1 .. Len(text) /\ Len(text) \in Nat /\ Len(ring) \in Nat
        /\ \A j \in 1 .. n - 1 : text[j].key # "r"
        /\ spool' \in Spools /\ Len(spool'.text) = Len(text) - n
        /\ DOMAIN spool'.text = 1 .. Len(text) - n
        /\ \A j \in 1 .. Len(text) - n : spool'.text[j] = text[n + j]
        /\ spool'.barrier = (text[n].key = "r")
        /\ text[n].key = "r" => spool'.settle = Settle
        /\ ring' \in Seq(Chars) /\ Len(ring') = Len(ring) + n /\ Len(ring') <= RingSize
        /\ DOMAIN ring' = 1 .. Len(ring) + n
        /\ \A i \in 1 .. Len(ring) : ring'[i] = ring[i]
        /\ \A j \in 1 .. n : ring'[Len(ring) + j] = text[j]
    BY <1>2, <2>0, DrainShape
  <2>2. /\ text # <<>> /\ DOMAIN text = 1 .. Len(text) /\ DOMAIN ring = 1 .. Len(ring)
        /\ Live /\ calls >= 1 /\ calls \in Calls /\ calls # 0 /\ seen[calls] \in Nat
        /\ Len(text) <= SpoolSize
    <3>1. ring \in Seq(Chars) /\ text # <<>> /\ calls \in 0 .. MaxCalls /\ Len(text) <= SpoolSize
          /\ seen \in [Calls -> 0 .. Torn]
      BY <2>1 DEF TypedInv, SpoolTypes
    <3>2. Live
      BY <3>1 DEF Live
    <3>3. calls >= 1 /\ calls \in Calls
      BY <3>1, <3>2, SpoolAssumption DEF TypedInv, Calls
    <3>4. seen[calls] \in Nat
      BY <3>1, <3>3, CharFacts
    <3> QED BY <2>1, <3>1, <3>2, <3>3, <3>4
  <2>3. PICK base \in 0 .. Len(Text) : Flow(base)
    BY <2>2 DEF TypedInv
  <2>4. /\ base \in Nat /\ base + Len(text) <= Len(Text) /\ Len(Text) \in Nat
        /\ base + n \in 0 .. Len(Text)
    BY <2>1, <2>3, CharFacts DEF Flow
  <2>5. \A j \in 1 .. Len(text) : text[j] = Char(calls, base + j) /\ text[j].call = calls
                                  /\ text[j].at = base + j
    BY <2>2, <2>3, CharFacts DEF Flow
  <2> HIDE DEF text
  <2>6. \A i \in DOMAIN ring' : \/ i \in 1 .. Len(ring)
                                \/ i - Len(ring) \in 1 .. n /\ i = Len(ring) + (i - Len(ring))
    BY <2>1
  <2>7. \A j \in 1 .. n : /\ ring'[Len(ring) + j] = Char(calls, base + j)
                          /\ ring'[Len(ring) + j].call = calls /\ ring'[Len(ring) + j].at = base + j
    <3> TAKE j \in 1 .. n
    <3>1. j \in 1 .. Len(text)
      BY <2>1
    <3>2. text[j] = Char(calls, base + j) /\ text[j].call = calls /\ text[j].at = base + j
      BY <2>5, <3>1
    <3>3. ring'[Len(ring) + j] = text[j]
      BY <2>1 DEF text
    <3> QED BY <3>2, <3>3
  <2>8. ASSUME calls \notin foreign
        PROVE  /\ Joined(base) /\ program = None
               /\ \A i \in 1 .. Len(ring) : ring[i].key # "r"
               /\ \A i \in 1 .. Len(ring) : ring[i].call = calls => ring[i].at <= base
    BY <2>1, <2>2, <2>3, <2>8 DEF Flow, Guarded, Joined
  <2>9. SpoolTypes'
    <3>1. Len(spool'.text) = Len(text) - n /\ n \in 1 .. Len(text) /\ Len(text) \in Nat
          /\ Len(text) <= SpoolSize /\ SpoolSize \in Nat
      BY <2>1, <2>2, SpoolAssumption DEF text
    <3>2. Len(spool'.text) <= SpoolSize
      BY <3>1
    <3> QED BY <2>1, <3>2, CountsDown DEF TypedInv, SpoolTypes
  <2>10. InOrder'
    <3>1. ASSUME NEW i \in DOMAIN ring', ring'[i].call # 0
          PROVE  /\ ring'[i].call <= calls
                 /\ ring'[i].call \notin foreign =>
                      /\ seen[ring'[i].call] < ring'[i].at
                      /\ \/ ring'[i].at = seen[ring'[i].call] + 1
                         \/ \E j \in 1 .. i - 1 : ring'[j] = Char(ring'[i].call, ring'[i].at - 1)
                      /\ \A j \in 1 .. i - 1 : ring'[j].call = ring'[i].call => ring'[j].at < ring'[i].at
      <4>1. CASE i \in 1 .. Len(ring)
        <5>0. \A j \in 1 .. i - 1 : j \in 1 .. Len(ring)
          BY <2>1, <4>1
        <5>1. ring'[i] = ring[i] /\ \A j \in 1 .. i - 1 : ring'[j] = ring[j]
          BY <2>1, <4>1, <5>0
        <5> QED BY <2>2, <3>1, <4>1, <5>1 DEF TypedInv, InOrder
      <4>2. CASE i \notin 1 .. Len(ring)
        <5>1. PICK k \in 1 .. n : i = Len(ring) + k
          BY <2>6, <4>2
        <5>2. ring'[i].call = calls /\ ring'[i].at = base + k /\ calls <= calls
          <6>1. calls \in Nat
            BY <2>2, SpoolAssumption DEF Calls
          <6> QED BY <2>7, <5>1, <6>1
        <5>3. ASSUME calls \notin foreign
              PROVE  /\ seen[calls] < base + k
                     /\ base + k = seen[calls] + 1
                          \/ \E j \in 1 .. i - 1 : ring'[j] = Char(calls, base + k - 1)
                     /\ \A j \in 1 .. i - 1 : ring'[j].call = calls => ring'[j].at < base + k
          <6>1. /\ Joined(base) /\ seen[calls] <= base
                /\ \A j \in 1 .. Len(ring) : ring[j].call = calls => ring[j].at <= base
            BY <2>8, <5>3 DEF Joined
          <6>2. k \in Nat \ {0} /\ n \in Nat /\ k <= n
            BY <2>1, <5>1
          <6>3. seen[calls] < base + k
            BY <2>2, <2>4, <6>1, <6>2
          <6>4. ASSUME k = 1
                PROVE  base + k = seen[calls] + 1
                         \/ \E j \in 1 .. i - 1 : ring'[j] = Char(calls, base + k - 1)
            <7>1. base + k = base + 1 /\ base + k - 1 = base
              BY <2>4, <6>4
            <7>2. CASE seen[calls] = base
              BY <7>1, <7>2
            <7>3. CASE seen[calls] # base
              <8>1. seen[calls] < base
                BY <2>2, <2>4, <6>1, <7>3
              <8>2. PICK j \in 1 .. Len(ring) : ring[j] = Char(calls, base)
                BY <2>2, <6>1, <8>1 DEF Joined
              <8>3. j \in 1 .. i - 1 /\ ring'[j] = ring[j]
                BY <2>1, <5>1, <6>4
              <8> QED BY <7>1, <8>2, <8>3
            <7> QED BY <7>2, <7>3
          <6>5. ASSUME k # 1
                PROVE  \E j \in 1 .. i - 1 : ring'[j] = Char(calls, base + k - 1)
            <7>1. k - 1 \in 1 .. n /\ Len(ring) + (k - 1) \in 1 .. i - 1
                  /\ base + (k - 1) = base + k - 1
              BY <2>1, <2>4, <5>1, <6>2, <6>5
            <7> QED BY <2>7, <7>1
          <6>6. ASSUME NEW j \in 1 .. i - 1, ring'[j].call = calls PROVE ring'[j].at < base + k
            <7>1. CASE j \in 1 .. Len(ring)
              <8>1. ring'[j] = ring[j] /\ j \in 1 .. Len(ring)
                BY <2>1, <7>1
              <8>2. ring[j].at <= base /\ ring[j] \in Chars /\ ring[j].call # 0
                BY <2>2, <6>1, <6>6, <8>1 DEF TypedInv, SpoolTypes
              <8>3. ring[j].at \in Nat
                BY <8>2, CharFacts
              <8> QED BY <2>4, <6>2, <8>1, <8>2, <8>3
            <7>2. CASE j \notin 1 .. Len(ring)
              <8>0. j \in DOMAIN ring'
                BY <2>1, <5>1, <6>2
              <8>1. PICK l \in 1 .. n : j = Len(ring) + l
                BY <2>6, <7>2, <8>0
              <8>2. l < k
                BY <2>1, <5>1, <6>2, <8>1
              <8> QED BY <2>4, <2>7, <6>2, <8>1, <8>2
            <7> QED BY <7>1, <7>2
          <6> QED BY <6>3, <6>4, <6>5, <6>6
        <5> QED BY <5>2, <5>3
      <4> QED BY <4>1, <4>2
    <3> QED BY <3>1 DEF InOrder, Char
  <2>11. Promised'
    <3>1. UNCHANGED <<Sent, Answered, Told>>
      BY DEF Sent, Answered, Told
    <3>2. Live /\ spool'.text # <<>> => Live'
      BY DEF Live
    <3>3. host.pc = "typing" /\ Answered => rsp.pending # 0
      BY <2>2 DEF TypedInv, Promised, text
    <3>4. ~(link = "up" /\ host.pc \in {"idle", "pressing"})
      BY <2>2 DEF TypedInv, Promised, text
    <3>5. link = "up" /\ host.pc = "cancelling" => Sent
      BY <2>2 DEF TypedInv, Promised, text
    <3>6. ~(host.result = "cancelled" \/ (host.pc = "cancelling" /\ Answered))
      BY <2>2 DEF TypedInv, Promised
    <3> QED BY <3>1, <3>3, <3>4, <3>5, <3>6 DEF TypedInv, Promised
  <2>12. Flow(base + n)'
    <3>1. (base + n) + Len(spool'.text) = base + Len(text) /\ n \in Nat
      BY <2>1, <2>4
    <3>2. \A j \in 1 .. Len(text) - n : spool'.text[j] = Char(calls, (base + n) + j)
      <4> TAKE j \in 1 .. Len(text) - n
      <4>1. n + j \in 1 .. Len(text) /\ base + (n + j) = (base + n) + j
        BY <2>1, <2>4
      <4>2. spool'.text[j] = text[n + j]
        BY <2>1
      <4> QED BY <2>5, <4>1, <4>2
    <3>3. ASSUME calls \notin foreign PROVE (Joined(base + n) /\ Guarded(base + n))'
      <4>1. /\ Joined(base) /\ program = None
            /\ \A i \in 1 .. Len(ring) : ring[i].key # "r"
            /\ \A i \in 1 .. Len(ring) : ring[i].call = calls => ring[i].at <= base
        BY <2>8, <3>3
      <4>2. Joined(base + n)'
        <5>1. seen[calls] <= base + n
          BY <2>2, <2>4, <3>1, <4>1 DEF Joined
        <5>2. ASSUME NEW i \in DOMAIN ring', ring'[i].call = calls PROVE ring'[i].at <= base + n
          <6>1. CASE i \in 1 .. Len(ring)
            <7>1. ring'[i] = ring[i] /\ ring[i].at <= base /\ ring[i] \in Chars /\ ring[i].call # 0
              BY <2>1, <2>2, <4>1, <5>2, <6>1 DEF TypedInv, SpoolTypes
            <7>2. ring[i].at \in Nat
              BY <7>1, CharFacts
            <7> QED BY <2>4, <3>1, <7>1, <7>2
          <6>2. CASE i \notin 1 .. Len(ring)
            <7>1. PICK k \in 1 .. n : i = Len(ring) + k
              BY <2>6, <6>2
            <7> QED BY <2>4, <2>7, <3>1, <7>1
          <6> QED BY <6>1, <6>2
        <5>3. ring'[Len(ring) + n] = Char(calls, base + n) /\ Len(ring) + n \in DOMAIN ring'
          BY <2>1, <2>7
        <5> QED BY <5>1, <5>2, <5>3 DEF Joined, Char
      <4>3. Guarded(base + n)'
        <5>1. program' = None
          BY <4>1 DEF Counts
        <5>2. ASSUME NEW i \in DOMAIN ring', ring'[i].key = "r"
              PROVE  spool'.barrier /\ spool'.settle = Settle /\ ring'[i] = Char(calls, base + n)
          <6>1. PICK k \in 1 .. n : i = Len(ring) + k
            <7>1. i \notin 1 .. Len(ring)
              BY <2>1, <4>1, <5>2
            <7> QED BY <2>6, <7>1
          <6>2. ring'[i] = text[k]
            BY <2>1, <6>1
          <6>3. k = n
            <7>1. k \notin 1 .. n - 1
              BY <2>1, <5>2, <6>2
            <7> QED BY <3>1, <6>1, <7>1
          <6> QED BY <2>1, <2>7, <5>2, <6>1, <6>2, <6>3
        <5> QED BY <5>1, <5>2 DEF Guarded, Char
      <4> QED BY <4>2, <4>3
    <3>4. UNCHANGED <<Answered, Told>>
      BY DEF Answered, Told
    <3>5. /\ base + Len(text) <= Len(Text)
          /\ call.op = "T" =>
               /\ call.of = calls /\ call.from = base + Len(text)
               /\ call.n \in 0 .. Len(Text) - call.from
          /\ link = "up" /\ host.pc = "typing" => Told = base + Len(text)
      BY <2>3 DEF Flow, text
    <3>6. DOMAIN spool'.text = 1 .. Len(text) - n
      BY <2>1
    <3> QED BY <3>1, <3>2, <3>3, <3>4, <3>5, <3>6 DEF Flow, Char
  <2>13. Live' => calls' >= 1 /\ \E b \in 0 .. Len(Text) : Flow(b)'
    BY <2>2, <2>4, <2>12
  <2> QED BY <2>9, <2>10, <2>11, <2>13 DEF TypedInv
<1> QED BY <1>1, <1>2

LEMMA TickKeepsTyped ==
  ASSUME TypedInv, Tick
  PROVE  TypedInv'
<1>1. Counts /\ UNCHANGED <<host, link, call, rsp, calls, seen, foreign>>
  BY DEF Tick, Counts, pipe
<1>2. CASE Drain
  BY <1>1, <1>2, DrainKeepsTyped
<1>3. CASE SettleTick \/ RestTick
  <2>0. spool \in Spools
    BY DEF TypedInv, SpoolTypes
  <2>1. ring' = ring /\ spool'.text = spool.text /\ spool' \in Spools
    <3>1. CASE RestTick
      BY <2>0, <3>1 DEF RestTick
    <3>2. CASE SettleTick /\ spool.settle = 0
      BY <2>0, <3>2 DEF SettleTick, Spools
    <3>3. CASE SettleTick /\ spool.settle # 0
      <4>1. spool' = [spool EXCEPT !.settle = @ - 1] /\ ring' = ring
        BY <3>3 DEF SettleTick
      <4>2. spool.settle - 1 \in 0 .. Settle
        BY <2>0, <3>3, SpoolAssumption DEF Spools
      <4> QED BY <2>0, <4>1, <4>2 DEF Spools
    <3> QED BY <1>3, <3>1, <3>2, <3>3
  <2>2. SpoolTypes'
    BY <1>1, <2>1, CountsDown DEF TypedInv, SpoolTypes
  <2>3. InOrder' /\ Promised' /\ (Live' <=> Live)
    BY <1>1, <2>1 DEF TypedInv, InOrder, Promised, Live, Told, Sent, Answered
  <2>4. ASSUME NEW base \in 0 .. Len(Text), Flow(base) PROVE Flow(base)'
    <3>1. ASSUME calls \notin foreign PROVE (Joined(base) /\ Guarded(base))'
      <4>1. Joined(base)'
        BY <1>1, <2>1, <2>4, <3>1 DEF Flow, Joined, Char
      <4>2. Guarded(base) /\ spool.settle \in Nat
        BY <2>4, <3>1, SpoolAssumption DEF Flow, TypedInv, SpoolTypes, Spools
      <4>3. CASE RestTick
        <5>1. spool' = spool
          BY <4>3 DEF RestTick
        <5> QED BY <1>1, <2>1, <4>1, <4>2, <5>1, CountsDown DEF Guarded, Char
      <4>4. CASE SettleTick
        <5>1. spool.barrier /\ ring = <<>> /\ DOMAIN ring' = {}
          BY <2>1, <4>4 DEF SettleTick
        <5>2. ASSUME program' # None
              PROVE  spool'.barrier /\ spool'.settle >= program' /\ seen[calls] = base
          <6>1. /\ program' = program - 1 /\ program \in 1 .. Settle
                /\ spool.settle >= program /\ seen[calls] = base
            BY <1>1, <4>2, <5>2, CountsDown DEF Guarded
          <6>2. spool' = [spool EXCEPT !.settle = @ - 1] /\ spool.settle # 0
            BY <4>2, <4>4, <6>1, SpoolAssumption DEF SettleTick
          <6>3. spool'.barrier = spool.barrier /\ spool'.settle = spool.settle - 1
            BY <6>2 DEF TypedInv, SpoolTypes, Spools
          <6> QED BY <4>2, <5>1, <6>1, <6>3, SpoolAssumption
        <5> QED BY <1>1, <4>1, <5>1, <5>2 DEF Guarded
      <4> QED BY <1>3, <4>3, <4>4
    <3> QED BY <1>1, <2>1, <2>4, <3>1 DEF Flow, Told, Answered, Char
  <2> QED BY <1>1, <2>2, <2>3, <2>4 DEF TypedInv
<1> QED BY <1>2, <1>3 DEF Tick

----------------------------------------------------------------------------
\* The resident's requests.

\* What the spool takes of a request continues what it holds.
LEMMA ServeSpoolKeepsTyped ==
  ASSUME LineInv, TypedInv, ServeSpool
  PROVE  TypedInv'
<1>1. PICK n : n = Fewer(call.n, SpoolSize - Len(spool.text))
  OBVIOUS
<1> DEFINE new == [i \in 1 .. n |-> Char(call.of, call.from + i)]
           text == spool.text \o new
           pumped == call.pump /\ ~spool.barrier /\ ~spool.active /\ text # <<>>
<1>2. /\ call.op = "T" /\ call' = Nothing /\ ring' = ring
      /\ spool' = [spool EXCEPT !.text = text, !.authorized = @ \/ pumped]
      /\ Answers(Reply(n))
      /\ UNCHANGED <<host, link, program, calls, seen, foreign>>
  BY <1>1 DEF ServeSpool, Takes, history
<1>3. Live /\ Sent /\ ~Answered /\ calls >= 1
  <2>1. Live /\ Sent
    BY <1>2 DEF Live, Sent
  <2> QED BY <2>1 DEF TypedInv, Promised
<1>4. PICK base \in 0 .. Len(Text) : Flow(base)
  BY <1>3 DEF TypedInv
<1>5. /\ call.of = calls /\ call.from = base + Len(spool.text)
      /\ call.n \in 0 .. Len(Text) - call.from
      /\ spool.text \in Seq(Chars) /\ Len(spool.text) \in Nat /\ Len(spool.text) <= SpoolSize
      /\ base \in Nat /\ base + Len(spool.text) <= Len(Text) /\ Len(Text) \in Nat
      /\ calls \in Calls /\ SpoolSize \in Nat /\ Len(ring) \in Nat /\ ring \in Seq(Chars)
      /\ DOMAIN spool.text = 1 .. Len(spool.text)
  <2>1. calls \in Calls
    BY <1>3, SpoolAssumption DEF TypedInv, SpoolTypes, Calls
  <2>2. /\ call.of = calls /\ call.from = base + Len(spool.text)
        /\ call.n \in 0 .. Len(Text) - call.from /\ base + Len(spool.text) <= Len(Text)
    BY <1>2, <1>4 DEF Flow
  <2>3. spool.text \in Seq(Chars) /\ ring \in Seq(Chars) /\ Len(spool.text) <= SpoolSize
    BY DEF TypedInv, SpoolTypes, Spools
  <2>4. Len(spool.text) \in Nat /\ DOMAIN spool.text = 1 .. Len(spool.text) /\ Len(ring) \in Nat
    BY <2>3
  <2>5. base \in Nat /\ Len(Text) \in Nat /\ SpoolSize \in Nat
    BY CharFacts, SpoolAssumption
  <2> QED BY <2>1, <2>2, <2>3, <2>4, <2>5
<1>6. /\ n \in Nat /\ n <= SpoolSize - Len(spool.text)
      /\ base + Len(spool.text) + n <= Len(Text)
  <2>1. call.n \in Nat /\ base + Len(spool.text) + call.n <= Len(Text)
    <3>1. call.n \in 0 .. Len(Text) - (base + Len(spool.text))
      BY <1>5
    <3>2. \A m \in 0 .. Len(Text) - (base + Len(spool.text)) :
            m \in Nat /\ base + Len(spool.text) + m <= Len(Text)
      BY <1>5
    <3> QED BY <3>1, <3>2
  <2>2. n = IF call.n < SpoolSize - Len(spool.text) THEN call.n ELSE SpoolSize - Len(spool.text)
    BY <1>1 DEF Fewer
  <2> QED BY <1>5, <2>1, <2>2
<1>7. /\ new \in Seq(Chars) /\ Len(new) = n /\ DOMAIN new = 1 .. n
      /\ \A i \in 1 .. n : new[i] = Char(calls, base + Len(spool.text) + i)
  <2>1. \A i \in 1 .. n : Char(call.of, call.from + i) \in Chars
    <3>1. \A i \in 1 .. n : base + Len(spool.text) + i \in 1 .. Len(Text)
      BY <1>5, <1>6
    <3> QED BY <1>5, <3>1, CharFacts
  <2>2. new \in [1 .. n -> Chars]
    BY <2>1
  <2>3. new \in Seq(Chars) /\ Len(new) = n /\ DOMAIN new = 1 .. n
    BY <1>6, <2>2
  <2> QED BY <1>5, <2>3
<1> HIDE DEF new
<1>8. /\ text \in Seq(Chars) /\ Len(text) = Len(spool.text) + n
      /\ DOMAIN text = 1 .. Len(spool.text) + n
      /\ \A i \in 1 .. Len(spool.text) + n : text[i] = Char(calls, base + i)
  <2>1. /\ text \in Seq(Chars) /\ Len(text) = Len(spool.text) + n
        /\ \A i \in 1 .. Len(spool.text) + n :
             text[i] = IF i <= Len(spool.text) THEN spool.text[i] ELSE new[i - Len(spool.text)]
    <3>1. /\ text \in Seq(Chars) /\ Len(text) = Len(spool.text) + Len(new)
          /\ \A i \in 1 .. Len(spool.text) + Len(new) :
               text[i] = IF i <= Len(spool.text) THEN spool.text[i] ELSE new[i - Len(spool.text)]
      <4>1. spool.text \in Seq(Chars) /\ new \in Seq(Chars)
        BY <1>5, <1>7
      <4> QED BY <4>1, ConcatProperties
    <3>2. Len(new) = n
      BY <1>7
    <3> HIDE DEF text
    <3> QED BY <3>1, <3>2
  <2>2. ASSUME NEW i \in 1 .. Len(spool.text) + n PROVE text[i] = Char(calls, base + i)
    <3>1. CASE i <= Len(spool.text)
      <4>1. i \in DOMAIN spool.text
        BY <1>5, <3>1
      <4> QED BY <1>4, <2>1, <3>1, <4>1 DEF Flow
    <3>2. CASE ~(i <= Len(spool.text))
      <4>1. /\ i - Len(spool.text) \in 1 .. n
            /\ base + Len(spool.text) + (i - Len(spool.text)) = base + i
        <5> HIDE DEF text
        <5>1. Len(spool.text) \in Nat /\ n \in Nat /\ base \in Nat /\ i \in Nat
              /\ i <= Len(spool.text) + n
          BY <1>5, <1>6
        <5>2. \A l, m, k \in Nat : ~(k <= l) /\ k <= l + m => k - l \in 1 .. m
          OBVIOUS
        <5>3. \A b, l, k \in Nat : b + l + (k - l) = b + k
          OBVIOUS
        <5>4. i - Len(spool.text) \in 1 .. n
          BY <3>2, <5>1, <5>2
        <5> QED BY <5>1, <5>3, <5>4
      <4> QED BY <1>7, <2>1, <3>2, <4>1
    <3> QED BY <3>1, <3>2
  <2>3. DOMAIN text = 1 .. Len(spool.text) + n
    BY <2>1
  <2> HIDE DEF text
  <2> QED BY <2>1, <2>2, <2>3
<1> HIDE DEF text
<1>9. /\ spool' \in Spools /\ spool'.text = text /\ spool'.barrier = spool.barrier
      /\ spool'.settle = spool.settle
  <2>1. (spool.authorized \/ pumped) \in BOOLEAN
    OBVIOUS
  <2> HIDE DEF pumped
  <2> QED BY <1>2, <1>8, <2>1 DEF TypedInv, SpoolTypes, Spools
<1> HIDE DEF pumped
<1>10. Len(spool'.text) = Len(spool.text) + n /\ Len(spool'.text) <= SpoolSize
  BY <1>5, <1>6, <1>8, <1>9
<1>11. SpoolTypes'
  BY <1>2, <1>9, <1>10 DEF TypedInv, SpoolTypes
<1>12. InOrder'
  BY <1>2 DEF TypedInv, InOrder, Char
<1>13. Joined(base)' = Joined(base) /\ Guarded(base)' = Guarded(base)
  BY <1>2, <1>9 DEF Joined, Guarded, Char
<1>14. ~Sent' /\ call'.op # "T"
  BY <1>2 DEF Sent, Nothing
<1>15. ASSUME link = "up"
       PROVE  /\ host.pc = "typing" /\ Answered' /\ rsp' = Reply(n)
              /\ Told = base + Len(spool.text) /\ Told = host.offset
              /\ Told' = base + Len(text)
  <2>1. host.pc = "typing"
    BY <1>2, <1>3, <1>15 DEF LineInv, Known
  <2>2. rsp' = Reply(n) /\ rsp'.op = "T" /\ rsp'.accepted = n
    BY <1>2, <1>15 DEF Answers, Reply
  <2>3. Told = base + Len(spool.text) /\ Told = host.offset
    BY <1>3, <1>4, <1>15, <2>1 DEF Flow, Told
  <2>4. Answered'
    BY <2>2 DEF Answered
  <2>5. Told' = host.offset + n
    BY <1>2, <2>2, <2>4 DEF Told
  <2>6. host.offset \in Nat
    BY CharFacts DEF TypedInv, SpoolTypes, Hosts
  <2> QED BY <1>5, <1>6, <1>8, <2>1, <2>2, <2>3, <2>4, <2>5, <2>6
<1>16. link # "up" => ~Answered'
  BY <1>2 DEF Answers, Nothing, Answered
<1>17. Flow(base)'
  <2>1. base + Len(spool'.text) <= Len(Text)
    BY <1>5, <1>6, <1>10
  <2>2. \A j \in DOMAIN spool'.text : spool'.text[j] = Char(calls, base + j)
    BY <1>8, <1>9
  <2>3. link' = "up" /\ host'.pc = "typing" => Told' = base + Len(spool'.text)
    BY <1>2, <1>9, <1>15
  <2>4. calls \notin foreign => Joined(base) /\ Guarded(base)
    BY <1>4 DEF Flow
  <2> QED BY <1>2, <1>13, <1>14, <2>1, <2>2, <2>3, <2>4 DEF Flow, Char
<1>18. Promised'
  <2>1. ASSUME link = "up", host.pc = "typing"
        PROVE  /\ rsp'.accepted \in Nat /\ rsp'.credits \in 0 .. SpoolSize /\ rsp'.pending \in Nat
               /\ {rsp'.barrier, rsp'.active, rsp'.authorized} \subseteq BOOLEAN
               /\ Told' <= Len(Text)
               /\ rsp'.pending = 0 => spool'.text = <<>>
               /\ rsp'.pending = 0 /\ Told' = Len(Text) /\ calls \notin foreign =>
                    seen[calls] = Len(Text)
    <3>1. /\ rsp'.accepted = n /\ rsp'.pending = Len(spool'.text) + Len(ring')
          /\ rsp'.credits = SpoolSize - Len(spool'.text)
          /\ rsp'.barrier = spool'.barrier /\ rsp'.active = spool'.active
          /\ rsp'.authorized = spool'.authorized
      BY <1>15, <2>1 DEF Reply
    <3>2. rsp'.accepted \in Nat /\ rsp'.credits \in 0 .. SpoolSize /\ rsp'.pending \in Nat
      <4>1. Len(spool'.text) \in Nat /\ Len(ring') \in Nat /\ n \in Nat /\ SpoolSize \in Nat
            /\ Len(spool'.text) <= SpoolSize
        BY <1>2, <1>5, <1>6, <1>10
      <4> QED BY <3>1, <4>1
    <3>3. {rsp'.barrier, rsp'.active, rsp'.authorized} \subseteq BOOLEAN
      BY <1>9, <3>1 DEF Spools
    <3>4. Told' <= Len(Text)
      BY <1>5, <1>6, <1>8, <1>15, <2>1
    <3>5. ASSUME rsp'.pending = 0 PROVE Len(spool'.text) = 0 /\ spool'.text = <<>> /\ Len(ring) = 0
      <4>1. Len(spool'.text) = 0 /\ Len(ring) = 0
        BY <1>2, <1>5, <1>6, <1>10, <3>1, <3>5
      <4> QED BY <1>8, <1>9, <4>1
    <3>6. ASSUME rsp'.pending = 0, Told' = Len(Text), calls \notin foreign
          PROVE  seen[calls] = Len(Text)
      <4>1. base = Len(Text)
        BY <1>5, <1>9, <1>15, <2>1, <3>5, <3>6
      <4>2. Joined(base) /\ DOMAIN ring = {}
        BY <1>4, <1>5, <3>5, <3>6 DEF Flow
      <4>3. ~(seen[calls] < base) /\ seen[calls] <= base /\ seen[calls] \in Nat
        <5>1. seen[calls] \in 0 .. Torn /\ Torn \in Nat
          BY <1>5, CharFacts DEF TypedInv, SpoolTypes
        <5> QED BY <4>2, <5>1 DEF Joined
      <4> QED BY <1>5, <4>1, <4>3
    <3> QED BY <3>2, <3>3, <3>4, <3>5, <3>6
  <2>2. host.result # "cancelled" /\ (host.result = "ok" => host.pc = "idle")
    BY <1>3 DEF TypedInv, Promised
  <2>3. Answered' => host.pc = "typing" /\ link = "up"
    BY <1>15, <1>16
  <2>4. Promised
    BY DEF TypedInv
  <2>5. ~(link = "up" /\ host.pc \in {"idle", "pressing", "cancelling"})
    BY <1>15
  <2> QED BY <1>2, <1>14, <2>1, <2>2, <2>3, <2>4, <2>5 DEF Promised
<1> QED BY <1>2, <1>3, <1>11, <1>12, <1>17, <1>18 DEF TypedInv

LEMMA ServeCancelKeepsTyped ==
  ASSUME LineInv, TypedInv, ServeCancel
  PROVE  TypedInv'
<1>1. /\ call.op = "C" /\ call' = Nothing /\ spool' = Empty /\ ring' = <<>>
      /\ Answers(Reply(0))
      /\ UNCHANGED <<host, link, program, calls, seen, foreign>>
  BY DEF ServeCancel, Takes, history
<1>2. Sent /\ ~Answered
  BY <1>1 DEF Sent, TypedInv, Promised
<1>3. link = "up" => host.pc = "cancelling"
  BY <1>1, <1>2 DEF LineInv, Known
<1>4. spool'.text = <<>> /\ call'.op # "T" /\ ~Sent' /\ DOMAIN ring' = {}
  BY <1>1 DEF Empty, Nothing, Sent
<1>5. ~Live'
  BY <1>1, <1>3, <1>4 DEF Live
<1>6. link # "up" => ~Answered'
  BY <1>1 DEF Answers, Nothing, Answered
<1>7. SpoolTypes'
  <2>1. spool' \in Spools /\ Len(spool'.text) <= SpoolSize
    BY <1>1, SpoolAssumption DEF Empty, Spools
  <2>2. ring' \in Seq(Chars) /\ Len(ring') <= RingSize
    BY <1>1, SpoolAssumption
  <2> QED BY <1>1, <2>1, <2>2 DEF TypedInv, SpoolTypes
<1>8. InOrder'
  BY <1>4 DEF InOrder
<1>9. Promised'
  <2>1. Answered' => host.pc = "cancelling"
    BY <1>3, <1>6
  <2> QED BY <1>1, <1>3, <1>4, <1>5, <2>1 DEF TypedInv, Promised
<1> QED BY <1>5, <1>7, <1>8, <1>9 DEF TypedInv

LEMMA ServeKeyKeepsTyped ==
  ASSUME LineInv, TypedInv, ServeKey
  PROVE  TypedInv'
<1>1. /\ call.op = "t" /\ call' = Nothing
      /\ UNCHANGED <<host, link, spool, program, calls, seen, foreign>>
      /\ \/ ring' = ring
         \/ ring' = Append(ring, Key("r")) /\ Len(ring) < RingSize /\ ~SpoolBusy
      /\ link # "up" => rsp' = Nothing
  BY DEF ServeKey, Takes, history, Answers
<1>2. Sent /\ ~Answered
  BY <1>1 DEF Sent, TypedInv, Promised
<1>3. link = "up" => host.pc = "pressing"
  BY <1>1, <1>2 DEF LineInv, Known
<1>4. call'.op # "T" /\ ~Sent' /\ (link # "up" => ~Answered')
  BY <1>1 DEF Nothing, Sent, Answered
<1>5. Key("r") \in Chars /\ Key("r").call = 0
  BY CharFacts
<1>6. ring' = Append(ring, Key("r")) =>
        /\ InOrder' /\ ring' \in Seq(Chars) /\ Len(ring') = Len(ring) + 1
        /\ DOMAIN ring' = 1 .. Len(ring) + 1 /\ ring'[Len(ring) + 1] = Key("r")
        /\ \A i \in DOMAIN ring : i \in DOMAIN ring' /\ ring'[i] = ring[i]
  BY <1>1, <1>5, KeyKeepsOrder
<1>7. InOrder'
  BY <1>1, <1>6 DEF TypedInv, InOrder, Char
<1>8. SpoolTypes'
  BY <1>1, <1>6, SpoolAssumption DEF TypedInv, SpoolTypes
<1>9. \A i \in DOMAIN ring' :
        ring'[i].call = 0 \/ (i \in DOMAIN ring /\ ring'[i] = ring[i])
  BY <1>1, <1>5, <1>6 DEF TypedInv, SpoolTypes
<1>10. Live' => Live
  BY <1>1, <1>4 DEF Live
<1>11. Promised'
  <2>1. Answered' => host.pc = "pressing"
    BY <1>3, <1>4
  <2>2. host.result = "cancelled" => calls # 0
    <3>1. calls \in Nat
      BY SpoolAssumption DEF TypedInv, SpoolTypes
    <3> QED BY <3>1 DEF TypedInv, Promised
  <2> QED BY <1>1, <1>3, <1>4, <1>9, <1>10, <2>1, <2>2 DEF TypedInv, Promised
<1>12. ASSUME NEW base \in 0 .. Len(Text), Live', Flow(base) PROVE Flow(base)'
  <2>1. spool.text # <<>> /\ ring' = ring
    BY <1>1, <1>3, <1>4, <1>12 DEF Live, SpoolBusy
  <2> QED BY <1>1, <1>3, <1>4, <1>12, <2>1 DEF Flow, Joined, Guarded, Char
<1> QED BY <1>1, <1>7, <1>8, <1>10, <1>11, <1>12 DEF TypedInv

LEMMA ServeKeepsTyped ==
  ASSUME LineInv, TypedInv, Serve
  PROVE  TypedInv'
BY ServeSpoolKeepsTyped, ServeCancelKeepsTyped, ServeKeyKeepsTyped DEF Serve

LEMMA LostKeepsTyped ==
  ASSUME LineInv, TypedInv, SessionLost \/ Attach
  PROVE  TypedInv'
<1>1. /\ call' = Nothing /\ spool' = Empty
      /\ rsp' = rsp \/ rsp' = Nothing
      /\ UNCHANGED <<host, ring, program, calls, seen, foreign>>
      /\ link' # "up" \/ host.pc = "idle"
      /\ link' \in {"up", "quarantined", "down"}
  BY DEF SessionLost, Attach, history, TypedInv, SpoolTypes
<1>2. /\ spool'.text = <<>> /\ call'.op # "T" /\ ~Sent'
      /\ Answered' => Answered /\ rsp' = rsp
  BY <1>1 DEF Empty, Nothing, Sent, Answered
<1>3. ~Live'
  BY <1>1, <1>2 DEF Live
<1>4. SpoolTypes'
  <2>1. spool' \in Spools /\ Len(spool'.text) <= SpoolSize
    BY <1>1, SpoolAssumption DEF Empty, Spools
  <2> QED BY <1>1, <2>1 DEF TypedInv, SpoolTypes
<1>5. InOrder'
  BY <1>1 DEF TypedInv, InOrder, Char
<1>6. Answered' => Told' = Told
  BY <1>1, <1>2 DEF Told
<1>7. Promised'
  BY <1>1, <1>2, <1>3, <1>6 DEF TypedInv, Promised
<1> QED BY <1>3, <1>4, <1>5, <1>7 DEF TypedInv

----------------------------------------------------------------------------
\* The host.

\* A call begins behind whatever is in the ring, unless a Return is there that
\* it does not wait for.
LEMMA BeginsKeepsTyped ==
  ASSUME LineInv, TypedInv, Type \/ Press
  PROVE  TypedInv'
<1>1. /\ host.pc = "idle" /\ link = "up" /\ calls < MaxCalls /\ calls' = calls + 1
      /\ host' = [Rest EXCEPT !.pc = IF Type THEN "typing" ELSE "pressing"]
      /\ UNCHANGED <<link, rsp, spool, ring, program, seen>>
  BY DEF Type, Press, Begins
<1>2. /\ ~Sent /\ ~Answered /\ spool.text = <<>> /\ call'.op # "T"
      /\ Sent' => call'.op = "t"
  BY <1>1 DEF LineInv, Known, TypedInv, Promised, Type, Press, Sent
<1>3. /\ calls \in 0 .. MaxCalls /\ MaxCalls \in Nat /\ foreign \subseteq 1 .. calls
      /\ seen \in [Calls -> 0 .. Torn] /\ ring \in Seq(Chars)
      /\ \A c \in Calls : c > calls => seen[c] = 0
      /\ \A c \in Calls : c \notin foreign => seen[c] <= Len(Text)
  BY SpoolAssumption DEF TypedInv, SpoolTypes
<1>4. /\ calls + 1 \in Calls /\ calls + 1 \in 0 .. MaxCalls /\ calls + 1 >= 1
      /\ calls + 1 # calls /\ calls + 1 # 0
      /\ seen[calls + 1] = 0
      /\ foreign' \in {foreign, foreign \cup {calls + 1}} /\ foreign' \subseteq 1 .. calls + 1
  <2>1. calls + 1 \in Calls /\ calls + 1 \in 0 .. MaxCalls /\ calls + 1 >= 1 /\ calls + 1 > calls
        /\ calls + 1 # 0 /\ calls + 1 # calls
    BY <1>1, <1>3 DEF Calls
  <2>2. foreign' \in {foreign, foreign \cup {calls + 1}}
    BY DEF Type, Press
  <2> QED BY <1>3, <2>1, <2>2
<1>5. /\ host' \in Hosts /\ host'.pc \in {"typing", "pressing"} /\ host'.result = "none"
      /\ host'.offset = 0 /\ (host'.pc = "typing" => Type)
  <2> DEFINE pc == IF Type THEN "typing" ELSE "pressing"
  <2>1. pc \in {"typing", "pressing"} /\ (pc = "typing" => Type)
    OBVIOUS
  <2>2. Unseen \in Views
    BY SpoolAssumption DEF Unseen, Views
  <2>3. Rest \in Hosts /\ Rest.result = "none" /\ Rest.offset = 0
    BY <2>2, CharFacts DEF Rest, Hosts
  <2>4. host' = [Rest EXCEPT !.pc = pc]
    BY <1>1
  <2> HIDE DEF pc
  <2> QED BY <2>1, <2>3, <2>4 DEF Hosts
<1>6. \A i \in DOMAIN ring : ring[i].call # calls + 1
  <2>1. \A i \in DOMAIN ring : ring[i].call # 0 => ring[i].call <= calls
    BY DEF TypedInv, InOrder
  <2> QED BY <1>3, <1>4, <2>1
<1>7. SpoolTypes'
  <2>1. \A c \in Calls : c > calls + 1 => seen[c] = 0
    BY <1>3 DEF Calls
  <2>2. \A c \in Calls : c \notin foreign' => seen[c] <= Len(Text)
    BY <1>3, <1>4
  <2> QED BY <1>1, <1>4, <1>5, <2>1, <2>2 DEF TypedInv, SpoolTypes
<1>8. InOrder'
  <2>1. ASSUME NEW i \in DOMAIN ring, ring[i].call # 0
        PROVE  /\ ring[i].call <= calls + 1
               /\ ring[i].call \notin foreign' => ring[i].call \notin foreign
    <3>1. ring[i].call <= calls /\ ring[i].call \in Calls
      BY <1>3, <2>1, CharFacts DEF TypedInv, InOrder
    <3> QED BY <1>3, <1>4, <3>1 DEF Calls
  <2> QED BY <1>1, <2>1 DEF TypedInv, InOrder, Char
<1>9. Promised'
  <2>1. ~Answered'
    BY <1>1, <1>2 DEF Answered
  <2> QED BY <1>1, <1>2, <1>4, <1>5, <2>1 DEF Promised
<1>10. ASSUME Live' PROVE Flow(0)'
  <2>1. Type /\ ~Answered' /\ spool'.text = <<>> /\ Told' = 0
    BY <1>1, <1>2, <1>5, <1>10 DEF Live, Answered, Told
  <2>2. foreign' = IF program # None \/ HasReturn(ring) THEN foreign \cup {calls + 1} ELSE foreign
    BY <2>1 DEF Type
  <2>3. ASSUME calls' \notin foreign' PROVE (Joined(0) /\ Guarded(0))'
    <3>1. program = None /\ ~HasReturn(ring)
      BY <1>1, <2>2, <2>3
    <3>2. Joined(0)'
      BY <1>1, <1>4, <1>6 DEF Joined
    <3>3. Guarded(0)'
      BY <1>1, <3>1 DEF Guarded, HasReturn
    <3> QED BY <3>2, <3>3
  <2>4. Len(spool'.text) = 0 /\ DOMAIN spool'.text = {} /\ 0 + 0 <= Len(Text)
    BY <2>1, CharFacts
  <2> QED BY <1>2, <2>1, <2>3, <2>4 DEF Flow
<1>11. 0 \in 0 .. Len(Text)
  BY CharFacts
<1> QED BY <1>1, <1>4, <1>7, <1>8, <1>9, <1>10, <1>11 DEF TypedInv

\* A request carries what follows what was accepted.
LEMMA SendKeepsTyped ==
  ASSUME TypedInv, Send
  PROVE  TypedInv'
<1>1. /\ host.pc = "typing" /\ link = "up" /\ ~Sent /\ ~Answered
      /\ call' = [op |-> "T", of |-> calls, from |-> host.offset, n |-> Batch, pump |-> Pump]
      /\ UNCHANGED <<host, link, rsp, spool, ring, program, calls, seen, foreign>>
  BY DEF Send, Waits, history
<1>2. SpoolTypes' /\ InOrder'
  BY <1>1 DEF TypedInv, SpoolTypes, InOrder, Char
<1>3. call'.op = "T" /\ call'.of = calls /\ call'.from = host.offset /\ call'.n = Batch
  BY <1>1
<1>4. Live /\ Live' /\ calls >= 1 /\ Sent' /\ ~Answered'
  BY <1>1, <1>3 DEF TypedInv, Promised, Live, Sent, Answered
<1>5. Promised'
  BY <1>1, <1>4 DEF TypedInv, Promised
<1>6. PICK base \in 0 .. Len(Text) : Flow(base)
  BY <1>4 DEF TypedInv
<1>7. Batch \in 0 .. Len(Text) - host.offset
  <2>1. host.offset \in 0 .. Len(Text) /\ host.view.credits \in Nat /\ Len(Text) \in Nat
    BY SpoolAssumption, CharFacts DEF TypedInv, SpoolTypes, Hosts, Views
  <2>2. Batch = 0 \/ Batch = IF host.view.credits < Len(Text) - host.offset
                            THEN host.view.credits ELSE Len(Text) - host.offset
    BY DEF Batch, Fewer, Left
  <2> QED BY <2>1, <2>2
<1>8. host.offset = base + Len(spool.text)
  BY <1>1, <1>6 DEF Flow, Told
<1>9. Told' = Told
  BY <1>1 DEF Told, Answered
<1>10. Flow(base)'
  BY <1>1, <1>3, <1>6, <1>7, <1>8, <1>9 DEF Flow, Joined, Guarded, Char
<1> QED BY <1>1, <1>2, <1>4, <1>5, <1>6, <1>10 DEF TypedInv

LEMMA GotSpoolKeepsTyped ==
  ASSUME TypedInv, GotSpool
  PROVE  TypedInv'
<1>1. /\ host.pc = "typing" /\ Answered /\ rsp' = Nothing /\ ~Answered'
      /\ UNCHANGED <<link, call, spool, ring, program, calls, seen, foreign>>
  BY DEF GotSpool, Got, Nothing, Answered, history
<1>2. /\ rsp.accepted \in Nat /\ rsp.credits \in 0 .. SpoolSize /\ rsp.pending \in Nat
      /\ rsp.barrier \in BOOLEAN /\ rsp.active \in BOOLEAN /\ rsp.authorized \in BOOLEAN
      /\ Told <= Len(Text) /\ Told = host.offset + rsp.accepted
      /\ ~Sent /\ calls >= 1 /\ host.result = "none"
      /\ rsp.pending = 0 => spool.text = <<>>
      /\ rsp.pending = 0 /\ Told = Len(Text) /\ calls \notin foreign => seen[calls] = Len(Text)
  BY <1>1 DEF TypedInv, Promised, Told
<1>3. /\ Told \in 0 .. Len(Text) /\ host \in Hosts /\ SpoolSize \in Nat
  BY <1>2, SpoolAssumption, CharFacts DEF TypedInv, SpoolTypes, Hosts
<1>4. \/ /\ host' = [host EXCEPT !.pc = "idle", !.result = "ok"]
         /\ rsp.pending = 0 /\ Told = Len(Text)
      \/ host' = [host EXCEPT !.offset = Told, !.view =
                [pending |-> rsp.pending, credits |-> rsp.credits,
                 barrier |-> rsp.barrier, active |-> rsp.active,
                 authorized |-> rsp.authorized, first |-> FALSE]]
  BY <1>2 DEF GotSpool, Ends
<1>5. ~Sent' /\ InOrder' /\ (call.op # "T")
  BY <1>1, <1>2 DEF TypedInv, Sent, InOrder, Char
<1>6. CASE /\ host' = [host EXCEPT !.pc = "idle", !.result = "ok"]
           /\ rsp.pending = 0 /\ Told = Len(Text)
  <2>1. host' \in Hosts /\ host'.pc = "idle" /\ host'.result = "ok"
    BY <1>3, <1>6 DEF Hosts
  <2>2. SpoolTypes'
    BY <1>1, <2>1 DEF TypedInv, SpoolTypes
  <2>3. ~Live'
    BY <1>1, <1>2, <1>5, <1>6, <2>1 DEF Live
  <2>4. Promised'
    BY <1>1, <1>2, <1>5, <1>6, <2>1 DEF Promised
  <2> QED BY <1>5, <2>2, <2>3, <2>4 DEF TypedInv
<1>7. CASE host' = [host EXCEPT !.offset = Told, !.view =
                     [pending |-> rsp.pending, credits |-> rsp.credits,
                      barrier |-> rsp.barrier, active |-> rsp.active,
                      authorized |-> rsp.authorized, first |-> FALSE]]
  <2> DEFINE v == [pending |-> rsp.pending, credits |-> rsp.credits,
                   barrier |-> rsp.barrier, active |-> rsp.active,
                   authorized |-> rsp.authorized, first |-> FALSE]
  <2>1. v \in Views
    BY <1>2 DEF Views
  <2>2. host' = [host EXCEPT !.offset = Told, !.view = v]
    BY <1>7
  <2> HIDE DEF v
  <2>3. host' \in Hosts /\ host'.pc = "typing" /\ host'.result = "none" /\ host'.offset = Told
    BY <1>1, <1>2, <1>3, <2>1, <2>2 DEF Hosts
  <2>4. SpoolTypes'
    BY <1>1, <2>3 DEF TypedInv, SpoolTypes
  <2>5. Told' = Told
    BY <1>1, <2>3 DEF Told
  <2>6. Live' => Live
    BY <1>1 DEF Live
  <2>7. Promised'
    BY <1>1, <1>2, <1>5, <2>3 DEF Promised
  <2>8. ASSUME NEW base \in 0 .. Len(Text), Flow(base) PROVE Flow(base)'
    BY <1>1, <1>5, <2>3, <2>5, <2>8 DEF Flow, Joined, Guarded, Char
  <2> QED BY <1>1, <1>5, <2>4, <2>6, <2>7, <2>8 DEF TypedInv
<1> QED BY <1>4, <1>6, <1>7

\* A call that ends without "ok" leaves what is on its way as it is.
LEMMA EndsKeepsTyped ==
  ASSUME TypedInv, NEW r \in {"pressed", "failed", "cancelled"}, Ends(r),
         host.pc # "idle", ~Answered',
         link' = link \/ link' # "up", link' \in {"up", "quarantined", "down"},
         link' = "up" => spool.text = <<>>,
         r = "cancelled" => ~Live /\ \A i \in DOMAIN ring : ring[i].call # calls,
         UNCHANGED <<call, spool, ring, program, calls, seen, foreign>>
  PROVE  TypedInv'
<1>1. host' \in Hosts /\ host'.pc = "idle" /\ host'.result = r
  BY DEF Ends, TypedInv, SpoolTypes, Hosts
<1>2. SpoolTypes' /\ InOrder'
  BY <1>1 DEF TypedInv, SpoolTypes, InOrder, Char
<1>3. Live' => Live
  BY <1>1 DEF Live
<1>4. Promised'
  BY <1>1, <1>3 DEF TypedInv, Promised
<1>5. ASSUME NEW base \in 0 .. Len(Text), Flow(base) PROVE Flow(base)'
  BY <1>1, <1>5 DEF Flow, Joined, Guarded, Char
<1> QED BY <1>2, <1>3, <1>4, <1>5 DEF TypedInv

LEMMA HearsKeepsTyped ==
  ASSUME TypedInv, Hears
  PROVE  TypedInv'
<1>1. CASE GotSpool
  BY <1>1, GotSpoolKeepsTyped
<1>2. CASE GotKey
  <2>1. PICK r \in {"pressed", "failed", "cancelled"} : r # "cancelled" /\ Ends(r)
    BY <1>2 DEF GotKey
  <2>2. /\ host.pc = "pressing" /\ ~Answered'
        /\ UNCHANGED <<link, call, spool, ring, program, calls, seen, foreign>>
    BY <1>2 DEF GotKey, Got, Nothing, Answered, history
  <2>3. link = "up" => spool.text = <<>>
    BY <2>2 DEF TypedInv, Promised
  <2>4. link \in {"up", "quarantined", "down"}
    BY DEF TypedInv, SpoolTypes
  <2> QED BY <2>1, <2>2, <2>3, <2>4, EndsKeepsTyped
<1>3. CASE GotCancel
  <2>1. /\ host.pc = "cancelling" /\ ~Answered' /\ Answered /\ Ends("cancelled")
        /\ UNCHANGED <<link, call, spool, ring, program, calls, seen, foreign>>
    BY <1>3 DEF GotCancel, Got, Nothing, Answered, history
  <2>2. ~Live /\ \A i \in DOMAIN ring : ring[i].call # calls
    BY <2>1 DEF TypedInv, Promised
  <2>3. spool.text = <<>>
    BY <2>2 DEF Live
  <2>4. link \in {"up", "quarantined", "down"}
    BY DEF TypedInv, SpoolTypes
  <2> QED BY <2>1, <2>2, <2>3, <2>4, EndsKeepsTyped
<1>4. CASE Fails
  <2>1. /\ link = "down" /\ host.pc # "idle" /\ ~Answered' /\ Ends("failed")
        /\ UNCHANGED <<link, call, spool, ring, program, calls, seen, foreign>>
    BY <1>4 DEF Fails, Answered, history, pipe
  <2> QED BY <2>1, EndsKeepsTyped
<1> QED BY <1>1, <1>2, <1>3, <1>4 DEF Hears

LEMMA FaultKeepsTyped ==
  ASSUME TypedInv, NoProgress \/ GiveUp \/ Cut
  PROVE  TypedInv'
<1>1. CASE GiveUp
  <2>1. /\ host.pc # "idle" /\ ~Answered' /\ Ends("failed") /\ link' = "quarantined"
        /\ UNCHANGED <<call, spool, ring, program, calls, seen, foreign>>
    BY <1>1 DEF GiveUp, Waits, Nothing, Answered, history
  <2> QED BY <2>1, EndsKeepsTyped
<1>2. CASE Cut
  <2>1. /\ link' = "down" /\ rsp' \in {rsp, Nothing}
        /\ UNCHANGED <<host, call, spool, ring, program, calls, seen, foreign>>
    BY <1>2 DEF Cut, history
  <2>2. SpoolTypes' /\ InOrder' /\ (Live' => Live)
    BY <2>1 DEF TypedInv, SpoolTypes, InOrder, Live, Char
  <2>3. Answered' => Answered /\ rsp' = rsp /\ Told' = Told
    BY <2>1 DEF Answered, Nothing, Told
  <2>4. Promised'
    BY <2>1, <2>2, <2>3 DEF TypedInv, Promised, Sent
  <2>5. ASSUME NEW base \in 0 .. Len(Text), Flow(base) PROVE Flow(base)'
    BY <2>1, <2>5 DEF Flow, Joined, Guarded, Char
  <2> QED BY <2>1, <2>2, <2>4, <2>5 DEF TypedInv
<1>3. CASE NoProgress
  <2>1. /\ host.pc = "typing" /\ ~Sent /\ ~Answered /\ ~Answered' /\ call' = [op |-> "C"]
        /\ host' = [host EXCEPT !.pc = "cancelling"]
        /\ UNCHANGED <<link, spool, ring, program, calls, seen, foreign>>
    BY <1>3 DEF NoProgress, Waits, Answered, history
  <2>2. host' \in Hosts /\ host'.pc = "cancelling" /\ host'.result = "none" /\ Sent'
        /\ call'.op = "C" /\ calls >= 1
    BY <2>1 DEF TypedInv, SpoolTypes, Hosts, Promised, Sent
  <2>3. SpoolTypes' /\ InOrder' /\ (Live' => Live)
    BY <2>1, <2>2 DEF TypedInv, SpoolTypes, InOrder, Live, Char
  <2>4. Promised'
    BY <2>1, <2>2, <2>3 DEF TypedInv, Promised
  <2>5. ASSUME NEW base \in 0 .. Len(Text), Flow(base) PROVE Flow(base)'
    BY <2>1, <2>2, <2>5 DEF Flow, Joined, Guarded, Char
  <2> QED BY <2>1, <2>3, <2>4, <2>5 DEF TypedInv
<1> QED BY <1>1, <1>2, <1>3

----------------------------------------------------------------------------
TypingInv == LineInv /\ TypedInv

LEMMA TypingStep == TypingInv /\ [Next]_vars => TypingInv'
<1> SUFFICES ASSUME LineInv, TypedInv, [Next]_vars PROVE TypedInv'
  BY LineStep DEF TypingInv
<1>1. CASE Next
  BY <1>1, BeginsKeepsTyped, SendKeepsTyped, HearsKeepsTyped, FaultKeepsTyped,
     LostKeepsTyped, ServeKeepsTyped, TickKeepsTyped, ReadKeepsTyped, AcceptKeepsTyped,
     PressedKeepsTyped DEF Next
<1>2. CASE UNCHANGED vars
  BY <1>2, Unmoved DEF vars
<1> QED BY <1>1, <1>2

LEMMA TypingHolds == Spec => []TypingInv
  BY LineInit, TypedInit, TypingStep, PTL DEF Spec, TypingInv

\* Of every text, with spools, rings and settle times of any length: success
\* means typed as a whole, each character once and in order, and what a failed
\* call typed is a beginning. (msx_real.py, _type_spooled)
THEOREM TypedAsAWhole == Spec => []TypedWhole
<1>1. TypingInv => TypedWhole
  <2> SUFFICES ASSUME TypedInv PROVE TypedWhole
    BY DEF TypingInv
  <2>1. ASSUME NEW c \in Calls \ foreign PROVE seen[c] # Torn
    <3>1. seen[c] <= Len(Text) /\ Len(Text) \in Nat /\ Torn = Len(Text) + 1
      BY <2>1, CharFacts DEF TypedInv, SpoolTypes
    <3> QED BY <3>1
  <2>2. host.result = "ok" /\ calls \notin foreign => seen[calls] = Len(Text)
    BY DEF TypedInv, Promised
  <2> QED BY <2>1, <2>2 DEF TypedWhole
<1> QED BY TypingHolds, <1>1, PTL

\* Once a cancellation was acknowledged nothing of the cancelled text is left to
\* read, in the spool, in the ring or on its way to them.
\* (msx_agent_core.asm, keybuf_spool_cancel)
THEOREM CancelledIsGone == Spec => CancelledNotRead
<1>1. TypingInv /\ [Next]_vars =>
        [host.result = "cancelled" => seen'[calls] = seen[calls]]_vars
  <2> SUFFICES ASSUME TypedInv, Next, host.result = "cancelled"
               PROVE  seen'[calls] = seen[calls]
    BY DEF TypingInv
  <2>1. CASE Read
    <3>1. ring # <<>> /\ seen' = Reads(ring[1]) /\ ring \in Seq(Chars)
      BY <2>1 DEF Read, TypedInv, SpoolTypes
    <3>2. ring[1].call # calls /\ calls \in Calls
      BY <3>1, SpoolAssumption DEF TypedInv, Promised, SpoolTypes, Calls
    <3> QED BY <3>1, <3>2, ReadNext
  <2>2. CASE ~Read
    <3>1. seen' = seen
      BY <2>2 DEF Next, Type, Press, Begins, Send, Hears, GotSpool, GotKey, GotCancel, Fails,
                  NoProgress, GiveUp, Cut, Attach, Serve, ServeSpool, ServeCancel, ServeKey,
                  SessionLost, Tick, Accept, PressedByHand, history
    <3> QED BY <3>1
  <2> QED BY <2>1, <2>2
<1> QED BY TypingHolds, <1>1, PTL DEF Spec, CancelledNotRead

================================================================================
