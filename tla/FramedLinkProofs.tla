--------------------------- MODULE FramedLinkProofs ---------------------------
(***************************************************************************)
(* Proofs about FramedLink, for every number of calls, of sequence         *)
(* numbers, of retries and of faults: what holds on every kind of stream,  *)
(* and what a TCP attachment of the safe profile holds besides.            *)
(***************************************************************************)
EXTENDS FramedLink, TLAPS

USE WireAssumption, AgentAssumption, HostAssumption, LinkAssumption

(***************************************************************************)
(* Sequence numbers stay in range when they wrap.                          *)
(***************************************************************************)
LEMMA SequenceCloses == ASSUME NEW s \in Sequence PROVE NextSequence(s) \in Sequence
BY DEF Sequence, NextSequence

LEMMA UnitTypes ==
  ASSUME NEW n \in 0 .. MaxCalls
  PROVE  /\ Magic(n) \in ToAgentUnit
         /\ \A k \in {"esc", "hello", "features", "framed"} :
              Raw(k, n) \in ToAgentUnit
         /\ \A s \in Sequence, o \in Ops :
              n \in Calls => Rest(n, s, o) \in ToAgentUnit
         /\ Credit \in ToHostUnit
         /\ \A k \in {"refused", "features", "upgraded", "torn"} :
              Note(k, n, 1) \in ToHostUnit
         /\ Note("hello", n, FrameBytes) \in ToHostUnit
         /\ \A s \in Sequence, o \in Ops \cup {None}, st \in Statuses :
              Response(n, s, o, st) \in ToHostUnit
BY DEF Magic, Raw, Rest, Credit, Note, Response, ToAgentUnit, ToHostUnit,
       Sequence, None, Statuses

(***************************************************************************)
(* The stream to the host is typed after one byte of it was read.          *)
(***************************************************************************)
LEMMA AfterByteType ==
  ASSUME NEW q \in Seq(ToHostUnit), q # <<>>
  PROVE  AfterByte(q) \in Seq(ToHostUnit)
<1> DEFINE u == Head(q)
           v == [u EXCEPT !.kind = "torn", !.left = @ - 1]
<1>1. u \in ToHostUnit /\ Tail(q) \in Seq(ToHostUnit)
  OBVIOUS
<1>2. CASE u.left = 1
  BY <1>1, <1>2 DEF AfterByte
<1>3. CASE u.left # 1
  <2>1. u.left - 1 \in 1 .. FrameBytes
    BY <1>1, <1>3 DEF ToHostUnit
  <2>2. v \in ToHostUnit
    BY <1>1, <2>1 DEF ToHostUnit
  <2>3. <<v>> \o Tail(q) \in Seq(ToHostUnit)
    BY <1>1, <2>2
  <2>4. AfterByte(q) = <<v>> \o Tail(q)
    BY <1>3 DEF AfterByte
  <2> QED BY <2>3, <2>4
<1> QED BY <1>2, <1>3

(***************************************************************************)
(* Type correctness.  Bounds says why credits stays in its range, and that *)
(* a host in a call has a call to repeat.                                  *)
(***************************************************************************)
Typed == TypeOK /\ Bounds
HostTyped == WireTypeOK /\ HostTypeOK /\ Bounds
AgentTyped == WireTypeOK /\ AgentTypeOK

LEMMA HeadTypes ==
  ASSUME WireTypeOK
  PROVE  /\ toAgent # <<>> => /\ Head(toAgent) \in ToAgentUnit
                              /\ Tail(toAgent) \in Seq(ToAgentUnit)
         /\ toHost # <<>> => /\ Head(toHost) \in ToHostUnit
                             /\ Tail(toHost) \in Seq(ToHostUnit)
BY DEF WireTypeOK

\* What a send leaves on the wire is typed.
LEMMA SendType ==
  ASSUME WireTypeOK, NEW u \in ToAgentUnit, Send(u)
  PROVE  toAgent' \in Seq(ToAgentUnit)
BY DEF WireTypeOK, Send

LEMMA FailType ==
  ASSUME HostTyped, InCall, Fail
  PROVE  HostTypeOK' /\ Bounds'
<1>1. outcome' \in [Calls -> Outcomes]
  BY DEF Fail, HostTyped, HostTypeOK, Outcomes
<1> QED BY <1>1 DEF Fail, HostTyped, HostTypeOK, Bounds, Phases, bootVars, InCall

LEMMA NextAttemptType ==
  ASSUME HostTyped, InCall, NextAttemptOrFail, toHost' \in Seq(ToHostUnit)
  PROVE  HostTyped'
<1>1. CASE attempt <= Retries
  <2>1. toAgent' \in Seq(ToAgentUnit)
    <3>1. Magic(issued) \in ToAgentUnit
      BY UnitTypes DEF HostTyped, HostTypeOK
    <3>2. Send(Magic(issued))
      BY <1>1 DEF NextAttemptOrFail
    <3> QED BY <3>1, <3>2, SendType DEF HostTyped
  <2>2. attempt' \in 0 .. (Retries + 1)
    BY <1>1 DEF NextAttemptOrFail, HostTyped, HostTypeOK
  <2>3. HostTypeOK'
    BY <1>1, <2>2 DEF NextAttemptOrFail, HostTyped, HostTypeOK, Phases, bootVars
  <2>4. Bounds'
    BY <1>1 DEF NextAttemptOrFail, HostTyped, Bounds, InCall
  <2> QED BY <2>1, <2>3, <2>4 DEF HostTyped, WireTypeOK
<1>2. CASE ~(attempt <= Retries)
  <2>1. Fail /\ UNCHANGED toAgent
    BY <1>2 DEF NextAttemptOrFail
  <2> QED BY <2>1, FailType DEF HostTyped, WireTypeOK
<1> QED BY <1>1, <1>2

LEMMA CallTypes ==
  ASSUME HostTyped,
         \/ \E op \in Ops : StartCall(op)
         \/ WakeCredited \/ WakeMismatch \/ WakeTimeout \/ DiscardUnit
         \/ ReadAnswer \/ WaitTimeout \/ CallDisconnected
  PROVE  HostTyped'
<1>1. ASSUME NEW op \in Ops, StartCall(op) PROVE HostTyped'
  <2>1. issued \in 0 .. MaxCalls /\ issued + 1 \in Calls /\ issued + 1 \in 0 .. MaxCalls
    BY <1>1 DEF StartCall, HostTyped, HostTypeOK, Calls
  <2>2. toAgent' \in Seq(ToAgentUnit)
    <3>1. Magic(issued + 1) \in ToAgentUnit
      BY <2>1, UnitTypes
    <3> QED BY <1>1, <3>1, SendType DEF StartCall, HostTyped, WireTypeOK
  <2>3. /\ callOp' \in [Calls -> Ops \cup {None}]
        /\ callSeq' \in [Calls -> Sequence]
        /\ outcome' \in [Calls -> Outcomes]
        /\ hostSeq' \in Sequence
    BY <1>1, SequenceCloses DEF StartCall, HostTyped, HostTypeOK, Outcomes
  <2>4. HostTypeOK'
    BY <1>1, <2>1, <2>3 DEF StartCall, HostTyped, HostTypeOK, Phases, bootVars
  <2>5. Bounds'
    BY <1>1, <2>1 DEF StartCall, HostTyped, HostTypeOK, Bounds, InCall
  <2> QED BY <1>1, <2>2, <2>4, <2>5 DEF StartCall, HostTyped, WireTypeOK
<1>2. ASSUME WakeCredited PROVE HostTyped'
  <2>1. issued \in Calls /\ issued \in 0 .. MaxCalls
    BY <1>2 DEF WakeCredited, HostTyped, HostTypeOK, Bounds, InCall
  <2>2. Rest(issued, callSeq[issued], callOp[issued]) \in ToAgentUnit
    BY <1>2, <2>1, UnitTypes DEF WakeCredited, HostTyped, HostTypeOK, Bounds, InCall
  <2>3. toAgent' \in Seq(ToAgentUnit)
    BY <1>2, <2>2, SendType DEF WakeCredited, HostTyped
  <2>4. toHost' \in Seq(ToHostUnit)
    BY <1>2, HeadTypes DEF WakeCredited, Sees, HostTyped
  <2>5. HostTypeOK' /\ Bounds'
    BY <1>2 DEF WakeCredited, HostTyped, HostTypeOK, Bounds, InCall, Phases,
                bootVars, callVars
  <2> QED BY <2>3, <2>4, <2>5 DEF HostTyped, WireTypeOK
<1>3. ASSUME WakeMismatch PROVE HostTyped'
  BY <1>3, AfterByteType, NextAttemptType
     DEF WakeMismatch, SeesOther, HostTyped, WireTypeOK, InCall
<1>4. ASSUME WakeTimeout PROVE HostTyped'
  BY <1>4, NextAttemptType DEF WakeTimeout, HostTyped, WireTypeOK, InCall
<1>5. ASSUME DiscardUnit PROVE HostTyped'
  BY <1>5, HeadTypes
     DEF DiscardUnit, HostTyped, WireTypeOK, HostTypeOK, Bounds, InCall,
         hostVars, bootVars, callVars
<1>6. ASSUME ReadAnswer PROVE HostTyped'
  <2>1. toHost' \in Seq(ToHostUnit) /\ InCall
    BY <1>6, HeadTypes DEF ReadAnswer, HostTyped, InCall
  <2>2. CASE Head(toHost).status = "CRC_ERROR" /\ attempt <= Retries
    BY <1>6, <2>1, <2>2, NextAttemptType DEF ReadAnswer
  <2>3. CASE ~(Head(toHost).status = "CRC_ERROR" /\ attempt <= Retries)
    <3>1. PICK result \in Outcomes : Finish(result) /\ UNCHANGED toAgent
      <4>1. Verdict(Head(toHost).status) \in Outcomes
        BY DEF Verdict, Outcomes
      <4> QED BY <1>6, <2>3, <4>1 DEF ReadAnswer
    <3>2. outcome' \in [Calls -> Outcomes]
      BY <3>1 DEF Finish, HostTyped, HostTypeOK
    <3>3. HostTypeOK' /\ Bounds'
      BY <3>1, <3>2 DEF Finish, HostTyped, HostTypeOK, Bounds, InCall, Phases, bootVars
    <3> QED BY <2>1, <3>1, <3>3 DEF HostTyped, WireTypeOK
  <2> QED BY <2>2, <2>3
<1>7. ASSUME WaitTimeout PROVE HostTyped'
  <2>1. toHost' \in Seq(ToHostUnit)
    BY <1>7, AfterByteType DEF WaitTimeout, HostTyped, WireTypeOK
  <2> QED BY <1>7, <2>1, NextAttemptType DEF WaitTimeout, InCall
<1>8. ASSUME CallDisconnected PROVE HostTyped'
  BY <1>8, FailType DEF CallDisconnected, HostTyped, WireTypeOK, wireVars
<1> QED BY <1>1, <1>2, <1>3, <1>4, <1>5, <1>6, <1>7, <1>8

\* The steps of a bootstrap that leave the counters of the session alone.
LEMMA BootTypes ==
  ASSUME HostTyped,
         \/ Probe \/ Recover \/ ProbeRefused \/ EscapeCredited \/ SkipToHello
         \/ ReadHello \/ AskHello \/ ReadFeatures \/ SessionStarts
         \/ BootMismatch \/ BootTimeout \/ BootDisconnected
  PROVE  HostTyped'
<1> DEFINE Sends == \/ UNCHANGED toAgent
                    \/ \E k \in {"esc", "hello", "features", "framed"} :
                         Send(Raw(k, issued))
           Hears == \/ UNCHANGED toHost
                    \/ toHost' = <<>>
                    \/ toHost # <<>> /\ toHost' \in {Tail(toHost), AfterByte(toHost)}
<1>1. ASSUME Sends, Hears PROVE WireTypeOK'
  <2>1. toAgent' \in Seq(ToAgentUnit)
    <3>1. ASSUME NEW k \in {"esc", "hello", "features", "framed"}
          PROVE  Raw(k, issued) \in ToAgentUnit
      BY UnitTypes DEF HostTyped, HostTypeOK
    <3> QED BY <1>1, <3>1, SendType DEF HostTyped, WireTypeOK
  <2>2. toHost' \in Seq(ToHostUnit)
    <3>1. toHost \in Seq(ToHostUnit)
      BY DEF HostTyped, WireTypeOK
    <3>2. CASE UNCHANGED toHost \/ toHost' = <<>>
      <4>1. <<>> \in Seq(ToHostUnit)
        OBVIOUS
      <4> QED BY <3>1, <3>2, <4>1
    <3>3. CASE toHost # <<>> /\ toHost' = Tail(toHost)
      BY <3>1, <3>3
    <3>4. CASE toHost # <<>> /\ toHost' = AfterByte(toHost)
      BY <3>1, <3>4, AfterByteType
    <3> QED BY <1>1, <3>2, <3>3, <3>4
  <2> QED BY <2>1, <2>2 DEF WireTypeOK
<1>2. ASSUME Probe \/ Recover PROVE HostTyped'
  <2>1. Sends /\ Hears
    BY <1>2 DEF Probe, Recover
  <2>2. credits' = 0 /\ 0 \in 0 .. Escapes /\ 0 < Escapes
    BY <1>2 DEF Probe, Recover
  <2>3. phase' \in Phases /\ ~InCall'
    BY <1>2 DEF Probe, Recover, Phases, InCall
  <2>4. HostTypeOK'
    BY <1>2, <2>2, <2>3 DEF Probe, Recover, HostTyped, HostTypeOK, callVars
  <2>5. Bounds'
    BY <2>2, <2>3 DEF Bounds
  <2> QED BY <1>1, <2>1, <2>4, <2>5 DEF HostTyped
<1>3. ASSUME EscapeCredited PROVE HostTyped'
  <2>1. Sends /\ Hears
    BY <1>3 DEF EscapeCredited, Sees
  <2>2. credits' \in 0 .. Escapes /\ (phase' \in {"probe", "escape"} => credits' < Escapes)
    BY <1>3 DEF EscapeCredited, HostTyped, HostTypeOK, Bounds
  <2>3. phase' \in Phases /\ ~InCall'
    BY <1>3 DEF EscapeCredited, Phases, InCall, HostTyped, HostTypeOK
  <2>4. HostTypeOK' /\ Bounds'
    BY <1>3, <2>2, <2>3 DEF EscapeCredited, HostTyped, HostTypeOK, Bounds, callVars
  <2> QED BY <1>1, <2>1, <2>4 DEF HostTyped
<1>4. ASSUME ProbeRefused \/ AskHello PROVE HostTyped'
  <2>1. Sends /\ Hears
    BY <1>4 DEF ProbeRefused, AskHello, Sees
  <2>2. HostTypeOK' /\ Bounds'
    BY <1>4 DEF ProbeRefused, AskHello, HostTyped, HostTypeOK, Bounds, InCall,
                Phases, callVars
  <2> QED BY <1>1, <2>1, <2>2 DEF HostTyped
<1>5. ASSUME SkipToHello \/ ReadHello \/ ReadFeatures PROVE HostTyped'
  <2>1. Sends /\ Hears
    BY <1>5 DEF SkipToHello, ReadHello, ReadFeatures, Sees, SeesOther
  <2>2. HostTypeOK' /\ Bounds'
    BY <1>5 DEF SkipToHello, ReadHello, ReadFeatures, HostTyped, HostTypeOK,
                Bounds, InCall, Phases, hostVars, bootVars, callVars
  <2> QED BY <1>1, <2>1, <2>2 DEF HostTyped
<1>6. ASSUME SessionStarts PROVE HostTyped'
  <2>1. Sends /\ Hears
    BY <1>6 DEF SessionStarts, Sees
  <2>2. HostTypeOK' /\ Bounds'
    BY <1>6 DEF SessionStarts, HostTyped, HostTypeOK, Bounds, InCall, Phases,
                bootVars, Sequence
  <2> QED BY <1>1, <2>1, <2>2 DEF HostTyped
<1>7. ASSUME BootMismatch \/ BootTimeout \/ BootDisconnected PROVE HostTyped'
  <2>1. Sends /\ Hears
    BY <1>7 DEF BootMismatch, BootTimeout, BootDisconnected, wireVars
  <2>2. PICK stop \in BOOLEAN : BootFails(stop)
    BY <1>7 DEF BootMismatch, BootTimeout, BootDisconnected, StopsWrites
  <2>3. HostTypeOK' /\ Bounds'
    BY <2>2 DEF BootFails, HostTyped, HostTypeOK, Bounds, InCall, Phases,
                bootVars, callVars
  <2> QED BY <1>1, <2>1, <2>3 DEF HostTyped
<1> QED BY <1>2, <1>3, <1>4, <1>5, <1>6, <1>7

(***************************************************************************)
(* The agent reads one unit: what it appends is typed, and so is its state.*)
(***************************************************************************)
LEMMA RawTypes ==
  ASSUME AgentTyped,
         \/ RawRefuse \/ RawHello \/ RawFeatures \/ RawFrameEnable
         \/ SeeMagic \/ SkipNoise \/ CountEscape \/ Rebootstrap \/ HookTimeout
  PROVE  AgentTyped'
<1> DEFINE u == Head(toAgent)
<1>1. ASSUME toAgent # <<>>
      PROVE  /\ Tail(toAgent) \in Seq(ToAgentUnit)
             /\ u.call \in 0 .. MaxCalls
  BY <1>1, HeadTypes DEF AgentTyped, ToAgentUnit, Calls
<1>2. toHost \in Seq(ToHostUnit)
  BY DEF AgentTyped, WireTypeOK
<1>3. 0 \in 0 .. (EscLength - 1) /\ 0 \in Sequence
  BY DEF Sequence
<1>a. Credit \in ToHostUnit
  <2>1. 0 \in 0 .. MaxCalls
    OBVIOUS
  <2> QED BY <2>1, UnitTypes
<1>4. ASSUME RawRefuse \/ RawHello \/ RawFeatures PROVE AgentTyped'
  <2>1. PICK k \in {<<"refused", 1>>, <<"hello", FrameBytes>>, <<"features", 1>>} :
          toAgent # <<>> /\ Answer(Note(k[1], u.call, k[2]))
    BY <1>4 DEF RawRefuse, RawHello, RawFeatures
  <2>2. Note(k[1], u.call, k[2]) \in ToHostUnit
    BY <1>1, <2>1, UnitTypes
  <2>3. WireTypeOK'
    BY <1>1, <1>2, <2>1, <2>2 DEF Answer, WireTypeOK
  <2>4. AgentTypeOK'
    BY <1>4 DEF RawRefuse, RawHello, RawFeatures, AgentTyped, AgentTypeOK,
                agentVars, sessionVars, historyVars
  <2> QED BY <2>3, <2>4 DEF AgentTyped
<1>5. ASSUME RawFrameEnable PROVE AgentTyped'
  <2>1. Note("upgraded", u.call, 1) \in ToHostUnit
    BY <1>1, <1>5, UnitTypes DEF RawFrameEnable
  <2>2. WireTypeOK'
    BY <1>1, <1>2, <1>5, <2>1 DEF RawFrameEnable, Answer, WireTypeOK
  <2>3. AgentTypeOK'
    BY <1>3, <1>5 DEF RawFrameEnable, AgentTyped, AgentTypeOK, historyVars
  <2> QED BY <2>2, <2>3 DEF AgentTyped
<1>6. ASSUME SeeMagic \/ SkipNoise PROVE AgentTyped'
  <2>1. WireTypeOK'
    <3>1. toAgent # <<>> /\ toAgent' = Tail(toAgent)
      BY <1>6 DEF SeeMagic, SkipNoise, Answer, Swallow
    <3>2. toHost' \in {toHost, Append(toHost, Credit)}
      BY <1>6 DEF SeeMagic, SkipNoise, Answer, Swallow
    <3>3. Append(toHost, Credit) \in Seq(ToHostUnit)
      BY <1>a, <1>2
    <3> QED BY <1>1, <1>2, <3>1, <3>2, <3>3 DEF WireTypeOK
  <2>2. AgentTypeOK'
    BY <1>3, <1>6 DEF SeeMagic, SkipNoise, AgentTyped, AgentTypeOK, historyVars
  <2> QED BY <2>1, <2>2 DEF AgentTyped
<1>7. ASSUME CountEscape PROVE AgentTyped'
  <2>1. WireTypeOK'
    BY <1>a, <1>1, <1>2, <1>7 DEF CountEscape, SeesEscape, Answer, WireTypeOK
  <2>2. escapes' \in 0 .. (EscLength - 1)
    BY <1>7 DEF CountEscape, AgentTyped, AgentTypeOK
  <2>3. AgentTypeOK'
    BY <1>7, <2>2 DEF CountEscape, AgentTyped, AgentTypeOK, historyVars
  <2> QED BY <2>1, <2>3 DEF AgentTyped
<1>8. ASSUME Rebootstrap PROVE AgentTyped'
  <2>1. Note("hello", u.call, FrameBytes) \in ToHostUnit
    BY <1>1, <1>8, UnitTypes DEF Rebootstrap, SeesEscape
  <2>3. <<Credit, Note("hello", u.call, FrameBytes)>> \in Seq(ToHostUnit)
    BY <1>a, <2>1
  <2>2. WireTypeOK'
    BY <1>1, <1>2, <1>8, <2>3 DEF Rebootstrap, SeesEscape, WireTypeOK
  <2>4. AgentTypeOK'
    BY <1>3, <1>8 DEF Rebootstrap, ForgetSession, AgentTyped, AgentTypeOK, historyVars
  <2> QED BY <2>2, <2>4 DEF AgentTyped
<1>9. ASSUME HookTimeout PROVE AgentTyped'
  BY <1>3, <1>9 DEF HookTimeout, AgentTyped, AgentTypeOK, WireTypeOK,
                    historyVars, wireVars
<1> QED BY <1>4, <1>5, <1>6, <1>7, <1>8, <1>9

LEMMA FrameFields ==
  ASSUME WireTypeOK, HasFrame
  PROVE  /\ Frame.call \in Calls /\ Frame.call \in 0 .. MaxCalls
         /\ Frame.seq \in Sequence
         /\ Frame.op \in Ops
BY HeadTypes DEF HasFrame, Frame, ToAgentUnit, Calls

LEMMA EmitType ==
  ASSUME WireTypeOK, HasFrame, NEW u \in ToHostUnit, NEW cut, Emit(u, cut)
  PROVE  WireTypeOK' /\ parser' \in {"seek", "magic"}
<1>1. u.call \in 0 .. MaxCalls
  BY DEF ToHostUnit
<1>2. Note("torn", u.call, 1) \in ToHostUnit
  BY <1>1, UnitTypes
<1>3. Tail(toAgent) \in Seq(ToAgentUnit)
  BY HeadTypes DEF HasFrame
<1> QED BY <1>2, <1>3 DEF Emit, WireTypeOK

LEMMA FrameTypes ==
  ASSUME AgentTyped, NEW cut \in BOOLEAN,
         \/ \E st \in Results : Accept(st, cut) \/ Recompute(st, cut)
         \/ Conflict(cut) \/ Incomplete(cut) \/ Replay(cut) \/ BadCrc(cut)
  PROVE  AgentTyped'
<1>1. HasFrame
  BY DEF Accept, Recompute, Conflict, Incomplete, Replay, BadCrc
<1>2. ASSUME NEW st \in Statuses, NEW n \in 0 .. MaxCalls
      PROVE  Response(n, Frame.seq, Frame.op, st) \in ToHostUnit
  BY <1>1, FrameFields, UnitTypes DEF AgentTyped
<1>3. ASSUME NEW st \in Results, Dispatch(st, cut)
      PROVE  /\ WireTypeOK' /\ parser' \in {"seek", "magic"}
             /\ lastStatus' \in {"OK", "BAD_STATE"} /\ lastRespValid' \in BOOLEAN
             /\ lastCall' \in 0 .. MaxCalls /\ effects' \in [Calls -> Nat]
  <2>1. Response(Frame.call, Frame.seq, Frame.op, st) \in ToHostUnit
    BY <1>1, <1>2, FrameFields DEF Results, Statuses, AgentTyped
  <2>2. WireTypeOK' /\ parser' \in {"seek", "magic"}
    BY <1>1, <1>3, <2>1, EmitType DEF Dispatch, AgentTyped
  <2>3. [effects EXCEPT ![Frame.call] = @ + 1] \in [Calls -> Nat]
    BY <1>1, FrameFields DEF AgentTyped, AgentTypeOK
  <2>4. effects' \in [Calls -> Nat]
    BY <1>3, <2>3 DEF Dispatch, AgentTyped, AgentTypeOK
  <2>5. lastRespValid' \in BOOLEAN
    BY <1>3 DEF Dispatch
  <2> QED BY <1>1, <1>3, <2>2, <2>4, <2>5, FrameFields DEF Dispatch, Results, AgentTyped
<1>4. ASSUME NEW st \in Results, Accept(st, cut) PROVE AgentTyped'
  <2>1. Dispatch(st, cut)
    BY <1>4 DEF Accept
  <2>2. nextSeq' \in Sequence
    BY <1>1, <1>4, FrameFields, SequenceCloses DEF Accept, AgentTyped
  <2> QED BY <1>1, <1>3, <1>4, <2>1, <2>2, FrameFields
          DEF Accept, AgentTyped, AgentTypeOK
<1>5. ASSUME NEW st \in Results, Recompute(st, cut) PROVE AgentTyped'
  <2>1. Dispatch(st, cut)
    BY <1>5 DEF Recompute
  <2> QED BY <1>3, <1>5, <2>1 DEF Recompute, AgentTyped, AgentTypeOK
<1>6. ASSUME Conflict(cut) \/ Incomplete(cut) \/ BadCrc(cut) PROVE AgentTyped'
  <2>1. PICK st \in Statuses : Refuse(st, cut)
    BY <1>6 DEF Conflict, Incomplete, BadCrc, Statuses
  <2>2. WireTypeOK' /\ parser' \in {"seek", "magic"}
    BY <1>1, <1>2, <2>1, FrameFields, EmitType DEF Refuse, AgentTyped
  <2> QED BY <2>1, <2>2 DEF Refuse, AgentTyped, AgentTypeOK, historyVars
<1>7. ASSUME Replay(cut) PROVE AgentTyped'
  <2>1. lastCall \in 0 .. MaxCalls /\ lastStatus \in Statuses
    BY DEF AgentTyped, AgentTypeOK, Statuses
  <2>2. WireTypeOK' /\ parser' \in {"seek", "magic"}
    BY <1>1, <1>2, <1>7, <2>1, EmitType DEF Replay, AgentTyped
  <2> QED BY <1>7, <2>2 DEF Replay, AgentTyped, AgentTypeOK, historyVars
<1> QED BY <1>4, <1>5, <1>6, <1>7

LEMMA Zeros ==
  /\ 0 \in Sequence /\ 0 \in 0 .. (EscLength - 1) /\ 0 \in 0 .. Escapes
  /\ 0 \in 0 .. MaxCalls /\ 0 \in 0 .. (Retries + 1)
BY DEF Sequence

\* A stream, with or without a connection behind it, from which a new agent
\* session or a new attachment starts.
LEMMA FreshTypes ==
  /\ AgentTypeOK /\ SessionReset => AgentTypeOK'
  /\ HostTypeOK /\ Attach => HostTypeOK' /\ Bounds'
<1>1. ASSUME AgentTypeOK, SessionReset PROVE AgentTypeOK'
  BY <1>1, Zeros DEF SessionReset, ForgetSession, AgentTypeOK, historyVars
<1>2. ASSUME HostTypeOK, Attach PROVE HostTypeOK' /\ Bounds'
  <2>1. outcome' \in [Calls -> Outcomes]
    BY <1>2 DEF Attach, HostTypeOK, Outcomes
  <2>2. phase' \in Phases /\ ~InCall' /\ phase' \notin {"probe", "escape"}
    BY <1>2 DEF Attach, Phases, InCall
  <2>3. credits' \in 0 .. Escapes
    BY <1>2, Zeros DEF Attach
  <2>4. HostTypeOK'
    BY <1>2, <2>1, <2>2, <2>3 DEF Attach, HostTypeOK
  <2> QED BY <2>2, <2>4 DEF Bounds
<1> QED BY <1>1, <1>2

LEMMA InitTyped == ASSUME Init PROVE Typed
<1>2. <<>> \in Seq(ToAgentUnit) /\ <<>> \in Seq(ToHostUnit)
  OBVIOUS
<1>3. HostTypeOK
  <2>1. phase \in Phases /\ credits \in 0 .. Escapes /\ hostSeq \in Sequence
    BY Zeros DEF Init, HostInit, Phases
  <2>2. issued \in 0 .. MaxCalls /\ attempt \in 0 .. (Retries + 1)
    BY Zeros DEF Init, HostInit
  <2>3. /\ callOp \in [Calls -> Ops \cup {None}]
        /\ callSeq \in [Calls -> Sequence]
        /\ outcome \in [Calls -> Outcomes]
    BY Zeros DEF Init, HostInit, Outcomes
  <2> QED BY <2>1, <2>2, <2>3 DEF Init, HostInit, HostTypeOK
<1>4. AgentTypeOK
  <2>1. effects \in [Calls -> Nat]
    BY DEF Init, AgentInit
  <2> QED BY <2>1, Zeros DEF Init, AgentInit, AgentTypeOK, Ops
<1>5. Bounds
  BY DEF Init, HostInit, Bounds, InCall
<1> QED BY <1>2, <1>3, <1>4, <1>5 DEF Init, Typed, TypeOK, WireTypeOK

\* A fault is counted, and bounded, wherever it happens.
LEMMA FaultType ==
  ASSUME faults \in 0 .. MaxFaults,
         UNCHANGED faults \/ Deadline \/ \E kind : Fault(kind)
  PROVE  faults' \in 0 .. MaxFaults
<1>1. UNCHANGED faults \/ \E kind : Fault(kind)
  BY DEF Deadline
<1> QED BY <1>1 DEF Fault

LEMMA TypeStep == ASSUME Typed, [Next]_vars PROVE Typed'
<1> USE DEF Typed, TypeOK
<1>1. HostTyped /\ AgentTyped /\ faults \in 0 .. MaxFaults
  BY DEF HostTyped, AgentTyped
<1>2. ASSUME HostTyped', UNCHANGED agentVars, faults' \in 0 .. MaxFaults
      PROVE  Typed'
  BY <1>1, <1>2 DEF HostTyped, AgentTyped, AgentTypeOK, agentVars, sessionVars,
                    historyVars
<1>3. ASSUME AgentTyped', UNCHANGED hostVars, faults' \in 0 .. MaxFaults
      PROVE  Typed'
  BY <1>1, <1>3 DEF HostTyped, AgentTyped, HostTypeOK, Bounds, InCall, hostVars,
                    bootVars, callVars
<1>4. ASSUME NEW op \in Ops, HostCalls(op) PROVE Typed'
  BY <1>1, <1>2, <1>4, CallTypes, FaultType DEF HostCalls
<1>5. ASSUME HostBoots PROVE Typed'
  BY <1>1, <1>2, <1>5, BootTypes, FaultType DEF HostBoots
<1>6. ASSUME HostHears PROVE Typed'
  BY <1>1, <1>2, <1>6, CallTypes, BootTypes, FaultType DEF HostHears, HostReads
<1>7. ASSUME HostGivesUp PROVE Typed'
  BY <1>1, <1>2, <1>7, CallTypes, BootTypes, FaultType DEF HostGivesUp, HostTimeouts
<1>8. ASSUME HostLosesStream PROVE Typed'
  BY <1>1, <1>2, <1>8, CallTypes, BootTypes, FaultType
     DEF HostLosesStream, HostDisconnected
<1>9. ASSUME AgentHears PROVE Typed'
  BY <1>1, <1>3, <1>9, RawTypes, FrameTypes, FaultType DEF AgentHears, AgentReads
<1>10. ASSUME AgentStumbles PROVE Typed'
  BY <1>1, <1>3, <1>10, FrameTypes, FaultType
     DEF AgentStumbles, AgentCut, AgentRejectsCrc
<1>11. ASSUME AgentStops PROVE Typed'
  BY <1>1, <1>3, <1>11, RawTypes, FaultType DEF AgentStops
<1>12. ASSUME Lose PROVE Typed'
  <2>1. WireTypeOK'
    BY <1>1, <1>12, HeadTypes DEF Lose, LoseToAgent, LoseToHost, WireTypeOK
  <2>2. AgentTyped' /\ UNCHANGED hostVars
    BY <1>1, <1>12, <2>1 DEF Lose, AgentTyped, AgentTypeOK, agentVars, sessionVars,
                             historyVars
  <2> QED BY <1>1, <1>3, <1>12, <2>2, FaultType DEF Lose
<1>13. ASSUME Disconnect PROVE Typed'
  <2>1. WireTypeOK'
    BY <1>13 DEF Disconnect, WireTypeOK
  <2>2. HostTypeOK' /\ Bounds'
    BY <1>13 DEF Disconnect, HostTypeOK, Bounds, InCall, bootVars, callVars
  <2>3. AgentTypeOK'
    BY <1>13, FreshTypes DEF Disconnect
  <2> QED BY <1>1, <1>13, <2>1, <2>2, <2>3, FaultType DEF Disconnect
<1>14. ASSUME Reconnect PROVE Typed'
  <2>1. WireTypeOK'
    BY <1>14 DEF Reconnect, WireTypeOK
  <2>2. AgentTypeOK' /\ HostTypeOK' /\ Bounds'
    BY <1>14, FreshTypes DEF Reconnect
  <2> QED BY <1>1, <1>14, <2>1, <2>2 DEF Reconnect
<1>15. ASSUME Reopen PROVE Typed'
  <2>1. faults' \in 0 .. MaxFaults
    BY <1>1, <1>15, FaultType DEF Reopen
  <2> QED BY <1>1, <1>2, <1>15, <2>1, FreshTypes
          DEF Reopen, HostTyped, WireTypeOK, wireVars
<1>16. ASSUME UNCHANGED vars PROVE Typed'
  BY <1>1, <1>2, <1>16
     DEF vars, HostTyped, WireTypeOK, wireVars, HostTypeOK, Bounds, InCall,
         hostVars, bootVars, callVars
<1> QED BY <1>4, <1>5, <1>6, <1>7, <1>8, <1>9, <1>10, <1>11, <1>12, <1>13,
           <1>14, <1>15, <1>16 DEF Next

(***************************************************************************)
(* Type correctness, including the ranges a count only keeps because of    *)
(* the phase it is counted in.                                             *)
(***************************************************************************)
THEOREM TypeCorrect == Spec => []TypeOK
<1>1. Init => Typed
  BY InitTyped
<1>2. Typed /\ [Next]_vars => Typed'
  BY TypeStep
<1>3. Typed => TypeOK
  BY DEF Typed
<1> QED BY <1>1, <1>2, <1>3, PTL DEF Spec

-------------------------------------------------------------------------------
(***************************************************************************)
(* At most once.  A step does one of a few things to the stream to the     *)
(* agent: it shortens it, appends a unit of the current call, or appends   *)
(* the first unit of the next one.  Each keeps its order.                  *)
(***************************************************************************)
OrderInv == FramesAreNumbered /\ StreamInOrder /\ NothingOlder /\ AcceptedIsKnown
EffectsInv == EffectsBehind /\ AtMostOnce

\* What the agent remembers of the last request it accepted.
memory == <<lastReqValid, lastSeq, accepted>>
numbering == <<issued, callSeq>>

\* What is in flight to the agent was there before, in the same order.
ShrunkBy(d) ==
  \A i \in DOMAIN toAgent' :
    i + d \in DOMAIN toAgent /\ toAgent'[i] = toAgent[i + d]

LEMMA Shrinks ==
  ASSUME WireTypeOK
  PROVE  /\ UNCHANGED toAgent => ShrunkBy(0)
         /\ toAgent # <<>> /\ toAgent' = Tail(toAgent) => ShrunkBy(1)
         /\ toAgent' = <<>> => ShrunkBy(0)
<1>1. DOMAIN toAgent = 1 .. Len(toAgent)
  BY DEF WireTypeOK
<1>2. ASSUME UNCHANGED toAgent PROVE ShrunkBy(0)
  BY <1>1, <1>2 DEF ShrunkBy
<1>3. ASSUME toAgent # <<>>, toAgent' = Tail(toAgent) PROVE ShrunkBy(1)
  BY <1>3 DEF ShrunkBy, WireTypeOK
<1>4. ASSUME toAgent' = <<>> PROVE ShrunkBy(0)
  BY <1>4 DEF ShrunkBy
<1> QED BY <1>2, <1>3, <1>4

LEMMA Grows ==
  ASSUME WireTypeOK, NEW u, Send(u)
  PROVE  \A i \in DOMAIN toAgent' :
           \/ i \in DOMAIN toAgent /\ i < Len(toAgent) + 1 /\ toAgent'[i] = toAgent[i]
           \/ i = Len(toAgent) + 1 /\ toAgent'[i] = u
BY DEF WireTypeOK, Send

LEMMA UnitFields ==
  ASSUME WireTypeOK, NEW i \in DOMAIN toAgent
  PROVE  /\ toAgent[i].call \in 0 .. MaxCalls
         /\ toAgent[i].kind = "rest" => toAgent[i].call \in Calls
         /\ i \in Nat
<1>1. toAgent[i] \in ToAgentUnit /\ i \in Nat
  BY DEF WireTypeOK
<1> QED BY <1>1 DEF ToAgentUnit, Calls

\* The pairs of a shortened stream were pairs before.
LEMMA ShrunkInOrder ==
  ASSUME WireTypeOK, WireTypeOK', StreamInOrder, NEW d \in Nat, ShrunkBy(d)
  PROVE  StreamInOrder'
<1> SUFFICES ASSUME NEW i \in DOMAIN toAgent', NEW j \in DOMAIN toAgent', i < j
             PROVE  /\ toAgent'[i].call <= toAgent'[j].call
                    /\ EndsSession(toAgent'[i]) /\ toAgent'[j].kind = "rest"
                         => toAgent'[i].call < toAgent'[j].call
  BY DEF StreamInOrder, EndsSession
<1>1. i \in Nat /\ j \in Nat
  BY DEF WireTypeOK
<1>2. /\ i + d \in DOMAIN toAgent /\ toAgent'[i] = toAgent[i + d]
      /\ j + d \in DOMAIN toAgent /\ toAgent'[j] = toAgent[j + d]
  BY DEF ShrunkBy
<1>3. i + d < j + d
  BY <1>1
<1> QED BY <1>2, <1>3 DEF StreamInOrder

\* A step that shortens the stream and keeps both parties' counters.
LEMMA ShrunkKeepsOrder ==
  ASSUME WireTypeOK, WireTypeOK', OrderInv, NEW d \in Nat, ShrunkBy(d),
         UNCHANGED <<memory, numbering>>,
         InCall' => InCall, connected' /\ InCall' => connected
  PROVE  OrderInv'
<1>1. FramesAreNumbered'
  BY DEF OrderInv, FramesAreNumbered, ShrunkBy, numbering
<1>2. StreamInOrder'
  BY ShrunkInOrder DEF OrderInv
<1>3. NothingOlder'
  BY DEF OrderInv, NothingOlder, ShrunkBy, EndsSession, memory, numbering
<1>4. AcceptedIsKnown'
  BY DEF OrderInv, AcceptedIsKnown, Known, ShrunkBy, memory, numbering
<1> QED BY <1>1, <1>2, <1>3, <1>4 DEF OrderInv

\* The host appends a unit of the current call to the stream.
LEMMA SendKeepsOrder ==
  ASSUME WireTypeOK, WireTypeOK', HostTypeOK, OrderInv, NEW u, Send(u),
         UNCHANGED <<memory, numbering>>,
         u.call = issued,
         EndsSession(u) => ~InCall',
         u.kind = "rest" => /\ u.seq = callSeq[issued]
                            /\ InCall /\ connected,
         InCall' => InCall, connected' /\ InCall' => connected
  PROVE  OrderInv'
<1> USE DEF memory, numbering
<1>1. ASSUME NEW i \in DOMAIN toAgent'
      PROVE  \/ i \in DOMAIN toAgent /\ i < Len(toAgent) + 1 /\ toAgent'[i] = toAgent[i]
             \/ i = Len(toAgent) + 1 /\ toAgent'[i] = u
  BY Grows
<1>2. FramesAreNumbered'
  BY <1>1 DEF OrderInv, FramesAreNumbered
<1>3. ASSUME NEW i \in DOMAIN toAgent
      PROVE  /\ accepted <= toAgent[i].call /\ toAgent[i].call <= issued
             /\ InCall /\ EndsSession(toAgent[i]) => toAgent[i].call < issued
  BY DEF OrderInv, NothingOlder
<1>4. StreamInOrder'
  <2> SUFFICES ASSUME NEW i \in DOMAIN toAgent', NEW j \in DOMAIN toAgent', i < j
               PROVE  /\ toAgent'[i].call <= toAgent'[j].call
                      /\ EndsSession(toAgent'[i]) /\ toAgent'[j].kind = "rest"
                           => toAgent'[i].call < toAgent'[j].call
    BY DEF StreamInOrder, EndsSession
  <2>1. i \in Nat /\ j \in Nat /\ Len(toAgent) \in Nat
    BY DEF WireTypeOK
  <2>2. i \in DOMAIN toAgent /\ toAgent'[i] = toAgent[i]
    <3>1. CASE i = Len(toAgent) + 1
      <4>1. j <= Len(toAgent) + 1
        BY <1>1, <2>1
      <4> QED BY <2>1, <3>1, <4>1
    <3> QED BY <1>1, <3>1
  <2>3. CASE j \in DOMAIN toAgent /\ toAgent'[j] = toAgent[j]
    BY <2>2, <2>3 DEF OrderInv, StreamInOrder
  <2>4. CASE toAgent'[j] = u
    BY <1>3, <2>2, <2>4
  <2> QED BY <1>1, <2>3, <2>4
<1>5. NothingOlder'
  <2>1. accepted <= issued /\ issued <= issued
    BY DEF OrderInv, NothingOlder, HostTypeOK
  <2> QED BY <1>1, <1>3, <2>1 DEF NothingOlder, EndsSession
<1>6. AcceptedIsKnown'
  BY <1>1 DEF OrderInv, AcceptedIsKnown, Known
<1> QED BY <1>2, <1>4, <1>5, <1>6 DEF OrderInv

\* The first unit of the next call goes behind those of all earlier ones.
LEMMA StartKeepsOrder ==
  ASSUME WireTypeOK, WireTypeOK', HostTypeOK, OrderInv, accepted \in 0 .. MaxCalls,
         NEW op \in Ops, StartCall(op), UNCHANGED memory
  PROVE  OrderInv'
<1> DEFINE m == Magic(issued + 1)
<1>1. /\ issued \in Nat /\ issued' = issued + 1 /\ issued + 1 \in Calls
      /\ callSeq' = [callSeq EXCEPT ![issued + 1] = hostSeq]
      /\ m.kind = "magic" /\ m.call = issued + 1
      /\ accepted' = accepted
  BY DEF StartCall, HostTypeOK, Calls, Magic, Raw, memory
<1>2. ASSUME NEW i \in DOMAIN toAgent'
      PROVE  \/ i \in DOMAIN toAgent /\ i < Len(toAgent) + 1 /\ toAgent'[i] = toAgent[i]
             \/ i = Len(toAgent) + 1 /\ toAgent'[i] = m
  <2>1. CASE connected
    BY <2>1, Grows DEF StartCall
  <2>2. CASE ~connected
    BY <2>2 DEF StartCall, WireTypeOK
  <2> QED BY <2>1, <2>2
<1>3. ASSUME NEW i \in DOMAIN toAgent
      PROVE  /\ toAgent[i].call \in 0 .. MaxCalls
             /\ accepted <= toAgent[i].call /\ toAgent[i].call <= issued
             /\ toAgent[i].call < issued + 1
             /\ toAgent[i].kind = "rest" =>
                  callSeq'[toAgent[i].call] = callSeq[toAgent[i].call]
  <2>1. accepted <= toAgent[i].call /\ toAgent[i].call <= issued
    BY DEF OrderInv, NothingOlder
  <2>2. toAgent[i].call \in 0 .. MaxCalls /\ (toAgent[i].kind = "rest" => toAgent[i].call \in Calls)
    BY UnitFields
  <2> QED BY <1>1, <2>1, <2>2 DEF HostTypeOK
<1>4. accepted <= issued /\ accepted < issued + 1
  BY <1>1 DEF OrderInv, NothingOlder
<1>5. FramesAreNumbered'
  BY <1>1, <1>2, <1>3 DEF OrderInv, FramesAreNumbered
<1>6. StreamInOrder'
  <2> SUFFICES ASSUME NEW i \in DOMAIN toAgent', NEW j \in DOMAIN toAgent', i < j
               PROVE  /\ toAgent'[i].call <= toAgent'[j].call
                      /\ EndsSession(toAgent'[i]) /\ toAgent'[j].kind = "rest"
                           => toAgent'[i].call < toAgent'[j].call
    BY DEF StreamInOrder, EndsSession
  <2>1. i \in Nat /\ j \in Nat /\ Len(toAgent) \in Nat
    BY DEF WireTypeOK
  <2>2. i \in DOMAIN toAgent /\ toAgent'[i] = toAgent[i]
    <3>1. CASE i = Len(toAgent) + 1
      <4>1. j <= Len(toAgent) + 1
        BY <1>2, <2>1
      <4> QED BY <2>1, <3>1, <4>1
    <3> QED BY <1>2, <3>1
  <2>3. CASE j \in DOMAIN toAgent /\ toAgent'[j] = toAgent[j]
    BY <2>2, <2>3 DEF OrderInv, StreamInOrder
  <2>4. CASE toAgent'[j] = m
    BY <1>1, <1>3, <2>2, <2>4
  <2> QED BY <1>2, <2>3, <2>4
<1>7. NothingOlder'
  BY <1>1, <1>2, <1>3, <1>4 DEF NothingOlder, EndsSession
<1>8. AcceptedIsKnown'
  BY <1>1, <1>2, <1>4 DEF OrderInv, AcceptedIsKnown, Known, memory
<1> QED BY <1>5, <1>6, <1>7, <1>8 DEF OrderInv

\* The agent reads the first unit of the stream.
LEMMA ReadUnit ==
  ASSUME WireTypeOK, toAgent # <<>>, toAgent' = Tail(toAgent)
  PROVE  /\ 1 \in DOMAIN toAgent /\ Head(toAgent) = toAgent[1]
         /\ \A i \in DOMAIN toAgent' :
              i + 1 \in DOMAIN toAgent /\ 1 < i + 1 /\ toAgent'[i] = toAgent[i + 1]
BY DEF WireTypeOK

\* An escape or F ends what the agent remembers; no frame that is still on
\* its way can be of the call it had accepted.
LEMMA ForgettingKeepsOrder ==
  ASSUME WireTypeOK, WireTypeOK', HostTypeOK, AgentTypeOK, OrderInv,
         toAgent # <<>>, toAgent' = Tail(toAgent), EndsSession(Head(toAgent)),
         UNCHANGED <<accepted, hostVars>>
  PROVE  OrderInv'
<1> USE DEF hostVars, callVars
<1> DEFINE u == Head(toAgent)
<1>1. /\ 1 \in DOMAIN toAgent /\ u = toAgent[1]
      /\ \A i \in DOMAIN toAgent' :
           i + 1 \in DOMAIN toAgent /\ 1 < i + 1 /\ toAgent'[i] = toAgent[i + 1]
  BY ReadUnit
<1>2. FramesAreNumbered'
  BY <1>1 DEF OrderInv, FramesAreNumbered
<1>3. StreamInOrder'
  BY Shrinks, ShrunkInOrder DEF OrderInv
<1>4. NothingOlder'
  BY <1>1 DEF OrderInv, NothingOlder, EndsSession, InCall
<1>5. u.call \in 0 .. MaxCalls /\ accepted <= u.call /\ (InCall => u.call < issued)
  BY <1>1, UnitFields DEF OrderInv, NothingOlder
<1>6. AcceptedIsKnown'
  <2>1. ASSUME NEW i \in DOMAIN toAgent', toAgent'[i].kind = "rest"
        PROVE  toAgent'[i].call # accepted
    <3>1. toAgent[i + 1].call \in 0 .. MaxCalls
      BY <1>1, <2>1, UnitFields
    <3>2. u.call < toAgent[i + 1].call
      BY <1>1, <2>1 DEF OrderInv, StreamInOrder
    <3> QED BY <1>1, <1>5, <2>1, <3>1, <3>2 DEF AgentTypeOK
  <2>2. InCall => accepted # issued
    BY <1>5 DEF AgentTypeOK, HostTypeOK
  <2> QED BY <2>1, <2>2 DEF AcceptedIsKnown, InCall
<1> QED BY <1>2, <1>3, <1>4, <1>6 DEF OrderInv

\* Nothing is in flight, and the host is in no call on this stream.
LEMMA EmptyKeepsOrder ==
  ASSUME OrderInv, toAgent' = <<>>, InCall' => ~connected',
         UNCHANGED <<accepted, issued>>
  PROVE  OrderInv'
BY DEF OrderInv, FramesAreNumbered, StreamInOrder, NothingOlder, AcceptedIsKnown

\* A request is accepted: it becomes the one the agent remembers.
LEMMA AcceptKeepsOrder ==
  ASSUME WireTypeOK, WireTypeOK', HostTypeOK, AgentTypeOK, OrderInv,
         HasFrame, toAgent' = Tail(toAgent),
         accepted' = Frame.call, lastReqValid' = TRUE, lastSeq' = Frame.seq,
         UNCHANGED hostVars
  PROVE  OrderInv'
<1> USE DEF hostVars, callVars
<1>1. /\ 1 \in DOMAIN toAgent /\ Frame = toAgent[1] /\ Frame.kind = "rest"
      /\ \A i \in DOMAIN toAgent' :
           i + 1 \in DOMAIN toAgent /\ 1 < i + 1 /\ toAgent'[i] = toAgent[i + 1]
  BY ReadUnit DEF HasFrame, Frame
<1>2. FramesAreNumbered'
  BY <1>1 DEF OrderInv, FramesAreNumbered
<1>3. StreamInOrder'
  BY Shrinks, ShrunkInOrder DEF OrderInv, HasFrame
<1>4. NothingOlder'
  <2>1. Frame.call <= issued
    BY <1>1 DEF OrderInv, NothingOlder
  <2>2. ASSUME NEW i \in DOMAIN toAgent' PROVE Frame.call <= toAgent'[i].call
    BY <1>1 DEF OrderInv, StreamInOrder
  <2> QED BY <1>1, <2>1, <2>2 DEF OrderInv, NothingOlder, EndsSession, InCall
<1>5. Frame.seq = callSeq[Frame.call]
  BY <1>1 DEF OrderInv, FramesAreNumbered
<1>6. AcceptedIsKnown'
  <2>1. ASSUME NEW i \in DOMAIN toAgent', toAgent'[i].kind = "rest",
               toAgent'[i].call = Frame.call
        PROVE  toAgent'[i].seq = Frame.seq
    BY <1>1, <1>5, <2>1 DEF OrderInv, FramesAreNumbered
  <2> QED BY <1>5, <2>1 DEF AcceptedIsKnown, Known
<1> QED BY <1>2, <1>3, <1>4, <1>6 DEF OrderInv

\* A request the agent does not recognise had no effect yet: had it been
\* accepted before, the agent would know its number.
LEMMA Unserved ==
  ASSUME WireTypeOK, AgentTypeOK, OrderInv, EffectsInv, HasFrame, ~IsRepeat
  PROVE  /\ Frame.call \in Calls /\ accepted < Frame.call
         /\ effects[Frame.call] = 0
<1>1. /\ 1 \in DOMAIN toAgent /\ Frame = toAgent[1] /\ Frame.kind = "rest"
  BY DEF HasFrame, Frame, WireTypeOK
<1>2. Frame.call \in Calls /\ accepted <= Frame.call /\ accepted \in Nat
  BY <1>1, UnitFields DEF OrderInv, NothingOlder, AgentTypeOK
<1>3. Frame.call # accepted
  BY <1>1 DEF OrderInv, AcceptedIsKnown, Known, IsRepeat
<1> QED BY <1>2, <1>3 DEF EffectsInv, EffectsBehind, Calls

\* The one step that makes a call take effect finds that it had none.
LEMMA AcceptOnce ==
  ASSUME WireTypeOK, HostTypeOK, AgentTypeOK, OrderInv, EffectsInv,
         HasFrame, ~IsRepeat, accepted' = Frame.call,
         effects' \in {effects, [effects EXCEPT ![Frame.call] = @ + 1]}
  PROVE  EffectsInv'
<1>2. Frame.call \in Calls /\ accepted \in Nat
  BY Unserved DEF AgentTypeOK
<1>4. accepted < Frame.call /\ effects[Frame.call] = 0
  BY Unserved
<1>5. ASSUME NEW c \in Calls
      PROVE  IF c = Frame.call THEN effects'[c] \in {0, 1} ELSE effects'[c] = effects[c]
  <2>1. effects \in [Calls -> Nat]
    BY DEF AgentTypeOK
  <2>2. CASE effects' = effects
    BY <1>4, <2>2
  <2>3. CASE effects' = [effects EXCEPT ![Frame.call] = @ + 1]
    BY <1>2, <1>4, <2>1, <2>3
  <2> QED BY <2>2, <2>3
<1>6. ASSUME NEW c \in Calls, c > Frame.call PROVE effects'[c] = 0
  <2>1. c > accepted /\ c # Frame.call
    BY <1>2, <1>4, <1>6 DEF Calls
  <2> QED BY <1>5, <2>1 DEF EffectsInv, EffectsBehind
<1>7. EffectsBehind'
  BY <1>6 DEF EffectsBehind
<1>8. AtMostOnce'
  BY <1>5 DEF EffectsInv, AtMostOnce
<1> QED BY <1>7, <1>8 DEF EffectsInv

\* Steps of the host: a call, and a bootstrap.
LEMMA CallKeepsOrder ==
  ASSUME HostTyped, HostTyped', AgentTypeOK, OrderInv, UNCHANGED memory,
         \/ \E op \in Ops : StartCall(op)
         \/ WakeCredited \/ WakeMismatch \/ WakeTimeout \/ DiscardUnit
         \/ ReadAnswer \/ WaitTimeout \/ CallDisconnected
  PROVE  OrderInv'
<1> USE DEF HostTyped
<1>1. ASSUME NEW op \in Ops, StartCall(op) PROVE OrderInv'
  BY <1>1, StartKeepsOrder DEF AgentTypeOK
<1>2. ASSUME WakeCredited PROVE OrderInv'
  <2> DEFINE u == Rest(issued, callSeq[issued], callOp[issued])
  <2>1. u.call = issued /\ u.kind = "rest" /\ u.seq = callSeq[issued] /\ ~EndsSession(u)
    BY DEF Rest, EndsSession
  <2>2. InCall /\ connected /\ Send(u) /\ connected' /\ UNCHANGED numbering
    BY <1>2 DEF WakeCredited, InCall, numbering, callVars
  <2> QED BY <2>1, <2>2, SendKeepsOrder DEF numbering, memory
<1>3. ASSUME InCall, NextAttemptOrFail PROVE OrderInv'
  <2>1. CASE attempt <= Retries
    <3>1. Magic(issued).call = issued /\ Magic(issued).kind = "magic" /\ ~EndsSession(Magic(issued))
      BY DEF Magic, Raw, EndsSession
    <3>2. Send(Magic(issued)) /\ UNCHANGED <<connected, numbering>>
      BY <1>3, <2>1 DEF NextAttemptOrFail, numbering
    <3> QED BY <1>3, <3>1, <3>2, SendKeepsOrder DEF numbering, memory
  <2>2. CASE ~(attempt <= Retries)
    <3>1. UNCHANGED toAgent /\ UNCHANGED <<connected, numbering>> /\ ~InCall'
      BY <1>3, <2>2 DEF NextAttemptOrFail, Fail, numbering, InCall
    <3> QED BY <3>1, Shrinks, ShrunkKeepsOrder DEF numbering, memory
  <2> QED BY <2>1, <2>2
<1>4. ASSUME WakeMismatch \/ WakeTimeout \/ WaitTimeout PROVE OrderInv'
  BY <1>3, <1>4 DEF WakeMismatch, WakeTimeout, WaitTimeout, InCall
<1>5. ASSUME DiscardUnit \/ CallDisconnected PROVE OrderInv'
  <2>1. UNCHANGED <<toAgent, connected, numbering>> /\ (InCall' => InCall)
    BY <1>5 DEF DiscardUnit, CallDisconnected, Fail, numbering, InCall, wireVars,
                hostVars, callVars
  <2> QED BY <2>1, Shrinks, ShrunkKeepsOrder DEF numbering, memory
<1>6. ASSUME ReadAnswer PROVE OrderInv'
  <2>1. CASE Head(toHost).status = "CRC_ERROR" /\ attempt <= Retries
    BY <1>3, <1>6, <2>1 DEF ReadAnswer, InCall
  <2>2. CASE ~(Head(toHost).status = "CRC_ERROR" /\ attempt <= Retries)
    <3>1. UNCHANGED <<toAgent, connected, numbering>> /\ ~InCall'
      BY <1>6, <2>2 DEF ReadAnswer, Finish, numbering, InCall
    <3> QED BY <3>1, Shrinks, ShrunkKeepsOrder DEF numbering, memory
  <2> QED BY <2>1, <2>2
<1> QED BY <1>1, <1>2, <1>4, <1>5, <1>6

LEMMA BootKeepsOrder ==
  ASSUME HostTyped, HostTyped', AgentTypeOK, OrderInv, UNCHANGED memory,
         \/ Probe \/ Recover \/ ProbeRefused \/ EscapeCredited \/ SkipToHello
         \/ ReadHello \/ AskHello \/ ReadFeatures \/ SessionStarts
         \/ BootMismatch \/ BootTimeout \/ BootDisconnected
  PROVE  OrderInv'
<1>1. ~InCall' /\ UNCHANGED numbering
  BY DEF Probe, Recover, ProbeRefused, EscapeCredited, SkipToHello, ReadHello,
         AskHello, ReadFeatures, SessionStarts, BootMismatch, BootTimeout,
         BootDisconnected, BootFails, InCall, numbering, hostVars, callVars
<1>2. \/ UNCHANGED toAgent
      \/ \E k \in {"esc", "hello", "features", "framed"} : Send(Raw(k, issued))
  BY DEF Probe, Recover, ProbeRefused, EscapeCredited, SkipToHello, ReadHello,
         AskHello, ReadFeatures, SessionStarts, BootMismatch, BootTimeout,
         BootDisconnected, wireVars
<1>3. CASE UNCHANGED toAgent
  BY <1>1, <1>3, Shrinks, ShrunkKeepsOrder DEF HostTyped, numbering, memory
<1>4. ASSUME NEW k \in {"esc", "hello", "features", "framed"}, Send(Raw(k, issued))
      PROVE  OrderInv'
  <2>1. Raw(k, issued).call = issued /\ Raw(k, issued).kind # "rest"
    BY DEF Raw
  <2> QED BY <1>1, <1>4, <2>1, SendKeepsOrder DEF HostTyped, numbering, memory
<1> QED BY <1>2, <1>3, <1>4

\* Steps of the agent.
LEMMA RawKeepsOrder ==
  ASSUME HostTypeOK, AgentTyped, AgentTyped', OrderInv, UNCHANGED hostVars,
         \/ RawRefuse \/ RawHello \/ RawFeatures \/ RawFrameEnable
         \/ SeeMagic \/ SkipNoise \/ CountEscape \/ Rebootstrap \/ HookTimeout
  PROVE  OrderInv'
<1> USE DEF AgentTyped
<1>1. ASSUME RawFrameEnable \/ Rebootstrap PROVE OrderInv'
  <2>1. toAgent # <<>> /\ toAgent' = Tail(toAgent) /\ EndsSession(Head(toAgent))
    BY <1>1 DEF RawFrameEnable, Rebootstrap, Answer, SeesEscape, EndsSession
  <2>2. UNCHANGED accepted
    BY <1>1 DEF RawFrameEnable, Rebootstrap, ForgetSession, historyVars
  <2> QED BY <2>1, <2>2, ForgettingKeepsOrder
<1>2. UNCHANGED numbering /\ UNCHANGED connected /\ (InCall' => InCall)
  BY DEF hostVars, callVars, numbering, InCall
<1>3. ASSUME RawRefuse \/ RawHello \/ RawFeatures \/ SeeMagic \/ SkipNoise \/ CountEscape
      PROVE  OrderInv'
  <2>1. toAgent # <<>> /\ toAgent' = Tail(toAgent) /\ UNCHANGED memory
    BY <1>3 DEF RawRefuse, RawHello, RawFeatures, SeeMagic, SkipNoise, CountEscape,
                SeesEscape, Answer, Swallow, memory, agentVars, sessionVars,
                historyVars
  <2> QED BY <1>2, <2>1, Shrinks, ShrunkKeepsOrder DEF memory, numbering
<1>4. ASSUME HookTimeout PROVE OrderInv'
  <2>1. UNCHANGED toAgent /\ UNCHANGED memory
    BY <1>4 DEF HookTimeout, memory, historyVars, wireVars
  <2> QED BY <1>2, <2>1, Shrinks, ShrunkKeepsOrder DEF memory, numbering
<1> QED BY <1>1, <1>3, <1>4

LEMMA FrameKeepsOrder ==
  ASSUME HostTypeOK, AgentTyped, AgentTyped', OrderInv, UNCHANGED hostVars,
         NEW cut \in BOOLEAN,
         \/ \E st \in Results : Accept(st, cut) \/ Recompute(st, cut)
         \/ Conflict(cut) \/ Incomplete(cut) \/ Replay(cut) \/ BadCrc(cut)
  PROVE  OrderInv'
<1> USE DEF AgentTyped
<1>1. HasFrame /\ toAgent # <<>> /\ toAgent' = Tail(toAgent)
  BY DEF Accept, Recompute, Conflict, Incomplete, Replay, BadCrc, Refuse, Dispatch,
         Emit, HasFrame
<1>2. ASSUME NEW st \in Results, Accept(st, cut) PROVE OrderInv'
  BY <1>1, <1>2, AcceptKeepsOrder DEF Accept
<1>3. ASSUME \/ \E st \in Results : Recompute(st, cut)
             \/ Conflict(cut) \/ Incomplete(cut) \/ Replay(cut) \/ BadCrc(cut)
      PROVE  OrderInv'
  <2>1. UNCHANGED memory
    BY <1>3 DEF Recompute, Conflict, Incomplete, Replay, BadCrc, Refuse, memory,
                historyVars
  <2>2. UNCHANGED numbering /\ UNCHANGED connected /\ (InCall' => InCall)
    BY DEF hostVars, callVars, numbering, InCall
  <2> QED BY <1>1, <2>1, <2>2, Shrinks, ShrunkKeepsOrder DEF memory, numbering
<1> QED BY <1>2, <1>3

LEMMA FrameKeepsEffects ==
  ASSUME HostTypeOK, AgentTyped, OrderInv, EffectsInv, NEW cut \in BOOLEAN,
         \/ \E st \in Results : Accept(st, cut) \/ Recompute(st, cut)
         \/ Conflict(cut) \/ Incomplete(cut) \/ Replay(cut) \/ BadCrc(cut)
  PROVE  EffectsInv'
<1> USE DEF AgentTyped
<1>1. ASSUME NEW st \in Results, Accept(st, cut) PROVE EffectsInv'
  <2>1. effects' \in {effects, [effects EXCEPT ![Frame.call] = @ + 1]}
    BY <1>1 DEF Accept, Dispatch
  <2> QED BY <1>1, <2>1, AcceptOnce DEF Accept
<1>2. ASSUME UNCHANGED <<accepted, effects>> PROVE EffectsInv'
  BY <1>2 DEF EffectsInv, EffectsBehind, AtMostOnce
<1>3. ASSUME NEW st \in Results, Recompute(st, cut) PROVE EffectsInv'
  <2>1. Frame.op \notin Mutating
    BY <1>3 DEF Recompute, CachedIsBulk, Mutating
  <2>2. UNCHANGED <<accepted, effects>>
    BY <1>3, <2>1 DEF Recompute, Dispatch
  <2> QED BY <1>2, <2>2
<1>4. ASSUME Conflict(cut) \/ Incomplete(cut) \/ Replay(cut) \/ BadCrc(cut)
      PROVE  EffectsInv'
  BY <1>2, <1>4 DEF Conflict, Incomplete, Replay, BadCrc, Refuse, historyVars
<1> QED BY <1>1, <1>3, <1>4

-------------------------------------------------------------------------------
LEMMA InvIsTyped == AtMostOnceInv <=> Typed /\ OrderInv /\ EffectsInv
BY DEF AtMostOnceInv, Typed, OrderInv, EffectsInv

LEMMA InitInv == ASSUME Init PROVE AtMostOnceInv
<1>1. OrderInv
  BY DEF Init, HostInit, AgentInit, InCall, OrderInv, FramesAreNumbered,
         StreamInOrder, NothingOlder, AcceptedIsKnown
<1>2. EffectsInv
  BY DEF Init, AgentInit, EffectsInv, EffectsBehind, AtMostOnce
<1> QED BY <1>1, <1>2, InitTyped, InvIsTyped

LEMMA InvStep == ASSUME AtMostOnceInv, [Next]_vars PROVE AtMostOnceInv'
<1>1. Typed /\ Typed' /\ OrderInv /\ EffectsInv
  BY InvIsTyped, TypeStep
<1>2. /\ HostTyped /\ AgentTyped /\ HostTyped' /\ AgentTyped'
  BY <1>1 DEF Typed, TypeOK, HostTyped, AgentTyped
<1>3. ASSUME OrderInv', EffectsInv' PROVE AtMostOnceInv'
  BY <1>1, <1>3 DEF AtMostOnceInv, Typed, OrderInv, EffectsInv
<1>4. ASSUME UNCHANGED <<accepted, effects>> PROVE EffectsInv'
  BY <1>1, <1>4 DEF EffectsInv, EffectsBehind, AtMostOnce
<1>5. ASSUME UNCHANGED agentVars
      PROVE  UNCHANGED memory /\ UNCHANGED <<accepted, effects>>
  BY <1>5 DEF agentVars, sessionVars, historyVars, memory
<1>6. ASSUME \/ \E op \in Ops : HostCalls(op)
             \/ HostBoots \/ HostHears \/ HostGivesUp \/ HostLosesStream
      PROVE  AtMostOnceInv'
  <2>1. UNCHANGED agentVars
    BY <1>6 DEF HostCalls, HostBoots, HostHears, HostGivesUp, HostLosesStream
  <2>2. OrderInv'
    BY <1>1, <1>2, <1>5, <1>6, <2>1, CallKeepsOrder, BootKeepsOrder
       DEF HostCalls, HostBoots, HostHears, HostReads, HostGivesUp, HostTimeouts,
           HostLosesStream, HostDisconnected, AgentTyped
  <2> QED BY <1>3, <1>4, <1>5, <2>1, <2>2
<1>7. ASSUME AgentHears \/ AgentStumbles \/ AgentStops PROVE AtMostOnceInv'
  <2> DEFINE Reads == \/ RawRefuse \/ RawHello \/ RawFeatures \/ RawFrameEnable
                      \/ SeeMagic \/ SkipNoise \/ CountEscape \/ Rebootstrap
                      \/ HookTimeout
             Frames(cut) ==
               \/ \E st \in Results : Accept(st, cut) \/ Recompute(st, cut)
               \/ Conflict(cut) \/ Incomplete(cut) \/ Replay(cut) \/ BadCrc(cut)
  <2>1. UNCHANGED hostVars /\ (Reads \/ \E cut \in BOOLEAN : Frames(cut))
    BY <1>7 DEF AgentHears, AgentReads, AgentStumbles, AgentCut, AgentRejectsCrc,
                AgentStops
  <2>2. CASE Reads
    <3>1. OrderInv'
      BY <1>1, <1>2, <2>1, <2>2, RawKeepsOrder DEF HostTyped
    <3>2. UNCHANGED <<accepted, effects>>
      BY <2>2 DEF RawRefuse, RawHello, RawFeatures, RawFrameEnable, SeeMagic,
                  SkipNoise, CountEscape, Rebootstrap, ForgetSession, HookTimeout,
                  agentVars, historyVars
    <3> QED BY <1>3, <1>4, <3>1, <3>2
  <2>3. ASSUME NEW cut \in BOOLEAN, Frames(cut) PROVE AtMostOnceInv'
    <3>1. OrderInv'
      BY <1>1, <1>2, <2>1, <2>3, FrameKeepsOrder DEF HostTyped
    <3>2. EffectsInv'
      BY <1>1, <1>2, <2>3, FrameKeepsEffects DEF HostTyped
    <3> QED BY <1>3, <3>1, <3>2
  <2> QED BY <2>1, <2>2, <2>3
<1>8. ASSUME Lose \/ UNCHANGED vars PROVE AtMostOnceInv'
  <2>1. UNCHANGED <<hostVars, agentVars>>
    BY <1>8 DEF Lose, vars
  <2>2. UNCHANGED toAgent \/ (toAgent # <<>> /\ toAgent' = Tail(toAgent))
    BY <1>8 DEF Lose, LoseToAgent, LoseToHost, vars, wireVars
  <2>3. UNCHANGED <<memory, numbering>> /\ UNCHANGED connected /\ (InCall' => InCall)
    BY <1>5, <2>1 DEF hostVars, callVars, numbering, InCall
  <2>4. OrderInv'
    BY <1>1, <1>2, <2>2, <2>3, Shrinks, ShrunkKeepsOrder
       DEF HostTyped, memory, numbering
  <2> QED BY <1>3, <1>4, <1>5, <2>1, <2>4
<1>9. ASSUME Disconnect \/ Reconnect PROVE AtMostOnceInv'
  <2>1. toAgent' = <<>> /\ UNCHANGED <<accepted, effects, issued>>
    BY <1>9 DEF Disconnect, Reconnect, Attach, SessionReset, ForgetSession,
                historyVars, callVars
  <2>2. InCall' => ~connected'
    BY <1>9 DEF Disconnect, Reconnect, Attach, InCall
  <2> QED BY <1>1, <1>3, <1>4, <2>1, <2>2, EmptyKeepsOrder
<1>10. ASSUME Reopen PROVE AtMostOnceInv'
  <2>1. toAgent' = <<>> /\ UNCHANGED agentVars /\ UNCHANGED issued /\ ~InCall'
    BY <1>10 DEF Reopen, Attach, wireVars, InCall
  <2> QED BY <1>1, <1>3, <1>4, <1>5, <2>1, EmptyKeepsOrder DEF memory
<1> QED BY <1>6, <1>7, <1>8, <1>9, <1>10 DEF Next

(***************************************************************************)
(* A call takes effect at most once, for every number of retries and       *)
(* however short the sequence numbers are: what rules a second effect out  *)
(* is the order of the stream and the memory of one request, not the range *)
(* of the numbers.                                                         *)
(***************************************************************************)
THEOREM EffectsAtMostOnce == Spec => []AtMostOnce
<1>1. Init => AtMostOnceInv
  BY InitInv
<1>2. AtMostOnceInv /\ [Next]_vars => AtMostOnceInv'
  BY InvStep
<1>3. AtMostOnceInv => AtMostOnce
  BY DEF AtMostOnceInv
<1> QED BY <1>1, <1>2, <1>3, PTL DEF Spec

-------------------------------------------------------------------------------
(***************************************************************************)
(* Quarantine.  A quarantined host is between its operations, and every    *)
(* operation that writes asks whether it is quarantined.                   *)
(***************************************************************************)
AtRest == quarantined => phase \in {"down", "idle"}

LEMMA RestStep == ASSUME AtRest, [Next]_vars PROVE AtRest'
<1> USE DEF AtRest
<1>1. ASSUME UNCHANGED hostVars \/ UNCHANGED <<phase, quarantined>> PROVE AtRest'
  BY <1>1 DEF hostVars
<1>2. ASSUME NextAttemptOrFail, InCall PROVE AtRest'
  BY <1>2 DEF NextAttemptOrFail, Fail, InCall
<1>3. ASSUME NEW stop, BootFails(stop) PROVE AtRest'
  BY <1>3 DEF BootFails
<1>4. ASSUME \E op \in Ops : HostCalls(op) PROVE AtRest'
  BY <1>4 DEF HostCalls, StartCall
<1>5. ASSUME HostBoots PROVE AtRest'
  BY <1>5 DEF HostBoots, Probe, Recover
<1>6. ASSUME HostHears PROVE AtRest'
  <2>1. ASSUME WakeMismatch \/ ReadAnswer PROVE AtRest'
    BY <1>2, <2>1 DEF WakeMismatch, ReadAnswer, Finish, InCall
  <2>2. ASSUME WakeCredited \/ ProbeRefused \/ EscapeCredited \/ ReadHello \/ ReadFeatures
               \/ SessionStarts
        PROVE  AtRest'
    BY <2>2 DEF WakeCredited, ProbeRefused, EscapeCredited, ReadHello, ReadFeatures,
                SessionStarts
  <2>3. ASSUME DiscardUnit \/ SkipToHello PROVE AtRest'
    BY <1>1, <2>3 DEF DiscardUnit, SkipToHello
  <2> QED BY <1>3, <1>6, <2>1, <2>2, <2>3 DEF HostHears, HostReads, BootMismatch
<1>7. ASSUME HostGivesUp PROVE AtRest'
  BY <1>1, <1>2, <1>3, <1>7 DEF HostGivesUp, HostTimeouts, WakeTimeout, WaitTimeout,
                                AskHello, BootTimeout, InCall
<1>8. ASSUME HostLosesStream PROVE AtRest'
  BY <1>3, <1>8 DEF HostLosesStream, HostDisconnected, CallDisconnected, Fail,
                    BootDisconnected
<1>9. ASSUME AgentHears \/ AgentStumbles \/ AgentStops \/ Lose \/ Disconnect
             \/ UNCHANGED vars
      PROVE  AtRest'
  BY <1>1, <1>9 DEF AgentHears, AgentStumbles, AgentStops, Lose, Disconnect, vars
<1>10. ASSUME Reconnect \/ Reopen PROVE AtRest'
  BY <1>10 DEF Reconnect, Reopen, Attach
<1> QED BY <1>4, <1>5, <1>6, <1>7, <1>8, <1>9, <1>10 DEF Next

LEMMA SilentStep ==
  ASSUME TypeOK, AtRest, [Next]_vars, quarantined, quarantined'
  PROVE  Len(toAgent') <= Len(toAgent)
<1>1. ~InCall /\ phase \notin {"probe", "escape", "hello", "features", "upgrade", "wait"}
  BY DEF AtRest, InCall
<1>2. /\ ~HostBoots /\ ~HostHears /\ ~HostGivesUp /\ ~HostLosesStream
      /\ \A op \in Ops : ~HostCalls(op)
      /\ ~Reconnect /\ ~Reopen
  BY <1>1 DEF HostCalls, StartCall, HostBoots, Probe, Recover, HostHears, HostReads,
              WakeCredited, WakeMismatch, DiscardUnit, ReadAnswer, ProbeRefused,
              EscapeCredited, SkipToHello, ReadHello, ReadFeatures, SessionStarts,
              BootMismatch, HostGivesUp, HostTimeouts, WakeTimeout, WaitTimeout,
              AskHello, BootTimeout, HostLosesStream, HostDisconnected,
              CallDisconnected, BootDisconnected, InCall, Reconnect, Reopen, Attach
<1>3. \/ UNCHANGED toAgent \/ toAgent' = <<>>
      \/ (toAgent # <<>> /\ toAgent' = Tail(toAgent))
  <2>1. ASSUME AgentHears \/ AgentStumbles PROVE toAgent # <<>> /\ toAgent' = Tail(toAgent)
    BY <2>1
       DEF AgentHears, AgentReads, AgentStumbles, AgentCut, AgentRejectsCrc,
           RawRefuse, RawHello, RawFeatures, RawFrameEnable, SeeMagic, SkipNoise,
           CountEscape, SeesEscape, Rebootstrap, Accept, Recompute, Conflict,
           Incomplete, Replay, BadCrc, HasFrame, Refuse, Dispatch, Emit, Answer,
           Swallow
  <2>2. ASSUME AgentStops \/ UNCHANGED vars PROVE UNCHANGED toAgent
    BY <2>2 DEF AgentStops, HookTimeout, vars, wireVars
  <2>3. ASSUME Lose PROVE UNCHANGED toAgent \/ (toAgent # <<>> /\ toAgent' = Tail(toAgent))
    BY <2>3 DEF Lose, LoseToAgent, LoseToHost
  <2> QED BY <1>2, <2>1, <2>2, <2>3 DEF Next, Disconnect
<1>4. toAgent \in Seq(ToAgentUnit)
  BY DEF TypeOK, WireTypeOK
<1>5. ASSUME toAgent # <<>> PROVE Len(Tail(toAgent)) <= Len(toAgent)
  BY <1>4, <1>5
<1> QED BY <1>3, <1>4, <1>5

(***************************************************************************)
(* A quarantined attachment sends nothing, in every profile: also when the *)
(* session would still have retries, and whatever the stream delivers.     *)
(***************************************************************************)
THEOREM QuarantineSendsNothing == Spec => QuarantineIsSilent
<1>1. Init => AtRest
  BY DEF Init, HostInit, AtRest
<1>2. AtRest /\ [Next]_vars => AtRest'
  BY RestStep
<1>3. TypeOK /\ AtRest /\ [Next]_vars
        => [quarantined /\ quarantined' => Len(toAgent') <= Len(toAgent)]_vars
  BY SilentStep
<1>4. Spec => []TypeOK
  BY TypeCorrect
<1> QED BY <1>1, <1>2, <1>3, <1>4, PTL DEF Spec, QuarantineIsSilent

-------------------------------------------------------------------------------
(***************************************************************************)
(* The safe profile over TCP: host and agent in lockstep.  LockStepInv is  *)
(* proved action by action: first what reading and writing does to a       *)
(* stream, then the host's steps, the agent's, and the environment's.      *)
(***************************************************************************)
LEMMA TailElements ==
  ASSUME NEW S, NEW q \in Seq(S), q # <<>>
  PROVE  /\ 1 \in DOMAIN q /\ Head(q) = q[1]
         /\ Len(q) \in Nat /\ Len(q) > 0 /\ Len(Tail(q)) = Len(q) - 1
         /\ \A i \in DOMAIN Tail(q) :
              /\ i \in Nat /\ i > 0 /\ i + 1 \in DOMAIN q
              /\ Tail(q)[i] = q[i + 1]
         /\ Len(q) = 1 => Tail(q) = <<>>
<1>1. /\ 1 \in DOMAIN q /\ Head(q) = q[1]
      /\ Len(q) \in Nat /\ Len(q) > 0 /\ Len(Tail(q)) = Len(q) - 1
      /\ \A i \in DOMAIN Tail(q) :
           /\ i \in Nat /\ i > 0 /\ i + 1 \in DOMAIN q
           /\ Tail(q)[i] = q[i + 1]
  OBVIOUS
<1>2. Tail(q) \in Seq(S)
  OBVIOUS
<1>3. ASSUME NEW r \in Seq(S), Len(r) = 0 PROVE r = <<>>
  BY <1>3
<1> QED BY <1>1, <1>2, <1>3

LEMMA AppendElements ==
  ASSUME NEW S, NEW q \in Seq(S), NEW u
  PROVE  /\ Append(q, u) # <<>>
         /\ Len(Append(q, u)) = Len(q) + 1 /\ Len(q) \in Nat
         /\ \A i \in DOMAIN Append(q, u) :
              \/ i \in DOMAIN q /\ i < Len(q) + 1 /\ Append(q, u)[i] = q[i]
              \/ i = Len(q) + 1 /\ Append(q, u)[i] = u
OBVIOUS

\* A stream of one unit: how it comes about, and what reading leaves of it.
LEMMA OneWritten ==
  ASSUME NEW u, NEW kinds, u.kind \in kinds
  PROVE  /\ One(Append(<<>>, u), kinds) /\ Append(<<>>, u)[1] = u
         /\ Append(<<>>, u) # <<>> /\ DOMAIN Append(<<>>, u) = {1}
BY DEF One

LEMMA OneRead ==
  ASSUME NEW S, NEW q \in Seq(S), NEW kinds, One(q, kinds)
  PROVE  /\ q # <<>> /\ Head(q) = q[1] /\ Head(q).kind \in kinds
         /\ Tail(q) = <<>> /\ DOMAIN q = {1}
<1>1. q # <<>> /\ Head(q) = q[1] /\ DOMAIN q = {1}
  BY DEF One
<1> QED BY <1>1, TailElements DEF One

Usable == connected /\ ~quarantined

\* What the steps below preserve, beside AtMostOnceInv.
StepInv ==
  /\ quarantined => phase \in {"down", "idle"}
  /\ ~connected => toAgent = <<>> /\ toHost = <<>>
  /\ Usable => PhaseStep
  /\ FrameStep /\ CallsInOrder

LEMMA LockStepParts == LockStepInv <=> AtMostOnceInv /\ StepInv
BY DEF LockStepInv, StepInv, Usable

\* What the invariants of the earlier proofs say of both sides.
LEMMA StepTypes ==
  ASSUME AtMostOnceInv
  PROVE  /\ toAgent \in Seq(ToAgentUnit) /\ toHost \in Seq(ToHostUnit)
         /\ HostTypeOK /\ AgentTypeOK /\ HostTyped /\ AgentTyped
         /\ OrderInv /\ EffectsInv
         /\ phase \in Phases /\ issued \in Nat /\ issued <= MaxCalls
         /\ InCall => issued \in Calls /\ callOp[issued] \in Ops
         /\ outcome \in [Calls -> Outcomes] /\ callSeq \in [Calls -> Sequence]
BY DEF AtMostOnceInv, TypeOK, WireTypeOK, HostTypeOK, AgentTypeOK, HostTyped,
       AgentTyped, OrderInv, EffectsInv, Bounds

\* No frame is in flight, whoever sent what else.
LEMMA NoFrame ==
  ASSUME \A i \in DOMAIN toAgent : toAgent[i].kind # "rest"
  PROVE  FrameStep
BY DEF FrameStep

-------------------------------------------------------------------------------
\* A call starts, and its "M" is credited.
LEMMA StartInStep ==
  ASSUME SafeProfile, AtMostOnceInv, StepInv, NEW op \in Ops, StartCall(op),
         UNCHANGED agentVars
  PROVE  StepInv'
<1> USE DEF agentVars, sessionVars, historyVars
<1> DEFINE m == Magic(issued + 1)
<1>1. /\ issued \in Nat /\ issued + 1 \in Calls /\ ~quarantined
      /\ outcome \in [Calls -> Outcomes] /\ callSeq \in [Calls -> Sequence]
      /\ hostSeq \in Sequence
  BY StepTypes DEF StartCall, HostTypeOK, Calls
<1>2. toAgent = <<>> /\ toHost = <<>> /\ UNCHANGED <<toHost, connected, quarantined>>
  BY DEF StartCall, StepInv, Usable, PhaseStep, IdleStep
<1>3. m.kind = "magic"
  BY DEF Magic, Raw
<1>4. ASSUME connected
      PROVE  /\ One(toAgent', {"magic"})
             /\ \A i \in DOMAIN toAgent' : toAgent'[i].kind # "rest"
  BY <1>2, <1>3, <1>4, OneWritten DEF StartCall, Send
<1>5. ASSUME ~connected PROVE toAgent' = <<>>
  BY <1>2, <1>5 DEF StartCall
<1>6. FrameStep'
  BY <1>4, <1>5 DEF FrameStep
<1>7. CallsInOrder'
  <2>1. /\ outcome' = [outcome EXCEPT ![issued + 1] = "pending"]
        /\ issued' = issued + 1 /\ attempt' = 1 /\ Retries = 0
    BY DEF StartCall, SafeProfile
  <2>2. \A c \in Calls : c > issued + 1 => outcome'[c] = "none"
    BY <1>1, <2>1 DEF StepInv, CallsInOrder, Calls
  <2> QED BY <1>1, <2>1, <2>2 DEF StepInv, CallsInOrder
<1>8. ASSUME connected PROVE WakeStep'
  <2>1. framed /\ hostSeq = nextSeq
    BY <1>1, <1>8 DEF StepInv, Usable, PhaseStep, IdleStep, StartCall
  <2>2. /\ callSeq' = [callSeq EXCEPT ![issued + 1] = hostSeq]
        /\ issued' = issued + 1 /\ hostSeq' = NextSequence(hostSeq)
    BY DEF StartCall
  <2>3. callSeq'[issued'] = hostSeq
    BY <1>1, <2>2
  <2> QED BY <1>2, <1>4, <1>8, <2>1, <2>2, <2>3 DEF WakeStep, Lone
<1>9. phase' = "wake"
  BY DEF StartCall
<1> QED BY <1>1, <1>2, <1>5, <1>6, <1>7, <1>8, <1>9 DEF StepInv, Usable, PhaseStep

LEMMA CreditInStep ==
  ASSUME SafeProfile, AtMostOnceInv, StepInv, WakeCredited, UNCHANGED agentVars
  PROVE  StepInv'
<1> USE DEF agentVars, sessionVars, historyVars
<1> DEFINE u == Rest(issued, callSeq[issued], callOp[issued])
<1>1. Usable /\ WakeStep /\ InCall
  BY DEF WakeCredited, StepInv, Usable, PhaseStep, InCall
<1>2. toAgent = <<>> /\ toHost' = <<>>
  <2>1. One(toHost, {"credit"}) /\ toAgent = <<>>
    BY <1>1 DEF WakeCredited, Sees, WakeStep, Lone
  <2> QED BY <2>1, StepTypes, OneRead DEF WakeCredited
<1>3. /\ u.kind = "rest" /\ u.call = issued /\ u.op = callOp[issued]
      /\ u.seq = callSeq[issued]
  BY DEF Rest
<1>4. /\ One(toAgent', {"rest"}) /\ toAgent'[1] = u /\ DOMAIN toAgent' = {1}
  BY <1>2, <1>3, OneWritten DEF WakeCredited, Send
<1>5. UNCHANGED <<phase, connected, quarantined, callVars>> \/ phase' = "wait"
  BY DEF WakeCredited
<1>6. phase' = "wait" /\ UNCHANGED <<connected, quarantined, callVars>>
  BY DEF WakeCredited
<1>7. FrameStep'
  BY <1>1, <1>3, <1>4, <1>6 DEF FrameStep, WakeStep, StepInv, CallsInOrder, One, callVars
<1>8. CallsInOrder'
  BY <1>1, <1>6 DEF StepInv, CallsInOrder, InCall, callVars
<1>9. WaitStep'
  BY <1>1, <1>2, <1>4, <1>6 DEF WaitStep, WakeStep, Lone, One, callVars
<1> QED BY <1>1, <1>6, <1>7, <1>8, <1>9 DEF StepInv, Usable, PhaseStep

\* A call fails: the attachment is quarantined.
LEMMA FailInStep ==
  ASSUME SafeProfile, AtMostOnceInv, StepInv, InCall, Fail, UNCHANGED agentVars,
         UNCHANGED toAgent, ~connected => UNCHANGED toHost
  PROVE  StepInv'
<1> USE DEF agentVars, sessionVars, historyVars
<1>1. /\ quarantined' /\ phase' = "idle" /\ UNCHANGED <<connected, issued, attempt, callOp>>
      /\ outcome' = [outcome EXCEPT ![issued] = "unknown"]
      /\ issued \in Calls /\ outcome \in [Calls -> Outcomes]
  BY StepTypes DEF Fail, SafeProfile
<1>2. FrameStep'
  BY <1>1 DEF FrameStep, StepInv
<1>3. CallsInOrder'
  BY <1>1 DEF StepInv, CallsInOrder, InCall, Calls
<1> QED BY <1>1, <1>2, <1>3 DEF StepInv, Usable

LEMMA NoRetry ==
  ASSUME AtMostOnceInv, StepInv, InCall, NextAttemptOrFail
  PROVE  Fail /\ UNCHANGED toAgent
<1>1. attempt > Retries /\ attempt \in Nat
  BY StepTypes DEF StepInv, CallsInOrder, HostTypeOK
<1>2. ~(attempt <= Retries)
  BY <1>1
<1> QED BY <1>2 DEF NextAttemptOrFail

\* A call waits: noise is skipped, the answer ends it, a deadline fails it.
LEMMA WaitInStep ==
  ASSUME SafeProfile, AtMostOnceInv, StepInv, UNCHANGED agentVars,
         WakeMismatch \/ WakeTimeout \/ DiscardUnit \/ ReadAnswer \/ WaitTimeout
           \/ CallDisconnected
  PROVE  StepInv'
<1> USE DEF agentVars, sessionVars, historyVars
<1>1. toHost \in Seq(ToHostUnit)
  BY StepTypes
<1>2. ASSUME WakeMismatch PROVE FALSE
  <2>1. toHost # <<>> /\ Head(toHost).kind # "credit" /\ WakeStep
    BY <1>2 DEF WakeMismatch, SeesOther, StepInv, Usable, PhaseStep
  <2>2. One(toHost, {"credit"})
    BY <2>1 DEF WakeStep, Lone
  <2> QED BY <1>1, <2>1, <2>2, OneRead
<1>3. ASSUME WakeTimeout \/ WaitTimeout PROVE StepInv'
  <2>1. InCall /\ connected /\ Fail /\ UNCHANGED toAgent
    BY <1>3, NoRetry DEF WakeTimeout, WaitTimeout, InCall
  <2> QED BY <2>1, FailInStep
<1>4. ASSUME CallDisconnected PROVE StepInv'
  BY <1>4, FailInStep DEF CallDisconnected, wireVars
<1>5. ASSUME phase = "wait", connected, toHost # <<>>
      PROVE  /\ Usable /\ WaitStep /\ InCall
             /\ One(toHost, {"response", "torn"}) /\ toAgent = <<>>
             /\ Head(toHost) = toHost[1] /\ Tail(toHost) = <<>>
  <2>1. Usable /\ WaitStep /\ InCall
    BY <1>5 DEF StepInv, Usable, PhaseStep, InCall
  <2>2. One(toHost, {"response", "torn"}) /\ toAgent = <<>>
    BY <1>5, <2>1 DEF WaitStep, Lone
  <2> QED BY <1>1, <2>1, <2>2, OneRead
<1>6. ASSUME DiscardUnit PROVE StepInv'
  <2>1. toHost' = <<>> /\ toAgent' = <<>> /\ UNCHANGED hostVars /\ WaitStep /\ phase = "wait"
    BY <1>5, <1>6 DEF DiscardUnit
  <2>2. FrameStep' /\ CallsInOrder'
    BY <2>1 DEF FrameStep, StepInv, CallsInOrder, hostVars, callVars, InCall
  <2>3. WaitStep'
    BY <2>1 DEF WaitStep, Lone, One, hostVars, callVars
  <2> QED BY <2>1, <2>2, <2>3 DEF StepInv, Usable, PhaseStep, hostVars
<1>7. ASSUME ReadAnswer PROVE StepInv'
  <2>1. /\ Usable /\ WaitStep /\ InCall /\ toAgent = <<>> /\ toHost' = <<>>
        /\ toHost[1].kind = "response" /\ Head(toHost) = toHost[1]
        /\ One(toHost, {"response"})
    BY <1>5, <1>7 DEF ReadAnswer, Answers, One
  <2>2. toHost[1].status \in Results /\ hostSeq = nextSeq /\ framed
    BY <2>1 DEF WaitStep, Faithful
  <2>3. PICK result : Finish(result) /\ UNCHANGED toAgent
    BY <1>7, <2>1, <2>2 DEF ReadAnswer, Results
  <2>4. /\ phase' = "idle" /\ UNCHANGED <<connected, quarantined, hostSeq, issued>>
        /\ outcome' = [outcome EXCEPT ![issued] = result]
        /\ issued \in Calls /\ outcome \in [Calls -> Outcomes]
    BY <2>1, <2>3, StepTypes DEF Finish
  <2>5. FrameStep'
    BY <2>1, <2>3 DEF FrameStep
  <2>6. CallsInOrder'
    BY <2>4 DEF StepInv, CallsInOrder, InCall, Calls
  <2>7. IdleStep'
    BY <2>1, <2>2, <2>3, <2>4 DEF IdleStep
  <2> QED BY <2>1, <2>4, <2>5, <2>6, <2>7 DEF StepInv, Usable, PhaseStep
<1> QED BY <1>2, <1>3, <1>4, <1>6, <1>7

-------------------------------------------------------------------------------
(* A bootstrap: no frame is in flight, and no call under way. *)

\* Calls, their results and the agent's memory stay as they are.
LEMMA BootInOrder ==
  ASSUME StepInv, UNCHANGED <<issued, outcome>>, ~InCall', UNCHANGED agentVars
  PROVE  CallsInOrder'
BY DEF StepInv, CallsInOrder, agentVars, sessionVars

LEMMA ProbeInStep ==
  ASSUME SafeProfile, AtMostOnceInv, StepInv, UNCHANGED agentVars, Probe \/ Recover
  PROVE  StepInv'
<1> DEFINE u == Raw("esc", issued)
<1>1. /\ toAgent \in Seq(ToAgentUnit) /\ toHost \in Seq(ToHostUnit)
      /\ Usable /\ (DownStep \/ (toAgent = <<>> /\ toHost' = <<>>))
      /\ toHost' \in {toHost, <<>>}
      /\ toAgent' = Append(toAgent, u) /\ u.kind = "esc"
  BY StepTypes DEF Probe, Recover, StepInv, Usable, PhaseStep, IdleStep, Send, Raw
<1>2. /\ phase' \in {"probe", "escape"} /\ UNCHANGED <<connected, quarantined, issued, outcome>>
      /\ UNCHANGED framed
  BY DEF Probe, Recover, callVars, agentVars, sessionVars
<1>3. \A i \in DOMAIN toAgent' :
        \/ i \in DOMAIN toAgent /\ toAgent'[i] = toAgent[i]
        \/ i = Len(toAgent') /\ toAgent'[i] = u
  BY <1>1, AppendElements
<1>4. /\ \A i \in DOMAIN toAgent : toAgent[i].kind \in {"hello", "features", "framed"}
      /\ \A i \in DOMAIN toHost' : toHost'[i].kind \notin {"refused", "credit"}
  BY <1>1 DEF DownStep
<1>5. EscapeStep'
  BY <1>1, <1>3, <1>4 DEF EscapeStep
<1>6. FrameStep'
  BY <1>1, <1>3, <1>4 DEF FrameStep
<1> QED BY <1>1, <1>2, <1>5, <1>6, BootInOrder DEF StepInv, Usable, PhaseStep, InCall

\* The answer to an escape: the agent was in raw mode, or counts it.
LEMMA EscapeInStep ==
  ASSUME SafeProfile, AtMostOnceInv, StepInv, UNCHANGED agentVars,
         ProbeRefused \/ EscapeCredited
  PROVE  StepInv'
<1>1. /\ toAgent \in Seq(ToAgentUnit) /\ toHost \in Seq(ToHostUnit)
      /\ Usable /\ EscapeStep /\ toHost # <<>> /\ toHost' = Tail(toHost)
      /\ UNCHANGED <<connected, quarantined, issued, outcome, framed>>
  BY StepTypes DEF ProbeRefused, EscapeCredited, Sees, StepInv, Usable, PhaseStep,
                   callVars, agentVars, sessionVars
<1>2. /\ 1 \in DOMAIN toHost /\ Head(toHost) = toHost[1] /\ Len(toHost) \in Nat
      /\ Len(toHost) > 0 /\ Len(toHost') = Len(toHost) - 1
      /\ \A i \in DOMAIN toHost' : i \in Nat /\ i > 0 /\ i + 1 \in DOMAIN toHost
                                   /\ toHost'[i] = toHost[i + 1]
      /\ Len(toHost) = 1 => toHost' = <<>>
  BY <1>1, TailElements
<1>3. ASSUME ProbeRefused PROVE StepInv'
  <2> DEFINE u == Raw("hello", issued)
  <2>1. toHost' = <<>> /\ toAgent = <<>>
    BY <1>1, <1>2, <1>3 DEF ProbeRefused, Sees, EscapeStep
  <2>2. /\ One(toAgent', {"hello"}) /\ DOMAIN toAgent' = {1} /\ toAgent'[1].kind = "hello"
        /\ asked' /\ phase' = "hello"
    BY <1>3, <2>1, OneWritten DEF ProbeRefused, Send, Raw
  <2>3. HelloStep' /\ FrameStep'
    BY <2>1, <2>2 DEF HelloStep, Lone, FrameStep
  <2> QED BY <1>1, <2>2, <2>3, BootInOrder DEF StepInv, Usable, PhaseStep, InCall
<1>4. ASSUME EscapeCredited PROVE StepInv'
  <2>1. /\ toAgent = <<>>
        /\ 1 < Len(toHost) => 2 = Len(toHost) /\ toHost[2].kind = "hello" /\ ~framed
    <3>1. toHost[1].kind = "credit"
      BY <1>2, <1>4 DEF EscapeCredited, Sees
    <3>2. /\ toAgent = <<>>
          /\ 1 < Len(toHost) =>
               1 + 1 = Len(toHost) /\ toHost[1 + 1].kind = "hello" /\ ~framed
      BY <1>1, <1>2, <3>1 DEF EscapeStep
    <3> QED BY <3>2
  <2>2. toHost' # <<>> => One(toHost', {"hello"}) /\ ~framed
    <3> SUFFICES ASSUME toHost' # <<>> PROVE One(toHost', {"hello"}) /\ ~framed
      OBVIOUS
    <3>1. Len(toHost) = 2 /\ toHost[2].kind = "hello" /\ ~framed /\ Len(toHost') = 1
      BY <1>2, <2>1
    <3>2. 1 \in DOMAIN toHost'
      BY <1>1, <3>1
    <3>3. toHost'[1] = toHost[2]
      BY <1>2, <3>2
    <3> QED BY <3>1, <3>3 DEF One
  <2>3. CASE credits + 1 < Escapes
    <3> DEFINE u == Raw("esc", issued)
    <3>1. phase' = "escape" /\ toAgent' = Append(<<>>, u) /\ u.kind = "esc"
      BY <1>4, <2>1, <2>3 DEF EscapeCredited, Send, Raw
    <3>2. DOMAIN toAgent' = {1} /\ toAgent'[1] = u /\ Len(toAgent') = 1
      BY <3>1
    <3>3. \A i \in DOMAIN toHost' : toHost'[i].kind = "hello"
      <4>1. ASSUME NEW i \in DOMAIN toHost' PROVE i = 1 /\ toHost' # <<>>
        BY <1>1, <1>2, <2>1
      <4> QED BY <2>2, <4>1 DEF One
    <3>4. EscapeStep' /\ FrameStep'
      BY <3>1, <3>2, <3>3 DEF EscapeStep, FrameStep
    <3> QED BY <1>1, <3>1, <3>4, BootInOrder DEF StepInv, Usable, PhaseStep, InCall
  <2>4. CASE ~(credits + 1 < Escapes)
    <3>1. phase' = "hello" /\ toAgent' = <<>>
      BY <1>4, <2>1, <2>4 DEF EscapeCredited
    <3>2. HelloStep' /\ FrameStep'
      BY <1>1, <2>2, <3>1 DEF HelloStep, Lone, FrameStep
    <3> QED BY <1>1, <3>1, <3>2, BootInOrder DEF StepInv, Usable, PhaseStep, InCall
  <2> QED BY <2>3, <2>4
<1> QED BY <1>3, <1>4

\* HELLO, its features and the upgrade; what ends a bootstrap, and silence.
LEMMA HelloInStep ==
  ASSUME SafeProfile, AtMostOnceInv, StepInv, UNCHANGED agentVars,
         SkipToHello \/ ReadHello \/ AskHello
  PROVE  StepInv'
<1>1. /\ toHost \in Seq(ToHostUnit) /\ Usable /\ HelloStep
      /\ UNCHANGED <<connected, quarantined, issued, outcome, framed>>
  BY StepTypes DEF SkipToHello, ReadHello, AskHello, StepInv, Usable, PhaseStep,
                   callVars, hostVars, agentVars, sessionVars
<1>2. ASSUME toHost # <<>>
      PROVE  Head(toHost).kind = "hello" /\ Tail(toHost) = <<>> /\ toAgent = <<>> /\ ~framed
  <2>1. One(toHost, {"hello"})
    BY <1>1, <1>2 DEF HelloStep, Lone
  <2> QED BY <1>1, <1>2, <2>1, OneRead DEF HelloStep, Lone
<1>3. ~SkipToHello
  BY <1>2 DEF SkipToHello, SeesOther
<1>4. ASSUME NEW k, k \in {"hello", "features"}, toAgent = <<>>, Send(Raw(k, issued))
      PROVE  One(toAgent', {k}) /\ DOMAIN toAgent' = {1} /\ toAgent'[1].kind = k
  BY <1>4, OneWritten DEF Send, Raw
<1>5. ASSUME ReadHello PROVE StepInv'
  <2>1. One(toAgent', {"features"}) /\ FrameStep' /\ toHost' = <<>> /\ ~framed
    BY <1>2, <1>4, <1>5 DEF ReadHello, Sees, FrameStep
  <2>2. phase' = "features" /\ FeaturesStep'
    BY <1>1, <1>5, <2>1 DEF ReadHello, FeaturesStep, Lone
  <2> QED BY <1>1, <2>1, <2>2, BootInOrder DEF StepInv, Usable, PhaseStep, InCall
<1>6. ASSUME AskHello PROVE StepInv'
  <2>1. toAgent = <<>>
    BY <1>1, <1>6 DEF AskHello, HelloStep
  <2>2. One(toAgent', {"hello"}) /\ FrameStep' /\ toHost' = <<>> /\ asked'
    BY <1>4, <1>6, <2>1 DEF AskHello, FrameStep
  <2>3. phase' = "hello" /\ HelloStep'
    BY <1>6, <2>2 DEF AskHello, HelloStep, Lone
  <2> QED BY <1>1, <2>2, <2>3, BootInOrder DEF StepInv, Usable, PhaseStep, InCall
<1> QED BY <1>3, <1>5, <1>6

LEMMA UpgradeInStep ==
  ASSUME SafeProfile, AtMostOnceInv, StepInv, UNCHANGED agentVars,
         ReadFeatures \/ SessionStarts
  PROVE  StepInv'
<1>1. /\ toHost \in Seq(ToHostUnit) /\ Usable
      /\ toHost # <<>> /\ toHost' = Tail(toHost)
      /\ UNCHANGED <<connected, quarantined, issued, outcome, framed, nextSeq>>
  BY StepTypes DEF ReadFeatures, SessionStarts, Sees, StepInv, Usable, PhaseStep,
                   callVars, hostVars, agentVars, sessionVars
<1>2. ASSUME ReadFeatures PROVE StepInv'
  <2>1. FeaturesStep /\ One(toHost, {"features"}) /\ toAgent = <<>>
    BY <1>1, <1>2 DEF ReadFeatures, StepInv, PhaseStep, FeaturesStep, Lone
  <2>2. toHost' = <<>>
    BY <1>1, <2>1, OneRead
  <2>3. One(toAgent', {"framed"}) /\ DOMAIN toAgent' = {1} /\ toAgent'[1].kind = "framed"
    BY <1>2, <2>1, OneWritten DEF ReadFeatures, Send, Raw
  <2>4. phase' = "upgrade" /\ UpgradeStep' /\ FrameStep'
    BY <1>1, <1>2, <2>1, <2>2, <2>3
       DEF ReadFeatures, UpgradeStep, FeaturesStep, Lone, FrameStep
  <2> QED BY <1>1, <2>4, BootInOrder DEF StepInv, Usable, PhaseStep, InCall
<1>3. ASSUME SessionStarts PROVE StepInv'
  <2>1. UpgradeStep /\ One(toHost, {"upgraded"}) /\ toAgent = <<>> /\ framed /\ nextSeq = 0
    BY <1>1, <1>3 DEF SessionStarts, StepInv, PhaseStep, UpgradeStep, Lone
  <2>2. toHost' = <<>> /\ toAgent' = <<>>
    BY <1>1, <1>3, <2>1, OneRead DEF SessionStarts
  <2>3. phase' = "idle" /\ IdleStep' /\ FrameStep'
    BY <1>1, <1>3, <2>1, <2>2 DEF SessionStarts, IdleStep, FrameStep
  <2> QED BY <1>1, <2>2, <2>3, BootInOrder DEF StepInv, Usable, PhaseStep, InCall
<1> QED BY <1>2, <1>3

LEMMA BootEndsInStep ==
  ASSUME SafeProfile, AtMostOnceInv, StepInv, UNCHANGED agentVars,
         BootMismatch \/ BootTimeout \/ BootDisconnected
  PROVE  StepInv'
<1>1. /\ toHost \in Seq(ToHostUnit) /\ UNCHANGED toAgent /\ ~quarantined
      /\ UNCHANGED <<connected, issued, outcome, framed>>
      /\ phase' = "down" /\ (quarantined' <=> StopsWrites)
  <2>1. toHost \in Seq(ToHostUnit) /\ quarantined \in BOOLEAN
    BY StepTypes DEF HostTypeOK
  <2>2. UNCHANGED toAgent /\ BootFails(StopsWrites) /\ phase \notin {"down", "idle"}
    BY DEF BootMismatch, BootTimeout, BootDisconnected, wireVars
  <2>3. ~quarantined
    BY <2>2 DEF StepInv
  <2>4. quarantined' <=> StopsWrites
    BY <2>2, <2>3 DEF BootFails
  <2>5. /\ UNCHANGED <<connected, issued, outcome, framed>> /\ phase' = "down"
    BY <2>2 DEF BootFails, callVars, agentVars, sessionVars
  <2> QED BY <2>1, <2>2, <2>3, <2>4, <2>5
<1>2. FrameStep' /\ CallsInOrder'
  <2>1. UNCHANGED callOp
    BY DEF BootMismatch, BootTimeout, BootDisconnected, BootFails, callVars
  <2>2. FrameStep'
    BY <1>1, <2>1 DEF FrameStep, StepInv
  <2> QED BY <1>1, <2>2, BootInOrder DEF InCall
<1>3. ASSUME ~StopsWrites, connected PROVE UNCHANGED toHost /\ DownStep'
  <2>1. phase \in {"hello", "features", "upgrade"}
    BY <1>3 DEF BootMismatch, BootTimeout, BootDisconnected, StopsWrites
  <2>2. \/ Lone({"hello"}, {"hello"}) \/ Lone({"features"}, {"features"})
        \/ Lone({"framed"}, {"upgraded"})
    BY <1>1, <1>3, <2>1
       DEF StepInv, Usable, PhaseStep, HelloStep, FeaturesStep, UpgradeStep
  <2>3. ~BootMismatch
    <3> SUFFICES ASSUME BootMismatch PROVE FALSE
      OBVIOUS
    <3>1. /\ phase \in {"features", "upgrade"} /\ toHost # <<>>
          /\ Head(toHost).kind \notin Expected
      BY <2>1 DEF BootMismatch
    <3>2. CASE phase = "features"
      <4>1. One(toHost, {"features"})
        BY <1>1, <1>3, <3>1, <3>2 DEF StepInv, Usable, PhaseStep, FeaturesStep, Lone
      <4> QED BY <1>1, <3>1, <3>2, <4>1, OneRead DEF Expected
    <3>3. CASE phase = "upgrade"
      <4>1. One(toHost, {"upgraded"})
        BY <1>1, <1>3, <3>1, <3>3 DEF StepInv, Usable, PhaseStep, UpgradeStep, Lone
      <4> QED BY <1>1, <3>1, <3>3, <4>1, OneRead DEF Expected
    <3> QED BY <3>1, <3>2, <3>3
  <2>4. UNCHANGED toHost
    BY <2>3 DEF BootTimeout, BootDisconnected, wireVars
  <2>5. /\ toAgent # <<>> => /\ DOMAIN toAgent = {1}
                             /\ toAgent[1].kind \in {"hello", "features", "framed"}
        /\ toHost # <<>> => /\ DOMAIN toHost = {1}
                            /\ toHost[1].kind \in {"hello", "features", "upgraded"}
    <3>1. /\ toAgent # <<>> => One(toAgent, {"hello", "features", "framed"})
          /\ toHost # <<>> => One(toHost, {"hello", "features", "upgraded"})
      BY <2>2 DEF Lone, One
    <3>2. toAgent \in Seq(ToAgentUnit)
      BY StepTypes
    <3> QED BY <1>1, <3>1, <3>2, OneRead DEF One
  <2> QED BY <1>1, <2>4, <2>5 DEF DownStep
<1>4. ASSUME ~connected PROVE UNCHANGED toHost
  BY <1>4 DEF BootMismatch, BootTimeout, BootDisconnected, wireVars
<1> QED BY <1>1, <1>2, <1>3, <1>4 DEF StepInv, Usable, PhaseStep

-------------------------------------------------------------------------------
(* The agent. *)

RawReads == \/ RawRefuse \/ RawHello \/ RawFeatures \/ RawFrameEnable
            \/ SeeMagic \/ SkipNoise \/ CountEscape \/ Rebootstrap

\* What the agent answers to a unit that is no complete frame.
LEMMA RawReplies ==
  ASSUME RawReads
  PROVE  /\ toAgent # <<>> /\ toAgent' = Tail(toAgent)
         /\ UNCHANGED <<historyVars, lastSeq>>
         /\ UNCHANGED <<lastReqValid, nextSeq>> \/ ~lastReqValid'
         /\ \/ /\ framed /\ Head(toAgent).kind # "magic"
               /\ UNCHANGED <<toHost, framed, nextSeq>>
            \/ /\ ~framed /\ Head(toAgent).kind \in {"esc", "magic", "rest"}
               /\ UNCHANGED <<framed, nextSeq>>
               /\ \E w : w.kind = "refused" /\ toHost' = Append(toHost, w)
            \/ /\ ~framed /\ Head(toAgent).kind \in {"hello", "features"}
               /\ UNCHANGED <<framed, nextSeq>>
               /\ \E w : w.kind = Head(toAgent).kind /\ toHost' = Append(toHost, w)
            \/ /\ ~framed /\ Head(toAgent).kind = "framed" /\ framed' /\ nextSeq' = 0
               /\ \E w : w.kind = "upgraded" /\ toHost' = Append(toHost, w)
            \/ /\ framed /\ Head(toAgent).kind \in {"magic", "esc"}
               /\ UNCHANGED <<framed, nextSeq>>
               /\ toHost' = Append(toHost, Credit)
            \/ /\ framed /\ Head(toAgent).kind = "esc" /\ ~framed'
               /\ \E w : w.kind = "hello" /\ toHost' = toHost \o <<Credit, w>>
<1> USE DEF agentVars, sessionVars, historyVars, Answer, Swallow
<1>1. ASSUME NEW k, NEW n, NEW b PROVE Note(k, n, b).kind = k
  BY DEF Note
<1>2. CASE RawRefuse
  BY <1>1, <1>2 DEF RawRefuse
<1>3. CASE RawHello
  BY <1>1, <1>3 DEF RawHello
<1>4. CASE RawFeatures
  BY <1>1, <1>4 DEF RawFeatures
<1>5. CASE RawFrameEnable
  <2>1. /\ toAgent # <<>> /\ toAgent' = Tail(toAgent) /\ UNCHANGED <<historyVars, lastSeq>>
        /\ ~framed /\ Head(toAgent).kind = "framed" /\ nextSeq' = 0
        /\ toHost' = Append(toHost, Note("upgraded", Head(toAgent).call, 1))
    BY <1>5 DEF RawFrameEnable
  <2>2. framed' /\ ~lastReqValid'
    BY <1>5 DEF RawFrameEnable
  <2>3. Note("upgraded", Head(toAgent).call, 1).kind = "upgraded"
    BY <1>1
  <2>4. \E w : w.kind = "upgraded" /\ toHost' = Append(toHost, w)
    BY <2>1, <2>3
  <2>5. UNCHANGED <<lastReqValid, nextSeq>> \/ ~lastReqValid'
    BY <2>2
  <2> QED BY <2>1, <2>2, <2>4, <2>5
<1>6. CASE SeeMagic
  BY <1>6 DEF SeeMagic
<1>7. CASE SkipNoise
  BY <1>7 DEF SkipNoise
<1>8. CASE CountEscape
  BY <1>8 DEF CountEscape, SeesEscape
<1>9. CASE Rebootstrap
  BY <1>1, <1>9 DEF Rebootstrap, SeesEscape, ForgetSession
<1> QED BY <1>2, <1>3, <1>4, <1>5, <1>6, <1>7, <1>8, <1>9 DEF RawReads

\* A frame is alone in flight, so none is left behind the unit that was read.
LEMMA NoFrameBehind ==
  ASSUME FrameStep, toAgent \in Seq(ToAgentUnit), toAgent # <<>>, toAgent' = Tail(toAgent)
  PROVE  FrameStep' /\ \A i \in DOMAIN toAgent' : toAgent'[i].kind # "rest"
<1>1. \A i \in DOMAIN toAgent' :
        /\ i \in Nat /\ i > 0 /\ i + 1 \in DOMAIN toAgent
        /\ toAgent'[i] = toAgent[i + 1] /\ Len(toAgent) > 1
  BY TailElements
<1>2. \A i \in DOMAIN toAgent' : toAgent'[i].kind # "rest"
  BY <1>1 DEF FrameStep
<1> QED BY <1>2 DEF FrameStep

\* An escape, or a stale unit before it, is answered in order.
LEMMA EscapeAnswered ==
  ASSUME toAgent \in Seq(ToAgentUnit), toHost \in Seq(ToHostUnit), RawReads
  PROVE  /\ DownStep => DownStep'
         /\ EscapeStep => EscapeStep'
<1>1. /\ toAgent # <<>> /\ toAgent' = Tail(toAgent)
      /\ 1 \in DOMAIN toAgent /\ Head(toAgent) = toAgent[1] /\ Len(toAgent) \in Nat
      /\ Len(toAgent') = Len(toAgent) - 1 /\ (Len(toAgent) = 1 => toAgent' = <<>>)
      /\ \A i \in DOMAIN toAgent' : i \in Nat /\ i > 0 /\ i + 1 \in DOMAIN toAgent
                                    /\ toAgent'[i] = toAgent[i + 1]
  BY RawReplies, TailElements
<1> DEFINE u == Head(toAgent)
           Quiet == \A i \in DOMAIN toHost : toHost[i].kind \notin {"refused", "credit"}
<1>2. ASSUME u.kind \in {"hello", "features", "framed"}, Quiet
      PROVE  \A i \in DOMAIN toHost' : toHost'[i].kind \notin {"refused", "credit"}
  <2>1. \/ UNCHANGED toHost
        \/ \E w : /\ w.kind \in {"hello", "features", "upgraded"}
                  /\ toHost' = Append(toHost, w)
    BY <1>2, RawReplies
  <2>2. CASE UNCHANGED toHost
    BY <1>2, <2>2
  <2>3. ASSUME NEW w, w.kind \in {"hello", "features", "upgraded"},
               toHost' = Append(toHost, w)
        PROVE  \A i \in DOMAIN toHost' : toHost'[i].kind \notin {"refused", "credit"}
    BY <1>2, <2>3, AppendElements
  <2> QED BY <2>1, <2>2, <2>3
<1>3. ASSUME DownStep PROVE DownStep'
  BY <1>1, <1>2, <1>3 DEF DownStep
<1>4. ASSUME EscapeStep PROVE EscapeStep'
  <2>1. Quiet /\ u.kind \in {"hello", "features", "framed", "esc"}
    BY <1>1, <1>4 DEF EscapeStep
  <2>2. /\ \A i \in DOMAIN toAgent' :
             /\ toAgent'[i].kind \in {"hello", "features", "framed", "esc"}
             /\ toAgent'[i].kind = "esc" => i = Len(toAgent')
    BY <1>1, <1>4 DEF EscapeStep
  <2>3. CASE u.kind # "esc"
    BY <1>2, <2>1, <2>2, <2>3 DEF EscapeStep
  <2>4. CASE u.kind = "esc"
    <3>1. toAgent' = <<>>
      BY <1>1, <1>4, <2>4 DEF EscapeStep
    <3>2. CASE UNCHANGED toHost
      BY <2>1, <2>2, <3>1, <3>2 DEF EscapeStep
    <3>3. ASSUME NEW w, toHost' = Append(toHost, w), w.kind \in {"refused", "credit"}
          PROVE  EscapeStep'
      <4>1. \A i \in DOMAIN toHost' :
              toHost'[i].kind \in {"refused", "credit"} => i = Len(toHost')
        BY <2>1, <3>3, AppendElements
      <4>2. Len(toHost') \in Nat
        BY <3>3, AppendElements
      <4> QED BY <2>2, <3>1, <4>1, <4>2 DEF EscapeStep
    <3>4. ASSUME NEW w, w.kind = "hello", toHost' = toHost \o <<Credit, w>>, ~framed'
          PROVE  EscapeStep'
      <4>1. /\ Len(toHost) \in Nat /\ Len(toHost') = Len(toHost) + 2
            /\ \A i \in DOMAIN toHost' :
                 \/ i \in DOMAIN toHost /\ toHost'[i] = toHost[i]
                 \/ i = Len(toHost) + 1 /\ toHost'[i] = Credit
                 \/ i = Len(toHost) + 2 /\ toHost'[i] = w
            /\ toHost'[Len(toHost) + 2] = w
        BY <3>4
      <4>2. ASSUME NEW i \in DOMAIN toHost'
            PROVE  /\ toHost'[i].kind # "refused"
                   /\ toHost'[i].kind = "credit" => i = Len(toHost) + 1
        <5>1. Credit.kind = "credit"
          BY DEF Credit, Note
        <5> QED BY <2>1, <3>4, <4>1, <5>1
      <4> QED BY <2>2, <3>1, <3>4, <4>1, <4>2 DEF EscapeStep
    <3>5. Credit.kind = "credit"
      BY DEF Credit, Note
    <3> QED BY <2>4, <3>2, <3>3, <3>4, <3>5, RawReplies
  <2> QED BY <2>3, <2>4
<1> QED BY <1>3, <1>4

\* A question is answered by its own answer, while it is alone in flight.
LEMMA QuestionAnswered ==
  ASSUME toAgent \in Seq(ToAgentUnit), toHost = <<>>, RawReads,
         NEW k, One(toAgent, {k})
  PROVE  /\ toAgent' = <<>>
         /\ k = "hello" => \/ toHost' = <<>>
                           \/ One(toHost', {"hello"}) /\ ~framed
         /\ k = "features" /\ ~framed => One(toHost', {"features"})
         /\ k = "framed" /\ ~framed => One(toHost', {"upgraded"}) /\ framed' /\ nextSeq' = 0
         /\ k = "magic" /\ framed => One(toHost', {"credit"})
         /\ k = "rest" /\ framed => toHost' = <<>>
<1>1. Head(toAgent).kind = k /\ Tail(toAgent) = <<>>
  BY OneRead
<1>2. ASSUME NEW w PROVE One(Append(toHost, w), {w.kind})
  BY OneWritten
<1>3. Credit.kind = "credit"
  BY DEF Credit, Note
<1> QED BY <1>1, <1>2, <1>3, RawReplies

\* Only an upgrade and an escape change the session.
LEMMA SessionKept ==
  ASSUME toAgent \in Seq(ToAgentUnit), RawReads, NEW k, One(toAgent, {k}),
         k \notin {"framed", "esc"}
  PROVE  UNCHANGED <<framed, nextSeq>>
<1>1. Head(toAgent).kind = k
  BY OneRead
<1> QED BY <1>1, RawReplies

LEMMA RawInStep ==
  ASSUME SafeProfile, AtMostOnceInv, StepInv, UNCHANGED hostVars, RawReads
  PROVE  StepInv'
<1> USE DEF hostVars, callVars, bootVars
<1>1. /\ toAgent \in Seq(ToAgentUnit) /\ toHost \in Seq(ToHostUnit) /\ phase \in Phases
      /\ toAgent # <<>> /\ toAgent' = Tail(toAgent) /\ connected
  BY StepTypes, RawReplies DEF StepInv
<1>2. FrameStep'
  BY <1>1, NoFrameBehind DEF StepInv
<1>3. CallsInOrder'
  BY RawReplies DEF StepInv, CallsInOrder, InCall
<1>4. ASSUME Usable PROVE PhaseStep'
  <2>1. PhaseStep
    BY <1>4 DEF StepInv
  <2>2. CASE phase \in {"down", "probe", "escape"}
    BY <1>1, <2>1, <2>2, EscapeAnswered DEF PhaseStep
  <2>3. CASE phase = "hello"
    <3>1. One(toAgent, {"hello"}) /\ toHost = <<>> /\ UNCHANGED <<phase, asked>>
      BY <1>1, <2>1, <2>3 DEF PhaseStep, HelloStep, Lone
    <3>2. toAgent' = <<>> /\ UNCHANGED framed
      BY <1>1, <3>1, QuestionAnswered, SessionKept
    <3>3. toHost' # <<>> => One(toHost', {"hello"}) /\ ~framed
      BY <1>1, <3>1, QuestionAnswered
    <3>4. HelloStep'
      BY <3>2, <3>3 DEF HelloStep, Lone
    <3> QED BY <2>3, <3>4 DEF PhaseStep
  <2>4. CASE phase = "features"
    <3>1. One(toAgent, {"features"}) /\ toHost = <<>> /\ ~framed
      BY <1>1, <2>1, <2>4 DEF PhaseStep, FeaturesStep, Lone
    <3>2. toAgent' = <<>> /\ UNCHANGED framed /\ One(toHost', {"features"})
      BY <1>1, <3>1, QuestionAnswered, SessionKept
    <3>3. FeaturesStep'
      BY <3>1, <3>2 DEF FeaturesStep, Lone
    <3> QED BY <2>4, <3>3 DEF PhaseStep
  <2>5. CASE phase = "upgrade"
    <3>1. One(toAgent, {"framed"}) /\ toHost = <<>> /\ ~framed
      BY <1>1, <2>1, <2>5 DEF PhaseStep, UpgradeStep, Lone
    <3>2. toAgent' = <<>> /\ One(toHost', {"upgraded"}) /\ framed' /\ nextSeq' = 0
      BY <1>1, <3>1, QuestionAnswered
    <3>3. UpgradeStep'
      BY <3>2 DEF UpgradeStep, Lone
    <3> QED BY <2>5, <3>3 DEF PhaseStep
  <2>6. CASE phase = "idle"
    BY <1>1, <2>1, <2>6 DEF PhaseStep, IdleStep
  <2>7. CASE phase = "wake"
    <3>1. One(toAgent, {"magic"}) /\ toHost = <<>> /\ framed /\ WakeStep
      BY <1>1, <2>1, <2>7 DEF PhaseStep, WakeStep, Lone
    <3>2. toAgent' = <<>> /\ One(toHost', {"credit"}) /\ UNCHANGED <<framed, nextSeq>>
      BY <1>1, <3>1, QuestionAnswered, SessionKept
    <3>3. WakeStep'
      BY <3>1, <3>2 DEF WakeStep, Lone
    <3> QED BY <2>7, <3>3 DEF PhaseStep
  <2>8. CASE phase = "wait"
    <3>1. One(toAgent, {"rest"}) /\ toHost = <<>> /\ framed /\ WaitStep
      BY <1>1, <2>1, <2>8 DEF PhaseStep, WaitStep, Lone
    <3>2. toAgent' = <<>> /\ toHost' = <<>> /\ UNCHANGED <<framed, nextSeq>>
      BY <1>1, <3>1, QuestionAnswered, SessionKept
    <3>3. WaitStep'
      BY <3>1, <3>2 DEF WaitStep, Lone, One
    <3> QED BY <2>8, <3>3 DEF PhaseStep
  <2> QED BY <1>1, <2>2, <2>3, <2>4, <2>5, <2>6, <2>7, <2>8 DEF Phases
<1> QED BY <1>1, <1>2, <1>3, <1>4 DEF StepInv, Usable

\* With more than one sequence number the next one is another one.
LEMMA NextDiffers ==
  ASSUME Modulus > 1, NEW s \in Sequence
  PROVE  NextSequence(s) # s
<1>1. CASE s + 1 < Modulus
  <2>1. (s + 1) % Modulus = s + 1
    BY <1>1 DEF Sequence
  <2> QED BY <2>1 DEF NextSequence, Sequence
<1>2. CASE s + 1 = Modulus
  <2>1. Modulus % Modulus = 0
    OBVIOUS
  <2> QED BY <1>2, <2>1 DEF NextSequence, Sequence
<1> QED BY <1>1, <1>2 DEF Sequence

FrameReads(cut) ==
  \/ \E st \in Results : Accept(st, cut) \/ Recompute(st, cut)
  \/ Conflict(cut) \/ Incomplete(cut) \/ Replay(cut)

LEMMA FrameEmits ==
  ASSUME NEW cut \in BOOLEAN, FrameReads(cut) \/ BadCrc(cut)
  PROVE  /\ HasFrame /\ toAgent # <<>> /\ toAgent' = Tail(toAgent)
         /\ UNCHANGED framed
BY DEF FrameReads, Accept, Recompute, Conflict, Incomplete, Replay, BadCrc, Refuse,
       Dispatch, Emit, HasFrame

\* The request the agent reads from a usable session is new, and its next.
LEMMA FrameIsNext ==
  ASSUME SafeProfile, AtMostOnceInv, StepInv, Usable, HasFrame
  PROVE  /\ phase = "wait" /\ WaitStep /\ One(toAgent, {"rest"}) /\ toHost = <<>>
         /\ Frame.call = issued /\ Frame.op = callOp[issued]
         /\ Frame.seq = nextSeq /\ hostSeq = NextSequence(Frame.seq)
         /\ ~IsRepeat
<1>1. /\ toAgent \in Seq(ToAgentUnit) /\ toAgent # <<>> /\ Frame = Head(toAgent)
      /\ Head(toAgent).kind = "rest" /\ phase \in Phases
      /\ 1 \in DOMAIN toAgent /\ Head(toAgent) = toAgent[1]
  BY StepTypes, TailElements DEF HasFrame, Frame
<1>2. phase = "wait"
  <2>1. PhaseStep
    BY DEF StepInv
  <2>2. phase \notin {"down", "probe", "escape"}
    BY <1>1, <2>1 DEF PhaseStep, DownStep, EscapeStep
  <2>3. phase \notin {"hello", "features", "upgrade", "idle", "wake"}
    BY <1>1, <2>1 DEF PhaseStep, HelloStep, FeaturesStep, UpgradeStep, IdleStep,
                      WakeStep, Lone, One
  <2> QED BY <1>1, <2>2, <2>3 DEF Phases
<1>3. WaitStep /\ One(toAgent, {"rest"}) /\ toHost = <<>>
  BY <1>1, <1>2 DEF StepInv, PhaseStep, WaitStep, Lone
<1>4. Frame.call = issued /\ Frame.op = callOp[issued]
  BY <1>1 DEF StepInv, FrameStep
<1>5. Frame.seq = callSeq[issued]
  BY <1>1, <1>4, StepTypes DEF OrderInv, FramesAreNumbered
<1>6. Frame.seq = nextSeq /\ hostSeq = NextSequence(Frame.seq)
  BY <1>1, <1>3, <1>5 DEF WaitStep
<1>7. ~IsRepeat
  <2>1. lastSeq \in Sequence /\ Modulus > 1
    BY StepTypes DEF AgentTypeOK, SafeProfile
  <2> QED BY <1>6, <2>1, NextDiffers DEF IsRepeat, StepInv, CallsInOrder
<1> QED BY <1>2, <1>3, <1>4, <1>6, <1>7

LEMMA FrameInStep ==
  ASSUME SafeProfile, AtMostOnceInv, StepInv, UNCHANGED hostVars,
         NEW cut \in BOOLEAN, FrameReads(cut)
  PROVE  StepInv'
<1> USE DEF hostVars, callVars, bootVars
<1>1. /\ toAgent \in Seq(ToAgentUnit) /\ toAgent # <<>> /\ toAgent' = Tail(toAgent)
      /\ HasFrame /\ connected /\ UNCHANGED framed
  BY StepTypes, FrameEmits DEF StepInv
<1>2. FrameStep'
  BY <1>1, NoFrameBehind DEF StepInv
<1>3. CallsInOrder'
  <2>1. \/ UNCHANGED <<lastReqValid, nextSeq, lastSeq>>
        \/ nextSeq' = NextSequence(lastSeq')
    BY DEF FrameReads, Accept, Recompute, Conflict, Incomplete, Replay, Refuse
  <2> QED BY <2>1 DEF StepInv, CallsInOrder, InCall
<1>4. ASSUME Usable PROVE PhaseStep'
  <2>1. /\ phase = "wait" /\ WaitStep /\ One(toAgent, {"rest"}) /\ toHost = <<>>
        /\ Frame.call = issued /\ Frame.op = callOp[issued]
        /\ Frame.seq = nextSeq /\ hostSeq = NextSequence(Frame.seq)
        /\ ~IsRepeat
    BY <1>1, <1>4, FrameIsNext
  <2>2. PICK st \in Results : Accept(st, cut)
    BY <2>1 DEF FrameReads, Recompute, Conflict, Incomplete, Replay
  <2> DEFINE u == Response(Frame.call, Frame.seq, Frame.op, st)
             w == IF cut THEN Note("torn", u.call, 1) ELSE u
  <2>3. toAgent' = <<>> /\ toHost' = Append(<<>>, w)
    BY <1>1, <2>1, <2>2, OneRead DEF Accept, Dispatch, Emit
  <2>4. /\ u.kind = "response" /\ u.call = issued /\ u.status = st
        /\ Note("torn", u.call, 1).kind = "torn"
    BY <2>1 DEF Response, Note
  <2>5. w.kind \in {"response", "torn"} /\ (w.kind = "response" => ~cut /\ w = u)
    BY <2>4
  <2>6. One(toHost', {"response", "torn"}) /\ toHost'[1] = w
    BY <2>3, <2>5, OneWritten
  <2>7. issued \in Calls /\ effects[issued] = 0 /\ effects \in [Calls -> Nat]
    BY <1>1, <2>1, StepTypes, Unserved DEF AgentTypeOK, WireTypeOK
  <2>8. hostSeq' = nextSeq'
    BY <2>1, <2>2 DEF Accept
  <2>9. ASSUME w.kind = "response" PROVE Faithful(toHost[1])'
    <3>1. ~cut /\ w = u
      BY <2>5, <2>9
    <3>2. effects' = IF Frame.op \in Mutating /\ st = "OK"
                       THEN [effects EXCEPT ![issued] = @ + 1] ELSE effects
      BY <2>1, <2>2, <3>1 DEF Accept, Dispatch
    <3>3. /\ st = "OK" /\ callOp[issued] \in Mutating => effects'[issued] = 1
          /\ st = "BAD_STATE" => effects'[issued] = 0
      BY <2>1, <2>7, <3>2
    <3>4. toHost'[1].call = issued /\ toHost'[1].status = st
      BY <2>4, <2>6, <3>1
    <3> QED BY <2>8, <3>3, <3>4 DEF Faithful
  <2>10. WaitStep'
    <3>1. Lone({"rest"}, {"response", "torn"})' /\ toAgent' = <<>>
      BY <2>3, <2>6 DEF Lone
    <3>2. framed' /\ (hostSeq = NextSequence(callSeq[issued]))'
      BY <1>1, <2>1 DEF WaitStep
    <3>3. One(toHost', {"response"}) => Faithful(toHost[1])'
      BY <2>6, <2>9 DEF One
    <3> QED BY <3>1, <3>2, <3>3 DEF WaitStep
  <2> QED BY <2>1, <2>10 DEF PhaseStep
<1> QED BY <1>1, <1>2, <1>3, <1>4 DEF StepInv, Usable

-------------------------------------------------------------------------------
(* The environment. *)

LEMMA LoseInStep ==
  ASSUME SafeProfile, AtMostOnceInv, StepInv, LoseToAgent \/ LoseToHost,
         UNCHANGED <<hostVars, agentVars>>
  PROVE  StepInv'
<1> USE DEF hostVars, callVars, bootVars, agentVars, sessionVars, historyVars
<1>1. toAgent \in Seq(ToAgentUnit) /\ toHost \in Seq(ToHostUnit) /\ phase \in Phases
  BY StepTypes
<1>2. CallsInOrder'
  BY DEF StepInv, CallsInOrder, InCall
<1>3. FrameStep'
  <2>1. CASE LoseToAgent
    BY <1>1, <2>1, NoFrameBehind DEF StepInv, LoseToAgent
  <2>2. CASE LoseToHost
    BY <2>2 DEF StepInv, FrameStep, LoseToHost
  <2> QED BY <2>1, <2>2
<1>4. ASSUME NEW asks, NEW answers, Lone(asks, answers)
      PROVE  toAgent' = <<>> /\ toHost' = <<>>
  <2>1. CASE LoseToAgent
    BY <1>1, <1>4, <2>1, OneRead DEF LoseToAgent, Lone
  <2>2. CASE LoseToHost
    BY <1>1, <1>4, <2>2, OneRead DEF LoseToHost, Lone
  <2> QED BY <2>1, <2>2
<1>5. CASE phase \in {"down", "probe", "escape"}
  <2>1. /\ toAgent # <<>> =>
             \A i \in DOMAIN Tail(toAgent) :
               /\ i \in Nat /\ i + 1 \in DOMAIN toAgent /\ Tail(toAgent)[i] = toAgent[i + 1]
               /\ Len(Tail(toAgent)) = Len(toAgent) - 1 /\ Len(toAgent) \in Nat
        /\ toHost # <<>> =>
             \A i \in DOMAIN Tail(toHost) :
               /\ i \in Nat /\ i + 1 \in DOMAIN toHost /\ Tail(toHost)[i] = toHost[i + 1]
               /\ Len(Tail(toHost)) = Len(toHost) - 1 /\ Len(toHost) \in Nat
    BY <1>1, TailElements
  <2>2. ASSUME DownStep PROVE DownStep'
    BY <2>1, <2>2 DEF DownStep, LoseToAgent, LoseToHost
  <2>3. ASSUME EscapeStep PROVE EscapeStep'
    <3>1. CASE LoseToAgent
      <4>1. toHost' = toHost /\ UNCHANGED framed
        BY <3>1 DEF LoseToAgent
      <4>2. \A i \in DOMAIN toHost : toHost[i].kind \notin {"refused", "credit"}
        BY <2>3, <3>1 DEF EscapeStep, LoseToAgent
      <4> QED BY <2>1, <2>3, <3>1, <4>1, <4>2 DEF EscapeStep, LoseToAgent
    <3>2. CASE LoseToHost
      <4>1. /\ toAgent' = toAgent /\ UNCHANGED framed /\ toHost # <<>> /\ toHost' = Tail(toHost)
        BY <3>2 DEF LoseToHost
      <4>2. ASSUME NEW i \in DOMAIN toHost', toHost'[i].kind = "credit"
            PROVE  /\ toAgent = <<>>
                   /\ i < Len(toHost') =>
                        i + 1 = Len(toHost') /\ toHost'[i + 1].kind = "hello" /\ ~framed
        <5>1. /\ i \in Nat /\ i + 1 \in DOMAIN toHost /\ toHost'[i] = toHost[i + 1]
              /\ Len(toHost') = Len(toHost) - 1 /\ Len(toHost) \in Nat
          BY <2>1, <4>1
        <5>2. /\ toAgent = <<>>
              /\ i + 1 < Len(toHost) =>
                   /\ (i + 1) + 1 = Len(toHost) /\ toHost[(i + 1) + 1].kind = "hello"
                   /\ ~framed
          BY <2>3, <4>2, <5>1 DEF EscapeStep
        <5>3. ASSUME i < Len(toHost')
              PROVE  i + 1 = Len(toHost') /\ toHost'[i + 1].kind = "hello" /\ ~framed
          <6>1. i + 1 \in DOMAIN toHost'
            BY <1>1, <4>1, <5>1, <5>3
          <6>2. toHost'[i + 1] = toHost[(i + 1) + 1]
            BY <2>1, <4>1, <6>1
          <6> QED BY <5>1, <5>2, <5>3, <6>2
        <5> QED BY <5>2, <5>3
      <4>3. ASSUME NEW i \in DOMAIN toHost', toHost'[i].kind = "refused"
            PROVE  i = Len(toHost') /\ toAgent = <<>>
        <5>1. /\ i \in Nat /\ i + 1 \in DOMAIN toHost /\ toHost'[i] = toHost[i + 1]
              /\ Len(toHost') = Len(toHost) - 1 /\ Len(toHost) \in Nat
          BY <2>1, <4>1
        <5>2. i + 1 = Len(toHost) /\ toAgent = <<>>
          BY <2>3, <4>3, <5>1 DEF EscapeStep
        <5> QED BY <5>1, <5>2
      <4> QED BY <2>3, <4>1, <4>2, <4>3 DEF EscapeStep
    <3> QED BY <3>1, <3>2
  <2>4. toAgent = <<>> /\ toHost = <<>> => FALSE
    BY DEF LoseToAgent, LoseToHost
  <2> QED BY <1>2, <1>3, <1>5, <2>2, <2>3, <2>4 DEF StepInv, Usable, PhaseStep
<1>6. CASE phase \in {"hello", "features", "upgrade", "idle", "wake", "wait"}
  <2>1. ASSUME Usable PROVE toAgent' = <<>> /\ toHost' = <<>>
    <3>1. PhaseStep /\ (toAgent = <<>> /\ toHost = <<>> => FALSE)
      BY <2>1 DEF StepInv, LoseToAgent, LoseToHost
    <3> QED BY <1>4, <1>6, <3>1 DEF PhaseStep, HelloStep, FeaturesStep, UpgradeStep,
                                    IdleStep, WakeStep, WaitStep
  <2>2. ASSUME Usable PROVE PhaseStep'
    BY <1>6, <2>1, <2>2 DEF StepInv, Usable, PhaseStep, HelloStep, FeaturesStep, UpgradeStep,
                       IdleStep, WakeStep, WaitStep, Lone, One
  <2>3. toAgent = <<>> /\ toHost = <<>> => FALSE
    BY DEF LoseToAgent, LoseToHost
  <2> QED BY <1>2, <1>3, <2>2, <2>3 DEF StepInv, Usable
<1> QED BY <1>1, <1>5, <1>6 DEF Phases

\* A stream that breaks, and a fresh connection with nothing in flight.
LEMMA ConnectionInStep ==
  ASSUME SafeProfile, AtMostOnceInv, StepInv, Disconnect \/ Reconnect
  PROVE  StepInv'
<1>1. /\ toAgent' = <<>> /\ toHost' = <<>> /\ ~lastReqValid'
      /\ UNCHANGED <<issued, attempt>>
  BY DEF Disconnect, Reconnect, Attach, SessionReset, ForgetSession, callVars
<1>2. FrameStep'
  BY <1>1 DEF FrameStep
<1>3. CASE Disconnect
  <2>1. ~connected' /\ UNCHANGED <<phase, quarantined, outcome>>
    BY <1>3 DEF Disconnect, callVars
  <2> QED BY <1>1, <1>2, <2>1 DEF StepInv, Usable, CallsInOrder, InCall
<1>4. CASE Reconnect
  <2>1. phase' = "down" /\ UNCHANGED outcome
    BY <1>4 DEF Reconnect, Attach
  <2>2. DownStep'
    BY <1>1 DEF DownStep
  <2> QED BY <1>1, <1>2, <2>1, <2>2 DEF StepInv, Usable, PhaseStep, CallsInOrder, InCall
<1> QED BY <1>3, <1>4

\* A hook that runs out of its budget, or a step of no interest here.
LEMMA StillInStep ==
  ASSUME StepInv, UNCHANGED <<wireVars, hostVars>>,
         UNCHANGED <<framed, nextSeq, lastReqValid, lastSeq, historyVars>>
  PROVE  StepInv'
<1> USE DEF wireVars, hostVars, callVars, bootVars, historyVars
<1>1. FrameStep' /\ CallsInOrder'
  BY DEF StepInv, FrameStep, CallsInOrder, InCall
<1>2. PhaseStep => PhaseStep'
  BY DEF PhaseStep, DownStep, EscapeStep, HelloStep, FeaturesStep, UpgradeStep, IdleStep,
         WakeStep, WaitStep, Lone, One, Faithful
<1> QED BY <1>1, <1>2 DEF StepInv, Usable

LEMMA InitInStep == ASSUME SafeProfile, Init PROVE LockStepInv
<1>1. AtMostOnceInv
  BY InitInv
<1>2. /\ phase = "down" /\ toAgent = <<>> /\ toHost = <<>> /\ ~lastReqValid
      /\ \A c \in Calls : outcome[c] = "none"
  BY DEF Init, HostInit, AgentInit
<1>3. DownStep /\ FrameStep /\ CallsInOrder
  BY <1>2 DEF DownStep, FrameStep, CallsInOrder, InCall
<1> QED BY <1>1, <1>2, <1>3 DEF LockStepInv, PhaseStep

LEMMA LockStepStep ==
  ASSUME SafeProfile, LockStepInv, [Next]_vars
  PROVE  LockStepInv'
<1>1. AtMostOnceInv /\ StepInv /\ AtMostOnceInv'
  BY LockStepParts, InvStep
<1>2. SUFFICES StepInv'
  BY <1>1 DEF LockStepInv, StepInv, Usable
<1>3. ASSUME NEW op \in Ops, HostCalls(op) PROVE StepInv'
  BY <1>1, <1>3, StartInStep DEF HostCalls
<1>4. ASSUME HostBoots PROVE StepInv'
  BY <1>1, <1>4, ProbeInStep DEF HostBoots
<1>5. ASSUME HostHears PROVE StepInv'
  BY <1>1, <1>5, CreditInStep, WaitInStep, EscapeInStep, HelloInStep, UpgradeInStep,
     BootEndsInStep DEF HostHears, HostReads
<1>6. ASSUME HostGivesUp \/ HostLosesStream PROVE StepInv'
  BY <1>1, <1>6, WaitInStep, HelloInStep, BootEndsInStep
     DEF HostGivesUp, HostTimeouts, HostLosesStream, HostDisconnected
<1>7. ASSUME AgentHears PROVE StepInv'
  <2>1. UNCHANGED hostVars /\ (RawReads \/ FrameReads(FALSE))
    BY <1>7 DEF AgentHears, AgentReads, RawReads, FrameReads
  <2> QED BY <1>1, <2>1, RawInStep, FrameInStep
<1>8. ASSUME AgentStumbles PROVE StepInv'
  <2>1. UNCHANGED hostVars /\ FrameReads(TRUE)
    BY <1>8 DEF AgentStumbles, AgentCut, FrameReads, Fault, SafeProfile
  <2> QED BY <1>1, <2>1, FrameInStep
<1>9. ASSUME AgentStops \/ UNCHANGED vars PROVE StepInv'
  BY <1>1, <1>9, StillInStep
     DEF AgentStops, HookTimeout, vars, agentVars, sessionVars, historyVars
<1>10. ASSUME Lose PROVE StepInv'
  BY <1>1, <1>10, LoseInStep DEF Lose
<1>11. ASSUME Disconnect \/ Reconnect PROVE StepInv'
  BY <1>1, <1>11, ConnectionInStep
<1>12. ~Reopen
  BY DEF Reopen, SafeProfile
<1> QED BY <1>3, <1>4, <1>5, <1>6, <1>7, <1>8, <1>9, <1>10, <1>11, <1>12 DEF Next

LEMMA SafeSession == ASSUME SafeProfile PROVE Spec => []LockStepInv
<1>1. Init => LockStepInv
  BY InitInStep
<1>2. LockStepInv /\ [Next]_vars => LockStepInv'
  BY LockStepStep
<1> QED BY <1>1, <1>2, PTL DEF Spec

(***************************************************************************)
(* In the safe profile the counters of both sides agree whenever another   *)
(* request may start, for any number of faults, bootstraps and escapes.    *)
(***************************************************************************)
THEOREM SafeCountersAgree == ASSUME SafeProfile PROVE Spec => []InStep
<1>1. LockStepInv => InStep
  BY DEF LockStepInv, PhaseStep, IdleStep, InStep
<1> QED BY <1>1, SafeSession, PTL

(***************************************************************************)
(* Nor is a frame ever on its way to the raw dispatcher, which would take  *)
(* its bytes for commands.                                                 *)
(***************************************************************************)
THEOREM SafeFramesAreParsed == ASSUME SafeProfile PROVE Spec => []NoFrameToRawParser
<1>1. LockStepInv => NoFrameToRawParser
  BY DEF LockStepInv, FrameStep, NoFrameToRawParser
<1> QED BY <1>1, SafeSession, PTL

(***************************************************************************)
(* And the answer a call takes for its own is its own.                     *)
(***************************************************************************)
THEOREM SafeAnswersAreOwn == ASSUME SafeProfile PROVE Spec => []AnswersOwnCall
<1>1. LockStepInv => AnswersOwnCall
  <2> SUFFICES ASSUME LockStepInv, phase = "wait", toHost # <<>>, Answers(Head(toHost))
               PROVE  Head(toHost).call = issued
    BY DEF AnswersOwnCall
  <2>1. Usable /\ WaitStep /\ toHost \in Seq(ToHostUnit)
    BY StepTypes DEF LockStepInv, Usable, PhaseStep
  <2>2. One(toHost, {"response", "torn"}) /\ Head(toHost) = toHost[1]
    BY <2>1, OneRead DEF WaitStep, Lone
  <2>3. One(toHost, {"response"})
    BY <2>2 DEF Answers, One
  <2> QED BY <2>1, <2>2, <2>3 DEF WaitStep, Faithful
<1> QED BY <1>1, SafeSession, PTL

-------------------------------------------------------------------------------
(***************************************************************************)
(* The at-most-once service.  Steps of the host change what a caller was   *)
(* told, those of the agent what took effect; every other step stutters.   *)
(***************************************************************************)
RpcVars == <<callOp, outcome, effects>>

LEMMA FailIsGiveUp ==
  ASSUME LockStepInv, InCall, Fail, UNCHANGED agentVars
  PROVE  Rpc!Next
<1>1. issued \in Calls /\ outcome[issued] = "pending"
  BY StepTypes DEF LockStepInv, CallsInOrder
<1>2. Rpc!GiveUp(issued)
  BY <1>1 DEF Fail, agentVars, historyVars, Rpc!GiveUp
<1> QED BY <1>1, <1>2 DEF Rpc!Next

LEMMA HostImplements ==
  ASSUME SafeProfile, LockStepInv, UNCHANGED agentVars,
         \/ \E op \in Ops : StartCall(op)
         \/ HostReads \/ HostTimeouts \/ HostDisconnected \/ Probe \/ Recover
  PROVE  Rpc!Next \/ UNCHANGED RpcVars
<1> USE DEF agentVars, historyVars, RpcVars
<1>1. AtMostOnceInv /\ StepInv
  BY LockStepParts
<1>2. ASSUME NEW op \in Ops, StartCall(op) PROVE Rpc!Next
  <2>1. issued + 1 \in Calls /\ outcome[issued + 1] = "none"
    BY <1>1, <1>2, StepTypes DEF StartCall, StepInv, CallsInOrder, Calls
  <2>2. Rpc!Issue(issued + 1, op)
    BY <1>2, <2>1 DEF StartCall, Rpc!Issue
  <2> QED BY <2>1, <2>2 DEF Rpc!Next, Ops
<1>3. ASSUME WakeMismatch \/ WakeTimeout \/ WaitTimeout PROVE Rpc!Next
  <2>1. InCall /\ NextAttemptOrFail
    BY <1>3 DEF WakeMismatch, WakeTimeout, WaitTimeout, InCall
  <2>2. Fail
    BY <1>1, <2>1, NoRetry
  <2> QED BY <2>1, <2>2, FailIsGiveUp
<1>4. ASSUME CallDisconnected PROVE Rpc!Next
  BY <1>4, FailIsGiveUp DEF CallDisconnected
<1>5. ASSUME ReadAnswer PROVE Rpc!Next
  <2>1. Usable /\ WaitStep /\ toHost \in Seq(ToHostUnit) /\ InCall /\ toHost # <<>>
    BY <1>1, <1>5, StepTypes DEF ReadAnswer, StepInv, Usable, PhaseStep, InCall
  <2>2. One(toHost, {"response", "torn"}) /\ Head(toHost) = toHost[1]
    BY <2>1, OneRead DEF WaitStep, Lone
  <2>3. One(toHost, {"response"}) /\ Faithful(toHost[1])
    BY <1>5, <2>1, <2>2 DEF ReadAnswer, Answers, One, WaitStep
  <2> DEFINE st == toHost[1].status
  <2>4. st \in {"OK", "BAD_STATE"} /\ Finish(Verdict(st))
    BY <1>5, <2>2, <2>3 DEF ReadAnswer, Faithful, Results
  <2>5. issued \in Calls /\ outcome[issued] = "pending"
    BY <1>1, <2>1, StepTypes DEF StepInv, CallsInOrder
  <2>6. CASE st = "OK"
    <3>1. Verdict(st) = "ok" /\ (callOp[issued] \in Mutating => effects[issued] = 1)
      BY <2>3, <2>6 DEF Verdict, Faithful
    <3>2. Rpc!ReportDone(issued)
      BY <2>4, <2>5, <3>1 DEF Finish, Rpc!ReportDone
    <3> QED BY <2>5, <3>2 DEF Rpc!Next
  <2>7. CASE st = "BAD_STATE"
    <3>1. Verdict(st) = "rejected" /\ effects[issued] = 0
      BY <2>3, <2>7 DEF Verdict, Faithful
    <3>2. Rpc!Reject(issued)
      BY <2>4, <2>5, <3>1 DEF Finish, Rpc!Reject
    <3> QED BY <2>5, <3>2 DEF Rpc!Next
  <2> QED BY <2>4, <2>6, <2>7
<1>6. ASSUME \/ WakeCredited \/ DiscardUnit \/ Probe \/ Recover \/ ProbeRefused
             \/ EscapeCredited \/ SkipToHello \/ ReadHello \/ AskHello
             \/ ReadFeatures \/ SessionStarts \/ BootMismatch \/ BootTimeout
             \/ BootDisconnected
      PROVE  UNCHANGED RpcVars
  BY <1>6 DEF WakeCredited, DiscardUnit, Probe, Recover, ProbeRefused, EscapeCredited,
              SkipToHello, ReadHello, AskHello, ReadFeatures, SessionStarts, BootMismatch,
              BootTimeout, BootDisconnected, BootFails, hostVars, callVars
<1> QED BY <1>2, <1>3, <1>4, <1>5, <1>6 DEF HostReads, HostTimeouts, HostDisconnected

\* Only accepting a request makes its call take effect, for the first time,
\* and its caller has not been told that it was rejected.
LEMMA AgentImplements ==
  ASSUME LockStepInv, UNCHANGED hostVars, NEW cut \in BOOLEAN, FrameReads(cut)
  PROVE  Rpc!Next \/ UNCHANGED RpcVars
<1> USE DEF hostVars, callVars, historyVars, RpcVars
<1>1. HasFrame /\ AtMostOnceInv /\ StepInv /\ effects \in [Calls -> Nat]
  BY FrameEmits, StepTypes, LockStepParts DEF AgentTypeOK
<1>2. ASSUME NEW st \in Results, Accept(st, cut), effects' # effects PROVE Rpc!Next
  <2>1. /\ effects' = [effects EXCEPT ![Frame.call] = @ + 1]
        /\ Frame.op \in Mutating
    BY <1>2 DEF Accept, Dispatch
  <2>2. Frame.call \in Calls /\ effects[Frame.call] = 0
    BY <1>1, <1>2, StepTypes, Unserved DEF Accept, WireTypeOK
  <2>3. /\ Frame.call = issued /\ Frame.op = callOp[issued]
        /\ outcome[issued] \in {"pending", "unknown"}
    <3>1. 1 \in DOMAIN toAgent /\ Frame = toAgent[1] /\ Frame.kind = "rest"
      BY <1>1, StepTypes, TailElements DEF HasFrame, Frame
    <3> QED BY <1>1, <3>1 DEF StepInv, FrameStep
  <2>4. effects' = [effects EXCEPT ![issued] = 1]
    BY <1>1, <2>1, <2>2, <2>3
  <2>5. Rpc!TakeEffect(issued)
    BY <2>1, <2>2, <2>3, <2>4 DEF Rpc!TakeEffect
  <2> QED BY <2>2, <2>3, <2>5 DEF Rpc!Next
<1>3. ASSUME NEW st \in Results, Recompute(st, cut) PROVE UNCHANGED RpcVars
  <2>1. Frame.op \notin Mutating
    BY <1>3 DEF Recompute, CachedIsBulk, Mutating
  <2> QED BY <1>3, <2>1 DEF Recompute, Dispatch
<1>4. ASSUME Conflict(cut) \/ Incomplete(cut) \/ Replay(cut) PROVE UNCHANGED RpcVars
  BY <1>4 DEF Conflict, Incomplete, Replay, Refuse
<1> QED BY <1>2, <1>3, <1>4 DEF FrameReads

LEMMA RpcStep ==
  ASSUME SafeProfile, LockStepInv, [Next]_vars
  PROVE  [Rpc!Next]_RpcVars
<1> USE DEF RpcVars
<1>1. ASSUME \/ \E op \in Ops : HostCalls(op)
             \/ HostBoots \/ HostHears \/ HostGivesUp \/ HostLosesStream
      PROVE  Rpc!Next \/ UNCHANGED RpcVars
  BY <1>1, HostImplements DEF HostCalls, HostBoots, HostHears, HostGivesUp, HostLosesStream
<1>2. ASSUME AgentHears \/ AgentStumbles PROVE Rpc!Next \/ UNCHANGED RpcVars
  <2>1. UNCHANGED hostVars /\ (RawReads \/ FrameReads(FALSE) \/ FrameReads(TRUE))
    BY <1>2 DEF AgentHears, AgentReads, AgentStumbles, AgentCut, AgentRejectsCrc,
                RawReads, FrameReads, Fault, SafeProfile
  <2>2. ASSUME RawReads PROVE UNCHANGED RpcVars
    BY <2>1, <2>2, RawReplies DEF hostVars, callVars, historyVars
  <2> QED BY <2>1, <2>2, AgentImplements
<1>3. ASSUME AgentStops \/ Lose \/ Disconnect \/ UNCHANGED vars PROVE UNCHANGED RpcVars
  BY <1>3 DEF AgentStops, HookTimeout, Lose, Disconnect, SessionReset, ForgetSession,
              vars, hostVars, callVars, agentVars, historyVars
<1>4. ASSUME Reconnect PROVE UNCHANGED RpcVars
  BY <1>4 DEF Reconnect, Attach, SessionReset, ForgetSession, historyVars
<1>5. ~Reopen
  BY DEF Reopen, SafeProfile
<1> QED BY <1>1, <1>2, <1>3, <1>4, <1>5 DEF Next

(***************************************************************************)
(* A safe session tells its callers the truth: every step of host, agent   *)
(* and environment is one of the at-most-once service, or none.            *)
(***************************************************************************)
THEOREM SafeSessionIsService == ASSUME SafeProfile PROVE Spec => ImplementsRpc
<1>1. Init => Rpc!Init
  BY DEF Init, HostInit, AgentInit, None, Rpc!Init
<1>2. LockStepInv /\ [Next]_vars => [Rpc!Next]_Rpc!vars
  BY RpcStep DEF RpcVars, Rpc!vars
<1> QED BY <1>1, <1>2, SafeSession, PTL DEF Spec, ImplementsRpc, Rpc!Spec
===============================================================================
