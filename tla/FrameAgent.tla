------------------------------ MODULE FrameAgent ------------------------------
(***************************************************************************)
(* The framed protocol of the MSX agent (agent/msx_agent_core.asm): the    *)
(* raw bootstrap commands, the search for a frame, the reconnect escape,   *)
(* and the at-most-once rule for requests.  One action reads one unit of   *)
(* the stream, with everything the agent does before it reads again.       *)
(***************************************************************************)
EXTENDS Wire

CONSTANTS
  EscLength,  \* RECONNECT_LENGTH, the escapes that end a framed session
  Hooked      \* TRUE: requests are read in a BIOS hook, with an I/O budget;
              \* FALSE: by the foreground monitor, which waits for ever

ASSUME AgentAssumption == EscLength \in Nat \ {0} /\ Hooked \in BOOLEAN

VARIABLES
  framed,         \* framed_mode
  parser,         \* "seek": frame_seek_magic; "magic": after an "M"
  escapes,        \* frame_reconnect_count
  nextSeq,        \* next_sequence
  lastReqValid,   \* last_request_valid
  lastSeq,        \* last_sequence
  lastOp,         \* last_opcode and last_request_crc
  lastRespValid,  \* last_response_valid
  lastStatus,     \* last_response_status
  lastCall,       \* history: the call whose response is cached
  accepted,       \* history: the last call that was accepted as new
  effects         \* history: how often each call took effect

sessionVars == <<framed, parser, escapes, nextSeq, lastReqValid, lastSeq,
                 lastOp, lastRespValid, lastStatus>>
historyVars == <<lastCall, accepted, effects>>
agentVars == <<sessionVars, historyVars>>

AgentTypeOK ==
  /\ framed \in BOOLEAN
  /\ parser \in {"seek", "magic"}
  /\ escapes \in 0 .. (EscLength - 1)
  /\ nextSeq \in Sequence
  /\ lastReqValid \in BOOLEAN
  /\ lastSeq \in Sequence
  /\ lastOp \in Ops
  /\ lastRespValid \in BOOLEAN
  /\ lastStatus \in {"OK", "BAD_STATE"}
  /\ lastCall \in 0 .. MaxCalls
  /\ accepted \in 0 .. MaxCalls
  /\ effects \in [Calls -> Nat]

\* The resident as loaded: raw mode, nothing accepted yet.
AgentInit ==
  /\ framed = FALSE
  /\ parser = "seek"
  /\ escapes = 0
  /\ nextSeq = 0
  /\ lastReqValid = FALSE
  /\ lastSeq = 0
  /\ lastOp = "write"
  /\ lastRespValid = FALSE
  /\ lastStatus = "OK"
  /\ lastCall = 0
  /\ accepted = 0
  /\ effects = [c \in Calls |-> 0]

-------------------------------------------------------------------------------
(* The raw bootstrap: dispatch, with one answer per command. *)

Answer(u) == toAgent' = Tail(toAgent) /\ toHost' = Append(toHost, u)
Swallow == toAgent' = Tail(toAgent) /\ UNCHANGED toHost

\* A command without a handler, an ESC or a part of a frame among them: "E,1".
RawRefuse ==
  /\ ~framed /\ toAgent # <<>>
  /\ Head(toAgent).kind \in {"esc", "magic", "rest"}
  /\ Answer(Note("refused", Head(toAgent).call, 1))
  /\ UNCHANGED agentVars

RawHello ==
  /\ ~framed /\ toAgent # <<>> /\ Head(toAgent).kind = "hello"
  /\ Answer(Note("hello", Head(toAgent).call, FrameBytes))
  /\ UNCHANGED agentVars

RawFeatures ==
  /\ ~framed /\ toAgent # <<>> /\ Head(toAgent).kind = "features"
  /\ Answer(Note("features", Head(toAgent).call, 1))
  /\ UNCHANGED agentVars

\* cmd_frame_enable
RawFrameEnable ==
  /\ ~framed /\ toAgent # <<>> /\ Head(toAgent).kind = "framed"
  /\ Answer(Note("upgraded", Head(toAgent).call, 1))
  /\ framed' = TRUE
  /\ lastRespValid' = FALSE
  /\ lastReqValid' = FALSE
  /\ escapes' = 0
  /\ nextSeq' = 0
  /\ UNCHANGED <<parser, lastSeq, lastOp, lastStatus, historyVars>>

-------------------------------------------------------------------------------
(* frame_seek_magic: the bytes between frames. *)

\* The first byte of a frame, or another "M" after one: credit it.
SeeMagic ==
  /\ framed /\ toAgent # <<>> /\ Head(toAgent).kind = "magic"
  /\ Answer(Credit)
  /\ parser' = "magic"
  /\ escapes' = 0
  /\ UNCHANGED <<framed, nextSeq, lastReqValid, lastSeq, lastOp,
                 lastRespValid, lastStatus, historyVars>>

\* Anything else is skipped; after an "M" this includes an ESC, uncredited.
SkipNoise ==
  /\ framed /\ toAgent # <<>>
  /\ \/ Head(toAgent).kind \in {"hello", "features", "framed"}
     \/ Head(toAgent).kind = "rest" /\ parser = "seek"
     \/ Head(toAgent).kind = "esc" /\ parser = "magic"
  /\ Swallow
  /\ parser' = "seek"
  /\ escapes' = 0
  /\ UNCHANGED <<framed, nextSeq, lastReqValid, lastSeq, lastOp,
                 lastRespValid, lastStatus, historyVars>>

SeesEscape ==
  framed /\ parser = "seek" /\ toAgent # <<>> /\ Head(toAgent).kind = "esc"

\* frame_reconnect_byte
CountEscape ==
  /\ SeesEscape
  /\ escapes + 1 < EscLength
  /\ Answer(Credit)
  /\ escapes' = escapes + 1
  /\ UNCHANGED <<framed, parser, nextSeq, lastReqValid, lastSeq, lastOp,
                 lastRespValid, lastStatus, historyVars>>

\* The protocol state a new stream, or a new epoch of it, starts from.
ForgetSession ==
  /\ framed' = FALSE
  /\ parser' = "seek"
  /\ escapes' = 0
  /\ nextSeq' = 0
  /\ lastReqValid' = FALSE
  /\ lastRespValid' = FALSE
  /\ UNCHANGED <<lastSeq, lastOp, lastStatus, historyVars>>

\* frame_rebootstrap: credit the last escape, forget the session, say HELLO.
Rebootstrap ==
  /\ SeesEscape
  /\ escapes + 1 = EscLength
  /\ toAgent' = Tail(toAgent)
  /\ toHost' = toHost \o <<Credit, Note("hello", Head(toAgent).call, FrameBytes)>>
  /\ ForgetSession

\* Mutant of HookTimeout: a stalled peer is taken for a lost one.
HookTimeoutForgets ==
  /\ Hooked /\ framed
  /\ parser = "magic" \/ escapes > 0
  /\ ForgetSession
  /\ UNCHANGED wireVars

\* hook_transport_timeout while a frame or an escape is being read.
HookTimeout ==
  /\ Hooked /\ framed
  /\ parser = "magic" \/ escapes > 0
  /\ parser' = "seek"
  /\ escapes' = 0
  /\ UNCHANGED <<framed, nextSeq, lastReqValid, lastSeq, lastOp,
                 lastRespValid, lastStatus, historyVars, wireVars>>

-------------------------------------------------------------------------------
(***************************************************************************)
(* A complete frame.  A response whose transmission runs out of the hook's *)
(* budget is cut: the host sees noise, and hook_transport_timeout takes    *)
(* back the promise of a "post" command, whose effect then never happens.  *)
(***************************************************************************)
HasFrame ==
  framed /\ parser = "magic" /\ toAgent # <<>> /\ Head(toAgent).kind = "rest"

Frame == Head(toAgent)

Emit(u, cut) ==
  /\ cut => Hooked
  /\ toAgent' = Tail(toAgent)
  /\ toHost' = Append(toHost, IF cut THEN Note("torn", u.call, 1) ELSE u)
  /\ parser' = "seek"

\* frame_reply_error_uncached
Refuse(st, cut) ==
  /\ Emit(Response(Frame.call, Frame.seq, Frame.op, st), cut)
  /\ UNCHANGED <<framed, escapes, nextSeq, lastReqValid, lastSeq, lastOp,
                 lastRespValid, lastStatus, historyVars>>

\* frame_dispatch and frame_cache_and_send.
Dispatch(st, cut) ==
  LET promised == Frame.op = "post" /\ st = "OK"
      done     == Frame.op \in Mutating /\ st = "OK" /\ ~(promised /\ cut)
  IN /\ Emit(Response(Frame.call, Frame.seq, Frame.op, st), cut)
     /\ lastStatus' = st
     /\ lastRespValid' = ~(promised /\ cut)
     /\ lastCall' = Frame.call
     /\ effects' = IF done THEN [effects EXCEPT ![Frame.call] = @ + 1]
                           ELSE effects

IsRepeat == lastReqValid /\ lastSeq = Frame.seq

\* The payload CRC does not match: the frame was damaged on its way.
BadCrc(cut) == HasFrame /\ Refuse("CRC_ERROR", cut)

\* frame_expect_new_sequence: identity is recorded before the dispatch.
Accept(st, cut) ==
  /\ HasFrame
  /\ ~IsRepeat
  /\ Frame.seq = nextSeq
  /\ Dispatch(st, cut)
  /\ lastSeq' = Frame.seq
  /\ nextSeq' = NextSequence(Frame.seq)
  /\ lastOp' = Frame.op
  /\ lastReqValid' = TRUE
  /\ accepted' = Frame.call
  /\ UNCHANGED <<framed, escapes>>

\* frame_duplicate_conflict: a reused number, or one out of turn.
Conflict(cut) ==
  /\ HasFrame
  /\ IF IsRepeat THEN Frame.op # lastOp ELSE Frame.seq # nextSeq
  /\ Refuse("BAD_ARG", cut)

\* frame_duplicate_incomplete: accepted, but its response cannot be replayed.
Incomplete(cut) ==
  /\ HasFrame /\ IsRepeat
  /\ Frame.op = lastOp /\ ~lastRespValid
  /\ Refuse("BUSY", cut)

\* Mutant of CachedIsBulk: every request that succeeded is computed again.
CachedIsOk == lastStatus = "OK"

\* cache_is_bulk_read: the response was too long for the cache.
CachedIsBulk == lastOp = "read" /\ lastStatus = "OK"

\* The cached response is sent again; nothing is executed.
Replay(cut) ==
  /\ HasFrame /\ IsRepeat
  /\ Frame.op = lastOp /\ lastRespValid /\ ~CachedIsBulk
  /\ Emit(Response(lastCall, Frame.seq, Frame.op, lastStatus), cut)
  /\ UNCHANGED <<framed, escapes, nextSeq, lastReqValid, lastSeq, lastOp,
                 lastRespValid, lastStatus, historyVars>>

\* A bulk response is longer than the cache, so the read is done again.
Recompute(st, cut) ==
  /\ HasFrame /\ IsRepeat
  /\ Frame.op = lastOp /\ lastRespValid /\ CachedIsBulk
  /\ Dispatch(st, cut)
  /\ UNCHANGED <<framed, escapes, nextSeq, lastReqValid, lastSeq, lastOp,
                 accepted>>

\* transport_session_reset, before the listener opens to another peer.
SessionReset == ForgetSession

Results == {"OK", "BAD_STATE"}

AgentReads ==
  \/ RawRefuse \/ RawHello \/ RawFeatures \/ RawFrameEnable
  \/ SeeMagic \/ SkipNoise \/ CountEscape \/ Rebootstrap
  \/ \E st \in Results : Accept(st, FALSE) \/ Recompute(st, FALSE)
  \/ Conflict(FALSE) \/ Incomplete(FALSE) \/ Replay(FALSE)

\* The same frames, with a response that is cut.
AgentCut ==
  \/ \E st \in Results : Accept(st, TRUE) \/ Recompute(st, TRUE)
  \/ Conflict(TRUE) \/ Incomplete(TRUE) \/ Replay(TRUE)

\* A frame that was damaged on its way.
AgentRejectsCrc == \E cut \in BOOLEAN : BadCrc(cut)
===============================================================================
