------------------------------- MODULE FaultProxy -------------------------------
(***************************************************************************)
(* tools/tcp_fault_proxy.py: the proxy that validation runs put between    *)
(* the host and the agent, to cut a session and say what had passed.       *)
(*                                                                         *)
(* Threads: one accepts, one pumps each session, and the test cuts, waits  *)
(* and closes.  A step is what one of them does under the condition's      *)
(* lock, or one operation on a socket.  Data are counted in units; the two *)
(* ends are external, and a new client may come before the old one goes.   *)
(***************************************************************************)
EXTENDS Naturals, Sequences, FiniteSets

CONSTANTS
  MaxSessions, \* sessions that are accepted
  MaxUnits,    \* units the ends of all sessions send
  MaxCuts      \* faults the test injects

ASSUME ProxyAssumption == MaxSessions \in Nat

VARIABLES
  sessions,    \* what the proxy knows of each session, and its sockets
  current,     \* number of the active session, or 0
  finished,    \* history: snapshots of finished sessions
  acceptor,    \* the accept thread
  pumps,       \* the thread of each session
  tester,      \* the thread of the test
  stopping,
  cuts,
  units,       \* units sent so far
  \* What the ends could see, which guards nothing:
  arrived,     \* units at either end of each session
  partly       \* sessions of which a unit was sent in part

proxyVars == <<sessions, current, finished, acceptor, pumps, tester, stopping, cuts, units, arrived, partly>>

SessionNumbers == 1 .. MaxSessions
Peers == {"client", "target"}
OtherPeer(end) == IF end = "client" THEN "target" ELSE "client"
NoSession == [known |-> FALSE]
NoUnits == [e \in Peers |-> 0]
NewSession ==
  [known |-> TRUE, fault |-> "none", closed |-> FALSE, black |-> FALSE,
   sockets |-> "open", gone |-> FALSE, sent |-> NoUnits, passed |-> NoUnits,
   told |-> NoUnits]
SessionOpen(n) == sessions[n].known /\ ~sessions[n].closed
SnapshotOf(n) == [number |-> n, fault |-> sessions[n].fault, passed |-> sessions[n].passed]

----------------------------------------------------------------------------
\* _finish, by any thread: only the first one marks the session, closes its
\* sockets and records it.  A thread goes on with `then`.

Finishing(n, reason, reset, then) ==
  [pc |-> "finish", n |-> n, reason |-> reason, reset |-> reset, then |-> then]
ThreadAt(pc) == [pc |-> pc]

InFinish(thread) == thread.pc \in {"finish", "sockets", "record"}
NextOf(thread) ==
  CASE thread.pc = "finish" /\ ~sessions[thread.n].closed -> [thread EXCEPT !.pc = "sockets"]
    [] thread.pc = "sockets" -> [thread EXCEPT !.pc = "record"]
    [] OTHER -> thread.then

MarksClosed(thread) ==
  /\ thread.pc = "finish"
  /\ sessions' = IF sessions[thread.n].closed THEN sessions
                 ELSE [sessions EXCEPT ![thread.n].closed = TRUE,
                         ![thread.n].fault = IF @ = "none" THEN thread.reason ELSE @]
  /\ UNCHANGED <<current, finished>>

ClosesSockets(thread) ==
  /\ thread.pc = "sockets"
  /\ sessions' = [sessions EXCEPT ![thread.n].sockets =
                    IF thread.reset THEN "reset" ELSE "closed"]
  /\ UNCHANGED <<current, finished>>

RecordsSession(thread) ==
  /\ thread.pc = "record"
  /\ finished' = Append(finished, SnapshotOf(thread.n))
  /\ current' = IF current = thread.n THEN 0 ELSE current
  /\ UNCHANGED sessions

FinishSession(thread) ==
  InFinish(thread) /\ (MarksClosed(thread) \/ ClosesSockets(thread) \/ RecordsSession(thread))

----------------------------------------------------------------------------
\* The ends of a session.

PeerSends ==
  \E n \in SessionNumbers, e \in Peers :
    /\ SessionOpen(n) /\ ~sessions[n].gone /\ units < MaxUnits /\ units' = units + 1
    /\ sessions' = [sessions EXCEPT ![n].sent[e] = @ + 1]
    /\ UNCHANGED <<current, finished, acceptor, pumps, tester, stopping, cuts, arrived, partly>>

PeerGoes ==
  \E n \in SessionNumbers :
    /\ SessionOpen(n) /\ ~sessions[n].gone
    /\ sessions' = [sessions EXCEPT ![n].gone = TRUE]
    /\ UNCHANGED <<current, finished, acceptor, pumps, tester, stopping, cuts, units, arrived, partly>>

----------------------------------------------------------------------------
\* _accept_loop.

Created == {n \in SessionNumbers : sessions[n].known}

\* The lock is free between the look at the flag and the next connection.
AcceptsClient ==
  /\ acceptor.pc = "accept" /\ ~stopping /\ Cardinality(Created) < MaxSessions
  /\ acceptor' = ThreadAt("connected")
  /\ UNCHANGED <<sessions, current, finished, pumps, tester, stopping, cuts, units, arrived, partly>>

TargetRefuses ==
  /\ acceptor.pc = "connected" /\ acceptor' = ThreadAt("accept")
  /\ UNCHANGED <<sessions, current, finished, pumps, tester, stopping, cuts, units, arrived, partly>>

PublishesSession ==
  /\ acceptor.pc = "connected"
  /\ IF stopping
       THEN acceptor' = ThreadAt("ended") /\ UNCHANGED <<sessions, current>>
       ELSE LET n == Cardinality(Created) + 1
                starts == [pc |-> "start", n |-> n]
            IN  /\ sessions' = [sessions EXCEPT ![n] = NewSession]
                /\ current' = n
                /\ acceptor' = IF current # 0 /\ ~sessions[current].closed
                               THEN Finishing(current, "superseded", TRUE, starts)
                               ELSE starts
  /\ UNCHANGED <<finished, pumps, tester, stopping, cuts, units, arrived, partly>>

StartsPump ==
  /\ acceptor.pc = "start" /\ acceptor' = ThreadAt("accept")
  /\ pumps' = [pumps EXCEPT ![acceptor.n] = ThreadAt("look")]
  /\ UNCHANGED <<sessions, current, finished, tester, stopping, cuts, units, arrived, partly>>

AcceptorEnds ==
  /\ acceptor.pc = "accept" /\ stopping /\ acceptor' = ThreadAt("ended")
  /\ UNCHANGED <<sessions, current, finished, pumps, tester, stopping, cuts, units, arrived, partly>>

AcceptorFinishes ==
  /\ FinishSession(acceptor) /\ acceptor' = NextOf(acceptor)
  /\ UNCHANGED <<pumps, tester, stopping, cuts, units, arrived, partly>>

----------------------------------------------------------------------------
\* _pump.

PumpGoes(n, thread) == pumps' = [pumps EXCEPT ![n] = thread]
OtherThreads == <<acceptor, tester, stopping, cuts, units>>
PumpEnded == ThreadAt("ended")

LeavesLoop(n) ==
  /\ pumps[n].pc = "look" /\ (stopping \/ sessions[n].closed)
  /\ PumpGoes(n, Finishing(n, "proxy-close", FALSE, PumpEnded))
  /\ UNCHANGED <<sessions, current, finished, arrived, partly, OtherThreads>>

\* recv, outside the lock: data, or the end of the stream.
Receives(n) ==
  /\ pumps[n].pc = "look" /\ ~stopping /\ ~sessions[n].closed /\ ~sessions[n].black
  /\ \/ \E e \in Peers :
          /\ sessions[n].sent[e] > sessions[n].passed[e]
          /\ PumpGoes(n, [pc |-> "data", from |-> e])
     \/ /\ sessions[n].gone
        /\ PumpGoes(n, Finishing(n, "peer-close", FALSE, PumpEnded))
  /\ UNCHANGED <<sessions, current, finished, arrived, partly, OtherThreads>>

\* Mutant: the fault is looked for before the data are read only.
MayForwardAnyway(n) == ~stopping
MayForward(n) == ~stopping /\ ~sessions[n].black /\ ~sessions[n].closed

\* sendall and the count under one lock.  The sockets do not block: a full one
\* takes a part of the data, which is not counted.
Forwards(n) ==
  /\ pumps[n].pc = "data"
  /\ LET e == pumps[n].from
         seen == [arrived EXCEPT ![n][OtherPeer(e)] = @ + 1]
     IN  IF ~MayForward(n)
         THEN PumpGoes(n, ThreadAt("look")) /\ UNCHANGED <<sessions, arrived, partly>>
         ELSE \/ /\ sessions[n].sockets = "open"
                 /\ sessions' = [sessions EXCEPT ![n].passed[e] = @ + 1]
                 /\ arrived' = seen /\ PumpGoes(n, ThreadAt("look")) /\ UNCHANGED partly
              \/ /\ PumpGoes(n, Finishing(n, "forward-error", TRUE, PumpEnded))
                 /\ \/ /\ sessions[n].sockets = "open"
                       /\ arrived' = seen /\ partly' = partly \cup {n}
                    \/ UNCHANGED <<arrived, partly>>
                 /\ UNCHANGED sessions
  /\ UNCHANGED <<current, finished, OtherThreads>>

PumpFinishes(n) ==
  /\ FinishSession(pumps[n]) /\ PumpGoes(n, NextOf(pumps[n]))
  /\ UNCHANGED <<arrived, partly, OtherThreads>>

----------------------------------------------------------------------------
\* The test.

CutSession(mode) ==
  /\ tester.pc = "idle" /\ ~stopping /\ cuts < MaxCuts /\ cuts' = cuts + 1
  /\ current # 0 /\ ~sessions[current].closed
  /\ sessions' = [sessions EXCEPT ![current].fault = mode,
                    ![current].black = @ \/ mode = "blackhole",
                    ![current].told = sessions[current].passed]
  /\ tester' = IF mode = "blackhole" THEN tester
               ELSE Finishing(current, mode, mode = "rst", ThreadAt("idle"))
  /\ UNCHANGED <<current, finished, acceptor, pumps, stopping, units, arrived, partly>>

CloseProxy ==
  /\ tester.pc = "idle" /\ ~stopping /\ stopping' = TRUE
  /\ tester' = IF current = 0 THEN ThreadAt("join")
               ELSE Finishing(current, "proxy-close", TRUE, ThreadAt("join"))
  /\ UNCHANGED <<sessions, current, finished, acceptor, pumps, cuts, units, arrived, partly>>

\* The listener is closed; the threads are joined, which they are in time for.
Joins ==
  /\ tester.pc = "join" /\ acceptor.pc = "ended"
  /\ \A n \in SessionNumbers : pumps[n].pc \in {"none", "ended"}
  /\ tester' = ThreadAt("closed")
  /\ UNCHANGED <<sessions, current, finished, acceptor, pumps, stopping, cuts, units,
                 arrived, partly>>

TesterFinishes ==
  /\ FinishSession(tester) /\ tester' = NextOf(tester)
  /\ UNCHANGED <<acceptor, pumps, stopping, cuts, units, arrived, partly>>

----------------------------------------------------------------------------
ProxyInit ==
  /\ sessions = [n \in SessionNumbers |-> NoSession]
  /\ current = 0 /\ finished = <<>> /\ stopping = FALSE /\ cuts = 0 /\ units = 0
  /\ acceptor = ThreadAt("accept") /\ tester = ThreadAt("idle")
  /\ pumps = [n \in SessionNumbers |-> ThreadAt("none")]
  /\ arrived = [n \in SessionNumbers |-> [e \in Peers |-> 0]] /\ partly = {}

ProxyNext ==
  \/ PeerSends \/ PeerGoes
  \/ AcceptsClient \/ TargetRefuses \/ PublishesSession \/ StartsPump \/ AcceptorEnds \/ AcceptorFinishes
  \/ \E n \in SessionNumbers : LeavesLoop(n) \/ Receives(n) \/ Forwards(n) \/ PumpFinishes(n)
  \/ \E mode \in {"fin", "rst", "blackhole"} : CutSession(mode)
  \/ CloseProxy \/ Joins \/ TesterFinishes

ProxySpec == ProxyInit /\ [][ProxyNext]_proxyVars

\* What the proxy reports is what happened: a finished session is recorded
\* once, with the fault the test injected and with every unit the other end
\* could see and none that came later, but for one that was sent in part;
\* nothing passes a black hole behind what cut told the test; only the newest
\* session is the active one; and a closed proxy leaves no session and no
\* socket open. (TCPFaultProxy: "Sending and accounting must be atomic with
\* respect to cut()")
ProxyIsAccountable ==
  /\ \A i \in DOMAIN finished : LET s == finished[i] IN
       /\ \A e \in Peers :
            IF s.number \in partly THEN arrived[s.number][e] >= s.passed[OtherPeer(e)]
                                   ELSE arrived[s.number][e] = s.passed[OtherPeer(e)]
       /\ s.fault = sessions[s.number].fault /\ s.fault # "none"
       /\ \A j \in DOMAIN finished : finished[j].number = s.number => i = j
  /\ \A n \in Created : sessions[n].black => sessions[n].passed = sessions[n].told
  /\ \A n, m \in Created : current = n => m <= n
  /\ tester.pc = "closed" =>
       /\ Len(finished) = Cardinality(Created)
       /\ \A n \in Created : sessions[n].closed /\ sessions[n].sockets # "open"
===============================================================================
