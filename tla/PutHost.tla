-------------------------------- MODULE PutHost --------------------------------
(***************************************************************************)
(* RealMSX.put_file (server/msx_real.py).  A put that ends, in any way,    *)
(* leaves only the journal behind.                                         *)
(***************************************************************************)
EXTENDS XferHost

Record(offset, intent) == [off |-> offset, close |-> intent]

\* The streaming loop of put_file: what it does next.
Turn(h) ==
  IF h.st = "COMPLETE" THEN IF h.sent THEN "finish" ELSE "lastclose"
  ELSE IF h.acc < Size
    THEN IF h.acc - h.dur >= Window THEN "poll" ELSE "put"
  ELSE IF h.dur < Size \/ h.sent THEN "poll"
  ELSE IF h.intent THEN "close" ELSE "intent"

----------------------------------------------------------------------------
\* Starting, or attaching to a transfer of an earlier put.

\* resume=False, or no journal to resume: a fresh ID, journalled before the
\* agent hears of it.
PutAnew ==
  /\ host.pc = "idle" /\ linked /\ ~file.get
  /\ \E i \in Ids \ used :
       /\ used' = used \cup {i}
       /\ journal' = [journal EXCEPT ![i] = Record(0, FALSE)]
       /\ host' = [NoTransfer EXCEPT !.pc = "open", !.id = i]
       /\ call' = Request(host')
  /\ UNCHANGED <<rsp, linked, typed, file, faults, done>>

PutResume(attach) ==
  /\ host.pc = "idle" /\ linked /\ ~file.get
  /\ Cardinality(Matching) = 1
  /\ \E i \in Matching :
       Continue([NoTransfer EXCEPT !.pc = "recover", !.id = i, !.resumed = TRUE,
                   !.attach = attach, !.dur = journal[i].off,
                   !.intent = journal[i].close])

\* Local state of the stream, taken from a status.  FAST_BEGIN comes before
\* the prefix of the partial file is compared with the source.
Bound(r) ==
  [host EXCEPT
    !.pc = IF r.state \in Moving THEN "begin" ELSE "adopt",
    !.st = r.state, !.dur = r.durable, !.acc = r.accepted,
    !.same = (r.prefix = Prefix(r.durable))]

\* _recover_active_transfer: attach if the transfer is still there, OPEN it
\* again if not.  existing_only never starts a helper.
GotRecover ==
  /\ Replied("recover") /\ ~file.get
  /\ IF Bad(rsp) \/ rsp.state = "IDLE"
       THEN IF host.attach THEN Raise ELSE Continue(At(host, "open"))
     ELSE IF rsp.state = "STAGED"
       THEN IF host.attach THEN Raise
            ELSE Round(host, "type") /\ UNCHANGED <<journal, done, typed>>
     ELSE IF rsp.state = "OPENING"
       THEN Round(host, "await") /\ UNCHANGED <<journal, done, typed>>
     ELSE /\ Round(Bound(rsp), Bound(rsp).pc)
          /\ UNCHANGED <<journal, done, typed>>

GotAwait ==
  /\ Replied("await") /\ ~file.get
  /\ IF Bad(rsp) THEN Raise
     ELSE IF rsp.state \in {"STAGED", "OPENING"}
       THEN Round(host, "await") /\ UNCHANGED <<journal, done, typed>>
     ELSE Continue(Bound(rsp))

\* Mutant: the partial file is not compared with the source.
AdoptBlindly ==
  /\ host.pc = "adopt" /\ ~file.get
  /\ \/ /\ host.dur = Size /\ host.acc = Size /\ ~host.intent
        /\ Become(At(host, "seal")) /\ UNCHANGED faults
     \/ /\ host.dur < Size \/ host.acc < Size \/ host.intent
        /\ Round(host, Turn(host))
  /\ journal' = [journal EXCEPT ![host.id].off = host.dur]
  /\ UNCHANGED <<done, typed>>

\* The remote boundary becomes the local one, and the journal's.
Adopt ==
  /\ host.pc = "adopt" /\ ~file.get
  /\ IF host.same /\ host.acc - host.dur <= Window
       THEN /\ \/ /\ host.dur = Size /\ host.acc = Size /\ ~host.intent
                  /\ Become(At(host, "seal")) /\ UNCHANGED faults
               \/ /\ host.dur < Size \/ host.acc < Size \/ host.intent
                  /\ Round(host, Turn(host))
            /\ journal' = [journal EXCEPT ![host.id].off = host.dur]
            /\ UNCHANGED <<done, typed>>
       ELSE Raise

----------------------------------------------------------------------------
\* Streaming.

\* reconcile_durable: a new boundary is journalled at intervals and at the
\* end of the file.
Checkpoint(d) ==
  IF d > host.dur /\ (d = Size \/ d - journal[host.id].off >= JournalEvery)
    THEN [journal EXCEPT ![host.id].off = d] ELSE journal

Reconcile(h, d) ==
  IF d < host.dur \/ d > h.acc THEN Raise
  ELSE LET now == [h EXCEPT !.dur = d] IN
       /\ Round(now, Turn(now))
       /\ journal' = Checkpoint(d)
       /\ UNCHANGED <<done, typed>>

\* The reply to a block predates its write: its durable boundary is old.
GotPut ==
  /\ Replied("put")
  /\ IF Bad(rsp) \/ rsp.accepted # host.acc + 1 THEN Raise
     ELSE Reconcile([host EXCEPT !.acc = @ + 1], rsp.durable)

GotPoll ==
  /\ Replied("poll")
  /\ IF Bad(rsp) \/ rsp.accepted # host.acc
          \/ rsp.prefix # Prefix(rsp.durable) THEN Raise
     ELSE Reconcile([host EXCEPT !.st = rsp.state], rsp.durable)

\* The close intent is on the host's disk before CLOSE is sent.
SaveIntent ==
  /\ host.pc \in {"seal", "intent"}
  /\ IF host.dur = Size /\ host.acc = Size
       THEN /\ journal' = [journal EXCEPT ![host.id] = Record(Size, TRUE)]
            /\ LET now == [host EXCEPT !.intent = TRUE] IN
               IF host.pc = "seal" THEN Round(now, Turn(now))
                 ELSE Become(At(now, "close")) /\ UNCHANGED faults
            /\ UNCHANGED <<done, typed>>
       ELSE Raise

GotClose ==
  /\ host.pc \in CloseSteps /\ rsp # None /\ ~file.get
  /\ IF Bad(rsp) THEN Raise
     ELSE Continue([host EXCEPT !.sent = TRUE,
                     !.pc = IF @ = "close" THEN "poll" ELSE "finish"])

CompletePut ==
  /\ host.pc = "finish"
  /\ IF host.dur = Size
       THEN /\ Become(NoTransfer)
            /\ journal' = [journal EXCEPT ![host.id] = None]
            /\ done' = done \cup {host.id}
            /\ UNCHANGED <<typed, faults>>
       ELSE Raise

Puts == PutAnew \/ PutResume(FALSE) \/ PutResume(TRUE)

PutHostSteps ==
  \/ GotRecover \/ GotAwait \/ Adopt \/ GotPut \/ GotPoll \/ SaveIntent
  \/ GotClose \/ CompletePut
===============================================================================
