-------------------------------- MODULE GetHost --------------------------------
(***************************************************************************)
(* RealMSX.get_file (server/msx_real.py): it streams into a hidden partial *)
(* file beside the destination, which gets its name when all of it is      *)
(* verified.  A block counts for nothing until a checkpoint has fsynced    *)
(* it: then it is acknowledged to the MSX, and then journalled.            *)
(***************************************************************************)
EXTENDS XferHost

VARIABLE local  \* the .msxpart of each transfer and the destination

PartFile(blocks, synced) == [data |-> blocks, safe |-> synced]
ForeignDest == [data |-> <<0>>, mine |-> FALSE]

GetRecord(offset, prefix, whole) ==
  [off |-> offset, close |-> FALSE, prefix |-> prefix, whole |-> whole]

LocalInit == local = [part |-> [i \in Ids |-> None], dest |-> None]

Partial == local.part[host.id]
SavesPart(f) == local' = [local EXCEPT !.part[host.id] = f]
Truncated(f, n) ==
  IF Len(f.data) > n THEN PartFile(SubSeq(f.data, 1, n), n) ELSE f
HoldsPrefix(f, blocks) ==
  Len(f.data) >= Len(blocks) /\ SubSeq(f.data, 1, Len(blocks)) = blocks

GetRaises == Raise /\ UNCHANGED local
GetContinues(h) == Continue(h) /\ UNCHANGED local
GetRound(h, pc) == Round(h, pc) /\ UNCHANGED <<journal, done, typed>>

\* What the streaming loop does next.
GetTurn(h) == IF h.acc < Len(h.whole) THEN "read" ELSE "close"

----------------------------------------------------------------------------
\* Starting, or attaching to a transfer of an earlier get.

GetAnew ==
  /\ host.pc = "idle" /\ linked /\ file.get
  /\ local.dest = None
  /\ \E i \in Ids \ used :
       /\ used' = used \cup {i}
       /\ local' = [local EXCEPT !.part[i] = PartFile(<<>>, 0)]
       /\ journal' = [journal EXCEPT ![i] = GetRecord(0, <<>>, <<>>)]
       /\ host' = [NoTransfer EXCEPT !.pc = "open", !.id = i]
       /\ call' = Request(host')
  /\ UNCHANGED <<rsp, linked, typed, file, faults, done>>

\* The partial file must hold what was journalled.
GetResume(attach) ==
  /\ host.pc = "idle" /\ linked /\ file.get
  /\ local.dest = None
  /\ Cardinality(Matching) = 1
  /\ \E i \in Matching :
       /\ local.part[i] # None
       /\ HoldsPrefix(local.part[i], journal[i].prefix)
       /\ GetContinues([NoTransfer EXCEPT
            !.pc = "recover", !.id = i, !.resumed = TRUE, !.attach = attach,
            !.dur = journal[i].off, !.prefix = journal[i].prefix,
            !.whole = journal[i].whole])

\* The size and CRC, unknown until the helper's scan, are pinned by the first
\* status that has them.
Binds(r) == host.whole \in {<<>>, r.whole}

\* The MSX may be ahead of the journal, but not of the partial file.
GetBound(r) ==
  [host EXCEPT
    !.pc = IF r.state \in Moving THEN "begin" ELSE "adopt",
    !.acc = r.durable, !.prefix = r.prefix, !.whole = r.whole,
    !.same = r.durable >= host.dur /\ HoldsPrefix(Partial, r.prefix)]

\* Nothing on the MSX: what lies beyond the journal is dropped, and the file
\* asked for again from there.
GetReopens ==
  IF host.attach THEN GetRaises
  ELSE Continue(At(host, "open")) /\ SavesPart(Truncated(Partial, host.dur))

GetAttaches ==
  /\ IF ~Binds(rsp) \/ (host.attach /\ rsp.state = "STAGED") THEN Raise
     ELSE IF rsp.state = "STAGED" THEN GetRound(host, "type")
     ELSE IF rsp.state = "OPENING" THEN GetRound(host, "await")
     ELSE GetRound(GetBound(rsp), GetBound(rsp).pc)
  /\ UNCHANGED local

GetRecover ==
  /\ Replied("recover") /\ file.get
  /\ IF Bad(rsp) \/ rsp.state = "IDLE" THEN GetReopens ELSE GetAttaches

GetAwait ==
  /\ Replied("await") /\ file.get
  /\ IF Bad(rsp) THEN Raise
     ELSE IF rsp.state \notin Moving \cup {"COMPLETE"} THEN GetRound(host, "await")
     ELSE IF Binds(rsp) THEN Continue(GetBound(rsp)) ELSE Raise
  /\ UNCHANGED local

\* What the MSX has not been told of is dropped from the partial file: its
\* helper sends it again.
GetAdopt ==
  /\ host.pc = "adopt" /\ file.get
  /\ IF host.same
       THEN LET now == [host EXCEPT !.dur = host.acc] IN
            /\ SavesPart(Truncated(Partial, host.acc))
            /\ journal' = [journal EXCEPT ![host.id] =
                             GetRecord(host.acc, host.prefix, host.whole)]
            /\ Round(now, GetTurn(now))
            /\ UNCHANGED <<done, typed>>
       ELSE GetRaises

----------------------------------------------------------------------------
\* Streaming.

CheckpointDue(n) == n = Len(host.whole) \/ n - host.dur >= JournalEvery

\* Mutant: a checkpoint is acknowledged before it is on the disk.
GotReadUnsynced ==
  /\ Replied("read")
  /\ LET data == Partial.data \o rsp.data
         now == [host EXCEPT !.acc = Len(data), !.prefix = data]
     IN IF Bad(rsp) THEN GetRaises
        ELSE /\ SavesPart([Partial EXCEPT !.data = data])
             /\ IF rsp.data # <<>> /\ CheckpointDue(now.acc) THEN Continue(At(now, "ack"))
                ELSE GetRound(now, GetTurn(now))

\* A block, or none yet, at the offset that was asked for.
GotRead ==
  /\ Replied("read")
  /\ IF Bad(rsp) THEN GetRaises
     ELSE LET data == Partial.data \o rsp.data
              now == [host EXCEPT !.acc = Len(data), !.prefix = data]
          IN IF rsp.data # <<>> /\ CheckpointDue(now.acc)
               THEN Continue(At(now, "ack")) /\ SavesPart(PartFile(data, now.acc))
               ELSE /\ GetRound(now, GetTurn(now))
                    /\ SavesPart([Partial EXCEPT !.data = data])

GotAck ==
  /\ Replied("ack")
  /\ IF Bad(rsp) \/ rsp.durable # host.acc THEN Raise
     ELSE LET now == [host EXCEPT !.dur = host.acc] IN
          /\ journal' = [journal EXCEPT ![host.id] =
                           GetRecord(host.acc, host.prefix, host.whole)]
          /\ Round(now, GetTurn(now))
          /\ UNCHANGED <<done, typed>>
  /\ UNCHANGED local

GetClosed ==
  /\ Replied("close") /\ file.get
  /\ IF Bad(rsp) THEN Raise ELSE GetRound(host, "complete")
  /\ UNCHANGED local

\* Everything received is the file that was announced.
GetVerified(r) ==
  /\ Binds(r)
  /\ host.prefix = host.whole
  /\ r.durable = Len(host.whole) /\ r.prefix = host.whole

GetComplete ==
  /\ Replied("complete")
  /\ IF Bad(rsp) THEN Raise
     ELSE IF rsp.state # "COMPLETE" THEN GetRound(host, "complete")
     ELSE IF GetVerified(rsp) THEN Continue(At(host, "link")) ELSE Raise
  /\ UNCHANGED local

\* A hard link never replaces a file.
LinkDest ==
  /\ host.pc = "link"
  /\ IF local.dest = None
       THEN /\ local' = [local EXCEPT
                 !.dest = [data |-> Partial.data, mine |-> TRUE],
                 !.part[host.id].safe = Len(Partial.data)]
            /\ Continue(At(host, "unlink"))
       ELSE GetRaises

Unlink ==
  host.pc = "unlink" /\ SavesPart(None) /\ Continue(At(host, "forget"))

CompleteGet ==
  /\ host.pc = "forget"
  /\ Become(NoTransfer)
  /\ journal' = [journal EXCEPT ![host.id] = None]
  /\ done' = done \cup {host.id}
  /\ UNCHANGED <<typed, faults, local>>

\* The host stops as well: what it had not fsynced may be lost.
LosesUnsynced ==
  IF host.id = None \/ ~file.get \/ Partial = None THEN UNCHANGED local
  ELSE \E n \in Partial.safe .. Len(Partial.data) :
         SavesPart(PartFile(SubSeq(Partial.data, 1, n), Partial.safe))

Gets == GetAnew \/ GetResume(FALSE) \/ GetResume(TRUE)

GetHostSteps ==
  \/ GetRecover \/ GetAwait \/ GetAdopt \/ GotRead \/ GotAck \/ GetClosed
  \/ GetComplete \/ LinkDest \/ Unlink \/ CompleteGet
===============================================================================
