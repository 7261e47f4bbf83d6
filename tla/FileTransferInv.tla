---------------------------- MODULE FileTransferInv ----------------------------
(***************************************************************************)
(* The inductive invariant of FileTransfer, on which the proofs that no    *)
(* block is lost, that the journal is backed by what is on the disks, that *)
(* foreign files are kept and that AtomicTransfer is implemented rest.  A  *)
(* behaviour is a PUT or a GET for good, so each has its own.              *)
(***************************************************************************)
EXTENDS FileTransfer

Blocks == Seq(Nat)

Files == [data : Blocks, safe : Nat, mine : BOOLEAN]
PartFiles == [data : Blocks, safe : Nat]
DestFiles == [data : Blocks, mine : BOOLEAN]

Requests ==
  [op : {"status", "begin", "close", "cancel"}, id : Ids]
    \cup [op : {"open"}, id : Ids, offset : Nat, resume : BOOLEAN,
          replay : BOOLEAN, prefix : Blocks, whole : Blocks]
    \cup [op : {"put", "read", "ack"}, id : Ids, offset : Nat, prefix : Blocks]
Reports ==
  [ok : {TRUE}, state : States, accepted : Nat, durable : Nat,
   prefix : Blocks, whole : Blocks, data : Blocks]
PutRecords == [off : Nat, close : BOOLEAN]
GetRecords == [off : Nat, close : BOOLEAN, prefix : Blocks, whole : Blocks]

\* None is not a value of any other kind.
ASSUME NoneAssumption ==
  /\ None \notin Files /\ None \notin PartFiles /\ None \notin DestFiles
  /\ None \notin Requests /\ None \notin Reports /\ None # Refused
  /\ None \notin PutRecords /\ None \notin GetRecords
  /\ None \notin Phases \cup {"TORN"}

Transfers ==
  [state : States, id : Ids \cup {None}, resume : BOOLEAN, replay : BOOLEAN,
   from : Nat, accepted : Nat, durable : Nat, prefix : Blocks,
   pending : Blocks, close : BOOLEAN, ready : BOOLEAN, armed : BOOLEAN,
   pump : BOOLEAN, whole : Blocks, sent : Nat, acked : BOOLEAN,
   rewind : BOOLEAN]

\* What the host knows before its first status, while it moves data, and
\* behind that.
Opening == {"recover", "open", "type", "typing", "await"}
PutStream == {"put", "poll", "seal", "intent", "close", "lastclose", "finish"}
GetStream == {"read", "ack", "close", "complete", "link"}
Binding == {"begin", "adopt"}
PutHostPcs == {"idle", "cancel"} \cup Opening \cup Binding \cup PutStream
GetHostPcs ==
  {"idle", "cancel", "unlink", "forget"} \cup Opening \cup Binding \cup GetStream

Publishing ==
  {"publish", "decode", "decoding", "absent", "mark", "rename", "marked",
   "clean", "cleanmeta", "finish"}
PutHelperPcs ==
  {"prompt", "claim", "prepare", "mkmeta", "mkpart", "ready", "final",
   "postprocess", "fail"} \cup Receiving \cup Publishing
Working == {"read", "emit", "pump", "pumping", "poll"}
GetHelperPcs ==
  {"prompt", "claim", "scan", "scanned", "postprocess", "finish", "fail"}
    \cup Working

Hosts(pcs) ==
  [pc : pcs, id : Ids \cup {None}, resumed : BOOLEAN, attach : BOOLEAN,
   st : States, dur : Nat, acc : Nat, same : BOOLEAN, intent : BOOLEAN,
   sent : BOOLEAN, whole : Blocks, prefix : Blocks]
Helpers(pcs) ==
  [pc : pcs, id : Ids \cup {None}, resume : BOOLEAN, replay : BOOLEAN,
   from : Nat, crc : Blocks, acc : Blocks, phase : Phases, owned : BOOLEAN,
   src : Blocks]

Disks ==
  [meta : [Ids -> Phases \cup {None, "TORN"}],
   part : [Ids -> Files \cup {None}], out : [Ids -> Files \cup {None}],
   target : Files \cup {None}]

----------------------------------------------------------------------------
(* Both directions. *)

WireTypes ==
  /\ file \in [blocks : Sizes, packed : BOOLEAN, get : BOOLEAN]
  /\ x \in Transfers
  /\ linked \in BOOLEAN /\ typed \in Ids \cup {None}

\* A host makes one call at a time; what an earlier one left in flight goes
\* with the session.  A host that has not seen its session end talks to a
\* machine that knows nothing of it.
Cut == x = IdleTransfer /\ hlp.pc = "prompt" /\ typed = None
Calling ==
  /\ host.pc # "idle" =>
       /\ host.id \in Ids
       /\ call = Request(host) \/ (~linked /\ call = None)
       /\ ~linked => Cut /\ (host.pc \in Opening => call = None)
  /\ host.pc = "idle" /\ linked => call = None
  /\ rsp # None => call # None

\* A transfer that is not about to be begun (anew).
Past == x.state \notin {"STAGED", "OPENING"}
Opened(state) == state \notin {"STAGED", "OPENING"}
Readied0(state) == state \in Moving \cup {"VERIFYING", "POSTPROCESS", "COMPLETE"}

Owned ==
  /\ x.pump => hlp.pc = "pumping"
  /\ x.state = "IDLE" => x = IdleTransfer /\ hlp.pc \in {"prompt", "claim"}
  /\ x.state # "IDLE" => x.id \in Ids
  /\ hlp.pc # "prompt" => hlp.id \in Ids
  /\ x.state = "COMPLETE" => hlp.pc \in {"prompt", "claim"}
  /\ x.state = "FAILED" => hlp.pc \in {"prompt", "claim", "fail"}
  /\ x.close => x.state \in {"VERIFYING", "POSTPROCESS", "COMPLETE", "FAILED"}

----------------------------------------------------------------------------
(* PUT: the helper and its disk. *)

PutMachineTypes ==
  /\ WireTypes /\ ~file.get
  /\ hlp \in Helpers(PutHelperPcs)
  /\ disk \in Disks

\* Which helper a state of the resident belongs to.
PutLive ==
  /\ x.state = "OPENING" =>
       hlp.id = x.id /\ hlp.pc \in {"prepare", "mkmeta", "mkpart", "ready", "fail"}
  /\ x.state \in Moving =>
       hlp.id = x.id /\ hlp.pc \in Receiving \cup {"fail"} /\ x.accepted <= Size
  /\ x.state = "VERIFYING" =>
       /\ hlp.id = x.id
       /\ hlp.pc \in {"pump", "pumping", "poll", "final", "postprocess", "fail"}
       /\ x.close /\ x.durable = Size
  /\ x.state = "POSTPROCESS" =>
       /\ hlp.id = x.id /\ hlp.pc \in Publishing \cup {"fail"}
       /\ x.close /\ x.durable = Size
  /\ hlp.pc \in Publishing => x.state = "POSTPROCESS"
  /\ x.pending # <<>> => x.state = "TRANSFERRING" /\ Len(x.pending) = 1
  /\ x.state # "IDLE" => x.whole = Whole

\* The prefix that is on the MSX is the file's.
Sound == x.prefix = Prefix(x.durable)

\* What the helper has accumulated and written is what was accepted.
Flushing == {"release", "write", "ensure", "commit"}
PutHeld ==
  x.state \in Moving /\ hlp.pc \in Receiving =>
    /\ hlp.pc \in Flushing => x.pending # <<>>
    /\ Len(x.prefix) = x.durable
    /\ hlp.crc = IF hlp.pc \in {"ensure", "commit"} THEN x.prefix \o hlp.acc
                                                   ELSE x.prefix
    /\ Len(Held) = x.accepted
    /\ Sound => Held = Prefix(x.accepted)

\* This transfer's file has its name.
HasName ==
  /\ disk.target # None /\ disk.target.mine
  /\ disk.target.data = Whole /\ disk.target.safe = Size
Public == {"PUBLISHING", "PUBLISHED"}
Twin == disk.target # None /\ ~disk.target.mine /\ disk.target.data = Whole

\* What is ENSUREd or closed, outside of the helper's windows.
DiskSafe ==
  /\ \A i \in Ids : disk.part[i] # None =>
       /\ disk.part[i].mine
       /\ disk.part[i].safe <= Len(disk.part[i].data)
       /\ \/ disk.part[i].safe = Len(disk.part[i].data)
          \/ hlp.id = i /\ hlp.pc \in {"ensure", "fail"}
  /\ \A i \in Ids : disk.out[i] # None =>
       /\ disk.out[i].safe = Len(disk.out[i].data)
       /\ ~disk.out[i].mine => disk.out[i] \in Foreigns
  /\ disk.target # None => HasName \/ disk.target \in Foreigns
  /\ Twin => \A i \in Ids : disk.meta[i] \notin Public

\* A scratch output that may be deleted is not somebody else's.
OwnOuts == {i \in Ids : file.packed => disk.out[i] \notin Foreigns}
ScratchKnown ==
  /\ \A i \in Ids : disk.meta[i] \in {"DECODING"} \cup Public => i \in OwnOuts
  /\ hlp.pc # "prompt" /\ hlp.phase # "RECEIVING" => hlp.id \in OwnOuts
  /\ hlp.owned => hlp.pc \in {"decoding", "fail"} /\ Out \notin Foreigns

\* Bytes of each transfer that no loss of power can take.
Kept ==
  [i \in Ids |-> {p \in Blocks :
     \/ p = <<>>
     \/ /\ disk.part[i] # None /\ disk.part[i].safe >= Len(p)
        /\ SubSeq(disk.part[i].data, 1, Len(p)) = p
     \/ disk.meta[i] \in Public
     \/ HasName}]

\* Transfers that some helper had ready: they have a sidecar, or are done.
Prepared ==
  {i \in Ids :
     \/ disk.meta[i] # None /\ ~(hlp.pc = "mkpart" /\ hlp.id = i)
     \/ HasName /\ i \in OwnOuts}

\* Where the helper is in its work on the disk.
WireOpen == {"ready", "final", "postprocess", "publish"} \cup Receiving
MetaFits == Meta = hlp.phase \/ (hlp.phase = "PUBLISHED" /\ HasName)
SourceReady ==
  /\ disk.target = None
  /\ PublishSource # None /\ PublishSource.mine
  /\ PublishSource.data = Whole /\ PublishSource.safe = Size
HelperStep ==
  /\ hlp.phase = "DECODING" => file.packed
  /\ hlp.pc \in {"claim", "prepare", "mkmeta", "mkpart"} =>
       hlp.crc = <<>> /\ hlp.acc = <<>> /\ hlp.phase = "RECEIVING"
  /\ hlp.pc = "prepare" /\ hlp.replay => hlp.id \in Prepared
  /\ hlp.pc = "ready" => hlp.acc = <<>> /\ Len(hlp.crc) <= Size
  /\ hlp.pc = "mkmeta" => Meta = None
  /\ hlp.pc = "mkpart" => Meta = "RECEIVING"
  /\ hlp.pc \in WireOpen =>
       /\ MetaFits
       /\ hlp.phase \notin Public => Part # None /\ Part.data = hlp.crc
       /\ hlp.phase \in Public => hlp.crc = Whole
  /\ hlp.pc \in Flushing => hlp.phase \notin Public
  /\ hlp.pc \in {"postprocess", "publish"} => hlp.crc = Whole
  /\ hlp.pc \in {"decode", "decoding", "absent"} =>
       file.packed /\ hlp.phase = "DECODING" /\ Meta = "DECODING"
  /\ hlp.pc = "decoding" => hlp.owned
  /\ hlp.pc = "absent" =>
       Out # None /\ Out.mine /\ Out.data = Whole /\ Out.safe = Size
  /\ hlp.pc \in {"mark", "rename"} => SourceReady
  /\ hlp.pc = "mark" =>
       Meta = hlp.phase /\ hlp.phase = IF file.packed THEN "DECODING" ELSE "RECEIVING"
  /\ hlp.pc \in {"rename", "marked"} =>
       Meta = "PUBLISHING" /\ hlp.phase = "PUBLISHING"
  /\ hlp.pc = "clean" => hlp.phase = "PUBLISHED"
  /\ hlp.pc \in {"marked", "clean", "cleanmeta", "finish"} => HasName
  /\ hlp.pc \in {"cleanmeta", "finish"} /\ file.packed => Out = None

----------------------------------------------------------------------------
(* PUT: what resident, host, journal, call and reply say is true. *)

PutResidentFits ==
  /\ x.accepted > x.from => Sound
  /\ x.state # "IDLE" => x.prefix \in Kept[x.id]
  /\ Readied0(x.state) \/ x.replay => x.id \in Prepared
  /\ x.state = "COMPLETE" => HasName

GoodPut(h) ==
  /\ h \in Hosts(PutHostPcs)
  /\ h.pc # "idle" => h.id \in Ids
  /\ h.pc \in Binding \cup PutStream => Past /\ h.id \in Prepared
  /\ h.pc \in PutStream \/ (h.pc \in Binding /\ h.same) => Sound
  /\ h.pc \in Opening \cup PutStream \/ (h.pc \in Binding /\ h.same) =>
       Prefix(h.dur) \in Kept[h.id]
  /\ h.pc # "idle" /\ h.intent => h.id \in Prepared
  /\ h.st = "COMPLETE" => HasName
  /\ h.pc \in {"lastclose", "finish"} => h.st = "COMPLETE"

PutJournalFits ==
  /\ journal \in [Ids -> PutRecords \cup {None}]
  /\ \A i \in Ids : journal[i] # None =>
       /\ Prefix(journal[i].off) \in Kept[i]
       /\ journal[i].close => i \in Prepared
  /\ host.pc # "idle" => journal[host.id] # None

GoodPutCall(c) ==
  /\ c \in Requests /\ c.op \notin {"read", "ack"}
  /\ c.op = "put" => Past /\ Sound
  /\ c.op = "open" =>
       /\ c.prefix = Prefix(c.offset) /\ c.whole = Whole
       /\ c.prefix \in Kept[c.id]
       /\ c.replay => c.id \in Prepared

GoodPutReply(r) ==
  /\ r \in Reports /\ r.state # "IDLE"
  /\ r.prefix \in Kept[call.id]
  /\ call.op = "put" => r.prefix = Prefix(r.durable)
  /\ Opened(r.state) => Past
  /\ Opened(r.state) /\ r.prefix = Prefix(r.durable) => Sound
  /\ Readied0(r.state) => call.id \in Prepared
  /\ r.state = "COMPLETE" => HasName

PutHostFits == GoodPut(host)
PutCallFits == call # None => GoodPutCall(call)
PutReplyFits == rsp \notin {None, Refused} => GoodPutReply(rsp)

PutMachine ==
  /\ PutMachineTypes /\ Owned /\ PutLive /\ PutHeld
  /\ DiskSafe /\ ScratchKnown /\ HelperStep /\ PutResidentFits
PutTalk ==
  /\ Calling /\ PutHostFits /\ PutJournalFits /\ PutCallFits /\ PutReplyFits

PutInv == PutMachine /\ PutTalk

----------------------------------------------------------------------------
(* GET: the helper, which only reads, and the resident. *)

Wholes == Versions \cup {<<>>}

GetMachineTypes ==
  /\ WireTypes /\ file.get /\ ~file.packed
  /\ hlp \in Helpers(GetHelperPcs) /\ ~hlp.owned
  /\ \E target \in {None} \cup {Source(v) : v \in Versions} :
       disk = [meta |-> [i \in Ids |-> None], part |-> [i \in Ids |-> None],
               out |-> [i \in Ids |-> None], target |-> target]

\* Which helper a state of the resident belongs to.  One that lost its
\* transfer may still offer a block to the next one, before that is claimed.
Staging == {"STAGED", "OPENING"}
GetLive ==
  /\ x.ready => x.state \notin {"IDLE", "COMPLETE"} \cup Staging
  /\ x.armed => x.ready /\ x.state \in Moving \cup {"VERIFYING"}
  /\ x.pump => x.armed
  /\ x.state \in Staging =>
       /\ x.pending = <<>> /\ ~x.acked /\ ~x.rewind /\ x.sent = 0
       /\ x.from = x.durable
  /\ x.state = "OPENING" =>
       /\ hlp.id = x.id /\ hlp.pc \in {"scan", "scanned", "fail"}
       /\ hlp.from = x.durable /\ hlp.crc = x.prefix
  /\ hlp.pc \in Working /\ ~x.ready => ~x.acked /\ ~x.rewind
  /\ x.state \in Moving /\ x.ready =>
       hlp.id = x.id /\ hlp.pc \in Working \cup {"fail"}
  /\ x.state \in Moving /\ ~x.ready =>
       hlp.pc \in {"pump", "pumping", "poll", "fail"} /\ x.pending # <<>>
  /\ x.state = "VERIFYING" =>
       /\ x.ready /\ x.pending = <<>> /\ x.accepted = WireSize
       /\ hlp.id = x.id
       /\ hlp.pc \in {"read", "pump", "pumping", "poll", "postprocess", "fail"}
  /\ x.state = "POSTPROCESS" =>
       x.pending = <<>> /\ hlp.pc \in {"finish", "fail"}
  /\ x.state \in {"VERIFYING", "POSTPROCESS", "COMPLETE"} => x.close
  /\ x.close => x.durable = WireSize
  /\ hlp.pc = "finish" => x.state = "POSTPROCESS"

\* Counters and contents go together.
GetCounts ==
  /\ x.durable = Len(x.prefix) /\ x.whole \in Wholes
  /\ x.ready \/ Readied0(x.state) => x.whole \in Versions
  /\ x.ready => x.durable <= WireSize /\ x.sent <= WireSize

\* The helper's window is the file's, at its place.
GetWindow ==
  /\ hlp.pc \in {"scanned"} \cup Working =>
       hlp.src \in Versions /\ hlp.from <= Len(hlp.src)
  /\ hlp.pc = "scanned" => SubSeq(hlp.src, 1, hlp.from) = hlp.crc
  /\ hlp.pc \in {"claim", "scan", "scanned"} => hlp.acc = <<>>
  /\ hlp.pc \in Working =>
       /\ hlp.from + Len(hlp.acc) <= Len(hlp.src)
       /\ \A k \in 1 .. Len(hlp.acc) : hlp.acc[k] = hlp.src[hlp.from + k]
       /\ hlp.pc # "read" /\ ~AtEnd => hlp.acc # <<>>
  /\ hlp.pc = "emit" => ~AtEnd

\* Where a helper at work and the resident are, to the block: the next one is
\* not on offer yet; or there is a way to go back; or there is none; or it is
\* on offer, or taken.
Untold == x.pending = <<>> /\ ~x.acked
NextIsToCome ==
  /\ x.accepted = hlp.from /\ Untold /\ ~x.rewind
  /\ ~x.armed => x.accepted = x.durable
GoesBack ==
  x.rewind /\ Untold /\ x.accepted = x.durable /\ x.sent = x.durable
NothingLeft == ~x.rewind /\ AtEnd /\ x.accepted = hlp.from /\ Untold
Offers ==
  /\ ~x.rewind /\ ~AtEnd /\ x.accepted = hlp.from + 1
  /\ \/ x.pending = <<hlp.src[hlp.from + 1]>> /\ ~x.acked
     \/ x.pending = <<>> /\ x.acked /\ x.armed /\ ~x.pump /\ hlp.pc # "pump"
GetInStep ==
  x.ready /\ hlp.pc \in Working =>
    /\ hlp.id = x.id /\ hlp.src = x.whole
    /\ hlp.pc \in {"read", "emit"} => NextIsToCome
    /\ hlp.pc \notin {"read", "emit"} /\ x.state # "CANCELLED" =>
         GoesBack \/ NothingLeft \/ Offers

GetOffer == x.ready /\ x.pending # <<>> => x.pending = <<x.whole[x.accepted]>>

----------------------------------------------------------------------------
(* GET: what host, call and reply say is true. *)

\* Blocks are read by a host that has begun.
Unarmed == x.ready /\ ~x.armed /\ hlp.pc \in Working

GoodGet(h) ==
  /\ h \in Hosts(GetHostPcs) /\ h.whole \in Wholes
  /\ h.pc # "idle" => h.id \in Ids
  /\ h.pc \in Opening => h.dur = Len(h.prefix)
  /\ h.pc \in Binding \cup GetStream =>
       /\ Past /\ h.acc = Len(h.prefix) /\ h.whole \in Versions
  /\ h.pc \in Binding /\ x.id = h.id =>
       x.prefix = h.prefix /\ (x.close => h.acc = Len(h.whole))
  /\ h.pc = "adopt" => ~Unarmed \/ h.acc = Len(h.whole)
  /\ h.pc \in {"read", "ack"} => ~Unarmed /\ (x.id = h.id => ~x.close)
  /\ h.pc = "link" => h.prefix = h.whole

GoodGetCall(c) ==
  /\ c \in Requests /\ c.op # "put"
  /\ c.op = "open" => c.offset = Len(c.prefix) /\ c.whole \in Wholes
  /\ c.op = "ack" =>
       /\ c.offset = Len(c.prefix)
       /\ Past /\ ~Unarmed /\ (x.id = c.id => ~x.close)

GoodGetReply(r) ==
  /\ r \in Reports /\ r.state # "IDLE"
  /\ r.durable = Len(r.prefix) /\ r.whole \in Wholes
  /\ Readied0(r.state) => r.whole \in Versions
  /\ r.state \in {"VERIFYING", "POSTPROCESS", "COMPLETE"} =>
       r.durable = Len(r.whole)
  /\ x.state # "IDLE" /\ x.id = call.id /\ x.prefix = r.prefix
  /\ x.close => r.durable = Len(r.whole)
  /\ Opened(r.state) => Past
  /\ call.op = "begin" => Past /\ ~Unarmed

GetJournalFits ==
  /\ journal \in [Ids -> GetRecords \cup {None}]
  /\ \A i \in Ids : journal[i] # None =>
       journal[i].off = Len(journal[i].prefix) /\ journal[i].whole \in Wholes

GetHostFits == GoodGet(host)
GetCallFits == call # None => GoodGetCall(call)
GetReplyFits == rsp \notin {None, Refused} => GoodGetReply(rsp)

----------------------------------------------------------------------------
(* GET: the host's disk. *)

LocalTypes ==
  /\ local \in [part : [Ids -> PartFiles \cup {None}], dest : DestFiles \cup {None}]
  /\ \A i \in Ids :
       local.part[i] # None => local.part[i].safe <= Len(local.part[i].data)

Has(i, p) == local.part[i] # None /\ HoldsPrefix(local.part[i], p)
InSync(i, p) == Synced(local.part[i], p)
SyncedIfHeld(i, p) == Has(i, p) => InSync(i, p)

\* The partial file holds what the host believes it holds.
GetPart ==
  /\ host.pc \notin {"idle", "forget"} => Partial # None
  /\ host.pc \in Opening =>
       /\ journal[host.id] # None
       /\ host.dur = journal[host.id].off
       /\ host.prefix = journal[host.id].prefix
       /\ Has(host.id, host.prefix)
  /\ host.pc \in Binding /\ host.same => Has(host.id, host.prefix)
  /\ host.pc \in GetStream => Partial.data = host.prefix
  /\ host.pc \in GetStream /\ x.id = host.id => Has(host.id, x.prefix)

\* While the destination has no name, what was acknowledged is fsynced.
GetSynced ==
  local.dest = None =>
    /\ \A i \in Ids : journal[i] # None => InSync(i, journal[i].prefix)
    /\ x.state # "IDLE" => SyncedIfHeld(x.id, x.prefix)
    /\ host.pc \in Binding => SyncedIfHeld(host.id, host.prefix)
    /\ host.pc = "ack" => InSync(host.id, host.prefix)
    /\ call # None /\ call.op \in {"open", "ack"} =>
         SyncedIfHeld(call.id, call.prefix)

DestFits ==
  /\ local.dest # None =>
       local.dest = ForeignDest \/ (local.dest.mine /\ local.dest.data \in Versions)
  /\ host.pc \in {"unlink", "forget"} =>
       local.dest # None /\ local.dest.mine /\ local.dest.data \in Versions

GetMachine ==
  /\ GetMachineTypes /\ Owned
  /\ GetLive /\ GetCounts /\ GetWindow /\ GetInStep /\ GetOffer
GetTalk ==
  /\ Calling /\ GetHostFits /\ GetJournalFits /\ GetCallFits /\ GetReplyFits
GetFiles == LocalTypes /\ GetPart /\ GetSynced /\ DestFits

GetInv == GetMachine /\ GetTalk /\ GetFiles

TransferInv == IF file.get THEN GetInv ELSE PutInv
===============================================================================
