----------------------------- MODULE ResumeJournal -----------------------------
(***************************************************************************)
(* The journals of interrupted transfers (server/msx_transfer.py,          *)
(* TransferJournal) as put_file and get_file use them (server/msx_real.py): *)
(* a directory with one file per transfer, which a later call searches for  *)
(* the transfer it may continue.  Files are edited, removed and asked for   *)
(* again, calls end anywhere, and a journal an older release wrote may be   *)
(* among them.                                                              *)
(*                                                                         *)
(* The data plane is an abstraction of FileTransfer: one block after the    *)
(* other.  A file is one of Contents, with a length in blocks; size and     *)
(* CRC-32 of a file or a prefix stand for it.  Parts record whose bytes     *)
(* they hold.  There is one caller at a time.                               *)
(***************************************************************************)
EXTENDS Naturals, FiniteSets

CONSTANTS
  Contents,    \* what a file may hold
  Blocks,      \* their lengths
  Locals,      \* paths on the host
  Targets,     \* paths on the MSX
  NoFile,      \* no file, no content known, no transfer
  MaxIds,      \* bound on the transfers
  MaxEdits     \* bound on what is done to the files meanwhile

VARIABLES
  dir,         \* the journal of every transfer ID, or NoFile
  local,       \* files of the host
  remote,      \* files of the MSX
  parts,       \* partial file of every transfer, on whichever side receives
  publishing,  \* transfers whose metadata on the MSX is in phase PUBLISHING
  active,      \* the transfer the agent holds, or NoFile
  task,        \* the call in progress
  ids,         \* transfers started
  edits,       \* edits so far
  fresh,       \* history: a call with resume=False was made
  intended     \* history: transfers that were saved with a close intent

journalVars ==
  <<dir, local, remote, parts, publishing, active, task, ids, edits, fresh, intended>>

Ids == 1 .. MaxIds
Mixed == "mixed"
Encodings == {"raw", "packbits"}
Versions == {"v1", "v2", "v3", "v3fast", "v4"}
NoTask == [kind |-> "none"]
NoPart == [content |-> NoFile, len |-> 0]

\* What a journal says, and a partial file.
Journals ==
  [dir : {"put", "get"}, enc : Encodings, content : Contents \cup {NoFile},
   path : Targets, caller : Locals, offset : Nat, intent : BOOLEAN, version : Versions]
PartFiles == [content : Contents \cup {Mixed, NoFile}, len : Nat]

\* Size and checksum tell contents apart: only one of them is empty.
ASSUME JournalAssumption ==
  /\ Blocks \in [Contents -> Nat]
  /\ \A c, d \in Contents : Blocks[c] = 0 /\ Blocks[d] = 0 => c = d
  /\ Contents # {} /\ Mixed \notin Contents
  /\ NoFile \notin Contents \cup Journals \cup PartFiles \cup Nat \cup {Mixed}
  /\ MaxIds \in Nat \ {0}

\* A path the host takes and the agent refuses: a drive, a wildcard.
BadTarget == "bad"

SizeOf(c) == IF c = NoFile THEN 0 ELSE Blocks[c]
\* CRC-32 of a prefix; zero for the empty one and for metadata not known yet.
ZeroCrc == <<>>
PrefixCrc(enc, c, n) == IF n = 0 \/ c = NoFile THEN ZeroCrc ELSE <<enc, c, n>>
MetadataUnknown(r) == r.dir = "get" /\ SizeOf(r.content) = 0

----------------------------------------------------------------------------
\* Descriptors and OPEN.

\* resumed_descriptor, and the descriptor of a transfer that starts.
Descriptor(r, resumed) ==
  [dir |-> r.dir, enc |-> r.enc, path |-> r.path,
   size |-> SizeOf(r.content), crc |-> PrefixCrc(r.enc, r.content, SizeOf(r.content)),
   final |-> SizeOf(r.content), finalCrc |-> PrefixCrc("raw", r.content, SizeOf(r.content)),
   offset |-> IF resumed THEN r.offset ELSE 0,
   prefix |-> IF resumed THEN PrefixCrc(r.enc, r.content, r.offset) ELSE ZeroCrc,
   resume |-> resumed, replay |-> resumed /\ r.intent]

\* TransferDescriptor.__post_init__.
DescriptorHolds(d) ==
  LET unknown == d.dir = "get" /\ d.size = 0 /\ d.crc = ZeroCrc
                   /\ d.final = 0 /\ d.finalCrc = ZeroCrc IN
  /\ d.offset <= d.size \/ unknown
  /\ d.offset = 0 => d.prefix = ZeroCrc
  /\ d.dir = "get" => d.enc = "raw"
  /\ d.enc = "raw" /\ ~unknown => d.size = d.final /\ d.crc = d.finalCrc
  /\ d.replay => d.dir = "put" /\ d.resume /\ d.offset = d.size /\ d.prefix = d.crc

\* encode_open, decode_open: the resume flag is set by an offset, too.
Opened(d) == [d EXCEPT !.resume = @ \/ d.offset > 0]

\* frame_xfer_open.
AgentOpens(d) ==
  /\ d.path # BadTarget
  /\ d.enc = "packbits" => d.dir = "put"
  /\ ~d.resume => d.offset = 0 /\ d.prefix = ZeroCrc
  /\ d.replay => d.dir = "put" /\ d.resume /\ d.offset = d.size /\ d.prefix = d.crc
  /\ d.dir = "put" =>
       /\ d.enc = "raw" => d.size = d.final /\ d.crc = d.finalCrc
       /\ d.offset <= d.size

----------------------------------------------------------------------------
\* TransferJournal.

\* save without its look at the journal it replaces; _load_path checks the
\* same of a document.
Storable(r) ==
  /\ r.offset <= SizeOf(r.content) \/ MetadataUnknown(r)
  /\ r.intent => r.dir = "put" /\ r.offset = SizeOf(r.content)

SameBinding(old, r) ==
  /\ old.dir = r.dir /\ old.enc = r.enc /\ old.path = r.path
  /\ SizeOf(old.content) = SizeOf(r.content)
  /\ PrefixCrc(old.enc, old.content, SizeOf(old.content))
       = PrefixCrc(r.enc, r.content, SizeOf(r.content))

\* get_metadata_promotion.
Promotes(old, r) ==
  MetadataUnknown(old) /\ r.dir = "get" /\ old.enc = r.enc /\ old.path = r.path

Replaces(old, r) ==
  /\ SameBinding(old, r) \/ Promotes(old, r)
  /\ old.caller = r.caller
  /\ old.intent => r.intent

\* A save the journal refuses raises, and the call ends where it is.
Save(id, r) ==
  LET doc == [r EXCEPT !.version = "v4"] IN
  /\ Storable(doc) /\ (dir[id] # NoFile => Replaces(dir[id], doc))
  /\ dir' = [dir EXCEPT ![id] = doc]
  /\ intended' = IF r.intent THEN intended \cup {id} ELSE intended

\* _load_path: version 3 is taken when it names the fast data plane.
Legacy(r) == r.version \in {"v1", "v2", "v3"}

\* Mutant of Matches: a GET has to name the metadata, too.
MatchesMetadata(r, q) ==
  /\ r.dir = q.dir /\ r.enc = q.enc /\ r.path = q.path
  /\ SameBinding(r, q) /\ r.caller = q.caller

\* _matches_without_id and the binding to the caller's file.
Matches(r, q) ==
  /\ r.dir = q.dir /\ r.enc = q.enc /\ r.path = q.path
  /\ MetadataUnknown(q) \/ SameBinding(r, q)
  /\ r.caller = q.caller

Found(q) == {id \in Ids : dir[id] # NoFile /\ ~Legacy(dir[id]) /\ Matches(dir[id], q)}
LegacyFound(q) == {id \in Ids : dir[id] # NoFile /\ Legacy(dir[id]) /\ Matches(dir[id], q)}

\* find_matching: the transfer to continue, 0 for none.  It raises on a
\* journal of the removed protocol and on more than one.
Continues(q, resume, id) ==
  IF ~resume THEN id = 0
  ELSE LegacyFound(q) = {} /\ Cardinality(Found(q)) <= 1
       /\ (IF Found(q) = {} THEN id = 0 ELSE id \in Found(q))

----------------------------------------------------------------------------
\* put_file and get_file up to the first save.

Started(id, q, rec, again) ==
  [kind |-> q.dir, id |-> id, asked |-> q, rec |-> rec, again |-> again, step |-> "open"]

PutAsked(l, t, enc) ==
  [dir |-> "put", enc |-> enc, content |-> local[l], path |-> t, caller |-> l,
   offset |-> 0, intent |-> FALSE, version |-> "v4"]
GetAsked(t, l) ==
  [dir |-> "get", enc |-> "raw", content |-> NoFile, path |-> t, caller |-> l,
   offset |-> 0, intent |-> FALSE, version |-> "v4"]

StartAnew(q) ==
  /\ ids < MaxIds /\ ids' = ids + 1
  /\ Save(ids + 1, q) /\ task' = Started(ids + 1, q, q, FALSE)
  /\ parts' = IF q.dir = "put" THEN parts ELSE [parts EXCEPT ![ids + 1] = NoPart]

\* The local partial has to be there, as long as the journal says.
PartStands(id) ==
  /\ parts[id] # NoFile /\ parts[id].len >= dir[id].offset
  /\ dir[id].offset > 0 => parts[id].content = dir[id].content

StartAgain(id, q) ==
  LET r == [dir[id] EXCEPT !.caller = q.caller] IN
  /\ q.dir = "get" => PartStands(id)
  /\ Save(id, r) /\ task' = Started(id, q, r, TRUE)
  /\ UNCHANGED <<ids, parts>>

StartCall(q, resume) ==
  /\ task = NoTask
  /\ \E id \in 0 .. MaxIds :
       /\ Continues(q, resume, id)
       /\ IF id = 0 THEN StartAnew(q) ELSE StartAgain(id, q)
  /\ fresh' = (fresh \/ ~resume)
  /\ UNCHANGED <<local, remote, publishing, active, edits>>

PutFile(l, t, enc, resume) ==
  local[l] # NoFile /\ StartCall(PutAsked(l, t, enc), resume)
GetFile(t, l, resume) ==
  local[l] = NoFile /\ StartCall(GetAsked(t, l), resume)

----------------------------------------------------------------------------
\* The transfer.

Working(step) == task.kind # "none" /\ task.step = step
Rec == task.rec
Proceeds(step) == task' = [task EXCEPT !.step = step]
EndCall == task' = NoTask

\* A prefix of a file, with the bytes of another one behind it.
Joined(part, c) == IF part.len = 0 \/ part.content = c THEN c ELSE Mixed

\* _recover_active_transfer finds the transfer still held; otherwise it is
\* opened.  The agent refuses a second one, and the helper a prefix that it
\* does not have.  A GET tells the host what the file is.
AttachTransfer ==
  /\ Working("open") /\ task.again /\ active = task.id
  /\ Proceeds("bound")
  /\ UNCHANGED <<dir, local, remote, parts, publishing, active, ids, edits, fresh, intended>>

\* Without a part the helper replays a publication whose receipt is gone.
Replayed(d) == d.replay /\ parts[task.id] = NoFile /\ remote[d.path] = Rec.content
PutOpens(d) ==
  \/ /\ d.offset = 0 /\ ~Replayed(d)
     /\ parts' = IF parts[task.id] = NoFile
                 THEN [parts EXCEPT ![task.id] = NoPart] ELSE parts
  \/ /\ d.offset > 0 /\ parts[task.id] # NoFile
     /\ parts[task.id].len >= d.offset /\ parts[task.id].content = Rec.content
     /\ UNCHANGED parts
  \/ Replayed(d) /\ UNCHANGED parts

Open ==
  /\ Working("open") /\ ~(task.again /\ active = task.id)
  /\ active = NoFile
  /\ LET d == Opened(Descriptor(Rec, task.again)) IN
     /\ DescriptorHolds(d) /\ AgentOpens(d)
     /\ IF d.dir = "put"
          THEN PutOpens(d)
          ELSE /\ remote[d.path] # NoFile
               /\ parts' = [parts EXCEPT ![task.id].len = Rec.offset]
  /\ active' = task.id /\ Proceeds("bound")
  /\ UNCHANGED <<dir, local, remote, publishing, ids, edits, fresh, intended>>

\* _validate_transfer_binding.
Binds == MetadataUnknown(Rec) \/ remote[Rec.path] = Rec.content

\* The metadata of a GET is known from here on; the part is cut back to the
\* offset the MSX last committed, which may be ahead of the journal.
Bind ==
  /\ Working("bound") /\ active = task.id
  /\ IF Rec.dir = "put"
       THEN task' = [task EXCEPT !.step = "data"] /\ UNCHANGED <<dir, intended, parts>>
       ELSE \E n \in Rec.offset .. parts[task.id].len :
            LET r == [Rec EXCEPT !.content = remote[Rec.path], !.offset = n] IN
            /\ Binds /\ Save(task.id, r)
            /\ task' = [task EXCEPT !.step = "data", !.rec = r]
            /\ parts' = [parts EXCEPT ![task.id].len = n]
  /\ UNCHANGED <<local, remote, publishing, active, ids, edits, fresh>>

\* A block arrives: the sender reads its own file, the receiver appends.
Sent == IF Rec.dir = "put" THEN Rec.content ELSE remote[Rec.path]
Block ==
  /\ Working("data") /\ active = task.id
  /\ parts[task.id] # NoFile /\ parts[task.id].len < SizeOf(Rec.content)
  /\ parts' = [parts EXCEPT ![task.id] =
                 [content |-> Joined(@, Sent), len |-> @.len + 1]]
  /\ UNCHANGED <<dir, local, remote, publishing, active, task, ids, edits, fresh, intended>>

Checkpoint ==
  /\ Working("data") /\ active = task.id /\ parts[task.id] # NoFile
  /\ parts[task.id].len > Rec.offset
  /\ LET r == [Rec EXCEPT !.offset = parts[task.id].len] IN
     Save(task.id, r) /\ task' = [task EXCEPT !.rec = r]
  /\ UNCHANGED <<local, remote, parts, publishing, active, ids, edits, fresh>>

\* persist_close_intent, before the resident is told that the stream ends.
Intend ==
  /\ Working("data") /\ Rec.dir = "put" /\ Rec.offset = SizeOf(Rec.content)
  /\ LET r == [Rec EXCEPT !.intent = TRUE] IN
     Save(task.id, r) /\ task' = [task EXCEPT !.rec = r, !.step = "closing"]
  /\ UNCHANGED <<local, remote, parts, publishing, active, ids, edits, fresh>>

\* The helper publishes, on its own once the stream has ended.  A first
\* publication finds no file of the target's name, and the metadata say so
\* before anything is renamed.
MarkPublishing ==
  /\ Working("closing") /\ active = task.id /\ parts[task.id] # NoFile
  /\ task.id \notin publishing /\ remote[Rec.path] = NoFile
  /\ publishing' = publishing \cup {task.id}
  /\ UNCHANGED <<dir, local, remote, parts, active, task, ids, edits, fresh, intended>>

\* A restarted publication adopts a target that is the file, and no other; the
\* receipt goes with the part.
Assembled == IF SizeOf(Rec.content) = 0 THEN Rec.content ELSE parts[task.id].content
Publish ==
  /\ Working("closing") /\ active = task.id /\ parts[task.id] # NoFile
  /\ task.id \in publishing
  /\ \/ remote[Rec.path] = NoFile /\ remote' = [remote EXCEPT ![Rec.path] = Assembled]
     \/ remote[Rec.path] = Rec.content /\ UNCHANGED remote
  /\ parts' = [parts EXCEPT ![task.id] = NoFile]
  /\ publishing' = publishing \ {task.id}
  /\ UNCHANGED <<dir, local, active, task, ids, edits, fresh, intended>>

\* os.link: a verified part becomes the destination, unless there is one.
Link ==
  /\ Working("data") /\ Rec.dir = "get" /\ active = task.id
  /\ Rec.offset = SizeOf(Rec.content) /\ parts[task.id].len = Rec.offset
  /\ IF local[Rec.caller] # NoFile THEN EndCall /\ UNCHANGED local
     ELSE /\ local' = [local EXCEPT ![Rec.caller] =
                         IF Rec.offset = 0 THEN Rec.content ELSE parts[task.id].content]
          /\ Proceeds("unlink")
  /\ active' = NoFile
  /\ UNCHANGED <<dir, remote, parts, publishing, ids, edits, fresh, intended>>

UnlinkPart ==
  /\ Working("unlink")
  /\ parts' = [parts EXCEPT ![task.id] = NoFile] /\ Proceeds("remove")
  /\ UNCHANGED <<dir, local, remote, publishing, active, ids, edits, fresh, intended>>

\* TransferJournal.remove, after the terminal reply.
RemoveJournal ==
  /\ \/ Working("remove")
     \/ Working("closing") /\ parts[task.id] = NoFile /\ remote[Rec.path] = Rec.content
  /\ SameBinding(dir[task.id], Rec) /\ dir[task.id].caller = Rec.caller
  /\ dir' = [dir EXCEPT ![task.id] = NoFile]
  /\ active' = NoFile /\ EndCall
  /\ UNCHANGED <<local, remote, parts, publishing, ids, edits, fresh, intended>>

\* The call ends in an error, is cancelled, or the host goes.
Fail ==
  /\ task # NoTask /\ EndCall
  /\ UNCHANGED <<dir, local, remote, parts, publishing, active, ids, edits, fresh, intended>>

\* The helper ends: its deadline, a key, a reboot.
HelperEnds ==
  /\ active # NoFile /\ active' = NoFile /\ EndCall
  /\ UNCHANGED <<dir, local, remote, parts, publishing, ids, edits, fresh, intended>>

----------------------------------------------------------------------------
\* What happens to the files between the calls.

EditLocal ==
  /\ task = NoTask /\ edits < MaxEdits /\ edits' = edits + 1
  /\ \E l \in Locals, c \in Contents \cup {NoFile} :
       c # local[l] /\ local' = [local EXCEPT ![l] = c]
  /\ UNCHANGED <<dir, remote, parts, publishing, active, task, ids, fresh, intended>>

EditRemote ==
  /\ task = NoTask /\ active = NoFile /\ edits < MaxEdits /\ edits' = edits + 1
  /\ \E t \in Targets \ {BadTarget}, c \in Contents \cup {NoFile} :
       c # remote[t] /\ remote' = [remote EXCEPT ![t] = c]
  /\ UNCHANGED <<dir, local, parts, publishing, active, task, ids, fresh, intended>>

\* A put an older release left half way.
OldJournals ==
  {NoFile} \cup
  {[dir |-> "put", enc |-> "raw", content |-> c, path |-> t, caller |-> l,
    offset |-> 1, intent |-> FALSE, version |-> v] :
     c \in {d \in Contents : Blocks[d] > 1}, t \in Targets \ {BadTarget},
     l \in Locals, v \in {"v2", "v3fast"}}

JournalInit ==
  /\ \E old \in OldJournals :
       /\ dir = [id \in Ids |-> IF id = 1 THEN old ELSE NoFile]
       /\ parts = [id \in Ids |-> IF id = 1 /\ old # NoFile
                     THEN [content |-> old.content, len |-> 1] ELSE NoFile]
       /\ ids = IF old = NoFile THEN 0 ELSE 1
  /\ local \in [Locals -> Contents \cup {NoFile}]
  /\ remote \in [Targets -> Contents \cup {NoFile}]
  /\ BadTarget \in Targets => remote[BadTarget] = NoFile
  /\ publishing = {} /\ active = NoFile /\ task = NoTask /\ edits = 0
  /\ fresh = FALSE /\ intended = {}

JournalNext ==
  \/ \E l \in Locals, t \in Targets, resume \in BOOLEAN :
       GetFile(t, l, resume) \/ \E enc \in Encodings : PutFile(l, t, enc, resume)
  \/ AttachTransfer \/ Open \/ Bind \/ Block \/ Checkpoint \/ Intend
  \/ MarkPublishing \/ Publish \/ Link \/ UnlinkPart \/ RemoveJournal \/ Fail \/ HelperEnds
  \/ EditLocal \/ EditRemote

JournalSpec == JournalInit /\ [][JournalNext]_journalVars

----------------------------------------------------------------------------
\* Every journal can be opened as it stands, by all who check it.
JournalsOpen ==
  \A id \in Ids : dir[id] # NoFile =>
    LET d == Opened(Descriptor(dir[id], TRUE)) IN
    Storable(dir[id]) /\ DescriptorHolds(d) /\ (d.path # BadTarget => AgentOpens(d))

\* The call in progress works for what it was called with.
WorksForCaller ==
  task.kind # "none" =>
    /\ dir[task.id] # NoFile /\ SameBinding(dir[task.id], Rec)
    /\ Rec.caller = task.asked.caller /\ Rec.path = task.asked.path
    /\ task.kind = "put" => Rec.content = task.asked.content

\* What a call asks for matches one journal at most.
OneJournal ==
  \A i, j \in Ids :
    dir[i] # NoFile /\ dir[j] # NoFile /\ Matches(dir[i], dir[j]) => i = j

\* Interrupted transfers are continued for what they were (find_matching, save,
\* resumed_descriptor): no file on either side is ever joined from two
\* versions; a call continues only a transfer of its own file; what a journal
\* says was once saved, and both the host and the agent accept it when it is
\* opened again; and as long as no call gave up its journal with resume=False,
\* no search finds two.
JournalsAreFaithful ==
  /\ \A l \in Locals : local[l] # Mixed
  /\ \A t \in Targets : remote[t] # Mixed
  /\ JournalsOpen /\ WorksForCaller
  /\ \A id \in intended : dir[id] # NoFile => dir[id].intent
  /\ ~fresh => OneJournal
===============================================================================
