---------------------------- MODULE HostCallsProofs ----------------------------
(***************************************************************************)
(* Parts of the host that share no state, each proved by itself: that a    *)
(* transfer is continued for what it was, for all files, edits and numbers *)
(* of transfers; that an access to memory is served whole, for all sizes   *)
(* of memory, banks and requests; that the fault proxy accounts for all of *)
(* its sessions, for all numbers of sessions and units; and that a text is *)
(* typed whole into a ring of any size.                                    *)
(***************************************************************************)
EXTENDS ResumeJournal, MemoryAccess, FaultProxy, LegacyKeyboard, FiniteSetTheorems, TLAPS

----------------------------------------------------------------------------
\* Resume journals.

Files == Contents \cup {NoFile}
Steps == {"open", "bound", "data", "closing", "unlink", "remove"}
Tasks == [kind : {"put", "get"}, id : Ids, asked : Journals, rec : Journals,
          again : BOOLEAN, step : Steps]

TypesOK ==
  /\ dir \in [Ids -> Journals \cup {NoFile}]
  /\ local \in [Locals -> Files] /\ remote \in [Targets -> Files]
  /\ parts \in [Ids -> PartFiles \cup {NoFile}]
  /\ active \in Ids \cup {NoFile}
  /\ task \in Tasks \cup {NoTask}
  /\ ids \in 0 .. MaxIds
  /\ fresh \in BOOLEAN
  /\ intended \subseteq Ids

\* A journal that can be written.
Kept(r) ==
  /\ r \in Journals
  /\ r.dir = "put" => r.content \in Contents
  /\ r.dir = "get" => r.enc = "raw"
  /\ MetadataUnknown(r) => r.offset = 0

JournalsKept == \A id \in Ids : dir[id] # NoFile => Kept(dir[id]) /\ Storable(dir[id])

\* A partial file holds bytes of the file its journal names, and while the
\* agent holds the transfer the journal is not ahead of it.
PartFits(r, p) == p.len > 0 => p.content = r.content /\ ~MetadataUnknown(r)
PartsFit ==
  \A id \in Ids : dir[id] # NoFile /\ parts[id] # NoFile =>
    /\ PartFits(dir[id], parts[id])
    /\ active = id => parts[id].len >= dir[id].offset

\* A transfer ID is used once.
Unused ==
  \A id \in Ids : id > ids =>
    dir[id] = NoFile /\ parts[id] = NoFile /\ id \notin intended /\ active # id

\* The call in progress has the journal, and what is under way in it.
SavedAs(r) == [r EXCEPT !.version = "v4"]
Serves(r, q) ==
  /\ r.dir = q.dir /\ r.enc = q.enc /\ r.path = q.path /\ r.caller = q.caller
  /\ q.dir = "put" => r.content = q.content
TaskFits ==
  task # NoTask =>
    /\ task.kind = Rec.dir /\ Serves(Rec, task.asked)
    /\ task.id <= ids
    /\ dir[task.id] = SavedAs(Rec)
    /\ task.step = "open" /\ ~task.again => Rec.offset = 0
    /\ task.step \in {"bound", "data", "closing"} => active = task.id
    /\ task.step = "closing" => Rec.dir = "put" /\ Rec.offset = SizeOf(Rec.content)
    /\ Rec.dir = "get" =>
         /\ task.step \in {"open", "bound", "data"} => parts[task.id] # NoFile
         /\ task.step = "open" => parts[task.id].len >= Rec.offset
         /\ task.step = "data" => Rec.content = remote[Rec.path]

IntentKept == \A id \in intended : dir[id] # NoFile => dir[id].intent

\* What a search for a transfer tells apart.
SameKey(r, q) ==
  /\ r.dir = q.dir /\ r.enc = q.enc /\ r.path = q.path /\ r.caller = q.caller
  /\ r.dir = "put" => r.content = q.content
KeysUnique ==
  ~fresh => \A i, j \in Ids :
    dir[i] # NoFile /\ dir[j] # NoFile /\ SameKey(dir[i], dir[j]) => i = j

JournalInv ==
  TypesOK /\ JournalsKept /\ PartsFit /\ Unused /\ TaskFits /\ IntentKept /\ KeysUnique

----------------------------------------------------------------------------
\* Journals and what is saved of them.

LEMMA Names ==
  /\ NoFile \notin Contents /\ NoFile \notin Journals /\ NoFile \notin PartFiles
  /\ NoFile \notin Nat /\ Mixed \notin Files /\ NoTask \notin Tasks /\ NoTask.kind = "none"
<1>1. NoFile \notin Contents /\ NoFile \notin Journals /\ NoFile \notin PartFiles
      /\ NoFile \notin Nat /\ Mixed \notin Files
  BY JournalAssumption DEF Files
<1>2. \A t \in Tasks : t.kind # "none"
  BY DEF Tasks
<1>3. NoTask.kind = "none"
  BY DEF NoTask
<1> QED BY <1>1, <1>2, <1>3

LEMMA Sizes == \A c \in Files : SizeOf(c) \in Nat
BY JournalAssumption DEF SizeOf, Files

LEMMA SavedFields ==
  ASSUME NEW r \in Journals
  PROVE  /\ SavedAs(r) \in Journals
         /\ SavedAs(r).dir = r.dir /\ SavedAs(r).enc = r.enc
         /\ SavedAs(r).content = r.content /\ SavedAs(r).path = r.path
         /\ SavedAs(r).caller = r.caller /\ SavedAs(r).offset = r.offset
         /\ SavedAs(r).intent = r.intent /\ SavedAs(r).version = "v4"
BY DEF SavedAs, Journals, Versions

LEMMA SavedKept ==
  ASSUME NEW r, Kept(r)
  PROVE  Kept(SavedAs(r)) /\ (Storable(SavedAs(r)) <=> Storable(r))
<1> r \in Journals
  BY DEF Kept
<1> QED BY SavedFields DEF Kept, Storable, MetadataUnknown

\* What a save does to the directory.
LEMMA SaveKeeps ==
  ASSUME TypesOK, JournalsKept, IntentKept,
         NEW id \in Ids, dir[id] # NoFile \/ id \notin intended,
         NEW r, Kept(r), Save(id, r)
  PROVE  /\ dir' \in [Ids -> Journals \cup {NoFile}]
         /\ dir'[id] = SavedAs(r) /\ dir'[id] # NoFile
         /\ \A j \in Ids : j # id => dir'[j] = dir[j]
         /\ JournalsKept' /\ IntentKept'
         /\ intended' \subseteq intended \cup {id}
<1>1. r \in Journals /\ SavedAs(r) \in Journals /\ SavedAs(r).intent = r.intent
  BY SavedFields DEF Kept
<1>2. /\ dir' = [dir EXCEPT ![id] = SavedAs(r)] /\ Storable(SavedAs(r))
      /\ dir[id] # NoFile /\ dir[id].intent => r.intent
      /\ intended' = IF r.intent THEN intended \cup {id} ELSE intended
  BY <1>1 DEF Save, SavedAs, Replaces
<1>3. /\ dir'[id] = SavedAs(r) /\ \A j \in Ids : j # id => dir'[j] = dir[j]
      /\ dir' \in [Ids -> Journals \cup {NoFile}]
  BY <1>1, <1>2 DEF TypesOK
<1>4. dir'[id] # NoFile
  BY <1>1, <1>3, Names
<1>5. JournalsKept'
  BY <1>2, <1>3, SavedKept DEF JournalsKept
<1>6. \A j \in intended' : dir'[j] # NoFile => dir'[j].intent
  <2> SUFFICES ASSUME NEW j \in intended', dir'[j] # NoFile PROVE dir'[j].intent
    OBVIOUS
  <2>1. CASE j = id
    <3>1. CASE id \in intended /\ dir[id] # NoFile
      BY <1>1, <1>2, <1>3, <2>1, <3>1 DEF IntentKept
    <3>2. CASE id \notin intended
      BY <1>1, <1>2, <1>3, <2>1, <3>2
    <3> QED BY <3>1, <3>2
  <2>2. CASE j # id
    BY <1>2, <1>3, <2>2 DEF IntentKept, TypesOK
  <2> QED BY <2>1, <2>2
<1> QED BY <1>2, <1>3, <1>4, <1>5, <1>6 DEF IntentKept

\* A save that keeps what a search tells apart keeps the keys unique.
LEMMA KeysKept ==
  ASSUME KeysUnique, fresh' = fresh, NEW id \in Ids, dir[id] # NoFile,
         SameKey(dir[id], dir'[id]),
         \A j \in Ids : j # id => dir'[j] = dir[j]
  PROVE  KeysUnique'
<1> SUFFICES ASSUME ~fresh', NEW i \in Ids, NEW j \in Ids,
                    dir'[i] # NoFile, dir'[j] # NoFile, SameKey(dir'[i], dir'[j])
             PROVE  i = j
  BY DEF KeysUnique
<1>1. /\ i # id => dir[i] # NoFile /\ dir'[i] = dir[i]
      /\ j # id => dir[j] # NoFile /\ dir'[j] = dir[j]
  OBVIOUS
<1>2. SameKey(dir[i], dir[j])
  BY <1>1 DEF SameKey
<1> QED BY <1>1, <1>2 DEF KeysUnique

\* The call in progress and its journal.
LEMMA TaskFacts ==
  ASSUME JournalInv, task # NoTask
  PROVE  /\ task \in Tasks /\ task.id \in Ids /\ task.id <= ids
         /\ dir[task.id] = SavedAs(Rec) /\ dir[task.id] # NoFile
         /\ Kept(Rec) /\ Storable(Rec)
         /\ dir[task.id].content = Rec.content /\ dir[task.id].offset = Rec.offset
         /\ dir[task.id].intent = Rec.intent /\ dir[task.id].dir = Rec.dir
         /\ SameKey(dir[task.id], Rec) /\ Rec.offset \in Nat
         /\ MetadataUnknown(dir[task.id]) <=> MetadataUnknown(Rec)
<1>1. task \in Tasks /\ task.id \in Ids /\ Rec \in Journals
  BY DEF JournalInv, TypesOK, Tasks, Rec
<1>2. task.id <= ids /\ dir[task.id] = SavedAs(Rec)
  BY DEF JournalInv, TaskFits
<1>3. dir[task.id] # NoFile
  BY <1>1, <1>2, SavedFields, Names
<1>4. Kept(dir[task.id]) /\ Storable(dir[task.id])
  BY <1>1, <1>3 DEF JournalInv, JournalsKept
<1>5. Rec.offset \in Nat
  BY <1>1 DEF Journals
<1> QED
  BY <1>1, <1>2, <1>3, <1>4, <1>5, SavedFields DEF Kept, Storable, MetadataUnknown, SameKey

LEMMA CallSaves ==
  ASSUME JournalInv, task # NoTask, NEW r, Kept(r), Save(task.id, r),
         SameKey(Rec, r), fresh' = fresh
  PROVE  /\ dir' \in [Ids -> Journals \cup {NoFile}]
         /\ dir'[task.id] = SavedAs(r) /\ dir'[task.id] # NoFile
         /\ \A j \in Ids : j # task.id => dir'[j] = dir[j]
         /\ JournalsKept' /\ IntentKept' /\ KeysUnique' /\ intended' \subseteq Ids
         /\ \A j \in Ids : j > ids => dir'[j] = NoFile /\ j \notin intended'
<1>1. /\ task \in Tasks /\ task.id \in Ids /\ task.id <= ids
      /\ dir[task.id] # NoFile /\ SameKey(dir[task.id], Rec)
  BY TaskFacts
<1>2. /\ TypesOK /\ JournalsKept /\ IntentKept /\ KeysUnique /\ Unused
      /\ ids \in Nat /\ Ids \subseteq Nat /\ intended \subseteq Ids
  BY DEF JournalInv, TypesOK, Ids
<1>3. /\ dir' \in [Ids -> Journals \cup {NoFile}]
      /\ dir'[task.id] = SavedAs(r) /\ dir'[task.id] # NoFile
      /\ \A j \in Ids : j # task.id => dir'[j] = dir[j]
      /\ JournalsKept' /\ IntentKept'
      /\ intended' \subseteq intended \cup {task.id}
  BY <1>1, <1>2, SaveKeeps
<1>4. SameKey(dir[task.id], dir'[task.id])
  <2>1. r \in Journals
    BY DEF Kept
  <2> QED BY <1>1, <1>3, <2>1, SavedFields DEF SameKey
<1>5. KeysUnique'
  BY <1>1, <1>2, <1>3, <1>4, KeysKept
<1>6. \A j \in Ids : j > ids => dir'[j] = NoFile /\ j \notin intended'
  <2> TAKE j \in Ids
  <2> HAVE j > ids
  <2>1. j # task.id /\ dir[j] = NoFile /\ j \notin intended
    BY <1>1, <1>2 DEF Unused
  <2> QED BY <1>3, <2>1
<1> QED BY <1>1, <1>2, <1>3, <1>5, <1>6

----------------------------------------------------------------------------
\* One lemma for every action.

LEMMA OldFits ==
  ASSUME NEW old \in OldJournals, old # NoFile
  PROVE  /\ Kept(old) /\ Storable(old)
         /\ [content |-> old.content, len |-> 1] \in PartFiles
         /\ old.offset = 1 /\ old.dir = "put"
<1>1. PICK c \in {d \in Contents : Blocks[d] > 1}, t \in Targets \ {BadTarget},
           l \in Locals, v \in {"v2", "v3fast"} :
        old = [dir |-> "put", enc |-> "raw", content |-> c, path |-> t, caller |-> l,
               offset |-> 1, intent |-> FALSE, version |-> v]
  BY DEF OldJournals
<1>2. old \in Journals
  BY <1>1 DEF Journals, Encodings, Versions
<1>3. /\ old.dir = "put" /\ old.offset = 1 /\ old.intent = FALSE
      /\ old.content \in Contents /\ Blocks[old.content] > 1
  BY <1>1
<1>4. SizeOf(old.content) = Blocks[old.content] /\ Blocks[old.content] \in Nat
  BY <1>3, JournalAssumption, Names DEF SizeOf
<1>5. Kept(old)
  BY <1>2, <1>3 DEF Kept, MetadataUnknown
<1>6. Storable(old)
  BY <1>3, <1>4 DEF Storable
<1>7. [content |-> old.content, len |-> 1] \in PartFiles
  BY <1>3 DEF PartFiles
<1> QED BY <1>3, <1>5, <1>6, <1>7

LEMMA InitKeeps == JournalInit => JournalInv
<1> SUFFICES ASSUME JournalInit PROVE JournalInv
  OBVIOUS
<1>1. PICK old \in OldJournals :
        /\ dir = [id \in Ids |-> IF id = 1 THEN old ELSE NoFile]
        /\ parts = [id \in Ids |-> IF id = 1 /\ old # NoFile
                      THEN [content |-> old.content, len |-> 1] ELSE NoFile]
        /\ ids = IF old = NoFile THEN 0 ELSE 1
  BY DEF JournalInit
<1>2. /\ local \in [Locals -> Files] /\ active = NoFile /\ task = NoTask
      /\ fresh = FALSE /\ intended = {}
  BY DEF JournalInit, Files
<1>3. remote \in [Targets -> Files]
  BY DEF JournalInit, Files
<1>4. old # NoFile =>
        /\ Kept(old) /\ Storable(old)
        /\ [content |-> old.content, len |-> 1] \in PartFiles
        /\ old.offset = 1 /\ old.dir = "put"
  BY OldFits
<1>5. 1 \in Ids /\ Ids \subseteq Nat
  BY JournalAssumption DEF Ids
<1>6. TypesOK
  <2>1. old \in Journals \cup {NoFile}
    BY <1>4 DEF Kept
  <2>2. ids \in 0 .. MaxIds
    <3>1. MaxIds \in Nat /\ MaxIds >= 1
      BY JournalAssumption
    <3>2. ids = 0 \/ ids = 1
      BY <1>1
    <3> QED BY <3>1, <3>2
  <2>3. parts \in [Ids -> PartFiles \cup {NoFile}]
    BY <1>1, <1>4 
  <2> QED BY <1>1, <1>2, <1>3, <2>1, <2>2, <2>3 DEF TypesOK
<1>7. JournalsKept
  BY <1>1, <1>4 DEF JournalsKept
<1>8. PartsFit
  BY <1>1, <1>2, <1>4, <1>5, Names DEF PartsFit, PartFits, MetadataUnknown
<1>9. Unused
  <2> SUFFICES ASSUME NEW id \in Ids, id > ids
               PROVE  dir[id] = NoFile /\ parts[id] = NoFile /\ id \notin intended /\ active # id
    BY DEF Unused
  <2>1. old = NoFile \/ id # 1
    BY <1>1
  <2>2. dir[id] = NoFile /\ parts[id] = NoFile
    BY <1>1, <2>1
  <2>3. NoFile # id
    BY <1>5, Names
  <2> QED BY <1>2, <2>2, <2>3
<1>10. TaskFits /\ IntentKept /\ KeysUnique
  BY <1>1, <1>2 DEF TaskFits, IntentKept, KeysUnique
<1> QED BY <1>6, <1>7, <1>8, <1>9, <1>10 DEF JournalInv

LEMMA FailKeeps ==
  ASSUME JournalInv, Fail \/ HelperEnds
  PROVE  JournalInv'
<1>1. /\ UNCHANGED <<dir, local, remote, parts, ids, fresh, intended>>
      /\ task' = NoTask /\ (active' = active \/ active' = NoFile)
  BY DEF Fail, HelperEnds, EndCall
<1>2. TypesOK' /\ JournalsKept' /\ TaskFits' /\ IntentKept' /\ KeysUnique'
  BY <1>1 DEF JournalInv, TypesOK, JournalsKept, TaskFits, IntentKept, KeysUnique
<1>3. NoFile \notin Ids
  BY JournalAssumption DEF Ids
<1>4. PartsFit' /\ Unused'
  BY <1>1, <1>3 DEF JournalInv, PartsFit, Unused
<1> QED BY <1>2, <1>4 DEF JournalInv

LEMMA EditKeeps ==
  ASSUME JournalInv, EditLocal \/ EditRemote
  PROVE  JournalInv'
<1>1. /\ UNCHANGED <<dir, parts, active, task, ids, fresh, intended>>
      /\ task = NoTask
  BY DEF EditLocal, EditRemote
<1>2. local' \in [Locals -> Files] /\ remote' \in [Targets -> Files]
  BY DEF EditLocal, EditRemote, JournalInv, TypesOK, Files
<1>3. TypesOK' /\ JournalsKept' /\ TaskFits' /\ IntentKept' /\ KeysUnique'
  BY <1>1, <1>2 DEF JournalInv, TypesOK, JournalsKept, TaskFits, IntentKept, KeysUnique
<1>4. PartsFit' /\ Unused'
  BY <1>1 DEF JournalInv, PartsFit, Unused
<1> QED BY <1>3, <1>4 DEF JournalInv

\* What a step of a call leaves alone when it touches no journal.
LEMMA SameJournals ==
  ASSUME JournalInv, UNCHANGED <<dir, ids, fresh, intended>>
  PROVE  JournalsKept' /\ IntentKept' /\ KeysUnique'
BY DEF JournalInv, JournalsKept, IntentKept, KeysUnique

LEMMA TaskSteps ==
  ASSUME JournalInv, task # NoTask, NEW step \in Steps, task' = [task EXCEPT !.step = step]
  PROVE  /\ task' \in Tasks /\ task' # NoTask /\ task'.step = step /\ task'.kind = task.kind
         /\ task'.id = task.id /\ task'.rec = task.rec /\ task'.asked = task.asked
         /\ task'.again = task.again
<1>1. task \in Tasks
  BY TaskFacts
<1>2. task' \in Tasks /\ task'.step = step /\ task'.kind = task.kind
      /\ task'.id = task.id /\ task'.rec = task.rec /\ task'.asked = task.asked
      /\ task'.again = task.again
  BY <1>1 DEF Tasks
<1> QED BY <1>2, Names

LEMMA WorkingTask ==
  ASSUME JournalInv, NEW step, Working(step)
  PROVE  task # NoTask /\ task.step = step
BY Names DEF Working

LEMMA AttachKeeps ==
  ASSUME JournalInv, AttachTransfer
  PROVE  JournalInv'
<1>1. /\ UNCHANGED <<dir, local, remote, parts, active, ids, fresh, intended>>
      /\ task # NoTask /\ task.step = "open" /\ active = task.id
      /\ task' = [task EXCEPT !.step = "bound"]
  BY WorkingTask DEF AttachTransfer, Proceeds
<1>2. /\ task' \in Tasks /\ task' # NoTask /\ task'.step = "bound" /\ task'.kind = task.kind
      /\ task'.id = task.id /\ task'.rec = task.rec /\ task'.asked = task.asked
  BY <1>1, TaskSteps DEF Steps
<1>3. TypesOK'
  BY <1>1, <1>2 DEF JournalInv, TypesOK
<1>4. PartsFit' /\ Unused'
  BY <1>1 DEF JournalInv, PartsFit, Unused
<1>5. TaskFits'
  BY <1>1, <1>2 DEF JournalInv, TaskFits, Rec
<1> QED BY <1>1, <1>3, <1>4, <1>5, SameJournals DEF JournalInv

LEMMA UnlinkKeeps ==
  ASSUME JournalInv, UnlinkPart
  PROVE  JournalInv'
<1>1. /\ UNCHANGED <<dir, local, remote, active, ids, fresh, intended>>
      /\ parts' = [parts EXCEPT ![task.id] = NoFile]
      /\ task # NoTask /\ task.step = "unlink"
      /\ task' = [task EXCEPT !.step = "remove"]
  BY WorkingTask DEF UnlinkPart, Proceeds
<1>2. /\ task' \in Tasks /\ task' # NoTask /\ task'.step = "remove" /\ task'.kind = task.kind
      /\ task'.id = task.id /\ task'.rec = task.rec /\ task'.asked = task.asked
  BY <1>1, TaskSteps DEF Steps
<1>3. TypesOK'
  BY <1>1, <1>2 DEF JournalInv, TypesOK
<1>4. \A id \in Ids : parts'[id] = parts[id] \/ parts'[id] = NoFile
  BY <1>1 DEF JournalInv, TypesOK
<1>5. PartsFit' /\ Unused'
  BY <1>1, <1>4 DEF JournalInv, PartsFit, Unused
<1>6. TaskFits'
  BY <1>1, <1>2 DEF JournalInv, TaskFits, Rec
<1> QED BY <1>1, <1>3, <1>5, <1>6, SameJournals DEF JournalInv

LEMMA MarkKeeps ==
  ASSUME JournalInv, MarkPublishing
  PROVE  JournalInv'
<1>1. UNCHANGED <<dir, local, remote, parts, active, task, ids, fresh, intended>>
  BY DEF MarkPublishing
<1> QED
  BY <1>1 DEF JournalInv, TypesOK, JournalsKept, PartsFit, Unused, TaskFits, IntentKept,
              KeysUnique, Rec

LEMMA PublishKeeps ==
  ASSUME JournalInv, Publish
  PROVE  JournalInv'
<1>1. /\ UNCHANGED <<dir, local, active, task, ids, fresh, intended>>
      /\ parts' = [parts EXCEPT ![task.id] = NoFile]
      /\ remote' = [remote EXCEPT ![Rec.path] = Assembled] \/ remote' = remote
      /\ task # NoTask /\ task.step = "closing" /\ active = task.id
      /\ parts[task.id] # NoFile
  BY WorkingTask DEF Publish
<1>2. /\ task \in Tasks /\ task.id \in Ids /\ Kept(Rec)
      /\ dir[task.id] # NoFile /\ dir[task.id].content = Rec.content
      /\ dir[task.id].offset = Rec.offset
  BY <1>1, TaskFacts
<1>3. Rec.dir = "put" /\ Rec.offset = SizeOf(Rec.content) /\ Rec.content \in Contents
  BY <1>1, <1>2 DEF JournalInv, TaskFits, Kept
<1>4. SizeOf(Rec.content) # 0 => parts[task.id].content = Rec.content
  <2>1. /\ PartFits(dir[task.id], parts[task.id])
        /\ parts[task.id].len >= dir[task.id].offset
    BY <1>1, <1>2 DEF JournalInv, PartsFit
  <2>2. parts[task.id].len \in Nat
    BY <1>1, <1>2 DEF JournalInv, TypesOK, PartFiles
  <2>3. SizeOf(Rec.content) \in Nat
    BY <1>3, Sizes DEF Files
  <2>4. SizeOf(Rec.content) # 0 => parts[task.id].len > 0
    BY <1>2, <1>3, <2>1, <2>2, <2>3
  <2> QED BY <1>2, <2>1, <2>4 DEF PartFits
<1>5. remote' \in [Targets -> Files]
  <2>1. remote \in [Targets -> Files]
    BY DEF JournalInv, TypesOK
  <2>2. Assembled \in Files
    BY <1>3, <1>4 DEF Assembled, Files
  <2> QED BY <1>1, <2>1, <2>2
<1>6. TypesOK'
  BY <1>1, <1>5 DEF JournalInv, TypesOK
<1>7. \A id \in Ids : parts'[id] = parts[id] \/ parts'[id] = NoFile
  BY <1>1 DEF JournalInv, TypesOK
<1>8. PartsFit' /\ Unused'
  BY <1>1, <1>7 DEF JournalInv, PartsFit, Unused
<1>9. TaskFits'
  BY <1>1, <1>3 DEF JournalInv, TaskFits, Rec
<1> QED BY <1>1, <1>6, <1>8, <1>9, SameJournals DEF JournalInv

LEMMA BlockKeeps ==
  ASSUME JournalInv, Block
  PROVE  JournalInv'
<1> DEFINE old == parts[task.id]
           new == [content |-> Joined(old, Sent), len |-> old.len + 1]
<1>1. /\ UNCHANGED <<dir, local, remote, active, task, ids, fresh, intended>>
      /\ parts' = [parts EXCEPT ![task.id] = new]
      /\ task # NoTask /\ task.step = "data" /\ active = task.id
      /\ old # NoFile /\ old.len < SizeOf(Rec.content)
  BY WorkingTask DEF Block
<1>2. /\ task \in Tasks /\ task.id \in Ids /\ task.id <= ids /\ Kept(Rec)
      /\ dir[task.id] # NoFile /\ dir[task.id].content = Rec.content
      /\ dir[task.id].offset = Rec.offset /\ Rec.offset \in Nat
      /\ MetadataUnknown(dir[task.id]) <=> MetadataUnknown(Rec)
  BY <1>1, TaskFacts
<1>3. /\ old \in PartFiles /\ old.len \in Nat
      /\ PartFits(dir[task.id], old) /\ old.len >= Rec.offset
  <2>1. old \in PartFiles
    BY <1>1, <1>2 DEF JournalInv, TypesOK
  <2> QED BY <1>1, <1>2, <2>1 DEF JournalInv, PartsFit, PartFiles
<1>4. Sent = Rec.content
  BY <1>1, <1>2 DEF JournalInv, TaskFits, Sent, Kept, Journals
<1>5. Rec.content \in Files /\ SizeOf(Rec.content) \in Nat
  BY <1>2, Sizes DEF Kept, Journals, Files
<1>6. ~MetadataUnknown(Rec)
  BY <1>1, <1>3, <1>5 DEF MetadataUnknown
<1>7. Joined(old, Sent) = Rec.content
  BY <1>2, <1>3, <1>4 DEF Joined, PartFits
<1>8. new \in PartFiles
  BY <1>3, <1>5, <1>7 DEF PartFiles, Files
<1>9. PartFits(dir[task.id], new) /\ new.len >= Rec.offset
  BY <1>2, <1>3, <1>6, <1>7 DEF PartFits
<1>10. new # NoFile
  BY <1>8, Names
<1> HIDE DEF new, old
<1>11. parts'[task.id] = new /\ \A id \in Ids : id # task.id => parts'[id] = parts[id]
  BY <1>1, <1>2 DEF JournalInv, TypesOK
<1>12. TypesOK'
  BY <1>1, <1>8 DEF JournalInv, TypesOK
<1>13. PartsFit'
  BY <1>1, <1>2, <1>9, <1>11 DEF JournalInv, PartsFit
<1>14. Unused'
  BY <1>1, <1>2, <1>11 DEF JournalInv, TypesOK, Unused, Ids
<1>15. TaskFits'
  BY <1>1, <1>10, <1>11 DEF JournalInv, TaskFits, Rec
<1> QED BY <1>1, <1>12, <1>13, <1>14, <1>15, SameJournals DEF JournalInv

LEMMA LinkKeeps ==
  ASSUME JournalInv, Link
  PROVE  JournalInv'
<1>1. /\ UNCHANGED <<dir, remote, parts, ids, fresh, intended>>
      /\ active' = NoFile
      /\ task # NoTask /\ task.step = "data" /\ active = task.id /\ Rec.dir = "get"
      /\ parts[task.id].len = Rec.offset
  BY WorkingTask DEF Link
<1>2. /\ task \in Tasks /\ task.id \in Ids /\ Kept(Rec) /\ Rec.offset \in Nat
      /\ dir[task.id] # NoFile /\ dir[task.id].content = Rec.content
  BY <1>1, TaskFacts
<1>3. Rec.content \in Files /\ (Rec.offset # 0 => parts[task.id].content = Rec.content)
  <2>1. PartFits(dir[task.id], parts[task.id])
    BY <1>1, <1>2 DEF JournalInv, PartsFit, TaskFits
  <2> QED BY <1>1, <1>2, <2>1 DEF PartFits, Kept, Journals, Files
<1>4. \/ task' = NoTask /\ UNCHANGED local
      \/ /\ task' = [task EXCEPT !.step = "unlink"]
         /\ local' = [local EXCEPT ![Rec.caller] =
                        IF Rec.offset = 0 THEN Rec.content ELSE parts[task.id].content]
  BY DEF Link, EndCall, Proceeds
<1>5. local' \in [Locals -> Files]
  BY <1>3, <1>4 DEF JournalInv, TypesOK
<1>6. task' # NoTask =>
        /\ task' \in Tasks /\ task'.step = "unlink" /\ task'.kind = task.kind
        /\ task'.id = task.id /\ task'.rec = task.rec /\ task'.asked = task.asked
  BY <1>1, <1>4, TaskSteps DEF Steps
<1>7. TypesOK'
  BY <1>1, <1>5, <1>6 DEF JournalInv, TypesOK
<1>8. PartsFit' /\ Unused'
  <2>1. NoFile \notin Ids
    BY Names DEF Ids
  <2> QED BY <1>1, <2>1 DEF JournalInv, PartsFit, Unused
<1>9. TaskFits'
  BY <1>1, <1>6 DEF JournalInv, TaskFits, Rec
<1> QED BY <1>1, <1>7, <1>8, <1>9, SameJournals DEF JournalInv

LEMMA RemoveKeeps ==
  ASSUME JournalInv, RemoveJournal
  PROVE  JournalInv'
<1>1. /\ UNCHANGED <<local, remote, parts, ids, fresh, intended>>
      /\ dir' = [dir EXCEPT ![task.id] = NoFile]
      /\ active' = NoFile /\ task' = NoTask
  BY DEF RemoveJournal, EndCall
<1>2. \A id \in Ids : dir'[id] = NoFile \/ dir'[id] = dir[id]
  BY <1>1 DEF JournalInv, TypesOK
<1>3. TypesOK'
  BY <1>1 DEF JournalInv, TypesOK
<1>4. JournalsKept' /\ IntentKept' /\ KeysUnique'
  <2>1. JournalsKept'
    BY <1>2 DEF JournalInv, JournalsKept
  <2>2. IntentKept'
    BY <1>1, <1>2 DEF JournalInv, IntentKept, TypesOK
  <2>3. KeysUnique'
    BY <1>1, <1>2 DEF JournalInv, KeysUnique
  <2> QED BY <2>1, <2>2, <2>3
<1>5. NoFile \notin Ids
  BY Names DEF Ids
<1>6. PartsFit' /\ Unused'
  BY <1>1, <1>2, <1>5 DEF JournalInv, PartsFit, Unused
<1>7. TaskFits'
  BY <1>1 DEF TaskFits
<1> QED BY <1>3, <1>4, <1>6, <1>7 DEF JournalInv

LEMMA CheckpointKeeps ==
  ASSUME JournalInv, Checkpoint
  PROVE  JournalInv'
<1> DEFINE part == parts[task.id]
           r == [Rec EXCEPT !.offset = part.len]
<1>1. /\ UNCHANGED <<local, remote, parts, active, ids, fresh>>
      /\ Save(task.id, r) /\ task' = [task EXCEPT !.rec = r]
      /\ task # NoTask /\ task.step = "data" /\ active = task.id
      /\ part # NoFile /\ part.len > Rec.offset
  BY WorkingTask DEF Checkpoint
<1>2. /\ task \in Tasks /\ task.id \in Ids /\ Kept(Rec) /\ Rec \in Journals
      /\ dir[task.id] # NoFile /\ dir[task.id].content = Rec.content
      /\ MetadataUnknown(dir[task.id]) <=> MetadataUnknown(Rec)
      /\ Rec.offset \in Nat
  BY <1>1, TaskFacts DEF Kept
<1>3. part \in PartFiles /\ part.len \in Nat /\ PartFits(dir[task.id], part)
  <2>1. part \in PartFiles
    BY <1>1, <1>2 DEF JournalInv, TypesOK
  <2> QED BY <1>1, <1>2, <2>1 DEF JournalInv, PartsFit, PartFiles
<1>4. part.content = Rec.content /\ ~MetadataUnknown(Rec)
  BY <1>1, <1>2, <1>3 DEF PartFits
<1>5. /\ r \in Journals /\ r.dir = Rec.dir /\ r.enc = Rec.enc /\ r.content = Rec.content
      /\ r.path = Rec.path /\ r.caller = Rec.caller /\ r.offset = part.len
      /\ r.intent = Rec.intent
  BY <1>2, <1>3 DEF Journals
<1>6. task' \in Tasks /\ task' # NoTask /\ task'.rec = r /\ task'.id = task.id
      /\ task'.kind = task.kind /\ task'.asked = task.asked /\ task'.step = "data"
  <2>1. task' \in Tasks /\ task'.rec = r /\ task'.id = task.id
        /\ task'.kind = task.kind /\ task'.asked = task.asked /\ task'.step = "data"
    BY <1>1, <1>2, <1>5 DEF Tasks
  <2> QED BY <2>1, Names
<1> HIDE DEF part, r
<1>7. Kept(r) /\ ~MetadataUnknown(r) /\ SameKey(Rec, r)
  BY <1>2, <1>4, <1>5 DEF Kept, MetadataUnknown, SameKey
<1>8. /\ dir' \in [Ids -> Journals \cup {NoFile}]
      /\ dir'[task.id] = SavedAs(r) /\ dir'[task.id] # NoFile
      /\ \A j \in Ids : j # task.id => dir'[j] = dir[j]
      /\ JournalsKept' /\ IntentKept' /\ KeysUnique' /\ intended' \subseteq Ids
      /\ \A j \in Ids : j > ids => dir'[j] = NoFile /\ j \notin intended'
  BY <1>1, <1>7, CallSaves
<1>9. dir'[task.id].offset = part.len /\ dir'[task.id].content = Rec.content
      /\ ~MetadataUnknown(dir'[task.id])
  BY <1>5, <1>7, <1>8, SavedFields DEF MetadataUnknown
<1>10. TypesOK'
  BY <1>1, <1>6, <1>8 DEF JournalInv, TypesOK
<1>11. PartsFit'
  <2> SUFFICES ASSUME NEW id \in Ids, dir'[id] # NoFile, parts[id] # NoFile
               PROVE  /\ PartFits(dir'[id], parts[id])
                      /\ active = id => parts[id].len >= dir'[id].offset
    BY <1>1 DEF PartsFit
  <2>1. CASE id = task.id
    BY <1>3, <1>4, <1>9, <2>1 DEF PartFits, part
  <2>2. CASE id # task.id
    BY <1>8, <2>2 DEF JournalInv, PartsFit
  <2> QED BY <2>1, <2>2
<1>12. Unused'
  BY <1>1, <1>8 DEF JournalInv, Unused
<1>13. TaskFits'
  <2>1. Serves(Rec, task.asked) /\ task.kind = Rec.dir /\ task.id <= ids
        /\ (Rec.dir = "get" => parts[task.id] # NoFile /\ Rec.content = remote[Rec.path])
    BY <1>1 DEF JournalInv, TaskFits
  <2>2. Serves(r, task.asked)
    BY <1>5, <2>1 DEF Serves
  <2> QED BY <1>1, <1>5, <1>6, <1>8, <2>1, <2>2 DEF TaskFits, Rec
<1> QED BY <1>8, <1>10, <1>11, <1>12, <1>13 DEF JournalInv

LEMMA IntendKeeps ==
  ASSUME JournalInv, Intend
  PROVE  JournalInv'
<1> DEFINE r == [Rec EXCEPT !.intent = TRUE]
<1>1. /\ UNCHANGED <<local, remote, parts, active, ids, fresh>>
      /\ Save(task.id, r) /\ task' = [task EXCEPT !.rec = r, !.step = "closing"]
      /\ task # NoTask /\ task.step = "data" /\ Rec.dir = "put"
      /\ Rec.offset = SizeOf(Rec.content)
  BY WorkingTask DEF Intend
<1>2. /\ task \in Tasks /\ task.id \in Ids /\ Kept(Rec) /\ Rec \in Journals
      /\ dir[task.id] # NoFile /\ dir[task.id].content = Rec.content
      /\ dir[task.id].offset = Rec.offset
      /\ MetadataUnknown(dir[task.id]) <=> MetadataUnknown(Rec)
  BY <1>1, TaskFacts DEF Kept
<1>3. /\ r \in Journals /\ r.dir = Rec.dir /\ r.enc = Rec.enc /\ r.content = Rec.content
      /\ r.path = Rec.path /\ r.caller = Rec.caller /\ r.offset = Rec.offset
  BY <1>2 DEF Journals
<1>4. task' \in Tasks /\ task' # NoTask /\ task'.rec = r /\ task'.id = task.id
      /\ task'.kind = task.kind /\ task'.asked = task.asked /\ task'.step = "closing"
  <2>1. task' \in Tasks /\ task'.rec = r /\ task'.id = task.id
        /\ task'.kind = task.kind /\ task'.asked = task.asked /\ task'.step = "closing"
    BY <1>1, <1>2, <1>3 DEF Tasks, Steps
  <2> QED BY <2>1, Names
<1> HIDE DEF r
<1>5. Kept(r) /\ SameKey(Rec, r) /\ (MetadataUnknown(r) <=> MetadataUnknown(Rec))
  BY <1>2, <1>3 DEF Kept, MetadataUnknown, SameKey
<1>6. /\ dir' \in [Ids -> Journals \cup {NoFile}]
      /\ dir'[task.id] = SavedAs(r) /\ dir'[task.id] # NoFile
      /\ \A j \in Ids : j # task.id => dir'[j] = dir[j]
      /\ JournalsKept' /\ IntentKept' /\ KeysUnique' /\ intended' \subseteq Ids
      /\ \A j \in Ids : j > ids => dir'[j] = NoFile /\ j \notin intended'
  BY <1>1, <1>5, CallSaves
<1>7. /\ dir'[task.id].offset = dir[task.id].offset
      /\ dir'[task.id].content = dir[task.id].content
      /\ MetadataUnknown(dir'[task.id]) <=> MetadataUnknown(dir[task.id])
  BY <1>2, <1>3, <1>5, <1>6, SavedFields DEF MetadataUnknown
<1>8. TypesOK'
  BY <1>1, <1>4, <1>6 DEF JournalInv, TypesOK
<1>9. PartsFit'
  <2> SUFFICES ASSUME NEW id \in Ids, dir'[id] # NoFile, parts[id] # NoFile
               PROVE  /\ PartFits(dir'[id], parts[id])
                      /\ active = id => parts[id].len >= dir'[id].offset
    BY <1>1 DEF PartsFit
  <2>1. dir[id] # NoFile /\ dir'[id].offset = dir[id].offset
        /\ dir'[id].content = dir[id].content
        /\ (MetadataUnknown(dir'[id]) <=> MetadataUnknown(dir[id]))
    BY <1>2, <1>6, <1>7
  <2> QED BY <2>1 DEF JournalInv, PartsFit, PartFits
<1>10. Unused'
  BY <1>1, <1>6 DEF JournalInv, Unused
<1>11. TaskFits'
  <2>1. Serves(Rec, task.asked) /\ task.kind = Rec.dir /\ task.id <= ids /\ active = task.id
    BY <1>1 DEF JournalInv, TaskFits
  <2>2. Serves(r, task.asked)
    BY <1>3, <2>1 DEF Serves
  <2> QED BY <1>1, <1>3, <1>4, <1>6, <2>1, <2>2 DEF TaskFits, Rec
<1> QED BY <1>6, <1>8, <1>9, <1>10, <1>11 DEF JournalInv

LEMMA BindKeeps ==
  ASSUME JournalInv, Bind
  PROVE  JournalInv'
<1>1. /\ UNCHANGED <<local, remote, active, ids, fresh>>
      /\ task # NoTask /\ task.step = "bound" /\ active = task.id
  BY WorkingTask DEF Bind
<1>2. /\ task \in Tasks /\ task.id \in Ids /\ task.id <= ids /\ Kept(Rec) /\ Rec \in Journals
      /\ dir[task.id] # NoFile /\ dir[task.id].content = Rec.content
      /\ MetadataUnknown(dir[task.id]) <=> MetadataUnknown(Rec)
      /\ Rec.offset \in Nat /\ Rec.dir \in {"put", "get"}
  BY <1>1, TaskFacts DEF Kept, Journals
<1>3. CASE Rec.dir = "put"
  <2>1. UNCHANGED <<dir, intended, parts>> /\ task' = [task EXCEPT !.step = "data"]
    BY <1>3 DEF Bind
  <2>2. /\ task' \in Tasks /\ task' # NoTask /\ task'.step = "data" /\ task'.kind = task.kind
        /\ task'.id = task.id /\ task'.rec = task.rec /\ task'.asked = task.asked
    BY <1>1, <2>1, TaskSteps DEF Steps
  <2>3. TypesOK'
    BY <1>1, <2>1, <2>2 DEF JournalInv, TypesOK
  <2>4. PartsFit' /\ Unused'
    BY <1>1, <2>1 DEF JournalInv, PartsFit, Unused
  <2>5. TaskFits'
    BY <1>1, <1>3, <2>1, <2>2 DEF JournalInv, TaskFits, Rec
  <2> QED BY <1>1, <2>1, <2>3, <2>4, <2>5, SameJournals DEF JournalInv
<1>4. CASE Rec.dir = "get"
  <2> DEFINE part == parts[task.id]
             Bound(n) == [Rec EXCEPT !.content = remote[Rec.path], !.offset = n]
  <2>1. PICK n \in Rec.offset .. part.len :
          /\ Binds /\ Save(task.id, Bound(n))
          /\ task' = [task EXCEPT !.step = "data", !.rec = Bound(n)]
          /\ parts' = [parts EXCEPT ![task.id].len = n]
    BY <1>4 DEF Bind
  <2> DEFINE r == Bound(n)
             new == [part EXCEPT !.len = n]
  <2>2. part \in PartFiles /\ part # NoFile /\ part.len \in Nat
        /\ PartFits(dir[task.id], part)
    <3>1. part # NoFile
      BY <1>1, <1>4 DEF JournalInv, TaskFits
    <3>2. part \in PartFiles
      BY <1>2, <3>1 DEF JournalInv, TypesOK
    <3> QED BY <1>2, <3>1, <3>2 DEF JournalInv, PartsFit, PartFiles
  <2>3. n \in Nat /\ n <= part.len
    BY <1>2, <2>2
  <2>4. remote[Rec.path] \in Files
    BY <1>2 DEF JournalInv, TypesOK, Journals
  <2>5. /\ r \in Journals /\ r.dir = Rec.dir /\ r.enc = Rec.enc /\ r.content = remote[Rec.path]
        /\ r.path = Rec.path /\ r.caller = Rec.caller /\ r.offset = n
    BY <1>2, <2>3, <2>4 DEF Journals, Files
  <2>6. new \in PartFiles /\ new.len = n /\ new.content = part.content /\ new # NoFile
    <3>1. new \in PartFiles /\ new.len = n /\ new.content = part.content
      BY <2>2, <2>3 DEF PartFiles
    <3> QED BY <3>1, Names
  <2>7. parts' \in [Ids -> PartFiles \cup {NoFile}] /\ parts'[task.id] = new
        /\ \A id \in Ids : id # task.id => parts'[id] = parts[id]
    BY <1>2, <2>1, <2>6 DEF JournalInv, TypesOK
  <2>8. task' \in Tasks /\ task' # NoTask /\ task'.rec = r /\ task'.id = task.id
        /\ task'.kind = task.kind /\ task'.asked = task.asked /\ task'.step = "data"
    <3>1. task' \in Tasks /\ task'.rec = r /\ task'.id = task.id
          /\ task'.kind = task.kind /\ task'.asked = task.asked /\ task'.step = "data"
      BY <1>2, <2>1, <2>5 DEF Tasks, Steps
    <3> QED BY <3>1, Names
  <2>9. Save(task.id, r) /\ Binds
    BY <2>1
  <2> HIDE DEF part, r, new
  <2>10. n > 0 => ~MetadataUnknown(Rec) /\ part.content = Rec.content
    BY <1>2, <2>2, <2>3 DEF PartFits
  <2>11. ~MetadataUnknown(Rec) => r.content = Rec.content /\ ~MetadataUnknown(r)
    BY <2>5, <2>9 DEF Binds, MetadataUnknown
  <2>12. Kept(r) /\ SameKey(Rec, r)
    <3>1. MetadataUnknown(r) => r.offset = 0
      BY <2>3, <2>5, <2>10, <2>11
    <3> QED BY <1>2, <1>4, <2>5, <3>1 DEF Kept, SameKey
  <2>13. /\ dir' \in [Ids -> Journals \cup {NoFile}]
         /\ dir'[task.id] = SavedAs(r) /\ dir'[task.id] # NoFile
         /\ \A j \in Ids : j # task.id => dir'[j] = dir[j]
         /\ JournalsKept' /\ IntentKept' /\ KeysUnique' /\ intended' \subseteq Ids
         /\ \A j \in Ids : j > ids => dir'[j] = NoFile /\ j \notin intended'
    BY <1>1, <2>9, <2>12, CallSaves
  <2>14. dir'[task.id].offset = n /\ dir'[task.id].content = r.content
         /\ (MetadataUnknown(dir'[task.id]) <=> MetadataUnknown(r))
    BY <2>5, <2>13, SavedFields DEF MetadataUnknown
  <2>15. TypesOK'
    BY <1>1, <2>7, <2>8, <2>13 DEF JournalInv, TypesOK
  <2>16. PartsFit'
    <3> SUFFICES ASSUME NEW id \in Ids, dir'[id] # NoFile, parts'[id] # NoFile
                 PROVE  /\ PartFits(dir'[id], parts'[id])
                        /\ active = id => parts'[id].len >= dir'[id].offset
      BY <1>1 DEF PartsFit
    <3>1. CASE id = task.id
      BY <2>3, <2>6, <2>7, <2>10, <2>11, <2>14, <3>1 DEF PartFits
    <3>2. CASE id # task.id
      BY <2>7, <2>13, <3>2 DEF JournalInv, PartsFit
    <3> QED BY <3>1, <3>2
  <2>17. Unused'
    <3> SUFFICES ASSUME NEW id \in Ids, id > ids
                 PROVE  dir'[id] = NoFile /\ parts'[id] = NoFile /\ id \notin intended' /\ active # id
      BY <1>1 DEF Unused
    <3>1. id # task.id
      BY <1>2 DEF JournalInv, TypesOK, Ids
    <3> QED BY <1>1, <2>7, <2>13, <3>1 DEF JournalInv, Unused
  <2>18. TaskFits'
    <3>1. Serves(Rec, task.asked) /\ task.kind = Rec.dir /\ task.id <= ids
      BY <1>1 DEF JournalInv, TaskFits
    <3>2. Serves(r, task.asked)
      BY <1>4, <2>5, <3>1 DEF Serves
    <3> QED BY <1>1, <1>4, <2>5, <2>6, <2>7, <2>8, <2>13, <3>1, <3>2 DEF TaskFits, Rec
  <2> QED BY <2>13, <2>15, <2>16, <2>17, <2>18 DEF JournalInv
<1> QED BY <1>2, <1>3, <1>4

LEMMA OpenKeeps ==
  ASSUME JournalInv, Open
  PROVE  JournalInv'
<1> DEFINE d == Opened(Descriptor(Rec, task.again))
           part == parts[task.id]
<1>1. /\ UNCHANGED <<dir, local, remote, ids, fresh, intended>>
      /\ active' = task.id /\ active = NoFile
      /\ task # NoTask /\ task.step = "open" /\ task' = [task EXCEPT !.step = "bound"]
      /\ IF d.dir = "put"
           THEN PutOpens(d)
           ELSE parts' = [parts EXCEPT ![task.id].len = Rec.offset]
  BY WorkingTask DEF Open, Proceeds
<1>2. /\ task \in Tasks /\ task.id \in Ids /\ task.id <= ids /\ Kept(Rec) /\ Rec \in Journals
      /\ dir[task.id] # NoFile /\ dir[task.id].content = Rec.content
      /\ dir[task.id].offset = Rec.offset
      /\ MetadataUnknown(dir[task.id]) <=> MetadataUnknown(Rec)
      /\ Rec.offset \in Nat /\ Rec.dir \in {"put", "get"}
  BY <1>1, TaskFacts DEF Kept, Journals
<1>3. d.dir = Rec.dir /\ d.offset = Rec.offset
  <2>1. d.dir = Rec.dir /\ d.offset = IF task.again THEN Rec.offset ELSE 0
    BY DEF Opened, Descriptor
  <2>2. task.again \/ Rec.offset = 0
    BY <1>1 DEF JournalInv, TaskFits
  <2> QED BY <2>1, <2>2
<1>4. /\ task' \in Tasks /\ task' # NoTask /\ task'.step = "bound" /\ task'.kind = task.kind
      /\ task'.id = task.id /\ task'.rec = task.rec /\ task'.asked = task.asked
  BY <1>1, TaskSteps DEF Steps
<1>5. part # NoFile => part \in PartFiles /\ part.len \in Nat /\ PartFits(dir[task.id], part)
  <2> HAVE part # NoFile
  <2>1. part \in PartFiles
    BY <1>2 DEF JournalInv, TypesOK
  <2> QED BY <1>2, <2>1 DEF JournalInv, PartsFit, PartFiles
<1>6. PICK new \in PartFiles \cup {NoFile} :
        /\ parts' = [parts EXCEPT ![task.id] = new]
        /\ new # NoFile => PartFits(dir[task.id], new) /\ new.len >= Rec.offset
        /\ Rec.dir = "get" => new # NoFile
  <2>1. CASE Rec.dir = "put"
    <3>1. \/ parts' = [parts EXCEPT ![task.id] = NoPart] /\ Rec.offset = 0
          \/ UNCHANGED parts /\ (part = NoFile \/ Rec.offset = 0 \/ part.len >= Rec.offset)
      <4>1. \/ Rec.offset = 0 /\ (parts' = [parts EXCEPT ![task.id] = NoPart] \/ parts' = parts)
            \/ part.len >= Rec.offset /\ parts' = parts
            \/ part = NoFile /\ parts' = parts
        BY <1>1, <1>3, <2>1 DEF PutOpens, Replayed
      <4> QED BY <4>1
    <3>2. NoPart \in PartFiles /\ PartFits(dir[task.id], NoPart) /\ NoPart.len = 0
      BY DEF NoPart, PartFiles, PartFits
    <3>3. CASE parts' = [parts EXCEPT ![task.id] = NoPart] /\ Rec.offset = 0
      <4>1. NoPart \in PartFiles \cup {NoFile} /\ NoPart.len >= Rec.offset /\ Rec.dir # "get"
        BY <2>1, <3>2, <3>3
      <4> QED BY <3>2, <3>3, <4>1
    <3>4. CASE UNCHANGED parts /\ (part = NoFile \/ Rec.offset = 0 \/ part.len >= Rec.offset)
      <4>1. parts' = [parts EXCEPT ![task.id] = part]
        BY <1>2, <3>4 DEF JournalInv, TypesOK
      <4>2. part \in PartFiles \cup {NoFile} /\ Rec.dir # "get"
        BY <1>5, <2>1
      <4>3. part # NoFile => PartFits(dir[task.id], part) /\ part.len >= Rec.offset
        BY <1>5, <3>4
      <4> QED BY <4>1, <4>2, <4>3
    <3> QED BY <3>1, <3>3, <3>4
  <2>2. CASE Rec.dir = "get"
    <3> DEFINE cut == [part EXCEPT !.len = Rec.offset]
    <3>1. part # NoFile /\ part.len >= Rec.offset
      BY <1>1, <2>2 DEF JournalInv, TaskFits
    <3>2. cut \in PartFiles /\ cut.len = Rec.offset /\ cut.content = part.content
      BY <1>2, <1>5, <3>1 DEF PartFiles
    <3>3. parts' = [parts EXCEPT ![task.id] = cut]
      BY <1>1, <1>3, <2>2
    <3> HIDE DEF cut
    <3>4. PartFits(dir[task.id], cut) /\ cut.len >= Rec.offset
      BY <1>2, <1>5, <3>1, <3>2 DEF PartFits
    <3> QED BY <3>2, <3>3, <3>4, Names
  <2> QED BY <1>2, <2>1, <2>2
<1>7. /\ parts' \in [Ids -> PartFiles \cup {NoFile}] /\ parts'[task.id] = new
      /\ \A id \in Ids : id # task.id => parts'[id] = parts[id]
  BY <1>2, <1>6 DEF JournalInv, TypesOK
<1>8. TypesOK'
  BY <1>1, <1>2, <1>4, <1>7 DEF JournalInv, TypesOK
<1>9. PartsFit'
  <2> SUFFICES ASSUME NEW id \in Ids, dir[id] # NoFile, parts'[id] # NoFile
               PROVE  /\ PartFits(dir[id], parts'[id])
                      /\ task.id = id => parts'[id].len >= dir[id].offset
    BY <1>1 DEF PartsFit
  <2>1. CASE id = task.id
    BY <1>2, <1>6, <1>7, <2>1
  <2>2. CASE id # task.id
    BY <1>7, <2>2 DEF JournalInv, PartsFit
  <2> QED BY <2>1, <2>2
<1>10. Unused'
  <2> SUFFICES ASSUME NEW id \in Ids, id > ids
               PROVE  dir[id] = NoFile /\ parts'[id] = NoFile /\ id \notin intended /\ task.id # id
    BY <1>1 DEF Unused
  <2>1. id # task.id
    BY <1>2 DEF JournalInv, TypesOK, Ids
  <2> QED BY <1>7, <2>1 DEF JournalInv, Unused
<1>11. TaskFits'
  BY <1>1, <1>4, <1>6, <1>7 DEF JournalInv, TaskFits, Rec
<1> QED BY <1>1, <1>8, <1>9, <1>10, <1>11, SameJournals DEF JournalInv

----------------------------------------------------------------------------
\* A call starts: the search tells apart what SameKey tells apart.

\* What put_file and get_file ask for.
Asked(q) ==
  /\ Kept(q) /\ q.version = "v4" /\ q.offset = 0
  /\ q.dir = "get" => MetadataUnknown(q)

LEMMA CallsAsk ==
  ASSUME JournalInv, NEW l \in Locals, NEW t \in Targets
  PROVE  /\ \A enc \in Encodings : local[l] # NoFile => Asked(PutAsked(l, t, enc))
         /\ Asked(GetAsked(t, l))
<1>1. local[l] \in Files
  BY DEF JournalInv, TypesOK
<1>2. ASSUME NEW enc \in Encodings, local[l] # NoFile
      PROVE  Asked(PutAsked(l, t, enc))
  <2>1. PutAsked(l, t, enc) \in Journals /\ local[l] \in Contents
    BY <1>1, <1>2 DEF PutAsked, Journals, Versions, Files
  <2>2. PutAsked(l, t, enc).dir = "put" /\ PutAsked(l, t, enc).version = "v4"
        /\ PutAsked(l, t, enc).content = local[l] /\ PutAsked(l, t, enc).offset = 0
    BY DEF PutAsked
  <2> QED BY <2>1, <2>2 DEF Asked, Kept, MetadataUnknown
<1>3. Asked(GetAsked(t, l))
  <2>1. GetAsked(t, l) \in Journals
    BY DEF GetAsked, Journals, Versions, Encodings
  <2>2. /\ GetAsked(t, l).dir = "get" /\ GetAsked(t, l).enc = "raw"
        /\ GetAsked(t, l).offset = 0 /\ SizeOf(GetAsked(t, l).content) = 0
        /\ GetAsked(t, l).version = "v4"
    BY DEF GetAsked, SizeOf
  <2> QED BY <2>1, <2>2 DEF Asked, Kept, MetadataUnknown
<1> QED BY <1>2, <1>3

LEMMA AskedSaved == ASSUME NEW q, Asked(q) PROVE SavedAs(q) = q
BY DEF Asked, Kept, SavedAs, Journals

\* Size and checksum say which content it is.
LEMMA BindingTells ==
  ASSUME NEW r, NEW q, Kept(r), Kept(q), r.dir = "put", SameBinding(r, q)
  PROVE  r.content = q.content
<1>1. q.dir = "put" /\ r.content \in Contents /\ q.content \in Contents /\ r.enc = q.enc
  BY DEF SameBinding, Kept
<1>2. SizeOf(r.content) = Blocks[r.content] /\ SizeOf(q.content) = Blocks[q.content]
  BY <1>1, Names DEF SizeOf
<1>3. CASE SizeOf(r.content) = 0
  BY <1>1, <1>2, <1>3, JournalAssumption DEF SameBinding
<1>4. CASE SizeOf(r.content) # 0
  <2>1. <<r.enc, r.content, SizeOf(r.content)>> = <<q.enc, q.content, SizeOf(q.content)>>
    BY <1>1, <1>4, Names DEF SameBinding, PrefixCrc
  <2> QED BY <2>1
<1> QED BY <1>3, <1>4

LEMMA SearchTells ==
  ASSUME NEW r, NEW q, Kept(r), Asked(q)
  PROVE  Matches(r, q) <=> SameKey(r, q)
<1>1. Kept(q) /\ q.dir \in {"put", "get"}
  BY DEF Asked, Kept, Journals
<1>2. CASE q.dir = "get"
  BY <1>2 DEF Matches, SameKey, Asked
<1>3. CASE q.dir = "put"
  <2>1. ~MetadataUnknown(q)
    BY <1>3 DEF MetadataUnknown
  <2>2. Matches(r, q) => SameKey(r, q)
    BY <1>1, <1>3, <2>1, BindingTells DEF Matches, SameKey
  <2>3. SameKey(r, q) => Matches(r, q)
    BY <1>3 DEF Matches, SameKey, SameBinding
  <2> QED BY <2>2, <2>3
<1> QED BY <1>1, <1>2, <1>3

\* A transfer of its own: no journal that is searched for has its key.
LEMMA AnewKeeps ==
  ASSUME JournalInv, NEW q, Asked(q), NEW resume \in BOOLEAN, task = NoTask,
         Continues(q, resume, 0), StartAnew(q), fresh' = (fresh \/ ~resume),
         UNCHANGED <<local, remote, active>>
  PROVE  JournalInv'
<1> DEFINE id == ids + 1
<1>1. /\ Kept(q) /\ q \in Journals /\ SavedAs(q) = q /\ q.offset = 0
      /\ ids \in Nat /\ id \in Ids /\ id \in Nat /\ id > ids /\ ids' = id
      /\ q.dir \in {"put", "get"}
  <2>1. ids \in 0 .. MaxIds /\ ids < MaxIds /\ MaxIds \in Nat
    BY JournalAssumption DEF JournalInv, TypesOK, StartAnew
  <2>2. SavedAs(q) = q
    BY AskedSaved
  <2> QED BY <2>1, <2>2 DEF Asked, Kept, StartAnew, Ids, Journals
<1>2. /\ Save(id, q) /\ task' = Started(id, q, q, FALSE)
      /\ parts' = IF q.dir = "put" THEN parts ELSE [parts EXCEPT ![id] = NoPart]
  BY DEF StartAnew
<1> HIDE DEF id
<1>3. dir[id] = NoFile /\ parts[id] = NoFile /\ id \notin intended /\ active # id
  BY <1>1 DEF JournalInv, Unused
<1>4. /\ dir' \in [Ids -> Journals \cup {NoFile}]
      /\ dir'[id] = q /\ dir'[id] # NoFile
      /\ \A j \in Ids : j # id => dir'[j] = dir[j]
      /\ JournalsKept' /\ IntentKept'
      /\ intended' \subseteq intended \cup {id}
  BY <1>1, <1>2, <1>3, SaveKeeps DEF JournalInv
<1>5. /\ task' \in Tasks /\ task' # NoTask /\ task'.kind = q.dir /\ task'.id = id
      /\ task'.asked = q /\ task'.rec = q /\ task'.again = FALSE /\ task'.step = "open"
  <2>1. /\ task' \in Tasks /\ task'.kind = q.dir /\ task'.id = id
        /\ task'.asked = q /\ task'.rec = q /\ task'.again = FALSE /\ task'.step = "open"
    BY <1>1, <1>2 DEF Started, Tasks, Steps
  <2> QED BY <2>1, Names
<1>6. /\ parts' \in [Ids -> PartFiles \cup {NoFile}]
      /\ \A j \in Ids : j # id => parts'[j] = parts[j]
      /\ parts'[id] # NoFile => parts'[id] = NoPart
      /\ q.dir = "get" => parts'[id] = NoPart
      /\ NoPart # NoFile /\ NoPart.len = 0
  <2>1. NoPart \in PartFiles /\ NoPart.len = 0
    BY DEF NoPart, PartFiles
  <2> QED BY <1>1, <1>2, <1>3, <2>1, Names DEF JournalInv, TypesOK
<1>7. TypesOK'
  <2>1. ids' \in 0 .. MaxIds
    BY <1>1 DEF Ids
  <2>2. fresh' \in BOOLEAN
    OBVIOUS
  <2>3. intended' \subseteq Ids
    BY <1>1, <1>4 DEF JournalInv, TypesOK
  <2> QED BY <1>4, <1>5, <1>6, <2>1, <2>2, <2>3 DEF JournalInv, TypesOK
<1>8. PartsFit'
  <2> SUFFICES ASSUME NEW j \in Ids, dir'[j] # NoFile, parts'[j] # NoFile
               PROVE  /\ PartFits(dir'[j], parts'[j])
                      /\ active = j => parts'[j].len >= dir'[j].offset
    BY DEF PartsFit
  <2>1. CASE j = id
    BY <1>1, <1>3, <1>4, <1>6, <2>1 DEF PartFits
  <2>2. CASE j # id
    BY <1>4, <1>6, <2>2 DEF JournalInv, PartsFit
  <2> QED BY <2>1, <2>2
<1>9. Unused'
  <2> SUFFICES ASSUME NEW j \in Ids, j > ids'
               PROVE  dir'[j] = NoFile /\ parts'[j] = NoFile /\ j \notin intended' /\ active # j
    BY DEF Unused
  <2>1. j # id /\ j > ids
    BY <1>1 DEF Ids, id
  <2> QED BY <1>4, <1>6, <2>1 DEF JournalInv, Unused
<1>10. TaskFits'
  <2>1. Serves(q, q)
    BY DEF Serves
  <2>2. task'.id <= ids'
    BY <1>1, <1>5
  <2> QED BY <1>1, <1>4, <1>5, <1>6, <2>1, <2>2 DEF TaskFits, Rec
<1>11. KeysUnique'
  <2> SUFFICES ASSUME ~fresh', NEW i \in Ids, NEW j \in Ids,
                      dir'[i] # NoFile, dir'[j] # NoFile, SameKey(dir'[i], dir'[j])
               PROVE  i = j
    BY DEF KeysUnique
  <2>1. resume /\ ~fresh
    OBVIOUS
  <2>2. \A k \in Ids : dir[k] # NoFile => ~SameKey(dir[k], q)
    <3>1. Found(q) = {} /\ LegacyFound(q) = {}
      BY <2>1 DEF Continues, Found, Ids
    <3>2. \A k \in Ids : dir[k] # NoFile => ~Matches(dir[k], q) /\ Kept(dir[k])
      BY <3>1 DEF Found, LegacyFound, JournalInv, JournalsKept
    <3> QED BY <3>2, SearchTells
  <2>3. SameKey(dir'[j], dir'[i])
    BY DEF SameKey
  <2>4. CASE i # id /\ j # id
    BY <1>4, <2>1, <2>4 DEF JournalInv, KeysUnique
  <2>5. CASE i = id /\ j # id
    BY <1>4, <2>2, <2>3, <2>5
  <2>6. CASE i # id /\ j = id
    BY <1>4, <2>2, <2>6
  <2> QED BY <2>4, <2>5, <2>6
<1> QED BY <1>4, <1>7, <1>8, <1>9, <1>10, <1>11 DEF JournalInv

\* A transfer that is continued is one of the file asked for.
LEMMA AgainKeeps ==
  ASSUME JournalInv, NEW q, Asked(q), NEW resume \in BOOLEAN, task = NoTask,
         NEW id \in Ids, Continues(q, resume, id), StartAgain(id, q),
         fresh' = (fresh \/ ~resume), UNCHANGED <<local, remote, active>>
  PROVE  JournalInv'
<1> DEFINE r == [dir[id] EXCEPT !.caller = q.caller]
<1>1. /\ q.dir = "get" => PartStands(id)
      /\ Save(id, r) /\ task' = Started(id, q, r, TRUE)
      /\ UNCHANGED <<ids, parts>>
  BY DEF StartAgain
<1>2. id # 0 /\ ids \in Nat /\ id \in Nat
  BY DEF Ids, JournalInv, TypesOK
<1>3. resume /\ dir[id] # NoFile /\ Matches(dir[id], q)
  BY <1>2 DEF Continues, Found
<1>4. /\ dir[id] \in Journals /\ Kept(dir[id]) /\ q \in Journals /\ SameKey(dir[id], q)
      /\ dir[id].caller = q.caller /\ dir[id].offset \in Nat
  BY <1>3, SearchTells DEF JournalInv, JournalsKept, Kept, SameKey, Asked, Journals
<1>5. /\ r \in Journals /\ r.dir = dir[id].dir /\ r.enc = dir[id].enc
      /\ r.content = dir[id].content /\ r.path = dir[id].path /\ r.caller = dir[id].caller
      /\ r.offset = dir[id].offset
  BY <1>4 DEF Journals
<1> HIDE DEF r
<1>6. Kept(r) /\ (MetadataUnknown(r) <=> MetadataUnknown(dir[id]))
  BY <1>4, <1>5 DEF Kept, MetadataUnknown
<1>7. /\ dir' \in [Ids -> Journals \cup {NoFile}]
      /\ dir'[id] = SavedAs(r) /\ dir'[id] # NoFile
      /\ \A j \in Ids : j # id => dir'[j] = dir[j]
      /\ JournalsKept' /\ IntentKept'
      /\ intended' \subseteq intended \cup {id}
  BY <1>1, <1>3, <1>6, SaveKeeps DEF JournalInv
<1>8. /\ dir'[id].offset = dir[id].offset /\ dir'[id].content = dir[id].content
      /\ SameKey(dir[id], dir'[id])
      /\ MetadataUnknown(dir'[id]) <=> MetadataUnknown(dir[id])
  BY <1>5, <1>6, <1>7, SavedFields DEF MetadataUnknown, SameKey
<1>9. /\ task' \in Tasks /\ task' # NoTask /\ task'.kind = q.dir /\ task'.id = id
      /\ task'.asked = q /\ task'.rec = r /\ task'.again = TRUE /\ task'.step = "open"
  <2>1. q.dir \in {"put", "get"}
    BY <1>4 DEF Journals
  <2>2. /\ task' \in Tasks /\ task'.kind = q.dir /\ task'.id = id
        /\ task'.asked = q /\ task'.rec = r /\ task'.again = TRUE /\ task'.step = "open"
    BY <1>1, <1>4, <1>5, <2>1 DEF Started, Tasks, Steps
  <2> QED BY <2>2, Names
<1>10. TypesOK'
  <2>1. intended' \subseteq Ids /\ fresh' \in BOOLEAN
    BY <1>7 DEF JournalInv, TypesOK
  <2> QED BY <1>1, <1>7, <1>9, <2>1 DEF JournalInv, TypesOK
<1>11. PartsFit'
  <2> SUFFICES ASSUME NEW j \in Ids, dir'[j] # NoFile, parts[j] # NoFile
               PROVE  /\ PartFits(dir'[j], parts[j])
                      /\ active = j => parts[j].len >= dir'[j].offset
    BY <1>1 DEF PartsFit
  <2>1. dir[j] # NoFile /\ dir'[j].offset = dir[j].offset /\ dir'[j].content = dir[j].content
        /\ (MetadataUnknown(dir'[j]) <=> MetadataUnknown(dir[j]))
    BY <1>3, <1>7, <1>8
  <2> QED BY <2>1 DEF JournalInv, PartsFit, PartFits
<1>12. id <= ids
  BY <1>2, <1>3 DEF JournalInv, Unused
<1>13. Unused'
  <2> SUFFICES ASSUME NEW j \in Ids, j > ids
               PROVE  dir'[j] = NoFile /\ parts[j] = NoFile /\ j \notin intended' /\ active # j
    BY <1>1 DEF Unused
  <2>1. j # id
    BY <1>2, <1>12 DEF Ids
  <2> QED BY <1>7, <2>1 DEF JournalInv, Unused
<1>14. TaskFits'
  <2>1. Serves(r, q)
    BY <1>4, <1>5 DEF Serves, SameKey
  <2>2. q.dir = "get" => parts[id] # NoFile /\ parts[id].len >= r.offset
    BY <1>1, <1>5 DEF PartStands
  <2>3. r.dir = q.dir
    BY <1>4, <1>5 DEF SameKey
  <2> QED BY <1>1, <1>7, <1>9, <1>12, <2>1, <2>2, <2>3 DEF TaskFits, Rec
<1>15. KeysUnique'
  <2>1. fresh' = fresh
    BY <1>3 DEF JournalInv, TypesOK
  <2> QED BY <1>3, <1>7, <1>8, <2>1, KeysKept DEF JournalInv
<1> QED BY <1>7, <1>10, <1>11, <1>13, <1>14, <1>15 DEF JournalInv

LEMMA CallKeeps ==
  ASSUME JournalInv, NEW q, Asked(q), NEW resume \in BOOLEAN, StartCall(q, resume)
  PROVE  JournalInv'
<1>1. /\ task = NoTask /\ fresh' = (fresh \/ ~resume)
      /\ UNCHANGED <<local, remote, active>>
  BY DEF StartCall
<1>2. PICK id \in 0 .. MaxIds :
        /\ Continues(q, resume, id)
        /\ IF id = 0 THEN StartAnew(q) ELSE StartAgain(id, q)
  BY DEF StartCall
<1>3. CASE id = 0
  BY <1>1, <1>2, <1>3, AnewKeeps
<1>4. CASE id # 0
  <2>1. id \in Ids
    BY <1>4, JournalAssumption DEF Ids
  <2> QED BY <1>1, <1>2, <1>4, <2>1, AgainKeeps
<1> QED BY <1>3, <1>4

LEMMA NextKeeps ==
  ASSUME JournalInv, [JournalNext]_journalVars
  PROVE  JournalInv'
<1>1. ASSUME NEW l \in Locals, NEW t \in Targets, NEW resume \in BOOLEAN,
             GetFile(t, l, resume)
      PROVE  JournalInv'
  BY <1>1, CallsAsk, CallKeeps DEF GetFile
<1>2. ASSUME NEW l \in Locals, NEW t \in Targets, NEW resume \in BOOLEAN,
             NEW enc \in Encodings, PutFile(l, t, enc, resume)
      PROVE  JournalInv'
  BY <1>2, CallsAsk, CallKeeps DEF PutFile
<1>3. CASE UNCHANGED journalVars
  BY <1>3 DEF journalVars, JournalInv, TypesOK, JournalsKept, PartsFit, Unused, TaskFits,
              IntentKept, KeysUnique, Rec
<1> QED
  BY <1>1, <1>2, <1>3, AttachKeeps, OpenKeeps, BindKeeps, BlockKeeps, CheckpointKeeps,
     IntendKeeps, MarkKeeps, PublishKeeps, LinkKeeps, UnlinkKeeps, RemoveKeeps, FailKeeps,
     EditKeeps
     DEF JournalNext

----------------------------------------------------------------------------
\* What the invariant is for.

\* A journal that was saved is one that opens: TransferDescriptor and the agent
\* check again what save checked.
LEMMA KeptOpens ==
  ASSUME NEW r, Kept(r), Storable(r)
  PROVE  LET d == Opened(Descriptor(r, TRUE)) IN
         DescriptorHolds(d) /\ (d.path # BadTarget => AgentOpens(d))
<1> DEFINE size == SizeOf(r.content)
           crc == PrefixCrc(r.enc, r.content, size)
           prefix == PrefixCrc(r.enc, r.content, r.offset)
           finalCrc == PrefixCrc("raw", r.content, size)
           d == Opened(Descriptor(r, TRUE))
<1>1. /\ d.dir = r.dir /\ d.enc = r.enc /\ d.path = r.path /\ d.size = size /\ d.crc = crc
      /\ d.final = size /\ d.finalCrc = finalCrc /\ d.offset = r.offset /\ d.prefix = prefix
      /\ d.resume = TRUE /\ d.replay = r.intent
  <2>1. r.intent \in BOOLEAN
    BY DEF Kept, Journals
  <2> QED BY <2>1 DEF Opened, Descriptor
<1>2. r.offset = 0 => prefix = ZeroCrc
  BY DEF PrefixCrc
<1>3. size = 0 => crc = ZeroCrc /\ finalCrc = ZeroCrc
  BY DEF PrefixCrc
<1>4. r.enc = "raw" => crc = finalCrc
  OBVIOUS
<1>5. r.offset = size => prefix = crc
  OBVIOUS
<1>6. /\ r.dir \in {"put", "get"} /\ r.enc \in {"raw", "packbits"}
      /\ r.dir = "get" => r.enc = "raw"
      /\ r.offset <= size \/ (r.dir = "get" /\ size = 0)
      /\ r.intent => r.dir = "put" /\ r.offset = size
  BY DEF Kept, Journals, Encodings, Storable, MetadataUnknown
<1> HIDE DEF size, crc, prefix, finalCrc, d
<1>7. DescriptorHolds(d)
  BY <1>1, <1>2, <1>3, <1>4, <1>5, <1>6 DEF DescriptorHolds
<1>8. d.path # BadTarget => AgentOpens(d)
  BY <1>1, <1>4, <1>5, <1>6 DEF AgentOpens
<1> QED BY <1>7, <1>8 DEF d

LEMMA InvFaithful == JournalInv => JournalsAreFaithful
<1> SUFFICES ASSUME JournalInv PROVE JournalsAreFaithful
  OBVIOUS
<1>1. (\A l \in Locals : local[l] # Mixed) /\ (\A t \in Targets : remote[t] # Mixed)
  BY Names DEF JournalInv, TypesOK
<1>2. JournalsOpen
  BY KeptOpens DEF JournalInv, JournalsKept, JournalsOpen
<1>3. WorksForCaller
  <2> SUFFICES ASSUME task.kind # "none"
               PROVE  /\ dir[task.id] # NoFile /\ SameBinding(dir[task.id], Rec)
                      /\ Rec.caller = task.asked.caller /\ Rec.path = task.asked.path
                      /\ task.kind = "put" => Rec.content = task.asked.content
    BY DEF WorksForCaller
  <2>1. task # NoTask
    BY Names
  <2>2. Serves(Rec, task.asked) /\ task.kind = Rec.dir
    BY <2>1 DEF JournalInv, TaskFits
  <2>3. dir[task.id] # NoFile /\ SameKey(dir[task.id], Rec)
        /\ dir[task.id].content = Rec.content
    BY <2>1, TaskFacts
  <2>4. SameBinding(dir[task.id], Rec)
    BY <2>3 DEF SameBinding, SameKey
  <2> QED BY <2>2, <2>3, <2>4 DEF Serves
<1>4. \A id \in intended : dir[id] # NoFile => dir[id].intent
  BY DEF JournalInv, IntentKept
<1>5. ~fresh => OneJournal
  <2> SUFFICES ASSUME ~fresh, NEW i \in Ids, NEW j \in Ids,
                      dir[i] # NoFile, dir[j] # NoFile, Matches(dir[i], dir[j])
               PROVE  i = j
    BY DEF OneJournal
  <2>1. Kept(dir[i]) /\ Kept(dir[j])
    BY DEF JournalInv, JournalsKept
  <2>2. SameKey(dir[i], dir[j])
    <3>1. dir[i].dir = "put" => ~MetadataUnknown(dir[j])
      BY DEF Matches, MetadataUnknown
    <3>2. dir[i].dir = "put" => dir[i].content = dir[j].content
      BY <2>1, <3>1, BindingTells DEF Matches
    <3> QED BY <3>2 DEF Matches, SameKey
  <2> QED BY <2>2 DEF JournalInv, KeysUnique
<1> QED BY <1>1, <1>2, <1>3, <1>4, <1>5 DEF JournalsAreFaithful

\* Interrupted transfers are continued for what they were (find_matching, save,
\* resumed_descriptor): whatever files there are and whatever is done to them,
\* no file joins two versions, a call works for its own file, every journal
\* opens again, a close intent is never taken back, and without resume=False
\* no search finds two.
THEOREM ResumeIsFaithful == JournalSpec => []JournalsAreFaithful
<1>1. JournalInit => JournalInv
  BY InitKeeps
<1>2. JournalInv /\ [JournalNext]_journalVars => JournalInv'
  BY NextKeeps
<1>3. JournalInv => JournalsAreFaithful
  BY InvFaithful
<1> QED BY <1>1, <1>2, <1>3, PTL DEF JournalSpec

----------------------------------------------------------------------------
\* Memory and ports.

AccessFields == {"kind", "addr", "n", "list", "out", "done", "state"}
MemoryKinds == {"r", "p", "v", "w"}
AccessKinds == MemoryKinds \cup {"none", "i", "o", "verified"}
AccessStates == {"idle", "refused", "busy", "done", "rejected", "lost"}

TargetFits ==
  /\ runtime \in {"resident", "foreground"} /\ framed \in BOOLEAN /\ banks \in {1, 4, MaxBanks}
AccessFits ==
  /\ access = [f \in AccessFields |-> access[f]]
  /\ access.kind \in AccessKinds /\ access.state \in AccessStates /\ access.done \in Nat
  /\ access.kind = "none" => access = NoAccess
\* What the host let through, and how far it is.
RangeFits ==
  access.kind \in MemoryKinds =>
    /\ access.addr \in Nat /\ access.n \in Nat
    /\ access.state # "refused" => HostAllows(access.kind, access.addr, access.n)
    /\ access.state = "refused" => access.done = 0
    /\ access.state = "busy" => access.done < access.n

\* The first request of a read finds the memory as it was, and a later one
\* all but what is in the buffer now.
InBuffer(a) == Buffered /\ a \in Buffer .. Buffer + RequestLimit("r") - 1
ReadFits ==
  /\ ram \in [Ram -> Int] /\ access.out \in Seq(Int) /\ Held(RamAt0)
  /\ \A a \in Ram : ram[a] = RamAt0[a] \/ InBuffer(a)
  /\ access.state = "busy" => ram = RamAt0 \/ access.done >= RequestLimit("r")
ContentsFit ==
  /\ access.kind \notin {"p", "r"} => ram = RamAt0
  /\ access.kind # "w" => vram = VramAt0
  /\ access.kind \notin {"o", "verified"} => io = IoAt0
  /\ access.kind = "r" => ReadFits
  /\ access.kind = "p" => \E i \in Progress : ram = Prefix(RamAt0, i)
  /\ access.kind = "v" /\ InCapacity => access.out \in Seq(Int) /\ Held(VramAt0)
  /\ access.kind = "w" /\ InCapacity => \E i \in Progress : vram = Prefix(VramAt0, i)
  /\ access.kind \in {"o", "verified"} => \E i \in PortProgress : io = PortsAfter(i)
  /\ access.state = "rejected" => access.kind = "verified"
AccessInv == TargetFits /\ AccessFits /\ RangeFits /\ ContentsFit

----------------------------------------------------------------------------
\* Arithmetic of the requests.

\* The least and the greatest of a set, when one is known.
LEMMA LeastIs ==
  ASSUME NEW S, S \subseteq Int, NEW m \in S, \A y \in S : m <= y
  PROVE  Min(S) = m
<1>1. \E x \in S : \A y \in S : x <= y  OBVIOUS
<1>2. Min(S) = CHOOSE x \in S : \A y \in S : x =< y  BY DEF Min
<1>3. Min(S) \in S /\ \A y \in S : Min(S) <= y  BY <1>1, <1>2
<1>4. Min(S) <= m /\ m <= Min(S)  BY <1>3
<1>5. Min(S) \in Int /\ m \in Int  BY <1>3
<1> QED BY <1>4, <1>5

LEMMA GreatestIs ==
  ASSUME NEW S, S \subseteq Int, NEW m \in S, \A y \in S : m >= y
  PROVE  Max(S) = m
<1>1. \E x \in S : \A y \in S : x >= y  OBVIOUS
<1>2. Max(S) = CHOOSE x \in S : \A y \in S : x >= y  BY DEF Max
<1>3. Max(S) \in S /\ \A y \in S : Max(S) >= y  BY <1>1, <1>2
<1>4. Max(S) >= m /\ m >= Max(S)  BY <1>3
<1>5. Max(S) \in Int /\ m \in Int  BY <1>3
<1> QED BY <1>4, <1>5

LEMMA LeastOfThree ==
  ASSUME NEW x \in Int, NEW y \in Int, NEW z \in Int
  PROVE  /\ Min({x, y, z}) \in {x, y, z}
         /\ Min({x, y, z}) <= x /\ Min({x, y, z}) <= y /\ Min({x, y, z}) <= z
<1>1. CASE x <= y /\ x <= z  BY <1>1, LeastIs
<1>2. CASE y <= x /\ y <= z  BY <1>2, LeastIs
<1>3. CASE z <= x /\ z <= y  BY <1>3, LeastIs
<1> QED BY <1>1, <1>2, <1>3

\* A multiple of a number is less than it in size only when it is zero.
LEMMA SmallMultiple ==
  ASSUME NEW b \in Nat \ {0}, NEW d \in Int, d * b < b, -b < d * b
  PROVE  d = 0
<1>1. CASE d >= 1
  <2>1. PICK e \in Nat : d = e + 1  BY <1>1
  <2>2. d * b = e * b + b  BY <2>1
  <2>3. e * b >= 0  OBVIOUS
  <2> QED BY <2>2, <2>3
<1>2. CASE d <= -1
  <2>1. PICK e \in Nat : d = -1 - e  BY <1>2
  <2>2. d * b = -b - e * b  BY <2>1
  <2>3. e * b >= 0  OBVIOUS
  <2> QED BY <2>2, <2>3
<1> QED BY <1>1, <1>2

LEMMA Divided ==
  ASSUME NEW h \in Nat, NEW b \in Nat \ {0}
  PROVE  /\ h \div b \in Nat /\ h % b \in 0 .. b - 1
         /\ h = (h \div b) * b + (h % b)
BY SMT

LEMMA Remainder ==
  ASSUME NEW h \in Nat, NEW b \in Nat \ {0}, NEW q \in Nat, NEW r \in 0 .. b - 1,
         h = q * b + r
  PROVE  h % b = r /\ h \div b = q
<1>1. PICK p \in Nat : p = h \div b  BY Divided
<1>2. PICK s \in 0 .. b - 1 : s = h % b  BY Divided
<1>3. h = p * b + s  BY Divided, <1>1, <1>2
<1>4. (p - q) * b = p * b - q * b  OBVIOUS
<1>5. PICK m \in Int : m = p * b  OBVIOUS
<1>6. PICK n \in Int : n = q * b  OBVIOUS
<1>7. (p - q) * b < b /\ -b < (p - q) * b  BY <1>3, <1>4, <1>5, <1>6
<1>8. p - q = 0  BY SmallMultiple, <1>7
<1>9. p = q  BY <1>8
<1> QED BY <1>1, <1>2, <1>3, <1>9

LEMMA SmallRemainder ==
  ASSUME NEW b \in Nat \ {0}, NEW i \in 0 .. b - 1
  PROVE  i % b = i
BY Remainder, i = 0 * b + i

\* The counter of the VDP meets no seam within a bank.
LEMMA AddressInBank ==
  ASSUME AccessAssumption, NEW h \in Nat, NEW i \in Nat, (h % BankSize) + i < BankSize
  PROVE  VdpAddress(h, i) = h + i
<1>0. BankSize \in Nat \ {0}  BY DEF AccessAssumption
<1>1. PICK p \in Nat : p = h \div BankSize  BY Divided, <1>0
<1>2. PICK s \in 0 .. BankSize - 1 : s = h % BankSize  BY Divided, <1>0
<1>3. h = p * BankSize + s  BY Divided, <1>0, <1>1, <1>2
<1>4. s + i \in 0 .. BankSize - 1  BY <1>0, <1>2
<1>5. h + i = p * BankSize + (s + i)  BY <1>0, <1>3
<1>6. (h + i) % BankSize = s + i  BY Remainder, <1>0, <1>4, <1>5, h + i \in Nat
<1> QED BY <1>0, <1>1, <1>5, <1>6 DEF VdpAddress

\* An address below the end of the installed banks is in one of them.
LEMMA BankOf ==
  ASSUME NEW h \in Nat, NEW b \in Nat \ {0}, NEW m \in Nat, h < m * b
  PROVE  h \div b < m
<1>1. PICK p \in Nat : p = h \div b  BY Divided
<1>2. PICK s \in 0 .. b - 1 : s = h % b  BY Divided
<1>3. h = p * b + s  BY Divided, <1>1, <1>2
<1>4. SUFFICES ASSUME p >= m PROVE FALSE  BY <1>1
<1>5. PICK e \in Nat : p = m + e  BY <1>4
<1>6. p * b = m * b + e * b  BY <1>5
<1>7. e * b >= 0  OBVIOUS
<1> QED BY <1>2, <1>3, <1>6, <1>7

----------------------------------------------------------------------------
\* A request and what the host and the agent allow.

LEMMA LimitFacts ==
  ASSUME AccessAssumption, TargetFits
  PROVE  \A kind \in MemoryKinds : RequestLimit(kind) \in Nat \ {0}
BY DEF AccessAssumption, RequestLimit, MemoryKinds, TargetFits

LEMMA RequestFits ==
  ASSUME AccessAssumption, TargetFits, RangeFits,
         access.kind \in MemoryKinds, access.state = "busy", access.done \in Nat
  PROVE  /\ access.addr + access.done \in Nat
         /\ access.n \in Nat /\ access.done < access.n
         /\ NextSize \in Nat \ {0}
         /\ access.done + NextSize <= access.n
         /\ NextSize <= RequestLimit(access.kind)
         /\ NextSize <= Boundary(access.kind, access.addr + access.done)
         /\ NextSize = access.n - access.done \/ NextSize = RequestLimit(access.kind)
              \/ NextSize = Boundary(access.kind, access.addr + access.done)
<1>1. access.addr \in Nat /\ access.n \in Nat /\ access.done < access.n
  BY DEF RangeFits
<1>2. PICK h \in Nat : h = access.addr + access.done  BY <1>1
<1>3. PICK l \in Nat \ {0} : l = RequestLimit(access.kind)  BY LimitFacts
<1>4. PICK b \in Nat \ {0} : b = Boundary(access.kind, h)
  <2>1. RamSize \in Nat \ {0} /\ BankSize \in Nat \ {0}  BY DEF AccessAssumption
  <2>2. h % BankSize \in 0 .. BankSize - 1  BY <2>1, Divided
  <2> QED BY <2>1, <2>2 DEF Boundary
<1>5. PICK m \in Nat \ {0} : m = access.n - access.done  BY <1>1
<1>6. NextSize = Min({m, l, b})  BY <1>2, <1>3, <1>4, <1>5 DEF NextSize
<1>7. Min({m, l, b}) \in {m, l, b} /\ Min({m, l, b}) <= m /\ Min({m, l, b}) <= l
      /\ Min({m, l, b}) <= b
  <2>1. m \in Int /\ l \in Int /\ b \in Int  OBVIOUS
  <2> QED BY <2>1, LeastOfThree
<1>8. NextSize \in Nat \ {0} /\ NextSize <= m /\ NextSize <= l /\ NextSize <= b
      /\ (NextSize = m \/ NextSize = l \/ NextSize = b)
  BY <1>6, <1>7
<1>9. access.done + NextSize <= access.n  BY <1>1, <1>5, <1>8
<1> QED BY <1>1, <1>2, <1>3, <1>4, <1>5, <1>8, <1>9

\* The agent lets every request of an access through that the host let through.
LEMMA RamLetThrough ==
  ASSUME AccessAssumption, TargetFits, RangeFits,
         access.kind \in {"r", "p"}, access.state = "busy", access.done \in Nat
  PROVE  /\ RamAllowed(access.kind, access.addr + access.done, NextSize)
         /\ access.addr + access.n <= RamSize
<1> DEFINE h == access.addr + access.done
<1>1. access.kind \in MemoryKinds  BY DEF MemoryKinds
<1>2. access.addr \in Nat /\ access.n \in Nat /\ HostAllows(access.kind, access.addr, access.n)
  BY <1>1 DEF RangeFits
<1>3. NextSize \in Nat \ {0} /\ access.done + NextSize <= access.n /\ h \in Nat
  BY <1>1, RequestFits
<1>4. RamSize \in Nat /\ ResBase \in Nat  BY DEF AccessAssumption
<1>5. h .. h + NextSize - 1 \subseteq access.addr .. access.addr + access.n - 1
  BY <1>2, <1>3
<1>6. access.addr + access.n <= RamSize /\ h + NextSize <= RamSize
  <2>1. access.addr + access.n <= RamSize  BY <1>2 DEF HostAllows
  <2> QED BY <2>1, <1>2, <1>3, <1>4
<1>7. runtime = "resident" => ~Overlaps(h, NextSize, Page1)
  <2>1. runtime = "resident" => ~Overlaps(access.addr, access.n, Page1)
    BY <1>2 DEF HostAllows
  <2> QED BY <2>1, <1>5 DEF Overlaps
<1>8. access.kind = "p" /\ runtime = "foreground" => h < ResBase /\ h + NextSize <= ResBase
  BY <1>2, <1>3, <1>4 DEF HostAllows
<1> QED BY <1>6, <1>7, <1>8 DEF RamAllowed

LEMMA VramLetThrough ==
  ASSUME AccessAssumption, ~OlderClient, TargetFits, RangeFits,
         access.kind \in {"v", "w"}, access.state = "busy", access.done \in Nat
  PROVE  /\ VramAllowed(access.addr + access.done, NextSize)
         /\ \A i \in 0 .. NextSize - 1 :
              VdpAddress(access.addr + access.done, i) = access.addr + access.done + i
<1> DEFINE h == access.addr + access.done
<1>1. access.kind \in MemoryKinds  BY DEF MemoryKinds
<1>2. access.addr \in Nat /\ access.n \in Nat /\ HostAllows(access.kind, access.addr, access.n)
  BY <1>1 DEF RangeFits
<1>3. NextSize \in Nat \ {0} /\ access.done + NextSize <= access.n /\ h \in Nat
      /\ NextSize <= Boundary(access.kind, h)
  BY <1>1, RequestFits
<1>4. BankSize \in Nat \ {0}  BY DEF AccessAssumption
<1>5. PICK s \in 0 .. BankSize - 1 : s = h % BankSize  BY <1>3, <1>4, Divided
<1>6. s + NextSize <= BankSize  BY <1>3, <1>4, <1>5 DEF Boundary
<1>7. \A i \in 0 .. NextSize - 1 : VdpAddress(h, i) = h + i
  <2> TAKE i \in 0 .. NextSize - 1
  <2>1. i \in Nat /\ (h % BankSize) + i < BankSize  BY <1>3, <1>4, <1>5, <1>6
  <2> QED BY <2>1, <1>3, AddressInBank
<1>8. framed => h \div BankSize <= banks
  <2> SUFFICES ASSUME framed PROVE h \div BankSize <= banks  OBVIOUS
  <2>1. banks \in Nat  BY DEF TargetFits, MaxBanks
  <2>2. access.addr + access.n <= banks * BankSize
    BY <1>2 DEF HostAllows, VramSize
  <2>3. PICK c \in Nat : c = banks * BankSize  BY <2>1, <1>4
  <2>4. h < banks * BankSize  BY <2>2, <2>3, <1>2, <1>3
  <2>5. h \div BankSize < banks  BY <2>1, <2>4, <1>3, <1>4, BankOf
  <2>6. h \div BankSize \in Nat  BY <1>3, <1>4, Divided
  <2> QED BY <2>1, <2>5, <2>6
<1> QED BY <1>5, <1>6, <1>7, <1>8 DEF VramAllowed

----------------------------------------------------------------------------
\* What a step leaves of the access.

\* The range is the same one as long as target and bounds are.
LEMMA SameRange ==
  ASSUME UNCHANGED <<runtime, framed, banks>>, access'.kind = access.kind,
         access'.addr = access.addr, access'.n = access.n, RangeFits,
         access'.done \in Nat,
         access.kind \in MemoryKinds =>
           /\ access.state # "refused" /\ access'.state # "refused"
           /\ access'.state = "busy" => access'.done < access'.n
  PROVE  RangeFits'
<1>1. access.kind \in MemoryKinds => access.addr \in Nat /\ access.n \in Nat
        /\ HostAllows(access.kind, access.addr, access.n)
  BY DEF RangeFits
<1>2. \A kind, addr, n : HostAllows(kind, addr, n) <=> HostAllows(kind, addr, n)'
  BY DEF HostAllows, VramSize
<1>3. access.kind \in MemoryKinds =>
        HostAllows(access.kind, access.addr, access.n)'
  BY <1>1, <1>2
<1> QED BY <1>1, <1>3 DEF RangeFits

LEMMA MovedKeeps ==
  ASSUME AccessFits, RangeFits, UNCHANGED <<runtime, framed, banks>>,
         access.state = "busy", NEW n \in Nat \ {0}, NEW bytes, Moved(n, bytes),
         access.kind \in MemoryKinds => access.done + n <= access.n
  PROVE  /\ AccessFits' /\ RangeFits'
         /\ access'.kind = access.kind /\ access'.addr = access.addr
         /\ access'.n = access.n /\ access'.list = access.list
         /\ access'.done = access.done + n /\ access'.out = access.out \o bytes
         /\ access'.state \in {"busy", "done"}
         /\ access'.state = "busy" => access.done + n # access.n
<1>1. /\ access'.kind = access.kind /\ access'.addr = access.addr
      /\ access'.n = access.n /\ access'.list = access.list
      /\ access'.done = access.done + n /\ access'.out = access.out \o bytes
      /\ access'.state = IF access.done + n = access.n THEN "done" ELSE "busy"
      /\ access' = [f \in AccessFields |-> access'[f]]
  BY DEF Moved, AccessFits, AccessFields
<1>2. access.done \in Nat /\ access.kind # "none"
  BY DEF AccessFits, NoAccess
<1>3. AccessFits'
  BY <1>1, <1>2 DEF AccessFits, AccessStates
<1>4. access.kind \in MemoryKinds => access.n \in Nat  BY DEF RangeFits
<1>5. access'.done \in Nat  BY <1>1, <1>2
<1>6. access.kind \in MemoryKinds /\ access'.state = "busy" => access'.done < access'.n
  BY <1>1, <1>2, <1>4
<1>7. RangeFits'
  BY <1>1, <1>5, <1>6, SameRange
<1> QED BY <1>1, <1>3, <1>7

LEMMA EndedKeeps ==
  ASSUME AccessFits, RangeFits, UNCHANGED <<runtime, framed, banks>>,
         access.state = "busy", NEW s \in {"rejected", "lost"},
         access' = [access EXCEPT !.state = s]
  PROVE  /\ AccessFits' /\ RangeFits'
         /\ access'.kind = access.kind /\ access'.addr = access.addr
         /\ access'.n = access.n /\ access'.list = access.list
         /\ access'.done = access.done /\ access'.out = access.out
         /\ access'.state = s
<1>1. /\ access'.kind = access.kind /\ access'.addr = access.addr
      /\ access'.n = access.n /\ access'.list = access.list
      /\ access'.done = access.done /\ access'.out = access.out
      /\ access'.state = s
      /\ access' = [f \in AccessFields |-> access'[f]]
  BY DEF AccessFits, AccessFields
<1>2. access.done \in Nat /\ access.kind # "none"
  BY DEF AccessFits, NoAccess
<1>3. AccessFits'
  BY <1>1, <1>2 DEF AccessFits, AccessStates
<1>4. RangeFits'
  BY <1>1, <1>2, SameRange
<1> QED BY <1>1, <1>3, <1>4

----------------------------------------------------------------------------
\* Reads.

LEMMA BytesOf ==
  ASSUME NEW n \in Nat, NEW t \in [1 .. n -> Int]
  PROVE  t \in Seq(Int) /\ n = Len(t)
OBVIOUS

LEMMA LongerBytes ==
  ASSUME NEW s \in Seq(Int), NEW t \in Seq(Int)
  PROVE  /\ s \o t \in Seq(Int) /\ Len(s \o t) = Len(s) + Len(t)
         /\ \A i \in 1 .. Len(s) : (s \o t)[i] = s[i]
         /\ \A i \in 1 .. Len(t) : (s \o t)[Len(s) + i] = t[i]
<1>1. s \o t \in Seq(Int) /\ Len(s \o t) = Len(s) + Len(t)  OBVIOUS
<1>2. \A i \in 1 .. Len(s) : (s \o t)[i] = s[i]  OBVIOUS
<1>3. \A i \in 1 .. Len(t) : (s \o t)[Len(s) + i] = t[i]
  <2> TAKE i \in 1 .. Len(t)
  <2>1. PICK k \in Nat : k = Len(s)  OBVIOUS
  <2>2. k + i \in 1 .. k + Len(t) /\ ~(k + i <= k) /\ (k + i) - k = i  BY <2>1
  <2>3. (s \o t)[k + i] = t[(k + i) - k]  BY <2>1, <2>2
  <2> QED BY <2>1, <2>2, <2>3
<1> QED BY <1>1, <1>2, <1>3

\* Byte i of a read is byte j of its last request.
LEMMA ByteOfRequest ==
  \A d, n, e \in Nat : \A i \in 1 .. d + n : ~(i <= d) =>
    \E j \in 1 .. n : i = d + j /\ e + d + j - 1 = e + i - 1
<1> SUFFICES ASSUME NEW d \in Nat, NEW n \in Nat, NEW e \in Nat, NEW i \in 1 .. d + n, ~(i <= d)
             PROVE  \E j \in 1 .. n : i = d + j /\ e + d + j - 1 = e + i - 1
  OBVIOUS
<1>1. i - d \in 1 .. n /\ i = d + (i - d) /\ e + d + (i - d) - 1 = e + i - 1
  OBVIOUS
<1> QED BY <1>1

LEMMA HeldGrows ==
  ASSUME AccessAssumption, TargetFits, NEW m, Held(m), access.out \in Seq(Int),
         access.done \in Nat, access.addr \in Nat,
         UNCHANGED <<runtime, framed, banks>>, NEW bytes \in Seq(Int), NEW n \in Nat,
         n = Len(bytes),
         access'.kind = access.kind, access'.addr = access.addr,
         access'.done = access.done + n, access'.out = access.out \o bytes,
         \A i \in 1 .. n :
           \/ bytes[i] = m[access.addr + access.done + i - 1]
           \/ /\ Buffered /\ access.kind = "r" /\ access.done >= RequestLimit("r")
              /\ access.addr + access.done + i - 1 \in Buffer .. Buffer + RequestLimit("r") - 1
  PROVE  access'.out \in Seq(Int) /\ Held(m)'
<1>1. Len(access.out) = access.done  BY DEF Held
<1>2. PICK s \in Seq(Int) : s = access.out  OBVIOUS
<1>3. PICK d \in Nat : d = access.done  OBVIOUS
<1>4. PICK o \in Seq(Int) : o = s \o bytes
  BY LongerBytes
<1>5. /\ Len(o) = d + n /\ \A i \in 1 .. d : o[i] = s[i]
      /\ \A i \in 1 .. n : o[d + i] = bytes[i]
  <2>1. Len(s) = d  BY <1>1, <1>2, <1>3
  <2>2. /\ Len(o) = Len(s) + Len(bytes) /\ \A i \in 1 .. Len(s) : o[i] = s[i]
        /\ \A i \in 1 .. Len(bytes) : o[Len(s) + i] = bytes[i]
    BY <1>4, LongerBytes
  <2> QED BY <2>1, <2>2
<1>6. access'.out = o /\ access'.done = d + n  BY <1>2, <1>3, <1>4
<1>7. PICK l \in Nat : l = RequestLimit("r")  BY LimitFacts DEF MemoryKinds
<1>8. RequestLimit("r")' = l /\ (Buffered' <=> Buffered)
  BY <1>7 DEF RequestLimit, Buffered
<1>9. \A i \in 1 .. d + n :
       \/ o[i] = m[access.addr + i - 1]
       \/ /\ Buffered /\ access.kind = "r" /\ i > l
          /\ access.addr + i - 1 \in Buffer .. Buffer + l - 1
  <2> TAKE i \in 1 .. d + n
  <2>1. CASE i <= d
    BY <2>1, <1>2, <1>3, <1>5, <1>7 DEF Held
  <2>2. CASE ~(i <= d)
    <3>1. PICK j \in 1 .. n : i = d + j /\ access.addr + d + j - 1 = access.addr + i - 1
      <4>1. PICK e \in Nat : e = access.addr  OBVIOUS
      <4>2. \E j \in 1 .. n : i = d + j /\ e + d + j - 1 = e + i - 1
        BY <2>2, ByteOfRequest
      <4> QED BY <4>1, <4>2
    <3>2. o[i] = bytes[j]  BY <3>1, <1>5
    <3>4. access.addr + access.done + j - 1 = access.addr + i - 1  BY <3>1, <1>3
    <3>3. access.done >= l => i > l
      <4>1. i \in Int /\ d \in Int /\ l \in Int /\ d < i  BY <2>2
      <4>2. d >= l => i > l  BY <4>1
      <4> QED BY <4>2, <1>3
    <3> QED BY <3>2, <3>3, <3>4, <1>7
  <2> QED BY <2>1, <2>2
<1>10. Held(m)'  BY <1>5, <1>6, <1>8, <1>9 DEF Held
<1> QED BY <1>6, <1>10

\* A copy into the buffer keeps what it copies, whatever way it runs.
LEMMA CopyHolds ==
  ASSUME AccessAssumption, NEW h \in Nat, NEW n \in Nat, h + n <= RamSize,
         NEW i \in 0 .. n - 1
  PROVE  CopiedFrom(h, n, i) = h + i
<1>1. CASE CopyUp(h, n) /\ h < Buffer
  <2>1. Buffer \in Nat /\ h + n <= Buffer  BY <1>1 DEF CopyUp, AccessAssumption
  <2>2. Buffer - h \in Nat \ {0} /\ i \in 0 .. (Buffer - h) - 1  BY <2>1, <1>1
  <2>3. i % (Buffer - h) = i  BY <2>2, SmallRemainder
  <2> QED BY <1>1, <2>3 DEF CopiedFrom
<1>2. CASE ~(CopyUp(h, n) /\ h < Buffer)
  BY <1>2 DEF CopiedFrom
<1> QED BY <1>1, <1>2

LEMMA ReadRamKeeps ==
  ASSUME AccessAssumption, AccessInv, ReadRam
  PROVE  AccessInv'
<1> DEFINE h == access.addr + access.done
<1> DEFINE n == NextSize
<1> DEFINE bytes == [i \in 1 .. n |-> ram[h + i - 1]]
<1>1. TargetFits /\ AccessFits /\ RangeFits /\ ContentsFit  BY DEF AccessInv
<1>2. access.kind = "r" /\ access.state = "busy" /\ UNCHANGED <<runtime, framed, banks, vram, io>>
  BY DEF ReadRam
<1>3. access.kind \in MemoryKinds /\ access.done \in Nat
  BY <1>1, <1>2 DEF MemoryKinds, AccessFits
<1>4. access.addr \in Nat /\ access.n \in Nat  BY <1>1, <1>3 DEF RangeFits
<1>5. /\ h \in Nat /\ n \in Nat \ {0} /\ access.done + n <= access.n
      /\ n <= RequestLimit("r") /\ n <= RamSize
      /\ n = access.n - access.done \/ n = RequestLimit("r") \/ n = RamSize
  BY <1>1, <1>2, <1>3, RequestFits DEF Boundary
<1>6. RamAllowed("r", h, n) /\ access.addr + access.n <= RamSize
  BY <1>1, <1>2, <1>3, RamLetThrough
<1>7. RamSize \in Nat /\ Buffer \in Nat /\ MaxPayload \in Nat /\ Buffer + MaxPayload <= RamSize
  BY DEF AccessAssumption
<1>8. h + n <= RamSize  BY <1>6 DEF RamAllowed
<1>9. ReadFits  BY <1>1, <1>2 DEF ContentsFit
<1>10. ram \in [Ram -> Int]  BY <1>9 DEF ReadFits
<1>11. \A i \in 1 .. n : h + i - 1 \in Ram /\ ram[h + i - 1] \in Int
  <2>1. PICK x \in Nat : x = h  BY <1>5
  <2>2. PICK y \in Nat : y = n  BY <1>5
  <2>3. x + y <= RamSize  BY <2>1, <2>2, <1>8
  <2>4. \A i \in 1 .. y : x + i - 1 \in 0 .. RamSize - 1  BY <2>3, <1>7
  <2> QED BY <2>1, <2>2, <2>4, <1>10 DEF Ram
<1>12. PICK l \in Nat : l = RequestLimit("r")  BY <1>1, LimitFacts DEF MemoryKinds
<1>13. /\ ram' = IF Buffered THEN Copied(h, n) ELSE ram
       /\ Moved(n, IF Buffered THEN [i \in 1 .. n |-> ram'[Buffer + i - 1]] ELSE bytes)
  BY <1>6 DEF ReadRam
<1>14. Buffered => \A i \in 1 .. n : Buffer + i - 1 \in Ram /\ ram'[Buffer + i - 1] = ram[h + i - 1]
  <2> SUFFICES ASSUME Buffered, NEW i \in 1 .. n
               PROVE  Buffer + i - 1 \in Ram /\ ram'[Buffer + i - 1] = ram[h + i - 1]
    OBVIOUS
  <2>1. n <= MaxPayload  BY <1>5, <1>7 DEF RequestLimit, Buffered
  <2>2. Buffer + i - 1 \in Ram /\ Buffer + i - 1 \in Buffer .. Buffer + n - 1
    BY <2>1, <1>5, <1>7 DEF Ram
  <2>3. ram'[Buffer + i - 1] = ram[CopiedFrom(h, n, (Buffer + i - 1) - Buffer)]
    BY <2>2, <1>13 DEF Copied
  <2>4. (Buffer + i - 1) - Buffer = i - 1 /\ i - 1 \in 0 .. n - 1  BY <1>5, <1>7
  <2>5. CopiedFrom(h, n, i - 1) = h + (i - 1)  BY <2>4, <1>5, <1>8, CopyHolds
  <2>6. h + (i - 1) = h + i - 1  BY <1>5
  <2> QED BY <2>2, <2>3, <2>4, <2>5, <2>6
<1>15. Moved(n, bytes)
  <2>1. CASE Buffered
    <3>1. [i \in 1 .. n |-> ram'[Buffer + i - 1]] = bytes  BY <2>1, <1>14
    <3> QED BY <3>1, <2>1, <1>13
  <2>2. CASE ~Buffered  BY <2>2, <1>13
  <2> QED BY <2>1, <2>2
<1>16. /\ AccessFits' /\ RangeFits'
       /\ access'.kind = access.kind /\ access'.addr = access.addr
       /\ access'.n = access.n /\ access'.list = access.list
       /\ access'.done = access.done + n /\ access'.out = access.out \o bytes
       /\ access'.state \in {"busy", "done"}
       /\ access'.state = "busy" => access.done + n # access.n
  BY <1>1, <1>2, <1>5, <1>15, MovedKeeps
<1>17. ram' \in [Ram -> Int]
  <2>1. CASE Buffered
    <3>1. ram' = [a \in Ram |-> IF a \in Buffer .. Buffer + n - 1
                                THEN ram[CopiedFrom(h, n, a - Buffer)] ELSE ram[a]]
      BY <2>1, <1>13 DEF Copied
    <3>2. \A a \in Ram : a \in Buffer .. Buffer + n - 1 =>
            ram[CopiedFrom(h, n, a - Buffer)] \in Int
      <4> SUFFICES ASSUME NEW a \in Ram, a \in Buffer .. Buffer + n - 1
                   PROVE  ram[CopiedFrom(h, n, a - Buffer)] \in Int
        OBVIOUS
      <4>1. PICK j \in 0 .. n - 1 : a - Buffer = j  BY <1>5, <1>7
      <4>2. CopiedFrom(h, n, j) = h + j  BY <1>5, <1>8, CopyHolds
      <4>3. h + j \in Ram  BY <1>5, <1>7, <1>8 DEF Ram
      <4> QED BY <4>1, <4>2, <4>3, <1>10
    <3> QED BY <3>1, <3>2, <1>10
  <2>2. CASE ~Buffered  BY <2>2, <1>10, <1>13
  <2> QED BY <2>1, <2>2
<1>18. \A a \in Ram : ram'[a] = RamAt0[a] \/ (Buffered /\ a \in Buffer .. Buffer + l - 1)
  <2> TAKE a \in Ram
  <2>1. ram[a] = RamAt0[a] \/ (Buffered /\ a \in Buffer .. Buffer + l - 1)
    BY <1>9, <1>12 DEF ReadFits, InBuffer
  <2>2. CASE Buffered /\ a \in Buffer .. Buffer + n - 1
    BY <2>2, <1>5, <1>7, <1>12
  <2>3. CASE ~(Buffered /\ a \in Buffer .. Buffer + n - 1)
    <3>1. ram'[a] = ram[a]  BY <2>3, <1>13 DEF Copied
    <3> QED BY <3>1, <2>1
  <2> QED BY <2>2, <2>3
<1>19. RequestLimit("r")' = l /\ (Buffered' <=> Buffered)
  BY <1>2, <1>12 DEF RequestLimit, Buffered
<1>20. access'.out \in Seq(Int) /\ Held(RamAt0)'
  <2>1. \A i \in 1 .. n :
           \/ bytes[i] = RamAt0[h + i - 1]
           \/ /\ Buffered /\ access.kind = "r" /\ access.done >= RequestLimit("r")
              /\ h + i - 1 \in Buffer .. Buffer + RequestLimit("r") - 1
    <3> TAKE i \in 1 .. n
    <3>1. bytes[i] = ram[h + i - 1] /\ h + i - 1 \in Ram  BY <1>11
    <3>2. ram = RamAt0 \/ access.done >= RequestLimit("r")  BY <1>2, <1>9 DEF ReadFits
    <3>3. ram[h + i - 1] = RamAt0[h + i - 1] \/ InBuffer(h + i - 1)
      BY <3>1, <1>9 DEF ReadFits
    <3> QED BY <3>1, <3>2, <3>3, <1>2 DEF InBuffer
  <2>2. bytes \in Seq(Int) /\ n = Len(bytes)
    <3>1. bytes \in [1 .. n -> Int]  BY <1>11
    <3>2. n \in Nat  BY <1>5
    <3> HIDE DEF bytes
    <3> QED BY <3>1, <3>2, BytesOf
  <2>3. access.out \in Seq(Int) /\ Held(RamAt0)  BY <1>9 DEF ReadFits
  <2> HIDE DEF bytes
  <2> QED BY <2>1, <2>2, <2>3, <1>1, <1>2, <1>3, <1>4, <1>5, <1>16, HeldGrows
<1>21. access'.state = "busy" => access'.done >= l
  <2> SUFFICES ASSUME access'.state = "busy" PROVE access'.done >= l  OBVIOUS
  <2>1. access.done + n # access.n  BY <1>16
  <2>2. n = l \/ n = RamSize  BY <2>1, <1>3, <1>4, <1>5, <1>12
  <2>3. n = l  BY <2>1, <2>2, <1>3, <1>4, <1>5, <1>6, <1>7, <1>12
  <2> QED BY <2>3, <1>3, <1>16
<1>22. ReadFits'
  BY <1>17, <1>18, <1>19, <1>20, <1>21 DEF ReadFits, InBuffer, Ram, RamAt0
<1>23. vram' = VramAt0 /\ io' = IoAt0  BY <1>1, <1>2 DEF ContentsFit
<1>24. ContentsFit'
  BY <1>2, <1>16, <1>22, <1>23 DEF ContentsFit
<1>25. TargetFits'  BY <1>1, <1>2 DEF TargetFits
<1> QED BY <1>16, <1>24, <1>25 DEF AccessInv

----------------------------------------------------------------------------
\* Writes.

\* Once a request is served, the written part is longer by it.
LEMMA StoredIsPrefix ==
  ASSUME AccessAssumption, NEW e \in Nat, NEW d \in Nat, NEW n \in Nat,
         access.addr = e, access.done = d, ram = Prefix(RamAt0, d)
  PROVE  Stored(e + d, n) = Prefix(RamAt0, d + n)
<1>1. RamSize \in Nat  BY DEF AccessAssumption
<1>2. \A a \in Ram : ram[a] = IF a - e \in 0 .. d - 1 THEN Datum(a - e + 1) ELSE RamAt0[a]
  BY DEF Prefix, RamAt0
<1>3. \A a \in Ram :
        (IF a \in e + d .. e + d + n - 1 THEN Datum(d + a - (e + d) + 1) ELSE ram[a])
          = IF a - e \in 0 .. (d + n) - 1 THEN Datum(a - e + 1) ELSE RamAt0[a]
  <2> TAKE a \in Ram
  <2>1. a \in Nat  BY <1>1 DEF Ram
  <2>2. CASE a \in e + d .. e + d + n - 1
    <3>1. d + a - (e + d) + 1 = a - e + 1 /\ a - e \in 0 .. (d + n) - 1  BY <2>1, <2>2
    <3> QED BY <2>2, <3>1
  <2>3. CASE a \notin e + d .. e + d + n - 1
    <3>1. a - e \in 0 .. (d + n) - 1 <=> a - e \in 0 .. d - 1  BY <2>1, <2>3
    <3> QED BY <2>3, <3>1, <1>2
  <2> QED BY <2>2, <2>3
<1>4. Stored(e + d, n) = [a \in Ram |-> IF a \in e + d .. e + d + n - 1
                            THEN Datum(d + a - (e + d) + 1) ELSE ram[a]]
  BY DEF Stored
<1>5. Prefix(RamAt0, d + n) = [a \in Ram |-> IF a - e \in 0 .. (d + n) - 1
                            THEN Datum(a - e + 1) ELSE RamAt0[a]]
  BY DEF Prefix, RamAt0
<1> QED BY <1>3, <1>4, <1>5

LEMMA WrittenIsPrefix ==
  ASSUME AccessAssumption, NEW e \in Nat, NEW d \in Nat, NEW n \in Nat, banks \in {1, 4, MaxBanks},
         access.addr = e, access.done = d, vram = Prefix(VramAt0, d),
         e + d + n <= banks * BankSize,
         \A i \in 0 .. n - 1 : VdpAddress(e + d, i) = e + d + i
  PROVE  VdpWritten(e + d, n) = Prefix(VramAt0, d + n)
<1>1. BankSize \in Nat /\ banks \in Nat /\ MaxBanks \in Nat  BY DEF AccessAssumption, MaxBanks
<1>2. PICK c \in Nat : c = banks * BankSize  BY <1>1
<1>3. \A a \in Vram : vram[a] = IF a - e \in 0 .. d - 1 THEN Datum(a - e + 1) ELSE VramAt0[a]
  BY DEF Prefix, VramAt0
<1> DEFINE at(a) == {i \in 1 .. n : VdpAddress(e + d, i - 1) = a}
<1>4. \A a \in Vram :
        (IF at(a) = {} \/ a \notin Installed THEN vram[a] ELSE Datum(d + Max(at(a))))
          = IF a - e \in 0 .. (d + n) - 1 THEN Datum(a - e + 1) ELSE VramAt0[a]
  <2> TAKE a \in Vram
  <2>1. a \in Nat
    <3>1. Vram \subseteq Nat  BY <1>1 DEF Vram
    <3> QED BY <3>1
  <2>2. \A i \in 1 .. n : VdpAddress(e + d, i - 1) = e + d + (i - 1)  OBVIOUS
  <2>3. CASE a \in e + d .. e + d + n - 1
    <3>1. PICK j \in 1 .. n : j = a - (e + d) + 1  BY <2>1, <2>3
    <3>2. at(a) = {j}
      <4>1. \A i \in 1 .. n : e + d + (i - 1) = a <=> i = j  BY <2>1, <3>1
      <4> QED BY <4>1, <2>2
    <3>3. Max(at(a)) = j
      <4>1. {j} \subseteq Int /\ j \in {j} /\ \A y \in {j} : j >= y  OBVIOUS
      <4> HIDE DEF at
      <4> QED BY <4>1, <3>2, GreatestIs
    <3>4. a \in Installed
      <4>1. a \in 0 .. c - 1  BY <1>2, <2>1, <2>3
      <4> QED BY <4>1, <1>2 DEF Installed
    <3>5. a - e \in 0 .. (d + n) - 1 /\ d + j = a - e + 1  BY <2>1, <2>3, <3>1
    <3> HIDE DEF at
    <3> QED BY <3>2, <3>3, <3>4, <3>5
  <2>4. CASE a \notin e + d .. e + d + n - 1
    <3>1. at(a) = {}
      <4>1. \A i \in 1 .. n : e + d + (i - 1) # a  BY <2>1, <2>4
      <4> QED BY <4>1, <2>2
    <3>2. a - e \in 0 .. (d + n) - 1 <=> a - e \in 0 .. d - 1  BY <2>1, <2>4
    <3> HIDE DEF at
    <3> QED BY <3>1, <3>2, <1>3
  <2> QED BY <2>3, <2>4
<1>5. VdpWritten(e + d, n) = [a \in Vram |->
        IF at(a) = {} \/ a \notin Installed THEN vram[a] ELSE Datum(d + Max(at(a)))]
  BY DEF VdpWritten
<1>6. Prefix(VramAt0, d + n) = [a \in Vram |-> IF a - e \in 0 .. (d + n) - 1
                            THEN Datum(a - e + 1) ELSE VramAt0[a]]
  BY DEF Prefix, VramAt0
<1> HIDE DEF at
<1> QED BY <1>4, <1>5, <1>6

LEMMA WriteRamKeeps ==
  ASSUME AccessAssumption, AccessInv, WriteRam
  PROVE  AccessInv'
<1>1. TargetFits /\ AccessFits /\ RangeFits /\ ContentsFit  BY DEF AccessInv
<1>2. access.kind = "p" /\ access.state = "busy" /\ UNCHANGED <<runtime, framed, banks, vram, io>>
  BY DEF WriteRam
<1>3. access.kind \in MemoryKinds /\ access.done \in Nat
  BY <1>1, <1>2 DEF MemoryKinds, AccessFits
<1>4. access.addr \in Nat  BY <1>1, <1>3 DEF RangeFits
<1>5. NextSize \in Nat \ {0} /\ access.done + NextSize <= access.n
  BY <1>1, <1>2, <1>3, RequestFits
<1>6. RamAllowed("p", access.addr + access.done, NextSize)
  BY <1>1, <1>2, <1>3, RamLetThrough
<1>7. ram' = Stored(access.addr + access.done, NextSize) /\ Moved(NextSize, <<>>)
  BY <1>6 DEF WriteRam
<1>8. /\ AccessFits' /\ RangeFits'
      /\ access'.kind = access.kind /\ access'.addr = access.addr
      /\ access'.done = access.done + NextSize /\ access'.state \in {"busy", "done"}
  BY <1>1, <1>2, <1>5, <1>7, MovedKeeps
<1>9. ram = Prefix(RamAt0, access.done)  BY <1>1, <1>2 DEF ContentsFit, Progress
<1>10. ram' = Prefix(RamAt0, access.done + NextSize)
  <2>1. NextSize \in Nat  BY <1>5
  <2> QED BY <2>1, <1>3, <1>4, <1>7, <1>9, StoredIsPrefix
<1>11. (ram = Prefix(RamAt0, access.done))'
  BY <1>8, <1>10 DEF Prefix, RamAt0, Ram, Datum
<1>12. access'.done \in Progress'  BY <1>8 DEF Progress
<1>13. vram' = VramAt0 /\ io' = IoAt0  BY <1>1, <1>2 DEF ContentsFit
<1>14. ContentsFit'
  <2>1. (\E i \in Progress : ram = Prefix(RamAt0, i))'  BY <1>11, <1>12
  <2> QED BY <2>1, <1>2, <1>8, <1>13 DEF ContentsFit
<1>15. TargetFits'  BY <1>1, <1>2 DEF TargetFits
<1> QED BY <1>8, <1>14, <1>15 DEF AccessInv

LEMMA WriteVramKeeps ==
  ASSUME AccessAssumption, ~OlderClient, AccessInv, WriteVram
  PROVE  AccessInv'
<1>1. TargetFits /\ AccessFits /\ RangeFits /\ ContentsFit  BY DEF AccessInv
<1>2. access.kind = "w" /\ access.state = "busy" /\ UNCHANGED <<runtime, framed, banks, ram, io>>
  BY DEF WriteVram
<1>3. access.kind \in MemoryKinds /\ access.done \in Nat
  BY <1>1, <1>2 DEF MemoryKinds, AccessFits
<1>4. access.addr \in Nat /\ access.n \in Nat  BY <1>1, <1>3 DEF RangeFits
<1>5. NextSize \in Nat \ {0} /\ access.done + NextSize <= access.n
  BY <1>1, <1>2, <1>3, RequestFits
<1>6. /\ VramAllowed(access.addr + access.done, NextSize)
      /\ \A i \in 0 .. NextSize - 1 :
           VdpAddress(access.addr + access.done, i) = access.addr + access.done + i
  BY <1>1, <1>2, <1>3, VramLetThrough
<1>7. vram' = VdpWritten(access.addr + access.done, NextSize) /\ Moved(NextSize, <<>>)
  BY <1>6 DEF WriteVram
<1>8. /\ AccessFits' /\ RangeFits'
      /\ access'.kind = access.kind /\ access'.addr = access.addr /\ access'.n = access.n
      /\ access'.done = access.done + NextSize /\ access'.state \in {"busy", "done"}
  BY <1>1, <1>2, <1>5, <1>7, MovedKeeps
<1>9. InCapacity' <=> InCapacity  BY <1>2, <1>8 DEF InCapacity
<1>10. InCapacity => (vram = Prefix(VramAt0, access.done))'
  <2> SUFFICES ASSUME InCapacity PROVE (vram = Prefix(VramAt0, access.done))'  OBVIOUS
  <2>1. vram = Prefix(VramAt0, access.done)  BY <1>1, <1>2 DEF ContentsFit, Progress
  <2>2. access.addr + access.done + NextSize <= banks * BankSize
    <3>1. banks \in Nat /\ BankSize \in Nat  BY <1>1 DEF TargetFits, MaxBanks, AccessAssumption
    <3>2. PICK c \in Nat : c = banks * BankSize  BY <3>1
    <3>3. access.addr + access.n <= c  BY <3>2, <1>2 DEF InCapacity
    <3> QED BY <3>2, <3>3, <1>3, <1>4, <1>5
  <2>3. NextSize \in Nat /\ banks \in {1, 4, MaxBanks}  BY <1>1, <1>5 DEF TargetFits
  <2>4. vram' = Prefix(VramAt0, access.done + NextSize)
    BY <2>1, <2>2, <2>3, <1>3, <1>4, <1>6, <1>7, WrittenIsPrefix
  <2> QED BY <2>4, <1>8 DEF Prefix, VramAt0, Vram, Datum
<1>11. access'.done \in Progress'  BY <1>8 DEF Progress
<1>12. ram' = RamAt0 /\ io' = IoAt0  BY <1>1, <1>2 DEF ContentsFit
<1>13. ContentsFit'
  <2>1. InCapacity' => (\E i \in Progress : vram = Prefix(VramAt0, i))'
    BY <1>9, <1>10, <1>11
  <2> QED BY <2>1, <1>2, <1>8, <1>12 DEF ContentsFit
<1>14. TargetFits'  BY <1>1, <1>2 DEF TargetFits
<1> QED BY <1>8, <1>13, <1>14 DEF AccessInv

LEMMA ReadVramKeeps ==
  ASSUME AccessAssumption, ~OlderClient, AccessInv, ReadVram
  PROVE  AccessInv'
<1> DEFINE h == access.addr + access.done
<1> DEFINE n == NextSize
<1> DEFINE bytes == VdpRead(h, n)
<1>1. TargetFits /\ AccessFits /\ RangeFits /\ ContentsFit  BY DEF AccessInv
<1>2. access.kind = "v" /\ access.state = "busy"
      /\ UNCHANGED <<runtime, framed, banks, ram, vram, io>>
  BY DEF ReadVram
<1>3. access.kind \in MemoryKinds /\ access.done \in Nat
  BY <1>1, <1>2 DEF MemoryKinds, AccessFits
<1>4. access.addr \in Nat /\ access.n \in Nat  BY <1>1, <1>3 DEF RangeFits
<1>5. n \in Nat \ {0} /\ access.done + n <= access.n /\ h \in Nat
  BY <1>1, <1>2, <1>3, RequestFits
<1>6. VramAllowed(h, n) /\ \A i \in 0 .. n - 1 : VdpAddress(h, i) = h + i
  BY <1>1, <1>2, <1>3, VramLetThrough
<1>7. Moved(n, bytes)  BY <1>6 DEF ReadVram
<1>8. /\ AccessFits' /\ RangeFits'
      /\ access'.kind = access.kind /\ access'.addr = access.addr /\ access'.n = access.n
      /\ access'.done = access.done + n /\ access'.out = access.out \o bytes
      /\ access'.state \in {"busy", "done"}
  BY <1>1, <1>2, <1>5, <1>7, MovedKeeps
<1>9. InCapacity' <=> InCapacity  BY <1>2, <1>8 DEF InCapacity
<1>10. ram' = RamAt0 /\ vram' = VramAt0 /\ io' = IoAt0 /\ vram = VramAt0
  BY <1>1, <1>2 DEF ContentsFit
<1>11. InCapacity => access'.out \in Seq(Int) /\ Held(VramAt0)'
  <2> SUFFICES ASSUME InCapacity PROVE access'.out \in Seq(Int) /\ Held(VramAt0)'  OBVIOUS
  <2>1. access.out \in Seq(Int) /\ Held(VramAt0)  BY <1>1, <1>2 DEF ContentsFit
  <2>2. BankSize \in Nat \ {0} /\ banks \in Nat /\ banks <= MaxBanks /\ MaxBanks \in Nat
    BY <1>1 DEF TargetFits, MaxBanks, AccessAssumption
  <2>3. PICK c \in Nat : c = banks * BankSize  BY <2>2
  <2>4. access.addr + access.n <= c  BY <2>3, <1>2 DEF InCapacity
  <2>5. h + n <= c  BY <2>4, <1>3, <1>4, <1>5
  <2>6. Installed \subseteq Vram
    <3>1. PICK e \in Nat : MaxBanks = banks + e
      <4>1. MaxBanks - banks \in Nat /\ MaxBanks = banks + (MaxBanks - banks)  BY <2>2
      <4> QED BY <4>1
    <3>2. (banks + e) * BankSize = banks * BankSize + e * BankSize  BY <2>2
    <3>3. e * BankSize \in Nat  BY <2>2
    <3>4. c <= MaxBanks * BankSize /\ MaxBanks * BankSize \in Nat  BY <2>3, <3>1, <3>2, <3>3
    <3> QED BY <2>3, <3>4 DEF Installed, Vram
  <2>7. \A i \in 1 .. n : /\ VdpAddress(h, i - 1) = h + i - 1
                          /\ h + i - 1 \in Installed
    <3> TAKE i \in 1 .. n
    <3>1. i - 1 \in 0 .. n - 1 /\ h + (i - 1) = h + i - 1  BY <1>5
    <3>2. h + i - 1 \in 0 .. c - 1  BY <1>5, <2>5
    <3> QED BY <3>1, <3>2, <1>6, <2>3 DEF Installed
  <2>8. bytes = [i \in 1 .. n |-> VramAt0[h + i - 1]]
    BY <2>7, <1>10 DEF VdpRead
  <2>9. \A i \in 1 .. n : VramAt0[h + i - 1] \in Int
    <3> TAKE i \in 1 .. n
    <3>1. h + i - 1 \in Vram  BY <2>6, <2>7
    <3>2. PICK x \in Int : x = h + i - 1  BY <1>5
    <3> QED BY <3>1, <3>2 DEF VramAt0
  <2> HIDE DEF bytes
  <2>10. bytes \in Seq(Int) /\ n = Len(bytes)
    <3>1. bytes \in [1 .. n -> Int]  BY <2>8, <2>9
    <3>2. n \in Nat  BY <1>5
    <3> QED BY <3>1, <3>2, BytesOf
  <2>11. \A i \in 1 .. n : bytes[i] = VramAt0[h + i - 1]  BY <2>8
  <2> QED BY <2>1, <2>10, <2>11, <1>1, <1>2, <1>3, <1>4, <1>5, <1>8, HeldGrows
<1>12. ContentsFit'
  BY <1>2, <1>8, <1>9, <1>10, <1>11 DEF ContentsFit
<1>13. TargetFits'  BY <1>1, <1>2 DEF TargetFits
<1> QED BY <1>8, <1>12, <1>13 DEF AccessInv

----------------------------------------------------------------------------
\* Lists of ports.

LEMMA PortsAfterNext ==
  ASSUME NEW i \in Nat
  PROVE  PortsAfter(i + 1) =
           [p \in Ports |-> IF p = access.list[i + 1] /\ p \notin WriteOnly
                            THEN Datum(i + 1) ELSE PortsAfter(i)[p]]
<1> DEFINE at(k, p) == {j \in 1 .. k : access.list[j] = p}
<1>1. \A p \in Ports : p # access.list[i + 1] => at(i + 1, p) = at(i, p)
  <2> SUFFICES ASSUME NEW p \in Ports, p # access.list[i + 1]
               PROVE  at(i + 1, p) = at(i, p)
    OBVIOUS
  <2>1. \A j \in 1 .. i + 1 : j \in 1 .. i \/ j = i + 1  OBVIOUS
  <2>2. 1 .. i \subseteq 1 .. i + 1  OBVIOUS
  <2> QED BY <2>1, <2>2
<1>2. \A p \in Ports : p = access.list[i + 1] => at(i + 1, p) # {} /\ Max(at(i + 1, p)) = i + 1
  <2> SUFFICES ASSUME NEW p \in Ports, p = access.list[i + 1]
               PROVE  at(i + 1, p) # {} /\ Max(at(i + 1, p)) = i + 1
    OBVIOUS
  <2>1. i + 1 \in at(i + 1, p)  OBVIOUS
  <2>2. at(i + 1, p) \subseteq Int /\ \A y \in at(i + 1, p) : i + 1 >= y  OBVIOUS
  <2> HIDE DEF at
  <2> QED BY <2>1, <2>2, GreatestIs
<1>3. \A k : PortsAfter(k) = [p \in Ports |->
        IF p \in WriteOnly \/ at(k, p) = {} THEN 0 ELSE Datum(Max(at(k, p)))]
  BY DEF PortsAfter
<1> HIDE DEF at
<1> QED BY <1>1, <1>2, <1>3

LEMMA ReadPortKeeps ==
  ASSUME AccessInv, ReadPort
  PROVE  AccessInv'
<1>1. TargetFits /\ AccessFits /\ RangeFits /\ ContentsFit  BY DEF AccessInv
<1>2. access.kind = "i" /\ access.state = "busy" /\ Moved(1, <<io[Port]>>)
      /\ UNCHANGED <<runtime, framed, banks, ram, vram, io>>
  BY DEF ReadPort
<1>3. access.kind \notin MemoryKinds  BY <1>2 DEF MemoryKinds
<1>4. /\ AccessFits' /\ RangeFits' /\ access'.kind = access.kind
      /\ access'.state \in {"busy", "done"}
  BY <1>1, <1>2, <1>3, MovedKeeps, 1 \in Nat \ {0}
<1>5. ram' = RamAt0 /\ vram' = VramAt0 /\ io' = IoAt0
  BY <1>1, <1>2 DEF ContentsFit
<1>6. ContentsFit'  BY <1>2, <1>4, <1>5 DEF ContentsFit
<1>7. TargetFits'  BY <1>1, <1>2 DEF TargetFits
<1> QED BY <1>4, <1>6, <1>7 DEF AccessInv

\* One more write of a list, whatever becomes of the answer.
LEMMA PortWritten ==
  ASSUME access.done \in Nat, io = PortsAfter(access.done), Port \notin WriteOnly
  PROVE  [io EXCEPT ![Port] = Datum(access.done + 1)] = PortsAfter(access.done + 1)
<1>1. PortsAfter(access.done + 1) =
        [p \in Ports |-> IF p = Port /\ p \notin WriteOnly
                         THEN Datum(access.done + 1) ELSE io[p]]
  BY PortsAfterNext DEF Port
<1>2. io = [p \in Ports |-> io[p]]  BY DEF PortsAfter
<1> QED BY <1>1, <1>2

LEMMA SamePorts ==
  ASSUME access'.list = access.list
  PROVE  \A i : PortsAfter(i)' = PortsAfter(i)
BY DEF PortsAfter, Datum

LEMMA WritePortKeeps ==
  ASSUME AccessInv, WritePort
  PROVE  AccessInv'
<1>1. TargetFits /\ AccessFits /\ RangeFits /\ ContentsFit  BY DEF AccessInv
<1>2. access.kind \in {"o", "verified"} /\ access.state = "busy"
      /\ UNCHANGED <<runtime, framed, banks, ram, vram>>
  BY DEF WritePort
<1>3. access.kind \notin MemoryKinds /\ access.done \in Nat
  BY <1>1, <1>2 DEF MemoryKinds, AccessFits
<1>4. io = PortsAfter(access.done)  BY <1>1, <1>2 DEF ContentsFit, PortProgress
<1>5. ram' = RamAt0 /\ vram' = VramAt0  BY <1>1, <1>2 DEF ContentsFit
<1>6. TargetFits'  BY <1>1, <1>2 DEF TargetFits
<1>7. CASE access.kind = "verified" /\ Port \in WriteOnly
  <2>1. Rejected /\ io' = io  BY <1>7 DEF WritePort
  <2>2. /\ AccessFits' /\ RangeFits' /\ access'.kind = access.kind
        /\ access'.list = access.list /\ access'.done = access.done
        /\ access'.state = "rejected"
    BY <2>1, <1>1, <1>2, EndedKeeps DEF Rejected
  <2>3. (io = PortsAfter(access.done))'  BY <2>1, <2>2, <1>4, SamePorts DEF PortsAfter
  <2>4. (access.done \in PortProgress)'  BY <2>2 DEF PortProgress
  <2>5. (\E i \in PortProgress : io = PortsAfter(i))'  BY <2>3, <2>4
  <2>6. ContentsFit'  BY <2>2, <2>5, <1>5, <1>7 DEF ContentsFit
  <2> QED BY <2>2, <2>6, <1>6 DEF AccessInv
<1>8. CASE ~(access.kind = "verified" /\ Port \in WriteOnly)
  <2>1. Moved(1, <<>>)  BY <1>8 DEF WritePort
  <2>2. /\ AccessFits' /\ RangeFits' /\ access'.kind = access.kind
        /\ access'.list = access.list /\ access'.done = access.done + 1
        /\ access'.state \in {"busy", "done"}
    BY <2>1, <1>1, <1>2, <1>3, MovedKeeps, 1 \in Nat \ {0}
  <2>3. io' = PortsAfter(access.done + 1)
    <3>1. CASE Port \in WriteOnly
      <4>1. io' = io  BY <3>1 DEF WritePort
      <4>2. PortsAfter(access.done + 1) = [p \in Ports |-> io[p]]
        BY <3>1, <1>3, <1>4, PortsAfterNext DEF Port
      <4>3. io = [p \in Ports |-> io[p]]  BY <1>4 DEF PortsAfter
      <4> QED BY <4>1, <4>2, <4>3
    <3>2. CASE Port \notin WriteOnly
      <4>1. io' = [io EXCEPT ![Port] = Datum(access.done + 1)]  BY <3>2 DEF WritePort
      <4> QED BY <4>1, <3>2, <1>3, <1>4, PortWritten
    <3> QED BY <3>1, <3>2
  <2>4. (io = PortsAfter(access.done))'  BY <2>2, <2>3, SamePorts DEF PortsAfter
  <2>5. (access.done \in PortProgress)'  BY <2>2 DEF PortProgress
  <2>6. (\E i \in PortProgress : io = PortsAfter(i))'  BY <2>4, <2>5
  <2>7. ContentsFit'  BY <2>2, <2>6, <1>2, <1>5 DEF ContentsFit
  <2> QED BY <2>2, <2>7, <1>6 DEF AccessInv
<1> QED BY <1>7, <1>8

----------------------------------------------------------------------------
\* Lost answers, and the start of an access.

LEMMA LoseAnswerKeeps ==
  ASSUME AccessAssumption, ~OlderClient, AccessInv, LoseAnswer
  PROVE  AccessInv'
<1>1. TargetFits /\ AccessFits /\ RangeFits /\ ContentsFit  BY DEF AccessInv
<1>2. access.state = "busy" /\ access' = [access EXCEPT !.state = "lost"]
      /\ UNCHANGED <<runtime, framed, banks>>
  BY DEF LoseAnswer
<1>3. /\ AccessFits' /\ RangeFits'
      /\ access'.kind = access.kind /\ access'.addr = access.addr
      /\ access'.n = access.n /\ access'.list = access.list
      /\ access'.done = access.done /\ access'.out = access.out
      /\ access'.state = "lost"
  BY <1>1, <1>2, EndedKeeps
<1>4. access.done \in Nat /\ access.kind \in AccessKinds /\ access.kind # "none"
  BY <1>1, <1>2 DEF AccessFits, NoAccess
<1>5. TargetFits'  BY <1>1, <1>2 DEF TargetFits
<1>6. NextSize' = NextSize /\ (InCapacity' <=> InCapacity) /\ RequestLimit("r")' = RequestLimit("r")
      /\ (Buffered' <=> Buffered)
  <2>1. \A kind : RequestLimit(kind)' = RequestLimit(kind)  BY <1>2 DEF RequestLimit
  <2> QED BY <2>1, <1>2, <1>3 DEF NextSize, InCapacity, Buffered, Boundary
<1>7. Progress' = {access.done, access.done + NextSize}  BY <1>3, <1>6 DEF Progress
<1>8. PortProgress' = {access.done, access.done + 1}  BY <1>3 DEF PortProgress
<1>9. \A i : Prefix(RamAt0, i)' = Prefix(RamAt0, i) /\ Prefix(VramAt0, i)' = Prefix(VramAt0, i)
             /\ PortsAfter(i)' = PortsAfter(i)
  BY <1>3 DEF Prefix, PortsAfter, RamAt0, VramAt0, Ram, Vram, Datum
<1>10. access.kind \notin {"p", "r"} => ram' = RamAt0
  BY <1>1, <1>4 DEF LoseAnswer, ContentsFit
<1>11. access.kind # "w" => vram' = VramAt0
  BY <1>1, <1>4 DEF LoseAnswer, ContentsFit
<1>12. access.kind \notin {"o", "verified"} => io' = IoAt0
  BY <1>1, <1>4 DEF LoseAnswer, ContentsFit
<1>13. access.kind = "r" => ReadFits'
  <2> SUFFICES ASSUME access.kind = "r" PROVE ReadFits'  OBVIOUS
  <2>1. ram' = ram  BY DEF LoseAnswer
  <2>2. ReadFits  BY <1>1 DEF ContentsFit
  <2> QED BY <2>1, <2>2, <1>3, <1>6 DEF ReadFits, Held, InBuffer, RamAt0, Ram
<1>14. access.kind = "p" => \E i \in Progress' : ram' = Prefix(RamAt0, i)
  <2> SUFFICES ASSUME access.kind = "p" PROVE \E i \in Progress' : ram' = Prefix(RamAt0, i)
    OBVIOUS
  <2>1. ram = Prefix(RamAt0, access.done)  BY <1>1, <1>2 DEF ContentsFit, Progress
  <2>2. ram' = ram \/ ram' = Stored(access.addr + access.done, NextSize)  BY DEF LoseAnswer
  <2>3. access.addr \in Nat /\ NextSize \in Nat
    BY <1>1, <1>2, <1>4, RequestFits DEF RangeFits, MemoryKinds
  <2>4. Stored(access.addr + access.done, NextSize) = Prefix(RamAt0, access.done + NextSize)
    BY <2>1, <2>3, <1>4, StoredIsPrefix
  <2> QED BY <2>1, <2>2, <2>4, <1>7
<1>15. access.kind = "v" /\ InCapacity => access'.out \in Seq(Int) /\ Held(VramAt0)'
  <2> SUFFICES ASSUME access.kind = "v", InCapacity
               PROVE  access'.out \in Seq(Int) /\ Held(VramAt0)'
    OBVIOUS
  <2>1. access.out \in Seq(Int) /\ Held(VramAt0)  BY <1>1 DEF ContentsFit
  <2> QED BY <2>1, <1>3 DEF Held, VramAt0, Vram
<1>16. access.kind = "w" /\ InCapacity => \E i \in Progress' : vram' = Prefix(VramAt0, i)
  <2> SUFFICES ASSUME access.kind = "w", InCapacity
               PROVE  \E i \in Progress' : vram' = Prefix(VramAt0, i)
    OBVIOUS
  <2>1. vram = Prefix(VramAt0, access.done)  BY <1>1, <1>2 DEF ContentsFit, Progress
  <2>2. vram' = vram \/ vram' = VdpWritten(access.addr + access.done, NextSize)
    BY DEF LoseAnswer
  <2>3. /\ access.addr \in Nat /\ access.n \in Nat /\ NextSize \in Nat
        /\ access.done + NextSize <= access.n
    BY <1>1, <1>2, <1>4, RequestFits DEF RangeFits, MemoryKinds
  <2>4. \A i \in 0 .. NextSize - 1 :
          VdpAddress(access.addr + access.done, i) = access.addr + access.done + i
    BY <1>1, <1>2, <1>4, VramLetThrough
  <2>5. access.addr + access.done + NextSize <= banks * BankSize
    <3>1. banks \in Nat /\ BankSize \in Nat  BY <1>1 DEF TargetFits, MaxBanks, AccessAssumption
    <3>2. PICK c \in Nat : c = banks * BankSize  BY <3>1
    <3>3. access.addr + access.n <= c  BY <3>2 DEF InCapacity
    <3> QED BY <3>2, <3>3, <2>3, <1>4
  <2>6. VdpWritten(access.addr + access.done, NextSize) = Prefix(VramAt0, access.done + NextSize)
    BY <2>1, <2>3, <2>4, <2>5, <1>1, <1>4, WrittenIsPrefix DEF TargetFits
  <2> QED BY <2>1, <2>2, <2>6, <1>7
<1>17. access.kind \in {"o", "verified"} => \E i \in PortProgress' : io' = PortsAfter(i)
  <2> SUFFICES ASSUME access.kind \in {"o", "verified"}
               PROVE  \E i \in PortProgress' : io' = PortsAfter(i)
    OBVIOUS
  <2>1. io = PortsAfter(access.done)  BY <1>1, <1>2 DEF ContentsFit, PortProgress
  <2>2. \/ io' = io
        \/ Port \notin WriteOnly /\ io' = [io EXCEPT ![Port] = Datum(access.done + 1)]
    BY DEF LoseAnswer
  <2>3. io' = PortsAfter(access.done) \/ io' = PortsAfter(access.done + 1)
    BY <2>1, <2>2, <1>4, PortWritten
  <2> QED BY <2>3, <1>8
<1>18. ContentsFit'
  <2>1. access'.kind = "p" => (\E i \in Progress : ram = Prefix(RamAt0, i))'
    BY <1>3, <1>9, <1>14
  <2>2. access'.kind = "w" /\ InCapacity' => (\E i \in Progress : vram = Prefix(VramAt0, i))'
    BY <1>3, <1>6, <1>9, <1>16
  <2>3. access'.kind \in {"o", "verified"} => (\E i \in PortProgress : io = PortsAfter(i))'
    BY <1>3, <1>9, <1>17
  <2> QED BY <2>1, <2>2, <2>3, <1>3, <1>6, <1>10, <1>11, <1>12, <1>13, <1>15 DEF ContentsFit
<1> QED BY <1>3, <1>5, <1>18 DEF AccessInv

LEMMA NothingDone ==
  ASSUME AccessAssumption, access'.done = 0, access'.out = <<>>, access'.addr \in Nat,
         access'.state # "rejected", ram' = RamAt0, vram' = VramAt0, io' = IoAt0
  PROVE  ContentsFit'
<1>1. (ram = Prefix(RamAt0, 0))' /\ (vram = Prefix(VramAt0, 0))'
  <2>1. \A a : a - access'.addr \notin 0 .. 0 - 1  OBVIOUS
  <2> QED BY <2>1 DEF Prefix, RamAt0, VramAt0, Ram, Vram
<1>2. (io = PortsAfter(0))'  BY DEF PortsAfter, IoAt0
<1>3. 0 \in Progress' /\ 0 \in PortProgress'  BY DEF Progress, PortProgress
<1>4. access'.out \in Seq(Int) /\ Held(RamAt0)' /\ Held(VramAt0)'  BY DEF Held
<1>5. ReadFits'
  <2>1. RamAt0 \in [Ram -> Int]
    <3>1. Ram \subseteq Int  BY DEF Ram, AccessAssumption
    <3> QED BY <3>1 DEF RamAt0
  <2> QED BY <2>1, <1>4 DEF ReadFits, RamAt0, Ram
<1> QED BY <1>1, <1>2, <1>3, <1>4, <1>5 DEF ContentsFit

LEMMA BeginAccessKeeps ==
  ASSUME AccessAssumption, AccessInv, NEW kind \in MemoryKinds, NEW addr \in Nat, NEW n \in Nat,
         BeginAccess(kind, addr, n)
  PROVE  AccessInv'
<1>1. TargetFits /\ AccessFits /\ RangeFits /\ ContentsFit  BY DEF AccessInv
<1>2. access = NoAccess /\ UNCHANGED <<runtime, framed, banks, ram, vram, io>>
  BY DEF BeginAccess
<1>3. /\ access' = [f \in AccessFields |-> access'[f]]
      /\ access'.kind = kind /\ access'.addr = addr /\ access'.n = n
      /\ access'.out = <<>> /\ access'.done = 0
      /\ access'.state = IF ~HostAllows(kind, addr, n) THEN "refused"
                         ELSE IF n = 0 THEN "done" ELSE "busy"
  BY <1>2 DEF BeginAccess, NoAccess, AccessFields
<1>4. AccessFits'
  BY <1>3 DEF AccessFits, AccessKinds, AccessStates, MemoryKinds
<1>5. HostAllows(kind, addr, n)' <=> HostAllows(kind, addr, n)
  BY <1>2 DEF HostAllows, VramSize
<1>6. RangeFits'
  BY <1>3, <1>5 DEF RangeFits
<1>7. TargetFits'  BY <1>1, <1>2 DEF TargetFits
<1>8. ram' = RamAt0 /\ vram' = VramAt0 /\ io' = IoAt0
  BY <1>1, <1>2 DEF ContentsFit, NoAccess
<1>9. access'.state # "rejected"  BY <1>3
<1>10. ContentsFit'
  BY <1>3, <1>7, <1>8, <1>9, NothingDone
<1> QED BY <1>4, <1>6, <1>7, <1>10 DEF AccessInv

LEMMA BeginPortsKeeps ==
  ASSUME AccessAssumption, AccessInv, NEW kind \in {"i", "o", "verified"}, NEW list,
         BeginPorts(kind, list)
  PROVE  AccessInv'
<1>1. TargetFits /\ AccessFits /\ RangeFits /\ ContentsFit  BY DEF AccessInv
<1>2. access = NoAccess /\ UNCHANGED <<runtime, framed, banks, ram, vram, io>>
  BY DEF BeginPorts
<1>3. /\ access' = [f \in AccessFields |-> access'[f]]
      /\ access'.kind = kind /\ access'.addr = 0
      /\ access'.out = <<>> /\ access'.done = 0
      /\ access'.state = IF list = <<>> THEN "done" ELSE "busy"
  BY <1>2 DEF BeginPorts, NoAccess, AccessFields
<1>4. AccessFits'
  BY <1>3 DEF AccessFits, AccessKinds, AccessStates
<1>5. RangeFits'
  BY <1>3 DEF RangeFits, MemoryKinds
<1>6. TargetFits'  BY <1>1, <1>2 DEF TargetFits
<1>7. ram' = RamAt0 /\ vram' = VramAt0 /\ io' = IoAt0
  BY <1>1, <1>2 DEF ContentsFit, NoAccess
<1>8. access'.state # "rejected" /\ access'.addr \in Nat  BY <1>3
<1>9. ContentsFit'
  BY <1>3, <1>6, <1>7, <1>8, NothingDone
<1> QED BY <1>4, <1>5, <1>6, <1>9 DEF AccessInv

----------------------------------------------------------------------------

LEMMA AccessInvInit == ASSUME AccessAssumption, AccessInit PROVE AccessInv
<1>1. access = NoAccess /\ ram = RamAt0 /\ vram = VramAt0 /\ io = IoAt0  BY DEF AccessInit
<1>2. TargetFits  BY DEF AccessInit, TargetFits
<1>3. AccessFits
  BY <1>1 DEF AccessFits, NoAccess, AccessFields, AccessKinds, AccessStates
<1>4. RangeFits  BY <1>1 DEF RangeFits, NoAccess, MemoryKinds
<1>5. ContentsFit  BY <1>1 DEF ContentsFit, NoAccess
<1> QED BY <1>2, <1>3, <1>4, <1>5 DEF AccessInv

LEMMA AccessInvStep ==
  ASSUME AccessAssumption, ~OlderClient, AccessInv, [AccessNext]_accessVars
  PROVE  AccessInv'
<1>1. CASE \E addr \in 0 .. RamSize, n \in 0 .. RamSize, kind \in {"r", "p"} :
             BeginAccess(kind, addr, n)
  BY <1>1, BeginAccessKeeps DEF MemoryKinds
<1>2. CASE \E addr \in 0 .. MaxBanks * BankSize, n \in 0 .. 2 * BankSize + 1,
             kind \in {"v", "w"} : BeginAccess(kind, addr, n)
  BY <1>2, BeginAccessKeeps DEF MemoryKinds
<1>3. CASE \E list \in BoundedSeq(Ports, MaxPorts), kind \in {"i", "o", "verified"} :
             BeginPorts(kind, list)
  BY <1>3, BeginPortsKeeps
<1>4. CASE ReadRam  BY <1>4, ReadRamKeeps
<1>5. CASE WriteRam  BY <1>5, WriteRamKeeps
<1>6. CASE ReadVram  BY <1>6, ReadVramKeeps
<1>7. CASE WriteVram  BY <1>7, WriteVramKeeps
<1>8. CASE ReadPort  BY <1>8, ReadPortKeeps
<1>9. CASE WritePort  BY <1>9, WritePortKeeps
<1>10. CASE LoseAnswer  BY <1>10, LoseAnswerKeeps
<1>11. CASE UNCHANGED accessVars
  <2>1. TargetFits /\ AccessFits /\ RangeFits /\ ContentsFit  BY DEF AccessInv
  <2>2. UNCHANGED <<runtime, framed, banks, ram, vram, io, access>>  BY <1>11 DEF accessVars
  <2>3. TargetFits' /\ AccessFits'  BY <2>1, <2>2 DEF TargetFits, AccessFits
  <2>4. \A kind, addr, n : HostAllows(kind, addr, n)' <=> HostAllows(kind, addr, n)
    BY <2>2 DEF HostAllows, VramSize
  <2>5. RangeFits'  BY <2>1, <2>2, <2>4 DEF RangeFits
  <2>6. NextSize' = NextSize /\ RequestLimit("r")' = RequestLimit("r")
    BY <2>2 DEF NextSize, RequestLimit, Boundary
  <2>7. Progress' = Progress /\ PortProgress' = PortProgress
    BY <2>2, <2>6 DEF Progress, PortProgress
  <2>8. (Buffered' <=> Buffered) /\ (InCapacity' <=> InCapacity)
    BY <2>2 DEF Buffered, InCapacity
  <2>9. \A i : Prefix(RamAt0, i)' = Prefix(RamAt0, i) /\ Prefix(VramAt0, i)' = Prefix(VramAt0, i)
               /\ PortsAfter(i)' = PortsAfter(i)
    BY <2>2 DEF Prefix, PortsAfter, RamAt0, VramAt0, Ram, Vram, Datum
  <2>10. (Held(RamAt0)' <=> Held(RamAt0)) /\ (Held(VramAt0)' <=> Held(VramAt0))
    BY <2>2, <2>6, <2>8 DEF Held, RamAt0, VramAt0, Ram, Vram
  <2>11. ReadFits => ReadFits'
    BY <2>2, <2>6, <2>8, <2>10 DEF ReadFits, InBuffer, RamAt0, Ram
  <2>12. ContentsFit'
    BY <2>1, <2>2, <2>7, <2>8, <2>9, <2>10, <2>11 DEF ContentsFit
  <2> QED BY <2>3, <2>5, <2>12 DEF AccessInv
<1> QED BY <1>1, <1>2, <1>3, <1>4, <1>5, <1>6, <1>7, <1>8, <1>9, <1>10, <1>11 DEF AccessNext

LEMMA AccessInvMeans ==
  ASSUME AccessAssumption, AccessInv
  PROVE  AccessIsWhole
<1>1. TargetFits /\ AccessFits /\ RangeFits /\ ContentsFit  BY DEF AccessInv
<1>2. access.kind = "r" => ReadFits  BY <1>1 DEF ContentsFit
<1>3. access.kind # "w" => vram = VramAt0  BY <1>1 DEF ContentsFit
<1>4. IF access.kind \in {"o", "verified"}
        THEN \E i \in PortProgress : io = PortsAfter(i) ELSE io = IoAt0
  BY <1>1 DEF ContentsFit
<1>5. \A a \in Ram : ram[a] # RamAt0[a] =>
        access.kind = "p" \/ (access.kind = "r" /\ a >= ResBase)
  <2> SUFFICES ASSUME NEW a \in Ram, ram[a] # RamAt0[a], access.kind # "p"
               PROVE  access.kind = "r" /\ a >= ResBase
    OBVIOUS
  <2>1. access.kind = "r"  BY <1>1 DEF ContentsFit
  <2>2. InBuffer(a)  BY <2>1, <1>2 DEF ReadFits
  <2>3. a \in Nat /\ Buffer \in Nat /\ ResBase \in Nat /\ ResBase <= Buffer
    BY DEF Ram, AccessAssumption
  <2>4. RequestLimit("r") \in Nat  BY <1>1, LimitFacts DEF MemoryKinds
  <2>5. a >= Buffer  BY <2>2, <2>3, <2>4 DEF InBuffer
  <2> QED BY <2>1, <2>3, <2>5
<1>6. InCapacity =>
       /\ access.kind = "r" => Held(RamAt0)
       /\ access.kind = "v" => Held(VramAt0)
       /\ access.kind = "w" => \E i \in Progress : vram = Prefix(VramAt0, i)
       /\ access.kind = "p" => \E i \in Progress : ram = Prefix(RamAt0, i)
  BY <1>1, <1>2 DEF ContentsFit, ReadFits
<1>7. access.state = "rejected" => access.kind = "verified"  BY <1>1 DEF ContentsFit
<1> QED BY <1>3, <1>4, <1>5, <1>6, <1>7 DEF AccessIsWhole

\* An access to memory or to ports is served whole, or fails where the host can
\* tell: the agent rejects nothing of what _validate_range and the checks of
\* peek, poke, vpeek and vpoke let through, bytes are read and written in order
\* and nothing else is.  A client that takes the size of VRAM from the
\* generation of the VDP is left out: it asks for banks that are not there.
THEOREM AccessHolds == ~OlderClient => (AccessSpec => []AccessIsWhole)
<1> SUFFICES ASSUME ~OlderClient PROVE AccessSpec => []AccessIsWhole
  OBVIOUS
<1> USE AccessAssumption
<1>1. AccessInit => AccessInv  BY AccessInvInit
<1>2. AccessInv /\ [AccessNext]_accessVars => AccessInv'  BY AccessInvStep
<1>3. AccessInv => AccessIsWhole  BY AccessInvMeans
<1> QED BY <1>1, <1>2, <1>3, PTL DEF AccessSpec

----------------------------------------------------------------------------
\* The fault proxy.

Faults == {"superseded", "proxy-close", "peer-close", "forward-error", "fin", "rst",
           "blackhole"}
SessionFields == {"known", "fault", "closed", "black", "sockets", "gone", "sent",
                  "passed", "told"}
SessionRecord(s) == s = [f \in SessionFields |-> s[f]]

\* The threads, by what they do to session n; only its own pump does anything.
Closing(t, n) == t.pc \in {"sockets", "record"} /\ t.n = n
Actors == {"acceptor", "tester", "pump"}
ThreadOf(a, n) ==
  IF a = "acceptor" THEN acceptor ELSE IF a = "tester" THEN tester ELSE pumps[n]
Closers(n) == {a \in Actors : Closing(ThreadOf(a, n), n)}
Recorded(n) == \E i \in DOMAIN finished : finished[i].number = n

\* The sessions are numbered from one, without a gap.
Numbered == \E k \in 0 .. MaxSessions : \A n \in SessionNumbers : sessions[n].known <=> n <= k

\* A thread that finishes a session, and what it goes on with.
Finisher(t) ==
  /\ InFinish(t)
  /\ t = [pc |-> t.pc, n |-> t.n, reason |-> t.reason, reset |-> t.reset, then |-> t.then]
  /\ t.n \in Created /\ t.reason \in Faults /\ t.reset \in BOOLEAN
Starting(n) == n \in Created /\ pumps[n].pc = "none"
\* The acceptor has a pump to start.
Pending(n) ==
  \/ acceptor.pc = "start" /\ acceptor.n = n
  \/ InFinish(acceptor) /\ acceptor.then.n = n
AcceptorFits ==
  \/ acceptor \in {ThreadAt("accept"), ThreadAt("ended")}
  \/ acceptor = ThreadAt("connected") /\ Created # SessionNumbers
  \/ acceptor = [pc |-> "start", n |-> acceptor.n] /\ Starting(acceptor.n)
  \/ /\ Finisher(acceptor) /\ Starting(acceptor.then.n)
     /\ acceptor.then = [pc |-> "start", n |-> acceptor.then.n]
TesterFits ==
  \/ tester \in {ThreadAt("idle"), ThreadAt("join"), ThreadAt("closed")}
  \/ Finisher(tester) /\ tester.then \in {ThreadAt("idle"), ThreadAt("join")}
PumpFits(n) ==
  \/ pumps[n] = ThreadAt("none")
  \/ /\ n \in Created
     /\ \/ pumps[n] \in {ThreadAt("look"), ThreadAt("ended")}
           \cup {[pc |-> "data", from |-> e] : e \in Peers}
        \/ Finisher(pumps[n]) /\ pumps[n].n = n /\ pumps[n].then = PumpEnded
     /\ pumps[n] = PumpEnded => sessions[n].closed

\* A session is closed by one thread, which then records it.
ClosedByOne(n) ==
  /\ ~sessions[n].closed => Closers(n) = {} /\ ~Recorded(n)
  /\ sessions[n].closed => sessions[n].fault \in Faults
  /\ sessions[n].closed /\ Recorded(n) => Closers(n) = {} /\ sessions[n].sockets # "open"
  /\ sessions[n].closed /\ ~Recorded(n) => \E a \in Actors : Closers(n) = {a}
  /\ \A a \in Closers(n) : ThreadOf(a, n).pc = "record" => sessions[n].sockets # "open"
\* What is counted has arrived, and nothing else has but a part of one unit.
Counted(n) ==
  /\ \A e \in Peers :
       IF n \in partly THEN arrived[n][e] >= sessions[n].passed[OtherPeer(e)]
                       ELSE arrived[n][e] = sessions[n].passed[OtherPeer(e)]
  /\ sessions[n].black => sessions[n].passed = sessions[n].told
SessionFits(n) ==
  /\ SessionRecord(sessions[n]) /\ sessions[n].known = TRUE
  /\ sessions[n].fault \in Faults \cup {"none"} /\ sessions[n].passed \in [Peers -> Nat]
  /\ ClosedByOne(n) /\ Counted(n)
Unknown(n) ==
  /\ sessions[n] = NoSession /\ n \notin partly /\ arrived[n] = NoUnits
  /\ Closers(n) = {} /\ ~Recorded(n)

RecordFits(i) ==
  LET s == finished[i]
  IN  /\ s.number \in Created /\ s = SnapshotOf(s.number)
      /\ \A j \in DOMAIN finished : finished[j].number = s.number => i = j

Snapshots == [number : SessionNumbers, fault : Faults, passed : [Peers -> Nat]]
DataFit ==
  /\ DOMAIN sessions = SessionNumbers
  /\ arrived \in [SessionNumbers -> [Peers -> Nat]] /\ partly \subseteq SessionNumbers
  /\ finished \in Seq(Snapshots)
  /\ Numbered /\ current \in Created \cup {0} /\ \A n \in Created : current # 0 => n <= current
  /\ \A n \in SessionNumbers : IF n \in Created THEN SessionFits(n) ELSE Unknown(n)
  /\ \A i \in DOMAIN finished : RecordFits(i)
ThreadsFit ==
  /\ DOMAIN pumps = SessionNumbers
  /\ AcceptorFits /\ TesterFits
  /\ \A n \in SessionNumbers : PumpFits(n) /\ (Starting(n) => Pending(n))
\* A closed proxy has no thread left.
NoneLeft ==
  tester = ThreadAt("closed") =>
    /\ acceptor = ThreadAt("ended")
    /\ \A n \in SessionNumbers : pumps[n].pc \in {"none", "ended"}
ProxyInv == DataFit /\ ThreadsFit /\ NoneLeft

----------------------------------------------------------------------------
\* The threads and what they close.

LEMMA PlainThreads ==
  ASSUME NEW pc PROVE ThreadAt(pc).pc = pc
BY DEF ThreadAt

LEMMA FinishingFacts ==
  ASSUME NEW n, NEW reason, NEW reset, NEW then
  PROVE  LET t == Finishing(n, reason, reset, then)
         IN  /\ t.pc = "finish" /\ t.n = n /\ t.reason = reason /\ t.reset = reset
             /\ t.then = then /\ InFinish(t)
             /\ t = [pc |-> t.pc, n |-> t.n, reason |-> t.reason, reset |-> t.reset, then |-> t.then]
BY DEF Finishing, InFinish

\* The closers of a session, by thread.
LEMMA ClosersAre ==
  ASSUME NEW n, NEW a
  PROVE  a \in Closers(n) <=> a \in Actors /\ Closing(ThreadOf(a, n), n)
BY DEF Closers

\* A thread stays where it is for session n.
SameClosers(n) ==
  \A a \in Actors :
    /\ Closing(ThreadOf(a, n), n)' <=> Closing(ThreadOf(a, n), n)
    /\ Closing(ThreadOf(a, n), n) => ThreadOf(a, n)' = ThreadOf(a, n)

LEMMA ClosersStay ==
  ASSUME NEW n, SameClosers(n)
  PROVE  Closers(n)' = Closers(n) /\ \A a \in Closers(n) : ThreadOf(a, n)' = ThreadOf(a, n)
<1>1. \A a \in Actors : Closing(ThreadOf(a, n), n)' <=> Closing(ThreadOf(a, n), n)
  BY DEF SameClosers
<1>2. Closers(n)' = {a \in Actors : Closing(ThreadOf(a, n), n)'}
  BY DEF Closers
<1>3. Closers(n) = {a \in Actors : Closing(ThreadOf(a, n), n)}
  BY DEF Closers
<1>4. Closers(n)' = Closers(n)
  BY <1>1, <1>2, <1>3
<1> QED BY <1>4, ClosersAre DEF SameClosers

\* What a session keeps when it is not closed, cut or counted.
SameFields(n) ==
  /\ SessionRecord(sessions'[n])
  /\ sessions'[n].known = sessions[n].known /\ sessions'[n].fault = sessions[n].fault
  /\ sessions'[n].closed = sessions[n].closed /\ sessions'[n].black = sessions[n].black
  /\ sessions'[n].sockets = sessions[n].sockets /\ sessions'[n].passed = sessions[n].passed
  /\ sessions'[n].told = sessions[n].told

LEMMA ClosedStays ==
  ASSUME NEW n, ClosedByOne(n), SameClosers(n), Recorded(n)' = Recorded(n),
         sessions'[n].fault = sessions[n].fault, sessions'[n].closed = sessions[n].closed,
         sessions'[n].sockets = sessions[n].sockets
  PROVE  ClosedByOne(n)'
<1>1. Closers(n)' = Closers(n) /\ \A a \in Closers(n) : ThreadOf(a, n)' = ThreadOf(a, n)
  BY ClosersStay
<1>2. \A a \in Closers(n) : ThreadOf(a, n)'.pc = ThreadOf(a, n).pc
  BY <1>1
<1> HIDE DEF Closers, ThreadOf, Recorded
<1> QED BY <1>1, <1>2 DEF ClosedByOne

LEMMA CountedStays ==
  ASSUME NEW n, Counted(n), sessions'[n].passed = sessions[n].passed,
         sessions'[n].told = sessions[n].told, sessions'[n].black = sessions[n].black,
         arrived'[n] = arrived[n], n \in partly' <=> n \in partly
  PROVE  Counted(n)'
BY DEF Counted

LEMMA SessionStays ==
  ASSUME NEW n, SessionFits(n), SameFields(n), SameClosers(n), Recorded(n)' = Recorded(n),
         arrived'[n] = arrived[n], n \in partly' <=> n \in partly
  PROVE  SessionFits(n)'
<1>1. ClosedByOne(n)' /\ Counted(n)'
  BY ClosedStays, CountedStays DEF SessionFits, SameFields
<1> HIDE DEF ClosedByOne, Counted
<1> QED BY <1>1 DEF SessionFits, SameFields

LEMMA UnknownStays ==
  ASSUME NEW n, Unknown(n), sessions'[n] = sessions[n], SameClosers(n), Recorded(n)' = Recorded(n),
         arrived'[n] = arrived[n], n \in partly' <=> n \in partly
  PROVE  Unknown(n)'
<1>1. Closers(n)' = Closers(n)
  BY ClosersStay
<1> HIDE DEF Closers
<1> QED BY <1>1 DEF Unknown, Recorded, NoSession, NoUnits, Peers

\* A session that is as it was has its fields.
LEMMA FieldsStay ==
  ASSUME NEW n, SessionFits(n), sessions'[n] = sessions[n]
  PROVE  SameFields(n)
BY DEF SessionFits, SameFields, SessionRecord

----------------------------------------------------------------------------
\* The invariant where one session changes, or none.

LEMMA DataFacts ==
  ASSUME DataFit
  PROVE  /\ DOMAIN sessions = SessionNumbers
         /\ arrived \in [SessionNumbers -> [Peers -> Nat]] /\ partly \subseteq SessionNumbers
         /\ finished \in Seq(Snapshots) /\ Numbered /\ current \in Created \cup {0}
         /\ \A n \in Created : n \in SessionNumbers /\ SessionFits(n) /\ sessions[n].known = TRUE
         /\ \A n \in SessionNumbers \ Created : Unknown(n)
         /\ \A n \in SessionNumbers : n \notin Created <=> sessions[n].known = FALSE
         /\ \A n \in Created : current # 0 => n <= current
         /\ \A i \in DOMAIN finished : RecordFits(i)
<1>1. \A n \in SessionNumbers : IF n \in Created THEN SessionFits(n) ELSE Unknown(n)
  BY DEF DataFit
<1>2. \A n \in Created : n \in SessionNumbers
  BY DEF Created
<1>3. \A n \in Created : SessionFits(n) /\ sessions[n].known = TRUE
  BY <1>1, <1>2 DEF SessionFits
<1>4. \A n \in SessionNumbers \ Created : Unknown(n) /\ sessions[n].known = FALSE
  BY <1>1 DEF Unknown, NoSession
<1> QED BY <1>2, <1>3, <1>4 DEF DataFit

SnapshotStays(n) ==
  sessions'[n].fault = sessions[n].fault /\ sessions'[n].passed = sessions[n].passed

LEMMA RecordsStay ==
  ASSUME DataFit, Created \subseteq Created', finished' = finished,
         \A n \in Created : Recorded(n) => SnapshotStays(n)
  PROVE  \A i \in DOMAIN finished' : RecordFits(i)'
<1> SUFFICES ASSUME NEW i \in DOMAIN finished PROVE RecordFits(i)'
  OBVIOUS
<1> DEFINE n == finished[i].number
<1>1. RecordFits(i) /\ n \in Created /\ finished[i] = SnapshotOf(n)
  BY DataFacts DEF RecordFits
<1>2. Recorded(n)
  BY DEF Recorded
<1>3. SnapshotOf(n)' = SnapshotOf(n)
  BY <1>1, <1>2 DEF SnapshotOf, SnapshotStays
<1>4. \A j \in DOMAIN finished : finished[j].number = n => i = j
  BY <1>1 DEF RecordFits
<1> QED BY <1>1, <1>3, <1>4 DEF RecordFits

\* Everything of the other sessions is as it was.
SameSession(n) ==
  /\ sessions'[n] = sessions[n] \/ (n \in Created /\ SameFields(n))
  /\ SameClosers(n) /\ arrived'[n] = arrived[n] /\ (n \in partly' <=> n \in partly)

LEMMA SameSessionFits ==
  ASSUME DataFit, NEW n \in SessionNumbers, SameSession(n), Recorded(n)' = Recorded(n)
  PROVE  /\ sessions'[n].known = sessions[n].known
         /\ n \in Created => SessionFits(n)' /\ SnapshotStays(n)
         /\ n \notin Created => Unknown(n)'
<1>1. CASE n \in Created
  <2>1. SessionFits(n)
    BY <1>1, DataFacts
  <2>2. SameFields(n)
    BY <2>1, FieldsStay DEF SameSession
  <2>3. SessionFits(n)'
    BY <2>1, <2>2, SessionStays DEF SameSession
  <2> QED BY <1>1, <2>2, <2>3 DEF SameFields, SnapshotStays
<1>2. CASE n \notin Created
  <2>1. Unknown(n) /\ sessions'[n] = sessions[n]
    BY <1>2, DataFacts DEF SameSession
  <2>2. Unknown(n)'
    BY <2>1, UnknownStays DEF SameSession
  <2> QED BY <1>2, <2>1, <2>2
<1> QED BY <1>1, <1>2

\* One session changes.
LEMMA OneSession ==
  ASSUME DataFit, NEW k \in Created,
         DOMAIN sessions' = SessionNumbers,
         arrived' \in [SessionNumbers -> [Peers -> Nat]], partly' \subseteq SessionNumbers,
         \A n \in SessionNumbers : n # k => SameSession(n),
         sessions'[k].known = TRUE, SessionFits(k)',
         finished' = finished, Recorded(k) => SnapshotStays(k), current' = current
  PROVE  DataFit' /\ Created' = Created
<1>1. \A n \in SessionNumbers : Recorded(n)' = Recorded(n)
  BY DEF Recorded
<1>2. \A n \in SessionNumbers :
        /\ sessions'[n].known = sessions[n].known
        /\ n \in Created => SessionFits(n)' /\ (Recorded(n) => SnapshotStays(n))
        /\ n \notin Created => Unknown(n)'
  <2> TAKE n \in SessionNumbers
  <2>1. CASE n = k
    BY <2>1, DataFacts
  <2>2. CASE n # k
    BY <2>2, <1>1, SameSessionFits
  <2> QED BY <2>1, <2>2
<1>3. Created' = Created
  BY <1>2 DEF Created
<1>4. \A i \in DOMAIN finished' : RecordFits(i)'
  BY <1>2, <1>3, RecordsStay, DataFacts
<1>5. Numbered'
  BY <1>2, DataFacts DEF Numbered
<1>6. \A n \in SessionNumbers : (IF n \in Created THEN SessionFits(n) ELSE Unknown(n))'
  BY <1>2, <1>3
<1> HIDE DEF Created, SessionFits, Unknown, RecordFits, Numbered
<1> QED BY <1>3, <1>4, <1>5, <1>6, DataFacts DEF DataFit

LEMMA NoSessionChanges ==
  ASSUME DataFit, DOMAIN sessions' = SessionNumbers,
         \A n \in SessionNumbers : SameSession(n),
         UNCHANGED <<finished, current, arrived, partly>>
  PROVE  DataFit' /\ Created' = Created
<1>1. \A n \in SessionNumbers : Recorded(n)' = Recorded(n)
  BY DEF Recorded
<1>2. \A n \in SessionNumbers :
        /\ sessions'[n].known = sessions[n].known
        /\ n \in Created => SessionFits(n)' /\ SnapshotStays(n)
        /\ n \notin Created => Unknown(n)'
  BY <1>1, SameSessionFits
<1>3. Created' = Created
  BY <1>2 DEF Created
<1>4. \A i \in DOMAIN finished' : RecordFits(i)'
  BY <1>2, <1>3, RecordsStay, DataFacts
<1>5. Numbered'
  BY <1>2, DataFacts DEF Numbered
<1>6. \A n \in SessionNumbers : (IF n \in Created THEN SessionFits(n) ELSE Unknown(n))'
  BY <1>2, <1>3
<1> HIDE DEF Created, SessionFits, Unknown, RecordFits, Numbered
<1> QED BY <1>3, <1>4, <1>5, <1>6, DataFacts DEF DataFit

----------------------------------------------------------------------------
\* Steps of one thread that finish nothing.

\* A thread other than k's pump, or at another session, stays.
OthersStay(b, k) ==
  \A n \in SessionNumbers, a \in Actors :
    a # b \/ (b = "pump" /\ n # k) => ThreadOf(a, n)' = ThreadOf(a, n)
Idle(t) == t.pc \notin {"sockets", "record"}

LEMMA IdleStays ==
  ASSUME NEW b \in Actors, NEW k, OthersStay(b, k),
         \A n \in SessionNumbers : Idle(ThreadOf(b, n)) \/ (b = "pump" /\ n # k),
         \A n \in SessionNumbers : Idle(ThreadOf(b, n)') \/ (b = "pump" /\ n # k)
  PROVE  \A n \in SessionNumbers : SameClosers(n)
<1> SUFFICES ASSUME NEW n \in SessionNumbers, NEW a \in Actors
             PROVE  /\ Closing(ThreadOf(a, n), n)' <=> Closing(ThreadOf(a, n), n)
                    /\ Closing(ThreadOf(a, n), n) => ThreadOf(a, n)' = ThreadOf(a, n)
  BY DEF SameClosers
<1>1. CASE a # b \/ (b = "pump" /\ n # k)
  <2>1. ThreadOf(a, n)' = ThreadOf(a, n)
    BY <1>1 DEF OthersStay
  <2> QED BY <2>1 DEF Closing
<1>2. CASE a = b /\ ~(b = "pump" /\ n # k)
  <2>1. Idle(ThreadOf(b, n)) /\ Idle(ThreadOf(b, n)')
    BY <1>2
  <2> QED BY <1>2, <2>1 DEF Closing, Idle
<1> QED BY <1>1, <1>2

LEMMA AcceptorAlone ==
  ASSUME tester' = tester, pumps' = pumps
  PROVE  OthersStay("acceptor", 0)
BY DEF OthersStay, ThreadOf, Actors
LEMMA TesterAlone ==
  ASSUME acceptor' = acceptor, pumps' = pumps
  PROVE  OthersStay("tester", 0)
BY DEF OthersStay, ThreadOf, Actors
LEMMA PumpAlone ==
  ASSUME acceptor' = acceptor, tester' = tester, DOMAIN pumps = SessionNumbers,
         NEW k \in SessionNumbers, NEW t, pumps' = [pumps EXCEPT ![k] = t]
  PROVE  OthersStay("pump", k) /\ ThreadOf("pump", k)' = t /\ ThreadOf("pump", k) = pumps[k]
BY DEF OthersStay, ThreadOf, Actors

LEMMA AcceptorIdle ==
  ASSUME tester' = tester, pumps' = pumps, Idle(acceptor), Idle(acceptor')
  PROVE  \A n \in SessionNumbers : SameClosers(n)
<1>1. \A n \in SessionNumbers : Idle(ThreadOf("acceptor", n)) /\ Idle(ThreadOf("acceptor", n)')
  BY DEF ThreadOf
<1> QED BY <1>1, AcceptorAlone, IdleStays DEF Actors
LEMMA TesterIdle ==
  ASSUME acceptor' = acceptor, pumps' = pumps, Idle(tester), Idle(tester')
  PROVE  \A n \in SessionNumbers : SameClosers(n)
<1>1. \A n \in SessionNumbers : Idle(ThreadOf("tester", n)) /\ Idle(ThreadOf("tester", n)')
  BY DEF ThreadOf
<1> QED BY <1>1, TesterAlone, IdleStays DEF Actors
LEMMA PumpIdle ==
  ASSUME acceptor' = acceptor, tester' = tester, DOMAIN pumps = SessionNumbers,
         NEW k \in SessionNumbers, NEW t, pumps' = [pumps EXCEPT ![k] = t],
         Idle(pumps[k]), Idle(t)
  PROVE  \A n \in SessionNumbers : SameClosers(n)
<1>1. \A n \in SessionNumbers : n = k \/ n # k
  OBVIOUS
<1>2. Idle(ThreadOf("pump", k)) /\ Idle(ThreadOf("pump", k)')
  BY PumpAlone
<1>3. \A n \in SessionNumbers : Idle(ThreadOf("pump", n)) \/ ("pump" = "pump" /\ n # k)
  BY <1>2
<1>4. \A n \in SessionNumbers : Idle(ThreadOf("pump", n)') \/ ("pump" = "pump" /\ n # k)
  BY <1>2
<1>5. OthersStay("pump", k)
  BY PumpAlone
<1> HIDE DEF Idle, ThreadOf, OthersStay, SameClosers
<1> QED BY <1>3, <1>4, <1>5, IdleStays DEF Actors

LEMMA DataUntouched ==
  ASSUME DataFit, UNCHANGED <<sessions, finished, current, arrived, partly>>,
         \A n \in SessionNumbers : SameClosers(n)
  PROVE  DataFit' /\ Created' = Created
<1>1. \A n \in SessionNumbers : SameSession(n)
  BY DEF SameSession
<1>2. DOMAIN sessions' = SessionNumbers
  BY DataFacts
<1> QED BY <1>1, <1>2, NoSessionChanges

----------------------------------------------------------------------------
\* The threads fit when one of them moves.

ClosedGrows == \A n \in Created : sessions[n].closed => sessions'[n].closed

LEMMA ThreadsFacts ==
  ASSUME ThreadsFit
  PROVE  /\ DOMAIN pumps = SessionNumbers /\ AcceptorFits /\ TesterFits
         /\ \A n \in SessionNumbers : PumpFits(n) /\ (Starting(n) => Pending(n))
BY DEF ThreadsFit

LEMMA AcceptorStays ==
  ASSUME AcceptorFits, Created' = Created, acceptor' = acceptor, pumps' = pumps
  PROVE  AcceptorFits'
BY DEF AcceptorFits, Finisher, Starting
LEMMA TesterStays ==
  ASSUME TesterFits, Created \subseteq Created', tester' = tester
  PROVE  TesterFits'
BY DEF TesterFits, Finisher
LEMMA PumpStays ==
  ASSUME NEW n, PumpFits(n), Created \subseteq Created', ClosedGrows, pumps'[n] = pumps[n]
  PROVE  PumpFits(n)'
BY DEF PumpFits, Finisher, ClosedGrows, PumpEnded, ThreadAt
LEMMA PendingStays ==
  ASSUME NEW n, Starting(n) => Pending(n), Created' = Created, acceptor' = acceptor,
         pumps'[n].pc = pumps[n].pc
  PROVE  (Starting(n) => Pending(n))'
BY DEF Starting, Pending

LEMMA AcceptorMoves ==
  ASSUME ThreadsFit, Created' = Created, ClosedGrows, tester' = tester, pumps' = pumps,
         AcceptorFits', \A n \in SessionNumbers : Starting(n) => Pending(n)'
  PROVE  ThreadsFit'
<1>1. \A n \in SessionNumbers : Starting(n)' = Starting(n)
  BY DEF Starting
<1>2. \A n \in SessionNumbers : PumpFits(n)'
  BY PumpStays, ThreadsFacts
<1> HIDE DEF Starting, Pending, PumpFits, AcceptorFits, TesterFits
<1> QED BY <1>1, <1>2, TesterStays, ThreadsFacts DEF ThreadsFit

LEMMA TesterMoves ==
  ASSUME ThreadsFit, Created' = Created, ClosedGrows, acceptor' = acceptor, pumps' = pumps,
         TesterFits'
  PROVE  ThreadsFit'
<1>1. \A n \in SessionNumbers : PumpFits(n)' /\ (Starting(n) => Pending(n))'
  BY PumpStays, PendingStays, ThreadsFacts
<1> HIDE DEF Starting, Pending, PumpFits, AcceptorFits, TesterFits
<1> QED BY <1>1, AcceptorStays, ThreadsFacts DEF ThreadsFit

LEMMA PumpMoves ==
  ASSUME ThreadsFit, Created' = Created, ClosedGrows, acceptor' = acceptor, tester' = tester,
         NEW k \in SessionNumbers, NEW t, pumps' = [pumps EXCEPT ![k] = t],
         pumps[k].pc # "none", t.pc # "none", PumpFits(k)'
  PROVE  ThreadsFit'
<1>1. DOMAIN pumps' = SessionNumbers /\ pumps'[k] = t
      /\ \A n \in SessionNumbers : n # k => pumps'[n] = pumps[n]
  BY ThreadsFacts
<1>2. \A n \in SessionNumbers : n # k => PumpFits(n)' /\ (Starting(n) => Pending(n))'
  BY <1>1, PumpStays, PendingStays, ThreadsFacts
<1>3. ~Starting(k)'
  BY <1>1 DEF Starting
<1>4. AcceptorFits'
  <2>1. \A n \in SessionNumbers : Starting(n) => Starting(n)'
    BY <1>1 DEF Starting
  <2>2. \A n : Starting(n) => n \in SessionNumbers
    BY DEF Starting, Created
  <2> QED BY <2>1, <2>2, ThreadsFacts DEF AcceptorFits, Finisher
<1>5. \A n \in SessionNumbers : (PumpFits(n) /\ (Starting(n) => Pending(n)))'
  BY <1>2, <1>3
<1> HIDE DEF Starting, Pending, PumpFits, AcceptorFits, TesterFits
<1> QED BY <1>1, <1>4, <1>5, TesterStays, ThreadsFacts DEF ThreadsFit

----------------------------------------------------------------------------
\* The steps that finish nothing.

LEMMA InvFacts ==
  ASSUME ProxyInv
  PROVE  DataFit /\ ThreadsFit /\ NoneLeft
BY DEF ProxyInv

LEMMA AcceptorRuns ==
  ASSUME NoneLeft, acceptor.pc # "ended", tester' = tester
  PROVE  NoneLeft'
BY PlainThreads DEF NoneLeft
LEMMA PumpRuns ==
  ASSUME NoneLeft, NEW k \in SessionNumbers, pumps[k].pc \notin {"none", "ended"},
         tester' = tester
  PROVE  NoneLeft'
BY DEF NoneLeft
LEMMA TesterRuns ==
  ASSUME tester'.pc # "closed"
  PROVE  NoneLeft'
BY PlainThreads DEF NoneLeft

\* What the acceptor is by its pc.
LEMMA AcceptorKinds ==
  ASSUME AcceptorFits
  PROVE  /\ acceptor.pc = "connected" => Created # SessionNumbers
         /\ acceptor.pc = "start" => acceptor = [pc |-> "start", n |-> acceptor.n]
                                     /\ Starting(acceptor.n)
         /\ InFinish(acceptor) => /\ Finisher(acceptor) /\ Starting(acceptor.then.n)
                                  /\ acceptor.then = [pc |-> "start", n |-> acceptor.then.n]
<1>1. ThreadAt("accept").pc = "accept" /\ ThreadAt("ended").pc = "ended"
      /\ ThreadAt("connected").pc = "connected"
  BY PlainThreads
<1>2. Finisher(acceptor) => InFinish(acceptor)
  BY DEF Finisher
<1> HIDE DEF Finisher, Starting
<1> QED BY <1>1, <1>2 DEF AcceptorFits, InFinish

LEMMA SameClosed == ASSUME sessions' = sessions PROVE ClosedGrows
BY DEF ClosedGrows

\* The acceptor between two places where it closes nothing.
LEMMA AcceptorSteps ==
  ASSUME ProxyInv, acceptor.pc \in {"accept", "connected"},
         acceptor' \in {ThreadAt("accept"), ThreadAt("connected"), ThreadAt("ended")},
         acceptor' = ThreadAt("connected") => Created # SessionNumbers,
         UNCHANGED <<sessions, current, finished, pumps, tester, arrived, partly>>
  PROVE  ProxyInv'
<1>1. Idle(acceptor) /\ Idle(acceptor')
  BY PlainThreads DEF Idle
<1>2. DataFit' /\ Created' = Created
  BY <1>1, AcceptorIdle, DataUntouched, InvFacts
<1>3. \A n \in SessionNumbers : ~Starting(n)
  <2>1. \A n : ~Pending(n)
    BY DEF Pending, InFinish
  <2> QED BY <2>1, InvFacts, ThreadsFacts
<1>4. AcceptorFits'
  BY <1>2 DEF AcceptorFits
<1>5. ThreadsFit'
  BY <1>2, <1>3, <1>4, AcceptorMoves, SameClosed, InvFacts
<1> QED BY <1>2, <1>5, AcceptorRuns, InvFacts DEF ProxyInv

LEMMA BelowFull == ASSUME ProxyAssumption, ProxyInv, Cardinality(Created) < MaxSessions
                   PROVE  Created # SessionNumbers
<1>1. Cardinality(1 .. MaxSessions) = MaxSessions
  BY FS_Interval DEF ProxyAssumption
<1> QED BY <1>1 DEF SessionNumbers, ProxyAssumption

LEMMA AcceptsInv == ASSUME ProxyInv, AcceptsClient PROVE ProxyInv'
<1>1. Created # SessionNumbers
  BY ProxyAssumption, BelowFull DEF AcceptsClient
<1> QED BY <1>1, AcceptorSteps DEF AcceptsClient
LEMMA RefusesInv == ASSUME ProxyInv, TargetRefuses PROVE ProxyInv'
<1>1. acceptor' # ThreadAt("connected")
  BY PlainThreads DEF TargetRefuses
<1> QED BY <1>1, AcceptorSteps DEF TargetRefuses
LEMMA EndsInv == ASSUME ProxyInv, AcceptorEnds PROVE ProxyInv'
<1>1. acceptor' # ThreadAt("connected")
  BY PlainThreads DEF AcceptorEnds
<1> QED BY <1>1, AcceptorSteps DEF AcceptorEnds

LEMMA StartsInv == ASSUME ProxyInv, StartsPump PROVE ProxyInv'
<1> DEFINE k == acceptor.n
<1>1. acceptor = [pc |-> "start", n |-> k] /\ Starting(k) /\ k \in Created
      /\ k \in SessionNumbers /\ acceptor.pc = "start"
  BY InvFacts, ThreadsFacts, AcceptorKinds DEF StartsPump, Starting, Created
<1>2. DOMAIN pumps' = SessionNumbers /\ pumps'[k] = ThreadAt("look")
      /\ \A n \in SessionNumbers : n # k => pumps'[n] = pumps[n]
  BY <1>1, InvFacts, ThreadsFacts DEF StartsPump
<1>3. \A n \in SessionNumbers : SameClosers(n)
  <2> SUFFICES ASSUME NEW n \in SessionNumbers, NEW a \in Actors
               PROVE  /\ Closing(ThreadOf(a, n), n)' <=> Closing(ThreadOf(a, n), n)
                      /\ Closing(ThreadOf(a, n), n) => ThreadOf(a, n)' = ThreadOf(a, n)
    BY DEF SameClosers
  <2>1. acceptor'.pc = "accept" /\ ThreadAt("look").pc = "look" /\ pumps[k].pc = "none"
    BY <1>1, PlainThreads DEF StartsPump, Starting
  <2>2. CASE a = "acceptor"
    BY <2>1, <2>2, <1>1 DEF ThreadOf, Closing
  <2>3. CASE a = "tester"
    BY <2>3 DEF ThreadOf, Closing, StartsPump
  <2>4. CASE a = "pump" /\ n = k
    BY <2>1, <2>4, <1>2 DEF ThreadOf, Closing
  <2>5. CASE a = "pump" /\ n # k
    BY <2>5, <1>2 DEF ThreadOf, Closing
  <2> QED BY <2>2, <2>3, <2>4, <2>5 DEF Actors
<1>4. DataFit' /\ Created' = Created
  BY <1>3, DataUntouched, InvFacts DEF StartsPump
<1>5. AcceptorFits'
  BY DEF AcceptorFits, StartsPump
<1>6. \A n \in SessionNumbers : PumpFits(n)' /\ ~Starting(n)'
  <2> TAKE n \in SessionNumbers
  <2>1. CASE n = k
    <3>1. ThreadAt("look") # PumpEnded /\ ThreadAt("look").pc # "none"
      BY PlainThreads DEF PumpEnded
    <3> QED BY <3>1, <2>1, <1>1, <1>2, <1>4 DEF PumpFits, Starting
  <2>2. CASE n # k
    <3>1. ~Starting(n)
      BY <2>2, <1>1, InvFacts, ThreadsFacts DEF Pending, InFinish
    <3>2. PumpFits(n)'
      BY <2>2, <1>2, <1>4, PumpStays, SameClosed, InvFacts, ThreadsFacts DEF StartsPump
    <3> QED BY <2>2, <3>1, <3>2, <1>2, <1>4 DEF Starting
  <2> QED BY <2>1, <2>2
<1>7. TesterFits'
  BY <1>4, TesterStays, InvFacts, ThreadsFacts DEF StartsPump
<1>8. ThreadsFit'
  BY <1>2, <1>5, <1>6, <1>7 DEF ThreadsFit
<1> QED BY <1>1, <1>4, <1>8, AcceptorRuns, InvFacts DEF ProxyInv, StartsPump

----------------------------------------------------------------------------
\* A new session gets the next number.

LEMMA NextNumber ==
  ASSUME ProxyAssumption, DataFit, Created # SessionNumbers
  PROVE  /\ Cardinality(Created) + 1 \in SessionNumbers \ Created
         /\ \A n \in Created : n <= Cardinality(Created)
         /\ \A n \in SessionNumbers : n \in Created <=> n <= Cardinality(Created)
         /\ Cardinality(Created) \in Nat
<1>1. PICK k \in 0 .. MaxSessions : \A n \in SessionNumbers : sessions[n].known <=> n <= k
  BY DataFacts DEF Numbered
<1>2. Created = 1 .. k
  <2>1. \A n \in 1 .. k : n \in SessionNumbers
    BY DEF SessionNumbers, ProxyAssumption
  <2>2. \A n \in SessionNumbers : n \in 1 .. k <=> n <= k
    BY DEF SessionNumbers, ProxyAssumption
  <2> QED BY <1>1, <2>1, <2>2 DEF Created
<1>3. Cardinality(1 .. k) = k
  BY FS_Interval DEF ProxyAssumption
<1>4. k < MaxSessions
  BY <1>1, <1>2 DEF SessionNumbers, ProxyAssumption
<1> QED BY <1>1, <1>2, <1>3, <1>4 DEF SessionNumbers, ProxyAssumption

LEMMA NewSessionFields ==
  /\ SessionRecord(NewSession) /\ NewSession.known = TRUE /\ NewSession.fault = "none"
  /\ NewSession.closed = FALSE /\ NewSession.black = FALSE /\ NewSession.sockets = "open"
  /\ NewSession.passed = NoUnits /\ NewSession.passed \in [Peers -> Nat]
BY DEF NewSession, SessionRecord, SessionFields, NoUnits, Peers

PublishedAs(n) ==
  LET starts == [pc |-> "start", n |-> n]
  IN  IF current # 0 /\ ~sessions[current].closed
      THEN Finishing(current, "superseded", TRUE, starts) ELSE starts
LEMMA Publishing ==
  ASSUME PublishesSession, ~stopping
  PROVE  /\ sessions' = [sessions EXCEPT ![Cardinality(Created) + 1] = NewSession]
         /\ current' = Cardinality(Created) + 1
         /\ acceptor' = PublishedAs(Cardinality(Created) + 1)
         /\ acceptor.pc = "connected"
         /\ UNCHANGED <<finished, pumps, tester, stopping, cuts, units, arrived, partly>>
BY DEF PublishesSession, PublishedAs

LEMMA PublishedData ==
  ASSUME ProxyInv, NEW k \in SessionNumbers \ Created,
         \A n \in SessionNumbers : n \in Created <=> n < k, k \in Nat,
         sessions' = [sessions EXCEPT ![k] = NewSession], current' = k,
         UNCHANGED <<finished, arrived, partly>>, \A n \in SessionNumbers : SameClosers(n)
  PROVE  DataFit' /\ Created' = Created \cup {k} /\ ClosedGrows
<1> USE InvFacts
<1>1. DOMAIN sessions' = SessionNumbers /\ sessions'[k] = NewSession
      /\ \A n \in SessionNumbers : n # k => sessions'[n] = sessions[n]
  BY DataFacts
<1>2. Created' = Created \cup {k} /\ ClosedGrows
  BY <1>1, NewSessionFields DEF Created, ClosedGrows
<1>3. \A n \in SessionNumbers : Recorded(n)' = Recorded(n)
  BY DEF Recorded
<1>4. \A n \in SessionNumbers : n # k =>
        /\ sessions'[n].known = sessions[n].known
        /\ n \in Created => SessionFits(n)' /\ SnapshotStays(n)
        /\ n \notin Created => Unknown(n)'
  <2> SUFFICES ASSUME NEW n \in SessionNumbers, n # k
               PROVE  SameSession(n)
    BY <1>3, SameSessionFits
  <2> QED BY <1>1 DEF SameSession
<1>5. SessionFits(k)'
  <2>1. Unknown(k)
    BY DataFacts
  <2>2. Closers(k)' = {} /\ ~Recorded(k)'
    BY <2>1, <1>3, ClosersStay DEF Unknown
  <2>3. ClosedByOne(k)'
    <3> HIDE DEF Closers, Recorded
    <3> QED BY <2>2, <1>1, NewSessionFields DEF ClosedByOne
  <2>4. Counted(k)'
    <3>1. arrived'[k] = NoUnits /\ k \notin partly'
      BY <2>1 DEF Unknown
    <3>2. \A e \in Peers : OtherPeer(e) \in Peers
      BY DEF Peers, OtherPeer
    <3> QED BY <3>1, <3>2, <1>1, NewSessionFields DEF Counted, NoUnits
  <2> HIDE DEF ClosedByOne, Counted
  <2> QED BY <2>3, <2>4, <1>1, NewSessionFields DEF SessionFits
<1>6. \A i \in DOMAIN finished' : RecordFits(i)'
  <2>1. k \notin Created
    OBVIOUS
  <2>2. \A n \in Created : Recorded(n) => SnapshotStays(n)
    BY <1>4, DataFacts
  <2> QED BY <2>2, <1>2, RecordsStay
<1>7. Numbered'
  <2>1. k \in 0 .. MaxSessions
    BY ProxyAssumption DEF SessionNumbers, ProxyAssumption
  <2>2. \A n \in SessionNumbers : sessions'[n].known <=> n <= k
    <3>1. \A n \in SessionNumbers : n \in Nat
      BY DEF SessionNumbers
    <3>2. \A n \in SessionNumbers : n # k => (sessions'[n].known <=> n \in Created)
      BY <1>1 DEF Created
    <3> QED BY <3>1, <3>2, <1>1, NewSessionFields
  <2> QED BY <2>1, <2>2 DEF Numbered
<1>8. \A n \in SessionNumbers : (IF n \in Created THEN SessionFits(n) ELSE Unknown(n))'
  <2> TAKE n \in SessionNumbers
  <2>1. CASE n = k
    BY <2>1, <1>2, <1>5
  <2>2. CASE n # k
    BY <2>2, <1>2, <1>4
  <2> QED BY <2>1, <2>2
<1>9. \A n \in Created' : n <= k
  <2>1. \A n \in SessionNumbers : n \in Nat
    BY DEF SessionNumbers
  <2>2. \A n \in Created : n \in SessionNumbers
    BY DEF Created
  <2>3. ASSUME NEW n \in Created PROVE n <= k
    <3>1. n \in SessionNumbers /\ n \in Nat
      BY <2>1, <2>2
    <3>2. n < k
      BY <3>1
    <3> QED BY <3>1, <3>2
  <2>4. k <= k
    OBVIOUS
  <2> QED BY <2>3, <2>4, <1>2
<1> HIDE DEF Created, SessionFits, Unknown, RecordFits, Numbered
<1> QED BY <1>1, <1>2, <1>6, <1>7, <1>8, <1>9, DataFacts DEF DataFit

LEMMA PublishesInv == ASSUME ProxyInv, PublishesSession PROVE ProxyInv'
<1> USE InvFacts
<1>1. CASE stopping
  <2>1. acceptor' = ThreadAt("ended") /\ acceptor.pc = "connected"
        /\ UNCHANGED <<sessions, current, finished, pumps, tester, arrived, partly>>
    BY <1>1 DEF PublishesSession
  <2>2. acceptor' # ThreadAt("connected")
    BY <2>1, PlainThreads
  <2> QED BY <2>1, <2>2, AcceptorSteps
<1>2. CASE ~stopping
  <2> PICK k : k = Cardinality(Created) + 1
    OBVIOUS
  <2>1. /\ sessions' = [sessions EXCEPT ![k] = NewSession] /\ current' = k
        /\ acceptor' = PublishedAs(k) /\ acceptor.pc = "connected"
        /\ UNCHANGED <<finished, pumps, tester, arrived, partly>>
    BY <1>2, Publishing
  <2>2. k \in SessionNumbers \ Created /\ k \in Nat
        /\ \A n \in SessionNumbers : n \in Created <=> n < k
    <3>1. Created # SessionNumbers
      BY <2>1, ThreadsFacts, AcceptorKinds
    <3>2. \A n \in SessionNumbers : n \in Nat
      BY DEF SessionNumbers
    <3>3. \A n \in SessionNumbers : n <= Cardinality(Created) <=> n < k
      BY <3>1, <3>2, ProxyAssumption, NextNumber
    <3> QED BY <3>1, <3>3, ProxyAssumption, NextNumber
  <2>3. current # 0 => current \in Created
    BY DataFacts
  <2>4. Idle(acceptor) /\ Idle(acceptor') /\ acceptor'.pc \in {"start", "finish"}
        /\ (acceptor'.pc = "start" => acceptor' = [pc |-> "start", n |-> k])
        /\ (acceptor'.pc = "finish" => Finisher(acceptor')
              /\ acceptor'.then = [pc |-> "start", n |-> k])
    <3>1. CASE current # 0 /\ ~sessions[current].closed
      <4>1. acceptor' = Finishing(current, "superseded", TRUE, [pc |-> "start", n |-> k])
        BY <3>1, <2>1 DEF PublishedAs
      <4> DEFINE t == Finishing(current, "superseded", TRUE, [pc |-> "start", n |-> k])
      <4>2. t.pc = "finish" /\ t.then = [pc |-> "start", n |-> k] /\ Finisher(t)
        <5>1. t.pc = "finish" /\ t.n = current /\ t.reason = "superseded" /\ t.reset = TRUE
              /\ t.then = [pc |-> "start", n |-> k] /\ InFinish(t)
              /\ t = [pc |-> t.pc, n |-> t.n, reason |-> t.reason, reset |-> t.reset, then |-> t.then]
          BY DEF Finishing, InFinish
        <5>2. t.n \in Created
          BY <5>1, <3>1, <2>3
        <5>3. t.reason \in Faults /\ t.reset \in BOOLEAN
          BY <5>1 DEF Faults
        <5> HIDE DEF t
        <5> QED BY <5>1, <5>2, <5>3 DEF Finisher
      <4> HIDE DEF t, Finisher
      <4>3. acceptor' = t
        BY <4>1 DEF t
      <4> QED BY <4>2, <4>3, <2>1 DEF Idle
    <3>2. CASE ~(current # 0 /\ ~sessions[current].closed)
      BY <3>2, <2>1 DEF PublishedAs, Idle
    <3> QED BY <3>1, <3>2
  <2>5. \A n \in SessionNumbers : SameClosers(n)
    BY <2>1, <2>4, AcceptorIdle
  <2>6. DataFit' /\ Created' = Created \cup {k} /\ ClosedGrows
    BY <2>1, <2>2, <2>5, PublishedData
  <2>7. pumps[k] = ThreadAt("none") /\ pumps[k].pc = "none"
    BY <2>2, ThreadsFacts, PlainThreads DEF PumpFits
  <2>8. Starting(k)'
    BY <2>6, <2>7, <2>1 DEF Starting
  <2>9. AcceptorFits'
    <3>1. CASE acceptor'.pc = "start"
      BY <3>1, <2>4, <2>8 DEF AcceptorFits
    <3>2. CASE acceptor'.pc = "finish"
      <4>1. Finisher(acceptor)'
        BY <3>2, <2>4, <2>6 DEF Finisher
      <4>2. acceptor'.then.n = k
        BY <3>2, <2>4
      <4> QED BY <3>2, <2>4, <4>1, <4>2, <2>8 DEF AcceptorFits
    <3> QED BY <2>4, <3>1, <3>2
  <2>10. \A n \in SessionNumbers : (PumpFits(n) /\ (Starting(n) => Pending(n)))'
    <3> TAKE n \in SessionNumbers
    <3>1. PumpFits(n)'
      BY <2>1, <2>6, PumpStays, ThreadsFacts
    <3>2. CASE n = k
      <4>1. Pending(k)'
        BY <2>4 DEF Pending, InFinish
      <4> QED BY <3>1, <3>2, <4>1
    <3>3. CASE n # k
      <4>1. ~Starting(n)
        BY <2>1, ThreadsFacts DEF Pending, InFinish
      <4> QED BY <3>1, <3>3, <4>1, <2>1, <2>6 DEF Starting
    <3> QED BY <3>2, <3>3
  <2>11. TesterFits'
    BY <2>1, <2>6, TesterStays, ThreadsFacts
  <2>12. ThreadsFit'
    BY <2>1, <2>9, <2>10, <2>11, ThreadsFacts DEF ThreadsFit
  <2> QED BY <2>1, <2>6, <2>12, AcceptorRuns DEF ProxyInv
<1> QED BY <1>1, <1>2

----------------------------------------------------------------------------
\* The ends, and a pump that finishes nothing.

LEMMA ThreadsUntouched ==
  ASSUME ProxyInv, Created' = Created, ClosedGrows, UNCHANGED <<acceptor, tester, pumps>>
  PROVE  ThreadsFit' /\ NoneLeft'
<1>1. TesterFits'
  BY TesterStays, InvFacts, ThreadsFacts
<1>2. ThreadsFit'
  BY <1>1, TesterMoves, InvFacts
<1>3. NoneLeft'
  BY InvFacts DEF NoneLeft
<1> QED BY <1>2, <1>3

LEMMA NoThreadMoves ==
  ASSUME UNCHANGED <<acceptor, tester, pumps>>
  PROVE  \A n : SameClosers(n)
BY DEF SameClosers, ThreadOf, Closing

\* The ends change what nobody reads but recv.
LEMMA EndsActInv ==
  ASSUME ProxyInv, NEW k \in Created, NEW s, sessions' = [sessions EXCEPT ![k] = s],
         s = [sessions[k] EXCEPT !.sent = s.sent, !.gone = s.gone],
         UNCHANGED <<current, finished, acceptor, pumps, tester, arrived, partly>>
  PROVE  ProxyInv'
<1> USE InvFacts
<1>1. k \in SessionNumbers /\ SessionFits(k) /\ SessionRecord(sessions[k])
  BY DataFacts DEF SessionFits
<1>2. DOMAIN sessions' = SessionNumbers /\ sessions'[k] = s
      /\ \A n \in SessionNumbers : n # k => sessions'[n] = sessions[n]
  BY <1>1, DataFacts
<1>3. SameFields(k)
  BY <1>1, <1>2 DEF SameFields, SessionRecord, SessionFields
<1>4. \A n \in SessionNumbers : SameSession(n)
  BY <1>2, <1>3, NoThreadMoves DEF SameSession
<1>5. DataFit' /\ Created' = Created
  BY <1>2, <1>4, NoSessionChanges
<1>6. ClosedGrows
  BY <1>2, <1>3 DEF ClosedGrows, SameFields, Created
<1> QED BY <1>5, <1>6, ThreadsUntouched DEF ProxyInv

LEMMA OpenIsCreated ==
  ASSUME NEW n \in SessionNumbers, SessionOpen(n) PROVE n \in Created
BY DEF SessionOpen, Created

LEMMA SendsInv == ASSUME ProxyInv, PeerSends PROVE ProxyInv'
<1>1. PICK n \in SessionNumbers, e \in Peers :
        /\ SessionOpen(n)
        /\ sessions' = [sessions EXCEPT ![n].sent[e] = @ + 1]
        /\ UNCHANGED <<current, finished, acceptor, pumps, tester, arrived, partly>>
  BY DEF PeerSends
<1>2. n \in Created /\ SessionRecord(sessions[n])
  BY <1>1, OpenIsCreated, InvFacts, DataFacts DEF SessionFits
<1> DEFINE s == [sessions[n] EXCEPT !.sent[e] = @ + 1]
<1>3. sessions' = [sessions EXCEPT ![n] = s]
  BY <1>1
<1>4. s = [sessions[n] EXCEPT !.sent = s.sent, !.gone = s.gone]
  BY <1>2 DEF SessionRecord, SessionFields
<1> HIDE DEF s
<1> QED BY <1>1, <1>2, <1>3, <1>4, EndsActInv

LEMMA GoesInv == ASSUME ProxyInv, PeerGoes PROVE ProxyInv'
<1>1. PICK n \in SessionNumbers :
        /\ SessionOpen(n) /\ sessions' = [sessions EXCEPT ![n].gone = TRUE]
        /\ UNCHANGED <<current, finished, acceptor, pumps, tester, arrived, partly>>
  BY DEF PeerGoes
<1>2. n \in Created /\ SessionRecord(sessions[n])
  BY <1>1, OpenIsCreated, InvFacts, DataFacts DEF SessionFits
<1> DEFINE s == [sessions[n] EXCEPT !.gone = TRUE]
<1>3. sessions' = [sessions EXCEPT ![n] = s]
  BY <1>1
<1>4. s = [sessions[n] EXCEPT !.sent = s.sent, !.gone = s.gone]
  BY <1>2 DEF SessionRecord, SessionFields
<1> HIDE DEF s
<1> QED BY <1>1, <1>2, <1>3, <1>4, EndsActInv

\* What a pump is by its pc.
LEMMA PumpKinds ==
  ASSUME NEW n \in SessionNumbers, PumpFits(n), pumps[n].pc # "none"
  PROVE  /\ n \in Created
         /\ pumps[n].pc = "data" => \E e \in Peers : pumps[n] = [pc |-> "data", from |-> e]
         /\ InFinish(pumps[n]) =>
              Finisher(pumps[n]) /\ pumps[n].n = n /\ pumps[n].then = PumpEnded
<1>1. ThreadAt("none").pc = "none" /\ ThreadAt("look").pc = "look" /\ ThreadAt("ended").pc = "ended"
  BY PlainThreads
<1>2. \A e : [pc |-> "data", from |-> e].pc = "data"
  OBVIOUS
<1>3. Finisher(pumps[n]) => InFinish(pumps[n])
  BY DEF Finisher
<1> HIDE DEF Finisher
<1> QED BY <1>1, <1>2, <1>3 DEF PumpFits, InFinish

\* Places of a pump that closes nothing.
PumpPlace(n, t) ==
  \/ t = ThreadAt("look")
  \/ \E e \in Peers : t = [pc |-> "data", from |-> e]
  \/ \E reason \in Faults, reset \in BOOLEAN : t = Finishing(n, reason, reset, PumpEnded)

LEMMA PumpPlaceFits ==
  ASSUME ThreadsFit, NEW k \in Created, NEW t, PumpPlace(k, t), pumps' = [pumps EXCEPT ![k] = t],
         Created' = Created
  PROVE  PumpFits(k)' /\ t.pc # "none" /\ Idle(t)
<1>1. k \in SessionNumbers /\ pumps'[k] = t
  BY ThreadsFacts DEF Created
<1>2. ThreadAt("look").pc = "look" /\ PumpEnded.pc = "ended"
  BY PlainThreads DEF PumpEnded
<1>3. CASE t = ThreadAt("look")
  <2>1. t # PumpEnded
    BY <1>2, <1>3
  <2> QED BY <1>1, <1>2, <1>3, <2>1 DEF PumpFits, Idle
<1>4. CASE \E e \in Peers : t = [pc |-> "data", from |-> e]
  <2>1. t # PumpEnded /\ t.pc = "data"
    BY <1>2, <1>4
  <2> QED BY <1>1, <1>4, <2>1 DEF PumpFits, Idle
<1>5. CASE \E reason \in Faults, reset \in BOOLEAN : t = Finishing(k, reason, reset, PumpEnded)
  <2>1. PICK reason \in Faults, reset \in BOOLEAN : t = Finishing(k, reason, reset, PumpEnded)
    BY <1>5
  <2>2. t.pc = "finish" /\ t.n = k /\ t.reason = reason /\ t.reset = reset /\ t.then = PumpEnded
        /\ InFinish(t)
        /\ t = [pc |-> t.pc, n |-> t.n, reason |-> t.reason, reset |-> t.reset, then |-> t.then]
    BY <2>1 DEF Finishing, InFinish
  <2>3. t # PumpEnded
    BY <1>2, <2>2
  <2>4. Finisher(pumps[k])' /\ (pumps[k].n = k)' /\ (pumps[k].then = PumpEnded)'
    BY <1>1, <2>2, <2>1 DEF Finisher
  <2> HIDE DEF Finisher
  <2> QED BY <1>1, <2>2, <2>3, <2>4 DEF PumpFits, Idle
<1> QED BY <1>3, <1>4, <1>5 DEF PumpPlace

LEMMA PumpSteps ==
  ASSUME ProxyInv, NEW k \in SessionNumbers, pumps[k].pc \in {"look", "data"},
         NEW t, PumpPlace(k, t), PumpGoes(k, t),
         UNCHANGED <<sessions, current, finished, acceptor, tester, arrived, partly>>
  PROVE  ProxyInv'
<1> USE InvFacts
<1>1. k \in Created /\ pumps' = [pumps EXCEPT ![k] = t] /\ DOMAIN pumps = SessionNumbers
  BY ThreadsFacts, PumpKinds DEF PumpGoes
<1>2. Created' = Created /\ ClosedGrows
  BY SameClosed DEF Created
<1>3. PumpFits(k)' /\ t.pc # "none" /\ Idle(t)
  BY <1>1, <1>2, PumpPlaceFits
<1>4. Idle(pumps[k])
  BY DEF Idle
<1>5. \A n \in SessionNumbers : SameClosers(n)
  BY <1>1, <1>3, <1>4, PumpIdle
<1>6. DataFit'
  BY <1>5, DataUntouched
<1>7. ThreadsFit'
  BY <1>1, <1>2, <1>3, PumpMoves
<1> QED BY <1>6, <1>7, PumpRuns DEF ProxyInv

LEMMA LeavesInv ==
  ASSUME ProxyInv, NEW n \in SessionNumbers, LeavesLoop(n) PROVE ProxyInv'
<1>1. PumpPlace(n, Finishing(n, "proxy-close", FALSE, PumpEnded))
  BY DEF PumpPlace, Faults
<1> QED BY <1>1, PumpSteps DEF LeavesLoop, OtherThreads

LEMMA ReceivesInv ==
  ASSUME ProxyInv, NEW n \in SessionNumbers, Receives(n) PROVE ProxyInv'
<1>1. pumps[n].pc = "look" /\ UNCHANGED <<sessions, current, finished, acceptor, tester, arrived, partly>>
  BY DEF Receives, OtherThreads
<1>2. PICK t : PumpPlace(n, t) /\ PumpGoes(n, t)
  <2>1. CASE \E e \in Peers : PumpGoes(n, [pc |-> "data", from |-> e])
    BY <2>1 DEF PumpPlace
  <2>2. CASE PumpGoes(n, Finishing(n, "peer-close", FALSE, PumpEnded))
    <3>1. PumpPlace(n, Finishing(n, "peer-close", FALSE, PumpEnded))
      BY DEF PumpPlace, Faults
    <3> QED BY <3>1, <2>2
  <2> QED BY <2>1, <2>2 DEF Receives
<1> QED BY <1>1, <1>2, PumpSteps

----------------------------------------------------------------------------
\* A pump forwards.

LEMMA SeenArrivals ==
  ASSUME arrived \in [SessionNumbers -> [Peers -> Nat]], NEW k \in SessionNumbers, NEW e \in Peers,
         arrived' = [arrived EXCEPT ![k][OtherPeer(e)] = @ + 1]
  PROVE  /\ arrived' \in [SessionNumbers -> [Peers -> Nat]]
         /\ arrived'[k][OtherPeer(e)] = arrived[k][OtherPeer(e)] + 1
         /\ arrived'[k][e] = arrived[k][e]
         /\ \A n \in SessionNumbers : n # k => arrived'[n] = arrived[n]
<1>1. OtherPeer(e) \in Peers /\ OtherPeer(e) # e
  BY DEF OtherPeer, Peers
<1> QED BY <1>1

\* The pump of k moves, and something of session k changes or has arrived.
LEMMA PumpForwards ==
  ASSUME ProxyInv, NEW k \in SessionNumbers, pumps[k].pc = "data",
         NEW t, PumpPlace(k, t), PumpGoes(k, t),
         DOMAIN sessions' = SessionNumbers, \A n \in SessionNumbers : n # k => sessions'[n] = sessions[n],
         SameFields(k) \/ (sessions'[k].known = TRUE /\ ~sessions[k].closed
                           /\ sessions'[k].closed = sessions[k].closed
                           /\ SessionRecord(sessions'[k]) /\ sessions'[k].fault = sessions[k].fault
                           /\ sessions'[k].passed \in [Peers -> Nat]
                           /\ sessions'[k].sockets = sessions[k].sockets),
         Counted(k)', arrived' \in [SessionNumbers -> [Peers -> Nat]],
         \A n \in SessionNumbers : n # k => arrived'[n] = arrived[n],
         partly' \in {partly, partly \cup {k}},
         UNCHANGED <<current, finished, acceptor, tester>>
  PROVE  ProxyInv'
<1> USE InvFacts
<1>1. k \in Created /\ pumps' = [pumps EXCEPT ![k] = t] /\ DOMAIN pumps = SessionNumbers
      /\ SessionFits(k) /\ ClosedByOne(k) /\ SessionRecord(sessions[k])
      /\ sessions[k].passed \in [Peers -> Nat]
  BY ThreadsFacts, PumpKinds, DataFacts DEF PumpGoes, SessionFits
<1>2. Idle(pumps[k]) /\ Idle(t)
  BY <1>1 DEF Idle, PumpPlace, Finishing, ThreadAt
<1>3. \A n \in SessionNumbers : SameClosers(n)
  BY <1>1, <1>2, PumpIdle
<1>4. /\ sessions'[k].known = TRUE /\ sessions'[k].fault = sessions[k].fault
      /\ sessions'[k].closed = sessions[k].closed /\ sessions'[k].sockets = sessions[k].sockets
      /\ SessionRecord(sessions'[k]) /\ sessions'[k].passed \in [Peers -> Nat]
  <2>1. sessions[k].known = TRUE
    BY <1>1 DEF SessionFits
  <2>2. CASE SameFields(k)
    BY <2>1, <2>2, <1>1 DEF SameFields
  <2>3. CASE ~SameFields(k)
    BY <2>3
  <2> QED BY <2>2, <2>3
<1>5. Recorded(k)' = Recorded(k)
  BY DEF Recorded
<1>6. ClosedByOne(k)'
  BY <1>1, <1>3, <1>4, <1>5, ClosedStays
<1>7. SessionFits(k)'
  <2> HIDE DEF ClosedByOne, Counted
  <2> QED BY <1>1, <1>4, <1>6 DEF SessionFits
<1>8. Recorded(k) => SnapshotStays(k)
  <2>1. CASE SameFields(k)
    BY <2>1 DEF SameFields, SnapshotStays
  <2>2. CASE ~SameFields(k)
    BY <2>2, <1>1 DEF ClosedByOne
  <2> QED BY <2>1, <2>2
<1>9. \A n \in SessionNumbers : n # k => SameSession(n)
  BY <1>3 DEF SameSession
<1>10. partly' \subseteq SessionNumbers
  BY DataFacts
<1>11. DataFit' /\ Created' = Created
  BY <1>1, <1>4, <1>7, <1>8, <1>9, <1>10, OneSession
<1>12. ClosedGrows
  BY <1>4 DEF ClosedGrows, Created
<1>13. PumpFits(k)' /\ t.pc # "none"
  BY <1>1, <1>11, PumpPlaceFits
<1>14. ThreadsFit'
  BY <1>1, <1>11, <1>12, <1>13, PumpMoves
<1> QED BY <1>11, <1>14, PumpRuns DEF ProxyInv

LEMMA ForwardsInv ==
  ASSUME ProxyInv, NEW k \in SessionNumbers, Forwards(k) PROVE ProxyInv'
<1> USE InvFacts
<1>1. pumps[k].pc = "data" /\ UNCHANGED <<current, finished, acceptor, tester>>
  BY DEF Forwards, OtherThreads
<1>2. PICK e \in Peers : pumps[k] = [pc |-> "data", from |-> e]
  BY <1>1, ThreadsFacts, PumpKinds
<1>3. pumps[k].from = e /\ OtherPeer(e) \in Peers /\ OtherPeer(OtherPeer(e)) = e /\ OtherPeer(e) # e
  BY <1>2 DEF OtherPeer, Peers
<1>4. /\ k \in Created /\ SessionFits(k) /\ Counted(k) /\ SessionRecord(sessions[k])
      /\ sessions[k].passed \in [Peers -> Nat] /\ sessions[k].known = TRUE
  BY <1>1, ThreadsFacts, PumpKinds, DataFacts DEF SessionFits
<1>5. PumpPlace(k, ThreadAt("look")) /\ PumpPlace(k, Finishing(k, "forward-error", TRUE, PumpEnded))
  BY DEF PumpPlace, Faults
<1> DEFINE seen == [arrived EXCEPT ![k][OtherPeer(e)] = @ + 1]
<1>6. CASE ~MayForward(k)
  BY <1>1, <1>5, <1>6, PumpSteps DEF Forwards
<1>7. CASE MayForward(k) /\ PumpGoes(k, ThreadAt("look"))
           /\ sessions' = [sessions EXCEPT ![k].passed[e] = @ + 1] /\ arrived' = seen
           /\ partly' = partly
  <2>1. DOMAIN sessions' = SessionNumbers /\ \A n \in SessionNumbers : n # k => sessions'[n] = sessions[n]
    BY <1>7, DataFacts
  <2>2. /\ sessions'[k].passed[e] = sessions[k].passed[e] + 1
        /\ sessions'[k].passed[OtherPeer(e)] = sessions[k].passed[OtherPeer(e)]
        /\ sessions'[k].passed \in [Peers -> Nat]
        /\ sessions'[k].known = TRUE /\ sessions'[k].closed = sessions[k].closed
        /\ sessions'[k].black = sessions[k].black /\ SessionRecord(sessions'[k])
        /\ sessions'[k].fault = sessions[k].fault /\ sessions'[k].sockets = sessions[k].sockets
    <3> DEFINE s == [sessions[k] EXCEPT !.passed[e] = @ + 1]
    <3>1. sessions'[k] = s
      BY <1>7, DataFacts
    <3>2. SessionRecord(s) /\ s.known = TRUE /\ s.closed = sessions[k].closed
          /\ s.black = sessions[k].black /\ s.fault = sessions[k].fault
          /\ s.sockets = sessions[k].sockets
          /\ s.passed = [sessions[k].passed EXCEPT ![e] = @ + 1]
      BY <1>4 DEF SessionRecord, SessionFields
    <3> HIDE DEF s
    <3> QED BY <3>1, <3>2, <1>3, <1>4
  <2>3. arrived' \in [SessionNumbers -> [Peers -> Nat]]
        /\ arrived'[k][OtherPeer(e)] = arrived[k][OtherPeer(e)] + 1 /\ arrived'[k][e] = arrived[k][e]
        /\ \A n \in SessionNumbers : n # k => arrived'[n] = arrived[n]
    BY <1>7, SeenArrivals, DataFacts
  <2>4. \A x \in Peers : x = e \/ x = OtherPeer(e)
    BY DEF Peers, OtherPeer
  <2>5. arrived[k][e] \in Nat /\ arrived[k][OtherPeer(e)] \in Nat
        /\ sessions[k].passed[e] \in Nat /\ sessions[k].passed[OtherPeer(e)] \in Nat
    BY <1>3, <1>4, DataFacts
  <2>6. Counted(k)'
    <3>1. ASSUME NEW x \in Peers
          PROVE  IF k \in partly THEN arrived'[k][x] >= sessions'[k].passed[OtherPeer(x)]
                                 ELSE arrived'[k][x] = sessions'[k].passed[OtherPeer(x)]
      <4>1. IF k \in partly THEN arrived[k][x] >= sessions[k].passed[OtherPeer(x)]
                            ELSE arrived[k][x] = sessions[k].passed[OtherPeer(x)]
        BY <1>4 DEF Counted
      <4>2. CASE x = e
        BY <4>1, <4>2, <2>2, <2>3, <1>3
      <4>3. CASE x = OtherPeer(e)
        BY <4>1, <4>3, <2>2, <2>3, <2>5, <1>3
      <4> QED BY <4>2, <4>3, <2>4
    <3>2. ~sessions'[k].black
      BY <1>7, <2>2 DEF MayForward
    <3> QED BY <3>1, <3>2, <1>7 DEF Counted
  <2>7. ~sessions[k].closed
    BY <1>7 DEF MayForward
  <2> HIDE DEF PumpPlace, PumpGoes, Counted
  <2> QED BY <1>1, <1>5, <1>7, <2>1, <2>2, <2>3, <2>6, <2>7, PumpForwards
<1>8. CASE MayForward(k) /\ PumpGoes(k, Finishing(k, "forward-error", TRUE, PumpEnded))
           /\ sessions' = sessions /\ arrived' = seen /\ partly' = partly \cup {k}
  <2>1. DOMAIN sessions' = SessionNumbers /\ SameFields(k)
    BY <1>8, <1>4, DataFacts, FieldsStay
  <2>2. arrived' \in [SessionNumbers -> [Peers -> Nat]]
        /\ arrived'[k][OtherPeer(e)] = arrived[k][OtherPeer(e)] + 1 /\ arrived'[k][e] = arrived[k][e]
        /\ \A n \in SessionNumbers : n # k => arrived'[n] = arrived[n]
    BY <1>8, SeenArrivals, DataFacts
  <2>3. Counted(k)'
    <3>1. ASSUME NEW x \in Peers
          PROVE  arrived'[k][x] >= sessions[k].passed[OtherPeer(x)]
      <4>1. OtherPeer(x) \in Peers /\ (x = e \/ x = OtherPeer(e))
        BY DEF Peers, OtherPeer
      <4>2. arrived[k][x] \in Nat /\ sessions[k].passed[OtherPeer(x)] \in Nat
        BY <4>1, <1>4, DataFacts
      <4>3. arrived[k][x] >= sessions[k].passed[OtherPeer(x)]
        BY <4>2, <1>4 DEF Counted
      <4>4. arrived'[k][x] \in {arrived[k][x], arrived[k][x] + 1}
        BY <4>1, <2>2
      <4> QED BY <4>2, <4>3, <4>4
    <3>2. k \in partly' /\ sessions' = sessions
      BY <1>8
    <3> QED BY <3>1, <3>2, <1>4 DEF Counted
  <2> HIDE DEF PumpPlace, PumpGoes, Counted
  <2> QED BY <1>1, <1>5, <1>8, <2>1, <2>2, <2>3, PumpForwards
<1>9. CASE MayForward(k) /\ PumpGoes(k, Finishing(k, "forward-error", TRUE, PumpEnded))
           /\ UNCHANGED <<sessions, arrived, partly>>
  BY <1>1, <1>5, <1>9, PumpSteps
<1> QED BY <1>3, <1>6, <1>7, <1>8, <1>9 DEF Forwards

----------------------------------------------------------------------------
\* The test, where it finishes nothing.

TesterPlace(t) ==
  \/ t \in {ThreadAt("idle"), ThreadAt("join")}
  \/ \E n \in Created, reason \in Faults, reset \in BOOLEAN, then \in {ThreadAt("idle"), ThreadAt("join")} :
       t = Finishing(n, reason, reset, then)

LEMMA TesterPlaceFits ==
  ASSUME TesterPlace(tester'), Created' = Created
  PROVE  TesterFits' /\ tester'.pc # "closed" /\ Idle(tester')
<1>1. CASE tester' \in {ThreadAt("idle"), ThreadAt("join")}
  BY <1>1 DEF TesterFits, Idle, ThreadAt
<1>2. CASE tester' \notin {ThreadAt("idle"), ThreadAt("join")}
  <2>1. PICK n \in Created, reason \in Faults, reset \in BOOLEAN,
             then \in {ThreadAt("idle"), ThreadAt("join")} : tester' = Finishing(n, reason, reset, then)
    BY <1>2 DEF TesterPlace
  <2>2. tester'.pc = "finish" /\ tester'.n = n /\ tester'.reason = reason /\ tester'.reset = reset
        /\ tester'.then = then
        /\ tester' = [pc |-> tester'.pc, n |-> tester'.n, reason |-> tester'.reason,
                      reset |-> tester'.reset, then |-> tester'.then]
    BY <2>1 DEF Finishing
  <2>3. Finisher(tester)'
    BY <2>2 DEF Finisher, InFinish
  <2>4. (tester.then \in {ThreadAt("idle"), ThreadAt("join")})'
    BY <2>2
  <2> HIDE DEF Finisher
  <2> QED BY <2>2, <2>3, <2>4 DEF TesterFits, Idle
<1> QED BY <1>1, <1>2

LEMMA ClosesInv == ASSUME ProxyInv, CloseProxy PROVE ProxyInv'
<1> USE InvFacts
<1>1. tester.pc = "idle" /\ Idle(tester)
      /\ UNCHANGED <<sessions, current, finished, acceptor, pumps, arrived, partly>>
  BY DEF CloseProxy, Idle
<1>2. Created' = Created /\ ClosedGrows
  BY <1>1, SameClosed DEF Created
<1>3. TesterPlace(tester')
  <2>1. current # 0 => current \in Created
    BY DataFacts
  <2>2. CASE current = 0
    BY <2>2 DEF CloseProxy, TesterPlace
  <2>3. CASE current # 0
    <3>1. tester' = Finishing(current, "proxy-close", TRUE, ThreadAt("join"))
      BY <2>3 DEF CloseProxy
    <3>2. "proxy-close" \in Faults
      BY DEF Faults
    <3> QED BY <2>1, <2>3, <3>1, <3>2 DEF TesterPlace
  <2> QED BY <2>2, <2>3
<1>4. TesterFits' /\ tester'.pc # "closed" /\ Idle(tester')
  BY <1>2, <1>3, TesterPlaceFits
<1>5. \A n \in SessionNumbers : SameClosers(n)
  BY <1>1, <1>4, TesterIdle
<1>6. DataFit'
  BY <1>1, <1>5, DataUntouched
<1>7. ThreadsFit'
  BY <1>1, <1>2, <1>4, TesterMoves
<1> QED BY <1>4, <1>6, <1>7, TesterRuns DEF ProxyInv

LEMMA JoinsInv == ASSUME ProxyInv, Joins PROVE ProxyInv'
<1> USE InvFacts
<1>1. tester.pc = "join" /\ Idle(tester) /\ tester' = ThreadAt("closed") /\ Idle(tester')
      /\ UNCHANGED <<sessions, current, finished, acceptor, pumps, arrived, partly>>
  BY PlainThreads DEF Joins, Idle
<1>2. Created' = Created /\ ClosedGrows
  BY <1>1, SameClosed DEF Created
<1>3. \A n \in SessionNumbers : SameClosers(n)
  BY <1>1, TesterIdle
<1>4. DataFit'
  BY <1>1, <1>3, DataUntouched
<1>5. TesterFits'
  BY <1>1 DEF TesterFits
<1>6. ThreadsFit'
  BY <1>1, <1>2, <1>5, TesterMoves
<1>7. acceptor' = ThreadAt("ended")
  <2>1. acceptor.pc = "ended"
    BY DEF Joins
  <2> QED BY <1>1, <2>1, ThreadsFacts, PlainThreads DEF AcceptorFits, Finisher, InFinish
<1>8. NoneLeft'
  BY <1>1, <1>7 DEF NoneLeft, Joins
<1> QED BY <1>4, <1>6, <1>8 DEF ProxyInv

LEMMA CutsInv ==
  ASSUME ProxyInv, NEW mode \in {"fin", "rst", "blackhole"}, CutSession(mode)
  PROVE  ProxyInv'
<1> USE InvFacts
<1> PICK k : k = current
  OBVIOUS
<1>1. /\ tester.pc = "idle" /\ Idle(tester) /\ ~sessions[k].closed /\ k = current
      /\ UNCHANGED <<current, finished, acceptor, pumps, arrived, partly>>
      /\ sessions' = [sessions EXCEPT ![k].fault = mode, ![k].black = @ \/ mode = "blackhole",
                                      ![k].told = sessions[k].passed]
      /\ tester' = IF mode = "blackhole" THEN tester
                   ELSE Finishing(k, mode, mode = "rst", ThreadAt("idle"))
  BY DEF CutSession, Idle
<1>2. k \in Created /\ k \in SessionNumbers /\ SessionFits(k) /\ SessionRecord(sessions[k])
      /\ ClosedByOne(k) /\ Counted(k) /\ sessions[k].known = TRUE
      /\ sessions[k].passed \in [Peers -> Nat]
  BY DataFacts DEF CutSession, SessionFits
<1>3. mode \in Faults
  BY DEF Faults
<1>4. tester' = tester \/ TesterPlace(tester')
  BY <1>1, <1>2, <1>3 DEF TesterPlace
<1>5. Idle(tester') /\ tester'.pc # "closed"
  BY <1>1, FinishingFacts DEF Idle, Finishing
<1>6. \A n \in SessionNumbers : SameClosers(n)
  BY <1>1, <1>5, TesterIdle
<1> DEFINE s == [sessions[k] EXCEPT !.fault = mode, !.black = @ \/ mode = "blackhole",
                                    !.told = sessions[k].passed]
<1>7. SessionRecord(s) /\ s.known = TRUE /\ s.fault = mode /\ s.closed = sessions[k].closed
      /\ s.sockets = sessions[k].sockets /\ s.passed = sessions[k].passed
      /\ s.told = sessions[k].passed
  BY <1>2 DEF SessionRecord, SessionFields
<1>8. DOMAIN sessions' = SessionNumbers /\ sessions'[k] = s
      /\ \A n \in SessionNumbers : n # k => sessions'[n] = sessions[n]
  BY <1>1, <1>2, DataFacts
<1> HIDE DEF s
<1>9. ~Recorded(k) /\ Recorded(k)' = Recorded(k) /\ Closers(k) = {}
  BY <1>1, <1>2 DEF Recorded, ClosedByOne
<1>10. Closers(k)' = {}
  BY <1>2, <1>6, <1>9, ClosersStay
<1>11. ClosedByOne(k)'
  <2> HIDE DEF Closers, Recorded
  <2> QED BY <1>1, <1>7, <1>8, <1>9, <1>10 DEF ClosedByOne
<1>12. Counted(k)'
  BY <1>1, <1>2, <1>7, <1>8 DEF Counted
<1>13. SessionFits(k)'
  <2> HIDE DEF ClosedByOne, Counted
  <2> QED BY <1>2, <1>3, <1>7, <1>8, <1>11, <1>12 DEF SessionFits
<1>14. \A n \in SessionNumbers : n # k => SameSession(n)
  BY <1>1, <1>6, <1>8 DEF SameSession
<1>15. DataFit' /\ Created' = Created
  <2>1. /\ arrived' \in [SessionNumbers -> [Peers -> Nat]] /\ partly' \subseteq SessionNumbers
        /\ finished' = finished /\ current' = current
    BY <1>1, DataFacts
  <2>2. sessions'[k].known = TRUE
    BY <1>7, <1>8
  <2> HIDE DEF SessionFits, SameSession, Recorded
  <2> QED BY <1>2, <1>8, <1>9, <1>13, <1>14, <2>1, <2>2, OneSession
<1>16. ClosedGrows
  BY <1>7, <1>8 DEF ClosedGrows, Created
<1>17. TesterFits'
  <2>1. CASE tester' = tester
    BY <2>1, <1>15, TesterStays, ThreadsFacts
  <2>2. CASE TesterPlace(tester')
    BY <2>2, <1>15, TesterPlaceFits
  <2> QED BY <2>1, <2>2, <1>4
<1>18. ThreadsFit'
  BY <1>1, <1>15, <1>16, <1>17, TesterMoves
<1> QED BY <1>5, <1>15, <1>18, TesterRuns DEF ProxyInv

----------------------------------------------------------------------------
\* Whoever finishes a session.

\* Actor a has thread t, which finishes session k, and goes on as u.
Finishes(a, k, t, u) ==
  /\ a \in Actors /\ k \in Created /\ k \in SessionNumbers /\ Finisher(t) /\ t.n = k
  /\ Idle(t.then) /\ u = NextOf(t) /\ FinishSession(t)
  /\ ThreadOf(a, k) = t /\ ThreadOf(a, k)' = u
  /\ \A n \in SessionNumbers : a # "pump" => ThreadOf(a, n) = t /\ ThreadOf(a, n)' = u
  /\ OthersStay(a, k) /\ UNCHANGED <<arrived, partly>>

\* What it does is one of four steps.
LEMMA FinishSteps ==
  ASSUME NEW a, NEW k, NEW t, NEW u, Finishes(a, k, t, u)
  PROVE  \/ /\ t.pc = "finish" /\ sessions[k].closed /\ u = t.then
            /\ UNCHANGED <<sessions, current, finished>>
         \/ /\ t.pc = "finish" /\ ~sessions[k].closed /\ u = [t EXCEPT !.pc = "sockets"]
            /\ sessions' = [sessions EXCEPT ![k].closed = TRUE,
                              ![k].fault = IF @ = "none" THEN t.reason ELSE @]
            /\ UNCHANGED <<current, finished>>
         \/ /\ t.pc = "sockets" /\ u = [t EXCEPT !.pc = "record"]
            /\ sessions' = [sessions EXCEPT ![k].sockets = IF t.reset THEN "reset" ELSE "closed"]
            /\ UNCHANGED <<current, finished>>
         \/ /\ t.pc = "record" /\ u = t.then
            /\ finished' = Append(finished, SnapshotOf(k))
            /\ current' = (IF current = k THEN 0 ELSE current) /\ sessions' = sessions
<1>1. t.n = k /\ u = NextOf(t) /\ FinishSession(t)
  BY DEF Finishes
<1>2. CASE MarksClosed(t) /\ sessions[k].closed
  BY <1>1, <1>2 DEF MarksClosed, NextOf
<1>3. CASE MarksClosed(t) /\ ~sessions[k].closed
  BY <1>1, <1>3 DEF MarksClosed, NextOf
<1>4. CASE ClosesSockets(t)
  BY <1>1, <1>4 DEF ClosesSockets, NextOf
<1>5. CASE RecordsSession(t)
  BY <1>1, <1>5 DEF RecordsSession, NextOf
<1> QED BY <1>1, <1>2, <1>3, <1>4, <1>5 DEF FinishSession

\* u is t one place further, or what t goes on with.
LEMMA NextPlace ==
  ASSUME NEW t, Finisher(t), NEW pc, NEW u, u = [t EXCEPT !.pc = pc]
  PROVE  /\ u.pc = pc /\ u.n = t.n /\ u.reason = t.reason /\ u.reset = t.reset /\ u.then = t.then
         /\ u = [pc |-> u.pc, n |-> u.n, reason |-> u.reason, reset |-> u.reset, then |-> u.then]
BY DEF Finisher

LEMMA OtherClosersStay ==
  ASSUME NEW a, NEW k, NEW t, NEW u, Finishes(a, k, t, u)
  PROVE  /\ \A n \in SessionNumbers : n # k => SameClosers(n)
         /\ \A b \in Actors : b # a => ThreadOf(b, k)' = ThreadOf(b, k)
<1>1. t.n = k /\ Idle(t.then) /\ ThreadOf(a, k) = t /\ ThreadOf(a, k)' = u /\ OthersStay(a, k)
      /\ k \in SessionNumbers /\ Finisher(t)
      /\ \A n \in SessionNumbers : a # "pump" => ThreadOf(a, n) = t /\ ThreadOf(a, n)' = u
  BY DEF Finishes
<1>2. u.n = k \/ Idle(u)
  <2>1. u = t.then \/ u = [t EXCEPT !.pc = "sockets"] \/ u = [t EXCEPT !.pc = "record"]
    BY DEF Finishes, NextOf
  <2>2. [t EXCEPT !.pc = "sockets"].n = t.n /\ [t EXCEPT !.pc = "record"].n = t.n
    BY <1>1 DEF Finisher
  <2> QED BY <1>1, <2>1, <2>2
<1>3. ASSUME NEW n \in SessionNumbers, n # k PROVE SameClosers(n)
  <2> SUFFICES ASSUME NEW b \in Actors
               PROVE  /\ Closing(ThreadOf(b, n), n)' <=> Closing(ThreadOf(b, n), n)
                      /\ Closing(ThreadOf(b, n), n) => ThreadOf(b, n)' = ThreadOf(b, n)
    BY DEF SameClosers
  <2>1. CASE b # a \/ b = "pump"
    <3>1. ThreadOf(b, n)' = ThreadOf(b, n)
      BY <1>1, <1>3, <2>1 DEF OthersStay
    <3> QED BY <3>1 DEF Closing
  <2>2. CASE b = a /\ b # "pump"
    <3>1. ThreadOf(b, n) = t /\ ThreadOf(b, n)' = u
      BY <1>1, <2>2
    <3>2. ~Closing(t, n)
      BY <1>1, <1>3 DEF Closing
    <3>3. ~Closing(u, n)
      BY <1>2, <1>3 DEF Closing, Idle
    <3>4. Closing(ThreadOf(b, n), n)' <=> Closing(u, n)
      BY <3>1 DEF Closing
    <3> QED BY <3>1, <3>2, <3>3, <3>4
  <2> QED BY <2>1, <2>2
<1>4. \A b \in Actors : b # a => ThreadOf(b, k)' = ThreadOf(b, k)
  BY <1>1 DEF OthersStay
<1> QED BY <1>3, <1>4

\* The closers of k behind the step.
LEMMA ClosersMove ==
  ASSUME NEW a, NEW k, NEW t, NEW u, Finishes(a, k, t, u)
  PROVE  /\ a \in Closers(k) <=> Closing(t, k)
         /\ Closers(k)' = (Closers(k) \ {a}) \cup (IF Closing(u, k) THEN {a} ELSE {})
<1>1. ThreadOf(a, k) = t /\ ThreadOf(a, k)' = u /\ a \in Actors
  BY DEF Finishes
<1>2. \A b \in Actors : b # a => ThreadOf(b, k)' = ThreadOf(b, k)
  BY OtherClosersStay
<1>3. \A b \in Actors : b \in Closers(k)' <=> Closing(ThreadOf(b, k), k)'
  BY DEF Closers
<1>4. \A b \in Actors : b # a => (Closing(ThreadOf(b, k), k)' <=> Closing(ThreadOf(b, k), k))
  BY <1>2 DEF Closing
<1>5. Closing(ThreadOf(a, k), k)' <=> Closing(u, k)
  BY <1>1 DEF Closing
<1>6. a \in Closers(k) <=> Closing(t, k)
  BY <1>1, ClosersAre
<1>7. \A b \in Actors : b \in Closers(k)' <=>
        b \in (Closers(k) \ {a}) \cup (IF Closing(u, k) THEN {a} ELSE {})
  <2> TAKE b \in Actors
  <2>1. CASE b = a
    BY <2>1, <1>1, <1>3, <1>5
  <2>2. CASE b # a
    <3>1. b \in Closers(k)' <=> b \in Closers(k)
      BY <2>2, <1>3, <1>4, ClosersAre
    <3> QED BY <2>2, <3>1
  <2> QED BY <2>1, <2>2
<1>8. Closers(k)' \subseteq Actors /\ Closers(k) \subseteq Actors
  BY DEF Closers
<1> HIDE DEF Closers, Closing
<1> QED BY <1>1, <1>6, <1>7, <1>8

LEMMA FinishIsDone ==
  ASSUME ProxyInv, NEW a, NEW k, NEW t, NEW u, Finishes(a, k, t, u),
         t.pc = "finish", sessions[k].closed, u = t.then,
         UNCHANGED <<sessions, current, finished>>
  PROVE  DataFit' /\ Created' = Created
<1>1. Idle(t) /\ Idle(u) /\ UNCHANGED <<arrived, partly>>
  BY DEF Finishes, Idle
<1>2. ~Closing(t, k) /\ ~Closing(u, k)
  BY <1>1 DEF Closing, Idle
<1>3. ThreadOf(a, k) = t /\ ThreadOf(a, k)' = u
  BY DEF Finishes
<1>4. SameClosers(k)
  <2> SUFFICES ASSUME NEW b \in Actors
               PROVE  /\ Closing(ThreadOf(b, k), k)' <=> Closing(ThreadOf(b, k), k)
                      /\ Closing(ThreadOf(b, k), k) => ThreadOf(b, k)' = ThreadOf(b, k)
    BY DEF SameClosers
  <2>1. CASE b # a
    <3>1. ThreadOf(b, k)' = ThreadOf(b, k)
      BY <2>1, OtherClosersStay
    <3> QED BY <3>1 DEF Closing
  <2>2. CASE b = a
    BY <2>2, <1>2, <1>3 DEF Closing
  <2> QED BY <2>1, <2>2
<1>5. \A n \in SessionNumbers : SameClosers(n)
  BY <1>4, OtherClosersStay
<1> QED BY <1>1, <1>5, DataUntouched, InvFacts

LEMMA FinishMarks ==
  ASSUME ProxyInv, NEW a, NEW k, NEW t, NEW u, Finishes(a, k, t, u),
         t.pc = "finish", ~sessions[k].closed, u = [t EXCEPT !.pc = "sockets"],
         sessions' = [sessions EXCEPT ![k].closed = TRUE,
                        ![k].fault = IF @ = "none" THEN t.reason ELSE @],
         UNCHANGED <<current, finished>>
  PROVE  DataFit' /\ Created' = Created /\ ClosedGrows
<1> USE InvFacts
<1>1. /\ k \in Created /\ k \in SessionNumbers /\ a \in Actors /\ Finisher(t) /\ t.n = k
      /\ t.reason \in Faults /\ SessionFits(k) /\ SessionRecord(sessions[k]) /\ ClosedByOne(k)
      /\ Counted(k) /\ sessions[k].known = TRUE /\ sessions[k].fault \in Faults \cup {"none"}
      /\ sessions[k].passed \in [Peers -> Nat] /\ ThreadOf(a, k)' = u
      /\ UNCHANGED <<arrived, partly>>
  BY DataFacts DEF Finishes, Finisher, SessionFits
<1>2. u.pc = "sockets" /\ u.n = k
  BY <1>1, NextPlace
<1> DEFINE s == [sessions[k] EXCEPT !.closed = TRUE, !.fault = IF @ = "none" THEN t.reason ELSE @]
<1>3. SessionRecord(s) /\ s.known = TRUE /\ s.closed = TRUE /\ s.fault \in Faults
      /\ s.sockets = sessions[k].sockets /\ s.passed = sessions[k].passed
      /\ s.told = sessions[k].told /\ s.black = sessions[k].black
  BY <1>1 DEF SessionRecord, SessionFields
<1>4. DOMAIN sessions' = SessionNumbers /\ sessions'[k] = s
      /\ \A n \in SessionNumbers : n # k => sessions'[n] = sessions[n]
  BY <1>1, DataFacts
<1> HIDE DEF s
<1>5. Closers(k) = {} /\ ~Recorded(k) /\ Recorded(k)' = Recorded(k)
  BY <1>1 DEF ClosedByOne, Recorded
<1>6. Closers(k)' = {a}
  <2>1. Closing(u, k)
    BY <1>2 DEF Closing
  <2> HIDE DEF Closers
  <2> QED BY <2>1, <1>5, ClosersMove
<1>7. ThreadOf(a, k)'.pc # "record"
  BY <1>1, <1>2
<1>8. ClosedByOne(k)'
  <2>1. \E b \in Actors : Closers(k)' = {b}
    BY <1>1, <1>6
  <2>2. \A b \in Closers(k)' : ThreadOf(b, k)'.pc # "record"
    BY <1>6, <1>7
  <2> HIDE DEF Closers, Recorded, ThreadOf
  <2> QED BY <1>3, <1>4, <1>5, <2>1, <2>2 DEF ClosedByOne
<1>9. Counted(k)'
  BY <1>1, <1>3, <1>4, CountedStays
<1>10. SessionFits(k)'
  <2> HIDE DEF ClosedByOne, Counted
  <2> QED BY <1>1, <1>3, <1>4, <1>8, <1>9 DEF SessionFits
<1>11. \A n \in SessionNumbers : n # k => SameSession(n)
  BY <1>1, <1>4, OtherClosersStay DEF SameSession
<1>12. sessions'[k].known = TRUE
  BY <1>3, <1>4
<1>13. arrived' \in [SessionNumbers -> [Peers -> Nat]] /\ partly' \subseteq SessionNumbers
  BY <1>1, DataFacts
<1>14. DataFit' /\ Created' = Created
  <2> HIDE DEF SessionFits, SameSession, Recorded
  <2> QED BY <1>1, <1>4, <1>5, <1>10, <1>11, <1>12, <1>13, OneSession
<1>15. ClosedGrows
  BY <1>3, <1>4 DEF ClosedGrows, Created
<1> QED BY <1>14, <1>15

\* The one that closes k.
LEMMA OnlyCloser ==
  ASSUME ProxyInv, NEW a, NEW k, NEW t, NEW u, Finishes(a, k, t, u), ~Idle(t)
  PROVE  /\ sessions[k].closed /\ ~Recorded(k) /\ Closers(k) = {a}
         /\ t.pc = "record" => sessions[k].sockets # "open"
<1> USE InvFacts
<1>1. k \in Created /\ ClosedByOne(k) /\ t.n = k /\ ThreadOf(a, k) = t /\ a \in Actors
  BY DataFacts DEF Finishes, SessionFits
<1>2. a \in Closers(k)
  <2>1. Closing(t, k)
    BY <1>1 DEF Closing, Idle
  <2> QED BY <2>1, ClosersMove
<1> HIDE DEF Closers, Recorded, ThreadOf
<1>3. sessions[k].closed
  BY <1>1, <1>2 DEF ClosedByOne
<1>4. ~Recorded(k)
  BY <1>1, <1>2, <1>3 DEF ClosedByOne
<1>5. PICK b \in Actors : Closers(k) = {b}
  BY <1>1, <1>3, <1>4 DEF ClosedByOne
<1>6. Closers(k) = {a}
  BY <1>2, <1>5
<1>7. t.pc = "record" => sessions[k].sockets # "open"
  BY <1>1, <1>2 DEF ClosedByOne
<1> QED BY <1>3, <1>4, <1>6, <1>7

LEMMA FinishCloses ==
  ASSUME ProxyInv, NEW a, NEW k, NEW t, NEW u, Finishes(a, k, t, u),
         t.pc = "sockets", u = [t EXCEPT !.pc = "record"],
         sessions' = [sessions EXCEPT ![k].sockets = IF t.reset THEN "reset" ELSE "closed"],
         UNCHANGED <<current, finished>>
  PROVE  DataFit' /\ Created' = Created /\ ClosedGrows
<1> USE InvFacts
<1>1. /\ k \in Created /\ k \in SessionNumbers /\ a \in Actors /\ Finisher(t) /\ t.n = k
      /\ SessionFits(k) /\ SessionRecord(sessions[k]) /\ ClosedByOne(k)
      /\ Counted(k) /\ sessions[k].known = TRUE /\ sessions[k].fault \in Faults \cup {"none"}
      /\ sessions[k].passed \in [Peers -> Nat] /\ ThreadOf(a, k)' = u
      /\ UNCHANGED <<arrived, partly>>
  BY DataFacts DEF Finishes, SessionFits
<1>2. u.pc = "record" /\ u.n = k
  BY <1>1, NextPlace
<1>3. sessions[k].closed /\ ~Recorded(k) /\ Closers(k) = {a}
  BY OnlyCloser DEF Idle
<1>4. sessions[k].fault \in Faults
  BY <1>1, <1>3 DEF ClosedByOne
<1> DEFINE s == [sessions[k] EXCEPT !.sockets = IF t.reset THEN "reset" ELSE "closed"]
<1>5. SessionRecord(s) /\ s.known = TRUE /\ s.closed = sessions[k].closed
      /\ s.fault = sessions[k].fault /\ s.sockets # "open" /\ s.passed = sessions[k].passed
      /\ s.told = sessions[k].told /\ s.black = sessions[k].black
  BY <1>1 DEF SessionRecord, SessionFields
<1>6. DOMAIN sessions' = SessionNumbers /\ sessions'[k] = s
      /\ \A n \in SessionNumbers : n # k => sessions'[n] = sessions[n]
  BY <1>1, DataFacts
<1> HIDE DEF s
<1>7. Recorded(k)' = Recorded(k)
  BY DEF Recorded
<1>8. Closers(k)' = {a}
  <2>1. Closing(u, k)
    BY <1>2 DEF Closing
  <2> HIDE DEF Closers
  <2> QED BY <2>1, <1>3, ClosersMove
<1>9. ClosedByOne(k)'
  <2>1. \E b \in Actors : Closers(k)' = {b}
    BY <1>1, <1>8
  <2> HIDE DEF Closers, Recorded, ThreadOf
  <2> QED BY <1>3, <1>4, <1>5, <1>6, <1>7, <2>1 DEF ClosedByOne
<1>10. Counted(k)'
  BY <1>1, <1>5, <1>6, CountedStays
<1>11. SessionFits(k)'
  <2> HIDE DEF ClosedByOne, Counted
  <2> QED BY <1>1, <1>5, <1>6, <1>9, <1>10 DEF SessionFits
<1>12. \A n \in SessionNumbers : n # k => SameSession(n)
  BY <1>1, <1>6, OtherClosersStay DEF SameSession
<1>13. sessions'[k].known = TRUE
  BY <1>5, <1>6
<1>14. arrived' \in [SessionNumbers -> [Peers -> Nat]] /\ partly' \subseteq SessionNumbers
  BY <1>1, DataFacts
<1>15. DataFit' /\ Created' = Created
  <2> HIDE DEF SessionFits, SameSession, Recorded
  <2> QED BY <1>1, <1>3, <1>6, <1>11, <1>12, <1>13, <1>14, OneSession
<1>16. ClosedGrows
  BY <1>5, <1>6 DEF ClosedGrows, Created
<1> QED BY <1>15, <1>16

LEMMA FinishRecords ==
  ASSUME ProxyInv, NEW a, NEW k, NEW t, NEW u, Finishes(a, k, t, u),
         t.pc = "record", u = t.then, finished' = Append(finished, SnapshotOf(k)),
         current' = (IF current = k THEN 0 ELSE current), sessions' = sessions
  PROVE  DataFit' /\ Created' = Created /\ ClosedGrows
<1> USE InvFacts
<1>1. /\ k \in Created /\ k \in SessionNumbers /\ a \in Actors
      /\ SessionFits(k) /\ ClosedByOne(k) /\ Counted(k) /\ Idle(u)
      /\ sessions[k].passed \in [Peers -> Nat] /\ UNCHANGED <<arrived, partly>>
  BY DataFacts DEF Finishes, SessionFits
<1>2. sessions[k].closed /\ ~Recorded(k) /\ Closers(k) = {a} /\ sessions[k].sockets # "open"
  BY OnlyCloser DEF Idle
<1>3. sessions[k].fault \in Faults
  BY <1>1, <1>2 DEF ClosedByOne
<1>4. SnapshotOf(k) \in Snapshots /\ SnapshotOf(k).number = k
  BY <1>1, <1>3 DEF SnapshotOf, Snapshots
<1>5. /\ finished' \in Seq(Snapshots) /\ Len(finished') = Len(finished) + 1
      /\ DOMAIN finished = 1 .. Len(finished) /\ DOMAIN finished' = 1 .. Len(finished) + 1
      /\ \A i \in DOMAIN finished : finished'[i] = finished[i]
      /\ finished'[Len(finished) + 1] = SnapshotOf(k) /\ Len(finished) \in Nat
  <2>1. finished \in Seq(Snapshots)
    BY DataFacts
  <2> HIDE DEF Snapshots, SnapshotOf
  <2> QED BY <2>1, <1>4
<1>6. \A n : Recorded(n)' <=> Recorded(n) \/ n = k
  <2> HIDE DEF SnapshotOf
  <2>1. \A i \in DOMAIN finished' : i \in DOMAIN finished \/ i = Len(finished) + 1
    BY <1>5
  <2>2. \A i \in DOMAIN finished : i \in DOMAIN finished'
    BY <1>5
  <2>3. Len(finished) + 1 \in DOMAIN finished'
    BY <1>5
  <2> QED BY <2>1, <2>2, <2>3, <1>4, <1>5 DEF Recorded
<1>7. Created' = Created /\ ClosedGrows
  BY DEF Created, ClosedGrows
<1>8. Closers(k)' = {}
  <2>1. ~Closing(u, k)
    BY <1>1 DEF Closing, Idle
  <2> HIDE DEF Closers
  <2> QED BY <2>1, <1>2, ClosersMove
<1>9. SessionFits(k)'
  <2>1. ClosedByOne(k)'
    <3> HIDE DEF Closers, Recorded, ThreadOf
    <3> QED BY <1>2, <1>3, <1>6, <1>8 DEF ClosedByOne
  <2>2. Counted(k)'
    BY <1>1 DEF Counted
  <2> HIDE DEF ClosedByOne, Counted
  <2> QED BY <1>1, <2>1, <2>2 DEF SessionFits
<1>10. \A n \in SessionNumbers : n # k => SameSession(n) /\ Recorded(n)' = Recorded(n)
  <2> TAKE n \in SessionNumbers
  <2> HAVE n # k
  <2>1. SameSession(n)
    BY <1>1, OtherClosersStay DEF SameSession
  <2>2. Recorded(n)' <=> Recorded(n)
    BY <1>6
  <2>3. Recorded(n) \in BOOLEAN /\ Recorded(n)' \in BOOLEAN
    BY DEF Recorded
  <2> HIDE DEF Recorded, SameSession
  <2> QED BY <2>1, <2>2, <2>3
<1>11. \A n \in SessionNumbers : (IF n \in Created THEN SessionFits(n) ELSE Unknown(n))'
  <2> TAKE n \in SessionNumbers
  <2>1. CASE n = k
    BY <2>1, <1>1, <1>7, <1>9
  <2>2. CASE n # k
    BY <2>2, <1>7, <1>10, SameSessionFits
  <2> QED BY <2>1, <2>2
<1>12. \A i \in DOMAIN finished' : RecordFits(i)'
  <2>1. \A n : SnapshotOf(n)' = SnapshotOf(n)
    BY DEF SnapshotOf
  <2>2. \A i \in DOMAIN finished : /\ finished[i].number \in Created /\ finished[i].number # k
                                   /\ finished[i] = SnapshotOf(finished[i].number)
                                   /\ \A j \in DOMAIN finished :
                                        finished[j].number = finished[i].number => i = j
    BY <1>2, DataFacts DEF RecordFits, Recorded
  <2> HIDE DEF SnapshotOf
  <2>3. ASSUME NEW i \in DOMAIN finished, NEW j \in DOMAIN finished',
               finished'[j].number = finished'[i].number
        PROVE  i = j
    <3>1. CASE j \in DOMAIN finished
      BY <2>2, <2>3, <3>1, <1>5
    <3>2. CASE j = Len(finished) + 1
      BY <2>2, <2>3, <3>2, <1>4, <1>5
    <3> QED BY <3>1, <3>2, <1>5
  <2>4. ASSUME NEW i \in DOMAIN finished PROVE RecordFits(i)'
    <3>1. finished'[i] = finished[i]
      BY <1>5
    <3> QED BY <3>1, <2>1, <2>2, <2>3, <1>7 DEF RecordFits
  <2> PICK l : l = Len(finished) + 1
    OBVIOUS
  <2>5. RecordFits(l)'
    <3>1. finished'[l] = SnapshotOf(k)' /\ finished'[l].number = k
      BY <2>1, <1>4, <1>5
    <3>2. \A j \in DOMAIN finished' : finished'[j].number = k => j = l
      BY <2>2, <1>5
    <3> QED BY <3>1, <3>2, <1>1, <1>7 DEF RecordFits
  <2>6. \A i \in DOMAIN finished' : i \in DOMAIN finished \/ i = l
    BY <1>5
  <2> QED BY <2>4, <2>5, <2>6
<1>13. Numbered'
  BY DataFacts DEF Numbered
<1>14. current' \in Created \cup {0} /\ \A n \in Created : current' # 0 => n <= current'
  BY DataFacts
<1> HIDE DEF Created, SessionFits, Unknown, RecordFits, Numbered
<1> QED BY <1>1, <1>5, <1>7, <1>11, <1>12, <1>13, <1>14, DataFacts DEF DataFit

LEMMA FinishData ==
  ASSUME ProxyInv, NEW a, NEW k, NEW t, NEW u, Finishes(a, k, t, u)
  PROVE  /\ DataFit' /\ Created' = Created /\ ClosedGrows
         /\ (u = t.then /\ sessions'[k].closed) \/ (Finisher(u) /\ u.n = k /\ u.then = t.then)
<1>1. Finisher(t) /\ t.n = k /\ k \in SessionNumbers /\ DOMAIN sessions = SessionNumbers
  BY InvFacts, DataFacts DEF Finishes
<1>2. ASSUME NEW pc \in {"sockets", "record"}, u = [t EXCEPT !.pc = pc]
      PROVE  Finisher(u) /\ u.n = k /\ u.then = t.then
  <2>1. /\ u.pc = pc /\ u.n = t.n /\ u.reason = t.reason /\ u.reset = t.reset /\ u.then = t.then
        /\ u = [pc |-> u.pc, n |-> u.n, reason |-> u.reason, reset |-> u.reset, then |-> u.then]
    BY <1>1, <1>2, NextPlace
  <2>2. t.n \in Created /\ t.reason \in Faults /\ t.reset \in BOOLEAN
    BY <1>1 DEF Finisher
  <2> QED BY <2>1, <2>2, <1>1 DEF Finisher, InFinish
<1>3. CASE t.pc = "finish" /\ sessions[k].closed /\ u = t.then /\ UNCHANGED <<sessions, current, finished>>
  <2>1. DataFit' /\ Created' = Created
    BY <1>3, FinishIsDone
  <2> QED BY <2>1, <1>3, SameClosed
<1>4. CASE /\ t.pc = "finish" /\ ~sessions[k].closed /\ u = [t EXCEPT !.pc = "sockets"]
           /\ sessions' = [sessions EXCEPT ![k].closed = TRUE,
                              ![k].fault = IF @ = "none" THEN t.reason ELSE @]
           /\ UNCHANGED <<current, finished>>
  BY <1>2, <1>4, FinishMarks
<1>5. CASE /\ t.pc = "sockets" /\ u = [t EXCEPT !.pc = "record"]
           /\ sessions' = [sessions EXCEPT ![k].sockets = IF t.reset THEN "reset" ELSE "closed"]
           /\ UNCHANGED <<current, finished>>
  BY <1>2, <1>5, FinishCloses
<1>6. CASE /\ t.pc = "record" /\ u = t.then
           /\ finished' = Append(finished, SnapshotOf(k))
           /\ current' = (IF current = k THEN 0 ELSE current) /\ sessions' = sessions
  <2>1. sessions[k].closed
    BY <1>6, OnlyCloser DEF Idle
  <2>2. DataFit' /\ Created' = Created /\ ClosedGrows
    BY <1>6, FinishRecords
  <2> QED BY <2>1, <2>2, <1>6
<1>7. \/ t.pc = "finish" /\ sessions[k].closed /\ u = t.then /\ UNCHANGED <<sessions, current, finished>>
      \/ /\ t.pc = "finish" /\ ~sessions[k].closed /\ u = [t EXCEPT !.pc = "sockets"]
         /\ sessions' = [sessions EXCEPT ![k].closed = TRUE,
                           ![k].fault = IF @ = "none" THEN t.reason ELSE @]
         /\ UNCHANGED <<current, finished>>
      \/ /\ t.pc = "sockets" /\ u = [t EXCEPT !.pc = "record"]
         /\ sessions' = [sessions EXCEPT ![k].sockets = IF t.reset THEN "reset" ELSE "closed"]
         /\ UNCHANGED <<current, finished>>
      \/ /\ t.pc = "record" /\ u = t.then
         /\ finished' = Append(finished, SnapshotOf(k))
         /\ current' = (IF current = k THEN 0 ELSE current) /\ sessions' = sessions
  BY FinishSteps
<1> QED BY <1>3, <1>4, <1>5, <1>6, <1>7

LEMMA AcceptorFinishesInv == ASSUME ProxyInv, AcceptorFinishes PROVE ProxyInv'
<1> USE InvFacts
<1> PICK t : t = acceptor
  OBVIOUS
<1> PICK u : u = NextOf(t)
  OBVIOUS
<1>1. /\ FinishSession(t) /\ InFinish(t) /\ acceptor' = u
      /\ UNCHANGED <<pumps, tester, arrived, partly>>
  BY DEF AcceptorFinishes, FinishSession
<1>2. Finisher(t) /\ t.then = [pc |-> "start", n |-> t.then.n] /\ Starting(t.then.n)
  BY <1>1, ThreadsFacts, AcceptorKinds
<1>3. t.n \in Created /\ t.n \in SessionNumbers /\ Idle(t.then)
  BY <1>2 DEF Finisher, Created, Idle
<1>4. Finishes("acceptor", t.n, t, u)
  BY <1>1, <1>2, <1>3, AcceptorAlone DEF Finishes, ThreadOf, Actors, OthersStay
<1>5. /\ DataFit' /\ Created' = Created /\ ClosedGrows
      /\ u = t.then \/ (Finisher(u) /\ u.then = t.then)
  BY <1>4, FinishData
<1>6. AcceptorFits'
  <2>1. Starting(t.then.n)'
    BY <1>1, <1>2, <1>5 DEF Starting
  <2>2. CASE u = t.then
    BY <2>1, <2>2, <1>1, <1>2 DEF AcceptorFits
  <2>3. CASE Finisher(u) /\ u.then = t.then
    <3>1. Finisher(acceptor)'
      BY <2>3, <1>1, <1>5 DEF Finisher
    <3> HIDE DEF Finisher, Starting
    <3> QED BY <2>1, <2>3, <3>1, <1>1, <1>2 DEF AcceptorFits
  <2> QED BY <2>2, <2>3, <1>5
<1>7. \A n \in SessionNumbers : Starting(n) => Pending(n)'
  <2> SUFFICES ASSUME NEW n \in SessionNumbers, Starting(n) PROVE Pending(n)'
    OBVIOUS
  <2>1. t.then.n = n
    BY <1>1, ThreadsFacts DEF Pending, InFinish
  <2>2. CASE u = t.then
    BY <2>1, <2>2, <1>1, <1>2 DEF Pending
  <2>3. CASE Finisher(u) /\ u.then = t.then
    BY <2>1, <2>3, <1>1 DEF Pending, Finisher, InFinish
  <2> QED BY <2>2, <2>3, <1>5
<1>8. ThreadsFit'
  BY <1>1, <1>5, <1>6, <1>7, AcceptorMoves
<1>9. acceptor.pc # "ended"
  BY <1>1 DEF InFinish
<1> QED BY <1>1, <1>5, <1>8, <1>9, AcceptorRuns DEF ProxyInv

LEMMA TesterKinds ==
  ASSUME TesterFits, InFinish(tester)
  PROVE  Finisher(tester) /\ tester.then \in {ThreadAt("idle"), ThreadAt("join")}
<1>1. ThreadAt("idle").pc = "idle" /\ ThreadAt("join").pc = "join" /\ ThreadAt("closed").pc = "closed"
  BY PlainThreads
<1> HIDE DEF Finisher
<1> QED BY <1>1 DEF TesterFits, InFinish

LEMMA TesterFinishesInv == ASSUME ProxyInv, TesterFinishes PROVE ProxyInv'
<1> USE InvFacts
<1> PICK t : t = tester
  OBVIOUS
<1> PICK u : u = NextOf(t)
  OBVIOUS
<1>1. /\ FinishSession(t) /\ InFinish(t) /\ tester' = u
      /\ UNCHANGED <<pumps, acceptor, arrived, partly>>
  BY DEF TesterFinishes, FinishSession
<1>2. Finisher(t) /\ t.then \in {ThreadAt("idle"), ThreadAt("join")}
  BY <1>1, ThreadsFacts, TesterKinds
<1>3. t.n \in Created /\ t.n \in SessionNumbers /\ Idle(t.then) /\ t.then.pc # "closed"
  BY <1>2, PlainThreads DEF Finisher, Created, Idle
<1>4. Finishes("tester", t.n, t, u)
  BY <1>1, <1>2, <1>3, TesterAlone DEF Finishes, ThreadOf, Actors, OthersStay
<1>5. /\ DataFit' /\ Created' = Created /\ ClosedGrows
      /\ u = t.then \/ (Finisher(u) /\ u.then = t.then)
  BY <1>4, FinishData
<1>6. TesterFits' /\ u.pc # "closed"
  <2>1. CASE u = t.then
    BY <2>1, <1>1, <1>2, <1>3 DEF TesterFits
  <2>2. CASE Finisher(u) /\ u.then = t.then
    <3>1. Finisher(tester)'
      BY <2>2, <1>1, <1>5 DEF Finisher
    <3>2. u.pc # "closed"
      BY <2>2 DEF Finisher, InFinish
    <3> HIDE DEF Finisher
    <3> QED BY <2>2, <3>1, <3>2, <1>1, <1>2 DEF TesterFits
  <2> QED BY <2>1, <2>2, <1>5
<1>7. ThreadsFit'
  BY <1>1, <1>5, <1>6, TesterMoves
<1> QED BY <1>1, <1>5, <1>6, <1>7, TesterRuns DEF ProxyInv

LEMMA PumpFinishesInv ==
  ASSUME ProxyInv, NEW k \in SessionNumbers, PumpFinishes(k) PROVE ProxyInv'
<1> USE InvFacts
<1> PICK t : t = pumps[k]
  OBVIOUS
<1> PICK u : u = NextOf(t)
  OBVIOUS
<1>1. /\ FinishSession(t) /\ InFinish(t) /\ pumps' = [pumps EXCEPT ![k] = u]
      /\ UNCHANGED <<tester, acceptor, arrived, partly>> /\ DOMAIN pumps = SessionNumbers
  BY ThreadsFacts DEF PumpFinishes, FinishSession, PumpGoes, OtherThreads
<1>2. Finisher(t) /\ t.n = k /\ t.then = PumpEnded /\ k \in Created /\ t.pc \notin {"none", "ended"}
  BY <1>1, ThreadsFacts, PumpKinds DEF InFinish
<1>3. Idle(t.then) /\ PumpEnded.pc = "ended"
  BY <1>2, PlainThreads DEF Idle, PumpEnded
<1>4. Finishes("pump", k, t, u)
  <2>1. OthersStay("pump", k) /\ ThreadOf("pump", k)' = u /\ ThreadOf("pump", k) = t
    BY <1>1, PumpAlone
  <2> HIDE DEF OthersStay, ThreadOf, FinishSession, Finisher, Idle
  <2> QED BY <1>1, <1>2, <1>3, <2>1 DEF Finishes, Actors
<1>5. /\ DataFit' /\ Created' = Created /\ ClosedGrows
      /\ (u = t.then /\ sessions'[k].closed) \/ (Finisher(u) /\ u.n = k /\ u.then = t.then)
  BY <1>4, FinishData
<1>6. PumpFits(k)' /\ u.pc # "none"
  <2>1. pumps'[k] = u
    BY <1>1
  <2>2. CASE u = t.then /\ sessions'[k].closed
    BY <2>1, <2>2, <1>2, <1>3, <1>5 DEF PumpFits, PumpEnded
  <2>3. CASE Finisher(u) /\ u.n = k /\ u.then = t.then
    <3>1. Finisher(pumps[k])'
      BY <2>1, <2>3, <1>5 DEF Finisher
    <3>2. u.pc # "none" /\ u # PumpEnded
      BY <2>3, <1>3 DEF Finisher, InFinish
    <3> HIDE DEF Finisher
    <3> QED BY <2>1, <2>3, <3>1, <3>2, <1>2, <1>5 DEF PumpFits
  <2> QED BY <2>2, <2>3, <1>5
<1>7. ThreadsFit'
  BY <1>1, <1>2, <1>5, <1>6, PumpMoves DEF InFinish
<1> QED BY <1>1, <1>2, <1>5, <1>7, PumpRuns DEF ProxyInv

----------------------------------------------------------------------------
\* What the proxy reports.

LEMMA ProxyStart == ASSUME ProxyAssumption, ProxyInit PROVE ProxyInv
<1>1. Created = {} /\ \A n \in SessionNumbers : sessions[n] = NoSession /\ ~sessions[n].known
  BY DEF ProxyInit, Created, NoSession
<1>2. \A n \in SessionNumbers, a \in Actors : ThreadOf(a, n) \in {ThreadAt("accept"), ThreadAt("idle"), ThreadAt("none")}
  BY DEF ProxyInit, ThreadOf
<1>3. \A n \in SessionNumbers : Closers(n) = {}
  BY <1>2, PlainThreads DEF Closers, Closing
<1>4. \A n \in SessionNumbers : ~Recorded(n)
  BY DEF ProxyInit, Recorded
<1>5. \A n \in SessionNumbers : Unknown(n)
  <2> HIDE DEF Closers, Recorded
  <2> QED BY <1>1, <1>3, <1>4 DEF Unknown, ProxyInit, NoUnits
<1>6. Numbered
  <2>1. 0 \in 0 .. MaxSessions
    BY DEF ProxyAssumption
  <2>2. \A n \in SessionNumbers : ~(n <= 0)
    BY DEF SessionNumbers
  <2> QED BY <1>1, <2>1, <2>2 DEF Numbered
<1>7. DataFit
  <2>1. finished \in Seq(Snapshots) /\ DOMAIN finished = {}
    BY DEF ProxyInit
  <2>2. arrived \in [SessionNumbers -> [Peers -> Nat]] /\ partly = {} /\ current = 0
        /\ DOMAIN sessions = SessionNumbers
    BY DEF ProxyInit
  <2> HIDE DEF Unknown, Numbered, Created
  <2> QED BY <1>1, <1>5, <1>6, <2>1, <2>2 DEF DataFit
<1>8. ThreadsFit
  BY <1>1 DEF ThreadsFit, ProxyInit, AcceptorFits, TesterFits, PumpFits, Starting
<1>9. NoneLeft
  BY PlainThreads DEF NoneLeft, ProxyInit
<1> QED BY <1>7, <1>8, <1>9 DEF ProxyInv

LEMMA ProxyStep == ASSUME ProxyInv, [ProxyNext]_proxyVars PROVE ProxyInv'
<1>1. CASE UNCHANGED proxyVars
  <2>1. /\ UNCHANGED <<acceptor, tester, pumps>>
        /\ UNCHANGED <<sessions, finished, current, arrived, partly>>
    BY <1>1 DEF proxyVars
  <2>2. Created' = Created
    BY <2>1 DEF Created
  <2>3. DataFit'
    BY <2>1, NoThreadMoves, DataUntouched, InvFacts
  <2> QED BY <2>1, <2>2, <2>3, SameClosed, ThreadsUntouched DEF ProxyInv
<1>2. CASE ProxyNext
  BY <1>2, SendsInv, GoesInv, AcceptsInv, RefusesInv, PublishesInv, StartsInv, EndsInv,
     AcceptorFinishesInv, LeavesInv, ReceivesInv, ForwardsInv, PumpFinishesInv, CutsInv,
     ClosesInv, JoinsInv, TesterFinishesInv DEF ProxyNext
<1> QED BY <1>1, <1>2

\* A closed proxy has recorded every session.
LEMMA AllRecorded ==
  ASSUME ProxyInv, tester.pc = "closed"
  PROVE  \A n \in Created : sessions[n].closed /\ sessions[n].sockets # "open" /\ Recorded(n)
<1> USE InvFacts
<1>1. tester = ThreadAt("closed")
  BY ThreadsFacts, PlainThreads DEF TesterFits, Finisher, InFinish
<1>2. acceptor = ThreadAt("ended") /\ \A n \in SessionNumbers : pumps[n].pc \in {"none", "ended"}
  BY <1>1 DEF NoneLeft
<1> SUFFICES ASSUME NEW n \in Created
             PROVE  sessions[n].closed /\ sessions[n].sockets # "open" /\ Recorded(n)
  OBVIOUS
<1>3. n \in SessionNumbers /\ SessionFits(n) /\ ClosedByOne(n)
  BY DataFacts DEF SessionFits
<1>4. pumps[n].pc # "none"
  <2>1. ~Pending(n)
    BY <1>2, PlainThreads DEF Pending, InFinish
  <2> QED BY <2>1, <1>3, ThreadsFacts DEF Starting
<1>5. pumps[n] = PumpEnded /\ pumps[n].pc = "ended"
  <2>1. PumpFits(n) /\ pumps[n].pc = "ended"
    BY <1>2, <1>3, <1>4, ThreadsFacts
  <2> QED BY <2>1, PlainThreads DEF PumpFits, PumpEnded, Finisher, InFinish
<1>6. sessions[n].closed
  BY <1>3, <1>4, <1>5, ThreadsFacts, PlainThreads DEF PumpFits
<1>7. Closers(n) = {}
  <2>1. \A a \in Actors : ~Closing(ThreadOf(a, n), n)
    BY <1>1, <1>2, <1>5, PlainThreads DEF Actors, ThreadOf, Closing
  <2> QED BY <2>1 DEF Closers
<1> HIDE DEF Closers, Recorded
<1> QED BY <1>3, <1>6, <1>7 DEF ClosedByOne

LEMMA RecordsCount ==
  ASSUME ProxyAssumption, DataFit, \A n \in Created : Recorded(n)
  PROVE  Len(finished) = Cardinality(Created)
<1>1. finished \in Seq(Snapshots) /\ Len(finished) \in Nat /\ DOMAIN finished = 1 .. Len(finished)
  <2>1. finished \in Seq(Snapshots)
    BY DataFacts
  <2> QED BY <2>1
<1> DEFINE f == [i \in 1 .. Len(finished) |-> finished[i].number]
<1>2. f \in Bijection(1 .. Len(finished), Created)
  <2>1. \A i \in DOMAIN finished : finished[i].number \in Created
    BY DataFacts DEF RecordFits
  <2>2. \A i, j \in DOMAIN finished : finished[i].number = finished[j].number => i = j
    BY DataFacts DEF RecordFits
  <2>3. \A n \in Created : \E i \in DOMAIN finished : finished[i].number = n
    BY DEF Recorded
  <2>4. f \in [1 .. Len(finished) -> Created]
    BY <1>1, <2>1
  <2>5. \A i, j \in 1 .. Len(finished) : f[i] = f[j] => i = j
    BY <1>1, <2>2
  <2>6. \A n \in Created : \E i \in 1 .. Len(finished) : f[i] = n
    BY <1>1, <2>3
  <2> HIDE DEF f
  <2> QED BY <2>4, <2>5, <2>6 DEF Bijection, Injection, Surjection, IsInjective
<1>3. ExistsBijection(1 .. Len(finished), Created)
  BY <1>2 DEF ExistsBijection
<1> QED BY <1>1, <1>3, FS_CountingElements

LEMMA InvAccounts == ASSUME ProxyAssumption, ProxyInv PROVE ProxyIsAccountable
<1> USE InvFacts
<1>1. ASSUME NEW i \in DOMAIN finished
      PROVE  LET s == finished[i] IN
       /\ \A e \in Peers :
            IF s.number \in partly THEN arrived[s.number][e] >= s.passed[OtherPeer(e)]
                                   ELSE arrived[s.number][e] = s.passed[OtherPeer(e)]
       /\ s.fault = sessions[s.number].fault /\ s.fault # "none"
       /\ \A j \in DOMAIN finished : finished[j].number = s.number => i = j
  <2> DEFINE n == finished[i].number
  <2>1. n \in Created /\ finished[i] = SnapshotOf(n)
        /\ \A j \in DOMAIN finished : finished[j].number = n => i = j
    BY DataFacts DEF RecordFits
  <2>2. Recorded(n)
    BY DEF Recorded
  <2>3. ClosedByOne(n) /\ Counted(n)
    BY <2>1, DataFacts DEF SessionFits
  <2>4. finished[i].fault = sessions[n].fault /\ finished[i].passed = sessions[n].passed
    BY <2>1 DEF SnapshotOf
  <2>5. sessions[n].fault # "none"
    <3> HIDE DEF Closers, Recorded, n
    <3> QED BY <2>2, <2>3 DEF ClosedByOne, Faults
  <2>6. \A e \in Peers :
            IF n \in partly THEN arrived[n][e] >= finished[i].passed[OtherPeer(e)]
                            ELSE arrived[n][e] = finished[i].passed[OtherPeer(e)]
    <3> HIDE DEF n
    <3> QED BY <2>3, <2>4 DEF Counted
  <2> QED BY <2>1, <2>4, <2>5, <2>6
<1>2. \A n \in Created : sessions[n].black => sessions[n].passed = sessions[n].told
  BY DataFacts DEF SessionFits, Counted
<1>3. \A n, m \in Created : current = n => m <= n
  <2> SUFFICES ASSUME NEW n \in Created, NEW m \in Created, current = n PROVE m <= n
    OBVIOUS
  <2>1. n \in SessionNumbers
    BY DataFacts
  <2>2. n # 0
    BY <2>1 DEF SessionNumbers
  <2> QED BY <2>2, DataFacts
<1>4. tester.pc = "closed" =>
       /\ Len(finished) = Cardinality(Created)
       /\ \A n \in Created : sessions[n].closed /\ sessions[n].sockets # "open"
  <2> HAVE tester.pc = "closed"
  <2>1. \A n \in Created : sessions[n].closed /\ sessions[n].sockets # "open" /\ Recorded(n)
    BY AllRecorded
  <2>2. Len(finished) = Cardinality(Created)
    BY <2>1, RecordsCount
  <2> QED BY <2>1, <2>2
<1> QED BY <1>1, <1>2, <1>3, <1>4 DEF ProxyIsAccountable

\* Whatever the test does to however many sessions, at whatever moment, and
\* however the threads of _accept_loop, _pump, cut and close run against each
\* other: a finished session is recorded once, with its fault and with what the
\* other end could see; nothing passes a black hole behind what cut told; and a
\* closed proxy leaves nothing open.
THEOREM ProxyAccounts == ProxySpec => []ProxyIsAccountable
<1>1. ProxyInit => ProxyInv
  BY ProxyAssumption, ProxyStart
<1>2. ProxyInv /\ [ProxyNext]_proxyVars => ProxyInv'
  BY ProxyStep
<1>3. ProxyInv => ProxyIsAccountable
  BY ProxyAssumption, InvAccounts
<1> QED BY <1>1, <1>2, <1>3, PTL DEF ProxySpec

----------------------------------------------------------------------------
\* Typing without a spool.

Ring == 0 .. KeyCells - 1
\* How far a cell is from another one, and the cells with keys of the host.
Dist(from, c) == IF c >= from THEN c - from ELSE c + KeyCells - from
Typed == {c \in CellsWaiting : cells[c] # ByHand}

\* The ring holds what was typed and not read, in order, up to character e.
GotFits == got \in Seq(Nat) /\ \A i \in DOMAIN got : got[i] = i
CellsFit == cells \in [Ring -> 0 .. Stale] /\ put \in Ring /\ get \in Ring
TypedFit(e) ==
  /\ Len(got) <= e
  /\ \A c \in Typed : cells[c] \in Len(got) + 1 .. e
  /\ \A v \in Len(got) + 1 .. e : \E c \in Typed : cells[c] = v
  /\ \A c, d \in Typed : Dist(get, c) < Dist(get, d) => cells[c] < cells[d]
HandsFit ==
  /\ pressed \in Nat /\ gone \in Nat
  /\ pressed = gone + Cardinality({c \in CellsWaiting : cells[c] = ByHand})
RingFits(e) == GotFits /\ CellsFit /\ TypedFit(e) /\ HandsFit

\* The call is in one line, of which it has typed what is in the ring.
TypistFields == {"pc", "line", "at", "credits", "taken", "put", "pending", "lost"}
Transaction == {"pointers", "first", "rest", "publish", "resume"}
FieldsFit ==
  /\ typist = [f \in TypistFields |-> typist[f]]
  /\ typist.line \in Nat /\ typist.at \in Nat /\ typist.taken \in Nat
  /\ typist.credits \in 0 .. KeyCapacity
  /\ typist.pc \in {"type", "drain", "settle", "ok", "failed"} \cup Transaction
LineFits(e) ==
  /\ typist.line <= Len(got) /\ typist.line <= typist.at /\ typist.at <= e /\ e <= LineEnd
  /\ ~byT => e \in {typist.at, typist.at + typist.taken}
  /\ typist.pc \notin {"resume", "failed"} => e = typist.at
  /\ typist.pc = "type" => typist.at < LineEnd \/ Len(Typing) = 0
  /\ typist.pc \in {"drain", "settle", "ok"} => typist.at = LineEnd
  /\ typist.pc \in {"settle", "ok"} => Len(got) = e
  /\ typist.pc = "ok" => typist.at = Len(Typing)
\* Cells behind put, which nobody reads yet.
Prepared(n) == \A c \in Ring : Dist(put, c) < n => cells[c] = typist.at + 1 + Dist(put, c)
BatchFits(e) ==
  /\ typist.pc \in Transaction => frozen /\ ~byT
  /\ typist.pc \in {"first", "rest", "publish"} =>
       /\ typist.taken \in 1 .. KeyCapacity - KeysPending /\ typist.at + typist.taken <= LineEnd
       /\ typist.put = put /\ typist.pending = KeysPending + typist.taken
  /\ typist.pc = "rest" => FirstPart < typist.taken /\ Prepared(FirstPart)
  /\ typist.pc = "publish" => Prepared(typist.taken)
  /\ typist.pc = "resume" =>
       typist.pending \in 0 .. KeyCapacity /\ e = typist.at + typist.taken
\* A program works on a line when it has read all of it, and is not stopped.
RunningFits ==
  /\ frozen \in BOOLEAN /\ byT \in BOOLEAN /\ running \in BOOLEAN
  /\ frozen => typist.pc \in Transaction \cup {"failed"}
  /\ running => Len(got) = LineEnd /\ typist.pc \in {"drain", "settle", "failed"}
TypistFits(e) == FieldsFit /\ LineFits(e) /\ BatchFits(e) /\ RunningFits
KeyboardInv == \E e \in 0 .. Len(Typing) : RingFits(e) /\ TypistFits(e)

----------------------------------------------------------------------------
\* The ring.

LEMMA Wraps ==
  ASSUME KeyboardAssumption
  PROVE  /\ KeyCells \in Nat /\ KeyCells > 0
         /\ \A x \in 0 .. 2 * KeyCells - 1 : x % KeyCells = IF x < KeyCells THEN x ELSE x - KeyCells
<1>1. KeyCells \in Nat \ {0}
  BY DEF KeyboardAssumption
<1>2. ASSUME NEW x \in 0 .. 2 * KeyCells - 1
      PROVE  x % KeyCells = IF x < KeyCells THEN x ELSE x - KeyCells
  BY <1>1
<1> QED BY <1>1, <1>2

LEMMA Cells ==
  ASSUME KeyboardAssumption, NEW p \in Ring
  PROVE  /\ \A n \in 0 .. KeyCells - 1 :
              /\ CellAfter(p, n) = IF p + n < KeyCells THEN p + n ELSE p + n - KeyCells
              /\ CellAfter(p, n) \in Ring /\ Dist(p, CellAfter(p, n)) = n
         /\ \A c \in Ring : /\ (c + KeyCells - p) % KeyCells = Dist(p, c)
                            /\ Dist(p, c) \in 0 .. KeyCells - 1
                            /\ CellAfter(p, Dist(p, c)) = c
<1> USE Wraps
<1>1. p \in Nat /\ p < KeyCells
  BY DEF Ring
<1>2. ASSUME NEW n \in 0 .. KeyCells - 1
      PROVE  /\ CellAfter(p, n) = IF p + n < KeyCells THEN p + n ELSE p + n - KeyCells
             /\ CellAfter(p, n) \in Ring /\ Dist(p, CellAfter(p, n)) = n
  <2>1. CellAfter(p, n) = IF p + n < KeyCells THEN p + n ELSE p + n - KeyCells
    <3> PICK x : x = p + n
      OBVIOUS
    <3>1. x \in 0 .. 2 * KeyCells - 1
      BY <1>1
    <3>2. x % KeyCells = IF x < KeyCells THEN x ELSE x - KeyCells
      BY <3>1
    <3> QED BY <1>1, <3>2 DEF CellAfter
  <2> QED BY <1>1, <2>1 DEF Ring, Dist
<1>3. ASSUME NEW c \in Ring
      PROVE  /\ (c + KeyCells - p) % KeyCells = Dist(p, c)
             /\ Dist(p, c) \in 0 .. KeyCells - 1 /\ CellAfter(p, Dist(p, c)) = c
  <2>1. c \in Nat /\ c < KeyCells
    BY DEF Ring
  <2>2. (c + KeyCells - p) % KeyCells = Dist(p, c)
    <3>1. c + KeyCells - p \in 0 .. 2 * KeyCells - 1
      BY <1>1, <2>1
    <3> QED BY <1>1, <2>1, <3>1 DEF Dist
  <2>3. Dist(p, c) \in 0 .. KeyCells - 1
    BY <1>1, <2>1 DEF Dist
  <2>4. CellAfter(p, Dist(p, c)) = c
    BY <1>1, <2>1, <2>3, <1>2 DEF Dist
  <2> QED BY <2>2, <2>3, <2>4
<1> QED BY <1>2, <1>3

LEMMA DistSame ==
  ASSUME KeyboardAssumption, NEW p \in Ring, NEW c \in Ring, NEW d \in Ring, Dist(p, c) = Dist(p, d)
  PROVE  c = d
BY Wraps DEF Ring, Dist

LEMMA DistSelf == ASSUME KeyboardAssumption, NEW p \in Ring PROVE Dist(p, p) = 0
BY Wraps DEF Ring, Dist

LEMMA DistAdds ==
  ASSUME KeyboardAssumption, NEW g \in Ring, NEW p \in Ring, NEW c \in Ring,
         Dist(g, p) + Dist(p, c) < KeyCells
  PROVE  Dist(g, c) = Dist(g, p) + Dist(p, c)
<1>1. KeyCells \in Nat /\ KeyCells > 0
  BY Wraps
<1> QED BY <1>1 DEF Ring, Dist

\* The cells between get and put.
Between(g, p) == {c \in Ring : Dist(g, c) < Dist(g, p)}

LEMMA BetweenIs ==
  ASSUME KeyboardAssumption, NEW g \in Ring, NEW p \in Ring
  PROVE  /\ (p + KeyCells - g) % KeyCells = Dist(g, p) /\ Dist(g, p) \in 0 .. KeyCapacity
         /\ {CellAfter(g, i) : i \in 0 .. Dist(g, p) - 1} = Between(g, p)
         /\ IsFiniteSet(Between(g, p))
<1>1. (p + KeyCells - g) % KeyCells = Dist(g, p) /\ Dist(g, p) \in 0 .. KeyCapacity
  BY Cells DEF KeyCapacity
<1>2. ASSUME NEW i \in 0 .. Dist(g, p) - 1 PROVE CellAfter(g, i) \in Between(g, p)
  <2>1. i \in 0 .. KeyCells - 1 /\ i < Dist(g, p)
    BY <1>1, Wraps DEF KeyCapacity
  <2> QED BY <2>1, Cells DEF Between
<1>3. ASSUME NEW c \in Between(g, p)
      PROVE  Dist(g, c) \in 0 .. Dist(g, p) - 1 /\ CellAfter(g, Dist(g, c)) = c
  <2>1. c \in Ring /\ Dist(g, c) < Dist(g, p)
    BY DEF Between
  <2>2. Dist(g, c) \in 0 .. KeyCells - 1 /\ CellAfter(g, Dist(g, c)) = c
    BY <2>1, Cells
  <2> QED BY <1>1, <2>1, <2>2, Wraps DEF KeyCapacity
<1>4. {CellAfter(g, i) : i \in 0 .. Dist(g, p) - 1} = Between(g, p)
  BY <1>2, <1>3
<1>5. IsFiniteSet(Between(g, p))
  <2>1. IsFiniteSet(Ring)
    BY FS_Interval, Wraps DEF Ring
  <2> QED BY <2>1, FS_Subset DEF Between
<1> QED BY <1>1, <1>4, <1>5

LEMMA Waiting ==
  ASSUME KeyboardAssumption, get \in Ring, put \in Ring
  PROVE  /\ KeysPending = Dist(get, put) /\ KeysPending \in 0 .. KeyCapacity
         /\ CellsWaiting = Between(get, put) /\ IsFiniteSet(CellsWaiting)
<1>1. KeysPending = Dist(get, put)
  BY BetweenIs DEF KeysPending
<1>2. CellsWaiting = {CellAfter(get, i) : i \in 0 .. Dist(get, put) - 1}
  BY <1>1 DEF CellsWaiting
<1> HIDE DEF CellsWaiting, KeysPending, Dist
<1> QED BY <1>1, <1>2, BetweenIs

LEMMA WaitingThen ==
  ASSUME KeyboardAssumption, get' \in Ring, put' \in Ring
  PROVE  /\ KeysPending' = Dist(get', put') /\ KeysPending' \in 0 .. KeyCapacity
         /\ CellsWaiting' = Between(get', put') /\ IsFiniteSet(CellsWaiting')
<1> PICK g \in Ring, p \in Ring : g = get' /\ p = put'
  OBVIOUS
<1>1. (p + KeyCells - g) % KeyCells = Dist(g, p) /\ Dist(g, p) \in 0 .. KeyCapacity
      /\ {CellAfter(g, i) : i \in 0 .. Dist(g, p) - 1} = Between(g, p) /\ IsFiniteSet(Between(g, p))
  BY BetweenIs
<1>2. KeysPending' = Dist(g, p)
  BY <1>1 DEF KeysPending
<1>3. CellsWaiting' = {CellAfter(g, i) : i \in 0 .. Dist(g, p) - 1}
  BY <1>2 DEF CellsWaiting, CellAfter
<1> HIDE DEF CellsWaiting, KeysPending, Dist, Between
<1> QED BY <1>1, <1>2, <1>3

----------------------------------------------------------------------------
\* What a step does to the keys in the ring.

Hands == {c \in CellsWaiting : cells[c] = ByHand}

LEMMA RingFacts ==
  ASSUME KeyboardAssumption, NEW e, RingFits(e)
  PROVE  /\ cells \in [Ring -> 0 .. Stale] /\ put \in Ring /\ get \in Ring
         /\ KeysPending = Dist(get, put) /\ KeysPending \in 0 .. KeyCapacity
         /\ CellsWaiting = Between(get, put) /\ IsFiniteSet(CellsWaiting)
         /\ CellsWaiting \subseteq Ring
         /\ \A c \in CellsWaiting : c \in Typed \/ c \in Hands
         /\ Typed \subseteq CellsWaiting /\ Hands \subseteq CellsWaiting
         /\ IsFiniteSet(Hands)
         /\ pressed \in Nat /\ gone \in Nat /\ pressed = gone + Cardinality(Hands)
         /\ Cardinality(Hands) \in Nat
         /\ got \in Seq(Nat) /\ Len(got) \in Nat /\ DOMAIN got = 1 .. Len(got)
<1>1. cells \in [Ring -> 0 .. Stale] /\ put \in Ring /\ get \in Ring
  BY DEF RingFits, CellsFit
<1>2. KeysPending = Dist(get, put) /\ KeysPending \in 0 .. KeyCapacity
      /\ CellsWaiting = Between(get, put) /\ IsFiniteSet(CellsWaiting)
  BY <1>1, Waiting
<1>3. CellsWaiting \subseteq Ring
  BY <1>2 DEF Between
<1>4. IsFiniteSet(Hands) /\ Cardinality(Hands) \in Nat
  BY <1>2, FS_Subset, FS_CardinalityType DEF Hands
<1>5. pressed \in Nat /\ gone \in Nat /\ pressed = gone + Cardinality(Hands)
  BY DEF RingFits, HandsFit, Hands
<1>6. got \in Seq(Nat) /\ Len(got) \in Nat /\ DOMAIN got = 1 .. Len(got)
  BY DEF RingFits, GotFits
<1>7. /\ \A c \in CellsWaiting : c \in Typed \/ c \in Hands
      /\ Typed \subseteq CellsWaiting /\ Hands \subseteq CellsWaiting
  BY DEF Typed, Hands
<1> QED BY <1>1, <1>2, <1>3, <1>4, <1>5, <1>6, <1>7

\* Nothing in the ring changes that is waited for.
LEMMA RingStays ==
  ASSUME KeyboardAssumption, NEW e, RingFits(e), cells' \in [Ring -> 0 .. Stale],
         \A c \in CellsWaiting : cells'[c] = cells[c],
         UNCHANGED <<put, get, got, pressed, gone>>
  PROVE  RingFits(e)'
<1>1. CellsWaiting' = CellsWaiting
  BY DEF CellsWaiting, KeysPending, CellAfter
<1>2. Typed' = Typed /\ \A c \in Typed : cells'[c] = cells[c]
  <2> HIDE DEF CellsWaiting
  <2> QED BY <1>1 DEF Typed, ByHand
<1>3. {c \in CellsWaiting : cells[c] = ByHand}' = {c \in CellsWaiting : cells[c] = ByHand}
  <2> HIDE DEF CellsWaiting
  <2> QED BY <1>1 DEF ByHand
<1> HIDE DEF Typed, CellsWaiting, Dist
<1>4. TypedFit(e)'
  <2>1. TypedFit(e)
    BY DEF RingFits
  <2>2. \A c, d : Dist(get, c)' = Dist(get, c) 
    BY DEF Dist
  <2> QED BY <1>2, <2>1, <2>2 DEF TypedFit
<1>5. HandsFit'
  BY <1>3 DEF RingFits, HandsFit
<1> QED BY <1>4, <1>5 DEF RingFits, GotFits, CellsFit

\* Cells behind put are filled and published.
LEMMA RingGrows ==
  ASSUME KeyboardAssumption, NEW e \in Nat, RingFits(e), NEW n \in 0 .. KeyCapacity - KeysPending,
         cells' \in [Ring -> 0 .. Stale],
         \A c \in Ring : cells'[c] = IF Dist(put, c) < n THEN e + 1 + Dist(put, c) ELSE cells[c],
         put' = CellAfter(put, n), UNCHANGED <<get, got, pressed, gone>>
  PROVE  RingFits(e + n)'
<1> PICK g \in Ring, p \in Ring : g = get /\ p = put
  BY RingFacts
<1> PICK q : q = put'
  OBVIOUS
<1>1. KeyCells \in Nat /\ KeyCells > 0 /\ Dist(g, p) = KeysPending /\ n \in 0 .. KeyCells - 1
      /\ n + Dist(g, p) < KeyCells /\ Dist(g, p) \in Nat /\ n \in Nat
      /\ Len(got) \in Nat
  BY Wraps, RingFacts DEF KeyCapacity
<1>2. q \in Ring /\ Dist(p, q) = n
  BY <1>1, Cells
<1>3. \A c \in Ring : Dist(g, c) \in 0 .. KeyCells - 1 /\ Dist(p, c) \in 0 .. KeyCells - 1
  BY Cells
<1>4. /\ Dist(g, q) = Dist(g, p) + n
      /\ \A c \in Ring : Dist(p, c) < n => Dist(g, c) = Dist(g, p) + Dist(p, c)
      /\ \A c \in Ring : (Dist(g, c) < Dist(g, q)) <=> (Dist(g, c) < Dist(g, p) \/ Dist(p, c) < n)
  <2>1. Dist(g, q) = Dist(g, p) + n
    <3> HIDE DEF Dist
    <3>1. Dist(g, p) + Dist(p, q) < KeyCells
      BY <1>1, <1>2
    <3> QED BY <3>1, <1>2, DistAdds
  <2>2. ASSUME NEW c \in Ring, Dist(p, c) < n PROVE Dist(g, c) = Dist(g, p) + Dist(p, c)
    <3> HIDE DEF Dist
    <3>1. Dist(g, p) + Dist(p, c) < KeyCells
      <4>1. Dist(p, c) \in Nat /\ Dist(g, p) \in Nat
        BY <1>1, <1>3
      <4>2. n \in Nat /\ n + Dist(g, p) < KeyCells /\ KeyCells \in Nat
        BY <1>1
      <4> QED BY <2>2, <4>1, <4>2
    <3> QED BY <3>1, DistAdds
  <2>3. ASSUME NEW c \in Ring, Dist(g, c) < Dist(g, p) + n, ~(Dist(g, c) < Dist(g, p))
        PROVE  Dist(p, c) < n
    BY <1>1, <2>3 DEF Ring, Dist
  <2> HIDE DEF Dist
  <2>4. ASSUME NEW c \in Ring
        PROVE  (Dist(g, c) < Dist(g, q)) <=> (Dist(g, c) < Dist(g, p) \/ Dist(p, c) < n)
    <3>1. Dist(g, c) < Dist(g, p) => Dist(g, c) < Dist(g, q)
      BY <2>1, <1>1, <1>3
    <3>2. Dist(p, c) < n => Dist(g, c) < Dist(g, q)
      BY <2>1, <2>2, <1>1, <1>3
    <3> QED BY <2>1, <2>3, <3>1, <3>2
  <2> QED BY <2>1, <2>2, <2>4
<1> HIDE DEF Dist
<1>5. CellsWaiting' = Between(g, q)
  BY <1>2, WaitingThen
<1>6. CellsWaiting = Between(g, p)
  BY RingFacts
<1> HIDE DEF CellsWaiting, KeysPending
<1>7. \A c \in Ring : c \in CellsWaiting' <=> (c \in CellsWaiting \/ Dist(p, c) < n)
  BY <1>4, <1>5, <1>6 DEF Between
<1>8. \A c \in CellsWaiting : ~(Dist(p, c) < n) /\ cells'[c] = cells[c]
  <2>1. \A c \in CellsWaiting : c \in Ring /\ Dist(g, c) < Dist(g, p)
    BY <1>6 DEF Between
  <2>2. \A c \in CellsWaiting : ~(Dist(p, c) < n)
    BY <2>1, <1>1, <1>3, <1>4
  <2> QED BY <2>1, <2>2
<1>9. \A c \in Ring : Dist(p, c) < n => cells'[c] = e + 1 + Dist(p, c) /\ cells'[c] \in e + 1 .. e + n
  <2> TAKE c \in Ring
  <2> HAVE Dist(p, c) < n
  <2>1. cells'[c] = e + 1 + Dist(p, c)
    OBVIOUS
  <2>2. Dist(p, c) \in Nat /\ n \in Nat
    BY <1>1, <1>3
  <2>3. \A d \in Nat : d < n => e + 1 + d \in e + 1 .. e + n
    BY <2>2
  <2> QED BY <2>1, <2>2, <2>3
<1> HIDE DEF Between
<1>10. CellsWaiting' \subseteq Ring /\ CellsWaiting \subseteq Ring
      /\ \A c \in Typed : c \in CellsWaiting /\ c \in Ring
  BY <1>5, <1>6 DEF Between, Typed
<1>11. \A c : c \in Typed' <=> c \in Typed \/ (c \in Ring /\ Dist(p, c) < n)
  <2>1. \A c \in Ring : Dist(p, c) < n => cells'[c] # ByHand
    BY <1>9 DEF ByHand
  <2> QED BY <2>1, <1>7, <1>8, <1>10 DEF Typed, ByHand
<1>12. TypedFit(e)
  BY DEF RingFits
<1>13. TypedFit(e + n)'
  <2>1. Len(got) <= e + n
    BY <1>12, <1>1 DEF TypedFit
  <2>2. ASSUME NEW c \in Typed' PROVE cells'[c] \in Len(got) + 1 .. e + n
    <3>1. CASE c \in Typed
      <4>1. cells'[c] = cells[c] /\ cells[c] \in Len(got) + 1 .. e
        BY <1>8, <1>10, <1>12, <3>1 DEF TypedFit
      <4> QED BY <4>1, <1>1
    <3>2. CASE c \in Ring /\ Dist(p, c) < n
      BY <3>2, <1>9, <1>12, <1>1 DEF TypedFit
    <3> QED BY <3>1, <3>2, <1>11
  <2>3. ASSUME NEW v \in Len(got) + 1 .. e + n PROVE \E c \in Typed' : cells'[c] = v
    <3>1. CASE v <= e
      <4>1. PICK c \in Typed : cells[c] = v
        BY <1>12, <3>1 DEF TypedFit
      <4> QED BY <4>1, <1>8, <1>10, <1>11
    <3>2. CASE v > e
      <4> PICK i : i = v - e - 1
        OBVIOUS
      <4>1. i \in 0 .. KeyCells - 1 /\ i < n
        BY <3>2, <1>1
      <4> PICK c : c = CellAfter(p, i)
        OBVIOUS
      <4>2. c \in Ring /\ Dist(p, c) = i
        BY <4>1, Cells
      <4>3. cells'[c] = v
        BY <4>1, <4>2, <3>2, <1>9
      <4> QED BY <4>1, <4>2, <4>3, <1>11
    <3> QED BY <3>1, <3>2
  <2>4. ASSUME NEW c \in Typed', NEW d \in Typed', Dist(g, c) < Dist(g, d)
        PROVE  cells'[c] < cells'[d]
    <3>1. \A x \in Typed : /\ x \in Ring /\ Dist(g, x) < Dist(g, p) /\ cells'[x] = cells[x]
                           /\ cells[x] \in Len(got) + 1 .. e
      BY <1>6, <1>8, <1>10, <1>12 DEF TypedFit, Between
    <3>2. CASE c \in Typed /\ d \in Typed
      BY <2>4, <3>1, <3>2, <1>12 DEF TypedFit
    <3>3. CASE c \in Typed /\ d \in Ring /\ Dist(p, d) < n
      BY <3>1, <3>3, <1>9
    <3>4. CASE c \in Ring /\ Dist(p, c) < n /\ d \in Typed
      <4>1. Dist(g, c) = Dist(g, p) + Dist(p, c) /\ Dist(p, c) \in Nat
        BY <3>4, <1>3, <1>4
      <4>2. Dist(g, d) < Dist(g, p) /\ Dist(g, d) \in Nat
        BY <3>1, <3>4, <1>3
      <4> QED BY <4>1, <4>2, <2>4, <1>1
    <3>5. CASE c \in Ring /\ Dist(p, c) < n /\ d \in Ring /\ Dist(p, d) < n
      <4>1. /\ Dist(g, c) = Dist(g, p) + Dist(p, c) /\ Dist(p, c) \in Nat
            /\ Dist(g, d) = Dist(g, p) + Dist(p, d) /\ Dist(p, d) \in Nat
        BY <3>5, <1>3, <1>4
      <4>2. cells'[c] = e + 1 + Dist(p, c) /\ cells'[d] = e + 1 + Dist(p, d)
        BY <3>5, <1>9
      <4> QED BY <4>1, <4>2, <2>4, <1>1
    <3> QED BY <3>2, <3>3, <3>4, <3>5, <1>11
  <2>5. \A c, d : Dist(get, c)' = Dist(g, c)
    BY DEF Dist
  <2> QED BY <2>1, <2>2, <2>3, <2>4, <2>5 DEF TypedFit
<1>14. HandsFit'
  <2>1. {c \in CellsWaiting : cells[c] = ByHand}' = {c \in CellsWaiting : cells[c] = ByHand}
    <3>1. \A c \in Ring : Dist(p, c) < n => cells'[c] # ByHand
      BY <1>9 DEF ByHand
    <3>2. \A c : c \in {x \in CellsWaiting : cells[x] = ByHand}' <=> c \in {x \in CellsWaiting : cells[x] = ByHand}
      BY <3>1, <1>7, <1>8, <1>10 DEF ByHand
    <3> QED BY <3>2
  <2> QED BY <2>1 DEF RingFits, HandsFit
<1>15. GotFits' /\ CellsFit'
  BY <1>2 DEF RingFits, GotFits, CellsFit
<1> QED BY <1>13, <1>14, <1>15 DEF RingFits

\* A key is pressed by hand.
LEMMA RingPressed ==
  ASSUME KeyboardAssumption, NEW e \in Nat, RingFits(e), KeysPending < KeyCapacity,
         cells' = [cells EXCEPT ![put] = ByHand], put' = CellAfter(put, 1),
         pressed' = pressed + 1, UNCHANGED <<get, got, gone>>
  PROVE  RingFits(e)'
<1> PICK g \in Ring, p \in Ring : g = get /\ p = put
  BY RingFacts
<1> PICK q : q = put'
  OBVIOUS
<1>1. KeyCells \in Nat /\ KeyCells > 0 /\ Dist(g, p) = KeysPending /\ 1 \in 0 .. KeyCells - 1
      /\ Dist(g, p) + 1 < KeyCells /\ Dist(g, p) \in Nat
  BY Wraps, RingFacts DEF KeyCapacity
<1>2. q \in Ring /\ Dist(p, q) = 1
  BY <1>1, Cells
<1>3. \A c \in Ring : Dist(g, c) \in 0 .. KeyCells - 1
  BY Cells
<1> HIDE DEF Dist
<1>4. Dist(g, q) = Dist(g, p) + 1
  BY <1>1, <1>2, DistAdds
<1>5. CellsWaiting' = Between(g, q) /\ CellsWaiting = Between(g, p)
  BY <1>2, WaitingThen, RingFacts
<1> HIDE DEF CellsWaiting, KeysPending
<1>6. CellsWaiting' = CellsWaiting \cup {p} /\ p \notin CellsWaiting
      /\ CellsWaiting \subseteq Ring
  <2>1. \A c \in Ring : Dist(g, c) = Dist(g, p) => c = p
    BY DistSame
  <2>2. \A c \in Ring : (Dist(g, c) < Dist(g, q)) <=> (Dist(g, c) < Dist(g, p) \/ c = p)
    BY <2>1, <1>1, <1>3, <1>4
  <2> QED BY <2>2, <1>1, <1>5 DEF Between
<1>7. cells' \in [Ring -> 0 .. Stale] /\ cells'[p] = ByHand
      /\ \A c \in Ring : c # p => cells'[c] = cells[c]
  <2>1. cells \in [Ring -> 0 .. Stale]
    BY RingFacts
  <2>2. ByHand \in 0 .. Stale
    BY DEF ByHand, Stale, KeyboardAssumption
  <2> HIDE DEF ByHand, Stale
  <2> QED BY <2>1, <2>2
<1>8. Typed' = Typed /\ \A c \in Typed : c \in Ring /\ cells'[c] = cells[c]
  <2>1. \A c : c \in Typed' <=> c \in Typed
    BY <1>6, <1>7 DEF Typed, ByHand
  <2>2. \A c \in Typed : c \in Ring /\ c # p
    BY <1>6 DEF Typed
  <2> HIDE DEF Typed
  <2> QED BY <2>1, <2>2, <1>7
<1>9. Hands' = Hands \cup {p} /\ p \notin Hands
  <2>1. \A c : c \in Hands' <=> c \in Hands \/ c = p
    BY <1>6, <1>7 DEF Hands, ByHand
  <2>2. p \notin Hands
    BY <1>6 DEF Hands
  <2> HIDE DEF Hands
  <2> QED BY <2>1, <2>2
<1>10. TypedFit(e)'
  <2>1. TypedFit(e)
    BY DEF RingFits
  <2>2. \A c, d : Dist(get, c)' = Dist(g, c)
    BY DEF Dist
  <2> HIDE DEF Typed
  <2> QED BY <1>8, <2>1, <2>2 DEF TypedFit
<1>11. HandsFit'
  <2>1. Cardinality(Hands') = Cardinality(Hands) + 1
    BY <1>9, FS_AddElement, RingFacts
  <2>2. pressed \in Nat /\ gone \in Nat /\ pressed = gone + Cardinality(Hands) /\ Cardinality(Hands) \in Nat
    BY RingFacts
  <2>3. pressed' = gone' + Cardinality(Hands')
    BY <2>1, <2>2
  <2> QED BY <2>2, <2>3 DEF HandsFit, Hands
<1>12. GotFits' /\ CellsFit'
  BY <1>2, <1>7 DEF RingFits, GotFits, CellsFit
<1> QED BY <1>10, <1>11, <1>12 DEF RingFits

\* The first key that waits is the next one to be read.
LEMMA HeadIsNext ==
  ASSUME KeyboardAssumption, NEW e \in Nat, RingFits(e), KeysPending > 0
  PROVE  /\ get \in CellsWaiting
         /\ cells[get] # ByHand => cells[get] = Len(got) + 1 /\ Len(got) + 1 <= e
<1> PICK g \in Ring, p \in Ring : g = get /\ p = put
  BY RingFacts
<1>1. Dist(g, g) = 0 /\ Dist(g, p) > 0 /\ CellsWaiting = Between(g, p)
  BY DistSelf, RingFacts
<1> HIDE DEF Dist, CellsWaiting
<1>2. g \in CellsWaiting
  BY <1>1 DEF Between
<1>3. ASSUME cells[g] # ByHand PROVE cells[g] = Len(got) + 1 /\ Len(got) + 1 <= e
  <2>1. TypedFit(e) /\ g \in Typed /\ Len(got) \in Nat
    BY <1>2, <1>3, RingFacts DEF Typed, RingFits
  <2> HIDE DEF Typed
  <2>2. cells[g] \in Len(got) + 1 .. e
    BY <2>1 DEF TypedFit
  <2>3. PICK c \in Typed : cells[c] = Len(got) + 1
    BY <2>1, <2>2 DEF TypedFit
  <2>4. c \in Ring
    BY RingFacts
  <2>5. c = g
    <3> SUFFICES ASSUME c # g PROVE FALSE
      OBVIOUS
    <3>1. Dist(g, c) # 0 /\ Dist(g, c) \in 0 .. KeyCells - 1
      BY <2>4, <1>1, DistSame, Cells
    <3>2. Dist(g, g) < Dist(g, c)
      BY <3>1, <1>1
    <3>3. cells[g] < cells[c]
      BY <3>2, <2>1, <2>3 DEF TypedFit
    <3> QED BY <3>3, <2>1, <2>2, <2>3
  <2> QED BY <2>1, <2>2, <2>3, <2>5
<1> QED BY <1>2, <1>3

\* What is waiting behind the head.
LEMMA HeadGoes ==
  ASSUME KeyboardAssumption, NEW e \in Nat, RingFits(e), KeysPending > 0,
         get' = CellAfter(get, 1), put' = put
  PROVE  /\ get' \in Ring /\ CellsWaiting' = CellsWaiting \ {get}
         /\ \A c, d \in CellsWaiting' : Dist(get', c) < Dist(get', d) => Dist(get, c) < Dist(get, d)
<1> PICK g \in Ring, p \in Ring : g = get /\ p = put
  BY RingFacts
<1> PICK h : h = get'
  OBVIOUS
<1>1. KeyCells \in Nat /\ KeyCells > 0 /\ Dist(g, p) = KeysPending /\ Dist(g, p) \in 1 .. KeyCells - 1
      /\ 1 \in 0 .. KeyCells - 1
  BY Wraps, RingFacts DEF KeyCapacity
<1>2. h \in Ring /\ Dist(g, h) = 1
  BY <1>1, Cells
<1>3. \A c \in Ring : Dist(g, c) \in 0 .. KeyCells - 1 /\ Dist(h, c) \in 0 .. KeyCells - 1
  BY <1>2, Cells
<1>4. ASSUME NEW c \in Ring
      PROVE  Dist(h, c) = IF c = g THEN KeyCells - 1 ELSE Dist(g, c) - 1
  <2>1. g \in Nat /\ g < KeyCells /\ c \in Nat /\ c < KeyCells
    BY <1>1 DEF Ring
  <2>2. h = IF g + 1 < KeyCells THEN g + 1 ELSE 0
    <3>1. h = IF g + 1 < KeyCells THEN g + 1 ELSE g + 1 - KeyCells
      BY <1>1, Cells
    <3> QED BY <3>1, <2>1, <1>1
  <2>3. CASE g + 1 < KeyCells
    BY <2>1, <2>2, <2>3, <1>1 DEF Dist
  <2>4. CASE ~(g + 1 < KeyCells)
    BY <2>1, <2>2, <2>4, <1>1 DEF Dist
  <2> QED BY <2>3, <2>4
<1> HIDE DEF Dist
<1>5. CellsWaiting' = Between(h, p) /\ CellsWaiting = Between(g, p)
  BY <1>2, WaitingThen, RingFacts
<1>6. \A c \in Ring : (Dist(h, c) < Dist(h, p)) <=> (Dist(g, c) < Dist(g, p) /\ c # g)
  <2>1. Dist(g, g) = 0
    BY DistSelf
  <2>2. p # g /\ Dist(h, p) = Dist(g, p) - 1
    BY <2>1, <1>1, <1>4
  <2> TAKE c \in Ring
  <2>3. CASE c = g
    BY <2>2, <2>3, <1>1, <1>3, <1>4
  <2>4. CASE c # g
    <3>1. Dist(h, c) = Dist(g, c) - 1
      BY <2>4, <1>4
    <3> QED BY <3>1, <2>2, <2>4, <1>1, <1>3
  <2> QED BY <2>3, <2>4
<1> HIDE DEF CellsWaiting
<1>7. CellsWaiting' = CellsWaiting \ {g} /\ CellsWaiting' \subseteq Ring
  BY <1>5, <1>6 DEF Between
<1>8. ASSUME NEW c \in CellsWaiting', NEW d \in CellsWaiting', Dist(h, c) < Dist(h, d)
      PROVE  Dist(g, c) < Dist(g, d)
  <2>1. c \in Ring /\ c # g /\ d \in Ring /\ d # g
    BY <1>7
  <2>2. Dist(h, c) = Dist(g, c) - 1 /\ Dist(h, d) = Dist(g, d) - 1
    BY <2>1, <1>4
  <2> QED BY <2>1, <2>2, <1>3, <1>8
<1> QED BY <1>2, <1>7, <1>8

\* The program reads a key.
LEMMA RingRead ==
  ASSUME KeyboardAssumption, NEW e \in Nat, RingFits(e), KeysPending > 0,
         get' = CellAfter(get, 1), UNCHANGED <<cells, put, pressed>>,
         got' = IF cells[get] = ByHand THEN got ELSE Append(got, cells[get]),
         gone' = IF cells[get] = ByHand THEN gone + 1 ELSE gone
  PROVE  RingFits(e)'
<1> PICK g \in Ring : g = get
  BY RingFacts
<1>1. g \in CellsWaiting /\ (cells[g] # ByHand => cells[g] = Len(got) + 1 /\ Len(got) + 1 <= e)
  BY HeadIsNext
<1>2. /\ get' \in Ring /\ CellsWaiting' = CellsWaiting \ {g}
      /\ \A c, d \in CellsWaiting' : Dist(get', c) < Dist(get', d) => Dist(g, c) < Dist(g, d)
  BY HeadGoes
<1>3. CellsWaiting \subseteq Ring /\ Len(got) \in Nat /\ got \in Seq(Nat) /\ TypedFit(e)
      /\ DOMAIN got = 1 .. Len(got) /\ (\A i \in DOMAIN got : got[i] = i)
  BY RingFacts DEF RingFits, GotFits
<1> HIDE DEF CellsWaiting, Dist, KeysPending
<1>4. Typed' = Typed \ {g} /\ Hands' = Hands \ {g}
  BY <1>2 DEF Typed, Hands, ByHand
<1>5. CASE cells[g] = ByHand
  <2>1. g \notin Typed /\ g \in Hands
    BY <1>1, <1>5 DEF Typed, Hands
  <2>2. Typed' = Typed
    BY <2>1, <1>4
  <2>3. TypedFit(e)'
    <3>1. \A c \in Typed' : c \in CellsWaiting'
      BY DEF Typed
    <3> HIDE DEF Typed
    <3> QED BY <3>1, <2>2, <1>2, <1>3, <1>5 DEF TypedFit
  <2>4. HandsFit'
    <3>1. Cardinality(Hands') = Cardinality(Hands) - 1
      BY <2>1, <1>4, FS_RemoveElement, RingFacts
    <3>2. pressed \in Nat /\ gone \in Nat /\ pressed = gone + Cardinality(Hands) /\ Cardinality(Hands) \in Nat
      BY RingFacts
    <3>3. pressed' = gone' + Cardinality(Hands') /\ gone' \in Nat
      BY <3>1, <3>2, <1>5
    <3> QED BY <3>2, <3>3 DEF HandsFit, Hands
  <2> QED BY <2>3, <2>4, <1>2, <1>5 DEF RingFits, GotFits, CellsFit
<1>6. CASE cells[g] # ByHand
  <2> PICK v : v = Len(got) + 1
    OBVIOUS
  <2>1. g \in Typed /\ g \notin Hands /\ cells[g] = v /\ v \in Nat /\ v <= e
    BY <1>1, <1>3, <1>6 DEF Typed, Hands
  <2>2. got' = Append(got, v)
    BY <2>1, <1>6
  <2>3. got' \in Seq(Nat) /\ Len(got') = v /\ \A i \in DOMAIN got' : got'[i] = i
    BY <2>1, <2>2, <1>3
  <2>4. TypedFit(e)'
    <3>1. \A c \in Typed : c \in Typed' \/ c = g
      BY <1>4
    <3>2. \A c \in Typed' : c \in CellsWaiting' /\ c \in Typed /\ c # g /\ c \in Ring
      BY <1>2, <1>3, <1>4 DEF Typed
    <3>3. ASSUME NEW c \in Typed' PROVE cells[c] \in v + 1 .. e
      <4>1. c \in Typed /\ c # g /\ c \in Ring
        BY <3>2
      <4>2. Dist(g, g) = 0 /\ Dist(g, c) # 0 /\ Dist(g, c) \in 0 .. KeyCells - 1
        BY <4>1, DistSelf, DistSame, Cells
      <4>3. Dist(g, g) < Dist(g, c)
        BY <4>2
      <4> HIDE DEF Typed
      <4>4. cells[g] < cells[c] /\ cells[c] \in Len(got) + 1 .. e
        BY <4>1, <4>3, <2>1, <1>3 DEF TypedFit
      <4> QED BY <4>4, <2>1
    <3>4. ASSUME NEW w \in v + 1 .. e PROVE \E c \in Typed' : cells[c] = w
      <4>1. w \in Len(got) + 1 .. e /\ w # v
        BY <2>1, <1>3
      <4>2. PICK c \in Typed : cells[c] = w
        BY <4>1, <1>3 DEF TypedFit
      <4> QED BY <4>1, <4>2, <3>1, <2>1
    <3>5. ASSUME NEW c \in Typed', NEW d \in Typed', Dist(get', c) < Dist(get', d)
          PROVE  cells[c] < cells[d]
      <4>1. Dist(g, c) < Dist(g, d) /\ c \in Typed /\ d \in Typed
        BY <3>2, <3>5, <1>2
      <4> HIDE DEF Typed
      <4> QED BY <4>1, <1>3 DEF TypedFit
    <3>6. Len(got') <= e
      BY <2>1, <2>3
    <3>7. \A c, d : Dist(get, c)' = Dist(get', c)
      BY DEF Dist
    <3> HIDE DEF Typed
    <3> QED BY <2>3, <3>3, <3>4, <3>5, <3>6, <3>7 DEF TypedFit
  <2>5. HandsFit'
    <3>1. Hands' = Hands
      BY <2>1, <1>4
    <3> QED BY <3>1, <1>6, RingFacts DEF HandsFit, Hands
  <2> QED BY <2>3, <2>4, <2>5, <1>2, RingFacts DEF RingFits, GotFits, CellsFit
<1> QED BY <1>5, <1>6

\* A program clears a ring without keys of the host.
LEMMA RingCleared ==
  ASSUME KeyboardAssumption, NEW e \in Nat, RingFits(e), Len(got) = e,
         get' = put, gone' = gone + Cardinality({c \in CellsWaiting : cells[c] = ByHand}),
         UNCHANGED <<cells, put, got, pressed>>
  PROVE  RingFits(e)'
<1> PICK p \in Ring : p = put
  BY RingFacts
<1>1. CellsWaiting' = Between(p, p) /\ get' = p
  BY WaitingThen
<1>2. CellsWaiting' = {}
  <2>1. Dist(p, p) = 0 /\ \A c \in Ring : Dist(p, c) \in 0 .. KeyCells - 1
    BY DistSelf, Cells
  <2> HIDE DEF Dist
  <2> QED BY <2>1, <1>1 DEF Between
<1> HIDE DEF CellsWaiting, Dist
<1>3. Typed' = {} /\ Hands' = {}
  BY <1>2 DEF Typed, Hands
<1>4. TypedFit(e)'
  <2>1. e + 1 .. e = {}
    OBVIOUS
  <2> HIDE DEF Typed
  <2> QED BY <2>1, <1>3 DEF TypedFit
<1>5. HandsFit'
  <2>1. Cardinality(Hands') = 0
    BY <1>3, FS_EmptySet
  <2>2. pressed \in Nat /\ gone \in Nat /\ pressed = gone + Cardinality(Hands)
        /\ Cardinality(Hands) \in Nat /\ gone' = gone + Cardinality(Hands)
    BY RingFacts DEF Hands
  <2>3. pressed' = gone' + Cardinality(Hands') /\ pressed' \in Nat /\ gone' \in Nat
    BY <2>1, <2>2
  <2> QED BY <2>3 DEF HandsFit, Hands
<1> QED BY <1>1, <1>4, <1>5 DEF RingFits, GotFits, CellsFit

----------------------------------------------------------------------------
\* Lines.

\* Where the line ends that begins behind character l.
EndOf(l) ==
  LET ends == {i \in l + 1 .. Len(Typing) : Typing[i] = "r"}
  IN  IF ends = {} THEN Len(Typing) ELSE CHOOSE i \in ends : \A j \in ends : i <= j

LEMMA LineEnds ==
  ASSUME KeyboardAssumption, NEW l \in Nat, l <= Len(Typing)
  PROVE  /\ Len(Typing) \in Nat /\ EndOf(l) \in l .. Len(Typing)
         /\ Len(Typing) > l => EndOf(l) > l
         /\ \A i \in l + 1 .. Len(Typing) : Typing[i] = "r" => EndOf(l) <= i
<1>1. Len(Typing) \in Nat
  BY DEF KeyboardAssumption
<1> DEFINE ends == {i \in l + 1 .. Len(Typing) : Typing[i] = "r"}
<1>2. CASE ends = {}
  <2>1. EndOf(l) = Len(Typing)
    BY <1>2 DEF EndOf
  <2> QED BY <2>1, <1>1, <1>2
<1>3. CASE ends # {}
  <2>1. \E i \in ends : \A j \in ends : i <= j
    <3>1. ends \subseteq Nat
      BY <1>1
    <3> DEFINE less == OpToRel(<, Nat)
    <3>2. IsWellFoundedOn(less, Nat)
      BY NatLessThanWellFounded
    <3>3. \A i, j \in Nat : i < j => <<i, j>> \in less
      BY DEF OpToRel
    <3>4. PICK i \in ends : \A j \in ends : <<j, i>> \notin less
      <4> HIDE DEF less, ends
      <4> QED BY <3>1, <3>2, <1>3, WFMin
    <3>5. \A j \in ends : i <= j
      <4> HIDE DEF less
      <4> TAKE j \in ends
      <4>1. i \in Nat /\ j \in Nat /\ <<j, i>> \notin less
        BY <3>1, <3>4
      <4>2. ~(j < i)
        BY <4>1, <3>3
      <4> QED BY <4>1, <4>2
    <3> QED BY <3>5
  <2>2. EndOf(l) = CHOOSE i \in ends : \A j \in ends : i <= j
    BY <1>3 DEF EndOf
  <2>3. EndOf(l) \in ends /\ \A j \in ends : EndOf(l) <= j
    BY <2>1, <2>2
  <2> QED BY <2>3, <1>1
<1> QED BY <1>2, <1>3

LEMMA LineEndIs == LineEnd = EndOf(typist.line) /\ LineEnd' = EndOf(typist'.line)
BY DEF LineEnd, EndOf

LEMMA TypistFacts ==
  ASSUME KeyboardAssumption, NEW e \in 0 .. Len(Typing), RingFits(e), TypistFits(e)
  PROVE  /\ Len(Typing) \in Nat /\ e \in Nat /\ Len(got) \in Nat /\ LineEnd \in Nat
         /\ typist.line \in Nat /\ typist.at \in Nat /\ typist.taken \in Nat
         /\ KeyCapacity \in Nat /\ KeysPending \in 0 .. KeyCapacity
         /\ typist.credits \in 0 .. KeyCapacity
         /\ typist.line <= Len(got) /\ Len(got) <= e /\ typist.line <= typist.at
         /\ typist.at <= e /\ e <= LineEnd /\ LineEnd <= Len(Typing)
         /\ Len(Typing) > typist.line => LineEnd > typist.line
         /\ \A i \in typist.line + 1 .. Len(Typing) : Typing[i] = "r" => LineEnd <= i
<1>1. Len(Typing) \in Nat /\ KeyCapacity \in Nat
  BY DEF KeyboardAssumption, KeyCapacity
<1>2. /\ typist.line \in Nat /\ typist.at \in Nat /\ typist.taken \in Nat
      /\ typist.credits \in 0 .. KeyCapacity
  BY DEF TypistFits, FieldsFit
<1>3. /\ typist.line <= Len(got) /\ typist.line <= typist.at /\ typist.at <= e /\ e <= LineEnd
  BY DEF TypistFits, LineFits
<1>4. Len(got) \in Nat /\ KeysPending \in 0 .. KeyCapacity
  BY RingFacts
<1>5. Len(got) <= e
  BY DEF RingFits, TypedFit
<1>6. typist.line <= Len(Typing)
  BY <1>1, <1>2, <1>3, <1>4, <1>5
<1>7. /\ EndOf(typist.line) \in typist.line .. Len(Typing)
      /\ Len(Typing) > typist.line => EndOf(typist.line) > typist.line
      /\ \A i \in typist.line + 1 .. Len(Typing) : Typing[i] = "r" => EndOf(typist.line) <= i
  BY <1>2, <1>6, LineEnds
<1> HIDE DEF LineEnd, EndOf, KeyCapacity, KeysPending
<1>8. LineEnd = EndOf(typist.line)
  BY LineEndIs
<1> QED BY <1>1, <1>2, <1>3, <1>4, <1>5, <1>7, <1>8

\* What a request carries.
LEMMA BatchFacts ==
  ASSUME KeyboardAssumption, NEW e \in 0 .. Len(Typing), RingFits(e), TypistFits(e)
  PROVE  /\ KeyBatch \in 0 .. LineEnd - typist.at
         /\ Less(KeyBatch, KeyCapacity - KeysPending) \in 0 .. KeyCapacity - KeysPending
         /\ Less(KeyBatch, KeyCapacity - KeysPending) <= LineEnd - typist.at
<1>1. /\ LineEnd \in Nat /\ typist.at \in Nat /\ typist.at <= LineEnd
      /\ typist.credits \in Nat /\ KeyCapacity \in Nat /\ KeysPending \in 0 .. KeyCapacity
  BY TypistFacts
<1> HIDE DEF LineEnd, KeyCapacity, KeysPending
<1> QED BY <1>1 DEF KeyBatch, Less

----------------------------------------------------------------------------
\* The typist.

\* A step that changes only where the call is.
LEMMA PcMoves ==
  ASSUME FieldsFit, NEW p, typist' = TypistAt(p)
  PROVE  /\ typist' = [f \in TypistFields |-> typist'[f]] /\ typist'.pc = p
         /\ typist'.line = typist.line /\ typist'.at = typist.at /\ typist'.taken = typist.taken
         /\ typist'.put = typist.put /\ typist'.pending = typist.pending
         /\ typist'.credits = typist.credits /\ LineEnd' = LineEnd
<1>1. /\ typist' = [f \in TypistFields |-> typist'[f]] /\ typist'.pc = p
      /\ typist'.line = typist.line /\ typist'.at = typist.at /\ typist'.taken = typist.taken
      /\ typist'.put = typist.put /\ typist'.pending = typist.pending
      /\ typist'.credits = typist.credits
  BY DEF FieldsFit, TypistFields, TypistAt
<1> HIDE DEF LineEnd
<1> QED BY <1>1, LineEndIs

LEMMA FailMoves ==
  ASSUME FieldsFit, typist' = TypistFails \/ typist' = [TypistFails EXCEPT !.lost = @ + 1]
  PROVE  /\ typist' = [f \in TypistFields |-> typist'[f]] /\ typist'.pc = "failed"
         /\ typist'.line = typist.line /\ typist'.at = typist.at /\ typist'.taken = typist.taken
         /\ typist'.credits = typist.credits /\ LineEnd' = LineEnd
<1>1. /\ typist' = [f \in TypistFields |-> typist'[f]] /\ typist'.pc = "failed"
      /\ typist'.line = typist.line /\ typist'.at = typist.at /\ typist'.taken = typist.taken
      /\ typist'.credits = typist.credits
  BY DEF FieldsFit, TypistFields, TypistFails
<1> HIDE DEF LineEnd
<1> QED BY <1>1, LineEndIs

\* The bytes of a batch have been typed.
LEMMA TookMoves ==
  ASSUME FieldsFit, NEW n \in Nat, NEW k, typist' = Took(n, k)
  PROVE  /\ typist' = [f \in TypistFields |-> typist'[f]]
         /\ typist'.pc = (IF typist.at + n = LineEnd THEN "drain" ELSE "type")
         /\ typist'.line = typist.line /\ typist'.at = typist.at + n /\ typist'.taken = 0
         /\ typist'.credits = KeyCapacity - k /\ LineEnd' = LineEnd
<1> HIDE DEF LineEnd, KeyCapacity
<1>1. /\ typist' = [f \in TypistFields |-> typist'[f]]
      /\ typist'.pc = (IF typist.at + n = LineEnd THEN "drain" ELSE "type")
      /\ typist'.line = typist.line /\ typist'.at = typist.at + n /\ typist'.taken = 0
      /\ typist'.credits = KeyCapacity - k
  BY DEF FieldsFit, TypistFields, Took
<1> QED BY <1>1, LineEndIs

\* The call fails: what it has typed up to character f stays where it is.
LEMMA CallFails ==
  ASSUME KeyboardAssumption, NEW e \in 0 .. Len(Typing), NEW f \in 0 .. Len(Typing),
         RingFits(e), TypistFits(e), e <= f, f <= LineEnd,
         ~byT => f \in {typist.at, typist.at + typist.taken},
         typist' = TypistFails \/ typist' = [TypistFails EXCEPT !.lost = @ + 1],
         frozen' \in BOOLEAN, UNCHANGED <<byT, running, got>>
  PROVE  TypistFits(f)'
<1> USE DEF TypistFits
<1> HIDE DEF LineEnd
<1>1. /\ typist' = [g \in TypistFields |-> typist'[g]] /\ typist'.pc = "failed"
      /\ typist'.line = typist.line /\ typist'.at = typist.at /\ typist'.taken = typist.taken
      /\ typist'.credits = typist.credits /\ LineEnd' = LineEnd
  BY FailMoves
<1>2. FieldsFit'
  <2> HIDE DEF TypistFields
  <2> QED BY <1>1 DEF FieldsFit, KeyCapacity
<1>3. LineFits(f)'
  <2>1. /\ typist.line <= Len(got) /\ typist.line <= typist.at /\ typist.at <= f
        /\ f <= LineEnd
    BY TypistFacts
  <2>2. Len(got') = Len(got) /\ byT' = byT
    OBVIOUS
  <2> QED BY <1>1, <2>1, <2>2 DEF LineFits
<1>4. BatchFits(f)'
  BY <1>1 DEF BatchFits, Transaction
<1>5. RunningFits'
  BY <1>1 DEF RunningFits
<1> QED BY <1>2, <1>3, <1>4, <1>5

\* The machine runs on: the call does not change.
LEMMA TypistWaits ==
  ASSUME KeyboardAssumption, NEW e \in 0 .. Len(Typing), RingFits(e), TypistFits(e),
         ~frozen, frozen' = FALSE, UNCHANGED <<byT, typist>>,
         Len(got') \in Nat, Len(got) <= Len(got'), Len(got') <= e, running' \in BOOLEAN,
         running' => Len(got') = LineEnd /\ typist.pc \in {"drain", "settle", "failed"}
  PROVE  TypistFits(e)'
<1> USE DEF TypistFits
<1>1. LineEnd' = LineEnd
  <2> HIDE DEF LineEnd
  <2> QED BY LineEndIs
<1> HIDE DEF LineEnd
<1>2. typist.pc \notin Transaction
  BY DEF BatchFits
<1>3. FieldsFit'
  BY DEF FieldsFit, KeyCapacity
<1>4. LineFits(e)'
  <2>1. typist.line <= Len(got') /\ Len(got) \in Nat
    BY TypistFacts
  <2>2. typist.pc \in {"settle", "ok"} => Len(got') = e
    BY <2>1 DEF LineFits
  <2> QED BY <1>1, <2>1, <2>2 DEF LineFits
<1>5. BatchFits(e)'
  BY <1>2 DEF BatchFits, Transaction
<1>6. RunningFits'
  BY <1>1 DEF RunningFits
<1> QED BY <1>3, <1>4, <1>5, <1>6

----------------------------------------------------------------------------
\* The steps.

Fits(e) == RingFits(e) /\ TypistFits(e)

LEMMA ReadingFits ==
  ASSUME KeyboardAssumption, NEW e \in 0 .. Len(Typing), Fits(e), Reading
  PROVE  Fits(e)'
<1> USE DEF Fits
<1> DEFINE v == cells[get]
<1>1. /\ e \in Nat /\ Len(got) \in Nat /\ LineEnd \in Nat /\ Len(Typing) \in Nat
      /\ typist.line \in Nat /\ typist.line <= Len(got) /\ Len(got) <= e
      /\ e <= LineEnd /\ LineEnd <= Len(Typing)
      /\ \A i \in typist.line + 1 .. Len(Typing) : Typing[i] = "r" => LineEnd <= i
  BY TypistFacts
<1> HIDE DEF LineEnd
<1>2. v # ByHand => v = Len(got) + 1 /\ Len(got) + 1 <= e
  BY HeadIsNext DEF Reading
<1>3. got' = (IF v = ByHand THEN got ELSE Append(got, v)) /\ got \in Seq(Nat)
  BY RingFacts DEF Reading
<1>4. RingFits(e)'
  BY RingRead DEF Reading
<1>5. Len(got') \in Nat /\ Len(got) <= Len(got') /\ Len(got') <= e
  <2>1. CASE v = ByHand
    BY <2>1, <1>1, <1>3
  <2>2. CASE v # ByHand
    <3>1. v \in Nat
      BY <2>2, <1>1, <1>2
    <3>2. Len(got') = Len(got) + 1
      BY <2>2, <3>1, <1>3
    <3> QED BY <2>2, <3>2, <1>1, <1>2
  <2> QED BY <2>1, <2>2
<1>6. ASSUME running' PROVE Len(got') = LineEnd /\ typist.pc \in {"drain", "settle", "failed"}
  <2>1. v \in 1 .. Len(Typing) /\ Typing[v] = "r"
    <3>1. v \in DOMAIN Typing /\ Typing[v] = "r"
      BY <1>6, Zenon DEF Reading
    <3>2. DOMAIN Typing = 1 .. Len(Typing)
      BY DEF KeyboardAssumption
    <3> QED BY <3>1, <3>2
  <2>2. v # ByHand
    BY <2>1 DEF ByHand
  <2>3. v \in typist.line + 1 .. Len(Typing)
    BY <2>1, <2>2, <1>1, <1>2
  <2>4. LineEnd <= v
    BY <2>1, <2>3, <1>1
  <2>5. v = LineEnd /\ e = LineEnd /\ Len(got) < e /\ Len(got') = v
    <3>1. Len(got') = Len(got) + 1
      BY <2>1, <2>2, <1>3
    <3> QED BY <3>1, <2>2, <2>4, <1>1, <1>2
  <2>6. typist.pc \notin Transaction
    BY DEF Reading, TypistFits, BatchFits
  <2>7. typist.pc # "type"
    BY <2>1, <2>5, <1>1 DEF TypistFits, LineFits
  <2>8. typist.pc # "ok"
    BY <2>5, <1>1 DEF TypistFits, LineFits
  <2> QED BY <2>5, <2>6, <2>7, <2>8 DEF TypistFits, FieldsFit
<1>7. running' \in BOOLEAN /\ ~frozen /\ frozen' = FALSE /\ UNCHANGED <<byT, typist>>
  BY DEF Reading, TypistFits, RunningFits
<1> HIDE DEF v
<1> QED BY <1>4, <1>5, <1>6, <1>7, TypistWaits

LEMMA RunningStays ==
  ASSUME KeyboardAssumption, NEW e \in 0 .. Len(Typing), Fits(e), Running
  PROVE  Fits(e)'
<1> USE DEF Fits
<1>1. /\ e \in Nat /\ Len(got) \in Nat /\ LineEnd \in Nat /\ Len(got) <= e /\ e <= LineEnd
  BY TypistFacts
<1> HIDE DEF LineEnd
<1>2. Len(got) = e
  BY <1>1 DEF TypistFits, RunningFits, Running
<1>3. RingFits(e)'
  <2>1. CASE UNCHANGED <<get, gone>>
    <3>1. cells' \in [Ring -> 0 .. Stale]
      BY RingFacts DEF Running
    <3> QED BY <2>1, <3>1, RingStays DEF Running
  <2>2. CASE /\ get' = put
             /\ gone' = gone + Cardinality({c \in CellsWaiting : cells[c] = ByHand})
    BY <2>2, <1>1, <1>2, RingCleared DEF Running
  <2> QED BY <2>1, <2>2 DEF Running
<1>4. ~frozen /\ frozen' = FALSE /\ running' = FALSE /\ UNCHANGED <<byT, typist, got>>
  BY DEF Running, TypistFits, RunningFits
<1>5. Len(got') \in Nat /\ Len(got) <= Len(got') /\ Len(got') <= e
  <2>1. Len(got') = Len(got)
    BY <1>4
  <2> QED BY <1>1, <2>1
<1>6. TypistFits(e)'
  <2>1. ~frozen /\ frozen' = FALSE /\ UNCHANGED <<byT, typist>>
    BY <1>4
  <2>2. running' \in BOOLEAN
        /\ (running' => Len(got') = LineEnd /\ typist.pc \in {"drain", "settle", "failed"})
    BY <1>4
  <2> QED BY <1>5, <2>1, <2>2, TypistWaits
<1> QED BY <1>3, <1>6

LEMMA PressingFits ==
  ASSUME KeyboardAssumption, NEW e \in 0 .. Len(Typing), Fits(e), Pressing
  PROVE  Fits(e)'
<1> USE DEF Fits
<1>1. e \in Nat /\ Len(got) \in Nat /\ Len(got) <= e
  BY TypistFacts
<1>2. RingFits(e)'
  BY <1>1, RingPressed DEF Pressing
<1>3. ~frozen /\ frozen' = FALSE /\ UNCHANGED <<byT, typist, got, running>>
  BY DEF Pressing, TypistFits, RunningFits
<1>4. /\ Len(got') \in Nat /\ Len(got) <= Len(got') /\ Len(got') <= e /\ running' \in BOOLEAN
      /\ (running' => Len(got') = LineEnd /\ typist.pc \in {"drain", "settle", "failed"})
  BY <1>1, <1>3 DEF TypistFits, RunningFits
<1> HIDE DEF LineEnd
<1>5. TypistFits(e)'
  <2>1. ~frozen /\ frozen' = FALSE /\ UNCHANGED <<byT, typist>>
    BY <1>3
  <2> QED BY <1>4, <2>1, TypistWaits
<1> QED BY <1>2, <1>5

\* Nothing waited for changes, and the machine's share of the state neither.
LEMMA KeysStay ==
  ASSUME KeyboardAssumption, NEW e, RingFits(e), UNCHANGED <<cells, put, get, got, pressed, gone>>
  PROVE  RingFits(e)' /\ KeysPending' = KeysPending
<1>1. cells' \in [Ring -> 0 .. Stale]
  BY RingFacts
<1>2. RingFits(e)'
  BY <1>1, RingStays
<1> QED BY <1>2 DEF KeysPending

LEMMA LetsGoFits ==
  ASSUME KeyboardAssumption, NEW e \in 0 .. Len(Typing), Fits(e), LetsGo
  PROVE  Fits(e)'
<1> USE DEF Fits
<1>1. RingFits(e)'
  BY KeysStay DEF LetsGo
<1>2. typist.pc = "failed" /\ frozen' = FALSE /\ UNCHANGED <<byT, typist, got, running>>
  BY DEF LetsGo
<1>3. LineEnd' = LineEnd
  <2> HIDE DEF LineEnd
  <2> QED BY <1>2, LineEndIs
<1> HIDE DEF LineEnd
<1>4. TypistFits(e)'
  BY <1>2, <1>3 DEF TypistFits, FieldsFit, LineFits, BatchFits, RunningFits, Transaction, KeyCapacity
<1> QED BY <1>1, <1>4

LEMMA FailFits ==
  ASSUME KeyboardAssumption, NEW e \in 0 .. Len(Typing), Fits(e), NotRead \/ RequestIsLost
  PROVE  Fits(e)'
<1> USE DEF Fits
<1>1. UNCHANGED <<cells, put, get, frozen, byT, running, pressed, got, gone>>
      /\ (typist' = TypistFails \/ typist' = [TypistFails EXCEPT !.lost = @ + 1])
  BY DEF NotRead, RequestIsLost, MachineKeys, Surroundings
<1>2. RingFits(e)'
  BY <1>1, KeysStay
<1>3. e \in Nat /\ e <= LineEnd
  BY TypistFacts
<1>4. frozen' \in BOOLEAN /\ (~byT => e \in {typist.at, typist.at + typist.taken})
  BY <1>1 DEF TypistFits, RunningFits, LineFits
<1> HIDE DEF LineEnd
<1>5. TypistFits(e)'
  BY <1>1, <1>3, <1>4, CallFails
<1> QED BY <1>2, <1>5

LEMMA WritesAtOnceFits ==
  ASSUME KeyboardAssumption, NEW e \in 0 .. Len(Typing), Fits(e), WritesAtOnce
  PROVE  \E f \in 0 .. Len(Typing) : Fits(f)'
<1> USE DEF Fits
<1> PICK n : n = Less(KeyBatch, KeyCapacity - KeysPending)
  OBVIOUS
<1>1. /\ e \in Nat /\ Len(got) \in Nat /\ LineEnd \in Nat /\ Len(Typing) \in Nat
      /\ typist.at \in Nat /\ typist.line \in Nat /\ typist.line <= Len(got)
      /\ typist.line <= typist.at /\ LineEnd <= Len(Typing)
      /\ KeyCapacity \in Nat /\ KeysPending \in 0 .. KeyCapacity
  BY TypistFacts
<1>2. n \in 0 .. KeyCapacity - KeysPending /\ n <= LineEnd - typist.at
  BY BatchFacts
<1>3. /\ typist.pc = "type" /\ byT /\ put' = CellAfter(put, n)
      /\ cells' = [c \in DOMAIN cells |->
               IF (c + KeyCells - put) % KeyCells < n
               THEN typist.at + 1 + ((c + KeyCells - put) % KeyCells) ELSE cells[c]]
      /\ (typist' = Took(n, KeysPending + n) \/ typist' = [TypistFails EXCEPT !.lost = @ + 1])
      /\ UNCHANGED <<get, frozen, byT, running, pressed, got, gone>>
  BY DEF WritesAtOnce, AsksAgent, Surroundings
<1> HIDE DEF LineEnd, KeyCapacity, KeysPending
<1>4. e = typist.at /\ ~running /\ ~frozen /\ typist.pc \notin {"resume", "failed"}
  BY <1>3 DEF TypistFits, LineFits, RunningFits, Transaction
<1>5. n \in Nat /\ e + n \in 0 .. Len(Typing) /\ e + n <= LineEnd
  BY <1>1, <1>2, <1>4
<1>6. RingFits(e + n)'
  <2>1. put \in Ring /\ DOMAIN cells = Ring /\ cells \in [Ring -> 0 .. Stale]
    BY RingFacts
  <2>2. \A c \in Ring : /\ (c + KeyCells - put) % KeyCells = Dist(put, c)
                        /\ Dist(put, c) \in 0 .. KeyCells - 1
    BY <2>1, Cells
  <2> HIDE DEF Dist
  <2>3. \A c \in Ring : cells'[c] = IF Dist(put, c) < n THEN e + 1 + Dist(put, c) ELSE cells[c]
    BY <2>1, <2>2, <1>3, <1>4
  <2>4. ASSUME NEW c \in Ring PROVE cells'[c] \in 0 .. Stale
    <3>1. CASE Dist(put, c) < n
      <4>1. Dist(put, c) \in Nat /\ cells'[c] = e + 1 + Dist(put, c)
        BY <3>1, <2>2, <2>3
      <4>2. \A d \in Nat : d < n => e + 1 + d \in 0 .. Stale
        BY <1>1, <1>5 DEF Stale
      <4> QED BY <3>1, <4>1, <4>2
    <3>2. CASE ~(Dist(put, c) < n)
      BY <3>2, <2>1, <2>3
    <3> QED BY <3>1, <3>2
  <2>5. cells' \in [Ring -> 0 .. Stale]
    BY <2>1, <2>4, <1>3
  <2> QED BY <2>3, <2>5, <1>1, <1>2, <1>3, RingGrows
<1>7. TypistFits(e + n)'
  <2>1. CASE typist' = Took(n, KeysPending + n)
    <3>1. FieldsFit
      BY DEF TypistFits
    <3>2. /\ typist' = [f \in TypistFields |-> typist'[f]]
          /\ typist'.pc = (IF typist.at + n = LineEnd THEN "drain" ELSE "type")
          /\ typist'.line = typist.line /\ typist'.at = typist.at + n /\ typist'.taken = 0
          /\ typist'.credits = KeyCapacity - (KeysPending + n) /\ LineEnd' = LineEnd
      BY <3>1, <2>1, <1>5, TookMoves
    <3>3. FieldsFit'
      <4> HIDE DEF TypistFields
      <4>1. KeyCapacity - (KeysPending + n) \in 0 .. KeyCapacity
        BY <1>1, <1>2
      <4>2. typist'.pc \in {"type", "drain"}
        BY <3>2
      <4>3. typist'.at \in Nat /\ typist'.taken \in Nat /\ typist'.line \in Nat
        <5>1. typist.at + n \in Nat
          BY <1>1, <1>5
        <5> QED BY <3>2, <5>1, <1>1
      <4>4. typist'.credits \in 0 .. KeyCapacity
        BY <3>2, <4>1
      <4> QED BY <3>2, <4>2, <4>3, <4>4 DEF FieldsFit, KeyCapacity
    <3>4. LineFits(e + n)'
      BY <3>2, <1>1, <1>3, <1>4, <1>5 DEF LineFits
    <3>5. BatchFits(e + n)' /\ RunningFits'
      BY <3>2, <1>3, <1>4 DEF BatchFits, RunningFits, Transaction, TypistFits
    <3> QED BY <3>3, <3>4, <3>5 DEF TypistFits
  <2>2. CASE typist' = [TypistFails EXCEPT !.lost = @ + 1]
    BY <2>2, <1>1, <1>3, <1>4, <1>5, CallFails DEF TypistFits, RunningFits
  <2> QED BY <2>1, <2>2, <1>3
<1> QED BY <1>5, <1>6, <1>7

\* A request with no effect on the keys has been answered with n bytes typed.
LEMMA TookFits ==
  ASSUME KeyboardAssumption, NEW e \in 0 .. Len(Typing), Fits(e),
         NEW n \in Nat, NEW k \in 0 .. KeyCapacity, e = typist.at + n,
         typist' = Took(n, k), frozen' = FALSE, ~running, UNCHANGED <<byT, running, got>>
  PROVE  TypistFits(e)'
<1> USE DEF Fits
<1>1. FieldsFit
  BY DEF TypistFits
<1>2. /\ e \in Nat /\ Len(got) \in Nat /\ LineEnd \in Nat /\ typist.at \in Nat
      /\ typist.line \in Nat /\ typist.line <= Len(got) /\ typist.line <= typist.at
      /\ e <= LineEnd /\ KeyCapacity \in Nat
  BY TypistFacts
<1> HIDE DEF LineEnd, KeyCapacity
<1>3. /\ typist' = [f \in TypistFields |-> typist'[f]]
      /\ typist'.pc = (IF typist.at + n = LineEnd THEN "drain" ELSE "type")
      /\ typist'.line = typist.line /\ typist'.at = typist.at + n /\ typist'.taken = 0
      /\ typist'.credits = KeyCapacity - k /\ LineEnd' = LineEnd
  BY <1>1, TookMoves
<1>4. FieldsFit'
  <2> HIDE DEF TypistFields
  <2>1. KeyCapacity - k \in 0 .. KeyCapacity
    BY <1>2
  <2>2. typist'.pc \in {"type", "drain"} /\ typist'.at \in Nat /\ typist'.taken \in Nat
    BY <1>2, <1>3
  <2> QED BY <1>2, <1>3, <2>1, <2>2 DEF FieldsFit, KeyCapacity
<1>5. LineFits(e)'
  <2>1. typist'.at = e /\ typist'.line <= e /\ Len(got') = Len(got)
    BY <1>2, <1>3
  <2> QED BY <1>2, <1>3, <2>1 DEF LineFits
<1>6. BatchFits(e)' /\ RunningFits'
  BY <1>3 DEF BatchFits, RunningFits, Transaction, TypistFits
<1> QED BY <1>4, <1>5, <1>6 DEF TypistFits

LEMMA LooksFits ==
  ASSUME KeyboardAssumption, NEW e \in 0 .. Len(Typing), Fits(e), Looks
  PROVE  Fits(e)'
<1> USE DEF Fits
<1>1. e \in Nat /\ e <= LineEnd /\ typist.at \in Nat /\ KeysPending \in 0 .. KeyCapacity
  BY TypistFacts
<1>2. /\ typist.pc = "type" /\ ~byT
      /\ (typist' = Took(0, KeysPending) \/ typist' = [TypistFails EXCEPT !.lost = @ + 1])
      /\ UNCHANGED <<cells, put, get, frozen, byT, running, pressed, got, gone>>
  BY DEF Looks, AsksAgent, MachineKeys, Surroundings
<1> HIDE DEF LineEnd, KeyCapacity, KeysPending
<1>3. e = typist.at /\ ~running /\ frozen = FALSE
  BY <1>2 DEF TypistFits, LineFits, RunningFits, Transaction
<1>4. RingFits(e)'
  BY <1>2, KeysStay
<1>5. TypistFits(e)'
  <2>1. CASE typist' = Took(0, KeysPending)
    <3>1. 0 \in Nat /\ e = typist.at + 0 /\ frozen' = FALSE
      BY <1>1, <1>2, <1>3
    <3> QED BY <2>1, <3>1, <1>1, <1>2, <1>3, TookFits
  <2>2. CASE typist' = [TypistFails EXCEPT !.lost = @ + 1]
    <3>1. e <= e
      BY <1>1
    <3>2. frozen' \in BOOLEAN
      BY <1>2, <1>3
    <3> QED BY <2>2, <3>1, <3>2, <1>1, <1>2, <1>3, CallFails
  <2> QED BY <2>1, <2>2, <1>2
<1> QED BY <1>4, <1>5

LEMMA FreezingFits ==
  ASSUME KeyboardAssumption, NEW e \in 0 .. Len(Typing), Fits(e), Freezing
  PROVE  Fits(e)'
<1> USE DEF Fits
<1>1. e \in Nat /\ e <= LineEnd
  BY TypistFacts
<1>2. /\ typist.pc = "type" /\ ~byT /\ frozen' = TRUE
      /\ (typist' = TypistAt("pointers") \/ typist' = [TypistFails EXCEPT !.lost = @ + 1])
      /\ UNCHANGED <<cells, put, get, byT, running, pressed, got, gone>>
  BY DEF Freezing, AsksAgent, Surroundings
<1> HIDE DEF LineEnd
<1>3. e = typist.at /\ ~running /\ FieldsFit
  BY <1>2 DEF TypistFits, LineFits, RunningFits
<1>4. RingFits(e)'
  BY <1>2, KeysStay
<1>5. TypistFits(e)'
  <2>1. CASE typist' = TypistAt("pointers")
    <3>1. /\ typist' = [f \in TypistFields |-> typist'[f]] /\ typist'.pc = "pointers"
          /\ typist'.line = typist.line /\ typist'.at = typist.at /\ typist'.taken = typist.taken
          /\ typist'.credits = typist.credits /\ LineEnd' = LineEnd
      BY <1>3, <2>1, PcMoves
    <3>2. FieldsFit'
      <4> HIDE DEF TypistFields
      <4> QED BY <3>1, <1>3 DEF FieldsFit, KeyCapacity, Transaction
    <3>3. LineFits(e)'
      <4>1. Len(got') = Len(got) /\ byT' = byT
        BY <1>2
      <4> QED BY <3>1, <4>1, <1>1, <1>3 DEF LineFits, TypistFits
    <3>4. BatchFits(e)' /\ RunningFits'
      BY <3>1, <1>2, <1>3 DEF BatchFits, RunningFits, Transaction, TypistFits
    <3> QED BY <3>2, <3>3, <3>4 DEF TypistFits
  <2>2. CASE typist' = [TypistFails EXCEPT !.lost = @ + 1]
    <3>1. frozen' \in BOOLEAN
      BY <1>2
    <3> QED BY <2>2, <3>1, <1>1, <1>2, <1>3, CallFails
  <2> QED BY <2>1, <2>2, <1>2
<1> QED BY <1>4, <1>5

LEMMA ReadsPointersFits ==
  ASSUME KeyboardAssumption, NEW e \in 0 .. Len(Typing), Fits(e), ReadsPointers
  PROVE  Fits(e)'
<1> USE DEF Fits
<1> PICK n : n = Less(KeyBatch, KeyCapacity - KeysPending)
  OBVIOUS
<1> PICK k : k = KeysPending
  OBVIOUS
<1> DEFINE then == [typist EXCEPT !.pc = IF n = 0 THEN "resume" ELSE "first", !.taken = n,
                                  !.put = put, !.pending = k + n]
<1>1. /\ e \in Nat /\ e <= LineEnd /\ LineEnd \in Nat /\ typist.at \in Nat
      /\ KeyCapacity \in Nat /\ k \in 0 .. KeyCapacity
  BY TypistFacts
<1>2. n \in 0 .. KeyCapacity - k /\ n <= LineEnd - typist.at
  BY BatchFacts
<1>3. /\ typist.pc = "pointers"
      /\ (typist' = then \/ typist' = [TypistFails EXCEPT !.lost = @ + 1])
      /\ UNCHANGED <<cells, put, get, frozen, byT, running, pressed, got, gone>>
  BY DEF ReadsPointers, AsksAgent, MachineKeys, Surroundings
<1> HIDE DEF LineEnd, KeyCapacity
<1>4. e = typist.at /\ ~running /\ FieldsFit /\ frozen /\ ~byT /\ frozen \in BOOLEAN
  BY <1>3 DEF TypistFits, LineFits, RunningFits, BatchFits, Transaction
<1>5. RingFits(e)' /\ KeysPending' = KeysPending
  BY <1>3, KeysStay
<1> HIDE DEF KeysPending
<1>6. TypistFits(e)'
  <2>1. CASE typist' = then
    <3>1. /\ typist' = [f \in TypistFields |-> typist'[f]]
          /\ typist'.pc = (IF n = 0 THEN "resume" ELSE "first")
          /\ typist'.line = typist.line /\ typist'.at = typist.at /\ typist'.taken = n
          /\ typist'.put = put /\ typist'.pending = k + n
          /\ typist'.credits = typist.credits
      BY <1>4, <2>1 DEF FieldsFit, TypistFields
    <3>2. LineEnd' = LineEnd
      BY <3>1, LineEndIs
    <3>3. FieldsFit'
      <4> HIDE DEF TypistFields
      <4>1. typist'.pc \in Transaction
        BY <3>1 DEF Transaction
      <4> QED BY <3>1, <4>1, <1>2, <1>4 DEF FieldsFit, KeyCapacity
    <3>4. LineFits(e)'
      <4>1. Len(got') = Len(got) /\ byT' = byT
        BY <1>3
      <4>2. typist'.pc = "resume" => n = 0
        BY <3>1
      <4>3. typist'.pc \in {"resume", "first"}
        BY <3>1
      <4> QED BY <3>1, <3>2, <4>1, <4>3, <1>1, <1>4 DEF LineFits, TypistFits
    <3>5. BatchFits(e)'
      <4>1. typist'.pc = "resume" => n = 0
        BY <3>1
      <4>2. typist'.pc \in {"resume", "first"}
        BY <3>1
      <4>3. typist'.pc = "first" => n \in 1 .. KeyCapacity - k
        BY <3>1, <1>1, <1>2
      <4>4. put' = put /\ frozen' = frozen /\ byT' = byT /\ KeysPending' = k
        BY <1>3, <1>5
      <4>5. typist.at + n <= LineEnd /\ e = typist.at /\ e + 0 = e /\ k + n \in 0 .. KeyCapacity
        BY <1>1, <1>2, <1>4
      <4>6. KeyCapacity' = KeyCapacity
        BY DEF KeyCapacity
      <4> QED BY <3>1, <3>2, <4>1, <4>2, <4>3, <4>4, <4>5, <4>6, <1>4 DEF BatchFits
    <3>6. RunningFits'
      <4>1. typist'.pc \in Transaction
        BY <3>1 DEF Transaction
      <4> QED BY <4>1, <1>3, <1>4 DEF RunningFits, TypistFits
    <3> QED BY <3>3, <3>4, <3>5, <3>6 DEF TypistFits
  <2>2. CASE typist' = [TypistFails EXCEPT !.lost = @ + 1]
    <3>1. frozen' \in BOOLEAN
      BY <1>3, <1>4
    <3> QED BY <2>2, <3>1, <1>1, <1>3, <1>4, CallFails
  <2> QED BY <2>1, <2>2, <1>3
<1> QED BY <1>5, <1>6

\* The cells behind put, as many as are free, are not waited for.
LEMMA BehindPut ==
  ASSUME KeyboardAssumption, NEW e, RingFits(e),
         NEW n \in 0 .. KeyCapacity - KeysPending, NEW c \in CellsWaiting
  PROVE  c \in Ring /\ ~(Dist(put, c) < n)
<1> PICK g \in Ring, p \in Ring : g = get /\ p = put
  BY RingFacts
<1>1. /\ KeyCells \in Nat /\ KeyCells > 0 /\ Dist(g, p) = KeysPending /\ Dist(g, p) \in Nat
      /\ c \in Ring /\ Dist(g, c) < Dist(g, p) /\ n + Dist(g, p) < KeyCells /\ n \in Nat
  BY Wraps, RingFacts DEF KeyCapacity, Between
<1>2. Dist(p, c) \in 0 .. KeyCells - 1 /\ Dist(g, c) \in 0 .. KeyCells - 1
  BY <1>1, Cells
<1> SUFFICES ASSUME Dist(p, c) < n PROVE FALSE
  BY <1>1
<1> HIDE DEF Dist, KeysPending, CellsWaiting
<1>3. Dist(g, c) = Dist(g, p) + Dist(p, c)
  <2>1. Dist(g, p) + Dist(p, c) < KeyCells
    BY <1>1, <1>2
  <2> QED BY <2>1, <1>1, DistAdds
<1> QED BY <1>1, <1>2, <1>3

\* A poke fills cells behind put, of which it prepares a batch of n in all.
LEMMA PokeFits ==
  ASSUME KeyboardAssumption, NEW e \in 0 .. Len(Typing), Fits(e), NEW pc \in {"rest", "publish"},
         typist.pc \in {"first", "rest"}, cells' \in [Ring -> 0 .. Stale],
         \A c \in Ring : ~(Dist(put, c) < typist.taken) => cells'[c] = cells[c],
         typist' = TypistAt(pc) \/ typist' = [TypistFails EXCEPT !.lost = @ + 1],
         pc = "rest" => FirstPart < typist.taken /\ Prepared(FirstPart)',
         pc = "publish" => Prepared(typist.taken)',
         UNCHANGED <<put, get, frozen, byT, running, pressed, got, gone>>
  PROVE  Fits(e)'
<1> USE DEF Fits
<1>1. /\ e \in Nat /\ e <= LineEnd /\ LineEnd \in Nat /\ typist.at \in Nat
      /\ KeyCapacity \in Nat /\ KeysPending \in 0 .. KeyCapacity /\ typist.taken \in Nat
  BY TypistFacts
<1>2. /\ typist.taken \in 1 .. KeyCapacity - KeysPending /\ typist.at + typist.taken <= LineEnd
      /\ typist.put = put /\ typist.pending = KeysPending + typist.taken
      /\ frozen /\ ~byT /\ frozen \in BOOLEAN /\ ~running /\ e = typist.at /\ FieldsFit
  BY DEF TypistFits, LineFits, RunningFits, BatchFits, Transaction
<1> HIDE DEF LineEnd, KeyCapacity, Dist, FirstPart, Prepared
<1>4. RingFits(e)'
  <2>1. ASSUME NEW c \in CellsWaiting PROVE cells'[c] = cells[c]
    <3>1. typist.taken \in 0 .. KeyCapacity - KeysPending
      BY <1>1, <1>2
    <3>2. c \in Ring /\ ~(Dist(put, c) < typist.taken)
      BY <3>1, BehindPut
    <3> QED BY <3>2
  <2> QED BY <2>1, RingStays
<1>5. TypistFits(e)'
  <2>1. CASE typist' = TypistAt(pc)
    <3>1. /\ typist' = [f \in TypistFields |-> typist'[f]] /\ typist'.pc = pc
          /\ typist'.line = typist.line /\ typist'.at = typist.at /\ typist'.taken = typist.taken
          /\ typist'.put = typist.put /\ typist'.pending = typist.pending
          /\ typist'.credits = typist.credits /\ LineEnd' = LineEnd
      BY <1>2, <2>1, PcMoves
    <3>2. pc \in Transaction
      BY DEF Transaction
    <3>3. FieldsFit'
      <4> HIDE DEF TypistFields
      <4> QED BY <3>1, <3>2, <1>2 DEF FieldsFit, KeyCapacity
    <3>4. LineFits(e)'
      <4>1. Len(got') = Len(got) /\ byT' = byT
        OBVIOUS
      <4> QED BY <3>1, <3>2, <4>1, <1>1, <1>2 DEF LineFits, TypistFits
    <3>5. BatchFits(e)'
      <4>1. KeysPending' = KeysPending /\ KeyCapacity' = KeyCapacity /\ FirstPart' = FirstPart
        BY <3>1 DEF KeysPending, KeyCapacity, FirstPart
      <4>2. pc = "rest" => (FirstPart < typist.taken)' /\ Prepared(FirstPart)'
        BY <3>1, <4>1
      <4>3. pc = "publish" => Prepared(typist.taken)'
        BY <3>1, <4>1
      <4> HIDE DEF KeysPending
      <4> QED BY <3>1, <3>2, <4>1, <4>2, <4>3, <1>2 DEF BatchFits, Transaction
    <3>6. RunningFits'
      BY <3>1, <3>2, <1>2 DEF RunningFits, TypistFits
    <3> QED BY <3>3, <3>4, <3>5, <3>6 DEF TypistFits
  <2>2. CASE typist' = [TypistFails EXCEPT !.lost = @ + 1]
    <3>1. frozen' \in BOOLEAN
      BY <1>2
    <3>2. e <= e /\ e \in {typist.at, typist.at + typist.taken}
      BY <1>1, <1>2
    <3>3. UNCHANGED <<byT, running, got>>
      OBVIOUS
    <3> QED BY <2>2, <3>1, <3>2, <3>3, <1>1, CallFails
  <2> QED BY <2>1, <2>2
<1> QED BY <1>4, <1>5

LEMMA WithinText ==
  ASSUME KeyboardAssumption, NEW x \in Nat, NEW y \in Nat, x + y <= Len(Typing)
  PROVE  x + 1 \in Nat /\ (x + 1) + y <= Stale + 1
BY DEF KeyboardAssumption, Stale

\* What is poked are characters of the text.
LEMMA PokedCells ==
  ASSUME KeyboardAssumption, cells \in [Ring -> 0 .. Stale],
         NEW from \in Nat, NEW first \in Nat, NEW k \in Nat, first + k <= Stale + 1,
         cells' = Poked(from, first, k)
  PROVE  /\ cells' \in [Ring -> 0 .. Stale]
         /\ \A c \in Ring : cells'[c] = IF c \in from .. from + k - 1 THEN first + (c - from)
                                        ELSE cells[c]
<1>1. \A c \in Ring : cells'[c] = IF c \in from .. from + k - 1 THEN first + (c - from)
                                  ELSE cells[c]
  BY DEF Poked, Ring
<1>2. ASSUME NEW c \in Ring PROVE cells'[c] \in 0 .. Stale
  <2>1. CASE c \in from .. from + k - 1
    <3>1. Stale \in Nat
      BY DEF Stale, KeyboardAssumption
    <3> HIDE DEF Stale
    <3> QED BY <1>1, <2>1, <3>1
  <2>2. CASE c \notin from .. from + k - 1
    BY <1>1, <2>2
  <2> QED BY <2>1, <2>2
<1>3. cells' = [c \in Ring |-> cells'[c]]
  BY DEF Poked, Ring
<1>4. cells' \in [Ring -> 0 .. Stale]
  <2> HIDE DEF Stale
  <2> QED BY <1>2, <1>3
<1> QED BY <1>1, <1>4

LEMMA PokesFirstFits ==
  ASSUME KeyboardAssumption, NEW e \in 0 .. Len(Typing), Fits(e), PokesFirst
  PROVE  Fits(e)'
<1> USE DEF Fits
<1> PICK k : k = FirstPart
  OBVIOUS
<1> PICK t : t = typist.taken
  OBVIOUS
<1> PICK a : a = typist.at
  OBVIOUS
<1> PICK p \in Ring : p = put
  BY RingFacts
<1> PICK pc : pc = IF FirstPart < typist.taken THEN "rest" ELSE "publish"
  OBVIOUS
<1>1. /\ a \in Nat /\ t \in Nat /\ LineEnd \in Nat /\ LineEnd <= Len(Typing)
      /\ Len(Typing) \in Nat
  BY TypistFacts
<1>2. /\ typist.pc = "first" /\ cells' = Poked(p, a + 1, k)
      /\ (typist' = TypistAt(pc) \/ typist' = [TypistFails EXCEPT !.lost = @ + 1])
      /\ UNCHANGED <<put, get, frozen, byT, running, pressed, got, gone>>
      /\ t \in 1 .. KeyCapacity - KeysPending /\ a + t <= LineEnd /\ typist.put = p
  BY DEF PokesFirst, AsksAgent, Surroundings, TypistFits, BatchFits
<1>3. KeyCells \in Nat /\ KeyCells > 0 /\ p \in Nat /\ p < KeyCells
  BY Wraps DEF Ring
<1>4. k = Less(t, KeyCells - p) /\ k \in Nat /\ k <= t /\ p + k <= KeyCells /\ (k < t \/ k = t)
  BY <1>1, <1>2, <1>3 DEF FirstPart, Less
<1>5. \A c \in Ring : (c \in p .. p + k - 1) <=> Dist(p, c) < k
  BY <1>3, <1>4 DEF Dist, Ring
<1>6. \A c \in Ring : c \in p .. p + k - 1 => Dist(p, c) = c - p
  BY <1>3 DEF Dist, Ring
<1> HIDE DEF LineEnd, Dist
<1>7. /\ cells' \in [Ring -> 0 .. Stale]
      /\ \A c \in Ring : cells'[c] = IF c \in p .. p + k - 1 THEN (a + 1) + (c - p) ELSE cells[c]
  <2>1. a + 1 \in Nat /\ (a + 1) + k <= Stale + 1 /\ p \in Nat
    <3>1. a + t <= Len(Typing) /\ a + k <= a + t
      BY <1>1, <1>2, <1>4
    <3>2. a + k <= Len(Typing)
      BY <3>1, <1>1, <1>4
    <3> QED BY <3>2, <1>1, <1>3, <1>4, WithinText
  <2>2. cells \in [Ring -> 0 .. Stale]
    BY RingFacts
  <2> HIDE DEF Stale
  <2> QED BY <2>1, <2>2, <1>2, <1>4, PokedCells
<1>8. \A c \in Ring : Dist(p, c) < k => cells'[c] = a + 1 + Dist(p, c)
  <2> TAKE c \in Ring
  <2> HAVE Dist(p, c) < k
  <2>1. c \in p .. p + k - 1 /\ Dist(p, c) = c - p /\ c \in Nat
    BY <1>5, <1>6 DEF Ring
  <2> QED BY <2>1, <1>1, <1>3, <1>7
<1>9. \A c \in Ring : ~(Dist(put, c) < typist.taken) => cells'[c] = cells[c]
  <2> TAKE c \in Ring
  <2>1. Dist(p, c) \in 0 .. KeyCells - 1
    BY Cells
  <2>2. ~(Dist(p, c) < t) => c \notin p .. p + k - 1
    BY <2>1, <1>1, <1>4, <1>5
  <2> QED BY <2>2, <1>7
<1>10. \A n : n = k \/ (n = t /\ k = t) => Prepared(n)'
  <2>1. (\A c : Dist(put, c)' = Dist(p, c)) /\ typist'.at = a
    <3>1. FieldsFit
      BY DEF TypistFits
    <3>2. typist'.at = typist.at
      BY <3>1, <1>2, PcMoves, FailMoves
    <3> QED BY <3>2, <1>2 DEF Dist
  <2> QED BY <2>1, <1>8 DEF Prepared
<1>11. typist'.taken = t
  <2>1. FieldsFit
    BY DEF TypistFits
  <2> QED BY <2>1, <1>2, PcMoves, FailMoves
<1>12. (FirstPart = k)' 
  <2>1. FieldsFit /\ (typist'.put = typist.put)
    <3>1. FieldsFit
      BY DEF TypistFits
    <3> QED BY <3>1, <1>2 DEF FieldsFit, TypistFields, TypistAt, TypistFails
  <2> QED BY <2>1, <1>11 DEF FirstPart
<1>13. /\ pc \in {"rest", "publish"} /\ typist.pc \in {"first", "rest"}
       /\ pc = "rest" => FirstPart < typist.taken /\ Prepared(FirstPart)'
       /\ pc = "publish" => Prepared(typist.taken)'
  <2>1. Prepared(FirstPart)'
    <3> HIDE DEF FirstPart
    <3> QED BY <1>10, <1>12 DEF Prepared
  <2>2. pc = "publish" => Prepared(typist.taken)'
    BY <1>4, <1>10, <1>11
  <2> QED BY <2>1, <2>2, <1>2
<1> HIDE DEF Fits, FirstPart, Prepared
<1> QED BY <1>2, <1>7, <1>9, <1>13, PokeFits

LEMMA PokesRestFits ==
  ASSUME KeyboardAssumption, NEW e \in 0 .. Len(Typing), Fits(e), PokesRest
  PROVE  Fits(e)'
<1> USE DEF Fits
<1> PICK k : k = FirstPart
  OBVIOUS
<1> PICK t : t = typist.taken
  OBVIOUS
<1> PICK a : a = typist.at
  OBVIOUS
<1> PICK p \in Ring : p = put
  BY RingFacts
<1>1. /\ a \in Nat /\ t \in Nat /\ LineEnd \in Nat /\ LineEnd <= Len(Typing)
      /\ Len(Typing) \in Nat /\ KeysPending \in 0 .. KeyCapacity
  BY TypistFacts
<1>2. /\ typist.pc = "rest" /\ cells' = Poked(0, a + k + 1, t - k)
      /\ (typist' = TypistAt("publish") \/ typist' = [TypistFails EXCEPT !.lost = @ + 1])
      /\ UNCHANGED <<put, get, frozen, byT, running, pressed, got, gone>>
      /\ t \in 1 .. KeyCapacity - KeysPending /\ a + t <= LineEnd /\ typist.put = p
      /\ k < t /\ Prepared(k)
  BY DEF PokesRest, AsksAgent, Surroundings, TypistFits, BatchFits
<1>3. KeyCells \in Nat /\ KeyCells > 0 /\ p \in Nat /\ p < KeyCells /\ t < KeyCells
  <2>1. KeyCells \in Nat /\ KeyCells > 0 /\ p \in Nat /\ p < KeyCells
    BY Wraps DEF Ring
  <2> HIDE DEF KeysPending
  <2> QED BY <2>1, <1>1, <1>2 DEF KeyCapacity
<1>4. k = KeyCells - p /\ k \in Nat
  BY <1>1, <1>2, <1>3 DEF FirstPart, Less
<1> PICK r \in Nat : k + r = t /\ cells' = Poked(0, a + k + 1, r)
  <2>1. t - k \in Nat /\ k + (t - k) = t
    BY <1>1, <1>2, <1>4
  <2> QED BY <2>1, <1>2
<1>5. \A c \in Ring : c \in 0 .. r - 1 => Dist(p, c) < t /\ Dist(p, c) = c + k /\ c \in Nat
  BY <1>3, <1>4 DEF Dist, Ring
<1>6. \A c \in Ring : Dist(p, c) < t /\ c \notin 0 .. r - 1 => Dist(p, c) < k
  BY <1>3, <1>4 DEF Dist, Ring
<1> HIDE DEF LineEnd, Dist, KeysPending, KeyCapacity
<1>7. /\ cells' \in [Ring -> 0 .. Stale]
      /\ \A c \in Ring : cells'[c] = IF c \in 0 .. r - 1 THEN a + 1 + (c + k) ELSE cells[c]
  <2>1. a \in Nat /\ k \in Nat /\ t \in Nat /\ k + r = t
    BY <1>1, <1>4
  <2>2. a + k + 1 \in Nat /\ (a + k + 1) + r <= Stale + 1
    <3>1. a + t <= Len(Typing)
      BY <1>1, <1>2
    <3>2. a + k \in Nat /\ (a + k) + r <= Len(Typing)
      BY <3>1, <2>1
    <3> QED BY <3>2, <2>1, WithinText
  <2>3. cells \in [Ring -> 0 .. Stale]
    BY RingFacts
  <2>4. /\ cells' \in [Ring -> 0 .. Stale]
        /\ \A c \in Ring : cells'[c] = IF c \in 0 .. 0 + r - 1 THEN (a + k + 1) + (c - 0)
                                       ELSE cells[c]
    <3> HIDE DEF Stale
    <3> QED BY <2>2, <2>3, PokedCells
  <2>5. \A c \in 0 .. r - 1 : (a + k + 1) + (c - 0) = a + 1 + (c + k)
    BY <2>1
  <2>6. 0 .. 0 + r - 1 = 0 .. r - 1
    BY <2>1
  <2> QED BY <2>4, <2>5, <2>6
<1>8. \A c \in Ring : Dist(p, c) < t => cells'[c] = a + 1 + Dist(p, c)
  <2> TAKE c \in Ring
  <2> HAVE Dist(p, c) < t
  <2>1. CASE c \in 0 .. r - 1
    BY <2>1, <1>5, <1>7
  <2>2. CASE c \notin 0 .. r - 1
    <3>1. Dist(p, c) < k
      BY <2>2, <1>6
    <3>2. cells[c] = a + 1 + Dist(p, c)
      BY <3>1, <1>2 DEF Prepared
    <3> QED BY <2>2, <3>2, <1>4, <1>7
  <2> QED BY <2>1, <2>2
<1>9. \A c \in Ring : ~(Dist(put, c) < typist.taken) => cells'[c] = cells[c]
  BY <1>2, <1>5, <1>7
<1>10. Prepared(typist.taken)'
  <2>1. (\A c : Dist(put, c)' = Dist(p, c)) /\ typist'.at = a /\ typist'.taken = t
    <3>1. FieldsFit
      BY DEF TypistFits
    <3>2. typist'.at = typist.at /\ typist'.taken = typist.taken
      BY <3>1, <1>2, PcMoves, FailMoves
    <3> QED BY <3>2, <1>2 DEF Dist
  <2> QED BY <2>1, <1>8 DEF Prepared
<1> PICK pc : pc = "publish"
  OBVIOUS
<1>11. /\ pc \in {"rest", "publish"} /\ typist.pc \in {"first", "rest"}
       /\ pc = "rest" => FirstPart < typist.taken /\ Prepared(FirstPart)'
       /\ pc = "publish" => Prepared(typist.taken)'
       /\ typist' = TypistAt(pc) \/ typist' = [TypistFails EXCEPT !.lost = @ + 1]
  BY <1>2, <1>10
<1> HIDE DEF Fits, FirstPart, Prepared
<1> QED BY <1>2, <1>7, <1>9, <1>11, PokeFits

LEMMA PublishesKeysFits ==
  ASSUME KeyboardAssumption, NEW e \in 0 .. Len(Typing), Fits(e), PublishesKeys
  PROVE  \E f \in 0 .. Len(Typing) : Fits(f)'
<1> USE DEF Fits
<1> PICK n : n = typist.taken
  OBVIOUS
<1> PICK f : f = e + n
  OBVIOUS
<1>1. /\ e \in Nat /\ n \in Nat /\ LineEnd \in Nat /\ LineEnd <= Len(Typing)
      /\ Len(Typing) \in Nat /\ KeyCapacity \in Nat /\ KeysPending \in 0 .. KeyCapacity
      /\ typist.at \in Nat /\ typist.line \in Nat /\ typist.line <= Len(got)
      /\ typist.line <= typist.at /\ Len(got) \in Nat
  BY TypistFacts
<1>2. /\ typist.pc = "publish" /\ put' = CellAfter(put, n)
      /\ (typist' = TypistAt("resume") \/ typist' = [TypistFails EXCEPT !.lost = @ + 1])
      /\ UNCHANGED <<cells, get, frozen, byT, running, pressed, got, gone>>
      /\ n \in 1 .. KeyCapacity - KeysPending /\ e + n <= LineEnd
      /\ typist.pending = KeysPending + n /\ e = typist.at /\ Prepared(n)
      /\ frozen /\ frozen \in BOOLEAN /\ ~byT /\ ~running /\ FieldsFit
  BY DEF PublishesKeys, AsksAgent, Surroundings, TypistFits, BatchFits, LineFits, RunningFits, Transaction
<1> HIDE DEF LineEnd, KeyCapacity, KeysPending, Dist
<1>3. f \in 0 .. Len(Typing) /\ f <= LineEnd /\ e <= f /\ f = typist.at + typist.taken
  BY <1>1, <1>2
<1>4. RingFits(f)'
  <2>1. \A c \in Ring : cells'[c] = IF Dist(put, c) < n THEN e + 1 + Dist(put, c) ELSE cells[c]
    BY <1>2 DEF Prepared
  <2>2. n \in 0 .. KeyCapacity - KeysPending
    BY <1>1, <1>2
  <2>3. cells' \in [Ring -> 0 .. Stale]
    BY <1>2, RingFacts
  <2>4. RingFits(e + n)'
    BY <2>1, <2>2, <2>3, <1>1, <1>2, RingGrows
  <2> QED BY <2>4
<1>5. TypistFits(f)'
  <2>1. CASE typist' = TypistAt("resume")
    <3>1. /\ typist' = [g \in TypistFields |-> typist'[g]] /\ typist'.pc = "resume"
          /\ typist'.line = typist.line /\ typist'.at = typist.at /\ typist'.taken = n
          /\ typist'.pending = KeysPending + n
          /\ typist'.credits = typist.credits /\ LineEnd' = LineEnd
      BY <1>2, <2>1, PcMoves
    <3>2. FieldsFit'
      <4> HIDE DEF TypistFields
      <4> QED BY <3>1, <1>1, <1>2 DEF FieldsFit, KeyCapacity, Transaction
    <3>3. LineFits(f)'
      <4>1. Len(got') = Len(got) /\ byT' = byT
        BY <1>2
      <4> QED BY <3>1, <4>1, <1>1, <1>2, <1>3 DEF LineFits
    <3>4. BatchFits(f)'
      <4>1. typist'.pending \in 0 .. KeyCapacity /\ KeyCapacity' = KeyCapacity
        BY <3>1, <1>1, <1>2 DEF KeyCapacity
      <4>2. f = typist'.at + typist'.taken
        BY <3>1, <1>3
      <4> QED BY <3>1, <4>1, <4>2, <1>2 DEF BatchFits, Transaction
    <3>5. RunningFits'
      BY <3>1, <1>2 DEF RunningFits, TypistFits, Transaction
    <3> QED BY <3>2, <3>3, <3>4, <3>5 DEF TypistFits
  <2>2. CASE typist' = [TypistFails EXCEPT !.lost = @ + 1]
    <3>1. f \in {typist.at, typist.at + typist.taken}
      BY <1>3
    <3> QED BY <2>2, <3>1, <1>2, <1>3, CallFails
  <2> QED BY <2>1, <2>2, <1>2
<1> QED BY <1>3, <1>4, <1>5

LEMMA ResumingFits ==
  ASSUME KeyboardAssumption, NEW e \in 0 .. Len(Typing), Fits(e), Resuming
  PROVE  Fits(e)'
<1> USE DEF Fits
<1>1. /\ e \in Nat /\ e <= LineEnd /\ LineEnd \in Nat /\ typist.taken \in Nat
  BY TypistFacts
<1>2. /\ typist.pc = "resume" /\ frozen' = FALSE
      /\ (typist' = Took(typist.taken, typist.pending)
          \/ typist' = [TypistFails EXCEPT !.lost = @ + 1])
      /\ UNCHANGED <<cells, put, get, byT, running, pressed, got, gone>>
      /\ typist.pending \in 0 .. KeyCapacity /\ e = typist.at + typist.taken
      /\ ~byT /\ ~running
  BY DEF Resuming, AsksAgent, Surroundings, TypistFits, BatchFits, RunningFits, Transaction
<1> HIDE DEF LineEnd, KeyCapacity
<1>3. RingFits(e)'
  BY <1>2, KeysStay
<1>4. TypistFits(e)'
  <2>1. CASE typist' = Took(typist.taken, typist.pending)
    BY <2>1, <1>1, <1>2, TookFits
  <2>2. CASE typist' = [TypistFails EXCEPT !.lost = @ + 1]
    <3>1. frozen' \in BOOLEAN
      BY <1>2
    <3>2. e <= e /\ e \in {typist.at, typist.at + typist.taken}
      BY <1>1, <1>2
    <3> QED BY <2>2, <3>1, <3>2, <1>1, <1>2, CallFails
  <2> QED BY <2>1, <2>2, <1>2
<1> QED BY <1>3, <1>4

\* A ring without keys has been read.
LEMMA EmptyIsRead ==
  ASSUME KeyboardAssumption, NEW e \in 0 .. Len(Typing), Fits(e), KeysPending = 0
  PROVE  Len(got) = e
<1>1. e \in Nat /\ Len(got) \in Nat /\ Len(got) <= e
  BY TypistFacts DEF Fits
<1>2. CellsWaiting = Between(get, put) /\ Dist(get, put) = 0 /\ get \in Ring
  BY RingFacts DEF Fits
<1>3. CellsWaiting = {}
  <2>1. \A c \in Ring : Dist(get, c) \in 0 .. KeyCells - 1
    BY <1>2, Cells
  <2> HIDE DEF Dist, CellsWaiting
  <2> QED BY <2>1, <1>2 DEF Between
<1>4. Typed = {}
  <2> HIDE DEF CellsWaiting
  <2> QED BY <1>3 DEF Typed
<1> SUFFICES ASSUME Len(got) < e PROVE FALSE
  BY <1>1
<1>5. Len(got) + 1 \in Len(got) + 1 .. e
  BY <1>1
<1> HIDE DEF Typed
<1> QED BY <1>4, <1>5 DEF Fits, RingFits, TypedFit

LEMMA DrainsFits ==
  ASSUME KeyboardAssumption, NEW e \in 0 .. Len(Typing), Fits(e), Drains
  PROVE  Fits(e)'
<1>1. Len(got) = e
  BY EmptyIsRead DEF Drains
<1> USE DEF Fits
<1>2. e \in Nat /\ e <= LineEnd
  BY TypistFacts
<1>3. /\ typist.pc = "drain" /\ frozen = FALSE
      /\ (typist' = TypistAt("settle") \/ typist' = [TypistFails EXCEPT !.lost = @ + 1])
      /\ UNCHANGED <<cells, put, get, frozen, byT, running, pressed, got, gone>>
  BY DEF Drains, AsksAgent, MachineKeys, Surroundings, TypistFits, RunningFits, Transaction
<1> HIDE DEF LineEnd
<1>4. RingFits(e)'
  BY <1>3, KeysStay
<1>5. TypistFits(e)'
  <2>1. CASE typist' = TypistAt("settle")
    <3>1. FieldsFit
      BY DEF TypistFits
    <3>2. /\ typist' = [f \in TypistFields |-> typist'[f]] /\ typist'.pc = "settle"
          /\ typist'.line = typist.line /\ typist'.at = typist.at /\ typist'.taken = typist.taken
          /\ typist'.credits = typist.credits /\ LineEnd' = LineEnd
      BY <3>1, <2>1, PcMoves
    <3>3. FieldsFit'
      <4> HIDE DEF TypistFields
      <4> QED BY <3>1, <3>2 DEF FieldsFit, KeyCapacity
    <3>4. LineFits(e)'
      <4>1. Len(got') = e /\ byT' = byT
        BY <1>1, <1>3
      <4> QED BY <3>2, <4>1, <1>1, <1>2, <1>3 DEF LineFits, TypistFits
    <3>5. BatchFits(e)' /\ RunningFits'
      <4>1. Len(got') = Len(got)
        BY <1>3
      <4> QED BY <3>2, <4>1, <1>3 DEF BatchFits, RunningFits, Transaction, TypistFits
    <3> QED BY <3>3, <3>4, <3>5 DEF TypistFits
  <2>2. CASE typist' = [TypistFails EXCEPT !.lost = @ + 1]
    <3>1. frozen' \in BOOLEAN
      BY <1>3
    <3>2. e <= e /\ (~byT => e \in {typist.at, typist.at + typist.taken})
      BY <1>2 DEF TypistFits, LineFits
    <3> QED BY <2>2, <3>1, <3>2, <1>2, <1>3, CallFails
  <2> QED BY <2>1, <2>2, <1>3
<1> QED BY <1>4, <1>5

LEMMA NextLineFits ==
  ASSUME KeyboardAssumption, NEW e \in 0 .. Len(Typing), Fits(e), NextLine
  PROVE  Fits(e)'
<1> USE DEF Fits
<1>1. /\ e \in Nat /\ LineEnd \in Nat /\ Len(Typing) \in Nat /\ KeyCapacity \in Nat
      /\ typist.at \in Nat /\ typist.line \in Nat
  BY TypistFacts
<1>2. /\ typist.pc = "settle" /\ ~running /\ frozen = FALSE /\ FieldsFit
      /\ typist' = (IF typist.at = Len(Typing) THEN TypistAt("ok")
                    ELSE [typist EXCEPT !.pc = "type", !.line = typist.at, !.credits = KeyCapacity])
      /\ UNCHANGED <<cells, put, get, frozen, byT, running, pressed, got, gone>>
  BY DEF NextLine, MachineKeys, Surroundings, TypistFits, RunningFits, Transaction
<1> HIDE DEF LineEnd, KeyCapacity
<1>3. e = typist.at /\ Len(got) = e /\ typist.at = LineEnd
  BY <1>2 DEF TypistFits, LineFits
<1>4. RingFits(e)'
  BY <1>2, KeysStay
<1>5. RunningFits' /\ BatchFits(e)' /\ typist' = [f \in TypistFields |-> typist'[f]]
      /\ typist'.pc \in {"type", "ok"} /\ typist'.at = e /\ typist'.taken = typist.taken
      /\ typist'.credits \in {typist.credits, KeyCapacity} /\ typist'.line \in {typist.line, e}
      /\ (typist'.pc = "ok" => typist'.at = Len(Typing) /\ typist'.line = typist.line)
      /\ (typist'.pc = "type" => typist'.at # Len(Typing) /\ typist'.line = e)
  <2>1. /\ typist' = [f \in TypistFields |-> typist'[f]]
        /\ typist'.pc \in {"type", "ok"} /\ typist'.at = e /\ typist'.taken = typist.taken
        /\ typist'.credits \in {typist.credits, KeyCapacity} /\ typist'.line \in {typist.line, e}
        /\ (typist'.pc = "ok" => typist'.at = Len(Typing) /\ typist'.line = typist.line)
        /\ (typist'.pc = "type" => typist'.at # Len(Typing) /\ typist'.line = e)
    BY <1>2, <1>3 DEF FieldsFit, TypistFields, TypistAt
  <2>2. RunningFits' /\ BatchFits(e)'
    BY <2>1, <1>2 DEF RunningFits, BatchFits, TypistFits, Transaction
  <2> QED BY <2>1, <2>2
<1>6. FieldsFit'
  <2> HIDE DEF TypistFields
  <2>1. KeyCapacity \in 0 .. KeyCapacity
    BY <1>1
  <2> QED BY <1>1, <1>2, <1>5, <2>1 DEF FieldsFit, KeyCapacity
<1>7. LineFits(e)'
  <2>1. Len(got') = e /\ byT' = byT /\ (~byT => e \in {typist'.at, typist'.at + typist'.taken})
    BY <1>1, <1>2, <1>3, <1>5
  <2>2. CASE typist'.pc = "ok"
    <3>1. LineEnd' = LineEnd /\ typist'.line <= e
      BY <2>2, <1>3, <1>5, LineEndIs DEF TypistFits, LineFits
    <3> QED BY <2>1, <2>2, <3>1, <1>1, <1>3, <1>5 DEF LineFits
  <2>3. CASE typist'.pc = "type"
    <3>1. LineEnd' > e /\ LineEnd' \in Nat
      <4>1. e <= Len(Typing) /\ e # Len(Typing)
        BY <2>3, <1>1, <1>5
      <4> HIDE DEF EndOf
      <4>2. EndOf(e) > e /\ EndOf(e) \in Nat
        BY <4>1, <1>1, LineEnds
      <4> QED BY <4>2, <2>3, <1>5, LineEndIs
    <3> QED BY <2>1, <2>3, <3>1, <1>1, <1>3, <1>5 DEF LineFits
  <2> QED BY <2>2, <2>3, <1>5
<1> QED BY <1>4, <1>5, <1>6, <1>7 DEF TypistFits

----------------------------------------------------------------------------
\* The theorem.

LEMMA KeyboardStarts == ASSUME KeyboardAssumption, KeyboardInit PROVE KeyboardInv
<1> USE DEF KeyboardInit
<1>1. /\ Len(Typing) \in Nat /\ put \in Ring /\ get \in Ring /\ KeyCapacity \in Nat
      /\ 0 \in 0 .. Len(Typing)
  BY DEF KeyboardAssumption, Ring, KeyCapacity
<1>2. CellsWaiting = {}
  <2>1. CellsWaiting = Between(get, get) /\ Dist(get, get) = 0
    BY <1>1, Waiting, DistSelf
  <2>2. \A c \in Ring : Dist(get, c) \in 0 .. KeyCells - 1
    BY <1>1, Cells
  <2> HIDE DEF Dist, CellsWaiting
  <2> QED BY <2>1, <2>2 DEF Between
<1>3. RingFits(0)
  <2>1. GotFits
    BY DEF GotFits
  <2>2. CellsFit
    <3>1. Stale \in 0 .. Stale
      BY <1>1 DEF Stale
    <3> HIDE DEF Stale
    <3> QED BY <3>1, <1>1 DEF CellsFit, Ring
  <2> HIDE DEF CellsWaiting
  <2>3. TypedFit(0)
    <3>1. Typed = {} /\ Len(got) = 0 /\ 1 .. 0 = {}
      BY <1>2 DEF Typed
    <3> HIDE DEF Typed
    <3> QED BY <3>1 DEF TypedFit
  <2>4. HandsFit
    <3>1. {c \in CellsWaiting : cells[c] = ByHand} = {}
      BY <1>2
    <3>2. Cardinality({c \in CellsWaiting : cells[c] = ByHand}) = 0
      BY <3>1, FS_EmptySet
    <3> QED BY <3>2 DEF HandsFit
  <2> QED BY <2>1, <2>2, <2>3, <2>4 DEF RingFits
<1>4. TypistFits(0)
  <2>1. /\ LineEnd \in Nat /\ (Len(Typing) > 0 => 0 < LineEnd)
    <3>1. EndOf(0) \in Nat /\ (Len(Typing) > 0 => EndOf(0) > 0)
      BY <1>1, LineEnds
    <3> HIDE DEF EndOf
    <3> QED BY <3>1, LineEndIs
  <2> HIDE DEF LineEnd
  <2>2. FieldsFit
    BY <1>1 DEF FieldsFit, TypistFields
  <2>3. LineFits(0)
    BY <1>1, <2>1 DEF LineFits
  <2>4. BatchFits(0) /\ RunningFits
    BY DEF BatchFits, RunningFits, Transaction
  <2> QED BY <2>2, <2>3, <2>4 DEF TypistFits
<1> QED BY <1>1, <1>3, <1>4 DEF KeyboardInv

LEMMA KeyboardSteps ==
  ASSUME KeyboardAssumption, KeyboardInv, [KeyboardNext]_keyboardVars PROVE KeyboardInv'
<1> PICK e \in 0 .. Len(Typing) : Fits(e)
  BY DEF KeyboardInv, Fits
<1>1. ASSUME \E f \in 0 .. Len(Typing) : Fits(f)' PROVE KeyboardInv'
  BY <1>1 DEF KeyboardInv, Fits
<1> SUFFICES \E f \in 0 .. Len(Typing) : Fits(f)'
  BY <1>1
<1>2. CASE Reading
  BY <1>2, ReadingFits
<1>3. CASE Running
  BY <1>3, RunningStays
<1>4. CASE Pressing
  BY <1>4, PressingFits
<1>5. CASE LetsGo
  BY <1>5, LetsGoFits
<1>6. CASE WritesAtOnce
  BY <1>6, WritesAtOnceFits
<1>7. CASE Looks
  BY <1>7, LooksFits
<1>8. CASE Freezing
  BY <1>8, FreezingFits
<1>9. CASE ReadsPointers
  BY <1>9, ReadsPointersFits
<1>10. CASE PokesFirst
  BY <1>10, PokesFirstFits
<1>11. CASE PokesRest
  BY <1>11, PokesRestFits
<1>12. CASE PublishesKeys
  BY <1>12, PublishesKeysFits
<1>13. CASE Resuming
  BY <1>13, ResumingFits
<1>14. CASE Drains
  BY <1>14, DrainsFits
<1>15. CASE NextLine
  BY <1>15, NextLineFits
<1>16. CASE NotRead \/ RequestIsLost
  BY <1>16, FailFits
<1>17. CASE UNCHANGED keyboardVars
  <2>1. UNCHANGED <<cells, put, get, frozen, byT, typist, running, pressed, got, gone>>
    BY <1>17 DEF keyboardVars
  <2>2. RingFits(e)'
    BY <2>1, KeysStay DEF Fits
  <2>3. TypistFits(e)'
    <3>1. LineEnd' = LineEnd /\ KeysPending' = KeysPending /\ FirstPart' = FirstPart
      BY <2>1 DEF LineEnd, KeysPending, FirstPart
    <3>2. /\ (typist.pc = "rest" => Prepared(FirstPart)') /\ (typist.pc = "publish" => Prepared(typist.taken)')
      <4>1. \A c : Dist(put, c)' = Dist(put, c)
        BY <2>1 DEF Dist
      <4> HIDE DEF Dist, FirstPart
      <4> QED BY <2>1, <3>1, <4>1 DEF Fits, TypistFits, BatchFits, Prepared
    <3> HIDE DEF LineEnd, KeysPending, FirstPart, Prepared
    <3>3. FieldsFit' /\ LineFits(e)' /\ RunningFits'
      <4> HIDE DEF TypistFields
      <4> QED BY <2>1, <3>1 DEF Fits, TypistFits, FieldsFit, LineFits, RunningFits, KeyCapacity
    <3>4. BatchFits(e)'
      BY <2>1, <3>1, <3>2 DEF Fits, TypistFits, BatchFits, KeyCapacity
    <3> QED BY <3>3, <3>4 DEF TypistFits
  <2> QED BY <2>2, <2>3 DEF Fits
<1> HIDE DEF Fits
<1> QED
  BY <1>2, <1>3, <1>4, <1>5, <1>6, <1>7, <1>8, <1>9, <1>10, <1>11, <1>12, <1>13, <1>14, <1>15,
     <1>16, <1>17 DEF KeyboardNext

\* There are as many cells with characters of the text as are typed and not read.
LEMMA TypedCount ==
  ASSUME KeyboardAssumption, NEW e \in Nat, RingFits(e)
  PROVE  Len(got) + Cardinality(Typed) = e
<1> DEFINE values == Len(got) + 1 .. e
           f == [c \in Typed |-> cells[c]]
<1>1. /\ Len(got) \in Nat /\ Len(got) <= e /\ TypedFit(e) /\ get \in Ring
      /\ IsFiniteSet(Typed) /\ Typed \subseteq Ring
  <2>1. IsFiniteSet(Typed)
    BY RingFacts, FS_Subset
  <2> QED BY <2>1, RingFacts DEF RingFits, TypedFit
<1> HIDE DEF Typed, Dist
<1>2. f \in [Typed -> values] /\ \A v \in values : \E c \in Typed : f[c] = v
  BY <1>1 DEF TypedFit
<1>3. ASSUME NEW c \in Typed, NEW d \in Typed, f[c] = f[d] PROVE c = d
  <2>1. ~(Dist(get, c) < Dist(get, d)) /\ ~(Dist(get, d) < Dist(get, c))
    <3>1. cells[c] = cells[d] /\ cells[c] \in Nat /\ cells[d] \in Nat
      BY <1>1, <1>3 DEF TypedFit
    <3> QED BY <3>1, <1>1 DEF TypedFit
  <2>2. Dist(get, c) \in 0 .. KeyCells - 1 /\ Dist(get, d) \in 0 .. KeyCells - 1
    BY <1>1, Cells
  <2>3. Dist(get, c) = Dist(get, d)
    BY <2>1, <2>2, Wraps
  <2> QED BY <2>3, <1>1, DistSame
<1>4. f \in Bijection(Typed, values)
  <2>1. DOMAIN f = Typed
    OBVIOUS
  <2> HIDE DEF f, values
  <2> QED BY <2>1, <1>2, <1>3 DEF Bijection, Injection, Surjection, IsInjective
<1>5. Cardinality(Typed) = Cardinality(values)
  <2> HIDE DEF f, values
  <2> QED BY <1>1, <1>4, FS_Bijection DEF ExistsBijection
<1>6. Cardinality(values) = e - Len(got)
  <2> PICK lo \in Int : lo = Len(got) + 1
    BY <1>1
  <2>1. Cardinality(lo .. e) = IF lo > e THEN 0 ELSE e - lo + 1
    BY FS_Interval
  <2> QED BY <2>1, <1>1
<1> HIDE DEF values
<1> QED BY <1>1, <1>5, <1>6

LEMMA KeyboardIsWhole == ASSUME KeyboardAssumption, KeyboardInv PROVE TypingIsWhole
<1> PICK e \in 0 .. Len(Typing) : RingFits(e) /\ TypistFits(e)
  BY DEF KeyboardInv
<1>1. e \in Nat /\ Len(got) \in Nat /\ Len(got) <= e /\ Len(Typing) \in Nat
  BY TypistFacts
<1>2. \A i \in DOMAIN got : got[i] = i
  BY DEF RingFits, GotFits
<1>3. typist.pc = "ok" => Len(got) = Len(Typing)
  <2> HIDE DEF LineEnd
  <2> QED BY <1>1 DEF TypistFits, LineFits
<1>4. \A c \in Typed : cells[c] # Stale
  <2>1. \A c \in Typed : cells[c] \in Len(got) + 1 .. e
    BY DEF RingFits, TypedFit
  <2> HIDE DEF Typed
  <2> QED BY <2>1, <1>1 DEF Stale
<1>5. ~byT => Len(got) + Cardinality(Typed) \in {typist.at, typist.at + typist.taken}
  <2>1. Len(got) + Cardinality(Typed) = e
    BY <1>1, TypedCount
  <2> HIDE DEF Typed
  <2> QED BY <2>1 DEF TypistFits, LineFits
<1>6. pressed = gone + Cardinality(CellsWaiting \ Typed)
  <2>1. CellsWaiting \ Typed = {c \in CellsWaiting : cells[c] = ByHand}
    <3> HIDE DEF CellsWaiting
    <3> QED BY DEF Typed
  <2> QED BY <2>1 DEF RingFits, HandsFit
<1> HIDE DEF CellsWaiting
<1> QED BY <1>2, <1>3, <1>4, <1>5, <1>6 DEF TypingIsWhole, Typed

\* What the call promises of the keys, for every text and every ring: the program reads the text
\* in order and each character once, all of it when the call succeeds; a batch with a lost request
\* stands in the ring whole or not at all; and no key pressed by hand is lost to the host's writes.
THEOREM TypesWhole == KeyboardSpec => []TypingIsWhole
<1>1. KeyboardInit => KeyboardInv
  BY KeyboardAssumption, KeyboardStarts
<1>2. KeyboardInv /\ [KeyboardNext]_keyboardVars => KeyboardInv'
  BY KeyboardAssumption, KeyboardSteps
<1>3. KeyboardInv => TypingIsWhole
  BY KeyboardAssumption, KeyboardIsWhole
<1> QED BY <1>1, <1>2, <1>3, PTL DEF KeyboardSpec
================================================================================
