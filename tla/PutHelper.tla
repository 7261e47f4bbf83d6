------------------------------- MODULE PutHelper -------------------------------
(***************************************************************************)
(* The helper of a PUT: it prepares the partial file and its sidecar,      *)
(* writes what the resident accepts in durable windows, and publishes the  *)
(* result under the target's name in phases that survive a power loss.     *)
(***************************************************************************)
EXTENDS XferHelper

HighWater == Window - 1  \* capacity less one payload

\* The four ways a PUT may begin: over a partial file whose prefix is the
\* journalled one, past a publication that already started, after one whose
\* receipt is gone, or anew.
MayReread ==
  /\ hlp.resume /\ Meta \in {"RECEIVING", "DECODING"}
  /\ ~file.packed => Meta # "DECODING"
  /\ Part # None
  /\ hlp.from <= Len(Part.data) /\ Len(Part.data) <= Size
  /\ SubSeq(Part.data, 1, hlp.from) = Prefix(hlp.from)
MaySkipWire == hlp.resume /\ Meta \in {"PUBLISHING", "PUBLISHED"}
\* Mutant: any resumed transfer of the whole boundary is replayed.
MayReplayFreely ==
  /\ hlp.resume /\ Meta = None
  /\ hlp.from = Size
  /\ Complete(disk.target)
MayReplay ==
  /\ hlp.resume /\ Meta = None
  /\ hlp.replay /\ hlp.from = Size
  /\ Complete(disk.target)
MayCreate ==
  /\ Meta = None /\ hlp.from = 0
  /\ hlp.resume /\ hlp.replay => Size = 0 /\ disk.target = None

Prepare ==
  /\ hlp.pc = "prepare"
  /\ \/ /\ MayReread
        /\ hlp' = [hlp EXCEPT !.pc = "ready", !.crc = Part.data,
                              !.phase = Meta]
     \/ /\ MaySkipWire
        /\ hlp' = [hlp EXCEPT !.pc = "ready", !.crc = Whole, !.phase = Meta]
     \/ /\ MayReplay
        /\ hlp' = [hlp EXCEPT !.pc = "ready", !.crc = Whole,
                              !.phase = "PUBLISHED"]
     \/ MayCreate /\ ~MayReplay /\ Goto("mkmeta")
     \/ ~(MayReread \/ MaySkipWire \/ MayReplay \/ MayCreate) /\ Fails
  /\ KeepsDisk

CreateMeta ==
  /\ hlp.pc = "mkmeta"
  /\ disk' = [disk EXCEPT !.meta[hlp.id] = "RECEIVING"]
  /\ Goto("mkpart")
  /\ KeepsResident

CreatePart ==
  /\ hlp.pc = "mkpart"
  /\ IF Part = None
       THEN /\ disk' = [disk EXCEPT !.part[hlp.id] = File(<<>>, 0)]
            /\ Goto("ready")
       ELSE disk' = [disk EXCEPT !.meta[hlp.id] = None] /\ Fails
  /\ KeepsResident

Ready ==
  /\ hlp.pc = "ready"
  /\ IF ReadyOk(hlp.id) THEN CallsTsr(Readied(hlp.crc)) /\ Goto("pump")
                        ELSE Fails /\ KeepsDisk

----------------------------------------------------------------------------
\* Receiving.

\* Mutant: only a window with no byte left is flushed.
IsOverfull(acc) ==
  Len(acc) > Window \/ Len(hlp.crc) + Len(acc) = Size

\* A window is flushed at the high-water mark and at the end of the file.
IsFull(acc) ==
  Len(acc) >= HighWater \/ Len(hlp.crc) + Len(acc) = Size

Poll ==
  /\ hlp.pc = "poll" /\ ~file.get
  /\ LET acc == hlp.acc \o x.pending IN
     \/ x.state \in {"FAILED", "CANCELLED"} /\ Fails
     \/ /\ x.state \notin {"FAILED", "CANCELLED"}
        /\ \/ x.close /\ Goto("final")
           \/ /\ ~x.close /\ x.pending # <<>>
              /\ IF Len(acc) > Window THEN Fails
                 ELSE hlp' = [hlp EXCEPT !.acc = acc,
                       !.pc = IF IsFull(acc) THEN "write" ELSE "release"]
           \/ ~x.close /\ x.pending = <<>> /\ Goto("pump")
  /\ KeepsDisk

Release ==
  /\ hlp.pc = "release"
  /\ IF ReleaseOk THEN CallsTsr(Released) /\ Goto("pump")
                  ELSE Fails /\ KeepsDisk

WriteWindow ==
  /\ hlp.pc = "write"
  /\ hlp' = [hlp EXCEPT !.pc = "ensure", !.crc = @ \o hlp.acc]
  /\ disk' = [disk EXCEPT !.part[hlp.id] =
                File(SubSeq(Part.data, 1, Len(hlp.crc)) \o hlp.acc, Part.safe)]
  /\ KeepsResident

EnsureWindow ==
  /\ hlp.pc = "ensure"
  /\ disk' = [disk EXCEPT !.part[hlp.id].safe = Len(Part.data)]
  /\ Goto("commit")
  /\ KeepsResident

Commit ==
  /\ hlp.pc = "commit"
  /\ IF CommitOk(Len(hlp.acc))
       THEN /\ CallsTsr(Committed(hlp.crc))
            /\ hlp' = [hlp EXCEPT !.pc = "pump", !.acc = <<>>]
       ELSE Fails /\ KeepsDisk

----------------------------------------------------------------------------
\* Publishing.

\* The wire representation is verified, and ENSUREd if its file is open.
Finalize ==
  /\ hlp.pc = "final"
  /\ IF hlp.acc = <<>> /\ hlp.crc = Whole
       THEN /\ Goto("postprocess")
            /\ disk' = IF Rank[hlp.phase] < Rank["PUBLISHING"]
                         THEN [disk EXCEPT !.part[hlp.id].safe =
                                             Len(Part.data)]
                         ELSE disk
       ELSE Fails /\ UNCHANGED disk
  /\ KeepsResident

SetPhase(phase, pc) ==
  /\ disk' = [disk EXCEPT !.meta[hlp.id] = phase]
  /\ hlp' = [hlp EXCEPT !.phase = phase, !.pc = pc]
  /\ KeepsResident

\* Mutant: an existing output is taken over.
OwnAnyScratch ==
  /\ hlp.pc = "publish" /\ file.packed /\ hlp.phase = "RECEIVING"
  /\ SetPhase("DECODING", "decode")

\* The scratch output of PackBits is owned from the DECODING phase on.
OwnScratch ==
  /\ hlp.pc = "publish" /\ file.packed /\ hlp.phase = "RECEIVING"
  /\ IF Out = None THEN SetPhase("DECODING", "decode")
                   ELSE Fails /\ KeepsDisk

DropScratch ==
  /\ hlp.pc = "publish" /\ hlp.phase = "DECODING"
  /\ disk' = [disk EXCEPT !.out[hlp.id] = None]
  /\ Goto("decode")
  /\ KeepsResident

CreateScratch ==
  /\ hlp.pc = "decode"
  /\ IF Out = None
       THEN /\ disk' = [disk EXCEPT !.out[hlp.id] = File(<<>>, 0)]
            /\ hlp' = [hlp EXCEPT !.pc = "decoding", !.owned = TRUE]
       ELSE Fails /\ UNCHANGED disk
  /\ KeepsResident

\* Decoding fails on any wire but the encoder's; the result is ENSUREd.
Decode ==
  /\ hlp.pc = "decoding"
  /\ IF Complete(Part)
       THEN /\ disk' = [disk EXCEPT !.out[hlp.id] = File(Whole, Size)]
            /\ hlp' = [hlp EXCEPT !.pc = "absent", !.owned = FALSE]
       ELSE Fails /\ UNCHANGED disk
  /\ KeepsResident

\* A first publication requires that nothing has the target's name.
RequireAbsent ==
  /\ \/ hlp.pc = "absent"
     \/ hlp.pc = "publish" /\ ~file.packed /\ hlp.phase = "RECEIVING"
  /\ IF disk.target = None THEN Goto("mark") ELSE Fails
  /\ KeepsDisk

MarkPublishing == hlp.pc = "mark" /\ SetPhase("PUBLISHING", "rename")

\* A restarted one adopts a target that is exactly the file, and otherwise
\* renames a source that is.
PublishSource == IF file.packed THEN Out ELSE Part
Recover ==
  /\ hlp.pc = "publish" /\ hlp.phase = "PUBLISHING"
  /\ \/ Complete(disk.target) /\ Goto("marked")
     \/ disk.target = None /\ Complete(PublishSource) /\ Goto("rename")
     \/ /\ ~Complete(disk.target)
        /\ ~(disk.target = None /\ Complete(PublishSource))
        /\ Fails
  /\ KeepsDisk

\* DOS refuses to rename over an existing name.
Rename ==
  /\ hlp.pc = "rename"
  /\ IF disk.target = None
       THEN /\ disk' = [disk EXCEPT
                 !.target = PublishSource,
                 !.out[hlp.id] = IF file.packed THEN None ELSE @,
                 !.part[hlp.id] = IF file.packed THEN @ ELSE None]
            /\ Goto("marked")
       ELSE Fails /\ UNCHANGED disk
  /\ KeepsResident

MarkPublished == hlp.pc = "marked" /\ SetPhase("PUBLISHED", "clean")

Revalidate ==
  /\ hlp.pc = "publish" /\ hlp.phase = "PUBLISHED"
  /\ IF Complete(disk.target) THEN Goto("clean") ELSE Fails
  /\ KeepsDisk

CleanPart ==
  /\ hlp.pc = "clean"
  /\ disk' = [disk EXCEPT !.part[hlp.id] = None,
                          !.out[hlp.id] = IF file.packed THEN None ELSE @]
  /\ Goto("cleanmeta")
  /\ KeepsResident

CleanMeta ==
  /\ hlp.pc = "cleanmeta"
  /\ disk' = [disk EXCEPT !.meta[hlp.id] = None]
  /\ Goto("finish")
  /\ KeepsResident

PutHelperSteps ==
  \/ Prepare \/ CreateMeta \/ CreatePart \/ Ready \/ Poll \/ Release
  \/ WriteWindow \/ EnsureWindow \/ Commit \/ Finalize
  \/ OwnScratch \/ DropScratch \/ CreateScratch \/ Decode
  \/ RequireAbsent \/ MarkPublishing \/ Recover \/ Rename \/ MarkPublished
  \/ Revalidate \/ CleanPart \/ CleanMeta
===============================================================================
