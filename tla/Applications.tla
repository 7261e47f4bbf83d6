---------------------------- MODULE Applications ----------------------------
(***************************************************************************)
(* server/msx_application.py: how an application file becomes segments and *)
(* an entry.  Addresses of RAM count cells of 8 KB, of which the CPU sees  *)
(* eight, those of VRAM cells of 64 KB, of which there are one or two.  A  *)
(* file is a record: what its bytes are (kind), its suffix, its length,    *)
(* and the header fields of its kind.                                      *)
(***************************************************************************)
EXTENDS Naturals, Sequences, SequencesExt

CONSTANTS Files       \* the files a caller may name

RamCells == 8
VramCells == 2
Limit == [ram |-> RamCells, vram |-> VramCells]
Formats == {"manifest", "com", "bload", "flat-rom"}
EntryModes == {"none", "call", "run"}

Nowhere == RamCells          \* no address was given
NoEntry == [mode |-> "none", address |-> Nowhere]
Invalid == [format |-> "invalid"]

Fits(address, length, limit) == address + length <= limit
EndOf(segment) == segment.address + segment.length
CellsOf(segment) == segment.address .. EndOf(segment) - 1

RawSegments == [space : STRING, address : Nat, length : Nat,
                payloads : Nat, digest : STRING]

FilesAssumption ==
  \A file \in Files :
     /\ file.kind \in Formats \cup {"other"}
     /\ file.suffix \in Formats \cup {"other"}
     /\ file.length \in Nat
     /\ file.kind = "bload" => file.start \in Nat
     /\ file.kind = "manifest" => file.segments \in Seq(RawSegments)
ASSUME FilesAssumption

----------------------------------------------------------------------------
(* Manifests.  A raw segment says how many payloads it names and whether   *)
(* its digest matches.                                                     *)

SegmentIsValid(raw) ==
  /\ raw.space \in DOMAIN Limit
  /\ raw.payloads = 1
  /\ Fits(raw.address, raw.length, Limit[raw.space])
  /\ raw.digest \in {"absent", "matches"}

ParseSegment(raw) ==
  [space |-> raw.space, address |-> raw.address, length |-> raw.length]

EntryIsValid(entry) ==
  /\ entry.mode \in EntryModes
  /\ IF entry.mode = "none" THEN entry.address = Nowhere
                            ELSE entry.address < RamCells

ParseManifest(file) ==
  IF /\ file.kind = "manifest"
     /\ \A i \in DOMAIN file.segments : SegmentIsValid(file.segments[i])
     /\ EntryIsValid(file.entry)
  THEN [format |-> "manifest",
        segments |-> [i \in DOMAIN file.segments |-> ParseSegment(file.segments[i])],
        entry |-> file.entry, requires |-> file.requires, mapper |-> file.mapper]
  ELSE Invalid

----------------------------------------------------------------------------
(* Images with one segment of RAM.                                         *)

Image(format, address, length, entry, mapper) ==
  [format |-> format,
   segments |-> <<[space |-> "ram", address |-> address, length |-> length]>>,
   entry |-> entry, requires |-> {}, mapper |-> mapper]

\* Any bytes are a COM file, for whoever asks for one.
ParseCom(file) ==
  IF file.length > 0 /\ Fits(0, file.length, RamCells)
  THEN Image("com", 0, file.length, [mode |-> "run", address |-> 0], "none")
  ELSE Invalid

\* The end address is inclusive, and an entry of zero is none.
ParseBload(file) ==
  IF /\ file.kind = "bload"
     /\ file.start <= file.end
     /\ file.length = file.end - file.start + 1
     /\ Fits(file.start, file.length, RamCells)
  THEN Image("bload", file.start, file.length,
             IF file.execute = 0 THEN NoEntry
                                 ELSE [mode |-> "run", address |-> file.execute],
             "none")
  ELSE Invalid

ParseFlatRom(file) ==
  IF file.kind = "flat-rom" /\ file.length \in {2, 4}
  THEN LET base == IF file.length = 2 /\ file.init \in 4 .. 5 THEN 4 ELSE 2
       IN Image("flat-rom", base, file.length,
                IF file.init = 0 THEN NoEntry
                                 ELSE [mode |-> "call", address |-> file.init],
                "flat")
  ELSE Invalid

----------------------------------------------------------------------------
\* The caller's format, else the suffix, else what the first bytes say: a COM
\* file is not recognized by its bytes.
FormatOf(file, format) ==
  CASE format # "auto" -> format
    [] format = "auto" /\ file.suffix # "other" -> file.suffix
    [] OTHER -> IF file.kind = "com" THEN "other" ELSE file.kind

ParseApplication(file, format) ==
  CASE FormatOf(file, format) = "manifest" -> ParseManifest(file)
    [] FormatOf(file, format) = "com" -> ParseCom(file)
    [] FormatOf(file, format) = "bload" -> ParseBload(file)
    [] FormatOf(file, format) = "flat-rom" -> ParseFlatRom(file)
    [] OTHER -> Invalid

\* The mode and address a load really uses; Nowhere with a mode is an error.
EffectiveEntry(application, execute) ==
  LET mode == IF execute = "default" THEN application.entry.mode ELSE execute
  IN [mode |-> mode,
      address |-> IF mode = "none" THEN Nowhere ELSE application.entry.address]

\* Neither backend advertises symbolic capabilities or a mapper: what is
\* required explicitly is refused, and so is a mapper that is not flat.
BackendServes(application) ==
  /\ application.requires = {}
  /\ application.mapper \in {"none", "flat"}

\* What memory holds of the application once all segments are written: where
\* two segments overlap, the later one.
ImageIn(application, space) ==
  LET Covering(cell) ==
        {i \in DOMAIN application.segments :
           /\ application.segments[i].space = space
           /\ cell \in CellsOf(application.segments[i])}
      covered == UNION {CellsOf(application.segments[i]) :
                          i \in {j \in DOMAIN application.segments :
                                   application.segments[j].space = space}}
  IN [cell \in covered |-> CHOOSE i \in Covering(cell) :
                              \A j \in Covering(cell) : j <= i]
=============================================================================
