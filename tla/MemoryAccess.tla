----------------------------- MODULE MemoryAccess -----------------------------
(***************************************************************************)
(* One bulk access to the memory of the target: peek, poke, vpeek, vpoke   *)
(* and the lists of I/O ports of RealMSX (server/msx_real.py), cut into    *)
(* requests, and the handlers of the agent that serve them.  Host and      *)
(* agent each check the range in their own way.  A request that gets no    *)
(* answer ends the access where it is.                                     *)
(*                                                                         *)
(* Addresses are scaled down: page 1 is Page1, the monitor owns the RAM    *)
(* from ResBase on, and its request and response buffer lies there.        *)
(***************************************************************************)
EXTENDS Integers, Sequences, SequencesExt, FiniteSetsExt

CONSTANTS
  RamSize,      \* 65536
  Page1,        \* addresses of page 1, where the mapped TSR hides the RAM
  ResBase,      \* RES_BASE, first address of the foreground monitor
  Buffer,       \* frame_response_buffer, at or above ResBase
  MaxPayload,   \* negotiated payload, at least 4
  RawChunk,     \* largest raw v2 access; 255
  BankSize,     \* 16384
  Ports,        \* I/O ports an access names
  WriteOnly,    \* those that do not read back what was written
  MaxPorts,     \* bound on the ports of one access
  OlderClient   \* whether the client infers 128 KB from the VDP generation

ASSUME AccessAssumption ==
  /\ {RamSize, ResBase, Buffer, MaxPayload, MaxPorts} \subseteq Nat
  /\ {RawChunk, BankSize} \subseteq Nat \ {0}
  /\ MaxPayload >= 4 /\ ResBase <= Buffer /\ Buffer + MaxPayload <= RamSize

VARIABLES
  runtime,      \* resident (the TSR build) or foreground
  framed,       \* v3, or raw v2
  banks,        \* vram_bank_count: 1, 4 or 8
  ram, vram,    \* contents
  io,           \* what reading a port returns
  access        \* the access

accessVars == <<runtime, framed, banks, ram, vram, io, access>>

Ram == 0 .. RamSize - 1
MaxBanks == 8
Vram == 0 .. MaxBanks * BankSize - 1
Installed == 0 .. banks * BankSize - 1
RamAt0 == [a \in Ram |-> a]
VramAt0 == [a \in Vram |-> a]
IoAt0 == [p \in Ports |-> 0]

\* The i-th byte of what is written.
Datum(i) == 100 + i
NoAccess == [kind |-> "none", addr |-> 0, n |-> 0, list |-> <<>>, out |-> <<>>,
         done |-> 0, state |-> "idle"]

----------------------------------------------------------------------------
\* The host.

\* vram_size, as HELLO told or as the client guesses.
VramSize ==
  IF framed /\ ~OlderClient THEN banks * BankSize
  ELSE IF framed /\ banks = 1 THEN BankSize
  ELSE MaxBanks * BankSize

Overlaps(addr, n, S) == \E a \in addr .. addr + n - 1 : a \in S

\* _validate_range and the checks of peek and poke.
HostAllows(kind, addr, n) ==
  CASE kind \in {"v", "w"} -> addr + n <= VramSize
    [] kind = "r" ->
         addr + n <= RamSize /\ ~(runtime = "resident" /\ Overlaps(addr, n, Page1))
    [] kind = "p" ->
         /\ addr + n <= RamSize
         /\ runtime = "resident" => ~Overlaps(addr, n, Page1)
         /\ runtime = "foreground" /\ n > 0 => addr + n <= ResBase

RequestLimit(kind) ==
  IF ~framed THEN RawChunk
  ELSE MaxPayload - (CASE kind = "p" -> 2 [] kind = "w" -> 3 [] OTHER -> 0)

\* Mutant of Boundary: a request may run into the next bank.
NoBoundary(kind, at) == RamSize

\* Bytes to the end of the bank; the address counter of the VDP stays in it.
Boundary(kind, at) ==
  IF kind \in {"v", "w"} THEN BankSize - (at % BankSize) ELSE RamSize

NextSize ==
  Min({access.n - access.done, RequestLimit(access.kind),
       Boundary(access.kind, access.addr + access.done)})

BeginAccess(kind, addr, n) ==
  /\ access = NoAccess
  /\ access' = [NoAccess EXCEPT
       !.kind = kind, !.addr = addr, !.n = n,
       !.state = IF ~HostAllows(kind, addr, n) THEN "refused"
                 ELSE IF n = 0 THEN "done" ELSE "busy"]
  /\ UNCHANGED <<runtime, framed, banks, ram, vram, io>>

----------------------------------------------------------------------------
\* The agent.

\* frame_cmd_ram_read, frame_cmd_ram_write, cmd_ram_read, cmd_ram_write.
RamAllowed(kind, h, n) ==
  /\ h + n <= RamSize
  /\ runtime = "resident" => ~Overlaps(h, n, Page1)
  /\ kind = "p" /\ runtime = "foreground" => h < ResBase /\ h + n <= ResBase

\* frame_decode_vram_address leaves Z set for the first bank that is not
\* installed, and the callers take Z for an accepted address.  The raw
\* handlers check nothing.
VramAllowed(h, n) ==
  framed => h \div BankSize <= banks /\ (h % BankSize) + n <= BankSize

\* Mutant of CopyUp: the buffer is always filled from its first byte.
AlwaysUp(h, n) == TRUE

\* The copy into the buffer runs upwards unless it would overrun its source.
CopyUp(h, n) == h >= Buffer \/ h + n <= Buffer

\* frame_cmd_ram_read: request and response share storage in RAM.  A copy that
\* runs up into its own source finds there what it has copied already, and so
\* repeats the bytes below the buffer.
CopiedFrom(h, n, i) ==
  IF CopyUp(h, n) /\ h < Buffer THEN h + (i % (Buffer - h)) ELSE h + i
Copied(h, n) ==
  [a \in Ram |-> IF a \in Buffer .. Buffer + n - 1 THEN ram[CopiedFrom(h, n, a - Buffer)]
                 ELSE ram[a]]
Buffered == framed /\ runtime = "foreground"

Stored(h, n) ==
  [a \in Ram |-> IF a \in h .. h + n - 1 THEN Datum(access.done + a - h + 1)
                 ELSE ram[a]]

\* Where byte i of a VRAM access lands: the counter stays in the bank.
VdpAddress(h, i) == (h \div BankSize) * BankSize + ((h + i) % BankSize)
VdpRead(h, n) ==
  [i \in 1 .. n |-> IF VdpAddress(h, i - 1) \in Installed
                    THEN vram[VdpAddress(h, i - 1)] ELSE -1]
VdpWritten(h, n) ==
  [a \in Vram |->
     LET at == {i \in 1 .. n : VdpAddress(h, i - 1) = a}
     IN  IF at = {} \/ a \notin Installed THEN vram[a] ELSE Datum(access.done + Max(at))]

Moved(n, bytes) ==
  access' = [access EXCEPT
    !.done = @ + n, !.out = @ \o bytes,
    !.state = IF access.done + n = access.n THEN "done" ELSE "busy"]
\* cmd_ram_read has no status: a range it does not allow reads as zeros.
Zeros(n) == [i \in 1 .. n |-> 0]
Rejected == access' = [access EXCEPT !.state = "rejected"]

ReadRam ==
  /\ access.state = "busy" /\ access.kind = "r"
  /\ LET h == access.addr + access.done  n == NextSize IN
     IF ~RamAllowed("r", h, n)
       THEN UNCHANGED ram /\ IF framed THEN Rejected ELSE Moved(n, Zeros(n))
     ELSE /\ ram' = IF Buffered THEN Copied(h, n) ELSE ram
          /\ Moved(n, IF Buffered
                      THEN [i \in 1 .. n |-> ram'[Buffer + i - 1]]
                      ELSE [i \in 1 .. n |-> ram[h + i - 1]])
  /\ UNCHANGED <<runtime, framed, banks, vram, io>>

WriteRam ==
  /\ access.state = "busy" /\ access.kind = "p"
  /\ LET h == access.addr + access.done  n == NextSize IN
     IF ~RamAllowed("p", h, n) THEN Rejected /\ UNCHANGED ram
     ELSE ram' = Stored(h, n) /\ Moved(n, <<>>)
  /\ UNCHANGED <<runtime, framed, banks, vram, io>>

ReadVram ==
  /\ access.state = "busy" /\ access.kind = "v"
  /\ LET h == access.addr + access.done  n == NextSize IN
     IF VramAllowed(h, n) THEN Moved(n, VdpRead(h, n)) ELSE Rejected
  /\ UNCHANGED <<runtime, framed, banks, ram, vram, io>>

WriteVram ==
  /\ access.state = "busy" /\ access.kind = "w"
  /\ LET h == access.addr + access.done  n == NextSize IN
     IF VramAllowed(h, n) THEN vram' = VdpWritten(h, n) /\ Moved(n, <<>>)
     ELSE Rejected /\ UNCHANGED vram
  /\ UNCHANGED <<runtime, framed, banks, ram, io>>

----------------------------------------------------------------------------
\* Lists of ports: io_read_many, and io_write_many with verify.

BeginPorts(kind, list) ==
  /\ access = NoAccess
  /\ access' = [NoAccess EXCEPT
       !.kind = kind, !.list = list, !.n = Len(list),
       !.state = IF list = <<>> THEN "done" ELSE "busy"]
  /\ UNCHANGED <<runtime, framed, banks, ram, vram, io>>

Port == access.list[access.done + 1]

ReadPort ==
  /\ access.state = "busy" /\ access.kind = "i"
  /\ Moved(1, <<io[Port]>>)
  /\ UNCHANGED <<runtime, framed, banks, ram, vram, io>>

\* A port that reads back something else ends a verified list.
WritePort ==
  /\ access.state = "busy" /\ access.kind \in {"o", "verified"}
  /\ io' = IF Port \in WriteOnly THEN io
           ELSE [io EXCEPT ![Port] = Datum(access.done + 1)]
  /\ IF access.kind = "verified" /\ Port \in WriteOnly
       THEN Rejected ELSE Moved(1, <<>>)
  /\ UNCHANGED <<runtime, framed, banks, ram, vram>>

\* A request without an answer, which the agent may have served or not.
LoseAnswer ==
  /\ access.state = "busy"
  /\ access' = [access EXCEPT !.state = "lost"]
  /\ LET h == access.addr + access.done  n == NextSize IN
     \/ UNCHANGED <<ram, vram, io>>
     \/ /\ access.kind = "p" /\ RamAllowed("p", h, n)
        /\ ram' = Stored(h, n) /\ UNCHANGED <<vram, io>>
     \/ /\ access.kind = "w" /\ VramAllowed(h, n)
        /\ vram' = VdpWritten(h, n) /\ UNCHANGED <<ram, io>>
     \/ /\ access.kind \in {"o", "verified"} /\ Port \notin WriteOnly
        /\ io' = [io EXCEPT ![Port] = Datum(access.done + 1)]
        /\ UNCHANGED <<ram, vram>>
  /\ UNCHANGED <<runtime, framed, banks>>

----------------------------------------------------------------------------
AccessInit ==
  /\ runtime \in {"resident", "foreground"} /\ framed \in BOOLEAN
  /\ banks \in {1, 4, MaxBanks}
  /\ ram = RamAt0 /\ vram = VramAt0 /\ io = IoAt0 /\ access = NoAccess

AccessNext ==
  \/ \E addr \in 0 .. RamSize, n \in 0 .. RamSize, kind \in {"r", "p"} :
       BeginAccess(kind, addr, n)
  \/ \E addr \in 0 .. MaxBanks * BankSize, n \in 0 .. 2 * BankSize + 1,
        kind \in {"v", "w"} : BeginAccess(kind, addr, n)
  \/ \E list \in BoundedSeq(Ports, MaxPorts), kind \in {"i", "o", "verified"} :
       BeginPorts(kind, list)
  \/ ReadRam \/ WriteRam \/ ReadVram \/ WriteVram
  \/ ReadPort \/ WritePort \/ LoseAnswer

AccessSpec == AccessInit /\ [][AccessNext]_accessVars

----------------------------------------------------------------------------
\* The cells of a range after i of its bytes were written.
Prefix(m, i) ==
  [a \in DOMAIN m |-> IF a - access.addr \in 0 .. i - 1
                      THEN Datum(a - access.addr + 1) ELSE m[a]]

\* What was read is what the memory held; the later requests of a read over
\* the buffer find in it what the first ones left.
Held(m) ==
  /\ Len(access.out) = access.done
  /\ \A i \in 1 .. access.done :
       \/ access.out[i] = m[access.addr + i - 1]
       \/ /\ Buffered /\ access.kind = "r" /\ i > RequestLimit("r")
          /\ access.addr + i - 1 \in Buffer .. Buffer + RequestLimit("r") - 1

\* The request under way may have been served although its answer was lost.
Progress ==
  IF access.state = "lost" THEN {access.done, access.done + NextSize}
  ELSE {access.done}

\* The ports after the first i writes of a list, of which a failed check
\* takes none back.
PortsAfter(i) ==
  [p \in Ports |->
     LET at == {j \in 1 .. i : access.list[j] = p}
     IN IF p \in WriteOnly \/ at = {} THEN 0 ELSE Datum(Max(at))]
PortProgress ==
  IF access.state = "lost" THEN {access.done, access.done + 1} ELSE {access.done}

InCapacity ==
  access.kind \in {"v", "w"} => access.addr + access.n <= banks * BankSize

\* An access to memory is served whole or not at all, as far as the host can
\* tell before it starts (peek, poke, vpeek, vpoke and the handlers of the
\* agent): what the host let through the agent never rejects half way, what
\* is read is what the range held, in order and without a seam at the requests
\* or at the buffer, and what is written is the range and nothing beside it,
\* or a leading part of it once the link fails.
AccessIsWhole ==
  /\ access.state = "rejected" => access.kind = "verified"
  /\ InCapacity =>
       /\ access.kind = "r" => Held(RamAt0)
       /\ access.kind = "v" => Held(VramAt0)
       /\ access.kind = "w" => \E i \in Progress : vram = Prefix(VramAt0, i)
       /\ access.kind = "p" => \E i \in Progress : ram = Prefix(RamAt0, i)
  /\ IF access.kind \in {"o", "verified"}
       THEN \E i \in PortProgress : io = PortsAfter(i) ELSE io = IoAt0
  /\ access.kind # "w" => vram = VramAt0
  /\ \A a \in Ram : ram[a] # RamAt0[a] =>
       access.kind = "p" \/ (access.kind = "r" /\ a >= ResBase)

\* The agent serves no framed access to a bank that is not installed
\* ("reject banks not backed by installed VRAM", frame_decode_vram_address).
UnbackedBankIsRefused ==
  framed /\ access.kind \in {"v", "w"} /\ access.done > 0
    => access.addr \div BankSize < banks
===============================================================================
