# TLA+ models of msx-ai

msx-ai lets an AI client operate an MSX computer. A Python host (`server/`)
speaks MCP to the client and drives either an emulator (openMSX, through its
control channel) or a real MSX, where a Z80 agent (`agent/`) runs as a
foreground monitor or as a resident in BIOS hooks, reached over a serial line or
TCP. This directory models the parts whose correctness is decided by
interleaving, loss, retry, restart and boundary cases, checks them with TLC, and
proves central claims with TLAPS. Paths below are relative to the repository.

## The system

| part | state it keeps | operations | talks to |
|---|---|---|---|
| MCP runtime (`server/mcp_runtime.py`) | three locks, worker threads, lifespan | lock scope of a tool, cancellation, shutdown | the tool handlers |
| MCP server (`server/msx_mcp_server.py`) | `SESSION`: target, bench, listener | tool handlers, boot, attach, connect, application loads, reboot | RealMSX, OpenMSXClient |
| openMSX client (`server/msx_client.py`, `msx_cpu.py`) | process, control pipe, reply queue, reader thread | commands with deadlines, launch, attach, debugger capture | openMSX |
| V3Session (`server/msx_v3.py`, `msx_protocol.py`) | sequence counter, parser buffer, queues of events and orphans, quarantine reason | `request_frame`, wake credit, correlation | the stream; callers in RealMSX under one lock |
| RealMSX bootstrap (`server/msx_real.py`) | stream, session, attachment quarantine, feature bits | `attach_stream`, `_bootstrap_hello`, `_rebootstrap_v3` | V3Session, the raw dispatcher of the agent |
| RealMSX operations | snapshot ownership, cached transfer capabilities | memory, VRAM, I/O, pause and resume, keyboard, `put_file`, `get_file` | V3Session, transfer journal |
| transfers (`server/msx_transfer.py`) | one JSON file per transfer | preparation of the payload, journal save, search, load, remove | the file system |
| screenshots (`server/msx_screenshot.py`) | - | plan of addresses, acquisition, renderer | RealMSX, openMSX client |
| agent core (`agent/msx_agent_core.asm`) | framed mode, sequence, one cached response, run state, lease, keyboard spool, protocol-X block | raw and framed commands, BIOS hooks, TsrCalls | stream; DOS helper |
| DOS transfer helper (`agent/msx_xfer_engine.inc`) | open files, accumulator, phase on disk | PUT and GET engines, publication, resume | the protocol-X block, MSX-DOS |
| transports, loaders, probes | UART registers, UNAPI connection | read, write, flush; install | hardware |
| tools (`tools/`) | fault proxy: sessions and their counters | cut, close, history; build, release | developers |

The behaviours that are hard to test: an answer that is late, cut or lost; a
retransmission of what was already executed; a host that restarts while the
agent remembers; a frame tail read by the raw dispatcher; a hook that runs out
of its budget in the middle of an answer; a transfer whose host, helper, wire
and disk stop at different points; a tool call that is cancelled while its
thread still talks to the hardware; a program that runs on between two requests
of one operation; a range, a run or a ring at its last element.

## Modules

### The framed link

| module | models | notes |
|---|---|---|
| `Wire` | the byte stream in units, sequence arithmetic, what a one-byte read leaves | parameters `MaxCalls`, `Modulus`, `FrameBytes` |
| `V3Host` | `request_frame`, bootstrap, recovery, attachment, quarantine | one action sends, reads one unit, or stops waiting |
| `FrameAgent` | raw dispatch, frame search, reconnect escape, duplicate rules, hook timeout, session reset | one action reads one unit with everything the agent does before it reads again |
| `FramedLink` | host, agent and stream composed; faults; the operator who attaches again | properties, inductive invariant, refinement |
| `AtMostOnceRpc` | abstract service: what a caller may rely on | `FramedLink` implements it |
| `FrameStream` | `FrameParser` byte by byte, under any split of the stream | the link above takes a frame for one unit; here is why it may |

### File transfer

| module | models | notes |
|---|---|---|
| `XferWire` | what the parties share: call, reply, command line, file, fault budget | |
| `XferHost` | what `put_file` and `get_file` have in common, the journal | |
| `PutHost`, `GetHost` | the two calls | one action per reply acted on, per journal or file operation, per deadline |
| `XferResident` | protocol X: the host's requests and the helper's TsrCalls | TsrCalls are operators used by the helper's actions |
| `XferHelper` | the DOS helper, its files, DOS errors, power loss | one action per DOS call or TsrCall |
| `PutHelper`, `GetHelper` | the two engines | |
| `FileTransfer` | all of it composed; session loss, resets, intruders | properties, fairness, refinement |
| `FileTransferInv` | the inductive invariant of `FileTransfer`, one part per direction | `MCFileTransfer` extends it, so that TLC can check it in any of its runs |
| `AtomicTransfer` | abstract: the name the file gets | `FileTransfer` implements it |
| `UploadPayload` | BASIC listings and PackBits on the host, the decoder of the helper | bytes, not blocks |
| `ResumeJournal` | the directory of journals over several calls and files | `FileTransfer` has one file and its journals only |

### Keyboard, pause, memory, screen

| module | models | notes |
|---|---|---|
| `SnapshotLease` | `snapshot_lease`, its cleanup, `disconnect_agent`, the resident's bounded pause | one action per answer, request served and timeout |
| `KeyboardSpool` | `type` and `press`, the resident's spool and its drain into the BIOS ring, the program that reads | one action per request, answer, timer tick and character read |
| `LegacyKeyboard` | `type` and `wait_keybuf_empty` for residents without a spool | one action per request of the pause, read, write, publish, resume sequence |
| `MemoryAccess` | `peek`, `poke`, `vpeek`, `vpoke`, port lists, and the agent's handlers | one action per request |
| `CapturePlan` | the plan of a screenshot, its acquisition, the addresses the renderer reads | uses `Bitwise` |

### Server and programs

| module | models | notes |
|---|---|---|
| `ToolCalls` | locks, worker threads, cancellation, lifespan, `Session` and its lifecycle tools | `OpenMsxClient` and `LocalTools` below it |
| `OpenMsxClient` | one openMSX process, its command channel and its debugger | |
| `LocalTools` | what each `msx_local_*` handler sends | |
| `Applications` | the four file formats, their ranges, digests, entries | pure operators |
| `MsxPrograms` | the machine a load works on: who reads the keyboard, screen, memory | environment |
| `ProgramTools` | `msx_agent_app_load`, `asm_load`, `run_basic`, `run_basic_file`, `reboot` | one action per request to the agent |
| `FaultProxy` | `tools/tcp_fault_proxy.py`: accept thread, pumps, the test that cuts and closes | one action per critical section or socket operation |

`FramedLinkProofs`, `FileTransferProofs`, `FileTransferGetProofs`,
`SnapshotLeaseProofs`, `KeyboardSpoolProofs`, `ToolCallsProofs`, `ProgramToolsProofs`
and `HostCallsProofs` hold theorems.
`MCFramedLink`, `MCFileTransfer`, `MCSnapshotLease`, `MCKeyboardSpool`,
`MCToolCalls`, `MCMemoryAccess` and `MCHostCalls` are the modules the runs
instantiate. `MCHostCalls` puts the parts of the host side by side that share no
state with each other: its variable `part` says which of them a behaviour is
about, and the others keep their first state.

## Correspondence to the code

### The framed link

*Units.* The stream carries what the code reads as one thing: an `M` (which the
agent credits with an ACK before the host releases the rest), the rest of a
frame, one reconnect escape, the raw commands `?`, `N` and `F`, and the
answers. `call` in a unit is history and guards nothing.

*Host.* `phase` is the program counter of the one thread that holds the session
lock. `Fail` is the terminal timeout or disconnect of `request_frame`, with the
quarantine of a safe profile; `NextAttemptOrFail` is its loop. `WakeMismatch`
is the one byte that `_wait_for_frame_wake_ack` consumes when it is not a
credit: the tail of the unit stays in the stream as noise (`AfterByte`).
`Recover` is `_rebootstrap_v3`, `Probe` is `_bootstrap_hello`. Old sessions end
with the session object, so `SessionStarts` resets the counter.

*Agent.* `framed`, `nextSeq`, `lastReqValid`, `lastSeq`, `lastRespValid` and
`escapes` are the variables of the same purpose in the assembly. `lastOp` stands
for `last_opcode` and `last_request_crc`: two calls of the same opcode class are
taken to have the same bytes, which is the worst case for the duplicate test.
`write` stands for the commands with a small cached response, `read` for bulk
reads that are computed again, `post` for `S`, `s` and `R`, which act after
their response was sent and whose promise a hook timeout takes back.

*Environment.* Faults are named (`lose`, `damage`, `cut`, `late`, `disconnect`,
`reopen`), allowed per run by `FaultKinds` and bounded by `MaxFaults`. `late`
is a deadline that passes while something is still in flight; with nothing in
flight a deadline passes freely. On TCP a disconnect empties both directions
and the agent resets its session before it listens again
(`transport_session_finalize`). On a serial line another host may open the line
and the agent notices nothing.

### File transfer

*Calls.* The stream is not modelled again: a call is answered once or given up,
which is what `FramedLink` shows of the link below it. `GiveUp` is every end of
a call without an answer (its deadline, a broken stream, the end of the host's
process); the request may still be served until the next bootstrap, and the
command line may stay in the keyboard spool.

*Host.* `host` holds the locals that survive from one request to the next:
durable and accepted offsets, the last state, `close_intent`, `close_sent`.
`journal` is on the host's disk and, with the `.msxpart` of a GET (`local`), all
that is left when a call ends. `Turn` is the top of the streaming loop of a PUT.
A behaviour is about one source and one target, so every journal matches and
two are ambiguous; several files and targets are the business of
`ResumeJournal`. A block of a GET counts after its checkpoint: fsync of the part,
then GET_ACK, then the journal.

*Resident.* `x` are the `xfer_*` variables. While `armed` (`xfer_fast_armed`)
requests are served only inside the helper's PUMP, one per call. `from` is
`xfer_resume`, and `prefix` the blocks whose CRC the resident reports. After a
loss of the session the host comes back with OPEN and `attach`; for a GET the
resident then tells the helper to seek back (`_rewind`).

*Helper.* `pc` walks through the engine; `crc` is what the rolling CRC covers,
`acc` the accumulator, `owned` is `loader_xfer_output_owned`. The resident and
the host act between any two of its DOS calls and TsrCalls. A file is its
blocks, how many were ENSUREd, and whether a transfer wrote it (no code can see
that). A CRC is the sequence of blocks, so there are no collisions. A raw and a
packed file have the same blocks: the packed one is decoded to the scratch
output, and the bytes of that are in `UploadPayload`.

*Disk.* `PowerLoss` keeps what was ENSUREd or closed and any prefix of the
rest, with a damaged last block. CREATE, RENAME and DELETE are taken to be
durable when they return. A DOS error is one failing call; a failing WRITE may
have written some blocks. A DOS program that is aborted, and reconfiguration of
the resident during a transfer, are not modelled.

*Payloads.* In `UploadPayload` a byte is its value. `ReadText` and `ReadData` take
one byte of the source; the state between them is that of the closures in
`msx_transfer.py`, which write pending output in pieces of `Chunk`. `Payload`
refuses, like the code, a source longer than `MaxSize`, and a packed one whose wire
image is; `Unpack` is the helper's decoder.

*Journals.* In `ResumeJournal` a descriptor has what `TransferDescriptor` binds:
direction, names, content, length. `local`, the remote files and `dir` change
between the calls by hand; `OldJournals` are the layouts `_load_path` still reads.
The data plane is one block after the other. A first publication requires that no
file has the target's name and marks the transfer before it renames
(`MarkPublishing`, the phase byte of the metadata is the set `publishing`); one that
was marked and interrupted adopts a target that is the file, renames the part if
there is none, and goes no further if there is another (`Publish`). Whether a
target exists when the host starts is open.

### The snapshot lease

*Host.* `host.pc` is the request the lock's holder waits for: the probe, `S` and
its verification, the reads of the body, the final status, the direct `g`, and
the recovery of `_resume_snapshot_pause` (rebootstrap, status, `g`, status).
`owned` is `_snapshot_pause_owned`; it survives a context whose cleanup failed
and then refuses the next capture. `after` says what the cleanup belongs to: a
failed capture, one that is delivered, or a close. `framed` is whether `_v3`
exists. `Leave` is `disconnect_agent`, the status and `resume` included.

*Resident.* `agent.run` and `agent.lease` are `run_state` and `snapshot_lease`;
a served request renews the lease, a receive timeout takes one unit
(`TimedOut`), a lost TCP session resumes the program before the next listener
opens. A serial line has no session to lose: another host finds the pause that
an earlier one left. `inStep` says whether the sequence numbers of the two
sides agree; a request damaged on the way makes them disagree until the next
rebootstrap.

*The capture.* `mark` is history: `held` after a read under a pause, `ran` when
the program ran after that, `mixed` when a read follows, or finds it running.
A value of the program is one moment exactly if `mark` is not `mixed`.

A request without an answer quarantines (the safe profile, which every
transport of a resident has). A lost boot behind the escapes does not, for no
session exists (`BootLost`).

### The keyboard spool

*Host.* `host` is the call in progress: `offset` is what the resident accepted,
`view` the last answer, from which `Batch` and `Pump` compute the next request.
`NoProgress` is the deadline of `_type_spooled` or an interruption of its caller;
the cancellation follows at once. After a lost answer (`GiveUp`) the attachment
is quarantined and the cancellation cannot be sent. A request is served once or
never, as `FramedLink` shows.

*Resident.* `spool` holds the characters and the four variables of the drain; a
`Tick` is one H.TIMI with the program running. The circular buffers are sequences
of bounded length. `SessionLost` and
`Attach` empty the spool and leave the ring, which may be the program's.

*Program.* It reads when it likes. After a Return it accepts the line, and may
then clear the ring, within `Settle` ticks: that is the behaviour the barrier and
its four ticks are there for. The resident has no way to see it; a program that
clears the ring later loses characters. A call of `type` that starts behind
a Return which is not its own (`press("RET")` just before, or what a lost session
left in the ring) has no barrier in front of its first line. `foreign`
collects these calls, and `TypedWhole` promises nothing for them.

### The keyboard without a spool

`cells`, `put` and `get` of `LegacyKeyboard` are KEYBUF, PUTPNT and GETPNT; a cell
holds the position of its character in the text, so that order and repetition
show. The requests of `_keybuf_write_legacy` are one action each, because the
machine runs on between them unless `frozen`; each may be lost before or behind
its effect (`AsksAgent`, `RequestIsLost`). `byT` agents write the ring in one
request. `NextLine` waits for `running` to be over: the code sleeps
`KEYBUF_LINE_SETTLE`, and a program that clears the ring later than that loses
characters.

### Memory and screen

In `MemoryAccess` addresses are scaled down: page 1 is three addresses, the
monitor starts at `ResBase`, its request and response buffer is at `Buffer`, a
VRAM bank has three bytes. `NextSize` and `Boundary` are how the host cuts a range,
`RamAllowed`, `VramAllowed` how the agent judges a request, `CopyUp` the direction
the agent copies in when the response buffer overlaps the source. What a block copy or a
run of VDP writes leaves is given cell by cell (`CopiedFrom`, `VdpWritten`) and not as a
loop: an upward copy into its own source repeats the bytes below the buffer, and where
two bytes meet the later one stands.

`CapturePlan` has no pixels: a byte of VRAM is its address. `Planned` is
`_addresses_for_capture`, `RendererReads` what `render_vram` indexes; the two are
different code. The registers are read in up to three requests and the display may
change between them (`Redisplay`) unless the capture is atomic.

### Server, openMSX and programs

*Calls.* A call of `ToolCalls` is a tool, the locks it still needs and the steps
its handler still has to do. Locks are taken in the order of `_tool_lock_scope`.
The thread of a call lives while it has steps left; a cancellation tells it and
keeps the locks until it has ended. `StopServing` cancels every call and starts
the lifespan's `finally`.

*openMSX.* `sent` are the commands in the pipe, `replies` the reader's queue. A
command in flight and its reply carry a mark, which the code cannot see, of whether
its caller still waits; `cmd` takes the replies in the order they come.
Process and window of an attached emulator are somebody else's.

*Programs.* RAM has eight cells of 8 KB and VRAM one or two of 64 KB. A cell is 0 or
the number of the segment that wrote it. `ran` is history: what memory held
when code was started. `Exchange` is one request, lost before or behind its
effect; a lost request quarantines a resident's attachment. `LoadRequests` is what
all arguments of `app_load` come down to. The machine runs, reads its keyboard
and prints prompts by itself, and `hands` counts lines somebody types.

*Fault proxy.* A step is what one thread does under the condition's lock, or one
operation on a socket. `_finish` is three steps (mark, close, record) of
whichever thread calls it. The non-blocking `sendall` may send a part and fail.

### The parser

`FrameStream` knows bytes: magic, one byte for version and type, one for the
length, payload, and a CRC that determines the body. `feed` gets any piece of
the stream and `finish` comes when an attempt is over. Frames, cut frames, frames
with a damaged body and noise alternate.

## Runs

| run | instance | shows |
|---|---|---|
| `session` | resident over TCP: no retry, quarantine; three calls, two faults, sequence numbers modulo 2; fairness | both counters agree whenever a safe session is idle (`InStep`), frame bytes never reach the raw dispatcher, a quarantined attachment sends nothing, calls end, a quarantine ends in a usable session |
| `serial` | two retransmissions, no quarantine, a serial line others may reopen | `AtMostOnce`, answers are correlated with their own call, the refinement `ImplementsRpc` |
| `transfer_crash` | two transfer IDs, PUT raw and packed and GET, any two faults of seven kinds | `NothingLost`, `JournalBacked`, `ScratchOwned`, the refinement `ImplementsAtomicTransfer` |
| `transfer_live` | one transfer ID, fairness, a user who repeats the call | the helper comes back to the prompt, the file arrives |
| `get_cancel` | one GET that is cancelled | violation: the cancelled transfer moves again |
| `lease` | three captures or disconnects, any three faults of five kinds, both lines | `LeasedCaptureIsAtomic`, `PauseIsOwned`, and under fairness `TargetResumes` |
| `lease_inherited` | two captures, two faults | violation: a capture under an inherited pause is not verified |
| `spool` | two calls, one fault, one key by hand | `TypedWhole`, `LostPeerOneLine`, `CancelledNotRead`, and under fairness `TypeCompletes` |
| `tools` | two concurrent calls of fourteen tools, every session a client may find, one fault of six kinds | threads keep apart, nothing leaks, a snapshot gives the run state back, and under fairness diagnostics end and the server closes |
| `stale_reply` | one slow command | violation: a late reply answers the next command |
| `host_calls` | the eight parts of `MCHostCalls`, one at a time | a program runs from the image of its file, a refused load changes nothing, no load writes over the agent, a reboot is the end of an attachment, `run_basic` runs what it typed; the parser, uploads, memory accesses, captures, journals, typing without a spool and the fault proxy, each with one property |
| `vram_bank` | a client that infers 128 KB, on 64 KB | violation: an access to the first missing bank is served |

Deadlock checking is off in all runs but `spool`, where the timer always ticks: a
behaviour may stop when all calls are made.

### Bounds

*Framed link.* Three calls are enough for a stale answer of the call before the last
and for a wrap of the sequence number (`Modulus = 2` in `session`). With retries
the modulus is larger than the calls of a run: the reuse of a number after a
whole cycle of requests that were never accepted is outside the runs (65536
requests in the code). Two faults cover a loss or delay together with a
disconnect, a cut or another loss during the recovery from the first. Two
escapes instead of eight keep the two places that matter: an escape that is
counted and the one that ends the session. A response has two bytes, so that a
one-byte read can leave a tail.

*File transfer.* A file of three blocks with a window of three or two has a flush
at the high-water mark, a flush at the end of the file and a journal that skips
a boundary (`JournalEvery = 2`); a file of no block closes without data. Two
transfer IDs give a new transfer over the remains of an old one, whose helper
may still run. Two faults give a fault in the recovery from another one; every
kind may meet every kind.

*Lease.* A lease of two timeouts can be renewed in between or not; two reads have a
moment between them; two attempts are those of the code. Three captures on one
attachment or several, with three faults, cover a failed recovery followed by a
capture and by a disconnect.

*Spool.* Four characters in two lines, a spool of three and a ring of two: the text
wraps around both, a line is split by a full ring, a second line waits in the
spool, and the refill threshold is reached and missed. Two settle ticks instead
of four leave time for the next line to arrive too early when the barrier does
not hold. A second call meets what the first left behind.

*Tools.* Two calls and the lifespan contend for three locks. The fourteen tools are
one of each family of `LocalTools` and every lifecycle tool that has a program
of its own. One fault, because the clauses that clean up after one are not
guarded against a second.

*Host calls.* Programs: ten files (manifests that fit, overlap, reach the agent or
exceed the VRAM, a digest that differs, a mapper, COM, BLOAD with and without an
entry, a flat ROM), two loads. Memory: every range of fourteen addresses, a
payload of four and a chunk of three, so that a range takes one request, several,
or a last one of a single byte. Frames: three frames in up to three pieces, two of
them broken. Uploads: listings of up to five bytes over seven byte values (CR, LF,
end of file, printable, tabulator), and packed data of up to ten bytes over two
values, across blocks of two, packets of four and a largest size of nine, which both
a source and the wire image of a shorter one exceed. Screens: modes 0 to 8 and 10 to
12, register layouts with masks that cut nothing, everything or something. Journals:
two transfers, three contents, one path on the host and one on the MSX (and one
it refuses), every combination of files at the start, one edit by hand. Typing: six characters in two lines
into a ring of four cells, two keys by hand, one lost request. Proxy: two sessions,
one unit, one cut. Each of these bounds is a CONSTANT of the configuration.

### Fairness

`session`. Weak fairness of the host's and the agent's reading, of
deadlines, and of the operator's new attachment when a stream is broken or
quarantined. The host's socket timeouts justify the deadlines; the agent's
polling loop or timer hook justifies its reading. Nothing obliges a caller to
call or a fault to happen.

`transfer_live`. The helper is one DOS process that runs until it
returns (weak). A frame that arrived is served, in a hook or by a pump call;
the hooks are closed while fast-v1 is armed and pump calls come and go, so
serving is strongly fair. The helper's deadline (`FILE_TRANSFER_TIMEOUT_TICKS`,
60 or 72 s) is shorter than that of `put_file` (600 s), so it fires when no
block can come any more. The user calls again after a failure, and only with a
confirmed DOS prompt, as `t_file_put` and TECHNICAL.md (1551-1560) demand
(`CarefulNext`); TECHNICAL.md promises there that a resume survives a timeout, a
disconnect or a restart of the host. A power loss is not in that list and not in
the run: it may leave a sidecar without its partial file or a torn phase, and
then every resume is refused. `TransferCompletes` also assumes that nobody else
has a file of the names the transfer needs (`NamesAreFree`).

`lease`. The host acts on an answer it has and keeps its deadlines,
the resident serves what arrives, and the resident's receive timeouts go by while
the host is silent (idle, quarantined or gone). An active host may renew the
lease forever; the program then waits only for a capture that ends.

`spool`. The timer ticks, the link answers, the host polls, and the
program reads its keyboard and accepts its lines. No deadline is used:
`TypeCompletes` says that the exchange of authorizations itself never stalls.

`tools`. A live emulator serves its commands, and threads run: their commands have
deadlines (`OpenMSX.cmd`), as have `accept` and `connect`. Nothing is promised of
a request to the agent, so `DiagnosticsStayAvailable` and `ServerCloses` have that
wait as their only exception. Nothing obliges a client to call or to cancel.

## Proofs

`FramedLinkProofs` proves, for all values of the constants:

* `TypeCorrect`: `Spec => []TypeOK`. `TypeOK` is not inductive: the number of
  credited escapes stays in range only because `probe` and `escape` are left at
  the last one, and a frame is well typed only because a host in a call has a
  call. `Bounds` adds both.
* `EffectsAtMostOnce`: `Spec => []AtMostOnce`. The agent remembers one request
  and forgets it at every session end, so the argument is about the stream: its
  units stand in the order of their calls, none older than the last accepted
  call, and everything that can end a session is older than any frame behind
  it. Hence a frame of the accepted call is only read in the session that
  accepted it, where its number is known (`AcceptedIsKnown`), and it is never
  accepted twice. The invariant is `AtMostOnceInv`.
  One lemma per kind of step: the stream is shortened, a unit of the current
  call or the first of the next is appended, a session is forgotten, a request
  is accepted.
* `QuarantineSendsNothing`: `Spec => QuarantineIsSilent`, from `AtRest`: a
  quarantined host is between its operations.

and, under `SafeProfile`, which is what the code does with the TCP stream of a
resident (no retransmission, a call that failed quarantines the attachment, TCP
delivers undamaged or not at all; more than one sequence number), again for every
number of calls, faults, escapes and sequence numbers:

* `SafeCountersAgree`: `Spec => []InStep`;
* `SafeFramesAreParsed`: `Spec => []NoFrameToRawParser`;
* `SafeAnswersAreOwn`: `Spec => []AnswersOwnCall`;
* `SafeSessionIsService`: `Spec => ImplementsRpc`, the refinement of `AtMostOnceRpc`
  with every step mapped to a step of the service or to a stutter.

  All four follow from `LockStepInv`: while an attachment is usable the phase of the
  host says what may be in flight, at most a question or its answer; a frame in flight
  is alone and belongs to the last call, whose caller was told nothing yet
  (`FrameStep`, which also holds after a quarantine, when nobody reads the answer); an
  answer on its way says what became of the request (`Faithful`). A bootstrap that
  failed may leave answers behind, but none that the next probe takes for the answer
  to its escape (`DownStep`, `EscapeStep`).

  Without the profile the last two are false for the general constants, and TLC
  shows why: on a serial line a stale answer correlates after as many late answers as
  there are sequence numbers (65536 in the code, two in the smallest model). There
  they are properties of the bounded run `serial`.

`FileTransferProofs` (PUT) and `FileTransferGetProofs` (GET, and the theorems about
both) prove, for every set of transfer IDs, size of the file, window, journal
interval, and kinds and numbers of faults:

* `TransferHolds`: `Spec => []TransferInv`, the inductive invariant of
  `FileTransferInv`, from which the others follow;
* `NoBlockIsLost`: `Spec => []NothingLost`;
* `JournalIsBacked`: `Spec => []JournalBacked`;
* `ForeignOutputsAreKept`: `Spec => ScratchOwned`;
* `TransferIsAtomic`: `Spec => ImplementsAtomicTransfer`, the refinement of
  `AtomicTransfer`: `Rename` of a PUT and `LinkDest` of a GET are its `Publish`, the
  removal of the journal is its `Report`, everything else that the host, the
  resident, the helper and the faults do is a stutter.

  A behaviour is a PUT or a GET for good (`FileStands`), and `TransferInv` is `PutInv`
  or `GetInv`. Either has three parts. *Machine*: which place of the helper belongs to
  which state of the resident (`PutLive`, `GetLive`), and how what the helper has
  relates to what the resident has counted: in a PUT `Held` is what was accepted
  (`PutHeld`), in a GET the helper at work is in one of four positions
  (`GetInStep`: the next block is not on offer yet; there is a way to go back; there is
  nothing left; it is on offer or taken). *Talk*: what a host in each place of its
  call, a request in flight and a reply not read yet may say about a machine that
  went on meanwhile. Those statements are chosen so that no step of the machine makes
  them false: they speak of what only grows (`Kept`, the bytes of a transfer that no
  loss of power can take; `Prepared`, transfers whose sidecar is there; `Past`, a
  transfer that has begun), and the lemmas on the machine prove, next to the
  invariant, that it grows (`Grows`, `GetGrows`). *Files*: for a PUT what each place of
  the helper knows of sidecar, part, scratch output and target (`HelperStep`,
  `ScratchKnown`: an output that may be deleted is not somebody else's); for a GET
  that the partial file holds what the host believes it holds, and that what the MSX
  was told of is fsynced while the destination has no name (`GetPart`, `GetSynced`).
  `JournalBacked` is not inductive without all of them: a journalled offset is
  durable only because the reply it was taken from could not overstate it, whichever
  helper, session and power loss came in between.

  There is one lemma per action (`...Keeps` for the machine, `...Talks` and `...Fits`
  for host, call and reply) over lemmas on what a step of each party leaves alone,
  and on files that are cut and that grow.

  `NoneAssumption`: the value that stands for no file, no call and no record is none
  of the files, calls and records.

`SnapshotLeaseProofs` proves, for all values of the constants:

* `LeaseTypeCorrect`: `Spec => []TypeOK`, the equivalence of a non-zero lease and
  a pause included.
* `CapturesAreAtomic`: `Spec => []LeasedCaptureIsAtomic`. The property is about
  the moment of delivery, so `CaptureInv` follows the capture: nothing is marked
  before the first read; while the body reads, a program that is still paused
  has been paused since the first read, because only an `S` could pause it again
  and no `S` is on the wire (`Sends`); an answer `paused` to the final status
  hence vouches for all reads, and in the cleanup no read follows. One lemma per
  way the host goes on (`GoesOnKeeps`, `EndsKeeps`) and one for what the resident
  does (`ServeKeeps`).
* `PausesAreOwned`: `Spec => []PauseIsOwned`. `PauseInv` says what the host may
  believe: an answer `running` on its way is still true when it is acted on, for no
  `S` is behind it in the stream, and a pause that nobody is going to end was there
  before the host came. One lemma per way the host goes on (`GoesOnOwns` and its
  companions), one for the resident.

`KeyboardSpoolProofs` proves, for every text and every size of spool and ring:

* `OneLineAtMost`: `Spec => []LostPeerOneLine`. What can be drained after the loss
  of the peer is the line that is active or authorized, or the one a request still
  in flight authorizes. `LineInv` shows that these are one and the same: the host
  sends an authorization only with a view of the spool that is quiet, and a
  quiet spool stays quiet until an authorization arrives.
* `TypedAsAWhole`: `Spec => []TypedWhole`. `TypedInv` says where the characters of the
  call in progress are. `Flow(base)`: `base` of them have left the spool, the spool
  holds those that follow, and the request on its way or the host those after that.
  `Joined`: unless somebody else pressed a key, what the program has read, what
  stands in the ring and what left the spool are one piece. `Guarded` is why the
  program's late clearing of the ring loses nothing: between a Return and the moment
  it has been accepted the barrier is up, the settle count outlasts the program's
  own delay, and all that was published has been read. `InOrder` keeps the characters
  of earlier calls that are still in the ring apart from those of this one, and
  `Promised` ties the host's result to the spool it was told of. One lemma per
  action; `DrainKeepsTyped` is the refill of the ring, which takes the least `n` at
  which the code's loop stops (`LeastOf`).
* `CancelledIsGone`: `Spec => CancelledNotRead`, from the same invariant: after a
  cancellation was confirmed neither the spool nor the ring holds a character of the
  call, so that no step can read one.

`ToolCallsProofs` proves, for every number of calls, set of tools and number of
faults:

* `ThreadsKeepApart`: `Spec => []OneWorkerPerChannel`. `ScopeInv` adds what makes it
  inductive: a thread that has work left holds every lock of its tool, a call that
  waits holds those it no longer needs, and the steps a thread has left use only
  channels whose locks are in its scope (`On(Held(tool))`). The last is a fact
  about every handler (`ProgramOn`), every clause that cleans up after a failure
  (`RecoveryOn`), and the steps that replace themselves by others: `close`, the
  capture behind `debug breaked`, and the second machine of profile auto. One lemma
  per way a record or the locks change.
* `NothingIsLeaked`: `Spec => []NothingLeaked`. While a lifecycle call is under way the
  process may own what nobody has published, so `OwnedInv` says for each lifecycle
  tool how the steps its thread has left fit with machine, slot, link and directory
  (`LocalFits`, `AgentFits`, `BothFits`: starting, closing, detaching, and undoing what
  failed); that a part which is not settled (`LocalSettled`, `AgentSettled`,
  `DirSettled`) has a call of its kind at work (`Busy`); and how far the end of the
  transport is with closing (`ServerInv`). `Effect` sums up what any step of a thread
  may change, by its first step (`TalkMoves`, `HostMoves`); `LocalMoves`, `AgentMoves`,
  `BothMoves` and `OtherMoves` are one lemma per kind of tool. That such a step
  disturbs no other call is `Apart`, which is where the locks of `ScopeInv` enter.
  TLC checked `OwnedInv` on the instance of the run, and with all tools and three
  faults, before it was proved.
* `CpuIsLetGo`: `Spec => []RunStateKept`. While a capture is at work the CPU may stand,
  so `KeptInv` says where a handler that moves the CPU may be (`Places`; the programs
  of all the others are `Calm`), and, as long as every answer was its own and the
  emulator lives, two things more. One command is under way at most, and the thread
  that sent it waits for it (`Exchange`): this is why no answer is taken for another
  one, and it rests on the locks (`Aloof`). The CPU stands exactly when it stood
  before or when the steps that some thread has not been served yet (`Ahead`) start
  behind a `break`, and a thread that is still going to send `cont` found it running
  (`Poised`). `Moved` is what serving a first step does, `RecoveryPlaced` what the
  `finally` clauses leave to do. A late reply ends the promise (`trust` is lost), as
  it does in the code. TLC checked `KeptInv` first, on the run's instance and with all
  tools and three faults.

`ProgramToolsProofs` proves, for every set of application files, number of jobs and
faults, and number of lines typed by hand:

* `AgentKept`: `Spec => []AgentIntact`, for which the addresses and lengths that the
  parsers let through have to be natural numbers (`ParsedSegments`).
* `RefusalsAreClean`: `Spec => []RefusalChangesNothing`.
* `RebootEnds`: `Spec => []RebootIsTerminal`.

  These three follow from one invariant, `ToolsInv`: the machine has its agent (`Safe`);
  what a job still has to do is well formed, only the tool reboot comes to the steps
  that end an attachment, and nobody else types REBOOT (`GoodJob`); where a job can
  still be refused it has touched nothing (`Clean`); and a call that is not over has
  a link that is up. The lemmas on the requests (`DoesKeeps`, `AsksKeeps`,
  `HostKeeps`, `TerminalKeeps`) hold for any of them, lost ones included; below them
  is one lemma per step.
* `ImageRuns`: `Spec => []RunsItsImage`.
* `ProgramRuns`: `Spec => []BasicRunsTheProgram`.

  Both are about calls that nobody at the machine disturbs (`hands = 0`) and follow
  from `RunInv`, which adds to `ToolsInv` what such a call knows at each of its steps.
  `Quiet` says how runtime, prompt, screen and ring of the machine go together. For
  app_load (`LoadFits`), every cell of memory holds the latest of the segments that
  have reached it so far (`InPlace`), from the stop to the start nothing moves by
  itself (`Steady`: the monitor waits, or BASIC with an empty ring), so that no step
  of the machine comes in between (`SteadyStands`), and the line that runs the image
  stands alone in the ring when it does (`Submits`). `WritesInPlace`, `SegmentPlaced`
  and `AllPlaced` carry this from cell to cell, and `CompleteIsImage` turns the result
  into `ImageIn`. For run_basic (`BasicFits`), the lines not yet read determine where
  BASIC is, what program it has and whether the file is there (`Stage`); `StageReads`
  shows it for the line that is read next, `StageStands` for every other step. Lost
  answers leave either side of a request (`RequestFits`). TLC checked `RunInv` first,
  with three calls and two faults.

`HostCallsProofs` proves four parts of the run `host_calls`, which share no state.

* `ResumeIsFaithful`, for all files, edits between the calls and numbers of
  transfers: `JournalSpec => []JournalsAreFaithful`, from `JournalInv`. What the
  property says of journals follows from what `save` checks (`KeptOpens`:
  `TransferDescriptor` and the agent accept what was stored) and from the keys the
  search tells apart (`SearchTells`, `KeysUnique`). That no file joins two versions
  needs more: a partial file holds bytes of the file its journal names, an unknown
  GET has an empty one (`PartsFit`), and while the agent holds a transfer its journal
  is never ahead of the part, so that a publication after the last checkpoint is
  complete. `TaskFits` relates the call in progress to its journal, its part and the
  remote file it was bound to; `Unused`, that a transfer ID is used once, is why a
  removed journal does not come back without its close intent. `SaveKeeps` and
  `CallSaves` say what a save does; above them is one lemma per action.

  `JournalAssumption`: only one content is empty (size and checksum stand for a file),
  and the values that mean "none" are none of the others.

* `AccessHolds`, for every size of memory, bank, payload and raw access, wherever the
  buffer is: `~OlderClient => (AccessSpec => []AccessIsWhole)`, from `AccessInv`. Host
  and agent check ranges with different code. `RequestFits` bounds what the host asks
  for at once, `RamLetThrough` and `VramLetThrough` say that the agent lets every
  request of an admitted range through; the second needs that an address below the
  end of the installed banks is in one of them (`BankOf`) and that the counter of the
  VDP meets no seam within a bank (`AddressInBank`), which is arithmetic with a bank
  of any size. Memory differs from what it was by the part of the access that is done,
  or by one request more when its answer was lost (`ContentsFit`; `StoredIsPrefix`,
  `WrittenIsPrefix`). A framed read of the monitor changes the buffer it is answered
  from: `CopyHolds` is why the answer is still right, and `ReadFits` says that the
  first request finds memory as it was and every later one all but the buffer.
  `OlderClient` is a hypothesis because such a client asks for banks that are not
  there, which is what `vram_bank` shows.

  `AccessAssumption`: sizes are natural numbers, a bank and a raw access are not empty,
  a payload holds the three bytes of a VRAM address and one more, and the buffer lies in
  RAM at or above the monitor.

* `ProxyAccounts`, for every number of clients, units and cuts:
  `ProxySpec => []ProxyIsAccountable`, from `ProxyInv`. The threads share a session and
  each may be in the middle of finishing it, so the invariant counts them: a closed
  session that is not recorded has exactly one thread between its close and its record
  (`Closers`, `ClosedByOne`), and a recorded one has none. `Counted` relates what the
  proxy counts to what the ends received, with at most one unit under way that is
  received and not yet counted; it is where the black hole of `cut` bites. `PumpFits`,
  `AcceptorFits` and `TesterFits` say what each thread still has to do, and that a
  session without a pump is about to be given one (`Starting`, `Pending`); from them
  follows that nothing is left when `close` has joined all threads (`NoneLeft`,
  `AllRecorded`). The records are as many as the sessions because each session has one
  and no number is left out (`Numbered`, `RecordsCount`).

  `ProxyAssumption`: the number of sessions is a natural number.

* `TypesWhole`, for every text and every size of the ring:
  `KeyboardSpec => []TypingIsWhole`, from `KeyboardInv`. There is a character `e` up to
  which the text has been put into the ring (`RingFits`): the cells between GETPNT and
  PUTPNT that are not keys of the hand hold the characters behind the last one read up
  to `e`, each once and in order. `TypedCount` gets the number of these cells from a
  bijection onto the characters. A step of the ring is one lemma (`RingRead`,
  `RingGrows`, `RingPressed`, `RingCleared`, `RingStays`), stated over the distance of a
  cell from a pointer (`Dist`), so that wrapping around the end of the ring is reasoned
  about once. `TypistFits` relates `e` to the request the call is at: between the first
  poke and the publication the machine is frozen, the pointers the call has read are
  those of the ring, and the cells behind PUTPNT already hold the batch (`Prepared`).
  A program clears the ring only behind a line that it has read to its end
  (`RunningFits`), which is why nothing typed is lost then.

  `KeyboardAssumption`: the ring has a cell, and the text is one of "c" and "r".

Assumptions: those of the constants (`WireAssumption`, `AgentAssumption`,
`HostAssumption`, `LinkAssumption`, `LeaseAssumption`, `SpoolAssumption`,
`ToolAssumption`, `FilesAssumption`, `MsxAssumption`, `ToolsAssumption`,
`NoneAssumption`, `JournalAssumption`, `AccessAssumption`, `ProxyAssumption`,
`KeyboardAssumption`). Where a value stands for the absence of a tick, a call or a
key, they say that it is none of these.

Everything else is only model-checked:

* `ParserIsFaithful`, `CaptureIsDrawable` and `UploadArrives`: `FrameStream`,
  `CapturePlan` and `UploadPayload` compute over sequences by recursion or by
  `Bitwise`, and what they compute for inputs of any length cannot be proved here;
* the liveness properties (`HelperReturns`, `TransferCompletes` and those of link,
  lease, spool and tools), which with ENABLED are outside the prover's reach.

## Disagreements

Shown by a run:

* `stale_reply`: `OpenMSX.cmd` answers a command with the oldest reply in the queue.
  A reply that arrives after its command's deadline shifts all later ones.
* `get_cancel`: a CANCEL served while the helper of a GET reads from its disk is
  overwritten by the next offer of data; comment and README say that cancelled
  stays terminal.
* `lease_inherited`: TECHNICAL.md (1123-1124) promises that a capture whose lease
  did not last is discarded. A capture that finds a pause takes it for a manual
  one and does not look again; on a serial line it may be the lease of an
  earlier session, which expires under the reads.
* `vram_bank`: the agent's test for banks without VRAM accepts the first of them.
  The bundled host never asks for it.

Met while modelling, without a run of their own:

* TECHNICAL.md (964-967) promises that after damaged input the agent searches for
  the next valid frame. It finds it, but refuses it `BAD_ARG`
  (`msx_agent_core.asm:3392`, `:3469`): the host has consumed the number of the
  damaged request and the agent has not.
* The V3Session docstring promises a bounded queue for late responses. The wait for
  a wake credit reads their bytes before the parser does.
* TECHNICAL.md (1192-1193) lets a load validate before it writes. A refusal by the
  agent of a later VRAM segment comes after earlier segments were written.
* The fault proxy does not count the part of a unit that a full socket took before
  its `sendall` failed, and records a session as `rst` that a pump closed first, and
  hence with FIN. `ProxyIsAccountable` says what holds.

Behaviours of transfers worth knowing, none of which contradicts a document:

* A helper of an old transfer may publish into a new one that is staged; `OnOffer`
  asks for `ready`, and nothing is taken from it.
* An end of the host's process between the removal of the part file and that of the
  journal of a GET leaves a journal without a part, and resumable GETs of that
  destination fail until one is made with `resume=False`.
* Two puts with `resume=False` that fail leave two journals, and later resumes are
  refused as ambiguous (`msx_transfer.py:1723`).
* A put to a name the agent refuses leaves a journal that can never be resumed.
* What `NothingLost` does not say: while a helper of a cancelled transfer still
  runs, FINISH and PUT_POLL carry no ID; the new transfer may be failed by the old
  helper, but never gets data from it.
* The raw protocol's VRAM handlers check no capacity, and its reads of RAM outside
  every range answer zeros.

## Assumptions and what is not modelled

The models take for granted: that the CRC of a frame and of a file have no
collisions; that a prompt a caller confirms is there and that programs do not
imitate one; that a program which clears the key ring does so within the settle time
of the code; that no backend of a load offers symbols, mapper or preflight hooks,
which no class of the repository does; that CREATE, RENAME and DELETE are durable
when they return.

Not modelled: the UART, UNAPI and ESP transports and the loaders, installers and
probes of the agent (hardware registers and firmware behaviour); discovery of
openMSX control sockets, its overlay homes and SSPI (operating system
interfaces); CPU instruction decoding, the documentation corpus and tool metadata
(pure formatting of constant data); rendering of pixels and PNG; JSON text; build,
validation and release tools other than the fault proxy. `PROJECT.json` has the
reason with each component.


`FileTransfer` and `KeyboardSpool` state type invariants (`TypeOK`) that no
configuration lists.

## Plan

Done: the framed link, PUT and GET, the lease, the spool and the keyboard without
one, memory, captures, uploads, journals, applications and programs, tool calls, the
openMSX client, the fault proxy, theorems about ten components, and both refinements
proved (`AtMostOnceRpc` under the safe profile).

Left, in this order:

1. `FramedLink` under `FileTransfer`: transfers over a link that may be quarantined
   in the middle of a call, instead of calls that are answered or given up.
2. The bench with both channels modelled in full: `FramedLink` below `ToolCalls`.
3. TCP and UNAPI transports of the agent, from the state machines of their reads.
