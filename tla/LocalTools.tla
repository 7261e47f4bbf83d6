------------------------------ MODULE LocalTools ------------------------------
(***************************************************************************)
(* What the msx_local_* handlers of server/msx_mcp_server.py send to a     *)
(* connected openMSX, command by command.  A handler that may do less (no  *)
(* verification, no execution) is given its longest form.                  *)
(***************************************************************************)
EXTENDS OpenMsxClient

Status == <<"mode">>
Screenshot == <<"mode", "palette", "vram">>
CpuSnapshot == <<"lock", "breaked", "unlock">>
MemoryRead == Block
MemoryWrite == Poke \o Block
TypeOneLine == TypeLine \o Advance \o ReadScreen
TypeText == <<"type">> \o Advance \o ReadScreen
TypeManyLines == TypeLines \o ReadScreen
PressKey == Press \o Advance \o ReadScreen
RunBasic == TypeLine \o Advance \o TypeLines \o Advance \o ReadScreen
Reset == <<"reset">> \o Advance \o ReadScreen
RawTcl == <<"tcl">>
AppRun == Poke \o Block \o RunAt
AppCall == Poke \o Block \o CallAt
AsmRun == Poke \o RunAt \o ReadScreen
DosAsmRun == <<"import">> \o TypeLine \o Advance \o ReadScreen
DiskPutText == <<"create", "diska">> \o Advance \o <<"import">> \o ReadScreen

LocalProgram ==
  [local_status |-> Status, local_screen |-> ReadScreen,
   local_screenshot |-> Screenshot, local_cpu_snapshot |-> CpuSnapshot,
   local_memory_read |-> MemoryRead, local_memory_write |-> MemoryWrite,
   local_type_line |-> TypeOneLine, local_type |-> TypeText,
   local_type_lines |-> TypeManyLines, local_key |-> PressKey,
   local_run_basic |-> RunBasic, local_reset |-> Reset, local_cmd |-> RawTcl,
   local_app_run |-> AppRun, local_app_call |-> AppCall,
   local_asm_load |-> AsmRun, local_dos_asm_run |-> DosAsmRun,
   local_disk_put_text |-> DiskPutText]

\* Refused while the machine is half of a bench.
NotOnBench == {"local_reset", "local_cmd"}

\* Handlers that answer although this command failed.
Optional == {"palette", "cpu", "quit", "probe"}
=============================================================================
