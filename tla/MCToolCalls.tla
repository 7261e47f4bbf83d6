---------------------------- MODULE MCToolCalls ----------------------------
(***************************************************************************)
(* ToolCalls for TLC: sets of tools, one of each family of handlers.       *)
(***************************************************************************)
EXTENDS ToolCalls

OneOfEach ==
  {"local_screen", "local_cpu_snapshot", "local_app_run", "local_boot",
   "local_boot_auto", "local_attach", "local_shutdown", "agent_op", "agent_listen",
   "agent_disconnect", "agent_reboot", "bench_start", "bench_status",
   "bench_shutdown"}
=============================================================================
