----------------------------- MODULE MCScheduler -----------------------------
(***************************************************************************)
(* Small instances of Scheduler for TLC: the programs of config/base use   *)
(* the CPU and the devices, those of config/memoria_* also fault on their  *)
(* pages, those of config/planificacion_* also use their consoles.         *)
(***************************************************************************)
EXTENDS Scheduler

Mixed     == {"INT_QUANTUM", "INT_IO", "INT_PAGE_FAULT", "EXECUTION_FINISHED"}
AnyReturn == Interrupts
=============================================================================
