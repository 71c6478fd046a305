--------------------------- MODULE MCSchedulerFifo ---------------------------
(***************************************************************************)
(* SchedulerFifo with the programs of config/planificacion_base, which     *)
(* compute and use a device, and nothing else.                             *)
(***************************************************************************)
EXTENDS SchedulerFifo

ComputeAndIo == {"INT_IO", "EXECUTION_FINISHED"}
=============================================================================
