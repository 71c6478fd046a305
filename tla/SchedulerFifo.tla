---------------------------- MODULE SchedulerFifo ----------------------------
(***************************************************************************)
(* The order in which the scheduler serves the ready processes.  arrivals  *)
(* is a history variable: the processes in the order in which they entered *)
(* ready_1_queue to wait for the CPU.  log_ready takes every pcb out of    *)
(* the queue and pushes it back, so the order in the queue is its own only *)
(* while nobody else touches the queue.                                    *)
(***************************************************************************)
EXTENDS Scheduler

VARIABLE arrivals

ordered == <<vars, arrivals>>

ArrivalsAfterStep ==
  CASE pc["main"] = "push" /\ pc'["main"] = "post" -> Append(arrivals, hold["main"])
    [] \E t \in Wakers : pc[t] = "push" /\ pc'[t] = "log_check" ->
         Append(arrivals, hold[CHOOSE t \in Wakers : pc[t] = "push" /\ pc'[t] = "log_check"])
    [] pc["sched"] = "pop" /\ pc'["sched"] = "recv_pcb" ->
         SelectSeq(arrivals, LAMBDA p : p # hold'["sched"])
    [] OTHER -> arrivals

FifoInit == Init /\ arrivals = << >>
FifoNext == Next /\ arrivals' = ArrivalsAfterStep
FifoSpec == FifoInit /\ [][FifoNext]_ordered

(* "Ejecuta algoritmo de planificacion definido por archivo de             *)
(* configuracion" (scheduller.c:297), where the file says                  *)
(* ALGORITMO_PLANIFICACION=FIFO: the process dispatched is the one that    *)
(* has waited longest.                                                     *)
ServedInOrder ==
  [][pc["sched"] = "pop" /\ pc'["sched"] = "recv_pcb"
       => hold'["sched"] = Head(arrivals)]_ordered
=============================================================================
