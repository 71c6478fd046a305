------------------------------- MODULE Quantum -------------------------------
(***************************************************************************)
(* The quantum: how a pcb goes to the CPU and comes back, and how the end  *)
(* of its quantum follows it over another socket.                          *)
(*                                                                         *)
(*   sched          execute_algorithm and wait_cpu_dispatch (scheduller.c) *)
(*   start_quantum  a thread per dispatch that sleeps and interrupts       *)
(*   cycle          instruction_cycle of the CPU (cpu.c)                   *)
(*   start_interrupt  the thread of the CPU that receives the interrupts   *)
(*                                                                         *)
(* Dispatches are numbered; which process each one is of, and where the    *)
(* scheduler takes it from, is the subject of Scheduler.  An interrupt is  *)
(* an empty message: the model gives it the number of the dispatch whose   *)
(* quantum it ends, which no code can see.                                 *)
(***************************************************************************)
EXTENDS Naturals, Sequences

CONSTANTS
  Algorithm,       \* ALGORITMO_PLANIFICACION of kernel.config
  MaxDispatches,   \* bound: the dispatches of a run
  MaxInstructions  \* bound: the instructions of a burst before the one that ends it

ASSUME QuantumAssumption ==
  /\ Algorithm \in {"FIFO", "RR", "FEEDBACK"}
  /\ MaxDispatches \in Nat
  /\ MaxInstructions \in Nat

Dispatches == 1 .. MaxDispatches
None == 0   \* no dispatch, and NO_INTERRUPT where a flag holds a dispatch

VARIABLES
  sched,                 \* where the thread of the scheduler is
  current,               \* the last dispatch
  with_quantum,          \* use_quantum of execute_algorithm
  thread_interrupt,      \* the dispatch the sleeping start_quantum is of
  to_cpu, to_kernel,     \* socket_cpu_dispatch, in both directions
  interrupts,            \* socket_cpu_interrupt
  cycle,                 \* where the instruction cycle is
  running,               \* the dispatch whose pcb the CPU has
  interruption_quantum,  \* the flag, with the dispatch that set it
  interruption_io_pf,
  interrupt_type,        \* of the pcb
  executed,              \* the instructions of this burst
  preempted_by           \* history: whose interrupt preempted each dispatch

kernel  == <<sched, current, with_quantum>>
flags   == <<interruption_io_pf, interrupt_type, executed>>
sockets == <<to_cpu, to_kernel>>
vars == <<kernel, thread_interrupt, sockets, interrupts, cycle, running,
          interruption_quantum, flags, preempted_by>>

Init ==
  /\ sched = "execute_algorithm" /\ current = 0 /\ with_quantum = FALSE
  /\ thread_interrupt = None
  /\ to_cpu = << >> /\ to_kernel = << >> /\ interrupts = << >>
  /\ cycle = "recv_pcb" /\ running = None
  /\ interruption_quantum = None
  /\ interruption_io_pf = "NO_INTERRUPT" /\ interrupt_type = "NO_INTERRUPT"
  /\ executed = 0
  /\ preempted_by = [d \in Dispatches |-> None]

-----------------------------------------------------------------------------
(* The kernel.                                                             *)

(* execute_algorithm: RR always has a quantum, FEEDBACK when the pcb comes *)
(* from ready_1_queue, FIFO never.                                         *)
UsesQuantum(u) ==
  CASE Algorithm = "RR"       -> u = TRUE
    [] Algorithm = "FEEDBACK" -> u \in BOOLEAN
    [] OTHER                  -> u = FALSE

SendPcb ==
  /\ sched = "execute_algorithm"
  /\ current < MaxDispatches
  /\ current' = current + 1
  /\ \E u \in BOOLEAN : UsesQuantum(u) /\ with_quantum' = u
  /\ to_cpu' = Append(to_cpu, current')
  /\ sched' = "quantum"
  /\ UNCHANGED <<thread_interrupt, to_kernel, interrupts, cycle, running,
                 interruption_quantum, flags, preempted_by>>

(* if(use_quantum) pthread_create, after the pcb was sent                  *)
CreateQuantum ==
  /\ sched = "quantum"
  /\ thread_interrupt' = IF with_quantum THEN current ELSE thread_interrupt
  /\ sched' = "recv_pcb"
  /\ UNCHANGED <<current, with_quantum, sockets, interrupts, cycle, running,
                 interruption_quantum, flags, preempted_by>>

(* start_quantum: usleep and send_interrupt                                *)
StartQuantum ==
  /\ thread_interrupt # None
  /\ interrupts' = Append(interrupts, thread_interrupt)
  /\ thread_interrupt' = None
  /\ UNCHANGED <<kernel, sockets, cycle, running, interruption_quantum, flags, preempted_by>>

(* Mutant: the pcb that comes back is handled before the timer is stopped. *)
WaitCpuDispatchNoCancel ==
  /\ sched = "recv_pcb"
  /\ to_kernel # << >>
  /\ to_kernel' = Tail(to_kernel)
  /\ sched' = "execute_algorithm"
  /\ UNCHANGED <<current, with_quantum, thread_interrupt, to_cpu, interrupts, cycle,
                 running, interruption_quantum, flags, preempted_by>>

(* wait_cpu_dispatch: pthread_cancel stops the thread unless it has sent   *)
(* its interrupt (usleep and send are its cancellation points).            *)
WaitCpuDispatch ==
  /\ sched = "recv_pcb"
  /\ to_kernel # << >>
  /\ to_kernel' = Tail(to_kernel)
  /\ thread_interrupt' = IF Algorithm # "FIFO" THEN None ELSE thread_interrupt
  /\ sched' = "execute_algorithm"
  /\ UNCHANGED <<current, with_quantum, to_cpu, interrupts, cycle, running,
                 interruption_quantum, flags, preempted_by>>

-----------------------------------------------------------------------------
(* The CPU.                                                                *)

(* start_interrupt: recv_interrupt and interruption_quantum = INT_QUANTUM  *)
StartInterrupt ==
  /\ interrupts # << >>
  /\ interrupts' = Tail(interrupts)
  /\ interruption_quantum' = Head(interrupts)
  /\ UNCHANGED <<kernel, thread_interrupt, sockets, cycle, running, flags, preempted_by>>

RecvPcb ==
  /\ cycle = "recv_pcb"
  /\ to_cpu # << >>
  /\ running' = Head(to_cpu)
  /\ to_cpu' = Tail(to_cpu)
  /\ cycle' = "reset"
  /\ UNCHANGED <<kernel, thread_interrupt, to_kernel, interrupts, interruption_quantum,
                 flags, preempted_by>>

(* Mutant: interruption_quantum is not reset.                              *)
ResetAllButQuantum ==
  /\ cycle = "reset"
  /\ interruption_io_pf' = "NO_INTERRUPT"
  /\ interrupt_type' = "NO_INTERRUPT"
  /\ executed' = 0
  /\ cycle' = "execute"
  /\ UNCHANGED <<kernel, thread_interrupt, sockets, interrupts, running,
                 interruption_quantum, preempted_by>>

(* The three flags, before the first instruction.                          *)
Reset ==
  /\ cycle = "reset"
  /\ interruption_quantum' = None
  /\ interruption_io_pf' = "NO_INTERRUPT"
  /\ interrupt_type' = "NO_INTERRUPT"
  /\ executed' = 0
  /\ cycle' = "execute"
  /\ UNCHANGED <<kernel, thread_interrupt, sockets, interrupts, running, preempted_by>>

(* SET, ADD or a MOV that completes.                                       *)
ExecutePlain ==
  /\ cycle = "execute"
  /\ executed < MaxInstructions
  /\ executed' = executed + 1
  /\ cycle' = "check"
  /\ UNCHANGED <<kernel, thread_interrupt, sockets, interrupts, running,
                 interruption_quantum, interruption_io_pf, interrupt_type, preempted_by>>

(* IO, and a MOV that cannot complete.                                     *)
ExecuteBlocking ==
  /\ cycle = "execute"
  /\ interruption_io_pf' \in {"INT_IO", "INT_PAGE_FAULT", "SEGMENTATION_FAULT"}
  /\ cycle' = "check"
  /\ UNCHANGED <<kernel, thread_interrupt, sockets, interrupts, running,
                 interruption_quantum, interrupt_type, executed, preempted_by>>

ExecuteExit ==
  /\ cycle = "execute"
  /\ interrupt_type' = "EXECUTION_FINISHED"
  /\ cycle' = "check"
  /\ UNCHANGED <<kernel, thread_interrupt, sockets, interrupts, running,
                 interruption_quantum, interruption_io_pf, executed, preempted_by>>

(* Mutant: only EXIT and the quantum end a burst.                          *)
CheckedIgnoresIo ==
  IF interrupt_type = "EXECUTION_FINISHED" THEN interrupt_type
  ELSE IF interruption_quantum # None THEN "INT_QUANTUM"
  ELSE "NO_INTERRUPT"

(* Mutant: the quantum goes before an I/O or a page fault.                 *)
CheckedQuantumFirst ==
  IF interrupt_type = "EXECUTION_FINISHED" THEN interrupt_type
  ELSE IF interruption_quantum # None THEN "INT_QUANTUM"
  ELSE interruption_io_pf

(* CHECK INTERRUPT: EXECUTION_FINISHED > INT_IO = PAGE_FAULT > INT_QUANTUM *)
Checked ==
  IF interrupt_type = "EXECUTION_FINISHED" THEN interrupt_type
  ELSE IF interruption_io_pf # "NO_INTERRUPT" THEN interruption_io_pf
  ELSE IF interruption_quantum # None THEN "INT_QUANTUM"
  ELSE "NO_INTERRUPT"

CheckInterrupt ==
  /\ cycle = "check"
  /\ interrupt_type' = Checked
  /\ cycle' = IF Checked = "NO_INTERRUPT" THEN "execute" ELSE "send_pcb"
  /\ preempted_by' = IF Checked = "INT_QUANTUM"
                       THEN [preempted_by EXCEPT ![running] = interruption_quantum]
                       ELSE preempted_by
  /\ UNCHANGED <<kernel, thread_interrupt, sockets, interrupts, running,
                 interruption_quantum, interruption_io_pf, executed>>

(* send_pcb_io, send_pcb_pf or send_pcb                                    *)
SendPcbBack ==
  /\ cycle = "send_pcb"
  /\ to_kernel' = Append(to_kernel, running)
  /\ running' = None
  /\ cycle' = "recv_pcb"
  /\ UNCHANGED <<kernel, thread_interrupt, to_cpu, interrupts, interruption_quantum,
                 flags, preempted_by>>

-----------------------------------------------------------------------------
Sched == SendPcb \/ CreateQuantum \/ WaitCpuDispatch

InstructionCycle ==
  \/ RecvPcb
  \/ Reset
  \/ ExecutePlain
  \/ ExecuteBlocking
  \/ ExecuteExit
  \/ CheckInterrupt
  \/ SendPcbBack

Next == Sched \/ StartQuantum \/ StartInterrupt \/ InstructionCycle

Spec == Init /\ [][Next]_vars
-----------------------------------------------------------------------------
(* Properties.                                                             *)

(* The shape of the state: one pcb, either on its way or on the CPU, and   *)
(* the timer of the last dispatch or none.                                 *)
TypeOK ==
  /\ current \in 0 .. MaxDispatches
  /\ Len(to_cpu) + Len(to_kernel) + (IF running = None THEN 0 ELSE 1)
       = (IF sched = "execute_algorithm" THEN 0 ELSE 1)
  /\ thread_interrupt \in {None, current}
  /\ sched = "execute_algorithm" => thread_interrupt = None
  /\ interruption_quantum \in Dispatches \cup {None}
  /\ executed \in 0 .. MaxInstructions
  /\ interrupts \in Seq(Dispatches)

(* An interrupt preempts one dispatch at most, however late it arrives:    *)
(* the flag it sets does not outlive the burst in which the CPU sees it.   *)
OneEach ==
  \A d, e \in Dispatches :
    preempted_by[d] # None /\ preempted_by[d] = preempted_by[e] => d = e

(* "Cuando no hay ningun proceso a ejecutar no se debe enviar              *)
(* interrupciones.  Cuando llega un proceso recien ahi empieza a contar"   *)
(* (scheduller.c:419-420): a process is preempted at the end of its own    *)
(* quantum.                                                                *)
OwnQuantum == \A d \in Dispatches : preempted_by[d] \in {None, d}
=============================================================================
