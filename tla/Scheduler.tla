------------------------------ MODULE Scheduler ------------------------------
(***************************************************************************)
(* The kernel's short-term scheduler (kernel/src/scheduller.c and          *)
(* create_process of kernel/src/kernel.c): the threads that share the NEW  *)
(* and READY queues and the semaphore can_execute without any mutex.       *)
(*                                                                         *)
(*   main        accepts a console, creates its process, new_state         *)
(*   sched       execute_algorithm / wait_cpu_dispatch                     *)
(*   page_fault  handle_page_fault                                         *)
(*   a device    handle_io of that device                                  *)
(*   IoThreads   handle_teclado / handle_pantalla, the threads block_state *)
(*               creates, one for each request to a console                *)
(*                                                                         *)
(* A call to the commons library (queue_push, queue_pop, queue_size) and a *)
(* semaphore operation are one step; everything between two of them may be *)
(* interleaved with the other threads.  The CPU, memoria and the consoles  *)
(* are the environment: the CPU returns the pcb with any of Returns, and   *)
(* memoria and the consoles answer whenever they like.  What memoria does  *)
(* with the messages of the kernel is the subject of Memoria.              *)
(***************************************************************************)
EXTENDS SequencesExt

CONSTANTS
  Pids,       \* the processes that may be created
  Devices,    \* DISPOSITIVOS_IO of kernel.config, the devices with a queue
  Algorithm,  \* ALGORITMO_PLANIFICACION of kernel.config
  MaxDegree,  \* GRADO_MAX_MULTIPROGRAMACION of kernel.config
  Returns,    \* the interrupt types the programs of this run can come back with
  MaxBursts,  \* bound: how often a process comes back from the CPU unfinished
  IoThreads,  \* bound: the threads of block_state that may exist at a time
  NoPcb

Interrupts == {"INT_QUANTUM", "INT_IO", "INT_CONSOLA", "INT_PAGE_FAULT",
               "EXECUTION_FINISHED", "SEGMENTATION_FAULT"}

Kernel  == {"main", "sched", "page_fault"}
Threads == Kernel \cup Devices \cup IoThreads
Wakers  == Threads \ {"main"}          \* they run ready_state_from_*

(* The queues of pcbs: those all threads share, the io_queues (whose       *)
(* io_semaphores always count their elements) and the page faults that     *)
(* memoria has not answered yet.                                           *)
Shared == {"new", "ready_1", "ready_2"}
Queues == Shared \cup Devices \cup {"faults"}

ASSUME SchedulerAssumption ==
  /\ Algorithm \in {"FIFO", "RR", "FEEDBACK"}
  /\ MaxDegree \in Nat
  /\ MaxBursts \in Nat
  /\ Returns \subseteq Interrupts
  /\ IsFiniteSet(Pids) /\ IsFiniteSet(Devices) /\ IsFiniteSet(IoThreads)
  /\ NoPcb \notin Pids
  /\ Devices \cap (Kernel \cup Shared \cup {"faults"}) = {}
  /\ IoThreads \cap (Kernel \cup Devices) = {}

VARIABLES
  queue,        \* the pcbs in each of Queues
  can_execute,  \* the semaphore
  pc,           \* where each thread is
  hold,         \* the pcb a thread has in its hands, in no queue
  qn,           \* the queue a thread is working on
  idx,          \* the counter i of log_ready
  consola,      \* what the kernel last told the console of each process
  bursts,       \* how often each process came back from the CPU
  kernel        \* "down" once the kernel used a pcb that is not there

vars == <<queue, can_execute, pc, hold, qn, idx, consola, bursts, kernel>>

LogSteps == {"log_check", "log_pop", "log_push", "post"}
Labels   == LogSteps \cup {"idle", "check", "push", "pop", "recv_pcb"}

Init ==
  /\ queue = [q \in Queues |-> << >>]
  /\ can_execute = 0
  /\ pc = [t \in Threads |-> "idle"]
  /\ hold = [t \in Threads |-> NoPcb]
  /\ qn = [t \in Threads |-> "ready_1"]
  /\ idx = [t \in Threads |-> 0]
  /\ consola = [p \in Pids |-> "none"]
  /\ bursts = [p \in Pids |-> 0]
  /\ kernel = "up"

-----------------------------------------------------------------------------
(* Helpers.                                                                *)

Goto(t, label) == pc' = [pc EXCEPT ![t] = label]
Take(t, p)     == hold' = [hold EXCEPT ![t] = p]
Release(t)     == hold' = [hold EXCEPT ![t] = NoPcb]
Push(q, p)     == queue' = [queue EXCEPT ![q] = Append(@, p)]
Pop(q)         == queue' = [queue EXCEPT ![q] = Tail(@)]

(* queue_pop of an empty queue, or a pcb pointer that was never assigned:  *)
(* what follows is undefined and the model ends there.                     *)
Crash == kernel' = "down"

Running(p) == consola[p] = "running"

processes == <<consola, bursts>>

-----------------------------------------------------------------------------
(* Thread main: accept, create_process and new_state.                      *)

(* A console connects; memoria builds the page tables of its process.      *)
CreateProcess(p) ==
  /\ pc["main"] = "idle"
  /\ consola[p] = "none"
  /\ consola' = [consola EXCEPT ![p] = "running"]
  /\ Take("main", p)
  /\ Goto("main", "check")
  /\ UNCHANGED <<queue, can_execute, qn, idx, bursts, kernel>>

(* if(queue_size(ready_1_queue) < max_degree_multiprogramming)             *)
NewStateCheck ==
  /\ pc["main"] = "check"
  /\ qn' = [qn EXCEPT !["main"] =
              IF Len(queue["ready_1"]) < MaxDegree THEN "ready_1" ELSE "new"]
  /\ Goto("main", "push")
  /\ UNCHANGED <<queue, can_execute, hold, idx, kernel, processes>>

NewStatePush ==
  /\ pc["main"] = "push"
  /\ Push(qn["main"], hold["main"])
  /\ Release("main")
  /\ Goto("main", "post")
  /\ UNCHANGED <<can_execute, qn, idx, kernel, processes>>

-----------------------------------------------------------------------------
(* ready_state_from_quantum, _io and _page_fault: push, log_ready, post.   *)

(* Mutant: a process that returns while READY is full goes back to NEW.    *)
ReadyQueueWithDegree(t) ==
  IF Len(queue["ready_1"]) >= MaxDegree THEN "new" ELSE "ready_1"

ReadyQueue(t) ==
  IF t = "sched" /\ Algorithm = "FEEDBACK" THEN "ready_2" ELSE "ready_1"

ReadyPush(t) ==
  /\ t \in Wakers
  /\ pc[t] = "push"
  /\ Push(ReadyQueue(t), hold[t])
  /\ Release(t)
  /\ Goto(t, "log_check")
  /\ qn' = [qn EXCEPT ![t] = "ready_1"]
  /\ idx' = [idx EXCEPT ![t] = 0]
  /\ UNCHANGED <<can_execute, kernel, processes>>

(* i < queue_size(...), and under FEEDBACK the second loop after the first *)
LogMore(t) ==
  /\ pc[t] = "log_check"
  /\ idx[t] < Len(queue[qn[t]])
  /\ Goto(t, "log_pop")
  /\ UNCHANGED <<queue, can_execute, hold, qn, idx, kernel, processes>>

(* Mutant: ready_state_from_page_fault without its sem_post.               *)
LogEndNoPost(t) ==
  /\ pc[t] = "log_check"
  /\ idx[t] >= Len(queue[qn[t]])
  /\ idx' = [idx EXCEPT ![t] = 0]
  /\ IF Algorithm = "FEEDBACK" /\ qn[t] = "ready_1"
       THEN qn' = [qn EXCEPT ![t] = "ready_2"] /\ pc' = pc
       ELSE qn' = qn /\ Goto(t, IF t = "page_fault" THEN "idle" ELSE "post")
  /\ UNCHANGED <<queue, can_execute, hold, kernel, processes>>

LogEnd(t) ==
  /\ pc[t] = "log_check"
  /\ idx[t] >= Len(queue[qn[t]])
  /\ idx' = [idx EXCEPT ![t] = 0]
  /\ IF Algorithm = "FEEDBACK" /\ qn[t] = "ready_1"
       THEN qn' = [qn EXCEPT ![t] = "ready_2"] /\ pc' = pc
       ELSE qn' = qn /\ Goto(t, "post")
  /\ UNCHANGED <<queue, can_execute, hold, kernel, processes>>

(* Mutant: log_ready reads the head of the queue (queue_peek) instead of   *)
(* taking it out.                                                          *)
LogPeek(t) ==
  /\ pc[t] = "log_pop"
  /\ queue[qn[t]] # << >>
  /\ Take(t, Head(queue[qn[t]]))
  /\ Goto(t, "log_push")
  /\ UNCHANGED <<queue, can_execute, qn, idx, kernel, processes>>

LogPop(t) ==
  /\ pc[t] = "log_pop"
  /\ queue[qn[t]] # << >>
  /\ Take(t, Head(queue[qn[t]]))
  /\ Pop(qn[t])
  /\ Goto(t, "log_push")
  /\ UNCHANGED <<can_execute, qn, idx, kernel, processes>>

LogPush(t) ==
  /\ pc[t] = "log_push"
  /\ Push(qn[t], hold[t])
  /\ Release(t)
  /\ idx' = [idx EXCEPT ![t] = @ + 1]
  /\ Goto(t, "log_check")
  /\ UNCHANGED <<can_execute, qn, kernel, processes>>

(* sem_post(&can_execute), the last step of new_state and ready_state_*.   *)
Post(t) ==
  /\ pc[t] = "post"
  /\ can_execute' = can_execute + 1
  /\ qn' = [qn EXCEPT ![t] = "ready_1"]
  /\ Goto(t, "idle")
  /\ UNCHANGED <<queue, hold, idx, kernel, processes>>

-----------------------------------------------------------------------------
(* Thread sched: execute_algorithm.                                        *)

SemWait ==
  /\ pc["sched"] = "idle"
  /\ can_execute > 0
  /\ can_execute' = can_execute - 1
  /\ qn' = [qn EXCEPT !["sched"] = "ready_1"]
  /\ Goto("sched", "check")
  /\ UNCHANGED <<queue, hold, idx, kernel, processes>>

(* The queue the if / else if chain looks at after q.                      *)
NextQueue(q) ==
  IF q = "ready_1" /\ Algorithm = "FEEDBACK" THEN "ready_2" ELSE "new"

CheckFound ==
  /\ pc["sched"] = "check"
  /\ queue[qn["sched"]] # << >>
  /\ Goto("sched", "pop")
  /\ UNCHANGED <<queue, can_execute, hold, qn, idx, kernel, processes>>

CheckNext ==
  /\ pc["sched"] = "check"
  /\ queue[qn["sched"]] = << >>
  /\ qn["sched"] # "new"
  /\ qn' = [qn EXCEPT !["sched"] = NextQueue(qn["sched"])]
  /\ UNCHANGED <<queue, can_execute, pc, hold, idx, kernel, processes>>

(* Every queue_size was 0: send_pcb is called with pcb uninitialized.      *)
CheckNoPcb ==
  /\ pc["sched"] = "check"
  /\ queue[qn["sched"]] = << >>
  /\ qn["sched"] = "new"
  /\ Crash
  /\ UNCHANGED <<queue, can_execute, pc, hold, qn, idx, processes>>

(* queue_pop and send_pcb to the CPU.                                      *)
Dispatch ==
  /\ pc["sched"] = "pop"
  /\ queue[qn["sched"]] # << >>
  /\ Take("sched", Head(queue[qn["sched"]]))
  /\ Pop(qn["sched"])
  /\ qn' = [qn EXCEPT !["sched"] = "ready_1"]
  /\ Goto("sched", "recv_pcb")
  /\ UNCHANGED <<can_execute, idx, kernel, processes>>

(* queue_pop of a queue that became empty after its size was read.         *)
PopEmpty(t) ==
  /\ pc[t] \in {"pop", "log_pop"}
  /\ queue[qn[t]] = << >>
  /\ Crash
  /\ UNCHANGED <<queue, can_execute, pc, hold, qn, idx, processes>>

-----------------------------------------------------------------------------
(* Thread sched: wait_cpu_dispatch, the pcb comes back from the CPU.       *)

Received(interrupt) ==
  /\ pc["sched"] = "recv_pcb"
  /\ interrupt \in Returns

(* An unfinished process is counted; programs are finite lists of          *)
(* instructions without jumps, so it comes back a bounded number of times. *)
Unfinished(p) ==
  /\ bursts[p] < MaxBursts
  /\ bursts' = [bursts EXCEPT ![p] = @ + 1]

(* EXECUTION_FINISHED: memoria is told, and then the console.              *)
RecvFinished ==
  /\ Received("EXECUTION_FINISHED")
  /\ consola' = [consola EXCEPT ![hold["sched"]] = "PROCESS_FINISHED"]
  /\ Release("sched")
  /\ Goto("sched", "idle")
  /\ UNCHANGED <<queue, can_execute, qn, idx, bursts, kernel>>

(* SEGMENTATION_FAULT: only the console is told.                           *)
RecvSegFault ==
  /\ Received("SEGMENTATION_FAULT")
  /\ consola' = [consola EXCEPT ![hold["sched"]] = "SEG_FAULT"]
  /\ Release("sched")
  /\ Goto("sched", "idle")
  /\ UNCHANGED <<queue, can_execute, qn, idx, bursts, kernel>>

(* INT_QUANTUM: ready_state_from_quantum runs in this same thread.  Under  *)
(* FIFO no thread ever sends the CPU an interrupt.                         *)
RecvQuantum ==
  /\ Received("INT_QUANTUM")
  /\ Algorithm # "FIFO"
  /\ Unfinished(hold["sched"])
  /\ Goto("sched", "push")
  /\ UNCHANGED <<queue, can_execute, hold, qn, idx, consola,
                 kernel>>

(* INT_IO on a device with a queue: queue_push and sem_post(io_sem).       *)
RecvIo(d) ==
  /\ Received("INT_IO")
  /\ Unfinished(hold["sched"])
  /\ Push(d, hold["sched"])
  /\ Release("sched")
  /\ Goto("sched", "idle")
  /\ UNCHANGED <<can_execute, qn, idx, consola, kernel>>

(* INT_IO on TECLADO or PANTALLA: block_state creates a thread that keeps  *)
(* the pcb until the console has answered.  The thread of an earlier       *)
(* request of the same process may still be printing the queues.           *)
RecvConsola(t) ==
  /\ Received("INT_CONSOLA")
  /\ Unfinished(hold["sched"])
  /\ pc[t] = "idle"
  /\ hold' = [hold EXCEPT ![t] = hold["sched"], !["sched"] = NoPcb]
  /\ pc' = [pc EXCEPT ![t] = "push", !["sched"] = "idle"]
  /\ UNCHANGED <<queue, can_execute, qn, idx, consola, kernel>>

(* INT_PAGE_FAULT: memoria is asked to resolve it, nobody waits here.      *)
RecvPageFault ==
  /\ Received("INT_PAGE_FAULT")
  /\ Unfinished(hold["sched"])
  /\ Push("faults", hold["sched"])
  /\ Release("sched")
  /\ Goto("sched", "idle")
  /\ UNCHANGED <<can_execute, qn, idx, consola, kernel>>

-----------------------------------------------------------------------------
(* handle_io takes the next request of its device, usleep, then readies it *)
IoTake(d) ==
  /\ pc[d] = "idle"
  /\ queue[d] # << >>
  /\ Take(d, Head(queue[d]))
  /\ Pop(d)
  /\ Goto(d, "push")
  /\ UNCHANGED <<can_execute, qn, idx, kernel, processes>>

(* Mutant: handle_page_fault posts, and then ready_state_from_page_fault   *)
(* does too.                                                               *)
PageFaultResolvedPosts ==
  /\ pc["page_fault"] = "idle"
  /\ queue["faults"] # << >>
  /\ Take("page_fault", Head(queue["faults"]))
  /\ Pop("faults")
  /\ Goto("page_fault", "push")
  /\ can_execute' = can_execute + 1
  /\ UNCHANGED <<qn, idx, kernel, processes>>

(* handle_page_fault receives PAGE_FAULT_RESOLVED; memoria answers in order *)
PageFaultResolved ==
  /\ pc["page_fault"] = "idle"
  /\ queue["faults"] # << >>
  /\ Take("page_fault", Head(queue["faults"]))
  /\ Pop("faults")
  /\ Goto("page_fault", "push")
  /\ UNCHANGED <<can_execute, qn, idx, kernel, processes>>

-----------------------------------------------------------------------------
Main == NewStateCheck \/ NewStatePush \/ Post("main")

ReadyState(t) ==
  ReadyPush(t) \/ LogMore(t) \/ LogEnd(t) \/ LogPop(t) \/ LogPush(t) \/ Post(t)

Receive ==
  \/ RecvFinished
  \/ RecvSegFault
  \/ RecvQuantum
  \/ \E d \in Devices : RecvIo(d)
  \/ \E t \in IoThreads : RecvConsola(t)
  \/ RecvPageFault

Sched ==
  \/ SemWait
  \/ CheckFound
  \/ CheckNext
  \/ CheckNoPcb
  \/ Dispatch
  \/ Receive

Next ==
  /\ kernel = "up"
  /\ \/ \E p \in Pids : CreateProcess(p)
     \/ Main
     \/ Sched
     \/ \E t \in Wakers : ReadyState(t)
     \/ \E t \in Threads : PopEmpty(t)
     \/ \E d \in Devices : IoTake(d)
     \/ PageFaultResolved

Spec == Init /\ [][Next]_vars

(* Every thread of the kernel that can run is eventually run, the CPU      *)
(* returns the pcb it was given (programs are finite), and memoria, the    *)
(* devices and the consoles answer.  No console is obliged to connect.     *)
Fairness ==
  /\ WF_vars(kernel = "up" /\ Main)
  /\ WF_vars(kernel = "up" /\ (Sched \/ PopEmpty("sched")))
  /\ \A t \in Wakers : WF_vars(kernel = "up" /\ (ReadyState(t) \/ PopEmpty(t)))
  /\ \A d \in Devices : WF_vars(kernel = "up" /\ IoTake(d))
  /\ WF_vars(kernel = "up" /\ PageFaultResolved)

FairSpec == Spec /\ Fairness
-----------------------------------------------------------------------------
(* Properties.                                                             *)

Types ==
  /\ queue \in [Queues -> Seq(Pids)]
  /\ can_execute \in Nat
  /\ pc \in [Threads -> Labels]
  /\ hold \in [Threads -> Pids \cup {NoPcb}]
  /\ qn \in [Threads -> Shared]
  /\ idx \in [Threads -> Nat]
  /\ consola \in [Pids -> {"none", "running", "PROCESS_FINISHED", "SEG_FAULT"}]
  /\ bursts \in [Pids -> 0..MaxBursts]
  /\ kernel \in {"up", "down"}

(* The shape of the state: queues hold processes, and the semaphore is     *)
(* never negative nor above the number of processes, whichever threads     *)
(* have posted since the scheduler last waited on it.                      *)
TypeOK == Types /\ can_execute <= Cardinality(Pids)

(* Where the kernel has a process: in which queues and in the hands of     *)
(* which threads.                                                          *)
At(p) ==
  {<<"queue", q>> : q \in {r \in Queues : p \in ToSet(queue[r])}}
    \cup {<<"hold", t>> : t \in {u \in Threads : hold[u] = p}}

(* No process is lost and none is duplicated, although every thread pops   *)
(* and pushes the shared queues without a mutex and log_ready takes every  *)
(* pcb out of its queue to print it: a process that has not ended is in    *)
(* exactly one place, once, and an ended one is nowhere.                   *)
OnePlace ==
  /\ \A p \in Pids : IF Running(p) THEN \E x \in At(p) : At(p) = {x} ELSE At(p) = {}
  /\ \A q \in Queues : IsInjective(queue[q])

(* The processes the semaphore counts: queued in NEW or READY, or taken    *)
(* out of a READY queue by a log_ready that has not put it back yet.       *)
Queued(p)  == \E q \in Shared : p \in ToSet(queue[q])
Printed(p) == \E t \in Threads : hold[t] = p /\ pc[t] = "log_push"
Waiting    == {p \in Pids : Queued(p) \/ Printed(p)}

(* The threads that have queued a process and have not done sem_post yet.  *)
Unposted == {t \in Threads : pc[t] \in LogSteps}

(* 1 while the scheduler has a permit and has not taken a process for it.  *)
Seeking == IF pc["sched"] \in {"check", "pop"} THEN 1 ELSE 0

(* The semaphore never loses a permit and never has one too many: permits, *)
(* in the semaphore, in the scheduler's hands or still to be posted, are   *)
(* as many as the processes that wait to execute, in every interleaving.   *)
PermitsMatch ==
  can_execute + Seeking + Cardinality(Unposted) = Cardinality(Waiting)

(* "Esperando a que llegue un proceso en READY o NEW..." (scheduller.c:301): *)
(* once sem_wait returns one of the queues execute_algorithm tests, one    *)
(* after another, has a process for it, although other threads take each   *)
(* process out of its queue and put it back meanwhile.                     *)
PcbIsAssigned == [][~ CheckNoPcb]_vars

(* Nor does a queue_pop, of the scheduler or of log_ready, ever find its   *)
(* queue empty.                                                            *)
PcbAlwaysThere == kernel = "up"

(* The state of a process in the diagram of ProcessStates.                 *)
State(p) ==
  CASE consola[p] = "none"     -> "none"
    [] consola[p] \in {"PROCESS_FINISHED", "SEG_FAULT"} -> "EXIT"
    [] \/ p \in ToSet(queue["new"])
       \/ hold["main"] = p     -> "NEW"
    [] \/ p \in ToSet(queue["ready_1"]) \cup ToSet(queue["ready_2"])
       \/ Printed(p)           -> "READY"
    [] hold["sched"] = p /\ pc["sched"] # "log_push" -> "EXECUTE"
    [] OTHER                   -> "BLOCKED"

(* Every step of every thread moves at most one process, along an arrow of *)
(* the state diagram the log reports, and at most one is in EXECUTE.       *)
Diagram == INSTANCE ProcessStates WITH state <- [p \in Pids |-> State(p)]
ImplementsDiagram == Diagram!Spec

(* Every process is eventually over and its console told so: no process is *)
(* forgotten in a queue, no permit is missing for it, and no thread waits  *)
(* for ever; unless the kernel stops, which PcbAlwaysThere is about.       *)
ProcessEnds ==
  \A p \in Pids :
    Running(p) ~> consola[p] \in {"PROCESS_FINISHED", "SEG_FAULT"} \/ kernel = "down"
=============================================================================
