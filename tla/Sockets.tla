------------------------------- MODULE Sockets -------------------------------
(***************************************************************************)
(* The four modules and what they say to each other: a console sends its   *)
(* program, the main thread of the kernel has memoria create its page      *)
(* tables, the scheduler sends its pcb to the CPU and, when it is back, to *)
(* memoria or to its console.  A socket is a stream of fields: a message   *)
(* is sent whole, and a thread that is the only reader of a socket takes   *)
(* it whole; socket_memoria has two readers, and there every recv is a     *)
(* step.  A thread of the kernel that reads another op code than the one   *)
(* it expects ends the kernel.                                             *)
(*                                                                         *)
(* Which ready process is next is the subject of Scheduler, what the CPU   *)
(* does with a pcb the one of Cpu: here any process, and any interrupt.    *)
(***************************************************************************)
EXTENDS Parser, Serialization, FiniteSets

CONSTANTS
  Consolas,
  Listing,    \* the instructions of the program of each console
  Texts,      \* the ways its file may be written
  Segmentos,  \* SEGMENTOS of its consola.config
  Typed,      \* the numbers a user may write
  MaxBursts   \* bound: the bursts of a process before the one that ends it

(* A register is written as its number, and a device as a string.          *)
ParameterType ==
  [is_string : {TRUE}, parameter : STRING] \cup [is_string : {FALSE}, parameter : Int]
LineType == [instruction : STRING, parameters : Seq(ParameterType)]

(* However the file of a console is written, it is its program or none.    *)
ASSUME SocketsAssumption ==
  /\ IsFiniteSet(Consolas)
  /\ \A c \in Consolas :
       /\ Listing[c] \in Seq(LineType)
       /\ Segmentos[c] \in Seq(Nat)
       /\ \A text \in Texts[c] : Parse(text).ok => Parse(text).list = Listing[c]
  /\ Typed \subseteq Int
  /\ MaxBursts \in Nat

VARIABLES
  kernel,         \* "down" after exit(EXIT_FAILURE)
  consola,        \* where each console is
  backlog,        \* connections of consoles the kernel has not accepted
  to_kernel, to_consola,      \* the socket of each console, both directions
  main,           \* the main thread: where it is and the pcb it creates
  process_count,
  sched,          \* the scheduler: where it is and the pcb that finishes
  ready,          \* the pcbs in its queues
  io,             \* those blocked by TECLADO or PANTALLA
  to_cpu, from_cpu,           \* socket_cpu_dispatch
  to_memoria, from_memoria,   \* socket_memoria
  page_fault,                 \* socket_memoria_page_fault
  page_tables,    \* of memoria, in the order of their indices
  left            \* history: id, counter and registers of its process

memoria  == <<to_memoria, from_memoria, page_fault, page_tables>>
dispatch == <<to_cpu, from_cpu>>
consolas == <<consola, to_kernel, to_consola>>
queues   == <<ready, io>>
vars == <<kernel, consolas, backlog, main, process_count, sched, queues, dispatch,
          memoria, left>>

(* Bits of the pcbs.                                                       *)
NewRegisters == <<0, 0, 0, 0>>
AX == 1   \* the register of TECLADO and PANTALLA here
At(pcb) == [id |-> pcb.id, program_counter |-> pcb.program_counter, registers |-> pcb.registers]

Init ==
  /\ kernel = "up"
  /\ consola = [c \in Consolas |-> "start"]
  /\ backlog = << >>
  /\ to_kernel = [c \in Consolas |-> << >>] /\ to_consola = [c \in Consolas |-> << >>]
  /\ main = [at |-> "accept"] /\ process_count = 0
  /\ sched = [at |-> "execute_algorithm"]
  /\ ready = {} /\ io = {}
  /\ to_cpu = << >> /\ from_cpu = << >>
  /\ to_memoria = << >> /\ from_memoria = << >> /\ page_fault = << >>
  /\ page_tables = << >>
  /\ left = [c \in Consolas |-> << >>]

Send(socket, c, message) == [socket EXCEPT ![c] = @ \o message]

-----------------------------------------------------------------------------
(* A console.                                                              *)

(* parse, and the program and the segments to the kernel                   *)
ConsolaStart(c) ==
  /\ consola[c] = "start"
  /\ \E text \in Texts[c] :
       LET parsed == Parse(text)
       IN IF parsed.ok
          THEN /\ consola' = [consola EXCEPT ![c] = "waiting"]
               /\ backlog' = Append(backlog, c)
               /\ to_kernel' = Send(to_kernel, c, AddInstructions(parsed.list)
                                                    \o AddSegments(Segmentos[c]))
          ELSE /\ consola' = [consola EXCEPT ![c] = "failed"]
               /\ UNCHANGED <<backlog, to_kernel>>
  /\ UNCHANGED <<kernel, to_consola, main, process_count, sched, queues, dispatch,
                 memoria, left>>

(* Its loop: the message is of n fields, the first one its op code.        *)
ConsolaRecv(c, op, n) ==
  /\ consola[c] = "waiting" /\ to_consola[c] # << >> /\ Head(to_consola[c]) = op
  /\ to_consola' = [to_consola EXCEPT ![c] = SubSeq(@, n + 1, Len(@))]
  /\ UNCHANGED <<kernel, backlog, main, process_count, sched, queues, dispatch, memoria>>

ConsolaTeclado(c) ==
  /\ ConsolaRecv(c, TECLADO, 1)
  /\ \E teclado \in Typed :
       /\ to_kernel' = Send(to_kernel, c, <<TECLADO, teclado>>)
       /\ left' = [left EXCEPT ![c].registers[AX] = teclado]
  /\ UNCHANGED consola

ConsolaPantalla(c) ==
  /\ ConsolaRecv(c, PANTALLA, 2)
  /\ to_kernel' = Send(to_kernel, c, <<PANTALLA>>)
  /\ UNCHANGED <<consola, left>>

ConsolaSegFault(c) ==
  /\ ConsolaRecv(c, SEG_FAULT, 1)
  /\ consola' = [consola EXCEPT ![c] = "killed"]
  /\ UNCHANGED <<to_kernel, left>>

ConsolaExit(c) ==
  /\ ConsolaRecv(c, PROCESS_FINISHED, 1)
  /\ consola' = [consola EXCEPT ![c] = "ended"]
  /\ UNCHANGED <<to_kernel, left>>

-----------------------------------------------------------------------------
(* Memoria: handle_kernel, one request and its answer.  What becomes of    *)
(* the frames is the subject of Memoria.                                   *)

Requested(op) == to_memoria # << >> /\ Head(to_memoria) = op
HandleKernel ==
  UNCHANGED <<kernel, consolas, backlog, main, process_count, sched, queues, dispatch, left>>

ProcessStarted ==
  /\ Requested(PROCESS_STARTED)
  /\ \E sizes \in {RecvSegments(SubSeq(to_memoria, 3, Len(to_memoria)))} :
       LET pid == to_memoria[2]
           segment(k) == [size |-> sizes.value[k],
                          page_table_index |-> Len(page_tables) + k - 1]
       IN /\ to_memoria' = sizes.rest
          /\ page_tables' = page_tables
               \o [k \in DOMAIN sizes.value |-> [pid |-> pid, size |-> sizes.value[k],
                                                 freed |-> FALSE]]
          /\ from_memoria' = from_memoria \o <<PROCESS_STARTED>>
               \o AddSegmentTable([k \in DOMAIN sizes.value |-> segment(k)])
  /\ UNCHANGED page_fault /\ HandleKernel

ProcessFinished ==
  /\ Requested(PROCESS_FINISHED)
  /\ \E got \in {RecvPcb(Tail(to_memoria))} :
       LET table == got.value.segment_table
           indices == {table[k].page_table_index : k \in DOMAIN table}
       IN /\ to_memoria' = got.rest
          /\ page_tables' = [i \in DOMAIN page_tables |->
                               [page_tables[i] EXCEPT !.freed = @ \/ i - 1 \in indices]]
          /\ from_memoria' = Append(from_memoria, PROCESS_FINISHED)
  /\ UNCHANGED page_fault /\ HandleKernel

(* Mutant: the answer goes to socket_memoria.                              *)
ResolvePageFaultSameSocket ==
  /\ Requested(PAGE_FAULT)
  /\ \E got \in {RecvPcb(Tail(to_memoria))} :
       /\ to_memoria' = SubSeq(got.rest, 3, Len(got.rest))
       /\ from_memoria' = from_memoria \o <<PAGE_FAULT_RESOLVED>> \o AddPcb(got.value)
  /\ UNCHANGED <<page_fault, page_tables>> /\ HandleKernel

ResolvePageFault ==
  /\ Requested(PAGE_FAULT)
  /\ \E got \in {RecvPcb(Tail(to_memoria))} :
       /\ to_memoria' = SubSeq(got.rest, 3, Len(got.rest))
       /\ page_fault' = page_fault \o <<PAGE_FAULT_RESOLVED>> \o AddPcb(got.value)
  /\ UNCHANGED <<from_memoria, page_tables>> /\ HandleKernel

-----------------------------------------------------------------------------
(* The CPU: it takes the pcb and gives it back with an interrupt_type.     *)
(* What it executed is the subject of Cpu: here the counter counts the     *)
(* bursts, and BX shows that registers come back.                          *)
CpuBurst == to_cpu # << >> /\ \E got \in {RecvPcb(to_cpu)} :
  LET pcb == got.value
      back(type, pc, registers) ==
        [pcb EXCEPT !.interrupt_type = type, !.program_counter = pc, !.registers = registers]
      next == pcb.program_counter + 1
      Returns(p, extra) ==
        /\ from_cpu' = from_cpu \o AddPcb(p) \o extra
        /\ left' = [left EXCEPT ![pcb.socket_consola] = At(p)]
  IN /\ \/ Returns(back("EXECUTION_FINISHED", next, pcb.registers), << >>)
        \/ Returns(back("SEGMENTATION_FAULT", pcb.program_counter, pcb.registers), << >>)
        \/ /\ pcb.program_counter < MaxBursts
           /\ \/ Returns(back("INT_QUANTUM", next, [pcb.registers EXCEPT ![2] = next]), << >>)
              \/ Returns(back("INT_PAGE_FAULT", next, pcb.registers), <<0, 1>>)
              \/ \E device \in {"TECLADO", "PANTALLA"} :
                   Returns(back("INT_IO", next, pcb.registers), <<STRING_OP, device, AX>>)
     /\ to_cpu' = got.rest
     /\ UNCHANGED <<kernel, consolas, backlog, main, process_count, sched, queues, memoria>>
-----------------------------------------------------------------------------
(* The main thread of the kernel.                                          *)

(* ++process_count                                                         *)
(* Mutant: the count is not kept.                                          *)
NextPidOne == 1
NextPid == process_count + 1

(* accept, recv_instructions, recv_segments, and create_process up to the  *)
(* request to memoria; program_counter is 0 here (Cpu has the others).     *)
CreateProcess ==
  /\ kernel = "up" /\ main.at = "accept" /\ backlog # << >>
  /\ LET c == Head(backlog)
         instructions == RecvInstructions(to_kernel[c])
         segments == RecvSegments(Tail(instructions.rest))
         pid == NextPid
     IN /\ main' = [at |-> "recv_op",
                    pcb |-> [id |-> pid, interrupt_type |-> "NO_INTERRUPT",
                             program_counter |-> 0, registers |-> NewRegisters,
                             socket_consola |-> c, segment_table |-> << >>,
                             instructions |-> instructions.value]]
        /\ process_count' = pid
        /\ to_memoria' = to_memoria \o AddProcessStarted(pid, segments.value)
        /\ to_kernel' = [to_kernel EXCEPT ![c] = segments.rest]
        /\ left' = [left EXCEPT ![c] = At(main'.pcb)]
  /\ backlog' = Tail(backlog)
  /\ UNCHANGED <<kernel, consola, to_consola, sched, queues, dispatch,
                 from_memoria, page_fault, page_tables>>

(* One recv on socket_memoria, by either of its readers.                   *)
RecvFromMemoria ==
  /\ kernel = "up" /\ from_memoria # << >>
  /\ from_memoria' = Tail(from_memoria)
  /\ UNCHANGED <<consola, to_kernel, backlog, process_count, queues, dispatch, to_memoria,
                 page_fault, page_tables, left>>

MainRecv(at) ==
  /\ main.at = at
  /\ RecvFromMemoria
  /\ UNCHANGED <<sched, to_consola>>

(* recv_and_validate_op_code_is                                            *)
MainRecvOpCode ==
  /\ MainRecv("recv_op")
  /\ IF Head(from_memoria) = PROCESS_STARTED
     THEN main' = [main EXCEPT !.at = "recv_count"] /\ UNCHANGED kernel
     ELSE kernel' = "down" /\ UNCHANGED main

(* recv_segment_table                                                      *)
MainRecvCount ==
  /\ MainRecv("recv_count")
  /\ main' = [at |-> "recv_size", pcb |-> main.pcb, missing |-> Head(from_memoria)]
  /\ UNCHANGED kernel

MainRecvSize ==
  /\ main.at = "recv_size" /\ main.missing > 0
  /\ MainRecv("recv_size")
  /\ main' = [at |-> "recv_index", pcb |-> main.pcb, missing |-> main.missing,
              size |-> Head(from_memoria)]
  /\ UNCHANGED kernel

MainRecvIndex ==
  /\ MainRecv("recv_index")
  /\ main' = [at |-> "recv_size", missing |-> main.missing - 1,
              pcb |-> [main.pcb EXCEPT !.segment_table =
                         Append(@, [size |-> main.size,
                                    page_table_index |-> Head(from_memoria)])]]
  /\ UNCHANGED kernel

NewState ==
  /\ kernel = "up" /\ main.at = "recv_size" /\ main.missing = 0
  /\ ready' = ready \cup {main.pcb}
  /\ main' = [at |-> "accept"]
  /\ UNCHANGED <<kernel, consolas, backlog, process_count, sched, io, dispatch,
                 memoria, left>>

-----------------------------------------------------------------------------
(* The thread of the scheduler.                                            *)

ExecuteAlgorithm ==
  /\ kernel = "up" /\ sched.at = "execute_algorithm"
  /\ \E pcb \in ready : ready' = ready \ {pcb} /\ to_cpu' = to_cpu \o AddPcb(pcb)
  /\ sched' = [at |-> "recv_pcb"]
  /\ UNCHANGED <<kernel, consolas, backlog, main, process_count, io, from_cpu, memoria,
                 left>>

(* wait_cpu_dispatch: a pcb of some interrupt_type; more fields may follow *)
(* it.                                                                     *)
Returned(type, more) ==
  {got \in {RecvPcb(from_cpu)} : got.value.interrupt_type = type /\ Len(got.rest) >= more}
InWait == kernel = "up" /\ sched.at = "recv_pcb" /\ from_cpu # << >>
WaitCpuDispatch(got, more) ==
  /\ from_cpu' = SubSeq(got.rest, more + 1, Len(got.rest))
  /\ UNCHANGED <<kernel, consola, to_kernel, backlog, main, process_count, to_cpu,
                 from_memoria, page_fault, page_tables, left>>

(* Mutant: the console is told before memoria has freed the pages.         *)
ExecutionFinishedExitFirst ==
  InWait /\ \E got \in Returned("EXECUTION_FINISHED", 0) :
    /\ from_cpu' = got.rest
    /\ to_memoria' = to_memoria \o <<PROCESS_FINISHED>> \o AddPcb(got.value)
    /\ to_consola' = Send(to_consola, got.value.socket_consola, <<PROCESS_FINISHED>>)
    /\ sched' = [at |-> "execute_algorithm"]
    /\ UNCHANGED <<kernel, consola, to_kernel, backlog, main, process_count, queues, to_cpu,
                   from_memoria, page_fault, page_tables, left>>

ExecutionFinished ==
  InWait /\ \E got \in Returned("EXECUTION_FINISHED", 0) :
    /\ WaitCpuDispatch(got, 0)
    /\ to_memoria' = to_memoria \o <<PROCESS_FINISHED>> \o AddPcb(got.value)
    /\ sched' = [at |-> "recv_finished", pcb |-> got.value]
    /\ UNCHANGED <<to_consola, queues>>

(* The answer of memoria, and send_exit.                                   *)
SchedRecvFinished ==
  /\ sched.at = "recv_finished"
  /\ RecvFromMemoria
  /\ IF Head(from_memoria) = PROCESS_FINISHED
     THEN /\ to_consola' = Send(to_consola, sched.pcb.socket_consola, <<PROCESS_FINISHED>>)
          /\ sched' = [at |-> "execute_algorithm"]
          /\ UNCHANGED kernel
     ELSE kernel' = "down" /\ UNCHANGED <<sched, to_consola>>
  /\ UNCHANGED main

(* The scheduler takes a field of the answer main is reading, a count of   *)
(* segments, a size or an index that is 7, for the PROCESS_FINISHED it     *)
(* waits for.                                                              *)
InAnswer ==
  \/ main.at \in {"recv_count", "recv_index"}
  \/ main.at = "recv_size" /\ main.missing > 0
AnswerTaken == InAnswer /\ SchedRecvFinished /\ Head(from_memoria) = PROCESS_FINISHED

ReadyStateFromQuantum ==
  InWait /\ \E got \in Returned("INT_QUANTUM", 0) :
    /\ WaitCpuDispatch(got, 0)
    /\ ready' = ready \cup {got.value}
    /\ sched' = [at |-> "execute_algorithm"]
    /\ UNCHANGED <<to_consola, io, to_memoria>>

(* recv_string, recv_int and block_state                                   *)
BlockState ==
  InWait /\ \E got \in Returned("INT_IO", 3) :
    /\ WaitCpuDispatch(got, 3)
    /\ io' = io \cup {[pcb |-> got.value, device |-> got.rest[2], arg |-> got.rest[3],
                       asked |-> FALSE]}
    /\ sched' = [at |-> "execute_algorithm"]
    /\ UNCHANGED <<to_consola, ready, to_memoria>>

SendPageFaultResolve ==
  InWait /\ \E got \in Returned("INT_PAGE_FAULT", 2) :
    /\ WaitCpuDispatch(got, 2)
    /\ to_memoria' = to_memoria \o <<PAGE_FAULT>> \o AddPcb(got.value)
                       \o SubSeq(got.rest, 1, 2)
    /\ sched' = [at |-> "execute_algorithm"]
    /\ UNCHANGED <<to_consola, queues>>

SendSegmentationFault ==
  InWait /\ \E got \in Returned("SEGMENTATION_FAULT", 0) :
    /\ WaitCpuDispatch(got, 0)
    /\ to_consola' = Send(to_consola, got.value.socket_consola, <<SEG_FAULT>>)
    /\ sched' = [at |-> "execute_algorithm"]
    /\ UNCHANGED <<queues, to_memoria>>

-----------------------------------------------------------------------------
(* The threads that handle teclado, pantalla and the page faults.          *)

KernelThread ==
  UNCHANGED <<consola, backlog, main, process_count, sched, dispatch, to_memoria,
              from_memoria, page_tables, left>>

Message(b) ==
  IF b.device = "TECLADO" THEN <<TECLADO>> ELSE <<PANTALLA, b.pcb.registers[b.arg]>>

(* send_teclado or send_pantalla                                           *)
AskConsola(b) ==
  /\ kernel = "up" /\ ~ b.asked
  /\ to_consola' = Send(to_consola, b.pcb.socket_consola, Message(b))
  /\ io' = (io \ {b}) \cup {[b EXCEPT !.asked = TRUE]}
  /\ KernelThread /\ UNCHANGED <<kernel, to_kernel, ready, page_fault>>

(* recv_and_validate_op_code_is, for teclado the value too, and            *)
(* ready_state_from_io                                                     *)
RecvAnswer(b) ==
  LET socket == b.pcb.socket_consola
      answer == to_kernel[socket]
      Unblock(pcb, n) ==
        /\ to_kernel' = [to_kernel EXCEPT ![socket] = SubSeq(@, n + 1, Len(@))]
        /\ io' = io \ {b} /\ ready' = ready \cup {pcb}
        /\ UNCHANGED kernel
  IN /\ kernel = "up" /\ b.asked /\ answer # << >>
     /\ CASE Head(answer) = TECLADO /\ b.device = "TECLADO" ->
               Unblock([b.pcb EXCEPT !.registers[b.arg] = answer[2]], 2)
          [] Head(answer) = PANTALLA /\ b.device = "PANTALLA" -> Unblock(b.pcb, 1)
          [] OTHER -> kernel' = "down" /\ UNCHANGED <<to_kernel, io, ready>>
     /\ KernelThread /\ UNCHANGED <<to_consola, page_fault>>

HandlePageFault ==
  /\ kernel = "up" /\ page_fault # << >>
  /\ IF Head(page_fault) = PAGE_FAULT_RESOLVED
     THEN \E got \in {RecvPcb(Tail(page_fault))} :
            /\ page_fault' = got.rest
            /\ ready' = ready \cup {got.value}
            /\ UNCHANGED kernel
     ELSE kernel' = "down" /\ UNCHANGED <<page_fault, ready>>
  /\ KernelThread /\ UNCHANGED <<to_kernel, to_consola, io>>
-----------------------------------------------------------------------------
ConsolaCycle(c) ==
  ConsolaTeclado(c) \/ ConsolaPantalla(c) \/ ConsolaSegFault(c) \/ ConsolaExit(c)

MemoriaMain == ProcessStarted \/ ProcessFinished \/ ResolvePageFault

Main ==
  \/ CreateProcess
  \/ MainRecvOpCode
  \/ MainRecvCount
  \/ MainRecvSize
  \/ MainRecvIndex
  \/ NewState

Schedulling ==
  \/ ExecuteAlgorithm
  \/ ExecutionFinished
  \/ SchedRecvFinished
  \/ ReadyStateFromQuantum
  \/ BlockState
  \/ SendPageFaultResolve
  \/ SendSegmentationFault

HandleIo(c) == \E b \in io : b.pcb.socket_consola = c /\ (AskConsola(b) \/ RecvAnswer(b))

Next ==
  \/ \E c \in Consolas : ConsolaStart(c) \/ ConsolaCycle(c) \/ HandleIo(c)
  \/ MemoriaMain
  \/ CpuBurst
  \/ Main
  \/ Schedulling
  \/ HandlePageFault

Spec == Init /\ [][Next]_vars
-----------------------------------------------------------------------------
(* Properties.                                                             *)

(* The pcbs the kernel has.                                                *)
Finishing == IF sched.at = "recv_finished" THEN {sched.pcb} ELSE {}
Blocked == {b.pcb : b \in io}
Held == ready \cup Blocked \cup Finishing

(* No process is twice in the kernel, no two have the same console, and a  *)
(* console is only sent what its loop handles.                             *)
SocketsTypeOK ==
  /\ kernel \in {"up", "down"}
  /\ consola \in [Consolas -> {"start", "failed", "waiting", "ended", "killed"}]
  /\ process_count \in 0 .. Cardinality(Consolas)
  /\ \A pcb \in Held :
       /\ pcb.id \in 1 .. process_count
       /\ \A other \in Held :
            pcb.id = other.id \/ pcb.socket_consola = other.socket_consola => pcb = other
  /\ \A c \in Consolas : to_consola[c] # << >> =>
       Head(to_consola[c]) \in {TECLADO, PANTALLA, SEG_FAULT, PROCESS_FINISHED}

(* A pcb that is ready or finishes is the process its console asked for:   *)
(* the instructions of its file however it is spaced, the segments of its  *)
(* config with page tables of its own, and the counter and the registers   *)
(* the CPU or the user of that console left.  It has been through five     *)
(* sockets, and socket_memoria had another reader: this holds until that   *)
(* reader takes a 7 of the answer for its own (AnswerTaken), which takes a *)
(* segment of 7 bytes, 7 segments or an eighth page table.                 *)
TableOf(segment) == page_tables[segment.page_table_index + 1]
PcbIsWhole ==
  \A pcb \in ready \cup Finishing :
    LET c == pcb.socket_consola
        table == pcb.segment_table
    IN /\ At(pcb) = left[c]
       /\ pcb.instructions = Listing[c]
       /\ [k \in DOMAIN table |-> table[k].size] = Segmentos[c]
       /\ \A k \in DOMAIN table :
            /\ TableOf(table[k]).pid = pcb.id
            /\ TableOf(table[k]).size = table[k].size
            /\ \A j \in DOMAIN table : table[j].page_table_index = table[k].page_table_index
                 => j = k

(* A console that is told its program ended has no pages left in memoria,  *)
(* and no pages are freed of a process that will run again.                *)
FreedBeforeExit ==
  \A i \in DOMAIN page_tables : \A c \in Consolas :
    LET table == page_tables[i]
        of_c == left[c] # << >> /\ left[c].id = table.pid
        told == to_consola[c] # << >> /\ Head(to_consola[c]) = PROCESS_FINISHED
    IN of_c =>
         /\ told \/ consola[c] = "ended" => table.freed
         /\ table.freed =>
              /\ consola[c] \in {"waiting", "ended"}
              /\ \A pcb \in ready \cup Blocked : pcb.id # table.pid

(* A console whose program was sent is told how it ended, or the kernel    *)
(* has exited.                                                             *)
ConsolaEnds ==
  \A c \in Consolas :
    consola[c] = "waiting" ~> consola[c] \in {"ended", "killed"} \/ kernel = "down"

(* What recv_and_validate_op_code_is demands: the op code that arrives is  *)
(* the one its reader expects (serialization.c:19).                        *)
OpCodeExpected == kernel = "up"
=============================================================================
