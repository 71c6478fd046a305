--------------------------------- MODULE Cpu ---------------------------------
(***************************************************************************)
(* The instruction cycle with the instructions it executes, and the pcbs   *)
(* that carry the state of each program between kernel and CPU.  Quantum   *)
(* says when a pcb travels, when the quantum interrupts it and how the     *)
(* cycle ends a burst; every action here is one of Quantum plus what it    *)
(* does to the pcbs, or one of the threads of the kernel that finish an    *)
(* I/O or a page fault.  Which ready process is dispatched is the subject  *)
(* of Scheduler: here it is any of them.                                   *)
(*                                                                         *)
(* Memoria is seen from the CPU: a MOV finds its page or faults, and a     *)
(* cell reads as it was last written (MemoriaData shows where swap breaks  *)
(* that).  The TLB is off, ENTRADAS_TLB = 0 (CpuTlb models it).            *)
(***************************************************************************)
EXTENDS Quantum, Addresses

CONSTANTS
  Pids,
  Program,    \* instructions of each process, in the order of its list
  Segments,   \* sizes of its segments
  Registers,  \* AX, BX, CX, DX
  WordSize,   \* 2^32: the registers are uint32_t
  Typed,      \* what a user may answer to TECLADO
  Starts,     \* what malloc may leave in program_counter
  Unwritten   \* the value of a cell no MOV_OUT has written

VARIABLES
  pcbs,       \* the pcb of each process, as the kernel last had it
  place,      \* where the kernel has the process
  asked,      \* what came with its pcb: device and argument, or segment and page
  wire,       \* the last message on socket_cpu_dispatch
  cpu_pcb,    \* the pcb of the cycle
  device_io,  \* its device and io_value
  pf,         \* pf_segment and pf_page
  memory,     \* cells of each process by segment, page and offset
  shown,      \* what the console of each process printed for PANTALLA
  cpu_module  \* "down" once the CPU dereferenced NULL

kernel_side == <<pcbs, place, asked, shown>>
cpu_side    == <<cpu_pcb, device_io, pf, memory, cpu_module>>
cpuvars     == <<vars, kernel_side, wire, cpu_side>>

Words == 0 .. WordSize - 1
Movs == {"MOV_IN", "MOV_OUT"}
Nothing == << >>

(* mmu: the cell of an address                                             *)
Cell(dl) == <<SegmentNum(dl), PageNum(dl), PageOffset(dl)>>
MovAddresses(p) ==
  {Program[p][k].dl : k \in {i \in DOMAIN Program[p] : Program[p][i].type \in Movs}}
Cells(p) == {Cell(dl) : dl \in MovAddresses(p)}

(* What the console parsed: registers of the CPU, values of the width of a *)
(* register, addresses that are not negative.                              *)
InstructionOK(i) ==
  /\ i.type = "SET" => i.value \in Words
  /\ i.type = "ADD" => {i.reg, i.reg2} \subseteq Registers
  /\ i.type \in Movs => i.dl \in Nat

ASSUME CpuAssumption ==
  /\ WordSize \in Nat \ {0}
  /\ Typed \subseteq Words
  /\ Starts \subseteq Nat
  /\ \A p \in Pids :
       /\ Segments[p] \in Seq(Nat)
       /\ Len(Program[p]) \in Nat /\ DOMAIN Program[p] = 1 .. Len(Program[p])
       /\ \A k \in DOMAIN Program[p] : InstructionOK(Program[p][k])

(* create_process: program_counter is not initialized.                     *)
CpuInit ==
  /\ Init
  /\ \E start \in [Pids -> Starts] :
       pcbs = [p \in Pids |-> [id |-> p, program_counter |-> start[p],
                               registers |-> [r \in Registers |-> 0]]]
  /\ place = [p \in Pids |-> "ready"]
  /\ asked = [p \in Pids |-> Nothing]
  /\ wire = Nothing /\ cpu_pcb = Nothing
  /\ device_io = Nothing /\ pf = Nothing
  /\ memory = [p \in Pids |-> [c \in Cells(p) |-> Unwritten]]
  /\ shown = [p \in Pids |-> << >>]
  /\ cpu_module = "up"

-----------------------------------------------------------------------------
(* The kernel.                                                             *)

(* execute_algorithm sends the pcb of a ready process; interrupt_type goes *)
(* with it and the CPU resets it unread.                                   *)
CpuSendPcb(p) ==
  /\ SendPcb
  /\ place[p] = "ready"
  /\ place' = [place EXCEPT ![p] = "cpu"]
  /\ wire' = [pcb |-> pcbs[p], interrupt_type |-> "NO_INTERRUPT", extra |-> Nothing]
  /\ UNCHANGED <<pcbs, asked, shown, cpu_side>>

(* The threads whose state Quantum has.                                    *)
CpuCreateQuantum == CreateQuantum /\ UNCHANGED <<kernel_side, wire, cpu_side>>
CpuStartQuantum == StartQuantum /\ UNCHANGED <<kernel_side, wire, cpu_side>>

(* Mutant: no ready_state_from_quantum.                                    *)
PlaceAfterForgotten(type) ==
  CASE type = "EXECUTION_FINISHED" -> "exit"
    [] type = "INT_QUANTUM"        -> "cpu"
    [] type = "INT_IO"             -> "io"
    [] type = "INT_PAGE_FAULT"     -> "page_fault"
    [] type = "SEGMENTATION_FAULT" -> "killed"

(* wait_cpu_dispatch: where each interrupt_type takes the process.         *)
PlaceAfter(type) ==
  CASE type = "EXECUTION_FINISHED" -> "exit"
    [] type = "INT_QUANTUM"        -> "ready"
    [] type = "INT_IO"             -> "io"
    [] type = "INT_PAGE_FAULT"     -> "page_fault"
    [] type = "SEGMENTATION_FAULT" -> "killed"

(* The pcb it received replaces the one it sent; device and argument, or   *)
(* segment and page, follow when interrupt_type says so.                   *)
CpuWaitCpuDispatch ==
  /\ WaitCpuDispatch
  /\ LET p == wire.pcb.id
     IN /\ pcbs' = [pcbs EXCEPT ![p] = wire.pcb]
        /\ place' = [place EXCEPT ![p] = PlaceAfter(wire.interrupt_type)]
        /\ asked' = [asked EXCEPT ![p] = wire.extra]
  /\ UNCHANGED <<shown, wire, cpu_side>>

(* handle_teclado, handle_pantalla and handle_io, and the answer of        *)
(* memoria to a page fault: each ends in the process being ready.          *)
Wake(p, from) ==
  /\ place[p] = from
  /\ place' = [place EXCEPT ![p] = "ready"]
  /\ asked' = [asked EXCEPT ![p] = Nothing]
  /\ UNCHANGED <<vars, wire, cpu_side>>

HandleTeclado(p) ==
  /\ Wake(p, "io")
  /\ asked[p].device = "TECLADO"
  /\ \E value \in Typed : pcbs' = [pcbs EXCEPT ![p].registers[asked[p].arg] = value]
  /\ UNCHANGED shown

HandlePantalla(p) ==
  /\ Wake(p, "io")
  /\ asked[p].device = "PANTALLA"
  /\ shown' = [shown EXCEPT ![p] = Append(@, pcbs[p].registers[asked[p].arg])]
  /\ UNCHANGED pcbs

HandleIo(p) ==
  /\ Wake(p, "io")
  /\ asked[p].device \notin {"TECLADO", "PANTALLA"}
  /\ UNCHANGED <<pcbs, shown>>

(* The pcb that comes back from memoria is the one that was sent there.    *)
HandlePageFault(p) ==
  /\ Wake(p, "page_fault")
  /\ UNCHANGED <<pcbs, shown>>

-----------------------------------------------------------------------------
(* The CPU.                                                                *)

CpuStartInterrupt ==
  /\ cpu_module = "up"
  /\ StartInterrupt
  /\ UNCHANGED <<kernel_side, wire, cpu_side>>

CpuRecvPcb ==
  /\ RecvPcb
  /\ cpu_pcb' = wire.pcb
  /\ UNCHANGED <<kernel_side, wire, device_io, pf, memory, cpu_module>>

CpuReset ==
  /\ Reset
  /\ UNCHANGED <<kernel_side, wire, cpu_side>>

(* list_get(pcb->instructions, pcb->program_counter), of a type in types.  *)
Instruction == Program[cpu_pcb.id][cpu_pcb.program_counter + 1]
InProgram == cpu_pcb.program_counter < Len(Program[cpu_pcb.id])
Fetched(types) ==
  cycle = "execute" /\ cpu_module = "up" /\ InProgram /\ Instruction.type \in types

(* The segment of an address, when the list has it, and the test.          *)
HasSegment(dl) == SegmentNum(dl) < Len(Segments[cpu_pcb.id])
SegmentSize(dl) == Segments[cpu_pcb.id][SegmentNum(dl) + 1]
(* Mutant: the size of the segment is an offset in it.                     *)
FaultsAfterSize(dl) == SegmentOffset(dl) > SegmentSize(dl)
Faults(dl) == SegmentOffset(dl) >= SegmentSize(dl)

(* The pcb after an instruction that writes value to reg.                  *)
Written(reg, value) ==
  [cpu_pcb EXCEPT !.registers[reg] = value, !.program_counter = @ + 1]

ExecuteSet ==
  /\ ExecutePlain
  /\ Fetched({"SET"})
  /\ cpu_pcb' = Written(Instruction.reg, Instruction.value)
  /\ UNCHANGED <<kernel_side, wire, device_io, pf, memory, cpu_module>>

ExecuteAdd ==
  /\ ExecutePlain
  /\ Fetched({"ADD"})
  /\ LET i == Instruction
         sum == cpu_pcb.registers[i.reg] + cpu_pcb.registers[i.reg2]
     IN cpu_pcb' = Written(i.reg, sum % WordSize)
  /\ UNCHANGED <<kernel_side, wire, device_io, pf, memory, cpu_module>>

(* mov_execute when memoria has the page.  What a cell holds that no       *)
(* MOV_OUT has written depends on the frame.                               *)
ExecuteMovIn ==
  /\ ExecutePlain
  /\ Fetched({"MOV_IN"})
  /\ HasSegment(Instruction.dl) /\ ~ Faults(Instruction.dl)
  /\ \E value \in Words :
       /\ memory[cpu_pcb.id][Cell(Instruction.dl)] \in {value, Unwritten}
       /\ cpu_pcb' = Written(Instruction.reg, value)
  /\ UNCHANGED <<kernel_side, wire, device_io, pf, memory, cpu_module>>

ExecuteMovOut ==
  /\ ExecutePlain
  /\ Fetched({"MOV_OUT"})
  /\ HasSegment(Instruction.dl) /\ ~ Faults(Instruction.dl)
  /\ memory' = [memory EXCEPT ![cpu_pcb.id][Cell(Instruction.dl)]
                                = cpu_pcb.registers[Instruction.reg]]
  /\ cpu_pcb' = [cpu_pcb EXCEPT !.program_counter = @ + 1]
  /\ UNCHANGED <<kernel_side, wire, device_io, pf, cpu_module>>

(* pf_occurred: the counter stays, the MOV is executed again.              *)
PfOccurred ==
  /\ ExecuteBlocking
  /\ interruption_io_pf' = "INT_PAGE_FAULT"
  /\ Fetched(Movs)
  /\ HasSegment(Instruction.dl) /\ ~ Faults(Instruction.dl)
  /\ pf' = [segment |-> SegmentNum(Instruction.dl), page |-> PageNum(Instruction.dl)]
  /\ UNCHANGED <<kernel_side, wire, cpu_pcb, device_io, memory, cpu_module>>

SegmentationFault ==
  /\ ExecuteBlocking
  /\ interruption_io_pf' = "SEGMENTATION_FAULT"
  /\ Fetched(Movs)
  /\ HasSegment(Instruction.dl) /\ Faults(Instruction.dl)
  /\ UNCHANGED <<kernel_side, wire, cpu_side>>

ExecuteIo ==
  /\ ExecuteBlocking
  /\ interruption_io_pf' = "INT_IO"
  /\ Fetched({"IO"})
  /\ device_io' = [device |-> Instruction.device, arg |-> Instruction.arg]
  /\ cpu_pcb' = [cpu_pcb EXCEPT !.program_counter = @ + 1]
  /\ UNCHANGED <<kernel_side, wire, pf, memory, cpu_module>>

CpuExit ==
  /\ ExecuteExit
  /\ Fetched({"EXIT"})
  /\ UNCHANGED <<kernel_side, wire, cpu_side>>

(* list_get returns NULL past the end of a list, of instructions or of     *)
(* segments, and the CPU dereferences it.                                  *)
CpuCrash ==
  /\ cycle = "execute" /\ cpu_module = "up"
  /\ ~ InProgram \/ (Fetched(Movs) /\ ~ HasSegment(Instruction.dl))
  /\ cpu_module' = "down"
  /\ UNCHANGED <<vars, kernel_side, wire, cpu_pcb, device_io, pf, memory>>

CpuCheckInterrupt ==
  /\ CheckInterrupt
  /\ UNCHANGED <<kernel_side, wire, cpu_side>>

(* send_pcb_io, send_pcb_pf or send_pcb                                    *)
CpuSendPcbBack ==
  /\ SendPcbBack
  /\ wire' = [pcb |-> cpu_pcb,
              interrupt_type |-> interrupt_type,
              extra |-> CASE interrupt_type = "INT_IO"         -> device_io
                          [] interrupt_type = "INT_PAGE_FAULT" -> pf
                          [] OTHER                             -> Nothing]
  /\ UNCHANGED <<kernel_side, cpu_side>>

-----------------------------------------------------------------------------
Execute ==
  \/ ExecuteSet
  \/ ExecuteAdd
  \/ ExecuteMovIn
  \/ ExecuteMovOut
  \/ PfOccurred
  \/ SegmentationFault
  \/ ExecuteIo
  \/ CpuExit
  \/ CpuCrash

CpuCycle == CpuRecvPcb \/ CpuReset \/ Execute \/ CpuCheckInterrupt \/ CpuSendPcbBack

Dispatcher == CpuWaitCpuDispatch \/ CpuCreateQuantum \/ \E p \in Pids : CpuSendPcb(p)

Handlers(p) ==
  \/ HandleTeclado(p)
  \/ HandlePantalla(p)
  \/ HandleIo(p)
  \/ HandlePageFault(p)

CpuNext ==
  \/ Dispatcher
  \/ CpuStartQuantum
  \/ CpuStartInterrupt
  \/ CpuCycle
  \/ \E p \in Pids : Handlers(p)

CpuSpec == CpuInit /\ [][CpuNext]_cpuvars

(* Every thread runs, usleep and the users come to an end.                 *)
CpuFairSpec ==
  /\ CpuSpec
  /\ WF_cpuvars(Dispatcher)
  /\ WF_cpuvars(CpuStartQuantum)
  /\ WF_cpuvars(CpuStartInterrupt)
  /\ WF_cpuvars(CpuCycle)
  /\ \A p \in Pids : WF_cpuvars(Handlers(p))
-----------------------------------------------------------------------------
(* Properties.                                                             *)

(* The processes as their user sees them: the pcb that counts is the one   *)
(* the kernel has, the one in the message, or the one of the cycle.        *)
Pcb(p) ==
  IF place[p] # "cpu" THEN pcbs[p]
  ELSE IF running # None THEN cpu_pcb
  ELSE wire.pcb

(* What a burst that ends so leaves its process in.                        *)
After(type) ==
  CASE type = "EXECUTION_FINISHED" -> "finished"
    [] type = "INT_IO"             -> "waiting"
    [] type = "SEGMENTATION_FAULT" -> "killed"
    [] OTHER                       -> "running"

(* The flags of the cycle, or interrupt_type of the message, say it while  *)
(* the pcb travels: before the reset the flags are those of the burst      *)
(* before.                                                                 *)
CycleState ==
  IF cycle = "reset" THEN "running"
  ELSE IF interrupt_type = "EXECUTION_FINISHED" THEN "finished"
  ELSE After(interruption_io_pf)
State(p) ==
  CASE place[p] = "exit"   -> "finished"
    [] place[p] = "killed" -> "killed"
    [] place[p] = "io"     -> "waiting"
    [] place[p] = "cpu"    -> IF running # None THEN CycleState
                              ELSE After(wire.interrupt_type)
    [] OTHER               -> "running"

User == INSTANCE Programs WITH
  counter   <- [p \in Pids |-> Pcb(p).program_counter],
  registers <- [p \in Pids |-> Pcb(p).registers],
  memory    <- [p \in Pids |-> [dl \in MovAddresses(p) |-> memory[p][Cell(dl)]]],
  state     <- [p \in Pids |-> State(p)],
  up        <- cpu_module = "up"

(* Each program runs as if alone, one instruction after the other and each *)
(* one once: a preempted pcb resumes where it was, a MOV that faulted is   *)
(* executed again, an I/O is not, and no two addresses share a cell.       *)
ExecutesPrograms == User!Spec

(* The page a process waits for is that of the MOV it will execute again,  *)
(* and memoria has it in the table of the segment: pf_segment and pf_page  *)
(* are globals that outlive the burst, and frame_access indexes the table  *)
(* with them unchecked.                                                    *)
FaultInTable ==
  \A p \in Pids : place[p] = "page_fault" =>
    LET i == Program[p][pcbs[p].program_counter + 1]
    IN /\ i.type \in Movs
       /\ asked[p] = [segment |-> SegmentNum(i.dl), page |-> PageNum(i.dl)]
       /\ asked[p].page < PageAmount(Segments[p][asked[p].segment + 1])

(* Exactly the process whose pcb travels is on the CPU for the kernel, the *)
(* cycle has its pcb, and only a process that waits has something it asked *)
(* for.                                                                    *)
CpuTypeOK ==
  /\ \A p \in Pids :
       /\ pcbs[p].id = p
       /\ place[p] = "cpu" <=> sched # "execute_algorithm" /\ wire.pcb.id = p
       /\ place[p] \in {"ready", "cpu"} => asked[p] = Nothing
  /\ running # None => cpu_pcb.id = wire.pcb.id

(* Every pcb that goes to the CPU comes back, unless its program makes the *)
(* CPU dereference NULL, and the scheduler goes on.                        *)
PcbComesBack == sched = "quantum" ~> sched = "execute_algorithm" \/ cpu_module = "down"
=============================================================================
