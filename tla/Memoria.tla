------------------------------- MODULE Memoria -------------------------------
(***************************************************************************)
(* The module memoria: its main thread serves the kernel (handle_kernel.c) *)
(* and its thread handle_cpu serves the CPU (handle_cpu.c).  Both use the  *)
(* pages of page_tables without a mutex; ram_mutex only makes each memcpy  *)
(* atomic.  The CPU here is the one of config/memoria_modulos, which has   *)
(* no TLB (ENTRADAS_TLB=0): every access to memory asks for its frame      *)
(* first.  The CPU with a TLB is the subject of CpuTlb.                    *)
(*                                                                         *)
(* One step is what no other thread can see the middle of: an iteration of *)
(* find_victim, the save of a victim, its P = 0, the mapping of the page,  *)
(* each memcpy and each message.                                           *)
(***************************************************************************)
EXTENDS Integers, SequencesExt

CONSTANTS
  Pids,         \* the processes that may be started
  Pages,        \* the pages of all of them
  Layout,       \* the pages of each process, segment after segment
  NFrames,      \* ENTRADAS_POR_TABLA of memoria.config
  Algorithm,    \* ALGORITMO_REEMPLAZO of memoria.config
  Ops,          \* the instructions of the programs: "MOV_IN", "MOV_OUT"
  MaxAccesses,  \* bound: how many of them a program has
  MaxChecks,    \* bound: the messages the buffer of socket_cpu_tlb holds
  NoPage

Frames  == 0 .. NFrames - 1
NoFrame == -1
PagesOf(p) == ToSet(Layout[p])

ASSUME MemoriaAssumption ==
  /\ NFrames \in Nat \ {0}
  /\ MaxAccesses \in Nat
  /\ MaxChecks \in Nat \ {0}
  /\ Layout \in [Pids -> Seq(Pages)]
  /\ \A p, q \in Pids : \A i \in DOMAIN Layout[p], j \in DOMAIN Layout[q] :
       Layout[p][i] = Layout[q][j] => p = q /\ i = j
  /\ Ops \subseteq {"MOV_IN", "MOV_OUT"}
  /\ NoPage \notin Pages

(* Memory is counted in pages: cell c is what the page c of the ram holds. *)
(* A copy to or from swap moves page_size * sizeof(int) bytes, which is    *)
(* four pages of page_size bytes; the ram has sizeof(int) * memory_size    *)
(* bytes, so the copies of the last frames stay inside it.                 *)
Copied == 0 .. 3
Cells  == 0 .. NFrames + 2

VARIABLES
  page_tables,   \* the pages in the order of their tables
  page,          \* the t_page_table_data of each page
  frames_usage,  \* frames_usage[f]: the frame f is taken
  pointer,       \* page_table_pointer and page_pointer, as an index of page_tables
  at,            \* where the main thread is
  request,       \* the request it serves
  pass,          \* the counter o of find_victim, modulo 2
  victim,        \* the victim of find_victim
  frame,         \* the frame find_free_frame returns
  swap_data,     \* what read_page_from_swap read
  ram,           \* the page whose data each cell holds
  swap,          \* the blocks written to the swap file
  to_memoria,    \* socket_kernel
  to_tlb,        \* socket_cpu_tlb
  cpu,           \* the request of the CPU that thread handle_cpu serves
  mov,           \* the MOV each process is at, until it completes
  accesses,      \* how many MOVs each process has begun
  proc,          \* the state of each process
  memoria        \* "down" once memoria used a page that is not there

main == <<at, request, pass, victim, frame, swap_data>>
data == <<ram, swap>>
tables == <<page_tables, page, frames_usage, pointer>>
program == <<cpu, mov, accesses>>
mvars == <<main, data, tables, program, to_memoria, to_tlb, proc, memoria>>

(* process_started: what a new page is, and process_finished: what a page  *)
(* that was freed is.                                                      *)
EmptyPage == [frame |-> NoFrame, P |-> FALSE, U |-> FALSE, M |-> FALSE, swap_pos |-> -1]
NoRequest == [type |-> "none", page |-> NoPage]
NoMov     == [page |-> NoPage, op |-> "none"]
Idle      == [at |-> "idle", frame |-> NoFrame]
NoData    == [i \in Copied |-> NoPage]

Init ==
  /\ page_tables = << >>
  /\ page = [x \in Pages |-> EmptyPage]
  /\ frames_usage = [f \in Frames |-> FALSE]
  /\ pointer = 0
  /\ at = "recv" /\ request = NoRequest
  /\ pass = 0 /\ victim = NoPage /\ frame = NoFrame /\ swap_data = NoData
  /\ ram = [c \in Cells |-> NoPage]
  /\ swap = << >>
  /\ to_memoria = << >> /\ to_tlb = << >>
  /\ cpu = Idle
  /\ mov = [p \in Pids |-> NoMov]
  /\ accesses = [p \in Pids |-> 0]
  /\ proc = [p \in Pids |-> "new"]
  /\ memoria = "up"

-----------------------------------------------------------------------------
(* The kernel, as memoria sees it.                                         *)

Move(p, state) == proc' = [proc EXCEPT ![p] = state]
Ask(type, p, x) ==
  to_memoria' = Append(to_memoria, [type |-> type, pid |-> p, page |-> x])

(* create_process, which main calls for one console after another.         *)
CreateProcess(p) ==
  /\ proc[p] = "new"
  /\ \A q \in Pids : proc[q] # "starting"
  /\ Move(p, "starting")
  /\ Ask("PROCESS_STARTED", p, NoPage)
  /\ UNCHANGED <<main, data, tables, program, to_tlb, memoria>>

(* execute_algorithm: one process at a time, and none while the same       *)
(* thread waits for the answer to PROCESS_FINISHED.                        *)
Dispatch(p) ==
  /\ proc[p] = "ready"
  /\ \A q \in Pids : proc[q] \notin {"running", "finishing"}
  /\ Move(p, "running")
  /\ UNCHANGED <<main, data, tables, program, to_memoria, to_tlb, memoria>>

(* The CPU is between two instructions of p.  A MOV that page-faulted is   *)
(* the first instruction of p when it comes back.                          *)
Between(p) == proc[p] = "running" /\ cpu = Idle /\ mov[p] = NoMov

(* The process comes back for a quantum or an I/O and becomes ready again. *)
Preempt(p) ==
  /\ Between(p)
  /\ Move(p, "ready")
  /\ UNCHANGED <<main, data, tables, program, to_memoria, to_tlb, memoria>>

(* EXECUTION_FINISHED: wait_cpu_dispatch tells memoria.                    *)
Exit(p) ==
  /\ Between(p)
  /\ Move(p, "finishing")
  /\ Ask("PROCESS_FINISHED", p, NoPage)
  /\ UNCHANGED <<main, data, tables, program, to_tlb, memoria>>

(* SEGMENTATION_FAULT: memoria is never told, the pages stay as they are.  *)
SegFault(p) ==
  /\ Between(p)
  /\ Move(p, "killed")
  /\ UNCHANGED <<main, data, tables, program, to_memoria, to_tlb, memoria>>

-----------------------------------------------------------------------------
(* mov_execute of the CPU, without TLB.                                    *)

(* The process begins a MOV, or tries the one that page-faulted again.     *)
Mov(p, x, op) ==
  /\ proc[p] = "running" /\ cpu = Idle
  /\ \/ mov[p] = NoMov /\ accesses[p] < MaxAccesses
     \/ mov[p] = [page |-> x, op |-> op]
  /\ accesses' = [accesses EXCEPT ![p] = IF mov[p] = NoMov THEN @ + 1 ELSE @]
  /\ mov' = [mov EXCEPT ![p] = [page |-> x, op |-> op]]

MovExecute(p, x, op) ==
  /\ Mov(p, x, op)
  /\ cpu' = [cpu EXCEPT !.at = "FRAME_ACCESS"]
  /\ UNCHANGED <<main, data, tables, to_memoria, to_tlb, proc, memoria>>

(* tlb_access: RAM_ACCESS_READ or RAM_ACCESS_WRITE with the frame received *)
TlbAccess(p) ==
  /\ proc[p] = "running" /\ cpu.at = "frame"
  /\ cpu' = [cpu EXCEPT !.at = "RAM_ACCESS"]
  /\ UNCHANGED <<main, data, tables, mov, accesses, to_memoria, to_tlb, proc, memoria>>

(* pf_occurred and the INT_PAGE_FAULT of wait_cpu_dispatch.                *)
PageFault(p) ==
  /\ proc[p] = "running" /\ cpu.at = "PAGE_FAULT"
  /\ cpu' = Idle
  /\ Move(p, "fault")
  /\ Ask("PAGE_FAULT", p, mov[p].page)
  /\ UNCHANGED <<main, data, tables, mov, accesses, to_tlb, memoria>>

(* The answer to RAM_ACCESS: program_counter++.                            *)
Answered(p) ==
  /\ proc[p] = "running" /\ cpu.at = "answer"
  /\ cpu' = Idle
  /\ mov' = [mov EXCEPT ![p] = NoMov]
  /\ UNCHANGED <<main, data, tables, accesses, to_memoria, to_tlb, proc, memoria>>

-----------------------------------------------------------------------------
(* Thread handle_cpu.                                                      *)

(* frame_access *)
FrameAccess(p) ==
  /\ proc[p] = "running" /\ cpu.at = "FRAME_ACCESS"
  /\ cpu' = IF page[mov[p].page].P
              THEN [at |-> "frame", frame |-> page[mov[p].page].frame]
              ELSE [at |-> "PAGE_FAULT", frame |-> NoFrame]
  /\ UNCHANGED <<main, data, tables, mov, accesses, to_memoria, to_tlb, proc, memoria>>

(* get_page_reverse: the pages of p that are in frame f                    *)
InFrame(p, f) == {x \in PagesOf(p) : page[x].P /\ page[x].frame = f}

(* ram_access_read and ram_access_write up to their memcpy: U = 1, M = 1.  *)
RamAccess(p) ==
  /\ proc[p] = "running" /\ cpu.at = "RAM_ACCESS"
  /\ \E x \in InFrame(p, cpu.frame) :
       page' = [page EXCEPT ![x].U = TRUE, ![x].M = @ \/ mov[p].op = "MOV_OUT"]
  /\ cpu' = [cpu EXCEPT !.at = "memcpy"]
  /\ UNCHANGED <<main, data, page_tables, frames_usage, pointer, mov, accesses,
                 to_memoria, to_tlb, proc, memoria>>

(* No page of p is in that frame any more: get_page_reverse ends without a *)
(* return and what its caller writes to is undefined.                      *)
RamAccessNoPage(p) ==
  /\ proc[p] = "running" /\ cpu.at = "RAM_ACCESS"
  /\ InFrame(p, cpu.frame) = {}
  /\ memoria' = "down"
  /\ UNCHANGED <<main, data, tables, program, to_memoria, to_tlb, proc>>

(* The memcpy of both, under ram_mutex, and the answer.                    *)
RamCopy(p) ==
  /\ proc[p] = "running" /\ cpu.at = "memcpy"
  /\ ram' = IF mov[p].op = "MOV_OUT"
              THEN [ram EXCEPT ![cpu.frame] = mov[p].page] ELSE ram
  /\ cpu' = [cpu EXCEPT !.at = "answer"]
  /\ UNCHANGED <<main, swap, tables, mov, accesses, to_memoria, to_tlb, proc, memoria>>

(* The CPU's thread of MEMORIA_CPU_TLB: with no TLB there is nothing to    *)
(* remove.                                                                 *)
ConsistencyCheck ==
  /\ to_tlb # << >>
  /\ to_tlb' = Tail(to_tlb)
  /\ UNCHANGED <<main, data, tables, program, to_memoria, proc, memoria>>

-----------------------------------------------------------------------------
(* Main thread: handle_kernel.                                             *)

Receive(type) ==
  /\ at = "recv"
  /\ to_memoria # << >>
  /\ Head(to_memoria).type = type
  /\ to_memoria' = Tail(to_memoria)

Asker == Head(to_memoria).pid

(* process_started: one table per segment, and the answer.                 *)
ProcessStarted ==
  /\ Receive("PROCESS_STARTED")
  /\ page_tables' = page_tables \o Layout[Asker]
  /\ page' = [x \in Pages |-> IF x \in PagesOf(Asker) THEN EmptyPage ELSE page[x]]
  /\ Move(Asker, "ready")
  /\ UNCHANGED <<main, data, frames_usage, pointer, program, to_tlb, memoria>>

(* Mutant: the pages are reset before P is looked at, no frame is freed.   *)
ProcessFinishedKeepsFrames ==
  /\ Receive("PROCESS_FINISHED")
  /\ page' = [x \in Pages |-> IF x \in PagesOf(Asker) THEN EmptyPage ELSE page[x]]
  /\ Move(Asker, "finished")
  /\ UNCHANGED <<main, data, page_tables, frames_usage, pointer, program, to_tlb, memoria>>

(* process_finished: the frames of its pages become free; the tables stay  *)
(* in page_tables.                                                         *)
ProcessFinished ==
  /\ Receive("PROCESS_FINISHED")
  /\ frames_usage' = [f \in Frames |-> frames_usage[f] /\ InFrame(Asker, f) = {}]
  /\ page' = [x \in Pages |-> IF x \in PagesOf(Asker) THEN EmptyPage ELSE page[x]]
  /\ Move(Asker, "finished")
  /\ UNCHANGED <<main, data, page_tables, pointer, program, to_tlb, memoria>>

(* What fread finds at a position of the file: nothing at its end.         *)
ReadFromSwap(pos) == IF pos < Len(swap) THEN swap[pos + 1] ELSE NoData

(* resolve_page_fault: a page with a swap_pos is read from swap first.     *)
ResolvePageFault ==
  /\ Receive("PAGE_FAULT")
  /\ request' = [type |-> "PAGE_FAULT", page |-> Head(to_memoria).page]
  /\ swap_data' = IF page[Head(to_memoria).page].swap_pos = -1
                    THEN NoData ELSE ReadFromSwap(page[Head(to_memoria).page].swap_pos)
  /\ at' = "find_free_frame"
  /\ UNCHANGED <<pass, victim, frame, data, tables, program, to_tlb, proc, memoria>>

(* find_free_frame: the first frame that is not taken.                     *)
FreeFrames == {f \in Frames : ~frames_usage[f]}

FindFreeFrame ==
  /\ at = "find_free_frame"
  /\ \E f \in FreeFrames :
       /\ \A g \in FreeFrames : f <= g
       /\ frames_usage' = [frames_usage EXCEPT ![f] = TRUE]
       /\ frame' = f
  /\ at' = "map"
  /\ UNCHANGED <<request, pass, victim, swap_data, data, page_tables, page, pointer,
                 program, to_memoria, to_tlb, proc, memoria>>

NoFreeFrame ==
  /\ at = "find_free_frame"
  /\ FreeFrames = {}
  /\ at' = "find_victim"
  /\ pass' = 0
  /\ UNCHANGED <<request, victim, frame, swap_data, data, tables, program,
                 to_memoria, to_tlb, proc, memoria>>

(* is_victim and the U = 0 it leaves behind when it is not.                *)
IsVictim(x) ==
  /\ page[x].P /\ ~page[x].U
  /\ Algorithm = "CLOCK-M" => page[x].M = (pass = 1)

(* Mutant: find_victim looks for U = 0 and never sets it.                  *)
UnusedKeepsU(x) == page

Unused(x) ==
  IF page[x].P /\ (Algorithm = "CLOCK-M" => pass = 1)
    THEN [page EXCEPT ![x].U = FALSE] ELSE page

(* Mutant: the pointer is incremented without its modulo.                  *)
FindVictimNoWrap ==
  /\ at = "find_victim"
  /\ LET x == page_tables[pointer + 1]
     IN  IF IsVictim(x)
           THEN /\ victim' = x
                /\ at' = "save"
                /\ UNCHANGED <<page, pointer, pass>>
           ELSE /\ page' = Unused(x)
                /\ pointer' = pointer + 1
                /\ UNCHANGED <<at, victim, pass>>
  /\ UNCHANGED <<request, frame, swap_data, data, page_tables, frames_usage,
                 program, to_memoria, to_tlb, proc, memoria>>

(* find_victim: one page.  The pointer is left at the victim; at the end   *)
(* of page_tables it goes back to the first table and o is incremented.    *)
FindVictim ==
  /\ at = "find_victim"
  /\ LET x == page_tables[pointer + 1]
     IN  IF IsVictim(x)
           THEN /\ victim' = x
                /\ at' = "save"
                /\ UNCHANGED <<page, pointer, pass>>
           ELSE /\ page' = Unused(x)
                /\ pointer' = (pointer + 1) % Len(page_tables)
                /\ pass' = IF pointer' = 0 THEN 1 - pass ELSE pass
                /\ UNCHANGED <<at, victim>>
  /\ UNCHANGED <<request, frame, swap_data, data, page_tables, frames_usage,
                 program, to_memoria, to_tlb, proc, memoria>>

(* if(victim->M == 1) write_page_to_swap: the block is appended to the     *)
(* file, and swap_pos is the position of the file after it.                *)
Save ==
  /\ at = "save"
  /\ IF page[victim].M
       THEN /\ swap' = Append(swap, [i \in Copied |-> ram[page[victim].frame + i]])
            /\ page' = [page EXCEPT ![victim].swap_pos = Len(swap')]
       ELSE UNCHANGED <<swap, page>>
  /\ at' = "evict"
  /\ UNCHANGED <<request, pass, victim, frame, swap_data, ram, page_tables,
                 frames_usage, pointer, program, to_memoria, to_tlb, proc, memoria>>

(* Mutant: the victim keeps P = 1.                                         *)
EvictKeepsP ==
  /\ at = "evict"
  /\ frame' = page[victim].frame
  /\ victim' = NoPage
  /\ at' = "map"
  /\ UNCHANGED <<request, pass, swap_data, data, tables, program, to_memoria,
                 to_tlb, proc, memoria>>

(* victim->P = 0; frame = victim->frame                                    *)
Evict ==
  /\ at = "evict"
  /\ page' = [page EXCEPT ![victim].P = FALSE]
  /\ frame' = page[victim].frame
  /\ victim' = NoPage
  /\ at' = "map"
  /\ UNCHANGED <<request, pass, swap_data, data, page_tables, frames_usage,
                 pointer, program, to_memoria, to_tlb, proc, memoria>>

(* The rest of resolve_page_fault: the frame and P = 1; a page that comes  *)
(* from swap also has M = U = 0, and its data copied to the ram.           *)
Map ==
  /\ at = "map"
  /\ LET x == request.page
         fromSwap == page[x].swap_pos # -1
     IN  /\ page' = [page EXCEPT ![x] =
                      [frame |-> frame, P |-> TRUE, U |-> @.U /\ ~fromSwap,
                       M |-> @.M /\ ~fromSwap, swap_pos |-> @.swap_pos]]
         /\ at' = IF fromSwap THEN "copy" ELSE "tlb_consistency"
  /\ UNCHANGED <<request, pass, victim, frame, swap_data, data, page_tables,
                 frames_usage, pointer, program, to_memoria, to_tlb, proc, memoria>>

CopyToRam ==
  /\ at = "copy"
  /\ ram' = [c \in Cells |-> IF c - frame \in Copied THEN swap_data[c - frame] ELSE ram[c]]
  /\ at' = "tlb_consistency"
  /\ UNCHANGED <<request, pass, victim, frame, swap_data, swap, tables, program,
                 to_memoria, to_tlb, proc, memoria>>

SendConsistencyCheck ==
  /\ at = "tlb_consistency"
  /\ Len(to_tlb) < MaxChecks
  /\ to_tlb' = Append(to_tlb, frame)
  /\ at' = "resolved"
  /\ UNCHANGED <<request, pass, victim, frame, swap_data, data, tables, program,
                 to_memoria, proc, memoria>>

(* send_page_fault_resolved; handle_page_fault of the kernel makes the     *)
(* process ready.                                                          *)
PageFaultResolved ==
  /\ at = "resolved"
  /\ \E p \in Pids : request.page \in PagesOf(p) /\ Move(p, "ready")
  /\ at' = "recv" /\ request' = NoRequest /\ frame' = NoFrame /\ swap_data' = NoData
  /\ UNCHANGED <<pass, victim, data, tables, program, to_memoria, to_tlb, memoria>>

-----------------------------------------------------------------------------
Kernel ==
  \E p \in Pids : CreateProcess(p) \/ Dispatch(p)

Process(p) == Preempt(p) \/ Exit(p) \/ SegFault(p)

Cpu(p) ==
  \/ \E x \in PagesOf(p), op \in Ops : MovExecute(p, x, op)
  \/ TlbAccess(p)
  \/ PageFault(p)
  \/ Answered(p)

HandleCpu(p) ==
  FrameAccess(p) \/ RamAccess(p) \/ RamAccessNoPage(p) \/ RamCopy(p)

HandleKernel ==
  \/ ProcessStarted
  \/ ProcessFinished
  \/ ResolvePageFault
  \/ FindFreeFrame
  \/ NoFreeFrame
  \/ FindVictim
  \/ Save
  \/ Evict
  \/ Map
  \/ CopyToRam
  \/ SendConsistencyCheck
  \/ PageFaultResolved

Next ==
  /\ memoria = "up"
  /\ \/ Kernel
     \/ \E p \in Pids : Process(p) \/ Cpu(p) \/ HandleCpu(p)
     \/ ConsistencyCheck
     \/ HandleKernel

Spec == Init /\ [][Next]_mvars

(* Both threads of memoria and the threads of the CPU keep running; nobody *)
(* is obliged to start a process, to preempt it or to end it.              *)
Fairness ==
  /\ WF_mvars(memoria = "up" /\ ConsistencyCheck)
  /\ WF_mvars(memoria = "up" /\ HandleKernel)
  /\ WF_mvars(memoria = "up" /\ \E p \in Pids : HandleCpu(p) \/ Cpu(p))

(* The kernel besides dispatches every ready process (ProcessEnds of       *)
(* Scheduler) and the CPU goes on with the one it has until it returns it. *)
ScheduledSpec ==
  /\ Spec /\ Fairness
  /\ \A p \in Pids : /\ SF_mvars(memoria = "up" /\ Dispatch(p))
                      /\ WF_mvars(memoria = "up" /\ (Process(p) \/ Cpu(p) \/ HandleCpu(p)))
-----------------------------------------------------------------------------
(* Properties.                                                             *)

Lives == {"new", "starting", "ready", "running", "fault", "finishing", "finished",
          "killed"}
Steps == {"recv", "find_free_frame", "find_victim", "save", "evict", "map", "copy",
          "tlb_consistency", "resolved"}
CpuSteps == {"idle", "FRAME_ACCESS", "frame", "PAGE_FAULT", "RAM_ACCESS", "memcpy",
             "answer"}

PageOrNone  == Pages \cup {NoPage}
FrameOrNone == Frames \cup {NoFrame}
Requests    == [type : {"PROCESS_STARTED", "PROCESS_FINISHED", "PAGE_FAULT"},
                pid : Pids, page : PageOrNone]
Blocks      == [Copied -> PageOrNone]

(* The shape of the state: every page that is in a frame has one, and the  *)
(* pointer of the clock never leaves the tables.                           *)
TypeOK ==
  /\ page_tables \in Seq(Pages)
  /\ page \in [Pages -> [frame : FrameOrNone, P : BOOLEAN, U : BOOLEAN,
                         M : BOOLEAN, swap_pos : Nat \cup {-1}]]
  /\ \A x \in Pages : page[x].P => page[x].frame \in Frames
  /\ frames_usage \in [Frames -> BOOLEAN]
  /\ pointer \in Nat /\ (pointer = 0 \/ pointer < Len(page_tables))
  /\ at \in Steps
  /\ request \in [type : {"none", "PAGE_FAULT"}, page : PageOrNone]
  /\ pass \in {0, 1} /\ victim \in PageOrNone /\ frame \in FrameOrNone
  /\ ram \in [Cells -> PageOrNone]
  /\ swap \in Seq(Blocks) /\ swap_data \in Blocks
  /\ to_memoria \in Seq(Requests)
  /\ cpu \in [at : CpuSteps, frame : FrameOrNone]
  /\ mov \in [Pids -> [page : PageOrNone, op : {"none", "MOV_IN", "MOV_OUT"}]]
  /\ proc \in [Pids -> Lives]

(* Two pages are never in the same frame, and the frame find_free_frame    *)
(* took for a page that is not mapped yet is nobody's: the list of used    *)
(* frames, the P of the pages and the eviction of a victim are separate    *)
(* writes that handle_cpu runs between.                                    *)
Resident(f) == {x \in Pages : page[x].P /\ page[x].frame = f}

FrameExclusive ==
  /\ \A x, y \in Pages :
       page[x].P /\ page[y].P /\ page[x].frame = page[y].frame => x = y
  /\ at = "map" => Resident(frame) = {}

(* No frame is lost or given twice over any sequence of starts, faults and *)
(* ends: a frame is marked as used exactly while a page is in it or the    *)
(* main thread has it in its hands.                                        *)
FramesExact ==
  \A f \in Frames :
    frames_usage[f] <=> Resident(f) # {} \/ (at = "map" /\ frame = f)

(* A MOV that page-faults is not retried for ever: find_victim finds a     *)
(* victim although the process that runs may set U = 1 in front of it, and *)
(* with a frame for each process the page it waited for is, some time,     *)
(* still in its frame when it runs again, although the faults of the       *)
(* others may take that frame before it is ever used (a page is mapped     *)
(* with U = 0).                                                            *)
MovCompletes ==
  \A p \in Pids : mov[p] # NoMov ~> mov[p] = NoMov \/ memoria = "down"

(* "1) busca U = 0 y M = 0, si no encuentra 2) busca U = 0 y M = 1"        *)
(* (handle_kernel.c:335-337): CLOCK-M goes on to the modified pages only   *)
(* when no page in a frame has U = 0 and M = 0, also when the search       *)
(* starts where an earlier one left the pointer.                           *)
FirstPassWhole ==
  [][(Algorithm = "CLOCK-M" /\ at = "find_victim" /\ pass = 0 /\ pass' = 1)
       => \A x \in Pages : page[x].P => page[x].U \/ page[x].M]_mvars
=============================================================================
