# Verification of the operating-system simulator

This directory holds TLA+ models of the simulator in `src/`: a kernel, a CPU,
a memory module and consoles, each its own process, that talk over TCP sockets.
TLC model-checks small instances; TLAPS proves the theorems in the `*Proofs`
modules for every value of the constants. `PROJECT.json` is the index: runs,
mutants, the source lines behind every definition, findings, hazards, theorems.

## 1. The system

```
 consola --INSTRUCTIONS-->  kernel  <--dispatch, interrupt-->  cpu
         <--PANTALLA/TECLADO/END--    \                          |  \
                                    PROCESS_STARTED,       FRAME_ACCESS,  TLB_CONSISTENCY
                                    PROCESS_FINISHED,      RAM_ACCESS_*   _CHECK
                                    PAGE_FAULT                |   |
                                         \--->   memoria   <--/   |
                                                   main thread ---/
```

| component | state it keeps | operations | what makes it correct |
|---|---|---|---|
| kernel, `kernel.c` | sockets, pid counter | accept a console, `create_process`, start the scheduler | a process enters the system once, with its page tables built |
| kernel, `scheduller.c` | NEW, READY 1, READY 2, a queue per device, semaphore `can_execute`, the pcbs in the hands of threads | `new_state`, `ready_state_from_*`, `log_ready`, `execute_algorithm`, `wait_cpu_dispatch`, `block_state`, `handle_io`, `handle_teclado`, `handle_pantalla`, `handle_page_fault`, `start_quantum` | no process lost or duplicated; one permit per waiting process; the state diagram; every process ends |
| cpu, `cpu.c` | registers of the pcb, three interrupt flags, the TLB, its mutex and time stamp | `instruction_cycle`, `start_interrupt`, `mov_execute` with `check_tlb` / `add_to_tlb` / `replace_tlb_input`, `mmu`, `consistency_check` | an interrupt is used once; a TLB entry is right or about to be removed; the mutex is released |
| memoria, `memoria.c`, `handle_kernel.c` | page tables, used frames, the pointer of the clock, the RAM, the swap file | `process_started`, `process_finished`, `resolve_page_fault`, `find_free_frame`, `find_victim`, swap read and write | a frame belongs to one page; no frame is lost; a fault is answered; data survives swap |
| memoria, `handle_cpu.c` | shares all of the above, plus `ram_mutex` around each `memcpy` | `frame_access`, `ram_access_read`, `ram_access_write` | the page of the access is in the frame of the access |
| consola, `consola.c`, `parser.c` | a keyboard buffer | parse a program, send it, answer PANTALLA and TECLADO | the program that runs is the one in the file; it is told how its program ended |
| shared, `serialization.c`, `socket.c`, `log_extras.c` | none | encode and decode messages, sockets, log lines | who reads a message takes its fields in the order they were added, and is the one it is for |
| `config/`, scripts | algorithm, degree, quantum, frames, TLB size | read at start | |

How they interact and where it is hard:

* The kernel runs `main`, the scheduler, the page-fault thread, one thread per
  device and one thread per TECLADO or PANTALLA request. They share the queues
  without any mutex. `log_ready` prints a queue by popping and pushing every
  element, so a queue may look empty or reordered to the other threads.
* The quantum is a thread that sleeps and then sends an empty interrupt over a
  socket of its own; it is cancelled when the pcb comes back, which may be too
  late. On the CPU another thread turns the message into a flag.
* memoria serves the kernel and the CPU in two threads that read and write the
  same pages without a mutex. A page fault is resolved while the CPU runs
  another process, whose accesses set U and M during the search for a victim.
* memoria tells the CPU after it gave a frame away. The CPU's third thread then
  removes TLB entries; the mutex of the TLB is taken by two of the three pieces
  of code that walk it.
* `main` and the scheduler thread both send requests over `socket_memoria` and
  both wait for the answers on it. A message is read field by field, one `recv`
  each, so two readers may share one message. An op code that is not the
  expected one ends the kernel.
* A pcb goes through five sockets and is rebuilt each time. What a program
  computes depends on the counter and the registers that come back.
* Nothing is persisted over a restart and no connection is reopened, so there
  is no crash recovery to model: a module that dies ends the system. Messages
  travel over TCP: they are not lost, duplicated or reordered within a socket,
  and the models have no such steps.

## 2. Modules

| module | models | extends |
|---|---|---|
| `ProcessStates` | abstract specification: the five-state diagram of a process | |
| `Scheduler` | all threads of `scheduller.c` and `create_process`, one step per queue or semaphore call; implements `ProcessStates` | |
| `SchedulerFifo` | `Scheduler` with the history of arrivals | `Scheduler` |
| `Quantum` | dispatch, timer thread, interrupt thread and the control of the instruction cycle | |
| `Addresses` | `mmu`, the size of page tables, positions in RAM: pure operators | |
| `Programs` | abstract specification: each program runs alone, instruction by instruction, on a flat memory | |
| `Cpu` | the instructions, the pcbs that travel, the threads that end an I/O; implements `Programs` | `Quantum`, `Addresses` |
| `Memoria` | both threads of memoria, with a CPU that has no TLB | |
| `MemoriaData` | `Memoria` with the history of what was written | `Memoria` |
| `CpuTlb` | `Memoria` with the TLB, its mutex, EXIT and `consistency_check` | `Memoria` |
| `Parser` | the console's parser, over tokens: pure operators | |
| `Serialization` | what each `send_*` puts on a socket and each `recv_*` takes from it, field by field: pure operators | |
| `Sockets` | consoles, kernel threads, memoria and CPU as they talk, one `recv` a step where two threads read | `Parser`, `Serialization` |
| `Startup` | the launch of memoria, CPU and kernel up to their connections, then `Sockets` | `Sockets` |
| `SchedulerProofs`, `ProgramsProofs`, `MemoriaProofs`, `CpuTlbProofs`, `SerializationProofs` | theorems and proofs | the module they are about |
| `CpuProofs` | theorems about `Addresses`, `Quantum` and `Cpu` | `Cpu` |
| `SocketsInvariant` | the inductive invariant of `Sockets` and the steps of most of its threads | `Sockets`, `SerializationProofs` |
| `SocketsProofs` | the rest of its steps; theorems about `Sockets` and `Startup` | `SocketsInvariant`, `Startup` |
| `MC*` | constants of the TLC instances | |

The modules are views of one system that share its parts. `Scheduler` leaves the
CPU and memoria open and has every interleaving of the queues; `Cpu` and
`Sockets` leave open which ready process is next; `Memoria` and `CpuTlb` have
the kernel as their environment. Composition within a view is by extension: `Cpu`'s
actions conjoin those of `Quantum`, `CpuTlb`'s those of `Memoria`.

### Scheduler

`queue` holds every list of pcbs, `hold[t]` the pcb thread `t` has in a local
variable, `pc[t]` where it is. A call to `queue_push`, `queue_pop`,
`queue_size` or a semaphore operation is a step; between two of them any other
thread may run. `log_ready` is `LogMore`, `LogPop`, `LogPush`, `LogEnd`: its
loop compares with the size of the queue at each iteration, as the code does.
`execute_algorithm` is `SemWait`, then a chain of size tests (`CheckFound`,
`CheckNext`), then `Dispatch`. If every test fails the code sends an
uninitialised pointer (`CheckNoPcb`); if a queue is empty when it is popped it
uses what `queue_pop` returns (`PopEmpty`). Both are undefined behaviour from
there on: the model sets `kernel = "down"` and stops. `wait_cpu_dispatch` is
one action per interrupt type, each the whole branch with the messages it
sends. The semaphore of a device always counts the elements of its queue, since
only the scheduler posts it and only the device waits for it, so the guard of
`IoTake` is that the queue is not empty.

The queues of the commons library are `Append` and `Tail`: two simultaneous calls on
one list are a data race whose outcomes (a broken list, a freed element used)
are not modelled; see section 7.

### Quantum

One dispatch at a time, numbered. `CreateQuantum` happens after `SendPcb`, as
in the code, so the CPU may already run. `StartQuantum` is usleep's end and the
send. `WaitCpuDispatch` receives the pcb and cancels the timer. On the CPU,
`RecvPcb` and `Reset` are separate steps because `start_interrupt` may run
between them. `Checked` is the order of priority at the end of an instruction.

### Cpu, Programs and Addresses

Each action of `Cpu` is the action of `Quantum` it refines plus what it does to
the pcbs, the registers and the memory: `ExecuteAdd` is `ExecutePlain` with an
ADD. `pcbs` is what the kernel has, `wire` the last message of the dispatch
socket, `cpu_pcb` the pcb of the cycle. `device_io` and `pf` are the globals in which
the CPU keeps what it sends after a pcb. A MOV finds its page, or raises a
page fault and leaves the counter where it was; a cell is read as it was last written.
`CpuCrash` is `list_get` past the end of the instructions or of the segments: it returns
NULL and the CPU dereferences it. The first `program_counter` is any of
`Starts`, because `create_process` does not set it.

`Programs` has none of that: a program, its counter, its registers, a memory
indexed by logical address, and one action per instruction. The refinement
mapping takes the pcb from wherever it is (`Pcb`) and reads the state of the
process off `place`, the message or the flags of the cycle (`State`).

`Addresses` has the divisions of `mmu` with the constants of the configuration;
ints are non-negative, so those of C are `\div` and `%`.

### Parser, Serialization, Sockets and Startup

A text is a sequence of words, numbers, blanks and newlines. `Parse` keeps
the control of `parse`: `next_word` skips blanks and newlines alike,
`next_is_newline` looks at one character only, and the end of the file is a word
that names no operation. A message is the sequence of its fields in the
order of the `add_to_buffer` calls; a `recv_*` returns the object and the rest of
the stream. `socket_memoria` has two readers, `main` and the scheduler: their
`recv`s are steps of their own (`MainRecv*`, `SchedRecvFinished`). The other
sockets have one reader at a time and a message is taken whole. A thread that reads another op code than it
expects calls `exit`, and `kernel = "down"`.

`Startup` puts the launch of the modules before that. Each thread has a script
of the calls it makes until it enters its loop (`Script`): listen, accept,
connect, create a thread, and the two numbers memoria sends the CPU. A
`connect` succeeds once its server listens, accepted or not; without a server
`start_client_module` ends the module (`StartClientFails`), as it ends a console
that finds no kernel (`ConsolaFails`). The modules may be launched in any order
and the threads of the CPU run at any speed, so the CPU may connect its third
thread before memoria listens for it, and exit; `usleep` in the kernel's
`main` is time, on which nothing is built. An action of `Sockets` is taken only
when the script of its thread has ended (`MemoriaServes`, `CpuRuns`, `Kernel*`).

### Memoria and CpuTlb

`at` is where the main thread is: `recv`, then for a fault `find_free_frame`,
`find_victim` (one page per step), `save`, `evict`, `map`, `copy`,
`tlb_consistency`, `resolved`. `cpu` is the request being served for the
CPU. Memory is counted in pages: a cell of `ram` holds the name of the page
whose data it holds. `write_page_to_swap` and `read_page_from_swap` move
`page_size * sizeof(int)` bytes where a page has `page_size`, so a copy covers four cells
(`Copied`), and swap is a sequence of such blocks at the end of which a read
finds nothing. `get_page_reverse` without a page in that frame falls off its
end (`RamAccessNoPage`, `memoria = "down"`). The tables of an ended process
stay in `page_tables`, as in the code: the clock keeps walking over them.

The kernel's side of these modules is abstract: processes start one after the
other, one runs at a time, and a process that comes back is ready or ended.
`Scheduler` is the detailed model of that side.

`CpuTlb` replaces the CPU's steps by those with a TLB. The entries are in list
order, `checker.i` and `exit_i` are the counters of the two loops that remove
entries; an index that has no entry any more (`list_get` returns NULL and is
dereferenced) is `NoEntry`. The mutex is released in the branch of a miss only,
exactly as in `mov_execute`.

## 3. Runs

All bounds are constants; `MaxBursts` is how often a process comes back
unfinished, `IoThreads` the threads of `block_state` alive at a time,
`MaxAccesses` the MOVs of a program, `MaxChecks` the capacity of the consistency
socket, `MaxDispatches` and `MaxInstructions` the dispatches of a run and the
instructions of a burst.

| run | instance | shows |
|---|---|---|
| `sched_feedback` | FEEDBACK, 2 processes, a degree of 1, 1 device, 2 console threads, all interrupt types, `FairSpec` | `TypeOK`, `OnePlace`, `PermitsMatch`, `ImplementsDiagram` (refinement of `ProcessStates`), `ProcessEnds` |
| `cpu` | FEEDBACK, 2 programs of up to 6 instructions, 3 dispatches, `CpuFairSpec` | `TypeOK`, `CpuTypeOK`, `OneEach`, `FaultInTable`, `ExecutesPrograms` (refinement of `Programs`), `PcbComesBack` |
| `mem_progress` | CLOCK-M, 2 processes, 3 pages, 2 frames, `ScheduledSpec` | `TypeOK`, `FrameExclusive`, `FramesExact`, `MovCompletes` |
| `tlb_consistency` | CLOCK, the same, LRU with a TLB of 2 entries | `TlbTypeOK`, `StaleHasCheck` |
| `sockets` | 2 consoles, programs of 2 lines written in several ways, the modules launched in any order, `SystemFairSpec` | `SocketsTypeOK`, `PcbIsWhole`, `FreedBeforeExit`, `NobodyMissing`, `ConsolaEnds` |
| `sched_no_pcb` | FEEDBACK, 3 processes | *violates* `PcbIsAssigned` |
| `sched_fifo_order` | FIFO, 3 processes, a device | *violates* `ServedInOrder` |
| `quantum_own` | RR, 3 dispatches | *violates* `OwnQuantum` |
| `mem_clock_m_order` | CLOCK-M, 2 processes, 3 pages, 2 frames | *violates* `FirstPassWhole` |
| `mem_swap` | CLOCK, one process, 2 pages, 1 frame | *violates* `ReadsBack` |
| `tlb_mutex` | LRU, 2 processes, a TLB of 2 entries | *violates* `MutexReleased` |
| `sockets_shared` | 2 consoles | *violates* `OpCodeExpected` |

Why the bounds are enough to be interesting. Scheduler: the races need a thread inside
`log_ready` and one that pops; with two processes, a degree of 1 and three
unfinished bursts each, NEW is used, both READY queues are, and every kind of
thread meets every other. Larger instances (three processes) are in the
violation runs, and the invariants are proved for any number. CPU: an
interrupt must be able to skip a dispatch, hence three; the first program
writes in two segments, faults at any MOV and ends by a segmentation fault at
the first address after its last segment, the second uses all kinds of devices; the
starts are the first instruction, one in the middle and one past the end of
one of the programs. Words are of 2 bits (`WordSize = 4`), so ADD overflows.
Memoria: a victim
must be found while another process runs and a third page is
there to come back, hence two processes, three pages and two frames; one page
more or one access more changes the number of states and not the cases. Sockets:
the race needs one process that is created while another one finishes, hence
two consoles. No size, count or index of that run is 7, so the step
`AnswerTaken` (section 5) is not in it.
In every passing run each action of its next-state relation is taken.

Deadlock is not checked in any run: every instance is finite (the bounds end
it) and a system whose processes have ended is idle for ever.

Runs that stop at undefined behaviour (`kernel`, `memoria` or `cpu_module`
`"down"`) check the invariants in every state up to it.

### What the violated properties say of the code

* `sched_no_pcb`: under FEEDBACK the scheduler has a permit, and two processes
  wait. It looks at READY 1 while a thread that prints the queues has the one of
  READY 1 in its hands; the thread pushes it back and pops the one of READY 2;
  the scheduler looks at READY 2, then at NEW, which is empty. At every instant
  a process is in some queue (`PermitsMatch`), but no test finds one, and
  `send_pcb` is called with an unassigned pointer.
* `sched_fifo_order`: FIFO dispatches a process that arrived later, because
  `log_ready` was rotating the queue.
* `quantum_own`: an interrupt sent as its process comes back is received while
  the next one runs and ends that one's burst.
* `mem_clock_m_order`: the first pass of CLOCK-M covers only the pages
  from the pointer to the last table. `a1` of the first process was used, `b1` of
  the second one was mapped and is the victim when the first one faults on `a2`,
  which leaves the pointer at `b1` and `a2` mapped but not used. The second
  process faults on `b1` before the first one runs: the pass that looks for U = 0
  and M = 0 begins and ends at `b1`, and `a2`, which is such a page, is not
  looked at. A `find_victim` whose passes are whole turns from the pointer
  satisfies `FirstPassWhole` in the same instance.
* `mem_swap`: `swap_pos` is the position after the block that was written; the
  page is read back from there.
* `tlb_mutex`: a TLB hit leaves the mutex locked.
* `sockets_shared`: `main` waits for PROCESS_STARTED while the scheduler
  waits for PROCESS_FINISHED on the same socket; each takes the other's answer
  and the kernel exits.

## 4. Fairness

* `Scheduler!FairSpec`: weak fairness of each thread of the kernel, of memoria's
  answers and of the devices. Every thread is an unbounded loop around a
  blocking call; pthreads are preemptive, so a thread that can go on does. The
  CPU returns a pcb because programs are lists of instructions without jumps. No
  fairness for `CreateProcess`: no console is obliged to connect.
* `Cpu!CpuFairSpec`: weak fairness of the scheduler's dispatch, of the timer
  (usleep ends), of the CPU's interrupt thread and of its cycle, and of the
  threads that end an I/O or a page fault. The cycle is one formula: it is one
  thread, which does not choose. Nothing makes a MOV find its page for good: a fault ends
  the burst, and `PcbComesBack` is about bursts. `MaxInstructions` is at least the
  length of every program, so it never keeps a burst from its end.
* `Startup!SystemFairSpec`: weak fairness of each thread: the loop of a console, the
  threads of block_state by console, memoria, the CPU, `main`, the scheduler and
  the page faults. The starts are one formula, because scripts end and none can
  put off the others for ever. A user who is asked for a number writes one. None
  for `Launch` nor for the start of a console: nobody is obliged to run a program.
* `Memoria!ScheduledSpec`: weak fairness of both threads of memoria and of the
  CPU, and strong fairness of the dispatch of each process. The dispatch is
  strong because it is enabled only between two bursts of the others; that each
  ready process gets its turn is what `ProcessEnds` shows of the scheduler.

`MovCompletes` needs a frame for each process. With one frame for two processes
it is false: each fault takes the other's page, which is mapped with U = 0,
before its process has run. No document of the repository promises otherwise.

## 5. Proofs

The assumptions are those named in the modules (`SchedulerAssumption`,
`QuantumAssumption`, `AddressesAssumption`, `CpuAssumption`, `MemoriaAssumption`,
`CpuTlbAssumption`, `SocketsAssumption`): sets are finite, names of threads and
queues do not collide, the algorithm is one of the three, there is a frame, no
page is in two places of the tables, and the file of a console, however it is
written, parses to its program or not at all. TLC evaluates each of them in a
run. Besides, `PcbIsAlwaysThere` has the hypothesis `OneQueue`, and the theorems
about the pcbs of `Sockets` have `[][~ AnswerTaken]_vars`; both are explained below.

`SchedulerProofs` (any number of processes, devices and console threads):

1. `TypeCorrect`: `Spec => []TypeOK`. The inductive invariant `TypeInv` adds
   `Shape` to the types: a thread holds a pcb exactly at the labels where its
   local variable is in use. That the semaphore never exceeds the number of
   processes follows from 3.
2. `NeverLost`: `Spec => []OnePlace`. `PlaceInv` is `TypeInv /\ OnePlace`; a step
   moves one process from a queue to a hand, from a hand to a queue or from one
   hand to another (`QueueToHand`, `HandToQueue`, `HandToHand`), or it starts or
   ends one, or moves nothing.
3. `PermitsAlwaysMatch`: `Spec => []PermitsMatch`. It needs `OnePlace`: the
   cardinality of `Waiting` changes by one exactly because a process that is pushed was
   nowhere else. The lemmas `Count*` do the counting.
4. `PcbIsAlwaysThere`: under `OneQueue` (FIFO or RR, and no more processes than
   the degree) a test of the scheduler finds a pcb (`PcbIsAssigned`) and no thread
   pops an empty queue (`PcbAlwaysThere`). The argument is that
   of the permits: while the scheduler seeks, `Waiting` is at least one more than
   the threads that have not posted, and only those can have a process in their
   hands. Without `OneQueue` it is false (`sched_no_pcb`).
5. `SchedulerImplementsDiagram`: `Spec => ImplementsDiagram`, the refinement. By
   `NeverLost` a process is in one place, and its state in the diagram
   follows from that place (`StateIsPlace`). So a step that takes a
   process from a queue to a hand or back moves that one from the state of the
   one to the state of the other, and `Bystander` leaves the rest where they
   were. The one thing to add to the invariant is that a thread that
   prints has a READY queue in its hands (`PrintsReady`): otherwise a
   printed process would leave NEW without a reason.

`CpuProofs`, of `Addresses` (any address, any configuration):

* `AddressParts`, `AddressUnique`: `mmu` splits an address into parts in range, and
  no two addresses into the same ones. `PageExists`: an offset within the size of a segment is
  on a page of its table, last and partial page included. `ValueInPage`: a
  value of four bytes at an aligned address does not leave its page.
  `FramesApart`: no two frames share a byte of RAM.

`CpuProofs`, of `Quantum` (any number of dispatches, any length of burst):

1. `TypeCorrect`: there is one pcb, and one timer that is of the last dispatch.
2. `InterruptOnce`: `Spec => []OneEach`. `OneEach` is not inductive: the
   invariant `InOrder` says that the interrupts in the socket are in the order of
   their dispatches, older than the timer and newer than the flag and than
   every interrupt that was used; `FlagUnspent` that the flag the next check
   may use was not used before.

`CpuProofs`, of `Cpu` (any programs, segments, word size, number of dispatches):

1. `FollowsQuantum`: `CpuSpec => Spec` of `Quantum`: each action contains one of
   `Quantum` or leaves its variables alone. `PreemptsOnce` carries
   `InterruptOnce` over.
2. `OnePcbTravels`: `CpuSpec => []CpuTypeOK`, and `RegistersFit`: the pcbs the
   kernel has keep registers of the width of a word. From one invariant, `PcbInv`, on the pcb in the
   message, in the cycle and in the kernel.
3. `FaultsAreInTable`: `CpuSpec => []FaultInTable`. `FaultInv` follows the
   request from `pf`, written by the MOV that faults, through the message to
   `asked`; `PageExists` says its page is in the table.

`MemoriaProofs` (any number of processes, pages and frames, either algorithm):

1. `TypeCorrect`: `Spec => []TypeOK`, in which the pointer of the clock is
   always at a page of `page_tables`.
2. `OneOwner`: `Spec => []FrameExclusive`.
3. `NoFrameLost`: `Spec => []FramesExact`.

All three come from one inductive invariant, `FrameInv`, because none is
inductive alone. What a frame has to do with a socket: a fault maps a page without
looking whether it is mapped already, and a start resets its pages
without freeing their frames. Both are right only as long as those pages are
in no frame (`Absent`, for the pages `Missing`), and that holds because of the
protocol between the processes, the CPU and memoria: a process has one request
in the socket at most and its state says which (`OneRequest`), the fault being
served is of a process that waits (`Serving`), and no other process runs at the
same time on the CPU (`OneRuns`). `Loaded` gives the clock a page to look at;
`InHand` says what the main thread has in its local variables, in particular that the
victim is still mapped when it is saved.

`ProgramsProofs` (any programs, segments, word size, number of dispatches):

* `CpuImplementsPrograms`: `CpuSpec => ExecutesPrograms`, the refinement. `ProgramInv`
  adds to `PcbInv` what the flags say at each point of the cycle (`BurstFlags`: an end
  that was decided is not taken back, and a message to the CPU carries no
  reason) and that what a process waits for is what its last instruction
  asked (`IoInv`: `device_io` is a global of the CPU). Then every move of
  a pcb between kernel, socket and cycle is unseen (`*Unseen`), and every
  instruction is the step of `Programs` of its name (`*Step`). For the MOVs, `AddressesAgree`
  says that the test of `mov_execute` is that of a flat memory, and `Stores` uses
  `AddressUnique`: a write is seen at one address only.

`CpuTlbProofs` (any number of processes, pages, frames and entries, FIFO or LRU):

1. `TlbCorrect`, `OneOwnerWithTlb`: `CpuTlb` keeps the
   invariants of `Memoria` although its CPU is another one. Its steps are mapped
   to those of `Memoria` by `cpuBar`, which says what the CPU is doing for
   memoria; the only step that is new to memoria is the access after a TLB hit,
   which goes to a frame without asking for it.
2. `NoEntryForgotten`: `TlbSpec => []StaleHasCheck`, the subject of
   `tlb_consistency`: an entry whose page is no more in that frame is one some
   check on its way, or the one in progress, will remove. `StaleInv` adds what makes it inductive:
   the frame memoria has in its hands is free of entries that nobody will remove (`FrameFresh`), and
   the counter of `consistency_check` has not passed an entry it still has to
   remove. The second is delicate, as the other thread removes and replaces
   entries under it.

`SerializationProofs` (any object, any rest of the stream):

* `SegmentTableTrip`, `ListingTrip`, `SizesTrip`, `PcbTrip`: what a `recv_*`
  takes from the fields of its `send_*`, followed by anything, is the
  object that was sent, and the fields behind it stay in the socket. The number of segments,
  sizes, instructions and parameters of each is any. A sender flattens a list and
  a receiver loops, both recursive functions, so the proofs are by induction on the length:
  `NatSet` says it for a set of numbers, from the well-foundedness of `<`, because the
  library's rule takes an operator as a parameter, which no prover here can instantiate.

`SocketsInvariant`, `SocketsProofs` (any number of consoles, any programs, segments,
file texts, numbers typed and bursts):

1. `SocketsTyped`: `Spec => []SocketsTypeOK`; `PcbAlwaysWhole` and
   `AlwaysFreedBeforeExit`: `Spec /\ [][~ AnswerTaken]_vars => []PcbIsWhole` and
   `=> []FreedBeforeExit`. No variable
   says where the process of a console is: it may be a pcb in a queue or a run of
   fields in one of five sockets. So the invariant, `Kept`, says that there are
   a place and a pcb for each console (`place`, `proc`), an index of its first
   table (`base`), and lists of the messages whose fields are in
   `to_memoria` and in `page_fault` (`requests`, `resolved`), from which each
   queue and socket follows exactly (`Whole`, one conjunct per variable: `InReady`,
   `InIo`, `InDispatch`, `InRequests`, `Answers`...). An action moves one process
   (`Step`); the lemmas about a `Step` say that every conjunct about the others
   stands, and the round trips of `SerializationProofs` say what the one reader gets.
   `Answers` describes the socket with two readers: while the kernel is up, what is left of
   the answer to `main` is in front of that to the scheduler, or behind it if
   `main` has read nothing of its own.
2. `AnswerTaken` is about that socket. The op code of PROCESS_FINISHED is 7, and
   a thread looks at the first field only. While `main` reads the answer to
   PROCESS_STARTED, the scheduler may take a count of segments, a size or an index
   of a page table that is 7 for the answer it waits for. It then sends EXIT before
   the pages are freed, and `main` builds its pcb from what is left. This is in
   reach of the configurations of the repository: the consoles of
   `memoria_consola1` and `memoria_consola2` have eight tables together, the last of
   which has the index 7. The
   theorems say that nothing else breaks `PcbIsWhole` and `FreedBeforeExit`: they
   hold of every behaviour up to its first such step, whatever the number of
   consoles and segments. With sizes of 7 TLC finds both violated by that step,
   and neither without it. When the wrong thread reads any
   other field the kernel exits (`sockets_shared`), which both survive.
   Where each process is does not depend on the values of the answers, so
   `SocketsTyped` needs no hypothesis: the proof carries `Kept("places")`, in which
   `Answers`, `InTables` and what `main` has read say nothing, through every step, and
   `Kept("all")` through those that are not `AnswerTaken`.
3. `SystemKeepsIt`: the same from `SystemSpec`, in which modules are
   launched in any order and may exit: a step of `Startup` is one of a launch or a script, which leaves
   the pcbs and sockets of `Sockets` alone, or a step of `Sockets`.
4. `NobodyMissingAlways`: `SystemSpec => []NobodyMissing`. `Order` says what
   each thread has done by the call it is at (`MemoriaPast`, `CpuPast`,
   `KernelPast`), for instance that memoria listens for the kernel only
   after the third thread of the CPU connected; that chain is the whole
   reason why a kernel that listens for consoles has lost nobody.

The invariant `Kept` cannot be given to TLC as it is, since it quantifies over
all pcbs; TLC checks its consequences in `sockets`, and the other inductive invariants
of this section are stated over the variables alone.

Only model-checked: liveness (`ProcessEnds`, `PcbComesBack`, `MovCompletes`,
`ConsolaEnds`), which the proof system cannot do. Every invariant and
every refinement that a passing run checks is also a theorem.

## 6. Plan

Done, in this order: `Scheduler`, `ProcessStates`, `SchedulerProofs`,
`Memoria`, `CpuTlb`, `Quantum`, `MemoriaProofs`; then `Addresses`, `Programs`,
`Cpu`, `Parser`, `Serialization`, `Sockets`, `Startup` and the proofs `CpuProofs`,
`CpuTlbProofs`, `ProgramsProofs`; then `SerializationProofs`,
`SocketsInvariant` and `SocketsProofs`. What is left:

1. Action properties as theorems: what a step of `Sockets` may never do to the
   counter and registers of a pcb, and of `Memoria` to a frame in use.
2. That `Parse` accepts what `SocketsAssumption` says of it, for any spacing: a
   proof by `NatSet` over the tokens of a file.
3. The requests of the CPU to memoria field by field, in `Sockets`; they have one reader
   and one writer at each end.

## 7. What is not modelled

* Logging, apart from the queue rotation of `log_ready`, which changes state.
* The scripts that launch the modules and what is wrong in a configuration file
  (a missing key, a port in use). Every model but `Startup` begins with the
  connections made, which is what `NobodyMissing` says of a kernel that
  listens for consoles.
* Bytes: a message is a sequence of fields. A `recv` that returns fewer bytes
  than it was asked for, the length of strings and of words of a program, and the
  layout of structures are left out; so is the limit of the parser's buffer.
* The internals of the commons lists under simultaneous calls: each call is
  one step. What the models show of the kernel's races is therefore a lower
  bound of what can happen.
* Addresses that are not aligned: the programs of `config/` use aligned ones,
  for which `ValueInPage` holds. Without that a MOV writes into the next frame.
  Negative numbers, and sizes of 2^24 and more, where `page_ammount`'s float is not exact.
* `Cpu` has no TLB and a memory that returns what was written last; `CpuTlb`
  has the TLB and no values, `MemoriaData` the values and shows that swap loses them. What
  `ExecutesPrograms` says is so of the CPU and the kernel, given such a memory.
* `Sockets` starts programs at 0 and counts bursts instead of instructions, and its
  devices are the console's; the others have no message. An exit of the kernel stops
  it at the next step of the thread that called it.
* The limits of the RAM and of the operating system (a full disk, a failed
  `send`), which the code does not handle.
* Behaviour the repository makes no promise about is not a property:
  `GRADO_MAX_MULTIPROGRAMACION` is compared with the length of one queue only,
  `MARCOS_POR_PROCESO` is read and never used, memoria is not told of a
  SEGMENTATION_FAULT, a file that ends with a newline makes the console exit.
  The hazards of `PROJECT.json` list them with their lines.
