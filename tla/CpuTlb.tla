------------------------------- MODULE CpuTlb -------------------------------
(***************************************************************************)
(* The CPU with a TLB (cpu.c, ENTRADAS_TLB > 0) next to memoria.  Three    *)
(* threads touch the pages and the copies of their frames: the instruction *)
(* cycle of the CPU, which fills the TLB, the thread consistency_check,    *)
(* which removes the entries of a frame that memoria gave away, and the    *)
(* main thread of memoria, which gives it away first and tells the CPU     *)
(* afterwards.  sem_mutex_tlb is taken by mov_execute and by               *)
(* consistency_check; the EXIT instruction walks the TLB without it.       *)
(* The handlers of memoria are those of module Memoria.                    *)
(***************************************************************************)
EXTENDS Memoria

CONSTANTS
  TlbSize,      \* ENTRADAS_TLB of cpu.config
  TlbAlgorithm  \* REEMPLAZO_TLB of cpu.config

ASSUME CpuTlbAssumption ==
  /\ TlbSize \in Nat
  /\ TlbAlgorithm \in {"FIFO", "LRU"}

VARIABLES
  tlb,        \* the entries, in the order of the list
  timestamp,
  mutex,      \* who has sem_mutex_tlb: "free", "cpu" or "checker"
  hit,        \* the MOV that executes found its page in the TLB
  exit_i,     \* the counter i of the EXIT instruction
  checker,    \* thread consistency_check: where it is, its frame and its i
  cpu_module  \* "down" once the CPU used an entry that is not there

tlbvars == <<tlb, timestamp, mutex, hit, exit_i, checker, cpu_module>>
tvars   == <<mvars, tlbvars>>

Waiting == [at |-> "recv", frame |-> NoFrame, i |-> -1]

TlbInit ==
  /\ Init
  /\ tlb = << >>
  /\ timestamp = 0
  /\ mutex = "free"
  /\ hit = FALSE
  /\ exit_i = -1
  /\ checker = Waiting
  /\ cpu_module = "up"

(* The last entry of the list, so the counter i of a loop starts there.    *)
Last0 == Len(tlb) - 1

-----------------------------------------------------------------------------
(* mov_execute.                                                            *)

(* The MMU and the check for a segmentation fault are behind it, the CPU   *)
(* is at pthread_mutex_lock.                                               *)
TlbMov(p, x, op) ==
  /\ Mov(p, x, op)
  /\ cpu' = [cpu EXCEPT !.at = "lock"]
  /\ UNCHANGED <<main, data, tables, to_memoria, to_tlb, proc, memoria, tlbvars>>

(* check_tlb: the entries of the page, there is one at most.               *)
Entries(p, x) == {i \in DOMAIN tlb : tlb[i].pid = p /\ tlb[i].page = x}

(* Mutant: the mutex is not taken for a TLB miss.                          *)
TlbMissUnlocked(p) ==
  /\ proc[p] = "running" /\ cpu.at = "lock"
  /\ mutex = "free"
  /\ Entries(p, mov[p].page) = {}
  /\ hit' = FALSE
  /\ cpu' = [cpu EXCEPT !.at = "FRAME_ACCESS"]
  /\ UNCHANGED <<main, data, tables, mov, accesses, to_memoria, to_tlb, proc, memoria,
                 tlb, timestamp, mutex, exit_i, checker, cpu_module>>

TlbMiss(p) ==
  /\ proc[p] = "running" /\ cpu.at = "lock"
  /\ mutex = "free"
  /\ Entries(p, mov[p].page) = {}
  /\ mutex' = "cpu" /\ hit' = FALSE
  /\ cpu' = [cpu EXCEPT !.at = "FRAME_ACCESS"]
  /\ UNCHANGED <<main, data, tables, mov, accesses, to_memoria, to_tlb, proc, memoria,
                 tlb, timestamp, exit_i, checker, cpu_module>>

(* Under LRU the entry gets a new time.                                    *)
TlbHit(p) ==
  /\ proc[p] = "running" /\ cpu.at = "lock"
  /\ mutex = "free"
  /\ \E i \in Entries(p, mov[p].page) :
       /\ cpu' = [at |-> "RAM_ACCESS", frame |-> tlb[i].frame]
       /\ IF TlbAlgorithm = "LRU"
            THEN /\ tlb' = [tlb EXCEPT ![i].time = timestamp]
                 /\ timestamp' = timestamp + 1
            ELSE UNCHANGED <<tlb, timestamp>>
  /\ mutex' = "cpu" /\ hit' = TRUE
  /\ UNCHANGED <<main, data, tables, mov, accesses, to_memoria, to_tlb, proc, memoria,
                 exit_i, checker, cpu_module>>

(* add_to_tlb, or replace_tlb_input when it is full: the entry with the    *)
(* lowest time is overwritten where it is.                                 *)
Oldest == CHOOSE i \in DOMAIN tlb : \A j \in DOMAIN tlb : tlb[i].time <= tlb[j].time

(* Mutant: list_size(tlb) <= inputs_tlb.                                   *)
FillOneMore(entry) ==
  IF TlbSize = 0 THEN tlb
  ELSE IF Len(tlb) <= TlbSize THEN Append(tlb, entry)
  ELSE [tlb EXCEPT ![Oldest] = entry]

Fill(entry) ==
  IF TlbSize = 0 THEN tlb
  ELSE IF Len(tlb) < TlbSize THEN Append(tlb, entry)
  ELSE [tlb EXCEPT ![Oldest] = entry]

(* The frame has come, the entry is added and the RAM access sent.         *)
TlbFill(p) ==
  /\ proc[p] = "running" /\ cpu.at = "frame"
  /\ tlb' = Fill([pid |-> p, page |-> mov[p].page, frame |-> cpu.frame, time |-> timestamp])
  /\ timestamp' = IF TlbSize = 0 THEN timestamp ELSE timestamp + 1
  /\ cpu' = [cpu EXCEPT !.at = "RAM_ACCESS"]
  /\ UNCHANGED <<main, data, tables, mov, accesses, to_memoria, to_tlb, proc, memoria,
                 mutex, hit, exit_i, checker, cpu_module>>

(* The page fault and the unlock.                                          *)
TlbPageFault(p) ==
  /\ PageFault(p)
  /\ mutex' = "free"
  /\ UNCHANGED <<tlb, timestamp, hit, exit_i, checker, cpu_module>>

(* The answer to the RAM access; pthread_mutex_unlock is in the branch of  *)
(* the TLB miss only, after a hit the mutex stays locked.                  *)
TlbAnswered(p) ==
  /\ Answered(p)
  /\ mutex' = IF hit THEN mutex ELSE "free"
  /\ UNCHANGED <<tlb, timestamp, hit, exit_i, checker, cpu_module>>

-----------------------------------------------------------------------------
(* The EXIT instruction removes the entries of its process, from the last  *)
(* one to the first.                                                       *)

TlbExit(p) ==
  /\ Between(p)
  /\ cpu' = [cpu EXCEPT !.at = "exit_get"]
  /\ exit_i' = Last0
  /\ UNCHANGED <<main, data, tables, mov, accesses, to_memoria, to_tlb, proc, memoria,
                 tlb, timestamp, mutex, hit, checker, cpu_module>>

ExitGet(p) ==
  /\ proc[p] = "running" /\ cpu.at = "exit_get"
  /\ exit_i \in 0 .. Last0
  /\ IF tlb[exit_i + 1].pid = p
       THEN cpu' = [cpu EXCEPT !.at = "exit_remove"] /\ exit_i' = exit_i
       ELSE cpu' = cpu /\ exit_i' = exit_i - 1
  /\ UNCHANGED <<main, data, tables, mov, accesses, to_memoria, to_tlb, proc, memoria,
                 tlb, timestamp, mutex, hit, checker, cpu_module>>

(* list_remove of commons removes nothing when the index is past the end.  *)
RemoveEntry(i) == tlb' = IF i <= Last0 THEN RemoveAt(tlb, i + 1) ELSE tlb

ExitRemove(p) ==
  /\ proc[p] = "running" /\ cpu.at = "exit_remove"
  /\ RemoveEntry(exit_i)
  /\ exit_i' = exit_i - 1
  /\ cpu' = [cpu EXCEPT !.at = "exit_get"]
  /\ UNCHANGED <<main, data, tables, mov, accesses, to_memoria, to_tlb, proc, memoria,
                 timestamp, mutex, hit, checker, cpu_module>>

(* The pcb goes back as EXECUTION_FINISHED and the kernel tells memoria.   *)
ExitEnd(p) ==
  /\ proc[p] = "running" /\ cpu.at = "exit_get"
  /\ exit_i < 0
  /\ cpu' = Idle
  /\ Move(p, "finishing")
  /\ Ask("PROCESS_FINISHED", p, NoPage)
  /\ UNCHANGED <<main, data, tables, mov, accesses, to_tlb, memoria, tlbvars>>

-----------------------------------------------------------------------------
(* Thread consistency_check.                                               *)

ReceiveCheck ==
  /\ checker.at = "recv"
  /\ to_tlb # << >>
  /\ to_tlb' = Tail(to_tlb)
  /\ checker' = [Waiting EXCEPT !.at = "lock", !.frame = Head(to_tlb)]
  /\ UNCHANGED <<main, data, tables, program, to_memoria, proc, memoria, tlb, timestamp,
                 mutex, hit, exit_i, cpu_module>>

LockCheck ==
  /\ checker.at = "lock"
  /\ mutex = "free"
  /\ mutex' = "checker"
  /\ checker' = [checker EXCEPT !.at = "get", !.i = Last0]
  /\ UNCHANGED <<mvars, tlb, timestamp, hit, exit_i, cpu_module>>

CheckGet ==
  /\ checker.at = "get"
  /\ checker.i \in 0 .. Last0
  /\ checker' = IF tlb[checker.i + 1].frame = checker.frame
                  THEN [checker EXCEPT !.at = "remove"]
                  ELSE [checker EXCEPT !.i = @ - 1]
  /\ UNCHANGED <<mvars, tlb, timestamp, mutex, hit, exit_i, cpu_module>>

CheckRemove ==
  /\ checker.at = "remove"
  /\ RemoveEntry(checker.i)
  /\ checker' = [checker EXCEPT !.at = "get", !.i = @ - 1]
  /\ UNCHANGED <<mvars, timestamp, mutex, hit, exit_i, cpu_module>>

UnlockCheck ==
  /\ checker.at = "get"
  /\ checker.i < 0
  /\ mutex' = "free"
  /\ checker' = Waiting
  /\ UNCHANGED <<mvars, tlb, timestamp, hit, exit_i, cpu_module>>

(* list_get past the end of the list is NULL: one of the two loops reads   *)
(* the fields of an entry that the other has removed meanwhile.            *)
NoEntry ==
  /\ \/ cpu.at = "exit_get" /\ exit_i > Last0
     \/ checker.at = "get" /\ checker.i > Last0
  /\ cpu_module' = "down"
  /\ UNCHANGED <<mvars, tlb, timestamp, mutex, hit, exit_i, checker>>

-----------------------------------------------------------------------------
MovExecuteTlb(p) ==
  \/ \E x \in PagesOf(p), op \in Ops : TlbMov(p, x, op)
  \/ TlbMiss(p)
  \/ TlbHit(p)
  \/ TlbFill(p)
  \/ TlbPageFault(p)
  \/ TlbAnswered(p)

ExitTlb(p) == TlbExit(p) \/ ExitGet(p) \/ ExitRemove(p) \/ ExitEnd(p)

ConsistencyThread == ReceiveCheck \/ LockCheck \/ CheckGet \/ CheckRemove \/ UnlockCheck

TlbNext ==
  /\ memoria = "up" /\ cpu_module = "up"
  /\ \/ (Kernel \/ HandleKernel) /\ UNCHANGED tlbvars
     \/ \E p \in Pids :
          \/ MovExecuteTlb(p)
          \/ ExitTlb(p)
          \/ (Preempt(p) \/ SegFault(p) \/ HandleCpu(p)) /\ UNCHANGED tlbvars
     \/ ConsistencyThread
     \/ NoEntry

TlbSpec == TlbInit /\ [][TlbNext]_tvars
-----------------------------------------------------------------------------
(* Properties.                                                             *)

(* The shape of the TLB: never more than ENTRADAS_TLB entries, never two   *)
(* of the same page nor two of the same time, and the mutex in the hands   *)
(* of the thread that is inside it.                                        *)
TlbTypeOK ==
  /\ tlb \in Seq([pid : Pids, page : Pages, frame : Frames, time : Nat])
  /\ Len(tlb) <= TlbSize
  /\ \A i, j \in DOMAIN tlb :
       tlb[i].page = tlb[j].page \/ tlb[i].time = tlb[j].time => i = j
  /\ timestamp \in Nat
  /\ mutex = "checker" <=> checker.at \in {"get", "remove"}
  /\ cpu.at \in {"FRAME_ACCESS", "frame", "PAGE_FAULT"} => mutex = "cpu"

(* The invalidation of the entry i is on its way: memoria has not sent it  *)
(* yet, it is in the socket, or the thread that removes it has still to    *)
(* reach the entry.                                                        *)
CheckPending(i) ==
  LET f == tlb[i].frame
  IN  \/ at \in {"map", "copy", "tlb_consistency"} /\ frame = f
      \/ f \in ToSet(to_tlb)
      \/ checker.frame = f /\ (checker.at = "lock" \/ i <= checker.i + 1)

(* "un hilo que escuche la memoria y se encargue de limpiar la TLB con las *)
(* cosas que se swapeen para evitar inconsistencia" (cpu.c:447-448): an    *)
(* entry of a process that has not ended says where its page is, or its    *)
(* removal is on its way, however the fill, the eviction and the removal   *)
(* interleave.                                                             *)
StaleHasCheck ==
  \A i \in DOMAIN tlb :
    \/ proc[tlb[i].pid] \in {"finishing", "finished"}
    \/ page[tlb[i].page].P /\ page[tlb[i].page].frame = tlb[i].frame
    \/ CheckPending(i)

(* "Bloqueo" and "Desbloqueo" (cpu.c:272 and cpu.c:310): between two       *)
(* instructions the CPU does not have the mutex of the TLB.                *)
MutexReleased == \A p \in Pids : Between(p) => mutex # "cpu"

=============================================================================
