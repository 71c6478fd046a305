---------------------------- MODULE CpuTlbProofs ----------------------------
(***************************************************************************)
(* Theorems about CpuTlb, for any processes, pages, frames, size of the    *)
(* TLB and replacement algorithm.                                          *)
(***************************************************************************)
EXTENDS CpuTlb, SequenceTheorems, TLAPS

(* The CPU as memoria sees it: a MOV that waits for the mutex is one that  *)
(* will ask for its frame, and memoria is not told of the loop of EXIT.    *)
cpuBar ==
  CASE cpu.at \in {"exit_get", "exit_remove"} -> Idle
    [] cpu.at = "lock" -> [at |-> "FRAME_ACCESS", frame |-> NoFrame]
    [] OTHER           -> cpu

M == INSTANCE MemoriaProofs WITH cpu <- cpuBar

LEMMA Assumed == M!MemoriaAssumption
BY MemoriaAssumption DEF M!MemoriaAssumption

(* What the CPU and its thread of the TLB have: the mutex is taken by the  *)
(* one that is inside, and an EXIT has no MOV under way.                   *)
CpuShape ==
  /\ cpu.at \in CpuSteps \cup {"lock", "exit_get", "exit_remove"}
  /\ cpu = [at |-> cpu.at, frame |-> cpu.frame]
  /\ cpu.at \in {"idle", "lock", "exit_get", "exit_remove"} => cpu.frame = NoFrame
  /\ cpu.at \in {"exit_get", "exit_remove"} =>
       /\ \E p \in Pids : proc[p] = "running"
       /\ \A p \in Pids : proc[p] = "running" => mov[p] = NoMov

LEMMA KernelMapped ==
  ASSUME Kernel \/ HandleKernel, UNCHANGED cpu
  PROVE  M!Kernel \/ M!HandleKernel
<1>1. cpuBar' = cpuBar  BY DEF cpuBar
<1> USE <1>1 DEF main, data, tables, program, M!main, M!data, M!tables, M!program
<1>2. CASE Kernel
  BY <1>2 DEF Kernel, CreateProcess, Dispatch, Move, Ask,
              M!Kernel, M!CreateProcess, M!Dispatch, M!Move, M!Ask
<1>3. CASE HandleKernel
  <2>1. ProcessStarted => M!ProcessStarted
    BY DEF ProcessStarted, Receive, Asker, Move, PagesOf, EmptyPage, NoFrame, ToSet,
           M!ProcessStarted, M!Receive, M!Asker, M!Move, M!PagesOf, M!EmptyPage, M!NoFrame, M!ToSet
  <2>2. ProcessFinished => M!ProcessFinished
    BY DEF ProcessFinished, Receive, Asker, Move, PagesOf, EmptyPage, NoFrame, ToSet, Frames, InFrame,
           M!ProcessFinished, M!Receive, M!Asker, M!Move, M!PagesOf, M!EmptyPage, M!NoFrame, M!ToSet, M!Frames, M!InFrame
  <2>3. ResolvePageFault => M!ResolvePageFault
    BY DEF ResolvePageFault, Receive, NoData, ReadFromSwap, Copied,
           M!ResolvePageFault, M!Receive, M!NoData, M!ReadFromSwap, M!Copied
  <2>4. FindFreeFrame => M!FindFreeFrame
    BY DEF FindFreeFrame, FreeFrames, Frames,
           M!FindFreeFrame, M!FreeFrames, M!Frames
  <2>5. NoFreeFrame => M!NoFreeFrame
    BY DEF NoFreeFrame, FreeFrames, Frames,
           M!NoFreeFrame, M!FreeFrames, M!Frames
  <2>6. FindVictim => M!FindVictim
    BY DEF FindVictim, IsVictim, Unused,
           M!FindVictim, M!IsVictim, M!Unused
  <2>7. Save => M!Save
    BY DEF Save, Copied,
           M!Save, M!Copied
  <2>8. Evict => M!Evict
    BY DEF Evict,
           M!Evict
  <2>9. Map => M!Map
    BY DEF Map,
           M!Map
  <2>10. CopyToRam => M!CopyToRam
    BY DEF CopyToRam, Cells, Copied,
           M!CopyToRam, M!Cells, M!Copied
  <2>11. SendConsistencyCheck => M!SendConsistencyCheck
    BY DEF SendConsistencyCheck,
           M!SendConsistencyCheck
  <2>12. PageFaultResolved => M!PageFaultResolved
    BY DEF PageFaultResolved, PagesOf, ToSet, Move, NoRequest, NoFrame, NoData, Copied,
           M!PageFaultResolved, M!PagesOf, M!ToSet, M!Move, M!NoRequest, M!NoFrame, M!NoData, M!Copied
  <2> QED
    BY <1>3, <2>1, <2>2, <2>3, <2>4, <2>5, <2>6, <2>7, <2>8, <2>9, <2>10, <2>11, <2>12
       DEF HandleKernel, M!HandleKernel
<1> QED BY <1>2, <1>3

LEMMA CpuMapped ==
  ASSUME NEW p \in Pids, Preempt(p) \/ SegFault(p) \/ HandleCpu(p), CpuShape
  PROVE  M!Preempt(p) \/ M!SegFault(p) \/ M!HandleCpu(p)
<1> USE DEF main, data, tables, program, M!main, M!data, M!tables, M!program
<1>1. CASE Preempt(p)
  <2>1. cpu = Idle /\ cpu' = cpu /\ cpuBar = Idle /\ cpuBar' = cpuBar
    BY <1>1 DEF Preempt, Between, cpuBar, Idle
  <2> QED BY <1>1, <2>1 DEF Preempt, Between, Move, Idle, NoMov, NoFrame,
       M!Preempt, M!Between, M!Move, M!Idle, M!NoMov, M!NoFrame
<1>2. CASE SegFault(p)
  <2>1. cpu = Idle /\ cpu' = cpu /\ cpuBar = Idle /\ cpuBar' = cpuBar
    BY <1>2 DEF SegFault, Between, cpuBar, Idle
  <2> QED BY <1>2, <2>1 DEF SegFault, Between, Move, Idle, NoMov, NoFrame,
       M!SegFault, M!Between, M!Move, M!Idle, M!NoMov, M!NoFrame
<1>3. CASE FrameAccess(p)
  <2>1. cpu.at = "FRAME_ACCESS" /\ cpuBar = cpu
    BY <1>3 DEF FrameAccess, cpuBar
  <2>2. cpu'.at \in {"frame", "PAGE_FAULT"} /\ cpuBar' = cpu'
    BY <1>3 DEF FrameAccess, cpuBar
  <2> QED BY <1>3, <2>1, <2>2 DEF FrameAccess, NoFrame, M!FrameAccess, M!NoFrame, M!HandleCpu
<1>4. CASE RamAccess(p)
  <2>1. cpu.at = "RAM_ACCESS" /\ cpuBar = cpu
    BY <1>4 DEF RamAccess, cpuBar
  <2>2. cpu'.at = "memcpy" /\ cpuBar' = cpu'
    BY <1>4 DEF RamAccess, cpuBar, CpuShape
  <2> QED BY <1>4, <2>1, <2>2 DEF RamAccess, InFrame, PagesOf, ToSet,
       M!RamAccess, M!InFrame, M!PagesOf, M!ToSet, M!HandleCpu
<1>5. CASE RamAccessNoPage(p)
  <2>1. cpu.at = "RAM_ACCESS" /\ cpuBar = cpu /\ cpuBar' = cpuBar
    BY <1>5 DEF RamAccessNoPage, cpuBar
  <2> QED BY <1>5, <2>1 DEF RamAccessNoPage, InFrame, PagesOf, ToSet,
       M!RamAccessNoPage, M!InFrame, M!PagesOf, M!ToSet, M!HandleCpu
<1>6. CASE RamCopy(p)
  <2>1. cpu.at = "memcpy" /\ cpuBar = cpu
    BY <1>6 DEF RamCopy, cpuBar
  <2>2. cpu'.at = "answer" /\ cpuBar' = cpu'
    BY <1>6 DEF RamCopy, cpuBar, CpuShape
  <2> QED BY <1>6, <2>1, <2>2 DEF RamCopy, M!RamCopy, M!HandleCpu
<1> QED BY <1>1, <1>2, <1>3, <1>4, <1>5, <1>6 DEF HandleCpu

LEMMA MovMapped ==
  ASSUME NEW p \in Pids, MovExecuteTlb(p), ~ TlbHit(p), CpuShape
  PROVE  M!Cpu(p) \/ UNCHANGED M!mvars
<1> USE DEF main, data, tables, program, M!main, M!data, M!tables, M!program
<1>1. ASSUME NEW x \in PagesOf(p), NEW op \in Ops, TlbMov(p, x, op)
      PROVE  M!MovExecute(p, x, op)
  <2>1. cpu = Idle /\ cpuBar = Idle
    BY <1>1 DEF TlbMov, Mov, cpuBar, Idle
  <2>2. cpu' = [at |-> "lock", frame |-> NoFrame]
    BY <1>1, <2>1 DEF TlbMov, Idle
  <2>3. cpuBar' = [cpuBar EXCEPT !.at = "FRAME_ACCESS"]
    BY <2>1, <2>2 DEF cpuBar, Idle
  <2> QED BY <1>1, <2>1, <2>3 DEF TlbMov, Mov, Idle, NoMov, NoFrame,
       M!MovExecute, M!Mov, M!Idle, M!NoMov, M!NoFrame
<1>2. ASSUME TlbMiss(p) PROVE UNCHANGED M!mvars
  <2>1. cpu.at = "lock" /\ cpu.frame = NoFrame /\ cpu' = [cpu EXCEPT !.at = "FRAME_ACCESS"]
    BY <1>2 DEF TlbMiss, CpuShape
  <2>2. cpu' = [at |-> "FRAME_ACCESS", frame |-> NoFrame]
    BY <2>1 DEF CpuShape
  <2>3. cpuBar' = cpuBar
    BY <2>1, <2>2 DEF cpuBar
  <2> QED BY <1>2, <2>3 DEF TlbMiss, M!mvars
<1>3. ASSUME TlbFill(p) PROVE M!TlbAccess(p)
  <2>1. cpu.at = "frame" /\ cpuBar = cpu
    BY <1>3 DEF TlbFill, cpuBar
  <2>2. cpu'.at = "RAM_ACCESS" /\ cpuBar' = cpu'
    BY <1>3 DEF TlbFill, cpuBar, CpuShape
  <2> QED BY <1>3, <2>1, <2>2 DEF TlbFill, M!TlbAccess
<1>4. ASSUME TlbPageFault(p) PROVE M!PageFault(p)
  <2>1. cpu.at = "PAGE_FAULT" /\ cpuBar = cpu
    BY <1>4 DEF TlbPageFault, PageFault, cpuBar
  <2>2. cpuBar' = Idle
    BY <1>4 DEF TlbPageFault, PageFault, cpuBar, Idle
  <2> QED BY <1>4, <2>1, <2>2 DEF TlbPageFault, PageFault, Move, Ask, Idle, NoFrame,
       M!PageFault, M!Move, M!Ask, M!Idle, M!NoFrame
<1>5. ASSUME TlbAnswered(p) PROVE M!Answered(p)
  <2>1. cpu.at = "answer" /\ cpuBar = cpu
    BY <1>5 DEF TlbAnswered, Answered, cpuBar
  <2>2. cpuBar' = Idle
    BY <1>5 DEF TlbAnswered, Answered, cpuBar, Idle
  <2> QED BY <1>5, <2>1, <2>2 DEF TlbAnswered, Answered, Idle, NoMov, NoFrame,
       M!Answered, M!Idle, M!NoMov, M!NoFrame
<1>6. M!PagesOf(p) = PagesOf(p)
  BY DEF PagesOf, ToSet, M!PagesOf, M!ToSet
<1> QED
  BY <1>1, <1>2, <1>3, <1>4, <1>5, <1>6 DEF MovExecuteTlb, M!Cpu

LEMMA ExitMapped ==
  ASSUME NEW p \in Pids, ExitTlb(p), CpuShape
  PROVE  M!Exit(p) \/ UNCHANGED M!mvars
<1> USE DEF main, data, tables, program, M!main, M!data, M!tables, M!program
<1>1. ASSUME TlbExit(p) PROVE UNCHANGED M!mvars
  <2>1. cpuBar = Idle  BY <1>1 DEF TlbExit, Between, cpuBar, Idle
  <2>2. cpu'.at = "exit_get"  BY <1>1 DEF TlbExit, Between, Idle
  <2>3. cpuBar' = cpuBar  BY <2>1, <2>2 DEF cpuBar
  <2> QED BY <1>1, <2>3 DEF TlbExit, M!mvars
<1>2. ASSUME ExitGet(p) \/ ExitRemove(p) PROVE UNCHANGED M!mvars
  <2>1. cpu.at \in {"exit_get", "exit_remove"} /\ cpu'.at \in {"exit_get", "exit_remove"}
    BY <1>2 DEF ExitGet, ExitRemove, CpuShape
  <2>2. cpuBar' = cpuBar  BY <2>1 DEF cpuBar
  <2> QED BY <1>2, <2>2 DEF ExitGet, ExitRemove, M!mvars
<1>3. ASSUME ExitEnd(p) PROVE M!Exit(p)
  <2>1. cpuBar = Idle /\ cpuBar' = Idle  BY <1>3 DEF ExitEnd, cpuBar, Idle
  <2>2. proc[p] = "running" /\ mov[p] = NoMov  BY <1>3 DEF ExitEnd, CpuShape
  <2> QED BY <1>3, <2>1, <2>2 DEF ExitEnd, Move, Ask, Idle, NoMov, NoFrame,
       M!Exit, M!Between, M!Move, M!Ask, M!Idle, M!NoMov, M!NoFrame
<1> QED BY <1>1, <1>2, <1>3 DEF ExitTlb

LEMMA TlbThreadMapped ==
  ASSUME ConsistencyThread \/ NoEntry
  PROVE  M!ConsistencyCheck \/ UNCHANGED M!mvars
<1> USE DEF main, data, tables, program, mvars, M!main, M!data, M!tables, M!program
<1>1. cpuBar' = cpuBar
  <2>1. cpu' = cpu
    BY DEF ConsistencyThread, ReceiveCheck, LockCheck, CheckGet, CheckRemove, UnlockCheck,
           NoEntry
  <2> QED BY <2>1 DEF cpuBar
<1>2. ASSUME ReceiveCheck PROVE M!ConsistencyCheck
  BY <1>1, <1>2 DEF ReceiveCheck, M!ConsistencyCheck
<1>3. ASSUME LockCheck \/ CheckGet \/ CheckRemove \/ UnlockCheck \/ NoEntry
      PROVE  UNCHANGED M!mvars
  BY <1>1, <1>3 DEF LockCheck, CheckGet, CheckRemove, UnlockCheck, NoEntry, M!mvars
<1> QED BY <1>2, <1>3 DEF ConsistencyThread

(* Every step but a TLB hit is one of memoria and a CPU without TLB, or    *)
(* changes nothing that they have.                                         *)
LEMMA StepIsMemoria ==
  ASSUME CpuShape, [TlbNext]_tvars
  PROVE  [M!Next]_(M!mvars) \/ \E p \in Pids : TlbHit(p)
<1>1. CASE (Kernel \/ HandleKernel) /\ UNCHANGED tlbvars /\ memoria = "up"
  <2>1. UNCHANGED cpu
    BY <1>1 DEF Kernel, CreateProcess, Dispatch, HandleKernel, ProcessStarted,
         ProcessFinished, ResolvePageFault, FindFreeFrame, NoFreeFrame, FindVictim, Save,
         Evict, Map, CopyToRam, SendConsistencyCheck, PageFaultResolved, program
  <2> QED BY <1>1, <2>1, KernelMapped DEF M!Next
<1>2. ASSUME NEW p \in Pids, MovExecuteTlb(p), ~ TlbHit(p), memoria = "up"
      PROVE  [M!Next]_(M!mvars)
  BY <1>2, MovMapped DEF M!Next
<1>3. ASSUME NEW p \in Pids, ExitTlb(p), memoria = "up"
      PROVE  [M!Next]_(M!mvars)
  BY <1>3, ExitMapped DEF M!Next, M!Process
<1>4. ASSUME NEW p \in Pids, Preempt(p) \/ SegFault(p) \/ HandleCpu(p), memoria = "up"
      PROVE  [M!Next]_(M!mvars)
  BY <1>4, CpuMapped DEF M!Next, M!Process
<1>5. CASE (ConsistencyThread \/ NoEntry) /\ memoria = "up"
  BY <1>5, TlbThreadMapped DEF M!Next
<1>6. CASE UNCHANGED tvars
  <2>1. UNCHANGED <<mvars, cpuBar>>
    BY <1>6 DEF tvars, mvars, program, cpuBar
  <2> QED BY <2>1 DEF mvars, main, data, tables, program,
                      M!mvars, M!main, M!data, M!tables, M!program
<1> QED BY <1>1, <1>2, <1>3, <1>4, <1>5, <1>6 DEF TlbNext

-----------------------------------------------------------------------------
(* The main thread ends the processes that finish and wakes those that     *)
(* wait, never the one that runs.                                          *)
LEMMA MainMoves ==
  ASSUME M!FrameInv, HandleKernel
  PROVE  \A p \in Pids :
           /\ proc'[p] = "running" <=> proc[p] = "running"
           /\ proc[p] \in {"finishing", "finished"} => proc'[p] \in {"finishing", "finished"}
<1>a. M!TypeOK /\ M!OneRequest /\ M!Serving
  BY DEF M!FrameInv, M!Protocol
<1>b. proc \in [Pids -> Lives]
  BY <1>a DEF M!TypeOK, M!Lives, Lives
<1>1. CASE UNCHANGED proc
  BY <1>1
<1>2. ASSUME NEW type, Receive(type)
      PROVE  Asker \in Pids /\ 1 \in DOMAIN to_memoria
             /\ Asker = to_memoria[1].pid /\ to_memoria[1].type = type
  <2>1. M!Receive(type)  BY <1>2 DEF Receive, M!Receive
  <2>2. M!Asker = Asker  BY DEF Asker, M!Asker
  <2> QED BY <1>a, <2>1, <2>2, Assumed, M!Received
<1>3. CASE ProcessStarted
  <2>1. Asker \in Pids /\ proc[Asker] = "starting"
    BY <1>a, <1>2, <1>3 DEF ProcessStarted, M!OneRequest
  <2> QED BY <1>b, <1>3, <2>1 DEF ProcessStarted, Move
<1>4. CASE ProcessFinished
  <2>1. Asker \in Pids /\ proc[Asker] = "finishing"
    BY <1>a, <1>2, <1>4 DEF ProcessFinished, M!OneRequest
  <2> QED BY <1>b, <1>4, <2>1 DEF ProcessFinished, Move
<1>5. CASE PageFaultResolved
  <2>1. PICK p \in Pids : request.page \in PagesOf(p) /\ proc' = [proc EXCEPT ![p] = "ready"]
    BY <1>5 DEF PageFaultResolved, Move
  <2>2. PICK q \in Pids : proc[q] = "fault" /\ request.page \in M!PagesOf(q)
    BY <1>5, <1>a DEF PageFaultResolved, M!Serving
  <2>3. M!PagesOf(p) = PagesOf(p)
    BY DEF PagesOf, ToSet, M!PagesOf, M!ToSet
  <2>4. p = q
    BY <2>1, <2>2, <2>3, Assumed, M!Layouts
  <2> QED BY <1>b, <2>1, <2>2, <2>4
<1> QED
  BY <1>1, <1>3, <1>4, <1>5
     DEF HandleKernel, ResolvePageFault, FindFreeFrame, NoFreeFrame, FindVictim, Save,
         Evict, Map, CopyToRam, SendConsistencyCheck

(* What the threads of the CPU have: the mutex is in the hands of the one  *)
(* that is inside.                                                         *)
LockInv ==
  /\ mutex \in {"free", "cpu", "checker"} /\ hit \in BOOLEAN
  /\ mutex = "checker" <=> checker.at \in {"get", "remove"}
  /\ cpu.at \in {"FRAME_ACCESS", "frame", "PAGE_FAULT"} => mutex = "cpu"
  /\ cpu.at \in {"RAM_ACCESS", "memcpy", "answer"} => hit \/ mutex = "cpu"

CheckerShape ==
  /\ to_tlb \in Seq(Frames)
  /\ checker \in [at : {"recv", "lock", "get", "remove"}, frame : FrameOrNone, i : Int]
  /\ checker.at = "recv" => checker.frame = NoFrame /\ checker.i = -1
  /\ checker.at = "lock" => checker.i = -1
  /\ checker.at = "remove" => checker.i \in Nat
  /\ exit_i \in Int
  /\ cpu.at = "exit_remove" => exit_i \in Nat

Shape == M!FrameInv /\ CpuShape /\ LockInv /\ CheckerShape

LEMMA ShapeInit == TlbInit => Shape
<1> SUFFICES ASSUME TlbInit PROVE Shape
  OBVIOUS
<1>1. cpuBar = Idle  BY DEF TlbInit, Init, cpuBar, Idle
<1>2. M!Init
  BY <1>1 DEF TlbInit, Init, Frames, NoFrame, Idle, EmptyPage, NoRequest, NoMov, NoData,
       Cells, Copied, M!Init, M!Frames, M!NoFrame, M!Idle, M!EmptyPage, M!NoRequest, M!NoMov,
       M!NoData, M!Cells, M!Copied
<1>3. M!FrameInv  BY <1>2, Assumed, M!InitInv
<1>4. CpuShape  BY DEF TlbInit, Init, Idle, NoFrame, CpuShape, CpuSteps
<1>5. LockInv  BY DEF TlbInit, Init, Idle, Waiting, LockInv
<1>6. CheckerShape
  BY DEF TlbInit, Init, Idle, Waiting, NoFrame, FrameOrNone, CheckerShape
<1> QED BY <1>3, <1>4, <1>5, <1>6 DEF Shape

(* The hit of an entry is the only step that memoria and a CPU without TLB *)
(* do not have; it is harmless to what the frames are.                     *)
LEMMA HitKeepsFrames ==
  ASSUME M!FrameInv, CpuShape, NEW p \in Pids, TlbHit(p),
         \A i \in DOMAIN tlb : tlb[i].frame \in Frames
  PROVE  M!FrameInv'
<1> USE DEF main, data, tables, program, M!main, M!data, M!tables, M!program
<1>1. /\ cpu.at = "lock" /\ cpu'.at = "RAM_ACCESS" /\ cpu'.frame \in Frames
      /\ cpu' = [at |-> cpu'.at, frame |-> cpu'.frame]
      /\ UNCHANGED <<main, data, tables, mov, accesses, to_memoria, to_tlb, proc, memoria>>
  BY DEF TlbHit, Entries
<1>2. cpuBar.at = "FRAME_ACCESS" /\ cpuBar' = cpu'
  BY <1>1 DEF cpuBar
<1>3. cpu' \in [at : M!CpuSteps, frame : M!FrameOrNone]
  BY <1>1 DEF M!CpuSteps, M!FrameOrNone, M!Frames, Frames
<1>4. M!TypeOK'
  BY <1>1, <1>2, <1>3 DEF M!FrameInv, M!TypeOK
<1>5. M!Protocol'
  BY <1>1, <1>2 DEF M!FrameInv, M!Protocol, M!OneRequest, M!Serving, M!OneRuns, M!Loaded
<1>6. M!Absent'
  BY <1>1, <1>2 DEF M!FrameInv, M!Absent, M!Missing
<1>7. M!InHand' /\ M!FrameExclusive' /\ M!FramesExact'
  BY <1>1 DEF M!FrameInv, M!InHand, M!FrameExclusive, M!FramesExact, M!Resident
<1> QED BY <1>4, <1>5, <1>6, <1>7 DEF M!FrameInv

-----------------------------------------------------------------------------
(* The entries of the TLB.                                                 *)

TlbEntries == [pid : Pids, page : Pages, frame : Frames, time : Nat]

TlbShape ==
  /\ tlb \in Seq(TlbEntries)
  /\ Len(tlb) <= TlbSize
  /\ \A i, j \in DOMAIN tlb :
       tlb[i].page = tlb[j].page \/ tlb[i].time = tlb[j].time => i = j
  /\ timestamp \in Nat
  /\ \A i \in DOMAIN tlb : tlb[i].time < timestamp /\ tlb[i].page \in PagesOf(tlb[i].pid)

(* The page that a MOV asks memoria for has no entry, and the frame it has *)
(* got is one.                                                             *)
NotThere ==
  /\ cpu.at \in {"FRAME_ACCESS", "frame"} =>
       \A p \in Pids : proc[p] = "running" => Entries(p, mov[p].page) = {}
  /\ cpu.at = "frame" => cpu.frame \in Frames

(* Where the entries that a removal leaves come from: each from its own,   *)
(* from there or from further on.  A loop that goes down from k leaves     *)
(* none of those it had still to see above k.                              *)
From(k, src) ==
  /\ src \in [DOMAIN tlb' -> DOMAIN tlb]
  /\ \A j \in DOMAIN tlb' :
       /\ tlb'[j] = tlb[src[j]] /\ j <= src[j]
       /\ src[j] <= k + 1 => j <= k
  /\ \A i, j \in DOMAIN tlb' : src[i] = src[j] => i = j

LEMMA Removed ==
  ASSUME tlb \in Seq(TlbEntries), NEW k \in Nat, RemoveEntry(k)
  PROVE  /\ tlb' \in Seq(TlbEntries)
         /\ Len(tlb') <= Len(tlb)
         /\ \E src : From(k, src)
<1>1. Len(tlb) \in Nat /\ DOMAIN tlb = 1 .. Len(tlb)  OBVIOUS
<1>2. CASE k <= Last0
  <2> DEFINE a == SubSeq(tlb, 1, k)
             b == SubSeq(tlb, k + 2, Len(tlb))
             n == Len(tlb)
             src == [j \in 1 .. n - 1 |-> IF j <= k THEN j ELSE j + 1]
  <2>1. k + 1 <= n /\ n \in Nat  BY <1>1, <1>2 DEF Last0
  <2>2. tlb' = RemoveAt(tlb, k + 1)  BY <1>2 DEF RemoveEntry
  <2>3. tlb' = a \o b
    <3>1. (k + 1) - 1 = k /\ (k + 1) + 1 = k + 2  OBVIOUS
    <3> QED BY <2>2, <3>1 DEF RemoveAt
  <2>4. /\ a \in Seq(TlbEntries) /\ Len(a) = k
        /\ \A j \in 1 .. k : a[j] = tlb[j]
    BY <1>1, <2>1
  <2>5. /\ b \in Seq(TlbEntries) /\ Len(b) = n - k - 1
        /\ \A j \in 1 .. n - k - 1 : b[j] = tlb[k + 1 + j]
    <3>1. k + 2 \in Int /\ n \in Int /\ \A j \in k + 2 .. n : tlb[j] \in TlbEntries
      BY <1>1, <2>1
    <3>2. /\ b \in Seq(TlbEntries)
          /\ Len(b) = IF k + 2 <= n THEN n - (k + 2) + 1 ELSE 0
          /\ \A j \in 1 .. n - (k + 2) + 1 : b[j] = tlb[k + 2 + j - 1]
      <4> HIDE DEF n
      <4> QED BY <3>1, SubSeqProperties DEF n
    <3>3. n - (k + 2) + 1 = n - k - 1 /\ \A j \in Nat : k + 2 + j - 1 = k + 1 + j
      BY <2>1
    <3> HIDE DEF b, n
    <3> QED BY <2>1, <3>2, <3>3
  <2> HIDE DEF a, b
  <2>6. tlb' \in Seq(TlbEntries) /\ Len(tlb') = n - 1 /\ DOMAIN tlb' = 1 .. n - 1
    BY <2>1, <2>3, <2>4, <2>5
  <2>7. ASSUME NEW j \in 1 .. n - 1
        PROVE  /\ tlb'[j] = tlb[src[j]] /\ src[j] \in DOMAIN tlb
               /\ j <= src[j] /\ (src[j] <= k + 1 => j <= k)
    <3>1. CASE j <= k
      <4>1. tlb'[j] = a[j]  BY <2>1, <2>3, <2>4, <2>5, <2>7, <3>1
      <4> QED BY <1>1, <2>1, <2>4, <4>1, <2>7, <3>1
    <3>2. CASE j > k
      <4>1. tlb'[j] = b[j - k]  BY <2>1, <2>3, <2>4, <2>5, <2>7, <3>2
      <4>2. b[j - k] = tlb[j + 1]
        <5>1. j - k \in 1 .. n - k - 1  BY <2>1, <2>7, <3>2
        <5>2. k + 1 + (j - k) = j + 1  BY <2>1, <2>7, <3>2
        <5> QED BY <2>5, <5>1, <5>2
      <4> QED BY <1>1, <2>1, <4>1, <4>2, <2>7, <3>2
    <3> QED BY <3>1, <3>2, <2>7
  <2>8. \A i, j \in 1 .. n - 1 : src[i] = src[j] => i = j
    BY <2>1
  <2>9. src \in [1 .. n - 1 -> DOMAIN tlb]
    BY <2>7
  <2>10. From(k, src)
    <3> HIDE DEF src, n
    <3> QED BY <2>6, <2>7, <2>8, <2>9 DEF From
  <2> QED BY <1>1, <2>1, <2>6, <2>10
<1>3. CASE ~ k <= Last0
  <2> DEFINE src == [j \in DOMAIN tlb |-> j]
  <2>1. tlb' = tlb  BY <1>3 DEF RemoveEntry
  <2>2. \A j \in DOMAIN tlb : j <= k /\ j <= j
    BY <1>1, <1>3 DEF Last0
  <2>3. From(k, src)  BY <2>1, <2>2 DEF From
  <2> QED BY <1>1, <2>1, <2>3
<1> QED BY <1>2, <1>3

(* An entry that is added at the end or in the place of another.           *)
LEMMA Filled ==
  ASSUME tlb \in Seq(TlbEntries), Len(tlb) <= TlbSize,
         NEW entry \in TlbEntries, tlb' = Fill(entry)
  PROVE  /\ tlb' \in Seq(TlbEntries)
         /\ Len(tlb') <= TlbSize
         /\ TlbSize = 0 => tlb' = tlb
         /\ \E k : \A i \in DOMAIN tlb' :
              \/ i = k /\ tlb'[i] = entry
              \/ i # k /\ i \in DOMAIN tlb /\ tlb'[i] = tlb[i]
         /\ \A i \in DOMAIN tlb : i \in DOMAIN tlb'
<1>1. Len(tlb) \in Nat /\ DOMAIN tlb = 1 .. Len(tlb) /\ TlbSize \in Nat
  BY CpuTlbAssumption
<1>2. CASE TlbSize = 0
  <2>1. tlb' = tlb  BY <1>2 DEF Fill
  <2>2. \A i \in DOMAIN tlb' : i # 0 /\ i \in DOMAIN tlb /\ tlb'[i] = tlb[i]
    BY <1>1, <2>1
  <2> QED BY <1>1, <2>1, <2>2
<1>3. CASE TlbSize # 0 /\ Len(tlb) < TlbSize
  <2>1. tlb' = Append(tlb, entry)  BY <1>3 DEF Fill
  <2>2. /\ tlb' \in Seq(TlbEntries) /\ Len(tlb') = Len(tlb) + 1
        /\ DOMAIN tlb' = 1 .. Len(tlb) + 1
        /\ \A i \in DOMAIN tlb : tlb'[i] = tlb[i]
        /\ tlb'[Len(tlb) + 1] = entry
    BY <1>1, <2>1
  <2>3. \A i \in DOMAIN tlb' :
          \/ i = Len(tlb) + 1 /\ tlb'[i] = entry
          \/ i # Len(tlb) + 1 /\ i \in DOMAIN tlb /\ tlb'[i] = tlb[i]
    BY <1>1, <2>2
  <2> QED BY <1>1, <1>3, <2>2, <2>3
<1>4. CASE TlbSize # 0 /\ ~ Len(tlb) < TlbSize
  <2> DEFINE k == Oldest
  <2>1. tlb' = [tlb EXCEPT ![k] = entry]  BY <1>4 DEF Fill
  <2> HIDE DEF k
  <2>2. /\ tlb' \in Seq(TlbEntries) /\ Len(tlb') = Len(tlb) /\ DOMAIN tlb' = DOMAIN tlb
    <3>1. CASE k \in 1 .. Len(tlb)
      BY <1>1, <2>1, <3>1, ExceptSeq
    <3>2. CASE k \notin 1 .. Len(tlb)
      <4>1. tlb' = tlb  BY <1>1, <2>1, <3>2
      <4> QED BY <4>1
    <3> QED BY <3>1, <3>2
  <2>3. \A i \in DOMAIN tlb' :
          \/ i = k /\ tlb'[i] = entry
          \/ i # k /\ i \in DOMAIN tlb /\ tlb'[i] = tlb[i]
    BY <1>1, <2>1
  <2> QED BY <1>1, <1>4, <2>2, <2>3
<1> QED BY <1>2, <1>3, <1>4

-----------------------------------------------------------------------------
TlbInv == Shape /\ TlbShape /\ NotThere

LEMMA TlbInvInit == TlbInit => TlbInv
<1> SUFFICES ASSUME TlbInit PROVE TlbShape /\ NotThere
  BY ShapeInit DEF TlbInv
<1>1. tlb = << >> /\ timestamp = 0 /\ cpu.at = "idle"
  BY DEF TlbInit, Init, Idle
<1>2. << >> \in Seq(TlbEntries) /\ Len(<< >>) = 0 /\ DOMAIN << >> = {}
  OBVIOUS
<1> QED BY <1>1, <1>2, CpuTlbAssumption DEF TlbShape, NotThere

(* What the invariant says of the variables of the CPU.                    *)
LEMMA CpuTypes ==
  ASSUME TlbInv
  PROVE  /\ proc \in [Pids -> Lives]
         /\ mov \in [Pids -> [page : PageOrNone, op : {"none", "MOV_IN", "MOV_OUT"}]]
         /\ cpu = [at |-> cpu.at, frame |-> cpu.frame] /\ cpu.frame \in FrameOrNone
         /\ \A p, q \in Pids : proc[p] = "running" /\ proc[q] = "running" => p = q
         /\ \A p \in Pids : mov[p] # NoMov => mov[p].page \in PagesOf(p)
         /\ cpu.at # "idle" => \E p \in Pids : proc[p] = "running"
         /\ cpu.at \notin {"idle", "exit_get", "exit_remove"} =>
              \A p \in Pids : proc[p] = "running" => mov[p] # NoMov
         /\ \A x \in Pages : page[x].P => page[x].frame \in Frames
         /\ at \in {"map", "copy", "tlb_consistency", "resolved"} => frame \in Frames
         /\ \A p \in Pids : PagesOf(p) \subseteq Pages
<1>a. M!TypeOK /\ M!OneRuns /\ M!InHand /\ CpuShape
  BY DEF TlbInv, Shape, M!FrameInv, M!Protocol
<1>b. /\ M!Lives = Lives /\ M!PageOrNone = PageOrNone /\ M!Frames = Frames
      /\ M!FrameOrNone = FrameOrNone /\ M!NoMov = NoMov
      /\ \A p \in Pids : M!PagesOf(p) = PagesOf(p)
  BY DEF M!Lives, Lives, M!PageOrNone, PageOrNone, M!Frames, Frames, M!FrameOrNone,
         FrameOrNone, M!NoFrame, NoFrame, M!NoMov, NoMov, M!PagesOf, PagesOf, M!ToSet, ToSet
<1>1. /\ proc \in [Pids -> Lives]
      /\ mov \in [Pids -> [page : PageOrNone, op : {"none", "MOV_IN", "MOV_OUT"}]]
      /\ \A x \in Pages : page[x].P => page[x].frame \in Frames
      /\ at \in {"map", "copy", "tlb_consistency", "resolved"} => frame \in Frames
  BY <1>a, <1>b DEF M!TypeOK, M!InHand
<1>2. cpu = [at |-> cpu.at, frame |-> cpu.frame] /\ cpu.frame \in FrameOrNone
  <2>1. CASE cpu.at \in {"lock", "exit_get", "exit_remove"}
    BY <1>a, <2>1 DEF CpuShape, FrameOrNone
  <2>2. CASE cpu.at \notin {"lock", "exit_get", "exit_remove"}
    <3>1. cpuBar = cpu  BY <2>2 DEF cpuBar
    <3>2. cpuBar \in [at : M!CpuSteps, frame : FrameOrNone]
      BY <1>a, <1>b DEF M!TypeOK
    <3> QED BY <1>a, <3>1, <3>2 DEF CpuShape
  <2> QED BY <2>1, <2>2
<1>3. /\ \A p, q \in Pids : proc[p] = "running" /\ proc[q] = "running" => p = q
      /\ \A p \in Pids : mov[p] # NoMov => mov[p].page \in PagesOf(p)
  BY <1>a, <1>b DEF M!OneRuns
<1>4. cpu.at \notin {"idle", "exit_get", "exit_remove"} =>
        /\ \E p \in Pids : proc[p] = "running"
        /\ \A p \in Pids : proc[p] = "running" => mov[p] # NoMov
  <2>1. cpu.at \notin {"idle", "exit_get", "exit_remove"} => cpuBar.at # "idle"
    BY DEF cpuBar
  <2> QED BY <1>a, <1>b, <1>3, <2>1 DEF M!OneRuns
<1>5. cpu.at \in {"exit_get", "exit_remove"} => \E p \in Pids : proc[p] = "running"
  BY <1>a DEF CpuShape
<1>6. \A p \in Pids : PagesOf(p) \subseteq Pages
  BY <1>b, Assumed, M!Layouts
<1> QED BY <1>1, <1>2, <1>3, <1>4, <1>5, <1>6

LEMMA EntryTypes ==
  ASSUME TlbShape
  PROVE  /\ Len(tlb) \in Nat /\ DOMAIN tlb = 1 .. Len(tlb)
         /\ \A i \in DOMAIN tlb :
              /\ tlb[i] \in TlbEntries
              /\ tlb[i].pid \in Pids /\ tlb[i].page \in Pages
              /\ tlb[i].frame \in Frames /\ tlb[i].time \in Nat
<1>1. tlb \in Seq(TlbEntries)  BY DEF TlbShape
<1>2. \A i \in DOMAIN tlb : tlb[i] \in TlbEntries  BY <1>1
<1> QED BY <1>1, <1>2 DEF TlbEntries

LEMMA FramesKept == TlbInv /\ [TlbNext]_tvars => M!FrameInv'
<1> SUFFICES ASSUME TlbInv, [TlbNext]_tvars PROVE M!FrameInv'
  OBVIOUS
<1>a. M!FrameInv /\ CpuShape /\ TlbShape  BY DEF TlbInv, Shape
<1>1. CASE [M!Next]_(M!mvars)
  BY <1>a, <1>1, Assumed, M!FrameNext
<1>2. ASSUME NEW p \in Pids, TlbHit(p) PROVE M!FrameInv'
  <2>1. \A i \in DOMAIN tlb : tlb[i].frame \in Frames
    BY <1>a, EntryTypes
  <2> QED BY <1>a, <1>2, <2>1, HitKeepsFrames
<1> QED BY <1>a, <1>1, <1>2, StepIsMemoria

(* A step of the kernel or of the main thread of memoria.                  *)
LEMMA OutsideStep ==
  ASSUME TlbInv, Kernel \/ HandleKernel, UNCHANGED tlbvars
  PROVE  (CpuShape /\ LockInv /\ CheckerShape /\ TlbShape /\ NotThere)'
<1>a. CpuShape /\ LockInv /\ CheckerShape /\ TlbShape /\ NotThere /\ M!FrameInv
  BY DEF TlbInv, Shape
<1>1. UNCHANGED <<cpu, mov>>
  BY DEF Kernel, CreateProcess, Dispatch, HandleKernel, ProcessStarted,
         ProcessFinished, ResolvePageFault, FindFreeFrame, NoFreeFrame, FindVictim, Save,
         Evict, Map, CopyToRam, SendConsistencyCheck, PageFaultResolved, program
<1>2. cpu.at # "idle" => \A p \in Pids : proc'[p] = "running" <=> proc[p] = "running"
  <2>1. CASE Kernel
    BY <2>1, CpuTypes DEF Kernel, CreateProcess, Dispatch, Move
  <2>2. CASE HandleKernel
    BY <1>a, <2>2, MainMoves
  <2> QED BY <2>1, <2>2
<1>3. to_tlb' \in Seq(Frames)
  <2>1. CASE UNCHANGED to_tlb  BY <1>a, <2>1 DEF CheckerShape
  <2>2. CASE SendConsistencyCheck
    <3>1. frame \in Frames  BY <2>2, CpuTypes DEF SendConsistencyCheck
    <3> QED BY <1>a, <2>2, <3>1 DEF SendConsistencyCheck, CheckerShape
  <2> QED
    BY <2>1, <2>2 DEF Kernel, CreateProcess, Dispatch, HandleKernel, ProcessStarted,
         ProcessFinished, ResolvePageFault, FindFreeFrame, NoFreeFrame, FindVictim, Save,
         Evict, Map, CopyToRam, PageFaultResolved
<1>4. CpuShape'  BY <1>a, <1>1, <1>2 DEF CpuShape
<1>5. LockInv'  BY <1>a, <1>1 DEF LockInv, tlbvars
<1>6. CheckerShape'  BY <1>a, <1>1, <1>3 DEF CheckerShape, tlbvars
<1>7. TlbShape'  BY <1>a DEF TlbShape, tlbvars
<1>8. NotThere'  BY <1>a, <1>1, <1>2 DEF NotThere, Entries, tlbvars
<1> QED BY <1>4, <1>5, <1>6, <1>7, <1>8

(* A step of the CPU that is of no concern to the TLB.                     *)
LEMMA SameTlb ==
  ASSUME TlbShape, UNCHANGED <<tlb, timestamp>>
  PROVE  TlbShape'
BY DEF TlbShape

(* A removal.                                                              *)
LEMMA RemovedShape ==
  ASSUME TlbShape, NEW k \in Nat, RemoveEntry(k), UNCHANGED timestamp
  PROVE  /\ TlbShape'
         /\ \A p, x : Entries(p, x) = {} => Entries(p, x)' = {}
<1>1. /\ tlb' \in Seq(TlbEntries) /\ Len(tlb') <= Len(tlb)
      /\ \E src : From(k, src)
  BY Removed DEF TlbShape
<1>2. PICK src : From(k, src)  BY <1>1
<1>3. Len(tlb) \in Nat /\ Len(tlb') \in Nat /\ Len(tlb') <= TlbSize
  BY <1>1, CpuTlbAssumption DEF TlbShape
<1>4. \A j \in DOMAIN tlb' : src[j] \in DOMAIN tlb /\ tlb'[j] = tlb[src[j]]
  BY <1>2 DEF From
<1>5. \A i, j \in DOMAIN tlb' :
        tlb'[i].page = tlb'[j].page \/ tlb'[i].time = tlb'[j].time => i = j
  BY <1>2, <1>4 DEF From, TlbShape
<1>6. \A i \in DOMAIN tlb' : tlb'[i].time < timestamp /\ tlb'[i].page \in PagesOf(tlb'[i].pid)
  BY <1>4 DEF TlbShape
<1>7. TlbShape'  BY <1>1, <1>3, <1>5, <1>6 DEF TlbShape
<1>8. \A p, x : Entries(p, x) = {} => Entries(p, x)' = {}
  BY <1>4 DEF Entries
<1> QED BY <1>7, <1>8

LEMMA MovStep ==
  ASSUME TlbInv, NEW p \in Pids, MovExecuteTlb(p)
  PROVE  (CpuShape /\ LockInv /\ CheckerShape /\ TlbShape /\ NotThere)'
<1>a. CpuShape /\ LockInv /\ CheckerShape /\ TlbShape /\ NotThere
  BY DEF TlbInv, Shape
<1>b. /\ cpu = [at |-> cpu.at, frame |-> cpu.frame] /\ cpu.frame \in FrameOrNone
      /\ \A q \in Pids : proc[p] = "running" /\ proc[q] = "running" => p = q
      /\ cpu.at \notin {"idle", "exit_get", "exit_remove"} =>
           \A q \in Pids : proc[q] = "running" => mov[q] # NoMov
      /\ \A q \in Pids : mov[q] # NoMov => mov[q].page \in PagesOf(q)
      /\ \A q \in Pids : PagesOf(q) \subseteq Pages
  BY CpuTypes
<1>1. ASSUME NEW x \in PagesOf(p), NEW op \in Ops, TlbMov(p, x, op)
      PROVE  (CpuShape /\ LockInv /\ CheckerShape /\ TlbShape /\ NotThere)'
  <2>1. /\ cpu' = [at |-> "lock", frame |-> NoFrame]
        /\ UNCHANGED <<tlbvars, to_tlb, proc>>
    BY <1>1 DEF TlbMov, Mov, Idle
  <2>2. CpuShape'  BY <2>1 DEF CpuShape
  <2>3. LockInv' /\ CheckerShape'  BY <1>a, <2>1 DEF LockInv, CheckerShape, tlbvars
  <2>4. TlbShape' /\ NotThere'  BY <1>a, <2>1, SameTlb DEF NotThere, tlbvars
  <2> QED BY <2>2, <2>3, <2>4
<1>2. ASSUME TlbMiss(p)
      PROVE  (CpuShape /\ LockInv /\ CheckerShape /\ TlbShape /\ NotThere)'
  <2>1. /\ cpu.at = "lock" /\ cpu' = [at |-> "FRAME_ACCESS", frame |-> cpu.frame]
        /\ mutex = "free" /\ mutex' = "cpu" /\ hit' = FALSE /\ proc[p] = "running"
        /\ Entries(p, mov[p].page) = {}
        /\ UNCHANGED <<mov, proc, to_tlb, tlb, timestamp, exit_i, checker>>
    BY <1>2, <1>b DEF TlbMiss
  <2>2. CpuShape'  BY <1>a, <2>1 DEF CpuShape, CpuSteps
  <2>3. LockInv' /\ CheckerShape'  BY <1>a, <2>1 DEF LockInv, CheckerShape
  <2>4. NotThere'  BY <1>b, <2>1 DEF NotThere, Entries
  <2> QED BY <1>a, <2>1, <2>2, <2>3, <2>4, SameTlb
<1>3. ASSUME TlbHit(p)
      PROVE  (CpuShape /\ LockInv /\ CheckerShape /\ TlbShape /\ NotThere)'
  <2>1. PICK i \in Entries(p, mov[p].page) :
          /\ cpu' = [at |-> "RAM_ACCESS", frame |-> tlb[i].frame]
          /\ IF TlbAlgorithm = "LRU"
                THEN /\ tlb' = [tlb EXCEPT ![i].time = timestamp]
                     /\ timestamp' = timestamp + 1
                ELSE UNCHANGED <<tlb, timestamp>>
    BY <1>3 DEF TlbHit
  <2>2. /\ cpu.at = "lock" /\ mutex = "free" /\ mutex' = "cpu" /\ hit' = TRUE
        /\ UNCHANGED <<mov, proc, to_tlb, exit_i, checker>>
    BY <1>3 DEF TlbHit
  <2>3. CpuShape'  BY <2>1 DEF CpuShape, CpuSteps
  <2>4. LockInv' /\ CheckerShape' /\ NotThere'
    BY <1>a, <2>1, <2>2 DEF LockInv, CheckerShape, NotThere
  <2>5. TlbShape'
    <3>1. CASE UNCHANGED <<tlb, timestamp>>  BY <1>a, <3>1, SameTlb
    <3>2. CASE /\ tlb' = [tlb EXCEPT ![i].time = timestamp]
               /\ timestamp' = timestamp + 1
      <4> DEFINE e == [tlb[i] EXCEPT !.time = timestamp]
      <4>1. i \in DOMAIN tlb /\ tlb[i] \in TlbEntries /\ timestamp \in Nat
            /\ tlb \in Seq(TlbEntries) /\ Len(tlb) \in Nat /\ DOMAIN tlb = 1 .. Len(tlb)
        BY <1>a, EntryTypes DEF Entries, TlbShape
      <4>2. e \in TlbEntries /\ e.pid = tlb[i].pid /\ e.page = tlb[i].page /\ e.time = timestamp
        BY <4>1 DEF TlbEntries
      <4>3. tlb' = [tlb EXCEPT ![i] = e]  BY <3>2
      <4> HIDE DEF e
      <4>4. /\ tlb' \in Seq(TlbEntries) /\ Len(tlb') = Len(tlb) /\ DOMAIN tlb' = DOMAIN tlb
            /\ \A j \in DOMAIN tlb : tlb'[j] = IF j = i THEN e ELSE tlb[j]
        BY <4>1, <4>2, <4>3, ExceptSeq
      <4>5. \A j \in DOMAIN tlb : tlb'[j].page = tlb[j].page /\ tlb'[j].pid = tlb[j].pid
        BY <4>2, <4>4
      <4>6. \A j \in DOMAIN tlb : tlb'[j].time = IF j = i THEN timestamp ELSE tlb[j].time
        BY <4>2, <4>4
      <4>7. \A j, k \in DOMAIN tlb :
              tlb'[j].page = tlb'[k].page \/ tlb'[j].time = tlb'[k].time => j = k
        <5>1. \A j \in DOMAIN tlb : tlb[j].time < timestamp /\ tlb[j].time \in Nat
          BY <1>a, EntryTypes DEF TlbShape
        <5>2. ASSUME NEW j \in DOMAIN tlb, NEW k \in DOMAIN tlb, tlb'[j].time = tlb'[k].time
              PROVE  j = k
          BY <1>a, <4>1, <4>6, <5>1, <5>2 DEF TlbShape
        <5> QED BY <1>a, <4>5, <5>2 DEF TlbShape
      <4>8. \A j \in DOMAIN tlb : tlb'[j].time < timestamp' /\ tlb'[j].page \in PagesOf(tlb'[j].pid)
        <5>1. \A j \in DOMAIN tlb :
                tlb[j].time < timestamp /\ tlb[j].time \in Nat /\ tlb[j].page \in PagesOf(tlb[j].pid)
          BY <1>a, EntryTypes DEF TlbShape
        <5> QED BY <3>2, <4>1, <4>5, <4>6, <5>1
      <4> QED BY <1>a, <3>2, <4>1, <4>4, <4>7, <4>8 DEF TlbShape
    <3> QED BY <2>1, <3>1, <3>2
  <2> QED BY <2>3, <2>4, <2>5
<1>4. ASSUME TlbFill(p)
      PROVE  (CpuShape /\ LockInv /\ CheckerShape /\ TlbShape /\ NotThere)'
  <2> DEFINE entry == [pid |-> p, page |-> mov[p].page, frame |-> cpu.frame, time |-> timestamp]
  <2>1. /\ cpu.at = "frame" /\ cpu' = [at |-> "RAM_ACCESS", frame |-> cpu.frame]
        /\ proc[p] = "running" /\ tlb' = Fill(entry)
        /\ timestamp' = IF TlbSize = 0 THEN timestamp ELSE timestamp + 1
        /\ UNCHANGED <<mov, proc, to_tlb, mutex, hit, exit_i, checker>>
    BY <1>4, <1>b DEF TlbFill
  <2>2. CpuShape'  BY <1>a, <2>1 DEF CpuShape, CpuSteps
  <2>3. LockInv' /\ CheckerShape' /\ NotThere'
    BY <1>a, <2>1 DEF LockInv, CheckerShape, NotThere
  <2>4. mov[p].page \in PagesOf(p) /\ mov[p].page \in Pages
    BY <1>b, <2>1
  <2>5. timestamp \in Nat /\ cpu.frame \in Frames
    BY <1>a, <2>1 DEF TlbShape, NotThere
  <2>6. entry \in TlbEntries  BY <2>4, <2>5 DEF TlbEntries
  <2>7. /\ entry.pid = p /\ entry.page = mov[p].page /\ entry.time = timestamp
    OBVIOUS
  <2> HIDE DEF entry
  <2>8. /\ tlb' \in Seq(TlbEntries) /\ Len(tlb') <= TlbSize
        /\ TlbSize = 0 => tlb' = tlb
        /\ \E k : \A i \in DOMAIN tlb' :
             \/ i = k /\ tlb'[i] = entry
             \/ i # k /\ i \in DOMAIN tlb /\ tlb'[i] = tlb[i]
    BY <1>a, <2>1, <2>6, Filled DEF TlbShape
  <2>9. TlbShape'
    <3>1. CASE TlbSize = 0  BY <1>a, <2>1, <2>8, <3>1, SameTlb
    <3>2. CASE TlbSize # 0
      <4>1. PICK k : \A i \in DOMAIN tlb' :
              \/ i = k /\ tlb'[i] = entry
              \/ i # k /\ i \in DOMAIN tlb /\ tlb'[i] = tlb[i]
        BY <2>8
      <4>2. \A i \in DOMAIN tlb :
              /\ tlb[i].time < timestamp /\ tlb[i].time \in Nat
              /\ tlb[i].page \in PagesOf(tlb[i].pid) /\ tlb[i].pid \in Pids
        BY <1>a, EntryTypes DEF TlbShape
      <4>3. \A i \in DOMAIN tlb : tlb[i].page # mov[p].page
        <5>1. \A q, r \in Pids : \A x \in PagesOf(q) : x \in PagesOf(r) => q = r
          <6>1. \A q \in Pids : M!PagesOf(q) = PagesOf(q)
            BY DEF PagesOf, ToSet, M!PagesOf, M!ToSet
          <6> QED BY <6>1, Assumed, M!Layouts
        <5>2. Entries(p, mov[p].page) = {}
          BY <1>a, <2>1 DEF NotThere
        <5> QED BY <2>4, <4>2, <5>1, <5>2 DEF Entries
      <4>4. \A i, j \in DOMAIN tlb' :
              tlb'[i].page = tlb'[j].page \/ tlb'[i].time = tlb'[j].time => i = j
        <5> SUFFICES ASSUME NEW i \in DOMAIN tlb', NEW j \in DOMAIN tlb',
                            tlb'[i].page = tlb'[j].page \/ tlb'[i].time = tlb'[j].time
                     PROVE  i = j
          OBVIOUS
        <5>1. CASE i # k /\ j # k
          BY <1>a, <4>1, <5>1 DEF TlbShape
        <5>2. ASSUME NEW m \in DOMAIN tlb, tlb[m].page = entry.page \/ tlb[m].time = entry.time
              PROVE  FALSE
          BY <2>5, <2>7, <4>2, <4>3, <5>2
        <5>3. CASE i = k /\ j # k
          BY <4>1, <5>2, <5>3
        <5>4. CASE i # k /\ j = k
          BY <4>1, <5>2, <5>4
        <5> QED BY <5>1, <5>3, <5>4
      <4>5. \A i \in DOMAIN tlb' :
              tlb'[i].time < timestamp' /\ tlb'[i].page \in PagesOf(tlb'[i].pid)
        <5>1. timestamp' = timestamp + 1  BY <2>1, <3>2
        <5>2. entry.time < timestamp' /\ entry.page \in PagesOf(entry.pid)
          BY <2>4, <2>5, <2>7, <5>1
        <5>3. \A i \in DOMAIN tlb : tlb[i].time < timestamp'
          BY <2>5, <4>2, <5>1
        <5> QED BY <4>1, <4>2, <5>2, <5>3
      <4>6. timestamp' \in Nat  BY <2>1, <2>5
      <4> QED BY <2>8, <4>4, <4>5, <4>6 DEF TlbShape
    <3> QED BY <3>1, <3>2
  <2> QED BY <2>2, <2>3, <2>9
<1>5. ASSUME TlbPageFault(p)
      PROVE  (CpuShape /\ LockInv /\ CheckerShape /\ TlbShape /\ NotThere)'
  <2>1. /\ cpu.at = "PAGE_FAULT" /\ cpu' = Idle /\ mutex' = "free"
        /\ UNCHANGED <<to_tlb, tlb, timestamp, hit, exit_i, checker>>
    BY <1>5 DEF TlbPageFault, PageFault
  <2>2. CpuShape'  BY <2>1 DEF CpuShape, CpuSteps, Idle
  <2>3. LockInv' /\ CheckerShape' /\ NotThere'
    BY <1>a, <2>1 DEF LockInv, CheckerShape, NotThere, Idle
  <2> QED BY <1>a, <2>1, <2>2, <2>3, SameTlb
<1>6. ASSUME TlbAnswered(p)
      PROVE  (CpuShape /\ LockInv /\ CheckerShape /\ TlbShape /\ NotThere)'
  <2>1. /\ cpu.at = "answer" /\ cpu' = Idle /\ mutex' = IF hit THEN mutex ELSE "free"
        /\ UNCHANGED <<to_tlb, tlb, timestamp, hit, exit_i, checker>>
    BY <1>6 DEF TlbAnswered, Answered
  <2>2. CpuShape'  BY <2>1 DEF CpuShape, CpuSteps, Idle
  <2>3. LockInv' /\ CheckerShape' /\ NotThere'
    BY <1>a, <2>1 DEF LockInv, CheckerShape, NotThere, Idle
  <2> QED BY <1>a, <2>1, <2>2, <2>3, SameTlb
<1> QED BY <1>1, <1>2, <1>3, <1>4, <1>5, <1>6 DEF MovExecuteTlb

LEMMA ExitStep ==
  ASSUME TlbInv, NEW p \in Pids, ExitTlb(p)
  PROVE  (CpuShape /\ LockInv /\ CheckerShape /\ TlbShape /\ NotThere)'
<1>a. CpuShape /\ LockInv /\ CheckerShape /\ TlbShape /\ NotThere
  BY DEF TlbInv, Shape
<1>b. /\ cpu = [at |-> cpu.at, frame |-> cpu.frame]
      /\ \A q \in Pids : proc[p] = "running" /\ proc[q] = "running" => p = q
  BY CpuTypes
<1>c. Last0 \in Int
  BY <1>a, EntryTypes DEF Last0
<1>1. ASSUME TlbExit(p)
      PROVE  (CpuShape /\ LockInv /\ CheckerShape /\ TlbShape /\ NotThere)'
  <2>1. /\ cpu' = [at |-> "exit_get", frame |-> NoFrame] /\ proc[p] = "running"
        /\ mov[p] = NoMov /\ exit_i' = Last0
        /\ UNCHANGED <<mov, proc, to_tlb, tlb, timestamp, mutex, hit, checker>>
    BY <1>1 DEF TlbExit, Between, Idle
  <2>2. CpuShape'  BY <1>b, <2>1 DEF CpuShape
  <2>3. LockInv' /\ CheckerShape' /\ NotThere'
    BY <1>a, <1>c, <2>1 DEF LockInv, CheckerShape, NotThere
  <2> QED BY <1>a, <2>1, <2>2, <2>3, SameTlb
<1>2. ASSUME ExitGet(p)
      PROVE  (CpuShape /\ LockInv /\ CheckerShape /\ TlbShape /\ NotThere)'
  <2>1. /\ cpu.at = "exit_get" /\ cpu'.at \in {"exit_get", "exit_remove"}
        /\ cpu'.frame = cpu.frame /\ cpu' = [at |-> cpu'.at, frame |-> cpu'.frame]
        /\ exit_i \in 0 .. Last0 /\ exit_i' \in {exit_i, exit_i - 1}
        /\ cpu'.at = "exit_remove" => exit_i' = exit_i
        /\ UNCHANGED <<mov, proc, to_tlb, tlb, timestamp, mutex, hit, checker>>
    <3>1. CASE tlb[exit_i + 1].pid = p
      <4>1. cpu' = [at |-> "exit_remove", frame |-> cpu.frame]
        BY <1>2, <1>b, <3>1 DEF ExitGet
      <4> QED BY <1>2, <3>1, <4>1 DEF ExitGet
    <3>2. CASE tlb[exit_i + 1].pid # p
      <4>1. cpu' = [at |-> "exit_get", frame |-> cpu.frame]
        BY <1>2, <1>b, <3>2 DEF ExitGet
      <4> QED BY <1>2, <3>2, <4>1 DEF ExitGet
    <3> QED BY <3>1, <3>2
  <2>2. CpuShape'  BY <1>a, <2>1 DEF CpuShape
  <2>3. exit_i \in Nat  BY <1>c, <2>1
  <2>4. LockInv' /\ CheckerShape' /\ NotThere'
    BY <1>a, <2>1, <2>3 DEF LockInv, CheckerShape, NotThere
  <2> QED BY <1>a, <2>1, <2>2, <2>4, SameTlb
<1>3. ASSUME ExitRemove(p)
      PROVE  (CpuShape /\ LockInv /\ CheckerShape /\ TlbShape /\ NotThere)'
  <2>1. /\ cpu.at = "exit_remove" /\ cpu' = [at |-> "exit_get", frame |-> cpu.frame]
        /\ RemoveEntry(exit_i) /\ exit_i' = exit_i - 1
        /\ UNCHANGED <<mov, proc, to_tlb, timestamp, mutex, hit, checker>>
    BY <1>3, <1>b DEF ExitRemove
  <2>2. CpuShape'  BY <1>a, <2>1 DEF CpuShape
  <2>3. exit_i \in Nat  BY <1>a, <2>1 DEF CheckerShape
  <2>4. TlbShape'  BY <1>a, <2>1, <2>3, RemovedShape
  <2>5. LockInv' /\ CheckerShape' /\ NotThere'
    BY <1>a, <2>1, <2>3 DEF LockInv, CheckerShape, NotThere
  <2> QED BY <2>2, <2>4, <2>5
<1>4. ASSUME ExitEnd(p)
      PROVE  (CpuShape /\ LockInv /\ CheckerShape /\ TlbShape /\ NotThere)'
  <2>1. cpu' = Idle /\ cpu.at = "exit_get" /\ UNCHANGED <<to_tlb, tlbvars>>
    BY <1>4 DEF ExitEnd
  <2>2. CpuShape'  BY <2>1 DEF CpuShape, CpuSteps, Idle
  <2>3. LockInv' /\ CheckerShape' /\ NotThere'
    BY <1>a, <2>1 DEF LockInv, CheckerShape, NotThere, Idle, tlbvars
  <2> QED BY <1>a, <2>1, <2>2, <2>3, SameTlb DEF tlbvars
<1> QED BY <1>1, <1>2, <1>3, <1>4 DEF ExitTlb

(* The process leaves the CPU, or memoria serves its MOV.                  *)
LEMMA ServedStep ==
  ASSUME TlbInv, NEW p \in Pids, Preempt(p) \/ SegFault(p) \/ HandleCpu(p),
         UNCHANGED tlbvars
  PROVE  (CpuShape /\ LockInv /\ CheckerShape /\ TlbShape /\ NotThere)'
<1>a. CpuShape /\ LockInv /\ CheckerShape /\ TlbShape /\ NotThere
  BY DEF TlbInv, Shape
<1>b. /\ cpu = [at |-> cpu.at, frame |-> cpu.frame] /\ cpu.frame \in FrameOrNone
      /\ \A x \in Pages : page[x].P => page[x].frame \in Frames
      /\ \A q \in Pids : proc[p] = "running" /\ proc[q] = "running" => p = q
      /\ cpu.at \notin {"idle", "exit_get", "exit_remove"} =>
           \A q \in Pids : proc[q] = "running" => mov[q] # NoMov
      /\ \A q \in Pids : mov[q] # NoMov => mov[q].page \in PagesOf(q)
      /\ \A q \in Pids : PagesOf(q) \subseteq Pages
  BY CpuTypes
<1>1. CASE Preempt(p) \/ SegFault(p)
  <2>1. cpu = Idle /\ UNCHANGED <<cpu, to_tlb>>
    BY <1>1 DEF Preempt, SegFault, Between, program
  <2>2. CpuShape'  BY <1>a, <2>1 DEF CpuShape, Idle
  <2>3. LockInv' /\ CheckerShape' /\ NotThere'
    BY <1>a, <2>1 DEF LockInv, CheckerShape, NotThere, Idle, tlbvars
  <2> QED BY <1>a, <2>2, <2>3, SameTlb DEF tlbvars
<1>2. CASE FrameAccess(p)
  <2>1. /\ cpu.at = "FRAME_ACCESS" /\ proc[p] = "running"
        /\ UNCHANGED <<mov, proc, to_tlb>>
        /\ cpu' = IF page[mov[p].page].P
                    THEN [at |-> "frame", frame |-> page[mov[p].page].frame]
                    ELSE [at |-> "PAGE_FAULT", frame |-> NoFrame]
    BY <1>2 DEF FrameAccess
  <2>2. mov[p].page \in Pages  BY <1>b, <2>1
  <2>3. /\ cpu'.at \in {"frame", "PAGE_FAULT"} /\ cpu' = [at |-> cpu'.at, frame |-> cpu'.frame]
        /\ cpu'.at = "frame" => cpu'.frame \in Frames
    BY <1>b, <2>1, <2>2
  <2>4. CpuShape'  BY <2>3 DEF CpuShape, CpuSteps
  <2>5. LockInv' /\ CheckerShape' /\ NotThere'
    BY <1>a, <2>1, <2>3 DEF LockInv, CheckerShape, NotThere, Entries, tlbvars
  <2> QED BY <1>a, <2>4, <2>5, SameTlb DEF tlbvars
<1>3. CASE RamAccess(p) \/ RamCopy(p)
  <2>1. /\ cpu.at \in {"RAM_ACCESS", "memcpy"} /\ cpu'.at \in {"memcpy", "answer"}
        /\ cpu' = [at |-> cpu'.at, frame |-> cpu.frame]
        /\ UNCHANGED to_tlb
    BY <1>3, <1>b DEF RamAccess, RamCopy
  <2>2. CpuShape'  BY <2>1 DEF CpuShape, CpuSteps
  <2>3. LockInv' /\ CheckerShape' /\ NotThere'
    BY <1>a, <2>1 DEF LockInv, CheckerShape, NotThere, tlbvars
  <2> QED BY <1>a, <2>2, <2>3, SameTlb DEF tlbvars
<1>4. CASE RamAccessNoPage(p)
  <2>1. UNCHANGED <<cpu, mov, proc, to_tlb>>
    BY <1>4 DEF RamAccessNoPage, program
  <2>2. CpuShape'  BY <1>a, <2>1 DEF CpuShape
  <2>3. LockInv' /\ CheckerShape' /\ NotThere'
    BY <1>a, <2>1 DEF LockInv, CheckerShape, NotThere, Entries, tlbvars
  <2> QED BY <1>a, <2>2, <2>3, SameTlb DEF tlbvars
<1> QED BY <1>1, <1>2, <1>3, <1>4 DEF HandleCpu

LEMMA CheckerStep ==
  ASSUME TlbInv, ConsistencyThread \/ NoEntry
  PROVE  (CpuShape /\ LockInv /\ CheckerShape /\ TlbShape /\ NotThere)'
<1>a. CpuShape /\ LockInv /\ CheckerShape /\ TlbShape /\ NotThere
  BY DEF TlbInv, Shape
<1>b. /\ checker = [at |-> checker.at, frame |-> checker.frame, i |-> checker.i]
      /\ checker.i \in Int /\ checker.frame \in FrameOrNone /\ to_tlb \in Seq(Frames)
  BY <1>a DEF CheckerShape
<1>c. Last0 \in Int
  BY <1>a, EntryTypes DEF Last0
<1>d. UNCHANGED <<cpu, mov, proc, timestamp, hit, exit_i>>
  BY DEF ConsistencyThread, ReceiveCheck, LockCheck, CheckGet, CheckRemove, UnlockCheck,
         NoEntry, mvars, program
<1>e. CpuShape'  BY <1>a, <1>d DEF CpuShape
<1>1. CASE ReceiveCheck
  <2>1. /\ to_tlb # << >> /\ to_tlb' = Tail(to_tlb) /\ checker.at = "recv"
        /\ checker' = [at |-> "lock", frame |-> Head(to_tlb), i |-> -1]
        /\ UNCHANGED <<tlb, mutex>>
    BY <1>1 DEF ReceiveCheck, Waiting
  <2>2. Head(to_tlb) \in Frames /\ to_tlb' \in Seq(Frames)
    BY <1>b, <2>1
  <2>3. LockInv' /\ CheckerShape' /\ NotThere'
    BY <1>a, <1>d, <2>1, <2>2 DEF LockInv, CheckerShape, NotThere, FrameOrNone, Entries
  <2> QED BY <1>a, <1>d, <1>e, <2>1, <2>3, SameTlb
<1>2. CASE LockCheck
  <2>1. /\ checker.at = "lock" /\ mutex = "free" /\ mutex' = "checker"
        /\ checker' = [at |-> "get", frame |-> checker.frame, i |-> Last0]
        /\ UNCHANGED <<tlb, to_tlb>>
    BY <1>2, <1>b DEF LockCheck, mvars
  <2>2. LockInv' /\ CheckerShape' /\ NotThere'
    BY <1>a, <1>b, <1>c, <1>d, <2>1 DEF LockInv, CheckerShape, NotThere, Entries
  <2> QED BY <1>a, <1>d, <1>e, <2>1, <2>2, SameTlb
<1>3. CASE CheckGet
  <2>1. /\ checker.at = "get" /\ checker.i \in 0 .. Last0
        /\ \/ checker' = [at |-> "remove", frame |-> checker.frame, i |-> checker.i]
           \/ checker' = [at |-> "get", frame |-> checker.frame, i |-> checker.i - 1]
        /\ UNCHANGED <<tlb, to_tlb, mutex>>
    BY <1>3, <1>b DEF CheckGet, mvars
  <2>2. checker.i \in Nat  BY <1>c, <2>1
  <2>3. LockInv' /\ CheckerShape' /\ NotThere'
    BY <1>a, <1>b, <1>d, <2>1, <2>2 DEF LockInv, CheckerShape, NotThere, Entries
  <2> QED BY <1>a, <1>d, <1>e, <2>1, <2>3, SameTlb
<1>4. CASE CheckRemove
  <2>1. /\ checker.at = "remove" /\ RemoveEntry(checker.i)
        /\ checker' = [at |-> "get", frame |-> checker.frame, i |-> checker.i - 1]
        /\ UNCHANGED <<to_tlb, mutex>>
    BY <1>4, <1>b DEF CheckRemove, mvars
  <2>2. checker.i \in Nat  BY <1>a, <2>1 DEF CheckerShape
  <2>3. TlbShape' /\ \A p, x : Entries(p, x) = {} => Entries(p, x)' = {}
    BY <1>a, <1>d, <2>1, <2>2, RemovedShape
  <2>4. LockInv' /\ CheckerShape' /\ NotThere'
    BY <1>a, <1>b, <1>d, <2>1, <2>2, <2>3 DEF LockInv, CheckerShape, NotThere
  <2> QED BY <1>e, <2>3, <2>4
<1>5. CASE UnlockCheck
  <2>1. /\ checker.at = "get" /\ mutex' = "free" /\ checker' = Waiting
        /\ UNCHANGED <<tlb, to_tlb>>
    BY <1>5 DEF UnlockCheck, mvars
  <2>2. LockInv' /\ CheckerShape' /\ NotThere'
    BY <1>a, <1>d, <2>1
       DEF LockInv, CheckerShape, NotThere, Entries, Waiting, FrameOrNone
  <2> QED BY <1>a, <1>d, <1>e, <2>1, <2>2, SameTlb
<1>6. CASE NoEntry
  <2>1. UNCHANGED <<tlb, to_tlb, mutex, checker>>
    BY <1>6 DEF NoEntry, mvars
  <2>2. LockInv' /\ CheckerShape' /\ NotThere'
    BY <1>a, <1>d, <2>1 DEF LockInv, CheckerShape, NotThere, Entries
  <2> QED BY <1>a, <1>d, <1>e, <2>1, <2>2, SameTlb
<1> QED BY <1>1, <1>2, <1>3, <1>4, <1>5, <1>6 DEF ConsistencyThread

LEMMA TlbInvNext == TlbInv /\ [TlbNext]_tvars => TlbInv'
<1> SUFFICES ASSUME TlbInv, [TlbNext]_tvars
             PROVE  (CpuShape /\ LockInv /\ CheckerShape /\ TlbShape /\ NotThere)'
  BY FramesKept DEF TlbInv, Shape
<1>1. CASE UNCHANGED tvars
  <2>1. UNCHANGED <<cpu, mov, proc, to_tlb, tlbvars>>
    BY <1>1 DEF tvars, mvars, program
  <2> QED BY <2>1
          DEF TlbInv, Shape, CpuShape, LockInv, CheckerShape, TlbShape, NotThere, Entries, tlbvars
<1> QED BY <1>1, OutsideStep, MovStep, ExitStep, ServedStep, CheckerStep DEF TlbNext

LEMMA TlbInvHolds == TlbSpec => []TlbInv
BY TlbInvInit, TlbInvNext, PTL DEF TlbSpec

(* The TLB never has more entries than ENTRADAS_TLB, two of one page or    *)
(* two of one time, and the mutex is in the hands of the thread that is    *)
(* inside it (TlbTypeOK), whatever the loops of EXIT do without it.        *)
THEOREM TlbCorrect == TlbSpec => []TlbTypeOK
<1>1. TlbInv => TlbTypeOK
  BY DEF TlbInv, Shape, LockInv, TlbShape, TlbTypeOK, TlbEntries
<1> QED BY TlbInvHolds, <1>1, PTL

(* With a TLB too a frame has one page at most: what a hit does to memoria *)
(* with a frame that is no longer its page's never moves a page.           *)
THEOREM OneOwnerWithTlb == TlbSpec => []FrameExclusive
<1>1. TlbInv => FrameExclusive
  BY DEF TlbInv, Shape, FrameExclusive, Resident, M!FrameInv, M!FrameExclusive, M!Resident
<1> QED BY TlbInvHolds, <1>1, PTL

-----------------------------------------------------------------------------
(* What an entry says of its page stays true or its removal is on its way. *)

Ended(p) == proc[p] \in {"finishing", "finished"}
Current(x, f) == page[x].P /\ page[x].frame = f
OnItsWay(f) ==
  \/ at \in {"map", "copy", "tlb_consistency"} /\ frame = f
  \/ f \in ToSet(to_tlb)
  \/ checker.frame = f /\ checker.at = "lock"
Covered(p, x, f) == Ended(p) \/ Current(x, f) \/ OnItsWay(f)

LEMMA EndedStays ==
  ASSUME TlbInv, [TlbNext]_tvars, NEW p \in Pids, Ended(p)
  PROVE  Ended(p)'
<1>a. proc \in [Pids -> Lives] /\ M!FrameInv
  BY CpuTypes DEF TlbInv, Shape
<1>1. CASE HandleKernel
  BY <1>a, <1>1, MainMoves DEF Ended
<1>2. ASSUME NEW q \in Pids, NEW life \in Lives, proc[q] \in {"new", "ready", "running"},
             proc' = [proc EXCEPT ![q] = life]
      PROVE  Ended(p)'
  BY <1>a, <1>2 DEF Ended
<1>3. ASSUME UNCHANGED proc PROVE Ended(p)'
  BY <1>3 DEF Ended
<1>4. CASE Kernel
  BY <1>2, <1>4 DEF Kernel, CreateProcess, Dispatch, Move, Lives
<1>5. ASSUME NEW q \in Pids, MovExecuteTlb(q) PROVE Ended(p)'
  BY <1>2, <1>3, <1>5
     DEF MovExecuteTlb, TlbMov, TlbMiss, TlbHit, TlbFill, TlbPageFault, PageFault,
         TlbAnswered, Answered, Move, Lives
<1>6. ASSUME NEW q \in Pids, ExitTlb(q) PROVE Ended(p)'
  BY <1>2, <1>3, <1>6
     DEF ExitTlb, TlbExit, ExitGet, ExitRemove, ExitEnd, Move, Lives
<1>7. ASSUME NEW q \in Pids, Preempt(q) \/ SegFault(q) \/ HandleCpu(q) PROVE Ended(p)'
  BY <1>2, <1>3, <1>7
     DEF Preempt, SegFault, HandleCpu, FrameAccess, RamAccess, RamAccessNoPage, RamCopy,
         Between, Move, Lives
<1>8. CASE ConsistencyThread \/ NoEntry \/ UNCHANGED tvars
  BY <1>3, <1>8
     DEF ConsistencyThread, ReceiveCheck, LockCheck, CheckGet, CheckRemove, UnlockCheck,
         NoEntry, tvars, mvars
<1> QED BY <1>1, <1>4, <1>5, <1>6, <1>7, <1>8 DEF TlbNext

(* A page leaves its frame with the end of its process and as a victim.    *)
LEMMA PagesMove ==
  ASSUME TlbInv, [TlbNext]_tvars, NEW p \in Pids, NEW x \in PagesOf(p), NEW f \in Frames,
         Current(x, f)
  PROVE  \/ Current(x, f)'
         \/ Ended(p)
         \/ Evict /\ x = victim
<1>a. /\ M!FrameInv /\ M!TypeOK /\ M!Absent /\ M!OneRequest
      /\ page \in [Pages -> [frame : M!FrameOrNone, P : BOOLEAN, U : BOOLEAN, M : BOOLEAN,
                             swap_pos : Nat \cup {-1}]]
  BY DEF TlbInv, Shape, M!FrameInv, M!Protocol, M!TypeOK
<1>b. x \in Pages /\ \A q \in Pids : x \in PagesOf(q) => p = q
  <2>1. \A q \in Pids : M!PagesOf(q) = PagesOf(q)
    BY DEF PagesOf, ToSet, M!PagesOf, M!ToSet
  <2> QED BY <2>1, Assumed, M!Layouts
<1>c. ASSUME NEW type, Receive(type)
      PROVE  /\ Asker \in Pids /\ 1 \in DOMAIN to_memoria
             /\ Asker = to_memoria[1].pid /\ to_memoria[1].type = type
  <2>1. M!Receive(type)  BY <1>c DEF Receive, M!Receive
  <2>2. M!Asker = Asker  BY DEF Asker, M!Asker
  <2> QED BY <1>a, <2>1, <2>2, Assumed, M!Received
<1>d. ASSUME UNCHANGED page PROVE Current(x, f)'
  BY <1>d DEF Current
<1>e. ASSUME page'[x].P = page[x].P, page'[x].frame = page[x].frame
      PROVE  Current(x, f)'
  BY <1>e DEF Current
<1>1. CASE ProcessStarted
  <2>1. proc[Asker] = "starting" /\ Asker \in Pids
    BY <1>a, <1>c, <1>1 DEF ProcessStarted, M!OneRequest
  <2>2. x \notin PagesOf(Asker)
    <3> SUFFICES ASSUME x \in PagesOf(Asker) PROVE FALSE
      OBVIOUS
    <3>1. proc[p] = "starting"  BY <1>b, <2>1
    <3>2. M!Missing(x)  BY <3>1 DEF M!Missing, PagesOf, ToSet, M!PagesOf, M!ToSet
    <3> QED BY <1>a, <1>b, <3>2 DEF M!Absent, Current
  <2> QED BY <1>1, <1>b, <2>2 DEF ProcessStarted, Current
<1>2. CASE ProcessFinished
  <2>1. proc[Asker] = "finishing" /\ Asker \in Pids
    BY <1>a, <1>c, <1>2 DEF ProcessFinished, M!OneRequest
  <2>2. CASE x \in PagesOf(Asker)
    BY <1>b, <2>1, <2>2 DEF Ended
  <2>3. CASE x \notin PagesOf(Asker)
    BY <1>2, <1>b, <2>3 DEF ProcessFinished, Current
  <2> QED BY <2>2, <2>3
<1>3. CASE FindVictim
  <2>1. page' = page \/ \E y : page' = [page EXCEPT ![y].U = FALSE]
    BY <1>3 DEF FindVictim, Unused
  <2>2. page'[x].P = page[x].P /\ page'[x].frame = page[x].frame
    BY <1>a, <1>b, <2>1
  <2> QED BY <1>e, <2>2
<1>4. CASE Save
  <2>1. page' = page \/ page' = [page EXCEPT ![victim].swap_pos = Len(swap')]
    BY <1>4 DEF Save
  <2>2. page'[x].P = page[x].P /\ page'[x].frame = page[x].frame
    BY <1>a, <1>b, <2>1
  <2> QED BY <1>e, <2>2
<1>5. CASE Evict
  <2>1. CASE x # victim
    BY <1>5, <1>a, <1>b, <2>1 DEF Evict, Current
  <2> QED BY <1>5, <2>1
<1>6. CASE Map
  <2>1. x # request.page
    <3>1. M!Missing(request.page)  BY <1>6 DEF Map, M!Missing
    <3> QED BY <1>a, <1>b, <3>1 DEF M!Absent, Current
  <2>2. page'[x] = page[x]
    BY <1>6, <1>a, <1>b, <2>1 DEF Map
  <2> QED BY <2>2 DEF Current
<1>7. CASE HandleKernel
  <2>1. CASE ResolvePageFault \/ FindFreeFrame \/ NoFreeFrame \/ CopyToRam
             \/ SendConsistencyCheck \/ PageFaultResolved
    BY <1>d, <2>1
       DEF ResolvePageFault, FindFreeFrame, NoFreeFrame, CopyToRam, SendConsistencyCheck,
           PageFaultResolved, tables
  <2> QED BY <1>1, <1>2, <1>3, <1>4, <1>5, <1>6, <1>7, <2>1 DEF HandleKernel
<1>8. ASSUME NEW q \in Pids, RamAccess(q) PROVE Current(x, f)'
  <2>1. PICK y : page' = [page EXCEPT ![y].U = TRUE, ![y].M = @ \/ mov[q].op = "MOV_OUT"]
    BY <1>8 DEF RamAccess
  <2>2. page'[x].P = page[x].P /\ page'[x].frame = page[x].frame
    BY <1>a, <1>b, <2>1
  <2> QED BY <1>e, <2>2
<1>9. CASE Kernel
  BY <1>d, <1>9 DEF Kernel, CreateProcess, Dispatch, tables
<1>10. ASSUME NEW q \in Pids, MovExecuteTlb(q) PROVE Current(x, f)'
  BY <1>d, <1>10
     DEF MovExecuteTlb, TlbMov, TlbMiss, TlbHit, TlbFill, TlbPageFault, PageFault,
         TlbAnswered, Answered, tables
<1>11. ASSUME NEW q \in Pids, ExitTlb(q) PROVE Current(x, f)'
  BY <1>d, <1>11 DEF ExitTlb, TlbExit, ExitGet, ExitRemove, ExitEnd, tables
<1>12. ASSUME NEW q \in Pids, Preempt(q) \/ SegFault(q) \/ HandleCpu(q)
       PROVE  Current(x, f)'
  BY <1>d, <1>8, <1>12
     DEF Preempt, SegFault, HandleCpu, FrameAccess, RamAccessNoPage, RamCopy, tables
<1>13. CASE ConsistencyThread \/ NoEntry \/ UNCHANGED tvars
  BY <1>d, <1>13
     DEF ConsistencyThread, ReceiveCheck, LockCheck, CheckGet, CheckRemove, UnlockCheck,
         NoEntry, tvars, mvars, tables
<1> QED BY <1>7, <1>9, <1>10, <1>11, <1>12, <1>13 DEF TlbNext

LEMMA WayStays ==
  ASSUME TlbInv, [TlbNext]_tvars, NEW f \in Frames, OnItsWay(f)
  PROVE  OnItsWay(f)' \/ (LockCheck /\ checker.frame = f)
<1>a. CheckerShape  BY DEF TlbInv, Shape
<1>b. to_tlb \in Seq(Frames)  BY <1>a DEF CheckerShape
<1>1. ASSUME UNCHANGED <<main, to_tlb, checker>> PROVE OnItsWay(f)'
  BY <1>1 DEF OnItsWay, main
<1>2. CASE HandleKernel /\ UNCHANGED tlbvars
  <2>1. CASE UNCHANGED main /\ UNCHANGED to_tlb
    BY <1>1, <1>2, <2>1 DEF tlbvars
  <2>2. CASE at \in {"find_free_frame", "find_victim", "save", "evict", "recv", "resolved"}
             /\ UNCHANGED to_tlb
    BY <1>2, <2>2 DEF OnItsWay, tlbvars
  <2>3. CASE at \in {"map", "copy"} /\ at' \in {"copy", "tlb_consistency"}
             /\ UNCHANGED <<frame, to_tlb>>
    BY <1>2, <2>3 DEF OnItsWay, tlbvars
  <2>4. CASE SendConsistencyCheck
    <3>1. frame \in Frames  BY <2>4, CpuTypes DEF SendConsistencyCheck
    <3>2. to_tlb' = Append(to_tlb, frame)  BY <2>4 DEF SendConsistencyCheck
    <3>3. frame \in ToSet(to_tlb') /\ \A g \in ToSet(to_tlb) : g \in ToSet(to_tlb')
      BY <1>b, <3>1, <3>2 DEF ToSet
    <3> QED BY <1>2, <2>4, <3>3 DEF OnItsWay, SendConsistencyCheck, tlbvars
  <2> QED
    BY <1>2, <2>1, <2>2, <2>3, <2>4
       DEF HandleKernel, ProcessStarted, ProcessFinished, Receive, ResolvePageFault,
           FindFreeFrame, NoFreeFrame, FindVictim, Save, Evict, Map, CopyToRam,
           PageFaultResolved
<1>3. CASE ReceiveCheck
  <2>1. /\ to_tlb # << >> /\ to_tlb' = Tail(to_tlb) /\ checker.at = "recv"
        /\ checker'.at = "lock" /\ checker'.frame = Head(to_tlb) /\ UNCHANGED main
    BY <1>3 DEF ReceiveCheck, Waiting
  <2>2. \A g \in ToSet(to_tlb) : g = Head(to_tlb) \/ g \in ToSet(to_tlb')
    <3>1. ASSUME NEW i \in DOMAIN to_tlb, i # 1
          PROVE  i - 1 \in DOMAIN to_tlb' /\ to_tlb'[i - 1] = to_tlb[i]
      BY <1>b, <2>1, <3>1
    <3>2. Head(to_tlb) = to_tlb[1]  BY <1>b, <2>1
    <3> QED BY <3>1, <3>2 DEF ToSet
  <2> QED BY <2>1, <2>2 DEF OnItsWay, main
<1>4. CASE LockCheck
  BY <1>4 DEF LockCheck, OnItsWay, mvars, main
<1>5. CASE CheckGet \/ CheckRemove \/ UnlockCheck
  BY <1>5 DEF CheckGet, CheckRemove, UnlockCheck, OnItsWay, mvars, main
<1>6. CASE Kernel /\ UNCHANGED tlbvars
  BY <1>1, <1>6 DEF Kernel, CreateProcess, Dispatch, tlbvars
<1>7. ASSUME NEW q \in Pids, MovExecuteTlb(q) PROVE OnItsWay(f)'
  BY <1>1, <1>7
     DEF MovExecuteTlb, TlbMov, TlbMiss, TlbHit, TlbFill, TlbPageFault, PageFault,
         TlbAnswered, Answered, tlbvars
<1>8. ASSUME NEW q \in Pids, ExitTlb(q) PROVE OnItsWay(f)'
  BY <1>1, <1>8 DEF ExitTlb, TlbExit, ExitGet, ExitRemove, ExitEnd, tlbvars
<1>9. ASSUME NEW q \in Pids, Preempt(q) \/ SegFault(q) \/ HandleCpu(q), UNCHANGED tlbvars
      PROVE  OnItsWay(f)'
  BY <1>1, <1>9
     DEF Preempt, SegFault, HandleCpu, FrameAccess, RamAccess, RamAccessNoPage, RamCopy, tlbvars
<1>10. CASE NoEntry \/ UNCHANGED tvars
  BY <1>1, <1>10 DEF NoEntry, tvars, mvars, tlbvars
<1> QED
  BY <1>2, <1>3, <1>4, <1>5, <1>6, <1>7, <1>8, <1>9, <1>10 DEF TlbNext, ConsistencyThread

LEMMA CoverStays ==
  ASSUME TlbInv, [TlbNext]_tvars, NEW p \in Pids, NEW x \in PagesOf(p), NEW f \in Frames,
         Covered(p, x, f)
  PROVE  Covered(p, x, f)' \/ (LockCheck /\ checker.frame = f)
<1>1. ASSUME Evict, x = victim, Current(x, f) PROVE OnItsWay(f)'
  BY <1>1 DEF Evict, Current, OnItsWay
<1> QED BY <1>1, EndedStays, PagesMove, WayStays DEF Covered

(* The frame that comes for the TLB is the page's, or will be removed.     *)
FrameFresh ==
  cpu.at = "frame" =>
    \A p \in Pids : proc[p] = "running" => Covered(p, mov[p].page, cpu.frame)

EntryOK(i) ==
  \/ Covered(tlb[i].pid, tlb[i].page, tlb[i].frame)
  \/ checker.frame = tlb[i].frame /\ i <= checker.i + 1

StaleInv == FrameFresh /\ \A i \in DOMAIN tlb : EntryOK(i)

LEMMA FrameFreshStays ==
  ASSUME TlbInv, [TlbNext]_tvars, FrameFresh
  PROVE  FrameFresh'
<1>a. CpuShape /\ LockInv /\ M!FrameInv /\ NotThere
  BY DEF TlbInv, Shape
<1>b. /\ cpu = [at |-> cpu.at, frame |-> cpu.frame]
      /\ \A p, q \in Pids : proc[p] = "running" /\ proc[q] = "running" => p = q
      /\ cpu.at \notin {"idle", "exit_get", "exit_remove"} =>
           \A p \in Pids : proc[p] = "running" => mov[p] # NoMov
      /\ \A p \in Pids : mov[p] # NoMov => mov[p].page \in PagesOf(p)
      /\ \A p \in Pids : PagesOf(p) \subseteq Pages
      /\ cpu.at # "idle" => \E p \in Pids : proc[p] = "running"
      /\ proc \in [Pids -> Lives]
  BY CpuTypes
<1>1. ASSUME cpu' = cpu, mov' = mov, LockCheck => cpu.at # "frame",
             cpu.at = "frame" => \A p \in Pids : proc'[p] = "running" => proc[p] = "running"
      PROVE  FrameFresh'
  <2>1. SUFFICES ASSUME cpu.at = "frame", NEW p \in Pids, proc'[p] = "running"
                 PROVE  Covered(p, mov[p].page, cpu.frame)'
    BY <1>1 DEF FrameFresh
  <2>2. mov[p].page \in PagesOf(p) /\ cpu.frame \in Frames
    BY <1>a, <1>b, <1>1, <2>1 DEF NotThere
  <2>3. Covered(p, mov[p].page, cpu.frame)
    BY <1>1, <2>1 DEF FrameFresh
  <2>4. \A x \in PagesOf(p), f \in Frames : Covered(p, x, f) => Covered(p, x, f)'
    BY <1>1, <2>1, CoverStays
  <2> QED BY <2>2, <2>3, <2>4, <1>1 DEF Covered, Current, OnItsWay
<1>2. ASSUME cpu'.at # "frame" PROVE FrameFresh'
  BY <1>2 DEF FrameFresh
<1>3. CASE (Kernel \/ HandleKernel) /\ UNCHANGED tlbvars
  <2>1. ~ LockCheck  BY <1>3 DEF LockCheck, tlbvars
  <2>2. CASE Kernel
    BY <1>1, <1>b, <2>1, <2>2 DEF Kernel, CreateProcess, Dispatch, Move, program
  <2>3. CASE HandleKernel
    <3>1. UNCHANGED <<cpu, mov>>
      BY <2>3
         DEF HandleKernel, ProcessStarted, ProcessFinished, ResolvePageFault, FindFreeFrame,
             NoFreeFrame, FindVictim, Save, Evict, Map, CopyToRam, SendConsistencyCheck,
             PageFaultResolved, program
    <3> QED BY <1>1, <1>a, <2>1, <2>3, <3>1, MainMoves
  <2> QED BY <1>3, <2>2, <2>3
<1>4. ASSUME NEW q \in Pids, MovExecuteTlb(q) PROVE FrameFresh'
  <2>1. \A step \in {"lock", "FRAME_ACCESS", "RAM_ACCESS"} :
          cpu' = [cpu EXCEPT !.at = step] => cpu'.at # "frame"
    BY <1>b
  <2>2. cpu' = Idle => cpu'.at # "frame"  BY DEF Idle
  <2> QED BY <1>2, <1>4, <2>1, <2>2
          DEF MovExecuteTlb, TlbMov, TlbMiss, TlbHit, TlbFill, TlbPageFault, PageFault,
              TlbAnswered, Answered
<1>5. ASSUME NEW q \in Pids, ExitTlb(q) PROVE FrameFresh'
  <2>1. \A step \in {"exit_get", "exit_remove"} :
          cpu' = [cpu EXCEPT !.at = step] => cpu'.at # "frame"
    BY <1>b
  <2>2. cpu' = Idle => cpu'.at # "frame"  BY DEF Idle
  <2>3. cpu.at \in {"exit_get", "exit_remove"} /\ cpu' = cpu => cpu'.at # "frame"
    OBVIOUS
  <2> QED BY <1>2, <1>5, <2>1, <2>2, <2>3
          DEF ExitTlb, TlbExit, ExitGet, ExitRemove, ExitEnd
<1>6. ASSUME NEW q \in Pids, Preempt(q) \/ SegFault(q) PROVE FrameFresh'
  <2>1. cpu'.at # "frame"  BY <1>6 DEF Preempt, SegFault, Between, program, Idle
  <2> QED BY <1>2, <2>1
<1>7. ASSUME NEW q \in Pids, FrameAccess(q) PROVE FrameFresh'
  <2>1. /\ UNCHANGED <<page, mov, proc>> /\ proc[q] = "running"
        /\ cpu' = IF page[mov[q].page].P
                    THEN [at |-> "frame", frame |-> page[mov[q].page].frame]
                    ELSE [at |-> "PAGE_FAULT", frame |-> NoFrame]
    BY <1>7 DEF FrameAccess, tables
  <2>2. cpu'.at = "frame" => Current(mov[q].page, cpu.frame)'
    BY <2>1 DEF Current
  <2> QED BY <1>b, <2>1, <2>2 DEF FrameFresh, Covered
<1>8. ASSUME NEW q \in Pids, RamAccess(q) \/ RamCopy(q) \/ RamAccessNoPage(q)
      PROVE  FrameFresh'
  <2>1. \A step \in {"memcpy", "answer"} :
          cpu' = [cpu EXCEPT !.at = step] => cpu'.at # "frame"
    BY <1>b
  <2>2. cpu.at = "RAM_ACCESS" /\ cpu' = cpu => cpu'.at # "frame"
    OBVIOUS
  <2> QED BY <1>2, <1>8, <2>1, <2>2 DEF RamAccess, RamCopy, RamAccessNoPage, program
<1>9. CASE ConsistencyThread \/ NoEntry \/ UNCHANGED tvars
  <2>1. UNCHANGED <<cpu, mov, proc>>
    BY <1>9 DEF ConsistencyThread, ReceiveCheck, LockCheck, CheckGet, CheckRemove,
                UnlockCheck, NoEntry, tvars, mvars, program
  <2>2. LockCheck => cpu.at # "frame"
    BY <1>a DEF LockCheck, LockInv
  <2> QED BY <1>1, <2>1, <2>2
<1> QED BY <1>3, <1>4, <1>5, <1>6, <1>7, <1>8, <1>9 DEF TlbNext, HandleCpu

(* An entry that was an entry before keeps what was said of it, unless the *)
(* thread of the TLB moves.                                                *)
LEMMA EntryKept ==
  ASSUME TlbInv, [TlbNext]_tvars, UNCHANGED checker,
         NEW i \in DOMAIN tlb, EntryOK(i), NEW j \in DOMAIN tlb', j <= i, i \in Nat, j \in Nat,
         tlb'[j].pid = tlb[i].pid, tlb'[j].page = tlb[i].page, tlb'[j].frame = tlb[i].frame
  PROVE  EntryOK(j)'
<1>1. ~ LockCheck  BY DEF LockCheck, TlbInv, Shape, CheckerShape
<1>2. /\ tlb[i].pid \in Pids /\ tlb[i].page \in PagesOf(tlb[i].pid) /\ tlb[i].frame \in Frames
      /\ checker.i \in Int
  BY EntryTypes DEF TlbInv, Shape, TlbShape, CheckerShape
<1>3. \A p \in Pids : \A x \in PagesOf(p), f \in Frames : Covered(p, x, f) => Covered(p, x, f)'
  BY <1>1, CoverStays
<1>4. CASE Covered(tlb[i].pid, tlb[i].page, tlb[i].frame)
  BY <1>2, <1>3, <1>4 DEF EntryOK, Covered, Ended, Current, OnItsWay
<1>5. CASE checker.frame = tlb[i].frame /\ i <= checker.i + 1
  BY <1>2, <1>5 DEF EntryOK
<1> QED BY <1>4, <1>5 DEF EntryOK

(* A step that leaves the thread of the TLB where it is.                   *)
LEMMA EntriesStay ==
  ASSUME TlbInv, [TlbNext]_tvars, UNCHANGED checker, StaleInv
  PROVE  \A j \in DOMAIN tlb' : EntryOK(j)'
<1>a. TlbShape /\ CheckerShape /\ TlbShape' /\ FrameFresh /\ \A i \in DOMAIN tlb : EntryOK(i)
  BY TlbInvNext DEF TlbInv, Shape, StaleInv
<1>b. DOMAIN tlb \subseteq Nat /\ DOMAIN tlb' \subseteq Nat
  <2>1. DOMAIN tlb = 1 .. Len(tlb) /\ Len(tlb) \in Nat
    BY <1>a DEF TlbShape
  <2>2. DOMAIN tlb' = 1 .. Len(tlb') /\ Len(tlb') \in Nat
    BY <1>a DEF TlbShape
  <2> QED BY <2>1, <2>2
<1>1. ASSUME UNCHANGED tlb PROVE \A j \in DOMAIN tlb' : EntryOK(j)'
  BY <1>1, <1>a, <1>b, EntryKept
<1>2. ASSUME NEW p \in Pids, TlbHit(p) PROVE \A j \in DOMAIN tlb' : EntryOK(j)'
  <2>1. \/ UNCHANGED tlb
        \/ \E i : tlb' = [tlb EXCEPT ![i].time = timestamp]
    BY <1>2 DEF TlbHit
  <2>2. ASSUME NEW i, tlb' = [tlb EXCEPT ![i].time = timestamp]
        PROVE  \A j \in DOMAIN tlb' : EntryOK(j)'
    <3>1. \A j \in DOMAIN tlb : tlb[j] = [pid |-> tlb[j].pid, page |-> tlb[j].page,
                                          frame |-> tlb[j].frame, time |-> tlb[j].time]
      BY <1>a, EntryTypes DEF TlbEntries
    <3>2. /\ DOMAIN tlb' = DOMAIN tlb
          /\ \A j \in DOMAIN tlb : /\ tlb'[j].pid = tlb[j].pid /\ tlb'[j].page = tlb[j].page
                                   /\ tlb'[j].frame = tlb[j].frame
      BY <2>2, <3>1
    <3> QED BY <1>a, <1>b, <3>2, EntryKept
  <2> QED BY <1>1, <2>1, <2>2
<1>3. ASSUME NEW p \in Pids, TlbFill(p) PROVE \A j \in DOMAIN tlb' : EntryOK(j)'
  <2> DEFINE entry == [pid |-> p, page |-> mov[p].page, frame |-> cpu.frame, time |-> timestamp]
  <2>1. /\ cpu.at = "frame" /\ proc[p] = "running" /\ tlb' = Fill(entry)
        /\ UNCHANGED <<page, proc, at, frame, to_tlb>>
    BY <1>3 DEF TlbFill, tables, main
  <2>2. mov[p].page \in PagesOf(p) /\ mov[p].page \in Pages /\ cpu.frame \in Frames
        /\ timestamp \in Nat
    BY <2>1, <1>a, CpuTypes DEF TlbInv, NotThere, TlbShape
  <2>3. entry \in TlbEntries  BY <2>2 DEF TlbEntries
  <2>4. Covered(p, mov[p].page, cpu.frame)
    BY <1>a, <2>1 DEF FrameFresh
  <2>5. ASSUME NEW j \in DOMAIN tlb', tlb'[j] = entry PROVE EntryOK(j)'
    BY <2>1, <2>4, <2>5 DEF EntryOK, Covered, Ended, Current, OnItsWay
  <2> HIDE DEF entry
  <2>6. PICK k : \A i \in DOMAIN tlb' :
          \/ i = k /\ tlb'[i] = entry
          \/ i # k /\ i \in DOMAIN tlb /\ tlb'[i] = tlb[i]
    BY <1>a, <2>1, <2>3, Filled DEF TlbShape
  <2>7. ASSUME NEW j \in DOMAIN tlb', j \in DOMAIN tlb, tlb'[j] = tlb[j] PROVE EntryOK(j)'
    BY <1>a, <1>b, <2>7, EntryKept
  <2> QED BY <2>5, <2>6, <2>7
<1>4. ASSUME NEW p \in Pids, ExitRemove(p) PROVE \A j \in DOMAIN tlb' : EntryOK(j)'
  <2>1. RemoveEntry(exit_i) /\ exit_i \in Nat
    BY <1>4, <1>a DEF ExitRemove, CheckerShape
  <2>2. PICK src : From(exit_i, src)
    BY <1>a, <2>1, Removed DEF TlbShape
  <2> QED BY <1>a, <1>b, <2>2, EntryKept DEF From
<1>5. CASE ConsistencyThread \/ NoEntry
  <2>1. checker \in [at : {"recv", "lock", "get", "remove"}, frame : FrameOrNone, i : Int]
    BY <1>a DEF CheckerShape
  <2>2. ~ CheckRemove  BY <2>1 DEF CheckRemove
  <2>3. UNCHANGED tlb
    BY <1>5, <2>2 DEF ConsistencyThread, ReceiveCheck, LockCheck, CheckGet, UnlockCheck, NoEntry
  <2> QED BY <1>1, <2>3
<1>6. CASE UNCHANGED tlbvars \/ UNCHANGED tvars
  BY <1>1, <1>6 DEF tvars, tlbvars
<1>7. ASSUME NEW p \in Pids, MovExecuteTlb(p) \/ ExitTlb(p)
      PROVE  \A j \in DOMAIN tlb' : EntryOK(j)'
  <2>1. CASE TlbHit(p) \/ TlbFill(p) \/ ExitRemove(p)
    BY <1>2, <1>3, <1>4, <2>1
  <2>2. CASE UNCHANGED tlb
    BY <1>1, <2>2
  <2> QED BY <1>7, <2>1, <2>2
          DEF MovExecuteTlb, ExitTlb, TlbExit, ExitGet, ExitEnd, TlbMiss, TlbPageFault,
              TlbAnswered, TlbMov, tlbvars
<1> QED BY <1>5, <1>6, <1>7 DEF TlbNext

LEMMA StaleInvNext == TlbInv /\ StaleInv /\ [TlbNext]_tvars => StaleInv'
<1> SUFFICES ASSUME TlbInv, StaleInv, [TlbNext]_tvars
             PROVE  \A j \in DOMAIN tlb' : EntryOK(j)'
  BY FrameFreshStays DEF StaleInv
<1>a. TlbShape /\ CheckerShape /\ \A i \in DOMAIN tlb : EntryOK(i)
  BY DEF TlbInv, Shape, StaleInv
<1>b. /\ checker = [at |-> checker.at, frame |-> checker.frame, i |-> checker.i]
      /\ checker.i \in Int /\ DOMAIN tlb = 1 .. Len(tlb) /\ Len(tlb) \in Nat
      /\ \A i \in DOMAIN tlb : /\ tlb[i].pid \in Pids /\ tlb[i].frame \in Frames
                               /\ tlb[i].page \in PagesOf(tlb[i].pid)
  BY <1>a, EntryTypes DEF CheckerShape, TlbShape
<1>1. ASSUME NEW i \in DOMAIN tlb, NEW j \in DOMAIN tlb', tlb'[j] = tlb[i],
             ConsistencyThread, Covered(tlb[i].pid, tlb[i].page, tlb[i].frame)
      PROVE  \/ EntryOK(j)'
             \/ LockCheck /\ checker.frame = tlb[i].frame
  <2>1. \A p \in Pids : \A x \in PagesOf(p), f \in Frames :
          Covered(p, x, f) => Covered(p, x, f)' \/ (LockCheck /\ checker.frame = f)
    BY CoverStays
  <2> QED BY <1>1, <1>b, <2>1 DEF EntryOK, Covered, Ended, Current, OnItsWay
<1>2. CASE UNCHANGED checker
  BY <1>2, EntriesStay
<1>3. CASE ReceiveCheck
  <2>1. UNCHANGED tlb /\ checker.frame = NoFrame /\ ~ LockCheck /\ ConsistencyThread
    BY <1>3, <1>a DEF ReceiveCheck, LockCheck, CheckerShape, ConsistencyThread
  <2>2. NoFrame \notin Frames  BY DEF NoFrame, Frames
  <2>3. \A i \in DOMAIN tlb : Covered(tlb[i].pid, tlb[i].page, tlb[i].frame)
    BY <1>a, <1>b, <2>1, <2>2 DEF EntryOK
  <2> QED BY <1>1, <2>1, <2>3
<1>4. CASE LockCheck
  <2>1. /\ UNCHANGED tlb /\ ConsistencyThread
        /\ checker' = [at |-> "get", frame |-> checker.frame, i |-> Len(tlb) - 1]
    BY <1>4, <1>b DEF LockCheck, ConsistencyThread, Last0
  <2>2. \A i \in DOMAIN tlb : checker.frame = tlb[i].frame => EntryOK(i)'
    BY <1>b, <2>1 DEF EntryOK
  <2> QED BY <1>1, <1>a, <2>1, <2>2 DEF EntryOK
<1>5. CASE CheckGet
  <2>1. /\ UNCHANGED tlb /\ ConsistencyThread /\ ~ LockCheck
        /\ \/ checker' = [at |-> "remove", frame |-> checker.frame, i |-> checker.i]
           \/ /\ checker' = [at |-> "get", frame |-> checker.frame, i |-> checker.i - 1]
              /\ tlb[checker.i + 1].frame # checker.frame
    BY <1>5, <1>b DEF CheckGet, LockCheck, ConsistencyThread
  <2>2. ASSUME NEW i \in DOMAIN tlb, checker.frame = tlb[i].frame, i <= checker.i + 1
        PROVE  EntryOK(i)'
    <3>1. checker'.frame = tlb'[i].frame  BY <2>1, <2>2
    <3>2. i <= checker'.i + 1
      <4>1. CASE checker' = [at |-> "remove", frame |-> checker.frame, i |-> checker.i]
        BY <2>2, <4>1
      <4>2. CASE /\ checker' = [at |-> "get", frame |-> checker.frame, i |-> checker.i - 1]
                 /\ tlb[checker.i + 1].frame # checker.frame
        <5>1. i # checker.i + 1 /\ checker'.i = checker.i - 1  BY <2>2, <4>2
        <5> QED BY <1>b, <2>2, <5>1
      <4> QED BY <2>1, <4>1, <4>2
    <3> QED BY <3>1, <3>2 DEF EntryOK
  <2> QED BY <1>1, <1>a, <2>1, <2>2 DEF EntryOK
<1>6. CASE CheckRemove
  <2>1. /\ RemoveEntry(checker.i) /\ checker.i \in Nat /\ ConsistencyThread /\ ~ LockCheck
        /\ checker' = [at |-> "get", frame |-> checker.frame, i |-> checker.i - 1]
    BY <1>6, <1>a, <1>b DEF CheckRemove, LockCheck, CheckerShape, ConsistencyThread
  <2>2. PICK src : From(checker.i, src)
    BY <1>a, <2>1, Removed DEF TlbShape
  <2>3. ASSUME NEW j \in DOMAIN tlb', checker.frame = tlb[src[j]].frame,
               src[j] <= checker.i + 1
        PROVE  EntryOK(j)'
    <3>1. j <= checker.i /\ tlb'[j] = tlb[src[j]]  BY <2>2, <2>3 DEF From
    <3>2. checker'.i + 1 = checker.i /\ checker'.frame = checker.frame  BY <2>1
    <3> QED BY <2>3, <3>1, <3>2 DEF EntryOK
  <2>4. \A j \in DOMAIN tlb' : src[j] \in DOMAIN tlb /\ tlb'[j] = tlb[src[j]]
    BY <2>2 DEF From
  <2> QED BY <1>1, <1>a, <2>1, <2>3, <2>4 DEF EntryOK
<1>7. CASE UnlockCheck
  <2>1. UNCHANGED tlb /\ checker.i < 0 /\ ConsistencyThread /\ ~ LockCheck
    BY <1>7 DEF UnlockCheck, LockCheck, ConsistencyThread
  <2>2. \A i \in DOMAIN tlb : ~ i <= checker.i + 1
    BY <1>b, <2>1
  <2> QED BY <1>1, <1>a, <2>1, <2>2 DEF EntryOK
<1>8. CASE ~ ConsistencyThread
  <2>1. UNCHANGED checker
    BY <1>8
       DEF TlbNext, MovExecuteTlb, TlbMov, TlbMiss, TlbHit, TlbFill, TlbPageFault,
           TlbAnswered, ExitTlb, TlbExit, ExitGet, ExitRemove, ExitEnd, NoEntry, tvars, tlbvars
  <2> QED BY <1>2, <2>1
<1> QED BY <1>3, <1>4, <1>5, <1>6, <1>7, <1>8 DEF ConsistencyThread

(* An entry of a process that has not ended says where its page is, or its *)
(* removal is on its way: however the fill by the CPU, the eviction by     *)
(* memoria and the removal by the thread of the TLB interleave, with the   *)
(* loop of EXIT that takes no mutex and shifts the entries between.        *)
THEOREM NoEntryForgotten == TlbSpec => []StaleHasCheck
<1>1. TlbInit => StaleInv
  BY DEF TlbInit, Init, Idle, StaleInv, FrameFresh
<1>2. TlbSpec => []StaleInv
  BY TlbInvHolds, StaleInvNext, <1>1, PTL DEF TlbSpec
<1>3. StaleInv => StaleHasCheck
  BY DEF StaleInv, EntryOK, Covered, Ended, Current, OnItsWay, StaleHasCheck, CheckPending
<1> QED BY <1>2, <1>3, PTL
=============================================================================
