---------------------------- MODULE ProgramsProofs ----------------------------
(***************************************************************************)
(* Cpu implements Programs: whatever the programs, their segments, the     *)
(* quantum and the page faults, every program runs as if it were alone.    *)
(***************************************************************************)
EXTENDS CpuProofs

-----------------------------------------------------------------------------
(* What the flags say of the burst, and where the I/O a process waits for  *)
(* is kept until it ends.                                                  *)

Blocking == {"INT_IO", "INT_PAGE_FAULT", "SEGMENTATION_FAULT"}

BurstFlags ==
  /\ to_cpu # << >> => wire.interrupt_type = "NO_INTERRUPT"
  /\ cycle = "execute" => interrupt_type = "NO_INTERRUPT"
  /\ cycle = "check" =>
       \/ /\ interrupt_type = "NO_INTERRUPT"
          /\ interruption_io_pf \in {"NO_INTERRUPT"} \cup Blocking
       \/ /\ interrupt_type = "EXECUTION_FINISHED"
          /\ interruption_io_pf = "NO_INTERRUPT"
  /\ cycle = "send_pcb" =>
       \/ /\ interrupt_type \in {"EXECUTION_FINISHED", "INT_QUANTUM"}
          /\ interruption_io_pf = "NO_INTERRUPT"
       \/ /\ interrupt_type \in Blocking
          /\ interruption_io_pf = interrupt_type

(* io is what the last instruction the pcb executed asks for.              *)
Waits(pcb, io) ==
  LET i == Program[pcb.id][pcb.program_counter]
  IN io.device = i.device /\ io.arg = i.arg

IoInv ==
  /\ cycle \in {"check", "send_pcb"} /\ interruption_io_pf = "INT_IO" =>
       Waits(cpu_pcb, device_io)
  /\ to_kernel # << >> /\ wire.interrupt_type = "INT_IO" => Waits(wire.pcb, wire.extra)
  /\ \A p \in Pids : place[p] = "io" => Waits(pcbs[p], asked[p])

Arrays ==
  /\ memory = [p \in Pids |-> memory[p]]
  /\ \A p \in Pids : memory[p] = [c \in Cells(p) |-> memory[p][c]]
  /\ shown = [p \in Pids |-> shown[p]]

ProgramInv == PcbInv /\ BurstFlags /\ IoInv /\ Arrays

LEMMA ProgramInit == CpuInit => ProgramInv
<1> SUFFICES ASSUME CpuInit PROVE BurstFlags /\ IoInv /\ Arrays
  BY CpuInitInv DEF ProgramInv
<1>1. BurstFlags /\ IoInv  BY DEF CpuInit, Init, BurstFlags, IoInv
<1>2. Arrays  BY DEF CpuInit, Arrays
<1> QED BY <1>1, <1>2

(* The one pcb is in one of the two sockets or on the CPU, and the kernel  *)
(* waits for it.                                                           *)
OneWay ==
  /\ sched = "execute_algorithm" => to_cpu = << >> /\ to_kernel = << >> /\ running = None
  /\ to_kernel # << >> => to_cpu = << >> /\ running = None
  /\ to_cpu # << >> => to_kernel = << >> /\ running = None
  /\ running # None => to_cpu = << >> /\ to_kernel = << >>
  /\ running # None <=> cycle # "recv_pcb"

LEMMA PcbOnItsWay == PcbInv => OneWay
BY OnePcb DEF PcbInv, OneWay

LEMMA PcbOnItsWayNext == PcbInv' => OneWay'
<1>1. (PcbInv => OneWay)'  BY PcbOnItsWay, PTL
<1> QED BY <1>1

LEMMA ArraysNext == PcbInv /\ Arrays /\ [CpuNext]_cpuvars => Arrays'
<1> SUFFICES ASSUME PcbInv, Arrays, [CpuNext]_cpuvars PROVE Arrays'
  OBVIOUS
<1>1. CASE UNCHANGED <<memory, shown>>
  BY <1>1 DEF Arrays
<1>2. CASE ExecuteMovOut
  <2> DEFINE p == cpu_pcb.id
             v == cpu_pcb.registers[Instruction.reg]
             a == Cell(Instruction.dl)
  <2>1. memory' = [memory EXCEPT ![p][a] = v] /\ shown' = shown
    BY <1>2 DEF ExecuteMovOut, kernel_side
  <2> HIDE DEF p, v, a
  <2> QED BY <2>1 DEF Arrays
<1>3. ASSUME NEW p \in Pids, HandlePantalla(p) PROVE Arrays'
  BY <1>3 DEF HandlePantalla, Wake, cpu_side, Arrays
<1>4. UNCHANGED <<memory, shown>> \/ ExecuteMovOut \/ \E p \in Pids : HandlePantalla(p)
  <2>1. CASE Execute
    BY <2>1 DEF Execute, ExecuteSet, ExecuteAdd, ExecuteMovIn, PfOccurred, SegmentationFault,
                ExecuteIo, CpuExit, CpuCrash, kernel_side, cpu_side
  <2>2. CASE \E p \in Pids : Handlers(p)
    BY <2>2 DEF Handlers, HandleTeclado, HandleIo, HandlePageFault, Wake, cpu_side
  <2> QED
    BY <2>1, <2>2 DEF CpuNext, Dispatcher, CpuCycle, CpuWaitCpuDispatch, CpuCreateQuantum,
         CpuSendPcb, CpuStartQuantum, CpuStartInterrupt, CpuRecvPcb, CpuReset,
         CpuCheckInterrupt, CpuSendPcbBack, kernel_side, cpu_side, cpuvars
<1> QED BY <1>1, <1>2, <1>3, <1>4

LEMMA FlagsNext == PcbInv /\ BurstFlags /\ [CpuNext]_cpuvars => BurstFlags'
<1> SUFFICES ASSUME PcbInv, BurstFlags, [CpuNext]_cpuvars PROVE BurstFlags'
  OBVIOUS
<1>a. PcbInv'  BY PcbNext
<1>b. OneWay /\ OneWay'  BY <1>a, PcbOnItsWay, PcbOnItsWayNext
<1>c. Reasons  BY DEF PcbInv
<1>1. ASSUME NEW p \in Pids, CpuSendPcb(p) PROVE BurstFlags'
  BY <1>1, <1>b DEF OneWay, CpuSendPcb, SendPcb, flags, BurstFlags
<1>2. CASE CpuCreateQuantum \/ CpuStartQuantum \/ CpuStartInterrupt \/ CpuWaitCpuDispatch
             \/ UNCHANGED cpuvars
  <2>1. UNCHANGED <<wire, to_cpu, cycle, flags>>
    BY <1>2 DEF CpuCreateQuantum, CreateQuantum, CpuStartQuantum, StartQuantum,
                CpuStartInterrupt, StartInterrupt, CpuWaitCpuDispatch, WaitCpuDispatch,
                sockets, cpuvars, vars
  <2> QED BY <2>1 DEF BurstFlags, flags
<1>3. ASSUME NEW p \in Pids, Handlers(p) PROVE BurstFlags'
  <2>1. UNCHANGED <<wire, to_cpu, cycle, flags>>
    BY <1>3 DEF Handlers, HandleTeclado, HandlePantalla, HandleIo, HandlePageFault, Wake,
                vars, sockets
  <2> QED BY <2>1 DEF BurstFlags, flags
<1>4. CASE CpuRecvPcb
  BY <1>4, <1>b DEF OneWay, CpuRecvPcb, RecvPcb, BurstFlags
<1>5. CASE CpuReset
  BY <1>5 DEF CpuReset, Reset, sockets, BurstFlags
<1>6. CASE Execute
  <2>1. /\ cycle = "execute" /\ interruption_io_pf = "NO_INTERRUPT" /\ interrupt_type = "NO_INTERRUPT"
        /\ UNCHANGED <<wire, to_cpu>>
    BY <1>6, <1>c
       DEF Execute, ExecuteSet, ExecuteAdd, ExecuteMovIn, ExecuteMovOut, PfOccurred,
         SegmentationFault, ExecuteIo, CpuExit, CpuCrash, ExecutePlain, ExecuteBlocking,
         ExecuteExit, vars, sockets, Reasons, BurstFlags
  <2>2. CASE UNCHANGED <<cycle, flags>>
    BY <2>1, <2>2 DEF BurstFlags, flags
  <2>3. CASE /\ cycle' = "check"
             /\ \/ UNCHANGED interrupt_type /\ interruption_io_pf' \in {"NO_INTERRUPT"} \cup Blocking
                \/ interrupt_type' = "EXECUTION_FINISHED" /\ UNCHANGED interruption_io_pf
    BY <2>1, <2>3 DEF BurstFlags
  <2> QED
    BY <1>6, <2>1, <2>2, <2>3
       DEF Execute, ExecuteSet, ExecuteAdd, ExecuteMovIn, ExecuteMovOut, PfOccurred,
         SegmentationFault, ExecuteIo, CpuExit, CpuCrash, ExecutePlain, ExecuteBlocking,
         ExecuteExit, vars, Blocking
<1>7. CASE CpuCheckInterrupt
  <2>1. /\ cycle = "check" /\ interrupt_type' = Checked
        /\ cycle' = IF Checked = "NO_INTERRUPT" THEN "execute" ELSE "send_pcb"
        /\ UNCHANGED <<wire, to_cpu, interruption_io_pf>>
    BY <1>7 DEF CpuCheckInterrupt, CheckInterrupt, sockets
  <2> QED BY <2>1 DEF BurstFlags, Checked, Blocking
<1>8. CASE CpuSendPcbBack
  <2>1. cycle' = "recv_pcb" /\ to_kernel' # << >>
    <3>1. to_kernel' = Append(to_kernel, running) /\ to_kernel \in Seq(Dispatches)
      BY <1>8 DEF CpuSendPcbBack, SendPcbBack, PcbInv, TypeInv, TypeOK, Shape
    <3> QED BY <1>8, <3>1 DEF CpuSendPcbBack, SendPcbBack
  <2> QED BY <1>b, <2>1 DEF OneWay, BurstFlags
<1> QED
  BY <1>1, <1>2, <1>3, <1>4, <1>5, <1>6, <1>7, <1>8 DEF CpuNext, Dispatcher, CpuCycle

LEMMA IoNext == PcbInv /\ BurstFlags /\ IoInv /\ [CpuNext]_cpuvars => IoInv'
<1> SUFFICES ASSUME PcbInv, BurstFlags, IoInv, [CpuNext]_cpuvars PROVE IoInv'
  OBVIOUS
<1>b. OneWay /\ OneWay'
  BY PcbNext, PcbOnItsWay, PcbOnItsWayNext
<1>c. CpuTypeOK /\ Data /\ Reasons  BY DEF PcbInv
<1>1. ASSUME NEW p \in Pids, CpuSendPcb(p) PROVE IoInv'
  <2>1. /\ sched = "execute_algorithm"
        /\ place' = [place EXCEPT ![p] = "cpu"]
        /\ UNCHANGED <<pcbs, asked, cycle, to_kernel>>
    BY <1>1 DEF CpuSendPcb, SendPcb, cpu_side
  <2>2. to_kernel' = << >> /\ cycle' = "recv_pcb"
    BY <1>b, <2>1 DEF OneWay
  <2>3. \A q \in Pids : place'[q] = "io" => place[q] = "io"
    BY <1>c, <2>1 DEF Data
  <2> QED BY <2>1, <2>2, <2>3 DEF IoInv, Waits
<1>2. CASE CpuCreateQuantum \/ CpuStartQuantum \/ CpuStartInterrupt \/ UNCHANGED cpuvars
  <2>1. UNCHANGED <<kernel_side, wire, cpu_side, sockets, cycle, flags>>
    BY <1>2 DEF CpuCreateQuantum, CreateQuantum, CpuStartQuantum, StartQuantum,
                CpuStartInterrupt, StartInterrupt, cpuvars, vars
  <2> QED BY <2>1 DEF IoInv, Waits, kernel_side, cpu_side, sockets, flags
<1>3. CASE CpuWaitCpuDispatch
  <2> DEFINE c == wire.pcb.id
             type == wire.interrupt_type
  <2>1. /\ to_kernel # << >>
        /\ pcbs' = [pcbs EXCEPT ![c] = wire.pcb]
        /\ place' = [place EXCEPT ![c] = PlaceAfter(type)]
        /\ asked' = [asked EXCEPT ![c] = wire.extra]
        /\ sched' = "execute_algorithm"
    BY <1>3 DEF CpuWaitCpuDispatch, WaitCpuDispatch
  <2>2. cycle' = "recv_pcb" /\ to_kernel' = << >>
    BY <1>b, <2>1 DEF OneWay
  <2>4. PlaceAfter(type) = "io" => type = "INT_IO"
    BY <1>c, <2>1 DEF Reasons, Ends, PlaceAfter
  <2>5. \A q \in Pids :
          /\ pcbs'[q] = IF q = c THEN wire.pcb ELSE pcbs[q]
          /\ place'[q] = IF q = c THEN PlaceAfter(type) ELSE place[q]
          /\ asked'[q] = IF q = c THEN wire.extra ELSE asked[q]
    BY <1>c, <2>1 DEF Data
  <2>6. \A q \in Pids : place'[q] = "io" => Waits(pcbs'[q], asked'[q])
    BY <2>1, <2>4, <2>5 DEF IoInv
  <2> QED BY <2>2, <2>6 DEF IoInv, Waits
<1>4. ASSUME NEW p \in Pids, Handlers(p) PROVE IoInv'
  <2>1. PICK from \in {"io", "page_fault"} : Wake(p, from)
    BY <1>4 DEF Handlers, HandleTeclado, HandlePantalla, HandleIo, HandlePageFault
  <2>2. /\ place' = [place EXCEPT ![p] = "ready"]
        /\ asked' = [asked EXCEPT ![p] = Nothing]
        /\ UNCHANGED <<wire, cpu_side, cycle, sockets, flags>>
    BY <2>1 DEF Wake, vars
  <2>3. \A q \in Pids : q # p => pcbs'[q] = pcbs[q]
    BY <1>4, <1>c
       DEF Handlers, HandleTeclado, HandlePantalla, HandleIo, HandlePageFault, Data
  <2>4. \A q \in Pids : place'[q] = "io" =>
          q # p /\ UNCHANGED <<pcbs[q], asked[q], place[q]>>
    BY <1>c, <2>2, <2>3 DEF Data
  <2> QED BY <2>2, <2>4 DEF IoInv, Waits, cpu_side, sockets, flags
<1>5. CASE CpuRecvPcb \/ CpuReset
  <2>1. UNCHANGED <<kernel_side, wire, to_kernel>> /\ cycle' \in {"reset", "execute"}
    BY <1>5 DEF CpuRecvPcb, RecvPcb, CpuReset, Reset, sockets
  <2> QED BY <2>1 DEF IoInv, Waits, kernel_side
<1>6. CASE Execute
  <2>1. UNCHANGED <<kernel_side, wire, to_kernel>> /\ cycle = "execute"
    BY <1>6 DEF Execute, ExecuteSet, ExecuteAdd, ExecuteMovIn, ExecuteMovOut, PfOccurred,
         SegmentationFault, ExecuteIo, CpuExit, CpuCrash, ExecutePlain, ExecuteBlocking,
         ExecuteExit, kernel_side, vars, sockets
  <2>2. CASE ExecuteIo
    <3>1. /\ device_io' = [device |-> Instruction.device, arg |-> Instruction.arg]
          /\ cpu_pcb' = [cpu_pcb EXCEPT !.program_counter = @ + 1]
      BY <2>2 DEF ExecuteIo
    <3>2. cpu_pcb \in Records
      BY <1>b, <1>c, <2>1 DEF OneWay, Data
    <3>3. cpu_pcb'.id = cpu_pcb.id /\ cpu_pcb'.program_counter = cpu_pcb.program_counter + 1
      BY <3>1, <3>2 DEF Records
    <3>4. Waits(cpu_pcb', device_io')
      BY <3>1, <3>3 DEF Waits, Instruction
    <3> QED BY <2>1, <3>4 DEF IoInv, Waits, kernel_side
  <2>3. CASE ~ ExecuteIo
    <3>1. interruption_io_pf' # "INT_IO"
      <4>1. interruption_io_pf # "INT_IO"  BY <1>c, <2>1 DEF Reasons
      <4> QED
        BY <1>6, <2>3, <4>1
           DEF Execute, ExecuteSet, ExecuteAdd, ExecuteMovIn, ExecuteMovOut, PfOccurred,
               SegmentationFault, CpuExit, CpuCrash, ExecutePlain,
               ExecuteExit, vars, flags
    <3> QED BY <2>1, <3>1 DEF IoInv, Waits, kernel_side
  <2> QED BY <2>2, <2>3
<1>7. CASE CpuCheckInterrupt
  <2>1. UNCHANGED <<kernel_side, wire, to_kernel, cpu_side, interruption_io_pf>>
        /\ cycle = "check"
    BY <1>7 DEF CpuCheckInterrupt, CheckInterrupt, sockets
  <2> QED BY <2>1 DEF IoInv, Waits, kernel_side, cpu_side
<1>8. CASE CpuSendPcbBack
  <2>1. /\ cycle = "send_pcb" /\ cycle' = "recv_pcb"
        /\ wire'.pcb = cpu_pcb /\ wire'.interrupt_type = interrupt_type
        /\ interrupt_type = "INT_IO" => wire'.extra = device_io
        /\ UNCHANGED kernel_side
    BY <1>8 DEF CpuSendPcbBack, SendPcbBack
  <2>2. interrupt_type = "INT_IO" => Waits(wire'.pcb, wire'.extra)
    BY <2>1 DEF BurstFlags, IoInv
  <2> QED BY <2>1, <2>2 DEF IoInv, Waits, kernel_side
<1> QED
  BY <1>1, <1>2, <1>3, <1>4, <1>5, <1>6, <1>7, <1>8 DEF CpuNext, Dispatcher, CpuCycle

LEMMA ProgramNext == ProgramInv /\ [CpuNext]_cpuvars => ProgramInv'
BY PcbNext, FlagsNext, IoNext, ArraysNext DEF ProgramInv

-----------------------------------------------------------------------------
(* The addresses: the segments of Programs and the tests of mov_execute.   *)

LEMMA BaseOfSegment ==
  ASSUME NEW s \in Nat
  PROVE  /\ User!Base(s + 1) = SegmentMaxSize * s
         /\ User!Base(s + 1) \in Nat
BY SizesPositive, SMT DEF User!Base

(* The segment of an address is the one whose bases it is between.         *)
LEMMA SegmentBetween ==
  ASSUME NEW dl \in Nat, NEW s \in Nat
  PROVE  /\ SegmentMaxSize * s <= dl <=> s <= SegmentNum(dl)
         /\ dl < SegmentMaxSize * (s + 1) <=> SegmentNum(dl) <= s
<1> DEFINE n == SegmentNum(dl)
           o == SegmentOffset(dl)
<1>1. n \in Nat /\ o \in Nat /\ o < SegmentMaxSize /\ dl = SegmentMaxSize * n + o
  BY SizesPositive, DivMod DEF SegmentNum, SegmentOffset
<1>2. /\ SegmentMaxSize * s \in Nat /\ SegmentMaxSize * n \in Nat
      /\ SegmentMaxSize * (s + 1) = SegmentMaxSize * s + SegmentMaxSize
  BY <1>1, SizesPositive, SMT
<1>3. s < n => SegmentMaxSize * s + SegmentMaxSize <= SegmentMaxSize * n
  BY <1>1, SizesPositive, TimesMonotonic
<1>4. n < s => SegmentMaxSize * n + SegmentMaxSize <= SegmentMaxSize * s
  BY <1>1, SizesPositive, TimesMonotonic
<1> HIDE DEF n, o
<1>5. n = s => SegmentMaxSize * n = SegmentMaxSize * s  OBVIOUS
<1> DEFINE a == SegmentMaxSize * s
           b == SegmentMaxSize * n
<1>6. /\ a \in Nat /\ b \in Nat
      /\ s < n => a + SegmentMaxSize <= b
      /\ n < s => b + SegmentMaxSize <= a
      /\ n = s => a = b
      /\ dl = b + o
      /\ SegmentMaxSize * (s + 1) = a + SegmentMaxSize
  BY <1>1, <1>2, <1>3, <1>4, <1>5
<1> HIDE DEF a, b
<1>7. (a <= dl <=> s <= n) /\ (dl < a + SegmentMaxSize <=> n <= s)
  BY <1>1, <1>6, SizesPositive
<1> QED BY <1>6, <1>7 DEF a, n

(* mov_execute and Programs agree on the addresses that fault, and on      *)
(* those past the last segment.                                            *)
LEMMA AddressesAgree ==
  ASSUME NEW p \in Pids, p = cpu_pcb.id, NEW dl \in Nat
  PROVE  /\ User!PastTheLast(p, dl) <=> ~ HasSegment(dl)
         /\ HasSegment(dl) => (User!InSegment(p, dl) <=> ~ Faults(dl))
<1> DEFINE n == SegmentNum(dl)
           o == SegmentOffset(dl)
           sizes == Segments[p]
<1>1. n \in Nat /\ o \in Nat /\ o < SegmentMaxSize /\ dl = SegmentMaxSize * n + o
  BY SizesPositive, DivMod DEF SegmentNum, SegmentOffset
<1>2. sizes \in Seq(Nat) /\ Len(sizes) \in Nat /\ DOMAIN sizes = 1 .. Len(sizes)
  BY CpuAssumption
<1>3. User!PastTheLast(p, dl) <=> ~ HasSegment(dl)
  <2>1. User!Base(Len(sizes) + 1) = SegmentMaxSize * Len(sizes)
    BY <1>2, BaseOfSegment
  <2>2. User!PastTheLast(p, dl) <=> SegmentMaxSize * Len(sizes) <= dl
    BY <2>1 DEF User!PastTheLast
  <2>3. User!PastTheLast(p, dl) <=> Len(sizes) <= n
    BY <1>2, <2>2, SegmentBetween
  <2>4. HasSegment(dl) <=> n < Len(sizes)  BY DEF HasSegment
  <2> HIDE DEF n, sizes
  <2> QED BY <1>1, <1>2, <2>3, <2>4
<1>4. ASSUME NEW s \in DOMAIN sizes
      PROVE  (User!Base(s) <= dl /\ dl < User!Base(s + 1)) <=> s = n + 1
  <2> DEFINE t == s - 1
  <2>1. t \in Nat /\ s = t + 1  BY <1>2
  <2>2. User!Base(s) = SegmentMaxSize * t /\ User!Base(s + 1) = SegmentMaxSize * (t + 1)
    BY <2>1, BaseOfSegment
  <2>3. (SegmentMaxSize * t <= dl <=> t <= n) /\ (dl < SegmentMaxSize * (t + 1) <=> n <= t)
    BY <2>1, SegmentBetween
  <2> HIDE DEF t, n
  <2> QED BY <1>1, <2>1, <2>2, <2>3
<1>5. ASSUME HasSegment(dl)
      PROVE  User!InSegment(p, dl) <=> ~ Faults(dl)
  <2> DEFINE b == SegmentMaxSize * n
             size == Segments[p][n + 1]
  <2>1. n + 1 \in DOMAIN sizes /\ size \in Nat
    <3>1. n < Len(sizes)  BY <1>5 DEF HasSegment
    <3> HIDE DEF n
    <3>2. n + 1 \in DOMAIN sizes  BY <1>1, <1>2, <3>1
    <3> QED BY <1>2, <3>2
  <2>2. User!Base(n + 1) = b /\ b \in Nat
    BY <1>1, BaseOfSegment
  <2>3. User!InSegment(p, dl) <=>
          \E s \in DOMAIN sizes :
            /\ User!Base(s) <= dl /\ dl < User!Base(s + 1)
            /\ dl < User!Base(s) + sizes[s]
    BY DEF User!InSegment
  <2>4. User!InSegment(p, dl) <=> dl < b + size
    BY <1>4, <2>1, <2>2, <2>3
  <2>5. dl = b + o  BY <1>1
  <2>6. Faults(dl) <=> o >= size  BY DEF Faults, SegmentSize
  <2> HIDE DEF b, size, o
  <2> QED BY <1>1, <2>1, <2>2, <2>4, <2>5, <2>6
<1> QED BY <1>3, <1>5

-----------------------------------------------------------------------------
(* The processes as Programs sees them.                                    *)

counters == [p \in Pids |-> Pcb(p).program_counter]
register_files == [p \in Pids |-> Pcb(p).registers]
memories == [p \in Pids |-> [dl \in MovAddresses(p) |-> memory[p][Cell(dl)]]]
states == [p \in Pids |-> State(p)]
is_up == cpu_module = "up"
views == <<counters, register_files, memories, states, shown, is_up>>

(* A step that moves a pcb without executing anything is not seen.         *)
LEMMA Unseen ==
  ASSUME \A p \in Pids : Pcb(p)' = Pcb(p) /\ State(p)' = State(p),
         UNCHANGED <<memory, shown, cpu_module>>
  PROVE  UNCHANGED views
BY DEF views, counters, register_files, memories, states, is_up

(* While the cycle executes, its pcb is that of a process that runs, and   *)
(* nothing of another process changes.                                     *)
ExecutesOn(p) ==
  /\ p = cpu_pcb.id /\ cpu_pcb \in Records
  /\ Pcb(p) = cpu_pcb /\ Pcb(p)' = cpu_pcb'
  /\ State(p) = "running" /\ State(p)' = CycleState'
  /\ \A q \in Pids \ {p} : Pcb(q)' = Pcb(q) /\ State(q)' = State(q)

LEMMA ExecuteView ==
  ASSUME PcbInv, PcbInv', BurstFlags, cycle = "execute", cycle' # "recv_pcb",
         UNCHANGED <<kernel_side, wire, sched>>
  PROVE  \E p \in Pids : ExecutesOn(p)
<1>a. CpuTypeOK /\ Data /\ Reasons  BY DEF PcbInv
<1>b. OneWay /\ OneWay'  BY PcbOnItsWay, PcbOnItsWayNext
<1>1. running # None /\ running' # None  BY <1>b DEF OneWay
<1>2. sched # "execute_algorithm"  BY <1>b, <1>1 DEF OneWay
<1>3. cpu_pcb \in Records /\ cpu_pcb.id \in Pids  BY <1>a, <1>1 DEF Data, Records
<1> PICK p \in Pids : p = cpu_pcb.id  BY <1>3
<1>4. \A q \in Pids : place[q] = "cpu" <=> q = p
  BY <1>a, <1>1, <1>2 DEF CpuTypeOK
<1>5. place' = place /\ pcbs' = pcbs  BY DEF kernel_side
<1>6. CycleState = "running"
  BY <1>a DEF CycleState, After, Reasons, BurstFlags
<1>7. Pcb(p) = cpu_pcb /\ Pcb(p)' = cpu_pcb'
  BY <1>1, <1>3, <1>4, <1>5 DEF Pcb
<1>8. State(p) = CycleState /\ State(p)' = CycleState'
  BY <1>1, <1>3, <1>4, <1>5 DEF State
<1>9. ASSUME NEW q \in Pids \ {p} PROVE Pcb(q)' = Pcb(q) /\ State(q)' = State(q)
  <2>1. place[q] # "cpu" /\ place'[q] = place[q] /\ pcbs'[q] = pcbs[q]
    BY <1>4, <1>5
  <2> QED BY <2>1 DEF Pcb, State
<1> QED BY <1>3, <1>6, <1>7, <1>8, <1>9 DEF ExecutesOn

(* What the cycle fetches is what Programs runs next.                      *)
LEMMA FetchView ==
  ASSUME NEW p \in Pids, ExecutesOn(p), NEW types, Fetched(types)
  PROVE  /\ User!Runs(p, types)
         /\ User!Instruction(p) = Instruction
         /\ InstructionOK(Instruction)
         /\ Instruction.type \in types
<1>1. User!Instruction(p) = Instruction
  BY DEF ExecutesOn, User!Instruction, Instruction
<1>2. User!HasNext(p)
  BY DEF ExecutesOn, User!HasNext, Fetched, InProgram
<1>3. User!Runs(p, types)
  BY <1>1, <1>2 DEF User!Runs, ExecutesOn, Fetched
<1> QED BY <1>1, <1>3, FetchedIs DEF ExecutesOn

(* What a step of the cycle changes of a program.                          *)
LEMMA Advances ==
  ASSUME NEW p \in Pids, ExecutesOn(p),
         cpu_pcb'.program_counter = cpu_pcb.program_counter + 1
  PROVE  User!Advance(p)
BY DEF ExecutesOn, User!Advance

LEMMA Writes ==
  ASSUME NEW p \in Pids, ExecutesOn(p), NEW r, NEW v, cpu_pcb' = Written(r, v)
  PROVE  /\ register_files' = [register_files EXCEPT ![p][r] = v]
         /\ User!Advance(p)
<1>1. /\ cpu_pcb'.registers = [cpu_pcb.registers EXCEPT ![r] = v]
      /\ cpu_pcb'.program_counter = cpu_pcb.program_counter + 1
  BY DEF ExecutesOn, Written, Records
<1>2. register_files' = [register_files EXCEPT ![p][r] = v]
  BY <1>1 DEF ExecutesOn, register_files
<1> QED BY <1>1, <1>2, Advances

LEMMA KeepsPcb ==
  ASSUME NEW p \in Pids, ExecutesOn(p)
  PROVE  /\ UNCHANGED cpu_pcb.program_counter => UNCHANGED counters
         /\ UNCHANGED cpu_pcb.registers => UNCHANGED register_files
BY DEF ExecutesOn, counters, register_files

LEMMA Becomes ==
  ASSUME NEW p \in Pids, ExecutesOn(p)
  PROVE  /\ states' = [states EXCEPT ![p] = CycleState']
         /\ CycleState' = "running" => UNCHANGED states
BY DEF ExecutesOn, states

LEMMA Stores ==
  ASSUME NEW p \in Pids, NEW dl \in MovAddresses(p), NEW v, Arrays,
         memory' = [memory EXCEPT ![p][Cell(dl)] = v]
  PROVE  memories' = [memories EXCEPT ![p][dl] = v]
<1>1. ASSUME NEW a \in MovAddresses(p) PROVE Cell(a) = Cell(dl) <=> a = dl
  <2>1. a \in Nat /\ dl \in Nat
    BY CpuAssumption DEF MovAddresses, InstructionOK
  <2> QED BY <2>1, AddressUnique DEF Cell
<1>2. ASSUME NEW q \in Pids, NEW a \in MovAddresses(q)
      PROVE  memory'[q][Cell(a)] = IF q = p /\ a = dl THEN v ELSE memory[q][Cell(a)]
  <2>1. Cell(a) \in Cells(q)  BY DEF Cells
  <2>2. CASE q # p  BY <2>2 DEF Arrays
  <2>3. CASE q = p
    <3>1. memory'[p] = [memory[p] EXCEPT ![Cell(dl)] = v]
      BY DEF Arrays
    <3> QED BY <1>1, <2>1, <2>3, <3>1 DEF Arrays
  <2> QED BY <2>2, <2>3
<1> HIDE DEF Arrays
<1>3. ASSUME NEW q \in Pids
      PROVE  [a \in MovAddresses(q) |-> memory'[q][Cell(a)]]
               = IF q = p THEN [[a \in MovAddresses(p) |-> memory[p][Cell(a)]] EXCEPT ![dl] = v]
                 ELSE [a \in MovAddresses(q) |-> memory[q][Cell(a)]]
  BY <1>2
<1>4. memories' = [q \in Pids |-> [a \in MovAddresses(q) |-> memory'[q][Cell(a)]]]
  BY DEF memories, Cell
<1> QED BY <1>3, <1>4 DEF memories

-----------------------------------------------------------------------------
(* Each instruction is the step of Programs of its name.                   *)

Clear == interruption_io_pf = "NO_INTERRUPT" /\ interrupt_type = "NO_INTERRUPT"

LEMMA PlainRuns ==
  ASSUME NEW p \in Pids, ExecutesOn(p), Clear, ExecutePlain
  PROVE  UNCHANGED states
<1>1. CycleState' = "running"
  BY DEF ExecutePlain, Clear, CycleState, After
<1> QED BY <1>1, Becomes

LEMMA SetStep ==
  ASSUME NEW p \in Pids, ExecutesOn(p), Clear, ExecuteSet
  PROVE  User!Set(p)
<1>1. User!Runs(p, {"SET"}) /\ User!Instruction(p) = Instruction
  BY FetchView DEF ExecuteSet
<1>2. cpu_pcb' = Written(Instruction.reg, Instruction.value)
  BY DEF ExecuteSet
<1>3. /\ register_files' = [register_files EXCEPT ![p][Instruction.reg] = Instruction.value]
      /\ User!Advance(p)
  BY <1>2, Writes
<1>4. UNCHANGED states  BY PlainRuns DEF ExecuteSet
<1>5. UNCHANGED <<memories, shown, is_up>>
  BY DEF ExecuteSet, kernel_side, memories, is_up
<1> QED
  BY <1>1, <1>3, <1>4, <1>5
     DEF User!Set, register_files, memories, states, is_up

LEMMA AddStep ==
  ASSUME NEW p \in Pids, ExecutesOn(p), Clear, ExecuteAdd
  PROVE  User!Add(p)
<1> DEFINE i == Instruction
           sum == cpu_pcb.registers[i.reg] + cpu_pcb.registers[i.reg2]
<1>1. User!Runs(p, {"ADD"}) /\ User!Instruction(p) = i
  BY FetchView DEF ExecuteAdd
<1>2. cpu_pcb' = Written(i.reg, sum % WordSize)
  BY DEF ExecuteAdd
<1>3. /\ register_files' = [register_files EXCEPT ![p][i.reg] = sum % WordSize]
      /\ User!Advance(p)
  <2> HIDE DEF sum, i
  <2> QED BY <1>2, Writes
<1>4. register_files[p] = cpu_pcb.registers /\ p \in DOMAIN register_files
  BY DEF ExecutesOn, register_files
<1>5. register_files' = [register_files EXCEPT ![p][i.reg] =
                           (@ + register_files[p][i.reg2]) % WordSize]
  <2>1. sum = register_files[p][i.reg] + register_files[p][i.reg2]
    BY <1>4
  <2> HIDE DEF sum, i
  <2> QED BY <1>3, <1>4, <2>1
<1>6. UNCHANGED states  BY PlainRuns DEF ExecuteAdd
<1>7. UNCHANGED <<memories, shown, is_up>>
  BY DEF ExecuteAdd, kernel_side, memories, is_up
<1> QED
  BY <1>1, <1>3, <1>5, <1>6, <1>7
     DEF User!Add, register_files, memories, states, is_up

(* The address of a MOV, which PastTheLast and InSegment ask about.        *)
LEMMA MovAddress ==
  ASSUME NEW p \in Pids, ExecutesOn(p), NEW types, types \subseteq Movs, Fetched(types)
  PROVE  Instruction.dl \in Nat /\ Instruction.dl \in MovAddresses(p)
<1>1. Instruction.type \in Movs /\ Instruction.dl \in Nat
  BY FetchView DEF InstructionOK
<1>2. cpu_pcb.program_counter + 1 \in DOMAIN Program[p]
  BY CpuAssumption DEF Fetched, InProgram, ExecutesOn, Records
<1> QED BY <1>1, <1>2 DEF MovAddresses, Instruction, ExecutesOn

LEMMA MovInStep ==
  ASSUME NEW p \in Pids, ExecutesOn(p), Clear, ExecuteMovIn
  PROVE  User!MovIn(p)
<1> DEFINE i == Instruction
<1>1. User!Runs(p, {"MOV_IN"}) /\ User!Instruction(p) = i
  BY FetchView DEF ExecuteMovIn
<1>2. i.dl \in Nat /\ i.dl \in MovAddresses(p)
  BY MovAddress DEF ExecuteMovIn, Movs
<1>3. User!InSegment(p, i.dl)
  BY <1>2, AddressesAgree DEF ExecuteMovIn, ExecutesOn
<1>4. PICK value \in Words :
        /\ memory[p][Cell(i.dl)] \in {value, Unwritten}
        /\ cpu_pcb' = Written(i.reg, value)
  BY DEF ExecuteMovIn, ExecutesOn
<1>6. /\ register_files' = [register_files EXCEPT ![p][i.reg] = value]
      /\ User!Advance(p)
  BY <1>4, Writes
<1>7. memories[p][i.dl] \in {value, Unwritten}
  BY <1>2, <1>4 DEF memories
<1>9. UNCHANGED states  BY PlainRuns DEF ExecuteMovIn
<1>10. UNCHANGED <<memories, shown, is_up>>
  BY DEF ExecuteMovIn, kernel_side, memories, is_up
<1>11. value \in User!Words  BY DEF Words, User!Words
<1> QED
  BY <1>1, <1>3, <1>6, <1>7, <1>9, <1>10, <1>11
     DEF User!MovIn, register_files, memories, states, is_up

LEMMA MovOutStep ==
  ASSUME NEW p \in Pids, ExecutesOn(p), Clear, Arrays, ExecuteMovOut
  PROVE  User!MovOut(p)
<1> DEFINE i == Instruction
<1>1. User!Runs(p, {"MOV_OUT"}) /\ User!Instruction(p) = i
  BY FetchView DEF ExecuteMovOut
<1>2. i.dl \in Nat /\ i.dl \in MovAddresses(p)
  BY MovAddress DEF ExecuteMovOut, Movs
<1>3. User!InSegment(p, i.dl)
  BY <1>2, AddressesAgree DEF ExecuteMovOut, ExecutesOn
<1>4. cpu_pcb' = [cpu_pcb EXCEPT !.program_counter = @ + 1]
  BY DEF ExecuteMovOut
<1>5. UNCHANGED cpu_pcb.registers /\ cpu_pcb'.program_counter = cpu_pcb.program_counter + 1
  BY <1>4 DEF ExecutesOn, Records
<1>6. memory' = [memory EXCEPT ![p][Cell(i.dl)] = cpu_pcb.registers[i.reg]]
  BY DEF ExecuteMovOut, ExecutesOn
<1>7. memories' = [memories EXCEPT ![p][i.dl] = cpu_pcb.registers[i.reg]]
  BY <1>2, <1>6, Stores
<1>8. register_files[p] = cpu_pcb.registers
  BY DEF ExecutesOn, register_files
<1>9. User!Advance(p) /\ UNCHANGED register_files
  BY <1>5, Advances, KeepsPcb
<1>10. UNCHANGED states  BY PlainRuns DEF ExecuteMovOut
<1>11. UNCHANGED <<shown, is_up>>
  BY DEF ExecuteMovOut, kernel_side, is_up
<1>12. memories' = [memories EXCEPT ![p][i.dl] = register_files[p][i.reg]]
  BY <1>7, <1>8
<1> QED
  BY <1>1, <1>3, <1>9, <1>10, <1>11, <1>12
     DEF User!MovOut, register_files, memories, states, is_up

LEMMA SegmentationFaultStep ==
  ASSUME NEW p \in Pids, ExecutesOn(p), Clear, SegmentationFault
  PROVE  User!SegmentationFault(p)
<1> DEFINE i == Instruction
<1>1. User!Runs(p, {"MOV_IN", "MOV_OUT"}) /\ User!Instruction(p) = i
  BY FetchView DEF SegmentationFault, Movs
<1>2. i.dl \in Nat  BY MovAddress DEF SegmentationFault
<1>3. ~ User!InSegment(p, i.dl) /\ ~ User!PastTheLast(p, i.dl)
  BY <1>2, AddressesAgree DEF SegmentationFault, ExecutesOn
<1>4. CycleState' = "killed"
  BY DEF SegmentationFault, ExecuteBlocking, Clear, CycleState, After
<1>5. states' = [states EXCEPT ![p] = "killed"]  BY <1>4, Becomes
<1>6. UNCHANGED <<counters, register_files>>
  BY KeepsPcb DEF SegmentationFault, cpu_side
<1>7. UNCHANGED <<memories, shown, is_up>>
  BY DEF SegmentationFault, kernel_side, cpu_side, memories, is_up
<1> QED
  BY <1>1, <1>3, <1>5, <1>6, <1>7
     DEF User!SegmentationFault, counters, register_files, memories, states, is_up

LEMMA StartIoStep ==
  ASSUME NEW p \in Pids, ExecutesOn(p), Clear, ExecuteIo
  PROVE  User!StartIo(p)
<1>1. User!Runs(p, {"IO"})  BY FetchView DEF ExecuteIo
<1>2. cpu_pcb' = [cpu_pcb EXCEPT !.program_counter = @ + 1]  BY DEF ExecuteIo
<1>3. UNCHANGED cpu_pcb.registers /\ cpu_pcb'.program_counter = cpu_pcb.program_counter + 1
  BY <1>2 DEF ExecutesOn, Records
<1>4. User!Advance(p) /\ UNCHANGED register_files  BY <1>3, Advances, KeepsPcb
<1>5. CycleState' = "waiting"
  BY DEF ExecuteIo, ExecuteBlocking, Clear, CycleState, After
<1>6. states' = [states EXCEPT ![p] = "waiting"]  BY <1>5, Becomes
<1>7. UNCHANGED <<memories, shown, is_up>>
  BY DEF ExecuteIo, kernel_side, memories, is_up
<1> QED
  BY <1>1, <1>4, <1>6, <1>7
     DEF User!StartIo, register_files, memories, states, is_up

LEMMA ExitStep ==
  ASSUME NEW p \in Pids, ExecutesOn(p), Clear, CpuExit
  PROVE  User!Exit(p)
<1>1. User!Runs(p, {"EXIT"})  BY FetchView DEF CpuExit
<1>2. CycleState' = "finished"  BY DEF CpuExit, ExecuteExit, CycleState
<1>3. states' = [states EXCEPT ![p] = "finished"]  BY <1>2, Becomes
<1>4. UNCHANGED <<counters, register_files>>  BY KeepsPcb DEF CpuExit, cpu_side
<1>5. UNCHANGED <<memories, shown, is_up>>
  BY DEF CpuExit, kernel_side, cpu_side, memories, is_up
<1> QED
  BY <1>1, <1>3, <1>4, <1>5
     DEF User!Exit, counters, register_files, memories, states, is_up

LEMMA CrashStep ==
  ASSUME NEW p \in Pids, ExecutesOn(p), Clear, CpuCrash
  PROVE  User!Crash(p)
<1>1. ~ InProgram \/ (Fetched(Movs) /\ ~ HasSegment(Instruction.dl))
  BY DEF CpuCrash
<1>2. ~ InProgram => ~ User!HasNext(p)
  BY DEF User!HasNext, InProgram, ExecutesOn
<1>3. ASSUME Fetched(Movs), ~ HasSegment(Instruction.dl)
      PROVE  /\ User!Runs(p, {"MOV_IN", "MOV_OUT"})
             /\ User!PastTheLast(p, User!Instruction(p).dl)
  <2>1. User!Runs(p, {"MOV_IN", "MOV_OUT"}) /\ User!Instruction(p) = Instruction
    BY <1>3, FetchView DEF Movs
  <2>2. Instruction.dl \in Nat  BY <1>3, MovAddress
  <2> QED BY <1>3, <2>1, <2>2, AddressesAgree DEF ExecutesOn
<1>4. UNCHANGED states
  BY Becomes DEF CpuCrash, Clear, vars, flags, CycleState, After
<1>5. UNCHANGED <<counters, register_files>>  BY KeepsPcb DEF CpuCrash
<1>6. UNCHANGED <<memories, shown>> /\ is_up /\ ~ is_up'
  BY DEF CpuCrash, kernel_side, memories, is_up
<1>7. states[p] = "running"  BY DEF ExecutesOn, states
<1> QED
  BY <1>1, <1>2, <1>3, <1>4, <1>5, <1>6, <1>7
     DEF User!Crash, counters, register_files, memories, states, is_up

(* A page fault is not seen: the MOV will be executed again.               *)
LEMMA PfUnseen ==
  ASSUME NEW p \in Pids, ExecutesOn(p), Clear, PfOccurred
  PROVE  UNCHANGED views
<1>1. CycleState' = "running"
  BY DEF PfOccurred, ExecuteBlocking, Clear, CycleState, After
<1>2. UNCHANGED <<cpu_pcb, memory, shown, cpu_module>>
  BY DEF PfOccurred, kernel_side
<1>3. \A q \in Pids : Pcb(q)' = Pcb(q) /\ State(q)' = State(q)
  BY <1>1, <1>2 DEF ExecutesOn
<1> QED BY <1>2, <1>3, Unseen

(* What the cycle executes.                                                *)
LEMMA ExecuteInPrograms ==
  ASSUME PcbInv, PcbInv', BurstFlags, Arrays, Execute
  PROVE  User!Next \/ UNCHANGED views
<1>1. /\ cycle = "execute" /\ cycle' # "recv_pcb"
      /\ UNCHANGED <<kernel_side, wire, sched>>
  BY DEF Execute, ExecuteSet, ExecuteAdd, ExecuteMovIn, ExecuteMovOut, PfOccurred,
         SegmentationFault, ExecuteIo, CpuExit, CpuCrash, ExecutePlain, ExecuteBlocking,
         ExecuteExit, vars, kernel
<1>2. Clear  BY <1>1 DEF PcbInv, Reasons, BurstFlags, Clear
<1>3. PICK p \in Pids : ExecutesOn(p)  BY <1>1, ExecuteView
<1>4. CASE PfOccurred  BY <1>2, <1>3, <1>4, PfUnseen
<1>5. CASE ~ PfOccurred
  <2>1. User!Step(p)
    BY <1>2, <1>3, <1>5, SetStep, AddStep, MovInStep, MovOutStep, SegmentationFaultStep,
       StartIoStep, ExitStep, CrashStep
       DEF Execute, User!Step
  <2> QED BY <2>1 DEF User!Next
<1> QED BY <1>4, <1>5

-----------------------------------------------------------------------------
(* The end of an I/O, and of a page fault.                                 *)

LEMMA Woken ==
  ASSUME NEW p \in Pids, NEW from \in {"io", "page_fault"}, PcbInv, Wake(p, from),
         \A q \in Pids \ {p} : pcbs'[q] = pcbs[q]
  PROVE  /\ Pcb(p) = pcbs[p] /\ Pcb(p)' = pcbs'[p]
         /\ State(p) = IF from = "io" THEN "waiting" ELSE "running"
         /\ State(p)' = "running"
         /\ \A q \in Pids \ {p} : Pcb(q)' = Pcb(q) /\ State(q)' = State(q)
         /\ UNCHANGED <<memories, is_up>>
<1>1. /\ place[p] = from /\ place' = [place EXCEPT ![p] = "ready"]
      /\ UNCHANGED <<wire, cpu_pcb, running, cycle, interrupt_type, interruption_io_pf,
                     memory, cpu_module>>
  BY DEF Wake, vars, flags, cpu_side
<1>2. place'[p] = "ready" /\ \A q \in Pids \ {p} : place'[q] = place[q]
  BY <1>1 DEF PcbInv, Data
<1>3. Pcb(p) = pcbs[p] /\ Pcb(p)' = pcbs'[p]  BY <1>1, <1>2 DEF Pcb
<1>4. State(p) = (IF from = "io" THEN "waiting" ELSE "running") /\ State(p)' = "running"
  BY <1>1, <1>2 DEF State
<1>5. CycleState' = CycleState  BY <1>1 DEF CycleState
<1>6. ASSUME NEW q \in Pids \ {p} PROVE Pcb(q)' = Pcb(q) /\ State(q)' = State(q)
  BY <1>1, <1>2, <1>5 DEF Pcb, State
<1>7. UNCHANGED <<memories, is_up>>  BY <1>1 DEF memories, is_up
<1> QED BY <1>3, <1>4, <1>6, <1>7

(* The I/O ends for the process that waits for it, with the device and the *)
(* register of its instruction.                                            *)
LEMMA EndIoStep ==
  ASSUME NEW p \in Pids, PcbInv, IoInv,
         HandleTeclado(p) \/ HandlePantalla(p) \/ HandleIo(p)
  PROVE  User!EndIo(p)
<1> DEFINE io == asked[p]
           i == Program[p][counters[p]]
<1>1. Wake(p, "io") /\ place[p] = "io"
  BY DEF HandleTeclado, HandlePantalla, HandleIo, Wake
<1>2. pcbs \in [Pids -> Records] /\ pcbs[p].id = p
  BY DEF PcbInv, Data, CpuTypeOK
<1>3. \A q \in Pids \ {p} : pcbs'[q] = pcbs[q]
  BY <1>2 DEF HandleTeclado, HandlePantalla, HandleIo
<1>4. /\ Pcb(p) = pcbs[p] /\ Pcb(p)' = pcbs'[p]
      /\ State(p) = "waiting" /\ State(p)' = "running"
      /\ \A q \in Pids \ {p} : Pcb(q)' = Pcb(q) /\ State(q)' = State(q)
      /\ UNCHANGED <<memories, is_up>>
  BY <1>1, <1>3, Woken
<1>5. io.device = i.device /\ io.arg = i.arg
  <2>1. counters[p] = pcbs[p].program_counter  BY <1>4 DEF counters
  <2> QED BY <1>1, <1>2, <2>1 DEF IoInv, Waits
<1>6. register_files[p] = pcbs[p].registers  BY <1>4 DEF register_files
<1>7. states[p] = "waiting" /\ states' = [states EXCEPT ![p] = "running"]
  BY <1>4 DEF states
<1>8. pcbs'[p].program_counter = pcbs[p].program_counter
  BY <1>2 DEF HandleTeclado, HandlePantalla, HandleIo, Records
<1>9. UNCHANGED counters  BY <1>4, <1>8 DEF counters
<1>10. CASE HandleTeclado(p)
  <2>1. io.device = "TECLADO" /\ UNCHANGED shown  BY <1>10 DEF HandleTeclado
  <2>2. PICK v \in Typed : pcbs' = [pcbs EXCEPT ![p].registers[io.arg] = v]
    BY <1>10 DEF HandleTeclado
  <2>3. pcbs'[p].registers = [pcbs[p].registers EXCEPT ![io.arg] = v]
    BY <1>2, <2>2 DEF Records
  <2>4. register_files' = [register_files EXCEPT ![p][io.arg] = v]
    BY <1>4, <2>3 DEF register_files
  <2>5. register_files' = [register_files EXCEPT ![p][i.arg] = v]
    BY <1>5, <2>4
  <2> QED
    BY <1>4, <1>5, <1>7, <1>9, <2>1, <2>5
       DEF User!EndIo, counters, register_files, memories, states, is_up
<1>11. CASE HandlePantalla(p)
  <2>1. /\ io.device = "PANTALLA" /\ UNCHANGED pcbs
        /\ shown' = [shown EXCEPT ![p] = Append(@, pcbs[p].registers[io.arg])]
    BY <1>11 DEF HandlePantalla
  <2>2. UNCHANGED register_files  BY <1>4, <2>1 DEF register_files
  <2>3. shown' = [shown EXCEPT ![p] = Append(@, register_files[p][i.arg])]
    BY <1>5, <1>6, <2>1
  <2> QED
    BY <1>4, <1>5, <1>7, <1>9, <2>1, <2>2, <2>3
       DEF User!EndIo, counters, register_files, memories, states, is_up
<1>12. CASE HandleIo(p)
  <2>1. io.device \notin {"TECLADO", "PANTALLA"} /\ UNCHANGED <<pcbs, shown>>
    BY <1>12 DEF HandleIo
  <2>2. UNCHANGED register_files  BY <1>4, <2>1 DEF register_files
  <2> QED
    BY <1>4, <1>5, <1>7, <1>9, <2>1, <2>2
       DEF User!EndIo, counters, register_files, memories, states, is_up
<1> QED BY <1>10, <1>11, <1>12

LEMMA FaultUnseen ==
  ASSUME NEW p \in Pids, PcbInv, HandlePageFault(p)
  PROVE  UNCHANGED views
<1>1. Wake(p, "page_fault") /\ UNCHANGED <<pcbs, shown>>  BY DEF HandlePageFault
<1>2. \A q \in Pids : Pcb(q)' = Pcb(q) /\ State(q)' = State(q)
  BY <1>1, Woken
<1> QED BY <1>1, <1>2, Unseen DEF Wake, cpu_side

-----------------------------------------------------------------------------
(* The way of a pcb to the CPU and back is not seen.                       *)

LEMMA SendUnseen ==
  ASSUME NEW p \in Pids, PcbInv, PcbInv', CpuSendPcb(p)
  PROVE  UNCHANGED views
<1>1. /\ sched = "execute_algorithm" /\ place[p] = "ready"
      /\ place' = [place EXCEPT ![p] = "cpu"]
      /\ wire'.pcb = pcbs[p] /\ wire'.interrupt_type = "NO_INTERRUPT"
      /\ UNCHANGED <<pcbs, running, memory, shown, cpu_module>>
  BY DEF CpuSendPcb, SendPcb, cpu_side
<1>2. running' = None  BY <1>1, PcbOnItsWay DEF OneWay
<1>3. place'[p] = "cpu" /\ \A q \in Pids \ {p} : place'[q] = place[q]
  BY <1>1 DEF PcbInv, Data
<1>4. \A q \in Pids : place[q] # "cpu"
  BY <1>1 DEF PcbInv, CpuTypeOK
<1>5. Pcb(p)' = Pcb(p) /\ State(p)' = State(p)
  BY <1>1, <1>2, <1>3 DEF Pcb, State, After
<1>6. \A q \in Pids \ {p} : Pcb(q)' = Pcb(q) /\ State(q)' = State(q)
  BY <1>1, <1>3, <1>4 DEF Pcb, State
<1> QED BY <1>1, <1>5, <1>6, Unseen

LEMMA RecvUnseen ==
  ASSUME PcbInv, PcbInv', BurstFlags, CpuRecvPcb
  PROVE  UNCHANGED views
<1>1. /\ to_cpu # << >> /\ cycle' = "reset" /\ cpu_pcb' = wire.pcb
      /\ UNCHANGED <<wire, place, pcbs, memory, shown, cpu_module>>
  BY DEF CpuRecvPcb, RecvPcb, kernel_side
<1>2. running = None /\ running' # None
  BY <1>1, PcbOnItsWay, PcbOnItsWayNext DEF OneWay
<1>3. After(wire.interrupt_type) = "running" /\ CycleState' = "running"
  BY <1>1 DEF BurstFlags, After, CycleState
<1>4. ASSUME NEW q \in Pids PROVE Pcb(q)' = Pcb(q) /\ State(q)' = State(q)
  BY <1>1, <1>2, <1>3 DEF Pcb, State
<1> QED BY <1>1, <1>4, Unseen

LEMMA CycleUnseen ==
  ASSUME PcbInv, BurstFlags, CpuReset \/ CpuCheckInterrupt
  PROVE  UNCHANGED views
<1>1. UNCHANGED <<wire, place, pcbs, cpu_pcb, running, memory, shown, cpu_module>>
  BY DEF CpuReset, Reset, CpuCheckInterrupt, CheckInterrupt, kernel_side, cpu_side
<1>2. CycleState' = CycleState
  <2>1. CASE CpuReset
    BY <2>1 DEF CpuReset, Reset, CycleState, After
  <2>2. CASE CpuCheckInterrupt
    <3>1. /\ cycle = "check" /\ interrupt_type' = Checked /\ cycle' # "reset"
          /\ UNCHANGED interruption_io_pf
      BY <2>2 DEF CpuCheckInterrupt, CheckInterrupt
    <3>2. interruption_io_pf # "EXECUTION_FINISHED"
      BY <3>1 DEF BurstFlags, Blocking
    <3> QED BY <3>1, <3>2 DEF CycleState, Checked
  <2> QED BY <2>1, <2>2
<1>3. ASSUME NEW q \in Pids PROVE Pcb(q)' = Pcb(q) /\ State(q)' = State(q)
  BY <1>1, <1>2 DEF Pcb, State
<1> QED BY <1>1, <1>3, Unseen

LEMMA SendBackUnseen ==
  ASSUME PcbInv, PcbInv', BurstFlags, CpuSendPcbBack
  PROVE  UNCHANGED views
<1>1. /\ cycle = "send_pcb" /\ cycle' = "recv_pcb"
      /\ wire'.pcb = cpu_pcb /\ wire'.interrupt_type = interrupt_type
      /\ UNCHANGED <<place, pcbs, memory, shown, cpu_module>>
  BY DEF CpuSendPcbBack, SendPcbBack, kernel_side, cpu_side
<1>2. running # None /\ running' = None
  BY <1>1, PcbOnItsWay, PcbOnItsWayNext DEF OneWay
<1>3. CycleState = After(interrupt_type)
  BY <1>1 DEF BurstFlags, CycleState, After, Blocking
<1>4. ASSUME NEW q \in Pids PROVE Pcb(q)' = Pcb(q) /\ State(q)' = State(q)
  BY <1>1, <1>2, <1>3 DEF Pcb, State
<1> QED BY <1>1, <1>4, Unseen

LEMMA ReceiveUnseen ==
  ASSUME PcbInv, CpuWaitCpuDispatch
  PROVE  UNCHANGED views
<1>1. /\ sched = "recv_pcb" /\ to_kernel # << >>
      /\ UNCHANGED <<wire, running, cycle, interrupt_type, interruption_io_pf, cpu_pcb,
                     memory, shown, cpu_module>>
  BY DEF CpuWaitCpuDispatch, WaitCpuDispatch, cpu_side, flags
<1>2. running = None /\ sched # "execute_algorithm"
  BY <1>1, PcbOnItsWay DEF OneWay
<1>3. wire.pcb.id \in Pids /\ wire.interrupt_type \in Ends
  BY <1>1, <1>2 DEF PcbInv, Data, Reasons, Records
<1> PICK p \in Pids : p = wire.pcb.id  BY <1>3
<1>4. \A q \in Pids : place[q] = "cpu" <=> q = p
  BY <1>2 DEF PcbInv, CpuTypeOK
<1>5. /\ pcbs' = [pcbs EXCEPT ![p] = wire.pcb]
      /\ place' = [place EXCEPT ![p] = PlaceAfter(wire.interrupt_type)]
  BY DEF CpuWaitCpuDispatch
<1>6. /\ pcbs'[p] = wire.pcb /\ place'[p] = PlaceAfter(wire.interrupt_type)
      /\ \A q \in Pids \ {p} : place'[q] = place[q] /\ pcbs'[q] = pcbs[q]
  BY <1>5 DEF PcbInv, Data
<1>7. Pcb(p)' = Pcb(p)
  <2>1. place'[p] # "cpu"  BY <1>3, <1>6 DEF PlaceAfter, Ends
  <2> QED BY <1>2, <1>4, <1>6, <2>1 DEF Pcb
<1>8. State(p)' = State(p)
  <2>1. State(p) = After(wire.interrupt_type)  BY <1>2, <1>4 DEF State
  <2>2. State(p)' = After(wire.interrupt_type)
    BY <1>3, <1>6 DEF State, PlaceAfter, After, Ends
  <2> QED BY <2>1, <2>2
<1>9. \A q \in Pids \ {p} : Pcb(q)' = Pcb(q) /\ State(q)' = State(q)
  BY <1>4, <1>6 DEF Pcb, State
<1> QED BY <1>1, <1>7, <1>8, <1>9, Unseen

(* The threads of the quantum, and a step of nobody.                       *)
LEMMA QuantumUnseen ==
  ASSUME CpuCreateQuantum \/ CpuStartQuantum \/ CpuStartInterrupt \/ UNCHANGED cpuvars
  PROVE  UNCHANGED views
<1>1. UNCHANGED <<place, pcbs, wire, cpu_pcb, running, cycle, interrupt_type,
                 interruption_io_pf, memory, shown, cpu_module>>
  BY DEF CpuCreateQuantum, CreateQuantum, CpuStartQuantum, StartQuantum, CpuStartInterrupt,
         StartInterrupt, cpuvars, vars, flags, kernel_side, cpu_side
<1>2. CycleState' = CycleState  BY <1>1 DEF CycleState
<1>3. ASSUME NEW q \in Pids PROVE Pcb(q)' = Pcb(q) /\ State(q)' = State(q)
  BY <1>1, <1>2 DEF Pcb, State
<1> QED BY <1>1, <1>3, Unseen

LEMMA StepInPrograms ==
  ASSUME ProgramInv, ProgramInv', [CpuNext]_cpuvars
  PROVE  [User!Next]_views
<1>a. PcbInv /\ PcbInv' /\ BurstFlags /\ IoInv /\ Arrays
  BY DEF ProgramInv
<1>1. CASE \E p \in Pids : CpuSendPcb(p)
  BY <1>1, <1>a, SendUnseen
<1>2. CASE CpuCreateQuantum \/ CpuStartQuantum \/ CpuStartInterrupt \/ UNCHANGED cpuvars
  BY <1>2, QuantumUnseen
<1>3. CASE CpuWaitCpuDispatch  BY <1>3, <1>a, ReceiveUnseen
<1>4. CASE CpuRecvPcb  BY <1>4, <1>a, RecvUnseen
<1>5. CASE CpuReset \/ CpuCheckInterrupt  BY <1>5, <1>a, CycleUnseen
<1>6. CASE Execute  BY <1>6, <1>a, ExecuteInPrograms
<1>7. CASE CpuSendPcbBack  BY <1>7, <1>a, SendBackUnseen
<1>8. ASSUME NEW p \in Pids, Handlers(p) PROVE [User!Next]_views
  <2>1. CASE HandlePageFault(p)  BY <2>1, <1>a, FaultUnseen
  <2>2. CASE ~ HandlePageFault(p)
    <3>1. User!Step(p)  BY <1>8, <1>a, <2>2, EndIoStep DEF Handlers, User!Step
    <3> QED BY <3>1 DEF User!Next
  <2> QED BY <2>1, <2>2
<1> QED
  BY <1>1, <1>2, <1>3, <1>4, <1>5, <1>6, <1>7, <1>8 DEF CpuNext, Dispatcher, CpuCycle

InitialViews ==
  /\ counters \in [Pids -> Starts]
  /\ register_files = [p \in Pids |-> [r \in Registers |-> 0]]
  /\ memories = [p \in Pids |-> [dl \in User!Addresses(p) |-> Unwritten]]
  /\ states = [p \in Pids |-> "running"]
  /\ shown = [p \in Pids |-> << >>]
  /\ is_up = TRUE

LEMMA InitInPrograms == CpuInit => InitialViews
<1> SUFFICES ASSUME CpuInit PROVE InitialViews
  OBVIOUS
<1>1. \A p \in Pids : place[p] = "ready"  BY DEF CpuInit
<1>2. \A p \in Pids : Pcb(p) = pcbs[p] /\ State(p) = "running"
  BY <1>1 DEF Pcb, State
<1>3. PICK start \in [Pids -> Starts] :
        pcbs = [p \in Pids |-> [id |-> p, program_counter |-> start[p],
                                registers |-> [r \in Registers |-> 0]]]
  BY DEF CpuInit
<1>4. counters = start  BY <1>2, <1>3 DEF counters
<1>5. register_files = [p \in Pids |-> [r \in Registers |-> 0]]
  BY <1>2, <1>3 DEF register_files
<1>6. states = [p \in Pids |-> "running"]  BY <1>2 DEF states
<1>7. memories = [p \in Pids |-> [dl \in MovAddresses(p) |-> Unwritten]]
  <2>1. ASSUME NEW p \in Pids, NEW dl \in MovAddresses(p)
        PROVE  memory[p][Cell(dl)] = Unwritten
    <3>1. Cell(dl) \in Cells(p)  BY DEF Cells
    <3> QED BY <3>1 DEF CpuInit
  <2>2. ASSUME NEW p \in Pids
        PROVE  [dl \in MovAddresses(p) |-> memory[p][Cell(dl)]]
                 = [dl \in MovAddresses(p) |-> Unwritten]
    BY <2>1
  <2> QED BY <2>2 DEF memories
<1>8. \A p \in Pids : User!Addresses(p) = MovAddresses(p)
  BY DEF User!Addresses, MovAddresses, Movs
<1> QED BY <1>4, <1>5, <1>6, <1>7, <1>8 DEF CpuInit, InitialViews, is_up

(* Each program runs as if it were alone (ExecutesPrograms): whatever the  *)
(* quantum, the page faults, the I/O and the other programs do, its        *)
(* instructions execute in order and once each, on registers and a flat    *)
(* memory of its own.                                                      *)
THEOREM CpuImplementsPrograms == CpuSpec => ExecutesPrograms
<1>1. CpuInit => InitialViews  BY InitInPrograms
<1>2. CpuInit /\ [][CpuNext]_cpuvars => []ProgramInv
  BY ProgramInit, ProgramNext, PTL
<1>3. CpuInit /\ [][CpuNext]_cpuvars => InitialViews /\ [][User!Next]_views
  BY <1>1, <1>2, StepInPrograms, PTL
<1>4. [User!Next]_views <=> [User!Next]_(User!vars)
  BY DEF views, counters, register_files, memories, states, is_up, User!vars
<1>5. User!Init <=> InitialViews
  BY DEF User!Init, InitialViews, counters, register_files, memories, states, is_up
<1> QED BY <1>3, <1>4, <1>5, PTL DEF CpuSpec, ExecutesPrograms, User!Spec
=============================================================================
