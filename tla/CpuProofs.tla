------------------------------ MODULE CpuProofs ------------------------------
(***************************************************************************)
(* Theorems about Addresses, for every size of a page and of a page table; *)
(* about Quantum, for every algorithm, number of dispatches and length of  *)
(* the bursts; and about Cpu, which is built from both, for every set of   *)
(* processes and every program.                                            *)
(***************************************************************************)
EXTENDS Cpu, TLAPS

-----------------------------------------------------------------------------
(* Addresses.                                                              *)

(* Division with remainder, the only fact about \div and % used below.     *)
LEMMA DivMod ==
  ASSUME NEW n \in Nat, NEW d \in Nat \ {0}
  PROVE  /\ n \div d \in Nat
         /\ n % d \in 0 .. d - 1
         /\ n = d * (n \div d) + (n % d)
BY SMT

(* A product grows with its second factor.                                 *)
LEMMA TimesMonotonic ==
  ASSUME NEW d \in Nat, NEW a \in Nat, NEW b \in Nat, a < b
  PROVE  d * a + d <= d * b
<1> DEFINE k == b - a - 1
<1>1. k \in Nat /\ b = a + 1 + k  OBVIOUS
<1>2. d * b = d * a + d + d * k  BY <1>1, SMT
<1>3. d * k \in Nat  BY <1>1, SMT
<1>4. d * a \in Nat  BY SMT
<1> QED BY <1>2, <1>3, <1>4, SMT

LEMMA SizesPositive == SegmentMaxSize \in Nat \ {0}
BY AddressesAssumption, SMT DEF SegmentMaxSize

(* mmu loses nothing: the parts of an address are within their bounds and  *)
(* give the address back.                                                  *)
THEOREM AddressParts ==
  ASSUME NEW dl \in Nat
  PROVE  /\ SegmentNum(dl) \in Nat
         /\ SegmentOffset(dl) \in 0 .. SegmentMaxSize - 1
         /\ PageNum(dl) \in 0 .. InputsTable - 1
         /\ PageOffset(dl) \in 0 .. PageSize - 1
         /\ dl = SegmentMaxSize * SegmentNum(dl)
                   + (PageSize * PageNum(dl) + PageOffset(dl))
<1>1. /\ SegmentNum(dl) \in Nat
      /\ SegmentOffset(dl) \in 0 .. SegmentMaxSize - 1
      /\ dl = SegmentMaxSize * SegmentNum(dl) + SegmentOffset(dl)
  BY SizesPositive, DivMod DEF SegmentNum, SegmentOffset
<1> DEFINE o == SegmentOffset(dl)
<1>2. o \in Nat /\ o < SegmentMaxSize  BY <1>1, SizesPositive
<1>3. /\ PageNum(dl) \in Nat
      /\ PageOffset(dl) \in 0 .. PageSize - 1
      /\ o = PageSize * PageNum(dl) + PageOffset(dl)
  BY <1>2, AddressesAssumption, DivMod DEF PageNum, PageOffset
<1>4. PageNum(dl) < InputsTable
  <2> SUFFICES ASSUME InputsTable <= PageNum(dl) PROVE FALSE
    BY <1>3, AddressesAssumption
  <2>1. CASE InputsTable = PageNum(dl)
    <3>1. PageSize * PageNum(dl) = SegmentMaxSize
      BY <2>1, AddressesAssumption, SMT DEF SegmentMaxSize
    <3> QED BY <3>1, <1>2, <1>3, SizesPositive, AddressesAssumption
  <2>2. CASE InputsTable < PageNum(dl)
    <3>1. PageSize * InputsTable + PageSize <= PageSize * PageNum(dl)
      BY <2>2, <1>3, AddressesAssumption, TimesMonotonic
    <3>2. PageSize * InputsTable = SegmentMaxSize
      BY AddressesAssumption, SMT DEF SegmentMaxSize
    <3>3. PageSize * PageNum(dl) \in Nat  BY <1>3, AddressesAssumption, SMT
    <3> QED BY <3>1, <3>2, <3>3, <1>2, <1>3, SizesPositive, AddressesAssumption
  <2> QED BY <2>1, <2>2, <1>3, AddressesAssumption
<1> QED BY <1>1, <1>3, <1>4, AddressesAssumption

(* Two addresses never share a cell: the flat memory a program addresses   *)
(* is split among the pages without aliases.                               *)
THEOREM AddressUnique ==
  ASSUME NEW a \in Nat, NEW b \in Nat,
         SegmentNum(a) = SegmentNum(b),
         PageNum(a) = PageNum(b),
         PageOffset(a) = PageOffset(b)
  PROVE  a = b
BY AddressParts

(* An address that passes the test of mov_execute for a segmentation fault *)
(* is on a page that process_started created for the segment.              *)
THEOREM PageExists ==
  ASSUME NEW dl \in Nat, NEW size \in Nat, SegmentOffset(dl) < size
  PROVE  PageNum(dl) < PageAmount(size)
<1> DEFINE n == size + PageSize - 1
           q == PageNum(dl)
           d == PageAmount(size)
<1>1. /\ q \in Nat
      /\ PageOffset(dl) \in 0 .. PageSize - 1
      /\ SegmentOffset(dl) \in Nat
  BY AddressParts, SizesPositive, AddressesAssumption
<1>2. SegmentOffset(dl) = PageSize * q + PageOffset(dl)
  BY <1>1, AddressesAssumption, DivMod DEF PageNum, PageOffset
<1>3. n \in Nat  BY AddressesAssumption
<1>4. /\ d \in Nat
      /\ n % PageSize \in 0 .. PageSize - 1
      /\ n = PageSize * d + (n % PageSize)
  BY <1>3, AddressesAssumption, DivMod DEF PageAmount
<1>5. PageSize * q \in Nat /\ PageSize * d \in Nat
  BY <1>1, <1>4, AddressesAssumption, SMT
<1>6. PageSize * q < PageSize * d
  <2> HIDE DEF q, d
  <2> QED BY <1>1, <1>2, <1>3, <1>4, <1>5, AddressesAssumption, SMT
<1> SUFFICES ASSUME d <= q PROVE FALSE
  BY <1>1, <1>4
<1>7. CASE d = q  BY <1>6, <1>7, <1>5
<1>8. CASE d < q
  <2>1. PageSize * d + PageSize <= PageSize * q
    BY <1>8, <1>1, <1>4, AddressesAssumption, TimesMonotonic
  <2> QED BY <2>1, <1>5, <1>6, AddressesAssumption
<1> QED BY <1>7, <1>8, <1>1, <1>4

(* A MOV moves four bytes from an address tested for its first byte only.  *)
(* When the size of a page is a multiple of four, the value of an address  *)
(* that is one too stays in its page.                                      *)
THEOREM ValueInPage ==
  ASSUME NEW dl \in Nat,
         dl % IntSize = 0, PageSize % IntSize = 0
  PROVE  PageOffset(dl) + IntSize <= PageSize
<1> DEFINE s == SegmentNum(dl)
           p == PageNum(dl)
           o == PageOffset(dl)
           k == PageSize \div 4
           m == dl \div 4
<1>1. s \in Nat /\ p \in Nat /\ o \in 0 .. PageSize - 1
  BY AddressParts, AddressesAssumption
<1>2. PageSize = 4 * k /\ k \in Nat
  BY AddressesAssumption, DivMod DEF IntSize
<1>3. dl = 4 * m /\ m \in Nat
  BY DivMod DEF IntSize
<1>4. dl = SegmentMaxSize * s + (PageSize * p + o)
  BY AddressParts
<1> DEFINE a == InputsTable * (k * s)
           b == k * p
<1>5. a \in Nat /\ b \in Nat
  BY <1>1, <1>2, AddressesAssumption, SMT
<1>6. SegmentMaxSize * s = 4 * a
  BY <1>1, <1>2, AddressesAssumption, SMT DEF SegmentMaxSize
<1>7. PageSize * p = 4 * b
  BY <1>1, <1>2, SMT
<1>8. o = 4 * (m - a - b)
  <2> HIDE DEF o, m, a, b, s, p
  <2> QED BY <1>1, <1>3, <1>4, <1>5, <1>6, <1>7, AddressesAssumption, SMT
<1>9. o + 4 <= PageSize
  <2> HIDE DEF o, m, a, b, k
  <2> QED BY <1>1, <1>2, <1>3, <1>5, <1>8, AddressesAssumption, SMT
<1> QED BY <1>9 DEF IntSize

(* Positions of the RAM belong to one frame each.                          *)
THEOREM FramesApart ==
  ASSUME NEW f \in Nat, NEW g \in Nat,
         NEW i \in 0 .. PageSize - 1, NEW j \in 0 .. PageSize - 1,
         OffsetRam(f, i) = OffsetRam(g, j)
  PROVE  f = g /\ i = j
<1> DEFINE x == PageSize * f
           y == PageSize * g
<1>1. x + i = y + j
  BY AddressesAssumption, SMT DEF OffsetRam
<1>2. x \in Nat /\ y \in Nat
  BY AddressesAssumption, SMT
<1>3. ~ f < g
  <2> SUFFICES ASSUME f < g PROVE FALSE  OBVIOUS
  <2>1. x + PageSize <= y  BY TimesMonotonic, AddressesAssumption
  <2> HIDE DEF x, y
  <2> QED BY <2>1, <1>1, <1>2, AddressesAssumption
<1>4. ~ g < f
  <2> SUFFICES ASSUME g < f PROVE FALSE  OBVIOUS
  <2>1. y + PageSize <= x  BY TimesMonotonic, AddressesAssumption
  <2> HIDE DEF x, y
  <2> QED BY <2>1, <1>1, <1>2, AddressesAssumption
<1>5. f = g  BY <1>3, <1>4
<1> QED BY <1>5, <1>1, <1>2

-----------------------------------------------------------------------------
(* Quantum.                                                                *)

(* The parts of the state TypeOK does not mention.                         *)
Shape ==
  /\ sched \in {"execute_algorithm", "quantum", "recv_pcb"}
  /\ with_quantum \in BOOLEAN
  /\ cycle \in {"recv_pcb", "reset", "execute", "check", "send_pcb"}
  /\ to_cpu \in Seq(Dispatches) /\ to_kernel \in Seq(Dispatches)
  /\ running \in Dispatches \cup {None}
  /\ running = None <=> cycle = "recv_pcb"
  /\ preempted_by \in [Dispatches -> Dispatches \cup {None}]

(* The timer of a dispatch is created once, after it was sent, and is gone *)
(* before the next one is sent; FIFO has none.                             *)
OneTimer ==
  /\ sched # "execute_algorithm" => current > 0
  /\ sched = "quantum" => thread_interrupt = None
  /\ Algorithm = "FIFO" => thread_interrupt = None /\ ~with_quantum

TypeInv == TypeOK /\ Shape /\ OneTimer

(* The interrupt e was sent before the one the current timer will send.    *)
Older(e) ==
  /\ e <= current
  /\ thread_interrupt # None \/ sched = "quantum" => e < current

(* Interrupts travel in the order of their dispatches: the ones in the     *)
(* socket are older than the timer, and newer than the flag and than any   *)
(* that has preempted a process.                                           *)
InOrder ==
  /\ \A i \in DOMAIN interrupts :
       /\ Older(interrupts[i])
       /\ \A j \in DOMAIN interrupts : i < j => interrupts[i] < interrupts[j]
       /\ interruption_quantum < interrupts[i]
       /\ \A d \in Dispatches : preempted_by[d] < interrupts[i]
  /\ Older(interruption_quantum)
  /\ \A d \in Dispatches : Older(preempted_by[d])

(* While instructions execute, the flag holds an interrupt that has not    *)
(* preempted any process.                                                  *)
FlagUnspent ==
  cycle \in {"execute", "check"} /\ interruption_quantum # None =>
    \A d \in Dispatches : preempted_by[d] # interruption_quantum

LEMMA TypeInit == Init => TypeInv
<1> SUFFICES ASSUME Init PROVE TypeInv
  OBVIOUS
<1>1. TypeOK  BY QuantumAssumption DEF Init, TypeOK, Dispatches, None
<1>2. Shape
  <2>1. with_quantum \in BOOLEAN  BY DEF Init
  <2>2. to_cpu \in Seq(Dispatches) /\ to_kernel \in Seq(Dispatches)  BY DEF Init
  <2>3. preempted_by \in [Dispatches -> Dispatches \cup {None}]  BY DEF Init
  <2> QED BY <2>1, <2>2, <2>3 DEF Init, Shape
<1>3. OneTimer  BY DEF Init, OneTimer, None
<1> QED BY <1>1, <1>2, <1>3 DEF TypeInv

LEMMA TypeNext == TypeInv /\ [Next]_vars => TypeInv'
<1> SUFFICES ASSUME TypeInv, [Next]_vars PROVE TypeInv'
  OBVIOUS
<1> USE QuantumAssumption DEF TypeInv, TypeOK, Shape, OneTimer, Dispatches, None
<1>1. CASE SendPcb
  BY <1>1 DEF SendPcb, UsesQuantum, kernel, flags, sockets
<1>2. CASE CreateQuantum
  BY <1>2 DEF CreateQuantum, kernel, flags, sockets
<1>3. CASE WaitCpuDispatch
  BY <1>3 DEF WaitCpuDispatch, kernel, flags, sockets
<1>4. CASE StartQuantum
  BY <1>4 DEF StartQuantum, kernel, flags, sockets
<1>5. CASE StartInterrupt
  BY <1>5 DEF StartInterrupt, kernel, flags, sockets
<1>6. CASE RecvPcb
  BY <1>6 DEF RecvPcb, kernel, flags, sockets
<1>7. CASE Reset
  BY <1>7 DEF Reset, kernel, flags, sockets
<1>8. CASE ExecutePlain
  BY <1>8 DEF ExecutePlain, kernel, flags, sockets
<1>9. CASE ExecuteBlocking
  BY <1>9 DEF ExecuteBlocking, kernel, flags, sockets
<1>10. CASE ExecuteExit
  BY <1>10 DEF ExecuteExit, kernel, flags, sockets
<1>11. CASE CheckInterrupt
  BY <1>11 DEF CheckInterrupt, Checked, kernel, flags, sockets
<1>12. CASE SendPcbBack
  BY <1>12 DEF SendPcbBack, kernel, flags, sockets
<1>13. CASE UNCHANGED vars
  BY <1>13 DEF vars, kernel, flags, sockets
<1> QED
  BY <1>1, <1>2, <1>3, <1>4, <1>5, <1>6, <1>7, <1>8, <1>9, <1>10, <1>11, <1>12, <1>13 DEF Next, Sched, InstructionCycle

(* There is one pcb, on its way to the CPU, in it or on its way back, and  *)
(* the only timer is that of the last dispatch (TypeOK), in every run.     *)
THEOREM TypeCorrect == Spec => []TypeOK
<1>1. TypeInv => TypeOK  BY DEF TypeInv
<1> QED BY TypeInit, TypeNext, <1>1, PTL DEF Spec

-----------------------------------------------------------------------------
OrderInv == TypeInv /\ InOrder /\ FlagUnspent /\ OneEach

LEMMA OrderInit == Init => OrderInv
<1> SUFFICES ASSUME Init PROVE OrderInv
  OBVIOUS
<1>1. TypeInv  BY TypeInit
<1> QED BY <1>1 DEF Init, OrderInv, InOrder, Older, FlagUnspent, OneEach, None

(* What the numbers are.                                                   *)
LEMMA Tags ==
  ASSUME TypeInv
  PROVE  /\ current \in Nat /\ interruption_quantum \in Nat
         /\ thread_interrupt \in {None, current}
         /\ interrupts \in Seq(Dispatches)
         /\ \A i \in DOMAIN interrupts : interrupts[i] \in Nat \ {0}
         /\ \A d \in Dispatches : preempted_by[d] \in Nat
         /\ preempted_by \in [Dispatches -> Nat]
<1>1. /\ Dispatches \subseteq Nat \ {0} /\ None = 0 /\ MaxDispatches \in Nat
  BY QuantumAssumption DEF Dispatches, None
<1>2. /\ current \in 0 .. MaxDispatches /\ thread_interrupt \in {None, current}
      /\ interruption_quantum \in Dispatches \cup {None}
      /\ interrupts \in Seq(Dispatches)
      /\ preempted_by \in [Dispatches -> Dispatches \cup {None}]
  BY DEF TypeInv, TypeOK, Shape
<1>3. \A i \in DOMAIN interrupts : interrupts[i] \in Nat \ {0}
  <2>1. \A i \in DOMAIN interrupts : interrupts[i] \in Dispatches  BY <1>2
  <2> QED BY <1>1, <2>1
<1>4. preempted_by \in [Dispatches -> Nat]  BY <1>1, <1>2
<1> QED BY <1>1, <1>2, <1>3, <1>4

(* A step of which the interrupts are no concern.                          *)
LEMMA NoInterrupt ==
  ASSUME InOrder, UNCHANGED <<interrupts, interruption_quantum, preempted_by>>,
         \A e \in Nat : Older(e) => Older(e)', TypeInv
  PROVE  InOrder'
<1> QED BY Tags DEF InOrder

LEMMA OrderNext == OrderInv /\ [Next]_vars => OrderInv'
<1> SUFFICES ASSUME OrderInv, [Next]_vars PROVE (InOrder /\ FlagUnspent /\ OneEach)'
  BY TypeNext DEF OrderInv
<1> USE DEF None
<1>a. TypeInv /\ InOrder /\ FlagUnspent /\ OneEach /\ TypeInv'
  BY TypeNext DEF OrderInv
<1>b. /\ current \in Nat /\ interruption_quantum \in Nat
      /\ thread_interrupt \in {None, current}
      /\ interrupts \in Seq(Dispatches)
      /\ \A i \in DOMAIN interrupts : interrupts[i] \in Nat \ {0}
      /\ \A d \in Dispatches : preempted_by[d] \in Nat
      /\ preempted_by \in [Dispatches -> Nat]
  BY <1>a, Tags
<1>1. CASE SendPcb
  <2>1. thread_interrupt = None /\ thread_interrupt' = None /\ current' = current + 1
        /\ sched' = "quantum" /\ cycle' = cycle
    BY <1>1, <1>a DEF SendPcb, TypeInv, TypeOK
  <2>2. \A e \in Nat : Older(e) => Older(e)'  BY <2>1, <1>b DEF Older
  <2> QED BY <1>1, <1>a, <2>1, <2>2, NoInterrupt DEF SendPcb, flags, FlagUnspent, OneEach
<1>2. CASE CreateQuantum
  <2>1. \A e \in Nat : Older(e) => Older(e)'
    BY <1>2, <1>b DEF CreateQuantum, Older
  <2> QED BY <1>2, <1>a, <2>1, NoInterrupt DEF CreateQuantum, flags, FlagUnspent, OneEach
<1>3. CASE WaitCpuDispatch
  <2>1. \A e \in Nat : Older(e) => Older(e)'
    BY <1>3, <1>b DEF WaitCpuDispatch, Older
  <2> QED BY <1>3, <1>a, <2>1, NoInterrupt DEF WaitCpuDispatch, flags, FlagUnspent, OneEach
<1>4. CASE StartQuantum
  <2>1. /\ thread_interrupt = current /\ current > 0 /\ sched # "quantum"
        /\ interrupts' = Append(interrupts, current) /\ thread_interrupt' = None
        /\ UNCHANGED <<current, sched, interruption_quantum, preempted_by, cycle>>
    BY <1>4, <1>a, <1>b DEF StartQuantum, kernel, flags, TypeInv, OneTimer
  <2>2. /\ DOMAIN interrupts' = 1 .. Len(interrupts) + 1 /\ Len(interrupts) \in Nat
        /\ DOMAIN interrupts = 1 .. Len(interrupts)
        /\ interrupts'[Len(interrupts) + 1] = current
        /\ \A i \in DOMAIN interrupts : interrupts'[i] = interrupts[i]
    BY <2>1, <1>b
  <2>3. \A e \in Nat : Older(e) => e < current /\ Older(e)'
    BY <2>1, <1>b DEF Older
  <2>4. Older(current)'
    BY <2>1, <1>b DEF Older
  <2>5. InOrder'
    <3>1. ASSUME NEW i \in DOMAIN interrupts'
          PROVE  /\ Older(interrupts[i])'
                 /\ \A j \in DOMAIN interrupts' : i < j => interrupts'[i] < interrupts'[j]
                 /\ interruption_quantum' < interrupts'[i]
                 /\ \A d \in Dispatches : preempted_by'[d] < interrupts'[i]
      <4>1. CASE i \in DOMAIN interrupts
        BY <4>1, <1>a, <1>b, <2>1, <2>2, <2>3 DEF InOrder
      <4>2. CASE i = Len(interrupts) + 1
        BY <4>2, <1>a, <1>b, <2>1, <2>2, <2>3, <2>4 DEF InOrder
      <4> QED BY <2>2, <4>1, <4>2
    <3>2. Older(interruption_quantum)' /\ \A d \in Dispatches : Older(preempted_by[d])'
      BY <1>a, <1>b, <2>1, <2>3 DEF InOrder
    <3> QED BY <3>1, <3>2 DEF InOrder
  <2> QED BY <1>a, <2>1, <2>5 DEF FlagUnspent, OneEach
<1>5. CASE StartInterrupt
  <2>1. /\ interrupts # << >> /\ interrupts' = Tail(interrupts)
        /\ interruption_quantum' = interrupts[1]
        /\ UNCHANGED <<current, sched, thread_interrupt, preempted_by, cycle>>
    BY <1>5, <1>b DEF StartInterrupt, kernel
  <2>2. /\ Len(interrupts) \in Nat \ {0} /\ DOMAIN interrupts = 1 .. Len(interrupts)
        /\ DOMAIN interrupts' = 1 .. Len(interrupts) - 1
        /\ \A i \in DOMAIN interrupts' : interrupts'[i] = interrupts[i + 1]
    BY <2>1, <1>b
  <2>3. \A e : Older(e)' <=> Older(e)  BY <2>1 DEF Older
  <2>4. \A d \in Dispatches : preempted_by'[d] < interruption_quantum'
    BY <1>a, <2>1, <2>2 DEF InOrder
  <2>5. InOrder'
    <3>1. ASSUME NEW i \in DOMAIN interrupts'
          PROVE  /\ Older(interrupts[i])'
                 /\ \A j \in DOMAIN interrupts' : i < j => interrupts'[i] < interrupts'[j]
                 /\ interruption_quantum' < interrupts'[i]
                 /\ \A d \in Dispatches : preempted_by'[d] < interrupts'[i]
      <4>1. i + 1 \in DOMAIN interrupts /\ 1 \in DOMAIN interrupts /\ i \in Nat \ {0}
        BY <2>2
      <4>2. Older(interrupts[i])'
        BY <4>1, <1>a, <2>1, <2>2 DEF InOrder, Older
      <4>3. ASSUME NEW j \in DOMAIN interrupts', i < j PROVE interrupts'[i] < interrupts'[j]
        BY <4>1, <4>3, <1>a, <2>2 DEF InOrder
      <4>4. interruption_quantum' < interrupts'[i]
        BY <4>1, <1>a, <2>1, <2>2 DEF InOrder
      <4>5. \A d \in Dispatches : preempted_by'[d] < interrupts'[i]
        BY <4>1, <1>a, <2>1, <2>2 DEF InOrder
      <4> QED BY <4>2, <4>3, <4>4, <4>5
    <3>2. Older(interruption_quantum)' /\ \A d \in Dispatches : Older(preempted_by[d])'
      BY <1>a, <1>b, <2>1, <2>2 DEF InOrder, Older
    <3> QED BY <3>1, <3>2 DEF InOrder
  <2>6. FlagUnspent'  BY <1>b, <2>1, <2>4 DEF FlagUnspent
  <2> QED BY <1>a, <2>1, <2>5, <2>6 DEF OneEach
<1>6. CASE RecvPcb
  <2>1. \A e \in Nat : Older(e) => Older(e)'
    BY <1>6 DEF RecvPcb, kernel, Older
  <2> QED BY <1>6, <1>a, <2>1, NoInterrupt DEF RecvPcb, flags, FlagUnspent, OneEach
<1>7. CASE Reset
  <2>1. \A e : Older(e)' <=> Older(e)  BY <1>7 DEF Reset, kernel, Older
  <2>2. Older(0)  BY <1>a, <1>b DEF Older, TypeInv, OneTimer
  <2>3. UNCHANGED <<interrupts, preempted_by>> /\ interruption_quantum' = 0
    BY <1>7 DEF Reset
  <2>4. InOrder'
    <3>1. Older(interruption_quantum)'  BY <1>7, <2>2, <2>3 DEF Reset, kernel, Older
    <3>2. \A i \in DOMAIN interrupts' : interruption_quantum' < interrupts'[i]
      BY <1>b, <2>3
    <3>3. /\ \A i \in DOMAIN interrupts' : Older(interrupts[i])'
          /\ \A d \in Dispatches : Older(preempted_by[d])'
      BY <1>7, <1>a DEF Reset, kernel, InOrder, Older
    <3> QED BY <1>a, <2>3, <3>1, <3>2, <3>3 DEF InOrder
  <2> QED BY <1>a, <2>3, <2>4 DEF FlagUnspent, OneEach
<1>8. CASE ExecutePlain
  <2>1. \A e \in Nat : Older(e) => Older(e)'
    BY <1>8 DEF ExecutePlain, kernel, Older
  <2> QED BY <1>8, <1>a, <2>1, NoInterrupt DEF ExecutePlain, flags, FlagUnspent, OneEach
<1>9. CASE ExecuteBlocking
  <2>1. \A e \in Nat : Older(e) => Older(e)'
    BY <1>9 DEF ExecuteBlocking, kernel, Older
  <2> QED BY <1>9, <1>a, <2>1, NoInterrupt DEF ExecuteBlocking, flags, FlagUnspent, OneEach
<1>10. CASE ExecuteExit
  <2>1. \A e \in Nat : Older(e) => Older(e)'
    BY <1>10 DEF ExecuteExit, kernel, Older
  <2> QED BY <1>10, <1>a, <2>1, NoInterrupt DEF ExecuteExit, flags, FlagUnspent, OneEach
<1>11. CASE CheckInterrupt
  <2>1. /\ \A e : Older(e)' <=> Older(e)
        /\ UNCHANGED <<interrupts, interruption_quantum, thread_interrupt, current, sched>>
        /\ cycle = "check" /\ cycle' \in {"execute", "send_pcb"}
    BY <1>11 DEF CheckInterrupt, kernel, Older
  <2>2. CASE Checked # "INT_QUANTUM"
    <3>1. preempted_by' = preempted_by  BY <1>11, <2>2 DEF CheckInterrupt
    <3> QED BY <1>a, <2>1, <3>1, NoInterrupt DEF FlagUnspent, OneEach
  <2>3. CASE Checked = "INT_QUANTUM"
    <3>1. /\ preempted_by' = [preempted_by EXCEPT ![running] = interruption_quantum]
          /\ cycle' = "send_pcb"
      BY <1>11, <2>3 DEF CheckInterrupt
    <3>2. running \in Dispatches
      BY <1>a, <2>1 DEF TypeInv, Shape
    <3>3. \A d \in Dispatches :
            preempted_by'[d] = IF d = running THEN interruption_quantum ELSE preempted_by[d]
      BY <1>b, <3>1
    <3>4. InOrder'
      <4>1. \A d \in Dispatches : Older(preempted_by[d])'
        BY <1>a, <2>1, <3>3 DEF InOrder, Older
      <4>2. \A i \in DOMAIN interrupts' : \A d \in Dispatches : preempted_by'[d] < interrupts'[i]
        BY <1>a, <2>1, <3>3 DEF InOrder
      <4>3. Older(interruption_quantum)' /\ \A i \in DOMAIN interrupts' : Older(interrupts[i])'
        BY <1>a, <2>1 DEF InOrder, Older
      <4> QED BY <1>a, <2>1, <4>1, <4>2, <4>3 DEF InOrder
    <3>5. FlagUnspent'  BY <3>1 DEF FlagUnspent
    <3>6. OneEach'
      BY <1>a, <2>1, <3>2, <3>3 DEF FlagUnspent, OneEach
    <3> QED BY <3>4, <3>5, <3>6
  <2> QED BY <2>2, <2>3
<1>12. CASE SendPcbBack
  <2>1. \A e \in Nat : Older(e) => Older(e)'
    BY <1>12 DEF SendPcbBack, kernel, Older
  <2> QED BY <1>12, <1>a, <2>1, NoInterrupt DEF SendPcbBack, flags, FlagUnspent, OneEach
<1>13. CASE UNCHANGED vars
  <2>1. \A e \in Nat : Older(e) => Older(e)'
    BY <1>13 DEF vars, kernel, Older
  <2> QED BY <1>13, <1>a, <2>1, NoInterrupt DEF vars, flags, FlagUnspent, OneEach
<1> QED
  BY <1>1, <1>2, <1>3, <1>4, <1>5, <1>6, <1>7, <1>8, <1>9, <1>10, <1>11, <1>12, <1>13
     DEF Next, Sched, InstructionCycle

(* However late an interrupt arrives, it preempts one dispatch at most:    *)
(* the three flags of the CPU and its reset at recv_pcb are enough for     *)
(* that, although they do not make it the right dispatch.                  *)
THEOREM InterruptOnce == Spec => []OneEach
<1>1. OrderInv => OneEach  BY DEF OrderInv
<1> QED BY OrderInit, OrderNext, <1>1, PTL DEF Spec

-----------------------------------------------------------------------------
(* Cpu.                                                                    *)

(* Every step of Cpu is one of Quantum or leaves its state alone.          *)

LEMMA StepIsQuantum == [CpuNext]_cpuvars => [Next]_vars
<1> SUFFICES ASSUME [CpuNext]_cpuvars PROVE Next \/ UNCHANGED vars
  OBVIOUS
<1> USE DEF Next, Sched, InstructionCycle
<1>1. CASE Dispatcher
  BY <1>1 DEF Dispatcher, CpuWaitCpuDispatch, CpuCreateQuantum, CpuSendPcb
<1>2. CASE CpuStartQuantum
  BY <1>2 DEF CpuStartQuantum
<1>3. CASE CpuStartInterrupt
  BY <1>3 DEF CpuStartInterrupt
<1>4. CASE CpuCycle
  <2>1. CASE Execute
    BY <2>1 DEF Execute, ExecuteSet, ExecuteAdd, ExecuteMovIn, ExecuteMovOut, PfOccurred,
                SegmentationFault, ExecuteIo, CpuExit, CpuCrash
  <2> QED
    BY <1>4, <2>1 DEF CpuCycle, CpuRecvPcb, CpuReset, CpuCheckInterrupt, CpuSendPcbBack
<1>5. CASE \E p \in Pids : Handlers(p)
  BY <1>5 DEF Handlers, HandleTeclado, HandlePantalla, HandleIo, HandlePageFault, Wake
<1>6. CASE UNCHANGED cpuvars
  BY <1>6 DEF cpuvars
<1> QED BY <1>1, <1>2, <1>3, <1>4, <1>5, <1>6 DEF CpuNext

(* The instruction cycle with its instructions and its pcbs runs the       *)
(* protocol of the quantum.                                                *)
THEOREM FollowsQuantum == CpuSpec => Spec
<1>1. CpuInit => Init  BY DEF CpuInit
<1> QED BY <1>1, StepIsQuantum, PTL DEF CpuSpec, Spec

(* However late an interrupt arrives, it preempts one burst of one program *)
(* at most.                                                                *)
THEOREM PreemptsOnce == CpuSpec => []OneEach
BY FollowsQuantum, InterruptOnce, PTL

LEMMA QuantumHolds == CpuSpec => []TypeInv
<1>1. CpuInit => TypeInv  BY TypeInit DEF CpuInit
<1>2. TypeInv /\ [CpuNext]_cpuvars => TypeInv'  BY TypeNext, StepIsQuantum
<1> QED BY <1>1, <1>2, PTL DEF CpuSpec

-----------------------------------------------------------------------------
(* The pcbs.                                                               *)

Records == [id : Pids, program_counter : Nat, registers : [Registers -> Words]]
Ends == {"EXECUTION_FINISHED", "INT_QUANTUM", "INT_IO", "INT_PAGE_FAULT",
         "SEGMENTATION_FAULT"}

Data ==
  /\ pcbs \in [Pids -> Records]
  /\ place \in [Pids -> {"ready", "cpu", "io", "page_fault", "exit", "killed"}]
  /\ asked = [p \in Pids |-> asked[p]]
  /\ sched # "execute_algorithm" => wire.pcb \in Records
  /\ running # None => cpu_pcb \in Records

(* A burst ends for one of five reasons, which the message to the kernel   *)
(* names.  interruption_io_pf is clear while instructions execute.         *)
Reasons ==
  /\ cycle = "execute" => interruption_io_pf = "NO_INTERRUPT"
  /\ cycle \in {"execute", "check"} =>
       interrupt_type \in {"NO_INTERRUPT", "EXECUTION_FINISHED"}
  /\ cycle \in {"check", "send_pcb"} =>
       interruption_io_pf \in {"NO_INTERRUPT"} \cup Ends
  /\ cycle = "send_pcb" =>
       /\ interrupt_type \in Ends
       /\ interrupt_type = "INT_PAGE_FAULT" => interruption_io_pf = "INT_PAGE_FAULT"
  /\ to_kernel # << >> =>
       /\ wire.interrupt_type \in Ends
       /\ wire.interrupt_type = "INT_QUANTUM" => wire.extra = Nothing

PcbInv == TypeInv /\ CpuTypeOK /\ Data /\ Reasons

LEMMA CpuInitInv == CpuInit => PcbInv
<1> SUFFICES ASSUME CpuInit PROVE PcbInv
  OBVIOUS
<1>1. TypeInv  BY TypeInit DEF CpuInit
<1>2. Data
  <2>1. PICK start \in [Pids -> Starts] :
          pcbs = [p \in Pids |-> [id |-> p, program_counter |-> start[p],
                                  registers |-> [r \in Registers |-> 0]]]
    BY DEF CpuInit
  <2>2. [r \in Registers |-> 0] \in [Registers -> Words]
    BY CpuAssumption DEF Words
  <2>3. \A p \in Pids : start[p] \in Nat
    BY CpuAssumption
  <2>4. pcbs \in [Pids -> Records]
    BY <2>1, <2>2, <2>3 DEF Records
  <2> QED BY <2>4 DEF CpuInit, Init, Data
<1>3. CpuTypeOK
  BY DEF CpuInit, Init, CpuTypeOK
<1>4. Reasons
  BY DEF CpuInit, Init, Reasons, Ends
<1> QED BY <1>1, <1>2, <1>3, <1>4 DEF PcbInv

(* Where the one pcb is.                                                   *)
LEMMA OnePcb ==
  ASSUME TypeInv
  PROVE  /\ sched = "execute_algorithm" =>
              to_cpu = << >> /\ to_kernel = << >> /\ running = None
         /\ to_kernel # << >> => to_cpu = << >> /\ running = None
         /\ running # None => to_cpu = << >> /\ to_kernel = << >>
         /\ running # None <=> cycle # "recv_pcb"
<1>1. /\ to_cpu \in Seq(Dispatches) /\ to_kernel \in Seq(Dispatches)
      /\ Len(to_cpu) + Len(to_kernel) + (IF running = None THEN 0 ELSE 1)
           = (IF sched = "execute_algorithm" THEN 0 ELSE 1)
      /\ running = None <=> cycle = "recv_pcb"
  BY DEF TypeInv, TypeOK, Shape
<1>2. /\ Len(to_cpu) \in Nat /\ (Len(to_cpu) = 0 <=> to_cpu = << >>)
      /\ Len(to_kernel) \in Nat /\ (Len(to_kernel) = 0 <=> to_kernel = << >>)
  BY <1>1
<1> QED BY <1>1, <1>2

(* A step of the kernel that is not about the pcb on its way.              *)
LEMMA KernelStep ==
  ASSUME PcbInv, TypeInv', Data',
         UNCHANGED <<sched, wire, running, cpu_pcb, cycle, to_kernel,
                     interruption_io_pf, interrupt_type>>,
         \A p \in Pids : place'[p] = "cpu" <=> place[p] = "cpu",
         \A p \in Pids : asked'[p] = Nothing \/ UNCHANGED <<asked[p], place[p]>>,
         \A p \in Pids : pcbs'[p].id = p
  PROVE  PcbInv'
<1>1. Reasons'  BY DEF PcbInv, Reasons
<1>2. CpuTypeOK'  BY DEF PcbInv, CpuTypeOK
<1> QED BY <1>1, <1>2 DEF PcbInv

(* A step of the instruction cycle that keeps the pcb.                     *)
LEMMA CycleStep ==
  ASSUME PcbInv, TypeInv', Reasons', running # None,
         UNCHANGED <<kernel_side, sched, wire, running>>,
         running # None => cpu_pcb' \in Records /\ cpu_pcb'.id = cpu_pcb.id
  PROVE  PcbInv'
<1>1. Data'  BY DEF PcbInv, Data, kernel_side
<1>2. CpuTypeOK'  BY DEF PcbInv, CpuTypeOK, kernel_side
<1> QED BY <1>1, <1>2 DEF PcbInv

(* What the cycle fetched is an instruction of the program.                *)
LEMMA FetchedIs ==
  ASSUME NEW types, Fetched(types), cpu_pcb \in Records
  PROVE  /\ Instruction.type \in types
         /\ InstructionOK(Instruction)
<1>1. cpu_pcb.id \in Pids /\ cpu_pcb.program_counter \in Nat
  BY DEF Records
<1>2. cpu_pcb.program_counter + 1 \in DOMAIN Program[cpu_pcb.id]
  BY <1>1, CpuAssumption DEF Fetched, InProgram
<1> QED BY <1>1, <1>2, CpuAssumption DEF Fetched, Instruction

(* Whatever the index, an array keeps its type.                            *)
LEMMA ExceptType ==
  ASSUME NEW S, NEW T, NEW f \in [S -> T], NEW x, NEW v \in T
  PROVE  [f EXCEPT ![x] = v] \in [S -> T]
OBVIOUS

(* An instruction that writes a register leaves a pcb of the same process. *)
LEMMA WrittenIs ==
  ASSUME cpu_pcb \in Records, NEW reg, NEW value \in Words
  PROVE  Written(reg, value) \in Records /\ Written(reg, value).id = cpu_pcb.id
<1> DEFINE regs == [cpu_pcb.registers EXCEPT ![reg] = value]
           written == [cpu_pcb EXCEPT !.registers = regs]
           next == cpu_pcb.program_counter + 1
<1>1. regs \in [Registers -> Words] /\ next \in Nat
  <2>1. cpu_pcb.registers \in [Registers -> Words] /\ cpu_pcb.program_counter \in Nat
    BY DEF Records
  <2>2. regs \in [Registers -> Words]  BY <2>1, ExceptType
  <2>3. next \in Nat
    <3> HIDE DEF regs, written
    <3> QED BY <2>1
  <2> QED BY <2>2, <2>3
<1>2. Written(reg, value) = [written EXCEPT !.program_counter = next]
  BY Zenon DEF Written
<1> HIDE DEF regs, next
<1>3. written \in Records /\ written.id = cpu_pcb.id  BY <1>1 DEF Records
<1> HIDE DEF written
<1> QED BY <1>1, <1>2, <1>3 DEF Records

LEMMA PcbNext == PcbInv /\ [CpuNext]_cpuvars => PcbInv'
<1> SUFFICES ASSUME PcbInv, [CpuNext]_cpuvars PROVE PcbInv'
  OBVIOUS
<1> USE DEF None
<1>a. TypeInv /\ TypeInv'
  BY TypeNext, StepIsQuantum DEF PcbInv
<1>b. /\ sched = "execute_algorithm" => to_cpu = << >> /\ to_kernel = << >> /\ running = None
      /\ to_kernel # << >> => to_cpu = << >> /\ running = None
      /\ running # None => to_cpu = << >> /\ to_kernel = << >>
      /\ running # None <=> cycle # "recv_pcb"
  BY <1>a, OnePcb
<1>c. CpuTypeOK /\ Data /\ Reasons  BY DEF PcbInv
<1>1. ASSUME NEW p \in Pids, CpuSendPcb(p) PROVE PcbInv'
  <2> USE <1>1 DEF CpuSendPcb, SendPcb
  <2>1. /\ sched = "execute_algorithm" /\ sched' = "quantum" /\ place[p] = "ready"
        /\ place' = [place EXCEPT ![p] = "cpu"] /\ wire'.pcb = pcbs[p]
        /\ UNCHANGED <<pcbs, asked, running, to_kernel, cycle, flags>>
        /\ running = None /\ to_kernel = << >>
    BY <1>b
  <2>2. Data'  BY <1>c, <2>1 DEF Data
  <2>3. CpuTypeOK'
    BY <1>c, <2>1 DEF Data, CpuTypeOK
  <2>4. Reasons'  BY <1>c, <2>1 DEF Reasons, flags
  <2> QED BY <1>a, <2>2, <2>3, <2>4 DEF PcbInv
<1>2. CASE CpuCreateQuantum
  <2>1. /\ sched = "quantum" /\ sched' = "recv_pcb"
        /\ UNCHANGED <<kernel_side, wire, cpu_side, running, sockets, cycle, flags>>
    BY <1>2 DEF CpuCreateQuantum, CreateQuantum
  <2>2. Data' /\ CpuTypeOK' /\ Reasons'
    BY <1>c, <2>1 DEF Data, CpuTypeOK, Reasons, kernel_side, cpu_side, sockets, flags
  <2> QED BY <1>a, <2>2 DEF PcbInv
<1>3. CASE CpuWaitCpuDispatch
  <2> DEFINE c == wire.pcb.id
             type == wire.interrupt_type
  <2>1. /\ sched = "recv_pcb" /\ sched' = "execute_algorithm" /\ to_kernel # << >>
        /\ pcbs' = [pcbs EXCEPT ![c] = wire.pcb]
        /\ place' = [place EXCEPT ![c] = PlaceAfter(type)]
        /\ asked' = [asked EXCEPT ![c] = wire.extra]
        /\ UNCHANGED <<wire, cpu_side, running, cycle, flags>>
    BY <1>3 DEF CpuWaitCpuDispatch, WaitCpuDispatch
  <2>2. wire.pcb \in Records /\ c \in Pids /\ place[c] = "cpu"
    BY <1>c, <2>1 DEF Data, Records, CpuTypeOK
  <2>3. PlaceAfter(type) \in {"ready", "io", "page_fault", "exit", "killed"}
    BY <1>c, <2>1 DEF Reasons, Ends, PlaceAfter
  <2>4. to_kernel' = << >> /\ running' = None
    <3>1. /\ to_cpu' \in Seq(Dispatches) /\ to_kernel' \in Seq(Dispatches)
          /\ Len(to_cpu') + Len(to_kernel') + (IF running' = None THEN 0 ELSE 1) = 0
      BY <1>a, <2>1 DEF TypeInv, TypeOK, Shape
    <3>2. Len(to_cpu') \in Nat /\ Len(to_kernel') \in Nat
      BY <3>1
    <3>3. Len(to_kernel') = 0 /\ running' = None
      BY <3>1, <3>2
    <3> QED BY <3>1, <3>3
  <2>5. Data'
    BY <1>c, <2>1, <2>2, <2>3, <2>4 DEF Data
  <2>6. Reasons'
    BY <1>c, <2>1, <2>4 DEF Reasons, flags
  <2>7. CpuTypeOK'
    <3>1. type = "INT_QUANTUM" <=> PlaceAfter(type) = "ready"
      BY <1>c, <2>1 DEF Reasons, Ends, PlaceAfter
    <3>2. \A p \in Pids : pcbs'[p].id = p
      BY <1>c, <2>1 DEF CpuTypeOK, Data
    <3>3. \A p \in Pids : place'[p] # "cpu"
      BY <1>c, <2>1, <2>3 DEF CpuTypeOK, Data
    <3>4. \A p \in Pids : place'[p] = "ready" => asked'[p] = Nothing
      <4>1. PlaceAfter(type) = "ready" => wire.extra = Nothing
        BY <1>c, <2>1, <3>1 DEF Reasons
      <4>2. \A p \in Pids : /\ place'[p] = IF p = c THEN PlaceAfter(type) ELSE place[p]
                            /\ asked'[p] = IF p = c THEN wire.extra ELSE asked[p]
        BY <1>c, <2>1 DEF Data
      <4> QED BY <1>c, <4>1, <4>2 DEF CpuTypeOK
    <3> QED BY <2>1, <2>4, <3>2, <3>3, <3>4 DEF CpuTypeOK
  <2> QED BY <1>a, <2>5, <2>6, <2>7 DEF PcbInv
<1>4. CASE CpuStartQuantum
  <2>1. UNCHANGED <<kernel_side, wire, cpu_side, sched, running, sockets, cycle, flags>>
    BY <1>4 DEF CpuStartQuantum, StartQuantum, kernel
  <2>2. Data' /\ CpuTypeOK' /\ Reasons'
    BY <1>c, <2>1 DEF Data, CpuTypeOK, Reasons, kernel_side, cpu_side, sockets, flags
  <2> QED BY <1>a, <2>2 DEF PcbInv
<1>5. CASE CpuStartInterrupt
  <2>1. UNCHANGED <<kernel_side, wire, cpu_side, sched, running, sockets, cycle, flags>>
    BY <1>5 DEF CpuStartInterrupt, StartInterrupt, kernel
  <2>2. Data' /\ CpuTypeOK' /\ Reasons'
    BY <1>c, <2>1 DEF Data, CpuTypeOK, Reasons, kernel_side, cpu_side, sockets, flags
  <2> QED BY <1>a, <2>2 DEF PcbInv
<1>6. ASSUME NEW p \in Pids, Handlers(p) PROVE PcbInv'
  <2>1. PICK from \in {"io", "page_fault"} : Wake(p, from)
    BY <1>6 DEF Handlers, HandleTeclado, HandlePantalla, HandleIo, HandlePageFault
  <2>2. /\ place[p] = from /\ place' = [place EXCEPT ![p] = "ready"]
        /\ asked' = [asked EXCEPT ![p] = Nothing]
        /\ UNCHANGED <<wire, cpu_pcb, sched, running, cycle, to_kernel, flags>>
    BY <2>1 DEF Wake, vars, cpu_side, kernel, sockets
  <2>3. pcbs' \in [Pids -> Records] /\ \A q \in Pids : pcbs'[q].id = q
    <3>1. CASE pcbs' = pcbs
      BY <3>1, <1>c DEF Data, CpuTypeOK
    <3>2. ASSUME NEW value \in Typed,
                 pcbs' = [pcbs EXCEPT ![p].registers[asked[p].arg] = value]
          PROVE  pcbs' \in [Pids -> Records] /\ \A q \in Pids : pcbs'[q].id = q
      <4> DEFINE regs == [pcbs[p].registers EXCEPT ![asked[p].arg] = value]
      <4>1. pcbs \in [Pids -> Records] /\ pcbs[p] \in Records
        BY <1>c DEF Data
      <4>2. regs \in [Registers -> Words]
        <5>1. value \in Words  BY CpuAssumption
        <5>2. pcbs[p].registers \in [Registers -> Words]  BY <4>1 DEF Records
        <5> QED BY <5>1, <5>2
      <4>3. pcbs' = [pcbs EXCEPT ![p] = [pcbs[p] EXCEPT !.registers = regs]]
        BY <3>2, <4>1 DEF Records
      <4> HIDE DEF regs
      <4>4. [pcbs[p] EXCEPT !.registers = regs] \in Records
        BY <4>1, <4>2 DEF Records
      <4>5. [pcbs[p] EXCEPT !.registers = regs].id = pcbs[p].id
        BY <4>1 DEF Records
      <4> QED BY <1>c, <4>1, <4>3, <4>4, <4>5 DEF CpuTypeOK
    <3> QED
      BY <1>6, <3>1, <3>2
         DEF Handlers, HandleTeclado, HandlePantalla, HandleIo, HandlePageFault
  <2>4. Data'
    BY <1>c, <2>2, <2>3 DEF Data
  <2>5. /\ \A q \in Pids : place'[q] = "cpu" <=> place[q] = "cpu"
        /\ \A q \in Pids : asked'[q] = Nothing \/ UNCHANGED <<asked[q], place[q]>>
    BY <1>c, <2>2 DEF Data
  <2> QED BY <1>a, <2>2, <2>3, <2>4, <2>5, KernelStep DEF flags
<1>7. CASE CpuRecvPcb
  <2>1. /\ to_cpu # << >> /\ running' # None /\ cpu_pcb' = wire.pcb
        /\ cycle' = "reset"
        /\ UNCHANGED <<kernel_side, sched, wire, to_kernel, flags>>
    BY <1>7, <1>a DEF CpuRecvPcb, RecvPcb, kernel, TypeInv, Shape
  <2>2. sched # "execute_algorithm"  BY <1>b, <2>1
  <2>3. Data'  BY <1>c, <2>1, <2>2 DEF Data, kernel_side
  <2>4. CpuTypeOK'  BY <1>c, <2>1 DEF CpuTypeOK, kernel_side
  <2>5. Reasons'  BY <1>c, <2>1 DEF Reasons, flags
  <2> QED BY <1>a, <2>3, <2>4, <2>5 DEF PcbInv
<1>8. CASE CpuReset
  <2>1. /\ cycle = "reset" /\ cycle' = "execute"
        /\ interruption_io_pf' = "NO_INTERRUPT" /\ interrupt_type' = "NO_INTERRUPT"
        /\ UNCHANGED <<kernel_side, sched, running, wire, to_kernel, cpu_pcb>>
    BY <1>8 DEF CpuReset, Reset, kernel, cpu_side, sockets
  <2>2. Reasons'  BY <1>c, <2>1 DEF Reasons
  <2> QED BY <1>a, <1>b, <1>c, <2>1, <2>2, CycleStep DEF Data
<1>9. CASE Execute
  <2> DEFINE Kept == /\ UNCHANGED <<kernel_side, sched, wire, running, to_kernel>>
                     /\ cycle = "execute" /\ cycle' = "check"
  <2>1. CASE ExecuteSet
    <3>1. Kept /\ UNCHANGED <<interrupt_type, interruption_io_pf>>
          /\ Fetched({"SET"}) /\ cpu_pcb' = Written(Instruction.reg, Instruction.value)
      BY <2>1 DEF ExecuteSet, ExecutePlain, kernel, sockets
    <3>2. Reasons'  BY <1>c, <3>1 DEF Reasons
    <3>3. running # None /\ cpu_pcb \in Records  BY <1>b, <1>c, <3>1 DEF Data
    <3>4. Instruction.value \in Words  BY <3>1, <3>3, FetchedIs DEF InstructionOK
    <3>5. cpu_pcb' \in Records /\ cpu_pcb'.id = cpu_pcb.id
      BY <3>1, <3>3, <3>4, WrittenIs
    <3> QED BY <1>a, <3>1, <3>2, <3>3, <3>5, CycleStep
  <2>2. CASE ExecuteAdd
    <3>1. Kept /\ UNCHANGED <<interrupt_type, interruption_io_pf>>
          /\ Fetched({"ADD"})
          /\ cpu_pcb' = Written(Instruction.reg,
                (cpu_pcb.registers[Instruction.reg] + cpu_pcb.registers[Instruction.reg2])
                  % WordSize)
      BY <2>2 DEF ExecuteAdd, ExecutePlain, kernel, sockets
    <3>2. Reasons'  BY <1>c, <3>1 DEF Reasons
    <3>3. running # None /\ cpu_pcb \in Records  BY <1>b, <1>c, <3>1 DEF Data
    <3>4. (cpu_pcb.registers[Instruction.reg] + cpu_pcb.registers[Instruction.reg2])
            % WordSize \in Words
      <4>1. Instruction.reg \in Registers /\ Instruction.reg2 \in Registers
        BY <3>1, <3>3, FetchedIs DEF InstructionOK
      <4>2. cpu_pcb.registers[Instruction.reg] \in Nat
            /\ cpu_pcb.registers[Instruction.reg2] \in Nat
        BY <3>3, <4>1, CpuAssumption DEF Records, Words
      <4> QED BY <4>2, CpuAssumption DEF Words
    <3>5. cpu_pcb' \in Records /\ cpu_pcb'.id = cpu_pcb.id
      BY <3>1, <3>3, <3>4, WrittenIs
    <3> QED BY <1>a, <3>1, <3>2, <3>3, <3>5, CycleStep
  <2>3. CASE ExecuteMovIn
    <3>1. Kept /\ UNCHANGED <<interrupt_type, interruption_io_pf>>
      BY <2>3 DEF ExecuteMovIn, ExecutePlain, kernel, sockets
    <3>2. PICK value \in Words : cpu_pcb' = Written(Instruction.reg, value)
      BY <2>3 DEF ExecuteMovIn
    <3>3. Reasons'  BY <1>c, <3>1 DEF Reasons
    <3>4. running # None /\ cpu_pcb \in Records  BY <1>b, <1>c, <3>1 DEF Data
    <3>5. cpu_pcb' \in Records /\ cpu_pcb'.id = cpu_pcb.id
      BY <3>2, <3>4, WrittenIs
    <3> QED BY <1>a, <3>1, <3>3, <3>4, <3>5, CycleStep
  <2>4. CASE ExecuteMovOut
    <3>1. Kept /\ UNCHANGED <<interrupt_type, interruption_io_pf>>
          /\ cpu_pcb' = [cpu_pcb EXCEPT !.program_counter = @ + 1]
      BY <2>4 DEF ExecuteMovOut, ExecutePlain, kernel, sockets, kernel_side
    <3>2. Reasons'  BY <1>c, <3>1 DEF Reasons
    <3>3. running # None /\ cpu_pcb \in Records  BY <1>b, <1>c, <3>1 DEF Data
    <3>4. cpu_pcb' \in Records /\ cpu_pcb'.id = cpu_pcb.id
      BY <3>1, <3>3 DEF Records
    <3> QED BY <1>a, <3>1, <3>2, <3>3, <3>4, CycleStep
  <2>5. CASE PfOccurred \/ SegmentationFault
    <3>1. Kept /\ UNCHANGED <<interrupt_type, cpu_pcb>>
          /\ interruption_io_pf' \in {"INT_PAGE_FAULT", "SEGMENTATION_FAULT"}
      BY <2>5 DEF PfOccurred, SegmentationFault, ExecuteBlocking, kernel, sockets, cpu_side
    <3>2. Reasons'  BY <1>c, <3>1 DEF Reasons, Ends
    <3>3. running # None /\ cpu_pcb \in Records  BY <1>b, <1>c, <3>1 DEF Data
    <3> QED BY <1>a, <3>1, <3>2, <3>3, CycleStep
  <2>6. CASE ExecuteIo
    <3>1. Kept /\ UNCHANGED interrupt_type /\ interruption_io_pf' = "INT_IO"
          /\ cpu_pcb' = [cpu_pcb EXCEPT !.program_counter = @ + 1]
      BY <2>6 DEF ExecuteIo, ExecuteBlocking, kernel, sockets
    <3>2. Reasons'  BY <1>c, <3>1 DEF Reasons, Ends
    <3>3. running # None /\ cpu_pcb \in Records  BY <1>b, <1>c, <3>1 DEF Data
    <3>4. cpu_pcb' \in Records /\ cpu_pcb'.id = cpu_pcb.id
      BY <3>1, <3>3 DEF Records
    <3> QED BY <1>a, <3>1, <3>2, <3>3, <3>4, CycleStep
  <2>7. CASE CpuExit
    <3>1. Kept /\ UNCHANGED <<interruption_io_pf, cpu_pcb>>
          /\ interrupt_type' = "EXECUTION_FINISHED"
      BY <2>7 DEF CpuExit, ExecuteExit, kernel, sockets, cpu_side
    <3>2. Reasons'  BY <1>c, <3>1 DEF Reasons
    <3>3. running # None /\ cpu_pcb \in Records  BY <1>b, <1>c, <3>1 DEF Data
    <3> QED BY <1>a, <3>1, <3>2, <3>3, CycleStep
  <2>8. CASE CpuCrash
    <3>1. /\ cycle = "execute"
          /\ UNCHANGED <<kernel_side, sched, wire, running, to_kernel, cycle,
                         interruption_io_pf, interrupt_type, cpu_pcb>>
      BY <2>8 DEF CpuCrash, vars, kernel, sockets, flags
    <3>2. Reasons'  BY <1>c, <3>1 DEF Reasons
    <3>3. running # None /\ cpu_pcb \in Records  BY <1>b, <1>c, <3>1 DEF Data
    <3> QED BY <1>a, <3>1, <3>2, <3>3, CycleStep
  <2> QED
    BY <1>9, <2>1, <2>2, <2>3, <2>4, <2>5, <2>6, <2>7, <2>8 DEF Execute
<1>10. CASE CpuCheckInterrupt
  <2>1. /\ cycle = "check" /\ interrupt_type' = Checked
        /\ cycle' = IF Checked = "NO_INTERRUPT" THEN "execute" ELSE "send_pcb"
        /\ UNCHANGED <<kernel_side, sched, running, wire, to_kernel, cpu_pcb, interruption_io_pf>>
    BY <1>10 DEF CpuCheckInterrupt, CheckInterrupt, kernel, cpu_side, sockets
  <2>2. Reasons'
    <3>1. to_kernel' = << >>  BY <1>b, <2>1
    <3>2. interrupt_type \in {"NO_INTERRUPT", "EXECUTION_FINISHED"}
          /\ interruption_io_pf \in {"NO_INTERRUPT"} \cup Ends
      BY <1>c, <2>1 DEF Reasons
    <3>3. /\ Checked \in {"NO_INTERRUPT"} \cup Ends
          /\ Checked = "NO_INTERRUPT" => interruption_io_pf = "NO_INTERRUPT"
          /\ Checked = "INT_PAGE_FAULT" => interruption_io_pf = "INT_PAGE_FAULT"
      BY <3>2 DEF Checked, Ends
    <3> QED BY <2>1, <3>1, <3>2, <3>3 DEF Reasons, Ends
  <2> QED BY <1>a, <1>b, <1>c, <2>1, <2>2, CycleStep DEF Data
<1>11. CASE CpuSendPcbBack
  <2>1. /\ cycle = "send_pcb" /\ running' = None /\ cycle' = "recv_pcb"
        /\ wire'.pcb = cpu_pcb /\ wire'.interrupt_type = interrupt_type
        /\ interrupt_type \notin {"INT_IO", "INT_PAGE_FAULT"} => wire'.extra = Nothing
        /\ UNCHANGED <<kernel_side, sched, flags>>
    BY <1>11 DEF CpuSendPcbBack, SendPcbBack, kernel
  <2>2. running # None /\ cpu_pcb \in Records /\ cpu_pcb.id = wire.pcb.id
    BY <1>b, <1>c, <2>1 DEF Data, CpuTypeOK
  <2>3. Data'  BY <1>c, <2>1, <2>2 DEF Data, kernel_side
  <2>4. CpuTypeOK'  BY <1>c, <2>1, <2>2 DEF CpuTypeOK, kernel_side
  <2>5. Reasons'  BY <1>c, <2>1 DEF Reasons, flags
  <2> QED BY <1>a, <2>3, <2>4, <2>5 DEF PcbInv
<1>12. CASE UNCHANGED cpuvars
  <2>1. UNCHANGED <<kernel_side, wire, cpu_side, sched, running, sockets, cycle, flags>>
    BY <1>12 DEF cpuvars, vars, kernel
  <2>2. Data' /\ CpuTypeOK' /\ Reasons'
    BY <1>c, <2>1 DEF Data, CpuTypeOK, Reasons, kernel_side, cpu_side, sockets, flags
  <2> QED BY <1>a, <2>2 DEF PcbInv
<1> QED
  BY <1>1, <1>2, <1>3, <1>4, <1>5, <1>6, <1>7, <1>8, <1>9, <1>10, <1>11, <1>12
     DEF CpuNext, Dispatcher, CpuCycle

(* For the kernel exactly the process whose pcb travels is on the CPU, the *)
(* cycle has the pcb of that process, and what a process asked for is gone *)
(* when it is ready again (CpuTypeOK).                                     *)
THEOREM OnePcbTravels == CpuSpec => []CpuTypeOK
<1>1. PcbInv => CpuTypeOK  BY DEF PcbInv
<1> QED BY CpuInitInv, PcbNext, <1>1, PTL DEF CpuSpec

LEMMA PcbHolds == CpuSpec => []PcbInv
BY CpuInitInv, PcbNext, PTL DEF CpuSpec

(* The registers of every pcb stay within 32 bits, and its counter in the  *)
(* non-negative integers.                                                  *)
THEOREM RegistersFit == CpuSpec => [](pcbs \in [Pids -> Records])
<1>1. PcbInv => pcbs \in [Pids -> Records]  BY DEF PcbInv, Data
<1> QED BY PcbHolds, <1>1, PTL

-----------------------------------------------------------------------------
(* Page faults.                                                            *)

(* where is the page of the MOV at the counter of the pcb, and it is one   *)
(* of the table of its segment.                                            *)
Faulted(pcb, where) ==
  LET i == Program[pcb.id][pcb.program_counter + 1]
  IN /\ i.type \in Movs
     /\ where = [segment |-> SegmentNum(i.dl), page |-> PageNum(i.dl)]
     /\ where.page < PageAmount(Segments[pcb.id][where.segment + 1])

(* From the fault to the kernel: pf is that of this burst, it goes with    *)
(* the pcb, and the pcb goes to memoria as it came.                        *)
FaultInv ==
  /\ cycle \in {"check", "send_pcb"} /\ interruption_io_pf = "INT_PAGE_FAULT" =>
       Faulted(cpu_pcb, pf)
  /\ to_kernel # << >> /\ wire.interrupt_type = "INT_PAGE_FAULT" =>
       Faulted(wire.pcb, wire.extra)
  /\ \A p \in Pids : place[p] = "page_fault" => Faulted(pcbs[p], asked[p])

(* The page of an address that passed the tests of mov_execute.            *)
LEMMA PageOfMov ==
  ASSUME PcbInv, running # None, Fetched(Movs),
         HasSegment(Instruction.dl), ~ Faults(Instruction.dl),
         pf' = [segment |-> SegmentNum(Instruction.dl), page |-> PageNum(Instruction.dl)]
  PROVE  Faulted(cpu_pcb, pf')
<1> DEFINE dl == Instruction.dl
           size == SegmentSize(dl)
<1>1. cpu_pcb \in Records /\ cpu_pcb.id \in Pids  BY DEF PcbInv, Data, Records
<1>2. Instruction.type \in Movs /\ dl \in Nat
  BY <1>1, FetchedIs DEF InstructionOK
<1>3. SegmentNum(dl) \in Nat /\ SegmentOffset(dl) \in Nat
  BY <1>2, AddressParts, SizesPositive
<1>4. size \in Nat
  <2>1. Segments[cpu_pcb.id] \in Seq(Nat)  BY <1>1, CpuAssumption
  <2>2. SegmentNum(dl) + 1 \in 1 .. Len(Segments[cpu_pcb.id])
    BY <1>3, <2>1 DEF HasSegment
  <2> HIDE DEF dl
  <2> QED BY <2>1, <2>2 DEF SegmentSize
<1>5. SegmentOffset(dl) < size
  <2> HIDE DEF dl
  <2>1. ~ SegmentOffset(dl) >= size  BY DEF Faults, dl
  <2> HIDE DEF size
  <2> QED BY <1>3, <1>4, <2>1
<1>6. PageNum(dl) < PageAmount(size)
  <2> HIDE DEF dl, size
  <2> QED BY <1>2, <1>4, <1>5, PageExists
<1> QED BY <1>2, <1>6 DEF Faulted, SegmentSize, Instruction

LEMMA FaultNext == PcbInv /\ FaultInv /\ [CpuNext]_cpuvars => FaultInv'
<1> SUFFICES ASSUME PcbInv, FaultInv, [CpuNext]_cpuvars PROVE FaultInv'
  OBVIOUS
<1> USE DEF None
<1>a. TypeInv /\ PcbInv'
  BY PcbNext DEF PcbInv
<1>b. /\ sched = "execute_algorithm" => to_cpu = << >> /\ to_kernel = << >> /\ running = None
      /\ to_kernel # << >> => to_cpu = << >> /\ running = None
      /\ running # None => to_cpu = << >> /\ to_kernel = << >>
      /\ running # None <=> cycle # "recv_pcb"
  BY <1>a, OnePcb
<1>c. CpuTypeOK /\ Data /\ Reasons  BY DEF PcbInv
<1>1. ASSUME NEW p \in Pids, CpuSendPcb(p) PROVE FaultInv'
  <2>1. /\ sched = "execute_algorithm"
        /\ place' = [place EXCEPT ![p] = "cpu"] /\ to_kernel' = to_kernel
        /\ UNCHANGED <<pcbs, asked, cycle, interruption_io_pf, cpu_pcb, pf>>
    BY <1>1 DEF CpuSendPcb, SendPcb, cpu_side, flags
  <2>2. to_kernel' = << >> /\ cycle' = "recv_pcb"
    BY <1>b, <2>1
  <2>3. \A q \in Pids : place'[q] = "page_fault" => place[q] = "page_fault"
    BY <1>c, <2>1 DEF Data
  <2> QED BY <2>1, <2>2, <2>3 DEF FaultInv
<1>2. CASE CpuCreateQuantum \/ CpuStartQuantum \/ CpuStartInterrupt \/ UNCHANGED cpuvars
  <2>1. UNCHANGED <<kernel_side, wire, cpu_side, sockets, cycle, flags>>
    BY <1>2 DEF CpuCreateQuantum, CreateQuantum, CpuStartQuantum, StartQuantum,
                CpuStartInterrupt, StartInterrupt, cpuvars, vars
  <2> QED BY <2>1 DEF FaultInv, kernel_side, cpu_side, sockets, flags
<1>3. CASE CpuWaitCpuDispatch
  <2> DEFINE c == wire.pcb.id
             type == wire.interrupt_type
  <2>1. /\ sched = "recv_pcb" /\ to_kernel # << >>
        /\ pcbs' = [pcbs EXCEPT ![c] = wire.pcb]
        /\ place' = [place EXCEPT ![c] = PlaceAfter(type)]
        /\ asked' = [asked EXCEPT ![c] = wire.extra]
        /\ sched' = "execute_algorithm"
        /\ UNCHANGED cycle
    BY <1>3 DEF CpuWaitCpuDispatch, WaitCpuDispatch
  <2>2. cycle' = "recv_pcb"
    BY <1>b, <2>1
  <2>3. to_kernel' = << >>
    <3>1. /\ to_cpu' \in Seq(Dispatches) /\ to_kernel' \in Seq(Dispatches)
          /\ Len(to_cpu') + Len(to_kernel') + (IF running' = None THEN 0 ELSE 1) = 0
      BY <1>a, <2>1 DEF PcbInv, TypeInv, TypeOK, Shape
    <3> QED BY <3>1
  <2>4. PlaceAfter(type) = "page_fault" => type = "INT_PAGE_FAULT"
    BY <1>c, <2>1 DEF Reasons, Ends, PlaceAfter
  <2>5. \A q \in Pids :
          /\ pcbs'[q] = IF q = c THEN wire.pcb ELSE pcbs[q]
          /\ place'[q] = IF q = c THEN PlaceAfter(type) ELSE place[q]
          /\ asked'[q] = IF q = c THEN wire.extra ELSE asked[q]
    BY <1>c, <2>1 DEF Data
  <2>6. \A q \in Pids : place'[q] = "page_fault" => Faulted(pcbs'[q], asked'[q])
    BY <2>1, <2>4, <2>5 DEF FaultInv
  <2> QED BY <2>2, <2>3, <2>6 DEF FaultInv, Faulted
<1>4. ASSUME NEW p \in Pids, Handlers(p) PROVE FaultInv'
  <2>1. PICK from \in {"io", "page_fault"} : Wake(p, from)
    BY <1>4 DEF Handlers, HandleTeclado, HandlePantalla, HandleIo, HandlePageFault
  <2>2. /\ place' = [place EXCEPT ![p] = "ready"]
        /\ asked' = [asked EXCEPT ![p] = Nothing]
        /\ UNCHANGED <<wire, cpu_side, cycle, sockets, flags>>
    BY <2>1 DEF Wake, vars
  <2>3. \A q \in Pids : q # p => pcbs'[q] = pcbs[q]
    BY <1>4, <1>c
       DEF Handlers, HandleTeclado, HandlePantalla, HandleIo, HandlePageFault, Data
  <2>4. \A q \in Pids : place'[q] = "page_fault" =>
          q # p /\ UNCHANGED <<pcbs[q], asked[q], place[q]>>
    BY <1>c, <2>2, <2>3 DEF Data
  <2> QED BY <2>2, <2>4 DEF FaultInv, Faulted, cpu_side, sockets, flags
<1>5. CASE CpuRecvPcb \/ CpuReset
  <2>1. UNCHANGED <<kernel_side, wire, to_kernel>> /\ cycle' \in {"reset", "execute"}
    BY <1>5 DEF CpuRecvPcb, RecvPcb, CpuReset, Reset, sockets
  <2> QED BY <2>1 DEF FaultInv, Faulted, kernel_side
<1>6. CASE Execute
  <2>1. UNCHANGED <<kernel_side, wire, to_kernel>> /\ cycle = "execute"
    BY <1>6 DEF Execute, ExecuteSet, ExecuteAdd, ExecuteMovIn, ExecuteMovOut, PfOccurred,
         SegmentationFault, ExecuteIo, CpuExit, CpuCrash, ExecutePlain, ExecuteBlocking,
         ExecuteExit, kernel_side, vars, sockets
  <2>2. CASE PfOccurred
    <3>1. UNCHANGED cpu_pcb /\ Faulted(cpu_pcb, pf')
      BY <1>b, <2>1, <2>2, PageOfMov DEF PfOccurred
    <3> QED BY <2>1, <3>1 DEF FaultInv, Faulted, kernel_side
  <2>3. CASE ~ PfOccurred
    <3>1. interruption_io_pf' # "INT_PAGE_FAULT"
      <4>1. interruption_io_pf # "INT_PAGE_FAULT"  BY <1>c, <2>1 DEF Reasons
      <4> QED
        BY <1>6, <2>3, <4>1
           DEF Execute, ExecuteSet, ExecuteAdd, ExecuteMovIn, ExecuteMovOut,
               SegmentationFault, ExecuteIo, CpuExit, CpuCrash, ExecutePlain,
               ExecuteExit, vars, flags
    <3> QED BY <2>1, <3>1 DEF FaultInv, Faulted, kernel_side
  <2> QED BY <2>2, <2>3
<1>7. CASE CpuCheckInterrupt
  <2>1. UNCHANGED <<kernel_side, wire, to_kernel, cpu_side, interruption_io_pf>>
        /\ cycle = "check"
    BY <1>7 DEF CpuCheckInterrupt, CheckInterrupt, sockets
  <2> QED BY <2>1 DEF FaultInv, Faulted, kernel_side, cpu_side
<1>8. CASE CpuSendPcbBack
  <2>1. /\ cycle = "send_pcb" /\ cycle' = "recv_pcb"
        /\ wire'.pcb = cpu_pcb /\ wire'.interrupt_type = interrupt_type
        /\ interrupt_type = "INT_PAGE_FAULT" => wire'.extra = pf
        /\ UNCHANGED kernel_side
    BY <1>8 DEF CpuSendPcbBack, SendPcbBack
  <2>2. interrupt_type = "INT_PAGE_FAULT" => Faulted(wire'.pcb, wire'.extra)
    BY <1>c, <2>1 DEF Reasons, FaultInv
  <2> QED BY <2>1, <2>2 DEF FaultInv, Faulted, kernel_side
<1> QED
  BY <1>1, <1>2, <1>3, <1>4, <1>5, <1>6, <1>7, <1>8 DEF CpuNext, Dispatcher, CpuCycle

(* The page memoria is asked to load is always that of the MOV the process *)
(* will execute again, and frame_access never indexes a page table past    *)
(* its end: a page that passed the test of the CPU is in the table that    *)
(* memoria made for the segment.                                           *)
THEOREM FaultsAreInTable == CpuSpec => []FaultInTable
<1>1. CpuInit => FaultInv
  BY DEF CpuInit, Init, FaultInv
<1>2. PcbInv /\ FaultInv => FaultInTable
  <2> SUFFICES ASSUME PcbInv, FaultInv, NEW p \in Pids, place[p] = "page_fault"
      PROVE  Faulted(pcbs[p], asked[p]) /\ pcbs[p].id = p
    BY DEF FaultInTable, Faulted
  <2> QED BY DEF FaultInv, PcbInv, CpuTypeOK
<1> QED BY PcbHolds, FaultNext, <1>1, <1>2, PTL DEF CpuSpec
=============================================================================
