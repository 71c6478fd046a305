---------------------------- MODULE MemoriaProofs ----------------------------
(***************************************************************************)
(* Theorems about Memoria, for any processes, pages, layout, number of     *)
(* frames and both algorithms.                                             *)
(***************************************************************************)
EXTENDS Memoria, TLAPS

(* A process has one request in the socket at most, and its state says     *)
(* which.                                                                  *)
OneRequest ==
  \A i \in DOMAIN to_memoria :
    LET m == to_memoria[i]
    IN  /\ m.type = "PROCESS_STARTED" => proc[m.pid] = "starting"
        /\ m.type = "PROCESS_FINISHED" => proc[m.pid] = "finishing"
        /\ m.type = "PAGE_FAULT" => proc[m.pid] = "fault" /\ m.page \in PagesOf(m.pid)
        /\ \A j \in DOMAIN to_memoria : to_memoria[j].pid = m.pid => i = j
        /\ at # "recv" => request.page \notin PagesOf(m.pid)

(* The page fault that is being resolved is of a process that waits for it.*)
Serving ==
  at # "recv" => \E p \in Pids : proc[p] = "fault" /\ request.page \in PagesOf(p)

(* One process runs at a time, and the CPU serves its MOV only.            *)
OneRuns ==
  /\ \A p, q \in Pids : proc[p] = "running" /\ proc[q] = "running" => p = q
  /\ \A p \in Pids : mov[p] # NoMov => mov[p].page \in PagesOf(p)
  /\ cpu.at # "idle" => \E p \in Pids : proc[p] = "running" /\ mov[p] # NoMov

(* The clock has pages to look at once a process with pages has started.   *)
Loaded ==
  \A p \in Pids :
    proc[p] \notin {"new", "starting"} /\ PagesOf(p) # {} => page_tables # << >>

(* The pages nobody may find in a frame: those of a process that has not   *)
(* started, and the page of a fault from the moment handle_cpu sees it     *)
(* until it is mapped.                                                     *)
Missing(x) ==
  \/ \E p \in Pids : proc[p] \in {"new", "starting"} /\ x \in PagesOf(p)
  \/ \E i \in DOMAIN to_memoria :
       to_memoria[i].type = "PAGE_FAULT" /\ to_memoria[i].page = x
  \/ cpu.at = "PAGE_FAULT" /\ \E p \in Pids : proc[p] = "running" /\ mov[p].page = x
  \/ at \in {"find_free_frame", "find_victim", "save", "evict", "map"} /\ request.page = x

Absent == \A x \in Pages : Missing(x) => ~page[x].P

(* What the main thread has in its hands while it resolves a page fault.   *)
InHand ==
  /\ at = "find_victim" => page_tables # << >>
  /\ at \in {"save", "evict"} => victim \in Pages /\ page[victim].P
  /\ at \in {"map", "copy", "tlb_consistency", "resolved"} => frame \in Frames

Protocol == OneRequest /\ Serving /\ OneRuns /\ Loaded
FrameInv == TypeOK /\ Protocol /\ Absent /\ InHand /\ FrameExclusive /\ FramesExact
-----------------------------------------------------------------------------
(* Layout: pages of processes are pages, and nobody shares one.            *)
LEMMA Layouts ==
  /\ \A p \in Pids : PagesOf(p) \subseteq Pages /\ Layout[p] \in Seq(Pages)
  /\ \A p, q \in Pids : \A x \in PagesOf(p) : x \in PagesOf(q) => p = q
<1>1. \A p \in Pids : Layout[p] \in Seq(Pages)  BY MemoriaAssumption
<1>2. ASSUME NEW p \in Pids, NEW x \in PagesOf(p)
      PROVE  x \in Pages /\ \E i \in DOMAIN Layout[p] : x = Layout[p][i]
  BY <1>1, <1>2 DEF PagesOf, ToSet
<1>3. ASSUME NEW p \in Pids, NEW q \in Pids, NEW x \in PagesOf(p), x \in PagesOf(q)
      PROVE  p = q
  <2>1. PICK i \in DOMAIN Layout[p] : x = Layout[p][i]  BY <1>2
  <2>2. PICK j \in DOMAIN Layout[q] : x = Layout[q][j]  BY <1>2, <1>3
  <2> QED BY <2>1, <2>2, MemoriaAssumption
<1> QED BY <1>1, <1>2, <1>3

(* A request that is sent, and one that is received.                       *)
LEMMA Asked ==
  ASSUME TypeOK, NEW p \in Pids, NEW x \in PageOrNone,
         NEW type \in {"PROCESS_STARTED", "PROCESS_FINISHED", "PAGE_FAULT"},
         Ask(type, p, x)
  PROVE  /\ to_memoria' \in Seq(Requests) /\ Len(to_memoria) \in Nat
         /\ DOMAIN to_memoria = 1 .. Len(to_memoria)
         /\ DOMAIN to_memoria' = 1 .. Len(to_memoria) + 1
         /\ \A i \in DOMAIN to_memoria : to_memoria'[i] = to_memoria[i]
         /\ to_memoria'[Len(to_memoria) + 1] = [type |-> type, pid |-> p, page |-> x]
<1> DEFINE m == [type |-> type, pid |-> p, page |-> x]
<1>1. m \in Requests  BY DEF Requests
<1>2. to_memoria \in Seq(Requests) /\ to_memoria' = Append(to_memoria, m)
  BY DEF TypeOK, Ask
<1> HIDE DEF m
<1>3. /\ to_memoria' \in Seq(Requests) /\ Len(to_memoria) \in Nat
      /\ DOMAIN to_memoria = 1 .. Len(to_memoria)
      /\ DOMAIN to_memoria' = 1 .. Len(to_memoria) + 1
      /\ \A i \in DOMAIN to_memoria : to_memoria'[i] = to_memoria[i]
      /\ to_memoria'[Len(to_memoria) + 1] = m
  BY <1>1, <1>2
<1> QED BY <1>3 DEF m

LEMMA AskedLast ==
  ASSUME TypeOK, NEW p \in Pids, NEW x \in PageOrNone,
         NEW type \in {"PROCESS_STARTED", "PROCESS_FINISHED", "PAGE_FAULT"},
         Ask(type, p, x)
  PROVE  \A i \in DOMAIN to_memoria' :
           \/ i \in DOMAIN to_memoria /\ to_memoria'[i] = to_memoria[i]
           \/ to_memoria'[i].type = type /\ to_memoria'[i].page = x
<1>1. /\ DOMAIN to_memoria = 1 .. Len(to_memoria) /\ Len(to_memoria) \in Nat
      /\ DOMAIN to_memoria' = 1 .. Len(to_memoria) + 1
      /\ \A i \in DOMAIN to_memoria : to_memoria'[i] = to_memoria[i]
      /\ to_memoria'[Len(to_memoria) + 1] = [type |-> type, pid |-> p, page |-> x]
  BY Asked
<1> TAKE i \in DOMAIN to_memoria'
<1>2. CASE i \in DOMAIN to_memoria  BY <1>1, <1>2
<1>3. CASE i \notin DOMAIN to_memoria
  <2>1. i = Len(to_memoria) + 1  BY <1>1, <1>3
  <2> QED BY <1>1, <2>1
<1> QED BY <1>2, <1>3

LEMMA Received ==
  ASSUME TypeOK, NEW type, Receive(type)
  PROVE  /\ at = "recv" /\ to_memoria' \in Seq(Requests)
         /\ 1 \in DOMAIN to_memoria
         /\ Head(to_memoria) = to_memoria[1] /\ to_memoria[1] \in Requests
         /\ to_memoria[1].type = type /\ Asker = to_memoria[1].pid /\ Asker \in Pids
         /\ \A i \in DOMAIN to_memoria' :
              /\ i \in Nat \ {0} /\ i + 1 \in DOMAIN to_memoria
              /\ to_memoria'[i] = to_memoria[i + 1]
<1>1. /\ to_memoria \in Seq(Requests) /\ to_memoria # << >> /\ at = "recv"
      /\ Head(to_memoria).type = type /\ to_memoria' = Tail(to_memoria)
  BY DEF TypeOK, Receive
<1>2. /\ Len(to_memoria) \in Nat \ {0} /\ DOMAIN to_memoria = 1 .. Len(to_memoria)
      /\ DOMAIN to_memoria' = 1 .. Len(to_memoria) - 1
      /\ \A i \in 1 .. Len(to_memoria) - 1 : to_memoria'[i] = to_memoria[i + 1]
      /\ Head(to_memoria) = to_memoria[1] /\ to_memoria[1] \in Requests
      /\ to_memoria' \in Seq(Requests)
  BY <1>1
<1>3. to_memoria[1].pid \in Pids  BY <1>2 DEF Requests
<1> QED BY <1>1, <1>2, <1>3 DEF Asker

-----------------------------------------------------------------------------
(* Type correctness.                                                       *)

LEMMA InitInv == Init => FrameInv
<1> SUFFICES ASSUME Init PROVE FrameInv
  OBVIOUS
<1> USE MemoriaAssumption DEF Init
<1>1. TypeOK
  BY DEF TypeOK, Frames, NoFrame, EmptyPage, NoRequest, NoMov, Idle, NoData, Cells, Copied,
     FrameOrNone, PageOrNone, Steps, CpuSteps, Lives, Requests, Blocks
<1>2. Protocol
  BY DEF Protocol, OneRequest, Serving, OneRuns, Loaded, Idle, NoMov
<1>3. Absent /\ InHand
  BY DEF Absent, InHand, EmptyPage
<1>4. FrameExclusive /\ FramesExact
  BY DEF FrameExclusive, FramesExact, Resident, EmptyPage
<1> QED BY <1>1, <1>2, <1>3, <1>4 DEF FrameInv

(* The parts of TypeOK that change together.                               *)
TypeTables ==
  /\ page_tables \in Seq(Pages)
  /\ pointer \in Nat /\ (pointer = 0 \/ pointer < Len(page_tables))

TypePage ==
  /\ page \in [Pages -> [frame : FrameOrNone, P : BOOLEAN, U : BOOLEAN,
                         M : BOOLEAN, swap_pos : Nat \cup {-1}]]
  /\ \A x \in Pages : page[x].P => page[x].frame \in Frames
  /\ frames_usage \in [Frames -> BOOLEAN]

TypeMain ==
  /\ at \in Steps
  /\ request \in [type : {"none", "PAGE_FAULT"}, page : PageOrNone]
  /\ pass \in {0, 1} /\ victim \in PageOrNone /\ frame \in FrameOrNone

TypeData ==
  /\ ram \in [Cells -> PageOrNone]
  /\ swap \in Seq(Blocks) /\ swap_data \in Blocks

TypeOthers ==
  /\ to_memoria \in Seq(Requests)
  /\ cpu \in [at : CpuSteps, frame : FrameOrNone]
  /\ mov \in [Pids -> [page : PageOrNone, op : {"none", "MOV_IN", "MOV_OUT"}]]
  /\ proc \in [Pids -> Lives]

LEMMA TypeParts ==
  TypeOK <=> TypeTables /\ TypePage /\ TypeMain /\ TypeData /\ TypeOthers
BY DEF TypeOK, TypeTables, TypePage, TypeMain, TypeData, TypeOthers

(* The page find_victim looks at, and the block of a victim.               *)
LEMMA PointedPage ==
  ASSUME TypeOK, InHand, at = "find_victim"
  PROVE  page_tables[pointer + 1] \in Pages
<1>1. /\ page_tables \in Seq(Pages) /\ page_tables # << >>
      /\ pointer \in Nat /\ (pointer = 0 \/ pointer < Len(page_tables))
  BY DEF TypeOK, InHand
<1>2. pointer + 1 \in 1 .. Len(page_tables)  BY <1>1
<1> QED BY <1>1, <1>2

LEMMA SavedBlock ==
  ASSUME TypeOK, InHand, at = "save",
         swap' = Append(swap, [i \in Copied |-> ram[page[victim].frame + i]])
  PROVE  swap' \in Seq(Blocks) /\ Len(swap') \in Nat
<1> DEFINE b == [i \in Copied |-> ram[page[victim].frame + i]]
<1>1. page[victim].frame \in Frames  BY DEF TypeOK, InHand
<1>2. \A i \in Copied : page[victim].frame + i \in Cells
  BY <1>1, MemoriaAssumption DEF Frames, Copied, Cells
<1>3. b \in Blocks  BY <1>2 DEF TypeOK, Blocks
<1>4. swap \in Seq(Blocks)  BY DEF TypeOK
<1> HIDE DEF b
<1>5. Append(swap, b) \in Seq(Blocks)  BY <1>3, <1>4
<1> QED BY <1>5 DEF b

(* The page of the MOV the CPU serves is one of the process that runs.     *)
LEMMA ServedMov ==
  ASSUME OneRuns, NEW p \in Pids, proc[p] = "running", cpu.at # "idle"
  PROVE  mov[p] # NoMov /\ mov[p].page \in PagesOf(p)
BY DEF OneRuns

LEMMA TypeNext == TypeOK /\ InHand /\ OneRuns /\ Serving /\ OneRequest /\ [Next]_mvars => TypeOK'
<1> SUFFICES ASSUME TypeOK, InHand, OneRuns, Serving, OneRequest, [Next]_mvars
             PROVE  TypeTables' /\ TypePage' /\ TypeMain' /\ TypeData' /\ TypeOthers'
  BY DEF TypeOK, TypeTables, TypePage, TypeMain, TypeData, TypeOthers
<1> USE DEF main, data, tables, program
<1>a. TypeTables /\ TypePage /\ TypeMain /\ TypeData /\ TypeOthers  BY TypeParts
<1>b. NoFrame \in FrameOrNone /\ NoPage \in PageOrNone /\ Frames \subseteq FrameOrNone
      /\ Pages \subseteq PageOrNone
  BY DEF FrameOrNone, PageOrNone
<1>c. \A p \in Pids : proc[p] = "running" /\ cpu.at # "idle" => mov[p].page \in PagesOf(p)
  BY ServedMov
<1>1. ASSUME NEW p \in Pids, CreateProcess(p) PROVE TypeTables' /\ TypePage' /\ TypeMain' /\ TypeData' /\ TypeOthers'
  <2>1. UNCHANGED <<page_tables, pointer, page, frames_usage, at, request, pass, victim, frame, ram, swap, swap_data>>
    BY <1>1 DEF CreateProcess
  <2>2. TypeTables' /\ TypePage' /\ TypeMain' /\ TypeData'
    BY <1>a, <2>1 DEF TypeTables, TypePage, TypeMain, TypeData
  <2>3. TypeOthers'
    <3>1. to_memoria' \in Seq(Requests)
      BY <1>1, <1>b, Asked DEF CreateProcess, Frames
    <3>2. UNCHANGED <<cpu, mov>> /\ proc' \in [Pids -> Lives]
      BY <1>a, <1>1 DEF CreateProcess, Move, Lives, TypeOthers
    <3> QED BY <1>a, <3>1, <3>2 DEF TypeOthers
  <2> QED BY <2>2, <2>3
<1>2. ASSUME NEW p \in Pids, Dispatch(p) PROVE TypeTables' /\ TypePage' /\ TypeMain' /\ TypeData' /\ TypeOthers'
  <2>1. UNCHANGED <<page_tables, pointer, page, frames_usage, at, request, pass, victim, frame, ram, swap, swap_data>>
    BY <1>2 DEF Dispatch
  <2>2. TypeTables' /\ TypePage' /\ TypeMain' /\ TypeData'
    BY <1>a, <2>1 DEF TypeTables, TypePage, TypeMain, TypeData
  <2>3. TypeOthers'
    BY <1>a, <1>2 DEF Dispatch, Move, Lives, TypeOthers
  <2> QED BY <2>2, <2>3
<1>3. ASSUME NEW p \in Pids, Preempt(p) PROVE TypeTables' /\ TypePage' /\ TypeMain' /\ TypeData' /\ TypeOthers'
  <2>1. UNCHANGED <<page_tables, pointer, page, frames_usage, at, request, pass, victim, frame, ram, swap, swap_data>>
    BY <1>3 DEF Preempt
  <2>2. TypeTables' /\ TypePage' /\ TypeMain' /\ TypeData'
    BY <1>a, <2>1 DEF TypeTables, TypePage, TypeMain, TypeData
  <2>3. TypeOthers'
    BY <1>a, <1>3 DEF Preempt, Move, Lives, TypeOthers
  <2> QED BY <2>2, <2>3
<1>4. ASSUME NEW p \in Pids, Exit(p) PROVE TypeTables' /\ TypePage' /\ TypeMain' /\ TypeData' /\ TypeOthers'
  <2>1. UNCHANGED <<page_tables, pointer, page, frames_usage, at, request, pass, victim, frame, ram, swap, swap_data>>
    BY <1>4 DEF Exit
  <2>2. TypeTables' /\ TypePage' /\ TypeMain' /\ TypeData'
    BY <1>a, <2>1 DEF TypeTables, TypePage, TypeMain, TypeData
  <2>3. TypeOthers'
    <3>1. to_memoria' \in Seq(Requests)
      BY <1>4, <1>b, Asked DEF Exit, Frames
    <3>2. UNCHANGED <<cpu, mov>> /\ proc' \in [Pids -> Lives]
      BY <1>a, <1>4 DEF Exit, Move, Lives, TypeOthers
    <3> QED BY <1>a, <3>1, <3>2 DEF TypeOthers
  <2> QED BY <2>2, <2>3
<1>5. ASSUME NEW p \in Pids, SegFault(p) PROVE TypeTables' /\ TypePage' /\ TypeMain' /\ TypeData' /\ TypeOthers'
  <2>1. UNCHANGED <<page_tables, pointer, page, frames_usage, at, request, pass, victim, frame, ram, swap, swap_data>>
    BY <1>5 DEF SegFault
  <2>2. TypeTables' /\ TypePage' /\ TypeMain' /\ TypeData'
    BY <1>a, <2>1 DEF TypeTables, TypePage, TypeMain, TypeData
  <2>3. TypeOthers'
    BY <1>a, <1>5 DEF SegFault, Move, Lives, TypeOthers
  <2> QED BY <2>2, <2>3
<1>6. ASSUME NEW p \in Pids, NEW x \in PagesOf(p), NEW op \in Ops, MovExecute(p, x, op) PROVE TypeTables' /\ TypePage' /\ TypeMain' /\ TypeData' /\ TypeOthers'
  <2>1. UNCHANGED <<page_tables, pointer, page, frames_usage, at, request, pass, victim, frame, ram, swap, swap_data>>
    BY <1>6 DEF MovExecute
  <2>2. TypeTables' /\ TypePage' /\ TypeMain' /\ TypeData'
    BY <1>a, <2>1 DEF TypeTables, TypePage, TypeMain, TypeData
  <2>3. TypeOthers'
    <3>1. x \in PageOrNone /\ op \in {"MOV_IN", "MOV_OUT"}
      BY <1>b, Layouts, MemoriaAssumption
    <3> QED BY <1>a, <1>6, <3>1 DEF MovExecute, Mov, TypeOthers, CpuSteps
  <2> QED BY <2>2, <2>3
<1>7. ASSUME NEW p \in Pids, TlbAccess(p) PROVE TypeTables' /\ TypePage' /\ TypeMain' /\ TypeData' /\ TypeOthers'
  <2>1. UNCHANGED <<page_tables, pointer, page, frames_usage, at, request, pass, victim, frame, ram, swap, swap_data>>
    BY <1>7 DEF TlbAccess
  <2>2. TypeTables' /\ TypePage' /\ TypeMain' /\ TypeData'
    BY <1>a, <2>1 DEF TypeTables, TypePage, TypeMain, TypeData
  <2>3. TypeOthers'
    BY <1>a, <1>7 DEF TlbAccess, TypeOthers, CpuSteps
  <2> QED BY <2>2, <2>3
<1>8. ASSUME NEW p \in Pids, PageFault(p) PROVE TypeTables' /\ TypePage' /\ TypeMain' /\ TypeData' /\ TypeOthers'
  <2>1. UNCHANGED <<page_tables, pointer, page, frames_usage, at, request, pass, victim, frame, ram, swap, swap_data>>
    BY <1>8 DEF PageFault
  <2>2. TypeTables' /\ TypePage' /\ TypeMain' /\ TypeData'
    BY <1>a, <2>1 DEF TypeTables, TypePage, TypeMain, TypeData
  <2>3. TypeOthers'
    <3>1. mov[p].page \in PageOrNone  BY <1>a DEF TypeOthers
    <3>2. to_memoria' \in Seq(Requests)  BY <1>8, <3>1, Asked DEF PageFault
    <3>3. mov' = mov /\ cpu' = Idle /\ proc' \in [Pids -> Lives]
      BY <1>a, <1>8 DEF PageFault, Move, Lives, TypeOthers
    <3> QED BY <1>a, <1>b, <3>2, <3>3 DEF TypeOthers, Idle, CpuSteps
  <2> QED BY <2>2, <2>3
<1>9. ASSUME NEW p \in Pids, Answered(p) PROVE TypeTables' /\ TypePage' /\ TypeMain' /\ TypeData' /\ TypeOthers'
  <2>1. UNCHANGED <<page_tables, pointer, page, frames_usage, at, request, pass, victim, frame, ram, swap, swap_data>>
    BY <1>9 DEF Answered
  <2>2. TypeTables' /\ TypePage' /\ TypeMain' /\ TypeData'
    BY <1>a, <2>1 DEF TypeTables, TypePage, TypeMain, TypeData
  <2>3. TypeOthers'
    BY <1>a, <1>b, <1>9 DEF Answered, TypeOthers, CpuSteps, Idle, NoMov
  <2> QED BY <2>2, <2>3
<1>10. ASSUME NEW p \in Pids, FrameAccess(p) PROVE TypeTables' /\ TypePage' /\ TypeMain' /\ TypeData' /\ TypeOthers'
  <2>1. UNCHANGED <<page_tables, pointer, page, frames_usage, at, request, pass, victim, frame, ram, swap, swap_data>>
    BY <1>10 DEF FrameAccess
  <2>2. TypeTables' /\ TypePage' /\ TypeMain' /\ TypeData'
    BY <1>a, <2>1 DEF TypeTables, TypePage, TypeMain, TypeData
  <2>3. TypeOthers'
    <3>1. mov[p].page \in Pages
      BY <1>10, Layouts, <1>c DEF FrameAccess
    <3>2. page[mov[p].page].frame \in FrameOrNone  BY <1>a, <3>1 DEF TypePage
    <3>3. /\ UNCHANGED <<to_memoria, mov, proc>>
          /\ \/ cpu' = [at |-> "frame", frame |-> page[mov[p].page].frame]
             \/ cpu' = [at |-> "PAGE_FAULT", frame |-> NoFrame]
      BY <1>10 DEF FrameAccess
    <3> QED BY <1>a, <1>b, <3>2, <3>3 DEF TypeOthers, CpuSteps
  <2> QED BY <2>2, <2>3
<1>11. ASSUME NEW p \in Pids, RamAccess(p) PROVE TypeTables' /\ TypePage' /\ TypeMain' /\ TypeData' /\ TypeOthers'
  <2>1. UNCHANGED <<page_tables, pointer, at, request, pass, victim, frame, ram, swap, swap_data>>
    BY <1>11 DEF RamAccess
  <2>2. TypeTables' /\ TypeMain' /\ TypeData'
    BY <1>a, <2>1 DEF TypeTables, TypeMain, TypeData
  <2>3. TypePage'
    <3>1. PICK x \in InFrame(p, cpu.frame) :
            page' = [page EXCEPT ![x].U = TRUE, ![x].M = @ \/ mov[p].op = "MOV_OUT"]
      BY <1>11 DEF RamAccess
    <3>2. frames_usage' = frames_usage  BY <1>11 DEF RamAccess
    <3> QED BY <1>a, <3>1, <3>2 DEF TypePage
  <2>4. TypeOthers'
    BY <1>a, <1>11 DEF RamAccess, TypeOthers, CpuSteps
  <2> QED BY <2>2, <2>3, <2>4
<1>12. ASSUME NEW p \in Pids, RamAccessNoPage(p) PROVE TypeTables' /\ TypePage' /\ TypeMain' /\ TypeData' /\ TypeOthers'
  <2>1. UNCHANGED <<page_tables, pointer, page, frames_usage, at, request, pass, victim, frame, ram, swap, swap_data, to_memoria, cpu, mov, proc>>
    BY <1>12 DEF RamAccessNoPage
  <2>2. TypeTables' /\ TypePage' /\ TypeMain' /\ TypeData' /\ TypeOthers'
    BY <1>a, <2>1 DEF TypeTables, TypePage, TypeMain, TypeData, TypeOthers
  <2> QED BY <2>2
<1>13. ASSUME NEW p \in Pids, RamCopy(p) PROVE TypeTables' /\ TypePage' /\ TypeMain' /\ TypeData' /\ TypeOthers'
  <2>1. UNCHANGED <<page_tables, pointer, page, frames_usage, at, request, pass, victim, frame>>
    BY <1>13 DEF RamCopy
  <2>2. TypeTables' /\ TypePage' /\ TypeMain'
    BY <1>a, <2>1 DEF TypeTables, TypePage, TypeMain
  <2>3. TypeData'
    BY <1>a, <1>13 DEF RamCopy, TypeData, TypeOthers
  <2>4. TypeOthers'
    BY <1>a, <1>13 DEF RamCopy, TypeOthers, CpuSteps
  <2> QED BY <2>2, <2>3, <2>4
<1>14. CASE ConsistencyCheck
  <2>1. UNCHANGED <<page_tables, pointer, page, frames_usage, at, request, pass, victim, frame, ram, swap, swap_data, to_memoria, cpu, mov, proc>>
    BY <1>14 DEF ConsistencyCheck
  <2>2. TypeTables' /\ TypePage' /\ TypeMain' /\ TypeData' /\ TypeOthers'
    BY <1>a, <2>1 DEF TypeTables, TypePage, TypeMain, TypeData, TypeOthers
  <2> QED BY <2>2
<1>15. CASE ProcessStarted
  <2>1. UNCHANGED <<at, request, pass, victim, frame, ram, swap, swap_data>>
    BY <1>15 DEF ProcessStarted
  <2>2. TypeMain' /\ TypeData'
    BY <1>a, <2>1 DEF TypeMain, TypeData
  <2>3. TypeTables'
    <3>1. Layout[Asker] \in Seq(Pages) /\ page_tables \in Seq(Pages)
      BY <1>a, <1>15, Received, Layouts DEF ProcessStarted, TypeTables
    <3>2. page_tables' = page_tables \o Layout[Asker] /\ pointer' = pointer
      BY <1>15 DEF ProcessStarted
    <3>3. page_tables' \in Seq(Pages) /\ Len(page_tables') >= Len(page_tables)
          /\ Len(page_tables) \in Nat /\ Len(page_tables') \in Nat
      BY <3>1, <3>2
    <3> QED BY <1>a, <3>2, <3>3 DEF TypeTables
  <2>4. TypePage'
    <3>1. EmptyPage \in [frame : FrameOrNone, P : BOOLEAN, U : BOOLEAN,
                         M : BOOLEAN, swap_pos : Nat \cup {-1}]
      BY <1>b DEF EmptyPage
    <3>2. page' = [x \in Pages |-> IF x \in PagesOf(Asker) THEN EmptyPage ELSE page[x]]
      BY <1>15 DEF ProcessStarted
    <3>3. frames_usage' \in [Frames -> BOOLEAN]
      BY <1>a, <1>15 DEF ProcessStarted, TypePage
    <3>4. \A x \in Pages : page'[x].P => page'[x].frame \in Frames
      BY <1>a, <3>2 DEF TypePage, EmptyPage
    <3> QED BY <1>a, <3>1, <3>2, <3>3, <3>4 DEF TypePage
  <2>5. TypeOthers'
    <3>1. to_memoria' \in Seq(Requests) /\ Asker \in Pids
      BY <1>15, Received DEF ProcessStarted
    <3> QED BY <1>a, <1>15, <3>1 DEF ProcessStarted, Move, Lives, TypeOthers
  <2> QED BY <2>2, <2>3, <2>4, <2>5
<1>16. CASE ProcessFinished
  <2>1. UNCHANGED <<page_tables, pointer, at, request, pass, victim, frame, ram, swap, swap_data>>
    BY <1>16 DEF ProcessFinished
  <2>2. TypeTables' /\ TypeMain' /\ TypeData'
    BY <1>a, <2>1 DEF TypeTables, TypeMain, TypeData
  <2>3. TypePage'
    <3>1. EmptyPage \in [frame : FrameOrNone, P : BOOLEAN, U : BOOLEAN,
                         M : BOOLEAN, swap_pos : Nat \cup {-1}]
      BY <1>b DEF EmptyPage
    <3>2. page' = [x \in Pages |-> IF x \in PagesOf(Asker) THEN EmptyPage ELSE page[x]]
      BY <1>16 DEF ProcessFinished
    <3>3. frames_usage' \in [Frames -> BOOLEAN]
      BY <1>a, <1>16 DEF ProcessFinished, TypePage
    <3>4. \A x \in Pages : page'[x].P => page'[x].frame \in Frames
      BY <1>a, <3>2 DEF TypePage, EmptyPage
    <3> QED BY <1>a, <3>1, <3>2, <3>3, <3>4 DEF TypePage
  <2>4. TypeOthers'
    <3>1. to_memoria' \in Seq(Requests) /\ Asker \in Pids
      BY <1>16, Received DEF ProcessFinished
    <3> QED BY <1>a, <1>16, <3>1 DEF ProcessFinished, Move, Lives, TypeOthers
  <2> QED BY <2>2, <2>3, <2>4
<1>17. CASE ResolvePageFault
  <2>1. UNCHANGED <<page_tables, pointer, page, frames_usage>>
    BY <1>17 DEF ResolvePageFault
  <2>2. TypeTables' /\ TypePage'
    BY <1>a, <2>1 DEF TypeTables, TypePage
  <2>3. TypeMain'
    <3>1. Head(to_memoria).page \in PageOrNone
      BY <1>17, Received DEF ResolvePageFault, Requests
    <3> QED BY <1>a, <1>17, <3>1 DEF ResolvePageFault, TypeMain, Steps
  <2>4. TypeData'
    <3> DEFINE x == Head(to_memoria).page
    <3>1. x \in Pages
      <4>1. Head(to_memoria) = to_memoria[1] /\ 1 \in DOMAIN to_memoria
            /\ to_memoria[1].type = "PAGE_FAULT" /\ to_memoria[1].pid \in Pids
        BY <1>17, Received DEF ResolvePageFault
      <4> QED BY <4>1, Layouts DEF OneRequest
    <3>2. page[x].swap_pos \in Nat \cup {-1}  BY <1>a, <3>1 DEF TypePage
    <3>3. /\ swap_data' = (IF page[x].swap_pos = -1 THEN NoData
                            ELSE ReadFromSwap(page[x].swap_pos))
          /\ UNCHANGED <<ram, swap>>
      BY <1>17 DEF ResolvePageFault
    <3>4. NoData \in Blocks  BY <1>b DEF NoData, Blocks
    <3>5. ASSUME NEW pos \in Nat PROVE ReadFromSwap(pos) \in Blocks
      <4>1. swap \in Seq(Blocks)  BY <1>a DEF TypeData
      <4>2. CASE pos < Len(swap)
        <5>1. pos + 1 \in 1 .. Len(swap) /\ swap[pos + 1] \in Blocks  BY <4>1, <4>2
        <5> QED BY <4>2, <5>1 DEF ReadFromSwap
      <4> QED BY <3>4, <4>2 DEF ReadFromSwap
    <3> HIDE DEF x
    <3>6. swap_data' \in Blocks  BY <3>2, <3>3, <3>4, <3>5
    <3> QED BY <1>a, <3>3, <3>6 DEF TypeData
  <2>5. TypeOthers'
    <3>1. to_memoria' \in Seq(Requests)
      BY <1>17, Received DEF ResolvePageFault
    <3> QED BY <1>a, <1>17, <3>1 DEF ResolvePageFault, Move, Lives, TypeOthers
  <2> QED BY <2>2, <2>3, <2>4, <2>5
<1>18. CASE FindFreeFrame
  <2>1. UNCHANGED <<page_tables, pointer, ram, swap, swap_data, to_memoria, cpu, mov, proc>>
    BY <1>18 DEF FindFreeFrame
  <2>2. TypeTables' /\ TypeData' /\ TypeOthers'
    BY <1>a, <2>1 DEF TypeTables, TypeData, TypeOthers
  <2>3. TypePage'
    BY <1>a, <1>18 DEF FindFreeFrame, TypePage
  <2>4. TypeMain'
    BY <1>a, <1>b, <1>18 DEF FindFreeFrame, FreeFrames, TypeMain, Steps
  <2> QED BY <2>2, <2>3, <2>4
<1>19. CASE NoFreeFrame
  <2>1. UNCHANGED <<page_tables, pointer, page, frames_usage, ram, swap, swap_data, to_memoria, cpu, mov, proc>>
    BY <1>19 DEF NoFreeFrame
  <2>2. TypeTables' /\ TypePage' /\ TypeData' /\ TypeOthers'
    BY <1>a, <2>1 DEF TypeTables, TypePage, TypeData, TypeOthers
  <2>3. TypeMain'
    BY <1>a, <1>19 DEF NoFreeFrame, TypeMain, Steps
  <2> QED BY <2>2, <2>3
<1>20. CASE FindVictim
  <2>1. UNCHANGED <<ram, swap, swap_data, to_memoria, cpu, mov, proc>>
    BY <1>20 DEF FindVictim
  <2>2. TypeData' /\ TypeOthers'
    BY <1>a, <2>1 DEF TypeData, TypeOthers
  <2>3. TypeTables'
    <3>1. page_tables \in Seq(Pages) /\ page_tables # << >> /\ pointer \in Nat
      BY <1>a, <1>20 DEF TypeTables, FindVictim, InHand
    <3>2. Len(page_tables) \in Nat \ {0}  BY <3>1
    <3>3. pointer' = pointer \/ pointer' = (pointer + 1) % Len(page_tables)
      BY <1>20 DEF FindVictim
    <3>4. (pointer + 1) % Len(page_tables) \in 0 .. Len(page_tables) - 1
      BY <3>1, <3>2
    <3>5. page_tables' = page_tables  BY <1>20 DEF FindVictim
    <3> QED BY <1>a, <3>2, <3>3, <3>4, <3>5 DEF TypeTables
  <2>4. TypePage'
    <3> DEFINE x == page_tables[pointer + 1]
    <3>1. x \in Pages  BY <1>20, PointedPage DEF FindVictim
    <3>2. page' = page \/ page' = Unused(x)  BY <1>20 DEF FindVictim
    <3>3. page' = page \/ page' = [page EXCEPT ![x].U = FALSE]  BY <3>2 DEF Unused
    <3>4. frames_usage' = frames_usage  BY <1>20 DEF FindVictim
    <3> HIDE DEF x
    <3> QED BY <1>a, <3>1, <3>3, <3>4 DEF TypePage
  <2>5. TypeMain'
    <3> DEFINE x == page_tables[pointer + 1]
    <3>1. x \in Pages  BY <1>20, PointedPage DEF FindVictim
    <3>2. /\ at' \in {at, "save"} /\ victim' \in {victim, x}
          /\ pass' \in {pass, 1 - pass} /\ UNCHANGED <<request, frame>>
      BY <1>20 DEF FindVictim
    <3> HIDE DEF x
    <3> QED BY <1>a, <1>b, <3>1, <3>2 DEF TypeMain, Steps
  <2> QED BY <2>2, <2>3, <2>4, <2>5
<1>21. CASE Save
  <2>1. UNCHANGED <<page_tables, pointer, to_memoria, cpu, mov, proc>>
    BY <1>21 DEF Save
  <2>2. TypeTables' /\ TypeOthers'
    BY <1>a, <2>1 DEF TypeTables, TypeOthers
  <2>3. TypePage'
    <3>1. victim \in Pages  BY <1>21 DEF Save, InHand
    <3>2. swap' \in Seq(Blocks) => Len(swap') \in Nat  OBVIOUS
    <3>3. CASE page[victim].M
      <4>1. page' = [page EXCEPT ![victim].swap_pos = Len(swap')]  BY <1>21, <3>3 DEF Save
      <4>2. Len(swap') \in Nat  BY <1>21, <3>3, SavedBlock DEF Save
      <4>3. frames_usage' = frames_usage  BY <1>21 DEF Save
      <4> QED BY <1>a, <3>1, <4>1, <4>2, <4>3 DEF TypePage
    <3>4. CASE ~page[victim].M
      BY <1>a, <1>21, <3>4 DEF Save, TypePage
    <3> QED BY <3>3, <3>4
  <2>4. TypeMain'
    BY <1>a, <1>21 DEF Save, TypeMain, Steps
  <2>5. TypeData'
    <3>1. CASE page[victim].M
      <4>1. swap' \in Seq(Blocks)  BY <1>21, <3>1, SavedBlock DEF Save
      <4>2. UNCHANGED <<ram, swap_data>>  BY <1>21 DEF Save
      <4> QED BY <1>a, <4>1, <4>2 DEF TypeData
    <3>2. CASE ~page[victim].M
      BY <1>a, <1>21, <3>2 DEF Save, TypeData
    <3> QED BY <3>1, <3>2
  <2> QED BY <2>2, <2>3, <2>4, <2>5
<1>22. CASE Evict
  <2>1. UNCHANGED <<page_tables, pointer, ram, swap, swap_data, to_memoria, cpu, mov, proc>>
    BY <1>22 DEF Evict
  <2>2. TypeTables' /\ TypeData' /\ TypeOthers'
    BY <1>a, <2>1 DEF TypeTables, TypeData, TypeOthers
  <2>3. TypePage'
    BY <1>a, <1>22 DEF Evict, InHand, TypePage
  <2>4. TypeMain'
    <3>1. page[victim].frame \in FrameOrNone  BY <1>a, <1>22 DEF Evict, InHand, TypePage
    <3> QED BY <1>a, <1>b, <1>22, <3>1 DEF Evict, TypeMain, Steps
  <2> QED BY <2>2, <2>3, <2>4
<1>23. CASE Map
  <2>1. UNCHANGED <<page_tables, pointer, ram, swap, swap_data, to_memoria, cpu, mov, proc>>
    BY <1>23 DEF Map
  <2>2. TypeTables' /\ TypeData' /\ TypeOthers'
    BY <1>a, <2>1 DEF TypeTables, TypeData, TypeOthers
  <2>3. TypePage'
    <3> DEFINE x == request.page
    <3>1. x \in Pages /\ frame \in Frames
      BY <1>23, Layouts DEF Map, InHand, Serving
    <3> DEFINE stays == ~(page[x].swap_pos # -1)
               m == page[x].M /\ stays
               u == page[x].U /\ stays
    <3>2. page' = [page EXCEPT ![x] = [frame |-> frame, P |-> TRUE, U |-> u, M |-> m,
                                       swap_pos |-> page[x].swap_pos]]
      BY <1>23 DEF Map
    <3>3. frames_usage' = frames_usage  BY <1>23 DEF Map
    <3>4. m \in BOOLEAN /\ u \in BOOLEAN  OBVIOUS
    <3>5. page[x].swap_pos \in Nat \cup {-1}  BY <1>a, <3>1 DEF TypePage
    <3> HIDE DEF x, m, u, stays
    <3> QED BY <1>a, <1>b, <3>1, <3>2, <3>3, <3>4, <3>5 DEF TypePage
  <2>4. TypeMain'
    BY <1>a, <1>23 DEF Map, TypeMain, Steps
  <2> QED BY <2>2, <2>3, <2>4
<1>24. CASE CopyToRam
  <2>1. UNCHANGED <<page_tables, pointer, page, frames_usage, to_memoria, cpu, mov, proc>>
    BY <1>24 DEF CopyToRam
  <2>2. TypeTables' /\ TypePage' /\ TypeOthers'
    BY <1>a, <2>1 DEF TypeTables, TypePage, TypeOthers
  <2>3. TypeMain'
    BY <1>a, <1>24 DEF CopyToRam, TypeMain, Steps
  <2>4. TypeData'
    BY <1>a, <1>24 DEF CopyToRam, TypeData, Blocks
  <2> QED BY <2>2, <2>3, <2>4
<1>25. CASE SendConsistencyCheck
  <2>1. UNCHANGED <<page_tables, pointer, page, frames_usage, ram, swap, swap_data, to_memoria, cpu, mov, proc>>
    BY <1>25 DEF SendConsistencyCheck
  <2>2. TypeTables' /\ TypePage' /\ TypeData' /\ TypeOthers'
    BY <1>a, <2>1 DEF TypeTables, TypePage, TypeData, TypeOthers
  <2>3. TypeMain'
    BY <1>a, <1>25 DEF SendConsistencyCheck, TypeMain, Steps
  <2> QED BY <2>2, <2>3
<1>26. CASE PageFaultResolved
  <2>1. UNCHANGED <<page_tables, pointer, page, frames_usage>>
    BY <1>26 DEF PageFaultResolved
  <2>2. TypeTables' /\ TypePage'
    BY <1>a, <2>1 DEF TypeTables, TypePage
  <2>3. TypeMain'
    BY <1>a, <1>b, <1>26 DEF PageFaultResolved, TypeMain, Steps, NoRequest
  <2>4. TypeData'
    <3>1. NoData \in Blocks  BY <1>b DEF NoData, Blocks
    <3> QED BY <1>a, <1>26, <3>1 DEF PageFaultResolved, TypeData
  <2>5. TypeOthers'
    BY <1>a, <1>26 DEF PageFaultResolved, Move, Lives, TypeOthers
  <2> QED BY <2>2, <2>3, <2>4, <2>5
<1>27. CASE UNCHANGED mvars
  <2>1. UNCHANGED <<page_tables, pointer, page, frames_usage, at, request, pass, victim, frame, ram, swap, swap_data, to_memoria, cpu, mov, proc>>
    BY <1>27 DEF mvars
  <2>2. TypeTables' /\ TypePage' /\ TypeMain' /\ TypeData' /\ TypeOthers'
    BY <1>a, <2>1 DEF TypeTables, TypePage, TypeMain, TypeData, TypeOthers
  <2> QED BY <2>2
<1> QED
  BY <1>1, <1>2, <1>3, <1>4, <1>5, <1>6, <1>7, <1>8, <1>9, <1>10, <1>11, <1>12, <1>13, <1>14,
     <1>15, <1>16, <1>17, <1>18, <1>19, <1>20, <1>21, <1>22, <1>23, <1>24, <1>25, <1>26, <1>27
     DEF Next, Kernel, Process, Cpu, HandleCpu, HandleKernel

-----------------------------------------------------------------------------
(* The protocol between the kernel, the CPU and memoria.                   *)

LEMMA NoRequestOf ==
  ASSUME TypeOK, OneRequest, NEW p \in Pids,
         proc[p] \notin {"starting", "finishing", "fault"}
  PROVE  \A i \in DOMAIN to_memoria : to_memoria[i].pid # p /\ to_memoria[i].pid \in Pids
<1> SUFFICES ASSUME NEW i \in DOMAIN to_memoria
             PROVE  to_memoria[i].pid # p /\ to_memoria[i].pid \in Pids
  OBVIOUS
<1>1. to_memoria[i] \in Requests  BY DEF TypeOK
<1>2. to_memoria[i].pid \in Pids
      /\ to_memoria[i].type \in {"PROCESS_STARTED", "PROCESS_FINISHED", "PAGE_FAULT"}
  BY <1>1 DEF Requests
<1> QED BY <1>2 DEF OneRequest

(* Nothing is sent or received.                                            *)
LEMMA SameRequests ==
  ASSUME OneRequest, UNCHANGED to_memoria,
         \A i \in DOMAIN to_memoria : proc'[to_memoria[i].pid] = proc[to_memoria[i].pid],
         at' # "recv" => at # "recv" /\ request' = request
  PROVE  OneRequest'
BY DEF OneRequest

(* A process that has no request in the socket sends one.                  *)
LEMMA NewRequest ==
  ASSUME TypeOK, OneRequest, Serving, NEW p \in Pids, NEW x \in PageOrNone,
         NEW type \in {"PROCESS_STARTED", "PROCESS_FINISHED", "PAGE_FAULT"},
         NEW state, Ask(type, p, x), proc' = [proc EXCEPT ![p] = state],
         proc[p] \notin {"starting", "finishing", "fault"},
         type = "PROCESS_STARTED" => state = "starting",
         type = "PROCESS_FINISHED" => state = "finishing",
         type = "PAGE_FAULT" => state = "fault" /\ x \in PagesOf(p),
         UNCHANGED <<at, request>>
  PROVE  OneRequest'
<1> DEFINE n == Len(to_memoria) + 1
<1>1. /\ DOMAIN to_memoria = 1 .. Len(to_memoria) /\ DOMAIN to_memoria' = 1 .. n
      /\ Len(to_memoria) \in Nat
      /\ \A i \in DOMAIN to_memoria : to_memoria'[i] = to_memoria[i]
      /\ to_memoria'[n] = [type |-> type, pid |-> p, page |-> x]
  BY Asked
<1>2. /\ \A i \in DOMAIN to_memoria : to_memoria[i].pid # p /\ to_memoria[i].pid \in Pids
  BY NoRequestOf
<1>3. proc'[p] = state /\ \A q \in Pids : q # p => proc'[q] = proc[q]
  BY DEF TypeOK
<1>4. at' # "recv" => request'.page \notin PagesOf(p)
  BY Layouts DEF Serving
<1> HIDE DEF n
<1>5. ASSUME NEW i \in DOMAIN to_memoria'
      PROVE  LET m == to_memoria'[i]
             IN  /\ m.type = "PROCESS_STARTED" => proc'[m.pid] = "starting"
                 /\ m.type = "PROCESS_FINISHED" => proc'[m.pid] = "finishing"
                 /\ m.type = "PAGE_FAULT" => proc'[m.pid] = "fault" /\ m.page \in PagesOf(m.pid)
                 /\ \A j \in DOMAIN to_memoria' : to_memoria'[j].pid = m.pid => i = j
                 /\ at' # "recv" => request'.page \notin PagesOf(m.pid)
  <2>1. CASE i \in DOMAIN to_memoria
    <3>1. /\ to_memoria'[i] = to_memoria[i]
          /\ to_memoria[i].pid # p /\ proc'[to_memoria[i].pid] = proc[to_memoria[i].pid]
      BY <1>1, <1>2, <1>3, <2>1
    <3>2. \A j \in DOMAIN to_memoria' : to_memoria'[j].pid = to_memoria[i].pid => i = j
      BY <1>1, <1>2, <2>1, <3>1 DEF OneRequest, n
    <3> QED BY <2>1, <3>1, <3>2 DEF OneRequest
  <2>2. CASE i = n
    <3>1. \A j \in DOMAIN to_memoria' : to_memoria'[j].pid = p => i = j
      BY <1>1, <1>2, <2>2 DEF n
    <3> QED BY <1>1, <1>3, <1>4, <2>2, <3>1
  <2> QED BY <1>1, <2>1, <2>2 DEF n
<1> QED BY <1>5 DEF OneRequest

(* memoria takes the first request.                                        *)
LEMMA TakenRequest ==
  ASSUME TypeOK, OneRequest, NEW type, Receive(type),
         \A p \in Pids : p # Asker => proc'[p] = proc[p],
         at' # "recv" => request'.page \in PagesOf(Asker)
  PROVE  OneRequest'
<1>1. /\ at = "recv" /\ 1 \in DOMAIN to_memoria /\ Asker = to_memoria[1].pid /\ Asker \in Pids
      /\ \A i \in DOMAIN to_memoria' :
           /\ i \in Nat \ {0} /\ i + 1 \in DOMAIN to_memoria
           /\ to_memoria'[i] = to_memoria[i + 1]
  BY Received
<1>2. ASSUME NEW i \in DOMAIN to_memoria'
      PROVE  LET m == to_memoria'[i]
             IN  /\ m.type = "PROCESS_STARTED" => proc'[m.pid] = "starting"
                 /\ m.type = "PROCESS_FINISHED" => proc'[m.pid] = "finishing"
                 /\ m.type = "PAGE_FAULT" => proc'[m.pid] = "fault" /\ m.page \in PagesOf(m.pid)
                 /\ \A j \in DOMAIN to_memoria' : to_memoria'[j].pid = m.pid => i = j
                 /\ at' # "recv" => request'.page \notin PagesOf(m.pid)
  <2>1. /\ i + 1 \in DOMAIN to_memoria /\ to_memoria'[i] = to_memoria[i + 1] /\ i \in Nat \ {0}
    BY <1>1, <1>2
  <2>2. to_memoria[i + 1].pid \in Pids
    <3>1. to_memoria[i + 1] \in Requests  BY <2>1 DEF TypeOK
    <3> QED BY <3>1 DEF Requests
  <2>3. to_memoria[i + 1].pid # Asker
    <3>1. i + 1 # 1  BY <2>1
    <3> QED BY <1>1, <2>1, <3>1 DEF OneRequest
  <2>4. proc'[to_memoria[i + 1].pid] = proc[to_memoria[i + 1].pid]  BY <2>2, <2>3
  <2>5. ASSUME NEW j \in DOMAIN to_memoria', to_memoria'[j].pid = to_memoria[i + 1].pid
        PROVE  i = j
    <3>1. j + 1 \in DOMAIN to_memoria /\ to_memoria'[j] = to_memoria[j + 1] /\ j \in Nat
      BY <1>1, <2>5
    <3>2. i + 1 = j + 1  BY <2>1, <2>5, <3>1 DEF OneRequest
    <3> QED BY <2>1, <3>1, <3>2
  <2>6. at' # "recv" => request'.page \notin PagesOf(to_memoria[i + 1].pid)
    BY <1>1, <2>2, <2>3, Layouts
  <2> QED BY <2>1, <2>4, <2>5, <2>6 DEF OneRequest
<1> QED BY <1>2 DEF OneRequest

(* A step of a thread inside its own work.                                 *)
LEMMA Silent ==
  ASSUME Protocol, UNCHANGED <<to_memoria, proc, mov, page_tables, request>>,
         at' # "recv" => at # "recv", cpu'.at # "idle" => cpu.at # "idle"
  PROVE  Protocol'
<1>1. OneRequest'  BY SameRequests DEF Protocol
<1>2. Serving' /\ OneRuns' /\ Loaded'
  BY DEF Protocol, Serving, OneRuns, Loaded
<1> QED BY <1>1, <1>2 DEF Protocol

LEMMA ProtocolNext == TypeOK /\ Protocol /\ [Next]_mvars => Protocol'
<1> SUFFICES ASSUME TypeOK, Protocol, [Next]_mvars PROVE Protocol'
  OBVIOUS
<1> USE DEF main, data, tables, program
<1>a. OneRequest /\ Serving /\ OneRuns /\ Loaded  BY DEF Protocol
<1>b. proc \in [Pids -> Lives] /\ mov \in [Pids -> [page : PageOrNone, op : {"none", "MOV_IN", "MOV_OUT"}]]
      /\ NoPage \in PageOrNone
  BY DEF TypeOK, PageOrNone
<1>1. ASSUME NEW p \in Pids, CreateProcess(p) PROVE Protocol'
  <2>1. /\ Ask("PROCESS_STARTED", p, NoPage) /\ proc' = [proc EXCEPT ![p] = "starting"]
        /\ proc[p] = "new" /\ UNCHANGED <<at, request, mov, page_tables>> /\ cpu' = cpu
    BY <1>1 DEF CreateProcess, Between, Move
  <2>2. OneRequest'  BY <1>a, <1>b, <2>1, NewRequest
  <2>3. Serving' /\ OneRuns' /\ Loaded'
    BY <1>a, <1>b, <2>1 DEF Serving, OneRuns, Loaded
  <2> QED BY <2>2, <2>3 DEF Protocol
<1>2. ASSUME NEW p \in Pids, Dispatch(p) PROVE Protocol'
  <2>1. /\ proc[p] = "ready" /\ proc' = [proc EXCEPT ![p] = "running"]
        /\ UNCHANGED <<to_memoria, at, request, mov, page_tables, cpu>>
    BY <1>2 DEF Dispatch, Between, Move
  <2>2. \A i \in DOMAIN to_memoria : proc'[to_memoria[i].pid] = proc[to_memoria[i].pid]
    BY <1>a, <1>b, <2>1, NoRequestOf
  <2>3. OneRequest'  BY <1>a, <2>1, <2>2, SameRequests
  <2>4. \A q \in Pids : proc[q] # "running"
    BY <1>2 DEF Dispatch
  <2>5. Serving' /\ Loaded'
    BY <1>a, <1>b, <2>1 DEF Serving, Loaded
  <2>6. OneRuns'
    BY <1>a, <1>b, <2>1, <2>4 DEF OneRuns
  <2> QED BY <2>3, <2>5, <2>6 DEF Protocol
<1>3. ASSUME NEW p \in Pids, Preempt(p) PROVE Protocol'
  <2>1. /\ proc[p] = "running" /\ proc' = [proc EXCEPT ![p] = "ready"]
        /\ UNCHANGED <<to_memoria, at, request, mov, page_tables, cpu>>
    BY <1>3 DEF Preempt, Between, Move
  <2>2. \A i \in DOMAIN to_memoria : proc'[to_memoria[i].pid] = proc[to_memoria[i].pid]
    BY <1>a, <1>b, <2>1, NoRequestOf
  <2>3. OneRequest'  BY <1>a, <2>1, <2>2, SameRequests
  <2>4. cpu.at = "idle"
    BY <1>3 DEF Preempt, Between, Idle
  <2>5. Serving' /\ Loaded' /\ OneRuns'
    BY <1>a, <1>b, <2>1, <2>4 DEF Serving, Loaded, OneRuns
  <2> QED BY <2>3, <2>5 DEF Protocol
<1>4. ASSUME NEW p \in Pids, SegFault(p) PROVE Protocol'
  <2>1. /\ proc[p] = "running" /\ proc' = [proc EXCEPT ![p] = "killed"]
        /\ UNCHANGED <<to_memoria, at, request, mov, page_tables, cpu>>
    BY <1>4 DEF SegFault, Between, Move
  <2>2. \A i \in DOMAIN to_memoria : proc'[to_memoria[i].pid] = proc[to_memoria[i].pid]
    BY <1>a, <1>b, <2>1, NoRequestOf
  <2>3. OneRequest'  BY <1>a, <2>1, <2>2, SameRequests
  <2>4. cpu.at = "idle"
    BY <1>4 DEF SegFault, Between, Idle
  <2>5. Serving' /\ Loaded' /\ OneRuns'
    BY <1>a, <1>b, <2>1, <2>4 DEF Serving, Loaded, OneRuns
  <2> QED BY <2>3, <2>5 DEF Protocol
<1>5. ASSUME NEW p \in Pids, Exit(p) PROVE Protocol'
  <2>1. /\ Ask("PROCESS_FINISHED", p, NoPage) /\ proc' = [proc EXCEPT ![p] = "finishing"]
        /\ proc[p] = "running" /\ UNCHANGED <<at, request, mov, page_tables>>
    BY <1>5 DEF Exit, Between, Move
  <2>2. OneRequest'  BY <1>a, <1>b, <2>1, NewRequest
  <2>3. cpu.at = "idle" /\ cpu' = cpu
    BY <1>5 DEF Exit, Between, Idle
  <2>4. Serving' /\ OneRuns' /\ Loaded'
    BY <1>a, <1>b, <2>1, <2>3 DEF Serving, OneRuns, Loaded
  <2> QED BY <2>2, <2>4 DEF Protocol
<1>6. ASSUME NEW p \in Pids, NEW x \in PagesOf(p), NEW op \in Ops, MovExecute(p, x, op) PROVE Protocol'
  <2>1. /\ proc[p] = "running" /\ mov' = [mov EXCEPT ![p] = [page |-> x, op |-> op]]
        /\ UNCHANGED <<to_memoria, at, request, proc, page_tables>>
    BY <1>6 DEF MovExecute, Mov
  <2>2. OneRequest'  BY <1>a, <2>1, SameRequests
  <2>3. mov'[p] # NoMov
    <3>1. x # NoPage  BY Layouts, MemoriaAssumption
    <3> QED BY <1>b, <2>1, <3>1 DEF NoMov
  <2>4. Serving' /\ Loaded'
    BY <1>a, <2>1 DEF Serving, Loaded
  <2>5. OneRuns'
    <3>1. \A q \in Pids : mov'[q] # NoMov => mov'[q].page \in PagesOf(q)
      BY <1>a, <1>b, <2>1 DEF OneRuns
    <3> QED BY <1>a, <2>1, <2>3, <3>1 DEF OneRuns
  <2> QED BY <2>2, <2>4, <2>5 DEF Protocol
<1>7. ASSUME NEW p \in Pids, PageFault(p) PROVE Protocol'
  <2>1. mov[p].page \in PagesOf(p) /\ mov[p].page \in PageOrNone
    BY <1>7, <1>a, <1>b, ServedMov DEF PageFault
  <2>2. /\ Ask("PAGE_FAULT", p, mov[p].page) /\ proc' = [proc EXCEPT ![p] = "fault"]
        /\ proc[p] = "running" /\ cpu' = Idle /\ UNCHANGED <<at, request, mov, page_tables>>
    BY <1>7 DEF PageFault, Move
  <2>3. OneRequest'  BY <1>a, <2>1, <2>2, NewRequest
  <2>4. Serving' /\ Loaded' /\ OneRuns'
    BY <1>a, <1>b, <2>2 DEF Serving, Loaded, OneRuns, Idle
  <2> QED BY <2>3, <2>4 DEF Protocol
<1>8. ASSUME NEW p \in Pids, Answered(p) PROVE Protocol'
  <2>1. /\ mov' = [mov EXCEPT ![p] = NoMov] /\ cpu' = Idle
        /\ UNCHANGED <<to_memoria, at, request, proc, page_tables>>
    BY <1>8 DEF Answered
  <2>2. OneRequest'  BY <1>a, <2>1, SameRequests
  <2>3. Serving' /\ Loaded' /\ OneRuns'
    BY <1>a, <1>b, <2>1 DEF Serving, Loaded, OneRuns, Idle
  <2> QED BY <2>2, <2>3 DEF Protocol
<1>9. CASE ProcessStarted
  <2>1. /\ Receive("PROCESS_STARTED") /\ proc' = [proc EXCEPT ![Asker] = "ready"]
        /\ page_tables' = page_tables \o Layout[Asker]
        /\ UNCHANGED <<at, request, mov, cpu>>
    BY <1>9 DEF ProcessStarted, Move
  <2>2. /\ at = "recv" /\ Asker \in Pids /\ proc[Asker] = "starting"
    BY <1>a, <2>1, Received DEF OneRequest
  <2>3. OneRequest'  BY <1>a, <1>b, <2>1, <2>2, TakenRequest
  <2>4. Serving' /\ OneRuns'
    BY <1>a, <1>b, <2>1, <2>2 DEF Serving, OneRuns
  <2>5. Loaded'
    <3>1. page_tables \in Seq(Pages) /\ Layout[Asker] \in Seq(Pages)
      BY <2>2, Layouts DEF TypeOK
    <3>2. page_tables # << >> => page_tables' # << >>
      BY <2>1, <3>1
    <3>3. PagesOf(Asker) # {} => page_tables' # << >>
      <4>1. PagesOf(Asker) # {} => Layout[Asker] # << >>
        BY <3>1 DEF PagesOf, ToSet
      <4> QED BY <2>1, <3>1, <4>1
    <3> QED BY <1>a, <1>b, <2>1, <3>2, <3>3 DEF Loaded
  <2> QED BY <2>3, <2>4, <2>5 DEF Protocol
<1>10. CASE ProcessFinished
  <2>1. /\ Receive("PROCESS_FINISHED") /\ proc' = [proc EXCEPT ![Asker] = "finished"]
        /\ UNCHANGED <<at, request, mov, cpu, page_tables>>
    BY <1>10 DEF ProcessFinished, Move
  <2>2. /\ at = "recv" /\ Asker \in Pids /\ proc[Asker] = "finishing"
    BY <1>a, <2>1, Received DEF OneRequest
  <2>3. OneRequest'  BY <1>a, <1>b, <2>1, <2>2, TakenRequest
  <2>4. Serving' /\ OneRuns' /\ Loaded'
    BY <1>a, <1>b, <2>1, <2>2 DEF Serving, OneRuns, Loaded
  <2> QED BY <2>3, <2>4 DEF Protocol
<1>11. CASE ResolvePageFault
  <2>1. /\ Receive("PAGE_FAULT") /\ at' = "find_free_frame"
        /\ request' = [type |-> "PAGE_FAULT", page |-> Head(to_memoria).page]
        /\ UNCHANGED <<proc, mov, cpu, page_tables>>
    BY <1>11 DEF ResolvePageFault
  <2>2. /\ Asker \in Pids /\ proc[Asker] = "fault" /\ Head(to_memoria).page \in PagesOf(Asker)
    BY <1>a, <2>1, Received DEF OneRequest
  <2>3. OneRequest'  BY <1>a, <2>1, <2>2, TakenRequest
  <2>4. Serving' /\ OneRuns' /\ Loaded'
    BY <1>a, <2>1, <2>2 DEF Serving, OneRuns, Loaded
  <2> QED BY <2>3, <2>4 DEF Protocol
<1>12. CASE PageFaultResolved
  <2>1. PICK p \in Pids : request.page \in PagesOf(p) /\ proc' = [proc EXCEPT ![p] = "ready"]
    BY <1>12 DEF PageFaultResolved, Move
  <2>2. /\ at = "resolved" /\ at' = "recv"
        /\ UNCHANGED <<to_memoria, mov, cpu, page_tables>>
    BY <1>12 DEF PageFaultResolved
  <2>3. \A i \in DOMAIN to_memoria : to_memoria[i].pid # p
    BY <1>a, <2>1, <2>2 DEF OneRequest
  <2>4. OneRequest'
    <3>1. \A i \in DOMAIN to_memoria : proc'[to_memoria[i].pid] = proc[to_memoria[i].pid]
      BY <1>b, <2>1, <2>3
    <3> QED BY <1>a, <2>2, <3>1, SameRequests
  <2>5. proc[p] = "fault"
    BY <1>a, <2>1, <2>2, Layouts DEF Serving
  <2>6. Serving' /\ OneRuns' /\ Loaded'
    BY <1>a, <1>b, <2>1, <2>2, <2>5 DEF Serving, OneRuns, Loaded
  <2> QED BY <2>4, <2>6 DEF Protocol
<1>13. ASSUME NEW p \in Pids, TlbAccess(p) PROVE Protocol'
  BY <1>13, Silent DEF TlbAccess
<1>14. ASSUME NEW p \in Pids, FrameAccess(p) PROVE Protocol'
  BY <1>14, Silent DEF FrameAccess
<1>15. ASSUME NEW p \in Pids, RamAccess(p) PROVE Protocol'
  BY <1>15, Silent DEF RamAccess
<1>16. ASSUME NEW p \in Pids, RamAccessNoPage(p) PROVE Protocol'
  BY <1>16, Silent DEF RamAccessNoPage
<1>17. ASSUME NEW p \in Pids, RamCopy(p) PROVE Protocol'
  BY <1>17, Silent DEF RamCopy
<1>18. CASE ConsistencyCheck
  BY <1>18, Silent DEF ConsistencyCheck
<1>19. CASE FindFreeFrame
  BY <1>19, Silent DEF FindFreeFrame
<1>20. CASE NoFreeFrame
  BY <1>20, Silent DEF NoFreeFrame
<1>21. CASE FindVictim
  BY <1>21, Silent DEF FindVictim
<1>22. CASE Save
  BY <1>22, Silent DEF Save
<1>23. CASE Evict
  BY <1>23, Silent DEF Evict
<1>24. CASE Map
  BY <1>24, Silent DEF Map
<1>25. CASE CopyToRam
  BY <1>25, Silent DEF CopyToRam
<1>26. CASE SendConsistencyCheck
  BY <1>26, Silent DEF SendConsistencyCheck
<1>27. CASE UNCHANGED mvars
  BY <1>27, Silent DEF mvars
<1> QED
  BY <1>1, <1>2, <1>3, <1>4, <1>5, <1>6, <1>7, <1>8, <1>9, <1>10, <1>11, <1>12, <1>13, <1>14,
     <1>15, <1>16, <1>17, <1>18, <1>19, <1>20, <1>21, <1>22, <1>23, <1>24, <1>25, <1>26, <1>27
     DEF Next, Kernel, Process, Cpu, HandleCpu, HandleKernel

-----------------------------------------------------------------------------
(* The frames.                                                             *)

(* No page enters a frame, leaves one or changes it.                       *)
SamePlaces ==
  \A x \in Pages : page'[x].P = page[x].P /\ (page[x].P => page'[x].frame = page[x].frame)

LEMMA AbsentSame ==
  ASSUME Absent, SamePlaces, \A x \in Pages : Missing(x)' => Missing(x) \/ ~page[x].P
  PROVE  Absent'
BY DEF Absent, SamePlaces

LEMMA FramesSame ==
  ASSUME FrameExclusive, FramesExact, SamePlaces, UNCHANGED frames_usage,
         at' = "map" <=> at = "map", at = "map" => frame' = frame
  PROVE  FrameExclusive' /\ FramesExact'
<1>1. \A g : Resident(g)' = Resident(g)  BY DEF Resident, SamePlaces
<1>2. FrameExclusive'  BY <1>1 DEF FrameExclusive, SamePlaces
<1>3. FramesExact'  BY <1>1 DEF FramesExact
<1> QED BY <1>2, <1>3

(* A step of the kernel, of the CPU or of handle_cpu.                      *)
LEMMA Elsewhere ==
  ASSUME FrameInv, SamePlaces,
         UNCHANGED <<at, request, victim, frame, page_tables, frames_usage>>,
         \A x \in Pages : Missing(x)' => Missing(x) \/ ~page[x].P
  PROVE  Absent' /\ InHand' /\ FrameExclusive' /\ FramesExact'
<1>1. Absent'  BY AbsentSame DEF FrameInv
<1>2. InHand'  BY DEF FrameInv, InHand, SamePlaces
<1>3. FrameExclusive' /\ FramesExact'  BY FramesSame DEF FrameInv
<1> QED BY <1>1, <1>2, <1>3

LEMMA FrameNext == FrameInv /\ [Next]_mvars => FrameInv'
<1> SUFFICES ASSUME FrameInv, [Next]_mvars
             PROVE  Absent' /\ InHand' /\ FrameExclusive' /\ FramesExact'
  BY TypeNext, ProtocolNext DEF FrameInv, Protocol
<1> USE DEF main, data, tables, program
<1>a. /\ TypeOK /\ OneRequest /\ Serving /\ OneRuns /\ Loaded
      /\ Absent /\ InHand /\ FrameExclusive /\ FramesExact
  BY DEF FrameInv, Protocol
<1>b. /\ proc \in [Pids -> Lives] /\ frames_usage \in [Frames -> BOOLEAN]
      /\ page \in [Pages -> [frame : FrameOrNone, P : BOOLEAN, U : BOOLEAN,
                             M : BOOLEAN, swap_pos : Nat \cup {-1}]]
      /\ mov \in [Pids -> [page : PageOrNone, op : {"none", "MOV_IN", "MOV_OUT"}]]
      /\ cpu \in [at : CpuSteps, frame : FrameOrNone]
  BY <1>a DEF TypeOK
<1>c. page' = page => SamePlaces  BY DEF SamePlaces
<1>d. \A p, q \in Pids : \A x \in PagesOf(p) : x \in PagesOf(q) => p = q
  BY Layouts
<1>1. ASSUME NEW p \in Pids, CreateProcess(p)
      PROVE  Absent' /\ InHand' /\ FrameExclusive' /\ FramesExact'
  <2>1. UNCHANGED <<at, request, victim, frame, page_tables, frames_usage, page>>
    BY <1>1 DEF CreateProcess
  <2>2. \A x \in Pages : Missing(x)' => Missing(x) \/ ~page[x].P
    <3>1. Ask("PROCESS_STARTED", p, NoPage) /\ NoPage \in PageOrNone
      BY <1>1 DEF CreateProcess, PageOrNone
    <3>2. \A i \in DOMAIN to_memoria' :
            \/ i \in DOMAIN to_memoria /\ to_memoria'[i] = to_memoria[i]
            \/ to_memoria'[i].type = "PROCESS_STARTED"
      BY <1>a, <3>1, AskedLast
    <3> QED BY <1>1, <1>b, <3>2 DEF CreateProcess, Move, Missing
  <2> QED BY <1>c, <2>1, <2>2, Elsewhere
<1>2. ASSUME NEW p \in Pids, Dispatch(p)
      PROVE  Absent' /\ InHand' /\ FrameExclusive' /\ FramesExact'
  <2>1. UNCHANGED <<at, request, victim, frame, page_tables, frames_usage, page>>
    BY <1>2 DEF Dispatch
  <2>2. \A x \in Pages : Missing(x)' => Missing(x) \/ ~page[x].P
    <3>1. cpu.at # "PAGE_FAULT"  BY <1>2, <1>a DEF Dispatch, OneRuns
    <3> QED BY <1>2, <1>b, <3>1 DEF Dispatch, Move, Missing
  <2> QED BY <1>c, <2>1, <2>2, Elsewhere
<1>3. ASSUME NEW p \in Pids, Preempt(p)
      PROVE  Absent' /\ InHand' /\ FrameExclusive' /\ FramesExact'
  <2>1. UNCHANGED <<at, request, victim, frame, page_tables, frames_usage, page>>
    BY <1>3 DEF Preempt
  <2>2. \A x \in Pages : Missing(x)' => Missing(x) \/ ~page[x].P
    BY <1>3, <1>b DEF Preempt, Between, Move, Missing
  <2> QED BY <1>c, <2>1, <2>2, Elsewhere
<1>4. ASSUME NEW p \in Pids, SegFault(p)
      PROVE  Absent' /\ InHand' /\ FrameExclusive' /\ FramesExact'
  <2>1. UNCHANGED <<at, request, victim, frame, page_tables, frames_usage, page>>
    BY <1>4 DEF SegFault
  <2>2. \A x \in Pages : Missing(x)' => Missing(x) \/ ~page[x].P
    BY <1>4, <1>b DEF SegFault, Between, Move, Missing
  <2> QED BY <1>c, <2>1, <2>2, Elsewhere
<1>5. ASSUME NEW p \in Pids, Exit(p)
      PROVE  Absent' /\ InHand' /\ FrameExclusive' /\ FramesExact'
  <2>1. UNCHANGED <<at, request, victim, frame, page_tables, frames_usage, page>>
    BY <1>5 DEF Exit
  <2>2. \A x \in Pages : Missing(x)' => Missing(x) \/ ~page[x].P
    <3>1. Ask("PROCESS_FINISHED", p, NoPage) /\ NoPage \in PageOrNone
      BY <1>5 DEF Exit, PageOrNone
    <3>2. \A i \in DOMAIN to_memoria' :
            \/ i \in DOMAIN to_memoria /\ to_memoria'[i] = to_memoria[i]
            \/ to_memoria'[i].type = "PROCESS_FINISHED"
      BY <1>a, <3>1, AskedLast
    <3> QED BY <1>5, <1>b, <3>2 DEF Exit, Between, Move, Missing
  <2> QED BY <1>c, <2>1, <2>2, Elsewhere
<1>6. ASSUME NEW p \in Pids, NEW x \in PagesOf(p), NEW op \in Ops, MovExecute(p, x, op)
      PROVE  Absent' /\ InHand' /\ FrameExclusive' /\ FramesExact'
  <2>1. UNCHANGED <<at, request, victim, frame, page_tables, frames_usage, page>>
    BY <1>6 DEF MovExecute
  <2>2. \A y \in Pages : Missing(y)' => Missing(y) \/ ~page[y].P
    <3>1. cpu'.at # "PAGE_FAULT"  BY <1>6, <1>b DEF MovExecute
    <3> QED BY <1>6, <3>1 DEF MovExecute, Missing
  <2> QED BY <1>c, <2>1, <2>2, Elsewhere
<1>7. ASSUME NEW p \in Pids, TlbAccess(p)
      PROVE  Absent' /\ InHand' /\ FrameExclusive' /\ FramesExact'
  <2>1. UNCHANGED <<at, request, victim, frame, page_tables, frames_usage, page>>
    BY <1>7 DEF TlbAccess
  <2>2. \A x \in Pages : Missing(x)' => Missing(x) \/ ~page[x].P
    <3>1. cpu'.at # "PAGE_FAULT"  BY <1>7, <1>b DEF TlbAccess
    <3> QED BY <1>7, <3>1 DEF TlbAccess, Missing
  <2> QED BY <1>c, <2>1, <2>2, Elsewhere
<1>8. ASSUME NEW p \in Pids, PageFault(p)
      PROVE  Absent' /\ InHand' /\ FrameExclusive' /\ FramesExact'
  <2>1. UNCHANGED <<at, request, victim, frame, page_tables, frames_usage, page>>
    BY <1>8 DEF PageFault
  <2>2. \A x \in Pages : Missing(x)' => Missing(x) \/ ~page[x].P
    <3>1. Ask("PAGE_FAULT", p, mov[p].page) /\ mov[p].page \in PageOrNone
      BY <1>8, <1>b DEF PageFault
    <3>2. Missing(mov[p].page)
      BY <1>8 DEF PageFault, Missing
    <3>3. \A i \in DOMAIN to_memoria' :
            \/ i \in DOMAIN to_memoria /\ to_memoria'[i] = to_memoria[i]
            \/ to_memoria'[i].page = mov[p].page
      BY <1>a, <3>1, AskedLast
    <3>4. cpu'.at # "PAGE_FAULT"  BY <1>8 DEF PageFault, Idle
    <3>5. \A q \in Pids : proc'[q] \in {"new", "starting"} => proc'[q] = proc[q]
      BY <1>8, <1>b DEF PageFault, Move
    <3>6. at' = at /\ request' = request  BY <1>8 DEF PageFault
    <3> QED BY <3>2, <3>3, <3>4, <3>5, <3>6 DEF Missing
  <2> QED BY <1>c, <2>1, <2>2, Elsewhere
<1>9. ASSUME NEW p \in Pids, Answered(p)
      PROVE  Absent' /\ InHand' /\ FrameExclusive' /\ FramesExact'
  <2>1. UNCHANGED <<at, request, victim, frame, page_tables, frames_usage, page>>
    BY <1>9 DEF Answered
  <2>2. \A x \in Pages : Missing(x)' => Missing(x) \/ ~page[x].P
    <3>1. cpu'.at # "PAGE_FAULT"  BY <1>9 DEF Answered, Idle
    <3> QED BY <1>9, <3>1 DEF Answered, Missing
  <2> QED BY <1>c, <2>1, <2>2, Elsewhere
<1>10. ASSUME NEW p \in Pids, FrameAccess(p)
      PROVE  Absent' /\ InHand' /\ FrameExclusive' /\ FramesExact'
  <2>1. UNCHANGED <<at, request, victim, frame, page_tables, frames_usage, page>>
    BY <1>10 DEF FrameAccess
  <2>2. \A x \in Pages : Missing(x)' => Missing(x) \/ ~page[x].P
    <3>1. CASE page[mov[p].page].P
      <4>1. cpu'.at # "PAGE_FAULT"  BY <1>10, <3>1 DEF FrameAccess
      <4> QED BY <1>10, <4>1 DEF FrameAccess, Missing
    <3>2. CASE ~page[mov[p].page].P
      <4>1. \A q \in Pids : proc'[q] = "running" => q = p
        BY <1>10, <1>a DEF FrameAccess, OneRuns
      <4> QED BY <1>10, <3>2, <4>1 DEF FrameAccess, Missing
    <3> QED BY <3>1, <3>2
  <2> QED BY <1>c, <2>1, <2>2, Elsewhere
<1>11. ASSUME NEW p \in Pids, RamAccess(p)
      PROVE  Absent' /\ InHand' /\ FrameExclusive' /\ FramesExact'
  <2>1. UNCHANGED <<at, request, victim, frame, page_tables, frames_usage>>
    BY <1>11 DEF RamAccess
  <2>2. SamePlaces
    <3>1. PICK x \in InFrame(p, cpu.frame) :
            page' = [page EXCEPT ![x].U = TRUE, ![x].M = @ \/ mov[p].op = "MOV_OUT"]
      BY <1>11 DEF RamAccess
    <3> QED BY <1>b, <3>1 DEF SamePlaces
  <2>3. \A x \in Pages : Missing(x)' => Missing(x) \/ ~page[x].P
    <3>1. cpu'.at # "PAGE_FAULT"  BY <1>11, <1>b DEF RamAccess
    <3> QED BY <1>11, <3>1 DEF RamAccess, Missing
  <2> QED BY <2>1, <2>2, <2>3, Elsewhere
<1>12. ASSUME NEW p \in Pids, RamAccessNoPage(p)
      PROVE  Absent' /\ InHand' /\ FrameExclusive' /\ FramesExact'
  <2>1. UNCHANGED <<at, request, victim, frame, page_tables, frames_usage, page>>
    BY <1>12 DEF RamAccessNoPage
  <2>2. \A x \in Pages : Missing(x)' => Missing(x) \/ ~page[x].P
    BY <1>12 DEF RamAccessNoPage, Missing
  <2> QED BY <1>c, <2>1, <2>2, Elsewhere
<1>13. ASSUME NEW p \in Pids, RamCopy(p)
      PROVE  Absent' /\ InHand' /\ FrameExclusive' /\ FramesExact'
  <2>1. UNCHANGED <<at, request, victim, frame, page_tables, frames_usage, page>>
    BY <1>13 DEF RamCopy
  <2>2. \A x \in Pages : Missing(x)' => Missing(x) \/ ~page[x].P
    <3>1. cpu'.at # "PAGE_FAULT"  BY <1>13, <1>b DEF RamCopy
    <3> QED BY <1>13, <3>1 DEF RamCopy, Missing
  <2> QED BY <1>c, <2>1, <2>2, Elsewhere
<1>14. CASE ConsistencyCheck
  <2>1. UNCHANGED <<at, request, victim, frame, page_tables, frames_usage, page>>
    BY <1>14 DEF ConsistencyCheck
  <2>2. \A x \in Pages : Missing(x)' => Missing(x) \/ ~page[x].P
    BY <1>14 DEF ConsistencyCheck, Missing
  <2> QED BY <1>c, <2>1, <2>2, Elsewhere
<1>15. CASE UNCHANGED mvars
  <2>1. UNCHANGED <<at, request, victim, frame, page_tables, frames_usage, page>>
    BY <1>15 DEF mvars
  <2>2. \A x \in Pages : Missing(x)' => Missing(x) \/ ~page[x].P
    BY <1>15 DEF mvars, Missing
  <2> QED BY <1>c, <2>1, <2>2, Elsewhere
<1>16. CASE ProcessStarted
  <2>1. /\ Receive("PROCESS_STARTED") /\ proc' = [proc EXCEPT ![Asker] = "ready"]
        /\ page' = [x \in Pages |-> IF x \in PagesOf(Asker) THEN EmptyPage ELSE page[x]]
        /\ UNCHANGED <<at, request, victim, frame, frames_usage, cpu, mov>>
    BY <1>16 DEF ProcessStarted, Move
  <2>2. /\ at = "recv" /\ Asker \in Pids /\ proc[Asker] = "starting"
        /\ \A i \in DOMAIN to_memoria' :
             i + 1 \in DOMAIN to_memoria /\ to_memoria'[i] = to_memoria[i + 1]
    BY <1>a, <2>1, Received DEF OneRequest
  <2>3. \A x \in PagesOf(Asker) : x \in Pages => ~page[x].P
    BY <1>a, <2>2 DEF Absent, Missing
  <2>4. SamePlaces
    BY <1>b, <2>1, <2>3 DEF SamePlaces, EmptyPage
  <2>5. cpu.at = "PAGE_FAULT" => proc[Asker] # "running"  BY <2>2
  <2>6. \A x \in Pages : Missing(x)' => Missing(x) \/ ~page[x].P
    <3>1. \A q \in Pids : proc'[q] \in {"new", "starting"} => proc'[q] = proc[q]
      BY <1>b, <2>1
    <3>2. \A q \in Pids : proc'[q] = "running" => proc[q] = "running"
      BY <1>b, <2>1
    <3> QED BY <2>1, <2>2, <3>1, <3>2 DEF Missing
  <2>7. Absent'  BY <1>a, <2>4, <2>6, AbsentSame
  <2>8. InHand'  BY <2>1, <2>2 DEF InHand
  <2>9. FrameExclusive' /\ FramesExact'  BY <1>a, <2>1, <2>4, FramesSame
  <2> QED BY <2>7, <2>8, <2>9
<1>17. CASE ProcessFinished
  <2>1. /\ Receive("PROCESS_FINISHED") /\ proc' = [proc EXCEPT ![Asker] = "finished"]
        /\ page' = [x \in Pages |-> IF x \in PagesOf(Asker) THEN EmptyPage ELSE page[x]]
        /\ frames_usage' = [g \in Frames |-> frames_usage[g] /\ InFrame(Asker, g) = {}]
        /\ UNCHANGED <<at, request, victim, frame, cpu, mov>>
    BY <1>17 DEF ProcessFinished, Move
  <2>2. /\ at = "recv" /\ Asker \in Pids
        /\ \A i \in DOMAIN to_memoria' :
             i + 1 \in DOMAIN to_memoria /\ to_memoria'[i] = to_memoria[i + 1]
    BY <1>a, <2>1, Received DEF OneRequest
  <2>3. \A x \in Pages :
          IF x \in PagesOf(Asker) THEN ~page'[x].P ELSE page'[x] = page[x]
    BY <2>1 DEF EmptyPage
  <2>4. Absent'
    <3>1. \A x \in Pages : Missing(x)' => Missing(x)
      <4>1. \A q \in Pids : proc'[q] \in {"new", "starting"} => proc'[q] = proc[q]
        BY <1>b, <2>1
      <4>2. \A q \in Pids : proc'[q] = "running" => proc[q] = "running"
        BY <1>b, <2>1
      <4> QED BY <2>1, <2>2, <4>1, <4>2 DEF Missing
    <3> QED BY <1>a, <2>3, <3>1 DEF Absent
  <2>5. InHand'  BY <2>1, <2>2 DEF InHand
  <2>6. FrameExclusive'
    BY <1>a, <2>1, <2>2, <2>3 DEF FrameExclusive
  <2>7. \A g \in Frames : Resident(g)' = Resident(g) \ PagesOf(Asker)
    BY <2>3 DEF Resident
  <2>8. \A g \in Frames : InFrame(Asker, g) # {} => Resident(g) \subseteq PagesOf(Asker)
    BY <1>a, <2>2, Layouts DEF InFrame, Resident, FrameExclusive
  <2>9. \A g \in Frames : InFrame(Asker, g) = {} => Resident(g) \cap PagesOf(Asker) = {}
    BY DEF InFrame, Resident
  <2>10. FramesExact'
    <3> SUFFICES ASSUME NEW g \in Frames
                 PROVE  frames_usage'[g] <=> Resident(g)' # {}
      BY <2>1, <2>2 DEF FramesExact
    <3>1. frames_usage[g] <=> Resident(g) # {}  BY <1>a, <2>2 DEF FramesExact
    <3>2. frames_usage'[g] <=> frames_usage[g] /\ InFrame(Asker, g) = {}  BY <2>1
    <3>3. CASE InFrame(Asker, g) = {}  BY <3>1, <3>2, <3>3, <2>7, <2>9
    <3>4. CASE InFrame(Asker, g) # {}  BY <3>2, <3>4, <2>7, <2>8
    <3> QED BY <3>3, <3>4
  <2> QED BY <2>4, <2>5, <2>6, <2>10
<1>18. CASE ResolvePageFault
  <2>1. /\ Receive("PAGE_FAULT") /\ at' = "find_free_frame"
        /\ request' = [type |-> "PAGE_FAULT", page |-> Head(to_memoria).page]
        /\ UNCHANGED <<page, frames_usage, proc, cpu, mov>>
    BY <1>18 DEF ResolvePageFault
  <2>2. /\ at = "recv" /\ 1 \in DOMAIN to_memoria /\ Head(to_memoria) = to_memoria[1]
        /\ to_memoria[1].type = "PAGE_FAULT"
        /\ \A i \in DOMAIN to_memoria' :
             i + 1 \in DOMAIN to_memoria /\ to_memoria'[i] = to_memoria[i + 1]
    BY <1>a, <2>1, Received
  <2>3. Absent'
    <3>1. \A x \in Pages : Missing(x)' => Missing(x)  BY <2>1, <2>2 DEF Missing
    <3> QED BY <1>a, <1>c, <2>1, <3>1, AbsentSame
  <2>4. InHand'  BY <2>1 DEF InHand
  <2>5. FrameExclusive' /\ FramesExact'  BY <1>a, <1>c, <2>1, <2>2, FramesSame
  <2> QED BY <2>3, <2>4, <2>5
<1>19. CASE FindFreeFrame
  <2>1. \A x \in Pages : Missing(x)' => Missing(x)
    BY <1>19 DEF FindFreeFrame, Missing
  <2>2. PICK g \in FreeFrames : frames_usage' = [frames_usage EXCEPT ![g] = TRUE] /\ frame' = g
    BY <1>19 DEF FindFreeFrame
  <2>3. page' = page /\ at = "find_free_frame" /\ at' = "map"  BY <1>19 DEF FindFreeFrame
  <2>4. g \in Frames /\ ~frames_usage[g]  BY DEF FreeFrames
  <2>5. Absent'  BY <1>a, <1>c, <2>1, <2>3, AbsentSame
  <2>6. InHand'  BY <2>2, <2>3, <2>4 DEF InHand
  <2>7. \A h : Resident(h)' = Resident(h)  BY <2>3 DEF Resident
  <2>8. FrameExclusive'
    BY <1>a, <2>2, <2>3, <2>4, <2>7 DEF FrameExclusive, FramesExact
  <2>9. FramesExact'
    BY <1>a, <1>b, <2>2, <2>3, <2>4, <2>7 DEF FramesExact
  <2> QED BY <2>5, <2>6, <2>8, <2>9
<1>20. CASE NoFreeFrame
  <2>1. page' = page /\ frames_usage' = frames_usage
        /\ at = "find_free_frame" /\ at' = "find_victim" /\ page_tables' = page_tables
    BY <1>20 DEF NoFreeFrame
  <2>2. \A x \in Pages : Missing(x)' => Missing(x)
    BY <1>20 DEF NoFreeFrame, Missing
  <2>3. Absent'  BY <1>a, <1>c, <2>1, <2>2, AbsentSame
  <2>4. page_tables # << >>
    BY <1>a, <2>1 DEF Serving, Loaded
  <2>5. InHand'  BY <2>1, <2>4 DEF InHand
  <2>6. FrameExclusive' /\ FramesExact'  BY <1>a, <1>c, <2>1, FramesSame
  <2> QED BY <2>3, <2>5, <2>6
<1>21. CASE FindVictim
  <2> DEFINE x == page_tables[pointer + 1]
  <2>1. /\ at = "find_victim" /\ at' \in {"find_victim", "save"}
        /\ UNCHANGED <<page_tables, frames_usage>>
    BY <1>21 DEF FindVictim
  <2>2. \A y \in Pages : Missing(y)' => Missing(y)
    BY <1>21 DEF FindVictim, Missing
  <2>3. x \in Pages  BY <1>a, <2>1, PointedPage
  <2>4. page' = page \/ page' = [page EXCEPT ![x].U = FALSE]
    <3>1. page' = page \/ page' = Unused(x)  BY <1>21 DEF FindVictim
    <3> QED BY <3>1 DEF Unused
  <2>5. at' = "save" => page' = page /\ victim' = x /\ page[x].P
    BY <1>21 DEF FindVictim, IsVictim
  <2> HIDE DEF x
  <2>6. SamePlaces  BY <1>b, <2>3, <2>4 DEF SamePlaces
  <2>7. Absent'  BY <1>a, <2>2, <2>6, AbsentSame
  <2>8. InHand'  BY <1>a, <2>1, <2>3, <2>5 DEF InHand
  <2>9. FrameExclusive' /\ FramesExact'  BY <1>a, <2>1, <2>6, FramesSame
  <2> QED BY <2>7, <2>8, <2>9
<1>22. CASE Save
  <2>1. at = "save" /\ at' = "evict" /\ UNCHANGED <<frames_usage, victim>>
    BY <1>22 DEF Save
  <2>2. \A x \in Pages : Missing(x)' => Missing(x)
    BY <1>22 DEF Save, Missing
  <2>3. page' = page \/ page' = [page EXCEPT ![victim].swap_pos = Len(swap')]
    BY <1>22 DEF Save
  <2>4. victim \in Pages /\ page[victim].P  BY <1>a, <2>1 DEF InHand
  <2>5. SamePlaces  BY <1>b, <2>3, <2>4 DEF SamePlaces
  <2>6. Absent'  BY <1>a, <2>2, <2>5, AbsentSame
  <2>7. InHand'  BY <2>1, <2>4, <2>5 DEF InHand, SamePlaces
  <2>8. FrameExclusive' /\ FramesExact'  BY <1>a, <2>1, <2>5, FramesSame
  <2> QED BY <2>6, <2>7, <2>8
<1>23. CASE Evict
  <2>1. /\ at = "evict" /\ at' = "map" /\ frames_usage' = frames_usage
        /\ page' = [page EXCEPT ![victim].P = FALSE] /\ frame' = page[victim].frame
    BY <1>23 DEF Evict
  <2>2. \A x \in Pages : Missing(x)' => Missing(x)
    BY <1>23 DEF Evict, Missing
  <2>3. /\ victim \in Pages /\ page[victim].P /\ page[victim].frame \in Frames
    BY <1>a, <2>1 DEF InHand, TypeOK
  <2>4. /\ ~page'[victim].P
        /\ \A x \in Pages : x # victim => page'[x] = page[x]
    BY <1>b, <2>1, <2>3
  <2>5. Absent'  BY <1>a, <2>2, <2>4 DEF Absent
  <2>6. InHand'  BY <2>1, <2>3 DEF InHand
  <2>7. \A g : Resident(g)' = Resident(g) \ {victim}
    BY <2>4 DEF Resident
  <2>8. Resident(frame') = {victim}
    BY <1>a, <2>1, <2>3 DEF Resident, FrameExclusive
  <2>9. FrameExclusive'
    <3>1. \A x, y \in Pages :
            page'[x].P /\ page'[y].P /\ page'[x].frame = page'[y].frame => x = y
      BY <1>a, <2>4 DEF FrameExclusive
    <3>2. Resident(frame)' = {}
      BY <2>7, <2>8 DEF Resident
    <3> QED BY <3>1, <3>2 DEF FrameExclusive
  <2>10. FramesExact'
    <3> SUFFICES ASSUME NEW g \in Frames
                 PROVE  frames_usage[g] <=> Resident(g)' # {} \/ frame' = g
      BY <2>1 DEF FramesExact
    <3>1. frames_usage[g] <=> Resident(g) # {}  BY <1>a, <2>1 DEF FramesExact
    <3>2. CASE g = frame'  BY <3>1, <3>2, <2>8
    <3>3. CASE g # frame'
      <4>1. victim \notin Resident(g)  BY <2>1, <3>3 DEF Resident
      <4> QED BY <3>1, <3>3, <4>1, <2>7
    <3> QED BY <3>2, <3>3
  <2> QED BY <2>5, <2>6, <2>9, <2>10
<1>24. CASE Map
  <2>1. /\ at = "map" /\ at' \in {"copy", "tlb_consistency"}
        /\ UNCHANGED <<request, frames_usage, frame, to_memoria, proc, cpu, mov>>
    BY <1>24 DEF Map
  <2>0. PICK p \in Pids : proc[p] = "fault" /\ request.page \in PagesOf(p)
    BY <1>a, <2>1 DEF Serving
  <2>x. PICK x \in PagesOf(p) : x = request.page  BY <2>0
  <2>2. proc[p] = "fault" /\ x \in PagesOf(p) /\ request.page = x /\ request'.page = x
    BY <2>0, <2>1, <2>x
  <2>3. x \in Pages /\ frame \in Frames  BY <1>a, <2>1, <2>2, Layouts DEF InHand
  <2>4. PICK r : page' = [page EXCEPT ![x] = r] /\ r.P /\ r.frame = frame
    <3> DEFINE s == [frame |-> frame, P |-> TRUE, U |-> page[x].U /\ page[x].swap_pos = -1,
                     M |-> page[x].M /\ page[x].swap_pos = -1, swap_pos |-> page[x].swap_pos]
    <3>1. page' = [page EXCEPT ![x] = s]  BY <1>24, <1>b, <2>2, <2>3 DEF Map
    <3>2. s.P /\ s.frame = frame  OBVIOUS
    <3> HIDE DEF s
    <3> QED BY <3>1, <3>2, Zenon
  <2>5. ~page[x].P  BY <1>a, <2>1, <2>2, <2>3 DEF Absent, Missing
  <2>6. ~Missing(x)'
    <3>1. \A q \in Pids : proc[q] \in {"new", "starting"} => x \notin PagesOf(q)
      BY <2>2, <1>d
    <3>2. \A i \in DOMAIN to_memoria :
            to_memoria[i].type = "PAGE_FAULT" => to_memoria[i].page # x
      BY <1>a, <2>1, <2>2 DEF OneRequest
    <3>3. \A q \in Pids : cpu.at = "PAGE_FAULT" /\ proc[q] = "running" => mov[q].page # x
      <4>1. ASSUME NEW q \in Pids, cpu.at = "PAGE_FAULT", proc[q] = "running"
            PROVE  mov[q].page # x
        <5>1. mov[q].page \in PagesOf(q)  BY <1>a, <4>1, ServedMov
        <5> QED BY <2>2, <4>1, <5>1, <1>d
      <4> QED BY <4>1
    <3> QED BY <2>1, <2>2, <3>1, <3>2, <3>3 DEF Missing
  <2>7. \A y \in Pages : Missing(y)' => Missing(y)
    BY <2>1 DEF Missing
  <2>8. page'[x] = r /\ \A y \in Pages : y # x => page'[y] = page[y]
    BY <1>b, <2>3, <2>4
  <2>9. Absent'
    BY <1>a, <2>6, <2>7, <2>8 DEF Absent
  <2>10. InHand'  BY <2>1, <2>3 DEF InHand
  <2>11. Resident(frame) = {}  BY <1>a, <2>1 DEF FrameExclusive
  <2>12. \A g : Resident(g)' = IF g = frame THEN Resident(g) \cup {x} ELSE Resident(g)
    BY <2>3, <2>4, <2>5, <2>8 DEF Resident
  <2>13. FrameExclusive'
    <3>1. \A y \in Pages : page[y].P => page[y].frame # frame
      BY <2>11 DEF Resident
    <3> QED BY <1>a, <2>1, <2>4, <2>8, <3>1 DEF FrameExclusive
  <2>14. FramesExact'
    BY <1>a, <2>1, <2>3, <2>12 DEF FramesExact
  <2> QED BY <2>9, <2>10, <2>13, <2>14
<1>25. CASE CopyToRam
  <2>1. /\ at \notin {"map", "recv"} /\ at' \in {"tlb_consistency", "resolved"} /\ at # "save"
        /\ at \in {"copy", "tlb_consistency"} /\ UNCHANGED <<page, frames_usage, frame>>
    BY <1>25 DEF CopyToRam
  <2>2. \A x \in Pages : Missing(x)' => Missing(x)
    BY <1>25 DEF CopyToRam, Missing
  <2>3. Absent'  BY <1>a, <1>c, <2>1, <2>2, AbsentSame
  <2>4. InHand'  BY <1>a, <2>1 DEF InHand
  <2>5. FrameExclusive' /\ FramesExact'  BY <1>a, <1>c, <2>1, FramesSame
  <2> QED BY <2>3, <2>4, <2>5
<1>26. CASE SendConsistencyCheck
  <2>1. /\ at \notin {"map", "recv"} /\ at' \in {"tlb_consistency", "resolved"} /\ at # "save"
        /\ at \in {"copy", "tlb_consistency"} /\ UNCHANGED <<page, frames_usage, frame>>
    BY <1>26 DEF SendConsistencyCheck
  <2>2. \A x \in Pages : Missing(x)' => Missing(x)
    BY <1>26 DEF SendConsistencyCheck, Missing
  <2>3. Absent'  BY <1>a, <1>c, <2>1, <2>2, AbsentSame
  <2>4. InHand'  BY <1>a, <2>1 DEF InHand
  <2>5. FrameExclusive' /\ FramesExact'  BY <1>a, <1>c, <2>1, FramesSame
  <2> QED BY <2>3, <2>4, <2>5
<1>27. CASE PageFaultResolved
  <2>1. at = "resolved" /\ at' = "recv" /\ UNCHANGED <<page, frames_usage>>
    BY <1>27 DEF PageFaultResolved
  <2>2. \A x \in Pages : Missing(x)' => Missing(x)
    BY <1>27, <1>b DEF PageFaultResolved, Move, Missing
  <2>3. Absent'  BY <1>a, <1>c, <2>1, <2>2, AbsentSame
  <2>4. InHand'  BY <2>1 DEF InHand
  <2>5. FrameExclusive' /\ FramesExact'  BY <1>a, <1>c, <2>1, FramesSame
  <2> QED BY <2>3, <2>4, <2>5
<1> QED
  BY <1>1, <1>2, <1>3, <1>4, <1>5, <1>6, <1>7, <1>8, <1>9, <1>10, <1>11, <1>12, <1>13, <1>14,
     <1>15, <1>16, <1>17, <1>18, <1>19, <1>20, <1>21, <1>22, <1>23, <1>24, <1>25, <1>26, <1>27
     DEF Next, Kernel, Process, Cpu, HandleCpu, HandleKernel

(* The state of both threads keeps its shape; in particular the clock      *)
(* always points at a page of page_tables (TypeOK).                        *)
THEOREM TypeCorrect == Spec => []TypeOK
<1>1. FrameInv => TypeOK  BY DEF FrameInv
<1> QED BY InitInv, FrameNext, <1>1, PTL DEF Spec

(* No frame is ever in use by two pages, and the one the main thread is    *)
(* about to map is nobody's, for every layout and number of frames.        *)
THEOREM OneOwner == Spec => []FrameExclusive
<1>1. FrameInv => FrameExclusive  BY DEF FrameInv
<1> QED BY InitInv, FrameNext, <1>1, PTL DEF Spec

(* The list of used frames is exact: no frame is lost by a process that    *)
(* ends or a fault that is resolved, and none is given twice.              *)
THEOREM NoFrameLost == Spec => []FramesExact
<1>1. FrameInv => FramesExact  BY DEF FrameInv
<1> QED BY InitInv, FrameNext, <1>1, PTL DEF Spec
=============================================================================
