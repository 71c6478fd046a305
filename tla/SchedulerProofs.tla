--------------------------- MODULE SchedulerProofs ---------------------------
(***************************************************************************)
(* Theorems about Scheduler, for any processes, devices, thread pool,      *)
(* algorithm and degree of multiprogramming; the last one is that it       *)
(* implements ProcessStates.                                               *)
(***************************************************************************)
EXTENDS Scheduler, FiniteSetTheorems, TLAPS

-----------------------------------------------------------------------------
(* The elements of a queue after queue_push and queue_pop.                 *)

LEMMA AppendElements ==
  ASSUME NEW S, NEW s \in Seq(S), NEW e \in S
  PROVE  /\ Append(s, e) \in Seq(S)
         /\ ToSet(Append(s, e)) = ToSet(s) \cup {e}
         /\ IsInjective(s) /\ e \notin ToSet(s) => IsInjective(Append(s, e))
<1> DEFINE t == Append(s, e)
<1>1. /\ t \in Seq(S) /\ DOMAIN s = 1..Len(s) /\ DOMAIN t = 1..(Len(s) + 1)
      /\ Len(s) \in Nat /\ t[Len(s) + 1] = e
      /\ \A i \in 1..Len(s) : t[i] = s[i]
  OBVIOUS
<1>2. ToSet(t) = ToSet(s) \cup {e}
  BY <1>1, SMT DEF ToSet
<1>3. ASSUME IsInjective(s), e \notin ToSet(s) PROVE IsInjective(t)
  BY <1>1, <1>3, SMT DEF ToSet, IsInjective
<1> QED BY <1>1, <1>2, <1>3

LEMMA TailElements ==
  ASSUME NEW S, NEW s \in Seq(S), s # << >>
  PROVE  /\ Tail(s) \in Seq(S)
         /\ Head(s) \in S /\ Head(s) \in ToSet(s)
         /\ IsInjective(s) => /\ ToSet(Tail(s)) = ToSet(s) \ {Head(s)}
                              /\ IsInjective(Tail(s))
<1> DEFINE t == Tail(s)
<1>1. /\ t \in Seq(S) /\ DOMAIN s = 1..Len(s) /\ DOMAIN t = 1..(Len(s) - 1)
      /\ Len(s) \in Nat \ {0} /\ Head(s) = s[1]
      /\ \A i \in 1..(Len(s) - 1) : t[i] = s[i + 1]
  OBVIOUS
<1>2. Head(s) \in S /\ Head(s) \in ToSet(s)
  BY <1>1, SMT DEF ToSet
<1>3. ASSUME IsInjective(s) PROVE ToSet(t) = ToSet(s) \ {s[1]}
  <2>1. ASSUME NEW x \in ToSet(t) PROVE x \in ToSet(s) \ {s[1]}
    <3>1. PICK i \in 1..(Len(s) - 1) : x = t[i]  BY <1>1, <2>1 DEF ToSet
    <3>2. x = s[i + 1] /\ i + 1 \in 1..Len(s) /\ 1 \in 1..Len(s) /\ i + 1 # 1
      BY <1>1, <3>1
    <3> QED BY <1>1, <1>3, <3>2 DEF ToSet, IsInjective
  <2>2. ASSUME NEW x \in ToSet(s) \ {s[1]} PROVE x \in ToSet(t)
    <3>1. PICK i \in 1..Len(s) : x = s[i]  BY <1>1, <2>2 DEF ToSet
    <3>2. i - 1 \in 1..(Len(s) - 1) /\ t[i - 1] = s[i]  BY <1>1, <2>2, <3>1
    <3> QED BY <1>1, <3>1, <3>2 DEF ToSet
  <2> QED BY <2>1, <2>2
<1>4. ASSUME IsInjective(s) PROVE IsInjective(t)
  BY <1>1, <1>4, SMT DEF IsInjective
<1> QED BY <1>1, <1>2, <1>3, <1>4

LEMMA EmptyElements ==
  ASSUME NEW S, NEW s \in Seq(S)
  PROVE  /\ ToSet(<< >>) = {} /\ IsInjective(<< >>)
         /\ ToSet(s) \subseteq S
         /\ ToSet(s) = {} => s = << >>
<1>1. DOMAIN s = 1..Len(s) /\ Len(s) \in Nat /\ \A i \in 1..Len(s) : s[i] \in S
  OBVIOUS
<1>2. ToSet(<< >>) = {} /\ IsInjective(<< >>)
  BY DEF ToSet, IsInjective
<1>3. ToSet(s) \subseteq S  BY <1>1 DEF ToSet
<1>4. ASSUME s # << >> PROVE ToSet(s) # {}
  <2>1. 1 \in DOMAIN s  BY <1>1, <1>4
  <2> QED BY <2>1 DEF ToSet
<1> QED BY <1>2, <1>3, <1>4

(* A queue without duplicates is as long as the set of its elements.       *)
LEMMA InjectiveLength ==
  ASSUME NEW S, NEW s \in Seq(S), IsInjective(s)
  PROVE  IsFiniteSet(ToSet(s)) /\ Cardinality(ToSet(s)) = Len(s)
<1>1. Len(s) \in Nat /\ s \in [1..Len(s) -> S] /\ DOMAIN s = 1..Len(s)
  OBVIOUS
<1>2. IsFiniteSet(1..Len(s)) /\ Cardinality(1..Len(s)) = Len(s)
  BY <1>1, FS_Interval
<1>3. s \in Bijection(1..Len(s), ToSet(s))
  <2>1. s \in [1..Len(s) -> ToSet(s)]  BY <1>1 DEF ToSet
  <2>2. \A x \in ToSet(s) : \E i \in 1..Len(s) : s[i] = x  BY <1>1 DEF ToSet
  <2> QED BY <1>1, <2>1, <2>2 DEF Bijection, Injection, Surjection, IsInjective
<1>4. ExistsBijection(1..Len(s), ToSet(s))  BY <1>3 DEF ExistsBijection
<1> QED BY <1>2, <1>4, FS_Bijection

-----------------------------------------------------------------------------
(* Type correctness, and what a thread holds at each of its labels: the    *)
(* bookkeeping every other proof starts from.                              *)

Holds(t) ==
  \/ pc[t] \in {"push", "log_push", "recv_pcb"}
  \/ t = "main" /\ pc[t] = "check"

Shape ==
  /\ pc["main"] \in {"idle", "check", "push", "post"}
  /\ \A t \in Wakers \ {"sched"} : pc[t] \in {"idle", "push"} \cup LogSteps
  /\ \A t \in Threads : hold[t] # NoPcb <=> Holds(t)

TypeInv == Types /\ Shape

LEMMA TypeInit == Init => TypeInv
BY SchedulerAssumption DEF Init, TypeInv, Types, Shape, Holds, Labels, LogSteps,
   Threads, Kernel, Wakers, Shared, Queues

(* A thread that pushes a pcb keeps the queues well formed, and so does    *)
(* one that pops a queue that is not empty.                                *)
LEMMA QueueTypes ==
  ASSUME Types, NEW q \in Queues
  PROVE  /\ \A p \in Pids : Push(q, p) => queue' \in [Queues -> Seq(Pids)]
         /\ queue[q] # << >> => /\ Head(queue[q]) \in Pids
                                /\ Pop(q) => queue' \in [Queues -> Seq(Pids)]
<1>1. queue \in [Queues -> Seq(Pids)] /\ queue[q] \in Seq(Pids)  BY DEF Types
<1>2. ASSUME NEW p \in Pids, Push(q, p) PROVE queue' \in [Queues -> Seq(Pids)]
  <2>1. Append(queue[q], p) \in Seq(Pids)  BY <1>1, AppendElements
  <2> QED BY <1>1, <1>2, <2>1 DEF Push
<1>3. ASSUME queue[q] # << >>
      PROVE  /\ Head(queue[q]) \in Pids
             /\ Pop(q) => queue' \in [Queues -> Seq(Pids)]
  <2>1. Tail(queue[q]) \in Seq(Pids) /\ Head(queue[q]) \in Pids
    BY <1>1, <1>3, TailElements
  <2> QED BY <1>1, <2>1 DEF Pop
<1> QED BY <1>2, <1>3

LEMMA BurstsType ==
  ASSUME Types, NEW p \in Pids, Unfinished(p)
  PROVE  bursts' \in [Pids -> 0..MaxBursts]
<1>1. MaxBursts \in Nat /\ bursts \in [Pids -> 0..MaxBursts] /\ bursts[p] + 1 \in 0..MaxBursts
  BY SchedulerAssumption DEF Types, Unfinished
<1> QED BY <1>1 DEF Unfinished

LEMMA TypeNext == TypeInv /\ [Next]_vars => TypeInv'
<1> SUFFICES ASSUME TypeInv, [Next]_vars PROVE TypeInv'
  OBVIOUS
<1> USE SchedulerAssumption
<1> USE DEF TypeInv, Goto, Take, Release, Crash, Received, processes
<1>a. /\ {"main", "sched", "page_fault"} \subseteq Threads
      /\ Devices \subseteq Wakers \ {"sched"} /\ IoThreads \subseteq Wakers \ {"sched"}
      /\ {"sched", "page_fault"} \subseteq Wakers
      /\ Wakers \subseteq Threads /\ "main" \notin Wakers
      /\ \A t \in Threads : t \in Wakers \/ t = "main"
  BY DEF Threads, Kernel, Wakers
<1>b. /\ Shared \subseteq Queues /\ Devices \subseteq Queues /\ "faults" \in Queues
      /\ "ready_1" \in Shared /\ "ready_2" \in Shared /\ "new" \in Shared
  BY DEF Queues, Shared
<1>1. ASSUME NEW p \in Pids, CreateProcess(p) PROVE TypeInv'
  <2>3. Types'  BY <1>a, <1>b, <1>1 DEF CreateProcess, Types, Labels, LogSteps
  <2>4. Shape'  BY <1>a, <1>1 DEF CreateProcess, Types, Shape, Holds, LogSteps
  <2> QED BY <2>3, <2>4
<1>2. ASSUME NewStateCheck PROVE TypeInv'
  <2>3. Types'  BY <1>a, <1>b, <1>2 DEF NewStateCheck, Types, Labels, LogSteps
  <2>4. Shape'  BY <1>a, <1>2 DEF NewStateCheck, Types, Shape, Holds, LogSteps
  <2> QED BY <2>3, <2>4
<1>3. ASSUME NewStatePush PROVE TypeInv'
  <2>1. qn["main"] \in Queues /\ hold["main"] \in Pids
    BY <1>a, <1>b, <1>3 DEF NewStatePush, Types, Shape, Holds
  <2>2. queue' \in [Queues -> Seq(Pids)]
    BY <1>3, <2>1, QueueTypes DEF NewStatePush
  <2>3. Types'  BY <1>a, <1>b, <1>3, <2>2 DEF NewStatePush, Types, Labels, LogSteps
  <2>4. Shape'  BY <1>a, <1>3, <2>2 DEF NewStatePush, Types, Shape, Holds, LogSteps
  <2> QED BY <2>3, <2>4
<1>4. ASSUME Post("main") PROVE TypeInv'
  <2>3. Types'  BY <1>a, <1>b, <1>4 DEF Post, Types, Labels, LogSteps
  <2>4. Shape'  BY <1>a, <1>4 DEF Post, Types, Shape, Holds, LogSteps
  <2> QED BY <2>3, <2>4
<1>5. ASSUME NEW t \in Wakers, ReadyPush(t) PROVE TypeInv'
  <2>1. ReadyQueue(t) \in Queues /\ hold[t] \in Pids
    BY <1>a, <1>b, <1>5 DEF ReadyPush, Types, Shape, Holds, ReadyQueue
  <2>2. queue' \in [Queues -> Seq(Pids)]
    BY <1>5, <2>1, QueueTypes DEF ReadyPush
  <2>3. Types'  BY <1>a, <1>b, <1>5, <2>2 DEF ReadyPush, Types, Labels, LogSteps, ReadyQueue
  <2>4. Shape'  BY <1>a, <1>5, <2>2 DEF ReadyPush, Types, Shape, Holds, LogSteps
  <2> QED BY <2>3, <2>4
<1>6. ASSUME NEW t \in Wakers, LogMore(t) PROVE TypeInv'
  <2>3. Types'  BY <1>a, <1>b, <1>6 DEF LogMore, Types, Labels, LogSteps
  <2>4. Shape'  BY <1>a, <1>6 DEF LogMore, Types, Shape, Holds, LogSteps
  <2> QED BY <2>3, <2>4
<1>7. ASSUME NEW t \in Wakers, LogEnd(t) PROVE TypeInv'
  <2>5. /\ hold' = hold /\ pc[t] = "log_check" /\ pc'[t] \in LogSteps
        /\ \A u \in Threads \ {t} : pc'[u] = pc[u]
        /\ pc'[t] # "log_push"
    BY <1>a, <1>7 DEF LogEnd, Types, LogSteps
  <2>6. \A u \in Threads : Holds(u)' <=> Holds(u)  BY <1>a, <2>5 DEF Holds, LogSteps
  <2>3. Types'  BY <1>a, <1>b, <1>7 DEF LogEnd, Types, Labels, LogSteps
  <2>4. Shape'  BY <1>a, <2>5, <2>6 DEF Shape, Wakers, LogSteps
  <2> QED BY <2>3, <2>4
<1>8. ASSUME NEW t \in Wakers, LogPop(t) PROVE TypeInv'
  <2>1. qn[t] \in Queues  BY <1>a, <1>b, <1>8 DEF Types
  <2>2. queue' \in [Queues -> Seq(Pids)] /\ Head(queue[qn[t]]) \in Pids
    BY <1>8, <2>1, QueueTypes DEF LogPop
  <2>3. Types'  BY <1>a, <1>b, <1>8, <2>2 DEF LogPop, Types, Labels, LogSteps
  <2>4. Shape'  BY <1>a, <1>8, <2>2 DEF LogPop, Types, Shape, Holds, LogSteps
  <2> QED BY <2>3, <2>4
<1>9. ASSUME NEW t \in Wakers, LogPush(t) PROVE TypeInv'
  <2>1. qn[t] \in Queues /\ hold[t] \in Pids
    BY <1>a, <1>b, <1>9 DEF LogPush, Types, Shape, Holds
  <2>2. queue' \in [Queues -> Seq(Pids)]
    BY <1>9, <2>1, QueueTypes DEF LogPush
  <2>5. idx' \in [Threads -> Nat]  BY <1>a, <1>9 DEF LogPush, Types
  <2>3. Types'  BY <1>a, <1>b, <1>9, <2>2, <2>5 DEF LogPush, Types, Labels, LogSteps
  <2>4. Shape'  BY <1>a, <1>9, <2>2 DEF LogPush, Types, Shape, Holds, LogSteps
  <2> QED BY <2>3, <2>4
<1>10. ASSUME NEW t \in Wakers, Post(t) PROVE TypeInv'
  <2>3. Types'  BY <1>a, <1>b, <1>10 DEF Post, Types, Labels, LogSteps
  <2>4. Shape'  BY <1>a, <1>10 DEF Post, Types, Shape, Holds, LogSteps
  <2> QED BY <2>3, <2>4
<1>11. ASSUME SemWait PROVE TypeInv'
  <2>3. Types'  BY <1>a, <1>b, <1>11 DEF SemWait, Types, Labels, LogSteps
  <2>4. Shape'  BY <1>a, <1>11 DEF SemWait, Types, Shape, Holds, LogSteps
  <2> QED BY <2>3, <2>4
<1>12. ASSUME CheckFound PROVE TypeInv'
  <2>3. Types'  BY <1>a, <1>b, <1>12 DEF CheckFound, Types, Labels, LogSteps
  <2>4. Shape'  BY <1>a, <1>12 DEF CheckFound, Types, Shape, Holds, LogSteps
  <2> QED BY <2>3, <2>4
<1>13. ASSUME CheckNext PROVE TypeInv'
  <2>3. Types'  BY <1>a, <1>b, <1>13 DEF CheckNext, Types, Labels, LogSteps, NextQueue
  <2>4. Shape'  BY <1>a, <1>13 DEF CheckNext, Types, Shape, Holds, LogSteps
  <2> QED BY <2>3, <2>4
<1>14. ASSUME CheckNoPcb PROVE TypeInv'
  <2>3. Types'  BY <1>a, <1>b, <1>14 DEF CheckNoPcb, Types, Labels, LogSteps
  <2>4. Shape'  BY <1>a, <1>14 DEF CheckNoPcb, Types, Shape, Holds, LogSteps
  <2> QED BY <2>3, <2>4
<1>15. ASSUME Dispatch PROVE TypeInv'
  <2>1. qn["sched"] \in Queues  BY <1>a, <1>b, <1>15 DEF Types
  <2>2. queue' \in [Queues -> Seq(Pids)] /\ Head(queue[qn["sched"]]) \in Pids
    BY <1>15, <2>1, QueueTypes DEF Dispatch
  <2>3. Types'  BY <1>a, <1>b, <1>15, <2>2 DEF Dispatch, Types, Labels, LogSteps
  <2>4. Shape'  BY <1>a, <1>15, <2>2 DEF Dispatch, Types, Shape, Holds, LogSteps
  <2> QED BY <2>3, <2>4
<1>16. ASSUME NEW t \in Threads, PopEmpty(t) PROVE TypeInv'
  <2>3. Types'  BY <1>a, <1>b, <1>16 DEF PopEmpty, Types, Labels, LogSteps
  <2>4. Shape'  BY <1>a, <1>16 DEF PopEmpty, Types, Shape, Holds, LogSteps
  <2> QED BY <2>3, <2>4
<1>17. ASSUME RecvFinished PROVE TypeInv'
  <2>2. hold["sched"] \in Pids  BY <1>a, <1>17 DEF RecvFinished, Types, Shape, Holds
  <2>3. Types'  BY <1>a, <1>b, <1>17, <2>2 DEF RecvFinished, Types, Labels, LogSteps
  <2>4. Shape'  BY <1>a, <1>17, <2>2 DEF RecvFinished, Types, Shape, Holds, LogSteps
  <2> QED BY <2>3, <2>4
<1>18. ASSUME RecvSegFault PROVE TypeInv'
  <2>2. hold["sched"] \in Pids  BY <1>a, <1>18 DEF RecvSegFault, Types, Shape, Holds
  <2>3. Types'  BY <1>a, <1>b, <1>18, <2>2 DEF RecvSegFault, Types, Labels, LogSteps
  <2>4. Shape'  BY <1>a, <1>18, <2>2 DEF RecvSegFault, Types, Shape, Holds, LogSteps
  <2> QED BY <2>3, <2>4
<1>19. ASSUME RecvQuantum PROVE TypeInv'
  <2>2. hold["sched"] \in Pids  BY <1>a, <1>19 DEF RecvQuantum, Types, Shape, Holds
  <2>5. bursts' \in [Pids -> 0..MaxBursts]
    BY <1>19, <2>2, BurstsType DEF RecvQuantum, Push
  <2>3. Types'  BY <1>a, <1>b, <1>19, <2>2, <2>5 DEF RecvQuantum, Types, Labels, LogSteps
  <2>4. Shape'  BY <1>a, <1>19, <2>2 DEF RecvQuantum, Types, Shape, Holds, LogSteps
  <2> QED BY <2>3, <2>4
<1>20. ASSUME NEW d \in Devices, RecvIo(d) PROVE TypeInv'
  <2>1. d \in Queues /\ hold["sched"] \in Pids
    BY <1>a, <1>b, <1>20 DEF RecvIo, Types, Shape, Holds
  <2>2. queue' \in [Queues -> Seq(Pids)]
    BY <1>20, <2>1, QueueTypes DEF RecvIo
  <2>5. bursts' \in [Pids -> 0..MaxBursts]
    BY <1>20, <2>2, BurstsType DEF RecvIo, Push
  <2>3. Types'  BY <1>a, <1>b, <1>20, <2>2, <2>5 DEF RecvIo, Types, Labels, LogSteps
  <2>4. Shape'  BY <1>a, <1>20, <2>2 DEF RecvIo, Types, Shape, Holds, LogSteps
  <2> QED BY <2>3, <2>4
<1>21. ASSUME NEW t \in IoThreads, RecvConsola(t) PROVE TypeInv'
  <2>2. hold["sched"] \in Pids  BY <1>a, <1>21 DEF RecvConsola, Types, Shape, Holds
  <2>5. bursts' \in [Pids -> 0..MaxBursts]
    BY <1>21, <2>2, BurstsType DEF RecvConsola, Push
  <2>6. /\ t \in Threads /\ t # "sched" /\ t # "main" /\ pc'[t] = "push" /\ pc'["sched"] = "idle"
        /\ hold'[t] # NoPcb /\ hold'["sched"] = NoPcb
        /\ \A u \in Threads \ {t, "sched"} : pc'[u] = pc[u] /\ hold'[u] = hold[u]
    BY <1>a, <1>21, <2>2 DEF RecvConsola, Types
  <2>3. Types'  BY <1>a, <1>b, <1>21, <2>2, <2>5 DEF RecvConsola, Types, Labels, LogSteps
  <2>4. Shape'  BY <1>a, <2>6 DEF Shape, Holds, LogSteps
  <2> QED BY <2>3, <2>4
<1>22. ASSUME RecvPageFault PROVE TypeInv'
  <2>1. "faults" \in Queues /\ hold["sched"] \in Pids
    BY <1>a, <1>b, <1>22 DEF RecvPageFault, Types, Shape, Holds
  <2>2. queue' \in [Queues -> Seq(Pids)]
    BY <1>22, <2>1, QueueTypes DEF RecvPageFault
  <2>5. bursts' \in [Pids -> 0..MaxBursts]
    BY <1>22, <2>2, BurstsType DEF RecvPageFault, Push
  <2>3. Types'  BY <1>a, <1>b, <1>22, <2>2, <2>5 DEF RecvPageFault, Types, Labels, LogSteps
  <2>4. Shape'  BY <1>a, <1>22, <2>2 DEF RecvPageFault, Types, Shape, Holds, LogSteps
  <2> QED BY <2>3, <2>4
<1>23. ASSUME NEW d \in Devices, IoTake(d) PROVE TypeInv'
  <2>1. d \in Queues  BY <1>a, <1>b, <1>23 DEF Types
  <2>2. queue' \in [Queues -> Seq(Pids)] /\ Head(queue[d]) \in Pids
    BY <1>23, <2>1, QueueTypes DEF IoTake
  <2>3. Types'  BY <1>a, <1>b, <1>23, <2>2 DEF IoTake, Types, Labels, LogSteps
  <2>4. Shape'  BY <1>a, <1>23, <2>2 DEF IoTake, Types, Shape, Holds, LogSteps
  <2> QED BY <2>3, <2>4
<1>24. ASSUME PageFaultResolved PROVE TypeInv'
  <2>1. "faults" \in Queues  BY <1>a, <1>b, <1>24 DEF Types
  <2>2. queue' \in [Queues -> Seq(Pids)] /\ Head(queue["faults"]) \in Pids
    BY <1>24, <2>1, QueueTypes DEF PageFaultResolved
  <2>3. Types'  BY <1>a, <1>b, <1>24, <2>2 DEF PageFaultResolved, Types, Labels, LogSteps
  <2>4. Shape'  BY <1>a, <1>24, <2>2 DEF PageFaultResolved, Types, Shape, Holds, LogSteps
  <2> QED BY <2>3, <2>4
<1>25. ASSUME UNCHANGED vars PROVE TypeInv'
  BY <1>25 DEF vars, Types, Shape, Holds
<1> QED
  BY <1>1, <1>2, <1>3, <1>4, <1>5, <1>6, <1>7, <1>8, <1>9, <1>10, <1>11, <1>12,
     <1>13, <1>14, <1>15, <1>16, <1>17, <1>18, <1>19, <1>20, <1>21, <1>22, <1>23, <1>24, <1>25
     DEF Next, Main, Sched, Receive, ReadyState

-----------------------------------------------------------------------------
(* A process is in one place.  A step leaves the places alone, or takes    *)
(* one process from the hands of a thread to a queue, from a queue to the  *)
(* hands of a thread, or from one thread to another.                       *)

PlaceInv == TypeInv /\ OnePlace

(* What it says of a process to be in a place.                             *)
LEMMA Places ==
  ASSUME NEW p
  PROVE  /\ \A q : <<"queue", q>> \in At(p) <=> q \in Queues /\ p \in ToSet(queue[q])
         /\ \A t : <<"hold", t>> \in At(p) <=> t \in Threads /\ hold[t] = p
         /\ \A x \in At(p) : \/ \E q \in Queues : x = <<"queue", q>>
                            \/ \E t \in Threads : x = <<"hold", t>>
BY DEF At

(* A process a thread holds is in no queue and in no other hands, and one  *)
(* in a queue is in no other queue and in nobody's hands.                  *)
LEMMA Alone ==
  ASSUME OnePlace, NEW p \in Pids
  PROVE  /\ \A t \in Threads : hold[t] = p =>
              /\ Running(p) /\ At(p) = {<<"hold", t>>}
              /\ \A q \in Queues : p \notin ToSet(queue[q])
              /\ \A u \in Threads : hold[u] = p => u = t
         /\ \A q \in Queues : p \in ToSet(queue[q]) =>
              /\ Running(p) /\ At(p) = {<<"queue", q>>}
              /\ \A r \in Queues : p \in ToSet(queue[r]) => r = q
              /\ \A t \in Threads : hold[t] # p
<1>1. IF Running(p) THEN \E x \in At(p) : At(p) = {x} ELSE At(p) = {}
  BY DEF OnePlace
<1>2. ASSUME NEW t \in Threads, hold[t] = p
      PROVE  /\ Running(p) /\ At(p) = {<<"hold", t>>}
             /\ \A q \in Queues : p \notin ToSet(queue[q])
             /\ \A u \in Threads : hold[u] = p => u = t
  <2>1. <<"hold", t>> \in At(p)  BY <1>2, Places
  <2>2. Running(p) /\ At(p) = {<<"hold", t>>}  BY <1>1, <2>1
  <2>3. ASSUME NEW q \in Queues, p \in ToSet(queue[q]) PROVE FALSE
    <3>1. <<"queue", q>> \in At(p)  BY <2>3, Places
    <3>2. <<"queue", q>> # <<"hold", t>>  OBVIOUS
    <3> QED BY <2>2, <3>1, <3>2
  <2>4. ASSUME NEW u \in Threads, hold[u] = p PROVE u = t
    <3>1. <<"hold", u>> \in At(p)  BY <2>4, Places
    <3> QED BY <2>2, <3>1
  <2> QED BY <2>2, <2>3, <2>4
<1>3. ASSUME NEW q \in Queues, p \in ToSet(queue[q])
      PROVE  /\ Running(p) /\ At(p) = {<<"queue", q>>}
             /\ \A r \in Queues : p \in ToSet(queue[r]) => r = q
             /\ \A t \in Threads : hold[t] # p
  <2>1. <<"queue", q>> \in At(p)  BY <1>3, Places
  <2>2. Running(p) /\ At(p) = {<<"queue", q>>}  BY <1>1, <2>1
  <2>3. ASSUME NEW r \in Queues, p \in ToSet(queue[r]) PROVE r = q
    <3>1. <<"queue", r>> \in At(p)  BY <2>3, Places
    <3> QED BY <2>2, <3>1
  <2>4. ASSUME NEW t \in Threads PROVE hold[t] # p  BY <1>2, <1>3
  <2> QED BY <2>2, <2>3, <2>4
<1> QED BY <1>2, <1>3

LEMMA Pushed ==
  ASSUME Types, NEW q \in Queues, NEW p \in Pids, Push(q, p),
         \A r \in Queues : IsInjective(queue[r]), p \notin ToSet(queue[q])
  PROVE  /\ \A r \in Queues : IsInjective(queue'[r])
         /\ ToSet(queue'[q]) = ToSet(queue[q]) \cup {p}
         /\ \A r \in Queues \ {q} : queue'[r] = queue[r]
<1>1. queue[q] \in Seq(Pids)  BY DEF Types
<1>2. queue'[q] = Append(queue[q], p) /\ \A r \in Queues \ {q} : queue'[r] = queue[r]
  BY DEF Push, Types
<1>3. IsInjective(queue'[q]) /\ ToSet(queue'[q]) = ToSet(queue[q]) \cup {p}
  BY <1>1, <1>2, AppendElements
<1> QED BY <1>2, <1>3

LEMMA Popped ==
  ASSUME Types, NEW q \in Queues, queue[q] # << >>, Pop(q),
         \A r \in Queues : IsInjective(queue[r])
  PROVE  /\ \A r \in Queues : IsInjective(queue'[r])
         /\ Head(queue[q]) \in Pids /\ Head(queue[q]) \in ToSet(queue[q])
         /\ ToSet(queue'[q]) = ToSet(queue[q]) \ {Head(queue[q])}
         /\ \A r \in Queues \ {q} : queue'[r] = queue[r]
<1>1. queue[q] \in Seq(Pids)  BY DEF Types
<1>2. queue'[q] = Tail(queue[q]) /\ \A r \in Queues \ {q} : queue'[r] = queue[r]
  BY DEF Pop, Types
<1>3. /\ IsInjective(queue'[q]) /\ ToSet(queue'[q]) = ToSet(queue[q]) \ {Head(queue[q])}
      /\ Head(queue[q]) \in Pids /\ Head(queue[q]) \in ToSet(queue[q])
  BY <1>1, <1>2, TailElements
<1> QED BY <1>2, <1>3

(* The common end of every move: one process changed its place.            *)
LEMMA Moved ==
  ASSUME OnePlace, consola' = consola, NEW p \in Pids, Running(p), NEW x,
         At(p)' = {x}, \A r \in Pids \ {p} : At(r)' = At(r),
         \A q \in Queues : IsInjective(queue'[q])
  PROVE  OnePlace'
<1>1. \A r \in Pids : Running(r)' <=> Running(r)  BY DEF Running
<1>2. ASSUME NEW r \in Pids
      PROVE  IF Running(r)' THEN \E y \in At(r)' : At(r)' = {y} ELSE At(r)' = {}
  BY <1>1 DEF OnePlace
<1> QED BY <1>2 DEF OnePlace

LEMMA HandToQueue ==
  ASSUME PlaceInv, consola' = consola, NEW t \in Threads, hold[t] \in Pids,
         Release(t), NEW q \in Queues, Push(q, hold[t])
  PROVE  OnePlace'
<1>p. PICK p \in Pids : p = hold[t]  OBVIOUS
<1>1. Types /\ OnePlace /\ NoPcb \notin Pids
  BY SchedulerAssumption DEF PlaceInv, TypeInv
<1>2. /\ Running(p) /\ \A r \in Queues : p \notin ToSet(queue[r])
      /\ \A u \in Threads : hold[u] = p => u = t
  BY <1>1, <1>p, Alone
<1>3. /\ \A r \in Queues : IsInjective(queue'[r])
      /\ ToSet(queue'[q]) = ToSet(queue[q]) \cup {p}
      /\ \A r \in Queues \ {q} : queue'[r] = queue[r]
  <2>1. \A r \in Queues : IsInjective(queue[r])  BY <1>1 DEF OnePlace
  <2> QED BY <1>1, <1>2, <1>p, <2>1, Pushed
<1>4. hold'[t] = NoPcb /\ \A u \in Threads \ {t} : hold'[u] = hold[u]
  BY <1>1 DEF Release, Types
<1>5. At(p)' = {<<"queue", q>>}
  <2>1. \A r \in Queues : p \in ToSet(queue'[r]) <=> r = q  BY <1>2, <1>3
  <2>2. \A u \in Threads : hold'[u] # p  BY <1>p, <1>1, <1>2, <1>4
  <2> QED BY <2>1, <2>2 DEF At
<1>6. ASSUME NEW r \in Pids \ {p} PROVE At(r)' = At(r)
  <2>1. \A s \in Queues : r \in ToSet(queue'[s]) <=> r \in ToSet(queue[s])  BY <1>3
  <2>2. \A u \in Threads : hold'[u] = r <=> hold[u] = r  BY <1>p, <1>1, <1>4
  <2> QED BY <2>1, <2>2 DEF At
<1> QED BY <1>1, <1>2, <1>3, <1>5, <1>6, Moved

LEMMA QueueToHand ==
  ASSUME PlaceInv, consola' = consola, NEW t \in Threads, hold[t] = NoPcb,
         NEW q \in Queues, queue[q] # << >>, Take(t, Head(queue[q])), Pop(q)
  PROVE  OnePlace'
<1>1. Types /\ OnePlace /\ NoPcb \notin Pids
  BY SchedulerAssumption DEF PlaceInv, TypeInv
<1>a. Head(queue[q]) \in Pids  BY <1>1, TailElements DEF Types
<1>p. PICK p \in Pids : p = Head(queue[q])  BY <1>a
<1>2. /\ \A r \in Queues : IsInjective(queue'[r])
      /\ p \in Pids /\ p \in ToSet(queue[q])
      /\ ToSet(queue'[q]) = ToSet(queue[q]) \ {p}
      /\ \A r \in Queues \ {q} : queue'[r] = queue[r]
  <2>1. \A r \in Queues : IsInjective(queue[r])  BY <1>1 DEF OnePlace
  <2> QED BY <1>1, <1>p, <2>1, Popped
<1>3. /\ Running(p) /\ \A r \in Queues : p \in ToSet(queue[r]) => r = q
      /\ \A u \in Threads : hold[u] # p
  BY <1>1, <1>2, Alone
<1>4. hold'[t] = p /\ \A u \in Threads \ {t} : hold'[u] = hold[u]
  BY <1>1, <1>p DEF Take, Types
<1>5. At(p)' = {<<"hold", t>>}
  <2>1. \A r \in Queues : p \notin ToSet(queue'[r])  BY <1>2, <1>3
  <2>2. \A u \in Threads : hold'[u] = p <=> u = t  BY <1>3, <1>4
  <2> QED BY <2>1, <2>2 DEF At
<1>6. ASSUME NEW r \in Pids \ {p} PROVE At(r)' = At(r)
  <2>1. \A s \in Queues : r \in ToSet(queue'[s]) <=> r \in ToSet(queue[s])  BY <1>2
  <2>2. \A u \in Threads : hold'[u] = r <=> hold[u] = r  BY <1>1, <1>4
  <2> QED BY <2>1, <2>2 DEF At
<1> QED BY <1>1, <1>2, <1>3, <1>5, <1>6, Moved

LEMMA PlaceInit == Init => PlaceInv
<1> SUFFICES ASSUME Init PROVE OnePlace
  BY TypeInit DEF PlaceInv
<1>1. \A q \in Queues : queue[q] = << >>  BY DEF Init
<1>2. ToSet(<< >>) = {} /\ IsInjective(<< >>)  BY DEF ToSet, IsInjective
<1>3. \A p \in Pids : ~Running(p) /\ \A t \in Threads : hold[t] # p
  BY SchedulerAssumption DEF Init, Running
<1>4. \A p \in Pids : At(p) = {}  BY <1>1, <1>2, <1>3 DEF At
<1> QED BY <1>1, <1>2, <1>3, <1>4 DEF OnePlace

(* A step that touches neither the queues nor the hands.                   *)
LEMMA NothingMoves ==
  ASSUME OnePlace, UNCHANGED <<queue, hold, consola>>
  PROVE  OnePlace'
BY DEF OnePlace, At, Running

(* The process of a thread that lets go of it is nowhere any more.         *)
LEMMA Ends ==
  ASSUME PlaceInv, NEW t \in Threads, hold[t] \in Pids, Release(t), queue' = queue,
         NEW c \in {"PROCESS_FINISHED", "SEG_FAULT"},
         consola' = [consola EXCEPT ![hold[t]] = c]
  PROVE  OnePlace'
<1>p. PICK p \in Pids : p = hold[t]  OBVIOUS
<1>1. Types /\ OnePlace /\ NoPcb \notin Pids
  BY SchedulerAssumption DEF PlaceInv, TypeInv
<1>2. /\ \A q \in Queues : p \notin ToSet(queue[q])
      /\ \A u \in Threads : hold[u] = p => u = t
  BY <1>1, <1>p, Alone
<1>3. hold'[t] = NoPcb /\ \A u \in Threads \ {t} : hold'[u] = hold[u]
  BY <1>1 DEF Release, Types
<1>4. ~Running(p)' /\ \A r \in Pids \ {p} : Running(r)' <=> Running(r)
  BY <1>p, <1>1 DEF Running, Types
<1>5. At(p)' = {}
  <2>1. \A u \in Threads : hold'[u] # p  BY <1>p, <1>1, <1>2, <1>3
  <2> QED BY <1>2, <2>1 DEF At
<1>6. ASSUME NEW r \in Pids \ {p} PROVE At(r)' = At(r)
  <2>1. \A u \in Threads : hold'[u] = r <=> hold[u] = r  BY <1>p, <1>1, <1>3
  <2> QED BY <2>1 DEF At
<1>7. ASSUME NEW r \in Pids
      PROVE  IF Running(r)' THEN \E x \in At(r)' : At(r)' = {x} ELSE At(r)' = {}
  BY <1>1, <1>4, <1>5, <1>6 DEF OnePlace
<1> QED BY <1>1, <1>7 DEF OnePlace

LEMMA Begins ==
  ASSUME PlaceInv, NEW p \in Pids, CreateProcess(p)
  PROVE  OnePlace'
<1>1. /\ Types /\ OnePlace /\ NoPcb \notin Pids /\ "main" \in Threads
      /\ hold["main"] = NoPcb /\ ~Running(p)
  BY SchedulerAssumption DEF PlaceInv, TypeInv, Shape, Holds, CreateProcess, Running,
     Threads, Kernel
<1>2. At(p) = {}  BY <1>1 DEF OnePlace
<1>3. queue' = queue /\ hold'["main"] = p /\ \A u \in Threads \ {"main"} : hold'[u] = hold[u]
  BY <1>1 DEF CreateProcess, Take, Types
<1>4. Running(p)' /\ \A r \in Pids \ {p} : Running(r)' <=> Running(r)
  BY <1>1 DEF CreateProcess, Running, Types
<1>5. At(p)' = {<<"hold", "main">>}
  <2>1. /\ \A q \in Queues : p \notin ToSet(queue[q])
        /\ \A u \in Threads : hold[u] # p
    BY <1>2, Places
  <2>2. \A u \in Threads : hold'[u] = p <=> u = "main"  BY <1>3, <2>1
  <2> QED BY <1>1, <1>3, <2>1, <2>2 DEF At
<1>6. ASSUME NEW r \in Pids \ {p} PROVE At(r)' = At(r)
  <2>1. \A u \in Threads : hold'[u] = r <=> hold[u] = r  BY <1>1, <1>3
  <2> QED BY <1>3, <2>1 DEF At
<1>7. ASSUME NEW r \in Pids
      PROVE  IF Running(r)' THEN \E x \in At(r)' : At(r)' = {x} ELSE At(r)' = {}
  BY <1>1, <1>4, <1>5, <1>6 DEF OnePlace
<1> QED BY <1>1, <1>3, <1>7 DEF OnePlace

LEMMA HandToHand ==
  ASSUME PlaceInv, NEW t \in IoThreads, RecvConsola(t)
  PROVE  OnePlace'
<1>1. /\ Types /\ OnePlace /\ NoPcb \notin Pids
      /\ t \in Threads /\ "sched" \in Threads /\ t # "sched" /\ t # "main"
  BY SchedulerAssumption DEF PlaceInv, TypeInv, Threads, Kernel
<1>a. hold["sched"] \in Pids /\ hold[t] = NoPcb
  BY <1>1 DEF PlaceInv, TypeInv, Types, Shape, Holds, RecvConsola, Received
<1>p. PICK p \in Pids : p = hold["sched"]  BY <1>a
<1>2. /\ Running(p) /\ \A q \in Queues : p \notin ToSet(queue[q])
      /\ \A u \in Threads : hold[u] = p => u = "sched"
  BY <1>1, <1>p, Alone
<1>3. /\ queue' = queue /\ consola' = consola /\ hold'[t] = p /\ hold'["sched"] = NoPcb
      /\ \A u \in Threads \ {t, "sched"} : hold'[u] = hold[u]
  BY <1>1, <1>p DEF RecvConsola, Types
<1>5. At(p)' = {<<"hold", t>>}
  <2>1. \A u \in Threads : hold'[u] = p <=> u = t  BY <1>1, <1>2, <1>3
  <2> QED BY <1>1, <1>2, <1>3, <2>1 DEF At
<1>6. ASSUME NEW r \in Pids \ {p} PROVE At(r)' = At(r)
  <2>1. \A u \in Threads : hold'[u] = r <=> hold[u] = r  BY <1>a, <1>p, <1>1, <1>3
  <2> QED BY <1>3, <2>1 DEF At
<1>7. \A q \in Queues : IsInjective(queue'[q])  BY <1>1, <1>3 DEF OnePlace
<1> QED BY <1>1, <1>2, <1>3, <1>5, <1>6, <1>7, Moved

LEMMA PlaceNext == PlaceInv /\ [Next]_vars => PlaceInv'
<1> SUFFICES ASSUME PlaceInv, [Next]_vars PROVE OnePlace'
  BY TypeNext DEF PlaceInv
<1>a. /\ {"main", "sched", "page_fault"} \subseteq Threads /\ Wakers \subseteq Threads
      /\ Devices \subseteq Threads \ {"main", "sched"}
      /\ Shared \subseteq Queues /\ Devices \subseteq Queues /\ "faults" \in Queues
      /\ "ready_1" \in Shared /\ "ready_2" \in Shared
  BY SchedulerAssumption DEF Threads, Kernel, Wakers, Queues, Shared
<1>b. Types /\ Shape /\ OnePlace  BY DEF PlaceInv, TypeInv
<1>1. ASSUME NEW p \in Pids, CreateProcess(p) PROVE OnePlace'
  BY <1>1, Begins
<1>2. ASSUME NewStateCheck PROVE OnePlace'
  BY <1>b, <1>2, NothingMoves DEF NewStateCheck, processes
<1>3. ASSUME NewStatePush PROVE OnePlace'
  <2>1. "main" \in Threads /\ qn["main"] \in Queues /\ hold["main"] \in Pids /\ consola' = consola
    BY <1>a, <1>b, <1>3 DEF NewStatePush, Types, Shape, Holds, processes, Received, Push
  <2> QED BY <1>3, <2>1, HandToQueue DEF NewStatePush
<1>4. ASSUME Post("main") PROVE OnePlace'
  BY <1>b, <1>4, NothingMoves DEF Post, processes
<1>5. ASSUME NEW t \in Wakers, ReadyPush(t) PROVE OnePlace'
  <2>1. t \in Threads /\ ReadyQueue(t) \in Queues /\ hold[t] \in Pids /\ consola' = consola
    BY <1>a, <1>b, <1>5 DEF ReadyPush, Types, Shape, Holds, processes, Received, Push, ReadyQueue
  <2> QED BY <1>5, <2>1, HandToQueue DEF ReadyPush
<1>6. ASSUME NEW t \in Wakers, LogMore(t) PROVE OnePlace'
  BY <1>b, <1>6, NothingMoves DEF LogMore, processes
<1>7. ASSUME NEW t \in Wakers, LogEnd(t) PROVE OnePlace'
  BY <1>b, <1>7, NothingMoves DEF LogEnd, processes
<1>8. ASSUME NEW t \in Wakers, LogPop(t) PROVE OnePlace'
  <2>1. /\ t \in Threads /\ qn[t] \in Queues /\ hold[t] = NoPcb
        /\ queue[qn[t]] # << >> /\ consola' = consola
    BY <1>a, <1>b, <1>8 DEF LogPop, Types, Shape, Holds, processes, Wakers
  <2> QED BY <1>8, <2>1, QueueToHand DEF LogPop
<1>9. ASSUME NEW t \in Wakers, LogPush(t) PROVE OnePlace'
  <2>1. t \in Threads /\ qn[t] \in Queues /\ hold[t] \in Pids /\ consola' = consola
    BY <1>a, <1>b, <1>9 DEF LogPush, Types, Shape, Holds, processes, Received, Push
  <2> QED BY <1>9, <2>1, HandToQueue DEF LogPush
<1>10. ASSUME NEW t \in Wakers, Post(t) PROVE OnePlace'
  BY <1>b, <1>10, NothingMoves DEF Post, processes
<1>11. ASSUME SemWait PROVE OnePlace'
  BY <1>b, <1>11, NothingMoves DEF SemWait, processes
<1>12. ASSUME CheckFound PROVE OnePlace'
  BY <1>b, <1>12, NothingMoves DEF CheckFound, processes
<1>13. ASSUME CheckNext PROVE OnePlace'
  BY <1>b, <1>13, NothingMoves DEF CheckNext, processes
<1>14. ASSUME CheckNoPcb PROVE OnePlace'
  BY <1>b, <1>14, NothingMoves DEF CheckNoPcb, processes
<1>15. ASSUME Dispatch PROVE OnePlace'
  <2>1. /\ "sched" \in Threads /\ qn["sched"] \in Queues /\ hold["sched"] = NoPcb
        /\ queue[qn["sched"]] # << >> /\ consola' = consola
    BY <1>a, <1>b, <1>15 DEF Dispatch, Types, Shape, Holds, processes, Wakers
  <2> QED BY <1>15, <2>1, QueueToHand DEF Dispatch
<1>16. ASSUME NEW t \in Threads, PopEmpty(t) PROVE OnePlace'
  BY <1>b, <1>16, NothingMoves DEF PopEmpty, processes
<1>17. ASSUME RecvFinished PROVE OnePlace'
  <2>1. hold["sched"] \in Pids  BY <1>a, <1>b, <1>17 DEF RecvFinished, Types, Shape, Holds, Received
  <2> QED BY <1>a, <1>17, <2>1, Ends DEF RecvFinished
<1>18. ASSUME RecvSegFault PROVE OnePlace'
  <2>1. hold["sched"] \in Pids  BY <1>a, <1>b, <1>18 DEF RecvSegFault, Types, Shape, Holds, Received
  <2> QED BY <1>a, <1>18, <2>1, Ends DEF RecvSegFault
<1>19. ASSUME RecvQuantum PROVE OnePlace'
  BY <1>b, <1>19, NothingMoves DEF RecvQuantum, processes
<1>20. ASSUME NEW d \in Devices, RecvIo(d) PROVE OnePlace'
  <2>1. "sched" \in Threads /\ d \in Queues /\ hold["sched"] \in Pids /\ consola' = consola
    BY <1>a, <1>b, <1>20 DEF RecvIo, Types, Shape, Holds, processes, Received, Push
  <2> QED BY <1>20, <2>1, HandToQueue DEF RecvIo
<1>21. ASSUME NEW t \in IoThreads, RecvConsola(t) PROVE OnePlace'
  BY <1>21, HandToHand
<1>22. ASSUME RecvPageFault PROVE OnePlace'
  <2>1. "sched" \in Threads /\ "faults" \in Queues /\ hold["sched"] \in Pids /\ consola' = consola
    BY <1>a, <1>b, <1>22 DEF RecvPageFault, Types, Shape, Holds, processes, Received, Push
  <2> QED BY <1>22, <2>1, HandToQueue DEF RecvPageFault
<1>23. ASSUME NEW d \in Devices, IoTake(d) PROVE OnePlace'
  <2>1. /\ d \in Threads /\ d \in Queues /\ hold[d] = NoPcb
        /\ queue[d] # << >> /\ consola' = consola
    BY <1>a, <1>b, <1>23 DEF IoTake, Types, Shape, Holds, processes, Wakers
  <2> QED BY <1>23, <2>1, QueueToHand DEF IoTake
<1>24. ASSUME PageFaultResolved PROVE OnePlace'
  <2>1. /\ "page_fault" \in Threads /\ "faults" \in Queues /\ hold["page_fault"] = NoPcb
        /\ queue["faults"] # << >> /\ consola' = consola
    BY <1>a, <1>b, <1>24 DEF PageFaultResolved, Types, Shape, Holds, processes, Wakers
  <2> QED BY <1>24, <2>1, QueueToHand DEF PageFaultResolved
<1>25. ASSUME UNCHANGED vars PROVE OnePlace'
  BY <1>b, <1>25, NothingMoves DEF vars
<1> QED
  BY <1>1, <1>2, <1>3, <1>4, <1>5, <1>6, <1>7, <1>8, <1>9, <1>10, <1>11, <1>12,
     <1>13, <1>14, <1>15, <1>16, <1>17, <1>18, <1>19, <1>20, <1>21, <1>22, <1>23, <1>24, <1>25
     DEF Next, Main, Sched, Receive, ReadyState

(* No interleaving of the threads, of their pushes and pops and of the     *)
(* rotations of log_ready loses a process or duplicates it (OnePlace).     *)
THEOREM NeverLost == Spec => []OnePlace
<1>1. PlaceInv => OnePlace  BY DEF PlaceInv
<1> QED BY PlaceInit, PlaceNext, <1>1, PTL DEF Spec

-----------------------------------------------------------------------------
(* The semaphore counts the processes that wait.  Each step changes at     *)
(* most one element of Waiting and one of Unposted.                        *)

PermitInv == PlaceInv /\ PermitsMatch

LEMMA PermitInit == Init => PermitInv
<1> SUFFICES ASSUME Init PROVE PermitsMatch
  BY PlaceInit DEF PermitInv
<1>1. \A q \in Shared : ToSet(queue[q]) = {}
  BY DEF Init, Shared, Queues, ToSet
<1>2. Waiting = {}  BY <1>1 DEF Init, Waiting, Queued, Printed
<1>3. Unposted = {} /\ Seeking = 0
  BY DEF Init, Unposted, Seeking, LogSteps, Threads, Kernel
<1> QED BY <1>2, <1>3, FS_EmptySet DEF PermitsMatch, Init

LEMMA Finite ==
  /\ IsFiniteSet(Waiting) /\ Cardinality(Waiting) \in Nat
  /\ IsFiniteSet(Unposted) /\ Cardinality(Unposted) \in Nat
  /\ IsFiniteSet(Threads)
<1>1. IsFiniteSet(Pids) /\ IsFiniteSet(Devices) /\ IsFiniteSet(IoThreads)
  BY SchedulerAssumption
<1>2. IsFiniteSet(Threads)
  <2>1. IsFiniteSet({}) /\ {} \cup {"main"} \cup {"sched"} \cup {"page_fault"} = Kernel
    BY FS_EmptySet DEF Kernel
  <2>2. IsFiniteSet({} \cup {"main"})  BY <2>1, FS_AddElement
  <2>3. IsFiniteSet({} \cup {"main"} \cup {"sched"})  BY <2>2, FS_AddElement
  <2>4. IsFiniteSet(Kernel)  BY <2>1, <2>3, FS_AddElement
  <2>5. IsFiniteSet(Kernel \cup Devices)  BY <1>1, <2>4, FS_Union
  <2> QED BY <1>1, <2>5, FS_Union DEF Threads
<1>3. Waiting \in SUBSET Pids /\ Unposted \in SUBSET Threads
  BY DEF Waiting, Unposted
<1>4. IsFiniteSet(Waiting) /\ IsFiniteSet(Unposted)
  BY <1>1, <1>2, <1>3, FS_Subset
<1> QED BY <1>2, <1>4, FS_CardinalityType

LEMMA SeekingType == Seeking \in {0, 1}
BY DEF Seeking

(* A step that leaves the three quantities alone.                          *)
LEMMA CountSame ==
  ASSUME PermitsMatch, Waiting' = Waiting, Unposted' = Unposted, Seeking' = Seeking,
         can_execute' = can_execute
  PROVE  PermitsMatch'
BY DEF PermitsMatch

(* A process is queued, and its sem_post is still to come.                 *)
LEMMA CountQueued ==
  ASSUME PermitsMatch, Types, NEW p, p \notin Waiting, Waiting' = Waiting \cup {p},
         NEW t, t \notin Unposted, Unposted' = Unposted \cup {t},
         Seeking' = Seeking, can_execute' = can_execute
  PROVE  PermitsMatch'
<1>1. /\ Cardinality(Waiting') = Cardinality(Waiting) + 1
      /\ Cardinality(Unposted') = Cardinality(Unposted) + 1
  BY Finite, FS_AddElement
<1> QED BY <1>1, Finite, SeekingType DEF PermitsMatch, Types

(* sem_post.                                                               *)
LEMMA CountPosted ==
  ASSUME PermitsMatch, Types, Waiting' = Waiting,
         NEW t, t \in Unposted, Unposted' = Unposted \ {t},
         Seeking' = Seeking, can_execute' = can_execute + 1
  PROVE  PermitsMatch'
<1>1. Cardinality(Unposted') = Cardinality(Unposted) - 1
  BY Finite, FS_RemoveElement
<1> QED BY <1>1, Finite, SeekingType DEF PermitsMatch, Types

(* The scheduler takes a process for the permit it has.                    *)
LEMMA CountTaken ==
  ASSUME PermitsMatch, Types, NEW p, p \in Waiting, Waiting' = Waiting \ {p},
         Unposted' = Unposted, Seeking = 1, Seeking' = 0, can_execute' = can_execute
  PROVE  PermitsMatch'
<1>1. Cardinality(Waiting') = Cardinality(Waiting) - 1
  BY Finite, FS_RemoveElement
<1> QED BY <1>1, Finite DEF PermitsMatch, Types

(* The threads that move are not printing, before or after.                *)
LEMMA WaitingSame ==
  ASSUME \A q \in Shared : queue'[q] = queue[q],
         \A u \in Threads : (hold'[u] = hold[u] /\ pc'[u] = pc[u]) \/
                            (pc[u] # "log_push" /\ pc'[u] # "log_push")
  PROVE  Waiting' = Waiting
<1>1. ASSUME NEW p \in Pids PROVE Queued(p)' <=> Queued(p)  BY DEF Queued
<1>2. ASSUME NEW p \in Pids PROVE Printed(p)' <=> Printed(p)  BY DEF Printed
<1> QED BY <1>1, <1>2 DEF Waiting

LEMMA UnpostedSame ==
  ASSUME \A u \in Threads : pc[u] \in LogSteps <=> pc'[u] \in LogSteps
  PROVE  Unposted' = Unposted
BY DEF Unposted

LEMMA PermitNext == PermitInv /\ [Next]_vars => PermitInv'
<1> SUFFICES ASSUME PermitInv, [Next]_vars PROVE PermitsMatch'
  BY PlaceNext DEF PermitInv
<1>a. /\ {"main", "sched", "page_fault"} \subseteq Threads /\ Wakers \subseteq Threads
      /\ Devices \subseteq Threads \ {"main", "sched"}
      /\ IoThreads \subseteq Threads \ {"main", "sched"}
      /\ Shared \subseteq Queues /\ Devices \subseteq Queues \ Shared
      /\ "faults" \in Queues \ Shared /\ "main" \notin Wakers /\ NoPcb \notin Pids
  BY SchedulerAssumption DEF Threads, Kernel, Wakers, Queues, Shared
<1>b. Types /\ Shape /\ OnePlace /\ PermitsMatch  BY DEF PermitInv, PlaceInv, TypeInv
<1> USE DEF Goto, Take, Release, Crash, Received, processes
<1>1. ASSUME NEW p \in Pids, CreateProcess(p) PROVE PermitsMatch'
  <2>1. /\ {"main"} \subseteq Threads /\ can_execute' = can_execute
        /\ \A q \in Shared : queue'[q] = queue[q]
        /\ \A u \in Threads \ {"main"} : pc'[u] = pc[u] /\ hold'[u] = hold[u]
    BY <1>a, <1>b, <1>1 DEF CreateProcess, Types
  <2>2. /\ \A u \in {"main"} : pc[u] # "log_push" /\ pc'[u] # "log_push"
        /\ \A u \in {"main"} : pc[u] \in LogSteps <=> pc'[u] \in LogSteps
    BY <1>a, <1>b, <1>1, <2>1 DEF CreateProcess, Types, LogSteps
  <2>3. Waiting' = Waiting
    <3>1. \A u \in Threads : (hold'[u] = hold[u] /\ pc'[u] = pc[u]) \/
                            (pc[u] # "log_push" /\ pc'[u] # "log_push")
      BY <2>1, <2>2
    <3> QED BY <2>1, <3>1, WaitingSame
  <2>4. Unposted' = Unposted
    <3>1. \A u \in Threads : pc[u] \in LogSteps <=> pc'[u] \in LogSteps
      BY <2>1, <2>2
    <3> QED BY <3>1, UnpostedSame
  <2>5. Seeking' = Seeking  BY <1>a, <1>b, <1>1, <2>1 DEF CreateProcess, Seeking, Types
  <2> QED BY <1>b, <2>1, <2>3, <2>4, <2>5, CountSame
<1>2. ASSUME NewStateCheck PROVE PermitsMatch'
  <2>1. /\ {"main"} \subseteq Threads /\ can_execute' = can_execute
        /\ \A q \in Shared : queue'[q] = queue[q]
        /\ \A u \in Threads \ {"main"} : pc'[u] = pc[u] /\ hold'[u] = hold[u]
    BY <1>a, <1>b, <1>2 DEF NewStateCheck, Types
  <2>2. /\ \A u \in {"main"} : pc[u] # "log_push" /\ pc'[u] # "log_push"
        /\ \A u \in {"main"} : pc[u] \in LogSteps <=> pc'[u] \in LogSteps
    BY <1>a, <1>b, <1>2, <2>1 DEF NewStateCheck, Types, LogSteps
  <2>3. Waiting' = Waiting
    <3>1. \A u \in Threads : (hold'[u] = hold[u] /\ pc'[u] = pc[u]) \/
                            (pc[u] # "log_push" /\ pc'[u] # "log_push")
      BY <2>1, <2>2
    <3> QED BY <2>1, <3>1, WaitingSame
  <2>4. Unposted' = Unposted
    <3>1. \A u \in Threads : pc[u] \in LogSteps <=> pc'[u] \in LogSteps
      BY <2>1, <2>2
    <3> QED BY <3>1, UnpostedSame
  <2>5. Seeking' = Seeking  BY <1>a, <1>b, <1>2, <2>1 DEF NewStateCheck, Seeking, Types
  <2> QED BY <1>b, <2>1, <2>3, <2>4, <2>5, CountSame
<1>3. ASSUME NewStatePush PROVE PermitsMatch'
  <2>0. PICK p \in Pids : p = hold["main"]
    BY <1>a, <1>b, <1>3 DEF NewStatePush, Types, Shape, Holds
  <2>1. "main" \in Threads /\ qn["main"] \in Shared /\ can_execute' = can_execute
    BY <1>a, <1>b, <1>3 DEF NewStatePush, Types
  <2>2. /\ pc["main"] = "push" /\ pc'["main"] \in LogSteps \ {"log_push"}
        /\ \A u \in Threads \ {"main"} : pc'[u] = pc[u] /\ hold'[u] = hold[u]
    BY <1>a, <1>b, <1>3, <2>1 DEF NewStatePush, Types, LogSteps
  <2>3. p \notin Waiting
    <3>1. ~Queued(p) /\ \A u \in Threads : hold[u] = p => u = "main"
      BY <1>a, <1>b, <2>0, <2>1, Alone DEF Queued
    <3> QED BY <2>2, <3>1 DEF Waiting, Printed
  <2>4. Waiting' = Waiting \cup {p}
    <3>1. \A r \in Queues : IsInjective(queue[r]) /\ p \notin ToSet(queue[r])
      BY <1>a, <1>b, <2>0, <2>1, Alone DEF OnePlace
    <3>2. /\ ToSet(queue'[qn["main"]]) = ToSet(queue[qn["main"]]) \cup {p}
          /\ \A r \in Queues \ {qn["main"]} : queue'[r] = queue[r]
      BY <1>a, <1>b, <1>3, <2>0, <2>1, <3>1, Pushed DEF NewStatePush
    <3>3. \A r \in Pids : Queued(r)' <=> Queued(r) \/ r = p
      BY <1>a, <2>1, <3>2 DEF Queued
    <3>4. \A r \in Pids : Printed(r)' <=> Printed(r)  BY <2>2 DEF Printed, LogSteps
    <3> QED BY <3>3, <3>4 DEF Waiting
  <2>5. "main" \notin Unposted /\ Unposted' = Unposted \cup {"main"}
    BY <2>1, <2>2 DEF Unposted, LogSteps
  <2>6. Seeking' = Seeking  BY <1>a, <2>2 DEF Seeking, LogSteps
  <2> QED BY <1>b, <2>1, <2>3, <2>4, <2>5, <2>6, CountQueued
<1>4. ASSUME Post("main") PROVE PermitsMatch'
  <2>1. /\ "main" \in Threads /\ queue' = queue /\ hold' = hold
        /\ can_execute' = can_execute + 1 /\ pc["main"] = "post" /\ pc'["main"] = "idle"
        /\ \A u \in Threads \ {"main"} : pc'[u] = pc[u]
    BY <1>a, <1>b, <1>4 DEF Post, Types
  <2>2. Waiting' = Waiting
    <3>1. \A u \in Threads : (hold'[u] = hold[u] /\ pc'[u] = pc[u]) \/
                            (pc[u] # "log_push" /\ pc'[u] # "log_push")
      BY <2>1
    <3> QED BY <2>1, <3>1, WaitingSame
  <2>3. "main" \in Unposted /\ Unposted' = Unposted \ {"main"}
    BY <2>1 DEF Unposted, LogSteps
  <2>4. Seeking' = Seeking  BY <1>a, <2>1 DEF Seeking
  <2> QED BY <1>b, <2>1, <2>2, <2>3, <2>4, CountPosted
<1>5. ASSUME NEW t \in Wakers, ReadyPush(t) PROVE PermitsMatch'
  <2>0. PICK p \in Pids : p = hold[t]
    BY <1>a, <1>b, <1>5 DEF ReadyPush, Types, Shape, Holds
  <2>1. t \in Threads /\ ReadyQueue(t) \in Shared /\ can_execute' = can_execute
    BY <1>a, <1>b, <1>5 DEF ReadyPush, Types, ReadyQueue, Shared
  <2>2. /\ pc[t] = "push" /\ pc'[t] \in LogSteps \ {"log_push"}
        /\ \A u \in Threads \ {t} : pc'[u] = pc[u] /\ hold'[u] = hold[u]
    BY <1>a, <1>b, <1>5, <2>1 DEF ReadyPush, Types, LogSteps
  <2>3. p \notin Waiting
    <3>1. ~Queued(p) /\ \A u \in Threads : hold[u] = p => u = t
      BY <1>a, <1>b, <2>0, <2>1, Alone DEF Queued
    <3> QED BY <2>2, <3>1 DEF Waiting, Printed
  <2>4. Waiting' = Waiting \cup {p}
    <3>1. \A r \in Queues : IsInjective(queue[r]) /\ p \notin ToSet(queue[r])
      BY <1>a, <1>b, <2>0, <2>1, Alone DEF OnePlace
    <3>2. /\ ToSet(queue'[ReadyQueue(t)]) = ToSet(queue[ReadyQueue(t)]) \cup {p}
          /\ \A r \in Queues \ {ReadyQueue(t)} : queue'[r] = queue[r]
      BY <1>a, <1>b, <1>5, <2>0, <2>1, <3>1, Pushed DEF ReadyPush
    <3>3. \A r \in Pids : Queued(r)' <=> Queued(r) \/ r = p
      BY <1>a, <2>1, <3>2 DEF Queued
    <3>4. \A r \in Pids : Printed(r)' <=> Printed(r)  BY <2>2 DEF Printed, LogSteps
    <3> QED BY <3>3, <3>4 DEF Waiting
  <2>5. t \notin Unposted /\ Unposted' = Unposted \cup {t}
    BY <2>1, <2>2 DEF Unposted, LogSteps
  <2>6. Seeking' = Seeking  BY <1>a, <2>2 DEF Seeking, LogSteps
  <2> QED BY <1>b, <2>1, <2>3, <2>4, <2>5, <2>6, CountQueued
<1>6. ASSUME NEW t \in Wakers, LogMore(t) PROVE PermitsMatch'
  <2>1. /\ {t} \subseteq Threads /\ can_execute' = can_execute
        /\ \A q \in Shared : queue'[q] = queue[q]
        /\ \A u \in Threads \ {t} : pc'[u] = pc[u] /\ hold'[u] = hold[u]
    BY <1>a, <1>b, <1>6 DEF LogMore, Types
  <2>2. /\ \A u \in {t} : pc[u] # "log_push" /\ pc'[u] # "log_push"
        /\ \A u \in {t} : pc[u] \in LogSteps <=> pc'[u] \in LogSteps
    BY <1>a, <1>b, <1>6, <2>1 DEF LogMore, Types, LogSteps
  <2>3. Waiting' = Waiting
    <3>1. \A u \in Threads : (hold'[u] = hold[u] /\ pc'[u] = pc[u]) \/
                            (pc[u] # "log_push" /\ pc'[u] # "log_push")
      BY <2>1, <2>2
    <3> QED BY <2>1, <3>1, WaitingSame
  <2>4. Unposted' = Unposted
    <3>1. \A u \in Threads : pc[u] \in LogSteps <=> pc'[u] \in LogSteps
      BY <2>1, <2>2
    <3> QED BY <3>1, UnpostedSame
  <2>5. Seeking' = Seeking  BY <1>a, <1>b, <1>6, <2>1 DEF LogMore, Seeking, Types
  <2> QED BY <1>b, <2>1, <2>3, <2>4, <2>5, CountSame
<1>7. ASSUME NEW t \in Wakers, LogEnd(t) PROVE PermitsMatch'
  <2>1. /\ {t} \subseteq Threads /\ can_execute' = can_execute
        /\ \A q \in Shared : queue'[q] = queue[q]
        /\ \A u \in Threads \ {t} : pc'[u] = pc[u] /\ hold'[u] = hold[u]
    BY <1>a, <1>b, <1>7 DEF LogEnd, Types
  <2>2. /\ \A u \in {t} : pc[u] # "log_push" /\ pc'[u] # "log_push"
        /\ \A u \in {t} : pc[u] \in LogSteps <=> pc'[u] \in LogSteps
    BY <1>a, <1>b, <1>7, <2>1 DEF LogEnd, Types, LogSteps
  <2>3. Waiting' = Waiting
    <3>1. \A u \in Threads : (hold'[u] = hold[u] /\ pc'[u] = pc[u]) \/
                            (pc[u] # "log_push" /\ pc'[u] # "log_push")
      BY <2>1, <2>2
    <3> QED BY <2>1, <3>1, WaitingSame
  <2>4. Unposted' = Unposted
    <3>1. \A u \in Threads : pc[u] \in LogSteps <=> pc'[u] \in LogSteps
      BY <2>1, <2>2
    <3> QED BY <3>1, UnpostedSame
  <2>5. Seeking' = Seeking  BY <1>a, <1>b, <1>7, <2>1 DEF LogEnd, Seeking, Types
  <2> QED BY <1>b, <2>1, <2>3, <2>4, <2>5, CountSame
<1>8. ASSUME NEW t \in Wakers, LogPop(t) PROVE PermitsMatch'
  <2>0. PICK p \in Pids : p = Head(queue[qn[t]])
    <3>1. qn[t] \in Queues /\ queue[qn[t]] # << >>  BY <1>a, <1>b, <1>8 DEF LogPop, Types
    <3> QED BY <1>b, <3>1, TailElements DEF Types
  <2>1. /\ t \in Threads /\ qn[t] \in Shared /\ can_execute' = can_execute
        /\ pc[t] = "log_pop" /\ pc'[t] = "log_push" /\ hold'[t] = p
        /\ \A u \in Threads \ {t} : pc'[u] = pc[u] /\ hold'[u] = hold[u]
    BY <1>a, <1>b, <1>8, <2>0 DEF LogPop, Types
  <2>2. /\ p \in ToSet(queue[qn[t]])
        /\ ToSet(queue'[qn[t]]) = ToSet(queue[qn[t]]) \ {p}
        /\ \A r \in Queues \ {qn[t]} : queue'[r] = queue[r]
    BY <1>a, <1>b, <1>8, <2>0, <2>1, Popped DEF LogPop, OnePlace
  <2>3. /\ \A r \in Queues : p \in ToSet(queue[r]) => r = qn[t]
        /\ \A u \in Threads : hold[u] # p
    BY <1>a, <1>b, <2>0, <2>1, <2>2, Alone
  <2>a. \A r \in Pids : Queued(r) <=> Queued(r)' \/ r = p
    BY <1>a, <2>1, <2>2, <2>3 DEF Queued
  <2>b. ~Queued(p)'
    BY <1>a, <2>1, <2>2, <2>3 DEF Queued
  <2>4. Waiting' = Waiting
    <3>1. hold[t] = NoPcb  BY <1>a, <1>b, <1>8, <2>1 DEF Shape, Holds
    <3>2. \A r \in Pids : Printed(r)' <=> Printed(r) \/ r = p
      BY <1>a, <2>1, <3>1 DEF Printed
    <3> QED BY <2>a, <3>2 DEF Waiting
  <2>5. Unposted' = Unposted  BY <1>a, <2>1, UnpostedSame DEF LogSteps
  <2>6. Seeking' = Seeking  BY <1>a, <2>1 DEF Seeking
  <2> QED BY <1>b, <2>1, <2>4, <2>5, <2>6, CountSame
<1>9. ASSUME NEW t \in Wakers, LogPush(t) PROVE PermitsMatch'
  <2>0. PICK p \in Pids : p = hold[t]
    BY <1>a, <1>b, <1>9 DEF LogPush, Types, Shape, Holds
  <2>1. /\ t \in Threads /\ qn[t] \in Shared /\ can_execute' = can_execute
        /\ pc[t] = "log_push" /\ pc'[t] = "log_check" /\ hold'[t] = NoPcb
        /\ \A u \in Threads \ {t} : pc'[u] = pc[u] /\ hold'[u] = hold[u]
    BY <1>a, <1>b, <1>9, <2>0 DEF LogPush, Types
  <2>2. \A r \in Queues : IsInjective(queue[r]) /\ p \notin ToSet(queue[r])
    BY <1>a, <1>b, <2>0, <2>1, Alone DEF OnePlace
  <2>3. /\ ToSet(queue'[qn[t]]) = ToSet(queue[qn[t]]) \cup {p}
        /\ \A r \in Queues \ {qn[t]} : queue'[r] = queue[r]
    BY <1>a, <1>b, <1>9, <2>0, <2>1, <2>2, Pushed DEF LogPush
  <2>4. Waiting' = Waiting
    <3>1. \A r \in Pids : Queued(r)' <=> Queued(r) \/ r = p
      BY <1>a, <2>1, <2>3 DEF Queued
    <3>2. \A r \in Pids : Printed(r) <=> Printed(r)' \/ r = p
      <4>1. \A u \in Threads : hold[u] = p => u = t  BY <1>a, <1>b, <2>0, <2>1, Alone
      <4> QED BY <2>0, <2>1, <4>1 DEF Printed
    <3>3. Queued(p)' /\ Printed(p)  BY <3>1, <3>2
    <3> QED BY <3>1, <3>2, <3>3 DEF Waiting
  <2>5. Unposted' = Unposted  BY <1>a, <2>1, UnpostedSame DEF LogSteps
  <2>6. Seeking' = Seeking  BY <1>a, <2>1 DEF Seeking
  <2> QED BY <1>b, <2>1, <2>4, <2>5, <2>6, CountSame
<1>10. ASSUME NEW t \in Wakers, Post(t) PROVE PermitsMatch'
  <2>1. /\ t \in Threads /\ queue' = queue /\ hold' = hold
        /\ can_execute' = can_execute + 1 /\ pc[t] = "post" /\ pc'[t] = "idle"
        /\ \A u \in Threads \ {t} : pc'[u] = pc[u]
    BY <1>a, <1>b, <1>10 DEF Post, Types
  <2>2. Waiting' = Waiting
    <3>1. \A u \in Threads : (hold'[u] = hold[u] /\ pc'[u] = pc[u]) \/
                            (pc[u] # "log_push" /\ pc'[u] # "log_push")
      BY <2>1
    <3> QED BY <2>1, <3>1, WaitingSame
  <2>3. t \in Unposted /\ Unposted' = Unposted \ {t}
    BY <2>1 DEF Unposted, LogSteps
  <2>4. Seeking' = Seeking  BY <1>a, <2>1 DEF Seeking
  <2> QED BY <1>b, <2>1, <2>2, <2>3, <2>4, CountPosted
<1>11. ASSUME SemWait PROVE PermitsMatch'
  <2>1. /\ queue' = queue /\ hold' = hold /\ can_execute \in Nat \ {0}
        /\ can_execute' = can_execute - 1 /\ pc["sched"] = "idle" /\ pc'["sched"] = "check"
        /\ \A u \in Threads \ {"sched"} : pc'[u] = pc[u]
    BY <1>a, <1>b, <1>11 DEF SemWait, Types
  <2>2. Waiting' = Waiting
    <3>1. \A u \in Threads : (hold'[u] = hold[u] /\ pc'[u] = pc[u]) \/
                            (pc[u] # "log_push" /\ pc'[u] # "log_push")
      BY <2>1
    <3> QED BY <2>1, <3>1, WaitingSame
  <2>3. Unposted' = Unposted  BY <1>a, <2>1, UnpostedSame DEF LogSteps
  <2>4. Seeking = 0 /\ Seeking' = 1  BY <2>1 DEF Seeking
  <2> QED BY <1>b, <2>1, <2>2, <2>3, <2>4, Finite DEF PermitsMatch
<1>12. ASSUME CheckFound PROVE PermitsMatch'
  <2>1. /\ {"sched"} \subseteq Threads /\ can_execute' = can_execute
        /\ \A q \in Shared : queue'[q] = queue[q]
        /\ \A u \in Threads \ {"sched"} : pc'[u] = pc[u] /\ hold'[u] = hold[u]
    BY <1>a, <1>b, <1>12 DEF CheckFound, Types
  <2>2. /\ \A u \in {"sched"} : pc[u] # "log_push" /\ pc'[u] # "log_push"
        /\ \A u \in {"sched"} : pc[u] \in LogSteps <=> pc'[u] \in LogSteps
    BY <1>a, <1>b, <1>12, <2>1 DEF CheckFound, Types, LogSteps
  <2>3. Waiting' = Waiting
    <3>1. \A u \in Threads : (hold'[u] = hold[u] /\ pc'[u] = pc[u]) \/
                            (pc[u] # "log_push" /\ pc'[u] # "log_push")
      BY <2>1, <2>2
    <3> QED BY <2>1, <3>1, WaitingSame
  <2>4. Unposted' = Unposted
    <3>1. \A u \in Threads : pc[u] \in LogSteps <=> pc'[u] \in LogSteps
      BY <2>1, <2>2
    <3> QED BY <3>1, UnpostedSame
  <2>5. Seeking' = Seeking  BY <1>a, <1>b, <1>12, <2>1 DEF CheckFound, Seeking, Types
  <2> QED BY <1>b, <2>1, <2>3, <2>4, <2>5, CountSame
<1>13. ASSUME CheckNext PROVE PermitsMatch'
  <2>1. /\ {"sched"} \subseteq Threads /\ can_execute' = can_execute
        /\ \A q \in Shared : queue'[q] = queue[q]
        /\ \A u \in Threads \ {"sched"} : pc'[u] = pc[u] /\ hold'[u] = hold[u]
    BY <1>a, <1>b, <1>13 DEF CheckNext, Types
  <2>2. /\ \A u \in {"sched"} : pc[u] # "log_push" /\ pc'[u] # "log_push"
        /\ \A u \in {"sched"} : pc[u] \in LogSteps <=> pc'[u] \in LogSteps
    BY <1>a, <1>b, <1>13, <2>1 DEF CheckNext, Types, LogSteps
  <2>3. Waiting' = Waiting
    <3>1. \A u \in Threads : (hold'[u] = hold[u] /\ pc'[u] = pc[u]) \/
                            (pc[u] # "log_push" /\ pc'[u] # "log_push")
      BY <2>1, <2>2
    <3> QED BY <2>1, <3>1, WaitingSame
  <2>4. Unposted' = Unposted
    <3>1. \A u \in Threads : pc[u] \in LogSteps <=> pc'[u] \in LogSteps
      BY <2>1, <2>2
    <3> QED BY <3>1, UnpostedSame
  <2>5. Seeking' = Seeking  BY <1>a, <1>b, <1>13, <2>1 DEF CheckNext, Seeking, Types
  <2> QED BY <1>b, <2>1, <2>3, <2>4, <2>5, CountSame
<1>14. ASSUME CheckNoPcb PROVE PermitsMatch'
  <2>1. /\ {"sched"} \subseteq Threads /\ can_execute' = can_execute
        /\ \A q \in Shared : queue'[q] = queue[q]
        /\ \A u \in Threads \ {"sched"} : pc'[u] = pc[u] /\ hold'[u] = hold[u]
    BY <1>a, <1>b, <1>14 DEF CheckNoPcb, Types
  <2>2. /\ \A u \in {"sched"} : pc[u] # "log_push" /\ pc'[u] # "log_push"
        /\ \A u \in {"sched"} : pc[u] \in LogSteps <=> pc'[u] \in LogSteps
    BY <1>a, <1>b, <1>14, <2>1 DEF CheckNoPcb, Types, LogSteps
  <2>3. Waiting' = Waiting
    <3>1. \A u \in Threads : (hold'[u] = hold[u] /\ pc'[u] = pc[u]) \/
                            (pc[u] # "log_push" /\ pc'[u] # "log_push")
      BY <2>1, <2>2
    <3> QED BY <2>1, <3>1, WaitingSame
  <2>4. Unposted' = Unposted
    <3>1. \A u \in Threads : pc[u] \in LogSteps <=> pc'[u] \in LogSteps
      BY <2>1, <2>2
    <3> QED BY <3>1, UnpostedSame
  <2>5. Seeking' = Seeking  BY <1>a, <1>b, <1>14, <2>1 DEF CheckNoPcb, Seeking, Types
  <2> QED BY <1>b, <2>1, <2>3, <2>4, <2>5, CountSame
<1>15. ASSUME Dispatch PROVE PermitsMatch'
  <2>0. PICK p \in Pids : p = Head(queue[qn["sched"]])
    <3>1. qn["sched"] \in Queues /\ queue[qn["sched"]] # << >>  BY <1>a, <1>b, <1>15 DEF Dispatch, Types
    <3> QED BY <1>b, <3>1, TailElements DEF Types
  <2>1. /\ "sched" \in Threads /\ qn["sched"] \in Shared /\ can_execute' = can_execute
        /\ pc["sched"] = "pop" /\ pc'["sched"] = "recv_pcb" /\ hold'["sched"] = p
        /\ \A u \in Threads \ {"sched"} : pc'[u] = pc[u] /\ hold'[u] = hold[u]
    BY <1>a, <1>b, <1>15, <2>0 DEF Dispatch, Types
  <2>2. /\ p \in ToSet(queue[qn["sched"]])
        /\ ToSet(queue'[qn["sched"]]) = ToSet(queue[qn["sched"]]) \ {p}
        /\ \A r \in Queues \ {qn["sched"]} : queue'[r] = queue[r]
    BY <1>a, <1>b, <1>15, <2>0, <2>1, Popped DEF Dispatch, OnePlace
  <2>3. /\ \A r \in Queues : p \in ToSet(queue[r]) => r = qn["sched"]
        /\ \A u \in Threads : hold[u] # p
    BY <1>a, <1>b, <2>0, <2>1, <2>2, Alone
  <2>a. \A r \in Pids : Queued(r) <=> Queued(r)' \/ r = p
    BY <1>a, <2>1, <2>2, <2>3 DEF Queued
  <2>b. ~Queued(p)'
    BY <1>a, <2>1, <2>2, <2>3 DEF Queued
  <2>4. p \in Waiting /\ Waiting' = Waiting \ {p}
    <3>1. \A r \in Pids : Printed(r)' <=> Printed(r)  BY <2>1 DEF Printed
    <3>2. ~Printed(p)  BY <2>3 DEF Printed
    <3> QED BY <2>a, <2>b, <3>1, <3>2 DEF Waiting
  <2>5. Unposted' = Unposted  BY <1>a, <2>1, UnpostedSame DEF LogSteps
  <2>6. Seeking = 1 /\ Seeking' = 0  BY <2>1 DEF Seeking
  <2> QED BY <1>b, <2>1, <2>4, <2>5, <2>6, CountTaken
<1>16. ASSUME NEW t \in Threads, PopEmpty(t) PROVE PermitsMatch'
  <2>1. /\ {t} \subseteq Threads /\ can_execute' = can_execute
        /\ \A q \in Shared : queue'[q] = queue[q]
        /\ \A u \in Threads \ {t} : pc'[u] = pc[u] /\ hold'[u] = hold[u]
    BY <1>a, <1>b, <1>16 DEF PopEmpty, Types
  <2>2. /\ \A u \in {t} : pc[u] # "log_push" /\ pc'[u] # "log_push"
        /\ \A u \in {t} : pc[u] \in LogSteps <=> pc'[u] \in LogSteps
    BY <1>a, <1>b, <1>16, <2>1 DEF PopEmpty, Types, LogSteps
  <2>3. Waiting' = Waiting
    <3>1. \A u \in Threads : (hold'[u] = hold[u] /\ pc'[u] = pc[u]) \/
                            (pc[u] # "log_push" /\ pc'[u] # "log_push")
      BY <2>1, <2>2
    <3> QED BY <2>1, <3>1, WaitingSame
  <2>4. Unposted' = Unposted
    <3>1. \A u \in Threads : pc[u] \in LogSteps <=> pc'[u] \in LogSteps
      BY <2>1, <2>2
    <3> QED BY <3>1, UnpostedSame
  <2>5. Seeking' = Seeking  BY <1>a, <1>b, <1>16, <2>1 DEF PopEmpty, Seeking, Types
  <2> QED BY <1>b, <2>1, <2>3, <2>4, <2>5, CountSame
<1>17. ASSUME RecvFinished PROVE PermitsMatch'
  <2>1. /\ {"sched"} \subseteq Threads /\ can_execute' = can_execute
        /\ \A q \in Shared : queue'[q] = queue[q]
        /\ \A u \in Threads \ {"sched"} : pc'[u] = pc[u] /\ hold'[u] = hold[u]
    BY <1>a, <1>b, <1>17 DEF RecvFinished, Types
  <2>2. /\ \A u \in {"sched"} : pc[u] # "log_push" /\ pc'[u] # "log_push"
        /\ \A u \in {"sched"} : pc[u] \in LogSteps <=> pc'[u] \in LogSteps
    BY <1>a, <1>b, <1>17, <2>1 DEF RecvFinished, Types, LogSteps
  <2>3. Waiting' = Waiting
    <3>1. \A u \in Threads : (hold'[u] = hold[u] /\ pc'[u] = pc[u]) \/
                            (pc[u] # "log_push" /\ pc'[u] # "log_push")
      BY <2>1, <2>2
    <3> QED BY <2>1, <3>1, WaitingSame
  <2>4. Unposted' = Unposted
    <3>1. \A u \in Threads : pc[u] \in LogSteps <=> pc'[u] \in LogSteps
      BY <2>1, <2>2
    <3> QED BY <3>1, UnpostedSame
  <2>5. Seeking' = Seeking  BY <1>a, <1>b, <1>17, <2>1 DEF RecvFinished, Seeking, Types
  <2> QED BY <1>b, <2>1, <2>3, <2>4, <2>5, CountSame
<1>18. ASSUME RecvSegFault PROVE PermitsMatch'
  <2>1. /\ {"sched"} \subseteq Threads /\ can_execute' = can_execute
        /\ \A q \in Shared : queue'[q] = queue[q]
        /\ \A u \in Threads \ {"sched"} : pc'[u] = pc[u] /\ hold'[u] = hold[u]
    BY <1>a, <1>b, <1>18 DEF RecvSegFault, Types
  <2>2. /\ \A u \in {"sched"} : pc[u] # "log_push" /\ pc'[u] # "log_push"
        /\ \A u \in {"sched"} : pc[u] \in LogSteps <=> pc'[u] \in LogSteps
    BY <1>a, <1>b, <1>18, <2>1 DEF RecvSegFault, Types, LogSteps
  <2>3. Waiting' = Waiting
    <3>1. \A u \in Threads : (hold'[u] = hold[u] /\ pc'[u] = pc[u]) \/
                            (pc[u] # "log_push" /\ pc'[u] # "log_push")
      BY <2>1, <2>2
    <3> QED BY <2>1, <3>1, WaitingSame
  <2>4. Unposted' = Unposted
    <3>1. \A u \in Threads : pc[u] \in LogSteps <=> pc'[u] \in LogSteps
      BY <2>1, <2>2
    <3> QED BY <3>1, UnpostedSame
  <2>5. Seeking' = Seeking  BY <1>a, <1>b, <1>18, <2>1 DEF RecvSegFault, Seeking, Types
  <2> QED BY <1>b, <2>1, <2>3, <2>4, <2>5, CountSame
<1>19. ASSUME RecvQuantum PROVE PermitsMatch'
  <2>1. /\ {"sched"} \subseteq Threads /\ can_execute' = can_execute
        /\ \A q \in Shared : queue'[q] = queue[q]
        /\ \A u \in Threads \ {"sched"} : pc'[u] = pc[u] /\ hold'[u] = hold[u]
    BY <1>a, <1>b, <1>19 DEF RecvQuantum, Types
  <2>2. /\ \A u \in {"sched"} : pc[u] # "log_push" /\ pc'[u] # "log_push"
        /\ \A u \in {"sched"} : pc[u] \in LogSteps <=> pc'[u] \in LogSteps
    BY <1>a, <1>b, <1>19, <2>1 DEF RecvQuantum, Types, LogSteps
  <2>3. Waiting' = Waiting
    <3>1. \A u \in Threads : (hold'[u] = hold[u] /\ pc'[u] = pc[u]) \/
                            (pc[u] # "log_push" /\ pc'[u] # "log_push")
      BY <2>1, <2>2
    <3> QED BY <2>1, <3>1, WaitingSame
  <2>4. Unposted' = Unposted
    <3>1. \A u \in Threads : pc[u] \in LogSteps <=> pc'[u] \in LogSteps
      BY <2>1, <2>2
    <3> QED BY <3>1, UnpostedSame
  <2>5. Seeking' = Seeking  BY <1>a, <1>b, <1>19, <2>1 DEF RecvQuantum, Seeking, Types
  <2> QED BY <1>b, <2>1, <2>3, <2>4, <2>5, CountSame
<1>20. ASSUME NEW d \in Devices, RecvIo(d) PROVE PermitsMatch'
  <2>1. /\ {"sched"} \subseteq Threads /\ can_execute' = can_execute
        /\ \A q \in Shared : queue'[q] = queue[q]
        /\ \A u \in Threads \ {"sched"} : pc'[u] = pc[u] /\ hold'[u] = hold[u]
    BY <1>a, <1>b, <1>20 DEF RecvIo, Types, Push
  <2>2. /\ \A u \in {"sched"} : pc[u] # "log_push" /\ pc'[u] # "log_push"
        /\ \A u \in {"sched"} : pc[u] \in LogSteps <=> pc'[u] \in LogSteps
    BY <1>a, <1>b, <1>20, <2>1 DEF RecvIo, Types, LogSteps
  <2>3. Waiting' = Waiting
    <3>1. \A u \in Threads : (hold'[u] = hold[u] /\ pc'[u] = pc[u]) \/
                            (pc[u] # "log_push" /\ pc'[u] # "log_push")
      BY <2>1, <2>2
    <3> QED BY <2>1, <3>1, WaitingSame
  <2>4. Unposted' = Unposted
    <3>1. \A u \in Threads : pc[u] \in LogSteps <=> pc'[u] \in LogSteps
      BY <2>1, <2>2
    <3> QED BY <3>1, UnpostedSame
  <2>5. Seeking' = Seeking  BY <1>a, <1>b, <1>20, <2>1 DEF RecvIo, Seeking, Types
  <2> QED BY <1>b, <2>1, <2>3, <2>4, <2>5, CountSame
<1>21. ASSUME NEW t \in IoThreads, RecvConsola(t) PROVE PermitsMatch'
  <2>1. /\ {t, "sched"} \subseteq Threads /\ can_execute' = can_execute
        /\ \A q \in Shared : queue'[q] = queue[q]
        /\ \A u \in Threads \ {t, "sched"} : pc'[u] = pc[u] /\ hold'[u] = hold[u]
    BY <1>a, <1>b, <1>21 DEF RecvConsola, Types
  <2>2. /\ \A u \in {t, "sched"} : pc[u] # "log_push" /\ pc'[u] # "log_push"
        /\ \A u \in {t, "sched"} : pc[u] \in LogSteps <=> pc'[u] \in LogSteps
    BY <1>a, <1>b, <1>21, <2>1 DEF RecvConsola, Types, LogSteps
  <2>3. Waiting' = Waiting
    <3>1. \A u \in Threads : (hold'[u] = hold[u] /\ pc'[u] = pc[u]) \/
                            (pc[u] # "log_push" /\ pc'[u] # "log_push")
      BY <2>1, <2>2
    <3> QED BY <2>1, <3>1, WaitingSame
  <2>4. Unposted' = Unposted
    <3>1. \A u \in Threads : pc[u] \in LogSteps <=> pc'[u] \in LogSteps
      BY <2>1, <2>2
    <3> QED BY <3>1, UnpostedSame
  <2>5. Seeking' = Seeking  BY <1>a, <1>b, <1>21, <2>1 DEF RecvConsola, Seeking, Types
  <2> QED BY <1>b, <2>1, <2>3, <2>4, <2>5, CountSame
<1>22. ASSUME RecvPageFault PROVE PermitsMatch'
  <2>1. /\ {"sched"} \subseteq Threads /\ can_execute' = can_execute
        /\ \A q \in Shared : queue'[q] = queue[q]
        /\ \A u \in Threads \ {"sched"} : pc'[u] = pc[u] /\ hold'[u] = hold[u]
    BY <1>a, <1>b, <1>22 DEF RecvPageFault, Types, Push
  <2>2. /\ \A u \in {"sched"} : pc[u] # "log_push" /\ pc'[u] # "log_push"
        /\ \A u \in {"sched"} : pc[u] \in LogSteps <=> pc'[u] \in LogSteps
    BY <1>a, <1>b, <1>22, <2>1 DEF RecvPageFault, Types, LogSteps
  <2>3. Waiting' = Waiting
    <3>1. \A u \in Threads : (hold'[u] = hold[u] /\ pc'[u] = pc[u]) \/
                            (pc[u] # "log_push" /\ pc'[u] # "log_push")
      BY <2>1, <2>2
    <3> QED BY <2>1, <3>1, WaitingSame
  <2>4. Unposted' = Unposted
    <3>1. \A u \in Threads : pc[u] \in LogSteps <=> pc'[u] \in LogSteps
      BY <2>1, <2>2
    <3> QED BY <3>1, UnpostedSame
  <2>5. Seeking' = Seeking  BY <1>a, <1>b, <1>22, <2>1 DEF RecvPageFault, Seeking, Types
  <2> QED BY <1>b, <2>1, <2>3, <2>4, <2>5, CountSame
<1>23. ASSUME NEW d \in Devices, IoTake(d) PROVE PermitsMatch'
  <2>1. /\ {d} \subseteq Threads /\ can_execute' = can_execute
        /\ \A q \in Shared : queue'[q] = queue[q]
        /\ \A u \in Threads \ {d} : pc'[u] = pc[u] /\ hold'[u] = hold[u]
    BY <1>a, <1>b, <1>23 DEF IoTake, Types, Pop
  <2>2. /\ \A u \in {d} : pc[u] # "log_push" /\ pc'[u] # "log_push"
        /\ \A u \in {d} : pc[u] \in LogSteps <=> pc'[u] \in LogSteps
    BY <1>a, <1>b, <1>23, <2>1 DEF IoTake, Types, LogSteps
  <2>3. Waiting' = Waiting
    <3>1. \A u \in Threads : (hold'[u] = hold[u] /\ pc'[u] = pc[u]) \/
                            (pc[u] # "log_push" /\ pc'[u] # "log_push")
      BY <2>1, <2>2
    <3> QED BY <2>1, <3>1, WaitingSame
  <2>4. Unposted' = Unposted
    <3>1. \A u \in Threads : pc[u] \in LogSteps <=> pc'[u] \in LogSteps
      BY <2>1, <2>2
    <3> QED BY <3>1, UnpostedSame
  <2>5. Seeking' = Seeking  BY <1>a, <1>b, <1>23, <2>1 DEF IoTake, Seeking, Types
  <2> QED BY <1>b, <2>1, <2>3, <2>4, <2>5, CountSame
<1>24. ASSUME PageFaultResolved PROVE PermitsMatch'
  <2>1. /\ {"page_fault"} \subseteq Threads /\ can_execute' = can_execute
        /\ \A q \in Shared : queue'[q] = queue[q]
        /\ \A u \in Threads \ {"page_fault"} : pc'[u] = pc[u] /\ hold'[u] = hold[u]
    BY <1>a, <1>b, <1>24 DEF PageFaultResolved, Types, Pop
  <2>2. /\ \A u \in {"page_fault"} : pc[u] # "log_push" /\ pc'[u] # "log_push"
        /\ \A u \in {"page_fault"} : pc[u] \in LogSteps <=> pc'[u] \in LogSteps
    BY <1>a, <1>b, <1>24, <2>1 DEF PageFaultResolved, Types, LogSteps
  <2>3. Waiting' = Waiting
    <3>1. \A u \in Threads : (hold'[u] = hold[u] /\ pc'[u] = pc[u]) \/
                            (pc[u] # "log_push" /\ pc'[u] # "log_push")
      BY <2>1, <2>2
    <3> QED BY <2>1, <3>1, WaitingSame
  <2>4. Unposted' = Unposted
    <3>1. \A u \in Threads : pc[u] \in LogSteps <=> pc'[u] \in LogSteps
      BY <2>1, <2>2
    <3> QED BY <3>1, UnpostedSame
  <2>5. Seeking' = Seeking  BY <1>a, <1>b, <1>24, <2>1 DEF PageFaultResolved, Seeking, Types
  <2> QED BY <1>b, <2>1, <2>3, <2>4, <2>5, CountSame
<1>25. ASSUME UNCHANGED vars PROVE PermitsMatch'
  BY <1>b, <1>25, CountSame DEF vars, Waiting, Queued, Printed, Unposted, Seeking
<1> QED
  BY <1>1, <1>2, <1>3, <1>4, <1>5, <1>6, <1>7, <1>8, <1>9, <1>10, <1>11, <1>12,
     <1>13, <1>14, <1>15, <1>16, <1>17, <1>18, <1>19, <1>20, <1>21, <1>22, <1>23, <1>24, <1>25
     DEF Next, Main, Sched, Receive, ReadyState

(* The permits of can_execute match the processes that wait (PermitsMatch) *)
(* in every interleaving: no wake-up is lost and none is spurious.         *)
THEOREM PermitsAlwaysMatch == Spec => []PermitsMatch
<1>1. PermitInv => PermitsMatch  BY DEF PermitInv
<1> QED BY PermitInit, PermitNext, <1>1, PTL DEF Spec

(* The queues hold processes, every thread is somewhere in its code, and   *)
(* the semaphore counts no more permits than there are processes, since    *)
(* each permit matches one that waits (TypeOK), for any size of the system. *)
THEOREM TypeCorrect == Spec => []TypeOK
<1>1. ASSUME PermitInv PROVE TypeOK
  <2>1. PermitsMatch /\ Types
    BY <1>1 DEF PermitInv, PlaceInv, TypeInv
  <2>2. can_execute \in Nat /\ Seeking \in Nat
    BY <2>1, SeekingType DEF Types
  <2>3. can_execute <= Cardinality(Waiting)
    BY <2>1, <2>2, Finite DEF PermitsMatch
  <2>4. Cardinality(Waiting) <= Cardinality(Pids) /\ Cardinality(Pids) \in Nat
    <3>1. IsFiniteSet(Pids) /\ Waiting \in SUBSET Pids
      BY SchedulerAssumption DEF Waiting
    <3>2. QED BY <3>1, FS_Subset, FS_CardinalityType
  <2>5. can_execute <= Cardinality(Pids)
    BY <2>2, <2>3, <2>4, Finite
  <2>6. QED BY <2>1, <2>5 DEF TypeOK
<1>2. QED BY PermitInit, PermitNext, <1>1, PTL DEF Spec

-----------------------------------------------------------------------------
(* With a single queue in use (FIFO or RR, and a degree of                 *)
(* multiprogramming that no number of consoles exceeds) the permits are    *)
(* enough: there is always a pcb where the code takes one.                 *)

OneQueue == Algorithm \in {"FIFO", "RR"} /\ Cardinality(Pids) <= MaxDegree

OnlyReady1 ==
  /\ queue["new"] = << >> /\ queue["ready_2"] = << >>
  /\ \A t \in Threads : qn[t] = "ready_1"

PcbInv == PermitInv /\ OnlyReady1 /\ PcbAlwaysThere

Printing == {t \in Threads : pc[t] = "log_push"}

(* Fewer processes are being printed than threads are going to post.       *)
LEMMA PrintedFew ==
  ASSUME TypeInv, queue["ready_1"] = << >>, OnlyReady1
  PROVE  IsFiniteSet(Printing) /\ Cardinality(Printing) \in Nat
         /\ Cardinality(Waiting) <= Cardinality(Printing)
<1>1. Printing \in SUBSET Threads  BY DEF Printing
<1>2. IsFiniteSet(Printing) /\ Cardinality(Printing) \in Nat
  BY <1>1, Finite, FS_Subset, FS_CardinalityType
<1> DEFINE f == [t \in Printing |-> hold[t]]
<1>3. \A p \in Pids : ~Queued(p)
  BY DEF Queued, OnlyReady1, Shared, ToSet
<1>4. \A t \in Printing : hold[t] \in Waiting
  BY DEF Printing, Waiting, Printed, TypeInv, Types, Shape, Holds
<1>5. \A p \in Waiting : \E t \in Printing : f[t] = p
  BY <1>3 DEF Waiting, Printed, Printing
<1>6. f \in Surjection(Printing, Waiting)  BY <1>4, <1>5 DEF Surjection
<1> QED BY <1>2, <1>6, FS_Surjection

LEMMA PcbThere ==
  ASSUME PermitInv, OnlyReady1,
         pc["sched"] \in {"check", "pop"} \/ \E t \in Threads : pc[t] = "log_pop"
  PROVE  queue["ready_1"] # << >>
<1> SUFFICES ASSUME queue["ready_1"] = << >> PROVE FALSE
  OBVIOUS
<1>1. TypeInv /\ PermitsMatch /\ can_execute \in Nat
  BY DEF PermitInv, PlaceInv, TypeInv, Types
<1>2. /\ IsFiniteSet(Printing) /\ Cardinality(Printing) \in Nat
      /\ Cardinality(Waiting) <= Cardinality(Printing)
  BY <1>1, PrintedFew
<1>3. CASE pc["sched"] \in {"check", "pop"}
  <2>1. Printing \in SUBSET Unposted  BY DEF Printing, Unposted, LogSteps
  <2>2. Cardinality(Printing) <= Cardinality(Unposted)  BY <2>1, Finite, FS_Subset
  <2> QED BY <1>1, <1>2, <1>3, <2>2, Finite DEF PermitsMatch, Seeking
<1>4. CASE \E t \in Threads : pc[t] = "log_pop"
  <2>1. PICK t \in Threads : pc[t] = "log_pop"  BY <1>4
  <2>2. t \in Unposted /\ Printing \in SUBSET (Unposted \ {t})
    BY <2>1 DEF Printing, Unposted, LogSteps
  <2>3. /\ IsFiniteSet(Unposted \ {t})
        /\ Cardinality(Unposted \ {t}) = Cardinality(Unposted) - 1
    BY <2>2, Finite, FS_RemoveElement
  <2>4. Cardinality(Printing) <= Cardinality(Unposted) - 1  BY <2>2, <2>3, FS_Subset
  <2> QED BY <1>1, <1>2, <2>4, Finite, SeekingType DEF PermitsMatch
<1> QED BY <1>3, <1>4

(* The process main holds is not queued, so READY is not full.             *)
LEMMA ReadyNotFull ==
  ASSUME OneQueue, PermitInv, pc["main"] = "check"
  PROVE  Len(queue["ready_1"]) < MaxDegree
<1>1. Types /\ Shape /\ OnePlace /\ "main" \in Threads /\ "ready_1" \in Queues
  BY DEF PermitInv, PlaceInv, TypeInv, Threads, Kernel, Queues, Shared
<1>2. PICK p \in Pids : p = hold["main"]  BY <1>1 DEF Shape, Holds, Types
<1>3. p \notin ToSet(queue["ready_1"])  BY <1>1, <1>2, Alone
<1>4. queue["ready_1"] \in Seq(Pids) /\ IsInjective(queue["ready_1"])
  BY <1>1 DEF Types, OnePlace
<1>5. ToSet(queue["ready_1"]) \in SUBSET (Pids \ {p})  BY <1>3, <1>4, EmptyElements
<1>6. /\ IsFiniteSet(Pids \ {p}) /\ Cardinality(Pids \ {p}) = Cardinality(Pids) - 1
      /\ Cardinality(Pids) \in Nat /\ MaxDegree \in Nat
  BY SchedulerAssumption, FS_RemoveElement, FS_CardinalityType
<1>7. Cardinality(ToSet(queue["ready_1"])) <= Cardinality(Pids) - 1
  BY <1>5, <1>6, FS_Subset
<1>8. Len(queue["ready_1"]) \in Nat /\ Len(queue["ready_1"]) <= Cardinality(Pids) - 1
  BY <1>4, <1>7, InjectiveLength
<1> QED BY <1>6, <1>8 DEF OneQueue

LEMMA PcbInit == Init => PcbInv
<1> SUFFICES ASSUME Init PROVE OnlyReady1 /\ PcbAlwaysThere
  BY PermitInit DEF PcbInv
<1> QED BY DEF Init, OnlyReady1, PcbAlwaysThere, Queues, Shared

LEMMA PcbNext == OneQueue /\ PcbInv /\ [Next]_vars => PcbInv'
<1> SUFFICES ASSUME OneQueue, PcbInv, [Next]_vars PROVE OnlyReady1' /\ PcbAlwaysThere'
  BY PermitNext DEF PcbInv
<1>a. /\ {"main", "sched", "page_fault"} \subseteq Threads /\ Wakers \subseteq Threads
      /\ {"new", "ready_1", "ready_2"} \subseteq Queues /\ Devices \subseteq Queues \ Shared
      /\ "faults" \in Queues \ Shared /\ "main" \notin Wakers
  BY SchedulerAssumption DEF Threads, Kernel, Wakers, Queues, Shared
<1>b. PermitInv /\ Types /\ Shape /\ OnlyReady1 /\ PcbAlwaysThere
      /\ Algorithm # "FEEDBACK"
  BY DEF PcbInv, PermitInv, PlaceInv, TypeInv, OneQueue
<1> USE DEF Goto, Take, Release, Crash, Received, processes, Push, Pop
<1>1. ASSUME NEW p \in Pids, CreateProcess(p) PROVE OnlyReady1' /\ PcbAlwaysThere'
  BY <1>a, <1>b, <1>1 DEF CreateProcess, OnlyReady1, PcbAlwaysThere, Types, Shared
<1>2. ASSUME NewStateCheck PROVE OnlyReady1' /\ PcbAlwaysThere'
  <2>1. qn' = [qn EXCEPT !["main"] = "ready_1"] /\ queue' = queue /\ kernel' = kernel
    BY <1>a, <1>b, <1>2, ReadyNotFull DEF NewStateCheck
  <2> QED BY <1>a, <1>b, <2>1 DEF OnlyReady1, PcbAlwaysThere, Types
<1>3. ASSUME NewStatePush PROVE OnlyReady1' /\ PcbAlwaysThere'
  BY <1>a, <1>b, <1>3 DEF NewStatePush, OnlyReady1, PcbAlwaysThere, Types, Shared
<1>4. ASSUME Post("main") PROVE OnlyReady1' /\ PcbAlwaysThere'
  BY <1>a, <1>b, <1>4 DEF Post, OnlyReady1, PcbAlwaysThere, Types, Shared
<1>5. ASSUME NEW t \in Wakers, ReadyPush(t) PROVE OnlyReady1' /\ PcbAlwaysThere'
  BY <1>a, <1>b, <1>5 DEF ReadyPush, OnlyReady1, PcbAlwaysThere, Types, Shared, ReadyQueue
<1>6. ASSUME NEW t \in Wakers, LogMore(t) PROVE OnlyReady1' /\ PcbAlwaysThere'
  BY <1>a, <1>b, <1>6 DEF LogMore, OnlyReady1, PcbAlwaysThere, Types, Shared
<1>7. ASSUME NEW t \in Wakers, LogEnd(t) PROVE OnlyReady1' /\ PcbAlwaysThere'
  BY <1>a, <1>b, <1>7 DEF LogEnd, OnlyReady1, PcbAlwaysThere, Types, Shared
<1>8. ASSUME NEW t \in Wakers, LogPop(t) PROVE OnlyReady1' /\ PcbAlwaysThere'
  BY <1>a, <1>b, <1>8 DEF LogPop, OnlyReady1, PcbAlwaysThere, Types, Shared
<1>9. ASSUME NEW t \in Wakers, LogPush(t) PROVE OnlyReady1' /\ PcbAlwaysThere'
  BY <1>a, <1>b, <1>9 DEF LogPush, OnlyReady1, PcbAlwaysThere, Types, Shared
<1>10. ASSUME NEW t \in Wakers, Post(t) PROVE OnlyReady1' /\ PcbAlwaysThere'
  BY <1>a, <1>b, <1>10 DEF Post, OnlyReady1, PcbAlwaysThere, Types, Shared
<1>11. ASSUME SemWait PROVE OnlyReady1' /\ PcbAlwaysThere'
  BY <1>a, <1>b, <1>11 DEF SemWait, OnlyReady1, PcbAlwaysThere, Types, Shared
<1>12. ASSUME CheckFound PROVE OnlyReady1' /\ PcbAlwaysThere'
  BY <1>a, <1>b, <1>12 DEF CheckFound, OnlyReady1, PcbAlwaysThere, Types, Shared
<1>13. ASSUME CheckNext PROVE OnlyReady1' /\ PcbAlwaysThere'
  BY <1>a, <1>b, <1>13, PcbThere DEF CheckNext, OnlyReady1
<1>14. ASSUME CheckNoPcb PROVE OnlyReady1' /\ PcbAlwaysThere'
  BY <1>a, <1>b, <1>14, PcbThere DEF CheckNoPcb, OnlyReady1
<1>15. ASSUME Dispatch PROVE OnlyReady1' /\ PcbAlwaysThere'
  BY <1>a, <1>b, <1>15 DEF Dispatch, OnlyReady1, PcbAlwaysThere, Types, Shared
<1>16. ASSUME NEW t \in Threads, PopEmpty(t) PROVE OnlyReady1' /\ PcbAlwaysThere'
  BY <1>a, <1>b, <1>16, PcbThere DEF PopEmpty, OnlyReady1, Shape, Wakers, LogSteps
<1>17. ASSUME RecvFinished PROVE OnlyReady1' /\ PcbAlwaysThere'
  BY <1>a, <1>b, <1>17 DEF RecvFinished, OnlyReady1, PcbAlwaysThere, Types, Shared
<1>18. ASSUME RecvSegFault PROVE OnlyReady1' /\ PcbAlwaysThere'
  BY <1>a, <1>b, <1>18 DEF RecvSegFault, OnlyReady1, PcbAlwaysThere, Types, Shared
<1>19. ASSUME RecvQuantum PROVE OnlyReady1' /\ PcbAlwaysThere'
  BY <1>a, <1>b, <1>19 DEF RecvQuantum, OnlyReady1, PcbAlwaysThere, Types, Shared
<1>20. ASSUME NEW d \in Devices, RecvIo(d) PROVE OnlyReady1' /\ PcbAlwaysThere'
  BY <1>a, <1>b, <1>20 DEF RecvIo, OnlyReady1, PcbAlwaysThere, Types, Shared
<1>21. ASSUME NEW t \in IoThreads, RecvConsola(t) PROVE OnlyReady1' /\ PcbAlwaysThere'
  BY <1>a, <1>b, <1>21 DEF RecvConsola, OnlyReady1, PcbAlwaysThere, Types, Shared
<1>22. ASSUME RecvPageFault PROVE OnlyReady1' /\ PcbAlwaysThere'
  BY <1>a, <1>b, <1>22 DEF RecvPageFault, OnlyReady1, PcbAlwaysThere, Types, Shared
<1>23. ASSUME NEW d \in Devices, IoTake(d) PROVE OnlyReady1' /\ PcbAlwaysThere'
  BY <1>a, <1>b, <1>23 DEF IoTake, OnlyReady1, PcbAlwaysThere, Types, Shared
<1>24. ASSUME PageFaultResolved PROVE OnlyReady1' /\ PcbAlwaysThere'
  BY <1>a, <1>b, <1>24 DEF PageFaultResolved, OnlyReady1, PcbAlwaysThere, Types, Shared
<1>25. ASSUME UNCHANGED vars PROVE OnlyReady1' /\ PcbAlwaysThere'
  BY <1>b, <1>25 DEF vars, OnlyReady1, PcbAlwaysThere
<1> QED
  BY <1>1, <1>2, <1>3, <1>4, <1>5, <1>6, <1>7, <1>8, <1>9, <1>10, <1>11, <1>12,
     <1>13, <1>14, <1>15, <1>16, <1>17, <1>18, <1>19, <1>20, <1>21, <1>22, <1>23, <1>24, <1>25
     DEF Next, Main, Sched, Receive, ReadyState

(* Under FIFO and RR, with a degree no less than the number of processes,  *)
(* the scheduler never looks for a process in vain (PcbIsAssigned) and no  *)
(* thread ever pops an empty queue (PcbAlwaysThere), although it reads the *)
(* size of a queue first and pops it later.  Under FEEDBACK the scheduler  *)
(* does look in vain.                                                      *)
THEOREM PcbIsAlwaysThere == OneQueue /\ Spec => []PcbAlwaysThere /\ PcbIsAssigned
<1> SUFFICES ASSUME OneQueue PROVE Spec => []PcbAlwaysThere /\ PcbIsAssigned
  OBVIOUS
<1>1. PcbInv => PcbAlwaysThere  BY DEF PcbInv
<1>2. PcbInv /\ [Next]_vars => PcbInv'  BY PcbNext
<1>3. PcbInv' => [~ CheckNoPcb]_vars
  BY DEF PcbInv, PcbAlwaysThere, CheckNoPcb, Crash
<1> QED BY PcbInit, <1>1, <1>2, <1>3, PTL DEF Spec, PcbIsAssigned

-----------------------------------------------------------------------------
(* Scheduler implements ProcessStates, for any processes, devices, thread  *)
(* pool, algorithm and degree of multiprogramming.                         *)

(* While a thread prints the queues it has a READY queue in its hands.     *)
LogLabels == {"log_check", "log_pop", "log_push"}
PrintsReady ==
  \A t \in Wakers : pc[t] \in LogLabels => qn[t] \in {"ready_1", "ready_2"}

DiagramInv == PlaceInv /\ PrintsReady

LEMMA DiagramInvInit == Init => DiagramInv
BY PlaceInit DEF Init, DiagramInv, PrintsReady, LogLabels, Wakers, Threads

LEMMA DiagramInvNext == DiagramInv /\ [Next]_vars => DiagramInv'
<1> SUFFICES ASSUME DiagramInv, [Next]_vars PROVE PrintsReady'
  BY PlaceNext DEF DiagramInv
<1>a. /\ "main" \in Threads /\ "sched" \in Wakers /\ Wakers \subseteq Threads
      /\ "main" \notin Wakers /\ Devices \subseteq Wakers /\ IoThreads \subseteq Wakers
      /\ "page_fault" \in Wakers
  BY SchedulerAssumption DEF Threads, Kernel, Wakers
<1>b. /\ pc \in [Threads -> Labels] /\ qn \in [Threads -> Shared] /\ PrintsReady
      /\ Shape
  BY DEF DiagramInv, PlaceInv, TypeInv, Types
(* The thread u moves: its label and its queue are as they should be.      *)
<1>1. ASSUME NEW u \in Threads, NEW label, NEW q,
             pc' = [pc EXCEPT ![u] = label], qn' = [qn EXCEPT ![u] = q],
             u = "main" \/ label \notin LogLabels \/ q \in {"ready_1", "ready_2"}
      PROVE  PrintsReady'
  BY <1>a, <1>b, <1>1 DEF PrintsReady
<1>2. ASSUME NEW u \in Threads, NEW label, pc' = [pc EXCEPT ![u] = label], qn' = qn,
             u = "main" \/ label \notin LogLabels \/ (u \in Wakers /\ pc[u] \in LogLabels)
      PROVE  PrintsReady'
  BY <1>a, <1>b, <1>2 DEF PrintsReady
<1>3. ASSUME pc' = pc, NEW q, NEW u \in Threads, qn' = [qn EXCEPT ![u] = q],
             pc[u] \notin LogLabels \/ q \in {"ready_1", "ready_2"}
      PROVE  PrintsReady'
  BY <1>a, <1>b, <1>3 DEF PrintsReady
<1>4. ASSUME UNCHANGED <<pc, qn>> PROVE PrintsReady'
  BY <1>b, <1>4 DEF PrintsReady
<1> USE DEF Goto, LogLabels
<1>5. ASSUME NEW p \in Pids, CreateProcess(p) PROVE PrintsReady'
  BY <1>a, <1>2, <1>5 DEF CreateProcess
<1>6. CASE Main
  BY <1>a, <1>1, <1>2, <1>6 DEF Main, NewStateCheck, NewStatePush, Post
<1>7. ASSUME NEW t \in Wakers, ReadyState(t) PROVE PrintsReady'
  <2>1. CASE LogEnd(t)
    BY <1>a, <1>2, <1>3, <1>7, <2>1 DEF LogEnd
  <2>t. t \in Threads  BY <1>a
  <2>2. CASE ReadyPush(t)
    BY <1>1, <2>t, <2>2 DEF ReadyPush
  <2>3. CASE LogMore(t)
    BY <1>2, <2>t, <2>3 DEF LogMore
  <2>4. CASE LogPop(t)
    BY <1>2, <2>t, <2>4 DEF LogPop
  <2>5. CASE LogPush(t)
    BY <1>2, <2>t, <2>5 DEF LogPush
  <2>6. CASE Post(t)
    BY <1>1, <2>t, <2>6 DEF Post
  <2> QED BY <1>7, <2>1, <2>2, <2>3, <2>4, <2>5, <2>6 DEF ReadyState
<1>8. CASE SemWait \/ CheckFound \/ CheckNext \/ CheckNoPcb \/ Dispatch
  BY <1>a, <1>1, <1>2, <1>3, <1>4, <1>8
     DEF SemWait, CheckFound, CheckNext, CheckNoPcb, Dispatch
<1>9. CASE Receive
  <2>1. ASSUME NEW t \in IoThreads, RecvConsola(t) PROVE PrintsReady'
    BY <1>a, <1>b, <2>1 DEF RecvConsola, PrintsReady
  <2> QED BY <1>a, <1>2, <1>9, <2>1
          DEF Receive, RecvFinished, RecvSegFault, RecvQuantum, RecvIo, RecvPageFault
<1>10. CASE (\E d \in Devices : IoTake(d)) \/ PageFaultResolved
  BY <1>a, <1>2, <1>10 DEF IoTake, PageFaultResolved
<1>11. CASE (\E t \in Threads : PopEmpty(t)) \/ UNCHANGED vars
  BY <1>4, <1>11 DEF PopEmpty, vars
<1> QED BY <1>5, <1>6, <1>7, <1>8, <1>9, <1>10, <1>11 DEF Next, Sched

-----------------------------------------------------------------------------
(* The state of a process follows from the place where it is.              *)

QueueState(q) ==
  IF q = "new" THEN "NEW" ELSE IF q \in {"ready_1", "ready_2"} THEN "READY" ELSE "BLOCKED"
HandState(t, label) ==
  IF t = "main" THEN "NEW" ELSE IF label = "log_push" THEN "READY"
  ELSE IF t = "sched" THEN "EXECUTE" ELSE "BLOCKED"

StateAt ==
  \A p \in Pids :
    /\ \A q \in Queues : p \in ToSet(queue[q]) => State(p) = QueueState(q)
    /\ \A t \in Threads : hold[t] = p => State(p) = HandState(t, pc[t])
    /\ State(p) = "EXECUTE" => hold["sched"] = p
    /\ consola[p] = "none" => State(p) = "none"
    /\ consola[p] \in {"PROCESS_FINISHED", "SEG_FAULT"} => State(p) = "EXIT"

LEMMA StateIsPlace == PlaceInv => StateAt
<1> SUFFICES ASSUME PlaceInv, NEW p \in Pids
             PROVE  /\ \A q \in Queues : p \in ToSet(queue[q]) => State(p) = QueueState(q)
                    /\ \A t \in Threads : hold[t] = p => State(p) = HandState(t, pc[t])
                    /\ State(p) = "EXECUTE" => hold["sched"] = p
                    /\ consola[p] = "none" => State(p) = "none"
                    /\ consola[p] \in {"PROCESS_FINISHED", "SEG_FAULT"} => State(p) = "EXIT"
  BY DEF StateAt
<1>a. /\ {"main", "sched"} \subseteq Threads /\ {"new", "ready_1", "ready_2"} \subseteq Queues
      /\ OnePlace /\ Shape
  BY DEF Threads, Kernel, Queues, Shared, PlaceInv, TypeInv
<1>1. ASSUME NEW q \in Queues, p \in ToSet(queue[q]) PROVE State(p) = QueueState(q)
  <2>1. /\ Running(p) /\ \A r \in Queues : p \in ToSet(queue[r]) => r = q
        /\ \A t \in Threads : hold[t] # p
    BY <1>a, <1>1, Alone
  <2> QED BY <1>a, <1>1, <2>1 DEF State, QueueState, Printed, Running
<1>2. ASSUME NEW t \in Threads, hold[t] = p PROVE State(p) = HandState(t, pc[t])
  <2>1. /\ Running(p) /\ \A q \in Queues : p \notin ToSet(queue[q])
        /\ \A u \in Threads : hold[u] = p => u = t
    BY <1>a, <1>2, Alone
  <2>2. pc["main"] # "log_push"  BY <1>a DEF Shape
  <2> QED BY <1>a, <1>2, <2>1, <2>2 DEF State, HandState, Printed, Running
<1>3. ASSUME State(p) = "EXECUTE" PROVE hold["sched"] = p
  BY <1>3 DEF State
<1>4. ASSUME ~ Running(p)
      PROVE  /\ consola[p] = "none" => State(p) = "none"
             /\ consola[p] \in {"PROCESS_FINISHED", "SEG_FAULT"} => State(p) = "EXIT"
  <2>1. /\ \A q \in Queues : p \notin ToSet(queue[q])
        /\ \A t \in Threads : hold[t] # p
    BY <1>a, <1>4, Alone
  <2> QED BY <1>a, <2>1 DEF State, Printed
<1>5. consola[p] \in {"none", "PROCESS_FINISHED", "SEG_FAULT"} => ~ Running(p)
  BY DEF Running
<1> QED BY <1>1, <1>2, <1>3, <1>4, <1>5

(* Who is neither moved nor printed keeps its state.                       *)
LEMMA Bystander ==
  ASSUME NEW r \in Pids, consola'[r] = consola[r],
         \A q \in Queues : r \in ToSet(queue'[q]) <=> r \in ToSet(queue[q]),
         \A t \in Threads : hold'[t] = r <=> hold[t] = r,
         \A t \in Threads : hold[t] = r => (pc'[t] = "log_push" <=> pc[t] = "log_push")
  PROVE  State(r)' = State(r)
<1>1. /\ {"main", "sched"} \subseteq Threads /\ {"new", "ready_1", "ready_2"} \subseteq Queues
  BY DEF Threads, Kernel, Queues, Shared
<1>2. Printed(r)' <=> Printed(r)  BY DEF Printed
<1> QED BY <1>1, <1>2 DEF State

states == [p \in Pids |-> State(p)]

LEMMA AllStay ==
  ASSUME \A r \in Pids : State(r)' = State(r)
  PROVE  states' = states
BY DEF states

(* One process moves, along an arrow of the diagram.                       *)
LEMMA OneMoves ==
  ASSUME PlaceInv, NEW p \in Pids, \A r \in Pids \ {p} : State(r)' = State(r),
         State(p)' # State(p) =>
           /\ <<State(p), State(p)'>> \in Diagram!Transitions
           /\ State(p)' = "EXECUTE" => hold["sched"] = NoPcb
  PROVE  [Diagram!Next]_states
<1>1. CASE State(p)' = State(p)
  BY <1>1, AllStay
<1>2. CASE State(p)' # State(p)
  <2>1. State(p)' \in Diagram!States
    BY <1>2 DEF Diagram!Transitions, Diagram!States
  <2>2. State(p)' = "EXECUTE" => \A r \in Pids : states[r] # "EXECUTE"
    BY <1>2, StateIsPlace, SchedulerAssumption DEF StateAt, states
  <2>3. states' = [states EXCEPT ![p] = State(p)']
    BY DEF states
  <2>4. states[p] = State(p)  BY DEF states
  <2>5. Diagram!Move(p)
    BY <1>2, <2>1, <2>2, <2>3, <2>4 DEF Diagram!Move, states
  <2> QED BY <2>5 DEF Diagram!Next
<1> QED BY <1>1, <1>2

LEMMA StateIsPlaceNext == PlaceInv' => StateAt'
<1>1. (PlaceInv => StateAt)'  BY StateIsPlace, PTL
<1> QED BY <1>1

-----------------------------------------------------------------------------
(* What the moves between queues and threads do to the states.             *)

LEMMA HandToQueueStates ==
  ASSUME PlaceInv, PlaceInv', consola' = consola, NEW t \in Threads, NEW p \in Pids,
         p = hold[t], Release(t), NEW q \in Queues, Push(q, p),
         \A u \in Threads \ {t} : pc'[u] = pc[u]
  PROVE  /\ State(p) = HandState(t, pc[t])
         /\ State(p)' = QueueState(q)
         /\ \A r \in Pids \ {p} : State(r)' = State(r)
<1>1. Types /\ OnePlace /\ NoPcb \notin Pids
  BY SchedulerAssumption DEF PlaceInv, TypeInv
<1>2. /\ ToSet(queue'[q]) = ToSet(queue[q]) \cup {p}
      /\ \A r \in Queues \ {q} : queue'[r] = queue[r]
  <2>1. \A r \in Queues : IsInjective(queue[r])  BY <1>1 DEF OnePlace
  <2>2. p \notin ToSet(queue[q])  BY <1>1, Alone
  <2> QED BY <1>1, <2>1, <2>2, Pushed
<1>3. hold'[t] = NoPcb /\ \A u \in Threads \ {t} : hold'[u] = hold[u]
  BY <1>1 DEF Release, Types
<1>4. State(p) = HandState(t, pc[t])
  BY StateIsPlace DEF StateAt
<1>5. State(p)' = QueueState(q)
  <2>1. p \in ToSet(queue'[q])  BY <1>2
  <2> QED BY <2>1, StateIsPlaceNext DEF StateAt
<1>6. ASSUME NEW r \in Pids \ {p} PROVE State(r)' = State(r)
  <2>1. \A s \in Queues : r \in ToSet(queue'[s]) <=> r \in ToSet(queue[s])  BY <1>2
  <2>2. /\ \A u \in Threads : hold'[u] = r <=> hold[u] = r
        /\ \A u \in Threads : hold[u] = r => (pc'[u] = "log_push" <=> pc[u] = "log_push")
    BY <1>1, <1>3
  <2> QED BY <2>1, <2>2, Bystander
<1> QED BY <1>4, <1>5, <1>6

LEMMA QueueToHandStates ==
  ASSUME PlaceInv, PlaceInv', consola' = consola, NEW t \in Threads, hold[t] = NoPcb,
         NEW q \in Queues, queue[q] # << >>, NEW p \in Pids, p = Head(queue[q]),
         Take(t, p), Pop(q), \A u \in Threads \ {t} : pc'[u] = pc[u]
  PROVE  /\ State(p) = QueueState(q)
         /\ State(p)' = HandState(t, pc'[t])
         /\ \A r \in Pids \ {p} : State(r)' = State(r)
<1>1. Types /\ OnePlace /\ NoPcb \notin Pids
  BY SchedulerAssumption DEF PlaceInv, TypeInv
<1>2. /\ p \in ToSet(queue[q])
      /\ ToSet(queue'[q]) = ToSet(queue[q]) \ {p}
      /\ \A r \in Queues \ {q} : queue'[r] = queue[r]
  <2>1. \A r \in Queues : IsInjective(queue[r])  BY <1>1 DEF OnePlace
  <2> QED BY <1>1, <2>1, Popped
<1>3. hold'[t] = p /\ \A u \in Threads \ {t} : hold'[u] = hold[u]
  BY <1>1 DEF Take, Types
<1>4. State(p) = QueueState(q)
  BY <1>2, StateIsPlace DEF StateAt
<1>5. State(p)' = HandState(t, pc'[t])
  BY <1>3, StateIsPlaceNext DEF StateAt, HandState
<1>6. ASSUME NEW r \in Pids \ {p} PROVE State(r)' = State(r)
  <2>1. \A s \in Queues : r \in ToSet(queue'[s]) <=> r \in ToSet(queue[s])  BY <1>2
  <2>2. /\ \A u \in Threads : hold'[u] = r <=> hold[u] = r
        /\ \A u \in Threads : hold[u] = r => (pc'[u] = "log_push" <=> pc[u] = "log_push")
    BY <1>1, <1>3
  <2> QED BY <2>1, <2>2, Bystander
<1> QED BY <1>4, <1>5, <1>6

(* A step that moves no process and starts or ends the printing of none.   *)
LEMMA Still ==
  ASSUME UNCHANGED <<queue, hold, consola>>,
         \A t \in Threads : hold[t] \in Pids => (pc'[t] = "log_push" <=> pc[t] = "log_push")
  PROVE  [Diagram!Next]_states
<1>1. \A r \in Pids : State(r)' = State(r)  BY Bystander
<1> QED BY <1>1, AllStay

(* Every step of Scheduler is one of the diagram.                          *)
LEMMA StepInDiagram == DiagramInv /\ [Next]_vars => [Diagram!Next]_states
<1> SUFFICES ASSUME DiagramInv, [Next]_vars PROVE [Diagram!Next]_states
  OBVIOUS
<1>a. /\ {"main", "sched", "page_fault"} \subseteq Threads /\ Wakers \subseteq Threads \ {"main"}
      /\ Devices \subseteq Wakers \ {"sched"} /\ IoThreads \subseteq Wakers \ {"sched"}
      /\ {"sched", "page_fault"} \subseteq Wakers
      /\ Shared \subseteq Queues /\ Devices \subseteq Queues \ Shared
      /\ "faults" \in Queues \ Shared /\ Shared = {"new", "ready_1", "ready_2"}
      /\ NoPcb \notin Pids
  BY SchedulerAssumption DEF Threads, Kernel, Wakers, Queues, Shared
<1>b. /\ PlaceInv /\ PlaceInv' /\ PrintsReady /\ Types /\ Shape
      /\ pc \in [Threads -> Labels] /\ qn \in [Threads -> Shared]
      /\ hold \in [Threads -> Pids \cup {NoPcb}]
  BY DiagramInvNext DEF DiagramInv, PlaceInv, TypeInv, Types
(* Thread t puts its process into queue q, or takes one out of it.         *)
<1>push. ASSUME NEW t \in Threads, NEW q \in Queues, hold[t] \in Pids,
                Release(t), Push(q, hold[t]), consola' = consola,
                \A u \in Threads \ {t} : pc'[u] = pc[u],
                HandState(t, pc[t]) # QueueState(q) =>
                  <<HandState(t, pc[t]), QueueState(q)>> \in Diagram!Transitions
         PROVE  [Diagram!Next]_states
  <2>1. PICK p \in Pids : p = hold[t]  BY <1>push
  <2>2. /\ State(p) = HandState(t, pc[t])
        /\ State(p)' = QueueState(q)
        /\ \A r \in Pids \ {p} : State(r)' = State(r)
    BY <1>b, <1>push, <2>1, HandToQueueStates
  <2>3. QueueState(q) # "EXECUTE"  BY DEF QueueState
  <2> QED BY <1>b, <1>push, <2>2, <2>3, OneMoves
<1>pop. ASSUME NEW t \in Threads, NEW q \in Queues, hold[t] = NoPcb, queue[q] # << >>,
               Take(t, Head(queue[q])), Pop(q), consola' = consola,
               \A u \in Threads \ {t} : pc'[u] = pc[u],
               QueueState(q) # HandState(t, pc'[t]) =>
                 /\ <<QueueState(q), HandState(t, pc'[t])>> \in Diagram!Transitions
                 /\ HandState(t, pc'[t]) = "EXECUTE" => hold["sched"] = NoPcb
        PROVE  [Diagram!Next]_states
  <2>1. Head(queue[q]) \in Pids  BY <1>b, <1>pop, QueueTypes
  <2>2. PICK p \in Pids : p = Head(queue[q])  BY <2>1
  <2>3. /\ State(p) = QueueState(q)
        /\ State(p)' = HandState(t, pc'[t])
        /\ \A r \in Pids \ {p} : State(r)' = State(r)
    BY <1>b, <1>pop, <2>2, QueueToHandStates
  <2> QED BY <1>b, <1>pop, <2>3, OneMoves
(* The process the CPU returned, where it is no more.                      *)
<1>cpu. ASSUME pc["sched"] = "recv_pcb"
        PROVE  /\ hold["sched"] \in Pids
               /\ HandState("sched", pc["sched"]) = "EXECUTE"
               /\ State(hold["sched"]) = "EXECUTE"
  <2>1. hold["sched"] \in Pids  BY <1>a, <1>b, <1>cpu DEF Shape, Holds
  <2>2. HandState("sched", pc["sched"]) = "EXECUTE"  BY <1>cpu DEF HandState
  <2> QED BY <1>a, <1>b, <2>1, <2>2, StateIsPlace DEF StateAt
<1>1. ASSUME NEW p \in Pids, CreateProcess(p) PROVE [Diagram!Next]_states
  <2>a. consola[p] = "none" /\ pc["main"] = "idle"  BY <1>1 DEF CreateProcess
  <2>b. State(p) = "none"  BY <1>b, <2>a, StateIsPlace DEF StateAt
  <2>c. hold["main"] = NoPcb  BY <1>a, <1>b, <2>a DEF Shape, Holds
  <2>1. State(p) = "none" /\ hold["main"] = NoPcb  BY <2>b, <2>c
  <2>2. hold'["main"] = p /\ \A t \in Threads \ {"main"} : hold'[t] = hold[t]
    BY <1>a, <1>b, <1>1 DEF CreateProcess, Take
  <2>3. State(p)' = "NEW"
    BY <1>a, <1>b, <2>2, StateIsPlaceNext DEF StateAt, HandState
  <2>4. ASSUME NEW r \in Pids \ {p} PROVE State(r)' = State(r)
    <3>1. consola'[r] = consola[r]  BY <1>b, <1>1 DEF CreateProcess, Types
    <3>2. \A q \in Queues : r \in ToSet(queue'[q]) <=> r \in ToSet(queue[q])
      BY <1>1 DEF CreateProcess
    <3>3. \A t \in Threads : hold'[t] = r <=> hold[t] = r
      BY <1>a, <2>1, <2>2
    <3>4. \A t \in Threads : hold[t] = r => pc'[t] = pc[t]
      BY <1>a, <1>b, <1>1, <2>1 DEF CreateProcess, Goto
    <3> QED BY <3>1, <3>2, <3>3, <3>4, Bystander
  <2> QED BY <1>b, <2>1, <2>3, <2>4, OneMoves DEF Diagram!Transitions
<1>2. ASSUME NewStateCheck PROVE [Diagram!Next]_states
  BY <1>b, <1>2, Still DEF NewStateCheck, Goto, processes
<1>3. ASSUME NewStatePush PROVE [Diagram!Next]_states
  <2>1. /\ "main" \in Threads /\ qn["main"] \in Queues /\ hold["main"] \in Pids
        /\ consola' = consola /\ \A u \in Threads \ {"main"} : pc'[u] = pc[u]
    BY <1>a, <1>b, <1>3 DEF NewStatePush, Shape, Holds, processes, Goto
  <2>2. <<HandState("main", pc["main"]), QueueState(qn["main"])>>
          \in Diagram!Transitions \cup {<<"NEW", "NEW">>}
    BY <1>a, <1>b DEF HandState, QueueState, Diagram!Transitions
  <2> QED BY <1>3, <1>push, <2>1, <2>2 DEF NewStatePush
<1>4. ASSUME NEW t \in Threads, Post(t) PROVE [Diagram!Next]_states
  BY <1>b, <1>4, Still DEF Post, Goto, processes
<1>5. ASSUME NEW t \in Wakers, ReadyPush(t) PROVE [Diagram!Next]_states
  <2>1. /\ t \in Threads /\ ReadyQueue(t) \in {"ready_1", "ready_2"} /\ hold[t] \in Pids
        /\ consola' = consola /\ \A u \in Threads \ {t} : pc'[u] = pc[u]
        /\ ReadyQueue(t) \in Queues
    BY <1>a, <1>b, <1>5 DEF ReadyPush, Shape, Holds, processes, Goto, ReadyQueue
  <2>2. <<HandState(t, pc[t]), QueueState(ReadyQueue(t))>> \in Diagram!Transitions
    BY <1>a, <1>5, <2>1 DEF ReadyPush, HandState, QueueState, Diagram!Transitions
  <2> QED BY <1>5, <1>push, <2>1, <2>2 DEF ReadyPush
<1>6. ASSUME NEW t \in Wakers, LogMore(t) PROVE [Diagram!Next]_states
  BY <1>b, <1>6, Still DEF LogMore, Goto, processes
<1>7. ASSUME NEW t \in Wakers, LogEnd(t) PROVE [Diagram!Next]_states
  <2>1. UNCHANGED <<queue, hold, consola>>  BY <1>7 DEF LogEnd, processes
  <2>2. \A u \in Threads : pc'[u] = "log_push" <=> pc[u] = "log_push"
    BY <1>b, <1>7 DEF LogEnd, Goto
  <2> QED BY <2>1, <2>2, Still
<1>8. ASSUME NEW t \in Wakers, LogPop(t) PROVE [Diagram!Next]_states
  <2>1. /\ t \in Threads /\ qn[t] \in Queues /\ hold[t] = NoPcb
        /\ queue[qn[t]] # << >> /\ consola' = consola /\ pc'[t] = "log_push"
        /\ \A u \in Threads \ {t} : pc'[u] = pc[u]
    BY <1>a, <1>b, <1>8 DEF LogPop, Shape, Holds, processes, Goto
  <2>2. QueueState(qn[t]) = "READY" /\ HandState(t, pc'[t]) = "READY"
    BY <1>a, <1>b, <1>8, <2>1 DEF LogPop, PrintsReady, LogLabels, QueueState, HandState
  <2> QED BY <1>8, <1>pop, <2>1, <2>2 DEF LogPop
<1>9. ASSUME NEW t \in Wakers, LogPush(t) PROVE [Diagram!Next]_states
  <2>1. /\ t \in Threads /\ qn[t] \in Queues /\ hold[t] \in Pids
        /\ consola' = consola /\ \A u \in Threads \ {t} : pc'[u] = pc[u]
    BY <1>a, <1>b, <1>9 DEF LogPush, Shape, Holds, processes, Goto
  <2>2. QueueState(qn[t]) = "READY" /\ HandState(t, pc[t]) = "READY"
    BY <1>a, <1>b, <1>9 DEF LogPush, PrintsReady, LogLabels, QueueState, HandState
  <2> QED BY <1>9, <1>push, <2>1, <2>2 DEF LogPush
<1>10. ASSUME SemWait PROVE [Diagram!Next]_states
  BY <1>b, <1>10, Still DEF SemWait, Goto, processes
<1>11. ASSUME CheckFound PROVE [Diagram!Next]_states
  BY <1>b, <1>11, Still DEF CheckFound, Goto, processes
<1>12. ASSUME CheckNext PROVE [Diagram!Next]_states
  BY <1>b, <1>12, Still DEF CheckNext, processes
<1>13. ASSUME CheckNoPcb PROVE [Diagram!Next]_states
  BY <1>b, <1>13, Still DEF CheckNoPcb, processes
<1>14. ASSUME Dispatch PROVE [Diagram!Next]_states
  <2>1. /\ "sched" \in Threads /\ qn["sched"] \in Queues /\ hold["sched"] = NoPcb
        /\ queue[qn["sched"]] # << >> /\ consola' = consola /\ pc'["sched"] = "recv_pcb"
        /\ \A u \in Threads \ {"sched"} : pc'[u] = pc[u]
    BY <1>a, <1>b, <1>14 DEF Dispatch, Shape, Holds, processes, Goto
  <2>2. QueueState(qn["sched"]) \in {"NEW", "READY"} /\ HandState("sched", pc'["sched"]) = "EXECUTE"
    BY <1>a, <1>b, <2>1 DEF QueueState, HandState
  <2>3. <<QueueState(qn["sched"]), HandState("sched", pc'["sched"])>> \in Diagram!Transitions
    BY <2>2 DEF Diagram!Transitions
  <2> QED BY <1>14, <1>pop, <2>1, <2>3 DEF Dispatch
<1>15. ASSUME NEW t \in Threads, PopEmpty(t) PROVE [Diagram!Next]_states
  BY <1>b, <1>15, Still DEF PopEmpty, processes
<1>16. ASSUME RecvFinished \/ RecvSegFault PROVE [Diagram!Next]_states
  <2>1. PICK p \in Pids : p = hold["sched"] /\ State(p) = "EXECUTE"
    BY <1>16, <1>cpu DEF RecvFinished, RecvSegFault, Received
  <2>2. PICK c \in {"PROCESS_FINISHED", "SEG_FAULT"} :
          /\ consola' = [consola EXCEPT ![p] = c] /\ Release("sched") /\ queue' = queue
          /\ \A u \in Threads \ {"sched"} : pc'[u] = pc[u]
    BY <1>b, <1>16, <2>1 DEF RecvFinished, RecvSegFault, Goto
  <2>a. consola'[p] \in {"PROCESS_FINISHED", "SEG_FAULT"}  BY <1>b, <2>2 DEF Types
  <2>3. State(p)' = "EXIT"
    BY <1>b, <2>a, StateIsPlaceNext DEF StateAt
  <2>4. ASSUME NEW r \in Pids \ {p} PROVE State(r)' = State(r)
    <3>1. consola'[r] = consola[r] /\ queue' = queue  BY <1>b, <2>2 DEF Types
    <3>2. \A t \in Threads : hold'[t] = r <=> hold[t] = r
      BY <1>a, <1>b, <2>1, <2>2 DEF Release
    <3>3. \A t \in Threads : hold[t] = r => pc'[t] = pc[t]  BY <2>1, <2>2
    <3> QED BY <3>1, <3>2, <3>3, Bystander
  <2> QED BY <1>b, <2>1, <2>3, <2>4, OneMoves DEF Diagram!Transitions
<1>17. ASSUME RecvQuantum PROVE [Diagram!Next]_states
  BY <1>b, <1>17, Still DEF RecvQuantum, Received, Goto
<1>18. ASSUME NEW q \in Devices \cup {"faults"}, Push(q, hold["sched"]), Release("sched"),
              Goto("sched", "idle"), consola' = consola, pc["sched"] = "recv_pcb"
       PROVE  [Diagram!Next]_states
  <2>1. /\ "sched" \in Threads /\ q \in Queues /\ QueueState(q) = "BLOCKED"
        /\ \A u \in Threads \ {"sched"} : pc'[u] = pc[u]
    BY <1>a, <1>b, <1>18 DEF QueueState, Goto
  <2>2. <<HandState("sched", pc["sched"]), QueueState(q)>> \in Diagram!Transitions
    BY <1>18, <1>cpu, <2>1 DEF Diagram!Transitions
  <2> QED BY <1>18, <1>cpu, <1>push, <2>1, <2>2
<1>19. ASSUME NEW d \in Devices, RecvIo(d) PROVE [Diagram!Next]_states
  BY <1>18, <1>19 DEF RecvIo, Received
<1>20. ASSUME RecvPageFault PROVE [Diagram!Next]_states
  BY <1>18, <1>20 DEF RecvPageFault, Received
<1>21. ASSUME NEW t \in IoThreads, RecvConsola(t) PROVE [Diagram!Next]_states
  <2>1. PICK p \in Pids : p = hold["sched"] /\ State(p) = "EXECUTE"
    BY <1>21, <1>cpu DEF RecvConsola, Received
  <2>2. t \in Threads \ {"main", "sched"} /\ hold[t] = NoPcb
    BY <1>a, <1>b, <1>21 DEF RecvConsola, Shape, Holds
  <2>3. /\ hold'[t] = p /\ hold'["sched"] = NoPcb /\ pc'[t] = "push"
        /\ \A u \in Threads \ {t, "sched"} : hold'[u] = hold[u] /\ pc'[u] = pc[u]
        /\ queue' = queue /\ consola' = consola
    BY <1>a, <1>b, <1>21, <2>1, <2>2 DEF RecvConsola
  <2>4. State(p)' = HandState(t, pc'[t])
    BY <1>b, <2>2, <2>3, StateIsPlaceNext DEF StateAt, HandState
  <2>5. State(p)' = "BLOCKED"
    BY <2>2, <2>3, <2>4 DEF HandState
  <2>6. ASSUME NEW r \in Pids \ {p} PROVE State(r)' = State(r)
    <3>1. \A u \in Threads : hold'[u] = r <=> hold[u] = r
      BY <1>a, <2>1, <2>2, <2>3
    <3>2. \A u \in Threads : hold[u] = r => pc'[u] = pc[u]
      BY <1>a, <2>1, <2>2, <2>3
    <3> QED BY <2>3, <3>1, <3>2, Bystander
  <2> QED BY <1>b, <2>1, <2>5, <2>6, OneMoves DEF Diagram!Transitions
<1>22. ASSUME NEW t \in Wakers \ {"sched"}, NEW q \in Devices \cup {"faults"}, pc[t] = "idle",
              queue[q] # << >>, Take(t, Head(queue[q])), Pop(q), Goto(t, "push"),
              consola' = consola
       PROVE  [Diagram!Next]_states
  <2>1. /\ t \in Threads \ {"main", "sched"} /\ q \in Queues /\ hold[t] = NoPcb
        /\ pc'[t] = "push" /\ \A u \in Threads \ {t} : pc'[u] = pc[u]
    BY <1>a, <1>b, <1>22 DEF Goto, Shape, Holds
  <2>2. QueueState(q) = "BLOCKED" /\ HandState(t, pc'[t]) = "BLOCKED"
    BY <1>a, <1>22, <2>1 DEF QueueState, HandState
  <2> QED BY <1>22, <1>pop, <2>1, <2>2
<1>23. ASSUME NEW d \in Devices, IoTake(d) PROVE [Diagram!Next]_states
  BY <1>a, <1>22, <1>23 DEF IoTake, processes
<1>24. ASSUME PageFaultResolved PROVE [Diagram!Next]_states
  BY <1>a, <1>22, <1>24 DEF PageFaultResolved, processes
<1>25. ASSUME UNCHANGED vars PROVE [Diagram!Next]_states
  BY <1>25, Still DEF vars
<1> QED
  BY <1>a, <1>1, <1>2, <1>3, <1>4, <1>5, <1>6, <1>7, <1>8, <1>9, <1>10, <1>11, <1>12, <1>13,
     <1>14, <1>15, <1>16, <1>17, <1>19, <1>20, <1>21, <1>23, <1>24, <1>25
     DEF Next, Main, Sched, Receive, ReadyState

(* The threads of the scheduler, with no mutex between them, keep to the   *)
(* five-state diagram of the log (ImplementsDiagram): every step moves at  *)
(* most one process along one of its arrows, a process is dispatched only  *)
(* while no other is in EXECUTE, and the printing of the queues is not     *)
(* seen.                                                                   *)
THEOREM SchedulerImplementsDiagram == Spec => ImplementsDiagram
<1>1. ASSUME Init PROVE states = [p \in Pids |-> "none"]
  <2>1. ASSUME NEW p \in Pids PROVE State(p) = "none"
    <3>1. consola[p] = "none"  BY <1>1 DEF Init
    <3> QED BY <1>1, <3>1, PlaceInit, StateIsPlace DEF StateAt
  <2> QED BY <2>1 DEF states
<1>2. Init /\ [][Next]_vars => []DiagramInv
  BY DiagramInvInit, DiagramInvNext, PTL
<1>3. Init /\ [][Next]_vars => states = [p \in Pids |-> "none"] /\ [][Diagram!Next]_states
  BY <1>1, <1>2, StepInDiagram, PTL
<1>4. [Diagram!Next]_states <=> [Diagram!Next]_([p \in Pids |-> State(p)])
  BY DEF states
<1>5. Diagram!Init <=> states = [p \in Pids |-> "none"]
  BY DEF Diagram!Init, states
<1> QED BY <1>3, <1>4, <1>5, PTL DEF Spec, ImplementsDiagram, Diagram!Spec
=============================================================================
