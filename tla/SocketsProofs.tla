--------------------------- MODULE SocketsProofs ---------------------------
(***************************************************************************)
(* Theorems about Sockets and Startup, for any number of consoles, any     *)
(* program and any segments.  The steps of memoria and of the main thread  *)
(* keep the invariant of SocketsInvariant, and so does every step of       *)
(* Startup.                                                                *)
(***************************************************************************)
EXTENDS SocketsInvariant, Startup

-----------------------------------------------------------------------------
(* Memoria.                                                                *)

(* The request that is first.                                              *)
LEMMA FirstAny ==
  ASSUME NEW known, NEW place, NEW proc, NEW base, NEW requests, NEW resolved,
         Whole(known, place, proc, base, requests, resolved), to_memoria # << >>
  PROVE  /\ requests \in Seq(Request) /\ requests # << >> /\ to_memoria = Stream(requests)
         /\ Stream(requests) # << >> /\ Head(to_memoria) = requests[1].op
         /\ requests[1] \in Request /\ requests[1].pcb \in ConsolaPcbs
         /\ requests[1].pcb.socket_consola \in Consolas /\ requests[1].pcb.id \in Int
         /\ Tail(requests) \in Seq(Request)
<1>1. requests \in Seq(Request) /\ to_memoria = Stream(requests)
  BY DEF Whole, Ghosts, InRequests
<1>2. requests # << >> /\ requests[1] \in Request /\ Head(to_memoria) = requests[1].op
  BY <1>1, FirstOp
<1>3. /\ requests[1].pcb \in ConsolaPcbs /\ requests[1].pcb.socket_consola \in Consolas
      /\ requests[1].pcb.id \in Int
  BY <1>2 DEF Request, ConsolaPcbs, Pcbs
<1>4. Tail(requests) \in Seq(Request)
  BY <1>1, <1>2
<1>5. QED BY <1>1, <1>2, <1>3, <1>4

(* The process whose request is first, if the request tells.               *)
LEMMA FirstRequest ==
  ASSUME NEW known, NEW place, NEW proc, NEW base, NEW requests, NEW resolved,
         Whole(known, place, proc, base, requests, resolved), to_memoria # << >>,
         known = "all" \/ Head(to_memoria) = PAGE_FAULT
  PROVE  /\ requests \in Seq(Request) /\ requests # << >> /\ to_memoria = Stream(requests)
         /\ Stream(requests) # << >> /\ Head(to_memoria) = requests[1].op
         /\ requests[1] \in Request /\ Tells(known, requests[1])
         /\ \E c \in Consolas : /\ c = requests[1].pcb.socket_consola
                                /\ requests[1].pcb = proc[c] /\ Waits(requests[1].op, place[c])
                                /\ proc[c] \in ConsolaPcbs
         /\ LET less == Tail(requests)
                c == requests[1].pcb.socket_consola
            IN /\ less \in Seq(Request) /\ Pending(known, requests, c) /\ ~ Pending(known, less, c)
               /\ OthersPending(known, requests, less, c)
<1>1. /\ requests \in Seq(Request) /\ to_memoria = Stream(requests)
      /\ InRequests(known, place, proc, requests) /\ OnePerConsole(known, requests)
      /\ proc \in [Consolas -> ConsolaPcbs] /\ Own(proc)
  BY DEF Whole, Ghosts, InRequests, Own
<1>2. requests # << >> /\ requests[1] \in Request /\ Head(to_memoria) = requests[1].op
  BY <1>1, FirstOp
<1>3. 1 \in 1 .. Len(requests) /\ Tells(known, requests[1])
  BY <1>1, <1>2 DEF Tells
<1>4. PICK c \in Consolas : requests[1].pcb = proc[c] /\ Waits(requests[1].op, place[c])
  BY <1>1, <1>3 DEF InRequests
<1>5. c = requests[1].pcb.socket_consola /\ proc[c] \in ConsolaPcbs
  BY <1>1, <1>4 DEF Own
<1>6. LET less == Tail(requests)
          e == requests[1].pcb.socket_consola
      IN /\ less \in Seq(Request) /\ Pending(known, requests, e) /\ ~ Pending(known, less, e)
         /\ OthersPending(known, requests, less, e)
  BY <1>1, <1>2, <1>3, LessPending
<1>7. QED BY <1>1, <1>2, <1>3, <1>4, <1>5, <1>6

(* fault to resolved: the answer goes to the other socket.                 *)
LEMMA ResolvePageFaultKeeps ==
  ASSUME NEW known, NEW place, NEW proc, NEW base, NEW requests, NEW resolved,
         Whole(known, place, proc, base, requests, resolved), ResolvePageFault
  PROVE  Kept(known)'
<1> DEFINE less == Tail(requests)
<1>1. /\ Ghosts(place, proc, base, requests, resolved) /\ Types /\ InReady(place, proc)
      /\ InIo(place, proc) /\ AtSched(place, proc) /\ InDispatch(place, proc)
      /\ AtMain(known, place, proc, base) /\ InRequests(known, place, proc, requests)
      /\ InResolved(known, place, proc, resolved) /\ Talks(place, proc) /\ Answers(known, base, requests)
      /\ Own(proc) /\ resolved \in Seq(Request)
  BY DEF Whole, Ghosts, Own
<1>2. to_memoria # << >> /\ Head(to_memoria) = PAGE_FAULT
  BY DEF ResolvePageFault, Requested
<1>3. /\ requests \in Seq(Request) /\ requests # << >> /\ to_memoria = Stream(requests)
      /\ Stream(requests) # << >> /\ requests[1].op = PAGE_FAULT /\ Tells(known, requests[1])
  BY <1>2, FirstRequest
<1>4. PICK c \in Consolas : /\ c = requests[1].pcb.socket_consola
                            /\ requests[1].pcb = proc[c] /\ Waits(requests[1].op, place[c])
                            /\ proc[c] \in ConsolaPcbs
  BY <1>2, FirstRequest
<1>5. less \in Seq(Request) /\ OthersPending(known, requests, less, c)
  BY <1>2, <1>4, FirstRequest
<1>6. place[c] = "fault"
  BY <1>3, <1>4, OpCodes DEF Waits, OpsDiffer
<1>7. /\ to_memoria' = Stream(less)
      /\ page_fault' = page_fault \o <<PAGE_FAULT_RESOLVED>> \o AddPcb(proc[c])
  <2>1. PICK got \in {RecvPcb(Tail(to_memoria))} :
          /\ to_memoria' = SubSeq(got.rest, 3, Len(got.rest))
          /\ page_fault' = page_fault \o <<PAGE_FAULT_RESOLVED>> \o AddPcb(got.value)
    BY DEF ResolvePageFault
  <2>2. got.value = proc[c] /\ SubSeq(got.rest, 3, Len(got.rest)) = Stream(less)
    BY <1>3, <1>4, <2>1, FirstPageFault
  <2>3. QED BY <2>1, <2>2
<1>8. UNCHANGED <<kernel, consola, to_kernel, to_consola, backlog, main, process_count, sched,
                  ready, io, to_cpu, from_cpu, left, from_memoria, page_tables>>
  BY DEF ResolvePageFault, HandleKernel, consolas, queues, dispatch
<1> DEFINE place2 == Moved(place, c, "resolved")
           m == [op |-> PAGE_FAULT_RESOLVED, pcb |-> proc[c]]
           more == Append(resolved, m)
<1>9. /\ Step(place, proc, c, place2, proc) /\ place2[c] = "resolved"
      /\ Ghosts(place2, proc, base, requests, resolved)
  <2>1. "resolved" \in Places /\ place[c] \notin Uncreated
    BY <1>6 DEF Places, Uncreated
  <2>2. QED BY <1>1, <2>1, MovedStep
<1> HIDE DEF place2
<1>10. InRequests(known, place2, proc, less)'
  <2>1. OtherWaits(place, c)
    BY <1>8 DEF OtherWaits
  <2>2. QED BY <1>1, <1>3, <1>4, <1>7, <1>9, <2>1, RequestsLess
<1>11. InResolved(known, place2, proc, more)' /\ more \in Seq(Request)
  <2>1. page_fault' = Joined(page_fault, FieldsOf(m))
    <3>1. page_fault \in Seq(Field)
      BY <1>1, StreamType DEF InResolved
    <3>2. QED BY <1>4, <1>7, <3>1, PcbFields
  <2>2. place[c] # "resolved"
    BY <1>6
  <2>3. QED BY <1>1, <1>9, <2>1, <2>2, ResolvedMore
<1> HIDE DEF less, more, m
<1>12. Ghosts(place2, proc, base, less, more)
  BY <1>5, <1>9, <1>11 DEF Ghosts
<1>13. /\ place[c] \notin Uncreated \cup {"main", "finish", "cpu", "back", "ready"}
       /\ place2[c] \notin Uncreated \cup {"main", "finish"} /\ place[c] \notin IoPlaces
       /\ place[c] \notin {"told_exit", "ended"} /\ place2[c] \notin {"told_exit", "ended"}
  BY <1>6, <1>9 DEF Uncreated, IoPlaces, IoAsk
<1>14. Freed(known, place2[c], less, c) = Freed(known, place[c], requests, c)
  BY <1>13, FreedIs
<1>15. Types' /\ \A d \in Consolas : SocketKept(d)
  BY <1>1, <1>8 DEF Types, SocketKept
<1>16. Talk(place2[c], proc[c], c)'
  <2>1. Talk("fault", proc[c], c) /\ SocketKept(c)
    BY <1>1, <1>6, <1>15 DEF Talks
  <2>2. Talk("resolved", proc[c], c)'
    BY <2>1, QuietTalk DEF Quiet
  <2>3. QED BY <1>9, <2>2
<1>17. /\ \A pcb \in ready' : pcb \in ready /\ pcb.socket_consola # c
       /\ \A b \in io' : b \in io /\ b.pcb.socket_consola # c
  BY <1>1, <1>8, <1>13, NotReady, NotInIo
<1>18. AtSched(place2, proc)'
  BY <1>1, <1>8, <1>9, <1>13, SchedKept
<1>19. InDispatch(place2, proc)'
  BY <1>1, <1>8, <1>9, <1>13, DispatchKept
<1>20. Answers(known, base, less)'
  BY <1>1, <1>5, <1>8, <1>13, AnswersKept
<1>21. QED
  BY <1>5, <1>8, <1>9, <1>10, <1>11, <1>12, <1>13, <1>14, <1>15, <1>16, <1>17, <1>18, <1>19,
     <1>20, Travels

(* What the main thread is doing.                                          *)
LEMMA MainAt ==
  ASSUME NEW known, NEW place, NEW proc, NEW base, AtMain(known, place, proc, base), Own(proc),
         main.at # "accept"
  PROVE  /\ Console \in Consolas /\ place[Console] = "main"
         /\ \A c \in Consolas : place[c] = "main" <=> c = Console
         /\ main.pcb = proc[Console] /\ Creating(known, base, proc[Console], Console)
         /\ main.at \in {"recv_size", "recv_index"} =>
              /\ main.missing \in Int
              /\ known = "all" => /\ main.missing \in 0 .. Len(Segmentos[Console])
                                  /\ main.at = "recv_index" => main.missing > 0
<1>1. PICK m \in Consolas : /\ \A c \in Consolas : place[c] = "main" <=> c = m
                            /\ Creating(known, base, proc[m], m)
  BY DEF AtMain
<1>2. main.pcb = proc[m]
  BY <1>1 DEF Creating
<1>3. Console = m
  BY <1>2 DEF Console, Own
<1>4. main.at \in {"recv_size", "recv_index"} =>
        /\ main.missing \in Int
        /\ known = "all" => /\ main.missing \in 0 .. Len(Segmentos[m])
                            /\ main.at = "recv_index" => main.missing > 0
  BY <1>1 DEF Creating, RowsRead
<1>5. QED BY <1>1, <1>2, <1>3, <1>4

LEMMA MainStates ==
  ASSUME NEW known, NEW place, NEW proc, NEW base, AtMain(known, place, proc, base)
  PROVE  main.at \in {"accept", "recv_op", "recv_count", "recv_size", "recv_index"}
BY DEF AtMain, Creating

(* What memoria has answered to it.                                        *)
LEMMA ToMainIs ==
  ASSUME NEW known, known = "all", NEW place, NEW proc, NEW base \in [Consolas -> Nat], NEW requests,
         AtMain(known, place, proc, base), Own(proc)
  PROVE  /\ ToMain(known, base, requests) \in Seq(Field)
         /\ ToMain(known, base, requests) # << >> =>
              /\ main.at # "accept" /\ ~ Pending(known, requests, Console)
              /\ \/ main.at = "recv_op" /\ Head(ToMain(known, base, requests)) = PROCESS_STARTED
                 \/ /\ main.at = "recv_count"
                    /\ Head(ToMain(known, base, requests)) = Len(Segmentos[Console])
                 \/ /\ main.at = "recv_size" /\ main.missing \in 1 .. Len(Segmentos[Console])
                    /\ Head(ToMain(known, base, requests))
                         = Segmentos[Console][Len(Segmentos[Console]) - main.missing + 1]
                 \/ /\ main.at = "recv_index" /\ main.missing \in 1 .. Len(Segmentos[Console])
                    /\ Head(ToMain(known, base, requests))
                         = base[Console] + Len(Segmentos[Console]) - main.missing
<1> DEFINE s == ToMain(known, base, requests)
           len == Len(Segmentos[Console])
           k == len - main.missing
<1>1. CASE main.at = "accept" \/ Pending(known, requests, Console)
  <2>1. s = << >> /\ << >> \in Seq(Field)
    BY <1>1 DEF ToMain
  <2>2. QED BY <2>1, Zenon
<1>2. CASE main.at # "accept" /\ ~ Pending(known, requests, Console)
  <2>1. /\ Console \in Consolas /\ len \in Nat /\ base[Console] \in Nat
        /\ main.at \in {"recv_size", "recv_index"} =>
             main.missing \in 0 .. len /\ (main.at = "recv_index" => main.missing > 0)
    BY <1>2, MainAt, ProgramTypes
  <2>2. AddSegmentTable(Table(base, Console)) = Joined(<<len>>, Rows(base, Console, 0))
        /\ AddSegmentTable(Table(base, Console)) \in Seq(Field)
        /\ Rows(base, Console, 0) \in Seq(Field)
    <3>1. 0 \in 0 .. Len(Segmentos[Console])
      BY <2>1
    <3>2. QED BY <2>1, <3>1, TableSent, RowsAre
  <2>3. CASE main.at = "recv_op"
    <3>1. s = Joined(<<PROCESS_STARTED>>, AddSegmentTable(Table(base, Console)))
      BY <1>2, <2>3, Zenon DEF ToMain
    <3>2. PROCESS_STARTED \in Field
      BY NumbersAreFields
    <3>3. <<PROCESS_STARTED>> \in Seq(Field) /\ Head(s) = PROCESS_STARTED
      BY <2>2, <3>1, <3>2, OneFirst
    <3>4. s \in Seq(Field)
      <4> DEFINE rows == AddSegmentTable(Table(base, Console))
                 op == <<PROCESS_STARTED>>
      <4>1. rows \in Seq(Field) /\ op \in Seq(Field) /\ s = Joined(op, rows)
        BY <2>2, <3>1, <3>3
      <4> HIDE DEF rows, op, s
      <4>2. QED BY <4>1, ConcatFacts DEF Joined
    <3>5. QED BY <1>2, <2>3, <3>3, <3>4
  <2>4. CASE main.at = "recv_count"
    <3>1. s = Joined(<<len>>, Rows(base, Console, 0)) /\ s \in Seq(Field)
      <4>1. s = AddSegmentTable(Table(base, Console))
        BY <1>2, <2>4, Zenon DEF ToMain
      <4>2. QED BY <2>2, <4>1
    <3>2. len \in Field
      BY <2>1, NumbersAreFields
    <3>3. Head(s) = len
      <4> HIDE DEF len
      <4>1. QED BY <2>2, <3>1, <3>2, OneFirst
    <3>4. QED BY <1>2, <2>4, <3>1, <3>3
  <2>5. CASE main.at = "recv_size"
    <3>1. main.missing \in 0 .. len /\ k \in 0 .. len
      BY <2>1, <2>5
    <3>2. s = Rows(base, Console, k)
      BY <1>2, <2>5, Zenon DEF ToMain
    <3>3. s \in Seq(Field)
      BY <2>1, <3>1, <3>2, RowsAre
    <3>4. CASE main.missing = 0
      <4>1. s = << >>
        <5>1. k = len
          BY <2>1, <3>4
        <5>2. QED BY <2>1, <3>2, <5>1, NoRowLeft
      <4>2. QED BY <3>3, <4>1, Zenon
    <3>5. CASE main.missing # 0
      <4>1. k \in 0 .. Len(Segmentos[Console]) - 1 /\ k + 1 \in 0 .. len /\ k + 1 \in 1 .. len
            /\ main.missing \in 1 .. len
        BY <2>1, <3>1, <3>5
      <4> DEFINE size == Segmentos[Console][k + 1]
                 index == base[Console] + k
                 rest == Rows(base, Console, k + 1)
      <4>2. s = Joined(<<size>>, Joined(<<index>>, rest)) /\ rest \in Seq(Field)
        BY <2>1, <3>2, <4>1, FirstRow, RowsAre
      <4>3. size \in Field /\ index \in Field
        <5>1. size \in Nat
          BY <2>1, <4>1, ProgramTypes
        <5>2. index \in Int
          <6>1. k \in Int
            BY <4>1
          <6> HIDE DEF k, len
          <6>2. QED BY <2>1, <6>1
        <5>3. QED BY <5>1, <5>2, NumbersAreFields
      <4>4. Head(s) = size
        <5> HIDE DEF size, index, rest
        <5>1. Joined(<<index>>, rest) \in Seq(Field)
          BY <4>2, <4>3, OneFirst, JoinedIsSeq
        <5>2. QED BY <4>2, <4>3, <5>1, OneFirst
      <4>5. QED BY <1>2, <2>5, <3>3, <4>1, <4>4
    <3>6. QED BY <3>4, <3>5
  <2>6. CASE main.at = "recv_index"
    <3> DEFINE index == base[Console] + len - main.missing
               rest == Rows(base, Console, k + 1)
    <3>1. main.missing \in 1 .. len /\ k + 1 \in 0 .. Len(Segmentos[Console])
      BY <2>1, <2>6
    <3>2. s = Joined(<<index>>, rest)
      BY <1>2, <2>6, Zenon DEF ToMain
    <3>3. rest \in Seq(Field)
      BY <2>1, <3>1, RowsAre
    <3>4. index \in Field
      <4>1. index \in Int
        BY <2>1, <3>1
      <4>2. QED BY <4>1, NumbersAreFields
    <3>5. Head(s) = index /\ s \in Seq(Field)
      <4> HIDE DEF index, rest
      <4> HIDE DEF s
      <4>1. <<index>> \in Seq(Field) /\ Head(s) = index
        BY <3>2, <3>3, <3>4, OneFirst
      <4>2. s \in Seq(Field)
        BY <3>2, <3>3, <4>1, JoinedIsSeq
      <4>3. QED BY <4>1, <4>2
    <3>6. QED BY <1>2, <2>6, <3>1, <3>5
  <2>7. main.at \in {"accept", "recv_op", "recv_count", "recv_size", "recv_index"}
    BY MainStates
  <2>8. QED BY <1>2, <2>3, <2>4, <2>5, <2>6, <2>7
<1>3. QED BY <1>1, <1>2

(* There are no more processes than consoles.                              *)
LEMMA CountBound ==
  ASSUME NEW place, NEW proc, Ids(place, proc)
  PROVE  /\ process_count \in Nat /\ process_count <= Cardinality(Consolas)
         /\ Cardinality(Consolas) \in Nat
         /\ IsFiniteSet(Created(place)) /\ process_count = Cardinality(Created(place))
<1>1. IsFiniteSet(Consolas) /\ Created(place) \subseteq Consolas
  BY SocketsAssumption DEF Created
<1>2. /\ IsFiniteSet(Created(place))
      /\ Cardinality(Created(place)) <= Cardinality(Consolas)
  BY <1>1, FS_Subset
<1>3. Cardinality(Consolas) \in Nat /\ Cardinality(Created(place)) \in Nat
  BY <1>1, <1>2, FS_CardinalityType
<1>4. QED BY <1>2, <1>3 DEF Ids

(* What the scheduler finds first when it reads the answer it waits for:   *)
(* main is not in the middle of its own one.                               *)
LEMMA FinishedFirst ==
  ASSUME NEW known, known = "all", NEW place, NEW proc, NEW base, NEW requests, NEW resolved,
         Whole(known, place, proc, base, requests, resolved), ~ InAnswer,
         sched.at = "recv_finished", kernel = "up", from_memoria # << >>,
         Head(from_memoria) = PROCESS_FINISHED
  PROVE  /\ ToSched(known, requests) # << >>
         /\ Tail(from_memoria) = ToMain(known, base, requests)
<1> DEFINE ahead == ToMain(known, base, requests)
           none == << >>
           one == <<PROCESS_FINISHED>>
<1>1. /\ base \in [Consolas -> Nat] /\ AtMain(known, place, proc, base) /\ Own(proc)
      /\ Answers(known, base, requests)
  BY DEF Whole, Ghosts, Own
<1>2. ahead \in Seq(Field) /\ PROCESS_FINISHED \in Field
  BY <1>1, ToMainIs, NumbersAreFields
<1>3. ahead # << >> => Head(ahead) # PROCESS_FINISHED
  <2>1. ASSUME ahead # << >> PROVE Head(ahead) = PROCESS_STARTED
    <3>1. /\ main.at \in {"recv_op", "recv_count", "recv_index"} \/ main.missing \in 1 .. Len(Segmentos[Console])
          /\ main.at = "recv_op" => Head(ahead) = PROCESS_STARTED
          /\ main.at \in {"recv_op", "recv_count", "recv_size", "recv_index"}
      BY <1>1, <2>1, ToMainIs
    <3>2. QED BY <3>1 DEF InAnswer
  <2>2. QED BY <2>1 DEF PROCESS_STARTED, PROCESS_FINISHED
<1> HIDE DEF ahead
<1>4. /\ one \in Seq(Field) /\ none \in Seq(Field)
      /\ Tail(Joined(one, ahead)) = ahead
      /\ Joined(ahead, none) = ahead /\ Joined(none, ahead) = ahead /\ Joined(none, one) = one
      /\ Tail(one) = none
  BY <1>2, OneFirst, ConcatFacts DEF Joined
<1>5. ahead # << >> => Head(Joined(ahead, one)) = Head(ahead)
  BY <1>2, <1>4 DEF Joined
<1>6. \/ from_memoria = Joined(ahead, ToSched(known, requests))
      \/ from_memoria = Joined(ToSched(known, requests), ahead)
  BY <1>1 DEF Answers, ahead
<1>7. ToSched(known, requests) = one \/ ToSched(known, requests) = none
  BY Zenon DEF ToSched
<1> HIDE DEF one, none
<1>8. CASE ToSched(known, requests) = none
  <2>1. from_memoria = ahead
    BY <1>4, <1>6, <1>8, Zenon
  <2>2. QED BY <1>3, <2>1
<1>9. CASE ToSched(known, requests) = one
  <2>1. ToSched(known, requests) # << >>
    <3>1. one # << >>
      BY DEF one
    <3>2. QED BY <1>9, <3>1
  <2>2. CASE from_memoria = Joined(one, ahead)
    BY <1>4, <2>1, <2>2 DEF ahead
  <2>3. CASE from_memoria = Joined(ahead, one)
    <3>1. ahead = << >>
      BY <1>3, <1>5, <2>3
    <3>2. from_memoria = one
      BY <1>4, <2>3, <3>1, Zenon DEF none
    <3>3. QED BY <1>4, <2>1, <3>1, <3>2, Zenon DEF none, ahead
  <2>4. QED BY <1>6, <1>9, <2>2, <2>3
<1>10. QED BY <1>7, <1>8, <1>9

(* A process that is not at a page fault has no request that tells of it,  *)
(* when only those tell.                                                   *)
LEMMA OnlyFaultsTell ==
  ASSUME NEW known, known # "all", NEW place, NEW proc, NEW c, NEW requests,
         InRequests(known, place, proc, requests), place[c] # "fault", Own(proc)
  PROVE  ~ Pending(known, requests, c)
<1>1. ASSUME NEW k \in 1 .. Len(requests), Tells(known, requests[k])
      PROVE  requests[k].pcb.socket_consola # c
  <2>1. PICK d \in Consolas : requests[k].pcb = proc[d] /\ Waits(requests[k].op, place[d])
    BY <1>1 DEF InRequests
  <2>2. place[d] = "fault"
    BY <1>1, <2>1, OpCodes DEF Tells, Waits, OpsDiffer
  <2>3. QED BY <2>1, <2>2 DEF Own
<1>2. QED BY <1>1 DEF Pending

(* finish to told_exit: what the scheduler reads is the answer to          *)
(* PROCESS_FINISHED, unless it is of the answer to the main thread.        *)
LEMMA SchedRecvFinishedKeeps ==
  ASSUME NEW known, NEW place, NEW proc, NEW base, NEW requests, NEW resolved,
         Whole(known, place, proc, base, requests, resolved),
         known = "all" => ~ AnswerTaken, SchedRecvFinished
  PROVE  Kept(known)'
<1>1. /\ sched.at = "recv_finished" /\ kernel = "up" /\ from_memoria # << >>
      /\ from_memoria' = Tail(from_memoria)
      /\ UNCHANGED <<consola, to_kernel, backlog, main, process_count, ready, io, to_cpu,
                     from_cpu, to_memoria, page_fault, page_tables, left>>
  BY DEF SchedRecvFinished, RecvFromMemoria, queues, dispatch
<1>4. from_memoria' \in Seq(Int)
  <2>1. from_memoria \in Seq(Int)
    BY DEF Whole, Types
  <2>2. QED BY <1>1, <2>1
<1>2. CASE Head(from_memoria) # PROCESS_FINISHED
  <2>1. kernel' = "down" /\ UNCHANGED <<sched, to_consola>>
    BY <1>2 DEF SchedRecvFinished
  <2>2. QED BY <1>1, <1>4, <2>1, NothingMoves
<1>3. CASE Head(from_memoria) = PROCESS_FINISHED
  <2>1. /\ Ghosts(place, proc, base, requests, resolved) /\ Types /\ InReady(place, proc)
        /\ InIo(place, proc) /\ AtSched(place, proc) /\ InDispatch(place, proc)
        /\ AtMain(known, place, proc, base) /\ InRequests(known, place, proc, requests)
        /\ InResolved(known, place, proc, resolved) /\ Talks(place, proc) /\ Own(proc)
        /\ base \in [Consolas -> Nat]
    BY DEF Whole, Ghosts, Own
  <2>2. /\ to_consola' = Send(to_consola, sched.pcb.socket_consola, <<PROCESS_FINISHED>>)
        /\ sched' = [at |-> "execute_algorithm"] /\ UNCHANGED kernel
    BY <1>3 DEF SchedRecvFinished
  <2>3. known = "all" => /\ ToSched(known, requests) # << >>
                         /\ Tail(from_memoria) = ToMain(known, base, requests)
    <3>1. known = "all" => ~ InAnswer
      BY <1>3 DEF AnswerTaken
    <3>2. QED BY <1>1, <1>3, <3>1, FinishedFirst
  <2>4. PICK c \in Consolas : /\ sched = [at |-> "recv_finished", pcb |-> proc[c]]
                              /\ \A d \in Consolas : place[d] = "finish" <=> d = c
    BY <1>1, <2>1 DEF AtSched
  <2>5. sched.pcb.socket_consola = c /\ place[c] = "finish"
    BY <2>1, <2>4 DEF Own
  <2>6. ~ Pending(known, requests, c)
    <3>1. CASE known = "all"
      BY <2>3, <2>5, <3>1 DEF ToSched
    <3>2. CASE known # "all"
      BY <2>1, <2>5, <3>2, OnlyFaultsTell
    <3>3. QED BY <3>1, <3>2
  <2> DEFINE place2 == Moved(place, c, "told_exit")
             message == <<PROCESS_FINISHED>>
  <2>7. /\ Step(place, proc, c, place2, proc) /\ place2[c] = "told_exit"
        /\ Ghosts(place2, proc, base, requests, resolved)
        /\ \A d \in Consolas : d # c => place2[d] = place[d]
    <3>1. "told_exit" \in Places /\ place[c] \notin Uncreated
      BY <2>5 DEF Places, Uncreated
    <3>2. \A d \in Consolas : d # c => place2[d] = place[d]
      BY DEF Moved
    <3>3. QED BY <2>1, <3>1, <3>2, MovedStep
  <2> HIDE DEF place2
  <2>8. /\ consola[c] \notin {"start", "failed"} /\ consola[c] # "ended"
        /\ consola[c] # "killed"
        /\ to_kernel[c] = << >> /\ to_consola[c] = << >> /\ left[c] = At(proc[c])
    <3>1. Talk("finish", proc[c], c)
      BY <2>1, <2>5 DEF Talks
    <3>2. QED BY <3>1, Zenon DEF Talk, Uncreated
  <2>9. message \in Seq(Field)
    BY NumbersAreFields
  <2>10. to_consola' = Send(to_consola, c, message)
    BY <2>2, <2>5
  <2> HIDE DEF message
  <2>11. /\ to_consola' \in [Consolas -> Seq(Field)] /\ to_consola'[c] = message
         /\ \A d \in Consolas : d # c => to_consola'[d] = to_consola[d]
    BY <2>1, <2>8, <2>9, <2>10, ConsolaTold
  <2>12. Types' /\ \A d \in Consolas : d # c => SocketKept(d)
    BY <1>1, <1>4, <2>1, <2>2, <2>11 DEF Types, SocketKept
  <2>13. Talk(place2[c], proc[c], c)'
    <3>1. /\ consola'[c] \notin {"start", "failed"} /\ consola'[c] # "ended"
          /\ consola'[c] # "killed" /\ to_kernel'[c] = << >> /\ left'[c] = At(proc[c])
      BY <1>1, <2>8
    <3>2. to_consola'[c] = <<PROCESS_FINISHED>>
      BY <2>11 DEF message
    <3>3. Talk("told_exit", proc[c], c)'
      BY <3>1, <3>2, Zenon DEF Talk, Uncreated
    <3>4. QED BY <2>7, <3>3
  <2>14. /\ place[c] \notin Uncreated \cup {"main", "cpu", "back", "ready", "resolved"}
         /\ place2[c] \notin Uncreated \cup {"main"} /\ place[c] \notin IoPlaces
    BY <2>5, <2>7 DEF Uncreated, IoPlaces, IoAsk
  <2>15. OthersPending(known, requests, requests, c)
    BY DEF OthersPending
  <2>16. Freed(known, place2[c], requests, c) = Freed(known, place[c], requests, c)
    <3>1. Freed(known, place2[c], requests, c) /\ Freed(known, place[c], requests, c)
      BY <2>5, <2>6, <2>7 DEF Freed
    <3>2. QED BY <3>1 DEF Freed
  <2>17. /\ \A pcb \in ready' : pcb \in ready /\ pcb.socket_consola # c
         /\ \A b \in io' : b \in io /\ b.pcb.socket_consola # c
    BY <1>1, <2>1, <2>14, NotReady, NotInIo
  <2>18. AtSched(place2, proc)'
    BY <2>2, <2>4, <2>7 DEF AtSched
  <2>19. InDispatch(place2, proc)'
    BY <1>1, <2>1, <2>2 DEF InDispatch
  <2>20. InRequests(known, place2, proc, requests)'
    BY <1>1, <2>1, <2>6, <2>7, RequestsKept
  <2>21. InResolved(known, place2, proc, resolved)'
    BY <1>1, <2>1, <2>7, <2>14, ResolvedKept
  <2>22. Answers(known, base, requests)'
    <3> SUFFICES ASSUME known = "all" PROVE Answers(known, base, requests)'
      BY DEF Answers
    <3>1. ToMain(known, base, requests)' = ToMain(known, base, requests)
      BY <1>1 DEF ToMain, Console
    <3>2. ToSched(known, requests)' = << >>
      BY <2>2 DEF ToSched
    <3>3. Joined(ToMain(known, base, requests), << >>) = ToMain(known, base, requests)
      <4>1. ToMain(known, base, requests) \in Seq(Field)
        BY <2>1, ToMainIs
      <4>2. QED BY <4>1, ConcatFacts DEF Joined
    <3>4. from_memoria' = Joined(ToMain(known, base, requests)', ToSched(known, requests)')
      BY <1>1, <2>3, <3>1, <3>2, <3>3, Zenon
    <3>5. QED BY <3>4, Zenon DEF Answers
  <2>23. QED
    BY <1>1, <2>7, <2>12, <2>13, <2>14, <2>15, <2>16, <2>17, <2>18, <2>19, <2>20, <2>21,
       <2>22, Travels
<1>5. QED BY <1>2, <1>3

(* Memoria answers the request that is first: nothing else moves.          *)
LEMMA RequestServed ==
  ASSUME NEW known, NEW place, NEW proc, NEW base, NEW requests, NEW resolved,
         NEW base2 \in [Consolas -> Nat], NEW less, less = Tail(requests),
         Whole(known, place, proc, base, requests, resolved), to_memoria # << >>,
         UNCHANGED <<kernel, consola, backlog, to_kernel, to_consola, main, process_count, sched,
                     ready, io, to_cpu, from_cpu, page_fault, left>>,
         to_memoria' = Stream(less),
         page_tables' \in Seq(PageTableRow), from_memoria' \in Seq(Int),
         AtMain(known, place, proc, base2)', InTables(known, place, proc, base2, less)',
         Answers(known, base2, less)'
  PROVE  Kept(known)'
<1>1. /\ Ghosts(place, proc, base, requests, resolved) /\ Types
      /\ InRequests(known, place, proc, requests) /\ Own(proc) /\ proc \in [Consolas -> ConsolaPcbs]
      /\ place \in [Consolas -> Places]
  BY DEF Whole, Ghosts, Own
<1>2. /\ requests \in Seq(Request) /\ requests # << >> /\ less \in Seq(Request)
      /\ \A k \in 1 .. Len(less) : less[k] = requests[k + 1] /\ k + 1 \in 1 .. Len(requests)
  BY FirstAny
<1>3. OnePerConsole(known, less)
  <2>1. OnePerConsole(known, requests)
    BY <1>1 DEF InRequests
  <2>2. QED BY <1>2, <2>1, LessPending
<1>4. ASSUME NEW k \in 1 .. Len(less), Tells(known, less[k])
      PROVE  \E c \in Consolas : less[k].pcb = proc[c] /\ Waits(less[k].op, place[c])'
  <2>1. PICK c \in Consolas : /\ requests[k + 1].pcb = proc[c]
                              /\ Waits(requests[k + 1].op, place[c])
    BY <1>1, <1>2, <1>4 DEF InRequests
  <2>2. QED BY <1>2, <2>1 DEF Waits
<1>5. InRequests(known, place, proc, less)'
  BY <1>3, <1>4 DEF InRequests
<1>6. Ghosts(place, proc, base2, less, resolved)
  BY <1>1, <1>2 DEF Ghosts
<1>7. Types'
  BY <1>1 DEF Types
<1>8. Ids(place, proc)' /\ InReady(place, proc)' /\ InIo(place, proc)' /\ InBacklog(place)'
  BY DEF Whole, Ids, InReady, InIo, InBacklog
<1>9. AtSched(place, proc)' /\ InDispatch(place, proc)'
  BY DEF Whole, AtSched, InDispatch
<1>10. InResolved(known, place, proc, resolved)'
  BY DEF Whole, InResolved
<1>11. Talks(place, proc)'
  BY DEF Whole, Talks, Talk
<1>12. Whole(known, place, proc, base2, less, resolved)'
  BY <1>5, <1>6, <1>7, <1>8, <1>9, <1>10, <1>11 DEF Whole
<1>13. QED BY <1>12 DEF Kept

(* It does not matter which one it is when only the places are known.      *)
LEMMA ServedAnyhow ==
  ASSUME NEW known, known # "all", NEW place, NEW proc, NEW base, NEW requests, NEW resolved,
         Whole(known, place, proc, base, requests, resolved), to_memoria # << >>,
         UNCHANGED <<kernel, consola, backlog, to_kernel, to_consola, main, process_count, sched,
                     ready, io, to_cpu, from_cpu, page_fault, left>>,
         to_memoria' = Stream(Tail(requests)),
         page_tables' \in Seq(PageTableRow), from_memoria' \in Seq(Int)
  PROVE  Kept(known)'
<1>1. base \in [Consolas -> Nat] /\ AtMain(known, place, proc, base)
  BY DEF Whole, Ghosts
<1>2. AtMain(known, place, proc, base)'
  BY <1>1 DEF AtMain, Creating, RowsRead
<1>3. InTables(known, place, proc, base, Tail(requests))' /\ Answers(known, base, Tail(requests))'
  BY DEF InTables, Answers
<1>4. QED BY <1>1, <1>2, <1>3, RequestServed

(* The page tables of a process that ends: only its own are freed.         *)
IndicesOf(table) == {table[k].page_table_index : k \in DOMAIN table}
FreedAt(indices) ==
  [i \in DOMAIN page_tables |-> [page_tables[i] EXCEPT !.freed = @ \/ i - 1 \in indices]]
(* A table that is freed is the same but for that.                         *)
LEMMA FreedTables ==
  ASSUME NEW indices, Types, page_tables' = FreedAt(indices)
  PROVE  /\ page_tables' \in Seq(PageTableRow)
         /\ Len(page_tables') = Len(page_tables)
         /\ \A i \in 1 .. Len(page_tables) :
              /\ page_tables'[i].pid = page_tables[i].pid
              /\ page_tables'[i].size = page_tables[i].size
              /\ page_tables'[i].freed = (page_tables[i].freed \/ i - 1 \in indices)
<1> DEFINE n == Len(page_tables)
<1>1. /\ n \in Nat /\ page_tables \in Seq(PageTableRow) /\ DOMAIN page_tables = 1 .. n
      /\ \A i \in 1 .. n : page_tables[i] \in PageTableRow
  BY DEF Types
<1>2. \A i \in 1 .. n :
        /\ page_tables'[i] = [page_tables[i] EXCEPT !.freed = @ \/ i - 1 \in indices]
        /\ page_tables'[i] \in PageTableRow
        /\ page_tables'[i].pid = page_tables[i].pid
        /\ page_tables'[i].size = page_tables[i].size
        /\ page_tables'[i].freed = (page_tables[i].freed \/ i - 1 \in indices)
  <2>1. ASSUME NEW i \in 1 .. n
        PROVE  /\ page_tables'[i] = [page_tables[i] EXCEPT !.freed = @ \/ i - 1 \in indices]
               /\ page_tables'[i] \in PageTableRow
               /\ page_tables'[i].pid = page_tables[i].pid
               /\ page_tables'[i].size = page_tables[i].size
               /\ page_tables'[i].freed = (page_tables[i].freed \/ i - 1 \in indices)
    <3>1. page_tables[i] \in PageTableRow
      BY <1>1
    <3>2. page_tables'[i] = [page_tables[i] EXCEPT !.freed = page_tables[i].freed \/ i - 1 \in indices]
      BY <1>1 DEF FreedAt
    <3>3. PICK value : value = (page_tables[i].freed \/ i - 1 \in indices)
      OBVIOUS
    <3>4. value \in BOOLEAN
      BY <3>3, Zenon
    <3>5. page_tables'[i] = [page_tables[i] EXCEPT !.freed = value]
      BY <3>2, <3>3, Zenon
    <3> DEFINE row == page_tables[i]
               row2 == page_tables'[i]
    <3>6. row2 \in PageTableRow /\ row2.pid = row.pid /\ row2.size = row.size /\ row2.freed = value
      <4> HIDE DEF row, row2
      <4>1. row \in PageTableRow /\ row2 = [row EXCEPT !.freed = value]
        BY <3>1, <3>5 DEF row, row2
      <4>2. QED BY <3>4, <4>1 DEF PageTableRow
    <3>7. QED BY <3>2, <3>3, <3>6, Zenon
  <2>2. QED BY <2>1
<1>3. page_tables' \in Seq(PageTableRow) /\ Len(page_tables') = n
  <2>1. PICK after : after = page_tables'
    OBVIOUS
  <2>2. DOMAIN after = 1 .. n /\ after = [i \in 1 .. n |-> after[i]]
    BY <1>1, <2>1 DEF FreedAt
  <2>3. \A i \in 1 .. n : after[i] \in PageTableRow
    BY <1>2, <2>1
  <2> HIDE DEF n
  <2>4. after \in Seq(PageTableRow) /\ Len(after) = n
    BY <1>1, <2>2, <2>3
  <2>5. QED BY <2>1, <2>4
<1>4. QED BY <1>2, <1>3

(* The tables of the process that finishes are those memoria frees.        *)
LEMMA OwnFreed ==
  ASSUME NEW known, NEW place, NEW proc, NEW base \in [Consolas -> Nat], NEW requests, NEW c \in Consolas,
         known = "all", Types, InTables(known, place, proc, base, requests), place[c] = "finish",
         page_tables' = FreedAt(IndicesOf(proc[c].segment_table))
  PROVE  /\ page_tables' \in Seq(PageTableRow)
         /\ Len(page_tables') = Len(page_tables)
         /\ \A i \in 1 .. Len(page_tables) :
              /\ page_tables'[i].pid = page_tables[i].pid
              /\ page_tables'[i].size = page_tables[i].size
              /\ page_tables'[i].freed = (page_tables[i].freed \/ page_tables[i].pid = proc[c].id)
<1> DEFINE n == Len(page_tables)
           len == Len(Segmentos[c])
           indices == IndicesOf(proc[c].segment_table)
<1>1. /\ n \in Nat /\ page_tables \in Seq(PageTableRow) /\ DOMAIN page_tables = 1 .. n
      /\ \A i \in 1 .. n : page_tables[i] \in PageTableRow
  BY DEF Types
<1>2. TablesOf(known, place[c], proc[c], base, requests, c)
  <2>1. c \in Created(place) /\ Built(known, place[c], requests, c)
    BY DEF Created, Built, Uncreated
  <2>2. QED BY <2>1 DEF InTables
<1>3. /\ base[c] + len <= n /\ len \in Nat /\ base[c] \in Nat
      /\ \A i \in 1 .. n : page_tables[i].pid = proc[c].id <=> i \in base[c] + 1 .. base[c] + len
      /\ proc[c].segment_table = Table(base, c)
  BY <1>2, ProgramTypes DEF TablesOf
<1>4. \A x : x \in indices <=> \E k \in 1 .. len : x = base[c] + k - 1
  <2> DEFINE table == Table(base, c)
  <2>1. DOMAIN table = 1 .. len /\ \A k \in 1 .. len : table[k].page_table_index = base[c] + k - 1
    BY DEF Table
  <2>2. indices = {table[k].page_table_index : k \in DOMAIN table}
    BY <1>3 DEF IndicesOf
  <2> HIDE DEF table, len, indices
  <2>3. QED BY <2>1, <2>2
<1> HIDE DEF indices
<1>5. \A i \in 1 .. n : i - 1 \in indices <=> page_tables[i].pid = proc[c].id
  <2> HIDE DEF n, len
  <2>1. ASSUME NEW i \in 1 .. n
        PROVE  i - 1 \in indices <=> i \in base[c] + 1 .. base[c] + len
    <3>1. PICK from : from = base[c]
      OBVIOUS
    <3>2. from \in Nat /\ len \in Nat /\ i \in Int
      BY <1>1, <1>3, <3>1
    <3>3. i - 1 \in indices <=> \E k \in 1 .. len : i - 1 = from + k - 1
      BY <1>4, <3>1
    <3>4. (\E k \in 1 .. len : i - 1 = from + k - 1) => i \in from + 1 .. from + len
      BY <3>2
    <3>5. ASSUME i \in from + 1 .. from + len PROVE \E k \in 1 .. len : i - 1 = from + k - 1
      <4>1. i - from \in 1 .. len /\ i - 1 = from + (i - from) - 1
        BY <3>2, <3>5
      <4>2. QED BY <4>1
    <3>6. QED BY <3>1, <3>3, <3>4, <3>5
  <2>2. QED BY <1>3, <2>1
<1>6. /\ page_tables' \in Seq(PageTableRow) /\ Len(page_tables') = n
      /\ \A i \in 1 .. n :
           /\ page_tables'[i].pid = page_tables[i].pid
           /\ page_tables'[i].size = page_tables[i].size
           /\ page_tables'[i].freed = (page_tables[i].freed \/ i - 1 \in indices)
  BY FreedTables DEF indices
<1>8. \A i \in 1 .. n :
        page_tables'[i].freed = (page_tables[i].freed \/ page_tables[i].pid = proc[c].id)
  BY <1>5, <1>6
<1>9. QED BY <1>6, <1>8

(* What memoria does with PROCESS_FINISHED.                                *)
LEMMA ProcessFinishedDoes ==
  ASSUME NEW known, NEW place, NEW proc, NEW base, NEW requests, NEW resolved,
         Whole(known, place, proc, base, requests, resolved), ProcessFinished
  PROVE  /\ to_memoria # << >> /\ Head(to_memoria) = PROCESS_FINISHED
         /\ requests[1].op = PROCESS_FINISHED
         /\ to_memoria' = Stream(Tail(requests))
         /\ page_tables' = FreedAt(IndicesOf(requests[1].pcb.segment_table))
         /\ from_memoria' = Append(from_memoria, PROCESS_FINISHED)
         /\ page_tables' \in Seq(PageTableRow) /\ from_memoria' \in Seq(Int)
         /\ UNCHANGED <<kernel, consola, backlog, to_kernel, to_consola, main, process_count,
                        sched, ready, io, to_cpu, from_cpu, page_fault, left>>
<1>1. to_memoria # << >> /\ Head(to_memoria) = PROCESS_FINISHED /\ Types
  BY DEF ProcessFinished, Requested, Whole
<1>2. /\ requests \in Seq(Request) /\ to_memoria = Stream(requests)
      /\ Stream(requests) # << >> /\ requests[1].op = PROCESS_FINISHED
  BY <1>1, FirstAny
<1>3. /\ to_memoria' = Stream(Tail(requests))
      /\ page_tables' = FreedAt(IndicesOf(requests[1].pcb.segment_table))
      /\ from_memoria' = Append(from_memoria, PROCESS_FINISHED)
  <2>1. PICK got \in {RecvPcb(Tail(to_memoria))} :
          /\ to_memoria' = got.rest
          /\ page_tables' = FreedAt(IndicesOf(got.value.segment_table))
          /\ from_memoria' = Append(from_memoria, PROCESS_FINISHED)
    BY DEF ProcessFinished, FreedAt, IndicesOf
  <2>2. RecvPcb(Tail(to_memoria)) = Got(requests[1].pcb, Stream(Tail(requests)))
    BY <1>2, FirstPcb
  <2>3. got.value = requests[1].pcb /\ got.rest = Stream(Tail(requests))
    BY <2>1, <2>2 DEF Got
  <2>4. QED BY <2>1, <2>3
<1>4. page_tables' \in Seq(PageTableRow)
  BY <1>1, <1>3, FreedTables
<1>5. from_memoria' \in Seq(Int)
  <2>1. from_memoria \in Seq(Int) /\ PROCESS_FINISHED \in Int
    BY <1>1, NumbersAreFields DEF Types
  <2>2. QED BY <1>3, <2>1
<1>6. UNCHANGED <<kernel, consola, backlog, to_kernel, to_consola, main, process_count, sched,
                  ready, io, to_cpu, from_cpu, page_fault, left>>
  BY DEF ProcessFinished, HandleKernel, consolas, queues, dispatch
<1>7. QED BY <1>1, <1>2, <1>3, <1>4, <1>5, <1>6

(* A process at finish: its tables are freed, and the answer is behind     *)
(* what the main thread has not read.                                      *)
LEMMA OwnProcessFinished ==
  ASSUME NEW known, known = "all", NEW place, NEW proc, NEW base, NEW requests, NEW resolved,
         Whole(known, place, proc, base, requests, resolved), ProcessFinished
  PROVE  Kept(known)'
<1> DEFINE less == Tail(requests)
<1>1. /\ Types /\ Ids(place, proc) /\ AtSched(place, proc) /\ AtMain(known, place, proc, base)
      /\ InTables(known, place, proc, base, requests)
      /\ Answers(known, base, requests) /\ Own(proc) /\ base \in [Consolas -> Nat]
  BY DEF Whole, Ghosts, Own
<1>2. to_memoria # << >> /\ Head(to_memoria) = PROCESS_FINISHED
  BY ProcessFinishedDoes
<1>3. /\ requests \in Seq(Request) /\ requests # << >> /\ to_memoria = Stream(requests)
      /\ Stream(requests) # << >> /\ requests[1].op = PROCESS_FINISHED
  BY <1>2, FirstRequest
<1>4. PICK c \in Consolas : /\ c = requests[1].pcb.socket_consola
                            /\ requests[1].pcb = proc[c] /\ Waits(requests[1].op, place[c])
                            /\ proc[c] \in ConsolaPcbs
  BY <1>2, FirstRequest
<1>5. less \in Seq(Request) /\ OthersPending(known, requests, less, c) /\ Pending(known, requests, c)
      /\ ~ Pending(known, less, c)
  BY <1>2, <1>4, FirstRequest
<1>6. place[c] = "finish"
  BY <1>3, <1>4, OpCodes DEF Waits, OpsDiffer
<1>7. /\ to_memoria' = Stream(less)
      /\ page_tables' = FreedAt(IndicesOf(proc[c].segment_table))
      /\ from_memoria' = Append(from_memoria, PROCESS_FINISHED)
  BY <1>4, ProcessFinishedDoes
<1>8. UNCHANGED <<kernel, consola, backlog, to_kernel, to_consola, main, process_count, sched,
                  ready, io, to_cpu, from_cpu, page_fault, left>>
  BY ProcessFinishedDoes
<1>9. /\ page_tables' \in Seq(PageTableRow)
      /\ Len(page_tables') = Len(page_tables) /\ Len(page_tables) \in Nat
      /\ \A i \in 1 .. Len(page_tables) :
           /\ page_tables'[i].pid = page_tables[i].pid
           /\ page_tables'[i].size = page_tables[i].size
           /\ page_tables'[i].freed = (page_tables[i].freed \/ page_tables[i].pid = proc[c].id)
  <2>1. Len(page_tables) \in Nat
    BY <1>1 DEF Types
  <2> HIDE DEF less
  <2>2. /\ page_tables' \in Seq(PageTableRow)
        /\ Len(page_tables') = Len(page_tables)
        /\ \A i \in 1 .. Len(page_tables) :
             /\ page_tables'[i].pid = page_tables[i].pid
             /\ page_tables'[i].size = page_tables[i].size
             /\ page_tables'[i].freed = (page_tables[i].freed \/ page_tables[i].pid = proc[c].id)
    <3>1. /\ Types /\ InTables(known, place, proc, base, requests) /\ base \in [Consolas -> Nat]
          /\ page_tables' = FreedAt(IndicesOf(proc[c].segment_table))
      BY <1>1, <1>7
    <3>2. QED BY <1>6, <3>1, OwnFreed
  <2>3. QED BY <2>1, <2>2, Zenon
<1> HIDE DEF less
<1>10. InTables(known, place, proc, base, less)'
  <2>1. ASSUME NEW d \in Created(place)
        PROVE  IF Built(known, place[d], less, d) THEN TablesOf(known, place[d], proc[d], base, less, d)'
               ELSE \A i \in 1 .. Len(page_tables') : page_tables'[i].pid # proc[d].id
    <3>1. d \in Consolas /\ c \in Created(place)
      BY <1>6 DEF Created, Uncreated
    <3>2. Built(known, place[d], less, d) <=> Built(known, place[d], requests, d)
      BY <1>5, <1>6, <3>1 DEF Built, OthersPending
    <3>3. CASE Built(known, place[d], requests, d)
      <4>1. TablesOf(known, place[d], proc[d], base, requests, d)
        BY <1>1, <3>3 DEF InTables
      <4>2. /\ base[d] + Len(Segmentos[d]) <= Len(page_tables)
            /\ \A i \in 1 .. Len(page_tables) :
                 page_tables[i].pid = proc[d].id
                   <=> i \in base[d] + 1 .. base[d] + Len(Segmentos[d])
            /\ \A k \in 1 .. Len(Segmentos[d]) : page_tables[base[d] + k].size = Segmentos[d][k]
            /\ \A k \in 1 .. Len(Segmentos[d]) :
                 page_tables[base[d] + k].freed = Freed(known, place[d], requests, d)
            /\ place[d] # "main" => proc[d].segment_table = Table(base, d)
        BY <4>1, Zenon DEF TablesOf
      <4>3. \A k \in 1 .. Len(Segmentos[d]) :
              /\ base[d] + k \in 1 .. Len(page_tables)
              /\ base[d] + k \in base[d] + 1 .. base[d] + Len(Segmentos[d])
        <5>1. base[d] \in Nat /\ Len(Segmentos[d]) \in Nat
          BY <1>1, <3>1, ProgramTypes
        <5>2. QED BY <1>9, <4>2, <5>1
      <4>4. \A k \in 1 .. Len(Segmentos[d]) :
              page_tables'[base[d] + k].freed = Freed(known, place[d], less, d)
        <5>1. CASE d = c
          <6>1. Freed(known, place[d], less, d) = TRUE
            BY <1>5, <1>6, <5>1 DEF Freed
          <6>2. \A k \in 1 .. Len(Segmentos[d]) : page_tables'[base[d] + k].freed = TRUE
            BY <1>9, <4>2, <4>3, <5>1
          <6>3. QED BY <6>1, <6>2
        <5>2. CASE d # c
          <6>1. Freed(known, place[d], less, d) = Freed(known, place[d], requests, d)
            BY <1>5, <3>1, <5>2 DEF Freed, OthersPending
          <6>2. proc[d].id # proc[c].id
            BY <1>1, <3>1, <5>2 DEF Ids
          <6>3. ASSUME NEW k \in 1 .. Len(Segmentos[d])
                PROVE  page_tables'[base[d] + k].freed = page_tables[base[d] + k].freed
            <7>1. page_tables[base[d] + k].pid # proc[c].id
              BY <4>2, <4>3, <6>2
            <7>2. page_tables[base[d] + k].freed \in BOOLEAN
              <8>1. page_tables \in Seq(PageTableRow)
                BY <1>1 DEF Types
              <8>2. page_tables[base[d] + k] \in PageTableRow
                BY <4>3, <8>1
              <8>3. QED BY <8>2 DEF PageTableRow
            <7>3. QED BY <1>9, <4>3, <7>1, <7>2
          <6>4. QED BY <4>2, <6>1, <6>3, Zenon
        <5>3. QED BY <5>1, <5>2
      <4>5. \A k \in 1 .. Len(Segmentos[d]) : page_tables'[base[d] + k].size = Segmentos[d][k]
        BY <1>9, <4>2, <4>3
      <4>6. /\ base[d] + Len(Segmentos[d]) <= Len(page_tables')
            /\ \A i \in 1 .. Len(page_tables') :
                 page_tables'[i].pid = proc[d].id
                   <=> i \in base[d] + 1 .. base[d] + Len(Segmentos[d])
        BY <1>9, <4>2
      <4>7. TablesOf(known, place[d], proc[d], base, less, d)'
        BY <4>2, <4>4, <4>5, <4>6, Zenon DEF TablesOf
      <4>8. QED BY <3>2, <3>3, <4>7
    <3>4. CASE ~ Built(known, place[d], requests, d)
      <4>1. \A i \in 1 .. Len(page_tables) : page_tables[i].pid # proc[d].id
        BY <1>1, <3>4 DEF InTables
      <4>2. \A i \in 1 .. Len(page_tables') : page_tables'[i].pid # proc[d].id
        BY <1>9, <4>1
      <4>3. QED BY <3>2, <3>4, <4>2
    <3>5. QED BY <3>3, <3>4
  <2>2. \A i \in 1 .. Len(page_tables') : page_tables'[i].pid \in 1 .. process_count'
    BY <1>1, <1>8, <1>9 DEF InTables
  <2>3. QED BY <2>1, <2>2 DEF InTables
<1>11. from_memoria' \in Seq(Int)
  BY ProcessFinishedDoes
<1>12. AtMain(known, place, proc, base)'
  BY <1>1, <1>8 DEF AtMain, Creating, RowsRead
<1>13. Answers(known, base, less)'
  <2> DEFINE ahead == ToMain(known, base, requests)
             one == <<PROCESS_FINISHED>>
             none == << >>
  <2>1. ahead \in Seq(Field) /\ one \in Seq(Field)
    BY <1>1, ToMainIs, NumbersAreFields
  <2>2. Joined(ahead, none) = ahead /\ Joined(none, ahead) = ahead
    <3> HIDE DEF ahead
    <3>1. QED BY <2>1, ConcatFacts DEF Joined
  <2>3. ToMain(known, base, less)' = ahead
    <3>1. main.at # "accept" => Console \in Consolas /\ Console # c
      BY <1>1, <1>6, MainAt
    <3>2. main.at # "accept" => (Pending(known, less, Console) <=> Pending(known, requests, Console))
      BY <1>5, <3>1 DEF OthersPending
    <3>3. ToMain(known, base, less) = ahead
      BY <3>2 DEF ToMain
    <3>4. ToMain(known, base, less)' = ToMain(known, base, less)
      BY <1>8 DEF ToMain, Console
    <3>5. QED BY <3>3, <3>4
  <2>4. sched.at = "recv_finished" /\ sched.pcb.socket_consola = c
    BY <1>1, <1>6 DEF AtSched, Own
  <2>5. ToSched(known, requests) = none /\ ToSched(known, less)' = one
    BY <1>5, <1>8, <2>4 DEF ToSched
  <2> HIDE DEF ahead, none
  <2>6. kernel = "up" => from_memoria = ahead
    <3>1. kernel = "up" => from_memoria = Joined(ahead, ToSched(known, requests))
                           \/ from_memoria = Joined(ToSched(known, requests), ahead)
      BY <1>1 DEF Answers, ahead
    <3>2. QED BY <2>2, <2>5, <3>1, Zenon
  <2>7. kernel' = "up" => from_memoria' = Joined(ahead, one)
    BY <1>7, <1>8, <2>1, <2>6 DEF Joined
  <2> HIDE DEF one
  <2>8. QED BY <2>3, <2>5, <2>7, Zenon DEF Answers
<1>14. QED
  BY <1>1, <1>2, <1>7, <1>8, <1>9, <1>10, <1>11, <1>12, <1>13, RequestServed DEF less

LEMMA ProcessFinishedKeeps ==
  ASSUME NEW known, NEW place, NEW proc, NEW base, NEW requests, NEW resolved,
         Whole(known, place, proc, base, requests, resolved), ProcessFinished
  PROVE  Kept(known)'
<1>1. CASE known = "all"
  BY <1>1, OwnProcessFinished
<1>2. CASE known # "all"
  BY <1>2, ProcessFinishedDoes, ServedAnyhow
<1>3. QED BY <1>1, <1>2

(* The page tables of a new process are behind those there are.            *)
TablesFor(pid, sizes) ==
  [k \in DOMAIN sizes |-> [pid |-> pid, size |-> sizes[k], freed |-> FALSE]]
LEMMA PageTablesAdded ==
  ASSUME NEW new \in Seq(PageTableRow), page_tables \in Seq(PageTableRow),
         page_tables' = Joined(page_tables, new)
  PROVE  /\ page_tables' \in Seq(PageTableRow)
         /\ Len(page_tables') = Len(page_tables) + Len(new) /\ Len(page_tables) \in Nat
         /\ \A i \in 1 .. Len(page_tables) : page_tables'[i] = page_tables[i]
         /\ \A k \in 1 .. Len(new) : page_tables'[Len(page_tables) + k] = new[k]
<1> PICK s : s = page_tables
  OBVIOUS
<1> PICK u : u = page_tables'
  OBVIOUS
<1>1. s \in Seq(PageTableRow) /\ u = Joined(s, new)
  OBVIOUS
<1>2. /\ u \in Seq(PageTableRow) /\ Len(u) = Len(s) + Len(new) /\ Len(s) \in Nat
      /\ \A i \in 1 .. Len(s) : u[i] = s[i]
      /\ \A k \in 1 .. Len(new) : u[Len(s) + k] = new[k]
  BY <1>1 DEF Joined
<1>3. QED BY <1>2

(* The tables of the new process are at the end, in the order of its       *)
(* segments.                                                               *)
LEMMA TablesBuilt ==
  ASSUME NEW c \in Consolas, NEW pid \in Int, Types,
         page_tables' = page_tables \o TablesFor(pid, Segmentos[c])
  PROVE  /\ page_tables' \in Seq(PageTableRow)
         /\ Len(page_tables') = Len(page_tables) + Len(Segmentos[c])
         /\ \A i \in 1 .. Len(page_tables) : page_tables'[i] = page_tables[i]
         /\ \A k \in 1 .. Len(Segmentos[c]) :
              /\ page_tables'[Len(page_tables) + k].pid = pid
              /\ page_tables'[Len(page_tables) + k].size = Segmentos[c][k]
              /\ page_tables'[Len(page_tables) + k].freed = FALSE
         /\ Len(page_tables) \in Nat /\ Len(Segmentos[c]) \in Nat
<1> DEFINE n == Len(page_tables)
           sizes == Segmentos[c]
           len == Len(sizes)
           new == TablesFor(pid, sizes)
           row(k) == [pid |-> pid, size |-> sizes[k], freed |-> FALSE]
<1>1. page_tables \in Seq(PageTableRow)
  BY DEF Types
<1>2. sizes \in Seq(Nat) /\ len \in Nat /\ \A k \in 1 .. len : sizes[k] \in Nat
  BY ProgramTypes
<1> HIDE DEF sizes
<1>3. \A k \in 1 .. len : row(k) \in PageTableRow
  BY <1>2 DEF PageTableRow
<1>4. new = [k \in 1 .. len |-> row(k)]
  BY <1>2 DEF TablesFor
<1> HIDE DEF row
<1>5. new \in Seq(PageTableRow) /\ Len(new) = len /\ \A k \in 1 .. len : new[k] = row(k)
  <2> HIDE DEF new, len
  <2>1. QED BY <1>2, <1>3, <1>4
<1> HIDE DEF new
<1>6. page_tables' = Joined(page_tables, new)
  BY DEF new, sizes, Joined
<1>7. /\ page_tables' \in Seq(PageTableRow) /\ Len(page_tables') = n + len /\ n \in Nat
      /\ \A i \in 1 .. n : page_tables'[i] = page_tables[i]
      /\ \A k \in 1 .. len : page_tables'[n + k] = new[k]
  <2>1. new \in Seq(PageTableRow)
    BY <1>5
  <2> HIDE DEF len
  <2>2. /\ page_tables' \in Seq(PageTableRow)
        /\ Len(page_tables') = n + Len(new) /\ n \in Nat
        /\ \A i \in 1 .. n : page_tables'[i] = page_tables[i]
        /\ \A k \in 1 .. Len(new) : page_tables'[n + k] = new[k]
    BY <1>1, <1>6, <2>1, PageTablesAdded
  <2> HIDE DEF n
  <2>3. QED BY <1>5, <2>2
<1>8. \A k \in 1 .. len : row(k).pid = pid /\ row(k).size = sizes[k] /\ row(k).freed = FALSE
  BY DEF row
<1> HIDE DEF n, len
<1>9. \A k \in 1 .. len :
        /\ page_tables'[n + k].pid = pid /\ page_tables'[n + k].size = sizes[k]
        /\ page_tables'[n + k].freed = FALSE
  BY <1>5, <1>7, <1>8
<1>10. QED BY <1>2, <1>7, <1>9 DEF n, len, sizes

(* The tables of a process, len of them, are the last ones.                *)
Added(pid, len) ==
  /\ Len(page_tables') = Len(page_tables) + len
  /\ \A i \in 1 .. Len(page_tables) : page_tables'[i] = page_tables[i]
  /\ \A k \in 1 .. len : page_tables'[Len(page_tables) + k].pid = pid

(* Memoria builds the tables of c, the process that the main thread        *)
(* creates, and no table of another process changes.                       *)
LEMMA OthersTables ==
  ASSUME NEW known, known = "all", NEW place, NEW proc, NEW base \in [Consolas -> Nat],
         NEW requests, NEW requests2, NEW c \in Consolas, NEW base2, InTables(known, place, proc, base, requests),
         Ids(place, proc), Types, OthersPending(known, requests, requests2, c), c \in Created(place),
         NEW len \in Nat, Added(proc[c].id, len),
         NEW d \in Created(place), d # c, base2[d] = base[d]
  PROVE  IF Built(known, place[d], requests2, d) THEN TablesOf(known, place[d], proc[d], base2, requests2, d)'
         ELSE \A i \in 1 .. Len(page_tables') : page_tables'[i].pid # proc[d].id
<1> DEFINE n == Len(page_tables)
           sizes == Segmentos[d]
           m == Len(sizes)
           pid == proc[c].id
<1> USE DEF Added
<1>1. d \in Consolas /\ n \in Nat /\ proc[d].id # pid /\ m \in Nat /\ base[d] \in Nat
  BY ProgramTypes DEF Created, Types, Ids
<1>2. /\ Built(known, place[d], requests2, d) <=> Built(known, place[d], requests, d)
      /\ Freed(known, place[d], requests2, d) = Freed(known, place[d], requests, d)
  BY <1>1 DEF Built, Freed, OthersPending
<1>3. \A i \in 1 .. Len(page_tables') :
        (i \in 1 .. n /\ page_tables'[i] = page_tables[i])
        \/ (i \notin 1 .. n /\ page_tables'[i].pid = pid)
  <2> HIDE DEF n
  <2>1. ASSUME NEW i \in 1 .. n + len, i \notin 1 .. n PROVE page_tables'[i].pid = pid
    <3>1. i - n \in 1 .. len /\ i = n + (i - n)
      BY <1>1, <2>1
    <3>2. QED BY <3>1 DEF n
  <2>2. Len(page_tables') = n + len
    BY DEF n
  <2>3. \A i \in 1 .. n : page_tables'[i] = page_tables[i]
    BY DEF n
  <2>4. QED BY <2>1, <2>2, <2>3
<1>4. CASE Built(known, place[d], requests, d)
  <2>1. TablesOf(known, place[d], proc[d], base, requests, d)
    BY <1>4 DEF InTables
  <2>2. /\ base[d] + m <= n
        /\ \A i \in 1 .. n : page_tables[i].pid = proc[d].id <=> i \in base[d] + 1 .. base[d] + m
        /\ \A k \in 1 .. m : page_tables[base[d] + k].size = sizes[k]
        /\ \A k \in 1 .. m : page_tables[base[d] + k].freed = Freed(known, place[d], requests, d)
        /\ place[d] # "main" => proc[d].segment_table = Table(base, d)
    BY <2>1, Zenon DEF TablesOf
  <2> HIDE DEF n, m, sizes
  <2>3. Len(page_tables') = n + len
    BY DEF n
  <2>4. \A i \in 1 .. Len(page_tables') :
          page_tables'[i].pid = proc[d].id <=> i \in base[d] + 1 .. base[d] + m
    BY <1>1, <1>3, <2>2
  <2>5. base[d] + m <= Len(page_tables')
    BY <1>1, <2>2, <2>3
  <2>6. \A k \in 1 .. m : page_tables'[base[d] + k] = page_tables[base[d] + k]
    <3>1. \A k \in 1 .. m : base[d] + k \in 1 .. n
      BY <1>1, <2>2
    <3>2. QED BY <3>1 DEF n
  <2>7. Table(base2, d) = Table(base, d)
    BY DEF Table
  <2>8. /\ \A k \in 1 .. m : page_tables'[base[d] + k].size = sizes[k]
        /\ \A k \in 1 .. m : page_tables'[base[d] + k].freed = Freed(known, place[d], requests2, d)
    <3>1. PICK freed : freed = Freed(known, place[d], requests, d)
      OBVIOUS
    <3>2. \A k \in 1 .. m : page_tables'[base[d] + k].freed = freed
      BY <2>2, <2>6, <3>1
    <3>3. \A k \in 1 .. m : page_tables'[base[d] + k].size = sizes[k]
      BY <2>2, <2>6
    <3>4. QED BY <1>2, <3>1, <3>2, <3>3
  <2>9. place[d] # "main" => proc[d].segment_table = Table(base2, d)
    BY <2>2, <2>7
  <2>10. TablesOf(known, place[d], proc[d], base2, requests2, d)'
    BY <2>4, <2>5, <2>8, <2>9, Zenon DEF TablesOf, m, sizes
  <2>11. QED BY <1>2, <1>4, <2>10
<1>5. CASE ~ Built(known, place[d], requests, d)
  <2>1. \A i \in 1 .. n : page_tables[i].pid # proc[d].id
    BY <1>5 DEF InTables
  <2>2. \A i \in 1 .. Len(page_tables') : page_tables'[i].pid # proc[d].id
    BY <1>1, <1>3, <2>1
  <2>3. QED BY <1>2, <1>5, <2>2
<1>6. QED BY <1>4, <1>5

(* What memoria sends of a segment table are numbers.                      *)
LEMMA TableInts ==
  ASSUME NEW table \in SegmentTables
  PROVE  AddSegmentTable(table) \in Seq(Int)
<1> DEFINE n == Len(table)
           parts == [k \in 1 .. n |-> AddSegment(table[k])]
<1>1. /\ n \in Nat /\ DOMAIN table = 1 .. n
      /\ \A k \in 1 .. n : table[k] \in SegmentRows
  BY DEF SegmentTables
<1>2. ASSUME NEW k \in 1 .. n PROVE AddSegment(table[k]) \in Seq(Int)
  <2> DEFINE a == table[k].size
             b == table[k].page_table_index
  <2>1. a \in Int /\ b \in Int
    BY <1>1 DEF SegmentRows
  <2> HIDE DEF a, b
  <2>2. <<a, b>> \in Seq(Int)
    BY <2>1
  <2>3. QED BY <2>2 DEF AddSegment, a, b
<1> HIDE DEF n
<1>3. parts \in Parts(Int, n)
  BY <1>2 DEF Parts
<1>4. AddEach(AddSegment, table) = Seqs!FlattenSeq(parts)
  BY <1>1 DEF AddEach
<1> HIDE DEF parts
<1>5. Seqs!FlattenSeq(parts) \in Seq(Int)
  BY <1>1, <1>3, FlattenType
<1>6. <<n>> \in Seq(Int)
  BY <1>1
<1> DEFINE first == <<n>>
           rest == Seqs!FlattenSeq(parts)
<1> HIDE DEF first, rest
<1>7. first \o rest \in Seq(Int)
  BY <1>5, <1>6, ConcatFacts DEF first, rest
<1>8. QED BY <1>4, <1>7 DEF AddSegmentTable, first, rest, n

(* What memoria does with PROCESS_STARTED: the tables of the new process   *)
(* are behind those there are.                                             *)
LEMMA ProcessStartedDoes ==
  ASSUME NEW known, NEW place, NEW proc, NEW base, NEW requests, NEW resolved,
         Whole(known, place, proc, base, requests, resolved), ProcessStarted
  PROVE  LET pcb == requests[1].pcb
             c == pcb.socket_consola
             base2 == Moved(base, c, Len(page_tables))
         IN /\ to_memoria # << >> /\ Head(to_memoria) = PROCESS_STARTED
            /\ to_memoria' = Stream(Tail(requests))
            /\ page_tables' = page_tables \o TablesFor(pcb.id, Segmentos[c])
            /\ from_memoria' = from_memoria \o <<PROCESS_STARTED>>
                                  \o AddSegmentTable(Table(base2, c))
            /\ page_tables' \in Seq(PageTableRow) /\ from_memoria' \in Seq(Int)
            /\ UNCHANGED <<kernel, consola, backlog, to_kernel, to_consola, main,
                           process_count, sched, ready, io, to_cpu, from_cpu, page_fault, left>>
<1> DEFINE less == Tail(requests)
           n == Len(page_tables)
           pid == requests[1].pcb.id
<1>1. /\ to_memoria # << >> /\ Head(to_memoria) = PROCESS_STARTED /\ Types
      /\ base \in [Consolas -> Nat]
  BY DEF ProcessStarted, Requested, Whole, Ghosts
<1>2. /\ requests \in Seq(Request) /\ to_memoria = Stream(requests)
      /\ Stream(requests) # << >> /\ requests[1].op = PROCESS_STARTED
      /\ requests[1].pcb.socket_consola \in Consolas /\ pid \in Int
  BY <1>1, FirstAny
<1> PICK c \in Consolas : c = requests[1].pcb.socket_consola
  BY <1>2
<1> PICK base2 : base2 = Moved(base, c, n)
  OBVIOUS
<1> DEFINE sizes == Segmentos[c]
<1>3. n \in Nat /\ Len(sizes) \in Nat
  BY <1>1, ProgramTypes DEF Types
<1>4. base2 \in [Consolas -> Nat] /\ base2[c] = n
  <2> HIDE DEF n
  <2>1. QED BY <1>1, <1>3 DEF Moved
<1>5. /\ to_memoria' = Stream(less)
      /\ page_tables' = page_tables \o TablesFor(pid, sizes)
      /\ from_memoria' = from_memoria \o <<PROCESS_STARTED>> \o AddSegmentTable(Table(base2, c))
  <2> DEFINE got == RecvSegments(SubSeq(to_memoria, 3, Len(to_memoria)))
  <2>1. /\ to_memoria' = got.rest
        /\ page_tables' = page_tables \o TablesFor(to_memoria[2], got.value)
        /\ from_memoria' = from_memoria \o <<PROCESS_STARTED>>
             \o AddSegmentTable([k \in DOMAIN got.value |->
                  [size |-> got.value[k], page_table_index |-> n + k - 1]])
    BY DEF ProcessStarted, TablesFor
  <2>2. to_memoria[2] = pid /\ got = Got(sizes, Stream(less))
    BY <1>2, FirstStarted
  <2>3. got.value = sizes /\ got.rest = Stream(less)
    <3> HIDE DEF got
    <3>1. QED BY <2>2 DEF Got
  <2>4. [k \in DOMAIN sizes |-> [size |-> sizes[k], page_table_index |-> n + k - 1]]
          = Table(base2, c)
    <3>1. DOMAIN sizes = 1 .. Len(sizes)
      BY ProgramTypes
    <3> HIDE DEF n, sizes
    <3>2. [k \in 1 .. Len(sizes) |-> [size |-> sizes[k], page_table_index |-> n + k - 1]]
            = Table(base2, c)
      BY <1>4, Zenon DEF Table, sizes
    <3>3. QED BY <3>1, <3>2
  <2> HIDE DEF got, n, sizes, less, pid
  <2>5. QED BY <2>1, <2>2, <2>3, <2>4
<1>6. page_tables' \in Seq(PageTableRow)
  <2> HIDE DEF pid
  <2>1. QED BY <1>1, <1>2, <1>5, TablesBuilt
<1>7. from_memoria' \in Seq(Int)
  <2> DEFINE rows == AddSegmentTable(Table(base2, c))
             op == <<PROCESS_STARTED>>
  <2>1. rows \in Seq(Int)
    BY <1>4, TableFacts, TableInts
  <2>2. op \in Seq(Int)
    BY NumbersAreFields
  <2>3. from_memoria \in Seq(Int)
    BY <1>1 DEF Types
  <2>4. from_memoria' = from_memoria \o op \o rows
    BY <1>5
  <2> HIDE DEF rows, op
  <2>5. QED BY <2>1, <2>2, <2>3, <2>4, ConcatFacts
<1>8. UNCHANGED <<kernel, consola, backlog, to_kernel, to_consola, main, process_count, sched,
                  ready, io, to_cpu, from_cpu, page_fault, left>>
  BY DEF ProcessStarted, HandleKernel, consolas, queues, dispatch
<1> HIDE DEF less
<1>9. QED BY <1>1, <1>5, <1>6, <1>7, <1>8 DEF less

(* A process at main: its tables are created, and the answer is its        *)
(* segment table.                                                          *)
LEMMA OwnProcessStarted ==
  ASSUME NEW known, known = "all", NEW place, NEW proc, NEW base, NEW requests, NEW resolved,
         Whole(known, place, proc, base, requests, resolved), ProcessStarted
  PROVE  Kept(known)'
<1> DEFINE less == Tail(requests)
           n == Len(page_tables)
<1>1. /\ Types /\ Ids(place, proc) /\ AtSched(place, proc) /\ AtMain(known, place, proc, base)
      /\ InTables(known, place, proc, base, requests)
      /\ Answers(known, base, requests) /\ Own(proc) /\ base \in [Consolas -> Nat]
  BY DEF Whole, Ghosts, Own
<1>2. to_memoria # << >> /\ Head(to_memoria) = PROCESS_STARTED
  BY ProcessStartedDoes
<1>3. /\ requests \in Seq(Request) /\ requests # << >> /\ to_memoria = Stream(requests)
      /\ Stream(requests) # << >> /\ requests[1].op = PROCESS_STARTED
  BY <1>2, FirstRequest
<1>4. PICK c \in Consolas : /\ c = requests[1].pcb.socket_consola
                            /\ requests[1].pcb = proc[c] /\ Waits(requests[1].op, place[c])
                            /\ proc[c] \in ConsolaPcbs
  BY <1>2, FirstRequest
<1>5. less \in Seq(Request) /\ OthersPending(known, requests, less, c) /\ Pending(known, requests, c)
      /\ ~ Pending(known, less, c)
  BY <1>2, <1>4, FirstRequest
<1>6. place[c] = "main" /\ main.at = "recv_op" /\ c \in Created(place)
  <2>1. place[c] = "main" /\ main.at = "recv_op"
    BY <1>3, <1>4, OpCodes DEF Waits, OpsDiffer
  <2>2. QED BY <2>1 DEF Created, Uncreated
<1> DEFINE pid == proc[c].id
           sizes == Segmentos[c]
<1>7. n \in Nat /\ pid \in Int /\ Len(sizes) \in Nat
  <2>1. n \in Nat
    BY <1>1 DEF Types
  <2>2. pid \in Int
    BY <1>4 DEF ConsolaPcbs, Pcbs
  <2>3. QED BY <2>1, <2>2, ProgramTypes
<1> PICK base2 : base2 = Moved(base, c, n)
  OBVIOUS
<1>8. /\ base2 \in [Consolas -> Nat] /\ base2[c] = n
      /\ \A d \in Consolas : d # c => base2[d] = base[d]
  <2> HIDE DEF n
  <2>1. QED BY <1>1, <1>7 DEF Moved
<1>9. /\ to_memoria' = Stream(less)
      /\ page_tables' = page_tables \o TablesFor(pid, sizes)
      /\ from_memoria' = from_memoria \o <<PROCESS_STARTED>> \o AddSegmentTable(Table(base2, c))
  BY <1>4, ProcessStartedDoes
<1>10. UNCHANGED <<kernel, consola, backlog, to_kernel, to_consola, main, process_count, sched,
                   ready, io, to_cpu, from_cpu, page_fault, left>>
  BY ProcessStartedDoes
<1> HIDE DEF less
<1>11. /\ page_tables' \in Seq(PageTableRow) /\ Len(page_tables') = n + Len(sizes)
       /\ \A i \in 1 .. n : page_tables'[i] = page_tables[i]
       /\ \A k \in 1 .. Len(sizes) :
            /\ page_tables'[n + k].pid = pid /\ page_tables'[n + k].size = sizes[k]
            /\ page_tables'[n + k].freed = FALSE
  <2> HIDE DEF pid
  <2>1. QED BY <1>1, <1>7, <1>9, TablesBuilt
<1>12. InTables(known, place, proc, base2, less)'
  <2>1. ASSUME NEW d \in Created(place)
        PROVE  IF Built(known, place[d], less, d) THEN TablesOf(known, place[d], proc[d], base2, less, d)'
               ELSE \A i \in 1 .. Len(page_tables') : page_tables'[i].pid # proc[d].id
    <3>1. d \in Consolas
      BY DEF Created
    <3>2. CASE d # c
      <4>1. base2[d] = base[d]
        BY <1>8, <3>1, <3>2
      <4>2. PICK len \in Nat : len = Len(sizes)
        BY <1>7
      <4>3. Added(proc[c].id, len)
        BY <1>11, <4>2 DEF Added
      <4> HIDE DEF n, pid, sizes
      <4>4. QED BY <1>1, <1>5, <1>6, <3>2, <4>1, <4>3, OthersTables
    <3>3. CASE d = c
      <4>1. Built(known, place[c], less, c) /\ Freed(known, place[c], less, c) = FALSE
        BY <1>5, <1>6, Zenon DEF Built, Freed, Uncreated
      <4>2. ~ Built(known, place[c], requests, c)
        BY <1>5, <1>6 DEF Built
      <4>3. \A i \in 1 .. n : page_tables[i].pid # pid
        BY <1>1, <1>6, <4>2 DEF InTables
      <4> HIDE DEF n, pid, sizes
      <4>4. ASSUME NEW i \in 1 .. n + Len(sizes)
            PROVE  page_tables'[i].pid = pid <=> i \in n + 1 .. n + Len(sizes)
        <5>1. CASE i \in 1 .. n
          BY <1>7, <1>11, <4>3, <5>1
        <5>2. CASE i \notin 1 .. n
          <6>1. i - n \in 1 .. Len(sizes) /\ n + (i - n) = i /\ i \in n + 1 .. n + Len(sizes)
            BY <1>7, <5>2
          <6>2. page_tables'[i].pid = pid
            BY <1>11, <6>1
          <6>3. QED BY <6>1, <6>2
        <5>3. QED BY <5>1, <5>2
      <4>5. n + Len(sizes) <= Len(page_tables')
        BY <1>7, <1>11
      <4>6. /\ \A k \in 1 .. Len(sizes) : page_tables'[n + k].size = sizes[k]
            /\ \A k \in 1 .. Len(sizes) : page_tables'[n + k].freed = Freed(known, place[c], less, c)
        BY <1>11, <4>1
      <4>7. TablesOf(known, place[c], proc[c], base2, less, c)'
        <5>1. /\ base2[c] + Len(Segmentos[c]) <= Len(page_tables')
              /\ \A i \in 1 .. Len(page_tables') :
                   page_tables'[i].pid = proc[c].id
                     <=> i \in base2[c] + 1 .. base2[c] + Len(Segmentos[c])
          BY <1>8, <1>11, <4>4, <4>5 DEF pid, sizes
        <5>2. /\ \A k \in 1 .. Len(Segmentos[c]) :
                   page_tables'[base2[c] + k].size = Segmentos[c][k]
              /\ \A k \in 1 .. Len(Segmentos[c]) :
                   page_tables'[base2[c] + k].freed = Freed(known, place[c], less, c)
          BY <1>8, <4>6, Zenon DEF sizes
        <5>3. place[c] # "main" => proc[c].segment_table = Table(base2, c)
          BY <1>6
        <5>4. QED BY <5>1, <5>2, <5>3, Zenon DEF TablesOf
      <4>8. QED BY <3>3, <4>1, <4>7
    <3>4. QED BY <3>2, <3>3
  <2>2. \A i \in 1 .. Len(page_tables') : page_tables'[i].pid \in 1 .. process_count'
    <3>1. pid \in 1 .. process_count
      BY <1>1, <1>6 DEF Ids
    <3>2. \A i \in 1 .. n : page_tables[i].pid \in 1 .. process_count
      BY <1>1 DEF InTables
    <3> HIDE DEF n, pid, sizes
    <3>3. ASSUME NEW i \in 1 .. n + Len(sizes) PROVE page_tables'[i].pid \in 1 .. process_count
      <4>1. CASE i \in 1 .. n
        BY <1>11, <3>2, <4>1
      <4>2. CASE i \notin 1 .. n
        <5>1. i - n \in 1 .. Len(sizes) /\ n + (i - n) = i
          BY <1>7, <4>2
        <5>2. page_tables'[i].pid = pid
          BY <1>11, <5>1
        <5>3. QED BY <3>1, <5>2
      <4>3. QED BY <4>1, <4>2
    <3>4. QED BY <1>10, <1>11, <3>3
  <2>3. QED BY <2>1, <2>2 DEF InTables
<1>13. Console = c /\ \A d \in Consolas : place[d] = "main" <=> d = c
  BY <1>1, <1>6, MainAt
<1>14. from_memoria' \in Seq(Int)
  BY ProcessStartedDoes
<1>15. AtMain(known, place, proc, base2)'
  BY <1>1, <1>6, <1>8, <1>10 DEF AtMain, Creating
<1>16. Answers(known, base2, less)'
  <2> DEFINE table == AddSegmentTable(Table(base2, c))
             op == <<PROCESS_STARTED>>
             told == ToSched(known, requests)
             none == << >>
  <2>1. op \in Seq(Field) /\ table \in Seq(Field) /\ told \in Seq(Field)
    <3>1. table \in Seq(Field)
      <4>1. 0 \in 0 .. Len(Segmentos[c])
        BY <1>7
      <4>2. QED BY <1>8, <4>1, TableSent
    <3>2. op \in Seq(Field)
      BY NumbersAreFields
    <3>3. told \in Seq(Field)
      <4>1. <<PROCESS_FINISHED>> \in Seq(Field) /\ none \in Seq(Field)
        BY NumbersAreFields
      <4>2. told = <<PROCESS_FINISHED>> \/ told = none
        BY Zenon DEF ToSched
      <4>3. QED BY <4>1, <4>2, Zenon
    <3>4. QED BY <3>1, <3>2, <3>3
  <2>2. ToMain(known, base, requests) = none
    BY <1>5, <1>13 DEF ToMain
  <2>3. ToMain(known, base2, less)' = Joined(op, table)
    <3>1. ~ Pending(known, less, Console) /\ main.at = "recv_op" /\ main.at # "accept"
      BY <1>5, <1>6, <1>13
    <3>2. ToMain(known, base2, less) = Joined(op, AddSegmentTable(Table(base2, Console)))
      BY <3>1, Zenon DEF ToMain
    <3>3. ToMain(known, base2, less)' = ToMain(known, base2, less)
      BY <1>10 DEF ToMain, Console
    <3>4. QED BY <1>13, <3>2, <3>3
  <2>4. ToSched(known, less)' = told
    <3>1. sched.at = "recv_finished" => sched.pcb.socket_consola \in Consolas
                                        /\ sched.pcb.socket_consola # c
      BY <1>1, <1>6 DEF AtSched, Own
    <3>2. sched.at = "recv_finished" =>
            (Pending(known, less, sched.pcb.socket_consola) <=> Pending(known, requests, sched.pcb.socket_consola))
      BY <1>5, <3>1 DEF OthersPending
    <3>3. sched' = sched
      BY <1>10
    <3>4. QED BY <3>2, <3>3 DEF ToSched
  <2> HIDE DEF table, told, op
  <2>5. Joined(told, none) = told /\ Joined(none, told) = told
    BY <2>1, ConcatFacts DEF Joined
  <2>6. kernel = "up" => from_memoria = told
    <3>1. kernel = "up" => from_memoria = Joined(none, told) \/ from_memoria = Joined(told, none)
      BY <1>1, <2>2 DEF Answers, told
    <3>2. QED BY <2>5, <3>1, Zenon
  <2>7. kernel' = "up" => from_memoria' = Joined(told, Joined(op, table))
    <3>1. from_memoria' = Joined(Joined(from_memoria, op), table)
      BY <1>9 DEF Joined, op, table
    <3>2. Joined(Joined(told, op), table) = Joined(told, Joined(op, table))
      BY <2>1, JoinedAssoc
    <3>3. QED BY <1>10, <2>6, <3>1, <3>2, Zenon
  <2>8. main'.at = "recv_op"
    BY <1>6, <1>10
  <2>9. QED BY <2>3, <2>4, <2>7, <2>8, Zenon DEF Answers
<1>17. base2 \in [Consolas -> Nat] /\ less = Tail(requests) /\ to_memoria' = Stream(less)
       /\ page_tables' \in Seq(PageTableRow)
  BY <1>8, <1>9, <1>11 DEF less
<1> HIDE DEF n, pid, sizes
<1>18. QED
  BY <1>2, <1>10, <1>12, <1>14, <1>15, <1>16, <1>17, RequestServed

LEMMA ProcessStartedKeeps ==
  ASSUME NEW known, NEW place, NEW proc, NEW base, NEW requests, NEW resolved,
         Whole(known, place, proc, base, requests, resolved), ProcessStarted
  PROVE  Kept(known)'
<1>1. CASE known = "all"
  BY <1>1, OwnProcessStarted
<1>2. CASE known # "all"
  BY <1>2, ProcessStartedDoes, ServedAnyhow
<1>3. QED BY <1>1, <1>2

-----------------------------------------------------------------------------
(* The main thread reads the segment table.                                *)

(* The process m, that of the main thread, has its page tables; its pcb    *)
(* becomes pcb and its place at.                                           *)
LEMMA MainMoves ==
  ASSUME NEW known, NEW place, NEW proc, NEW base, NEW requests, NEW resolved,
         Whole(known, place, proc, base, requests, resolved),
         NEW m \in Consolas, place[m] = "main", ~ Pending(known, requests, m),
         \A d \in Consolas : place[d] = "main" <=> d = m,
         NEW at \in {"main", "ready"}, NEW pcb \in ConsolaPcbs,
         pcb.socket_consola = m, pcb.instructions = Listing[m], At(pcb) = At(proc[m]),
         pcb.id = proc[m].id,
         known = "all" /\ at = "ready" => pcb.segment_table = Table(base, m),
         from_memoria' \in Seq(Int),
         UNCHANGED <<kernel, consola, backlog, to_kernel, to_consola, process_count, sched, io,
                     to_cpu, from_cpu, to_memoria, page_fault, page_tables, left>>,
         \A p \in ready' : p \in ready \/ (at = "ready" /\ p = pcb),
         AtMain(known, Moved(place, m, at), Moved(proc, m, pcb), base)', Answers(known, base, requests)'
  PROVE  Kept(known)'
<1> DEFINE place2 == Moved(place, m, at)
           proc2 == Moved(proc, m, pcb)
<1>1. /\ Ghosts(place, proc, base, requests, resolved) /\ Types /\ Ids(place, proc)
      /\ InReady(place, proc) /\ InIo(place, proc) /\ AtSched(place, proc)
      /\ InDispatch(place, proc) /\ InBacklog(place)
      /\ InRequests(known, place, proc, requests) /\ InResolved(known, place, proc, resolved)
      /\ Talks(place, proc) /\ InTables(known, place, proc, base, requests) /\ Own(proc)
  BY DEF Whole, Ghosts, Own
<1>2. /\ Step(place, proc, m, place2, proc2) /\ place2[m] = at /\ proc2[m] = pcb
      /\ Ghosts(place2, proc2, base, requests, resolved)
  <2>1. at \in Places
    BY DEF Places
  <2>2. QED BY <1>1, <2>1, MovedWithStep
<1>3. AtMain(known, place2, proc2, base)'
  OBVIOUS
<1> HIDE DEF place2, proc2
<1>4. /\ place[m] \notin Uncreated \cup {"ready", "finish", "cpu", "back", "backlog", "resolved"}
      /\ at \notin Uncreated \cup {"finish"} /\ place[m] \notin IoPlaces
      /\ place[m] \notin {"told_exit", "ended"} /\ at \notin {"told_exit", "ended"}
  BY DEF Uncreated, IoPlaces, IoAsk
<1>5. OthersPending(known, requests, requests, m)
  BY DEF OthersPending
<1>6. Types' /\ \A d \in Consolas : SocketKept(d)
  BY <1>1 DEF Types, SocketKept
<1>7. Ids(place2, proc2)'
  BY <1>1, <1>2, <1>4, IdsKept
<1>8. InReady(place2, proc2)'
  <2>1. \A p \in ready : p.socket_consola # m
    BY <1>1, <1>4, NotReady
  <2>2. \A p \in ready' : (p \in ready /\ p.socket_consola # m) \/ (place2[m] = "ready" /\ p = proc2[m])
    BY <1>2, <2>1
  <2>3. QED BY <1>1, <1>2, <2>2, ReadyKept
<1>9. InIo(place2, proc2)'
  <2>1. \A b \in io' : b \in io /\ b.pcb.socket_consola # m
    BY <1>1, <1>4, NotInIo
  <2>2. QED BY <1>1, <1>2, <2>1, IoKept
<1>10. AtSched(place2, proc2)'
  BY <1>1, <1>2, <1>4, SchedKept
<1>11. InDispatch(place2, proc2)'
  BY <1>1, <1>2, <1>4, DispatchKept
<1>12. InBacklog(place2)'
  BY <1>1, <1>2, <1>4, BacklogKept
<1>13. InRequests(known, place2, proc2, requests)'
  BY <1>1, <1>2, RequestsKept
<1>14. InResolved(known, place2, proc2, resolved)'
  BY <1>1, <1>2, <1>4, ResolvedKept
<1>15. Talks(place2, proc2)'
  <2>1. Talk("main", proc[m], m) /\ SocketKept(m) /\ at \in Quiet /\ "main" \in Quiet
    BY <1>1, <1>6 DEF Talks, Quiet
  <2>2. Talk(at, proc[m], m)'
    BY <2>1, QuietTalk
  <2>3. Talk(at, pcb, m)'
    <3>1. at \notin {"asked_pantalla", "answered_teclado"} /\ at \notin Uncreated
      BY <1>4
    <3>2. QED BY <2>2, <3>1, Zenon DEF Talk
  <2>4. Talk(place2[m], proc2[m], m)'
    BY <1>2, <2>3
  <2>5. QED BY <1>1, <1>2, <1>6, <2>4, TalksKept
<1>16. InTables(known, place2, proc2, base, requests)'
  <2> SUFFICES ASSUME known = "all" PROVE InTables(known, place2, proc2, base, requests)'
    BY DEF InTables
  <2>1. Freed(known, place2[m], requests, m) = Freed(known, place[m], requests, m)
    BY <1>2, <1>4, FreedIs
  <2>2. Built(known, place[m], requests, m) /\ Built(known, place2[m], requests, m)
    BY <1>2, <1>4 DEF Built
  <2>3. place2[m] # "main" => proc2[m].segment_table = Table(base, m)
    BY <1>2
  <2>4. QED BY <1>1, <1>2, <1>5, <2>1, <2>2, <2>3, BuiltKept
<1>17. Whole(known, place2, proc2, base, requests, resolved)'
  BY <1>2, <1>3, <1>6, <1>7, <1>8, <1>9, <1>10, <1>11, <1>12, <1>13, <1>14, <1>15, <1>16
     DEF Whole
<1>18. QED BY <1>17 DEF Kept

(* What the main thread finds when it reads what it waits for.             *)
Expected(base, requests, first, rest) ==
  LET len == Len(Segmentos[Console])
      k == len - main.missing
  IN \/ /\ main.at = "recv_op" /\ first = PROCESS_STARTED
        /\ rest = AddSegmentTable(Table(base, Console))
     \/ main.at = "recv_count" /\ first = len /\ rest = Rows(base, Console, 0)
     \/ /\ main.at = "recv_size" /\ main.missing \in 1 .. len
        /\ first = Segmentos[Console][k + 1]
        /\ rest = Joined(<<base[Console] + k>>, Rows(base, Console, k + 1))
     \/ /\ main.at = "recv_index" /\ main.missing \in 1 .. len
        /\ first = base[Console] + k /\ rest = Rows(base, Console, k + 1)

(* What memoria has answered to the main thread, and what is left of it    *)
(* after one recv.                                                         *)
LEMMA ToMainParts ==
  ASSUME NEW known, known = "all", NEW place, NEW proc, NEW base \in [Consolas -> Nat],
         NEW requests, AtMain(known, place, proc, base), Own(proc), main.at # "accept",
         ~ Pending(known, requests, Console),
         main.at = "recv_size" => main.missing > 0
  PROVE  \E first \in Field, rest \in Seq(Field) :
           /\ ToMain(known, base, requests) = Joined(<<first>>, rest)
           /\ Expected(base, requests, first, rest)
<1> DEFINE len == Len(Segmentos[Console])
           k == len - main.missing
<1>1. /\ Console \in Consolas /\ len \in Nat /\ base[Console] \in Nat
      /\ main.at \in {"recv_size", "recv_index"} => main.missing \in 1 .. len
      /\ main.at \in {"recv_op", "recv_count", "recv_size", "recv_index"}
  BY MainAt, MainStates, ProgramTypes
<1>2. /\ AddSegmentTable(Table(base, Console)) = Joined(<<len>>, Rows(base, Console, 0))
      /\ AddSegmentTable(Table(base, Console)) \in Seq(Field)
      /\ Rows(base, Console, 0) \in Seq(Field)
  <2>1. 0 \in 0 .. Len(Segmentos[Console])
    BY <1>1
  <2>2. QED BY <1>1, <2>1, TableSent, RowsAre
<1>3. CASE main.at = "recv_op"
  <2>1. ToMain(known, base, requests)
          = Joined(<<PROCESS_STARTED>>, AddSegmentTable(Table(base, Console)))
    BY <1>3, Zenon DEF ToMain
  <2>2. PROCESS_STARTED \in Field
    BY NumbersAreFields
  <2>3. Expected(base, requests, PROCESS_STARTED, AddSegmentTable(Table(base, Console)))
    BY <1>3 DEF Expected
  <2>4. QED BY <1>2, <2>1, <2>2, <2>3, Zenon
<1>4. CASE main.at = "recv_count"
  <2>1. ToMain(known, base, requests) = AddSegmentTable(Table(base, Console))
    BY <1>4, Zenon DEF ToMain
  <2>2. ToMain(known, base, requests) = Joined(<<len>>, Rows(base, Console, 0))
    BY <1>2, <2>1
  <2>3. len \in Field
    BY <1>1, NumbersAreFields
  <2>4. Expected(base, requests, len, Rows(base, Console, 0))
    BY <1>4 DEF Expected
  <2>5. QED BY <1>2, <2>2, <2>3, <2>4, Zenon
<1> DEFINE size == Segmentos[Console][k + 1]
           index == base[Console] + k
           behind == Rows(base, Console, k + 1)
<1>5. ASSUME main.missing \in 1 .. len
      PROVE  /\ size \in Field /\ index \in Field /\ behind \in Seq(Field)
             /\ Joined(<<index>>, behind) \in Seq(Field)
             /\ Rows(base, Console, k) = Joined(<<size>>, Joined(<<index>>, behind))
             /\ index = base[Console] + len - main.missing
             /\ k + 1 = len - main.missing + 1
  <2>1. k \in 0 .. Len(Segmentos[Console]) - 1 /\ k + 1 \in 0 .. Len(Segmentos[Console])
        /\ k + 1 \in 1 .. len /\ k \in Int
    BY <1>1, <1>5
  <2>2. behind \in Seq(Field)
        /\ Rows(base, Console, k) = Joined(<<size>>, Joined(<<index>>, behind))
    BY <1>1, <2>1, RowsAre, FirstRow
  <2>3. index = base[Console] + len - main.missing /\ k + 1 = len - main.missing + 1
    BY <1>1, <1>5
  <2>4. size \in Field
    <3>1. size \in Nat
      BY <1>1, <2>1, ProgramTypes
    <3>2. QED BY <3>1, NumbersAreFields
  <2>5. index \in Field
    <3> HIDE DEF k
    <3>1. index \in Int
      BY <1>1, <2>1
    <3>2. QED BY <3>1, NumbersAreFields
  <2>6. Joined(<<index>>, behind) \in Seq(Field)
    <3> HIDE DEF index, behind
    <3>1. <<index>> \in Seq(Field)
      BY <2>2, <2>5, OneFirst
    <3>2. QED BY <2>2, <3>1, ConcatFacts DEF Joined
  <2>7. QED BY <2>2, <2>3, <2>4, <2>5, <2>6
<1>6. CASE main.at = "recv_size"
  <2>1. main.missing \in 1 .. len
    BY <1>1, <1>6
  <2>2. ToMain(known, base, requests) = Rows(base, Console, k)
    BY <1>6, Zenon DEF ToMain
  <2>3. ToMain(known, base, requests) = Joined(<<size>>, Joined(<<index>>, behind))
    BY <1>5, <2>1, <2>2, Zenon
  <2>4. Expected(base, requests, size, Joined(<<index>>, behind))
    BY <1>6, <2>1, Zenon DEF Expected
  <2>5. size \in Field /\ Joined(<<index>>, behind) \in Seq(Field)
    BY <1>5, <2>1
  <2>6. QED
    <3> HIDE DEF size, index, behind
    <3>1. QED BY <2>3, <2>4, <2>5, Zenon
<1>7. CASE main.at = "recv_index"
  <2>1. main.missing \in 1 .. len
    BY <1>1, <1>7
  <2>2. ToMain(known, base, requests)
          = Joined(<<base[Console] + len - main.missing>>,
                   Rows(base, Console, len - main.missing + 1))
    BY <1>7, Zenon DEF ToMain
  <2>3. ToMain(known, base, requests) = Joined(<<index>>, behind)
    BY <1>5, <2>1, <2>2, Zenon
  <2>4. Expected(base, requests, index, behind)
    BY <1>7, <2>1, Zenon DEF Expected
  <2>5. index \in Field /\ behind \in Seq(Field)
    BY <1>5, <2>1
  <2>6. QED
    <3> HIDE DEF index, behind
    <3>1. QED BY <2>3, <2>4, <2>5, Zenon
<1>8. QED BY <1>1, <1>3, <1>4, <1>6, <1>7

(* The main thread takes the field in front, which is its own.             *)
LEMMA MainHears ==
  ASSUME NEW known, known = "all", NEW place, NEW proc, NEW base, NEW requests, NEW resolved,
         Whole(known, place, proc, base, requests, resolved),
         main.at # "accept", kernel = "up", from_memoria # << >>,
         main.at = "recv_op" => Head(from_memoria) = PROCESS_STARTED,
         main.at = "recv_size" => main.missing > 0
  PROVE  /\ ~ Pending(known, requests, Console)
         /\ \E first \in Field, rest \in Seq(Field) :
              /\ Expected(base, requests, first, rest)
              /\ Head(from_memoria) = first
              /\ Tail(from_memoria) = Joined(rest, ToSched(known, requests))
<1> DEFINE ahead == ToMain(known, base, requests)
           none == << >>
           one == <<PROCESS_FINISHED>>
<1>1. /\ base \in [Consolas -> Nat] /\ AtMain(known, place, proc, base) /\ Own(proc)
      /\ Answers(known, base, requests) /\ InRequests(known, place, proc, requests)
  BY DEF Whole, Ghosts, Own
<1>2. ahead \in Seq(Field) /\ PROCESS_FINISHED \in Field /\ PROCESS_STARTED # PROCESS_FINISHED
  <2>1. PROCESS_STARTED # PROCESS_FINISHED
    BY DEF PROCESS_STARTED, PROCESS_FINISHED
  <2>2. QED BY <1>1, <2>1, ToMainIs, NumbersAreFields
<1>3. ToSched(known, requests) = one \/ ToSched(known, requests) = none
  BY Zenon DEF ToSched
<1>4. \/ from_memoria = Joined(ahead, ToSched(known, requests))
      \/ main.at = "recv_op" /\ from_memoria = Joined(ToSched(known, requests), ahead)
  BY <1>1 DEF Answers, ahead
<1> HIDE DEF ahead
<1>5. /\ one \in Seq(Field) /\ none \in Seq(Field) /\ Head(one) = PROCESS_FINISHED
      /\ Joined(ahead, none) = ahead /\ Joined(none, ahead) = ahead /\ Joined(none, one) = one
      /\ Head(Joined(one, ahead)) = PROCESS_FINISHED
  BY <1>2, OneFirst, ConcatFacts DEF Joined
<1> HIDE DEF one
<1>6. from_memoria = Joined(ahead, ToSched(known, requests))
  <2>1. ASSUME main.at = "recv_op", from_memoria = Joined(ToSched(known, requests), ahead)
        PROVE  ToSched(known, requests) = none
    <3>1. ToSched(known, requests) # one
      BY <1>2, <1>5, <2>1
    <3>2. QED BY <1>3, <3>1
  <2>2. QED BY <1>4, <1>5, <2>1, Zenon
<1>7. ~ Pending(known, requests, Console)
  <2>1. CASE main.at = "recv_op"
    <3>1. ASSUME Pending(known, requests, Console) PROVE FALSE
      <4>1. ahead = none
        BY <3>1 DEF ahead, ToMain
      <4>2. from_memoria = one
        <5>1. from_memoria = ToSched(known, requests)
          <6>1. Joined(none, none) = none
            BY <1>5, ConcatFacts DEF Joined
          <6>2. QED BY <1>3, <1>5, <1>6, <4>1, <6>1, Zenon
        <5>2. QED BY <1>3, <5>1, Zenon
      <4>3. QED BY <1>2, <1>5, <2>1, <4>2
    <3>2. QED BY <3>1
  <2>2. CASE main.at # "recv_op"
    <3>1. place[Console] = "main"
      BY <1>1, MainAt
    <3>2. ASSUME NEW j \in 1 .. Len(requests), requests[j].pcb.socket_consola = Console
          PROVE  FALSE
      <4>1. PICK d \in Consolas : requests[j].pcb = proc[d] /\ Waits(requests[j].op, place[d])
        BY <1>1 DEF InRequests, Tells
      <4>2. d = Console
        BY <1>1, <3>2, <4>1 DEF Own
      <4>3. QED BY <2>2, <3>1, <4>1, <4>2 DEF Waits
    <3>3. QED BY <3>2 DEF Pending
  <2>3. QED BY <2>1, <2>2
<1>8. PICK first \in Field, rest \in Seq(Field) :
        ahead = Joined(<<first>>, rest) /\ Expected(base, requests, first, rest)
  BY <1>1, <1>7, ToMainParts DEF ahead
<1>9. /\ ToSched(known, requests) \in Seq(Field) /\ Joined(rest, ToSched(known, requests)) \in Seq(Field)
      /\ <<first>> \in Seq(Field)
  <2>1. ToSched(known, requests) \in Seq(Field)
    BY <1>3, <1>5, Zenon
  <2>2. QED BY <1>8, <2>1, OneFirst, ConcatFacts DEF Joined
<1>10. from_memoria = Joined(<<first>>, Joined(rest, ToSched(known, requests)))
  <2>1. PICK s : s = <<first>>
    OBVIOUS
  <2>2. PICK told : told = ToSched(known, requests)
    OBVIOUS
  <2>3. s \in Seq(Field) /\ told \in Seq(Field)
    BY <1>9, <2>1, <2>2
  <2>4. Joined(Joined(s, rest), told) = Joined(s, Joined(rest, told))
    BY <2>3, JoinedAssoc
  <2>5. QED BY <1>6, <1>8, <2>1, <2>2, <2>4
<1>11. Head(from_memoria) = first /\ Tail(from_memoria) = Joined(rest, ToSched(known, requests))
  <2> DEFINE more == Joined(rest, ToSched(known, requests))
  <2>1. more \in Seq(Field) /\ from_memoria = Joined(<<first>>, more)
    BY <1>9, <1>10
  <2> HIDE DEF more
  <2>2. Head(Joined(<<first>>, more)) = first /\ Tail(Joined(<<first>>, more)) = more
    BY <2>1, OneFirst
  <2>3. QED BY <2>1, <2>2 DEF more
<1>12. QED BY <1>7, <1>8, <1>11

(* The same, for the parts of the invariant that recv leaves alone.        *)
LEMMA MainReads ==
  ASSUME NEW known, NEW place, NEW proc, NEW base, NEW requests, NEW resolved,
         Whole(known, place, proc, base, requests, resolved),
         main.at # "accept", ~ Pending(known, requests, Console),
         NEW pcb \in ConsolaPcbs, pcb.socket_consola = Console,
         pcb.instructions = Listing[Console],
         At(pcb) = At(proc[Console]), pcb.id = proc[Console].id,
         NEW c, c = Console, Creating(known, base, pcb, c)', NEW rest,
         known = "all" => /\ ToMain(known, base, requests)' = rest
                          /\ from_memoria' = Joined(rest, ToSched(known, requests)),
         from_memoria' \in Seq(Int),
         UNCHANGED <<kernel, consola, backlog, to_kernel, to_consola, process_count, sched,
                     ready, io, to_cpu, from_cpu, to_memoria, page_fault, page_tables, left>>
  PROVE  Kept(known)'
<1> DEFINE place2 == Moved(place, c, "main")
           proc2 == Moved(proc, c, pcb)
<1>1. /\ Ghosts(place, proc, base, requests, resolved) /\ AtMain(known, place, proc, base)
      /\ Answers(known, base, requests) /\ Own(proc)
  BY DEF Whole, Ghosts, Own
<1>2. c \in Consolas /\ place[c] = "main" /\ \A d \in Consolas : place[d] = "main" <=> d = c
  BY <1>1, MainAt
<1>3. /\ \A d \in Consolas : place2[d] = "main" <=> d = c
      /\ proc2[c] = pcb
  BY <1>1, <1>2 DEF Moved, Ghosts
<1> HIDE DEF place2, proc2
<1>4. AtMain(known, place2, proc2, base)'
  <2>1. Creating(known, base, proc2[c], c)'
    BY <1>3
  <2>2. QED BY <1>2, <1>3, <2>1 DEF AtMain
<1>5. Answers(known, base, requests)'
  <2> SUFFICES ASSUME known = "all" PROVE Answers(known, base, requests)'
    BY DEF Answers
  <2>1. ToSched(known, requests)' = ToSched(known, requests)
    BY DEF ToSched
  <2>2. from_memoria' = Joined(ToMain(known, base, requests)', ToSched(known, requests)')
    BY <2>1, Zenon
  <2>3. QED BY <2>2, Zenon DEF Answers
<1>6. \A p \in ready' : p \in ready
  OBVIOUS
<1>7. AtMain(known, Moved(place, c, "main"), Moved(proc, c, pcb), base)'
  BY <1>4 DEF place2, proc2
<1>8. QED BY <1>2, <1>5, <1>6, <1>7, MainMoves

(* What a recv of the main thread finds, when it is no other thread's.     *)
LEMMA MainRecvFinds ==
  ASSUME NEW known, NEW place, NEW proc, NEW base, NEW requests, NEW resolved,
         Whole(known, place, proc, base, requests, resolved), NEW at, MainRecv(at),
         at # "accept", at = "recv_op" => Head(from_memoria) = PROCESS_STARTED,
         at = "recv_size" => main.missing > 0
  PROVE  /\ main.at = at /\ ~ Pending(known, requests, Console)
         /\ UNCHANGED <<consola, backlog, to_kernel, to_consola, process_count, sched, ready,
                        io, to_cpu, from_cpu, to_memoria, page_fault, page_tables, left>>
         /\ Head(from_memoria) \in Int /\ from_memoria' \in Seq(Int)
         /\ \E rest : known = "all" =>
              /\ Expected(base, requests, Head(from_memoria), rest)
              /\ from_memoria' = Joined(rest, ToSched(known, requests))
         /\ Console \in Consolas /\ proc[Console] \in ConsolaPcbs
         /\ proc[Console].socket_consola = Console
         /\ proc[Console].instructions = Listing[Console]
         /\ Creating(known, base, proc[Console], Console) /\ main.pcb = proc[Console]
         /\ base \in [Consolas -> Nat] /\ Len(Segmentos[Console]) \in Nat
<1>1. /\ main.at = at /\ kernel = "up" /\ from_memoria # << >>
      /\ from_memoria' = Tail(from_memoria)
      /\ UNCHANGED <<consola, backlog, to_kernel, to_consola, process_count, sched, ready,
                     io, to_cpu, from_cpu, to_memoria, page_fault, page_tables, left>>
  BY DEF MainRecv, RecvFromMemoria, queues, dispatch
<1>2. Head(from_memoria) \in Int /\ from_memoria' \in Seq(Int)
  <2>1. from_memoria \in Seq(Int)
    BY DEF Whole, Types
  <2>2. QED BY <1>1, <2>1
<1>3. known = "all" =>
        /\ ~ Pending(known, requests, Console)
        /\ \E rest \in Seq(Field) : /\ Expected(base, requests, Head(from_memoria), rest)
                                    /\ from_memoria' = Joined(rest, ToSched(known, requests))
  BY <1>1, MainHears
<1>4. /\ Ghosts(place, proc, base, requests, resolved) /\ AtMain(known, place, proc, base)
      /\ InRequests(known, place, proc, requests) /\ Own(proc)
  BY DEF Whole, Ghosts, Own
<1>5. Console \in Consolas /\ place[Console] = "main" /\ Creating(known, base, proc[Console], Console)
      /\ main.pcb = proc[Console]
  BY <1>1, <1>4, MainAt
<1>6. place[Console] \notin Uncreated
  BY <1>5 DEF Uncreated
<1>7. /\ proc[Console] \in ConsolaPcbs /\ proc[Console].socket_consola = Console
      /\ proc[Console].instructions = Listing[Console] /\ base \in [Consolas -> Nat]
      /\ Len(Segmentos[Console]) \in Nat
  BY <1>4, <1>5, <1>6, ProgramTypes DEF Ghosts
<1>8. known # "all" => ~ Pending(known, requests, Console)
  BY <1>4, <1>5, OnlyFaultsTell
<1>9. \E rest : known = "all" => /\ Expected(base, requests, Head(from_memoria), rest)
                                 /\ from_memoria' = Joined(rest, ToSched(known, requests))
  BY <1>3
<1>10. QED BY <1>1, <1>2, <1>3, <1>5, <1>7, <1>8, <1>9

(* recv_op to recv_count, or the kernel exits.                             *)
LEMMA MainRecvOpCodeKeeps ==
  ASSUME NEW known, NEW place, NEW proc, NEW base, NEW requests, NEW resolved,
         Whole(known, place, proc, base, requests, resolved), MainRecvOpCode
  PROVE  Kept(known)'
<1>1. MainRecv("recv_op")
  BY DEF MainRecvOpCode
<1>2. CASE Head(from_memoria) # PROCESS_STARTED
  <2>1. kernel' = "down" /\ UNCHANGED main
    BY <1>2 DEF MainRecvOpCode
  <2>2. UNCHANGED <<backlog, to_kernel, to_consola, process_count, sched, ready, io,
                    to_cpu, from_cpu, to_memoria, page_fault, page_tables, left, consola>>
    BY <1>1 DEF MainRecv, RecvFromMemoria, queues, dispatch
  <2>3. from_memoria' \in Seq(Int)
    <3>1. /\ from_memoria \in Seq(Int) /\ from_memoria # << >>
          /\ from_memoria' = Tail(from_memoria)
      BY <1>1 DEF Whole, Types, MainRecv, RecvFromMemoria
    <3>2. QED BY <3>1
  <2>4. QED BY <2>1, <2>2, <2>3, NothingMoves
<1>3. CASE Head(from_memoria) = PROCESS_STARTED
  <2> PICK c : c = Console
    OBVIOUS
  <2>1. main' = [main EXCEPT !.at = "recv_count"] /\ UNCHANGED kernel
    BY <1>3 DEF MainRecvOpCode
  <2>2. /\ main.at = "recv_op" /\ ~ Pending(known, requests, c)
        /\ UNCHANGED <<consola, backlog, to_kernel, to_consola, process_count, sched, ready,
                       io, to_cpu, from_cpu, to_memoria, page_fault, page_tables, left>>
        /\ from_memoria' \in Seq(Int)
        /\ \E rest : known = "all" =>
             /\ Expected(base, requests, Head(from_memoria), rest)
             /\ from_memoria' = Joined(rest, ToSched(known, requests))
        /\ c \in Consolas /\ proc[c] \in ConsolaPcbs
        /\ proc[c].socket_consola = c /\ proc[c].instructions = Listing[c]
        /\ Creating(known, base, proc[c], c)
    BY <1>1, <1>3, MainRecvFinds
  <2>3. PICK rest : known = "all" => /\ Expected(base, requests, Head(from_memoria), rest)
                                     /\ from_memoria' = Joined(rest, ToSched(known, requests))
    BY <2>2
  <2>4. known = "all" => rest = AddSegmentTable(Table(base, c))
    BY <2>2, <2>3 DEF Expected
  <2>5. /\ main = [at |-> "recv_op", pcb |-> proc[c]]
        /\ known = "all" => proc[c].segment_table = << >>
    BY <2>2 DEF Creating
  <2>6. main' = [at |-> "recv_count", pcb |-> proc[c]] /\ main'.at = "recv_count"
    BY <2>1, <2>5
  <2>7. Creating(known, base, proc[c], c)'
    BY <2>5, <2>6 DEF Creating
  <2>8. Console' = c
    BY <2>2, <2>6 DEF Console
  <2>9. known = "all" => ToMain(known, base, requests)' = rest
    <3>1. ToMain(known, base, requests)' = AddSegmentTable(Table(base, c))
      BY <2>2, <2>6, <2>8, Zenon DEF ToMain
    <3>2. QED BY <2>4, <3>1
  <2>10. QED BY <2>1, <2>2, <2>3, <2>7, <2>9, MainReads
<1>4. QED BY <1>2, <1>3

(* recv_count to recv_size.                                                *)
LEMMA MainRecvCountKeeps ==
  ASSUME NEW known, NEW place, NEW proc, NEW base, NEW requests, NEW resolved,
         Whole(known, place, proc, base, requests, resolved), MainRecvCount
  PROVE  Kept(known)'
<1> PICK c : c = Console
  OBVIOUS
<1>1. /\ MainRecv("recv_count") /\ UNCHANGED kernel
      /\ main' = [at |-> "recv_size", pcb |-> main.pcb, missing |-> Head(from_memoria)]
  BY DEF MainRecvCount
<1>2. /\ main.at = "recv_count" /\ ~ Pending(known, requests, c)
      /\ UNCHANGED <<consola, backlog, to_kernel, to_consola, process_count, sched, ready,
                     io, to_cpu, from_cpu, to_memoria, page_fault, page_tables, left>>
      /\ Head(from_memoria) \in Int /\ from_memoria' \in Seq(Int)
      /\ \E rest : known = "all" =>
           /\ Expected(base, requests, Head(from_memoria), rest)
           /\ from_memoria' = Joined(rest, ToSched(known, requests))
      /\ c \in Consolas /\ proc[c] \in ConsolaPcbs
      /\ proc[c].socket_consola = c /\ proc[c].instructions = Listing[c]
      /\ Creating(known, base, proc[c], c) /\ base \in [Consolas -> Nat] /\ Len(Segmentos[c]) \in Nat
  BY <1>1, MainRecvFinds
<1>3. PICK rest : known = "all" => /\ Expected(base, requests, Head(from_memoria), rest)
                                   /\ from_memoria' = Joined(rest, ToSched(known, requests))
  BY <1>2
<1> PICK len : len = Len(Segmentos[c])
  OBVIOUS
<1> PICK n : n = Head(from_memoria)
  OBVIOUS
<1>4. n \in Int /\ (known = "all" => rest = Rows(base, c, 0) /\ n = len)
  BY <1>2, <1>3 DEF Expected
<1>5. main.pcb = proc[c] /\ (known = "all" => proc[c].segment_table = << >>)
  BY <1>2 DEF Creating
<1>6. main' = [at |-> "recv_size", pcb |-> proc[c], missing |-> n]
  BY <1>1, <1>5
<1>7. Creating(known, base, proc[c], c)'
  <2>1. SubSeq(Table(base, c), 1, len - len) = << >>
    <3>1. len - len = 0
      BY <1>2
    <3>2. Table(base, c) \in SegmentTables
      BY <1>2, TableFacts
    <3>3. QED BY <3>1, <3>2 DEF SegmentTables
  <2>2. len \in 0 .. Len(Segmentos[c])
    BY <1>2
  <2>3. known = "all" => RowsRead(base, proc[c], c, n)'
    BY <1>4, <1>5, <2>1, <2>2 DEF RowsRead
  <2>4. QED BY <1>4, <1>6, <2>3 DEF Creating
<1>8. Console' = c /\ main'.at = "recv_size" /\ main'.missing = n
  BY <1>2, <1>6 DEF Console
<1>9. known = "all" => ToMain(known, base, requests)' = rest
  <2> SUFFICES ASSUME known = "all" PROVE ToMain(known, base, requests)' = rest
    OBVIOUS
  <2>1. ToMain(known, base, requests)' = Rows(base, c, len - len)
    BY <1>2, <1>4, <1>8, Zenon DEF ToMain
  <2>2. len - len = 0
    BY <1>2
  <2>3. QED BY <1>4, <2>1, <2>2
<1>10. QED BY <1>1, <1>2, <1>3, <1>7, <1>9, MainReads

(* recv_size to recv_index, one row.                                       *)
LEMMA MainRecvSizeKeeps ==
  ASSUME NEW known, NEW place, NEW proc, NEW base, NEW requests, NEW resolved,
         Whole(known, place, proc, base, requests, resolved), MainRecvSize
  PROVE  Kept(known)'
<1> PICK c : c = Console
  OBVIOUS
<1> PICK n : n = main.missing
  OBVIOUS
<1> PICK len : len = Len(Segmentos[c])
  OBVIOUS
<1>1. /\ MainRecv("recv_size") /\ UNCHANGED kernel /\ main.missing > 0
      /\ main' = [at |-> "recv_index", pcb |-> main.pcb, missing |-> main.missing,
                  size |-> Head(from_memoria)]
  BY DEF MainRecvSize
<1>2. /\ main.at = "recv_size" /\ ~ Pending(known, requests, c)
      /\ UNCHANGED <<consola, backlog, to_kernel, to_consola, process_count, sched, ready,
                     io, to_cpu, from_cpu, to_memoria, page_fault, page_tables, left>>
      /\ Head(from_memoria) \in Int /\ from_memoria' \in Seq(Int)
      /\ \E rest : known = "all" =>
           /\ Expected(base, requests, Head(from_memoria), rest)
           /\ from_memoria' = Joined(rest, ToSched(known, requests))
      /\ c \in Consolas /\ proc[c] \in ConsolaPcbs
      /\ proc[c].socket_consola = c /\ proc[c].instructions = Listing[c]
      /\ Creating(known, base, proc[c], c) /\ base \in [Consolas -> Nat] /\ len \in Nat
  BY <1>1, MainRecvFinds
<1>3. PICK rest : known = "all" => /\ Expected(base, requests, Head(from_memoria), rest)
                                   /\ from_memoria' = Joined(rest, ToSched(known, requests))
  BY <1>2
<1> PICK size : size = Head(from_memoria)
  OBVIOUS
<1>4. known = "all" => /\ n \in 1 .. len /\ size = Segmentos[c][len - n + 1]
                       /\ rest = Joined(<<base[c] + (len - n)>>, Rows(base, c, len - n + 1))
  BY <1>2, <1>3 DEF Expected
<1>5. main.pcb = proc[c] /\ n \in Int /\ (known = "all" => RowsRead(base, proc[c], c, n))
  BY <1>2 DEF Creating
<1>6. main' = [at |-> "recv_index", pcb |-> proc[c], missing |-> n, size |-> size]
  BY <1>1, <1>5
<1>7. Creating(known, base, proc[c], c)'
  <2>1. known = "all" => /\ RowsRead(base, proc[c], c, n)' /\ n > 0
                         /\ size = Segmentos[c][Len(Segmentos[c]) - n + 1]
    BY <1>2, <1>4, <1>5 DEF RowsRead
  <2>2. QED BY <1>2, <1>5, <1>6, <2>1 DEF Creating
<1>8. Console' = c /\ main'.at = "recv_index" /\ main'.missing = n
  BY <1>2, <1>6 DEF Console
<1>9. known = "all" => ToMain(known, base, requests)' = rest
  <2> SUFFICES ASSUME known = "all" PROVE ToMain(known, base, requests)' = rest
    OBVIOUS
  <2>1. ToMain(known, base, requests)' = Joined(<<base[c] + len - n>>, Rows(base, c, len - n + 1))
    BY <1>2, <1>8, Zenon DEF ToMain
  <2>2. base[c] + len - n = base[c] + (len - n)
    BY <1>2, <1>4
  <2>3. QED BY <1>4, <2>1, <2>2
<1>10. QED BY <1>1, <1>2, <1>3, <1>7, <1>9, MainReads

(* One more row of the segment table.                                      *)
WithTable(pcb, table) == [pcb EXCEPT !.segment_table = table]
LEMMA WithTableFacts ==
  ASSUME NEW pcb \in ConsolaPcbs, NEW table \in SegmentTables,
         NEW new, new = WithTable(pcb, table)
  PROVE  /\ new \in ConsolaPcbs
         /\ new.segment_table = table
         /\ new.socket_consola = pcb.socket_consola
         /\ new.instructions = pcb.instructions
         /\ new.id = pcb.id
         /\ At(new) = At(pcb)
<1>1. /\ new.segment_table = table
      /\ new.socket_consola = pcb.socket_consola /\ new.instructions = pcb.instructions
      /\ new.id = pcb.id /\ new.program_counter = pcb.program_counter
      /\ new.registers = pcb.registers
  BY DEF ConsolaPcbs, Pcbs, WithTable
<1>2. new \in ConsolaPcbs
  BY DEF ConsolaPcbs, Pcbs, WithTable
<1>3. At(new) = At(pcb)
  BY <1>1 DEF At
<1>4. QED BY <1>1, <1>2, <1>3

LEMMA CountDown ==
  ASSUME NEW len \in Nat, NEW n \in 1 .. len, NEW k, k = len - n
  PROVE  /\ k \in Nat /\ k < len /\ k + 1 \in 1 .. len /\ k + 1 = len - n + 1
         /\ k + 1 = len - (n - 1) /\ n - 1 \in 0 .. len /\ k \in Int
OBVIOUS

LEMMA NextOf ==
  ASSUME NEW F, NEW s \in Seq(F), NEW k \in Nat, k < Len(s)
  PROVE  /\ Append(SubSeq(s, 1, k), s[k + 1]) = SubSeq(s, 1, k + 1)
         /\ SubSeq(s, 1, k + 1) \in Seq(F)
<1> DEFINE t == Append(SubSeq(s, 1, k), s[k + 1])
           u == SubSeq(s, 1, k + 1)
<1>1. t \in Seq(F) /\ u \in Seq(F) /\ Len(t) = Len(u)
  OBVIOUS
<1>2. \A i \in 1 .. Len(t) : t[i] = u[i]
  OBVIOUS
<1> HIDE DEF t, u
<1>3. t = u
  BY <1>1, <1>2, SameSeq
<1>4. QED BY <1>1, <1>3 DEF t, u

(* recv_index to recv_size: the row is in the segment table.               *)
LEMMA MainRecvIndexKeeps ==
  ASSUME NEW known, NEW place, NEW proc, NEW base, NEW requests, NEW resolved,
         Whole(known, place, proc, base, requests, resolved), MainRecvIndex
  PROVE  Kept(known)'
<1> PICK c : c = Console
  OBVIOUS
<1> PICK n : n = main.missing
  OBVIOUS
<1> PICK len : len = Len(Segmentos[c])
  OBVIOUS
<1>1. /\ MainRecv("recv_index") /\ UNCHANGED kernel
      /\ main' = [at |-> "recv_size", missing |-> main.missing - 1,
                  pcb |-> [main.pcb EXCEPT !.segment_table =
                             Append(@, [size |-> main.size,
                                        page_table_index |-> Head(from_memoria)])]]
  BY DEF MainRecvIndex
<1>2. /\ main.at = "recv_index" /\ ~ Pending(known, requests, c)
      /\ UNCHANGED <<consola, backlog, to_kernel, to_consola, process_count, sched, ready,
                     io, to_cpu, from_cpu, to_memoria, page_fault, page_tables, left>>
      /\ Head(from_memoria) \in Int /\ from_memoria' \in Seq(Int)
      /\ \E rest : known = "all" =>
           /\ Expected(base, requests, Head(from_memoria), rest)
           /\ from_memoria' = Joined(rest, ToSched(known, requests))
      /\ c \in Consolas /\ proc[c] \in ConsolaPcbs
      /\ proc[c].socket_consola = c /\ proc[c].instructions = Listing[c]
      /\ Creating(known, base, proc[c], c) /\ main.pcb = proc[c]
      /\ base \in [Consolas -> Nat] /\ len \in Nat
  BY <1>1, MainRecvFinds
<1>3. PICK rest : known = "all" => /\ Expected(base, requests, Head(from_memoria), rest)
                                   /\ from_memoria' = Joined(rest, ToSched(known, requests))
  BY <1>2
<1> PICK size : size = main.size
  OBVIOUS
<1> PICK row : row = [size |-> size, page_table_index |-> Head(from_memoria)]
  OBVIOUS
<1> PICK old : old = proc[c].segment_table
  OBVIOUS
<1> PICK more : more = Append(old, row)
  OBVIOUS
<1> PICK pcb : pcb = WithTable(proc[c], more)
  OBVIOUS
<1>4. /\ n \in Int /\ size \in Int
      /\ known = "all" => /\ RowsRead(base, proc[c], c, n)
                          /\ size = Segmentos[c][len - n + 1]
  BY <1>2 DEF Creating
<1>5. more \in SegmentTables
  <2>1. row \in SegmentRows
    BY <1>2, <1>4 DEF SegmentRows
  <2>2. old \in SegmentTables
    BY <1>2 DEF ConsolaPcbs, Pcbs
  <2>3. QED BY <2>1, <2>2 DEF SegmentTables
<1>6. /\ pcb \in ConsolaPcbs /\ pcb.segment_table = more
      /\ pcb.socket_consola = c /\ pcb.instructions = Listing[c]
      /\ pcb.id = proc[c].id /\ At(pcb) = At(proc[c])
  <2>1. PICK before : before = proc[c]
    OBVIOUS
  <2>2. before \in ConsolaPcbs /\ pcb = WithTable(before, more)
    BY <1>2, <2>1
  <2>3. pcb \in ConsolaPcbs
    BY <1>5, <2>2, WithTableFacts, Zenon
  <2>4. pcb.segment_table = more
    BY <1>5, <2>2, WithTableFacts, Zenon
  <2>5. pcb.socket_consola = before.socket_consola
    BY <1>5, <2>2, WithTableFacts
  <2>6. pcb.instructions = before.instructions
    BY <1>5, <2>2, WithTableFacts
  <2>7. pcb.id = before.id
    BY <1>5, <2>2, WithTableFacts
  <2>8. At(pcb) = At(before)
    BY <1>5, <2>2, WithTableFacts
  <2>9. QED BY <1>2, <2>1, <2>3, <2>4, <2>5, <2>6, <2>7, <2>8
<1>7. main' = [at |-> "recv_size", missing |-> n - 1, pcb |-> pcb]
  <2>1. [proc[c] EXCEPT !.segment_table = Append(@, row)]
          = [proc[c] EXCEPT !.segment_table = Append(proc[c].segment_table, row)]
    BY <1>2 DEF ConsolaPcbs, Pcbs
  <2>2. QED BY <1>1, <1>2, <2>1 DEF WithTable
<1>8. known = "all" =>
        /\ rest = Rows(base, c, len - n + 1) /\ n \in 1 .. len
        /\ RowsRead(base, pcb, c, n - 1)
  <2> SUFFICES ASSUME known = "all"
               PROVE  /\ rest = Rows(base, c, len - n + 1) /\ n \in 1 .. len
                      /\ RowsRead(base, pcb, c, n - 1)
    OBVIOUS
  <2>1. /\ n \in 1 .. len /\ Head(from_memoria) = base[c] + (len - n)
        /\ rest = Rows(base, c, len - n + 1)
    BY <1>2, <1>3 DEF Expected
  <2> PICK table : table = Table(base, c)
    OBVIOUS
  <2> PICK k : k = len - n
    OBVIOUS
  <2>2. /\ k \in Nat /\ k < len /\ k + 1 \in 1 .. len /\ k + 1 = len - n + 1
        /\ k + 1 = len - (n - 1) /\ n - 1 \in 0 .. len /\ k \in Int
    BY <1>2, <2>1, CountDown
  <2>3. /\ table \in Seq(SegmentRows) /\ Len(table) = len
        /\ table[k + 1] = [size |-> Segmentos[c][k + 1], page_table_index |-> base[c] + (k + 1) - 1]
    BY <1>2, <2>2, TableFacts DEF SegmentTables
  <2>4. table[k + 1] = row
    <3>1. base[c] + (k + 1) - 1 = base[c] + k
      BY <1>2, <2>2
    <3>2. QED BY <1>4, <2>1, <2>2, <2>3, <3>1
  <2>5. Append(SubSeq(table, 1, k), row) = SubSeq(table, 1, k + 1)
    BY <2>2, <2>3, <2>4, NextOf
  <2>6. old = SubSeq(table, 1, k)
    BY <1>4 DEF RowsRead
  <2>7. pcb.segment_table = SubSeq(table, 1, len - (n - 1))
    BY <1>6, <2>2, <2>5, <2>6
  <2>8. QED BY <2>1, <2>2, <2>7 DEF RowsRead
<1>9. Creating(known, base, pcb, c)'
  <2>1. n - 1 \in Int /\ main' = [at |-> "recv_size", pcb |-> pcb, missing |-> n - 1]
    BY <1>4, <1>7
  <2>2. known = "all" => RowsRead(base, pcb, c, n - 1)'
    BY <1>8 DEF RowsRead
  <2>3. QED BY <2>1, <2>2 DEF Creating
<1>10. Console' = c /\ main'.at = "recv_size" /\ main'.missing = n - 1
  BY <1>6, <1>7 DEF Console
<1>11. known = "all" => ToMain(known, base, requests)' = rest
  <2> SUFFICES ASSUME known = "all" PROVE ToMain(known, base, requests)' = rest
    OBVIOUS
  <2>1. ToMain(known, base, requests)' = Rows(base, c, len - (n - 1))
    BY <1>2, <1>10, Zenon DEF ToMain
  <2>2. len - (n - 1) = len - n + 1
    BY <1>2, <1>4
  <2>3. QED BY <1>8, <2>1, <2>2
<1>12. QED BY <1>1, <1>2, <1>3, <1>6, <1>9, <1>11, MainReads

(* main to ready: all rows are in.                                         *)
LEMMA NewStateKeeps ==
  ASSUME NEW known, NEW place, NEW proc, NEW base, NEW requests, NEW resolved,
         Whole(known, place, proc, base, requests, resolved), NewState
  PROVE  Kept(known)'
<1> PICK c : c = Console
  OBVIOUS
<1>1. /\ kernel = "up" /\ main.at = "recv_size" /\ main.missing = 0
      /\ ready' = ready \cup {main.pcb} /\ main' = [at |-> "accept"]
      /\ UNCHANGED <<kernel, consola, backlog, to_kernel, to_consola, process_count, sched, io,
                     to_cpu, from_cpu, to_memoria, from_memoria, page_fault, page_tables, left>>
  BY DEF NewState, consolas, dispatch, memoria
<1>2. /\ Ghosts(place, proc, base, requests, resolved) /\ AtMain(known, place, proc, base) /\ Own(proc)
      /\ InRequests(known, place, proc, requests) /\ Answers(known, base, requests)
      /\ base \in [Consolas -> Nat]
  BY DEF Whole, Ghosts, Own
<1>3. /\ c \in Consolas /\ place[c] = "main" /\ main.pcb = proc[c]
      /\ \A d \in Consolas : place[d] = "main" <=> d = c
      /\ Creating(known, base, proc[c], c)
  BY <1>1, <1>2, MainAt
<1>4. ~ Pending(known, requests, c)
  <2>1. ASSUME NEW j \in 1 .. Len(requests), Tells(known, requests[j]),
               requests[j].pcb.socket_consola = c
        PROVE  FALSE
    <3>1. PICK d \in Consolas : requests[j].pcb = proc[d] /\ Waits(requests[j].op, place[d])
      BY <1>2, <2>1 DEF InRequests
    <3>2. d = c
      BY <1>2, <2>1, <3>1 DEF Own
    <3>3. QED BY <1>1, <1>3, <3>1, <3>2 DEF Waits
  <2>2. QED BY <2>1 DEF Pending
<1>5. known = "all" => proc[c].segment_table = Table(base, c)
  <2> SUFFICES ASSUME known = "all" PROVE proc[c].segment_table = Table(base, c)
    OBVIOUS
  <2> PICK len : len = Len(Segmentos[c])
    OBVIOUS
  <2>1. proc[c].segment_table = SubSeq(Table(base, c), 1, len - 0)
    BY <1>1, <1>3 DEF Creating, RowsRead
  <2>2. Table(base, c) \in Seq(SegmentRows) /\ Len(Table(base, c)) = len /\ len \in Nat
    BY <1>2, <1>3, TableFacts, ProgramTypes DEF SegmentTables
  <2>3. len - 0 = len
    BY <2>2
  <2>4. SubSeq(Table(base, c), 1, len) = Table(base, c)
    BY <2>2, AllOf
  <2>5. QED BY <2>1, <2>3, <2>4
<1>6. /\ proc[c] \in ConsolaPcbs /\ proc[c].socket_consola = c
      /\ proc[c].instructions = Listing[c]
  <2>1. place[c] \notin Uncreated
    BY <1>3 DEF Uncreated
  <2>2. QED BY <1>2, <1>3, <2>1 DEF Ghosts
<1> PICK at : at = "ready"
  OBVIOUS
<1>7. \A p \in ready' : p \in ready \/ (at = "ready" /\ p = proc[c])
  BY <1>1, <1>3
<1>8. AtMain(known, Moved(place, c, at), Moved(proc, c, proc[c]), base)'
  <2> DEFINE place2 == Moved(place, c, at)
  <2>1. \A d \in Consolas : place2[d] # "main"
    BY <1>2, <1>3 DEF Moved, Ghosts
  <2> HIDE DEF place2
  <2>2. QED BY <1>1, <2>1 DEF AtMain, place2
<1>9. Answers(known, base, requests)'
  <2> SUFFICES ASSUME known = "all" PROVE Answers(known, base, requests)'
    BY DEF Answers
  <2>1. ToMain(known, base, requests) = << >>
    <3> PICK len : len = Len(Segmentos[c])
      OBVIOUS
    <3>1. ToMain(known, base, requests) = Rows(base, c, len - 0)
      BY <1>1, <1>4, Zenon DEF ToMain
    <3>2. len - 0 = len
      BY <1>3, ProgramTypes
    <3>3. QED BY <1>2, <1>3, <3>1, <3>2, NoRowLeft
  <2>2. ToMain(known, base, requests)' = << >>
    BY <1>1 DEF ToMain
  <2>3. ToSched(known, requests)' = ToSched(known, requests)
    BY <1>1 DEF ToSched
  <2>4. kernel = "up" => from_memoria = Joined(ToMain(known, base, requests), ToSched(known, requests))
    BY <1>1, <1>2 DEF Answers
  <2>5. kernel' = "up" => from_memoria' = Joined(ToMain(known, base, requests)', ToSched(known, requests)')
    BY <1>1, <2>1, <2>2, <2>3, <2>4, Zenon
  <2>6. QED BY <2>5, Zenon DEF Answers
<1>10. /\ at \in {"main", "ready"} /\ from_memoria' \in Seq(Int)
       /\ known = "all" /\ at = "ready" => proc[c].segment_table = Table(base, c)
  BY <1>1, <1>5 DEF Whole, Types
<1>11. QED BY <1>1, <1>3, <1>4, <1>6, <1>7, <1>8, <1>9, <1>10, MainMoves

(* The main thread accepts a console and begins its process.               *)
LEMMA OneTwoThree ==
  ASSUME NEW F, NEW a \in F, NEW b \in F, NEW c \in F, NEW t \in Seq(F)
  PROVE  Joined(<<a, b, c>>, t) = Joined(<<a>>, Joined(<<b>>, Joined(<<c>>, t)))
<1> DEFINE u == <<a, b, c>> \o t
           v == <<a>> \o (<<b>> \o (<<c>> \o t))
<1>1. u \in Seq(F) /\ v \in Seq(F) /\ Len(u) = Len(v)
  OBVIOUS
<1>2. \A i \in 1 .. Len(u) : u[i] = v[i]
  OBVIOUS
<1>3. u = v
  <2> HIDE DEF u, v
  <2>1. QED BY <1>1, <1>2, SameSeq
<1>4. QED BY <1>3 DEF Joined

LEMMA StartedFields ==
  ASSUME NEW s \in Seq(Field), NEW m \in Request, m.op = PROCESS_STARTED,
         NEW sizes, sizes = Segmentos[m.pcb.socket_consola], NEW pid, pid = m.pcb.id
  PROVE  s \o AddProcessStarted(pid, sizes) = Joined(s, FieldsOf(m))
<1> PICK len : len = Len(sizes)
  OBVIOUS
<1>1. /\ sizes \in Seq(Int) /\ len \in Int /\ pid \in Int
  BY ProgramTypes DEF Request, ConsolaPcbs, Pcbs
<1>2. PROCESS_STARTED \in Field /\ pid \in Field /\ len \in Field /\ sizes \in Seq(Field)
  BY <1>1, NumbersAreFields
<1>3. FieldsOf(m) = Joined(<<PROCESS_STARTED>>, Joined(<<pid>>, Joined(<<len>>, sizes)))
  BY OpCodes DEF FieldsOf, Body, OpsDiffer
<1>4. AddProcessStarted(pid, sizes) = Joined(<<PROCESS_STARTED, pid, len>>, sizes)
  BY DEF AddProcessStarted, Joined
<1>5. AddProcessStarted(pid, sizes) = FieldsOf(m)
  BY <1>2, <1>3, <1>4, OneTwoThree
<1>6. QED BY <1>5 DEF Joined

NewPcb(c, pid) ==
  [id |-> pid, interrupt_type |-> "NO_INTERRUPT", program_counter |-> 0,
   registers |-> NewRegisters, socket_consola |-> c, segment_table |-> << >>,
   instructions |-> Listing[c]]
LEMMA NewPcbFacts ==
  ASSUME NEW c \in Consolas, NEW pid \in Int, NEW pcb, pcb = NewPcb(c, pid)
  PROVE  /\ pcb \in ConsolaPcbs
         /\ pcb.id = pid
         /\ pcb.socket_consola = c
         /\ pcb.instructions = Listing[c]
         /\ pcb.segment_table = << >>
<1>1. NewRegisters \in [1 .. 4 -> Field]
  <2>1. 0 \in Field
    BY NumbersAreFields
  <2>2. QED BY <2>1 DEF NewRegisters
<1>2. "NO_INTERRUPT" \in Field /\ c \in Field
  <2>1. "NO_INTERRUPT" \in Words
    BY DEF Words
  <2>2. QED BY <2>1, NumbersAreFields
<1>3. << >> \in SegmentTables /\ Listing[c] \in Listings(Field)
  <2>1. << >> \in SegmentTables
    BY DEF SegmentTables
  <2>2. QED BY <2>1, ProgramTypes
<1>4. pcb \in Pcbs(Field)
  <2> HIDE DEF NewRegisters
  <2>1. QED BY <1>1, <1>2, <1>3 DEF Pcbs, NewPcb
<1>5. /\ pcb.id = pid /\ pcb.socket_consola = c /\ pcb.instructions = Listing[c]
      /\ pcb.segment_table = << >>
  BY DEF NewPcb
<1>6. QED BY <1>4, <1>5 DEF ConsolaPcbs

(* What CreateProcess does, when the program of c is in its socket.        *)
LEMMA Taken ==
  ASSUME NEW known, NEW place, NEW proc, NEW base, NEW requests, NEW resolved,
         Whole(known, place, proc, base, requests, resolved), CreateProcess
  PROVE  \E c \in Consolas :
           /\ c = Head(backlog) /\ place[c] = "backlog" /\ backlog # << >>
           /\ main.at = "accept"
           /\ main' = [at |-> "recv_op", pcb |-> NewPcb(c, process_count + 1)]
           /\ process_count' = process_count + 1
           /\ to_memoria' = to_memoria \o AddProcessStarted(process_count + 1, Segmentos[c])
           /\ to_kernel' = [to_kernel EXCEPT ![c] = << >>]
           /\ left' = [left EXCEPT ![c] = At(NewPcb(c, process_count + 1))]
           /\ backlog' = Tail(backlog)
           /\ UNCHANGED <<kernel, consola, to_consola, sched, ready, io, to_cpu, from_cpu,
                          from_memoria, page_fault, page_tables>>
<1> PICK c : c = Head(backlog)
  OBVIOUS
<1>1. main.at = "accept" /\ backlog # << >> /\ Types /\ Talks(place, proc) /\ InBacklog(place)
  BY DEF CreateProcess, Whole
<1>2. c \in Consolas /\ place[c] = "backlog"
  <2>1. 1 \in 1 .. Len(backlog) /\ c = backlog[1] /\ c \in Consolas
    BY <1>1 DEF Types
  <2>2. QED BY <1>1, <2>1 DEF InBacklog
<1>3. to_kernel[c] = Joined(AddInstructions(Listing[c]), AddSegments(Segmentos[c]))
  <2>1. Talk("backlog", proc[c], c)
    BY <1>1, <1>2 DEF Talks
  <2>2. QED BY <2>1, Zenon DEF Talk
<1>4. /\ RecvInstructions(to_kernel[c]) = Got(Listing[c], AddSegments(Segmentos[c]))
      /\ RecvSegments(Tail(AddSegments(Segmentos[c]))) = Got(Segmentos[c], << >>)
  BY <1>2, <1>3, ProgramSent
<1> DEFINE instructions == RecvInstructions(to_kernel[c])
           segments == RecvSegments(Tail(instructions.rest))
<1>5. /\ instructions.value = Listing[c] /\ segments.value = Segmentos[c]
      /\ segments.rest = << >>
  <2>1. instructions.value = Listing[c] /\ instructions.rest = AddSegments(Segmentos[c])
    BY <1>4 DEF Got
  <2>2. segments = Got(Segmentos[c], << >>)
    BY <1>4, <2>1
  <2> HIDE DEF segments
  <2>3. QED BY <2>1, <2>2 DEF Got
<1>6. /\ main' = [at |-> "recv_op",
                  pcb |-> [id |-> NextPid, interrupt_type |-> "NO_INTERRUPT",
                           program_counter |-> 0, registers |-> NewRegisters,
                           socket_consola |-> c, segment_table |-> << >>,
                           instructions |-> instructions.value]]
      /\ process_count' = NextPid
      /\ to_memoria' = to_memoria \o AddProcessStarted(NextPid, segments.value)
      /\ to_kernel' = [to_kernel EXCEPT ![c] = segments.rest]
      /\ left' = [left EXCEPT ![c] = At(main'.pcb)]
  BY DEF CreateProcess
<1>7. /\ backlog' = Tail(backlog)
      /\ UNCHANGED <<kernel, consola, to_consola, sched, ready, io, to_cpu, from_cpu,
                     from_memoria, page_fault, page_tables>>
  BY DEF CreateProcess, queues, dispatch
<1> HIDE DEF instructions, segments
<1>8. /\ main' = [at |-> "recv_op", pcb |-> NewPcb(c, process_count + 1)]
      /\ process_count' = process_count + 1
      /\ to_memoria' = to_memoria \o AddProcessStarted(process_count + 1, Segmentos[c])
      /\ to_kernel' = [to_kernel EXCEPT ![c] = << >>]
  BY <1>5, <1>6 DEF NewPcb, NextPid
<1>9. left' = [left EXCEPT ![c] = At(NewPcb(c, process_count + 1))]
  <2>1. main'.pcb = NewPcb(c, process_count + 1)
    BY <1>8
  <2>2. QED BY <1>6, <2>1
<1>10. QED BY <1>1, <1>2, <1>7, <1>8, <1>9

(* The process of c is created: there is one more.                         *)
LEMMA IdsMore ==
  ASSUME NEW place, NEW proc, NEW c, NEW place2, NEW proc2, Step(place, proc, c, place2, proc2),
         Ids(place, proc), process_count' = process_count + 1,
         proc2[c].id = process_count + 1, place[c] \in Uncreated, place2[c] \notin Uncreated
  PROVE  Ids(place2, proc2)'
<1>1. c \in Consolas /\ \A d \in Consolas : d # c => place2[d] = place[d] /\ proc2[d] = proc[d]
  BY DEF Step
<1>2. Created(place2) = Created(place) \cup {c} /\ c \notin Created(place)
  BY <1>1 DEF Created
<1>3. /\ IsFiniteSet(Created(place)) /\ process_count = Cardinality(Created(place))
      /\ process_count \in Nat
  BY CountBound
<1>4. Cardinality(Created(place2)) = process_count + 1
  BY <1>2, <1>3, FS_AddElement
<1>5. \A d \in Created(place) : /\ d # c /\ proc2[d] = proc[d]
                                /\ proc2[d].id \in 1 .. process_count
  BY <1>1, <1>2 DEF Ids, Created
<1>6. \A d \in Created(place2) : proc2[d].id \in 1 .. process_count + 1
  BY <1>2, <1>3, <1>5
<1>7. ASSUME NEW d \in Created(place2), NEW e \in Created(place2), proc2[d].id = proc2[e].id
      PROVE  d = e
  <2>1. CASE d = c \/ e = c
    BY <1>2, <1>3, <1>5, <1>7, <2>1
  <2>2. CASE d # c /\ e # c
    <3>1. d \in Created(place) /\ e \in Created(place) /\ proc[d].id = proc[e].id
      BY <1>2, <1>5, <1>7, <2>2
    <3>2. QED BY <3>1 DEF Ids
  <2>3. QED BY <2>1, <2>2
<1>8. QED BY <1>4, <1>6, <1>7 DEF Ids

(* The consoles that wait behind the first one.                            *)
LEMMA BacklogLess ==
  ASSUME NEW place, NEW place2, NEW c, InBacklog(place), backlog \in Seq(Consolas),
         backlog # << >>, c = Head(backlog), backlog' = Tail(backlog),
         \A d \in Consolas : d # c => place2[d] = place[d]
  PROVE  InBacklog(place2)' /\ backlog' \in Seq(Consolas)
<1> DEFINE n == Len(backlog)
<1>1. /\ n \in Nat /\ n > 0 /\ Len(backlog') = n - 1 /\ backlog[1] = c
      /\ \A k \in 1 .. n - 1 : backlog'[k] = backlog[k + 1] /\ k + 1 \in 1 .. n
      /\ backlog' \in Seq(Consolas) /\ \A k \in 1 .. n : backlog[k] \in Consolas
  OBVIOUS
<1> HIDE DEF n
<1>2. /\ \A k \in 1 .. n : place[backlog[k]] = "backlog"
      /\ \A j, k \in 1 .. n : backlog[j] = backlog[k] => j = k
  BY DEF InBacklog, n
<1>3. \A k \in 1 .. n - 1 : backlog'[k] # c /\ place2[backlog'[k]] = "backlog"
  <2>1. ASSUME NEW k \in 1 .. n - 1 PROVE backlog'[k] # c
    <3>1. backlog'[k] = backlog[k + 1] /\ k + 1 \in 1 .. n /\ 1 \in 1 .. n /\ k + 1 # 1
      BY <1>1
    <3>2. QED BY <1>1, <1>2, <3>1
  <2>2. QED BY <1>1, <1>2, <2>1
<1>4. ASSUME NEW j \in 1 .. n - 1, NEW k \in 1 .. n - 1, backlog'[j] = backlog'[k]
      PROVE  j = k
  <2>1. j + 1 = k + 1
    BY <1>1, <1>2, <1>4
  <2>2. QED BY <2>1
<1>5. QED BY <1>1, <1>3, <1>4 DEF InBacklog

(* A process just created has no page table: those there are belong to    *)
(* processes with smaller identifiers.                                     *)
LEMMA NewcomersTables ==
  ASSUME NEW known, NEW place, NEW proc, NEW c, NEW place2, NEW proc2, Step(place, proc, c, place2, proc2),
         NEW base, NEW requests, NEW requests2, OthersPending(known, requests, requests2, c),
         InTables(known, place, proc, base, requests), page_tables' = page_tables,
         process_count \in Nat, process_count' = process_count + 1,
         proc2[c].id \notin 1 .. process_count,
         known = "all" => ~ Built(known, place2[c], requests2, c)
  PROVE  InTables(known, place2, proc2, base, requests2)'
<1> SUFFICES ASSUME known = "all" PROVE InTables(known, place2, proc2, base, requests2)'
  BY DEF InTables
<1>1. \A i \in 1 .. Len(page_tables') : page_tables'[i].pid \in 1 .. process_count
  BY DEF InTables
<1>2. ASSUME NEW d \in Created(place2)
      PROVE  IF Built(known, place2[d], requests2, d)
             THEN TablesOf(known, place2[d], proc2[d], base, requests2, d)'
             ELSE \A i \in 1 .. Len(page_tables') : page_tables'[i].pid # proc2[d].id
  <2>1. CASE d = c
    BY <1>1, <2>1
  <2>2. CASE d # c
    <3>1. TablesStay(known, place, proc, c, place2, proc2, base, requests, requests2)
      BY DEF TablesStay
    <3>2. QED BY <2>2, <3>1, OthersTablesKept
  <2>3. QED BY <2>1, <2>2
<1>3. \A i \in 1 .. Len(page_tables') : page_tables'[i].pid \in 1 .. process_count'
  BY <1>1
<1>4. QED BY <1>2, <1>3 DEF InTables

(* backlog to main: a new pid, and one more request to memoria.            *)
LEMMA CreateProcessKeeps ==
  ASSUME NEW known, NEW place, NEW proc, NEW base, NEW requests, NEW resolved,
         Whole(known, place, proc, base, requests, resolved), CreateProcess
  PROVE  Kept(known)'
<1>1. /\ Ghosts(place, proc, base, requests, resolved) /\ Types /\ Ids(place, proc)
      /\ InReady(place, proc) /\ InIo(place, proc) /\ AtSched(place, proc)
      /\ InDispatch(place, proc) /\ AtMain(known, place, proc, base) /\ InBacklog(place)
      /\ InRequests(known, place, proc, requests) /\ InResolved(known, place, proc, resolved)
      /\ Talks(place, proc) /\ InTables(known, place, proc, base, requests)
      /\ Answers(known, base, requests) /\ Own(proc)
      /\ requests \in Seq(Request) /\ base \in [Consolas -> Nat]
  BY DEF Whole, Ghosts, Own
<1> DEFINE next == process_count + 1
<1>2. PICK c \in Consolas :
           /\ c = Head(backlog) /\ place[c] = "backlog" /\ backlog # << >>
           /\ main.at = "accept"
           /\ main' = [at |-> "recv_op", pcb |-> NewPcb(c, next)]
           /\ process_count' = next
           /\ to_memoria' = to_memoria \o AddProcessStarted(next, Segmentos[c])
           /\ to_kernel' = [to_kernel EXCEPT ![c] = << >>]
           /\ left' = [left EXCEPT ![c] = At(NewPcb(c, next))]
           /\ backlog' = Tail(backlog)
           /\ UNCHANGED <<kernel, consola, to_consola, sched, ready, io, to_cpu, from_cpu,
                          from_memoria, page_fault, page_tables>>
  BY Taken
<1> PICK pid : pid = next
  OBVIOUS
<1> PICK pcb : pcb = NewPcb(c, pid)
  OBVIOUS
<1>3. process_count \in Nat /\ pid \in Int /\ pid = process_count + 1
  BY <1>1 DEF Types
<1>4. /\ pcb \in ConsolaPcbs /\ pcb.id = pid /\ pcb.socket_consola = c
      /\ pcb.instructions = Listing[c] /\ pcb.segment_table = << >>
  BY <1>3, NewPcbFacts
<1>5. /\ main' = [at |-> "recv_op", pcb |-> pcb] /\ process_count' = pid
      /\ to_memoria' = to_memoria \o AddProcessStarted(pid, Segmentos[c])
      /\ left' = [left EXCEPT ![c] = At(pcb)]
  BY <1>2
<1> HIDE DEF next
<1> PICK place2 : place2 = Moved(place, c, "main")
  OBVIOUS
<1> PICK proc2 : proc2 = Moved(proc, c, pcb)
  OBVIOUS
<1> PICK m : m = [op |-> PROCESS_STARTED, pcb |-> pcb]
  OBVIOUS
<1> PICK requests2 : requests2 = Append(requests, m)
  OBVIOUS
<1>6. /\ Step(place, proc, c, place2, proc2) /\ place2[c] = "main" /\ proc2[c] = pcb
      /\ Ghosts(place2, proc2, base, requests, resolved)
      /\ \A d \in Consolas : d # c => place2[d] = place[d] /\ proc2[d] = proc[d]
  <2>1. "main" \in Places
    BY DEF Places
  <2>2. /\ Step(place, proc, c, place2, proc2) /\ place2[c] = "main" /\ proc2[c] = pcb
        /\ Ghosts(place2, proc2, base, requests, resolved)
    BY <1>1, <1>4, <2>1, MovedWithStep
  <2>3. QED BY <2>2 DEF Step
<1>7. /\ place[c] \in Uncreated /\ place2[c] \notin Uncreated
      /\ place[c] \notin {"ready", "finish", "cpu", "back", "main", "fault", "resolved"}
      /\ place2[c] \notin {"ready", "finish"} /\ place[c] \notin IoPlaces
  BY <1>2, <1>6 DEF Uncreated, IoPlaces, IoAsk
<1>8. \A d \in Consolas : place[d] # "main"
  BY <1>1, <1>2 DEF AtMain, Creating
<1>9. ~ Pending(known, requests, c)
  BY <1>1, <1>7, NotPending
<1>10. m \in Request /\ m.op = PROCESS_STARTED /\ m.pcb = pcb
  BY <1>4 DEF Request
<1>11. /\ InRequests(known, place2, proc2, requests2)' /\ requests2 \in Seq(Request)
       /\ known = "all" => Pending(known, requests2, c)
       /\ OthersPending(known, requests, requests2, c)
  <2>1. to_memoria' = Joined(to_memoria, FieldsOf(m))
    <3>1. to_memoria \in Seq(Field)
      BY <1>1, StreamType DEF InRequests
    <3>2. m.pcb.socket_consola = c /\ m.pcb.id = pid
      BY <1>4, <1>10
    <3>3. QED BY <1>5, <1>10, <3>1, <3>2, StartedFields
  <2>2. OtherWaits(place, c)
    BY <1>8 DEF OtherWaits
  <2>3. Waits(PROCESS_STARTED, place2[c])'
    BY <1>5, <1>6 DEF Waits
  <2>4. m = [op |-> PROCESS_STARTED, pcb |-> proc2[c]]
    BY <1>6
  <2>5. /\ [op |-> PROCESS_STARTED, pcb |-> proc2[c]] \in Request
        /\ to_memoria' = Joined(to_memoria, FieldsOf([op |-> PROCESS_STARTED, pcb |-> proc2[c]]))
        /\ requests2 = Append(requests, [op |-> PROCESS_STARTED, pcb |-> proc2[c]])
    BY <1>10, <2>1, <2>4
  <2> PICK op : op = PROCESS_STARTED
    OBVIOUS
  <2>6. LET more == Append(requests, [op |-> op, pcb |-> proc2[c]])
        IN /\ InRequests(known, place2, proc2, more)' /\ more \in Seq(Request)
           /\ (known = "all" => Pending(known, more, c)) /\ OthersPending(known, requests, more, c)
    <3>1. /\ Step(place, proc, c, place2, proc2) /\ requests \in Seq(Request)
          /\ InRequests(known, place, proc, requests) /\ ~ Pending(known, requests, c)
          /\ OtherWaits(place, c) /\ [op |-> op, pcb |-> proc2[c]] \in Request
          /\ Waits(op, place2[c])'
          /\ to_memoria' = Joined(to_memoria, FieldsOf([op |-> op, pcb |-> proc2[c]]))
      BY <1>1, <1>6, <1>9, <2>2, <2>3, <2>5
    <3>2. QED BY <3>1, RequestsMore
  <2>7. QED BY <2>5, <2>6
<1>12. Ghosts(place2, proc2, base, requests2, resolved)
  BY <1>6, <1>11 DEF Ghosts
<1>13. Ids(place2, proc2)'
  BY <1>1, <1>3, <1>4, <1>5, <1>6, <1>7, IdsMore
<1>14. InReady(place2, proc2)'
  <2>1. \A p \in ready' : p \in ready /\ p.socket_consola # c
    BY <1>1, <1>2, <1>7, NotReady
  <2>2. QED BY <1>1, <1>6, <2>1, ReadyKept
<1>15. InIo(place2, proc2)'
  <2>1. \A b \in io' : b \in io /\ b.pcb.socket_consola # c
    BY <1>1, <1>2, <1>7, NotInIo
  <2>2. QED BY <1>1, <1>6, <2>1, IoKept
<1>16. AtSched(place2, proc2)'
  BY <1>1, <1>2, <1>6, <1>7, SchedKept
<1>17. InDispatch(place2, proc2)'
  BY <1>1, <1>2, <1>6, <1>7, DispatchKept
<1>18. AtMain(known, place2, proc2, base)'
  <2>1. Creating(known, base, proc2[c], c)'
    BY <1>4, <1>5, <1>6 DEF Creating
  <2>2. \A d \in Consolas : place2[d] = "main" <=> d = c
    BY <1>6, <1>8
  <2>3. QED BY <2>1, <2>2 DEF AtMain
<1>19. InBacklog(place2)' /\ backlog' \in Seq(Consolas)
  <2>1. backlog \in Seq(Consolas)
    BY <1>1 DEF Types
  <2>2. QED BY <1>1, <1>2, <1>6, <2>1, BacklogLess
<1>20. InResolved(known, place2, proc2, resolved)'
  BY <1>1, <1>2, <1>6, <1>7, ResolvedKept
<1>21. /\ to_kernel' \in [Consolas -> Seq(Field)] /\ to_kernel'[c] = << >>
       /\ \A d \in Consolas : d # c => to_kernel'[d] = to_kernel[d]
  <2>1. to_kernel \in [Consolas -> Seq(Field)] /\ << >> \in Seq(Field)
    BY <1>1 DEF Types
  <2>2. QED BY <1>2, <2>1
<1>22. /\ left' = [d \in Consolas |-> left'[d]] /\ left'[c] = At(pcb)
       /\ \A d \in Consolas : d # c => left'[d] = left[d]
  <2>1. left = [d \in Consolas |-> left[d]]
    BY <1>1 DEF Types
  <2>2. QED BY <1>5, <2>1
<1>23. Types'
  <2>1. process_count' \in Nat
    BY <1>3, <1>5
  <2>2. QED BY <1>1, <1>2, <1>19, <1>21, <1>22, <2>1 DEF Types
<1>24. \A d \in Consolas : d # c => SocketKept(d)
  BY <1>2, <1>21, <1>22 DEF SocketKept
<1>25. Talk(place2[c], proc2[c], c)'
  <2>1. /\ consola[c] \notin {"start", "failed"} /\ consola[c] # "ended"
        /\ consola[c] # "killed" /\ to_consola[c] = << >>
    <3>1. Talk("backlog", proc[c], c)
      BY <1>1, <1>2 DEF Talks
    <3>2. QED BY <3>1, Zenon DEF Talk
  <2>2. /\ consola'[c] \notin {"start", "failed"} /\ consola'[c] # "ended"
        /\ consola'[c] # "killed" /\ to_consola'[c] = << >>
        /\ to_kernel'[c] = << >> /\ left'[c] = At(pcb)
    BY <1>2, <1>21, <1>22, <2>1
  <2>3. "main" \notin Uncreated
    BY DEF Uncreated
  <2>4. Talk("main", pcb, c)'
    BY <2>2, <2>3, Zenon DEF Talk
  <2>5. QED BY <1>6, <2>4
<1>26. Talks(place2, proc2)'
  BY <1>1, <1>6, <1>24, <1>25, TalksKept
<1>27. InTables(known, place2, proc2, base, requests2)'
  <2>1. Step(place, proc, c, place2, proc2) /\ OthersPending(known, requests, requests2, c)
    BY <1>1, <1>6, <1>11
  <2>2. known = "all" => ~ Built(known, place2[c], requests2, c)
    BY <1>6, <1>11 DEF Built
  <2>3. proc2[c].id \notin 1 .. process_count /\ process_count \in Nat
        /\ process_count' = process_count + 1 /\ page_tables' = page_tables
    BY <1>1, <1>2, <1>3, <1>4, <1>5, <1>6
  <2>4. QED BY <1>1, <2>1, <2>2, <2>3, NewcomersTables
<1>28. Answers(known, base, requests2)'
  <2> SUFFICES ASSUME known = "all" PROVE Answers(known, base, requests2)'
    BY DEF Answers
  <2>1. ToMain(known, base, requests) = << >>
    BY <1>2 DEF ToMain
  <2>2. ToMain(known, base, requests2)' = << >>
    <3>1. Console' = c
      BY <1>4, <1>5 DEF Console
    <3>2. QED BY <1>11, <3>1 DEF ToMain
  <2>3. ToSched(known, requests2)' = ToSched(known, requests)
    <3>1. sched.at = "recv_finished" => sched.pcb.socket_consola \in Consolas
                                        /\ sched.pcb.socket_consola # c
      BY <1>1, <1>7 DEF AtSched, Own
    <3>2. sched.at = "recv_finished" =>
            (Pending(known, requests2, sched.pcb.socket_consola)
               <=> Pending(known, requests, sched.pcb.socket_consola))
      BY <1>11, <3>1 DEF OthersPending
    <3>3. sched' = sched
      BY <1>2
    <3>4. QED BY <3>2, <3>3 DEF ToSched
  <2>4. kernel = "up" => from_memoria = Joined(ToMain(known, base, requests), ToSched(known, requests))
    BY <1>1, <1>2 DEF Answers
  <2>5. kernel' = "up" => from_memoria' = Joined(ToMain(known, base, requests2)', ToSched(known, requests2)')
    BY <1>2, <2>1, <2>2, <2>3, <2>4, Zenon
  <2>6. QED BY <2>5, Zenon DEF Answers
<1>29. Whole(known, place2, proc2, base, requests2, resolved)'
  BY <1>12, <1>13, <1>14, <1>15, <1>16, <1>17, <1>18, <1>19, <1>20, <1>11, <1>23, <1>26, <1>27,
     <1>28 DEF Whole
<1>30. QED BY <1>29 DEF Kept

-----------------------------------------------------------------------------
(* At the start no console has a process.                                  *)
LEMMA InitKept ==
  ASSUME NEW known, Init
  PROVE  Kept(known)
<1> PICK place : place = [c \in Consolas |-> "start"]
  OBVIOUS
<1> PICK proc : proc = [c \in Consolas |-> NewPcb(c, 0)]
  OBVIOUS
<1> PICK base : base = [c \in Consolas |-> 0]
  OBVIOUS
<1>1. /\ kernel = "up" /\ consola = [c \in Consolas |-> "start"] /\ backlog = << >>
      /\ to_kernel = [c \in Consolas |-> << >>] /\ to_consola = [c \in Consolas |-> << >>]
      /\ main = [at |-> "accept"] /\ process_count = 0 /\ sched = [at |-> "execute_algorithm"]
      /\ ready = {} /\ io = {} /\ to_cpu = << >> /\ from_cpu = << >>
      /\ to_memoria = << >> /\ from_memoria = << >> /\ page_fault = << >>
      /\ page_tables = << >> /\ left = [c \in Consolas |-> << >>]
  BY DEF Init
<1>2. \A c \in Consolas : place[c] = "start" /\ place[c] \in Uncreated
  BY DEF Uncreated
<1>3. \A c \in Consolas : proc[c] \in ConsolaPcbs /\ proc[c].socket_consola = c
  <2>1. ASSUME NEW c \in Consolas PROVE proc[c] \in ConsolaPcbs /\ proc[c].socket_consola = c
    <3>1. proc[c] = NewPcb(c, 0)
      OBVIOUS
    <3>2. QED BY <3>1, NewPcbFacts
  <2>2. QED BY <2>1
<1>4. Ghosts(place, proc, base, << >>, << >>)
  <2>1. place \in [Consolas -> Places] /\ base \in [Consolas -> Nat]
    BY DEF Places, Uncreated
  <2>2. proc \in [Consolas -> ConsolaPcbs]
    <3>1. proc = [c \in Consolas |-> proc[c]]
      OBVIOUS
    <3>2. QED BY <1>3, <3>1
  <2>3. << >> \in Seq(Request)
    OBVIOUS
  <2>4. QED BY <1>2, <1>3, <2>1, <2>2, <2>3 DEF Ghosts
<1>5. Types
  <2>1. left = [c \in Consolas |-> left[c]]
    BY <1>1
  <2>2. to_kernel \in [Consolas -> Seq(Field)] /\ to_consola \in [Consolas -> Seq(Field)]
    <3>1. << >> \in Seq(Field)
      OBVIOUS
    <3>2. QED BY <1>1, <3>1
  <2>3. backlog \in Seq(Consolas) /\ page_tables \in Seq(PageTableRow)
    <3> HIDE DEF PageTableRow
    <3>1. QED BY <1>1
  <2>4. consola \in [Consolas -> {"start", "failed", "waiting", "ended", "killed"}]
    BY <1>1
  <2>5. << >> \in Seq(Int)
    OBVIOUS
  <2>6. QED BY <1>1, <2>1, <2>2, <2>3, <2>4, <2>5 DEF Types
<1>6. Created(place) = {}
  BY <1>2 DEF Created
<1>7. Ids(place, proc)
  BY <1>1, <1>6, FS_EmptySet DEF Ids
<1>8. InReady(place, proc) /\ InIo(place, proc) /\ AtSched(place, proc)
  BY <1>1, <1>2 DEF InReady, InIo, AtSched
<1>9. InDispatch(place, proc) /\ AtMain(known, place, proc, base) /\ InBacklog(place)
  BY <1>1, <1>2 DEF InDispatch, AtMain, InBacklog
<1>10. InRequests(known, place, proc, << >>) /\ InResolved(known, place, proc, << >>)
  BY <1>1, StreamEmpty DEF InRequests, InResolved, OnePerConsole
<1>11. Talks(place, proc)
  <2>1. ASSUME NEW c \in Consolas PROVE Talk(place[c], proc[c], c)
    <3>1. consola[c] = "start" /\ to_kernel[c] = << >> /\ to_consola[c] = << >> /\ left[c] = << >>
      BY <1>1
    <3>2. "start" \in Uncreated
      BY DEF Uncreated
    <3>3. Talk("start", proc[c], c)
      BY <3>1, <3>2, Zenon DEF Talk
    <3>4. QED BY <1>2, <3>3
  <2>2. QED BY <2>1 DEF Talks
<1>12. InTables(known, place, proc, base, << >>)
  BY <1>1, <1>6 DEF InTables
<1>13. Answers(known, base, << >>)
  <2>1. ToMain(known, base, << >>) = << >> /\ ToSched(known, << >>) = << >>
    BY <1>1 DEF ToMain, ToSched
  <2>2. Joined(<< >>, << >>) = << >>
    BY DEF Joined
  <2>3. from_memoria = Joined(ToMain(known, base, << >>), ToSched(known, << >>))
    BY <1>1, <2>1, <2>2, Zenon
  <2>4. QED BY <2>3, Zenon DEF Answers
<1>14. Whole(known, place, proc, base, << >>, << >>)
  BY <1>4, <1>5, <1>7, <1>8, <1>9, <1>10, <1>11, <1>12, <1>13 DEF Whole
<1>15. QED BY <1>14 DEF Kept

-----------------------------------------------------------------------------
(* A step of the system, and a step of Sockets that is part of it.         *)
LEMMA ConsolaKeeps ==
  ASSUME NEW known, Kept(known), NEW c \in Consolas, ConsolaCycle(c) \/ HandleIo(c)
  PROVE  Kept(known)'
<1> PICK place, proc, base, requests, resolved :
         Whole(known, place, proc, base, requests, resolved)
  BY DEF Kept
<1>1. CASE ConsolaTeclado(c)
  BY <1>1, ConsolaTecladoKeeps
<1>2. CASE ConsolaPantalla(c)
  BY <1>2, ConsolaPantallaKeeps
<1>3. CASE ConsolaSegFault(c)
  BY <1>3, ConsolaSegFaultKeeps
<1>4. CASE ConsolaExit(c)
  BY <1>4, ConsolaExitKeeps
<1>5. CASE HandleIo(c)
  <2>1. PICK b \in io : AskConsola(b) \/ RecvAnswer(b)
    BY <1>5 DEF HandleIo
  <2>2. CASE AskConsola(b)
    BY <2>2, AskConsolaKeeps
  <2>3. CASE RecvAnswer(b)
    BY <2>3, RecvAnswerKeeps
  <2>4. QED BY <2>1, <2>2, <2>3
<1>6. QED BY <1>1, <1>2, <1>3, <1>4, <1>5 DEF ConsolaCycle

(* The steps by thread.                                                    *)
LEMMA StartKeeps ==
  ASSUME NEW known, Kept(known), NEW c \in Consolas, ConsolaStart(c)
  PROVE  Kept(known)'
BY ConsolaStartKeeps DEF Kept

LEMMA MemoriaKeeps ==
  ASSUME NEW known, Kept(known), MemoriaMain
  PROVE  Kept(known)'
<1> PICK place, proc, base, requests, resolved :
         Whole(known, place, proc, base, requests, resolved)
  BY DEF Kept
<1>1. CASE ProcessStarted
  BY <1>1, ProcessStartedKeeps
<1>2. CASE ProcessFinished
  BY <1>2, ProcessFinishedKeeps
<1>3. CASE ResolvePageFault
  BY <1>3, ResolvePageFaultKeeps
<1>4. QED BY <1>1, <1>2, <1>3 DEF MemoriaMain

LEMMA CpuKeeps ==
  ASSUME NEW known, Kept(known), CpuBurst
  PROVE  Kept(known)'
BY CpuBurstKeeps DEF Kept

LEMMA MainKeeps ==
  ASSUME NEW known, Kept(known), Main
  PROVE  Kept(known)'
<1> PICK place, proc, base, requests, resolved :
         Whole(known, place, proc, base, requests, resolved)
  BY DEF Kept
<1>1. CASE CreateProcess
  BY <1>1, CreateProcessKeeps
<1>2. CASE MainRecvOpCode
  BY <1>2, MainRecvOpCodeKeeps
<1>3. CASE MainRecvCount
  BY <1>3, MainRecvCountKeeps
<1>4. CASE MainRecvSize
  BY <1>4, MainRecvSizeKeeps
<1>5. CASE MainRecvIndex
  BY <1>5, MainRecvIndexKeeps
<1>6. CASE NewState
  BY <1>6, NewStateKeeps
<1>7. QED BY <1>1, <1>2, <1>3, <1>4, <1>5, <1>6 DEF Main

LEMMA SchedullingKeeps ==
  ASSUME NEW known, Kept(known), known = "all" => ~ AnswerTaken, Schedulling
  PROVE  Kept(known)'
<1> PICK place, proc, base, requests, resolved :
         Whole(known, place, proc, base, requests, resolved)
  BY DEF Kept
<1>1. CASE ExecuteAlgorithm
  BY <1>1, ExecuteAlgorithmKeeps
<1>2. CASE ExecutionFinished
  BY <1>2, ExecutionFinishedKeeps
<1>3. CASE SchedRecvFinished
  BY <1>3, SchedRecvFinishedKeeps
<1>4. CASE ReadyStateFromQuantum
  BY <1>4, ReadyStateFromQuantumKeeps
<1>5. CASE BlockState
  BY <1>5, BlockStateKeeps
<1>6. CASE SendPageFaultResolve
  BY <1>6, SendPageFaultResolveKeeps
<1>7. CASE SendSegmentationFault
  BY <1>7, SendSegmentationFaultKeeps
<1>8. QED BY <1>1, <1>2, <1>3, <1>4, <1>5, <1>6, <1>7 DEF Schedulling

LEMMA PageFaultKeeps ==
  ASSUME NEW known, Kept(known), HandlePageFault
  PROVE  Kept(known)'
BY HandlePageFaultKeeps DEF Kept

(* A step that changes nothing.                                            *)
LEMMA StutterKeeps ==
  ASSUME NEW known, Kept(known), UNCHANGED vars
  PROVE  Kept(known)'
<1> PICK place, proc, base, requests, resolved :
         Whole(known, place, proc, base, requests, resolved)
  BY DEF Kept
<1>1. /\ UNCHANGED <<backlog, to_kernel, to_consola, main, process_count, sched, ready, io,
                     to_cpu, from_cpu, to_memoria, page_fault, page_tables, left>>
      /\ UNCHANGED consola /\ UNCHANGED <<kernel, from_memoria>>
  BY DEF vars, memoria, dispatch, consolas, queues
<1>2. QED BY <1>1, NothingMoves

(* Every step of Sockets.                                                  *)
LEMMA NextKeeps ==
  ASSUME NEW known, Kept(known), known = "all" => ~ AnswerTaken, [Next]_vars
  PROVE  Kept(known)'
<1>1. CASE \E c \in Consolas : ConsolaStart(c) \/ ConsolaCycle(c) \/ HandleIo(c)
  BY <1>1, StartKeeps, ConsolaKeeps
<1>2. CASE MemoriaMain
  BY <1>2, MemoriaKeeps
<1>3. CASE CpuBurst
  BY <1>3, CpuKeeps
<1>4. CASE Main
  BY <1>4, MainKeeps
<1>5. CASE Schedulling
  BY <1>5, SchedullingKeeps
<1>6. CASE HandlePageFault
  BY <1>6, PageFaultKeeps
<1>7. CASE UNCHANGED vars
  BY <1>7, StutterKeeps
<1>8. QED BY <1>1, <1>2, <1>3, <1>4, <1>5, <1>6, <1>7 DEF Next

(* The scripts of the threads, until a module fails, leave the variables   *)
(* of Sockets alone.                                                       *)
LEMMA StartsKeeps ==
  ASSUME NEW known, Kept(known), NEW t \in Threads, Starts(t)
  PROVE  Kept(known)'
<1>1. CASE StartServer(t) \/ AcceptClient(t) \/ StartClient(t) \/ CreateThread(t) \/ Handshake(t)
  <2>1. UNCHANGED vars
    BY <1>1 DEF StartServer, AcceptClient, StartClient, CreateThread, Handshake
  <2>2. QED BY <2>1, StutterKeeps
<1>2. CASE StartClientFails(t)
  <2> PICK place, proc, base, requests, resolved :
           Whole(known, place, proc, base, requests, resolved)
    BY DEF Kept
  <2>1. /\ UNCHANGED <<backlog, to_kernel, to_consola, main, process_count, sched, ready, io,
                       to_cpu, from_cpu, to_memoria, page_fault, page_tables, left>>
        /\ UNCHANGED consola /\ (kernel' = "down" \/ UNCHANGED kernel) /\ UNCHANGED from_memoria
    BY <1>2 DEF StartClientFails, memoria, dispatch, consolas, queues
  <2>2. from_memoria' \in Seq(Int)
    BY <2>1 DEF Whole, Types
  <2>3. QED BY <2>1, <2>2, NothingMoves
<1>3. QED BY <1>1, <1>2 DEF Starts

(* A console that finds no kernel.                                         *)
LEMMA ConsolaFailsKeeps ==
  ASSUME NEW known, Kept(known), NEW c \in Consolas, ConsolaFails(c)
  PROVE  Kept(known)'
<1> PICK place, proc, base, requests, resolved :
         Whole(known, place, proc, base, requests, resolved)
  BY DEF Kept
<1>1. /\ UNCHANGED <<backlog, to_kernel, to_consola, main, process_count, sched, ready, io,
                     to_cpu, from_cpu, to_memoria, page_fault, page_tables, left>>
      /\ consola[c] = "start" /\ consola' = [consola EXCEPT ![c] = "failed"]
      /\ UNCHANGED <<kernel, from_memoria>>
  BY DEF ConsolaFails, memoria, dispatch, queues
<1>2. QED BY <1>1, NothingMoves

(* Every step of Startup.                                                  *)
LEMMA SystemNextKeeps ==
  ASSUME NEW known, Kept(known), known = "all" => ~ AnswerTaken,
         [SystemNext]_systemvars
  PROVE  Kept(known)'
<1>1. CASE \E m \in Modules : Launch(m)
  <2>1. UNCHANGED vars
    BY <1>1 DEF Launch
  <2>2. QED BY <2>1, StutterKeeps
<1>2. CASE \E t \in Threads : Starts(t)
  BY <1>2, StartsKeeps
<1>3. CASE \E c \in Consolas : ConsolaConnects(c) \/ ConsolaFails(c) \/ Consola(c)
  <2>1. PICK c \in Consolas : ConsolaConnects(c) \/ ConsolaFails(c) \/ Consola(c)
    BY <1>3
  <2>2. CASE ConsolaConnects(c)
    BY <2>2, StartKeeps DEF ConsolaConnects
  <2>3. CASE ConsolaFails(c)
    BY <2>3, ConsolaFailsKeeps
  <2>4. CASE Consola(c)
    <3>1. ConsolaCycle(c) \/ HandleIo(c)
      BY <2>4 DEF Consola
    <3>2. QED BY <3>1, ConsolaKeeps
  <2>5. QED BY <2>1, <2>2, <2>3, <2>4
<1>4. CASE MemoriaServes
  BY <1>4, MemoriaKeeps DEF MemoriaServes
<1>5. CASE CpuRuns
  BY <1>5, CpuKeeps DEF CpuRuns
<1>6. CASE KernelMain
  BY <1>6, MainKeeps DEF KernelMain
<1>7. CASE KernelScheduller
  BY <1>7, SchedullingKeeps DEF KernelScheduller
<1>8. CASE KernelPageFault
  BY <1>8, PageFaultKeeps DEF KernelPageFault
<1>9. CASE UNCHANGED systemvars
  <2>1. UNCHANGED vars
    BY <1>9 DEF systemvars
  <2>2. QED BY <2>1, StutterKeeps
<1>10. QED BY <1>1, <1>2, <1>3, <1>4, <1>5, <1>6, <1>7, <1>8, <1>9 DEF SystemNext

-----------------------------------------------------------------------------
(* What the invariant says of a process: the kernel has it at one place,   *)
(* and its pcb is its console's.                                           *)
LEMMA HeldIs ==
  ASSUME NEW known, NEW place, NEW proc, NEW base, NEW requests, NEW resolved,
         Whole(known, place, proc, base, requests, resolved), NEW pcb \in Held
  PROVE  \E c \in Created(place) :
           /\ pcb = proc[c]
           /\ pcb \in ready => place[c] = "ready"
           /\ pcb \in Blocked => place[c] \in IoPlaces
           /\ pcb \in Finishing => place[c] = "finish"
<1>1. InReady(place, proc) /\ InIo(place, proc) /\ AtSched(place, proc) /\ Own(proc)
  BY DEF Whole, Ghosts, Own
<1>2. \A at \in IoPlaces \cup {"ready", "finish"} : at \notin Uncreated
  BY DEF IoPlaces, IoAsk, Uncreated
<1>3. ASSUME pcb \in ready PROVE \E c \in Consolas : place[c] = "ready" /\ pcb = proc[c]
  BY <1>1, <1>3 DEF InReady
<1>4. ASSUME pcb \in Blocked PROVE \E c \in Consolas : place[c] \in IoPlaces /\ pcb = proc[c]
  <2>1. PICK b \in io : pcb = b.pcb
    BY <1>4 DEF Blocked
  <2>2. PICK c \in Consolas : place[c] \in IoPlaces /\ b = Blocking(proc[c], place[c])
    BY <1>1 DEF InIo
  <2>3. b.pcb = proc[c]
    BY <2>2 DEF Blocking
  <2>4. QED BY <2>1, <2>2, <2>3
<1>5. ASSUME pcb \in Finishing PROVE \E c \in Consolas : place[c] = "finish" /\ pcb = proc[c]
  <2>1. sched.at = "recv_finished" /\ pcb = sched.pcb
    BY <1>5 DEF Finishing
  <2>2. PICK f \in Consolas : /\ sched = [at |-> "recv_finished", pcb |-> proc[f]]
                              /\ \A c \in Consolas : place[c] = "finish" <=> c = f
    BY <1>1, <2>1 DEF AtSched
  <2>3. QED BY <2>1, <2>2
<1>6. \A c, d \in Consolas : proc[c] = proc[d] => c = d
  BY <1>1 DEF Own
<1>7. PICK c \in Consolas : pcb = proc[c] /\ place[c] \notin Uncreated
  BY <1>2, <1>3, <1>4, <1>5 DEF Held
<1>8. /\ pcb \in ready => place[c] = "ready"
      /\ pcb \in Blocked => place[c] \in IoPlaces
      /\ pcb \in Finishing => place[c] = "finish"
  BY <1>3, <1>4, <1>5, <1>6, <1>7
<1>9. QED BY <1>7, <1>8 DEF Created

(* What the invariant says is what the properties ask.                     *)
LEMMA TypesWhole ==
  ASSUME NEW known, Kept(known)
  PROVE  SocketsTypeOK
<1> PICK place, proc, base, requests, resolved :
         Whole(known, place, proc, base, requests, resolved)
  BY DEF Kept
<1>1. Types /\ Ids(place, proc) /\ Talks(place, proc) /\ Own(proc)
  BY DEF Whole, Ghosts, Own
<1>2. process_count \in 0 .. Cardinality(Consolas)
  BY <1>1, CountBound
<1>3. ASSUME NEW pcb \in Held
      PROVE  /\ pcb.id \in 1 .. process_count
             /\ \A other \in Held :
                  pcb.id = other.id \/ pcb.socket_consola = other.socket_consola
                    => pcb = other
  <2>1. PICK c \in Created(place) : pcb = proc[c]
    BY HeldIs
  <2>2. pcb.id \in 1 .. process_count
    BY <1>1, <2>1 DEF Ids
  <2>3. ASSUME NEW other \in Held,
               pcb.id = other.id \/ pcb.socket_consola = other.socket_consola
        PROVE  pcb = other
    <3>1. PICK d \in Created(place) : other = proc[d]
      BY HeldIs
    <3>2. c \in Consolas /\ d \in Consolas
      BY DEF Created
    <3>3. c = d
      BY <1>1, <2>1, <2>3, <3>1, <3>2 DEF Ids, Own
    <3>4. QED BY <2>1, <3>1, <3>3
  <2>4. QED BY <2>2, <2>3
<1>4. ASSUME NEW c \in Consolas, to_consola[c] # << >>
      PROVE  Head(to_consola[c]) \in {TECLADO, PANTALLA, SEG_FAULT, PROCESS_FINISHED}
  <2>1. Talk(place[c], proc[c], c)
    BY <1>1 DEF Talks
  <2>2. QED BY <1>4, <2>1, Told
<1>5. kernel \in {"up", "down"}
      /\ consola \in [Consolas -> {"start", "failed", "waiting", "ended", "killed"}]
  BY <1>1 DEF Types
<1>6. QED BY <1>2, <1>3, <1>4, <1>5 DEF SocketsTypeOK

(* The page tables of a process that has them, one by one.                 *)
LEMMA OwnTables ==
  ASSUME NEW known, known = "all", NEW place, NEW proc, NEW base, NEW requests, NEW resolved,
         Whole(known, place, proc, base, requests, resolved),
         NEW c \in Created(place), Built(known, place[c], requests, c)
  PROVE  /\ base[c] \in Nat /\ base[c] + Len(Segmentos[c]) <= Len(page_tables)
         /\ \A i \in 1 .. Len(page_tables) : page_tables[i].pid = proc[c].id
              <=> i \in base[c] + 1 .. base[c] + Len(Segmentos[c])
         /\ \A k \in 1 .. Len(Segmentos[c]) :
              /\ page_tables[base[c] + k].size = Segmentos[c][k]
              /\ page_tables[base[c] + k].freed = Freed(known, place[c], requests, c)
         /\ place[c] # "main" => proc[c].segment_table = Table(base, c)
<1>1. InTables(known, place, proc, base, requests) /\ base \in [Consolas -> Nat] /\ c \in Consolas
  BY DEF Whole, Ghosts, Created
<1>2. TablesOf(known, place[c], proc[c], base, requests, c)
  BY <1>1 DEF InTables
<1>3. base[c] \in Nat
  BY <1>1
<1>4. QED BY <1>2, <1>3, Zenon DEF TablesOf

(* The pcb of a ready process is that of one console, all of whose tables  *)
(* are built.                                                              *)
LEMMA WholePcb ==
  ASSUME NEW known, known = "all", Kept(known)
  PROVE  PcbIsWhole
<1> PICK place, proc, base, requests, resolved :
         Whole(known, place, proc, base, requests, resolved)
  BY DEF Kept
<1>1. /\ Ghosts(place, proc, base, requests, resolved) /\ Talks(place, proc) /\ Own(proc)
      /\ base \in [Consolas -> Nat]
  BY DEF Whole, Ghosts, Own
<1>2. ASSUME NEW pcb \in ready \cup Finishing
      PROVE  LET c == pcb.socket_consola
                 table == pcb.segment_table
             IN /\ At(pcb) = left[c]
                /\ pcb.instructions = Listing[c]
                /\ [k \in DOMAIN table |-> table[k].size] = Segmentos[c]
                /\ \A k \in DOMAIN table :
                     /\ TableOf(table[k]).pid = pcb.id
                     /\ TableOf(table[k]).size = table[k].size
                     /\ \A j \in DOMAIN table :
                          table[j].page_table_index = table[k].page_table_index => j = k
  <2>1. PICK c \in Created(place) : pcb = proc[c] /\ place[c] \in {"ready", "finish"}
    <3>1. pcb \in Held
      BY DEF Held
    <3>2. QED BY <3>1, HeldIs
  <2>2. c \in Consolas /\ pcb.socket_consola = c /\ pcb.instructions = Listing[c]
    BY <1>1, <2>1 DEF Created, Ghosts
  <2>3. At(pcb) = left[c]
    <3>1. Talk(place[c], pcb, c)
      BY <1>1, <2>1, <2>2 DEF Talks
    <3>2. place[c] # "answered_teclado" /\ place[c] \notin Uncreated
      BY <2>1 DEF Uncreated
    <3>3. QED BY <3>1, <3>2, Zenon DEF Talk
  <2> PICK table : table = Table(base, c)
    OBVIOUS
  <2> PICK n : n = Len(Segmentos[c])
    OBVIOUS
  <2>4. Built(known, place[c], requests, c)
    BY <2>1 DEF Built, Uncreated
  <2>5. /\ base[c] \in Nat /\ base[c] + n <= Len(page_tables)
        /\ \A i \in 1 .. Len(page_tables) :
             page_tables[i].pid = pcb.id <=> i \in base[c] + 1 .. base[c] + n
        /\ \A k \in 1 .. n : page_tables[base[c] + k].size = Segmentos[c][k]
    BY <2>1, <2>4, OwnTables
  <2>6. pcb.segment_table = table
    BY <2>1, <2>4, OwnTables
  <2>7. /\ DOMAIN table = 1 .. n
        /\ \A k \in 1 .. n : /\ table[k].size = Segmentos[c][k]
                             /\ table[k].page_table_index = base[c] + k - 1
    BY DEF Table
  <2>8. /\ Segmentos[c] = [k \in 1 .. n |-> Segmentos[c][k]] /\ n \in Nat
        /\ Len(page_tables) \in Nat
    <3>1. Segmentos[c] \in Seq(Nat)
      BY <2>2, SocketsAssumption
    <3>2. page_tables \in Seq(PageTableRow)
      BY DEF Whole, Types
    <3>3. QED BY <3>1, <3>2
  <2>9. [k \in DOMAIN table |-> table[k].size] = Segmentos[c]
    BY <2>7, <2>8
  <2>10. ASSUME NEW k \in 1 .. n
         PROVE  /\ TableOf(table[k]).pid = pcb.id
                /\ TableOf(table[k]).size = table[k].size
                /\ \A j \in 1 .. n :
                     table[j].page_table_index = table[k].page_table_index => j = k
    <3>1. TableOf(table[k]) = page_tables[base[c] + k]
      <4>1. table[k].page_table_index + 1 = base[c] + k
        <5> PICK first : first = base[c]
          OBVIOUS
        <5> PICK index : index = table[k].page_table_index
          OBVIOUS
        <5>1. index = first + k - 1
          BY <2>7, Zenon
        <5>2. first \in Nat /\ k \in Int
          BY <2>5, <2>8
        <5>3. index + 1 = first + k
          BY <5>1, <5>2
        <5>4. QED BY <5>3
      <4>2. QED BY <4>1 DEF TableOf
    <3>2. base[c] + k \in 1 .. Len(page_tables) /\ base[c] + k \in base[c] + 1 .. base[c] + n
      BY <2>5, <2>8
    <3>3. page_tables[base[c] + k].pid = pcb.id
      BY <2>5, <3>2
    <3>4. page_tables[base[c] + k].size = table[k].size
      BY <2>5, <2>7
    <3>5. ASSUME NEW j \in 1 .. n, table[j].page_table_index = table[k].page_table_index
          PROVE  j = k
      <4> PICK first : first = base[c]
        OBVIOUS
      <4>1. first + j - 1 = first + k - 1
        BY <2>7, <3>5
      <4>2. first \in Nat /\ j \in Int /\ k \in Int
        BY <2>5, <2>8
      <4>3. QED BY <4>1, <4>2
    <3>6. QED BY <3>1, <3>3, <3>4, <3>5
  <2>11. QED BY <2>2, <2>3, <2>6, <2>7, <2>9, <2>10
<1>3. QED BY <1>2, Zenon DEF PcbIsWhole

(* The tables of a process are freed from "finish" on.                     *)
LEMMA FreedWhole ==
  ASSUME NEW known, known = "all", Kept(known)
  PROVE  FreedBeforeExit
<1> PICK place, proc, base, requests, resolved :
         Whole(known, place, proc, base, requests, resolved)
  BY DEF Kept
<1>1. /\ Ghosts(place, proc, base, requests, resolved) /\ Talks(place, proc) /\ Types
      /\ Ids(place, proc) /\ InTables(known, place, proc, base, requests)
      /\ base \in [Consolas -> Nat] /\ proc \in [Consolas -> ConsolaPcbs]
  BY DEF Whole, Ghosts
<1>2. ASSUME NEW i \in DOMAIN page_tables, NEW c \in Consolas, left[c] # << >>,
             left[c].id = page_tables[i].pid
      PROVE  /\ (to_consola[c] # << >> /\ Head(to_consola[c]) = PROCESS_FINISHED)
                  \/ consola[c] = "ended" => page_tables[i].freed
             /\ page_tables[i].freed =>
                  /\ consola[c] \in {"waiting", "ended"}
                  /\ \A pcb \in ready \cup Blocked : pcb.id # page_tables[i].pid
  <2>1. Talk(place[c], proc[c], c)
    BY <1>1 DEF Talks
  <2>2. c \in Created(place)
    <3>1. place[c] \notin Uncreated
      <4>1. place[c] \in Uncreated => left[c] = << >>
        <5>1. "answered_teclado" \notin Uncreated
          BY DEF Uncreated
        <5>2. QED BY <2>1, <5>1, Zenon DEF Talk
      <4>2. QED BY <1>2, <4>1
    <3>2. QED BY <3>1 DEF Created
  <2>3. left[c].id = proc[c].id
    <3> DEFINE pcb2 == [proc[c] EXCEPT !.registers[AX] = left[c].registers[AX]]
    <3>1. left[c] = At(proc[c]) \/ left[c] = At(pcb2)
      <4>1. place[c] \notin Uncreated
        BY <2>2 DEF Created
      <4>2. QED BY <2>1, <4>1, Zenon DEF Talk
    <3>2. pcb2.id = proc[c].id
      BY <1>1 DEF ConsolaPcbs, Pcbs
    <3> HIDE DEF pcb2
    <3>3. QED BY <3>1, <3>2 DEF At
  <2>4. i \in 1 .. Len(page_tables) /\ Len(page_tables) \in Nat
    BY <1>1 DEF Types
  <2>5. Built(known, place[c], requests, c)
    BY <1>1, <1>2, <2>2, <2>3, <2>4 DEF InTables
  <2> PICK n : n = Len(Segmentos[c])
    OBVIOUS
  <2>6. /\ base[c] \in Nat /\ n \in Nat /\ i \in base[c] + 1 .. base[c] + n
    <3>1. base[c] \in Nat /\ n \in Nat
      BY <1>1, ProgramTypes
    <3>2. page_tables[i].pid = proc[c].id
            <=> i \in base[c] + 1 .. base[c] + Len(Segmentos[c])
      BY <2>2, <2>4, <2>5, OwnTables
    <3>3. page_tables[i].pid = proc[c].id
      BY <1>2, <2>3
    <3>4. QED BY <3>1, <3>2, <3>3
  <2>7. page_tables[i].freed = Freed(known, place[c], requests, c)
    <3>1. \A k \in 1 .. n : page_tables[base[c] + k].freed = Freed(known, place[c], requests, c)
      BY <2>2, <2>5, OwnTables
    <3>2. PICK k \in 1 .. n : i = base[c] + k
      <4>1. i - base[c] \in 1 .. n /\ i = base[c] + (i - base[c])
        BY <2>6
      <4>2. QED BY <4>1
    <3>3. QED BY <3>1, <3>2
  <2>8. ASSUME (to_consola[c] # << >> /\ Head(to_consola[c]) = PROCESS_FINISHED)
                 \/ consola[c] = "ended"
        PROVE  page_tables[i].freed
    <3>1. place[c] \in {"told_exit", "ended"}
      <4>1. CASE to_consola[c] # << >> /\ Head(to_consola[c]) = PROCESS_FINISHED
        BY <2>1, <4>1, Told
      <4>2. CASE consola[c] = "ended"
        BY <2>1, <4>2, Zenon DEF Talk
      <4>3. QED BY <2>8, <4>1, <4>2
    <3>2. Freed(known, place[c], requests, c)
      BY <3>1 DEF Freed
    <3>3. QED BY <2>7, <3>2
  <2>9. ASSUME page_tables[i].freed
        PROVE  /\ consola[c] \in {"waiting", "ended"}
               /\ \A pcb \in ready \cup Blocked : pcb.id # page_tables[i].pid
    <3>1. place[c] \in {"told_exit", "ended", "finish"}
      BY <2>7, <2>9 DEF Freed
    <3>2. consola[c] \notin {"start", "failed"} /\ consola[c] # "killed"
      BY <2>1, <3>1 DEF Talk
    <3>3. consola[c] \in {"waiting", "ended"}
      BY <1>1, <3>2 DEF Types
    <3>4. ASSUME NEW pcb \in ready \cup Blocked, pcb.id = page_tables[i].pid PROVE FALSE
      <4>1. pcb \in Held
        BY DEF Held
      <4>2. PICK d \in Created(place) : pcb = proc[d] /\ place[d] \in IoPlaces \cup {"ready"}
        BY <4>1, HeldIs
      <4>3. d = c
        BY <1>1, <1>2, <2>2, <2>3, <3>4, <4>2 DEF Ids
      <4>4. QED BY <3>1, <4>2, <4>3 DEF IoPlaces, IoAsk
    <3>5. QED BY <3>3, <3>4
  <2>10. QED BY <2>8, <2>9
<1>3. QED BY <1>2 DEF FreedBeforeExit

-----------------------------------------------------------------------------
(* The theorems.                                                           *)
(* Where the processes are is known whatever the two readers take; what    *)
(* they carry, until one of them takes a field of the other's answer.      *)
PlacesKept == Kept("places")
AllKept == Kept("all")
LEMMA PlacesAlways == Spec => []PlacesKept
<1>1. Init => PlacesKept
  BY InitKept DEF PlacesKept
<1>2. PlacesKept /\ [Next]_vars => PlacesKept'
  BY NextKeeps DEF PlacesKept
<1>3. QED BY <1>1, <1>2, PTL DEF Spec

LEMMA AllUntilTaken == Spec /\ [][~ AnswerTaken]_vars => []AllKept
<1>1. Init => AllKept
  BY InitKept DEF AllKept
<1>2. AllKept /\ [Next]_vars /\ [~ AnswerTaken]_vars => AllKept'
  <2> SUFFICES ASSUME AllKept, [Next]_vars, [~ AnswerTaken]_vars PROVE AllKept'
    OBVIOUS
  <2>1. CASE ~ AnswerTaken
    BY <2>1, NextKeeps DEF AllKept
  <2>2. CASE UNCHANGED vars
    BY <2>2, StutterKeeps DEF AllKept
  <2>3. QED BY <2>1, <2>2
<1>3. QED BY <1>1, <1>2, PTL DEF Spec

(* The same, when the modules have to find each other first.               *)
LEMMA PlacesInTheSystem == SystemSpec => []PlacesKept
<1>1. SystemInit => PlacesKept
  BY InitKept DEF SystemInit, PlacesKept
<1>2. PlacesKept /\ [SystemNext]_systemvars => PlacesKept'
  BY SystemNextKeeps DEF PlacesKept
<1>3. QED BY <1>1, <1>2, PTL DEF SystemSpec

LEMMA AllUntilTakenInTheSystem == SystemSpec /\ [][~ AnswerTaken]_systemvars => []AllKept
<1>1. SystemInit => AllKept
  BY InitKept DEF SystemInit, AllKept
<1>2. AllKept /\ [SystemNext]_systemvars /\ [~ AnswerTaken]_systemvars => AllKept'
  <2> SUFFICES ASSUME AllKept, [SystemNext]_systemvars, [~ AnswerTaken]_systemvars
               PROVE  AllKept'
    OBVIOUS
  <2>1. CASE ~ AnswerTaken
    BY <2>1, SystemNextKeeps DEF AllKept
  <2>2. CASE UNCHANGED systemvars
    <3>1. UNCHANGED vars
      BY <2>2 DEF systemvars
    <3>2. QED BY <3>1, StutterKeeps DEF AllKept
  <2>3. QED BY <2>1, <2>2
<1>3. QED BY <1>1, <1>2, PTL DEF SystemSpec

(* No process is twice in the kernel and no two have the same console: one *)
(* that is ready is not blocked nor finishing, whatever the order in which *)
(* the CPU, the consoles and memoria answer, and whatever the two readers  *)
(* of socket_memoria take of each other's answers; and a console is only   *)
(* sent the op codes its loop handles (consola.c:main,                     *)
(* kernel/src/scheduller.c).                                               *)
THEOREM SocketsTyped == Spec => []SocketsTypeOK
<1>1. PlacesKept => SocketsTypeOK
  BY TypesWhole DEF PlacesKept
<1>2. QED BY <1>1, PlacesAlways, PTL

(* The pcb of a process that is ready or finishes is the one its console   *)
(* asked for: the program and the segments of its file and its config,     *)
(* page tables of its own, and the counter and registers that the CPU or   *)
(* its user left, after five sockets of which one has two readers          *)
(* (serialization.c, create_process, wait_cpu_dispatch).  It holds until   *)
(* the scheduler takes a field of the answer to the main thread, a 7, for  *)
(* PROCESS_FINISHED: every behaviour of Spec satisfies the premise as long *)
(* as it has not taken that step.                                          *)
THEOREM PcbAlwaysWhole == Spec /\ [][~ AnswerTaken]_vars => []PcbIsWhole
<1>1. AllKept => PcbIsWhole
  BY WholePcb DEF AllKept
<1>2. QED BY <1>1, AllUntilTaken, PTL

(* A console hears that its program has ended only when memoria has freed  *)
(* all its pages, and no pages are freed of a process that will run again  *)
(* (execution_finished waits for the answer to PROCESS_FINISHED before     *)
(* send_exit), until what the scheduler takes for that answer is a field   *)
(* of the main thread's.                                                   *)
THEOREM AlwaysFreedBeforeExit == Spec /\ [][~ AnswerTaken]_vars => []FreedBeforeExit
<1>1. AllKept => FreedBeforeExit
  BY FreedWhole DEF AllKept
<1>2. QED BY <1>1, AllUntilTaken, PTL

(* All of it when the modules start in any order, may fail to connect, and *)
(* the kernel, memoria or the CPU are slow or missing: what Sockets says   *)
(* holds of Startup too.                                                   *)
THEOREM SystemKeepsIt ==
  /\ SystemSpec => []SocketsTypeOK
  /\ SystemSpec /\ [][~ AnswerTaken]_systemvars => [](PcbIsWhole /\ FreedBeforeExit)
<1>1. PlacesKept => SocketsTypeOK
  BY TypesWhole DEF PlacesKept
<1>2. AllKept => PcbIsWhole /\ FreedBeforeExit
  BY WholePcb, FreedWhole DEF AllKept
<1>3. QED BY <1>1, <1>2, PlacesInTheSystem, AllUntilTakenInTheSystem, PTL

-----------------------------------------------------------------------------
(* Startup: the scripts of the threads, call by call.                      *)

Servers == {"MEMORIA_CPU", "MEMORIA_CPU_TLB", "MEMORIA_KERNEL", "MEMORIA_KERNEL_PAGE_FAULT",
            "CPU_DISPATCH", "CPU_INTERRUPT", "KERNEL"}
Calls == {Listen(x) : x \in Servers} \cup {Accept(x) : x \in Servers}
           \cup {Connect(x) : x \in Servers}
           \cup {Create(x) : x \in {"handle_cpu", "start_interrupt", "consistency_check"}}
           \cup {SendMemdata, RecvMemdata}

(* t is s, of n calls, and two calls more.                                 *)
TwoMore(s, t, n, a, b) ==
  Len(t) = n + 2 /\ t[n + 1] = a /\ t[n + 2] = b /\ \A i \in 1 .. n : t[i] = s[i]

LEMMA ServeMore ==
  ASSUME NEW s \in Seq(Calls), NEW n \in Nat, Len(s) = n, NEW x \in Servers
  PROVE  s \o Serve(x) \in Seq(Calls) /\ TwoMore(s, s \o Serve(x), n, Listen(x), Accept(x))
<1> DEFINE a == Listen(x)
           b == Accept(x)
           t == s \o <<a, b>>
<1>1. a \in Calls /\ b \in Calls
  BY DEF Calls
<1> HIDE DEF a, b
<1>2. /\ t \in Seq(Calls) /\ Len(t) = n + 2 /\ t[n + 1] = a /\ t[n + 2] = b
      /\ \A i \in 1 .. n : t[i] = s[i]
  BY <1>1
<1>3. QED BY <1>2 DEF TwoMore, Serve, a, b

OneMore(s, t, n, a) == Len(t) = n + 1 /\ t[n + 1] = a /\ \A i \in 1 .. n : t[i] = s[i]

LEMMA LastMore ==
  ASSUME NEW s \in Seq(Calls), NEW n \in Nat, Len(s) = n, NEW a \in Calls
  PROVE  OneMore(s, s \o <<a>>, n, a)
<1> DEFINE t == s \o <<a>>
<1>1. Len(t) = n + 1 /\ t[n + 1] = a /\ \A i \in 1 .. n : t[i] = s[i]
  OBVIOUS
<1>2. QED BY <1>1 DEF OneMore

LEMMA MemoriaCalls ==
  /\ DOMAIN MemoriaScript = 1 .. 9
  /\ MemoriaScript[1] = Listen("MEMORIA_CPU")
  /\ MemoriaScript[2] = Accept("MEMORIA_CPU")
  /\ MemoriaScript[3] = Listen("MEMORIA_CPU_TLB")
  /\ MemoriaScript[4] = Accept("MEMORIA_CPU_TLB")
  /\ MemoriaScript[5] = Listen("MEMORIA_KERNEL")
  /\ MemoriaScript[6] = Accept("MEMORIA_KERNEL")
  /\ MemoriaScript[7] = Listen("MEMORIA_KERNEL_PAGE_FAULT")
  /\ MemoriaScript[8] = Accept("MEMORIA_KERNEL_PAGE_FAULT")
  /\ MemoriaScript[9] = Create("handle_cpu")
<1> DEFINE s2 == Serve("MEMORIA_CPU")
           s4 == s2 \o Serve("MEMORIA_CPU_TLB")
           s6 == s4 \o Serve("MEMORIA_KERNEL")
           s8 == s6 \o Serve("MEMORIA_KERNEL_PAGE_FAULT")
           last == Create("handle_cpu")
<1>1. /\ \A x \in Servers : Listen(x) \in Calls /\ Accept(x) \in Calls
      /\ last \in Calls
      /\ "MEMORIA_CPU" \in Servers /\ "MEMORIA_CPU_TLB" \in Servers
      /\ "MEMORIA_KERNEL" \in Servers /\ "MEMORIA_KERNEL_PAGE_FAULT" \in Servers
  BY DEF Calls, Servers
<1>2. /\ s2 \in Seq(Calls) /\ Len(s2) = 2
      /\ s2[1] = Listen("MEMORIA_CPU") /\ s2[2] = Accept("MEMORIA_CPU")
  BY <1>1 DEF Serve
<1>3. MemoriaScript = s8 \o <<last>>
  BY DEF MemoriaScript
<1> HIDE DEF s2, s4, s6, s8, last
<1>4. s4 \in Seq(Calls)
      /\ TwoMore(s2, s4, 2, Listen("MEMORIA_CPU_TLB"), Accept("MEMORIA_CPU_TLB"))
  BY <1>1, <1>2, ServeMore DEF s4
<1>5. Len(s4) = 4
  BY <1>4 DEF TwoMore
<1>6. s6 \in Seq(Calls)
      /\ TwoMore(s4, s6, 4, Listen("MEMORIA_KERNEL"), Accept("MEMORIA_KERNEL"))
  BY <1>1, <1>4, <1>5, ServeMore DEF s6
<1>7. Len(s6) = 6
  BY <1>6 DEF TwoMore
<1>8. s8 \in Seq(Calls)
      /\ TwoMore(s6, s8, 6, Listen("MEMORIA_KERNEL_PAGE_FAULT"),
                 Accept("MEMORIA_KERNEL_PAGE_FAULT"))
  BY <1>1, <1>6, <1>7, ServeMore DEF s8
<1>9. Len(s8) = 8
  BY <1>8 DEF TwoMore
<1>10. /\ Len(MemoriaScript) = 9 /\ MemoriaScript[9] = last
      /\ \A i \in 1 .. 8 : MemoriaScript[i] = s8[i]
  <2>1. OneMore(s8, MemoriaScript, 8, last)
    BY <1>1, <1>3, <1>8, <1>9, LastMore
  <2>2. QED BY <2>1 DEF OneMore
<1>11. MemoriaScript[1] = s2[1] /\ MemoriaScript[2] = s2[2]
  BY <1>4, <1>6, <1>8, <1>10 DEF TwoMore
<1>12. /\ MemoriaScript[3] = Listen("MEMORIA_CPU_TLB")
       /\ MemoriaScript[4] = Accept("MEMORIA_CPU_TLB")
  BY <1>4, <1>6, <1>8, <1>10 DEF TwoMore
<1>13. /\ MemoriaScript[5] = Listen("MEMORIA_KERNEL")
       /\ MemoriaScript[6] = Accept("MEMORIA_KERNEL")
       /\ MemoriaScript[7] = Listen("MEMORIA_KERNEL_PAGE_FAULT")
       /\ MemoriaScript[8] = Accept("MEMORIA_KERNEL_PAGE_FAULT")
  BY <1>6, <1>8, <1>10 DEF TwoMore
<1>14. DOMAIN MemoriaScript = 1 .. Len(MemoriaScript)
  <2>1. s8 \o <<last>> \in Seq(Calls)
    BY <1>1, <1>8
  <2>2. QED BY <1>3, <2>1
<1>15. QED BY <1>2, <1>10, <1>11, <1>12, <1>13, <1>14 DEF last

LEMMA CpuCalls ==
  /\ DOMAIN CpuScript = 1 .. 6
  /\ CpuScript[1] = Connect("MEMORIA_CPU")
  /\ CpuScript[2] = Create("start_interrupt")
  /\ CpuScript[3] = Create("consistency_check")
  /\ CpuScript[4] = Listen("CPU_DISPATCH")
  /\ CpuScript[5] = Accept("CPU_DISPATCH")
  /\ CpuScript[6] = RecvMemdata
<1> DEFINE s3 == <<Connect("MEMORIA_CPU"), Create("start_interrupt"),
                   Create("consistency_check")>>
           s5 == s3 \o Serve("CPU_DISPATCH")
           last == RecvMemdata
<1>1. /\ Connect("MEMORIA_CPU") \in Calls /\ Create("start_interrupt") \in Calls
      /\ Create("consistency_check") \in Calls /\ last \in Calls
      /\ "CPU_DISPATCH" \in Servers
  BY DEF Calls, Servers
<1>2. /\ s3 \in Seq(Calls) /\ Len(s3) = 3
      /\ s3[1] = Connect("MEMORIA_CPU") /\ s3[2] = Create("start_interrupt")
      /\ s3[3] = Create("consistency_check")
  BY <1>1
<1>3. CpuScript = s5 \o <<last>>
  BY DEF CpuScript
<1> HIDE DEF s3, s5, last
<1>4. /\ s5 \in Seq(Calls)
      /\ TwoMore(s3, s5, 3, Listen("CPU_DISPATCH"), Accept("CPU_DISPATCH"))
  BY <1>1, <1>2, ServeMore DEF s5
<1>5. Len(s5) = 5
  BY <1>4 DEF TwoMore
<1>6. /\ Len(CpuScript) = 6 /\ CpuScript[6] = last
      /\ \A i \in 1 .. 5 : CpuScript[i] = s5[i]
  <2>1. OneMore(s5, CpuScript, 5, last)
    BY <1>1, <1>3, <1>4, <1>5, LastMore
  <2>2. QED BY <2>1 DEF OneMore
<1>7. DOMAIN CpuScript = 1 .. Len(CpuScript)
  <2>1. s5 \o <<last>> \in Seq(Calls)
    BY <1>1, <1>4
  <2>2. QED BY <1>3, <2>1
<1>8. CpuScript[1] = s3[1] /\ CpuScript[2] = s3[2] /\ CpuScript[3] = s3[3]
  BY <1>4, <1>6 DEF TwoMore
<1>9. CpuScript[4] = Listen("CPU_DISPATCH") /\ CpuScript[5] = Accept("CPU_DISPATCH")
  BY <1>4, <1>6 DEF TwoMore
<1>10. QED BY <1>2, <1>6, <1>7, <1>8, <1>9 DEF last

LEMMA OtherCalls ==
  /\ DOMAIN HandleCpuScript = 1 .. 1 /\ HandleCpuScript[1] = SendMemdata
  /\ DOMAIN InterruptScript = 1 .. 2
  /\ InterruptScript[1] = Listen("CPU_INTERRUPT")
  /\ InterruptScript[2] = Accept("CPU_INTERRUPT")
  /\ DOMAIN ConsistencyScript = 1 .. 1
  /\ ConsistencyScript[1] = Connect("MEMORIA_CPU_TLB")
  /\ DOMAIN KernelScript = 1 .. 5
  /\ KernelScript[1] = Connect("CPU_INTERRUPT")
  /\ KernelScript[2] = Connect("CPU_DISPATCH")
  /\ KernelScript[3] = Connect("MEMORIA_KERNEL")
  /\ KernelScript[4] = Connect("MEMORIA_KERNEL_PAGE_FAULT")
  /\ KernelScript[5] = Listen("KERNEL")
<1>1. DOMAIN HandleCpuScript = 1 .. 1 /\ HandleCpuScript[1] = SendMemdata
  BY DEF HandleCpuScript
<1>2. /\ DOMAIN InterruptScript = 1 .. 2
      /\ InterruptScript[1] = Listen("CPU_INTERRUPT")
      /\ InterruptScript[2] = Accept("CPU_INTERRUPT")
  BY DEF InterruptScript, Serve
<1>3. /\ DOMAIN ConsistencyScript = 1 .. 1
      /\ ConsistencyScript[1] = Connect("MEMORIA_CPU_TLB")
  BY DEF ConsistencyScript
<1>4. /\ DOMAIN KernelScript = 1 .. 5
      /\ KernelScript[1] = Connect("CPU_INTERRUPT")
      /\ KernelScript[2] = Connect("CPU_DISPATCH")
      /\ KernelScript[3] = Connect("MEMORIA_KERNEL")
      /\ KernelScript[4] = Connect("MEMORIA_KERNEL_PAGE_FAULT")
      /\ KernelScript[5] = Listen("KERNEL")
  BY DEF KernelScript
<1>5. QED BY <1>1, <1>2, <1>3, <1>4

LEMMA Scripts ==
  /\ Threads = {"memoria", "handle_cpu", "cpu", "start_interrupt", "consistency_check", "kernel"}
  /\ Script["memoria"] = MemoriaScript /\ Script["handle_cpu"] = HandleCpuScript
  /\ Script["cpu"] = CpuScript /\ Script["start_interrupt"] = InterruptScript
  /\ Script["consistency_check"] = ConsistencyScript /\ Script["kernel"] = KernelScript
BY DEF Threads, Script

(* What a thread does, by where it is.                                     *)
Is(t, n, call) == step[t] = n /\ Current(t) = call

LEMMA Listening ==
  ASSUME NEW t \in Threads, step[t] \in Nat, Does(t, "listen")
  PROVE  \/ t = "memoria" /\ \/ Is(t, 1, Listen("MEMORIA_CPU"))
                             \/ Is(t, 3, Listen("MEMORIA_CPU_TLB"))
                             \/ Is(t, 5, Listen("MEMORIA_KERNEL"))
                             \/ Is(t, 7, Listen("MEMORIA_KERNEL_PAGE_FAULT"))
         \/ t = "cpu" /\ Is(t, 4, Listen("CPU_DISPATCH"))
         \/ t = "start_interrupt" /\ Is(t, 1, Listen("CPU_INTERRUPT"))
         \/ t = "kernel" /\ Is(t, 5, Listen("KERNEL"))
BY Scripts, MemoriaCalls, CpuCalls, OtherCalls
   DEF Does, Current, Is, Listen, Accept, Connect, Create, SendMemdata, RecvMemdata

LEMMA Connecting ==
  ASSUME NEW t \in Threads, step[t] \in Nat, Does(t, "connect")
  PROVE  \/ t = "cpu" /\ Is(t, 1, Connect("MEMORIA_CPU"))
         \/ t = "consistency_check" /\ Is(t, 1, Connect("MEMORIA_CPU_TLB"))
         \/ t = "kernel" /\ \/ Is(t, 1, Connect("CPU_INTERRUPT"))
                            \/ Is(t, 2, Connect("CPU_DISPATCH"))
                            \/ Is(t, 3, Connect("MEMORIA_KERNEL"))
                            \/ Is(t, 4, Connect("MEMORIA_KERNEL_PAGE_FAULT"))
BY Scripts, MemoriaCalls, CpuCalls, OtherCalls
   DEF Does, Current, Is, Listen, Accept, Connect, Create, SendMemdata, RecvMemdata

LEMMA Accepting ==
  ASSUME NEW t \in Threads, step[t] \in Nat, Does(t, "accept")
  PROVE  \/ t = "memoria" /\ \/ Is(t, 2, Accept("MEMORIA_CPU"))
                             \/ Is(t, 4, Accept("MEMORIA_CPU_TLB"))
                             \/ Is(t, 6, Accept("MEMORIA_KERNEL"))
                             \/ Is(t, 8, Accept("MEMORIA_KERNEL_PAGE_FAULT"))
         \/ t = "cpu" /\ Is(t, 5, Accept("CPU_DISPATCH"))
         \/ t = "start_interrupt" /\ Is(t, 2, Accept("CPU_INTERRUPT"))
BY Scripts, MemoriaCalls, CpuCalls, OtherCalls
   DEF Does, Current, Is, Listen, Accept, Connect, Create, SendMemdata, RecvMemdata

LEMMA CreatingThread ==
  ASSUME NEW t \in Threads, step[t] \in Nat, Does(t, "create")
  PROVE  \/ t = "memoria" /\ Is(t, 9, Create("handle_cpu"))
         \/ t = "cpu" /\ Is(t, 2, Create("start_interrupt"))
         \/ t = "cpu" /\ Is(t, 3, Create("consistency_check"))
BY Scripts, MemoriaCalls, CpuCalls, OtherCalls
   DEF Does, Current, Is, Listen, Accept, Connect, Create, SendMemdata, RecvMemdata

LEMMA Handshaking ==
  ASSUME NEW t \in Threads, step[t] \in Nat, Does(t, "send_memdata") \/ Does(t, "recv_memdata")
  PROVE  t = "handle_cpu" \/ (t = "cpu" /\ step[t] = 6)
BY Scripts, MemoriaCalls, CpuCalls, OtherCalls
   DEF Does, Current, Is, Listen, Accept, Connect, Create, SendMemdata, RecvMemdata

LEMMA ServersAre ==
  /\ ServersOf("memoria") = {"MEMORIA_CPU", "MEMORIA_CPU_TLB", "MEMORIA_KERNEL",
                             "MEMORIA_KERNEL_PAGE_FAULT"}
  /\ ServersOf("cpu") = {"CPU_DISPATCH", "CPU_INTERRUPT"}
  /\ ServersOf("kernel") = {"KERNEL"}
<1>1. Listens("memoria") = {"MEMORIA_CPU", "MEMORIA_CPU_TLB", "MEMORIA_KERNEL",
                            "MEMORIA_KERNEL_PAGE_FAULT"}
  BY Scripts, MemoriaCalls DEF Listens, Listen, Accept, Create
<1>2. Listens("handle_cpu") = {} /\ Listens("consistency_check") = {}
  BY Scripts, OtherCalls DEF Listens, SendMemdata, Connect
<1>3. Listens("cpu") = {"CPU_DISPATCH"}
  BY Scripts, CpuCalls DEF Listens, Listen, Accept, Create, Connect, RecvMemdata
<1>4. Listens("start_interrupt") = {"CPU_INTERRUPT"} /\ Listens("kernel") = {"KERNEL"}
  BY Scripts, OtherCalls DEF Listens, Listen, Accept, Connect
<1>5. QED BY <1>1, <1>2, <1>3, <1>4, Scripts DEF ServersOf, ModuleOf

-----------------------------------------------------------------------------
(* The inductive invariant of the start.  A server is connected only after *)
(* its thread has listened, and a thread is past accept only after its     *)
(* client has connected, so where the kernel is tells where memoria and    *)
(* the CPU are; a CPU that exits leaves memoria at one of its first two    *)
(* accepts, or never listens for interrupts.                               *)
MemoriaPast ==
  /\ step["memoria"] > 2 => "MEMORIA_CPU" \in connected
  /\ step["memoria"] > 4 => "MEMORIA_CPU_TLB" \in connected
  /\ "MEMORIA_KERNEL" \in listening \cup connected => step["memoria"] > 4
CpuPast ==
  /\ "MEMORIA_CPU_TLB" \in connected => step["consistency_check"] > 1
  /\ step["consistency_check"] > 0 => step["cpu"] > 3
  /\ "cpu" \in exited => step["cpu"] <= 1 \/ step["consistency_check"] <= 1
KernelPast ==
  /\ step["kernel"] > 1 => "CPU_INTERRUPT" \in connected
  /\ step["kernel"] > 2 => "CPU_DISPATCH" \in connected
  /\ step["kernel"] > 3 => "MEMORIA_KERNEL" \in connected
  /\ step["kernel"] > 4 => "MEMORIA_KERNEL_PAGE_FAULT" \in connected
  /\ "kernel" \in exited => step["kernel"] <= 4
  /\ "KERNEL" \in listening => step["kernel"] > 4
Order ==
  /\ step \in [Threads -> Nat]
  /\ exited \subseteq {"cpu", "kernel"}
  /\ MemoriaPast
  /\ CpuPast
  /\ KernelPast

(* The order of the calls is an invariant: what each thread has done by    *)
(* the step it is at.                                                      *)
LEMMA OrderInit == SystemInit => Order
BY Scripts DEF SystemInit, Order, MemoriaPast, CpuPast, KernelPast

LEMMA OrderSame ==
  ASSUME Order, UNCHANGED startup PROVE Order'
BY DEF Order, MemoriaPast, CpuPast, KernelPast, startup

LEMMA OrderLaunch ==
  ASSUME Order, NEW m \in Modules, Launch(m) PROVE Order'
<1>1. m \in Threads
  BY Scripts DEF Modules
<1>2. /\ step' \in [Threads -> Nat] /\ step'[m] = 1 /\ step[m] = 0
      /\ \A t \in Threads : t # m => step'[t] = step[t]
      /\ UNCHANGED <<listening, connected, exited>>
  BY <1>1 DEF Launch, Order
<1>3. \A t \in {"memoria", "cpu", "kernel", "consistency_check"} : t \in Threads /\ step[t] \in Nat
  BY Scripts DEF Order
<1>4. CASE m = "memoria"
  BY <1>2, <1>3, <1>4 DEF Order, MemoriaPast, CpuPast, KernelPast
<1>5. CASE m = "cpu"
  BY <1>2, <1>3, <1>5 DEF Order, MemoriaPast, CpuPast, KernelPast
<1>6. CASE m = "kernel"
  BY <1>2, <1>3, <1>6 DEF Order, MemoriaPast, CpuPast, KernelPast
<1>7. QED BY <1>4, <1>5, <1>6 DEF Modules

(* A thread of a module that has not exited goes on.                       *)
LEMMA Advances ==
  ASSUME Order, NEW t \in Threads, Advance(t)
  PROVE  /\ step' \in [Threads -> Nat] /\ step'[t] = step[t] + 1 /\ step[t] \in Nat
         /\ \A u \in Threads : u # t => step'[u] = step[u]
BY DEF Order, Advance

LEMMA OrderListen ==
  ASSUME Order, NEW t \in Threads, StartServer(t) PROVE Order'
<1>1. /\ step' \in [Threads -> Nat] /\ step'[t] = step[t] + 1 /\ step[t] \in Nat
      /\ \A u \in Threads : u # t => step'[u] = step[u]
  BY Advances DEF StartServer
<1>2. Does(t, "listen") /\ ModuleOf(t) \notin exited
      /\ listening' = listening \cup {Current(t).server} /\ UNCHANGED <<connected, exited>>
  BY DEF StartServer, Does
<1>3. \A u \in {"memoria", "cpu", "kernel", "consistency_check"} : u \in Threads /\ step[u] \in Nat
  BY Scripts DEF Order
<1>4. CASE t = "memoria"
  <2>1. /\ step[t] \in {1, 3, 5, 7} /\ Current(t).server # "KERNEL"
        /\ Current(t).server = "MEMORIA_KERNEL" => step[t] = 5
    BY <1>1, <1>2, <1>4, Listening DEF Is, Listen
  <2>2. QED BY <1>1, <1>2, <1>3, <1>4, <2>1 DEF Order, MemoriaPast, CpuPast, KernelPast
<1>5. CASE t = "cpu"
  <2>1. step[t] = 4 /\ Current(t).server = "CPU_DISPATCH"
    BY <1>1, <1>2, <1>5, Listening DEF Is, Listen
  <2>2. "cpu" \notin exited
    BY <1>2, <1>5 DEF ModuleOf
  <2>3. QED BY <1>1, <1>2, <1>3, <1>5, <2>1, <2>2 DEF Order, MemoriaPast, CpuPast, KernelPast
<1>6. CASE t = "start_interrupt"
  <2>1. Current(t).server = "CPU_INTERRUPT"
    BY <1>1, <1>2, <1>6, Listening DEF Is, Listen
  <2>2. QED BY <1>1, <1>2, <1>3, <1>6, <2>1 DEF Order, MemoriaPast, CpuPast, KernelPast
<1>7. CASE t = "kernel"
  <2>1. step[t] = 5 /\ Current(t).server = "KERNEL"
    BY <1>1, <1>2, <1>7, Listening DEF Is, Listen
  <2>2. "kernel" \notin exited
    BY <1>2, <1>7 DEF ModuleOf
  <2>3. QED BY <1>1, <1>2, <1>3, <1>7, <2>1, <2>2 DEF Order, MemoriaPast, CpuPast, KernelPast
<1>8. QED
  <2>1. t \in {"memoria", "cpu", "start_interrupt", "kernel"}
    BY <1>1, <1>2, Listening
  <2>2. QED BY <2>1, <1>4, <1>5, <1>6, <1>7

LEMMA OrderAccept ==
  ASSUME Order, NEW t \in Threads, AcceptClient(t) PROVE Order'
<1>1. /\ step' \in [Threads -> Nat] /\ step'[t] = step[t] + 1 /\ step[t] \in Nat
      /\ \A u \in Threads : u # t => step'[u] = step[u]
  BY Advances DEF AcceptClient
<1>2. /\ Does(t, "accept") /\ ModuleOf(t) \notin exited /\ Current(t).server \in connected
      /\ UNCHANGED <<listening, connected, exited>>
  BY DEF AcceptClient, Does
<1>3. \A u \in {"memoria", "cpu", "kernel", "consistency_check"} : u \in Threads /\ step[u] \in Nat
  BY Scripts DEF Order
<1>4. CASE t = "memoria"
  <2>1. \/ step[t] = 2 /\ Current(t).server = "MEMORIA_CPU"
        \/ step[t] = 4 /\ Current(t).server = "MEMORIA_CPU_TLB"
        \/ step[t] \in {6, 8}
    BY <1>1, <1>2, <1>4, Accepting DEF Is, Accept
  <2>2. QED BY <1>1, <1>2, <1>3, <1>4, <2>1 DEF Order, MemoriaPast, CpuPast, KernelPast
<1>5. CASE t = "cpu"
  <2>1. "cpu" \notin exited
    BY <1>2, <1>5 DEF ModuleOf
  <2>2. QED BY <1>1, <1>2, <1>3, <1>5, <2>1 DEF Order, MemoriaPast, CpuPast, KernelPast
<1>6. CASE t = "start_interrupt"
  BY <1>1, <1>2, <1>3, <1>6 DEF Order, MemoriaPast, CpuPast, KernelPast
<1>7. QED
  <2>1. t \in {"memoria", "cpu", "start_interrupt"}
    BY <1>1, <1>2, Accepting
  <2>2. QED BY <2>1, <1>4, <1>5, <1>6

LEMMA OrderConnect ==
  ASSUME Order, NEW t \in Threads, StartClient(t) PROVE Order'
<1>1. /\ step' \in [Threads -> Nat] /\ step'[t] = step[t] + 1 /\ step[t] \in Nat
      /\ \A u \in Threads : u # t => step'[u] = step[u]
  BY Advances DEF StartClient
<1>2. /\ Does(t, "connect") /\ ModuleOf(t) \notin exited /\ Current(t).server \in listening
      /\ connected' = connected \cup {Current(t).server} /\ UNCHANGED <<listening, exited>>
  BY DEF StartClient, Does
<1>3. \A u \in {"memoria", "cpu", "kernel", "consistency_check"} : u \in Threads /\ step[u] \in Nat
  BY Scripts DEF Order
<1>4. CASE t = "cpu"
  <2>1. step[t] = 1 /\ Current(t).server = "MEMORIA_CPU"
    BY <1>1, <1>2, <1>4, Connecting DEF Is, Connect
  <2>2. "cpu" \notin exited
    BY <1>2, <1>4 DEF ModuleOf
  <2>3. QED BY <1>1, <1>2, <1>3, <1>4, <2>1, <2>2 DEF Order, MemoriaPast, CpuPast, KernelPast
<1>5. CASE t = "consistency_check"
  <2>1. step[t] = 1 /\ Current(t).server = "MEMORIA_CPU_TLB"
    BY <1>1, <1>2, <1>5, Connecting DEF Is, Connect
  <2>2. "cpu" \notin exited
    BY <1>2, <1>5 DEF ModuleOf
  <2>3. QED BY <1>1, <1>2, <1>3, <1>5, <2>1, <2>2 DEF Order, MemoriaPast, CpuPast, KernelPast
<1>6. CASE t = "kernel"
  <2>1. /\ \/ step[t] = 1 /\ Current(t).server = "CPU_INTERRUPT"
           \/ step[t] = 2 /\ Current(t).server = "CPU_DISPATCH"
           \/ step[t] = 3 /\ Current(t).server = "MEMORIA_KERNEL"
           \/ step[t] = 4 /\ Current(t).server = "MEMORIA_KERNEL_PAGE_FAULT"
    BY <1>1, <1>2, <1>6, Connecting DEF Is, Connect
  <2>2. "kernel" \notin exited
    BY <1>2, <1>6 DEF ModuleOf
  <2>3. QED BY <1>1, <1>2, <1>3, <1>6, <2>1, <2>2 DEF Order, MemoriaPast, CpuPast, KernelPast
<1>7. QED
  <2>1. t \in {"cpu", "consistency_check", "kernel"}
    BY <1>1, <1>2, Connecting
  <2>2. QED BY <2>1, <1>4, <1>5, <1>6

LEMMA OrderConnectFails ==
  ASSUME Order, NEW t \in Threads, StartClientFails(t) PROVE Order'
<1>1. /\ Does(t, "connect") /\ exited' = exited \cup {ModuleOf(t)}
      /\ listening' \subseteq listening /\ UNCHANGED <<step, connected>> /\ step[t] \in Nat
  BY DEF StartClientFails, Order
<1>2. CASE t = "cpu" \/ t = "consistency_check"
  <2>1. step[t] = 1 /\ ModuleOf(t) = "cpu"
    BY <1>1, <1>2, Connecting DEF Is, Connect, ModuleOf
  <2>2. QED BY <1>1, <1>2, <2>1 DEF Order, MemoriaPast, CpuPast, KernelPast
<1>3. CASE t = "kernel"
  <2>1. step[t] <= 4 /\ ModuleOf(t) = "kernel"
    BY <1>1, <1>3, Connecting DEF Is, Connect, ModuleOf
  <2>2. QED BY <1>1, <1>3, <2>1 DEF Order, MemoriaPast, CpuPast, KernelPast
<1>4. QED
  <2>1. t \in {"cpu", "consistency_check", "kernel"}
    BY <1>1, Connecting
  <2>2. QED BY <2>1, <1>2, <1>3

LEMMA OrderCreate ==
  ASSUME Order, NEW t \in Threads, CreateThread(t) PROVE Order'
<1>1. /\ Does(t, "create") /\ ModuleOf(t) \notin exited /\ step[t] \in Nat
      /\ step' = [step EXCEPT ![t] = @ + 1, ![Current(t).thread] = 1]
      /\ UNCHANGED <<listening, connected, exited>>
  BY DEF CreateThread, Does, Order
<1>2. \A u \in {"memoria", "cpu", "kernel", "consistency_check", "start_interrupt",
                "handle_cpu"} : u \in Threads /\ step[u] \in Nat
  BY Scripts DEF Order
<1>3. CASE t = "memoria"
  <2>1. step[t] = 9 /\ Current(t).thread = "handle_cpu"
    BY <1>1, <1>3, CreatingThread DEF Is, Create
  <2>2. /\ step' \in [Threads -> Nat] /\ step'["memoria"] = step["memoria"] + 1
        /\ \A u \in {"cpu", "kernel", "consistency_check"} : step'[u] = step[u]
    BY <1>1, <1>2, <1>3, <2>1 DEF Order
  <2>3. QED BY <1>1, <1>2, <1>3, <2>1, <2>2 DEF Order, MemoriaPast, CpuPast, KernelPast
<1>4. CASE t = "cpu"
  <2>1. \/ step[t] = 2 /\ Current(t).thread = "start_interrupt"
        \/ step[t] = 3 /\ Current(t).thread = "consistency_check"
    BY <1>1, <1>4, CreatingThread DEF Is, Create
  <2>2. "cpu" \notin exited
    BY <1>1, <1>4 DEF ModuleOf
  <2>3. step["consistency_check"] = 0 /\ "MEMORIA_CPU_TLB" \notin connected
    BY <1>2, <1>4, <2>1 DEF Order, CpuPast
  <2>4. /\ step' \in [Threads -> Nat] /\ step'["cpu"] = step["cpu"] + 1
        /\ \A u \in {"memoria", "kernel"} : step'[u] = step[u]
    BY <1>1, <1>2, <1>4, <2>1 DEF Order
  <2>5. step'["consistency_check"] = IF step[t] = 2 THEN 0 ELSE 1
    BY <1>1, <1>2, <1>4, <2>1, <2>3 DEF Order
  <2>6. QED BY <1>1, <1>2, <1>4, <2>1, <2>2, <2>3, <2>4, <2>5
            DEF Order, MemoriaPast, CpuPast, KernelPast
<1>5. QED BY <1>1, <1>3, <1>4, CreatingThread

LEMMA OrderHandshake ==
  ASSUME Order, NEW t \in Threads, Handshake(t) PROVE Order'
<1>1. /\ step' \in [Threads -> Nat] /\ step'[t] = step[t] + 1 /\ step[t] \in Nat
      /\ \A u \in Threads : u # t => step'[u] = step[u]
  BY Advances DEF Handshake
<1>2. /\ Does(t, "send_memdata") \/ Does(t, "recv_memdata")
      /\ UNCHANGED <<listening, connected, exited>>
  BY DEF Handshake
<1>3. \A u \in {"memoria", "cpu", "kernel", "consistency_check"} : u \in Threads /\ step[u] \in Nat
  BY Scripts DEF Order
<1>4. t = "handle_cpu" \/ (t = "cpu" /\ step[t] = 6)
  BY <1>1, <1>2, Handshaking
<1>5. QED BY <1>1, <1>2, <1>3, <1>4 DEF Order, MemoriaPast, CpuPast, KernelPast

LEMMA OrderNext == Order /\ [SystemNext]_systemvars => Order'
<1> SUFFICES ASSUME Order, [SystemNext]_systemvars PROVE Order'
  OBVIOUS
<1>1. CASE UNCHANGED startup
  BY <1>1, OrderSame
<1>2. ASSUME NEW m \in Modules, Launch(m) PROVE Order'
  BY <1>2, OrderLaunch
<1>3. ASSUME NEW t \in Threads, Starts(t) PROVE Order'
  BY <1>3, OrderListen, OrderAccept, OrderConnect, OrderConnectFails, OrderCreate,
     OrderHandshake DEF Starts
<1>4. QED
  BY <1>1, <1>2, <1>3
     DEF SystemNext, systemvars, ConsolaConnects, ConsolaFails, Consola, MemoriaServes, CpuRuns,
         KernelMain, KernelScheduller, KernelPageFault, startup

(* A kernel that listens has made its four connections, so the servers of  *)
(* memoria and the CPU were there.                                         *)
LEMMA OrderIsEnough == Order => NobodyMissing
<1> SUFFICES ASSUME Order, "KERNEL" \in listening PROVE NobodyMissing
  BY DEF NobodyMissing
<1>1. \A u \in {"memoria", "cpu", "kernel", "consistency_check"} : step[u] \in Nat
  BY Scripts DEF Order
<1>2. /\ step["kernel"] > 4 /\ "kernel" \notin exited
      /\ {"CPU_INTERRUPT", "CPU_DISPATCH", "MEMORIA_KERNEL", "MEMORIA_KERNEL_PAGE_FAULT"}
           \subseteq connected
  BY <1>1 DEF Order, KernelPast
<1>3. step["memoria"] > 4 /\ {"MEMORIA_CPU", "MEMORIA_CPU_TLB"} \subseteq connected
  BY <1>1, <1>2 DEF Order, MemoriaPast
<1>4. "cpu" \notin exited
  BY <1>1, <1>3 DEF Order, CpuPast
<1>5. exited = {}
  BY <1>2, <1>4 DEF Order
<1>6. QED BY <1>2, <1>3, <1>5, ServersAre DEF NobodyMissing

(* A kernel that listens for consoles has memoria and the CPU behind it,   *)
(* with all their servers connected and no module exited (the order of     *)
(* start_server_module and start_client_module in the three mains and in   *)
(* the threads they create).                                               *)
THEOREM NobodyMissingAlways == SystemSpec => []NobodyMissing
<1>1. SystemSpec => []Order
  BY OrderInit, OrderNext, PTL DEF SystemSpec
<1>2. QED BY <1>1, OrderIsEnough, PTL
=============================================================================
