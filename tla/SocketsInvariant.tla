-------------------------- MODULE SocketsInvariant --------------------------
(***************************************************************************)
(* The inductive invariant of Sockets, for any number of consoles, any     *)
(* program and any segments, and the steps of the consoles, of the CPU, of *)
(* the scheduler and of the threads that handle I/O and page faults.  What *)
(* memoria and the main thread do, and the theorems, are in SocketsProofs. *)
(*                                                                         *)
(* The properties of Sockets follow from where the process of each console *)
(* is, which no variable holds: its pcb is in a queue of the kernel, or    *)
(* its fields are in one of five sockets.  The invariant says that there   *)
(* are, for each state,                                                    *)
(*   place     where the process of each console is,                       *)
(*   proc      its pcb,                                                    *)
(*   base      the index of its first page table,                          *)
(*   requests  the messages the fields in to_memoria are of, and           *)
(*   resolved  those the fields in page_fault are of,                      *)
(* from which every socket and every queue follows.  An action moves one   *)
(* process from one place to another, and the lemmas about a Step are what *)
(* that leaves alone.                                                      *)
(*                                                                         *)
(* The invariant is two: with known = "all" it says what the main thread   *)
(* reads, which is so until the scheduler takes a field of its answer, and *)
(* with known = "places" only what is so even then.                        *)
(***************************************************************************)
EXTENDS FiniteSetTheorems, SerializationProofs, Sockets, TLAPS

-----------------------------------------------------------------------------
(* What a field may be.                                                    *)
Words == {"TECLADO", "PANTALLA", "NO_INTERRUPT", "INT_QUANTUM", "INT_PAGE_FAULT", "INT_IO",
          "EXECUTION_FINISHED", "SEGMENTATION_FAULT"}
Field == BOOLEAN \cup Int \cup STRING \cup Words \cup Consolas

-----------------------------------------------------------------------------
(* Where the process of a console is.                                      *)
Uncreated == {"start", "backlog"}
IoAsk     == {"io_teclado", "io_pantalla"}
IoPlaces  == IoAsk \cup {"asked_teclado", "asked_pantalla",
                         "answered_teclado", "answered_pantalla"}
Places    == Uncreated \cup IoPlaces
               \cup {"main", "ready", "cpu", "back", "fault", "resolved", "finish",
                     "told_exit", "told_fault", "ended", "killed"}
Device(at) ==
  IF at \in {"io_teclado", "asked_teclado", "answered_teclado"} THEN "TECLADO"
  ELSE "PANTALLA"
Created(place) == {c \in Consolas : place[c] \notin Uncreated}

ConsolaPcbs == {pcb \in Pcbs(Field) : pcb.socket_consola \in Consolas}

(* The messages of the kernel to memoria, and of memoria to the thread     *)
(* that waits for page faults.                                             *)
Request == [op  : {PROCESS_STARTED, PROCESS_FINISHED, PAGE_FAULT, PAGE_FAULT_RESOLVED},
            pcb : ConsolaPcbs]
Body(m) ==
  CASE m.op = PROCESS_STARTED ->
         Joined(<<m.pcb.id>>, Joined(<<Len(Segmentos[m.pcb.socket_consola])>>,
                                     Segmentos[m.pcb.socket_consola]))
    [] m.op = PAGE_FAULT -> Joined(AddPcb(m.pcb), <<0, 1>>)
    [] OTHER -> AddPcb(m.pcb)
FieldsOf(m) == Joined(<<m.op>>, Body(m))
Stream(ms) == Seqs!FlattenSeq([k \in 1 .. Len(ms) |-> FieldsOf(ms[k])])
(* The requests that tell where their process is: one that starts or ends  *)
(* may be of a process that went on, when its answer was not awaited.      *)
Tells(known, m) == known = "all" \/ m.op \in {PAGE_FAULT, PAGE_FAULT_RESOLVED}
Pending(known, ms, c) ==
  \E k \in 1 .. Len(ms) : Tells(known, ms[k]) /\ ms[k].pcb.socket_consola = c
OnePerConsole(known, ms) ==
  \A j, k \in 1 .. Len(ms) :
    /\ Tells(known, ms[j]) /\ Tells(known, ms[k])
    /\ ms[j].pcb.socket_consola = ms[k].pcb.socket_consola
    => j = k

(* What the CPU sends behind a pcb.                                        *)
Extras(type) ==
  CASE type = "INT_IO" -> {<<STRING_OP, device, AX>> : device \in {"TECLADO", "PANTALLA"}}
    [] type = "INT_PAGE_FAULT" -> {<<0, 1>>}
    [] OTHER -> {<< >>}

(* The segment table of a process, and what memoria sends of it from row   *)
(* k + 1 on.                                                               *)
Table(base, c) ==
  [k \in 1 .. Len(Segmentos[c]) |-> [size |-> Segmentos[c][k],
                                     page_table_index |-> base[c] + k - 1]]
Rows(base, c, k) == AddEach(AddSegment, SubSeq(Table(base, c), k + 1, Len(Segmentos[c])))

-----------------------------------------------------------------------------
(* The parts of the inductive invariant.                                   *)

(* What they are, and what the variables are.                              *)
Ghosts(place, proc, base, requests, resolved) ==
  /\ place \in [Consolas -> Places] /\ proc \in [Consolas -> ConsolaPcbs]
  /\ base \in [Consolas -> Nat] /\ requests \in Seq(Request) /\ resolved \in Seq(Request)
  /\ \A c \in Consolas : proc[c].socket_consola = c
                         /\ (place[c] \notin Uncreated => proc[c].instructions = Listing[c])
PageTableRow == [pid : Int, size : Int, freed : BOOLEAN]
Types ==
  /\ kernel \in {"up", "down"}
  /\ consola \in [Consolas -> {"start", "failed", "waiting", "ended", "killed"}]
  /\ backlog \in Seq(Consolas) /\ process_count \in Nat
  /\ to_kernel \in [Consolas -> Seq(Field)] /\ to_consola \in [Consolas -> Seq(Field)]
  /\ left = [c \in Consolas |-> left[c]]
  /\ page_tables \in Seq(PageTableRow) /\ from_memoria \in Seq(Int)

Ids(place, proc) ==
  /\ process_count = Cardinality(Created(place))
  /\ \A c \in Created(place) : proc[c].id \in 1 .. process_count
  /\ \A c, d \in Created(place) : proc[c].id = proc[d].id => c = d

InReady(place, proc) ==
  \A pcb \in ready : \E c \in Consolas : place[c] = "ready" /\ pcb = proc[c]

Blocking(pcb, at) == [pcb |-> pcb, device |-> Device(at), arg |-> AX, asked |-> at \notin IoAsk]
InIo(place, proc) ==
  \A b \in io : \E c \in Consolas : place[c] \in IoPlaces /\ b = Blocking(proc[c], place[c])

AtSched(place, proc) ==
  \/ /\ sched = [at |-> "execute_algorithm"] \/ sched = [at |-> "recv_pcb"]
     /\ \A c \in Consolas : place[c] # "finish"
  \/ \E f \in Consolas : /\ sched = [at |-> "recv_finished", pcb |-> proc[f]]
                         /\ \A c \in Consolas : place[c] = "finish" <=> c = f

InDispatch(place, proc) ==
  IF sched.at = "recv_pcb"
  THEN \E c \in Consolas :
         \/ place[c] = "cpu" /\ from_cpu = << >> /\ to_cpu = AddPcb(proc[c])
         \/ /\ place[c] = "back" /\ to_cpu = << >>
            /\ \E extra \in Extras(proc[c].interrupt_type) :
                 from_cpu = Joined(AddPcb(proc[c]), extra)
  ELSE to_cpu = << >> /\ from_cpu = << >>

(* All but n rows of the table of m are in its pcb.                        *)
RowsRead(base, pcb, m, n) ==
  /\ n \in 0 .. Len(Segmentos[m])
  /\ pcb.segment_table = SubSeq(Table(base, m), 1, Len(Segmentos[m]) - n)

(* The main thread creates the process of m: what it has read of the table *)
(* when that is known, and some numbers otherwise.                         *)
Creating(known, base, pcb, m) ==
  \/ /\ main.at \in {"recv_op", "recv_count"} /\ main = [at |-> main.at, pcb |-> pcb]
     /\ known = "all" => pcb.segment_table = << >>
  \/ \E n \in Int :
       /\ main = [at |-> "recv_size", pcb |-> pcb, missing |-> n]
       /\ known = "all" => RowsRead(base, pcb, m, n)
  \/ \E n, size \in Int :
       /\ main = [at |-> "recv_index", pcb |-> pcb, missing |-> n, size |-> size]
       /\ known = "all" => /\ RowsRead(base, pcb, m, n) /\ n > 0
                           /\ size = Segmentos[m][Len(Segmentos[m]) - n + 1]

AtMain(known, place, proc, base) ==
  \/ main = [at |-> "accept"] /\ \A c \in Consolas : place[c] # "main"
  \/ \E m \in Consolas : /\ \A c \in Consolas : place[c] = "main" <=> c = m
                         /\ Creating(known, base, proc[m], m)

InBacklog(place) ==
  /\ \A k \in 1 .. Len(backlog) : place[backlog[k]] = "backlog"
  /\ \A j, k \in 1 .. Len(backlog) : backlog[j] = backlog[k] => j = k

Waits(op, at) ==
  \/ op = PROCESS_STARTED /\ at = "main" /\ main.at = "recv_op"
  \/ op = PROCESS_FINISHED /\ at = "finish"
  \/ op = PAGE_FAULT /\ at = "fault"
InRequests(known, place, proc, requests) ==
  /\ to_memoria = Stream(requests)
  /\ OnePerConsole(known, requests)
  /\ \A k \in 1 .. Len(requests) : Tells(known, requests[k]) => \E c \in Consolas :
       requests[k].pcb = proc[c] /\ Waits(requests[k].op, place[c])

InResolved(known, place, proc, resolved) ==
  /\ page_fault = Stream(resolved)
  /\ OnePerConsole(known, resolved)
  /\ \A k \in 1 .. Len(resolved) : \E c \in Consolas :
       resolved[k].pcb = proc[c] /\ resolved[k].op = PAGE_FAULT_RESOLVED
       /\ place[c] = "resolved"

(* The two directions of the socket of a console, and what is last known   *)
(* of its process.                                                         *)
Talk(at, pcb, c) ==
  /\ at = "start" <=> consola[c] \in {"start", "failed"}
  /\ at = "ended" <=> consola[c] = "ended"
  /\ at = "killed" <=> consola[c] = "killed"
  /\ to_kernel[c] =
       CASE at = "backlog" -> Joined(AddInstructions(Listing[c]), AddSegments(Segmentos[c]))
         [] at = "answered_teclado" -> <<TECLADO, left[c].registers[AX]>>
         [] at = "answered_pantalla" -> <<PANTALLA>>
         [] OTHER -> << >>
  /\ to_consola[c] =
       CASE at = "asked_teclado" -> <<TECLADO>>
         [] at = "asked_pantalla" -> <<PANTALLA, pcb.registers[AX]>>
         [] at = "told_exit" -> <<PROCESS_FINISHED>>
         [] at = "told_fault" -> <<SEG_FAULT>>
         [] OTHER -> << >>
  /\ left[c] =
       CASE at \in Uncreated -> << >>
         [] at = "answered_teclado" ->
              At([pcb EXCEPT !.registers[AX] = left[c].registers[AX]])
         [] OTHER -> At(pcb)
Talks(place, proc) == \A c \in Consolas : Talk(place[c], proc[c], c)

(* The page tables of a process: those of its pid, and no others.          *)
Built(known, at, requests, c) ==
  at \notin Uncreated /\ ~ (at = "main" /\ Pending(known, requests, c))
Freed(known, at, requests, c) ==
  at \in {"told_exit", "ended"} \/ (at = "finish" /\ ~ Pending(known, requests, c))
TablesOf(known, at, pcb, base, requests, c) ==
  /\ base[c] + Len(Segmentos[c]) <= Len(page_tables)
  /\ \A i \in 1 .. Len(page_tables) :
       page_tables[i].pid = pcb.id <=> i \in base[c] + 1 .. base[c] + Len(Segmentos[c])
  /\ \A k \in 1 .. Len(Segmentos[c]) :
       /\ page_tables[base[c] + k].size = Segmentos[c][k]
       /\ page_tables[base[c] + k].freed = Freed(known, at, requests, c)
  /\ at # "main" => pcb.segment_table = Table(base, c)
InTables(known, place, proc, base, requests) ==
  known = "all" =>
  /\ \A i \in 1 .. Len(page_tables) : page_tables[i].pid \in 1 .. process_count
  /\ \A c \in Created(place) :
       IF Built(known, place[c], requests, c)
       THEN TablesOf(known, place[c], proc[c], base, requests, c)
       ELSE \A i \in 1 .. Len(page_tables) : page_tables[i].pid # proc[c].id

(* What memoria has answered.                                              *)
Console == main.pcb.socket_consola
ToMain(known, base, requests) ==
  IF main.at = "accept" \/ Pending(known, requests, Console) THEN << >>
  ELSE CASE main.at = "recv_op" ->
              Joined(<<PROCESS_STARTED>>, AddSegmentTable(Table(base, Console)))
         [] main.at = "recv_count" -> AddSegmentTable(Table(base, Console))
         [] main.at = "recv_size" -> Rows(base, Console, Len(Segmentos[Console]) - main.missing)
         [] OTHER -> Joined(<<base[Console] + Len(Segmentos[Console]) - main.missing>>,
                            Rows(base, Console, Len(Segmentos[Console]) - main.missing + 1))
ToSched(known, requests) ==
  IF sched.at = "recv_finished" /\ ~ Pending(known, requests, sched.pcb.socket_consola)
  THEN <<PROCESS_FINISHED>> ELSE << >>
Answers(known, base, requests) ==
  known = "all" /\ kernel = "up" =>
    \/ from_memoria = Joined(ToMain(known, base, requests), ToSched(known, requests))
    \/ /\ main.at = "recv_op"
       /\ from_memoria = Joined(ToSched(known, requests), ToMain(known, base, requests))

Whole(known, place, proc, base, requests, resolved) ==
  /\ Ghosts(place, proc, base, requests, resolved)
  /\ Types
  /\ Ids(place, proc)
  /\ InReady(place, proc)
  /\ InIo(place, proc)
  /\ AtSched(place, proc)
  /\ InDispatch(place, proc)
  /\ AtMain(known, place, proc, base)
  /\ InBacklog(place)
  /\ InRequests(known, place, proc, requests)
  /\ InResolved(known, place, proc, resolved)
  /\ Talks(place, proc)
  /\ InTables(known, place, proc, base, requests)
  /\ Answers(known, base, requests)

-----------------------------------------------------------------------------
(* The constants, and what is built from them.                             *)

LEMMA FieldIsField == IsField(Field)
BY Zenon DEF IsField, Field

LEMMA ProgramTypes ==
  ASSUME NEW c \in Consolas
  PROVE  /\ Listing[c] \in Listings(Field)
         /\ Segmentos[c] \in Seq(Nat) /\ Segmentos[c] \in Seq(Int)
         /\ Len(Segmentos[c]) \in Nat
         /\ \A k \in 1 .. Len(Segmentos[c]) : Segmentos[c][k] \in Nat
<1>1. Segmentos[c] \in Seq(Nat) /\ Listing[c] \in Seq(LineType)
  BY SocketsAssumption
<1>2. ParameterType \subseteq Parameters(Field)
  BY Zenon DEF ParameterType, Parameters, Field
<1>3. LineType \subseteq Instructions(Field)
  <2>1. Seq(ParameterType) \subseteq Seq(Parameters(Field))
    <3> HIDE DEF ParameterType, Parameters
    <3>1. QED BY <1>2
  <2>2. STRING \subseteq Field
    BY Zenon DEF Field
  <2>3. QED BY <2>1, <2>2 DEF LineType, Instructions, ParameterLists
<1>4. Listing[c] \in Seq(Instructions(Field))
  <2> HIDE DEF LineType, Instructions
  <2>1. QED BY <1>1, <1>3
<1>5. QED BY <1>1, <1>4 DEF Listings

LEMMA TableFacts ==
  ASSUME NEW base \in [Consolas -> Nat], NEW c \in Consolas
  PROVE  /\ Table(base, c) \in SegmentTables
         /\ Len(Table(base, c)) = Len(Segmentos[c])
         /\ \A k \in 1 .. Len(Segmentos[c]) :
              Table(base, c)[k] = [size |-> Segmentos[c][k], page_table_index |-> base[c] + k - 1]
<1>1. \A k \in 1 .. Len(Segmentos[c]) :
        [size |-> Segmentos[c][k], page_table_index |-> base[c] + k - 1] \in SegmentRows
  BY ProgramTypes DEF SegmentRows
<1>2. Len(Segmentos[c]) \in Nat
  BY ProgramTypes
<1>3. QED BY <1>1, <1>2 DEF Table, SegmentTables

-----------------------------------------------------------------------------
(* The pcb in a stream.                                                    *)
LEMMA PcbIn ==
  ASSUME NEW pcb \in ConsolaPcbs, NEW t \in Seq(Field)
  PROVE  /\ AddPcb(pcb) \in Seq(Field)
         /\ RecvPcb(Joined(AddPcb(pcb), t)) = Got(pcb, t)
         /\ Joined(AddPcb(pcb), t) # << >>
         /\ Joined(AddPcb(pcb), t) \in Seq(Field)
<1>1. pcb \in Pcbs(Field)
  BY DEF ConsolaPcbs
<1>2. /\ AddPcb(pcb) \in Seq(Field) /\ RecvPcb(Joined(AddPcb(pcb), t)) = Got(pcb, t)
      /\ AddPcb(pcb) # << >>
  BY <1>1, FieldIsField, PcbTrip
<1>3. Joined(AddPcb(pcb), t) # << >>
  BY <1>2, NotEmpty
<1>4. Joined(AddPcb(pcb), t) \in Seq(Field)
  BY <1>2, ConcatFacts DEF Joined
<1>5. QED BY <1>2, <1>3, <1>4

LEMMA PcbAlone ==
  ASSUME NEW pcb \in ConsolaPcbs
  PROVE  RecvPcb(AddPcb(pcb)) = Got(pcb, << >>) /\ AddPcb(pcb) # << >>
<1> DEFINE t == << >>
<1>1. t \in Seq(Field)
  OBVIOUS
<1>2. AddPcb(pcb) \in Seq(Field)
  BY <1>1, PcbIn
<1>3. Joined(AddPcb(pcb), t) = AddPcb(pcb)
  BY <1>2, ConcatFacts DEF Joined
<1> HIDE DEF t
<1>4. RecvPcb(Joined(AddPcb(pcb), t)) = Got(pcb, t) /\ Joined(AddPcb(pcb), t) # << >>
  BY <1>1, PcbIn
<1>5. QED BY <1>3, <1>4, Zenon DEF t

(* What the CPU sends: a pcb and what follows it.                          *)
LEMMA ExtraFacts ==
  ASSUME NEW type, NEW extra \in Extras(type)
  PROVE  /\ extra \in Seq(Field)
         /\ type = "INT_IO" => \E device \in {"TECLADO", "PANTALLA"} :
              extra = <<STRING_OP, device, AX>>
         /\ type = "INT_PAGE_FAULT" => extra = <<0, 1>>
         /\ type \notin {"INT_IO", "INT_PAGE_FAULT"} => extra = << >>
<1>1. CASE type = "INT_IO"
  <2>1. PICK device \in {"TECLADO", "PANTALLA"} : extra = <<STRING_OP, device, AX>>
    BY <1>1 DEF Extras
  <2>2. STRING_OP \in Field /\ device \in Field /\ AX \in Field
    <3>1. Words \subseteq Field /\ Int \subseteq Field
      BY Zenon DEF Field
    <3>2. STRING_OP \in Int /\ AX \in Int
      BY DEF STRING_OP, AX
    <3>3. device \in Words
      BY DEF Words
    <3>4. QED BY <3>1, <3>2, <3>3
  <2>3. <<STRING_OP, device, AX>> \in Seq(Field)
    BY <2>2
  <2>4. QED BY <1>1, <2>1, <2>3
<1>2. CASE type = "INT_PAGE_FAULT"
  <2>1. extra = <<0, 1>>
    BY <1>2 DEF Extras
  <2>2. 0 \in Field /\ 1 \in Field
    <3>1. Int \subseteq Field
      BY Zenon DEF Field
    <3>2. QED BY <3>1
  <2>3. QED BY <1>2, <2>1, <2>2
<1>3. CASE type \notin {"INT_IO", "INT_PAGE_FAULT"}
  <2>1. extra = << >>
    BY <1>3 DEF Extras
  <2>2. << >> \in Seq(Field)
    OBVIOUS
  <2>3. QED BY <1>3, <2>1, <2>2
<1>4. QED BY <1>1, <1>2, <1>3

-----------------------------------------------------------------------------
(* The messages in to_memoria and page_fault.                              *)

LEMMA NumbersAreFields ==
  /\ Int \subseteq Field /\ STRING \subseteq Field
  /\ Words \subseteq Field /\ Consolas \subseteq Field
  /\ PROCESS_STARTED \in Int /\ PROCESS_FINISHED \in Int /\ PAGE_FAULT \in Int
  /\ PAGE_FAULT_RESOLVED \in Int /\ TECLADO \in Int /\ PANTALLA \in Int /\ SEG_FAULT \in Int
  /\ SEGMENTS \in Int /\ INSTRUCTIONS \in Int
<1>1. /\ Int \subseteq Field /\ STRING \subseteq Field
      /\ Words \subseteq Field /\ Consolas \subseteq Field
  BY Zenon DEF Field
<1>2. /\ PROCESS_STARTED \in Int /\ PROCESS_FINISHED \in Int /\ PAGE_FAULT \in Int
      /\ PAGE_FAULT_RESOLVED \in Int /\ TECLADO \in Int /\ PANTALLA \in Int
      /\ SEG_FAULT \in Int /\ SEGMENTS \in Int /\ INSTRUCTIONS \in Int
  BY DEF PROCESS_STARTED, PROCESS_FINISHED, PAGE_FAULT, PAGE_FAULT_RESOLVED,
         TECLADO, PANTALLA, SEG_FAULT, SEGMENTS, INSTRUCTIONS
<1>3. QED BY <1>1, <1>2

LEMMA BodyType ==
  ASSUME NEW m \in Request
  PROVE  Body(m) \in Seq(Field) /\ m.op \in Field /\ FieldsOf(m) \in Seq(Field)
<1> DEFINE c == m.pcb.socket_consola
<1>1. m.pcb \in ConsolaPcbs /\ c \in Consolas /\ m.pcb.id \in Int /\ m.op \in Int
  BY NumbersAreFields DEF Request, ConsolaPcbs, Pcbs
<1>2. m.op \in Field /\ m.pcb.id \in Field
  BY <1>1, NumbersAreFields
<1>3. AddPcb(m.pcb) \in Seq(Field)
  <2>1. << >> \in Seq(Field)
    OBVIOUS
  <2>2. QED BY <1>1, <2>1, PcbIn
<1>4. <<0, 1>> \in Seq(Field)
  <2>1. 0 \in Field /\ 1 \in Field
    BY NumbersAreFields
  <2>2. QED BY <2>1
<1>5. Joined(AddPcb(m.pcb), <<0, 1>>) \in Seq(Field)
  BY <1>3, <1>4, ConcatFacts DEF Joined
<1>6. Joined(<<m.pcb.id>>, Joined(<<Len(Segmentos[c])>>, Segmentos[c])) \in Seq(Field)
  <2>1. Segmentos[c] \in Seq(Int)
    BY <1>1, ProgramTypes
  <2>2. Joined(<<Len(Segmentos[c])>>, Segmentos[c]) \in Seq(Field)
    <3>1. << >> \in Seq(Field)
      OBVIOUS
    <3>2. QED BY <2>1, <3>1, FieldIsField, SizesTrip
  <2>3. <<m.pcb.id>> \in Seq(Field)
    BY <1>2
  <2>4. QED BY <2>2, <2>3, ConcatFacts DEF Joined
<1>7. Body(m) \in Seq(Field)
  BY <1>3, <1>5, <1>6 DEF Body
<1>8. FieldsOf(m) \in Seq(Field)
  <2>1. <<m.op>> \in Seq(Field)
    BY <1>2
  <2>2. QED BY <1>7, <2>1, ConcatFacts DEF FieldsOf, Joined
<1>9. QED BY <1>2, <1>7, <1>8

PartsOf(ms) == [k \in 1 .. Len(ms) |-> FieldsOf(ms[k])]

LEMMA StreamType ==
  ASSUME NEW ms \in Seq(Request)
  PROVE  PartsOf(ms) \in Parts(Field, Len(ms)) /\ Stream(ms) \in Seq(Field)
<1>1. PartsOf(ms) \in Parts(Field, Len(ms))
  BY BodyType DEF PartsOf, Parts
<1>2. Len(ms) \in Nat
  OBVIOUS
<1>3. QED BY <1>1, <1>2, FlattenType DEF Stream, PartsOf

LEMMA StreamAppend ==
  ASSUME NEW ms \in Seq(Request), NEW m \in Request
  PROVE  Stream(Append(ms, m)) = Joined(Stream(ms), FieldsOf(m))
<1> DEFINE n == Len(ms)
           more == Append(ms, m)
<1>1. n \in Nat /\ more \in Seq(Request) /\ Len(more) = n + 1 /\ more[n + 1] = m
      /\ \A k \in 1 .. n : more[k] = ms[k]
  OBVIOUS
<1> HIDE DEF n, more
<1>2. PartsOf(ms) \in Parts(Field, n) /\ PartsOf(more) \in Parts(Field, n + 1)
  BY <1>1, StreamType DEF n
<1>3. \A k \in 1 .. n : PartsOf(more)[k] = PartsOf(ms)[k]
  BY <1>1 DEF PartsOf, n
<1>4. PartsOf(more)[n + 1] = FieldsOf(m)
  BY <1>1 DEF PartsOf
<1>5. Seqs!FlattenSeq(PartsOf(more)) = Joined(Seqs!FlattenSeq(PartsOf(ms)), PartsOf(more)[n + 1])
  BY <1>1, <1>2, <1>3, FlattenAppend
<1>6. QED BY <1>4, <1>5, Zenon DEF Stream, PartsOf, more

LEMMA StreamHead ==
  ASSUME NEW ms \in Seq(Request), ms # << >>
  PROVE  /\ ms[1] \in Request /\ Tail(ms) \in Seq(Request)
         /\ Stream(ms) = Joined(FieldsOf(ms[1]), Stream(Tail(ms)))
<1> DEFINE n == Len(Tail(ms))
           less == Tail(ms)
<1>1. n \in Nat /\ less \in Seq(Request) /\ Len(ms) = n + 1 /\ ms[1] \in Request
      /\ \A k \in 1 .. n : less[k] = ms[k + 1]
  OBVIOUS
<1> HIDE DEF n
<1>2. PartsOf(less) \in Parts(Field, n) /\ PartsOf(ms) \in Parts(Field, n + 1)
  BY <1>1, StreamType DEF n
<1> HIDE DEF less
<1>3. \A k \in 1 .. n : PartsOf(ms)[k + 1] = PartsOf(less)[k]
  BY <1>1 DEF PartsOf, n, less
<1>4. PartsOf(ms)[1] = FieldsOf(ms[1])
  BY <1>1 DEF PartsOf
<1>5. Seqs!FlattenSeq(PartsOf(ms)) = Joined(PartsOf(ms)[1], Seqs!FlattenSeq(PartsOf(less)))
  BY <1>1, <1>2, <1>3, FlattenCons
<1>6. Stream(ms) = Joined(FieldsOf(ms[1]), Stream(less))
  BY <1>4, <1>5, Zenon DEF Stream, PartsOf
<1>7. QED BY <1>1, <1>6 DEF less

LEMMA StreamEmpty == Stream(<< >>) = << >>
<1> DEFINE ss == [k \in 1 .. Len(<< >>) |-> FieldsOf(<< >>[k])]
<1>1. ss = << >>
  OBVIOUS
<1>2. Stream(<< >>) = Seqs!FlattenSeq(ss)
  BY DEF Stream
<1>3. QED BY <1>1, <1>2, FlattenEmpty, Zenon

-----------------------------------------------------------------------------
(* A step of one process, that of c, to another place or with another pcb; *)
(* each lemma says when a part of the invariant is kept.                   *)
Own(proc) == \A d \in Consolas : proc[d].socket_consola = d
Step(place, proc, c, place2, proc2) ==
  /\ c \in Consolas /\ Own(proc)
  /\ place2 \in [Consolas -> Places] /\ proc2 \in [Consolas -> ConsolaPcbs]
  /\ \A d \in Consolas : d # c => place2[d] = place[d] /\ proc2[d] = proc[d]
  /\ proc2[c].socket_consola = c
  /\ place2[c] \notin Uncreated => proc2[c].instructions = Listing[c]

Moved(place, c, at) == [place EXCEPT ![c] = at]

LEMMA MovedStep ==
  ASSUME NEW place, NEW proc, NEW base, NEW requests, NEW resolved,
         Ghosts(place, proc, base, requests, resolved),
         NEW c \in Consolas, NEW at \in Places, at \in Uncreated \/ place[c] \notin Uncreated
  PROVE  /\ Step(place, proc, c, Moved(place, c, at), proc)
         /\ Moved(place, c, at)[c] = at
         /\ Ghosts(Moved(place, c, at), proc, base, requests, resolved)
<1> DEFINE place2 == Moved(place, c, at)
<1>1. /\ place2 \in [Consolas -> Places] /\ place2[c] = at
      /\ \A d \in Consolas : d # c => place2[d] = place[d]
  BY DEF Moved, Ghosts
<1> HIDE DEF place2
<1>2. /\ proc[c].socket_consola = c /\ proc \in [Consolas -> ConsolaPcbs]
      /\ place2[c] \notin Uncreated => proc[c].instructions = Listing[c]
  BY <1>1 DEF Ghosts
<1>3. Step(place, proc, c, place2, proc)
  BY <1>1, <1>2 DEF Step, Ghosts, Own
<1>4. Ghosts(place2, proc, base, requests, resolved)
  <2>1. \A d \in Consolas : place2[d] \notin Uncreated => proc[d].instructions = Listing[d]
    BY <1>1, <1>2 DEF Ghosts
  <2>2. QED BY <1>1, <2>1 DEF Ghosts
<1>5. QED BY <1>1, <1>3, <1>4 DEF place2

LEMMA MovedWithStep ==
  ASSUME NEW place, NEW proc, NEW base, NEW requests, NEW resolved,
         Ghosts(place, proc, base, requests, resolved),
         NEW c \in Consolas, NEW at \in Places, NEW pcb \in ConsolaPcbs,
         pcb.socket_consola = c, pcb.instructions = Listing[c]
  PROVE  /\ Step(place, proc, c, Moved(place, c, at), Moved(proc, c, pcb))
         /\ Moved(place, c, at)[c] = at /\ Moved(proc, c, pcb)[c] = pcb
         /\ Ghosts(Moved(place, c, at), Moved(proc, c, pcb), base, requests, resolved)
<1> DEFINE place2 == Moved(place, c, at)
           proc2 == Moved(proc, c, pcb)
<1>1. /\ place2 \in [Consolas -> Places] /\ place2[c] = at
      /\ \A d \in Consolas : d # c => place2[d] = place[d]
  BY DEF Moved, Ghosts
<1>2. /\ proc2 \in [Consolas -> ConsolaPcbs] /\ proc2[c] = pcb
      /\ \A d \in Consolas : d # c => proc2[d] = proc[d]
  BY DEF Moved, Ghosts
<1> HIDE DEF place2, proc2
<1>3. Step(place, proc, c, place2, proc2)
  BY <1>1, <1>2 DEF Step, Ghosts, Own
<1>4. Ghosts(place2, proc2, base, requests, resolved)
  <2>1. \A d \in Consolas : /\ proc2[d].socket_consola = d
                            /\ place2[d] \notin Uncreated => proc2[d].instructions = Listing[d]
    <3>1. ASSUME NEW d \in Consolas, d # c
          PROVE  /\ proc2[d].socket_consola = d
                 /\ place2[d] \notin Uncreated => proc2[d].instructions = Listing[d]
      <4>1. place2[d] = place[d] /\ proc2[d] = proc[d]
        BY <1>1, <1>2, <3>1
      <4>2. QED BY <4>1 DEF Ghosts
    <3>2. proc2[c].socket_consola = c /\ proc2[c].instructions = Listing[c]
      BY <1>2
    <3>3. QED BY <3>1, <3>2
  <2>2. QED BY <1>1, <1>2, <2>1 DEF Ghosts
<1>5. QED BY <1>1, <1>2, <1>3, <1>4 DEF place2, proc2

LEMMA IdsKept ==
  ASSUME NEW place, NEW proc, NEW c, NEW place2, NEW proc2, Step(place, proc, c, place2, proc2),
         Ids(place, proc), process_count' = process_count, proc2[c].id = proc[c].id,
         place[c] \in Uncreated <=> place2[c] \in Uncreated
  PROVE  Ids(place2, proc2)'
<1>1. Created(place2) = Created(place)
  BY DEF Step, Created
<1>2. \A d \in Consolas : proc2[d].id = proc[d].id
  BY DEF Step
<1>3. Created(place) \subseteq Consolas
  BY DEF Created
<1>4. QED BY <1>1, <1>2, <1>3 DEF Ids

(* The ready pcbs are those there were, of others, and that of c.          *)
LEMMA ReadyKept ==
  ASSUME NEW place, NEW proc, NEW c, NEW place2, NEW proc2, Step(place, proc, c, place2, proc2),
         InReady(place, proc),
         \A pcb \in ready' : \/ pcb \in ready /\ pcb.socket_consola # c
                             \/ place2[c] = "ready" /\ pcb = proc2[c]
  PROVE  InReady(place2, proc2)'
BY DEF InReady, Step, Own

LEMMA NotReady ==
  ASSUME NEW place, NEW proc, NEW c, InReady(place, proc), place[c] # "ready",
         Own(proc)
  PROVE  \A pcb \in ready : pcb.socket_consola # c
BY DEF InReady, Own

LEMMA IoKept ==
  ASSUME NEW place, NEW proc, NEW c, NEW place2, NEW proc2, Step(place, proc, c, place2, proc2),
         InIo(place, proc),
         \A b \in io' : \/ b \in io /\ b.pcb.socket_consola # c
                        \/ place2[c] \in IoPlaces /\ b = Blocking(proc2[c], place2[c])
  PROVE  InIo(place2, proc2)'
<1>1. ASSUME NEW b \in io'
      PROVE  \E d \in Consolas : place2[d] \in IoPlaces /\ b = Blocking(proc2[d], place2[d])
  <2>1. CASE place2[c] \in IoPlaces /\ b = Blocking(proc2[c], place2[c])
    BY <2>1 DEF Step
  <2>2. CASE b \in io /\ b.pcb.socket_consola # c
    <3>1. PICK d \in Consolas : place[d] \in IoPlaces /\ b = Blocking(proc[d], place[d])
      BY <2>2 DEF InIo
    <3>2. b.pcb = proc[d]
      BY <3>1 DEF Blocking
    <3>3. d # c
      BY <2>2, <3>2 DEF Step, Own
    <3>4. QED BY <3>1, <3>3 DEF Step
  <2>3. QED BY <2>1, <2>2
<1>2. QED BY <1>1 DEF InIo

LEMMA NotInIo ==
  ASSUME NEW place, NEW proc, NEW c, InIo(place, proc), place[c] \notin IoPlaces,
         Own(proc)
  PROVE  \A b \in io : b.pcb.socket_consola # c
<1>1. ASSUME NEW b \in io PROVE b.pcb.socket_consola # c
  <2>1. PICK d \in Consolas : place[d] \in IoPlaces /\ b = Blocking(proc[d], place[d])
    BY DEF InIo
  <2>2. b.pcb = proc[d]
    BY <2>1 DEF Blocking
  <2>3. QED BY <2>1, <2>2 DEF Own
<1>2. QED BY <1>1

LEMMA SchedKept ==
  ASSUME NEW place, NEW proc, NEW c, NEW place2, NEW proc2, Step(place, proc, c, place2, proc2),
         AtSched(place, proc), sched' = sched, place[c] # "finish", place2[c] # "finish"
  PROVE  AtSched(place2, proc2)'
BY DEF AtSched, Step

LEMMA DispatchKept ==
  ASSUME NEW place, NEW proc, NEW c, NEW place2, NEW proc2, Step(place, proc, c, place2, proc2),
         InDispatch(place, proc), UNCHANGED <<sched, to_cpu, from_cpu>>,
         place[c] \notin {"cpu", "back"}
  PROVE  InDispatch(place2, proc2)'
BY DEF InDispatch, Step

LEMMA MainKept ==
  ASSUME NEW known, NEW place, NEW proc, NEW c, NEW place2, NEW proc2, Step(place, proc, c, place2, proc2),
         NEW base, AtMain(known, place, proc, base), main' = main,
         place[c] # "main", place2[c] # "main"
  PROVE  AtMain(known, place2, proc2, base)'
<1>1. CASE main = [at |-> "accept"] /\ \A d \in Consolas : place[d] # "main"
  BY <1>1 DEF AtMain, Step
<1>2. CASE \E m \in Consolas : /\ \A d \in Consolas : place[d] = "main" <=> d = m
                               /\ Creating(known, base, proc[m], m)
  <2>1. PICK m \in Consolas : /\ \A d \in Consolas : place[d] = "main" <=> d = m
                             /\ Creating(known, base, proc[m], m)
    BY <1>2
  <2>2. m # c /\ proc2[m] = proc[m] /\ \A d \in Consolas : place2[d] = "main" <=> d = m
    BY <2>1 DEF Step
  <2>3. Creating(known, base, proc[m], m)'
    BY <2>1 DEF Creating, RowsRead
  <2>4. QED BY <2>2, <2>3 DEF AtMain
<1>3. QED BY <1>1, <1>2 DEF AtMain

LEMMA BacklogKept ==
  ASSUME NEW place, NEW proc, NEW c, NEW place2, NEW proc2, Step(place, proc, c, place2, proc2),
         InBacklog(place), Types, backlog' = backlog, place[c] # "backlog"
  PROVE  InBacklog(place2)'
<1>1. \A k \in 1 .. Len(backlog) : backlog[k] \in Consolas
  BY DEF Types
<1>2. QED BY <1>1 DEF InBacklog, Step

LEMMA RequestsKept ==
  ASSUME NEW known, NEW place, NEW proc, NEW c, NEW place2, NEW proc2, Step(place, proc, c, place2, proc2),
         NEW requests, InRequests(known, place, proc, requests), ~ Pending(known, requests, c),
         to_memoria' = to_memoria,
         \A d \in Consolas : d # c /\ place[d] = "main" => main'.at = main.at
  PROVE  InRequests(known, place2, proc2, requests)'
<1>1. ASSUME NEW k \in 1 .. Len(requests), Tells(known, requests[k])
      PROVE  \E d \in Consolas : requests[k].pcb = proc2[d] /\ Waits(requests[k].op, place2[d])'
  <2>1. PICK d \in Consolas : requests[k].pcb = proc[d] /\ Waits(requests[k].op, place[d])
    BY <1>1 DEF InRequests
  <2>2. d # c
    BY <1>1, <2>1 DEF Pending, Step, Own
  <2>3. place2[d] = place[d] /\ proc2[d] = proc[d]
    BY <2>2 DEF Step
  <2>4. Waits(requests[k].op, place2[d])'
    BY <2>1, <2>2, <2>3 DEF Waits
  <2>5. QED BY <2>1, <2>3, <2>4
<1>2. QED BY <1>1 DEF InRequests

LEMMA NotPending ==
  ASSUME NEW known, NEW place, NEW proc, NEW c, NEW requests, InRequests(known, place, proc, requests),
         place[c] \notin {"main", "finish", "fault"},
         Own(proc)
  PROVE  ~ Pending(known, requests, c)
BY DEF InRequests, Pending, Waits, Own

LEMMA ResolvedKept ==
  ASSUME NEW known, NEW place, NEW proc, NEW c, NEW place2, NEW proc2, Step(place, proc, c, place2, proc2),
         NEW resolved, InResolved(known, place, proc, resolved), page_fault' = page_fault,
         place[c] # "resolved"
  PROVE  InResolved(known, place2, proc2, resolved)'
<1>1. ASSUME NEW k \in 1 .. Len(resolved)
      PROVE  \E d \in Consolas : resolved[k].pcb = proc2[d]
               /\ resolved[k].op = PAGE_FAULT_RESOLVED /\ place2[d] = "resolved"
  <2>1. PICK d \in Consolas : resolved[k].pcb = proc[d]
               /\ resolved[k].op = PAGE_FAULT_RESOLVED /\ place[d] = "resolved"
    BY DEF InResolved
  <2>2. d # c
    BY <2>1
  <2>3. QED BY <2>1, <2>2 DEF Step
<1>2. QED BY <1>1 DEF InResolved

(* The sockets of the other consoles.                                      *)
SocketKept(d) ==
  /\ consola'[d] = consola[d] /\ to_kernel'[d] = to_kernel[d]
  /\ to_consola'[d] = to_consola[d] /\ left'[d] = left[d]
LEMMA TalksKept ==
  ASSUME NEW known, NEW place, NEW proc, NEW c, NEW place2, NEW proc2, Step(place, proc, c, place2, proc2),
         Talks(place, proc), \A d \in Consolas : d # c => SocketKept(d),
         Talk(place2[c], proc2[c], c)'
  PROVE  Talks(place2, proc2)'
<1>1. ASSUME NEW d \in Consolas, d # c PROVE Talk(place2[d], proc2[d], d)'
  <2>1. Talk(place[d], proc[d], d) /\ SocketKept(d)
    BY <1>1 DEF Talks
  <2>2. place2[d] = place[d] /\ proc2[d] = proc[d]
    BY <1>1 DEF Step
  <2>3. Talk(place[d], proc[d], d)'
    BY <2>1 DEF Talk, SocketKept
  <2>4. QED BY <2>2, <2>3
<1>2. QED BY <1>1 DEF Talks

(* The requests of the other processes.                                    *)
OthersPending(known, requests, requests2, c) ==
  \A d \in Consolas : d # c => (Pending(known, requests2, d) <=> Pending(known, requests, d))

LEMMA TablesOfKept ==
  ASSUME NEW known, NEW at, NEW pcb, NEW requests, NEW at2, NEW pcb2, NEW requests2, NEW base, NEW c,
         TablesOf(known, at, pcb, base, requests, c), page_tables' = page_tables,
         pcb2.id = pcb.id, at2 # "main" => pcb2.segment_table = Table(base, c),
         Freed(known, at2, requests2, c) = Freed(known, at, requests, c)
  PROVE  TablesOf(known, at2, pcb2, base, requests2, c)'
<1> DEFINE freed == Freed(known, at, requests, c)
<1>1. /\ base[c] + Len(Segmentos[c]) <= Len(page_tables)
      /\ \A i \in 1 .. Len(page_tables) :
           page_tables[i].pid = pcb.id <=> i \in base[c] + 1 .. base[c] + Len(Segmentos[c])
      /\ \A k \in 1 .. Len(Segmentos[c]) : page_tables[base[c] + k].size = Segmentos[c][k]
                                           /\ page_tables[base[c] + k].freed = freed
  BY Zenon DEF TablesOf
<1> HIDE DEF freed
<1>2. \A k \in 1 .. Len(Segmentos[c]) :
        /\ page_tables'[base[c] + k].size = Segmentos[c][k]
        /\ page_tables'[base[c] + k].freed = Freed(known, at2, requests2, c)
  BY <1>1, Zenon DEF freed
<1>3. /\ base[c] + Len(Segmentos[c]) <= Len(page_tables')
      /\ \A i \in 1 .. Len(page_tables') :
           page_tables'[i].pid = pcb2.id <=> i \in base[c] + 1 .. base[c] + Len(Segmentos[c])
  BY <1>1
<1>4. QED BY <1>2, <1>3, Zenon DEF TablesOf

(* A step of c that leaves the tables as they are.                         *)
TablesStay(known, place, proc, c, place2, proc2, base, requests, requests2) ==
  /\ Step(place, proc, c, place2, proc2) /\ OthersPending(known, requests, requests2, c)
  /\ InTables(known, place, proc, base, requests) /\ page_tables' = page_tables

(* The tables of the others.                                               *)
LEMMA OthersTablesKept ==
  ASSUME NEW known, NEW place, NEW proc, NEW c, NEW place2, NEW proc2, NEW base, NEW requests, NEW requests2,
         TablesStay(known, place, proc, c, place2, proc2, base, requests, requests2),
         known = "all", NEW d \in Created(place2), d # c
  PROVE  IF Built(known, place2[d], requests2, d)
         THEN TablesOf(known, place2[d], proc2[d], base, requests2, d)'
         ELSE \A i \in 1 .. Len(page_tables') : page_tables'[i].pid # proc2[d].id
<1>1. /\ d \in Consolas /\ d \in Created(place) /\ place2[d] = place[d] /\ proc2[d] = proc[d]
      /\ Pending(known, requests2, d) <=> Pending(known, requests, d)
  BY DEF Created, TablesStay, Step, OthersPending
<1>2. Built(known, place2[d], requests2, d) <=> Built(known, place[d], requests, d)
  BY <1>1 DEF Built
<1>3. IF Built(known, place[d], requests, d) THEN TablesOf(known, place[d], proc[d], base, requests, d)
      ELSE \A i \in 1 .. Len(page_tables) : page_tables[i].pid # proc[d].id
  BY <1>1 DEF TablesStay, InTables
<1>4. Freed(known, place2[d], requests2, d) = Freed(known, place[d], requests, d)
  BY <1>1 DEF Freed
<1>5. TablesOf(known, place[d], proc[d], base, requests, d)
        => TablesOf(known, place2[d], proc2[d], base, requests2, d)'
  <2>1. TablesOf(known, place[d], proc[d], base, requests, d)
          => (place2[d] # "main" => proc2[d].segment_table = Table(base, d))
    BY <1>1 DEF TablesOf
  <2>2. page_tables' = page_tables
    BY DEF TablesStay
  <2>3. QED BY <1>1, <1>4, <2>1, <2>2, TablesOfKept
<1>6. page_tables' = page_tables
  BY DEF TablesStay
<1>7. QED BY <1>1, <1>2, <1>3, <1>5, <1>6

(* c has its page tables, before and after.                                *)
LEMMA BuiltKept ==
  ASSUME NEW known, NEW place, NEW proc, NEW c, NEW place2, NEW proc2, Step(place, proc, c, place2, proc2),
         NEW base, NEW requests, NEW requests2, OthersPending(known, requests, requests2, c),
         InTables(known, place, proc, base, requests), UNCHANGED <<page_tables, process_count>>,
         Built(known, place[c], requests, c), Built(known, place2[c], requests2, c),
         proc2[c].id = proc[c].id,
         place2[c] # "main" => proc2[c].segment_table = Table(base, c),
         Freed(known, place2[c], requests2, c) = Freed(known, place[c], requests, c)
  PROVE  InTables(known, place2, proc2, base, requests2)'
<1> SUFFICES ASSUME known = "all" PROVE InTables(known, place2, proc2, base, requests2)'
  BY DEF InTables
<1>1. ASSUME NEW d \in Created(place2)
      PROVE  IF Built(known, place2[d], requests2, d)
             THEN TablesOf(known, place2[d], proc2[d], base, requests2, d)'
             ELSE \A i \in 1 .. Len(page_tables') : page_tables'[i].pid # proc2[d].id
  <2>1. CASE d = c
    <3>1. c \in Created(place)
      BY <2>1 DEF Created, Step, Built
    <3>2. TablesOf(known, place[c], proc[c], base, requests, c)
      BY <3>1 DEF InTables
    <3>3. TablesOf(known, place2[c], proc2[c], base, requests2, c)'
      BY <3>2, TablesOfKept
    <3>4. QED BY <2>1, <3>3
  <2>2. CASE d # c
    <3>1. TablesStay(known, place, proc, c, place2, proc2, base, requests, requests2)
      BY DEF TablesStay
    <3>2. QED BY <2>2, <3>1, OthersTablesKept
  <2>3. QED BY <2>1, <2>2
<1>2. \A i \in 1 .. Len(page_tables') : page_tables'[i].pid \in 1 .. process_count'
  BY DEF InTables
<1>3. QED BY <1>1, <1>2 DEF InTables

LEMMA TablesKept ==
  ASSUME NEW known, NEW place, NEW proc, NEW c, NEW place2, NEW proc2, Step(place, proc, c, place2, proc2),
         NEW base, NEW requests, NEW requests2, OthersPending(known, requests, requests2, c),
         InTables(known, place, proc, base, requests), UNCHANGED <<page_tables, process_count>>,
         place[c] \notin Uncreated \cup {"main"}, place2[c] \notin Uncreated \cup {"main"},
         proc2[c].id = proc[c].id, proc2[c].segment_table = proc[c].segment_table,
         known = "all" =>
           Freed(known, place2[c], requests2, c) = Freed(known, place[c], requests, c)
  PROVE  InTables(known, place2, proc2, base, requests2)'
<1> SUFFICES ASSUME known = "all" PROVE InTables(known, place2, proc2, base, requests2)'
  BY DEF InTables
<1>1. /\ Built(known, place[c], requests, c) /\ Built(known, place2[c], requests2, c)
      /\ c \in Created(place)
  BY DEF Built, Created, Step
<1>2. proc[c].segment_table = Table(base, c)
  BY <1>1 DEF InTables, TablesOf
<1>3. QED BY <1>1, <1>2, BuiltKept

(* c has none, before and after.                                           *)
LEMMA TablesKeptUncreated ==
  ASSUME NEW known, NEW place, NEW proc, NEW c, NEW place2, NEW proc2, Step(place, proc, c, place2, proc2),
         NEW base, NEW requests,
         InTables(known, place, proc, base, requests), UNCHANGED <<page_tables, process_count>>,
         place[c] \in Uncreated, place2[c] \in Uncreated
  PROVE  InTables(known, place2, proc2, base, requests)'
<1>1. \A d \in Created(place2) :
        d \in Created(place) /\ place2[d] = place[d] /\ proc2[d] = proc[d]
  BY DEF Created, Step
<1>2. ASSUME NEW at, NEW pcb, NEW d
      PROVE  TablesOf(known, at, pcb, base, requests, d) => TablesOf(known, at, pcb, base, requests, d)'
  BY DEF TablesOf
<1>3. QED BY <1>1, <1>2 DEF InTables

LEMMA AnswersKept ==
  ASSUME NEW known, NEW place, NEW proc, NEW base, NEW c, NEW requests, NEW requests2, Own(proc),
         OthersPending(known, requests, requests2, c),
         AtMain(known, place, proc, base), AtSched(place, proc), Answers(known, base, requests),
         place[c] \notin {"main", "finish"},
         UNCHANGED <<kernel, main, from_memoria>>,
         sched' = sched \/ (sched.at # "recv_finished" /\ sched'.at # "recv_finished")
  PROVE  Answers(known, base, requests2)'
<1>1. (ToMain(known, base, requests2) = ToMain(known, base, requests)) /\ ToMain(known, base, requests2)' = ToMain(known, base, requests2)
  <2>1. main.at # "accept" => Console \in Consolas /\ Console # c
    BY DEF AtMain, Own, Console, Creating
  <2>2. main.at # "accept" => (Pending(known, requests2, Console) <=> Pending(known, requests, Console))
    BY <2>1 DEF OthersPending
  <2>3. ToMain(known, base, requests2) = ToMain(known, base, requests)
    BY <2>2 DEF ToMain
  <2>4. ToMain(known, base, requests2)' = ToMain(known, base, requests2)
    BY DEF ToMain, Console
  <2>5. QED BY <2>3, <2>4
<1>2. ToSched(known, requests2)' = ToSched(known, requests)
  <2>1. sched.at = "recv_finished" => /\ sched.pcb.socket_consola \in Consolas
                                      /\ sched.pcb.socket_consola # c
    BY DEF AtSched, Own
  <2>2. CASE sched' = sched /\ sched.at = "recv_finished"
    BY <2>1, <2>2 DEF ToSched, OthersPending
  <2>3. CASE sched.at # "recv_finished" /\ sched'.at # "recv_finished"
    BY <2>3 DEF ToSched
  <2>4. QED BY <2>2, <2>3
<1>3. QED BY <1>1, <1>2 DEF Answers

-----------------------------------------------------------------------------
(* The first message of a stream, as its receiver takes it.                *)
OpsDiffer == PROCESS_STARTED # PROCESS_FINISHED /\ PROCESS_STARTED # PAGE_FAULT
               /\ PROCESS_STARTED # PAGE_FAULT_RESOLVED /\ PROCESS_FINISHED # PAGE_FAULT
               /\ PROCESS_FINISHED # PAGE_FAULT_RESOLVED /\ PAGE_FAULT # PAGE_FAULT_RESOLVED
LEMMA OpCodes == OpsDiffer
BY DEF OpsDiffer, PROCESS_STARTED, PROCESS_FINISHED, PAGE_FAULT, PAGE_FAULT_RESOLVED

LEMMA FirstOp ==
  ASSUME NEW ms \in Seq(Request), Stream(ms) # << >>
  PROVE  /\ ms # << >> /\ ms[1] \in Request /\ Tail(ms) \in Seq(Request)
         /\ Stream(Tail(ms)) \in Seq(Field) /\ Body(ms[1]) \in Seq(Field)
         /\ Stream(ms) = Joined(<<ms[1].op>>, Joined(Body(ms[1]), Stream(Tail(ms))))
         /\ Head(Stream(ms)) = ms[1].op
         /\ Tail(Stream(ms)) = Joined(Body(ms[1]), Stream(Tail(ms)))
         /\ Joined(Body(ms[1]), Stream(Tail(ms))) \in Seq(Field)
<1>1. ms # << >>
  BY StreamEmpty, Zenon
<1>2. /\ ms[1] \in Request /\ Tail(ms) \in Seq(Request)
      /\ Stream(ms) = Joined(FieldsOf(ms[1]), Stream(Tail(ms)))
  BY <1>1, StreamHead
<1> DEFINE op == ms[1].op
           front == <<op>>
           body == Body(ms[1])
           more == Stream(Tail(ms))
<1>3. op \in Field /\ body \in Seq(Field)
  BY <1>2, BodyType
<1>4. more \in Seq(Field)
  BY <1>2, StreamType
<1>5. FieldsOf(ms[1]) = Joined(front, body)
  BY DEF FieldsOf
<1> HIDE DEF body, more, op
<1>6. Joined(body, more) \in Seq(Field)
  BY <1>3, <1>4, ConcatFacts DEF Joined
<1>7. /\ front \in Seq(Field)
      /\ Head(Joined(front, Joined(body, more))) = op
      /\ Tail(Joined(front, Joined(body, more))) = Joined(body, more)
  BY <1>3, <1>6, OneFirst
<1> HIDE DEF front
<1>8. Joined(Joined(front, body), more) = Joined(front, Joined(body, more))
  BY <1>3, <1>4, <1>7, JoinedAssoc
<1>9. Stream(ms) = Joined(front, Joined(body, more))
  BY <1>2, <1>5, <1>8, Zenon DEF body, more
<1>10. QED BY <1>1, <1>2, <1>3, <1>4, <1>6, <1>7, <1>9 DEF front, body, more, op

LEMMA FirstPcb ==
  ASSUME NEW ms \in Seq(Request), Stream(ms) # << >>,
         ms[1].op = PROCESS_FINISHED \/ ms[1].op = PAGE_FAULT_RESOLVED
  PROVE  RecvPcb(Tail(Stream(ms))) = Got(ms[1].pcb, Stream(Tail(ms)))
<1>1. Body(ms[1]) = AddPcb(ms[1].pcb)
  BY OpCodes DEF Body, OpsDiffer
<1>2. ms[1].pcb \in ConsolaPcbs /\ Stream(Tail(ms)) \in Seq(Field)
      /\ Tail(Stream(ms)) = Joined(Body(ms[1]), Stream(Tail(ms)))
  BY FirstOp DEF Request
<1>3. QED BY <1>1, <1>2, PcbIn

LEMMA FirstPageFault ==
  ASSUME NEW ms \in Seq(Request), Stream(ms) # << >>, ms[1].op = PAGE_FAULT
  PROVE  LET got == RecvPcb(Tail(Stream(ms)))
         IN got.value = ms[1].pcb /\ SubSeq(got.rest, 3, Len(got.rest)) = Stream(Tail(ms))
<1> DEFINE more == Stream(Tail(ms))
           pcb == ms[1].pcb
           pages == <<0, 1>>
<1>1. Body(ms[1]) = Joined(AddPcb(pcb), pages)
  BY OpCodes DEF Body, OpsDiffer
<1>2. pcb \in ConsolaPcbs /\ more \in Seq(Field)
      /\ Tail(Stream(ms)) = Joined(Body(ms[1]), more)
  BY FirstOp DEF Request
<1> HIDE DEF more, pcb
<1>3. /\ pages \in Seq(Field)
      /\ SubSeq(Joined(pages, more), 3, Len(Joined(pages, more))) = more
  <2>1. 0 \in Field /\ 1 \in Field
    BY NumbersAreFields
  <2>2. QED BY <1>2, <2>1, TwoFirst
<1> HIDE DEF pages
<1>4. Joined(pages, more) \in Seq(Field)
  BY <1>2, <1>3, ConcatFacts DEF Joined
<1>5. AddPcb(pcb) \in Seq(Field)
      /\ RecvPcb(Joined(AddPcb(pcb), Joined(pages, more))) = Got(pcb, Joined(pages, more))
  BY <1>2, <1>4, PcbIn
<1>6. Joined(Joined(AddPcb(pcb), pages), more) = Joined(AddPcb(pcb), Joined(pages, more))
  BY <1>2, <1>3, <1>5, JoinedAssoc
<1>7. RecvPcb(Tail(Stream(ms))) = Got(pcb, Joined(pages, more))
  BY <1>1, <1>2, <1>5, <1>6, Zenon
<1>8. Got(pcb, Joined(pages, more)).value = pcb
      /\ Got(pcb, Joined(pages, more)).rest = Joined(pages, more)
  BY DEF Got
<1>9. QED BY <1>3, <1>7, <1>8 DEF more, pcb

LEMMA SecondOf ==
  ASSUME NEW F, NEW a \in F, NEW b \in F, NEW t \in Seq(F)
  PROVE  LET s == Joined(<<a>>, Joined(<<b>>, t))
         IN s[2] = b /\ SubSeq(s, 3, Len(s)) = t
BY DEF Joined

LEMMA FirstStarted ==
  ASSUME NEW ms \in Seq(Request), Stream(ms) # << >>, ms[1].op = PROCESS_STARTED
  PROVE  /\ Stream(ms)[2] = ms[1].pcb.id
         /\ RecvSegments(SubSeq(Stream(ms), 3, Len(Stream(ms))))
              = Got(Segmentos[ms[1].pcb.socket_consola], Stream(Tail(ms)))
<1> DEFINE more == Stream(Tail(ms))
           pid == ms[1].pcb.id
           op == ms[1].op
           sizes == Segmentos[ms[1].pcb.socket_consola]
           one == <<pid>>
           count == Joined(<<Len(sizes)>>, sizes)
           first == <<op>>
<1>1. Body(ms[1]) = Joined(one, count)
  BY OpCodes DEF Body, OpsDiffer
<1>2. /\ pid \in Int /\ sizes \in Seq(Int) /\ more \in Seq(Field) /\ op \in Field
      /\ Stream(ms) = Joined(<<op>>, Joined(Body(ms[1]), more))
  BY FirstOp, ProgramTypes, BodyType DEF Request, ConsolaPcbs, Pcbs
<1>3. pid \in Field
  BY <1>2, NumbersAreFields
<1> HIDE DEF more, pid, op, sizes
<1>4. count \in Seq(Field) /\ RecvSegments(Joined(count, more)) = Got(sizes, more)
  BY <1>2, FieldIsField, SizesTrip
<1> HIDE DEF count
<1>5. Joined(count, more) \in Seq(Field)
  BY <1>2, <1>4, ConcatFacts DEF Joined
<1>6. first \in Seq(Field) /\ one \in Seq(Field)
  BY <1>2, <1>3
<1>7. Stream(ms) = Joined(first, Joined(one, Joined(count, more)))
  <2>1. Stream(ms) = Joined(first, Joined(Joined(one, count), more))
    BY <1>1, <1>2
  <2> HIDE DEF first, one
  <2>2. Joined(Joined(one, count), more) = Joined(one, Joined(count, more))
    BY <1>2, <1>4, <1>6, JoinedAssoc
  <2>3. QED BY <2>1, <2>2, Zenon
<1>8. /\ Stream(ms)[2] = pid
      /\ SubSeq(Stream(ms), 3, Len(Stream(ms))) = Joined(count, more)
  <2> DEFINE t == Joined(count, more)
             u == Joined(<<op>>, Joined(<<pid>>, t))
  <2>1. t \in Seq(Field) /\ Stream(ms) = u
    BY <1>5, <1>7
  <2> HIDE DEF t
  <2>2. u[2] = pid /\ SubSeq(u, 3, Len(u)) = t
    <3>1. op \in Field /\ pid \in Field
      BY <1>2, <1>3
    <3>2. QED BY <2>1, <3>1, SecondOf, Zenon
  <2> HIDE DEF u
  <2>3. QED BY <2>1, <2>2 DEF t
<1>9. QED BY <1>4, <1>8 DEF more, pid, sizes

-----------------------------------------------------------------------------
(* One message more, and one less.                                         *)
LEMMA MorePending ==
  ASSUME NEW known, NEW ms \in Seq(Request), NEW m \in Request, OnePerConsole(known, ms),
         ~ Pending(known, ms, m.pcb.socket_consola)
  PROVE  LET ms2 == Append(ms, m)
         IN /\ ms2 \in Seq(Request) /\ OnePerConsole(known, ms2)
            /\ Tells(known, m) => Pending(known, ms2, m.pcb.socket_consola)
            /\ OthersPending(known, ms, ms2, m.pcb.socket_consola)
            /\ Len(ms2) = Len(ms) + 1 /\ ms2[Len(ms) + 1] = m
            /\ \A k \in 1 .. Len(ms) : ms2[k] = ms[k]
<1> DEFINE ms2 == Append(ms, m)
           n == Len(ms)
<1>1. /\ n \in Nat /\ ms2 \in Seq(Request) /\ Len(ms2) = n + 1 /\ ms2[n + 1] = m
      /\ \A k \in 1 .. n : ms2[k] = ms[k]
  OBVIOUS
<1> HIDE DEF ms2
<1>2. OnePerConsole(known, ms2)
  BY <1>1 DEF OnePerConsole, Pending
<1>3. Tells(known, m) => Pending(known, ms2, m.pcb.socket_consola)
  BY <1>1 DEF Pending
<1>4. OthersPending(known, ms, ms2, m.pcb.socket_consola)
  BY <1>1 DEF Pending, OthersPending
<1>5. QED BY <1>1, <1>2, <1>3, <1>4 DEF ms2

LEMMA LessPending ==
  ASSUME NEW known, NEW ms \in Seq(Request), ms # << >>, OnePerConsole(known, ms)
  PROVE  LET ms2 == Tail(ms)
         IN /\ ms2 \in Seq(Request) /\ OnePerConsole(known, ms2)
            /\ Tells(known, ms[1]) => /\ Pending(known, ms, ms[1].pcb.socket_consola)
                                      /\ ~ Pending(known, ms2, ms[1].pcb.socket_consola)
            /\ OthersPending(known, ms, ms2, ms[1].pcb.socket_consola)
            /\ \A k \in 1 .. Len(ms2) : ms2[k] = ms[k + 1] /\ k + 1 \in 1 .. Len(ms)
<1> DEFINE ms2 == Tail(ms)
           n == Len(ms2)
<1>1. /\ n \in Nat /\ ms2 \in Seq(Request) /\ Len(ms) = n + 1
      /\ \A k \in 1 .. n : ms2[k] = ms[k + 1]
  OBVIOUS
<1> HIDE DEF ms2
<1>2. OnePerConsole(known, ms2)
  BY <1>1 DEF OnePerConsole
<1>3. Tells(known, ms[1]) => Pending(known, ms, ms[1].pcb.socket_consola)
  BY <1>1 DEF Pending
<1>4. Tells(known, ms[1]) => ~ Pending(known, ms2, ms[1].pcb.socket_consola)
  BY <1>1 DEF Pending, OnePerConsole
<1>5. OthersPending(known, ms, ms2, ms[1].pcb.socket_consola)
  <2>1. ASSUME NEW d, d # ms[1].pcb.socket_consola, Pending(known, ms, d)
        PROVE  Pending(known, ms2, d)
    <3>1. PICK k \in 1 .. Len(ms) : Tells(known, ms[k]) /\ ms[k].pcb.socket_consola = d
      BY <2>1 DEF Pending
    <3>2. k # 1 /\ k - 1 \in 1 .. n /\ k - 1 + 1 = k
      BY <1>1, <2>1, <3>1
    <3>3. ms2[k - 1] = ms[k]
      BY <1>1, <3>2
    <3>4. QED BY <3>1, <3>2, <3>3 DEF Pending
  <2>2. ASSUME NEW d, Pending(known, ms2, d) PROVE Pending(known, ms, d)
    <3>1. PICK k \in 1 .. n : Tells(known, ms2[k]) /\ ms2[k].pcb.socket_consola = d
      BY <2>2 DEF Pending
    <3>2. k + 1 \in 1 .. Len(ms) /\ ms[k + 1] = ms2[k]
      BY <1>1
    <3>3. QED BY <3>1, <3>2 DEF Pending
  <2>3. QED BY <2>1, <2>2 DEF OthersPending
<1>6. QED BY <1>1, <1>2, <1>3, <1>4, <1>5 DEF ms2

-----------------------------------------------------------------------------
(* The segment table on its way to the main thread.                        *)
LEMMA SameSeq ==
  ASSUME NEW F, NEW s \in Seq(F), NEW t \in Seq(F), Len(s) = Len(t),
         \A i \in 1 .. Len(s) : s[i] = t[i]
  PROVE  s = t
OBVIOUS

LEMMA OneByOne ==
  ASSUME NEW F, NEW a \in F, NEW b \in F, NEW t \in Seq(F)
  PROVE  Joined(<<a, b>>, t) = Joined(<<a>>, Joined(<<b>>, t))
<1> DEFINE u == <<a, b>> \o t
           v == <<a>> \o (<<b>> \o t)
<1>1. u \in Seq(F) /\ v \in Seq(F) /\ Len(u) = Len(v)
  OBVIOUS
<1>2. \A i \in 1 .. Len(u) : u[i] = v[i]
  OBVIOUS
<1>3. u = v
  <2> HIDE DEF u, v
  <2>1. QED BY <1>1, <1>2, SameSeq
<1>4. QED BY <1>3 DEF Joined

RowParts(base, c, k) ==
  [j \in 1 .. Len(Segmentos[c]) - k |-> AddSegment(Table(base, c)[k + j])]

LEMMA RowsAre ==
  ASSUME NEW base \in [Consolas -> Nat], NEW c \in Consolas, NEW k \in 0 .. Len(Segmentos[c])
  PROVE  /\ RowParts(base, c, k) \in Parts(Field, Len(Segmentos[c]) - k)
         /\ Rows(base, c, k) = Seqs!FlattenSeq(RowParts(base, c, k))
         /\ Rows(base, c, k) \in Seq(Field)
<1> DEFINE n == Len(Segmentos[c])
           table == Table(base, c)
           sub == SubSeq(table, k + 1, n)
<1>1. n \in Nat /\ table \in SegmentTables /\ Len(table) = n
  BY ProgramTypes, TableFacts
<1>2. \A j \in 1 .. n : AddSegment(table[j]) \in Seq(Field)
  <2>1. ASSUME NEW j \in 1 .. n PROVE AddSegment(table[j]) \in Seq(Field)
    <3> DEFINE a == table[j].size
               b == table[j].page_table_index
    <3>1. a \in Int /\ b \in Int
      <4> HIDE DEF table, n
      <4>1. table[j] \in SegmentRows
        BY <1>1 DEF SegmentTables
      <4>2. QED BY <4>1 DEF SegmentRows
    <3>2. a \in Field /\ b \in Field
      BY <3>1, NumbersAreFields
    <3> HIDE DEF a, b
    <3>3. <<a, b>> \in Seq(Field)
      BY <3>2
    <3>4. QED BY <3>3 DEF AddSegment, a, b
  <2>2. QED BY <2>1
<1> HIDE DEF table, n
<1>3. /\ DOMAIN sub = 1 .. n - k
      /\ \A j \in 1 .. n - k : sub[j] = table[k + j]
  BY <1>1 DEF SegmentTables, n
<1> DEFINE parts == [j \in 1 .. n - k |-> AddSegment(table[k + j])]
<1>4. parts \in Parts(Field, n - k) /\ n - k \in Nat
  BY <1>1, <1>2 DEF Parts, n
<1>5. [j \in DOMAIN sub |-> AddSegment(sub[j])] = parts
  BY <1>3
<1>6. RowParts(base, c, k) = parts
  BY DEF RowParts, n, table
<1>7. Rows(base, c, k) = Seqs!FlattenSeq([j \in DOMAIN sub |-> AddSegment(sub[j])])
  BY DEF Rows, AddEach, n, table
<1> HIDE DEF parts, sub
<1>8. Seqs!FlattenSeq(parts) \in Seq(Field)
  BY <1>4, FlattenType
<1>9. QED BY <1>4, <1>5, <1>6, <1>7, <1>8 DEF n

LEMMA NoRowLeft ==
  ASSUME NEW base \in [Consolas -> Nat], NEW c \in Consolas
  PROVE  Rows(base, c, Len(Segmentos[c])) = << >>
<1> DEFINE n == Len(Segmentos[c])
<1>1. n \in 0 .. Len(Segmentos[c])
  BY ProgramTypes
<1>2. Rows(base, c, n) = Seqs!FlattenSeq(RowParts(base, c, n))
  BY <1>1, RowsAre
<1>3. RowParts(base, c, n) = << >>
  BY <1>1 DEF RowParts
<1>4. QED BY <1>2, <1>3, FlattenEmpty, Zenon

LEMMA FirstRow ==
  ASSUME NEW base \in [Consolas -> Nat], NEW c \in Consolas,
         NEW k \in 0 .. Len(Segmentos[c]) - 1
  PROVE  Rows(base, c, k)
           = Joined(<<Segmentos[c][k + 1]>>, Joined(<<base[c] + k>>, Rows(base, c, k + 1)))
<1> DEFINE n == Len(Segmentos[c])
           m == n - (k + 1)
           a == Segmentos[c][k + 1]
           b == base[c] + k
           rest == Rows(base, c, k + 1)
<1>1. /\ n \in Nat /\ m \in Nat /\ k \in 0 .. n /\ k + 1 \in 0 .. n /\ k + 1 \in 1 .. n
      /\ n - k = m + 1
  BY ProgramTypes
<1>2. a \in Field /\ b \in Field
  <2>1. a \in Int /\ b \in Int
    BY <1>1, ProgramTypes
  <2>2. QED BY <2>1, NumbersAreFields
<1>3. /\ RowParts(base, c, k) \in Parts(Field, m + 1)
      /\ Rows(base, c, k) = Seqs!FlattenSeq(RowParts(base, c, k))
  BY <1>1, RowsAre
<1>4. /\ RowParts(base, c, k + 1) \in Parts(Field, m)
      /\ rest = Seqs!FlattenSeq(RowParts(base, c, k + 1)) /\ rest \in Seq(Field)
  BY <1>1, RowsAre
<1>5. \A j \in 1 .. m : RowParts(base, c, k)[j + 1] = RowParts(base, c, k + 1)[j]
  <2>1. ASSUME NEW j \in 1 .. m
        PROVE  RowParts(base, c, k)[j + 1] = RowParts(base, c, k + 1)[j]
    <3>1. j + 1 \in 1 .. n - k /\ j \in 1 .. n - (k + 1) /\ k + (j + 1) = k + 1 + j
      BY <1>1
    <3>2. QED BY <3>1 DEF RowParts
  <2>2. QED BY <2>1
<1>6. RowParts(base, c, k)[1] = <<a, b>>
  <2>1. 1 \in 1 .. n - k
    BY <1>1
  <2>2. base[c] + (k + 1) - 1 = b
    OBVIOUS
  <2>3. Table(base, c)[k + 1] = [size |-> a, page_table_index |-> base[c] + (k + 1) - 1]
    BY <1>1, TableFacts
  <2>4. QED BY <2>1, <2>2, <2>3 DEF RowParts, AddSegment
<1> DEFINE parts == RowParts(base, c, k)
           less == RowParts(base, c, k + 1)
<1> HIDE DEF parts, less, rest, m, a, b
<1>7. Seqs!FlattenSeq(parts) = Joined(parts[1], Seqs!FlattenSeq(less))
  BY <1>1, <1>3, <1>4, <1>5, FlattenCons DEF parts, less
<1>8. Rows(base, c, k) = Joined(<<a, b>>, rest)
  BY <1>3, <1>4, <1>6, <1>7, Zenon DEF parts, less
<1>9. Joined(<<a, b>>, rest) = Joined(<<a>>, Joined(<<b>>, rest))
  BY <1>2, <1>4, OneByOne
<1>10. QED BY <1>8, <1>9, Zenon DEF a, b, rest

LEMMA TableSent ==
  ASSUME NEW base \in [Consolas -> Nat], NEW c \in Consolas
  PROVE  /\ AddSegmentTable(Table(base, c)) = Joined(<<Len(Segmentos[c])>>, Rows(base, c, 0))
         /\ AddSegmentTable(Table(base, c)) \in Seq(Field)
<1> DEFINE table == Table(base, c)
<1>1. table \in SegmentTables /\ Len(table) = Len(Segmentos[c]) /\ Len(Segmentos[c]) \in Nat
  BY TableFacts, ProgramTypes
<1>2. SubSeq(table, 0 + 1, Len(Segmentos[c])) = table
  <2> HIDE DEF table
  <2>1. QED BY <1>1 DEF SegmentTables
<1>3. Rows(base, c, 0) = AddEach(AddSegment, table)
  BY <1>2 DEF Rows
<1>4. AddSegmentTable(table) = Joined(<<Len(Segmentos[c])>>, Rows(base, c, 0))
  BY <1>1, <1>3 DEF AddSegmentTable, Joined
<1>5. AddSegmentTable(table) \in Seq(Field)
  <2>1. << >> \in Seq(Field)
    OBVIOUS
  <2>2. QED BY <1>1, <2>1, FieldIsField, SegmentTableTrip
<1>6. QED BY <1>4, <1>5

-----------------------------------------------------------------------------
(* The inductive invariant, and its steps: those of the consoles.          *)
Kept(known) ==
  \E place, proc, base, requests, resolved : Whole(known, place, proc, base, requests, resolved)

LEMMA SocketTypes ==
  ASSUME NEW F, NEW socket \in [Consolas -> Seq(F)], NEW c \in Consolas, NEW message \in Seq(F)
  PROVE  /\ Send(socket, c, message) \in [Consolas -> Seq(F)]
         /\ Send(socket, c, message)[c] = Joined(socket[c], message)
         /\ \A d \in Consolas : d # c => Send(socket, c, message)[d] = socket[d]
<1>1. socket[c] \o message \in Seq(F)
  OBVIOUS
<1>2. QED BY <1>1 DEF Send, Joined

(* Whether its tables are freed changes only when its process finishes.    *)
LEMMA FreedIs ==
  ASSUME NEW known, NEW at, NEW at2, NEW requests, NEW requests2, NEW c,
         at # "finish" \/ Pending(known, requests, c), at2 # "finish" \/ Pending(known, requests2, c),
         at \in {"told_exit", "ended"} <=> at2 \in {"told_exit", "ended"}
  PROVE  Freed(known, at2, requests2, c) = Freed(known, at, requests, c)
BY DEF Freed

(* The steps of a console, which only its sockets and its place see.       *)
LEMMA ConsolaMoves ==
  ASSUME NEW known, NEW place, NEW proc, NEW base, NEW requests, NEW resolved,
         Whole(known, place, proc, base, requests, resolved),
         NEW c \in Consolas, NEW at \in Places,
         \/ place[c] = "start" /\ at = "backlog"
         \/ place[c] = "asked_teclado" /\ at = "answered_teclado"
         \/ place[c] = "asked_pantalla" /\ at = "answered_pantalla"
         \/ place[c] = "told_fault" /\ at = "killed"
         \/ place[c] = "told_exit" /\ at = "ended",
         UNCHANGED <<kernel, main, process_count, sched, queues, dispatch, memoria>>,
         Types', InBacklog(Moved(place, c, at))', \A d \in Consolas : d # c => SocketKept(d),
         Talk(at, proc[c], c)'
  PROVE  Kept(known)'
<1> DEFINE place2 == Moved(place, c, at)
<1>1. /\ Ghosts(place, proc, base, requests, resolved) /\ Ids(place, proc)
      /\ InReady(place, proc) /\ InIo(place, proc) /\ AtSched(place, proc)
      /\ InDispatch(place, proc) /\ AtMain(known, place, proc, base) /\ InBacklog(place)
      /\ InRequests(known, place, proc, requests) /\ InResolved(known, place, proc, resolved)
      /\ Talks(place, proc) /\ InTables(known, place, proc, base, requests)
      /\ Answers(known, base, requests) /\ Own(proc)
  BY DEF Whole, Ghosts, Own
<1>2. /\ Step(place, proc, c, place2, proc) /\ place2[c] = at
      /\ Ghosts(place2, proc, base, requests, resolved)
  BY <1>1, MovedStep DEF Uncreated
<1> HIDE DEF place2
<1>3. /\ UNCHANGED <<kernel, main, process_count, sched, ready, io, to_cpu, from_cpu>>
      /\ UNCHANGED <<to_memoria, from_memoria, page_fault, page_tables>>
  BY DEF queues, dispatch, memoria
<1>4. /\ place[c] \notin {"ready", "finish", "cpu", "back", "main", "fault", "resolved"}
      /\ at \notin {"ready", "finish", "cpu", "back", "main", "fault", "resolved"}
      /\ place[c] \in Uncreated <=> at \in Uncreated
  BY DEF Uncreated
<1>5. OthersPending(known, requests, requests, c)
  BY DEF OthersPending
<1>6. Ids(place2, proc)'
  BY <1>1, <1>2, <1>3, <1>4, IdsKept
<1>7. InReady(place2, proc)'
  BY <1>1, <1>2, <1>3, <1>4, NotReady, ReadyKept
<1>8. InIo(place2, proc)'
  <2>1. CASE place[c] \notin IoPlaces
    BY <1>1, <1>2, <1>3, <2>1, NotInIo, IoKept
  <2>2. CASE place[c] \in IoPlaces
    <3>1. at \in IoPlaces /\ Device(at) = Device(place[c]) /\ at \notin IoAsk
          /\ place[c] \notin IoAsk
      BY <2>2 DEF IoPlaces, IoAsk, Device
    <3>2. Blocking(proc[c], at) = Blocking(proc[c], place[c])
      BY <3>1 DEF Blocking
    <3>3. \A b \in io' : \/ b \in io /\ b.pcb.socket_consola # c
                         \/ place2[c] \in IoPlaces /\ b = Blocking(proc[c], place2[c])
      <4>1. ASSUME NEW b \in io'
            PROVE  \/ b \in io /\ b.pcb.socket_consola # c
                   \/ place2[c] \in IoPlaces /\ b = Blocking(proc[c], place2[c])
        <5>1. PICK d \in Consolas : place[d] \in IoPlaces /\ b = Blocking(proc[d], place[d])
          BY <1>1, <1>3 DEF InIo
        <5>2. b \in io /\ b.pcb.socket_consola = d
          BY <1>1, <1>3, <5>1 DEF Blocking, Own
        <5>3. QED BY <1>2, <3>1, <3>2, <5>1, <5>2
      <4>2. QED BY <4>1
    <3>4. QED BY <1>1, <1>2, <3>3, IoKept
  <2>3. QED BY <2>1, <2>2
<1>9. AtSched(place2, proc)'
  BY <1>1, <1>2, <1>3, <1>4, SchedKept
<1>10. InDispatch(place2, proc)'
  BY <1>1, <1>2, <1>3, <1>4, DispatchKept
<1>11. AtMain(known, place2, proc, base)'
  BY <1>1, <1>2, <1>3, <1>4, MainKept
<1>12. InRequests(known, place2, proc, requests)'
  BY <1>1, <1>2, <1>3, <1>4, NotPending, RequestsKept
<1>13. InResolved(known, place2, proc, resolved)'
  BY <1>1, <1>2, <1>3, <1>4, ResolvedKept
<1>14. Talks(place2, proc)'
  BY <1>1, <1>2, TalksKept
<1>15. InTables(known, place2, proc, base, requests)'
  <2>1. CASE place[c] \in Uncreated
    BY <1>1, <1>2, <1>3, <1>4, <2>1, TablesKeptUncreated
  <2>2. CASE place[c] \notin Uncreated
    <3>1. at \in {"told_exit", "ended"} <=> place[c] \in {"told_exit", "ended"}
      OBVIOUS
    <3>2. Freed(known, place2[c], requests, c) = Freed(known, place[c], requests, c)
      BY <1>2, <1>4, <3>1, FreedIs
    <3>3. QED BY <1>1, <1>2, <1>3, <1>4, <1>5, <2>2, <3>2, TablesKept
  <2>3. QED BY <2>1, <2>2
<1>17. Answers(known, base, requests)'
  BY <1>1, <1>3, <1>4, <1>5, AnswersKept
<1>18. Whole(known, place2, proc, base, requests, resolved)'
  BY <1>2, <1>6, <1>7, <1>8, <1>9, <1>10, <1>11, <1>12, <1>13, <1>14, <1>15, <1>17
     DEF Whole, place2
<1>19. QED BY <1>18 DEF Kept

(* No process moves: at most a console fails or the kernel exits.          *)
LEMMA NothingMoves ==
  ASSUME NEW known, NEW place, NEW proc, NEW base, NEW requests, NEW resolved,
         Whole(known, place, proc, base, requests, resolved),
         UNCHANGED <<backlog, to_kernel, to_consola, main, process_count, sched, ready, io,
                     to_cpu, from_cpu, to_memoria, page_fault, page_tables, left>>,
         \/ UNCHANGED consola
         \/ \E c \in Consolas : /\ consola[c] = "start"
                                /\ consola' = [consola EXCEPT ![c] = "failed"],
         (kernel' = "down" /\ from_memoria' \in Seq(Int)) \/ UNCHANGED <<kernel, from_memoria>>
  PROVE  Kept(known)'
<1>1. /\ Ghosts(place, proc, base, requests, resolved) /\ Types
      /\ InTables(known, place, proc, base, requests) /\ Answers(known, base, requests)
  BY DEF Whole
<1>2. Types'
  BY <1>1 DEF Types
<1>3. Ids(place, proc)' /\ InReady(place, proc)' /\ InIo(place, proc)' /\ InBacklog(place)'
  BY DEF Whole, Ids, InReady, InIo, InBacklog
<1>4. AtSched(place, proc)' /\ InDispatch(place, proc)'
  BY DEF Whole, AtSched, InDispatch
<1>5. AtMain(known, place, proc, base)'
  BY DEF Whole, AtMain, Creating, RowsRead
<1>6. InRequests(known, place, proc, requests)' /\ InResolved(known, place, proc, resolved)'
  BY DEF Whole, InRequests, InResolved, Waits
<1>7. Talks(place, proc)'
  <2>1. ASSUME NEW d \in Consolas PROVE Talk(place[d], proc[d], d)'
    <3>1. Talk(place[d], proc[d], d)
      BY DEF Whole, Talks
    <3>2. \/ consola'[d] = consola[d]
          \/ consola[d] = "start" /\ consola'[d] = "failed"
      BY <1>1 DEF Types
    <3>3. QED BY <3>1, <3>2 DEF Talk
  <2>2. QED BY <2>1 DEF Talks
<1>8. InTables(known, place, proc, base, requests)'
  <2>1. ASSUME NEW at, NEW pcb, NEW d
        PROVE  TablesOf(known, at, pcb, base, requests, d) => TablesOf(known, at, pcb, base, requests, d)'
    BY DEF TablesOf
  <2>2. QED BY <1>1, <2>1 DEF InTables
<1>10. Answers(known, base, requests)'
  <2>1. CASE kernel' = "down"
    BY <2>1 DEF Answers
  <2>2. CASE UNCHANGED <<kernel, from_memoria>>
    <3>1. ToMain(known, base, requests)' = ToMain(known, base, requests)
          /\ ToSched(known, requests)' = ToSched(known, requests)
      BY DEF ToMain, ToSched, Console
    <3>2. QED BY <1>1, <2>2, <3>1 DEF Answers
  <2>3. QED BY <2>1, <2>2
<1>11. Whole(known, place, proc, base, requests, resolved)'
  BY <1>1, <1>2, <1>3, <1>4, <1>5, <1>6, <1>7, <1>8, <1>10 DEF Whole
<1>12. QED BY <1>11 DEF Kept

LEMMA TailTwo ==
  ASSUME NEW F, NEW a \in F, NEW b \in F, NEW t \in Seq(F)
  PROVE  Tail(<<a, b>> \o t) = Joined(<<b>>, t)
<1> DEFINE u == Tail(<<a, b>> \o t)
           v == <<b>> \o t
<1>1. u \in Seq(F) /\ v \in Seq(F) /\ Len(u) = Len(v)
  OBVIOUS
<1>2. \A i \in 1 .. Len(u) : u[i] = v[i]
  OBVIOUS
<1>3. u = v
  <2> HIDE DEF u, v
  <2>1. QED BY <1>1, <1>2, SameSeq
<1>4. QED BY <1>3 DEF Joined

(* What a console sends first.                                             *)
LEMMA ProgramSent ==
  ASSUME NEW c \in Consolas
  PROVE  LET sent == Joined(AddInstructions(Listing[c]), AddSegments(Segmentos[c]))
         IN /\ sent \in Seq(Field)
            /\ RecvInstructions(sent) = Got(Listing[c], AddSegments(Segmentos[c]))
            /\ RecvSegments(Tail(AddSegments(Segmentos[c]))) = Got(Segmentos[c], << >>)
<1> DEFINE sizes == Segmentos[c]
           n == Len(sizes)
           empty == << >>
           count == Joined(<<n>>, sizes)
           lines == AddInstructions(Listing[c])
           behind == AddSegments(sizes)
<1>1. Listing[c] \in Listings(Field) /\ sizes \in Seq(Int) /\ n \in Int
  BY ProgramTypes
<1> HIDE DEF sizes
<1>2. empty \in Seq(Field) /\ n \in Field /\ SEGMENTS \in Field /\ sizes \in Seq(Field)
  BY <1>1, NumbersAreFields
<1>3. behind \in Seq(Field) /\ Tail(behind) = count
  <2>1. <<SEGMENTS, n>> \in Seq(Field)
    BY <1>2
  <2>2. behind \in Seq(Field)
    BY <1>2, <2>1 DEF AddSegments
  <2>3. Tail(behind) = count
    BY <1>2, TailTwo DEF AddSegments
  <2>4. QED BY <2>2, <2>3
<1> HIDE DEF empty, behind
<1>4. count \in Seq(Field) /\ RecvSegments(Joined(count, empty)) = Got(sizes, empty)
  BY <1>1, <1>2, FieldIsField, SizesTrip
<1> HIDE DEF count
<1>5. Joined(count, empty) = count
  BY <1>4, ConcatFacts DEF Joined, empty
<1>6. lines \in Seq(Field) /\ RecvInstructions(Joined(lines, behind)) = Got(Listing[c], behind)
  BY <1>1, <1>3, FieldIsField, ListingTrip
<1> HIDE DEF lines
<1>7. Joined(lines, behind) \in Seq(Field)
  BY <1>3, <1>6, ConcatFacts DEF Joined
<1>8. QED BY <1>3, <1>4, <1>5, <1>6, <1>7, Zenon DEF lines, behind, sizes, empty

(* start to backlog: its program and its segments are in its socket.       *)
LEMMA ConsolaStartKeeps ==
  ASSUME NEW known, NEW place, NEW proc, NEW base, NEW requests, NEW resolved,
         Whole(known, place, proc, base, requests, resolved),
         NEW c \in Consolas, ConsolaStart(c)
  PROVE  Kept(known)'
<1>1. /\ consola[c] = "start"
      /\ UNCHANGED <<kernel, to_consola, main, process_count, sched, queues, dispatch,
                     memoria, left>>
  BY DEF ConsolaStart
<1>2. PICK text \in Texts[c] :
        IF Parse(text).ok
        THEN /\ consola' = [consola EXCEPT ![c] = "waiting"]
             /\ backlog' = Append(backlog, c)
             /\ to_kernel' = Send(to_kernel, c, AddInstructions(Parse(text).list)
                                                  \o AddSegments(Segmentos[c]))
        ELSE /\ consola' = [consola EXCEPT ![c] = "failed"]
             /\ UNCHANGED <<backlog, to_kernel>>
  BY DEF ConsolaStart
<1>3. CASE ~ Parse(text).ok
  BY <1>1, <1>2, <1>3, NothingMoves DEF queues, dispatch, memoria
<1>4. CASE Parse(text).ok
  <2> DEFINE sent == Joined(AddInstructions(Listing[c]), AddSegments(Segmentos[c]))
  <2>1. Parse(text).list = Listing[c]
    BY <1>4, SocketsAssumption
  <2>2. /\ consola' = [consola EXCEPT ![c] = "waiting"]
        /\ backlog' = Append(backlog, c)
        /\ to_kernel' = Send(to_kernel, c, sent)
    BY <1>2, <1>4, <2>1 DEF Joined
  <2>3. sent \in Seq(Field)
    BY ProgramSent
  <2> HIDE DEF sent
  <2>4. Types /\ Talk(place[c], proc[c], c) /\ InBacklog(place)
        /\ Ghosts(place, proc, base, requests, resolved)
    BY DEF Whole, Talks
  <2>5. place[c] = "start"
    BY <1>1, <2>4 DEF Talk
  <2>6. to_kernel[c] = << >> /\ to_consola[c] = << >> /\ left[c] = << >>
    BY <2>4, <2>5, Zenon DEF Talk, Uncreated
  <2>7. /\ to_kernel' \in [Consolas -> Seq(Field)] /\ to_kernel'[c] = Joined(to_kernel[c], sent)
        /\ \A d \in Consolas : d # c => to_kernel'[d] = to_kernel[d]
    <3>1. to_kernel \in [Consolas -> Seq(Field)]
      BY <2>4 DEF Types
    <3>2. QED BY <2>2, <2>3, <3>1, SocketTypes
  <2>8. to_kernel'[c] = sent
    <3>1. Joined(<< >>, sent) = sent
      BY <2>3, ConcatFacts DEF Joined
    <3>2. QED BY <2>6, <2>7, <3>1, Zenon
  <2>9. Types'
    BY <1>1, <2>2, <2>4, <2>7 DEF Types, memoria
  <2>10. "backlog" \in Places
    BY DEF Places, Uncreated
  <2>11. InBacklog(Moved(place, c, "backlog"))'
    <3> DEFINE n == Len(backlog)
               place2 == Moved(place, c, "backlog")
    <3>1. /\ backlog \in Seq(Consolas) /\ n \in Nat /\ Len(backlog') = n + 1
          /\ backlog'[n + 1] = c /\ \A k \in 1 .. n : backlog'[k] = backlog[k]
      BY <2>2, <2>4 DEF Types
    <3>2. place2[c] = "backlog" /\ \A d \in Consolas : d # c => place2[d] = place[d]
      BY <2>4 DEF Moved, Ghosts
    <3>3. \A k \in 1 .. n : backlog[k] \in Consolas /\ backlog[k] # c
      BY <2>4, <2>5, <3>1 DEF InBacklog
    <3> HIDE DEF place2
    <3>4. \A k \in 1 .. Len(backlog') : place2[backlog'[k]] = "backlog"
      BY <2>4, <3>1, <3>2, <3>3 DEF InBacklog
    <3>5. \A j, k \in 1 .. Len(backlog') : backlog'[j] = backlog'[k] => j = k
      BY <2>4, <3>1, <3>3 DEF InBacklog
    <3>6. QED BY <3>4, <3>5 DEF InBacklog, place2
  <2>12. \A d \in Consolas : d # c => SocketKept(d)
    BY <1>1, <2>2, <2>4, <2>7 DEF SocketKept, Types
  <2>13. Talk("backlog", proc[c], c)'
    <3>1. consola'[c] = "waiting"
      BY <2>2, <2>4 DEF Types
    <3>2. to_consola'[c] = << >> /\ left'[c] = << >>
      BY <1>1, <2>6
    <3>3. QED BY <2>8, <3>1, <3>2, Zenon DEF Talk, sent, Uncreated
  <2>14. QED
    BY <1>1, <2>5, <2>9, <2>10, <2>11, <2>12, <2>13, ConsolaMoves
<1>5. QED BY <1>3, <1>4

(* What a console is told, by where its process is.                        *)
LEMMA Told ==
  ASSUME NEW c \in Consolas, NEW at, NEW pcb, Talk(at, pcb, c), to_consola[c] # << >>
  PROVE  /\ Head(to_consola[c]) = TECLADO =>
              at = "asked_teclado" /\ to_consola[c] = <<TECLADO>>
         /\ Head(to_consola[c]) = PANTALLA =>
              at = "asked_pantalla" /\ to_consola[c] = <<PANTALLA, pcb.registers[AX]>>
         /\ Head(to_consola[c]) = SEG_FAULT =>
              at = "told_fault" /\ to_consola[c] = <<SEG_FAULT>>
         /\ Head(to_consola[c]) = PROCESS_FINISHED =>
              at = "told_exit" /\ to_consola[c] = <<PROCESS_FINISHED>>
         /\ Head(to_consola[c]) \in {TECLADO, PANTALLA, SEG_FAULT, PROCESS_FINISHED}
<1>1. \/ at = "asked_teclado" /\ to_consola[c] = <<TECLADO>>
      \/ at = "asked_pantalla" /\ to_consola[c] = <<PANTALLA, pcb.registers[AX]>>
      \/ at = "told_exit" /\ to_consola[c] = <<PROCESS_FINISHED>>
      \/ at = "told_fault" /\ to_consola[c] = <<SEG_FAULT>>
  <2>1. CASE at \in {"asked_teclado", "asked_pantalla", "told_exit", "told_fault"}
    BY <2>1 DEF Talk
  <2>2. CASE at \notin {"asked_teclado", "asked_pantalla", "told_exit", "told_fault"}
    <3>1. to_consola[c] = << >>
      BY <2>2, Zenon DEF Talk
    <3>2. QED BY <3>1
  <2>3. QED BY <2>1, <2>2
<1>2. /\ TECLADO # PANTALLA /\ TECLADO # SEG_FAULT /\ TECLADO # PROCESS_FINISHED
      /\ PANTALLA # SEG_FAULT /\ PANTALLA # PROCESS_FINISHED /\ SEG_FAULT # PROCESS_FINISHED
  BY DEF TECLADO, PANTALLA, SEG_FAULT, PROCESS_FINISHED
<1>3. QED BY <1>1, <1>2

LEMMA Emptied ==
  ASSUME NEW a, NEW b
  PROVE  /\ SubSeq(<<a>>, 2, Len(<<a>>)) = << >>
         /\ SubSeq(<<a, b>>, 3, Len(<<a, b>>)) = << >>
OBVIOUS

LEMMA HeardTypes ==
  ASSUME NEW c \in Consolas, NEW op, NEW n \in Nat, Types, ConsolaRecv(c, op, n)
  PROVE  /\ consola[c] = "waiting" /\ to_consola[c] # << >> /\ Head(to_consola[c]) = op
         /\ to_consola' \in [Consolas -> Seq(Field)]
         /\ to_consola'[c] = SubSeq(to_consola[c], n + 1, Len(to_consola[c]))
         /\ \A d \in Consolas : d # c => to_consola'[d] = to_consola[d]
         /\ UNCHANGED <<kernel, backlog, main, process_count, sched, queues, dispatch, memoria>>
<1>1. to_consola \in [Consolas -> Seq(Field)]
  BY DEF Types
<1>2. SubSeq(to_consola[c], n + 1, Len(to_consola[c])) \in Seq(Field)
  <2>1. to_consola[c] \in Seq(Field)
    BY <1>1
  <2>2. QED BY <2>1
<1>3. to_consola' = [to_consola EXCEPT ![c] = SubSeq(@, n + 1, Len(@))]
  BY DEF ConsolaRecv
<1>4. QED BY <1>1, <1>2, <1>3 DEF ConsolaRecv

LEMMA BacklogMoved ==
  ASSUME NEW place, NEW proc, NEW base, NEW requests, NEW resolved,
         Ghosts(place, proc, base, requests, resolved), Types, InBacklog(place),
         NEW c \in Consolas, NEW at, place[c] # "backlog", backlog' = backlog
  PROVE  InBacklog(Moved(place, c, at))'
<1> DEFINE place2 == Moved(place, c, at)
<1>1. \A d \in Consolas : d # c => place2[d] = place[d]
  BY DEF Ghosts, Moved
<1>2. \A k \in 1 .. Len(backlog) : backlog[k] \in Consolas /\ backlog[k] # c
  BY DEF Types, InBacklog
<1> HIDE DEF place2
<1>3. InBacklog(place2)'
  BY <1>1, <1>2 DEF InBacklog
<1>4. QED BY <1>3 DEF place2

(* The registers of a process.                                             *)
LEMMA RegistersOf ==
  ASSUME NEW pcb \in ConsolaPcbs, NEW value \in Field
  PROVE  /\ pcb.registers \in [1 .. 4 -> Field] /\ AX \in 1 .. 4 /\ pcb.registers[AX] \in Field
         /\ [pcb EXCEPT !.registers[AX] = value] \in ConsolaPcbs
         /\ [pcb EXCEPT !.registers[AX] = value].registers[AX] = value
         /\ [pcb EXCEPT !.registers[AX] = value].socket_consola = pcb.socket_consola
         /\ [pcb EXCEPT !.registers[AX] = value].instructions = pcb.instructions
         /\ [pcb EXCEPT !.registers[AX] = value].segment_table = pcb.segment_table
         /\ [pcb EXCEPT !.registers[AX] = value].id = pcb.id
<1>1. pcb.registers \in [1 .. 4 -> Field] /\ AX \in 1 .. 4
  BY DEF ConsolaPcbs, Pcbs, AX
<1>2. [pcb.registers EXCEPT ![AX] = value] \in [1 .. 4 -> Field]
      /\ [pcb.registers EXCEPT ![AX] = value][AX] = value
  BY <1>1
<1> DEFINE new == [pcb EXCEPT !.registers[AX] = value]
<1>3. new = [pcb EXCEPT !.registers = [pcb.registers EXCEPT ![AX] = value]]
  BY DEF ConsolaPcbs, Pcbs
<1> DEFINE registers == [pcb.registers EXCEPT ![AX] = value]
<1> HIDE DEF registers
<1>4. registers \in [1 .. 4 -> Field]
  BY <1>2 DEF registers
<1>5. [pcb EXCEPT !.registers = registers] \in ConsolaPcbs
  BY <1>4 DEF ConsolaPcbs, Pcbs
<1>6. QED BY <1>1, <1>2, <1>3, <1>5 DEF registers, ConsolaPcbs, Pcbs

(* asked_teclado to answered_teclado: AX is what the user typed.           *)
LEMMA ConsolaTecladoKeeps ==
  ASSUME NEW known, NEW place, NEW proc, NEW base, NEW requests, NEW resolved,
         Whole(known, place, proc, base, requests, resolved),
         NEW c \in Consolas, ConsolaTeclado(c)
  PROVE  Kept(known)'
<1>1. Types /\ Talk(place[c], proc[c], c) /\ InBacklog(place)
      /\ Ghosts(place, proc, base, requests, resolved)
  BY DEF Whole, Talks
<1>2. PICK teclado \in Typed :
        /\ to_kernel' = Send(to_kernel, c, <<TECLADO, teclado>>)
        /\ left' = [left EXCEPT ![c].registers[AX] = teclado]
  BY DEF ConsolaTeclado
<1>3. /\ consola[c] = "waiting" /\ to_consola[c] # << >> /\ Head(to_consola[c]) = TECLADO
      /\ to_consola' \in [Consolas -> Seq(Field)]
      /\ to_consola'[c] = SubSeq(to_consola[c], 2, Len(to_consola[c]))
      /\ \A d \in Consolas : d # c => to_consola'[d] = to_consola[d]
      /\ UNCHANGED <<kernel, backlog, main, process_count, sched, queues, dispatch, memoria>>
      /\ UNCHANGED consola
  <2>1. ConsolaRecv(c, TECLADO, 1) /\ UNCHANGED consola /\ 1 \in Nat /\ 1 + 1 = 2
    BY DEF ConsolaTeclado
  <2>2. QED BY <1>1, <2>1, HeardTypes
<1>4. place[c] = "asked_teclado" /\ to_consola[c] = <<TECLADO>>
  BY <1>1, <1>3, Told
<1>5. to_consola'[c] = << >>
  BY <1>3, <1>4, Emptied, Zenon
<1>6. to_kernel[c] = << >> /\ left[c] = At(proc[c])
  <2>1. place[c] \notin Uncreated /\ place[c] # "backlog"
        /\ place[c] \notin {"answered_teclado", "answered_pantalla"}
    BY <1>4 DEF Uncreated
  <2>2. QED BY <1>1, <2>1, Zenon DEF Talk
<1>7. teclado \in Int /\ teclado \in Field /\ TECLADO \in Field
  BY SocketsAssumption, NumbersAreFields
<1> DEFINE pcb == proc[c]
           message == <<TECLADO, teclado>>
<1>8. pcb \in ConsolaPcbs
  BY <1>1 DEF Ghosts
<1>9. /\ to_kernel' \in [Consolas -> Seq(Field)] /\ to_kernel'[c] = Joined(to_kernel[c], message)
      /\ \A d \in Consolas : d # c => to_kernel'[d] = to_kernel[d]
  <2>1. to_kernel \in [Consolas -> Seq(Field)]
    BY <1>1 DEF Types
  <2>2. message \in Seq(Field)
    BY <1>7
  <2>3. to_kernel' = Send(to_kernel, c, message)
    BY <1>2
  <2> HIDE DEF message
  <2>4. QED BY <2>1, <2>2, <2>3, SocketTypes
<1>10. to_kernel'[c] = message
  <2>1. message \in Seq(Field)
    BY <1>7
  <2> HIDE DEF message
  <2>2. Joined(<< >>, message) = message
    BY <2>1, ConcatFacts DEF Joined
  <2>3. QED BY <1>6, <1>9, <2>2, Zenon
<1>11. /\ left' = [d \in Consolas |-> left'[d]]
       /\ left'[c] = [left[c] EXCEPT !.registers[AX] = teclado]
       /\ \A d \in Consolas : d # c => left'[d] = left[d]
  BY <1>1, <1>2 DEF Types
<1>12. /\ left'[c].registers[AX] = teclado
       /\ left'[c] = At([pcb EXCEPT !.registers[AX] = teclado])
  <2>1. pcb.registers \in [1 .. 4 -> Field] /\ AX \in 1 .. 4
        /\ [pcb EXCEPT !.registers[AX] = teclado].id = pcb.id
        /\ [pcb EXCEPT !.registers[AX] = teclado].program_counter = pcb.program_counter
        /\ [pcb EXCEPT !.registers[AX] = teclado].registers = [pcb.registers EXCEPT ![AX] = teclado]
    BY <1>7, <1>8, RegistersOf DEF ConsolaPcbs, Pcbs
  <2>2. left'[c] = [At(pcb) EXCEPT !.registers[AX] = teclado]
    BY <1>6, <1>11
  <2>3. left'[c] = [id |-> pcb.id, program_counter |-> pcb.program_counter,
                    registers |-> [pcb.registers EXCEPT ![AX] = teclado]]
    BY <2>2 DEF At
  <2>4. [pcb.registers EXCEPT ![AX] = teclado][AX] = teclado
    BY <2>1
  <2>5. QED BY <2>1, <2>3, <2>4 DEF At
<1>13. Talk("answered_teclado", pcb, c)'
  <2>1. consola'[c] = "waiting"
    BY <1>3
  <2>2. to_kernel'[c] = <<TECLADO, left'[c].registers[AX]>>
    BY <1>10, <1>12
  <2>3. left'[c] = At([pcb EXCEPT !.registers[AX] = left'[c].registers[AX]])
    BY <1>12
  <2>4. QED BY <1>5, <2>1, <2>2, <2>3, Zenon DEF Talk, Uncreated
<1>14. Types'
  BY <1>1, <1>3, <1>9, <1>11 DEF Types, memoria
<1>15. InBacklog(Moved(place, c, "answered_teclado"))'
  BY <1>1, <1>3, <1>4, BacklogMoved
<1>16. \A d \in Consolas : d # c => SocketKept(d)
  BY <1>3, <1>9, <1>11 DEF SocketKept
<1>17. "answered_teclado" \in Places
  BY DEF Places, IoPlaces
<1>18. QED BY <1>3, <1>4, <1>13, <1>14, <1>15, <1>16, <1>17, ConsolaMoves

(* asked_pantalla to answered_pantalla.                                    *)
LEMMA ConsolaPantallaKeeps ==
  ASSUME NEW known, NEW place, NEW proc, NEW base, NEW requests, NEW resolved,
         Whole(known, place, proc, base, requests, resolved),
         NEW c \in Consolas, ConsolaPantalla(c)
  PROVE  Kept(known)'
<1>1. Types /\ Talk(place[c], proc[c], c) /\ InBacklog(place)
      /\ Ghosts(place, proc, base, requests, resolved)
  BY DEF Whole, Talks
<1>2. /\ consola[c] = "waiting" /\ to_consola[c] # << >> /\ Head(to_consola[c]) = PANTALLA
      /\ to_consola' \in [Consolas -> Seq(Field)]
      /\ to_consola'[c] = SubSeq(to_consola[c], 3, Len(to_consola[c]))
      /\ \A d \in Consolas : d # c => to_consola'[d] = to_consola[d]
      /\ UNCHANGED <<kernel, backlog, main, process_count, sched, queues, dispatch, memoria>>
      /\ to_kernel' = Send(to_kernel, c, <<PANTALLA>>)
      /\ UNCHANGED <<consola, left>>
  <2>1. ConsolaRecv(c, PANTALLA, 2) /\ 2 \in Nat /\ 2 + 1 = 3
    BY DEF ConsolaPantalla
  <2>2. QED BY <1>1, <2>1, HeardTypes DEF ConsolaPantalla
<1>3. place[c] = "asked_pantalla" /\ to_consola[c] = <<PANTALLA, proc[c].registers[AX]>>
  BY <1>1, <1>2, Told
<1>4. to_consola'[c] = << >>
  <2> DEFINE value == proc[c].registers[AX]
  <2>1. to_consola[c] = <<PANTALLA, value>>
        /\ to_consola'[c] = SubSeq(to_consola[c], 3, Len(to_consola[c]))
    BY <1>2, <1>3
  <2> HIDE DEF value
  <2>2. QED BY <2>1, Emptied, Zenon
<1>5. to_kernel[c] = << >> /\ left[c] = At(proc[c])
  <2>1. place[c] \notin Uncreated /\ place[c] # "backlog"
        /\ place[c] \notin {"answered_teclado", "answered_pantalla"}
    BY <1>3 DEF Uncreated
  <2>2. QED BY <1>1, <2>1, Zenon DEF Talk
<1> DEFINE message == <<PANTALLA>>
<1>6. message \in Seq(Field)
  BY NumbersAreFields
<1>7. /\ to_kernel' \in [Consolas -> Seq(Field)] /\ to_kernel'[c] = Joined(to_kernel[c], message)
      /\ \A d \in Consolas : d # c => to_kernel'[d] = to_kernel[d]
  <2>1. to_kernel \in [Consolas -> Seq(Field)]
    BY <1>1 DEF Types
  <2>2. to_kernel' = Send(to_kernel, c, message)
    BY <1>2
  <2> HIDE DEF message
  <2>3. QED BY <1>6, <2>1, <2>2, SocketTypes
<1>8. to_kernel'[c] = message
  <2> HIDE DEF message
  <2>1. Joined(<< >>, message) = message
    BY <1>6, ConcatFacts DEF Joined
  <2>2. QED BY <1>5, <1>7, <2>1, Zenon
<1>9. Talk("answered_pantalla", proc[c], c)'
  <2>1. consola'[c] = "waiting" /\ left'[c] = At(proc[c])
    BY <1>2, <1>5
  <2>2. QED BY <1>4, <1>8, <2>1, Zenon DEF Talk, Uncreated
<1>10. Types'
  BY <1>1, <1>2, <1>7 DEF Types, memoria
<1>11. InBacklog(Moved(place, c, "answered_pantalla"))'
  BY <1>1, <1>2, <1>3, BacklogMoved
<1>12. \A d \in Consolas : d # c => SocketKept(d)
  BY <1>2, <1>7 DEF SocketKept
<1>13. "answered_pantalla" \in Places
  BY DEF Places, IoPlaces
<1>14. QED BY <1>2, <1>3, <1>9, <1>10, <1>11, <1>12, <1>13, ConsolaMoves

(* told_fault to killed.                                                   *)
LEMMA ConsolaSegFaultKeeps ==
  ASSUME NEW known, NEW place, NEW proc, NEW base, NEW requests, NEW resolved,
         Whole(known, place, proc, base, requests, resolved),
         NEW c \in Consolas, ConsolaSegFault(c)
  PROVE  Kept(known)'
<1>1. Types /\ Talk(place[c], proc[c], c) /\ InBacklog(place)
      /\ Ghosts(place, proc, base, requests, resolved)
  BY DEF Whole, Talks
<1>2. /\ consola[c] = "waiting" /\ to_consola[c] # << >> /\ Head(to_consola[c]) = SEG_FAULT
      /\ to_consola' \in [Consolas -> Seq(Field)]
      /\ to_consola'[c] = SubSeq(to_consola[c], 2, Len(to_consola[c]))
      /\ \A d \in Consolas : d # c => to_consola'[d] = to_consola[d]
      /\ UNCHANGED <<kernel, backlog, main, process_count, sched, queues, dispatch, memoria>>
      /\ consola' = [consola EXCEPT ![c] = "killed"]
      /\ UNCHANGED <<to_kernel, left>>
  <2>1. ConsolaRecv(c, SEG_FAULT, 1) /\ 1 \in Nat /\ 1 + 1 = 2
    BY DEF ConsolaSegFault
  <2>2. QED BY <1>1, <2>1, HeardTypes DEF ConsolaSegFault
<1>3. place[c] = "told_fault" /\ to_consola[c] = <<SEG_FAULT>>
  BY <1>1, <1>2, Told
<1>4. to_consola'[c] = << >>
  BY <1>2, <1>3, Emptied, Zenon
<1>5. to_kernel[c] = << >> /\ left[c] = At(proc[c])
  <2>1. place[c] \notin Uncreated /\ place[c] # "backlog"
        /\ place[c] \notin {"answered_teclado", "answered_pantalla"}
    BY <1>3 DEF Uncreated
  <2>2. QED BY <1>1, <2>1, Zenon DEF Talk
<1>6. Talk("killed", proc[c], c)'
  <2>1. consola'[c] = "killed" /\ left'[c] = At(proc[c]) /\ to_kernel'[c] = << >>
    BY <1>1, <1>2, <1>5 DEF Types
  <2>2. QED BY <1>4, <2>1, Zenon DEF Talk, Uncreated
<1>7. Types'
  BY <1>1, <1>2 DEF Types, memoria
<1>8. InBacklog(Moved(place, c, "killed"))'
  BY <1>1, <1>2, <1>3, BacklogMoved
<1>9. \A d \in Consolas : d # c => SocketKept(d)
  BY <1>1, <1>2 DEF SocketKept, Types
<1>10. "killed" \in Places
  BY DEF Places
<1>11. QED BY <1>2, <1>3, <1>6, <1>7, <1>8, <1>9, <1>10, ConsolaMoves

(* told_exit to ended.                                                     *)
LEMMA ConsolaExitKeeps ==
  ASSUME NEW known, NEW place, NEW proc, NEW base, NEW requests, NEW resolved,
         Whole(known, place, proc, base, requests, resolved),
         NEW c \in Consolas, ConsolaExit(c)
  PROVE  Kept(known)'
<1>1. Types /\ Talk(place[c], proc[c], c) /\ InBacklog(place)
      /\ Ghosts(place, proc, base, requests, resolved)
  BY DEF Whole, Talks
<1>2. /\ consola[c] = "waiting" /\ to_consola[c] # << >> /\ Head(to_consola[c]) = PROCESS_FINISHED
      /\ to_consola' \in [Consolas -> Seq(Field)]
      /\ to_consola'[c] = SubSeq(to_consola[c], 2, Len(to_consola[c]))
      /\ \A d \in Consolas : d # c => to_consola'[d] = to_consola[d]
      /\ UNCHANGED <<kernel, backlog, main, process_count, sched, queues, dispatch, memoria>>
      /\ consola' = [consola EXCEPT ![c] = "ended"]
      /\ UNCHANGED <<to_kernel, left>>
  <2>1. ConsolaRecv(c, PROCESS_FINISHED, 1) /\ 1 \in Nat /\ 1 + 1 = 2
    BY DEF ConsolaExit
  <2>2. QED BY <1>1, <2>1, HeardTypes DEF ConsolaExit
<1>3. place[c] = "told_exit" /\ to_consola[c] = <<PROCESS_FINISHED>>
  BY <1>1, <1>2, Told
<1>4. to_consola'[c] = << >>
  BY <1>2, <1>3, Emptied, Zenon
<1>5. to_kernel[c] = << >> /\ left[c] = At(proc[c])
  <2>1. place[c] \notin Uncreated /\ place[c] # "backlog"
        /\ place[c] \notin {"answered_teclado", "answered_pantalla"}
    BY <1>3 DEF Uncreated
  <2>2. QED BY <1>1, <2>1, Zenon DEF Talk
<1>6. Talk("ended", proc[c], c)'
  <2>1. consola'[c] = "ended" /\ left'[c] = At(proc[c]) /\ to_kernel'[c] = << >>
    BY <1>1, <1>2, <1>5 DEF Types
  <2>2. QED BY <1>4, <2>1, Zenon DEF Talk, Uncreated
<1>7. Types'
  BY <1>1, <1>2 DEF Types, memoria
<1>8. InBacklog(Moved(place, c, "ended"))'
  BY <1>1, <1>2, <1>3, BacklogMoved
<1>9. \A d \in Consolas : d # c => SocketKept(d)
  BY <1>1, <1>2 DEF SocketKept, Types
<1>10. "ended" \in Places
  BY DEF Places
<1>11. QED BY <1>2, <1>3, <1>6, <1>7, <1>8, <1>9, <1>10, ConsolaMoves

-----------------------------------------------------------------------------
(* A process moves, and neither the main thread, nor the page tables, nor  *)
(* another process.                                                        *)
LEMMA Travels ==
  ASSUME NEW known, NEW place, NEW proc, NEW base, NEW requests, NEW resolved,
         Whole(known, place, proc, base, requests, resolved),
         NEW c, NEW place2, NEW proc2, NEW requests2, NEW resolved2,
         Step(place, proc, c, place2, proc2), Ghosts(place2, proc2, base, requests2, resolved2),
         place[c] \notin Uncreated \cup {"main"}, place2[c] \notin Uncreated \cup {"main"},
         proc2[c].id = proc[c].id, proc2[c].segment_table = proc[c].segment_table,
         OthersPending(known, requests, requests2, c),
         known = "all" =>
           Freed(known, place2[c], requests2, c) = Freed(known, place[c], requests, c),
         UNCHANGED <<backlog, main, process_count, page_tables>>, Types',
         \A pcb \in ready' : \/ pcb \in ready /\ pcb.socket_consola # c
                             \/ place2[c] = "ready" /\ pcb = proc2[c],
         \A b \in io' : \/ b \in io /\ b.pcb.socket_consola # c
                        \/ place2[c] \in IoPlaces /\ b = Blocking(proc2[c], place2[c]),
         AtSched(place2, proc2)', InDispatch(place2, proc2)',
         InRequests(known, place2, proc2, requests2)', InResolved(known, place2, proc2, resolved2)',
         \A d \in Consolas : d # c => SocketKept(d), Talk(place2[c], proc2[c], c)',
         Answers(known, base, requests2)'
  PROVE  Kept(known)'
<1>1. /\ Ghosts(place, proc, base, requests, resolved) /\ Types /\ Ids(place, proc)
      /\ InReady(place, proc) /\ InIo(place, proc) /\ AtMain(known, place, proc, base)
      /\ InBacklog(place) /\ Talks(place, proc) /\ InTables(known, place, proc, base, requests)
  BY DEF Whole
<1>2. place[c] # "main" /\ place2[c] # "main" /\ place[c] # "backlog"
      /\ (place[c] \in Uncreated <=> place2[c] \in Uncreated)
  BY DEF Uncreated
<1>3. Ids(place2, proc2)'
  BY <1>1, <1>2, IdsKept
<1>4. InReady(place2, proc2)'
  BY <1>1, ReadyKept
<1>5. InIo(place2, proc2)'
  BY <1>1, IoKept
<1>6. AtMain(known, place2, proc2, base)'
  BY <1>1, <1>2, MainKept
<1>7. InBacklog(place2)'
  BY <1>1, <1>2, BacklogKept
<1>8. Talks(place2, proc2)'
  BY <1>1, TalksKept
<1>9. InTables(known, place2, proc2, base, requests2)'
  BY <1>1, TablesKept
<1>11. Whole(known, place2, proc2, base, requests2, resolved2)'
  BY <1>3, <1>4, <1>5, <1>6, <1>7, <1>8, <1>9 DEF Whole
<1>12. QED BY <1>11 DEF Kept

(* The same when what the scheduler, the CPU and memoria have is unchanged *)
(* too: c goes from a thread of the kernel to its console or to a queue.   *)
LEMMA TravelsInKernel ==
  ASSUME NEW known, NEW place, NEW proc, NEW base, NEW requests, NEW resolved,
         Whole(known, place, proc, base, requests, resolved),
         NEW c, NEW place2, NEW proc2, NEW resolved2,
         Step(place, proc, c, place2, proc2), Ghosts(place2, proc2, base, requests, resolved2),
         place[c] \in IoPlaces \cup {"resolved"}, place2[c] \in IoPlaces \cup {"ready"},
         proc2[c].id = proc[c].id, proc2[c].segment_table = proc[c].segment_table,
         UNCHANGED <<kernel, backlog, main, process_count, sched, to_cpu, from_cpu, to_memoria,
                     from_memoria, page_tables>>, Types',
         \A pcb \in ready' : pcb \in ready \/ (place2[c] = "ready" /\ pcb = proc2[c]),
         \A b \in io' : \/ b \in io /\ b.pcb.socket_consola # c
                        \/ place2[c] \in IoPlaces /\ b = Blocking(proc2[c], place2[c]),
         InResolved(known, place2, proc2, resolved2)',
         \A d \in Consolas : d # c => SocketKept(d), Talk(place2[c], proc2[c], c)'
  PROVE  Kept(known)'
<1>1. /\ Ghosts(place, proc, base, requests, resolved) /\ InReady(place, proc)
      /\ AtSched(place, proc) /\ InDispatch(place, proc) /\ AtMain(known, place, proc, base)
      /\ InRequests(known, place, proc, requests) /\ Answers(known, base, requests) /\ Own(proc)
  BY DEF Whole, Ghosts, Own
<1>2. /\ place[c] \notin Uncreated \cup {"main", "finish", "cpu", "back", "ready", "fault"}
      /\ place2[c] \notin Uncreated \cup {"main", "finish", "cpu", "back", "fault"}
      /\ place[c] \notin {"told_exit", "ended"} /\ place2[c] \notin {"told_exit", "ended"}
  BY DEF Uncreated, IoPlaces, IoAsk
<1>3. OthersPending(known, requests, requests, c)
  BY DEF OthersPending
<1>4. Freed(known, place2[c], requests, c) = Freed(known, place[c], requests, c)
  BY <1>2, FreedIs
<1>5. \A pcb \in ready' : \/ pcb \in ready /\ pcb.socket_consola # c
                          \/ place2[c] = "ready" /\ pcb = proc2[c]
  BY <1>1, <1>2, NotReady
<1>6. AtSched(place2, proc2)'
  BY <1>1, <1>2, SchedKept
<1>7. InDispatch(place2, proc2)'
  BY <1>1, <1>2, DispatchKept
<1>8. InRequests(known, place2, proc2, requests)'
  BY <1>1, <1>2, NotPending, RequestsKept
<1>9. Answers(known, base, requests)'
  BY <1>1, <1>2, <1>3, AnswersKept
<1>10. QED
  BY <1>2, <1>3, <1>4, <1>5, <1>6, <1>7, <1>8, <1>9, Travels

-----------------------------------------------------------------------------
(* The threads of the kernel that talk to the consoles.                    *)
LEMMA BlockedIs ==
  ASSUME NEW place, NEW proc, InIo(place, proc), Own(proc), NEW b \in io
  PROVE  LET c == b.pcb.socket_consola
         IN c \in Consolas /\ place[c] \in IoPlaces /\ b = Blocking(proc[c], place[c])
<1>1. PICK d \in Consolas : place[d] \in IoPlaces /\ b = Blocking(proc[d], place[d])
  BY DEF InIo
<1>2. b.pcb.socket_consola = d
  BY <1>1 DEF Blocking, Own
<1>3. QED BY <1>1, <1>2

LEMMA BlockingParts ==
  ASSUME NEW pcb, NEW at
  PROVE  LET b == Blocking(pcb, at)
         IN /\ b.pcb = pcb /\ b.device = Device(at) /\ b.arg = AX
            /\ b.asked = (at \notin IoAsk)
BY DEF Blocking

LEMMA AskedIs ==
  ASSUME NEW pcb, NEW device, NEW old, NEW new, NEW b,
         b = [pcb |-> pcb, device |-> device, arg |-> AX, asked |-> old]
  PROVE  [b EXCEPT !.asked = new] = [pcb |-> pcb, device |-> device, arg |-> AX, asked |-> new]
OBVIOUS

(* io to asked: the message is the one for its device.                     *)
LEMMA AskConsolaKeeps ==
  ASSUME NEW known, NEW place, NEW proc, NEW base, NEW requests, NEW resolved,
         Whole(known, place, proc, base, requests, resolved),
         NEW b \in io, AskConsola(b)
  PROVE  Kept(known)'
<1> DEFINE c == b.pcb.socket_consola
           pcb == proc[c]
           at == IF place[c] = "io_teclado" THEN "asked_teclado" ELSE "asked_pantalla"
           place2 == Moved(place, c, at)
<1>1. /\ Ghosts(place, proc, base, requests, resolved) /\ Types /\ InIo(place, proc)
      /\ Talks(place, proc) /\ InResolved(known, place, proc, resolved) /\ Own(proc)
  BY DEF Whole, Ghosts, Own
<1>2. c \in Consolas /\ place[c] \in IoPlaces /\ b = Blocking(pcb, place[c])
  BY <1>1, BlockedIs
<1>3. b.pcb = pcb /\ b.device = Device(place[c]) /\ b.arg = AX
      /\ b.asked = (place[c] \notin IoAsk)
  BY <1>2, BlockingParts
<1>4. /\ ~ b.asked
      /\ to_consola' = Send(to_consola, c, Message(b))
      /\ io' = (io \ {b}) \cup {[b EXCEPT !.asked = TRUE]}
      /\ UNCHANGED <<kernel, consola, backlog, main, process_count, sched, to_cpu, from_cpu,
                     to_memoria, from_memoria, page_tables, left, to_kernel, ready, page_fault>>
  BY DEF AskConsola, KernelThread, dispatch
<1>5. place[c] \in {"io_teclado", "io_pantalla"}
  BY <1>3, <1>4 DEF IoAsk
<1>6. /\ at \in {"asked_teclado", "asked_pantalla"} /\ at \in Places /\ at \in IoPlaces
      /\ at \notin IoAsk /\ Device(at) = Device(place[c])
      /\ place[c] \notin Uncreated
      /\ at = "asked_teclado" <=> place[c] = "io_teclado"
      /\ b.device = "TECLADO" <=> place[c] = "io_teclado"
  BY <1>3, <1>5 DEF Places, IoPlaces, IoAsk, Uncreated, Device
<1>7. [b EXCEPT !.asked = TRUE] = Blocking(pcb, at)
  <2> DEFINE device == Device(at)
             old == b.asked
             new == TRUE
  <2>1. b = [pcb |-> pcb, device |-> device, arg |-> AX, asked |-> old]
    BY <1>2, <1>6 DEF Blocking
  <2>2. Blocking(pcb, at) = [pcb |-> pcb, device |-> device, arg |-> AX, asked |-> TRUE]
    BY <1>6 DEF Blocking
  <2> HIDE DEF device, old, new, pcb, at
  <2>3. [b EXCEPT !.asked = new] = [pcb |-> pcb, device |-> device, arg |-> AX, asked |-> new]
    BY <2>1, AskedIs
  <2>4. QED BY <2>2, <2>3 DEF new
<1>8. pcb \in ConsolaPcbs /\ pcb.registers[AX] \in Field /\ 0 \in Field
      /\ TECLADO \in Field /\ PANTALLA \in Field
  <2>1. pcb \in ConsolaPcbs /\ 0 \in Field /\ TECLADO \in Field /\ PANTALLA \in Field
    BY <1>1, <1>2, NumbersAreFields DEF Ghosts
  <2>2. QED BY <2>1, RegistersOf
<1> DEFINE message == Message(b)
<1>9. message = IF at = "asked_teclado" THEN <<TECLADO>> ELSE <<PANTALLA, pcb.registers[AX]>>
  BY <1>3, <1>6 DEF Message
<1>10. message \in Seq(Field)
  BY <1>8, <1>9
<1> HIDE DEF c, at, message
<1>11. /\ Step(place, proc, c, place2, proc) /\ place2[c] = at
       /\ Ghosts(place2, proc, base, requests, resolved)
  BY <1>1, <1>2, <1>6, MovedStep
<1> HIDE DEF place2
<1>12. /\ to_consola' \in [Consolas -> Seq(Field)]
       /\ to_consola'[c] = Joined(to_consola[c], message)
       /\ \A d \in Consolas : d # c => to_consola'[d] = to_consola[d]
  <2>1. to_consola \in [Consolas -> Seq(Field)]
    BY <1>1 DEF Types
  <2>2. to_consola' = Send(to_consola, c, message)
    BY <1>4 DEF message, c
  <2>3. QED BY <1>2, <1>10, <2>1, <2>2, SocketTypes
<1>13. /\ to_kernel[c] = << >> /\ to_consola[c] = << >> /\ left[c] = At(pcb)
       /\ consola[c] \notin {"start", "failed", "ended", "killed"}
  <2>1. /\ place[c] \notin Uncreated /\ place[c] \notin {"answered_teclado", "answered_pantalla"}
        /\ place[c] \notin {"start", "backlog", "ended", "killed", "told_exit", "told_fault",
                            "asked_teclado", "asked_pantalla"}
    BY <1>5 DEF Uncreated
  <2>2. Talk(place[c], pcb, c)
    BY <1>1, <1>2 DEF Talks
  <2> HIDE DEF pcb
  <2>3. QED BY <2>1, <2>2, Zenon DEF Talk
<1>14. to_consola'[c] = message
  <2>1. Joined(<< >>, message) = message
    BY <1>10, ConcatFacts DEF Joined
  <2>2. QED BY <1>12, <1>13, <2>1, Zenon
<1>15. Talk(at, pcb, c)'
  <2>1. /\ at \notin {"start", "ended", "killed", "backlog", "answered_teclado",
                      "answered_pantalla"}
        /\ at \notin Uncreated
    BY <1>6 DEF Uncreated
  <2>2. consola'[c] = consola[c] /\ to_kernel'[c] = << >> /\ left'[c] = At(pcb)
    BY <1>4, <1>13
  <2>3. CASE at = "asked_teclado"
    <3>1. to_consola'[c] = <<TECLADO>>
      BY <1>9, <1>14, <2>3
    <3> HIDE DEF pcb
    <3>2. QED BY <1>13, <2>1, <2>2, <2>3, <3>1, Zenon DEF Talk
  <2>4. CASE at = "asked_pantalla"
    <3>1. to_consola'[c] = <<PANTALLA, pcb.registers[AX]>>
      BY <1>9, <1>14, <2>4
    <3> HIDE DEF pcb
    <3>2. QED BY <1>13, <2>1, <2>2, <2>4, <3>1, Zenon DEF Talk
  <2>5. QED BY <1>6, <2>3, <2>4
<1>16. Types'
  BY <1>1, <1>4, <1>12 DEF Types
<1>17. \A x \in io' : \/ x \in io /\ x.pcb.socket_consola # c
                      \/ place2[c] \in IoPlaces /\ x = Blocking(proc[c], place2[c])
  <2>1. ASSUME NEW x \in io', x \in io, x # b PROVE x.pcb.socket_consola # c
    <3>1. x = Blocking(proc[x.pcb.socket_consola], place[x.pcb.socket_consola])
      BY <1>1, <2>1, BlockedIs
    <3>2. QED BY <1>2, <2>1, <3>1
  <2>2. QED BY <1>4, <1>6, <1>7, <1>11, <2>1
<1>18. InResolved(known, place2, proc, resolved)'
  <2>1. place[c] # "resolved"
    BY <1>5
  <2>2. QED BY <1>1, <1>4, <1>11, <2>1, ResolvedKept
<1>19. \A d \in Consolas : d # c => SocketKept(d)
  BY <1>4, <1>12 DEF SocketKept
<1>20. QED
  BY <1>2, <1>4, <1>6, <1>11, <1>15, <1>16, <1>17, <1>18, <1>19, TravelsInKernel

(* answered to ready: the answer is the one for its device, and for        *)
(* teclado its value is what the console has last said of AX.              *)
LEMMA RecvAnswerKeeps ==
  ASSUME NEW known, NEW place, NEW proc, NEW base, NEW requests, NEW resolved,
         Whole(known, place, proc, base, requests, resolved),
         NEW b \in io, RecvAnswer(b)
  PROVE  Kept(known)'
<1> DEFINE c == b.pcb.socket_consola
           pcb == proc[c]
           answer == to_kernel[c]
           place2 == Moved(place, c, "ready")
<1>1. /\ Ghosts(place, proc, base, requests, resolved) /\ Types /\ InIo(place, proc)
      /\ Talks(place, proc) /\ InResolved(known, place, proc, resolved) /\ Own(proc)
  BY DEF Whole, Ghosts, Own
<1>2. c \in Consolas /\ place[c] \in IoPlaces /\ b = Blocking(pcb, place[c])
  BY <1>1, BlockedIs
<1>3. b.pcb = pcb /\ b.device = Device(place[c]) /\ b.arg = AX
  BY <1>2, BlockingParts
<1>4. /\ answer # << >>
      /\ UNCHANGED <<consola, backlog, main, process_count, sched, to_cpu, from_cpu,
                     to_memoria, from_memoria, page_tables, left, to_consola, page_fault>>
  BY DEF RecvAnswer, KernelThread, dispatch
<1>5. Talk(place[c], pcb, c) /\ pcb \in ConsolaPcbs /\ pcb.socket_consola = c
      /\ pcb.instructions = Listing[c] /\ place[c] \notin Uncreated /\ place[c] # "backlog"
  BY <1>1, <1>2 DEF Talks, Ghosts, Uncreated, IoPlaces, IoAsk
<1>6. PICK value : value = left[c].registers[AX]
  OBVIOUS
<1>7. \/ place[c] = "answered_teclado" /\ answer = <<TECLADO, value>>
      \/ place[c] = "answered_pantalla" /\ answer = <<PANTALLA>>
  <2> HIDE DEF c, pcb
  <2>1. CASE place[c] = "answered_teclado"
    <3>1. answer = <<TECLADO, value>>
      BY <1>6, <1>5, <2>1, Zenon DEF Talk
    <3>2. QED BY <2>1, <3>1
  <2>2. CASE place[c] = "answered_pantalla"
    <3>1. answer = <<PANTALLA>>
      BY <1>5, <2>2, Zenon DEF Talk
    <3>2. QED BY <2>2, <3>1
  <2>3. CASE place[c] \notin {"answered_teclado", "answered_pantalla"}
    <3>1. answer = << >>
      BY <1>5, <2>3, Zenon DEF Talk
    <3>2. QED BY <1>4, <3>1
  <2>4. QED BY <2>1, <2>2, <2>3
<1>8. answer \in Seq(Field)
  BY <1>1, <1>2 DEF Types
<1> DEFINE n == IF place[c] = "answered_teclado" THEN 2 ELSE 1
           pcb2 == IF place[c] = "answered_teclado"
                   THEN [pcb EXCEPT !.registers[AX] = value] ELSE pcb
<1>9. /\ to_kernel' = [to_kernel EXCEPT ![c] = SubSeq(@, n + 1, Len(@))]
      /\ io' = io \ {b} /\ ready' = ready \cup {pcb2}
      /\ UNCHANGED kernel
  <2>1. CASE place[c] = "answered_teclado"
    <3>1. Head(answer) = TECLADO /\ b.device = "TECLADO" /\ answer[2] = value
          /\ TECLADO # PANTALLA
      BY <1>3, <1>7, <2>1 DEF Device, TECLADO, PANTALLA
    <3>2. /\ to_kernel' = [to_kernel EXCEPT ![c] = SubSeq(@, 2 + 1, Len(@))]
          /\ io' = io \ {b}
          /\ ready' = ready \cup {[b.pcb EXCEPT !.registers[b.arg] = answer[2]]}
          /\ UNCHANGED kernel
      BY <3>1 DEF RecvAnswer
    <3>3. QED BY <1>3, <2>1, <3>1, <3>2
  <2>2. CASE place[c] = "answered_pantalla"
    <3>1. Head(answer) = PANTALLA /\ b.device = "PANTALLA" /\ TECLADO # PANTALLA
      BY <1>3, <1>7, <2>2 DEF Device, TECLADO, PANTALLA
    <3>2. /\ to_kernel' = [to_kernel EXCEPT ![c] = SubSeq(@, 1 + 1, Len(@))]
          /\ io' = io \ {b} /\ ready' = ready \cup {b.pcb} /\ UNCHANGED kernel
      BY <3>1 DEF RecvAnswer
    <3>3. QED BY <1>3, <2>2, <3>2
  <2>3. QED BY <1>7, <2>1, <2>2
<1>10. SubSeq(answer, n + 1, Len(answer)) = << >>
  <2>1. CASE place[c] = "answered_teclado"
    <3>1. answer = <<TECLADO, value>> /\ n + 1 = 3
      BY <1>7, <2>1
    <3> HIDE DEF answer, n
    <3>2. QED BY <3>1, Emptied, Zenon
  <2>2. CASE place[c] = "answered_pantalla"
    <3>1. answer = <<PANTALLA>> /\ n + 1 = 2
      BY <1>7, <2>2
    <3> HIDE DEF answer, n
    <3>2. QED BY <3>1, Emptied, Zenon
  <2>3. QED BY <1>7, <2>1, <2>2
<1>11. /\ to_kernel' \in [Consolas -> Seq(Field)] /\ to_kernel'[c] = << >>
       /\ \A d \in Consolas : d # c => to_kernel'[d] = to_kernel[d]
  <2>1. to_kernel \in [Consolas -> Seq(Field)] /\ << >> \in Seq(Field)
    BY <1>1 DEF Types
  <2>2. to_kernel' = [to_kernel EXCEPT ![c] = << >>]
    BY <1>9, <1>10
  <2> HIDE DEF c
  <2>3. QED BY <1>2, <2>1, <2>2
<1>12. /\ to_consola[c] = << >>
       /\ left[c] = At(pcb2)
       /\ consola[c] \notin {"start", "failed", "ended", "killed"}
  <2>1. place[c] \notin {"start", "ended", "killed", "told_exit", "told_fault",
                         "asked_teclado", "asked_pantalla"}
    BY <1>7
  <2>2. to_consola[c] = << >> /\ consola[c] \notin {"start", "failed", "ended", "killed"}
    <3> HIDE DEF c, pcb
    <3>1. QED BY <1>5, <2>1, Zenon DEF Talk
  <2>3. CASE place[c] = "answered_teclado"
    <3>1. left[c] = At([pcb EXCEPT !.registers[AX] = left[c].registers[AX]])
      <4> HIDE DEF c, pcb
      <4>1. QED BY <1>5, <2>3, Zenon DEF Talk
    <3>2. QED BY <1>6, <2>2, <2>3, <3>1
  <2>4. CASE place[c] = "answered_pantalla"
    <3>1. left[c] = At(pcb)
      <4> HIDE DEF c, pcb
      <4>1. QED BY <1>5, <2>4, Zenon DEF Talk
    <3>2. QED BY <2>2, <2>4, <3>1
  <2>5. QED BY <1>7, <2>3, <2>4
<1>13. /\ pcb2 \in ConsolaPcbs /\ pcb2.socket_consola = c /\ pcb2.instructions = Listing[c]
       /\ pcb2.id = pcb.id /\ pcb2.segment_table = pcb.segment_table
  <2>1. CASE place[c] = "answered_teclado"
    <3>1. value \in Field
      <4>1. answer = <<TECLADO, value>>
        BY <1>7, <2>1
      <4> HIDE DEF answer
      <4>2. answer[2] = value /\ Len(answer) = 2
        BY <4>1
      <4>3. answer \in Seq(Field) /\ 2 \in 1 .. Len(answer)
        BY <1>8, <4>2
      <4>4. answer[2] \in Field
        BY <4>3
      <4>5. QED BY <4>2, <4>4
    <3>2. QED BY <1>5, <2>1, <3>1, RegistersOf
  <2>2. CASE place[c] # "answered_teclado"
    BY <1>5, <2>2
  <2>3. QED BY <2>1, <2>2
<1> HIDE DEF c, pcb2, answer, n
<1> DEFINE proc2 == Moved(proc, c, pcb2)
<1>14. /\ Step(place, proc, c, place2, proc2) /\ place2[c] = "ready" /\ proc2[c] = pcb2
       /\ Ghosts(place2, proc2, base, requests, resolved)
  <2>1. "ready" \in Places
    BY DEF Places
  <2>2. QED BY <1>1, <1>2, <1>13, <2>1, MovedWithStep
<1> HIDE DEF place2, proc2
<1>15. Talk(place2[c], proc2[c], c)'
  <2>1. consola'[c] = consola[c] /\ to_consola'[c] = << >> /\ left'[c] = At(pcb2)
    BY <1>4, <1>12
  <2>2. Talk("ready", pcb2, c)'
    BY <1>11, <1>12, <2>1, Zenon DEF Talk, Uncreated
  <2>3. QED BY <1>14, <2>2
<1>16. Types'
  BY <1>1, <1>4, <1>9, <1>11 DEF Types
<1>17. \A x \in io' : \/ x \in io /\ x.pcb.socket_consola # c
                      \/ place2[c] \in IoPlaces /\ x = Blocking(proc2[c], place2[c])
  <2>1. ASSUME NEW x \in io, x # b PROVE x.pcb.socket_consola # c
    <3>1. x = Blocking(proc[x.pcb.socket_consola], place[x.pcb.socket_consola])
      BY <1>1, <2>1, BlockedIs
    <3>2. QED BY <1>2, <2>1, <3>1
  <2>2. QED BY <1>9, <2>1
<1>18. InResolved(known, place2, proc2, resolved)'
  <2>1. place[c] # "resolved"
    BY <1>7
  <2>2. QED BY <1>1, <1>4, <1>14, <2>1, ResolvedKept
<1>19. \A d \in Consolas : d # c => SocketKept(d)
  BY <1>4, <1>11 DEF SocketKept
<1>20. \A p \in ready' : p \in ready \/ (place2[c] = "ready" /\ p = proc2[c])
  BY <1>9, <1>14
<1>21. QED
  BY <1>2, <1>4, <1>9, <1>13, <1>14, <1>15, <1>16, <1>17, <1>18, <1>19, <1>20, TravelsInKernel

-----------------------------------------------------------------------------
(* The sockets of memoria when the process of c sends a message or its     *)
(* message is taken.                                                       *)
OtherWaits(place, c) == \A d \in Consolas : d # c /\ place[d] = "main" => main'.at = main.at

LEMMA OtherRequest ==
  ASSUME NEW known, NEW place, NEW proc, NEW c, NEW place2, NEW proc2, Step(place, proc, c, place2, proc2),
         NEW requests, InRequests(known, place, proc, requests), OtherWaits(place, c),
         NEW k \in 1 .. Len(requests), Tells(known, requests[k]),
         requests[k].pcb.socket_consola # c
  PROVE  \E d \in Consolas : requests[k].pcb = proc2[d] /\ Waits(requests[k].op, place2[d])'
<1>1. PICK d \in Consolas : requests[k].pcb = proc[d] /\ Waits(requests[k].op, place[d])
  BY DEF InRequests
<1>2. d # c
  BY <1>1 DEF Step, Own
<1>3. place2[d] = place[d] /\ proc2[d] = proc[d]
  BY <1>2 DEF Step
<1>4. Waits(requests[k].op, place2[d])'
  BY <1>1, <1>2, <1>3 DEF Waits, OtherWaits
<1>5. QED BY <1>1, <1>3, <1>4

(* The first request is served, and the others wait as before.             *)
LEMMA RequestsLess ==
  ASSUME NEW known, NEW place, NEW proc, NEW c, NEW place2, NEW proc2, Step(place, proc, c, place2, proc2),
         NEW requests \in Seq(Request), InRequests(known, place, proc, requests), requests # << >>,
         c = requests[1].pcb.socket_consola, Tells(known, requests[1]), OtherWaits(place, c),
         to_memoria' = Stream(Tail(requests))
  PROVE  InRequests(known, place2, proc2, Tail(requests))'
<1> DEFINE less == Tail(requests)
<1>1. /\ OnePerConsole(known, less) /\ ~ Pending(known, less, c)
      /\ \A k \in 1 .. Len(less) : less[k] = requests[k + 1] /\ k + 1 \in 1 .. Len(requests)
  BY LessPending DEF InRequests
<1> HIDE DEF less
<1>2. ASSUME NEW k \in 1 .. Len(less), Tells(known, less[k])
      PROVE  \E d \in Consolas : less[k].pcb = proc2[d] /\ Waits(less[k].op, place2[d])'
  <2>1. less[k] = requests[k + 1] /\ k + 1 \in 1 .. Len(requests)
        /\ less[k].pcb.socket_consola # c
    BY <1>1, <1>2 DEF Pending
  <2> DEFINE j == k + 1
  <2>2. j \in 1 .. Len(requests) /\ requests[j].pcb.socket_consola # c /\ less[k] = requests[j]
    BY <2>1
  <2> HIDE DEF j
  <2>3. QED BY <1>2, <2>2, OtherRequest
<1>3. QED BY <1>1, <1>2 DEF InRequests, less

(* One more request, of a process that had none.                           *)
LEMMA RequestsMore ==
  ASSUME NEW known, NEW place, NEW proc, NEW c, NEW place2, NEW proc2, Step(place, proc, c, place2, proc2),
         NEW requests \in Seq(Request), InRequests(known, place, proc, requests),
         ~ Pending(known, requests, c), OtherWaits(place, c),
         NEW op, [op |-> op, pcb |-> proc2[c]] \in Request, Waits(op, place2[c])',
         to_memoria' = Joined(to_memoria, FieldsOf([op |-> op, pcb |-> proc2[c]]))
  PROVE  LET more == Append(requests, [op |-> op, pcb |-> proc2[c]])
         IN /\ InRequests(known, place2, proc2, more)' /\ more \in Seq(Request)
            /\ (known = "all" => Pending(known, more, c)) /\ OthersPending(known, requests, more, c)
<1> DEFINE m == [op |-> op, pcb |-> proc2[c]]
           more == Append(requests, m)
           n == Len(requests)
<1>1. m \in Request /\ m.op = op /\ m.pcb = proc2[c] /\ m.pcb.socket_consola = c /\ n \in Nat
  BY DEF Step
<1> HIDE DEF m
<1>2. OnePerConsole(known, requests) /\ to_memoria = Stream(requests)
  BY DEF InRequests
<1>3. /\ more \in Seq(Request) /\ OnePerConsole(known, more)
      /\ known = "all" => Pending(known, more, c)
      /\ OthersPending(known, requests, more, c) /\ Len(more) = n + 1 /\ more[n + 1] = m
      /\ \A k \in 1 .. n : more[k] = requests[k]
  BY <1>1, <1>2, MorePending DEF Tells
<1>4. to_memoria' = Stream(more)
  BY <1>1, <1>2, StreamAppend DEF m
<1> HIDE DEF more
<1>5. ASSUME NEW k \in 1 .. Len(more), Tells(known, more[k])
      PROVE  \E d \in Consolas : more[k].pcb = proc2[d] /\ Waits(more[k].op, place2[d])'
  <2>1. CASE k = n + 1
    BY <1>1, <1>3, <2>1 DEF Step
  <2>2. CASE k # n + 1
    <3>1. k \in 1 .. n /\ more[k] = requests[k]
      BY <1>1, <1>3, <2>2
    <3>2. Tells(known, requests[k]) /\ requests[k].pcb.socket_consola # c
      BY <1>5, <3>1 DEF Pending
    <3>3. QED BY <3>1, <3>2, OtherRequest DEF n
  <2>3. QED BY <2>1, <2>2
<1>6. InRequests(known, place2, proc2, more)'
  BY <1>3, <1>4, <1>5 DEF InRequests
<1>7. QED BY <1>3, <1>6 DEF more, m

(* The first answer is taken, and one more comes in behind the others.     *)
LEMMA ResolvedLess ==
  ASSUME NEW known, NEW place, NEW proc, NEW c, NEW place2, NEW proc2, Step(place, proc, c, place2, proc2),
         NEW resolved \in Seq(Request), InResolved(known, place, proc, resolved), resolved # << >>,
         c = resolved[1].pcb.socket_consola, page_fault' = Stream(Tail(resolved))
  PROVE  InResolved(known, place2, proc2, Tail(resolved))'
<1> DEFINE less == Tail(resolved)
<1>1. /\ OnePerConsole(known, less) /\ ~ Pending(known, less, c)
      /\ \A k \in 1 .. Len(less) : less[k] = resolved[k + 1] /\ k + 1 \in 1 .. Len(resolved)
  <2>1. 1 \in 1 .. Len(resolved)
    OBVIOUS
  <2>2. Tells(known, resolved[1])
    BY <2>1 DEF InResolved, Tells
  <2>3. QED BY <2>2, LessPending DEF InResolved
<1> HIDE DEF less
<1>2. ASSUME NEW k \in 1 .. Len(less)
      PROVE  \E d \in Consolas : less[k].pcb = proc2[d] /\ less[k].op = PAGE_FAULT_RESOLVED
                                 /\ place2[d] = "resolved"
  <2>1. less[k] = resolved[k + 1] /\ k + 1 \in 1 .. Len(resolved)
        /\ less[k].pcb.socket_consola # c
    <3>1. less[k] = resolved[k + 1] /\ k + 1 \in 1 .. Len(resolved)
      BY <1>1
    <3>2. less[k].op = PAGE_FAULT_RESOLVED
      BY <3>1 DEF InResolved
    <3>3. Tells(known, less[k])
      BY <3>2 DEF Tells
    <3>4. QED BY <1>1, <3>1, <3>3 DEF Pending
  <2>2. PICK d \in Consolas : less[k].pcb = proc[d] /\ less[k].op = PAGE_FAULT_RESOLVED
                              /\ place[d] = "resolved"
    BY <2>1 DEF InResolved
  <2>3. d # c
    BY <2>1, <2>2 DEF Step, Own
  <2>4. QED BY <2>2, <2>3 DEF Step
<1>3. QED BY <1>1, <1>2 DEF InResolved, less

LEMMA ResolvedMore ==
  ASSUME NEW known, NEW place, NEW proc, NEW c, NEW place2, NEW proc2, Step(place, proc, c, place2, proc2),
         NEW resolved \in Seq(Request), InResolved(known, place, proc, resolved),
         place[c] # "resolved", place2[c] = "resolved",
         page_fault' = Joined(page_fault,
                              FieldsOf([op |-> PAGE_FAULT_RESOLVED, pcb |-> proc2[c]]))
  PROVE  LET more == Append(resolved, [op |-> PAGE_FAULT_RESOLVED, pcb |-> proc2[c]])
         IN InResolved(known, place2, proc2, more)' /\ more \in Seq(Request)
<1> DEFINE m == [op |-> PAGE_FAULT_RESOLVED, pcb |-> proc2[c]]
           more == Append(resolved, m)
           n == Len(resolved)
<1>1. m \in Request /\ m.op = PAGE_FAULT_RESOLVED /\ m.pcb = proc2[c]
      /\ m.pcb.socket_consola = c /\ n \in Nat
  BY DEF Step, Request
<1> HIDE DEF m
<1>2. OnePerConsole(known, resolved) /\ page_fault = Stream(resolved) /\ ~ Pending(known, resolved, c)
  BY DEF InResolved, Pending, Step, Own
<1>3. /\ more \in Seq(Request) /\ OnePerConsole(known, more)
      /\ Len(more) = n + 1 /\ more[n + 1] = m /\ \A k \in 1 .. n : more[k] = resolved[k]
  BY <1>1, <1>2, MorePending
<1>4. page_fault' = Stream(more)
  BY <1>1, <1>2, StreamAppend DEF m
<1> HIDE DEF more
<1>5. ASSUME NEW k \in 1 .. Len(more)
      PROVE  \E d \in Consolas : more[k].pcb = proc2[d] /\ more[k].op = PAGE_FAULT_RESOLVED
                                 /\ place2[d] = "resolved"
  <2>1. CASE k = n + 1
    BY <1>1, <1>3, <2>1 DEF Step
  <2>2. CASE k # n + 1
    <3>1. k \in 1 .. n /\ more[k] = resolved[k]
      BY <1>1, <1>3, <2>2
    <3>2. PICK d \in Consolas : resolved[k].pcb = proc[d] /\ resolved[k].op = PAGE_FAULT_RESOLVED
                                /\ place[d] = "resolved"
      BY <3>1 DEF InResolved, n
    <3>3. d # c
      BY <3>2
    <3>4. QED BY <3>1, <3>2, <3>3 DEF Step
  <2>3. QED BY <2>1, <2>2
<1>6. InResolved(known, place2, proc2, more)'
  BY <1>3, <1>4, <1>5 DEF InResolved
<1>7. QED BY <1>3, <1>6 DEF more, m

(* resolved to ready.                                                      *)
LEMMA HandlePageFaultKeeps ==
  ASSUME NEW known, NEW place, NEW proc, NEW base, NEW requests, NEW resolved,
         Whole(known, place, proc, base, requests, resolved), HandlePageFault
  PROVE  Kept(known)'
<1> DEFINE less == Tail(resolved)
<1>1. /\ Ghosts(place, proc, base, requests, resolved) /\ Types /\ InIo(place, proc)
      /\ Talks(place, proc) /\ InResolved(known, place, proc, resolved) /\ Own(proc)
      /\ resolved \in Seq(Request) /\ page_fault = Stream(resolved) /\ page_fault # << >>
  BY DEF Whole, Ghosts, Own, InResolved, HandlePageFault
<1>2. /\ resolved # << >> /\ resolved[1] \in Request /\ less \in Seq(Request)
      /\ Head(page_fault) = resolved[1].op /\ 1 \in 1 .. Len(resolved)
  <2>1. /\ resolved # << >> /\ resolved[1] \in Request /\ less \in Seq(Request)
        /\ Head(page_fault) = resolved[1].op
    BY <1>1, FirstOp
  <2>2. 1 \in 1 .. Len(resolved)
    BY <1>1, <2>1
  <2>3. QED BY <2>1, <2>2
<1>3. PICK c \in Consolas : /\ resolved[1].pcb = proc[c] /\ resolved[1].op = PAGE_FAULT_RESOLVED
                            /\ place[c] = "resolved"
  BY <1>1, <1>2 DEF InResolved
<1>4. RecvPcb(Tail(page_fault)) = Got(proc[c], Stream(less))
  BY <1>1, <1>3, FirstPcb
<1>5. /\ page_fault' = Stream(less) /\ ready' = ready \cup {proc[c]}
      /\ UNCHANGED <<kernel, consola, backlog, main, process_count, sched, to_cpu, from_cpu,
                     to_memoria, from_memoria, page_tables, left, to_kernel, to_consola, io>>
  <2>1. PICK got \in {RecvPcb(Tail(page_fault))} :
          page_fault' = got.rest /\ ready' = ready \cup {got.value} /\ UNCHANGED kernel
    BY <1>2, <1>3 DEF HandlePageFault
  <2>2. got.value = proc[c] /\ got.rest = Stream(less)
    BY <1>4, <2>1 DEF Got
  <2>3. QED BY <2>1, <2>2 DEF HandlePageFault, KernelThread, dispatch
<1> DEFINE place2 == Moved(place, c, "ready")
<1>6. /\ Step(place, proc, c, place2, proc) /\ place2[c] = "ready"
      /\ Ghosts(place2, proc, base, requests, resolved)
  <2>1. "ready" \in Places /\ place[c] \notin Uncreated
    BY <1>3 DEF Places, Uncreated
  <2>2. QED BY <1>1, <2>1, MovedStep
<1> HIDE DEF place2, less
<1>7. Ghosts(place2, proc, base, requests, less)
  BY <1>2, <1>6 DEF Ghosts
<1>8. InResolved(known, place2, proc, less)'
  <2>1. c = resolved[1].pcb.socket_consola
    BY <1>1, <1>3 DEF Own
  <2>2. QED BY <1>1, <1>2, <1>5, <1>6, <2>1, ResolvedLess DEF less
<1>9. Talk(place2[c], proc[c], c)'
  <2>1. Talk(place[c], proc[c], c) /\ SocketKept(c)
    BY <1>1, <1>5 DEF Talks, SocketKept
  <2>2. Talk("resolved", proc[c], c)'
    BY <1>3, <2>1 DEF Talk, SocketKept
  <2>3. Talk("ready", proc[c], c)'
    BY <2>2 DEF Talk, Uncreated
  <2>4. QED BY <1>6, <2>3
<1>10. Types' /\ \A d \in Consolas : d # c => SocketKept(d)
  BY <1>1, <1>5 DEF Types, SocketKept
<1>11. \A b \in io' : b \in io /\ b.pcb.socket_consola # c
  <2>1. place[c] \notin IoPlaces
    BY <1>3 DEF IoPlaces, IoAsk
  <2>2. QED BY <1>1, <1>5, <2>1, NotInIo
<1>12. \A pcb \in ready' : pcb \in ready \/ (place2[c] = "ready" /\ pcb = proc[c])
  BY <1>5, <1>6
<1>13. QED
  BY <1>3, <1>5, <1>6, <1>7, <1>8, <1>9, <1>10, <1>11, <1>12, TravelsInKernel

-----------------------------------------------------------------------------
(* The thread of the scheduler.                                            *)

(* Where a process is while its console hears nothing.                     *)
Quiet == {"main", "ready", "cpu", "back", "fault", "resolved", "finish",
          "io_teclado", "io_pantalla"}
LEMMA QuietTalk ==
  ASSUME NEW c, NEW pcb, NEW at \in Quiet, NEW at2 \in Quiet, Talk(at, pcb, c), SocketKept(c)
  PROVE  Talk(at2, pcb, c)'
<1>1. /\ at \notin {"start", "ended", "killed", "backlog", "answered_teclado",
                    "answered_pantalla", "asked_teclado", "asked_pantalla", "told_exit",
                    "told_fault"} /\ at \notin Uncreated
      /\ at2 \notin {"start", "ended", "killed", "backlog", "answered_teclado",
                     "answered_pantalla", "asked_teclado", "asked_pantalla", "told_exit",
                     "told_fault"} /\ at2 \notin Uncreated
  BY DEF Quiet, Uncreated
<1>2. /\ consola[c] \notin {"start", "failed"} /\ consola[c] # "ended" /\ consola[c] # "killed"
      /\ to_kernel[c] = << >> /\ to_consola[c] = << >> /\ left[c] = At(pcb)
  BY <1>1, Zenon DEF Talk
<1>3. /\ consola'[c] \notin {"start", "failed"} /\ consola'[c] # "ended"
      /\ consola'[c] # "killed"
      /\ to_kernel'[c] = << >> /\ to_consola'[c] = << >> /\ left'[c] = At(pcb)
  BY <1>2 DEF SocketKept
<1>4. QED BY <1>1, <1>3, Zenon DEF Talk

(* What wait_cpu_dispatch receives is the process at "back", whole, and    *)
(* what the CPU sends behind it for its interrupt_type.                    *)
LEMMA WhatReturned ==
  ASSUME NEW known, NEW place, NEW proc, NEW base, NEW requests, NEW resolved,
         Whole(known, place, proc, base, requests, resolved), InWait
  PROVE  /\ to_cpu = << >> /\ sched.at = "recv_pcb" /\ \A d \in Consolas : place[d] # "finish"
         /\ \E c \in Consolas : \E extra \in Extras(proc[c].interrupt_type) :
              place[c] = "back" /\ RecvPcb(from_cpu) = Got(proc[c], extra)
<1>1. /\ sched.at = "recv_pcb" /\ from_cpu # << >> /\ proc \in [Consolas -> ConsolaPcbs]
      /\ InDispatch(place, proc) /\ AtSched(place, proc)
  BY DEF InWait, Whole, Ghosts
<1>2. PICK c \in Consolas : /\ place[c] = "back" /\ to_cpu = << >>
                            /\ \E extra \in Extras(proc[c].interrupt_type) :
                                 from_cpu = Joined(AddPcb(proc[c]), extra)
  BY <1>1 DEF InDispatch
<1>3. PICK extra \in Extras(proc[c].interrupt_type) : from_cpu = Joined(AddPcb(proc[c]), extra)
  BY <1>2
<1>4. RecvPcb(from_cpu) = Got(proc[c], extra)
  <2>1. proc[c] \in ConsolaPcbs /\ extra \in Seq(Field)
    BY <1>1, <1>3, ExtraFacts
  <2>2. QED BY <1>3, <2>1, PcbIn
<1>5. \A d \in Consolas : place[d] # "finish"
  BY <1>1 DEF AtSched
<1>6. QED BY <1>1, <1>2, <1>4, <1>5

(* Its process leaves the CPU, and the scheduler waits for no answer.      *)
LEMMA Unloads ==
  ASSUME NEW known, NEW place, NEW proc, NEW base, NEW requests, NEW resolved,
         Whole(known, place, proc, base, requests, resolved), InWait,
         NEW c \in Consolas, place[c] = "back", NEW at \in Places, NEW requests2 \in Seq(Request),
         at \in {"ready", "fault", "told_fault"} \cup IoPlaces,
         OthersPending(known, requests, requests2, c), InRequests(known, Moved(place, c, at), proc, requests2)',
         sched' = [at |-> "execute_algorithm"], from_cpu' = << >>,
         UNCHANGED <<kernel, backlog, main, process_count, to_cpu, from_memoria, page_fault,
                     page_tables>>,
         Types', \A d \in Consolas : d # c => SocketKept(d), Talk(at, proc[c], c)',
         \A pcb \in ready' : pcb \in ready \/ (at = "ready" /\ pcb = proc[c]),
         \A b \in io' : b \in io \/ (at \in IoPlaces /\ b = Blocking(proc[c], at))
  PROVE  Kept(known)'
<1> DEFINE place2 == Moved(place, c, at)
<1>1. /\ Ghosts(place, proc, base, requests, resolved) /\ InReady(place, proc)
      /\ InIo(place, proc) /\ AtMain(known, place, proc, base) /\ AtSched(place, proc)
      /\ InResolved(known, place, proc, resolved) /\ Answers(known, base, requests) /\ Own(proc)
  BY DEF Whole, Ghosts, Own
<1>2. /\ place[c] \notin Uncreated \cup {"main", "finish", "ready", "resolved"}
      /\ at \notin Uncreated \cup {"main", "finish", "cpu", "back"}
      /\ place[c] \notin {"told_exit", "ended"} /\ at \notin {"told_exit", "ended"}
      /\ place[c] \notin IoPlaces
  BY DEF Uncreated, IoPlaces, IoAsk
<1>3. /\ Step(place, proc, c, place2, proc) /\ place2[c] = at
      /\ Ghosts(place2, proc, base, requests, resolved)
      /\ \A d \in Consolas : d # c => place2[d] = place[d]
  <2>1. \A d \in Consolas : d # c => place2[d] = place[d]
    BY DEF Moved
  <2>2. QED BY <1>1, <1>2, <2>1, MovedStep
<1> HIDE DEF place2
<1>4. Ghosts(place2, proc, base, requests2, resolved)
  BY <1>3 DEF Ghosts
<1>5. Freed(known, place2[c], requests2, c) = Freed(known, place[c], requests, c)
  BY <1>2, <1>3, FreedIs
<1>6. \A pcb \in ready' : \/ pcb \in ready /\ pcb.socket_consola # c
                          \/ place2[c] = "ready" /\ pcb = proc[c]
  BY <1>1, <1>2, <1>3, NotReady
<1>7. \A b \in io' : \/ b \in io /\ b.pcb.socket_consola # c
                     \/ place2[c] \in IoPlaces /\ b = Blocking(proc[c], place2[c])
  BY <1>1, <1>2, <1>3, NotInIo
<1>8. to_cpu = << >> /\ sched.at = "recv_pcb" /\ \A d \in Consolas : place[d] # "finish"
  BY WhatReturned
<1>9. sched'.at = "execute_algorithm"
  OBVIOUS
<1>10. AtSched(place2, proc)'
  BY <1>2, <1>3, <1>8 DEF AtSched
<1>11. InDispatch(place2, proc)'
  BY <1>8, <1>9 DEF InDispatch
<1>12. InResolved(known, place2, proc, resolved)'
  BY <1>1, <1>2, <1>3, ResolvedKept
<1>13. Answers(known, base, requests2)'
  BY <1>1, <1>2, <1>8, <1>9, AnswersKept
<1>14. InRequests(known, place2, proc, requests2)'
  BY DEF place2
<1>15. QED
  BY <1>2, <1>3, <1>4, <1>5, <1>6, <1>7, <1>10, <1>11, <1>12, <1>13, <1>14, Travels

(* The same when it sends nothing to memoria.                              *)
LEMMA UnloadsHere ==
  ASSUME NEW known, NEW place, NEW proc, NEW base, NEW requests, NEW resolved,
         Whole(known, place, proc, base, requests, resolved), InWait,
         NEW c \in Consolas, place[c] = "back", NEW at \in Places,
         at \in {"ready", "told_fault"} \cup IoPlaces,
         sched' = [at |-> "execute_algorithm"], from_cpu' = << >>,
         UNCHANGED <<kernel, backlog, main, process_count, to_cpu, to_memoria, from_memoria,
                     page_fault, page_tables>>,
         Types', \A d \in Consolas : d # c => SocketKept(d), Talk(at, proc[c], c)',
         \A pcb \in ready' : pcb \in ready \/ (at = "ready" /\ pcb = proc[c]),
         \A b \in io' : b \in io \/ (at \in IoPlaces /\ b = Blocking(proc[c], at))
  PROVE  Kept(known)'
<1> DEFINE place2 == Moved(place, c, at)
<1>1. /\ Ghosts(place, proc, base, requests, resolved) /\ InRequests(known, place, proc, requests)
      /\ requests \in Seq(Request) /\ Own(proc)
  BY DEF Whole, Ghosts, Own
<1>2. place[c] \notin Uncreated /\ place[c] \notin {"main", "finish", "fault"}
  BY DEF Uncreated
<1>3. Step(place, proc, c, place2, proc)
  BY <1>1, <1>2, MovedStep
<1> HIDE DEF place2
<1>4. InRequests(known, place2, proc, requests)'
  BY <1>1, <1>2, <1>3, NotPending, RequestsKept
<1>5. OthersPending(known, requests, requests, c)
  BY DEF OthersPending
<1>6. QED BY <1>1, <1>4, <1>5, Unloads DEF place2

(* back to ready.                                                          *)
LEMMA ReadyStateFromQuantumKeeps ==
  ASSUME NEW known, NEW place, NEW proc, NEW base, NEW requests, NEW resolved,
         Whole(known, place, proc, base, requests, resolved), ReadyStateFromQuantum
  PROVE  Kept(known)'
<1>1. InWait /\ Types /\ Talks(place, proc)
  BY DEF ReadyStateFromQuantum, Whole
<1>2. PICK c \in Consolas : \E extra \in Extras(proc[c].interrupt_type) :
        place[c] = "back" /\ RecvPcb(from_cpu) = Got(proc[c], extra)
  BY <1>1, WhatReturned
<1>3. PICK extra \in Extras(proc[c].interrupt_type) :
        place[c] = "back" /\ RecvPcb(from_cpu) = Got(proc[c], extra)
  BY <1>2
<1>4. PICK got \in Returned("INT_QUANTUM", 0) :
        /\ WaitCpuDispatch(got, 0) /\ ready' = ready \cup {got.value}
        /\ sched' = [at |-> "execute_algorithm"] /\ UNCHANGED <<to_consola, io, to_memoria>>
  BY DEF ReadyStateFromQuantum
<1>5. got.value = proc[c] /\ got.rest = extra /\ proc[c].interrupt_type = "INT_QUANTUM"
  BY <1>3, <1>4 DEF Returned, Got
<1>6. extra = << >>
  BY <1>3, <1>5, ExtraFacts
<1>7. from_cpu' = << >>
  <2>1. SubSeq(<< >>, 0 + 1, Len(<< >>)) = << >>
    OBVIOUS
  <2>2. QED BY <1>4, <1>5, <1>6, <2>1 DEF WaitCpuDispatch
<1>8. UNCHANGED <<kernel, consola, to_kernel, backlog, main, process_count, to_cpu,
                  from_memoria, page_fault, page_tables, left, to_consola, io, to_memoria>>
  BY <1>4 DEF WaitCpuDispatch
<1>9. Types' /\ \A d \in Consolas : SocketKept(d)
  BY <1>1, <1>8 DEF Types, SocketKept
<1>10. Talk("ready", proc[c], c)'
  <2>1. Talk("back", proc[c], c) /\ SocketKept(c)
    BY <1>1, <1>3, <1>9 DEF Talks
  <2>2. QED BY <2>1, QuietTalk DEF Quiet
<1>11. "ready" \in Places
  BY DEF Places
<1>12. QED BY <1>1, <1>3, <1>4, <1>5, <1>7, <1>8, <1>9, <1>10, <1>11, UnloadsHere

(* back to io.                                                             *)
LEMMA BlockStateKeeps ==
  ASSUME NEW known, NEW place, NEW proc, NEW base, NEW requests, NEW resolved,
         Whole(known, place, proc, base, requests, resolved), BlockState
  PROVE  Kept(known)'
<1>1. InWait /\ Types /\ Talks(place, proc)
  BY DEF BlockState, Whole
<1>2. PICK c \in Consolas : \E extra \in Extras(proc[c].interrupt_type) :
        place[c] = "back" /\ RecvPcb(from_cpu) = Got(proc[c], extra)
  BY <1>1, WhatReturned
<1>3. PICK extra \in Extras(proc[c].interrupt_type) :
        place[c] = "back" /\ RecvPcb(from_cpu) = Got(proc[c], extra)
  BY <1>2
<1>4. PICK got \in Returned("INT_IO", 3) :
        /\ WaitCpuDispatch(got, 3)
        /\ io' = io \cup {[pcb |-> got.value, device |-> got.rest[2], arg |-> got.rest[3],
                           asked |-> FALSE]}
        /\ sched' = [at |-> "execute_algorithm"] /\ UNCHANGED <<to_consola, ready, to_memoria>>
  BY DEF BlockState
<1>5. got.value = proc[c] /\ got.rest = extra /\ proc[c].interrupt_type = "INT_IO"
  BY <1>3, <1>4 DEF Returned, Got
<1>6. PICK device \in {"TECLADO", "PANTALLA"} : extra = <<STRING_OP, device, AX>>
  BY <1>3, <1>5, ExtraFacts
<1> DEFINE at == IF device = "TECLADO" THEN "io_teclado" ELSE "io_pantalla"
<1>7. at \in Places /\ at \in IoPlaces /\ at \in IoAsk /\ Device(at) = device /\ at \in Quiet
  BY DEF Places, IoPlaces, IoAsk, Device, Quiet
<1> HIDE DEF at
<1>8. from_cpu' = << >> /\ extra[2] = device /\ extra[3] = AX
  <2>1. SubSeq(<<STRING_OP, device, AX>>, 3 + 1, Len(<<STRING_OP, device, AX>>)) = << >>
    OBVIOUS
  <2>2. QED BY <1>4, <1>5, <1>6, <2>1 DEF WaitCpuDispatch
<1>9. \A b \in io' : b \in io \/ b = Blocking(proc[c], at)
  BY <1>4, <1>5, <1>7, <1>8 DEF Blocking
<1>10. UNCHANGED <<kernel, consola, to_kernel, backlog, main, process_count, to_cpu,
                   from_memoria, page_fault, page_tables, left, to_consola, ready, to_memoria>>
  BY <1>4 DEF WaitCpuDispatch
<1>11. Types' /\ \A d \in Consolas : SocketKept(d)
  BY <1>1, <1>10 DEF Types, SocketKept
<1>12. Talk(at, proc[c], c)'
  <2>1. Talk("back", proc[c], c) /\ SocketKept(c) /\ "back" \in Quiet
    BY <1>1, <1>3, <1>11 DEF Talks, Quiet
  <2>2. QED BY <1>7, <2>1, QuietTalk
<1>13. QED BY <1>1, <1>3, <1>4, <1>7, <1>8, <1>9, <1>10, <1>11, <1>12, UnloadsHere

LEMMA ConsolaTold ==
  ASSUME NEW c \in Consolas, NEW message \in Seq(Field), Types,
         to_consola' = Send(to_consola, c, message), to_consola[c] = << >>
  PROVE  /\ to_consola' \in [Consolas -> Seq(Field)] /\ to_consola'[c] = message
         /\ \A d \in Consolas : d # c => to_consola'[d] = to_consola[d]
<1>1. to_consola \in [Consolas -> Seq(Field)]
  BY DEF Types
<1>2. /\ to_consola' \in [Consolas -> Seq(Field)]
      /\ to_consola'[c] = Joined(to_consola[c], message)
      /\ \A d \in Consolas : d # c => to_consola'[d] = to_consola[d]
  <2>1. to_consola[c] \o message \in Seq(Field)
    BY <1>1
  <2>2. QED BY <1>1, <2>1 DEF Send, Joined
<1>3. Joined(<< >>, message) = message
  BY ConcatFacts DEF Joined
<1>4. QED BY <1>2, <1>3, Zenon

LEMMA AllOf ==
  ASSUME NEW F, NEW s \in Seq(F), NEW n, Len(s) = n
  PROVE  SubSeq(s, 1, n) = s
OBVIOUS

(* back to told_fault.                                                     *)
LEMMA SendSegmentationFaultKeeps ==
  ASSUME NEW known, NEW place, NEW proc, NEW base, NEW requests, NEW resolved,
         Whole(known, place, proc, base, requests, resolved), SendSegmentationFault
  PROVE  Kept(known)'
<1>1. InWait /\ Types /\ Talks(place, proc) /\ Ghosts(place, proc, base, requests, resolved)
  BY DEF SendSegmentationFault, Whole
<1>2. PICK c \in Consolas : \E extra \in Extras(proc[c].interrupt_type) :
        place[c] = "back" /\ RecvPcb(from_cpu) = Got(proc[c], extra)
  BY <1>1, WhatReturned
<1>3. PICK extra \in Extras(proc[c].interrupt_type) :
        place[c] = "back" /\ RecvPcb(from_cpu) = Got(proc[c], extra)
  BY <1>2
<1>4. PICK got \in Returned("SEGMENTATION_FAULT", 0) :
        /\ WaitCpuDispatch(got, 0)
        /\ to_consola' = Send(to_consola, got.value.socket_consola, <<SEG_FAULT>>)
        /\ sched' = [at |-> "execute_algorithm"] /\ UNCHANGED <<queues, to_memoria>>
  BY DEF SendSegmentationFault
<1>5. got.value = proc[c] /\ got.rest = extra /\ proc[c].interrupt_type = "SEGMENTATION_FAULT"
      /\ proc[c].socket_consola = c
  BY <1>1, <1>3, <1>4 DEF Returned, Got, Ghosts
<1>6. extra = << >>
  BY <1>3, <1>5, ExtraFacts
<1>7. from_cpu' = << >>
  <2>1. SubSeq(<< >>, 0 + 1, Len(<< >>)) = << >>
    OBVIOUS
  <2>2. QED BY <1>4, <1>5, <1>6, <2>1 DEF WaitCpuDispatch
<1>8. UNCHANGED <<kernel, consola, to_kernel, backlog, main, process_count, to_cpu,
                  from_memoria, page_fault, page_tables, left, ready, io, to_memoria>>
  BY <1>4 DEF WaitCpuDispatch, queues
<1> DEFINE message == <<SEG_FAULT>>
<1>9. message \in Seq(Field)
  BY NumbersAreFields
<1>10. /\ consola[c] \notin {"start", "failed"} /\ consola[c] # "ended"
       /\ consola[c] # "killed"
       /\ to_kernel[c] = << >> /\ to_consola[c] = << >> /\ left[c] = At(proc[c])
  <2>1. Talk("back", proc[c], c)
    BY <1>1, <1>3 DEF Talks
  <2>2. QED BY <2>1, Zenon DEF Talk, Uncreated
<1>11. to_consola' = Send(to_consola, c, message)
  BY <1>4, <1>5
<1> HIDE DEF message
<1>12. /\ to_consola' \in [Consolas -> Seq(Field)] /\ to_consola'[c] = message
       /\ \A d \in Consolas : d # c => to_consola'[d] = to_consola[d]
  BY <1>1, <1>9, <1>10, <1>11, ConsolaTold
<1>13. Types' /\ \A d \in Consolas : d # c => SocketKept(d)
  BY <1>1, <1>8, <1>12 DEF Types, SocketKept
<1>14. Talk("told_fault", proc[c], c)'
  <2>1. /\ consola'[c] \notin {"start", "failed"} /\ consola'[c] # "ended"
        /\ consola'[c] # "killed" /\ to_kernel'[c] = << >> /\ left'[c] = At(proc[c])
    BY <1>8, <1>10
  <2>2. to_consola'[c] = <<SEG_FAULT>>
    BY <1>12 DEF message
  <2>3. QED BY <2>1, <2>2, Zenon DEF Talk, Uncreated
<1>15. "told_fault" \in Places
  BY DEF Places
<1>16. QED BY <1>1, <1>3, <1>4, <1>7, <1>8, <1>13, <1>14, <1>15, UnloadsHere

(* The fields of a request, as they are sent.                              *)
LEMMA FaultFields ==
  ASSUME NEW s \in Seq(Field), NEW pcb \in ConsolaPcbs
  PROVE  s \o <<PAGE_FAULT>> \o AddPcb(pcb) \o <<0, 1>>
           = Joined(s, FieldsOf([op |-> PAGE_FAULT, pcb |-> pcb]))
<1> DEFINE m == [op |-> PAGE_FAULT, pcb |-> pcb]
           front == <<PAGE_FAULT>>
           body == AddPcb(pcb)
           pages == <<0, 1>>
<1>1. m.op = PAGE_FAULT /\ m.pcb = pcb
  OBVIOUS
<1> HIDE DEF m
<1>2. FieldsOf(m) = Joined(front, Joined(body, pages))
  BY <1>1, OpCodes DEF FieldsOf, Body, OpsDiffer
<1>3. front \in Seq(Field) /\ body \in Seq(Field) /\ pages \in Seq(Field)
  <2>1. PAGE_FAULT \in Field /\ 0 \in Field /\ 1 \in Field /\ << >> \in Seq(Field)
    BY NumbersAreFields
  <2>2. QED BY <2>1, PcbIn
<1> HIDE DEF front, body, pages
<1>4. Joined(s, front) \in Seq(Field) /\ Joined(body, pages) \in Seq(Field)
  BY <1>3, ConcatFacts DEF Joined
<1>5. Joined(Joined(Joined(s, front), body), pages) = Joined(Joined(s, front), Joined(body, pages))
  BY <1>3, <1>4, JoinedAssoc
<1>6. Joined(Joined(s, front), Joined(body, pages)) = Joined(s, Joined(front, Joined(body, pages)))
  BY <1>3, <1>4, JoinedAssoc
<1>7. s \o front \o body \o pages = Joined(Joined(Joined(s, front), body), pages)
  BY DEF Joined
<1>8. QED BY <1>2, <1>5, <1>6, <1>7, Zenon DEF front, body, pages, m

LEMMA PcbFields ==
  ASSUME NEW s \in Seq(Field), NEW pcb \in ConsolaPcbs,
         NEW op \in {PROCESS_FINISHED, PAGE_FAULT_RESOLVED}
  PROVE  s \o <<op>> \o AddPcb(pcb) = Joined(s, FieldsOf([op |-> op, pcb |-> pcb]))
<1> DEFINE m == [op |-> op, pcb |-> pcb]
           front == <<op>>
           body == AddPcb(pcb)
<1>1. m.op = op /\ m.pcb = pcb
  OBVIOUS
<1> HIDE DEF m
<1>2. FieldsOf(m) = Joined(front, body)
  BY <1>1, OpCodes DEF FieldsOf, Body, OpsDiffer
<1>3. front \in Seq(Field) /\ body \in Seq(Field)
  <2>1. op \in Field /\ << >> \in Seq(Field)
    BY NumbersAreFields
  <2>2. body \in Seq(Field)
    BY <2>1, PcbIn
  <2>3. front \in Seq(Field)
    BY <2>1
  <2>4. QED BY <2>2, <2>3
<1> HIDE DEF front, body
<1>4. Joined(Joined(s, front), body) = Joined(s, Joined(front, body))
  BY <1>3, JoinedAssoc
<1>5. s \o front \o body = Joined(Joined(s, front), body)
  BY DEF Joined
<1>6. QED BY <1>2, <1>4, <1>5, Zenon DEF front, body, m

(* back to fault: one more request to memoria.                             *)
LEMMA SendPageFaultResolveKeeps ==
  ASSUME NEW known, NEW place, NEW proc, NEW base, NEW requests, NEW resolved,
         Whole(known, place, proc, base, requests, resolved), SendPageFaultResolve
  PROVE  Kept(known)'
<1>1. InWait /\ Types /\ Talks(place, proc) /\ Ghosts(place, proc, base, requests, resolved)
      /\ InRequests(known, place, proc, requests) /\ requests \in Seq(Request) /\ Own(proc)
  BY DEF SendPageFaultResolve, Whole, Ghosts, Own
<1>2. PICK c \in Consolas : \E extra \in Extras(proc[c].interrupt_type) :
        place[c] = "back" /\ RecvPcb(from_cpu) = Got(proc[c], extra)
  BY <1>1, WhatReturned
<1>3. PICK extra \in Extras(proc[c].interrupt_type) :
        place[c] = "back" /\ RecvPcb(from_cpu) = Got(proc[c], extra)
  BY <1>2
<1>4. PICK got \in Returned("INT_PAGE_FAULT", 2) :
        /\ WaitCpuDispatch(got, 2)
        /\ to_memoria' = to_memoria \o <<PAGE_FAULT>> \o AddPcb(got.value)
                           \o SubSeq(got.rest, 1, 2)
        /\ sched' = [at |-> "execute_algorithm"] /\ UNCHANGED <<to_consola, queues>>
  BY DEF SendPageFaultResolve
<1>5. got.value = proc[c] /\ got.rest = extra /\ proc[c].interrupt_type = "INT_PAGE_FAULT"
      /\ proc[c] \in ConsolaPcbs
  BY <1>1, <1>3, <1>4 DEF Returned, Got, Ghosts
<1>6. extra = <<0, 1>>
  BY <1>3, <1>5, ExtraFacts
<1>7. from_cpu' = << >> /\ SubSeq(extra, 1, 2) = <<0, 1>>
  <2>1. SubSeq(<<0, 1>>, 2 + 1, Len(<<0, 1>>)) = << >>
    OBVIOUS
  <2>2. SubSeq(<<0, 1>>, 1, 2) = <<0, 1>>
    <3>1. <<0, 1>> \in Seq(Nat) /\ Len(<<0, 1>>) = 2
      OBVIOUS
    <3>2. QED BY <3>1, AllOf, Zenon
  <2>3. QED BY <1>4, <1>5, <1>6, <2>1, <2>2 DEF WaitCpuDispatch
<1>8. UNCHANGED <<kernel, consola, to_kernel, backlog, main, process_count, to_cpu,
                  from_memoria, page_fault, page_tables, left, ready, io, to_consola>>
  BY <1>4 DEF WaitCpuDispatch, queues
<1> DEFINE place2 == Moved(place, c, "fault")
           m == [op |-> PAGE_FAULT, pcb |-> proc[c]]
           more == Append(requests, m)
<1>9. Step(place, proc, c, place2, proc) /\ place2[c] = "fault" /\ "fault" \in Places
  <2>1. "fault" \in Places /\ place[c] \notin Uncreated
    BY <1>3 DEF Places, Uncreated
  <2>2. QED BY <1>1, <2>1, MovedStep
<1> HIDE DEF place2
<1>10. to_memoria' = Joined(to_memoria, FieldsOf(m))
  <2>1. to_memoria \in Seq(Field)
    BY <1>1, StreamType DEF InRequests
  <2>2. to_memoria' = to_memoria \o <<PAGE_FAULT>> \o AddPcb(proc[c]) \o <<0, 1>>
    BY <1>4, <1>5, <1>7
  <2>3. QED BY <1>5, <2>1, <2>2, FaultFields
<1>11. /\ InRequests(known, place2, proc, more)' /\ more \in Seq(Request)
       /\ OthersPending(known, requests, more, c)
  <2>1. ~ Pending(known, requests, c)
    <3>1. place[c] \notin {"main", "finish", "fault"}
      BY <1>3
    <3>2. QED BY <1>1, <3>1, NotPending
  <2>2. OtherWaits(place, c)
    BY <1>8 DEF OtherWaits
  <2>3. m \in Request
    BY <1>5 DEF Request
  <2>4. Waits(PAGE_FAULT, place2[c])'
    BY <1>9 DEF Waits
  <2>5. QED BY <1>1, <1>9, <1>10, <2>1, <2>2, <2>3, <2>4, RequestsMore
<1> HIDE DEF more, m
<1>12. Types' /\ \A d \in Consolas : SocketKept(d)
  BY <1>1, <1>8 DEF Types, SocketKept
<1>13. Talk("fault", proc[c], c)'
  <2>1. Talk("back", proc[c], c) /\ SocketKept(c)
    BY <1>1, <1>3, <1>12 DEF Talks
  <2>2. QED BY <2>1, QuietTalk DEF Quiet
<1>14. QED
  BY <1>1, <1>3, <1>4, <1>7, <1>8, <1>9, <1>11, <1>12, <1>13, Unloads DEF place2

(* back to finish: one more request to memoria.                            *)
LEMMA ExecutionFinishedKeeps ==
  ASSUME NEW known, NEW place, NEW proc, NEW base, NEW requests, NEW resolved,
         Whole(known, place, proc, base, requests, resolved), ExecutionFinished
  PROVE  Kept(known)'
<1>1. /\ InWait /\ Types /\ Talks(place, proc) /\ Ghosts(place, proc, base, requests, resolved)
      /\ InRequests(known, place, proc, requests) /\ requests \in Seq(Request) /\ Own(proc)
      /\ InReady(place, proc) /\ InIo(place, proc) /\ AtMain(known, place, proc, base)
      /\ InResolved(known, place, proc, resolved) /\ Answers(known, base, requests)
  BY DEF ExecutionFinished, Whole, Ghosts, Own
<1>2. PICK c \in Consolas : \E extra \in Extras(proc[c].interrupt_type) :
        place[c] = "back" /\ RecvPcb(from_cpu) = Got(proc[c], extra)
  BY <1>1, WhatReturned
<1>3. PICK extra \in Extras(proc[c].interrupt_type) :
        place[c] = "back" /\ RecvPcb(from_cpu) = Got(proc[c], extra)
  BY <1>2
<1>4. PICK got \in Returned("EXECUTION_FINISHED", 0) :
        /\ WaitCpuDispatch(got, 0)
        /\ to_memoria' = to_memoria \o <<PROCESS_FINISHED>> \o AddPcb(got.value)
        /\ sched' = [at |-> "recv_finished", pcb |-> got.value]
        /\ UNCHANGED <<to_consola, queues>>
  BY DEF ExecutionFinished
<1>5. got.value = proc[c] /\ got.rest = extra /\ proc[c].interrupt_type = "EXECUTION_FINISHED"
      /\ proc[c] \in ConsolaPcbs /\ proc[c].socket_consola = c
  BY <1>1, <1>3, <1>4 DEF Returned, Got, Ghosts
<1>6. extra = << >>
  BY <1>3, <1>5, ExtraFacts
<1>7. from_cpu' = << >>
  <2>1. SubSeq(<< >>, 0 + 1, Len(<< >>)) = << >>
    OBVIOUS
  <2>2. QED BY <1>4, <1>5, <1>6, <2>1 DEF WaitCpuDispatch
<1>8. UNCHANGED <<kernel, consola, to_kernel, backlog, main, process_count, to_cpu,
                  from_memoria, page_fault, page_tables, left, ready, io, to_consola>>
  BY <1>4 DEF WaitCpuDispatch, queues
<1>9. /\ place[c] \notin Uncreated \cup {"main", "finish", "fault", "ready", "resolved"}
      /\ place[c] \notin IoPlaces /\ "finish" \notin Uncreated \cup {"main"}
  BY <1>3 DEF Uncreated, IoPlaces, IoAsk
<1> DEFINE place2 == Moved(place, c, "finish")
           m == [op |-> PROCESS_FINISHED, pcb |-> proc[c]]
           more == Append(requests, m)
<1>10. /\ Step(place, proc, c, place2, proc) /\ place2[c] = "finish"
       /\ Ghosts(place2, proc, base, requests, resolved)
       /\ \A d \in Consolas : d # c => place2[d] = place[d]
  <2>1. "finish" \in Places /\ \A d \in Consolas : d # c => place2[d] = place[d]
    BY DEF Places, Moved
  <2>2. QED BY <1>1, <1>9, <2>1, MovedStep
<1> HIDE DEF place2
<1>11. to_memoria' = Joined(to_memoria, FieldsOf(m))
  <2>1. to_memoria \in Seq(Field)
    BY <1>1, StreamType DEF InRequests
  <2>2. to_memoria' = to_memoria \o <<PROCESS_FINISHED>> \o AddPcb(proc[c])
    BY <1>4, <1>5
  <2>3. QED BY <1>5, <2>1, <2>2, PcbFields
<1>12. ~ Pending(known, requests, c)
  BY <1>1, <1>9, NotPending
<1>13. /\ InRequests(known, place2, proc, more)' /\ more \in Seq(Request)
       /\ (known = "all" => Pending(known, more, c)) /\ OthersPending(known, requests, more, c)
  <2>1. OtherWaits(place, c)
    BY <1>8 DEF OtherWaits
  <2>2. m \in Request
    BY <1>5 DEF Request
  <2>3. Waits(PROCESS_FINISHED, place2[c])'
    BY <1>10 DEF Waits
  <2>4. QED BY <1>1, <1>10, <1>11, <1>12, <2>1, <2>2, <2>3, RequestsMore
<1> HIDE DEF more, m
<1>14. Ghosts(place2, proc, base, more, resolved)
  BY <1>10, <1>13 DEF Ghosts
<1>15. ASSUME known = "all"
       PROVE  Freed(known, place2[c], more, c) = Freed(known, place[c], requests, c)
  <2>1. /\ place[c] # "finish" /\ Pending(known, more, c)
        /\ place2[c] \in {"told_exit", "ended"} <=> place[c] \in {"told_exit", "ended"}
    BY <1>3, <1>10, <1>13, <1>15
  <2>2. QED BY <2>1, FreedIs
<1>16. Types' /\ \A d \in Consolas : SocketKept(d)
  BY <1>1, <1>8 DEF Types, SocketKept
<1>17. Talk(place2[c], proc[c], c)'
  <2>1. Talk("back", proc[c], c) /\ SocketKept(c)
    BY <1>1, <1>3, <1>16 DEF Talks
  <2>2. Talk("finish", proc[c], c)'
    BY <2>1, QuietTalk DEF Quiet
  <2>3. QED BY <1>10, <2>2
<1>18. /\ \A pcb \in ready' : pcb \in ready /\ pcb.socket_consola # c
       /\ \A b \in io' : b \in io /\ b.pcb.socket_consola # c
  BY <1>1, <1>8, <1>9, NotReady, NotInIo
<1>19. to_cpu = << >> /\ sched.at = "recv_pcb" /\ \A d \in Consolas : place[d] # "finish"
  BY <1>1, WhatReturned
<1>20. sched' = [at |-> "recv_finished", pcb |-> proc[c]]
       /\ sched'.at = "recv_finished" /\ sched'.pcb.socket_consola = c
  BY <1>4, <1>5
<1>21. AtSched(place2, proc)'
  BY <1>10, <1>19, <1>20 DEF AtSched
<1>22. InDispatch(place2, proc)'
  BY <1>7, <1>8, <1>19, <1>20 DEF InDispatch
<1>23. InResolved(known, place2, proc, resolved)'
  BY <1>1, <1>8, <1>9, <1>10, ResolvedKept
<1>24. Answers(known, base, more)'
  <2> SUFFICES ASSUME known = "all" PROVE Answers(known, base, more)'
    BY DEF Answers
  <2>1. ToSched(known, requests) = << >> /\ ToSched(known, more)' = << >>
    BY <1>13, <1>19, <1>20 DEF ToSched
  <2>2. main.at # "accept" => Console \in Consolas /\ Console # c
    BY <1>1, <1>9 DEF AtMain, Own, Console, Creating
  <2>3. main.at # "accept" => (Pending(known, more, Console) <=> Pending(known, requests, Console))
    BY <1>13, <2>2 DEF OthersPending
  <2>4. ToMain(known, base, more)' = ToMain(known, base, requests)
    <3>1. ToMain(known, base, more)' = ToMain(known, base, more)
      BY <1>8 DEF ToMain, Console
    <3>2. ToMain(known, base, more) = ToMain(known, base, requests)
      BY <2>3 DEF ToMain
    <3>3. QED BY <3>1, <3>2
  <2>5. QED BY <1>1, <1>8, <2>1, <2>4 DEF Answers
<1>25. QED
  BY <1>8, <1>9, <1>10, <1>13, <1>14, <1>15, <1>16, <1>17, <1>18, <1>21, <1>22, <1>23, <1>24,
     Travels

-----------------------------------------------------------------------------
(* To the CPU and back.                                                    *)

(* What is neither in a socket of memoria nor in a queue afterwards.       *)
LEMMA InCpu ==
  ASSUME NEW known, NEW place, NEW proc, NEW base, NEW requests, NEW resolved,
         Whole(known, place, proc, base, requests, resolved),
         NEW c, NEW place2, NEW proc2, Step(place, proc, c, place2, proc2),
         Ghosts(place2, proc2, base, requests, resolved),
         place[c] \in {"ready", "cpu"}, place2[c] \in {"cpu", "back"},
         proc2[c].id = proc[c].id, proc2[c].segment_table = proc[c].segment_table,
         UNCHANGED <<kernel, consola, to_kernel, to_consola, backlog, main, process_count, io,
                     to_memoria, from_memoria, page_fault, page_tables>>,
         sched' = sched \/ (sched.at # "recv_finished" /\ sched'.at # "recv_finished"),
         \A pcb \in ready' : pcb \in ready /\ pcb.socket_consola # c,
         AtSched(place2, proc2)', InDispatch(place2, proc2)',
         Types', \A d \in Consolas : d # c => left'[d] = left[d], left'[c] = At(proc2[c])
  PROVE  Kept(known)'
<1>1. /\ Ghosts(place, proc, base, requests, resolved) /\ Types /\ InIo(place, proc)
      /\ AtSched(place, proc) /\ AtMain(known, place, proc, base)
      /\ InRequests(known, place, proc, requests) /\ InResolved(known, place, proc, resolved)
      /\ Talks(place, proc) /\ Answers(known, base, requests) /\ Own(proc) /\ c \in Consolas
  BY DEF Whole, Ghosts, Own, Step
<1>2. /\ place[c] \notin Uncreated \cup {"main", "finish", "fault", "resolved"}
      /\ place2[c] \notin Uncreated \cup {"main", "finish", "ready"}
      /\ place[c] \notin {"told_exit", "ended"} /\ place2[c] \notin {"told_exit", "ended"}
      /\ place[c] \notin IoPlaces
  BY DEF Uncreated, IoPlaces, IoAsk
<1>3. OthersPending(known, requests, requests, c)
  BY DEF OthersPending
<1>4. Freed(known, place2[c], requests, c) = Freed(known, place[c], requests, c)
  BY <1>2, FreedIs
<1>5. \A b \in io' : b \in io /\ b.pcb.socket_consola # c
  BY <1>1, <1>2, NotInIo
<1>6. InRequests(known, place2, proc2, requests)'
  BY <1>1, <1>2, NotPending, RequestsKept
<1>7. InResolved(known, place2, proc2, resolved)'
  BY <1>1, <1>2, ResolvedKept
<1>8. Answers(known, base, requests)'
  BY <1>1, <1>2, <1>3, AnswersKept
<1>9. \A d \in Consolas : d # c => SocketKept(d)
  BY <1>1 DEF SocketKept
<1>10. Talk(place2[c], proc2[c], c)'
  <2>1. Talk(place[c], proc[c], c)
    BY <1>1 DEF Talks
  <2>2. place[c] \notin {"start", "ended", "killed", "backlog", "answered_teclado",
          "answered_pantalla", "asked_teclado", "asked_pantalla", "told_exit", "told_fault"}
    OBVIOUS
  <2>3. /\ consola[c] \notin {"start", "failed"} /\ consola[c] # "ended" /\ consola[c] # "killed"
        /\ to_kernel[c] = << >> /\ to_consola[c] = << >>
    BY <2>1, <2>2, Zenon DEF Talk
  <2>4. ASSUME NEW at, at \notin Uncreated,
               at \notin {"start", "ended", "killed", "backlog", "answered_teclado",
                 "answered_pantalla", "asked_teclado", "asked_pantalla", "told_exit", "told_fault"}
        PROVE  Talk(at, proc2[c], c)'
    <3>1. /\ consola'[c] \notin {"start", "failed"} /\ consola'[c] # "ended"
          /\ consola'[c] # "killed"
          /\ to_kernel'[c] = << >> /\ to_consola'[c] = << >> /\ left'[c] = At(proc2[c])
      BY <2>3
    <3>2. QED BY <2>4, <3>1, Zenon DEF Talk
  <2>5. place2[c] \notin {"start", "ended", "killed", "backlog", "answered_teclado",
          "answered_pantalla", "asked_teclado", "asked_pantalla", "told_exit", "told_fault"}
    OBVIOUS
  <2>6. QED BY <1>2, <2>4, <2>5
<1>11. QED
  BY <1>2, <1>3, <1>4, <1>5, <1>6, <1>7, <1>8, <1>9, <1>10, Travels

(* ready to cpu: the pcb is alone in the socket.                           *)
LEMMA ExecuteAlgorithmKeeps ==
  ASSUME NEW known, NEW place, NEW proc, NEW base, NEW requests, NEW resolved,
         Whole(known, place, proc, base, requests, resolved), ExecuteAlgorithm
  PROVE  Kept(known)'
<1>1. /\ Ghosts(place, proc, base, requests, resolved) /\ Types /\ InReady(place, proc)
      /\ AtSched(place, proc) /\ InDispatch(place, proc) /\ Talks(place, proc) /\ Own(proc)
  BY DEF Whole, Ghosts, Own
<1>2. PICK pcb \in ready : ready' = ready \ {pcb} /\ to_cpu' = to_cpu \o AddPcb(pcb)
  BY DEF ExecuteAlgorithm
<1>3. PICK c \in Consolas : place[c] = "ready" /\ pcb = proc[c]
  BY <1>1 DEF InReady
<1>4. /\ sched.at = "execute_algorithm" /\ sched' = [at |-> "recv_pcb"]
      /\ UNCHANGED <<kernel, consola, to_kernel, to_consola, backlog, main, process_count, io,
                     from_cpu, to_memoria, from_memoria, page_fault, page_tables, left>>
  BY DEF ExecuteAlgorithm, consolas, memoria
<1>5. sched'.at = "recv_pcb" /\ \A d \in Consolas : place[d] # "finish"
  BY <1>1, <1>4 DEF AtSched
<1>6. to_cpu = << >> /\ from_cpu = << >>
  BY <1>1, <1>4 DEF InDispatch
<1>7. to_cpu' = AddPcb(pcb)
  <2>1. AddPcb(pcb) \in Seq(Field)
    <3>1. pcb \in ConsolaPcbs /\ << >> \in Seq(Field)
      BY <1>1, <1>3 DEF Ghosts
    <3>2. QED BY <3>1, PcbIn
  <2>2. << >> \o AddPcb(pcb) = AddPcb(pcb)
    BY <2>1, ConcatFacts
  <2>3. QED BY <1>2, <1>6, <2>2
<1> DEFINE place2 == Moved(place, c, "cpu")
<1>8. /\ Step(place, proc, c, place2, proc) /\ place2[c] = "cpu"
      /\ Ghosts(place2, proc, base, requests, resolved)
      /\ \A d \in Consolas : d # c => place2[d] = place[d]
  <2>1. "cpu" \in Places /\ place[c] \notin Uncreated
        /\ \A d \in Consolas : d # c => place2[d] = place[d]
    BY <1>3 DEF Places, Uncreated, Moved
  <2>2. QED BY <1>1, <2>1, MovedStep
<1> HIDE DEF place2
<1>9. \A p \in ready' : p \in ready /\ p.socket_consola # c
  BY <1>1, <1>2, <1>3 DEF InReady, Own
<1>10. AtSched(place2, proc)'
  BY <1>4, <1>5, <1>8 DEF AtSched
<1>11. InDispatch(place2, proc)'
  BY <1>3, <1>4, <1>5, <1>6, <1>7, <1>8 DEF InDispatch
<1>12. /\ Types'
       /\ \A d \in Consolas : left'[d] = left[d]
       /\ left'[c] = At(proc[c])
  <2>1. Talk(place[c], proc[c], c) /\ place[c] \notin Uncreated
        /\ place[c] # "answered_teclado"
    BY <1>1, <1>3 DEF Talks, Uncreated
  <2>2. left[c] = At(proc[c])
    BY <2>1, Zenon DEF Talk
  <2>3. QED BY <1>1, <1>4, <2>2 DEF Types
<1>13. sched.at # "recv_finished" /\ sched'.at # "recv_finished"
  BY <1>4, <1>5
<1>14. QED
  BY <1>3, <1>4, <1>8, <1>9, <1>10, <1>11, <1>12, <1>13, InCpu

(* The CPU gives p back for pcb, and extra behind it.                      *)
LEMMA Burst ==
  ASSUME NEW known, NEW place, NEW proc, NEW base, NEW requests, NEW resolved,
         Whole(known, place, proc, base, requests, resolved),
         NEW c \in Consolas, place[c] = "cpu", from_cpu = << >>, sched.at = "recv_pcb",
         NEW p \in ConsolaPcbs, p.socket_consola = c, p.instructions = proc[c].instructions,
         p.id = proc[c].id, p.segment_table = proc[c].segment_table,
         NEW extra \in Extras(p.interrupt_type),
         to_cpu' = << >>, from_cpu' = Joined(AddPcb(p), extra),
         Types', \A d \in Consolas : d # c => left'[d] = left[d], left'[c] = At(p),
         UNCHANGED <<kernel, consola, to_kernel, to_consola, backlog, main, process_count, io, ready,
                     to_memoria, from_memoria, page_fault, page_tables, sched>>
  PROVE  Kept(known)'
<1>1. /\ Ghosts(place, proc, base, requests, resolved) /\ Types /\ InReady(place, proc)
      /\ AtSched(place, proc) /\ Own(proc)
  BY DEF Whole, Ghosts, Own
<1> DEFINE place2 == Moved(place, c, "back")
           proc2 == Moved(proc, c, p)
<1>2. /\ Step(place, proc, c, place2, proc2) /\ place2[c] = "back" /\ proc2[c] = p
      /\ Ghosts(place2, proc2, base, requests, resolved)
  <2>1. "back" \in Places /\ p.instructions = Listing[c]
    BY <1>1 DEF Places, Ghosts, Uncreated
  <2>2. QED BY <1>1, <2>1, MovedWithStep
<1>3. \A d \in Consolas : d # c => place2[d] = place[d]
  BY <1>2 DEF Step
<1> HIDE DEF place2, proc2
<1>4. \A q \in ready' : q \in ready /\ q.socket_consola # c
  BY <1>1, NotReady
<1>5. AtSched(place2, proc2)'
  <2>1. \A d \in Consolas : place[d] # "finish"
    BY <1>1 DEF AtSched
  <2>2. sched = [at |-> "recv_pcb"]
    BY <1>1 DEF AtSched
  <2>3. QED BY <1>2, <1>3, <2>1, <2>2 DEF AtSched
<1>6. InDispatch(place2, proc2)'
  BY <1>2 DEF InDispatch
<1>7. /\ place[c] \in {"ready", "cpu"} /\ place2[c] \in {"cpu", "back"}
       /\ proc2[c].id = proc[c].id /\ proc2[c].segment_table = proc[c].segment_table
       /\ left'[c] = At(proc2[c])
  BY <1>2
<1>8. QED
  BY <1>2, <1>4, <1>5, <1>6, <1>7, InCpu

(* What the CPU changes of a pcb.                                          *)
Back(pcb, type, pc, registers) ==
  [pcb EXCEPT !.interrupt_type = type, !.program_counter = pc, !.registers = registers]
LEMMA BackFacts ==
  ASSUME NEW pcb \in ConsolaPcbs, NEW type \in Words, NEW pc \in Int,
         NEW registers \in [1 .. 4 -> Field], NEW p, p = Back(pcb, type, pc, registers)
  PROVE  /\ p \in ConsolaPcbs
         /\ p.socket_consola = pcb.socket_consola
         /\ p.instructions = pcb.instructions
         /\ p.id = pcb.id
         /\ p.segment_table = pcb.segment_table
         /\ p.interrupt_type = type
<1>1. type \in Field
  BY NumbersAreFields
<1>2. QED BY <1>1 DEF Back, ConsolaPcbs, Pcbs

(* cpu to back, with any interrupt_type.                                   *)
LEMMA CpuBurstKeeps ==
  ASSUME NEW known, NEW place, NEW proc, NEW base, NEW requests, NEW resolved,
         Whole(known, place, proc, base, requests, resolved), CpuBurst
  PROVE  Kept(known)'
<1>1. /\ Ghosts(place, proc, base, requests, resolved) /\ InDispatch(place, proc)
      /\ to_cpu # << >>
  BY DEF Whole, CpuBurst
<1>2. sched.at = "recv_pcb"
  BY <1>1 DEF InDispatch
<1>3. PICK c \in Consolas : place[c] = "cpu" /\ from_cpu = << >> /\ to_cpu = AddPcb(proc[c])
  BY <1>1, <1>2 DEF InDispatch
<1> DEFINE pcb == proc[c]
<1>4. pcb \in ConsolaPcbs /\ pcb.socket_consola = c
  BY <1>1 DEF Ghosts
<1>5. RecvPcb(to_cpu) = Got(pcb, << >>)
  BY <1>3, <1>4, PcbAlone
<1> DEFINE next == pcb.program_counter + 1
           Returns(p, extra) ==
             /\ from_cpu' = from_cpu \o AddPcb(p) \o extra
             /\ left' = [left EXCEPT ![pcb.socket_consola] = At(p)]
<1>6. /\ \/ Returns(Back(pcb, "EXECUTION_FINISHED", next, pcb.registers), << >>)
         \/ Returns(Back(pcb, "SEGMENTATION_FAULT", pcb.program_counter, pcb.registers), << >>)
         \/ Returns(Back(pcb, "INT_QUANTUM", next, [pcb.registers EXCEPT ![2] = next]), << >>)
         \/ Returns(Back(pcb, "INT_PAGE_FAULT", next, pcb.registers), <<0, 1>>)
         \/ \E device \in {"TECLADO", "PANTALLA"} :
              Returns(Back(pcb, "INT_IO", next, pcb.registers), <<STRING_OP, device, AX>>)
  <2>1. \E got \in {RecvPcb(to_cpu)} : got.value = pcb /\ got.rest = << >>
    BY <1>5 DEF Got
  <2> HIDE DEF pcb
  <2>2. QED BY <1>5, <2>1 DEF CpuBurst, Got, Back
<1>7. /\ to_cpu' = << >>
      /\ UNCHANGED <<kernel, consola, to_kernel, to_consola, backlog, main, process_count, io, ready,
                     to_memoria, from_memoria, page_fault, page_tables, sched>>
  <2>1. \E got \in {RecvPcb(to_cpu)} : got.value = pcb /\ got.rest = << >>
    BY <1>5 DEF Got
  <2> HIDE DEF pcb
  <2>2. QED BY <1>5, <2>1 DEF CpuBurst, Got, consolas, memoria, queues
<1>8. /\ pcb.program_counter \in Int /\ next \in Int
      /\ pcb.registers \in [1 .. 4 -> Field]
      /\ [pcb.registers EXCEPT ![2] = next] \in [1 .. 4 -> Field]
  <2>1. pcb.program_counter \in Int /\ pcb.registers \in [1 .. 4 -> Field]
    BY <1>4 DEF ConsolaPcbs, Pcbs
  <2>2. next \in Int /\ next \in Field
    BY <2>1, NumbersAreFields
  <2> HIDE DEF next, pcb
  <2>3. QED BY <2>1, <2>2
<1> HIDE DEF next, Returns
<1>9. ASSUME NEW type \in Words, NEW pc \in Int, NEW registers \in [1 .. 4 -> Field],
             NEW extra \in Extras(type), Returns(Back(pcb, type, pc, registers), extra)
      PROVE  Kept(known)'
  <2> HIDE DEF pcb
  <2> PICK p : p = Back(pcb, type, pc, registers)
    OBVIOUS
  <2>1. /\ p \in ConsolaPcbs /\ p.socket_consola = c /\ p.instructions = pcb.instructions
        /\ p.id = pcb.id /\ p.segment_table = pcb.segment_table /\ p.interrupt_type = type
    BY <1>4, BackFacts
  <2>2. /\ from_cpu' = from_cpu \o AddPcb(p) \o extra /\ left' = [left EXCEPT ![c] = At(p)]
    BY <1>4, <1>9 DEF Returns
  <2>3. Types' /\ (\A d \in Consolas : d # c => left'[d] = left[d]) /\ left'[c] = At(p)
    <3>1. Types
      BY DEF Whole
    <3>2. QED BY <1>7, <2>2, <3>1 DEF Types
  <2>4. from_cpu' = Joined(AddPcb(p), extra)
    <3>1. AddPcb(p) \in Seq(Field)
      <4>1. << >> \in Seq(Field)
        OBVIOUS
      <4>2. QED BY <2>1, <4>1, PcbIn
    <3>2. << >> \o AddPcb(p) = AddPcb(p)
      BY <3>1, ConcatFacts
    <3>3. QED BY <1>3, <2>2, <3>2 DEF Joined
  <2>5. /\ p.instructions = proc[c].instructions /\ p.id = proc[c].id
        /\ p.segment_table = proc[c].segment_table /\ extra \in Extras(p.interrupt_type)
    BY <2>1 DEF pcb
  <2>6. QED BY <1>2, <1>3, <1>7, <2>1, <2>5, <2>3, <2>4, Burst
<1>10. /\ << >> \in Extras("EXECUTION_FINISHED") /\ << >> \in Extras("SEGMENTATION_FAULT")
      /\ << >> \in Extras("INT_QUANTUM") /\ <<0, 1>> \in Extras("INT_PAGE_FAULT")
      /\ \A device \in {"TECLADO", "PANTALLA"} : <<STRING_OP, device, AX>> \in Extras("INT_IO")
  BY DEF Extras
<1>11. {"EXECUTION_FINISHED", "SEGMENTATION_FAULT", "INT_QUANTUM", "INT_PAGE_FAULT", "INT_IO"}
         \subseteq Words
  BY DEF Words
<1>12. QED BY <1>6, <1>8, <1>9, <1>10, <1>11
=============================================================================
