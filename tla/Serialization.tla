---------------------------- MODULE Serialization ----------------------------
(***************************************************************************)
(* What goes over the sockets (serialization.c): a message is a sequence   *)
(* of fields, one for each add_to_buffer of its sender, and its receiver   *)
(* takes them one recv at a time.  A field is a value: its bytes, and the  *)
(* length in front of a string, are left out.  A recv_* of a whole object  *)
(* returns what it read and what is left in the socket; the op code in     *)
(* front of an object inside a message is skipped here, and what a reader  *)
(* does with a wrong one is up to the module that has two readers.         *)
(***************************************************************************)
EXTENDS Integers, Sequences
Seqs == INSTANCE SequencesExt

(* op_code                                                                 *)
STRING_OP           == 0
INSTRUCTIONS        == 1
SEGMENTS            == 2
PCB                 == 3
TECLADO             == 4
PANTALLA            == 5
PROCESS_STARTED     == 6
PROCESS_FINISHED    == 7
SEG_FAULT           == 8
PAGE_FAULT          == 9
PAGE_FAULT_RESOLVED == 10

-----------------------------------------------------------------------------
(* Senders.                                                                *)

(* The fields of the elements of a list, in order.                         *)
AddEach(Add(_), list) == Seqs!FlattenSeq([k \in DOMAIN list |-> Add(list[k])])

AddParameter(q) ==
  IF q.is_string THEN <<TRUE, STRING_OP, q.parameter>> ELSE <<FALSE, q.parameter>>
AddInstruction(i) ==
  <<i.instruction, Len(i.parameters)>> \o AddEach(AddParameter, i.parameters)
AddInstructions(list) == <<INSTRUCTIONS, Len(list)>> \o AddEach(AddInstruction, list)

AddSegment(segment) == <<segment.size, segment.page_table_index>>
AddSegmentTable(table) == <<Len(table)>> \o AddEach(AddSegment, table)

AddPcb(pcb) ==
  <<PCB, pcb.id, pcb.interrupt_type, pcb.program_counter>>
    \o pcb.registers
    \o <<pcb.socket_consola>>
    \o AddSegmentTable(pcb.segment_table)
    \o AddInstructions(pcb.instructions)

(* send_segments and send_process_started                                  *)
AddSegments(sizes) == <<SEGMENTS, Len(sizes)>> \o sizes
AddProcessStarted(pid, sizes) == <<PROCESS_STARTED, pid, Len(sizes)>> \o sizes

-----------------------------------------------------------------------------
(* Receivers.                                                              *)

Got(value, rest) == [value |-> value, rest |-> rest]

(* What is done next with what a receiver got.  It is F(got): the CHOOSE   *)
(* has TLC evaluate got once.                                              *)
Then(got, F(_)) == CHOOSE y \in {F(x) : x \in {got}} : TRUE

RecvInt(stream) == Got(Head(stream), Tail(stream))

(* The loop of n times recv in list_add(list, recv).                       *)
RecvEach(Recv(_), n, stream) ==
  LET got[k \in 0 .. n] ==
        IF k = 0 THEN Got(<< >>, stream)
        ELSE Then(got[k - 1], LAMBDA before :
               Then(Recv(before.rest), LAMBDA one :
                 Got(Append(before.value, one.value), one.rest)))
  IN got[n]

RecvParameter(stream) ==
  LET at == IF Head(stream) THEN 3 ELSE 2
  IN Got([is_string |-> Head(stream), parameter |-> stream[at]],
         SubSeq(stream, at + 1, Len(stream)))
RecvInstruction(stream) ==
  Then(RecvEach(RecvParameter, stream[2], SubSeq(stream, 3, Len(stream))),
       LAMBDA got : Got([instruction |-> stream[1], parameters |-> got.value], got.rest))
RecvInstructions(stream) ==
  RecvEach(RecvInstruction, stream[2], SubSeq(stream, 3, Len(stream)))

RecvSegment(stream) ==
  Got([size |-> stream[1], page_table_index |-> stream[2]], SubSeq(stream, 3, Len(stream)))
RecvSegmentTable(stream) == RecvEach(RecvSegment, stream[1], Tail(stream))

(* Mutant: the counter is read after the registers.                        *)
RecvPcbSwapped(stream) ==
  Then(RecvSegmentTable(SubSeq(stream, 10, Len(stream))), LAMBDA table :
    Then(RecvInstructions(table.rest), LAMBDA instructions :
      Got([id |-> stream[2], interrupt_type |-> stream[3], registers |-> SubSeq(stream, 4, 7),
           program_counter |-> stream[8], socket_consola |-> stream[9],
           segment_table |-> table.value, instructions |-> instructions.value],
          instructions.rest)))

RecvPcb(stream) ==
  Then(RecvSegmentTable(SubSeq(stream, 10, Len(stream))), LAMBDA table :
    Then(RecvInstructions(table.rest), LAMBDA instructions :
      Got([id |-> stream[2], interrupt_type |-> stream[3], program_counter |-> stream[4],
           registers |-> SubSeq(stream, 5, 8), socket_consola |-> stream[9],
           segment_table |-> table.value, instructions |-> instructions.value],
          instructions.rest)))

(* recv_segments after its op code, recv_process_started after the pid     *)
RecvSegments(stream) == RecvEach(RecvInt, stream[1], Tail(stream))
=============================================================================
