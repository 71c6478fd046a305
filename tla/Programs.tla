------------------------------- MODULE Programs -------------------------------
(***************************************************************************)
(* What a user of the system may expect: each program runs one instruction *)
(* after the other, each one exactly once, on registers and a flat memory  *)
(* of its own, whatever the quantum, the page faults and the other         *)
(* programs do.  Between an I/O and its end no instruction of the program  *)
(* runs.  Which program runs when is left open.                            *)
(***************************************************************************)
EXTENDS Integers, Sequences

CONSTANTS
  Pids,
  Program,        \* the instructions of each process
  Segments,       \* the sizes of its segments
  SegmentMaxSize, \* the distance between the addresses of two segments
  Registers,
  WordSize,       \* 2^32: the registers are uint32_t
  Typed,          \* what a user may answer to TECLADO
  Starts,         \* the program counters a process may start with
  Unwritten       \* the value of a cell no MOV_OUT has written

VARIABLES
  counter,    \* of the next instruction of each process
  registers,
  memory,     \* of each process, by address
  state,      \* "running", "waiting" for an I/O, "finished" or "killed"
  shown,      \* what PANTALLA displayed, in order
  up          \* the machine works

vars == <<counter, registers, memory, state, shown, up>>

Words == 0 .. WordSize - 1
Addresses(p) ==
  {Program[p][k].dl : k \in {i \in DOMAIN Program[p] : Program[p][i].type \in {"MOV_IN", "MOV_OUT"}}}

Init ==
  /\ counter \in [Pids -> Starts]
  /\ registers = [p \in Pids |-> [r \in Registers |-> 0]]
  /\ memory = [p \in Pids |-> [dl \in Addresses(p) |-> Unwritten]]
  /\ state = [p \in Pids |-> "running"]
  /\ shown = [p \in Pids |-> << >>]
  /\ up = TRUE

(* Segment s has the addresses from its base on, size of them but never    *)
(* more than up to the next base.                                          *)
Base(s) == (s - 1) * SegmentMaxSize
InSegment(p, dl) ==
  \E s \in DOMAIN Segments[p] :
    /\ Base(s) <= dl
    /\ dl < Base(s) + Segments[p][s]
    /\ dl < Base(s + 1)
PastTheLast(p, dl) == Base(Len(Segments[p]) + 1) <= dl

HasNext(p) == counter[p] < Len(Program[p])
Instruction(p) == Program[p][counter[p] + 1]
Runs(p, types) ==
  up /\ state[p] = "running" /\ HasNext(p) /\ Instruction(p).type \in types
Advance(p) == counter' = [counter EXCEPT ![p] = @ + 1]

Set(p) ==
  /\ Runs(p, {"SET"})
  /\ registers' = [registers EXCEPT ![p][Instruction(p).reg] = Instruction(p).value]
  /\ Advance(p)
  /\ UNCHANGED <<memory, state, shown, up>>

Add(p) ==
  /\ Runs(p, {"ADD"})
  /\ LET i == Instruction(p)
     IN registers' = [registers EXCEPT ![p][i.reg] = (@ + registers[p][i.reg2]) % WordSize]
  /\ Advance(p)
  /\ UNCHANGED <<memory, state, shown, up>>

(* A cell nobody wrote holds anything.                                     *)
MovIn(p) ==
  /\ Runs(p, {"MOV_IN"})
  /\ InSegment(p, Instruction(p).dl)
  /\ \E v \in Words :
       /\ memory[p][Instruction(p).dl] \in {v, Unwritten}
       /\ registers' = [registers EXCEPT ![p][Instruction(p).reg] = v]
  /\ Advance(p)
  /\ UNCHANGED <<memory, state, shown, up>>

MovOut(p) ==
  /\ Runs(p, {"MOV_OUT"})
  /\ InSegment(p, Instruction(p).dl)
  /\ memory' = [memory EXCEPT ![p][Instruction(p).dl] = registers[p][Instruction(p).reg]]
  /\ Advance(p)
  /\ UNCHANGED <<registers, state, shown, up>>

SegmentationFault(p) ==
  /\ Runs(p, {"MOV_IN", "MOV_OUT"})
  /\ ~ InSegment(p, Instruction(p).dl)
  /\ ~ PastTheLast(p, Instruction(p).dl)
  /\ state' = [state EXCEPT ![p] = "killed"]
  /\ UNCHANGED <<counter, registers, memory, shown, up>>

StartIo(p) ==
  /\ Runs(p, {"IO"})
  /\ state' = [state EXCEPT ![p] = "waiting"]
  /\ Advance(p)
  /\ UNCHANGED <<registers, memory, shown, up>>

(* The I/O the process waits for is the instruction before its counter.    *)
EndIo(p) ==
  LET io == Program[p][counter[p]]
  IN /\ state[p] = "waiting"
     /\ state' = [state EXCEPT ![p] = "running"]
     /\ IF io.device = "TECLADO"
          THEN \E v \in Typed : registers' = [registers EXCEPT ![p][io.arg] = v]
          ELSE UNCHANGED registers
     /\ IF io.device = "PANTALLA"
          THEN shown' = [shown EXCEPT ![p] = Append(@, registers[p][io.arg])]
          ELSE UNCHANGED shown
     /\ UNCHANGED <<counter, memory, up>>

Exit(p) ==
  /\ Runs(p, {"EXIT"})
  /\ state' = [state EXCEPT ![p] = "finished"]
  /\ UNCHANGED <<counter, registers, memory, shown, up>>

(* An address past the last segment, or a counter past the last            *)
(* instruction, takes the machine down.                                    *)
Crash(p) ==
  /\ up
  /\ state[p] = "running"
  /\ \/ ~ HasNext(p)
     \/ Runs(p, {"MOV_IN", "MOV_OUT"}) /\ PastTheLast(p, Instruction(p).dl)
  /\ up' = FALSE
  /\ UNCHANGED <<counter, registers, memory, state, shown>>

Step(p) ==
  \/ Set(p)
  \/ Add(p)
  \/ MovIn(p)
  \/ MovOut(p)
  \/ SegmentationFault(p)
  \/ StartIo(p)
  \/ EndIo(p)
  \/ Exit(p)
  \/ Crash(p)

Next == \E p \in Pids : Step(p)

Spec == Init /\ [][Next]_vars
=============================================================================
