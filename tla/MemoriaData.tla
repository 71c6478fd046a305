----------------------------- MODULE MemoriaData -----------------------------
(***************************************************************************)
(* What the programs read from memoria after its pages went to swap and    *)
(* came back.  written is a history variable: the pages whose process has  *)
(* written to them.                                                        *)
(***************************************************************************)
EXTENDS Memoria

VARIABLE written

DataInit == Init /\ written = {}

DataNext ==
  /\ Next
  /\ written' = written \cup
       {x \in Pages : \E p \in Pids : RamCopy(p) /\ mov[p] = [page |-> x, op |-> "MOV_OUT"]}

DataSpec == DataInit /\ [][DataNext]_<<mvars, written>>

(* "Esta en disco. Traemos los datos de disco" (handle_kernel.c:167-168):  *)
(* a process that reads a page it wrote finds what it wrote, whatever the  *)
(* swap did with the page meanwhile.                                       *)
ReadsBack ==
  \A p \in Pids :
    (proc[p] = "running" /\ cpu.at = "memcpy" /\ mov[p].page \in written)
      => ram[cpu.frame] = mov[p].page
=============================================================================
