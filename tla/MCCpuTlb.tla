------------------------------ MODULE MCCpuTlb ------------------------------
(* Small instances of CpuTlb: two processes, three pages.                  *)
EXTENDS CpuTlb

CONSTANTS p1, p2, a1, a2, b1

TwoAndOne == (p1 :> <<a1, a2>>) @@ (p2 :> <<b1>>)
=============================================================================
