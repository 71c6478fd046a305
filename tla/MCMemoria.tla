------------------------------ MODULE MCMemoria ------------------------------
(* Small instances of Memoria: two processes, one with two pages.          *)
EXTENDS Memoria

CONSTANTS p1, p2, a1, a2, b1

TwoAndOne == (p1 :> <<a1, a2>>) @@ (p2 :> <<b1>>)
=============================================================================
