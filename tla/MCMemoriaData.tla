---------------------------- MODULE MCMemoriaData ----------------------------
(* One process with two pages: no step of another process is in the way.   *)
EXTENDS MemoriaData

CONSTANTS p1, a1, a2

TwoPages == p1 :> <<a1, a2>>
=============================================================================
