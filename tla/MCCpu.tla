-------------------------------- MODULE MCCpu --------------------------------
(* Two programs on pages of eight bytes, two to a segment: segments start  *)
(* at the multiples of sixteen.                                            *)
EXTENDS Cpu, TLC

CONSTANTS p1, p2

SetI(reg, value)   == [type |-> "SET", reg |-> reg, value |-> value]
AddI(reg, reg2)    == [type |-> "ADD", reg |-> reg, reg2 |-> reg2]
MovIn(reg, dl)     == [type |-> "MOV_IN", reg |-> reg, dl |-> dl]
MovOut(dl, reg)    == [type |-> "MOV_OUT", reg |-> reg, dl |-> dl]
Io(device, arg)    == [type |-> "IO", device |-> device, arg |-> arg]
ExitI              == [type |-> "EXIT"]

(* The first program writes to two segments and ends by a segmentation     *)
(* fault at the first address after its second one; the second program     *)
(* uses the three kinds of devices.                                        *)
TwoPrograms ==
  (p1 :> << SetI("AX", 3), MovOut(20, "AX"), AddI("AX", "AX"), MovOut(4, "AX"),
            MovIn("BX", 20), MovOut(24, "BX") >>)
  @@
  (p2 :> << Io("TECLADO", "AX"), MovOut(4, "AX"), Io("DISCO", 1),
            Io("PANTALLA", "AX"), ExitI >>)
TwoTables == (p1 :> <<16, 8>>) @@ (p2 :> <<8>>)
=============================================================================
