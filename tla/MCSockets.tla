------------------------------ MODULE MCSockets ------------------------------
(* Two consoles.  The file of the first one may have tabs and empty lines, *)
(* and a blank at the end of a line would join it with the next; the file  *)
(* of the second one may end with a newline, and then the console exits.   *)
EXTENDS Sockets, TLC

CONSTANTS c1, c2

Number_(n) == [is_string |-> FALSE, parameter |-> n]
String_(s) == [is_string |-> TRUE, parameter |-> s]
Line(type, parameters) == [instruction |-> type, parameters |-> parameters]

Set3  == <<Word("SET"), Blank, Word("BX"), Blank, Number(3)>>
Spaced == <<Blank, NewLine, Word("SET"), Blank, Blank, Word("BX"), Blank, Number(3)>>
Io    == <<Word("IO"), Blank, Word("TECLADO"), Blank, Word("AX")>>
End   == <<Word("EXIT")>>
TwoLines(one, two) == one \o <<NewLine>> \o two

TwoListings ==
  (c1 :> << Line("SET", <<Number_(1), Number_(3)>>), Line("EXIT", << >>) >>)
  @@
  (c2 :> << Line("IO", <<String_("TECLADO"), Number_(0)>>), Line("EXIT", << >>) >>)

TwoTexts ==
  (c1 :> { TwoLines(Set3, End), TwoLines(Spaced \o <<NewLine>>, End) })
  @@
  (c2 :> { TwoLines(Io, End), TwoLines(Io, End \o <<NewLine>>) })

TwoSegmentos == (c1 :> <<16, 8>>) @@ (c2 :> <<24>>)
=============================================================================
