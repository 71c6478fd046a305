-------------------------------- MODULE Parser --------------------------------
(***************************************************************************)
(* The parser of the console (parser.c): from the text of a program to its *)
(* list of instructions.  A text is a sequence of tokens, words, numbers,  *)
(* blanks and newlines; two words have a blank or a newline in between.    *)
(***************************************************************************)
EXTENDS Integers, Sequences

Word(w)   == [kind |-> "word", value |-> w]
Number(n) == [kind |-> "number", value |-> n]
Blank     == [kind |-> "blank"]
NewLine   == [kind |-> "newline"]
(* What next_word returns at the end of the file: the character EOF.       *)
EofWord   == Word("EOF")

(* t_operation_conversion and t_register_conversion                        *)
StrToInst == [SET |-> "SET", ADD |-> "ADD", MOV_IN |-> "MOV_IN", MOV_OUT |-> "MOV_OUT",
              IO |-> "IO", EXIT |-> "EXIT"]
StrToReg == [AX |-> 0, BX |-> 1, CX |-> 2, DX |-> 3]

IsOperation(token) == token.kind = "word" /\ token.value \in DOMAIN StrToInst
IsRegister(token) == token.kind = "word" /\ token.value \in DOMAIN StrToReg

Parameter(token) ==
  CASE IsRegister(token)       -> [is_string |-> FALSE, parameter |-> StrToReg[token.value]]
    [] token.kind = "number"   -> [is_string |-> FALSE, parameter |-> token.value]
    [] OTHER                   -> [is_string |-> TRUE, parameter |-> token.value]

(* next_word skips blanks and newlines alike; the parameters of an         *)
(* instruction are the words up to a newline that follows one of them at   *)
(* once, so a blank before a newline joins two lines.  A word that should  *)
(* be an operation and is not ends the console.                            *)
Parse(text) ==
  LET end == Len(text) + 1
      skip[i \in 1 .. end] ==
        IF i < end /\ text[i].kind \in {"blank", "newline"} THEN skip[i + 1] ELSE i
      word(i) == IF skip[i] = end THEN [token |-> EofWord, next |-> end]
                 ELSE [token |-> text[skip[i]], next |-> skip[i] + 1]
      parameters[i \in 1 .. end] ==
        IF i = end \/ (i < end /\ text[i].kind = "newline") THEN [list |-> << >>, next |-> i]
        ELSE LET rest == parameters[word(i).next]
             IN [rest EXCEPT !.list = <<Parameter(word(i).token)>> \o @]
      instructions[i \in 1 .. end] ==
        IF i = end THEN [ok |-> TRUE, list |-> << >>]
        ELSE IF ~ IsOperation(word(i).token) THEN [ok |-> FALSE, list |-> << >>]
        ELSE LET these == parameters[word(i).next]
                 rest == instructions[these.next]
             IN [rest EXCEPT !.list =
                   <<[instruction |-> StrToInst[word(i).token.value],
                      parameters |-> these.list]>> \o @]
  IN instructions[1]
=============================================================================
