--------------------------- MODULE MCKlientSerwer ---------------------------
(* Expressions for the runs of KlientSerwer, over a three-bit int.         *)
EXTENDS KlientSerwer

Dzialanie(x, o, z) == [a |-> x, op |-> o, b |-> z]
MCMin == -4

(* One of each outcome: wrapped, truncated, no result, a trap, unreadable. *)
MCWyrazenia == {Dzialanie(3, "+", 2), Dzialanie(-3, "/", 2), Dzialanie(1, "/", 0),
                Dzialanie(-4, "/", -1), Niepoprawne}
MCSmieci == {Dzialanie(3, "+", 2), Niepoprawne}
MCPuste == {Dzialanie(3, "+", 2), Puste}

(* evaluate_expression against the definition of the four operations, for  *)
(* all the operands there are.                                             *)
Wszystkie == {Dzialanie(x, o, z) : x \in Min..Max, o \in {"+", "-", "*", "/"},
                                   z \in Min..Max}
ASSUME DzialaniaPoprawne == \A w \in Wszystkie :
         Pulapka(w) \/ Poprawna(w, evaluate_expression(w))
=============================================================================
