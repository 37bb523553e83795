--------------------------- MODULE LicznikSekcji ---------------------------
(***************************************************************************)
(* What Zad_6 (b) and Zad_9 promise: participants enter a critical section *)
(* one at a time, and each stay in it adds one to a shared counter.        *)
(***************************************************************************)
EXTENDS Naturals

CONSTANTS Uczestnik, Nikt

VARIABLES kto,       \* who is in the section, or Nikt
          zwiekszyl, \* whether that one has added its one
          licznik

abstrakcyjne == <<kto, zwiekszyl, licznik>>

Init == kto = Nikt /\ zwiekszyl = FALSE /\ licznik = 0

Wejdz(u) == /\ kto = Nikt
            /\ kto' = u
            /\ UNCHANGED <<zwiekszyl, licznik>>

Zwieksz == /\ kto # Nikt /\ ~ zwiekszyl
           /\ zwiekszyl' = TRUE /\ licznik' = licznik + 1
           /\ UNCHANGED kto

Wyjdz == /\ kto # Nikt /\ zwiekszyl
         /\ kto' = Nikt /\ zwiekszyl' = FALSE
         /\ UNCHANGED licznik

Next == (\E u \in Uczestnik : Wejdz(u)) \/ Zwieksz \/ Wyjdz

Spec == Init /\ [][Next]_abstrakcyjne

=============================================================================
