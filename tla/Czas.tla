-------------------------------- MODULE Czas --------------------------------
(***************************************************************************)
(* Discrete time for the programs that order their processes with sleep(). *)
(* A process that is created, or woken, runs until it next sleeps or waits *)
(* within Opoznienie ticks.  Both variables count down, so that the states *)
(* are finitely many.                                                      *)
(***************************************************************************)
EXTENDS Naturals

CONSTANTS Proces,
          Sekunda,     \* ticks in a second
          Opoznienie   \* ticks a process may take to its next wait

ASSUME CzasAssumption == Sekunda \in Nat \ {0} /\ Opoznienie \in Nat

VARIABLES sen,  \* ticks each process still sleeps
          luz   \* ticks each process may still take

czas == <<sen, luz>>

CzasInit == /\ sen = [p \in Proces |-> 0]
            /\ luz = [p \in Proces |-> Opoznienie]
CzasOK   == /\ sen \in [Proces -> Nat] /\ luz \in [Proces -> 0..Opoznienie]

(* sleep(n): of a fraction of a second nothing is left, the argument is an *)
(* integer.  A signal with a handler ends a pause(), not this sleep.       *)
Zasnij(p, n) == /\ sen' = [sen EXCEPT ![p] = n * Sekunda]
                /\ luz' = [luz EXCEPT ![p] = Opoznienie]

(* Time passes unless one of the processes that can run must do so now, or *)
(* nobody runs or sleeps.                                                  *)
Uplywa(gotowe) == /\ \A p \in gotowe : luz[p] > 0
                  /\ gotowe # {} \/ \E p \in Proces : sen[p] > 0
                  /\ sen' = [p \in Proces |-> IF sen[p] > 0 THEN sen[p] - 1 ELSE 0]
                  /\ luz' = [p \in Proces |-> IF p \in gotowe THEN luz[p] - 1 ELSE luz[p]]
=============================================================================
