----------------------------- MODULE MutexWatki -----------------------------
(***************************************************************************)
(* Zad_9/mutex_wykluczenie.c: num_threads threads, each num_sections times *)
(* in a critical section guarded by a mutex, where it increments           *)
(* global_counter.  main creates them, joins them, destroys the mutex.     *)
(***************************************************************************)
EXTENDS Integers, FiniteSets

CONSTANTS num_threads, num_sections,
          Awarie   \* whether pthread_create may fail

ASSUME WatkiAssumption == /\ num_threads \in Nat \ {0}
                          /\ num_sections \in Nat \ {0}
                          /\ Awarie \in BOOLEAN

VARIABLES
  mpc, mi,         \* main: phase, index of its loop
  threads,         \* threads[w]: whether main holds a thread there
  mutex,           \* the thread that holds it, Wolny, or Zniszczony
  global_counter,
  pc, i, rejestr   \* each thread: where it is, its section, its register

main == <<mpc, mi, threads>>
vars == <<main, mutex, global_counter, pc, i, rejestr>>

Watek == 1..num_threads
Wolny == 0
Zniszczony == -1

Init == /\ mpc = "create" /\ mi = 1 /\ threads = [w \in Watek |-> FALSE]
        /\ mutex = Wolny /\ global_counter = 0
        /\ pc = [w \in Watek |-> "brak"] /\ i = [w \in Watek |-> 1]
        /\ rejestr = [w \in Watek |-> 0]

-----------------------------------------------------------------------------
(* main.                                                                   *)

\* Mutant: the loops of main run to i <= num_threads.
DalejZaDaleko(faza) == IF mi <= num_threads THEN mi' = mi + 1 /\ UNCHANGED mpc
                       ELSE mi' = 1 /\ mpc' = faza

Dalej(faza) == IF mi < num_threads THEN mi' = mi + 1 /\ UNCHANGED mpc
               ELSE mi' = 1 /\ mpc' = faza

Utworz == /\ mpc = "create"
          /\ threads' = [threads EXCEPT ![mi] = TRUE]
          /\ pc' = [pc EXCEPT ![mi] = "lock"]
          /\ Dalej("join")
          /\ UNCHANGED <<mutex, global_counter, i, rejestr>>

(* The error is reported, threads[i] set to 0, and the loop goes on.       *)
NieUtworz == /\ Awarie /\ mpc = "create"
             /\ Dalej("join")
             /\ UNCHANGED <<threads, mutex, global_counter, pc, i, rejestr>>

\* Mutant: the last thread is not joined.
JoinBezOstatniego == /\ mpc = "join"
                     /\ threads[mi] /\ mi < num_threads => pc[mi] = "koniec"
                     /\ Dalej("destroy")
                     /\ UNCHANGED <<threads, mutex, global_counter, pc, i, rejestr>>

Join == /\ mpc = "join"
        /\ threads[mi] => pc[mi] = "koniec"
        /\ Dalej("destroy")
        /\ UNCHANGED <<threads, mutex, global_counter, pc, i, rejestr>>

(* A locked mutex would not be destroyed: EBUSY.                           *)
Destroy == /\ mpc = "destroy"
           /\ mpc' = "koniec"
           /\ mutex' = IF mutex = Wolny THEN Zniszczony ELSE mutex
           /\ UNCHANGED <<mi, threads, global_counter, pc, i, rejestr>>

-----------------------------------------------------------------------------
(* thread_func.  The increment of line 61 is a load and a store.           *)

Skok(w, skad, dokad) == /\ pc[w] = skad
                        /\ pc' = [pc EXCEPT ![w] = dokad]
                        /\ UNCHANGED main

\* Mutant: the section is entered without the mutex.
LockBezCzekania(w) == /\ Skok(w, "lock", "czytaj")
                      /\ UNCHANGED <<mutex, global_counter, i, rejestr>>

Lock(w) == /\ Skok(w, "lock", "czytaj")
           /\ mutex = Wolny
           /\ mutex' = w
           /\ UNCHANGED <<global_counter, i, rejestr>>

Czytaj(w) == /\ Skok(w, "czytaj", "pisz")
             /\ rejestr' = [rejestr EXCEPT ![w] = global_counter]
             /\ UNCHANGED <<mutex, global_counter, i>>

Pisz(w) == /\ Skok(w, "pisz", "unlock")
           /\ global_counter' = rejestr[w] + 1
           /\ UNCHANGED <<mutex, i, rejestr>>

\* Mutants: one section too few; the mutex is kept.
UnlockZaWczesnie(w) ==
  /\ Skok(w, "unlock", IF i[w] < num_sections - 1 THEN "lock" ELSE "koniec")
  /\ mutex' = Wolny
  /\ i' = [i EXCEPT ![w] = @ + 1]
  /\ UNCHANGED <<global_counter, rejestr>>
UnlockBezZwolnienia(w) ==
  /\ Skok(w, "unlock", IF i[w] < num_sections THEN "lock" ELSE "koniec")
  /\ i' = [i EXCEPT ![w] = @ + 1]
  /\ UNCHANGED <<mutex, global_counter, rejestr>>

(* i goes past num_sections only as the loop ends.                         *)
Unlock(w) == /\ Skok(w, "unlock", IF i[w] < num_sections THEN "lock" ELSE "koniec")
             /\ mutex' = Wolny
             /\ i' = [i EXCEPT ![w] = @ + 1]
             /\ UNCHANGED <<global_counter, rejestr>>

-----------------------------------------------------------------------------
MainStep == Utworz \/ NieUtworz \/ Join \/ Destroy
WatekStep(w) == Lock(w) \/ Czytaj(w) \/ Pisz(w) \/ Unlock(w)

Next == MainStep \/ \E w \in Watek : WatekStep(w)

Spec == Init /\ [][Next]_vars

(* The scheduler runs every thread that can run.  Weak fairness of a lock  *)
(* is enough: a thread locks num_sections times only, so the others stop.  *)
FairSpec == Spec /\ WF_vars(MainStep) /\ \A w \in Watek : WF_vars(WatekStep(w))

-----------------------------------------------------------------------------
(* Properties.                                                             *)

TypeOK == /\ mpc \in {"create", "join", "destroy", "koniec"} /\ mi \in Watek
          /\ threads \in [Watek -> BOOLEAN]
          /\ mutex \in Watek \cup {Wolny, Zniszczony}
          /\ global_counter \in Nat
          /\ pc \in [Watek -> {"brak", "lock", "czytaj", "pisz", "unlock", "koniec"}]
          /\ i \in [Watek -> 1..num_sections + 1] /\ rejestr \in [Watek -> Nat]

WSekcji(w) == pc[w] \in {"czytaj", "pisz", "unlock"}

(* The sections that have been counted.                                    *)
Wykonane == {s \in Watek \X (1..num_sections) :
               s[2] < i[s[1]] \/ (s[2] = i[s[1]] /\ pc[s[1]] = "unlock")}

(* No increment is lost: at every instant global_counter is the number of  *)
(* sections that have passed their line 61.                                *)
LicznikZgodny == global_counter = Cardinality(Wykonane)

(* The invariant the safety theorems rest on: who is in the section holds  *)
(* the mutex, the register of the one about to write is up to date, and    *)
(* main has not passed a thread that runs.                                 *)
Wlasciciel == \A w \in Watek : WSekcji(w) <=> mutex = w
Aktualny   == \A w \in Watek : pc[w] = "pisz" => rejestr[w] = global_counter
Sekcje     == \A w \in Watek : /\ pc[w] = "brak" => i[w] = 1
                               /\ i[w] = num_sections + 1 <=> pc[w] = "koniec"
Petle      == \A w \in Watek :
  /\ pc[w] = "brak" <=> ~ threads[w]
  /\ mpc = "create" /\ w >= mi => pc[w] = "brak"
  /\ mpc = "join" /\ w < mi => pc[w] \in {"brak", "koniec"}
  /\ mpc \in {"destroy", "koniec"} => pc[w] \in {"brak", "koniec"}
  /\ mutex = Zniszczony => mpc = "koniec"
Niezmiennik == TypeOK /\ Wlasciciel /\ Aktualny /\ Sekcje /\ Petle /\ LicznikZgodny

(* What main prints last: every section of every thread it has created,    *)
(* num_threads * num_sections of them when pthread_create has not failed.  *)
Utworzone == {w \in Watek : threads[w]}
WynikZgodny == mpc = "koniec" =>
                 global_counter = Cardinality(Utworzone \X (1..num_sections))

(* The mutex and the arguments are gone only after the last thread that    *)
(* might use them: a failed pthread_create does not upset the joining.     *)
MutexPrzezywaWatki == (mpc \in {"destroy", "koniec"} \/ mutex = Zniszczony)
                        => \A w \in Watek : pc[w] \in {"brak", "koniec"}

(* The threads implement the counter of LicznikSekcji.                     *)
L == INSTANCE LicznikSekcji
       WITH Uczestnik <- Watek, Nikt <- Wolny, licznik <- global_counter,
            kto <- IF mutex = Zniszczony THEN Wolny ELSE mutex,
            zwiekszyl <- \E w \in Watek : pc[w] = "unlock"
LicznikSpec == L!Spec

(* The program ends: nobody waits for a mutex or a thread for ever.        *)
Zakonczenie == <>(mpc = "koniec")

=============================================================================
