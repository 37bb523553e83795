----------------------------- MODULE DwaProcesy -----------------------------
(***************************************************************************)
(* Zad_6/wykluczenie.c: a parent and a child enter a critical section N    *)
(* times each, under a named semaphore that O_EXCL reserves for one run of *)
(* the program at a time.  The name outlives the processes, and the atexit *)
(* handler, which they both run, looks for it when they end.               *)
(***************************************************************************)
EXTENDS Naturals

CONSTANTS Uruchomienie,  \* runs of the program
          Brak,          \* no run: the name does not exist
          N,             \* sections of each process, 3 in the source
          Bledy          \* which calls may fail: subset of {"fork"}

ASSUME DwaProcesyAssumption == /\ Brak \notin Uruchomienie /\ N \in Nat
                               /\ Bledy \subseteq {"fork"}

Proces == {"m", "p"}   \* macierzysty, potomny

VARIABLES
  pc,          \* where each process of each run is
  i,           \* sections each process has left
  sem,         \* value of the semaphore each run has made
  nazwa,       \* the run whose semaphore is "/semafor", or Brak
  przerwane,   \* runs whose fork failed or that Ctrl+C ended
  obca         \* whether a run has removed the name of another

vars == <<pc, i, sem, nazwa, przerwane, obca>>

\* Mutant: two may be in.
WartoscDwa == 2

WartoscPoczatkowa == 1

Init == /\ pc = [r \in Uruchomienie |-> [p \in Proces |->
                   IF p = "m" THEN "sem_open" ELSE "brak"]]
        /\ i = [r \in Uruchomienie |-> [p \in Proces |-> 0]]
        /\ sem = [r \in Uruchomienie |-> WartoscPoczatkowa]
        /\ nazwa = Brak /\ przerwane = {} /\ obca = FALSE

Skok(r, p, skad, dokad) == pc[r][p] = skad /\ pc' = [pc EXCEPT ![r][p] = dokad]
Zywy(r, p) == pc[r][p] \notin {"brak", "koniec"}

-----------------------------------------------------------------------------
SemOpen(r) == /\ nazwa = Brak
              /\ Skok(r, "m", "sem_open", "fork")
              /\ nazwa' = r
              /\ UNCHANGED <<i, sem, przerwane, obca>>

(* _exit(): the handler is not run.                                        *)
SemOpenNieudany(r) == /\ nazwa # Brak
                      /\ Skok(r, "m", "sem_open", "koniec")
                      /\ UNCHANGED <<i, sem, nazwa, przerwane, obca>>

Fork(r) == /\ pc[r]["m"] = "fork"
           /\ pc' = [pc EXCEPT ![r] = [p \in Proces |-> "petla"]]
           /\ i' = [i EXCEPT ![r] = [p \in Proces |-> N]]
           /\ UNCHANGED <<sem, nazwa, przerwane, obca>>

ForkNieudany(r) == /\ "fork" \in Bledy
                   /\ Skok(r, "m", "fork", "exit_handler")
                   /\ przerwane' = przerwane \cup {r}
                   /\ UNCHANGED <<i, sem, nazwa, obca>>

SemWait(r, p) == /\ i[r][p] > 0 /\ sem[r] > 0
                 /\ Skok(r, p, "petla", "sekcja")
                 /\ sem' = [sem EXCEPT ![r] = @ - 1]
                 /\ UNCHANGED <<i, nazwa, przerwane, obca>>

SemPost(r, p) == /\ Skok(r, p, "sekcja", "petla")
                 /\ sem' = [sem EXCEPT ![r] = @ + 1]
                 /\ i' = [i EXCEPT ![r][p] = @ - 1]
                 /\ UNCHANGED <<nazwa, przerwane, obca>>

(* The child exits; the parent waits for it.                               *)
PoPetli(r, p) == /\ i[r][p] = 0
                 /\ Skok(r, p, "petla", IF p = "m" THEN "wait" ELSE "exit_handler")
                 /\ UNCHANGED <<i, sem, nazwa, przerwane, obca>>

Wait(r) == /\ ~ Zywy(r, "p")
           /\ Skok(r, "m", "wait", "sem_unlink")
           /\ UNCHANGED <<i, sem, nazwa, przerwane, obca>>

(* sem_unlink() removes the name whosever it is.                           *)
Unlink(r) == nazwa' = Brak /\ obca' = (obca \/ nazwa \notin {r, Brak})

\* Mutant: the parent leaves the name to its exit handler.
SemUnlinkWcale(r) == /\ Skok(r, "m", "sem_unlink", "exit_handler")
                     /\ UNCHANGED <<i, sem, nazwa, przerwane, obca>>

SemUnlink(r) == /\ Skok(r, "m", "sem_unlink", "exit_handler")
                /\ Unlink(r)
                /\ UNCHANGED <<i, sem, przerwane>>

\* Mutant: the handler removes the name if it is there.
HandlerUsuwaOdwrotnie == nazwa # Brak

(* sem_open() in the handler has failed.                                   *)
HandlerUsuwa == nazwa = Brak

ExitHandler(r, p) == /\ Skok(r, p, "exit_handler",
                             IF HandlerUsuwa THEN "handler_unlink" ELSE "koniec")
                     /\ UNCHANGED <<i, sem, nazwa, przerwane, obca>>

HandlerUnlink(r, p) == /\ Skok(r, p, "handler_unlink", "koniec")
                       /\ Unlink(r)
                       /\ UNCHANGED <<i, sem, przerwane>>

(* Ctrl+C ends both processes where they are, without the handler.         *)
Sigint(r) == /\ \E p \in Proces : Zywy(r, p)
             /\ pc' = [pc EXCEPT ![r] = [p \in Proces |->
                         IF Zywy(r, p) THEN "koniec" ELSE pc[r][p]]]
             /\ przerwane' = przerwane \cup {r}
             /\ UNCHANGED <<i, sem, nazwa, obca>>

-----------------------------------------------------------------------------
Krok(r, p) == \/ SemWait(r, p) \/ SemPost(r, p) \/ PoPetli(r, p)
              \/ ExitHandler(r, p) \/ HandlerUnlink(r, p)
Main(r) == SemOpen(r) \/ SemOpenNieudany(r) \/ Fork(r) \/ Wait(r) \/ SemUnlink(r)

Next == \E r \in Uruchomienie :
          \/ Main(r) \/ ForkNieudany(r) \/ Sigint(r)
          \/ \E p \in Proces : Krok(r, p)

Spec == Init /\ [][Next]_vars

(* Every process that can run runs.  The sections of the other process are *)
(* finitely many, so nobody waits in sem_wait() for ever.                  *)
FairSpec == Spec /\ \A r \in Uruchomienie :
              /\ WF_vars(Main(r))
              /\ \A p \in Proces : WF_vars(Krok(r, p))

-----------------------------------------------------------------------------
(* Properties.                                                             *)

Etykiety == {"brak", "sem_open", "fork", "petla", "sekcja", "wait", "sem_unlink",
             "exit_handler", "handler_unlink", "koniec"}

TypeOK == /\ pc \in [Uruchomienie -> [Proces -> Etykiety]]
          /\ i \in [Uruchomienie -> [Proces -> 0..N]]
          /\ sem \in [Uruchomienie -> 0..1]
          /\ nazwa \in Uruchomienie \cup {Brak}
          /\ przerwane \subseteq Uruchomienie /\ obca \in BOOLEAN

(* readme of Zad_6, "a mutual exclusion problem using a binary semaphore": *)
(* the two processes of a run are never in the section together; nor are   *)
(* those of two runs, whose semaphores differ, as long as no exit handler  *)
(* has removed the name of another run between its sem_open() and its      *)
(* sem_unlink().                                                           *)
WSekcji(r, p) == pc[r][p] = "sekcja"
Wykluczenie == \A r, s \in Uruchomienie, p, q \in Proces :
                 WSekcji(r, p) /\ WSekcji(s, q) => <<r, p>> = <<s, q>> \/ (r # s /\ obca)

(* Every run ends; one that nothing interrupted has done all its sections  *)
(* or has been refused, and has left no name.                              *)
Odmowa(r) == pc[r]["p"] = "brak"
Zakonczenie == \A r \in Uruchomienie :
  <>(/\ \A p \in Proces : ~ Zywy(r, p)
     /\ r \notin przerwane => nazwa # r /\ (Odmowa(r) \/ \A p \in Proces : i[r][p] = 0))

=============================================================================
