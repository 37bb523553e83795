----------------------------- MODULE Powielacz -----------------------------
(***************************************************************************)
(* Zad_6 (b): powielacz.c starts ilosc_pp children; each (potomne.c) adds  *)
(* one to the number in numer.txt, ilosc_sekcji times, in a section        *)
(* guarded by the named semaphore /semafor.                                *)
(***************************************************************************)
EXTENDS Integers

CONSTANTS ilosc_pp, ilosc_sekcji,
          Pusty,       \* a file that fopen(..., "w") has truncated
          Nikt,        \* no child is in the section
          Bledy,       \* which calls may fail: a subset of {"exec", "fork"}
          MaxSigint,   \* how many times Ctrl+C is pressed
          Druga        \* whether a second ./pow is started on the same file

ASSUME PowielaczAssumption == /\ ilosc_pp \in Nat \ {0}
                              /\ ilosc_sekcji \in Nat \ {0}
                              /\ Pusty \notin Nat /\ Nikt \notin Nat
                              /\ Bledy \subseteq {"exec", "fork"}
                              /\ MaxSigint \in Nat /\ Druga \in BOOLEAN

VARIABLES
  plik,        \* numer.txt
  nazwa,       \* whether the name /semafor exists
  semafor,     \* the value of the semaphore behind it
  pc, martwe,  \* where each process is; those killed, their pc stays
  wsk, forki,  \* main: whether sem has been assigned; children started
  y,           \* main: the number it reads in the end
  i, x,        \* children: section number, the number to write
  domyslny, sprzatal, zalegle, wyslane,  \* SIGINT, as in CyklZycia
  druga, bledy

potomne == <<i, x>>
sygnaly == <<domyslny, zalegle, wyslane>>
vars == <<plik, nazwa, semafor, pc, martwe, wsk, forki, y, potomne, sygnaly,
          sprzatal, druga, bledy>>

main    == 0
Potomek == 1..ilosc_pp
Proces  == Potomek \cup {main}

Init == /\ plik = Pusty /\ nazwa = FALSE /\ semafor = 1
        /\ pc = [p \in Proces |-> IF p = main THEN "open_w" ELSE "brak"]
        /\ martwe = {} /\ wsk = FALSE /\ forki = 0 /\ y = 0
        /\ i = [c \in Potomek |-> 1] /\ x = [c \in Potomek |-> 0]
        /\ domyslny = {main} /\ sprzatal = {} /\ zalegle = {} /\ wyslane = 0
        /\ druga = "brak" /\ bledy = {}

-----------------------------------------------------------------------------
Zywy(p) == p \notin martwe /\ pc[p] \notin {"brak", "koniec"}

Skok(p, skad, dokad) == /\ p \notin martwe
                        /\ pc[p] = skad
                        /\ pc' = [pc EXCEPT ![p] = dokad]

(* exit(): exit_handler runs, once.                                        *)
Wyjdz(p, skad) == /\ Skok(p, skad, IF p \in sprzatal THEN "koniec" ELSE "exit_handler")
                  /\ sprzatal' = sprzatal \cup {p}

-----------------------------------------------------------------------------
(* powielacz.c.  The arguments are right: ilosc_pp and ilosc_sekcji >= 1.  *)

(* fopen truncates the file, fclose writes the number.                     *)
MOpen == /\ Skok(main, "open_w", "close_w")
         /\ plik' = Pusty
         /\ UNCHANGED <<nazwa, semafor, martwe, wsk, forki, y, potomne, sygnaly,
                        sprzatal, druga, bledy>>

MClose == /\ Skok(main, "close_w", "signal")
          /\ plik' = 0
          /\ UNCHANGED <<nazwa, semafor, martwe, wsk, forki, y, potomne, sygnaly,
                         sprzatal, druga, bledy>>

MSignal == /\ Skok(main, "signal", "sem_open")
           /\ domyslny' = domyslny \ {main}
           /\ UNCHANGED <<plik, nazwa, semafor, martwe, wsk, forki, y, potomne,
                          zalegle, wyslane, sprzatal, druga, bledy>>

\* Mutant: the semaphore starts at 2.
MSemOpenDwa == /\ Skok(main, "sem_open", "sem_adres")
               /\ nazwa' = TRUE /\ semafor' = 2
               /\ UNCHANGED <<plik, martwe, wsk, forki, y, potomne, sygnaly,
                              sprzatal, druga, bledy>>

(* The name is new: Init has no leftover of an earlier run.                *)
MSemOpen == /\ Skok(main, "sem_open", "sem_adres")
            /\ nazwa' = TRUE /\ semafor' = 1
            /\ UNCHANGED <<plik, martwe, wsk, forki, y, potomne, sygnaly,
                           sprzatal, druga, bledy>>

MSemAdres == /\ Skok(main, "sem_adres", "fork")
             /\ wsk' = TRUE
             /\ UNCHANGED <<plik, nazwa, semafor, martwe, forki, y, potomne, sygnaly,
                            sprzatal, druga, bledy>>

(* fork() does not succeed while a signal is pending.                      *)
MFork == /\ forki < ilosc_pp /\ main \notin zalegle /\ main \notin martwe
         /\ pc[main] = "fork"
         /\ forki' = forki + 1
         /\ pc' = [pc EXCEPT ![forki + 1] = "przed_exec",
                             ![main] = IF forki + 1 = ilosc_pp THEN "wait" ELSE @]
         /\ UNCHANGED <<plik, nazwa, semafor, martwe, wsk, y, potomne, sygnaly,
                        sprzatal, druga, bledy>>

MForkNieudany == /\ "fork" \in Bledy
                 /\ Wyjdz(main, "fork")
                 /\ bledy' = bledy \cup {"fork"}
                 /\ UNCHANGED <<plik, nazwa, semafor, martwe, wsk, forki, y, potomne,
                                sygnaly, druga>>

\* Mutant: main waits for one child only.
MWaitRaz == /\ Skok(main, "wait", "czytaj")
            /\ \E c \in Potomek : ~ Zywy(c)
            /\ UNCHANGED <<plik, nazwa, semafor, martwe, wsk, forki, y, potomne, sygnaly,
                           sprzatal, druga, bledy>>

MWait == /\ Skok(main, "wait", "czytaj")
         /\ \A c \in Potomek : ~ Zywy(c)
         /\ UNCHANGED <<plik, nazwa, semafor, martwe, wsk, forki, y, potomne, sygnaly,
                        sprzatal, druga, bledy>>

MCzytaj == /\ y' = plik
           /\ IF plik = Pusty THEN Wyjdz(main, "czytaj")
              ELSE Skok(main, "czytaj", "sem_unlink") /\ UNCHANGED sprzatal
           /\ UNCHANGED <<plik, nazwa, semafor, martwe, wsk, forki, potomne, sygnaly,
                          druga, bledy>>

MUnlink == /\ Skok(main, "sem_unlink", "koniec")
           /\ nazwa' = FALSE
           /\ UNCHANGED <<plik, semafor, martwe, wsk, forki, y, potomne, sygnaly,
                          sprzatal, druga, bledy>>

\* Mutant: exit_handler closes the semaphore and does not unlink it.
ExitHandlerBezUnlink(p) == /\ Skok(p, "exit_handler", "koniec")
                           /\ UNCHANGED <<plik, nazwa, semafor, martwe, wsk, forki, y,
                                          potomne, sygnaly, sprzatal, druga, bledy>>

(* In main, or in a child that has not called exec and has main's sem.     *)
ExitHandler(p) == /\ Skok(p, "exit_handler", "koniec")
                  /\ nazwa' = (nazwa /\ ~ wsk)
                  /\ UNCHANGED <<plik, semafor, martwe, wsk, forki, y, potomne,
                                 sygnaly, sprzatal, druga, bledy>>

MainStep == MOpen \/ MClose \/ MSignal \/ MSemOpen \/ MSemAdres \/ MFork
            \/ MWait \/ MCzytaj \/ MUnlink

-----------------------------------------------------------------------------
(* potomne.c.                                                              *)

stanMain == <<martwe, wsk, forki, y, sygnaly, druga>>

Exec(c) == /\ Skok(c, "przed_exec", "sem_open")
           /\ UNCHANGED <<plik, nazwa, semafor, stanMain, potomne, sprzatal, bledy>>

ExecNieudany(c) == /\ "exec" \in Bledy
                   /\ Wyjdz(c, "przed_exec")
                   /\ bledy' = bledy \cup {"exec"}
                   /\ UNCHANGED <<plik, nazwa, semafor, stanMain, potomne>>

SemOpen(c) == /\ Skok(c, "sem_open", IF nazwa THEN "sem_wait" ELSE "koniec")
              /\ UNCHANGED <<plik, nazwa, semafor, stanMain, potomne, sprzatal, bledy>>

\* Mutant: the semaphore is looked at, and not lowered.
SemWaitBezOpuszczenia(c) == /\ semafor > 0
                            /\ Skok(c, "sem_wait", "czytaj")
                            /\ UNCHANGED <<plik, nazwa, semafor, stanMain, potomne,
                                           sprzatal, bledy>>

SemWait(c) == /\ semafor > 0
              /\ Skok(c, "sem_wait", "czytaj")
              /\ semafor' = semafor - 1
              /\ UNCHANGED <<plik, nazwa, stanMain, potomne, sprzatal, bledy>>

(* Without a number in the file the child exits, and keeps the semaphore.  *)
Czytaj(c) == /\ IF plik = Pusty THEN Skok(c, "czytaj", "koniec") /\ UNCHANGED x
                ELSE /\ Skok(c, "czytaj", "open_w")
                     /\ x' = [x EXCEPT ![c] = plik + 1]
             /\ UNCHANGED <<plik, nazwa, semafor, stanMain, i, sprzatal, bledy>>

OpenW(c) == /\ Skok(c, "open_w", "close_w")
            /\ plik' = Pusty
            /\ UNCHANGED <<nazwa, semafor, stanMain, potomne, sprzatal, bledy>>

CloseW(c) == /\ Skok(c, "close_w", "sem_post")
             /\ plik' = x[c]
             /\ UNCHANGED <<nazwa, semafor, stanMain, potomne, sprzatal, bledy>>

\* Mutants: the semaphore is raised twice; it is not raised.
SemPostDwa(c) ==
  /\ Skok(c, "sem_post", IF i[c] < ilosc_sekcji THEN "sem_wait" ELSE "koniec")
  /\ semafor' = semafor + 2
  /\ i' = [i EXCEPT ![c] = @ + 1]
  /\ UNCHANGED <<plik, nazwa, stanMain, x, sprzatal, bledy>>
SemPostWcale(c) ==
  /\ Skok(c, "sem_post", IF i[c] < ilosc_sekcji THEN "sem_wait" ELSE "koniec")
  /\ i' = [i EXCEPT ![c] = @ + 1]
  /\ UNCHANGED <<plik, nazwa, semafor, stanMain, x, sprzatal, bledy>>

SemPost(c) == /\ Skok(c, "sem_post", IF i[c] < ilosc_sekcji THEN "sem_wait"
                                     ELSE "koniec")
              /\ semafor' = semafor + 1
              /\ i' = [i EXCEPT ![c] = @ + 1]
              /\ UNCHANGED <<plik, nazwa, stanMain, x, sprzatal, bledy>>

PotomekStep(c) == \/ Exec(c) \/ SemOpen(c) \/ SemWait(c) \/ Czytaj(c)
                  \/ OpenW(c) \/ CloseW(c) \/ SemPost(c)

-----------------------------------------------------------------------------
(* Ctrl+C in the terminal: SIGINT for the whole group.                     *)

CtrlC == /\ wyslane < MaxSigint /\ Zywy(main)
         /\ wyslane' = wyslane + 1
         /\ zalegle' = zalegle \cup {p \in Proces : Zywy(p)}
         /\ UNCHANGED <<plik, nazwa, semafor, pc, martwe, wsk, forki, y, potomne,
                        domyslny, sprzatal, druga, bledy>>

(* signal() has its System V meaning here: a handler serves one SIGINT.    *)
(* "okno" records a SIGINT in main where exit_handler cannot do its work:  *)
(* while it runs, and before the result of sem_open is in sem.             *)
Dostarcz(p) ==
  /\ p \in zalegle /\ Zywy(p)
  /\ zalegle' = zalegle \ {p}
  /\ IF p \in domyslny \/ (p # main /\ pc[p] \notin {"przed_exec", "exit_handler"})
     THEN martwe' = martwe \cup {p} /\ UNCHANGED <<pc, sprzatal, domyslny>>
     ELSE /\ Wyjdz(p, pc[p])
          /\ domyslny' = domyslny \cup {p}
          /\ UNCHANGED martwe
  /\ bledy' = bledy \cup {"sigint"}
                \cup IF p = main /\ pc[p] \in {"sem_adres", "exit_handler"}
                     THEN {"okno"} ELSE {}
  /\ UNCHANGED <<plik, nazwa, semafor, wsk, forki, y, potomne, wyslane, druga>>

(* A second ./pow, after the first has its semaphore: it writes its zero   *)
(* to the file (lines 43-45), and only then finds that the semaphore       *)
(* exists (line 83).  If the name is gone by then, it makes a semaphore    *)
(* and children of its own, which are not modelled.                        *)
DrugaOpen == /\ Druga /\ druga = "brak" /\ wsk
             /\ druga' = "pisze" /\ plik' = Pusty
             /\ UNCHANGED <<nazwa, semafor, pc, martwe, wsk, forki, y, potomne,
                            sygnaly, sprzatal, bledy>>

DrugaClose == /\ druga = "pisze"
              /\ druga' = "koniec" /\ plik' = 0
              /\ UNCHANGED <<nazwa, semafor, pc, martwe, wsk, forki, y, potomne,
                             sygnaly, sprzatal, bledy>>

-----------------------------------------------------------------------------
Krok(p) == \/ p = main /\ MainStep
           \/ p \in Potomek /\ PotomekStep(p)
           \/ ExitHandler(p) \/ Dostarcz(p)

Zaklocenie == \/ MForkNieudany \/ CtrlC \/ DrugaOpen \/ DrugaClose
              \/ \E c \in Potomek : ExecNieudany(c)

Next == (\E p \in Proces : Krok(p)) \/ Zaklocenie

Spec == Init /\ [][Next]_vars

(* Weak fairness of a child is enough: the others stop after ilosc_sekcji. *)
FairSpec == Spec /\ \A p \in Proces : WF_vars(Krok(p))

-----------------------------------------------------------------------------
(* Properties.                                                             *)

Liczby == /\ plik \in Nat \cup {Pusty} /\ semafor \in {0, 1}
          /\ pc \in [Proces -> {"open_w", "close_w", "signal", "sem_open",
                                "sem_adres", "fork", "wait", "czytaj", "sem_unlink",
                                "exit_handler", "brak", "przed_exec", "sem_wait",
                                "sem_post", "koniec"}]
          /\ martwe \subseteq Proces /\ forki \in 0..ilosc_pp
          /\ y \in Nat \cup {Pusty}
          /\ i \in [Potomek -> 1..ilosc_sekcji + 1] /\ x \in [Potomek -> Nat]
          /\ domyslny \subseteq Proces /\ sprzatal \subseteq Proces
          /\ zalegle \subseteq Proces /\ wyslane \in 0..MaxSigint
          /\ druga \in {"brak", "pisze", "koniec"}
          /\ bledy \subseteq {"exec", "fork", "sigint", "okno"}
Logiczne == nazwa \in BOOLEAN /\ wsk \in BOOLEAN
TypeOK == Liczby /\ Logiczne

(* A child killed in the section stays in it: it has the semaphore.        *)
WSekcji == {c \in Potomek : pc[c] \in {"czytaj", "open_w", "close_w", "sem_post"}}

(* The children are in the section one at a time, whatever happens to the  *)
(* name of the semaphore, to main and to the file while they use it.       *)
JedenWSekcji == \A c, d \in WSekcji : c = d

(* A child finds a number in the file whenever it comes to read it: none   *)
(* gives up inside the section and leaves the others waiting.  A second    *)
(* ./pow, which is not in the section, does that to them.                  *)
CzytaLiczbe == \A c \in Potomek \ martwe :
                 pc[c] = "czytaj" => plik # Pusty \/ druga # "brak"

(* The section of potomne.c is critical: nobody is in it with another, and *)
(* nobody finds there what another has left half done.                     *)
Wykluczenie == JedenWSekcji /\ CzytaLiczbe

(* Line 118, "the due number of critical sections": unless something has   *)
(* failed, main reads ilosc_pp * ilosc_sekcji from the file.               *)
WynikZgodny == pc[main] = "sem_unlink" /\ bledy = {} /\ druga = "brak"
                 => y = ilosc_pp * ilosc_sekcji

(* The children implement the counter of LicznikSekcji, a child killed in  *)
(* the section included, as long as no second ./pow writes to the file.  A *)
(* truncated file stands for its old number.                               *)
kto == IF WSekcji = {} THEN Nikt ELSE CHOOSE c \in WSekcji : TRUE
zwiekszyl == \E c \in Potomek : pc[c] = "sem_post"
licznik == IF plik # Pusty THEN plik ELSE IF kto = Nikt THEN 0 ELSE x[kto] - 1
L == INSTANCE LicznikSekcji WITH Uczestnik <- Potomek
LicznikSpec == L!Init /\ [][druga' = "brak" => L!Next]_(L!abstrakcyjne)

Koniec == \A p \in Proces : ~ Zywy(p)

(* All the processes end, after a failed fork or exec and after Ctrl+C     *)
(* too; a second ./pow can make a child give up with the semaphore.        *)
Zakonczenie == <>(Koniec \/ druga # "brak")

(* The name of the semaphore does not outlive the program, unless SIGINT   *)
(* came in one of the two places where exit_handler is of no use.          *)
BezWycieku == Koniec /\ "okno" \notin bledy => ~ nazwa

=============================================================================
