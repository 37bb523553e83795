------------------------------ MODULE Procesy ------------------------------
(***************************************************************************)
(* Zad_1/procesy.c, a parent and three children in five variants, and      *)
(* Zad_2/execlp.c, whose children run iden.c: who prints when, what the    *)
(* printed identifiers are by then, and what fork() does to the lines that *)
(* stdio has not written yet.                                              *)
(***************************************************************************)
EXTENDS Czas, Sequences, FiniteSets

CONSTANT Bledy   \* which calls may fail: subset of {"fork", "exec"}

Potomek == {"p1", "p2", "p3"}

ASSUME ProcesyAssumption == /\ Proces = Potomek \cup {"m"}
                            /\ Bledy \subseteq {"fork", "exec"}

VARIABLES
  podpunkt, wyjscie,  \* the variant, "exec" for Zad_2; "terminal" or "plik"
  reszta,             \* the calls each process has yet to make
  pgid,               \* the process group of each process
  bufor, wydruk,      \* lines in each stdio buffer; lines written
  bledy               \* what has failed so far

ProcesyVars == <<podpunkt, wyjscie, reszta, pgid, bufor, wydruk, bledy, czas>>

-----------------------------------------------------------------------------
(* The calls of the parent and of a child, in the order of the source; a   *)
(* fork() is named after its child.                                        *)
Macierzyste ==
  [a    |-> <<"podaj", "wypisz", "exit">>,
   b    |-> <<"podaj", "p1", "p2", "p3", "wypisz", "wait", "exit">>,
   c    |-> <<"podaj", "p1", "p2", "p3", "sleep", "wypisz", "exit">>,
   d    |-> <<"podaj", "wypisz", "p1", "p2", "p3", "sleep", "exit">>,
   e    |-> <<"podaj", "p1", "p2", "p3", "exit">>,
   exec |-> <<"p1", "p2", "p3", "wait", "wypisz", "exit">>]
Potomne ==
  [a    |-> <<>>,
   b    |-> <<"wypisz", "exit">>,
   c    |-> <<"sleep", "wypisz", "exit">>,
   d    |-> <<"wypisz", "exit">>,
   e    |-> <<"setpgid", "wypisz", "exit">>,
   exec |-> <<"exec", "wypisz", "exit">>]

(* The seconds of sleep().                                                 *)
Sekundy(p) == IF podpunkt = "c" /\ p = "m" THEN 1 ELSE 2

Zywy(p) == reszta[p] # <<>>
Biegnie(p, co) == Zywy(p) /\ Head(reszta[p]) = co /\ sen[p] = 0
Przejdz(p) == reszta' = [reszta EXCEPT ![p] = Tail(@)]

(* Children that outlive their parent are adopted by init.                 *)
PPID(p) == IF p = "m" THEN "powloka" ELSE IF Zywy("m") THEN "m" ELSE "init"

ProcesyInit ==
  /\ podpunkt \in DOMAIN Macierzyste /\ wyjscie \in {"terminal", "plik"}
  /\ reszta = [p \in Proces |-> IF p = "m" THEN Macierzyste[podpunkt] ELSE <<>>]
  /\ pgid = [p \in Proces |-> "m"]
  /\ bufor = [p \in Proces |-> <<>>] /\ wydruk = <<>>
  /\ bledy = {} /\ CzasInit

-----------------------------------------------------------------------------
(* stdio writes a line at once to a terminal; to a file, when the process  *)
(* exits.                                                                  *)
Printf(p, linia) ==
  IF wyjscie = "terminal" THEN wydruk' = Append(wydruk, linia) /\ UNCHANGED bufor
  ELSE bufor' = [bufor EXCEPT ![p] = Append(@, linia)] /\ UNCHANGED wydruk

Linia(co, p) == [co |-> co, kto |-> p, ppid |-> PPID(p), pgid |-> pgid[p]]

Podaj(p) == /\ Biegnie(p, "podaj") /\ Przejdz(p)
            /\ Printf(p, Linia("pytanie", p))
            /\ UNCHANGED <<podpunkt, wyjscie, pgid, bledy, czas>>

wypisz_iden(p) == /\ Biegnie(p, "wypisz") /\ Przejdz(p)
                  /\ Printf(p, Linia("iden", p))
                  /\ UNCHANGED <<podpunkt, wyjscie, pgid, bledy, czas>>

\* Mutant: a child does not exit and goes on in the loop of the parent.
DzieckoBezExit == Tail(reszta["m"])

Dziecko == Potomne[podpunkt]

(* The child has a copy of the buffer.                                     *)
Fork(c) == /\ Biegnie("m", c)
           /\ reszta' = [reszta EXCEPT !["m"] = Tail(@), ![c] = Dziecko]
           /\ bufor' = [bufor EXCEPT ![c] = bufor["m"]]
           /\ UNCHANGED <<podpunkt, wyjscie, pgid, wydruk, bledy, czas>>

setpgid(p) == /\ Biegnie(p, "setpgid") /\ Przejdz(p)
              /\ pgid' = [pgid EXCEPT ![p] = p]
              /\ UNCHANGED <<podpunkt, wyjscie, bufor, wydruk, bledy, czas>>

(* What the old program had in its buffer is lost.                         *)
Execlp(p) == /\ Biegnie(p, "exec") /\ Przejdz(p)
             /\ bufor' = [bufor EXCEPT ![p] = <<>>]
             /\ UNCHANGED <<podpunkt, wyjscie, pgid, wydruk, bledy, czas>>

Sleep(p) == /\ Biegnie(p, "sleep") /\ Przejdz(p)
            /\ Zasnij(p, Sekundy(p))
            /\ UNCHANGED <<podpunkt, wyjscie, pgid, bufor, wydruk, bledy>>

\* Mutant: one wait() for three children.
WaitMozeJeden == \E p \in Potomek : ~ Zywy(p)

(* wait() three times.                                                     *)
WaitMoze == \A p \in Potomek : ~ Zywy(p)

Wait(p) == /\ Biegnie(p, "wait") /\ WaitMoze /\ Przejdz(p)
           /\ UNCHANGED <<podpunkt, wyjscie, pgid, bufor, wydruk, bledy, czas>>

(* exit(), or the end of main, writes what is in the buffer.               *)
Konczy(p) == /\ reszta' = [reszta EXCEPT ![p] = <<>>]
             /\ wydruk' = wydruk \o bufor[p]
             /\ bufor' = [bufor EXCEPT ![p] = <<>>]

Exit(p) == /\ Biegnie(p, "exit") /\ Konczy(p)
           /\ UNCHANGED <<podpunkt, wyjscie, pgid, bledy, czas>>

(* perror() and exit().                                                    *)
Nieudany(p, co, blad) == /\ Biegnie(p, co) /\ blad \in Bledy
                         /\ bledy' = bledy \cup {blad}
                         /\ Konczy(p)
                         /\ UNCHANGED <<podpunkt, wyjscie, pgid, czas>>

-----------------------------------------------------------------------------
Krok(p) == \/ Podaj(p) \/ wypisz_iden(p) \/ setpgid(p) \/ Execlp(p)
           \/ Sleep(p) \/ Wait(p) \/ Exit(p)

Gotowe == {p \in Proces : Zywy(p) /\ sen[p] = 0 /\ (Head(reszta[p]) = "wait" => WaitMoze)}

Tyka == /\ Uplywa(Gotowe)
        /\ UNCHANGED <<podpunkt, wyjscie, reszta, pgid, bufor, wydruk, bledy>>

ProcesyNext == \/ Tyka
               \/ \E c \in Potomek : Fork(c) \/ Nieudany("m", c, "fork")
               \/ \E p \in Proces : Krok(p) \/ Nieudany(p, "exec", "exec")

ProcesySpec == ProcesyInit /\ [][ProcesyNext]_ProcesyVars

-----------------------------------------------------------------------------
(* Properties.                                                             *)

Koncowka(s, t) == \E n \in 0..Len(t) : s = SubSeq(t, n + 1, Len(t))

(* A process has only calls of its own program to make: the processes are  *)
(* 1 + 3, not 2 to the 3rd, as the readme of Zad_1 has it.                 *)
ProcesyOK ==
  /\ podpunkt \in DOMAIN Macierzyste /\ wyjscie \in {"terminal", "plik"}
  /\ Koncowka(reszta["m"], Macierzyste[podpunkt])
  /\ \A p \in Potomek : Koncowka(reszta[p], Potomne[podpunkt])
  /\ pgid \in [Proces -> Proces]
  /\ \A p \in Proces : wyjscie = "terminal" => bufor[p] = <<>>
  /\ bledy \subseteq Bledy /\ CzasOK

Linie(co, p) == {k \in DOMAIN wydruk : wydruk[k].co = co /\ wydruk[k].kto = p}
Przed(A, B) == \A i \in A, j \in B : i < j

(* How often a line of the parent is written: in a file, each child writes *)
(* its copy of what was printed before the forks.                          *)
Kopie(przed_fork) == IF wyjscie = "plik" /\ podpunkt # "a" /\ przed_fork THEN 4 ELSE 1

(* Once all have ended, and nothing failed: no child's line is lost or     *)
(* repeated, the parent's only in a file, which has its question and, in   *)
(* (d), its identifiers four times.  In (b), (d) and exec no child was an  *)
(* orphan, in (c) all were; in (e) each leads a group.  The parent's line  *)
(* is first in (c) and, on a terminal, in (d); last in exec.  That sleep() *)
(* does for wait() rests on 2 * Opoznienie < Sekunda.                      *)
Wydruk == (\A p \in Proces : ~ Zywy(p)) /\ bledy = {} =>
  /\ podpunkt # "e" => Cardinality(Linie("iden", "m")) = Kopie(podpunkt = "d")
  /\ podpunkt # "exec" => Cardinality(Linie("pytanie", "m")) = Kopie(TRUE)
  /\ \A p \in Potomek : Cardinality(Linie("iden", p)) = IF podpunkt = "a" THEN 0 ELSE 1
  /\ \A p \in Potomek, k \in DOMAIN wydruk : wydruk[k].kto = p =>
       /\ podpunkt \in {"b", "d", "exec"} => wydruk[k].ppid = "m"
       /\ podpunkt = "c" => wydruk[k].ppid = "init"
       /\ wydruk[k].pgid = IF podpunkt = "e" THEN p ELSE "m"
       /\ (podpunkt = "c" \/ (podpunkt = "d" /\ wyjscie = "terminal"))
            => Przed(Linie("iden", "m"), {k})
       /\ podpunkt = "exec" => Przed({k}, Linie("iden", "m"))

=============================================================================
