------------------------------ MODULE Sygnaly ------------------------------
(***************************************************************************)
(* Zad_3: podpunkt_b.c starts podpunkt_a.c and sends it a signal;          *)
(* podpunkt_c_1.c starts podpunkt_c_2.c, which leads a group of three      *)
(* podpunkt_a.c, and signals the group.  sleep() alone makes the signal    *)
(* come after the receivers have chosen what to do with it.                *)
(***************************************************************************)
EXTENDS Czas, Integers, Sequences, FiniteSets, Functions

CONSTANTS Numery,              \* signal numbers the user may give
          Bledy                \* what may go wrong: subset of
                               \* {"fork", "exec", "spoznienie"}

Potomek == {"a1", "a2", "a3"}     \* processes that run podpunkt_a.c

ASSUME SygnalyAssumption == /\ Numery \subseteq 1..31 /\ Bledy \subseteq {"fork", "exec", "spoznienie"}
                            /\ Proces = Potomek \cup {"1", "2"}

VARIABLES
  program, numer, tryb,  \* "b" or "c"; the arguments
  pc, los,               \* where each process is; its wait status, or Zyje
  obsluga,               \* what each process does with signal numer
  grupa,                 \* the process group of process 2, zombies included
  zebrane, status,       \* process 2: children waited for; its status
  wydruk,                \* the lines about children, in their order
  bledy                  \* what has gone wrong so far

argumenty == <<program, numer, tryb>>
zbieranie == <<zebrane, status, wydruk>>
vars == <<argumenty, pc, los, obsluga, grupa, zbieranie, bledy, czas>>

-----------------------------------------------------------------------------
(* Signals of Linux, by number: SIGKILL and SIGSTOP have no other action   *)
(* than the default one.                                                   *)
Nieusuwalne  == {9, 19}
Pomijane     == {17, 18, 23, 28}
Zatrzymujace == {19, 20, 21, 22}
ZrzutPamieci == {3, 4, 5, 6, 7, 8, 11, 24, 25, 31}
SIGCHLD      == 17

Domyslna(n) == IF n \in Pomijane THEN "nic"
               ELSE IF n \in Zatrzymujace THEN "zatrzymuje" ELSE "zabija"

(* The status of wait(): a signal, plus 128 for a core, or 256 times the   *)
(* exit code.                                                              *)
Zyje == -1
WTERMSIG(s)    == s % 128
WIFEXITED(s)   == WTERMSIG(s) = 0
WIFSIGNALED(s) == WTERMSIG(s) \in 1..126

(* The name of a signal stands for its number; 0 is "Unknown signal".      *)
my_strsignal(n) == IF n \in 1..31 THEN n ELSE 0

-----------------------------------------------------------------------------
(* status of podpunkt_c_2.c is not initialised: it may look like an exit, a*)
(* signal, or neither.                                                     *)
Init == /\ program \in {"b", "c"} /\ numer \in Numery /\ tryb \in 1..3
        /\ pc = [p \in Proces |-> IF p = "1" THEN "fork" ELSE "brak"]
        /\ los = [p \in Proces |-> Zyje]
        /\ obsluga = [p \in Proces |-> "SIG_DFL"]
        /\ grupa = {} /\ zebrane = {} /\ status \in {0, 256, 9, 127} /\ wydruk = <<>>
        /\ bledy = {} /\ CzasInit

Zywy(p) == pc[p] \notin {"brak", "koniec"}
Biegnie(p, skad) == pc[p] = skad /\ sen[p] = 0
Skok(p, skad, dokad) == /\ Biegnie(p, skad)
                        /\ pc' = [pc EXCEPT ![p] = dokad]
Wyjdz(p, kod) == /\ pc' = [pc EXCEPT ![p] = "koniec"]
                 /\ los' = [los EXCEPT ![p] = 256 * kod]
Awaria(co) == co \in Bledy /\ bledy' = bledy \cup {co}

-----------------------------------------------------------------------------
(* podpunkt_a.c.                                                           *)

(* exec keeps an ignored signal ignored; nothing here is caught before.    *)
Exec(p) == /\ Skok(p, "exec", "signal")
           /\ UNCHANGED <<argumenty, los, obsluga, grupa, zbieranie, bledy, czas>>

ExecNieudany(p) == /\ Biegnie(p, "exec")
                   /\ Awaria("exec") /\ Wyjdz(p, 1)
                   /\ UNCHANGED <<argumenty, obsluga, grupa, zbieranie, czas>>

Akcja(p) == IF p = "2" \/ tryb = 2 THEN "SIG_IGN"
            ELSE IF tryb = 1 THEN "SIG_DFL" ELSE "handle"

(* signal(): mode of podpunkt_a.c, or SIG_IGN in process 2.                *)
Signal(p) == /\ Biegnie(p, "signal")
             /\ IF numer \in Nieusuwalne
                THEN Wyjdz(p, 1) /\ UNCHANGED obsluga
                ELSE /\ obsluga' = [obsluga EXCEPT ![p] = Akcja(p)]
                     /\ Skok(p, "signal", IF p = "2" THEN "setpgid" ELSE "do_pause")
                     /\ UNCHANGED los
             /\ UNCHANGED <<argumenty, grupa, zbieranie, bledy, czas>>

Pause(p) == /\ Skok(p, "do_pause", "pause")
            /\ Zasnij(p, 0)
            /\ UNCHANGED <<argumenty, los, obsluga, grupa, zbieranie, bledy>>

(* handle() has slept: pause() returns if the signal has come during it.   *)
HandleWraca(p) == /\ Biegnie(p, "handle") /\ Wyjdz(p, 0)
                  /\ UNCHANGED <<argumenty, obsluga, grupa, zbieranie, bledy, czas>>
HandleZaWczesnie(p) == /\ Skok(p, "handle_wczesnie", "do_pause")
                       /\ UNCHANGED <<argumenty, los, obsluga, grupa, zbieranie, bledy,
                                      czas>>

-----------------------------------------------------------------------------
(* podpunkt_c_2.c, process 2.                                              *)

Setpgid == /\ Skok("2", "setpgid", "fork")
           /\ grupa' = {"2"}
           /\ UNCHANGED <<argumenty, los, obsluga, zbieranie, bledy, czas>>

Nr == <<"a1", "a2", "a3">>
Rodzi(a) == a = Nr[Cardinality(grupa)]

(* The child is in the group, and ignores the signal until its signal().   *)
Fork2(a) == /\ Biegnie("2", "fork") /\ Rodzi(a)
            /\ pc' = [pc EXCEPT ![a] = "exec", !["2"] = IF a = "a3" THEN "sleep" ELSE @]
            /\ grupa' = grupa \cup {a}
            /\ obsluga' = [obsluga EXCEPT ![a] = obsluga["2"]]
            /\ UNCHANGED <<argumenty, los, zbieranie, bledy, czas>>

Fork2Nieudany == /\ Biegnie("2", "fork")
                 /\ Awaria("fork") /\ Wyjdz("2", 1)
                 /\ UNCHANGED <<argumenty, obsluga, grupa, zbieranie, czas>>

Sleep2 == /\ Skok("2", "sleep", "wait")
          /\ Zasnij("2", 1)
          /\ UNCHANGED <<argumenty, los, obsluga, grupa, zbieranie, bledy>>

\* Mutant: a child that has been waited for can be waited for again.
ZombieZebrane == IF obsluga["2"] = "SIG_IGN" /\ numer = SIGCHLD THEN {}
                 ELSE {a \in Potomek : los[a] # Zyje}

(* Who ignores SIGCHLD has no zombies: wait() then waits for all children  *)
(* and fails.  A failed wait() leaves status as it was.                    *)
Zombie == IF obsluga["2"] = "SIG_IGN" /\ numer = SIGCHLD THEN {}
          ELSE {a \in Potomek \ zebrane : los[a] # Zyje}
Wait2Moze == Zombie # {} \/ \A a \in Potomek : ~ Zywy(a)

(* A line: the process whose pid it has, and what is printed of status s;  *)
(* of one that is neither an exit nor a signal nothing is.                 *)
Linia(kto, s) ==
  [kto   |-> kto,
   jak   |-> IF WIFEXITED(s) THEN "kod" ELSE IF WIFSIGNALED(s) THEN "sygnal" ELSE "brak",
   numer |-> IF WIFEXITED(s) THEN s \div 256 ELSE WTERMSIG(s),
   nazwa |-> my_strsignal(s)]

\* Mutant: process 2 waits for two children.
WaitKoniecDwa(linie) == Len(linie) = 2

\* Mutant: it waits once more than it has children.
WaitKoniecCztery(linie) == Len(linie) = 4

WaitKoniec(linie) == Len(linie) = 3

(* wait() takes any child that has ended.  The pid in the line is that of  *)
(* tab_pid[i], the child created in this place of the order, which may be  *)
(* another one, and may even run.                                          *)
Wait2 == /\ Biegnie("2", "wait") /\ Wait2Moze
         /\ IF Zombie = {} THEN UNCHANGED <<zebrane, status>>
            ELSE \E a \in Zombie : zebrane' = zebrane \cup {a} /\ status' = los[a]
         /\ wydruk' = Append(wydruk, Linia(Nr[Len(wydruk) + 1], status'))
         /\ IF WaitKoniec(wydruk') THEN Wyjdz("2", 0) ELSE UNCHANGED <<pc, los>>
         /\ UNCHANGED <<argumenty, obsluga, grupa, bledy, czas>>

-----------------------------------------------------------------------------
(* Process 1: podpunkt_b.c or podpunkt_c_1.c.                              *)

Dziecko == IF program = "b" THEN "a1" ELSE "2"

Fork1 == /\ Biegnie("1", "fork")
         /\ pc' = [pc EXCEPT !["1"] = "sleep", ![Dziecko] = "exec"]
         /\ UNCHANGED <<argumenty, los, obsluga, grupa, zbieranie, bledy, czas>>

Fork1Nieudany == /\ Biegnie("1", "fork")
                 /\ Awaria("fork") /\ Wyjdz("1", 1)
                 /\ UNCHANGED <<argumenty, obsluga, grupa, zbieranie, czas>>

\* Mutant: process 1 does not wait.
Sleep1Wcale == /\ Skok("1", "sleep", IF program = "b" THEN "waitpid" ELSE "kill")
               /\ Zasnij("1", 0)
               /\ UNCHANGED <<argumenty, los, obsluga, grupa, zbieranie, bledy>>

Sleep1 == /\ Skok("1", "sleep", IF program = "b" THEN "waitpid" ELSE "kill")
          /\ Zasnij("1", IF program = "b" THEN 2 ELSE 4)
          /\ UNCHANGED <<argumenty, los, obsluga, grupa, zbieranie, bledy>>

(* A child that has ended already is an error.                             *)
Waitpid == /\ Biegnie("1", "waitpid")
           /\ IF los["a1"] = Zyje THEN Skok("1", "waitpid", "kill") /\ UNCHANGED los
              ELSE Wyjdz("1", 1)
           /\ UNCHANGED <<argumenty, obsluga, grupa, zbieranie, bledy, czas>>

Adresaci == IF program = "b" THEN {"a1"} ELSE grupa
Skutek(p) == IF ~ Zywy(p) \/ p \notin Adresaci \/ obsluga[p] = "SIG_IGN" THEN "nic"
             ELSE IF obsluga[p] = "handle" THEN "handle" ELSE Domyslna(numer)
Po(p) == CASE Skutek(p) = "nic"        -> pc[p]
           [] Skutek(p) = "zatrzymuje" -> "stoi"
           [] Skutek(p) = "zabija"     -> "koniec"
           [] Skutek(p) = "handle"     -> IF pc[p] = "pause" THEN "handle"
                                          ELSE "handle_wczesnie"

(* A signal acts before the receiver's next step.  handle() sleeps for 3   *)
(* seconds.  Whether a core is dumped depends on the limits of the shell.  *)
Kill == /\ Biegnie("1", "kill") /\ Adresaci # {}
        /\ pc' = [[p \in Proces |-> Po(p)] EXCEPT !["1"] = "wait"]
        /\ \E zrzut \in IF numer \in ZrzutPamieci THEN {0, 128} ELSE {0} :
             los' = [p \in Proces |-> IF Skutek(p) = "zabija" THEN numer + zrzut ELSE los[p]]
        /\ sen' = [p \in Proces |-> IF Skutek(p) = "handle" THEN 3 * Sekunda ELSE sen[p]]
        /\ luz' = [luz EXCEPT !["1"] = Opoznienie]
        /\ UNCHANGED <<argumenty, obsluga, grupa, zbieranie, bledy>>

(* No process of the group has ever existed.                               *)
KillNieudany == /\ Biegnie("1", "kill") /\ Adresaci = {}
                /\ Wyjdz("1", 1)
                /\ UNCHANGED <<argumenty, obsluga, grupa, zbieranie, bledy, czas>>

Wait1 == /\ Biegnie("1", "wait") /\ los[Dziecko] # Zyje
         /\ wydruk' = IF program = "b"
                      THEN <<[Linia("a1", los["a1"]) EXCEPT
                                !.nazwa = my_strsignal(WTERMSIG(los["a1"]))]>>
                      ELSE wydruk
         /\ Wyjdz("1", 0)
         /\ UNCHANGED <<argumenty, obsluga, grupa, zebrane, status, bledy, czas>>

-----------------------------------------------------------------------------
Krok(p) == \/ Exec(p) \/ Signal(p) \/ Pause(p) \/ HandleWraca(p) \/ HandleZaWczesnie(p)
           \/ p = "2" /\ (Setpgid \/ Sleep2 \/ Wait2 \/ \E a \in Potomek : Fork2(a))
           \/ p = "1" /\ (Fork1 \/ Sleep1 \/ Waitpid \/ Kill \/ KillNieudany \/ Wait1)

(* Processes that are not asleep, stopped, or waiting.                     *)
Gotowe == {p \in Proces : /\ Zywy(p) /\ sen[p] = 0 /\ pc[p] \notin {"pause", "stoi"}
                          /\ p = "1" /\ pc[p] = "wait" => los[Dziecko] # Zyje
                          /\ p = "2" /\ pc[p] = "wait" => Wait2Moze}

(* On a busy machine a process is late for once: it may take twice as long.*)
Spoznienie(p) == /\ p \in Gotowe /\ luz[p] = 0 /\ "spoznienie" \notin bledy
                 /\ Awaria("spoznienie")
                 /\ luz' = [luz EXCEPT ![p] = Opoznienie]
                 /\ UNCHANGED <<argumenty, pc, los, obsluga, grupa, zbieranie, sen>>

Zaklocenie == \/ Fork1Nieudany \/ Fork2Nieudany
              \/ \E p \in Proces : ExecNieudany(p) \/ Spoznienie(p)

Tyka == /\ Uplywa(Gotowe)
        /\ UNCHANGED <<argumenty, pc, los, obsluga, grupa, zbieranie, bledy>>

Next == (\E p \in Proces : Krok(p)) \/ Zaklocenie \/ Tyka

Spec == Init /\ [][Next]_vars

(* Time passes, and who can run runs.                                      *)
FairSpec == Spec /\ WF_vars(Tyka) /\ \A p \in Proces : WF_vars(Krok(p))

-----------------------------------------------------------------------------
(* Properties.  That sleep() is enough, as the readme says, depends on     *)
(* Opoznienie < 2 * Sekunda, and on nobody being late.                     *)

Etykiety == {"brak", "fork", "exec", "signal", "setpgid", "do_pause", "pause", "handle",
             "handle_wczesnie", "sleep", "waitpid", "kill", "wait", "stoi", "koniec"}

TypeOK == /\ program \in {"b", "c"} /\ numer \in Numery /\ tryb \in 1..3
          /\ pc \in [Proces -> Etykiety] /\ los \in [Proces -> Int]
          /\ \A p \in Proces : los[p] # Zyje <=> pc[p] = "koniec"
          /\ obsluga \in [Proces -> {"SIG_DFL", "SIG_IGN", "handle"}]
          /\ grupa \subseteq Proces /\ zebrane \subseteq Potomek
          /\ Len(wydruk) <= IF pc["2"] = "wait" THEN 2 ELSE 3
          /\ bledy \subseteq Bledy /\ CzasOK

(* readme of Zad_3, timeline 5-11: when process 1 sends the signal, each   *)
(* child it is for waits in pause(), or has ended; in program "c" all      *)
(* three of them get it, and the leader ignores it.  (A receiver that is   *)
(* late may be killed before it calls signal(), or miss the signal.)       *)
NaCzas == "spoznienie" \notin bledy
Gotowi == [][Kill /\ NaCzas =>
                     /\ \A a \in Adresaci \cap Potomek : pc[a] \in {"pause", "koniec"}
                     /\ program = "c" /\ bledy = {} => grupa = Proces \ {"1"}
                     /\ "2" \in grupa => obsluga["2"] = "SIG_IGN"]_vars

(* A line tells how a process with wait status l has ended; the name of    *)
(* the signal is missing only in part (c), where a core was dumped.        *)
Zgadza(linia, l) ==
  IF l \in {0, 256} THEN linia.jak = "kod" /\ linia.numer = l \div 256
  ELSE /\ linia.jak = "sygnal" /\ linia.numer = numer
       /\ linia.nazwa = numer \/ (program = "c" /\ l > 128)

(* Of SIGCHLD process 2 gets no status.                                    *)
BezStatusow == program = "c" /\ numer = SIGCHLD

(* Whatever fails or is late, the lines of process 2 match one to one the  *)
(* children it has waited for: no end is told twice, left out or made up.  *)
(* The match does not follow the pids.  Only when nothing has gone wrong is*)
(* the child whose pid a line has sure to end, or to have ended, as it     *)
(* says; after a failed exec pid and status may be of different children,  *)
(* and the one named may be running.  In part (b) the line is true of the  *)
(* one child.  The lines tell of a signal in mode 1 only, or in part (b)   *)
(* when a process was late, and of exit code 0 in mode 3 only.  (Of SIGCHLD*)
(* the lines of process 2 are made from an unset status.)                  *)
Raport ==
  /\ program = "c" /\ ~ BezStatusow =>
       \E f \in Bijection(DOMAIN wydruk, zebrane) :
         \A k \in DOMAIN wydruk : Zgadza(wydruk[k], los[f[k]])
  /\ ~ BezStatusow => \A k \in DOMAIN wydruk :
       LET linia == wydruk[k]
       IN  /\ (program = "b" \/ bledy = {}) /\ los[linia.kto] # Zyje
                => Zgadza(linia, los[linia.kto])
           /\ linia.jak = "sygnal" => tryb = 1 \/ (program = "b" /\ ~ NaCzas)
           /\ linia.jak = "kod" /\ linia.numer = 0 => tryb = 3

(* All the processes end, each as its mode demands, and process 2 has      *)
(* waited for every child and printed a line with the pid of each; unless  *)
(* the signal is ignored, in mode 2 or by default, or stops its receivers: *)
(* process 1 then waits for ever.                                          *)
Konczacy == numer \in Nieusuwalne \/ tryb = 3 \/ (tryb = 1 /\ Domyslna(numer) = "zabija")
Wynik == IF numer \in Nieusuwalne THEN {256}
         ELSE IF tryb = 3 THEN {0} ELSE {numer, numer + 128}
Opisani == {wydruk[k].kto : k \in DOMAIN wydruk}
Spodziewani == IF numer \in Nieusuwalne THEN {}
               ELSE IF program = "b" THEN {"a1"} ELSE Potomek
Koniec == /\ \A p \in Proces : ~ Zywy(p)
          /\ \A a \in Potomek : los[a] # Zyje => los[a] \in Wynik
          /\ Opisani = Spodziewani
          /\ program = "c" /\ ~ BezStatusow => zebrane = Spodziewani
Zakonczenie == Konczacy => <>(bledy # {} \/ Koniec)

=============================================================================
