--------------------------- MODULE Sygnaly_proofs ---------------------------
(* Theorems about Sygnaly, for any signal numbers, failures and speeds.    *)
EXTENDS Sygnaly, FiniteSetTheorems, TLAPS

(* The labels each program can be at.                                      *)
Wczesne  == {"exec", "signal", "do_pause"}
Poczatek == {"exec", "signal", "setpgid", "fork"}
Trafione == {"handle", "handle_wczesnie", "stoi"}

Etapy == /\ pc["1"] \in {"fork", "sleep", "waitpid", "kill", "wait", "koniec"}
         /\ pc["2"] \in Poczatek \cup {"brak", "sleep", "wait", "koniec"}
         /\ \A a \in Potomek : pc[a] \in Wczesne \cup Trafione
                                           \cup {"brak", "pause", "koniec"}

(* A line about children, and the types; of a process it is known that it  *)
(* has a wait status exactly when it has ended.                            *)
Linie == [kto : Potomek, jak : {"kod", "sygnal", "brak"}, numer : Int, nazwa : Int]

Dane == /\ program \in {"b", "c"} /\ numer \in Numery /\ tryb \in 1..3
        /\ grupa \subseteq Proces \ {"1"} /\ zebrane \subseteq Potomek
        /\ status \in Int /\ wydruk \in Seq(Linie) /\ Len(wydruk) <= 3
        /\ bledy \subseteq Bledy

Stany == /\ pc \in [Proces -> Etykiety] /\ los \in [Proces -> Int]
         /\ obsluga \in [Proces -> {"SIG_DFL", "SIG_IGN", "handle"}]
         /\ \A p \in Proces : los[p] # Zyje <=> pc[p] = "koniec"

(* Who has been forked, by whom, and when.                                 *)
Rodowod == /\ program = "b" => grupa = {} /\ \A p \in Proces \ {"1", "a1"} : pc[p] = "brak"
           /\ program = "c" => \A a \in Potomek : a \in grupa <=> pc[a] # "brak"
           /\ pc["1"] = "fork" => \A p \in Proces \ {"1"} : pc[p] = "brak"
           /\ pc["1"] = "waitpid" => program = "b"
           /\ pc["1"] \notin {"fork", "koniec"} => pc[Dziecko] # "brak"

(* The group of process 2: it is empty until setpgid(), then filled child  *)
(* by child, and complete before process 2 sleeps. A leader that ends      *)
(* without an error has called signal() in vain, or has had all its        *)
(* children.                                                               *)
Grupa == /\ pc["2"] \in {"brak", "exec", "signal", "setpgid"} => grupa = {}
         /\ pc["2"] = "fork" => grupa \in {{"2"}, {"2", "a1"}, {"2", "a1", "a2"}}
         /\ pc["2"] \in {"sleep", "wait"} => grupa = Proces \ {"1"}
         /\ pc["2"] = "koniec" /\ bledy = {} => grupa \in {{}, Proces \ {"1"}}

(* What each process does with the signal. A process that is in the group, *)
(* its leader first, has ignored the signal from its first step on; a child*)
(* does what its mode says from its signal() on; and none is hit before    *)
(* process 1 has sent the signal.                                          *)
Obsluga == /\ grupa # {} => "2" \in grupa /\ obsluga["2"] = "SIG_IGN"
           /\ pc["2"] \in {"setpgid", "fork"} => obsluga["2"] = "SIG_IGN"
           /\ \A a \in Potomek :
                /\ pc[a] = "brak" => obsluga[a] = "SIG_DFL"
                /\ pc[a] \in {"exec", "signal"}
                     => obsluga[a] = IF program = "b" THEN "SIG_DFL" ELSE "SIG_IGN"
                /\ pc[a] \in (Trafione \ {"stoi"}) \cup {"do_pause", "pause"}
                     => obsluga[a] = Akcja(a)
                /\ pc[a] = "handle" => obsluga[a] = "handle"
                /\ pc[a] \in Trafione => pc["1"] \in {"wait", "koniec"}

(* Process 2 ends with its third line, process 1 with its only one.        *)
Wypisane == /\ pc["2"] = "wait" => Len(wydruk) < 3
            /\ program = "c" /\ pc["2"] \notin {"wait", "koniec"} => wydruk = <<>>
            /\ program = "b" /\ pc["1"] # "koniec" => wydruk = <<>>

(* The inductive invariant, without time.                                  *)
IInv == Dane /\ Stany /\ CzasOK /\ Etapy /\ Rodowod /\ Grupa /\ Obsluga /\ Wypisane

-----------------------------------------------------------------------------
(* Every step preserves the invariant: podpunkt_a.c.                       *)

(* exec leaves the children as they were forked.                           *)
LEMMA KrokExec ==
  ASSUME NEW p \in Proces, IInv, Exec(p)
  PROVE  IInv'
<1> USE SygnalyAssumption DEF IInv, Wczesne, Poczatek, Trafione, Exec, Skok, Biegnie,
           argumenty, zbieranie, czas
<1>1. Dane' /\ CzasOK' /\ Wypisane'
  BY DEF Dane, CzasOK, Wypisane
<1>2. Stany' /\ Etapy'
  BY DEF Stany, Etykiety, Etapy
<1>3. Rodowod' /\ Grupa'
  BY DEF Rodowod, Dziecko, Grupa
<1>4. Obsluga'
  BY DEF Obsluga, Akcja
<1> QED BY <1>1, <1>2, <1>3, <1>4

(* A process whose exec fails ends with a status of its own.               *)
LEMMA KrokExecNieudany ==
  ASSUME NEW p \in Proces, IInv, ExecNieudany(p)
  PROVE  IInv'
<1> USE SygnalyAssumption DEF IInv, Trafione, Zyje, ExecNieudany, Wyjdz, Biegnie,
           Awaria, argumenty, zbieranie, czas
<1>1. Dane' /\ CzasOK' /\ Wypisane'
  BY DEF Dane, CzasOK, Wypisane
<1>2. Stany' /\ Etapy'
  BY DEF Stany, Etykiety, Etapy
<1>3. Rodowod' /\ Grupa'
  BY DEF Rodowod, Dziecko, Grupa
<1>4. Obsluga'
  BY DEF Obsluga, Akcja
<1> QED BY <1>1, <1>2, <1>3, <1>4

(* From here on a child does what its mode says, and process 2 ignores.    *)
LEMMA KrokSignal ==
  ASSUME NEW p \in Proces, IInv, Signal(p)
  PROVE  IInv'
<1> USE SygnalyAssumption DEF IInv, Potomek, Wczesne, Poczatek, Trafione, Zyje, Signal,
           Wyjdz, Skok, Biegnie, Akcja, argumenty, zbieranie, czas
<1>1. Dane'
  BY DEF Dane
<1>2. CzasOK'
  BY DEF CzasOK
<1>3. Wypisane'
  BY DEF Stany, Wypisane
<1>4. Stany' /\ Etapy'
  BY DEF Stany, Etykiety, Etapy
<1>5. Rodowod' /\ Grupa'
  BY DEF Stany, Rodowod, Dziecko, Grupa
<1>6. Obsluga'
  BY DEF Stany, Obsluga
<1> QED BY <1>1, <1>2, <1>3, <1>4, <1>5, <1>6

(* A child goes to pause() with the action it has chosen.                  *)
LEMMA KrokPause ==
  ASSUME NEW p \in Proces, IInv, Pause(p)
  PROVE  IInv'
<1> USE CzasAssumption DEF IInv, Poczatek, Trafione, Pause, Skok, Biegnie, Zasnij,
           argumenty, zbieranie
<1>1. Dane'
  BY DEF Dane
<1>2. CzasOK'
  BY DEF CzasOK
<1>3. Wypisane'
  BY DEF Wypisane
<1>4. Stany' /\ Etapy'
  BY DEF Stany, Etykiety, Etapy
<1>5. Rodowod' /\ Grupa'
  BY DEF Rodowod, Dziecko, Grupa
<1>6. Obsluga'
  BY DEF Obsluga, Akcja
<1> QED BY <1>1, <1>2, <1>3, <1>4, <1>5, <1>6

(* A child whose handler returns into pause() ends.                        *)
LEMMA KrokHandleWraca ==
  ASSUME NEW p \in Proces, IInv, HandleWraca(p)
  PROVE  IInv'
<1> USE DEF IInv, Poczatek, Trafione, Zyje, HandleWraca, Wyjdz, Biegnie, argumenty,
           zbieranie, czas
<1>1. Dane' /\ CzasOK' /\ Wypisane'
  BY DEF Dane, CzasOK, Wypisane
<1>2. Stany' /\ Etapy'
  BY DEF Stany, Etykiety, Etapy
<1>3. Rodowod' /\ Grupa'
  BY DEF Etapy, Rodowod, Dziecko, Grupa
<1>4. Obsluga'
  BY DEF Obsluga, Akcja
<1> QED BY <1>1, <1>2, <1>3, <1>4

(* A child that was hit before pause() goes back to call it.               *)
LEMMA KrokHandleZaWczesnie ==
  ASSUME NEW p \in Proces, IInv, HandleZaWczesnie(p)
  PROVE  IInv'
<1> USE SygnalyAssumption DEF IInv, Wczesne, Poczatek, HandleZaWczesnie, Skok, Biegnie,
           argumenty, zbieranie, czas
<1>1. Dane' /\ CzasOK' /\ Wypisane'
  BY DEF Dane, CzasOK, Wypisane
<1>2. Stany' /\ Etapy'
  BY DEF Stany, Etykiety, Etapy
<1>3. Rodowod' /\ Grupa'
  BY DEF Rodowod, Dziecko, Grupa
<1>4. Obsluga'
  BY DEF Etapy, Obsluga, Akcja
<1> QED BY <1>1, <1>2, <1>3, <1>4

(* A delay changes the clock alone.                                        *)
LEMMA KrokSpoznienie ==
  ASSUME NEW p \in Proces, IInv, Spoznienie(p)
  PROVE  IInv'
<1> USE CzasAssumption DEF IInv, Spoznienie, Awaria, argumenty, zbieranie
<1>1. Dane' /\ CzasOK' /\ Wypisane'
  BY DEF Dane, CzasOK, Wypisane
<1>2. Stany' /\ Etapy'
  BY DEF Stany, Etapy
<1>3. Rodowod' /\ Grupa'
  BY DEF Rodowod, Dziecko, Grupa
<1>4. Obsluga'
  BY DEF Obsluga, Akcja
<1> QED BY <1>1, <1>2, <1>3, <1>4

-----------------------------------------------------------------------------
(* Process 2.                                                              *)

(* The group gets its leader, who ignores the signal already.              *)
LEMMA KrokSetpgid ==
  ASSUME IInv, Setpgid
  PROVE  IInv'
<1> USE SygnalyAssumption DEF IInv, Wczesne, Poczatek, Trafione, Setpgid, Skok, Biegnie,
           argumenty, zbieranie, czas
<1>1. Dane' /\ CzasOK' /\ Wypisane'
  BY DEF Dane, CzasOK, Wypisane
<1>2. Stany' /\ Etapy'
  BY DEF Stany, Etykiety, Etapy
<1>3. Rodowod' /\ Grupa'
  BY DEF Stany, Rodowod, Dziecko, Grupa
<1>4. Obsluga'
  BY DEF Obsluga, Akcja
<1> QED BY <1>1, <1>2, <1>3, <1>4

(* A leader that cannot fork ends, with an error on record.                *)
LEMMA KrokFork2Nieudany ==
  ASSUME IInv, Fork2Nieudany
  PROVE  IInv'
<1> USE SygnalyAssumption DEF IInv, Trafione, Zyje, Fork2Nieudany, Biegnie, Awaria,
           Wyjdz, argumenty, zbieranie, czas
<1>1. Dane' /\ CzasOK' /\ Wypisane'
  BY DEF Dane, CzasOK, Wypisane
<1>2. Stany' /\ Etapy'
  BY DEF Stany, Etykiety, Etapy
<1>3. Rodowod' /\ Grupa'
  BY DEF Rodowod, Dziecko, Grupa
<1>4. Obsluga'
  BY DEF Obsluga, Akcja
<1> QED BY <1>1, <1>2, <1>3, <1>4

(* The group is complete when process 2 sleeps, and nothing is written.    *)
LEMMA KrokSleep2 ==
  ASSUME IInv, Sleep2
  PROVE  IInv'
<1> USE SygnalyAssumption, CzasAssumption DEF IInv, Wczesne, Trafione, Sleep2, Skok,
           Biegnie, Zasnij, argumenty, zbieranie
<1>1. Dane'
  BY DEF Dane
<1>2. CzasOK'
  BY DEF CzasOK
<1>3. Wypisane'
  BY DEF Rodowod, Wypisane, Dane
<1>4. Stany' /\ Etapy'
  BY DEF Stany, Etykiety, Etapy
<1>5. Rodowod' /\ Grupa'
  BY DEF Rodowod, Dziecko, Grupa
<1>6. Obsluga'
  BY DEF Obsluga, Akcja
<1> QED BY <1>1, <1>2, <1>3, <1>4, <1>5, <1>6

-----------------------------------------------------------------------------
(* Process 1.                                                              *)

(* The child of process 1 is the first process that it creates.            *)
LEMMA KrokFork1 ==
  ASSUME IInv, Fork1
  PROVE  IInv'
<1> USE SygnalyAssumption, CzasAssumption DEF IInv, Potomek, Wczesne, Poczatek,
           Trafione, Zyje, Fork1, Biegnie, Dziecko, argumenty, zbieranie, czas
<1>1. Dane'
  BY DEF Dane, Etapy
<1>2. Stany'
  BY DEF Stany, Etykiety, Etapy, Rodowod
<1>3. CzasOK'
  BY DEF CzasOK, Stany
<1>4. Etapy'
  BY DEF Stany, Etapy
<1>5. Rodowod'
  BY DEF Stany, Etapy, Rodowod, Dziecko
<1>6. Grupa'
  BY DEF Stany, Etapy, Rodowod, Grupa, Dane
<1>7. Obsluga'
  BY DEF Stany, Etapy, Rodowod, Grupa, Obsluga, Akcja, Dane
<1>8. Wypisane'
  BY DEF Stany, Etapy, Rodowod, Wypisane
<1> QED BY <1>1, <1>2, <1>3, <1>4, <1>5, <1>6, <1>7, <1>8

(* Without a child process 1 ends.                                         *)
LEMMA KrokFork1Nieudany ==
  ASSUME IInv, Fork1Nieudany
  PROVE  IInv'
<1> USE SygnalyAssumption DEF IInv, Trafione, Zyje, Fork1Nieudany, Awaria, Wyjdz,
           argumenty, zbieranie, czas
<1>1. Dane' /\ CzasOK' /\ Wypisane'
  BY DEF Dane, CzasOK, Wypisane
<1>2. Stany' /\ Etapy'
  BY DEF Stany, Etykiety, Etapy
<1>3. Rodowod' /\ Grupa'
  BY DEF Etapy, Rodowod, Dziecko, Grupa
<1>4. Obsluga'
  BY DEF Obsluga, Akcja
<1> QED BY <1>1, <1>2, <1>3, <1>4

(* Process 1 goes on to waitpid() in program b only.                       *)
LEMMA KrokSleep1 ==
  ASSUME IInv, Sleep1
  PROVE  IInv'
<1> USE SygnalyAssumption, CzasAssumption DEF IInv, Wczesne, Trafione, Sleep1, Skok,
           Biegnie, Zasnij, argumenty, zbieranie
<1>1. Dane'
  BY DEF Dane
<1>2. CzasOK'
  BY DEF CzasOK
<1>3. Wypisane'
  BY DEF Wypisane
<1>4. Stany' /\ Etapy'
  BY DEF Stany, Etykiety, Etapy
<1>5. Rodowod' /\ Grupa'
  BY DEF Rodowod, Dziecko, Grupa
<1>6. Obsluga'
  BY DEF Obsluga, Akcja
<1> QED BY <1>1, <1>2, <1>3, <1>4, <1>5, <1>6

(* A child that has ended already ends process 1.                          *)
LEMMA KrokWaitpid ==
  ASSUME IInv, Waitpid
  PROVE  IInv'
<1> USE SygnalyAssumption DEF IInv, Potomek, Zyje, Waitpid, Skok, Biegnie, Wyjdz,
           argumenty, zbieranie, czas
<1>1. Dane' /\ CzasOK' /\ Wypisane'
  BY DEF Dane, CzasOK, Rodowod, Wypisane
<1>2. Stany' /\ Etapy'
  BY DEF Stany, Etykiety, Etapy
<1>3. Rodowod' /\ Grupa'
  BY DEF Stany, Rodowod, Dziecko, Grupa
<1>4. Obsluga'
  BY DEF Stany, Obsluga, Akcja
<1> QED BY <1>1, <1>2, <1>3, <1>4

(* Process 1 ends when the group does not exist.                           *)
LEMMA KrokKillNieudany ==
  ASSUME IInv, KillNieudany
  PROVE  IInv'
<1> USE SygnalyAssumption DEF IInv, Trafione, Zyje, KillNieudany, Wyjdz, argumenty,
           zbieranie, czas
<1>1. Dane' /\ CzasOK' /\ Wypisane'
  BY DEF Dane, CzasOK, Wypisane
<1>2. Stany' /\ Etapy'
  BY DEF Stany, Etykiety, Etapy
<1>3. Rodowod' /\ Grupa'
  BY DEF Etapy, Rodowod, Dziecko, Grupa
<1>4. Obsluga'
  BY DEF Obsluga, Akcja
<1> QED BY <1>1, <1>2, <1>3, <1>4

-----------------------------------------------------------------------------
(* The steps that take an argument of their own: which child, which line,  *)
(* which processes are hit.                                                *)

(* The children are forked in the order of their names: the next one is    *)
(* told by the size of the group.                                          *)
LEMMA Kolejny ==
  ASSUME NEW a \in Potomek, IInv, Fork2(a)
  PROVE  \/ grupa = {"2"} /\ a = "a1"
         \/ grupa = {"2", "a1"} /\ a = "a2"
         \/ grupa = {"2", "a1", "a2"} /\ a = "a3"
<1>1. /\ Cardinality({"2"}) = 1
      /\ IsFiniteSet({"2"})
  BY FS_Singleton
<1>2. /\ Cardinality({"2"} \cup {"a1"}) = 2
      /\ IsFiniteSet({"2"} \cup {"a1"})
  BY <1>1, FS_AddElement
<1>3. Cardinality({"2", "a1"} \cup {"a2"}) = 3
  <2>1. {"2"} \cup {"a1"} = {"2", "a1"}
    OBVIOUS
  <2> QED BY <1>2, <2>1, FS_AddElement
<1>4. /\ {"2"} \cup {"a1"} = {"2", "a1"}
      /\ {"2", "a1"} \cup {"a2"} = {"2", "a1", "a2"}
  OBVIOUS
<1>5. grupa \in {{"2"}, {"2", "a1"}, {"2", "a1", "a2"}}
  BY DEF IInv, Grupa, Fork2, Biegnie
<1>6. a = Nr[Cardinality(grupa)]
  BY DEF Fork2, Rodzi
<1> QED BY <1>1, <1>2, <1>3, <1>4, <1>5, <1>6 DEF Nr

(* The next child is in the group, and ignores the signal as its parent    *)
(* does.                                                                   *)
LEMMA KrokFork2 ==
  ASSUME NEW a \in Potomek, IInv, Fork2(a)
  PROVE  IInv'
<1> USE SygnalyAssumption, CzasAssumption DEF IInv, Potomek, Wczesne, Poczatek,
           Trafione, Zyje, Fork2, Biegnie, argumenty, zbieranie, czas
<1>0. \/ grupa = {"2"} /\ a = "a1"
      \/ grupa = {"2", "a1"} /\ a = "a2"
      \/ grupa = {"2", "a1", "a2"} /\ a = "a3"
  BY Kolejny
<1>c. program = "c" /\ pc[a] = "brak"
  BY <1>0 DEF Dane, Rodowod
<1>1. Dane'
  BY DEF Dane
<1>2. Stany'
  BY <1>c DEF Stany, Etykiety
<1>3. CzasOK'
  BY DEF CzasOK, Stany
<1>4. Etapy'
  BY DEF Stany, Etapy
<1>5. Rodowod'
  BY <1>0, <1>c DEF Stany, Etapy, Rodowod, Dziecko
<1>6. Grupa'
  BY <1>0 DEF Stany, Etapy, Rodowod, Grupa, Dane
<1>7. Obsluga'
  BY <1>c DEF Stany, Etapy, Rodowod, Grupa, Obsluga, Akcja
<1>8. Wypisane'
  BY <1>c DEF Stany, Etapy, Rodowod, Wypisane, Dane
<1> QED BY <1>1, <1>2, <1>3, <1>4, <1>5, <1>6, <1>7, <1>8

(* The one line of program b is well formed.                               *)
LEMMA KrokWait1 ==
  ASSUME IInv, Wait1
  PROVE  IInv'
<1> USE SygnalyAssumption, CzasAssumption DEF IInv, Potomek, Wczesne, Poczatek,
           Trafione, Zyje, Wait1, Wyjdz, Biegnie, argumenty, zbieranie, czas
<1>1. Dane'
  <2>1. wydruk' \in Seq(Linie) /\ Len(wydruk') <= 3
    <3>1. [Linia("a1", los["a1"]) EXCEPT
             !.nazwa = my_strsignal(WTERMSIG(los["a1"]))] \in Linie
      <4>1. /\ los["a1"] \in Int /\ WTERMSIG(los["a1"]) \in Int
            /\ my_strsignal(WTERMSIG(los["a1"])) \in Int
        BY DEF my_strsignal, WTERMSIG, Stany
      <4> HIDE DEF Zyje
      <4> QED BY <4>1 DEF Linie, Linia
    <3> QED BY <3>1 DEF Dane
  <2> QED BY <2>1 DEF Dane
<1>2. Stany'
  BY DEF Stany, Etykiety
<1>3. CzasOK'
  BY DEF CzasOK, Stany
<1>4. Etapy'
  BY DEF Stany, Etapy
<1>5. Rodowod'
  BY DEF Stany, Etapy, Rodowod, Dziecko
<1>6. Grupa'
  BY DEF Stany, Etapy, Rodowod, Grupa, Dane
<1>7. Obsluga'
  BY DEF Stany, Etapy, Rodowod, Grupa, Obsluga, Akcja
<1>8. Wypisane'
  BY DEF Stany, Etapy, Rodowod, Wypisane, Dane
<1> QED BY <1>1, <1>2, <1>3, <1>4, <1>5, <1>6, <1>7, <1>8

(* A line more, of a child that has ended or of none; the third ends       *)
(* process 2.                                                              *)
LEMMA KrokWait2 ==
  ASSUME IInv, Wait2
  PROVE  IInv'
<1> USE SygnalyAssumption, CzasAssumption DEF IInv, Potomek, Wczesne, Poczatek,
           Trafione, Zyje, Wyjdz, Biegnie, argumenty, zbieranie, czas
<1>0. program = "c" /\ Len(wydruk) < 3
  BY DEF Dane, Rodowod, Wait2, Wypisane
<1>w. /\ pc["2"] = "wait" /\ los["2"] = Zyje
      /\ UNCHANGED <<argumenty, obsluga, grupa, bledy, czas>>
      /\ wydruk' = Append(wydruk, Linia(Nr[Len(wydruk) + 1], status'))
      /\ \/ pc' = [pc EXCEPT !["2"] = "koniec"] /\ los' = [los EXCEPT !["2"] = 0]
         \/ UNCHANGED <<pc, los>> /\ Len(wydruk') # 3
  BY DEF Wait2, WaitKoniec, Stany
<1>z. zebrane' \subseteq Potomek /\ status' \in Int
  <2>1. CASE Zombie = {}
    BY <2>1 DEF Wait2, Dane
  <2>2. CASE Zombie # {}
    <3>1. PICK a \in Zombie : zebrane' = zebrane \cup {a} /\ status' = los[a]
      BY <2>2 DEF Wait2
    <3>2. a \in Potomek
      BY <3>1 DEF Zombie
    <3> QED BY <3>1, <3>2 DEF Dane, Stany
  <2> QED BY <2>1, <2>2
<1>d. wydruk' \in Seq(Linie) /\ Len(wydruk') = Len(wydruk) + 1
  <2>1. Linia(Nr[Len(wydruk) + 1], status') \in Linie
    <3>1. WTERMSIG(status') \in Int /\ my_strsignal(status') \in Int
      BY <1>z DEF WTERMSIG, my_strsignal
    <3>2. Nr[Len(wydruk) + 1] \in Potomek
      BY <1>0 DEF Dane, Nr
    <3> HIDE DEF Potomek
    <3> QED BY <1>z, <3>1, <3>2 DEF Linie, Linia
  <2> QED BY <1>w, <2>1 DEF Dane
<1>1. Dane'
  BY <1>0, <1>w, <1>z, <1>d DEF Dane
<1>2. Stany'
  BY <1>w DEF Stany, Etykiety
<1>3. CzasOK'
  BY <1>w DEF CzasOK, Stany
<1>4. Etapy'
  BY <1>w DEF Stany, Etapy
<1>5. Rodowod'
  BY <1>w DEF Stany, Etapy, Rodowod, Dziecko
<1>6. Grupa'
  BY <1>w DEF Stany, Etapy, Rodowod, Grupa, Dane
<1>7. Obsluga'
  BY <1>w DEF Stany, Etapy, Rodowod, Grupa, Obsluga, Akcja
<1>8. Wypisane'
  BY <1>0, <1>w, <1>d DEF Stany, Wypisane, Dane
<1> QED BY <1>1, <1>2, <1>3, <1>4, <1>5, <1>6, <1>7, <1>8

(* Time changes the clock alone.                                           *)
LEMMA KrokTyka ==
  ASSUME IInv, Tyka
  PROVE  IInv'
<1> USE DEF IInv, Tyka, argumenty, zbieranie
<1>1. CzasOK'
  <2>1. Gotowe \subseteq Proces
    BY DEF Gotowe
  <2>2. sen' \in [Proces -> Nat]
    BY DEF CzasOK, Uplywa
  <2>3. luz' \in [Proces -> 0..Opoznienie]
    BY <2>1, CzasAssumption DEF CzasOK, Uplywa
  <2> QED BY <2>2, <2>3 DEF CzasOK
<1>2. Dane' /\ Stany' /\ Etapy' /\ Grupa' /\ Wypisane'
  BY DEF Dane, Stany, Etapy, Grupa, Wypisane
<1>3. Rodowod' /\ Obsluga'
  BY DEF Rodowod, Obsluga, Dziecko, Akcja
<1> QED BY <1>1, <1>2, <1>3

(* A stuttering step.                                                      *)
LEMMA KrokPusty ==
  ASSUME IInv, UNCHANGED vars
  PROVE  IInv'
  BY DEF vars, argumenty, zbieranie, czas, IInv, Dane, Stany, CzasOK, Etapy, Rodowod, Grupa,
         Obsluga, Wypisane, Dziecko, Akcja

(* The initial states.                                                     *)
LEMMA Poczatkowy == Init => IInv
<1> SUFFICES ASSUME Init PROVE IInv
  OBVIOUS
<1> USE SygnalyAssumption, CzasAssumption DEF Init, Potomek, Wczesne, Poczatek,
           Trafione, Zyje
<1>1. Dane
  BY DEF Dane
<1>2. Stany /\ Etapy
  BY DEF Stany, Etapy, Etykiety
<1>3. CzasOK
  BY DEF CzasInit, CzasOK
<1>4. Rodowod /\ Grupa /\ Obsluga /\ Wypisane
  BY DEF Rodowod, Grupa, Obsluga, Wypisane, Dziecko, Akcja
<1> QED BY <1>1, <1>2, <1>3, <1>4 DEF IInv

(* The signal: process 2 ignores it, and of the other processes it hits    *)
(* those that live and are addressed, none of them for the second time.    *)
LEMMA KrokKill ==
  ASSUME IInv, Kill
  PROVE  IInv'
<1> USE SygnalyAssumption, CzasAssumption DEF IInv, Potomek, Wczesne, Poczatek,
           Trafione, Zyje, argumenty, zbieranie
<1>k. /\ pc["1"] = "kill" /\ sen["1"] = 0 /\ Adresaci # {}
      /\ UNCHANGED <<argumenty, obsluga, grupa, zbieranie, bledy>>
      /\ pc' = [[p \in Proces |-> Po(p)] EXCEPT !["1"] = "wait"]
      /\ sen' = [p \in Proces |-> IF Skutek(p) = "handle" THEN 3 * Sekunda ELSE sen[p]]
      /\ luz' = [luz EXCEPT !["1"] = Opoznienie]
  BY DEF Kill, Biegnie
<1>l. PICK zrzut \in {0, 128} :
        los' = [p \in Proces |-> IF Skutek(p) = "zabija" THEN numer + zrzut ELSE los[p]]
  BY DEF Kill
<1>p. pc'["1"] = "wait" /\ \A p \in Proces \ {"1"} : pc'[p] = Po(p)
  BY <1>k DEF Stany
<1>s. ASSUME NEW p \in Proces
      PROVE  \/ Skutek(p) = "nic" /\ Po(p) = pc[p]
             \/ /\ p \in Adresaci /\ pc[p] \notin {"brak", "koniec"}
                /\ \/ Skutek(p) = "zatrzymuje" /\ Po(p) = "stoi"
                   \/ Skutek(p) = "zabija" /\ Po(p) = "koniec"
                   \/ /\ Skutek(p) = "handle" /\ obsluga[p] = "handle"
                      /\ Po(p) = IF pc[p] = "pause" THEN "handle" ELSE "handle_wczesnie"
  BY DEF Skutek, Po, Zywy, Domyslna
<1>1. "1" \notin Adresaci /\ Skutek("1") = "nic"
  BY DEF Adresaci, Dane, Skutek
<1>2. Skutek("2") = "nic" /\ pc'["2"] = pc["2"]
  BY <1>p, <1>s, "2" \in Proces DEF Adresaci, Skutek, Obsluga, Dane
<1>3. ASSUME NEW a \in Potomek, pc[a] \in Trafione
      PROVE  FALSE
  BY <1>3, <1>k DEF Obsluga
<1>4. Dane'
  BY <1>k DEF Dane
<1>5. Stany'
  <2>1. pc' \in [Proces -> Etykiety]
    <3>1. \A p \in Proces : Po(p) \in Etykiety
      BY <1>s DEF Stany, Etykiety
    <3> QED BY <3>1, <1>k DEF Etykiety
  <2>2. los' \in [Proces -> Int]
    BY <1>l DEF Dane, Stany
  <2>3. ASSUME NEW p \in Proces
        PROVE  los'[p] # Zyje <=> pc'[p] = "koniec"
    <3>1. CASE p = "1"
      BY <3>1, <1>1, <1>l, <1>p, <1>k DEF Stany
    <3>2. CASE p # "1"
      BY <3>2, <1>s, <1>l, <1>p DEF Stany, Dane
    <3> QED BY <3>1, <3>2
  <2> QED BY <2>1, <2>2, <2>3, <1>k DEF Stany
<1>6. CzasOK'
  <2>1. 3 * Sekunda \in Nat
    OBVIOUS
  <2> QED BY <2>1, <1>k DEF CzasOK
<1>7. Etapy'
  BY <1>p, <1>s, <1>2 DEF Etapy
<1>8. Rodowod'
  <2>1. \A p \in Proces \ {"1"} : pc'[p] = "brak" <=> pc[p] = "brak"
    BY <1>p, <1>s
  <2> QED BY <2>1, <1>p, <1>k DEF Rodowod, Dziecko, Dane
<1>9. Grupa'
  BY <1>2, <1>k DEF Grupa
<1>10. Obsluga'
  <2>1. ASSUME NEW a \in Potomek
        PROVE  /\ pc'[a] = pc[a] \/ pc'[a] \in Trafione \cup {"koniec"}
               /\ pc'[a] = "handle" => obsluga[a] = "handle"
               /\ pc'[a] \in Trafione \ {"stoi"} => obsluga[a] = Akcja(a)
    <3>1. pc'[a] = Po(a)
      BY <1>p
    <3>2. pc'[a] \in Trafione \ {"stoi"} => obsluga[a] = Akcja(a)
      BY <3>1, <1>s, <1>3 DEF Akcja, Obsluga, Etapy
    <3> QED BY <3>1, <3>2, <1>s, <1>3
  <2> QED BY <2>1, <1>2, <1>p, <1>k DEF Obsluga, Akcja
<1>11. Wypisane'
  BY <1>p, <1>2, <1>k DEF Wypisane
<1> QED BY <1>4, <1>5, <1>6, <1>7, <1>8, <1>9, <1>10, <1>11

(* Every step preserves the invariant.                                     *)
LEMMA KrokInv == ASSUME IInv, [Next]_vars PROVE IInv'
<1>1. CASE UNCHANGED vars
  BY <1>1, KrokPusty
<1>2. ASSUME NEW p \in Proces, Krok(p)
      PROVE  IInv'
  BY <1>2, KrokExec, KrokSignal, KrokPause, KrokHandleWraca, KrokHandleZaWczesnie,
     KrokSetpgid, KrokSleep2, KrokWait2, KrokFork2, KrokFork1, KrokSleep1, KrokWaitpid,
     KrokKill, KrokKillNieudany, KrokWait1 DEF Krok
<1>3. CASE Zaklocenie
  BY <1>3, KrokFork1Nieudany, KrokFork2Nieudany, KrokExecNieudany, KrokSpoznienie
     DEF Zaklocenie
<1> QED BY <1>1, <1>2, <1>3, KrokTyka DEF Next

(* Types, and that a process has a wait status exactly when it has ended.  *)
THEOREM TypOK == Spec => []TypeOK
<1>1. IInv => TypeOK
  BY DEF IInv, Dane, Stany, CzasOK, Wypisane, TypeOK
<1> QED BY Poczatkowy, KrokInv, <1>1, PTL DEF Spec

-----------------------------------------------------------------------------
(* Time.  The clocks of process 1 and of the others run together, so a     *)
(* process on its way to its next wait is as far from its limit as process *)
(* 1 is from the end of its sleep, or farther: process 2 started no later  *)
(* than process 1 went to sleep, and its children no later than process 2  *)
(* may take.                                                               *)

(* Before its pause() a process does not sleep.                            *)
Drzemka == \A p \in Proces : pc[p] \in Poczatek \cup Wczesne \cup {"brak"} => sen[p] = 0

(* While process 1 sleeps or has slept: the time left to a process on its  *)
(* way, and the sleep left to process 1.                                   *)
Terminy == pc["1"] \in {"waitpid", "kill"} =>
  /\ program = "b" /\ pc["a1"] \in Wczesne
       => luz["a1"] + 2 * Sekunda <= Opoznienie + sen["1"]
  /\ program = "c" /\ pc["2"] \in Poczatek
       => luz["2"] + 4 * Sekunda <= Opoznienie + sen["1"]
  /\ \A a \in Potomek : program = "c" /\ pc[a] \in Wczesne
       => luz[a] + 4 * Sekunda <= 2 * Opoznienie + sen["1"]

(* The time of a process that does not exist has not begun.                *)
Swieze == \A p \in Proces : pc[p] = "brak" => luz[p] = Opoznienie

(* What is known of time.                                                  *)
Czasy == Drzemka /\ Swieze /\ (NaCzas => Terminy)

(* Initially nothing sleeps, and every process has its time before it.     *)
LEMMA CzasyInit == Init => Czasy
  BY SygnalyAssumption DEF Init, Czasy, Drzemka, Swieze, Terminy, Potomek, CzasInit

(* Every step preserves what is known of time.                             *)
LEMMA CzasyKrok ==
  ASSUME IInv, Czasy, [Next]_vars
  PROVE  Czasy'
<1> USE SygnalyAssumption, CzasAssumption
    DEF IInv, Potomek, Wczesne, Poczatek, argumenty, zbieranie, czas
<1>1. ASSUME NEW p \in Proces, Exec(p)
      PROVE  Czasy'
  BY <1>1 DEF Exec, Skok, Biegnie, Czasy, Drzemka, Swieze, Terminy, NaCzas, Stany
<1>2. ASSUME NEW p \in Proces, ExecNieudany(p)
      PROVE  Czasy'
  BY <1>2 DEF ExecNieudany, Wyjdz, Awaria, Biegnie, Czasy, Drzemka, Swieze, Terminy,
             NaCzas, Stany
<1>3. ASSUME NEW p \in Proces, Signal(p)
      PROVE  Czasy'
  BY <1>3 DEF Signal, Wyjdz, Skok, Biegnie, Czasy, Drzemka, Swieze, Terminy, NaCzas, Stany
<1>4. ASSUME NEW p \in Proces, Pause(p)
      PROVE  Czasy'
  BY <1>4 DEF Pause, Zasnij, Skok, Biegnie, Czasy, Drzemka, Swieze, Terminy, NaCzas,
             Stany, CzasOK, Etapy
<1>5. ASSUME NEW p \in Proces, HandleWraca(p) \/ HandleZaWczesnie(p)
      PROVE  Czasy'
  BY <1>5 DEF HandleWraca, HandleZaWczesnie, Wyjdz, Skok, Biegnie, Czasy, Drzemka,
             Swieze, Terminy, NaCzas, Stany, Etapy, Obsluga, Trafione
<1>6. CASE Setpgid
  BY <1>6 DEF Setpgid, Skok, Biegnie, Czasy, Drzemka, Swieze, Terminy, NaCzas, Stany
<1>7. CASE Sleep2
  BY <1>7 DEF Sleep2, Zasnij, Skok, Biegnie, Czasy, Drzemka, Swieze, Terminy, NaCzas,
             Stany, CzasOK
<1>8. CASE Wait2
  BY <1>8 DEF Wait2, Wyjdz, Biegnie, Czasy, Drzemka, Swieze, Terminy, NaCzas, Stany
<1>9. ASSUME NEW a \in Potomek, Fork2(a)
      PROVE  Czasy'
  <2>1. pc[a] = "brak" /\ program = "c"
    BY <1>9, Kolejny DEF Dane, Rodowod, Fork2, Biegnie
  <2>2. (Drzemka /\ Swieze)'
    BY <1>9, <2>1 DEF Fork2, Biegnie, Czasy, Drzemka, Swieze, Stany
  <2>3. NaCzas' => Terminy'
    BY <1>9, <2>1 DEF Fork2, Biegnie, Czasy, Swieze, Terminy, NaCzas, Stany, CzasOK
  <2> QED BY <2>2, <2>3 DEF Czasy
<1>10. CASE Fork1
  BY <1>10 DEF Fork1, Dziecko, Biegnie, Czasy, Drzemka, Swieze, Terminy, NaCzas, Stany,
             Rodowod
<1>11. CASE Sleep1
  <2>1. /\ sen' = [sen EXCEPT !["1"] = (IF program = "b" THEN 2 ELSE 4) * Sekunda]
        /\ luz' = [luz EXCEPT !["1"] = Opoznienie]
        /\ pc' = [pc EXCEPT !["1"] = IF program = "b" THEN "waitpid" ELSE "kill"]
        /\ UNCHANGED <<argumenty, bledy>>
    BY <1>11 DEF Sleep1, Zasnij, Skok
  <2>2. (Drzemka /\ Swieze)'
    BY <2>1 DEF Czasy, Drzemka, Swieze, Stany
  <2>3. /\ \A p \in Proces \ {"1"} : luz'[p] = luz[p] /\ luz[p] \in 0..Opoznienie
        /\ program = "b" => sen'["1"] = 2 * Sekunda
        /\ program = "c" => sen'["1"] = 4 * Sekunda
    BY <2>1 DEF CzasOK
  <2>4. Terminy'
    BY <2>1, <2>3 DEF Terminy
  <2> QED BY <2>2, <2>4 DEF Czasy
<1>12. CASE Waitpid
  BY <1>12 DEF Waitpid, Wyjdz, Skok, Biegnie, Czasy, Drzemka, Swieze, Terminy, NaCzas,
             Stany, Dane, Rodowod
<1>13. CASE Kill
  BY <1>13 DEF Kill, Biegnie, Po, Skutek, Zywy, Domyslna, Adresaci, Czasy, Drzemka,
             Swieze, Terminy, NaCzas, Stany, CzasOK, Etapy
<1>14. CASE KillNieudany \/ Wait1
  BY <1>14 DEF KillNieudany, Wait1, Wyjdz, Biegnie, Czasy, Drzemka, Swieze, Terminy,
             NaCzas, Stany
<1>15. CASE Fork1Nieudany \/ Fork2Nieudany
  BY <1>15 DEF Fork1Nieudany, Fork2Nieudany, Awaria, Wyjdz, Biegnie, Czasy, Drzemka,
             Swieze, Terminy, NaCzas, Stany
<1>16. ASSUME NEW p \in Proces, Spoznienie(p)
       PROVE  Czasy'
  BY <1>16 DEF Spoznienie, Awaria, Gotowe, Zywy, Czasy, Drzemka, Swieze, NaCzas, CzasOK
<1>17. CASE Tyka
  <2>1. \A p \in Proces : pc[p] \in Wczesne \cup Poczatek => p \in Gotowe
    BY DEF Czasy, Drzemka, Gotowe, Zywy
  <2>2. Gotowe \subseteq Proces /\ \A p \in Gotowe : luz[p] > 0 /\ Zywy(p)
    BY <1>17 DEF Tyka, Uplywa, Gotowe
  <2>3. (Drzemka /\ Swieze)'
    BY <1>17, <2>2 DEF Tyka, Uplywa, Zywy, Czasy, Drzemka, Swieze
  <2>4. NaCzas' => Terminy'
    <3>1. /\ sen'["1"] >= sen["1"] - 1 /\ sen'["1"] \in Nat /\ sen["1"] \in Nat
          /\ \A p \in Gotowe : luz'[p] = luz[p] - 1 /\ luz[p] \in Nat
      BY <1>17, <2>2 DEF Tyka, Uplywa, CzasOK
    <3> QED BY <1>17, <2>1, <3>1 DEF Tyka, Czasy, Terminy, NaCzas
  <2> QED BY <2>3, <2>4 DEF Czasy
<1>18. CASE UNCHANGED vars
  BY <1>18 DEF vars, Czasy, Drzemka, Swieze, Terminy, NaCzas
<1> QED BY <1>1, <1>2, <1>3, <1>4, <1>5, <1>6, <1>7, <1>8, <1>9, <1>10, <1>11, <1>12,
           <1>13, <1>14, <1>15, <1>16, <1>17, <1>18 DEF Next, Krok, Zaklocenie

(* When process 1 has slept, and nobody has been late, no receiver can     *)
(* still be on its way to pause(): it would have had to take twice two     *)
(* seconds, or in program b two seconds, and it may take less.             *)
LEMMA NaMiejscu ==
  ASSUME Opoznienie < 2 * Sekunda, IInv, Czasy, NaCzas,
         pc["1"] \in {"waitpid", "kill"}, sen["1"] = 0
  PROVE  /\ \A a \in Potomek : pc[a] \notin Wczesne \cup Trafione
         /\ program = "c" => pc["2"] \notin Poczatek \cup {"brak"}
         /\ program = "b" => pc["a1"] # "brak"
<1> USE SygnalyAssumption, CzasAssumption DEF IInv, Potomek
<1>1. Terminy
  BY DEF Czasy
<1>2. \A p \in Proces : luz[p] \in Nat
  BY DEF CzasOK
<1>3. program = "c" => pc["2"] \notin Poczatek
  BY <1>1, <1>2 DEF Terminy
<1>4. \A a \in Potomek : pc[a] \notin Wczesne
  BY <1>1, <1>2 DEF Terminy, Dane, Rodowod, Wczesne
<1>5. pc[Dziecko] # "brak"
  BY DEF Rodowod
<1> QED BY <1>1, <1>3, <1>4, <1>5 DEF Dziecko, Obsluga

(* sleep() is enough when the processes take less than two seconds to their*)
(* next wait and nobody is late: the signal finds every receiver in pause()*)
(* or ended, and in program c all three of them and a leader that ignores  *)
(* it.                                                                     *)
THEOREM GotowiInv == ASSUME Opoznienie < 2 * Sekunda PROVE Spec => Gotowi
<1>1. IInv /\ Czasy /\ Kill /\ NaCzas
        => /\ \A a \in Adresaci \cap Potomek : pc[a] \in {"pause", "koniec"}
           /\ program = "c" /\ bledy = {} => grupa = Proces \ {"1"}
           /\ "2" \in grupa => obsluga["2"] = "SIG_IGN"
  <2> SUFFICES ASSUME IInv, Czasy, Kill, NaCzas
               PROVE  /\ \A a \in Adresaci \cap Potomek : pc[a] \in {"pause", "koniec"}
                      /\ program = "c" /\ bledy = {} => grupa = Proces \ {"1"}
                      /\ "2" \in grupa => obsluga["2"] = "SIG_IGN"
    OBVIOUS
  <2>1. ASSUME NEW a \in Adresaci \cap Potomek
        PROVE  pc[a] \in {"pause", "koniec"}
    <3>1. pc[a] # "brak"
      BY <2>1, NaMiejscu DEF Kill, Biegnie, Adresaci, IInv, Dane, Rodowod
    <3> QED BY <3>1, NaMiejscu DEF Kill, Biegnie, IInv, Etapy
  <2>2. program = "c" /\ bledy = {} => grupa = Proces \ {"1"}
    BY NaMiejscu DEF Kill, Biegnie, Adresaci, IInv, Etapy, Grupa
  <2>3. "2" \in grupa => obsluga["2"] = "SIG_IGN"
    BY DEF IInv, Obsluga
  <2> QED BY <2>1, <2>2, <2>3
<1> QED BY Poczatkowy, KrokInv, CzasyInit, CzasyKrok, <1>1, PTL DEF Spec, Gotowi

(* A wait status is final: no step changes it once the process has ended.  *)
LEMMA Ostateczny ==
  ASSUME IInv, [Next]_vars, NEW p \in Proces, los[p] # Zyje
  PROVE  los'[p] = los[p]
<1>1. pc[p] = "koniec" /\ los \in [Proces -> Int]
  BY DEF IInv, Stany
<1> USE <1>1 DEF argumenty, zbieranie, czas, Biegnie, Wyjdz, Skok
<1>2. CASE Kill
  BY <1>2 DEF Kill, Skutek, Zywy
<1>3. CASE \E q \in Proces : Exec(q) \/ ExecNieudany(q) \/ Signal(q) \/ Pause(q)
                             \/ HandleWraca(q) \/ HandleZaWczesnie(q) \/ Spoznienie(q)
  BY <1>3 DEF Exec, ExecNieudany, Signal, Pause, HandleWraca, HandleZaWczesnie, Spoznienie
<1>4. CASE Setpgid \/ Sleep2 \/ Wait2 \/ (\E a \in Potomek : Fork2(a)) \/ Fork2Nieudany
  BY <1>4 DEF Setpgid, Sleep2, Wait2, Fork2, Fork2Nieudany
<1>5. CASE Fork1 \/ Sleep1 \/ Waitpid \/ KillNieudany \/ Wait1 \/ Fork1Nieudany
  BY <1>5 DEF Fork1, Sleep1, Waitpid, KillNieudany, Wait1, Fork1Nieudany
<1>6. CASE Tyka \/ UNCHANGED vars
  BY <1>6 DEF Tyka, vars
<1> QED BY <1>2, <1>3, <1>4, <1>5, <1>6 DEF Next, Krok, Zaklocenie

(* The arguments never change, and a delay is never forgotten.             *)
LEMMA Staly ==
  ASSUME [Next]_vars
  PROVE  UNCHANGED argumenty /\ (NaCzas' => NaCzas)
  BY DEF Next, Krok, Zaklocenie, vars, argumenty, zbieranie, czas, NaCzas, Awaria,
         Exec, ExecNieudany, Signal, Pause, HandleWraca, HandleZaWczesnie, Spoznienie,
         Setpgid, Sleep2, Wait2, Fork2, Fork2Nieudany, Fork1, Sleep1, Waitpid, Kill,
         KillNieudany, Wait1, Fork1Nieudany, Tyka

-----------------------------------------------------------------------------
(* The ends of the children.                                               *)

(* How a child ends, by mode.                                              *)
Losy == \A a \in Potomek :
  /\ los[a] \in {Zyje, 0, 256, numer, numer + 128}
  /\ los[a] = 0 => tryb = 3
  /\ los[a] \in {numer, numer + 128} => tryb = 1 \/ (program = "b" /\ ~ NaCzas)

(* The signal kills a child only in mode 1, or in program b when it is     *)
(* late: in program c a child ignores the signal until it has chosen.      *)
LEMMA Zabity ==
  ASSUME Opoznienie < 2 * Sekunda, IInv, Czasy, Kill,
         NEW a \in Potomek, Skutek(a) = "zabija"
  PROVE  tryb = 1 \/ (program = "b" /\ ~ NaCzas)
<1> USE DEF IInv
<1>1. /\ a \in Adresaci /\ obsluga[a] \notin {"SIG_IGN", "handle"}
      /\ pc[a] \notin {"brak", "koniec"} /\ pc["1"] = "kill"
  BY DEF Skutek, Zywy, Domyslna, Kill, Biegnie
<1>2. obsluga[a] = "SIG_DFL"
  BY <1>1, SygnalyAssumption DEF Stany
<1>3. CASE pc[a] \in {"do_pause", "pause"}
  BY <1>2, <1>3 DEF Obsluga, Akcja, Dane
<1>4. CASE pc[a] \in {"exec", "signal"}
  BY <1>2, <1>4, NaMiejscu DEF Kill, Biegnie, Obsluga, Dane, Wczesne
<1>5. pc[a] \notin Trafione
  BY <1>1 DEF Obsluga
<1> QED BY <1>1, <1>3, <1>4, <1>5 DEF Etapy, Wczesne

(* Initially nobody has ended.                                             *)
LEMMA LosyInit == Init => Losy
<1>1. Zyje \notin {0, 256} /\ \A n \in 1..31 : Zyje \notin {n, n + 128}
  BY DEF Zyje
<1>2. Init => numer \in 1..31 /\ \A a \in Potomek : los[a] = Zyje
  BY SygnalyAssumption DEF Init
<1> QED BY <1>1, <1>2 DEF Losy

(* Every step preserves what is known of the wait statuses.                *)
LEMMA LosyKrok ==
  ASSUME Opoznienie < 2 * Sekunda, IInv, Czasy, Losy, [Next]_vars
  PROVE  Losy'
<1> SUFFICES ASSUME NEW a \in Potomek
             PROVE  (/\ los[a] \in {Zyje, 0, 256, numer, numer + 128}
                     /\ los[a] = 0 => tryb = 3
                     /\ los[a] \in {numer, numer + 128}
                          => tryb = 1 \/ (program = "b" /\ ~ NaCzas))'
  BY DEF Losy
<1>1. UNCHANGED argumenty /\ (NaCzas' => NaCzas)
  BY Staly
<1>2. numer \in 1..31 /\ a \in Proces /\ los \in [Proces -> Int] /\ a \notin {"1", "2"}
  BY SygnalyAssumption DEF IInv, Dane, Stany, Potomek
<1>3. CASE los'[a] = los[a]
  BY <1>1, <1>3 DEF Losy, argumenty
<1>4. CASE los'[a] # los[a]
  <2> USE <1>1, <1>2, <1>4 DEF argumenty, zbieranie, czas, Biegnie, Wyjdz, Skok
  <2>1. CASE Kill
    <3>1. Skutek(a) = "zabija" /\ los'[a] \in {numer, numer + 128}
      BY <2>1 DEF Kill
    <3>2. tryb = 1 \/ (program = "b" /\ ~ NaCzas)
      BY <2>1, <3>1, Zabity
    <3> QED BY <3>1, <3>2
  <2>2. CASE \E q \in Proces : HandleWraca(q)
    <3>1. los'[a] = 0 /\ pc[a] = "handle"
      BY <2>2 DEF HandleWraca
    <3>2. tryb = 3
      BY <3>1 DEF IInv, Obsluga, Akcja, Trafione, Dane
    <3> QED BY <3>1, <3>2
  <2>3. CASE \E q \in Proces : ExecNieudany(q) \/ Signal(q)
    <3>1. los'[a] = 256
      BY <2>3 DEF ExecNieudany, Signal
    <3> QED BY <3>1
  <2>4. CASE \E q \in Proces : Exec(q) \/ Pause(q) \/ HandleZaWczesnie(q) \/ Spoznienie(q)
    BY <2>4 DEF Exec, Pause, HandleZaWczesnie, Spoznienie
  <2>5. CASE Setpgid \/ Sleep2 \/ Wait2 \/ (\E b \in Potomek : Fork2(b)) \/ Fork2Nieudany
    BY <2>5 DEF Setpgid, Sleep2, Wait2, Fork2, Fork2Nieudany
  <2>6. CASE Fork1 \/ Sleep1 \/ Waitpid \/ KillNieudany \/ Wait1 \/ Fork1Nieudany
    BY <2>6 DEF Fork1, Sleep1, Waitpid, KillNieudany, Wait1, Fork1Nieudany
  <2>7. CASE Tyka \/ UNCHANGED vars
    BY <2>7 DEF Tyka, vars
  <2> QED BY <2>1, <2>2, <2>3, <2>4, <2>5, <2>6, <2>7 DEF Next, Krok, Zaklocenie
<1> QED BY <1>3, <1>4

-----------------------------------------------------------------------------
(* Progress.                                                               *)

(* The steps each process has left count, from the first to the last label *)
(* it can be at.                                                           *)
Waga(e) == CASE e = "brak"    -> 13 [] e = "exec"     -> 12 [] e = "signal"          -> 11
             [] e = "setpgid" -> 10 [] e = "fork"     -> 9  [] e = "sleep"           -> 8
             [] e = "waitpid" -> 7  [] e = "kill"     -> 6  [] e = "wait"            -> 5
             [] e = "handle"  -> 2  [] e = "do_pause" -> 3  [] e = "handle_wczesnie" -> 4
             [] e = "pause"   -> 1  [] OTHER          -> 0

(* The signal sends a receiver back by a step or two; process 2 writes     *)
(* three lines in the same place.                                          *)
Wyslany == pc["1"] \in {"wait", "koniec"}
Kroki(p) == Waga(pc[p]) + (IF Wyslany THEN 0 ELSE 2)
                        + (IF p = "2" THEN 3 - Len(wydruk) ELSE 0)

(* What is left to each process of steps and of ticks: between two steps   *)
(* at most Pora - 1 ticks, and once as many as Opoznienie allows.          *)
Pora == 4 * Sekunda + Opoznienie + 1
Reszta(p) == Pora * Kroki(p) + sen[p] + luz[p] + (IF NaCzas THEN Opoznienie + 1 ELSE 0)

(* A step takes one process or its clock on, and none back.                *)
Naturalne == \A p \in Proces : Reszta(p) \in Nat
Ubylo == /\ \A p \in Proces : Reszta(p)' <= Reszta(p)
         /\ \E p \in Proces : Reszta(p)' < Reszta(p)
Ubywa == [][Ubylo]_vars

(* The weights, one by one.                                                *)
LEMMA Wagi ==
  /\ Waga("brak") = 13 /\ Waga("exec") = 12 /\ Waga("signal") = 11 /\ Waga("setpgid") = 10
  /\ Waga("fork") = 9 /\ Waga("sleep") = 8 /\ Waga("waitpid") = 7 /\ Waga("kill") = 6
  /\ Waga("wait") = 5 /\ Waga("handle_wczesnie") = 4 /\ Waga("do_pause") = 3
  /\ Waga("handle") = 2 /\ Waga("pause") = 1 /\ Waga("stoi") = 0 /\ Waga("koniec") = 0
  BY DEF Waga

(* They are small numbers.                                                 *)
LEMMA WagiLiczby == \A e \in Etykiety : Waga(e) \in 0..13
  BY Wagi DEF Etykiety

(* The steps that are left are a natural number.                           *)
Liczby == \A p \in Proces : Kroki(p) \in Nat

LEMMA KrokiNaturalne == IInv => Liczby
<1> SUFFICES ASSUME IInv, NEW p \in Proces PROVE Kroki(p) \in Nat
  BY DEF Liczby
<1>1. Waga(pc[p]) \in 0..13
  <2>1. pc[p] \in Etykiety
    BY DEF IInv, Stany
  <2> QED BY <2>1, WagiLiczby
<1>2. Len(wydruk) \in Nat /\ Len(wydruk) <= 3
  <2>1. wydruk \in Seq(Linie) /\ Len(wydruk) <= 3
    BY DEF IInv, Dane
  <2>2. Len(wydruk) \in Nat
    BY <2>1
  <2> QED BY <2>1, <2>2
<1> DEFINE w == Waga(pc[p])
           n == Len(wydruk)
<1>3. Kroki(p) = w + (IF Wyslany THEN 0 ELSE 2) + (IF p = "2" THEN 3 - n ELSE 0)
  BY DEF Kroki
<1> HIDE DEF w, n
<1> QED BY <1>1, <1>2, <1>3 DEF w, n

(* One factor less is a product less by the other factor.                  *)
LEMMA Iloczyn ==
  ASSUME NEW m \in Nat, NEW k \in Nat, NEW l \in Nat
  PROVE  /\ m * k \in Nat
         /\ k <= l => m * k <= m * l
         /\ k < l  => m * k + m <= m * l
<1>1. m * k \in Nat /\ m * l \in Nat
  OBVIOUS
<1>2. ASSUME k <= l PROVE m * k <= m * l
  <2>1. l - k \in Nat /\ m * (l - k) \in Nat
    BY <1>2
  <2>2. m * l = m * k + m * (l - k)
    BY <2>1
  <2> QED BY <1>1, <2>1, <2>2
<1>3. ASSUME k < l PROVE m * k + m <= m * l
  <2>1. l - k - 1 \in Nat /\ m * (l - k - 1) \in Nat
    BY <1>3
  <2>2. m * l = m * k + m + m * (l - k - 1)
    BY <2>1
  <2> QED BY <1>1, <2>1, <2>2
<1> QED BY <1>1, <1>2, <1>3

(* All that is left is a natural number too.                               *)
LEMMA ResztyNaturalne == IInv => Naturalne
<1> SUFFICES ASSUME IInv PROVE Naturalne
  OBVIOUS
<1>1. Pora \in Nat
  BY CzasAssumption DEF Pora
<1>2. ASSUME NEW p \in Proces PROVE Reszta(p) \in Nat
  <2>1. Kroki(p) \in Nat /\ Pora * Kroki(p) \in Nat
    BY <1>1, KrokiNaturalne, Iloczyn DEF Liczby
  <2>2. sen[p] \in Nat /\ luz[p] \in Nat
    BY CzasAssumption DEF IInv, CzasOK
  <2> QED BY <2>1, <2>2, CzasAssumption DEF Reszta
<1> QED BY <1>2 DEF Naturalne

(* A step without a delay: who has fewer steps left has less of all left,  *)
(* as long as its new clocks are within the bounds; and who has its clocks *)
(* as they were, no more.                                                  *)
LEMMA MniejKrokow ==
  ASSUME IInv, IInv', NEW p \in Proces, (NaCzas' <=> NaCzas)
  PROVE  /\ Kroki(p)' < Kroki(p) /\ (\/ sen'[p] + luz'[p] < Pora
                                    \/ sen'[p] + luz'[p] <= sen[p] + luz[p])
              => Reszta(p)' < Reszta(p)
         /\ Kroki(p)' <= Kroki(p) /\ sen'[p] + luz'[p] <= sen[p] + luz[p]
              => Reszta(p)' <= Reszta(p)
         /\ Kroki(p)' <= Kroki(p) /\ sen'[p] + luz'[p] < sen[p] + luz[p]
              => Reszta(p)' < Reszta(p)
<1> DEFINE k == Kroki(p)
           l == Kroki(p)'
           d == IF NaCzas THEN Opoznienie + 1 ELSE 0
<1>1. Pora \in Nat /\ Pora > 0 /\ d \in Nat
  BY CzasAssumption DEF Pora
<1>2. k \in Nat
  BY KrokiNaturalne DEF Liczby
<1>3. l \in Nat
  <2>1. IInv' => Liczby'
    BY KrokiNaturalne, PTL
  <2> QED BY <2>1 DEF Liczby
<1>4. sen[p] \in Nat /\ luz[p] \in Nat /\ sen'[p] \in Nat /\ luz'[p] \in Nat
  BY CzasAssumption DEF IInv, CzasOK
<1>5. Reszta(p) = Pora * k + sen[p] + luz[p] + d
  BY DEF Reszta
<1>6. Reszta(p)' = Pora * l + sen'[p] + luz'[p] + d
  BY DEF Reszta, Pora
<1>7. /\ Pora * l \in Nat /\ Pora * k \in Nat
      /\ l <= k => Pora * l <= Pora * k
      /\ l < k => Pora * l + Pora <= Pora * k
  BY <1>1, <1>2, <1>3, Iloczyn
<1> HIDE DEF k, l, d
<1>8. l < k /\ (sen'[p] + luz'[p] < Pora \/ sen'[p] + luz'[p] <= sen[p] + luz[p])
        => Reszta(p)' < Reszta(p)
  BY <1>1, <1>2, <1>3, <1>4, <1>5, <1>6, <1>7
<1>9. l <= k /\ sen'[p] + luz'[p] <= sen[p] + luz[p] => Reszta(p)' <= Reszta(p)
  BY <1>1, <1>2, <1>3, <1>4, <1>5, <1>6, <1>7
<1>10. l <= k /\ sen'[p] + luz'[p] < sen[p] + luz[p] => Reszta(p)' < Reszta(p)
  BY <1>1, <1>2, <1>3, <1>4, <1>5, <1>6, <1>7
<1> QED BY <1>8, <1>9, <1>10 DEF k, l

(* A step that takes one process on, and writes at most, takes no other    *)
(* process back.                                                           *)
LEMMA Naprzod ==
  ASSUME IInv, IInv', NEW p \in Proces, (NaCzas' <=> NaCzas),
         \A q \in Proces : Waga(pc'[q]) <= Waga(pc[q]),
         Wyslany => Wyslany',
         Len(wydruk') >= Len(wydruk),
         \/ Waga(pc'[p]) < Waga(pc[p])
         \/ p = "2" /\ Len(wydruk') > Len(wydruk),
         \A q \in Proces \ {p} : sen'[q] = sen[q] /\ luz'[q] = luz[q],
         \/ sen'[p] + luz'[p] < Pora
         \/ sen'[p] = sen[p] /\ luz'[p] = luz[p]
  PROVE  Ubylo
<1>0. \A q \in Proces : /\ Waga(pc[q]) \in 0..13 /\ Waga(pc'[q]) \in 0..13
                        /\ sen[q] \in Nat /\ luz[q] \in Nat
  BY WagiLiczby, CzasAssumption DEF IInv, Stany, CzasOK
<1>l. Len(wydruk) \in Nat /\ Len(wydruk') \in Nat
  <2>1. wydruk \in Seq(Linie) /\ wydruk' \in Seq(Linie)
    BY DEF IInv, Dane
  <2> QED BY <2>1
<1> DEFINE n == Len(wydruk)
           nn == Len(wydruk')
<1>1. ASSUME NEW q \in Proces
      PROVE  /\ Kroki(q) = Waga(pc[q]) + (IF Wyslany THEN 0 ELSE 2)
                                     + (IF q = "2" THEN 3 - n ELSE 0)
             /\ Kroki(q)' = Waga(pc'[q]) + (IF Wyslany' THEN 0 ELSE 2)
                                       + (IF q = "2" THEN 3 - nn ELSE 0)
  BY DEF Kroki, Waga
<1> HIDE DEF n, nn
<1>2. n \in Nat /\ nn \in Nat /\ nn >= n
  BY <1>l DEF n, nn
<1>3. ASSUME NEW q \in Proces
      PROVE  /\ Kroki(q)' <= Kroki(q)
             /\ Waga(pc'[q]) < Waga(pc[q]) \/ (q = "2" /\ nn > n) => Kroki(q)' < Kroki(q)
  <2> DEFINE w == Waga(pc[q])
             ww == Waga(pc'[q])
             s == IF Wyslany THEN 0 ELSE 2
             ss == IF Wyslany' THEN 0 ELSE 2
  <2>1. w \in Nat /\ ww \in Nat /\ ww <= w
    BY <1>0
  <2>2. s \in Nat /\ ss \in Nat /\ ss <= s
    OBVIOUS
  <2>3. /\ Kroki(q) = w + s + (IF q = "2" THEN 3 - n ELSE 0)
        /\ Kroki(q)' = ww + ss + (IF q = "2" THEN 3 - nn ELSE 0)
    BY <1>1
  <2> HIDE DEF w, ww, s, ss
  <2>4. /\ Kroki(q)' <= Kroki(q)
        /\ ww < w \/ (q = "2" /\ nn > n) => Kroki(q)' < Kroki(q)
    BY <1>2, <2>1, <2>2, <2>3
  <2> QED BY <2>4 DEF w, ww
<1>4. Kroki(p)' < Kroki(p)
  BY <1>3 DEF n, nn
<1>5. Reszta(p)' < Reszta(p)
  BY <1>0, <1>4, MniejKrokow
<1>6. ASSUME NEW q \in Proces \ {p} PROVE Reszta(q)' <= Reszta(q)
  BY <1>0, <1>3, MniejKrokow
<1>7. Reszta(p) \in Nat /\ Reszta(p)' \in Nat
  <2>1. IInv' => Naturalne'
    BY ResztyNaturalne, PTL
  <2> QED BY <2>1, ResztyNaturalne DEF Naturalne
<1> QED BY <1>5, <1>6, <1>7 DEF Ubylo

(* The same without a clock that is set, or a line.                        *)
LEMMA NaprzodBezCzasu ==
  ASSUME IInv, IInv', NEW p \in Proces,
         Waga(pc'[p]) < Waga(pc[p]),
         \A q \in Proces : Waga(pc'[q]) <= Waga(pc[q]),
         UNCHANGED <<sen, luz, wydruk>>, (NaCzas' <=> NaCzas), Wyslany => Wyslany'
  PROVE  Ubylo
<1>1. Len(wydruk') >= Len(wydruk)
  <2>1. wydruk \in Seq(Linie) /\ wydruk' = wydruk
    BY DEF IInv, Dane
  <2> QED BY <2>1
<1> QED BY <1>1, Naprzod

(* The weights never rise but at the signal, which takes two from all:     *)
(* who is forked, and who goes on, comes to a lighter label.               *)
LEMMA UbywaKrok == ASSUME IInv, IInv', Next PROVE Ubylo
<1> USE DEF Potomek, argumenty, zbieranie, czas, Biegnie, Skok, Wyjdz
<1>0. /\ pc \in [Proces -> Etykiety] /\ DOMAIN sen = Proces /\ DOMAIN luz = Proces
      /\ \A p \in Proces : sen[p] \in Nat /\ luz[p] \in 0..Opoznienie
      /\ \A e \in Etykiety : Waga(e) \in 0..13
  BY WagiLiczby, CzasAssumption DEF IInv, Stany, CzasOK
<1>n. Len(wydruk) \in Nat
  <2>1. wydruk \in Seq(Linie)
    BY DEF IInv, Dane
  <2> QED BY <2>1
<1>w. \A p \in Proces : Waga(pc[p]) \in 0..13 /\ Waga(pc'[p]) \in 0..13
  BY WagiLiczby DEF IInv, Stany
<1>q. "1" \in Proces /\ "2" \in Proces /\ Potomek \subseteq Proces
  BY SygnalyAssumption
<1>p. /\ 0 + Opoznienie < Pora /\ Sekunda + Opoznienie < Pora
      /\ 2 * Sekunda + Opoznienie < Pora /\ 3 * Sekunda + Opoznienie < Pora
      /\ 4 * Sekunda + Opoznienie < Pora /\ Pora \in Nat
  BY CzasAssumption DEF Pora
<1>1. ASSUME NEW p \in Proces, Exec(p) \/ HandleZaWczesnie(p)
      PROVE  Ubylo
  <2>1. /\ Waga(pc'[p]) < Waga(pc[p]) /\ \A q \in Proces \ {p} : pc'[q] = pc[q]
        /\ UNCHANGED <<sen, luz, wydruk>> /\ (NaCzas' <=> NaCzas)
        /\ Wyslany => Wyslany'
    BY <1>0, <1>1, Wagi, SygnalyAssumption DEF Wyslany, NaCzas, Exec, HandleZaWczesnie
  <2> QED BY <1>q, <1>w, <2>1, NaprzodBezCzasu
<1>2. ASSUME NEW p \in Proces, HandleWraca(p) \/ Signal(p)
      PROVE  Ubylo
  <2>1. /\ Waga(pc'[p]) < Waga(pc[p]) /\ \A q \in Proces \ {p} : pc'[q] = pc[q]
        /\ UNCHANGED <<sen, luz, wydruk>> /\ (NaCzas' <=> NaCzas)
        /\ Wyslany => Wyslany'
    BY <1>0, <1>2, Wagi, SygnalyAssumption DEF Wyslany, NaCzas, HandleWraca, Signal
  <2> QED BY <1>q, <1>w, <2>1, NaprzodBezCzasu
<1>3. ASSUME NEW p \in Proces, Pause(p)
      PROVE  Ubylo
  <2>1. /\ Waga(pc'[p]) < Waga(pc[p]) /\ \A q \in Proces \ {p} : pc'[q] = pc[q]
        /\ \A q \in Proces \ {p} : sen'[q] = sen[q] /\ luz'[q] = luz[q]
        /\ sen'[p] = 0 /\ luz'[p] = Opoznienie
        /\ UNCHANGED wydruk /\ (NaCzas' <=> NaCzas)
        /\ Wyslany => Wyslany'
    BY <1>0, <1>3, Wagi, CzasAssumption, SygnalyAssumption DEF Wyslany, NaCzas, Pause, Zasnij
  <2>2. sen'[p] + luz'[p] < Pora /\ Len(wydruk') >= Len(wydruk)
    BY <1>n, <1>p, <2>1
  <2>3. \A q \in Proces : Waga(pc'[q]) <= Waga(pc[q])
    BY <1>w, <2>1
  <2> QED BY <1>q, <2>1, <2>2, <2>3, Naprzod
<1>4. ASSUME NEW p \in Proces, ExecNieudany(p)
      PROVE  Ubylo
  <2>1. /\ Waga(pc'[p]) < Waga(pc[p]) /\ \A q \in Proces \ {p} : pc'[q] = pc[q]
        /\ UNCHANGED <<sen, luz, wydruk>> /\ (NaCzas' <=> NaCzas)
        /\ Wyslany => Wyslany'
    BY <1>0, <1>4, Wagi, SygnalyAssumption DEF Wyslany, NaCzas, ExecNieudany, Awaria
  <2> QED BY <1>q, <1>w, <2>1, NaprzodBezCzasu
<1>5. CASE Setpgid \/ Fork2Nieudany
  <2>1. /\ Waga(pc'["2"]) < Waga(pc["2"]) /\ \A q \in Proces \ {"2"} : pc'[q] = pc[q]
        /\ UNCHANGED <<sen, luz, wydruk>> /\ (NaCzas' <=> NaCzas)
        /\ Wyslany => Wyslany'
    BY <1>0, <1>5, Wagi, SygnalyAssumption DEF Wyslany, NaCzas, Setpgid, Fork2Nieudany, Awaria
  <2> QED BY <1>q, <1>w, <2>1, NaprzodBezCzasu
<1>6. CASE Sleep2
  <2>1. /\ Waga(pc'["2"]) < Waga(pc["2"]) /\ \A q \in Proces \ {"2"} : pc'[q] = pc[q]
        /\ \A q \in Proces \ {"2"} : sen'[q] = sen[q] /\ luz'[q] = luz[q]
        /\ sen'["2"] = Sekunda /\ luz'["2"] = Opoznienie
        /\ UNCHANGED wydruk /\ (NaCzas' <=> NaCzas)
        /\ Wyslany => Wyslany'
    BY <1>0, <1>6, Wagi, CzasAssumption, SygnalyAssumption DEF Wyslany, NaCzas, Sleep2, Zasnij
  <2>2. sen'["2"] + luz'["2"] < Pora /\ Len(wydruk') >= Len(wydruk)
    BY <1>n, <1>p, <2>1
  <2>3. \A q \in Proces : Waga(pc'[q]) <= Waga(pc[q])
    BY <1>w, <2>1
  <2> QED BY <1>q, <2>1, <2>2, <2>3, Naprzod
<1>7. CASE Wait2
  <2>1. /\ \A q \in Proces \ {"2"} : pc'[q] = pc[q]
        /\ pc'["2"] = pc["2"] \/ Waga(pc'["2"]) < Waga(pc["2"])
        /\ UNCHANGED <<sen, luz>> /\ (NaCzas' <=> NaCzas)
        /\ Wyslany => Wyslany'
    BY <1>0, <1>7, Wagi, SygnalyAssumption DEF Wyslany, NaCzas, Wait2
  <2>2. Len(wydruk') > Len(wydruk)
    <3>1. wydruk' = Append(wydruk, Linia(Nr[Len(wydruk) + 1], status')) /\ wydruk \in Seq(Linie)
      BY <1>7 DEF Wait2, IInv, Dane
    <3> QED BY <3>1, <1>n
  <2>3. \A q \in Proces : Waga(pc'[q]) <= Waga(pc[q]) /\ Len(wydruk') >= Len(wydruk)
    BY <1>n, <1>w, <2>1, <2>2
  <2> QED BY <1>q, <2>1, <2>2, <2>3, Naprzod
<1>8. ASSUME NEW a \in Potomek, Fork2(a)
      PROVE  Ubylo
  <2>1. pc[a] = "brak"
    BY <1>8, Kolejny DEF IInv, Dane, Rodowod, Fork2
  <2>2. /\ Waga(pc'[a]) < Waga(pc[a]) /\ \A q \in Proces \ {a, "2"} : pc'[q] = pc[q]
        /\ Waga(pc'["2"]) <= Waga(pc["2"])
        /\ UNCHANGED <<sen, luz, wydruk>> /\ (NaCzas' <=> NaCzas)
        /\ Wyslany => Wyslany'
    BY <1>0, <1>8, <2>1, Wagi, SygnalyAssumption DEF Wyslany, NaCzas, Fork2
  <2> QED BY <1>q, <1>w, <2>2, NaprzodBezCzasu
<1>9. CASE Fork1
  <2>1. pc[Dziecko] = "brak" /\ Dziecko \in Proces \ {"1"}
    BY <1>9, SygnalyAssumption DEF Fork1, Dziecko, IInv, Rodowod
  <2>2. /\ Waga(pc'["1"]) < Waga(pc["1"]) /\ \A q \in Proces \ {"1", Dziecko} : pc'[q] = pc[q]
        /\ Waga(pc'[Dziecko]) <= Waga(pc[Dziecko])
        /\ UNCHANGED <<sen, luz, wydruk>> /\ (NaCzas' <=> NaCzas)
        /\ Wyslany => Wyslany'
    BY <1>0, <1>9, <2>1, Wagi, SygnalyAssumption DEF Wyslany, NaCzas, Fork1
  <2> QED BY <1>q, <1>w, <2>2, NaprzodBezCzasu
<1>10. CASE Fork1Nieudany \/ Waitpid \/ KillNieudany
  <2>1. /\ Waga(pc'["1"]) < Waga(pc["1"]) /\ \A q \in Proces \ {"1"} : pc'[q] = pc[q]
        /\ UNCHANGED <<sen, luz, wydruk>> /\ (NaCzas' <=> NaCzas)
        /\ Wyslany => Wyslany'
    BY <1>0, <1>10, Wagi, SygnalyAssumption
    DEF Wyslany, NaCzas, Fork1Nieudany, Waitpid, KillNieudany, Awaria
  <2> QED BY <1>q, <1>w, <2>1, NaprzodBezCzasu
<1>11. CASE Sleep1
  <2>1. /\ Waga(pc'["1"]) < Waga(pc["1"]) /\ \A q \in Proces \ {"1"} : pc'[q] = pc[q]
        /\ \A q \in Proces \ {"1"} : sen'[q] = sen[q] /\ luz'[q] = luz[q]
        /\ sen'["1"] \in {2 * Sekunda, 4 * Sekunda} /\ luz'["1"] = Opoznienie
        /\ UNCHANGED wydruk /\ (NaCzas' <=> NaCzas)
        /\ Wyslany => Wyslany'
    BY <1>0, <1>11, Wagi, SygnalyAssumption DEF Wyslany, NaCzas, Sleep1, Zasnij
  <2>2. sen'["1"] + luz'["1"] < Pora
    BY <1>p, <2>1
  <2>3. \A q \in Proces : Waga(pc'[q]) <= Waga(pc[q]) /\ Len(wydruk') >= Len(wydruk)
    BY <1>n, <1>w, <2>1
  <2> QED BY <1>q, <2>1, <2>2, <2>3, Naprzod
<1>12. CASE Wait1
  <2>1. /\ Waga(pc'["1"]) < Waga(pc["1"]) /\ \A q \in Proces \ {"1"} : pc'[q] = pc[q]
        /\ UNCHANGED <<sen, luz>> /\ (NaCzas' <=> NaCzas)
        /\ Wyslany => Wyslany'
        /\ wydruk' = wydruk \/ program = "b"
    BY <1>0, <1>12, Wagi, SygnalyAssumption DEF Wyslany, NaCzas, Wait1
  <2>2. Len(wydruk') >= Len(wydruk)
    <3>1. wydruk' = wydruk \/ wydruk = <<>>
      BY <1>12, <2>1 DEF IInv, Wypisane, Wait1
    <3>2. wydruk' \in Seq(Linie)
      BY DEF IInv, Dane
    <3> QED BY <1>n, <3>1, <3>2
  <2>3. \A q \in Proces : Waga(pc'[q]) <= Waga(pc[q])
    BY <1>w, <2>1
  <2> QED BY <1>q, <2>1, <2>2, <2>3, Naprzod
<1>13. CASE Kill
  <2>1. /\ pc["1"] = "kill" /\ pc'["1"] = "wait" /\ sen'["1"] \in {sen["1"], 3 * Sekunda}
        /\ luz'["1"] = Opoznienie
        /\ \A q \in Proces \ {"1"} : pc'[q] = Po(q) /\ luz'[q] = luz[q]
        /\ \A q \in Proces : Skutek(q) # "handle" => sen'[q] = sen[q]
        /\ \A q \in Proces : Skutek(q) = "handle" => sen'[q] = 3 * Sekunda
        /\ UNCHANGED <<wydruk, bledy>>
    BY <1>0, <1>13, Wagi, SygnalyAssumption DEF Wyslany, NaCzas, Kill
  <2>2. Skutek("1") # "handle" /\ sen["1"] = 0
    BY <1>13 DEF Kill, Skutek, Adresaci, Domyslna, IInv, Dane
  <2> DEFINE n == 3 - Len(wydruk)
  <2>3. ASSUME NEW q \in Proces
        PROVE  /\ Kroki(q) = Waga(pc[q]) + 2 + (IF q = "2" THEN n ELSE 0)
               /\ Kroki(q)' = Waga(pc'[q]) + (IF q = "2" THEN n ELSE 0)
    BY <1>n, <1>w, <2>1 DEF Kroki, Wyslany
  <2>4. n \in Int
    BY <1>n
  <2> HIDE DEF n
  <2>5. ASSUME NEW q \in Proces \ {"1"}
        PROVE  Waga(pc'[q]) < Waga(pc[q]) + 2
    <3>1. \/ Po(q) = pc[q] \/ Po(q) = "stoi" \/ Po(q) = "koniec"
          \/ Po(q) = "handle" /\ pc[q] = "pause"
          \/ Po(q) = "handle_wczesnie" /\ pc[q] # "pause" /\ obsluga[q] = "handle"
                                       /\ pc[q] \notin {"brak", "koniec"} /\ q \in Adresaci
      BY DEF Po, Skutek, Domyslna, Zywy
    <3>2. ASSUME Po(q) = "handle_wczesnie", pc[q] # "pause", obsluga[q] = "handle",
                 pc[q] \notin {"brak", "koniec"}, q \in Adresaci
          PROVE  pc[q] \in {"do_pause"}
      BY <2>1, <3>2, SygnalyAssumption
      DEF IInv, Obsluga, Etapy, Adresaci, Wczesne, Trafione, Dane, Stany
    <3> QED BY <1>w, <2>1, <3>1, <3>2, Wagi
  <2>6. ASSUME NEW q \in Proces
        PROVE  Kroki(q)' < Kroki(q)
    BY <1>w, <2>1, <2>3, <2>4, <2>5, Wagi
  <2>7. ASSUME NEW q \in Proces
        PROVE  \/ sen'[q] + luz'[q] < Pora
               \/ sen'[q] + luz'[q] <= sen[q] + luz[q]
    <3>1. CASE q = "1"
      BY <1>0, <1>p, <1>q, <2>1, <2>2, <3>1, CzasAssumption
    <3>2. CASE q # "1" /\ Skutek(q) = "handle"
      BY <1>0, <1>p, <2>1, <3>2, CzasAssumption
    <3>3. CASE q # "1" /\ Skutek(q) # "handle"
      BY <1>0, <2>1, <3>3
    <3> QED BY <3>1, <3>2, <3>3
  <2>8. \A q \in Proces : Reszta(q)' < Reszta(q)
    BY <2>1, <2>6, <2>7, MniejKrokow DEF NaCzas
  <2>9. \A q \in Proces : Reszta(q) \in Nat /\ Reszta(q)' \in Nat
    <3>1. IInv' => Naturalne'
      BY ResztyNaturalne, PTL
    <3> QED BY <3>1, ResztyNaturalne DEF Naturalne
  <2> QED BY <1>q, <2>8, <2>9 DEF Ubylo
<1>14. ASSUME NEW p \in Proces, Spoznienie(p)
       PROVE  Ubylo
  <2>1. /\ luz[p] = 0 /\ luz'[p] = Opoznienie /\ \A q \in Proces \ {p} : luz'[q] = luz[q]
        /\ UNCHANGED <<pc, sen, wydruk>> /\ NaCzas /\ ~ NaCzas'
    BY <1>0, <1>14, Wagi, SygnalyAssumption DEF Wyslany, NaCzas, Spoznienie, Awaria
  <2>2. ASSUME NEW q \in Proces
        PROVE  Reszta(q)' < Reszta(q)
    <3> DEFINE k == Pora * Kroki(q)
    <3>1. k \in Nat
      BY CzasAssumption, KrokiNaturalne, Iloczyn DEF Liczby, Pora
    <3>2. Kroki(q)' = Kroki(q)
      BY <2>1 DEF Kroki, Wyslany
    <3>3. Reszta(q) = k + sen[q] + luz[q] + Opoznienie + 1
      BY <1>0, <2>1, <3>1, CzasAssumption DEF Reszta
    <3>4. Reszta(q)' = k + sen[q] + luz'[q]
      BY <1>0, <2>1, <3>1, <3>2, CzasAssumption DEF Reszta, Pora
    <3> HIDE DEF k
    <3> QED BY <1>0, <2>1, <3>1, <3>3, <3>4, CzasAssumption
  <2>3. \A q \in Proces : Reszta(q) \in Nat /\ Reszta(q)' \in Nat
    <3>1. IInv' => Naturalne'
      BY ResztyNaturalne, PTL
    <3> QED BY <3>1, ResztyNaturalne DEF Naturalne
  <2> QED BY <2>2, <2>3 DEF Ubylo
<1>15. CASE Tyka
  <2>1. /\ UNCHANGED <<pc, wydruk, bledy>>
        /\ Gotowe \subseteq Proces
        /\ \A p \in Gotowe : luz[p] > 0
        /\ Gotowe # {} \/ \E p \in Proces : sen[p] > 0
        /\ \A p \in Proces : /\ sen'[p] = IF sen[p] > 0 THEN sen[p] - 1 ELSE 0
                             /\ luz'[p] = IF p \in Gotowe THEN luz[p] - 1 ELSE luz[p]
    BY <1>15 DEF Tyka, Uplywa, Gotowe
  <2>2. ASSUME NEW p \in Proces
        PROVE  /\ sen'[p] + luz'[p] <= sen[p] + luz[p]
               /\ p \in Gotowe \/ sen[p] > 0 => sen'[p] + luz'[p] < sen[p] + luz[p]
    BY <1>0, <2>1
  <2>3. ASSUME NEW p \in Proces PROVE Kroki(p)' = Kroki(p) /\ Kroki(p) \in Nat
    BY <2>1, KrokiNaturalne DEF Kroki, Liczby, Wyslany
  <2>4. ASSUME NEW p \in Proces
        PROVE  /\ Reszta(p)' <= Reszta(p)
               /\ p \in Gotowe \/ sen[p] > 0 => Reszta(p)' < Reszta(p)
    BY <2>1, <2>2, <2>3, MniejKrokow DEF NaCzas
  <2> QED BY <2>1, <2>4 DEF Ubylo
<1> QED BY <1>1, <1>2, <1>3, <1>4, <1>5, <1>6, <1>7, <1>8, <1>9, <1>10, <1>11, <1>12,
           <1>13, <1>14, <1>15 DEF Next, Krok, Zaklocenie

(* Every step takes the programs nearer to their end, or the clock: so no  *)
(* schedule, fair or not, is infinite.                                     *)
THEOREM UbywaInv == Spec => []Naturalne /\ Ubywa
<1>1. IInv /\ IInv' /\ [Next]_vars => [Ubylo]_vars
  BY UbywaKrok
<1> QED BY <1>1, Poczatkowy, KrokInv, ResztyNaturalne, PTL DEF Spec, Ubywa

-----------------------------------------------------------------------------
(* How the programs end, when nothing goes wrong.                          *)

(* Process 1 has a child.                                                  *)
Powolany == pc["1"] # "fork" => pc[Dziecko] # "brak"

(* SIGKILL and SIGSTOP: signal() fails, every process ends with an error   *)
(* before it could be hit, and nothing is written.                         *)
Odmowa == numer \in Nieusuwalne =>
  /\ \A p \in Proces \ {"1"} : pc[p] \in {"brak", "exec", "signal", "koniec"}
  /\ wydruk = <<>>
  /\ program = "b" => pc["1"] \notin {"kill", "wait"}
  /\ \A a \in Potomek : los[a] \in {Zyje, 256}

(* Another signal: nobody ends before it is sent, process 2 ends when it   *)
(* has written its three lines, and process 1 of part (b) its only one.    *)
Zgoda == numer \notin Nieusuwalne =>
  /\ ~ Wyslany => \A p \in Proces : pc[p] # "koniec"
  /\ pc["2"] = "koniec" => Len(wydruk) = 3
  /\ program = "b" /\ pc["1"] = "koniec" => Opisani = {"a1"}
  /\ \A a \in Potomek : los[a] # 256

(* A signal that ends its receivers leaves none of them in pause().        *)
Trafieni == Konczacy /\ Wyslany =>
  /\ \A a \in Potomek : pc[a] \in {"brak", "handle", "koniec"}
  /\ pc["2"] \in {"brak", "sleep", "wait", "koniec"}

(* As long as nothing has gone wrong.                                      *)
Bezblednie == bledy = {} => Powolany /\ Odmowa /\ Zgoda /\ Trafieni

(* The lines of process 2 have the pids of its children in the order in    *)
(* which it has created them; with a signal it gets statuses of, there are *)
(* as many of them as children it has waited for.                          *)
Liczone == program = "c" => /\ \A k \in DOMAIN wydruk : wydruk[k].kto = Nr[k]
                            /\ numer # SIGCHLD => Len(wydruk) = Cardinality(zebrane)

(* What has gone wrong is not forgotten.                                   *)
LEMMA BledyZostaja == ASSUME [Next]_vars PROVE bledy \subseteq bledy'
  BY DEF Next, Krok, Zaklocenie, vars, argumenty, zbieranie, czas, Awaria,
         Exec, ExecNieudany, Signal, Pause, HandleWraca, HandleZaWczesnie, Spoznienie,
         Setpgid, Sleep2, Wait2, Fork2, Fork2Nieudany, Fork1, Sleep1, Waitpid, Kill,
         KillNieudany, Wait1, Fork1Nieudany, Tyka

(* When process 2 waits, all its children have been forked.                *)
LEMMA DzieciSa ==
  ASSUME IInv, pc["2"] = "wait"
  PROVE  /\ program = "c" /\ \A a \in Potomek : pc[a] # "brak"
         /\ obsluga["2"] = "SIG_IGN"
<1>1. program = "c"
  BY SygnalyAssumption DEF IInv, Dane, Rodowod, Potomek
<1>2. grupa = Proces \ {"1"}
  BY DEF IInv, Grupa
<1>3. Potomek \subseteq grupa /\ grupa # {}
  BY <1>2, SygnalyAssumption DEF Potomek
<1> QED BY <1>1, <1>3 DEF IInv, Rodowod, Obsluga

(* There are three children.                                               *)
LEMMA TrojeDzieci == IsFiniteSet(Potomek) /\ Cardinality(Potomek) = 3
<1>1. IsFiniteSet({"a1"}) /\ Cardinality({"a1"}) = 1
  BY FS_Singleton
<1>2. IsFiniteSet({"a1"} \cup {"a2"}) /\ Cardinality({"a1"} \cup {"a2"}) = 2
  BY <1>1, FS_AddElement
<1>3. "a3" \notin {"a1"} \cup {"a2"}
  OBVIOUS
<1>4. /\ IsFiniteSet(({"a1"} \cup {"a2"}) \cup {"a3"})
      /\ Cardinality(({"a1"} \cup {"a2"}) \cup {"a3"}) = 3
  BY <1>2, <1>3, FS_AddElement
<1>5. Potomek = ({"a1"} \cup {"a2"}) \cup {"a3"}
  BY DEF Potomek
<1> QED BY <1>4, <1>5

(* wait() does not fail before the third line, unless SIGCHLD is ignored:  *)
(* where it would, all children have ended, and each has got its line.     *)
LEMMA JestZombie ==
  ASSUME IInv, Liczone, Wait2, numer # SIGCHLD
  PROVE  Zombie # {}
<1> SUFFICES ASSUME Zombie = {} PROVE FALSE
  OBVIOUS
<1>1. pc["2"] = "wait" /\ \A a \in Potomek : ~ Zywy(a)
  BY DEF Wait2, Biegnie, Wait2Moze
<1>2. program = "c" /\ \A a \in Potomek : pc[a] # "brak"
  BY <1>1, DzieciSa
<1>3. \A a \in Potomek : los[a] # Zyje
  BY <1>1, <1>2, SygnalyAssumption DEF Zywy, IInv, Stany
<1>4. Zombie = {a \in Potomek \ zebrane : los[a] # Zyje}
  BY DEF Zombie
<1>5. zebrane \subseteq Potomek /\ Len(wydruk) < 3
  BY <1>1 DEF IInv, Dane, Wypisane
<1>6. zebrane = Potomek
  BY <1>3, <1>4, <1>5
<1>7. Len(wydruk) = Cardinality(zebrane)
  BY <1>2 DEF Liczone
<1> QED BY <1>5, <1>6, <1>7, TrojeDzieci

(* Every step preserves the account of the lines.                          *)
LEMMA LiczoneKrok == ASSUME IInv, IInv', Liczone, [Next]_vars PROVE Liczone'
<1>1. UNCHANGED argumenty
  BY Staly
<1>2. CASE Wait2
  <2>1. /\ pc["2"] = "wait"
        /\ wydruk' = Append(wydruk, Linia(Nr[Len(wydruk) + 1], status'))
    BY <1>2 DEF Wait2, Biegnie
  <2>2. program = "c"
    BY <2>1, DzieciSa
  <2>3. wydruk \in Seq(Linie) /\ Len(wydruk) \in Nat
    <3>1. wydruk \in Seq(Linie)
      BY DEF IInv, Dane
    <3> QED BY <3>1
  <2>4. Len(wydruk') = Len(wydruk) + 1
    BY <2>1, <2>3
  <2>5. ASSUME NEW k \in DOMAIN wydruk'
        PROVE  wydruk'[k].kto = Nr[k]
    <3>1. \/ k \in DOMAIN wydruk /\ wydruk'[k] = wydruk[k]
          \/ k = Len(wydruk) + 1 /\ wydruk'[k] = Linia(Nr[Len(wydruk) + 1], status')
      BY <2>1, <2>3
    <3>2. Linia(Nr[Len(wydruk) + 1], status').kto = Nr[Len(wydruk) + 1]
      BY DEF Linia
    <3> QED BY <2>2, <3>1, <3>2 DEF Liczone
  <2>6. ASSUME numer # SIGCHLD
        PROVE  Len(wydruk') = Cardinality(zebrane')
    <3>1. PICK a \in Zombie : zebrane' = zebrane \cup {a}
      BY <1>2, <2>6, JestZombie DEF Wait2
    <3>2. a \notin zebrane /\ zebrane \subseteq Potomek
      BY <2>6, <3>1 DEF Zombie, IInv, Dane
    <3>3. IsFiniteSet(zebrane)
      BY <3>2, TrojeDzieci, FS_Subset
    <3>4. Cardinality(zebrane') = Cardinality(zebrane) + 1
      BY <3>1, <3>2, <3>3, FS_AddElement
    <3> QED BY <2>2, <2>4, <2>6, <3>4 DEF Liczone
  <2> QED BY <1>1, <2>5, <2>6 DEF Liczone, argumenty
<1>3. CASE UNCHANGED <<wydruk, zebrane>> \/ program = "b"
  BY <1>1, <1>3 DEF Liczone, argumenty
<1>4. Wait2 \/ UNCHANGED <<wydruk, zebrane>> \/ program = "b"
  BY DEF Next, Krok, Zaklocenie, vars, zbieranie, Exec, ExecNieudany, Signal, Pause,
         HandleWraca, HandleZaWczesnie, Spoznienie, Setpgid, Sleep2, Fork2, Fork2Nieudany,
         Fork1, Sleep1, Waitpid, Kill, KillNieudany, Fork1Nieudany, Tyka, Wait1
<1> QED BY <1>2, <1>3, <1>4

(* While nothing goes wrong.                                               *)
LEMMA Spokojnie ==
  ASSUME [Next]_vars, bledy' = {}
  PROVE  /\ bledy = {} /\ NaCzas
         /\ (\E p \in Proces : Krok(p)) \/ Tyka \/ UNCHANGED vars
<1>1. bledy = {}
  BY BledyZostaja
<1> QED BY <1>1 DEF NaCzas, Next, Zaklocenie, Fork1Nieudany, Fork2Nieudany, ExecNieudany,
           Spoznienie, Awaria

(* Nobody but a parent in its fork() brings a process to life, and none is *)
(* forgotten.                                                              *)
LEMMA PowolanyKrok == ASSUME IInv, Powolany, [Next]_vars, bledy' = {} PROVE Powolany'
<1> USE SygnalyAssumption
    DEF Potomek, argumenty, zbieranie, czas, Biegnie, Skok, Wyjdz, IInv, Stany
<1>1. Dziecko' = Dziecko /\ Dziecko \in Proces \ {"1"}
  BY Staly DEF Dziecko
<1>2. (\E p \in Proces : Krok(p)) \/ Tyka \/ UNCHANGED vars
  BY Spokojnie
<1>3. CASE Fork1
  BY <1>1, <1>3 DEF Powolany, Fork1
<1>4. CASE Kill
  BY <1>1, <1>4 DEF Powolany, Kill, Po, Skutek, Domyslna
<1>5. ASSUME NEW p \in Proces, Exec(p) \/ Signal(p) \/ Pause(p) \/ HandleWraca(p)
                                \/ HandleZaWczesnie(p)
      PROVE  Powolany'
  BY <1>1, <1>5 DEF Powolany, Etapy, Exec, Signal, Pause, HandleWraca, HandleZaWczesnie
<1>6. CASE Setpgid \/ Sleep2 \/ Wait2 \/ \E a \in Potomek : Fork2(a)
  BY <1>1, <1>6 DEF Powolany, Setpgid, Sleep2, Wait2, Fork2
<1>7. CASE Sleep1 \/ Waitpid \/ KillNieudany \/ Wait1
  BY <1>1, <1>7 DEF Powolany, Sleep1, Waitpid, KillNieudany, Wait1
<1>8. CASE Tyka \/ UNCHANGED vars
  BY <1>1, <1>8 DEF Powolany, Tyka, vars
<1> QED BY <1>2, <1>3, <1>4, <1>5, <1>6, <1>7, <1>8 DEF Krok

(* Where the signal is sent, a child is forked, and not on its way.        *)
LEMMA PrzyKill ==
  ASSUME Opoznienie < 2 * Sekunda, IInv, Czasy, NaCzas, Biegnie("1", "kill")
  PROVE  /\ \A a \in Potomek : pc[a] \in {"brak", "pause", "koniec"}
         /\ program = "b" => pc["2"] = "brak" /\ pc["a1"] # "brak"
         /\ program = "c" => pc["2"] \in {"sleep", "wait", "koniec"}
  BY NaMiejscu, SygnalyAssumption
  DEF Biegnie, IInv, Etapy, Rodowod, Potomek, Wczesne, Trafione, Poczatek

(* SIGKILL and SIGSTOP.                                                    *)
LEMMA OdmowaKrok ==
  ASSUME Opoznienie < 2 * Sekunda, IInv, Czasy, Odmowa, [Next]_vars, bledy' = {}
  PROVE  Odmowa'
<1> SUFFICES ASSUME numer \in Nieusuwalne PROVE Odmowa'
  BY Staly DEF Odmowa, argumenty
<1> USE SygnalyAssumption
    DEF argumenty, zbieranie, czas, Biegnie, Skok, Wyjdz
<1>0. /\ \A p \in Proces \ {"1"} : pc[p] \in {"brak", "exec", "signal", "koniec"}
      /\ wydruk = <<>>
      /\ program = "b" => pc["1"] \notin {"kill", "wait"}
      /\ \A a \in Potomek : los[a] \in {Zyje, 256}
  BY DEF Odmowa
<1>1. /\ pc \in [Proces -> Etykiety] /\ los \in [Proces -> Int] /\ Etapy
      /\ \A p \in Proces : los[p] # Zyje <=> pc[p] = "koniec"
      /\ program \in {"b", "c"}
  BY DEF IInv, Stany, Dane
<1>2. /\ bledy = {} /\ NaCzas /\ UNCHANGED argumenty
      /\ (\E p \in Proces : Krok(p)) \/ Tyka \/ UNCHANGED vars
  BY Spokojnie, Staly
<1>3. ASSUME NEW p \in Proces, Exec(p) \/ Signal(p)
      PROVE  Odmowa'
  BY <1>0, <1>1, <1>2, <1>3 DEF Odmowa, Exec, Signal, Potomek, Etapy
<1>4. ASSUME NEW p \in Proces, Pause(p) \/ HandleWraca(p) \/ HandleZaWczesnie(p)
      PROVE  FALSE
  BY <1>0, <1>1, <1>4 DEF Pause, HandleWraca, HandleZaWczesnie, Etapy
<1>5. CASE Setpgid \/ Sleep2 \/ Wait2 \/ \E a \in Potomek : Fork2(a)
  BY <1>0, <1>5 DEF Setpgid, Sleep2, Wait2, Fork2
<1>6. CASE Fork1 \/ Sleep1
  BY <1>0, <1>1, <1>2, <1>6 DEF Odmowa, Fork1, Sleep1, Dziecko, Potomek
<1>7. CASE Waitpid
  <2>1. program = "b" /\ pc["1"] = "waitpid" /\ sen["1"] = 0
    BY <1>7 DEF Waitpid, IInv, Rodowod
  <2>2. pc["a1"] = "koniec"
    <3>1. pc["a1"] \notin Wczesne /\ pc["a1"] # "brak"
      BY <1>2, <2>1, NaMiejscu DEF Potomek
    <3>2. pc["a1"] \in {"brak", "exec", "signal", "koniec"}
      BY <1>0 DEF Potomek
    <3> QED BY <3>1, <3>2 DEF Wczesne
  <2>3. los["a1"] # Zyje
    <3>1. "a1" \in Proces
      BY DEF Potomek
    <3> QED BY <1>1, <2>2, <3>1
  <2> QED BY <1>0, <1>1, <1>2, <1>7, <2>3 DEF Odmowa, Waitpid, Potomek
<1>8. CASE Kill
  <2>1. Biegnie("1", "kill") /\ program = "c"
    <3>1. Biegnie("1", "kill")
      BY <1>8 DEF Kill
    <3> QED BY <1>0, <1>1, <3>1
  <2>2. \A a \in Potomek : pc[a] \in {"brak", "koniec"}
    <3>1. \A a \in Potomek : pc[a] \in {"brak", "pause", "koniec"}
      BY <1>2, <2>1, PrzyKill
    <3>2. \A a \in Potomek : a \in Proces \ {"1"}
      BY DEF Potomek
    <3> QED BY <1>0, <3>1, <3>2
  <2>3. \A p \in Proces : Skutek(p) = "nic"
    <3>1. Skutek("1") = "nic"
      BY <2>1 DEF Skutek, Adresaci, IInv, Dane
    <3>2. Skutek("2") = "nic"
      BY <2>1 DEF Skutek, Adresaci, IInv, Obsluga
    <3> QED BY <2>2, <3>1, <3>2 DEF Skutek, Zywy
  <2> QED BY <1>0, <1>1, <1>2, <1>8, <2>1, <2>3 DEF Odmowa, Kill, Po, Potomek
<1>9. CASE KillNieudany \/ Wait1
  BY <1>0, <1>1, <1>2, <1>9 DEF Odmowa, KillNieudany, Wait1, Potomek
<1>10. CASE Tyka \/ UNCHANGED vars
  BY <1>0, <1>2, <1>10 DEF Odmowa, Tyka, vars
<1> QED BY <1>2, <1>3, <1>4, <1>5, <1>6, <1>7, <1>8, <1>9, <1>10 DEF Krok

(* A signal that can be caught.                                            *)
LEMMA ZgodaKrok ==
  ASSUME Opoznienie < 2 * Sekunda, IInv, Czasy, Zgoda, [Next]_vars, bledy' = {}
  PROVE  Zgoda'
<1> SUFFICES ASSUME numer \notin Nieusuwalne PROVE Zgoda'
  BY Staly DEF Zgoda, argumenty
<1> USE SygnalyAssumption
    DEF argumenty, zbieranie, czas, Biegnie, Skok, Wyjdz, Wyslany
<1>0. /\ pc["1"] \notin {"wait", "koniec"} => \A p \in Proces : pc[p] # "koniec"
      /\ pc["2"] = "koniec" => Len(wydruk) = 3
      /\ program = "b" /\ pc["1"] = "koniec" => Opisani = {"a1"}
      /\ \A a \in Potomek : los[a] # 256
  BY DEF Zgoda
<1>1. /\ pc \in [Proces -> Etykiety] /\ los \in [Proces -> Int] /\ Etapy
      /\ \A p \in Proces : los[p] # Zyje <=> pc[p] = "koniec"
      /\ program \in {"b", "c"} /\ numer \in 1..31
  BY DEF IInv, Stany, Dane
<1>2. /\ bledy = {} /\ NaCzas /\ UNCHANGED argumenty
      /\ wydruk' = wydruk => Opisani' = Opisani
      /\ (\E p \in Proces : Krok(p)) \/ Tyka \/ UNCHANGED vars
  BY Spokojnie, Staly DEF Opisani
<1>3. ASSUME NEW p \in Proces, Exec(p) \/ Signal(p) \/ Pause(p) \/ HandleZaWczesnie(p)
      PROVE  Zgoda'
  BY <1>0, <1>1, <1>2, <1>3 DEF Zgoda, Exec, Signal, Pause, HandleZaWczesnie, Potomek, Etapy
<1>4. ASSUME NEW p \in Proces, HandleWraca(p)
      PROVE  Zgoda'
  <2>1. p \in Potomek /\ pc[p] = "handle"
    BY <1>1, <1>4 DEF HandleWraca, Etapy, Potomek, Poczatek
  <2>2. pc["1"] \in {"wait", "koniec"}
    BY <2>1 DEF IInv, Obsluga, Trafione
  <2> QED BY <1>0, <1>1, <1>2, <1>4, <2>1, <2>2 DEF Zgoda, HandleWraca, Potomek
<1>5. CASE Setpgid \/ Sleep2
  BY <1>0, <1>1, <1>2, <1>5 DEF Zgoda, Setpgid, Sleep2, Potomek
<1>6. CASE \E a \in Potomek : Fork2(a)
  BY <1>0, <1>1, <1>2, <1>6 DEF Zgoda, Fork2, Potomek
<1>7. CASE Wait2
  <2>1. pc["2"] = "wait" /\ Wait2Moze
    BY <1>7 DEF Wait2
  <2>2. program = "c" /\ \A a \in Potomek : pc[a] # "brak"
    BY <2>1, DzieciSa
  <2>3. pc["1"] \in {"wait", "koniec"}
    <3> SUFFICES ASSUME pc["1"] \notin {"wait", "koniec"} PROVE FALSE
      OBVIOUS
    <3>1. \A a \in Potomek : pc[a] \notin {"brak", "koniec"} /\ los[a] = Zyje
      BY <1>0, <1>1, <2>2 DEF Potomek
    <3>2. Zombie = {}
      BY <3>1 DEF Zombie
    <3>3. "a1" \in Potomek
      BY DEF Potomek
    <3> QED BY <2>1, <3>1, <3>2, <3>3 DEF Wait2Moze, Zywy
  <2>4. /\ \/ pc' = [pc EXCEPT !["2"] = "koniec"] /\ los' = [los EXCEPT !["2"] = 0]
              /\ Len(wydruk') = 3
           \/ UNCHANGED <<pc, los>>
    BY <1>7 DEF Wait2, WaitKoniec
  <2> QED BY <1>0, <1>1, <1>2, <2>1, <2>2, <2>3, <2>4 DEF Zgoda, Potomek
<1>8. CASE Fork1 \/ Sleep1
  BY <1>0, <1>1, <1>2, <1>8 DEF Zgoda, Fork1, Sleep1, Dziecko, Potomek
<1>9. CASE Waitpid
  <2>1. los["a1"] = Zyje
    BY <1>0, <1>1, <1>9 DEF Waitpid, Potomek
  <2> QED BY <1>0, <1>1, <1>2, <1>9, <2>1 DEF Zgoda, Waitpid, Potomek
<1>10. CASE Kill
  <2>1. pc["1"] = "kill" /\ pc'["1"] = "wait" /\ UNCHANGED wydruk
    BY <1>1, <1>10 DEF Kill
  <2>2. Skutek("2") = "nic"
    BY <1>1 DEF Skutek, Adresaci, IInv, Obsluga
  <2>3. pc'["2"] = pc["2"]
    BY <1>1, <1>10, <2>2 DEF Kill, Po
  <2>4. \A a \in Potomek : los'[a] # 256
    <3>1. PICK zrzut \in {0, 128} :
            los' = [p \in Proces |-> IF Skutek(p) = "zabija" THEN numer + zrzut ELSE los[p]]
      BY <1>10 DEF Kill
    <3>2. numer + zrzut # 256
      BY <1>1
    <3> QED BY <1>0, <3>1, <3>2 DEF Potomek
  <2> QED BY <1>0, <1>2, <2>1, <2>3, <2>4 DEF Zgoda
<1>11. CASE KillNieudany
  <2>1. Biegnie("1", "kill") /\ Adresaci = {}
    BY <1>11 DEF KillNieudany
  <2>2. program = "c" /\ grupa = {}
    BY <1>1, <2>1 DEF Adresaci
  <2>3. pc["2"] \in {"sleep", "wait", "koniec"} /\ pc["2"] # "koniec"
    BY <1>0, <1>2, <2>1, <2>2, PrzyKill
  <2> QED BY <2>2, <2>3 DEF IInv, Grupa
<1>12. CASE Wait1
  <2>1. /\ pc["1"] = "wait" /\ pc' = [pc EXCEPT !["1"] = "koniec"]
        /\ los' = [los EXCEPT !["1"] = 0]
        /\ wydruk' = IF program = "b"
                     THEN <<[Linia("a1", los["a1"]) EXCEPT
                               !.nazwa = my_strsignal(WTERMSIG(los["a1"]))]>>
                     ELSE wydruk
    BY <1>12 DEF Wait1
  <2>2. program = "b" => Opisani' = {"a1"}
    <3> DEFINE l == [Linia("a1", los["a1"]) EXCEPT
                       !.nazwa = my_strsignal(WTERMSIG(los["a1"]))]
    <3>1. l.kto = "a1"
      BY DEF Linia
    <3> HIDE DEF l
    <3>2. program = "b" => wydruk' = <<l>>
      BY <2>1 DEF l
    <3> QED BY <3>1, <3>2 DEF Opisani
  <2>3. program = "b" => pc["2"] = "brak"
    BY DEF IInv, Rodowod
  <2> QED BY <1>0, <1>1, <1>2, <2>1, <2>2, <2>3 DEF Zgoda, Potomek
<1>13. CASE Tyka \/ UNCHANGED vars
  BY <1>0, <1>2, <1>13 DEF Zgoda, Tyka, vars
<1> QED BY <1>2, <1>3, <1>4, <1>5, <1>6, <1>7, <1>8, <1>9, <1>10, <1>11, <1>12, <1>13 DEF Krok

(* The signal ends its receivers: it finds them in pause(), with the       *)
(* default action or the handler that their mode has chosen.               *)
LEMMA TrafieniKrok ==
  ASSUME Opoznienie < 2 * Sekunda, IInv, Czasy, Odmowa, Zgoda, Trafieni,
         [Next]_vars, bledy' = {}
  PROVE  Trafieni'
<1> SUFFICES ASSUME Konczacy, Wyslany' PROVE Trafieni'
  BY Staly DEF Trafieni, Konczacy, argumenty
<1> USE SygnalyAssumption
    DEF argumenty, zbieranie, czas, Biegnie, Skok, Wyjdz, Wyslany
<1>0. pc["1"] \in {"wait", "koniec"} =>
        /\ \A a \in Potomek : pc[a] \in {"brak", "handle", "koniec"}
        /\ pc["2"] \in {"brak", "sleep", "wait", "koniec"}
  BY DEF Trafieni
<1>1. /\ pc \in [Proces -> Etykiety] /\ los \in [Proces -> Int] /\ Etapy
      /\ \A p \in Proces : los[p] # Zyje <=> pc[p] = "koniec"
      /\ program \in {"b", "c"} /\ numer \in 1..31 /\ tryb \in 1..3
  BY DEF IInv, Stany, Dane
<1>2. /\ bledy = {} /\ NaCzas /\ UNCHANGED argumenty
      /\ (\E p \in Proces : Krok(p)) \/ Tyka \/ UNCHANGED vars
  BY Spokojnie, Staly
<1>3. ASSUME NEW p \in Proces, Exec(p) \/ Signal(p) \/ Pause(p) \/ HandleZaWczesnie(p)
      PROVE  Trafieni'
  BY <1>0, <1>1, <1>3 DEF Trafieni, Exec, Signal, Pause, HandleZaWczesnie, Potomek, Etapy
<1>4. ASSUME NEW p \in Proces, HandleWraca(p)
      PROVE  Trafieni'
  BY <1>0, <1>1, <1>4 DEF Trafieni, HandleWraca, Potomek, Etapy
<1>5. CASE Setpgid \/ Sleep2 \/ Wait2 \/ \E a \in Potomek : Fork2(a)
  BY <1>0, <1>1, <1>5 DEF Trafieni, Setpgid, Sleep2, Wait2, Fork2, Potomek
<1>6. CASE Fork1 \/ Sleep1
  BY <1>1, <1>6 DEF Fork1, Sleep1, Dziecko, Potomek
<1>7. CASE Waitpid
  <2>1. /\ los["a1"] # Zyje /\ program = "b"
        /\ UNCHANGED pc["2"] /\ \A a \in Potomek : pc'[a] = pc[a]
    BY <1>1, <1>7 DEF Waitpid, IInv, Rodowod, Potomek
  <2>2. pc["a1"] = "koniec"
    BY <1>1, <2>1 DEF Potomek
  <2>3. pc["2"] = "brak" /\ pc["a2"] = "brak" /\ pc["a3"] = "brak"
    BY <2>1 DEF IInv, Rodowod, Potomek
  <2> QED BY <2>1, <2>2, <2>3 DEF Trafieni, Potomek
<1>8. CASE Kill
  <2>1. /\ Biegnie("1", "kill") /\ \A p \in Proces \ {"1"} : pc'[p] = Po(p)
    BY <1>1, <1>8 DEF Kill
  <2>2. /\ \A a \in Potomek : pc[a] \in {"brak", "pause", "koniec"}
        /\ pc["2"] \in {"brak", "sleep", "wait", "koniec"}
    BY <1>1, <1>2, <2>1, PrzyKill
  <2>3. Skutek("2") = "nic"
    BY <1>1 DEF Skutek, Adresaci, IInv, Obsluga
  <2>4. ASSUME NEW a \in Potomek, pc[a] = "pause"
        PROVE  pc'[a] \in {"handle", "koniec"}
    <3>1. a \in Adresaci /\ a \in Proces \ {"1"}
      BY <1>1, <2>4 DEF Adresaci, IInv, Rodowod, Potomek
    <3>2. numer \notin Nieusuwalne
      BY <2>4, <3>1 DEF Odmowa
    <3>3. obsluga[a] = Akcja(a) /\ a # "2"
      BY <2>4 DEF IInv, Obsluga, Potomek
    <3>4. \/ tryb = 3 /\ obsluga[a] = "handle"
          \/ tryb = 1 /\ obsluga[a] = "SIG_DFL" /\ Domyslna(numer) = "zabija"
      BY <3>2, <3>3 DEF Konczacy, Akcja
    <3>5. \/ Skutek(a) = "handle" \/ Skutek(a) = "zabija"
      BY <2>4, <3>1, <3>4 DEF Skutek, Zywy
    <3>6. pc'[a] = Po(a)
      BY <2>1, <3>1
    <3> QED BY <2>4, <3>5, <3>6 DEF Po
  <2>5. ASSUME NEW a \in Potomek, pc[a] # "pause"
        PROVE  pc'[a] \in {"brak", "koniec"}
    BY <2>1, <2>2, <2>5 DEF Po, Skutek, Zywy, Potomek
  <2>6. pc'["2"] = pc["2"]
    BY <2>1, <2>3 DEF Po
  <2> QED BY <2>2, <2>4, <2>5, <2>6 DEF Trafieni
<1>9. CASE KillNieudany
  <2>1. /\ Biegnie("1", "kill") /\ Adresaci = {}
        /\ \A p \in Proces \ {"1"} : pc'[p] = pc[p]
    BY <1>1, <1>9 DEF KillNieudany
  <2>2. program = "c" /\ grupa = {}
    BY <1>1, <2>1 DEF Adresaci
  <2>3. \A a \in Potomek : pc[a] = "brak"
    BY <2>2 DEF IInv, Rodowod
  <2>4. pc["2"] \in {"sleep", "wait", "koniec"}
    BY <1>2, <2>1, <2>2, PrzyKill
  <2> QED BY <2>1, <2>3, <2>4 DEF Trafieni, Potomek
<1>10. CASE Wait1
  BY <1>0, <1>1, <1>10 DEF Trafieni, Wait1, Potomek
<1>11. CASE Tyka \/ UNCHANGED vars
  BY <1>0, <1>11 DEF Trafieni, Tyka, vars
<1> QED BY <1>2, <1>3, <1>4, <1>5, <1>6, <1>7, <1>8, <1>9, <1>10, <1>11 DEF Krok

(* Initially nothing has been forked, and nothing is written.              *)
LEMMA BezblednieInit == Init => Bezblednie /\ Liczone
<1> SUFFICES ASSUME Init PROVE Bezblednie /\ Liczone
  OBVIOUS
<1>1. /\ \A p \in Proces : pc[p] \in {"fork", "brak"} /\ los[p] = Zyje
      /\ pc["1"] = "fork" /\ pc["2"] = "brak" /\ wydruk = <<>> /\ zebrane = {}
  BY SygnalyAssumption DEF Init
<1>2. Powolany /\ Odmowa /\ Zgoda /\ Trafieni
  BY <1>1, SygnalyAssumption DEF Powolany, Odmowa, Zgoda, Trafieni, Wyslany, Zyje, Potomek, Init
<1>3. Len(wydruk) = 0 /\ DOMAIN wydruk = {} /\ Cardinality({}) = 0
  BY <1>1, FS_EmptySet
<1> QED BY <1>1, <1>2, <1>3 DEF Bezblednie, Liczone

(* Every step preserves what is known of a run in which nothing goes wrong.*)
LEMMA BezblednieKrok ==
  ASSUME Opoznienie < 2 * Sekunda, IInv, Czasy, Bezblednie, [Next]_vars
  PROVE  Bezblednie'
<1> SUFFICES ASSUME bledy' = {} PROVE (Powolany /\ Odmowa /\ Zgoda /\ Trafieni)'
  BY DEF Bezblednie
<1>1. Powolany /\ Odmowa /\ Zgoda /\ Trafieni
  BY Spokojnie DEF Bezblednie
<1> QED BY <1>1, PowolanyKrok, OdmowaKrok, ZgodaKrok, TrafieniKrok

(* Somebody can run, or sleeps.                                            *)
BezZakleszczenia == Konczacy /\ bledy = {} /\ (\E p \in Proces : Zywy(p))
                      => Gotowe # {} \/ \E p \in Proces : sen[p] > 0

(* When all have ended, they have ended as they should.                    *)
Zgodnie == Konczacy /\ bledy = {} /\ (\A p \in Proces : ~ Zywy(p)) => Koniec

(* Who waits in pause() has not been sent the signal yet; process 2 waits  *)
(* for children that run; process 1 for process 2, or for its child.       *)
LEMMA NiktNieStoi == ASSUME IInv, Bezblednie PROVE BezZakleszczenia
<1> SUFFICES ASSUME Konczacy, bledy = {}, Gotowe = {}, \A p \in Proces : ~ sen[p] > 0
             PROVE  \A p \in Proces : ~ Zywy(p)
  BY DEF BezZakleszczenia
<1>0. /\ Powolany /\ Trafieni /\ Etapy /\ Proces = Potomek \cup {"1", "2"}
      /\ \A p \in Proces : sen[p] = 0 /\ (los[p] # Zyje <=> pc[p] = "koniec")
      /\ Dziecko \in Proces \ {"1"}
  BY SygnalyAssumption DEF Bezblednie, IInv, Stany, CzasOK, Dziecko, Potomek
<1>1. ASSUME NEW p \in Proces
      PROVE  ~ (/\ Zywy(p) /\ pc[p] \notin {"pause", "stoi"}
                /\ p = "1" /\ pc[p] = "wait" => los[Dziecko] # Zyje
                /\ p = "2" /\ pc[p] = "wait" => Wait2Moze)
  BY <1>0 DEF Gotowe
<1>2. pc["1"] \in {"wait", "koniec"}
  BY <1>0, <1>1 DEF Etapy, Zywy
<1>3. ASSUME NEW a \in Potomek
      PROVE  ~ Zywy(a)
  <2>1. pc[a] \in {"brak", "handle", "koniec"} /\ a \in Proces \ {"1", "2"}
    BY <1>0, <1>2 DEF Trafieni, Wyslany, Potomek
  <2> QED BY <1>1, <2>1 DEF Zywy
<1>4. ~ Zywy("2")
  <2>1. Wait2Moze
    BY <1>3 DEF Wait2Moze
  <2>2. pc["2"] \in {"brak", "sleep", "wait", "koniec"}
    BY <1>0, <1>2 DEF Trafieni, Wyslany
  <2> QED BY <1>0, <1>1, <2>1, <2>2 DEF Zywy
<1>5. ~ Zywy("1")
  <2>1. ~ Zywy(Dziecko)
    BY <1>0, <1>3, <1>4
  <2>2. los[Dziecko] # Zyje
    BY <1>0, <1>2, <2>1 DEF Powolany, Zywy
  <2> QED BY <1>0, <1>1, <1>2, <2>2 DEF Zywy
<1> QED BY <1>0, <1>3, <1>4, <1>5

(* The statuses and the lines at the end.                                  *)
LEMMA JakTrzeba == ASSUME IInv, Losy, Bezblednie, Liczone PROVE Zgodnie
<1> SUFFICES ASSUME Konczacy, bledy = {}, \A p \in Proces : ~ Zywy(p) PROVE Koniec
  BY DEF Zgodnie
<1>0. /\ Powolany /\ Odmowa /\ Zgoda /\ NaCzas /\ Proces = Potomek \cup {"1", "2"}
      /\ \A p \in Proces : pc[p] \in {"brak", "koniec"}
      /\ pc["1"] = "koniec" /\ pc[Dziecko] = "koniec"
      /\ numer \in 1..31 /\ program \in {"b", "c"}
  BY SygnalyAssumption
  DEF Bezblednie, NaCzas, Zywy, Powolany, IInv, Etapy, Dane, Dziecko, Potomek
<1>1. ASSUME NEW a \in Potomek, los[a] # Zyje
      PROVE  los[a] \in Wynik
  <2>1. /\ los[a] \in {0, 256, numer, numer + 128}
        /\ los[a] = 0 => tryb = 3
        /\ los[a] \in {numer, numer + 128} => tryb = 1
    BY <1>0, <1>1 DEF Losy
  <2>2. CASE numer \in Nieusuwalne
    BY <1>0, <1>1, <2>2 DEF Odmowa, Wynik
  <2>3. CASE numer \notin Nieusuwalne
    <3>1. los[a] # 256 /\ (tryb = 3 \/ tryb = 1)
      BY <1>0, <2>3 DEF Zgoda, Konczacy
    <3> QED BY <2>1, <2>3, <3>1 DEF Wynik
  <2> QED BY <2>2, <2>3
<1>2. ASSUME numer \in Nieusuwalne PROVE Opisani = {}
  BY <1>0, <1>2 DEF Odmowa, Opisani
<1>3. ASSUME numer \notin Nieusuwalne, program = "b" PROVE Opisani = {"a1"}
  BY <1>0, <1>3 DEF Zgoda
<1>4. ASSUME numer \notin Nieusuwalne, program = "c"
      PROVE  Opisani = Potomek /\ (numer # SIGCHLD => zebrane = Potomek)
  <2>1. Len(wydruk) = 3
    BY <1>0, <1>4 DEF Zgoda, Dziecko
  <2>2. DOMAIN wydruk = {1, 2, 3}
    <3>1. wydruk \in Seq(Linie)
      BY DEF IInv, Dane
    <3>2. DOMAIN wydruk = 1..3
      BY <2>1, <3>1
    <3> QED BY <3>2
  <2>3. Opisani = {Nr[1], Nr[2], Nr[3]}
    BY <1>4, <2>2 DEF Opisani, Liczone
  <2>4. {Nr[1], Nr[2], Nr[3]} = Potomek
    BY DEF Nr, Potomek
  <2>5. ASSUME numer # SIGCHLD PROVE zebrane = Potomek
    <3>1. zebrane \subseteq Potomek /\ Cardinality(zebrane) = 3
      BY <1>4, <2>1, <2>5 DEF Liczone, IInv, Dane
    <3> QED BY <3>1, TrojeDzieci, FS_Subset
  <2> QED BY <2>3, <2>4, <2>5
<1>5. numer \in Nieusuwalne /\ program = "c" => zebrane = {}
  <2> SUFFICES ASSUME numer \in Nieusuwalne, program = "c" PROVE zebrane = {}
    OBVIOUS
  <2>1. numer # SIGCHLD /\ Len(wydruk) = 0
    BY <1>0 DEF Odmowa, Nieusuwalne, SIGCHLD
  <2>2. IsFiniteSet(zebrane) /\ Cardinality(zebrane) = 0
    BY <2>1, TrojeDzieci, FS_Subset DEF Liczone, IInv, Dane
  <2> QED BY <2>2, FS_EmptySet
<1> QED BY <1>0, <1>1, <1>2, <1>3, <1>4, <1>5 DEF Koniec, Spodziewani, BezStatusow

(* With a signal that ends its receivers the programs never stop before    *)
(* all have ended, unless a call fails or a process is late.               *)
THEOREM BezZakleszczeniaInv ==
  ASSUME Opoznienie < 2 * Sekunda PROVE Spec => []BezZakleszczenia
BY Poczatkowy, KrokInv, CzasyInit, CzasyKrok, BezblednieInit, BezblednieKrok, NiktNieStoi,
   PTL DEF Spec

(* And when they have ended, every child has ended as its mode demands, and*)
(* process 2 has waited for each, and written a line with the pid of each. *)
THEOREM ZgodnieInv ==
  ASSUME Opoznienie < 2 * Sekunda PROVE Spec => []Zgodnie
BY Poczatkowy, KrokInv, CzasyInit, CzasyKrok, LosyInit, LosyKrok, BezblednieInit,
   BezblednieKrok, LiczoneKrok, JakTrzeba, PTL DEF Spec

-----------------------------------------------------------------------------
(* The report.                                                             *)

(* The children the signal has killed have one wait status, since it is    *)
(* sent once.                                                              *)
Zabici == {a \in Potomek : los[a] \in {numer, numer + 128}}
Jednakowo == /\ ~ Wyslany => Zabici = {}
             /\ \A a, b \in Zabici : los[a] = los[b]

(* Part (b): the line is of the one child, which has ended.                *)
Jedyny == program = "b" => \A k \in DOMAIN wydruk :
            wydruk[k].kto = "a1" /\ los["a1"] # Zyje /\ Zgadza(wydruk[k], los["a1"])

(* Part (c): the lines match the children waited for, which have ended.    *)
Pasuje(w, z, l) == \E f \in Bijection(DOMAIN w, z) :
                     \A k \in DOMAIN w : Zgadza(w[k], l[f[k]])
Wierne == program = "c" /\ ~ BezStatusow =>
            (\A a \in zebrane : los[a] # Zyje) /\ Pasuje(wydruk, zebrane, los)

(* Apart from kill(), a child ends by exit() only; and the signal is not   *)
(* called back.                                                            *)
LEMMA BezKill ==
  ASSUME IInv, [Next]_vars, ~ Kill
  PROVE  /\ \A a \in Potomek : los'[a] = los[a] \/ los'[a] \in {0, 256}
         /\ Wyslany => Wyslany'
<1> USE SygnalyAssumption
    DEF IInv, Stany, Potomek, Wyslany, argumenty, zbieranie, czas, Biegnie, Wyjdz, Skok
<1>1. CASE \E q \in Proces : Exec(q) \/ ExecNieudany(q) \/ Signal(q) \/ Pause(q)
                             \/ HandleWraca(q) \/ HandleZaWczesnie(q) \/ Spoznienie(q)
  BY <1>1 DEF Exec, ExecNieudany, Signal, Pause, HandleWraca, HandleZaWczesnie, Spoznienie,
             Etapy
<1>2. CASE Setpgid \/ Sleep2 \/ Wait2 \/ (\E a \in Potomek : Fork2(a)) \/ Fork2Nieudany
  BY <1>2 DEF Setpgid, Sleep2, Wait2, Fork2, Fork2Nieudany, Rodowod
<1>3. CASE Fork1 \/ Sleep1 \/ Waitpid \/ KillNieudany \/ Wait1 \/ Fork1Nieudany
  BY <1>3 DEF Fork1, Sleep1, Waitpid, KillNieudany, Wait1, Fork1Nieudany
<1>4. CASE Tyka \/ UNCHANGED vars
  BY <1>4 DEF Tyka, vars
<1> QED BY <1>1, <1>2, <1>3, <1>4 DEF Next, Krok, Zaklocenie

(* Initially no child has been killed.                                     *)
LEMMA JednakowoInit == Init => Jednakowo
<1>1. Zyje \notin 1..31 /\ \A n \in 1..31 : Zyje # n + 128
  BY DEF Zyje
<1>2. Init => numer \in 1..31 /\ \A a \in Potomek : los[a] = Zyje
  BY SygnalyAssumption DEF Init
<1> QED BY <1>1, <1>2 DEF Jednakowo, Zabici

(* Every step preserves that the killed children have one status.          *)
LEMMA JednakowoKrok ==
  ASSUME IInv, Jednakowo, [Next]_vars
  PROVE  Jednakowo'
<1>1. UNCHANGED argumenty /\ numer \in 1..31 /\ los \in [Proces -> Int]
      /\ Potomek \subseteq Proces
  BY Staly, SygnalyAssumption DEF IInv, Dane, Stany
<1>2. CASE Kill
  <2>1. pc["1"] = "kill" /\ pc'["1"] = "wait"
    BY <1>2, SygnalyAssumption DEF Kill, Biegnie, IInv, Stany
  <2>2. PICK zrzut \in {0, 128} :
          los' = [p \in Proces |-> IF Skutek(p) = "zabija" THEN numer + zrzut ELSE los[p]]
    BY <1>2 DEF Kill
  <2>3. Zabici = {}
    BY <2>1 DEF Jednakowo, Wyslany
  <2>4. \A a \in Zabici' : los'[a] = numer + zrzut
    BY <1>1, <2>2, <2>3 DEF Zabici, argumenty
  <2> QED BY <2>1, <2>4 DEF Jednakowo, Wyslany
<1>3. CASE ~ Kill
  <2>1. \A a \in Potomek : los'[a] = los[a] \/ los'[a] \in {0, 256}
    BY <1>3, BezKill
  <2>2. Zabici' \subseteq Zabici /\ \A a \in Zabici' : los'[a] = los[a]
    BY <1>1, <2>1 DEF Zabici, argumenty
  <2>3. ~ Wyslany' => ~ Wyslany
    BY <1>3, BezKill
  <2> QED BY <2>2, <2>3 DEF Jednakowo
<1> QED BY <1>2, <1>3

(* The line of a wait status: % 128 tells an exit from a signal, and the   *)
(* number of the signal from the mark of a core. Part (c) names the signal *)
(* by the whole status, part (b) by the number.                            *)
LEMMA LiniaZgadza ==
  ASSUME IInv, Losy, NEW a \in Potomek, los[a] # Zyje, NEW kto
  PROVE  /\ program = "c" => Zgadza(Linia(kto, los[a]), los[a])
         /\ Zgadza([Linia(kto, los[a]) EXCEPT !.nazwa = my_strsignal(WTERMSIG(los[a]))],
                   los[a])
<1>1. numer \in 1..31 /\ los[a] \in {0, 256, numer, numer + 128}
  BY SygnalyAssumption DEF IInv, Dane, Losy
<1>2. /\ 0 % 128 = 0 /\ 256 % 128 = 0 /\ 0 \div 256 = 0 /\ 256 \div 256 = 1
      /\ numer % 128 = numer /\ (numer + 128) % 128 = numer
  BY <1>1
<1> DEFINE l == Linia(kto, los[a])
           m == [l EXCEPT !.nazwa = my_strsignal(WTERMSIG(los[a]))]
<1>3. /\ l.jak = IF WIFEXITED(los[a]) THEN "kod"
                 ELSE IF WIFSIGNALED(los[a]) THEN "sygnal" ELSE "brak"
      /\ l.numer = IF WIFEXITED(los[a]) THEN los[a] \div 256 ELSE WTERMSIG(los[a])
      /\ l.nazwa = my_strsignal(los[a])
      /\ m.jak = l.jak /\ m.numer = l.numer /\ m.nazwa = my_strsignal(WTERMSIG(los[a]))
  BY DEF Linia
<1> HIDE DEF l, m
<1>4. CASE los[a] \in {0, 256}
  <2>1. WIFEXITED(los[a])
    BY <1>2, <1>4 DEF WIFEXITED, WTERMSIG
  <2> QED BY <1>3, <1>4, <2>1 DEF Zgadza, l, m
<1>5. CASE los[a] \in {numer, numer + 128}
  <2>1. /\ WTERMSIG(los[a]) = numer /\ ~ WIFEXITED(los[a]) /\ WIFSIGNALED(los[a])
        /\ my_strsignal(numer) = numer /\ los[a] \notin {0, 256}
    BY <1>1, <1>2, <1>5 DEF WIFEXITED, WIFSIGNALED, WTERMSIG, my_strsignal
  <2>2. my_strsignal(los[a]) = numer \/ los[a] > 128
    BY <1>1, <1>5, <2>1
  <2> QED BY <1>3, <2>1, <2>2 DEF Zgadza, l, m
<1> QED BY <1>1, <1>4, <1>5

(* A matching is carried on by one child and one line.                     *)
LEMMA Dopasowanie ==
  ASSUME NEW n \in Nat, NEW z, NEW f \in Bijection(1..n, z), NEW a, a \notin z
  PROVE  \E g \in Bijection(1..(n + 1), z \cup {a}) :
           g[n + 1] = a /\ \A k \in 1..n : g[k] = f[k]
<1> DEFINE g == [k \in 1..(n + 1) |-> IF k = n + 1 THEN a ELSE f[k]]
<1>1. /\ f \in [1..n -> z] /\ \A j, k \in 1..n : f[j] = f[k] => j = k
      /\ \A x \in z : \E k \in 1..n : f[k] = x
  BY DEF Bijection, Injection, Surjection, IsInjective
<1>2. /\ g \in [1..(n + 1) -> z \cup {a}] /\ g[n + 1] = a
      /\ \A k \in 1..n : g[k] = f[k] /\ g[k] \in z
  BY <1>1
<1>3. 1..(n + 1) = 1..n \cup {n + 1} /\ DOMAIN g = 1..(n + 1)
  OBVIOUS
<1> HIDE DEF g
<1>4. \A j, k \in 1..(n + 1) : g[j] = g[k] => j = k
  BY <1>1, <1>2, <1>3
<1>5. \A x \in z \cup {a} : \E k \in 1..(n + 1) : g[k] = x
  BY <1>1, <1>2, <1>3
<1>6. g \in Bijection(1..(n + 1), z \cup {a})
  BY <1>2, <1>3, <1>4, <1>5 DEF Bijection, Injection, Surjection, IsInjective
<1> QED BY <1>2, <1>6

(* Nothing but wait() adds a line, or a child that has been waited for.    *)
LEMMA Dopisuje ==
  ASSUME [Next]_vars
  PROVE  Wait1 \/ Wait2 \/ UNCHANGED <<wydruk, zebrane>>
  BY DEF Next, Krok, Zaklocenie, vars, zbieranie, Exec, ExecNieudany, Signal, Pause,
         HandleWraca, HandleZaWczesnie, Spoznienie, Setpgid, Sleep2, Fork2, Fork2Nieudany,
         Fork1, Sleep1, Waitpid, Kill, KillNieudany, Fork1Nieudany, Tyka

(* Every step keeps the line of part (b) true: the status is final.        *)
LEMMA JedynyKrok ==
  ASSUME IInv, Losy, Jedyny, [Next]_vars
  PROVE  Jedyny'
<1> SUFFICES ASSUME program = "b" PROVE Jedyny'
  BY Staly DEF Jedyny, argumenty
<1>1. UNCHANGED argumenty /\ "a1" \in Potomek /\ "a1" \in Proces
  BY Staly, SygnalyAssumption DEF Potomek
<1>2. los["a1"] # Zyje => los'["a1"] = los["a1"]
  BY <1>1, Ostateczny
<1>3. CASE Wait1
  <2> DEFINE l == [Linia("a1", los["a1"]) EXCEPT
                     !.nazwa = my_strsignal(WTERMSIG(los["a1"]))]
  <2>1. wydruk' = <<l>> /\ los["a1"] # Zyje
    BY <1>3 DEF Wait1, Dziecko
  <2>2. Zgadza(l, los["a1"])
    BY <1>1, <2>1, LiniaZgadza
  <2>3. l.kto = "a1"
    BY DEF Linia
  <2> HIDE DEF l
  <2> QED BY <1>1, <1>2, <2>1, <2>2, <2>3 DEF Jedyny, Zgadza, argumenty
<1>4. CASE wydruk' = wydruk
  BY <1>1, <1>2, <1>4 DEF Jedyny, Zgadza, argumenty
<1>5. ~ Wait2
  BY DzieciSa DEF Wait2, Biegnie
<1> QED BY <1>3, <1>4, <1>5, Dopisuje

(* Every step keeps the matching of part (c): a line that is added is about*)
(* a child not waited for before, and the statuses of the others are final.*)
LEMMA WierneKrok ==
  ASSUME IInv, Losy, Liczone, Wierne, [Next]_vars
  PROVE  Wierne'
<1> SUFFICES ASSUME program = "c", ~ BezStatusow PROVE Wierne'
  BY Staly DEF Wierne, BezStatusow, argumenty
<1>1. /\ UNCHANGED argumenty /\ zebrane \subseteq Potomek /\ Potomek \subseteq Proces
      /\ wydruk \in Seq(Linie) /\ numer # SIGCHLD
  BY Staly, SygnalyAssumption DEF IInv, Dane, BezStatusow
<1>2. \A a \in Potomek : los[a] # Zyje => los'[a] = los[a]
  BY <1>1, Ostateczny
<1>3. \A a \in zebrane : los[a] # Zyje /\ los'[a] = los[a]
  BY <1>1, <1>2 DEF Wierne
<1>4. PICK f \in Bijection(DOMAIN wydruk, zebrane) :
        \A k \in DOMAIN wydruk : Zgadza(wydruk[k], los[f[k]])
  BY DEF Wierne, Pasuje
<1>5. \A k \in DOMAIN wydruk : f[k] \in zebrane
  BY <1>4 DEF Bijection, Injection
<1>6. CASE Wait2
  <2> DEFINE n == Len(wydruk)
             linia == Linia(Nr[n + 1], status')
  <2>1. wydruk' = Append(wydruk, linia) /\ DOMAIN wydruk = 1..n /\ n \in Nat
    BY <1>1, <1>6 DEF Wait2
  <2>2. PICK a \in Zombie : zebrane' = zebrane \cup {a} /\ status' = los[a]
    BY <1>1, <1>6, JestZombie DEF Wait2
  <2>3. a \in Potomek /\ a \notin zebrane /\ los[a] # Zyje
    BY <2>2 DEF Zombie
  <2>4. Zgadza(linia, los[a])
    BY <2>2, <2>3, LiniaZgadza
  <2>5. los'[a] = los[a]
    BY <1>2, <2>3
  <2> HIDE DEF n, linia
  <2>6. /\ DOMAIN wydruk' = 1..(n + 1) /\ wydruk'[n + 1] = linia
        /\ \A k \in 1..n : wydruk'[k] = wydruk[k]
    BY <1>1, <2>1 DEF n
  <2>7. PICK g \in Bijection(1..(n + 1), zebrane \cup {a}) :
          g[n + 1] = a /\ \A k \in 1..n : g[k] = f[k]
    <3>1. f \in Bijection(1..n, zebrane)
      BY <1>4, <2>1
    <3> QED BY <2>1, <2>3, <3>1, Dopasowanie
  <2>8. ASSUME NEW k \in 1..(n + 1)
        PROVE  Zgadza(wydruk'[k], los'[g[k]])
    <3>1. CASE k = n + 1
      BY <2>4, <2>5, <2>6, <2>7, <3>1
    <3>2. CASE k \in 1..n
      BY <1>3, <1>4, <1>5, <2>1, <2>6, <2>7, <3>2
    <3> QED BY <2>1, <3>1, <3>2
  <2>9. Pasuje(wydruk, zebrane, los)'
    <3>1. g \in Bijection(DOMAIN wydruk', zebrane')
      BY <2>2, <2>6, <2>7
    <3>2. \A k \in DOMAIN wydruk' : Zgadza(wydruk'[k], los'[g[k]])
      BY <2>6, <2>8
    <3> QED BY <1>1, <3>1, <3>2 DEF Pasuje, Zgadza, argumenty
  <2>10. \A x \in zebrane' : los'[x] # Zyje
    BY <1>3, <2>2, <2>3, <2>5
  <2> QED BY <2>9, <2>10 DEF Wierne
<1>7. CASE UNCHANGED <<wydruk, zebrane>>
  <2>1. \A k \in DOMAIN wydruk' : Zgadza(wydruk'[k], los'[f[k]])
    BY <1>3, <1>4, <1>5, <1>7
  <2>2. Pasuje(wydruk, zebrane, los)'
    <3>1. f \in Bijection(DOMAIN wydruk', zebrane')
      BY <1>4, <1>7
    <3> QED BY <1>1, <2>1, <3>1 DEF Pasuje, Zgadza, argumenty
  <2> QED BY <1>3, <1>7, <2>2 DEF Wierne
<1>8. Wait1 => UNCHANGED <<wydruk, zebrane>>
  BY DEF Wait1
<1> QED BY <1>6, <1>7, <1>8, Dopisuje

(* Initially there are no lines.                                           *)
LEMMA RaportInit == Init => Jedyny /\ Wierne
<1> SUFFICES ASSUME Init PROVE Jedyny /\ Wierne
  OBVIOUS
<1>1. DOMAIN wydruk = {} /\ zebrane = {}
  BY DEF Init
<1>2. [k \in {} |-> k] \in Bijection({}, {})
  BY DEF Bijection, Injection, Surjection, IsInjective
<1> QED BY <1>1, <1>2 DEF Jedyny, Wierne, Pasuje

(* A line that tells how one child has ended tells it of every other that  *)
(* has, when nothing has gone wrong: they have all been killed, all have   *)
(* left handle(), or there is no line.                                     *)
LEMMA Podobni ==
  ASSUME IInv, Losy, Jednakowo, Bezblednie, bledy = {}, wydruk # <<>>,
         NEW a \in Potomek, NEW b \in Potomek, los[a] # Zyje, los[b] # Zyje
  PROVE  los[a] = los[b]
<1>1. Odmowa /\ Zgoda /\ NaCzas
  BY DEF Bezblednie, NaCzas
<1>2. numer \notin Nieusuwalne
  BY <1>1 DEF Odmowa
<1>3. los[a] # 256 /\ los[b] # 256
  BY <1>1, <1>2 DEF Zgoda
<1>4. CASE tryb = 3
  BY <1>1, <1>3, <1>4 DEF Losy
<1>5. CASE tryb # 3
  <2>1. a \in Zabici /\ b \in Zabici
    BY <1>3, <1>5 DEF Losy, Zabici
  <2> QED BY <2>1 DEF Jednakowo
<1> QED BY <1>4, <1>5

(* What a true line of a child says of the mode.                           *)
LEMMA ZTrybu ==
  ASSUME IInv, Losy, NEW a \in Potomek, los[a] # Zyje, NEW linia, Zgadza(linia, los[a])
  PROVE  /\ linia.jak = "sygnal" => tryb = 1 \/ (program = "b" /\ ~ NaCzas)
         /\ linia.jak = "kod" /\ linia.numer = 0 => tryb = 3
<1>1. los[a] \in {0, 256, numer, numer + 128} /\ 256 \div 256 = 1
  BY DEF Losy
<1>2. CASE los[a] \in {0, 256}
  BY <1>1, <1>2 DEF Losy, Zgadza
<1>3. CASE los[a] \notin {0, 256}
  BY <1>1, <1>3 DEF Losy, Zgadza
<1> QED BY <1>2, <1>3

(* The lines match the children waited for, whatever goes wrong; and when  *)
(* nothing does, each is true of the child whose pid it has.               *)
THEOREM RaportInv == ASSUME Opoznienie < 2 * Sekunda PROVE Spec => []Raport
<1>1. IInv /\ Losy /\ Jednakowo /\ Bezblednie /\ Jedyny /\ Wierne => Raport
  <2> SUFFICES ASSUME IInv, Losy, Jednakowo, Bezblednie, Jedyny, Wierne PROVE Raport
    OBVIOUS
  <2>1. ASSUME program = "c", ~ BezStatusow
        PROVE  \E f \in Bijection(DOMAIN wydruk, zebrane) :
                 \A k \in DOMAIN wydruk : Zgadza(wydruk[k], los[f[k]])
    BY <2>1 DEF Wierne, Pasuje
  <2>2. ASSUME ~ BezStatusow, NEW k \in DOMAIN wydruk
        PROVE  /\ (program = "b" \/ bledy = {}) /\ los[wydruk[k].kto] # Zyje
                    => Zgadza(wydruk[k], los[wydruk[k].kto])
               /\ wydruk[k].jak = "sygnal" => tryb = 1 \/ (program = "b" /\ ~ NaCzas)
               /\ wydruk[k].jak = "kod" /\ wydruk[k].numer = 0 => tryb = 3
    <3>1. wydruk[k].kto \in Potomek /\ wydruk # <<>>
      <4>1. wydruk \in Seq(Linie)
        BY DEF IInv, Dane
      <4>2. wydruk[k] \in Linie
        BY <2>2, <4>1
      <4> QED BY <2>2, <4>2 DEF Linie
    <3>2. CASE program = "b"
      <4>1. "a1" \in Potomek
        BY DEF Potomek
      <4>2. wydruk[k].kto = "a1" /\ los["a1"] # Zyje /\ Zgadza(wydruk[k], los["a1"])
        BY <2>2, <3>2 DEF Jedyny
      <4> QED BY <4>1, <4>2, ZTrybu
    <3>3. CASE program = "c"
      <4>1. PICK f \in Bijection(DOMAIN wydruk, zebrane) :
              \A j \in DOMAIN wydruk : Zgadza(wydruk[j], los[f[j]])
        BY <2>1, <2>2, <3>3
      <4>2. f[k] \in zebrane
        BY <2>2, <4>1 DEF Bijection, Injection
      <4>3. f[k] \in Potomek /\ los[f[k]] # Zyje /\ Zgadza(wydruk[k], los[f[k]])
        BY <2>2, <3>3, <4>1, <4>2 DEF Wierne, IInv, Dane
      <4>4. bledy = {} /\ los[wydruk[k].kto] # Zyje => los[wydruk[k].kto] = los[f[k]]
        BY <3>1, <4>3, Podobni
      <4> QED BY <3>3, <4>3, <4>4, ZTrybu
    <3> QED BY <3>2, <3>3 DEF IInv, Dane
  <2> QED BY <2>1, <2>2 DEF Raport
<1> QED BY Poczatkowy, KrokInv, CzasyInit, CzasyKrok, LosyInit, LosyKrok, JednakowoInit,
           JednakowoKrok, BezblednieInit, BezblednieKrok, LiczoneKrok, RaportInit,
           JedynyKrok, WierneKrok, <1>1, PTL DEF Spec

=============================================================================
