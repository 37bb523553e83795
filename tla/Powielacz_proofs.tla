-------------------------- MODULE Powielacz_proofs --------------------------
(* Theorems about Powielacz, for every number of children and sections.    *)
EXTENDS Powielacz, FiniteSetTheorems, TLAPS

-----------------------------------------------------------------------------
(* The inductive invariant.                                                *)

(* Children are started in order, and none before main has its semaphore.  *)
Kolejno == /\ \A c \in Potomek : c > forki => pc[c] = "brak"
           /\ pc[main] \in {"open_w", "close_w", "signal", "sem_open", "sem_adres"}
                => forki = 0

(* Who is in the section has lowered the semaphore, alone.                 *)
Straz == JedenWSekcji /\ \A c \in WSekcji : semafor = 0

(* A child that has sections before it has not done the last one.          *)
Sekcje == \A c \in Potomek : pc[c] \notin {"koniec", "exit_handler"}
                               => i[c] <= ilosc_sekcji

(* Until main has set its handler, SIGINT has the default action.          *)
Domyslny == pc[main] \in {"open_w", "close_w", "signal"} => main \in domyslny

(* The file is truncated only while somebody is about to write to it; and  *)
(* who is about to write has what is to be in the file.                    *)
Pelny == plik = Pusty => \/ pc[main] \in {"open_w", "close_w"}
                         \/ \E c \in Potomek : pc[c] = "close_w"
WPliku == /\ pc[main] \in {"open_w", "close_w"} => plik = Pusty
          /\ \A c \in Potomek : /\ pc[c] = "open_w"  => x[c] = plik + 1
                                /\ pc[c] = "close_w" => plik = Pusty
Plik == druga = "brak" => Pelny /\ WPliku

IInv == Liczby /\ Kolejno /\ Straz /\ Sekcje /\ Domyslny /\ Plik

-----------------------------------------------------------------------------
(* nazwa and wsk apart: no other part of the invariant depends on them.    *)
LEMMA LogiczneInit == Init => Logiczne
  BY DEF Init, Logiczne

(* The two change by assignments and a conjunction only.                   *)
LEMMA LogiczneStep == Logiczne /\ [Next]_vars => Logiczne'
<1> SUFFICES ASSUME Logiczne, [Next]_vars PROVE Logiczne'
  OBVIOUS
<1> USE DEF Logiczne
<1>1. ASSUME MainStep PROVE Logiczne'
  BY <1>1 DEF MainStep, MOpen, MClose, MSignal, MSemOpen, MSemAdres, MFork, MWait,
              MCzytaj, MUnlink
<1>2. ASSUME NEW c \in Potomek, PotomekStep(c) PROVE Logiczne'
  BY <1>2 DEF PotomekStep, Exec, SemOpen, SemWait, Czytaj, OpenW, CloseW, SemPost,
              stanMain
<1>3. ASSUME NEW p \in Proces, ExitHandler(p) PROVE Logiczne'
  BY <1>3 DEF ExitHandler
<1>4. ASSUME NEW p \in Proces, Dostarcz(p) PROVE Logiczne'
  BY <1>4 DEF Dostarcz
<1>5. ASSUME Zaklocenie PROVE Logiczne'
  BY <1>5 DEF Zaklocenie, MForkNieudany, CtrlC, DrugaOpen, DrugaClose, ExecNieudany,
              stanMain
<1>6. CASE UNCHANGED vars
  BY <1>6 DEF vars
<1> QED BY <1>1, <1>2, <1>3, <1>4, <1>5, <1>6 DEF Next, Krok

(* Before the first step.                                                 *)
LEMMA IInvInit == Init => IInv
<1> SUFFICES ASSUME Init PROVE IInv
  OBVIOUS
<1> USE PowielaczAssumption DEF Proces, Potomek, main
<1>1. pc[main] = "open_w" /\ \A c \in Potomek : pc[c] = "brak" /\ i[c] = 1
  <2>1. pc = [p \in Proces |-> IF p = main THEN "open_w" ELSE "brak"]
    BY DEF Init
  <2>2. i = [c \in Potomek |-> 1]
    BY DEF Init
  <2>3. pc[main] = "open_w"
    BY <2>1
  <2>4. ASSUME NEW c \in Potomek PROVE pc[c] = "brak" /\ i[c] = 1
    <3>1. c # main /\ c \in Proces
      OBVIOUS
    <3> HIDE DEF Proces, Potomek, main
    <3> QED BY <2>1, <2>2, <3>1
  <2> QED BY <2>3, <2>4
<1>2. plik = Pusty /\ forki = 0 /\ domyslny = {main}
  BY DEF Init
<1>3. Liczby
  BY DEF Init, Liczby
<1>4. Kolejno /\ Domyslny
  BY <1>1, <1>2 DEF Kolejno, Domyslny
<1>5. Straz /\ Sekcje
  BY <1>1 DEF Straz, JedenWSekcji, WSekcji, Sekcje
<1>6. Plik
  BY <1>1, <1>2 DEF Plik, Pelny, WPliku
<1> QED BY <1>3, <1>4, <1>5, <1>6 DEF IInv

(* The steps of main but the fork().                                       *)
LEMMA IInvMain ==
  ASSUME IInv, MainStep, ~ MFork
  PROVE  IInv'
<1> USE PowielaczAssumption
    DEF IInv, Proces, Potomek, main, Skok, Wyjdz, potomne, sygnaly
<1>1. CASE MOpen
  <2>1. Liczby'
    BY <1>1 DEF MOpen, Liczby, Sekcje
  <2>2. Kolejno' /\ Domyslny'
    BY <1>1 DEF MOpen, Liczby, Kolejno, Domyslny
  <2>3. Straz' /\ Sekcje'
    BY <1>1 DEF MOpen, Liczby, Kolejno, Straz, JedenWSekcji, WSekcji, Sekcje
  <2>4. Plik'
    BY <1>1 DEF MOpen, Liczby, Kolejno, Domyslny, Plik, Pelny, WPliku
  <2> QED BY <2>1, <2>2, <2>3, <2>4
<1>2. CASE MClose
  <2>1. Liczby'
    BY <1>2 DEF MClose, Liczby, Sekcje
  <2>2. Kolejno' /\ Domyslny'
    BY <1>2 DEF MClose, Liczby, Kolejno, Domyslny
  <2>3. Straz' /\ Sekcje'
    BY <1>2 DEF MClose, Liczby, Kolejno, Straz, JedenWSekcji, WSekcji, Sekcje
  <2>4. Plik'
    BY <1>2 DEF MClose, Liczby, Kolejno, Domyslny, Plik, Pelny, WPliku
  <2> QED BY <2>1, <2>2, <2>3, <2>4
<1>3. CASE MSignal
  <2>1. Liczby'
    BY <1>3 DEF MSignal, Liczby, Sekcje
  <2>2. Kolejno' /\ Domyslny'
    BY <1>3 DEF MSignal, Liczby, Kolejno, Domyslny
  <2>3. Straz' /\ Sekcje'
    BY <1>3 DEF MSignal, Liczby, Kolejno, Straz, JedenWSekcji, WSekcji, Sekcje
  <2>4. Plik'
    BY <1>3 DEF MSignal, Liczby, Kolejno, Domyslny, Plik, Pelny, WPliku
  <2> QED BY <2>1, <2>2, <2>3, <2>4
<1>4. CASE MSemOpen
  <2>1. Liczby'
    BY <1>4 DEF MSemOpen, Liczby, Sekcje
  <2>2. Kolejno' /\ Domyslny'
    BY <1>4 DEF MSemOpen, Liczby, Kolejno, Domyslny
  <2>3. Straz' /\ Sekcje'
    BY <1>4 DEF MSemOpen, Liczby, Kolejno, Straz, JedenWSekcji, WSekcji, Sekcje
  <2>4. Plik'
    BY <1>4 DEF MSemOpen, Liczby, Kolejno, Domyslny, Plik, Pelny, WPliku
  <2> QED BY <2>1, <2>2, <2>3, <2>4
<1>5. CASE MSemAdres
  <2>1. Liczby'
    BY <1>5 DEF MSemAdres, Liczby, Sekcje
  <2>2. Kolejno' /\ Domyslny'
    BY <1>5 DEF MSemAdres, Liczby, Kolejno, Domyslny
  <2>3. Straz' /\ Sekcje'
    BY <1>5 DEF MSemAdres, Liczby, Kolejno, Straz, JedenWSekcji, WSekcji, Sekcje
  <2>4. Plik'
    BY <1>5 DEF MSemAdres, Liczby, Kolejno, Domyslny, Plik, Pelny, WPliku
  <2> QED BY <2>1, <2>2, <2>3, <2>4
<1>6. CASE MWait
  <2>1. Liczby'
    BY <1>6 DEF MWait, Liczby, Sekcje
  <2>2. Kolejno' /\ Domyslny'
    BY <1>6 DEF MWait, Liczby, Kolejno, Domyslny
  <2>3. Straz' /\ Sekcje'
    BY <1>6 DEF MWait, Liczby, Kolejno, Straz, JedenWSekcji, WSekcji, Sekcje
  <2>4. Plik'
    BY <1>6 DEF MWait, Liczby, Kolejno, Domyslny, Plik, Pelny, WPliku
  <2> QED BY <2>1, <2>2, <2>3, <2>4
<1>7. CASE MCzytaj
  <2>0. WSekcji' = WSekcji
    BY <1>7 DEF MCzytaj, Liczby, WSekcji
  <2>1. Liczby'
    BY <1>7 DEF MCzytaj, Liczby, Sekcje
  <2>2. Kolejno' /\ Domyslny'
    BY <1>7 DEF MCzytaj, Liczby, Kolejno, Domyslny
  <2>3. Straz' /\ Sekcje'
    BY <1>7, <2>0 DEF MCzytaj, Liczby, Straz, JedenWSekcji, Sekcje
  <2>4. Plik'
    BY <1>7 DEF MCzytaj, Liczby, Kolejno, Domyslny, Plik, Pelny, WPliku
  <2> QED BY <2>1, <2>2, <2>3, <2>4
<1>8. CASE MUnlink
  <2>1. Liczby'
    BY <1>8 DEF MUnlink, Liczby, Sekcje
  <2>2. Kolejno' /\ Domyslny'
    BY <1>8 DEF MUnlink, Liczby, Kolejno, Domyslny
  <2>3. Straz' /\ Sekcje'
    BY <1>8 DEF MUnlink, Liczby, Kolejno, Straz, JedenWSekcji, WSekcji, Sekcje
  <2>4. Plik'
    BY <1>8 DEF MUnlink, Liczby, Kolejno, Domyslny, Plik, Pelny, WPliku
  <2> QED BY <2>1, <2>2, <2>3, <2>4
<1> QED BY <1>1, <1>2, <1>3, <1>4, <1>5, <1>6, <1>7, <1>8 DEF MainStep

(* The new child is at its exec, and in no section.                        *)
LEMMA IInvFork == IInv /\ MFork => IInv'
<1> SUFFICES ASSUME IInv, MFork PROVE IInv'
  OBVIOUS
<1> USE PowielaczAssumption
    DEF IInv, Liczby, Kolejno, Proces, Potomek, main, MFork
<1>1. pc[forki + 1] = "brak" /\ forki + 1 \in Potomek
  OBVIOUS
<1>2. Liczby'
  <2>1. pc' \in [Proces -> {"open_w", "close_w", "signal", "sem_open",
                            "sem_adres", "fork", "wait", "czytaj", "sem_unlink",
                            "exit_handler", "brak", "przed_exec", "sem_wait",
                            "sem_post", "koniec"}]
    BY <1>1
  <2>2. forki' \in 0..ilosc_pp
    OBVIOUS
  <2> QED BY <2>1, <2>2 DEF potomne, sygnaly
<1>6. Kolejno'
  BY <1>1
<1>3. WSekcji' = WSekcji
  BY <1>1 DEF WSekcji
<1>4. Straz' /\ Sekcje' /\ Domyslny'
  BY <1>1, <1>3 DEF Straz, JedenWSekcji, Sekcje, Domyslny, potomne, sygnaly
<1>5. Plik'
  BY <1>1 DEF Plik, Pelny, WPliku, potomne
<1> QED BY <1>2, <1>4, <1>5, <1>6

(* The steps of a child.                                                   *)
LEMMA IInvPotomek ==
  ASSUME NEW c \in Potomek, IInv, PotomekStep(c)
  PROVE  IInv'
<1> USE PowielaczAssumption
    DEF IInv, Proces, Potomek, main, Skok, potomne, sygnaly, stanMain
<1>1. CASE Exec(c)
  <2>1. Liczby'
    BY <1>1 DEF Exec, Liczby, Sekcje
  <2>2. Kolejno' /\ Domyslny'
    BY <1>1 DEF Exec, Liczby, Kolejno, Domyslny
  <2>3. Straz' /\ Sekcje'
    BY <1>1 DEF Exec, Liczby, Kolejno, Straz, JedenWSekcji, WSekcji, Sekcje
  <2>4. Plik'
    BY <1>1 DEF Exec, Liczby, Kolejno, Domyslny, Plik, Pelny, WPliku
  <2> QED BY <2>1, <2>2, <2>3, <2>4
<1>2. CASE SemOpen(c)
  <2>1. Liczby'
    BY <1>2 DEF SemOpen, Liczby, Sekcje
  <2>2. Kolejno' /\ Domyslny'
    BY <1>2 DEF SemOpen, Liczby, Kolejno, Domyslny
  <2>3. Straz' /\ Sekcje'
    BY <1>2 DEF SemOpen, Liczby, Kolejno, Straz, JedenWSekcji, WSekcji, Sekcje
  <2>4. Plik'
    BY <1>2 DEF SemOpen, Liczby, Kolejno, Domyslny, Plik, Pelny, WPliku
  <2> QED BY <2>1, <2>2, <2>3, <2>4
<1>3. CASE SemWait(c)
  <2>1. Liczby'
    BY <1>3 DEF SemWait, Liczby, Sekcje
  <2>2. Kolejno' /\ Domyslny'
    BY <1>3 DEF SemWait, Liczby, Kolejno, Domyslny
  <2>3. Straz' /\ Sekcje'
    BY <1>3 DEF SemWait, Liczby, Kolejno, Straz, JedenWSekcji, WSekcji, Sekcje
  <2>4. Plik'
    BY <1>3 DEF SemWait, Liczby, Kolejno, Domyslny, Plik, Pelny, WPliku
  <2> QED BY <2>1, <2>2, <2>3, <2>4
<1>4. CASE Czytaj(c)
  <2>1. /\ UNCHANGED <<plik, semafor, martwe, forki, y, i, sygnaly, sprzatal, druga, bledy>>
        /\ pc[c] = "czytaj"
    BY <1>4 DEF Czytaj
  <2>2. CASE plik = Pusty
    <3>1. x' = x /\ pc' = [pc EXCEPT ![c] = "koniec"]
      BY <1>4, <2>2 DEF Czytaj
    <3>2. Liczby'
      BY <2>1, <3>1 DEF Liczby
    <3>3. Kolejno' /\ Domyslny'
      BY <2>1, <3>1 DEF Liczby, Kolejno, Domyslny
    <3>4. Straz' /\ Sekcje'
      BY <2>1, <3>1 DEF Liczby, Straz, JedenWSekcji, WSekcji, Sekcje
    <3>5. Plik'
      BY <2>1, <3>1 DEF Liczby, Plik, Pelny, WPliku
    <3> QED BY <3>2, <3>3, <3>4, <3>5
  <2>3. CASE plik # Pusty
    <3>1. plik \in Nat
      BY <2>3 DEF Liczby
    <3>2. x' = [x EXCEPT ![c] = plik + 1] /\ pc' = [pc EXCEPT ![c] = "open_w"]
      BY <1>4, <2>3 DEF Czytaj
    <3>3. Liczby'
      BY <2>1, <3>1, <3>2 DEF Liczby
    <3>4. Kolejno' /\ Domyslny'
      BY <2>1, <3>2 DEF Liczby, Kolejno, Domyslny
    <3>5. Straz' /\ Sekcje'
      BY <2>1, <3>2 DEF Liczby, Straz, JedenWSekcji, WSekcji, Sekcje
    <3>6. Plik'
      BY <2>1, <2>3, <3>1, <3>2 DEF Liczby, Plik, Pelny, WPliku
    <3> QED BY <3>3, <3>4, <3>5, <3>6
  <2> QED BY <2>2, <2>3
<1>5. CASE OpenW(c)
  <2>1. Liczby'
    BY <1>5 DEF OpenW, Liczby, Sekcje
  <2>2. Kolejno' /\ Domyslny'
    BY <1>5 DEF OpenW, Liczby, Kolejno, Domyslny
  <2>3. Straz' /\ Sekcje'
    BY <1>5 DEF OpenW, Liczby, Kolejno, Straz, JedenWSekcji, WSekcji, Sekcje
  <2>4. Plik'
    BY <1>5 DEF OpenW, Liczby, Kolejno, Straz, JedenWSekcji, WSekcji,
                     Plik, Pelny, WPliku
  <2> QED BY <2>1, <2>2, <2>3, <2>4
<1>6. CASE CloseW(c)
  <2>1. Liczby'
    BY <1>6 DEF CloseW, Liczby, Sekcje
  <2>2. Kolejno' /\ Domyslny'
    BY <1>6 DEF CloseW, Liczby, Kolejno, Domyslny
  <2>3. Straz' /\ Sekcje'
    BY <1>6 DEF CloseW, Liczby, Kolejno, Straz, JedenWSekcji, WSekcji, Sekcje
  <2>4. Plik'
    BY <1>6 DEF CloseW, Liczby, Kolejno, Straz, JedenWSekcji, WSekcji,
                     Plik, Pelny, WPliku
  <2> QED BY <2>1, <2>2, <2>3, <2>4
<1>7. CASE SemPost(c)
  <2>1. Liczby'
    <3>1. i[c] <= ilosc_sekcji /\ semafor = 0
      BY <1>7 DEF SemPost, Sekcje, Straz, WSekcji
    <3>2. i' \in [Potomek -> 1..ilosc_sekcji + 1] /\ semafor' \in {0, 1}
      BY <1>7, <3>1 DEF SemPost, Liczby
    <3> QED BY <1>7, <3>2 DEF SemPost, Liczby
  <2>2. Kolejno' /\ Domyslny'
    BY <1>7 DEF SemPost, Liczby, Kolejno, Domyslny
  <2>3. Straz' /\ Sekcje'
    BY <1>7 DEF SemPost, Liczby, Kolejno, Straz, JedenWSekcji, WSekcji, Sekcje
  <2>4. Plik'
    BY <1>7 DEF SemPost, Liczby, Kolejno, Domyslny, Plik, Pelny, WPliku
  <2> QED BY <2>1, <2>2, <2>3, <2>4
<1> QED BY <1>1, <1>2, <1>3, <1>4, <1>5, <1>6, <1>7 DEF PotomekStep

(* exit_handler, SIGINT, failing calls and the second ./pow: nobody enters *)
(* the section or leaves it, the killed included.                          *)
LEMMA IInvInne ==
  ASSUME IInv, Zaklocenie \/ \E p \in Proces : ExitHandler(p) \/ Dostarcz(p)
  PROVE  IInv'
<1> USE PowielaczAssumption
    DEF IInv, Proces, Potomek, main, Skok, Wyjdz, potomne, sygnaly, stanMain
<1>1. CASE MForkNieudany
  <2>1. Liczby'
    BY <1>1 DEF MForkNieudany, Liczby, Sekcje
  <2>2. Kolejno' /\ Domyslny'
    BY <1>1 DEF MForkNieudany, Liczby, Kolejno, Domyslny
  <2>3. Straz' /\ Sekcje'
    BY <1>1 DEF MForkNieudany, Liczby, Kolejno, Straz, JedenWSekcji, WSekcji, Sekcje
  <2>4. Plik'
    BY <1>1 DEF MForkNieudany, Liczby, Kolejno, Domyslny, Plik, Pelny, WPliku
  <2> QED BY <2>1, <2>2, <2>3, <2>4
<1>2. CASE CtrlC
  <2>1. Liczby'
    <3>1. zalegle' \subseteq Proces
      BY <1>2 DEF CtrlC, Liczby
    <3>2. wyslane' \in 0..MaxSigint
      BY <1>2 DEF CtrlC, Liczby
    <3> QED BY <1>2, <3>1, <3>2 DEF CtrlC, Liczby
  <2>2. Kolejno' /\ Domyslny'
    BY <1>2 DEF CtrlC, Liczby, Kolejno, Domyslny
  <2>3. Straz' /\ Sekcje'
    BY <1>2 DEF CtrlC, Liczby, Kolejno, Straz, JedenWSekcji, WSekcji, Sekcje
  <2>4. Plik'
    BY <1>2 DEF CtrlC, Liczby, Kolejno, Domyslny, Plik, Pelny, WPliku
  <2> QED BY <2>1, <2>2, <2>3, <2>4
<1>3. CASE DrugaOpen \/ DrugaClose
  <2>1. Liczby'
    <3>1. plik' \in {Pusty, 0} /\ druga' \in {"pisze", "koniec"}
      BY <1>3 DEF DrugaOpen, DrugaClose
    <3>2. UNCHANGED <<semafor, pc, martwe, forki, y, potomne, sygnaly, sprzatal, bledy>>
      BY <1>3 DEF DrugaOpen, DrugaClose
    <3> QED BY <3>1, <3>2 DEF Liczby
  <2>2. Kolejno' /\ Domyslny'
    BY <1>3 DEF DrugaOpen, DrugaClose, Liczby, Kolejno, Domyslny
  <2>3. Straz' /\ Sekcje'
    BY <1>3 DEF DrugaOpen, DrugaClose, Liczby, Kolejno, Straz, JedenWSekcji, WSekcji, Sekcje
  <2>4. Plik'
    BY <1>3 DEF DrugaOpen, DrugaClose, Liczby, Kolejno, Domyslny, Plik, Pelny, WPliku
  <2> QED BY <2>1, <2>2, <2>3, <2>4
<1>4. ASSUME NEW c \in Potomek, ExecNieudany(c) PROVE IInv'
  <2>1. Liczby'
    BY <1>4 DEF ExecNieudany, Liczby, Sekcje
  <2>2. Kolejno' /\ Domyslny'
    BY <1>4 DEF ExecNieudany, Liczby, Kolejno, Domyslny
  <2>3. Straz' /\ Sekcje'
    BY <1>4 DEF ExecNieudany, Liczby, Kolejno, Straz, JedenWSekcji, WSekcji, Sekcje
  <2>4. Plik'
    BY <1>4 DEF ExecNieudany, Liczby, Kolejno, Domyslny, Plik, Pelny, WPliku
  <2> QED BY <2>1, <2>2, <2>3, <2>4
<1>5. ASSUME NEW p \in Proces, ExitHandler(p) PROVE IInv'
  <2>1. Liczby'
    BY <1>5 DEF ExitHandler, Liczby, Sekcje
  <2>2. Kolejno' /\ Domyslny'
    BY <1>5 DEF ExitHandler, Liczby, Kolejno, Domyslny
  <2>3. Straz' /\ Sekcje'
    BY <1>5 DEF ExitHandler, Liczby, Kolejno, Straz, JedenWSekcji, WSekcji, Sekcje
  <2>4. Plik'
    BY <1>5 DEF ExitHandler, Liczby, Kolejno, Domyslny, Plik, Pelny, WPliku
  <2> QED BY <2>1, <2>2, <2>3, <2>4
<1>6. ASSUME NEW p \in Proces, Dostarcz(p) PROVE IInv'
  <2>1. /\ UNCHANGED <<plik, semafor, forki, y, potomne, wyslane, druga>>
        /\ zalegle' = zalegle \ {p} /\ bledy' \subseteq bledy \cup {"sigint", "okno"}
    BY <1>6 DEF Dostarcz
  <2>2. \/ martwe' = martwe \cup {p} /\ UNCHANGED <<pc, sprzatal, domyslny>>
        \/ /\ p \notin domyslny
           /\ p = main \/ pc[p] \in {"przed_exec", "exit_handler"}
           /\ pc' = [pc EXCEPT ![p] = IF p \in sprzatal THEN "koniec"
                                     ELSE "exit_handler"]
           /\ sprzatal' = sprzatal \cup {p} /\ domyslny' = domyslny \cup {p}
           /\ martwe' = martwe
    BY <1>6 DEF Dostarcz
  <2>3. pc[p] # "brak"
    BY <1>6 DEF Dostarcz, Zywy
  <2>4. CASE martwe' = martwe \cup {p} /\ UNCHANGED <<pc, sprzatal, domyslny>>
    <3>1. Liczby'
      BY <2>1, <2>4 DEF Liczby
    <3> QED BY <2>1, <2>4, <3>1 DEF Kolejno, Straz, JedenWSekcji, WSekcji, Sekcje, Domyslny,
                                    Plik, Pelny, WPliku
  <2>5. CASE /\ p \notin domyslny
             /\ p = main \/ pc[p] \in {"przed_exec", "exit_handler"}
             /\ pc' = [pc EXCEPT ![p] = IF p \in sprzatal THEN "koniec"
                                       ELSE "exit_handler"]
             /\ sprzatal' = sprzatal \cup {p} /\ domyslny' = domyslny \cup {p}
             /\ martwe' = martwe
    <3>1. Liczby'
      BY <2>1, <2>5 DEF Liczby
    <3>2. Kolejno' /\ Domyslny'
      BY <2>1, <2>3, <2>5 DEF Liczby, Kolejno, Domyslny
    <3>3. WSekcji' = WSekcji
      BY <2>5 DEF Liczby, WSekcji
    <3>4. Straz' /\ Sekcje'
      BY <2>1, <2>5, <3>3 DEF Liczby, Straz, JedenWSekcji, Sekcje
    <3>5. Plik'
      BY <2>1, <2>5 DEF Liczby, Domyslny, Plik, Pelny, WPliku
    <3> QED BY <3>1, <3>2, <3>4, <3>5
  <2> QED BY <2>2, <2>4, <2>5
<1> QED BY <1>1, <1>2, <1>3, <1>4, <1>5, <1>6 DEF Zaklocenie

(* All the steps together.                                                *)
LEMMA IInvStep == IInv /\ [Next]_vars => IInv'
<1> SUFFICES ASSUME IInv, [Next]_vars PROVE IInv'
  OBVIOUS
<1>1. CASE UNCHANGED vars
  BY <1>1 DEF IInv, Liczby, Kolejno, Straz, JedenWSekcji, WSekcji, Sekcje, Domyslny,
              Plik, Pelny, WPliku, vars, potomne, sygnaly
<1> QED BY <1>1, IInvMain, IInvFork, IInvPotomek, IInvInne DEF Next, Krok

-----------------------------------------------------------------------------
(* The strengthening is an invariant: who is in the section, who is about  *)
(* to write to the file and what, for any number of children.              *)
THEOREM IInvNiezmiennik == Spec => []IInv
  BY IInvInit, IInvStep, PTL DEF Spec

(* Types; the semaphore never gets above 1, nor i past the last section.   *)
THEOREM TypOK == Spec => []TypeOK
<1>1. Logiczne /\ IInv => TypeOK
  BY DEF IInv, TypeOK
<1> QED BY <1>1, LogiczneInit, LogiczneStep, IInvNiezmiennik, PTL DEF Spec

(* potomne.c, lines 28-53: the children are in the section one at a time,  *)
(* and none finds there a file that another has truncated, whatever Ctrl+C *)
(* and failing calls do to the processes and to the semaphore's name.      *)
THEOREM WykluczenieInv == Spec => []Wykluczenie
<1>1. IInv => Wykluczenie
  <2> SUFFICES ASSUME IInv, NEW c \in Potomek \ martwe, pc[c] = "czytaj",
                      plik = Pusty, druga = "brak"
               PROVE  FALSE
    BY DEF IInv, Straz, Wykluczenie, CzytaLiczbe
  <2>1. CASE pc[main] \in {"open_w", "close_w"}
    BY <2>1 DEF IInv, Kolejno, Potomek
  <2>2. CASE \E d \in Potomek : pc[d] = "close_w"
    BY <2>2 DEF IInv, Straz, JedenWSekcji, WSekcji
  <2> QED BY <2>1, <2>2 DEF IInv, Plik, Pelny
<1> QED BY <1>1, IInvNiezmiennik, PTL

-----------------------------------------------------------------------------
(* The children implement the counter of LicznikSekcji.                    *)

(* Who kto is.                                                             *)
LEMMA KtoNikt == WSekcji = {} => kto = Nikt
  BY DEF kto

(* The child in the section, alone in it.                                  *)
LEMMA KtoSam ==
  ASSUME NEW c \in WSekcji, JedenWSekcji
  PROVE  kto = c /\ kto # Nikt
<1>1. kto \in WSekcji
  BY DEF kto
<1>2. kto = c
  BY <1>1 DEF JedenWSekcji
<1> QED BY <1>2, PowielaczAssumption DEF WSekcji, Potomek

(* A step that leaves the section and the file alone changes nothing.      *)
LEMMA Obojetny ==
  ASSUME UNCHANGED <<plik, x>>, WSekcji' = WSekcji,
         \A c \in Potomek : pc'[c] = "sem_post" <=> pc[c] = "sem_post"
  PROVE  UNCHANGED L!abstrakcyjne
<1>1. kto' = kto
  BY DEF kto
<1>2. licznik' = licznik
  BY <1>1 DEF licznik
<1>3. zwiekszyl' = zwiekszyl
  <2>1. \A c \in Potomek : pc'[c] = "sem_post" <=> pc[c] = "sem_post"
    OBVIOUS
  <2> QED BY <2>1, ZenonT(20) DEF zwiekszyl
<1> QED BY <1>1, <1>2, <1>3 DEF L!abstrakcyjne

(* The section is empty, and there is no number yet: it counts as 0.       *)
LEMMA LicznikInit == Init => L!Init
<1> SUFFICES ASSUME Init PROVE L!Init
  OBVIOUS
<1>1. pc = [p \in Proces |-> IF p = main THEN "open_w" ELSE "brak"] /\ plik = Pusty
  BY DEF Init
<1>2. ASSUME NEW c \in Potomek PROVE pc[c] = "brak"
  <2>1. c # main /\ c \in Proces
    BY PowielaczAssumption DEF Potomek, Proces, main
  <2> QED BY <1>1, <2>1
<1>3. kto = Nikt
  BY <1>2, KtoNikt DEF WSekcji
<1>4. zwiekszyl = FALSE
  BY <1>2 DEF zwiekszyl
<1>5. licznik = 0
  BY <1>1, <1>3 DEF licznik
<1> QED BY <1>3, <1>4, <1>5 DEF L!Init

(* Nobody is in the section while it is entered, and the file is whole.    *)
LEMMA LicznikWejdz ==
  ASSUME NEW c \in Potomek, IInv, druga = "brak", SemWait(c)
  PROVE  L!Wejdz(c)
<1>1. /\ pc' = [pc EXCEPT ![c] = "czytaj"] /\ pc[c] = "sem_wait" /\ semafor > 0
      /\ plik' = plik /\ x' = x
  BY DEF SemWait, Skok, potomne
<1>2. WSekcji = {}
  BY <1>1 DEF IInv, Straz
<1>3. WSekcji' = {c}
  BY <1>1, <1>2 DEF WSekcji, IInv, Liczby, Proces
<1>4. kto = Nikt /\ kto' = c
  BY <1>2, <1>3 DEF kto
<1>5. zwiekszyl = FALSE /\ zwiekszyl' = FALSE
  BY <1>1, <1>2 DEF zwiekszyl, WSekcji, IInv, Liczby, Proces
<1>6. plik # Pusty
  <2>1. pc[main] \notin {"open_w", "close_w"}
    BY <1>1 DEF IInv, Kolejno, Potomek
  <2> QED BY <1>2, <2>1 DEF IInv, Plik, Pelny, WSekcji
<1>7. licznik' = licznik
  BY <1>1, <1>6 DEF licznik
<1> QED BY <1>4, <1>5, <1>7 DEF L!Wejdz

(* fopen truncates the file: its old number is the new one less one.       *)
LEMMA LicznikOpenW ==
  ASSUME NEW c \in Potomek, IInv, druga = "brak", OpenW(c)
  PROVE  UNCHANGED L!abstrakcyjne
<1>1. /\ pc' = [pc EXCEPT ![c] = "close_w"] /\ pc[c] = "open_w"
      /\ plik' = Pusty /\ x' = x
  BY DEF OpenW, Skok, potomne
<1>2. WSekcji' = WSekcji /\ c \in WSekcji
  BY <1>1 DEF WSekcji, IInv, Liczby, Proces
<1>3. kto' = kto /\ kto = c /\ kto # Nikt
  BY <1>2, KtoSam DEF kto, IInv, Straz
<1>4. zwiekszyl' = zwiekszyl
  BY <1>1 DEF zwiekszyl, IInv, Liczby, Proces
<1>5. plik # Pusty /\ x[c] = plik + 1 /\ plik \in Nat
  <2>1. x[c] = plik + 1
    BY <1>1 DEF IInv, Plik, WPliku
  <2>2. plik # Pusty
    <3>1. pc[main] \notin {"open_w", "close_w"}
      BY <1>1 DEF IInv, Kolejno, Potomek
    <3>2. \A d \in Potomek : pc[d] # "close_w"
      BY <1>1, <1>2 DEF IInv, Straz, JedenWSekcji, WSekcji
    <3> QED BY <3>1, <3>2 DEF IInv, Plik, Pelny
  <2> QED BY <2>1, <2>2 DEF IInv, Liczby
<1>6. licznik = plik /\ licznik' = x[c] - 1
  BY <1>1, <1>3, <1>5 DEF licznik
<1>7. licznik' = licznik
  BY <1>5, <1>6
<1> QED BY <1>3, <1>4, <1>7 DEF L!abstrakcyjne

(* fclose() writes the number: this is the increment.                      *)
LEMMA LicznikZwieksz ==
  ASSUME NEW c \in Potomek, IInv, druga = "brak", CloseW(c)
  PROVE  L!Zwieksz
<1>1. /\ pc' = [pc EXCEPT ![c] = "sem_post"] /\ pc[c] = "close_w"
      /\ plik' = x[c] /\ x' = x
  BY DEF CloseW, Skok, potomne
<1>2. WSekcji' = WSekcji /\ c \in WSekcji
  BY <1>1 DEF WSekcji, IInv, Liczby, Proces
<1>3. kto' = kto /\ kto = c /\ kto # Nikt
  BY <1>2, KtoSam DEF kto, IInv, Straz
<1>4. ~ zwiekszyl
  BY <1>1, <1>2 DEF zwiekszyl, IInv, Straz, JedenWSekcji, WSekcji
<1>5. zwiekszyl' = TRUE
  <2>1. pc'[c] = "sem_post"
    BY <1>1 DEF IInv, Liczby, Proces
  <2> QED BY <2>1 DEF zwiekszyl
<1>6. x[c] \in Nat /\ plik = Pusty /\ Pusty \notin Nat
  BY <1>1, PowielaczAssumption DEF IInv, Liczby, Plik, WPliku
<1>7. licznik = x[c] - 1 /\ licznik' = x[c]
  BY <1>1, <1>3, <1>6 DEF licznik
<1>8. licznik' = licznik + 1
  BY <1>6, <1>7
<1> QED BY <1>3, <1>4, <1>5, <1>8 DEF L!Zwieksz

(* The section is empty again, and the file whole.                         *)
LEMMA LicznikWyjdz ==
  ASSUME NEW c \in Potomek, IInv, druga = "brak", SemPost(c)
  PROVE  L!Wyjdz
<1>1. /\ pc' = [pc EXCEPT ![c] = IF i[c] < ilosc_sekcji THEN "sem_wait" ELSE "koniec"]
      /\ pc[c] = "sem_post" /\ plik' = plik /\ x' = x
  BY DEF SemPost, Skok
<1>2. WSekcji = {c} /\ WSekcji' = {}
  BY <1>1 DEF WSekcji, IInv, Straz, JedenWSekcji, Liczby, Proces
<1>3. kto = c /\ kto # Nikt /\ kto' = Nikt
  BY <1>2, KtoSam DEF kto, IInv, Straz
<1>4. zwiekszyl
  BY <1>1 DEF zwiekszyl
<1>5. zwiekszyl' = FALSE
  BY <1>2 DEF zwiekszyl, WSekcji
<1>6. plik # Pusty
  <2>1. pc[main] \notin {"open_w", "close_w"}
    BY <1>1 DEF IInv, Kolejno, Potomek
  <2>2. \A d \in Potomek : pc[d] # "close_w"
    BY <1>1, <1>2 DEF WSekcji
  <2> QED BY <2>1, <2>2 DEF IInv, Plik, Pelny
<1>7. licznik' = licznik
  BY <1>1, <1>6 DEF licznik
<1> QED BY <1>3, <1>4, <1>5, <1>7 DEF L!Wyjdz

(* main zeroes the file while there are no children: 0 remains 0.          *)
LEMMA LicznikPoczatek ==
  ASSUME IInv, druga = "brak", MOpen \/ MClose
  PROVE  UNCHANGED L!abstrakcyjne
<1>1. /\ pc[main] \in {"open_w", "close_w"} /\ plik' \in {Pusty, 0}
      /\ \E l \in {"close_w", "signal"} : pc' = [pc EXCEPT ![main] = l]
  BY DEF MOpen, MClose, Skok
<1>2. \A c \in Potomek : pc[c] = "brak" /\ pc'[c] = "brak"
  BY <1>1, PowielaczAssumption DEF IInv, Liczby, Kolejno, Proces, Potomek, main
<1>3. kto = Nikt /\ kto' = Nikt
  BY <1>2 DEF kto, WSekcji
<1>4. plik = Pusty
  BY <1>1 DEF IInv, Plik, WPliku
<1>5. licznik = 0 /\ licznik' = 0
  BY <1>1, <1>3, <1>4 DEF licznik
<1>6. zwiekszyl = FALSE /\ zwiekszyl' = FALSE
  BY <1>2 DEF zwiekszyl
<1> QED BY <1>3, <1>5, <1>6 DEF L!abstrakcyjne

(* The number is read; the file has one, so no child gives up.             *)
LEMMA LicznikCzytaj ==
  ASSUME NEW c \in Potomek, IInv, druga = "brak", Czytaj(c)
  PROVE  UNCHANGED L!abstrakcyjne
<1>1. pc[c] = "czytaj" /\ plik' = plik
  BY DEF Czytaj, Skok
<1>2. plik # Pusty
  <2>1. pc[main] \notin {"open_w", "close_w"}
    BY <1>1 DEF IInv, Kolejno, Potomek
  <2>2. \A d \in Potomek : pc[d] # "close_w"
    BY <1>1 DEF IInv, Straz, JedenWSekcji, WSekcji
  <2> QED BY <2>1, <2>2 DEF IInv, Plik, Pelny
<1>3. pc' = [pc EXCEPT ![c] = "open_w"]
  BY <1>2 DEF Czytaj, Skok
<1>4. WSekcji' = WSekcji
  BY <1>1, <1>3 DEF WSekcji, IInv, Liczby, Proces
<1>5. kto' = kto
  BY <1>4 DEF kto
<1>6. licznik' = licznik
  BY <1>1, <1>2 DEF licznik
<1>7. zwiekszyl' = zwiekszyl
  <2>1. \A d \in Potomek : pc'[d] = "sem_post" <=> pc[d] = "sem_post"
    BY <1>1, <1>3 DEF IInv, Liczby, Proces
  <2> QED BY <2>1, ZenonT(20) DEF zwiekszyl
<1> QED BY <1>5, <1>6, <1>7 DEF L!abstrakcyjne

(* The other steps of main move nobody into the section or out of it.      *)
LEMMA LicznikMain ==
  ASSUME IInv, MSignal \/ MSemOpen \/ MSemAdres \/ MFork \/ MWait \/ MCzytaj \/ MUnlink
                 \/ MForkNieudany \/ CtrlC
  PROVE  UNCHANGED L!abstrakcyjne
<1> USE PowielaczAssumption
<1>1. UNCHANGED <<plik, x>>
  BY DEF MSignal, MSemOpen, MSemAdres, MFork, MWait, MCzytaj, MUnlink, MForkNieudany,
         CtrlC, potomne
<1>2. \A c \in Potomek : pc'[c] = pc[c] \/ (pc[c] = "brak" /\ pc'[c] = "przed_exec")
  <2>0. /\ \A c \in Potomek : c # main /\ c \in Proces
        /\ DOMAIN pc = Proces
    BY DEF IInv, Liczby, Proces, Potomek, main
  <2>1. CASE MFork
    <3>1. pc[forki + 1] = "brak"
      BY <2>1 DEF MFork, IInv, Liczby, Kolejno, Potomek
    <3>2. \A c \in Potomek : c # forki + 1 => pc'[c] = pc[c]
      BY <2>0, <2>1 DEF MFork
    <3>3. pc'[forki + 1] = "przed_exec"
      <4>1. forki + 1 \in Potomek
        BY <2>1 DEF MFork, IInv, Liczby, Potomek
      <4> QED BY <2>0, <2>1, <4>1 DEF MFork
    <3> QED BY <3>1, <3>2, <3>3
  <2>2. CASE MSignal \/ MSemOpen \/ MSemAdres \/ MWait \/ MUnlink
    BY <2>0, <2>2 DEF MSignal, MSemOpen, MSemAdres, MWait, MUnlink, Skok
  <2>3. CASE MCzytaj \/ MForkNieudany \/ CtrlC
    <3>1. pc' = pc \/ \E l \in {"koniec", "exit_handler", "sem_unlink"} :
                        pc' = [pc EXCEPT ![main] = l]
      <4>1. CASE MCzytaj
        BY <4>1 DEF MCzytaj, Skok, Wyjdz
      <4>2. CASE MForkNieudany
        BY <4>2 DEF MForkNieudany, Skok, Wyjdz
      <4>3. CASE CtrlC
        BY <4>3 DEF CtrlC
      <4> QED BY <2>3, <4>1, <4>2, <4>3
    <3> QED BY <2>0, <3>1
  <2> QED BY <2>1, <2>2, <2>3
<1>3. WSekcji' = WSekcji
  BY <1>2 DEF WSekcji
<1> QED BY <1>1, <1>2, <1>3, Obojetny

(* Nor do the first steps of a child, its end, and SIGINT.                 *)
LEMMA LicznikPotomek ==
  ASSUME NEW p \in Proces, IInv,
         \/ ExitHandler(p) \/ Dostarcz(p)
         \/ p \in Potomek /\ (Exec(p) \/ ExecNieudany(p) \/ SemOpen(p))
  PROVE  UNCHANGED L!abstrakcyjne
<1> USE PowielaczAssumption
<1>1. UNCHANGED <<plik, x>>
  BY DEF ExitHandler, Dostarcz, Exec, ExecNieudany, SemOpen, potomne
<1>2. \/ pc' = pc
      \/ /\ p = main \/ pc[p] \in {"przed_exec", "sem_open", "exit_handler"}
         /\ \E l \in {"koniec", "exit_handler", "sem_open", "sem_wait"} :
              pc' = [pc EXCEPT ![p] = l]
  BY DEF ExitHandler, Dostarcz, Exec, ExecNieudany, SemOpen, Skok, Wyjdz
<1>3. /\ \A c \in Potomek : c # main /\ c \in Proces
       /\ DOMAIN pc = Proces
  BY DEF IInv, Liczby, Proces, Potomek, main
<1>4. \A c \in Potomek :
        \/ pc'[c] = pc[c]
        \/ /\ pc[c] \in {"przed_exec", "sem_open", "exit_handler"}
           /\ pc'[c] \in {"koniec", "exit_handler", "sem_open", "sem_wait"}
  BY <1>2, <1>3
<1>5. \A c \in Potomek : pc'[c] = "sem_post" <=> pc[c] = "sem_post"
  BY <1>4
<1>6. WSekcji' = WSekcji
  BY <1>4 DEF WSekcji
<1> QED BY <1>1, <1>5, <1>6, Obojetny

(* Once a second ./pow has started it has been there.                      *)
LEMMA DrugaBrak ==
  ASSUME [Next]_vars, druga' = "brak"
  PROVE  druga = "brak" /\ ~ DrugaOpen /\ ~ DrugaClose
<1>1. ~ DrugaOpen /\ ~ DrugaClose
  BY DEF DrugaOpen, DrugaClose
<1>2. druga' = druga
  <2>1. ASSUME MainStep PROVE druga' = druga
    BY <2>1 DEF MainStep, MOpen, MClose, MSignal, MSemOpen, MSemAdres, MFork, MWait,
                MCzytaj, MUnlink
  <2>2. ASSUME NEW c \in Potomek, PotomekStep(c) \/ ExecNieudany(c) PROVE druga' = druga
    BY <2>2 DEF PotomekStep, Exec, ExecNieudany, SemOpen, SemWait, Czytaj, OpenW, CloseW,
                SemPost, stanMain
  <2>3. ASSUME NEW p \in Proces, ExitHandler(p) \/ Dostarcz(p) PROVE druga' = druga
    BY <2>3 DEF ExitHandler, Dostarcz
  <2>4. ASSUME MForkNieudany \/ CtrlC PROVE druga' = druga
    BY <2>4 DEF MForkNieudany, CtrlC
  <2> QED BY <1>1, <2>1, <2>2, <2>3, <2>4 DEF Next, Krok, Zaklocenie, vars
<1> QED BY <1>1, <1>2

(* potomne.c, lines 28-53: read, truncate and write are one increment, and *)
(* none is lost, however many children there are, as long as nobody else   *)
(* writes to the file.                                                     *)
THEOREM LicznikRefinement == Spec => LicznikSpec
<1>1. IInv /\ [Next]_vars => [druga' = "brak" => L!Next]_(L!abstrakcyjne)
  <2> SUFFICES ASSUME IInv, [Next]_vars, druga' = "brak"
               PROVE  L!Next \/ UNCHANGED L!abstrakcyjne
    OBVIOUS
  <2>1. druga = "brak" /\ ~ DrugaOpen /\ ~ DrugaClose
    BY DrugaBrak
  <2>2. CASE MainStep \/ MForkNieudany \/ CtrlC
    BY <2>1, <2>2, LicznikPoczatek, LicznikMain DEF MainStep
  <2>3. ASSUME NEW c \in Potomek, PotomekStep(c) \/ ExecNieudany(c)
        PROVE  L!Next \/ UNCHANGED L!abstrakcyjne
    <3>1. c \in Proces
      BY DEF Proces
    <3>2. CASE SemWait(c)
      BY <2>1, <3>2, LicznikWejdz DEF L!Next
    <3>3. CASE CloseW(c)
      BY <2>1, <3>3, LicznikZwieksz DEF L!Next
    <3>4. CASE SemPost(c)
      BY <2>1, <3>4, LicznikWyjdz DEF L!Next
    <3>5. CASE Czytaj(c) \/ OpenW(c)
      BY <2>1, <3>5, LicznikCzytaj, LicznikOpenW
    <3>6. CASE Exec(c) \/ ExecNieudany(c) \/ SemOpen(c)
      BY <3>1, <3>6, LicznikPotomek
    <3> QED BY <2>3, <3>2, <3>3, <3>4, <3>5, <3>6 DEF PotomekStep
  <2>4. ASSUME NEW p \in Proces, ExitHandler(p) \/ Dostarcz(p)
        PROVE  UNCHANGED L!abstrakcyjne
    BY <2>4, LicznikPotomek
  <2>5. CASE UNCHANGED vars
    <3>1. UNCHANGED <<plik, x, pc>>
      BY <2>5 DEF vars, potomne
    <3>2. WSekcji' = WSekcji
      BY <3>1 DEF WSekcji
    <3> QED BY <3>1, <3>2, Obojetny
  <2> QED BY <2>1, <2>2, <2>3, <2>4, <2>5 DEF Next, Krok, Zaklocenie
<1> QED BY <1>1, LicznikInit, IInvNiezmiennik, PTL DEF Spec, LicznikSpec

-----------------------------------------------------------------------------
(* The name of the semaphore.                                              *)

(* Main passes these places in this order, once sem_open has made the name *)
(* there is somebody to remove it.                                         *)
PrzedHandlerem == {"open_w", "close_w", "signal"}
ZHandlerem     == {"sem_open", "sem_adres", "fork", "wait", "czytaj", "sem_unlink"}

\* Main has not been in exit(), and a first SIGINT calls its handler.
Gotowy == main \notin martwe /\ pc[main] \in PrzedHandlerem \cup ZHandlerem
            => /\ main \notin sprzatal
               /\ pc[main] \in ZHandlerem => main \notin domyslny

(* While the name exists main lives, and is where it will unlink it.       *)
Sprzatanie == nazwa /\ "okno" \notin bledy
                => /\ main \notin martwe
                   /\ pc[main] \in (ZHandlerem \ {"sem_open"}) \cup {"exit_handler"}
                   /\ wsk \/ pc[main] = "sem_adres"

LEMMA SprzatanieInit == Init => Gotowy /\ Sprzatanie
<1> SUFFICES ASSUME Init PROVE Gotowy /\ Sprzatanie
  OBVIOUS
<1>1. pc[main] = "open_w" /\ sprzatal = {} /\ ~ nazwa
  BY DEF Init, Proces, main
<1> QED BY <1>1 DEF Gotowy, Sprzatanie, PrzedHandlerem, ZHandlerem

LEMMA SprzatanieMain ==
  ASSUME IInv, Gotowy, Sprzatanie, MainStep
  PROVE  Gotowy' /\ Sprzatanie'
<1> USE DEF Gotowy, Sprzatanie, PrzedHandlerem, ZHandlerem
<1>0. DOMAIN pc = Proces /\ main \in Proces /\ main \notin Potomek
  <2>1. main \notin Potomek
    BY PowielaczAssumption DEF Potomek, main
  <2> QED BY <2>1 DEF IInv, Liczby, Proces
<1>1. CASE MOpen \/ MClose \/ MSignal \/ MSemOpen \/ MSemAdres
  BY <1>0, <1>1 DEF MOpen, MClose, MSignal, MSemOpen, MSemAdres, Skok, sygnaly
<1>2. CASE MFork
  <2>1. forki + 1 \in Potomek
    BY <1>2, PowielaczAssumption DEF MFork, IInv, Liczby, Potomek
  <2>2. pc'[main] \in {"fork", "wait"}
    BY <1>0, <1>2, <2>1 DEF MFork
  <2> QED BY <1>2, <2>2 DEF MFork, sygnaly
<1>3. CASE MWait \/ MUnlink
  BY <1>0, <1>3 DEF MWait, MUnlink, Skok, sygnaly
<1>4. CASE MCzytaj
  BY <1>0, <1>4 DEF MCzytaj, Skok, Wyjdz, sygnaly
<1> QED BY <1>1, <1>2, <1>3, <1>4 DEF MainStep

(* Children do not touch main; their handler can remove the name early.    *)
LEMMA SprzataniePotomek ==
  ASSUME IInv, Gotowy, Sprzatanie, NEW c \in Potomek,
         PotomekStep(c) \/ ExitHandler(c) \/ Dostarcz(c) \/ ExecNieudany(c)
  PROVE  Gotowy' /\ Sprzatanie'
<1>0. DOMAIN pc = Proces /\ main \in Proces
  BY DEF IInv, Liczby, Proces
<1>1. c # main
  BY PowielaczAssumption DEF Potomek, main
<1>2. /\ pc'[main] = pc[main] /\ wsk' = wsk
      /\ main \in martwe' <=> main \in martwe
      /\ main \in sprzatal' <=> main \in sprzatal
      /\ main \in domyslny' <=> main \in domyslny
      /\ nazwa' => nazwa
      /\ bledy \subseteq bledy'
  <2>1. CASE PotomekStep(c)
    BY <1>0, <1>1, <2>1 DEF PotomekStep, Exec, SemOpen, SemWait, Czytaj, OpenW, CloseW,
       SemPost, Skok, stanMain, sygnaly
  <2>2. CASE ExitHandler(c)
    BY <1>0, <1>1, <2>2 DEF ExitHandler, Skok, sygnaly
  <2>3. CASE Dostarcz(c)
    BY <1>0, <1>1, <2>3 DEF Dostarcz, Wyjdz, Skok
  <2>4. CASE ExecNieudany(c)
    BY <1>0, <1>1, <2>4 DEF ExecNieudany, Wyjdz, Skok, stanMain, sygnaly
  <2> QED BY <2>1, <2>2, <2>3, <2>4
<1> QED BY <1>2 DEF Gotowy, Sprzatanie

(* exit_handler in main, its signals, its failing fork, the second ./pow.  *)
LEMMA SprzatanieInne ==
  ASSUME IInv, Gotowy, Sprzatanie,
         ExitHandler(main) \/ Dostarcz(main) \/ MForkNieudany \/ CtrlC
         \/ DrugaOpen \/ DrugaClose
  PROVE  Gotowy' /\ Sprzatanie'
<1> USE DEF Gotowy, Sprzatanie, PrzedHandlerem, ZHandlerem
<1>0. DOMAIN pc = Proces /\ main \in Proces
  BY DEF IInv, Liczby, Proces
<1>1. CASE ExitHandler(main)
  BY <1>0, <1>1 DEF ExitHandler, Skok, sygnaly
<1>2. CASE Dostarcz(main)
  <2>1. /\ nazwa' = nazwa /\ wsk' = wsk /\ bledy \subseteq bledy' /\ main \notin martwe
        /\ pc[main] \in {"sem_adres", "exit_handler"} => "okno" \in bledy'
    BY <1>2 DEF Dostarcz, Zywy
  <2>2. CASE main \in domyslny
    BY <1>2, <2>1, <2>2 DEF Dostarcz
  <2>3. CASE main \notin domyslny
    <3>1. pc'[main] = (IF main \in sprzatal THEN "koniec" ELSE "exit_handler")
          /\ martwe' = martwe
      BY <1>0, <1>2, <2>3 DEF Dostarcz, Wyjdz, Skok
    <3> QED BY <2>1, <3>1
  <2> QED BY <2>2, <2>3
<1>3. CASE MForkNieudany
  BY <1>0, <1>3 DEF MForkNieudany, Wyjdz, Skok, sygnaly
<1>4. CASE CtrlC \/ DrugaOpen \/ DrugaClose
  BY <1>4 DEF CtrlC, DrugaOpen, DrugaClose, sygnaly
<1> QED BY <1>1, <1>2, <1>3, <1>4

LEMMA SprzatanieStep ==
  IInv /\ Gotowy /\ Sprzatanie /\ [Next]_vars => Gotowy' /\ Sprzatanie'
<1> SUFFICES ASSUME IInv, Gotowy, Sprzatanie, [Next]_vars
             PROVE  Gotowy' /\ Sprzatanie'
  OBVIOUS
<1>1. CASE UNCHANGED vars
  BY <1>1 DEF vars, sygnaly, Gotowy, Sprzatanie
<1>2. CASE MainStep
  BY <1>2, SprzatanieMain
<1>3. ASSUME NEW c \in Potomek,
             PotomekStep(c) \/ ExitHandler(c) \/ Dostarcz(c) \/ ExecNieudany(c)
      PROVE  Gotowy' /\ Sprzatanie'
  BY <1>3, SprzataniePotomek
<1>4. CASE ExitHandler(main) \/ Dostarcz(main) \/ MForkNieudany \/ CtrlC
           \/ DrugaOpen \/ DrugaClose
  BY <1>4, SprzatanieInne
<1> QED BY <1>1, <1>2, <1>3, <1>4 DEF Next, Krok, Zaklocenie, Proces

(* When all the processes have ended /semafor is gone, whatever has failed *)
(* and whenever Ctrl+C was pressed, if main was not hit in one of the two  *)
(* places where exit_handler is of no use.                                 *)
THEOREM BezWyciekuInv == Spec => []BezWycieku
<1>1. Sprzatanie => BezWycieku
  BY DEF Sprzatanie, ZHandlerem, BezWycieku, Koniec, Zywy, Proces
<1> QED BY <1>1, SprzatanieInit, SprzatanieStep, IInvInit, IInvStep, PTL DEF Spec

-----------------------------------------------------------------------------
(* The number main reads in the end, when nothing has gone wrong.          *)

\* No call has failed, no SIGINT was delivered, no second ./pow was started.
Spokoj == bledy = {} /\ druga = "brak"

\* The sections that have been counted.
Wykonane == {s \in Potomek \X (1..ilosc_sekcji) :
               s[2] < i[s[1]] \/ (s[2] = i[s[1]] /\ pc[s[1]] = "sem_post")}

\* Nobody is killed or in exit(), and a child ends after its last section.
Bezawaryjne == /\ martwe = {}
               /\ \A p \in Proces : pc[p] # "exit_handler"
               /\ pc[main] \in {"sem_adres", "fork", "wait"} => nazwa
               /\ \A c \in Potomek : pc[c] = "koniec" => i[c] = ilosc_sekcji + 1

\* Main waits for all its children, and nobody works while it does not.
Dzieci == /\ \A c \in Potomek : c <= forki => pc[c] # "brak"
          /\ pc[main] \in {"wait", "czytaj", "sem_unlink"} => forki = ilosc_pp
          /\ pc[main] \notin {"fork", "wait"}
               => \A c \in Potomek : pc[c] \in {"brak", "koniec"}

\* The file has the number of the sections performed.
Zliczone == /\ plik # Pusty => plik = Cardinality(Wykonane)
            /\ \A c \in Potomek : pc[c] = "close_w" => x[c] = Cardinality(Wykonane) + 1
            /\ pc[main] \in {"open_w", "close_w"} => Wykonane = {}
            /\ pc[main] = "sem_unlink" => y = Cardinality(Wykonane)

Gladko == Spokoj => Bezawaryjne /\ Dzieci /\ Zliczone

LEMMA WykonaneSkonczony == IsFiniteSet(Wykonane)
<1>1. IsFiniteSet(Potomek) /\ IsFiniteSet(1..ilosc_sekcji)
  BY PowielaczAssumption, FS_Interval DEF Potomek
<1>2. IsFiniteSet(Potomek \X (1..ilosc_sekcji))
  BY <1>1, FS_Product
<1>3. Wykonane \in SUBSET (Potomek \X (1..ilosc_sekcji))
  BY DEF Wykonane
<1> QED BY <1>2, <1>3, FS_Subset

(* Wykonane changes with its elements.                                     *)
LEMMA WykonaneRamka ==
  ASSUME \A c \in Potomek, k \in 1..ilosc_sekcji :
           (k < i'[c] \/ (k = i'[c] /\ pc'[c] = "sem_post"))
             <=> (k < i[c] \/ (k = i[c] /\ pc[c] = "sem_post"))
  PROVE  Wykonane' = Wykonane
  BY DEF Wykonane

LEMMA GladkoInit == Init => Gladko
<1> SUFFICES ASSUME Init PROVE Bezawaryjne /\ Dzieci /\ Zliczone
  BY DEF Gladko
<1>1. /\ martwe = {} /\ forki = 0 /\ plik = Pusty
      /\ i = [c \in Potomek |-> 1]
      /\ pc = [p \in Proces |-> IF p = main THEN "open_w" ELSE "brak"]
  BY DEF Init
<1>2. main \in Proces /\ \A c \in Potomek : c \in Proces /\ c # main
  BY PowielaczAssumption DEF Proces, Potomek, main
<1>3. pc[main] = "open_w" /\ \A c \in Potomek : pc[c] = "brak" /\ i[c] = 1
  BY <1>1, <1>2
<1>4. Bezawaryjne
  BY <1>1, <1>3, PowielaczAssumption DEF Bezawaryjne, Proces
<1>5. Dzieci
  BY <1>1, <1>3, PowielaczAssumption DEF Dzieci, Potomek
<1>6. Wykonane = {}
  BY <1>3 DEF Wykonane
<1> QED BY <1>1, <1>3, <1>4, <1>5, <1>6 DEF Zliczone

(* When a child is about to read, or main is, there is a number to read.   *)
LEMMA PlikPelny ==
  ASSUME IInv, Spokoj, Bezawaryjne, Dzieci,
         \/ \E c \in Potomek : pc[c] \in {"czytaj", "open_w"}
         \/ pc[main] = "czytaj"
  PROVE  plik # Pusty
<1> SUFFICES ASSUME plik = Pusty PROVE FALSE
  OBVIOUS
<1>1. pc[main] \in {"open_w", "close_w"} \/ \E d \in Potomek : pc[d] = "close_w"
  BY DEF IInv, Plik, Pelny, Spokoj
<1>2. CASE pc[main] = "czytaj"
  BY <1>1, <1>2 DEF Dzieci
<1>3. ASSUME NEW c \in Potomek, pc[c] \in {"czytaj", "open_w"} PROVE FALSE
  <2>1. pc[main] \in {"fork", "wait"}
    BY <1>3 DEF Dzieci
  <2> QED BY <1>1, <1>3, <2>1 DEF IInv, Straz, JedenWSekcji, WSekcji
<1> QED BY <1>2, <1>3

LEMMA GladkoMain ==
  ASSUME IInv, Spokoj, Bezawaryjne, Dzieci, Zliczone, MainStep
  PROVE  Bezawaryjne' /\ Dzieci' /\ Zliczone'
<1>0. /\ DOMAIN pc = Proces /\ main \in Proces
      /\ \A c \in Potomek : c \in Proces /\ c # main
      /\ forki \in 0..ilosc_pp
  BY PowielaczAssumption DEF IInv, Liczby, Proces, Potomek, main
<1>1. CASE ~ MFork
  <2>1. /\ pc[main] \notin {"brak", "koniec", "exit_handler"}
        /\ \A c \in Potomek : pc'[c] = pc[c]
        /\ UNCHANGED <<martwe, forki, i, x>>
    BY <1>0, <1>1 DEF MainStep, MOpen, MClose, MSignal, MSemOpen, MSemAdres, MWait,
       MCzytaj, MUnlink, Skok, Wyjdz, potomne
  <2>2. Wykonane' = Wykonane
    BY <2>1, WykonaneRamka
  <2>3. ASSUME /\ pc'[main] # "exit_handler"
               /\ pc'[main] \in {"sem_adres", "fork", "wait"} => nazwa'
               /\ pc'[main] \in {"wait", "czytaj", "sem_unlink"} => forki = ilosc_pp
               /\ pc'[main] \notin {"fork", "wait"}
                    => \A c \in Potomek : pc[c] \in {"brak", "koniec"}
               /\ plik' # Pusty => plik' = Cardinality(Wykonane)
               /\ pc'[main] \in {"open_w", "close_w"} => Wykonane = {}
               /\ pc'[main] = "sem_unlink" => y' = Cardinality(Wykonane)
        PROVE  Bezawaryjne' /\ Dzieci' /\ Zliczone'
    BY <1>0, <2>1, <2>2, <2>3 DEF Bezawaryjne, Dzieci, Zliczone, Proces
  <2>4. CASE MOpen \/ MClose
    <3>1. pc'[main] \in {"close_w", "signal"} /\ pc[main] \in {"open_w", "close_w"}
          /\ plik' \in {Pusty, 0} /\ y' = y
      BY <1>0, <2>4 DEF MOpen, MClose, Skok
    <3>2. Wykonane = {} /\ Cardinality(Wykonane) = 0
      BY <3>1, FS_EmptySet DEF Zliczone
    <3> QED BY <2>3, <3>1, <3>2 DEF Dzieci
  <2>5. CASE MSignal \/ MSemOpen \/ MSemAdres
    <3>1. /\ pc'[main] \in {"sem_open", "sem_adres", "fork"} /\ plik' = plik
          /\ pc'[main] \in {"sem_adres", "fork"} => nazwa'
          /\ pc[main] \notin {"fork", "wait"}
      BY <1>0, <2>5 DEF MSignal, MSemOpen, MSemAdres, Skok, Bezawaryjne
    <3> QED BY <2>3, <3>1 DEF Dzieci, Zliczone
  <2>6. CASE MWait
    <3>1. /\ pc'[main] = "czytaj" /\ pc[main] = "wait" /\ plik' = plik
          /\ \A c \in Potomek : ~ Zywy(c)
      BY <1>0, <2>6 DEF MWait, Skok
    <3>2. \A c \in Potomek : pc[c] \in {"brak", "koniec"}
      BY <3>1 DEF Zywy, Bezawaryjne
    <3> QED BY <2>3, <3>1, <3>2 DEF Dzieci, Zliczone
  <2>7. CASE MCzytaj
    <3>1. pc[main] = "czytaj"
      BY <2>7 DEF MCzytaj, Skok, Wyjdz
    <3>2. plik # Pusty
      BY <3>1, PlikPelny
    <3>3. pc'[main] = "sem_unlink" /\ plik' = plik /\ y' = plik
      BY <1>0, <2>7, <3>2 DEF MCzytaj, Skok
    <3> QED BY <2>3, <3>1, <3>2, <3>3 DEF Dzieci, Zliczone
  <2>8. CASE MUnlink
    <3>1. pc'[main] = "koniec" /\ pc[main] = "sem_unlink" /\ plik' = plik
      BY <1>0, <2>8 DEF MUnlink, Skok
    <3> QED BY <2>3, <3>1 DEF Dzieci, Zliczone
  <2> QED BY <1>1, <2>4, <2>5, <2>6, <2>7, <2>8 DEF MainStep
<1>2. CASE MFork
  <2> DEFINE n == forki + 1
  <2>1. /\ pc[main] = "fork" /\ n \in Potomek /\ n \in Nat
        /\ pc' = [pc EXCEPT ![n] = "przed_exec",
                            ![main] = IF n = ilosc_pp THEN "wait" ELSE @]
        /\ forki' = n
        /\ UNCHANGED <<plik, nazwa, martwe, i, x, y>>
    BY <1>0, <1>2, PowielaczAssumption DEF MFork, Potomek, potomne
  <2>2. pc[n] = "brak"
    BY <1>0, <2>1 DEF IInv, Kolejno
  <2>3. /\ pc'[main] = (IF n = ilosc_pp THEN "wait" ELSE "fork")
        /\ pc'[n] = "przed_exec"
        /\ \A c \in Potomek \ {n} : pc'[c] = pc[c]
    BY <1>0, <2>1
  <2>4. Wykonane' = Wykonane
    BY <2>1, <2>2, <2>3, WykonaneRamka
  <2>5. Bezawaryjne'
    BY <1>0, <2>1, <2>3 DEF Bezawaryjne, Proces
  <2>6. Dzieci'
    <3>1. ASSUME NEW c \in Potomek, c <= n PROVE pc'[c] # "brak"
      <4>1. c = n \/ c <= forki
        BY <1>0, <3>1 DEF Potomek
      <4> QED BY <2>1, <2>3, <4>1 DEF Dzieci
    <3> QED BY <2>1, <2>3, <3>1 DEF Dzieci
  <2>7. Zliczone'
    <3>1. \A c \in Potomek : pc'[c] = "close_w" => pc[c] = "close_w"
      BY <2>3
    <3>2. pc'[main] \in {"fork", "wait"}
      BY <2>3
    <3> HIDE DEF n
    <3> QED BY <2>1, <2>4, <3>1, <3>2 DEF Zliczone
  <2> QED BY <2>5, <2>6, <2>7
<1> QED BY <1>1, <1>2

LEMMA GladkoPotomek ==
  ASSUME IInv, Spokoj, Bezawaryjne, Dzieci, Zliczone,
         NEW c \in Potomek, PotomekStep(c)
  PROVE  Bezawaryjne' /\ Dzieci' /\ Zliczone'
<1>0. /\ DOMAIN pc = Proces /\ main \in Proces /\ c \in Proces /\ c # main
      /\ i[c] \in 1..ilosc_sekcji + 1 /\ DOMAIN i = Potomek /\ DOMAIN x = Potomek
      /\ \A d \in Potomek : d \in Proces /\ d # main
  BY PowielaczAssumption DEF IInv, Liczby, Proces, Potomek, main
<1>1. pc[c] \in {"przed_exec", "sem_open", "sem_wait", "czytaj", "open_w", "close_w",
                "sem_post"}
  BY DEF PotomekStep, Exec, SemOpen, SemWait, Czytaj, OpenW, CloseW, SemPost, Skok
<1>2. pc[main] \in {"fork", "wait"} /\ nazwa
  BY <1>1 DEF Dzieci, Bezawaryjne
<1>3. /\ pc'[main] = pc[main] /\ \A d \in Proces \ {c} : pc'[d] = pc[d]
      /\ UNCHANGED <<nazwa, martwe, forki, y>>
  BY <1>0 DEF PotomekStep, Exec, SemOpen, SemWait, Czytaj, OpenW, CloseW, SemPost,
     Skok, stanMain
<1>4. ASSUME /\ pc'[c] \notin {"exit_handler", "brak"}
             /\ \A d \in Potomek \ {c} : i'[d] = i[d] /\ x'[d] = x[d]
             /\ pc'[c] = "koniec" => i'[c] = ilosc_sekcji + 1
             /\ plik' # Pusty => plik' = Cardinality(Wykonane')
             /\ \A d \in Potomek : pc'[d] = "close_w" => x'[d] = Cardinality(Wykonane') + 1
      PROVE  Bezawaryjne' /\ Dzieci' /\ Zliczone'
  <2>1. Bezawaryjne'
    BY <1>0, <1>2, <1>3, <1>4 DEF Bezawaryjne, Proces
  <2>2. Dzieci'
    BY <1>0, <1>2, <1>3, <1>4 DEF Dzieci
  <2>3. Zliczone'
    BY <1>2, <1>3, <1>4 DEF Zliczone
  <2> QED BY <2>1, <2>2, <2>3
<1>5. CASE Exec(c) \/ SemOpen(c) \/ SemWait(c)
  <2>1. /\ pc'[c] \in {"sem_open", "sem_wait", "czytaj"} /\ pc[c] # "sem_post"
        /\ UNCHANGED <<plik, i, x>>
    BY <1>0, <1>2, <1>5 DEF Exec, SemOpen, SemWait, Skok, potomne
  <2>2. Wykonane' = Wykonane
    BY <1>0, <1>3, <2>1, WykonaneRamka
  <2> QED BY <1>0, <1>3, <1>4, <2>1, <2>2 DEF Zliczone
<1>6. CASE Czytaj(c)
  <2>1. plik # Pusty
    BY <1>6, PlikPelny DEF Czytaj, Skok
  <2>2. /\ pc'[c] = "open_w" /\ pc[c] = "czytaj" /\ UNCHANGED <<plik, i>>
        /\ x' = [x EXCEPT ![c] = plik + 1]
    BY <1>0, <1>6, <2>1 DEF Czytaj, Skok
  <2>3. Wykonane' = Wykonane
    BY <1>0, <1>3, <2>2, WykonaneRamka
  <2> QED BY <1>0, <1>3, <1>4, <2>2, <2>3 DEF Zliczone
<1>7. CASE OpenW(c)
  <2>1. /\ pc'[c] = "close_w" /\ pc[c] = "open_w" /\ UNCHANGED <<i, x>>
        /\ plik' = Pusty
    BY <1>0, <1>7 DEF OpenW, Skok, potomne
  <2>2. Wykonane' = Wykonane
    BY <1>0, <1>3, <2>1, WykonaneRamka
  <2>3. x[c] = Cardinality(Wykonane) + 1
    <3>1. plik # Pusty
      BY <2>1, PlikPelny
    <3> QED BY <2>1, <3>1 DEF IInv, Plik, WPliku, Spokoj, Zliczone
  <2> QED BY <1>0, <1>3, <1>4, <2>1, <2>2, <2>3 DEF Zliczone
<1>8. CASE CloseW(c)
  <2>1. /\ pc'[c] = "sem_post" /\ pc[c] = "close_w" /\ UNCHANGED <<i, x>>
        /\ plik' = x[c]
    BY <1>0, <1>8 DEF CloseW, Skok, potomne
  <2>2. i[c] \in 1..ilosc_sekcji
    BY <1>0, <2>1, PowielaczAssumption DEF IInv, Sekcje
  <2> DEFINE s == <<c, i[c]>>
  <2>3. s \notin Wykonane
    BY <2>1, <2>2 DEF Wykonane
  <2>4. Wykonane' = Wykonane \cup {s}
    <3>1. \A d \in Potomek, k \in 1..ilosc_sekcji :
            (k < i'[d] \/ (k = i'[d] /\ pc'[d] = "sem_post"))
              <=> (k < i[d] \/ (k = i[d] /\ pc[d] = "sem_post") \/ <<d, k>> = s)
      BY <1>0, <1>3, <2>1
    <3> QED BY <2>2, <3>1 DEF Wykonane
  <2>5. Cardinality(Wykonane') = Cardinality(Wykonane) + 1
    BY <2>3, <2>4, WykonaneSkonczony, FS_AddElement
  <2>6. \A d \in Potomek : pc'[d] # "close_w"
    BY <1>0, <1>3, <2>1 DEF IInv, Straz, JedenWSekcji, WSekcji
  <2> QED BY <1>4, <2>1, <2>5, <2>6 DEF Zliczone
<1>9. CASE SemPost(c)
  <2>1. /\ pc'[c] = (IF i[c] < ilosc_sekcji THEN "sem_wait" ELSE "koniec")
        /\ pc[c] = "sem_post" /\ UNCHANGED <<plik, x>>
        /\ i' = [i EXCEPT ![c] = @ + 1]
    BY <1>0, <1>9 DEF SemPost, Skok
  <2>2. i[c] \in 1..ilosc_sekcji
    BY <1>0, <2>1, PowielaczAssumption DEF IInv, Sekcje
  <2>3. Wykonane' = Wykonane
    <3>1. ASSUME NEW d \in Potomek, NEW k \in 1..ilosc_sekcji
          PROVE  (k < i'[d] \/ (k = i'[d] /\ pc'[d] = "sem_post"))
                   <=> (k < i[d] \/ (k = i[d] /\ pc[d] = "sem_post"))
      <4>1. CASE d = c
        BY <1>0, <2>1, <2>2, <4>1, PowielaczAssumption
      <4>2. CASE d # c
        BY <1>0, <1>3, <2>1, <4>2
      <4> QED BY <4>1, <4>2
    <3> QED BY <3>1, WykonaneRamka
  <2>4. pc'[c] = "koniec" => i'[c] = ilosc_sekcji + 1
    BY <1>0, <2>1, <2>2, PowielaczAssumption
  <2> QED BY <1>0, <1>3, <1>4, <2>1, <2>3, <2>4 DEF Zliczone
<1> QED BY <1>5, <1>6, <1>7, <1>8, <1>9 DEF PotomekStep

(* A step after which nothing has gone wrong is one of the ordinary ones.  *)
LEMMA GladkoStep == IInv /\ Gladko /\ [Next]_vars => Gladko'
<1> SUFFICES ASSUME IInv, Gladko, [Next]_vars, Spokoj'
             PROVE  Bezawaryjne' /\ Dzieci' /\ Zliczone'
  BY DEF Gladko
<1>1. CASE UNCHANGED vars \/ CtrlC
  <2>1. UNCHANGED <<plik, nazwa, pc, martwe, forki, y, i, x, bledy, druga>>
    BY <1>1 DEF CtrlC, vars, potomne
  <2>2. Wykonane' = Wykonane
    BY <2>1 DEF Wykonane
  <2> QED BY <2>1, <2>2 DEF Gladko, Spokoj, Bezawaryjne, Dzieci, Zliczone
<1>2. CASE MainStep
  <2>1. Spokoj
    BY <1>2 DEF Spokoj, MainStep, MOpen, MClose, MSignal, MSemOpen, MSemAdres, MFork,
       MWait, MCzytaj, MUnlink
  <2> QED BY <1>2, <2>1, GladkoMain DEF Gladko
<1>3. ASSUME NEW c \in Potomek, PotomekStep(c)
      PROVE  Bezawaryjne' /\ Dzieci' /\ Zliczone'
  <2>1. Spokoj
    BY <1>3 DEF Spokoj, PotomekStep, Exec, SemOpen, SemWait, Czytaj, OpenW, CloseW,
       SemPost, stanMain
  <2> QED BY <1>3, <2>1, GladkoPotomek DEF Gladko
<1>4. ASSUME NEW p \in Proces, ExitHandler(p) PROVE FALSE
  BY <1>4 DEF ExitHandler, Skok, Spokoj, Gladko, Bezawaryjne
<1>5. ASSUME NEW p \in Proces, Dostarcz(p) PROVE FALSE
  BY <1>5 DEF Dostarcz, Spokoj
<1>6. ASSUME MForkNieudany \/ DrugaOpen \/ DrugaClose
             \/ \E c \in Potomek : ExecNieudany(c)
      PROVE  FALSE
  BY <1>6 DEF MForkNieudany, DrugaOpen, DrugaClose, ExecNieudany, Spokoj
<1> QED BY <1>1, <1>2, <1>3, <1>4, <1>5, <1>6 DEF Next, Krok, Zaklocenie

(* Line 118 of powielacz.c: when no call failed, nobody pressed Ctrl+C and *)
(* no second ./pow was started, main reads ilosc_pp * ilosc_sekcji: each   *)
(* section of each child is in the number once.                            *)
THEOREM WynikInv == Spec => []WynikZgodny
<1>1. IInv /\ Gladko => WynikZgodny
  <2> SUFFICES ASSUME IInv, Gladko, pc[main] = "sem_unlink", bledy = {}, druga = "brak"
               PROVE  y = ilosc_pp * ilosc_sekcji
    BY DEF WynikZgodny
  <2>1. Bezawaryjne /\ Dzieci /\ Zliczone
    BY DEF Gladko, Spokoj
  <2>2. \A c \in Potomek : i[c] = ilosc_sekcji + 1
    <3>1. forki = ilosc_pp
      BY <2>1 DEF Dzieci
    <3>2. \A c \in Potomek : pc[c] = "koniec"
      BY <2>1, <3>1, PowielaczAssumption DEF Dzieci, Potomek
    <3> QED BY <2>1, <3>2 DEF Bezawaryjne
  <2>3. Wykonane = Potomek \X (1..ilosc_sekcji)
    BY <2>2, PowielaczAssumption DEF Wykonane
  <2>4. /\ IsFiniteSet(Potomek) /\ Cardinality(Potomek) = ilosc_pp
        /\ IsFiniteSet(1..ilosc_sekcji) /\ Cardinality(1..ilosc_sekcji) = ilosc_sekcji
    BY PowielaczAssumption, FS_Interval DEF Potomek
  <2>5. Cardinality(Potomek \X (1..ilosc_sekcji)) = ilosc_pp * ilosc_sekcji
    BY <2>4, FS_Product
  <2> QED BY <2>1, <2>3, <2>5 DEF Zliczone
<1> QED BY <1>1, GladkoInit, GladkoStep, IInvInit, IInvStep, PTL DEF Spec

-----------------------------------------------------------------------------
(* The program ends, as far as fairness is not needed to show it: every    *)
(* step is one of finitely many, and as long as no second ./pow interferes *)
(* somebody can make one.                                                  *)

(* The steps a process has left at most.                                   *)
ResztaMain == IF main \in martwe THEN 0
              ELSE CASE pc[main] = "open_w"       -> ilosc_pp + 9
                     [] pc[main] = "close_w"      -> ilosc_pp + 8
                     [] pc[main] = "signal"       -> ilosc_pp + 7
                     [] pc[main] = "sem_open"     -> ilosc_pp + 6
                     [] pc[main] = "sem_adres"    -> ilosc_pp + 5
                     [] pc[main] = "fork"         -> ilosc_pp - forki + 4
                     [] pc[main] = "wait"         -> 4
                     [] pc[main] = "czytaj"       -> 3
                     [] pc[main] = "sem_unlink"   -> 2
                     [] pc[main] = "exit_handler" -> 1
                     [] OTHER                     -> 0

WSekcjach(c) == 5 * (ilosc_sekcji - i[c] + 1)
Reszta(c) == IF c \in martwe THEN 0
             ELSE CASE pc[c] = "brak"         -> 5 * ilosc_sekcji + 5
                    [] pc[c] = "przed_exec"   -> 5 * ilosc_sekcji + 4
                    [] pc[c] = "sem_open"     -> 5 * ilosc_sekcji + 3
                    [] pc[c] = "sem_wait"     -> WSekcjach(c) + 2
                    [] pc[c] = "czytaj"       -> WSekcjach(c) + 1
                    [] pc[c] = "open_w"       -> WSekcjach(c)
                    [] pc[c] = "close_w"      -> WSekcjach(c) - 1
                    [] pc[c] = "sem_post"     -> WSekcjach(c) - 2
                    [] pc[c] = "exit_handler" -> 1
                    [] OTHER                  -> 0

(* How often somebody can still interfere: Ctrl+C and a second ./pow.      *)
Zaklocen == MaxSigint - wyslane
              + IF druga = "brak" THEN 2 ELSE IF druga = "pisze" THEN 1 ELSE 0

Naturalne == /\ ResztaMain \in Nat /\ Zaklocen \in Nat
             /\ \A c \in Potomek : Reszta(c) \in Nat

Ubylo == /\ ResztaMain' <= ResztaMain /\ Zaklocen' <= Zaklocen
         /\ \A c \in Potomek : Reszta(c)' <= Reszta(c)
         /\ \/ ResztaMain' < ResztaMain \/ Zaklocen' < Zaklocen
            \/ \E c \in Potomek : Reszta(c)' < Reszta(c)
Ubywa == [][Ubylo]_vars

(* A process that has no SIGINT to serve waits for the semaphore or, main, *)
(* for its children; at fork() it always has one more to start.            *)
Czeka(p) == /\ p \notin zalegle
            /\ \/ p \in Potomek /\ pc[p] = "sem_wait" /\ semafor = 0
               \/ p = main /\ pc[p] = "wait" /\ \E c \in Potomek : Zywy(c)
               \/ p = main /\ pc[p] = "fork" /\ forki = ilosc_pp
BezZakleszczenia == ~ Koniec /\ druga = "brak"
                      => \E p \in Proces : Zywy(p) /\ ~ Czeka(p)

(* A semaphore at 0 has a child in the section.                            *)
Trzymany == druga = "brak" /\ semafor = 0 => WSekcji # {}

(* Without Ctrl+C nobody is killed; after it, whoever lives has SIGINT to  *)
(* serve or is in exit_handler, and main starts no more children.          *)
Ogloszony ==
  /\ wyslane = 0 => martwe = {} /\ zalegle = {}
  /\ wyslane > 0 => \A p \in Proces :
       Zywy(p) => p \in zalegle \/ pc[p] = "exit_handler"

(* main forks until it has all its children; who is in exit_handler has    *)
(* called exit().                                                          *)
Miejsca == /\ pc[main] = "fork" => forki < ilosc_pp
           /\ \A p \in Proces : pc[p] = "exit_handler" => p \in sprzatal
           /\ pc[main] \notin {"brak", "przed_exec", "sem_wait", "sem_post"}
           /\ \A c \in Potomek : pc[c] \notin {"signal", "sem_adres", "fork", "wait", "sem_unlink"}
(* The processes are main and its children, and main is none of these.     *)
LEMMA ProcesyFakt == /\ main \in Proces /\ main \notin Potomek /\ Potomek \subseteq Proces
                     /\ \A p \in Proces : p = main \/ p \in Potomek
BY PowielaczAssumption DEF Proces, Potomek, main

(* One step of one process moves that process only.                        *)
LEMMA SkokFakt ==
  ASSUME Liczby, NEW p \in Proces, NEW skad, NEW dokad, Skok(p, skad, dokad)
  PROVE  /\ p \notin martwe /\ pc[p] = skad /\ pc'[p] = dokad
         /\ \A q \in Proces : q # p => pc'[q] = pc[q]
BY DEF Skok, Liczby

(* So does exit(), which is called once.                                   *)
LEMMA WyjdzFakt ==
  ASSUME Liczby, NEW p \in Proces, NEW skad, Wyjdz(p, skad)
  PROVE  /\ Skok(p, skad, IF p \in sprzatal THEN "koniec" ELSE "exit_handler")
         /\ sprzatal' = sprzatal \cup {p}
BY DEF Wyjdz

(* Where a process may go, so that Ogloszony and Miejsca remain.           *)
LEMMA PoSkoku ==
  ASSUME Liczby, Ogloszony, Miejsca, NEW p \in Proces, NEW skad, NEW dokad,
         Skok(p, skad, dokad), skad \notin {"brak", "koniec"},
         skad = "exit_handler" => dokad = "koniec",
         UNCHANGED <<martwe, zalegle, wyslane, forki>>, sprzatal \subseteq sprzatal',
         dokad = "exit_handler" => p \in sprzatal',
         p = main => /\ dokad \notin {"brak", "przed_exec", "sem_wait", "sem_post"}
                     /\ dokad = "fork" => forki < ilosc_pp,
         p # main => dokad \notin {"signal", "sem_adres", "fork", "wait", "sem_unlink"}
  PROVE  Ogloszony' /\ Miejsca'
<1>1. /\ p \notin martwe /\ pc[p] = skad /\ pc'[p] = dokad
      /\ \A q \in Proces : q # p => pc'[q] = pc[q]
  BY SkokFakt
<1>2. Ogloszony'
  BY <1>1 DEF Ogloszony, Zywy
<1>3. \A c \in Potomek :
        pc'[c] \notin {"signal", "sem_adres", "fork", "wait", "sem_unlink"}
  BY <1>1, ProcesyFakt DEF Miejsca
<1>4. \A q \in Proces : pc'[q] = "exit_handler" => q \in sprzatal'
  BY <1>1 DEF Miejsca
<1>5. /\ pc'[main] \notin {"brak", "przed_exec", "sem_wait", "sem_post"}
      /\ pc'[main] = "fork" => forki' < ilosc_pp
  BY <1>1, ProcesyFakt DEF Miejsca
<1> QED BY <1>2, <1>3, <1>4, <1>5 DEF Miejsca

(* The steps of main.                                                      *)
LEMMA OgloszonyMain ==
  ASSUME IInv, Ogloszony, Miejsca, MainStep \/ MForkNieudany
  PROVE  Ogloszony' /\ Miejsca'
<1>0. Liczby /\ main \in Proces
  BY ProcesyFakt DEF IInv
<1>1. CASE MOpen
  BY <1>0, <1>1, PoSkoku DEF MOpen, sygnaly
<1>2. CASE MClose
  BY <1>0, <1>2, PoSkoku DEF MClose, sygnaly
<1>3. CASE MSignal
  BY <1>0, <1>3, PoSkoku DEF MSignal
<1>4. CASE MSemOpen
  BY <1>0, <1>4, PoSkoku DEF MSemOpen, sygnaly
<1>5. CASE MSemAdres
  <2>1. forki < ilosc_pp
    BY <1>5, PowielaczAssumption DEF MSemAdres, Skok, IInv, Kolejno
  <2> QED BY <1>0, <1>5, <2>1, PoSkoku DEF MSemAdres, sygnaly
<1>6. CASE MFork
  <2>1. /\ forki + 1 \in Potomek /\ forki + 1 # main /\ forki \in Nat /\ ilosc_pp \in Nat
        /\ pc' = [pc EXCEPT ![forki + 1] = "przed_exec",
                            ![main] = IF forki + 1 = ilosc_pp THEN "wait" ELSE @]
    BY <1>0, <1>6, PowielaczAssumption DEF MFork, Liczby, Potomek, main
  <2>2. /\ pc'[forki + 1] = "przed_exec"
        /\ pc'[main] = (IF forki + 1 = ilosc_pp THEN "wait" ELSE "fork")
        /\ \A q \in Proces : q # forki + 1 /\ q # main => pc'[q] = pc[q]
    BY <1>0, <1>6, <2>1, ProcesyFakt DEF MFork, Liczby
  <2>3. wyslane = 0 /\ UNCHANGED <<martwe, zalegle, wyslane, sprzatal>>
    BY <1>0, <1>6 DEF MFork, Ogloszony, Zywy, Liczby, sygnaly
  <2>4. Ogloszony'
    BY <2>3 DEF Ogloszony
  <2>5. forki' = forki + 1 /\ (pc'[main] = "fork" => forki' < ilosc_pp)
    BY <1>0, <1>6, <2>1, <2>2 DEF MFork, Liczby
  <2>6. Miejsca'
    <3>1. \A q \in Proces : pc'[q] = "exit_handler" => q \in sprzatal'
      BY <2>2, <2>3 DEF Miejsca
    <3>2. \A c \in Potomek :
            pc'[c] \notin {"signal", "sem_adres", "fork", "wait", "sem_unlink"}
      BY <2>2, ProcesyFakt DEF Miejsca
    <3>3. pc'[main] \in {"fork", "wait"}
      BY <2>2
    <3> QED BY <2>5, <3>1, <3>2, <3>3 DEF Miejsca
  <2> QED BY <2>4, <2>6
<1>7. CASE MWait
  BY <1>0, <1>7, PoSkoku DEF MWait, sygnaly
<1>8. CASE MCzytaj
  <2>1. CASE plik = Pusty
    <3>1. /\ Skok(main, "czytaj", IF main \in sprzatal THEN "koniec" ELSE "exit_handler")
          /\ sprzatal' = sprzatal \cup {main}
      BY <1>0, <1>8, <2>1, WyjdzFakt DEF MCzytaj
    <3> QED BY <1>0, <1>8, <3>1, PoSkoku DEF MCzytaj, sygnaly
  <2>2. CASE plik # Pusty
    BY <1>0, <1>8, <2>2, PoSkoku DEF MCzytaj, sygnaly
  <2> QED BY <2>1, <2>2
<1>9. CASE MUnlink
  BY <1>0, <1>9, PoSkoku DEF MUnlink, sygnaly
<1>10. CASE MForkNieudany
  <2>1. /\ Skok(main, "fork", IF main \in sprzatal THEN "koniec" ELSE "exit_handler")
        /\ sprzatal' = sprzatal \cup {main}
    BY <1>0, <1>10, WyjdzFakt DEF MForkNieudany
  <2> QED BY <1>0, <1>10, <2>1, PoSkoku DEF MForkNieudany, sygnaly
<1> QED BY <1>1, <1>2, <1>3, <1>4, <1>5, <1>6, <1>7, <1>8, <1>9, <1>10 DEF MainStep

(* Those of a child.                                                       *)
LEMMA OgloszonyPotomek ==
  ASSUME IInv, Ogloszony, Miejsca, NEW c \in Potomek, PotomekStep(c) \/ ExecNieudany(c)
  PROVE  Ogloszony' /\ Miejsca'
<1>0. Liczby /\ c \in Proces /\ c # main
  BY ProcesyFakt DEF IInv
<1> USE <1>0 DEF stanMain, sygnaly
<1>1. CASE Exec(c)
  BY <1>1, PoSkoku DEF Exec
<1>2. CASE SemOpen(c)
  BY <1>2, PoSkoku DEF SemOpen
<1>3. CASE SemWait(c)
  BY <1>3, PoSkoku DEF SemWait
<1>4. CASE Czytaj(c)
  <2>1. CASE plik = Pusty
    BY <1>4, <2>1, PoSkoku DEF Czytaj
  <2>2. CASE plik # Pusty
    BY <1>4, <2>2, PoSkoku DEF Czytaj
  <2> QED BY <2>1, <2>2
<1>5. CASE OpenW(c)
  BY <1>5, PoSkoku DEF OpenW
<1>6. CASE CloseW(c)
  BY <1>6, PoSkoku DEF CloseW
<1>7. CASE SemPost(c)
  BY <1>7, PoSkoku DEF SemPost
<1>8. CASE ExecNieudany(c)
  <2>1. /\ Skok(c, "przed_exec", IF c \in sprzatal THEN "koniec" ELSE "exit_handler")
        /\ sprzatal' = sprzatal \cup {c}
    BY <1>8, WyjdzFakt DEF ExecNieudany
  <2> QED BY <1>8, <2>1, PoSkoku DEF ExecNieudany
<1> QED BY <1>1, <1>2, <1>3, <1>4, <1>5, <1>6, <1>7, <1>8 DEF PotomekStep

(* A Ctrl+C, what it does to a process, and the second ./pow.              *)
LEMMA OgloszonyInne ==
  ASSUME IInv, Ogloszony, Miejsca, CtrlC \/ DrugaOpen \/ DrugaClose
         \/ \E p \in Proces : ExitHandler(p) \/ Dostarcz(p)
  PROVE  Ogloszony' /\ Miejsca'
<1>0. Liczby
  BY DEF IInv
<1>1. CASE CtrlC
  <2>1. wyslane' > 0 /\ zalegle' = zalegle \cup {p \in Proces : Zywy(p)}
    BY <1>0, <1>1 DEF CtrlC, Liczby
  <2>2. Ogloszony'
    BY <1>1, <2>1 DEF CtrlC, Ogloszony, Zywy
  <2>3. Miejsca'
    BY <1>1 DEF CtrlC, Miejsca
  <2> QED BY <2>2, <2>3
<1>2. CASE DrugaOpen \/ DrugaClose
  BY <1>2 DEF DrugaOpen, DrugaClose, Ogloszony, Miejsca, Zywy, sygnaly
<1>3. ASSUME NEW p \in Proces, ExitHandler(p)
      PROVE  Ogloszony' /\ Miejsca'
  BY <1>0, <1>3, PoSkoku DEF ExitHandler, sygnaly
<1>4. ASSUME NEW p \in Proces, Dostarcz(p)
      PROVE  Ogloszony' /\ Miejsca'
  <2>1. wyslane > 0 /\ wyslane' = wyslane /\ forki' = forki /\ Zywy(p)
        /\ zalegle' = zalegle \ {p}
    BY <1>0, <1>4 DEF Dostarcz, Ogloszony, Liczby
  <2>2. CASE martwe' = martwe \cup {p} /\ UNCHANGED <<pc, sprzatal>>
    <3>1. Ogloszony'
      BY <2>1, <2>2 DEF Ogloszony, Zywy
    <3> QED BY <2>1, <2>2, <3>1 DEF Miejsca
  <2>3. CASE Wyjdz(p, pc[p]) /\ martwe' = martwe
    <3>1. /\ pc'[p] = IF p \in sprzatal THEN "koniec" ELSE "exit_handler"
          /\ \A q \in Proces : q # p => pc'[q] = pc[q]
          /\ sprzatal' = sprzatal \cup {p}
      BY <1>0, <2>3, WyjdzFakt, SkokFakt
    <3>2. Ogloszony'
      BY <2>1, <2>3, <3>1 DEF Ogloszony, Zywy
    <3>3. Miejsca'
      BY <2>1, <3>1, ProcesyFakt DEF Miejsca
    <3> QED BY <3>2, <3>3
  <2> QED BY <1>4, <2>2, <2>3 DEF Dostarcz
<1> QED BY <1>1, <1>2, <1>3, <1>4

(* Nobody leaves the section but for sem_post(), and nobody who is not     *)
(* alone in it makes the semaphore 0.                                      *)
LEMMA TrzymanyStep ==
  ASSUME IInv, Trzymany, [Next]_vars
  PROVE  Trzymany'
<1> SUFFICES ASSUME druga' = "brak", semafor' = 0
             PROVE  WSekcji' # {}
  BY DEF Trzymany
<1>0. Liczby /\ druga = "brak"
  BY DrugaBrak DEF IInv
<1>1. ASSUME NEW p \in Proces, semafor' = semafor,
             \A q \in Proces : q # p => pc'[q] = pc[q] \/ pc[q] = "brak",
             p \in WSekcji => p \in WSekcji'
      PROVE  WSekcji' # {}
  <2>1. PICK c \in Potomek : c \in WSekcji
    BY <1>0, <1>1 DEF Trzymany, WSekcji
  <2>2. c \in WSekcji'
    BY <1>1, <2>1, ProcesyFakt DEF WSekcji
  <2> QED BY <2>2
<1>2. ASSUME NEW c \in Potomek, PotomekStep(c)
      PROVE  WSekcji' # {}
  <2>0. c \in Proces
    BY ProcesyFakt
  <2>1. CASE Exec(c) \/ SemOpen(c) \/ OpenW(c) \/ CloseW(c)
    <3>1. PICK skad, dokad : /\ Skok(c, skad, dokad) /\ semafor' = semafor
                             /\ c \in WSekcji => dokad \in {"close_w", "sem_post"}
      BY <2>1 DEF Exec, SemOpen, OpenW, CloseW, WSekcji, Skok
    <3>2. pc'[c] = dokad /\ \A q \in Proces : q # c => pc'[q] = pc[q]
      BY <1>0, <2>0, <3>1, SkokFakt
    <3> QED BY <1>1, <2>0, <3>1, <3>2 DEF WSekcji
  <2>2. CASE SemWait(c)
    <3>1. pc'[c] = "czytaj"
      BY <1>0, <2>0, <2>2, SkokFakt DEF SemWait
    <3> QED BY <3>1 DEF WSekcji
  <2>3. CASE Czytaj(c)
    <3>1. pc[c] = "czytaj" /\ semafor' = semafor
      BY <2>3 DEF Czytaj, Skok
    <3>2. plik # Pusty
      <4>1. pc[main] \notin {"open_w", "close_w"}
        BY <3>1 DEF IInv, Kolejno, Potomek
      <4>2. \A d \in Potomek : pc[d] # "close_w"
        BY <3>1 DEF IInv, Straz, JedenWSekcji, WSekcji
      <4> QED BY <1>0, <4>1, <4>2 DEF IInv, Plik, Pelny
    <3>3. pc'[c] = "open_w" /\ \A q \in Proces : q # c => pc'[q] = pc[q]
      BY <1>0, <2>0, <2>3, <3>2, SkokFakt DEF Czytaj
    <3> QED BY <3>3 DEF WSekcji
  <2>4. CASE SemPost(c)
    <3>1. semafor = 0
      BY <2>4 DEF SemPost, Skok, IInv, Straz, WSekcji
    <3> QED BY <2>4, <3>1 DEF SemPost
  <2> QED BY <1>2, <2>1, <2>2, <2>3, <2>4 DEF PotomekStep
<1>3. CASE MainStep \/ MForkNieudany
  <2>1. semafor' = semafor \/ semafor' = 1
    BY <1>3 DEF MainStep, MOpen, MClose, MSignal, MSemOpen, MSemAdres, MFork, MWait,
                MCzytaj, MUnlink, MForkNieudany
  <2>2. CASE MFork
    <3>1. /\ forki + 1 \in Potomek /\ pc[forki + 1] = "brak"
          /\ pc' = [pc EXCEPT ![forki + 1] = "przed_exec",
                              ![main] = IF forki + 1 = ilosc_pp THEN "wait" ELSE @]
      BY <2>2, PowielaczAssumption DEF MFork, IInv, Liczby, Kolejno, Potomek
    <3>2. \A q \in Proces : q # main => pc'[q] = pc[q] \/ pc[q] = "brak"
      BY <1>0, <3>1 DEF Liczby
    <3> QED BY <1>1, <2>1, <3>2, ProcesyFakt DEF WSekcji
  <2>3. CASE ~ MFork
    <3>1. \E skad, dokad : Skok(main, skad, dokad)
      BY <1>3, <2>3 DEF MainStep, MOpen, MClose, MSignal, MSemOpen, MSemAdres, MWait,
                        MCzytaj, MUnlink, MForkNieudany, Wyjdz
    <3>2. \A q \in Proces : q # main => pc'[q] = pc[q]
      BY <1>0, <3>1, ProcesyFakt, SkokFakt
    <3> QED BY <1>1, <2>1, <3>2, ProcesyFakt DEF WSekcji
  <2> QED BY <2>2, <2>3
<1>4. ASSUME NEW p \in Proces,
             ExitHandler(p) \/ Dostarcz(p) \/ (p \in Potomek /\ ExecNieudany(p))
      PROVE  WSekcji' # {}
  <2>1. semafor' = semafor
    BY <1>4 DEF ExitHandler, Dostarcz, ExecNieudany, stanMain
  <2>2. \/ pc' = pc
        \/ /\ p = main \/ pc[p] \in {"przed_exec", "exit_handler"}
           /\ \E skad, dokad : Skok(p, skad, dokad)
    BY <1>4 DEF ExitHandler, Dostarcz, ExecNieudany, Wyjdz, Skok
  <2>3. \A q \in Proces : q # p => pc'[q] = pc[q]
    BY <1>0, <2>2, SkokFakt
  <2>4. p \in WSekcji => p \in WSekcji'
    BY <2>2, ProcesyFakt DEF WSekcji
  <2> QED BY <1>1, <2>1, <2>3, <2>4
<1>5. CASE CtrlC \/ DrugaOpen \/ DrugaClose \/ UNCHANGED vars
  <2>1. pc' = pc /\ semafor' = semafor
    BY <1>5 DEF CtrlC, DrugaOpen, DrugaClose, vars
  <2> QED BY <1>1, <2>1, ProcesyFakt DEF WSekcji
<1> QED BY <1>2, <1>3, <1>4, <1>5, ProcesyFakt DEF Next, Krok, Zaklocenie

(* The three hold in every reachable state.                                *)
PInv == IInv /\ Trzymany /\ Ogloszony /\ Miejsca

LEMMA PInvNiezmiennik == Spec => []PInv
<1>1. Init => Trzymany /\ Ogloszony /\ Miejsca
  <2> SUFFICES ASSUME Init PROVE Trzymany /\ Ogloszony /\ Miejsca
    OBVIOUS
  <2>1. pc[main] = "open_w" /\ \A c \in Potomek : pc[c] = "brak"
    BY ProcesyFakt DEF Init
  <2>2. semafor = 1 /\ wyslane = 0 /\ martwe = {} /\ zalegle = {}
    BY DEF Init
  <2> QED BY <2>1, <2>2, ProcesyFakt DEF Trzymany, Ogloszony, Miejsca
<1>2. PInv /\ [Next]_vars => PInv'
  <2> SUFFICES ASSUME PInv, [Next]_vars PROVE PInv'
    OBVIOUS
  <2>1. IInv' /\ Trzymany'
    BY IInvStep, TrzymanyStep DEF PInv
  <2>2. Ogloszony' /\ Miejsca'
    <3>1. CASE UNCHANGED vars
      BY <3>1 DEF vars, sygnaly, PInv, Ogloszony, Miejsca, Zywy
    <3>2. CASE Next
      BY <3>2, OgloszonyMain, OgloszonyPotomek, OgloszonyInne
      DEF PInv, Next, Krok, Zaklocenie
    <3> QED BY <3>1, <3>2
  <2> QED BY <2>1, <2>2 DEF PInv
<1> QED BY <1>1, <1>2, IInvInit, PTL DEF Spec, PInv

(* Whatever Ctrl+C, failing calls and the order of the processes do, as    *)
(* long as no second ./pow writes to the file, the processes of powielacz  *)
(* and potomne never wait for each other: a child that waits for the       *)
(* semaphore waits for one in the section that goes on, or has a SIGINT    *)
(* that ends it; and main waits for a child that does.                     *)
THEOREM BezZakleszczeniaInv == Spec => []BezZakleszczenia
<1>1. PInv => BezZakleszczenia
  <2> SUFFICES ASSUME PInv, druga = "brak", NEW p \in Proces, Zywy(p), Czeka(p)
               PROVE  \E q \in Proces : Zywy(q) /\ ~ Czeka(q)
    BY DEF BezZakleszczenia, Koniec
  <2>0. Liczby /\ Trzymany /\ Ogloszony /\ Miejsca
    BY DEF PInv, IInv
  <2>1. wyslane = 0
    BY <2>0 DEF Ogloszony, Czeka, Liczby
  <2>2. CASE semafor = 0
    <3>1. PICK c \in Potomek : pc[c] \in {"czytaj", "open_w", "close_w", "sem_post"}
      BY <2>0, <2>2 DEF Trzymany, WSekcji
    <3>2. Zywy(c) /\ c \in Proces /\ ~ Czeka(c)
      BY <2>0, <2>1, <3>1, ProcesyFakt DEF Ogloszony, Zywy, Czeka
    <3> QED BY <3>2
  <2>3. CASE semafor # 0
    <3>1. \E c \in Potomek : Zywy(c)
      BY <2>0, <2>3, PowielaczAssumption DEF Czeka, Miejsca, Liczby
    <3> QED BY <2>3, <3>1, ProcesyFakt DEF Czeka
  <2> QED BY <2>2, <2>3
<1> QED BY <1>1, PInvNiezmiennik, PTL

(* What there is to do is a natural number, and something while one lives. *)
LEMMA ResztyNaturalne ==
  PInv => /\ Naturalne
          /\ Zywy(main) => ResztaMain > 0
          /\ \A c \in Potomek : Zywy(c) => Reszta(c) > 0
<1> SUFFICES ASSUME PInv
             PROVE  /\ Naturalne
                    /\ Zywy(main) => ResztaMain > 0
                    /\ \A c \in Potomek : Zywy(c) => Reszta(c) > 0
  OBVIOUS
<1>0. Liczby /\ Miejsca /\ Sekcje /\ main \in Proces
  BY ProcesyFakt DEF PInv, IInv
<1>1. ResztaMain \in Nat /\ (Zywy(main) => ResztaMain > 0)
  BY <1>0, PowielaczAssumption DEF Liczby, Miejsca, ResztaMain, Zywy
<1>2. Zaklocen \in Nat
  BY <1>0, PowielaczAssumption DEF Liczby, Zaklocen
<1>3. ASSUME NEW c \in Potomek
      PROVE  Reszta(c) \in Nat /\ (Zywy(c) => Reszta(c) > 0)
  <2>1. /\ i[c] \in 1..ilosc_sekcji + 1 /\ ilosc_sekcji \in Nat
        /\ pc[c] \in {"open_w", "close_w", "sem_open", "czytaj", "exit_handler", "brak",
                      "przed_exec", "sem_wait", "sem_post", "koniec"}
        /\ pc[c] \notin {"koniec", "exit_handler"} => i[c] <= ilosc_sekcji
    BY <1>0, ProcesyFakt, PowielaczAssumption DEF Liczby, Miejsca, Sekcje
  <2> QED BY <2>1 DEF Reszta, WSekcjach, Zywy
<1> QED BY <1>1, <1>2, <1>3 DEF Naturalne

(* A step of one child.                                                    *)
LEMMA UbyloPotomku ==
  ASSUME PInv, PInv', NEW c \in Potomek, Reszta(c)' < Reszta(c),
         pc'[main] = pc[main], main \in martwe' <=> main \in martwe,
         \A d \in Potomek : d # c => /\ pc'[d] = pc[d] /\ i'[d] = i[d]
                                     /\ d \in martwe' <=> d \in martwe,
         UNCHANGED <<forki, wyslane, druga>>
  PROVE  Ubylo
<1>1. ResztaMain' = ResztaMain /\ Zaklocen' = Zaklocen
  <2>1. CASE main \in martwe
    BY <2>1 DEF ResztaMain, Zaklocen
  <2>2. CASE main \notin martwe
    <3>1. main \notin martwe'
      BY <2>2
    <3> QED BY <2>2, <3>1 DEF ResztaMain, Zaklocen
  <2> QED BY <2>1, <2>2
<1>2. ASSUME NEW d \in Potomek, d # c
      PROVE  Reszta(d)' = Reszta(d)
  <2>1. pc'[d] = pc[d] /\ i'[d] = i[d]
    BY <1>2
  <2>2. CASE d \in martwe
    BY <1>2, <2>2 DEF Reszta
  <2>3. CASE d \notin martwe
    <3>1. d \notin martwe'
      BY <1>2, <2>3
    <3> QED BY <2>1, <2>3, <3>1 DEF Reszta, WSekcjach
  <2> QED BY <2>2, <2>3
<1>3. Naturalne /\ Naturalne'
  <2>1. PInv' => Naturalne'
    BY ResztyNaturalne, PTL
  <2> QED BY <2>1, ResztyNaturalne
<1>4. ASSUME NEW d \in Potomek
      PROVE  Reszta(d)' <= Reszta(d)
  <2>1. Reszta(d) \in Nat /\ Reszta(d)' \in Nat
    BY <1>3 DEF Naturalne
  <2>2. Reszta(d)' = Reszta(d) \/ Reszta(d)' < Reszta(d)
    BY <1>2
  <2> QED BY <2>1, <2>2
<1> QED BY <1>1, <1>3, <1>4 DEF Ubylo, Naturalne

(* A step of main.                                                         *)
LEMMA UbyloMain ==
  ASSUME PInv, PInv', ResztaMain' < ResztaMain,
         \A c \in Potomek : /\ pc'[c] = pc[c] /\ i'[c] = i[c]
                            /\ c \in martwe' <=> c \in martwe,
         UNCHANGED <<wyslane, druga>>
  PROVE  Ubylo
<1>1. Zaklocen' = Zaklocen
  BY DEF Zaklocen
<1>2. ASSUME NEW c \in Potomek
      PROVE  Reszta(c)' = Reszta(c)
  <2>1. pc'[c] = pc[c] /\ i'[c] = i[c]
    OBVIOUS
  <2>2. CASE c \in martwe
    BY <2>2 DEF Reszta
  <2>3. CASE c \notin martwe
    <3>1. c \notin martwe'
      BY <2>3
    <3> QED BY <2>1, <2>3, <3>1 DEF Reszta, WSekcjach
  <2> QED BY <2>2, <2>3
<1>3. Naturalne /\ Naturalne'
  <2>1. PInv' => Naturalne'
    BY ResztyNaturalne, PTL
  <2> QED BY <2>1, ResztyNaturalne
<1>4. \A c \in Potomek : Reszta(c)' <= Reszta(c)
  BY <1>2, <1>3 DEF Naturalne
<1> QED BY <1>1, <1>3, <1>4 DEF Ubylo, Naturalne

(* A child goes from one place to the next.                                *)
LEMMA UbyloSkokPotomka ==
  ASSUME PInv, PInv', NEW c \in Potomek, NEW skad, NEW dokad, Skok(c, skad, dokad),
         <<skad, dokad>> \in
           {<<"przed_exec", "sem_open">>, <<"przed_exec", "exit_handler">>,
            <<"przed_exec", "koniec">>, <<"sem_open", "sem_wait">>,
            <<"sem_open", "koniec">>, <<"sem_wait", "czytaj">>, <<"czytaj", "koniec">>,
            <<"czytaj", "open_w">>, <<"open_w", "close_w">>, <<"close_w", "sem_post">>,
            <<"exit_handler", "koniec">>},
         UNCHANGED <<martwe, i, forki, wyslane, druga>>
  PROVE  Ubylo
<1>0. Liczby /\ Sekcje
  BY DEF PInv, IInv
<1>1. /\ c \notin martwe /\ pc[c] = skad /\ pc'[c] = dokad
      /\ \A q \in Proces : q # c => pc'[q] = pc[q]
  BY <1>0, SkokFakt, ProcesyFakt
<1>2. /\ i[c] \in 1..ilosc_sekcji + 1 /\ ilosc_sekcji \in Nat
      /\ pc[c] \notin {"koniec", "exit_handler"} => i[c] <= ilosc_sekcji
  BY <1>0, PowielaczAssumption DEF Liczby, Sekcje
<1>3. Reszta(c)' < Reszta(c)
  BY <1>1, <1>2 DEF Reszta, WSekcjach
<1> QED BY <1>1, <1>3, UbyloPotomku, ProcesyFakt

(* Main does.                                                              *)
LEMMA UbyloSkokMain ==
  ASSUME PInv, PInv', NEW skad, NEW dokad, Skok(main, skad, dokad),
         \/ <<skad, dokad>> \in
              {<<"open_w", "close_w">>, <<"close_w", "signal">>, <<"signal", "sem_open">>,
               <<"sem_open", "sem_adres">>, <<"sem_adres", "fork">>, <<"wait", "czytaj">>,
               <<"czytaj", "sem_unlink">>, <<"exit_handler", "koniec">>}
         \/ dokad \in {"exit_handler", "koniec"} /\ skad \notin {"exit_handler", "koniec"},
         UNCHANGED <<martwe, i, forki, wyslane, druga>>
  PROVE  Ubylo
<1>0. Liczby /\ Miejsca /\ main \in Proces
  BY ProcesyFakt DEF PInv, IInv
<1>1. /\ main \notin martwe /\ pc[main] = skad /\ pc'[main] = dokad
      /\ \A q \in Proces : q # main => pc'[q] = pc[q]
  BY <1>0, SkokFakt
<1>2. /\ forki \in 0..ilosc_pp /\ ilosc_pp \in Nat
      /\ pc[main] = "fork" => forki < ilosc_pp
      /\ pc[main] \in {"open_w", "close_w", "signal", "sem_open", "sem_adres", "fork",
                       "wait", "czytaj", "sem_unlink", "exit_handler", "koniec"}
  BY <1>0, PowielaczAssumption DEF Liczby, Miejsca
<1>3. ResztaMain' < ResztaMain
  BY <1>1, <1>2 DEF ResztaMain
<1> QED BY <1>1, <1>3, UbyloMain, ProcesyFakt

(* Each fork() is one of those main has left.                              *)
LEMMA UbyloFork == ASSUME PInv, PInv', MFork PROVE Ubylo
<1>0. Liczby /\ Miejsca
  BY DEF PInv, IInv
<1>1. /\ forki + 1 \in Potomek /\ forki + 1 # main /\ forki \in Nat /\ ilosc_pp \in Nat
      /\ forki' = forki + 1 /\ forki < ilosc_pp /\ pc[main] = "fork" /\ main \notin martwe
      /\ UNCHANGED <<martwe, i, wyslane, druga>>
  BY <1>0, PowielaczAssumption DEF MFork, Liczby, Potomek, main, potomne, sygnaly
<1>2. /\ pc' = [pc EXCEPT ![forki + 1] = "przed_exec",
                          ![main] = IF forki + 1 = ilosc_pp THEN "wait" ELSE @]
      /\ pc[forki + 1] = "brak"
  BY <1>1 DEF MFork, PInv, IInv, Kolejno
<1>3. /\ pc'[forki + 1] = "przed_exec"
      /\ pc'[main] = (IF forki + 1 = ilosc_pp THEN "wait" ELSE "fork")
      /\ \A q \in Proces : q # forki + 1 /\ q # main => pc'[q] = pc[q]
  BY <1>0, <1>1, <1>2, ProcesyFakt DEF Liczby
<1>4. ResztaMain' < ResztaMain /\ ResztaMain' <= ResztaMain
  BY <1>1, <1>3 DEF ResztaMain
<1>5. Zaklocen' <= Zaklocen
  <2>1. Zaklocen' = Zaklocen
    BY <1>1 DEF Zaklocen
  <2> QED BY <2>1, ResztyNaturalne DEF Naturalne
<1>6. ASSUME NEW c \in Potomek
      PROVE  Reszta(c)' <= Reszta(c)
  <2>1. CASE c = forki + 1
    BY <1>1, <1>2, <1>3, <2>1, PowielaczAssumption DEF Reszta
  <2>2. CASE c # forki + 1
    <3>1. Reszta(c)' = Reszta(c)
      BY <1>1, <1>3, <2>2, ProcesyFakt DEF Reszta, WSekcjach
    <3> QED BY <3>1, ResztyNaturalne DEF Naturalne
  <2> QED BY <2>1, <2>2
<1> QED BY <1>4, <1>5, <1>6 DEF Ubylo

(* The steps of a child.                                                   *)
LEMMA UbyloKrokPotomka ==
  ASSUME PInv, PInv', NEW c \in Potomek, PotomekStep(c) \/ ExecNieudany(c)
  PROVE  Ubylo
<1>0. Liczby /\ c \in Proces
  BY ProcesyFakt DEF PInv, IInv
<1> USE <1>0 DEF stanMain, sygnaly, potomne
<1>1. CASE Exec(c)
  BY <1>1, UbyloSkokPotomka DEF Exec
<1>2. CASE SemOpen(c)
  BY <1>2, UbyloSkokPotomka DEF SemOpen
<1>3. CASE SemWait(c)
  BY <1>3, UbyloSkokPotomka DEF SemWait
<1>4. CASE Czytaj(c)
  <2>1. CASE plik = Pusty
    BY <1>4, <2>1, UbyloSkokPotomka DEF Czytaj
  <2>2. CASE plik # Pusty
    BY <1>4, <2>2, UbyloSkokPotomka DEF Czytaj
  <2> QED BY <2>1, <2>2
<1>5. CASE OpenW(c)
  BY <1>5, UbyloSkokPotomka DEF OpenW
<1>6. CASE CloseW(c)
  BY <1>6, UbyloSkokPotomka DEF CloseW
<1>7. CASE SemPost(c)
  <2>1. /\ c \notin martwe /\ pc[c] = "sem_post"
        /\ pc'[c] = IF i[c] < ilosc_sekcji THEN "sem_wait" ELSE "koniec"
        /\ \A q \in Proces : q # c => pc'[q] = pc[q]
    BY <1>7, SkokFakt DEF SemPost
  <2>2. /\ i[c] \in 1..ilosc_sekcji + 1 /\ ilosc_sekcji \in Nat /\ i[c] <= ilosc_sekcji
        /\ i'[c] = i[c] + 1 /\ \A d \in Potomek : d # c => i'[d] = i[d]
        /\ UNCHANGED <<martwe, forki, wyslane, druga>>
    BY <1>7, <2>1, PowielaczAssumption DEF SemPost, Liczby, PInv, IInv, Sekcje
  <2>3. Reszta(c)' < Reszta(c)
    BY <2>1, <2>2 DEF Reszta, WSekcjach
  <2> QED BY <2>1, <2>2, <2>3, UbyloPotomku, ProcesyFakt
<1>8. CASE ExecNieudany(c)
  <2>1. Skok(c, "przed_exec", IF c \in sprzatal THEN "koniec" ELSE "exit_handler")
    BY <1>8, WyjdzFakt DEF ExecNieudany
  <2> QED BY <1>8, <2>1, UbyloSkokPotomka DEF ExecNieudany
<1> QED BY <1>1, <1>2, <1>3, <1>4, <1>5, <1>6, <1>7, <1>8 DEF PotomekStep

(* The steps of main.                                                      *)
LEMMA UbyloKrokMain ==
  ASSUME PInv, PInv', MainStep \/ MForkNieudany
  PROVE  Ubylo
<1>0. Liczby /\ main \in Proces
  BY ProcesyFakt DEF PInv, IInv
<1> USE <1>0 DEF sygnaly, potomne
<1>1. CASE MOpen
  BY <1>1, UbyloSkokMain DEF MOpen
<1>2. CASE MClose
  BY <1>2, UbyloSkokMain DEF MClose
<1>3. CASE MSignal
  BY <1>3, UbyloSkokMain DEF MSignal
<1>4. CASE MSemOpen
  BY <1>4, UbyloSkokMain DEF MSemOpen
<1>5. CASE MSemAdres
  BY <1>5, UbyloSkokMain DEF MSemAdres
<1>6. CASE MWait
  BY <1>6, UbyloSkokMain DEF MWait
<1>7. CASE MCzytaj
  <2>1. CASE plik = Pusty
    <3>1. Skok(main, "czytaj", IF main \in sprzatal THEN "koniec" ELSE "exit_handler")
      BY <1>7, <2>1, WyjdzFakt DEF MCzytaj
    <3> QED BY <1>7, <3>1, UbyloSkokMain DEF MCzytaj
  <2>2. CASE plik # Pusty
    BY <1>7, <2>2, UbyloSkokMain DEF MCzytaj
  <2> QED BY <2>1, <2>2
<1>8. CASE MUnlink
  BY <1>8, UbyloSkokMain DEF MUnlink
<1>9. CASE MForkNieudany
  <2>1. Skok(main, "fork", IF main \in sprzatal THEN "koniec" ELSE "exit_handler")
    BY <1>9, WyjdzFakt DEF MForkNieudany
  <2> QED BY <1>9, <2>1, UbyloSkokMain DEF MForkNieudany
<1> QED BY <1>1, <1>2, <1>3, <1>4, <1>5, <1>6, <1>7, <1>8, <1>9, UbyloFork DEF MainStep

(* SIGINT kills, or ends in exit_handler, which is then not called again.  *)
LEMMA UbyloDostarcz ==
  ASSUME PInv, PInv', NEW p \in Proces, Dostarcz(p) \/ ExitHandler(p)
  PROVE  Ubylo
<1>0. Liczby /\ Miejsca /\ (p = main \/ p \in Potomek)
  BY ProcesyFakt DEF PInv, IInv
<1> USE DEF sygnaly, potomne
<1>1. CASE ExitHandler(p)
  <2>1. Skok(p, "exit_handler", "koniec")
        /\ UNCHANGED <<martwe, i, forki, wyslane, druga>>
    BY <1>1 DEF ExitHandler
  <2> QED BY <1>0, <2>1, UbyloSkokMain, UbyloSkokPotomka
<1>2. CASE Dostarcz(p)
  <2>0. UNCHANGED <<i, forki, wyslane, druga>> /\ Zywy(p)
    BY <1>2 DEF Dostarcz
  <2>1. CASE martwe' = martwe \cup {p} /\ pc' = pc
    <3>1. CASE p = main
      <4>1. ResztaMain' = 0 /\ ResztaMain > 0
        BY <2>0, <2>1, <3>1, ResztyNaturalne DEF ResztaMain
      <4>2. ResztaMain' < ResztaMain
        BY <4>1
      <4> QED BY <2>0, <2>1, <3>1, <4>2, UbyloMain, ProcesyFakt
    <3>2. CASE p \in Potomek
      <4>1. Reszta(p)' = 0 /\ Reszta(p) > 0
        BY <2>0, <2>1, <3>2, ResztyNaturalne DEF Reszta
      <4>2. Reszta(p)' < Reszta(p)
        BY <4>1
      <4> QED BY <2>0, <2>1, <3>2, <4>2, UbyloPotomku, ProcesyFakt
    <3> QED BY <1>0, <3>1, <3>2
  <2>2. CASE /\ martwe' = martwe /\ Wyjdz(p, pc[p])
             /\ p = main \/ pc[p] \in {"przed_exec", "exit_handler"}
    <3>1. Skok(p, pc[p], IF p \in sprzatal THEN "koniec" ELSE "exit_handler")
      BY <1>0, <2>2, WyjdzFakt
    <3>2. /\ pc[p] = "exit_handler" => p \in sprzatal
          /\ pc[p] # "koniec"
      BY <1>0, <2>0 DEF Miejsca, Zywy
    <3>3. CASE p = main
      BY <2>0, <2>2, <3>1, <3>2, <3>3, UbyloSkokMain
    <3>4. CASE p \in Potomek
      <4>1. pc[p] \in {"przed_exec", "exit_handler"}
        BY <2>2, <3>4, ProcesyFakt
      <4> QED BY <2>0, <2>2, <3>1, <3>2, <3>4, <4>1, UbyloSkokPotomka
    <3> QED BY <1>0, <3>3, <3>4
  <2> QED BY <1>2, <2>1, <2>2 DEF Dostarcz
<1> QED BY <1>1, <1>2

(* Ctrl+C and a second ./pow do nothing to the processes themselves.       *)
LEMMA UbyloZaklocenie ==
  ASSUME PInv, CtrlC \/ DrugaOpen \/ DrugaClose
  PROVE  Ubylo
<1>1. UNCHANGED <<pc, martwe, i, forki>>
  BY DEF CtrlC, DrugaOpen, DrugaClose, potomne
<1>2. ResztaMain' = ResztaMain /\ \A c \in Potomek : Reszta(c)' = Reszta(c)
  BY <1>1 DEF ResztaMain, Reszta, WSekcjach
<1>3. Zaklocen' < Zaklocen /\ Zaklocen' <= Zaklocen
  <2>1. wyslane \in Nat /\ MaxSigint \in Nat
    BY PowielaczAssumption DEF PInv, IInv, Liczby
  <2> QED BY <2>1 DEF CtrlC, DrugaOpen, DrugaClose, Zaklocen, sygnaly
<1> QED BY <1>2, <1>3, ResztyNaturalne DEF Ubylo, Naturalne

(* Whatever the numbers of children and sections, the processes have only  *)
(* finitely many steps left, and Ctrl+C and a second ./pow finitely many   *)
(* chances to interfere: every step uses one up and gives none back.       *)
THEOREM UbywaInv == Spec => []Naturalne /\ Ubywa
<1>1. PInv => Naturalne
  BY ResztyNaturalne
<1>2. ASSUME PInv, PInv', [Next]_vars
      PROVE  [Ubylo]_vars
  BY <1>2, UbyloKrokMain, UbyloKrokPotomka, UbyloDostarcz, UbyloZaklocenie
  DEF Next, Krok, Zaklocenie
<1> QED BY <1>1, <1>2, PInvNiezmiennik, PTL DEF Spec, Ubywa

=============================================================================
