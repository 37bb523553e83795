-------------------------- MODULE CyklZycia_proofs --------------------------
(* Theorems of CyklZycia.                                                  *)
EXTENDS CyklZycia, Integers, TLAPS

-----------------------------------------------------------------------------
(* Types.                                                                  *)

glowny(i) == <<i, "main">>

(* Processes are pairs; main is no child.                                  *)
LEMMA Pary ==
  /\ \A i \in Instancje : glowny(i) \in Proces /\ glowny(i)[1] = i /\ glowny(i)[2] = "main"
  /\ \A i \in Instancje, r \in Potomek :
       /\ <<i, r>> \in Proces /\ <<i, r>> \in Potomkowie(i)
       /\ <<i, r>>[1] = i /\ <<i, r>>[2] = r /\ r # "main"
  /\ \A i \in Instancje : \A c \in Potomkowie(i) :
       /\ c \in Proces /\ c \in Instancje \X Potomek /\ c[1] = i /\ c[2] \in Potomek
       /\ c = <<i, "producent">> \/ c = <<i, "konsument">>
       /\ \A j \in Instancje : c # glowny(j)
  /\ \A i, j \in Instancje : i # j => glowny(i) # glowny(j)
  /\ \A p \in Proces : /\ p[1] \in Instancje /\ p[2] \in Rola
                       /\ p[2] = "main" => p = glowny(p[1])
                       /\ p[2] # "main" => p \in Potomkowie(p[1])
  BY DEF glowny, Proces, Rola, Potomek, Potomkowie

(* The four names differ.                                                  *)
LEMMA CzteryNazwy ==
  /\ \A k \in 1..4 : Nazwa[k] \in Nazwy
  /\ \A j, k \in 1..4 : Nazwa[j] = Nazwa[k] => j = k
  /\ \A n \in Nazwy : \E k \in 1..4 : n = Nazwa[k]
  /\ Nazwa[1] = "pam_dziel"
<1>1. /\ Nazwa[1] = "pam_dziel" /\ Nazwa[2] = "sem_empty" /\ Nazwa[3] = "sem_full"
      /\ Nazwa[4] = "sem_mutex"
  BY DEF Nazwa
<1>2. \A k \in 1..4 : k = 1 \/ k = 2 \/ k = 3 \/ k = 4
  OBVIOUS
<1>3. \A j, k \in 1..4 : Nazwa[j] = Nazwa[k] => j = k
  BY <1>1, <1>2
<1> QED BY <1>1, <1>3 DEF Nazwy

(* exit() of one process.                                                  *)
LEMMA Wyjscie ==
  ASSUME TypeOK, NEW p \in Proces, Wyjdz(p)
  PROVE  /\ \A q \in Proces : q # p => pc'[q] = pc[q] /\ krok'[q] = krok[q]
         /\ pc'[p] = IF p \in sprzatal THEN "koniec" ELSE "sprzataj"
         /\ p \notin sprzatal => krok'[p] = 1
         /\ sprzatal' = sprzatal \cup {p}
         /\ pc' \in [Proces -> Etykiety] /\ krok' \in [Proces -> 1..4]
<1>1. pc \in [Proces -> Etykiety] /\ krok \in [Proces -> 1..4] /\ sprzatal \subseteq Proces
  BY DEF TypeOK
<1>2. {"koniec", "sprzataj"} \subseteq Etykiety
  BY DEF Etykiety
<1>3. CASE p \in sprzatal
  BY <1>1, <1>2, <1>3 DEF Wyjdz, Skok
<1>4. CASE p \notin sprzatal
  BY <1>1, <1>2, <1>4 DEF Wyjdz, Skok
<1> QED BY <1>3, <1>4

(* The next of the four names.                                             *)
LEMMA Kolejna ==
  ASSUME TypeOK, NEW p \in Proces, NEW cel \in Etykiety, Nastepna(p, cel)
  PROVE  /\ \A q \in Proces : q # p => pc'[q] = pc[q] /\ krok'[q] = krok[q]
         /\ krok[p] < 4 => krok'[p] = krok[p] + 1 /\ pc'[p] = pc[p]
         /\ krok[p] = 4 => krok'[p] = 1 /\ pc'[p] = cel
         /\ pc' \in [Proces -> Etykiety] /\ krok' \in [Proces -> 1..4]
<1>1. CASE krok[p] < 4
  BY <1>1 DEF Nastepna, TypeOK
<1>2. CASE krok[p] = 4
  BY <1>2 DEF Nastepna, Skok, TypeOK
<1> QED BY <1>1, <1>2 DEF TypeOK

(* A jump of one process.                                                  *)
LEMMA Przejscie ==
  ASSUME TypeOK, NEW p \in Proces, NEW cel \in Etykiety, Skok(p, cel)
  PROVE  /\ \A q \in Proces : q # p => pc'[q] = pc[q]
         /\ pc'[p] = cel
         /\ pc' \in [Proces -> Etykiety]
  BY DEF Skok, TypeOK

(* The labels are labels.                                                  *)
LEMMA EtykietyLemat ==
  {"brak", "tworz", "sprawdz", "fork_p", "pid_p", "fork_k", "pid_k", "czekaj", "obsluga",
   "czekaj_sig", "sprzataj", "przed_exec", "otwiera", "pracuje", "gotowe", "koniec"}
    \subseteq Etykiety
  BY DEF Etykiety

(* The variables other than pc and krok.                                   *)
Stan == /\ nazwy \in [Nazwy -> Instancje \cup {Nikt}]
        /\ utworzone \in [Instancje -> SUBSET Nazwy]
        /\ otwarte \in [Instancje \X Potomek -> [Nazwy -> Instancje \cup {Nikt}]]
        /\ pid \in [Instancje -> SUBSET Potomek]
Znaki == /\ domyslny \subseteq Proces /\ sprzatal \subseteq Proces
         /\ zalegle \subseteq Proces /\ wyslane \in 0..MaxSigint
         /\ bledy \subseteq {"exec", "fork", "sigint", "sprzatanie"}
Miejsce == pc \in [Proces -> Etykiety] /\ krok \in [Proces -> 1..4]

(* Types at the start.                                                     *)
LEMMA TypInit == Init => TypeOK
  BY CyklAssumption, EtykietyLemat DEF Init, TypeOK

(* Types are kept by every action, one step each.                          *)
LEMMA TypStep == TypeOK /\ [Next]_vars => TypeOK'
<1> SUFFICES ASSUME TypeOK, [Next]_vars PROVE TypeOK'
  OBVIOUS
<1> DEFINE Cel == Stan' /\ Znaki' /\ Miejsce'
<1>0. Stan /\ Znaki /\ Miejsce
  BY DEF TypeOK, Stan, Znaki, Miejsce
<1>1. ASSUME NEW p \in Proces, Usun(p) PROVE Cel
  <2>1. Nazwa[krok[p]] \in Nazwy /\ krok[p] \in 1..4
    BY <1>0, CzteryNazwy DEF Miejsce
  <2>2. nazwy' \in [Nazwy -> Instancje \cup {Nikt}]
    BY <1>0, <1>1, <2>1 DEF Usun, Stan
  <2>3. Miejsce'
    <3>1. CASE Skok(p, "koniec") /\ UNCHANGED krok
      BY <1>0, <3>1, Przejscie, EtykietyLemat DEF Miejsce
    <3>2. CASE Nastepna(p, "koniec")
      BY <3>2, Kolejna, EtykietyLemat DEF Miejsce
    <3> QED BY <1>1, <3>1, <3>2 DEF Usun
  <2> QED BY <1>0, <1>1, <2>2, <2>3 DEF Usun, Stan, Znaki, sygnaly
<1>2. ASSUME NEW p \in Proces, Dostarcz(p) PROVE Cel
  <2>1. Miejsce'
    BY <1>0, <1>2, EtykietyLemat DEF Dostarcz, Skok, Miejsce
  <2>2. Znaki'
    BY <1>0, <1>2 DEF Dostarcz, Znaki
  <2> QED BY <1>0, <1>2, <2>1, <2>2 DEF Dostarcz, Stan, stan
<1>3. ASSUME NEW p \in Proces, Obsluga(p) PROVE Cel
  <2>1. Miejsce' /\ sprzatal' \subseteq Proces
    <3>1. CASE Skok(p, "czekaj_sig") /\ UNCHANGED <<krok, sprzatal>>
      BY <1>0, <3>1, Przejscie, EtykietyLemat DEF Miejsce, Znaki
    <3>2. CASE Wyjdz(p)
      BY <1>0, <3>2, Wyjscie DEF Miejsce, Znaki
    <3> QED BY <1>3, <3>1, <3>2 DEF Obsluga
  <2>2. zalegle' \subseteq Proces
    <3>1. ZnanePid(p) \subseteq Rola /\ p[1] \in Instancje
      BY <1>0, Pary DEF ZnanePid, Stan, Rola, Potomek
    <3>2. {p[1]} \X ZnanePid(p) \subseteq Proces
      BY <3>1 DEF Proces
    <3> QED BY <1>0, <1>3, <3>2 DEF Obsluga, Znaki
  <2> QED BY <1>0, <1>3, <2>1, <2>2 DEF Obsluga, Stan, stan, Znaki
<1>4. ASSUME NEW i \in Instancje, Tworz(i) PROVE Cel
  <2>1. glowny(i) \in Proces /\ krok[glowny(i)] \in 1..4 /\ Nazwa[krok[glowny(i)]] \in Nazwy
    BY <1>0, Pary, CzteryNazwy DEF Miejsce
  <2>2. Miejsce'
    BY <1>4, <2>1, Kolejna, EtykietyLemat DEF Tworz, glowny, Miejsce
  <2>3. Stan'
    BY <1>0, <1>4, <2>1 DEF Tworz, glowny, Stan
  <2> QED BY <1>0, <1>4, <2>2, <2>3 DEF Tworz, Znaki, sygnaly
<1>5. ASSUME NEW i \in Instancje, Sprawdz(i) PROVE Cel
  <2>1. Miejsce' /\ sprzatal' \subseteq Proces
    <3>1. CASE Skok(glowny(i), "fork_p") /\ UNCHANGED <<krok, sprzatal>>
      BY <1>0, <3>1, Pary, Przejscie, EtykietyLemat DEF Miejsce, Znaki
    <3>2. CASE Wyjdz(glowny(i))
      BY <1>0, <3>2, Pary, Wyjscie DEF Miejsce, Znaki
    <3> QED BY <1>5, <3>1, <3>2 DEF Sprawdz, glowny
  <2> QED BY <1>0, <1>5, <2>1 DEF Sprawdz, Stan, stan, Znaki, sygnaly
<1>6. ASSUME NEW i \in Instancje, Czekaj(i) PROVE Cel
  <2>1. Miejsce' /\ sprzatal' \subseteq Proces
    BY <1>0, <1>6, Pary, Wyjscie DEF Czekaj, glowny, Miejsce, Znaki
  <2> QED BY <1>0, <1>6, <2>1 DEF Czekaj, Stan, stan, Znaki, sygnaly
<1>7. ASSUME NEW i \in Instancje, NEW r \in Potomek, ForkUdany(i, r) PROVE Cel
  <2>1. Miejsce'
    BY <1>0, <1>7, EtykietyLemat DEF ForkUdany, Pid, Miejsce
  <2> QED BY <1>0, <1>7, <2>1 DEF ForkUdany, Stan, stan, Znaki, sygnaly
<1>8. ASSUME NEW i \in Instancje, NEW r \in Potomek, ZapiszPid(i, r) PROVE Cel
  <2>1. Miejsce'
    BY <1>0, <1>8, EtykietyLemat DEF ZapiszPid, Skok, Miejsce
  <2>2. Stan'
    BY <1>0, <1>8 DEF ZapiszPid, Stan
  <2> QED BY <1>0, <1>8, <2>1, <2>2 DEF ZapiszPid, Znaki, sygnaly
<1>9. ASSUME NEW i \in Instancje, NEW r \in Potomek, ForkNieudany(i, r) PROVE Cel
  <2>1. Miejsce' /\ sprzatal' \subseteq Proces
    BY <1>0, <1>9, Pary, Wyjscie DEF ForkNieudany, glowny, Miejsce, Znaki
  <2> QED BY <1>0, <1>9, <2>1 DEF ForkNieudany, Stan, stan, Znaki, sygnaly
<1>10. ASSUME NEW c \in Proces, ExecNieudany(c) PROVE Cel
  <2>1. Miejsce' /\ sprzatal' \subseteq Proces
    BY <1>0, <1>10, Wyjscie DEF ExecNieudany, Miejsce, Znaki
  <2> QED BY <1>0, <1>10, <2>1 DEF ExecNieudany, Stan, stan, Znaki, sygnaly
<1>11. ASSUME NEW c \in Proces, Exec(c) \/ Gotowe(c) \/ Awaria(c) PROVE Cel
  <2>1. PICK cel \in Etykiety : Skok(c, cel) /\ UNCHANGED <<stan, krok, sprzatal, sygnaly, bledy>>
    BY <1>11, EtykietyLemat DEF Exec, Gotowe, Awaria
  <2>2. Miejsce'
    BY <1>0, <2>1, Przejscie DEF Miejsce
  <2> QED BY <1>0, <2>1, <2>2 DEF Stan, stan, Znaki, sygnaly
<1>12. ASSUME NEW i \in Instancje, NEW c \in Potomkowie(i), Otworz(c) PROVE Cel
  <2>1. /\ c \in Proces /\ c \in Instancje \X Potomek
        /\ krok[c] \in 1..4 /\ Nazwa[krok[c]] \in Nazwy
    BY <1>0, Pary, CzteryNazwy DEF Miejsce
  <2>2. Miejsce'
    <3>1. CASE Skok(c, "koniec") /\ UNCHANGED krok
      BY <1>0, <2>1, <3>1, Przejscie, EtykietyLemat DEF Miejsce
    <3>2. CASE Nastepna(c, "pracuje")
      BY <2>1, <3>2, Kolejna, EtykietyLemat DEF Miejsce
    <3> QED BY <1>12, <3>1, <3>2 DEF Otworz
  <2>3. otwarte' \in [Instancje \X Potomek -> [Nazwy -> Instancje \cup {Nikt}]]
    BY <1>0, <1>12, <2>1 DEF Otworz, Stan
  <2> QED BY <1>0, <1>12, <2>2, <2>3 DEF Otworz, Stan, Znaki, sygnaly
<1>13. ASSUME NEW i \in Instancje, NEW komu, Sigint(i, komu) PROVE Cel
  <2>1. zalegle' \subseteq Proces
    BY <1>0, <1>13 DEF Sigint, Znaki, Proces, Rola
  <2>2. wyslane' \in 0..MaxSigint
    BY <1>0, <1>13, CyklAssumption DEF Sigint, Znaki
  <2> QED BY <1>0, <1>13, <2>1, <2>2 DEF Sigint, Stan, stan, Znaki, Miejsce
<1>14. CASE UNCHANGED vars
  BY <1>14 DEF TypeOK, vars, stan, sygnaly
<1>15. CASE Next
  <2>1. Cel
    <3>1. ASSUME NEW p \in Proces, Krok(p) PROVE Cel
      <4>1. CASE p[2] = "main"
        BY <1>1, <1>2, <1>3, <1>4, <1>5, <1>6, <1>7, <1>8, <3>1, <4>1, Pary DEF Krok
      <4>2. CASE p[2] # "main"
        BY <1>1, <1>2, <1>3, <1>11, <1>12, <3>1, <4>2, Pary DEF Krok
      <4> QED BY <4>1, <4>2
    <3>2. CASE Zaklocenie
      BY <1>9, <1>10, <1>11, <1>13, <3>2, Pary DEF Zaklocenie
    <3> QED BY <1>15, <3>1, <3>2 DEF Next
  <2> QED BY <2>1 DEF TypeOK, Stan, Znaki, Miejsce
<1> QED BY <1>14, <1>15

-----------------------------------------------------------------------------
(* main and its children, with one SIGINT at most.                         *)

(* main gets no second SIGINT.                                             *)
JedenSygnal == \A i \in Instancje :
  /\ glowny(i) \in zalegle \cup domyslny => wyslane # 0
  /\ ~ (glowny(i) \in zalegle /\ glowny(i) \in domyslny)

PrzedProducentem == {"tworz", "sprawdz", "fork_p"}
PrzedKonsumentem == PrzedProducentem \cup {"pid_p", "fork_k"}
TylkoPotomne     == {"brak", "przed_exec", "otwiera", "pracuje", "gotowe"}

(* Until it is forked a child is not there.                                *)
Etapy == \A i \in Instancje :
  /\ pc[glowny(i)] \notin TylkoPotomne
  /\ pc[glowny(i)] \in PrzedProducentem => pc[<<i, "producent">>] = "brak"
  /\ pc[glowny(i)] \in PrzedKonsumentem => pc[<<i, "konsument">>] = "brak"
  /\ \A c \in Potomkowie(i) :
       /\ pc[c] \in TylkoPotomne \cup {"obsluga", "sprzataj", "koniec"}
       /\ pc[c] \in {"brak", "przed_exec"} => krok[c] = 1

Drzewo == TypeOK /\ JedenSygnal /\ Etapy /\ CzekaNaPotomkow

(* A step of p that starts no process, and leaves no child behind.         *)
Ruch(p) ==
  /\ Zywy(p) /\ bledy \subseteq bledy'
  /\ \A q \in Proces : q # p => pc'[q] = pc[q] /\ krok'[q] = krok[q]
  /\ p[2] = "main" =>
       /\ pc'[p] \notin TylkoPotomne
       /\ pc'[p] \in PrzedProducentem => pc[p] \in PrzedProducentem
       /\ pc'[p] \in PrzedKonsumentem => pc[p] \in PrzedKonsumentem
       /\ pc'[p] \in {"sprzataj", "koniec"} =>
            \/ pc[p] \in {"sprawdz", "sprzataj"} \/ "fork" \in bledy'
            \/ \A c \in Potomkowie(p[1]) : ~ Zywy(c)
  /\ p[2] # "main" => pc'[p] \in {"otwiera", "pracuje", "gotowe", "obsluga", "sprzataj", "koniec"}

(* Such a step keeps what is said of the tree of processes.                *)
LEMMA RuchKrok ==
  ASSUME Etapy, CzekaNaPotomkow, NEW p \in Proces, Ruch(p)
  PROVE  Etapy' /\ CzekaNaPotomkow'
<1>1. ASSUME NEW i \in Instancje
      PROVE  /\ pc'[glowny(i)] \notin TylkoPotomne
             /\ pc'[glowny(i)] \in PrzedProducentem => pc'[<<i, "producent">>] = "brak"
             /\ pc'[glowny(i)] \in PrzedKonsumentem => pc'[<<i, "konsument">>] = "brak"
             /\ \A c \in Potomkowie(i) :
                  /\ pc'[c] \in TylkoPotomne \cup {"obsluga", "sprzataj", "koniec"}
                  /\ pc'[c] \in {"brak", "przed_exec"} => krok'[c] = 1
             /\ pc'[glowny(i)] \in {"sprzataj", "koniec"} /\ "fork" \notin bledy' =>
                  \A c \in Potomkowie(i) : pc'[c] \in {"gotowe", "koniec", "brak"}
  <2> DEFINE Mozliwe == \A c \in Potomkowie(i) :
                          /\ pc[c] \in TylkoPotomne \cup {"obsluga", "sprzataj", "koniec"}
                          /\ pc[c] \in {"brak", "przed_exec"} => krok[c] = 1
  <2>1. /\ pc[glowny(i)] \notin TylkoPotomne
        /\ pc[glowny(i)] \in PrzedProducentem => pc[<<i, "producent">>] = "brak"
        /\ pc[glowny(i)] \in PrzedKonsumentem => pc[<<i, "konsument">>] = "brak"
        /\ Mozliwe
        /\ pc[glowny(i)] \in {"sprzataj", "koniec"} /\ "fork" \notin bledy =>
             \A c \in Potomkowie(i) : ~ Zywy(c)
    BY <1>1 DEF Etapy, CzekaNaPotomkow, glowny
  <2>2. /\ glowny(i) \in Proces /\ glowny(i)[1] = i /\ glowny(i)[2] = "main"
        /\ \A c \in Potomkowie(i) : c \in Proces /\ c[2] # "main"
        /\ <<i, "producent">> \in Potomkowie(i) /\ <<i, "konsument">> \in Potomkowie(i)
        /\ \A c \in Potomkowie(i) : c = <<i, "producent">> \/ c = <<i, "konsument">>
    BY Pary DEF Potomek, Potomkowie
  <2> QED BY <2>1, <2>2 DEF Ruch, Zywy, Martwy, TylkoPotomne, PrzedProducentem, PrzedKonsumentem
<1>2. Etapy'
  BY <1>1 DEF Etapy
<1>3. CzekaNaPotomkow'
  BY <1>1 DEF CzekaNaPotomkow, Zywy, Martwy, glowny
<1> QED BY <1>2, <1>3

(* At the start there is main only.                                        *)
LEMMA DrzewoInit == Init => Drzewo
<1> SUFFICES ASSUME Init PROVE Drzewo
  OBVIOUS
<1>1. TypeOK
  BY TypInit
<1>2. /\ \A i \in Instancje : pc[glowny(i)] = "tworz"
      /\ \A i \in Instancje : \A c \in Potomkowie(i) : pc[c] = "brak" /\ krok[c] = 1
  BY Pary DEF Init
<1>3. JedenSygnal
  BY DEF Init, JedenSygnal
<1>4. \A i \in Instancje : /\ <<i, "producent">> \in Potomkowie(i)
                            /\ <<i, "konsument">> \in Potomkowie(i)
  BY DEF Potomkowie, Potomek
<1>5. Etapy
  BY <1>2, <1>4 DEF Etapy, TylkoPotomne
<1>6. CzekaNaPotomkow
  BY <1>2 DEF CzekaNaPotomkow, glowny
<1> QED BY <1>1, <1>3, <1>5, <1>6 DEF Drzewo

(* Each action but fork() is a step of one process.                        *)
LEMMA RuchAkcji ==
  ASSUME Drzewo, MaxSigint <= 1, NEW p \in Proces,
         Usun(p) \/ Dostarcz(p) \/ Obsluga(p)
  PROVE  Ruch(p)
<1> USE DEF Drzewo
<1>1. /\ p[2] = "main" => p = glowny(p[1]) /\ p[1] \in Instancje
      /\ p[2] # "main" => p \in Potomkowie(p[1]) /\ p[1] \in Instancje
  BY Pary
<1>2. /\ p[2] = "main" => pc[p] \notin TylkoPotomne
      /\ p[2] # "main" => pc[p] \in TylkoPotomne \cup {"obsluga", "sprzataj", "koniec"}
  BY <1>1 DEF Etapy
<1>3. CASE Usun(p)
  <2>1. /\ \A q \in Proces : q # p => pc'[q] = pc[q] /\ krok'[q] = krok[q]
        /\ pc[p] = "sprzataj" /\ pc'[p] \in {"sprzataj", "koniec"} /\ bledy' = bledy
    <3>1. CASE Skok(p, "koniec") /\ UNCHANGED krok
      BY <1>3, <3>1, Przejscie, EtykietyLemat DEF Usun
    <3>2. CASE Nastepna(p, "koniec")
      BY <1>3, <3>2, Kolejna, EtykietyLemat DEF Usun, TypeOK
    <3> QED BY <1>3, <3>1, <3>2 DEF Usun
  <2> QED BY <2>1 DEF Ruch, Zywy, Martwy, TylkoPotomne, PrzedProducentem, PrzedKonsumentem
<1>4. CASE Dostarcz(p)
  <2>1. /\ Zywy(p) /\ p \in zalegle /\ bledy \subseteq bledy' /\ krok' = krok
        /\ \/ (p \in domyslny \/ PoExec(p)) /\ Skok(p, "koniec")
           \/ Skok(p, "obsluga")
    BY <1>4 DEF Dostarcz
  <2>2. p[2] = "main" => p \notin domyslny /\ ~ PoExec(p)
    BY <1>1, <1>2, <2>1 DEF JedenSygnal, PoExec, TylkoPotomne
  <2>3. /\ \A q \in Proces : q # p => pc'[q] = pc[q] /\ krok'[q] = krok[q]
        /\ pc'[p] \in {"koniec", "obsluga"} /\ (p[2] = "main" => pc'[p] = "obsluga")
    BY <2>1, <2>2, Przejscie, EtykietyLemat
  <2> QED BY <2>1, <2>3 DEF Ruch, TylkoPotomne, PrzedProducentem, PrzedKonsumentem
<1>5. CASE Obsluga(p)
  <2>1. pc[p] = "obsluga" /\ bledy' = bledy
    BY <1>5 DEF Obsluga
  <2>2. CASE p[2] = "main"
    <3>1. Skok(p, "czekaj_sig") /\ krok' = krok
      BY <1>5, <2>2 DEF Obsluga
    <3>2. \A q \in Proces : q # p => pc'[q] = pc[q] /\ krok'[q] = krok[q]
      BY <3>1, Przejscie, EtykietyLemat
    <3>3. pc'[p] = "czekaj_sig"
      BY <3>1, Przejscie, EtykietyLemat
    <3> QED BY <2>1, <2>2, <3>2, <3>3
            DEF Ruch, Zywy, Martwy, TylkoPotomne, PrzedProducentem, PrzedKonsumentem
  <2>3. CASE p[2] # "main"
    <3>1. Wyjdz(p)
      BY <1>5, <2>3 DEF Obsluga
    <3>2. /\ \A q \in Proces : q # p => pc'[q] = pc[q] /\ krok'[q] = krok[q]
          /\ pc'[p] \in {"koniec", "sprzataj"}
      BY <3>1, Wyjscie
    <3> QED BY <2>1, <2>3, <3>2 DEF Ruch, Zywy, Martwy
  <2> QED BY <2>2, <2>3
<1> QED BY <1>3, <1>4, <1>5

(* main's own actions are such steps.                                      *)
LEMMA RuchGlownego ==
  ASSUME Drzewo, NEW i \in Instancje,
         \/ Tworz(i) \/ Sprawdz(i) \/ Czekaj(i)
         \/ \E r \in Potomek : ZapiszPid(i, r) \/ ForkNieudany(i, r)
  PROVE  Ruch(glowny(i))
<1> DEFINE p == glowny(i)
<1> USE DEF Drzewo
<1>1. p \in Proces /\ p[2] = "main" /\ p[1] = i
  BY Pary
<1>2. CASE Tworz(i)
  <2>1. pc[p] = "tworz" /\ bledy' = bledy /\ Nastepna(p, "sprawdz")
    BY <1>2 DEF Tworz, glowny
  <2>2. /\ \A q \in Proces : q # p => pc'[q] = pc[q] /\ krok'[q] = krok[q]
        /\ pc'[p] \in {"tworz", "sprawdz"}
    BY <1>1, <2>1, Kolejna, EtykietyLemat DEF TypeOK
  <2> QED BY <1>1, <2>1, <2>2
          DEF Ruch, Zywy, Martwy, TylkoPotomne, PrzedProducentem, PrzedKonsumentem
<1>3. CASE Sprawdz(i)
  <2>1. pc[p] = "sprawdz" /\ bledy' = bledy
    BY <1>3 DEF Sprawdz, glowny
  <2>2. /\ \A q \in Proces : q # p => pc'[q] = pc[q] /\ krok'[q] = krok[q]
        /\ pc'[p] \in {"fork_p", "sprzataj", "koniec"}
    <3>1. CASE Skok(p, "fork_p") /\ krok' = krok
      BY <1>1, <3>1, Przejscie, EtykietyLemat
    <3>2. CASE Wyjdz(p)
      BY <1>1, <3>2, Wyjscie
    <3> QED BY <1>3, <3>1, <3>2 DEF Sprawdz, glowny
  <2> QED BY <1>1, <2>1, <2>2
          DEF Ruch, Zywy, Martwy, TylkoPotomne, PrzedProducentem, PrzedKonsumentem
<1>4. CASE Czekaj(i)
  <2>1. /\ pc[p] \in {"czekaj", "czekaj_sig"} /\ bledy' = bledy
        /\ \A c \in Potomkowie(p[1]) : ~ Zywy(c)
    BY <1>1, <1>4 DEF Czekaj, glowny
  <2>2. /\ \A q \in Proces : q # p => pc'[q] = pc[q] /\ krok'[q] = krok[q]
        /\ pc'[p] \in {"sprzataj", "koniec"}
    BY <1>1, <1>4, Wyjscie DEF Czekaj, glowny
  <2> QED BY <1>1, <2>1, <2>2
          DEF Ruch, Zywy, Martwy, TylkoPotomne, PrzedProducentem, PrzedKonsumentem
<1>5. ASSUME NEW r \in Potomek, ZapiszPid(i, r) PROVE Ruch(p)
  <2>1. /\ pc[p] = Pid(r) /\ bledy' = bledy /\ krok' = krok
        /\ Skok(p, IF r = "producent" THEN "fork_k" ELSE "czekaj")
    BY <1>5 DEF ZapiszPid, glowny
  <2>2. /\ \A q \in Proces : q # p => pc'[q] = pc[q]
        /\ pc'[p] = IF r = "producent" THEN "fork_k" ELSE "czekaj"
    BY <1>1, <2>1, Przejscie, EtykietyLemat
  <2> QED BY <1>1, <2>1, <2>2
          DEF Ruch, Zywy, Martwy, TylkoPotomne, PrzedProducentem, PrzedKonsumentem, Pid, Potomek
<1>6. ASSUME NEW r \in Potomek, ForkNieudany(i, r) PROVE Ruch(p)
  <2>1. pc[p] \in {"fork_p", "fork_k"} /\ bledy' = bledy \cup {"fork"} /\ Wyjdz(p)
    BY <1>6 DEF ForkNieudany, glowny, Fork
  <2>2. /\ \A q \in Proces : q # p => pc'[q] = pc[q] /\ krok'[q] = krok[q]
        /\ pc'[p] \in {"sprzataj", "koniec"}
    BY <1>1, <2>1, Wyjscie
  <2> QED BY <1>1, <2>1, <2>2
          DEF Ruch, Zywy, Martwy, TylkoPotomne, PrzedProducentem, PrzedKonsumentem
<1> QED BY <1>2, <1>3, <1>4, <1>5, <1>6

(* So are those of a child.                                                *)
LEMMA RuchPotomka ==
  ASSUME Drzewo, NEW i \in Instancje, NEW c \in Potomkowie(i),
         Exec(c) \/ ExecNieudany(c) \/ Otworz(c) \/ Gotowe(c) \/ Awaria(c)
  PROVE  Ruch(c)
<1> USE DEF Drzewo
<1>1. c \in Proces /\ c[2] # "main"
  BY Pary
<1>2. Zywy(c) /\ bledy \subseteq bledy'
  BY DEF Exec, ExecNieudany, Otworz, Gotowe, Awaria, Zywy, Martwy
<1>3. CASE Exec(c) \/ Gotowe(c) \/ Awaria(c)
  <2>1. \E cel \in {"otwiera", "gotowe", "koniec"} : Skok(c, cel) /\ krok' = krok
    BY <1>3 DEF Exec, Gotowe, Awaria
  <2> QED BY <1>1, <1>2, <2>1, Przejscie, EtykietyLemat DEF Ruch
<1>4. CASE ExecNieudany(c)
  BY <1>1, <1>2, <1>4, Wyjscie DEF Ruch, ExecNieudany
<1>5. CASE Otworz(c)
  <2>1. \/ Skok(c, "koniec") /\ krok' = krok
        \/ Nastepna(c, "pracuje")
    BY <1>5 DEF Otworz
  <2>2. pc[c] = "otwiera"
    BY <1>5 DEF Otworz
  <2>3. CASE Skok(c, "koniec") /\ krok' = krok
    BY <1>1, <1>2, <2>3, Przejscie, EtykietyLemat DEF Ruch
  <2>4. CASE Nastepna(c, "pracuje")
    BY <1>1, <1>2, <2>2, <2>4, Kolejna, EtykietyLemat DEF Ruch, TypeOK
  <2> QED BY <2>1, <2>3, <2>4
<1> QED BY <1>3, <1>4, <1>5

(* fork() makes a child that was not there.                                *)
LEMMA ForkDrzewo ==
  ASSUME Drzewo, NEW i \in Instancje, NEW r \in Potomek, ForkUdany(i, r)
  PROVE  /\ Etapy' /\ CzekaNaPotomkow'
         /\ pc[<<i, r>>] = "brak" /\ krok[<<i, r>>] = 1
         /\ pc'[<<i, r>>] = "przed_exec" /\ pc'[glowny(i)] = Pid(r) /\ pc[glowny(i)] = Fork(r)
         /\ \A q \in Proces : q # <<i, r>> /\ q # glowny(i) => pc'[q] = pc[q]
<1> DEFINE p == glowny(i)
           c == <<i, r>>
<1>1. /\ p \in Proces /\ c \in Proces /\ p # c /\ pc \in [Proces -> Etykiety]
      /\ r = "producent" \/ r = "konsument"
  <2>1. p # c
    BY DEF glowny, Potomek
  <2> QED BY <2>1, Pary DEF Potomek, Drzewo, TypeOK
<1>2. /\ pc[p] = Fork(r) /\ pc' = [pc EXCEPT ![p] = Pid(r), ![c] = "przed_exec"]
      /\ krok' = krok /\ bledy' = bledy
  BY DEF ForkUdany, glowny
<1>3. /\ pc'[p] = Pid(r) /\ pc'[c] = "przed_exec"
      /\ \A q \in Proces : q # p /\ q # c => pc'[q] = pc[q]
  BY <1>1, <1>2
<1> HIDE DEF p, c
<1>4. pc[c] = "brak" /\ krok[c] = 1
  <2>1. pc[c] = "brak"
    BY <1>1, <1>2 DEF Drzewo, Etapy, Fork, PrzedProducentem, PrzedKonsumentem, p, c
  <2> QED BY <2>1, Pary DEF Drzewo, Etapy, c
<1>5. ASSUME NEW j \in Instancje
      PROVE  /\ pc'[glowny(j)] \notin TylkoPotomne
             /\ pc'[glowny(j)] \in PrzedProducentem => pc'[<<j, "producent">>] = "brak"
             /\ pc'[glowny(j)] \in PrzedKonsumentem => pc'[<<j, "konsument">>] = "brak"
             /\ \A d \in Potomkowie(j) :
                  /\ pc'[d] \in TylkoPotomne \cup {"obsluga", "sprzataj", "koniec"}
                  /\ pc'[d] \in {"brak", "przed_exec"} => krok'[d] = 1
             /\ pc'[glowny(j)] \in {"sprzataj", "koniec"} /\ "fork" \notin bledy' =>
                  \A d \in Potomkowie(j) : pc'[d] \in {"gotowe", "koniec", "brak"}
  <2>1. /\ pc[glowny(j)] \notin TylkoPotomne
        /\ pc[glowny(j)] \in PrzedProducentem => pc[<<j, "producent">>] = "brak"
        /\ pc[glowny(j)] \in PrzedKonsumentem => pc[<<j, "konsument">>] = "brak"
        /\ \A d \in Potomkowie(j) :
             /\ pc[d] \in TylkoPotomne \cup {"obsluga", "sprzataj", "koniec"}
             /\ pc[d] \in {"brak", "przed_exec"} => krok[d] = 1
        /\ pc[glowny(j)] \in {"sprzataj", "koniec"} /\ "fork" \notin bledy =>
             \A d \in Potomkowie(j) : ~ Zywy(d)
    BY <1>5 DEF Drzewo, Etapy, CzekaNaPotomkow, glowny
  <2>2. /\ glowny(j) \in Proces /\ glowny(j) # c
        /\ \A d \in Potomkowie(j) : d \in Proces /\ d # p
        /\ <<j, "producent">> \in Potomkowie(j) /\ <<j, "konsument">> \in Potomkowie(j)
    BY Pary DEF Potomek, p, c
  <2>3. CASE j = i
    <3>1. glowny(j) = p /\ c = <<j, r>>
      BY <2>3 DEF p, c
    <3>2. <<j, "producent">> # <<j, "konsument">>
      OBVIOUS
    <3> QED BY <1>1, <1>2, <1>3, <1>4, <2>1, <2>2, <3>1, <3>2
            DEF Fork, Pid, Zywy, Martwy, TylkoPotomne, PrzedProducentem, PrzedKonsumentem
  <2>4. CASE j # i
    <3>1. glowny(j) # p /\ c \notin Potomkowie(j)
      BY <2>4, Pary DEF p, c
    <3> QED BY <1>2, <1>3, <2>1, <2>2, <3>1 DEF Zywy, Martwy
  <2> QED BY <2>3, <2>4
<1>6. Etapy'
  BY <1>5 DEF Etapy
<1>7. CzekaNaPotomkow'
  BY <1>5 DEF CzekaNaPotomkow, Zywy, Martwy, glowny
<1> QED BY <1>2, <1>3, <1>4, <1>6, <1>7 DEF p, c

(* With one SIGINT sent in all, main is never killed by a second one.      *)
LEMMA SygnalStep ==
  ASSUME Drzewo, MaxSigint <= 1, [Next]_vars
  PROVE  JedenSygnal'
<1> USE DEF Drzewo
<1>1. CASE UNCHANGED sygnaly
  BY <1>1 DEF sygnaly, JedenSygnal
<1>2. ASSUME NEW p \in Proces, Dostarcz(p) PROVE JedenSygnal'
  <2>1. /\ p \in zalegle /\ zalegle' = zalegle \ {p} /\ wyslane' = wyslane
        /\ domyslny' = domyslny \/ domyslny' = domyslny \cup {p}
    BY <1>2 DEF Dostarcz
  <2> QED BY <2>1 DEF JedenSygnal
<1>3. ASSUME NEW p \in Proces, Obsluga(p) PROVE JedenSygnal'
  <2>1. \A i \in Instancje : glowny(i) \in zalegle' => glowny(i) \in zalegle
    <3>1. p[1] \in Instancje /\ ZnanePid(p) \subseteq Potomek
      BY Pary DEF ZnanePid, TypeOK, Rola, Potomek
    <3>2. \A i \in Instancje : glowny(i) \notin {p[1]} \X ZnanePid(p)
      BY <3>1 DEF glowny, Potomek
    <3> QED BY <1>3, <3>2 DEF Obsluga
  <2> QED BY <1>3, <2>1 DEF Obsluga, JedenSygnal
<1>4. ASSUME NEW i \in Instancje, NEW komu, Sigint(i, komu) PROVE JedenSygnal'
  <2>1. wyslane = 0 /\ wyslane' = 1 /\ domyslny' = domyslny
    BY <1>4, CyklAssumption DEF Sigint, TypeOK
  <2> QED BY <2>1 DEF JedenSygnal
<1>5. ASSUME NEW i \in Instancje, Tworz(i) \/ Sprawdz(i) \/ Czekaj(i) PROVE UNCHANGED sygnaly
  BY <1>5 DEF Tworz, Sprawdz, Czekaj
<1>6. ASSUME NEW i \in Instancje, NEW r \in Potomek,
             ForkUdany(i, r) \/ ZapiszPid(i, r) \/ ForkNieudany(i, r) PROVE UNCHANGED sygnaly
  BY <1>6 DEF ForkUdany, ZapiszPid, ForkNieudany
<1>7. ASSUME NEW c, Exec(c) \/ ExecNieudany(c) \/ Otworz(c) \/ Gotowe(c) \/ Awaria(c)
      PROVE  UNCHANGED sygnaly
  BY <1>7 DEF Exec, ExecNieudany, Otworz, Gotowe, Awaria
<1>8. ASSUME NEW p \in Proces, Usun(p) PROVE UNCHANGED sygnaly
  BY <1>8 DEF Usun
<1>9. CASE UNCHANGED vars
  BY <1>1, <1>9 DEF vars
<1>10. ASSUME NEW p \in Proces, Krok(p) PROVE JedenSygnal'
  BY <1>1, <1>2, <1>3, <1>5, <1>6, <1>7, <1>8, <1>10, Pary DEF Krok
<1>11. CASE Zaklocenie
  BY <1>1, <1>4, <1>6, <1>7, <1>11 DEF Zaklocenie
<1> QED BY <1>9, <1>10, <1>11 DEF Next

(* Every action keeps what is said of the tree of processes.               *)
LEMMA DrzewoStep == MaxSigint <= 1 /\ Drzewo /\ [Next]_vars => Drzewo'
<1> SUFFICES ASSUME MaxSigint <= 1, Drzewo, [Next]_vars PROVE Drzewo'
  OBVIOUS
<1>1. TypeOK' /\ JedenSygnal' /\ Etapy /\ CzekaNaPotomkow
  BY TypStep, SygnalStep DEF Drzewo
<1>2. ASSUME NEW p \in Proces, Ruch(p) PROVE Etapy' /\ CzekaNaPotomkow'
  BY <1>1, <1>2, RuchKrok
<1>3. ASSUME UNCHANGED <<pc, krok, bledy>> PROVE Etapy' /\ CzekaNaPotomkow'
  BY <1>1, <1>3 DEF Etapy, CzekaNaPotomkow, Zywy, Martwy
<1>4. ASSUME NEW p \in Proces, Krok(p) PROVE Etapy' /\ CzekaNaPotomkow'
  <2>1. CASE p[2] = "main" /\ \E r \in Potomek : ForkUdany(p[1], r)
    BY <2>1, ForkDrzewo, Pary
  <2>2. CASE Usun(p) \/ Dostarcz(p) \/ Obsluga(p)
    BY <1>2, <2>2, RuchAkcji
  <2>3. CASE /\ p[2] = "main"
             /\ \/ Tworz(p[1]) \/ Sprawdz(p[1]) \/ Czekaj(p[1])
                \/ \E r \in Potomek : ZapiszPid(p[1], r)
    BY <1>2, <2>3, RuchGlownego, Pary
  <2>4. CASE p[2] # "main" /\ (Exec(p) \/ Otworz(p) \/ Gotowe(p))
    BY <1>2, <2>4, RuchPotomka, Pary
  <2> QED BY <1>4, <2>1, <2>2, <2>3, <2>4 DEF Krok
<1>5. ASSUME Zaklocenie PROVE Etapy' /\ CzekaNaPotomkow'
  <2>1. ASSUME NEW i \in Instancje, NEW r \in Potomek, ForkNieudany(i, r)
        PROVE  Etapy' /\ CzekaNaPotomkow'
    BY <1>2, <2>1, RuchGlownego, Pary
  <2>2. ASSUME NEW i \in Instancje, NEW c \in Potomkowie(i), ExecNieudany(c) \/ Awaria(c)
        PROVE  Etapy' /\ CzekaNaPotomkow'
    BY <1>2, <2>2, RuchPotomka, Pary
  <2>3. ASSUME NEW i \in Instancje, NEW komu, Sigint(i, komu)
        PROVE  Etapy' /\ CzekaNaPotomkow'
    BY <1>3, <2>3 DEF Sigint
  <2> QED BY <1>5, <2>1, <2>2, <2>3 DEF Zaklocenie
<1>6. Etapy' /\ CzekaNaPotomkow'
  BY <1>3, <1>4, <1>5 DEF Next, vars
<1> QED BY <1>1, <1>6 DEF Drzewo

-----------------------------------------------------------------------------
(* The four names, when the program runs once.                             *)

JednaInstancja == \A i, j \in Instancje : i = j
istnieje(k) == nazwy[Nazwa[k]] # Nikt

(* Names come and go in one order; so those there are follow each other.   *)
Przedzial == \A j, k, l \in 1..4 : j < k /\ k < l /\ istnieje(j) /\ istnieje(l) => istnieje(k)
Tworzone == \A i \in Instancje : pc[glowny(i)] = "tworz" =>
              \A k \in 1..4 : istnieje(k) <=> k < krok[glowny(i)]

(* Who cleans up leaves nothing behind itself.                             *)
ZaSoba == \A p \in Proces : pc[p] = "sprzataj" =>
            \A k \in 1..4 : k < krok[p] => ~ istnieje(k)

(* Once the first name is gone, or main has ended, somebody is at the      *)
(* first name there still is: main itself, or the one who makes main give  *)
(* up at a missing name.                                                   *)
Dalej == "sprzatanie" \notin bledy =>
  \A i \in Instancje, k \in 1..4 :
    istnieje(k) /\ (pc[glowny(i)] = "koniec" \/ ~ istnieje(1)) =>
      \E p \in Proces : pc[p] = "sprzataj" /\ istnieje(krok[p])
RazSprzata == "sprzatanie" \notin bledy => \A p \in sprzatal : pc[p] \in {"sprzataj", "koniec"}

IInv == Drzewo /\ Przedzial /\ Tworzone /\ ZaSoba /\ Dalej /\ RazSprzata

(* A step of the processes in P that neither creates nor removes a name.   *)
Obok(P) ==
  /\ nazwy' = nazwy /\ bledy \subseteq bledy'
  /\ \A q \in Proces \ P : pc'[q] = pc[q] /\ krok'[q] = krok[q]
  /\ sprzatal' \subseteq sprzatal \cup P
  /\ \A p \in P : /\ pc[p] = "sprzataj" => "sprzatanie" \in bledy'
                  /\ pc'[p] = "sprzataj" => krok'[p] = 1
                  /\ pc'[p] # "tworz"
                  /\ "sprzatanie" \notin bledy' =>
                       /\ p \in sprzatal' => pc'[p] \in {"sprzataj", "koniec"}
                       /\ p[2] = "main" => pc'[p] # "koniec"

(* Such a step keeps what is said of the names.                            *)
LEMMA ObokKrok ==
  ASSUME IInv, NEW P \in SUBSET Proces, Obok(P)
  PROVE  Przedzial' /\ Tworzone' /\ ZaSoba' /\ Dalej' /\ RazSprzata'
<1> USE DEF Obok, IInv
<1>1. \A k : istnieje(k)' <=> istnieje(k)
  BY DEF istnieje
<1>2. Przedzial'
  BY <1>1 DEF Przedzial
<1>3. Tworzone'
  BY <1>1, Pary DEF Tworzone
<1>4. ZaSoba'
  BY <1>1 DEF ZaSoba, Drzewo, TypeOK
<1>5. Dalej'
  <2> SUFFICES ASSUME "sprzatanie" \notin bledy', NEW i \in Instancje, NEW k \in 1..4,
                      istnieje(k), pc'[glowny(i)] = "koniec" \/ ~ istnieje(1)
               PROVE  \E p \in Proces : pc'[p] = "sprzataj" /\ istnieje(krok'[p])
    BY <1>1 DEF Dalej, istnieje
  <2>1. glowny(i) \in Proces /\ glowny(i)[2] = "main" /\ "sprzatanie" \notin bledy
    BY Pary
  <2>2. pc[glowny(i)] = "koniec" \/ ~ istnieje(1)
    BY <2>1
  <2>3. PICK p \in Proces : pc[p] = "sprzataj" /\ istnieje(krok[p])
    BY <2>1, <2>2 DEF Dalej
  <2> QED BY <2>1, <2>3
<1>6. RazSprzata'
  BY DEF RazSprzata, Drzewo, TypeOK
<1> QED BY <1>2, <1>3, <1>4, <1>5, <1>6

(* exit() is such a step: it starts at the first name.                     *)
LEMMA WyjscieObok ==
  ASSUME IInv, NEW p \in Proces, Wyjdz(p), nazwy' = nazwy, bledy \subseteq bledy',
         Zywy(p), pc[p] # "sprzataj"
  PROVE  Obok({p})
<1>1. "sprzatanie" \notin bledy' => p \notin sprzatal
  BY DEF IInv, RazSprzata, Zywy, Martwy
<1>2. TypeOK
  BY DEF IInv, Drzewo
<1> QED BY <1>1, <1>2, Wyjscie DEF Obok

(* So is a jump to a label other than cleanup().                           *)
LEMMA PrzejscieObok ==
  ASSUME IInv, NEW p \in Proces, NEW cel \in Etykiety \ {"sprzataj", "tworz"}, Skok(p, cel),
         UNCHANGED <<krok, nazwy, sprzatal>>, bledy \subseteq bledy', Zywy(p),
         pc[p] = "sprzataj" => "sprzatanie" \in bledy',
         p[2] = "main" => cel # "koniec"
  PROVE  Obok({p})
<1>1. "sprzatanie" \notin bledy' => p \notin sprzatal
  BY DEF IInv, RazSprzata, Zywy, Martwy
<1>2. TypeOK
  BY DEF IInv, Drzewo
<1> QED BY <1>1, <1>2, Przejscie DEF Obok

(* Every action but Tworz and Usun is such a step: first, those of SIGINT. *)
LEMMA ObokAkcji ==
  ASSUME IInv, MaxSigint <= 1, NEW p \in Proces, Dostarcz(p) \/ Obsluga(p)
  PROVE  Obok({p})
<1>1. /\ p[2] = "main" => p = glowny(p[1]) /\ p[1] \in Instancje
      /\ {"koniec", "obsluga", "czekaj_sig"} \subseteq Etykiety \ {"sprzataj", "tworz"}
  BY Pary, EtykietyLemat
<1>2. CASE Dostarcz(p)
  <2>1. /\ Zywy(p) /\ p \in zalegle /\ bledy \subseteq bledy'
        /\ UNCHANGED <<krok, nazwy, sprzatal>>
        /\ pc[p] = "sprzataj" => "sprzatanie" \in bledy'
        /\ \/ (p \in domyslny \/ PoExec(p)) /\ Skok(p, "koniec")
           \/ Skok(p, "obsluga")
    BY <1>2 DEF Dostarcz, stan
  <2>2. p[2] = "main" => p \notin domyslny /\ ~ PoExec(p)
    BY <1>1, <2>1 DEF IInv, Drzewo, JedenSygnal, Etapy, PoExec, TylkoPotomne
  <2> QED BY <1>1, <2>1, <2>2, PrzejscieObok
<1>3. CASE Obsluga(p)
  <2>1. /\ pc[p] = "obsluga" /\ Zywy(p) /\ UNCHANGED nazwy /\ bledy' = bledy
        /\ \/ Skok(p, "czekaj_sig") /\ UNCHANGED <<krok, sprzatal>>
           \/ Wyjdz(p)
    BY <1>3 DEF Obsluga, stan, Zywy, Martwy
  <2> QED BY <1>1, <2>1, PrzejscieObok, WyjscieObok
<1> QED BY <1>2, <1>3

(* main's actions after the creation of the names.                         *)
LEMMA ObokGlownego ==
  ASSUME IInv, NEW i \in Instancje,
         \/ Sprawdz(i) \/ Czekaj(i)
         \/ \E r \in Potomek : ZapiszPid(i, r) \/ ForkNieudany(i, r)
  PROVE  Obok({glowny(i)})
<1> DEFINE p == glowny(i)
<1>1. /\ p \in Proces /\ {"fork_p", "fork_k", "czekaj"} \subseteq Etykiety \ {"sprzataj", "tworz"}
      /\ \A r \in Potomek : r = "producent" \/ r = "konsument"
  BY Pary, EtykietyLemat DEF Potomek
<1>2. /\ Zywy(p) /\ pc[p] # "sprzataj" /\ UNCHANGED nazwy /\ bledy \subseteq bledy'
      /\ \/ \E cel \in {"fork_p", "fork_k", "czekaj"} :
              Skok(p, cel) /\ UNCHANGED <<krok, sprzatal>>
         \/ Wyjdz(p)
  BY <1>1 DEF Sprawdz, Czekaj, ZapiszPid, ForkNieudany, Fork, Pid, stan, glowny, Zywy, Martwy
<1> QED BY <1>1, <1>2, PrzejscieObok, WyjscieObok

(* fork(), a step of main and of the new child.                            *)
LEMMA ObokForka ==
  ASSUME IInv, NEW i \in Instancje, NEW r \in Potomek, ForkUdany(i, r)
  PROVE  Obok({glowny(i), <<i, r>>})
<1>1. /\ pc[<<i, r>>] = "brak" /\ pc'[<<i, r>>] = "przed_exec"
      /\ pc'[glowny(i)] = Pid(r) /\ pc[glowny(i)] = Fork(r)
      /\ \A q \in Proces : q # <<i, r>> /\ q # glowny(i) => pc'[q] = pc[q]
  BY ForkDrzewo DEF IInv
<1>2. UNCHANGED <<nazwy, bledy, krok, sprzatal>>
  BY DEF ForkUdany, stan
<1>3. "sprzatanie" \notin bledy => <<i, r>> \notin sprzatal /\ glowny(i) \notin sprzatal
  BY <1>1 DEF IInv, RazSprzata, Fork
<1> QED BY <1>1, <1>2, <1>3 DEF Obok, Pid, Fork

(* A child's actions.                                                      *)
LEMMA ObokPotomka ==
  ASSUME IInv, NEW i \in Instancje, NEW c \in Potomkowie(i),
         Exec(c) \/ ExecNieudany(c) \/ Otworz(c) \/ Gotowe(c) \/ Awaria(c)
  PROVE  Obok({c})
<1>1. /\ c \in Proces /\ c[2] # "main" /\ TypeOK
      /\ {"otwiera", "gotowe", "koniec", "pracuje"} \subseteq Etykiety \ {"sprzataj", "tworz"}
  BY Pary, EtykietyLemat DEF IInv, Drzewo
<1>2. Zywy(c) /\ pc[c] # "sprzataj" /\ UNCHANGED nazwy /\ bledy \subseteq bledy'
  BY DEF Exec, ExecNieudany, Otworz, Gotowe, Awaria, Zywy, Martwy, stan
<1>3. \/ \E cel \in {"otwiera", "gotowe", "koniec"} :
           Skok(c, cel) /\ UNCHANGED <<krok, sprzatal>>
      \/ Wyjdz(c)
      \/ pc[c] = "otwiera" /\ Nastepna(c, "pracuje") /\ UNCHANGED <<bledy, sprzatal>>
  BY DEF Exec, ExecNieudany, Otworz, Gotowe, Awaria
<1>4. CASE pc[c] = "otwiera" /\ Nastepna(c, "pracuje") /\ UNCHANGED <<bledy, sprzatal>>
  <2>1. /\ \A q \in Proces : q # c => pc'[q] = pc[q] /\ krok'[q] = krok[q]
        /\ pc'[c] \in {"otwiera", "pracuje"}
    BY <1>1, <1>4, Kolejna DEF TypeOK
  <2>2. "sprzatanie" \notin bledy => c \notin sprzatal
    BY <1>4 DEF IInv, RazSprzata
  <2> QED BY <1>1, <1>2, <1>4, <2>1, <2>2 DEF Obok
<1> QED BY <1>1, <1>2, <1>3, <1>4, PrzejscieObok, WyjscieObok

(* main adds a name to the first ones while nobody cleans up.              *)
LEMMA NazwyTworz ==
  ASSUME IInv, JednaInstancja, NEW i \in Instancje, Tworz(i)
  PROVE  /\ Przedzial' /\ Tworzone' /\ ZaSoba' /\ Dalej' /\ RazSprzata'
         /\ pc'[glowny(i)] # "tworz" => \A k \in 1..4 : istnieje(k)'
<1> DEFINE p == glowny(i)
           m == krok[p]
<1> USE DEF IInv
<1>1. p \in Proces /\ m \in 1..4 /\ TypeOK /\ \A j \in Instancje : j = i
  BY Pary DEF Drzewo, TypeOK, JednaInstancja
<1>2. /\ pc[p] = "tworz" /\ Nastepna(p, "sprawdz") /\ UNCHANGED <<sprzatal, bledy>>
      /\ nazwy' = [nazwy EXCEPT ![Nazwa[m]] = i] \/ (nazwy' = nazwy /\ istnieje(m))
  BY DEF Tworz, glowny, istnieje
<1>3. \A k \in 1..4 : istnieje(k) <=> k < m
  BY <1>1, <1>2 DEF Tworzone
<1>4. \A k \in 1..4 : istnieje(k)' <=> k <= m
  <2>1. nazwy' = [nazwy EXCEPT ![Nazwa[m]] = i]
    BY <1>1, <1>2, <1>3
  <2>2. \A k \in 1..4 : nazwy'[Nazwa[k]] = IF k = m THEN i ELSE nazwy[Nazwa[k]]
    BY <1>1, <2>1, CzteryNazwy DEF TypeOK
  <2> HIDE DEF m
  <2> QED BY <1>1, <1>3, <2>2, CyklAssumption DEF istnieje
<1>5. /\ \A q \in Proces : q # p => pc'[q] = pc[q] /\ krok'[q] = krok[q]
      /\ m < 4 => krok'[p] = m + 1 /\ pc'[p] = "tworz"
      /\ m = 4 => pc'[p] = "sprawdz"
  BY <1>1, <1>2, Kolejna, EtykietyLemat
<1>6. \A q \in Proces : pc[q] # "sprzataj"
  <2>1. \A c \in Potomkowie(i) : pc[c] = "brak"
    <3>1. pc[<<i, "producent">>] = "brak" /\ pc[<<i, "konsument">>] = "brak"
      BY <1>2 DEF Drzewo, Etapy, PrzedProducentem, PrzedKonsumentem
    <3> QED BY <3>1, Pary
  <2> QED BY <1>1, <1>2, <2>1, Pary
<1> HIDE DEF p, m
<1>7. \A q \in Proces : pc'[q] # "sprzataj"
  BY <1>1, <1>5, <1>6
<1>8. Przedzial'
  BY <1>1, <1>4 DEF Przedzial
<1>9. Tworzone'
  BY <1>1, <1>4, <1>5 DEF Tworzone, p
<1>10. ZaSoba'
  BY <1>7 DEF ZaSoba
<1>11. Dalej'
  <2>1. istnieje(1)' /\ \A j \in Instancje : pc'[glowny(j)] # "koniec"
    BY <1>1, <1>4, <1>5 DEF p
  <2> QED BY <2>1 DEF Dalej
<1>12. RazSprzata'
  BY <1>1, <1>2, <1>5 DEF RazSprzata, TypeOK
<1> QED BY <1>1, <1>4, <1>5, <1>8, <1>9, <1>10, <1>11, <1>12 DEF p

(* Removing a name leads to the next one; a missing name is behind who     *)
(* else cleans up.                                                         *)
LEMMA NazwyUsun ==
  ASSUME IInv, JednaInstancja, NEW p \in Proces, Usun(p)
  PROVE  Przedzial' /\ Tworzone' /\ ZaSoba' /\ Dalej' /\ RazSprzata'
<1> DEFINE m == krok[p]
<1> USE DEF IInv
<1>1. m \in 1..4 /\ TypeOK /\ pc[p] = "sprzataj" /\ UNCHANGED <<sprzatal, bledy>>
  BY DEF Drzewo, TypeOK, Usun
<1>2. \A k \in 1..4 : k < m => ~ istnieje(k)
  BY <1>1 DEF ZaSoba
<1>3. \A j \in Instancje : pc[glowny(j)] # "tworz" /\ pc'[glowny(j)] # "tworz"
  <2>1. ASSUME NEW j \in Instancje, pc[glowny(j)] = "tworz" PROVE FALSE
    <3>1. p # glowny(j) /\ p \in Potomkowie(j)
      BY <1>1, <2>1, Pary DEF JednaInstancja
    <3>2. pc[<<j, "producent">>] = "brak" /\ pc[<<j, "konsument">>] = "brak"
      BY <2>1 DEF Drzewo, Etapy, PrzedProducentem, PrzedKonsumentem
    <3> QED BY <1>1, <3>1, <3>2, Pary
  <2>2. \A j \in Instancje : pc'[glowny(j)] = "tworz" => pc[glowny(j)] = "tworz"
    <3>1. \A q \in Proces : pc'[q] = pc[q] \/ pc'[q] = "koniec"
      <4>1. CASE Skok(p, "koniec")
        BY <1>1, <4>1, Przejscie, EtykietyLemat
      <4>2. CASE Nastepna(p, "koniec")
        BY <1>1, <4>2, Kolejna, EtykietyLemat
      <4> QED BY <4>1, <4>2 DEF Usun
    <3> QED BY <3>1, Pary
  <2> QED BY <2>1, <2>2
<1>4. Tworzone'
  BY <1>3 DEF Tworzone
<1>5. CASE ~ istnieje(m)
  <2>1. Skok(p, "koniec") /\ nazwy' = nazwy /\ krok' = krok
    BY <1>5 DEF Usun, istnieje
  <2>2. pc'[p] = "koniec" /\ \A q \in Proces : q # p => pc'[q] = pc[q]
    BY <1>1, <2>1, Przejscie, EtykietyLemat
  <2>3. \A k : istnieje(k)' <=> istnieje(k)
    BY <2>1 DEF istnieje
  <2> HIDE DEF m
  <2>4. Przedzial' /\ ZaSoba' /\ RazSprzata'
    BY <1>1, <2>1, <2>2, <2>3 DEF Przedzial, ZaSoba, RazSprzata, TypeOK
  <2>5. Dalej'
    <3> SUFFICES ASSUME "sprzatanie" \notin bledy, NEW i \in Instancje, NEW k \in 1..4,
                        istnieje(k), pc'[glowny(i)] = "koniec" \/ ~ istnieje(1)
                 PROVE  \E q \in Proces : pc'[q] = "sprzataj" /\ istnieje(krok[q])
      BY <1>1, <2>1, <2>3 DEF Dalej, istnieje
    <3>1. pc[glowny(i)] = "koniec" \/ ~ istnieje(1)
      <4>1. CASE p = glowny(i)
        <5>1. m = 1 \/ (m > 1 /\ 1 \in 1..4)
          BY <1>1
        <5> QED BY <1>1, <1>2, <1>5, <5>1
      <4>2. CASE p # glowny(i)
        BY <2>2, <4>2, Pary
      <4> QED BY <4>1, <4>2
    <3>2. PICK q \in Proces : pc[q] = "sprzataj" /\ istnieje(krok[q])
      BY <3>1 DEF Dalej
    <3> QED BY <1>5, <2>2, <3>2 DEF m
  <2> QED BY <1>4, <2>4, <2>5
<1>6. CASE istnieje(m)
  <2>1. nazwy' = [nazwy EXCEPT ![Nazwa[m]] = Nikt] /\ Nastepna(p, "koniec")
    BY <1>6 DEF Usun, istnieje
  <2>2. \A k \in 1..4 : istnieje(k)' <=> istnieje(k) /\ k # m
    <3>1. \A k \in 1..4 : nazwy'[Nazwa[k]] = IF k = m THEN Nikt ELSE nazwy[Nazwa[k]]
      BY <1>1, <2>1, CzteryNazwy DEF TypeOK
    <3> QED BY <3>1 DEF istnieje
  <2>3. /\ \A q \in Proces : q # p => pc'[q] = pc[q] /\ krok'[q] = krok[q]
        /\ m < 4 => krok'[p] = m + 1 /\ pc'[p] = "sprzataj"
        /\ m = 4 => krok'[p] = 1 /\ pc'[p] = "koniec"
    BY <1>1, <2>1, Kolejna, EtykietyLemat
  <2> HIDE DEF m
  <2>4. Przedzial'
    BY <1>1, <1>2, <2>2 DEF Przedzial
  <2>5. ZaSoba'
    BY <1>1, <1>2, <2>2, <2>3 DEF ZaSoba
  <2>6. RazSprzata'
    BY <1>1, <2>3 DEF RazSprzata, TypeOK
  <2>7. Dalej'
    <3> SUFFICES ASSUME NEW k \in 1..4, istnieje(k)'
                 PROVE  \E q \in Proces : pc'[q] = "sprzataj" /\ (istnieje(krok[q]))'
      BY DEF Dalej
    <3>1. k > m /\ m < 4 /\ m + 1 \in 1..4
      BY <1>1, <1>2, <2>2
    <3>2. PICK l \in 1..4 : l = m + 1 /\ l # m
      BY <1>1, <3>1
    <3>3. istnieje(l)
      BY <1>1, <1>6, <2>2, <3>1, <3>2 DEF Przedzial
    <3>4. pc'[p] = "sprzataj" /\ krok'[p] = l /\ istnieje(l)'
      BY <1>1, <2>2, <2>3, <3>1, <3>2, <3>3
    <3> QED BY <3>4 DEF istnieje
  <2> QED BY <1>4, <2>4, <2>5, <2>6, <2>7
<1> QED BY <1>5, <1>6

(* At the start there is no name.                                          *)
LEMMA IInvInit == Init => IInv
<1> SUFFICES ASSUME Init PROVE IInv
  OBVIOUS
<1>1. Drzewo
  BY DrzewoInit
<1>2. \A k \in 1..4 : ~ istnieje(k)
  BY CzteryNazwy DEF Init, istnieje
<1>3. /\ \A i \in Instancje : pc[glowny(i)] = "tworz" /\ krok[glowny(i)] = 1
      /\ \A p \in Proces : pc[p] # "sprzataj"
  BY Pary DEF Init
<1>4. Przedzial /\ Tworzone /\ ZaSoba /\ Dalej
  BY <1>2, <1>3 DEF Przedzial, Tworzone, ZaSoba, Dalej
<1> QED BY <1>1, <1>4 DEF IInv, RazSprzata, Init

(* Every action keeps the invariant of the names.                          *)
LEMMA IInvStep == JednaInstancja /\ MaxSigint <= 1 /\ IInv /\ [Next]_vars => IInv'
<1> SUFFICES ASSUME JednaInstancja, MaxSigint <= 1, IInv, [Next]_vars PROVE IInv'
  OBVIOUS
<1> DEFINE Cel == Przedzial' /\ Tworzone' /\ ZaSoba' /\ Dalej' /\ RazSprzata'
<1>1. Drzewo'
  BY DrzewoStep DEF IInv
<1>2. ASSUME NEW P \in SUBSET Proces, Obok(P) PROVE Cel
  BY <1>2, ObokKrok
<1>3. ASSUME UNCHANGED <<stan, pc, krok, sprzatal, bledy>> PROVE Cel
  <2>1. Obok({})
    BY <1>3 DEF Obok, stan
  <2> QED BY <1>2, <2>1
<1>4. ASSUME NEW p \in Proces, Krok(p) PROVE Cel
  <2>1. ASSUME p[2] = "main", NEW r \in Potomek, ForkUdany(p[1], r) PROVE Cel
    <3>1. {glowny(p[1]), <<p[1], r>>} \subseteq Proces /\ p[1] \in Instancje
      BY Pary
    <3> QED BY <1>2, <2>1, <3>1, ObokForka
  <2>2. CASE Usun(p)
    BY <2>2, NazwyUsun
  <2>3. CASE Dostarcz(p) \/ Obsluga(p)
    BY <1>2, <2>3, ObokAkcji
  <2>4. CASE p[2] = "main" /\ Tworz(p[1])
    BY <2>4, NazwyTworz, Pary
  <2>5. CASE p[2] = "main" /\ (Sprawdz(p[1]) \/ Czekaj(p[1])
                               \/ \E r \in Potomek : ZapiszPid(p[1], r))
    <3>1. Obok({glowny(p[1])}) /\ glowny(p[1]) \in Proces
      BY <2>5, ObokGlownego, Pary
    <3> QED BY <1>2, <3>1
  <2>6. CASE p[2] # "main" /\ (Exec(p) \/ Otworz(p) \/ Gotowe(p))
    <3>1. Obok({p})
      BY <2>6, ObokPotomka, Pary
    <3> QED BY <1>2, <3>1
  <2> QED BY <1>4, <2>1, <2>2, <2>3, <2>4, <2>5, <2>6 DEF Krok
<1>5. ASSUME Zaklocenie PROVE Cel
  <2>1. ASSUME NEW i \in Instancje, NEW r \in Potomek, ForkNieudany(i, r) PROVE Cel
    <3>1. Obok({glowny(i)}) /\ glowny(i) \in Proces
      BY <2>1, ObokGlownego, Pary
    <3> QED BY <1>2, <3>1
  <2>2. ASSUME NEW i \in Instancje, NEW c \in Potomkowie(i), ExecNieudany(c) \/ Awaria(c)
        PROVE  Cel
    <3>1. Obok({c}) /\ c \in Proces
      BY <2>2, ObokPotomka, Pary
    <3> QED BY <1>2, <3>1
  <2>3. ASSUME NEW i \in Instancje, NEW komu, Sigint(i, komu) PROVE Cel
    BY <1>3, <2>3 DEF Sigint
  <2> QED BY <1>5, <2>1, <2>2, <2>3 DEF Zaklocenie
<1>6. Cel
  BY <1>3, <1>4, <1>5 DEF Next, vars
<1> QED BY <1>1, <1>6 DEF IInv

(* At the end nobody cleans up, so that nothing is left to remove.         *)
LEMMA BezWyciekuZ == Instancje # {} /\ IInv => BezWycieku
<1> SUFFICES ASSUME NEW i \in Instancje, IInv, Koniec, "sprzatanie" \notin bledy
             PROVE  Puste
  BY DEF BezWycieku
<1>1. glowny(i) \in Proces /\ pc[glowny(i)] = "koniec"
  BY Pary DEF Koniec, Zywy, Martwy, IInv, Drzewo, Etapy, TylkoPotomne
<1>2. \A k \in 1..4 : ~ istnieje(k)
  <2> SUFFICES ASSUME NEW k \in 1..4, istnieje(k) PROVE FALSE
    OBVIOUS
  <2>1. PICK p \in Proces : pc[p] = "sprzataj"
    BY <1>1 DEF IInv, Dalej
  <2> QED BY <2>1 DEF Koniec, Zywy, Martwy
<1> QED BY <1>2, CzteryNazwy DEF Puste, istnieje

-----------------------------------------------------------------------------
(* What the children open.                                                 *)

(* While nothing has gone wrong the names are there from the last one's    *)
(* creation until main has waited for its children.                        *)
Pelne == {"sprawdz", "fork_p", "pid_p", "fork_k", "pid_k", "czekaj"}
Otwierane == bledy = {} => \A i \in Instancje :
  /\ pc[glowny(i)] \notin {"obsluga", "czekaj_sig"}
  /\ pc[glowny(i)] \in Pelne => \A k \in 1..4 : istnieje(k)
  /\ \A c \in Potomkowie(i) :
       /\ pc[c] \notin {"obsluga", "sprzataj"}
       /\ \A k \in 1..4 : pc[c] = "pracuje" \/ (pc[c] = "otwiera" /\ k < krok[c])
                            => otwarte[c][Nazwa[k]] = i

(* The same of a step of the processes in P.                               *)
Otwarcie(P) == bledy' = {} =>
  /\ bledy = {} /\ nazwy' = nazwy
  /\ \A q \in Proces \ P : pc'[q] = pc[q] /\ krok'[q] = krok[q]
  /\ \A c \in Instancje \X Potomek : c \notin P => otwarte'[c] = otwarte[c]
  /\ \A p \in P :
       /\ p[2] = "main" => /\ pc'[p] \notin {"obsluga", "czekaj_sig"}
                           /\ pc'[p] \in Pelne => pc[p] \in Pelne
       /\ p[2] # "main" =>
            /\ pc'[p] \notin {"obsluga", "sprzataj"}
            /\ \A k \in 1..4 : pc'[p] = "pracuje" \/ (pc'[p] = "otwiera" /\ k < krok'[p])
                                 => otwarte'[p][Nazwa[k]] = p[1]

(* Such a step keeps what is said of opened objects.                       *)
LEMMA OtwarcieKrok ==
  ASSUME Otwierane, NEW P \in SUBSET Proces, Otwarcie(P)
  PROVE  Otwierane'
<1> SUFFICES ASSUME bledy' = {}, NEW i \in Instancje
             PROVE  /\ pc'[glowny(i)] \notin {"obsluga", "czekaj_sig"}
                    /\ pc'[glowny(i)] \in Pelne => \A k \in 1..4 : istnieje(k)'
                    /\ \A c \in Potomkowie(i) :
                         /\ pc'[c] \notin {"obsluga", "sprzataj"}
                         /\ \A k \in 1..4 : pc'[c] = "pracuje"
                                            \/ (pc'[c] = "otwiera" /\ k < krok'[c])
                              => otwarte'[c][Nazwa[k]] = i
  BY DEF Otwierane, istnieje, glowny
<1>1. \A k : istnieje(k)' <=> istnieje(k)
  BY DEF istnieje, Otwarcie
<1>2. glowny(i) \in Proces /\ glowny(i)[2] = "main"
      /\ \A c \in Potomkowie(i) : c \in Proces /\ c[2] # "main" /\ c[1] = i
                                  /\ c \in Instancje \X Potomek
  BY Pary
<1>3. /\ pc'[glowny(i)] \notin {"obsluga", "czekaj_sig"}
      /\ pc'[glowny(i)] \in Pelne => \A k \in 1..4 : istnieje(k)'
  BY <1>1, <1>2 DEF Otwierane, Otwarcie
<1>4. ASSUME NEW c \in Potomkowie(i), NEW k \in 1..4
      PROVE  /\ pc'[c] \notin {"obsluga", "sprzataj"}
             /\ pc'[c] = "pracuje" \/ (pc'[c] = "otwiera" /\ k < krok'[c])
                  => otwarte'[c][Nazwa[k]] = i
  BY <1>2 DEF Otwierane, Otwarcie
<1> QED BY <1>3, <1>4

(* main gets past the creation when all four names are there.              *)
LEMMA OtwieranieGlownego ==
  ASSUME IInv, Otwierane, JednaInstancja, NEW i \in Instancje,
         Tworz(i) \/ Sprawdz(i) \/ Czekaj(i) \/ \E r \in Potomek : ZapiszPid(i, r)
  PROVE  Otwierane'
<1> DEFINE p == glowny(i)
<1>1. /\ p \in Proces /\ p[2] = "main" /\ TypeOK /\ \A j \in Instancje : j = i
      /\ \A c \in Instancje \X Potomek : c # p
      /\ \A c \in Potomkowie(i) : c \in Proces /\ c # p
  BY Pary DEF IInv, Drzewo, JednaInstancja, glowny, Potomek
<1>2. CASE Tworz(i)
  <2>1. /\ pc'[p] \in {"tworz", "sprawdz"} /\ UNCHANGED <<otwarte, bledy>>
        /\ \A q \in Proces : q # p => pc'[q] = pc[q] /\ krok'[q] = krok[q]
    <3>1. Nastepna(p, "sprawdz") /\ pc[p] = "tworz" /\ UNCHANGED <<otwarte, bledy>>
      BY <1>2 DEF Tworz, glowny
    <3> QED BY <1>1, <3>1, Kolejna, EtykietyLemat DEF TypeOK
  <2>2. pc'[p] # "tworz" => \A k \in 1..4 : istnieje(k)'
    BY <1>2, NazwyTworz
  <2> HIDE DEF p
  <2> QED BY <1>1, <2>1, <2>2 DEF Otwierane, p, Pelne
<1>3. CASE Sprawdz(i) \/ Czekaj(i) \/ \E r \in Potomek : ZapiszPid(i, r)
  <2>1. /\ UNCHANGED <<otwarte, bledy, nazwy>>
        /\ pc[p] \in Pelne \/ pc[p] = "czekaj_sig"
        /\ \/ \E cel \in {"fork_p", "fork_k", "czekaj"} : Skok(p, cel) /\ krok' = krok
           \/ Wyjdz(p)
    BY <1>3 DEF Sprawdz, Czekaj, ZapiszPid, glowny, stan, Pelne, Pid
  <2>2. /\ pc'[p] \in {"fork_p", "fork_k", "czekaj", "sprzataj", "koniec"}
        /\ \A q \in Proces : q # p => pc'[q] = pc[q] /\ krok'[q] = krok[q]
    BY <1>1, <2>1, Przejscie, Wyjscie, EtykietyLemat
  <2>3. bledy = {} => pc[p] \in Pelne
    BY <2>1 DEF Otwierane
  <2>4. Otwarcie({p})
    BY <1>1, <2>1, <2>2, <2>3 DEF Otwarcie, Pelne
  <2> QED BY <1>1, <2>4, OtwarcieKrok
<1> QED BY <1>2, <1>3

(* A new child has opened nothing yet.                                     *)
LEMMA OtwieranieForka ==
  ASSUME IInv, Otwierane, NEW i \in Instancje, NEW r \in Potomek, ForkUdany(i, r)
  PROVE  Otwierane'
<1> DEFINE P == {glowny(i), <<i, r>>}
<1>1. /\ pc'[<<i, r>>] = "przed_exec" /\ pc'[glowny(i)] = Pid(r) /\ pc[glowny(i)] = Fork(r)
      /\ \A q \in Proces : q # <<i, r>> /\ q # glowny(i) => pc'[q] = pc[q]
  BY ForkDrzewo DEF IInv
<1>2. UNCHANGED <<nazwy, bledy, krok, otwarte>> /\ P \subseteq Proces
  BY Pary DEF ForkUdany, stan
<1>3. <<i, r>>[2] # "main" /\ glowny(i)[2] = "main"
  BY Pary
<1>4. Otwarcie(P)
  BY <1>1, <1>2, <1>3 DEF Otwarcie, Pelne, Fork, Pid
<1> QED BY <1>2, <1>4, OtwarcieKrok

(* While nothing has gone wrong a child that opens them finds all names.   *)
LEMMA NazwyDlaPotomka ==
  ASSUME IInv, Otwierane, NEW i \in Instancje, NEW c \in Potomkowie(i),
         pc[c] = "otwiera", bledy = {}, NEW k \in 1..4
  PROVE  istnieje(k)
<1>1. pc[glowny(i)] \in Etykiety
  BY Pary DEF IInv, Drzewo, TypeOK
<1>2. pc[glowny(i)] \notin TylkoPotomne /\ pc[glowny(i)] # "tworz"
  <2>1. c = <<i, "producent">> \/ c = <<i, "konsument">>
    BY Pary
  <2> QED BY <2>1 DEF IInv, Drzewo, Etapy, PrzedProducentem, PrzedKonsumentem
<1>3. pc[glowny(i)] \notin {"sprzataj", "koniec"}
  BY DEF IInv, Drzewo, CzekaNaPotomkow, glowny, Zywy, Martwy
<1>4. pc[glowny(i)] \notin {"obsluga", "czekaj_sig"}
  BY DEF Otwierane
<1>5. pc[glowny(i)] \in Pelne
  BY <1>1, <1>2, <1>3, <1>4 DEF Etykiety, Pelne, TylkoPotomne
<1> QED BY <1>5 DEF Otwierane

(* A child that opens a name finds what its own main made.                 *)
LEMMA OtwieraniePotomka ==
  ASSUME IInv, Otwierane, JednaInstancja, NEW i \in Instancje, NEW c \in Potomkowie(i),
         Exec(c) \/ Otworz(c) \/ Gotowe(c) \/ Awaria(c)
  PROVE  Otwierane'
<1>1. /\ c \in Proces /\ c \in Instancje \X Potomek /\ c[1] = i /\ c[2] # "main" /\ TypeOK
      /\ \A j \in Instancje : j = i
  BY Pary DEF IInv, Drzewo, JednaInstancja
<1>2. UNCHANGED <<nazwy, bledy>>
  BY DEF Exec, Otworz, Gotowe, Awaria, stan
<1>3. CASE Exec(c)
  <2>1. /\ pc[c] = "przed_exec" /\ Skok(c, "otwiera") /\ UNCHANGED <<krok, otwarte>>
    BY <1>3 DEF Exec, stan
  <2>2. krok[c] = 1
    BY <2>1 DEF IInv, Drzewo, Etapy
  <2>3. pc'[c] = "otwiera" /\ \A q \in Proces : q # c => pc'[q] = pc[q]
    BY <1>1, <2>1, Przejscie, EtykietyLemat
  <2>4. Otwarcie({c})
    BY <1>1, <1>2, <2>1, <2>2, <2>3 DEF Otwarcie
  <2> QED BY <1>1, <2>4, OtwarcieKrok
<1>4. CASE Gotowe(c) \/ Awaria(c)
  <2>1. /\ UNCHANGED <<krok, otwarte>> /\ \E cel \in {"gotowe", "koniec"} : Skok(c, cel)
    BY <1>4 DEF Gotowe, Awaria, stan
  <2>2. pc'[c] \in {"gotowe", "koniec"} /\ \A q \in Proces : q # c => pc'[q] = pc[q]
    BY <1>1, <2>1, Przejscie, EtykietyLemat
  <2>3. Otwarcie({c})
    BY <1>1, <1>2, <2>1, <2>2 DEF Otwarcie
  <2> QED BY <1>1, <2>3, OtwarcieKrok
<1>5. CASE Otworz(c)
  <2> DEFINE m == krok[c]
  <2>1. /\ m \in 1..4 /\ pc[c] = "otwiera" /\ Zywy(c)
        /\ otwarte' = [otwarte EXCEPT ![c][Nazwa[m]] = nazwy[Nazwa[m]]]
        /\ otwarte[c] \in [Nazwy -> Instancje \cup {Nikt}] /\ DOMAIN otwarte = Instancje \X Potomek
    BY <1>1, <1>5 DEF Otworz, Zywy, Martwy, TypeOK
  <2>2. bledy = {} => nazwy[Nazwa[m]] = i
    <3>1. bledy = {} => istnieje(m)
      BY <2>1, NazwyDlaPotomka
    <3> QED BY <1>1, <2>1, <3>1, CzteryNazwy DEF istnieje, TypeOK
  <2>3. /\ \A q \in Instancje \X Potomek : q # c => otwarte'[q] = otwarte[q]
        /\ \A k \in 1..4 : otwarte'[c][Nazwa[k]] = IF k = m THEN nazwy[Nazwa[m]]
                                                   ELSE otwarte[c][Nazwa[k]]
    BY <1>1, <2>1, CzteryNazwy
  <2>4. /\ \A q \in Proces : q # c => pc'[q] = pc[q] /\ krok'[q] = krok[q]
        /\ \/ pc'[c] = "koniec"
           \/ pc'[c] = "otwiera" /\ krok'[c] = m + 1
           \/ pc'[c] = "pracuje" /\ m = 4
    <3>1. CASE Skok(c, "koniec") /\ krok' = krok
      BY <1>1, <3>1, Przejscie, EtykietyLemat
    <3>2. CASE Nastepna(c, "pracuje")
      BY <1>1, <2>1, <3>2, Kolejna, EtykietyLemat
    <3> QED BY <1>5, <3>1, <3>2 DEF Otworz
  <2>5. bledy = {} => \A k \in 1..4 : k < m => otwarte[c][Nazwa[k]] = i
    BY <2>1 DEF Otwierane
  <2> HIDE DEF m
  <2>6. Otwarcie({c})
    BY <1>1, <1>2, <2>1, <2>2, <2>3, <2>4, <2>5 DEF Otwarcie
  <2> QED BY <1>1, <2>6, OtwarcieKrok
<1> QED BY <1>3, <1>4, <1>5

(* At the start nothing has been opened.                                   *)
LEMMA OtwieranieInit == Init => Otwierane
<1> SUFFICES ASSUME Init PROVE Otwierane
  OBVIOUS
<1>1. \A i \in Instancje : /\ pc[glowny(i)] = "tworz"
                           /\ \A c \in Potomkowie(i) : pc[c] = "brak"
  BY Pary DEF Init
<1> QED BY <1>1 DEF Otwierane, Pelne

(* Every action keeps what is said of opened objects.                      *)
LEMMA OtwieranieStep ==
  JednaInstancja /\ MaxSigint <= 1 /\ IInv /\ Otwierane /\ [Next]_vars => Otwierane'
<1> SUFFICES ASSUME JednaInstancja, MaxSigint <= 1, IInv, Otwierane, [Next]_vars
             PROVE  Otwierane'
  OBVIOUS
<1>1. ASSUME bledy' # {} PROVE Otwierane'
  BY <1>1 DEF Otwierane
<1>2. ASSUME UNCHANGED <<stan, pc, krok, bledy>> PROVE Otwierane'
  <2>1. Otwarcie({})
    BY <1>2 DEF Otwarcie, stan
  <2> QED BY <2>1, OtwarcieKrok
<1>3. ASSUME NEW p \in Proces, Usun(p) \/ Dostarcz(p) \/ Obsluga(p) PROVE Otwierane'
  <2>1. CASE Dostarcz(p)
    BY <1>1, <2>1 DEF Dostarcz
  <2> DEFINE i == p[1]
  <2>2. /\ i \in Instancje /\ TypeOK /\ \A j \in Instancje : j = i
        /\ p = glowny(i) \/ p \in Potomkowie(i)
    BY Pary DEF JednaInstancja, IInv, Drzewo
  <2>3. CASE Obsluga(p)
    <3>1. pc[p] = "obsluga" /\ bledy' = bledy
      BY <2>3 DEF Obsluga
    <3>2. bledy # {}
      BY <2>2, <3>1 DEF Otwierane
    <3> QED BY <1>1, <3>1, <3>2
  <2>4. CASE Usun(p)
    <3>1. /\ pc[p] = "sprzataj" /\ UNCHANGED <<otwarte, bledy>>
          /\ \/ Skok(p, "koniec") /\ krok' = krok
             \/ Nastepna(p, "koniec")
      BY <2>4 DEF Usun
    <3>2. /\ pc'[p] \in {"sprzataj", "koniec"}
          /\ \A q \in Proces : q # p => pc'[q] = pc[q] /\ krok'[q] = krok[q]
      <4>1. CASE Skok(p, "koniec") /\ krok' = krok
        BY <2>2, <4>1, Przejscie, EtykietyLemat
      <4>2. CASE Nastepna(p, "koniec")
        BY <2>2, <3>1, <4>2, Kolejna, EtykietyLemat DEF TypeOK
      <4> QED BY <3>1, <4>1, <4>2
    <3>3. CASE p \in Potomkowie(i)
      <4>1. bledy # {}
        BY <2>2, <3>1, <3>3 DEF Otwierane
      <4> QED BY <1>1, <3>1, <4>1
    <3>4. CASE p = glowny(i)
      <4>1. \A c \in Potomkowie(i) : c \in Proces /\ c # p
        BY <2>2, <3>4, Pary
      <4>2. pc'[p] \notin Pelne /\ pc'[p] \notin {"obsluga", "czekaj_sig"}
        BY <3>2 DEF Pelne
      <4> HIDE DEF i
      <4> QED BY <2>2, <3>1, <3>2, <3>4, <4>1, <4>2 DEF Otwierane
    <3> QED BY <2>2, <3>3, <3>4
  <2> QED BY <1>3, <2>1, <2>3, <2>4
<1>4. ASSUME NEW p \in Proces, Krok(p) PROVE Otwierane'
  <2>1. CASE p[2] = "main" /\ \E r \in Potomek : ForkUdany(p[1], r)
    BY <2>1, OtwieranieForka, Pary
  <2>2. CASE /\ p[2] = "main"
             /\ \/ Tworz(p[1]) \/ Sprawdz(p[1]) \/ Czekaj(p[1])
                \/ \E r \in Potomek : ZapiszPid(p[1], r)
    BY <2>2, OtwieranieGlownego, Pary
  <2>3. CASE p[2] # "main" /\ (Exec(p) \/ Otworz(p) \/ Gotowe(p))
    BY <2>3, OtwieraniePotomka, Pary
  <2> QED BY <1>3, <1>4, <2>1, <2>2, <2>3 DEF Krok
<1>5. ASSUME Zaklocenie PROVE Otwierane'
  <2>1. ASSUME NEW i \in Instancje, NEW r \in Potomek, ForkNieudany(i, r) PROVE Otwierane'
    BY <1>1, <2>1 DEF ForkNieudany
  <2>2. ASSUME NEW i \in Instancje, NEW c \in Potomkowie(i), ExecNieudany(c) PROVE Otwierane'
    BY <1>1, <2>2 DEF ExecNieudany
  <2>3. ASSUME NEW i \in Instancje, NEW c \in Potomkowie(i), Awaria(c) PROVE Otwierane'
    BY <2>3, OtwieraniePotomka
  <2>4. ASSUME NEW i \in Instancje, NEW komu, Sigint(i, komu) PROVE Otwierane'
    BY <1>2, <2>4 DEF Sigint
  <2> QED BY <1>5, <2>1, <2>2, <2>3, <2>4 DEF Zaklocenie
<1> QED BY <1>2, <1>4, <1>5 DEF Next, vars

(* A child that works has been through all four names.                     *)
LEMMA WszystkoOtwarteZ == Otwierane => WszystkoOtwarte
<1> SUFFICES ASSUME Otwierane, NEW c \in Instancje \X Potomek, pc[c] = "pracuje", bledy = {},
                    NEW n \in Nazwy
             PROVE  otwarte[c][n] = c[1]
  BY DEF WszystkoOtwarte
<1>1. c[1] \in Instancje /\ c \in Potomkowie(c[1])
  BY DEF Potomkowie
<1> QED BY <1>1, CzteryNazwy DEF Otwierane

-----------------------------------------------------------------------------
(* How many steps are left.                                                *)

(* What a process has before it at a label, weighed so that a label can    *)
(* only be left for a lighter one, but for the handler, which comes once.  *)
Waga(e) == CASE e = "tworz"      -> 13
             [] e = "sprawdz"    -> 12
             [] e = "fork_p"     -> 11
             [] e = "pid_p"      -> 10
             [] e = "fork_k"     -> 9
             [] e = "pid_k"      -> 8
             [] e = "czekaj"     -> 7
             [] e = "brak"       -> 12
             [] e = "przed_exec" -> 11
             [] e = "otwiera"    -> 10
             [] e = "pracuje"    -> 9
             [] e = "obsluga"    -> 6
             [] e = "czekaj_sig" -> 5
             [] e = "sprzataj"   -> 4
             [] OTHER            -> 0

(* The steps a process has left at most: its label, the names it has not   *)
(* come to yet, and the handler unless SIGINT has used it up.              *)
Reszta(p) == 4 * Waga(pc[p]) + (4 - krok[p]) + (IF p \in domyslny THEN 0 ELSE 60)

Naturalne == MaxSigint - wyslane \in Nat /\ \A p \in Proces : Reszta(p) \in Nat

(* A step from outside is one of finitely many SIGINTs; every other step   *)
(* uses up what some process has left and gives nothing back to another.   *)
Ubylo == \/ wyslane' = wyslane + 1 /\ \A p \in Proces : Reszta(p)' = Reszta(p)
         \/ /\ wyslane' = wyslane
            /\ \A p \in Proces : Reszta(p)' <= Reszta(p)
            /\ \E p \in Proces : Reszta(p)' < Reszta(p)
Ubywa == [][Ubylo]_vars

(* No process is forked twice: before main's fork() its child is not there.*)
Kolejnosc == \A i \in Instancje :
  /\ pc[glowny(i)] \in PrzedProducentem => pc[<<i, "producent">>] = "brak"
  /\ pc[glowny(i)] \in PrzedKonsumentem => pc[<<i, "konsument">>] = "brak"

(* The weights, one by one.                                                *)
LEMMA Wagi ==
  /\ Waga("tworz") = 13 /\ Waga("sprawdz") = 12 /\ Waga("fork_p") = 11 /\ Waga("pid_p") = 10
  /\ Waga("fork_k") = 9 /\ Waga("pid_k") = 8 /\ Waga("czekaj") = 7 /\ Waga("brak") = 12
  /\ Waga("przed_exec") = 11 /\ Waga("otwiera") = 10 /\ Waga("pracuje") = 9
  /\ Waga("obsluga") = 6 /\ Waga("czekaj_sig") = 5 /\ Waga("sprzataj") = 4
  /\ Waga("gotowe") = 0 /\ Waga("koniec") = 0
  BY DEF Waga

(* They are numbers up to 13.                                              *)
LEMMA WagiLiczby == \A e \in Etykiety : Waga(e) \in 0..13
  BY Wagi DEF Etykiety

(* What is left to a process is a number.                                  *)
LEMMA ResztyNaturalne == TypeOK => Naturalne
<1> SUFFICES ASSUME TypeOK PROVE Naturalne
  OBVIOUS
<1>1. MaxSigint - wyslane \in Nat
  BY CyklAssumption DEF TypeOK
<1>2. ASSUME NEW p \in Proces PROVE Reszta(p) \in Nat
  <2>1. Waga(pc[p]) \in 0..13 /\ krok[p] \in 1..4
    BY WagiLiczby DEF TypeOK
  <2> QED BY <2>1 DEF Reszta
<1> QED BY <1>1, <1>2 DEF Naturalne

(* A process that goes on to a lighter label, or to the next name, has     *)
(* less left.                                                              *)
LEMMA Lzej ==
  ASSUME TypeOK, TypeOK', NEW p \in Proces, domyslny' = domyslny,
         \/ Waga(pc'[p]) < Waga(pc[p])
         \/ pc'[p] = pc[p] /\ krok'[p] > krok[p]
  PROVE  Reszta(p)' < Reszta(p)
<1>1. /\ Waga(pc[p]) \in 0..13 /\ krok[p] \in 1..4
      /\ Waga(pc'[p]) \in 0..13 /\ krok'[p] \in 1..4
  BY WagiLiczby DEF TypeOK
<1>2. Reszta(p)' = 4 * Waga(pc'[p]) + (4 - krok'[p]) + (IF p \in domyslny THEN 0 ELSE 60)
  BY DEF Reszta
<1>3. CASE Waga(pc'[p]) < Waga(pc[p])
  BY <1>1, <1>2, <1>3 DEF Reszta
<1>4. CASE pc'[p] = pc[p] /\ krok'[p] > krok[p]
  BY <1>1, <1>2, <1>4 DEF Reszta
<1> QED BY <1>3, <1>4

(* So has one whose handler is entered, wherever that happens.             *)
LEMMA PoHandlerze ==
  ASSUME TypeOK, TypeOK', NEW p \in Proces, p \notin domyslny, p \in domyslny',
         pc'[p] = "obsluga"
  PROVE  Reszta(p)' < Reszta(p)
<1>1. /\ Waga(pc[p]) \in 0..13 /\ krok[p] \in 1..4 /\ krok'[p] \in 1..4
      /\ Waga(pc'[p]) = 6
  BY Wagi, WagiLiczby DEF TypeOK
<1>2. Reszta(p)' \in Int /\ Reszta(p)' < 60
  BY <1>1 DEF Reszta
<1>3. Reszta(p) \in Int /\ Reszta(p) >= 60
  BY <1>1 DEF Reszta
<1> QED BY <1>1, <1>2, <1>3

(* A step of p alone.                                                      *)
Idzie(p) ==
  /\ Zywy(p) /\ wyslane' = wyslane
  /\ \A q \in Proces : q # p => /\ pc'[q] = pc[q] /\ krok'[q] = krok[q]
                                /\ q \in domyslny' <=> q \in domyslny
  /\ Reszta(p)' < Reszta(p)
  /\ p[2] = "main" => /\ pc'[p] \in PrzedProducentem => pc[p] \in PrzedProducentem
                      /\ pc'[p] \in PrzedKonsumentem => pc[p] \in PrzedKonsumentem

(* It takes from p only, and starts no process.                            *)
LEMMA IdzieKrok ==
  ASSUME TypeOK, TypeOK', Kolejnosc, NEW p \in Proces, Idzie(p)
  PROVE  Ubylo /\ Kolejnosc'
<1>1. \A q \in Proces : q # p => Reszta(q)' = Reszta(q)
  BY DEF Idzie, Reszta
<1>2. \A q \in Proces : Reszta(q) \in Nat /\ Reszta(q)' \in Nat
  <2>1. TypeOK' => Naturalne'
    BY ResztyNaturalne, PTL
  <2> QED BY <2>1, ResztyNaturalne DEF Naturalne
<1>3. \A q \in Proces : Reszta(q)' <= Reszta(q)
  <2> SUFFICES ASSUME NEW q \in Proces PROVE Reszta(q)' <= Reszta(q)
    OBVIOUS
  <2>1. Reszta(q)' = Reszta(q) \/ Reszta(q)' < Reszta(q)
    BY <1>1 DEF Idzie
  <2>2. Reszta(q) \in Nat /\ Reszta(q)' \in Nat
    BY <1>2
  <2> QED BY <2>1, <2>2
<1>4. Ubylo
  BY <1>3 DEF Idzie, Ubylo
<1>5. Kolejnosc'
  <2> SUFFICES ASSUME NEW i \in Instancje
               PROVE  /\ pc'[glowny(i)] \in PrzedProducentem => pc'[<<i, "producent">>] = "brak"
                      /\ pc'[glowny(i)] \in PrzedKonsumentem => pc'[<<i, "konsument">>] = "brak"
    BY DEF Kolejnosc, glowny
  <2>1. /\ glowny(i) \in Proces /\ glowny(i)[2] = "main"
        /\ \A r \in Potomek : <<i, r>> \in Proces /\ <<i, r>>[2] # "main"
    BY Pary
  <2>2. pc[p] # "brak"
    BY DEF Idzie, Zywy
  <2> QED BY <2>1, <2>2 DEF Idzie, Kolejnosc, Potomek
<1> QED BY <1>4, <1>5

(* SIGINT, its handler and cleanup().                                      *)
LEMMA IdzieAkcji ==
  ASSUME TypeOK, TypeOK', NEW p \in Proces, Usun(p) \/ Dostarcz(p) \/ Obsluga(p)
  PROVE  Idzie(p)
<1> USE DEF PrzedProducentem, PrzedKonsumentem
<1>1. CASE Usun(p)
  <2>1. pc[p] = "sprzataj" /\ UNCHANGED <<domyslny, wyslane>>
    BY <1>1 DEF Usun, sygnaly
  <2>2. /\ \A q \in Proces : q # p => pc'[q] = pc[q] /\ krok'[q] = krok[q]
        /\ pc'[p] = "koniec" \/ (pc'[p] = pc[p] /\ krok'[p] > krok[p])
    <3>1. CASE Skok(p, "koniec") /\ krok' = krok
      BY <3>1, Przejscie, EtykietyLemat
    <3>2. CASE Nastepna(p, "koniec")
      BY <3>2, Kolejna, EtykietyLemat DEF TypeOK
    <3> QED BY <1>1, <3>1, <3>2 DEF Usun
  <2>3. Waga("koniec") < Waga("sprzataj")
    BY Wagi
  <2>4. Reszta(p)' < Reszta(p)
    BY <2>1, <2>2, <2>3, Lzej
  <2> QED BY <2>1, <2>2, <2>4 DEF Idzie, Zywy, Martwy
<1>2. CASE Dostarcz(p)
  <2>1. Zywy(p) /\ wyslane' = wyslane /\ krok' = krok
    BY <1>2 DEF Dostarcz
  <2>2. CASE Skok(p, "koniec") /\ domyslny' = domyslny
    <3>1. pc'[p] = "koniec" /\ \A q \in Proces : q # p => pc'[q] = pc[q]
      BY <2>2, Przejscie, EtykietyLemat
    <3>2. Waga("koniec") < Waga(pc[p])
      <4>1. pc[p] \in Etykiety \ {"brak", "gotowe", "koniec"}
        BY <2>1 DEF Zywy, Martwy, TypeOK
      <4> QED BY <4>1, Wagi DEF Etykiety
    <3>3. Reszta(p)' < Reszta(p)
      BY <2>2, <3>1, <3>2, Lzej
    <3> QED BY <2>1, <2>2, <3>1, <3>3 DEF Idzie
  <2>3. CASE p \notin domyslny /\ Skok(p, "obsluga") /\ domyslny' = domyslny \cup {p}
    <3>1. pc'[p] = "obsluga" /\ \A q \in Proces : q # p => pc'[q] = pc[q]
      BY <2>3, Przejscie, EtykietyLemat
    <3>2. Reszta(p)' < Reszta(p)
      BY <2>3, <3>1, PoHandlerze
    <3> QED BY <2>1, <2>3, <3>1, <3>2 DEF Idzie
  <2> QED BY <1>2, <2>2, <2>3 DEF Dostarcz
<1>3. CASE Obsluga(p)
  <2>1. pc[p] = "obsluga" /\ UNCHANGED <<domyslny, wyslane>>
    BY <1>3 DEF Obsluga
  <2>2. /\ \A q \in Proces : q # p => pc'[q] = pc[q] /\ krok'[q] = krok[q]
        /\ pc'[p] \in {"czekaj_sig", "sprzataj", "koniec"}
    <3>1. CASE Skok(p, "czekaj_sig") /\ krok' = krok
      BY <3>1, Przejscie, EtykietyLemat
    <3>2. CASE Wyjdz(p)
      BY <3>2, Wyjscie
    <3> QED BY <1>3, <3>1, <3>2 DEF Obsluga
  <2>3. Waga(pc'[p]) < Waga(pc[p])
    BY <2>1, <2>2, Wagi
  <2>4. Reszta(p)' < Reszta(p)
    BY <2>1, <2>3, Lzej
  <2> QED BY <2>1, <2>2, <2>4 DEF Idzie, Zywy, Martwy
<1> QED BY <1>1, <1>2, <1>3

(* main's own steps but fork().                                            *)
LEMMA IdzieGlowny ==
  ASSUME TypeOK, TypeOK', NEW i \in Instancje,
         \/ Tworz(i) \/ Sprawdz(i) \/ Czekaj(i)
         \/ \E r \in Potomek : ZapiszPid(i, r) \/ ForkNieudany(i, r)
  PROVE  Idzie(glowny(i))
<1> DEFINE p == glowny(i)
<1> USE DEF PrzedProducentem, PrzedKonsumentem
<1>0. p \in Proces /\ p[2] = "main"
  BY Pary
<1>1. UNCHANGED <<domyslny, wyslane>>
  BY DEF Tworz, Sprawdz, Czekaj, ZapiszPid, ForkNieudany, sygnaly
<1>2. /\ \A q \in Proces : q # p => pc'[q] = pc[q] /\ krok'[q] = krok[q]
      /\ \/ pc[p] = "tworz" /\ pc'[p] = "tworz" /\ krok'[p] > krok[p]
         \/ pc[p] = "tworz" /\ pc'[p] = "sprawdz"
         \/ pc[p] = "sprawdz" /\ pc'[p] = "fork_p"
         \/ pc[p] = "pid_p" /\ pc'[p] = "fork_k"
         \/ pc[p] = "pid_k" /\ pc'[p] = "czekaj"
         \/ /\ pc[p] \in {"sprawdz", "fork_p", "fork_k", "czekaj", "czekaj_sig"}
            /\ pc'[p] \in {"sprzataj", "koniec"}
  <2>1. CASE Tworz(i)
    <3>1. pc[p] = "tworz" /\ Nastepna(p, "sprawdz")
      BY <2>1 DEF Tworz, glowny
    <3> HIDE DEF p
    <3> QED BY <1>0, <3>1, Kolejna, EtykietyLemat DEF TypeOK
  <2>2. CASE Sprawdz(i)
    <3>1. /\ pc[p] = "sprawdz"
          /\ (Skok(p, "fork_p") /\ krok' = krok) \/ Wyjdz(p)
      BY <2>2 DEF Sprawdz, glowny
    <3> HIDE DEF p
    <3>2. CASE Skok(p, "fork_p") /\ krok' = krok
      BY <1>0, <3>1, <3>2, Przejscie, EtykietyLemat
    <3>3. CASE Wyjdz(p)
      BY <1>0, <3>1, <3>3, Wyjscie
    <3> QED BY <3>1, <3>2, <3>3
  <2>3. CASE Czekaj(i)
    <3>1. pc[p] \in {"czekaj", "czekaj_sig"} /\ Wyjdz(p)
      BY <2>3 DEF Czekaj, glowny
    <3> HIDE DEF p
    <3> QED BY <1>0, <3>1, Wyjscie
  <2>4. ASSUME NEW r \in Potomek, ZapiszPid(i, r)
        PROVE  /\ \A q \in Proces : q # p => pc'[q] = pc[q] /\ krok'[q] = krok[q]
               /\ \/ pc[p] = "pid_p" /\ pc'[p] = "fork_k"
                  \/ pc[p] = "pid_k" /\ pc'[p] = "czekaj"
    <3>1. /\ pc[p] = IF r = "producent" THEN "pid_p" ELSE "pid_k"
          /\ Skok(p, IF r = "producent" THEN "fork_k" ELSE "czekaj") /\ krok' = krok
      BY <2>4 DEF ZapiszPid, Pid, glowny
    <3> HIDE DEF p
    <3>2. CASE r = "producent"
      BY <1>0, <3>1, <3>2, Przejscie, EtykietyLemat
    <3>3. CASE r # "producent"
      BY <1>0, <3>1, <3>3, Przejscie, EtykietyLemat
    <3> QED BY <3>2, <3>3
  <2>5. ASSUME NEW r \in Potomek, ForkNieudany(i, r)
        PROVE  /\ \A q \in Proces : q # p => pc'[q] = pc[q] /\ krok'[q] = krok[q]
               /\ pc[p] \in {"fork_p", "fork_k"} /\ pc'[p] \in {"sprzataj", "koniec"}
    <3>1. pc[p] \in {"fork_p", "fork_k"} /\ Wyjdz(p)
      BY <2>5 DEF ForkNieudany, Fork, glowny
    <3> HIDE DEF p
    <3> QED BY <1>0, <3>1, Wyjscie
  <2> HIDE DEF p
  <2> QED BY <2>1, <2>2, <2>3, <2>4, <2>5
<1> HIDE DEF p
<1>3. Waga(pc'[p]) < Waga(pc[p]) \/ (pc'[p] = pc[p] /\ krok'[p] > krok[p])
  BY <1>2, Wagi
<1>4. Reszta(p)' < Reszta(p)
  BY <1>0, <1>1, <1>3, Lzej
<1>5. Idzie(p)
  BY <1>0, <1>1, <1>2, <1>4 DEF Idzie, Zywy, Martwy
<1> QED BY <1>5 DEF p

(* Those of a child.                                                       *)
LEMMA IdziePotomek ==
  ASSUME TypeOK, TypeOK', NEW i \in Instancje, NEW c \in Potomkowie(i),
         Exec(c) \/ ExecNieudany(c) \/ Otworz(c) \/ Gotowe(c) \/ Awaria(c)
  PROVE  Idzie(c)
<1>0. c \in Proces /\ c[2] # "main"
  BY Pary
<1>1. UNCHANGED <<domyslny, wyslane>>
  BY DEF Exec, ExecNieudany, Otworz, Gotowe, Awaria, sygnaly
<1>2. /\ \A q \in Proces : q # c => pc'[q] = pc[q] /\ krok'[q] = krok[q]
      /\ \/ pc[c] = "otwiera" /\ pc'[c] = "otwiera" /\ krok'[c] > krok[c]
         \/ pc[c] = "przed_exec" /\ pc'[c] \in {"otwiera", "sprzataj", "koniec"}
         \/ pc[c] = "otwiera" /\ pc'[c] \in {"pracuje", "koniec"}
         \/ pc[c] = "pracuje" /\ pc'[c] \in {"gotowe", "koniec"}
  <2>1. CASE Exec(c)
    <3>1. pc[c] = "przed_exec" /\ Skok(c, "otwiera") /\ krok' = krok
      BY <2>1 DEF Exec
    <3> QED BY <1>0, <3>1, Przejscie, EtykietyLemat
  <2>2. CASE ExecNieudany(c)
    <3>1. pc[c] = "przed_exec" /\ Wyjdz(c)
      BY <2>2 DEF ExecNieudany
    <3> QED BY <1>0, <3>1, Wyjscie
  <2>3. CASE Otworz(c)
    <3>1. /\ pc[c] = "otwiera"
          /\ (Skok(c, "koniec") /\ krok' = krok) \/ Nastepna(c, "pracuje")
      BY <2>3 DEF Otworz
    <3>2. CASE Skok(c, "koniec") /\ krok' = krok
      BY <1>0, <3>1, <3>2, Przejscie, EtykietyLemat
    <3>3. CASE Nastepna(c, "pracuje")
      BY <1>0, <3>1, <3>3, Kolejna, EtykietyLemat DEF TypeOK
    <3> QED BY <3>1, <3>2, <3>3
  <2>4. CASE Gotowe(c) \/ Awaria(c)
    <3>1. /\ pc[c] = "pracuje" /\ krok' = krok
          /\ Skok(c, "gotowe") \/ Skok(c, "koniec")
      BY <2>4 DEF Gotowe, Awaria
    <3> QED BY <1>0, <3>1, Przejscie, EtykietyLemat
  <2> QED BY <2>1, <2>2, <2>3, <2>4
<1>3. Waga(pc'[c]) < Waga(pc[c]) \/ (pc'[c] = pc[c] /\ krok'[c] > krok[c])
  BY <1>2, Wagi
<1>4. Reszta(c)' < Reszta(c)
  BY <1>0, <1>1, <1>3, Lzej
<1> QED BY <1>0, <1>1, <1>2, <1>4 DEF Idzie, Zywy, Martwy

(* fork() moves main and the child it makes, which was not there.          *)
LEMMA UbyloForkiem ==
  ASSUME TypeOK, TypeOK', Kolejnosc, NEW i \in Instancje, NEW r \in Potomek,
         ForkUdany(i, r)
  PROVE  Ubylo /\ Kolejnosc'
<1> DEFINE p == glowny(i)
           c == <<i, r>>
<1>1. /\ p \in Proces /\ c \in Proces /\ p # c /\ pc \in [Proces -> Etykiety]
      /\ r = "producent" \/ r = "konsument"
  <2>1. p # c
    BY DEF glowny, Potomek
  <2> QED BY <2>1, Pary DEF Potomek, TypeOK
<1>2. /\ pc[p] = Fork(r) /\ pc' = [pc EXCEPT ![p] = Pid(r), ![c] = "przed_exec"]
      /\ UNCHANGED <<krok, domyslny, wyslane>>
  BY DEF ForkUdany, glowny, sygnaly
<1>3. /\ pc'[p] = Pid(r) /\ pc'[c] = "przed_exec"
      /\ \A q \in Proces : q # p /\ q # c => pc'[q] = pc[q]
  BY <1>1, <1>2
<1>4. pc[c] = "brak"
  BY <1>1, <1>2 DEF Kolejnosc, Fork, PrzedProducentem, PrzedKonsumentem
<1>5. /\ \A j \in Instancje : glowny(j) \in Proces /\ glowny(j) # c /\ (glowny(j) = p => j = i)
      /\ \A j \in Instancje, s \in Potomek : /\ <<j, s>> \in Proces /\ <<j, s>> # p
                                             /\ <<j, s>> = c => j = i /\ s = r
  BY Pary DEF glowny, Potomek
<1> HIDE DEF p, c
<1>6. Reszta(p)' < Reszta(p)
  <2>1. Waga(pc'[p]) < Waga(pc[p])
    BY <1>1, <1>2, <1>3, Wagi DEF Fork, Pid
  <2> QED BY <1>1, <1>2, <2>1, Lzej
<1>7. Reszta(c)' < Reszta(c)
  <2>1. Waga(pc'[c]) < Waga(pc[c])
    BY <1>3, <1>4, Wagi
  <2> QED BY <1>1, <1>2, <2>1, Lzej
<1>8. \A q \in Proces : q # p /\ q # c => Reszta(q)' = Reszta(q)
  BY <1>2, <1>3 DEF Reszta
<1>9. \A q \in Proces : Reszta(q) \in Nat /\ Reszta(q)' \in Nat
  <2>1. TypeOK' => Naturalne'
    BY ResztyNaturalne, PTL
  <2> QED BY <2>1, ResztyNaturalne DEF Naturalne
<1>10. \A q \in Proces : Reszta(q)' <= Reszta(q)
  <2> SUFFICES ASSUME NEW q \in Proces PROVE Reszta(q)' <= Reszta(q)
    OBVIOUS
  <2>1. Reszta(q)' = Reszta(q) \/ Reszta(q)' < Reszta(q)
    BY <1>6, <1>7, <1>8
  <2>2. Reszta(q) \in Nat /\ Reszta(q)' \in Nat
    BY <1>9
  <2> QED BY <2>1, <2>2
<1>11. Ubylo
  BY <1>1, <1>2, <1>6, <1>10 DEF Ubylo
<1>12. Kolejnosc'
  <2> SUFFICES ASSUME NEW j \in Instancje
               PROVE  /\ pc'[glowny(j)] \in PrzedProducentem => pc'[<<j, "producent">>] = "brak"
                      /\ pc'[glowny(j)] \in PrzedKonsumentem => pc'[<<j, "konsument">>] = "brak"
    BY DEF Kolejnosc, glowny
  <2>1. CASE j # i
    BY <1>3, <1>5, <2>1 DEF Kolejnosc, Potomek
  <2>2. CASE j = i
    <3>1. /\ glowny(j) = p /\ c = <<j, r>> /\ <<j, "producent">> # <<j, "konsument">>
      BY <2>2 DEF p, c
    <3> QED BY <1>1, <1>2, <1>3, <1>5, <3>1
            DEF Kolejnosc, Fork, Pid, PrzedProducentem, PrzedKonsumentem, Potomek
  <2> QED BY <2>1, <2>2
<1> QED BY <1>11, <1>12

(* Every step is one of these, or a SIGINT sent.                           *)
LEMMA UbyloKrok ==
  ASSUME TypeOK, TypeOK', Kolejnosc, [Next]_vars
  PROVE  [Ubylo]_vars /\ Kolejnosc'
<1>1. ASSUME NEW p \in Proces, Krok(p) PROVE Ubylo /\ Kolejnosc'
  <2>1. CASE p[2] = "main" /\ \E r \in Potomek : ForkUdany(p[1], r)
    BY <2>1, UbyloForkiem, Pary
  <2>2. CASE Usun(p) \/ Dostarcz(p) \/ Obsluga(p)
    BY <2>2, IdzieAkcji, IdzieKrok
  <2>3. CASE /\ p[2] = "main"
             /\ \/ Tworz(p[1]) \/ Sprawdz(p[1]) \/ Czekaj(p[1])
                \/ \E r \in Potomek : ZapiszPid(p[1], r)
    BY <2>3, IdzieGlowny, IdzieKrok, Pary
  <2>4. CASE p[2] # "main" /\ (Exec(p) \/ Otworz(p) \/ Gotowe(p))
    BY <2>4, IdziePotomek, IdzieKrok, Pary
  <2> QED BY <1>1, <2>1, <2>2, <2>3, <2>4 DEF Krok
<1>2. ASSUME NEW i \in Instancje, NEW r \in Potomek, ForkNieudany(i, r)
      PROVE  Ubylo /\ Kolejnosc'
  BY <1>2, IdzieGlowny, IdzieKrok, Pary
<1>3. ASSUME NEW i \in Instancje, NEW c \in Potomkowie(i), ExecNieudany(c) \/ Awaria(c)
      PROVE  Ubylo /\ Kolejnosc'
  BY <1>3, IdziePotomek, IdzieKrok, Pary
<1>4. ASSUME NEW i \in Instancje, NEW komu, Sigint(i, komu)
      PROVE  Ubylo /\ Kolejnosc'
  <2>1. wyslane' = wyslane + 1 /\ UNCHANGED <<pc, krok, domyslny>>
    BY <1>4 DEF Sigint
  <2> QED BY <2>1 DEF Ubylo, Reszta, Kolejnosc, glowny
<1>5. CASE UNCHANGED vars
  BY <1>5 DEF vars, Kolejnosc, glowny
<1>6. CASE Next
  BY <1>1, <1>2, <1>3, <1>4, <1>6 DEF Next, Zaklocenie
<1> QED BY <1>5, <1>6


-----------------------------------------------------------------------------
(* Who can go on, when the program runs once.                              *)

(* The processes Krok(p) has a step for: its guards.                       *)
Moze(p) == \/ p \in zalegle /\ Zywy(p)
           \/ pc[p] \in {"tworz", "sprawdz", "pid_p", "pid_k", "obsluga", "sprzataj",
                         "przed_exec", "otwiera"}
           \/ pc[p] \in {"fork_p", "fork_k"} /\ p \notin zalegle
           \/ pc[p] \in {"czekaj", "czekaj_sig"} /\ \A q \in Potomkowie(p[1]) : ~ Zywy(q)
           \/ /\ pc[p] = "pracuje" /\ Sprawny(p)
              /\ IF p[2] = "konsument"
                 THEN pc[<<p[1], "producent">>] = "gotowe"
                 ELSE DlugiPlik => /\ pc[<<p[1], "konsument">>] = "pracuje"
                                   /\ Sprawny(<<p[1], "konsument">>)

(* While nothing has failed, and after a Ctrl+C whatever has failed before *)
(* it, nobody waits for somebody who will not come.                        *)
BezZakleszczenia ==
  (bledy = {} \/ wyslane # 0) /\ ~ Koniec => \E p \in Proces : Moze(p)

(* Labels at which a process is on its way out, or not there.              *)
PozaPraca == {"brak", "obsluga", "czekaj_sig", "sprzataj", "gotowe", "koniec"}

(* Ctrl+C hits everybody, and nobody is forked afterwards: who is not on   *)
(* its way out yet has the signal pending.                                 *)
Trafieni == wyslane # 0 => \A p \in Proces : p \in zalegle \/ pc[p] \in PozaPraca

(* The producer is forked first, the consumer right after it; and while    *)
(* nothing has gone wrong neither fails, and the consumer ends last.       *)
Rodzenstwo == \A i \in Instancje :
  /\ pc[glowny(i)] \in {"pid_p", "fork_k"} \/ pc[<<i, "konsument">>] # "brak"
       => pc[<<i, "producent">>] # "brak"
  /\ bledy = {} =>
       /\ pc[<<i, "producent">>] # "brak" /\ pc[<<i, "konsument">>] = "brak"
            => pc[glowny(i)] \in {"pid_p", "fork_k"}
       /\ \A c \in Potomkowie(i) : pc[c] # "koniec"
       /\ pc[<<i, "konsument">>] = "gotowe" => pc[<<i, "producent">>] = "gotowe"

(* A step of p alone that starts no process.                               *)
Sam(p) ==
  /\ Zywy(p) /\ bledy \subseteq bledy' /\ wyslane' = wyslane
  /\ \A q \in Proces : q # p => pc'[q] = pc[q] /\ (q \in zalegle => q \in zalegle')
  /\ p \in zalegle \/ pc[p] \in PozaPraca => p \in zalegle' \/ pc'[p] \in PozaPraca
  /\ p[2] = "main" => /\ pc'[p] # "pid_p" /\ (pc'[p] = "fork_k" => pc[p] = "pid_p")
                      /\ bledy' = {} => /\ pc[p] # "fork_k"
                                        /\ pc[p] = "pid_p" => pc'[p] = "fork_k"
  /\ p[2] # "main" =>
       /\ pc'[p] # "brak"
       /\ bledy' = {} => /\ pc'[p] # "koniec"
                         /\ pc'[p] = "gotowe" /\ p[2] = "konsument"
                              => pc[<<p[1], "producent">>] = "gotowe"

(* Such a step keeps what is said of the signals and of the two children.  *)
LEMMA SamKrok ==
  ASSUME Trafieni, Rodzenstwo, NEW p \in Proces, Sam(p)
  PROVE  Trafieni' /\ Rodzenstwo'
<1>1. Trafieni'
  BY DEF Sam, Trafieni
<1>2. ASSUME NEW i \in Instancje
      PROVE  /\ pc'[glowny(i)] \in {"pid_p", "fork_k"} \/ pc'[<<i, "konsument">>] # "brak"
                  => pc'[<<i, "producent">>] # "brak"
             /\ bledy' = {} =>
                  /\ pc'[<<i, "producent">>] # "brak" /\ pc'[<<i, "konsument">>] = "brak"
                       => pc'[glowny(i)] \in {"pid_p", "fork_k"}
                  /\ \A c \in Potomkowie(i) : pc'[c] # "koniec"
                  /\ pc'[<<i, "konsument">>] = "gotowe" => pc'[<<i, "producent">>] = "gotowe"
  <2> DEFINE m == glowny(i)
             d == <<i, "producent">>
             k == <<i, "konsument">>
  <2>1. /\ m \in Proces /\ d \in Proces /\ k \in Proces
        /\ m[2] = "main" /\ d[2] # "main" /\ k[2] = "konsument" /\ k[1] = i
        /\ m # d /\ m # k /\ d # k /\ "konsument" # "main"
        /\ \A c \in Potomkowie(i) : c = d \/ c = k
        /\ d \in Potomkowie(i) /\ k \in Potomkowie(i)
    BY Pary DEF Potomek, Potomkowie
  <2>2. /\ pc[m] \in {"pid_p", "fork_k"} \/ pc[k] # "brak" => pc[d] # "brak"
        /\ bledy = {} => /\ pc[d] # "brak" /\ pc[k] = "brak" => pc[m] \in {"pid_p", "fork_k"}
                         /\ pc[d] # "koniec" /\ pc[k] # "koniec"
                         /\ pc[k] = "gotowe" => pc[d] = "gotowe"
    BY <2>1 DEF Rodzenstwo
  <2>3. bledy' = {} => bledy = {}
    BY DEF Sam
  <2>4. p # m => pc'[m] = pc[m]
    BY <2>1 DEF Sam
  <2>5. p # d => pc'[d] = pc[d]
    BY <2>1 DEF Sam
  <2>6. p # k => pc'[k] = pc[k]
    BY <2>1 DEF Sam
  <2>7. Zywy(p)
    BY DEF Sam
  <2>8. CASE p = m
    <3>1. /\ pc'[m] # "pid_p" /\ (pc'[m] = "fork_k" => pc[m] = "pid_p")
          /\ bledy' = {} => pc[m] # "fork_k" /\ (pc[m] = "pid_p" => pc'[m] = "fork_k")
      BY <2>1, <2>8 DEF Sam
    <3> HIDE DEF m, d, k
    <3> QED BY <2>1, <2>2, <2>3, <2>5, <2>6, <2>8, <3>1 DEF m, d, k
  <2>9. CASE p = d
    <3>1. /\ pc'[d] # "brak" /\ pc[d] \notin {"brak", "gotowe", "koniec"}
          /\ bledy' = {} => pc'[d] # "koniec"
      BY <2>1, <2>7, <2>9 DEF Sam, Zywy, Martwy
    <3> HIDE DEF m, d, k
    <3> QED BY <2>1, <2>2, <2>3, <2>4, <2>6, <2>9, <3>1 DEF m, d, k
  <2>10. CASE p = k
    <3>1. /\ pc'[k] # "brak" /\ pc[k] \notin {"brak", "gotowe", "koniec"}
          /\ bledy' = {} => pc'[k] # "koniec" /\ (pc'[k] = "gotowe" => pc[d] = "gotowe")
      BY <2>1, <2>7, <2>10 DEF Sam, Zywy, Martwy
    <3> HIDE DEF m, d, k
    <3> QED BY <2>1, <2>2, <2>3, <2>4, <2>5, <2>10, <3>1 DEF m, d, k
  <2>11. CASE p # m /\ p # d /\ p # k
    <3> HIDE DEF m, d, k
    <3> QED BY <2>1, <2>2, <2>3, <2>4, <2>5, <2>6, <2>11 DEF m, d, k
  <2> QED BY <2>8, <2>9, <2>10, <2>11
<1>3. Rodzenstwo'
  BY <1>2 DEF Rodzenstwo, glowny
<1> QED BY <1>1, <1>3

(* SIGINT, its handler and cleanup(): while nothing has gone wrong, only   *)
(* main does any of these.                                                 *)
LEMMA SamAkcji ==
  ASSUME TypeOK, Otwierane, NEW p \in Proces, Usun(p) \/ Dostarcz(p) \/ Obsluga(p)
  PROVE  Sam(p)
<1> USE DEF PozaPraca
<1>0. /\ p[2] = "main" => p = glowny(p[1]) /\ p[1] \in Instancje
      /\ p[2] # "main" => p \in Potomkowie(p[1]) /\ p[1] \in Instancje
  BY Pary
<1>1. CASE Usun(p)
  <2>1. pc[p] = "sprzataj" /\ UNCHANGED <<bledy, zalegle, wyslane>>
    BY <1>1 DEF Usun, sygnaly
  <2>2. /\ \A q \in Proces : q # p => pc'[q] = pc[q]
        /\ pc'[p] \in {"sprzataj", "koniec"}
    <3>1. CASE Skok(p, "koniec") /\ krok' = krok
      BY <3>1, Przejscie, EtykietyLemat
    <3>2. CASE Nastepna(p, "koniec")
      BY <2>1, <3>2, Kolejna, EtykietyLemat DEF TypeOK
    <3> QED BY <1>1, <3>1, <3>2 DEF Usun
  <2>3. p[2] # "main" => bledy # {}
    BY <1>0, <2>1 DEF Otwierane
  <2> QED BY <2>1, <2>2, <2>3 DEF Sam, Zywy, Martwy
<1>2. CASE Dostarcz(p)
  <2>1. /\ Zywy(p) /\ wyslane' = wyslane /\ zalegle' = zalegle \ {p}
        /\ bledy \subseteq bledy' /\ bledy' # {}
        /\ Skok(p, "koniec") \/ Skok(p, "obsluga")
    BY <1>2 DEF Dostarcz
  <2>2. /\ \A q \in Proces : q # p => pc'[q] = pc[q]
        /\ pc'[p] \in {"obsluga", "koniec"}
    BY <2>1, Przejscie, EtykietyLemat
  <2> QED BY <2>1, <2>2 DEF Sam
<1>3. CASE Obsluga(p)
  <2>1. pc[p] = "obsluga" /\ UNCHANGED <<bledy, wyslane>> /\ zalegle \subseteq zalegle'
    BY <1>3 DEF Obsluga
  <2>2. /\ \A q \in Proces : q # p => pc'[q] = pc[q]
        /\ pc'[p] \in {"czekaj_sig", "sprzataj", "koniec"}
    <3>1. CASE Skok(p, "czekaj_sig") /\ krok' = krok
      BY <3>1, Przejscie, EtykietyLemat
    <3>2. CASE Wyjdz(p)
      BY <3>2, Wyjscie
    <3> QED BY <1>3, <3>1, <3>2 DEF Obsluga
  <2>3. p[2] # "main" => bledy # {}
    BY <1>0, <2>1 DEF Otwierane
  <2> QED BY <2>1, <2>2, <2>3 DEF Sam, Zywy, Martwy
<1> QED BY <1>1, <1>2, <1>3

(* main's own steps but fork().                                            *)
LEMMA SamGlowny ==
  ASSUME TypeOK, NEW i \in Instancje,
         \/ Tworz(i) \/ Sprawdz(i) \/ Czekaj(i)
         \/ \E r \in Potomek : ZapiszPid(i, r) \/ ForkNieudany(i, r)
  PROVE  Sam(glowny(i))
<1> DEFINE p == glowny(i)
<1> USE DEF PozaPraca
<1>0. p \in Proces /\ p[2] = "main"
  BY Pary
<1>1. UNCHANGED <<zalegle, wyslane>> /\ bledy \subseteq bledy'
  BY DEF Tworz, Sprawdz, Czekaj, ZapiszPid, ForkNieudany, sygnaly
<1>2. /\ \A q \in Proces : q # p => pc'[q] = pc[q]
      /\ \/ pc[p] = "tworz" /\ pc'[p] \in {"tworz", "sprawdz"}
         \/ pc[p] = "sprawdz" /\ pc'[p] = "fork_p"
         \/ pc[p] = "pid_p" /\ pc'[p] = "fork_k"
         \/ pc[p] = "pid_k" /\ pc'[p] = "czekaj"
         \/ /\ pc[p] \in {"sprawdz", "czekaj", "czekaj_sig"}
            /\ pc'[p] \in {"sprzataj", "koniec"}
         \/ /\ pc[p] \in {"fork_p", "fork_k"} /\ pc'[p] \in {"sprzataj", "koniec"}
            /\ bledy' # {}
  <2>1. CASE Tworz(i)
    <3>1. pc[p] = "tworz" /\ Nastepna(p, "sprawdz")
      BY <2>1 DEF Tworz, glowny
    <3> HIDE DEF p
    <3> QED BY <1>0, <3>1, Kolejna, EtykietyLemat DEF TypeOK
  <2>2. CASE Sprawdz(i)
    <3>1. /\ pc[p] = "sprawdz"
          /\ (Skok(p, "fork_p") /\ krok' = krok) \/ Wyjdz(p)
      BY <2>2 DEF Sprawdz, glowny
    <3> HIDE DEF p
    <3>2. CASE Skok(p, "fork_p") /\ krok' = krok
      BY <1>0, <3>1, <3>2, Przejscie, EtykietyLemat
    <3>3. CASE Wyjdz(p)
      BY <1>0, <3>1, <3>3, Wyjscie
    <3> QED BY <3>1, <3>2, <3>3
  <2>3. CASE Czekaj(i)
    <3>1. pc[p] \in {"czekaj", "czekaj_sig"} /\ Wyjdz(p)
      BY <2>3 DEF Czekaj, glowny
    <3> HIDE DEF p
    <3> QED BY <1>0, <3>1, Wyjscie
  <2>4. ASSUME NEW r \in Potomek, ZapiszPid(i, r)
        PROVE  /\ \A q \in Proces : q # p => pc'[q] = pc[q]
               /\ \/ pc[p] = "pid_p" /\ pc'[p] = "fork_k"
                  \/ pc[p] = "pid_k" /\ pc'[p] = "czekaj"
    <3>1. /\ pc[p] = IF r = "producent" THEN "pid_p" ELSE "pid_k"
          /\ Skok(p, IF r = "producent" THEN "fork_k" ELSE "czekaj")
      BY <2>4 DEF ZapiszPid, Pid, glowny
    <3> HIDE DEF p
    <3>2. CASE r = "producent"
      BY <1>0, <3>1, <3>2, Przejscie, EtykietyLemat
    <3>3. CASE r # "producent"
      BY <1>0, <3>1, <3>3, Przejscie, EtykietyLemat
    <3> QED BY <3>2, <3>3
  <2>5. ASSUME NEW r \in Potomek, ForkNieudany(i, r)
        PROVE  /\ \A q \in Proces : q # p => pc'[q] = pc[q]
               /\ pc[p] \in {"fork_p", "fork_k"} /\ pc'[p] \in {"sprzataj", "koniec"}
               /\ bledy' # {}
    <3>1. pc[p] \in {"fork_p", "fork_k"} /\ Wyjdz(p) /\ bledy' # {}
      BY <2>5 DEF ForkNieudany, Fork, glowny
    <3> HIDE DEF p
    <3> QED BY <1>0, <3>1, Wyjscie
  <2> HIDE DEF p
  <2> QED BY <2>1, <2>2, <2>3, <2>4, <2>5
<1> HIDE DEF p
<1>3. Sam(p)
  BY <1>0, <1>1, <1>2 DEF Sam, Zywy, Martwy
<1> QED BY <1>3 DEF p

(* Those of a child: while nothing has gone wrong it finds its objects.    *)
LEMMA SamPotomek ==
  ASSUME IInv, Otwierane, Otwierane', JednaInstancja,
         NEW i \in Instancje, NEW c \in Potomkowie(i),
         Exec(c) \/ ExecNieudany(c) \/ Otworz(c) \/ Gotowe(c) \/ Awaria(c)
  PROVE  Sam(c)
<1> USE DEF PozaPraca
<1>0. c \in Proces /\ c[1] = i /\ c[2] # "main" /\ TypeOK /\ c \in Instancje \X Potomek
  BY Pary DEF IInv, Drzewo
<1>1. UNCHANGED <<zalegle, wyslane>> /\ bledy \subseteq bledy'
  BY DEF Exec, ExecNieudany, Otworz, Gotowe, Awaria, sygnaly
<1>2. CASE Exec(c)
  <2>1. pc[c] = "przed_exec" /\ Skok(c, "otwiera")
    BY <1>2 DEF Exec
  <2>2. pc'[c] = "otwiera" /\ \A q \in Proces : q # c => pc'[q] = pc[q]
    BY <1>0, <2>1, Przejscie, EtykietyLemat
  <2> QED BY <1>0, <1>1, <2>1, <2>2 DEF Sam, Zywy, Martwy
<1>3. CASE ExecNieudany(c)
  <2>1. pc[c] = "przed_exec" /\ Wyjdz(c) /\ bledy' # {}
    BY <1>3 DEF ExecNieudany
  <2>2. pc'[c] \in {"sprzataj", "koniec"} /\ \A q \in Proces : q # c => pc'[q] = pc[q]
    BY <1>0, <2>1, Wyjscie
  <2> QED BY <1>0, <1>1, <2>1, <2>2 DEF Sam, Zywy, Martwy
<1>4. CASE Otworz(c)
  <2>1. /\ pc[c] = "otwiera" /\ krok[c] \in 1..4 /\ bledy' = bledy
        /\ \/ /\ nazwy[Nazwa[krok[c]]] = Nikt /\ Skok(c, "koniec") /\ krok' = krok
           \/ Nastepna(c, "pracuje")
    BY <1>0, <1>4 DEF Otworz, TypeOK
  <2>2. CASE nazwy[Nazwa[krok[c]]] = Nikt /\ Skok(c, "koniec") /\ krok' = krok
    <3>1. pc'[c] = "koniec" /\ \A q \in Proces : q # c => pc'[q] = pc[q]
      BY <1>0, <2>2, Przejscie, EtykietyLemat
    <3>2. bledy # {}
      BY <1>0, <2>1, <2>2, NazwyDlaPotomka DEF istnieje
    <3> QED BY <1>0, <1>1, <2>1, <3>1, <3>2 DEF Sam, Zywy, Martwy
  <2>3. CASE Nastepna(c, "pracuje")
    <3>1. pc'[c] \in {"otwiera", "pracuje"} /\ \A q \in Proces : q # c => pc'[q] = pc[q]
      BY <1>0, <2>1, <2>3, Kolejna, EtykietyLemat
    <3> QED BY <1>0, <1>1, <2>1, <3>1 DEF Sam, Zywy, Martwy
  <2> QED BY <2>1, <2>2, <2>3
<1>5. CASE Gotowe(c)
  <2>1. /\ pc[c] = "pracuje" /\ Skok(c, "gotowe")
        /\ c[2] = "konsument" => pc[<<c[1], "producent">>] = "gotowe"
    BY <1>5 DEF Gotowe
  <2>2. pc'[c] = "gotowe" /\ \A q \in Proces : q # c => pc'[q] = pc[q]
    BY <1>0, <2>1, Przejscie, EtykietyLemat
  <2> QED BY <1>0, <1>1, <2>1, <2>2 DEF Sam, Zywy, Martwy
<1>6. CASE Awaria(c)
  <2>1. pc[c] = "pracuje" /\ Skok(c, "koniec") /\ ~ Sprawny(c) /\ bledy' = bledy
    BY <1>6 DEF Awaria
  <2>2. pc'[c] = "koniec" /\ \A q \in Proces : q # c => pc'[q] = pc[q]
    BY <1>0, <2>1, Przejscie, EtykietyLemat
  <2>3. bledy # {}
    BY <1>0, <2>1, WszystkoOtwarteZ, CyklAssumption DEF WszystkoOtwarte, Sprawny
  <2> QED BY <1>0, <1>1, <2>1, <2>2, <2>3 DEF Sam, Zywy, Martwy
<1> QED BY <1>2, <1>3, <1>4, <1>5, <1>6

(* fork(): main has no signal pending, so nobody has been hit; and the     *)
(* producer comes first.                                                   *)
LEMMA RodzenstwoForka ==
  ASSUME IInv, Trafieni, Rodzenstwo, NEW i \in Instancje, NEW r \in Potomek,
         ForkUdany(i, r)
  PROVE  Trafieni' /\ Rodzenstwo'
<1> DEFINE p == glowny(i)
           c == <<i, r>>
<1>1. /\ pc[c] = "brak" /\ pc'[c] = "przed_exec" /\ pc'[p] = Pid(r) /\ pc[p] = Fork(r)
      /\ \A q \in Proces : q # c /\ q # p => pc'[q] = pc[q]
  BY ForkDrzewo DEF IInv
<1>2. p \notin zalegle /\ UNCHANGED <<zalegle, wyslane, bledy>>
  BY DEF ForkUdany, glowny, sygnaly
<1>3. p \in Proces /\ (r = "producent" \/ r = "konsument")
  BY Pary DEF Potomek
<1>4. Trafieni'
  <2>1. wyslane = 0
    BY <1>1, <1>2, <1>3 DEF Trafieni, PozaPraca, Fork
  <2> QED BY <1>2, <2>1 DEF Trafieni
<1>5. ASSUME NEW j \in Instancje
      PROVE  /\ pc'[glowny(j)] \in {"pid_p", "fork_k"} \/ pc'[<<j, "konsument">>] # "brak"
                  => pc'[<<j, "producent">>] # "brak"
             /\ bledy' = {} =>
                  /\ pc'[<<j, "producent">>] # "brak" /\ pc'[<<j, "konsument">>] = "brak"
                       => pc'[glowny(j)] \in {"pid_p", "fork_k"}
                  /\ \A d \in Potomkowie(j) : pc'[d] # "koniec"
                  /\ pc'[<<j, "konsument">>] = "gotowe" => pc'[<<j, "producent">>] = "gotowe"
  <2>1. /\ glowny(j) \in Proces /\ glowny(j) # c
        /\ \A d \in Potomkowie(j) : d \in Proces /\ d # p
        /\ <<j, "producent">> \in Potomkowie(j) /\ <<j, "konsument">> \in Potomkowie(j)
        /\ \A d \in Potomkowie(j) : d = <<j, "producent">> \/ d = <<j, "konsument">>
    BY Pary DEF Potomek, Potomkowie
  <2>2. /\ pc[glowny(j)] \in {"pid_p", "fork_k"} \/ pc[<<j, "konsument">>] # "brak"
                  => pc[<<j, "producent">>] # "brak"
        /\ bledy = {} =>
             /\ pc[<<j, "producent">>] # "brak" /\ pc[<<j, "konsument">>] = "brak"
                  => pc[glowny(j)] \in {"pid_p", "fork_k"}
             /\ \A d \in Potomkowie(j) : pc[d] # "koniec"
             /\ pc[<<j, "konsument">>] = "gotowe" => pc[<<j, "producent">>] = "gotowe"
    BY DEF Rodzenstwo
  <2>3. CASE j = i
    <3>1. glowny(j) = p /\ c = <<j, r>> /\ <<j, "producent">> # <<j, "konsument">>
      BY <2>3
    <3> HIDE DEF p, c
    <3> QED BY <1>1, <1>2, <1>3, <2>1, <2>2, <3>1 DEF Fork, Pid
  <2>4. CASE j # i
    <3>1. glowny(j) # p /\ c \notin Potomkowie(j)
      BY <2>4, Pary
    <3> HIDE DEF p, c
    <3> QED BY <1>1, <1>2, <2>1, <2>2, <3>1
  <2> QED BY <2>3, <2>4
<1>6. Rodzenstwo'
  BY <1>5 DEF Rodzenstwo, glowny
<1> QED BY <1>4, <1>6

(* Every action keeps both.                                                *)
LEMMA RodzenstwoStep ==
  ASSUME JednaInstancja, Sygnaly \subseteq {"grupa"}, IInv, Otwierane, Otwierane',
         Trafieni, Rodzenstwo, [Next]_vars
  PROVE  Trafieni' /\ Rodzenstwo'
<1>0. TypeOK
  BY DEF IInv, Drzewo
<1>1. ASSUME NEW p \in Proces, Krok(p) PROVE Trafieni' /\ Rodzenstwo'
  <2>1. CASE p[2] = "main" /\ \E r \in Potomek : ForkUdany(p[1], r)
    BY <2>1, RodzenstwoForka, Pary
  <2>2. CASE Usun(p) \/ Dostarcz(p) \/ Obsluga(p)
    BY <1>0, <2>2, SamAkcji, SamKrok
  <2>3. CASE /\ p[2] = "main"
             /\ \/ Tworz(p[1]) \/ Sprawdz(p[1]) \/ Czekaj(p[1])
                \/ \E r \in Potomek : ZapiszPid(p[1], r)
    BY <1>0, <2>3, SamGlowny, SamKrok, Pary
  <2>4. CASE p[2] # "main" /\ (Exec(p) \/ Otworz(p) \/ Gotowe(p))
    BY <2>4, SamPotomek, SamKrok, Pary
  <2> QED BY <1>1, <2>1, <2>2, <2>3, <2>4 DEF Krok
<1>2. ASSUME NEW i \in Instancje, NEW r \in Potomek, ForkNieudany(i, r)
      PROVE  Trafieni' /\ Rodzenstwo'
  BY <1>0, <1>2, SamGlowny, SamKrok, Pary
<1>3. ASSUME NEW i \in Instancje, NEW c \in Potomkowie(i), ExecNieudany(c) \/ Awaria(c)
      PROVE  Trafieni' /\ Rodzenstwo'
  BY <1>3, SamPotomek, SamKrok, Pary
<1>4. ASSUME NEW i \in Instancje, NEW komu \in Sygnaly, Sigint(i, komu)
      PROVE  Trafieni' /\ Rodzenstwo'
  <2>1. /\ UNCHANGED <<pc, bledy>>
        /\ zalegle' = zalegle \cup {p \in {i} \X Rola : Zywy(p)}
    BY <1>4 DEF Sigint
  <2>2. \A p \in Proces : p \in {i} \X Rola
    BY DEF Proces, JednaInstancja
  <2>3. \A p \in Proces : p \in zalegle' \/ pc[p] \in PozaPraca
    BY <2>1, <2>2 DEF Zywy, Martwy, PozaPraca
  <2> QED BY <2>1, <2>3 DEF Trafieni, Rodzenstwo, glowny
<1>5. CASE UNCHANGED vars
  BY <1>5 DEF vars, sygnaly, Trafieni, Rodzenstwo, glowny
<1>6. CASE Next
  BY <1>1, <1>2, <1>3, <1>4, <1>6 DEF Next, Zaklocenie
<1> QED BY <1>5, <1>6

(* When nobody has been hit and nothing has failed: the names and the      *)
(* order of the two children keep everybody going.                         *)
LEMMA MozeZgodnie ==
  ASSUME IInv, Otwierane, Rodzenstwo, NEW i \in Instancje, bledy = {},
         NEW p \in {i} \X Rola, Zywy(p)
  PROVE  \E q \in Proces : Moze(q)
<1> DEFINE m == glowny(i)
           d == <<i, "producent">>
           k == <<i, "konsument">>
<1> USE DEF Zywy, Martwy
<1>1. /\ m \in Proces /\ d \in Proces /\ k \in Proces /\ p \in Proces
      /\ d \in Potomkowie(i) /\ k \in Potomkowie(i)
      /\ \A c \in Potomkowie(i) : c = d \/ c = k
      /\ d[1] = i /\ k[1] = i /\ m[1] = i /\ k[2] = "konsument" /\ d[2] # "konsument"
      /\ d \in Instancje \X Potomek /\ k \in Instancje \X Potomek
      /\ p = m \/ p = d \/ p = k
  BY Pary DEF Potomek, Potomkowie, Rola, Proces, glowny
<1>2. /\ pc[m] \in Etykiety \ TylkoPotomne
      /\ \A c \in {d, k} : pc[c] \in TylkoPotomne \cup {"obsluga", "sprzataj", "koniec"}
  BY <1>1 DEF IInv, Drzewo, TypeOK, Etapy
<1>3. \A c \in {d, k} : pc[c] \notin {"obsluga", "sprzataj", "koniec"}
  BY <1>1 DEF Otwierane, Rodzenstwo
<1>4. /\ pc[m] \in {"pid_p", "fork_k"} \/ pc[k] # "brak" => pc[d] # "brak"
      /\ pc[d] # "brak" /\ pc[k] = "brak" => pc[m] \in {"pid_p", "fork_k"}
      /\ pc[k] = "gotowe" => pc[d] = "gotowe"
  BY DEF Rodzenstwo
<1>5. \A c \in {d, k} : pc[c] = "pracuje" => Sprawny(c)
  BY <1>1, WszystkoOtwarteZ, CyklAssumption DEF WszystkoOtwarte, Sprawny
<1>6. pc[m] \in {"sprzataj", "koniec"} => ~ Zywy(d) /\ ~ Zywy(k)
  BY <1>1 DEF IInv, Drzewo, CzekaNaPotomkow, glowny
<1>7. ASSUME NEW c \in {d, k}, pc[c] \in {"przed_exec", "otwiera"}
      PROVE  \E q \in Proces : Moze(q)
  BY <1>1, <1>7 DEF Moze
<1>8. ASSUME pc[m] \notin {"czekaj", "czekaj_sig", "koniec"} PROVE \E q \in Proces : Moze(q)
  <2>1. pc[m] \in {"tworz", "sprawdz", "fork_p", "pid_p", "fork_k", "pid_k", "obsluga",
                   "sprzataj"}
    BY <1>2, <1>8 DEF Etykiety, TylkoPotomne
  <2>2. Moze(m)
    BY <2>1 DEF Moze
  <2> QED BY <1>1, <2>2
<1>9. ASSUME pc[m] \in {"czekaj", "czekaj_sig"}, ~ Zywy(d), ~ Zywy(k)
      PROVE  \E q \in Proces : Moze(q)
  BY <1>1, <1>9 DEF Moze
<1>10. ASSUME pc[d] = "pracuje", pc[m] \notin {"pid_p", "fork_k"}
       PROVE  \E q \in Proces : Moze(q)
  <2>1. pc[k] \in {"przed_exec", "otwiera", "pracuje"}
    BY <1>2, <1>3, <1>4, <1>10 DEF TylkoPotomne
  <2>2. CASE pc[k] = "pracuje"
    BY <1>1, <1>5, <1>10, <2>2 DEF Moze
  <2> QED BY <1>7, <2>1, <2>2
<1>11. ASSUME pc[k] = "pracuje", pc[m] \notin {"pid_p", "fork_k"}
       PROVE  \E q \in Proces : Moze(q)
  <2>1. pc[d] \in {"przed_exec", "otwiera", "pracuje", "gotowe"}
    BY <1>2, <1>3, <1>4, <1>11 DEF TylkoPotomne
  <2>2. CASE pc[d] = "gotowe"
    BY <1>1, <1>5, <1>11, <2>2 DEF Moze
  <2> QED BY <1>7, <1>10, <1>11, <2>1, <2>2
<1> HIDE DEF m, d, k
<1>12. CASE pc[m] \notin {"czekaj", "czekaj_sig", "koniec"}
  BY <1>8, <1>12
<1>13. CASE pc[m] = "koniec"
  <2>1. p # m
    BY <1>13
  <2> QED BY <1>1, <1>6, <1>13, <2>1
<1>14. CASE pc[m] \in {"czekaj", "czekaj_sig"}
  <2>1. CASE ~ Zywy(d) /\ ~ Zywy(k)
    BY <1>9, <1>14, <2>1
  <2>2. ASSUME NEW c \in {d, k}, Zywy(c) PROVE \E q \in Proces : Moze(q)
    <3>1. pc[c] \in {"przed_exec", "otwiera", "pracuje"}
      BY <1>2, <1>3, <2>2 DEF TylkoPotomne
    <3> QED BY <1>7, <1>10, <1>11, <1>14, <3>1
  <2> QED BY <2>1, <2>2
<1> QED BY <1>12, <1>13, <1>14

(* After a Ctrl+C: who lives has it pending, or is on its way out and      *)
(* waits for nobody but main, which waits for its children.                *)
LEMMA MozePoSygnale ==
  ASSUME IInv, Trafieni, wyslane # 0, NEW p \in Proces, Zywy(p)
  PROVE  \E q \in Proces : Moze(q)
<1>1. ASSUME NEW q \in Proces, Zywy(q), pc[q] # "czekaj_sig" \/ q \in zalegle
      PROVE  Moze(q)
  <2>1. q \in zalegle \/ pc[q] \in {"obsluga", "sprzataj"}
    BY <1>1 DEF Trafieni, PozaPraca, Zywy, Martwy
  <2> QED BY <1>1, <2>1 DEF Moze
<1>2. CASE pc[p] # "czekaj_sig" \/ p \in zalegle
  BY <1>1, <1>2
<1>3. CASE pc[p] = "czekaj_sig"
  <2>1. /\ p[2] # "main" => p \in Potomkowie(p[1])
        /\ p[1] \in Instancje /\ \A c \in Potomkowie(p[1]) : c \in Proces
    BY Pary
  <2>2. \A c \in Potomkowie(p[1]) : pc[c] # "czekaj_sig"
    BY <2>1 DEF IInv, Drzewo, Etapy, TylkoPotomne
  <2>3. CASE \A c \in Potomkowie(p[1]) : ~ Zywy(c)
    BY <1>3, <2>3 DEF Moze
  <2>4. CASE \E c \in Potomkowie(p[1]) : Zywy(c)
    BY <1>1, <2>1, <2>2, <2>4
  <2> QED BY <2>3, <2>4
<1> QED BY <1>2, <1>3

-----------------------------------------------------------------------------

(* Every variable of main.c keeps its type, for any number of runs and     *)
(* signals, whatever fails.                                                *)
THEOREM TypOK == Spec => []TypeOK
  BY TypInit, TypStep, PTL DEF Spec

(* However many runs of ./main there are, whatever fails, and wherever one *)
(* Ctrl+C hits: main neither removes a name nor ends before its children   *)
(* have ended.                                                             *)
THEOREM CzekaNaPotomkowInv == ASSUME MaxSigint <= 1 PROVE Spec => []CzekaNaPotomkow
<1>1. Init => Drzewo
  BY DrzewoInit
<1>2. Drzewo /\ [Next]_vars => Drzewo'
  BY DrzewoStep
<1>3. Drzewo => CzekaNaPotomkow
  BY DEF Drzewo
<1> QED BY <1>1, <1>2, <1>3, PTL DEF Spec

(* One run of the program leaves no name behind, whatever fails, and       *)
(* wherever one Ctrl+C hits but in cleanup() itself; although cleanup()    *)
(* gives up at a missing name, and main and a child may clean up at once.  *)
THEOREM BezWyciekuInv ==
  ASSUME MaxSigint <= 1, NEW a, Instancje = {a} PROVE Spec => []BezWycieku
<1>1. JednaInstancja /\ Instancje # {}
  BY DEF JednaInstancja
<1>2. Init => IInv
  BY IInvInit
<1>3. IInv /\ [Next]_vars => IInv'
  BY <1>1, IInvStep
<1>4. IInv => BezWycieku
  BY <1>1, BezWyciekuZ
<1> QED BY <1>2, <1>3, <1>4, PTL DEF Spec

(* In one run to which nothing happens each child has all four objects of  *)
(* its own main open before it works.                                      *)
THEOREM WszystkoOtwarteInv ==
  ASSUME MaxSigint <= 1, NEW a, Instancje = {a} PROVE Spec => []WszystkoOtwarte
<1>1. JednaInstancja
  BY DEF JednaInstancja
<1>2. Init => IInv /\ Otwierane
  BY IInvInit, OtwieranieInit
<1>3. IInv /\ Otwierane /\ [Next]_vars => IInv' /\ Otwierane'
  BY <1>1, IInvStep, OtwieranieStep
<1>4. Otwierane => WszystkoOtwarte
  BY WszystkoOtwarteZ
<1> QED BY <1>2, <1>3, <1>4, PTL DEF Spec

(* Whatever the scheduler does, a run of main.c with its children has      *)
(* finitely many steps, for any number of runs beside it, any failures and *)
(* any SIGINTs: none gives back to another what it has left.               *)
THEOREM UbywaInv == Spec => []Naturalne /\ Ubywa
<1>1. Init => Kolejnosc
  <2> SUFFICES ASSUME Init PROVE Kolejnosc
    OBVIOUS
  <2>1. \A i \in Instancje : \A c \in Potomkowie(i) : pc[c] = "brak"
    BY Pary DEF Init
  <2> QED BY <2>1 DEF Kolejnosc, Potomkowie, Potomek
<1>2. TypeOK /\ Kolejnosc /\ [Next]_vars => TypeOK' /\ Kolejnosc' /\ [Ubylo]_vars
  BY TypStep, UbyloKrok
<1>3. TypeOK => Naturalne
  BY ResztyNaturalne
<1> QED BY <1>1, <1>2, <1>3, TypInit, PTL DEF Spec, Ubywa

(* In one run of ./main nobody waits for ever, neither main for its        *)
(* children nor producent and konsument for each other, whatever the       *)
(* file: while nothing has failed; and after a Ctrl+C wherever it hits,    *)
(* also when fork() or exec has failed before.                             *)
THEOREM BezZakleszczeniaInv ==
  ASSUME MaxSigint <= 1, Sygnaly \subseteq {"grupa"}, NEW a, Instancje = {a}
  PROVE  Spec => []BezZakleszczenia
<1>1. JednaInstancja
  BY DEF JednaInstancja
<1>2. Init => IInv /\ Otwierane /\ Trafieni /\ Rodzenstwo
  <2> SUFFICES ASSUME Init PROVE Trafieni /\ Rodzenstwo
    BY IInvInit, OtwieranieInit
  <2>1. /\ \A i \in Instancje : pc[glowny(i)] = "tworz"
        /\ \A i \in Instancje : \A c \in Potomkowie(i) : pc[c] = "brak"
    BY Pary DEF Init
  <2>2. \A i \in Instancje : <<i, "konsument">> \in Potomkowie(i)
    BY DEF Potomkowie, Potomek
  <2>3. Rodzenstwo
    BY <2>1, <2>2 DEF Rodzenstwo, Potomkowie, Potomek
  <2> QED BY <2>3 DEF Init, Trafieni
<1>3. /\ IInv /\ Otwierane /\ Trafieni /\ Rodzenstwo /\ [Next]_vars
      => IInv' /\ Otwierane' /\ Trafieni' /\ Rodzenstwo'
  <2> SUFFICES ASSUME IInv, Otwierane, Trafieni, Rodzenstwo, [Next]_vars
               PROVE  IInv' /\ Otwierane' /\ Trafieni' /\ Rodzenstwo'
    OBVIOUS
  <2>1. IInv' /\ Otwierane'
    BY <1>1, IInvStep, OtwieranieStep
  <2> QED BY <1>1, <2>1, RodzenstwoStep
<1>4. IInv /\ Otwierane /\ Trafieni /\ Rodzenstwo => BezZakleszczenia
  <2> SUFFICES ASSUME IInv, Otwierane, Trafieni, Rodzenstwo,
                      bledy = {} \/ wyslane # 0, NEW p \in Proces, Zywy(p)
               PROVE  \E q \in Proces : Moze(q)
    BY DEF BezZakleszczenia, Koniec
  <2>1. p[1] \in Instancje /\ p \in {p[1]} \X Rola
    BY DEF Proces
  <2> QED BY <2>1, MozeZgodnie, MozePoSygnale
<1> QED BY <1>2, <1>3, <1>4, PTL DEF Spec

=============================================================================
