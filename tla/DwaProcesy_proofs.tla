-------------------------- MODULE DwaProcesy_proofs --------------------------
(***************************************************************************)
(* Proofs about DwaProcesy for any set of runs and any number of sections. *)
(***************************************************************************)
EXTENDS DwaProcesy, TLAPS

(* Who is in the section holds the semaphore and has a section to count.   *)
Semafor == \A r \in Uruchomienie : \A p \in Proces :
             WSekcji(r, p) => sem[r] = 0 /\ i[r][p] > 0

Jeden == \A r \in Uruchomienie : ~ (WSekcji(r, "m") /\ WSekcji(r, "p"))

(* A child that has not ended keeps its parent from the name.              *)
PotomnyZyje(r) == pc[r]["p"] \in {"petla", "sekcja", "exit_handler", "handler_unlink"}
Rodzic == \A r \in Uruchomienie : PotomnyZyje(r) => pc[r]["m"] \in {"petla", "sekcja", "wait"}

(* The name is that of the run between its sem_open() and sem_unlink(),    *)
(* and the handler of a child, which ends before its parent, finds it.     *)
Posiada(r) == pc[r]["m"] \in {"fork", "petla", "sekcja", "wait", "sem_unlink"}
Nazwa == ~ obca => \A r \in Uruchomienie :
                     /\ Posiada(r) => nazwa = r
                     /\ pc[r]["p"] # "handler_unlink"

IInv == TypeOK /\ Semafor /\ Jeden /\ Rodzic /\ Nazwa

-----------------------------------------------------------------------------
(* One step of one process moves that process only.                        *)
LEMMA SkokFakt ==
  ASSUME TypeOK, NEW r \in Uruchomienie, NEW p \in Proces, NEW skad, NEW dokad \in Etykiety,
         Skok(r, p, skad, dokad)
  PROVE  /\ pc' \in [Uruchomienie -> [Proces -> Etykiety]]
         /\ pc[r][p] = skad /\ pc'[r][p] = dokad
         /\ \A q \in Proces : q # p => pc'[r][q] = pc[r][q]
         /\ \A s \in Uruchomienie : s # r => pc'[s] = pc[s]
BY DEF TypeOK, Skok

(* The initial states satisfy the inductive invariant.                     *)
LEMMA InitIInv == Init => IInv
<1> SUFFICES ASSUME Init PROVE IInv
  OBVIOUS
<1>1. \A r \in Uruchomienie : pc[r]["m"] = "sem_open" /\ pc[r]["p"] = "brak"
  BY DEF Init, Proces
<1>2. TypeOK
  <2>1. pc \in [Uruchomienie -> [Proces -> Etykiety]]
    BY DEF Init, Etykiety
  <2>2. i \in [Uruchomienie -> [Proces -> 0..N]]
    BY DwaProcesyAssumption DEF Init
  <2>3. sem \in [Uruchomienie -> 0..1]
    BY DEF Init, WartoscPoczatkowa
  <2> QED BY <2>1, <2>2, <2>3 DEF Init, TypeOK
<1>3. Semafor /\ Jeden /\ Rodzic /\ Nazwa
  BY <1>1 DEF Semafor, Jeden, Rodzic, Nazwa, Posiada, PotomnyZyje, WSekcji, Proces
<1> QED BY <1>2, <1>3 DEF IInv

(* Every action keeps it.                                                  *)
LEMMA KrokIInv ==
  ASSUME IInv, NEW r \in Uruchomienie, NEW p \in Proces, Krok(r, p)
  PROVE  IInv'
<1> USE DEF WSekcji, Posiada, PotomnyZyje
<1>0. TypeOK /\ p \in {"m", "p"}
  BY DEF IInv, Proces
<1>1. CASE SemWait(r, p)
  <2>1. /\ pc' \in [Uruchomienie -> [Proces -> Etykiety]]
        /\ pc[r][p] = "petla" /\ pc'[r][p] = "sekcja"
        /\ \A q \in Proces : q # p => pc'[r][q] = pc[r][q]
        /\ \A s \in Uruchomienie : s # r => pc'[s] = pc[s]
    BY <1>0, <1>1, SkokFakt DEF SemWait, Etykiety
  <2>2. sem[r] = 1 /\ i[r][p] > 0
    BY <1>0, <1>1 DEF SemWait, TypeOK
  <2>3. TypeOK'
    <3>1. sem' \in [Uruchomienie -> 0..1]
      <4>1. sem' = [sem EXCEPT ![r] = 0]
        BY <1>1, <2>2 DEF SemWait
      <4> QED BY <1>0, <4>1 DEF TypeOK
    <3> QED BY <1>0, <1>1, <2>1, <3>1 DEF SemWait, TypeOK
  <2>4. Semafor'
    <3>1. sem'[r] = 0 /\ i' = i /\ \A s \in Uruchomienie : s # r => sem'[s] = sem[s]
      BY <1>0, <1>1, <2>2 DEF SemWait, TypeOK
    <3>2. \A q \in Proces : q # p => pc'[r][q] # "sekcja"
      BY <2>1, <2>2 DEF IInv, Semafor
    <3> QED BY <1>0, <2>1, <2>2, <3>1, <3>2 DEF IInv, Semafor
  <2>5. Jeden'
    BY <1>0, <2>1, <2>2 DEF IInv, Semafor, Jeden, Proces
  <2>6. Rodzic' /\ Nazwa'
    BY <1>0, <1>1, <2>1 DEF SemWait, IInv, Rodzic, Nazwa, Proces
  <2> QED BY <2>3, <2>4, <2>5, <2>6 DEF IInv
<1>2. CASE SemPost(r, p)
  <2>1. /\ pc' \in [Uruchomienie -> [Proces -> Etykiety]]
        /\ pc[r][p] = "sekcja" /\ pc'[r][p] = "petla"
        /\ \A q \in Proces : q # p => pc'[r][q] = pc[r][q]
        /\ \A s \in Uruchomienie : s # r => pc'[s] = pc[s]
    BY <1>0, <1>2, SkokFakt DEF SemPost, Etykiety
  <2>2. /\ sem[r] = 0 /\ i[r][p] > 0
        /\ \A q \in Proces : q # p => pc[r][q] # "sekcja"
    BY <1>0, <2>1 DEF IInv, Semafor, Jeden, Proces
  <2>3. TypeOK'
    <3>1. sem' \in [Uruchomienie -> 0..1]
      <4>1. sem' = [sem EXCEPT ![r] = 1]
        BY <1>2, <2>2 DEF SemPost
      <4> QED BY <1>0, <4>1 DEF TypeOK
    <3>2. i' \in [Uruchomienie -> [Proces -> 0..N]]
      <4>1. i[r][p] - 1 \in 0..N
        BY <1>0, <2>2, DwaProcesyAssumption DEF TypeOK
      <4> QED BY <1>0, <1>2, <4>1 DEF SemPost, TypeOK
    <3> QED BY <1>0, <1>2, <2>1, <3>1, <3>2 DEF SemPost, TypeOK
  <2>4. Semafor' /\ Jeden'
    <3>1. \A s \in Uruchomienie : s # r => sem'[s] = sem[s] /\ i'[s] = i[s]
      BY <1>0, <1>2 DEF SemPost, TypeOK
    <3>2. \A q \in Proces : pc'[r][q] # "sekcja"
      BY <1>0, <2>1, <2>2
    <3> QED BY <1>0, <2>1, <3>1, <3>2 DEF IInv, Semafor, Jeden, Proces
  <2>5. Rodzic' /\ Nazwa'
    BY <1>0, <1>2, <2>1 DEF SemPost, IInv, Rodzic, Nazwa, Proces
  <2> QED BY <2>3, <2>4, <2>5 DEF IInv
<1>3. CASE PoPetli(r, p)
  <2>1. /\ pc' \in [Uruchomienie -> [Proces -> Etykiety]]
        /\ pc[r][p] = "petla" /\ pc'[r][p] = IF p = "m" THEN "wait" ELSE "exit_handler"
        /\ \A q \in Proces : q # p => pc'[r][q] = pc[r][q]
        /\ \A s \in Uruchomienie : s # r => pc'[s] = pc[s]
    BY <1>0, <1>3, SkokFakt DEF PoPetli, Etykiety
  <2>2. TypeOK'
    BY <1>0, <1>3, <2>1 DEF PoPetli, TypeOK
  <2>3. Semafor' /\ Jeden'
    BY <1>0, <1>3, <2>1 DEF PoPetli, IInv, Semafor, Jeden, Proces
  <2>4. Rodzic' /\ Nazwa'
    BY <1>0, <1>3, <2>1 DEF PoPetli, IInv, Rodzic, Nazwa, Proces
  <2> QED BY <2>2, <2>3, <2>4 DEF IInv
<1>4. CASE ExitHandler(r, p)
  <2>1. /\ pc' \in [Uruchomienie -> [Proces -> Etykiety]]
        /\ pc[r][p] = "exit_handler"
        /\ pc'[r][p] = IF nazwa = Brak THEN "handler_unlink" ELSE "koniec"
        /\ \A q \in Proces : q # p => pc'[r][q] = pc[r][q]
        /\ \A s \in Uruchomienie : s # r => pc'[s] = pc[s]
    BY <1>0, <1>4, SkokFakt DEF ExitHandler, HandlerUsuwa, Etykiety
  <2>2. TypeOK'
    BY <1>0, <1>4, <2>1 DEF ExitHandler, TypeOK
  <2>3. Semafor' /\ Jeden' /\ Rodzic'
    BY <1>0, <1>4, <2>1 DEF ExitHandler, IInv, Semafor, Jeden, Rodzic, Proces
  <2>4. Nazwa'
    <3>1. ASSUME ~ obca, p = "p" PROVE nazwa # Brak
      BY <2>1, <3>1, DwaProcesyAssumption DEF IInv, Rodzic, Nazwa
    <3> QED BY <1>0, <1>4, <2>1, <3>1 DEF ExitHandler, IInv, Nazwa, Proces
  <2> QED BY <2>2, <2>3, <2>4 DEF IInv
<1>5. CASE HandlerUnlink(r, p)
  <2>1. /\ pc' \in [Uruchomienie -> [Proces -> Etykiety]]
        /\ pc[r][p] = "handler_unlink" /\ pc'[r][p] = "koniec"
        /\ \A q \in Proces : q # p => pc'[r][q] = pc[r][q]
        /\ \A s \in Uruchomienie : s # r => pc'[s] = pc[s]
    BY <1>0, <1>5, SkokFakt DEF HandlerUnlink, Etykiety
  <2>2. TypeOK'
    BY <1>0, <1>5, <2>1 DEF HandlerUnlink, Unlink, TypeOK
  <2>3. Semafor' /\ Jeden' /\ Rodzic'
    BY <1>0, <1>5, <2>1 DEF HandlerUnlink, IInv, Semafor, Jeden, Rodzic, Proces
  <2>4. Nazwa'
    <3> SUFFICES ASSUME ~ obca' PROVE Nazwa'
      BY DEF Nazwa
    <3>1. ~ obca /\ nazwa \in {r, Brak} /\ p = "m"
      BY <1>0, <1>5, <2>1 DEF HandlerUnlink, Unlink, IInv, TypeOK, Nazwa
    <3>2. \A s \in Uruchomienie : ~ Posiada(s)
      BY <1>0, <2>1, <3>1, DwaProcesyAssumption DEF IInv, Nazwa
    <3> QED BY <1>0, <2>1, <3>1, <3>2 DEF IInv, Nazwa, Proces
  <2> QED BY <2>2, <2>3, <2>4 DEF IInv
<1> QED BY <1>1, <1>2, <1>3, <1>4, <1>5 DEF Krok

(* So do those of the parent alone.                                        *)
LEMMA MainIInv == ASSUME IInv, NEW r \in Uruchomienie, Main(r) PROVE IInv'
<1> USE DEF WSekcji, Posiada, PotomnyZyje
<1>0. TypeOK /\ "m" \in Proces /\ "p" \in Proces
  BY DEF IInv, Proces
<1>1. CASE SemOpen(r)
  <2>1. /\ pc' \in [Uruchomienie -> [Proces -> Etykiety]]
        /\ pc[r]["m"] = "sem_open" /\ pc'[r]["m"] = "fork"
        /\ \A q \in Proces : q # "m" => pc'[r][q] = pc[r][q]
        /\ \A s \in Uruchomienie : s # r => pc'[s] = pc[s]
    BY <1>0, <1>1, SkokFakt DEF SemOpen, Etykiety
  <2>2. TypeOK'
    BY <1>0, <1>1, <2>1 DEF SemOpen, TypeOK
  <2>3. Semafor' /\ Jeden' /\ Rodzic'
    BY <1>0, <1>1, <2>1 DEF SemOpen, IInv, Semafor, Jeden, Rodzic, Proces
  <2>4. ~ obca => \A s \in Uruchomienie : ~ Posiada(s)
    BY <1>1, DwaProcesyAssumption DEF SemOpen, IInv, Nazwa
  <2>5. Nazwa'
    BY <1>0, <1>1, <2>1, <2>4 DEF SemOpen, IInv, Nazwa, Proces
  <2> QED BY <2>2, <2>3, <2>5 DEF IInv
<1>2. CASE SemOpenNieudany(r)
  <2>1. /\ pc' \in [Uruchomienie -> [Proces -> Etykiety]]
        /\ pc[r]["m"] = "sem_open" /\ pc'[r]["m"] = "koniec"
        /\ \A q \in Proces : q # "m" => pc'[r][q] = pc[r][q]
        /\ \A s \in Uruchomienie : s # r => pc'[s] = pc[s]
    BY <1>0, <1>2, SkokFakt DEF SemOpenNieudany, Etykiety
  <2>2. TypeOK'
    BY <1>0, <1>2, <2>1 DEF SemOpenNieudany, TypeOK
  <2>3. Semafor' /\ Jeden' /\ Rodzic' /\ Nazwa'
    BY <1>0, <1>2, <2>1
    DEF SemOpenNieudany, IInv, Semafor, Jeden, Rodzic, Nazwa, Proces
  <2> QED BY <2>2, <2>3 DEF IInv
<1>3. CASE Fork(r)
  <2>1. /\ pc[r]["m"] = "fork" /\ \A q \in Proces : pc'[r][q] = "petla"
        /\ \A s \in Uruchomienie : s # r => pc'[s] = pc[s]
    BY <1>0, <1>3 DEF Fork, TypeOK
  <2>2. TypeOK'
    BY <1>0, <1>3, DwaProcesyAssumption DEF Fork, TypeOK, Etykiety
  <2>3. \A s \in Uruchomienie : s # r => i'[s] = i[s]
    BY <1>0, <1>3 DEF Fork, TypeOK
  <2>4. Semafor' /\ Jeden' /\ Rodzic'
    BY <1>0, <1>3, <2>1, <2>3 DEF Fork, IInv, Semafor, Jeden, Rodzic, Proces
  <2>5. Nazwa'
    BY <1>0, <1>3, <2>1 DEF Fork, IInv, Nazwa, Proces
  <2> QED BY <2>2, <2>4, <2>5 DEF IInv
<1>4. CASE Wait(r)
  <2>1. /\ pc' \in [Uruchomienie -> [Proces -> Etykiety]]
        /\ pc[r]["m"] = "wait" /\ pc'[r]["m"] = "sem_unlink"
        /\ \A q \in Proces : q # "m" => pc'[r][q] = pc[r][q]
        /\ \A s \in Uruchomienie : s # r => pc'[s] = pc[s]
    BY <1>0, <1>4, SkokFakt DEF Wait, Etykiety
  <2>2. TypeOK'
    BY <1>0, <1>4, <2>1 DEF Wait, TypeOK
  <2>3. Semafor' /\ Jeden' /\ Nazwa'
    BY <1>0, <1>4, <2>1 DEF Wait, IInv, Semafor, Jeden, Nazwa, Proces
  <2>4. Rodzic'
    BY <1>0, <1>4, <2>1 DEF Wait, Zywy, IInv, Rodzic, Proces
  <2> QED BY <2>2, <2>3, <2>4 DEF IInv
<1>5. CASE SemUnlink(r)
  <2>1. /\ pc' \in [Uruchomienie -> [Proces -> Etykiety]]
        /\ pc[r]["m"] = "sem_unlink" /\ pc'[r]["m"] = "exit_handler"
        /\ \A q \in Proces : q # "m" => pc'[r][q] = pc[r][q]
        /\ \A s \in Uruchomienie : s # r => pc'[s] = pc[s]
    BY <1>0, <1>5, SkokFakt DEF SemUnlink, Etykiety
  <2>2. TypeOK'
    BY <1>0, <1>5, <2>1 DEF SemUnlink, Unlink, TypeOK
  <2>3. Semafor' /\ Jeden' /\ Rodzic'
    BY <1>0, <1>5, <2>1 DEF SemUnlink, IInv, Semafor, Jeden, Rodzic, Proces
  <2>4. Nazwa'
    <3>1. ~ obca' => ~ obca
      BY <1>0, <1>5 DEF SemUnlink, Unlink, TypeOK
    <3>2. ~ obca => \A s \in Uruchomienie : s # r => ~ Posiada(s)
      BY <2>1 DEF IInv, Nazwa
    <3> QED BY <1>0, <2>1, <3>1, <3>2 DEF IInv, Nazwa, Proces
  <2> QED BY <2>2, <2>3, <2>4 DEF IInv
<1> QED BY <1>1, <1>2, <1>3, <1>4, <1>5 DEF Main

(* And so do a failed fork() and a Ctrl+C.                                 *)
LEMMA ForkNieudanyIInv ==
  ASSUME IInv, NEW r \in Uruchomienie, ForkNieudany(r) PROVE IInv'
<1> USE DEF WSekcji, Posiada, PotomnyZyje
<1>0. TypeOK /\ "m" \in Proces /\ "p" \in Proces
  BY DEF IInv, Proces
<1>1. /\ pc' \in [Uruchomienie -> [Proces -> Etykiety]]
      /\ pc[r]["m"] = "fork" /\ pc'[r]["m"] = "exit_handler"
      /\ \A q \in Proces : q # "m" => pc'[r][q] = pc[r][q]
      /\ \A s \in Uruchomienie : s # r => pc'[s] = pc[s]
  BY <1>0, SkokFakt DEF ForkNieudany, Etykiety
<1>2. TypeOK'
  BY <1>0, <1>1 DEF ForkNieudany, TypeOK
<1>3. Semafor' /\ Jeden' /\ Rodzic' /\ Nazwa'
  BY <1>0, <1>1 DEF ForkNieudany, IInv, Semafor, Jeden, Rodzic, Nazwa, Proces
<1> QED BY <1>2, <1>3 DEF IInv

(* Ctrl+C takes both processes of a run out of the section.                *)
LEMMA SigintIInv ==
  ASSUME IInv, NEW r \in Uruchomienie, Sigint(r) PROVE IInv'
<1> USE DEF WSekcji, Posiada, PotomnyZyje
<1>0. TypeOK /\ "m" \in Proces /\ "p" \in Proces
  BY DEF IInv, Proces
<1>1. /\ \A q \in Proces : pc'[r][q] \in {"brak", "koniec"}
      /\ \A s \in Uruchomienie : s # r => pc'[s] = pc[s]
  BY <1>0 DEF Sigint, Zywy, TypeOK
<1>2. pc' \in [Uruchomienie -> [Proces -> Etykiety]]
  <2>1. [p \in Proces |-> IF Zywy(r, p) THEN "koniec" ELSE pc[r][p]] \in [Proces -> Etykiety]
    BY <1>0 DEF TypeOK, Etykiety
  <2> QED BY <1>0, <2>1 DEF Sigint, TypeOK
<1>3. TypeOK'
  BY <1>0, <1>2 DEF Sigint, TypeOK
<1>4. Semafor' /\ Jeden' /\ Rodzic' /\ Nazwa'
  BY <1>0, <1>1 DEF Sigint, IInv, Semafor, Jeden, Rodzic, Nazwa, Proces
<1> QED BY <1>3, <1>4 DEF IInv

-----------------------------------------------------------------------------
(* The inductive invariant holds in every reachable state.                 *)
THEOREM IInvNiezmiennik == Spec => []IInv
<1>1. IInv /\ [Next]_vars => IInv'
  <2> SUFFICES ASSUME IInv, [Next]_vars PROVE IInv'
    OBVIOUS
  <2>1. CASE Next
    BY <2>1, KrokIInv, MainIInv, ForkNieudanyIInv, SigintIInv DEF Next
  <2>2. CASE UNCHANGED vars
    BY <2>2 DEF vars, IInv, TypeOK, Semafor, Jeden, Rodzic, Nazwa, Posiada, PotomnyZyje,
                WSekcji
  <2> QED BY <2>1, <2>2
<1> QED BY <1>1, InitIInv, PTL DEF Spec

(* Whatever the runs and the number of sections, the variables have their  *)
(* types: the semaphore of wykluczenie.c stays binary.                     *)
THEOREM TypOK == Spec => []TypeOK
<1>1. IInv => TypeOK
  BY DEF IInv
<1> QED BY <1>1, IInvNiezmiennik, PTL

(* Whatever the runs and the number of sections, no two processes are in   *)
(* the section at once, unless an exit handler of wykluczenie.c has taken  *)
(* away the name of another run.                                           *)
THEOREM WykluczenieInv == Spec => []Wykluczenie
<1>1. IInv => Wykluczenie
  <2> SUFFICES ASSUME IInv, NEW r \in Uruchomienie, NEW s \in Uruchomienie,
                      NEW p \in Proces, NEW q \in Proces, WSekcji(r, p), WSekcji(s, q)
               PROVE  <<r, p>> = <<s, q>> \/ (r # s /\ obca)
    BY DEF Wykluczenie
  <2>1. CASE r = s
    BY <2>1 DEF IInv, Jeden, Proces, WSekcji
  <2>2. CASE r # s
    <3>1. Posiada(r) /\ Posiada(s)
      BY DEF IInv, Rodzic, PotomnyZyje, Posiada, WSekcji, Proces
    <3> QED BY <2>2, <3>1 DEF IInv, Nazwa
  <2> QED BY <2>1, <2>2
<1> QED BY <1>1, IInvNiezmiennik, PTL

-----------------------------------------------------------------------------
(* The runs end.  That a process that can run does run is fairness, and    *)
(* beyond these proofs; what remains is proved here: every step is one of  *)
(* finitely many, and in a run that has not ended somebody can make one.   *)

(* The steps a process of a run has left at most.                          *)
Reszta(r, p) == CASE pc[r][p] = "sem_open"         -> 2 * N + 7
                  [] pc[r][p] \in {"fork", "brak"} -> 2 * N + 6
                  [] pc[r][p] = "petla"            -> 2 * i[r][p] + 5
                  [] pc[r][p] = "sekcja"           -> 2 * i[r][p] + 4
                  [] pc[r][p] = "wait"             -> 4
                  [] pc[r][p] = "sem_unlink"       -> 3
                  [] pc[r][p] = "exit_handler"     -> 2
                  [] pc[r][p] = "handler_unlink"   -> 1
                  [] pc[r][p] = "koniec"           -> 0

Naturalne == \A r \in Uruchomienie, p \in Proces : Reszta(r, p) \in Nat

(* A step leaves less to do to a process of one run, more to nobody, and   *)
(* to the other runs what they had.                                        *)
Ubylo == \E r \in Uruchomienie :
  /\ \A p \in Proces : Reszta(r, p)' <= Reszta(r, p)
  /\ \E p \in Proces : Reszta(r, p)' < Reszta(r, p)
  /\ \A s \in Uruchomienie \ {r}, p \in Proces : Reszta(s, p)' = Reszta(s, p)
Ubywa == [][Ubylo]_vars

(* A process waits in sem_wait() or, the parent, in wait().                *)
Czeka(r, p) == \/ pc[r][p] = "petla" /\ i[r][p] > 0 /\ sem[r] = 0
               \/ pc[r][p] = "wait" /\ Zywy(r, "p")
BezZakleszczenia == \A r \in Uruchomienie :
  (\E p \in Proces : Zywy(r, p)) => \E p \in Proces : Zywy(r, p) /\ ~ Czeka(r, p)

(* While one of them lives, the semaphore is taken by one that is in the   *)
(* section: Ctrl+C, which leaves it taken, ends both.                      *)
Zajety == \A r \in Uruchomienie :
  sem[r] = 0 /\ (\E p \in Proces : Zywy(r, p)) => \E p \in Proces : WSekcji(r, p)

(* Before fork() there is no child, and a child never waits for another.   *)
Potomny == \A r \in Uruchomienie :
  /\ pc[r]["m"] \in {"sem_open", "fork"} => pc[r]["p"] = "brak"
  /\ PotomnyZyje(r) \/ pc[r]["p"] \in {"brak", "koniec"}

(* A step of a process that neither enters nor leaves the section.         *)
LEMMA PozaSekcja ==
  ASSUME TypeOK, Zajety, Potomny, NEW r \in Uruchomienie, NEW p \in Proces,
         NEW skad \in Etykiety \ {"brak", "sekcja", "koniec"},
         NEW dokad \in Etykiety \ {"sem_open", "sekcja"}, dokad = "fork" => skad = "sem_open",
         p = "p" => dokad \in {"exit_handler", "handler_unlink", "koniec"},
         Skok(r, p, skad, dokad), sem' = sem
  PROVE  Zajety' /\ Potomny'
<1> USE DEF WSekcji, Zywy, PotomnyZyje
<1>1. /\ pc[r][p] = skad /\ pc'[r][p] = dokad
      /\ \A q \in Proces : q # p => pc'[r][q] = pc[r][q]
      /\ \A s \in Uruchomienie : s # r => pc'[s] = pc[s]
  BY SkokFakt DEF Etykiety
<1>2. Zajety'
  <2> SUFFICES ASSUME NEW s \in Uruchomienie, sem[s] = 0, NEW q \in Proces, Zywy(s, q)'
               PROVE  \E t \in Proces : WSekcji(s, t)'
    BY DEF Zajety
  <2>1. Zywy(s, q) \/ (s = r /\ Zywy(r, p))
    BY <1>1
  <2>2. PICK t \in Proces : WSekcji(s, t)
    BY <2>1 DEF Zajety
  <2> QED BY <1>1, <2>2
<1>3. Potomny'
  <2>1. p \in {"m", "p"} /\ "m" \in Proces /\ "p" \in Proces
    BY DEF Proces
  <2>2. CASE p = "m"
    <3>1. pc'[r]["p"] = pc[r]["p"]
      BY <1>1, <2>1, <2>2
    <3>2. pc'[r]["m"] \in {"sem_open", "fork"} => pc[r]["m"] \in {"sem_open", "fork"}
      BY <1>1, <2>2
    <3> QED BY <1>1, <3>1, <3>2 DEF Potomny
  <2>3. CASE p = "p"
    <3>1. pc'[r]["m"] = pc[r]["m"] /\ pc[r]["p"] # "brak"
      BY <1>1, <2>1, <2>3
    <3> QED BY <1>1, <2>3, <3>1 DEF Potomny
  <2> QED BY <2>1, <2>2, <2>3
<1> QED BY <1>2, <1>3

(* Who enters takes the semaphore with it, and who leaves gives it back.   *)
LEMMA ZajetyKrok ==
  ASSUME IInv, Zajety, Potomny, [Next]_vars PROVE Zajety' /\ Potomny'
<1> USE DEF WSekcji, Zywy, PotomnyZyje
<1>0. TypeOK /\ "m" \in Proces /\ "p" \in Proces /\ \A p \in Proces : p \in {"m", "p"}
  BY DEF IInv, Proces
<1>1. ASSUME NEW r \in Uruchomienie, NEW p \in Proces, Krok(r, p)
      PROVE  Zajety' /\ Potomny'
  <2>1. CASE SemWait(r, p)
    <3>1. Skok(r, p, "petla", "sekcja") /\ \A s \in Uruchomienie \ {r} : sem'[s] = sem[s]
      BY <1>0, <2>1 DEF SemWait, TypeOK
    <3>2. /\ pc[r][p] = "petla" /\ pc'[r][p] = "sekcja"
          /\ \A q \in Proces : q # p => pc'[r][q] = pc[r][q]
          /\ \A s \in Uruchomienie : s # r => pc'[s] = pc[s]
      BY <1>0, <3>1, SkokFakt DEF Etykiety
    <3>3. Zajety'
      BY <3>1, <3>2 DEF Zajety
    <3>4. Potomny'
      BY <1>0, <3>2 DEF Potomny
    <3> QED BY <3>3, <3>4
  <2>2. CASE SemPost(r, p)
    <3>1. sem'[r] = 1 /\ \A s \in Uruchomienie \ {r} : sem'[s] = sem[s]
      <4>1. sem[r] = 0
        BY <2>2 DEF SemPost, Skok, IInv, Semafor
      <4> QED BY <1>0, <2>2, <4>1 DEF SemPost, TypeOK
    <3>2. /\ pc[r][p] = "sekcja" /\ pc'[r][p] = "petla"
          /\ \A q \in Proces : q # p => pc'[r][q] = pc[r][q]
          /\ \A s \in Uruchomienie : s # r => pc'[s] = pc[s]
      BY <1>0, <2>2, SkokFakt DEF SemPost, Etykiety
    <3>3. Zajety'
      BY <3>1, <3>2 DEF Zajety
    <3>4. Potomny'
      BY <1>0, <3>2 DEF Potomny
    <3> QED BY <3>3, <3>4
  <2>3. CASE PoPetli(r, p)
    BY <1>0, <2>3, PozaSekcja DEF PoPetli, Etykiety
  <2>4. CASE ExitHandler(r, p)
    BY <1>0, <2>4, PozaSekcja DEF ExitHandler, Etykiety
  <2>5. CASE HandlerUnlink(r, p)
    BY <1>0, <2>5, PozaSekcja DEF HandlerUnlink, Etykiety
  <2> QED BY <1>1, <2>1, <2>2, <2>3, <2>4, <2>5 DEF Krok
<1>2. ASSUME NEW r \in Uruchomienie, Main(r) \/ ForkNieudany(r)
      PROVE  Zajety' /\ Potomny'
  <2>1. CASE SemOpen(r)
    BY <1>0, <2>1, PozaSekcja DEF SemOpen, Etykiety
  <2>2. CASE SemOpenNieudany(r)
    BY <1>0, <2>2, PozaSekcja DEF SemOpenNieudany, Etykiety
  <2>3. CASE Fork(r)
    <3>1. /\ pc[r]["m"] = "fork" /\ \A q \in Proces : pc'[r][q] = "petla"
          /\ \A s \in Uruchomienie : s # r => pc'[s] = pc[s]
      BY <1>0, <2>3 DEF Fork, TypeOK
    <3>2. sem[r] # 0 /\ sem' = sem
      BY <1>0, <2>3, <3>1 DEF Fork, Zajety, Potomny
    <3>3. Zajety'
      BY <3>1, <3>2 DEF Zajety
    <3>4. Potomny'
      BY <1>0, <3>1 DEF Potomny
    <3> QED BY <3>3, <3>4
  <2>4. CASE Wait(r)
    BY <1>0, <2>4, PozaSekcja DEF Wait, Etykiety
  <2>5. CASE SemUnlink(r)
    BY <1>0, <2>5, PozaSekcja DEF SemUnlink, Etykiety
  <2>6. CASE ForkNieudany(r)
    BY <1>0, <2>6, PozaSekcja DEF ForkNieudany, Etykiety
  <2> QED BY <1>2, <2>1, <2>2, <2>3, <2>4, <2>5, <2>6 DEF Main
<1>3. ASSUME NEW r \in Uruchomienie, Sigint(r)
      PROVE  Zajety' /\ Potomny'
  <2>1. /\ \A p \in Proces : pc'[r][p] \in {"brak", "koniec"}
        /\ \A s \in Uruchomienie \ {r} : pc'[s] = pc[s] /\ sem'[s] = sem[s]
    BY <1>0, <1>3 DEF Sigint, TypeOK
  <2>2. Zajety'
    BY <2>1 DEF Zajety
  <2>3. Potomny'
    BY <1>0, <2>1 DEF Potomny
  <2> QED BY <2>2, <2>3
<1>4. CASE UNCHANGED vars
  BY <1>4 DEF vars, Zajety, Potomny
<1> QED BY <1>1, <1>2, <1>3, <1>4 DEF Next

(* The numbers of steps left are natural numbers.                          *)
LEMMA ResztyNaturalne == TypeOK => Naturalne
<1> SUFFICES ASSUME TypeOK, NEW r \in Uruchomienie, NEW p \in Proces
             PROVE  Reszta(r, p) \in Nat
  BY DEF Naturalne
<1>1. pc[r][p] \in Etykiety /\ i[r][p] \in Nat /\ N \in Nat
  BY DwaProcesyAssumption DEF TypeOK
<1> QED BY <1>1 DEF Reszta, Etykiety

(* A step of one process.                                                  *)
LEMMA UbyloJednemu ==
  ASSUME TypeOK, TypeOK', NEW r \in Uruchomienie, NEW p \in Proces,
         Reszta(r, p)' < Reszta(r, p),
         \A q \in Proces : q # p => pc'[r][q] = pc[r][q] /\ i'[r][q] = i[r][q],
         \A s \in Uruchomienie : s # r => pc'[s] = pc[s] /\ i'[s] = i[s]
  PROVE  Ubylo
<1>1. \A q \in Proces \ {p} : Reszta(r, q)' = Reszta(r, q)
  BY DEF Reszta
<1>2. \A s \in Uruchomienie \ {r}, q \in Proces : Reszta(s, q)' = Reszta(s, q)
  BY DEF Reszta
<1>3. \A q \in Proces : Reszta(r, q) \in Nat /\ Reszta(r, q)' \in Nat
  <2>1. TypeOK' => Naturalne'
    BY ResztyNaturalne, PTL
  <2> QED BY <2>1, ResztyNaturalne DEF Naturalne
<1>4. ASSUME NEW q \in Proces
      PROVE  Reszta(r, q)' <= Reszta(r, q)
  <2>1. CASE q = p
    BY <1>3, <2>1
  <2>2. CASE q # p
    BY <1>1, <1>3, <2>2
  <2> QED BY <2>1, <2>2
<1> QED BY <1>2, <1>4 DEF Ubylo

(* A step that moves one process and counts no section.                    *)
LEMMA UbyloSkok ==
  ASSUME TypeOK, TypeOK', NEW r \in Uruchomienie, NEW p \in Proces,
         NEW skad \in Etykiety, NEW dokad \in Etykiety, Skok(r, p, skad, dokad), i' = i,
         <<skad, dokad>> \in {<<"sem_open", "fork">>, <<"sem_open", "koniec">>,
                              <<"fork", "exit_handler">>, <<"petla", "sekcja">>,
                              <<"petla", "wait">>, <<"petla", "exit_handler">>,
                              <<"wait", "sem_unlink">>, <<"sem_unlink", "exit_handler">>,
                              <<"exit_handler", "handler_unlink">>,
                              <<"exit_handler", "koniec">>, <<"handler_unlink", "koniec">>}
  PROVE  Ubylo
<1>1. /\ pc[r][p] = skad /\ pc'[r][p] = dokad
      /\ \A q \in Proces : q # p => pc'[r][q] = pc[r][q]
      /\ \A s \in Uruchomienie : s # r => pc'[s] = pc[s]
  BY SkokFakt
<1>2. i[r][p] \in Nat /\ i'[r][p] = i[r][p] /\ N \in Nat
  BY DwaProcesyAssumption DEF TypeOK
<1>3. Reszta(r, p)' < Reszta(r, p)
  BY <1>1, <1>2 DEF Reszta
<1> QED BY <1>1, <1>3, UbyloJednemu

(* Every step of a process and of main leaves less to do.                  *)
LEMMA UbyloKrok ==
  ASSUME IInv, Potomny, TypeOK', NEW r \in Uruchomienie, Main(r) \/ ForkNieudany(r) \/
         \E p \in Proces : Krok(r, p)
  PROVE  Ubylo
<1>0. TypeOK /\ "m" \in Proces /\ "p" \in Proces /\ \A p \in Proces : p \in {"m", "p"}
  BY DEF IInv, Proces
<1>1. ASSUME NEW p \in Proces, Krok(r, p)
      PROVE  Ubylo
  <2>1. CASE SemWait(r, p)
    BY <1>0, <2>1, UbyloSkok DEF SemWait, Etykiety
  <2>2. CASE SemPost(r, p)
    <3>1. /\ pc[r][p] = "sekcja" /\ pc'[r][p] = "petla"
          /\ \A q \in Proces : q # p => pc'[r][q] = pc[r][q]
          /\ \A s \in Uruchomienie : s # r => pc'[s] = pc[s]
      BY <1>0, <2>2, SkokFakt DEF SemPost, Etykiety
    <3>2. /\ i[r][p] \in Nat /\ i'[r][p] = i[r][p] - 1
          /\ \A q \in Proces : q # p => i'[r][q] = i[r][q]
          /\ \A s \in Uruchomienie : s # r => i'[s] = i[s]
      BY <1>0, <2>2, DwaProcesyAssumption DEF SemPost, TypeOK
    <3>3. Reszta(r, p)' < Reszta(r, p)
      BY <3>1, <3>2 DEF Reszta
    <3> QED BY <1>0, <3>1, <3>2, <3>3, UbyloJednemu
  <2>3. CASE PoPetli(r, p)
    BY <1>0, <2>3, UbyloSkok DEF PoPetli, Etykiety
  <2>4. CASE ExitHandler(r, p)
    BY <1>0, <2>4, UbyloSkok DEF ExitHandler, Etykiety
  <2>5. CASE HandlerUnlink(r, p)
    BY <1>0, <2>5, UbyloSkok DEF HandlerUnlink, Etykiety
  <2> QED BY <1>1, <2>1, <2>2, <2>3, <2>4, <2>5 DEF Krok
<1>2. CASE Main(r) \/ ForkNieudany(r)
  <2>1. CASE SemOpen(r)
    BY <1>0, <2>1, UbyloSkok DEF SemOpen, Etykiety
  <2>2. CASE SemOpenNieudany(r)
    BY <1>0, <2>2, UbyloSkok DEF SemOpenNieudany, Etykiety
  <2>3. CASE Fork(r)
    <3>1. /\ pc[r]["m"] = "fork" /\ pc[r]["p"] = "brak"
          /\ \A q \in Proces : pc'[r][q] = "petla" /\ i'[r][q] = N
          /\ \A s \in Uruchomienie : s # r => pc'[s] = pc[s] /\ i'[s] = i[s]
      BY <1>0, <2>3 DEF Fork, TypeOK, Potomny
    <3>2. \A q \in Proces : Reszta(r, q) = 2 * N + 6 /\ Reszta(r, q)' = 2 * N + 5
      BY <1>0, <3>1 DEF Reszta
    <3>3. \A s \in Uruchomienie \ {r}, q \in Proces : Reszta(s, q)' = Reszta(s, q)
      BY <3>1 DEF Reszta
    <3> QED BY <1>0, <3>2, <3>3, DwaProcesyAssumption DEF Ubylo
  <2>4. CASE Wait(r)
    BY <1>0, <2>4, UbyloSkok DEF Wait, Etykiety
  <2>5. CASE SemUnlink(r)
    BY <1>0, <2>5, UbyloSkok DEF SemUnlink, Etykiety
  <2>6. CASE ForkNieudany(r)
    BY <1>0, <2>6, UbyloSkok DEF ForkNieudany, Etykiety
  <2> QED BY <1>2, <2>1, <2>2, <2>3, <2>4, <2>5, <2>6 DEF Main
<1> QED BY <1>1, <1>2

(* Ctrl+C leaves nothing to do to whom it ends.                            *)
LEMMA UbyloSigint == ASSUME TypeOK, NEW r \in Uruchomienie, Sigint(r) PROVE Ubylo
<1>1. /\ \A p \in Proces : pc'[r][p] = IF Zywy(r, p) THEN "koniec" ELSE pc[r][p]
      /\ \A s \in Uruchomienie : s # r => pc'[s] = pc[s]
      /\ i' = i
  BY DEF Sigint, TypeOK
<1>2. \A p \in Proces : pc[r][p] \in Etykiety /\ i[r][p] \in Nat /\ N \in Nat
  BY DwaProcesyAssumption DEF TypeOK
<1>3. ASSUME NEW p \in Proces, Zywy(r, p)
      PROVE  Reszta(r, p)' = 0 /\ Reszta(r, p) > 0 /\ Reszta(r, p) \in Nat
  BY <1>1, <1>2, <1>3 DEF Reszta, Zywy, Etykiety
<1>4. ASSUME NEW p \in Proces, ~ Zywy(r, p)
      PROVE  Reszta(r, p)' = Reszta(r, p) /\ Reszta(r, p) \in Nat
  BY <1>1, <1>2, <1>4 DEF Reszta, Zywy
<1>5. \A s \in Uruchomienie \ {r}, p \in Proces : Reszta(s, p)' = Reszta(s, p)
  BY <1>1 DEF Reszta
<1>6. \E p \in Proces : Reszta(r, p)' < Reszta(r, p)
  <2>1. PICK p \in Proces : Zywy(r, p)
    BY DEF Sigint
  <2> QED BY <1>3, <2>1
<1>7. \A p \in Proces : Reszta(r, p)' <= Reszta(r, p)
  BY <1>3, <1>4
<1> QED BY <1>5, <1>6, <1>7 DEF Ubylo

(* The semaphore is taken by a living process only from within the section,*)
(* and a child comes from fork() and does not wait for one.                *)
LEMMA ZajetyNiezmiennik == Spec => [](IInv /\ Zajety /\ Potomny)
<1>1. Init => Zajety /\ Potomny
  BY DEF Init, Zajety, Potomny, PotomnyZyje, WartoscPoczatkowa, Proces
<1>2. IInv /\ [Next]_vars => IInv'
  <2> SUFFICES ASSUME IInv, [Next]_vars PROVE IInv'
    OBVIOUS
  <2>1. CASE Next
    BY <2>1, KrokIInv, MainIInv, ForkNieudanyIInv, SigintIInv DEF Next
  <2>2. CASE UNCHANGED vars
    BY <2>2 DEF vars, IInv, TypeOK, Semafor, Jeden, Rodzic, Nazwa, Posiada, PotomnyZyje,
                WSekcji
  <2> QED BY <2>1, <2>2
<1> QED BY <1>1, <1>2, InitIInv, ZajetyKrok, PTL DEF Spec

(* Whatever the number of sections, each process of wykluczenie.c has only *)
(* finitely many steps left, and every step of a run uses one up and gives *)
(* none back, to it or to another run: none can go on for ever.            *)
THEOREM UbywaInv == Spec => []Naturalne /\ Ubywa
<1>1. IInv => Naturalne
  BY ResztyNaturalne DEF IInv
<1>2. ASSUME IInv, Potomny, IInv', [Next]_vars
      PROVE  [Ubylo]_vars
  BY <1>2, UbyloKrok, UbyloSigint DEF Next, IInv
<1> QED BY <1>1, <1>2, ZajetyNiezmiennik, PTL DEF Spec, Ubywa

(* Whatever the number of sections, the processes of a run never wait for  *)
(* each other: whoever finds the semaphore at 0 finds the other in its     *)
(* section, and a parent in wait() has a child that does not wait for it.  *)
THEOREM BezZakleszczeniaInv == Spec => []BezZakleszczenia
<1>1. IInv /\ Zajety /\ Potomny => BezZakleszczenia
  <2> SUFFICES ASSUME IInv, Zajety, Potomny, NEW r \in Uruchomienie,
                      NEW p \in Proces, Zywy(r, p)
               PROVE  \E q \in Proces : Zywy(r, q) /\ ~ Czeka(r, q)
    BY DEF BezZakleszczenia
  <2>1. CASE sem[r] = 0
    <3>1. PICK q \in Proces : WSekcji(r, q)
      BY <2>1 DEF Zajety
    <3> QED BY <3>1 DEF WSekcji, Zywy, Czeka
  <2>2. CASE sem[r] # 0 /\ Czeka(r, p)
    <3>1. Zywy(r, "p")
      BY <2>2 DEF Czeka
    <3>2. pc[r]["p"] # "wait"
      BY DEF Potomny, PotomnyZyje
    <3> QED BY <2>2, <3>1, <3>2 DEF Czeka, Proces
  <2>3. CASE ~ Czeka(r, p)
    BY <2>3
  <2> QED BY <2>1, <2>2, <2>3
<1> QED BY <1>1, ZajetyNiezmiennik, PTL

=============================================================================
