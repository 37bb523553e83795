------------------------ MODULE WatkiProcesy_proofs ------------------------
(* Theorems about MutexWatki, for every number of threads and sections,    *)
(* and about Procesy, for every speed of its processes and whatever fails. *)
EXTENDS MutexWatki, Procesy, SequenceTheorems, FiniteSetTheorems,
        FunctionTheorems, TLAPS

-----------------------------------------------------------------------------
(* Where the threads and main are.                                         *)

Sterowanie == TypeOK /\ Wlasciciel /\ Aktualny /\ Sekcje /\ Petle

LEMMA SterowanieInit == Init => Sterowanie
  BY WatkiAssumption
  DEF Init, Sterowanie, TypeOK, Wlasciciel, Aktualny, Sekcje, Petle, WSekcji,
      Watek, Wolny, Zniszczony

(* A thread that main has not reached yet does not exist.                  *)
LEMMA Nieutworzony ==
  ASSUME TypeOK, Sekcje, Petle, mpc = "create"
  PROVE  pc[mi] = "brak" /\ i[mi] = 1
<1>1. mi \in Watek /\ mi >= mi
  BY WatkiAssumption DEF TypeOK, Watek
<1>2. pc[mi] = "brak"
  BY <1>1 DEF Petle
<1> QED BY <1>1, <1>2 DEF Sekcje

LEMMA SterowanieMain == Sterowanie /\ MainStep => Sterowanie'
<1> SUFFICES ASSUME Sterowanie, MainStep PROVE Sterowanie'
  OBVIOUS
<1> USE WatkiAssumption
    DEF Sterowanie, TypeOK, Wlasciciel, Aktualny, Sekcje, Petle, WSekcji,
        Watek, Wolny, Zniszczony, Dalej
<1>1. CASE Utworz
  <2>1. pc[mi] = "brak" /\ i[mi] = 1
    <3> HIDE DEF TypeOK, Sekcje, Petle
    <3> QED BY <1>1, Nieutworzony DEF Utworz
  <2>2. TypeOK'
    BY <1>1 DEF Utworz
  <2>3. (Wlasciciel /\ Aktualny /\ Sekcje)'
    BY <1>1, <2>1 DEF Utworz
  <2>4. Petle'
    BY <1>1, <2>1 DEF Utworz
  <2> QED BY <2>2, <2>3, <2>4
<1>2. CASE NieUtworz
  BY <1>2 DEF NieUtworz
<1>3. CASE Join
  BY <1>3 DEF Join
<1>4. CASE Destroy
  BY <1>4 DEF Destroy
<1> QED BY <1>1, <1>2, <1>3, <1>4 DEF MainStep

LEMMA SterowanieWatek ==
  ASSUME NEW w \in Watek, Sterowanie, WatekStep(w)
  PROVE  Sterowanie'
<1> USE WatkiAssumption
    DEF Sterowanie, TypeOK, Wlasciciel, Aktualny, Sekcje, Petle, WSekcji,
        Watek, Wolny, Zniszczony, Skok, main
<1>1. CASE Lock(w)
  BY <1>1 DEF Lock
<1>2. CASE Czytaj(w)
  BY <1>2 DEF Czytaj
<1>3. CASE Pisz(w)
  BY <1>3 DEF Pisz
<1>4. CASE Unlock(w)
  BY <1>4 DEF Unlock
<1> QED BY <1>1, <1>2, <1>3, <1>4 DEF WatekStep

LEMMA SterowanieStep == Sterowanie /\ [Next]_vars => Sterowanie'
<1> SUFFICES ASSUME Sterowanie, [Next]_vars PROVE Sterowanie'
  OBVIOUS
<1>1. CASE UNCHANGED vars
  BY <1>1 DEF Sterowanie, TypeOK, Wlasciciel, Aktualny, Sekcje, Petle, WSekcji,
              vars, main
<1> QED BY <1>1, SterowanieMain, SterowanieWatek DEF Next

-----------------------------------------------------------------------------
(* The counter.                                                            *)

LEMMA WykonaneSkonczony == IsFiniteSet(Wykonane)
<1>1. IsFiniteSet(Watek) /\ IsFiniteSet(1..num_sections)
  BY WatkiAssumption, FS_Interval DEF Watek
<1>2. IsFiniteSet(Watek \X (1..num_sections))
  BY <1>1, FS_Product
<1>3. Wykonane \in SUBSET (Watek \X (1..num_sections))
  BY DEF Wykonane
<1> QED BY <1>2, <1>3, FS_Subset

LEMMA LicznikInit == Init => LicznikZgodny
<1> SUFFICES ASSUME Init PROVE LicznikZgodny
  OBVIOUS
<1>1. Wykonane = {}
  BY DEF Init, Wykonane, Watek
<1> QED BY <1>1, FS_EmptySet DEF Init, LicznikZgodny

(* Line 61 counts the section the thread is in, which was not counted.     *)
LEMMA LicznikPisz ==
  ASSUME NEW w \in Watek, Sterowanie, LicznikZgodny, Pisz(w)
  PROVE  LicznikZgodny'
<1> DEFINE sekcja == <<w, i[w]>>
<1>1. pc[w] = "pisz" /\ i[w] \in 1..num_sections /\ rejestr[w] = global_counter
  BY WatkiAssumption DEF Pisz, Skok, Sterowanie, TypeOK, Sekcje, Aktualny
<1>2. sekcja \notin Wykonane
  BY <1>1 DEF Wykonane
<1>3. Wykonane' = Wykonane \cup {sekcja}
  <2>1. pc' = [pc EXCEPT ![w] = "unlock"] /\ i' = i
    BY DEF Pisz, Skok
  <2>2. ASSUME NEW v \in Watek, NEW k \in 1..num_sections
        PROVE  <<v, k>> \in Wykonane' <=> <<v, k>> \in Wykonane \cup {sekcja}
    BY <1>1, <2>1 DEF Wykonane, Sterowanie, TypeOK
  <2> QED BY <1>1, <2>2 DEF Wykonane
<1>4. Cardinality(Wykonane') = Cardinality(Wykonane) + 1
  BY <1>2, <1>3, WykonaneSkonczony, FS_AddElement
<1> QED BY <1>1, <1>4 DEF Pisz, LicznikZgodny

(* Every other step leaves the counted sections as they are.               *)
LEMMA LicznikInne ==
  ASSUME Sterowanie, LicznikZgodny, [Next]_vars, \A w \in Watek : ~ Pisz(w)
  PROVE  LicznikZgodny'
<1> USE WatkiAssumption DEF Sterowanie, TypeOK
<1> SUFFICES /\ global_counter' = global_counter
             /\ \A v \in Watek, k \in 1..num_sections :
                  <<v, k>> \in Wykonane' <=> <<v, k>> \in Wykonane
  <2>1. Wykonane' \subseteq Watek \X (1..num_sections)
        /\ Wykonane \subseteq Watek \X (1..num_sections)
    BY DEF Wykonane
  <2>2. ASSUME \A v \in Watek, k \in 1..num_sections :
                 <<v, k>> \in Wykonane' <=> <<v, k>> \in Wykonane
        PROVE  Wykonane' = Wykonane
    <3> DEFINE W == Wykonane  W1 == Wykonane'
    <3>1. W1 \subseteq Watek \X (1..num_sections) /\ W \subseteq Watek \X (1..num_sections)
      BY <2>1
    <3>2. \A v \in Watek, k \in 1..num_sections : <<v, k>> \in W1 <=> <<v, k>> \in W
      BY <2>2
    <3> HIDE DEF W, W1
    <3>3. \A s \in Watek \X (1..num_sections) : s \in W1 <=> s \in W
      BY <3>2
    <3>4. W1 = W
      BY <3>1, <3>3
    <3> QED BY <3>4 DEF W, W1
  <2> QED BY <2>2 DEF LicznikZgodny
<1>1. CASE Utworz
  <2>1. pc[mi] = "brak"
    <3> HIDE DEF TypeOK
    <3> QED BY <1>1, Nieutworzony DEF Utworz
  <2> QED BY <1>1, <2>1 DEF Utworz, Wykonane
<1>2. CASE NieUtworz \/ Join \/ Destroy
  BY <1>2 DEF NieUtworz, Join, Destroy, Wykonane
<1>3. ASSUME NEW w \in Watek, Lock(w) \/ Czytaj(w)
      PROVE  /\ global_counter' = global_counter
             /\ \A v \in Watek, k \in 1..num_sections :
                  <<v, k>> \in Wykonane' <=> <<v, k>> \in Wykonane
  BY <1>3 DEF Lock, Czytaj, Skok, Wykonane
<1>4. ASSUME NEW w \in Watek, Unlock(w)
      PROVE  /\ global_counter' = global_counter
             /\ \A v \in Watek, k \in 1..num_sections :
                  <<v, k>> \in Wykonane' <=> <<v, k>> \in Wykonane
  BY <1>4 DEF Unlock, Skok, Wykonane
<1>5. CASE UNCHANGED vars
  BY <1>5 DEF vars, Wykonane
<1> QED BY <1>1, <1>2, <1>3, <1>4, <1>5 DEF Next, MainStep, WatekStep

LEMMA LicznikStep == Sterowanie /\ LicznikZgodny /\ [Next]_vars => LicznikZgodny'
  BY LicznikPisz, LicznikInne

-----------------------------------------------------------------------------
(* Type correctness, the owner of the mutex, the progress of main's loops  *)
(* and the value of the counter form an inductive invariant.               *)
THEOREM NiezmiennikInv == Spec => []Niezmiennik
<1>1. Init => Niezmiennik
  BY SterowanieInit, LicznikInit DEF Niezmiennik, Sterowanie
<1>2. Niezmiennik /\ [Next]_vars => Niezmiennik'
  BY SterowanieStep, LicznikStep DEF Niezmiennik, Sterowanie
<1> QED BY <1>1, <1>2, PTL DEF Spec

(* Types; main's loop index stays within the arrays of num_threads, and i  *)
(* goes one past the last section and no further.                          *)
THEOREM TypOK == Spec => []TypeOK
<1>1. Niezmiennik => TypeOK
  BY DEF Niezmiennik
<1> QED BY <1>1, NiezmiennikInv, PTL

(* No increment of line 61 is lost, whatever the interleaving of its load  *)
(* and store with the other threads.                                       *)
THEOREM LicznikInv == Spec => []LicznikZgodny
<1>1. Niezmiennik => LicznikZgodny
  BY DEF Niezmiennik
<1> QED BY <1>1, NiezmiennikInv, PTL

(* The value main prints is num_sections for each thread it has created.   *)
THEOREM WynikInv == Spec => []WynikZgodny
<1>1. Niezmiennik => WynikZgodny
  <2> SUFFICES ASSUME Niezmiennik, mpc = "koniec"
               PROVE  global_counter = Cardinality(Utworzone \X (1..num_sections))
    BY DEF WynikZgodny
  <2>1. ASSUME NEW v \in Watek, NEW k \in 1..num_sections
        PROVE  <<v, k>> \in Wykonane <=> v \in Utworzone
    <3>1. CASE threads[v]
      <4>1. pc[v] = "koniec" /\ i[v] = num_sections + 1
        BY <3>1 DEF Niezmiennik, Petle, Sekcje, TypeOK
      <4> QED BY <3>1, <4>1, WatkiAssumption DEF Wykonane, Utworzone
    <3>2. CASE ~ threads[v]
      <4>1. pc[v] = "brak"
        BY <3>2 DEF Niezmiennik, Petle
      <4>2. i[v] = 1
        BY <4>1 DEF Niezmiennik, Sekcje
      <4> QED BY <3>2, <4>1, <4>2, WatkiAssumption DEF Wykonane, Utworzone
    <3> QED BY <3>1, <3>2
  <2>2. Wykonane = Utworzone \X (1..num_sections)
    BY <2>1 DEF Wykonane, Utworzone
  <2> QED BY <2>2 DEF Niezmiennik, LicznikZgodny
<1> QED BY <1>1, NiezmiennikInv, PTL

(* The mutex outlives the threads that use it.                             *)
THEOREM MutexInv == Spec => []MutexPrzezywaWatki
<1>1. Niezmiennik => MutexPrzezywaWatki
  BY DEF Niezmiennik, MutexPrzezywaWatki, Petle
<1> QED BY <1>1, NiezmiennikInv, PTL

-----------------------------------------------------------------------------
(* The program ends.  That a thread that can run does run is fairness, and *)
(* beyond these proofs; what remains is proved here: every step is one of  *)
(* finitely many, and until main has ended somebody can make one.          *)

(* The steps a thread has left, and main's.                                *)
Reszta(w) == 4 * (num_sections - i[w]) + CASE pc[w] = "czytaj" -> 3
                                           [] pc[w] = "pisz"   -> 2
                                           [] pc[w] = "unlock" -> 1
                                           [] OTHER            -> 4
ResztaMain == CASE mpc = "create"  -> 2 * num_threads + 2 - mi
                [] mpc = "join"    -> num_threads + 2 - mi
                [] mpc = "destroy" -> 1
                [] mpc = "koniec"  -> 0

Naturalne == ResztaMain \in Nat /\ \A w \in Watek : Reszta(w) \in Nat

(* A step leaves less to do to the one that makes it, and as much as       *)
(* before to the others.                                                   *)
Ubylo ==
  \/ ResztaMain' < ResztaMain /\ \A w \in Watek : Reszta(w)' = Reszta(w)
  \/ /\ ResztaMain' = ResztaMain
     /\ \E w \in Watek : /\ Reszta(w)' < Reszta(w)
                         /\ \A v \in Watek \ {w} : Reszta(v)' = Reszta(v)
Ubywa == [][Ubylo]_vars

(* A thread that has begun and not ended waits for the mutex or can go on; *)
(* main waits for a thread or can go on.                                   *)
Czeka(w)   == pc[w] = "lock" /\ mutex # Wolny
CzekaMain  == mpc = "join" /\ threads[mi] /\ pc[mi] # "koniec"
KtosMoze   == ~ CzekaMain \/ \E w \in Watek : pc[w] \notin {"brak", "koniec"} /\ ~ Czeka(w)
BezZakleszczenia == mpc # "koniec" => KtosMoze

(* The numbers of steps left are natural numbers.                          *)
LEMMA ResztyNaturalne == Niezmiennik => Naturalne
<1> SUFFICES ASSUME Niezmiennik PROVE Naturalne
  OBVIOUS
<1>1. ResztaMain \in Nat
  BY WatkiAssumption DEF Niezmiennik, TypeOK, Watek, ResztaMain
<1>2. ASSUME NEW w \in Watek
      PROVE  Reszta(w) \in Nat
  <2>1. /\ i[w] \in 1..num_sections + 1
        /\ i[w] = num_sections + 1 <=> pc[w] = "koniec"
    BY DEF Niezmiennik, TypeOK, Sekcje
  <2>2. CASE pc[w] = "koniec"
    BY WatkiAssumption, <2>1, <2>2 DEF Reszta
  <2> QED BY WatkiAssumption, <2>1, <2>2 DEF Reszta
<1> QED BY <1>1, <1>2 DEF Naturalne

(* A step of main is one of main's.                                        *)
LEMMA UbyloMain == Niezmiennik /\ MainStep => Ubylo
<1> SUFFICES ASSUME Niezmiennik, MainStep
             PROVE  /\ ResztaMain' < ResztaMain
                    /\ \A w \in Watek : Reszta(w)' = Reszta(w)
  BY DEF Ubylo
<1>1. TypeOK /\ mi \in 1..num_threads
  BY DEF Niezmiennik, TypeOK, Watek
<1>2. ResztaMain' < ResztaMain
  BY <1>1, WatkiAssumption
  DEF MainStep, Utworz, NieUtworz, Join, Destroy, Dalej, ResztaMain
<1>3. CASE Utworz
  <2>1. pc[mi] = "brak"
    BY <1>3, Nieutworzony DEF Niezmiennik, Utworz
  <2> QED BY <1>1, <1>2, <1>3, <2>1 DEF Utworz, Reszta, TypeOK
<1>4. CASE NieUtworz \/ Join \/ Destroy
  BY <1>2, <1>4 DEF NieUtworz, Join, Destroy, Reszta
<1> QED BY <1>3, <1>4 DEF MainStep

(* A step of a thread is one of its own.                                   *)
LEMMA UbyloWatek ==
  ASSUME Niezmiennik, NEW w \in Watek, WatekStep(w)
  PROVE  Ubylo
<1>1. TypeOK /\ i[w] \in 1..num_sections + 1
  BY DEF Niezmiennik, TypeOK
<1>2. ResztaMain' = ResztaMain
  BY DEF WatekStep, Lock, Czytaj, Pisz, Unlock, Skok, main, ResztaMain
<1>3. ASSUME NEW v \in Watek \ {w}
      PROVE  Reszta(v)' = Reszta(v)
  BY <1>1 DEF WatekStep, Lock, Czytaj, Pisz, Unlock, Skok, Reszta, TypeOK
<1>4. Reszta(w)' < Reszta(w)
  <2>1. CASE Lock(w) \/ Czytaj(w) \/ Pisz(w)
    BY <1>1, <2>1, WatkiAssumption DEF Lock, Czytaj, Pisz, Skok, Reszta, TypeOK
  <2>2. CASE Unlock(w)
    <3>1. pc[w] = "unlock" /\ i'[w] = i[w] + 1 /\ pc'[w] \in {"lock", "koniec"}
      BY <1>1, <2>2 DEF Unlock, Skok, TypeOK
    <3> QED BY <1>1, <3>1, WatkiAssumption DEF Reszta
  <2> QED BY <2>1, <2>2 DEF WatekStep
<1> QED BY <1>2, <1>3, <1>4 DEF Ubylo

(* Every step of main and of the threads, whatever their number, uses up   *)
(* one of the finitely many that it has left: no loop goes on for ever.    *)
THEOREM UbywaInv == Spec => []Naturalne /\ Ubywa
<1>1. Niezmiennik /\ [Next]_vars => [Ubylo]_vars
  BY UbyloMain, UbyloWatek DEF Next
<1> QED BY <1>1, ResztyNaturalne, NiezmiennikInv, PTL DEF Spec, Ubywa

(* Until main has ended, main or a thread can go on: who waits for the     *)
(* mutex waits for a thread that is in its section and waits for nobody.   *)
THEOREM BezZakleszczeniaInv == Spec => []BezZakleszczenia
<1>1. Niezmiennik => BezZakleszczenia
  <2> SUFFICES ASSUME Niezmiennik, mpc # "koniec", CzekaMain
               PROVE  \E w \in Watek : pc[w] \notin {"brak", "koniec"} /\ ~ Czeka(w)
    BY DEF BezZakleszczenia, KtosMoze
  <2>1. mi \in Watek /\ pc[mi] \notin {"brak", "koniec"}
    BY DEF Niezmiennik, TypeOK, Petle, CzekaMain
  <2>2. CASE ~ Czeka(mi)
    BY <2>1, <2>2
  <2>3. CASE Czeka(mi)
    <3>1. mutex \in Watek
      BY <2>3 DEF Czeka, Niezmiennik, TypeOK, Petle
    <3>2. WSekcji(mutex)
      BY <3>1 DEF Niezmiennik, Wlasciciel
    <3> QED BY <3>1, <3>2 DEF WSekcji, Czeka
  <2> QED BY <2>2, <2>3
<1> QED BY <1>1, NiezmiennikInv, PTL

-----------------------------------------------------------------------------
(* The threads implement the counter of LicznikSekcji.                     *)

USE DEF Wolny, Zniszczony

LEMMA LicznikSekcjiInit == Init => L!Init
  BY DEF Init, L!Init

LEMMA LicznikSekcjiLock ==
  ASSUME NEW w \in Watek, Sterowanie, Lock(w)
  PROVE  L!Wejdz(w)
<1>1. pc' = [pc EXCEPT ![w] = "czytaj"] /\ pc[w] = "lock" /\ mutex = 0 /\ mutex' = w
      /\ w # -1 /\ global_counter' = global_counter
  BY WatkiAssumption DEF Lock, Skok, Watek
<1>2. (\E v \in Watek : pc'[v] = "unlock") <=> (\E v \in Watek : pc[v] = "unlock")
  BY <1>1 DEF Sterowanie, TypeOK
<1> QED BY <1>1, <1>2 DEF L!Wejdz

LEMMA LicznikSekcjiPisz ==
  ASSUME NEW w \in Watek, Sterowanie, Pisz(w)
  PROVE  L!Zwieksz
<1>1. pc' = [pc EXCEPT ![w] = "unlock"] /\ pc[w] = "pisz" /\ mutex' = mutex
  BY DEF Pisz, Skok
<1>2. mutex = w /\ w # 0 /\ w # -1
  BY <1>1, WatkiAssumption DEF Sterowanie, Wlasciciel, WSekcji, Watek
<1>3. \A v \in Watek : pc[v] # "unlock"
  BY <1>1, <1>2 DEF Sterowanie, Wlasciciel, WSekcji
<1>4. pc'[w] = "unlock"
  BY <1>1 DEF Sterowanie, TypeOK
<1>5. global_counter' = global_counter + 1
  BY <1>1 DEF Pisz, Sterowanie, Aktualny
<1> QED BY <1>1, <1>2, <1>3, <1>4, <1>5 DEF L!Zwieksz

LEMMA LicznikSekcjiUnlock ==
  ASSUME NEW w \in Watek, Sterowanie, Unlock(w)
  PROVE  L!Wyjdz
<1>1. pc[w] = "unlock" /\ mutex' = 0 /\ global_counter' = global_counter
      /\ pc' = [pc EXCEPT ![w] = IF i[w] < num_sections THEN "lock" ELSE "koniec"]
  BY DEF Unlock, Skok
<1>2. mutex = w /\ w # 0 /\ w # -1
  BY <1>1, WatkiAssumption DEF Sterowanie, Wlasciciel, WSekcji, Watek
<1>3. \A v \in Watek : pc'[v] # "unlock"
  BY <1>1, <1>2 DEF Sterowanie, Wlasciciel, WSekcji, TypeOK
<1> QED BY <1>1, <1>2, <1>3 DEF L!Wyjdz

LEMMA LicznikSekcjiStep == Sterowanie /\ [Next]_vars => [L!Next]_(L!abstrakcyjne)
<1> SUFFICES ASSUME Sterowanie, [Next]_vars PROVE [L!Next]_(L!abstrakcyjne)
  OBVIOUS
<1>1. ASSUME NEW w \in Watek, Lock(w) PROVE L!Next
  BY <1>1, LicznikSekcjiLock DEF L!Next
<1>2. ASSUME NEW w \in Watek, Pisz(w) PROVE L!Next
  BY <1>2, LicznikSekcjiPisz DEF L!Next
<1>3. ASSUME NEW w \in Watek, Unlock(w) PROVE L!Next
  BY <1>3, LicznikSekcjiUnlock DEF L!Next
<1>4. ASSUME NEW w \in Watek, Czytaj(w) PROVE UNCHANGED L!abstrakcyjne
  <2>1. (\E v \in Watek : pc'[v] = "unlock") <=> (\E v \in Watek : pc[v] = "unlock")
    BY <1>4 DEF Czytaj, Skok, Sterowanie, TypeOK
  <2> QED BY <1>4, <2>1 DEF Czytaj, L!abstrakcyjne
<1>5. CASE Utworz
  <2>1. pc[mi] = "brak" /\ pc' = [pc EXCEPT ![mi] = "lock"]
    BY <1>5, Nieutworzony DEF Utworz, Sterowanie
  <2>2. (\E v \in Watek : pc'[v] = "unlock") <=> (\E v \in Watek : pc[v] = "unlock")
    BY <2>1 DEF Sterowanie, TypeOK
  <2> QED BY <1>5, <2>2 DEF Utworz, L!abstrakcyjne
<1>6. CASE NieUtworz \/ Join
  BY <1>6 DEF NieUtworz, Join, L!abstrakcyjne
<1>7. CASE Destroy
  BY <1>7 DEF Destroy, L!abstrakcyjne
<1>8. CASE UNCHANGED vars
  BY <1>8 DEF vars, L!abstrakcyjne
<1> QED BY <1>1, <1>2, <1>3, <1>4, <1>5, <1>6, <1>7, <1>8
        DEF Next, MainStep, WatekStep

(* One thread at a time is in the section, and each stay adds one: the     *)
(* split load and store of line 61 behave as one atomic increment.         *)
THEOREM LicznikRefinement == Spec => LicznikSpec
<1>1. Niezmiennik /\ [Next]_vars => [L!Next]_(L!abstrakcyjne)
  BY LicznikSekcjiStep DEF Niezmiennik, Sterowanie
<1> QED BY <1>1, LicznikSekcjiInit, NiezmiennikInv, PTL DEF Spec, LicznikSpec, L!Spec

HIDE DEF Wolny, Zniszczony

-----------------------------------------------------------------------------
(* Procesy: the programs of the parent and of its children.  An invariant  *)
(* says which calls a process has left, as a set: no call occurs twice in  *)
(* a program.                                                              *)

(* The elements of a sequence; the calls a process has left.               *)
Zbior(s) == {s[k] : k \in DOMAIN s}
Zostalo(p) == Zbior(reszta[p])

(* The variants, and the calls of the parents and of the children.         *)
Warianty == {"a", "b", "c", "d", "e", "exec"}
WywolaniaRodzica == {"podaj", "p1", "p2", "p3", "sleep", "wypisz", "wait", "exit"}
WywolaniaDziecka == {"setpgid", "exec", "sleep", "wypisz", "exit"}
Wywolania == WywolaniaRodzica \cup WywolaniaDziecka

(* Every variant's programs are sequences of calls.                        *)
LEMMA Programy ==
  ASSUME NEW v \in DOMAIN Macierzyste
  PROVE  /\ v \in Warianty
         /\ Macierzyste[v] \in Seq(Wywolania) /\ Potomne[v] \in Seq(Wywolania)
<1>1. v \in Warianty
  BY DEF Macierzyste, Warianty
<1>0. \A x \in WywolaniaRodzica \cup WywolaniaDziecka : x \in Wywolania
  BY DEF Wywolania
<1>9. /\ "podaj" \in Wywolania /\ "p1" \in Wywolania /\ "p2" \in Wywolania
      /\ "p3" \in Wywolania /\ "sleep" \in Wywolania /\ "wypisz" \in Wywolania
      /\ "wait" \in Wywolania /\ "exit" \in Wywolania /\ "setpgid" \in Wywolania
      /\ "exec" \in Wywolania
  BY DEF Wywolania, WywolaniaRodzica, WywolaniaDziecka
<1>2. CASE v = "a"
  <2>1. Macierzyste[v] = <<"podaj", "wypisz", "exit">>
    BY <1>2 DEF Macierzyste
  <2>2. Potomne[v] = <<>>
    BY <1>2 DEF Potomne
  <2>3. <<"podaj", "wypisz", "exit">> \in Seq(Wywolania)
    BY <1>9
  <2>4. <<>> \in Seq(Wywolania)
    BY <1>9
  <2> QED BY <1>1, <2>1, <2>2, <2>3, <2>4
<1>3. CASE v = "b"
  <2>1. Macierzyste[v] = <<"podaj", "p1", "p2", "p3", "wypisz", "wait", "exit">>
    BY <1>3 DEF Macierzyste
  <2>2. Potomne[v] = <<"wypisz", "exit">>
    BY <1>3 DEF Potomne
  <2>3. <<"podaj", "p1", "p2", "p3", "wypisz", "wait", "exit">> \in Seq(Wywolania)
    BY <1>9
  <2>4. <<"wypisz", "exit">> \in Seq(Wywolania)
    BY <1>9
  <2> QED BY <1>1, <2>1, <2>2, <2>3, <2>4
<1>4. CASE v = "c"
  <2>1. Macierzyste[v] = <<"podaj", "p1", "p2", "p3", "sleep", "wypisz", "exit">>
    BY <1>4 DEF Macierzyste
  <2>2. Potomne[v] = <<"sleep", "wypisz", "exit">>
    BY <1>4 DEF Potomne
  <2>3. <<"podaj", "p1", "p2", "p3", "sleep", "wypisz", "exit">> \in Seq(Wywolania)
    BY <1>9
  <2>4. <<"sleep", "wypisz", "exit">> \in Seq(Wywolania)
    BY <1>9
  <2> QED BY <1>1, <2>1, <2>2, <2>3, <2>4
<1>5. CASE v = "d"
  <2>1. Macierzyste[v] = <<"podaj", "wypisz", "p1", "p2", "p3", "sleep", "exit">>
    BY <1>5 DEF Macierzyste
  <2>2. Potomne[v] = <<"wypisz", "exit">>
    BY <1>5 DEF Potomne
  <2>3. <<"podaj", "wypisz", "p1", "p2", "p3", "sleep", "exit">> \in Seq(Wywolania)
    BY <1>9
  <2>4. <<"wypisz", "exit">> \in Seq(Wywolania)
    BY <1>9
  <2> QED BY <1>1, <2>1, <2>2, <2>3, <2>4
<1>6. CASE v = "e"
  <2>1. Macierzyste[v] = <<"podaj", "p1", "p2", "p3", "exit">>
    BY <1>6 DEF Macierzyste
  <2>2. Potomne[v] = <<"setpgid", "wypisz", "exit">>
    BY <1>6 DEF Potomne
  <2>3. <<"podaj", "p1", "p2", "p3", "exit">> \in Seq(Wywolania)
    BY <1>9
  <2>4. <<"setpgid", "wypisz", "exit">> \in Seq(Wywolania)
    BY <1>9
  <2> QED BY <1>1, <2>1, <2>2, <2>3, <2>4
<1>7. CASE v = "exec"
  <2>1. Macierzyste[v] = <<"p1", "p2", "p3", "wait", "wypisz", "exit">>
    BY <1>7 DEF Macierzyste
  <2>2. Potomne[v] = <<"exec", "wypisz", "exit">>
    BY <1>7 DEF Potomne
  <2>3. <<"p1", "p2", "p3", "wait", "wypisz", "exit">> \in Seq(Wywolania)
    BY <1>9
  <2>4. <<"exec", "wypisz", "exit">> \in Seq(Wywolania)
    BY <1>9
  <2> QED BY <1>1, <2>1, <2>2, <2>3, <2>4
<1> QED BY <1>1, <1>2, <1>3, <1>4, <1>5, <1>6, <1>7 DEF Warianty

(* A program that is not at its end: the next call, and the rest.          *)
LEMMA Reszty ==
  ASSUME NEW t \in Seq(Wywolania), \A l, j \in 1..Len(t) : t[l] = t[j] => l = j,
         NEW s, Koncowka(s, t), s # <<>>
  PROVE  /\ Zbior(Tail(s)) = Zbior(s) \ {Head(s)}
         /\ Koncowka(Tail(s), t) /\ Tail(s) \in Seq(Wywolania)
         /\ \E n \in Nat : /\ n + 1 <= Len(t) /\ Head(s) = t[n + 1]
                           /\ Zbior(s) = {t[k] : k \in n + 1 .. Len(t)}
                           /\ Tail(s) = <<>> => n + 1 = Len(t)
<1>0. Len(t) \in Nat /\ \A k \in 1..Len(t) : t[k] \in Wywolania
  OBVIOUS
<1>1. PICK n \in 0..Len(t) : s = SubSeq(t, n + 1, Len(t))
  BY DEF Koncowka
<1>2. n < Len(t)
  BY <1>0, <1>1, SubSeqEmpty
<1>3. Head(s) = t[n + 1] /\ Tail(s) = SubSeq(t, n + 2, Len(t))
  BY <1>0, <1>1, <1>2, HeadTailOfSubSeq
<1>4. Koncowka(Tail(s), t)
  <2>1. n + 1 \in 0..Len(t) /\ Tail(s) = SubSeq(t, (n + 1) + 1, Len(t))
    BY <1>0, <1>2, <1>3
  <2> QED BY <2>1 DEF Koncowka
<1>5. ASSUME NEW m \in Nat, m <= Len(t)
      PROVE  /\ SubSeq(t, m + 1, Len(t)) \in Seq(Wywolania)
             /\ Len(SubSeq(t, m + 1, Len(t))) = Len(t) - m
             /\ Zbior(SubSeq(t, m + 1, Len(t))) = {t[k] : k \in m + 1 .. Len(t)}
  <2> DEFINE r == SubSeq(t, m + 1, Len(t))
  <2>1. /\ r \in Seq(Wywolania) /\ Len(r) = Len(t) - m
        /\ \A l \in 1 .. Len(t) - m : r[l] = t[m + l]
    BY <1>0, <1>5, SubSeqProperties
  <2> HIDE DEF r
  <2>2. DOMAIN r = 1 .. Len(t) - m
    BY <2>1
  <2>3. ASSUME NEW l \in DOMAIN r PROVE r[l] \in {t[k] : k \in m + 1 .. Len(t)}
    <3>1. m + l \in m + 1 .. Len(t) /\ r[l] = t[m + l]
      BY <2>1, <2>2, <1>0, <1>5
    <3> QED BY <3>1
  <2>4. ASSUME NEW k \in m + 1 .. Len(t) PROVE t[k] \in Zbior(r)
    <3>1. k - m \in DOMAIN r /\ r[k - m] = t[k]
      BY <2>1, <2>2, <1>0, <1>5
    <3> QED BY <3>1 DEF Zbior
  <2>5. Zbior(r) = {t[k] : k \in m + 1 .. Len(t)}
    BY <2>3, <2>4 DEF Zbior
  <2> QED BY <2>1, <2>5 DEF r
<1>6. n \in Nat /\ n + 1 \in Nat /\ n + 1 <= Len(t) /\ (n + 1) + 1 = n + 2
  BY <1>0, <1>2
<1>7. Zbior(s) = {t[k] : k \in n + 1 .. Len(t)}
  BY <1>1, <1>5, <1>6
<1>8. Zbior(Tail(s)) = {t[k] : k \in n + 2 .. Len(t)} /\ Tail(s) \in Seq(Wywolania)
  BY <1>3, <1>5, <1>6
<1>13. Len(Tail(s)) = Len(t) - (n + 1)
  BY <1>3, <1>5, <1>6
<1>9. ASSUME Tail(s) = <<>> PROVE n + 1 = Len(t)
  <2>1. Len(Tail(s)) = 0
    BY <1>9, EmptySeq
  <2>2. Len(t) \in Nat /\ n \in Nat /\ 0 = Len(t) - (n + 1)
    BY <2>1, <1>13, <1>0, <1>6
  <2> QED BY <2>2
<1>10. \A x : x \in Zbior(Tail(s)) <=> x \in Zbior(s) \ {t[n + 1]}
  BY <1>7, <1>8, <1>0, <1>6
<1>11. Zbior(Tail(s)) = Zbior(s) \ {t[n + 1]}
  BY <1>10
<1>12. n \in Nat
  BY <1>6
<1> QED BY <1>3, <1>4, <1>6, <1>7, <1>8, <1>9, <1>11, <1>12

(* Where the parent of variant v is in its program when its next call is h *)
(* and the calls left are those of Z: what is behind it and what is still  *)
(* before it.                                                              *)
GdzieRodzic(v, h, Z) ==
  /\ h \in Z /\ Z \subseteq WywolaniaRodzica
  /\ "exit" \in Z /\ (h = "exit" => Z = {"exit"})
  /\ h \in Potomek => /\ v # "a" /\ "podaj" \notin Z
                      /\ "wypisz" \in Z <=> v \notin {"d", "e"}
                      /\ "sleep" \in Z <=> v \in {"c", "d"}
                      /\ "wait" \in Z <=> v \in {"b", "exec"}
  /\ h = "podaj" => /\ v # "exec" /\ (v # "a" => Potomek \subseteq Z)
                    /\ "wypisz" \in Z <=> v # "e"
  /\ h = "wypisz" => /\ v # "e" /\ "podaj" \notin Z
                     /\ v = "d" => Potomek \subseteq Z /\ "sleep" \in Z
                     /\ v # "d" => Potomek \cap Z = {} /\ "sleep" \notin Z
                     /\ "wait" \in Z <=> v = "b"
  /\ h = "sleep" => /\ v \in {"c", "d"} /\ Potomek \cap Z = {}
                    /\ "wypisz" \in Z <=> v = "c"
  /\ h = "wait" => /\ v \in {"b", "exec"} /\ Potomek \cap Z = {}
                   /\ "wypisz" \in Z <=> v = "exec"

(* The parent is at a call of its program, with the calls after it left;   *)
(* when that was the last one, it was exit().                              *)
LEMMA Rodzic ==
  ASSUME NEW v \in DOMAIN Macierzyste, NEW s, Koncowka(s, Macierzyste[v]), s # <<>>
  PROVE  /\ GdzieRodzic(v, Head(s), Zbior(s))
         /\ Zbior(Tail(s)) = Zbior(s) \ {Head(s)}
         /\ Koncowka(Tail(s), Macierzyste[v]) /\ Tail(s) \in Seq(Wywolania)
         /\ Tail(s) = <<>> => Head(s) = "exit"
<1> DEFINE t == Macierzyste[v]
<1> DEFINE N(u, n) == /\ n + 1 <= Len(u) /\ Head(s) = u[n + 1]
                      /\ Zbior(s) = {u[k] : k \in n + 1 .. Len(u)}
                      /\ Tail(s) = <<>> => n + 1 = Len(u)
           R(u) == /\ Zbior(Tail(s)) = Zbior(s) \ {Head(s)}
                   /\ Koncowka(Tail(s), u) /\ Tail(s) \in Seq(Wywolania)
                   /\ \E n \in Nat : N(u, n)
<1>0. v \in Warianty /\ t \in Seq(Wywolania) /\ Koncowka(s, t)
  BY Programy
<1>2. CASE v = "a"
  <2>1. t = <<"podaj", "wypisz", "exit">>
    BY <1>2 DEF Macierzyste
  <2> HIDE DEF t
  <2>2. Len(t) = 3
    BY <2>1
  <2>3. \A l, j \in 1..Len(t) : t[l] = t[j] => l = j
    BY <2>1, <2>2
  <2>4. R(t)
    BY <1>0, <2>3, Reszty
  <2>5. PICK n \in 0..2 : N(t, n)
    BY <2>2, <2>4
  <2>6. \A x : x \in Zbior(s) <=>
        \/ n < 1 /\ x = "podaj"
        \/ n < 2 /\ x = "wypisz"
        \/ n < 3 /\ x = "exit"
    BY <2>1, <2>2, <2>5
  <2>7. /\ n \in 0..2
        /\ n = 0 => Head(s) = "podaj"
        /\ n = 1 => Head(s) = "wypisz"
        /\ n = 2 => Head(s) = "exit"
    BY <2>1, <2>5
  <2>8. Tail(s) = <<>> => Head(s) = "exit"
    BY <2>2, <2>5, <2>7
  <2> DEFINE h == Head(s)
             Z == Zbior(s)
  <2>9. GdzieRodzic(v, h, Z)
    <3> HIDE DEF h, Z
    <3> QED BY <1>2, <2>6, <2>7 DEF GdzieRodzic, Potomek, WywolaniaRodzica, h, Z
  <2> QED BY <2>4, <2>8, <2>9 DEF t
<1>3. CASE v = "b"
  <2>1. t = <<"podaj", "p1", "p2", "p3", "wypisz", "wait", "exit">>
    BY <1>3 DEF Macierzyste
  <2> HIDE DEF t
  <2>2. Len(t) = 7
    BY <2>1
  <2>3. \A l, j \in 1..Len(t) : t[l] = t[j] => l = j
    BY <2>1, <2>2
  <2>4. R(t)
    BY <1>0, <2>3, Reszty
  <2>5. PICK n \in 0..6 : N(t, n)
    BY <2>2, <2>4
  <2>6. \A x : x \in Zbior(s) <=>
        \/ n < 1 /\ x = "podaj"
        \/ n < 2 /\ x = "p1"
        \/ n < 3 /\ x = "p2"
        \/ n < 4 /\ x = "p3"
        \/ n < 5 /\ x = "wypisz"
        \/ n < 6 /\ x = "wait"
        \/ n < 7 /\ x = "exit"
    BY <2>1, <2>2, <2>5
  <2>7. /\ n \in 0..6
        /\ n = 0 => Head(s) = "podaj"
        /\ n = 1 => Head(s) = "p1"
        /\ n = 2 => Head(s) = "p2"
        /\ n = 3 => Head(s) = "p3"
        /\ n = 4 => Head(s) = "wypisz"
        /\ n = 5 => Head(s) = "wait"
        /\ n = 6 => Head(s) = "exit"
    BY <2>1, <2>5
  <2>8. Tail(s) = <<>> => Head(s) = "exit"
    BY <2>2, <2>5, <2>7
  <2> DEFINE h == Head(s)
             Z == Zbior(s)
  <2>9. GdzieRodzic(v, h, Z)
    <3> HIDE DEF h, Z
    <3> QED BY <1>3, <2>6, <2>7 DEF GdzieRodzic, Potomek, WywolaniaRodzica, h, Z
  <2> QED BY <2>4, <2>8, <2>9 DEF t
<1>4. CASE v = "c"
  <2>1. t = <<"podaj", "p1", "p2", "p3", "sleep", "wypisz", "exit">>
    BY <1>4 DEF Macierzyste
  <2> HIDE DEF t
  <2>2. Len(t) = 7
    BY <2>1
  <2>3. \A l, j \in 1..Len(t) : t[l] = t[j] => l = j
    BY <2>1, <2>2
  <2>4. R(t)
    BY <1>0, <2>3, Reszty
  <2>5. PICK n \in 0..6 : N(t, n)
    BY <2>2, <2>4
  <2>6. \A x : x \in Zbior(s) <=>
        \/ n < 1 /\ x = "podaj"
        \/ n < 2 /\ x = "p1"
        \/ n < 3 /\ x = "p2"
        \/ n < 4 /\ x = "p3"
        \/ n < 5 /\ x = "sleep"
        \/ n < 6 /\ x = "wypisz"
        \/ n < 7 /\ x = "exit"
    BY <2>1, <2>2, <2>5
  <2>7. /\ n \in 0..6
        /\ n = 0 => Head(s) = "podaj"
        /\ n = 1 => Head(s) = "p1"
        /\ n = 2 => Head(s) = "p2"
        /\ n = 3 => Head(s) = "p3"
        /\ n = 4 => Head(s) = "sleep"
        /\ n = 5 => Head(s) = "wypisz"
        /\ n = 6 => Head(s) = "exit"
    BY <2>1, <2>5
  <2>8. Tail(s) = <<>> => Head(s) = "exit"
    BY <2>2, <2>5, <2>7
  <2> DEFINE h == Head(s)
             Z == Zbior(s)
  <2>9. GdzieRodzic(v, h, Z)
    <3> HIDE DEF h, Z
    <3> QED BY <1>4, <2>6, <2>7 DEF GdzieRodzic, Potomek, WywolaniaRodzica, h, Z
  <2> QED BY <2>4, <2>8, <2>9 DEF t
<1>5. CASE v = "d"
  <2>1. t = <<"podaj", "wypisz", "p1", "p2", "p3", "sleep", "exit">>
    BY <1>5 DEF Macierzyste
  <2> HIDE DEF t
  <2>2. Len(t) = 7
    BY <2>1
  <2>3. \A l, j \in 1..Len(t) : t[l] = t[j] => l = j
    BY <2>1, <2>2
  <2>4. R(t)
    BY <1>0, <2>3, Reszty
  <2>5. PICK n \in 0..6 : N(t, n)
    BY <2>2, <2>4
  <2>6. \A x : x \in Zbior(s) <=>
        \/ n < 1 /\ x = "podaj"
        \/ n < 2 /\ x = "wypisz"
        \/ n < 3 /\ x = "p1"
        \/ n < 4 /\ x = "p2"
        \/ n < 5 /\ x = "p3"
        \/ n < 6 /\ x = "sleep"
        \/ n < 7 /\ x = "exit"
    BY <2>1, <2>2, <2>5
  <2>7. /\ n \in 0..6
        /\ n = 0 => Head(s) = "podaj"
        /\ n = 1 => Head(s) = "wypisz"
        /\ n = 2 => Head(s) = "p1"
        /\ n = 3 => Head(s) = "p2"
        /\ n = 4 => Head(s) = "p3"
        /\ n = 5 => Head(s) = "sleep"
        /\ n = 6 => Head(s) = "exit"
    BY <2>1, <2>5
  <2>8. Tail(s) = <<>> => Head(s) = "exit"
    BY <2>2, <2>5, <2>7
  <2> DEFINE h == Head(s)
             Z == Zbior(s)
  <2>9. GdzieRodzic(v, h, Z)
    <3> HIDE DEF h, Z
    <3> QED BY <1>5, <2>6, <2>7 DEF GdzieRodzic, Potomek, WywolaniaRodzica, h, Z
  <2> QED BY <2>4, <2>8, <2>9 DEF t
<1>6. CASE v = "e"
  <2>1. t = <<"podaj", "p1", "p2", "p3", "exit">>
    BY <1>6 DEF Macierzyste
  <2> HIDE DEF t
  <2>2. Len(t) = 5
    BY <2>1
  <2>3. \A l, j \in 1..Len(t) : t[l] = t[j] => l = j
    BY <2>1, <2>2
  <2>4. R(t)
    BY <1>0, <2>3, Reszty
  <2>5. PICK n \in 0..4 : N(t, n)
    BY <2>2, <2>4
  <2>6. \A x : x \in Zbior(s) <=>
        \/ n < 1 /\ x = "podaj"
        \/ n < 2 /\ x = "p1"
        \/ n < 3 /\ x = "p2"
        \/ n < 4 /\ x = "p3"
        \/ n < 5 /\ x = "exit"
    BY <2>1, <2>2, <2>5
  <2>7. /\ n \in 0..4
        /\ n = 0 => Head(s) = "podaj"
        /\ n = 1 => Head(s) = "p1"
        /\ n = 2 => Head(s) = "p2"
        /\ n = 3 => Head(s) = "p3"
        /\ n = 4 => Head(s) = "exit"
    BY <2>1, <2>5
  <2>8. Tail(s) = <<>> => Head(s) = "exit"
    BY <2>2, <2>5, <2>7
  <2> DEFINE h == Head(s)
             Z == Zbior(s)
  <2>9. GdzieRodzic(v, h, Z)
    <3> HIDE DEF h, Z
    <3> QED BY <1>6, <2>6, <2>7 DEF GdzieRodzic, Potomek, WywolaniaRodzica, h, Z
  <2> QED BY <2>4, <2>8, <2>9 DEF t
<1>7. CASE v = "exec"
  <2>1. t = <<"p1", "p2", "p3", "wait", "wypisz", "exit">>
    BY <1>7 DEF Macierzyste
  <2> HIDE DEF t
  <2>2. Len(t) = 6
    BY <2>1
  <2>3. \A l, j \in 1..Len(t) : t[l] = t[j] => l = j
    BY <2>1, <2>2
  <2>4. R(t)
    BY <1>0, <2>3, Reszty
  <2>5. PICK n \in 0..5 : N(t, n)
    BY <2>2, <2>4
  <2>6. \A x : x \in Zbior(s) <=>
        \/ n < 1 /\ x = "p1"
        \/ n < 2 /\ x = "p2"
        \/ n < 3 /\ x = "p3"
        \/ n < 4 /\ x = "wait"
        \/ n < 5 /\ x = "wypisz"
        \/ n < 6 /\ x = "exit"
    BY <2>1, <2>2, <2>5
  <2>7. /\ n \in 0..5
        /\ n = 0 => Head(s) = "p1"
        /\ n = 1 => Head(s) = "p2"
        /\ n = 2 => Head(s) = "p3"
        /\ n = 3 => Head(s) = "wait"
        /\ n = 4 => Head(s) = "wypisz"
        /\ n = 5 => Head(s) = "exit"
    BY <2>1, <2>5
  <2>8. Tail(s) = <<>> => Head(s) = "exit"
    BY <2>2, <2>5, <2>7
  <2> DEFINE h == Head(s)
             Z == Zbior(s)
  <2>9. GdzieRodzic(v, h, Z)
    <3> HIDE DEF h, Z
    <3> QED BY <1>7, <2>6, <2>7 DEF GdzieRodzic, Potomek, WywolaniaRodzica, h, Z
  <2> QED BY <2>4, <2>8, <2>9 DEF t
<1> QED BY <1>0, <1>2, <1>3, <1>4, <1>5, <1>6, <1>7 DEF Warianty

(* Where a child of variant v is in its program: its next call h, the      *)
(* calls left Z.                                                           *)
GdzieDziecko(v, h, Z) ==
  /\ v # "a" /\ h \in Z /\ Z \subseteq WywolaniaDziecka
  /\ "exit" \in Z /\ (h = "exit" => Z = {"exit"})
  /\ h # "exit" => "wypisz" \in Z
  /\ h = "wypisz" => Z \subseteq {"wypisz", "exit"}
  /\ h = "exec" => v = "exec"
  /\ h = "sleep" => v = "c"
  /\ h = "setpgid" => v = "e"

(* A child is at a call of its program, with the calls after it left; when *)
(* that was the last one, it was exit().                                   *)
LEMMA WDziecku ==
  ASSUME NEW v \in DOMAIN Macierzyste, NEW s, Koncowka(s, Potomne[v]), s # <<>>
  PROVE  /\ GdzieDziecko(v, Head(s), Zbior(s))
         /\ Zbior(Tail(s)) = Zbior(s) \ {Head(s)}
         /\ Koncowka(Tail(s), Potomne[v]) /\ Tail(s) \in Seq(Wywolania)
         /\ Tail(s) = <<>> => Head(s) = "exit"
<1> DEFINE t == Potomne[v]
<1> DEFINE N(u, n) == /\ n + 1 <= Len(u) /\ Head(s) = u[n + 1]
                      /\ Zbior(s) = {u[k] : k \in n + 1 .. Len(u)}
                      /\ Tail(s) = <<>> => n + 1 = Len(u)
           R(u) == /\ Zbior(Tail(s)) = Zbior(s) \ {Head(s)}
                   /\ Koncowka(Tail(s), u) /\ Tail(s) \in Seq(Wywolania)
                   /\ \E n \in Nat : N(u, n)
<1>0. v \in Warianty /\ t \in Seq(Wywolania) /\ Koncowka(s, t)
  BY Programy
<1>1. v # "a"
  <2> SUFFICES ASSUME v = "a" PROVE s = <<>>
    OBVIOUS
  <2>1. t = <<>> /\ Len(t) = 0
    BY DEF Potomne
  <2>2. PICK n \in 0..0 : s = SubSeq(t, n + 1, 0)
    BY <2>1 DEF Koncowka
  <2> QED BY <2>2, SubSeqEmpty
<1>2. CASE v = "b"
  <2>1. t = <<"wypisz", "exit">>
    BY <1>2 DEF Potomne
  <2> HIDE DEF t
  <2>2. Len(t) = 2
    BY <2>1
  <2>3. \A l, j \in 1..Len(t) : t[l] = t[j] => l = j
    BY <2>1, <2>2
  <2>4. R(t)
    BY <1>0, <2>3, Reszty
  <2>5. PICK n \in 0..1 : N(t, n)
    BY <2>2, <2>4
  <2>6. \A x : x \in Zbior(s) <=>
        \/ n < 1 /\ x = "wypisz"
        \/ n < 2 /\ x = "exit"
    BY <2>1, <2>2, <2>5
  <2>7. /\ n \in 0..1
        /\ n = 0 => Head(s) = "wypisz"
        /\ n = 1 => Head(s) = "exit"
    BY <2>1, <2>5
  <2>8. Tail(s) = <<>> => Head(s) = "exit"
    BY <2>2, <2>5, <2>7
  <2> DEFINE h == Head(s)
             Z == Zbior(s)
  <2>9. GdzieDziecko(v, h, Z)
    <3> HIDE DEF h, Z
    <3> QED BY <1>2, <2>6, <2>7 DEF GdzieDziecko, WywolaniaDziecka, h, Z
  <2> QED BY <2>4, <2>8, <2>9 DEF t
<1>3. CASE v = "c"
  <2>1. t = <<"sleep", "wypisz", "exit">>
    BY <1>3 DEF Potomne
  <2> HIDE DEF t
  <2>2. Len(t) = 3
    BY <2>1
  <2>3. \A l, j \in 1..Len(t) : t[l] = t[j] => l = j
    BY <2>1, <2>2
  <2>4. R(t)
    BY <1>0, <2>3, Reszty
  <2>5. PICK n \in 0..2 : N(t, n)
    BY <2>2, <2>4
  <2>6. \A x : x \in Zbior(s) <=>
        \/ n < 1 /\ x = "sleep"
        \/ n < 2 /\ x = "wypisz"
        \/ n < 3 /\ x = "exit"
    BY <2>1, <2>2, <2>5
  <2>7. /\ n \in 0..2
        /\ n = 0 => Head(s) = "sleep"
        /\ n = 1 => Head(s) = "wypisz"
        /\ n = 2 => Head(s) = "exit"
    BY <2>1, <2>5
  <2>8. Tail(s) = <<>> => Head(s) = "exit"
    BY <2>2, <2>5, <2>7
  <2> DEFINE h == Head(s)
             Z == Zbior(s)
  <2>9. GdzieDziecko(v, h, Z)
    <3> HIDE DEF h, Z
    <3> QED BY <1>3, <2>6, <2>7 DEF GdzieDziecko, WywolaniaDziecka, h, Z
  <2> QED BY <2>4, <2>8, <2>9 DEF t
<1>4. CASE v = "d"
  <2>1. t = <<"wypisz", "exit">>
    BY <1>4 DEF Potomne
  <2> HIDE DEF t
  <2>2. Len(t) = 2
    BY <2>1
  <2>3. \A l, j \in 1..Len(t) : t[l] = t[j] => l = j
    BY <2>1, <2>2
  <2>4. R(t)
    BY <1>0, <2>3, Reszty
  <2>5. PICK n \in 0..1 : N(t, n)
    BY <2>2, <2>4
  <2>6. \A x : x \in Zbior(s) <=>
        \/ n < 1 /\ x = "wypisz"
        \/ n < 2 /\ x = "exit"
    BY <2>1, <2>2, <2>5
  <2>7. /\ n \in 0..1
        /\ n = 0 => Head(s) = "wypisz"
        /\ n = 1 => Head(s) = "exit"
    BY <2>1, <2>5
  <2>8. Tail(s) = <<>> => Head(s) = "exit"
    BY <2>2, <2>5, <2>7
  <2> DEFINE h == Head(s)
             Z == Zbior(s)
  <2>9. GdzieDziecko(v, h, Z)
    <3> HIDE DEF h, Z
    <3> QED BY <1>4, <2>6, <2>7 DEF GdzieDziecko, WywolaniaDziecka, h, Z
  <2> QED BY <2>4, <2>8, <2>9 DEF t
<1>5. CASE v = "e"
  <2>1. t = <<"setpgid", "wypisz", "exit">>
    BY <1>5 DEF Potomne
  <2> HIDE DEF t
  <2>2. Len(t) = 3
    BY <2>1
  <2>3. \A l, j \in 1..Len(t) : t[l] = t[j] => l = j
    BY <2>1, <2>2
  <2>4. R(t)
    BY <1>0, <2>3, Reszty
  <2>5. PICK n \in 0..2 : N(t, n)
    BY <2>2, <2>4
  <2>6. \A x : x \in Zbior(s) <=>
        \/ n < 1 /\ x = "setpgid"
        \/ n < 2 /\ x = "wypisz"
        \/ n < 3 /\ x = "exit"
    BY <2>1, <2>2, <2>5
  <2>7. /\ n \in 0..2
        /\ n = 0 => Head(s) = "setpgid"
        /\ n = 1 => Head(s) = "wypisz"
        /\ n = 2 => Head(s) = "exit"
    BY <2>1, <2>5
  <2>8. Tail(s) = <<>> => Head(s) = "exit"
    BY <2>2, <2>5, <2>7
  <2> DEFINE h == Head(s)
             Z == Zbior(s)
  <2>9. GdzieDziecko(v, h, Z)
    <3> HIDE DEF h, Z
    <3> QED BY <1>5, <2>6, <2>7 DEF GdzieDziecko, WywolaniaDziecka, h, Z
  <2> QED BY <2>4, <2>8, <2>9 DEF t
<1>6. CASE v = "exec"
  <2>1. t = <<"exec", "wypisz", "exit">>
    BY <1>6 DEF Potomne
  <2> HIDE DEF t
  <2>2. Len(t) = 3
    BY <2>1
  <2>3. \A l, j \in 1..Len(t) : t[l] = t[j] => l = j
    BY <2>1, <2>2
  <2>4. R(t)
    BY <1>0, <2>3, Reszty
  <2>5. PICK n \in 0..2 : N(t, n)
    BY <2>2, <2>4
  <2>6. \A x : x \in Zbior(s) <=>
        \/ n < 1 /\ x = "exec"
        \/ n < 2 /\ x = "wypisz"
        \/ n < 3 /\ x = "exit"
    BY <2>1, <2>2, <2>5
  <2>7. /\ n \in 0..2
        /\ n = 0 => Head(s) = "exec"
        /\ n = 1 => Head(s) = "wypisz"
        /\ n = 2 => Head(s) = "exit"
    BY <2>1, <2>5
  <2>8. Tail(s) = <<>> => Head(s) = "exit"
    BY <2>2, <2>5, <2>7
  <2> DEFINE h == Head(s)
             Z == Zbior(s)
  <2>9. GdzieDziecko(v, h, Z)
    <3> HIDE DEF h, Z
    <3> QED BY <1>6, <2>6, <2>7 DEF GdzieDziecko, WywolaniaDziecka, h, Z
  <2> QED BY <2>4, <2>8, <2>9 DEF t
<1> QED BY <1>0, <1>1, <1>2, <1>3, <1>4, <1>5, <1>6 DEF Warianty

-----------------------------------------------------------------------------
(* Types, and the steps as changes of what is left.                        *)

(* A line: what it says, who printed it, and the parent and the group that *)
(* it names.                                                               *)
Wiersz == [co : {"pytanie", "iden"}, kto : Proces,
           ppid : Proces \cup {"powloka", "init"}, pgid : Proces]

(* The type invariant: ProcesyOK, and that lines are lines.                *)
Typy == /\ ProcesyOK
        /\ reszta \in [Proces -> Seq(Wywolania)]
        /\ wydruk \in Seq(Wiersz) /\ bufor \in [Proces -> Seq(Wiersz)]

(* The next call of p is co.                                               *)
Gdzie(p, co) == IF p = "m" THEN GdzieRodzic(podpunkt, co, Zostalo(p))
                ELSE GdzieDziecko(podpunkt, co, Zostalo(p))

(* Who the processes are.                                                  *)
LEMMA Procesow == /\ Proces = {"m", "p1", "p2", "p3"} /\ Potomek = {"p1", "p2", "p3"}
                  /\ "m" \in Proces /\ Potomek \subseteq Proces
                  /\ \A p \in Proces : p # "m" <=> p \in Potomek
  BY ProcesyAssumption DEF Potomek

(* Who runs has something left to do.                                      *)
LEMMA ZywyMa == ASSUME Typy, NEW p \in Proces PROVE Zywy(p) <=> Zostalo(p) # {}
<1> DEFINE s == reszta[p]
<1>1. s \in Seq(Wywolania)
  BY DEF Typy
<1> HIDE DEF s
<1>2. s # <<>> => 1 \in DOMAIN s
  BY <1>1
<1>3. s = <<>> => DOMAIN s = {}
  OBVIOUS
<1>4. s # <<>> <=> Zbior(s) # {}
  BY <1>2, <1>3 DEF Zbior
<1> QED BY <1>4 DEF Zywy, Zostalo, s

(* A process that runs: its next call, and what is left after it.          *)
LEMMA NaCzole ==
  ASSUME Typy, NEW p \in Proces, Zywy(p)
  PROVE  /\ Gdzie(p, Head(reszta[p]))
         /\ Zbior(Tail(reszta[p])) = Zostalo(p) \ {Head(reszta[p])}
         /\ Tail(reszta[p]) \in Seq(Wywolania)
         /\ Tail(reszta[p]) = <<>> => Head(reszta[p]) = "exit"
         /\ p = "m" => Koncowka(Tail(reszta[p]), Macierzyste[podpunkt])
         /\ p # "m" => Koncowka(Tail(reszta[p]), Potomne[podpunkt])
<1>1. CASE p = "m"
  BY <1>1, Rodzic DEF Typy, ProcesyOK, Zywy, Zostalo, Gdzie
<1>2. CASE p # "m"
  BY <1>2, Procesow, WDziecku DEF Typy, ProcesyOK, Zywy, Zostalo, Gdzie
<1> QED BY <1>1, <1>2

(* A step as it changes what is left.  The process p makes its call co and *)
(* goes on.                                                                *)
Idzie(p, co) ==
  /\ Gdzie(p, co) /\ Zywy(p) /\ sen[p] = 0
  /\ reszta' \in [Proces -> Seq(Wywolania)]
  /\ Koncowka(reszta'["m"], Macierzyste[podpunkt])
  /\ \A c \in Potomek : Koncowka(reszta'[c], Potomne[podpunkt])
  /\ \A q \in Proces : /\ Zostalo(q)' = IF q = p THEN Zostalo(p) \ {co} ELSE Zostalo(q)
                       /\ Zywy(q)' <=> Zywy(q)

(* A call that is not exit() is such a step.                               *)
LEMMA ToIdzie ==
  ASSUME Typy, NEW p \in Proces, NEW co, Biegnie(p, co), Przejdz(p), co # "exit"
  PROVE  Idzie(p, co)
<1> DEFINE r == Tail(reszta[p])
<1>1. Zywy(p) /\ Head(reszta[p]) = co /\ sen[p] = 0
  BY DEF Biegnie
<1>2. reszta \in [Proces -> Seq(Wywolania)]
  BY DEF Typy
<1>3. reszta' = [reszta EXCEPT ![p] = r]
  BY DEF Przejdz
<1>4. /\ Gdzie(p, co) /\ Zbior(r) = Zostalo(p) \ {co} /\ r \in Seq(Wywolania) /\ r # <<>>
      /\ p = "m" => Koncowka(r, Macierzyste[podpunkt])
      /\ p # "m" => Koncowka(r, Potomne[podpunkt])
  BY <1>1, NaCzole
<1> HIDE DEF r
<1>5. \A q \in Proces : reszta'[q] = IF q = p THEN r ELSE reszta[q]
  BY <1>2, <1>3
<1>6. reszta' \in [Proces -> Seq(Wywolania)]
  BY <1>2, <1>3, <1>4
<1>7. \A q \in Proces : /\ Zostalo(q)' = IF q = p THEN Zostalo(p) \ {co} ELSE Zostalo(q)
                        /\ Zywy(q)' <=> Zywy(q)
  BY <1>1, <1>4, <1>5 DEF Zostalo, Zywy
<1>8. Koncowka(reszta'["m"], Macierzyste[podpunkt])
  BY <1>4, <1>5, Procesow DEF Typy, ProcesyOK
<1>9. \A c \in Potomek : Koncowka(reszta'[c], Potomne[podpunkt])
  BY <1>4, <1>5, Procesow DEF Typy, ProcesyOK
<1> QED BY <1>1, <1>4, <1>6, <1>7, <1>8, <1>9 DEF Idzie

(* The whole program of a child is before it.                              *)
LEMMA CalyProgram ==
  ASSUME NEW v \in DOMAIN Macierzyste, v # "a"
  PROVE  /\ Potomne[v] # <<>> /\ Koncowka(Potomne[v], Potomne[v])
         /\ "wypisz" \in Zbior(Potomne[v])
         /\ v = "c" => "sleep" \in Zbior(Potomne[v])
         /\ v = "e" => "setpgid" \in Zbior(Potomne[v])
         /\ v = "exec" => "exec" \in Zbior(Potomne[v])
<1> DEFINE t == Potomne[v]
<1>1. v \in Warianty /\ t \in Seq(Wywolania)
  BY Programy
<1>2. Koncowka(t, t)
  <2> HIDE DEF t
  <2>1. 0 \in 0..Len(t) /\ SubSeq(t, 0 + 1, Len(t)) = t
    BY <1>1, SubSeqFull
  <2> QED BY <2>1 DEF Koncowka
<1>3. /\ t # <<>> /\ "wypisz" \in Zbior(t)
      /\ v = "c" => "sleep" \in Zbior(t)
      /\ v = "e" => "setpgid" \in Zbior(t)
      /\ v = "exec" => "exec" \in Zbior(t)
  <2>1. CASE v \in {"b", "d"}
    <3>1. t = <<"wypisz", "exit">>
      BY <2>1 DEF Potomne
    <3> HIDE DEF t
    <3>2. 1 \in DOMAIN t /\ t[1] = "wypisz"
      BY <3>1
    <3> QED BY <2>1, <3>1, <3>2 DEF Zbior
  <2>2. CASE v \in {"c", "e", "exec"}
    <3>1. t = <<IF v = "c" THEN "sleep" ELSE IF v = "e" THEN "setpgid" ELSE "exec",
                "wypisz", "exit">>
      BY <2>2 DEF Potomne
    <3> HIDE DEF t
    <3>2. 1 \in DOMAIN t /\ 2 \in DOMAIN t /\ t[2] = "wypisz"
          /\ t[1] = IF v = "c" THEN "sleep" ELSE IF v = "e" THEN "setpgid" ELSE "exec"
      BY <3>1
    <3> QED BY <2>2, <3>1, <3>2 DEF Zbior
  <2> QED BY <1>1, <2>1, <2>2 DEF Warianty
<1> QED BY <1>2, <1>3

(* The parent makes the child c, which has its whole program before it.    *)
Powstaje(c) ==
  /\ GdzieRodzic(podpunkt, c, Zostalo("m")) /\ Zywy("m") /\ sen["m"] = 0
  /\ reszta' \in [Proces -> Seq(Wywolania)]
  /\ Koncowka(reszta'["m"], Macierzyste[podpunkt])
  /\ \A d \in Potomek : Koncowka(reszta'[d], Potomne[podpunkt])
  /\ Zostalo("m")' = Zostalo("m") \ {c} /\ Zywy("m")' /\ Zywy(c)'
  /\ \A q \in Proces \ {"m", c} : Zostalo(q)' = Zostalo(q) /\ (Zywy(q)' <=> Zywy(q))
  /\ "wypisz" \in Zostalo(c)'
  /\ podpunkt = "c" => "sleep" \in Zostalo(c)'
  /\ podpunkt = "e" => "setpgid" \in Zostalo(c)'

(* A fork() changes what is left in this way.                              *)
LEMMA ToPowstaje == ASSUME Typy, NEW c \in Potomek, Fork(c) PROVE Powstaje(c)
<1> DEFINE r == Tail(reszta["m"])
           t == Potomne[podpunkt]
<1>1. Zywy("m") /\ Head(reszta["m"]) = c /\ sen["m"] = 0
  BY DEF Fork, Biegnie
<1>2. reszta \in [Proces -> Seq(Wywolania)] /\ podpunkt \in DOMAIN Macierzyste
  BY DEF Typy, ProcesyOK
<1>3. reszta' = [reszta EXCEPT !["m"] = r, ![c] = t]
  BY DEF Fork, Dziecko
<1>4. /\ GdzieRodzic(podpunkt, c, Zostalo("m")) /\ Zbior(r) = Zostalo("m") \ {c}
      /\ r \in Seq(Wywolania) /\ r # <<>> /\ Koncowka(r, Macierzyste[podpunkt])
  BY <1>1, NaCzole, Procesow DEF Gdzie
<1>5. podpunkt # "a"
  BY <1>4 DEF GdzieRodzic
<1>6. /\ t # <<>> /\ t \in Seq(Wywolania) /\ Koncowka(t, t) /\ "wypisz" \in Zbior(t)
      /\ podpunkt = "c" => "sleep" \in Zbior(t)
      /\ podpunkt = "e" => "setpgid" \in Zbior(t)
  BY <1>2, <1>5, CalyProgram, Programy
<1>0. Koncowka(reszta["m"], Macierzyste[podpunkt])
      /\ \A d \in Potomek : Koncowka(reszta[d], t)
  BY DEF Typy, ProcesyOK
<1> HIDE DEF r, t
<1>7. \A q \in Proces : reszta'[q] = IF q = c THEN t ELSE IF q = "m" THEN r ELSE reszta[q]
  BY <1>2, <1>3, Procesow
<1>8. reszta' \in [Proces -> Seq(Wywolania)]
  BY <1>2, <1>3, <1>4, <1>6
<1>9. c # "m" /\ c \in Proces /\ "m" \in Proces
  BY Procesow
<1>10. /\ Zostalo("m")' = Zostalo("m") \ {c} /\ Zywy("m")' /\ Zywy(c)'
       /\ Zostalo(c)' = Zbior(t)
       /\ \A q \in Proces \ {"m", c} : Zostalo(q)' = Zostalo(q) /\ (Zywy(q)' <=> Zywy(q))
  BY <1>4, <1>6, <1>7, <1>9 DEF Zostalo, Zywy
<1>11. Koncowka(reszta'["m"], Macierzyste[podpunkt])
  BY <1>4, <1>7, <1>9
<1>12. \A d \in Potomek : Koncowka(reszta'[d], t)
  BY <1>0, <1>6, <1>7, Procesow
<1> QED BY <1>1, <1>4, <1>6, <1>8, <1>10, <1>11, <1>12 DEF Powstaje, t

(* The process p ends, by exit() or after an error.                        *)
Odchodzi(p) ==
  /\ reszta' \in [Proces -> Seq(Wywolania)]
  /\ Koncowka(reszta'["m"], Macierzyste[podpunkt])
  /\ \A c \in Potomek : Koncowka(reszta'[c], Potomne[podpunkt])
  /\ Zostalo(p)' = {} /\ ~ Zywy(p)'
  /\ \A q \in Proces \ {p} : Zostalo(q)' = Zostalo(q) /\ (Zywy(q)' <=> Zywy(q))

(* Nothing left is an end of every program.                                *)
LEMMA PustaKoncowka == ASSUME NEW t \in Seq(Wywolania) PROVE Koncowka(<<>>, t)
<1>1. Len(t) \in 0..Len(t) /\ SubSeq(t, Len(t) + 1, Len(t)) = <<>>
  BY SubSeqEmpty
<1> QED BY <1>1 DEF Koncowka

(* exit(), and the exit after a perror(), end the process in this way.     *)
LEMMA ToOdchodzi == ASSUME Typy, NEW p \in Proces, Konczy(p) PROVE Odchodzi(p)
<1>1. reszta \in [Proces -> Seq(Wywolania)] /\ podpunkt \in DOMAIN Macierzyste
  BY DEF Typy, ProcesyOK
<1>2. reszta' = [reszta EXCEPT ![p] = <<>>]
  BY DEF Konczy
<1>3. \A q \in Proces : reszta'[q] = IF q = p THEN <<>> ELSE reszta[q]
  BY <1>1, <1>2
<1>4. reszta' \in [Proces -> Seq(Wywolania)]
  BY <1>1, <1>2
<1>5. Zbior(<<>>) = {}
  BY DEF Zbior
<1>6. Koncowka(<<>>, Macierzyste[podpunkt]) /\ Koncowka(<<>>, Potomne[podpunkt])
  BY <1>1, Programy, PustaKoncowka
<1>7. /\ Zostalo(p)' = {} /\ ~ Zywy(p)'
      /\ \A q \in Proces \ {p} : Zostalo(q)' = Zostalo(q) /\ (Zywy(q)' <=> Zywy(q))
  BY <1>3, <1>5 DEF Zostalo, Zywy
<1>8. Koncowka(reszta'["m"], Macierzyste[podpunkt])
  BY <1>3, <1>6, Procesow DEF Typy, ProcesyOK
<1>9. \A c \in Potomek : Koncowka(reszta'[c], Potomne[podpunkt])
  BY <1>3, <1>6, Procesow DEF Typy, ProcesyOK
<1> QED BY <1>4, <1>7, <1>8, <1>9 DEF Odchodzi

-----------------------------------------------------------------------------
(* The steps as they change the buffers and what is written.               *)

(* Lines are lines, and none waits for a terminal.                         *)
LinieOK == /\ wydruk \in Seq(Wiersz) /\ bufor \in [Proces -> Seq(Wiersz)]
           /\ \A p \in Proces : wyjscie = "terminal" => bufor[p] = <<>>

(* The process p prints l; the child c has a copy of the buffer; p loses   *)
(* its buffer to a new program; p writes its buffer out.                   *)
Dopisuje(p, l) ==
  /\ l \in Wiersz /\ LinieOK'
  /\ wydruk' = IF wyjscie = "terminal" THEN wydruk \o <<l>> ELSE wydruk
  /\ \A q \in Proces : bufor'[q] = IF wyjscie # "terminal" /\ q = p
                                   THEN bufor[p] \o <<l>> ELSE bufor[q]

Kopiuje(c) ==
  /\ LinieOK' /\ wydruk' = wydruk
  /\ \A q \in Proces : bufor'[q] = IF q = c THEN bufor["m"] ELSE bufor[q]

Gubi(p) ==
  /\ LinieOK' /\ wydruk' = wydruk
  /\ \A q \in Proces : bufor'[q] = IF q = p THEN <<>> ELSE bufor[q]

Oddaje(p) ==
  /\ LinieOK' /\ wydruk' = wydruk \o bufor[p]
  /\ \A q \in Proces : bufor'[q] = IF q = p THEN <<>> ELSE bufor[q]

(* A line has who printed it.                                              *)
LEMMA LiniaOK ==
  ASSUME Typy, NEW p \in Proces, NEW co \in {"pytanie", "iden"}
  PROVE  Linia(co, p) \in Wiersz
<1>1. PPID(p) \in Proces \cup {"powloka", "init"}
  BY Procesow DEF PPID
<1>2. pgid[p] \in Proces
  BY DEF Typy, ProcesyOK
<1> QED BY <1>1, <1>2 DEF Linia, Wiersz

(* printf() puts its line where the output goes.                           *)
LEMMA ToDopisuje ==
  ASSUME Typy, NEW p \in Proces, NEW co \in {"pytanie", "iden"},
         Printf(p, Linia(co, p)), wyjscie' = wyjscie
  PROVE  Dopisuje(p, Linia(co, p))
<1> DEFINE l == Linia(co, p)
<1>1. /\ l \in Wiersz /\ wydruk \in Seq(Wiersz) /\ bufor \in [Proces -> Seq(Wiersz)]
      /\ \A q \in Proces : wyjscie = "terminal" => bufor[q] = <<>>
  BY LiniaOK DEF Typy, ProcesyOK
<1>2. IF wyjscie = "terminal" THEN wydruk' = Append(wydruk, l) /\ bufor' = bufor
      ELSE bufor' = [bufor EXCEPT ![p] = Append(bufor[p], l)] /\ wydruk' = wydruk
  BY DEF Printf
<1> HIDE DEF l
<1>3. CASE wyjscie = "terminal"
  <2>0. l \in Wiersz /\ wydruk \in Seq(Wiersz)
    BY <1>1
  <2>2. Append(wydruk, l) = wydruk \o <<l>> /\ Append(wydruk, l) \in Seq(Wiersz)
    BY <2>0, AppendIsConcat, AppendProperties
  <2>1. wydruk' = wydruk \o <<l>> /\ wydruk' \in Seq(Wiersz) /\ bufor' = bufor
    BY <1>2, <1>3, <2>2
  <2> QED BY <1>1, <1>3, <2>1 DEF Dopisuje, LinieOK, l
<1>4. CASE wyjscie # "terminal"
  <2>0. l \in Wiersz
    BY <1>1
  <2>1. bufor[p] \in Seq(Wiersz)
    BY <1>1
  <2>2. Append(bufor[p], l) = bufor[p] \o <<l>> /\ Append(bufor[p], l) \in Seq(Wiersz)
    BY <2>0, <2>1, AppendIsConcat, AppendProperties
  <2>3. bufor' = [bufor EXCEPT ![p] = bufor[p] \o <<l>>] /\ wydruk' = wydruk
    BY <1>2, <1>4, <2>2
  <2>4. bufor' \in [Proces -> Seq(Wiersz)]
    BY <1>1, <2>2, <2>3
  <2>5. \A q \in Proces : bufor'[q] = IF q = p THEN bufor[p] \o <<l>> ELSE bufor[q]
    BY <1>1, <2>3
  <2> QED BY <1>1, <1>4, <2>3, <2>4, <2>5 DEF Dopisuje, LinieOK, l
<1> QED BY <1>3, <1>4 DEF l

(* fork() gives the child a copy of the buffer.                            *)
LEMMA ToKopiuje ==
  ASSUME Typy, NEW c \in Potomek, Fork(c)
  PROVE  Kopiuje(c)
<1>1. /\ wydruk \in Seq(Wiersz) /\ bufor \in [Proces -> Seq(Wiersz)]
      /\ \A q \in Proces : wyjscie = "terminal" => bufor[q] = <<>>
  BY DEF Typy, ProcesyOK
<1>2. wydruk' = wydruk /\ wyjscie' = wyjscie /\ bufor' = [bufor EXCEPT ![c] = bufor["m"]]
  BY DEF Fork
<1>3. c \in Proces /\ "m" \in Proces
  BY Procesow
<1>4. \A q \in Proces : bufor'[q] = IF q = c THEN bufor["m"] ELSE bufor[q]
  BY <1>1, <1>2, <1>3
<1>5. bufor' \in [Proces -> Seq(Wiersz)]
  BY <1>1, <1>2, <1>3
<1> QED BY <1>1, <1>2, <1>3, <1>4, <1>5 DEF Kopiuje, LinieOK

(* execlp() loses the buffer.                                              *)
LEMMA ToGubi ==
  ASSUME Typy, NEW p \in Proces, Execlp(p)
  PROVE  Gubi(p)
<1>1. /\ wydruk \in Seq(Wiersz) /\ bufor \in [Proces -> Seq(Wiersz)]
      /\ \A q \in Proces : wyjscie = "terminal" => bufor[q] = <<>>
  BY DEF Typy, ProcesyOK
<1>2. wydruk' = wydruk /\ wyjscie' = wyjscie /\ bufor' = [bufor EXCEPT ![p] = <<>>]
  BY DEF Execlp
<1>4. \A q \in Proces : bufor'[q] = IF q = p THEN <<>> ELSE bufor[q]
  BY <1>1, <1>2
<1>5. bufor' \in [Proces -> Seq(Wiersz)]
  BY <1>1, <1>2
<1> QED BY <1>1, <1>2, <1>4, <1>5 DEF Gubi, LinieOK

(* The end of a process writes its buffer out.                             *)
LEMMA ToOddaje ==
  ASSUME Typy, NEW p \in Proces, Konczy(p), wyjscie' = wyjscie
  PROVE  Oddaje(p)
<1>1. /\ wydruk \in Seq(Wiersz) /\ bufor \in [Proces -> Seq(Wiersz)]
      /\ \A q \in Proces : wyjscie = "terminal" => bufor[q] = <<>>
  BY DEF Typy, ProcesyOK
<1>2. wydruk' = wydruk \o bufor[p] /\ bufor' = [bufor EXCEPT ![p] = <<>>]
  BY DEF Konczy
<1>3. bufor[p] \in Seq(Wiersz)
  BY <1>1
<1>6. wydruk' \in Seq(Wiersz)
  BY <1>1, <1>2, <1>3, ConcatProperties
<1>4. \A q \in Proces : bufor'[q] = IF q = p THEN <<>> ELSE bufor[q]
  BY <1>1, <1>2
<1>5. bufor' \in [Proces -> Seq(Wiersz)]
  BY <1>1, <1>2
<1>7. LinieOK'
  BY <1>1, <1>4, <1>5, <1>6 DEF LinieOK
<1> QED BY <1>2, <1>4, <1>7 DEF Oddaje

-----------------------------------------------------------------------------
(* The types hold throughout.  The parts are those that the steps change   *)
(* together: programs, what no step but a few touches, lines, and the      *)
(* clock's.                                                                *)

(* What is left, and what hardly changes.                                  *)
ResztyOK == /\ reszta \in [Proces -> Seq(Wywolania)]
            /\ Koncowka(reszta["m"], Macierzyste[podpunkt])
            /\ \A p \in Potomek : Koncowka(reszta[p], Potomne[podpunkt])

StaleOK == /\ podpunkt \in DOMAIN Macierzyste /\ wyjscie \in {"terminal", "plik"}
           /\ pgid \in [Proces -> Proces] /\ bledy \subseteq Bledy

(* The type invariant is these parts.                                      *)
LEMMA TypyCzesci == Typy <=> ResztyOK /\ StaleOK /\ LinieOK /\ CzasOK
  BY DEF Typy, ProcesyOK, ResztyOK, StaleOK, LinieOK

(* The parts give the type invariant in the next state too.                *)
LEMMA TypyPo == (ResztyOK /\ StaleOK /\ LinieOK /\ CzasOK)' => Typy'
  BY DEF Typy, ProcesyOK, ResztyOK, StaleOK, LinieOK, CzasOK

(* At first every process has the whole of its program, or nothing, to do. *)
LEMMA TypyInit == ProcesyInit => Typy
<1> SUFFICES ASSUME ProcesyInit PROVE Typy
  OBVIOUS
<1>1. podpunkt \in DOMAIN Macierzyste /\ wyjscie \in {"terminal", "plik"}
  BY DEF ProcesyInit
<1>2. CzasOK
  BY CzasAssumption DEF ProcesyInit, CzasInit, CzasOK
<1>3. StaleOK
  BY <1>1, Procesow DEF ProcesyInit, StaleOK
<1>4. LinieOK
  BY DEF ProcesyInit, LinieOK
<1> DEFINE M == Macierzyste[podpunkt]
           D == Potomne[podpunkt]
<1>5. M \in Seq(Wywolania) /\ D \in Seq(Wywolania)
  BY <1>1, Programy
<1>6. reszta = [p \in Proces |-> IF p = "m" THEN M ELSE <<>>]
  BY DEF ProcesyInit
<1> HIDE DEF M, D
<1>7. 0 \in 0..Len(M) /\ SubSeq(M, 0 + 1, Len(M)) = M
  BY <1>5, SubSeqFull
<1>8. Koncowka(M, M) /\ Koncowka(<<>>, D)
  BY <1>5, <1>7, PustaKoncowka DEF Koncowka
<1>9. reszta \in [Proces -> Seq(Wywolania)] /\ reszta["m"] = M
      /\ \A p \in Potomek : reszta[p] = <<>>
  BY <1>5, <1>6, Procesow
<1> QED BY <1>2, <1>3, <1>4, <1>8, <1>9, TypyCzesci DEF ResztyOK, M, D

(* Each of the three kinds of step leaves a part of the program.           *)
LEMMA ToResztyOK ==
  ASSUME podpunkt' = podpunkt,
         \/ \E p \in Proces : \E co \in Wywolania : Idzie(p, co)
         \/ \E c \in Potomek : Powstaje(c)
         \/ \E p \in Proces : Odchodzi(p)
  PROVE  ResztyOK'
  BY DEF ResztyOK, Idzie, Powstaje, Odchodzi

(* Every step, a failure included, keeps the types.                        *)
LEMMA TypyKrok == Typy /\ [ProcesyNext]_ProcesyVars => Typy'
<1> SUFFICES ASSUME Typy, [ProcesyNext]_ProcesyVars PROVE Typy'
  OBVIOUS
<1>0. ResztyOK /\ StaleOK /\ LinieOK /\ CzasOK
  BY TypyCzesci
<1>w. /\ "podaj" \in Wywolania /\ "wypisz" \in Wywolania /\ "setpgid" \in Wywolania
      /\ "exec" \in Wywolania /\ "sleep" \in Wywolania /\ "wait" \in Wywolania
  BY DEF Wywolania, WywolaniaRodzica, WywolaniaDziecka
<1>1. ASSUME Tyka PROVE Typy'
  <2>1. (ResztyOK /\ StaleOK /\ LinieOK)'
    BY <1>0, <1>1 DEF Tyka, ResztyOK, StaleOK, LinieOK
  <2>2. CzasOK'
    BY <1>0, <1>1, CzasAssumption DEF Tyka, Uplywa, CzasOK
  <2> QED BY <2>1, <2>2, TypyPo
<1>2. ASSUME NEW c \in Potomek, Fork(c) PROVE Typy'
  <2>1. Powstaje(c) /\ Kopiuje(c)
    BY <1>2, ToPowstaje, ToKopiuje
  <2>2. ResztyOK'
    BY <1>2, <2>1, ToResztyOK DEF Fork
  <2>3. LinieOK'
    BY <2>1 DEF Kopiuje
  <2>4. StaleOK' /\ CzasOK'
    BY <1>0, <1>2 DEF Fork, StaleOK, CzasOK, czas
  <2> QED BY <2>2, <2>3, <2>4, TypyPo
<1>3. ASSUME NEW p \in Proces, NEW co, NEW blad, Nieudany(p, co, blad) PROVE Typy'
  <2>1. Odchodzi(p) /\ Oddaje(p)
    BY <1>3, ToOdchodzi, ToOddaje DEF Nieudany
  <2>2. ResztyOK'
    BY <1>3, <2>1, ToResztyOK DEF Nieudany
  <2>3. LinieOK'
    BY <2>1 DEF Oddaje
  <2>4. StaleOK' /\ CzasOK'
    BY <1>0, <1>3 DEF Nieudany, StaleOK, CzasOK, czas
  <2> QED BY <2>2, <2>3, <2>4, TypyPo
<1>4. ASSUME NEW p \in Proces, Exit(p) PROVE Typy'
  <2>1. Odchodzi(p) /\ Oddaje(p)
    BY <1>4, ToOdchodzi, ToOddaje DEF Exit
  <2>2. ResztyOK'
    BY <1>4, <2>1, ToResztyOK DEF Exit
  <2>3. LinieOK'
    BY <2>1 DEF Oddaje
  <2>4. StaleOK' /\ CzasOK'
    BY <1>0, <1>4 DEF Exit, StaleOK, CzasOK, czas
  <2> QED BY <2>2, <2>3, <2>4, TypyPo
<1>5. ASSUME NEW p \in Proces, Podaj(p) PROVE Typy'
  <2>1. Idzie(p, "podaj") /\ Dopisuje(p, Linia("pytanie", p))
    BY <1>5, ToIdzie, ToDopisuje DEF Podaj
  <2>2. ResztyOK'
    BY <1>w, <1>5, <2>1, ToResztyOK DEF Podaj
  <2>3. LinieOK'
    BY <2>1 DEF Dopisuje
  <2>4. StaleOK' /\ CzasOK'
    BY <1>0, <1>5 DEF Podaj, StaleOK, CzasOK, czas
  <2> QED BY <2>2, <2>3, <2>4, TypyPo
<1>6. ASSUME NEW p \in Proces, wypisz_iden(p) PROVE Typy'
  <2>1. Idzie(p, "wypisz") /\ Dopisuje(p, Linia("iden", p))
    BY <1>6, ToIdzie, ToDopisuje DEF wypisz_iden
  <2>2. ResztyOK'
    BY <1>w, <1>6, <2>1, ToResztyOK DEF wypisz_iden
  <2>3. LinieOK'
    BY <2>1 DEF Dopisuje
  <2>4. StaleOK' /\ CzasOK'
    BY <1>0, <1>6 DEF wypisz_iden, StaleOK, CzasOK, czas
  <2> QED BY <2>2, <2>3, <2>4, TypyPo
<1>7. ASSUME NEW p \in Proces, setpgid(p) PROVE Typy'
  <2>1. Idzie(p, "setpgid")
    BY <1>7, ToIdzie DEF setpgid
  <2>2. ResztyOK'
    BY <1>w, <1>7, <2>1, ToResztyOK DEF setpgid
  <2>3. LinieOK' /\ CzasOK'
    BY <1>0, <1>7 DEF setpgid, LinieOK, CzasOK, czas
  <2>4. StaleOK'
    BY <1>0, <1>7 DEF setpgid, StaleOK
  <2> QED BY <2>2, <2>3, <2>4, TypyPo
<1>8. ASSUME NEW p \in Proces, Execlp(p) PROVE Typy'
  <2>1. Idzie(p, "exec") /\ Gubi(p)
    BY <1>8, ToIdzie, ToGubi DEF Execlp
  <2>2. ResztyOK'
    BY <1>w, <1>8, <2>1, ToResztyOK DEF Execlp
  <2>3. LinieOK'
    BY <2>1 DEF Gubi
  <2>4. StaleOK' /\ CzasOK'
    BY <1>0, <1>8 DEF Execlp, StaleOK, CzasOK, czas
  <2> QED BY <2>2, <2>3, <2>4, TypyPo
<1>9. ASSUME NEW p \in Proces, Sleep(p) PROVE Typy'
  <2>1. Idzie(p, "sleep")
    BY <1>9, ToIdzie DEF Sleep
  <2>2. ResztyOK'
    BY <1>w, <1>9, <2>1, ToResztyOK DEF Sleep
  <2>3. LinieOK' /\ StaleOK'
    BY <1>0, <1>9 DEF Sleep, LinieOK, StaleOK
  <2>4. CzasOK'
    BY <1>0, <1>9, CzasAssumption DEF Sleep, Zasnij, Sekundy, CzasOK
  <2> QED BY <2>2, <2>3, <2>4, TypyPo
<1>10. ASSUME NEW p \in Proces, Wait(p) PROVE Typy'
  <2>1. Idzie(p, "wait")
    BY <1>10, ToIdzie DEF Wait
  <2>2. ResztyOK'
    BY <1>w, <1>10, <2>1, ToResztyOK DEF Wait
  <2>3. LinieOK' /\ CzasOK' /\ StaleOK'
    BY <1>0, <1>10 DEF Wait, LinieOK, CzasOK, StaleOK, czas
  <2> QED BY <2>2, <2>3, TypyPo
<1>11. CASE UNCHANGED ProcesyVars
  BY <1>0, <1>11, TypyPo
  DEF ProcesyVars, czas, ResztyOK, StaleOK, LinieOK, CzasOK
<1> QED
  BY <1>1, <1>2, <1>3, <1>4, <1>5, <1>6, <1>7, <1>8, <1>9, <1>10, <1>11, Procesow
  DEF ProcesyNext, Krok

(* Whatever fails and however fast the processes are, each has only calls  *)
(* of its own program to make, in the order of the source: no child comes  *)
(* to a fork() of the loop it was born in, there are 1 + 3 processes and   *)
(* not 2 to the 3rd.  To a terminal no line waits in a buffer.             *)
THEOREM ProcesyTypOK == ProcesySpec => []ProcesyOK
<1>1. Typy => ProcesyOK
  BY DEF Typy
<1> QED BY <1>1, TypyInit, TypyKrok, PTL DEF ProcesySpec

-----------------------------------------------------------------------------
(* Sequences of lines: which lines, in which order, how many of a kind.    *)

(* The lines of two sequences put together are those of both.              *)
LEMMA ZbiorSumy ==
  ASSUME NEW S, NEW s \in Seq(S), NEW t \in Seq(S)
  PROVE  Zbior(s \o t) = Zbior(s) \cup Zbior(t)
<1> DEFINE u == s \o t
<1>1. /\ u \in Seq(S) /\ Len(s) \in Nat /\ Len(t) \in Nat /\ Len(u) = Len(s) + Len(t)
      /\ \A k \in 1 .. Len(s) + Len(t) : u[k] = IF k <= Len(s) THEN s[k] ELSE t[k - Len(s)]
      /\ DOMAIN s = 1..Len(s) /\ DOMAIN t = 1..Len(t)
  BY ConcatProperties
<1>2. DOMAIN u = 1 .. Len(s) + Len(t)
  BY <1>1
<1> HIDE DEF u
<1>3. ASSUME NEW k \in DOMAIN u PROVE u[k] \in Zbior(s) \cup Zbior(t)
  <2>1. CASE k <= Len(s)
    BY <1>1, <1>2, <2>1 DEF Zbior
  <2>2. CASE ~ (k <= Len(s))
    <3>1. k - Len(s) \in DOMAIN t /\ u[k] = t[k - Len(s)]
      BY <1>1, <1>2, <2>2
    <3> QED BY <3>1 DEF Zbior
  <2> QED BY <2>1, <2>2
<1>4. ASSUME NEW k \in DOMAIN s PROVE s[k] \in Zbior(u)
  <2>1. k \in DOMAIN u /\ u[k] = s[k]
    BY <1>1, <1>2
  <2> QED BY <2>1 DEF Zbior
<1>5. ASSUME NEW k \in DOMAIN t PROVE t[k] \in Zbior(u)
  <2>1. k + Len(s) \in DOMAIN u /\ u[k + Len(s)] = t[k]
    BY <1>1, <1>2
  <2> QED BY <2>1 DEF Zbior
<1>6. \A x : x \in Zbior(u) <=> x \in Zbior(s) \/ x \in Zbior(t)
  BY <1>3, <1>4, <1>5 DEF Zbior
<1> QED BY <1>6 DEF u

(* The lines of a sequence of one line, and of none.                       *)
LEMMA ZbiorJednego == (\A l : Zbior(<<l>>) = {l}) /\ Zbior(<<>>) = {}
<1>1. ASSUME NEW l PROVE Zbior(<<l>>) = {l}
  <2>1. DOMAIN <<l>> = {1} /\ <<l>>[1] = l
    OBVIOUS
  <2> QED BY <2>1 DEF Zbior
<1> QED BY <1>1 DEF Zbior

(* Each line of A is before each line of B.                                *)
Kolejno(s, A, B) == \A j, k \in DOMAIN s : s[j] \in A /\ s[k] \in B => j < k

(* The order holds in two sequences put together when it holds in each,    *)
(* and there is no line of B in the first or none of A in the second.      *)
LEMMA KolejnoSumy ==
  ASSUME NEW S, NEW s \in Seq(S), NEW t \in Seq(S), NEW A, NEW B,
         Kolejno(s, A, B), Kolejno(t, A, B), Zbior(s) \cap B = {} \/ Zbior(t) \cap A = {}
  PROVE  Kolejno(s \o t, A, B)
<1> DEFINE u == s \o t
<1>1. /\ Len(s) \in Nat /\ Len(t) \in Nat
      /\ \A k \in 1 .. Len(s) + Len(t) : u[k] = IF k <= Len(s) THEN s[k] ELSE t[k - Len(s)]
      /\ DOMAIN s = 1..Len(s) /\ DOMAIN t = 1..Len(t)
  BY ConcatProperties
<1>2. DOMAIN u = 1 .. Len(s) + Len(t)
  BY ConcatProperties
<1> HIDE DEF u
<1>3. ASSUME NEW j \in DOMAIN u, NEW k \in DOMAIN u, u[j] \in A, u[k] \in B
      PROVE  j < k
  <2>1. CASE j <= Len(s) /\ k <= Len(s)
    <3>1. j \in DOMAIN s /\ k \in DOMAIN s /\ s[j] \in A /\ s[k] \in B
      BY <1>1, <1>2, <1>3, <2>1
    <3> QED BY <3>1 DEF Kolejno
  <2>2. CASE ~ (j <= Len(s)) /\ ~ (k <= Len(s))
    <3>1. /\ j - Len(s) \in DOMAIN t /\ k - Len(s) \in DOMAIN t
          /\ t[j - Len(s)] \in A /\ t[k - Len(s)] \in B
      BY <1>1, <1>2, <1>3, <2>2
    <3>2. j - Len(s) < k - Len(s)
      BY <3>1 DEF Kolejno
    <3> QED BY <1>1, <1>2, <3>2
  <2>3. CASE j <= Len(s) /\ ~ (k <= Len(s))
    BY <1>1, <1>2, <2>3
  <2>4. CASE ~ (j <= Len(s)) /\ k <= Len(s)
    <3>1. j - Len(s) \in DOMAIN t /\ t[j - Len(s)] \in A /\ k \in DOMAIN s /\ s[k] \in B
      BY <1>1, <1>2, <1>3, <2>4
    <3>2. t[j - Len(s)] \in Zbior(t) /\ s[k] \in Zbior(s)
      BY <3>1 DEF Zbior
    <3> QED BY <3>1, <3>2
  <2> QED BY <2>1, <2>2, <2>3, <2>4
<1> QED BY <1>3 DEF Kolejno, u

(* The order holds where there is nothing of A, or nothing of B.           *)
LEMMA KolejnoPusto ==
  ASSUME NEW s, NEW A, NEW B, Zbior(s) \cap A = {} \/ Zbior(s) \cap B = {}
  PROVE  Kolejno(s, A, B)
  BY DEF Kolejno, Zbior

-----------------------------------------------------------------------------
(* Where in s the lines of a kind are, and how many: what p printed of co. *)
Miejsca(s, co, p) == {k \in DOMAIN s : s[k].co = co /\ s[k].kto = p}
Ile(s, co, p) == Cardinality(Miejsca(s, co, p))
Jeden(b) == IF b THEN 1 ELSE 0

(* There are finitely many lines of a kind.                                *)
LEMMA IleSkonczone ==
  ASSUME NEW S, NEW s \in Seq(S), NEW co, NEW p
  PROVE  IsFiniteSet(Miejsca(s, co, p)) /\ Ile(s, co, p) \in Nat
<1>1. IsFiniteSet(1..Len(s)) /\ Miejsca(s, co, p) \in SUBSET (1..Len(s))
  BY FS_Interval DEF Miejsca
<1> QED BY <1>1, FS_Subset, FS_CardinalityType DEF Ile

(* How many lines of a kind there are in none, and in one.                 *)
LEMMA IleJednego ==
  ASSUME NEW l, NEW co, NEW p
  PROVE  /\ Ile(<<>>, co, p) = 0
         /\ Ile(<<l>>, co, p) = Jeden(l.co = co /\ l.kto = p)
<1>1. Miejsca(<<>>, co, p) = {}
  BY DEF Miejsca
<1>2. DOMAIN <<l>> = {1} /\ <<l>>[1] = l
  OBVIOUS
<1>3. Miejsca(<<l>>, co, p) = IF l.co = co /\ l.kto = p THEN {1} ELSE {}
  BY <1>2 DEF Miejsca
<1> QED BY <1>1, <1>3, FS_EmptySet, FS_Singleton DEF Ile, Jeden

(* Two sequences put together have as many lines of a kind as both have.   *)
LEMMA IleSumy ==
  ASSUME NEW S, NEW s \in Seq(S), NEW t \in Seq(S), NEW co, NEW p
  PROVE  Ile(s \o t, co, p) = Ile(s, co, p) + Ile(t, co, p)
<1> DEFINE u == s \o t
           n == Len(s)
           A == Miejsca(s, co, p)
           B == Miejsca(t, co, p)
           C == Miejsca(u, co, p)
           D == {k \in n + 1 .. n + Len(t) : u[k].co = co /\ u[k].kto = p}
           f == [k \in B |-> k + n]
<1>1. /\ n \in Nat /\ Len(t) \in Nat
      /\ \A k \in 1 .. n + Len(t) : u[k] = IF k <= n THEN s[k] ELSE t[k - n]
      /\ DOMAIN s = 1..n /\ DOMAIN t = 1..Len(t)
  BY ConcatProperties
<1>2. DOMAIN u = 1 .. n + Len(t)
  BY ConcatProperties
<1>3. IsFiniteSet(A) /\ IsFiniteSet(B)
  BY IleSkonczone
<1>4. B \subseteq 1..Len(t)
  BY <1>1 DEF Miejsca
<1> HIDE DEF u, n
<1>5. \A k \in B : k + n \in D
  <2> SUFFICES ASSUME NEW k \in B PROVE k + n \in D
    OBVIOUS
  <2>1. k \in 1..Len(t) /\ t[k].co = co /\ t[k].kto = p
    BY <1>1 DEF Miejsca
  <2>2. k + n \in n + 1 .. n + Len(t) /\ u[k + n] = t[k]
    BY <1>1, <2>1
  <2> QED BY <2>1, <2>2
<1>6. \A k \in D : k - n \in B /\ (k - n) + n = k
  <2> SUFFICES ASSUME NEW k \in D PROVE k - n \in B /\ (k - n) + n = k
    OBVIOUS
  <2>1. k - n \in DOMAIN t /\ u[k] = t[k - n] /\ (k - n) + n = k
    BY <1>1
  <2> QED BY <2>1 DEF Miejsca
<1>7. ExistsBijection(B, D)
  <2>1. f \in [B -> D] /\ \A k \in B : f[k] = k + n
    BY <1>5
  <2>2. \A j, k \in B : f[j] = f[k] => j = k
    BY <1>1, <1>4, <2>1
  <2>3. \A k \in D : \E j \in B : f[j] = k
    BY <1>6, <2>1
  <2> HIDE DEF f, B, D
  <2>4. f \in Bijection(B, D)
    BY <2>1, <2>2, <2>3, Fun_IsBij
  <2> QED BY <2>4 DEF ExistsBijection
<1>8. IsFiniteSet(D) /\ Cardinality(D) = Cardinality(B)
  <2> HIDE DEF B, D
  <2> QED BY <1>3, <1>7, FS_Bijection
<1>9. C = A \cup D
  <2>1. ASSUME NEW k \in C PROVE k \in A \cup D
    <3>1. k \in 1 .. n + Len(t) /\ u[k].co = co /\ u[k].kto = p
      BY <1>2 DEF Miejsca
    <3>2. CASE k <= n
      <4>1. k \in DOMAIN s /\ u[k] = s[k]
        BY <1>1, <3>1, <3>2
      <4> QED BY <3>1, <4>1 DEF Miejsca
    <3>3. CASE ~ (k <= n)
      <4>1. k \in n + 1 .. n + Len(t)
        BY <1>1, <3>1, <3>3
      <4> QED BY <3>1, <4>1
    <3> QED BY <3>2, <3>3
  <2>2. ASSUME NEW k \in A PROVE k \in C
    <3>1. k \in 1..n /\ s[k].co = co /\ s[k].kto = p
      BY <1>1 DEF Miejsca
    <3>2. k \in DOMAIN u /\ u[k] = s[k]
      BY <1>1, <1>2, <3>1
    <3> QED BY <3>1, <3>2 DEF Miejsca
  <2>3. ASSUME NEW k \in D PROVE k \in C
    <3>1. k \in DOMAIN u
      BY <1>1, <1>2
    <3> QED BY <3>1 DEF Miejsca
  <2>4. \A k : k \in C <=> k \in A \cup D
    BY <2>1, <2>2, <2>3
  <2> HIDE DEF A, C, D
  <2> QED BY <2>4
<1>10. A \cap D = {}
  BY <1>1 DEF Miejsca
<1>11. Cardinality(C) = Cardinality(A) + Cardinality(D) /\ Cardinality(A) \in Nat
  <2> HIDE DEF A, C, D
  <2>1. Cardinality(A \cap D) = 0
    BY <1>10, FS_EmptySet
  <2>2. Cardinality(A) \in Nat /\ Cardinality(D) \in Nat
    BY <1>3, <1>8, FS_CardinalityType
  <2>3. IsFiniteSet(A) /\ IsFiniteSet(D)
    BY <1>3, <1>8
  <2>4. Cardinality(A \cup D) = Cardinality(A) + Cardinality(D) - Cardinality(A \cap D)
    BY <2>3, FS_Union
  <2> QED BY <1>9, <2>1, <2>2, <2>4
<1> QED BY <1>8, <1>11 DEF Ile, u

-----------------------------------------------------------------------------
(* The steps in which nothing fails.                                       *)

(* The calls, by what they change: p prints; the parent forks; p leads a   *)
(* group of its own; p becomes iden; p goes to sleep; p has waited for the *)
(* children; p exits; time goes by.                                        *)
Pisze(p, co, tresc) ==
  /\ Idzie(p, co) /\ Dopisuje(p, Linia(tresc, p))
  /\ co \in {"podaj", "wypisz"} /\ (co = "podaj" <=> tresc = "pytanie")
  /\ pgid' = pgid /\ sen' = sen /\ luz' = luz
Rodzi(c) ==
  /\ Powstaje(c) /\ Kopiuje(c) /\ pgid' = pgid /\ sen' = sen /\ luz' = luz
Przenosi(p) ==
  /\ Idzie(p, "setpgid") /\ pgid' = [pgid EXCEPT ![p] = p]
  /\ wydruk' = wydruk /\ bufor' = bufor /\ sen' = sen /\ luz' = luz
Podmienia(p) ==
  /\ Idzie(p, "exec") /\ Gubi(p) /\ pgid' = pgid /\ sen' = sen /\ luz' = luz
Zasypia(p) ==
  /\ Idzie(p, "sleep") /\ Zasnij(p, Sekundy(p))
  /\ wydruk' = wydruk /\ bufor' = bufor /\ pgid' = pgid
Doczekal(p) ==
  /\ Idzie(p, "wait") /\ \A c \in Potomek : ~ Zywy(c)
  /\ wydruk' = wydruk /\ bufor' = bufor /\ pgid' = pgid /\ sen' = sen /\ luz' = luz
Wychodzi(p) ==
  /\ Gdzie(p, "exit") /\ Zywy(p) /\ sen[p] = 0
  /\ Odchodzi(p) /\ Oddaje(p) /\ pgid' = pgid /\ sen' = sen /\ luz' = luz
Mija ==
  /\ Uplywa(Gotowe)
  /\ reszta' = reszta /\ wydruk' = wydruk /\ bufor' = bufor /\ pgid' = pgid

Udany ==
  /\ podpunkt' = podpunkt /\ wyjscie' = wyjscie
  /\ \/ \E p \in Proces : \/ Pisze(p, "podaj", "pytanie") \/ Pisze(p, "wypisz", "iden")
                          \/ Przenosi(p) \/ Podmienia(p) \/ Zasypia(p) \/ Doczekal(p)
                          \/ Wychodzi(p)
     \/ \E c \in Potomek : Rodzi(c)
     \/ Mija

(* A step after which nothing has failed is one of these, and nothing had  *)
(* failed before it.                                                       *)
LEMMA Udane ==
  ASSUME Typy, ProcesyNext, bledy' = {}
  PROVE  Udany /\ bledy = {}
<1>1. ASSUME Tyka PROVE Udany /\ bledy = {}
  BY <1>1 DEF Tyka, Udany, Mija
<1>2. ASSUME NEW c \in Potomek, Fork(c) PROVE Udany /\ bledy = {}
  <2>1. Powstaje(c) /\ Kopiuje(c)
    BY <1>2, ToPowstaje, ToKopiuje
  <2>2. Rodzi(c) /\ podpunkt' = podpunkt /\ wyjscie' = wyjscie /\ bledy = {}
    BY <1>2, <2>1 DEF Fork, czas, Rodzi
  <2> QED BY <2>2 DEF Udany
<1>3. ASSUME NEW p \in Proces, NEW co, NEW blad, Nieudany(p, co, blad) PROVE FALSE
  BY <1>3 DEF Nieudany
<1>4. ASSUME NEW p \in Proces, Exit(p) PROVE Udany /\ bledy = {}
  <2>1. Odchodzi(p) /\ Oddaje(p)
    BY <1>4, ToOdchodzi, ToOddaje DEF Exit
  <2>2. Gdzie(p, "exit") /\ Zywy(p) /\ sen[p] = 0
    BY <1>4, NaCzole DEF Exit, Biegnie
  <2>3. Wychodzi(p) /\ podpunkt' = podpunkt /\ wyjscie' = wyjscie /\ bledy = {}
    BY <1>4, <2>1, <2>2 DEF Exit, czas, Wychodzi
  <2> QED BY <2>3 DEF Udany
<1>5. ASSUME NEW p \in Proces, Podaj(p) PROVE Udany /\ bledy = {}
  <2>1. Idzie(p, "podaj") /\ Dopisuje(p, Linia("pytanie", p))
    BY <1>5, ToIdzie, ToDopisuje DEF Podaj
  <2>2. Pisze(p, "podaj", "pytanie") /\ podpunkt' = podpunkt /\ wyjscie' = wyjscie
        /\ bledy = {}
    BY <1>5, <2>1 DEF Podaj, czas, Pisze
  <2> QED BY <2>2 DEF Udany
<1>6. ASSUME NEW p \in Proces, wypisz_iden(p) PROVE Udany /\ bledy = {}
  <2>1. Idzie(p, "wypisz") /\ Dopisuje(p, Linia("iden", p))
    BY <1>6, ToIdzie, ToDopisuje DEF wypisz_iden
  <2>2. Pisze(p, "wypisz", "iden") /\ podpunkt' = podpunkt /\ wyjscie' = wyjscie
        /\ bledy = {}
    BY <1>6, <2>1 DEF wypisz_iden, czas, Pisze
  <2> QED BY <2>2 DEF Udany
<1>7. ASSUME NEW p \in Proces, setpgid(p) PROVE Udany /\ bledy = {}
  <2>1. Idzie(p, "setpgid")
    BY <1>7, ToIdzie DEF setpgid
  <2>2. Przenosi(p) /\ podpunkt' = podpunkt /\ wyjscie' = wyjscie /\ bledy = {}
    BY <1>7, <2>1 DEF setpgid, czas, Przenosi
  <2> QED BY <2>2 DEF Udany
<1>8. ASSUME NEW p \in Proces, Execlp(p) PROVE Udany /\ bledy = {}
  <2>1. Idzie(p, "exec") /\ Gubi(p)
    BY <1>8, ToIdzie, ToGubi DEF Execlp
  <2>2. Podmienia(p) /\ podpunkt' = podpunkt /\ wyjscie' = wyjscie /\ bledy = {}
    BY <1>8, <2>1 DEF Execlp, czas, Podmienia
  <2> QED BY <2>2 DEF Udany
<1>9. ASSUME NEW p \in Proces, Sleep(p) PROVE Udany /\ bledy = {}
  <2>1. Idzie(p, "sleep")
    BY <1>9, ToIdzie DEF Sleep
  <2>2. Zasypia(p) /\ podpunkt' = podpunkt /\ wyjscie' = wyjscie /\ bledy = {}
    BY <1>9, <2>1 DEF Sleep, Zasypia
  <2> QED BY <2>2 DEF Udany
<1>10. ASSUME NEW p \in Proces, Wait(p) PROVE Udany /\ bledy = {}
  <2>1. Idzie(p, "wait")
    BY <1>10, ToIdzie DEF Wait
  <2>2. Doczekal(p) /\ podpunkt' = podpunkt /\ wyjscie' = wyjscie /\ bledy = {}
    BY <1>10, <2>1 DEF Wait, WaitMoze, czas, Doczekal
  <2> QED BY <2>2 DEF Udany
<1> QED
  BY <1>1, <1>2, <1>3, <1>4, <1>5, <1>6, <1>7, <1>8, <1>9, <1>10, Procesow
  DEF ProcesyNext, Krok

-----------------------------------------------------------------------------
(* Who is alive, what is left, and when.  The parts of the invariant for a *)
(* run in which nothing has failed.                                        *)

(* The time in which sleep() does for wait().                              *)
Wczas == 2 * Opoznienie < Sekunda

(* A child that has not been forked does not run.                          *)
Nieurodzeni == \A c \in Potomek : c \in Zostalo("m") => ~ Zywy(c)

(* A child sleeps in variant (c) only.                                     *)
Bezsenni == podpunkt # "c" => \A c \in Potomek : sen[c] = 0

(* The group is the parent's, until in (e) the child has made its own.     *)
Grupy == \A p \in Proces :
  /\ podpunkt # "e" \/ p = "m" => pgid[p] = "m"
  /\ podpunkt = "e" /\ p # "m" /\ Zywy(p) /\ "setpgid" \notin Zostalo(p) => pgid[p] = p

(* A child that runs has a parent: in (b) and exec one that has its wait() *)
(* before it, in (d) one that has its sleep() before it or so much of it   *)
(* left that the child, which the scheduler keeps back no longer than      *)
(* Opoznienie, ends first.                                                 *)
Trwa == \A c \in Potomek : Zywy(c) =>
  /\ podpunkt \in {"b", "exec"} => "wait" \in Zostalo("m")
  /\ podpunkt = "d" /\ Wczas => \/ "sleep" \in Zostalo("m")
                                \/ /\ Zywy("m")
                                   /\ sen["m"] + Opoznienie >= luz[c] + 2 * Sekunda

(* In (c), by when the parent has ended: from its fork()s on it sleeps for *)
(* a second, and comes a delay late at the most.  This is before any child *)
(* that sleeps wakes up.                                                   *)
Termin == IF "sleep" \in Zostalo("m") THEN luz["m"] + Sekunda + Opoznienie
          ELSE sen["m"] + luz["m"]
Krocej == podpunkt = "c" /\ Wczas /\ Zywy("m") =>
  /\ "sleep" \in Zostalo("m") => sen["m"] = 0
  /\ Termin <= Sekunda + 2 * Opoznienie
  /\ \A c \in Potomek : Zywy(c) /\ "sleep" \notin Zostalo(c) => Termin < sen[c]

(* All of these.                                                           *)
Zycie == Nieurodzeni /\ Bezsenni /\ Grupy /\ Trwa /\ Krocej

(* The calls of a process that is not at its end are those of its program. *)
LEMMA NaMiejscu ==
  ASSUME Typy
  PROVE  /\ \A p \in Proces : Zywy(p) => Gdzie(p, Head(reszta[p]))
         /\ \A p \in Proces : ~ Zywy(p) => Zostalo(p) = {}
  BY NaCzole, ZywyMa

(* A process whose sleep is over and that waits for nothing has to run.    *)
LEMMA NieGotowe ==
  ASSUME Typy, NEW p \in Proces, Zywy(p), sen[p] = 0,
         p # "m" \/ podpunkt \notin {"b", "exec"}
  PROVE  p \in Gotowe
<1> DEFINE h == Head(reszta[p])
<1>1. Gdzie(p, h)
  BY NaMiejscu
<1> HIDE DEF h
<1>2. h # "wait"
  BY <1>1 DEF Gdzie, GdzieRodzic, GdzieDziecko, WywolaniaDziecka
<1> QED BY <1>2 DEF Gotowe, h

(* Each part holds after a step in which nothing fails.  A fork() takes    *)
(* the child from what the parent has to do.                               *)
LEMMA NieurodzeniKrok == ASSUME Typy, Nieurodzeni, Udany PROVE Nieurodzeni'
<1>1. ASSUME NEW p \in Proces, NEW co, Idzie(p, co) PROVE Nieurodzeni'
  BY <1>1, Procesow DEF Idzie, Nieurodzeni
<1>2. ASSUME NEW c \in Potomek, Powstaje(c) PROVE Nieurodzeni'
  BY <1>2, Procesow DEF Powstaje, Nieurodzeni
<1>3. ASSUME NEW p \in Proces, Odchodzi(p) PROVE Nieurodzeni'
  BY <1>3, Procesow DEF Odchodzi, Nieurodzeni
<1>4. ASSUME reszta' = reszta PROVE Nieurodzeni'
  BY <1>4 DEF Nieurodzeni, Zostalo, Zywy
<1> QED BY <1>1, <1>2, <1>3, <1>4
        DEF Udany, Pisze, Rodzi, Przenosi, Podmienia, Zasypia, Doczekal, Wychodzi, Mija

(* Only a child of (c) has a sleep() in its program.                       *)
LEMMA BezsenniKrok == ASSUME Typy, Bezsenni, Udany PROVE Bezsenni'
<1>0. podpunkt' = podpunkt
  BY DEF Udany
<1>1. ASSUME NEW p \in Proces, Zasypia(p) PROVE Bezsenni'
  <2>1. p # "m" => podpunkt = "c"
    BY <1>1 DEF Zasypia, Idzie, Gdzie, GdzieDziecko
  <2>2. \A q \in Proces : q # p => sen'[q] = sen[q]
    BY <1>1 DEF Zasypia, Zasnij, Typy, ProcesyOK, CzasOK
  <2> QED BY <1>0, <2>1, <2>2, Procesow DEF Bezsenni
<1>2. ASSUME Mija PROVE Bezsenni'
  BY <1>0, <1>2, Procesow DEF Mija, Uplywa, Bezsenni
<1>3. ASSUME sen' = sen PROVE Bezsenni'
  BY <1>0, <1>3 DEF Bezsenni
<1> QED BY <1>1, <1>2, <1>3
        DEF Udany, Pisze, Rodzi, Przenosi, Podmienia, Zasypia, Doczekal, Wychodzi

(* setpgid() is the child's own, and fork() has set no group yet.          *)
LEMMA GrupyKrok == ASSUME Typy, Nieurodzeni, Grupy, Udany PROVE Grupy'
<1>0. podpunkt' = podpunkt /\ pgid \in [Proces -> Proces]
  BY DEF Udany, Typy, ProcesyOK
<1>1. ASSUME NEW p \in Proces, NEW co, Idzie(p, co), co # "setpgid", pgid' = pgid
      PROVE  Grupy'
  BY <1>0, <1>1 DEF Idzie, Grupy
<1>2. ASSUME NEW p \in Proces, Przenosi(p) PROVE Grupy'
  <2>1. p # "m" /\ podpunkt = "e"
    BY <1>2 DEF Przenosi, Idzie, Gdzie, GdzieRodzic, GdzieDziecko, WywolaniaRodzica
  <2>2. \A q \in Proces : pgid'[q] = IF q = p THEN p ELSE pgid[q]
    BY <1>0, <1>2 DEF Przenosi
  <2>3. \A q \in Proces \ {p} : Zostalo(q)' = Zostalo(q) /\ (Zywy(q)' <=> Zywy(q))
    BY <1>2 DEF Przenosi, Idzie
  <2> QED BY <1>0, <2>1, <2>2, <2>3 DEF Grupy
<1>3. ASSUME NEW c \in Potomek, Rodzi(c) PROVE Grupy'
  <2>1. podpunkt = "e" => "setpgid" \in Zostalo(c)'
    BY <1>3 DEF Rodzi, Powstaje
  <2>2. \A q \in Proces \ {"m", c} : Zostalo(q)' = Zostalo(q) /\ (Zywy(q)' <=> Zywy(q))
    BY <1>3 DEF Rodzi, Powstaje
  <2>3. pgid' = pgid
    BY <1>3 DEF Rodzi
  <2> QED BY <1>0, <2>1, <2>2, <2>3 DEF Grupy
<1>4. ASSUME NEW p \in Proces, Wychodzi(p) PROVE Grupy'
  BY <1>0, <1>4 DEF Wychodzi, Odchodzi, Grupy
<1>5. ASSUME reszta' = reszta, pgid' = pgid PROVE Grupy'
  BY <1>0, <1>5 DEF Grupy, Zostalo, Zywy
<1> QED BY <1>1, <1>2, <1>3, <1>4, <1>5
        DEF Udany, Pisze, Podmienia, Zasypia, Doczekal, Mija

(* The parent's wait() is over only when no child runs; in (d) a tick      *)
(* takes as much from the child's delay as from the parent's sleep, which  *)
(* is the longer of the two.                                               *)
LEMMA TrwaKrok ==
  ASSUME Typy, Nieurodzeni, Bezsenni, Trwa, Udany
  PROVE  Trwa'
<1>0. /\ podpunkt' = podpunkt /\ sen \in [Proces -> Nat] /\ luz \in [Proces -> 0..Opoznienie]
      /\ Sekunda \in Nat \ {0} /\ Opoznienie \in Nat
  BY CzasAssumption DEF Udany, Typy, ProcesyOK, CzasOK
<1>1. ASSUME NEW p \in Proces, NEW co, Idzie(p, co), co # "wait", co # "sleep",
             sen' = sen, luz' = luz
      PROVE  Trwa'
  BY <1>0, <1>1, Procesow DEF Idzie, Trwa
<1>2. ASSUME NEW p \in Proces, Doczekal(p) PROVE Trwa'
  BY <1>0, <1>2, Procesow DEF Doczekal, Idzie, Trwa
<1>3. ASSUME NEW p \in Proces, Zasypia(p) PROVE Trwa'
  <2>1. Idzie(p, "sleep")
    BY <1>3 DEF Zasypia
  <2>2. \A q \in Proces : /\ sen'[q] = IF q = p THEN Sekundy(p) * Sekunda ELSE sen[q]
                          /\ luz'[q] = IF q = p THEN Opoznienie ELSE luz[q]
    BY <1>0, <1>3 DEF Zasypia, Zasnij
  <2>3. CASE podpunkt = "d"
    <3>1. p = "m"
      BY <2>1, <2>3 DEF Idzie, Gdzie, GdzieDziecko
    <3>2. sen'["m"] = 2 * Sekunda
      BY <2>2, <2>3, <3>1, Procesow DEF Sekundy
    <3>3. \A c \in Potomek : luz'[c] \in 0..Opoznienie
      BY <1>0, <2>2, Procesow
    <3>4. Zywy("m")'
      BY <2>1, <3>1 DEF Idzie
    <3> QED BY <1>0, <2>3, <3>2, <3>3, <3>4 DEF Trwa
  <2>4. CASE podpunkt # "d"
    BY <1>0, <2>1, <2>4, Procesow DEF Idzie, Trwa
  <2> QED BY <2>3, <2>4
<1>4. ASSUME NEW c \in Potomek, Rodzi(c) PROVE Trwa'
  <2>1. GdzieRodzic(podpunkt, c, Zostalo("m")) /\ Zostalo("m")' = Zostalo("m") \ {c}
    BY <1>4 DEF Rodzi, Powstaje
  <2>2. /\ podpunkt \in {"b", "exec"} => "wait" \in Zostalo("m")
        /\ podpunkt = "d" => "sleep" \in Zostalo("m")
    BY <2>1 DEF GdzieRodzic
  <2>3. c \notin {"wait", "sleep"}
    BY DEF Potomek
  <2> QED BY <1>0, <2>1, <2>2, <2>3 DEF Trwa
<1>5. ASSUME NEW p \in Proces, Wychodzi(p) PROVE Trwa'
  <2>1. Odchodzi(p) /\ sen' = sen /\ luz' = luz /\ sen[p] = 0
    BY <1>5 DEF Wychodzi
  <2>2. CASE p # "m"
    BY <1>0, <2>1, <2>2, Procesow DEF Odchodzi, Trwa
  <2>3. CASE p = "m"
    <3>1. Zostalo("m") = {"exit"}
      BY <1>5, <2>3 DEF Wychodzi, Gdzie, GdzieRodzic
    <3>2. ASSUME NEW c \in Potomek, Zywy(c)
          PROVE  podpunkt \notin {"b", "exec"} /\ ~ (podpunkt = "d" /\ Wczas)
      <4>1. luz[c] \in 0..Opoznienie
        BY <1>0, Procesow
      <4> QED BY <1>0, <2>1, <2>3, <3>1, <3>2, <4>1 DEF Trwa, Wczas
    <3>3. \A c \in Potomek : Zywy(c)' <=> Zywy(c)
      BY <2>1, <2>3, Procesow DEF Odchodzi
    <3> QED BY <1>0, <3>2, <3>3 DEF Trwa
  <2> QED BY <2>2, <2>3
<1>6. ASSUME Mija PROVE Trwa'
  <2>0. reszta' = reszta /\ Uplywa(Gotowe)
    BY <1>6 DEF Mija
  <2>1. /\ \A p \in Proces : Zostalo(p)' = Zostalo(p) /\ (Zywy(p)' <=> Zywy(p))
        /\ "m" \in Proces /\ Potomek \subseteq Proces
    BY <2>0, Procesow DEF Zostalo, Zywy
  <2>2. ASSUME NEW c \in Potomek, Zywy(c), podpunkt = "d", Wczas, "sleep" \notin Zostalo("m")
        PROVE  sen'["m"] + Opoznienie >= luz'[c] + 2 * Sekunda
    <3>1. c \in Proces /\ sen[c] = 0 /\ c # "m"
      BY <2>2, Procesow DEF Bezsenni
    <3>2. c \in Gotowe
      BY <2>2, <3>1, NieGotowe
    <3>3. sen["m"] + Opoznienie >= luz[c] + 2 * Sekunda
      BY <2>2 DEF Trwa
    <3>4. luz[c] > 0 /\ luz'[c] = luz[c] - 1
      BY <2>0, <3>1, <3>2 DEF Uplywa
    <3>5. sen'["m"] = IF sen["m"] > 0 THEN sen["m"] - 1 ELSE 0
      BY <2>0, <2>1 DEF Uplywa
    <3>6. luz[c] \in 0..Opoznienie /\ sen["m"] \in Nat
      BY <1>0, <2>1
    <3> QED BY <1>0, <2>2, <3>3, <3>4, <3>5, <3>6 DEF Wczas
  <2> QED BY <1>0, <2>1, <2>2 DEF Trwa
<1> QED BY <1>1, <1>2, <1>3, <1>4, <1>5, <1>6
        DEF Udany, Pisze, Przenosi, Podmienia

(* When a child of (c) falls asleep the parent is at the most a second and *)
(* two delays from its end, and every tick brings both nearer by as much.  *)
LEMMA KrocejKrok ==
  ASSUME Typy, Krocej, Udany
  PROVE  Krocej'
<1>0. /\ podpunkt' = podpunkt /\ sen \in [Proces -> Nat] /\ luz \in [Proces -> 0..Opoznienie]
      /\ Sekunda \in Nat \ {0} /\ Opoznienie \in Nat
  BY CzasAssumption DEF Udany, Typy, ProcesyOK, CzasOK
<1>1. ASSUME NEW p \in Proces, NEW co, Idzie(p, co), co # "sleep", sen' = sen, luz' = luz
      PROVE  Krocej'
  BY <1>0, <1>1, Procesow DEF Idzie, Krocej, Termin
<1>2. ASSUME NEW p \in Proces, Zasypia(p) PROVE Krocej'
  <2> SUFFICES ASSUME podpunkt = "c", Wczas, Zywy("m")' PROVE Krocej'
    BY <1>0 DEF Krocej
  <2>1. Idzie(p, "sleep") /\ "m" \in Proces /\ Potomek \subseteq Proces /\ "m" \notin Potomek
    BY <1>2, Procesow DEF Zasypia
  <2>2. \A q \in Proces : /\ sen'[q] = IF q = p THEN Sekundy(p) * Sekunda ELSE sen[q]
                          /\ luz'[q] = IF q = p THEN Opoznienie ELSE luz[q]
    BY <1>0, <1>2 DEF Zasypia, Zasnij
  <2>3. /\ \A q \in Proces : Zostalo(q)' = IF q = p THEN Zostalo(p) \ {"sleep"} ELSE Zostalo(q)
        /\ \A q \in Proces : Zywy(q)' <=> Zywy(q)
        /\ Zywy("m")
    BY <2>1 DEF Idzie
  <2>4. /\ "sleep" \in Zostalo("m") => sen["m"] = 0
        /\ Termin <= Sekunda + 2 * Opoznienie
        /\ \A c \in Potomek : Zywy(c) /\ "sleep" \notin Zostalo(c) => Termin < sen[c]
    BY <2>3 DEF Krocej
  <2>5. sen["m"] \in Nat /\ luz["m"] \in 0..Opoznienie
    BY <1>0, <2>1
  <2>6. CASE p = "m"
    <3>1. sen'["m"] = Sekunda /\ luz'["m"] = Opoznienie
      BY <1>0, <2>1, <2>2, <2>6 DEF Sekundy
    <3>2. "sleep" \in Zostalo("m") /\ "sleep" \notin Zostalo("m")'
      BY <2>1, <2>3, <2>6 DEF Idzie, Gdzie, GdzieRodzic
    <3>3. Termin' <= Termin /\ Termin' = Sekunda + Opoznienie /\ Termin \in Nat
      BY <1>0, <2>5, <3>1, <3>2 DEF Termin
    <3>4. ASSUME NEW c \in Potomek, Zywy(c)', "sleep" \notin Zostalo(c)' PROVE Termin' < sen'[c]
      <4>1. Zywy(c) /\ "sleep" \notin Zostalo(c) /\ sen'[c] = sen[c] /\ sen[c] \in Nat
        BY <1>0, <2>1, <2>2, <2>3, <2>6, <3>4
      <4> QED BY <1>0, <2>4, <3>3, <4>1 DEF Wczas
    <3> QED BY <1>0, <3>2, <3>3, <3>4 DEF Krocej
  <2>7. CASE p # "m"
    <3>1. sen'[p] = 2 * Sekunda /\ p \in Proces
      BY <2>2, <2>7 DEF Sekundy
    <3>2. sen'["m"] = sen["m"] /\ luz'["m"] = luz["m"] /\ Zostalo("m")' = Zostalo("m")
      BY <2>1, <2>2, <2>3, <2>7
    <3>3. Termin' = Termin /\ Termin \in Nat
      BY <1>0, <2>5, <3>2 DEF Termin
    <3>4. ASSUME NEW c \in Potomek, Zywy(c)', "sleep" \notin Zostalo(c)' PROVE Termin' < sen'[c]
      <4>1. CASE c = p
        BY <1>0, <2>4, <3>1, <3>3, <4>1 DEF Wczas
      <4>2. CASE c # p
        <5>1. Zywy(c) /\ "sleep" \notin Zostalo(c) /\ sen'[c] = sen[c]
          BY <2>1, <2>2, <2>3, <3>4, <4>2
        <5> QED BY <2>4, <3>3, <5>1
      <4> QED BY <4>1, <4>2
    <3> QED BY <2>4, <3>2, <3>3, <3>4 DEF Krocej
  <2> QED BY <2>6, <2>7
<1>3. ASSUME NEW c \in Potomek, Rodzi(c) PROVE Krocej'
  <2>1. /\ Powstaje(c) /\ sen' = sen /\ luz' = luz
        /\ c \notin {"m", "sleep"} /\ Potomek \subseteq Proces /\ "m" \notin Potomek
    BY <1>3, Procesow DEF Rodzi, Potomek
  <2>2. /\ Zostalo("m")' = Zostalo("m") \ {c} /\ Zywy("m")
        /\ podpunkt = "c" => "sleep" \in Zostalo(c)'
        /\ \A d \in Potomek \ {c} : Zostalo(d)' = Zostalo(d) /\ (Zywy(d)' <=> Zywy(d))
    BY <2>1 DEF Powstaje
  <2>3. ("sleep" \in Zostalo("m")' <=> "sleep" \in Zostalo("m")) /\ Termin' = Termin
    BY <2>1, <2>2 DEF Termin
  <2> QED BY <1>0, <2>1, <2>2, <2>3 DEF Krocej
<1>4. ASSUME NEW p \in Proces, Wychodzi(p) PROVE Krocej'
  BY <1>0, <1>4, Procesow DEF Wychodzi, Odchodzi, Krocej, Termin
<1>5. ASSUME Mija PROVE Krocej'
  <2> SUFFICES ASSUME podpunkt = "c", Wczas, Zywy("m")' PROVE Krocej'
    BY <1>0 DEF Krocej
  <2>0. reszta' = reszta /\ Uplywa(Gotowe) /\ "m" \in Proces /\ Potomek \subseteq Proces
    BY <1>5, Procesow DEF Mija
  <2>1. /\ \A p \in Proces : Zostalo(p)' = Zostalo(p) /\ (Zywy(p)' <=> Zywy(p))
        /\ Zywy("m")
    BY <2>0 DEF Zostalo, Zywy
  <2>2. \A p \in Proces : sen'[p] = IF sen[p] > 0 THEN sen[p] - 1 ELSE 0
    BY <2>0 DEF Uplywa
  <2>3. /\ "m" \in Gotowe => luz["m"] > 0 /\ luz'["m"] = luz["m"] - 1
        /\ "m" \notin Gotowe => luz'["m"] = luz["m"]
    BY <2>0 DEF Uplywa
  <2>4. "m" \in Gotowe <=> sen["m"] = 0
    BY <2>0, <2>1, NieGotowe DEF Gotowe
  <2>5. /\ "sleep" \in Zostalo("m") => sen["m"] = 0
        /\ Termin <= Sekunda + 2 * Opoznienie
        /\ \A c \in Potomek : Zywy(c) /\ "sleep" \notin Zostalo(c) => Termin < sen[c]
    BY <2>1 DEF Krocej
  <2>6. sen["m"] \in Nat /\ luz["m"] \in 0..Opoznienie
    BY <1>0, <2>0
  <2>7. /\ Termin \in Nat /\ Termin' = Termin - 1
        /\ "sleep" \in Zostalo("m")' => sen'["m"] = 0
    <3>1. CASE "sleep" \in Zostalo("m")
      BY <1>0, <2>0, <2>1, <2>2, <2>3, <2>4, <2>5, <2>6, <3>1 DEF Termin
    <3>2. CASE "sleep" \notin Zostalo("m")
      BY <1>0, <2>0, <2>1, <2>2, <2>3, <2>4, <2>6, <3>2 DEF Termin
    <3> QED BY <3>1, <3>2
  <2>8. ASSUME NEW c \in Potomek, Zywy(c)', "sleep" \notin Zostalo(c)' PROVE Termin' < sen'[c]
    <3>1. Zywy(c) /\ "sleep" \notin Zostalo(c) /\ sen[c] \in Nat
          /\ sen'[c] = IF sen[c] > 0 THEN sen[c] - 1 ELSE 0
      BY <1>0, <2>0, <2>1, <2>2, <2>8
    <3> QED BY <2>5, <2>7, <3>1
  <2>9. Termin' <= Sekunda + 2 * Opoznienie
    BY <1>0, <2>5, <2>7
  <2> QED BY <2>7, <2>8, <2>9 DEF Krocej
<1> QED BY <1>1, <1>2, <1>3, <1>4, <1>5
        DEF Udany, Pisze, Przenosi, Podmienia, Doczekal

-----------------------------------------------------------------------------
(* What the lines say, and who has which.                                  *)

(* A line is written or in a buffer.                                       *)
Wypisana(l) == l \in Zbior(wydruk) \/ \E p \in Proces : l \in Zbior(bufor[p])

(* The parent's identifiers; the lines of children.                        *)
Iden == {l \in Wiersz : l.co = "iden" /\ l.kto = "m"}
Potomny == {l \in Wiersz : l.kto # "m"}

(* Who does not run has nothing in its buffer.                             *)
Oproznione == \A p \in Proces : ~ Zywy(p) => bufor[p] = <<>>

(* A child's line is its identifiers, and says of its parent and of its    *)
(* group what the variant is there to show.                                *)
Wierna(l) == l.kto # "m" =>
  /\ l.co = "iden"
  /\ podpunkt \in {"b", "exec"} \/ (podpunkt = "d" /\ Wczas) => l.ppid = "m"
  /\ podpunkt = "c" /\ Wczas => l.ppid = "init"
  /\ l.pgid = IF podpunkt = "e" THEN l.kto ELSE "m"
Wierne == \A l : Wypisana(l) => Wierna(l)

(* In a buffer are lines of the process and copies of the parent's; of the *)
(* identifiers of the parent there are none before it has printed them,    *)
(* and in (c) and exec none in a child's.                                  *)
Bufory ==
  /\ \A p \in Proces : \A l \in Zbior(bufor[p]) : l.kto = "m" \/ l.kto = p
  /\ "wypisz" \in Zostalo("m") => \A p \in Proces : \A l \in Zbior(bufor[p]) : l \notin Iden
  /\ podpunkt = "exec" /\ "wypisz" \in Zostalo("m") => bufor["m"] = <<>>
  /\ \A c \in Potomek : podpunkt = "exec" /\ "exec" \in Zostalo(c) => bufor[c] = <<>>
  /\ \A c \in Potomek : podpunkt \in {"c", "exec"} => \A l \in Zbior(bufor[c]) : l \notin Iden

(* The order of the lines: the parent's identifiers first in (c) and, on a *)
(* terminal, in (d); last in exec, where the parent prints after its       *)
(* wait().                                                                 *)
Porzadek ==
  /\ podpunkt = "c" /\ Wczas => /\ Kolejno(wydruk, Iden, Potomny)
                                /\ Zywy("m") => \A l \in Potomny : ~ Wypisana(l)
  /\ podpunkt = "d" /\ wyjscie = "terminal" =>
       /\ Kolejno(wydruk, Iden, Potomny)
       /\ "wypisz" \in Zostalo("m") => Zbior(wydruk) \cap Potomny = {}
  /\ podpunkt = "exec" =>
       /\ Kolejno(wydruk, Potomny, Iden)
       /\ "wait" \in Zostalo("m") => \A l \in Iden : ~ Wypisana(l)

(* A line that is printed is the only one that is new.                     *)
LEMMA Dopisane ==
  ASSUME Typy, NEW p \in Proces, NEW l, Dopisuje(p, l)
  PROVE  /\ Zbior(wydruk') \subseteq Zbior(wydruk) \cup {l}
         /\ \A q \in Proces : Zbior(bufor'[q]) \subseteq Zbior(bufor[q]) \cup {l}
         /\ \A q \in Proces : q # p => bufor'[q] = bufor[q]
         /\ \A k : Wypisana(k)' => Wypisana(k) \/ k = l
<1>1. /\ wydruk \in Seq(Wiersz) /\ \A q \in Proces : bufor[q] \in Seq(Wiersz)
      /\ <<l>> \in Seq(Wiersz)
  BY DEF Typy, Dopisuje
<1>2. /\ Zbior(wydruk \o <<l>>) = Zbior(wydruk) \cup {l}
      /\ Zbior(bufor[p] \o <<l>>) = Zbior(bufor[p]) \cup {l}
  <2>1. Zbior(<<l>>) = {l}
    BY ZbiorJednego
  <2>2. Zbior(wydruk \o <<l>>) = Zbior(wydruk) \cup Zbior(<<l>>)
    BY <1>1, ZbiorSumy
  <2>3. Zbior(bufor[p] \o <<l>>) = Zbior(bufor[p]) \cup Zbior(<<l>>)
    BY <1>1, ZbiorSumy
  <2> QED BY <2>1, <2>2, <2>3
<1>3. /\ wydruk' = wydruk \o <<l>> \/ wydruk' = wydruk
      /\ \A q \in Proces : bufor'[q] = bufor[q] \/ (q = p /\ bufor'[q] = bufor[p] \o <<l>>)
  BY DEF Dopisuje
<1>4. Zbior(wydruk') \subseteq Zbior(wydruk) \cup {l}
  BY <1>2, <1>3
<1>5. \A q \in Proces : Zbior(bufor'[q]) \subseteq Zbior(bufor[q]) \cup {l}
  BY <1>2, <1>3
<1>6. \A k : Wypisana(k)' => Wypisana(k) \/ k = l
  BY <1>4, <1>5 DEF Wypisana
<1> QED BY <1>3, <1>4, <1>5, <1>6

(* A step that prints nothing makes no line new: fork() copies, execlp()   *)
(* loses and exit() moves lines.                                           *)
LEMMA Niedopisane ==
  ASSUME Typy, \/ \E c \in Potomek : Kopiuje(c)
               \/ \E p \in Proces : Gubi(p) \/ Oddaje(p)
               \/ wydruk' = wydruk /\ bufor' = bufor
  PROVE  \A k : Wypisana(k)' => Wypisana(k)
<1>1. /\ wydruk \in Seq(Wiersz) /\ \A q \in Proces : bufor[q] \in Seq(Wiersz)
      /\ "m" \in Proces
  BY Procesow DEF Typy
<1>2. ASSUME NEW c \in Potomek, Kopiuje(c) PROVE \A k : Wypisana(k)' => Wypisana(k)
  <2>1. /\ wydruk' = wydruk
        /\ \A q \in Proces : bufor'[q] = bufor["m"] \/ bufor'[q] = bufor[q]
    BY <1>2 DEF Kopiuje
  <2> QED BY <1>1, <2>1 DEF Wypisana
<1>3. ASSUME NEW p \in Proces, Gubi(p) PROVE \A k : Wypisana(k)' => Wypisana(k)
  <2>1. wydruk' = wydruk /\ \A q \in Proces : bufor'[q] = <<>> \/ bufor'[q] = bufor[q]
    BY <1>3 DEF Gubi
  <2> QED BY <2>1, ZbiorJednego DEF Wypisana
<1>4. ASSUME NEW p \in Proces, Oddaje(p) PROVE \A k : Wypisana(k)' => Wypisana(k)
  <2>1. /\ wydruk' = wydruk \o bufor[p]
        /\ \A q \in Proces : bufor'[q] = <<>> \/ bufor'[q] = bufor[q]
    BY <1>4 DEF Oddaje
  <2>2. Zbior(wydruk') = Zbior(wydruk) \cup Zbior(bufor[p])
    BY <1>1, <2>1, ZbiorSumy
  <2> QED BY <2>1, <2>2, ZbiorJednego DEF Wypisana
<1>5. ASSUME wydruk' = wydruk, bufor' = bufor PROVE \A k : Wypisana(k)' => Wypisana(k)
  BY <1>5 DEF Wypisana
<1> QED BY <1>2, <1>3, <1>4, <1>5

(* A process that ends leaves an empty buffer behind, and only one that    *)
(* runs prints.                                                            *)
LEMMA OproznioneKrok == ASSUME Typy, Oproznione, Udany PROVE Oproznione'
<1>1. ASSUME NEW p \in Proces, NEW co, Idzie(p, co),
             \A q \in Proces : bufor'[q] = bufor[q] \/ q = p
      PROVE  Oproznione'
  BY <1>1 DEF Idzie, Oproznione
<1>2. ASSUME NEW c \in Potomek, Rodzi(c) PROVE Oproznione'
  BY <1>2 DEF Rodzi, Powstaje, Kopiuje, Oproznione
<1>3. ASSUME NEW p \in Proces, Wychodzi(p) PROVE Oproznione'
  BY <1>3 DEF Wychodzi, Odchodzi, Oddaje, Oproznione
<1>4. ASSUME reszta' = reszta, bufor' = bufor PROVE Oproznione'
  BY <1>4 DEF Oproznione, Zywy
<1> QED BY <1>1, <1>2, <1>3, <1>4
        DEF Udany, Pisze, Dopisuje, Przenosi, Podmienia, Gubi, Zasypia, Doczekal, Mija

(* Until the parent has ended, no child of variant (c) gets to its line.   *)
LEMMA Sierota ==
  ASSUME Typy, Krocej, podpunkt = "c", Wczas, NEW p \in Potomek, Idzie(p, "wypisz")
  PROVE  ~ Zywy("m")
<1> SUFFICES ASSUME Zywy("m") PROVE FALSE
  OBVIOUS
<1>1. p # "m" /\ p \in Proces /\ "m" \in Proces
  BY Procesow
<1>2. Zywy(p) /\ sen[p] = 0 /\ "sleep" \notin Zostalo(p)
  BY <1>1 DEF Idzie, Gdzie, GdzieDziecko
<1>3. Termin < 0
  BY <1>2 DEF Krocej
<1>4. /\ sen["m"] \in Nat /\ luz["m"] \in 0..Opoznienie
      /\ Sekunda \in Nat /\ Opoznienie \in Nat
  BY <1>1, CzasAssumption DEF Typy, ProcesyOK, CzasOK
<1> QED BY <1>3, <1>4 DEF Termin

(* A child that prints has the parent that the variant promises: it is at  *)
(* its wait(), or asleep, or gone.                                         *)
LEMMA WierneKrok ==
  ASSUME Typy, Zycie, Wierne, Udany
  PROVE  Wierne'
<1>0. podpunkt' = podpunkt
  BY DEF Udany
<1>1. ASSUME \A k : Wypisana(k)' => Wypisana(k) PROVE Wierne'
  BY <1>0, <1>1 DEF Wierne, Wierna
<1>2. ASSUME NEW p \in Proces, NEW co, NEW tresc, Pisze(p, co, tresc) PROVE Wierne'
  <2> DEFINE l == Linia(tresc, p)
  <2>1. /\ Idzie(p, co) /\ Dopisuje(p, l)
        /\ co \in {"podaj", "wypisz"} /\ (co = "podaj" <=> tresc = "pytanie")
    BY <1>2 DEF Pisze
  <2>2. \A k : Wypisana(k)' => Wypisana(k) \/ k = l
    BY <2>1, Dopisane
  <2>3. l.co = tresc /\ l.kto = p /\ l.ppid = PPID(p) /\ l.pgid = pgid[p]
    BY DEF Linia
  <2> HIDE DEF l
  <2>4. ASSUME p # "m" PROVE Wierna(l)
    <3>1. p \in Potomek /\ Zywy(p) /\ GdzieDziecko(podpunkt, co, Zostalo(p))
      BY <2>1, <2>4, Procesow DEF Idzie, Gdzie
    <3>2. co = "wypisz" /\ "setpgid" \notin Zostalo(p) /\ tresc # "pytanie"
      BY <2>1, <3>1 DEF GdzieDziecko, WywolaniaDziecka
    <3>3. podpunkt \in {"b", "exec"} \/ (podpunkt = "d" /\ Wczas) => Zywy("m")
      <4>1. Zostalo("m") # {} => Zywy("m")
        BY ZywyMa, Procesow
      <4> QED BY <3>1, <4>1 DEF Zycie, Trwa
    <3>4. podpunkt = "c" /\ Wczas => ~ Zywy("m")
      BY <2>1, <3>1, <3>2, Sierota DEF Zycie
    <3>5. pgid[p] = IF podpunkt = "e" THEN p ELSE "m"
      BY <2>4, <3>1, <3>2 DEF Zycie, Grupy
    <3>6. tresc = "iden"
      BY <1>2, <3>2 DEF Pisze, Dopisuje, Linia, Wiersz
    <3> QED BY <2>3, <2>4, <3>3, <3>4, <3>5, <3>6 DEF Wierna, PPID
  <2>5. Wierna(l)
    BY <2>3, <2>4 DEF Wierna
  <2> QED BY <1>0, <2>2, <2>5 DEF Wierne, Wierna
<1> QED BY <1>1, <1>2, Niedopisane
        DEF Udany, Rodzi, Przenosi, Podmienia, Zasypia, Doczekal, Wychodzi, Mija

(* Only the parent prints lines of the parent, and a fork() copies what    *)
(* the parent's buffer may have.                                           *)
LEMMA BuforyKrok ==
  ASSUME Typy, Bufory, Udany
  PROVE  Bufory'
<1>0. podpunkt' = podpunkt /\ "m" \in Proces /\ Potomek \subseteq Proces /\ "m" \notin Potomek
  BY Procesow DEF Udany
(* Buffers only become empty, and nobody has more to do.                   *)
<1>1. ASSUME \A q \in Proces : bufor'[q] = bufor[q] \/ bufor'[q] = <<>>,
             \A q \in Proces : Zostalo(q)' \subseteq Zostalo(q)
      PROVE  Bufory'
  BY <1>0, <1>1, ZbiorJednego DEF Bufory
<1>2. ASSUME NEW p \in Proces, NEW co, Idzie(p, co)
      PROVE  \A q \in Proces : Zostalo(q)' \subseteq Zostalo(q)
  BY <1>2 DEF Idzie
<1>3. ASSUME NEW p \in Proces, NEW co, NEW tresc, Pisze(p, co, tresc) PROVE Bufory'
  <2> DEFINE l == Linia(tresc, p)
  <2>1. /\ Idzie(p, co) /\ Dopisuje(p, l) /\ l \in Wiersz
        /\ co \in {"podaj", "wypisz"} /\ (co = "podaj" <=> tresc = "pytanie")
    BY <1>3 DEF Pisze, Dopisuje
  <2>2. /\ \A q \in Proces : Zbior(bufor'[q]) \subseteq Zbior(bufor[q]) \cup {l}
        /\ \A q \in Proces : q # p => bufor'[q] = bufor[q]
    BY <2>1, Dopisane
  <2>3. l.co = tresc /\ l.kto = p
    BY DEF Linia
  <2> HIDE DEF l
  <2>4. \A q \in Proces : Zostalo(q)' = IF q = p THEN Zostalo(p) \ {co} ELSE Zostalo(q)
    BY <2>1 DEF Idzie
  <2>5. \A q \in Proces : \A k \in Zbior(bufor'[q]) :
          k \in Zbior(bufor[q]) \/ (q = p /\ k = l)
    BY <2>2
  <2>6. CASE p = "m"
    <3>1. /\ co = "podaj" => podpunkt # "exec" /\ l \notin Iden
          /\ "wypisz" \in Zostalo("m")' => co = "podaj"
          /\ \A c \in Potomek : bufor'[c] = bufor[c] /\ Zostalo(c)' = Zostalo(c)
      BY <1>0, <2>1, <2>2, <2>3, <2>4, <2>6 DEF Idzie, Gdzie, GdzieRodzic, Iden
    <3> QED BY <1>0, <2>3, <2>4, <2>5, <2>6, <3>1 DEF Bufory
  <2>7. CASE p # "m"
    <3>1. "exec" \notin Zostalo(p) /\ l \notin Iden
      BY <2>1, <2>3, <2>7 DEF Idzie, Gdzie, GdzieDziecko, WywolaniaDziecka, Iden
    <3> QED BY <1>0, <2>2, <2>3, <2>4, <2>5, <2>7, <3>1 DEF Bufory
  <2> QED BY <2>6, <2>7
<1>4. ASSUME NEW c \in Potomek, Rodzi(c) PROVE Bufory'
  <2>1. /\ GdzieRodzic(podpunkt, c, Zostalo("m")) /\ Zostalo("m")' = Zostalo("m") \ {c}
        /\ \A q \in Proces \ {"m", c} : Zostalo(q)' = Zostalo(q)
        /\ \A q \in Proces : bufor'[q] = IF q = c THEN bufor["m"] ELSE bufor[q]
    BY <1>4 DEF Rodzi, Powstaje, Kopiuje
  <2>2. podpunkt \in {"c", "exec"} => "wypisz" \in Zostalo("m")
    BY <2>1 DEF GdzieRodzic
  <2> QED BY <1>0, <2>1, <2>2, ZbiorJednego DEF Bufory
<1>5. ASSUME NEW p \in Proces, Wychodzi(p) PROVE Bufory'
  <2>1. /\ \A q \in Proces : bufor'[q] = bufor[q] \/ bufor'[q] = <<>>
        /\ \A q \in Proces : Zostalo(q)' \subseteq Zostalo(q)
    BY <1>5 DEF Wychodzi, Odchodzi, Oddaje
  <2> QED BY <1>1, <2>1
<1>6. ASSUME NEW p \in Proces, Podmienia(p) PROVE Bufory'
  <2>1. \A q \in Proces : bufor'[q] = bufor[q] \/ bufor'[q] = <<>>
    BY <1>6 DEF Podmienia, Gubi
  <2> QED BY <1>1, <1>2, <1>6, <2>1 DEF Podmienia
<1>7. ASSUME reszta' = reszta, bufor' = bufor PROVE Bufory'
  BY <1>1, <1>7 DEF Zostalo
<1> QED BY <1>1, <1>2, <1>3, <1>4, <1>5, <1>6, <1>7
        DEF Udany, Przenosi, Zasypia, Doczekal, Mija

(* Lines of a buffer put after what is written keep the order of A and B,  *)
(* when they are not of A or when nothing of B is there at all.            *)
LEMMA Dalszy ==
  ASSUME NEW t \in Seq(Wiersz), Typy, NEW A, NEW B, Kolejno(wydruk, A, B),
         \/ Zbior(t) \cap A = {}
         \/ Zbior(wydruk) \cap B = {} /\ Zbior(t) \cap B = {}
  PROVE  Kolejno(wydruk \o t, A, B)
<1>1. wydruk \in Seq(Wiersz)
  BY DEF Typy
<1>2. Kolejno(t, A, B)
  BY KolejnoPusto
<1> QED BY <1>1, <1>2, KolejnoSumy

(* One line put after what is written keeps the order, when it is not of A *)
(* or when nothing of B is written.                                        *)
LEMMA Pierwszy ==
  ASSUME NEW l, Typy, l \in Wiersz, NEW A, NEW B, Kolejno(wydruk, A, B),
         A \cap B = {}, l \notin A \/ Zbior(wydruk) \cap B = {}
  PROVE  Kolejno(wydruk \o <<l>>, A, B)
<1>1. wydruk \in Seq(Wiersz) /\ <<l>> \in Seq(Wiersz) /\ Zbior(<<l>>) = {l}
  BY ZbiorJednego DEF Typy
<1>2. Kolejno(<<l>>, A, B)
  BY <1>1, KolejnoPusto
<1>3. Zbior(<<l>>) \cap A = {} \/ Zbior(wydruk) \cap B = {}
  BY <1>1
<1> QED BY <1>1, <1>2, <1>3, KolejnoSumy

(* Each line is put where it may be: of the parent and of the children,    *)
(* one side has not printed yet, or has nothing left to print.             *)
LEMMA PorzadekKrok ==
  ASSUME Typy, Zycie, Bufory, Porzadek, Udany
  PROVE  Porzadek'
<1>0. /\ podpunkt' = podpunkt /\ wyjscie' = wyjscie
      /\ "m" \in Proces /\ Potomek \subseteq Proces /\ "m" \notin Potomek
  BY Procesow DEF Udany
<1>r. Iden \cap Potomny = {} /\ Iden' = Iden /\ Potomny' = Potomny
  BY DEF Iden, Potomny
<1>t. wydruk \in Seq(Wiersz) /\ \A q \in Proces : bufor[q] \in Seq(Wiersz)
  BY DEF Typy
(* Nothing is written, and nothing is printed that was not.                *)
<1>1. ASSUME wydruk' = wydruk, \A k : Wypisana(k)' => Wypisana(k),
             Zostalo("m")' \subseteq Zostalo("m"), Zywy("m")' => Zywy("m")
      PROVE  Porzadek'
  BY <1>0, <1>r, <1>1 DEF Porzadek
<1>2. ASSUME NEW p \in Proces, NEW co, Idzie(p, co)
      PROVE  Zostalo("m")' \subseteq Zostalo("m") /\ (Zywy("m")' => Zywy("m"))
  BY <1>0, <1>2 DEF Idzie
<1>3. ASSUME NEW p \in Proces, NEW co, NEW tresc, Pisze(p, co, tresc) PROVE Porzadek'
  <2> DEFINE l == Linia(tresc, p)
  <2>1. /\ Idzie(p, co) /\ Dopisuje(p, l) /\ l \in Wiersz
        /\ co \in {"podaj", "wypisz"} /\ (co = "podaj" <=> tresc = "pytanie")
    BY <1>3 DEF Pisze, Dopisuje
  <2>2. /\ \A k : Wypisana(k)' => Wypisana(k) \/ k = l
        /\ Zbior(wydruk') \subseteq Zbior(wydruk) \cup {l}
        /\ wydruk' = wydruk \/ wydruk' = wydruk \o <<l>>
    BY <2>1, Dopisane DEF Dopisuje
  <2>3. l.co = tresc /\ l.kto = p
    BY DEF Linia
  <2> HIDE DEF l
  <2>4. /\ Zostalo("m")' \subseteq Zostalo("m") /\ (Zywy("m")' => Zywy("m"))
        /\ p = "m" => co \notin Zostalo("m")'
    BY <1>2, <2>1 DEF Idzie
  <2>5. \A k \in Zbior(wydruk) : Wypisana(k)
    BY DEF Wypisana
  <2>6. CASE p = "m"
    <3>1. /\ Zywy("m") /\ GdzieRodzic(podpunkt, co, Zostalo("m"))
          /\ l \notin Potomny /\ (co = "podaj" => l \notin Iden)
      BY <2>1, <2>3, <2>6 DEF Idzie, Gdzie, Iden, Potomny
    <3>2. podpunkt = "c" /\ Wczas => /\ Kolejno(wydruk', Iden, Potomny)
                                     /\ \A k \in Potomny : ~ Wypisana(k)'
      <4> SUFFICES ASSUME podpunkt = "c", Wczas
                   PROVE  /\ Kolejno(wydruk', Iden, Potomny)
                          /\ \A k \in Potomny : ~ Wypisana(k)'
        OBVIOUS
      <4>1. Kolejno(wydruk, Iden, Potomny) /\ \A k \in Potomny : ~ Wypisana(k)
        BY <3>1 DEF Porzadek
      <4>2. Zbior(wydruk) \cap Potomny = {}
        BY <2>5, <4>1
      <4>3. Kolejno(wydruk \o <<l>>, Iden, Potomny)
        BY <1>r, <2>1, <4>1, <4>2, Pierwszy
      <4> QED BY <2>2, <3>1, <4>1, <4>3
    <3>3. podpunkt = "d" /\ wyjscie = "terminal" =>
            /\ Kolejno(wydruk', Iden, Potomny)
            /\ "wypisz" \in Zostalo("m")' => Zbior(wydruk') \cap Potomny = {}
      <4> SUFFICES ASSUME podpunkt = "d", wyjscie = "terminal"
                   PROVE  /\ Kolejno(wydruk', Iden, Potomny)
                          /\ "wypisz" \in Zostalo("m")' => Zbior(wydruk') \cap Potomny = {}
        OBVIOUS
      <4>1. /\ Kolejno(wydruk, Iden, Potomny)
            /\ "wypisz" \in Zostalo("m") => Zbior(wydruk) \cap Potomny = {}
        BY DEF Porzadek
      <4>2. l \notin Iden \/ Zbior(wydruk) \cap Potomny = {}
        BY <2>1, <3>1, <4>1 DEF GdzieRodzic
      <4>3. Kolejno(wydruk \o <<l>>, Iden, Potomny)
        BY <1>r, <2>1, <4>1, <4>2, Pierwszy
      <4> QED BY <2>2, <2>4, <3>1, <4>1, <4>3
    <3>4. podpunkt = "exec" =>
            /\ Kolejno(wydruk', Potomny, Iden)
            /\ "wait" \in Zostalo("m")' => \A k \in Iden : ~ Wypisana(k)'
      <4> SUFFICES ASSUME podpunkt = "exec"
                   PROVE  /\ Kolejno(wydruk', Potomny, Iden)
                          /\ "wait" \in Zostalo("m")' => \A k \in Iden : ~ Wypisana(k)'
        OBVIOUS
      <4>1. Kolejno(wydruk, Potomny, Iden)
        BY DEF Porzadek
      <4>2. "wait" \notin Zostalo("m")
        BY <2>1, <3>1 DEF GdzieRodzic
      <4>3. Kolejno(wydruk \o <<l>>, Potomny, Iden)
        BY <1>r, <2>1, <3>1, <4>1, Pierwszy
      <4> QED BY <2>2, <2>4, <4>1, <4>2, <4>3
    <3> QED BY <1>0, <1>r, <3>2, <3>3, <3>4 DEF Porzadek
  <2>7. CASE p # "m"
    <3>1. /\ p \in Potomek /\ Zywy(p) /\ co = "wypisz" /\ l \notin Iden
          /\ Idzie(p, "wypisz")
      BY <2>1, <2>3, <2>7, Procesow
      DEF Idzie, Gdzie, GdzieDziecko, WywolaniaDziecka, Iden
    <3>2. podpunkt = "c" /\ Wczas => Kolejno(wydruk', Iden, Potomny) /\ ~ Zywy("m")'
      <4> SUFFICES ASSUME podpunkt = "c", Wczas
                   PROVE  Kolejno(wydruk', Iden, Potomny) /\ ~ Zywy("m")'
        OBVIOUS
      <4>1. Kolejno(wydruk, Iden, Potomny)
        BY DEF Porzadek
      <4>2. ~ Zywy("m")
        BY <3>1, Sierota DEF Zycie
      <4>3. Kolejno(wydruk \o <<l>>, Iden, Potomny)
        BY <1>r, <2>1, <3>1, <4>1, Pierwszy
      <4> QED BY <2>2, <2>4, <4>1, <4>2, <4>3
    <3>3. podpunkt = "d" /\ wyjscie = "terminal" =>
            Kolejno(wydruk', Iden, Potomny) /\ "wypisz" \notin Zostalo("m")'
      <4> SUFFICES ASSUME podpunkt = "d", wyjscie = "terminal"
                   PROVE  Kolejno(wydruk', Iden, Potomny) /\ "wypisz" \notin Zostalo("m")'
        OBVIOUS
      <4>1. Kolejno(wydruk, Iden, Potomny)
        BY DEF Porzadek
      <4>2. Kolejno(wydruk \o <<l>>, Iden, Potomny)
        BY <1>r, <2>1, <3>1, <4>1, Pierwszy
      <4>3. p \notin Zostalo("m")
        BY <3>1 DEF Zycie, Nieurodzeni
      <4>4. CASE Zywy("m")
        <5> DEFINE h == Head(reszta["m"])
        <5>1. GdzieRodzic("d", h, Zostalo("m"))
          BY <1>0, <4>4, NaMiejscu DEF Gdzie
        <5> HIDE DEF h
        <5>2. h \in Zostalo("m") /\ Zostalo("m") \subseteq WywolaniaRodzica
          BY <5>1 DEF GdzieRodzic
        <5>3. "wypisz" \notin Zostalo("m")
          BY <3>1, <4>3, <5>1, <5>2 DEF GdzieRodzic, WywolaniaRodzica, Potomek
        <5> QED BY <2>2, <2>4, <4>1, <4>2, <5>3
      <4>5. CASE ~ Zywy("m")
        <5>1. Zostalo("m") = {}
          BY <1>0, <4>5, NaMiejscu
        <5> QED BY <2>2, <2>4, <4>1, <4>2, <5>1
      <4> QED BY <4>4, <4>5
    <3>4. podpunkt = "exec" =>
            /\ Kolejno(wydruk', Potomny, Iden)
            /\ \A k \in Iden : ~ Wypisana(k)'
      <4> SUFFICES ASSUME podpunkt = "exec"
                   PROVE  Kolejno(wydruk', Potomny, Iden) /\ \A k \in Iden : ~ Wypisana(k)'
        OBVIOUS
      <4>1. Kolejno(wydruk, Potomny, Iden) /\ \A k \in Iden : ~ Wypisana(k)
        BY <3>1 DEF Porzadek, Zycie, Trwa
      <4>2. Zbior(wydruk) \cap Iden = {}
        BY <2>5, <4>1
      <4>3. Kolejno(wydruk \o <<l>>, Potomny, Iden)
        BY <1>r, <2>1, <4>1, <4>2, Pierwszy
      <4> QED BY <2>2, <3>1, <4>1, <4>3
    <3> QED BY <1>0, <1>r, <3>2, <3>3, <3>4 DEF Porzadek
  <2> QED BY <2>6, <2>7
<1>4. ASSUME NEW c \in Potomek, Rodzi(c) PROVE Porzadek'
  <2>1. /\ Kopiuje(c) /\ wydruk' = wydruk /\ Zywy("m")
        /\ Zostalo("m")' \subseteq Zostalo("m")
    BY <1>4 DEF Rodzi, Powstaje, Kopiuje
  <2> QED BY <1>1, <2>1, Niedopisane
<1>5. ASSUME NEW p \in Proces, Wychodzi(p) PROVE Porzadek'
  <2>1. /\ Gdzie(p, "exit") /\ Zywy(p) /\ Oddaje(p) /\ wydruk' = wydruk \o bufor[p]
        /\ Zostalo("m")' \subseteq Zostalo("m") /\ (Zywy("m")' => Zywy("m"))
        /\ p = "m" => ~ Zywy("m")' /\ Zostalo("m")' = {}
    BY <1>0, <1>5 DEF Wychodzi, Odchodzi, Oddaje
  <2>2. \A k : Wypisana(k)' => Wypisana(k)
    BY <2>1, Niedopisane
  <2>3. bufor[p] \in Seq(Wiersz)
    BY <1>t
  <2>4. \A k \in Zbior(wydruk) : Wypisana(k)
    BY DEF Wypisana
  <2>5. \A k \in Zbior(bufor[p]) : Wypisana(k)
    BY DEF Wypisana
  <2>6. p = "m" => Zbior(bufor[p]) \cap Potomny = {}
    BY <1>0 DEF Bufory, Potomny
  <2>7. p # "m" /\ podpunkt \in {"c", "exec"} => Zbior(bufor[p]) \cap Iden = {}
    BY Procesow DEF Bufory
  <2>8. podpunkt = "c" /\ Wczas => /\ Kolejno(wydruk', Iden, Potomny)
                                   /\ Zywy("m")' => \A k \in Potomny : ~ Wypisana(k)'
    <3> SUFFICES ASSUME podpunkt = "c", Wczas
                 PROVE  /\ Kolejno(wydruk', Iden, Potomny)
                        /\ Zywy("m")' => \A k \in Potomny : ~ Wypisana(k)'
      OBVIOUS
    <3>1. /\ Kolejno(wydruk, Iden, Potomny)
          /\ Zywy("m") => \A k \in Potomny : ~ Wypisana(k)
      BY DEF Porzadek
    <3>2. p = "m" => Zbior(wydruk) \cap Potomny = {}
      BY <2>1, <2>4, <3>1
    <3>3. Kolejno(wydruk \o bufor[p], Iden, Potomny)
      BY <2>3, <2>6, <2>7, <3>1, <3>2, Dalszy
    <3> QED BY <2>1, <2>2, <3>1, <3>3
  <2>9. podpunkt = "d" /\ wyjscie = "terminal" =>
          /\ Kolejno(wydruk', Iden, Potomny)
          /\ "wypisz" \in Zostalo("m")' => Zbior(wydruk') \cap Potomny = {}
    <3> SUFFICES ASSUME podpunkt = "d", wyjscie = "terminal"
                 PROVE  /\ Kolejno(wydruk', Iden, Potomny)
                        /\ "wypisz" \in Zostalo("m")' => Zbior(wydruk') \cap Potomny = {}
      OBVIOUS
    <3>1. bufor[p] = <<>>
      BY DEF Typy, ProcesyOK
    <3>2. wydruk' = wydruk
      BY <1>t, <2>1, <3>1, ConcatEmptySeq
    <3> QED BY <2>1, <3>2 DEF Porzadek
  <2>10. podpunkt = "exec" =>
          /\ Kolejno(wydruk', Potomny, Iden)
          /\ "wait" \in Zostalo("m")' => \A k \in Iden : ~ Wypisana(k)'
    <3> SUFFICES ASSUME podpunkt = "exec"
                 PROVE  /\ Kolejno(wydruk', Potomny, Iden)
                        /\ "wait" \in Zostalo("m")' => \A k \in Iden : ~ Wypisana(k)'
      OBVIOUS
    <3>1. /\ Kolejno(wydruk, Potomny, Iden)
          /\ "wait" \in Zostalo("m") => \A k \in Iden : ~ Wypisana(k)
      BY DEF Porzadek
    <3>2. p # "m" => Zbior(wydruk) \cap Iden = {}
      BY <2>1, <2>4, <3>1, Procesow DEF Zycie, Trwa
    <3>3. Kolejno(wydruk \o bufor[p], Potomny, Iden)
      BY <2>3, <2>6, <2>7, <3>1, <3>2, Dalszy
    <3> QED BY <2>1, <2>2, <3>1, <3>3
  <2> QED BY <1>0, <1>r, <2>8, <2>9, <2>10 DEF Porzadek
<1>6. ASSUME NEW p \in Proces, Podmienia(p) PROVE Porzadek'
  <2>1. Gubi(p) /\ wydruk' = wydruk
    BY <1>6 DEF Podmienia, Gubi
  <2> QED BY <1>1, <1>2, <1>6, <2>1, Niedopisane DEF Podmienia
<1>7. ASSUME NEW p \in Proces, NEW co, Idzie(p, co), wydruk' = wydruk, bufor' = bufor
      PROVE  Porzadek'
  BY <1>1, <1>2, <1>7, Niedopisane
<1>8. ASSUME reszta' = reszta, wydruk' = wydruk, bufor' = bufor PROVE Porzadek'
  BY <1>1, <1>8, Niedopisane DEF Zostalo, Zywy
<1> QED BY <1>3, <1>4, <1>5, <1>6, <1>7, <1>8
        DEF Udany, Przenosi, Zasypia, Doczekal, Mija

-----------------------------------------------------------------------------
(* How often a line is written, or will be.  A line in a buffer is counted *)
(* with those that are written: exit() moves lines and changes no count,   *)
(* fork() adds the copies.                                                 *)

(* The lines of a kind, written or buffered.                               *)
Suma(co, p) == Ile(wydruk, co, p) + Ile(bufor["m"], co, p) + Ile(bufor["p1"], co, p)
               + Ile(bufor["p2"], co, p) + Ile(bufor["p3"], co, p)

(* The children that have been forked.                                     *)
Forkow == IF podpunkt = "a" THEN 0
          ELSE Jeden("p1" \notin Zostalo("m")) + Jeden("p2" \notin Zostalo("m"))
               + Jeden("p3" \notin Zostalo("m"))

(* A child's line is there once it has been printed; the parent's too, and *)
(* in a file once more for every fork() since.                             *)
Ilosci ==
  /\ \A c \in Potomek : Suma("iden", c)
       = Jeden(podpunkt # "a" /\ c \notin Zostalo("m") /\ "wypisz" \notin Zostalo(c))
  /\ podpunkt # "exec" => Suma("pytanie", "m")
       = IF "podaj" \in Zostalo("m") THEN 0
         ELSE 1 + (IF wyjscie = "plik" THEN Forkow ELSE 0)
  /\ podpunkt # "e" => Suma("iden", "m")
       = IF "wypisz" \in Zostalo("m") THEN 0
         ELSE 1 + (IF wyjscie = "plik" /\ podpunkt = "d" THEN Forkow ELSE 0)

(* What the parent has printed to a file waits in its buffer, for fork()   *)
(* to copy.                                                                *)
WBuforze == wyjscie = "plik" /\ Zywy("m") =>
  /\ podpunkt # "exec" => Ile(bufor["m"], "pytanie", "m") = Jeden("podaj" \notin Zostalo("m"))
  /\ podpunkt # "e" => Ile(bufor["m"], "iden", "m") = Jeden("wypisz" \notin Zostalo("m"))

(* All counts are natural numbers.                                         *)
LEMMA IleTyp ==
  ASSUME Typy, NEW co, NEW q
  PROVE  Ile(wydruk, co, q) \in Nat /\ \A p \in Proces : Ile(bufor[p], co, q) \in Nat
<1>1. wydruk \in Seq(Wiersz) /\ \A p \in Proces : bufor[p] \in Seq(Wiersz)
  BY DEF Typy
<1> QED BY <1>1, IleSkonczone

(* A line that is printed adds one to the lines of its kind.               *)
LEMMA SumaDopisana ==
  ASSUME Typy, NEW p \in Proces, NEW l, Dopisuje(p, l), NEW co, NEW q
  PROVE  /\ Suma(co, q)' = Suma(co, q) + Jeden(l.co = co /\ l.kto = q)
         /\ p # "m" => Ile(bufor["m"], co, q)' = Ile(bufor["m"], co, q)
         /\ p = "m" /\ wyjscie # "terminal" =>
              Ile(bufor["m"], co, q)' = Ile(bufor["m"], co, q) + Jeden(l.co = co /\ l.kto = q)
<1> DEFINE j == Jeden(l.co = co /\ l.kto = q)
           t == <<l>>
           w == Ile(wydruk, co, q)
           b(r) == Ile(bufor[r], co, q)
<1>1. /\ wydruk \in Seq(Wiersz) /\ \A r \in Proces : bufor[r] \in Seq(Wiersz)
      /\ t \in Seq(Wiersz)
  BY DEF Typy, Dopisuje
<1>2. Ile(t, co, q) = j /\ j \in Nat
  BY IleJednego DEF Jeden
<1> HIDE DEF t, j
<1>3. Ile(wydruk \o t, co, q) = w + j
  BY <1>1, <1>2, IleSumy
<1>4. Ile(bufor[p] \o t, co, q) = b(p) + j
  BY <1>1, <1>2, IleSumy
<1>5. w \in Nat /\ \A r \in Proces : b(r) \in Nat
  BY IleTyp
<1>6. /\ wyjscie = "terminal" => Ile(wydruk', co, q) = w + j
      /\ wyjscie # "terminal" => Ile(wydruk', co, q) = w
      /\ wyjscie = "terminal" => \A r \in Proces : Ile(bufor'[r], co, q) = b(r)
      /\ wyjscie # "terminal" =>
           \A r \in Proces : Ile(bufor'[r], co, q) = IF r = p THEN b(r) + j ELSE b(r)
  BY <1>3, <1>4 DEF Dopisuje, t
<1>7. /\ Ile(wydruk, co, q)' = Ile(wydruk', co, q)
      /\ \A r \in {"m", "p1", "p2", "p3"} : Ile(bufor[r], co, q)' = Ile(bufor'[r], co, q)
  BY DEF Ile, Miejsca
<1>8. Proces = {"m", "p1", "p2", "p3"}
  BY Procesow
<1>9. Suma(co, q) = w + b("m") + b("p1") + b("p2") + b("p3")
  BY DEF Suma
<1>10. Suma(co, q)' = Ile(wydruk', co, q) + Ile(bufor'["m"], co, q) + Ile(bufor'["p1"], co, q)
                      + Ile(bufor'["p2"], co, q) + Ile(bufor'["p3"], co, q)
  BY DEF Suma, Ile, Miejsca
<1>12. Ile(bufor["m"], co, q)' = Ile(bufor'["m"], co, q)
  BY <1>7
<1> HIDE DEF w, b, j
<1>11. Suma(co, q)' = w + b("m") + b("p1") + b("p2") + b("p3") + j
  BY <1>2, <1>5, <1>6, <1>8, <1>10
<1>13. Suma(co, q)' = Suma(co, q) + j
  BY <1>9, <1>11
<1>14. /\ p # "m" => Ile(bufor'["m"], co, q) = b("m")
       /\ p = "m" /\ wyjscie # "terminal" => Ile(bufor'["m"], co, q) = b("m") + j
  BY <1>6, <1>8
<1> QED BY <1>12, <1>13, <1>14 DEF b, j

(* A fork() adds as many as the parent has in its buffer.                  *)
LEMMA SumaKopii ==
  ASSUME Typy, NEW c \in Potomek, Kopiuje(c), bufor[c] = <<>>, NEW co, NEW q
  PROVE  /\ Suma(co, q)' = Suma(co, q) + Ile(bufor["m"], co, q)
         /\ Ile(bufor["m"], co, q)' = Ile(bufor["m"], co, q)
<1> DEFINE w == Ile(wydruk, co, q)
           b(r) == Ile(bufor[r], co, q)
<1>1. w \in Nat /\ (\A r \in Proces : b(r) \in Nat) /\ b(c) = 0
  BY IleTyp, IleJednego
<1>2. /\ Ile(wydruk', co, q) = w
      /\ \A r \in Proces : Ile(bufor'[r], co, q) = IF r = c THEN b("m") ELSE b(r)
  BY DEF Kopiuje
<1>3. Suma(co, q) = w + b("m") + b("p1") + b("p2") + b("p3")
  BY DEF Suma
<1>4. Suma(co, q)' = Ile(wydruk', co, q) + Ile(bufor'["m"], co, q) + Ile(bufor'["p1"], co, q)
                      + Ile(bufor'["p2"], co, q) + Ile(bufor'["p3"], co, q)
  BY DEF Suma, Ile, Miejsca
<1>5. Ile(bufor["m"], co, q)' = Ile(bufor'["m"], co, q)
  BY DEF Ile, Miejsca
<1>6. /\ Proces = {"m", "p1", "p2", "p3"} /\ Potomek = {"p1", "p2", "p3"}
  BY Procesow
<1> HIDE DEF w, b
<1>7. Suma(co, q)' = Suma(co, q) + b("m") /\ Ile(bufor'["m"], co, q) = b("m")
  BY <1>1, <1>2, <1>3, <1>4, <1>6
<1> QED BY <1>5, <1>7 DEF b

(* An exit adds nothing: it moves the lines.                               *)
LEMMA SumaOddana ==
  ASSUME Typy, NEW p \in Proces, Oddaje(p), NEW co, NEW q
  PROVE  Suma(co, q)' = Suma(co, q)
<1> DEFINE w == Ile(wydruk, co, q)
           b(r) == Ile(bufor[r], co, q)
<1>1. w \in Nat /\ \A r \in Proces : b(r) \in Nat
  BY IleTyp
<1>2. wydruk \in Seq(Wiersz) /\ bufor[p] \in Seq(Wiersz)
  BY DEF Typy
<1>3. Ile(wydruk \o bufor[p], co, q) = w + b(p)
  BY <1>2, IleSumy
<1>4. /\ Ile(wydruk', co, q) = w + b(p)
      /\ \A r \in Proces : Ile(bufor'[r], co, q) = IF r = p THEN 0 ELSE b(r)
  BY <1>3, IleJednego DEF Oddaje
<1>5. Suma(co, q) = w + b("m") + b("p1") + b("p2") + b("p3")
  BY DEF Suma
<1>6. Suma(co, q)' = Ile(wydruk', co, q) + Ile(bufor'["m"], co, q) + Ile(bufor'["p1"], co, q)
                      + Ile(bufor'["p2"], co, q) + Ile(bufor'["p3"], co, q)
  BY DEF Suma, Ile, Miejsca
<1>7. Proces = {"m", "p1", "p2", "p3"}
  BY Procesow
<1> HIDE DEF w, b
<1> QED BY <1>1, <1>4, <1>5, <1>6, <1>7

(* A step that touches no line adds nothing.                               *)
LEMMA SumaStala ==
  ASSUME Typy, NEW co, NEW q, wydruk' = wydruk,
         \A r \in Proces : bufor'[r] = bufor[r]
  PROVE  /\ Suma(co, q)' = Suma(co, q)
         /\ Ile(bufor["m"], co, q)' = Ile(bufor["m"], co, q)
<1>1. Suma(co, q)' = Ile(wydruk', co, q) + Ile(bufor'["m"], co, q) + Ile(bufor'["p1"], co, q)
                      + Ile(bufor'["p2"], co, q) + Ile(bufor'["p3"], co, q)
  BY DEF Suma, Ile, Miejsca
<1>2. Ile(bufor["m"], co, q)' = Ile(bufor'["m"], co, q)
  BY DEF Ile, Miejsca
<1>3. \A r \in {"m", "p1", "p2", "p3"} : bufor'[r] = bufor[r]
  BY Procesow
<1> QED BY <1>1, <1>2, <1>3 DEF Suma

(* Where there is no line of a kind none is counted.                       *)
LEMMA IleZadnych ==
  ASSUME NEW s, NEW co, NEW q, \A l \in Zbior(s) : ~ (l.co = co /\ l.kto = q)
  PROVE  Ile(s, co, q) = 0
<1>1. Miejsca(s, co, q) = {}
  BY DEF Miejsca, Zbior
<1> QED BY <1>1, FS_EmptySet DEF Ile

(* None of the children is forked at the start, and all three at the end.  *)
LEMMA ForkowIle ==
  /\ Forkow \in Nat
  /\ podpunkt = "a" \/ Potomek \subseteq Zostalo("m") => Forkow = 0
  /\ podpunkt # "a" /\ Potomek \cap Zostalo("m") = {} => Forkow = 3
  BY DEF Forkow, Jeden, Potomek

(* Each fork() makes it one more.                                          *)
LEMMA ForkowKrok ==
  ASSUME podpunkt' = podpunkt
  PROVE  /\ (\A d \in Potomek : d \in Zostalo("m")' <=> d \in Zostalo("m")) => Forkow' = Forkow
         /\ \A c \in Potomek : podpunkt # "a" /\ c \in Zostalo("m")
                               /\ Zostalo("m")' = Zostalo("m") \ {c} => Forkow' = Forkow + 1
  BY DEF Forkow, Jeden, Potomek

(* The counts hold after a step that changes neither them nor the calls    *)
(* they speak of.                                                          *)
LEMMA IlosciTeSame ==
  ASSUME Ilosci, podpunkt' = podpunkt, wyjscie' = wyjscie,
         \A co, q : Suma(co, q)' = Suma(co, q),
         "podaj" \in Zostalo("m")' <=> "podaj" \in Zostalo("m"),
         "wypisz" \in Zostalo("m")' <=> "wypisz" \in Zostalo("m"),
         \A c \in Potomek : /\ c \in Zostalo("m")' <=> c \in Zostalo("m")
                            /\ "wypisz" \in Zostalo(c)' <=> "wypisz" \in Zostalo(c)
  PROVE  Ilosci'
<1>1. Forkow' = Forkow
  BY ForkowKrok
<1>2. \A c \in Potomek : Suma("iden", c)'
       = Jeden(podpunkt # "a" /\ c \notin Zostalo("m")' /\ "wypisz" \notin Zostalo(c)')
  BY DEF Ilosci, Jeden
<1>3. podpunkt # "exec" => Suma("pytanie", "m")'
       = IF "podaj" \in Zostalo("m")' THEN 0
         ELSE 1 + (IF wyjscie = "plik" THEN Forkow' ELSE 0)
  BY <1>1 DEF Ilosci
<1>4. podpunkt # "e" => Suma("iden", "m")'
       = IF "wypisz" \in Zostalo("m")' THEN 0
         ELSE 1 + (IF wyjscie = "plik" /\ podpunkt = "d" THEN Forkow' ELSE 0)
  BY <1>1 DEF Ilosci
<1> QED BY <1>2, <1>3, <1>4 DEF Ilosci, Jeden

(* The parent's buffer grows when it prints and is emptied only when it    *)
(* ends.                                                                   *)
LEMMA WBuforzeKrok ==
  ASSUME Typy, Nieurodzeni, Oproznione, WBuforze, Udany
  PROVE  WBuforze'
<1>0. /\ podpunkt' = podpunkt /\ wyjscie' = wyjscie
      /\ "m" \in Proces /\ Potomek \subseteq Proces /\ "m" \notin Potomek
  BY Procesow DEF Udany
<1>1. ASSUME Zywy("m")' => Zywy("m"),
             Zywy("m") => \A co : Ile(bufor["m"], co, "m")' = Ile(bufor["m"], co, "m"),
             "podaj" \in Zostalo("m")' <=> "podaj" \in Zostalo("m"),
             "wypisz" \in Zostalo("m")' <=> "wypisz" \in Zostalo("m")
      PROVE  WBuforze'
  BY <1>0, <1>1 DEF WBuforze, Jeden
<1>2. ASSUME NEW p \in Proces, NEW co, NEW tresc, Pisze(p, co, tresc) PROVE WBuforze'
  <2> DEFINE l == Linia(tresc, p)
  <2>1. /\ Idzie(p, co) /\ Dopisuje(p, l)
        /\ co \in {"podaj", "wypisz"} /\ (co = "podaj" <=> tresc = "pytanie")
        /\ tresc \in {"pytanie", "iden"}
    BY <1>2 DEF Pisze, Dopisuje, Linia, Wiersz
  <2>2. l.co = tresc /\ l.kto = p
    BY DEF Linia
  <2> HIDE DEF l
  <2>3. /\ Zostalo("m")' = IF p = "m" THEN Zostalo("m") \ {co} ELSE Zostalo("m")
        /\ Zywy("m")' <=> Zywy("m")
    BY <1>0, <2>1 DEF Idzie
  <2>4. CASE p # "m"
    <3>1. \A x : Ile(bufor["m"], x, "m")' = Ile(bufor["m"], x, "m")
      BY <2>1, <2>4, SumaDopisana
    <3> QED BY <1>1, <2>3, <2>4, <3>1
  <2>5. CASE p = "m" /\ wyjscie # "terminal"
    <3>1. \A x : Ile(bufor["m"], x, "m")'
                 = Ile(bufor["m"], x, "m") + Jeden(l.co = x /\ l.kto = "m")
      BY <2>1, <2>5, SumaDopisana
    <3>2. /\ Ile(bufor["m"], "pytanie", "m")'
             = Ile(bufor["m"], "pytanie", "m") + (IF tresc = "pytanie" THEN 1 ELSE 0)
          /\ Ile(bufor["m"], "iden", "m")'
             = Ile(bufor["m"], "iden", "m") + (IF tresc = "iden" THEN 1 ELSE 0)
      BY <2>2, <2>5, <3>1 DEF Jeden
    <3>3. co \in Zostalo("m") /\ Zywy("m")
      BY <2>1, <2>5 DEF Idzie, Gdzie, GdzieRodzic
    <3>4. ASSUME wyjscie = "plik"
          PROVE  /\ podpunkt # "exec" => Ile(bufor["m"], "pytanie", "m")
                                          = Jeden("podaj" \notin Zostalo("m"))
                 /\ podpunkt # "e" => Ile(bufor["m"], "iden", "m")
                                       = Jeden("wypisz" \notin Zostalo("m"))
      BY <3>3, <3>4 DEF WBuforze
    <3> DEFINE a == Ile(bufor["m"], "pytanie", "m")'
               b == Ile(bufor["m"], "iden", "m")'
    <3>5. ASSUME wyjscie = "plik"
          PROVE  /\ podpunkt # "exec" => a = Jeden("podaj" \notin Zostalo("m")')
                 /\ podpunkt # "e" => b = Jeden("wypisz" \notin Zostalo("m")')
      <4> HIDE DEF a, b
      <4>1. CASE co = "podaj"
        BY <2>1, <2>3, <2>5, <3>2, <3>3, <3>4, <3>5, <4>1 DEF Jeden, a, b
      <4>2. CASE co = "wypisz"
        BY <2>1, <2>3, <2>5, <3>2, <3>3, <3>4, <3>5, <4>2 DEF Jeden, a, b
      <4> QED BY <2>1, <4>1, <4>2
    <3> QED BY <1>0, <3>5 DEF WBuforze, Jeden
  <2>6. CASE wyjscie = "terminal"
    BY <1>0, <2>6 DEF WBuforze
  <2> QED BY <2>4, <2>5, <2>6
<1>3. ASSUME NEW c \in Potomek, Rodzi(c) PROVE WBuforze'
  <2>1. /\ Kopiuje(c) /\ Zywy("m") /\ Zostalo("m")' = Zostalo("m") \ {c}
        /\ c \notin {"podaj", "wypisz"} /\ c \in Zostalo("m") /\ c \in Proces
    BY <1>0, <1>3 DEF Rodzi, Powstaje, Potomek, GdzieRodzic
  <2>2. bufor[c] = <<>>
    BY <2>1 DEF Oproznione, Nieurodzeni
  <2>3. \A co : Ile(bufor["m"], co, "m")' = Ile(bufor["m"], co, "m")
    BY <2>1, <2>2, SumaKopii
  <2> QED BY <1>1, <2>1, <2>3
<1>4. ASSUME NEW p \in Proces, NEW co, Idzie(p, co), co \notin {"podaj", "wypisz"},
             \A q \in Proces : bufor'[q] = bufor[q] \/ q # "m", wydruk' = wydruk
      PROVE  WBuforze'
  <2>1. /\ Zostalo("m")' = IF p = "m" THEN Zostalo("m") \ {co} ELSE Zostalo("m")
        /\ Zywy("m")' <=> Zywy("m")
    BY <1>0, <1>4 DEF Idzie
  <2>2. \A x : Ile(bufor["m"], x, "m")' = Ile(bufor["m"], x, "m")
    <3>1. bufor'["m"] = bufor["m"]
      BY <1>0, <1>4
    <3> QED BY <3>1 DEF Ile, Miejsca
  <2> QED BY <1>1, <1>4, <2>1, <2>2
<1>5. ASSUME NEW p \in Proces, Wychodzi(p) PROVE WBuforze'
  <2>1. CASE p = "m"
    BY <1>5, <2>1 DEF Wychodzi, Odchodzi, WBuforze
  <2>2. CASE p # "m"
    <3>1. /\ bufor'["m"] = bufor["m"] /\ Zostalo("m")' = Zostalo("m")
          /\ Zywy("m")' <=> Zywy("m")
      BY <1>0, <1>5, <2>2 DEF Wychodzi, Odchodzi, Oddaje
    <3>2. \A x : Ile(bufor["m"], x, "m")' = Ile(bufor["m"], x, "m")
      BY <3>1 DEF Ile, Miejsca
    <3> QED BY <1>1, <3>1, <3>2
  <2> QED BY <2>1, <2>2
<1>6. ASSUME NEW p \in Proces, Podmienia(p) PROVE WBuforze'
  <2>1. Idzie(p, "exec") /\ Gubi(p)
    BY <1>6 DEF Podmienia
  <2>2. p # "m"
    BY <2>1 DEF Idzie, Gdzie, GdzieRodzic, WywolaniaRodzica
  <2> QED BY <1>4, <2>1, <2>2 DEF Gubi
<1>7. ASSUME Mija PROVE WBuforze'
  <2>1. reszta' = reszta /\ bufor' = bufor
    BY <1>7 DEF Mija
  <2> QED BY <1>0, <2>1 DEF WBuforze, Zywy, Zostalo, Ile, Miejsca, Jeden
<1> QED BY <1>2, <1>3, <1>4, <1>5, <1>6, <1>7
        DEF Udany, Przenosi, Zasypia, Doczekal

(* The counts hold after each step: fork() adds the copies of exactly the  *)
(* lines printed before it.                                                *)
LEMMA IlosciKrok ==
  ASSUME Typy, Nieurodzeni, Oproznione, Bufory, WBuforze, Ilosci, Udany
  PROVE  Ilosci'
<1>0. /\ podpunkt' = podpunkt /\ wyjscie' = wyjscie
      /\ "m" \in Proces /\ Potomek \subseteq Proces /\ "m" \notin Potomek
  BY Procesow DEF Udany
<1>1. ASSUME NEW p \in Proces, NEW co, NEW tresc, Pisze(p, co, tresc) PROVE Ilosci'
  <2> DEFINE l == Linia(tresc, p)
  <2>1. /\ Idzie(p, co) /\ Dopisuje(p, l)
        /\ co \in {"podaj", "wypisz"} /\ (co = "podaj" <=> tresc = "pytanie")
        /\ tresc \in {"pytanie", "iden"}
    BY <1>1 DEF Pisze, Dopisuje, Linia, Wiersz
  <2>2. l.co = tresc /\ l.kto = p
    BY DEF Linia
  <2> HIDE DEF l
  <2>3. \A q \in Proces : Zostalo(q)' = IF q = p THEN Zostalo(p) \ {co} ELSE Zostalo(q)
    BY <2>1 DEF Idzie
  <2>4. \A x, q : Suma(x, q)' = Suma(x, q) + Jeden(l.co = x /\ l.kto = q)
    BY <2>1, SumaDopisana
  <2>5. /\ \A c \in Potomek : c \in Zostalo("m")' <=> c \in Zostalo("m")
        /\ Forkow' = Forkow
    <3>1. \A c \in Potomek : c \in Zostalo("m")' <=> c \in Zostalo("m")
      BY <1>0, <2>1, <2>3 DEF Potomek
    <3> QED BY <1>0, <3>1, ForkowKrok
  <2>6. /\ \A c \in Potomek : Suma("iden", c)' = Suma("iden", c)
                                + (IF tresc = "iden" /\ p = c THEN 1 ELSE 0)
        /\ Suma("pytanie", "m")' = Suma("pytanie", "m")
                                + (IF tresc = "pytanie" /\ p = "m" THEN 1 ELSE 0)
        /\ Suma("iden", "m")' = Suma("iden", "m")
                                + (IF tresc = "iden" /\ p = "m" THEN 1 ELSE 0)
    BY <2>2, <2>4 DEF Jeden
  <2>7. ASSUME NEW c \in Potomek
        PROVE  Suma("iden", c)'
                = Jeden(podpunkt # "a" /\ c \notin Zostalo("m")' /\ "wypisz" \notin Zostalo(c)')
    <3>1. Suma("iden", c)
            = Jeden(podpunkt # "a" /\ c \notin Zostalo("m") /\ "wypisz" \notin Zostalo(c))
      BY DEF Ilosci
    <3>2. c \in Zostalo("m")' <=> c \in Zostalo("m")
      BY <2>5
    <3>3. CASE p = c
      <4>1. /\ podpunkt # "a" /\ co = "wypisz" /\ "wypisz" \in Zostalo(c) /\ Zywy(c)
            /\ tresc = "iden" /\ "wypisz" \notin Zostalo(c)'
        BY <1>0, <2>1, <2>3, <3>3 DEF Idzie, Gdzie, GdzieDziecko, WywolaniaDziecka
      <4>2. c \notin Zostalo("m")
        BY <4>1 DEF Nieurodzeni
      <4> QED BY <2>6, <3>1, <3>2, <3>3, <4>1, <4>2 DEF Jeden
    <3>4. CASE p # c
      <4>1. Zostalo(c)' = Zostalo(c)
        BY <1>0, <2>3, <3>4
      <4>2. Suma("iden", c)' = Suma("iden", c) + 0
        BY <2>6, <3>4
      <4> QED BY <3>1, <3>2, <4>1, <4>2 DEF Jeden
    <3> QED BY <3>3, <3>4
  <2>8. p = "m" => /\ co \in Zostalo("m") /\ co \notin Zostalo("m")'
                   /\ \A x : x # co => (x \in Zostalo("m")' <=> x \in Zostalo("m"))
                   /\ co = "podaj" => Forkow = 0
                   /\ co = "wypisz" /\ podpunkt = "d" => Forkow = 0
    <3> SUFFICES ASSUME p = "m"
                 PROVE  /\ co \in Zostalo("m") /\ co \notin Zostalo("m")'
                        /\ \A x : x # co => (x \in Zostalo("m")' <=> x \in Zostalo("m"))
                        /\ co = "podaj" => Forkow = 0
                        /\ co = "wypisz" /\ podpunkt = "d" => Forkow = 0
      OBVIOUS
    <3>1. GdzieRodzic(podpunkt, co, Zostalo("m"))
      BY <2>1 DEF Idzie, Gdzie
    <3>2. Zostalo("m")' = Zostalo("m") \ {co} /\ co \in Zostalo("m")
      BY <1>0, <2>3, <3>1 DEF GdzieRodzic
    <3>3. co = "podaj" \/ (co = "wypisz" /\ podpunkt = "d")
            => podpunkt = "a" \/ Potomek \subseteq Zostalo("m")
      BY <3>1 DEF GdzieRodzic
    <3> QED BY <3>2, <3>3, ForkowIle
  <2>9. p # "m" => Zostalo("m")' = Zostalo("m")
    BY <1>0, <2>3
  <2>10. ASSUME podpunkt # "exec"
         PROVE  Suma("pytanie", "m")' = IF "podaj" \in Zostalo("m")' THEN 0
                                        ELSE 1 + (IF wyjscie = "plik" THEN Forkow' ELSE 0)
    <3>1. Suma("pytanie", "m") = IF "podaj" \in Zostalo("m") THEN 0
                                 ELSE 1 + (IF wyjscie = "plik" THEN Forkow ELSE 0)
      BY <2>10 DEF Ilosci
    <3>2. Forkow \in Nat
      BY ForkowIle
    <3>3. CASE p = "m" /\ co = "podaj"
      BY <2>1, <2>5, <2>6, <2>8, <3>1, <3>3
    <3>4. CASE ~ (p = "m" /\ co = "podaj")
      <4>1. Suma("pytanie", "m")' = Suma("pytanie", "m") + 0
        BY <2>1, <2>6, <3>4
      <4>2. "podaj" \in Zostalo("m")' <=> "podaj" \in Zostalo("m")
        BY <2>8, <2>9, <3>4
      <4> QED BY <2>5, <3>1, <3>2, <4>1, <4>2
    <3> QED BY <3>3, <3>4
  <2>11. ASSUME podpunkt # "e"
         PROVE  Suma("iden", "m")' = IF "wypisz" \in Zostalo("m")' THEN 0
                  ELSE 1 + (IF wyjscie = "plik" /\ podpunkt = "d" THEN Forkow' ELSE 0)
    <3>1. Suma("iden", "m") = IF "wypisz" \in Zostalo("m") THEN 0
            ELSE 1 + (IF wyjscie = "plik" /\ podpunkt = "d" THEN Forkow ELSE 0)
      BY <2>11 DEF Ilosci
    <3>2. Forkow \in Nat
      BY ForkowIle
    <3>3. CASE p = "m" /\ co = "wypisz"
      BY <2>1, <2>5, <2>6, <2>8, <3>1, <3>3
    <3>4. CASE ~ (p = "m" /\ co = "wypisz")
      <4>1. Suma("iden", "m")' = Suma("iden", "m") + 0
        BY <2>1, <2>6, <3>4
      <4>2. "wypisz" \in Zostalo("m")' <=> "wypisz" \in Zostalo("m")
        BY <2>8, <2>9, <3>4
      <4> QED BY <2>5, <3>1, <3>2, <4>1, <4>2
    <3> QED BY <3>3, <3>4
  <2> QED BY <1>0, <2>7, <2>10, <2>11 DEF Ilosci, Jeden
<1>2. ASSUME NEW c \in Potomek, Rodzi(c) PROVE Ilosci'
  <2>1. /\ Kopiuje(c) /\ Zywy("m") /\ Zostalo("m")' = Zostalo("m") \ {c}
        /\ GdzieRodzic(podpunkt, c, Zostalo("m"))
        /\ \A d \in Potomek \ {c} : Zostalo(d)' = Zostalo(d)
        /\ "wypisz" \in Zostalo(c)'
    BY <1>0, <1>2 DEF Rodzi, Powstaje
  <2>2. /\ podpunkt # "a" /\ c \in Zostalo("m") /\ "podaj" \notin Zostalo("m")
        /\ c \notin {"podaj", "wypisz"}
        /\ "wypisz" \in Zostalo("m") <=> podpunkt \notin {"d", "e"}
    BY <2>1 DEF GdzieRodzic, Potomek
  <2>3. bufor[c] = <<>>
    BY <1>0, <2>2 DEF Oproznione, Nieurodzeni
  <2>4. \A x, q : Suma(x, q)' = Suma(x, q) + Ile(bufor["m"], x, q)
    BY <2>1, <2>3, SumaKopii
  <2>5. Forkow' = Forkow + 1 /\ Forkow \in Nat
    BY <1>0, <2>1, <2>2, ForkowKrok, ForkowIle
  <2>6. \A d \in Potomek : Ile(bufor["m"], "iden", d) = 0
    <3>1. ASSUME NEW d \in Potomek
          PROVE  \A l \in Zbior(bufor["m"]) : ~ (l.co = "iden" /\ l.kto = d)
      BY <1>0 DEF Bufory
    <3> QED BY <3>1, IleZadnych
  <2>7. ASSUME NEW d \in Potomek
        PROVE  Suma("iden", d)'
                = Jeden(podpunkt # "a" /\ d \notin Zostalo("m")' /\ "wypisz" \notin Zostalo(d)')
    <3>1. Suma("iden", d)
            = Jeden(podpunkt # "a" /\ d \notin Zostalo("m") /\ "wypisz" \notin Zostalo(d))
      BY DEF Ilosci
    <3>2. Suma("iden", d)' = Suma("iden", d) + 0
      BY <2>4, <2>6
    <3>3. CASE d = c
      BY <2>1, <2>2, <3>1, <3>2, <3>3 DEF Jeden
    <3>4. CASE d # c
      <4>1. Zostalo(d)' = Zostalo(d) /\ (d \in Zostalo("m")' <=> d \in Zostalo("m"))
        BY <2>1, <3>4
      <4> QED BY <3>1, <3>2, <4>1 DEF Jeden
    <3> QED BY <3>3, <3>4
  <2>8. wyjscie = "terminal" => \A x : Ile(bufor["m"], x, "m") = 0
    <3>1. wyjscie = "terminal" => bufor["m"] = <<>>
      BY <1>0 DEF Typy, ProcesyOK
    <3> QED BY <3>1, IleJednego
  <2>9. wyjscie \in {"terminal", "plik"}
    BY DEF Typy, ProcesyOK
  <2>10. ASSUME podpunkt # "exec"
         PROVE  Suma("pytanie", "m")' = IF "podaj" \in Zostalo("m")' THEN 0
                                        ELSE 1 + (IF wyjscie = "plik" THEN Forkow' ELSE 0)
    <3>1. Suma("pytanie", "m") = IF "podaj" \in Zostalo("m") THEN 0
                                 ELSE 1 + (IF wyjscie = "plik" THEN Forkow ELSE 0)
      BY <2>10 DEF Ilosci
    <3>2. wyjscie = "plik" => Ile(bufor["m"], "pytanie", "m") = 1
      BY <2>1, <2>2, <2>10 DEF WBuforze, Jeden
    <3>3. Suma("pytanie", "m")' = Suma("pytanie", "m") + Ile(bufor["m"], "pytanie", "m")
      BY <2>4
    <3> QED BY <2>1, <2>2, <2>5, <2>8, <2>9, <3>1, <3>2, <3>3
  <2>11. ASSUME podpunkt # "e"
         PROVE  Suma("iden", "m")' = IF "wypisz" \in Zostalo("m")' THEN 0
                  ELSE 1 + (IF wyjscie = "plik" /\ podpunkt = "d" THEN Forkow' ELSE 0)
    <3>1. Suma("iden", "m") = IF "wypisz" \in Zostalo("m") THEN 0
            ELSE 1 + (IF wyjscie = "plik" /\ podpunkt = "d" THEN Forkow ELSE 0)
      BY <2>11 DEF Ilosci
    <3>2. wyjscie = "plik" =>
            Ile(bufor["m"], "iden", "m") = IF "wypisz" \in Zostalo("m") THEN 0 ELSE 1
      BY <2>1, <2>11 DEF WBuforze, Jeden
    <3>3. Suma("iden", "m")' = Suma("iden", "m") + Ile(bufor["m"], "iden", "m")
      BY <2>4
    <3>4. "wypisz" \in Zostalo("m")' <=> "wypisz" \in Zostalo("m")
      BY <2>1, <2>2
    <3> QED BY <2>2, <2>5, <2>8, <2>9, <2>11, <3>1, <3>2, <3>3, <3>4
  <2> QED BY <1>0, <2>7, <2>10, <2>11 DEF Ilosci, Jeden
<1>3. ASSUME NEW p \in Proces, NEW co, Idzie(p, co),
             co \notin {"podaj", "wypisz"}, co \notin Potomek,
             wydruk' = wydruk, \A q \in Proces : bufor'[q] = bufor[q]
      PROVE  Ilosci'
  <2>1. \A q \in Proces : Zostalo(q)' = IF q = p THEN Zostalo(p) \ {co} ELSE Zostalo(q)
    BY <1>3 DEF Idzie
  <2>2. \A x, q : Suma(x, q)' = Suma(x, q)
    BY <1>3, SumaStala
  <2> QED BY <1>0, <1>3, <2>1, <2>2, IlosciTeSame
<1>4. ASSUME NEW p \in Proces, Wychodzi(p) PROVE Ilosci'
  <2>1. /\ Oddaje(p) /\ Zostalo(p)' = {}
        /\ \A q \in Proces \ {p} : Zostalo(q)' = Zostalo(q)
    BY <1>4 DEF Wychodzi, Odchodzi
  <2>2. Zostalo(p) = {"exit"}
    BY <1>4 DEF Wychodzi, Gdzie, GdzieRodzic, GdzieDziecko
  <2>3. \A x, q : Suma(x, q)' = Suma(x, q)
    BY <2>1, SumaOddana
  <2>4. "exit" \notin Potomek
    BY DEF Potomek
  <2>5. /\ "podaj" \in Zostalo("m")' <=> "podaj" \in Zostalo("m")
        /\ "wypisz" \in Zostalo("m")' <=> "wypisz" \in Zostalo("m")
        /\ \A c \in Potomek : /\ c \in Zostalo("m")' <=> c \in Zostalo("m")
                              /\ "wypisz" \in Zostalo(c)' <=> "wypisz" \in Zostalo(c)
    BY <1>0, <2>1, <2>2, <2>4
  <2> QED BY <1>0, <2>3, <2>5, IlosciTeSame
<1>5. ASSUME NEW p \in Proces, Podmienia(p) PROVE Ilosci'
  <2>1. Idzie(p, "exec") /\ Gubi(p)
    BY <1>5 DEF Podmienia
  <2>2. p # "m" /\ podpunkt = "exec" /\ "exec" \in Zostalo(p)
    BY <2>1 DEF Idzie, Gdzie, GdzieRodzic, GdzieDziecko, WywolaniaRodzica
  <2>3. bufor[p] = <<>>
    BY <2>2, Procesow DEF Bufory
  <2>4. wydruk' = wydruk /\ \A q \in Proces : bufor'[q] = bufor[q]
    BY <2>1, <2>3 DEF Gubi
  <2>5. "exec" \notin Potomek
    BY DEF Potomek
  <2> QED BY <1>3, <2>1, <2>4, <2>5
<1>6. ASSUME Mija PROVE Ilosci'
  <2>1. reszta' = reszta /\ wydruk' = wydruk /\ bufor' = bufor
    BY <1>6 DEF Mija
  <2>2. \A x, q : Suma(x, q)' = Suma(x, q)
    BY <2>1, SumaStala
  <2>3. \A q : Zostalo(q)' = Zostalo(q)
    BY <2>1 DEF Zostalo
  <2> QED BY <1>0, <2>2, <2>3, IlosciTeSame
<1>7. "setpgid" \notin Potomek /\ "sleep" \notin Potomek /\ "wait" \notin Potomek
  BY DEF Potomek
<1> QED BY <1>1, <1>2, <1>3, <1>4, <1>5, <1>6, <1>7
        DEF Udany, Przenosi, Zasypia, Doczekal

-----------------------------------------------------------------------------
(* The invariant.                                                          *)

(* The invariant: of a run in which nothing has failed, all of the above.  *)
Przebieg == Zycie /\ Oproznione /\ Wierne /\ Bufory /\ Porzadek /\ Ilosci /\ WBuforze
ProcesyInv == Typy /\ (bledy = {} => Przebieg)

(* What the parent has before it at the start.                             *)
LEMMA CalyRodzic ==
  ASSUME NEW v \in DOMAIN Macierzyste
  PROVE  /\ v # "a" => Potomek \subseteq Zbior(Macierzyste[v])
         /\ v # "exec" => "podaj" \in Zbior(Macierzyste[v])
         /\ v # "e" => "wypisz" \in Zbior(Macierzyste[v])
<1> DEFINE t == Macierzyste[v]
           W == {"podaj", "p1", "p2", "p3", "wypisz"}
<1>1. v \in Warianty
  BY Programy
<1>2. CASE v = "a"
  <2>1. t = <<"podaj", "wypisz", "exit">>
    BY <1>2 DEF Macierzyste
  <2> HIDE DEF t
  <2>2. 1 \in DOMAIN t /\ 2 \in DOMAIN t /\ t[1] = "podaj" /\ t[2] = "wypisz"
    BY <2>1
  <2>3. "podaj" \in Zbior(t) /\ "wypisz" \in Zbior(t)
    BY <2>2 DEF Zbior
  <2> QED BY <1>2, <2>3 DEF t
<1>3. CASE v = "exec"
  <2>1. t = <<"p1", "p2", "p3", "wait", "wypisz", "exit">>
    BY <1>3 DEF Macierzyste
  <2> HIDE DEF t
  <2>2. /\ 1 \in DOMAIN t /\ 2 \in DOMAIN t /\ 3 \in DOMAIN t /\ 5 \in DOMAIN t
        /\ t[1] = "p1" /\ t[2] = "p2" /\ t[3] = "p3" /\ t[5] = "wypisz"
    BY <2>1
  <2>3. "p1" \in Zbior(t) /\ "p2" \in Zbior(t) /\ "p3" \in Zbior(t) /\ "wypisz" \in Zbior(t)
    BY <2>2 DEF Zbior
  <2> QED BY <1>3, <2>3 DEF Potomek, t
<1>4. CASE v = "d"
  <2>1. t = <<"podaj", "wypisz", "p1", "p2", "p3", "sleep", "exit">>
    BY <1>4 DEF Macierzyste
  <2> HIDE DEF t
  <2>2. /\ 1 \in DOMAIN t /\ 2 \in DOMAIN t /\ 3 \in DOMAIN t /\ 4 \in DOMAIN t
        /\ 5 \in DOMAIN t
        /\ t[1] = "podaj" /\ t[2] = "wypisz" /\ t[3] = "p1" /\ t[4] = "p2" /\ t[5] = "p3"
    BY <2>1
  <2>3. /\ "podaj" \in Zbior(t) /\ "wypisz" \in Zbior(t)
        /\ "p1" \in Zbior(t) /\ "p2" \in Zbior(t) /\ "p3" \in Zbior(t)
    BY <2>2 DEF Zbior
  <2> QED BY <1>4, <2>3 DEF Potomek, t
<1>5. CASE v = "b"
  <2>1. t = <<"podaj", "p1", "p2", "p3", "wypisz", "wait", "exit">>
    BY <1>5 DEF Macierzyste
  <2> HIDE DEF t
  <2>2. /\ 1 \in DOMAIN t /\ 2 \in DOMAIN t /\ 3 \in DOMAIN t /\ 4 \in DOMAIN t
        /\ 5 \in DOMAIN t
        /\ t[1] = "podaj" /\ t[2] = "p1" /\ t[3] = "p2" /\ t[4] = "p3" /\ t[5] = "wypisz"
    BY <2>1
  <2>3. /\ "podaj" \in Zbior(t) /\ "wypisz" \in Zbior(t)
        /\ "p1" \in Zbior(t) /\ "p2" \in Zbior(t) /\ "p3" \in Zbior(t)
    BY <2>2 DEF Zbior
  <2> QED BY <1>5, <2>3 DEF Potomek, t
<1>6. CASE v = "c"
  <2>1. t = <<"podaj", "p1", "p2", "p3", "sleep", "wypisz", "exit">>
    BY <1>6 DEF Macierzyste
  <2> HIDE DEF t
  <2>2. /\ 1 \in DOMAIN t /\ 2 \in DOMAIN t /\ 3 \in DOMAIN t /\ 4 \in DOMAIN t
        /\ 6 \in DOMAIN t
        /\ t[1] = "podaj" /\ t[2] = "p1" /\ t[3] = "p2" /\ t[4] = "p3" /\ t[6] = "wypisz"
    BY <2>1
  <2>3. /\ "podaj" \in Zbior(t) /\ "wypisz" \in Zbior(t)
        /\ "p1" \in Zbior(t) /\ "p2" \in Zbior(t) /\ "p3" \in Zbior(t)
    BY <2>2 DEF Zbior
  <2> QED BY <1>6, <2>3 DEF Potomek, t
<1>7. CASE v = "e"
  <2>1. t = <<"podaj", "p1", "p2", "p3", "exit">>
    BY <1>7 DEF Macierzyste
  <2> HIDE DEF t
  <2>2. /\ 1 \in DOMAIN t /\ 2 \in DOMAIN t /\ 3 \in DOMAIN t /\ 4 \in DOMAIN t
        /\ t[1] = "podaj" /\ t[2] = "p1" /\ t[3] = "p2" /\ t[4] = "p3"
    BY <2>1
  <2>3. /\ "podaj" \in Zbior(t)
        /\ "p1" \in Zbior(t) /\ "p2" \in Zbior(t) /\ "p3" \in Zbior(t)
    BY <2>2 DEF Zbior
  <2> QED BY <1>7, <2>3 DEF Potomek, t
<1> QED BY <1>1, <1>2, <1>3, <1>4, <1>5, <1>6, <1>7 DEF Warianty

(* The invariant holds at first, when nothing has been printed.            *)
LEMMA ProcesyInvInit == ProcesyInit => ProcesyInv
<1> SUFFICES ASSUME ProcesyInit PROVE ProcesyInv
  OBVIOUS
<1> DEFINE M == Macierzyste[podpunkt]
<1>1. Typy /\ podpunkt \in DOMAIN Macierzyste
  BY TypyInit DEF ProcesyInit
<1>2. /\ reszta["m"] = M /\ \A p \in Potomek : reszta[p] = <<>>
      /\ \A p \in Proces : bufor[p] = <<>> /\ pgid[p] = "m" /\ sen[p] = 0
                           /\ luz[p] = Opoznienie
      /\ wydruk = <<>>
  <2> HIDE DEF M
  <2>1. reszta = [p \in Proces |-> IF p = "m" THEN M ELSE <<>>]
    BY DEF ProcesyInit, M
  <2> QED BY <2>1, Procesow DEF ProcesyInit, CzasInit
<1>3. /\ podpunkt # "a" => Potomek \subseteq Zostalo("m")
      /\ podpunkt # "exec" => "podaj" \in Zostalo("m")
      /\ podpunkt # "e" => "wypisz" \in Zostalo("m")
  BY <1>1, <1>2, CalyRodzic DEF Zostalo
<1>4. /\ \A p \in Potomek : ~ Zywy(p) /\ Zostalo(p) = {}
      /\ \A p \in Proces : Zbior(bufor[p]) = {}
      /\ Zbior(wydruk) = {}
      /\ "m" \in Proces /\ Potomek \subseteq Proces
  BY <1>2, ZbiorJednego, Procesow DEF Zywy, Zostalo
<1>5. Opoznienie \in Nat /\ Sekunda \in Nat
  BY CzasAssumption
<1>6. Zycie
  <2>1. Nieurodzeni /\ Bezsenni /\ Trwa
    BY <1>2, <1>4 DEF Nieurodzeni, Bezsenni, Trwa
  <2>2. Grupy
    BY <1>2, <1>4, Procesow DEF Grupy
  <2>3. Krocej
    BY <1>2, <1>4, <1>5 DEF Krocej, Termin
  <2> QED BY <2>1, <2>2, <2>3 DEF Zycie
<1>7. Oproznione
  BY <1>2 DEF Oproznione
<1>8. \A l : ~ Wypisana(l)
  BY <1>4 DEF Wypisana
<1>9. Wierne
  BY <1>8 DEF Wierne
<1>10. Bufory
  BY <1>2, <1>4 DEF Bufory
<1>11. Porzadek
  <2>1. \A A, B : Kolejno(wydruk, A, B)
    BY <1>4, KolejnoPusto
  <2> QED BY <1>4, <1>8, <2>1 DEF Porzadek
<1>12. \A co, q : Ile(wydruk, co, q) = 0 /\ \A p \in Proces : Ile(bufor[p], co, q) = 0
  BY <1>2, IleJednego
<1>13. \A co, q : Suma(co, q) = 0
  BY <1>12, Procesow DEF Suma
<1>14. Ilosci
  BY <1>3, <1>13 DEF Ilosci, Jeden
<1>15. WBuforze
  BY <1>3, <1>4, <1>12 DEF WBuforze, Jeden
<1> QED BY <1>1, <1>6, <1>7, <1>9, <1>10, <1>11, <1>14, <1>15 DEF ProcesyInv, Przebieg

(* The invariant holds after every step, those in which a call fails       *)
(* included.                                                               *)
LEMMA ProcesyInvKrok ==
  ASSUME ProcesyInv, [ProcesyNext]_ProcesyVars
  PROVE  ProcesyInv'
<1>1. Typy /\ Typy'
  BY TypyKrok DEF ProcesyInv
<1>2. ASSUME ProcesyNext, bledy' = {} PROVE Przebieg'
  <2>1. Udany /\ Przebieg
    BY <1>1, <1>2, Udane DEF ProcesyInv
  <2>2. Zycie /\ Nieurodzeni /\ Bezsenni /\ Grupy /\ Trwa /\ Krocej
    BY <2>1 DEF Przebieg, Zycie
  <2>3. Zycie'
    BY <1>1, <2>1, <2>2, NieurodzeniKrok, BezsenniKrok, GrupyKrok, TrwaKrok, KrocejKrok
    DEF Zycie
  <2>4. Oproznione' /\ Wierne'
    BY <1>1, <2>1, OproznioneKrok, WierneKrok DEF Przebieg
  <2>5. Bufory' /\ Porzadek'
    BY <1>1, <2>1, BuforyKrok, PorzadekKrok DEF Przebieg
  <2>6. Ilosci' /\ WBuforze'
    BY <1>1, <2>1, <2>2, IlosciKrok, WBuforzeKrok DEF Przebieg
  <2> QED BY <2>3, <2>4, <2>5, <2>6 DEF Przebieg
<1>3. ASSUME UNCHANGED ProcesyVars, bledy' = {} PROVE Przebieg'
  <2>1. Przebieg
    BY <1>3 DEF ProcesyInv, ProcesyVars
  <2> USE <1>3 DEF ProcesyVars, czas
  <2>2. Zycie'
    BY <2>1 DEF Przebieg, Zycie, Nieurodzeni, Bezsenni, Grupy, Trwa, Krocej, Termin, Zywy,
                Zostalo
  <2>3. Oproznione' /\ Wierne'
    BY <2>1 DEF Przebieg, Oproznione, Wierne, Wierna, Wypisana, Zywy
  <2>4. Bufory' /\ Porzadek'
    BY <2>1 DEF Przebieg, Bufory, Porzadek, Wypisana, Zywy, Zostalo, Iden, Potomny
  <2>5. Ilosci' /\ WBuforze'
    BY <2>1 DEF Przebieg, Ilosci, WBuforze, Suma, Forkow, Ile, Miejsca, Zywy, Zostalo, Jeden
  <2> QED BY <2>2, <2>3, <2>4, <2>5 DEF Przebieg
<1> QED BY <1>1, <1>2, <1>3 DEF ProcesyInv

(* When all have ended, no call is left and no line is in a buffer, so the *)
(* counts are those of the lines written.                                  *)
LEMMA Wydrukowane ==
  ASSUME ProcesyInv, podpunkt \notin {"c", "d"} \/ Wczas
  PROVE  Wydruk
<1> SUFFICES ASSUME \A p \in Proces : ~ Zywy(p), bledy = {}
             PROVE  /\ podpunkt # "e" =>
                         Cardinality(Linie("iden", "m")) = Kopie(podpunkt = "d")
                    /\ podpunkt # "exec" => Cardinality(Linie("pytanie", "m")) = Kopie(TRUE)
                    /\ \A p \in Potomek :
                         Cardinality(Linie("iden", p)) = IF podpunkt = "a" THEN 0 ELSE 1
                    /\ \A p \in Potomek, k \in DOMAIN wydruk : wydruk[k].kto = p =>
                         /\ podpunkt \in {"b", "d", "exec"} => wydruk[k].ppid = "m"
                         /\ podpunkt = "c" => wydruk[k].ppid = "init"
                         /\ wydruk[k].pgid = IF podpunkt = "e" THEN p ELSE "m"
                         /\ (podpunkt = "c" \/ (podpunkt = "d" /\ wyjscie = "terminal"))
                              => Przed(Linie("iden", "m"), {k})
                         /\ podpunkt = "exec" => Przed({k}, Linie("iden", "m"))
  BY DEF Wydruk
<1>1. Typy /\ Przebieg
  BY DEF ProcesyInv
<1>2. /\ \A p \in Proces : Zostalo(p) = {} /\ bufor[p] = <<>>
      /\ Proces = {"m", "p1", "p2", "p3"} /\ Potomek = {"p1", "p2", "p3"}
  BY <1>1, NaMiejscu, Procesow DEF Przebieg, Oproznione
<1>3. \A co, q : /\ Cardinality(Linie(co, q)) = Ile(wydruk, co, q)
                 /\ Ile(wydruk, co, q) \in Nat
  <2>1. \A co, q : Linie(co, q) = Miejsca(wydruk, co, q)
    BY DEF Linie, Miejsca
  <2>2. \A co, q : Ile(wydruk, co, q) \in Nat
    BY <1>1, IleTyp
  <2> QED BY <2>1, <2>2 DEF Ile
<1>4. \A co, q : Suma(co, q) = Ile(wydruk, co, q)
  <2>1. \A co, q : \A p \in Proces : Ile(bufor[p], co, q) = 0
    BY <1>2, IleJednego
  <2> QED BY <1>2, <1>3, <2>1 DEF Suma
<1>5. Forkow = IF podpunkt = "a" THEN 0 ELSE 3
  <2>1. Potomek \cap Zostalo("m") = {}
    BY <1>2
  <2> QED BY <2>1, ForkowIle
<1>6. "podaj" \notin Zostalo("m") /\ "wypisz" \notin Zostalo("m")
  BY <1>2
<1>7. ASSUME podpunkt # "e"
      PROVE  Cardinality(Linie("iden", "m")) = Kopie(podpunkt = "d")
  <2>1. Suma("iden", "m") = 1 + (IF wyjscie = "plik" /\ podpunkt = "d" THEN Forkow ELSE 0)
    BY <1>1, <1>6, <1>7 DEF Przebieg, Ilosci
  <2> QED BY <1>3, <1>4, <1>5, <2>1 DEF Kopie
<1>8. ASSUME podpunkt # "exec"
      PROVE  Cardinality(Linie("pytanie", "m")) = Kopie(TRUE)
  <2>1. Suma("pytanie", "m") = 1 + (IF wyjscie = "plik" THEN Forkow ELSE 0)
    BY <1>1, <1>6, <1>8 DEF Przebieg, Ilosci
  <2> QED BY <1>3, <1>4, <1>5, <2>1 DEF Kopie
<1>9. ASSUME NEW p \in Potomek
      PROVE  Cardinality(Linie("iden", p)) = IF podpunkt = "a" THEN 0 ELSE 1
  <2>1. p \notin Zostalo("m") /\ "wypisz" \notin Zostalo(p)
    BY <1>2
  <2>2. Suma("iden", p)
         = Jeden(podpunkt # "a" /\ p \notin Zostalo("m") /\ "wypisz" \notin Zostalo(p))
    BY <1>1 DEF Przebieg, Ilosci
  <2> QED BY <1>3, <1>4, <2>1, <2>2 DEF Jeden
<1>10. ASSUME NEW p \in Potomek, NEW k \in DOMAIN wydruk, wydruk[k].kto = p
       PROVE  /\ podpunkt \in {"b", "d", "exec"} => wydruk[k].ppid = "m"
              /\ podpunkt = "c" => wydruk[k].ppid = "init"
              /\ wydruk[k].pgid = IF podpunkt = "e" THEN p ELSE "m"
              /\ (podpunkt = "c" \/ (podpunkt = "d" /\ wyjscie = "terminal"))
                   => Przed(Linie("iden", "m"), {k})
              /\ podpunkt = "exec" => Przed({k}, Linie("iden", "m"))
  <2>1. p # "m" /\ \A n \in DOMAIN wydruk : wydruk[n] \in Wiersz
    BY <1>1, Procesow DEF Typy
  <2>2. wydruk[k] \in Potomny
    BY <1>10, <2>1 DEF Potomny
  <2>3. \A n \in Linie("iden", "m") : n \in DOMAIN wydruk /\ wydruk[n] \in Iden
    BY <2>1 DEF Linie, Iden
  <2>4. Wierna(wydruk[k])
    <3>1. Wypisana(wydruk[k])
      BY DEF Wypisana, Zbior
    <3> QED BY <1>1, <3>1 DEF Przebieg, Wierne
  <2>5. podpunkt = "c" \/ (podpunkt = "d" /\ wyjscie = "terminal")
          => Przed(Linie("iden", "m"), {k})
    <3>1. podpunkt = "c" \/ (podpunkt = "d" /\ wyjscie = "terminal")
            => Kolejno(wydruk, Iden, Potomny)
      BY <1>1 DEF Przebieg, Porzadek
    <3> QED BY <2>2, <2>3, <3>1 DEF Kolejno, Przed
  <2>6. podpunkt = "exec" => Przed({k}, Linie("iden", "m"))
    <3>1. podpunkt = "exec" => Kolejno(wydruk, Potomny, Iden)
      BY <1>1 DEF Przebieg, Porzadek
    <3> QED BY <2>2, <2>3, <3>1 DEF Kolejno, Przed
  <2> QED BY <1>10, <2>1, <2>4, <2>5, <2>6 DEF Wierna
<1> QED BY <1>7, <1>8, <1>9, <1>10

(* What a run prints when nothing fails, for every speed of the processes  *)
(* and whether to a terminal or to a file: each child's line once, with    *)
(* the parent and the group the variant is to show, the parent's lines     *)
(* four times in a file when they were printed before the forks, and in    *)
(* the order the variant promises. In (a), (b), (e) and exec this is so    *)
(* for any delay; in (c) and (d), where a sleep() does for wait(), when    *)
(* two delays of the scheduler are less than a second.                     *)
THEOREM WydrukInv ==
  ProcesySpec => [](podpunkt \notin {"c", "d"} \/ 2 * Opoznienie < Sekunda => Wydruk)
<1>1. ProcesyInv /\ [ProcesyNext]_ProcesyVars => ProcesyInv'
  BY ProcesyInvKrok
<1>2. ProcesyInv => (podpunkt \notin {"c", "d"} \/ 2 * Opoznienie < Sekunda => Wydruk)
  BY Wydrukowane DEF Wczas
<1> QED BY <1>1, <1>2, ProcesyInvInit, PTL DEF ProcesySpec

-----------------------------------------------------------------------------
(* Every run comes to its end.                                             *)

(* The calls a process has left, and for how long it may yet sleep or be   *)
(* kept back.  A fork(), a call of the parent's, counts for what its child *)
(* will do; a call for more than the longest sleep it may begin.           *)
Wywolan(p) == Len(reszta[p])
Czekanie(p) == sen[p] + luz[p]
Kroki == 5 * Wywolan("m") + Wywolan("p1") + Wywolan("p2") + Wywolan("p3")
Czekania == Czekanie("m") + Czekanie("p1") + Czekanie("p2") + Czekanie("p3")
ProcesyMiara == (2 * Sekunda + Opoznienie + 1) * Kroki + Czekania

(* A step uses up a part of what is left.                                  *)
ProcesyUbywa == ProcesyMiara \in Nat /\ ProcesyMiara' \in Nat /\ ProcesyMiara' < ProcesyMiara

(* What is left is a natural number.                                       *)
LEMMA KrokiTyp ==
  ASSUME Typy
  PROVE  /\ \A p \in Proces : /\ Wywolan(p) \in Nat /\ (Zywy(p) => Wywolan(p) > 0)
                              /\ Czekanie(p) \in Nat
         /\ Kroki \in Nat /\ Czekania \in Nat
<1>1. \A p \in Proces : reszta[p] \in Seq(Wywolania)
  BY DEF Typy
<1>2. \A p \in Proces : Wywolan(p) \in Nat /\ (Zywy(p) => Wywolan(p) > 0)
  <2> SUFFICES ASSUME NEW p \in Proces
               PROVE  Wywolan(p) \in Nat /\ (Zywy(p) => Wywolan(p) > 0)
    OBVIOUS
  <2> DEFINE s == reszta[p]
  <2>1. s \in Seq(Wywolania)
    BY <1>1
  <2> HIDE DEF s
  <2>2. Len(s) \in Nat /\ (s # <<>> => Len(s) # 0)
    BY <2>1, EmptySeq
  <2>3. Len(s) \in Nat /\ (s # <<>> => Len(s) > 0)
    BY <2>2
  <2> QED BY <2>3 DEF Zywy, Wywolan, s
<1>3. \A p \in Proces : Czekanie(p) \in Nat
  <2>1. sen \in [Proces -> Nat] /\ luz \in [Proces -> 0..Opoznienie] /\ Opoznienie \in Nat
    BY CzasAssumption DEF Typy, ProcesyOK, CzasOK
  <2> QED BY <2>1 DEF Czekanie
<1>4. Kroki \in Nat
  BY <1>2, Procesow DEF Kroki
<1>5. Czekania \in Nat
  BY <1>3, Procesow DEF Czekania
<1> QED BY <1>2, <1>3, <1>4, <1>5

(* Of two such measures, fewer calls are less whatever the waiting, when   *)
(* it grows by no more than W.                                             *)
LEMMA Mniej ==
  ASSUME NEW W \in Nat, NEW k \in Nat, NEW m \in Nat, NEW c \in Nat, NEW d \in Nat,
         \/ m < k /\ d < c + W + 1
         \/ m = k /\ d < c
  PROVE  (W + 1) * m + d < (W + 1) * k + c
<1>1. CASE m = k /\ d < c
  <2>1. (W + 1) * k \in Nat
    OBVIOUS
  <2> DEFINE x == (W + 1) * k
  <2> HIDE DEF x
  <2>2. x \in Nat
    BY <2>1 DEF x
  <2>3. x + d < x + c
    BY <1>1, <2>2
  <2> QED BY <1>1, <2>3 DEF x
<1>2. CASE m < k /\ d < c + W + 1
  <2>1. PICK r \in Nat : k = m + 1 + r
    <3>1. k - m - 1 \in Nat /\ k = m + 1 + (k - m - 1)
      BY <1>2
    <3> QED BY <3>1
  <2>2. (W + 1) * k = (W + 1) * m + (W + 1) + (W + 1) * r
    BY <2>1
  <2>3. (W + 1) * m \in Nat /\ (W + 1) * r \in Nat
    OBVIOUS
  <2> DEFINE x == (W + 1) * m
             y == (W + 1) * r
  <2> HIDE DEF x, y
  <2>4. (W + 1) * k = x + (W + 1) + y /\ x \in Nat /\ y \in Nat
    BY <2>2, <2>3 DEF x, y
  <2>5. x + d < x + (W + 1) + y + c
    BY <1>2, <2>4
  <2> QED BY <2>4, <2>5 DEF x
<1> QED BY <1>1, <1>2

(* What is left in the next state is a natural number.                     *)
LEMMA KrokiPo ==
  ASSUME Typy'
  PROVE  /\ \A p \in Proces : Wywolan(p)' \in Nat /\ Czekanie(p)' \in Nat
         /\ Kroki' \in Nat /\ Czekania' \in Nat
<1>1. \A p \in Proces : reszta'[p] \in Seq(Wywolania)
  BY DEF Typy
<1>2. \A p \in Proces : Wywolan(p)' \in Nat
  BY <1>1 DEF Wywolan
<1>3. \A p \in Proces : Czekanie(p)' \in Nat
  <2>1. sen' \in [Proces -> Nat] /\ luz' \in [Proces -> 0..Opoznienie] /\ Opoznienie \in Nat
    BY CzasAssumption DEF Typy, ProcesyOK, CzasOK
  <2> QED BY <2>1 DEF Czekanie
<1>4. Kroki' = 5 * Wywolan("m")' + Wywolan("p1")' + Wywolan("p2")' + Wywolan("p3")'
  BY DEF Kroki
<1>5. Czekania' = Czekanie("m")' + Czekanie("p1")' + Czekanie("p2")' + Czekanie("p3")'
  BY DEF Czekania
<1>6. Kroki' \in Nat
  BY <1>2, <1>4, Procesow
<1>7. Czekania' \in Nat
  BY <1>3, <1>5, Procesow
<1> QED BY <1>2, <1>3, <1>6, <1>7

(* The measure goes down with the calls, or with the waiting alone.        *)
LEMMA ToUbywa ==
  ASSUME Typy, Typy',
         \/ Kroki' < Kroki /\ Czekania' < Czekania + (2 * Sekunda + Opoznienie) + 1
         \/ Kroki' = Kroki /\ Czekania' < Czekania
  PROVE  ProcesyUbywa
<1> DEFINE W == 2 * Sekunda + Opoznienie
           k == Kroki
           m == Kroki'
           c == Czekania
           d == Czekania'
<1>1. W \in Nat
  BY CzasAssumption
<1>5. ProcesyMiara = (W + 1) * k + c /\ ProcesyMiara' = (W + 1) * m + d
  BY DEF ProcesyMiara
<1>6. k \in Nat /\ m \in Nat /\ c \in Nat /\ d \in Nat
  BY KrokiTyp, KrokiPo
<1>7. \/ m < k /\ d < c + W + 1
      \/ m = k /\ d < c
  OBVIOUS
<1> HIDE DEF W, k, m, c, d
<1>8. (W + 1) * m + d < (W + 1) * k + c
  BY <1>1, <1>6, <1>7, Mniej
<1>9. (W + 1) * m + d \in Nat /\ (W + 1) * k + c \in Nat
  BY <1>1, <1>6
<1> QED BY <1>5, <1>8, <1>9 DEF ProcesyUbywa

(* A step that takes a call from one process uses up the measure, even     *)
(* when it is the call that puts it to sleep.                              *)
LEMMA MniejWywolan ==
  ASSUME Typy, Typy', NEW p \in Proces, Zywy(p),
         Wywolan(p)' < Wywolan(p),
         \A q \in Proces \ {p} : Wywolan(q)' = Wywolan(q),
         \A q \in Proces : Czekanie(q)' <= Czekanie(q)
                           \/ (q = p /\ Czekanie(q)' <= 2 * Sekunda + Opoznienie)
  PROVE  ProcesyUbywa
<1>1. /\ \A q \in Proces : Wywolan(q) \in Nat /\ Czekanie(q) \in Nat
      /\ \A q \in Proces : Wywolan(q)' \in Nat /\ Czekanie(q)' \in Nat
  BY KrokiTyp, KrokiPo
<1>2. Proces = {"m", "p1", "p2", "p3"} /\ Sekunda \in Nat /\ Opoznienie \in Nat
  BY Procesow, CzasAssumption
<1>3. Kroki' = 5 * Wywolan("m")' + Wywolan("p1")' + Wywolan("p2")' + Wywolan("p3")'
  BY DEF Kroki
<1>4. Czekania' = Czekanie("m")' + Czekanie("p1")' + Czekanie("p2")' + Czekanie("p3")'
  BY DEF Czekania
<1>5. Kroki' < Kroki
  BY <1>1, <1>2, <1>3 DEF Kroki
<1>6. Czekania' < Czekania + (2 * Sekunda + Opoznienie) + 1
  BY <1>1, <1>2, <1>4 DEF Czekania
<1> QED BY <1>5, <1>6, ToUbywa

(* A call that is made leaves fewer calls to the one that makes it.        *)
LEMMA UbywaPrzejdz ==
  ASSUME Typy, NEW p \in Proces, Zywy(p), reszta' = [reszta EXCEPT ![p] = Tail(@)]
  PROVE  /\ Wywolan(p)' < Wywolan(p)
         /\ \A q \in Proces \ {p} : Wywolan(q)' = Wywolan(q)
<1> DEFINE s == reszta[p]
<1>1. reszta \in [Proces -> Seq(Wywolania)]
  BY DEF Typy
<1>2. \A q \in Proces : reszta'[q] = IF q = p THEN Tail(s) ELSE reszta[q]
  BY <1>1
<1>3. s \in Seq(Wywolania) /\ s # <<>>
  BY <1>1 DEF Zywy
<1> HIDE DEF s
<1>4. Len(Tail(s)) = Len(s) - 1 /\ Len(s) \in Nat
  BY <1>3, HeadTailProperties
<1> DEFINE n == Len(s)
<1> HIDE DEF n
<1>5. Len(Tail(s)) = n - 1 /\ n \in Nat
  BY <1>4 DEF n
<1>6. n - 1 < n
  BY <1>5
<1> QED BY <1>2, <1>5, <1>6 DEF Wywolan, s, n

(* So does an end, however much was left.                                  *)
LEMMA UbywaKonczy ==
  ASSUME Typy, NEW p \in Proces, Zywy(p), Konczy(p)
  PROVE  /\ Wywolan(p)' < Wywolan(p)
         /\ \A q \in Proces \ {p} : Wywolan(q)' = Wywolan(q)
<1>1. reszta \in [Proces -> Seq(Wywolania)] /\ reszta' = [reszta EXCEPT ![p] = <<>>]
  BY DEF Typy, Konczy
<1>2. \A q \in Proces : reszta'[q] = IF q = p THEN <<>> ELSE reszta[q]
  BY <1>1
<1>3. Wywolan(p) > 0 /\ Wywolan(p) \in Nat
  BY KrokiTyp
<1>4. Len(<<>>) = 0
  OBVIOUS
<1>5. Wywolan(p)' = 0
  BY <1>2, <1>4 DEF Wywolan
<1>6. \A q \in Proces \ {p} : Wywolan(q)' = Wywolan(q)
  BY <1>2 DEF Wywolan
<1> QED BY <1>3, <1>5, <1>6

(* A child has at most three calls, so a fork(), which counts for five,    *)
(* still uses up the measure.                                              *)
LEMMA Krotkie == ASSUME NEW v \in DOMAIN Macierzyste PROVE Len(Potomne[v]) \in 0..3
<1>1. v \in Warianty
  BY Programy
<1>2. CASE v = "a"
  <2>1. Potomne[v] = <<>>
    BY <1>2 DEF Potomne
  <2> QED BY <2>1
<1>3. CASE v \in {"b", "d"}
  <2>1. Potomne[v] = <<"wypisz", "exit">>
    BY <1>3 DEF Potomne
  <2> QED BY <2>1
<1>4. CASE v = "c"
  <2>1. Potomne[v] = <<"sleep", "wypisz", "exit">>
    BY <1>4 DEF Potomne
  <2> QED BY <2>1
<1>5. CASE v = "e"
  <2>1. Potomne[v] = <<"setpgid", "wypisz", "exit">>
    BY <1>5 DEF Potomne
  <2> QED BY <2>1
<1>6. CASE v = "exec"
  <2>1. Potomne[v] = <<"exec", "wypisz", "exit">>
    BY <1>6 DEF Potomne
  <2> QED BY <2>1
<1> QED BY <1>1, <1>2, <1>3, <1>4, <1>5, <1>6 DEF Warianty

(* A fork() uses up the measure: the child has less to do than it counted  *)
(* for.                                                                    *)
LEMMA UbywaFork == ASSUME Typy, Typy', NEW c \in Potomek, Fork(c) PROVE ProcesyUbywa
<1> DEFINE s == reszta["m"]
           t == Potomne[podpunkt]
<1>1. /\ reszta \in [Proces -> Seq(Wywolania)] /\ podpunkt \in DOMAIN Macierzyste
      /\ c \in Proces /\ "m" \in Proces /\ c # "m"
  BY Procesow DEF Typy, ProcesyOK
<1>2. reszta' = [reszta EXCEPT !["m"] = Tail(s), ![c] = t] /\ s # <<>>
  BY DEF Fork, Dziecko, Biegnie, Zywy
<1>3. s \in Seq(Wywolania)
  BY <1>1
<1>0. Len(t) \in 0..3
  BY <1>1, Krotkie
<1> HIDE DEF s, t
<1>4. Len(Tail(s)) = Len(s) - 1 /\ Len(s) \in Nat
  BY <1>2, <1>3, HeadTailProperties
<1>5. \A q \in Proces : reszta'[q] = IF q = c THEN t ELSE IF q = "m" THEN Tail(s) ELSE reszta[q]
  BY <1>1, <1>2
<1>6. /\ Wywolan("m")' = Wywolan("m") - 1
      /\ Wywolan(c)' \in 0..3
      /\ \A q \in Proces \ {"m", c} : Wywolan(q)' = Wywolan(q)
  BY <1>0, <1>1, <1>4, <1>5 DEF Wywolan, s
<1>7. \A q \in Proces : Wywolan(q) \in Nat
  BY KrokiTyp
<1>8. Kroki' = 5 * Wywolan("m")' + Wywolan("p1")' + Wywolan("p2")' + Wywolan("p3")'
  BY DEF Kroki
<1>9. Kroki' < Kroki
  BY <1>6, <1>7, <1>8, Procesow DEF Kroki
<1>10. Czekania' = Czekania /\ Czekania \in Nat /\ Sekunda \in Nat /\ Opoznienie \in Nat
  BY KrokiTyp, CzasAssumption DEF Fork, czas, Czekania, Czekanie
<1>11. Czekania' < Czekania + (2 * Sekunda + Opoznienie) + 1
  BY <1>10
<1> QED BY <1>9, <1>11, ToUbywa

(* A tick takes time from whoever sleeps or is kept back, and is made only *)
(* when there is somebody to take it from.                                 *)
LEMMA UbywaTyka == ASSUME Typy, Typy', Tyka PROVE ProcesyUbywa
<1>1. Uplywa(Gotowe) /\ reszta' = reszta
  BY DEF Tyka
<1>2. sen \in [Proces -> Nat] /\ luz \in [Proces -> 0..Opoznienie] /\ Opoznienie \in Nat
  BY CzasAssumption DEF Typy, ProcesyOK, CzasOK
<1>3. \A p \in Gotowe : p \in Proces /\ sen[p] = 0
  BY DEF Gotowe
<1>4. ASSUME NEW p \in Proces
      PROVE  /\ Czekanie(p)' <= Czekanie(p)
             /\ p \in Gotowe \/ sen[p] > 0 => Czekanie(p)' < Czekanie(p)
  <2>1. sen[p] \in Nat /\ luz[p] \in 0..Opoznienie
    BY <1>2
  <2>2. /\ sen'[p] = IF sen[p] > 0 THEN sen[p] - 1 ELSE 0
        /\ luz'[p] = IF p \in Gotowe THEN luz[p] - 1 ELSE luz[p]
        /\ p \in Gotowe => luz[p] > 0
    BY <1>1 DEF Uplywa
  <2>3. Czekanie(p)' = sen'[p] + luz'[p] /\ Czekanie(p) = sen[p] + luz[p]
    BY DEF Czekanie
  <2> QED BY <1>2, <1>3, <2>1, <2>2, <2>3
<1>5. PICK p \in Proces : p \in Gotowe \/ sen[p] > 0
  BY <1>1, <1>3 DEF Uplywa
<1>6. \A q \in Proces : Czekanie(q) \in Nat /\ Czekanie(q)' \in Nat
  BY KrokiTyp, KrokiPo
<1>7. Czekania' = Czekanie("m")' + Czekanie("p1")' + Czekanie("p2")' + Czekanie("p3")'
  BY DEF Czekania
<1>8. /\ \A q \in Proces : Czekanie(q)' <= Czekanie(q)
      /\ \E q \in Proces : Czekanie(q)' < Czekanie(q)
  BY <1>4, <1>5
<1>9. Proces = {"m", "p1", "p2", "p3"}
  BY Procesow
<1>10. Czekania' < Czekania
  BY <1>6, <1>7, <1>8, <1>9 DEF Czekania
<1>11. Kroki' = Kroki
  BY <1>1 DEF Kroki, Wywolan
<1> QED BY <1>10, <1>11, ToUbywa

(* Every step uses up the measure.                                         *)
LEMMA UbywaKrok == Typy /\ ProcesyNext => ProcesyUbywa
<1> SUFFICES ASSUME Typy, ProcesyNext PROVE ProcesyUbywa
  OBVIOUS
<1>0. Typy'
  BY TypyKrok
<1>t. \A q \in Proces : Czekanie(q) \in Nat
  BY KrokiTyp
<1>1. ASSUME Tyka PROVE ProcesyUbywa
  BY <1>0, <1>1, UbywaTyka
<1>2. ASSUME NEW c \in Potomek, Fork(c) PROVE ProcesyUbywa
  BY <1>0, <1>2, UbywaFork
<1>3. ASSUME NEW p \in Proces, NEW co, Biegnie(p, co), Przejdz(p) \/ Konczy(p),
             sen' = sen, luz' = luz
      PROVE  ProcesyUbywa
  <2>1. Zywy(p)
    BY <1>3 DEF Biegnie
  <2>2. /\ Wywolan(p)' < Wywolan(p)
        /\ \A q \in Proces \ {p} : Wywolan(q)' = Wywolan(q)
    BY <1>3, <2>1, UbywaPrzejdz, UbywaKonczy DEF Przejdz
  <2>3. \A q \in Proces : Czekanie(q)' <= Czekanie(q)
    <3>1. \A q \in Proces : Czekanie(q)' = Czekanie(q)
      BY <1>3 DEF Czekanie
    <3> QED BY <1>t, <3>1
  <2> QED BY <1>0, <2>1, <2>2, <2>3, MniejWywolan
<1>4. ASSUME NEW p \in Proces, Sleep(p) PROVE ProcesyUbywa
  <2>1. Zywy(p) /\ Przejdz(p)
    BY <1>4 DEF Sleep, Biegnie
  <2>2. /\ Wywolan(p)' < Wywolan(p)
        /\ \A q \in Proces \ {p} : Wywolan(q)' = Wywolan(q)
    BY <2>1, UbywaPrzejdz DEF Przejdz
  <2>3. /\ sen \in [Proces -> Nat] /\ luz \in [Proces -> 0..Opoznienie]
        /\ Opoznienie \in Nat /\ Sekunda \in Nat
    BY CzasAssumption DEF Typy, ProcesyOK, CzasOK
  <2>4. \A q \in Proces : /\ sen'[q] = IF q = p THEN Sekundy(p) * Sekunda ELSE sen[q]
                          /\ luz'[q] = IF q = p THEN Opoznienie ELSE luz[q]
    BY <1>4, <2>3 DEF Sleep, Zasnij
  <2>5. Sekundy(p) * Sekunda <= 2 * Sekunda /\ Sekundy(p) * Sekunda \in Nat
    BY <2>3 DEF Sekundy
  <2>6. Czekanie(p)' <= 2 * Sekunda + Opoznienie
    <3>1. Czekanie(p)' = Sekundy(p) * Sekunda + Opoznienie
      BY <2>4 DEF Czekanie
    <3> QED BY <2>3, <2>5, <3>1
  <2>7. \A q \in Proces \ {p} : Czekanie(q)' <= Czekanie(q)
    <3>1. \A q \in Proces \ {p} : Czekanie(q)' = Czekanie(q)
      BY <2>4 DEF Czekanie
    <3> QED BY <1>t, <3>1
  <2> QED BY <1>0, <2>1, <2>2, <2>6, <2>7, MniejWywolan
<1>5. ASSUME NEW p \in Proces, Krok(p) PROVE ProcesyUbywa
  <2>1. Podaj(p) => ProcesyUbywa
    BY <1>3 DEF Podaj, czas
  <2>2. wypisz_iden(p) => ProcesyUbywa
    BY <1>3 DEF wypisz_iden, czas
  <2>3. setpgid(p) => ProcesyUbywa
    BY <1>3 DEF setpgid, czas
  <2>4. Execlp(p) => ProcesyUbywa
    BY <1>3 DEF Execlp, czas
  <2>5. Wait(p) => ProcesyUbywa
    BY <1>3 DEF Wait, czas
  <2>6. Exit(p) => ProcesyUbywa
    BY <1>3 DEF Exit, czas
  <2> QED BY <1>4, <1>5, <2>1, <2>2, <2>3, <2>4, <2>5, <2>6 DEF Krok
<1>6. ASSUME NEW p \in Proces, NEW co, NEW blad, Nieudany(p, co, blad) PROVE ProcesyUbywa
  BY <1>3, <1>6 DEF Nieudany, czas
<1> QED BY <1>1, <1>2, <1>5, <1>6, Procesow DEF ProcesyNext

(* While somebody runs, somebody can make a call or is asleep and will     *)
(* wake up.                                                                *)
KtosIdzie == (\E p \in Proces : Zywy(p)) => Gotowe # {} \/ \E p \in Proces : sen[p] > 0

(* The processes end, whatever fails: every step uses up a part of         *)
(* finitely much, so none of them runs or sleeps for ever; and while one   *)
(* has not ended, one can go on or is asleep, so no wait() waits for a     *)
(* child that does not end.  That who can go on does is fairness, and      *)
(* beyond these proofs.                                                    *)
THEOREM ProcesyKonczaInv == ProcesySpec => []KtosIdzie /\ [][ProcesyUbywa]_ProcesyVars
<1>1. Typy => KtosIdzie
  <2> SUFFICES ASSUME Typy, NEW p \in Proces, Zywy(p), \A q \in Proces : ~ (sen[q] > 0)
               PROVE  Gotowe # {}
    BY DEF KtosIdzie
  <2>0. sen \in [Proces -> Nat]
    BY DEF Typy, ProcesyOK, CzasOK
  <2>1. ASSUME NEW q \in Proces PROVE sen[q] = 0
    <3>1. sen[q] \in Nat /\ ~ (sen[q] > 0)
      BY <2>0
    <3> QED BY <3>1
  <2>2. CASE \E c \in Potomek : Zywy(c)
    BY <2>1, <2>2, NieGotowe, Procesow
  <2>3. CASE \A c \in Potomek : ~ Zywy(c)
    BY <2>1, <2>3, Procesow DEF Gotowe, WaitMoze
  <2> QED BY <2>2, <2>3
<1>2. Typy /\ [ProcesyNext]_ProcesyVars => [ProcesyUbywa]_ProcesyVars
  BY UbywaKrok
<1> QED BY <1>1, <1>2, TypyInit, TypyKrok, PTL DEF ProcesySpec

=============================================================================
