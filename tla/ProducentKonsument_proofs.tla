---------------------- MODULE ProducentKonsument_proofs ----------------------
(* Theorems about ProducentKonsument, for every NBUF, NELE and input file. *)
EXTENDS ProducentKonsument, TLAPS

-----------------------------------------------------------------------------
(* Arithmetic of the ring.                                                 *)

LEMMA ModMale == \A x \in 0..NBUF-1 : x % NBUF = x
  BY BuforAssumption

LEMMA ModDuze == \A x \in NBUF..2*NBUF-1 : x % NBUF = x - NBUF
  BY BuforAssumption

LEMMA ModZakres == \A x \in 0..NBUF-1 : (x + 1) % NBUF \in 0..NBUF-1
  BY BuforAssumption

(* Fewer than NBUF steps from a slot lead to different slots.              *)
LEMMA ModRozne ==
  ASSUME NEW w \in 0..NBUF-1, NEW i \in 0..NBUF-1, NEW j \in 0..NBUF-1, i # j
  PROVE  (w + i) % NBUF # (w + j) % NBUF
<1>1. CASE w + i < NBUF /\ w + j < NBUF
  BY <1>1, ModMale, BuforAssumption
<1>2. CASE w + i >= NBUF /\ w + j < NBUF
  BY <1>2, ModMale, ModDuze, BuforAssumption
<1>3. CASE w + i < NBUF /\ w + j >= NBUF
  BY <1>3, ModMale, ModDuze, BuforAssumption
<1>4. CASE w + i >= NBUF /\ w + j >= NBUF
  BY <1>4, ModDuze, BuforAssumption
<1> QED BY <1>1, <1>2, <1>3, <1>4, BuforAssumption

(* Moving the first index one slot on is adding one to the distance.       *)
LEMMA ModNastepny ==
  ASSUME NEW w \in 0..NBUF-1, NEW n \in 0..NBUF-1
  PROVE  /\ (((w + n) % NBUF) + 1) % NBUF = (w + (n + 1)) % NBUF
         /\ (((w + 1) % NBUF) + n) % NBUF = (w + (n + 1)) % NBUF
<1>1. (((w + n) % NBUF) + 1) % NBUF = (w + (n + 1)) % NBUF
  <2>1. CASE w + n < NBUF
    BY <2>1, ModMale, BuforAssumption
  <2>2. CASE w + n >= NBUF
    BY <2>2, ModMale, ModDuze, BuforAssumption
  <2> QED BY <2>1, <2>2, BuforAssumption
<1>2. (((w + 1) % NBUF) + n) % NBUF = (w + (n + 1)) % NBUF
  <2>1. CASE w + 1 < NBUF
    BY <2>1, ModMale, BuforAssumption
  <2>2. CASE w + 1 = NBUF
    BY <2>2, ModMale, ModDuze, BuforAssumption
  <2> QED BY <2>1, <2>2, BuforAssumption
<1> QED BY <1>1, <1>2

-----------------------------------------------------------------------------
(* Type correctness.                                                       *)

LEMMA TypeInit == Init => TypeOK
  BY BuforAssumption, ModMale DEF Init, TypeOK, Etykiety, Proces, Towar, Koniec

LEMMA TypeStep == TypeOK /\ [Next]_vars => TypeOK'
<1> SUFFICES ASSUME TypeOK, [Next]_vars PROVE TypeOK'
  OBVIOUS
<1> USE BuforAssumption DEF TypeOK, Etykiety
<1>1. CASE PRead
  <2> DEFINE koniec == IF pozycja + NELE < Len(plik_wej)
                       THEN pozycja + NELE ELSE Len(plik_wej)
  <2>1. koniec \in pozycja..Len(plik_wej) /\ koniec <= pozycja + NELE
    OBVIOUS
  <2>2. /\ SubSeq(plik_wej, pozycja + 1, koniec) \in Seq(Bajt)
        /\ Len(SubSeq(plik_wej, pozycja + 1, koniec)) <= NELE
    <3> HIDE DEF koniec
    <3> QED BY <2>1
  <2>3. porcja' \in Seq(Bajt) /\ Len(porcja') <= NELE /\ pozycja' \in 0..Len(plik_wej)
    BY <1>1, <2>1, <2>2 DEF PRead
  <2> QED BY <1>1, <2>3 DEF PRead, Idz, segment, konsument
<1>2. CASE PWaitEmpty \/ PLock \/ PUnlock \/ PPostFull
  <2>1. PICK s \in {"empty", "full", "mutex"}, w \in {-1, 1},
             skad \in {"wait_empty", "lock", "unlock", "post_full"},
             dokad \in {"lock", "copy", "post_full", "read", "end"} :
               Semafor("producent", skad, s, w, dokad)
    BY <1>2 DEF PWaitEmpty, PLock, PUnlock, PPostFull
  <2>2. sem' \in [{"empty", "full", "mutex"} -> Nat]
    <3>1. sem[s] + w \in Nat /\ sem' = [sem EXCEPT ![s] = sem[s] + w]
      BY <2>1 DEF Semafor, zmien_wart_sem
    <3> QED BY <3>1
  <2>3. pc' \in Etykiety
    <3>1. pc' = [pc EXCEPT !["producent"] = dokad]
      BY <2>1 DEF Semafor, Idz
    <3> QED BY <2>1, <3>1
  <2> QED BY <2>1, <2>2, <2>3 DEF Semafor, Idz, segment, producent, konsument
<1>3. CASE PCopy
  <2>1. Zawartosc(bufor[wstaw]) \in Towar
    BY DEF Zawartosc, Towar, Koniec
  <2> QED BY <1>3, <2>1 DEF PCopy, Idz, producent, konsument
<1>4. CASE PAdvance
  <2>1. wstaw \in 0..NBUF-1 /\ wstaw' = (wstaw + 1) % NBUF
    BY <1>4 DEF PAdvance
  <2>2. wstaw' \in 0..NBUF-1
    <3> HIDE DEF TypeOK
    <3> QED BY <2>1, ModZakres
  <2> QED BY <1>4, <2>2 DEF PAdvance, Idz, producent, konsument
<1>5. CASE PSigint \/ KSigint
  BY <1>5 DEF PSigint, KSigint, segment, producent, konsument, Proces
<1>6. CASE KWaitFull \/ KLock \/ KUnlock \/ KPostEmpty
  <2>1. PICK s \in {"empty", "full", "mutex"}, w \in {-1, 1},
             skad \in {"wait_full", "lock", "unlock", "post_empty"},
             dokad \in {"lock", "copy", "post_empty", "check"} :
               Semafor("konsument", skad, s, w, dokad)
    BY <1>6 DEF KWaitFull, KLock, KUnlock, KPostEmpty
  <2>2. sem' \in [{"empty", "full", "mutex"} -> Nat]
    <3>1. sem[s] + w \in Nat /\ sem' = [sem EXCEPT ![s] = sem[s] + w]
      BY <2>1 DEF Semafor, zmien_wart_sem
    <3> QED BY <3>1
  <2>3. pc' \in Etykiety
    <3>1. pc' = [pc EXCEPT !["konsument"] = dokad]
      BY <2>1 DEF Semafor, Idz
    <3> QED BY <2>1, <3>1
  <2> QED BY <2>1, <2>2, <2>3 DEF Semafor, Idz, segment, producent, konsument
<1>7. CASE KCopy
  BY <1>7 DEF KCopy, Idz, segment, producent, Towar
<1>8. CASE KAdvance
  <2>1. wyjmij \in 0..NBUF-1 /\ wyjmij' = (wyjmij + 1) % NBUF
    BY <1>8 DEF KAdvance
  <2>2. wyjmij' \in 0..NBUF-1
    <3> HIDE DEF TypeOK
    <3> QED BY <2>1, ModZakres
  <2> QED BY <1>8, <2>2 DEF KAdvance, Idz, producent, konsument
<1>9. CASE KKoniec
  BY <1>9 DEF KKoniec, Idz, segment, producent, konsument
<1>10. CASE KZapisz
  <2>1. buf \in Seq(Bajt)
    BY DEF Towar
  <2>2. plik_wyj' \in Seq(Bajt)
    BY <1>10, <2>1 DEF KZapisz
  <2> QED BY <1>10, <2>2 DEF KZapisz, Idz, segment, producent
<1>11. CASE UNCHANGED vars
  BY <1>11 DEF vars, segment, producent, konsument
<1> QED BY <1>1, <1>2, <1>3, <1>4, <1>5, <1>6, <1>7, <1>8, <1>9, <1>10, <1>11
        DEF Next, ProducentStep, KonsumentStep

(* The two programs never leave the ring, whatever the sizes and the file: *)
(* indices stay below NBUF, semaphores never go below zero, and every      *)
(* element in the segment is NELE bytes of the input or of '\0'.           *)
THEOREM TypeCorrect == Spec => []TypeOK
  BY TypeInit, TypeStep, PTL DEF Spec

-----------------------------------------------------------------------------
(* The accounting of slots and of the mutex.                               *)

LEMMA RozliczenieInit == Init => Rozliczenie /\ Odczytany
  BY BuforAssumption, ModMale
  DEF Init, Rozliczenie, Odczytany, Zajete, Wolne, Straz, Jeden, WSekcji

LEMMA ZajeteZakres ==
  ASSUME Niezmiennik
  PROVE  /\ Zajete \in 0..NBUF /\ Wolne \in 0..NBUF
         /\ pc["producent"] \in {"lock", "copy", "advance"} => Zajete \in 0..NBUF-1
         /\ pc["konsument"] \in {"lock", "copy", "advance"} => Zajete \in 1..NBUF
<1>1. Zajete \in Nat /\ Wolne \in Nat
  BY DEF Niezmiennik, TypeOK, Zajete, Wolne, Jeden
<1>2. Zajete + Wolne = NBUF
  BY DEF Niezmiennik, Rozliczenie
<1>3. pc["producent"] \in {"lock", "copy", "advance"} => Wolne >= 1
  BY DEF Niezmiennik, TypeOK, Wolne, Jeden
<1>4. pc["konsument"] \in {"lock", "copy", "advance"} => Zajete >= 1
  BY DEF Niezmiennik, TypeOK, Zajete, Jeden
<1> QED BY <1>1, <1>2, <1>3, <1>4, BuforAssumption

(* Only PAdvance and KAdvance change what is filled; nothing but them and  *)
(* the semaphore operations looks at it.                                   *)
LEMMA LicznikiStep ==
  ASSUME TypeOK, [Next]_vars, ~ PAdvance, ~ KAdvance
  PROVE  Zajete' = Zajete /\ Wolne' = Wolne /\ Straz' = Straz
<1> USE DEF TypeOK, Etykiety, Zajete, Wolne, Straz, Jeden, WSekcji, Idz,
            Semafor, zmien_wart_sem
<1>1. CASE PRead
  BY <1>1 DEF PRead
<1>2. CASE PWaitEmpty
  BY <1>2 DEF PWaitEmpty
<1>3. CASE PLock
  BY <1>3 DEF PLock
<1>4. CASE PCopy
  BY <1>4 DEF PCopy
<1>5. CASE PUnlock
  BY <1>5 DEF PUnlock
<1>6. CASE PPostFull
  BY <1>6 DEF PPostFull
<1>7. CASE KWaitFull
  BY <1>7 DEF KWaitFull
<1>8. CASE KLock
  BY <1>8 DEF KLock
<1>9. CASE KCopy
  BY <1>9 DEF KCopy
<1>10. CASE KUnlock
  BY <1>10 DEF KUnlock
<1>11. CASE KPostEmpty
  BY <1>11 DEF KPostEmpty
<1>12. CASE KKoniec \/ KZapisz
  BY <1>12 DEF KKoniec, KZapisz
<1>13. CASE PSigint \/ KSigint \/ UNCHANGED vars
  BY <1>13 DEF PSigint, KSigint, vars
<1> QED BY <1>1, <1>2, <1>3, <1>4, <1>5, <1>6, <1>7, <1>8, <1>9, <1>10,
           <1>11, <1>12, <1>13 DEF Next, ProducentStep, KonsumentStep

(* The indices move only with PAdvance and KAdvance.                       *)
LEMMA IndeksyStep ==
  ASSUME [Next]_vars, ~ PAdvance, ~ KAdvance
  PROVE  wstaw' = wstaw /\ wyjmij' = wyjmij
  BY DEF Next, ProducentStep, KonsumentStep, vars, segment, PRead, PWaitEmpty,
         PLock, PCopy, PUnlock, PPostFull, KWaitFull, KLock, KCopy, KUnlock,
         KPostEmpty, KKoniec, KZapisz, PSigint, KSigint, Semafor

LEMMA RozliczenieStep == Niezmiennik /\ [Next]_vars => Rozliczenie'
<1> SUFFICES ASSUME Niezmiennik, [Next]_vars PROVE Rozliczenie'
  OBVIOUS
<1>1. TypeOK /\ Rozliczenie
  BY DEF Niezmiennik
<1>2. CASE PAdvance
  <2>1. Zajete' = Zajete + 1 /\ Wolne' = Wolne - 1 /\ Straz' = Straz
    BY <1>1, <1>2 DEF PAdvance, Idz, TypeOK, Etykiety, Zajete, Wolne, Straz,
                      Jeden, WSekcji
  <2>2. Zajete \in 0..NBUF-1 /\ Wolne \in 0..NBUF
    BY <1>2, ZajeteZakres DEF PAdvance, Idz
  <2>3. wstaw' = (wyjmij + (Zajete + 1)) % NBUF /\ wyjmij' = wyjmij
    BY <1>1, <1>2, <2>2, ModNastepny DEF PAdvance, Rozliczenie, TypeOK
  <2> QED BY <1>1, <2>1, <2>2, <2>3, BuforAssumption DEF Rozliczenie
<1>3. CASE KAdvance
  <2>1. Zajete' = Zajete - 1 /\ Wolne' = Wolne + 1 /\ Straz' = Straz
    BY <1>1, <1>3 DEF KAdvance, Idz, TypeOK, Etykiety, Zajete, Wolne, Straz,
                      Jeden, WSekcji
  <2>2. Zajete \in 1..NBUF /\ Wolne \in 0..NBUF /\ Zajete - 1 \in 0..NBUF-1
    BY <1>3, ZajeteZakres, BuforAssumption DEF KAdvance, Idz
  <2>3. (wyjmij' + (Zajete - 1)) % NBUF = (wyjmij + ((Zajete - 1) + 1)) % NBUF
    BY <1>1, <1>3, <2>2, ModNastepny DEF KAdvance, TypeOK
  <2>4. (Zajete - 1) + 1 = Zajete
    BY <2>2
  <2>5. wstaw' = (wyjmij' + (Zajete - 1)) % NBUF
    BY <1>1, <1>3, <2>3, <2>4 DEF KAdvance, Rozliczenie
  <2> QED BY <1>1, <2>1, <2>2, <2>5, BuforAssumption DEF Rozliczenie
<1>4. CASE ~ PAdvance /\ ~ KAdvance
  BY <1>1, <1>4, LicznikiStep, IndeksyStep DEF Rozliczenie
<1> QED BY <1>2, <1>3, <1>4

LEMMA OdczytanyStep == Niezmiennik /\ [Next]_vars => Odczytany'
<1> SUFFICES ASSUME Niezmiennik, [Next]_vars PROVE Odczytany'
  OBVIOUS
<1> USE DEF Niezmiennik, TypeOK, Odczytany, Etykiety
<1>1. CASE PCopy
  \* Both processes would be in the section.
  BY <1>1 DEF PCopy, Idz, Rozliczenie, Straz, Jeden, WSekcji
<1>2. CASE PRead \/ PAdvance \/ PSigint \/ KSigint \/ KKoniec \/ KZapisz
  BY <1>2 DEF PRead, PAdvance, PSigint, KSigint, KKoniec, KZapisz, Idz,
              segment, konsument
<1>3. CASE PWaitEmpty \/ PLock \/ PUnlock \/ PPostFull
  BY <1>3 DEF PWaitEmpty, PLock, PUnlock, PPostFull, Semafor, Idz,
              segment, konsument
<1>4. CASE KWaitFull \/ KLock \/ KUnlock \/ KPostEmpty
  BY <1>4 DEF KWaitFull, KLock, KUnlock, KPostEmpty, Semafor, Idz,
              segment, konsument
<1>5. CASE KCopy
  BY <1>5 DEF KCopy, Idz, segment
<1>6. CASE KAdvance
  BY <1>6 DEF KAdvance, Idz
<1>7. CASE UNCHANGED vars
  BY <1>7 DEF vars, segment, konsument
<1> QED BY <1>1, <1>2, <1>3, <1>4, <1>5, <1>6, <1>7
        DEF Next, ProducentStep, KonsumentStep

(* The conjunction of type correctness, the accounting of the semaphores   *)
(* and the stability of the slot being read is an inductive invariant.     *)
THEOREM NiezmiennikInv == Spec => []Niezmiennik
<1>1. Init => Niezmiennik
  BY TypeInit, RozliczenieInit DEF Niezmiennik
<1>2. Niezmiennik /\ [Next]_vars => Niezmiennik'
  BY TypeStep, RozliczenieStep, OdczytanyStep DEF Niezmiennik
<1> QED BY <1>1, <1>2, PTL DEF Spec

(* Every slot and the mutex are accounted for by the three semaphores and  *)
(* the positions of the two programs, whoever is killed by SIGINT where.   *)
THEOREM RozliczenieInv == Spec => []Rozliczenie
<1>1. Niezmiennik => Rozliczenie
  BY DEF Niezmiennik
<1> QED BY <1>1, NiezmiennikInv, PTL

(* Only one of producent.c and konsument.c is between its sem_wait and its *)
(* sem_post on /sem_mutex.                                                 *)
THEOREM WykluczenieInv == Spec => []WzajemneWykluczenie
<1>1. Niezmiennik => WzajemneWykluczenie
  BY DEF Niezmiennik, TypeOK, Rozliczenie, Straz, WzajemneWykluczenie,
         Jeden, WSekcji
<1> QED BY <1>1, NiezmiennikInv, PTL

(* The two programs are never both asleep in sem_wait.                     *)
THEOREM BezZakleszczeniaInv == Spec => []BezZakleszczenia
<1>1. Niezmiennik => BezZakleszczenia
  BY BuforAssumption
  DEF Niezmiennik, TypeOK, Rozliczenie, BezZakleszczenia, Zablokowany, Czeka,
      Zajete, Wolne, Straz, Jeden, WSekcji, Etykiety
<1> QED BY <1>1, NiezmiennikInv, PTL

-----------------------------------------------------------------------------
(* The ring implements the bounded queue of KolejkaOgraniczona.            *)

LEMMA KolejkaTyp ==
  ASSUME TypeOK, Zajete \in 0..NBUF
  PROVE  /\ Kolejka \in Seq(Towar) /\ Len(Kolejka) = Zajete
         /\ \A i \in 1..Zajete : Kolejka[i] = bufor[(wyjmij + i - 1) % NBUF]
<1>1. \A i \in 1..Zajete : (wyjmij + i - 1) % NBUF \in 0..NBUF-1
  <2>1. wyjmij \in 0..NBUF-1
    BY DEF TypeOK
  <2> QED BY <2>1, BuforAssumption
<1>2. bufor \in [0..NBUF-1 -> Towar]
  BY DEF TypeOK
<1> QED BY <1>1, <1>2 DEF Kolejka

LEMMA KolejkaInit == Init => K!Init
<1> SUFFICES ASSUME Init PROVE K!Init
  OBVIOUS
<1>1. Zajete = 0
  BY DEF Init, Zajete, Jeden
<1>2. Kolejka = <<>>
  BY <1>1 DEF Kolejka
<1> QED BY <1>2, TypeInit DEF K!Init, TypeOK

(* A slot outside the filled ones may be written: the queue is the same.   *)
LEMMA PCopyStutter == Niezmiennik /\ PCopy => Kolejka' = Kolejka
<1> SUFFICES ASSUME Niezmiennik, PCopy PROVE Kolejka' = Kolejka
  OBVIOUS
<1>1. Zajete \in 0..NBUF-1 /\ wyjmij \in 0..NBUF-1
      /\ wstaw = (wyjmij + Zajete) % NBUF
  BY ZajeteZakres DEF PCopy, Idz, Niezmiennik, TypeOK, Rozliczenie
<1>2. Zajete' = Zajete /\ wyjmij' = wyjmij
  BY DEF PCopy, Idz, Niezmiennik, TypeOK, Etykiety, Zajete, Jeden
<1>3. bufor \in [0..NBUF-1 -> Towar]
      /\ bufor' = [bufor EXCEPT ![wstaw] = Zawartosc(bufor[wstaw])]
  BY DEF PCopy, Niezmiennik, TypeOK
<1>4. ASSUME NEW i \in 1..Zajete
      PROVE  bufor'[(wyjmij + i - 1) % NBUF] = bufor[(wyjmij + i - 1) % NBUF]
  <2>1. i - 1 \in 0..NBUF-1 /\ i - 1 # Zajete /\ wyjmij + i - 1 = wyjmij + (i - 1)
    BY <1>1, BuforAssumption
  <2>2. (wyjmij + (i - 1)) % NBUF # (wyjmij + Zajete) % NBUF
    BY <1>1, <2>1, ModRozne
  <2>3. (wyjmij + i - 1) % NBUF # wstaw
    BY <1>1, <2>1, <2>2
  <2> QED BY <1>3, <2>3
<1> QED BY <1>2, <1>4 DEF Kolejka

(* PAdvance publishes the slot it has filled: Put.                         *)
LEMMA PAdvancePut == Niezmiennik /\ PAdvance => K!Next
<1> SUFFICES ASSUME Niezmiennik, PAdvance PROVE K!Next
  OBVIOUS
<1>1. TypeOK /\ Zajete \in 0..NBUF-1 /\ Zajete \in 0..NBUF
      /\ wyjmij \in 0..NBUF-1 /\ wstaw \in 0..NBUF-1
      /\ wstaw = (wyjmij + Zajete) % NBUF
  BY ZajeteZakres DEF PAdvance, Idz, Niezmiennik, TypeOK, Rozliczenie
<1>2. Zajete' = Zajete + 1 /\ wyjmij' = wyjmij /\ bufor' = bufor /\ buf' = buf
  BY DEF PAdvance, Idz, Niezmiennik, TypeOK, Etykiety, Zajete, Jeden, konsument
<1>3. bufor[wstaw] \in Towar
  BY <1>1 DEF TypeOK
<1>4. /\ Kolejka \in Seq(Towar) /\ Len(Kolejka) = Zajete
      /\ \A i \in 1..Zajete : Kolejka[i] = bufor[(wyjmij + i - 1) % NBUF]
  BY <1>1, KolejkaTyp
<1>5. Kolejka' = [i \in 1..Zajete + 1 |-> bufor[(wyjmij + i - 1) % NBUF]]
  BY <1>2 DEF Kolejka
<1>6. wyjmij + (Zajete + 1) - 1 = wyjmij + Zajete
  BY <1>1
<1>7. Kolejka' = Append(Kolejka, bufor[wstaw])
  <2> HIDE DEF Kolejka, Zajete
  <2>1. Append(Kolejka, bufor[wstaw])
        = [i \in 1..Zajete + 1 |-> IF i <= Zajete THEN Kolejka[i] ELSE bufor[wstaw]]
    BY <1>3, <1>4
  <2>2. ASSUME NEW i \in 1..Zajete + 1
        PROVE  bufor[(wyjmij + i - 1) % NBUF]
               = IF i <= Zajete THEN Kolejka[i] ELSE bufor[wstaw]
    <3>1. CASE i \in 1..Zajete
      BY <1>1, <1>4, <3>1
    <3>2. CASE i = Zajete + 1
      BY <1>1, <1>6, <3>2
    <3> QED BY <1>1, <3>1, <3>2
  <2> QED BY <1>5, <2>1, <2>2
<1>8. Len(Kolejka) < NBUF
  BY <1>1, <1>4, BuforAssumption
<1>9. K!Put(bufor[wstaw])
  BY <1>2, <1>7, <1>8 DEF K!Put
<1> QED BY <1>3, <1>9 DEF K!Next

(* KCopy reads the head: Peek.                                             *)
LEMMA KCopyPeek == Niezmiennik /\ KCopy => K!Next
<1> SUFFICES ASSUME Niezmiennik, KCopy PROVE K!Next
  OBVIOUS
<1>1. TypeOK /\ Zajete \in 1..NBUF /\ Zajete \in 0..NBUF /\ wyjmij \in 0..NBUF-1
  BY ZajeteZakres DEF KCopy, Idz, Niezmiennik, TypeOK
<1>2. Zajete' = Zajete /\ wyjmij' = wyjmij /\ bufor' = bufor
  BY DEF KCopy, Idz, Niezmiennik, TypeOK, Etykiety, Zajete, Jeden, segment
<1>3. Kolejka' = Kolejka
  BY <1>2 DEF Kolejka
<1>4. Kolejka \in Seq(Towar) /\ Len(Kolejka) = Zajete
      /\ Kolejka[1] = bufor[(wyjmij + 1 - 1) % NBUF]
  BY <1>1, KolejkaTyp
<1>5. wyjmij + 1 - 1 = wyjmij /\ wyjmij % NBUF = wyjmij
  BY <1>1, ModMale
<1>6. Kolejka # <<>> /\ Head(Kolejka) = bufor[wyjmij]
  <2> HIDE DEF Kolejka, Zajete
  <2> QED BY <1>1, <1>4, <1>5
<1>7. K!Peek
  BY <1>3, <1>6 DEF KCopy, K!Peek
<1> QED BY <1>7 DEF K!Next

LEMMA Ogon ==
  ASSUME NEW S, NEW s \in Seq(S), NEW n \in Nat, Len(s) = n, s # <<>>
  PROVE  Tail(s) = [i \in 1..(n - 1) |-> s[i + 1]]
<1> DEFINE t == [i \in 1..(n - 1) |-> s[i + 1]]
<1>1. Tail(s) \in Seq(S) /\ Len(Tail(s)) = n - 1
  OBVIOUS
<1>2. \A i \in 1..n-1 : Tail(s)[i] = s[i + 1] /\ t[i] = s[i + 1]
  OBVIOUS
<1>3. n - 1 \in Nat
  OBVIOUS
<1>4. t \in Seq(S) /\ Len(t) = n - 1
  BY <1>3
<1> HIDE DEF t
<1>5. Tail(s) = t
  BY <1>1, <1>2, <1>4
<1> QED BY <1>5 DEF t

(* KAdvance gives up the slot it has read: Drop.                           *)
LEMMA KAdvanceDrop == Niezmiennik /\ KAdvance => K!Next
<1> SUFFICES ASSUME Niezmiennik, KAdvance PROVE K!Next
  OBVIOUS
<1>1. TypeOK /\ Zajete \in 1..NBUF /\ Zajete \in 0..NBUF /\ wyjmij \in 0..NBUF-1
  BY ZajeteZakres DEF KAdvance, Idz, Niezmiennik, TypeOK
<1>2. Zajete' = Zajete - 1 /\ wyjmij' = (wyjmij + 1) % NBUF /\ bufor' = bufor
      /\ buf' = buf
  BY DEF KAdvance, Idz, Niezmiennik, TypeOK, Etykiety, Zajete, Jeden, konsument
<1>3. buf = bufor[wyjmij]
  BY DEF KAdvance, Idz, Niezmiennik, Odczytany
<1>4. /\ Kolejka \in Seq(Towar) /\ Len(Kolejka) = Zajete
      /\ \A i \in 1..Zajete : Kolejka[i] = bufor[(wyjmij + i - 1) % NBUF]
  BY <1>1, KolejkaTyp
<1>5. Kolejka' = [i \in 1..Zajete - 1 |->
                    bufor[(((wyjmij + 1) % NBUF) + i - 1) % NBUF]]
  BY <1>2 DEF Kolejka
<1>6. wyjmij + 1 - 1 = wyjmij /\ wyjmij % NBUF = wyjmij
  BY <1>1, ModMale
<1> HIDE DEF Kolejka, Zajete
<1>7. Kolejka # <<>> /\ Head(Kolejka) = buf
  BY <1>1, <1>3, <1>4, <1>6
<1>8. Kolejka' = Tail(Kolejka)
  <2>1. Tail(Kolejka) = [i \in 1..Zajete - 1 |-> Kolejka[i + 1]]
    BY <1>1, <1>4, <1>7, Ogon
  <2>2. ASSUME NEW i \in 1..Zajete - 1
        PROVE  bufor[(((wyjmij + 1) % NBUF) + i - 1) % NBUF] = Kolejka[i + 1]
    <3>1. i - 1 \in 0..NBUF-1 /\ i + 1 \in 1..Zajete /\ (i - 1) + 1 = i
      BY <1>1, BuforAssumption
    <3>2. (((wyjmij + 1) % NBUF) + (i - 1)) % NBUF = (wyjmij + i) % NBUF
      BY <1>1, <3>1, ModNastepny
    <3>3. wyjmij + (i + 1) - 1 = wyjmij + i
      BY <1>1
    <3>4. (wyjmij + 1) % NBUF \in 0..NBUF-1
      BY <1>1, ModZakres
    <3>5. ((wyjmij + 1) % NBUF) + i - 1 = ((wyjmij + 1) % NBUF) + (i - 1)
      BY <3>4
    <3> QED BY <1>4, <3>1, <3>2, <3>3, <3>5
  <2> QED BY <1>5, <2>1, <2>2
<1>9. K!Drop
  BY <1>2, <1>7, <1>8 DEF K!Drop
<1> QED BY <1>9 DEF K!Next

LEMMA KolejkaStep == Niezmiennik /\ [Next]_vars => [K!Next]_(K!abstrakcyjne)
<1> SUFFICES ASSUME Niezmiennik, [Next]_vars
             PROVE  K!Next \/ (Kolejka' = Kolejka /\ buf' = buf)
  BY DEF K!abstrakcyjne
<1>1. CASE PAdvance
  BY <1>1, PAdvancePut
<1>2. CASE KCopy
  BY <1>2, KCopyPeek
<1>3. CASE KAdvance
  BY <1>3, KAdvanceDrop
<1>4. CASE PCopy
  BY <1>4, PCopyStutter DEF PCopy, konsument
<1>5. CASE ~ PAdvance /\ ~ KAdvance /\ ~ KCopy /\ ~ PCopy
  <2>1. Zajete' = Zajete /\ wyjmij' = wyjmij
    BY <1>5, LicznikiStep, IndeksyStep DEF Niezmiennik
  <2>2. bufor' = bufor /\ buf' = buf
    BY <1>5 DEF Next, ProducentStep, KonsumentStep, vars, segment, konsument,
                PRead, PWaitEmpty, PLock, PUnlock, PPostFull, KWaitFull, KLock,
                KUnlock, KPostEmpty, KKoniec, KZapisz, PSigint, KSigint, Semafor
  <2> QED BY <2>1, <2>2 DEF Kolejka
<1> QED BY <1>1, <1>2, <1>3, <1>4, <1>5

(* The ring, the two indices and the three semaphores of Zad_7 implement a *)
(* bounded first-in first-out queue: an element is put when wstaw moves,   *)
(* dropped when wyjmij moves, and what is dropped is what konsument.c has  *)
(* copied.  SIGINT at any point does not change that.                      *)
THEOREM KolejkaRefinement == Spec => KolejkaFifo
<1>1. Init => K!Init
  BY KolejkaInit
<1>2. Niezmiennik /\ [Next]_vars => [K!Next]_(K!abstrakcyjne)
  BY KolejkaStep
<1> QED BY <1>1, <1>2, NiezmiennikInv, PTL DEF Spec, KolejkaFifo, K!Spec

-----------------------------------------------------------------------------
(* The output repeats the input.  The invariant says of every element on   *)
(* its way (in the producer's porcja, in a filled slot, in the consumer's  *)
(* buf) which bytes of the input file it stands for.                       *)

\* The consumer has given up its slot and not written the element yet.
Trzymany == pc["konsument"] \in {"unlock", "post_empty", "check", "end"}
\* Bytes of the output file, the element in buf included.
Wydane   == Len(plik_wyj) + NELE * Jeden(Trzymany)
\* Where in the input the element the producer puts next begins.
Koncowka == Wydane + NELE * Zajete

\* Offset n, or the end of the input file if it comes first.
Do(n) == IF n < Len(plik_wej) THEN n ELSE Len(plik_wej)

\* Element t is what follows the first n bytes of the input, as far as it goes;
\* the one put when there is nothing left begins with '\0'.
Zgodny(t, n) == /\ \A j \in 1..NELE : n + j <= Len(plik_wej) => t[j] = plik_wej[n + j]
                /\ n >= Len(plik_wej) => t[1] = NUL

\* The producer has an element in porcja that is not in the queue yet.
WReku == pc["producent"] \in {"wait_empty", "lock", "copy", "advance"}

SlotyZgodne  == \A i \in 0..Zajete-1 :
                  Zgodny(bufor[(wyjmij + i) % NBUF], Wydane + NELE * i)
BufZgodny    == Trzymany => Zgodny(buf, Len(plik_wyj))
NowyZgodny   == pc["producent"] = "advance" => Zgodny(bufor[wstaw], Koncowka)
PorcjaZgodna == IF WReku
                THEN /\ pozycja = Do(Koncowka + NELE)
                     /\ porcja = SubSeq(plik_wej, Do(Koncowka) + 1, pozycja)
                ELSE pozycja = Do(Koncowka)

Miejsca == SlotyZgodne /\ BufZgodny /\ NowyZgodny /\ PorcjaZgodna

LEMMA Iloczyn ==
  /\ NELE * 0 = 0 /\ NELE * 1 = NELE
  /\ \A n \in Nat : NELE * n \in Nat /\ NELE * (n + 1) = NELE * n + NELE
  BY BuforAssumption

LEMMA MiejscaInit == Init => Miejsca /\ WyjscieZgodne
<1> SUFFICES ASSUME Init PROVE Miejsca /\ WyjscieZgodne
  OBVIOUS
<1>1. /\ Zajete = 0 /\ ~ Trzymany /\ ~ WReku /\ pc["producent"] = "read"
      /\ plik_wyj = <<>> /\ pozycja = 0 /\ plik_wej \in Seq(Bajt)
  BY BuforAssumption DEF Init, Zajete, Jeden, Trzymany, WReku
<1>2. Wydane = 0 /\ Koncowka = 0
  <2>1. Jeden(Trzymany) = 0 /\ Len(plik_wyj) = 0
    BY <1>1 DEF Jeden
  <2>2. NELE * 0 = 0
    BY Iloczyn
  <2>3. Wydane = 0
    BY <2>1, <2>2 DEF Wydane
  <2> QED BY <1>1, <2>2, <2>3 DEF Koncowka
<1>3. Do(0) = 0
  BY <1>1 DEF Do
<1> QED BY <1>1, <1>2, <1>3 DEF Miejsca, SlotyZgodne, BufZgodny, NowyZgodny,
           PorcjaZgodna, WyjscieZgodne, ZgodneDo

LEMMA MiejscaTyp ==
  ASSUME Niezmiennik
  PROVE  /\ Zajete \in 0..NBUF /\ Wydane \in Nat /\ Koncowka \in Nat
         /\ Len(plik_wej) \in Nat /\ Len(plik_wyj) \in Nat
         /\ wyjmij \in 0..NBUF-1 /\ wstaw \in 0..NBUF-1
         /\ wstaw = (wyjmij + Zajete) % NBUF
         /\ Wydane = Len(plik_wyj) + (IF Trzymany THEN NELE ELSE 0)
<1>1. /\ Len(plik_wej) \in Nat /\ Len(plik_wyj) \in Nat
      /\ wyjmij \in 0..NBUF-1 /\ wstaw \in 0..NBUF-1
      /\ wstaw = (wyjmij + Zajete) % NBUF
  BY DEF Niezmiennik, TypeOK, Rozliczenie
<1>2. Zajete \in 0..NBUF
  BY ZajeteZakres
<1>3. Wydane = Len(plik_wyj) + (IF Trzymany THEN NELE ELSE 0)
  BY Iloczyn DEF Wydane, Jeden
<1>4. Wydane \in Nat
  BY <1>1, <1>3, BuforAssumption
<1>5. NELE * Zajete \in Nat
  <2>1. Zajete \in Nat
    BY <1>2, BuforAssumption
  <2> QED BY <2>1, Iloczyn
<1>6. Koncowka \in Nat
  BY <1>4, <1>5 DEF Koncowka
<1> QED BY <1>1, <1>2, <1>3, <1>4, <1>6

(* Steps that move no byte and no index leave the correspondence alone.    *)
LEMMA MiejscaRamka ==
  ASSUME Niezmiennik, Miejsca, [Next]_vars, ~ PRead, ~ PCopy, ~ PAdvance,
         ~ KCopy, ~ KAdvance, ~ KZapisz
  PROVE  Miejsca'
<1>1. Zajete' = Zajete /\ wyjmij' = wyjmij /\ wstaw' = wstaw
  BY LicznikiStep, IndeksyStep DEF Niezmiennik
<1>2. UNCHANGED <<bufor, buf, plik_wyj, plik_wej, pozycja, porcja>>
  BY DEF Next, ProducentStep, KonsumentStep, vars, segment, producent, konsument,
         PWaitEmpty, PLock, PUnlock, PPostFull, KWaitFull, KLock, KUnlock,
         KPostEmpty, KKoniec, PSigint, KSigint, Semafor, Idz
<1>3. /\ Trzymany' = Trzymany /\ WReku' = WReku
      /\ (pc["producent"] = "advance")' = (pc["producent"] = "advance")
  BY DEF Next, ProducentStep, KonsumentStep, vars, PWaitEmpty, PLock, PUnlock,
         PPostFull, KWaitFull, KLock, KUnlock, KPostEmpty, KKoniec, PSigint,
         KSigint, Semafor, Idz, Trzymany, WReku, Niezmiennik, TypeOK, Etykiety
<1>4. Wydane' = Wydane /\ Koncowka' = Koncowka
  BY <1>1, <1>2, <1>3 DEF Wydane, Koncowka, Jeden
<1> QED BY <1>1, <1>2, <1>3, <1>4 DEF Miejsca, SlotyZgodne, BufZgodny,
           NowyZgodny, PorcjaZgodna, Zgodny, Do

(* PRead takes up the bytes the last filled slot ended before.             *)
LEMMA MiejscaRead == Niezmiennik /\ Miejsca /\ PRead => Miejsca'
<1> SUFFICES ASSUME Niezmiennik, Miejsca, PRead PROVE Miejsca'
  OBVIOUS
<1>1. /\ ~ WReku /\ WReku' /\ Trzymany' = Trzymany /\ pc'["producent"] # "advance"
      /\ UNCHANGED <<bufor, wyjmij, wstaw, buf, plik_wyj, plik_wej>>
  BY DEF PRead, Idz, WReku, Trzymany, segment, konsument, Niezmiennik, TypeOK,
         Etykiety
<1>2. Zajete' = Zajete
  BY DEF PRead, Idz, Zajete, Jeden, Niezmiennik, TypeOK, Etykiety
<1>3. Wydane' = Wydane /\ Koncowka' = Koncowka
  BY <1>1, <1>2 DEF Wydane, Koncowka
<1>4. PorcjaZgodna'
  <2>1. pozycja = Do(Koncowka)
    BY <1>1 DEF Miejsca, PorcjaZgodna
  <2>2. pozycja' = Do(Koncowka + NELE)
    BY <2>1, MiejscaTyp, BuforAssumption DEF PRead, Do
  <2>3. porcja' = SubSeq(plik_wej, pozycja + 1, pozycja')
    BY DEF PRead
  <2> QED BY <1>1, <1>3, <2>1, <2>2, <2>3 DEF PorcjaZgodna, Do
<1> QED BY <1>1, <1>2, <1>3, <1>4 DEF Miejsca, SlotyZgodne, BufZgodny,
           NowyZgodny, Zgodny

(* PCopy writes the next element to the slot behind the filled ones: what  *)
(* an earlier element left in it shows only past the end of the input.     *)
LEMMA MiejscaCopy == Niezmiennik /\ Miejsca /\ PCopy => Miejsca'
<1> SUFFICES ASSUME Niezmiennik, Miejsca, PCopy PROVE Miejsca'
  OBVIOUS
<1>1. /\ WReku /\ WReku' /\ Trzymany' = Trzymany
      /\ UNCHANGED <<wyjmij, wstaw, buf, plik_wyj, plik_wej, pozycja, porcja>>
  BY DEF PCopy, Idz, WReku, Trzymany, producent, konsument, Niezmiennik, TypeOK,
         Etykiety
<1>2. Zajete' = Zajete
  BY DEF PCopy, Idz, Zajete, Jeden, Niezmiennik, TypeOK, Etykiety
<1>3. Wydane' = Wydane /\ Koncowka' = Koncowka
  BY <1>1, <1>2 DEF Wydane, Koncowka
<1>4. Zajete \in 0..NBUF-1
  BY ZajeteZakres DEF PCopy, Idz
<1>5. bufor \in [0..NBUF-1 -> Towar] /\ bufor' = [bufor EXCEPT ![wstaw] = Zawartosc(@)]
  BY DEF PCopy, Niezmiennik, TypeOK
<1>6. SlotyZgodne'
  <2> SUFFICES ASSUME NEW i \in 0..Zajete-1
               PROVE  Zgodny(bufor[(wyjmij + i) % NBUF], Wydane + NELE * i)'
    BY <1>2 DEF SlotyZgodne
  <2>1. (wyjmij + i) % NBUF # wstaw
    <3>1. i \in 0..NBUF-1 /\ i # Zajete
      BY <1>4, BuforAssumption
    <3> QED BY <1>4, <3>1, ModRozne, MiejscaTyp
  <2>2. bufor'[(wyjmij + i) % NBUF] = bufor[(wyjmij + i) % NBUF]
    <3>1. (wyjmij + i) % NBUF \in 0..NBUF-1
      BY MiejscaTyp, BuforAssumption
    <3> QED BY <1>5, <2>1, <3>1
  <2> QED BY <1>1, <1>3, <2>2 DEF Miejsca, SlotyZgodne, Zgodny
<1>7. NowyZgodny'
  <2>1. bufor'[wstaw] = Zawartosc(bufor[wstaw])
    BY <1>5, MiejscaTyp
  <2>2. ASSUME NEW j \in 1..NELE, Koncowka + j <= Len(plik_wej)
        PROVE  Zawartosc(bufor[wstaw])[j] = plik_wej[Koncowka + j]
    <3>1. Do(Koncowka) = Koncowka /\ pozycja = Do(Koncowka + NELE)
      BY <1>1, <2>2, MiejscaTyp, BuforAssumption DEF Miejsca, PorcjaZgodna, Do
    <3>2. pozycja \in (Koncowka + j)..Len(plik_wej)
      BY <2>2, <3>1, MiejscaTyp, BuforAssumption DEF Do
    <3>3. porcja = SubSeq(plik_wej, Koncowka + 1, pozycja) /\ plik_wej \in Seq(Bajt)
      BY <1>1, <3>1 DEF Miejsca, PorcjaZgodna, Niezmiennik, TypeOK
    <3>4. Len(porcja) = pozycja - Koncowka /\ DOMAIN porcja = 1..(pozycja - Koncowka)
          /\ \A k \in 1..(pozycja - Koncowka) : porcja[k] = plik_wej[Koncowka + k]
      BY <3>2, <3>3, MiejscaTyp
    <3>5. j \in DOMAIN porcja /\ porcja # <<>>
      BY <3>2, <3>4, MiejscaTyp
    <3> QED BY <3>4, <3>5 DEF Zawartosc
  <2>3. Koncowka >= Len(plik_wej) => Zawartosc(bufor[wstaw])[1] = NUL
    <3> SUFFICES ASSUME Koncowka >= Len(plik_wej) PROVE porcja = <<>>
      BY BuforAssumption DEF Zawartosc, Koniec
    <3>1. Do(Koncowka) = Len(plik_wej) /\ pozycja = Len(plik_wej)
      BY <1>1, MiejscaTyp, BuforAssumption DEF Miejsca, PorcjaZgodna, Do
    <3>2. porcja = SubSeq(plik_wej, Len(plik_wej) + 1, Len(plik_wej))
      BY <1>1, <3>1 DEF Miejsca, PorcjaZgodna
    <3> QED BY <3>2, MiejscaTyp
  <2> QED BY <1>1, <1>3, <2>1, <2>2, <2>3 DEF NowyZgodny, Zgodny
<1> QED BY <1>1, <1>2, <1>3, <1>6, <1>7 DEF Miejsca, BufZgodny, PorcjaZgodna,
           Zgodny, Do

(* PAdvance adds the new element to the filled slots.                      *)
LEMMA MiejscaPAdvance == Niezmiennik /\ Miejsca /\ PAdvance => Miejsca'
<1> SUFFICES ASSUME Niezmiennik, Miejsca, PAdvance PROVE Miejsca'
  OBVIOUS
<1>1. /\ WReku /\ ~ WReku' /\ pc["producent"] = "advance"
      /\ pc'["producent"] # "advance" /\ Trzymany' = Trzymany
      /\ UNCHANGED <<bufor, wyjmij, buf, plik_wyj, plik_wej, pozycja, porcja>>
  BY DEF PAdvance, Idz, WReku, Trzymany, producent, konsument, Niezmiennik,
         TypeOK, Etykiety
<1>2. Zajete' = Zajete + 1
  BY DEF PAdvance, Idz, Zajete, Jeden, Niezmiennik, TypeOK, Etykiety
<1>3. Zajete \in 0..NBUF-1 /\ Zajete \in Nat
  <2>1. Zajete \in 0..NBUF-1
    BY <1>1, ZajeteZakres
  <2> QED BY <2>1, BuforAssumption
<1>4. Wydane' = Wydane /\ Koncowka' = Koncowka + NELE
  <2>1. Wydane' = Wydane
    BY <1>1 DEF Wydane
  <2>2. NELE * (Zajete + 1) = NELE * Zajete + NELE /\ NELE * Zajete \in Nat
    BY <1>3, Iloczyn
  <2> QED BY <1>2, <2>1, <2>2, MiejscaTyp, BuforAssumption DEF Koncowka
<1>5. SlotyZgodne'
  <2> SUFFICES ASSUME NEW i \in 0..Zajete
               PROVE  Zgodny(bufor[(wyjmij + i) % NBUF], Wydane + NELE * i)
    BY <1>1, <1>2, <1>3, <1>4 DEF SlotyZgodne, Zgodny
  <2>1. CASE i \in 0..Zajete-1
    BY <2>1 DEF Miejsca, SlotyZgodne
  <2>2. CASE i = Zajete
    BY <1>1, <2>2, MiejscaTyp DEF Miejsca, NowyZgodny, Koncowka
  <2> QED BY <1>3, <2>1, <2>2
<1>6. PorcjaZgodna'
  BY <1>1, <1>4 DEF Miejsca, PorcjaZgodna, Do
<1> QED BY <1>1, <1>5, <1>6 DEF Miejsca, BufZgodny, NowyZgodny, Zgodny

(* KCopy touches nothing that stands for a place in the file.              *)
LEMMA MiejscaKCopy == Niezmiennik /\ Miejsca /\ KCopy => Miejsca'
<1> SUFFICES ASSUME Niezmiennik, Miejsca, KCopy PROVE Miejsca'
  OBVIOUS
<1>1. /\ WReku' = WReku /\ ~ Trzymany /\ ~ Trzymany'
      /\ pc'["producent"] = pc["producent"]
      /\ UNCHANGED <<bufor, wyjmij, wstaw, plik_wyj, plik_wej, pozycja, porcja>>
  BY DEF KCopy, Idz, WReku, Trzymany, segment, producent, Niezmiennik, TypeOK,
         Etykiety
<1>2. Zajete' = Zajete
  BY DEF KCopy, Idz, Zajete, Jeden, Niezmiennik, TypeOK, Etykiety
<1>3. Wydane' = Wydane /\ Koncowka' = Koncowka
  BY <1>1, <1>2 DEF Wydane, Koncowka, Jeden
<1> QED BY <1>1, <1>2, <1>3 DEF Miejsca, SlotyZgodne, BufZgodny, NowyZgodny,
           PorcjaZgodna, Zgodny, Do

(* KAdvance takes the first filled slot into the consumer's hands.         *)
LEMMA MiejscaKAdvance == Niezmiennik /\ Miejsca /\ KAdvance => Miejsca'
<1> SUFFICES ASSUME Niezmiennik, Miejsca, KAdvance PROVE Miejsca'
  OBVIOUS
<1>1. /\ WReku' = WReku /\ ~ Trzymany /\ Trzymany'
      /\ pc'["producent"] = pc["producent"]
      /\ buf = bufor[wyjmij] /\ wyjmij' = (wyjmij + 1) % NBUF
      /\ UNCHANGED <<bufor, wstaw, buf, plik_wyj, plik_wej, pozycja, porcja>>
  BY DEF KAdvance, Idz, WReku, Trzymany, producent, konsument, Niezmiennik,
         TypeOK, Etykiety, Odczytany
<1>2. Zajete' = Zajete - 1
  BY DEF KAdvance, Idz, Zajete, Jeden, Niezmiennik, TypeOK, Etykiety
<1>3. Zajete \in 1..NBUF /\ Zajete - 1 \in Nat
  <2>1. Zajete \in 1..NBUF
    BY ZajeteZakres DEF KAdvance, Idz
  <2> QED BY <2>1, BuforAssumption
<1>4. Wydane = Len(plik_wyj) /\ Wydane' = Wydane + NELE
  BY <1>1, Iloczyn, MiejscaTyp DEF Wydane, Jeden
<1>5. Koncowka' = Koncowka
  <2>1. NELE * ((Zajete - 1) + 1) = NELE * (Zajete - 1) + NELE
        /\ NELE * (Zajete - 1) \in Nat
    BY <1>3, Iloczyn
  <2>2. (Zajete - 1) + 1 = Zajete
    BY <1>3
  <2> QED BY <1>2, <1>4, <2>1, <2>2, MiejscaTyp, BuforAssumption DEF Koncowka
<1>6. SlotyZgodne'
  <2> SUFFICES ASSUME NEW i \in 0..(Zajete-1)-1
               PROVE  Zgodny(bufor[(wyjmij' + i) % NBUF], Wydane' + NELE * i)
    BY <1>1, <1>2 DEF SlotyZgodne, Zgodny
  <2>1. i \in Nat /\ i \in 0..NBUF-1 /\ i + 1 \in 0..Zajete-1
    BY <1>3, BuforAssumption
  <2>2. (wyjmij' + i) % NBUF = (wyjmij + (i + 1)) % NBUF
    BY <1>1, <2>1, MiejscaTyp, ModNastepny
  <2>3. Wydane' + NELE * i = Wydane + NELE * (i + 1)
    <3>1. NELE * (i + 1) = NELE * i + NELE /\ NELE * i \in Nat
      BY <2>1, Iloczyn
    <3> QED BY <1>4, <3>1, MiejscaTyp, BuforAssumption
  <2> QED BY <2>1, <2>2, <2>3 DEF Miejsca, SlotyZgodne
<1>7. BufZgodny'
  <2>1. 0 \in 0..Zajete-1 /\ (wyjmij + 0) % NBUF = wyjmij
    BY <1>3, MiejscaTyp, ModMale
  <2>2. Wydane + NELE * 0 = Len(plik_wyj)
    <3>1. NELE * 0 = 0
      BY Iloczyn
    <3>2. Wydane \in Nat
      BY MiejscaTyp
    <3> QED BY <1>4, <3>1, <3>2
  <2>3. Zgodny(bufor[wyjmij], Len(plik_wyj))
    BY <2>1, <2>2 DEF Miejsca, SlotyZgodne
  <2> QED BY <1>1, <2>3 DEF BufZgodny, Zgodny
<1> QED BY <1>1, <1>5, <1>6, <1>7 DEF Miejsca, NowyZgodny, PorcjaZgodna,
           Zgodny, Do

(* KZapisz appends the element in buf where the output ends.               *)
LEMMA MiejscaKZapisz ==
  Niezmiennik /\ Miejsca /\ WyjscieZgodne /\ KZapisz => Miejsca' /\ WyjscieZgodne'
<1> SUFFICES ASSUME Niezmiennik, Miejsca, WyjscieZgodne, KZapisz
             PROVE  Miejsca' /\ WyjscieZgodne'
  OBVIOUS
<1>1. /\ WReku' = WReku /\ Trzymany /\ ~ Trzymany'
      /\ pc'["producent"] = pc["producent"] /\ plik_wyj' = plik_wyj \o buf
      /\ UNCHANGED <<bufor, wyjmij, wstaw, buf, plik_wej, pozycja, porcja>>
  BY DEF KZapisz, Idz, WReku, Trzymany, segment, producent, Niezmiennik, TypeOK,
         Etykiety
<1>2. Zajete' = Zajete
  BY DEF KZapisz, Idz, Zajete, Jeden, Niezmiennik, TypeOK, Etykiety
<1>3. /\ plik_wyj \in Seq(Bajt) /\ buf \in Seq(Bajt) /\ Len(buf) = NELE
      /\ plik_wej \in Seq(Bajt)
  BY BuforAssumption DEF Niezmiennik, TypeOK, Towar
<1>4. /\ Len(plik_wyj') = Len(plik_wyj) + NELE
      /\ \A i \in 1..Len(plik_wyj') :
           plik_wyj'[i] = IF i <= Len(plik_wyj) THEN plik_wyj[i]
                                                ELSE buf[i - Len(plik_wyj)]
  BY <1>1, <1>3
<1>5. Wydane' = Wydane /\ Koncowka' = Koncowka
  <2>1. Jeden(Trzymany) = 1 /\ Jeden(Trzymany') = 0
    BY <1>1 DEF Jeden
  <2>2. Wydane = Len(plik_wyj) + NELE * 1 /\ Wydane' = Len(plik_wyj') + NELE * 0
    BY <2>1 DEF Wydane, Jeden
  <2>3. Wydane' = Wydane
    BY <1>4, <2>2, Iloczyn, MiejscaTyp, BuforAssumption
  <2> QED BY <1>2, <2>3 DEF Koncowka
<1>6. Miejsca'
  BY <1>1, <1>2, <1>5 DEF Miejsca, SlotyZgodne, BufZgodny, NowyZgodny,
     PorcjaZgodna, Zgodny, Do
<1>7. WyjscieZgodne'
  <2> SUFFICES ASSUME NEW i \in Nat, 1 <= i, i <= Len(plik_wyj'), i <= Len(plik_wej)
               PROVE  plik_wyj'[i] = plik_wej[i]
    <3>1. Len(plik_wyj') \in Nat /\ Len(plik_wej) \in Nat /\ plik_wej' = plik_wej
      BY <1>1, <1>3, <1>4, BuforAssumption
    <3> QED BY <3>1 DEF WyjscieZgodne, ZgodneDo
  <2>1. CASE i <= Len(plik_wyj)
    <3>1. plik_wyj[i] = plik_wej[i]
      BY <2>1, MiejscaTyp DEF WyjscieZgodne, ZgodneDo
    <3> QED BY <1>4, <2>1, <3>1, MiejscaTyp, BuforAssumption
  <2>2. CASE i > Len(plik_wyj)
    <3> DEFINE j == i - Len(plik_wyj)
    <3>1. j \in 1..NELE /\ Len(plik_wyj) + j = i
      BY <1>4, <2>2, MiejscaTyp, BuforAssumption
    <3>2. buf[j] = plik_wej[i]
      <4>1. Zgodny(buf, Len(plik_wyj))
        BY <1>1 DEF Miejsca, BufZgodny
      <4> QED BY <3>1, <4>1 DEF Zgodny
    <3> QED BY <1>4, <2>2, <3>2, MiejscaTyp, BuforAssumption
  <2> QED BY <2>1, <2>2, MiejscaTyp
<1> QED BY <1>6, <1>7

LEMMA WyjscieStep ==
  Niezmiennik /\ Miejsca /\ WyjscieZgodne /\ [Next]_vars => Miejsca' /\ WyjscieZgodne'
<1> SUFFICES ASSUME Niezmiennik, Miejsca, WyjscieZgodne, [Next]_vars
             PROVE  Miejsca' /\ WyjscieZgodne'
  OBVIOUS
<1>1. CASE KZapisz
  BY <1>1, MiejscaKZapisz
<1>2. CASE ~ KZapisz
  <2>1. plik_wyj' = plik_wyj /\ plik_wej' = plik_wej
    BY <1>2 DEF Next, ProducentStep, KonsumentStep, vars, konsument, PRead,
                PWaitEmpty, PLock, PCopy, PAdvance, PUnlock, PPostFull,
                KWaitFull, KLock, KCopy, KAdvance, KUnlock, KPostEmpty, KKoniec,
                PSigint, KSigint, Semafor, Idz
  <2>2. WyjscieZgodne'
    BY <2>1 DEF WyjscieZgodne, ZgodneDo
  <2>3. CASE PRead \/ PCopy \/ PAdvance \/ KCopy \/ KAdvance
    BY <2>2, <2>3, MiejscaRead, MiejscaCopy, MiejscaPAdvance, MiejscaKCopy,
       MiejscaKAdvance
  <2>4. CASE ~ (PRead \/ PCopy \/ PAdvance \/ KCopy \/ KAdvance)
    BY <1>2, <2>2, <2>4, MiejscaRamka
  <2> QED BY <2>3, <2>4
<1> QED BY <1>1, <1>2

(* At every instant of every run, for every ring, element size and input   *)
(* file, whoever is interrupted: what konsument.c has written repeats what *)
(* producent.c was given, byte for byte, as far as both go.                *)
THEOREM WyjscieZgodneInv == Spec => []WyjscieZgodne
<1>1. Init => Miejsca /\ WyjscieZgodne
  BY MiejscaInit
<1>2. Niezmiennik /\ Miejsca /\ WyjscieZgodne /\ [Next]_vars
        => Miejsca' /\ WyjscieZgodne'
  BY WyjscieStep
<1> QED BY <1>1, <1>2, NiezmiennikInv, PTL DEF Spec

-----------------------------------------------------------------------------
(* The whole file, and no more than it takes.                              *)

(* The output grows by whole elements, and konsument.c stops at one that   *)
(* begins with '\0', which it leaves out.                                  *)
Elementy == \E n \in Nat : Len(plik_wyj) = NELE * n
Znak     == pc["konsument"] = "end" => buf[1] = NUL

(* Less than one element of padding: konsument.c:85 writes NELE bytes of   *)
(* the last element too, and of the element after it none.                 *)
Dlugosc == Len(plik_wyj) < Len(plik_wej) + NELE

(* konsument.c ends with the whole text in the output file, unless an      *)
(* element of the text begins with '\0'.                                   *)
CalyTekst == BezZnacznika /\ pc["konsument"] = "end"
               => Len(plik_wyj) >= Len(plik_wej) /\ ZgodneDo(Len(plik_wej))

(* All that is known of the bytes on their way.                            *)
Bajty == Niezmiennik /\ Miejsca /\ WyjscieZgodne
Calosc == Elementy /\ Znak /\ Dlugosc

LEMMA BajtyInv == Spec => []Bajty
<1>1. Init => Miejsca /\ WyjscieZgodne
  BY MiejscaInit
<1>2. Niezmiennik /\ Miejsca /\ WyjscieZgodne /\ [Next]_vars
        => Miejsca' /\ WyjscieZgodne'
  BY WyjscieStep
<1> QED BY <1>1, <1>2, NiezmiennikInv, PTL DEF Spec, Bajty

(* Only KZapisz writes, and nobody changes the input.                      *)
LEMMA PlikiStep ==
  ASSUME [Next]_vars
  PROVE  /\ plik_wej' = plik_wej
         /\ KZapisz \/ plik_wyj' = plik_wyj
  BY DEF Next, ProducentStep, KonsumentStep, vars, konsument, PRead, PWaitEmpty,
         PLock, PCopy, PAdvance, PUnlock, PPostFull, KWaitFull, KLock, KCopy,
         KAdvance, KUnlock, KPostEmpty, KKoniec, KZapisz, PSigint, KSigint,
         Semafor, Idz

LEMMA CaloscInit == Init => Calosc
<1> SUFFICES ASSUME Init PROVE Calosc
  OBVIOUS
<1>1. Len(plik_wyj) = 0 /\ Len(plik_wej) \in Nat /\ pc["konsument"] # "end"
  BY BuforAssumption DEF Init
<1>2. Len(plik_wyj) = NELE * 0 /\ 0 \in Nat
  BY <1>1, Iloczyn
<1> QED BY <1>1, <1>2, BuforAssumption DEF Calosc, Elementy, Znak, Dlugosc

(* The element konsument.c writes begins before the end of the input: the  *)
(* one put after the end begins with '\0' and is not written.              *)
LEMMA CaloscZapisz == Bajty /\ Calosc /\ KZapisz => Calosc'
<1> SUFFICES ASSUME Bajty, Calosc, KZapisz PROVE Calosc'
  OBVIOUS
<1>1. /\ buf[1] # NUL /\ pc["konsument"] = "check" /\ pc'["konsument"] # "end"
      /\ plik_wyj' = plik_wyj \o buf /\ plik_wej' = plik_wej
  BY DEF KZapisz, Idz, Bajty, Niezmiennik, TypeOK, Etykiety
<1>2. Zgodny(buf, Len(plik_wyj))
  BY <1>1 DEF Bajty, Miejsca, BufZgodny, Trzymany
<1>3. /\ plik_wyj \in Seq(Bajt) /\ buf \in Seq(Bajt) /\ Len(buf) = NELE
      /\ Len(plik_wyj) \in Nat /\ Len(plik_wej) \in Nat
  BY BuforAssumption DEF Bajty, Niezmiennik, TypeOK, Towar
<1>4. Len(plik_wyj) < Len(plik_wej)
  BY <1>1, <1>2, <1>3 DEF Zgodny
<1>5. Len(plik_wyj') = Len(plik_wyj) + NELE
  <2>1. Len(plik_wyj \o buf) = Len(plik_wyj) + Len(buf)
    BY <1>3
  <2> QED BY <1>1, <1>3, <2>1
<1>6. Dlugosc'
  BY <1>1, <1>3, <1>4, <1>5, BuforAssumption DEF Dlugosc
<1>7. Elementy'
  <2>1. PICK n \in Nat : Len(plik_wyj) = NELE * n
    BY DEF Calosc, Elementy
  <2>2. Len(plik_wyj') = NELE * (n + 1) /\ n + 1 \in Nat
    BY <1>5, <2>1, Iloczyn
  <2> QED BY <2>2 DEF Elementy
<1> QED BY <1>1, <1>6, <1>7 DEF Calosc, Znak

LEMMA CaloscStep == Bajty /\ Calosc /\ [Next]_vars => Calosc'
<1> SUFFICES ASSUME Bajty, Calosc, [Next]_vars PROVE Calosc'
  OBVIOUS
<1>1. CASE KZapisz
  BY <1>1, CaloscZapisz
<1>2. CASE ~ KZapisz
  <2>1. plik_wyj' = plik_wyj /\ plik_wej' = plik_wej
    BY <1>2, PlikiStep
  <2>2. Elementy' /\ Dlugosc'
    BY <2>1 DEF Calosc, Elementy, Dlugosc
  <2>3. Znak'
    <3> USE DEF Bajty, Niezmiennik, TypeOK, Etykiety, Calosc, Znak, Semafor, Idz
    <3>1. CASE ProducentStep
      BY <3>1 DEF ProducentStep, PRead, PWaitEmpty, PLock, PCopy, PAdvance,
                  PUnlock, PPostFull, konsument
    <3>2. CASE KWaitFull \/ KLock \/ KUnlock \/ KPostEmpty
      BY <3>2 DEF KWaitFull, KLock, KUnlock, KPostEmpty
    <3>3. CASE KCopy \/ KAdvance \/ KKoniec
      BY <3>3 DEF KCopy, KAdvance, KKoniec, konsument
    <3>4. CASE PSigint \/ KSigint \/ UNCHANGED vars
      BY <3>4 DEF PSigint, KSigint, vars, konsument
    <3> QED BY <1>2, <3>1, <3>2, <3>3, <3>4 DEF Next, KonsumentStep
  <2> QED BY <2>2, <2>3 DEF Calosc
<1> QED BY <1>1, <1>2

LEMMA CaloscInv == Spec => []Calosc
  BY CaloscInit, CaloscStep, BajtyInv, PTL DEF Spec

(* konsument.c never writes more than the input and less than one element, *)
(* whatever is in the file and whoever is killed.                          *)
THEOREM DlugoscInv == Spec => []Dlugosc
<1>1. Calosc => Dlugosc
  BY DEF Calosc
<1> QED BY <1>1, CaloscInv, PTL

LEMMA Wielokrotnosc == \A n \in Nat : (NELE * n) % NELE = 0
  BY BuforAssumption

(* When konsument.c leaves its loop by itself the output holds the input,  *)
(* whole: the element it stopped at is the one put after the end, as none  *)
(* of the text begins with '\0'.                                           *)
THEOREM CalyTekstInv == Spec => []CalyTekst
<1>1. Bajty /\ Calosc => CalyTekst
  <2> SUFFICES ASSUME Bajty, Calosc, BezZnacznika, pc["konsument"] = "end"
               PROVE  Len(plik_wyj) >= Len(plik_wej) /\ ZgodneDo(Len(plik_wej))
    BY DEF CalyTekst
  <2>1. /\ Len(plik_wyj) \in Nat /\ Len(plik_wej) \in Nat
        /\ plik_wej \in Seq(Bajt)
    BY DEF Bajty, Niezmiennik, TypeOK
  <2>2. Zgodny(buf, Len(plik_wyj)) /\ buf[1] = NUL
    BY DEF Bajty, Miejsca, BufZgodny, Trzymany, Calosc, Znak
  <2>3. Len(plik_wyj) >= Len(plik_wej)
    <3> SUFFICES ASSUME Len(plik_wyj) < Len(plik_wej) PROVE FALSE
      BY <2>1
    <3>1. plik_wej[Len(plik_wyj) + 1] = NUL
      BY <2>1, <2>2, BuforAssumption DEF Zgodny
    <3>2. PICK n \in Nat : Len(plik_wyj) = NELE * n
      BY DEF Calosc, Elementy
    <3>3. ((Len(plik_wyj) + 1) - 1) % NELE = 0
      <4>1. (Len(plik_wyj) + 1) - 1 = NELE * n
        BY <2>1, <3>2
      <4> QED BY <4>1, Wielokrotnosc
    <3>4. Len(plik_wyj) + 1 \in DOMAIN plik_wej
      BY <2>1
    <3> QED BY <3>1, <3>3, <3>4 DEF BezZnacznika
  <2>4. ZgodneDo(Len(plik_wej))
    BY <2>1, <2>3 DEF Bajty, WyjscieZgodne, ZgodneDo
  <2> QED BY <2>3, <2>4
<1> QED BY <1>1, BajtyInv, CaloscInv, PTL

-----------------------------------------------------------------------------
(* Progress.  The producer puts one element more than the file has, and    *)
(* ends; nobody waits for an element that does not come, or for a slot     *)
(* that nobody will free.                                                  *)

Ostatni  == /\ Len(plik_wej) + NELE <= Koncowka
            /\ Koncowka < Len(plik_wej) + 2 * NELE
Domkniete ==
  CASE pc["producent"] = "end" -> porcja = <<>> /\ Ostatni
    [] pc["producent"] \in {"unlock", "post_full"} ->
         IF porcja = <<>> THEN Ostatni ELSE Koncowka < Len(plik_wej) + NELE
    [] OTHER -> Koncowka < Len(plik_wej) + NELE

(* Every step that is not PAdvance leaves the place of the next element.   *)
LEMMA KoncowkaStep ==
  ASSUME Bajty, [Next]_vars
  PROVE  /\ PAdvance => Koncowka' = Koncowka + NELE /\ Wydane' = Wydane
         /\ KAdvance => Koncowka' = Koncowka /\ Wydane' = Wydane + NELE
         /\ ~ PAdvance /\ ~ KAdvance => Koncowka' = Koncowka /\ Wydane' = Wydane
<1> USE DEF Bajty
<1>1. CASE PAdvance
  <2>1. Trzymany' = Trzymany /\ plik_wyj' = plik_wyj /\ Zajete' = Zajete + 1
    BY <1>1 DEF PAdvance, Idz, Trzymany, konsument, Zajete, Jeden, Niezmiennik,
                TypeOK, Etykiety
  <2>2. Wydane' = Wydane
    BY <2>1 DEF Wydane
  <2>3. NELE * (Zajete + 1) = NELE * Zajete + NELE /\ NELE * Zajete \in Nat
    <3>1. Zajete \in Nat
      BY MiejscaTyp, BuforAssumption
    <3> QED BY <3>1, Iloczyn
  <2>4. Koncowka' = Koncowka + NELE
    BY <2>1, <2>2, <2>3, MiejscaTyp, BuforAssumption DEF Koncowka
  <2>5. ~ KAdvance
    BY <1>1 DEF PAdvance, KAdvance, Idz, Niezmiennik, TypeOK, Etykiety
  <2> QED BY <1>1, <2>2, <2>4, <2>5
<1>2. CASE KAdvance
  <2>1. /\ ~ Trzymany /\ Trzymany' /\ plik_wyj' = plik_wyj /\ Zajete' = Zajete - 1
    BY <1>2 DEF KAdvance, Idz, Trzymany, konsument, Zajete, Jeden, Niezmiennik,
                TypeOK, Etykiety
  <2>2. Wydane = Len(plik_wyj) + NELE * 0 /\ Wydane' = Len(plik_wyj) + NELE * 1
    BY <2>1 DEF Wydane, Jeden
  <2>3. Wydane' = Wydane + NELE
    BY <2>2, Iloczyn, MiejscaTyp, BuforAssumption
  <2>4. NELE * ((Zajete - 1) + 1) = NELE * (Zajete - 1) + NELE
        /\ NELE * (Zajete - 1) \in Nat /\ (Zajete - 1) + 1 = Zajete
    <3>1. Zajete \in 1..NBUF
      BY <1>2, ZajeteZakres DEF KAdvance, Idz
    <3>2. Zajete - 1 \in Nat /\ (Zajete - 1) + 1 = Zajete
      BY <3>1, BuforAssumption
    <3> QED BY <3>2, Iloczyn
  <2>5. Koncowka' = Koncowka
    BY <2>1, <2>3, <2>4, MiejscaTyp, BuforAssumption DEF Koncowka
  <2>6. ~ PAdvance
    BY <1>2 DEF PAdvance, KAdvance, Idz, Niezmiennik, TypeOK, Etykiety
  <2> QED BY <1>2, <2>3, <2>5, <2>6
<1>3. CASE ~ PAdvance /\ ~ KAdvance
  <2>1. Zajete' = Zajete
    BY <1>3, LicznikiStep DEF Niezmiennik
  <2>2. Wydane' = Wydane
    <3>1. CASE KZapisz
      <4>1. Trzymany /\ ~ Trzymany' /\ plik_wyj' = plik_wyj \o buf
        BY <3>1 DEF KZapisz, Idz, Trzymany, Niezmiennik, TypeOK, Etykiety
      <4>2. plik_wyj \in Seq(Bajt) /\ buf \in Seq(Bajt) /\ Len(buf) = NELE
        BY BuforAssumption DEF Niezmiennik, TypeOK, Towar
      <4>3. Len(plik_wyj \o buf) = Len(plik_wyj) + NELE
        BY <4>2
      <4>4. Wydane = Len(plik_wyj) + NELE * 1 /\ Wydane' = Len(plik_wyj') + NELE * 0
        BY <4>1 DEF Wydane, Jeden
      <4> QED BY <4>1, <4>3, <4>4, Iloczyn, MiejscaTyp, BuforAssumption
    <3>2. CASE ~ KZapisz
      <4>1. plik_wyj' = plik_wyj
        BY <3>2, PlikiStep
      <4>2. Trzymany' = Trzymany
        BY <1>3, <3>2
        DEF Next, ProducentStep, KonsumentStep, vars, PRead, PWaitEmpty, PLock,
            PCopy, PUnlock, PPostFull, KWaitFull, KLock, KCopy, KUnlock,
            KPostEmpty, KKoniec, PSigint, KSigint, Semafor, Idz, Trzymany,
            Niezmiennik, TypeOK, Etykiety
      <4> QED BY <4>1, <4>2 DEF Wydane
    <3> QED BY <3>1, <3>2
  <2> QED BY <1>3, <2>1, <2>2 DEF Koncowka
<1> QED BY <1>1, <1>2, <1>3

LEMMA DomknieteInit == Init => Domkniete
<1> SUFFICES ASSUME Init PROVE Domkniete
  OBVIOUS
<1>1. Zajete = 0 /\ ~ Trzymany /\ Len(plik_wyj) = 0 /\ pc["producent"] = "read"
      /\ Len(plik_wej) \in Nat
  BY BuforAssumption DEF Init, Zajete, Jeden, Trzymany
<1>2. Koncowka = 0
  <2>1. Wydane = 0 + NELE * 0
    BY <1>1 DEF Wydane, Jeden
  <2>2. Koncowka = Wydane + NELE * 0
    BY <1>1 DEF Koncowka
  <2> QED BY <2>1, <2>2, Iloczyn
<1> QED BY <1>1, <1>2, BuforAssumption DEF Domkniete

(* With nothing in hand the producer is behind the end of the file, with   *)
(* an element in hand before it.                                           *)
LEMMA PustaPorcja ==
  ASSUME Bajty, WReku
  PROVE  porcja = <<>> <=> Koncowka >= Len(plik_wej)
<1>1. /\ pozycja = Do(Koncowka + NELE)
      /\ porcja = SubSeq(plik_wej, Do(Koncowka) + 1, pozycja)
  BY DEF Bajty, Miejsca, PorcjaZgodna
<1>2. /\ Koncowka \in Nat /\ Len(plik_wej) \in Nat /\ plik_wej \in Seq(Bajt)
  BY MiejscaTyp DEF Bajty, Niezmiennik, TypeOK
<1>3. CASE Koncowka >= Len(plik_wej)
  <2>1. Do(Koncowka) = Len(plik_wej) /\ pozycja = Len(plik_wej)
    BY <1>1, <1>2, <1>3, BuforAssumption DEF Do
  <2>2. porcja = SubSeq(plik_wej, Len(plik_wej) + 1, Len(plik_wej))
    BY <1>1, <2>1
  <2> QED BY <1>2, <1>3, <2>2
<1>4. CASE Koncowka < Len(plik_wej)
  <2>1. Do(Koncowka) = Koncowka /\ pozycja \in Koncowka + 1 .. Len(plik_wej)
    BY <1>1, <1>2, <1>4, BuforAssumption DEF Do
  <2>2. Len(SubSeq(plik_wej, Koncowka + 1, pozycja)) = pozycja - Koncowka
    BY <1>2, <2>1
  <2>3. Len(porcja) >= 1
    BY <1>1, <1>2, <2>1, <2>2
  <2> QED BY <1>2, <1>4, <2>3
<1> QED BY <1>2, <1>3, <1>4

LEMMA DomknieteStep == Bajty /\ Domkniete /\ [Next]_vars => Domkniete'
<1> SUFFICES ASSUME Bajty, Domkniete, [Next]_vars PROVE Domkniete'
  OBVIOUS
<1>1. Koncowka \in Nat /\ Len(plik_wej) \in Nat /\ plik_wej' = plik_wej
  BY MiejscaTyp, PlikiStep DEF Bajty
<1>2. CASE PAdvance
  <2>1. /\ pc["producent"] = "advance" /\ pc'["producent"] = "unlock"
        /\ porcja' = porcja /\ Koncowka' = Koncowka + NELE
    BY <1>2, KoncowkaStep DEF PAdvance, Idz, producent, Bajty, Niezmiennik,
       TypeOK, Etykiety
  <2>2. porcja = <<>> <=> Koncowka >= Len(plik_wej)
    BY <2>1, PustaPorcja DEF WReku
  <2>3. Koncowka < Len(plik_wej) + NELE
    BY <2>1 DEF Domkniete
  <2> QED BY <1>1, <2>1, <2>2, <2>3, BuforAssumption DEF Domkniete, Ostatni
<1>3. CASE ~ PAdvance
  <2>1. Koncowka' = Koncowka
    BY <1>3, KoncowkaStep
  <2> USE DEF Domkniete, Ostatni, Bajty, Niezmiennik, TypeOK, Etykiety, Semafor, Idz
  <2>2. CASE PRead
    BY <1>1, <2>1, <2>2 DEF PRead
  <2>3. CASE PWaitEmpty \/ PLock \/ PCopy
    BY <1>1, <2>1, <2>3 DEF PWaitEmpty, PLock, PCopy, producent
  <2>4. CASE PUnlock
    BY <1>1, <2>1, <2>4 DEF PUnlock, producent
  <2>5. CASE PPostFull
    BY <1>1, <2>1, <2>5 DEF PPostFull, producent
  <2>6. CASE KonsumentStep \/ PSigint \/ KSigint \/ UNCHANGED vars
    <3>1. pc'["producent"] = pc["producent"] /\ porcja' = porcja
      BY <2>6 DEF KonsumentStep, KWaitFull, KLock, KCopy, KAdvance, KUnlock,
                  KPostEmpty, KKoniec, KZapisz, PSigint, KSigint, vars, producent
    <3> QED BY <1>1, <2>1, <3>1
  <2> QED BY <1>3, <2>2, <2>3, <2>4, <2>5, <2>6 DEF Next, ProducentStep
<1> QED BY <1>2, <1>3

LEMMA DomknieteInv == Spec => []Domkniete
  BY DomknieteInit, DomknieteStep, BajtyInv, PTL DEF Spec

(* A process can take a step: it has not ended, nor is it asleep in        *)
(* sem_wait.                                                               *)
Moze(p) == p \notin przerwane /\ pc[p] # "end" /\ ~ Zablokowany[p]

(* Until both have ended one of them can go on, if nobody was killed.      *)
BezPostoju ==
  BezZnacznika /\ przerwane = {} /\ (\E p \in Proces : pc[p] # "end")
    => \E p \in Proces : Moze(p)

(* A producer that has ended has left the final element for the consumer:  *)
(* an empty ring would mean that more is in the output than it can hold.   *)
LEMMA JestCoBrac ==
  ASSUME Bajty, Calosc, Domkniete, pc["producent"] = "end",
         pc["konsument"] = "wait_full"
  PROVE  sem["full"] # 0
<1> SUFFICES ASSUME sem["full"] = 0 PROVE FALSE
  OBVIOUS
<1>1. Zajete = 0 /\ ~ Trzymany
  BY DEF Zajete, Jeden, Trzymany
<1>2. Koncowka = Len(plik_wyj)
  <2>1. Wydane = Len(plik_wyj)
    BY <1>1, MiejscaTyp DEF Bajty
  <2>2. NELE * Zajete = 0
    BY <1>1, Iloczyn
  <2> QED BY <2>1, <2>2, MiejscaTyp DEF Koncowka, Bajty
<1>3. Len(plik_wej) + NELE <= Koncowka
  BY DEF Domkniete, Ostatni
<1> QED BY <1>2, <1>3, MiejscaTyp, BuforAssumption DEF Bajty, Calosc, Dlugosc

(* A consumer that has ended has left a slot free: it stopped at the last  *)
(* element of all, so a full ring would mean that the producer had put     *)
(* more elements after it.                                                 *)
LEMMA JestGdzieWlozyc ==
  ASSUME Bajty, Calosc, Domkniete, BezZnacznika, pc["konsument"] = "end",
         pc["producent"] = "wait_empty", CalyTekst
  PROVE  sem["empty"] # 0
<1> SUFFICES ASSUME sem["empty"] = 0 PROVE FALSE
  OBVIOUS
<1>1. Zajete = NBUF /\ Trzymany
  <2>1. Wolne = 0
    BY DEF Wolne, Jeden
  <2> QED BY <2>1, ZajeteZakres, BuforAssumption
          DEF Bajty, Niezmiennik, Rozliczenie, Trzymany
<1>2. Koncowka >= Len(plik_wyj) + NELE
  <2>1. Wydane = Len(plik_wyj) + NELE
    BY <1>1, MiejscaTyp DEF Bajty
  <2>2. NELE * Zajete \in Nat
    BY <1>1, Iloczyn, BuforAssumption
  <2> QED BY <2>1, <2>2, MiejscaTyp, BuforAssumption DEF Koncowka, Bajty
<1>3. Len(plik_wyj) >= Len(plik_wej)
  BY DEF CalyTekst
<1>4. Koncowka < Len(plik_wej) + NELE
  BY DEF Domkniete
<1> QED BY <1>2, <1>3, <1>4, MiejscaTyp, BuforAssumption DEF Bajty

(* The two programs run to their ends: as long as one has not got there,   *)
(* one of them is not asleep.  Once its partner has ended, the other finds *)
(* the semaphores as it needs them.                                        *)
THEOREM BezPostojuInv == Spec => []BezPostoju
<1>1. Bajty /\ Calosc /\ Domkniete /\ CalyTekst /\ BezZakleszczenia => BezPostoju
  <2> SUFFICES ASSUME Bajty, Calosc, Domkniete, CalyTekst, BezZakleszczenia,
                      BezZnacznika, przerwane = {},
                      \E p \in Proces : pc[p] # "end"
               PROVE  \E p \in Proces : Moze(p)
    BY DEF BezPostoju
  <2> USE DEF Moze, Proces, Zablokowany, Czeka
  <2>1. CASE pc["producent"] # "end" /\ pc["konsument"] # "end"
    BY <2>1 DEF BezZakleszczenia
  <2>2. CASE pc["producent"] = "end"
    <3>1. pc["konsument"] = "lock" => sem["mutex"] # 0
      BY <2>2 DEF Bajty, Niezmiennik, Rozliczenie, Straz, Jeden, WSekcji
    <3> QED BY <2>2, <3>1, JestCoBrac
  <2>3. CASE pc["konsument"] = "end"
    <3>1. pc["producent"] = "lock" => sem["mutex"] # 0
      BY <2>3 DEF Bajty, Niezmiennik, Rozliczenie, Straz, Jeden, WSekcji
    <3> QED BY <2>3, <3>1, JestGdzieWlozyc
  <2> QED BY <2>1, <2>2, <2>3
<1> QED BY <1>1, BajtyInv, CaloscInv, DomknieteInv, CalyTekstInv,
        BezZakleszczeniaInv, PTL

(* The steps each has left at most: up to eight for every element it has   *)
(* still to put or to take.  SIGINT leaves none.                           *)
DoPolozenia == Len(plik_wej) + 2 * NELE - Koncowka
DoZabrania  == Len(plik_wej) + 2 * NELE - Wydane
ResztaProducenta ==
  IF "producent" \in przerwane THEN 0
  ELSE 8 * DoPolozenia + CASE pc["producent"] = "read"       -> 7
                           [] pc["producent"] = "wait_empty" -> 6
                           [] pc["producent"] = "lock"       -> 5
                           [] pc["producent"] = "copy"       -> 4
                           [] pc["producent"] = "advance"    -> 3
                           [] pc["producent"] = "unlock"     -> 10
                           [] pc["producent"] = "post_full"  -> 9
                           [] OTHER                          -> 1
ResztaKonsumenta ==
  IF "konsument" \in przerwane THEN 0
  ELSE 8 * DoZabrania + CASE pc["konsument"] = "wait_full"  -> 7
                          [] pc["konsument"] = "lock"       -> 6
                          [] pc["konsument"] = "copy"       -> 5
                          [] pc["konsument"] = "advance"    -> 4
                          [] pc["konsument"] = "unlock"     -> 11
                          [] pc["konsument"] = "post_empty" -> 10
                          [] pc["konsument"] = "check"      -> 9
                          [] OTHER                          -> 1

(* Every step of either program, SIGINT too, uses up a step of its own.    *)
Naturalne == ResztaProducenta \in Nat /\ ResztaKonsumenta \in Nat
Ubylo == \/ ResztaProducenta' < ResztaProducenta /\ ResztaKonsumenta' = ResztaKonsumenta
         \/ ResztaKonsumenta' < ResztaKonsumenta /\ ResztaProducenta' = ResztaProducenta
Ubywa == [][Ubylo]_vars

LEMMA Zostalo ==
  ASSUME Bajty, Domkniete
  PROVE  DoPolozenia \in Nat /\ DoZabrania \in Nat /\ NELE \in Nat \ {0}
<1>1. Koncowka < Len(plik_wej) + 2 * NELE
  BY MiejscaTyp, BuforAssumption DEF Domkniete, Ostatni, Bajty
<1>2. NELE * Zajete \in Nat /\ Koncowka = Wydane + NELE * Zajete
  <2>1. Zajete \in Nat
    BY MiejscaTyp, BuforAssumption DEF Bajty
  <2> QED BY <2>1, Iloczyn DEF Koncowka
<1>3. Wydane <= Koncowka
  BY <1>2, MiejscaTyp DEF Bajty
<1>4. /\ Koncowka \in Nat /\ Wydane \in Nat /\ Len(plik_wej) \in Nat
      /\ NELE \in Nat \ {0}
  BY MiejscaTyp, BuforAssumption DEF Bajty
<1> QED BY <1>1, <1>3, <1>4 DEF DoPolozenia, DoZabrania

LEMMA ReszteNaturalne == Bajty /\ Domkniete => Naturalne
<1> SUFFICES ASSUME Bajty, Domkniete PROVE Naturalne
  OBVIOUS
<1>1. ResztaProducenta \in Nat
  BY Zostalo DEF ResztaProducenta
<1>2. ResztaKonsumenta \in Nat
  BY Zostalo DEF ResztaKonsumenta
<1> QED BY <1>1, <1>2 DEF Naturalne

(* PAdvance puts an element, KAdvance takes one, no other step does.       *)
LEMMA ZostaloStep ==
  ASSUME Bajty, [Next]_vars
  PROVE  /\ PAdvance => DoPolozenia' = DoPolozenia - NELE /\ DoZabrania' = DoZabrania
         /\ KAdvance => DoPolozenia' = DoPolozenia /\ DoZabrania' = DoZabrania - NELE
         /\ ~ PAdvance /\ ~ KAdvance
              => DoPolozenia' = DoPolozenia /\ DoZabrania' = DoZabrania
  BY KoncowkaStep, PlikiStep, MiejscaTyp, BuforAssumption
  DEF DoPolozenia, DoZabrania, Bajty

LEMMA UbyloProducentowi ==
  ASSUME Bajty, Domkniete, ProducentStep
  PROVE  ResztaProducenta' < ResztaProducenta /\ ResztaKonsumenta' = ResztaKonsumenta
<1> USE DEF Semafor, Idz
<1>1. /\ "producent" \notin przerwane /\ przerwane' = przerwane
      /\ pc'["konsument"] = pc["konsument"]
  BY DEF ProducentStep, PRead, PWaitEmpty, PLock, PCopy, PAdvance, PUnlock,
         PPostFull, Bajty, Niezmiennik, TypeOK, Etykiety
<1>2. ~ KAdvance
  BY <1>1 DEF KAdvance, Bajty, Niezmiennik, TypeOK, Etykiety
<1>3. /\ PAdvance => DoPolozenia' = DoPolozenia - NELE
      /\ ~ PAdvance => DoPolozenia' = DoPolozenia
      /\ DoZabrania' = DoZabrania
  BY <1>2, ZostaloStep DEF Next
<1>4. ResztaKonsumenta' = ResztaKonsumenta
  BY <1>1, <1>3 DEF ResztaKonsumenta
<1>5. ResztaProducenta' < ResztaProducenta
  <2> USE <1>1, <1>3, Zostalo DEF ResztaProducenta
  <2>0. pc \in Etykiety
    BY DEF Bajty, Niezmiennik, TypeOK
  <2>1. CASE PAdvance
    <3>1. pc["producent"] = "advance" /\ pc'["producent"] = "unlock"
      BY <2>0, <2>1 DEF PAdvance, Etykiety
    <3> QED BY <2>1, <3>1
  <2>2. CASE ~ PAdvance
    <3>1. <<pc["producent"], pc'["producent"]>> \in
            {<<"read", "wait_empty">>, <<"wait_empty", "lock">>, <<"lock", "copy">>,
             <<"copy", "advance">>, <<"unlock", "post_full">>,
             <<"post_full", "end">>, <<"post_full", "read">>}
      BY <2>0, <2>2 DEF ProducentStep, PRead, PWaitEmpty, PLock, PCopy, PUnlock,
                        PPostFull, Etykiety
    <3> QED BY <2>2, <3>1
  <2> QED BY <2>1, <2>2
<1> QED BY <1>4, <1>5

LEMMA UbyloKonsumentowi ==
  ASSUME Bajty, Domkniete, KonsumentStep
  PROVE  ResztaKonsumenta' < ResztaKonsumenta /\ ResztaProducenta' = ResztaProducenta
<1> USE DEF Semafor, Idz
<1>1. /\ "konsument" \notin przerwane /\ przerwane' = przerwane
      /\ pc'["producent"] = pc["producent"]
  BY DEF KonsumentStep, KWaitFull, KLock, KCopy, KAdvance, KUnlock, KPostEmpty,
         KKoniec, KZapisz, Bajty, Niezmiennik, TypeOK, Etykiety
<1>2. ~ PAdvance
  BY <1>1 DEF PAdvance, Bajty, Niezmiennik, TypeOK, Etykiety
<1>3. /\ KAdvance => DoZabrania' = DoZabrania - NELE
      /\ ~ KAdvance => DoZabrania' = DoZabrania
      /\ DoPolozenia' = DoPolozenia
  BY <1>2, ZostaloStep DEF Next
<1>4. ResztaProducenta' = ResztaProducenta
  BY <1>1, <1>3 DEF ResztaProducenta
<1>5. ResztaKonsumenta' < ResztaKonsumenta
  <2> USE <1>1, <1>3, Zostalo DEF ResztaKonsumenta
  <2>0. pc \in Etykiety
    BY DEF Bajty, Niezmiennik, TypeOK
  <2>1. CASE KAdvance
    <3>1. pc["konsument"] = "advance" /\ pc'["konsument"] = "unlock"
      BY <2>0, <2>1 DEF KAdvance, Etykiety
    <3> QED BY <2>1, <3>1
  <2>2. CASE ~ KAdvance
    <3>1. <<pc["konsument"], pc'["konsument"]>> \in
            {<<"wait_full", "lock">>, <<"lock", "copy">>, <<"copy", "advance">>,
             <<"unlock", "post_empty">>, <<"post_empty", "check">>,
             <<"check", "end">>, <<"check", "wait_full">>}
      BY <2>0, <2>2 DEF KonsumentStep, KWaitFull, KLock, KCopy, KUnlock,
                        KPostEmpty, KKoniec, KZapisz, Etykiety
    <3> QED BY <2>2, <3>1
  <2> QED BY <2>1, <2>2
<1> QED BY <1>4, <1>5

(* A process killed by SIGINT makes no further step.                       *)
LEMMA UbyloSigint ==
  ASSUME Bajty, Domkniete, PSigint \/ KSigint
  PROVE  Ubylo
<1>1. DoPolozenia' = DoPolozenia /\ DoZabrania' = DoZabrania /\ pc' = pc
  <2>1. ~ PAdvance /\ ~ KAdvance /\ pc' = pc
    BY DEF PSigint, KSigint, PAdvance, KAdvance, Idz, Bajty, Niezmiennik, TypeOK,
           Etykiety
  <2> QED BY <2>1, ZostaloStep DEF Next
<1>2. CASE PSigint
  <2>1. /\ "producent" \notin przerwane /\ "producent" \in przerwane'
        /\ ("konsument" \in przerwane') = ("konsument" \in przerwane)
    BY <1>2 DEF PSigint
  <2>2. ResztaProducenta' < ResztaProducenta
    BY <2>1, Zostalo DEF ResztaProducenta
  <2>3. ResztaKonsumenta' = ResztaKonsumenta
    BY <1>1, <2>1 DEF ResztaKonsumenta
  <2> QED BY <2>2, <2>3 DEF Ubylo
<1>3. CASE KSigint
  <2>1. /\ "konsument" \notin przerwane /\ "konsument" \in przerwane'
        /\ ("producent" \in przerwane') = ("producent" \in przerwane)
    BY <1>3 DEF KSigint
  <2>2. ResztaKonsumenta' < ResztaKonsumenta
    BY <2>1, Zostalo DEF ResztaKonsumenta
  <2>3. ResztaProducenta' = ResztaProducenta
    BY <1>1, <2>1 DEF ResztaProducenta
  <2> QED BY <2>2, <2>3 DEF Ubylo
<1> QED BY <1>2, <1>3

(* Neither loop can go round for ever: whatever the file and whatever the  *)
(* scheduler does, a run of the two programs has finitely many steps.      *)
THEOREM UbywaInv == Spec => []Naturalne /\ Ubywa
<1>1. Bajty /\ Domkniete => Naturalne
  BY ReszteNaturalne
<1>2. Bajty /\ Domkniete /\ [Next]_vars => [Ubylo]_vars
  BY UbyloProducentowi, UbyloKonsumentowi, UbyloSigint DEF Next, Ubylo
<1> QED BY <1>1, <1>2, BajtyInv, DomknieteInv, PTL DEF Spec, Ubywa

=============================================================================
