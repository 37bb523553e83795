------------------------- MODULE Przesylanie_proofs -------------------------
(***************************************************************************)
(* Proofs about Przesylanie for files of any length, any two buffer sizes, *)
(* any capacity of the pipe and any number of interrupts.                  *)
(***************************************************************************)
EXTENDS Przesylanie, SequenceTheorems, TLAPS

(* The data part of the invariant: a buffer is empty until its process has *)
(* read into it, and whenever it comes to read again.                      *)
PrzedOdczytem == {"brak", "fork", "close_0", "close_1", "open", "open_potok", "czeka",
                  "przed_exec", "read"}
Puste == /\ pc["producent"] \in PrzedOdczytem => bufor = <<>>
         /\ pc["konsument"] \in PrzedOdczytem => bufor_1 = <<>>

(* The control part: main comes to its end past the removal of the FIFO.   *)
Usuniety == zadanie = "5a" /\ pc["main"] \in {"handler_wait", "koniec"} => ~ nazwa

(* fork() makes a process that was not there.                              *)
Nienarodzone == /\ pc["producent"] = "fork" => pc["konsument"] = "brak"
                /\ pc["main"] \in {"mkfifo", "fork_k"} => pc["konsument"] = "brak"
                /\ pc["main"] \in {"mkfifo", "fork_k", "fork_p"} => pc["producent"] = "brak"

IInv == TypeOK /\ Puste /\ Strumien /\ Usuniety /\ Nienarodzone

USE DEF Skok, Umiera, Zamknij

-----------------------------------------------------------------------------
(* Steps of the two loops, which move the data.                            *)

(* A chunk of the file goes to the producer.                               *)
LEMMA PReadIInv == ASSUME IInv, PRead, UNCHANGED <<nazwa, otoczenie>> PROVE IInv'
<1> DEFINE koniec == Mniejsza(pozycja + WIELKOSC_PRODUCENT, Len(plik_wej))
<1>0. TypeOK /\ DaneOK /\ WIELKOSC_PRODUCENT \in Nat \ {0}
  BY PotokAssumption DEF IInv, TypeOK
<1>1. plik_wej \in Seq(Bajt) /\ Len(plik_wej) \in Nat /\ pozycja \in 0..Len(plik_wej)
  BY <1>0 DEF DaneOK
<1>2. /\ koniec \in pozycja..Len(plik_wej)
      /\ koniec - pozycja <= WIELKOSC_PRODUCENT
  BY <1>0, <1>1 DEF Mniejsza
<1>3. /\ SubSeq(plik_wej, pozycja + 1, koniec) \in Seq(Bajt)
      /\ Len(SubSeq(plik_wej, pozycja + 1, koniec)) = koniec - pozycja
  <2> HIDE DEF koniec
  <2>1. \A j \in (pozycja + 1)..koniec : plik_wej[j] \in Bajt
    BY <1>1, <1>2, ElementOfSeq
  <2> QED BY <1>1, <1>2, <2>1, SubSeqProperties
<1>4. pc["producent"] = "read" /\ bufor = <<>>
  BY DEF PRead, IInv, Puste, PrzedOdczytem
<1>5. TypeOK'
  <2>1. pc' \in [Proces -> Etykiety]
    BY <1>0 DEF PRead, TypeOK, Etykiety
  <2>2. DaneOK'
    <3> HIDE DEF koniec
    <3>1. /\ pozycja' = koniec /\ bufor' = SubSeq(plik_wej, pozycja + 1, koniec)
          /\ UNCHANGED <<plik_wej, potok, bufor_1, plik_wyj, konce>>
      BY DEF PRead, koniec
    <3> QED BY <1>0, <1>1, <1>2, <1>3, <3>1 DEF DaneOK, konce
  <2> QED BY <1>0, <2>1, <2>2 DEF PRead, TypeOK, otoczenie
<1>6. Puste'
  BY <1>0, <1>4 DEF PRead, IInv, Puste, PrzedOdczytem, TypeOK, Proces
<1>7. Usuniety' /\ Nienarodzone'
  BY <1>0 DEF PRead, IInv, Usuniety, Nienarodzone, TypeOK, Proces, otoczenie
<1>8. Strumien'
  <2> DEFINE przed == plik_wyj \o bufor_1 \o potok
  <2> HIDE DEF koniec
  <2>1. /\ bufor' = SubSeq(plik_wej, pozycja + 1, koniec) /\ pozycja' = koniec
        /\ UNCHANGED <<plik_wej, potok, bufor_1, plik_wyj>>
    BY DEF PRead, koniec
  <2>2. przed \in Seq(Bajt)
    BY <1>0, ConcatProperties DEF DaneOK
  <2>3. przed = SubSeq(plik_wej, 1, pozycja)
    BY <1>4, <2>2, ConcatEmptySeq DEF IInv, Strumien
  <2>4. SubSeq(plik_wej, 1, pozycja) \o SubSeq(plik_wej, pozycja + 1, koniec)
          = SubSeq(plik_wej, 1, koniec)
    BY <1>1, <1>2, ConcatAdjacentSubSeq
  <2> QED BY <2>1, <2>3, <2>4 DEF Strumien
<1> QED BY <1>5, <1>6, <1>7, <1>8 DEF IInv

(* The chunk goes into the pipe, whole.                                    *)
LEMMA PWriteIInv == ASSUME IInv, PWrite, UNCHANGED <<nazwa, otoczenie>> PROVE IInv'
<1>0. TypeOK /\ DaneOK
  BY DEF IInv, TypeOK
<1>1. /\ potok \o bufor \in Seq(Bajt)
      /\ Len(potok \o bufor) = Len(potok) + Len(bufor)
  BY <1>0, ConcatProperties DEF DaneOK
<1>2. TypeOK'
  <2>1. pc' \in [Proces -> Etykiety]
    BY <1>0 DEF PWrite, TypeOK, Etykiety
  <2>2. <<>> \in Seq(Bajt) /\ Len(<<>>) = 0 /\ WIELKOSC_PRODUCENT \in Nat
    BY PotokAssumption, EmptySeq
  <2>3. DaneOK'
    BY <1>0, <1>1, <2>2 DEF PWrite, DaneOK, konce
  <2> QED BY <1>0, <2>1, <2>3 DEF PWrite, TypeOK, otoczenie
<1>3. Puste' /\ Usuniety' /\ Nienarodzone'
  BY <1>0
  DEF PWrite, IInv, Puste, PrzedOdczytem, Usuniety, Nienarodzone, TypeOK, Proces,
      otoczenie
<1>4. Strumien'
  <2> DEFINE przed == plik_wyj \o bufor_1
  <2>1. przed \in Seq(Bajt)
    BY <1>0, ConcatProperties DEF DaneOK
  <2>2. (przed \o potok) \o bufor = przed \o (potok \o bufor)
    <3> HIDE DEF przed
    <3>1. potok \in Seq(Bajt) /\ bufor \in Seq(Bajt)
      BY <1>0 DEF DaneOK
    <3> QED BY <2>1, <3>1, ConcatAssociative
  <2>3. przed \o (potok \o bufor) \in Seq(Bajt)
    BY <1>1, <2>1, ConcatProperties
  <2>4. (przed \o (potok \o bufor)) \o <<>> = przed \o (potok \o bufor)
    BY <2>3, ConcatEmptySeq
  <2> QED BY <2>2, <2>4 DEF PWrite, IInv, Strumien
<1> QED BY <1>2, <1>3, <1>4 DEF IInv

(* A piece of the pipe goes to the consumer.                               *)
LEMMA KReadIInv == ASSUME IInv, KRead, UNCHANGED <<nazwa, otoczenie>> PROVE IInv'
<1> DEFINE n == Mniejsza(WIELKOSC_KONSUMENT, Len(potok))
<1>0. TypeOK /\ DaneOK /\ WIELKOSC_KONSUMENT \in Nat \ {0}
  BY PotokAssumption DEF IInv, TypeOK
<1>1. potok \in Seq(Bajt) /\ Len(potok) \in Nat
  BY <1>0 DEF DaneOK
<1>2. n \in 0..Len(potok) /\ n <= WIELKOSC_KONSUMENT
  BY <1>0, <1>1 DEF Mniejsza
<1>3. /\ SubSeq(potok, 1, n) \in Seq(Bajt)
      /\ Len(SubSeq(potok, 1, n)) = n
      /\ SubSeq(potok, n + 1, Len(potok)) \in Seq(Bajt)
      /\ Len(SubSeq(potok, n + 1, Len(potok))) = Len(potok) - n
  <2> HIDE DEF n
  <2>1. \A j \in 1..Len(potok) : potok[j] \in Bajt
    BY <1>1, ElementOfSeq
  <2>2. \A j \in 1..n : potok[j] \in Bajt
    BY <1>1, <1>2, <2>1
  <2>3. \A j \in (n + 1)..Len(potok) : potok[j] \in Bajt
    BY <1>1, <1>2, <2>1
  <2>4. /\ SubSeq(potok, 1, n) \in Seq(Bajt)
        /\ Len(SubSeq(potok, 1, n)) = n
    BY <1>1, <1>2, <2>2, SubSeqProperties
  <2>5. /\ SubSeq(potok, n + 1, Len(potok)) \in Seq(Bajt)
        /\ Len(SubSeq(potok, n + 1, Len(potok))) = Len(potok) - n
    BY <1>1, <1>2, <2>3, SubSeqProperties
  <2> QED BY <2>4, <2>5
<1>4. pc["konsument"] = "read" /\ bufor_1 = <<>>
  BY DEF KRead, IInv, Puste, PrzedOdczytem
<1>5. /\ bufor_1' = SubSeq(potok, 1, n) /\ potok' = SubSeq(potok, n + 1, Len(potok))
      /\ UNCHANGED <<plik_wej, pozycja, bufor, plik_wyj, konce>>
  BY DEF KRead
<1>6. TypeOK'
  <2> HIDE DEF n
  <2>1. pc' \in [Proces -> Etykiety]
    BY <1>0 DEF KRead, TypeOK, Etykiety
  <2>2. Len(potok) - n <= Pojemnosc
    BY <1>0, <1>1, <1>2, PotokAssumption DEF DaneOK
  <2>3. DaneOK'
    BY <1>0, <1>2, <1>3, <1>5, <2>2 DEF DaneOK, konce
  <2> QED BY <1>0, <2>1, <2>3 DEF TypeOK, otoczenie
<1>7. Puste' /\ Usuniety' /\ Nienarodzone'
  BY <1>0
  DEF KRead, IInv, Puste, PrzedOdczytem, Usuniety, Nienarodzone, TypeOK, Proces,
      otoczenie
<1>8. Strumien'
  <2> HIDE DEF n
  <2>1. SubSeq(potok, 1, n) \o SubSeq(potok, n + 1, Len(potok)) = potok
    <3>1. SubSeq(potok, 1, Len(potok)) = potok
      BY <1>1, SubSeqFull
    <3>2. SubSeq(potok, 1, n) \o SubSeq(potok, n + 1, Len(potok)) = SubSeq(potok, 1, Len(potok))
      <4>1. /\ 1 \in 1..(Len(potok) + 1) /\ n \in (1 - 1)..Len(potok)
            /\ Len(potok) \in n..Len(potok)
        BY <1>1, <1>2
      <4> QED BY <1>1, <4>1, ConcatAdjacentSubSeq
    <3> QED BY <3>1, <3>2
  <2>2. plik_wyj \o bufor_1 = plik_wyj
    BY <1>0, <1>4, ConcatEmptySeq DEF DaneOK
  <2>3. (plik_wyj \o bufor_1') \o potok' = plik_wyj \o (bufor_1' \o potok')
    <3>1. plik_wyj \in Seq(Bajt) /\ bufor_1' \in Seq(Bajt) /\ potok' \in Seq(Bajt)
      BY <1>0, <1>3, <1>5 DEF DaneOK
    <3> QED BY <3>1, ConcatAssociative
  <2> QED BY <1>5, <2>1, <2>2, <2>3 DEF IInv, Strumien
<1> QED BY <1>6, <1>7, <1>8 DEF IInv

(* The piece goes to the output file.                                      *)
LEMMA KWriteIInv == ASSUME IInv, KWrite, UNCHANGED <<nazwa, otoczenie>> PROVE IInv'
<1>0. TypeOK /\ DaneOK
  BY DEF IInv, TypeOK
<1>1. plik_wyj \o bufor_1 \in Seq(Bajt)
  BY <1>0, ConcatProperties DEF DaneOK
<1>2. TypeOK'
  <2>1. pc' \in [Proces -> Etykiety]
    BY <1>0 DEF KWrite, TypeOK, Etykiety
  <2>2. <<>> \in Seq(Bajt) /\ Len(<<>>) = 0 /\ WIELKOSC_KONSUMENT \in Nat
    BY PotokAssumption, EmptySeq
  <2>3. DaneOK'
    BY <1>0, <1>1, <2>2 DEF KWrite, DaneOK, konce
  <2> QED BY <1>0, <2>1, <2>3 DEF KWrite, TypeOK, otoczenie
<1>3. Puste' /\ Usuniety' /\ Nienarodzone'
  BY <1>0
  DEF KWrite, IInv, Puste, PrzedOdczytem, Usuniety, Nienarodzone, TypeOK, Proces,
      otoczenie
<1>4. Strumien'
  <2>1. (plik_wyj \o bufor_1) \o <<>> = plik_wyj \o bufor_1
    BY <1>1, ConcatEmptySeq
  <2> QED BY <2>1 DEF KWrite, IInv, Strumien
<1> QED BY <1>2, <1>3, <1>4 DEF IInv

(* A part of it goes there when write() fails, and the rest stays behind.  *)
LEMMA WriteNieudanyIInv == ASSUME IInv, WriteNieudany PROVE IInv'
<1>0. TypeOK /\ DaneOK /\ bufor_1 \in Seq(Bajt) /\ Len(bufor_1) \in Nat
  BY DEF IInv, TypeOK, DaneOK
<1>1. PICK n \in 0..Len(bufor_1) - 1 :
        /\ plik_wyj' = plik_wyj \o SubSeq(bufor_1, 1, n)
        /\ bufor_1' = SubSeq(bufor_1, n + 1, Len(bufor_1))
  BY DEF WriteNieudany
<1>2. /\ SubSeq(bufor_1, 1, n) \in Seq(Bajt)
      /\ SubSeq(bufor_1, n + 1, Len(bufor_1)) \in Seq(Bajt)
      /\ Len(SubSeq(bufor_1, n + 1, Len(bufor_1))) = Len(bufor_1) - n
  <2>1. \A j \in 1..Len(bufor_1) : bufor_1[j] \in Bajt
    BY <1>0, ElementOfSeq
  <2>2. \A j \in 1..n : bufor_1[j] \in Bajt
    BY <1>0, <2>1
  <2>3. \A j \in (n + 1)..Len(bufor_1) : bufor_1[j] \in Bajt
    BY <1>0, <2>1
  <2>4. SubSeq(bufor_1, 1, n) \in Seq(Bajt)
    BY <1>0, <2>2, SubSeqProperties
  <2>5. /\ SubSeq(bufor_1, n + 1, Len(bufor_1)) \in Seq(Bajt)
        /\ Len(SubSeq(bufor_1, n + 1, Len(bufor_1))) = Len(bufor_1) - n
    BY <1>0, <2>3, SubSeqProperties
  <2> QED BY <2>4, <2>5
<1>3. plik_wyj' \in Seq(Bajt)
  BY <1>0, <1>1, <1>2, ConcatProperties DEF DaneOK
<1>4. bufor_1' \in Seq(Bajt) /\ Len(bufor_1') <= WIELKOSC_KONSUMENT
  <2>1. Len(bufor_1) <= WIELKOSC_KONSUMENT /\ WIELKOSC_KONSUMENT \in Nat
    BY <1>0, PotokAssumption DEF DaneOK
  <2>2. bufor_1' \in Seq(Bajt) /\ Len(bufor_1') = Len(bufor_1) - n
    BY <1>1, <1>2
  <2> QED BY <1>0, <2>1, <2>2
<1>5. /\ UNCHANGED <<plik_wej, pozycja, bufor, potok, nazwa>>
      /\ UNCHANGED <<zadanie, zalegle, wyslane>> /\ bledy' \subseteq Bledy
      /\ piszacy' \subseteq Proces /\ czytajacy' \subseteq Proces
      /\ pc["konsument"] = "write" /\ pc' = [pc EXCEPT !["konsument"] = "koniec"]
  BY <1>0 DEF WriteNieudany, Awaria, TypeOK, DaneOK, konce
<1>6. TypeOK'
  <2>1. pc' \in [Proces -> Etykiety]
    BY <1>0, <1>5 DEF TypeOK, Etykiety
  <2>2. DaneOK'
    BY <1>0, <1>3, <1>4, <1>5 DEF DaneOK
  <2> QED BY <1>0, <1>5, <2>1, <2>2 DEF TypeOK
<1>7. Puste' /\ Usuniety' /\ Nienarodzone'
  BY <1>0, <1>5 DEF IInv, Puste, PrzedOdczytem, Usuniety, Nienarodzone, TypeOK, Proces
<1>8. Strumien'
  <2>1. SubSeq(bufor_1, 1, n) \o SubSeq(bufor_1, n + 1, Len(bufor_1)) = bufor_1
    <3>1. SubSeq(bufor_1, 1, Len(bufor_1)) = bufor_1
      BY <1>0, SubSeqFull
    <3>2. /\ 1 \in 1..(Len(bufor_1) + 1) /\ n \in (1 - 1)..Len(bufor_1)
          /\ Len(bufor_1) \in n..Len(bufor_1)
      BY <1>0
    <3> QED BY <1>0, <3>1, <3>2, ConcatAdjacentSubSeq
  <2>2. plik_wyj' \o bufor_1' = plik_wyj \o bufor_1
    <3>1. plik_wyj \in Seq(Bajt)
      BY <1>0 DEF DaneOK
    <3> DEFINE pocz   == SubSeq(bufor_1, 1, n)
               reszta == SubSeq(bufor_1, n + 1, Len(bufor_1))
    <3>2. plik_wyj \in Seq(Bajt) /\ pocz \in Seq(Bajt) /\ reszta \in Seq(Bajt)
      BY <1>2, <3>1
    <3>3. pocz \o reszta = bufor_1
      BY <2>1
    <3>4. plik_wyj' = plik_wyj \o pocz /\ bufor_1' = reszta
      BY <1>1
    <3> HIDE DEF pocz, reszta
    <3>5. (plik_wyj \o pocz) \o reszta = plik_wyj \o (pocz \o reszta)
      BY <3>2, ConcatAssociative
    <3> QED BY <3>3, <3>4, <3>5
  <2> QED BY <1>5, <2>2 DEF IInv, Strumien
<1> QED BY <1>6, <1>7, <1>8 DEF IInv

-----------------------------------------------------------------------------
(* All the other steps leave the data where it is.                         *)

Nietknieta(q) == pc'[q] \in PrzedOdczytem => pc[q] \in PrzedOdczytem
Obok == /\ UNCHANGED <<plik_wej, dane, zadanie>>
        /\ pc' \in [Proces -> Etykiety]
        /\ piszacy' \subseteq Proces /\ czytajacy' \subseteq Proces
        /\ nazwa' \in BOOLEAN /\ zalegle' \subseteq Proces
        /\ wyslane' \in 0..MaxSigint /\ bledy' \subseteq Bledy
        /\ Nienarodzone' /\ \A q \in Potomek : Nietknieta(q)
        /\ zadanie = "5a" /\ pc'["main"] \in {"handler_wait", "koniec"} =>
             ~ nazwa' \/ (nazwa' = nazwa /\ pc["main"] \in {"handler_wait", "koniec"})

(* Steps that move no data keep the invariant.                             *)
LEMMA ObokIInv == ASSUME IInv, Obok PROVE IInv'
<1>1. TypeOK'
  BY DEF IInv, Obok, TypeOK, DaneOK, dane
<1>2. Puste' /\ Strumien' /\ Usuniety'
  BY DEF IInv, Obok, Nietknieta, Potomek, Puste, Strumien, Usuniety, dane
<1> QED BY <1>1, <1>2 DEF IInv, Obok

(* The processes of Zad_4 and the ends of the pipe.                        *)
LEMMA Zad4Obok ==
  ASSUME TypeOK, Nienarodzone,
                 \/ Fork4 \/ Fork4Nieudany \/ KClose1 \/ PClose0 \/ PClose \/ PWait
                 \/ (PSigpipe /\ UNCHANGED <<nazwa, otoczenie>>)
                 \/ (KEof /\ UNCHANGED <<nazwa, otoczenie>>)
                 \/ (KClose /\ UNCHANGED <<nazwa, otoczenie>>)
  PROVE  Obok
<1> USE DEF Obok, TypeOK, DaneOK, Etykiety, Proces, Potomek, Nietknieta, Nienarodzone,
            PrzedOdczytem,
            otoczenie, konce, Awaria
<1>1. CASE Fork4
  BY <1>1 DEF Fork4
<1>2. CASE Fork4Nieudany
  BY <1>2 DEF Fork4Nieudany
<1>3. CASE KClose1
  BY <1>3 DEF KClose1
<1>4. CASE PClose0
  BY <1>4 DEF PClose0
<1>5. CASE PClose
  BY <1>5 DEF PClose
<1>6. CASE PWait
  BY <1>6 DEF PWait
<1>7. CASE PSigpipe /\ UNCHANGED <<nazwa, otoczenie>>
  BY <1>7 DEF PSigpipe
<1>8. CASE KEof /\ UNCHANGED <<nazwa, otoczenie>>
  BY <1>8 DEF KEof
<1>9. CASE KClose /\ UNCHANGED <<nazwa, otoczenie>>
  BY <1>9 DEF KClose
<1> QED BY <1>1, <1>2, <1>3, <1>4, <1>5, <1>6, <1>7, <1>8, <1>9

(* main of Zad_5 and the opening of the files.                             *)
LEMMA Zad5Obok ==
  ASSUME TypeOK, Nienarodzone, NEW p \in Potomek,
         \/ Open(p) \/ OpenNieudany(p) \/ OpenPotok(p) \/ BrakPotoku(p) \/ Exec(p)
         \/ ExecNieudany(p) \/ Fork5(p) \/ Fork5Nieudany(p)
         \/ Mkfifo \/ MWait
  PROVE  Obok
<1> USE DEF Obok, TypeOK, DaneOK, Etykiety, Proces, Potomek, Nietknieta, Nienarodzone,
            PrzedOdczytem,
            otoczenie, konce, Awaria, Fork
<1>1. CASE Open(p)
  BY <1>1 DEF Open
<1>2. CASE OpenNieudany(p)
  BY <1>2 DEF OpenNieudany
<1>3. CASE OpenPotok(p)
  BY <1>3 DEF OpenPotok, Drugi
<1>4. CASE BrakPotoku(p)
  BY <1>4 DEF BrakPotoku
<1>5. CASE Exec(p)
  BY <1>5 DEF Exec
<1>6. CASE ExecNieudany(p)
  BY <1>6 DEF ExecNieudany
<1>7. CASE Fork5(p)
  BY <1>7 DEF Fork5
<1>8. CASE Fork5Nieudany(p)
  BY <1>8 DEF Fork5Nieudany
<1>9. CASE Mkfifo
  BY <1>9 DEF Mkfifo
<1>10. CASE MWait
  BY <1>10 DEF MWait
<1> QED BY <1>1, <1>2, <1>3, <1>4, <1>5, <1>6, <1>7, <1>8, <1>9, <1>10

(* Signals, and the two ways to remove the FIFO.                           *)
LEMMA SygnalObok ==
  ASSUME TypeOK, Nienarodzone, NEW p \in Proces,
         Sigint \/ Dostarcz(p) \/ Handler(p) \/ HandlerWait(p) \/ UsunPotok(p)
  PROVE  Obok
<1> USE DEF Obok, TypeOK, DaneOK, Etykiety, Proces, Potomek, Nietknieta, Nienarodzone,
            PrzedOdczytem,
            otoczenie, konce
<1>1. CASE Sigint
  <2>1. zalegle' \subseteq Proces
    BY <1>1 DEF Sigint, Zywy
  <2>2. wyslane' \in 0..MaxSigint
    BY <1>1, PrzesylanieAssumption DEF Sigint
  <2> QED BY <1>1, <2>1, <2>2 DEF Sigint
<1>2. CASE Dostarcz(p)
  <2>1. PICK dokad \in {"handler", "koniec"} :
          /\ pc' = [pc EXCEPT ![p] = dokad]
          /\ zadanie = "5a" /\ p = "main" => dokad = "handler"
    BY <1>2 DEF Dostarcz, ZHandlerem
  <2>2. piszacy' \subseteq Proces /\ czytajacy' \subseteq Proces
    BY <1>2 DEF Dostarcz
  <2>3. /\ UNCHANGED <<plik_wej, dane, zadanie, nazwa, wyslane, bledy>>
        /\ zalegle' \subseteq Proces
    BY <1>2 DEF Dostarcz
  <2>4. pc' \in [Proces -> Etykiety] /\ \A q \in Potomek : Nietknieta(q)
    BY <2>1
  <2>5. Nienarodzone'
    BY <1>2, <2>1 DEF Dostarcz, Zywy
  <2>6. zadanie = "5a" /\ pc'["main"] \in {"handler_wait", "koniec"} =>
           pc["main"] \in {"handler_wait", "koniec"}
    BY <2>1
  <2> QED BY <2>2, <2>3, <2>4, <2>5, <2>6
<1>3. CASE Handler(p)
  BY <1>3 DEF Handler
<1>4. CASE HandlerWait(p)
  BY <1>4 DEF HandlerWait
<1>5. CASE UsunPotok(p)
  BY <1>5 DEF UsunPotok
<1> QED BY <1>1, <1>2, <1>3, <1>4, <1>5

-----------------------------------------------------------------------------
(* All the bytes are in the input file.                                    *)
LEMMA InitIInv == Init => IInv
<1> SUFFICES ASSUME Init PROVE IInv
  OBVIOUS
<1>1. plik_wej \in Seq(Bajt) /\ <<>> \in Seq(Bajt) /\ Len(<<>>) = 0
  BY PotokAssumption, EmptySeq DEF Init
<1>2. Len(plik_wej) \in Nat
  BY <1>1, LenProperties
<1>3. pc \in [Proces -> Etykiety]
  BY DEF Init, Etykiety
<1>4. DaneOK
  BY <1>1, <1>2, PotokAssumption DEF Init, DaneOK, Proces
<1>5. TypeOK
  BY <1>3, <1>4, PrzesylanieAssumption DEF Init, TypeOK
<1>6. Puste /\ Usuniety /\ Nienarodzone
  BY DEF Init, Puste, Usuniety, Nienarodzone, Proces, Potomek
<1>7. Strumien
  <2>1. <<>> \o <<>> = <<>>
    BY <1>1, ConcatEmptySeq
  <2>2. SubSeq(plik_wej, 1, 0) = <<>>
    BY SubSeqEmpty
  <2> QED BY <2>1, <2>2 DEF Init, Strumien
<1> QED BY <1>5, <1>6, <1>7 DEF IInv

(* The inductive invariant holds in every reachable state.                 *)
THEOREM IInvNiezmiennik == Spec => []IInv
<1>1. IInv /\ [Next]_vars => IInv'
  <2> SUFFICES ASSUME IInv, [Next]_vars PROVE IInv'
    OBVIOUS
  <2>0. TypeOK /\ Nienarodzone
    BY DEF IInv
  <2>1. ASSUME NEW p \in Proces, Krok(p) PROVE IInv'
    <3>1. CASE Petla(p)
      BY <2>0, <3>1, PReadIInv, PWriteIInv, KReadIInv, KWriteIInv, Zad4Obok, ObokIInv
      DEF Petla
    <3>2. CASE Dostarcz(p) \/ Handler(p) \/ HandlerWait(p) \/ UsunPotok(p)
      BY <2>0, <3>2, SygnalObok, ObokIInv
    <3>3. CASE \/ p = "main" /\ (Mkfifo \/ MWait \/ \E q \in Potomek : Fork5(q))
               \/ p = "producent" /\ (Fork4 \/ PClose0 \/ PClose \/ PWait)
               \/ p = "konsument" /\ KClose1
               \/ p \in Potomek /\ (Exec(p) \/ Open(p) \/ OpenPotok(p) \/ BrakPotoku(p))
      <4>1. Potomek # {}
        BY DEF Potomek
      <4> QED BY <2>0, <3>3, <4>1, Zad4Obok, Zad5Obok, ObokIInv
    <3> QED BY <2>1, <3>1, <3>2, <3>3 DEF Krok
  <2>2. CASE Zaklocenie
    <3>1. Potomek # {} /\ Proces # {}
      BY DEF Potomek, Proces
    <3> QED BY <2>0, <2>2, <3>1, Zad4Obok, Zad5Obok, SygnalObok, ObokIInv, WriteNieudanyIInv
        DEF Zaklocenie
  <2>3. CASE UNCHANGED vars
    BY <2>3 DEF vars, dane, konce, otoczenie, IInv, TypeOK, DaneOK, Puste, Strumien, Usuniety,
                Nienarodzone
  <2> QED BY <2>1, <2>2, <2>3 DEF Next
<1> QED BY <1>1, InitIInv, PTL DEF Spec

(* The variables have their types for every file, buffer size and          *)
(* capacity: no chunk outgrows its buffer, nor the pipe its capacity.      *)
THEOREM TypOK == Spec => []TypeOK
<1>1. IInv => TypeOK
  BY DEF IInv
<1> QED BY <1>1, IInvNiezmiennik, PTL

(* For every file and every two buffer sizes, what the consumer of Zad_4   *)
(* and Zad_5 has written, followed by what is under way, is what the       *)
(* producer has read, in its order.                                        *)
THEOREM StrumienInv == Spec => []Strumien
<1>1. IInv => Strumien
  BY DEF IInv
<1> QED BY <1>1, IInvNiezmiennik, PTL

(* However many interrupts come, wherever they hit and whatever fails,     *)
(* main_5_a.c ends with the FIFO removed.                                  *)
THEOREM BezPotokuInv == Spec => []BezPotoku
<1>1. IInv => BezPotoku
  BY DEF IInv, Usuniety, BezPotoku
<1> QED BY <1>1, IInvNiezmiennik, PTL

-----------------------------------------------------------------------------
(* The whole copy.  The invariant says where each process of each task is, *)
(* which ends of the pipe it has open there, and how the three of a run    *)
(* stand to each other while nothing has gone wrong.                       *)

Kopiuje == {"read", "write", "close"}

(* Labels each process can be at, by the task.                             *)
ZFifo == {"brak", "przed_exec", "open", "open_potok", "czeka", "usun_potok",
          "handler", "handler_wait", "koniec"}
Role ==
  /\ pc["producent"] \in Kopiuje \cup
       (IF zadanie = "4" THEN {"fork", "close_0", "open", "wait", "koniec"} ELSE ZFifo)
  /\ pc["konsument"] \in Kopiuje \cup
       (IF zadanie = "4" THEN {"brak", "close_1", "open", "koniec"} ELSE ZFifo)
  /\ pc["main"] \in
       IF zadanie = "5a"
       THEN {"mkfifo", "fork_k", "fork_p", "wait", "usun_potok", "handler",
             "handler_wait", "koniec"}
       ELSE {"brak"}

(* Who has which end of the pipe open.                                     *)
Konce ==
  /\ piszacy \cup czytajacy \subseteq Potomek
  /\ "producent" \in piszacy <=>
       pc["producent"] \in Kopiuje \cup
         (IF zadanie = "4" THEN {"fork", "close_0", "open"} ELSE {"czeka"})
  /\ "konsument" \in czytajacy <=>
       pc["konsument"] \in Kopiuje \cup
         (IF zadanie = "4" THEN {"close_1", "open"} ELSE {"czeka"})
  /\ "konsument" \in piszacy <=> pc["konsument"] = "close_1"
  /\ "producent" \in czytajacy <=> pc["producent"] \in {"fork", "close_0"}

(* The second to open the FIFO does not wait.                              *)
JedenCzeka == ~ (pc["producent"] = "czeka" /\ pc["konsument"] = "czeka")

(* No Ctrl+C, and nothing failed but a write of the consumer; nothing at   *)
(* all.                                                                    *)
Spokojnie == bledy \subseteq {"write"} /\ wyslane = 0
Cicho     == bledy = {} /\ wyslane = 0

BezHandlera ==
  /\ zalegle = {}
  /\ \A p \in Proces : ~ WHandlerze(p)
  /\ \A p \in Potomek : pc[p] # "usun_potok"

(* There are two copying processes, and the FIFO as long as they are.      *)
Przebieg ==
  /\ zadanie = "4" => (pc["konsument"] = "brak" <=> pc["producent"] = "fork")
  /\ zadanie = "5a" =>
       /\ nazwa <=> pc["main"] \in {"fork_k", "fork_p", "wait", "usun_potok"}
       /\ pc["konsument"] = "brak" <=> pc["main"] \in {"mkfifo", "fork_k"}
       /\ pc["producent"] = "brak" <=> pc["main"] \in {"mkfifo", "fork_k", "fork_p"}
       /\ pc["main"] \in {"usun_potok", "koniec"} =>
            \A p \in Potomek : pc[p] = "koniec"
  /\ zadanie = "5b" => nazwa /\ \A p \in Potomek : pc[p] # "brak"

(* open() of the FIFO lets them go on together.                            *)
Razem == zadanie # "4" =>
  (pc["producent"] \in Kopiuje \cup {"koniec"}
     <=> pc["konsument"] \in Kopiuje \cup {"koniec"})

(* The producer stops at the end of the file, and the consumer after the   *)
(* producer, at the end of the stream.                                     *)
DoKonca ==
  /\ pc["producent"] \in {"close", "wait", "koniec"} =>
       pozycja = Len(plik_wej) /\ bufor = <<>>
  /\ pc["konsument"] \in {"close", "koniec"} =>
       /\ bufor_1 = <<>> /\ potok = <<>>
       /\ pc["producent"] \in {"wait", "koniec"}

Cisza == /\ Spokojnie => BezHandlera /\ Przebieg /\ Razem
         /\ Cicho => DoKonca

(* A SIGINT of the terminal hits everybody in Zad_5 (a): who is there has  *)
(* it still pending or is in the handler, and nobody is born any more.     *)
Przerwani == zadanie = "5a" /\ wyslane > 0 =>
               \A p \in Proces : Zywy(p) => p \in zalegle \/ WHandlerze(p)

Siec == Role /\ Konce /\ JedenCzeka /\ Cisza /\ Przerwani

LEMMA SiecInit == Init => Siec
<1> SUFFICES ASSUME Init PROVE Siec
  OBVIOUS
<1>1. /\ zadanie \in {"4", "5a", "5b"} /\ nazwa = (zadanie = "5b")
      /\ pc["producent"] = IF zadanie = "4" THEN "fork"
                           ELSE IF zadanie = "5b" THEN "open" ELSE "brak"
      /\ pc["konsument"] = IF zadanie = "5b" THEN "open" ELSE "brak"
      /\ pc["main"] = IF zadanie = "5a" THEN "mkfifo" ELSE "brak"
      /\ piszacy = (IF zadanie = "4" THEN {"producent"} ELSE {}) /\ czytajacy = piszacy
      /\ zalegle = {} /\ wyslane = 0 /\ bledy = {}
  BY DEF Init, Proces, Potomek
<1>2. Role
  BY <1>1 DEF Role, ZFifo, Kopiuje
<1>3. Konce
  BY <1>1 DEF Konce, Kopiuje, Potomek
<1>4. JedenCzeka /\ Przerwani
  BY <1>1 DEF JedenCzeka, Przerwani
<1>5. Cisza
  BY <1>1 DEF Cisza, Spokojnie, Cicho, BezHandlera, WHandlerze, Przebieg, Razem,
              DoKonca, Proces, Potomek, Kopiuje
<1> QED BY <1>2, <1>3, <1>4, <1>5 DEF Siec

(* The steps of the two loops.                                             *)
LEMMA PetlaSiec ==
  ASSUME IInv, Siec, NEW p \in Proces, Petla(p)
  PROVE  Siec'
<1> USE DEF Siec, Role, ZFifo, Kopiuje, Konce, JedenCzeka, Cisza, Spokojnie, Cicho,
            BezHandlera, WHandlerze, Przebieg, Razem, DoKonca, Przerwani, Proces,
            Potomek, TypeOK, Zywy
<1>0. TypeOK /\ UNCHANGED <<nazwa, zadanie, zalegle, wyslane, bledy, plik_wej>>
  BY DEF IInv, Petla, otoczenie, PRead, PWrite, PSigpipe, KRead, KEof, KWrite, KClose
<1>1. CASE PRead
  <2>1. pc'["producent"] = "close" => pozycja' = Len(plik_wej) /\ bufor' = <<>>
    <3> SUFFICES ASSUME pc'["producent"] = "close"
                 PROVE  pozycja' = Len(plik_wej) /\ bufor' = <<>>
      OBVIOUS
    <3> DEFINE koniec == Mniejsza(pozycja + WIELKOSC_PRODUCENT, Len(plik_wej))
    <3>1. koniec = pozycja /\ pozycja' = koniec
          /\ bufor' = SubSeq(plik_wej, pozycja + 1, koniec)
      BY <1>0, <1>1 DEF PRead
    <3>2. pozycja \in Nat /\ Len(plik_wej) \in Nat /\ pozycja <= Len(plik_wej)
      BY <1>0 DEF DaneOK
    <3>3. koniec = Len(plik_wej)
      BY <3>1, <3>2, PotokAssumption DEF Mniejsza
    <3> QED BY <3>1, <3>3, SubSeqEmpty, <3>2
  <2>2. /\ pc["producent"] = "read" /\ pc'["producent"] \in {"write", "close"}
        /\ pc'["konsument"] = pc["konsument"] /\ pc'["main"] = pc["main"]
        /\ UNCHANGED <<potok, bufor_1, konce>>
    BY <1>0, <1>1 DEF PRead
  <2> QED BY <1>0, <2>1, <2>2 DEF konce
<1>2. CASE PWrite
  BY <1>0, <1>2 DEF PWrite, konce
<1>3. CASE PSigpipe
  BY <1>0, <1>3 DEF PSigpipe, dane
<1>4. CASE KRead
  BY <1>0, <1>4 DEF KRead, konce
<1>5. CASE KEof
  BY <1>0, <1>5 DEF KEof, konce, dane, IInv, Puste, PrzedOdczytem
<1>6. CASE KWrite
  BY <1>0, <1>6 DEF KWrite, konce
<1>7. CASE KClose
  BY <1>0, <1>7 DEF KClose, dane
<1> QED BY <1>1, <1>2, <1>3, <1>4, <1>5, <1>6, <1>7 DEF Petla

(* The processes of Zad_4.                                                 *)
LEMMA Zad4Siec ==
  ASSUME IInv, Siec, Fork4 \/ Fork4Nieudany \/ KClose1 \/ PClose0 \/ PClose \/ PWait
  PROVE  Siec'
<1> USE DEF Siec, Role, ZFifo, Kopiuje, Konce, JedenCzeka, Cisza, Spokojnie, Cicho,
            BezHandlera, WHandlerze, Przebieg, Razem, DoKonca, Przerwani, Proces,
            Potomek, TypeOK, Zywy, Nienarodzone, otoczenie, konce, dane
<1>0. TypeOK /\ Nienarodzone /\ Puste
  BY DEF IInv
<1>1. CASE Fork4
  BY <1>0, <1>1 DEF Fork4
<1>2. CASE Fork4Nieudany
  BY <1>0, <1>2 DEF Fork4Nieudany, Awaria
<1>3. CASE KClose1
  BY <1>0, <1>3 DEF KClose1
<1>4. CASE PClose0
  BY <1>0, <1>4 DEF PClose0
<1>5. CASE PClose
  BY <1>0, <1>5 DEF PClose
<1>6. CASE PWait
  BY <1>0, <1>6 DEF PWait
<1> QED BY <1>1, <1>2, <1>3, <1>4, <1>5, <1>6

(* main of Zad_5, the opening of the files, and the write that fails.      *)
LEMMA Zad5Siec ==
  ASSUME IInv, Siec, NEW p \in Potomek,
         \/ Open(p) \/ OpenNieudany(p) \/ OpenPotok(p) \/ BrakPotoku(p) \/ Exec(p)
         \/ ExecNieudany(p) \/ Fork5(p) \/ Fork5Nieudany(p)
         \/ WriteNieudany \/ Mkfifo \/ MWait
  PROVE  Siec'
<1> USE DEF Siec, Role, ZFifo, Kopiuje, Konce, JedenCzeka, Cisza, Spokojnie, Cicho,
            BezHandlera, WHandlerze, Przebieg, Razem, DoKonca, Przerwani, Proces,
            Potomek, TypeOK, Zywy, Nienarodzone, otoczenie, konce, dane, Awaria, Fork
<1>0. TypeOK /\ Nienarodzone
  BY DEF IInv
<1>1. CASE Open(p)
  BY <1>0, <1>1 DEF Open
<1>2. CASE OpenNieudany(p)
  BY <1>0, <1>2 DEF OpenNieudany
<1>3. CASE OpenPotok(p)
  BY <1>0, <1>3 DEF OpenPotok, Drugi
<1>4. CASE BrakPotoku(p)
  BY <1>0, <1>4 DEF BrakPotoku
<1>5. CASE Exec(p)
  BY <1>0, <1>5 DEF Exec
<1>6. CASE ExecNieudany(p)
  BY <1>0, <1>6 DEF ExecNieudany
<1>7. CASE Fork5(p)
  BY <1>0, <1>7 DEF Fork5
<1>8. CASE Fork5Nieudany(p)
  BY <1>0, <1>8 DEF Fork5Nieudany
<1>9. CASE WriteNieudany
  BY <1>0, <1>9 DEF WriteNieudany
<1>10. CASE Mkfifo
  BY <1>0, <1>10 DEF Mkfifo
<1>11. CASE MWait
  BY <1>0, <1>11 DEF MWait
<1> QED BY <1>1, <1>2, <1>3, <1>4, <1>5, <1>6, <1>7, <1>8, <1>9, <1>10, <1>11

(* Signals, and the two ways to remove the FIFO.                           *)
LEMMA SygnalSiec ==
  ASSUME IInv, Siec, NEW p \in Proces,
         Sigint \/ Dostarcz(p) \/ Handler(p) \/ HandlerWait(p) \/ UsunPotok(p)
  PROVE  Siec'
<1> USE DEF Siec, Role, ZFifo, Kopiuje, Konce, JedenCzeka, Cisza, Spokojnie, Cicho,
            BezHandlera, WHandlerze, Przebieg, Razem, DoKonca, Przerwani, Proces,
            Potomek, TypeOK, Zywy, otoczenie, konce, dane
<1>0. TypeOK
  BY DEF IInv
<1>1. CASE Sigint
  BY <1>0, <1>1 DEF Sigint
<1>2. CASE Dostarcz(p)
  BY <1>0, <1>2 DEF Dostarcz, ZHandlerem
<1>3. CASE Handler(p)
  BY <1>0, <1>3 DEF Handler
<1>4. CASE HandlerWait(p)
  BY <1>0, <1>4 DEF HandlerWait
<1>5. CASE UsunPotok(p)
  BY <1>0, <1>5 DEF UsunPotok
<1> QED BY <1>1, <1>2, <1>3, <1>4, <1>5

LEMMA SiecStep == IInv /\ Siec /\ [Next]_vars => Siec'
<1> SUFFICES ASSUME IInv, Siec, [Next]_vars PROVE Siec'
  OBVIOUS
<1>1. ASSUME NEW p \in Proces, Krok(p) PROVE Siec'
  <2>1. CASE Petla(p)
    BY <2>1, PetlaSiec
  <2>2. CASE Dostarcz(p) \/ Handler(p) \/ HandlerWait(p) \/ UsunPotok(p)
    BY <2>2, SygnalSiec
  <2>3. CASE \/ p = "main" /\ (Mkfifo \/ MWait \/ \E q \in Potomek : Fork5(q))
             \/ p = "producent" /\ (Fork4 \/ PClose0 \/ PClose \/ PWait)
             \/ p = "konsument" /\ KClose1
             \/ p \in Potomek /\ (Exec(p) \/ Open(p) \/ OpenPotok(p) \/ BrakPotoku(p))
    <3>1. Potomek # {}
      BY DEF Potomek
    <3> QED BY <2>3, <3>1, Zad4Siec, Zad5Siec
  <2> QED BY <1>1, <2>1, <2>2, <2>3 DEF Krok
<1>2. CASE Zaklocenie
  <2>1. Potomek # {} /\ Proces # {}
    BY DEF Potomek, Proces
  <2> QED BY <1>2, <2>1, Zad4Siec, Zad5Siec, SygnalSiec DEF Zaklocenie
<1>3. CASE UNCHANGED vars
  BY <1>3 DEF vars, dane, konce, otoczenie, Siec, Role, Konce, JedenCzeka, Cisza,
              Spokojnie, Cicho, BezHandlera, WHandlerze, Przebieg, Razem, DoKonca,
              Przerwani, Zywy
<1> QED BY <1>1, <1>2, <1>3 DEF Next

LEMMA SiecInv == Spec => []Siec
  BY SiecInit, SiecStep, IInvNiezmiennik, PTL DEF Spec

(* When all have ended, and nothing failed and nobody interrupted them,    *)
(* the output file is the input file, neither shorter nor longer.          *)
CalaKopia == Koniec /\ Cicho => plik_wyj = plik_wej

(* Zad_4 and Zad_5 copy the file, for every file, every two sizes of the   *)
(* chunks and every capacity of the pipe: the consumer sees the end of the *)
(* stream only after the producer has seen the end of the file, and the    *)
(* pipe does not break before.                                             *)
THEOREM CalaKopiaInv == Spec => []CalaKopia
<1>1. IInv /\ Siec => CalaKopia
  <2> SUFFICES ASSUME IInv, Siec, Koniec, Cicho PROVE plik_wyj = plik_wej
    BY DEF CalaKopia
  <2>1. TypeOK /\ DaneOK /\ Spokojnie
    BY DEF IInv, TypeOK, Cicho, Spokojnie
  <2>2. pc["producent"] \in {"brak", "koniec"} /\ pc["konsument"] \in {"brak", "koniec"}
        /\ pc["main"] \in {"brak", "koniec"}
    BY DEF Koniec, Zywy, Proces
  <2>3. pc["producent"] = "koniec" /\ pc["konsument"] = "koniec"
    BY <2>1, <2>2 DEF Siec, Role, ZFifo, Kopiuje, Cisza, Przebieg, TypeOK, Potomek
  <2>4. pozycja = Len(plik_wej) /\ bufor = <<>> /\ bufor_1 = <<>> /\ potok = <<>>
    BY <2>3 DEF Siec, Cisza, DoKonca
  <2>5. plik_wyj \o <<>> = plik_wyj
    BY <2>1, ConcatEmptySeq DEF DaneOK
  <2>6. SubSeq(plik_wej, 1, Len(plik_wej)) = plik_wej
    BY <2>1, SubSeqFull DEF DaneOK
  <2> QED BY <2>4, <2>5, <2>6 DEF IInv, Strumien
<1> QED BY <1>1, IInvNiezmiennik, SiecInv, PTL

-----------------------------------------------------------------------------
(* Progress.                                                               *)

(* A process that waits for another one.                                   *)
Stoi(p) == \/ pc[p] = "czeka"
           \/ p = "producent" /\ pc[p] = "wait" /\ Zywy("konsument")
           \/ /\ p = "producent" /\ pc[p] = "write" /\ czytajacy # {}
              /\ Len(potok) + Len(bufor) > Pojemnosc
           \/ p = "konsument" /\ pc[p] = "read" /\ potok = <<>> /\ piszacy # {}
           \/ /\ p = "main" /\ pc[p] \in {"wait", "handler_wait"}
              /\ \E q \in Potomek : Zywy(q)
Moze(p) == Zywy(p) /\ (~ Stoi(p) \/ (p \in zalegle /\ ~ WHandlerze(p)))

(* Somebody can go on until all have ended, but for a program of Zad_5     *)
(* whose partner never comes to open the FIFO.                             *)
BezZakleszczenia == ~ Koniec /\ ~ BezDrugiego => \E p \in Proces : Moze(p)

(* In Zad_4 the ends that are closed keep one of the two going: a full     *)
(* pipe has a reader, an empty one a writer or its end.                    *)
LEMMA Zad4Moze ==
  ASSUME IInv, Siec, ~ Koniec, zadanie = "4"
  PROVE  \E p \in Proces : Moze(p)
<1> USE DEF Moze, Stoi, Zywy, Proces, Siec, Role, Kopiuje
<1>0. TypeOK /\ DaneOK
  BY DEF IInv, TypeOK
<1>1. CASE ~ Zywy("konsument")
  <2>1. Zywy("producent") /\ pc["main"] = "brak" /\ "konsument" \notin czytajacy
    BY <1>1, <1>0 DEF Koniec, Konce
  <2>2. czytajacy = {} \/ pc["producent"] \in {"fork", "close_0"}
    BY <2>1 DEF Konce, Potomek
  <2> QED BY <1>1, <2>1, <2>2
<1>2. CASE Zywy("konsument") /\ (pc["konsument"] # "read" \/ potok # <<>> \/ piszacy = {})
  BY <1>2
<1>3. CASE pc["konsument"] = "read" /\ potok = <<>> /\ piszacy # {}
  <2>1. "producent" \in piszacy
    BY <1>3 DEF Konce, Potomek
  <2>2. pc["producent"] \in Kopiuje \cup {"fork", "close_0", "open"}
    BY <2>1 DEF Konce
  <2>3. Len(potok) + Len(bufor) <= Pojemnosc
    BY <1>0, <1>3, PotokAssumption, EmptySeq DEF DaneOK
  <2> QED BY <2>2, <2>3, <1>0, PotokAssumption DEF DaneOK
<1> QED BY <1>1, <1>2, <1>3

(* In Zad_5 (a) a SIGINT gets everybody to the end, and the children       *)
(* before main.                                                            *)
LEMMA PrzerwaniMoga ==
  ASSUME IInv, Siec, ~ Koniec, zadanie = "5a", wyslane > 0
  PROVE  \E p \in Proces : Moze(p)
<1> USE DEF Moze, Stoi, Zywy, Proces, Potomek, WHandlerze, Siec, Przerwani
<1>1. CASE \E q \in Potomek : Zywy(q)
  BY <1>1
<1>2. CASE ~ \E q \in Potomek : Zywy(q)
  BY <1>2 DEF Koniec
<1> QED BY <1>1, <1>2

(* Undisturbed, the one who has opened the FIFO waits for one to come.     *)
LEMMA SpokojniMoga ==
  ASSUME IInv, Siec, ~ Koniec, zadanie # "4", Spokojnie
  PROVE  \E p \in Proces : Moze(p)
<1> USE DEF Moze, Stoi, Zywy, Proces, Potomek, Siec, Role, ZFifo, Kopiuje, Cisza
<1>0. TypeOK /\ DaneOK
  BY DEF IInv, TypeOK
<1>1. BezHandlera /\ Przebieg /\ Razem /\ zadanie \in {"5a", "5b"}
  BY <1>0 DEF TypeOK
<1>2. CASE ~ Zywy("producent") /\ ~ Zywy("konsument")
  BY <1>1, <1>2 DEF Koniec
<1>3. CASE pc["producent"] \in {"przed_exec", "open", "open_potok", "read", "close"}
  BY <1>3
<1>4. CASE pc["konsument"] \in {"przed_exec", "open", "open_potok", "write", "close"}
  BY <1>4
<1>5. CASE pc["main"] \in {"mkfifo", "fork_k", "fork_p", "usun_potok"}
  BY <1>5
<1>6. CASE pc["konsument"] = "read" /\ pc["producent"] = "write"
  <2>1. CASE potok = <<>>
    <3>1. Len(potok) + Len(bufor) <= Pojemnosc
      BY <1>0, <2>1, PotokAssumption, EmptySeq DEF DaneOK
    <3> QED BY <1>6, <3>1, <1>0, PotokAssumption DEF DaneOK
  <2>2. CASE potok # <<>>
    BY <1>6, <2>2
  <2> QED BY <2>1, <2>2
<1>7. CASE pc["konsument"] = "read" /\ pc["producent"] = "koniec"
  BY <1>7 DEF Konce
<1>8. CASE pc["producent"] = "write" /\ pc["konsument"] = "koniec"
  BY <1>8 DEF Konce
<1> QED BY <1>0, <1>1, <1>2, <1>3, <1>4, <1>5, <1>6, <1>7, <1>8
        DEF BezHandlera, Przebieg, Razem, JedenCzeka, WHandlerze

(* Until all have ended somebody can go on, whatever the file, the sizes   *)
(* and the signals, with the ends of the pipe closed as main_4.c does.     *)
THEOREM BezZakleszczeniaInv == Spec => []BezZakleszczenia
<1>1. IInv /\ Siec => BezZakleszczenia
  <2> SUFFICES ASSUME IInv, Siec, ~ Koniec, ~ BezDrugiego
               PROVE  \E p \in Proces : Moze(p)
    BY DEF BezZakleszczenia
  <2>1. wyslane \in Nat /\ zadanie \in {"4", "5a", "5b"}
    BY PrzesylanieAssumption DEF IInv, TypeOK
  <2>2. CASE zadanie = "4"
    BY <2>2, Zad4Moze
  <2>3. CASE zadanie = "5a" /\ wyslane > 0
    BY <2>3, PrzerwaniMoga
  <2>4. CASE zadanie # "4" /\ ~ (zadanie = "5a" /\ wyslane > 0)
    BY <2>1, <2>4, SpokojniMoga DEF BezDrugiego, Spokojnie
  <2> QED BY <2>2, <2>3, <2>4
<1> QED BY <1>1, IInvNiezmiennik, SiecInv, PTL

(* What is left: the steps of each process to its end, less than two for   *)
(* every byte to be read from the file and from the pipe, and the SIGINTs. *)
Waga(e) == CASE e = "brak"                                  -> 18
             [] e \in {"fork", "mkfifo"}                    -> 17
             [] e = "fork_k"                                -> 16
             [] e = "fork_p"                                -> 15
             [] e \in {"close_0", "close_1", "przed_exec"}  -> 14
             [] e = "open"                                  -> 13
             [] e = "open_potok"                            -> 12
             [] e = "czeka"                                 -> 11
             [] e = "write"                                 -> 10
             [] e = "read"                                  -> 9
             [] e = "close"                                 -> 8
             [] e = "wait"                                  -> 7
             [] e = "usun_potok"                            -> 6
             [] e = "handler"                               -> 5
             [] e = "handler_wait"                          -> 4
             [] OTHER                                       -> 0
Wagi    == Waga(pc["main"]) + Waga(pc["producent"]) + Waga(pc["konsument"])
WDrodze == 4 * (Len(plik_wej) - pozycja) + 2 * (Len(bufor) + Len(potok))
Reszta  == Wagi + WDrodze + (MaxSigint - wyslane)

(* Every step of every process, and every SIGINT, uses some of it up.      *)
Naturalne == Reszta \in Nat
Ubywa     == [][Reszta' < Reszta]_vars

LEMMA WagaNat == \A e : Waga(e) \in 0..18
  BY DEF Waga

LEMMA ResztaNat == TypeOK => Wagi \in Nat /\ WDrodze \in Nat /\ Naturalne
<1> SUFFICES ASSUME TypeOK PROVE Wagi \in Nat /\ WDrodze \in Nat /\ Naturalne
  OBVIOUS
<1>1. Wagi \in Nat
  BY WagaNat DEF Wagi
<1>2. WDrodze \in Nat
  BY DEF WDrodze, TypeOK, DaneOK
<1>3. MaxSigint - wyslane \in Nat
  BY PrzesylanieAssumption DEF TypeOK
<1> QED BY <1>1, <1>2, <1>3 DEF Naturalne, Reszta

(* A process that goes one label down, or falls out of the copy.           *)
LEMMA SkokUbywa ==
  ASSUME TypeOK, NEW p \in Proces, NEW e \in Etykiety, Waga(e) < Waga(pc[p]),
         pc' = [pc EXCEPT ![p] = e], UNCHANGED <<plik_wej, dane, wyslane>>
  PROVE  Reszta' < Reszta
<1>1. Wagi' < Wagi
  BY WagaNat DEF Wagi, Proces, TypeOK
<1>2. WDrodze' = WDrodze
  BY DEF WDrodze, dane
<1>3. Wagi \in Nat /\ Wagi' \in Nat
  BY WagaNat DEF Wagi
<1> QED BY <1>1, <1>2, <1>3, ResztaNat, PrzesylanieAssumption DEF Reszta, TypeOK

(* Two processes, of which one goes down more than the other goes up.      *)
LEMMA DwaUbywa ==
  ASSUME TypeOK, NEW p \in Proces, NEW q \in Proces \ {p},
         NEW e \in Etykiety, NEW f \in Etykiety,
         Waga(e) + Waga(f) < Waga(pc[p]) + Waga(pc[q]),
         pc' = [pc EXCEPT ![p] = e, ![q] = f],
         UNCHANGED <<plik_wej, dane, wyslane>>
  PROVE  Reszta' < Reszta
<1>1. Wagi' < Wagi
  <2>1. \A r \in Proces : pc'[r] = IF r = p THEN e ELSE IF r = q THEN f ELSE pc[r]
    BY DEF TypeOK
  <2>2. \A r \in Proces : Waga(pc[r]) \in Nat
    BY WagaNat
  <2>3. Waga(e) \in Nat /\ Waga(f) \in Nat
    BY WagaNat
  <2>4. p = "main" \/ p = "producent" \/ p = "konsument"
    BY DEF Proces
  <2>5. q = "main" \/ q = "producent" \/ q = "konsument"
    BY DEF Proces
  <2> QED BY <2>1, <2>2, <2>3, <2>4, <2>5 DEF Wagi, Proces
<1>2. WDrodze' = WDrodze
  BY DEF WDrodze, dane
<1>3. Wagi \in Nat /\ Wagi' \in Nat
  BY WagaNat DEF Wagi
<1> QED BY <1>1, <1>2, <1>3, ResztaNat, PrzesylanieAssumption DEF Reszta, TypeOK

(* The steps that move data: a chunk weighs less for every byte in it.     *)
LEMMA PReadUbywa ==
  ASSUME TypeOK, PRead, bufor = <<>>, wyslane' = wyslane
  PROVE  Reszta' < Reszta
<1> DEFINE koniec == Mniejsza(pozycja + WIELKOSC_PRODUCENT, Len(plik_wej))
<1>0. DaneOK /\ WIELKOSC_PRODUCENT \in Nat \ {0}
  BY PotokAssumption DEF TypeOK
<1>1. /\ plik_wej \in Seq(Bajt) /\ Len(plik_wej) \in Nat
      /\ pozycja \in 0..Len(plik_wej) /\ Len(potok) \in Nat /\ Len(bufor) = 0
  BY <1>0, EmptySeq DEF DaneOK
<1>2. koniec \in pozycja..Len(plik_wej)
  BY <1>0, <1>1 DEF Mniejsza
<1>3. /\ pozycja' = koniec /\ bufor' = SubSeq(plik_wej, pozycja + 1, koniec)
      /\ pc["producent"] = "read"
      /\ pc' = [pc EXCEPT !["producent"] = IF koniec = pozycja THEN "close" ELSE "write"]
      /\ UNCHANGED <<plik_wej, potok, bufor_1, plik_wyj>>
  BY DEF PRead
<1> HIDE DEF koniec
<1>4. Len(bufor') = koniec - pozycja
  <2>1. \A j \in (pozycja + 1)..koniec : plik_wej[j] \in Bajt
    BY <1>1, <1>2, ElementOfSeq
  <2> QED BY <1>1, <1>2, <1>3, <2>1, SubSeqProperties
<1>5. WDrodze' = WDrodze - 2 * (koniec - pozycja)
  <2>1. WDrodze' = 4 * (Len(plik_wej) - koniec) + 2 * ((koniec - pozycja) + Len(potok))
    BY <1>3, <1>4 DEF WDrodze
  <2>2. WDrodze = 4 * (Len(plik_wej) - pozycja) + 2 * (0 + Len(potok))
    BY <1>1 DEF WDrodze
  <2> QED BY <1>1, <1>2, <2>1, <2>2
<1>6. Wagi' = Wagi + (IF koniec = pozycja THEN 0 - 1 ELSE 1)
  BY <1>3, WagaNat DEF Wagi, Waga, TypeOK, Proces
<1>7. Wagi \in Nat /\ WDrodze \in Nat /\ MaxSigint - wyslane \in Nat
  BY ResztaNat, PrzesylanieAssumption DEF TypeOK
<1> QED BY <1>1, <1>2, <1>5, <1>6, <1>7, PrzesylanieAssumption DEF Reszta, TypeOK

LEMMA PWriteUbywa ==
  ASSUME TypeOK, PWrite, wyslane' = wyslane
  PROVE  Reszta' < Reszta
<1>0. DaneOK
  BY DEF TypeOK
<1>1. WDrodze' = WDrodze
  <2>1. Len(potok \o bufor) = Len(potok) + Len(bufor) /\ Len(<<>>) = 0
    BY <1>0, ConcatProperties, EmptySeq DEF DaneOK
  <2>2. Len(potok) \in Nat /\ Len(bufor) \in Nat
    BY <1>0 DEF DaneOK
  <2> QED BY <2>1, <2>2 DEF PWrite, WDrodze
<1>2. Wagi' = Wagi - 1
  BY WagaNat DEF PWrite, Wagi, Waga, TypeOK, Proces
<1>3. Wagi \in Nat /\ WDrodze \in Nat /\ MaxSigint - wyslane \in Nat
  BY ResztaNat, PrzesylanieAssumption DEF TypeOK
<1> QED BY <1>1, <1>2, <1>3, PrzesylanieAssumption DEF Reszta, TypeOK

LEMMA KReadUbywa ==
  ASSUME TypeOK, KRead, wyslane' = wyslane
  PROVE  Reszta' < Reszta
<1> DEFINE n == Mniejsza(WIELKOSC_KONSUMENT, Len(potok))
<1>0. DaneOK /\ WIELKOSC_KONSUMENT \in Nat \ {0}
  BY PotokAssumption DEF TypeOK
<1>1. potok \in Seq(Bajt) /\ Len(potok) \in Nat \ {0} /\ Len(bufor) \in Nat
  BY <1>0, EmptySeq DEF DaneOK, KRead
<1>2. n \in 1..Len(potok)
  BY <1>0, <1>1 DEF Mniejsza
<1>3. /\ potok' = SubSeq(potok, n + 1, Len(potok)) /\ pc["konsument"] = "read"
      /\ pc' = [pc EXCEPT !["konsument"] = "write"]
      /\ UNCHANGED <<plik_wej, pozycja, bufor, plik_wyj>>
  BY DEF KRead
<1> HIDE DEF n
<1>4. Len(potok') = Len(potok) - n
  <2>1. \A j \in (n + 1)..Len(potok) : potok[j] \in Bajt
    BY <1>1, <1>2, ElementOfSeq
  <2> QED BY <1>1, <1>2, <1>3, <2>1, SubSeqProperties
<1>5. WDrodze' = WDrodze - 2 * n
  <2>1. /\ Len(plik_wej) \in Nat /\ pozycja \in Nat /\ Len(potok) \in Nat
        /\ Len(bufor) \in Nat /\ n \in Nat
    BY <1>0, <1>1, <1>2 DEF DaneOK
  <2>2. WDrodze' = 4 * (Len(plik_wej) - pozycja) + 2 * (Len(bufor) + (Len(potok) - n))
    BY <1>3, <1>4 DEF WDrodze
  <2> QED BY <2>1, <2>2 DEF WDrodze
<1>6. Wagi' = Wagi + 1
  BY <1>3, WagaNat DEF Wagi, Waga, TypeOK, Proces
<1>7. Wagi \in Nat /\ WDrodze \in Nat /\ MaxSigint - wyslane \in Nat
  BY ResztaNat, PrzesylanieAssumption DEF TypeOK
<1> QED BY <1>1, <1>2, <1>5, <1>6, <1>7, PrzesylanieAssumption DEF Reszta, TypeOK

LEMMA KWriteUbywa ==
  ASSUME TypeOK, KWrite, wyslane' = wyslane
  PROVE  Reszta' < Reszta
<1>1. WDrodze' = WDrodze
  BY DEF KWrite, WDrodze
<1>2. Wagi' = Wagi - 1
  BY WagaNat DEF KWrite, Wagi, Waga, TypeOK, Proces
<1>3. Wagi \in Nat /\ WDrodze \in Nat /\ MaxSigint - wyslane \in Nat
  BY ResztaNat, PrzesylanieAssumption DEF TypeOK
<1> QED BY <1>1, <1>2, <1>3, PrzesylanieAssumption DEF Reszta, TypeOK

LEMMA WriteNieudanyUbywa ==
  ASSUME TypeOK, WriteNieudany
  PROVE  Reszta' < Reszta
<1>0. wyslane' = wyslane
  BY DEF WriteNieudany, Awaria
<1>1. WDrodze' = WDrodze
  BY DEF WriteNieudany, WDrodze
<1>2. Wagi' = Wagi - 10
  BY WagaNat DEF WriteNieudany, Wagi, Waga, TypeOK, Proces
<1>3. Wagi \in Nat /\ WDrodze \in Nat /\ MaxSigint - wyslane \in Nat
  BY ResztaNat, PrzesylanieAssumption DEF TypeOK
<1> QED BY <1>0, <1>1, <1>2, <1>3, PrzesylanieAssumption DEF Reszta, TypeOK

(* A move of one process to a lower label, beside the data.                *)
Nizej == \E p \in Proces, e \in Etykiety :
           /\ Waga(e) < Waga(pc[p]) /\ pc' = [pc EXCEPT ![p] = e]
           /\ UNCHANGED <<plik_wej, dane, wyslane>>

LEMMA WagaTab ==
  /\ Waga("brak") = 18 /\ Waga("fork") = 17 /\ Waga("mkfifo") = 17
  /\ Waga("fork_k") = 16 /\ Waga("fork_p") = 15
  /\ Waga("close_0") = 14 /\ Waga("close_1") = 14 /\ Waga("przed_exec") = 14
  /\ Waga("open") = 13 /\ Waga("open_potok") = 12 /\ Waga("czeka") = 11
  /\ Waga("write") = 10 /\ Waga("read") = 9 /\ Waga("close") = 8
  /\ Waga("wait") = 7 /\ Waga("usun_potok") = 6 /\ Waga("handler") = 5
  /\ Waga("handler_wait") = 4 /\ Waga("koniec") = 0
  BY DEF Waga

(* Only a process that has ended has nothing left.                         *)
LEMMA WagaZywego == \A e \in Etykiety \ {"koniec"} : Waga(e) >= 4
  BY WagaTab DEF Etykiety

LEMMA NizejZ ==
  ASSUME NEW p \in Proces, NEW e \in Etykiety, Waga(e) < Waga(pc[p]),
         pc' = [pc EXCEPT ![p] = e], UNCHANGED <<plik_wej, dane, wyslane>>
  PROVE  Nizej
  BY DEF Nizej

LEMMA NizejUbywa == TypeOK /\ Nizej => Reszta' < Reszta
  BY SkokUbywa DEF Nizej

LEMMA PetlaUbywa ==
  ASSUME IInv, NEW p \in Proces, Petla(p)
  PROVE  Reszta' < Reszta
<1>0. TypeOK /\ Puste /\ wyslane' = wyslane
  BY DEF IInv, Petla, otoczenie
<1>1. CASE PRead
  BY <1>0, <1>1, PReadUbywa DEF PRead, Puste, PrzedOdczytem
<1>2. CASE PWrite \/ KRead \/ KWrite
  BY <1>0, <1>2, PWriteUbywa, KReadUbywa, KWriteUbywa
<1>3. CASE PSigpipe
  <2>1. Nizej
    <3>1. /\ pc["producent"] = "write" /\ pc' = [pc EXCEPT !["producent"] = "koniec"]
          /\ UNCHANGED <<plik_wej, dane, wyslane>>
      BY <1>0, <1>3 DEF PSigpipe
    <3>2. Waga("koniec") < Waga(pc["producent"]) /\ "producent" \in Proces /\ "koniec" \in Etykiety
      BY <3>1, WagaTab DEF Proces, Etykiety
    <3> QED BY <3>1, <3>2, NizejZ
  <2> QED BY <1>0, <2>1, NizejUbywa
<1>4. CASE KEof
  <2>1. Nizej
    <3>1. /\ pc["konsument"] = "read" /\ pc' = [pc EXCEPT !["konsument"] = "close"]
          /\ UNCHANGED <<plik_wej, dane, wyslane>>
      BY <1>0, <1>4 DEF KEof
    <3>2. Waga("close") < Waga(pc["konsument"]) /\ "konsument" \in Proces /\ "close" \in Etykiety
      BY <3>1, WagaTab DEF Proces, Etykiety
    <3> QED BY <3>1, <3>2, NizejZ
  <2> QED BY <1>0, <2>1, NizejUbywa
<1>5. CASE KClose
  <2>1. Nizej
    <3>1. /\ pc["konsument"] = "close" /\ pc' = [pc EXCEPT !["konsument"] = "koniec"]
          /\ UNCHANGED <<plik_wej, dane, wyslane>>
      BY <1>0, <1>5 DEF KClose
    <3>2. Waga("koniec") < Waga(pc["konsument"]) /\ "konsument" \in Proces /\ "koniec" \in Etykiety
      BY <3>1, WagaTab DEF Proces, Etykiety
    <3> QED BY <3>1, <3>2, NizejZ
  <2> QED BY <1>0, <2>1, NizejUbywa
<1> QED BY <1>1, <1>2, <1>3, <1>4, <1>5 DEF Petla

(* The steps of one process outside the loops.                             *)
LEMMA ResztaZad4 ==
  ASSUME TypeOK, Fork4Nieudany \/ KClose1 \/ PClose0 \/ PClose \/ PWait
  PROVE  Nizej
<1> USE WagaTab DEF Proces, Etykiety, otoczenie, Awaria
<1>1. CASE Fork4Nieudany
  <2>1. /\ pc["producent"] = "fork" /\ pc' = [pc EXCEPT !["producent"] = "koniec"]
        /\ UNCHANGED <<plik_wej, dane, wyslane>>
    BY <1>1 DEF Fork4Nieudany
  <2>2. Waga("koniec") < Waga(pc["producent"]) /\ "producent" \in Proces /\ "koniec" \in Etykiety
    BY <2>1
  <2> QED BY <2>1, <2>2, NizejZ
<1>2. CASE KClose1
  <2>1. /\ pc["konsument"] = "close_1" /\ pc' = [pc EXCEPT !["konsument"] = "open"]
        /\ UNCHANGED <<plik_wej, dane, wyslane>>
    BY <1>2 DEF KClose1
  <2>2. Waga("open") < Waga(pc["konsument"]) /\ "konsument" \in Proces /\ "open" \in Etykiety
    BY <2>1
  <2> QED BY <2>1, <2>2, NizejZ
<1>3. CASE PClose0
  <2>1. /\ pc["producent"] = "close_0" /\ pc' = [pc EXCEPT !["producent"] = "open"]
        /\ UNCHANGED <<plik_wej, dane, wyslane>>
    BY <1>3 DEF PClose0
  <2>2. Waga("open") < Waga(pc["producent"]) /\ "producent" \in Proces /\ "open" \in Etykiety
    BY <2>1
  <2> QED BY <2>1, <2>2, NizejZ
<1>4. CASE PClose
  <2>1. PICK e \in {"wait", "koniec"} :
          /\ pc["producent"] = "close" /\ pc' = [pc EXCEPT !["producent"] = e]
          /\ UNCHANGED <<plik_wej, dane, wyslane>>
    BY <1>4 DEF PClose
  <2>2. Waga(e) < Waga(pc["producent"])
    BY <2>1
  <2> QED BY <2>1, <2>2, NizejZ
<1>5. CASE PWait
  <2>1. /\ pc["producent"] = "wait" /\ pc' = [pc EXCEPT !["producent"] = "koniec"]
        /\ UNCHANGED <<plik_wej, dane, wyslane>>
    BY <1>5 DEF PWait
  <2>2. Waga("koniec") < Waga(pc["producent"]) /\ "producent" \in Proces /\ "koniec" \in Etykiety
    BY <2>1
  <2> QED BY <2>1, <2>2, NizejZ
<1> QED BY <1>1, <1>2, <1>3, <1>4, <1>5

LEMMA ResztaZad5 ==
  ASSUME TypeOK, NEW p \in Potomek,
         \/ Open(p) \/ OpenNieudany(p) \/ BrakPotoku(p) \/ Exec(p)
         \/ ExecNieudany(p) \/ Fork5Nieudany(p) \/ Mkfifo \/ MWait
  PROVE  Nizej
<1> USE WagaTab DEF Proces, Potomek, Etykiety, otoczenie, Awaria
<1>1. CASE Open(p)
  <2>1. PICK e \in {"read", "open_potok"} :
          /\ pc[p] = "open" /\ pc' = [pc EXCEPT ![p] = e]
          /\ UNCHANGED <<plik_wej, dane, wyslane>>
    BY <1>1 DEF Open
  <2>2. Waga(e) < Waga(pc[p])
    BY <2>1
  <2> QED BY <2>1, <2>2, NizejZ
<1>2. CASE OpenNieudany(p)
  <2>1. /\ pc[p] = "open" /\ pc' = [pc EXCEPT ![p] = "koniec"]
        /\ UNCHANGED <<plik_wej, dane, wyslane>>
    BY <1>2 DEF OpenNieudany
  <2>2. Waga("koniec") < Waga(pc[p]) /\ "koniec" \in Etykiety
    BY <2>1
  <2> QED BY <2>1, <2>2, NizejZ
<1>3. CASE BrakPotoku(p)
  <2>1. /\ pc[p] = "open_potok" /\ pc' = [pc EXCEPT ![p] = "koniec"]
        /\ UNCHANGED <<plik_wej, dane, wyslane>>
    BY <1>3 DEF BrakPotoku
  <2>2. Waga("koniec") < Waga(pc[p]) /\ "koniec" \in Etykiety
    BY <2>1
  <2> QED BY <2>1, <2>2, NizejZ
<1>4. CASE Exec(p)
  <2>1. /\ pc[p] = "przed_exec" /\ pc' = [pc EXCEPT ![p] = "open"]
        /\ UNCHANGED <<plik_wej, dane, wyslane>>
    BY <1>4 DEF Exec
  <2>2. Waga("open") < Waga(pc[p]) /\ "open" \in Etykiety
    BY <2>1
  <2> QED BY <2>1, <2>2, NizejZ
<1>5. CASE ExecNieudany(p)
  <2>1. /\ pc[p] = "przed_exec" /\ pc' = [pc EXCEPT ![p] = "usun_potok"]
        /\ UNCHANGED <<plik_wej, dane, wyslane>>
    BY <1>5 DEF ExecNieudany
  <2>2. Waga("usun_potok") < Waga(pc[p]) /\ "usun_potok" \in Etykiety
    BY <2>1
  <2> QED BY <2>1, <2>2, NizejZ
<1>6. CASE Fork5Nieudany(p)
  <2>1. /\ pc["main"] \in {"fork_k", "fork_p"} /\ pc' = [pc EXCEPT !["main"] = "usun_potok"]
        /\ UNCHANGED <<plik_wej, dane, wyslane>>
    BY <1>6 DEF Fork5Nieudany, Fork
  <2>2. Waga("usun_potok") < Waga(pc["main"]) /\ "main" \in Proces /\ "usun_potok" \in Etykiety
    BY <2>1
  <2> QED BY <2>1, <2>2, NizejZ
<1>7. CASE Mkfifo
  <2>1. /\ pc["main"] = "mkfifo" /\ pc' = [pc EXCEPT !["main"] = "fork_k"]
        /\ UNCHANGED <<plik_wej, dane, wyslane>>
    BY <1>7 DEF Mkfifo
  <2>2. Waga("fork_k") < Waga(pc["main"]) /\ "main" \in Proces /\ "fork_k" \in Etykiety
    BY <2>1
  <2> QED BY <2>1, <2>2, NizejZ
<1>8. CASE MWait
  <2>1. /\ pc["main"] = "wait" /\ pc' = [pc EXCEPT !["main"] = "usun_potok"]
        /\ UNCHANGED <<plik_wej, dane, wyslane>>
    BY <1>8 DEF MWait
  <2>2. Waga("usun_potok") < Waga(pc["main"]) /\ "main" \in Proces /\ "usun_potok" \in Etykiety
    BY <2>1
  <2> QED BY <2>1, <2>2, NizejZ
<1> QED BY <1>1, <1>2, <1>3, <1>4, <1>5, <1>6, <1>7, <1>8

LEMMA ResztaSygnalu ==
  ASSUME TypeOK, Siec, NEW p \in Proces,
         Dostarcz(p) \/ Handler(p) \/ HandlerWait(p) \/ UsunPotok(p)
  PROVE  Nizej
<1> USE WagaTab DEF Proces, Etykiety, otoczenie
<1>1. CASE Dostarcz(p)
  <2>1. PICK e \in {"handler", "koniec"} :
          /\ pc' = [pc EXCEPT ![p] = e]
          /\ e = "handler" => ZHandlerem(p)
    BY <1>1 DEF Dostarcz
  <2>2. Waga(e) < Waga(pc[p])
    <3>1. CASE e = "koniec"
      BY <1>1, <3>1, WagaZywego DEF Dostarcz, Zywy, TypeOK
    <3>2. CASE e = "handler"
      BY <1>1, <2>1, <3>2 DEF Dostarcz, Zywy, WHandlerze, ZHandlerem, Siec, Role, TypeOK
    <3> QED BY <3>1, <3>2
  <2>3. e \in Etykiety /\ UNCHANGED <<plik_wej, dane, wyslane>>
    BY <1>1 DEF Dostarcz
  <2> QED BY <2>1, <2>2, <2>3, NizejZ
<1>2. CASE Handler(p)
  <2>1. /\ pc[p] = "handler" /\ pc' = [pc EXCEPT ![p] = "handler_wait"]
        /\ UNCHANGED <<plik_wej, dane, wyslane>>
    BY <1>2 DEF Handler
  <2>2. Waga("handler_wait") < Waga(pc[p]) /\ "handler_wait" \in Etykiety
    BY <2>1
  <2> QED BY <2>1, <2>2, NizejZ
<1>3. CASE HandlerWait(p)
  <2>1. /\ pc[p] = "handler_wait" /\ pc' = [pc EXCEPT ![p] = "koniec"]
        /\ UNCHANGED <<plik_wej, dane, wyslane>>
    BY <1>3 DEF HandlerWait
  <2>2. Waga("koniec") < Waga(pc[p]) /\ "koniec" \in Etykiety
    BY <2>1
  <2> QED BY <2>1, <2>2, NizejZ
<1>4. CASE UsunPotok(p)
  <2>1. /\ pc[p] = "usun_potok" /\ pc' = [pc EXCEPT ![p] = "koniec"]
        /\ UNCHANGED <<plik_wej, dane, wyslane>>
    BY <1>4 DEF UsunPotok
  <2>2. Waga("koniec") < Waga(pc[p]) /\ "koniec" \in Etykiety
    BY <2>1
  <2> QED BY <2>1, <2>2, NizejZ
<1> QED BY <1>1, <1>2, <1>3, <1>4

(* fork() and the second open() of the FIFO move two processes.            *)
LEMMA DwochUbywa ==
  ASSUME IInv, NEW p \in Potomek, Fork4 \/ Fork5(p) \/ OpenPotok(p)
  PROVE  Reszta' < Reszta
<1> USE WagaTab DEF Proces, Potomek, Etykiety, otoczenie
<1>0. TypeOK /\ Nienarodzone
  BY DEF IInv
<1>1. CASE Fork4
  <2>1. /\ pc["producent"] = "fork" /\ pc["konsument"] = "brak"
        /\ pc' = [pc EXCEPT !["producent"] = "close_0", !["konsument"] = "close_1"]
        /\ UNCHANGED <<plik_wej, dane, wyslane>>
    BY <1>0, <1>1 DEF Fork4, Nienarodzone
  <2>2. Waga("close_0") + Waga("close_1") < Waga(pc["producent"]) + Waga(pc["konsument"])
    BY <2>1
  <2>3. /\ "producent" \in Proces /\ "konsument" \in Proces \ {"producent"}
        /\ "close_0" \in Etykiety /\ "close_1" \in Etykiety
    OBVIOUS
  <2> HIDE WagaTab DEF Etykiety, Proces
  <2> QED BY <1>0, <2>1, <2>2, <2>3, DwaUbywa
<1>2. CASE Fork5(p)
  <2>1. PICK e \in {"fork_p", "wait"} :
          /\ pc["main"] = (IF p = "konsument" THEN "fork_k" ELSE "fork_p")
          /\ e = (IF p = "konsument" THEN "fork_p" ELSE "wait")
          /\ pc' = [pc EXCEPT !["main"] = e, ![p] = "przed_exec"]
          /\ UNCHANGED <<plik_wej, dane, wyslane>>
    BY <1>2 DEF Fork5, Fork
  <2>2. pc[p] = "brak"
    BY <1>0, <2>1 DEF Nienarodzone
  <2>3. Waga(e) + Waga("przed_exec") < Waga(pc["main"]) + Waga(pc[p])
    BY <2>1, <2>2
  <2>4. /\ "main" \in Proces /\ p \in Proces \ {"main"}
        /\ e \in Etykiety /\ "przed_exec" \in Etykiety
    BY <2>1
  <2> HIDE WagaTab DEF Etykiety, Proces
  <2> QED BY <1>0, <2>1, <2>3, <2>4, DwaUbywa
<1>3. CASE OpenPotok(p)
  <2>0. pc[p] = "open_potok" /\ UNCHANGED <<plik_wej, dane, wyslane>>
    BY <1>3 DEF OpenPotok
  <2>1. CASE pc[Drugi(p)] = "czeka"
    <3>1. /\ pc' = [pc EXCEPT ![p] = "read", ![Drugi(p)] = "read"]
          /\ p \in Proces /\ Drugi(p) \in Proces \ {p} /\ "read" \in Etykiety
      BY <1>3, <2>1 DEF OpenPotok, Drugi
    <3>2. Waga("read") + Waga("read") < Waga(pc[p]) + Waga(pc[Drugi(p)])
      BY <2>0, <2>1
    <3> HIDE WagaTab DEF Etykiety, Proces
    <3> QED BY <1>0, <2>0, <3>1, <3>2, DwaUbywa
  <2>2. CASE pc[Drugi(p)] # "czeka"
    <3>1. pc' = [pc EXCEPT ![p] = "czeka"] /\ p \in Proces /\ "czeka" \in Etykiety
      BY <1>3, <2>2 DEF OpenPotok
    <3>2. Waga("czeka") < Waga(pc[p])
      BY <2>0
    <3>3. Nizej
      BY <2>0, <3>1, <3>2, NizejZ
    <3> QED BY <1>0, <3>3, NizejUbywa
  <2> QED BY <2>1, <2>2
<1> QED BY <1>1, <1>2, <1>3

LEMMA SigintUbywa == TypeOK /\ Sigint => Reszta' < Reszta
<1> SUFFICES ASSUME TypeOK, Sigint PROVE Reszta' < Reszta
  OBVIOUS
<1>1. Wagi' = Wagi /\ WDrodze' = WDrodze /\ wyslane' = wyslane + 1
  BY DEF Sigint, Wagi, WDrodze, dane
<1> QED BY <1>1, ResztaNat, PrzesylanieAssumption DEF Reszta, TypeOK

(* The programs of Zad_4 and Zad_5 take finitely many steps, whatever the  *)
(* file, the sizes, the failures and the scheduler: no loop goes round     *)
(* without moving a byte on, and a handler is never left for the loop.     *)
THEOREM UbywaInv == Spec => []Naturalne /\ Ubywa
<1>1. IInv => Naturalne
  BY ResztaNat DEF IInv
<1>2. IInv /\ Siec /\ [Next]_vars => [Reszta' < Reszta]_vars
  <2> SUFFICES ASSUME IInv, Siec, Next PROVE Reszta' < Reszta
    OBVIOUS
  <2>0. TypeOK /\ Potomek # {}
    BY DEF IInv, Potomek
  <2>1. ASSUME NEW p \in Proces, Krok(p) PROVE Reszta' < Reszta
    <3>1. CASE Petla(p)
      BY <3>1, PetlaUbywa
    <3>2. CASE Dostarcz(p) \/ Handler(p) \/ HandlerWait(p) \/ UsunPotok(p)
      BY <2>0, <3>2, ResztaSygnalu, NizejUbywa
    <3>3. CASE \/ p = "main" /\ (Mkfifo \/ MWait \/ \E q \in Potomek : Fork5(q))
               \/ p = "producent" /\ (Fork4 \/ PClose0 \/ PClose \/ PWait)
               \/ p = "konsument" /\ KClose1
               \/ p \in Potomek /\ (Exec(p) \/ Open(p) \/ OpenPotok(p) \/ BrakPotoku(p))
      BY <2>0, <3>3, ResztaZad4, ResztaZad5, DwochUbywa, NizejUbywa
    <3> QED BY <2>1, <3>1, <3>2, <3>3 DEF Krok
  <2>2. CASE Zaklocenie
    BY <2>0, <2>2, ResztaZad4, ResztaZad5, SigintUbywa, NizejUbywa, WriteNieudanyUbywa
    DEF Zaklocenie
  <2> QED BY <2>1, <2>2 DEF Next
<1> QED BY <1>1, <1>2, IInvNiezmiennik, SiecInv, PTL DEF Spec, Ubywa

=============================================================================
