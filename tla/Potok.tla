------------------------------- MODULE Potok -------------------------------
(***************************************************************************)
(* The pipe of Zad_4 and the FIFO of Zad_5: a bounded stream of bytes with *)
(* two ends, and the loops of the two processes that copy a file through   *)
(* it.  What the processes do before and after is in Przesylanie.          *)
(***************************************************************************)
EXTENDS Integers, Sequences

CONSTANTS Bajt,                \* the values of a byte
          Pliki,               \* the contents the input file may have
          WIELKOSC_PRODUCENT,  \* bytes in one read of the file
          WIELKOSC_KONSUMENT,  \* bytes in one read of the pipe
          Pojemnosc            \* bytes the kernel keeps in a pipe

(* A chunk of the producer is within PIPE_BUF: it is written whole.        *)
ASSUME PotokAssumption == /\ Pliki \subseteq Seq(Bajt)
                          /\ WIELKOSC_PRODUCENT \in Nat \ {0}
                          /\ WIELKOSC_KONSUMENT \in Nat \ {0}
                          /\ Pojemnosc \in Nat /\ Pojemnosc >= WIELKOSC_PRODUCENT

VARIABLES
  pc,                 \* where each process is
  plik_wej,           \* the input file, constant during the run
  pozycja, bufor,     \* producer: file offset, the chunk it has read
  potok,              \* bytes written and not yet read
  piszacy, czytajacy, \* processes with the write end, the read end open
  bufor_1, plik_wyj   \* consumer: the chunk it has read, the output file

dane  == <<pozycja, bufor, potok, bufor_1, plik_wyj>>
konce == <<piszacy, czytajacy>>

Proces == {"main", "producent", "konsument"}

Skok(p, skad, dokad) == pc[p] = skad /\ pc' = [pc EXCEPT ![p] = dokad]

(* A process that ends closes what it has open.                            *)
Zamknij(p) == piszacy' = piszacy \ {p} /\ czytajacy' = czytajacy \ {p}
Umiera(p)  == pc' = [pc EXCEPT ![p] = "koniec"] /\ Zamknij(p)

Mniejsza(m, n) == IF m < n THEN m ELSE n

-----------------------------------------------------------------------------
(* Producer.                                                               *)

\* Mutant: the read is longer than the buffer.
PReadZaDlugi ==
  LET koniec == Mniejsza(pozycja + WIELKOSC_PRODUCENT + 1, Len(plik_wej))
  IN  /\ Skok("producent", "read", IF koniec = pozycja THEN "close" ELSE "write")
      /\ bufor' = SubSeq(plik_wej, pozycja + 1, koniec)
      /\ pozycja' = koniec
      /\ UNCHANGED <<plik_wej, potok, bufor_1, plik_wyj, konce>>

PRead == LET koniec == Mniejsza(pozycja + WIELKOSC_PRODUCENT, Len(plik_wej))
         IN  /\ Skok("producent", "read", IF koniec = pozycja THEN "close" ELSE "write")
             /\ bufor' = SubSeq(plik_wej, pozycja + 1, koniec)
             /\ pozycja' = koniec
             /\ UNCHANGED <<plik_wej, potok, bufor_1, plik_wyj, konce>>

PWrite == /\ Skok("producent", "write", "read")
          /\ czytajacy # {}
          /\ Len(potok) + Len(bufor) <= Pojemnosc
          /\ potok' = potok \o bufor
          /\ bufor' = <<>>
          /\ UNCHANGED <<plik_wej, pozycja, bufor_1, plik_wyj, konce>>

(* SIGPIPE, also for a producer that waits for room.                       *)
PSigpipe == /\ pc["producent"] = "write" /\ czytajacy = {}
            /\ Umiera("producent")
            /\ UNCHANGED <<plik_wej, dane>>

-----------------------------------------------------------------------------
(* Consumer.                                                               *)

KRead == /\ potok # <<>>
         /\ Skok("konsument", "read", "write")
         /\ LET n == Mniejsza(WIELKOSC_KONSUMENT, Len(potok))
            IN  /\ bufor_1' = SubSeq(potok, 1, n)
                /\ potok' = SubSeq(potok, n + 1, Len(potok))
         /\ UNCHANGED <<plik_wej, pozycja, bufor, plik_wyj, konce>>

(* The end of the stream: nobody, the consumer included, can write.        *)
KEof == /\ potok = <<>> /\ piszacy = {}
        /\ Skok("konsument", "read", "close")
        /\ UNCHANGED <<plik_wej, dane, konce>>

\* Mutant: the whole buffer is written, however much was read.
KWriteCaly == /\ Skok("konsument", "write", "read")
              /\ plik_wyj' = plik_wyj \o [i \in 1..WIELKOSC_KONSUMENT |->
                                            IF i \in DOMAIN bufor_1 THEN bufor_1[i]
                                            ELSE bufor_1[1]]
              /\ bufor_1' = <<>>
              /\ UNCHANGED <<plik_wej, pozycja, bufor, potok, konce>>

KWrite == /\ Skok("konsument", "write", "read")
          /\ plik_wyj' = plik_wyj \o bufor_1
          /\ bufor_1' = <<>>
          /\ UNCHANGED <<plik_wej, pozycja, bufor, potok, konce>>

(* close() and exit().                                                     *)
KClose == /\ pc["konsument"] = "close"
          /\ Umiera("konsument")
          /\ UNCHANGED <<plik_wej, dane>>

-----------------------------------------------------------------------------
DaneOK == /\ plik_wej \in Seq(Bajt) /\ pozycja \in 0..Len(plik_wej)
          /\ bufor \in Seq(Bajt) /\ Len(bufor) <= WIELKOSC_PRODUCENT
          /\ potok \in Seq(Bajt) /\ Len(potok) <= Pojemnosc
          /\ bufor_1 \in Seq(Bajt) /\ Len(bufor_1) <= WIELKOSC_KONSUMENT
          /\ plik_wyj \in Seq(Bajt)
          /\ piszacy \subseteq Proces /\ czytajacy \subseteq Proces

(* Every byte read from the input is in one place, in its order: written,  *)
(* at the consumer, in the pipe, or at the producer.  Nothing is lost or   *)
(* repeated where chunks of one size are read in chunks of another, or     *)
(* where a process dies.                                                   *)
Strumien == plik_wyj \o bufor_1 \o potok \o bufor = SubSeq(plik_wej, 1, pozycja)

=============================================================================
