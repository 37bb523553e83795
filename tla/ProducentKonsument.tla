------------------------- MODULE ProducentKonsument -------------------------
(***************************************************************************)
(* Zad_7: producent.c copies a file, element by element, into a ring of    *)
(* NBUF elements in shared memory; konsument.c copies the elements to      *)
(* another file.  Three semaphores coordinate the two processes.  Every    *)
(* system call and every access to the segment is a step of its own.       *)
(***************************************************************************)
EXTENDS Integers, Sequences

CONSTANTS NBUF,   \* elements of the ring
          NELE,   \* bytes of an element
          Bajt,   \* the values of a byte
          NUL,    \* the byte '\0'
          Pliki   \* the contents plik_wej.txt may have

ASSUME BuforAssumption == /\ NBUF \in Nat \ {0}
                          /\ NELE \in Nat \ {0}
                          /\ NUL \in Bajt
                          /\ Pliki \subseteq Seq(Bajt)

VARIABLES
  bufor, wstaw, wyjmij,  \* the shared segment SegmentPD
  sem,                   \* values of /sem_empty, /sem_full, /sem_mutex
  pc,                    \* where each process is
  przerwane,             \* processes ended by SIGINT; pc stays where it hit
  plik_wej,              \* the input file, constant during the run
  pozycja, porcja,       \* producer: file offset, the bytes_read bytes of buf
  buf, plik_wyj          \* consumer: its buf, the output file

segment   == <<bufor, wstaw, wyjmij>>
producent == <<pozycja, porcja>>
konsument == <<buf, plik_wyj>>
vars == <<segment, sem, pc, przerwane, plik_wej, producent, konsument>>

Proces == {"producent", "konsument"}
Towar  == [1..NELE -> Bajt]
Koniec == [i \in 1..NELE |-> NUL]   \* what memset(..., 0, NELE) leaves

(* main.c has zeroed the segment and created the semaphores.  The          *)
(* consumer's buf is uninitialised, and assigned before its first use.     *)
Init == /\ bufor = [i \in 0..NBUF-1 |-> Koniec] /\ wstaw = 0 /\ wyjmij = 0
        /\ sem = [empty |-> NBUF, full |-> 0, mutex |-> 1]
        /\ pc = [producent |-> "read", konsument |-> "wait_full"]
        /\ przerwane = {}
        /\ plik_wej \in Pliki
        /\ pozycja = 0 /\ porcja = <<>>
        /\ buf = Koniec /\ plik_wyj = <<>>

-----------------------------------------------------------------------------
(* sem_wait blocks at 0; the programs only ever pass wartosc = -1 or 1.    *)
zmien_wart_sem(s, wartosc) == /\ sem[s] + wartosc >= 0
                              /\ sem' = [sem EXCEPT ![s] = @ + wartosc]

Idz(p, skad, dokad) == /\ p \notin przerwane
                       /\ pc[p] = skad
                       /\ pc' = [pc EXCEPT ![p] = dokad]
                       /\ UNCHANGED <<przerwane, plik_wej>>

Semafor(p, skad, s, wartosc, dokad) ==
  /\ Idz(p, skad, dokad)
  /\ zmien_wart_sem(s, wartosc)
  /\ UNCHANGED <<segment, producent, konsument>>

-----------------------------------------------------------------------------
(* Producer.  An empty porcja is the end of the file: the code after the   *)
(* loop repeats its body once, with memset in place of memcpy.             *)

PRead == /\ Idz("producent", "read", "wait_empty")
         /\ LET koniec == IF pozycja + NELE < Len(plik_wej)
                          THEN pozycja + NELE ELSE Len(plik_wej)
            IN  /\ porcja' = SubSeq(plik_wej, pozycja + 1, koniec)
                /\ pozycja' = koniec
         /\ UNCHANGED <<segment, sem, konsument>>

\* Mutant: the producer does not wait for a free slot.
PWaitEmptyBezCzekania == /\ Idz("producent", "wait_empty", "lock")
                         /\ UNCHANGED <<segment, sem, producent, konsument>>

PWaitEmpty == Semafor("producent", "wait_empty", "empty", -1, "lock")
PLock      == Semafor("producent", "lock", "mutex", -1, "copy")

(* memcpy replaces the first bytes_read bytes only: after a short read the *)
(* slot keeps the tail of the element it held before.                      *)
Zawartosc(t) == IF porcja = <<>> THEN Koniec
                ELSE [i \in 1..NELE |-> IF i \in DOMAIN porcja
                                        THEN porcja[i] ELSE t[i]]

PCopy == /\ Idz("producent", "copy", "advance")
         /\ bufor' = [bufor EXCEPT ![wstaw] = Zawartosc(@)]
         /\ UNCHANGED <<wstaw, wyjmij, sem, producent, konsument>>

\* Mutant: wstaw is not reduced modulo NBUF.
PAdvanceBezModulo == /\ Idz("producent", "advance", "unlock")
                     /\ wstaw' = wstaw + 1
                     /\ UNCHANGED <<bufor, wyjmij, sem, producent, konsument>>

PAdvance == /\ Idz("producent", "advance", "unlock")
            /\ wstaw' = (wstaw + 1) % NBUF
            /\ UNCHANGED <<bufor, wyjmij, sem, producent, konsument>>

\* Mutant: the end of the file does not end the loop (>= 0 for > 0).
PPostFullBezKonca == Semafor("producent", "post_full", "full", 1, "read")

PUnlock   == Semafor("producent", "unlock", "mutex", 1, "post_full")
PPostFull == Semafor("producent", "post_full", "full", 1,
                     IF porcja = <<>> THEN "end" ELSE "read")

(* SIGINT: exit(0) and cleanup() release what is private to the process.   *)
(* The semaphores keep their values, a locked mutex included.              *)
PSigint == /\ "producent" \notin przerwane /\ pc["producent"] # "end"
           /\ przerwane' = przerwane \cup {"producent"}
           /\ UNCHANGED <<segment, sem, pc, plik_wej, producent, konsument>>

-----------------------------------------------------------------------------
(* Consumer.                                                               *)

\* Mutant: the consumer enters without the mutex.
KLockBezCzekania == /\ Idz("konsument", "lock", "copy")
                    /\ UNCHANGED <<segment, sem, producent, konsument>>

KWaitFull == Semafor("konsument", "wait_full", "full", -1, "lock")
KLock     == Semafor("konsument", "lock", "mutex", -1, "copy")

KCopy == /\ Idz("konsument", "copy", "advance")
         /\ buf' = bufor[wyjmij]
         /\ UNCHANGED <<segment, sem, producent, plik_wyj>>

KAdvance == /\ Idz("konsument", "advance", "unlock")
            /\ wyjmij' = (wyjmij + 1) % NBUF
            /\ UNCHANGED <<bufor, wstaw, sem, producent, konsument>>

\* Mutant: the wrong semaphore is raised.
KPostEmptyZamieniony == Semafor("konsument", "post_empty", "full", 1, "check")

KUnlock    == Semafor("konsument", "unlock", "mutex", 1, "post_empty")
KPostEmpty == Semafor("konsument", "post_empty", "empty", 1, "check")

KKoniec == /\ buf[1] = NUL
           /\ Idz("konsument", "check", "end")
           /\ UNCHANGED <<segment, sem, producent, konsument>>

(* All NELE bytes are written, however many the producer had read.         *)
KZapisz == /\ buf[1] # NUL
           /\ Idz("konsument", "check", "wait_full")
           /\ plik_wyj' = plik_wyj \o buf
           /\ UNCHANGED <<segment, sem, producent, buf>>

KSigint == /\ "konsument" \notin przerwane /\ pc["konsument"] # "end"
           /\ przerwane' = przerwane \cup {"konsument"}
           /\ UNCHANGED <<segment, sem, pc, plik_wej, producent, konsument>>

-----------------------------------------------------------------------------
ProducentStep == \/ PRead \/ PWaitEmpty \/ PLock \/ PCopy
                 \/ PAdvance \/ PUnlock \/ PPostFull
KonsumentStep == \/ KWaitFull \/ KLock \/ KCopy \/ KAdvance
                 \/ KUnlock \/ KPostEmpty \/ KKoniec \/ KZapisz

Next == ProducentStep \/ KonsumentStep \/ PSigint \/ KSigint

Spec == Init /\ [][Next]_vars

(* The kernel schedules a runnable process; nobody has to send a SIGINT.   *)
FairSpec == Spec /\ WF_vars(ProducentStep) /\ WF_vars(KonsumentStep)

-----------------------------------------------------------------------------
(* Properties.                                                             *)

Etykiety == [producent : {"read", "wait_empty", "lock", "copy", "advance",
                          "unlock", "post_full", "end"},
             konsument : {"wait_full", "lock", "copy", "advance", "unlock",
                          "post_empty", "check", "end"}]

TypeOK == /\ bufor \in [0..NBUF-1 -> Towar]
          /\ wstaw \in 0..NBUF-1 /\ wyjmij \in 0..NBUF-1
          /\ sem \in [{"empty", "full", "mutex"} -> Nat]
          /\ pc \in Etykiety
          /\ przerwane \subseteq Proces
          /\ plik_wej \in Seq(Bajt) /\ pozycja \in 0..Len(plik_wej)
          /\ porcja \in Seq(Bajt) /\ Len(porcja) <= NELE
          /\ buf \in Towar /\ plik_wyj \in Seq(Bajt)

WSekcji(p) == pc[p] \in {"copy", "advance", "unlock"}

(* producent.c:20, main.c:89: sem_mutex lets only one process at a time    *)
(* touch the buffer, even when the other one was killed inside.            *)
WzajemneWykluczenie == ~ (WSekcji("producent") /\ WSekcji("konsument"))

Jeden(b) == IF b THEN 1 ELSE 0

(* Elements ready for the consumer, and slots free for the producer, read  *)
(* off the semaphores and what each process has taken or still owes.       *)
Zajete == sem["full"] + Jeden(pc["producent"] \in {"unlock", "post_full"})
                      + Jeden(pc["konsument"] \in {"lock", "copy", "advance"})
Wolne  == sem["empty"] + Jeden(pc["producent"] \in {"lock", "copy", "advance"})
                       + Jeden(pc["konsument"] \in {"unlock", "post_empty"})

Straz  == sem["mutex"] + Jeden(WSekcji("producent")) + Jeden(WSekcji("konsument"))

(* Every slot of the ring is accounted for at every instant: as free or as *)
(* filled, and the indices are as far apart as the filled slots are many;  *)
(* the mutex is either free or with one process.  main.c:80-91 says so of  *)
(* the three semaphores.                                                   *)
Rozliczenie == /\ Zajete + Wolne = NBUF
               /\ wstaw = (wyjmij + Zajete) % NBUF
               /\ Straz = 1

(* What the consumer copied is still in the slot it copied it from when it *)
(* gives the slot up: nobody wrote there in the meantime.                  *)
Odczytany == pc["konsument"] = "advance" => buf = bufor[wyjmij]

(* The invariant the safety theorems rest on.                              *)
Niezmiennik == TypeOK /\ Rozliczenie /\ Odczytany

Czeka(p, etykieta, s) == pc[p] = etykieta /\ sem[s] = 0
Zablokowany == [producent |-> \/ Czeka("producent", "wait_empty", "empty")
                              \/ Czeka("producent", "lock", "mutex"),
                konsument |-> \/ Czeka("konsument", "wait_full", "full")
                              \/ Czeka("konsument", "lock", "mutex")]

(* The two processes never wait for each other: waiting for a slot before  *)
(* the mutex, in this order, keeps one of them able to go on.              *)
BezZakleszczenia == ~ (Zablokowany["producent"] /\ Zablokowany["konsument"])

(* Elements from wyjmij on, as many as are filled, are the bounded queue   *)
(* of KolejkaOgraniczona: no element is overwritten before it is taken,    *)
(* taken twice, or taken before it was put (readme of Zad_7, lines 85-89). *)
Kolejka == [i \in 1..Zajete |-> bufor[(wyjmij + i - 1) % NBUF]]

K == INSTANCE KolejkaOgraniczona
       WITH Element <- Towar, Pojemnosc <- NBUF,
            kolejka <- Kolejka, wziety <- buf
KolejkaFifo == K!Spec

(* konsument.c stops at the first element that begins with '\0'; in an     *)
(* ordinary text file no element but the final one does.                   *)
BezZnacznika == \A i \in DOMAIN plik_wej : (i - 1) % NELE = 0 => plik_wej[i] # NUL

ZgodneDo(n) == \A i \in 1..n : plik_wyj[i] = plik_wej[i]

(* At every instant the output repeats the input byte for byte, up to the  *)
(* end of the shorter one: nothing is lost, repeated, reordered or mixed.  *)
WyjscieZgodne == ZgodneDo(IF Len(plik_wyj) < Len(plik_wej)
                          THEN Len(plik_wyj) ELSE Len(plik_wej))

(* A run nobody interrupts ends, with the whole text in the output.        *)
Skopiowane == /\ \A p \in Proces : pc[p] = "end"
              /\ Len(plik_wyj) >= Len(plik_wej)
              /\ ZgodneDo(Len(plik_wej))
Zakonczenie == BezZnacznika => <>(Skopiowane \/ przerwane # {})

(* What a program that copies a file is for: an output equal to the input. *)
(* konsument.c:85 writes whole elements, so the last one brings padding.   *)
DokladnaKopia == (\A p \in Proces : pc[p] = "end") /\ BezZnacznika
                   => plik_wyj = plik_wej

=============================================================================
