---------------------------- MODULE Przesylanie ----------------------------
(***************************************************************************)
(* The processes around the pipe.  Zad_4/main_4.c: a parent that produces  *)
(* and a child that consumes.  Zad_5, part (a): main_5_a.c makes the FIFO  *)
(* "potok" and starts two programs; part (b): they are started by hand on  *)
(* a FIFO made by hand.  Of the two programs the repository has the        *)
(* consumer; the producer is taken to loop like that of Zad_4.             *)
(***************************************************************************)
EXTENDS Potok

CONSTANTS Bledy,      \* which calls may fail: subset of
                      \* {"fork", "exec", "open", "write"}
          MaxSigint   \* how many times Ctrl+C is pressed

ASSUME PrzesylanieAssumption == /\ Bledy \subseteq {"fork", "exec", "open", "write"}
                                /\ MaxSigint \in Nat

VARIABLES
  zadanie,           \* "4", "5a" or "5b"
  nazwa,             \* whether the file "potok" exists
  zalegle, wyslane,  \* processes with a pending SIGINT, SIGINTs sent
  bledy              \* what has failed so far

otoczenie == <<zadanie, zalegle, wyslane, bledy>>
vars == <<pc, plik_wej, dane, konce, nazwa, otoczenie>>

Potomek == {"konsument", "producent"}

(* Zad_4: the producer is the parent and has just called pipe().           *)
Init == /\ zadanie \in {"4", "5a", "5b"} /\ nazwa = (zadanie = "5b")
        /\ pc = [p \in Proces |->
                   CASE zadanie = "4" /\ p = "producent" -> "fork"
                     [] zadanie = "5a" /\ p = "main"     -> "mkfifo"
                     [] zadanie = "5b" /\ p \in Potomek  -> "open"
                     [] OTHER                            -> "brak"]
        /\ piszacy = IF zadanie = "4" THEN {"producent"} ELSE {}
        /\ czytajacy = piszacy
        /\ plik_wej \in Pliki /\ pozycja = 0
        /\ bufor = <<>> /\ potok = <<>> /\ bufor_1 = <<>> /\ plik_wyj = <<>>
        /\ zalegle = {} /\ wyslane = 0 /\ bledy = {}

Zywy(p) == pc[p] \notin {"brak", "koniec"}
Awaria(co) == /\ co \in Bledy
              /\ bledy' = bledy \cup {co}
              /\ UNCHANGED <<zadanie, zalegle, wyslane>>

-----------------------------------------------------------------------------
(* Zad_4.                                                                  *)

Fork4 == /\ pc["producent"] = "fork" /\ "producent" \notin zalegle
         /\ pc' = [pc EXCEPT !["producent"] = "close_0", !["konsument"] = "close_1"]
         /\ piszacy' = Potomek /\ czytajacy' = Potomek
         /\ UNCHANGED <<plik_wej, dane, nazwa, otoczenie>>

Fork4Nieudany == /\ pc["producent"] = "fork"
                 /\ Awaria("fork") /\ Umiera("producent")
                 /\ UNCHANGED <<plik_wej, dane, nazwa>>

\* Mutant: the consumer keeps its own write end.
KClose1Wcale == /\ Skok("konsument", "close_1", "open")
                /\ UNCHANGED <<plik_wej, dane, konce, nazwa, otoczenie>>

KClose1 == /\ Skok("konsument", "close_1", "open")
           /\ piszacy' = piszacy \ {"konsument"}
           /\ UNCHANGED <<czytajacy, plik_wej, dane, nazwa, otoczenie>>

PClose0 == /\ Skok("producent", "close_0", "open")
           /\ czytajacy' = czytajacy \ {"producent"}
           /\ UNCHANGED <<piszacy, plik_wej, dane, nazwa, otoczenie>>

(* close(tab_des[1]) in Zad_4, where wait() follows; exit() in Zad_5.      *)
PClose == /\ Skok("producent", "close", IF zadanie = "4" THEN "wait" ELSE "koniec")
          /\ Zamknij("producent")
          /\ UNCHANGED <<plik_wej, dane, nazwa, otoczenie>>

PWait == /\ Skok("producent", "wait", "koniec")
         /\ ~ Zywy("konsument")
         /\ UNCHANGED <<plik_wej, dane, konce, nazwa, otoczenie>>

-----------------------------------------------------------------------------
(* The input and the output file; then, in Zad_5, the FIFO.                *)

Open(p) == /\ Skok(p, "open", IF zadanie = "4" THEN "read" ELSE "open_potok")
           /\ UNCHANGED <<plik_wej, dane, konce, nazwa, otoczenie>>

OpenNieudany(p) == /\ pc[p] = "open"
                   /\ Awaria("open") /\ Umiera(p)
                   /\ UNCHANGED <<plik_wej, dane, nazwa>>

(* To write less than was asked for is a failure too: what was written     *)
(* stays in the file, the rest is never written.                           *)
WriteNieudany == /\ pc["konsument"] = "write"
                 /\ \E n \in 0..Len(bufor_1) - 1 :
                      /\ plik_wyj' = plik_wyj \o SubSeq(bufor_1, 1, n)
                      /\ bufor_1' = SubSeq(bufor_1, n + 1, Len(bufor_1))
                 /\ Awaria("write") /\ Umiera("konsument")
                 /\ UNCHANGED <<plik_wej, pozycja, bufor, potok, nazwa>>

(* open() of a FIFO waits for the other end to be opened; the later of the *)
(* two wakes the earlier, who goes on even if the later one then closes.   *)
Drugi(p) == IF p = "producent" THEN "konsument" ELSE "producent"

OpenPotok(p) == /\ pc[p] = "open_potok" /\ nazwa
                /\ IF pc[Drugi(p)] = "czeka"
                   THEN pc' = [pc EXCEPT ![p] = "read", ![Drugi(p)] = "read"]
                   ELSE pc' = [pc EXCEPT ![p] = "czeka"]
                /\ IF p = "producent"
                   THEN piszacy' = piszacy \cup {p} /\ UNCHANGED czytajacy
                   ELSE czytajacy' = czytajacy \cup {p} /\ UNCHANGED piszacy
                /\ UNCHANGED <<plik_wej, dane, nazwa, otoczenie>>

BrakPotoku(p) == /\ pc[p] = "open_potok" /\ ~ nazwa
                 /\ Umiera(p)
                 /\ UNCHANGED <<plik_wej, dane, nazwa, otoczenie>>

-----------------------------------------------------------------------------
(* Zad_5 (a): main_5_a.c.                                                  *)

Mkfifo == /\ Skok("main", "mkfifo", "fork_k")
          /\ nazwa' = TRUE
          /\ UNCHANGED <<plik_wej, dane, konce, otoczenie>>

Fork(p) == IF p = "konsument" THEN "fork_k" ELSE "fork_p"

(* Children inherit the SIGINT handler and the atexit handler.             *)
Fork5(p) == /\ pc["main"] = Fork(p) /\ "main" \notin zalegle
            /\ pc' = [pc EXCEPT !["main"] = IF p = "konsument" THEN "fork_p" ELSE "wait",
                                ![p] = "przed_exec"]
            /\ UNCHANGED <<plik_wej, dane, konce, nazwa, otoczenie>>

Fork5Nieudany(p) == /\ Skok("main", Fork(p), "usun_potok")
                    /\ Awaria("fork")
                    /\ UNCHANGED <<plik_wej, dane, konce, nazwa>>

Exec(p) == /\ Skok(p, "przed_exec", "open")
           /\ UNCHANGED <<plik_wej, dane, konce, nazwa, otoczenie>>

ExecNieudany(p) == /\ Skok(p, "przed_exec", "usun_potok")
                   /\ Awaria("exec")
                   /\ UNCHANGED <<plik_wej, dane, konce, nazwa>>

MWait == /\ Skok("main", "wait", "usun_potok")
         /\ \A p \in Potomek : ~ Zywy(p)
         /\ UNCHANGED <<plik_wej, dane, konce, nazwa, otoczenie>>

(* usun_potok(), at the exit() of main and of a child that cannot exec.    *)
UsunPotok(p) == /\ Skok(p, "usun_potok", "koniec")
                /\ nazwa' = FALSE
                /\ UNCHANGED <<plik_wej, dane, konce, otoczenie>>

-----------------------------------------------------------------------------
(* SIGINT from the terminal goes to all the processes there are; in part   *)
(* (b) of Zad_5 each has a terminal of its own.                            *)

Sigint == /\ wyslane < MaxSigint
          /\ wyslane' = wyslane + 1
          /\ \E kto \in IF zadanie = "5b" THEN {{p} : p \in Proces} ELSE {Proces} :
               zalegle' = zalegle \cup {p \in kto : Zywy(p)}
          /\ UNCHANGED <<pc, plik_wej, dane, konce, nazwa, zadanie, bledy>>

(* main of Zad_5 and what it forks run handler() until they exec; there    *)
(* SIGINT is blocked until the handler returns, and it does not.           *)
ZHandlerem(p) == zadanie = "5a" /\ (p = "main" \/ pc[p] \in {"przed_exec", "usun_potok"})
WHandlerze(p) == pc[p] \in {"handler", "handler_wait"}

Dostarcz(p) == /\ p \in zalegle /\ Zywy(p) /\ ~ WHandlerze(p)
               /\ zalegle' = zalegle \ {p}
               /\ IF ZHandlerem(p)
                  THEN pc' = [pc EXCEPT ![p] = "handler"] /\ UNCHANGED konce
                  ELSE Umiera(p)
               /\ UNCHANGED <<plik_wej, dane, nazwa, zadanie, wyslane, bledy>>

\* Mutant: the handler leaves the FIFO.
HandlerBezUnlink(p) == /\ Skok(p, "handler", "handler_wait")
                       /\ UNCHANGED <<plik_wej, dane, konce, nazwa, otoczenie>>

Handler(p) == /\ Skok(p, "handler", "handler_wait")
              /\ nazwa' = FALSE
              /\ UNCHANGED <<plik_wej, dane, konce, otoczenie>>

(* wait() twice: at once in a child, which has no children; then _exit().  *)
HandlerWait(p) == /\ Skok(p, "handler_wait", "koniec")
                  /\ p = "main" => \A q \in Potomek : ~ Zywy(q)
                  /\ UNCHANGED <<plik_wej, dane, konce, nazwa, otoczenie>>

-----------------------------------------------------------------------------
Petla(p) == /\ IF p = "producent" THEN PRead \/ PWrite \/ PSigpipe
               ELSE p = "konsument" /\ (KRead \/ KEof \/ KWrite \/ KClose)
            /\ UNCHANGED <<nazwa, otoczenie>>

Krok(p) == \/ Petla(p) \/ Dostarcz(p) \/ Handler(p) \/ HandlerWait(p) \/ UsunPotok(p)
           \/ p = "main" /\ (Mkfifo \/ MWait \/ \E q \in Potomek : Fork5(q))
           \/ p = "producent" /\ (Fork4 \/ PClose0 \/ PClose \/ PWait)
           \/ p = "konsument" /\ KClose1
           \/ p \in Potomek /\ (Exec(p) \/ Open(p) \/ OpenPotok(p) \/ BrakPotoku(p))

Zaklocenie == \/ Fork4Nieudany \/ WriteNieudany \/ Sigint
              \/ \E p \in Potomek : Fork5Nieudany(p) \/ ExecNieudany(p) \/ OpenNieudany(p)

Next == (\E p \in Proces : Krok(p)) \/ Zaklocenie

Spec == Init /\ [][Next]_vars

(* The kernel runs every process that can run and delivers every signal;   *)
(* nothing has to fail and nobody has to press Ctrl+C.                     *)
FairSpec == Spec /\ \A p \in Proces : WF_vars(Krok(p))

-----------------------------------------------------------------------------
(* Properties.                                                             *)

Etykiety == {"brak", "fork", "close_0", "close_1", "open", "open_potok", "czeka",
             "read", "write", "close", "wait", "mkfifo", "fork_k", "fork_p",
             "przed_exec", "usun_potok", "handler", "handler_wait", "koniec"}

TypeOK == /\ pc \in [Proces -> Etykiety] /\ DaneOK
          /\ zadanie \in {"4", "5a", "5b"} /\ nazwa \in BOOLEAN
          /\ zalegle \subseteq Proces /\ wyslane \in 0..MaxSigint
          /\ bledy \subseteq Bledy

Koniec == \A p \in Proces : ~ Zywy(p)

(* readme of Zad_5, "automatic cleanup of the named pipe after successful  *)
(* execution or in case of an error", and on SIGINT: whatever fails, and   *)
(* wherever a SIGINT hits, main leaves no FIFO behind.                     *)
BezPotoku == zadanie = "5a" /\ pc["main"] = "koniec" => ~ nazwa

(* Zad_4 ends, whatever fails, and Zad_5 (a) after a Ctrl+C; Zad_5 does    *)
(* not when one of its programs never comes to open the FIFO, for which    *)
(* the other waits.  The copy is whole when nothing failed or interrupted. *)
BezDrugiego == \/ zadanie # "4" /\ bledy \ {"write"} # {}
               \/ zadanie = "5b" /\ wyslane > 0
Zakonczenie == <>(\/ /\ Koniec
                     /\ bledy = {} /\ wyslane = 0 => plik_wyj = plik_wej
                  \/ BezDrugiego)

=============================================================================
