----------------------------- MODULE CyklZycia -----------------------------
(***************************************************************************)
(* Zad_7/main.c: the life of the four named objects and of the processes   *)
(* that use them, from their creation to cleanup().  What producent and    *)
(* konsument do with the buffer is ProducentKonsument; here they open the  *)
(* names, work, and end.  Instances of the program share the names.        *)
(***************************************************************************)
EXTENDS Naturals, Sequences

CONSTANTS Instancje,  \* concurrent runs of ./main
          Nikt,       \* owner of a name that does not exist
          Bledy,      \* which calls may fail: a subset of {"exec", "fork"}
          Sygnaly,    \* who gets a SIGINT: subset of {"grupa", "main"}
          MaxSigint,  \* how many times one is sent
          DlugiPlik   \* whether plik_wej.txt is larger than the buffer

ASSUME CyklAssumption == /\ Nikt \notin Instancje
                         /\ Bledy \subseteq {"exec", "fork"}
                         /\ Sygnaly \subseteq {"grupa", "main"}
                         /\ MaxSigint \in Nat
                         /\ DlugiPlik \in BOOLEAN

VARIABLES
  nazwy,      \* who created the object behind each name
  utworzone,  \* names each main has created (its local sem_t pointers)
  pc, krok,   \* where each process is, and at which of the four names
  otwarte,    \* objects each child has opened
  pid,        \* children whose pid main has stored
  domyslny,   \* processes whose SIGINT handler has been reset to SIG_DFL
  sprzatal,   \* processes whose atexit handler has been entered
  zalegle,    \* processes with a pending SIGINT
  wyslane,    \* SIGINTs sent from outside
  bledy       \* what has gone wrong so far

stan == <<nazwy, utworzone, otwarte, pid>>
sygnaly == <<domyslny, zalegle, wyslane>>
vars == <<stan, pc, krok, sprzatal, sygnaly, bledy>>

Potomek == {"producent", "konsument"}
Rola    == Potomek \cup {"main"}
Proces  == Instancje \X Rola
Nazwa   == <<"pam_dziel", "sem_empty", "sem_full", "sem_mutex">>
Nazwy   == {Nazwa[k] : k \in 1..4}

Init == /\ nazwy = [n \in Nazwy |-> Nikt]
        /\ utworzone = [i \in Instancje |-> {}]
        /\ pc = [p \in Proces |-> IF p[2] = "main" THEN "tworz" ELSE "brak"]
        /\ krok = [p \in Proces |-> 1]
        /\ otwarte = [p \in Instancje \X Potomek |-> [n \in Nazwy |-> Nikt]]
        /\ pid = [i \in Instancje |-> {}]
        /\ domyslny = {} /\ sprzatal = {} /\ zalegle = {} /\ wyslane = 0
        /\ bledy = {}

-----------------------------------------------------------------------------
Martwy(p) == pc[p] \in {"gotowe", "koniec"}
Zywy(p)   == ~ Martwy(p) /\ pc[p] # "brak"
Potomkowie(i) == {i} \X Potomek

Skok(p, cel) == pc' = [pc EXCEPT ![p] = cel]

(* exit() or return from main(): cleanup() runs, once.                     *)
Wyjdz(p) == IF p \in sprzatal
            THEN Skok(p, "koniec") /\ UNCHANGED <<krok, sprzatal>>
            ELSE /\ Skok(p, "sprzataj")
                 /\ krok' = [krok EXCEPT ![p] = 1]
                 /\ sprzatal' = sprzatal \cup {p}

\* Mutant: one name too many.
NastepnaZaDaleko(p, cel) == IF krok[p] <= 4
                            THEN krok' = [krok EXCEPT ![p] = @ + 1] /\ UNCHANGED pc
                            ELSE krok' = [krok EXCEPT ![p] = 1] /\ Skok(p, cel)

(* Four names in turn, then on to cel.                                     *)
Nastepna(p, cel) == IF krok[p] < 4
                    THEN krok' = [krok EXCEPT ![p] = @ + 1] /\ UNCHANGED pc
                    ELSE krok' = [krok EXCEPT ![p] = 1] /\ Skok(p, cel)

-----------------------------------------------------------------------------
(* main: creation, fork, wait.                                             *)

(* shm_open takes an existing segment over; sem_open has O_EXCL, and       *)
(* stworz_sem_naz returns NULL when the name exists.                       *)
Tworz(i) == LET p == <<i, "main">>
                n == Nazwa[krok[p]]
            IN  /\ pc[p] = "tworz"
                /\ IF nazwy[n] = Nikt
                   THEN /\ nazwy' = [nazwy EXCEPT ![n] = i]
                        /\ utworzone' = [utworzone EXCEPT ![i] = @ \cup {n}]
                   ELSE UNCHANGED <<nazwy, utworzone>>
                /\ Nastepna(p, "sprawdz")
                /\ UNCHANGED <<otwarte, pid, sprzatal, sygnaly, bledy>>

(* sem_full is not among the pointers the code looks at.                   *)
Sprawdz(i) == LET p == <<i, "main">>
              IN  /\ pc[p] = "sprawdz"
                  /\ IF {"sem_empty", "sem_mutex"} \subseteq utworzone[i]
                     THEN Skok(p, "fork_p") /\ UNCHANGED <<krok, sprzatal>>
                     ELSE Wyjdz(p)
                  /\ UNCHANGED <<stan, sygnaly, bledy>>

Fork(r) == IF r = "producent" THEN "fork_p" ELSE "fork_k"
Pid(r)  == IF r = "producent" THEN "pid_p" ELSE "pid_k"

(* The child inherits the handlers.  fork() does not succeed while a       *)
(* signal is pending: the kernel delivers it first.                        *)
ForkUdany(i, r) == LET p == <<i, "main">>
                   IN  /\ pc[p] = Fork(r) /\ p \notin zalegle
                       /\ pc' = [pc EXCEPT ![p] = Pid(r), ![<<i, r>>] = "przed_exec"]
                       /\ UNCHANGED <<stan, krok, sprzatal, sygnaly, bledy>>

ForkNieudany(i, r) == LET p == <<i, "main">>
                      IN  /\ "fork" \in Bledy /\ pc[p] = Fork(r)
                          /\ bledy' = bledy \cup {"fork"}
                          /\ Wyjdz(p)
                          /\ UNCHANGED <<stan, sygnaly>>

\* Mutant: main waits for the producer before it starts the consumer.
ZapiszPidCzeka(i, r) == LET p == <<i, "main">>
                        IN  /\ pc[p] = Pid(r) /\ ~ Zywy(<<i, r>>)
                            /\ pid' = [pid EXCEPT ![i] = @ \cup {r}]
                            /\ Skok(p, IF r = "producent" THEN "fork_k" ELSE "czekaj")
                            /\ UNCHANGED <<nazwy, utworzone, otwarte, krok, sprzatal,
                                           sygnaly, bledy>>

(* The assignment of fork()'s result to pid_prod or pid_cons.              *)
ZapiszPid(i, r) == LET p == <<i, "main">>
                   IN  /\ pc[p] = Pid(r)
                       /\ pid' = [pid EXCEPT ![i] = @ \cup {r}]
                       /\ Skok(p, IF r = "producent" THEN "fork_k" ELSE "czekaj")
                       /\ UNCHANGED <<nazwy, utworzone, otwarte, krok, sprzatal,
                                      sygnaly, bledy>>

\* Mutants: one wait() only; no wait() at all.
CzekajRaz(i) == LET p == <<i, "main">>
                IN  /\ pc[p] \in {"czekaj", "czekaj_sig"}
                    /\ \E q \in Potomkowie(i) : ~ Zywy(q)
                    /\ Wyjdz(p)
                    /\ UNCHANGED <<stan, sygnaly, bledy>>
CzekajWcale(i) == LET p == <<i, "main">>
                  IN  /\ pc[p] \in {"czekaj", "czekaj_sig"}
                      /\ Wyjdz(p)
                      /\ UNCHANGED <<stan, sygnaly, bledy>>

(* wait() twice, in main or in the handler, waits for all the children     *)
(* there are: without one it fails at once.                                *)
Czekaj(i) == LET p == <<i, "main">>
             IN  /\ pc[p] \in {"czekaj", "czekaj_sig"}
                 /\ \A q \in Potomkowie(i) : ~ Zywy(q)
                 /\ Wyjdz(p)
                 /\ UNCHANGED <<stan, sygnaly, bledy>>

-----------------------------------------------------------------------------
\* Mutant: the names go in the reverse order.
UsunWstecz(p) == LET n == Nazwa[5 - krok[p]]
                 IN  /\ pc[p] = "sprzataj"
                     /\ IF nazwy[n] = Nikt
                        THEN Skok(p, "koniec") /\ UNCHANGED <<nazwy, krok>>
                        ELSE /\ nazwy' = [nazwy EXCEPT ![n] = Nikt]
                             /\ Nastepna(p, "koniec")
                     /\ UNCHANGED <<utworzone, otwarte, pid, sprzatal, sygnaly, bledy>>

(* cleanup() of main.c, in main and in a child that has not called exec.   *)
(* The global sem_* stay NULL (main's locals hide them), so nothing is     *)
(* closed; a name that is missing makes CheckError end the process.        *)
Usun(p) == LET n == Nazwa[krok[p]]
           IN  /\ pc[p] = "sprzataj"
               /\ IF nazwy[n] = Nikt
                  THEN Skok(p, "koniec") /\ UNCHANGED <<nazwy, krok>>
                  ELSE /\ nazwy' = [nazwy EXCEPT ![n] = Nikt]
                       /\ Nastepna(p, "koniec")
               /\ UNCHANGED <<utworzone, otwarte, pid, sprzatal, sygnaly, bledy>>

-----------------------------------------------------------------------------
(* The children.                                                           *)

Exec(c) == /\ pc[c] = "przed_exec"
           /\ Skok(c, "otwiera")
           /\ UNCHANGED <<stan, krok, sprzatal, sygnaly, bledy>>

ExecNieudany(c) == /\ "exec" \in Bledy /\ pc[c] = "przed_exec"
                   /\ bledy' = bledy \cup {"exec"}
                   /\ Wyjdz(c)
                   /\ UNCHANGED <<stan, sygnaly>>

(* Without the segment the child exits; a missing semaphore gives NULL.    *)
Otworz(c) == LET n == Nazwa[krok[c]]
             IN  /\ pc[c] = "otwiera"
                 /\ otwarte' = [otwarte EXCEPT ![c][n] = nazwy[n]]
                 /\ IF n = "pam_dziel" /\ nazwy[n] = Nikt
                    THEN Skok(c, "koniec") /\ UNCHANGED krok
                    ELSE Nastepna(c, "pracuje")
                 /\ UNCHANGED <<nazwy, utworzone, pid, sprzatal, sygnaly, bledy>>

Sprawny(c) == \A n \in Nazwy : otwarte[c][n] # Nikt

(* konsument ends after the element that producent puts last; producent    *)
(* needs a konsument to get a file through that the buffer cannot hold.    *)
Gotowe(c) == LET i == c[1]
             IN  /\ pc[c] = "pracuje" /\ Sprawny(c)
                 /\ IF c[2] = "konsument"
                    THEN pc[<<i, "producent">>] = "gotowe"
                    ELSE DlugiPlik => /\ pc[<<i, "konsument">>] = "pracuje"
                                      /\ Sprawny(<<i, "konsument">>)
                 /\ Skok(c, "gotowe")
                 /\ UNCHANGED <<stan, krok, sprzatal, sygnaly, bledy>>

(* sem_wait(NULL) or sem_post(NULL) ends the process.                      *)
Awaria(c) == /\ pc[c] = "pracuje" /\ ~ Sprawny(c)
             /\ Skok(c, "koniec")
             /\ UNCHANGED <<stan, krok, sprzatal, sygnaly, bledy>>

-----------------------------------------------------------------------------
(* SIGINT.  The terminal signals the whole group, kill(1) only main.       *)

Sigint(i, komu) ==
  /\ komu \in Sygnaly /\ wyslane < MaxSigint /\ Zywy(<<i, "main">>)
  /\ wyslane' = wyslane + 1
  /\ zalegle' = zalegle \cup IF komu = "main" THEN {<<i, "main">>}
                             ELSE {p \in {i} \X Rola : Zywy(p)}
  /\ UNCHANGED <<stan, pc, krok, sprzatal, domyslny, bledy>>

PoExec(p) == pc[p] \in {"otwiera", "pracuje"}

\* Mutant: producent and konsument ignore SIGINT.
DostarczIgnoruje(p) ==
  /\ p \in zalegle /\ Zywy(p)
  /\ zalegle' = zalegle \ {p}
  /\ bledy' = bledy \cup {"sigint"}
  /\ IF PoExec(p) THEN UNCHANGED <<pc, domyslny>>
     ELSE IF p \in domyslny THEN Skok(p, "koniec") /\ UNCHANGED domyslny
     ELSE Skok(p, "obsluga") /\ domyslny' = domyslny \cup {p}
  /\ UNCHANGED <<stan, krok, sprzatal, wyslane>>

(* -std=c99 gives signal() its System V meaning: the first SIGINT resets   *)
(* the handler, the second one kills.  producent and konsument end either  *)
(* way: their handlers call exit(0) and only close what is theirs.         *)
Dostarcz(p) == /\ p \in zalegle /\ Zywy(p)
               /\ zalegle' = zalegle \ {p}
               /\ bledy' = bledy \cup {"sigint"}
                             \cup IF pc[p] = "sprzataj" THEN {"sprzatanie"} ELSE {}
               /\ IF p \in domyslny \/ PoExec(p)
                  THEN Skok(p, "koniec") /\ UNCHANGED domyslny
                  ELSE Skok(p, "obsluga") /\ domyslny' = domyslny \cup {p}
               /\ UNCHANGED <<stan, krok, sprzatal, wyslane>>

(* sigint_handler(): kill() the children whose pids are known.  A child    *)
(* that has not called exec runs it too, on its own copy of the pids.      *)
ZnanePid(p) == CASE p[2] = "main"      -> pid[p[1]]
                 [] p[2] = "konsument" -> {"producent"}
                 [] p[2] = "producent" -> {}

Obsluga(p) == /\ pc[p] = "obsluga"
              /\ zalegle' = zalegle \cup {q \in {p[1]} \X ZnanePid(p) : Zywy(q)}
              /\ IF p[2] = "main"
                 THEN Skok(p, "czekaj_sig") /\ UNCHANGED <<krok, sprzatal>>
                 ELSE Wyjdz(p)
              /\ UNCHANGED <<stan, domyslny, wyslane, bledy>>

-----------------------------------------------------------------------------
Krok(p) == \/ Usun(p) \/ Dostarcz(p) \/ Obsluga(p)
           \/ p[2] = "main" /\ \/ Tworz(p[1]) \/ Sprawdz(p[1]) \/ Czekaj(p[1])
                               \/ \E r \in Potomek : ForkUdany(p[1], r)
                               \/ \E r \in Potomek : ZapiszPid(p[1], r)
           \/ p[2] # "main" /\ (Exec(p) \/ Otworz(p) \/ Gotowe(p))

Zaklocenie == \E i \in Instancje : \/ \E r \in Potomek : ForkNieudany(i, r)
                                   \/ \E c \in Potomkowie(i) : ExecNieudany(c)
                                   \/ \E c \in Potomkowie(i) : Awaria(c)
                                   \/ \E komu \in Sygnaly : Sigint(i, komu)

Next == (\E p \in Proces : Krok(p)) \/ Zaklocenie

Spec == Init /\ [][Next]_vars

(* The kernel runs every process that can run and delivers every signal.   *)
FairSpec == Spec /\ \A p \in Proces : WF_vars(Krok(p))

-----------------------------------------------------------------------------
(* Properties.                                                             *)

Etykiety == {"brak", "tworz", "sprawdz", "fork_p", "pid_p", "fork_k", "pid_k",
             "czekaj", "obsluga", "czekaj_sig", "sprzataj", "przed_exec",
             "otwiera", "pracuje", "gotowe", "koniec"}

TypeOK == /\ nazwy \in [Nazwy -> Instancje \cup {Nikt}]
          /\ utworzone \in [Instancje -> SUBSET Nazwy]
          /\ pc \in [Proces -> Etykiety] /\ krok \in [Proces -> 1..4]
          /\ otwarte \in [Instancje \X Potomek -> [Nazwy -> Instancje \cup {Nikt}]]
          /\ pid \in [Instancje -> SUBSET Potomek]
          /\ domyslny \subseteq Proces /\ sprzatal \subseteq Proces
          /\ zalegle \subseteq Proces /\ wyslane \in 0..MaxSigint
          /\ bledy \subseteq {"exec", "fork", "sigint", "sprzatanie"}

Koniec == \A p \in Proces : ~ Zywy(p)
Puste  == \A n \in Nazwy : nazwy[n] = Nikt

(* When the processes of the program are gone so are the four names,       *)
(* although cleanup() gives up at the first name it does not find: names   *)
(* go in the order they came in.  Only a SIGINT in cleanup() breaks that.  *)
BezWycieku == Koniec /\ "sprzatanie" \notin bledy => Puste

(* main never removes a name, nor ends, before its children have ended,    *)
(* unless it could not create the second one.                              *)
CzekaNaPotomkow == \A i \in Instancje :
  (pc[<<i, "main">>] \in {"sprzataj", "koniec"} /\ "fork" \notin bledy)
    => \A c \in Potomkowie(i) : ~ Zywy(c)

(* If nothing fails, each child works on the four objects its own main has *)
(* created: none is gone when the child comes to open it.                  *)
WszystkoOtwarte == \A c \in Instancje \X Potomek :
  pc[c] = "pracuje" /\ bledy = {} => \A n \in Nazwy : otwarte[c][n] = c[1]

(* An undisturbed run ends.                                                *)
Zakonczenie == <>(Koniec \/ bledy # {})

(* main.c:50, "checks whether the processes exist, and if so sends them    *)
(* the closing signal": once in its handler, main gets to its end.         *)
SigintKonczy == \A i \in Instancje :
  pc[<<i, "main">>] = "obsluga" ~> pc[<<i, "main">>] = "koniec"

(* main.c:30-31, cleanup() "first checks what exists and what does not,    *)
(* and if it exists, closes it and then removes it": when nothing has      *)
(* failed and nobody sent a signal, every name is gone in the end.  A      *)
(* second ./main, started too early, removes the names of the first, which *)
(* then gives up at the missing pam_dziel and leaves its later names.      *)
SprzataCoIstnieje == Koniec /\ bledy = {} => Puste

=============================================================================
