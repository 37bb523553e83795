# Formal models of the operating-systems exercises (Zad_1 … Zad_9)

The repository is a set of small C programs about processes, signals, pipes,
semaphores, shared memory, message queues and threads.  What is hard in them is
not computation but order: two or more processes share a ring buffer, a pipe, a
file, a counter or a queue, and any of them can be stopped by Ctrl+C between two
system calls.  This directory models those programs in TLA+, checks them with
TLC on small instances, and proves their safety properties with TLAPS for
every size.

Identifiers keep the (Polish) names of the source.

## 1. Inventory

| Part | State | Operations | Interaction | Hard behaviour | What makes it correct |
|---|---|---|---|---|---|
| Zad_7 `producent.c`, `konsument.c`, `lib/lib.c` | `SegmentPD` (ring `bufor[NBUF]`, `wstaw`, `wyjmij`) in shared memory; `/sem_empty`, `/sem_full`, `/sem_mutex`; two files | read an element, wait for a slot, lock, copy, move the index, unlock, post; and the mirror image | shared memory and three semaphores | interleaving, full and empty ring, short reads, SIGINT in the critical section | the ring is a bounded FIFO queue; output agrees with input; nobody waits for ever unless somebody was interrupted |
| Zad_7 `main.c` | four names in the kernel, pids of two children, the SIGINT handler, the atexit handler | create, check, fork, exec, wait, signal, clean up | fork/exec, signals, shared names | Ctrl+C at any instant, failed fork or exec, a second run | names do not outlive the program; main outlives its children; the handler gets to its end |
| Zad_6 (b) `powielacz.c`, `potomne.c` | `/semafor`, `numer.txt`, n children | zero the file, create the semaphore, fork n children; each: wait, read, truncate, write, post | one semaphore, one file | lost update, truncated file, failures, Ctrl+C, a second run | n·m sections counted; name removed; everybody ends |
| Zad_8 `serwer.c`, `klient.c` | `/server_queue`, a queue per client, the server's `client_queue_name` and `expression`, which outlive a request | receive, parse, evaluate, open, send; client: ask and wait | message queues | clients that go away, a server that restarts, full queues, stale variables, arithmetic at the ends of int | each client gets the right answer to its own question |
| Zad_9 `mutex_wykluczenie.c` | `pthread_mutex_t`, `global_counter`, `threads[]` | create, lock, increment, unlock, join, destroy | threads | lost update, failed `pthread_create`, life of the mutex | no increment lost; mutex outlives the threads |
| Zad_4 `main_4.c` | a pipe and its open ends, two files | read/write in chunks of 5 and 3 | a pipe between parent and child | end of file only when every write end is closed; SIGPIPE | output equals input; both end |
| Zad_5 `main_5_a.c`, `producent.c` | FIFO `potok`, two children, SIGINT and atexit handlers | mkfifo, fork, exec, open, copy, unlink | a FIFO opened by name | one child gone while the other is in open(); the handlers inherited by children | nothing lost; the FIFO is removed |
| Zad_3 `podpunkt_*.c` | signal dispositions, process groups, exit statuses | signal, setpgid, fork, exec, pause, kill, wait | signals | only sleep() orders `signal`/`setpgid` and `kill` | the signal finds its receivers ready; every end of a child is reported once, with the right pid |
| Zad_6 (a) `wykluczenie.c` | `/semafor` | parent and child enter a section three times each | fork, one semaphore | exit handler with its condition the wrong way round, runs that overlap | exclusion; name removed |
| Zad_1 `procesy.c`, Zad_2 `execlp.c`, `iden.c` | process tree, groups, stdio buffers | fork, exec, setpgid, sleep, wait, print | – | sleep() in place of wait(); buffers copied by fork() | each line once, in the order and with the parent the exercise asks for |
| Zad_6 `semalib.c` | – | wrappers of the semaphore calls | – | – | not compiled by the makefile; `Zad_7/lib` is its working version |

## 2. Modules

| Module | What it is | Source |
|---|---|---|
| `KolejkaOgraniczona` | abstract: a bounded FIFO queue whose head is looked at before it is dropped | what Zad_7's ring promises |
| `ProducentKonsument` (`MC…`, `…_proofs`) | the ring, its semaphores, both programs, SIGINT; input files for TLC; theorems | `Zad_7/producent.c`, `konsument.c`, `lib/lib.c` |
| `CyklZycia` (`…_proofs`) | names, processes, signals, cleanup of Zad_7; theorems | `Zad_7/main.c` |
| `LicznikSekcji` | abstract: a counter incremented in an exclusive section | what Zad_6 (b) and Zad_9 promise |
| `MutexWatki` | threads, mutex, main's loops | `Zad_9/mutex_wykluczenie.c` |
| `Powielacz` (`…_proofs`) | main, children, file, semaphore, Ctrl+C, a second run; theorems | `Zad_6/powielacz.c`, `potomne.c` |
| `KlientSerwer` (`MC…`, `…_proofs`) | server, clients, their queues; expressions for TLC; theorems | `Zad_8/serwer.c`, `klient.c` |
| `Potok` | a bounded stream of bytes with two ends, and the two copying loops | `Zad_4/main_4.c`, `Zad_5/producent.c` |
| `Przesylanie` (`MC…`, `…_proofs`) | composes `Potok` with the processes around it: pipe or FIFO, fork, exec, handlers, Ctrl+C; input files for TLC; theorems | `Zad_4/main_4.c`, `Zad_5/main_5_a.c` |
| `Czas` | discrete time, for programs ordered by sleep() | `sleep()` in Zad_1 and Zad_3 |
| `Sygnaly` (`…_proofs`) | two trees of processes that signal each other; extends `Czas`; theorems | `Zad_3/podpunkt_*.c` |
| `Procesy` | a parent with three children in six variants; extends `Czas` | `Zad_1/procesy.c`, `Zad_2` |
| `WatkiProcesy_proofs` | theorems about `MutexWatki` and, after them, about `Procesy` | – |
| `DwaProcesy` (`…_proofs`) | several runs of a two-process program on one name; theorems | `Zad_6/wykluczenie.c` |

`WatkiProcesy_proofs` extends the models of two programs that have nothing to do
with each other, and no theorem speaks of both.  So that it can, the names in
`Procesy` that a specification usually has are `ProcesyInit`, `ProcesyNext`,
`ProcesySpec`, `ProcesyVars` and `ProcesyOK`.

Each definition is tied to its lines of C in `PROJECT.json`.  A definition
marked `Mutant` is a wrong version of the next one, with a mistake one could
make in the code; it is no part of the specification, and is there to show that
a property notices.

### ProducentKonsument

One variable per shared object: `bufor`, `wstaw`, `wyjmij`, and `sem` for the
three semaphores; `pc` says where each process is, one label per system call or
access to the segment.  `PRead … PPostFull` are lines 62–80 of `producent.c`,
once per element.  The code after its loop (85–93) is the same sequence with
`memset` in place of `memcpy`, and so the same actions with an empty `porcja`.
`KWaitFull … KZapisz` are lines 62–85 of `konsument.c`.  `sem_wait` blocks while
the value is 0.  `memcpy` copies `bytes_read` bytes only, so the rest of the
slot keeps what was there.  SIGINT runs `exit(0)`: the process stops where it
is, and the semaphores keep their values.

### CyklZycia

The names `/pam_dziel`, `/sem_empty`, `/sem_full`, `/sem_mutex`, who created the
object behind each, and what each child has open.  main creates them one by one
(`shm_open` takes an existing segment over, `sem_open` has `O_EXCL`), checks two
of the three semaphores, forks, stores the pid in a step of its own, waits, and
removes the names one by one in `cleanup()`, which ends at the first missing
name because `CheckError` exits.  `-std=c99` gives `signal()` its System V
meaning: the handler serves one SIGINT, the next one has the default action.  A
child that has not called exec yet has main's handlers.  What the children do
with the buffer is summarised by `Gotowe`: the consumer ends after the producer,
the producer needs a working consumer if the file is larger than the ring.

### Powielacz and MutexWatki

The critical sections of the two programs, with the read and the write of the
shared number as separate steps (and, for the file, its truncation by
`fopen(…, "w")`).  Both are shown to implement `LicznikSekcji`; `Powielacz` as
long as no second `./pow` has truncated the file (`druga = "brak"`).

### KlientSerwer

A queue outlives its name: `kolejka` holds every `/server_queue` ever created,
`nazwa` says which one the name means, `smq` and `kmq` who has which one open.
`expression` and `klient` are the server's variables of lines 74–75, which
survive from one request to the next.  A server that starts has them
uninitialised: what their memory may hold is the constant `Smieci`, and `SStart`
chooses from it anew.  The arithmetic is that of an `int` of
`Min..Max`, wrapping, truncating, with a trap at `Min / -1`.  An expression is a
record, an unreadable line or an empty line, not a string.

### Potok and Przesylanie

`Potok` is what Zad_4 and Zad_5 share: the bytes in the pipe, the sets of
processes that have its write and its read end open, and the two loops.  A
chunk is within `PIPE_BUF` and so written whole, or not at all while there is
no room.  The consumer's `write()` to its file may fail (`WriteNieudany`): a
part of the chunk, or nothing, is then in the file.  `KEof` needs an empty pipe that nobody has open for writing, the
consumer included, and `PSigpipe` ends a producer that nobody can read from.

`Przesylanie` adds the rest, for one of three programs (`zadanie`): `"4"`, a
parent that produces and a child that consumes, each of which closes the end it
does not use; `"5a"`, `main_5_a.c`, which makes the FIFO and starts two
programs; `"5b"`, the same two started by hand in terminals of their own.
`OpenPotok` is `open()` of a FIFO: the first to come waits for the second.
`main_5_a.c` has an atexit handler (`UsunPotok`) and a SIGINT handler
(`Handler`, `HandlerWait`), and its children have both until they call exec.

### Czas, Sygnaly and Procesy

In Zad_3 and parts of Zad_1 nothing but `sleep()` puts the processes in order,
and no claim about them holds without time.  `Czas` has the usual kind:
`sen[p]` is how long p still sleeps, `luz[p]` how long a process that can run
may still take to its next sleep or wait, at most `Opoznienie`.  Time passes
only while everybody who can run has time left.

`Sygnaly` is the program of part (b) and that of part (c), with the user's
signal and mode.  A process that has been forked ignores what its parent
ignores, `exec` keeps that, and `signal()` fails for SIGKILL and SIGSTOP, which
ends the process.  `Kill` acts on all its receivers according to what each does
with the signal and to the signal's default action.  `los` is the wait status,
with the core flag as a nondeterministic choice.  `Spoznienie` is a busy
machine: one process, once, is late by as much again as `Opoznienie`, and
receivers may then be hit before they are ready.  `Wait2` takes any child that
has ended; if SIGCHLD is ignored it takes none, and `status` keeps what it had,
at first one of four statuses that stand for the uninitialised one.  The line
that follows (`Linia`) has the status of the child waited for but, as in the
code, the pid `tab_pid[i]`: of the child created in this place (`Nr`).

In `Procesy` a program is the sequence of the calls it makes (`Macierzyste`,
`Potomne`; a `fork()` is named after its child), and a process has a sequence of
calls left.  `Printf` writes a line
at once if the output is a terminal, and puts it into the process's buffer if
it is a file; `Fork` copies the buffer, `Execlp` drops it, exit writes it.

### DwaProcesy

Any number of runs of `wykluczenie.c` on one name.  Every run that gets past
`sem_open` has a semaphore of its own, and `nazwa` says whose it is that the
name means.  Both processes of a run pass through `exit_handler` when they
exit; its test and its `sem_unlink` are two steps.

## 3. Runs

| Run | Expected | Instance | What it shows |
|---|---|---|---|
| `bufor` | pass | `NBUF = 3`, `NELE = 2`, files of 0–9 bytes, and files of 9 with one NUL | types; mutual exclusion; accounts of slots and indices; output agrees with input at every instant; refinement of `KolejkaOgraniczona`; an uninterrupted copy of a text file ends, and is whole |
| `bufor_kopia` | violation | files of 0–3 bytes | the output is longer than the input unless the length is a multiple of `NELE` |
| `cykl` | pass | one run, any fork or exec may fail, one Ctrl+C | names are removed, main outlives its children, the children find what main made, the handler ends |
| `cykl_dwie` | violation | two runs, no failure, no signal | `cleanup()` does not check what exists, and leaves semaphores behind |
| `watki` | pass | 3 threads, 2 sections, failing `pthread_create` | right total, mutex outlives threads, refinement of `LicznikSekcji`, termination |
| `powielacz` | pass | 3 children, 2 sections, failures, one Ctrl+C, a second `./pow` | exclusion of the run's children whatever happens; and without the second `./pow` no truncated file is read, right total, refinement, termination; name removed |
| `serwer` | pass | 2 clients, queues of 1 message, 2 starts of the server | right answers to the right clients; a question is in one place at a time and the server never blocks in `mq_send`; every client is answered, or leaves, or a signal hit the server.  The module also has TLC evaluate `evaluate_expression` against the definition of the four operations for all pairs of operands |
| `serwer_puste` | violation | 2 clients, empty lines, no expression in uninitialised memory | an empty line is answered with the result of an earlier request: in the trace a client asks 3+2, is answered, and gets the same answer to its empty line |
| `potok` | pass | all three programs, files of 0, 3 and 7 bytes, chunks of 3 and 2, a pipe of 4, failing fork, exec, open, write, two SIGINTs | no byte lost, repeated or overtaken; no FIFO left behind; Zad_4 always ends, Zad_5 unless one program never opens the FIFO; an undisturbed copy is whole |
| `sygnaly` | pass | both programs, three modes, signals 3 (core), 9 (cannot be caught), 15, 17 (SIGCHLD), 20 (stops), failing fork and exec, one process late | the signal finds everybody ready unless somebody is late; the lines of process 2 match the children it has waited for even then, and are true of the children whose pids they have unless something went wrong; everybody ends unless something went wrong |
| `procesy` | pass | five variants and Zad_2, terminal and file, failing fork and exec | number, order, parents and groups of the printed lines |
| `dwa_procesy` | pass | three runs, two sections, failing fork, Ctrl+C to any run | exclusion, also between runs; termination; no name left |

### Bounds

* `NBUF = 3` and five elements: the ring fills, empties and wraps around; with
  `NELE = 2` there are full and short reads.  The bytes of a file are all
  different, so a loss, repetition or exchange shows.  All the safety
  properties are proved for all sizes.
* One SIGINT (`MaxSigint`) in `cykl` and `powielacz`: the interesting thing is
  where the first one hits.  In `cykl` a process can still get two, the
  terminal's and the one main's handler sends.  Two in `potok`, one that ends
  main's handler's children and one that finds main in its handler.
* Three participants with two sections each: two are enough for a lost update,
  three for one that overtakes two.  Three runs in `dwa_procesy`: one that ends
  late, one whose name it removes, and one that starts then.
* `MaxMsg = 1`: with two clients the server's queue is often full.  Two starts
  of the server give a queue without a name next to one with the name, and a
  restart that takes over the queue of a killed server.
* A three-bit `int` has all the boundary cases of a 32-bit one.
* Chunks of 3 and 2 bytes for 5 and 3, and a pipe of 4 for 65536: neither size
  divides the other or the pipe, so chunks are split, joined, and wait for
  room.  `Strumien` is proved for all sizes.
* Time: `Sekunda = 1`, `Opoznienie = 1` in `sygnaly` and `Sekunda = 3`,
  `Opoznienie = 1` in `procesy`.  How late the processes may be is the
  assumption under which `sleep()` does its work, and it is not arbitrary:
  `sygnaly` holds as long as `Opoznienie < 2 * Sekunda` and fails at
  `Opoznienie = 2, Sekunda = 1` (the child of part (b) has not called `pause()`
  when the signal comes); with `Spoznienie` this happens in the run, and the
  properties say so; `procesy` needs `2 * Opoznienie < Sekunda` and fails
  with `Sekunda = 2` (a child of part (c) prints before its parent has ended).

### Fairness and deadlock

Every process is scheduled when it can run (`WF` of its steps): the kernel does
that.  No fairness is assumed of what nobody has to do: Ctrl+C, failures of
calls, typing a line, starting a server, a second run.  For a client in
`mq_send` strong fairness is assumed, because Linux keeps the senders that wait
for a full queue in order and hands them the freed place directly.  For
semaphores weak fairness suffices: every contender enters a bounded number of
times.  In `Sygnaly` time passes too (`WF` of `Tyka`).

All the programs end, so the runs say `CHECK_DEADLOCK FALSE`; that nobody is
stuck before the end is said by `Zakonczenie`, `SigintKonczy` and `KazdyDostaje`
instead, and for `Procesy` by the theorem `ProcesyKonczaInv`.

## 4. Theorems

For `ProducentKonsument` (any `NBUF, NELE >= 1`, any set of bytes, any set of
input files; assumption `BuforAssumption`):

* `TypeCorrect`, `RozliczenieInv`, `WykluczenieInv`, `BezZakleszczeniaInv`,
  `WyjscieZgodneInv`, and `KolejkaRefinement`: `Spec => KolejkaFifo`, the ring
  implements the queue.
* `DlugoscInv`, `CalyTekstInv`, `BezPostojuInv`, `UbywaInv` (see Progress).
* The inductive invariant is `Niezmiennik == TypeOK /\ Rozliczenie /\ Odczytany`.
  `Rozliczenie` counts, besides the values of the semaphores, the slots each
  process has taken and not yet given back, which can be read off its `pc`:
  `Zajete + Wolne = NBUF`, `wstaw` is `Zajete` slots after `wyjmij`, and the
  mutex is free or held by one process.  Without the indices the two would not
  be known to stay `Zajete` apart, and without `Odczytany` the step that drops
  an element would not be known to drop the one the consumer has.
* For the refinement each step that is not a stutter is one of `Put`
  (`PAdvance`), `Peek` (`KCopy`) and `Drop` (`KAdvance`); `PCopy` writes a slot
  outside the queue because the producer holds a free slot.  Arithmetic modulo
  `NBUF` is in the lemmas `Mod…`.
* For the output, `Miejsca` says of every element on its way (in `porcja`, in
  the slot just written, in each filled slot, in the consumer's `buf`) which
  bytes of the input file it stands for.  A short read leaves the tail of an
  older element in its slot; it is past the end of the input, of which
  `Miejsca` says nothing (the run `bufor_kopia` shows it in the output).

* For the end of the file: `Calosc` counts bytes, what has been put, what is in
  the ring and what the consumer has written.  So the output is longer than the
  input by less than one element (`Dlugosc`), and when the consumer has left its
  loop by itself the whole text is there (`CalyTekst`), if no element of the
  text begins with a zero byte.

For `MutexWatki` (any number of threads and sections; `WatkiAssumption`):

* `TypOK`, `LicznikInv`, `WynikInv`, `MutexInv`, and `LicznikRefinement`:
  `Spec => LicznikSpec`; `BezZakleszczeniaInv`, `UbywaInv` (see Progress).
* The inductive invariant adds to the types: who is in the section is who holds
  the mutex; the register of the thread about to write is up to date; `i` and
  `pc` agree; main's loops have not passed a thread that runs; and the counter
  is the number of sections performed.  The step that counts adds one element
  to the set `Wykonane` of performed sections.

For `Powielacz` (any number of children and sections, any failures, any number
of SIGINTs, with or without a second `./pow`):

* `TypOK`, `WykluczenieInv`, `BezWyciekuInv`, `WynikInv`, and
  `LicznikRefinement`: `Spec => LicznikSpec`; `BezZakleszczeniaInv`, `UbywaInv`
  (see Progress).
* The inductive invariant `IInv` consists of: `Liczby`, the types of the
  numbers; `Kolejno`, a child main has not come to yet does not run; `Straz`,
  one child at most is in the section, and the semaphore is 0 while one is;
  `Sekcje`, a child that runs has not done more than its sections; `Domyslny`,
  until main sets its handler SIGINT has the default action; and `Plik`, the
  file has a number unless somebody is between truncating and writing it, and
  who is about to write has the right one.  `Straz` is what makes exclusion
  inductive; `Plik` is needed for the refinement, where the value read must be
  the abstract counter.
* For the name: `Sprzatanie`, while it exists main lives and is where it will
  unlink it, and `Gotowy`, a first SIGINT finds main's handler set and not yet
  used.
* For the result: `Gladko`, as long as nothing has gone wrong (`Spokoj`) nobody
  leaves before its last section (`Bezawaryjne`), main waits for them all
  (`Dzieci`), and the number in the file is that of the sections performed
  (`Zliczone`, counted by the set `Wykonane` as in `MutexWatki`).

For `Przesylanie` (any files, chunk sizes and pipe size; `PotokAssumption`,
`PrzesylanieAssumption`):

* `TypOK`, `StrumienInv`, `BezPotokuInv`, `CalaKopiaInv`; `BezZakleszczeniaInv`,
  `UbywaInv` (see Progress).
* `Strumien` is inductive together with `Puste`: a process that is about to
  read has nothing in its chunk, so that nothing is overwritten.  `BezPotoku`
  needs `Usuniety`, once main of Zad_5 (a) is past the removal the name is
  gone, and `Nienarodzone`, what is about to be forked is not there yet.

* `CalaKopia`, that the two files are equal when all have ended and nothing went
  wrong, needs to know who has which end open, because a pipe gives an end of
  file when the last writer has closed it, and breaks when the last reader has:
  that is the inductive `Siec`.  Its parts are `Role`, the labels of each
  process; `Konce`, who has an end open where; `JedenCzeka`, one at most waits
  in `open()` of the FIFO; `Cisza`, what nobody has done while nothing went
  wrong; and `Przerwani`, that a SIGINT in Zad_5 (a) hits everybody who is
  there.

For `DwaProcesy` (any set of runs, any `N`; `DwaProcesyAssumption`):

* `TypOK`, `WykluczenieInv`; `BezZakleszczeniaInv`, `UbywaInv` (see Progress).
* The inductive invariant: `Semafor`, the value of a run's semaphore is 0 while
  one of its processes is in the section; `Jeden`, one of them at most; `Rodzic`,
  while a child runs its parent is in its loop or waits for it; and `Nazwa`, as
  long as no name of another run was removed, the name is that of the run
  between `sem_open` and `sem_unlink`, of which there is one at most, and the
  handler of a child finds it there.

For `KlientSerwer` (any number of clients, messages in a queue and starts of
the server, any expressions over any `int` of `-Max - 1 .. Max`;
`KlientSerwerAssumption`):

* `TypOK`, `JednoMiejsceInv`, and `OdpowiedzInv`, which has the assumption that
  nobody sends an empty line (`Puste \notin Wyrazenia`); the run `serwer_puste`
  shows that it is needed.  `BezPostojuInv`, `OdlegloscInv` (see Progress).
* `WynikPoprawny`: `evaluate_expression` gives the right answer for every
  expression, by lemmas on the modulus (`ZawinPoprawne`) and on truncated
  division (`DzieleniePoprawne`), which needs that `Min / -1` is excluded.
* The inductive invariant: `Otwarte`, who uses a queue has opened it, and a
  client's own queue is there as long as the client; `WKolejce`, `WPracy`,
  `Odebrane`, a question that is in a queue, at the server, or answered, is in
  no other of these places, and its client waits or has gone; `Zachowane`,
  until a signal hits the server the question of a client that waits is in one;
  and `Tresc`, it is the present question, and the answer is its answer.
  `WKolejce` speaks of positions (`pyta`), so that taking the first message and
  adding a last one are renumberings (`PytaReceive`, `PytaSend`).

For `CyklZycia` (any failures of fork and exec, any file; `CyklAssumption`):

* `TypOK` for any number of runs and signals; `CzekaNaPotomkowInv` for any
  number of runs, with one SIGINT from outside at most (`MaxSigint <= 1`: the
  second one kills main, because its handler has been reset);
  `BezWyciekuInv` and `WszystkoOtwarteInv` for one run (`Instancje = {a}`: the
  run `cykl_dwie` shows what a second one does), with one SIGINT at most.
  `UbywaInv`, `BezZakleszczeniaInv` (see Progress).
* `Drzewo` is inductive: types; `JedenSygnal`, main gets one SIGINT at most;
  `Etapy`, a child is not there before main comes to its fork; and
  `CzekaNaPotomkow`.  All actions but fork are a `Ruch` of one process.
* For the names: `Przedzial`, the names there are follow each other; `ZaSoba`,
  who cleans up has no name behind itself; `Dalej`, when the first name is gone
  or main has ended, somebody is about to remove the first name that is left;
  `RazSprzata`, nobody comes to `cleanup()` twice.  `Dalej` is what makes it
  harmless that `cleanup()` gives up at a missing name.  All actions but
  `Tworz` and `Usun` are an `Obok`: they leave the names as they are.
* For the objects opened: `Otwierane`, while nothing has gone wrong all names
  are there from the last creation until main has waited for its children.

For `Sygnaly` (any signal numbers of 1..31, any failures, any length of a
second; `CzasAssumption`, `SygnalyAssumption`):

* `TypOK`, `GotowiInv`, `RaportInv`; `UbywaInv`, `BezZakleszczeniaInv`,
  `ZgodnieInv` (see Progress).  All but `TypOK` and `UbywaInv` assume
  `Opoznienie < 2 * Sekunda`: a process takes less than two seconds to its next
  wait.  The run `sygnaly` has such values, and without the assumption
  `GotowiInv` and `RaportInv` fail (see Bounds).
* The inductive invariant `IInv`, in which there is no time: `Etapy`, which
  labels a program can be at; `Rodowod`, who has been forked by then; `Grupa`,
  the group of process 2 is empty until `setpgid` and complete before it sleeps;
  `Obsluga`, who is in the group ignores the signal until its own `signal()`,
  does what its mode says from then on, and is not hit before `Kill`; and
  `Wypisane`, the number of lines written.
* Time is in `Czasy`: while process 1 sleeps, what a process on its way still
  may take (`luz`) and what process 1 still sleeps (`sen`) go down together, so
  their difference only grows (`Terminy`).  For program c it is a chain of two,
  process 2 and then its children, against four seconds.  At `Kill` the sleep is
  over, and a process still on its way would need a negative `luz`.
* For the report: a wait status is final (`Ostateczny`), a child ends as its
  mode says (`Losy`, where `Zabity` uses time), and a line fits the status it is
  made from (`LiniaZgadza`: status % 128).  That the lines match the children
  waited for is the inductive `Wierne`, a bijection that each `wait()` carries
  on by one child (`Dopasowanie`), as `wait()` does not fail before the third
  line (`JestZombie`, from `Liczone`: as many lines as children waited for).
  The pids do not follow this bijection.  That they are right while nothing goes
  wrong is for another reason, the only one the code has: then all the children
  that have ended have the same wait status (`Podobni`), those killed because
  the signal is sent once (`Jednakowo`).

For `Procesy` (any calls that fail, any length of a second, any delay;
`CzasAssumption`, `ProcesyAssumption`):

* `ProcesyTypOK`, `WydrukInv`; `ProcesyKonczaInv` (see Progress).  `WydrukInv` is
  about (c) and (d) when `2 * Opoznienie < Sekunda`, which the run `procesy` has
  and without which `Wydruk` fails (see Bounds), and about the others whatever
  the delay: there it is `wait()`, or nothing, that puts the lines in order.
* Where a process is in its program is said by the set of calls it has left
  (`Zostalo`), of which the next one says which others are in it (`GdzieRodzic`,
  `GdzieDziecko`).  The actions are restated as what they do to these sets
  (`Idzie`, `Powstaje`, `Odchodzi`) and to the lines (`Dopisuje`, `Kopiuje`,
  `Gubi`, `Oddaje`), and all that follows is proved of these.
* The inductive invariant `ProcesyInv` has, besides the types, what holds while
  nothing has failed.  `Zycie`: a child not yet forked does not run
  (`Nieurodzeni`), the groups are as the calls made so far say (`Grupy`), a
  child that runs has a parent at its `wait()` or asleep for long enough
  (`Trwa`), and in (c) the parent ends before any child wakes up (`Krocej`: a
  tick takes as much from what the parent still needs, `Termin`, as from the
  child's sleep).
* For what the lines say: `Wierne`, a child's line, written or in a buffer, has
  the right parent and group; `Porzadek`, the order, with `Bufory`, which lines
  a process may have in its buffer when it writes it out.
* For how often: `Ilosci`, the number of lines of each kind, those in buffers
  counted with those written (`Suma`), so that `exit()` changes nothing and
  `fork()` adds what `WBuforze` says the parent has; `Oproznione`, a process that
  has ended has nothing in its buffer, which makes `Suma` in the end the number
  of lines written.

Progress.  That the programs end is a property of fair behaviours, which is out
of the prover's reach (as is `ENABLED`) and stays with TLC as `Zakonczenie`.
What it rests on is proved, for all sizes:

* `UbywaInv == Spec => []Naturalne /\ Ubywa` (in `Procesy` the second half of
  `ProcesyKonczaInv`): to every process belongs a number
  (`Reszta`), that of the steps it may have left, and every step lowers one of
  them and raises none.  So no schedule, fair or not, is infinite.
* `BezZakleszczeniaInv` (in `ProducentKonsument` `BezPostojuInv`, in `Procesy`
  the first half of `ProcesyKonczaInv`): until all
  have ended one of them can go on.  "Can go on" (`Moze`, `Czeka`) repeats the
  guards of the actions; TLC has found it equivalent to `ENABLED` of them in all
  states of the runs.

What each of them excepts is what the runs show not to end:

| module | `UbywaInv` | nobody is stuck |
|---|---|---|
| `MutexWatki` | always | always |
| `DwaProcesy` | always | always |
| `Powielacz` | always | unless a second `./pow` has emptied the file |
| `ProducentKonsument` | always | nobody killed, no element that begins with a zero byte |
| `Przesylanie` | always | unless one is left alone in `open()` of the FIFO (`BezDrugiego`) |
| `CyklZycia` | always | in one run, while nothing has failed, or after a Ctrl+C |
| `Procesy` | always | always |
| `Sygnaly` | always | a signal that ends its receivers, no failure, nobody late, `Opoznienie < 2 * Sekunda` |

The arguments differ.  A thread or process that waits for the mutex or for the
semaphore waits for one that is in its section (`MutexWatki`, `DwaProcesy`,
`Powielacz`).  In `ProducentKonsument`, when the partner has ended, the
semaphores have the values the other one still needs (`Domkniete`).  In
`Przesylanie` the ends of the pipe are closed by everybody but the two who use
them (`Siec`).  In `CyklZycia` the consumer ends last and neither child fails
while nothing has gone wrong (`Rodzenstwo`), and after a Ctrl+C everybody has it
pending or is on its way out (`Trafieni`), as nobody is forked with a signal
pending.

In `Sygnaly` the measure counts the ticks of the clock too: between two steps of
a process there are fewer than `Pora` of them, and one delay.  By `Gotowi` the
signal finds its receivers waiting, so that who still waits in `pause()` has not
been sent it (another `Trafieni`), and who waits for a child has one that runs.
There `ZgodnieInv` says how it ends: when nobody runs any more, every child has
ended as its mode demands, process 2 has waited for each of its own (but for
SIGCHLD) and there is a line with the pid of each (`Spodziewani`), which is what `Zakonczenie` says is reached (`Koniec`).

In `Procesy` the measure counts calls, and a `fork()` for more calls than its
child has; what a process may sleep or be late counts less than a call
(`ProcesyMiara`).  Who waits, the parent, waits for children, and a child never
waits, so that while one runs it can make a call or is asleep (`KtosIdzie`).

The server of Zad_8 does not end.  There `OdlegloscInv` says that until a signal
hits it a client that waits is at most `3 * MaxMsg + 2` steps of the server away
from its answer, that each of these brings it nearer, and that no step of
another client, present or new, puts it back; and `BezPostojuInv` that the
server or the client can go on.  Only the place in a full queue, before
`mq_send` returns, needs the strong fairness of the run.

Only model-checked: all liveness under fairness (`Zakonczenie`, `SigintKonczy`,
`KazdyDostaje`, …).  Of `Zakonczenie` of `Sygnaly` that leaves to TLC that the
programs and the clock do go on.

## 5. Findings

Shown by runs that expect a violation:

* `konsument.c:85` of Zad_7 writes whole elements: the copy is padded (the
  committed `plik_wyj.txt` has 60 bytes, `plik_wej.txt` 57).
* `cleanup()` in `main.c` removes names of another run, and gives up at a
  missing name.
* `serwer.c` answers an empty line with the result of an earlier request, of
  the same client or of another one.

In the models as exceptions of properties, or as choices the models make:

* A NUL at the start of an element ends the consumer of Zad_7 and not the
  producer, which then waits for ever; the readme (line 64) has it that the
  producer stops (`Zakonczenie` is about files without NUL).
* main of Zad_7 signals only the children whose pids it has stored.  A SIGINT
  for main alone between `fork()` and the assignment leaves it waiting for a
  child that was not signalled (`SigintKonczy` with `Sygnaly = {"main"}`).
* A SIGINT while `cleanup()` of Zad_7 or `exit_handler` of Zad_6 (b) runs, or
  between `sem_open` and the assignment of its result, leaves names behind
  (`BezWycieku`).
* `powielacz.c` zeroes the file before it knows whether another run uses it: a
  second `./pow` spoils the total of the first (`WynikZgodny`).
* `exit_handler` of `wykluczenie.c` removes the name when it cannot be opened,
  not when it can: a failed fork or a Ctrl+C leaves it for ever, and a run
  that ends late may remove the name of the next one, beside which a third can
  then start (`obca` in `Wykluczenie`).
* In `podpunkt_c_2.c` the name of the signal is looked up with the whole status,
  and is unknown when a core was dumped (`Zgadza` in `Raport`).
* In `podpunkt_c_2.c` `tab_pid[i]` is in the order of creation and the status in
  the order of death, so the two in one line may belong to different children.
  While nothing goes wrong this does not show, since all the statuses are alike.
  After a failed exec it does: if the third child cannot exec, the first line
  has its exit code and the pid of the first child, which still runs and is
  killed later (`Raport` without `bledy = {}` is violated by this).
* With signal 17 (SIGCHLD) `podpunkt_c_2.c` ignores the end of its children,
  `wait()` fails, and three lines with the pids of the children are made from a
  `status` that was never written (`BezStatusow`, the exception of `Raport`).
* With its output in a file `procesy.c` prints its question four times, and in
  (d) the parent's line too (`Kopie` in `Wydruk`).
* In Zad_5 a program that fails before it opens the FIFO leaves the other one,
  and in part (a) main, waiting (`BezDrugiego` in `Zakonczenie`).

## 6. Not modelled

* `Zad_6/semalib.c`: not compiled by the makefile, and would not compile.
* The producer program of Zad_5: the repository does not have it (`producent.c`
  there is the consumer).  Its loop is taken from Zad_4.
* In Zad_7 the `memset` of a live run's segment by a second `./main`, and
  failures of `mmap` and `ftruncate`.
* Wrong command lines: the programs refuse them before they do anything, but
  for `powielacz.c`, which has opened its file by then.
* A second `./pow` of Zad_6 (b) that finds the name gone, because the first run
  is at its end or has been ended by Ctrl+C: it makes a semaphore and children of
  its own, which may be in the section beside children of the first run that
  are still there.  What is modelled of it is that it zeroes the file
  (`DrugaOpen`, `DrugaClose`); `Wykluczenie` of `Powielacz` is about the children
  of one run.
* Printed output, except where it is a result; the random sleeps of the copying
  loops and those of `wykluczenie.c`, which only pick among the schedules that
  are checked anyway; failures of other calls than those named in `Bledy` or
  `Awarie` (names that exist or do not are in the models).
* In Zad_9 `int` overflow of the counter needs more sections than a run can
  perform.

## 7. Plan

A second `./main` beside `ProducentKonsument`: `memset` of a live segment
(line 77), after which the indices restart at 0 while the semaphores keep their
values.
