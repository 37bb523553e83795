---------------------------- MODULE KlientSerwer ----------------------------
(***************************************************************************)
(* Zad_8: klient.c sends arithmetic expressions to serwer.c over the POSIX *)
(* message queue /server_queue and gets each answer from a queue of its    *)
(* own.  An object outlives its name: who has it open goes on using it.    *)
(***************************************************************************)
EXTENDS Integers, Sequences

CONSTANTS Klienci,
          Wyrazenia,       \* what users type: [a, op, b], Niepoprawne or Puste
          Niepoprawne,     \* a line sscanf finds no number-sign-number in
          Puste,           \* an empty line
          Smieci,          \* what the memory of a fresh server may look like
          Min, Max,        \* the range of int
          MaxMsg,          \* mq_maxmsg
          MaxStarty        \* how many times the server is started

Dzialania == [a : Min..Max, op : {"+", "-", "*", "/"}, b : Min..Max]

ASSUME KlientSerwerAssumption == /\ Min \in Int /\ Max \in Nat \ {0} /\ Min = -Max - 1
                                 /\ MaxMsg \in Nat \ {0} /\ MaxStarty \in Nat \ {0}
                                 /\ Wyrazenia \subseteq Dzialania \cup {Niepoprawne, Puste}
                                 /\ Smieci \subseteq (Dzialania \cup {Niepoprawne}) \ {Puste}

VARIABLES
  kolejka,    \* contents of every /server_queue created so far
  nazwa,      \* the one the name refers to, or 0
  spc, smq,   \* server: where it is, the queue it has open
  klient, expression, result,  \* server: the request it works on
  kpc, kmq,   \* each client: where it is, the /server_queue it has open
  input,      \* each client: its last question
  istnieje,   \* clients whose own queue has a name
  odpowiedzi, \* contents of each client's queue
  starty,     \* starts of the server
  przerwany   \* whether the server was ever ended by a signal

serwer == <<spc, smq, klient, expression, result, starty, przerwany>>
klienci == <<kpc, kmq, input>>
vars == <<kolejka, nazwa, serwer, klienci, istnieje, odpowiedzi>>

-----------------------------------------------------------------------------
(* evaluate_expression.  Overflow wraps in +, - and *; the quotient        *)
(* truncates; Min / -1 has no quotient and raises SIGFPE.  What is sent    *)
(* back is the status (-1 unreadable, -2 division by zero) and the result. *)

Zawin(n) == ((n - Min) % (Max - Min + 1)) + Min
Modul(n) == IF n < 0 THEN -n ELSE n
Znak(n)  == IF n < 0 THEN -1 ELSE 1

Pulapka(w) == w # Niepoprawne /\ w.op = "/" /\ w.a = Min /\ w.b = -1

evaluate_expression(w) ==
  LET wynik(n) == [status |-> 0, wynik |-> n]
      blad(s)  == [status |-> s, wynik |-> 0]
  IN  IF w = Niepoprawne THEN blad(-1)
      ELSE CASE w.op = "+" -> wynik(Zawin(w.a + w.b))
             [] w.op = "-" -> wynik(Zawin(w.a - w.b))
             [] w.op = "*" -> wynik(Zawin(w.a * w.b))
             [] w.op = "/" /\ w.b = 0 -> blad(-2)
             [] OTHER -> wynik(Znak(w.a) * Znak(w.b) * (Modul(w.a) \div Modul(w.b)))

-----------------------------------------------------------------------------
(* Before the first start klient, expression and result mean nothing.      *)
Init == /\ kolejka = <<>> /\ nazwa = 0
        /\ spc = "brak" /\ smq = 0 /\ starty = 0 /\ przerwany = FALSE
        /\ klient \in Klienci /\ result = [status |-> -1, wynik |-> 0]
        /\ expression \in Smieci
        /\ kpc = [k \in Klienci |-> "open"] /\ kmq = [k \in Klienci |-> 0]
        /\ input = [k \in Klienci |-> Puste]
        /\ istnieje = {} /\ odpowiedzi = [k \in Klienci |-> <<>>]

(* mq_open with O_CREAT and without O_EXCL takes an existing queue over.   *)
(* The locals of main() are not initialised (result is always written      *)
(* before it is read): nothing of an earlier server is left in them.       *)
SStart == /\ spc = "brak" /\ starty < MaxStarty
          /\ starty' = starty + 1
          /\ IF nazwa # 0 THEN UNCHANGED <<kolejka, nazwa>>
             ELSE /\ kolejka' = Append(kolejka, <<>>)
                  /\ nazwa' = Len(kolejka')
          /\ smq' = nazwa' /\ spc' = "receive"
          /\ klient' \in Klienci /\ expression' \in Smieci
          /\ UNCHANGED <<result, przerwany, klienci, istnieje, odpowiedzi>>

\* Mutant: the server goes on answering the client it first heard of.
SReceiveStaryKlient ==
  /\ spc = "receive" /\ kolejka[smq] # <<>>
  /\ LET m == Head(kolejka[smq])
     IN  expression' = IF m.co = Puste THEN expression ELSE m.co
  /\ kolejka' = [kolejka EXCEPT ![smq] = Tail(@)]
  /\ IF Pulapka(expression')
     THEN spc' = "brak" /\ przerwany' = TRUE /\ UNCHANGED result
     ELSE /\ spc' = "open" /\ UNCHANGED przerwany
          /\ result' = evaluate_expression(expression')
  /\ UNCHANGED <<nazwa, smq, klient, starty, klienci, istnieje, odpowiedzi>>

(* An empty line leaves expression as the last request left it.  SIGFPE    *)
(* kills the server without cleanup().                                     *)
SReceive == /\ spc = "receive" /\ kolejka[smq] # <<>>
            /\ LET m == Head(kolejka[smq])
               IN  /\ klient' = m.od
                   /\ expression' = IF m.co = Puste THEN expression ELSE m.co
            /\ kolejka' = [kolejka EXCEPT ![smq] = Tail(@)]
            /\ IF Pulapka(expression')
               THEN spc' = "brak" /\ przerwany' = TRUE /\ UNCHANGED result
               ELSE /\ spc' = "open" /\ UNCHANGED przerwany
                    /\ result' = evaluate_expression(expression')
            /\ UNCHANGED <<nazwa, smq, starty, klienci, istnieje, odpowiedzi>>

(* A client that is gone gets no answer.                                   *)
SOpen == /\ spc = "open"
         /\ spc' = IF klient \in istnieje THEN "send" ELSE "receive"
         /\ UNCHANGED <<kolejka, nazwa, smq, klient, expression, result, starty,
                        przerwany, klienci, istnieje, odpowiedzi>>

(* A client that went after mq_open leaves a queue nobody will read.       *)
SSend == /\ spc = "send"
         /\ IF klient \in istnieje
            THEN /\ Len(odpowiedzi[klient]) < MaxMsg
                 /\ odpowiedzi' = [odpowiedzi EXCEPT ![klient] = Append(@, result)]
            ELSE UNCHANGED odpowiedzi
         /\ spc' = "receive"
         /\ UNCHANGED <<kolejka, nazwa, smq, klient, expression, result, starty,
                        przerwany, klienci, istnieje>>

(* exit(0) and cleanup().                                                  *)
SSigint == /\ spc # "brak"
           /\ spc' = "brak" /\ nazwa' = 0 /\ przerwany' = TRUE
           /\ UNCHANGED <<kolejka, smq, klient, expression, result, starty, klienci,
                          istnieje, odpowiedzi>>

-----------------------------------------------------------------------------
Skok(k, skad, dokad) == kpc[k] = skad /\ kpc' = [kpc EXCEPT ![k] = dokad]

\* Mutant: the client does not create its queue.
KOpenBezKolejki(k) == /\ Skok(k, "open", "open_serwer")
                      /\ UNCHANGED <<kolejka, nazwa, serwer, kmq, input, istnieje,
                                     odpowiedzi>>

KOpen(k) == /\ Skok(k, "open", "open_serwer")
            /\ istnieje' = istnieje \cup {k}
            /\ UNCHANGED <<kolejka, nazwa, serwer, kmq, input, odpowiedzi>>

(* cleanup() removes the client's queue, with what is in it.               *)
Wyjdz(k) == /\ kpc' = [kpc EXCEPT ![k] = "koniec"]
            /\ istnieje' = istnieje \ {k}
            /\ odpowiedzi' = [odpowiedzi EXCEPT ![k] = <<>>]

KOpenSerwer(k) == /\ kpc[k] = "open_serwer"
                  /\ IF nazwa = 0 THEN Wyjdz(k) /\ UNCHANGED kmq
                     ELSE /\ Skok(k, "open_serwer", "fgets")
                          /\ kmq' = [kmq EXCEPT ![k] = nazwa]
                          /\ UNCHANGED <<istnieje, odpowiedzi>>
                  /\ UNCHANGED <<kolejka, nazwa, serwer, input>>

KFgets(k) == /\ Skok(k, "fgets", "send")
             /\ \E w \in Wyrazenia : input' = [input EXCEPT ![k] = w]
             /\ UNCHANGED <<kolejka, nazwa, serwer, kmq, istnieje, odpowiedzi>>

\* Mutants: it sends to a full queue; it asks twice.
KSendPrzepelnia(k) == /\ Skok(k, "send", "receive")
                      /\ Len(kolejka[kmq[k]]) <= MaxMsg
                      /\ kolejka' = [kolejka EXCEPT ![kmq[k]] =
                                       Append(@, [od |-> k, co |-> input[k]])]
                      /\ UNCHANGED <<nazwa, serwer, kmq, input, istnieje, odpowiedzi>>
KSendPonawia(k) == /\ \E dokad \in {"send", "receive"} : Skok(k, "send", dokad)
                   /\ Len(kolejka[kmq[k]]) < MaxMsg
                   /\ kolejka' = [kolejka EXCEPT ![kmq[k]] =
                                    Append(@, [od |-> k, co |-> input[k]])]
                   /\ UNCHANGED <<nazwa, serwer, kmq, input, istnieje, odpowiedzi>>

KSend(k) == /\ Skok(k, "send", "receive")
            /\ Len(kolejka[kmq[k]]) < MaxMsg
            /\ kolejka' = [kolejka EXCEPT ![kmq[k]] =
                             Append(@, [od |-> k, co |-> input[k]])]
            /\ UNCHANGED <<nazwa, serwer, kmq, input, istnieje, odpowiedzi>>

KReceive(k) == /\ odpowiedzi[k] # <<>>
               /\ Skok(k, "receive", "fgets")
               /\ odpowiedzi' = [odpowiedzi EXCEPT ![k] = Tail(@)]
               /\ UNCHANGED <<kolejka, nazwa, serwer, kmq, input, istnieje>>

(* The end of stdin, or SIGINT, wherever the client is.                    *)
KKoniec(k) == /\ kpc[k] # "koniec"
              /\ Wyjdz(k)
              /\ UNCHANGED <<kolejka, nazwa, serwer, kmq, input>>

-----------------------------------------------------------------------------
SerwerStep == SReceive \/ SOpen \/ SSend
KlientStep(k) == KOpen(k) \/ KOpenSerwer(k) \/ KSend(k) \/ KReceive(k)

Next == \/ SerwerStep \/ SStart \/ SSigint
        \/ \E k \in Klienci : KlientStep(k) \/ KFgets(k) \/ KKoniec(k)

Spec == Init /\ [][Next]_vars

(* Processes run when they can.  Linux wakes the senders of a full queue   *)
(* in their order, so that none is passed over for ever: strong fairness.  *)
(* Nobody has to type anything, to send a SIGINT or to start the server.   *)
FairSpec == Spec /\ WF_vars(SerwerStep)
                 /\ \A k \in Klienci : WF_vars(KlientStep(k)) /\ SF_vars(KSend(k))

-----------------------------------------------------------------------------
(* Properties.                                                             *)

Wyniki == [status : {0, -1, -2}, wynik : Min..Max]

Typy == /\ kolejka \in Seq(Seq([od : Klienci, co : Wyrazenia]))
        /\ Len(kolejka) <= MaxStarty /\ nazwa \in 0..Len(kolejka)
        /\ \A q \in DOMAIN kolejka : Len(kolejka[q]) <= MaxMsg
        /\ spc \in {"brak", "receive", "open", "send"} /\ smq \in 0..Len(kolejka)
        /\ klient \in Klienci
        /\ expression \in (Wyrazenia \ {Puste}) \cup Smieci
        /\ result \in Wyniki
        /\ kpc \in [Klienci -> {"open", "open_serwer", "fgets", "send", "receive",
                                "koniec"}]
        /\ kmq \in [Klienci -> 0..Len(kolejka)]
        /\ input \in [Klienci -> Wyrazenia \cup {Puste}]
        /\ istnieje \subseteq Klienci
        /\ odpowiedzi \in [Klienci -> Seq(Wyniki)]
        /\ starty \in 0..MaxStarty
TypeOK == Typy /\ przerwany \in BOOLEAN

(* An answer is right when it is the result modulo the range of int, a     *)
(* quotient with a remainder smaller than the divisor and signed as the    *)
(* dividend, or the message for what has no result.                        *)
Przystaje(m, n) == (m - n) % (Max - Min + 1) = 0

Poprawna(w, r) ==
  IF w \in {Niepoprawne, Puste} THEN r.status = -1
  ELSE IF w.op = "/" /\ w.b = 0 THEN r.status = -2
  ELSE /\ r.status = 0 /\ r.wynik \in Min..Max
       /\ CASE w.op = "+" -> Przystaje(r.wynik, w.a + w.b)
            [] w.op = "-" -> Przystaje(r.wynik, w.a - w.b)
            [] w.op = "*" -> Przystaje(r.wynik, w.a * w.b)
            [] w.op = "/" -> LET reszta == w.a - w.b * r.wynik
                             IN  /\ Modul(reszta) < Modul(w.b)
                                 /\ reszta = 0 \/ Znak(reszta) = Znak(w.a)

(* readme:35-39, the server answers each request on the queue of the       *)
(* client that sent it: what waits in a client's queue is the one right    *)
(* answer to the one question the client has open.                         *)
OdpowiedzNaPytanie == \A k \in Klienci : odpowiedzi[k] # <<>> =>
  /\ kpc[k] = "receive"
  /\ Len(odpowiedzi[k]) = 1
  /\ Poprawna(input[k], Head(odpowiedzi[k]))

(* The server never sleeps in mq_send: clients cannot hold each other up   *)
(* by not reading their answers.                                           *)
SerwerNieCzeka == spc = "send" /\ klient \in istnieje
                    => Len(odpowiedzi[klient]) < MaxMsg

Zapytania(k) == {z \in (DOMAIN kolejka) \X (1..MaxMsg) :
                   /\ z[2] <= Len(kolejka[z[1]])
                   /\ kolejka[z[1]][z[2]].od = k}
UPracy(k) == spc \in {"open", "send"} /\ klient = k

(* A waiting client lost nothing as long as no signal has hit the server.  *)
NicNieGinie == ~ przerwany => \A k \in Klienci : kpc[k] = "receive" =>
  \/ UPracy(k) \/ odpowiedzi[k] # <<>>
  \/ \E z \in Zapytania(k) : TRUE

(* Nothing is asked twice.                                                 *)
JednoZapytanie == \A k \in Klienci : \A z1, z2 \in Zapytania(k) :
  /\ z1 = z2
  /\ kpc[k] \in {"receive", "koniec"} /\ ~ UPracy(k) /\ odpowiedzi[k] = <<>>

(* A question is in one place at a time, in a queue, at the server, or     *)
(* answered, and in one it is; so the server never waits for a client.     *)
JednoMiejsce == JednoZapytanie /\ NicNieGinie /\ SerwerNieCzeka

(* Who asks gets an answer, also when the queue was full, or leaves;       *)
(* unless a signal ends the server.                                        *)
KazdyDostaje == \A k \in Klienci :
  kpc[k] = "send" ~> (kpc[k] \in {"fgets", "koniec"} \/ przerwany)

=============================================================================
