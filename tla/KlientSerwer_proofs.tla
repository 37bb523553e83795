------------------------- MODULE KlientSerwer_proofs -------------------------
(* Theorems of KlientSerwer.                                               *)
EXTENDS KlientSerwer, TLAPS

-----------------------------------------------------------------------------
(* The arithmetic of the server.                                           *)

(* A multiple leaves no remainder.                                         *)
LEMMA ModWielokrotnosc ==
  ASSUME NEW d \in Nat \ {0}, NEW k \in Int
  PROVE  (d * k) % d = 0
<1> DEFINE e == k - ((d * k) \div d)
<1>1. d * k \in Int /\ (d * k) \div d \in Int /\ (d * k) % d \in 0..(d - 1)
      /\ (d * k) % d = d * k - d * ((d * k) \div d)
  OBVIOUS
<1>2. e \in Int /\ (d * k) % d = d * e
  BY <1>1
<1> HIDE DEF e
<1>3. ~ (e >= 1) /\ ~ (e <= -1)
  <2>1. e >= 1 => d * e >= d
    BY <1>2
  <2>2. e <= -1 => d * e <= -d
    BY <1>2
  <2> QED BY <1>1, <1>2, <2>1, <2>2
<1>4. e = 0
  BY <1>2, <1>3
<1> QED BY <1>2, <1>4

(* Wrapping brings any integer into the range of int, by multiples of its  *)
(* size.                                                                   *)
LEMMA ZawinPoprawne ==
  ASSUME NEW n \in Int
  PROVE  Zawin(n) \in Min..Max /\ Przystaje(Zawin(n), n)
<1> DEFINE M == Max - Min + 1
           r == (n - Min) % M
<1>1. Min \in Int /\ Max \in Int /\ M \in Nat /\ M > 0 /\ n - Min \in Int
  BY KlientSerwerAssumption
<1>2. r \in 0..(M - 1) /\ (n - Min) - r = M * ((n - Min) \div M)
  BY <1>1
<1>3. Zawin(n) = r + Min /\ Zawin(n) - n = r - (n - Min)
  BY <1>1, <1>2 DEF Zawin
<1>4. Zawin(n) \in Min..Max
  BY <1>1, <1>2, <1>3
<1>5. Zawin(n) - n = M * (-((n - Min) \div M))
  <2>1. (n - Min) \div M \in Int
    BY <1>1
  <2> QED BY <1>1, <1>2, <1>3, <2>1
<1>6. (Zawin(n) - n) % M = 0
  <2> DEFINE k == -((n - Min) \div M)
  <2>1. k \in Int
    BY <1>1
  <2>2. (M * k) % M = 0
    <3> HIDE DEF M, k
    <3> QED BY <1>1, <2>1, ModWielokrotnosc
  <2> QED BY <1>5, <2>2
<1> QED BY <1>4, <1>6 DEF Przystaje

(* The quotient of the absolute values, with its remainder.                *)
LEMMA Iloraz ==
  ASSUME NEW m \in Nat, NEW d \in Nat \ {0}
  PROVE  /\ m \div d \in Nat
         /\ d * (m \div d) <= m /\ m < d * (m \div d) + d
         /\ m \div d <= m /\ (d >= 2 => 2 * (m \div d) <= m)
<1>1. m \div d \in Int /\ d * (m \div d) <= m /\ m < d * (m \div d) + d
  OBVIOUS
<1>2. m \div d >= 0
  BY <1>1
<1> QED BY <1>1, <1>2

(* The quotient truncates, has the right remainder, and fits into int but  *)
(* for Min / -1.                                                           *)
LEMMA DzieleniePoprawne ==
  ASSUME NEW a \in Min..Max, NEW b \in Min..Max, b # 0, ~ (a = Min /\ b = -1),
         NEW q, q = Znak(a) * Znak(b) * (Modul(a) \div Modul(b)),
         NEW reszta, reszta = a - b * q
  PROVE  /\ q \in Min..Max
         /\ Modul(reszta) < Modul(b) /\ (reszta = 0 \/ Znak(reszta) = Znak(a))
<1> DEFINE p == Modul(a) \div Modul(b)
<1>1. Modul(a) \in Nat /\ Modul(b) \in Nat \ {0}
  BY KlientSerwerAssumption DEF Modul
<1>2. /\ p \in Nat
      /\ Modul(b) * p <= Modul(a) /\ Modul(a) < Modul(b) * p + Modul(b)
      /\ p <= Modul(a) /\ (Modul(b) >= 2 => 2 * p <= Modul(a))
  BY <1>1, Iloraz
<1>3. q = Znak(a) * Znak(b) * p
  OBVIOUS
<1> HIDE DEF p
<1>4. CASE a >= 0 /\ b > 0
  <2>1. q = p /\ reszta = a - b * p
    BY <1>2, <1>3, <1>4, KlientSerwerAssumption DEF Znak
  <2> QED BY <1>2, <1>4, <2>1, KlientSerwerAssumption DEF Znak, Modul
<1>5. CASE a >= 0 /\ b < 0
  <2>1. q = -p /\ reszta = a - (-b) * p
    BY <1>2, <1>3, <1>5, KlientSerwerAssumption DEF Znak
  <2> QED BY <1>2, <1>5, <2>1, KlientSerwerAssumption DEF Znak, Modul
<1>6. CASE a < 0 /\ b > 0
  <2>1. q = -p /\ reszta = -((-a) - b * p)
    BY <1>2, <1>3, <1>6, KlientSerwerAssumption DEF Znak
  <2> QED BY <1>2, <1>6, <2>1, KlientSerwerAssumption DEF Znak, Modul
<1>7. CASE a < 0 /\ b < 0
  <2>1. q = p /\ reszta = -((-a) - (-b) * p)
    BY <1>2, <1>3, <1>7, KlientSerwerAssumption DEF Znak
  <2>2. p \in 0..Max
    BY <1>2, <1>7, KlientSerwerAssumption DEF Modul
  <2> QED BY <1>2, <1>7, <2>1, <2>2, KlientSerwerAssumption DEF Znak, Modul
<1> QED BY <1>4, <1>5, <1>6, <1>7, KlientSerwerAssumption

(* evaluate_expression is right for every expression and every range of    *)
(* int; a trap is no result.                                               *)
LEMMA WynikPoprawny ==
  ASSUME NEW w \in Dzialania \cup {Niepoprawne}, ~ Pulapka(w), w # Puste
  PROVE  evaluate_expression(w) \in Wyniki /\ Poprawna(w, evaluate_expression(w))
<1> DEFINE r == evaluate_expression(w)
<1>0. 0 \in Min..Max /\ Min \in Int /\ Max \in Int
  BY KlientSerwerAssumption
<1>1. CASE w = Niepoprawne
  BY <1>0, <1>1 DEF evaluate_expression, Wyniki, Poprawna
<1>2. CASE w # Niepoprawne
  <2>0. /\ w \in Dzialania /\ w \notin {Niepoprawne, Puste}
        /\ w.a \in Min..Max /\ w.b \in Min..Max /\ w.a \in Int /\ w.b \in Int
        /\ w.op \in {"+", "-", "*", "/"}
    BY <1>0, <1>2 DEF Dzialania
  <2>1. CASE w.op = "+"
    <3>1. r = [status |-> 0, wynik |-> Zawin(w.a + w.b)]
      BY <1>2, <2>1 DEF evaluate_expression
    <3>2. Zawin(w.a + w.b) \in Min..Max /\ Przystaje(Zawin(w.a + w.b), w.a + w.b)
      BY <2>0, ZawinPoprawne
    <3> QED BY <2>0, <2>1, <3>1, <3>2 DEF Wyniki, Poprawna
  <2>2. CASE w.op = "-"
    <3>1. r = [status |-> 0, wynik |-> Zawin(w.a - w.b)]
      BY <1>2, <2>2 DEF evaluate_expression
    <3>2. Zawin(w.a - w.b) \in Min..Max /\ Przystaje(Zawin(w.a - w.b), w.a - w.b)
      BY <2>0, ZawinPoprawne
    <3> QED BY <2>0, <2>2, <3>1, <3>2 DEF Wyniki, Poprawna
  <2>3. CASE w.op = "*"
    <3>1. r = [status |-> 0, wynik |-> Zawin(w.a * w.b)]
      BY <1>2, <2>3 DEF evaluate_expression
    <3>2. Zawin(w.a * w.b) \in Min..Max /\ Przystaje(Zawin(w.a * w.b), w.a * w.b)
      BY <2>0, ZawinPoprawne
    <3> QED BY <2>0, <2>3, <3>1, <3>2 DEF Wyniki, Poprawna
  <2>4. CASE w.op = "/" /\ w.b = 0
    <3>1. r = [status |-> -2, wynik |-> 0]
      BY <1>2, <2>4 DEF evaluate_expression
    <3> QED BY <1>0, <2>0, <2>4, <3>1 DEF Wyniki, Poprawna
  <2>5. CASE w.op = "/" /\ w.b # 0
    <3> DEFINE q == Znak(w.a) * Znak(w.b) * (Modul(w.a) \div Modul(w.b))
               reszta == w.a - w.b * q
    <3>1. r = [status |-> 0, wynik |-> q]
      BY <1>2, <2>5 DEF evaluate_expression
    <3>2. ~ (w.a = Min /\ w.b = -1)
      BY <1>2, <2>5 DEF Pulapka
    <3>3. /\ q \in Min..Max
          /\ Modul(reszta) < Modul(w.b) /\ (reszta = 0 \/ Znak(reszta) = Znak(w.a))
      BY <2>0, <2>5, <3>2, DzieleniePoprawne
    <3> HIDE DEF q
    <3> QED BY <2>0, <2>5, <3>1, <3>3 DEF Wyniki, Poprawna
  <2> QED BY <2>0, <2>1, <2>2, <2>3, <2>4, <2>5
<1> QED BY <1>1, <1>2

-----------------------------------------------------------------------------
(* The inductive invariant.  pyta(k, q, n): the n-th message of the q-th   *)
(* queue is a question of k.                                               *)
Zapytanie == [od : Klienci, co : Wyrazenia]
pyta(k, q, n) == /\ q \in 1..Len(kolejka) /\ n \in 1..Len(kolejka[q])
                 /\ kolejka[q][n].od = k

(* Who has a queue open has one that exists, and a client has its own from *)
(* mq_open() to cleanup().                                                 *)
Otwarte == /\ Len(kolejka) <= starty /\ (spc # "brak" => smq # 0)
           /\ \A k \in Klienci :
                /\ kpc[k] \in {"fgets", "send", "receive"} => kmq[k] # 0
                /\ kpc[k] = "send" => input[k] \in Wyrazenia
                /\ k \in istnieje <=> kpc[k] \notin {"open", "koniec"}

(* A question is in one place: a queue, the server, or answered.           *)
WKolejce == \A k \in Klienci : \A q, n \in Nat : pyta(k, q, n) =>
              /\ \A r, m \in Nat : pyta(k, r, m) => q = r /\ n = m
              /\ kpc[k] \in {"receive", "koniec"} /\ ~ UPracy(k) /\ odpowiedzi[k] = <<>>
WPracy == \A k \in Klienci : UPracy(k) =>
            kpc[k] \in {"receive", "koniec"} /\ odpowiedzi[k] = <<>>
Odebrane == \A k \in Klienci : odpowiedzi[k] # <<>> =>
              kpc[k] = "receive" /\ Len(odpowiedzi[k]) = 1

(* Until a signal hits the server it is in one.                            *)
Zachowane == ~ przerwany => \A k \in Klienci : kpc[k] = "receive" =>
  UPracy(k) \/ odpowiedzi[k] # <<>> \/ \E q, n \in Nat : pyta(k, q, n)

(* It is the client's present question, and the answer is right.           *)
Tresc == Puste \notin Wyrazenia => \A k \in Klienci : kpc[k] = "receive" =>
  /\ \A q, n \in Nat : pyta(k, q, n) => kolejka[q][n].co = input[k]
  /\ UPracy(k) => Poprawna(input[k], result)
  /\ odpowiedzi[k] # <<>> => Poprawna(input[k], Head(odpowiedzi[k]))

Miejsca == WKolejce /\ WPracy /\ Odebrane /\ Zachowane
IInv == Typy /\ Otwarte /\ Miejsca /\ Tresc

-----------------------------------------------------------------------------
(* Types.                                                                  *)

(* Replacing one of several sequences.                                     *)
LEMMA Wymiana ==
  ASSUME NEW S, NEW f \in Seq(Seq(S)), NEW q \in DOMAIN f, NEW t \in Seq(S)
  PROVE  /\ [f EXCEPT ![q] = t] \in Seq(Seq(S)) /\ Len([f EXCEPT ![q] = t]) = Len(f)
         /\ DOMAIN [f EXCEPT ![q] = t] = DOMAIN f
         /\ \A r \in DOMAIN f : [f EXCEPT ![q] = t][r] = IF r = q THEN t ELSE f[r]
  OBVIOUS

(* Boolean apart from the other types.                                     *)
LEMMA LogiczneInit == Init => przerwany \in BOOLEAN
  BY Zenon DEF Init

(* Whether a signal ever hit the server is kept as a Boolean.              *)
LEMMA LogiczneStep == przerwany \in BOOLEAN /\ [Next]_vars => przerwany' \in BOOLEAN
<1> SUFFICES ASSUME przerwany \in BOOLEAN, [Next]_vars PROVE przerwany' \in BOOLEAN
  OBVIOUS
<1>1. SReceive \/ SSigint => przerwany' = TRUE \/ przerwany' = przerwany
  BY Zenon DEF SReceive, SSigint
<1>2. SStart \/ SOpen \/ SSend => przerwany' = przerwany
  BY Zenon DEF SStart, SOpen, SSend
<1>3. ASSUME NEW k \in Klienci, KlientStep(k) \/ KFgets(k) \/ KKoniec(k)
      PROVE  przerwany' = przerwany
  BY <1>3, Zenon DEF KlientStep, KOpen, KOpenSerwer, KSend, KReceive, KFgets, KKoniec, serwer
<1>4. UNCHANGED vars => przerwany' = przerwany
  BY Zenon DEF vars, serwer
<1> QED BY <1>1, <1>2, <1>3, <1>4, Zenon DEF Next, SerwerStep

(* Types and open queues at the start.                                     *)
LEMMA TypeInit == Init => Typy /\ Otwarte
<1> SUFFICES ASSUME Init PROVE Typy /\ Otwarte
  OBVIOUS
<1>1. result \in Wyniki
  BY KlientSerwerAssumption DEF Init, Wyniki
<1>2. kolejka \in Seq(Seq(Zapytanie)) /\ Len(kolejka) = 0 /\ DOMAIN kolejka = {}
  BY DEF Init
<1>3. Typy
  BY <1>1, <1>2, KlientSerwerAssumption DEF Init, Typy, Zapytanie
<1> QED BY <1>2, <1>3, KlientSerwerAssumption DEF Init, Otwarte

(* Every action keeps types and open queues, a full queue included.        *)
LEMMA TypeStep == Typy /\ Otwarte /\ [Next]_vars => Typy' /\ Otwarte'
<1> SUFFICES ASSUME Typy, Otwarte, [Next]_vars PROVE Typy' /\ Otwarte'
  OBVIOUS
<1> USE KlientSerwerAssumption DEF Typy, Otwarte
<1>1. CASE SStart
  <2>1. CASE nazwa # 0
    BY <1>1, <2>1 DEF SStart, klienci
  <2>2. CASE nazwa = 0
    <3>1. kolejka' = Append(kolejka, <<>>) /\ nazwa' = Len(kolejka')
      BY <1>1, <2>2 DEF SStart
    <3>2. /\ kolejka' \in Seq(Seq(Zapytanie)) /\ Len(kolejka') = Len(kolejka) + 1
          /\ \A q \in DOMAIN kolejka' : Len(kolejka'[q]) <= MaxMsg
      BY <3>1 DEF Zapytanie
    <3> QED BY <1>1, <3>1, <3>2 DEF SStart, klienci, Zapytanie
  <2> QED BY <2>1, <2>2
<1>2. CASE SReceive
  <2> DEFINE m == Head(kolejka[smq])
  <2>1. /\ smq \in DOMAIN kolejka /\ kolejka[smq] \in Seq(Zapytanie)
        /\ kolejka[smq] # <<>> /\ m \in Zapytanie
    <3>1. smq \in 1..Len(kolejka) /\ kolejka[smq] # <<>>
      BY <1>2 DEF SReceive
    <3>2. kolejka[smq] \in Seq(Zapytanie)
      BY <3>1 DEF Zapytanie
    <3>3. \A s \in Seq(Zapytanie) : s # <<>> => Head(s) \in Zapytanie
      OBVIOUS
    <3> QED BY <3>1, <3>2, <3>3
  <2>2. klient' \in Klienci /\ expression' \in (Wyrazenia \ {Puste}) \cup Smieci
    BY <1>2, <2>1 DEF SReceive, Zapytanie
  <2>3. result' \in Wyniki
    <3>1. CASE Pulapka(expression')
      BY <1>2, <3>1 DEF SReceive
    <3>2. CASE ~ Pulapka(expression')
      <4>1. result' = evaluate_expression(expression')
        BY <1>2, <3>2 DEF SReceive
      <4>2. \A w \in (Wyrazenia \ {Puste}) \cup Smieci :
              ~ Pulapka(w) => evaluate_expression(w) \in Wyniki
        BY WynikPoprawny
      <4> QED BY <2>2, <3>2, <4>1, <4>2
    <3> QED BY <3>1, <3>2
  <2>4. /\ kolejka' \in Seq(Seq(Zapytanie)) /\ Len(kolejka') = Len(kolejka)
        /\ \A q \in DOMAIN kolejka' : Len(kolejka'[q]) <= MaxMsg
    <3>1. kolejka' = [kolejka EXCEPT ![smq] = Tail(@)]
      BY <1>2 DEF SReceive
    <3>2. Tail(kolejka[smq]) \in Seq(Zapytanie) /\ Len(Tail(kolejka[smq])) <= MaxMsg
      <4>1. Len(kolejka[smq]) <= MaxMsg
        BY <2>1
      <4> DEFINE s == kolejka[smq]
      <4>2. s \in Seq(Zapytanie) /\ s # <<>> /\ Len(s) <= MaxMsg
        BY <2>1, <4>1
      <4> HIDE DEF s
      <4>3. Tail(s) \in Seq(Zapytanie) /\ Len(Tail(s)) <= MaxMsg
        BY <4>2
      <4> QED BY <4>3 DEF s
    <3> DEFINE t == Tail(kolejka[smq])
    <3>3. kolejka' = [kolejka EXCEPT ![smq] = t] /\ t \in Seq(Zapytanie) /\ Len(t) <= MaxMsg
      BY <3>1, <3>2
    <3>4. kolejka \in Seq(Seq(Zapytanie)) /\ \A q \in DOMAIN kolejka : Len(kolejka[q]) <= MaxMsg
      BY DEF Zapytanie
    <3> HIDE DEF t, Typy, Otwarte
    <3>5. /\ kolejka' \in Seq(Seq(Zapytanie)) /\ Len(kolejka') = Len(kolejka)
          /\ \A q \in DOMAIN kolejka : kolejka'[q] = IF q = smq THEN t ELSE kolejka[q]
      BY <2>1, <3>3, <3>4, Wymiana
    <3> QED BY <3>3, <3>4, <3>5
  <2> QED BY <1>2, <2>2, <2>3, <2>4 DEF SReceive, klienci, Zapytanie
<1>3. CASE SOpen \/ SSigint
  <2>1. UNCHANGED <<kolejka, smq, klient, expression, result, starty, klienci, istnieje,
                    odpowiedzi>>
    BY <1>3 DEF SOpen, SSigint
  <2>2. /\ spc' \in {"brak", "receive", "open", "send"} /\ (spc' # "brak" => spc # "brak")
        /\ nazwa' \in {0, nazwa}
    BY <1>3 DEF SOpen, SSigint
  <2> QED BY <2>1, <2>2 DEF klienci
<1>4. CASE SSend
  <2>1. odpowiedzi' \in [Klienci -> Seq(Wyniki)]
    <3>1. Append(odpowiedzi[klient], result) \in Seq(Wyniki)
      OBVIOUS
    <3>2. \/ odpowiedzi' = odpowiedzi
          \/ odpowiedzi' = [odpowiedzi EXCEPT ![klient] = Append(odpowiedzi[klient], result)]
      BY <1>4 DEF SSend
    <3> QED BY <3>1, <3>2
  <2> QED BY <1>4, <2>1 DEF SSend, klienci
<1>5. ASSUME NEW k \in Klienci, KOpen(k) \/ KOpenSerwer(k) \/ KFgets(k) \/ KKoniec(k)
      PROVE  Typy' /\ Otwarte'
  <2>1. CASE KOpen(k)
    BY <1>5, <2>1 DEF KOpen, Skok, serwer
  <2>2. CASE KOpenSerwer(k)
    <3>1. CASE nazwa = 0
      <4>1. /\ kpc' = [kpc EXCEPT ![k] = "koniec"] /\ istnieje' = istnieje \ {k}
            /\ odpowiedzi' = [odpowiedzi EXCEPT ![k] = <<>>]
            /\ UNCHANGED <<kolejka, nazwa, serwer, kmq, input>>
        BY <2>2, <3>1 DEF KOpenSerwer, Wyjdz
      <4>2. odpowiedzi' \in [Klienci -> Seq(Wyniki)]
        BY <4>1
      <4> QED BY <4>1, <4>2 DEF serwer
    <3>2. CASE nazwa # 0
      BY <2>2, <3>2 DEF KOpenSerwer, Skok, Wyjdz, serwer
    <3> QED BY <3>1, <3>2
  <2>3. CASE KFgets(k)
    BY <1>5, <2>3 DEF KFgets, Skok, serwer
  <2>4. CASE KKoniec(k)
    BY <1>5, <2>4 DEF KKoniec, Wyjdz, serwer
  <2> QED BY <1>5, <2>1, <2>2, <2>3, <2>4
<1>6. ASSUME NEW k \in Klienci, KSend(k) PROVE Typy' /\ Otwarte'
  <2> DEFINE m == [od |-> k, co |-> input[k]]
             q == kmq[k]
  <2>1. m \in Zapytanie /\ q \in DOMAIN kolejka /\ kolejka[q] \in Seq(Zapytanie)
    BY <1>6 DEF KSend, Skok, Zapytanie
  <2>2. kolejka' = [kolejka EXCEPT ![q] = Append(@, m)] /\ Len(kolejka[q]) < MaxMsg
    BY <1>6 DEF KSend
  <2>3. /\ kolejka' \in Seq(Seq(Zapytanie)) /\ Len(kolejka') = Len(kolejka)
        /\ \A r \in DOMAIN kolejka' : Len(kolejka'[r]) <= MaxMsg
    <3> HIDE DEF m, q
    <3>1. /\ Append(kolejka[q], m) \in Seq(Zapytanie)
          /\ Len(Append(kolejka[q], m)) = Len(kolejka[q]) + 1
      BY <2>1
    <3> QED BY <2>1, <2>2, <3>1 DEF Zapytanie
  <2> QED BY <1>6, <2>3 DEF KSend, Skok, serwer, Zapytanie
<1>7. ASSUME NEW k \in Klienci, KReceive(k) PROVE Typy' /\ Otwarte'
  <2>1. Tail(odpowiedzi[k]) \in Seq(Wyniki)
    BY <1>7 DEF KReceive
  <2> QED BY <1>7, <2>1 DEF KReceive, Skok, serwer
<1>8. CASE UNCHANGED vars
  BY <1>8 DEF vars, serwer, klienci
<1> QED BY <1>1, <1>2, <1>3, <1>4, <1>5, <1>6, <1>7, <1>8
        DEF Next, SerwerStep, KlientStep

-----------------------------------------------------------------------------
(* What an action does to the questions in the queues.                     *)

(* Queues that stay as they are hold the same questions.                   *)
(* A new queue is empty; the earlier ones keep their questions.            *)
LEMMA PytaStart ==
  ASSUME Typy, SStart, NEW k, NEW q \in Nat, NEW n \in Nat
  PROVE  /\ pyta(k, q, n)' <=> pyta(k, q, n)
         /\ pyta(k, q, n) => kolejka'[q][n] = kolejka[q][n]
<1>1. CASE UNCHANGED kolejka
  BY <1>1 DEF pyta
<1>2. CASE kolejka' = Append(kolejka, <<>>)
  <2>1. /\ Len(kolejka') = Len(kolejka) + 1 /\ Len(kolejka) \in Nat
        /\ kolejka'[Len(kolejka) + 1] = <<>> /\ Len(kolejka'[Len(kolejka) + 1]) = 0
        /\ \A r \in 1..Len(kolejka) : kolejka'[r] = kolejka[r]
    BY <1>2 DEF Typy
  <2>2. CASE q = Len(kolejka) + 1
    BY <2>1, <2>2 DEF pyta
  <2>3. CASE q # Len(kolejka) + 1
    BY <2>1, <2>3 DEF pyta
  <2> QED BY <2>2, <2>3
<1> QED BY <1>1, <1>2 DEF SStart

(* The first message goes, the others move up.                             *)
LEMMA PytaReceive ==
  ASSUME Typy, Otwarte, SReceive
  PROVE  /\ smq \in Nat /\ kolejka[smq][1] \in Zapytanie
         /\ klient' = kolejka[smq][1].od /\ pyta(klient', smq, 1)
         /\ expression' = IF kolejka[smq][1].co = Puste THEN expression
                          ELSE kolejka[smq][1].co
         /\ \A k \in Klienci, q, n \in Nat :
              LET m == IF q = smq THEN n + 1 ELSE n
              IN  /\ pyta(k, q, n)' <=> n # 0 /\ pyta(k, q, m)
                  /\ n # 0 /\ pyta(k, q, m) => kolejka'[q][n] = kolejka[q][m]
<1> DEFINE s == kolejka[smq]
           t == Tail(s)
<1>1. smq \in DOMAIN kolejka /\ smq \in 1..Len(kolejka) /\ s \in Seq(Zapytanie) /\ s # <<>>
  BY DEF SReceive, Typy, Otwarte, Zapytanie
<1>2. /\ kolejka' = [kolejka EXCEPT ![smq] = t]
      /\ klient' = Head(s).od
      /\ expression' = IF Head(s).co = Puste THEN expression ELSE Head(s).co
  BY DEF SReceive
<1> HIDE DEF s
<1>3. /\ t \in Seq(Zapytanie) /\ Len(t) = Len(s) - 1 /\ Len(s) \in Nat /\ Len(s) >= 1
      /\ Head(s) = s[1] /\ s[1] \in Zapytanie
      /\ \A n \in 1..Len(t) : t[n] = s[n + 1]
  BY <1>1
<1> HIDE DEF t
<1>4. /\ Len(kolejka') = Len(kolejka) /\ Len(kolejka) \in Nat
      /\ \A r \in 1..Len(kolejka) : kolejka'[r] = IF r = smq THEN t ELSE kolejka[r]
  <2>1. kolejka \in Seq(Seq(Zapytanie))
    BY DEF Typy, Zapytanie
  <2>2. DOMAIN kolejka = 1..Len(kolejka) /\ Len(kolejka) \in Nat
    BY <2>1
  <2> QED BY <1>1, <1>2, <1>3, <2>1, <2>2, Wymiana
<1>5. pyta(klient', smq, 1)
  BY <1>1, <1>2, <1>3 DEF pyta, s
<1>6. ASSUME NEW k \in Klienci, NEW q \in Nat, NEW n \in Nat
      PROVE  LET m == IF q = smq THEN n + 1 ELSE n
             IN  /\ pyta(k, q, n)' <=> n # 0 /\ pyta(k, q, m)
                 /\ n # 0 /\ pyta(k, q, m) => kolejka'[q][n] = kolejka[q][m]
  <2>1. CASE q = smq
    <3>1. kolejka'[q] = t /\ kolejka[q] = s
      BY <1>1, <1>4, <2>1 DEF s
    <3>2. pyta(k, q, n)' <=> n \in 1..Len(t) /\ t[n].od = k
      BY <1>1, <1>4, <2>1, <3>1 DEF pyta
    <3>3. pyta(k, q, n + 1) <=> n + 1 \in 1..Len(s) /\ s[n + 1].od = k
      BY <1>1, <2>1, <3>1 DEF pyta
    <3> QED BY <1>3, <2>1, <3>1, <3>2, <3>3
  <2>2. CASE q # smq
    BY <1>4, <2>2 DEF pyta
  <2> QED BY <2>1, <2>2
<1>7. kolejka[smq][1] = s[1]
  BY DEF s
<1> QED BY <1>1, <1>2, <1>3, <1>5, <1>6, <1>7

(* The sender's question comes last.                                       *)
LEMMA PytaSend ==
  ASSUME Typy, Otwarte, NEW j \in Klienci, KSend(j)
  PROVE  \E p, o \in Nat :
           /\ ~ \E k \in Klienci : pyta(k, p, o)
           /\ kolejka'[p][o].co = input[j]
           /\ \A k \in Klienci, q, n \in Nat :
                /\ pyta(k, q, n)' <=> pyta(k, q, n) \/ (k = j /\ q = p /\ n = o)
                /\ pyta(k, q, n) => kolejka'[q][n] = kolejka[q][n]
<1> DEFINE m == [od |-> j, co |-> input[j]]
           p == kmq[j]
           t == Append(kolejka[p], m)
           o == Len(kolejka[p]) + 1
<1>1. /\ m \in Zapytanie /\ p \in 1..Len(kolejka) /\ p \in DOMAIN kolejka
      /\ kolejka[p] \in Seq(Zapytanie)
  BY DEF KSend, Skok, Zapytanie, Typy, Otwarte
<1>2. kolejka' = [kolejka EXCEPT ![p] = t]
  BY DEF KSend
<1>3. m.od = j /\ m.co = input[j]
  OBVIOUS
<1> HIDE DEF m, p
<1>4. /\ t \in Seq(Zapytanie) /\ Len(t) = o /\ t[o] = m /\ Len(kolejka[p]) \in Nat
      /\ \A n \in 1..Len(kolejka[p]) : t[n] = kolejka[p][n]
  BY <1>1
<1> HIDE DEF t
<1>5. /\ Len(kolejka') = Len(kolejka) /\ Len(kolejka) \in Nat
      /\ \A r \in 1..Len(kolejka) : kolejka'[r] = IF r = p THEN t ELSE kolejka[r]
  <2>1. kolejka \in Seq(Seq(Zapytanie))
    BY DEF Typy, Zapytanie
  <2>2. DOMAIN kolejka = 1..Len(kolejka) /\ Len(kolejka) \in Nat
    BY <2>1
  <2> QED BY <1>1, <1>2, <1>4, <2>1, <2>2, Wymiana
<1>6. p \in Nat /\ o \in Nat /\ ~ \E k \in Klienci : pyta(k, p, o)
  BY <1>1, <1>4, <1>5 DEF pyta
<1>7. kolejka'[p][o].co = input[j]
  BY <1>1, <1>3, <1>4, <1>5
<1>8. ASSUME NEW k \in Klienci, NEW q \in Nat, NEW n \in Nat
      PROVE  /\ pyta(k, q, n)' <=> pyta(k, q, n) \/ (k = j /\ q = p /\ n = o)
             /\ pyta(k, q, n) => kolejka'[q][n] = kolejka[q][n]
  <2>1. CASE q = p
    BY <1>1, <1>3, <1>4, <1>5, <2>1 DEF pyta
  <2>2. CASE q # p
    BY <1>5, <2>2 DEF pyta
  <2> QED BY <2>1, <2>2
<1> HIDE DEF o
<1> QED BY <1>6, <1>7, <1>8

-----------------------------------------------------------------------------
(* Where the questions are.                                                *)

(* At the start nothing has been asked.                                    *)
LEMMA InitMiejsca == Init => Miejsca /\ Tresc
<1> SUFFICES ASSUME Init PROVE Miejsca /\ Tresc
  OBVIOUS
<1>1. \A k, q, n : ~ pyta(k, q, n)
  BY DEF Init, pyta
<1>2. \A k \in Klienci : kpc[k] = "open" /\ odpowiedzi[k] = <<>> /\ ~ UPracy(k)
  BY DEF Init, UPracy
<1> QED BY <1>1, <1>2 DEF Miejsca, WKolejce, WPracy, Odebrane, Zachowane, Tresc

(* A step that moves no question of k on: k may leave, or turn to          *)
(* something else when no question of its own is on the way.               *)
Cichy(k) == /\ \/ /\ kpc'[k] = kpc[k] /\ input'[k] = input[k]
                  /\ odpowiedzi'[k] = odpowiedzi[k]
               \/ kpc'[k] = "koniec" /\ odpowiedzi'[k] = <<>>
               \/ /\ kpc'[k] # "receive" /\ odpowiedzi'[k] = <<>> /\ ~ UPracy(k)
                  /\ \A q, n \in Nat : ~ pyta(k, q, n)
            /\ UPracy(k)' => UPracy(k) /\ result' = result
            /\ UPracy(k) => UPracy(k)' \/ kpc'[k] # "receive" \/ przerwany'
            /\ przerwany => przerwany'
            /\ \A q, n \in Nat : /\ pyta(k, q, n)' <=> pyta(k, q, n)
                                 /\ pyta(k, q, n) => kolejka'[q][n] = kolejka[q][n]

(* Steps quiet for every client keep each question in its place.           *)
LEMMA CichyKrok ==
  ASSUME Miejsca, Tresc, \A k \in Klienci : Cichy(k)
  PROVE  Miejsca' /\ Tresc'
<1> USE DEF Miejsca, Cichy
<1>1. WKolejce'
  BY DEF WKolejce, Odebrane
<1>2. WPracy'
  BY DEF WPracy
<1>3. Odebrane'
  BY DEF Odebrane
<1>4. Zachowane'
  BY DEF Zachowane
<1>5. Tresc'
  BY DEF Tresc
<1> QED BY <1>1, <1>2, <1>3, <1>4, <1>5

(* The server starting, stopping or missing a client is quiet.             *)
LEMMA CicheSerwera ==
  ASSUME IInv, SStart \/ SOpen \/ SSigint \/ UNCHANGED vars, NEW k \in Klienci
  PROVE  Cichy(k)
<1>1. UNCHANGED <<kpc, input, odpowiedzi, result>>
  BY DEF SStart, SOpen, SSigint, vars, klienci, serwer
<1>2. \A q, n \in Nat : /\ pyta(k, q, n)' <=> pyta(k, q, n)
                        /\ pyta(k, q, n) => kolejka'[q][n] = kolejka[q][n]
  <2>1. CASE SStart
    BY <2>1, PytaStart DEF IInv
  <2>2. CASE UNCHANGED kolejka
    BY <2>2 DEF pyta
  <2> QED BY <2>1, <2>2 DEF SOpen, SSigint, vars
<1>3. UPracy(k)' => UPracy(k)
  BY DEF SStart, SOpen, SSigint, vars, serwer, UPracy
<1>4. UPracy(k) => UPracy(k)' \/ kpc'[k] # "receive" \/ przerwany'
  <2>1. CASE SStart \/ UNCHANGED vars
    BY <2>1 DEF SStart, vars, serwer, UPracy
  <2>2. CASE SOpen
    BY <2>2 DEF SOpen, UPracy, IInv, Otwarte, klienci
  <2>3. CASE SSigint
    BY <2>3, Zenon DEF SSigint
  <2> QED BY <2>1, <2>2, <2>3
<1>5. przerwany => przerwany'
  BY Zenon DEF SStart, SOpen, SSigint, vars, serwer
<1> QED BY <1>1, <1>2, <1>3, <1>4, <1>5 DEF Cichy

(* A client other than in mq_send() to the server is quiet.                *)
LEMMA CicheKlienta ==
  ASSUME IInv, NEW j \in Klienci, NEW k \in Klienci,
         KOpen(j) \/ KOpenSerwer(j) \/ KFgets(j) \/ KReceive(j) \/ KKoniec(j)
  PROVE  Cichy(k)
<1>1. UNCHANGED <<kolejka, spc, klient, result>>
  BY DEF KOpen, KOpenSerwer, KFgets, KReceive, KKoniec, serwer
<1>2. przerwany' = przerwany
  BY Zenon DEF KOpen, KOpenSerwer, KFgets, KReceive, KKoniec, serwer
<1>3. \A q, n \in Nat : /\ pyta(k, q, n)' <=> pyta(k, q, n)
                        /\ pyta(k, q, n) => kolejka'[q][n] = kolejka[q][n]
  BY <1>1 DEF pyta
<1>4. UPracy(k)' <=> UPracy(k)
  BY <1>1 DEF UPracy
<1>5. /\ DOMAIN kpc = Klienci /\ DOMAIN input = Klienci /\ DOMAIN odpowiedzi = Klienci
      /\ odpowiedzi[k] \in Seq(Wyniki)
  BY DEF IInv, Typy
<1>6. /\ \A q, n \in Nat : pyta(k, q, n) =>
           kpc[k] \in {"receive", "koniec"} /\ odpowiedzi[k] = <<>>
      /\ UPracy(k) => kpc[k] \in {"receive", "koniec"} /\ odpowiedzi[k] = <<>>
      /\ odpowiedzi[k] # <<>> => kpc[k] = "receive" /\ Len(odpowiedzi[k]) = 1
  BY DEF IInv, Miejsca, WKolejce, WPracy, Odebrane
<1> DEFINE Stoi == kpc'[k] = kpc[k] /\ input'[k] = input[k] /\ odpowiedzi'[k] = odpowiedzi[k]
           Konczy == kpc'[k] = "koniec" /\ odpowiedzi'[k] = <<>>
           Zmienia == /\ kpc'[k] # "receive" /\ odpowiedzi'[k] = <<>> /\ ~ UPracy(k)
                      /\ \A q, n \in Nat : ~ pyta(k, q, n)
           wyszedl == /\ kpc' = [kpc EXCEPT ![j] = "koniec"] /\ input' = input
                      /\ odpowiedzi' = [odpowiedzi EXCEPT ![j] = <<>>]
<1>7. Stoi \/ Konczy \/ Zmienia
  <2>1. CASE wyszedl
    <3>1. CASE k = j
      BY <1>5, <2>1, <3>1
    <3>2. CASE k # j
      BY <1>5, <2>1, <3>2
    <3> QED BY <3>1, <3>2
  <2>2. CASE /\ \E p : p # "receive" /\ kpc' = [kpc EXCEPT ![j] = p]
             /\ \E w : input' = [input EXCEPT ![j] = w]
             /\ kpc[j] \notin {"receive", "koniec"} /\ odpowiedzi' = odpowiedzi
    <3>1. CASE k = j
      <4>1. odpowiedzi'[k] = <<>> /\ ~ UPracy(k) /\ \A q, n \in Nat : ~ pyta(k, q, n)
        BY <1>6, <2>2, <3>1
      <4> QED BY <1>5, <2>2, <3>1, <4>1
    <3>2. CASE k # j
      BY <1>5, <2>2, <3>2
    <3> QED BY <3>1, <3>2
  <2>3. CASE /\ kpc' = [kpc EXCEPT ![j] = "fgets"] /\ odpowiedzi[j] # <<>> /\ input' = input
             /\ odpowiedzi' = [odpowiedzi EXCEPT ![j] = Tail(@)]
    <3>1. CASE k = j
      <4>1. odpowiedzi'[k] = <<>>
        BY <1>5, <1>6, <2>3, <3>1
      <4> QED BY <1>5, <1>6, <2>3, <3>1, <4>1
    <3>2. CASE k # j
      BY <1>5, <2>3, <3>2
    <3> QED BY <3>1, <3>2
  <2>4. KOpen(j) \/ KFgets(j) => Stoi \/ Konczy \/ Zmienia
    <3>1. input' = input => input' = [input EXCEPT ![j] = input[j]]
      BY DEF IInv, Typy
    <3> QED BY <2>2, <3>1 DEF KOpen, KFgets, Skok
  <2>5. KOpenSerwer(j) => Stoi \/ Konczy \/ Zmienia
    <3>1. input' = input => input' = [input EXCEPT ![j] = input[j]]
      BY DEF IInv, Typy
    <3> QED BY <2>1, <2>2, <3>1 DEF KOpenSerwer, Wyjdz, Skok
  <2>6. KReceive(j) => Stoi \/ Konczy \/ Zmienia
    BY <2>3 DEF KReceive, Skok
  <2>7. KKoniec(j) => Stoi \/ Konczy \/ Zmienia
    BY <2>1 DEF KKoniec, Wyjdz
  <2> QED BY <2>4, <2>5, <2>6, <2>7
<1> QED BY <1>1, <1>2, <1>3, <1>4, <1>7 DEF Cichy

(* A client that sends has no other question on the way.                   *)
LEMMA MiejscaKSend ==
  ASSUME IInv, NEW j \in Klienci, KSend(j)
  PROVE  Miejsca' /\ Tresc'
<1>1. /\ UNCHANGED <<input, odpowiedzi, spc, klient, result>>
      /\ kpc[j] = "send" /\ kpc'[j] = "receive"
      /\ \A k \in Klienci : k # j => kpc'[k] = kpc[k]
  BY DEF KSend, Skok, serwer, IInv, Typy
<1>2. przerwany' = przerwany
  BY Zenon DEF KSend, serwer
<1>3. PICK p, o \in Nat :
        /\ ~ \E k \in Klienci : pyta(k, p, o)
        /\ kolejka'[p][o].co = input[j]
        /\ \A k \in Klienci, q, n \in Nat :
             /\ pyta(k, q, n)' <=> pyta(k, q, n) \/ (k = j /\ q = p /\ n = o)
             /\ pyta(k, q, n) => kolejka'[q][n] = kolejka[q][n]
  BY PytaSend DEF IInv
<1>4. Miejsca /\ Tresc
  BY DEF IInv
<1>5. ~ UPracy(j) /\ odpowiedzi[j] = <<>> /\ \A q, n \in Nat : ~ pyta(j, q, n)
  BY <1>1, <1>4 DEF Miejsca, WKolejce, WPracy, Odebrane
<1>6. \A k \in Klienci : UPracy(k)' <=> UPracy(k)
  BY <1>1 DEF UPracy
<1>7. WKolejce'
  <2> SUFFICES ASSUME NEW k \in Klienci, NEW q \in Nat, NEW n \in Nat, pyta(k, q, n)'
               PROVE  /\ \A r, m \in Nat : pyta(k, r, m)' => q = r /\ n = m
                      /\ kpc'[k] \in {"receive", "koniec"} /\ ~ UPracy(k)'
                      /\ odpowiedzi'[k] = <<>>
    BY DEF WKolejce
  <2>1. CASE k = j
    <3>1. \A r, m \in Nat : pyta(k, r, m)' => r = p /\ m = o
      BY <1>3, <1>5, <2>1
    <3> QED BY <1>1, <1>5, <1>6, <2>1, <3>1
  <2>2. CASE k # j
    <3>1. \A r, m \in Nat : pyta(k, r, m)' <=> pyta(k, r, m)
      BY <1>3, <2>2
    <3>2. /\ \A r, m \in Nat : pyta(k, r, m) => q = r /\ n = m
          /\ kpc[k] \in {"receive", "koniec"} /\ ~ UPracy(k) /\ odpowiedzi[k] = <<>>
      BY <1>4, <3>1 DEF Miejsca, WKolejce
    <3> QED BY <1>1, <1>6, <2>2, <3>1, <3>2
  <2> QED BY <2>1, <2>2
<1>8. WPracy'
  BY <1>1, <1>4, <1>5, <1>6 DEF Miejsca, WPracy
<1>9. Odebrane'
  BY <1>1, <1>4, <1>5 DEF Miejsca, Odebrane
<1>10. Zachowane'
  <2> SUFFICES ASSUME ~ przerwany, NEW k \in Klienci, kpc'[k] = "receive"
               PROVE  \/ UPracy(k)' \/ odpowiedzi'[k] # <<>>
                      \/ \E q, n \in Nat : pyta(k, q, n)'
    BY <1>2 DEF Zachowane
  <2>1. CASE k = j
    BY <1>3, <2>1
  <2>2. CASE k # j
    <3>1. UPracy(k) \/ odpowiedzi[k] # <<>> \/ \E q, n \in Nat : pyta(k, q, n)
      BY <1>1, <1>4, <2>2 DEF Miejsca, Zachowane
    <3> QED BY <1>1, <1>3, <1>6, <3>1
  <2> QED BY <2>1, <2>2
<1>11. Tresc'
  BY <1>1, <1>3, <1>4, <1>5, <1>6 DEF Tresc
<1> QED BY <1>7, <1>8, <1>9, <1>10, <1>11 DEF Miejsca

(* The server takes a question off its queue and works on that one.        *)
LEMMA MiejscaSReceive ==
  ASSUME IInv, SReceive
  PROVE  Miejsca' /\ Tresc'
<1> DEFINE dalej(q, n) == IF q = smq THEN n + 1 ELSE n
<1>1. /\ UNCHANGED <<kpc, input, odpowiedzi>> /\ spc = "receive"
      /\ \A k \in Klienci : ~ UPracy(k)
  BY DEF SReceive, klienci, UPracy
<1>2. /\ smq \in Nat /\ kolejka[smq][1] \in Zapytanie
      /\ klient' = kolejka[smq][1].od /\ pyta(klient', smq, 1)
      /\ expression' = IF kolejka[smq][1].co = Puste THEN expression ELSE kolejka[smq][1].co
      /\ \A k \in Klienci, q, n \in Nat :
           /\ pyta(k, q, n)' <=> n # 0 /\ pyta(k, q, dalej(q, n))
           /\ n # 0 /\ pyta(k, q, dalej(q, n)) => kolejka'[q][n] = kolejka[q][dalej(q, n)]
  BY PytaReceive DEF IInv
<1>3. Miejsca /\ Tresc
  BY DEF IInv
<1>4. PICK j \in Klienci : j = klient'
  BY <1>2 DEF Zapytanie
<1>5. /\ spc' = "open" \/ przerwany'
      /\ przerwany => przerwany'
      /\ \A k \in Klienci : UPracy(k)' <=> spc' = "open" /\ k = j
  <2>1. (spc' = "open" \/ przerwany') /\ (przerwany => przerwany')
    BY Zenon DEF SReceive
  <2>2. spc' \in {"brak", "open"}
    BY DEF SReceive
  <2> QED BY <1>4, <2>1, <2>2 DEF UPracy
<1>6. \A q, n \in Nat : ~ pyta(j, q, n)'
  <2>1. \A q, n \in Nat : pyta(j, q, n) => q = smq /\ n = 1
    BY <1>2, <1>3, <1>4 DEF Miejsca, WKolejce
  <2> QED BY <1>2, <2>1
<1>7. WKolejce'
  <2> SUFFICES ASSUME NEW k \in Klienci, NEW q \in Nat, NEW n \in Nat, pyta(k, q, n)'
               PROVE  /\ \A r, m \in Nat : pyta(k, r, m)' => q = r /\ n = m
                      /\ kpc'[k] \in {"receive", "koniec"} /\ ~ UPracy(k)'
                      /\ odpowiedzi'[k] = <<>>
    BY DEF WKolejce
  <2>1. pyta(k, q, dalej(q, n)) /\ dalej(q, n) \in Nat
    BY <1>2
  <2>2. ASSUME NEW r \in Nat, NEW m \in Nat, pyta(k, r, m)' PROVE q = r /\ n = m
    <3>1. pyta(k, r, dalej(r, m)) /\ dalej(r, m) \in Nat
      BY <1>2, <2>2, SMTT(30)
    <3>2. q = r /\ dalej(q, n) = dalej(r, m)
      BY <1>3, <2>1, <3>1 DEF Miejsca, WKolejce
    <3> QED BY <3>2
  <2>3. ~ UPracy(k)'
    BY <1>5, <1>6
  <2> QED BY <1>1, <1>3, <2>1, <2>2, <2>3 DEF Miejsca, WKolejce
<1>8. WPracy'
  BY <1>1, <1>2, <1>3, <1>4, <1>5 DEF Miejsca, WKolejce, WPracy
<1>9. Odebrane'
  BY <1>1, <1>3 DEF Miejsca, Odebrane
<1>10. Zachowane'
  <2> SUFFICES ASSUME ~ przerwany', NEW k \in Klienci, kpc'[k] = "receive", ~ UPracy(k)',
                      odpowiedzi'[k] = <<>>
               PROVE  \E q, n \in Nat : pyta(k, q, n)'
    BY Zenon DEF Zachowane
  <2>1. k # j /\ ~ przerwany
    BY <1>5
  <2>2. PICK q, n \in Nat : pyta(k, q, n)
    BY <1>1, <1>3, <2>1 DEF Miejsca, Zachowane
  <2>3. n \in Nat \ {0} /\ (q = smq => n # 1)
    BY <1>2, <1>4, <2>1, <2>2 DEF pyta
  <2>4. CASE q = smq
    <3>1. n - 1 \in Nat /\ n - 1 # 0 /\ dalej(q, n - 1) = n
      BY <2>3, <2>4
    <3>2. pyta(k, q, n - 1)' <=> n - 1 # 0 /\ pyta(k, q, dalej(q, n - 1))
      BY <1>2, <3>1
    <3> QED BY <2>2, <3>1, <3>2
  <2>5. CASE q # smq
    BY <1>2, <2>2, <2>3, <2>5
  <2> QED BY <2>4, <2>5
<1>11. Tresc'
  <2> SUFFICES ASSUME Puste \notin Wyrazenia, NEW k \in Klienci, kpc'[k] = "receive"
               PROVE  /\ \A q, n \in Nat : pyta(k, q, n)' => kolejka'[q][n].co = input'[k]
                      /\ UPracy(k)' => Poprawna(input[k], result)'
                      /\ odpowiedzi'[k] # <<>> => Poprawna(input[k], Head(odpowiedzi[k]))'
    BY DEF Tresc
  <2>1. \A q, n \in Nat : pyta(k, q, n)' => kolejka'[q][n].co = input'[k]
    <3> SUFFICES ASSUME NEW q \in Nat, NEW n \in Nat, pyta(k, q, n)'
                 PROVE  kolejka'[q][n].co = input'[k]
      OBVIOUS
    <3>1. /\ dalej(q, n) \in Nat /\ pyta(k, q, dalej(q, n))
          /\ kolejka'[q][n] = kolejka[q][dalej(q, n)]
      BY <1>2
    <3> HIDE DEF dalej
    <3> QED BY <1>1, <1>3, <3>1 DEF Tresc
  <2>2. ASSUME UPracy(k)' PROVE Poprawna(input[k], result)'
    <3>1. k = klient' /\ pyta(k, smq, 1)
      BY <1>2, <1>4, <1>5, <2>2
    <3>2. kolejka[smq][1].co = input[k] /\ kolejka[smq][1].co \in Wyrazenia \ {Puste}
      BY <1>1, <1>2, <1>3, <3>1 DEF Tresc, Zapytanie
    <3>3. expression' = input[k]
      BY <1>2, <3>2
    <3>4. ~ Pulapka(expression') /\ result' = evaluate_expression(expression')
      BY <2>2 DEF SReceive, UPracy
    <3>5. Poprawna(expression', result')
      BY <3>2, <3>3, <3>4, WynikPoprawny, KlientSerwerAssumption
    <3> QED BY <1>1, <3>3, <3>5 DEF Poprawna, Przystaje, Modul, Znak
  <2>3. odpowiedzi'[k] # <<>> => Poprawna(input[k], Head(odpowiedzi[k]))'
    BY <1>1, <1>3 DEF Tresc, Poprawna, Przystaje, Modul, Znak
  <2> QED BY <2>1, <2>2, <2>3
<1> QED BY <1>7, <1>8, <1>9, <1>10, <1>11 DEF Miejsca

(* An answer goes where its question came from, or nowhere.                *)
LEMMA MiejscaSSend ==
  ASSUME IInv, SSend
  PROVE  Miejsca' /\ Tresc'
<1>1. /\ UNCHANGED <<kolejka, kpc, input, result, klient>>
      /\ spc = "send" /\ spc' = "receive" /\ klient \in Klienci
      /\ \A k \in Klienci : ~ UPracy(k)' /\ (UPracy(k) <=> k = klient)
  BY DEF SSend, klienci, UPracy, IInv, Typy
<1>2. przerwany' = przerwany
  BY Zenon DEF SSend
<1>3. \A k \in Klienci, q, n \in Nat : pyta(k, q, n)' <=> pyta(k, q, n)
  BY <1>1 DEF pyta
<1>4. Miejsca /\ Tresc
  BY DEF IInv
<1>5. /\ kpc[klient] \in {"receive", "koniec"} /\ odpowiedzi[klient] = <<>>
      /\ klient \in istnieje <=> kpc[klient] = "receive"
  BY <1>1, <1>4 DEF IInv, Otwarte, Miejsca, WPracy
<1>6. /\ odpowiedzi'[klient] = IF kpc[klient] = "receive" THEN <<result>> ELSE <<>>
      /\ \A k \in Klienci : k # klient => odpowiedzi'[k] = odpowiedzi[k]
  <2>1. DOMAIN odpowiedzi = Klienci
    BY DEF IInv, Typy
  <2>2. CASE klient \in istnieje
    <3>1. odpowiedzi' = [odpowiedzi EXCEPT ![klient] = Append(odpowiedzi[klient], result)]
      BY <2>2 DEF SSend
    <3>2. Append(<<>>, result) = <<result>>
      OBVIOUS
    <3> QED BY <1>1, <1>5, <2>1, <2>2, <3>1, <3>2
  <2>3. CASE klient \notin istnieje
    BY <1>5, <2>3 DEF SSend
  <2> QED BY <2>2, <2>3
<1>7. <<result>> # <<>> /\ Len(<<result>>) = 1 /\ Head(<<result>>) = result
  OBVIOUS
<1>8. WKolejce'
  <2>1. \A q, n \in Nat : ~ pyta(klient, q, n)
    BY <1>1, <1>4 DEF Miejsca, WKolejce
  <2> QED BY <1>1, <1>3, <1>4, <1>6, <2>1 DEF Miejsca, WKolejce
<1>9. WPracy'
  BY <1>1 DEF WPracy
<1>10. Odebrane'
  BY <1>1, <1>4, <1>6, <1>7 DEF Miejsca, Odebrane
<1>11. Zachowane'
  BY <1>1, <1>2, <1>3, <1>4, <1>6, <1>7 DEF Miejsca, Zachowane
<1>12. Tresc'
  <2> SUFFICES ASSUME Puste \notin Wyrazenia, NEW k \in Klienci, kpc'[k] = "receive"
               PROVE  /\ \A q, n \in Nat : pyta(k, q, n)' => kolejka'[q][n].co = input'[k]
                      /\ odpowiedzi'[k] # <<>> => Poprawna(input[k], Head(odpowiedzi[k]))'
    BY <1>1 DEF Tresc
  <2>1. \A q, n \in Nat : pyta(k, q, n)' => kolejka'[q][n].co = input'[k]
    BY <1>1, <1>3, <1>4 DEF Tresc
  <2>2. odpowiedzi'[k] # <<>> => Poprawna(input'[k], Head(odpowiedzi'[k]))
    BY <1>1, <1>4, <1>6, <1>7 DEF Tresc
  <2> QED BY <2>1, <2>2 DEF Poprawna, Przystaje, Modul, Znak
<1> QED BY <1>8, <1>9, <1>10, <1>11, <1>12 DEF Miejsca

(* Every action keeps the questions in their places.                       *)
LEMMA MiejscaStep == IInv /\ [Next]_vars => Miejsca' /\ Tresc'
<1> SUFFICES ASSUME IInv, [Next]_vars PROVE Miejsca' /\ Tresc'
  OBVIOUS
<1>1. Miejsca /\ Tresc
  BY DEF IInv
<1>2. CASE SStart \/ SOpen \/ SSigint \/ UNCHANGED vars
  <2>1. \A k \in Klienci : Cichy(k)
    BY <1>2, CicheSerwera
  <2> QED BY <1>1, <2>1, CichyKrok
<1>3. CASE SReceive
  BY <1>3, MiejscaSReceive
<1>4. CASE SSend
  BY <1>4, MiejscaSSend
<1>5. ASSUME NEW j \in Klienci, KlientStep(j) \/ KFgets(j) \/ KKoniec(j)
      PROVE  Miejsca' /\ Tresc'
  <2>1. CASE KSend(j)
    BY <2>1, MiejscaKSend
  <2>2. CASE KOpen(j) \/ KOpenSerwer(j) \/ KFgets(j) \/ KReceive(j) \/ KKoniec(j)
    <3>1. \A k \in Klienci : Cichy(k)
      BY <2>2, CicheKlienta
    <3> QED BY <1>1, <3>1, CichyKrok
  <2> QED BY <1>5, <2>1, <2>2 DEF KlientStep
<1> QED BY <1>2, <1>3, <1>4, <1>5 DEF Next, SerwerStep

-----------------------------------------------------------------------------
(* What follows from it.                                                   *)

(* What the invariant says of positions, said of the set Zapytania.        *)
LEMMA JednoMiejsceZ == IInv => JednoMiejsce
<1> SUFFICES ASSUME IInv PROVE JednoMiejsce
  OBVIOUS
<1>1. Miejsca
  BY DEF IInv
<1>2. \A k \in Klienci : \A z \in Zapytania(k) :
        z[1] \in Nat /\ z[2] \in Nat /\ z = <<z[1], z[2]>> /\ pyta(k, z[1], z[2])
  <2>1. \A q \in DOMAIN kolejka : q \in 1..Len(kolejka) /\ q \in Nat
    BY DEF IInv, Typy
  <2> QED BY <2>1, KlientSerwerAssumption DEF Zapytania, pyta
<1>3. JednoZapytanie
  <2> SUFFICES ASSUME NEW k \in Klienci, NEW z1 \in Zapytania(k), NEW z2 \in Zapytania(k)
               PROVE  /\ z1 = z2
                      /\ kpc[k] \in {"receive", "koniec"} /\ ~ UPracy(k) /\ odpowiedzi[k] = <<>>
    BY DEF JednoZapytanie
  <2> QED BY <1>1, <1>2 DEF Miejsca, WKolejce
<1>4. NicNieGinie
  <2> SUFFICES ASSUME ~ przerwany, NEW k \in Klienci, kpc[k] = "receive", ~ UPracy(k),
                      odpowiedzi[k] = <<>>
               PROVE  \E z \in Zapytania(k) : TRUE
    BY Zenon DEF NicNieGinie
  <2>1. PICK q, n \in Nat : pyta(k, q, n)
    BY <1>1 DEF Miejsca, Zachowane
  <2>2. q \in DOMAIN kolejka /\ n \in 1..MaxMsg
    BY <2>1, KlientSerwerAssumption DEF pyta, IInv, Typy
  <2>3. <<q, n>> \in Zapytania(k)
    BY <2>1, <2>2 DEF Zapytania, pyta
  <2> QED BY <2>3
<1>5. SerwerNieCzeka
  <2> SUFFICES ASSUME spc = "send" PROVE Len(odpowiedzi[klient]) < MaxMsg
    BY DEF SerwerNieCzeka
  <2>1. klient \in Klienci /\ UPracy(klient)
    BY DEF UPracy, IInv, Typy
  <2>2. odpowiedzi[klient] = <<>> /\ Len(<<>>) = 0
    BY <1>1, <2>1 DEF Miejsca, WPracy
  <2> QED BY <2>2, KlientSerwerAssumption
<1> QED BY <1>3, <1>4, <1>5, Zenon DEF JednoMiejsce

(* An answer that waits is the one to the question asked last.             *)
LEMMA OdpowiedzZ == IInv /\ Puste \notin Wyrazenia => OdpowiedzNaPytanie
  BY DEF IInv, Miejsca, Odebrane, Tresc, OdpowiedzNaPytanie

(* The two halves of the invariant hold at the start.                      *)
LEMMA IInvInit == Init => IInv
  BY TypeInit, InitMiejsca DEF IInv

(* The two halves of the invariant are kept together.                      *)
LEMMA IInvStep == IInv /\ [Next]_vars => IInv'
  BY TypeStep, MiejscaStep DEF IInv

-----------------------------------------------------------------------------
(* How far a question is from its answer, until a signal hits the server.  *)

(* Until then the server has been started once at most, and there is the   *)
(* one queue it has created.                                               *)
JednaKolejka == ~ przerwany =>
  /\ Len(kolejka) = starty /\ starty <= 1 /\ nazwa = starty
  /\ IF spc = "brak" THEN starty = 0 ELSE starty = 1 /\ smq = 1

(* Steps of the server until it is back in mq_receive().                   *)
Etap == CASE spc = "open" -> 2 [] spc = "send" -> 1 [] OTHER -> 0

(* The question of k is d steps of the server away from its answer: the    *)
(* server works on it, or it is the n-th in the queue.                     *)
odlegly(k, d) == \/ UPracy(k) /\ d = Etap
                 \/ \E n \in Nat : pyta(k, smq, n) /\ d = 3 * n + Etap

(* Who waits for an answer has a question not far from it, however many    *)
(* clients there are.                                                      *)
Blisko == ~ przerwany => \A k \in Klienci :
  kpc[k] = "receive" /\ odpowiedzi[k] = <<>> => \E d \in 1..(3 * MaxMsg + 2) : odlegly(k, d)

(* Each step of the server brings it nearer, and no step of anybody else   *)
(* puts another one in front of it.                                        *)
ZblizylSie == \A k \in Klienci, d \in Nat :
  odlegly(k, d) /\ kpc'[k] = "receive" /\ ~ przerwany' =>
    \/ odpowiedzi'[k] # <<>>
    \/ \E e \in 0..d : odlegly(k, e)' /\ (SerwerStep => e < d)
Zbliza == [][ZblizylSie]_vars

(* The guards of SerwerStep, and those of a client that waits.             *)
SerwerMoze == \/ spc = "receive" /\ kolejka[smq] # <<>>
              \/ spc = "open"
              \/ spc = "send" /\ (klient \in istnieje => Len(odpowiedzi[klient]) < MaxMsg)
KlientMoze(k) == \/ kpc[k] = "send" /\ Len(kolejka[kmq[k]]) < MaxMsg
                 \/ kpc[k] = "receive" /\ odpowiedzi[k] # <<>>

(* A client that waits can go on, or the server can.                       *)
BezPostoju == ~ przerwany => \A k \in Klienci :
  kpc[k] \in {"send", "receive"} => SerwerMoze \/ KlientMoze(k)

(* A signal that has hit the server has hit it for good.                   *)
LEMMA PrzerwanyZostaje == [Next]_vars /\ przerwany => przerwany'
<1> SUFFICES ASSUME [Next]_vars, przerwany PROVE przerwany'
  OBVIOUS
<1>1. SReceive \/ SSigint => przerwany' = TRUE \/ przerwany' = przerwany
  BY Zenon DEF SReceive, SSigint
<1>2. SStart \/ SOpen \/ SSend => przerwany' = przerwany
  BY Zenon DEF SStart, SOpen, SSend
<1>3. ASSUME NEW k \in Klienci, KlientStep(k) \/ KFgets(k) \/ KKoniec(k)
      PROVE  przerwany' = przerwany
  BY <1>3, Zenon DEF KlientStep, KOpen, KOpenSerwer, KSend, KReceive, KFgets, KKoniec, serwer
<1>4. UNCHANGED vars => przerwany' = przerwany
  BY Zenon DEF vars, serwer
<1> QED BY <1>1, <1>2, <1>3, <1>4, Zenon DEF Next, SerwerStep

(* Another start of the server would need a signal first; nobody else      *)
(* creates a queue.                                                        *)
LEMMA JednaKolejkaStep == Typy /\ Otwarte /\ JednaKolejka /\ [Next]_vars => JednaKolejka'
<1> SUFFICES ASSUME Typy, Otwarte, JednaKolejka, [Next]_vars, ~ przerwany'
             PROVE  /\ Len(kolejka') = starty' /\ starty' <= 1 /\ nazwa' = starty'
                    /\ IF spc' = "brak" THEN starty' = 0 ELSE starty' = 1 /\ smq' = 1
  BY DEF JednaKolejka
<1>0. /\ Len(kolejka) = starty /\ starty <= 1 /\ nazwa = starty
      /\ IF spc = "brak" THEN starty = 0 ELSE starty = 1 /\ smq = 1
  BY PrzerwanyZostaje DEF JednaKolejka
<1>1. CASE SStart
  <2>1. nazwa = 0 /\ starty = 0 /\ Len(kolejka) = 0
    BY <1>0, <1>1 DEF SStart
  <2>2. kolejka' = Append(kolejka, <<>>) /\ nazwa' = Len(kolejka') /\ starty' = 1
    BY <1>1, <2>1 DEF SStart
  <2>3. Len(kolejka') = 1
    BY <2>1, <2>2 DEF Typy
  <2> QED BY <1>1, <2>2, <2>3 DEF SStart
<1>2. CASE SReceive
  <2>1. spc' # "brak" /\ spc # "brak" /\ UNCHANGED <<nazwa, smq, starty>>
    BY <1>2 DEF SReceive
  <2>2. Len(kolejka') = Len(kolejka)
    BY <1>2 DEF SReceive, Typy
  <2> QED BY <1>0, <2>1, <2>2
<1>3. CASE SOpen \/ SSend
  BY <1>0, <1>3 DEF SOpen, SSend
<1>4. CASE SSigint
  BY <1>4 DEF SSigint
<1>5. ASSUME NEW k \in Klienci, KlientStep(k) \/ KFgets(k) \/ KKoniec(k)
      PROVE  UNCHANGED <<nazwa, spc, smq, starty>> /\ Len(kolejka') = Len(kolejka)
  <2>1. CASE KSend(k)
    BY <2>1 DEF KSend, serwer, Typy
  <2> QED BY <1>5, <2>1 DEF KlientStep, KOpen, KOpenSerwer, KReceive, KFgets, KKoniec, serwer
<1>6. CASE UNCHANGED vars
  BY <1>0, <1>6 DEF vars, serwer
<1> QED BY <1>0, <1>1, <1>2, <1>3, <1>4, <1>5, <1>6 DEF Next, SerwerStep

(* Where the question of a waiting client is.                              *)
LEMMA BliskoZ == IInv /\ JednaKolejka => Blisko
<1> SUFFICES ASSUME IInv, JednaKolejka, ~ przerwany, NEW k \in Klienci,
                    kpc[k] = "receive", odpowiedzi[k] = <<>>
             PROVE  \E d \in 1..(3 * MaxMsg + 2) : odlegly(k, d)
  BY DEF Blisko
<1>0. MaxMsg \in Nat \ {0} /\ Etap \in 0..2
  BY KlientSerwerAssumption DEF Etap
<1>1. CASE UPracy(k)
  <2>1. Etap \in 1..2
    BY <1>1 DEF UPracy, Etap
  <2> QED BY <1>0, <1>1, <2>1 DEF odlegly
<1>2. ASSUME NEW q \in Nat, NEW n \in Nat, pyta(k, q, n)
      PROVE  \E d \in 1..(3 * MaxMsg + 2) : odlegly(k, d)
  <2>1. q = 1 /\ smq = 1
    BY <1>2 DEF pyta, JednaKolejka, IInv, Typy
  <2>2. n \in 1..MaxMsg
    BY <1>0, <1>2 DEF pyta, IInv, Typy
  <2>3. 3 * n + Etap \in 1..(3 * MaxMsg + 2)
    BY <1>0, <2>2
  <2> QED BY <1>2, <2>1, <2>3 DEF odlegly
<1>3. UPracy(k) \/ \E q, n \in Nat : pyta(k, q, n)
  BY DEF IInv, Miejsca, Zachowane
<1> QED BY <1>1, <1>2, <1>3

(* If the client cannot go on, its queue is full or holds its question.    *)
LEMMA BezPostojuZ == IInv /\ JednaKolejka => BezPostoju
<1> SUFFICES ASSUME IInv, JednaKolejka, ~ przerwany, NEW k \in Klienci,
                    kpc[k] \in {"send", "receive"}, ~ KlientMoze(k)
             PROVE  SerwerMoze
  BY DEF BezPostoju
<1>0. MaxMsg \in Nat \ {0} /\ spc \in {"brak", "receive", "open", "send"}
  BY KlientSerwerAssumption DEF IInv, Typy
<1>1. spc = "send" => SerwerMoze
  BY JednoMiejsceZ DEF JednoMiejsce, SerwerNieCzeka, SerwerMoze
<1>2. spc = "open" => SerwerMoze
  BY DEF SerwerMoze
<1>3. kmq[k] \in 1..Len(kolejka)
  BY DEF IInv, Typy, Otwarte
<1>4. spc # "brak" /\ smq = 1 /\ kmq[k] = 1
  BY <1>3 DEF JednaKolejka, IInv, Typy
<1>5. ASSUME spc = "receive" PROVE kolejka[smq] # <<>>
  <2>1. CASE kpc[k] = "send"
    <3>1. Len(kolejka[smq]) \in Nat /\ Len(kolejka[smq]) >= MaxMsg
      BY <1>0, <1>3, <1>4, <2>1 DEF KlientMoze, IInv, Typy
    <3> QED BY <1>0, <3>1
  <2>2. CASE kpc[k] = "receive"
    <3>1. PICK d \in 1..(3 * MaxMsg + 2) : odlegly(k, d)
      BY <2>2, BliskoZ DEF Blisko, KlientMoze
    <3>2. PICK n \in Nat : pyta(k, smq, n)
      BY <1>5, <3>1 DEF odlegly, UPracy
    <3> QED BY <3>2 DEF pyta
  <2> QED BY <2>1, <2>2
<1> QED BY <1>0, <1>1, <1>2, <1>4, <1>5 DEF SerwerMoze

(* What the server does brings every question nearer.                      *)
LEMMA ZblizaSerwer ==
  ASSUME IInv, IInv', SerwerStep, NEW k \in Klienci, NEW d \in Nat, odlegly(k, d),
         kpc'[k] = "receive", ~ przerwany'
  PROVE  odpowiedzi'[k] # <<>> \/ \E e \in 0..d : odlegly(k, e)' /\ e < d
<1>0. k \in istnieje' /\ UNCHANGED <<smq, istnieje>>
  BY DEF SerwerStep, SReceive, SOpen, SSend, IInv, Otwarte
<1>1. CASE SReceive
  <2>1. spc = "receive" /\ spc' = "open" /\ smq' = smq
    BY <1>1 DEF SReceive
  <2>2. Etap = 0 /\ Etap' = 2 /\ ~ UPracy(k)
    BY <2>1 DEF Etap, UPracy
  <2>3. PICK n \in Nat : pyta(k, smq, n) /\ d = 3 * n + Etap
    BY <2>2 DEF odlegly
  <2>4. /\ smq \in Nat /\ pyta(klient', smq, 1)
        /\ \A m \in Nat : m # 0 /\ pyta(k, smq, m + 1) => pyta(k, smq, m)'
    <3>1. PICK q \in Nat : q = smq
      BY <1>1, PytaReceive DEF IInv
    <3>2. \A m \in Nat : m # 0 /\ pyta(k, q, m + 1) => pyta(k, q, m)'
      BY <1>1, <3>1, PytaReceive DEF IInv
    <3> QED BY <1>1, <2>1, <3>1, <3>2, PytaReceive DEF IInv, pyta
  <2>5. n >= 1
    BY <2>3 DEF pyta
  <2>6. CASE n = 1
    <3>1. klient' = k
      BY <2>3, <2>4, <2>6 DEF pyta
    <3>2. UPracy(k)'
      BY <2>1, <3>1 DEF UPracy
    <3>3. odlegly(k, 2)'
      BY <2>2, <3>2 DEF odlegly
    <3> QED BY <2>2, <2>3, <2>6, <3>3
  <2>7. CASE n > 1
    <3>1. PICK m \in Nat : m + 1 = n /\ m # 0
      BY <2>7
    <3>2. pyta(k, smq, m)'
      BY <2>3, <2>4, <3>1
    <3>3. odlegly(k, 3 * m + 2)'
      BY <2>2, <3>1, <3>2 DEF odlegly
    <3>4. 3 * m + 2 \in 0..d /\ 3 * m + 2 < d
      BY <2>2, <2>3, <3>1
    <3> QED BY <3>3, <3>4
  <2> QED BY <2>5, <2>6, <2>7
<1>2. CASE SOpen
  <2>1. /\ spc = "open" /\ UNCHANGED <<kolejka, klient>>
        /\ spc' = IF klient \in istnieje THEN "send" ELSE "receive"
    BY <1>2 DEF SOpen
  <2>2. PICK f \in 0..1 : Etap' = f /\ Etap = 2 /\ (spc' = "send" => f = 1)
    BY <2>1 DEF Etap
  <2>3. CASE UPracy(k) /\ d = Etap
    <3>1. UPracy(k)' /\ spc' = "send"
      BY <1>0, <2>1, <2>3 DEF UPracy
    <3>2. odlegly(k, 1)'
      BY <2>2, <3>1 DEF odlegly
    <3> QED BY <2>2, <2>3, <3>2
  <2>4. ASSUME NEW n \in Nat, pyta(k, smq, n), d = 3 * n + Etap
        PROVE  \E e \in 0..d : odlegly(k, e)' /\ e < d
    <3>1. pyta(k, smq, n)'
      BY <1>0, <2>1, <2>4 DEF pyta
    <3>2. odlegly(k, 3 * n + f)'
      BY <2>2, <3>1 DEF odlegly
    <3>3. 3 * n + f \in 0..d /\ 3 * n + f < d
      BY <2>2, <2>4
    <3> QED BY <3>2, <3>3
  <2> QED BY <2>3, <2>4 DEF odlegly
<1>3. CASE SSend
  <2>1. spc = "send" /\ spc' = "receive" /\ UNCHANGED <<kolejka, klient>>
    BY <1>3 DEF SSend
  <2>2. Etap = 1 /\ Etap' = 0
    BY <2>1 DEF Etap
  <2>3. CASE UPracy(k)
    <3>1. klient = k /\ k \in istnieje
      BY <1>0, <2>3 DEF UPracy
    <3>2. odpowiedzi' = [odpowiedzi EXCEPT ![k] = Append(odpowiedzi[k], result)]
      BY <1>3, <3>1 DEF SSend
    <3>3. odpowiedzi'[k] = Append(odpowiedzi[k], result) /\ odpowiedzi[k] \in Seq(Wyniki)
          /\ result \in Wyniki
      BY <3>2 DEF IInv, Typy
    <3> QED BY <3>3
  <2>4. ASSUME NEW n \in Nat, pyta(k, smq, n), d = 3 * n + Etap
        PROVE  \E e \in 0..d : odlegly(k, e)' /\ e < d
    <3>1. pyta(k, smq, n)'
      BY <1>0, <2>1, <2>4 DEF pyta
    <3>2. odlegly(k, 3 * n)'
      BY <2>2, <3>1 DEF odlegly
    <3>3. 3 * n \in 0..d /\ 3 * n < d
      BY <2>2, <2>4
    <3> QED BY <3>2, <3>3
  <2> QED BY <2>3, <2>4 DEF odlegly
<1> QED BY <1>1, <1>2, <1>3 DEF SerwerStep

(* What anybody else does leaves it where it is.                           *)
LEMMA ZblizaInni ==
  ASSUME IInv, JednaKolejka, [Next]_vars, ~ SerwerStep, NEW k \in Klienci, NEW d \in Nat,
         odlegly(k, d), ~ przerwany'
  PROVE  odlegly(k, d)'
<1>1. ASSUME UNCHANGED <<spc, smq, klient>>,
             \A q, n \in Nat : pyta(k, q, n) => pyta(k, q, n)'
      PROVE  odlegly(k, d)'
  <2>1. Etap' = Etap /\ (UPracy(k)' <=> UPracy(k)) /\ smq \in Nat
    BY <1>1 DEF Etap, UPracy, IInv, Typy
  <2> QED BY <1>1, <2>1 DEF odlegly
<1>2. ASSUME UNCHANGED <<spc, smq, klient, kolejka>> PROVE odlegly(k, d)'
  BY <1>1, <1>2 DEF pyta
<1>3. CASE SStart
  <2>1. spc = "brak" /\ Len(kolejka) = 0
    BY <1>3, PrzerwanyZostaje DEF SStart, JednaKolejka
  <2>2. ~ UPracy(k) /\ \A n \in Nat : ~ pyta(k, smq, n)
    BY <2>1 DEF UPracy, pyta
  <2> QED BY <2>2 DEF odlegly
<1>4. CASE SSigint
  BY <1>4 DEF SSigint
<1>5. ASSUME NEW j \in Klienci, KSend(j) PROVE odlegly(k, d)'
  <2>1. UNCHANGED <<spc, smq, klient>>
    BY <1>5 DEF KSend, serwer
  <2>2. \A q, n \in Nat : pyta(k, q, n) => pyta(k, q, n)'
    BY <1>5, PytaSend DEF IInv
  <2> QED BY <1>1, <2>1, <2>2
<1>6. ASSUME NEW j \in Klienci,
             KOpen(j) \/ KOpenSerwer(j) \/ KReceive(j) \/ KFgets(j) \/ KKoniec(j)
      PROVE  odlegly(k, d)'
  BY <1>2, <1>6 DEF KOpen, KOpenSerwer, KReceive, KFgets, KKoniec, serwer
<1>7. CASE UNCHANGED vars
  BY <1>2, <1>7 DEF vars, serwer
<1> QED BY <1>3, <1>4, <1>5, <1>6, <1>7 DEF Next, KlientStep

(* Every step.                                                             *)
LEMMA ZblizaStep == IInv /\ IInv' /\ JednaKolejka /\ [Next]_vars => ZblizylSie
<1> SUFFICES ASSUME IInv, IInv', JednaKolejka, [Next]_vars, NEW k \in Klienci, NEW d \in Nat,
                    odlegly(k, d), kpc'[k] = "receive", ~ przerwany'
             PROVE  \/ odpowiedzi'[k] # <<>>
                    \/ \E e \in 0..d : odlegly(k, e)' /\ (SerwerStep => e < d)
  BY DEF ZblizylSie
<1>1. CASE SerwerStep
  BY <1>1, ZblizaSerwer
<1>2. CASE ~ SerwerStep
  <2>1. odlegly(k, d)' /\ d \in 0..d
    BY <1>2, ZblizaInni
  <2> QED BY <1>2, <2>1
<1> QED BY <1>1, <1>2

-----------------------------------------------------------------------------
(* The inductive invariant: in every state the server and its clients      *)
(* reach, the queues are well-formed, every question has one place, and    *)
(* what is answered is what was asked.                                     *)
THEOREM IInvNiezmiennik == Spec => []IInv
  BY IInvInit, IInvStep, PTL DEF Spec

(* Every variable of serwer.c and klient.c keeps its type, for any number  *)
(* of clients, restarts and messages in a queue, and any range of int.     *)
THEOREM TypOK == Spec => []TypeOK
<1> DEFINE Logiczne == przerwany \in BOOLEAN
<1>1. Init => IInv /\ Logiczne
  BY IInvInit, LogiczneInit
<1>2. IInv /\ Logiczne /\ [Next]_vars => IInv' /\ Logiczne'
  BY IInvStep, LogiczneStep
<1>3. IInv /\ Logiczne => TypeOK
  BY Zenon DEF IInv, TypeOK
<1> HIDE DEF Logiczne
<1> QED BY <1>1, <1>2, <1>3, PTL DEF Spec

(* A question put to the server is in one place at a time, and in one it   *)
(* is until a signal hits the server, which therefore never sleeps in      *)
(* mq_send().                                                              *)
THEOREM JednoMiejsceInv == Spec => []JednoMiejsce
  BY IInvNiezmiennik, JednoMiejsceZ, PTL

(* Each client is sent the right answer to its own question, for every     *)
(* range of int, as long as nobody sends an empty line.                    *)
THEOREM OdpowiedzInv == ASSUME Puste \notin Wyrazenia PROVE Spec => []OdpowiedzNaPytanie
<1>1. IInv => OdpowiedzNaPytanie
  BY OdpowiedzZ
<1> QED BY <1>1, IInvNiezmiennik, PTL

(* The invariant with what is said of the one queue.                       *)
LEMMA JednaKolejkaInv == Spec => [](IInv /\ JednaKolejka)
<1>1. Init => IInv /\ JednaKolejka
  <2>1. Init => JednaKolejka
    BY DEF Init, JednaKolejka
  <2> QED BY <2>1, IInvInit
<1>2. IInv /\ JednaKolejka /\ [Next]_vars => IInv' /\ JednaKolejka'
  BY IInvStep, JednaKolejkaStep DEF IInv
<1> QED BY <1>1, <1>2, PTL DEF Spec

(* Until a signal hits the server, a client that sleeps in mq_send() or    *)
(* mq_receive() can go on itself or the server can: full queues, however   *)
(* many clients use them, never make them wait for each other.             *)
THEOREM BezPostojuInv == Spec => []BezPostoju
  BY JednaKolejkaInv, BezPostojuZ, PTL

(* Nobody is overtaken: a client that waits gets its answer after 3 * mq_  *)
(* maxmsg + 2 steps of the server at most, for any number of clients, any  *)
(* of which may come, ask and go in between.                               *)
THEOREM OdlegloscInv == Spec => []Blisko /\ Zbliza
<1>1. IInv /\ JednaKolejka => Blisko
  BY BliskoZ
<1>2. IInv /\ JednaKolejka /\ (IInv /\ JednaKolejka)' /\ [Next]_vars => [ZblizylSie]_vars
  BY ZblizaStep
<1> QED BY <1>1, <1>2, JednaKolejkaInv, PTL DEF Spec, Zbliza

=============================================================================
