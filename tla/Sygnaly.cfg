SPECIFICATION FairSpec
CONSTANTS
  Proces = {"1", "2", "a1", "a2", "a3"}
  Numery = {3, 9, 15, 17, 20}
  Bledy = {"fork", "exec", "spoznienie"}
  Sekunda = 1
  Opoznienie = 1
INVARIANTS
  TypeOK
  Raport
PROPERTIES
  Gotowi
  Zakonczenie
\* The programs end; and with a signal that ends nobody they wait for ever.
CHECK_DEADLOCK FALSE
