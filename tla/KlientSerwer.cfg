SPECIFICATION FairSpec
CONSTANTS
  Klienci = {k1, k2}
  Wyrazenia <- MCWyrazenia
  Niepoprawne = Niepoprawne
  Puste = Puste
  Smieci <- MCSmieci
  Min <- MCMin
  Max = 3
  MaxMsg = 1
  MaxStarty = 2
INVARIANTS
  TypeOK
  OdpowiedzNaPytanie
  JednoMiejsce
PROPERTIES
  KazdyDostaje
\* All the clients may have ended, or wait for a server that is gone.
CHECK_DEADLOCK FALSE
