SPECIFICATION FairSpec
CONSTANTS
  Bajt <- MCBajt
  Pliki <- MCPliki
  Dlugosci = {0, 3, 7}
  WIELKOSC_PRODUCENT = 3
  WIELKOSC_KONSUMENT = 2
  Pojemnosc = 4
  Bledy = {"fork", "exec", "open", "write"}
  MaxSigint = 2
INVARIANTS
  TypeOK
  Strumien
  BezPotoku
PROPERTIES
  Zakonczenie
\* The programs end; and who waits in open() for a peer that has failed stays there.
CHECK_DEADLOCK FALSE
