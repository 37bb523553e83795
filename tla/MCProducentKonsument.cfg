SPECIFICATION FairSpec
CONSTANTS
  NBUF = 3
  NELE = 2
  MaxPlik = 9
  NUL = 0
  Bajt <- MCBajt
  Pliki <- MCPliki
INVARIANTS
  TypeOK
  WzajemneWykluczenie
  Rozliczenie
  WyjscieZgodne
PROPERTIES
  KolejkaFifo
  Zakonczenie
\* The program ends, and a process left alone by a SIGINT waits for ever.
CHECK_DEADLOCK FALSE
