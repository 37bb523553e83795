SPECIFICATION FairSpec
CONSTANTS
  NBUF = 3
  NELE = 2
  MaxPlik = 3
  NUL = 0
  Bajt <- MCBajt
  Pliki <- MCPliki
INVARIANTS
  DokladnaKopia
\* The program ends, and a process left alone by a SIGINT waits for ever.
CHECK_DEADLOCK FALSE
