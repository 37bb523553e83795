SPECIFICATION ProcesySpec
CONSTANTS
  Proces = {"m", "p1", "p2", "p3"}
  Bledy = {"fork", "exec"}
  Sekunda = 3
  Opoznienie = 1
INVARIANTS
  ProcesyOK
  Wydruk
\* The processes end.
CHECK_DEADLOCK FALSE
