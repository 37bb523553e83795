SPECIFICATION Spec
CONSTANTS
  Instancje = {a, b}
  Nikt = Nikt
  Bledy = {}
  Sygnaly = {}
  MaxSigint = 0
  DlugiPlik = FALSE
INVARIANTS
  SprzataCoIstnieje
\* The program ends; and a child without its peer may wait for ever.
CHECK_DEADLOCK FALSE
