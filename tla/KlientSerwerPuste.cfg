SPECIFICATION Spec
CONSTANTS
  Klienci = {k1, k2}
  Wyrazenia <- MCPuste
  Niepoprawne = Niepoprawne
  Puste = Puste
  Smieci = {Niepoprawne}
  Min <- MCMin
  Max = 3
  MaxMsg = 2
  MaxStarty = 1
INVARIANTS
  OdpowiedzNaPytanie
\* All the clients may have ended, or wait for a server that is gone.
CHECK_DEADLOCK FALSE
