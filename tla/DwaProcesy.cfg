SPECIFICATION FairSpec
CONSTANTS
  Uruchomienie = {u1, u2, u3}
  Brak = Brak
  N = 2
  Bledy = {"fork"}
INVARIANTS
  TypeOK
  Wykluczenie
PROPERTIES
  Zakonczenie
\* The runs end.
CHECK_DEADLOCK FALSE
