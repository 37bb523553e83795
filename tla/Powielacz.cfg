SPECIFICATION FairSpec
CONSTANTS
  ilosc_pp = 3
  ilosc_sekcji = 2
  Pusty = Pusty
  Nikt = Nikt
  Bledy = {"exec", "fork"}
  MaxSigint = 1
  Druga = TRUE
INVARIANTS
  TypeOK
  Wykluczenie
  WynikZgodny
  BezWycieku
PROPERTIES
  LicznikSpec
  Zakonczenie
\* The program ends; after a second ./pow its children may wait for ever.
CHECK_DEADLOCK FALSE
