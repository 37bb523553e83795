SPECIFICATION FairSpec
CONSTANTS
  Instancje = {a}
  Nikt = Nikt
  Bledy = {"exec", "fork"}
  Sygnaly = {"grupa"}
  MaxSigint = 1
  DlugiPlik = TRUE
INVARIANTS
  TypeOK
  BezWycieku
  CzekaNaPotomkow
  WszystkoOtwarte
PROPERTIES
  Zakonczenie
  SigintKonczy
\* The program ends; and what a failed fork() or exec leaves behind may wait for ever.
CHECK_DEADLOCK FALSE
