SPECIFICATION FairSpec
CONSTANTS
  num_threads = 3
  num_sections = 2
  Awarie = TRUE
INVARIANTS
  TypeOK
  WynikZgodny
  MutexPrzezywaWatki
PROPERTIES
  LicznikSpec
  Zakonczenie
\* The program ends.
CHECK_DEADLOCK FALSE
