SPECIFICATION FairSpec
CONSTANTS
  a = a
  b = b
  c = c
  Name = {a, b, c}
  Boot = a
  Broken = {c}
  Lists <- Chosen
  Task = {t1, t2}
INVARIANTS
  TypeOK
PROPERTIES
  IsPlayer
  EveryEntryPlays
