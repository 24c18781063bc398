SPECIFICATION Spec
CONSTANTS
  Species = {1, 4}
  Starters = {1}
  MaxHPs = {1}
  MaxDamage = 2
  MaxLevel = 6
  TeamCap = 2
  NoEnemy = NoEnemy
  NoFile = NoFile
  Torn = Torn
INVARIANTS TypeOK FightersStand ProgressIsSaved CountersAgree
PROPERTY TeamOnlyGrows
