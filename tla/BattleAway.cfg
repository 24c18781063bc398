SPECIFICATION Spec
CONSTANTS
  Sheets <- OneRoster
  Slots = {0, 1}
  Actions <- MoveOrSwap
  MaxDamage = 1
  RestCap = 0
  NoSkill = NoSkill
  NoEffect = NoEffect
PROPERTY FaintedIsReplaced
CHECK_DEADLOCK FALSE
