SPECIFICATION Spec
CONSTANTS
  Sheets <- AllRosters
  Slots = {0, 1}
  Actions <- Anything
  MaxDamage = 1
  RestCap = 3
  NoSkill = NoSkill
  NoEffect = NoEffect
INVARIANTS TypeOK VictoryIffOut BenchIsReset BotsActLegally MistakesAreSmall
PROPERTIES FaintedStaysFainted StatusKept CooldownHolds
CHECK_DEADLOCK FALSE
