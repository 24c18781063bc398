------------------------------ MODULE Formulas ------------------------------
(***************************************************************************)
(* The arithmetic of a battle: the stats of an individual (pkg/creatures), *)
(* what stages and conditions make of them, and the damage pipeline        *)
(* (battle/internal/engine).                                               *)
(*                                                                         *)
(* The code's float64 factors are fractions here: records num/den, or      *)
(* integers that count tenths, halves or quarters.  Where the code takes   *)
(* the floor of a product of floats, the fraction's floor is exact and the *)
(* code's may be off by one when the product is next to an integer.        *)
(***************************************************************************)
EXTENDS Elements

Ratio(n, d) == [num |-> n, den |-> d]

Leq(p, q) == p.num * q.den <= q.num * p.den

-----------------------------------------------------------------------------
(* Stats.                                                                  *)

StatKeys == {"hp", "attack", "defense", "sp_attack", "sp_defense", "speed"}

(* The multiplier of a nature, in tenths; up = down is a neutral nature.   *)
NatureMult(nature, key) ==
  IF nature.up = nature.down THEN 10
  ELSE CASE key = nature.up -> 11 [] key = nature.down -> 9 [] OTHER -> 10

Core(base, iv, ev, level) == ((2 * base + iv + ev \div 4) * level) \div 100

ComputeStats(base, ivs, evs, nature, level) ==
  [k \in StatKeys |->
     LET core == Core(base[k], ivs[k], evs[k], level)
     IN  IF k = "hp" THEN core + level + 10
         ELSE ((core + 5) * NatureMult(nature, k)) \div 10]

XPForLevel(level) == level * level * level

(* The level at which the loop stops: the first that it may not leave.     *)
LevelForXP(xp) ==
  LET Leaves(l) == l < 100 /\ XPForLevel(l + 1) <= xp
  IN  CHOOSE l \in 1 .. 100 : ~Leaves(l) /\ \A m \in 1 .. l - 1 : Leaves(m)

-----------------------------------------------------------------------------
(* Stages.                                                                 *)

StageMultiplier(s) == IF s >= 0 THEN Ratio(2 + s, 2) ELSE Ratio(2, 2 - s)

AccStageMultiplier(s) == IF s >= 0 THEN Ratio(3 + s, 3) ELSE Ratio(3, 3 - s)

(* A stat at a stage, divided by 1 or by 2.                                *)
AtStage(stat, stage, by) ==
  LET m == StageMultiplier(stage)
  IN  Ratio(stat * m.num, m.den * by)

HalvedIf(cond) == IF cond THEN 2 ELSE 1

(* burned: a burn, when the skill is not a special one.                    *)
EffAttack(stat, stage, burned) == AtStage(stat, stage, HalvedIf(burned))

EffDefense(stat, stage) == AtStage(stat, stage, 1)

EffSpeed(stat, stage, paralysed) == AtStage(stat, stage, HalvedIf(paralysed))

(* A critical hit ignores the attacker's drops and the defender's boosts.  *)
CritAttack(stat, stage, burned) ==
  AtStage(stat, IF stage < 0 THEN 0 ELSE stage, HalvedIf(burned))

CritDefense(stat, stage) == AtStage(stat, IF stage > 0 THEN 0 ELSE stage, 1)

-----------------------------------------------------------------------------
(* A hit.                                                                  *)

(* The percentage handed to Chance for a skill whose accuracy is checked.  *)
EffAccuracy(accuracy, acc, eva) ==
  LET a == AccStageMultiplier(acc)
      e == AccStageMultiplier(eva)
  IN  (accuracy * a.num * e.den) \div (a.den * e.num)

BaseDamage(level, power, atk, def) ==
  ((((2 * level) \div 5 + 2) * power) * (atk.num * def.den)) \div (50 * (atk.den * def.num)) + 2

(* In halves: the boosts of an element at a third of the HP or less.       *)
OffensiveAbilityMod(ability, element, hp, maxHP) ==
  IF /\ <<ability, element>> \in {<<"blaze", "fire">>, <<"torrent", "water">>, <<"overgrow", "grass">>}
     /\ hp * 3 <= maxHP
  THEN 3 ELSE 2

(* In quarters.                                                            *)
DefensiveAbilityMod(ability, class) ==
  IF ability = "iron_hide" /\ class = "physical" THEN 3 ELSE 4

(* In halves: the attacker has the skill's element.                        *)
STAB(ability, element, element1, element2) ==
  IF element \notin {element1, element2} THEN 2 ELSE IF ability = "adaptable" THEN 4 ELSE 3

(* STAB, crit and the attacker's ability in halves, the matchup and the    *)
(* defender's ability in quarters, the spread in hundredths.               *)
Product(stab, matchup, crit, off, def, spread) ==
  stab * matchup * crit * off * def * spread

(* roundHalfUp(n / d).                                                     *)
RoundHalfUp(n, d) == (2 * n + d) \div (2 * d)

(* What ComputeDamage returns for a skill that connects.                   *)
Damage(base, stab, matchup, crit, off, def, spread) ==
  LET dmg == RoundHalfUp(base * Product(stab, matchup, crit, off, def, spread),
                         2 * 4 * 2 * 2 * 4 * 100)
  IN  IF matchup = 0 THEN 0 ELSE IF dmg < 1 THEN 1 ELSE dmg
=============================================================================
