--------------------------- MODULE FormulaProofs ----------------------------
(***************************************************************************)
(* Facts about the element chart, the stats and the damage pipeline, for   *)
(* every pairing of elements and every value of the inputs.                *)
(***************************************************************************)
EXTENDS Formulas, TLAPS

(* One matchup is one of the chart's four multipliers.                     *)
LEMMA EffectivenessValues ==
  ASSUME NEW a, NEW d PROVE Effectiveness(a, d) \in {0, 1, 2, 4}
BY DEF Effectiveness

(* damage.go's DamageResult: the "combined type multiplier" is one of      *)
(* 0, .25, .5, 1, 2 and 4, for one element as for two; here in quarters.   *)
THEOREM CombinedMultiplier ==
  ASSUME NEW a \in Element, NEW d1 \in Element, NEW d2 \in Element
  PROVE  DualEffectiveness(a, d1, d2) \in {0, 1, 2, 4, 8, 16}
<1> DEFINE e1 == Effectiveness(a, d1)
           e2 == IF d2 # d1 THEN Effectiveness(a, d2) ELSE 2
<1>1. e1 \in {0, 1, 2, 4} /\ e2 \in {0, 1, 2, 4}
  BY EffectivenessValues
<1>2. DualEffectiveness(a, d1, d2) = e1 * e2
  BY DEF DualEffectiveness
<1> HIDE DEF e1, e2
<1> QED
  BY <1>1, <1>2

(* DualEffectiveness's comment has a mono-typed creature pass Neutral as   *)
(* its second element, which is said to defend at 1.0 against everything.  *)
(* That it changes nothing is true of every attack but a Spectre one,      *)
(* which never touches such a creature.                                    *)
THEOREM NeutralAsSecond ==
  ASSUME NEW a \in Element, NEW d \in Element
  PROVE  /\ a # "spectre" => DualEffectiveness(a, d, "neutral") = DualEffectiveness(a, d, d)
         /\ DualEffectiveness("spectre", d, "neutral") = 0
<1>1. /\ <<a, "neutral">> \notin Strong \cup Resisted
      /\ <<"spectre", "neutral">> \notin Strong \cup Resisted
  BY DEF Strong, Resisted
<1>2. /\ <<"spectre", "neutral">> \in Immune
      /\ a # "spectre" => <<a, "neutral">> \notin Immune
  BY DEF Immune
<1>3. /\ a # "spectre" => Effectiveness(a, "neutral") = 2
      /\ Effectiveness("spectre", "neutral") = 0
  BY <1>1, <1>2 DEF Effectiveness
<1>4. Effectiveness(a, d) \in Int /\ Effectiveness("spectre", d) \in Int
  BY EffectivenessValues
<1> QED
  BY <1>3, <1>4 DEF DualEffectiveness

-----------------------------------------------------------------------------
(* Integer arithmetic that the provers want in small pieces.               *)

(* The quotient of naturals is the largest natural that fits.              *)
LEMMA Quotient ==
  ASSUME NEW a \in Nat, NEW c \in Nat, c > 0
  PROVE  a \div c \in Nat /\ c * (a \div c) <= a /\ a < c * (a \div c + 1)
OBVIOUS

LEMMA ProductNat ==
  ASSUME NEW a \in Nat, NEW b \in Nat
  PROVE  a * b \in Nat /\ (a > 0 /\ b > 0 => a * b > 0)
OBVIOUS

LEMMA ProductMono ==
  ASSUME NEW a \in Nat, NEW b \in Nat, NEW c \in Nat, a <= b
  PROVE  a * c <= b * c
OBVIOUS

LEMMA ProductMono2 ==
  ASSUME NEW a \in Nat, NEW b \in Nat, NEW c \in Nat, NEW d \in Nat, a <= b, c <= d
  PROVE  a * c <= b * d
<1>1. a * c <= b * c
  BY ProductMono
<1>2. c * b <= d * b
  BY ProductMono
<1> QED
  BY <1>1, <1>2

(* A smaller fraction has a smaller floor.                                 *)
LEMMA QuotientMono ==
  ASSUME NEW a \in Nat, NEW b \in Nat, NEW c \in Nat, NEW d \in Nat,
         c > 0, d > 0, a * d <= b * c
  PROVE  a \div c <= b \div d
<1> DEFINE q == a \div c
           r == b \div d
<1>1. q \in Nat /\ c * q <= a /\ r \in Nat /\ b < d * (r + 1)
  BY Quotient
<1> HIDE DEF q, r
<1>2. (c * q) * d <= a * d
  BY <1>1, ProductMono, ProductNat
<1>3. SUFFICES ASSUME r + 1 <= q PROVE FALSE
  BY <1>1 DEF q, r
<1>4. (r + 1) * (c * d) <= q * (c * d)
  BY <1>1, <1>3, ProductMono, ProductNat
<1>5. b * c < (d * (r + 1)) * c
  BY <1>1
<1>6. (c * q) * d = q * (c * d) /\ (d * (r + 1)) * c = (r + 1) * (c * d)
  BY <1>1
<1> QED
  BY <1>1, <1>2, <1>4, <1>5, <1>6

-----------------------------------------------------------------------------
(* Stats.                                                                  *)

LEMMA CoreNat ==
  ASSUME NEW base \in Nat, NEW iv \in Nat, NEW ev \in Nat, NEW level \in Nat
  PROVE  Core(base, iv, ev, level) \in Nat
<1>1. ev \div 4 \in Nat
  BY Quotient
<1>2. 2 * base + iv + ev \div 4 \in Nat
  BY <1>1
<1>3. (2 * base + iv + ev \div 4) * level \in Nat
  BY <1>2, ProductNat
<1> QED
  BY <1>3, Quotient DEF Core

(* ComputeStats gives every individual some of everything, whatever the    *)
(* species, level and nature: HP of at least level + 10, which NewBattler  *)
(* starts a fight with, and at least 4 of the stats that ComputeDamage     *)
(* divides by and effSpeed compares.                                       *)
THEOREM StatsPositive ==
  ASSUME NEW base \in [StatKeys -> Nat], NEW ivs \in [StatKeys -> Nat],
         NEW evs \in [StatKeys -> Nat], NEW nature, NEW level \in Nat
  PROVE  LET stats == ComputeStats(base, ivs, evs, nature, level)
         IN  /\ stats \in [StatKeys -> Nat]
             /\ stats["hp"] >= level + 10
             /\ \A k \in StatKeys \ {"hp"} : stats[k] >= 4
<1> DEFINE core(k) == Core(base[k], ivs[k], evs[k], level)
           other(k) == ((core(k) + 5) * NatureMult(nature, k)) \div 10
<1>1. \A k \in StatKeys : core(k) \in Nat
  BY CoreNat
<1>2. \A k : NatureMult(nature, k) \in {9, 10, 11}
  BY DEF NatureMult
<1> HIDE DEF core
<1>3. ASSUME NEW k \in StatKeys
      PROVE  other(k) \in Nat /\ other(k) >= 4
  <2> DEFINE n == (core(k) + 5) * NatureMult(nature, k)
  <2>1. n \in Nat /\ n >= 45
    BY <1>1, <1>2
  <2> HIDE DEF n
  <2>2. n \div 10 \in Nat /\ n \div 10 >= 4
    BY <2>1
  <2> QED
    BY <2>2 DEF n
<1> HIDE DEF other
<1>4. ComputeStats(base, ivs, evs, nature, level) =
        [k \in StatKeys |-> IF k = "hp" THEN core(k) + level + 10 ELSE other(k)]
  BY DEF ComputeStats, core, other
<1>5. "hp" \in StatKeys
  BY DEF StatKeys
<1> QED
  BY <1>1, <1>3, <1>4, <1>5

(* LevelForXP's comment: it "inverts the curve (capped at 100)".  A level  *)
(* is what it returns for all XP from its own up to the next level's, and  *)
(* the last level for everything above.                                    *)
THEOREM LevelInvertsXP ==
  ASSUME NEW level \in 1 .. 100, NEW xp \in Nat,
         XPForLevel(level) <= xp, level < 100 => xp < XPForLevel(level + 1)
  PROVE  LevelForXP(xp) = level
<1> DEFINE Leaves(l) == l < 100 /\ XPForLevel(l + 1) <= xp
           First(l) == ~Leaves(l) /\ \A m \in 1 .. l - 1 : Leaves(m)
<1>1. ASSUME NEW m \in 1 .. level - 1
      PROVE  Leaves(m)
  <2>1. m + 1 \in Nat /\ m + 1 <= level /\ level \in Nat
    OBVIOUS
  <2>2. (m + 1) * (m + 1) <= level * level
    BY <2>1, ProductMono2
  <2>3. (m + 1) * (m + 1) * (m + 1) <= level * level * level
    BY <2>1, <2>2, ProductMono2, ProductNat
  <2> QED
    BY <2>1, <2>3, ProductNat DEF XPForLevel
<1>2. ~Leaves(level)
  <2>1. XPForLevel(level + 1) \in Nat
    BY ProductNat DEF XPForLevel
  <2> QED
    BY <2>1
<1>3. \A l \in 1 .. 100 : First(l) => l = level
  <2> SUFFICES ASSUME NEW l \in 1 .. 100, First(l) PROVE l = level
    OBVIOUS
  <2> HIDE DEF Leaves
  <2>1. CASE l < level
    BY <1>1, <2>1
  <2>2. CASE l > level
    <3>1. level \in 1 .. l - 1
      BY <2>2
    <3> QED
      BY <1>2, <3>1
  <2> QED
    BY <2>1, <2>2
<1>4. First(level)
  BY <1>1, <1>2
<1>5. LevelForXP(xp) = CHOOSE l \in 1 .. 100 : First(l)
  BY DEF LevelForXP
<1> HIDE DEF First
<1> QED
  BY <1>3, <1>4, <1>5

-----------------------------------------------------------------------------
(* Stages.                                                                 *)

Fraction == [num : Nat, den : Nat \ {0}]

LEMMA MultiplierFraction ==
  ASSUME NEW s \in -6 .. 6
  PROVE  /\ StageMultiplier(s) \in Fraction
         /\ AccStageMultiplier(s) \in Fraction
         /\ StageMultiplier(s).num > 0
         /\ AccStageMultiplier(s).num \in 3 .. 9
         /\ AccStageMultiplier(s).den \in 3 .. 9
BY DEF StageMultiplier, AccStageMultiplier, Ratio, Fraction

(* A higher stage never means a lower multiplier, in either curve, also    *)
(* where the two halves of a curve meet.                                   *)
THEOREM HigherStageHelps ==
  ASSUME NEW s \in -6 .. 6, NEW t \in -6 .. 6, s <= t
  PROVE  /\ Leq(StageMultiplier(s), StageMultiplier(t))
         /\ Leq(AccStageMultiplier(s), AccStageMultiplier(t))
<1>1. CASE s >= 0
  BY <1>1 DEF Leq, StageMultiplier, AccStageMultiplier, Ratio
<1>2. CASE s < 0 /\ t >= 0
  <2>1. 2 * 2 <= (2 + t) * (2 - s) /\ 3 * 3 <= (3 + t) * (3 - s)
    BY <1>2
  <2> QED
    BY <1>2, <2>1 DEF Leq, StageMultiplier, AccStageMultiplier, Ratio
<1>3. CASE t < 0
  BY <1>3 DEF Leq, StageMultiplier, AccStageMultiplier, Ratio
<1> QED
  BY <1>1, <1>2, <1>3

(* However far the stages of accuracy and evasion are apart, a skill with  *)
(* an accuracy of at least 9 can still hit: the percentage that            *)
(* ComputeDamage truncates does not become zero.                           *)
THEOREM HitStaysPossible ==
  ASSUME NEW accuracy \in Nat, accuracy >= 9, NEW acc \in -6 .. 6, NEW eva \in -6 .. 6
  PROVE  EffAccuracy(accuracy, acc, eva) >= 1
<1> DEFINE a == AccStageMultiplier(acc)
           e == AccStageMultiplier(eva)
<1>1. a \in Fraction /\ e \in Fraction
  BY MultiplierFraction
<1>2. 9 * a.num >= 3 * a.den /\ 3 * e.den >= e.num
  BY DEF AccStageMultiplier, Ratio
<1> HIDE DEF a, e
<1>3. accuracy * a.num \in Nat /\ accuracy * a.num >= 3 * a.den
  <2>1. accuracy * a.num >= 9 * a.num
    BY <1>1, ProductMono DEF Fraction
  <2> QED
    BY <1>1, <1>2, <2>1, ProductNat DEF Fraction
<1>4. (accuracy * a.num) * e.den >= a.den * e.num
  <2>1. (accuracy * a.num) * e.den >= (3 * a.den) * e.den
    BY <1>1, <1>3, ProductMono DEF Fraction
  <2>2. (3 * e.den) * a.den >= e.num * a.den
    BY <1>1, <1>2, ProductMono DEF Fraction
  <2> QED
    BY <1>1, <2>1, <2>2 DEF Fraction
<1>5. a.den * e.num \in Nat /\ a.den * e.num > 0
  <2>1. e.num > 0
    BY MultiplierFraction DEF e
  <2> QED
    BY <1>1, <2>1, ProductNat DEF Fraction
<1>6. (accuracy * a.num * e.den) \in Nat
  BY <1>1, ProductNat DEF Fraction
<1>7. EffAccuracy(accuracy, acc, eva) = (accuracy * a.num * e.den) \div (a.den * e.num)
  BY DEF EffAccuracy, a, e
<1> QED
  BY <1>4, <1>5, <1>6, <1>7, Quotient

-----------------------------------------------------------------------------
(* Critical hits.                                                          *)

LEMMA AtStageFraction ==
  ASSUME NEW stat \in Nat, NEW s \in -6 .. 6, NEW by \in {1, 2}
  PROVE  /\ AtStage(stat, s, by) \in Fraction
         /\ stat > 0 => AtStage(stat, s, by).num > 0
<1> DEFINE m == StageMultiplier(s)
<1>1. m \in Fraction /\ m.num > 0
  BY MultiplierFraction
<1>3. AtStage(stat, s, by) = Ratio(stat * m.num, m.den * by)
  BY DEF AtStage
<1> HIDE DEF m
<1>4. stat * m.num \in Nat /\ (stat > 0 => stat * m.num > 0)
  BY <1>1, ProductNat DEF Fraction
<1>5. m.den * by \in Nat /\ m.den * by > 0
  BY <1>1, ProductNat DEF Fraction
<1> QED
  BY <1>3, <1>4, <1>5 DEF Ratio, Fraction

(* ComputeDamage divides by effDefense, or by critDefense, without looking *)
(* at it: no species, individual, stage or condition makes one of the      *)
(* stats of a fighter zero.                                                *)
THEOREM NoStatVanishes ==
  ASSUME NEW base \in [StatKeys -> Nat], NEW ivs \in [StatKeys -> Nat],
         NEW evs \in [StatKeys -> Nat], NEW nature, NEW level \in Nat,
         NEW k \in StatKeys \ {"hp"}, NEW s \in -6 .. 6, NEW halved \in BOOLEAN
  PROVE  LET stat == ComputeStats(base, ivs, evs, nature, level)[k]
         IN  /\ EffAttack(stat, s, halved).num > 0
             /\ EffSpeed(stat, s, halved).num > 0
             /\ EffDefense(stat, s).num > 0
             /\ CritDefense(stat, s).num > 0
<1> DEFINE stat == ComputeStats(base, ivs, evs, nature, level)[k]
           h == HalvedIf(halved)
           u == IF s > 0 THEN 0 ELSE s
<1>1. stat \in Nat /\ stat > 0
  BY StatsPositive
<1>2. h \in {1, 2} /\ u \in -6 .. 6
  BY DEF HalvedIf
<1> HIDE DEF stat, h, u
<1>3. AtStage(stat, s, h).num > 0 /\ AtStage(stat, s, 1).num > 0 /\ AtStage(stat, u, 1).num > 0
  BY <1>1, <1>2, AtStageFraction
<1> QED
  BY <1>3 DEF EffAttack, EffSpeed, EffDefense, CritDefense, stat, h, u

(* A stat at a higher stage is at least as high.                           *)
LEMMA AtStageMono ==
  ASSUME NEW stat \in Nat, NEW s \in -6 .. 6, NEW t \in -6 .. 6, NEW by \in {1, 2},
         s <= t
  PROVE  Leq(AtStage(stat, s, by), AtStage(stat, t, by))
<1> DEFINE m == StageMultiplier(s)
           n == StageMultiplier(t)
<1>1. m \in Fraction /\ n \in Fraction 
  BY MultiplierFraction
<1>2. m.num * n.den <= n.num * m.den
  BY HigherStageHelps DEF Leq
<1>3. /\ AtStage(stat, s, by) = Ratio(stat * m.num, m.den * by)
      /\ AtStage(stat, t, by) = Ratio(stat * n.num, n.den * by)
  BY DEF AtStage
<1> HIDE DEF m, n
<1>4. stat * by \in Nat /\ m.num * n.den \in Nat /\ n.num * m.den \in Nat
  BY <1>1, ProductNat DEF Fraction
<1>5. (m.num * n.den) * (stat * by) <= (n.num * m.den) * (stat * by)
  BY <1>2, <1>4, ProductMono
<1>6. /\ (stat * m.num) * (n.den * by) = (m.num * n.den) * (stat * by)
      /\ (stat * n.num) * (m.den * by) = (n.num * m.den) * (stat * by)
  BY <1>1 DEF Fraction
<1> QED
  BY <1>3, <1>5, <1>6 DEF Leq, Ratio

(* More attack against no more defence is no less base damage.             *)
LEMMA BaseDamageMono ==
  ASSUME NEW level \in Nat, NEW power \in Nat,
         NEW a \in Fraction, NEW b \in Fraction, NEW c \in Fraction, NEW d \in Fraction,
         c.num > 0, d.num > 0, Leq(a, b), Leq(d, c)
  PROVE  /\ BaseDamage(level, power, a, c) \in Nat
         /\ BaseDamage(level, power, b, d) \in Nat
         /\ BaseDamage(level, power, a, c) <= BaseDamage(level, power, b, d)
<1> DEFINE x == ((2 * level) \div 5 + 2) * power
           p == a.num * c.den
           q == b.num * d.den
           r == a.den * c.num
           t == b.den * d.num
<1>1. x \in Nat
  BY Quotient, ProductNat
<1>2. p \in Nat /\ q \in Nat
  BY ProductNat DEF Fraction
<1>3. r \in Nat /\ r > 0 /\ t \in Nat /\ t > 0
  BY ProductNat DEF Fraction
<1>4. p * t <= q * r
  <2>1. a.num * b.den <= b.num * a.den /\ d.num * c.den <= c.num * d.den
    BY DEF Leq
  <2>2. /\ a.num * b.den \in Nat /\ b.num * a.den \in Nat
        /\ d.num * c.den \in Nat /\ c.num * d.den \in Nat
    BY ProductNat DEF Fraction
  <2>3. (a.num * b.den) * (d.num * c.den) <= (b.num * a.den) * (c.num * d.den)
    BY <2>1, <2>2, ProductMono2
  <2>4. /\ p * t = (a.num * b.den) * (d.num * c.den)
        /\ q * r = (b.num * a.den) * (c.num * d.den)
    BY DEF Fraction
  <2> QED
    BY <2>3, <2>4
<1>5. /\ BaseDamage(level, power, a, c) = (x * p) \div (50 * r) + 2
      /\ BaseDamage(level, power, b, d) = (x * q) \div (50 * t) + 2
  BY DEF BaseDamage
<1> HIDE DEF x, p, q, r, t
<1>6. x * p \in Nat /\ x * q \in Nat /\ 50 * r > 0 /\ 50 * t > 0
  BY <1>1, <1>2, <1>3, ProductNat
<1>7. (x * p) * (50 * t) <= (x * q) * (50 * r)
  <2>1. (p * t) * (50 * x) <= (q * r) * (50 * x)
    BY <1>1, <1>2, <1>3, <1>4, ProductMono, ProductNat
  <2>2. (x * p) * (50 * t) = (p * t) * (50 * x) /\ (x * q) * (50 * r) = (q * r) * (50 * x)
    BY <1>1, <1>2, <1>3
  <2> QED
    BY <2>1, <2>2
<1>8. (x * p) \div (50 * r) <= (x * q) \div (50 * t)
  BY <1>3, <1>6, <1>7, QuotientMono
<1>9. (x * p) \div (50 * r) \in Nat /\ (x * q) \div (50 * t) \in Nat
  BY <1>3, <1>6, Quotient
<1> QED
  BY <1>5, <1>8, <1>9

(* A larger base or a larger product of factors is no less damage.         *)
LEMMA DamageMono ==
  ASSUME NEW b1 \in Nat, NEW b2 \in Nat, b1 <= b2,
         NEW stab \in Nat, NEW matchup \in Nat, NEW c1 \in Nat, NEW c2 \in Nat, c1 <= c2,
         NEW off \in Nat, NEW def \in Nat, NEW spread \in Nat
  PROVE  Damage(b1, stab, matchup, c1, off, def, spread)
           <= Damage(b2, stab, matchup, c2, off, def, spread)
<1> DEFINE k == stab * matchup
           l == off * def * spread
           n1 == b1 * Product(stab, matchup, c1, off, def, spread)
           n2 == b2 * Product(stab, matchup, c2, off, def, spread)
           d == 2 * 4 * 2 * 2 * 4 * 100
<1>1. k \in Nat /\ l \in Nat
  BY ProductNat
<1>2. n1 = (b1 * c1) * (k * l) /\ n2 = (b2 * c2) * (k * l)
  BY DEF Product
<1>3. b1 * c1 <= b2 * c2
  BY ProductMono2
<1>4. n1 \in Nat /\ n2 \in Nat /\ n1 <= n2
  <2>1. b1 * c1 \in Nat /\ b2 * c2 \in Nat /\ k * l \in Nat
    BY <1>1, ProductNat
  <2> HIDE DEF k, l, n1, n2
  <2> QED
    BY <1>2, <1>3, <2>1, ProductMono, ProductNat
<1> HIDE DEF n1, n2
<1>5. RoundHalfUp(n1, d) \in Nat /\ RoundHalfUp(n2, d) \in Nat
      /\ RoundHalfUp(n1, d) <= RoundHalfUp(n2, d)
  BY <1>4 DEF RoundHalfUp
<1> QED
  BY <1>5 DEF Damage, n1, n2

(* A damaging skill that connects takes at least one HP, unless the        *)
(* defender is immune: what Battle lets a hit do.                          *)
THEOREM HitsTakeHP ==
  ASSUME NEW base \in Nat, NEW stab \in Nat, NEW matchup \in Nat, NEW crit \in Nat,
         NEW off \in Nat, NEW def \in Nat, NEW spread \in Nat
  PROVE  /\ Damage(base, stab, matchup, crit, off, def, spread) \in Nat
         /\ Damage(base, stab, matchup, crit, off, def, spread) = 0 <=> matchup = 0
<1> DEFINE n == base * Product(stab, matchup, crit, off, def, spread)
<1>1. n \in Nat
  <2>1. Product(stab, matchup, crit, off, def, spread) \in Nat
    BY ProductNat DEF Product
  <2> QED
    BY <2>1, ProductNat
<1> HIDE DEF n
<1>2. RoundHalfUp(n, 2 * 4 * 2 * 2 * 4 * 100) \in Nat
  BY <1>1 DEF RoundHalfUp
<1> QED
  BY <1>2 DEF Damage, n

(* critMultiplier's comment: a critical hit ignores the defender's boosts  *)
(* and the attacker's drops, "handled in computeDamage".  With it, and     *)
(* whatever the stages, the conditions and the other factors are, a        *)
(* critical hit never does less damage than the same hit without one.      *)
THEOREM CritNeverHurts ==
  ASSUME NEW level \in Nat, NEW power \in Nat,
         NEW attack \in Nat, NEW defense \in Nat \ {0},
         NEW s \in -6 .. 6, NEW t \in -6 .. 6, NEW burned \in BOOLEAN,
         NEW stab \in Nat, NEW matchup \in Nat, NEW off \in Nat, NEW def \in Nat,
         NEW spread \in Nat
  PROVE  Damage(BaseDamage(level, power, EffAttack(attack, s, burned), EffDefense(defense, t)),
                stab, matchup, 2, off, def, spread)
           <= Damage(BaseDamage(level, power, CritAttack(attack, s, burned), CritDefense(defense, t)),
                     stab, matchup, 3, off, def, spread)
<1> DEFINE u == IF s < 0 THEN 0 ELSE s
           v == IF t > 0 THEN 0 ELSE t
           h == HalvedIf(burned)
           a == AtStage(attack, s, h)
           b == AtStage(attack, u, h)
           c == AtStage(defense, t, 1)
           d == AtStage(defense, v, 1)
<1>1. u \in -6 .. 6 /\ s <= u /\ v \in -6 .. 6 /\ v <= t /\ h \in {1, 2}
  BY DEF HalvedIf
<1>2. /\ EffAttack(attack, s, burned) = a /\ CritAttack(attack, s, burned) = b
      /\ EffDefense(defense, t) = c /\ CritDefense(defense, t) = d
  BY DEF EffAttack, CritAttack, EffDefense, CritDefense
<1> HIDE DEF u, v, h
<1>3. a \in Fraction /\ b \in Fraction
  BY <1>1, AtStageFraction
<1>4. /\ c \in Fraction /\ c.num > 0
      /\ d \in Fraction /\ d.num > 0
  BY <1>1, AtStageFraction
<1>5. Leq(a, b) /\ Leq(d, c)
  BY <1>1, AtStageMono
<1> HIDE DEF a, b, c, d
<1> DEFINE x == BaseDamage(level, power, a, c)
           y == BaseDamage(level, power, b, d)
<1>6. x \in Nat /\ y \in Nat /\ x <= y
  BY <1>3, <1>4, <1>5, BaseDamageMono
<1> HIDE DEF x, y
<1>7. Damage(x, stab, matchup, 2, off, def, spread)
        <= Damage(y, stab, matchup, 3, off, def, spread)
  BY <1>6, DamageMono, 2 \in Nat, 3 \in Nat, 2 <= 3
<1> QED
  BY <1>2, <1>7 DEF x, y
=============================================================================
