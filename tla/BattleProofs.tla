---------------------------- MODULE BattleProofs ----------------------------
(***************************************************************************)
(* Theorems about Battle and Bots, for any rosters of any size, any skills *)
(* and any damage: what a battle does to the battlers never breaks its own *)
(* rules, and what a bot decides in it is legal and among the best two.    *)
(***************************************************************************)
EXTENDS Bots, FormulaProofs, FiniteSetTheorems, SequenceTheorems, TLAPS

(* A battler that keeps its rules: it also cools down long enough.         *)
Fit(b, card) ==
  /\ BattlerOK(b, card)
  /\ \A k \in Slots : card.skills[k] # NoSkill =>
       b.rest[k] + b.cooldowns[k] >= AtMost(card.skills[k].cooldown, RestCap)

(* What a skill's effects may not touch: another condition, or cooldowns.  *)
Touched(b, c) ==
  /\ b.status # "none" => c.status = b.status
  /\ c.cooldowns = b.cooldowns
  /\ c.rest = b.rest

Pair == [att : Battler, def : Battler]

(* The pair of side s attacking with its foe.                              *)
FitPair(s, o) ==
  /\ o \in Pair
  /\ Fit(o.att, ActiveCard(s))
  /\ Fit(o.def, ActiveCard(1 - s))

(* What the riders of a skill do to the pair.                              *)
Ridden(o, q) ==
  /\ Touched(o.att, q.att)
  /\ Touched(o.def, q.def)
  /\ q.def.hp <= o.def.hp

CardsOK == \A s \in Sides : ActiveCard(s) \in Card

-----------------------------------------------------------------------------
(* What the operators on battlers return.                                  *)

LEMMA RiddenTransitive ==
  ASSUME NEW o \in Pair, NEW p \in Pair, NEW q \in Pair, Ridden(o, p), Ridden(p, q)
  PROVE  Ridden(o, q)
BY DEF Ridden, Touched, Pair, Battler

LEMMA RiddenReflexive ==
  ASSUME NEW o \in Pair
  PROVE  Ridden(o, o)
BY DEF Ridden, Touched, Pair, Battler

(* The rules bind HP, cooldowns and history only.                          *)
LEMMA StillFit ==
  ASSUME NEW b, NEW card \in Card, Fit(b, card), NEW c \in Battler,
         c.hp <= card.maxHP, c.cooldowns = b.cooldowns, c.rest = b.rest
  PROVE  Fit(c, card)
BY DEF Fit, BattlerOK

LEMMA FitIsBattler ==
  ASSUME NEW b, NEW card \in Card, Fit(b, card)
  PROVE  b \in Battler /\ b.hp \in Nat /\ card.maxHP \in Nat /\ b.hp <= card.maxHP
BY DEF Fit, BattlerOK, Battler, Card

(* A hit keeps the rules and never adds HP.                                *)
LEMMA HurtFit ==
  ASSUME NEW b, NEW card \in Card, Fit(b, card), NEW n \in Nat
  PROVE  /\ Fit(Hurt(b, n), card)
         /\ Touched(b, Hurt(b, n))
         /\ Hurt(b, n).hp <= b.hp
<1>1. AtLeast(b.hp - n, 0) \in Nat /\ AtLeast(b.hp - n, 0) <= b.hp
  BY FitIsBattler DEF AtLeast
<1> DEFINE hp == AtLeast(b.hp - n, 0)
<1>2. Hurt(b, n) = [b EXCEPT !.hp = hp]
  BY FitIsBattler DEF Hurt, Battler
<1> HIDE DEF hp
<1> DEFINE c == Hurt(b, n)
<1>3. /\ c \in Battler /\ c.hp = hp /\ c.cooldowns = b.cooldowns
      /\ c.rest = b.rest /\ c.status = b.status
  BY <1>1, <1>2, FitIsBattler DEF Battler, hp
<1>4. c.hp <= b.hp /\ c.hp <= card.maxHP
  BY <1>1, <1>3, FitIsBattler DEF hp
<1> HIDE DEF c
<1>5. Fit(c, card)
  BY <1>3, <1>4, StillFit
<1> QED
  BY <1>3, <1>4, <1>5 DEF c, Touched

(* Neither does a condition replace one.                                   *)
LEMMA ApplyStatusFit ==
  ASSUME NEW b, NEW card \in Card, Fit(b, card), NEW foe \in Card, NEW st \in Statuses
  PROVE  /\ Fit(ApplyStatus(b, foe, st), card)
         /\ Touched(b, ApplyStatus(b, foe, st))
         /\ ApplyStatus(b, foe, st).hp = b.hp
<1> DEFINE c == ApplyStatus(b, foe, st)
<1>1. \/ c = b
      \/ /\ b.status = "none"
         /\ \E n \in Int : c = [b EXCEPT !.status = st, !.ctr = n]
  <2>1. (IF st = "toxic" THEN 1 ELSE b.ctr) \in Int
    BY FitIsBattler DEF Battler
  <2> QED
    BY <2>1 DEF ApplyStatus
<1> HIDE DEF c
<1>2. /\ c \in Battler /\ c.hp = b.hp /\ c.cooldowns = b.cooldowns /\ c.rest = b.rest
      /\ b.status # "none" => c.status = b.status
  <2>1. CASE c = b
    BY <2>1, FitIsBattler
  <2>2. ASSUME NEW n \in Int, b.status = "none", c = [b EXCEPT !.status = st, !.ctr = n]
        PROVE  c \in Battler /\ c.hp = b.hp /\ c.cooldowns = b.cooldowns /\ c.rest = b.rest
    <3>1. b \in Battler
      BY FitIsBattler
    <3> QED
      BY <2>2, <3>1 DEF Battler
  <2> QED
    BY <1>1, <2>1, <2>2
<1> HIDE DEF c
<1>3. Fit(c, card)
  BY <1>2, StillFit, FitIsBattler
<1> QED
  BY <1>2, <1>3 DEF c, Touched

LEMMA SetSleepFit ==
  ASSUME NEW b, NEW card \in Card, Fit(b, card), NEW c \in SetSleep(b)
  PROVE  /\ Fit(c, card)
         /\ Touched(b, c)
         /\ c.hp = b.hp
<1>1. c = b \/ (b.status = "none" /\ \E n \in 1 .. 3 : c = [b EXCEPT !.status = "sleep", !.ctr = n])
  BY DEF SetSleep
<1>2. /\ c \in Battler /\ c.hp = b.hp /\ c.cooldowns = b.cooldowns /\ c.rest = b.rest
      /\ b.status # "none" => c.status = b.status
  <2>1. "sleep" \in Statuses
    BY DEF Statuses
  <2>2. ASSUME NEW n \in Int, c = [b EXCEPT !.status = "sleep", !.ctr = n]
        PROVE  c \in Battler /\ c.hp = b.hp /\ c.cooldowns = b.cooldowns /\ c.rest = b.rest
    <3>1. b \in Battler
      BY FitIsBattler
    <3> QED
      BY <2>1, <2>2, <3>1 DEF Battler
  <2>3. 1 .. 3 \subseteq Int
    OBVIOUS
  <2> QED
    BY <1>1, <2>2, <2>3, FitIsBattler
<1> QED
  BY <1>2, StillFit, FitIsBattler DEF Touched

(* The gate may end sleep and ice, and nothing else.                       *)
LEMMA PreMoveGateFit ==
  ASSUME NEW b, NEW card \in Card, Fit(b, card), NEW gate \in PreMoveGate(b)
  PROVE  /\ Fit(gate.b, card)
         /\ b.status \notin {"none", "sleep", "freeze"} => gate.b.status = b.status
         /\ gate.b.hp = b.hp
         /\ gate.b.cooldowns = b.cooldowns
         /\ gate.b.rest = b.rest
<1> DEFINE Awake == [b EXCEPT !.ctr = b.ctr - 1,
                              !.status = IF b.ctr <= 1 THEN "none" ELSE b.status]
           Thawed(thaw) == [b EXCEPT !.status = IF thaw THEN "none" ELSE b.status]
<1>1. \/ gate.b = b
      \/ b.status = "sleep" /\ gate.b = Awake
      \/ b.status = "freeze" /\ \E thaw \in BOOLEAN : gate.b = Thawed(thaw)
  <2>1. CASE b.status = "sleep"
    <3>1. PreMoveGate(b) = {[go |-> b.ctr <= 1, b |-> Awake]}
      BY <2>1, Zenon DEF PreMoveGate
    <3> HIDE DEF Awake
    <3> QED
      BY <2>1, <3>1
  <2>2. CASE b.status = "freeze"
    <3>1. PreMoveGate(b) = {[go |-> thaw, b |-> Thawed(thaw)] : thaw \in BOOLEAN}
      <4>1. Chance(20) = BOOLEAN
        BY DEF Chance
      <4>2. PreMoveGate(b) = {[go |-> thaw, b |-> Thawed(thaw)] : thaw \in Chance(20)}
        BY <2>2, Zenon DEF PreMoveGate
      <4> QED
        BY <4>1, <4>2, Zenon
    <3> HIDE DEF Thawed
    <3> QED
      BY <2>2, <3>1
  <2>3. CASE b.status = "paralysis"
    <3>1. PreMoveGate(b) = {[go |-> ~stuck, b |-> b] : stuck \in Chance(25)}
      BY <2>3, Zenon DEF PreMoveGate
    <3> QED
      BY <3>1
  <2>4. CASE b.status \notin {"sleep", "freeze", "paralysis"}
    BY <2>4 DEF PreMoveGate
  <2> QED
    BY <2>1, <2>2, <2>3, <2>4
<1>2. /\ gate.b \in Battler /\ gate.b.hp = b.hp
      /\ gate.b.cooldowns = b.cooldowns /\ gate.b.rest = b.rest
      /\ b.status \notin {"none", "sleep", "freeze"} => gate.b.status = b.status
  <2>1. "none" \in Statuses /\ b.status \in Statuses /\ b.ctr - 1 \in Int
    BY FitIsBattler DEF Statuses, Battler
  <2>2. CASE gate.b = b
    BY <2>2, FitIsBattler
  <2>3. CASE b.status = "sleep" /\ gate.b = Awake
    <3> DEFINE st == IF b.ctr <= 1 THEN "none" ELSE b.status
               n == b.ctr - 1
    <3>1. st \in Statuses /\ n \in Int
      BY <2>1
    <3>3. gate.b = [b EXCEPT !.ctr = n, !.status = st]
      BY <2>3
    <3> HIDE DEF st, n, Awake
    <3>2. gate.b \in Battler /\ gate.b.hp = b.hp
            /\ gate.b.cooldowns = b.cooldowns /\ gate.b.rest = b.rest
      <4>1. b \in Battler
        BY FitIsBattler
      <4> QED
        BY <3>1, <3>3, <4>1 DEF Battler
    <3> QED
      BY <2>3, <3>2
  <2>4. ASSUME NEW thaw \in BOOLEAN, b.status = "freeze", gate.b = Thawed(thaw)
        PROVE  gate.b \in Battler /\ gate.b.hp = b.hp
                 /\ gate.b.cooldowns = b.cooldowns /\ gate.b.rest = b.rest
    <3> DEFINE st == IF thaw THEN "none" ELSE b.status
    <3>1. st \in Statuses
      BY <2>1
    <3>2. gate.b = [b EXCEPT !.status = st]
      BY <2>4
    <3> HIDE DEF st
    <3> QED
      BY <3>1, <3>2, FitIsBattler DEF Battler
  <2> HIDE DEF Awake, Thawed
  <2> QED
    BY <1>1, <2>2, <2>3, <2>4
<1> QED
  BY <1>2, StillFit, FitIsBattler

(* A cooldown starts when there is none, from the history it demands.      *)
LEMMA StartCooldownFit ==
  ASSUME NEW b, NEW card \in Card, Fit(b, card), RestCap \in Nat,
         NEW k \in Slots, card.skills[k] # NoSkill, b.cooldowns[k] = 0
  PROVE  /\ Fit(StartCooldown(b, k, card.skills[k]), card)
         /\ StartCooldown(b, k, card.skills[k]).status = b.status
         /\ StartCooldown(b, k, card.skills[k]).hp = b.hp
         /\ \A j \in Slots : StartCooldown(b, k, card.skills[k]).rest[j] < b.rest[j] =>
              /\ card.skills[j] # NoSkill
              /\ b.rest[j] >= AtMost(card.skills[j].cooldown, RestCap)
<1> DEFINE c == StartCooldown(b, k, card.skills[k])
           cd == card.skills[k].cooldown
<1>1. cd \in Nat /\ AtMost(cd, RestCap) \in Nat /\ AtMost(cd, RestCap) <= cd
  BY DEF Card, Skill, AtMost
<1>2. b \in Battler
  BY DEF Fit, BattlerOK
<1>3. CASE cd = 0
  <2>1. c = b
    BY <1>3 DEF StartCooldown
  <2> QED
    BY <2>1, <1>2 DEF Battler
<1>4. CASE cd # 0
  <2>1. b.cooldowns \in [Slots -> Nat] /\ b.rest \in [Slots -> 0 .. RestCap]
    BY <1>2 DEF Battler
  <2>2. c = [[b EXCEPT !.cooldowns = [b.cooldowns EXCEPT ![k] = cd]]
               EXCEPT !.rest = [b.rest EXCEPT ![k] = 0]]
    BY <1>2, <1>4 DEF StartCooldown, Battler
  <2> DEFINE cds == [b.cooldowns EXCEPT ![k] = cd]
             rests == [b.rest EXCEPT ![k] = 0]
  <2>3. cds \in [Slots -> Nat] /\ rests \in [Slots -> 0 .. RestCap]
    BY <1>1, <2>1
  <2>4. /\ \A j \in Slots : cds[j] = IF j = k THEN cd ELSE b.cooldowns[j]
        /\ \A j \in Slots : rests[j] = IF j = k THEN 0 ELSE b.rest[j]
    BY <2>1
  <2> HIDE DEF cds, rests
  <2>5. /\ c \in Battler /\ c.hp = b.hp /\ c.status = b.status
        /\ c.cooldowns = cds /\ c.rest = rests
    BY <2>2, <2>3, <1>2 DEF Battler, cds, rests
  <2> HIDE DEF c, cd
  <2>6. b.rest[k] >= AtMost(cd, RestCap)
    BY <1>1, <1>2 DEF Fit, Battler, cd
  <2>7. BattlerOK(c, card)
    BY <2>4, <2>5, <1>1 DEF Fit, BattlerOK, cd
  <2>8. c.rest[k] + c.cooldowns[k] >= AtMost(cd, RestCap)
    BY <2>4, <2>5, <1>1
  <2>9. Fit(c, card)
    BY <2>4, <2>5, <2>7, <2>8 DEF Fit, cd
  <2> QED
    BY <2>1, <2>4, <2>5, <2>6, <2>9 DEF c, cd
<1> QED
  BY <1>3, <1>4

-----------------------------------------------------------------------------
(* What the parts of a move make of the pair.                              *)

LEMMA Replaced ==
  ASSUME CardsOK, NEW s \in Sides, NEW o, FitPair(s, o), NEW b
  PROVE  /\ /\ Fit(b, ActiveCard(s)) /\ Touched(o.att, b)
            => LET q == [o EXCEPT !.att = b] IN FitPair(s, q) /\ Ridden(o, q)
         /\ /\ Fit(b, ActiveCard(1 - s)) /\ Touched(o.def, b) /\ b.hp <= o.def.hp
            => LET q == [o EXCEPT !.def = b] IN FitPair(s, q) /\ Ridden(o, q)
<1>1. ActiveCard(s) \in Card /\ ActiveCard(1 - s) \in Card
  BY DEF CardsOK, Sides
<1>2. Fit(o.att, ActiveCard(s)) /\ Fit(o.def, ActiveCard(1 - s)) /\ o \in Pair
  BY DEF FitPair
<1>3. o.def.hp \in Nat /\ o.att \in Battler /\ o.def \in Battler
  BY <1>1, <1>2, FitIsBattler
<1>4. Touched(o.att, o.att) /\ Touched(o.def, o.def) /\ o.def.hp <= o.def.hp
  BY <1>3 DEF Touched
<1>5. ASSUME Fit(b, ActiveCard(s)), Touched(o.att, b)
      PROVE  LET q == [o EXCEPT !.att = b] IN FitPair(s, q) /\ Ridden(o, q)
  <2> DEFINE q == [o EXCEPT !.att = b]
  <2>1. b \in Battler
    BY <1>1, <1>5, FitIsBattler
  <2>2. q \in Pair /\ q.att = b /\ q.def = o.def
    BY <1>2, <2>1 DEF Pair
  <2> HIDE DEF q
  <2>3. FitPair(s, q) /\ Ridden(o, q)
    BY <1>2, <1>4, <1>5, <2>2 DEF FitPair, Ridden
  <2> QED
    BY <2>3 DEF q
<1>6. ASSUME Fit(b, ActiveCard(1 - s)), Touched(o.def, b), b.hp <= o.def.hp
      PROVE  LET q == [o EXCEPT !.def = b] IN FitPair(s, q) /\ Ridden(o, q)
  <2> DEFINE q == [o EXCEPT !.def = b]
  <2>1. b \in Battler
    BY <1>1, <1>6, FitIsBattler
  <2>2. q \in Pair /\ q.att = o.att /\ q.def = b
    BY <1>2, <2>1 DEF Pair
  <2> HIDE DEF q
  <2>3. FitPair(s, q) /\ Ridden(o, q)
    BY <1>2, <1>4, <1>6, <2>2 DEF FitPair, Ridden
  <2> QED
    BY <2>3 DEF q
<1> QED
  BY <1>5, <1>6

(* The same for whichever of the two an effect is for.                     *)
LEMMA TargetReplaced ==
  ASSUME CardsOK, NEW s \in Sides, NEW o, FitPair(s, o), NEW eff \in Effect, NEW b,
         Fit(b, TargetCard(s, eff)), Touched(Target(o, eff), b), b.hp = Target(o, eff).hp
  PROVE  LET q == OnTarget(o, eff, b) IN FitPair(s, q) /\ Ridden(o, q)
<1>1. eff.self \in BOOLEAN
  BY DEF Effect
<1>2. CASE eff.self
  <2>1. OnTarget(o, eff, b) = [o EXCEPT !.att = b]
    BY <1>2 DEF OnTarget
  <2>2. Fit(b, ActiveCard(s)) /\ Touched(o.att, b)
    BY <1>2 DEF TargetCard, Target
  <2>3. LET q == [o EXCEPT !.att = b] IN FitPair(s, q) /\ Ridden(o, q)
    BY <2>2, Replaced
  <2> QED
    BY <2>1, <2>3
<1>3. CASE ~eff.self
  <2>1. OnTarget(o, eff, b) = [o EXCEPT !.def = b]
    BY <1>3 DEF OnTarget
  <2>2. Fit(b, ActiveCard(1 - s)) /\ Touched(o.def, b) /\ b.hp = o.def.hp
    BY <1>3 DEF TargetCard, Target
  <2>3. b.hp <= o.def.hp
    <3>1. ActiveCard(1 - s) \in Card
      BY DEF CardsOK, Sides
    <3> QED
      BY <2>2, <3>1, FitIsBattler
  <2>4. LET q == [o EXCEPT !.def = b] IN FitPair(s, q) /\ Ridden(o, q)
    BY <2>2, <2>3, Replaced
  <2> QED
    BY <2>1, <2>4
<1> QED
  BY <1>2, <1>3

LEMMA TargetFit ==
  ASSUME CardsOK, NEW s \in Sides, NEW o, FitPair(s, o), NEW eff \in Effect
  PROVE  TargetCard(s, eff) \in Card /\ Fit(Target(o, eff), TargetCard(s, eff))
BY DEF CardsOK, Sides, FitPair, Target, TargetCard

LEMMA StaticFit ==
  ASSUME CardsOK, NEW s \in Sides, NEW o, FitPair(s, o), NEW skill, NEW dmg,
         NEW q \in Static(s, o, skill, dmg)
  PROVE  FitPair(s, q) /\ Ridden(o, q)
<1> DEFINE b == ApplyStatus(o.att, ActiveCard(s), "paralysis")
<1>1. q = o \/ q = [o EXCEPT !.att = b]
  BY DEF Static
<1>2. FitPair(s, o) /\ Ridden(o, o)
  BY RiddenReflexive DEF FitPair
<1>3. Fit(b, ActiveCard(s)) /\ Touched(o.att, b)
  <2>1. ActiveCard(s) \in Card /\ Fit(o.att, ActiveCard(s)) /\ "paralysis" \in Statuses
    BY DEF CardsOK, FitPair, Statuses
  <2> QED
    BY <2>1, ApplyStatusFit
<1> HIDE DEF b
<1>4. LET p == [o EXCEPT !.att = b] IN FitPair(s, p) /\ Ridden(o, p)
  BY <1>3, Replaced
<1> QED
  BY <1>1, <1>2, <1>4

LEMMA InflictFit ==
  ASSUME CardsOK, NEW s \in Sides, NEW o, FitPair(s, o), NEW eff \in Effect,
         NEW q \in Inflict(s, o, eff)
  PROVE  FitPair(s, q) /\ Ridden(o, q)
<1> DEFINE hit == IF eff.status = "sleep" THEN SetSleep(Target(o, eff))
                  ELSE {ApplyStatus(Target(o, eff), TargetCard(s, eff), eff.status)}
<1>1. q = o \/ \E c \in hit : q = OnTarget(o, eff, c)
  BY DEF Inflict
<1>2. FitPair(s, o) /\ Ridden(o, o)
  BY RiddenReflexive DEF FitPair
<1>3. \A c \in hit : /\ Fit(c, TargetCard(s, eff)) /\ Touched(Target(o, eff), c)
                     /\ c.hp = Target(o, eff).hp
  <2>1. eff.status \in Statuses
    BY DEF Effect
  <2>2. CASE eff.status = "sleep"
    BY <2>2, TargetFit, SetSleepFit
  <2>3. CASE eff.status # "sleep"
    BY <2>1, <2>3, TargetFit, ApplyStatusFit
  <2> QED
    BY <2>2, <2>3
<1> HIDE DEF hit
<1> QED
  BY <1>1, <1>2, <1>3, TargetReplaced

LEMMA BoostFit ==
  ASSUME CardsOK, NEW s \in Sides, NEW o, FitPair(s, o), NEW eff \in Effect
  PROVE  FitPair(s, Boost(o, eff)) /\ Ridden(o, Boost(o, eff))
<1> DEFINE b == Target(o, eff)
           stages == [x \in Stats |-> ClampStage(b.stages[x], eff.stages[x])]
           c == Boosted(b, eff)
<1>1. TargetCard(s, eff) \in Card /\ Fit(b, TargetCard(s, eff)) /\ b \in Battler
  BY TargetFit, FitIsBattler
<1>2. stages \in [Stats -> -6 .. 6]
  <2>1. \A x \in Stats : b.stages[x] \in -6 .. 6 /\ eff.stages[x] \in -6 .. 6
    BY <1>1 DEF Battler, Effect
  <2> QED
    BY <2>1 DEF ClampStage, AtLeast, AtMost
<1>3. c = [b EXCEPT !.stages = stages]
  BY DEF Boosted
<1> HIDE DEF b, stages, c
<1>4. /\ c \in Battler /\ c.hp = b.hp /\ c.status = b.status
      /\ c.cooldowns = b.cooldowns /\ c.rest = b.rest
  BY <1>1, <1>2, <1>3 DEF Battler
<1>5. Fit(c, TargetCard(s, eff)) /\ Touched(b, c)
  BY <1>1, <1>4, StillFit, FitIsBattler DEF Touched
<1>6. Boost(o, eff) = OnTarget(o, eff, c)
  BY DEF Boost, b, c
<1> QED
  BY <1>4, <1>5, <1>6, TargetReplaced DEF b

LEMMA Percent ==
  ASSUME NEW m \in Nat, NEW n \in Nat
  PROVE  (m * n) \div 100 \in Nat
<1>1. m * n \in Nat
  OBVIOUS
<1> QED
  BY <1>1

LEMMA HealAndRecoilFit ==
  ASSUME CardsOK, NEW s \in Sides, NEW o, FitPair(s, o), NEW dmg \in Nat,
         NEW skill \in Skill, skill.effect \in Effect
  PROVE  LET q == HealAndRecoil(s, o, skill, dmg) IN FitPair(s, q) /\ Ridden(o, q)
<1> DEFINE max == ActiveCard(s).maxHP
           base == IF skill.class = "status" THEN max ELSE dmg
           gain == (base * skill.effect.heal) \div 100
           hp == AtMost(o.att.hp + gain, max)
           healed == IF skill.effect.heal > 0 THEN [o.att EXCEPT !.hp = hp] ELSE o.att
           loss == (dmg * skill.effect.recoil) \div 100
           b == Hurt(healed, loss)
<1>1. ActiveCard(s) \in Card /\ Fit(o.att, ActiveCard(s))
  BY DEF CardsOK, FitPair
<1>2. o.att \in Battler /\ o.att.hp \in Nat /\ max \in Nat /\ o.att.hp <= max
  BY <1>1, FitIsBattler
<1>3. base \in Nat /\ skill.effect.heal \in Nat /\ skill.effect.recoil \in Nat
  BY <1>2 DEF Effect
<1>4. gain \in Nat /\ loss \in Nat
  <2> HIDE DEF base
  <2> QED
    BY <1>3, Percent
<1>5. hp \in Nat /\ hp <= max
  <2> HIDE DEF gain, max
  <2> QED
    BY <1>2, <1>4 DEF AtMost
<1>6. HealAndRecoil(s, o, skill, dmg) = [o EXCEPT !.att = b]
  BY DEF HealAndRecoil
<1> HIDE DEF gain, loss, hp
<1>7. /\ healed \in Battler /\ healed.hp <= max /\ healed.status = o.att.status
      /\ healed.cooldowns = o.att.cooldowns /\ healed.rest = o.att.rest
  BY <1>2, <1>5 DEF Battler
<1> HIDE DEF healed
<1>8. Fit(healed, ActiveCard(s))
  BY <1>1, <1>7, StillFit
<1>9. Fit(b, ActiveCard(s)) /\ Touched(healed, b)
  BY <1>1, <1>4, <1>8, HurtFit
<1>10. Touched(o.att, b)
  BY <1>7, <1>9 DEF Touched
<1> HIDE DEF b
<1>11. LET q == [o EXCEPT !.att = b] IN FitPair(s, q) /\ Ridden(o, q)
  BY <1>9, <1>10, Replaced
<1> QED
  BY <1>6, <1>11

LEMMA RidersFit ==
  ASSUME CardsOK, NEW s \in Sides, NEW o, FitPair(s, o), NEW dmg \in Nat,
         NEW skill \in Skill, NEW q \in Riders(s, o, skill, dmg)
  PROVE  FitPair(s, q) /\ Ridden(o, q)
<1>1. CASE skill.effect = NoEffect
  BY <1>1, StaticFit DEF Riders
<1>2. CASE skill.effect # NoEffect
  <2>1. skill.effect \in Effect
    BY <1>2 DEF Skill
  <2>0. PICK p \in Static(s, o, skill, dmg) :
          \E r \in Inflict(s, p, skill.effect) :
            q = HealAndRecoil(s, Boost(r, skill.effect), skill, dmg)
    BY <1>2 DEF Riders
  <2>2. PICK r \in Inflict(s, p, skill.effect) :
           q = HealAndRecoil(s, Boost(r, skill.effect), skill, dmg)
    BY <2>0
  <2> DEFINE t == Boost(r, skill.effect)
  <2>3. FitPair(s, p) /\ Ridden(o, p)
    BY StaticFit
  <2>4. FitPair(s, r) /\ Ridden(p, r)
    BY <2>1, <2>3, InflictFit
  <2>5. FitPair(s, t) /\ Ridden(r, t)
    BY <2>1, <2>4, BoostFit
  <2>6. FitPair(s, q) /\ Ridden(t, q)
    <3> HIDE DEF t
    <3>1. LET u == HealAndRecoil(s, t, skill, dmg) IN FitPair(s, u) /\ Ridden(t, u)
      BY <2>1, <2>5, HealAndRecoilFit
    <3> QED
      BY <2>2, <3>1 DEF t
  <2> HIDE DEF t
  <2>7. Ridden(o, r)
    BY <2>3, <2>4, RiddenTransitive DEF FitPair
  <2>8. Ridden(o, t)
    BY <2>4, <2>5, <2>7, RiddenTransitive DEF FitPair
  <2> QED
    BY <2>5, <2>6, <2>8, RiddenTransitive DEF FitPair
<1> QED
  BY <1>1, <1>2

-----------------------------------------------------------------------------
(* A whole move.                                                           *)

(* What a move makes of attacker a and defender d: the conditions of both  *)
(* stay, sleep and ice of the attacker excepted, the defender gains no HP, *)
(* and only a skill that has rested long enough is used.                   *)
Moved(s, a, d, q) ==
  /\ FitPair(s, q)
  /\ Touched(d, q.def)
  /\ q.def.hp <= d.hp
  /\ a.status \notin {"none", "sleep", "freeze"} => q.att.status = a.status
  /\ \A k \in Slots : q.att.rest[k] < a.rest[k] =>
       /\ ActiveCard(s).skills[k] # NoSkill
       /\ a.rest[k] >= AtMost(ActiveCard(s).skills[k].cooldown, RestCap)

LEMMA DamagesType ==
  ASSUME MaxDamage \in Nat, NEW att, NEW def, NEW card, NEW skill,
         NEW dmg \in Damages(att, def, card, skill), dmg # Missed
  PROVE  dmg \in Nat
BY DEF Damages, Missed

LEMMA UseSkillMoves ==
  ASSUME BattleAssumption, CardsOK, NEW s \in Sides, NEW o, FitPair(s, o),
         NEW k \in Slots, ActiveCard(s).skills[k] # NoSkill,
         o.att.cooldowns[k] = 0,
         NEW q \in UseSkill(s, o, k, ActiveCard(s).skills[k])
  PROVE  Moved(s, o.att, o.def, q)
<1> DEFINE card == ActiveCard(s)
           skill == card.skills[k]
           b == StartCooldown(o.att, k, skill)
           used == [o EXCEPT !.att = b]
<1>1. /\ card \in Card /\ ActiveCard(1 - s) \in Card /\ skill \in Skill
      /\ RestCap \in Nat /\ MaxDamage \in Nat
      /\ o \in Pair /\ Fit(o.att, card) /\ Fit(o.def, ActiveCard(1 - s))
  BY DEF CardsOK, Card, BattleAssumption, FitPair, Sides
<1>2. /\ Fit(b, card) /\ b.status = o.att.status
      /\ \A j \in Slots : b.rest[j] < o.att.rest[j] =>
           card.skills[j] # NoSkill /\ o.att.rest[j] >= AtMost(card.skills[j].cooldown, RestCap)
  <2> HIDE DEF card
  <2> QED
    BY <1>1, StartCooldownFit DEF card
<1> HIDE DEF b
<1>3. used \in Pair /\ used.att = b /\ used.def = o.def
  <2>1. b \in Battler
    BY <1>1, <1>2, FitIsBattler
  <2> QED
    BY <1>1, <2>1 DEF Pair
<1> HIDE DEF used
<1>4. FitPair(s, used) /\ Ridden(used, used)
  BY <1>1, <1>2, <1>3, RiddenReflexive DEF FitPair
<1>5. FitPair(s, q) /\ Ridden(used, q)
  <2>1. CASE q = used
    BY <1>4, <2>1
  <2>2. ASSUME NEW dmg \in Damages(used.att, used.def, ActiveCard(1 - s), skill), dmg # Missed,
               q \in Riders(s, [used EXCEPT !.def = Hurt(@, dmg)], skill, dmg)
        PROVE  FitPair(s, q) /\ Ridden(used, q)
    <3> DEFINE d == Hurt(used.def, dmg)
               p == [used EXCEPT !.def = d]
    <3>1. dmg \in Nat
      BY <1>1, <2>2, DamagesType
    <3>2. Fit(d, ActiveCard(1 - s)) /\ Touched(used.def, d) /\ d.hp <= used.def.hp
      BY <1>1, <1>3, <3>1, HurtFit
    <3>3. FitPair(s, p) /\ Ridden(used, p)
      <4> HIDE DEF d
      <4>1. LET u == [used EXCEPT !.def = d] IN FitPair(s, u) /\ Ridden(used, u)
        BY <1>4, <3>2, Replaced
      <4> QED
        BY <4>1
    <3>4. q \in Riders(s, p, skill, dmg)
      BY <2>2
    <3> HIDE DEF p, skill
    <3>5. FitPair(s, q) /\ Ridden(p, q)
      BY <1>1, <3>1, <3>3, <3>4, RidersFit
    <3> QED
      BY <1>3, <3>3, <3>5, RiddenTransitive DEF FitPair
  <2>3. \/ q = used
        \/ \E dmg \in Damages(used.att, used.def, ActiveCard(1 - s), skill) :
             dmg # Missed /\ q \in Riders(s, [used EXCEPT !.def = Hurt(@, dmg)], skill, dmg)
    BY DEF UseSkill, used, b
  <2> QED
    BY <2>1, <2>2, <2>3
<1> QED
  BY <1>2, <1>3, <1>5 DEF Moved, Ridden, Touched

LEMMA ExecuteMoveMoves ==
  ASSUME BattleAssumption, CardsOK, NEW s \in Sides, NEW slot,
         Fit(ActiveBattler(s), ActiveCard(s)),
         Fit(ActiveBattler(1 - s), ActiveCard(1 - s)),
         NEW q \in ExecuteMove(s, slot)
  PROVE  Moved(s, ActiveBattler(s), ActiveBattler(1 - s), q)
<1> DEFINE a == ActiveBattler(s)
           d == ActiveBattler(1 - s)
           skill == SkillFor(s, slot)
<1>1. PICK gate \in PreMoveGate(a) :
        \/ q = [att |-> gate.b, def |-> d]
        \/ /\ CanUse(gate.b, slot, skill)
           /\ q \in UseSkill(s, [att |-> gate.b, def |-> d], slot, skill)
  BY DEF ExecuteMove
<1> DEFINE o == [att |-> gate.b, def |-> d]
<1>2. /\ ActiveCard(s) \in Card /\ ActiveCard(1 - s) \in Card
      /\ a \in Battler /\ d \in Battler
  BY FitIsBattler DEF CardsOK, Sides
<1> HIDE DEF a, d
<1>3. /\ Fit(gate.b, ActiveCard(s)) /\ gate.b.rest = a.rest
      /\ a.status \notin {"none", "sleep", "freeze"} => gate.b.status = a.status
  BY <1>2, PreMoveGateFit DEF a
<1>4. gate.b \in Battler
  BY <1>2, <1>3, FitIsBattler
<1>5. FitPair(s, o) /\ o.att = gate.b /\ o.def = d
  BY <1>2, <1>3, <1>4 DEF FitPair, Pair, d
<1>6. Touched(d, d) /\ d.hp <= d.hp /\ a.rest \in [Slots -> 0 .. RestCap]
  BY <1>2 DEF Touched, Battler
<1>7. ASSUME q = o
      PROVE  Moved(s, a, d, q)
  <2>1. q.att = gate.b /\ q.def = d /\ FitPair(s, q)
    BY <1>5, <1>7
  <2>2. \A k \in Slots : ~(q.att.rest[k] < a.rest[k])
    BY <1>3, <1>6, <2>1
  <2> HIDE DEF o
  <2> QED
    BY <1>3, <1>6, <2>1, <2>2 DEF Moved
<1>8. ASSUME CanUse(gate.b, slot, skill), q \in UseSkill(s, o, slot, skill)
      PROVE  Moved(s, a, d, q)
  <2>1. slot \in Slots /\ skill = ActiveCard(s).skills[slot]
    BY <1>8 DEF CanUse, SkillFor
  <2>2. ActiveCard(s).skills[slot] # NoSkill /\ o.att.cooldowns[slot] = 0
    BY <1>5, <1>8, <2>1 DEF CanUse
  <2>3. q \in UseSkill(s, o, slot, ActiveCard(s).skills[slot])
    BY <1>8, <2>1
  <2> HIDE DEF o
  <2>4. Moved(s, o.att, o.def, q)
    BY <1>5, <2>1, <2>2, <2>3, UseSkillMoves
  <2>5. Moved(s, gate.b, d, q)
    BY <1>5, <2>4
  <2> QED
    BY <1>3, <2>5 DEF Moved
<1>9. Moved(s, a, d, q)
  <2> HIDE DEF skill
  <2> QED
    BY <1>1, <1>7, <1>8
<1> QED
  BY <1>9 DEF a, d

-----------------------------------------------------------------------------
(* The invariant and what the actions do to the parties.                   *)

BattleInv ==
  /\ TypeOK
  /\ \A s \in Sides : \A i \in DOMAIN sheet[s] : Fit(party[s][i], sheet[s][i])
  /\ todo # <<>> => ~over /\ phase = "moves"

LEMMA SheetCards ==
  ASSUME BattleAssumption, sheet \in Sheets, NEW s \in Sides
  PROVE  /\ DOMAIN sheet[s] \subseteq Nat /\ 1 \in DOMAIN sheet[s]
         /\ \A i \in DOMAIN sheet[s] : sheet[s][i] \in Card
BY DEF BattleAssumption

(* The two in the field.                                                   *)
LEMMA FieldFit ==
  ASSUME BattleAssumption, BattleInv
  PROVE  /\ CardsOK
         /\ \A s \in Sides : /\ 1 - s \in Sides
                             /\ active[s] \in DOMAIN sheet[s]
                             /\ ActiveBattler(s) = party[s][active[s]]
                             /\ Fit(ActiveBattler(s), ActiveCard(s))
BY SheetCards DEF BattleInv, TypeOK, CardsOK, ActiveCard, ActiveBattler, Sides

(* A switch leaves everyone fit.                                           *)
LEMMA SwitchParty ==
  ASSUME BattleAssumption, BattleInv, NEW s \in Sides, NEW act
  PROVE  /\ SwitchOut(s, act) \in [DOMAIN sheet[s] -> Battler]
         /\ \A i \in DOMAIN sheet[s] : Fit(SwitchOut(s, act)[i], sheet[s][i])
<1> DEFINE team == SwitchOut(s, act)
           b == ActiveBattler(s)
           c == [b EXCEPT !.stages = NoStages]
<1>1. /\ party[s] \in [DOMAIN sheet[s] -> Battler] /\ active[s] \in DOMAIN sheet[s]
      /\ \A i \in DOMAIN sheet[s] : Fit(party[s][i], sheet[s][i]) /\ sheet[s][i] \in Card
      /\ b = party[s][active[s]]
  BY SheetCards, FieldFit DEF BattleInv, TypeOK
<1>2. b \in Battler /\ NoStages \in [Stats -> -6 .. 6]
  BY <1>1 DEF NoStages
<1>3. /\ c \in Battler /\ c.hp = b.hp /\ c.status = b.status
      /\ c.cooldowns = b.cooldowns /\ c.rest = b.rest /\ c.stages = NoStages
  BY <1>2 DEF Battler
<1>4. Fit(c, sheet[s][active[s]])
  <2> HIDE DEF b, c
  <2> QED
    BY <1>1, <1>3, StillFit, FitIsBattler
<1>5. CASE CanSwitch(s, act)
  <2>1. team = [party[s] EXCEPT ![active[s]] = c]
    BY <1>1, <1>5 DEF SwitchOut, ActiveBattler
  <2> HIDE DEF team, b, c
  <2>3. team \in [DOMAIN sheet[s] -> Battler]
    BY <1>1, <1>3, <2>1
  <2>4. \A i \in DOMAIN sheet[s] : team[i] = IF i = active[s] THEN c ELSE party[s][i]
    BY <1>1, <2>1
  <2> QED
    BY <1>1, <1>3, <1>4, <1>5, <2>3, <2>4 DEF team
<1>6. CASE ~CanSwitch(s, act)
  <2>1. team = party[s]
    BY <1>6 DEF SwitchOut
  <2> QED
    BY <1>1, <1>6, <2>1
<1> QED
  BY <1>5, <1>6

(* The start of a turn changes the stages of who leaves and nothing else.  *)
LEMMA BeginParty ==
  ASSUME BattleAssumption, BattleInv, NEW as \in [Sides -> Actions], BeginTurn(as),
         NEW s \in Sides, NEW i \in DOMAIN sheet[s]
  PROVE  /\ party'[s][i].hp = party[s][i].hp
         /\ party'[s][i].status = party[s][i].status
         /\ party'[s][i].rest = party[s][i].rest
         /\ party'[s][i].stages = IF active'[s] # active[s] /\ i = active[s] THEN NoStages
                                 ELSE party[s][i].stages
<1> DEFINE team == party'[s]
           b == ActiveBattler(s)
           c == [b EXCEPT !.stages = NoStages]
           can == CanSwitch(s, as[s])
<1>1. /\ party[s] \in [DOMAIN sheet[s] -> Battler] /\ active[s] \in DOMAIN sheet[s]
      /\ b = party[s][active[s]]
  BY SheetCards, FieldFit DEF BattleInv, TypeOK
<1>2. b \in Battler /\ NoStages \in [Stats -> -6 .. 6]
  BY <1>1 DEF NoStages
<1>3. /\ c \in Battler /\ c.hp = b.hp /\ c.status = b.status
      /\ c.rest = b.rest /\ c.stages = NoStages
  BY <1>2 DEF Battler
<1>4. team = IF can THEN [party[s] EXCEPT ![active[s]] = c] ELSE party[s]
  BY <1>1 DEF BeginTurn, SwitchOut, ActiveBattler
<1> HIDE DEF b, c, can, team
<1>5. CASE can
  <2>1. team[i] = IF i = active[s] THEN c ELSE party[s][i]
    BY <1>1, <1>4, <1>5
  <2>2. active'[s] = as[s].to /\ active'[s] # active[s]
    BY <1>5 DEF BeginTurn, CanSwitch, can
  <2> QED
    BY <1>1, <1>3, <1>5, <2>1, <2>2 DEF team
<1>6. CASE ~can
  <2>1. active'[s] = active[s]
    BY <1>6 DEF BeginTurn, can
  <2> QED
    BY <1>1, <1>4, <1>6, <2>1 DEF team
<1> QED
  BY <1>5, <1>6

(* A move changes the two battlers in the field, as Moved says.            *)
LEMMA MoveParty ==
  ASSUME BattleAssumption, BattleInv, Move
  PROVE  LET s == Head(todo) IN
         /\ s \in Sides /\ todo # <<>> /\ ~Fainted(ActiveBattler(s))
         /\ DOMAIN party' = Sides
         /\ \E q : /\ Moved(s, ActiveBattler(s), ActiveBattler(1 - s), q)
                   /\ \A t \in Sides :
                        /\ party'[t] \in [DOMAIN sheet[t] -> Battler]
                        /\ \A i \in DOMAIN sheet[t] : party'[t][i] =
                             IF i # active[t] THEN party[t][i]
                             ELSE IF t = s THEN q.att ELSE q.def
<1> DEFINE s == Head(todo)
<1>1. /\ s \in Sides /\ 1 - s \in Sides /\ 1 - s # s /\ todo # <<>> /\ ~Idle(s)
      /\ Sides = {s, 1 - s}
  BY DEF Move, BattleInv, TypeOK, Sides
<1>2. PICK q \in ExecuteMove(s, acts[s].slot) :
        party' = [party EXCEPT ![s][active[s]] = q.att, ![1 - s][active[1 - s]] = q.def]
  BY DEF Move
<1>3. Moved(s, ActiveBattler(s), ActiveBattler(1 - s), q)
  <2> HIDE DEF s
  <2> QED
    BY <1>1, <1>2, FieldFit, ExecuteMoveMoves
<1>4. q.att \in Battler /\ q.def \in Battler
  BY <1>3 DEF Moved, FitPair, Pair
<1> DEFINE mine == [party[s] EXCEPT ![active[s]] = q.att]
           theirs == [party[1 - s] EXCEPT ![active[1 - s]] = q.def]
<1> HIDE DEF s
<1>5. DOMAIN party = Sides
  BY DEF BattleInv, TypeOK
<1>6. \A t \in Sides : /\ party[t] \in [DOMAIN sheet[t] -> Battler]
                       /\ active[t] \in DOMAIN sheet[t]
  BY DEF BattleInv, TypeOK
<1>7. DOMAIN party' = Sides /\ party'[s] = mine /\ party'[1 - s] = theirs
  BY <1>1, <1>2, <1>5
<1>8. /\ mine \in [DOMAIN sheet[s] -> Battler]
      /\ \A i \in DOMAIN sheet[s] : mine[i] = IF i # active[s] THEN party[s][i] ELSE q.att
  BY <1>1, <1>4, <1>6
<1>9. /\ theirs \in [DOMAIN sheet[1 - s] -> Battler]
      /\ \A i \in DOMAIN sheet[1 - s] :
           theirs[i] = IF i # active[1 - s] THEN party[1 - s][i] ELSE q.def
  BY <1>1, <1>4, <1>6
<1> HIDE DEF mine, theirs
<1>10. \A t \in Sides :
         /\ party'[t] \in [DOMAIN sheet[t] -> Battler]
         /\ \A i \in DOMAIN sheet[t] : party'[t][i] =
              IF i # active[t] THEN party[t][i] ELSE IF t = s THEN q.att ELSE q.def
  BY <1>1, <1>7, <1>8, <1>9
<1> QED
  BY <1>1, <1>3, <1>7, <1>10 DEF Idle, s

(* The end of a turn: residuals, cooldowns and the history.                *)
LEMMA TickFit ==
  ASSUME NEW b, NEW card \in Card, Fit(b, card)
  PROVE  LET c == EndOfTurnTick(b, card) IN
         /\ Fit(c, card)
         /\ c.status = b.status /\ c.cooldowns = b.cooldowns /\ c.rest = b.rest
         /\ Fainted(b) => Fainted(c)
<1> DEFINE heal == IF card.ability = "regenerator" THEN AtLeast(card.maxHP \div 16, 1) ELSE 0
           sum == b.hp - Residual(b, card) + heal
           hp == AtLeast(AtMost(sum, card.maxHP), 0)
           ctr == IF b.status = "toxic" THEN b.ctr + 1 ELSE b.ctr
           c == EndOfTurnTick(b, card)
<1>1. b \in Battler /\ b.hp \in Nat /\ card.maxHP \in Nat /\ b.ctr \in Int /\ b.hp <= card.maxHP
  BY FitIsBattler DEF Battler
<1>2. ctr \in Int /\ sum \in Int
  <2>1. Residual(b, card) \in Int
    <3>1. (card.maxHP * b.ctr) \div 16 \in Int
      BY <1>1
    <3> QED
      BY <1>1, <3>1 DEF Residual, AtLeast
  <2>2. heal \in Int
    BY <1>1 DEF AtLeast
  <2> QED
    BY <1>1, <2>1, <2>2
<1>3. hp \in Nat /\ hp <= card.maxHP
  <2> HIDE DEF sum
  <2> QED
    BY <1>1, <1>2 DEF AtLeast, AtMost
<1>4. CASE Fainted(b)
  <2>1. c = b
    BY <1>4 DEF EndOfTurnTick
  <2> QED
    BY <1>4, <2>1
<1>5. CASE ~Fainted(b)
  <2>1. c = [b EXCEPT !.hp = hp, !.ctr = ctr]
    BY <1>5 DEF EndOfTurnTick
  <2> HIDE DEF hp, ctr, c
  <2>2. /\ c \in Battler /\ c.hp = hp /\ c.status = b.status
        /\ c.cooldowns = b.cooldowns /\ c.rest = b.rest
    BY <1>1, <1>2, <1>3, <2>1 DEF Battler
  <2>3. Fit(c, card)
    BY <1>3, <2>2, StillFit
  <2> QED
    BY <1>5, <2>2, <2>3 DEF c
<1> QED
  BY <1>4, <1>5

LEMMA CoolFit ==
  ASSUME RestCap \in Nat, NEW b, NEW card \in Card, Fit(b, card),
         NEW c, c = TickCooldowns(b)
  PROVE  /\ Fit(Rested(c), card)
         /\ Rested(c).hp = b.hp /\ Rested(c).status = b.status
         /\ Rested(c).stages = b.stages
         /\ \A k \in Slots : Rested(c).rest[k] >= b.rest[k]
<1> DEFINE cool == [k \in Slots |-> AtLeast(b.cooldowns[k] - 1, 0)]
           rests == [k \in Slots |-> AtMost(b.rest[k] + 1, RestCap)]
           d == Rested(c)
<1>1. /\ b \in Battler /\ b.cooldowns \in [Slots -> Nat] /\ b.rest \in [Slots -> 0 .. RestCap]
      /\ b.hp <= card.maxHP
  BY FitIsBattler DEF Battler
<1>2. /\ cool \in [Slots -> Nat] /\ rests \in [Slots -> 0 .. RestCap]
      /\ \A k \in Slots : /\ cool[k] <= b.cooldowns[k] /\ b.cooldowns[k] <= cool[k] + 1
                          /\ rests[k] >= b.rest[k]
                          /\ rests[k] = RestCap \/ rests[k] = b.rest[k] + 1
  BY <1>1 DEF AtLeast, AtMost
<1>3. /\ c \in Battler /\ c.hp = b.hp /\ c.status = b.status /\ c.stages = b.stages
      /\ c.rest = b.rest /\ c.cooldowns = cool
  <2>1. c = [b EXCEPT !.cooldowns = cool]
    BY DEF TickCooldowns
  <2> HIDE DEF cool
  <2> QED
    BY <1>1, <1>2, <2>1 DEF Battler
<1>4. /\ d \in Battler /\ d.hp = b.hp /\ d.status = b.status /\ d.stages = b.stages
      /\ d.rest = rests /\ d.cooldowns = cool
  <2>1. d = [c EXCEPT !.rest = rests]
    BY <1>3 DEF Rested
  <2> HIDE DEF d, rests, cool
  <2> QED
    BY <1>2, <1>3, <2>1 DEF Battler
<1> HIDE DEF d, rests, cool
<1>5. /\ d.cooldowns \in [Slots -> Nat]
      /\ \A k \in Slots : d.cooldowns[k] <= b.cooldowns[k] /\ b.cooldowns[k] <= d.cooldowns[k] + 1
  BY <1>1, <1>2, <1>4
<1>6. BattlerOK(d, card)
  <2>1. \A k \in Slots : card.skills[k] # NoSkill => card.skills[k].cooldown \in Nat
    BY DEF Card, Skill
  <2> QED
    BY <1>1, <1>4, <1>5, <2>1 DEF Fit, BattlerOK
<1>7. ASSUME NEW k \in Slots, card.skills[k] # NoSkill
      PROVE  d.rest[k] + d.cooldowns[k] >= AtMost(card.skills[k].cooldown, RestCap)
  <2> DEFINE cd == AtMost(card.skills[k].cooldown, RestCap)
  <2>1. cd \in Nat /\ cd <= RestCap
    BY <1>7 DEF AtMost, Card, Skill
  <2>2. b.rest[k] + b.cooldowns[k] >= cd
    BY <1>7 DEF Fit
  <2> HIDE DEF cd
  <2>3. d.rest[k] + d.cooldowns[k] >= cd
    BY <1>1, <1>2, <1>4, <1>5, <2>1, <2>2
  <2> QED
    BY <2>3 DEF cd
<1>8. Fit(d, card)
  BY <1>6, <1>7 DEF Fit
<1> QED
  BY <1>2, <1>4, <1>8 DEF d

LEMMA FinishParty ==
  ASSUME BattleAssumption, BattleInv, FinishTurn, NEW s \in Sides
  PROVE  /\ DOMAIN party' = Sides
         /\ party'[s] \in [DOMAIN sheet[s] -> Battler]
         /\ \A i \in DOMAIN sheet[s] :
              /\ Fit(party'[s][i], sheet[s][i])
              /\ party'[s][i].status = party[s][i].status
              /\ Fainted(party[s][i]) => Fainted(party'[s][i])
              /\ over \/ i # active[s] => party'[s][i].hp = party[s][i].hp
              /\ i # active[s] => party'[s][i].stages = party[s][i].stages
              /\ \A k \in Slots : party'[s][i].rest[k] >= party[s][i].rest[k]
<1>1. /\ party' = [t \in Sides |-> [i \in DOMAIN party[t] |-> Ticked(t, i)]]
      /\ DOMAIN party[s] = DOMAIN sheet[s]
  BY DEF FinishTurn, BattleInv, TypeOK
<1>2. /\ DOMAIN party' = Sides
      /\ party'[s] = [i \in DOMAIN sheet[s] |-> Ticked(s, i)]
  BY <1>1
<1>3. ASSUME NEW i \in DOMAIN sheet[s]
      PROVE  LET b == party[s][i]
                 c == Ticked(s, i)
             IN  /\ Fit(c, sheet[s][i]) /\ c \in Battler
                 /\ c.status = b.status
                 /\ Fainted(b) => Fainted(c)
                 /\ over \/ i # active[s] => c.hp = b.hp
                 /\ i # active[s] => c.stages = b.stages
                 /\ \A k \in Slots : c.rest[k] >= b.rest[k]
  <2> DEFINE b == party[s][i]
             card == sheet[s][i]
             residual == IF over THEN b ELSE EndOfTurnTick(b, card)
             c == Ticked(s, i)
  <2>1. Fit(b, card) /\ card \in Card /\ b \in Battler /\ RestCap \in Nat
    BY SheetCards, FitIsBattler DEF BattleInv, TypeOK, BattleAssumption
  <2> HIDE DEF b, card
  <2>2. /\ Fit(residual, card) /\ residual.status = b.status /\ residual.rest = b.rest
        /\ Fainted(b) => Fainted(residual)
        /\ over => residual.hp = b.hp
    BY <2>1, TickFit
  <2> HIDE DEF residual
  <2>3. c = IF i = active[s] THEN Rested(TickCooldowns(residual)) ELSE b
    BY DEF Ticked, b, card, residual
  <2> HIDE DEF c
  <2>4. CASE i = active[s]
    <3>1. c = Rested(TickCooldowns(residual))
      BY <2>3, <2>4
    <3>2. /\ Fit(c, card) /\ c.hp = residual.hp /\ c.status = residual.status
          /\ \A k \in Slots : c.rest[k] >= residual.rest[k]
      BY <2>1, <2>2, <3>1, CoolFit
    <3>3. c \in Battler
      BY <2>1, <3>2, FitIsBattler
    <3> QED
      BY <2>2, <2>4, <3>2, <3>3 DEF Fainted, b, card, c
  <2>5. CASE i # active[s]
    <3>1. c = b
      BY <2>3, <2>5
    <3>2. \A k \in Slots : c.rest[k] >= b.rest[k]
      BY <2>1, <3>1 DEF Battler
    <3> QED
      BY <2>1, <2>5, <3>1, <3>2 DEF Fainted, b, card, c
  <2> QED
    BY <2>4, <2>5
<1> QED
  BY <1>2, <1>3

(* A battle begins within the rules.                                       *)
LEMMA InitInv ==
  ASSUME BattleAssumption, Init
  PROVE  BattleInv
<1>1. ASSUME NEW card \in Card
      PROVE  Fit(NewBattler(card), card)
  <2> DEFINE hp == IF card.hp <= 0 \/ card.hp > card.maxHP THEN card.maxHP ELSE card.hp
             cool == [k \in Slots |-> 0]
             rests == [k \in Slots |-> RestCap]
             b == NewBattler(card)
  <2>1. /\ hp \in Nat /\ hp <= card.maxHP /\ card.status \in Statuses
        /\ cool \in [Slots -> Nat] /\ rests \in [Slots -> 0 .. RestCap]
        /\ NoStages \in [Stats -> -6 .. 6]
    BY DEF Card, BattleAssumption, NoStages
  <2>2. b = [hp |-> hp, status |-> card.status, ctr |-> 0, stages |-> NoStages,
             cooldowns |-> cool, rest |-> rests]
    BY DEF NewBattler
  <2>3. \A k \in Slots : cool[k] = 0 /\ rests[k] = RestCap
    OBVIOUS
  <2> HIDE DEF b, hp, cool, rests
  <2>4. b \in Battler /\ b.hp = hp /\ b.cooldowns = cool /\ b.rest = rests
    BY <2>1, <2>2 DEF Battler
  <2>5. BattlerOK(b, card)
    BY <2>1, <2>3, <2>4 DEF BattlerOK
  <2>6. \A k \in Slots : card.skills[k] # NoSkill =>
          b.rest[k] + b.cooldowns[k] >= AtMost(card.skills[k].cooldown, RestCap)
    <3>1. RestCap \in Nat /\ \A k \in Slots : card.skills[k] # NoSkill => card.skills[k].cooldown \in Nat
      BY DEF Card, Skill, BattleAssumption
    <3> QED
      BY <2>3, <2>4, <3>1 DEF AtMost
  <2> QED
    BY <2>5, <2>6 DEF Fit, b
<1>2. \A s \in Sides : /\ DOMAIN sheet[s] \subseteq Nat /\ 1 \in DOMAIN sheet[s]
                       /\ \A i \in DOMAIN sheet[s] : sheet[s][i] \in Card
  BY SheetCards DEF Init
<1>3. /\ DOMAIN party = Sides
      /\ \A s \in Sides : party[s] = [i \in DOMAIN sheet[s] |-> NewBattler(sheet[s][i])]
  BY DEF Init
<1>4. \A s \in Sides : \A i \in DOMAIN sheet[s] :
        /\ Fit(party[s][i], sheet[s][i])
        /\ BattlerOK(party[s][i], sheet[s][i])
        /\ party[s][i] \in Battler
  BY <1>1, <1>2, <1>3, FitIsBattler DEF Fit
<1>5. \A s \in Sides : party[s] \in [DOMAIN sheet[s] -> Battler]
  BY <1>3, <1>4
<1>6. /\ sheet \in Sheets /\ active \in [Sides -> Nat]
      /\ \A s \in Sides : active[s] \in DOMAIN sheet[s]
      /\ phase \in {"idle", "moves"} /\ todo = <<>> /\ over \in BOOLEAN /\ winner \in {-1, 0, 1}
      /\ acts \in [Sides -> Actions \cup {[kind |-> "none"]}]
  BY <1>2 DEF Init, NoActs
<1> QED
  BY <1>3, <1>4, <1>5, <1>6 DEF BattleInv, TypeOK

(* What the invariant says beside the parties.                             *)
FieldsOK ==
  /\ active \in [Sides -> Nat] /\ \A s \in Sides : active[s] \in DOMAIN sheet[s]
  /\ phase \in {"idle", "moves"}
  /\ todo \in {<<>>, <<0>>, <<1>>, <<0, 1>>, <<1, 0>>}
  /\ over \in BOOLEAN /\ winner \in {-1, 0, 1}
  /\ acts \in [Sides -> Actions \cup {[kind |-> "none"]}]
  /\ todo # <<>> => ~over /\ phase = "moves"

LEMMA PartiesInv ==
  ASSUME BattleAssumption, BattleInv, UNCHANGED sheet, DOMAIN party' = Sides,
         \A s \in Sides : /\ party'[s] \in [DOMAIN sheet[s] -> Battler]
                          /\ \A i \in DOMAIN sheet[s] : Fit(party'[s][i], sheet[s][i]),
         FieldsOK'
  PROVE  BattleInv'
BY DEF BattleInv, TypeOK, Fit, FieldsOK

LEMMA BeginInv ==
  ASSUME BattleAssumption, BattleInv, NEW as \in [Sides -> Actions], BeginTurn(as)
  PROVE  BattleInv'
<1>1. /\ DOMAIN party' = Sides
      /\ \A s \in Sides : /\ party'[s] \in [DOMAIN sheet[s] -> Battler]
                          /\ \A i \in DOMAIN sheet[s] : Fit(party'[s][i], sheet[s][i])
  <2>1. party' = [s \in Sides |-> SwitchOut(s, as[s])]
    BY DEF BeginTurn
  <2> QED
    BY <2>1, SwitchParty
<1>2. active' \in [Sides -> Nat] /\ \A s \in Sides : active'[s] \in DOMAIN sheet[s]
  <2>1. active' = [s \in Sides |-> IF CanSwitch(s, as[s]) THEN as[s].to ELSE active[s]]
    BY DEF BeginTurn
  <2>2. \A s \in Sides : /\ DOMAIN party[s] = DOMAIN sheet[s] /\ DOMAIN sheet[s] \subseteq Nat
                         /\ active[s] \in DOMAIN sheet[s]
    BY SheetCards DEF BattleInv, TypeOK
  <2>3. \A s \in Sides : CanSwitch(s, as[s]) => as[s].to \in DOMAIN sheet[s]
    BY <2>2 DEF CanSwitch
  <2> QED
    BY <2>1, <2>2, <2>3
<1>3. /\ todo' \in {<<0, 1>>, <<1, 0>>} /\ phase' = "moves" /\ acts' = as
      /\ UNCHANGED <<sheet, over, winner>> /\ ~over
  <2>1. PICK first \in Sides : todo' = <<first, 1 - first>>
    BY DEF BeginTurn
  <2> QED
    BY <2>1 DEF BeginTurn, Sides
<1>4. over \in BOOLEAN /\ winner \in {-1, 0, 1}
  BY DEF BattleInv, TypeOK
<1> QED
  BY <1>1, <1>2, <1>3, <1>4, PartiesInv DEF FieldsOK

(* checkVictory gives the verdict on the parties after a step.             *)
LEMMA Verdict ==
  ASSUME over \in BOOLEAN, winner \in {-1, 0, 1}, CheckVictory
  PROVE  /\ over' = (over \/ ~HasUsable(party'[0]) \/ ~HasUsable(party'[1]))
         /\ winner' = IF HasUsable(party'[0]) THEN IF HasUsable(party'[1]) THEN winner ELSE 0
                      ELSE IF HasUsable(party'[1]) THEN 1 ELSE -1
         /\ over' \in BOOLEAN /\ winner' \in {-1, 0, 1}
BY DEF CheckVictory

(* The end of a queue of sides.                                            *)
LEMMA Tails ==
  /\ Tail(<<0>>) = <<>> /\ Tail(<<1>>) = <<>>
  /\ Tail(<<0, 1>>) = <<1>> /\ Tail(<<1, 0>>) = <<0>>
OBVIOUS

LEMMA MoveInv ==
  ASSUME BattleAssumption, BattleInv, Move
  PROVE  BattleInv'
<1>1. /\ DOMAIN party' = Sides
      /\ \A s \in Sides : /\ party'[s] \in [DOMAIN sheet[s] -> Battler]
                          /\ \A i \in DOMAIN sheet[s] : Fit(party'[s][i], sheet[s][i])
  <2> DEFINE s == Head(todo)
  <2>1. s \in Sides /\ Sides = {s, 1 - s} /\ DOMAIN party' = Sides
    BY MoveParty DEF Sides
  <2>2. PICK q : /\ Moved(s, ActiveBattler(s), ActiveBattler(1 - s), q)
                 /\ \A t \in Sides :
                      /\ party'[t] \in [DOMAIN sheet[t] -> Battler]
                      /\ \A i \in DOMAIN sheet[t] : party'[t][i] =
                           IF i # active[t] THEN party[t][i] ELSE IF t = s THEN q.att ELSE q.def
    BY MoveParty
  <2> HIDE DEF s
  <2>3. Fit(q.att, ActiveCard(s)) /\ Fit(q.def, ActiveCard(1 - s))
    BY <2>2 DEF Moved, FitPair
  <2>4. \A t \in Sides : \A i \in DOMAIN sheet[t] :
          Fit(party[t][i], sheet[t][i]) /\ ActiveCard(t) = sheet[t][active[t]]
    BY DEF BattleInv, ActiveCard
  <2>5. ASSUME NEW t \in Sides, NEW i \in DOMAIN sheet[t]
        PROVE  Fit(party'[t][i], sheet[t][i])
    <3>1. CASE i # active[t]
      BY <2>2, <2>4, <3>1
    <3>2. CASE i = active[t] /\ t = s
      BY <2>2, <2>3, <2>4, <3>2
    <3>3. CASE i = active[t] /\ t # s
      <4>1. t = 1 - s
        BY <2>1, <3>3
      <4>2. party'[t][i] = q.def
        BY <2>2, <3>3
      <4>3. sheet[t][i] = ActiveCard(1 - s)
        BY <2>4, <3>3, <4>1
      <4> QED
        BY <2>3, <4>2, <4>3
    <3> QED
      BY <3>1, <3>2, <3>3
  <2> QED
    BY <2>1, <2>2, <2>5
<1>2. /\ UNCHANGED <<sheet, active, phase, acts>> /\ CheckVictory
      /\ todo' = IF over' THEN <<>> ELSE Tail(todo)
      /\ todo # <<>>
  BY DEF Move
<1>3. /\ over \in BOOLEAN /\ winner \in {-1, 0, 1} /\ phase = "moves"
      /\ todo \in {<<0>>, <<1>>, <<0, 1>>, <<1, 0>>}
      /\ active \in [Sides -> Nat] /\ \A s \in Sides : active[s] \in DOMAIN sheet[s]
      /\ acts \in [Sides -> Actions \cup {[kind |-> "none"]}]
  BY <1>2 DEF BattleInv, TypeOK
<1>4. over' \in BOOLEAN /\ winner' \in {-1, 0, 1}
  BY <1>2, <1>3, Verdict
<1>5. todo' \in {<<>>, <<0>>, <<1>>} /\ (todo' # <<>> => ~over')
  <2>1. Tail(todo) \in {<<>>, <<0>>, <<1>>}
    BY <1>3, Tails
  <2> QED
    BY <1>2, <2>1
<1> QED
  BY <1>1, <1>2, <1>3, <1>4, <1>5, PartiesInv DEF FieldsOK

LEMMA SkipInv ==
  ASSUME BattleAssumption, BattleInv, SkipMove
  PROVE  BattleInv'
<1>1. todo # <<>> /\ todo' = Tail(todo) /\ UNCHANGED <<sheet, party, active, phase, acts, over, winner>>
  BY DEF SkipMove
<1>2. todo' \in {<<>>, <<0>>, <<1>>}
  <2>1. todo \in {<<0>>, <<1>>, <<0, 1>>, <<1, 0>>}
    BY <1>1 DEF BattleInv, TypeOK
  <2> QED
    BY <1>1, <2>1, Tails
<1> QED
  BY <1>1, <1>2 DEF BattleInv, TypeOK

LEMMA FinishInv ==
  ASSUME BattleAssumption, BattleInv, FinishTurn
  PROVE  BattleInv'
<1>1. /\ DOMAIN party' = Sides
      /\ \A s \in Sides : /\ party'[s] \in [DOMAIN sheet[s] -> Battler]
                          /\ \A i \in DOMAIN sheet[s] : Fit(party'[s][i], sheet[s][i])
  BY FinishParty DEF Sides
<1>2. /\ UNCHANGED <<sheet, active, todo>> /\ phase' = "idle" /\ acts' = NoActs /\ todo = <<>>
      /\ CheckVictory \/ UNCHANGED <<over, winner>>
  BY DEF FinishTurn
<1>3. /\ over \in BOOLEAN /\ winner \in {-1, 0, 1}
      /\ active \in [Sides -> Nat] /\ \A s \in Sides : active[s] \in DOMAIN sheet[s]
  BY DEF BattleInv, TypeOK
<1>4. over' \in BOOLEAN /\ winner' \in {-1, 0, 1}
  BY <1>2, <1>3, Verdict
<1>5. acts' \in [Sides -> Actions \cup {[kind |-> "none"]}]
  BY <1>2 DEF NoActs
<1> QED
  BY <1>1, <1>2, <1>3, <1>4, <1>5, PartiesInv DEF FieldsOK

LEMMA NextInv ==
  ASSUME BattleAssumption, BattleInv, [Next]_vars
  PROVE  BattleInv'
<1>1. CASE \E as \in [Sides -> Actions] : BeginTurn(as)
  BY <1>1, BeginInv
<1>2. CASE UNCHANGED vars
  BY <1>2 DEF vars, BattleInv, TypeOK
<1> QED
  BY <1>1, <1>2, SkipInv, MoveInv, FinishInv DEF Next

-----------------------------------------------------------------------------
(* Type correctness, with HP between zero and the maximum, stages within   *)
(* -6 and 6, and cooldowns of real skills, whatever is played.             *)
THEOREM TypeCorrect == Spec => []TypeOK
<1>1. Init => BattleInv
  BY InitInv, BattleAssumption
<1>2. BattleInv /\ [Next]_vars => BattleInv'
  BY NextInv, BattleAssumption
<1>3. BattleInv => TypeOK
  BY DEF BattleInv
<1> QED
  BY <1>1, <1>2, <1>3, PTL DEF Spec

(* The inductive invariant holds in every state of every battle.           *)
THEOREM Invariant == Spec => []BattleInv
<1>1. Init => BattleInv
  BY InitInv, BattleAssumption
<1>2. BattleInv /\ [Next]_vars => BattleInv'
  BY NextInv, BattleAssumption
<1> QED
  BY <1>1, <1>2, PTL DEF Spec

-----------------------------------------------------------------------------
(* Who is out.                                                             *)

LEMMA UsableSame ==
  ASSUME BattleInv, NEW s \in Sides, DOMAIN party'[s] = DOMAIN party[s],
         \A i \in DOMAIN party[s] : Fainted(party'[s][i]) <=> Fainted(party[s][i])
  PROVE  HasUsable(party'[s]) <=> HasUsable(party[s])
BY DEF HasUsable

LEMMA SetsOfSides ==
  ASSUME NEW T, T \subseteq {0, 1}
  PROVE  /\ T = {0, 1} <=> (0 \in T /\ 1 \in T)
         /\ T = {} <=> (0 \notin T /\ 1 \notin T)
         /\ T = {0} <=> (0 \in T /\ 1 \notin T)
         /\ T = {1} <=> (0 \notin T /\ 1 \in T)
<1>1. CASE 0 \in T /\ 1 \in T
  <2>1. T = {0, 1}
    BY <1>1
  <2> QED
    BY <1>1, <2>1
<1>2. CASE 0 \in T /\ 1 \notin T
  <2>1. T = {0}
    BY <1>2
  <2> QED
    BY <1>2, <2>1
<1>3. CASE 0 \notin T /\ 1 \in T
  <2>1. T = {1}
    BY <1>3
  <2> QED
    BY <1>3, <2>1
<1>4. CASE 0 \notin T /\ 1 \notin T
  <2>1. T = {}
    BY <1>4
  <2> QED
    BY <1>4, <2>1
<1> QED
  BY <1>1, <1>2, <1>3, <1>4

(* VictoryIffOut without sets.                                             *)
LEMMA VictoryForm ==
  VictoryIffOut <=>
    /\ over <=> ~(HasUsable(party[0]) /\ HasUsable(party[1]))
    /\ winner = -1 <=> (HasUsable(party[0]) <=> HasUsable(party[1]))
    /\ winner = 0 => HasUsable(party[0]) /\ ~HasUsable(party[1])
    /\ winner = 1 => HasUsable(party[1]) /\ ~HasUsable(party[0])
<1> DEFINE standing == {s \in Sides : HasUsable(party[s])}
<1>1. /\ 0 \in standing <=> HasUsable(party[0])
      /\ 1 \in standing <=> HasUsable(party[1])
      /\ standing \subseteq {0, 1} /\ Sides = {0, 1}
  BY DEF Sides
<1>2. VictoryIffOut <=> /\ over <=> standing # Sides
                        /\ winner = -1 <=> standing \in {{}, Sides}
                        /\ \A s \in Sides : winner = s => standing = {s}
  BY DEF VictoryIffOut
<1> HIDE DEF standing
<1>3. /\ standing = Sides <=> (0 \in standing /\ 1 \in standing)
      /\ standing = {} <=> (0 \notin standing /\ 1 \notin standing)
      /\ standing = {0} <=> (0 \in standing /\ 1 \notin standing)
      /\ standing = {1} <=> (0 \notin standing /\ 1 \in standing)
  BY <1>1, SetsOfSides
<1> QED
  BY <1>1, <1>2, <1>3

LEMMA InitVictory ==
  ASSUME BattleAssumption, Init
  PROVE  VictoryIffOut
<1>1. \A s \in Sides : HasUsable(party[s])
  <2> SUFFICES ASSUME NEW s \in Sides PROVE HasUsable(party[s])
    OBVIOUS
  <2>1. 1 \in DOMAIN sheet[s] /\ sheet[s][1] \in Card
    BY SheetCards DEF Init
  <2>2. 1 \in DOMAIN party[s] /\ party[s][1] = NewBattler(sheet[s][1])
    BY <2>1 DEF Init
  <2>3. NewBattler(sheet[s][1]).hp \in Nat \ {0}
    BY <2>1 DEF NewBattler, Card
  <2> QED
    BY <2>2, <2>3 DEF HasUsable, Fainted
<1>2. over = FALSE /\ winner = -1
  BY DEF Init
<1> QED
  BY <1>1, <1>2, VictoryForm DEF Sides

LEMMA NextVictory ==
  ASSUME BattleAssumption, BattleInv, VictoryIffOut, [Next]_vars
  PROVE  VictoryIffOut'
<1> DEFINE Even == \A s \in Sides : HasUsable(party'[s]) <=> HasUsable(party[s])
<1>1. over \in BOOLEAN /\ winner \in {-1, 0, 1}
  BY DEF BattleInv, TypeOK
<1>2. \A s \in Sides : DOMAIN party[s] = DOMAIN sheet[s]
  BY DEF BattleInv, TypeOK
<1>3. ASSUME Even, UNCHANGED <<over, winner>>
      PROVE  VictoryIffOut'
  BY <1>3, VictoryForm DEF VictoryIffOut, Sides
<1>4. ASSUME CheckVictory, ~over
      PROVE  VictoryIffOut'
  <2>1. winner = -1
    BY <1>4, VictoryForm
  <2>2. /\ over' <=> ~(HasUsable(party'[0]) /\ HasUsable(party'[1]))
        /\ winner' = IF HasUsable(party'[0]) THEN IF HasUsable(party'[1]) THEN -1 ELSE 0
                     ELSE IF HasUsable(party'[1]) THEN 1 ELSE -1
    BY <1>1, <1>4, <2>1, Verdict
  <2> DEFINE a == HasUsable(party'[0])
             b == HasUsable(party'[1])
             standing == {s \in Sides : HasUsable(party'[s])}
  <2>3. a \in BOOLEAN /\ b \in BOOLEAN
    BY DEF HasUsable
  <2>4. /\ 0 \in standing <=> a
        /\ 1 \in standing <=> b
        /\ standing \subseteq {0, 1} /\ Sides = {0, 1}
    BY DEF Sides
  <2>5. VictoryIffOut' <=> /\ over' <=> standing # Sides
                           /\ winner' = -1 <=> standing \in {{}, Sides}
                           /\ \A s \in Sides : winner' = s => standing = {s}
    BY DEF VictoryIffOut, Sides
  <2> HIDE DEF a, b, standing
  <2>6. /\ standing = Sides <=> (a /\ b)
        /\ standing = {} <=> (~a /\ ~b)
        /\ standing = {0} <=> (a /\ ~b)
        /\ standing = {1} <=> (~a /\ b)
    BY <2>4, SetsOfSides
  <2>7. over' <=> ~(a /\ b)
    BY <2>2 DEF a, b
  <2>8. winner' = IF a THEN IF b THEN -1 ELSE 0 ELSE IF b THEN 1 ELSE -1
    BY <2>2 DEF a, b
  <2> QED
    BY <2>3, <2>4, <2>5, <2>6, <2>7, <2>8
<1>5. CASE \E as \in [Sides -> Actions] : BeginTurn(as)
  <2>1. PICK as \in [Sides -> Actions] : BeginTurn(as)
    BY <1>5
  <2>2. party' = [s \in Sides |-> SwitchOut(s, as[s])] /\ UNCHANGED <<over, winner>>
    BY <2>1 DEF BeginTurn
  <2>3. Even
    <3> SUFFICES ASSUME NEW s \in Sides PROVE HasUsable(party'[s]) <=> HasUsable(party[s])
      OBVIOUS
    <3>1. \A i \in DOMAIN sheet[s] : party'[s][i].hp = party[s][i].hp
      BY <2>1, BeginParty
    <3>2. party'[s] \in [DOMAIN sheet[s] -> Battler]
      BY <2>2, SwitchParty
    <3> QED
      BY <1>2, <3>1, <3>2, UsableSame DEF Fainted
  <2> QED
    BY <1>3, <2>2, <2>3
<1>6. CASE SkipMove \/ UNCHANGED vars
  BY <1>3, <1>6 DEF SkipMove, vars
<1>7. CASE Move
  <2>1. CheckVictory /\ todo # <<>>
    BY <1>7 DEF Move
  <2> QED
    BY <1>4, <2>1 DEF BattleInv
<1>8. CASE FinishTurn
  <2>1. CASE over
    <3>1. UNCHANGED <<over, winner>>
      BY <1>8, <2>1 DEF FinishTurn
    <3>2. Even
      BY <1>2, <1>8, <2>1, FinishParty, UsableSame DEF Fainted
    <3> QED
      BY <1>3, <3>1, <3>2
  <2>2. CASE ~over
    <3>1. CheckVictory
      BY <1>8, <2>2 DEF FinishTurn
    <3> QED
      BY <1>4, <2>2, <3>1
  <2> QED
    BY <1>1, <2>1, <2>2
<1> QED
  BY <1>5, <1>6, <1>7, <1>8 DEF Next

(* checkVictory finds every end there is: the match is over exactly when a *)
(* side has nobody left, and the winner is the side that has.              *)
THEOREM OverWhenOut == Spec => []VictoryIffOut
<1>1. Init => VictoryIffOut
  BY InitVictory, BattleAssumption
<1>2. BattleInv /\ VictoryIffOut /\ [Next]_vars => VictoryIffOut'
  BY NextVictory, BattleAssumption
<1> QED
  BY <1>1, <1>2, Invariant, PTL DEF Spec

-----------------------------------------------------------------------------
(* What a step may do to a battler.                                        *)

BattlerKept(s, i) ==
  /\ Fainted(party[s][i]) => Fainted(party'[s][i])
  /\ party[s][i].status \notin {"none", party'[s][i].status} =>
       /\ party[s][i].status \in {"sleep", "freeze"}
       /\ i = active[s] /\ todo # <<>> /\ s = Head(todo)
  /\ \A k \in Slots : party'[s][i].rest[k] < party[s][i].rest[k] =>
       party[s][i].rest[k] >= AtMost(sheet[s][i].skills[k].cooldown, RestCap)

LEMMA SameBattler ==
  ASSUME BattleAssumption, BattleInv, NEW s \in Sides, NEW i \in DOMAIN sheet[s],
         Fainted(party[s][i]) => Fainted(party'[s][i]),
         party'[s][i].status = party[s][i].status,
         \A k \in Slots : party'[s][i].rest[k] \in Int
                            /\ party'[s][i].rest[k] >= party[s][i].rest[k]
  PROVE  BattlerKept(s, i)
<1>1. party[s][i].rest \in [Slots -> 0 .. RestCap] /\ RestCap \in Nat
  BY DEF BattleInv, TypeOK, Battler, BattleAssumption
<1> QED
  BY <1>1 DEF BattlerKept

LEMMA StepKeeps ==
  ASSUME BattleAssumption, BattleInv, [Next]_vars
  PROVE  \A s \in Sides : \A i \in DOMAIN party[s] : BattlerKept(s, i)
<1>1. \A s \in Sides : /\ DOMAIN party[s] = DOMAIN sheet[s]
                       /\ party[s] \in [DOMAIN sheet[s] -> Battler]
                       /\ \A i \in DOMAIN sheet[s] :
                            /\ party[s][i].rest \in [Slots -> 0 .. RestCap]
                            /\ party[s][i].hp \in Nat
  BY DEF BattleInv, TypeOK, Battler
<1>2. RestCap \in Nat
  BY DEF BattleAssumption
<1> SUFFICES ASSUME NEW s \in Sides, NEW i \in DOMAIN sheet[s]
             PROVE  BattlerKept(s, i)
  BY <1>1
<1>3. CASE \E as \in [Sides -> Actions] : BeginTurn(as)
  <2>1. PICK as \in [Sides -> Actions] : BeginTurn(as)
    BY <1>3
  <2>3. /\ party'[s][i].hp = party[s][i].hp
        /\ party'[s][i].status = party[s][i].status
        /\ party'[s][i].rest = party[s][i].rest
    BY <2>1, BeginParty
  <2> QED
    BY <1>1, <1>2, <2>3, SameBattler DEF Fainted
<1>4. CASE SkipMove \/ UNCHANGED vars
  <2>1. party' = party
    BY <1>4 DEF SkipMove, vars
  <2> QED
    BY <1>1, <1>2, <2>1, SameBattler
<1>5. CASE FinishTurn
  <2>1. /\ Fainted(party[s][i]) => Fainted(party'[s][i])
        /\ party'[s][i].status = party[s][i].status
        /\ party'[s][i] \in Battler
        /\ \A k \in Slots : party'[s][i].rest[k] >= party[s][i].rest[k]
    BY <1>5, FinishParty
  <2> QED
    BY <1>2, <2>1, SameBattler DEF Battler
<1>6. CASE Move
  <2> DEFINE m == Head(todo)
  <2>1. m \in Sides /\ Sides = {m, 1 - m} /\ m # 1 - m /\ todo # <<>> /\ ~Fainted(ActiveBattler(m))
    BY <1>6, MoveParty DEF Sides
  <2>2. PICK q : /\ Moved(m, ActiveBattler(m), ActiveBattler(1 - m), q)
                 /\ \A t \in Sides : \A j \in DOMAIN sheet[t] : party'[t][j] =
                      IF j # active[t] THEN party[t][j] ELSE IF t = m THEN q.att ELSE q.def
    BY <1>6, MoveParty
  <2>3. \A t \in Sides : /\ ActiveBattler(t) = party[t][active[t]]
                         /\ ActiveCard(t) = sheet[t][active[t]]
    BY DEF ActiveBattler, ActiveCard
  <2> HIDE DEF m
  <2>4. CASE i # active[s]
    <3>1. party'[s][i] = party[s][i]
      BY <2>2, <2>4
    <3> QED
      BY <1>1, <1>2, <3>1, SameBattler
  <2>5. CASE i = active[s] /\ s = m
    <3>1. party'[s][i] = q.att /\ party[s][i] = ActiveBattler(m) /\ sheet[s][i] = ActiveCard(m)
      BY <2>2, <2>3, <2>5
    <3>2. /\ ActiveBattler(m).status \notin {"none", "sleep", "freeze"} =>
               q.att.status = ActiveBattler(m).status
          /\ \A k \in Slots : q.att.rest[k] < ActiveBattler(m).rest[k] =>
               ActiveBattler(m).rest[k] >= AtMost(ActiveCard(m).skills[k].cooldown, RestCap)
      BY <2>2 DEF Moved
    <3> QED
      BY <2>1, <2>5, <3>1, <3>2 DEF BattlerKept, m
  <2>6. CASE i = active[s] /\ s # m
    <3>1. s = 1 - m
      BY <2>1, <2>6
    <3>2. party'[s][i] = q.def /\ party[s][i] = ActiveBattler(1 - m)
      BY <2>2, <2>3, <2>6, <3>1
    <3>3. Touched(ActiveBattler(1 - m), q.def) /\ q.def.hp <= ActiveBattler(1 - m).hp /\ q.def \in Battler
      BY <2>2 DEF Moved, FitPair, Pair
    <3>4. /\ party[s][i].status # "none" => party'[s][i].status = party[s][i].status
          /\ party'[s][i].rest = party[s][i].rest
          /\ Fainted(party[s][i]) => Fainted(party'[s][i])
      <4>1. q.def.hp \in Nat
        BY <3>3 DEF Battler
      <4> QED
        BY <1>1, <3>2, <3>3, <4>1 DEF Touched, Fainted
    <3> QED
      BY <1>1, <1>2, <3>4 DEF BattlerKept
  <2> QED
    BY <2>4, <2>5, <2>6
<1> QED
  BY <1>3, <1>4, <1>5, <1>6 DEF Next

(* Nothing brings a fainted battler back.                                  *)
THEOREM NobodyComesBack == Spec => FaintedStaysFainted
<1>1. BattleInv /\ [Next]_vars =>
        [\A s \in Sides : \A i \in DOMAIN party[s] :
           Fainted(party[s][i]) => Fainted(party'[s][i])]_vars
  BY StepKeeps, BattleAssumption DEF BattlerKept
<1> QED
  BY <1>1, Invariant, PTL DEF Spec, FaintedStaysFainted

(* One status at a time: only sleep and ice end, and only by the move of   *)
(* their owner.                                                            *)
THEOREM OneStatusAtATime == Spec => StatusKept
<1>1. BattleInv /\ [Next]_vars =>
        [\A s \in Sides : \A i \in DOMAIN party[s] :
           party[s][i].status \notin {"none", party'[s][i].status} =>
             /\ party[s][i].status \in {"sleep", "freeze"}
             /\ i = active[s] /\ todo # <<>> /\ s = Head(todo)]_vars
  BY StepKeeps, BattleAssumption DEF BattlerKept
<1> QED
  BY <1>1, Invariant, PTL DEF Spec, StatusKept

(* A skill is used again only after as many turns in the field as its      *)
(* cooldown says, whatever has been switched in between (executeMove,      *)
(* tickCooldowns and ResolveTurn in battle.go).                            *)
THEOREM SkillsRest == Spec => CooldownHolds
<1>1. BattleInv /\ [Next]_vars =>
        [\A s \in Sides : \A i \in DOMAIN party[s] : \A k \in Slots :
           party'[s][i].rest[k] < party[s][i].rest[k] =>
             party[s][i].rest[k] >= AtMost(sheet[s][i].skills[k].cooldown, RestCap)]_vars
  BY StepKeeps, BattleAssumption DEF BattlerKept
<1> QED
  BY <1>1, Invariant, PTL DEF Spec, CooldownHolds

(* Nobody brings boosts back from the bench: who leaves the field leaves   *)
(* them behind, and nothing on the bench gets any.                         *)
THEOREM BenchHasNoBoosts == Spec => []BenchIsReset
<1>1. Init => BenchIsReset
  <2> SUFFICES ASSUME Init, NEW s \in Sides, NEW i \in DOMAIN party[s]
               PROVE  party[s][i].stages = NoStages
    BY DEF BenchIsReset
  <2>1. i \in DOMAIN sheet[s] /\ party[s][i] = NewBattler(sheet[s][i])
    BY DEF Init
  <2> QED
    BY <2>1 DEF NewBattler
<1>2. BattleInv /\ BattleInv' /\ BenchIsReset /\ [Next]_vars => BenchIsReset'
  <2> SUFFICES ASSUME BattleInv, BattleInv', BenchIsReset, [Next]_vars
               PROVE  BenchIsReset'
    OBVIOUS
  <2>1. sheet' = sheet
    BY DEF Next, BeginTurn, SkipMove, Move, FinishTurn, vars
  <2>2. \A s \in Sides : DOMAIN party'[s] = DOMAIN sheet[s]
    BY <2>1 DEF BattleInv, TypeOK
  <2> SUFFICES ASSUME NEW s \in Sides, NEW i \in DOMAIN sheet[s], i # active'[s]
               PROVE  party'[s][i].stages = NoStages
    BY <2>2 DEF BenchIsReset
  <2>3. i # active[s] => party[s][i].stages = NoStages
    BY DEF BenchIsReset, BattleInv, TypeOK
  <2>4. CASE \E as \in [Sides -> Actions] : BeginTurn(as)
    <3>1. PICK as \in [Sides -> Actions] : BeginTurn(as)
      BY <2>4
    <3>2. party'[s][i].stages = IF active'[s] # active[s] /\ i = active[s] THEN NoStages
                                ELSE party[s][i].stages
      BY <3>1, BeginParty, BattleAssumption
    <3> QED
      BY <2>3, <3>2
  <2>5. CASE SkipMove \/ UNCHANGED vars
    BY <2>3, <2>5 DEF SkipMove, vars
  <2>6. CASE Move
    <3>1. active' = active
      BY <2>6 DEF Move
    <3>2. party'[s][i] = party[s][i]
      BY <2>6, <3>1, MoveParty, BattleAssumption
    <3> QED
      BY <2>3, <3>1, <3>2
  <2>7. CASE FinishTurn
    <3>1. active' = active
      BY <2>7 DEF FinishTurn
    <3>2. party'[s][i].stages = party[s][i].stages
      BY <2>7, <3>1, FinishParty, BattleAssumption
    <3> QED
      BY <2>3, <3>1, <3>2
  <2> QED
    BY <2>4, <2>5, <2>6, <2>7 DEF Next
<1> QED
  BY <1>1, <1>2, Invariant, PTL DEF Spec

-----------------------------------------------------------------------------
(* Lists of indices.                                                       *)

LEMMA Least ==
  ASSUME NEW T, T \subseteq Nat, T # {}
  PROVE  \E n \in T : \A m \in T : n <= m
<1>1. PICK n \in T : \A m \in T : ~(<<m, n>> \in OpToRel(<, Nat))
  BY WFMin, NatLessThanWellFounded
<1>2. ASSUME NEW m \in T, m < n PROVE FALSE
  <2>1. <<m, n>> \in Nat \X Nat /\ <<m, n>>[1] < <<m, n>>[2]
    BY <1>2
  <2>2. <<m, n>> \in OpToRel(<, Nat)
    BY <2>1 DEF OpToRel
  <2> QED
    BY <1>1, <2>2
<1> QED
  BY <1>2

(* q lists the set S in ascending order.                                   *)
Lists(q, S) ==
  /\ q \in [1 .. Cardinality(S) -> S]
  /\ \A m, n \in DOMAIN q : m < n => q[m] < q[n]

LEMMA SmallSets ==
  ASSUME NEW n \in Nat, NEW S, S \subseteq 0 .. n - 1
  PROVE  IsFiniteSet(S) /\ Cardinality(S) \in Nat /\ (S # {} => Cardinality(S) > 0)
<1>1. IsFiniteSet(0 .. n - 1)
  <2>1. 0 \in Int /\ n - 1 \in Int
    OBVIOUS
  <2> QED
    BY <2>1, FS_Interval
<1>2. IsFiniteSet(S)
  BY <1>1, FS_Subset
<1>3. Cardinality(S) \in Nat
  BY <1>2, FS_CardinalityType
<1>4. Cardinality(S) = 0 <=> S = {}
  BY <1>2, FS_EmptySet
<1>5. \A c \in Nat : c = 0 \/ c > 0
  OBVIOUS
<1> QED
  BY <1>2, <1>3, <1>4, <1>5

(* One more index at the end of the list.                                  *)
LEMMA ListLonger ==
  ASSUME NEW n \in Nat \ {0}, NEW T \in SUBSET (0 .. n - 2), NEW q, Lists(q, T)
  PROVE  \E p : Lists(p, T \cup {n - 1})
<1> DEFINE S == T \cup {n - 1}
           c == Cardinality(T)
           p == [i \in 1 .. c + 1 |-> IF i <= c THEN q[i] ELSE n - 1]
<1>1. IsFiniteSet(T) /\ c \in Nat
  <2>1. n - 1 \in Nat /\ T \subseteq 0 .. (n - 1) - 1
    OBVIOUS
  <2> QED
    BY <2>1, SmallSets
<1>2. n - 1 \notin T /\ T \subseteq Nat /\ \A x \in T : x < n - 1
  OBVIOUS
<1>3. Cardinality(S) = c + 1
  BY <1>1, <1>2, FS_AddElement
<1>4. q \in [1 .. c -> T] /\ \A m, k \in 1 .. c : m < k => q[m] < q[k]
  BY DEF Lists
<1>5. p \in [1 .. c + 1 -> S]
  BY <1>1, <1>4
<1>6. ASSUME NEW m \in 1 .. c + 1, NEW k \in 1 .. c + 1, m < k PROVE p[m] < p[k]
  <2>1. m \in 1 .. c /\ p[m] = q[m] /\ q[m] \in T
    BY <1>1, <1>4, <1>6
  <2>2. CASE k <= c
    BY <1>1, <1>4, <1>6, <2>1, <2>2
  <2>3. CASE ~(k <= c)
    BY <1>2, <2>1, <2>3
  <2> QED
    BY <2>2, <2>3
<1> HIDE DEF p, c
<1> QED
  BY <1>3, <1>5, <1>6 DEF Lists

LEMMA ListExists ==
  ASSUME NEW n \in Nat, NEW S \in SUBSET (0 .. n - 1)
  PROVE  \E q : Lists(q, S)
<1> DEFINE Listed(k) == \A T \in SUBSET (0 .. k - 1) : \E q : Lists(q, T)
           Bad == {k \in Nat : ~Listed(k)}
<1>1. Listed(0)
  <2> SUFFICES ASSUME NEW T \in SUBSET (0 .. 0 - 1) PROVE \E q : Lists(q, T)
    OBVIOUS
  <2>1. T = {}
    OBVIOUS
  <2>3. Cardinality(T) = 0
    BY <2>1, FS_EmptySet
  <2>2. Lists([i \in 1 .. 0 |-> i], T)
    BY <2>1, <2>3 DEF Lists
  <2> QED
    BY <2>2
<1>2. ASSUME NEW k \in Nat \ {0}, Listed(k - 1) PROVE Listed(k)
  <2> SUFFICES ASSUME NEW T \in SUBSET (0 .. k - 1) PROVE \E q : Lists(q, T)
    OBVIOUS
  <2> DEFINE R == T \ {k - 1}
  <2>1. R \in SUBSET (0 .. k - 2)
    OBVIOUS
  <2>2. PICK q : Lists(q, R)
    <3>1. (k - 1) - 1 = k - 2
      OBVIOUS
    <3> HIDE DEF R
    <3> QED
      BY <1>2, <2>1, <3>1
  <2>3. CASE k - 1 \in T
    <3>1. T = R \cup {k - 1}
      BY <2>3
    <3> HIDE DEF R
    <3> QED
      BY <2>1, <2>2, <3>1, ListLonger
  <2>4. CASE k - 1 \notin T
    <3>1. T = R
      BY <2>4
    <3> QED
      BY <2>2, <3>1
  <2> QED
    BY <2>3, <2>4
<1>3. Bad = {}
  <2> SUFFICES ASSUME Bad # {} PROVE FALSE
    OBVIOUS
  <2>1. PICK k \in Bad : \A m \in Bad : k <= m
    <3> HIDE DEF Listed
    <3>1. Bad \subseteq Nat
      OBVIOUS
    <3> HIDE DEF Bad
    <3> QED
      BY <3>1, Least
  <2> HIDE DEF Listed
  <2>2. k \in Nat \ {0} /\ ~Listed(k)
    BY <1>1, <2>1
  <2>3. k - 1 \notin Bad /\ k - 1 \in Nat
    BY <2>1, <2>2
  <2> QED
    BY <1>2, <2>2, <2>3
<1> HIDE DEF Listed
<1>4. Listed(n)
  BY <1>3
<1> QED
  BY <1>4 DEF Listed

LEMMA InOrderLists ==
  ASSUME NEW n \in Nat, NEW S \in SUBSET (0 .. n - 1)
  PROVE  /\ InOrder(S) \in Seq(S) /\ Len(InOrder(S)) = Cardinality(S)
         /\ DOMAIN InOrder(S) = 1 .. Cardinality(S)
         /\ \A i \in DOMAIN InOrder(S) : InOrder(S)[i] \in S
         /\ Cardinality(S) \in Nat /\ (S # {} => Cardinality(S) > 0)
<1>1. Cardinality(S) \in Nat /\ (S # {} => Cardinality(S) > 0)
  BY SmallSets
<1>2. Lists(InOrder(S), S)
  <2>1. \E q \in [1 .. Cardinality(S) -> S] : \A m, k \in DOMAIN q : m < k => q[m] < q[k]
    BY ListExists DEF Lists
  <2> QED
    BY <2>1 DEF Lists, InOrder
<1>3. InOrder(S) \in [1 .. Cardinality(S) -> S]
  BY <1>2 DEF Lists
<1> QED
  BY <1>1, <1>3

-----------------------------------------------------------------------------
(* The loop over the options.                                              *)

Scored(o) ==
  /\ Len(o) \in Nat \ {0} /\ DOMAIN o = 1 .. Len(o)
  /\ \A i \in DOMAIN o : o[i].score \in Int

Places == [best : Nat, second : Nat]

(* r is what the loop looks for among the first n options.                 *)
BestTwo(o, n, r) ==
  /\ r \in Places /\ r.best \in 1 .. n /\ r.second \in 1 .. n
  /\ \A m \in 1 .. n : o[m].score <= o[r.best].score
  /\ \A m \in 1 .. n : m # r.best => o[m].score <= o[r.second].score
  /\ r.second = r.best => n = 1

LEMMA BetterKeeps ==
  ASSUME NEW o, Scored(o), NEW n \in Nat, n + 1 \in DOMAIN o,
         NEW r, BestTwo(o, n, r)
  PROVE  BestTwo(o, n + 1, Better(o, r, n + 1))
<1> DEFINE i == n + 1
           q == Better(o, r, i)
<1>1. /\ r \in Places /\ r.best \in 1 .. n /\ r.second \in 1 .. n
      /\ \A m \in 1 .. i : o[m].score \in Int
      /\ \A m \in 1 .. i : m \in 1 .. n \/ m = i
      /\ \A m \in 1 .. n : m \in 1 .. i /\ m # i
      /\ i \in 1 .. i
  BY DEF Scored, BestTwo
<1>2. CASE o[i].score > o[r.best].score
  <2>1. q = [best |-> i, second |-> r.best]
    BY <1>2 DEF Better
  <2>2. q \in Places /\ q.best = i /\ q.second = r.best
    BY <1>1, <2>1 DEF Places
  <2> HIDE DEF i, q
  <2>3. \A m \in 1 .. i : o[m].score <= o[q.best].score
    BY <1>1, <1>2, <2>2 DEF BestTwo
  <2>4. \A m \in 1 .. i : m # q.best => o[m].score <= o[q.second].score
    BY <1>1, <2>2 DEF BestTwo
  <2>5. q.best \in 1 .. i /\ q.second \in 1 .. i /\ q.second # q.best
    BY <1>1, <2>2
  <2> QED
    BY <2>2, <2>3, <2>4, <2>5 DEF BestTwo, i, q
<1>3. CASE /\ ~(o[i].score > o[r.best].score)
           /\ o[i].score > o[r.second].score \/ r.second = r.best
  <2>1. q = [r EXCEPT !.second = i]
    BY <1>3 DEF Better
  <2>2. q \in Places /\ q.best = r.best /\ q.second = i
    BY <1>1, <2>1 DEF Places
  <2>3. r.second = r.best => n = 1
    BY DEF BestTwo
  <2>4. r.second = r.best => \A m \in 1 .. n : m = r.best
    BY <1>1, <2>3
  <2> HIDE DEF i, q
  <2>5. \A m \in 1 .. i : o[m].score <= o[q.best].score
    BY <1>1, <1>3, <2>2 DEF BestTwo
  <2>6. ASSUME NEW m \in 1 .. i, m # q.best PROVE o[m].score <= o[q.second].score
    <3>1. CASE m = i
      BY <1>1, <2>2, <3>1
    <3>2. CASE m \in 1 .. n
      <4>1. o[m].score <= o[r.second].score /\ r.second # r.best
        BY <2>2, <2>4, <2>6, <3>2 DEF BestTwo
      <4> QED
        BY <1>1, <1>3, <2>2, <3>2, <4>1
    <3> QED
      BY <1>1, <3>1, <3>2
  <2>7. q.best \in 1 .. i /\ q.second \in 1 .. i /\ q.second # q.best
    BY <1>1, <2>2
  <2> QED
    BY <2>2, <2>5, <2>6, <2>7 DEF BestTwo, i, q
<1>4. CASE /\ ~(o[i].score > o[r.best].score)
           /\ ~(o[i].score > o[r.second].score \/ r.second = r.best)
  <2>1. q = r
    BY <1>4 DEF Better
  <2> HIDE DEF i, q
  <2>2. \A m \in 1 .. i : o[m].score <= o[r.best].score
    BY <1>1, <1>4 DEF BestTwo
  <2>3. \A m \in 1 .. i : m # r.best => o[m].score <= o[r.second].score
    BY <1>1, <1>4 DEF BestTwo
  <2>4. r.best \in 1 .. i /\ r.second \in 1 .. i
    BY <1>1
  <2> QED
    BY <1>1, <1>4, <2>1, <2>2, <2>3, <2>4 DEF BestTwo, i, q
<1> QED
  BY <1>2, <1>3, <1>4

Start == [best |-> 1, second |-> 1]

(* g is the loop's run over the first n options.                           *)
IsScan(o, n, g) ==
  g = [i \in 1 .. n |-> IF i = 1 THEN Start ELSE Better(o, g[i - 1], i)]

LEMMA ScanLonger ==
  ASSUME NEW o, NEW n \in Nat, NEW g, IsScan(o, n, g)
  PROVE  \E h : IsScan(o, n + 1, h)
<1> DEFINE next(i) == IF i = 1 THEN Start ELSE Better(o, g[i - 1], i)
           h == [i \in 1 .. n + 1 |-> next(i)]
<1>1. \A i \in 1 .. n : g[i] = next(i)
  <2>1. g = [i \in 1 .. n |-> next(i)]
    BY DEF IsScan
  <2> HIDE DEF next
  <2>2. \A i \in 1 .. n : [k \in 1 .. n |-> next(k)][i] = next(i)
    OBVIOUS
  <2> QED
    BY <2>1, <2>2, Zenon
<1>2. ASSUME NEW i \in 1 .. n + 1
      PROVE  next(i) = IF i = 1 THEN Start ELSE Better(o, h[i - 1], i)
  <2>1. CASE i = 1
    BY <2>1
  <2>2. CASE i # 1
    <3>1. i - 1 \in 1 .. n /\ i - 1 \in 1 .. n + 1
      BY <2>2
    <3>2. h[i - 1] = g[i - 1]
      <4> HIDE DEF next
      <4> QED
        BY <1>1, <3>1
    <3> HIDE DEF h
    <3> QED
      BY <2>2, <3>2
  <2> QED
    BY <2>1, <2>2
<1>3. h = [i \in 1 .. n + 1 |-> IF i = 1 THEN Start ELSE Better(o, h[i - 1], i)]
  <2>1. h = [i \in 1 .. n + 1 |-> next(i)]
    OBVIOUS
  <2> HIDE DEF h, next
  <2> QED
    BY <1>2, <2>1, Zenon
<1> HIDE DEF h
<1> QED
  BY <1>3 DEF IsScan

LEMMA ScanExists ==
  ASSUME NEW o, NEW n \in Nat
  PROVE  \E g : IsScan(o, n, g)
<1> DEFINE Runs(k) == \E g : IsScan(o, k, g)
           Bad == {k \in Nat : ~Runs(k)}
<1>1. Runs(0)
  <2> DEFINE g == [i \in 1 .. 0 |-> i]
  <2>1. g = [i \in 1 .. 0 |-> IF i = 1 THEN Start ELSE Better(o, g[i - 1], i)]
    OBVIOUS
  <2> HIDE DEF g
  <2> QED
    BY <2>1 DEF IsScan
<1>2. ASSUME NEW k \in Nat, Runs(k) PROVE Runs(k + 1)
  BY <1>2, ScanLonger
<1>3. Bad = {}
  <2> SUFFICES ASSUME Bad # {} PROVE FALSE
    OBVIOUS
  <2> HIDE DEF Runs
  <2>1. PICK k \in Bad : \A m \in Bad : k <= m
    <3>1. Bad \subseteq Nat
      OBVIOUS
    <3> HIDE DEF Bad
    <3> QED
      BY <3>1, Least
  <2>2. k \in Nat \ {0} /\ ~Runs(k)
    BY <1>1, <2>1
  <2>3. k - 1 \notin Bad /\ k - 1 \in Nat /\ (k - 1) + 1 = k
    BY <2>1, <2>2
  <2> QED
    BY <1>2, <2>2, <2>3
<1> HIDE DEF Runs
<1>4. Runs(n)
  BY <1>3
<1> QED
  BY <1>4 DEF Runs

LEMMA ScanIs ==
  ASSUME NEW o, Scored(o)
  PROVE  IsScan(o, Len(o), Scan(o))
<1>1. DOMAIN o = 1 .. Len(o) /\ Len(o) \in Nat
  BY DEF Scored
<1>2. PICK g : IsScan(o, Len(o), g)
  BY <1>1, ScanExists
<1>3. g = [n \in DOMAIN o |-> IF n = 1 THEN [best |-> 1, second |-> 1]
                                ELSE Better(o, g[n - 1], n)]
  BY <1>1, <1>2, Zenon DEF IsScan, Start
<1>4. Scan(o) = [n \in DOMAIN o |-> IF n = 1 THEN [best |-> 1, second |-> 1]
                                      ELSE Better(o, Scan(o)[n - 1], n)]
  BY <1>3, Zenon DEF Scan
<1> QED
  BY <1>1, <1>4, Zenon DEF IsScan, Start

LEMMA ScanBestTwo ==
  ASSUME NEW o, Scored(o), NEW n \in DOMAIN o
  PROVE  BestTwo(o, n, Scan(o)[n])
<1> DEFINE Right(k) == k \in DOMAIN o => BestTwo(o, k, Scan(o)[k])
           Bad == {k \in Nat : ~Right(k)}
<1>1. DOMAIN o = 1 .. Len(o) /\ Len(o) \in Nat \ {0} /\ \A i \in DOMAIN o : o[i].score \in Int
  BY DEF Scored
<1>2. \A k \in DOMAIN o :
        Scan(o)[k] = IF k = 1 THEN Start ELSE Better(o, Scan(o)[k - 1], k)
  <2>1. Scan(o) = [k \in 1 .. Len(o) |->
                     IF k = 1 THEN Start ELSE Better(o, Scan(o)[k - 1], k)]
    BY ScanIs, Zenon DEF IsScan
  <2> DEFINE next(k) == IF k = 1 THEN Start ELSE Better(o, Scan(o)[k - 1], k)
  <2>2. Scan(o) = [k \in 1 .. Len(o) |-> next(k)]
    BY <2>1
  <2> HIDE DEF next
  <2>3. \A k \in 1 .. Len(o) : [m \in 1 .. Len(o) |-> next(m)][k] = next(k)
    OBVIOUS
  <2>4. \A k \in 1 .. Len(o) : Scan(o)[k] = next(k)
    BY <2>2, <2>3, Zenon
  <2> QED
    BY <1>1, <2>4 DEF next
<1>3. BestTwo(o, 1, Start)
  <2>1. Start \in Places /\ Start.best = 1 /\ Start.second = 1
    BY DEF Start, Places
  <2>2. \A m \in 1 .. 1 : m = 1
    OBVIOUS
  <2>3. o[1].score \in Int
    BY <1>1
  <2> QED
    BY <2>1, <2>2, <2>3 DEF BestTwo
<1>4. ASSUME NEW k \in Nat, Right(k) PROVE Right(k + 1)
  <2> SUFFICES ASSUME k + 1 \in DOMAIN o PROVE BestTwo(o, k + 1, Scan(o)[k + 1])
    OBVIOUS
  <2>1. CASE k = 0
    BY <1>2, <1>3, <2>1
  <2>2. CASE k # 0
    <3>1. k \in DOMAIN o /\ k + 1 # 1 /\ (k + 1) - 1 = k
      BY <1>1, <2>2
    <3>2. Scan(o)[k + 1] = Better(o, Scan(o)[k], k + 1)
      BY <1>2, <3>1
    <3>3. BestTwo(o, k, Scan(o)[k])
      BY <1>4, <3>1
    <3> QED
      BY <3>2, <3>3, BetterKeeps
  <2> QED
    BY <2>1, <2>2
<1>5. Right(0)
  BY <1>1
<1>6. Bad = {}
  <2> SUFFICES ASSUME Bad # {} PROVE FALSE
    OBVIOUS
  <2> HIDE DEF Right
  <2>1. PICK k \in Bad : \A m \in Bad : k <= m
    <3>1. Bad \subseteq Nat
      OBVIOUS
    <3> HIDE DEF Bad
    <3> QED
      BY <3>1, Least
  <2>2. k \in Nat \ {0} /\ ~Right(k)
    BY <1>5, <2>1
  <2>3. k - 1 \notin Bad /\ k - 1 \in Nat /\ (k - 1) + 1 = k
    BY <2>1, <2>2
  <2> QED
    BY <1>4, <2>2, <2>3
<1> HIDE DEF Right
<1>7. Right(n)
  BY <1>1, <1>6
<1> QED
  BY <1>7 DEF Right

(* ai.go's ChooseAction: the loop ends with the best option and the second *)
(* best, whatever options there are and in whatever order.                 *)
THEOREM RankIsRight ==
  ASSUME NEW o, Scored(o)
  PROVE  BestTwo(o, Len(o), Rank(o))
<1>1. Len(o) \in DOMAIN o
  BY DEF Scored
<1> QED
  BY <1>1, ScanBestTwo DEF Rank

-----------------------------------------------------------------------------
(* What a bot may choose from.                                             *)

LEMMA Multiplier ==
  ASSUME NEW a, NEW d1, NEW d2
  PROVE  DualEffectiveness(a, d1, d2) \in Nat
<1> DEFINE e1 == Effectiveness(a, d1)
           e2 == IF d2 # d1 THEN Effectiveness(a, d2) ELSE 2
<1>1. e1 \in {0, 1, 2, 4} /\ e2 \in {0, 1, 2, 4}
  BY EffectivenessValues
<1>2. DualEffectiveness(a, d1, d2) = e1 * e2
  BY DEF DualEffectiveness
<1> HIDE DEF e1, e2
<1> QED
  BY <1>1, <1>2

LEMMA MoveScores ==
  ASSUME NEW s, NEW skill \in Skill
  PROVE  ScoreMove(s, skill) \in Int
<1> DEFINE eff == DualEffectiveness(skill.element, ActiveCard(Foe(s)).element1,
                                    ActiveCard(Foe(s)).element2)
           stab == IF skill.element \in {ActiveCard(s).element1, ActiveCard(s).element2}
                   THEN 3 ELSE 2
           acc == AtMost(skill.accuracy, 100)
           expected == skill.power * eff * stab * acc
           lethal == expected * ActiveCard(Foe(s)).maxHP > 250 * One * ActiveBattler(Foe(s)).hp
<1>1. skill.power \in Nat /\ acc \in Nat
  BY DEF Skill, AtMost
<1>2. eff \in Nat /\ stab \in Nat
  BY Multiplier
<1>3. ScoreMove(s, skill) = IF skill.class = "status" THEN ScoreStatus(s, skill)
        ELSE IF eff > 0 /\ lethal THEN expected + 120 * One ELSE expected
  BY DEF ScoreMove
<1>4. ScoreStatus(s, skill) \in Int
  BY DEF ScoreStatus, One
<1> HIDE DEF eff, stab, acc
<1>5. expected \in Int /\ expected + 120 * One \in Int
  <2>1. skill.power * eff \in Nat
    BY <1>1, <1>2
  <2>2. skill.power * eff * stab \in Nat
    BY <1>2, <2>1
  <2>3. expected \in Nat
    BY <1>1, <2>2
  <2> HIDE DEF expected
  <2> QED
    BY <2>3 DEF One
<1> HIDE DEF expected, lethal
<1> QED
  BY <1>3, <1>4, <1>5

LEMMA SwitchScores ==
  ASSUME NEW s, NEW to
  PROVE  ScoreSwitch(s, to) \in Int
<1>1. Incoming(s, sheet[s][to]) \in Nat
  BY Multiplier DEF Incoming
<1>2. One \div 4 = 200 /\ One = 800
  BY DEF One
<1> DEFINE resist == (8 - Incoming(s, sheet[s][to])) * 30
           urgency == (IF HardCounter(s) THEN 40 ELSE 0) + (IF Critical(s) THEN 40 ELSE 0)
<1>3. resist \in Int
  BY <1>1
<1>4. urgency \in Int
  OBVIOUS
<1>5. ScoreSwitch(s, to) = resist * (One \div 4) + (urgency - 15) * One
  BY DEF ScoreSwitch
<1> HIDE DEF resist, urgency
<1> QED
  BY <1>2, <1>3, <1>4, <1>5

(* The actions that come to something for a side whose battler can fight.  *)
Moves(s) ==
  {[kind |-> "move", slot |-> k] : k \in {k \in Slots : ActiveCard(s).skills[k] # NoSkill}}

Switches(s) ==
  {[kind |-> "switch", to |-> i] :
     i \in {i \in DOMAIN party[s] : i # active[s] /\ ~Fainted(party[s][i])}}

Offers(s) == [act : Moves(s) \cup Switches(s), score : Int]

LEMMA MovesOffered ==
  ASSUME BotsAssumption, CardsOK, NEW s \in Sides
  PROVE  /\ MoveOptions(s) \in Seq(Offers(s))
         /\ (\E k \in Slots : ActiveCard(s).skills[k] # NoSkill) => Len(MoveOptions(s)) > 0
<1> DEFINE S == {k \in Slots : ActiveCard(s).skills[k] # NoSkill}
           slots == InOrder(S)
           offer(n) == [act |-> [kind |-> "move", slot |-> slots[n]],
                        score |-> ScoreMove(s, ActiveCard(s).skills[slots[n]])]
<1>1. S \in SUBSET (0 .. 4 - 1)
  <2>1. Slots \subseteq 0 .. 3 /\ 4 - 1 = 3
    BY DEF BotsAssumption
  <2> QED
    BY <2>1
<1>2. /\ DOMAIN slots = 1 .. Cardinality(S) /\ \A n \in DOMAIN slots : slots[n] \in S
      /\ Cardinality(S) \in Nat /\ (S # {} => Cardinality(S) > 0)
  <2> HIDE DEF S
  <2> QED
    BY <1>1, InOrderLists
<1>3. ASSUME NEW n \in DOMAIN slots PROVE offer(n) \in Offers(s)
  <2>1. slots[n] \in S
    BY <1>2
  <2>2. [kind |-> "move", slot |-> slots[n]] \in Moves(s)
    BY <2>1 DEF Moves
  <2>3. ActiveCard(s).skills[slots[n]] \in Skill
    BY <2>1 DEF CardsOK, Card
  <2>4. ScoreMove(s, ActiveCard(s).skills[slots[n]]) \in Int
    BY <2>3, MoveScores
  <2> QED
    BY <2>2, <2>4 DEF Offers
<1>4. MoveOptions(s) = [n \in DOMAIN slots |-> offer(n)]
  BY DEF MoveOptions
<1>5. (\E k \in Slots : ActiveCard(s).skills[k] # NoSkill) => S # {}
  OBVIOUS
<1> HIDE DEF S, slots, offer
<1>6. MoveOptions(s) \in [1 .. Cardinality(S) -> Offers(s)]
  BY <1>2, <1>3, <1>4
<1>7. MoveOptions(s) \in Seq(Offers(s)) /\ Len(MoveOptions(s)) = Cardinality(S)
  BY <1>2, <1>6
<1> QED
  BY <1>2, <1>5, <1>7

LEMMA SwitchesOffered ==
  ASSUME NEW s \in Sides, NEW n \in Nat, DOMAIN party[s] = 1 .. n
  PROVE  SwitchOptions(s) \in Seq(Offers(s))
<1> DEFINE B == DOMAIN party[s] \ {active[s]}
           bench == Bench(s)
           F == {m \in DOMAIN bench : ~Fainted(party[s][bench[m]])}
           fit == InOrder(F)
           offer(m) == [act |-> [kind |-> "switch", to |-> SwitchTo(bench, fit[m])],
                        score |-> ScoreSwitch(s, bench[fit[m]])]
<1>1. B \in SUBSET (0 .. (n + 1) - 1) /\ n + 1 \in Nat
  OBVIOUS
<1>2. /\ DOMAIN bench = 1 .. Cardinality(B) /\ \A m \in DOMAIN bench : bench[m] \in B
      /\ Cardinality(B) \in Nat
  <2>1. bench = InOrder(B)
    BY DEF Bench
  <2> HIDE DEF B, bench
  <2> QED
    BY <1>1, <2>1, InOrderLists
<1>3. F \in SUBSET (0 .. (Cardinality(B) + 1) - 1) /\ Cardinality(B) + 1 \in Nat
  <2> HIDE DEF B, bench
  <2> QED
    BY <1>2
<1>4. /\ DOMAIN fit = 1 .. Cardinality(F) /\ \A m \in DOMAIN fit : fit[m] \in F
      /\ Cardinality(F) \in Nat
  <2> HIDE DEF F
  <2> QED
    BY <1>3, InOrderLists
<1>5. ASSUME NEW m \in DOMAIN fit PROVE offer(m) \in Offers(s)
  <2>1. fit[m] \in F
    BY <1>4
  <2> HIDE DEF fit
  <2>2. /\ fit[m] \in DOMAIN bench /\ bench[fit[m]] \in B
        /\ ~Fainted(party[s][bench[fit[m]]])
    BY <1>2, <2>1
  <2> HIDE DEF bench
  <2>3. [kind |-> "switch", to |-> bench[fit[m]]] \in Switches(s)
    BY <2>2 DEF Switches
  <2>4. ScoreSwitch(s, bench[fit[m]]) \in Int
    BY SwitchScores
  <2> QED
    BY <2>3, <2>4 DEF Offers, SwitchTo
<1>6. SwitchOptions(s) = [m \in DOMAIN fit |-> offer(m)]
  BY DEF SwitchOptions
<1> HIDE DEF B, bench, F, fit, offer
<1>7. SwitchOptions(s) \in [1 .. Cardinality(F) -> Offers(s)]
  BY <1>4, <1>5, <1>6
<1> QED
  BY <1>4, <1>7

LEMMA OptionsOffered ==
  ASSUME BotsAssumption, CardsOK, NEW s \in Sides, NEW n \in Nat, DOMAIN party[s] = 1 .. n
  PROVE  /\ Options(s) \in Seq(Offers(s))
         /\ (\E k \in Slots : ActiveCard(s).skills[k] # NoSkill) => Options(s) # <<>>
         /\ Options(s) # <<>> => Scored(Options(s))
<1> DEFINE moves == MoveOptions(s)
           rest == IF ShouldConsiderSwitch(s) THEN SwitchOptions(s) ELSE <<>>
           o == Options(s)
<1>1. /\ moves \in Seq(Offers(s)) /\ Len(moves) \in Nat
      /\ (\E k \in Slots : ActiveCard(s).skills[k] # NoSkill) => Len(moves) > 0
  BY MovesOffered, LenProperties
<1>2. rest \in Seq(Offers(s)) /\ Len(rest) \in Nat
  <2>1. SwitchOptions(s) \in Seq(Offers(s)) /\ <<>> \in Seq(Offers(s))
    BY SwitchesOffered
  <2> QED
    BY <2>1, LenProperties
<1>3. o = moves \o rest
  BY DEF Options
<1> HIDE DEF moves, rest, o
<1>4. o \in Seq(Offers(s)) /\ Len(o) = Len(moves) + Len(rest)
  BY <1>1, <1>2, <1>3, ConcatProperties, Zenon
<1>5. (\E k \in Slots : ActiveCard(s).skills[k] # NoSkill) => Len(o) # 0
  BY <1>1, <1>2, <1>4
<1>6. o # <<>> => Scored(o)
  <2> SUFFICES ASSUME o # <<>> PROVE Scored(o)
    OBVIOUS
  <2>1. Len(o) \in Nat \ {0} /\ DOMAIN o = 1 .. Len(o)
    BY <1>4, EmptySeq, LenProperties
  <2>2. \A i \in DOMAIN o : o[i] \in Offers(s)
    BY <1>4, <2>1, ElementOfSeq
  <2>3. \A x \in Offers(s) : x.score \in Int
    BY DEF Offers
  <2> QED
    BY <2>1, <2>2, <2>3 DEF Scored
<1>7. Len(o) # 0 => o # <<>>
  BY <1>4
<1> QED
  BY <1>4, <1>5, <1>6, <1>7 DEF o

(* The choice: an option, above which there is at most one, and none when  *)
(* the difficulty makes no mistakes.                                       *)
LEMMA Chosen ==
  ASSUME NEW o, Scored(o), NEW d
  PROVE  /\ ChooseAction(o, d) # {}
         /\ \A c \in ChooseAction(o, d) : \E n \in DOMAIN o : c = o[n]
         /\ \A c \in ChooseAction(o, d) : \A n, m \in DOMAIN o :
              o[n].score > c.score /\ o[m].score > c.score => n = m
         /\ \A c \in ChooseAction(o, "boss") : \A n \in DOMAIN o : ~(o[n].score > c.score)
<1> DEFINE r == Rank(o)
           pick(slip) == o[IF slip THEN r.second ELSE r.best]
<1>1. Len(o) \in Nat \ {0} /\ DOMAIN o = 1 .. Len(o) /\ \A i \in DOMAIN o : o[i].score \in Int
  BY DEF Scored
<1>2. BestTwo(o, Len(o), r)
  BY RankIsRight
<1>3. o # <<>>
  BY <1>1
<1>4. \A e : ChooseAction(o, e) = {pick(slip) : slip \in Chance(MistakeChance[e])}
  BY <1>3 DEF ChooseAction
<1>5. Chance(MistakeChance[d]) # {} /\ Chance(MistakeChance[d]) \subseteq BOOLEAN
  BY DEF Chance
<1>6. Chance(MistakeChance["boss"]) = {FALSE}
  <2>1. MistakeChance["boss"] = 0
    BY DEF MistakeChance
  <2> QED
    BY <2>1 DEF Chance
<1>7. r.best \in DOMAIN o /\ r.second \in DOMAIN o
  BY <1>1, <1>2 DEF BestTwo
<1>8. \A n \in DOMAIN o : ~(o[n].score > o[r.best].score)
  BY <1>1, <1>2, <1>7 DEF BestTwo
<1>9. \A n \in DOMAIN o : o[n].score > o[r.second].score => n = r.best
  BY <1>1, <1>2, <1>7 DEF BestTwo
<1>10. \A c \in ChooseAction(o, d) : c = o[r.best] \/ c = o[r.second]
  BY <1>4, <1>5
<1>11. ChooseAction(o, d) # {}
  <2>1. PICK slip : slip \in Chance(MistakeChance[d])
    BY <1>5
  <2>2. pick(slip) \in ChooseAction(o, d)
    BY <1>4, <2>1
  <2> QED
    BY <2>2
<1>12. \A c \in ChooseAction(o, "boss") : c = o[r.best]
  <2>1. pick(FALSE) = o[r.best]
    OBVIOUS
  <2> HIDE DEF pick
  <2>2. ChooseAction(o, "boss") = {pick(slip) : slip \in {FALSE}}
    BY <1>4, <1>6, Zenon
  <2> QED
    BY <2>1, <2>2, Zenon
<1> HIDE DEF r
<1> QED
  BY <1>7, <1>8, <1>9, <1>10, <1>11, <1>12

LEMMA PartyShape ==
  ASSUME BattleAssumption, BattleInv, NEW s \in Sides
  PROVE  \E n \in Nat : DOMAIN party[s] = 1 .. n /\ DOMAIN sheet[s] = 1 .. n
<1>1. sheet[s] \in Seq(Card)
  BY DEF BattleAssumption, BattleInv, TypeOK
<1>2. Len(sheet[s]) \in Nat /\ DOMAIN sheet[s] = 1 .. Len(sheet[s])
  BY <1>1, LenProperties
<1>3. DOMAIN party[s] = DOMAIN sheet[s]
  BY DEF BattleInv, TypeOK
<1> QED
  BY <1>2, <1>3

(* The replacement of a fainted battler.                                   *)
LEMMA Replacement ==
  ASSUME BattleAssumption, BattleInv, NEW s \in Sides, HasUsable(party[s])
  PROVE  FirstHealthy(s) \in DOMAIN party[s] /\ ~Fainted(party[s][FirstHealthy(s)])
<1> DEFINE T == {i \in DOMAIN party[s] : ~Fainted(party[s][i])}
<1>1. PICK n \in Nat : DOMAIN party[s] = 1 .. n
  BY PartyShape
<1>2. PICK i \in T : \A m \in T : i <= m
  <2>1. T \subseteq Nat /\ T # {}
    BY <1>1 DEF HasUsable
  <2> HIDE DEF T
  <2> QED
    BY <2>1, Least
<1>3. i \in DOMAIN party[s] /\ ~Fainted(party[s][i])
  OBVIOUS
<1>4. \A j \in 1 .. (i - 1) : Fainted(party[s][j])
  <2> SUFFICES ASSUME NEW j \in 1 .. (i - 1), ~Fainted(party[s][j]) PROVE FALSE
    OBVIOUS
  <2>1. j \in 1 .. n /\ ~(i <= j)
    BY <1>1, <1>3
  <2> QED
    BY <1>1, <1>2, <2>1
<1> QED
  BY <1>3, <1>4 DEF FirstHealthy

LEMMA HasASkill ==
  ASSUME BattleAssumption, BotsAssumption, BattleInv, NEW s \in Sides
  PROVE  \E k \in Slots : ActiveCard(s).skills[k] # NoSkill
<1>1. sheet \in Sheets /\ active[s] \in DOMAIN sheet[s]
  BY DEF BattleInv, TypeOK
<1> QED
  BY <1>1 DEF BotsAssumption, ActiveCard

LEMMA BotsLegal ==
  ASSUME BattleAssumption, BotsAssumption, BattleInv
  PROVE  BotsActLegally
<1> SUFFICES ASSUME NEW s \in Sides, HasUsable(party[s])
             PROVE  /\ Decide(s) # {}
                    /\ \A act \in Decide(s) :
                         \/ CanSwitch(s, act)
                         \/ /\ act.kind = "move" /\ ~Fainted(ActiveBattler(s))
                            /\ SkillFor(s, act.slot) # NoSkill
  BY DEF BotsActLegally
<1>1. CASE Fainted(ActiveBattler(s))
  <2> DEFINE act == [kind |-> "switch", to |-> FirstHealthy(s)]
  <2>1. Decide(s) = {act}
    BY <1>1 DEF Decide
  <2>2. FirstHealthy(s) \in DOMAIN party[s] /\ ~Fainted(party[s][FirstHealthy(s)])
    BY Replacement
  <2>3. FirstHealthy(s) # active[s]
    BY <1>1, <2>2 DEF ActiveBattler
  <2>4. act.kind = "switch" /\ act.to = FirstHealthy(s)
    OBVIOUS
  <2> HIDE DEF act
  <2>5. CanSwitch(s, act)
    BY <2>2, <2>3, <2>4 DEF CanSwitch
  <2> QED
    BY <2>1, <2>5
<1>2. CASE ~Fainted(ActiveBattler(s))
  <2>1. PICK n \in Nat : DOMAIN party[s] = 1 .. n
    BY PartyShape
  <2>2. CardsOK
    BY FieldFit
  <2>3. /\ Options(s) \in Seq(Offers(s)) /\ Scored(Options(s))
    BY <2>1, <2>2, HasASkill, OptionsOffered
  <2>4. Decide(s) = {o.act : o \in ChooseAction(Options(s), "normal")}
    BY <1>2 DEF Decide
  <2>5. /\ ChooseAction(Options(s), "normal") # {}
        /\ \A c \in ChooseAction(Options(s), "normal") : c \in Offers(s)
    <3>1. \A m \in DOMAIN Options(s) : Options(s)[m] \in Offers(s)
      BY <2>3, ElementOfSeq, LenProperties
    <3> QED
      BY <2>3, <3>1, Chosen
  <2>6. ASSUME NEW c \in Offers(s)
        PROVE  \/ CanSwitch(s, c.act)
               \/ /\ c.act.kind = "move" /\ SkillFor(s, c.act.slot) # NoSkill
    <3>1. c.act \in Moves(s) \/ c.act \in Switches(s)
      BY DEF Offers
    <3>2. CASE c.act \in Moves(s)
      <4>1. PICK k \in Slots : /\ ActiveCard(s).skills[k] # NoSkill
                               /\ c.act = [kind |-> "move", slot |-> k]
        BY <3>2 DEF Moves
      <4>2. c.act.kind = "move" /\ c.act.slot = k
        BY <4>1
      <4> QED
        BY <4>1, <4>2 DEF SkillFor
    <3>3. CASE c.act \in Switches(s)
      <4>1. PICK i \in DOMAIN party[s] : /\ i # active[s] /\ ~Fainted(party[s][i])
                                         /\ c.act = [kind |-> "switch", to |-> i]
        BY <3>3 DEF Switches
      <4>2. c.act.kind = "switch" /\ c.act.to = i
        BY <4>1
      <4> QED
        BY <4>1, <4>2 DEF CanSwitch
    <3> QED
      BY <3>1, <3>2, <3>3
  <2>7. Decide(s) # {}
    BY <2>4, <2>5
  <2> QED
    BY <1>2, <2>4, <2>5, <2>6, <2>7
<1> QED
  BY <1>1, <1>2

LEMMA MistakesSmall ==
  ASSUME BattleAssumption, BotsAssumption, BattleInv
  PROVE  MistakesAreSmall
<1> SUFFICES ASSUME NEW s \in Sides
             PROVE  /\ \A c \in ChooseAction(Options(s), "normal") :
                         \A n, m \in {n \in DOMAIN Options(s) : Options(s)[n].score > c.score} :
                           n = m
                    /\ \A c \in ChooseAction(Options(s), "boss") :
                         {n \in DOMAIN Options(s) : Options(s)[n].score > c.score} = {}
  BY DEF MistakesAreSmall
<1>1. Scored(Options(s))
  <2>1. PICK n \in Nat : DOMAIN party[s] = 1 .. n
    BY PartyShape
  <2> QED
    BY <2>1, FieldFit, HasASkill, OptionsOffered
<1> QED
  BY <1>1, Chosen

(* decide and doSwitch: as long as its side has somebody left, a bot       *)
(* decides, whatever the state of the battle and the roll of the dice, for *)
(* a switch that doSwitch carries out, or for a skill that its standing    *)
(* battler has, cooling down or not.                                       *)
THEOREM BotsPlayLegally == Spec => []BotsActLegally
<1>1. BattleInv => BotsActLegally
  BY BotsLegal, BattleAssumption, BotsAssumption
<1> QED
  BY <1>1, Invariant, PTL

(* mistakeChance: a mistake is the second best option, never a worse one.  *)
THEOREM MistakesAreSecondBest == Spec => []MistakesAreSmall
<1>1. BattleInv => MistakesAreSmall
  BY MistakesSmall, BattleAssumption, BotsAssumption
<1> QED
  BY <1>1, Invariant, PTL
=============================================================================
