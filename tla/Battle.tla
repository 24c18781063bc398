------------------------------- MODULE Battle -------------------------------
(***************************************************************************)
(* The battle engine: ResolveTurn, taken apart into the steps a turn is    *)
(* made of (switches and order, each side's move, the end of the turn).    *)
(* One goroutine owns a Battle, so nothing happens between the steps of a  *)
(* turn; the parts are told apart to state what each may do.               *)
(*                                                                         *)
(* The match RNG is a choice among the outcomes it can give.  Speed only   *)
(* decides between equal priorities, and the damage formula (Formulas)     *)
(* only how much a hit takes: both are choices too.  The event log is left *)
(* out, and so is flinched, which nothing ever sets.                       *)
(***************************************************************************)
EXTENDS Formulas, Sequences

CONSTANTS
  Sheets,     \* the rosters matches are played with: for each side the party,
              \* a sequence of species and instance data
  Slots,      \* skill slots
  Actions,    \* what the session may hand over for a side
  MaxDamage,  \* most HP one hit can take
  RestCap,    \* bound: most turns the history field rest counts
  NoSkill, NoEffect

Sides == {0, 1}

(* The stats a skill can raise or lower.                                   *)
Stats == (StatKeys \ {"hp"}) \cup {"accuracy", "evasion"}

Statuses == {"none", "burn", "freeze", "paralysis", "poison", "toxic", "sleep"}

Effect ==
  [self : BOOLEAN, status : Statuses, chance : 0 .. 100,
   stages : [Stats -> -6 .. 6], heal : 0 .. 100, recoil : 0 .. 100]

Skill ==
  [class : {"physical", "special", "status"}, element : Element, power : Nat,
   accuracy : Nat, priority : Int, cooldown : Nat, effect : Effect \cup {NoEffect}]

(* Species and Instance: the data of a battler that never changes.         *)
Card ==
  [maxHP : Nat \ {0}, hp : Int, status : Statuses, ability : STRING,
   immune : SUBSET Statuses, element1 : Element, element2 : Element,
   skills : [Slots -> Skill \cup {NoSkill}]]

ASSUME BattleAssumption ==
  /\ \A roster \in Sheets : \A s \in Sides : roster[s] \in Seq(Card) \ {<<>>}
  /\ Actions \subseteq [kind : {"move"}, slot : Int] \cup [kind : {"switch"}, to : Int]
  /\ MaxDamage \in Nat \ {0}
  /\ RestCap \in Nat

VARIABLES
  sheet,   \* the roster of this match, which never changes
  party,   \* the battlers of each side
  active,  \* index of the battler in the field, from 1
  phase,   \* "idle" between turns, "moves" while one is resolved
  acts,    \* the actions of the turn that is being resolved
  todo,    \* the sides that have yet to move, in order
  over, winner

vars == <<sheet, party, active, phase, acts, todo, over, winner>>

-----------------------------------------------------------------------------
(* Battlers.                                                               *)

NoStages == [x \in Stats |-> 0]

(* rest is a history field: turns that the battler has ended in the field  *)
(* since it used a skill that has a cooldown.                              *)
NewBattler(card) ==
  [hp |-> IF card.hp <= 0 \/ card.hp > card.maxHP THEN card.maxHP ELSE card.hp,
   status |-> card.status, ctr |-> 0, stages |-> NoStages,
   cooldowns |-> [k \in Slots |-> 0], rest |-> [k \in Slots |-> RestCap]]

Fainted(b) == b.hp <= 0

ActiveCard(s) == sheet[s][active[s]]

ActiveBattler(s) == party[s][active[s]]

HasUsable(team) == \E i \in DOMAIN team : ~Fainted(team[i])

(* The outcomes of Chance(p).                                              *)
Chance(p) == IF p <= 0 THEN {FALSE} ELSE IF p >= 100 THEN {TRUE} ELSE BOOLEAN

AtLeast(n, low) == IF n < low THEN low ELSE n
AtMost(n, high) == IF n > high THEN high ELSE n

(* Mutant of Hurt: HP is not clamped.                                      *)
HurtUnclamped(b, n) == [b EXCEPT !.hp = @ - n]

Hurt(b, n) == [b EXCEPT !.hp = AtLeast(@ - n, 0)]

ClampStage(cur, delta) == AtMost(AtLeast(cur + delta, -6), 6)

(* One status at a time, none for the fainted or the immune.               *)
ApplyStatus(b, card, st) ==
  IF b.status # "none" \/ Fainted(b) \/ st \in card.immune
  THEN b
  ELSE [b EXCEPT !.status = st, !.ctr = IF st = "toxic" THEN 1 ELSE @]

(* Mutant of SetSleep: it does not look for another status.                *)
SetSleepAlways(b) == {[b EXCEPT !.status = "sleep", !.ctr = n] : n \in 1 .. 3}

(* Sleep lasts one to three moves.                                         *)
SetSleep(b) ==
  IF b.status # "none" THEN {b}
  ELSE {[b EXCEPT !.status = "sleep", !.ctr = n] : n \in 1 .. 3}

(* PreMoveGate: whether the battler can act, and what becomes of it.       *)
PreMoveGate(b) ==
  CASE b.status = "sleep" ->
         {[go |-> b.ctr <= 1,
           b |-> [b EXCEPT !.ctr = @ - 1, !.status = IF b.ctr <= 1 THEN "none" ELSE @]]}
    [] b.status = "freeze" ->
         {[go |-> thaw, b |-> [b EXCEPT !.status = IF thaw THEN "none" ELSE @]]
            : thaw \in Chance(20)}
    [] b.status = "paralysis" -> {[go |-> ~stuck, b |-> b] : stuck \in Chance(25)}
    [] OTHER -> {[go |-> TRUE, b |-> b]}

(* EndOfTurnTick: residual damage, Regenerator, and the toxic counter.     *)
Residual(b, card) ==
  CASE b.status \in {"burn", "poison"} -> AtLeast(card.maxHP \div 8, 1)
    [] b.status = "toxic" -> AtLeast((card.maxHP * b.ctr) \div 16, 1)
    [] OTHER -> 0

(* Mutant of EndOfTurnTick: the fainted regenerate too.                    *)
TickFaintedToo(b, card) ==
  LET heal == IF card.ability = "regenerator" THEN AtLeast(card.maxHP \div 16, 1) ELSE 0
      hp == b.hp - Residual(b, card) + heal
  IN  [b EXCEPT !.hp = AtLeast(AtMost(hp, card.maxHP), 0),
                !.ctr = IF b.status = "toxic" THEN @ + 1 ELSE @]

EndOfTurnTick(b, card) ==
  LET heal == IF card.ability = "regenerator" THEN AtLeast(card.maxHP \div 16, 1) ELSE 0
      hp == b.hp - Residual(b, card) + heal
  IN  IF Fainted(b) THEN b
      ELSE [b EXCEPT !.hp = AtLeast(AtMost(hp, card.maxHP), 0),
                     !.ctr = IF b.status = "toxic" THEN @ + 1 ELSE @]

TickCooldowns(b) == [b EXCEPT !.cooldowns = [k \in Slots |-> AtLeast(@[k] - 1, 0)]]

-----------------------------------------------------------------------------
(* Moves.  Their outcomes are pairs of the attacker and the defender.      *)

SkillFor(s, slot) == IF slot \in Slots THEN ActiveCard(s).skills[slot] ELSE NoSkill

ImmuneByAbility(card, skill) ==
  <<card.ability, skill.element>> \in {<<"levitate", "earth">>, <<"insulate", "electric">>}

Missed == -1

(* The accuracy gate; an accuracy above 100 bypasses it.                   *)
Connects(att, def, skill) ==
  IF skill.accuracy > 100 THEN {TRUE}
  ELSE Chance(EffAccuracy(skill.accuracy, att.stages["accuracy"], def.stages["evasion"]))

(* ComputeDamage: the damage a skill can do to def, whose card it is, or   *)
(* Missed.                                                                 *)
Damages(att, def, card, skill) ==
  LET factor == DualEffectiveness(skill.element, card.element1, card.element2)
      hits == IF factor = 0 THEN {0} ELSE 1 .. MaxDamage
  IN  IF skill.class = "status" \/ skill.power <= 0 THEN {0}
      ELSE UNION {IF c THEN hits ELSE {Missed} : c \in Connects(att, def, skill)}

(* Riders, in the order applyRiders has them; s is the attacking side.     *)
Static(s, o, skill, dmg) ==
  IF ActiveCard(1 - s).ability = "static" /\ skill.class = "physical" /\ dmg > 0
  THEN {o, [o EXCEPT !.att = ApplyStatus(@, ActiveCard(s), "paralysis")]}
  ELSE {o}

Target(o, eff) == IF eff.self THEN o.att ELSE o.def

OnTarget(o, eff, b) ==
  IF eff.self THEN [o EXCEPT !.att = b] ELSE [o EXCEPT !.def = b]

TargetCard(s, eff) == IF eff.self THEN ActiveCard(s) ELSE ActiveCard(1 - s)

(* A status chance of zero stands for certainty.                           *)
Inflict(s, o, eff) ==
  LET b == Target(o, eff)
      hit == IF eff.status = "sleep" THEN SetSleep(b)
             ELSE {ApplyStatus(b, TargetCard(s, eff), eff.status)}
  IN  IF eff.status = "none" THEN {o}
      ELSE UNION {IF lands THEN {OnTarget(o, eff, c) : c \in hit} ELSE {o}
                    : lands \in Chance(IF eff.chance = 0 THEN 100 ELSE eff.chance)}

Boosted(b, eff) ==
  [b EXCEPT !.stages = [x \in Stats |-> ClampStage(@[x], eff.stages[x])]]

Boost(o, eff) == OnTarget(o, eff, Boosted(Target(o, eff), eff))

HealAndRecoil(s, o, skill, dmg) ==
  LET max == ActiveCard(s).maxHP
      base == IF skill.class = "status" THEN max ELSE dmg
      healed == IF skill.effect.heal > 0
                THEN [o.att EXCEPT !.hp = AtMost(@ + (base * skill.effect.heal) \div 100, max)]
                ELSE o.att
  IN  [o EXCEPT !.att = Hurt(healed, (dmg * skill.effect.recoil) \div 100)]

Riders(s, o, skill, dmg) ==
  IF skill.effect = NoEffect
  THEN Static(s, o, skill, dmg)
  ELSE {HealAndRecoil(s, Boost(q, skill.effect), skill, dmg) :
          q \in UNION {Inflict(s, p, skill.effect) : p \in Static(s, o, skill, dmg)}}

(* The skill is used: its cooldown starts before anything can stop it.     *)
StartCooldown(b, slot, skill) ==
  IF skill.cooldown = 0 THEN b
  ELSE [b EXCEPT !.cooldowns[slot] = skill.cooldown, !.rest[slot] = 0]

UseSkill(s, o, slot, skill) ==
  LET used == [o EXCEPT !.att = StartCooldown(@, slot, skill)]
      foe == ActiveCard(1 - s)
  IN  IF ImmuneByAbility(foe, skill) THEN {used}
      ELSE UNION {IF dmg = Missed THEN {used}
                  ELSE Riders(s, [used EXCEPT !.def = Hurt(@, dmg)], skill, dmg)
                    : dmg \in Damages(used.att, used.def, foe, skill)}

(* executeMove, after the gate: a skill that is missing or cooling down    *)
(* fizzles.                                                                *)
CanUse(b, slot, skill) == skill # NoSkill /\ b.cooldowns[slot] = 0

ExecuteMove(s, slot) ==
  LET skill == SkillFor(s, slot)
      Act(gate) == [att |-> gate.b, def |-> ActiveBattler(1 - s)]
  IN  UNION {IF gate.go /\ CanUse(gate.b, slot, skill)
             THEN UseSkill(s, Act(gate), slot, skill)
             ELSE {Act(gate)}
               : gate \in PreMoveGate(ActiveBattler(s))}

-----------------------------------------------------------------------------
(* The turn.                                                               *)

(* Mutant of CheckVictory: a double KO goes to side 1.                     *)
CheckVictoryNoDraw ==
  LET a == HasUsable(party'[0])
      b == HasUsable(party'[1])
  IN  /\ over' = (over \/ ~a \/ ~b)
      /\ winner' = IF a /\ b THEN winner ELSE IF a THEN 0 ELSE 1

(* checkVictory, on the parties as they are after a step.                  *)
CheckVictory ==
  LET a == HasUsable(party'[0])
      b == HasUsable(party'[1])
  IN  /\ over' = (over \/ ~a \/ ~b)
      /\ winner' = IF a /\ b THEN winner ELSE IF a THEN 0 ELSE IF b THEN 1 ELSE -1

(* doSwitch ignores a switch that is not possible.                         *)
CanSwitch(s, act) ==
  /\ act.kind = "switch"
  /\ act.to \in DOMAIN party[s]
  /\ ~Fainted(party[s][act.to])
  /\ act.to # active[s]

(* Mutant of SwitchOut: the stages are kept.                               *)
SwitchOutBoosted(s, act) == party[s]

(* The battler that leaves the field loses its stages.                     *)
SwitchOut(s, act) ==
  IF CanSwitch(s, act) THEN [party[s] EXCEPT ![active[s]].stages = NoStages] ELSE party[s]

PriorityOf(act, card) ==
  IF act.kind # "move" THEN 6
  ELSE IF act.slot \in Slots /\ card.skills[act.slot] # NoSkill
       THEN card.skills[act.slot].priority
       ELSE 0

BeginTurn(as) ==
  /\ phase = "idle"
  /\ ~over
  /\ active' = [s \in Sides |-> IF CanSwitch(s, as[s]) THEN as[s].to ELSE active[s]]
  /\ party' = [s \in Sides |-> SwitchOut(s, as[s])]
  /\ LET prio(s) == PriorityOf(as[s], sheet[s][active'[s]])
     IN  \E first \in Sides :
           /\ prio(first) >= prio(1 - first)
           /\ todo' = <<first, 1 - first>>
  /\ acts' = as
  /\ phase' = "moves"
  /\ UNCHANGED <<sheet, over, winner>>

(* A side that switched, or whose active battler has fainted by now.       *)
Idle(s) == acts[s].kind # "move" \/ Fainted(ActiveBattler(s))

SkipMove ==
  /\ todo # <<>>
  /\ Idle(Head(todo))
  /\ todo' = Tail(todo)
  /\ UNCHANGED <<sheet, party, active, phase, acts, over, winner>>

Move ==
  /\ todo # <<>>
  /\ LET s == Head(todo)
     IN  /\ ~Idle(s)
         /\ \E o \in ExecuteMove(s, acts[s].slot) :
              party' = [party EXCEPT ![s][active[s]] = o.att,
                                     ![1 - s][active[1 - s]] = o.def]
  /\ CheckVictory
  /\ todo' = IF over' THEN <<>> ELSE Tail(todo)
  /\ UNCHANGED <<sheet, active, phase, acts>>

(* The actions are ResolveTurn's parameters: there are none between turns. *)
NoActs == [s \in Sides |-> [kind |-> "none"]]

Rested(b) == [b EXCEPT !.rest = [k \in Slots |-> AtMost(@[k] + 1, RestCap)]]

(* Mutant of Ticked: the bench cools down too.                             *)
TickedBench(s, i) ==
  LET b == party[s][i]
      residual == IF over THEN b ELSE EndOfTurnTick(b, sheet[s][i])
  IN  IF i = active[s] THEN Rested(TickCooldowns(residual)) ELSE TickCooldowns(b)

(* Residuals unless the battle is over; the cooldowns of the two in the    *)
(* field tick in any case, and nobody else's do.                           *)
Ticked(s, i) ==
  LET b == party[s][i]
      residual == IF over THEN b ELSE EndOfTurnTick(b, sheet[s][i])
  IN  IF i = active[s] THEN Rested(TickCooldowns(residual)) ELSE b

FinishTurn ==
  /\ phase = "moves"
  /\ todo = <<>>
  /\ party' = [s \in Sides |-> [i \in DOMAIN party[s] |-> Ticked(s, i)]]
  /\ IF over THEN UNCHANGED <<over, winner>> ELSE CheckVictory
  /\ phase' = "idle"
  /\ acts' = NoActs
  /\ UNCHANGED <<sheet, active, todo>>

-----------------------------------------------------------------------------

Init ==
  /\ sheet \in Sheets
  /\ party = [s \in Sides |-> [i \in DOMAIN sheet[s] |-> NewBattler(sheet[s][i])]]
  /\ active = [s \in Sides |-> 1]
  /\ phase = "idle"
  /\ acts = NoActs
  /\ todo = <<>>
  /\ over = FALSE
  /\ winner = -1

Next ==
  \/ \E as \in [Sides -> Actions] : BeginTurn(as)
  \/ SkipMove
  \/ Move
  \/ FinishTurn

Spec == Init /\ [][Next]_vars

-----------------------------------------------------------------------------
(* Properties.                                                             *)

(* Type correctness, with the ranges of HP, stages and cooldowns.          *)
Battler ==
  [hp : Nat, status : Statuses, ctr : Int, stages : [Stats -> -6 .. 6],
   cooldowns : [Slots -> Nat], rest : [Slots -> 0 .. RestCap]]

BattlerOK(b, card) ==
  /\ b \in Battler
  /\ b.hp <= card.maxHP
  /\ \A k \in Slots : b.cooldowns[k] > 0 =>
       card.skills[k] # NoSkill /\ b.cooldowns[k] <= card.skills[k].cooldown

TypeOK ==
  /\ sheet \in Sheets
  /\ DOMAIN party = Sides /\ active \in [Sides -> Nat]
  /\ \A s \in Sides :
       /\ party[s] \in [DOMAIN sheet[s] -> Battler]
       /\ \A i \in DOMAIN sheet[s] : BattlerOK(party[s][i], sheet[s][i])
       /\ active[s] \in DOMAIN sheet[s]
  /\ acts \in [Sides -> Actions \cup {[kind |-> "none"]}]
  /\ phase \in {"idle", "moves"}
  /\ todo \in {<<>>, <<0>>, <<1>>, <<0, 1>>, <<1, 0>>}
  /\ over \in BOOLEAN /\ winner \in {-1, 0, 1}

(* The match is over exactly when a side has nobody left, whichever of     *)
(* damage, recoil and residuals did it, and the winner is the side that    *)
(* has, or nobody when both fell at once.                                  *)
VictoryIffOut ==
  LET standing == {s \in Sides : HasUsable(party[s])}
  IN  /\ over <=> standing # Sides
      /\ winner = -1 <=> standing \in {{}, Sides}
      /\ \A s \in Sides : winner = s => standing = {s}

(* Nothing in a battle brings a fainted battler back, neither drain nor    *)
(* Regenerator: a team only ever gets smaller.                             *)
FaintedStaysFainted ==
  [][\A s \in Sides : \A i \in DOMAIN party[s] :
       Fainted(party[s][i]) => Fainted(party'[s][i])]_vars

(* "One status at a time": a condition is never replaced by another one;   *)
(* only sleep and ice end, by the battler's own move.                      *)
StatusKept ==
  [][\A s \in Sides : \A i \in DOMAIN party[s] :
       party[s][i].status \notin {"none", party'[s][i].status} =>
         /\ party[s][i].status \in {"sleep", "freeze"}
         /\ i = active[s] /\ todo # <<>> /\ s = Head(todo)]_vars

(* Boosts are volatile: who is not in the field has none, so none can be   *)
(* brought back in by switching.                                           *)
BenchIsReset ==
  \A s \in Sides : \A i \in DOMAIN party[s] :
    i # active[s] => party[s][i].stages = NoStages

(* Cooldown is "turns before reuse": however its owner is switched out and *)
(* in, a skill is used again only after that many turns in the field, the  *)
(* turn of its use included.  Turns on the bench do not count.             *)
CooldownHolds ==
  [][\A s \in Sides : \A i \in DOMAIN party[s] : \A k \in Slots :
       party'[s][i].rest[k] < party[s][i].rest[k] =>
         party[s][i].rest[k] >= AtMost(sheet[s][i].skills[k].cooldown, RestCap)]_vars

(* checkVictory: "if only the active fainted but the bench is alive, the   *)
(* engine waits for a switch action next turn (handled by the session      *)
(* layer forcing a switch)": the next turn begins with someone else.       *)
FaintedIsReplaced ==
  [][phase = "idle" /\ phase' = "moves" =>
       \A s \in Sides : Fainted(ActiveBattler(s)) => active'[s] # active[s]]_vars
=============================================================================
