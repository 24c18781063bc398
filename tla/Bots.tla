-------------------------------- MODULE Bots --------------------------------
(***************************************************************************)
(* The battle AI and the bots that play with it: what a bot may decide for *)
(* its side, in any state of a battle.  Deciding reads the battle and      *)
(* changes nothing; the decision goes to the session like any intent.      *)
(*                                                                         *)
(* Scores are counted in 1/800: multipliers come in quarters and halves,   *)
(* accuracies in percent.                                                  *)
(***************************************************************************)
EXTENDS Battle, FiniteSets

(* A battler has four skill slots.  buildBattler fills one at least, and   *)
(* the Dex only loads if the skills that learnsets name are in it.         *)
ASSUME BotsAssumption ==
  /\ Slots \subseteq 0 .. 3
  /\ \A roster \in Sheets : \A s \in Sides : \A i \in DOMAIN roster[s] :
       \E k \in Slots : roster[s][i].skills[k] # NoSkill

(* What a loop over indices collects, in the order it comes to them.       *)
InOrder(S) ==
  CHOOSE q \in [1 .. Cardinality(S) -> S] : \A m, n \in DOMAIN q : m < n => q[m] < q[n]

One == 800

(* Difficulty.mistakeChance, in percent.                                   *)
MistakeChance == [easy |-> 35, normal |-> 15, hard |-> 3, boss |-> 0]

Foe(s) == 1 - s

(* What hits a battler with this card when the foe attacks, in quarters.   *)
Incoming(s, card) ==
  DualEffectiveness(ActiveCard(Foe(s)).element1, card.element1, card.element2)

HardCounter(s) == Incoming(s, ActiveCard(s)) >= 8

Critical(s) == 4 * ActiveBattler(s).hp < ActiveCard(s).maxHP

ScoreStatus(s, skill) ==
  LET foe == ActiveBattler(Foe(s))
  IN  IF /\ skill.effect # NoEffect /\ skill.effect.status # "none"
         /\ foe.status = "none"
         /\ 2 * foe.hp > ActiveCard(Foe(s)).maxHP
      THEN 60 * One ELSE 20 * One

ScoreMove(s, skill) ==
  LET self == ActiveCard(s)
      foe == ActiveCard(Foe(s))
      eff == DualEffectiveness(skill.element, foe.element1, foe.element2)
      stab == IF skill.element \in {self.element1, self.element2} THEN 3 ELSE 2
      expected == skill.power * eff * stab * AtMost(skill.accuracy, 100)
      lethal == expected * foe.maxHP > 250 * One * ActiveBattler(Foe(s)).hp
  IN  IF skill.class = "status" THEN ScoreStatus(s, skill)
      ELSE IF eff > 0 /\ lethal THEN expected + 120 * One ELSE expected

ScoreSwitch(s, to) ==
  LET resist == (8 - Incoming(s, sheet[s][to])) * 30
      urgency == (IF HardCounter(s) THEN 40 ELSE 0) + (IF Critical(s) THEN 40 ELSE 0)
  IN  resist * (One \div 4) + (urgency - 15) * One

ShouldConsiderSwitch(s) == HardCounter(s) \/ Critical(s)

(* The bot's view of its skills leaves the cooldowns out.                  *)
MoveOptions(s) ==
  LET slots == InOrder({k \in Slots : ActiveCard(s).skills[k] # NoSkill})
  IN  [n \in DOMAIN slots |->
         [act |-> [kind |-> "move", slot |-> slots[n]],
          score |-> ScoreMove(s, ActiveCard(s).skills[slots[n]])]]

Bench(s) == InOrder(DOMAIN party[s] \ {active[s]})

(* Mutant of SwitchTo: the position on the bench is taken for the position *)
(* in the party.                                                           *)
SwitchToBench(bench, n) == n

SwitchTo(bench, n) == bench[n]

SwitchOptions(s) ==
  LET bench == Bench(s)
      fit == InOrder({n \in DOMAIN bench : ~Fainted(party[s][bench[n]])})
  IN  [m \in DOMAIN fit |->
         [act |-> [kind |-> "switch", to |-> SwitchTo(bench, fit[m])],
          score |-> ScoreSwitch(s, bench[fit[m]])]]

Options(s) ==
  MoveOptions(s) \o (IF ShouldConsiderSwitch(s) THEN SwitchOptions(s) ELSE <<>>)

(* Mutant of Better: the old best is forgotten.                            *)
BetterOnly(options, r, i) ==
  IF options[i].score > options[r.best].score THEN [r EXCEPT !.best = i]
  ELSE IF options[i].score > options[r.second].score \/ r.second = r.best
  THEN [r EXCEPT !.second = i]
  ELSE r

(* The loop's step with option i: where the best two are.                  *)
Better(options, r, i) ==
  IF options[i].score > options[r.best].score THEN [best |-> i, second |-> r.best]
  ELSE IF options[i].score > options[r.second].score \/ r.second = r.best
  THEN [r EXCEPT !.second = i]
  ELSE r

(* What the loop has found after each option.                              *)
Scan(options) ==
  LET r[n \in DOMAIN options] ==
        IF n = 1 THEN [best |-> 1, second |-> 1] ELSE Better(options, r[n - 1], n)
  IN  r

Rank(options) == Scan(options)[Len(options)]

(* ChooseAction: the best option, or by mistake the second best.  Without  *)
(* an option the bot looks up slot 0 of an empty list, and panics.         *)
ChooseAction(options, difficulty) ==
  LET r == Rank(options)
  IN  IF options = <<>> THEN {}
      ELSE {options[IF slip THEN r.second ELSE r.best]
              : slip \in Chance(MistakeChance[difficulty])}

FirstHealthy(s) ==
  CHOOSE i \in DOMAIN party[s] :
    ~Fainted(party[s][i]) /\ \A j \in 1 .. (i - 1) : Fainted(party[s][j])

(* decide: a fainted battler is replaced, the rest is up to the AI.        *)
Decide(s) ==
  IF Fainted(ActiveBattler(s))
  THEN {IF HasUsable(party[s]) THEN [kind |-> "switch", to |-> FirstHealthy(s)]
        ELSE [kind |-> "move", slot |-> 0]}
  ELSE {o.act : o \in ChooseAction(Options(s), "normal")}

-----------------------------------------------------------------------------
(* Properties.                                                             *)

(* As long as its side has somebody left, a bot decides, and for one of    *)
(* two things: a switch that doSwitch carries out, or a move of a skill    *)
(* that its battler in the field has, if that one stands.  So a fainted    *)
(* battler is replaced, as checkVictory expects of the session.  The move  *)
(* may still fizzle: nothing here keeps a bot from a skill that is cooling *)
(* down.                                                                   *)
BotsActLegally ==
  \A s \in Sides : HasUsable(party[s]) =>
    /\ Decide(s) # {}
    /\ \A act \in Decide(s) :
         \/ CanSwitch(s, act)
         \/ /\ act.kind = "move" /\ ~Fainted(ActiveBattler(s))
            /\ SkillFor(s, act.slot) # NoSkill

(* mistakeChance is the chance of "the 2nd-best action instead of the      *)
(* best": whatever the order of the options, at most one of them scores    *)
(* more than the chosen one, and none does when no mistake is made.        *)
MistakesAreSmall ==
  \A s \in Sides :
    LET options == Options(s)
        Above(o) == {n \in DOMAIN options : options[n].score > o.score}
    IN  /\ \A o \in ChooseAction(options, "normal") :
             \A n, m \in Above(o) : n = m
        /\ \A o \in ChooseAction(options, "boss") : Above(o) = {}
=============================================================================
