------------------------------ MODULE MCBattle ------------------------------
(* Small rosters for TLC.                                                  *)
EXTENDS Bots, TLC

Strike ==
  [class |-> "physical", element |-> "neutral", power |-> 40, accuracy |-> 95,
   priority |-> 0, cooldown |-> 0, effect |-> NoEffect]

Plain ==
  [self |-> FALSE, status |-> "none", chance |-> 0,
   stages |-> [x \in Stats |-> 0], heal |-> 0, recoil |-> 0]

(* A skill without power that works by its effect alone.                   *)
Spell(effect) ==
  [Strike EXCEPT !.class = "status", !.power = 0, !.effect = effect]

Knows(first, second) == (0 :> first) @@ (1 :> second)

Fighter(max, ability, skills) ==
  [maxHP |-> max, hp |-> 0, status |-> "none", ability |-> ability,
   immune |-> {}, element1 |-> "neutral", element2 |-> "neutral", skills |-> skills]

Move0 == [kind |-> "move", slot |-> 0]
Move1 == [kind |-> "move", slot |-> 1]
Swap(i) == [kind |-> "switch", to |-> i]

TwoMoves == {Move0, Move1}
MoveOrSwap == {Move0, Swap(1), Swap(2)}
Anything == {Move0, Move1, Swap(1), Swap(2), Swap(3)}

-----------------------------------------------------------------------------
(* Drain and recoil against toxin and Regenerator; the second battler of   *)
(* side 0 is hurt when it joins, and the toxin's hit does not touch it.    *)
(* The first one is at a disadvantage against electricity, the second not. *)
Drain == [Strike EXCEPT !.effect = [Plain EXCEPT !.heal = 100]]
Reckless == [Strike EXCEPT !.accuracy = 101, !.effect = [Plain EXCEPT !.recoil = 100]]
Toxin == [Strike EXCEPT !.element = "toxin",
                        !.effect = [Plain EXCEPT !.status = "toxic", !.chance = 30]]

Attrition == (0 :> <<[Fighter(3, "regenerator", Knows(Reckless, Drain)) EXCEPT !.element1 = "air"],
                     [Fighter(2, "none", Knows(Drain, NoSkill))
                        EXCEPT !.hp = 1, !.element1 = "electric", !.element2 = "metal"]>>)
          @@ (1 :> <<[Fighter(4, "none", Knows(Toxin, Reckless)) EXCEPT !.element1 = "electric"]>>)

-----------------------------------------------------------------------------
(* Every condition: sleep, ice and burn by skills, paralysis by Static,    *)
(* one battler that arrives asleep and cannot freeze.                      *)
Lullaby == Spell([Plain EXCEPT !.status = "sleep", !.chance = 75])
IceBeam == [Strike EXCEPT !.class = "special", !.effect = [Plain EXCEPT !.status = "freeze"]]
Ember == [Strike EXCEPT !.class = "special", !.priority = 1,
                        !.effect = [Plain EXCEPT !.status = "burn", !.chance = 10]]

Ailments == (0 :> <<Fighter(2, "none", Knows(Lullaby, Strike)),
                    [Fighter(2, "none", Knows(Ember, NoSkill)) EXCEPT !.status = "sleep",
                                                                      !.immune = {"freeze"}]>>)
         @@ (1 :> <<Fighter(2, "static", Knows(IceBeam, Lullaby))>>)

-----------------------------------------------------------------------------
(* A boost of oneself, a drop of the other's stat.                         *)
Surge == Spell([Plain EXCEPT !.self = TRUE, !.stages = [x \in Stats |-> 5]])
Spike == [Strike EXCEPT !.effect = [Plain EXCEPT !.stages = [x \in Stats |-> -4]]]

Boosters == (0 :> <<Fighter(2, "none", Knows(Surge, Spike)), Fighter(1, "none", Knows(Spike, Surge))>>)
         @@ (1 :> <<Fighter(2, "none", Knows(Spike, Surge)), Fighter(1, "none", Knows(Surge, Spike))>>)

-----------------------------------------------------------------------------
(* Skills that need two and three turns, on a side that can switch; the    *)
(* other floats above one of them.                                         *)
Pyre == [Strike EXCEPT !.cooldown = 2]
Quake == [Strike EXCEPT !.element = "earth", !.cooldown = 3]

Chargers == (0 :> <<Fighter(1, "none", Knows(Pyre, Quake)), Fighter(1, "none", Knows(Pyre, NoSkill))>>)
         @@ (1 :> <<Fighter(2, "levitate", Knows(Strike, Pyre))>>)
-----------------------------------------------------------------------------
AllRosters == {Attrition, Ailments, Boosters, Chargers}
OneRoster == {Boosters}
=============================================================================
