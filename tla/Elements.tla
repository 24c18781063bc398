------------------------------ MODULE Elements ------------------------------
(***************************************************************************)
(* The twelve elements and the chart of how they meet (pkg/types): what    *)
(* the element of an attack does to a defender of one or two elements.     *)
(* The chart's multipliers 0, 0.5, 1 and 2 are counted in halves.          *)
(***************************************************************************)
EXTENDS Integers

Element ==
  {"neutral", "fire", "water", "grass", "electric", "earth",
   "air", "ice", "toxin", "mind", "spectre", "metal"}

(* The entries 2.0, 0.5 and 0.0 of the matrix: attacking and defending     *)
(* element.                                                                *)
Strong ==
  ({"fire"} \X {"grass", "ice", "metal"})
    \cup ({"water"} \X {"fire", "earth"})
    \cup ({"grass"} \X {"water", "earth"})
    \cup ({"electric"} \X {"water", "air"})
    \cup ({"earth"} \X {"fire", "electric", "toxin", "metal"})
    \cup ({"air"} \X {"grass"})
    \cup ({"ice"} \X {"grass", "earth", "air"})
    \cup ({"toxin"} \X {"grass"})
    \cup ({"mind"} \X {"toxin"})
    \cup ({"spectre"} \X {"mind", "spectre"})
    \cup ({"metal"} \X {"ice"})

Resisted ==
  ({"neutral"} \X {"spectre", "metal"})
    \cup ({"fire"} \X {"fire", "water"})
    \cup ({"water"} \X {"water", "grass"})
    \cup ({"grass"} \X {"fire", "grass", "air", "toxin", "metal"})
    \cup ({"electric"} \X {"grass", "electric"})
    \cup ({"earth"} \X {"water", "grass"})
    \cup ({"air"} \X {"electric", "metal"})
    \cup ({"ice"} \X {"fire", "water", "ice", "metal"})
    \cup ({"toxin"} \X {"earth", "toxin", "spectre"})
    \cup ({"mind"} \X {"mind"})
    \cup ({"metal"} \X {"fire", "water", "electric", "metal"})

Immune ==
  {<<"electric", "earth">>, <<"earth", "air">>, <<"toxin", "metal">>,
   <<"mind", "spectre">>, <<"spectre", "neutral">>}

(* In halves.                                                              *)
Effectiveness(attacker, defender) ==
  CASE <<attacker, defender>> \in Strong -> 4
    [] <<attacker, defender>> \in Resisted -> 1
    [] <<attacker, defender>> \in Immune -> 0
    [] OTHER -> 2

(* In quarters; a defender with one element has it twice.                  *)
DualEffectiveness(attacker, def1, def2) ==
  Effectiveness(attacker, def1) * (IF def2 # def1 THEN Effectiveness(attacker, def2) ELSE 2)
=============================================================================
