------------------------------- MODULE Escrow -------------------------------
(***************************************************************************)
(* What trading promises: creatures change hands only when a deal between  *)
(* two accounts settles; it settles once, whole, and only while both       *)
(* parties consent to exactly the terms on the table, which can only name  *)
(* creatures their party owns at the moment they are put there.  No        *)
(* requests, locks, databases or id lists here: Profile implements this.   *)
(***************************************************************************)
CONSTANTS Accounts, Creatures, Deals

VARIABLES
  owner,  \* who owns each creature
  deal    \* the deals and their terms

NoDeal == [state |-> "none"]

Owned(a) == {c \in Creatures : owner[c] = a}

OnTable(d) == deal[d].state = "open"

Propose(d, a, b) ==
  /\ deal[d] = NoDeal
  /\ deal' = [deal EXCEPT ![d] =
       [state |-> "open", parties |-> <<a, b>>,
        terms |-> [x \in Accounts |-> {}], consent |-> {}]]
  /\ UNCHANGED owner

Party(d, x) == x = deal[d].parties[1] \/ x = deal[d].parties[2]

(* New terms void every consent given to the old ones.                     *)
Revise(d, x, S) ==
  /\ OnTable(d)
  /\ Party(d, x)
  /\ S \subseteq Owned(x)
  /\ deal' = [deal EXCEPT ![d].terms[x] = S, ![d].consent = {}]
  /\ UNCHANGED owner

Agree(d, x) ==
  /\ OnTable(d)
  /\ Party(d, x)
  /\ deal' = [deal EXCEPT ![d].consent = @ \cup {x}]
  /\ UNCHANGED owner

(* Each creature that one side alone offers changes hands; its party must  *)
(* still own it.                                                           *)
Settle(d) ==
  LET a == deal[d].parties[1]
      b == deal[d].parties[2]
      Gives(p, q) == deal[d].terms[p] \ deal[d].terms[q]
  IN  /\ OnTable(d)
      /\ {a, b} \subseteq deal[d].consent
      /\ Gives(a, b) \subseteq Owned(a)
      /\ Gives(b, a) \subseteq Owned(b)
      /\ owner' = [c \in Creatures |->
           CASE c \in Gives(a, b) -> b
             [] c \in Gives(b, a) -> a
             [] OTHER -> owner[c]]
      /\ deal' = [deal EXCEPT ![d].state = "committed"]

Void(d) ==
  /\ deal[d].state \in {"open", "cancelled"}
  /\ deal' = [deal EXCEPT ![d].state = "cancelled"]
  /\ UNCHANGED owner

(* The record of the deals is lost; nobody's creatures are.                *)
Forget ==
  /\ deal' = [d \in Deals |-> NoDeal]
  /\ UNCHANGED owner

Init ==
  /\ owner \in [Creatures -> Accounts]
  /\ deal = [d \in Deals |-> NoDeal]

Next ==
  \/ \E d \in Deals :
       \/ \E a, b \in Accounts : Propose(d, a, b)
       \/ \E x \in Accounts : Agree(d, x) \/ \E S \in SUBSET Creatures : Revise(d, x, S)
       \/ Settle(d)
       \/ Void(d)
  \/ Forget

Spec == Init /\ [][Next]_<<owner, deal>>
=============================================================================
