------------------------------- MODULE Match -------------------------------
(***************************************************************************)
(* What a match session promises, without inbox, timer, goroutines or      *)
(* connections: turns in which every side gets exactly one legal action,   *)
(* until the match is decided and the result is announced, once, or until  *)
(* the match is abandoned between two turns and has no result.             *)
(***************************************************************************)
CONSTANTS
  Sides,    \* the participants
  Legal,    \* the actions a side may take
  NoChoice  \* a side that has not got its action for this turn, not in Legal

VARIABLES
  choice,   \* the action of each side in the current turn
  decided,  \* the last turn has decided the match
  status    \* "on", "announced" or "abandoned"

vars == <<choice, decided, status>>

Empty == [s \in Sides |-> NoChoice]

Open(s) == choice[s] = NoChoice

(* Sides that have no action get one; the others keep what they have.      *)
Choose ==
  /\ status = "on"
  /\ ~decided
  /\ choice' \in [Sides -> Legal \cup {NoChoice}]
  /\ choice' # choice
  /\ \A s \in Sides : Open(s) \/ choice'[s] = choice[s]
  /\ UNCHANGED <<decided, status>>

(* The turn takes place when every side has its action.                    *)
Resolve ==
  /\ status = "on"
  /\ ~decided
  /\ \A s \in Sides : ~Open(s)
  /\ decided' \in BOOLEAN
  /\ choice' = Empty
  /\ UNCHANGED status

Announce ==
  /\ status = "on"
  /\ decided
  /\ status' = "announced"
  /\ UNCHANGED <<choice, decided>>

Abandon ==
  /\ status = "on"
  /\ ~decided
  /\ \E s \in Sides : Open(s)
  /\ status' = "abandoned"
  /\ UNCHANGED <<choice, decided>>

Init == choice = Empty /\ decided = FALSE /\ status = "on"

Next == Choose \/ Resolve \/ Announce \/ Abandon

Spec == Init /\ [][Next]_vars
=============================================================================
