--------------------------- MODULE SessionProofs ---------------------------
(***************************************************************************)
(* Theorems about Session, for any sides, any number of pumps, any actions  *)
(* and any capacity of the inbox.                                          *)
(***************************************************************************)
EXTENDS Session, SequenceTheorems, TLAPS

-----------------------------------------------------------------------------
(* What the helpers return.                                                *)

(* An intent on its way stays one when it misses its turn.                 *)
LEMMA MarkLateType ==
  ASSUME NEW cmd \in Intent
  PROVE  MarkLate(cmd) \in Intent
BY DEF MarkLate, Intent

(* Marking the inbox keeps its type and its length.                        *)
LEMMA MarkedInbox ==
  ASSUME NEW q \in Seq(Intent)
  PROVE  /\ [i \in DOMAIN q |-> MarkLate(q[i])] \in Seq(Intent)
         /\ Len([i \in DOMAIN q |-> MarkLate(q[i])]) = Len(q)
<1> DEFINE r == [i \in 1..Len(q) |-> MarkLate(q[i])]
<1>1. DOMAIN q = 1..Len(q) /\ Len(q) \in Nat
  OBVIOUS
<1>2. \A i \in 1..Len(q) : r[i] \in Intent
  BY MarkLateType
<1>3. r \in Seq(Intent)
  BY <1>1, <1>2, IsASeq
<1>4. Len(r) = Len(q)
  BY <1>1, <1>3
<1> QED
  BY <1>1, <1>3, <1>4

(* The default is a legal pending intent, and so is what acceptIntent      *)
(* puts in; a side that has an intent keeps it.                            *)
LEMMA AcceptedPending ==
  ASSUME SessionAssumption, NEW cmd \in Intent,
         DOMAIN pending = Sides, \A s \in Sides : PendingOK(s)
  PROVE  /\ DOMAIN Accepted(cmd) = Sides
         /\ \A s \in Sides :
              \/ Accepted(cmd)[s] = pending[s]
              \/ /\ pending[s] = NoIntent
                 /\ Accepted(cmd)[s] \in Intent
                 /\ Accepted(cmd)[s].from = s
                 /\ Accepted(cmd)[s].action \in Legal
<1> DEFINE entry == [cmd EXCEPT !.action = IF @ \in Legal THEN @ ELSE Default]
<1>1. entry \in Intent /\ entry.from = cmd.from /\ entry.action \in Legal
  BY DEF SessionAssumption, Intent
<1>2. CASE cmd.from \in Sides /\ pending[cmd.from] = NoIntent
  <2>1. Accepted(cmd) = [pending EXCEPT ![cmd.from] = entry]
    BY <1>2 DEF Accepted
  <2> HIDE DEF entry
  <2> QED
    BY <2>1, <1>1, <1>2
<1>3. CASE ~(cmd.from \in Sides /\ pending[cmd.from] = NoIntent)
  BY <1>3 DEF Accepted
<1> QED
  BY <1>2, <1>3

-----------------------------------------------------------------------------
(* Types.                                                                  *)

LEMMA TypeInit == SessionAssumption /\ Init => TypeOK
<1> SUFFICES ASSUME SessionAssumption, Init PROVE TypeOK
  OBVIOUS
<1>1. inbox \in Seq(Intent) /\ Len(inbox) <= InboxCap
  BY DEF Init, SessionAssumption
<1>2. DOMAIN pending = Sides /\ \A s \in Sides : PendingOK(s)
  BY DEF Init, PendingOK
<1> QED
  BY <1>1, <1>2 DEF TypeOK, Init

LEMMA TypeStep == SessionAssumption /\ TypeOK /\ [Next]_vars => TypeOK'
<1> SUFFICES ASSUME SessionAssumption, TypeOK, [Next]_vars PROVE TypeOK'
  OBVIOUS
<1> USE DEF TypeOK
<1>1. ASSUME NEW p \in Pumps, NEW a \in Actions, Receive(p, a) PROVE TypeOK'
  <2>1. [from |-> PlayerOf[p], action |-> a, late |-> FALSE] \in Intent
    BY DEF Intent
  <2>2. (\A s \in Sides : PendingOK(s))'
    BY <1>1 DEF Receive, PendingOK
  <2> QED
    BY <1>1, <2>1, <2>2 DEF Receive
<1>2. ASSUME NEW p \in Pumps, Enqueue(p) PROVE TypeOK'
  <2>1. pump[p] \in Intent
    BY <1>2 DEF Enqueue, Submitting
  <2>2. inbox' \in Seq(Intent) /\ Len(inbox') = Len(inbox) + 1
    BY <1>2, <2>1 DEF Enqueue
  <2>3. Len(inbox') <= InboxCap
    BY <1>2, <2>2 DEF Enqueue, SessionAssumption
  <2>4. (\A s \in Sides : PendingOK(s))'
    BY <1>2 DEF Enqueue, PendingOK
  <2> QED
    BY <1>2, <2>2, <2>3, <2>4 DEF Enqueue
<1>3. ASSUME NEW p \in Pumps, Drop(p) PROVE TypeOK'
  <2>1. (\A s \in Sides : PendingOK(s))'
    BY <1>3 DEF Drop, PendingOK
  <2> QED
    BY <1>3, <2>1 DEF Drop
<1>4. CASE Start \/ Finish \/ Cancel \/ BeginResolve
  <2>1. (\A s \in Sides : PendingOK(s))'
    BY <1>4 DEF Start, Finish, Cancel, BeginResolve, PendingOK
  <2> QED
    BY <1>4, <2>1 DEF Start, Finish, Cancel, BeginResolve
<1>5. CASE BeginTurn
  <2>1. (\A s \in Sides : PendingOK(s))'
    BY <1>5 DEF BeginTurn, PendingOK
  <2> QED
    BY <1>5, <2>1 DEF BeginTurn
<1>6. CASE Timeout
  <2>1. DOMAIN pending' = Sides
    BY <1>6 DEF Timeout, FillDefaults
  <2>2. (\A s \in Sides : PendingOK(s))'
    BY <1>6 DEF Timeout, FillDefaults, PendingOK
  <2> QED
    BY <1>6, <2>1, <2>2 DEF Timeout
<1>7. CASE Accept
  <2>1. Head(inbox) \in Intent
    BY <1>7 DEF Accept
  <2>2. inbox' \in Seq(Intent) /\ Len(inbox') = Len(inbox) - 1
    BY <1>7 DEF Accept
  <2>3. DOMAIN pending' = Sides /\ (\A s \in Sides : PendingOK(s))'
    BY <1>7, <2>1, AcceptedPending DEF Accept, PendingOK
  <2>4. Len(inbox') <= InboxCap
    BY <2>2 DEF SessionAssumption
  <2> QED
    BY <1>7, <2>2, <2>3, <2>4 DEF Accept
<1>8. CASE EndResolve
  <2>1. inbox' \in Seq(Intent) /\ Len(inbox') = Len(inbox)
    BY <1>8, MarkedInbox DEF EndResolve
  <2>2. pump' \in [Pumps -> Intent \cup {Reading}]
    BY <1>8, MarkLateType DEF EndResolve, Submitting
  <2>3. (\A s \in Sides : PendingOK(s))'
    BY <1>8 DEF EndResolve, PendingOK
  <2> QED
    BY <1>8, <2>1, <2>2, <2>3 DEF EndResolve
<1>9. CASE UNCHANGED vars
  <2>1. (\A s \in Sides : PendingOK(s))'
    BY <1>9 DEF vars, PendingOK
  <2> QED
    BY <1>9, <2>1 DEF vars
<1> QED
  BY <1>1, <1>2, <1>3, <1>4, <1>5, <1>6, <1>7, <1>8, <1>9 DEF Next, PumpStep, LoopStep

(* Whatever the clients send, what is pending for a side is the timer's    *)
(* default or an intent of that side that is legal, and the inbox keeps    *)
(* to its capacity.                                                        *)
THEOREM TypeCorrect == Spec => []TypeOK
<1>1. Init => TypeOK
  BY TypeInit, SessionAssumption
<1>2. TypeOK /\ [Next]_vars => TypeOK'
  BY TypeStep, SessionAssumption
<1> QED
  BY <1>1, <1>2, PTL DEF Spec

-----------------------------------------------------------------------------
(* One intent per side and turn.                                           *)

LEMMA FirstIntentStep ==
  SessionAssumption /\ TypeOK /\ [Next]_vars =>
    [\A s \in Sides : pc # "turn" /\ pending[s] # NoIntent => pending'[s] = pending[s]]_vars
<1> SUFFICES ASSUME SessionAssumption, TypeOK, [Next]_vars,
                    NEW s \in Sides, pc # "turn", pending[s] # NoIntent
             PROVE  pending'[s] = pending[s]
  OBVIOUS
<1>1. CASE \E p \in Pumps : PumpStep(p)
  BY <1>1 DEF PumpStep, Receive, Enqueue, Drop
<1>2. CASE LoopStep \/ Cancel
  BY <1>2 DEF LoopStep, Start, Finish, BeginTurn, BeginResolve, EndResolve, Cancel
<1>3. CASE Timeout
  BY <1>3 DEF Timeout, FillDefaults
<1>4. CASE Accept
  <2>1. Head(inbox) \in Intent
    BY <1>4 DEF Accept, TypeOK
  <2> QED
    BY <1>4, <2>1, AcceptedPending DEF Accept, TypeOK
<1>5. CASE UNCHANGED vars
  BY <1>5 DEF vars
<1> QED
  BY <1>1, <1>2, <1>3, <1>4, <1>5 DEF Next

(* Neither a second connection of the player, nor a stranger, nor the      *)
(* timer replaces an intent that has been accepted for the turn.           *)
THEOREM FirstIntentStays == Spec => FirstIntentWins
<1>1. TypeOK /\ [Next]_vars =>
        [\A s \in Sides : pc # "turn" /\ pending[s] # NoIntent => pending'[s] = pending[s]]_vars
  BY FirstIntentStep, SessionAssumption
<1> QED
  BY <1>1, TypeCorrect, PTL DEF Spec, FirstIntentWins

-----------------------------------------------------------------------------
(* How a match ends.  That a turn is resolved on a battle that is not over *)
(* is known since the top of the turn, and Over moves in ResolveTurn only. *)

OverKnown == pc \in {"start", "select", "resolve"} => ~over

ClosedInv == MatchClosed /\ OverKnown

LEMMA ClosedStep == TypeOK /\ ClosedInv /\ [Next]_vars => ClosedInv'
<1> SUFFICES ASSUME TypeOK, ClosedInv, [Next]_vars PROVE ClosedInv'
  OBVIOUS
<1> USE DEF ClosedInv, MatchClosed, OverKnown, BothReady
<1>1. CASE \E p \in Pumps : PumpStep(p)
  BY <1>1 DEF PumpStep, Receive, Enqueue, Drop
<1>2. CASE Start \/ Finish \/ BeginTurn
  BY <1>2 DEF Start, Finish, BeginTurn
<1>3. CASE BeginResolve
  BY <1>3 DEF BeginResolve
<1>4. CASE EndResolve
  BY <1>4 DEF EndResolve
<1>5. CASE Cancel
  BY <1>5 DEF Cancel, Selecting
<1>6. CASE Timeout \/ Accept
  BY <1>6 DEF Timeout, Accept, Selecting
<1>7. CASE UNCHANGED vars
  BY <1>7 DEF vars
<1> QED
  BY <1>1, <1>2, <1>3, <1>4, <1>5, <1>6, <1>7 DEF Next, LoopStep

(* ResolveTurn only ever gets two intents and a battle that goes on; Run   *)
(* reports a result when, and only when, it ends a decided battle.         *)
THEOREM MatchEndsClean == Spec => []MatchClosed
<1>1. Init => ClosedInv
  BY DEF Init, ClosedInv, MatchClosed, OverKnown
<1>2. TypeOK /\ ClosedInv /\ [Next]_vars => ClosedInv'
  BY ClosedStep
<1>3. ClosedInv => MatchClosed
  BY DEF ClosedInv
<1> QED
  BY <1>1, <1>2, <1>3, TypeCorrect, PTL DEF Spec

-----------------------------------------------------------------------------
(* Session implements Match: every step of it is a step of Match or leaves *)
(* the choices, the decision and the status alone.                         *)

Choices == [s \in Sides |-> ChoiceOf(s)]

(* What is pending stands for a legal choice, or for none.                 *)
LEMMA ChoiceType ==
  ASSUME SessionAssumption, TypeOK, NEW s \in Sides
  PROVE  /\ ChoiceOf(s) \in Legal \cup {NoIntent}
         /\ pc \notin {"start", "turn", "ended"} =>
              (ChoiceOf(s) = NoIntent <=> pending[s] = NoIntent)
<1>1. PendingOK(s)
  BY DEF TypeOK
<1>2. pending[s] # NoIntent => pending[s].action \in Legal
  BY <1>1 DEF PendingOK, TimerIntent, SessionAssumption
<1> QED
  BY <1>2 DEF ChoiceOf, SessionAssumption

(* While it collects intents, a step that keeps those that are there and   *)
(* leaves the rest of the match alone is Choose or nothing.                *)
LEMMA CollectMaps ==
  ASSUME SessionAssumption, TypeOK, TypeOK', Selecting, ~over,
         UNCHANGED <<pc, over>>,
         \A s \in Sides : pending[s] # NoIntent => pending'[s] = pending[s]
  PROVE  M!Choose \/ UNCHANGED M!vars
<1>1. Choices' \in [Sides -> Legal \cup {NoIntent}]
  <2>1. \A s \in Sides : ChoiceOf(s)' \in Legal \cup {NoIntent}
    <3> TAKE s \in Sides
    <3>1. (PendingOK(s))'
      BY DEF TypeOK
    <3>2. pending'[s] # NoIntent => pending'[s].action \in Legal
      BY <3>1 DEF PendingOK, TimerIntent, SessionAssumption
    <3> QED
      BY <3>2 DEF ChoiceOf
  <2> QED
    BY <2>1 DEF Choices
<1>2. \A s \in Sides : ChoiceOf(s) = NoIntent \/ ChoiceOf(s)' = ChoiceOf(s)
  BY DEF ChoiceOf, Selecting
<1>3. MatchStatus = "on" /\ UNCHANGED MatchStatus
  BY DEF MatchStatus, Selecting
<1> QED
  BY <1>1, <1>2, <1>3 DEF M!Choose, M!Open, M!vars, Choices

LEMMA MatchInit == Init => M!Init
BY DEF Init, M!Init, M!Empty, ChoiceOf, MatchStatus

LEMMA MatchStep ==
  SessionAssumption /\ TypeOK /\ TypeOK' /\ ClosedInv /\ [Next]_vars => [M!Next]_M!vars
<1> SUFFICES ASSUME SessionAssumption, TypeOK, TypeOK', ClosedInv, [Next]_vars
             PROVE  M!Next \/ UNCHANGED M!vars
  OBVIOUS
<1>1. CASE \E p \in Pumps : PumpStep(p)
  BY <1>1 DEF PumpStep, Receive, Enqueue, Drop, M!vars, ChoiceOf, MatchStatus
<1>2. CASE Start \/ BeginTurn \/ BeginResolve
  BY <1>2 DEF Start, BeginTurn, BeginResolve, M!vars, ChoiceOf, MatchStatus
<1>3. CASE Finish
  <2>1. M!Announce
    BY <1>3 DEF Finish, M!Announce, ChoiceOf, MatchStatus
  <2> QED
    BY <2>1 DEF M!Next
<1>4. CASE EndResolve
  <2>1. BothReady /\ ~over
    BY <1>4 DEF EndResolve, ClosedInv, MatchClosed
  <2>2. \A s \in Sides : ChoiceOf(s) # NoIntent
    BY <1>4, <2>1, ChoiceType DEF EndResolve, BothReady
  <2>3. MatchStatus = "on" /\ UNCHANGED MatchStatus
    BY <1>4 DEF EndResolve, MatchStatus
  <2>4. Choices' = [s \in Sides |-> NoIntent]
    BY <1>4 DEF EndResolve, ChoiceOf, Choices
  <2>5. M!Resolve
    BY <1>4, <2>1, <2>2, <2>3, <2>4 DEF EndResolve, M!Resolve, M!Open, M!Empty, Choices
  <2> QED
    BY <2>5 DEF M!Next
<1>5. CASE Cancel
  <2>1. ~over /\ Selecting
    BY <1>5 DEF Cancel, Selecting, ClosedInv, OverKnown
  <2>2. PICK s \in Sides : pending[s] = NoIntent
    BY <2>1 DEF Selecting, BothReady
  <2>3. ChoiceOf(s) = NoIntent
    BY <2>2 DEF ChoiceOf
  <2>4. UNCHANGED Choices
    BY <1>5 DEF Cancel, Choices, ChoiceOf, Selecting
  <2>5. M!Abandon
    BY <1>5, <2>1, <2>3, <2>4 DEF Cancel, M!Abandon, M!Open, MatchStatus, Selecting, Choices
  <2> QED
    BY <2>5 DEF M!Next
<1>6. CASE Timeout
  <2>1. ~over
    BY <1>6 DEF Timeout, Selecting, ClosedInv, OverKnown
  <2>2. \A s \in Sides : pending[s] # NoIntent => pending'[s] = pending[s]
    BY <1>6 DEF Timeout, FillDefaults
  <2>3. M!Choose \/ UNCHANGED M!vars
    BY <1>6, <2>1, <2>2, CollectMaps DEF Timeout
  <2> QED
    BY <2>3 DEF M!Next
<1>7. CASE Accept
  <2>1. ~over /\ pc # "turn"
    BY <1>7 DEF Accept, Selecting, ClosedInv, OverKnown
  <2>2. \A s \in Sides : pending[s] # NoIntent => pending'[s] = pending[s]
    <3>1. Head(inbox) \in Intent
      BY <1>7 DEF Accept, TypeOK
    <3> QED
      BY <1>7, <3>1, AcceptedPending DEF Accept, TypeOK
  <2>3. M!Choose \/ UNCHANGED M!vars
    BY <1>7, <2>1, <2>2, CollectMaps DEF Accept
  <2> QED
    BY <2>3 DEF M!Next
<1>8. CASE UNCHANGED vars
  BY <1>8 DEF vars, M!vars, ChoiceOf, MatchStatus
<1> QED
  BY <1>1, <1>2, <1>3, <1>4, <1>5, <1>6, <1>7, <1>8 DEF Next, LoopStep

(* Inbox, pumps, timer and strangers add nothing to what Match allows: in  *)
(* every turn each side gets one legal action and keeps it, the turn takes *)
(* place when all have one, and a result is announced for a decided match  *)
(* and no other.                                                           *)
THEOREM SessionImplementsMatch == Spec => ImplementsMatch
<1>1. Init => M!Init
  BY MatchInit
<1>2. TypeOK /\ TypeOK' /\ ClosedInv /\ [Next]_vars => [M!Next]_M!vars
  BY MatchStep, SessionAssumption
<1>3. Spec => []ClosedInv
  <2>1. Init => ClosedInv
    BY DEF Init, ClosedInv, MatchClosed, OverKnown
  <2>2. TypeOK /\ ClosedInv /\ [Next]_vars => ClosedInv'
    BY ClosedStep
  <2> QED
    BY <2>1, <2>2, TypeCorrect, PTL DEF Spec
<1> QED
  BY <1>1, <1>2, <1>3, TypeCorrect, PTL DEF Spec, ImplementsMatch, M!Spec
=============================================================================
