------------------------------ MODULE Session ------------------------------
(***************************************************************************)
(* The server-authoritative match session: the run loop that owns the      *)
(* engine, the bounded inbox, the one-shot turn timer, and the read pumps  *)
(* (one goroutine per client connection) that submit intents.  Their       *)
(* answers to resync requests are in WSTransport.                          *)
(*                                                                         *)
(* A turn of the engine is a choice of whether the match ends; Battle has  *)
(* the engine.  The field phase and an intent's Seq are never read and are *)
(* left out.  So is the error return of ResolveTurn ("battle already       *)
(* concluded"): MatchClosed shows that the run loop never resolves a       *)
(* concluded battle.                                                       *)
(***************************************************************************)
EXTENDS Integers, Sequences

CONSTANTS
  Sides,      \* the two participants
  Pumps,      \* read pumps; a player who reconnects has several
  PlayerOf,   \* account behind each pump, not always a participant
  Actions,    \* engine actions a client message decodes to
  Legal,      \* the actions that validate accepts
  Default,    \* use skill slot 0
  InboxCap,   \* capacity of the inbox channel
  NoIntent,   \* nothing pending
  Reading     \* a pump that waits for a frame

ASSUME SessionAssumption ==
  /\ InboxCap \in Nat \ {0}
  /\ Legal \subseteq Actions
  /\ NoIntent \notin Legal
  /\ Default \in Legal

VARIABLES
  pc,       \* where the run loop is
  over,     \* Battle.Over
  timer,    \* the turn timer has not fired yet
  pending,  \* accepted intent of each side
  inbox,    \* the inbox channel
  pump,     \* what each read pump is doing
  report    \* OnEnd has been called

vars == <<pc, over, timer, pending, inbox, pump, report>>

-----------------------------------------------------------------------------
(* An intent and the account that submits it.  late is a history field:    *)
(* the turn it was submitted for has been resolved without it.             *)
Intent == [from : {PlayerOf[p] : p \in Pumps}, action : Actions, late : BOOLEAN]

(* What fillDefaults puts in for a side.                                   *)
TimerIntent == [action |-> Default]

(* Mutant of BothReady: one side is enough.                                *)
AnyReady == \E s \in Sides : pending[s] # NoIntent

BothReady == \A s \in Sides : pending[s] # NoIntent

Selecting == pc = "select" /\ ~BothReady

(* Mutant of Done: the done channel is only closed when the match ends.    *)
DoneWhenEnded == pc = "ended"

Done == pc \in {"ended", "cancelled"}

-----------------------------------------------------------------------------
(* Read pumps.                                                             *)

(* An action frame arrives and the pump calls Submit.                      *)
Receive(p, a) ==
  /\ pump[p] = Reading
  /\ pump' = [pump EXCEPT ![p] = [from |-> PlayerOf[p], action |-> a, late |-> FALSE]]
  /\ UNCHANGED <<pc, over, timer, pending, inbox, report>>

Submitting(p) == pump[p] # Reading

(* Submit: the channel has room.                                           *)
Enqueue(p) ==
  /\ Submitting(p)
  /\ Len(inbox) < InboxCap
  /\ inbox' = Append(inbox, pump[p])
  /\ pump' = [pump EXCEPT ![p] = Reading]
  /\ UNCHANGED <<pc, over, timer, pending, report>>

(* Submit: the session is done.                                            *)
Drop(p) ==
  /\ Submitting(p)
  /\ Done
  /\ pump' = [pump EXCEPT ![p] = Reading]
  /\ UNCHANGED <<pc, over, timer, pending, inbox, report>>

-----------------------------------------------------------------------------
(* The run loop.                                                           *)

Start ==
  /\ pc = "start"
  /\ pc' = "turn"
  /\ UNCHANGED <<over, timer, pending, inbox, pump, report>>

(* The battle is over: OnEnd, broadcastEnd, and done is closed.            *)
Finish ==
  /\ pc = "turn"
  /\ over
  /\ pc' = "ended"
  /\ report' = TRUE
  /\ UNCHANGED <<over, timer, pending, inbox, pump>>

(* Mutant of BeginTurn: Over is not looked at.                             *)
BeginTurnAnyway ==
  /\ pc = "turn"
  /\ pc' = "select"
  /\ timer' = TRUE
  /\ pending' = [s \in Sides |-> NoIntent]
  /\ UNCHANGED <<over, inbox, pump, report>>

BeginTurn ==
  /\ pc = "turn"
  /\ ~over
  /\ pc' = "select"
  /\ timer' = TRUE
  /\ pending' = [s \in Sides |-> NoIntent]
  /\ UNCHANGED <<over, inbox, pump, report>>

(* ctx is done: Run returns without a report; done is closed.              *)
Cancel ==
  /\ Selecting
  /\ pc' = "cancelled"
  /\ timer' = FALSE
  /\ UNCHANGED <<over, pending, inbox, pump, report>>

(* Mutants of FillDefaults: one replaces intents that are there, the other *)
(* stops at the first side that has one.                                   *)
FillAll == [s \in Sides |-> TimerIntent]

FillNone ==
  IF \E s \in Sides : pending[s] # NoIntent THEN pending
  ELSE [s \in Sides |-> TimerIntent]

(* fillDefaults: every side that has no intent gets the default.           *)
FillDefaults ==
  [s \in Sides |-> IF pending[s] = NoIntent THEN TimerIntent ELSE pending[s]]

Timeout ==
  /\ Selecting
  /\ timer
  /\ timer' = FALSE
  /\ pending' = FillDefaults
  /\ UNCHANGED <<pc, over, inbox, pump, report>>

(* Mutant of Accepted: the action is not validated.                        *)
AcceptedUnchecked(cmd) ==
  IF cmd.from \in Sides /\ pending[cmd.from] = NoIntent
  THEN [pending EXCEPT ![cmd.from] = cmd]
  ELSE pending

(* acceptIntent: strangers and sides that already have an intent are       *)
(* ignored, an illegal action becomes the default.                         *)
Accepted(cmd) ==
  IF cmd.from \in Sides /\ pending[cmd.from] = NoIntent
  THEN [pending EXCEPT ![cmd.from] =
          [cmd EXCEPT !.action = IF @ \in Legal THEN @ ELSE Default]]
  ELSE pending

Accept ==
  /\ Selecting
  /\ inbox # <<>>
  /\ pending' = Accepted(Head(inbox))
  /\ inbox' = Tail(inbox)
  /\ UNCHANGED <<pc, over, timer, pump, report>>

(* The timer is stopped and ResolveTurn runs.                              *)
BeginResolve ==
  /\ pc = "select"
  /\ BothReady
  /\ pc' = "resolve"
  /\ timer' = FALSE
  /\ UNCHANGED <<over, pending, inbox, pump, report>>

MarkLate(cmd) == [cmd EXCEPT !.late = TRUE]

(* ResolveTurn returns; OnTurn records the actions, the turn is broadcast. *)
(* Intents on their way to the run loop have missed this turn.             *)
EndResolve ==
  /\ pc = "resolve"
  /\ pc' = "turn"
  /\ over' \in BOOLEAN
  /\ inbox' = [i \in DOMAIN inbox |-> MarkLate(inbox[i])]
  /\ pump' = [p \in Pumps |-> IF Submitting(p) THEN MarkLate(pump[p]) ELSE pump[p]]
  /\ UNCHANGED <<timer, pending, report>>

-----------------------------------------------------------------------------

Init ==
  /\ pc = "start"
  /\ over = FALSE
  /\ timer = FALSE
  /\ pending = [s \in Sides |-> NoIntent]
  /\ inbox = <<>>
  /\ pump = [p \in Pumps |-> Reading]
  /\ report = FALSE

PumpStep(p) ==
  \/ \E a \in Actions : Receive(p, a)
  \/ Enqueue(p)
  \/ Drop(p)

LoopStep == Start \/ Finish \/ BeginTurn \/ BeginResolve \/ EndResolve

Next ==
  \/ \E p \in Pumps : PumpStep(p)
  \/ LoopStep
  \/ Cancel
  \/ Timeout
  \/ Accept

Spec == Init /\ [][Next]_vars

(* The run loop is scheduled, the timer fires; a select with several ready *)
(* cases picks one at random, so intents are accepted again and again; a   *)
(* full channel serves blocked senders in arrival order.                   *)
FairSpec ==
  /\ Spec
  /\ WF_vars(LoopStep)
  /\ WF_vars(Timeout)
  /\ SF_vars(Accept)
  /\ \A p \in Pumps : SF_vars(Enqueue(p)) /\ WF_vars(Drop(p))

-----------------------------------------------------------------------------
(* Properties.                                                             *)

(* Type correctness, with what a pending intent can be: the timer's, or    *)
(* one that was accepted for that side and is legal.                       *)
PendingOK(s) ==
  \/ pending[s] \in {NoIntent, TimerIntent}
  \/ pending[s] \in Intent /\ pending[s].from = s /\ pending[s].action \in Legal

TypeOK ==
  /\ pc \in {"start", "turn", "select", "resolve", "ended", "cancelled"}
  /\ over \in BOOLEAN /\ timer \in BOOLEAN /\ report \in BOOLEAN
  /\ DOMAIN pending = Sides /\ \A s \in Sides : PendingOK(s)
  /\ inbox \in Seq(Intent) /\ Len(inbox) <= InboxCap
  /\ pump \in [Pumps -> Intent \cup {Reading}]

(* One intent per side and turn, the first: whatever a client, a second    *)
(* connection of it or the timer do afterwards, an intent once accepted    *)
(* stays until the turn has been resolved with it.                         *)
FirstIntentWins ==
  [][\A s \in Sides : pc # "turn" /\ pending[s] # NoIntent => pending'[s] = pending[s]]_vars

(* A turn is resolved with both intents there, on a battle that is not     *)
(* over; and Run ends either with a result that it has reported or, when   *)
(* cancelled, in mid-match with no report.                                 *)
MatchClosed ==
  /\ pc = "resolve" => BothReady /\ ~over
  /\ report <=> pc = "ended"
  /\ pc = "ended" => over
  /\ pc = "cancelled" => ~over

(* AFK defaults keep the match moving: whatever the clients do, the run    *)
(* loop gets back to the top of a turn again and again, or has returned.   *)
TurnsKeepComing == []<>(pc = "turn" \/ Done)

(* A read pump is never stuck in Submit for good, not on a full inbox and  *)
(* not after the session has ended.                                        *)
SubmitReturns == \A p \in Pumps : Submitting(p) ~> ~Submitting(p)

(* What the session is for, whatever the clients, the inbox and the timer  *)
(* do: it implements Match.  An action is chosen when it is accepted, and  *)
(* the turn takes place when ResolveTurn returns.                          *)
ChoiceOf(s) ==
  IF pc \in {"start", "turn", "ended"} \/ pending[s] = NoIntent THEN NoIntent ELSE pending[s].action

MatchStatus ==
  CASE pc = "ended" -> "announced" [] pc = "cancelled" -> "abandoned" [] OTHER -> "on"

M == INSTANCE Match WITH
  choice <- [s \in Sides |-> ChoiceOf(s)], decided <- over, status <- MatchStatus,
  NoChoice <- NoIntent

ImplementsMatch == M!Spec

(* Submit's comment: "late submissions are dropped by the run loop"; no    *)
(* intent counts in a later turn than the one it was submitted in.         *)
LateDropped ==
  [][\A s \in Sides :
       pending'[s] \notin {pending[s], NoIntent, TimerIntent} => ~(pending'[s].late)]_vars
=============================================================================
