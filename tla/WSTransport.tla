---------------------------- MODULE WSTransport ----------------------------
(***************************************************************************)
(* The WebSocket transport of one session: which connection stands for     *)
(* which player, what the run loop's Send does with it, and what happens   *)
(* when a client loses its socket and attaches again.  What the read pumps *)
(* do with the frames they read is in Session; here a pump runs until its  *)
(* socket fails or answers a resync request.  Spectators have no state of  *)
(* their own here, they are never detached and nothing reads from them;    *)
(* what counts is the lock that is held while they are written to.         *)
(***************************************************************************)
EXTENDS Integers, Sequences

CONSTANTS
  Players,   \* the session's two players, in side order
  Conns,     \* WebSocket connections
  PlayerOf,  \* the player who opens each connection
  Gallery,   \* the spectators, last in a broadcast of a turn
  None       \* no connection, nothing picked

ASSUME TransportAssumption ==
  /\ Players \in Seq(Nat)
  /\ PlayerOf \in [Conns -> Nat]
  /\ \A c \in Conns : \E i \in DOMAIN Players : Players[i] = PlayerOf[c]
  /\ None \notin Conns
  /\ Gallery \notin Nat

VARIABLES
  players,  \* WSTransport.players
  sock,     \* the state of each socket
  pump,     \* the state of each connection's read pump
  reply,    \* the answer to a resync that a pump has read and not yet written
  out,      \* whom the run loop has yet to send the current state to
  picked,   \* connection that Send has looked up and not yet written to
  showing,  \* Spectate holds the read lock of mu
  behind    \* history: players who do not have the current state

vars == <<players, sock, pump, reply, out, picked, showing, behind>>

PlayerSet == {Players[i] : i \in DOMAIN Players}

-----------------------------------------------------------------------------
(* Connections.  mu is locked for an instant in Attach and PumpExit, which *)
(* therefore wait for a Spectate to end.                                   *)

(* The client opens a new socket when it finds the old one closed; the     *)
(* server's pump may still be blocked on the old one.                      *)
MayConnect(c) == \A d \in Conns : PlayerOf[d] = PlayerOf[c] => sock[d] # "up"

Attach(c) ==
  /\ sock[c] = "unused"
  /\ MayConnect(c)
  /\ ~showing
  /\ players' = [players EXCEPT ![PlayerOf[c]] = c]
  /\ sock' = [sock EXCEPT ![c] = "up"]
  /\ pump' = [pump EXCEPT ![c] = "running"]
  /\ UNCHANGED <<reply, out, picked, showing, behind>>

SocketDies(c) ==
  /\ sock[c] = "up"
  /\ sock' = [sock EXCEPT ![c] = "down"]
  /\ UNCHANGED <<players, pump, reply, out, picked, showing, behind>>

(* Mutant of PumpExit: the entry stays.                                    *)
PumpExitNoDelete(c) ==
  /\ sock[c] = "down"
  /\ pump[c] = "running"
  /\ reply[c] = None
  /\ ~showing
  /\ pump' = [pump EXCEPT ![c] = "exited"]
  /\ UNCHANGED <<players, sock, reply, out, picked, showing, behind>>

(* readPump's deferred cleanup deletes the player's entry, whichever       *)
(* connection is in it.                                                    *)
PumpExit(c) ==
  /\ sock[c] = "down"
  /\ pump[c] = "running"
  /\ reply[c] = None
  /\ ~showing
  /\ pump' = [pump EXCEPT ![c] = "exited"]
  /\ players' = [players EXCEPT ![PlayerOf[c]] = None]
  /\ UNCHANGED <<sock, reply, out, picked, showing, behind>>

(* A pump takes the snapshot for a resync by itself, with no lock.  Unless *)
(* the run loop is busy sending it may be in ResolveTurn, and what the     *)
(* pump reads then need not be a state the battle was ever in.             *)
ResyncRead(c) ==
  /\ sock[c] = "up"
  /\ reply[c] = None
  /\ \E r \in {"current", "wrong"} :
       /\ r = "wrong" => out = <<>>
       /\ reply' = [reply EXCEPT ![c] = r]
  /\ UNCHANGED <<players, sock, pump, out, picked, showing, behind>>

(* It is written to the connection the request came in on; the next turn   *)
(* may have been sent there in the meantime.                               *)
ResyncWrite(c) ==
  /\ reply[c] # None
  /\ reply' = [reply EXCEPT ![c] = None]
  /\ behind' = CASE sock[c] # "up" -> behind
                 [] sock[c] = "up" /\ reply[c] = "current" -> behind \ {PlayerOf[c]}
                 [] sock[c] = "up" /\ reply[c] = "wrong" -> behind \cup {PlayerOf[c]}
  /\ UNCHANGED <<players, sock, pump, out, picked, showing>>

-----------------------------------------------------------------------------
(* The run loop sends each new state to both players in turn, that of a    *)
(* turn to the spectators as well.                                         *)

(* What pumps have read before is out of date with the new state.          *)
Overtaken == [c \in Conns |-> IF reply[c] = None THEN None ELSE "wrong"]

(* Mutant of Broadcast: a new one begins before the last one is done.      *)
BroadcastOverlapping ==
  /\ \E audience \in {Players, Append(Players, Gallery)} : out' = out \o audience
  /\ behind' = PlayerSet
  /\ reply' = Overtaken
  /\ UNCHANGED <<players, sock, pump, picked, showing>>

Broadcast ==
  /\ out = <<>>
  /\ out' \in {Players, Append(Players, Gallery)}
  /\ behind' = PlayerSet
  /\ reply' = Overtaken
  /\ UNCHANGED <<players, sock, pump, picked, showing>>

(* Send reads the entry under the lock; no entry, no message.              *)
SendPick ==
  /\ out # <<>>
  /\ Head(out) # Gallery
  /\ picked = None
  /\ picked' = players[Head(out)]
  /\ out' = IF players[Head(out)] = None THEN Tail(out) ELSE out
  /\ UNCHANGED <<players, sock, pump, reply, showing, behind>>

(* Mutant of SendWrite: a failed write is tried again.                     *)
SendWriteRetrying ==
  /\ picked # None
  /\ behind' = IF sock[picked] = "up" THEN behind \ {PlayerOf[picked]} ELSE behind
  /\ picked' = None
  /\ out' = IF sock[picked] = "up" THEN Tail(out) ELSE out
  /\ UNCHANGED <<players, sock, pump, reply, showing>>

(* It writes after the lock is released; a failed write is dropped.        *)
SendWrite ==
  /\ picked # None
  /\ behind' = IF sock[picked] = "up" THEN behind \ {PlayerOf[picked]} ELSE behind
  /\ picked' = None
  /\ out' = Tail(out)
  /\ UNCHANGED <<players, sock, pump, reply, showing>>

(* Spectate keeps the read lock until every spectator has been written to. *)
Spectate ==
  /\ out # <<>>
  /\ Head(out) = Gallery
  /\ ~showing
  /\ showing' = TRUE
  /\ UNCHANGED <<players, sock, pump, reply, out, picked, behind>>

Spectated ==
  /\ showing
  /\ showing' = FALSE
  /\ out' = Tail(out)
  /\ UNCHANGED <<players, sock, pump, reply, picked, behind>>

-----------------------------------------------------------------------------

Init ==
  /\ players = [p \in PlayerSet |-> None]
  /\ sock = [c \in Conns |-> "unused"]
  /\ pump = [c \in Conns |-> "none"]
  /\ reply = [c \in Conns |-> None]
  /\ out = <<>>
  /\ picked = None
  /\ showing = FALSE
  /\ behind = PlayerSet

Next ==
  \/ \E c \in Conns :
       \/ Attach(c) \/ SocketDies(c) \/ PumpExit(c)
       \/ ResyncRead(c) \/ ResyncWrite(c)
  \/ Broadcast
  \/ SendPick
  \/ SendWrite
  \/ Spectate
  \/ Spectated

Spec == Init /\ [][Next]_vars

(* The run loop gets on with a broadcast once it has begun: every write    *)
(* has a deadline.                                                         *)
SendsFinish ==
  WF_vars(SendPick) /\ WF_vars(SendWrite) /\ WF_vars(Spectate) /\ WF_vars(Spectated)

(* While the match lasts there is always another turn to broadcast         *)
(* (Session, TurnsKeepComing).                                             *)
MatchSpec == Spec /\ SendsFinish /\ WF_vars(Broadcast)

-----------------------------------------------------------------------------
(* Properties.                                                             *)

(* Type correctness; one message is being sent at a time, the first one.   *)
TypeOK ==
  /\ players \in [PlayerSet -> Conns \cup {None}]
  /\ sock \in [Conns -> {"unused", "up", "down"}]
  /\ pump \in [Conns -> {"none", "running", "exited"}]
  /\ reply \in [Conns -> {None, "current", "wrong"}]
  /\ out \in Seq(PlayerSet \cup {Gallery}) /\ Len(out) <= Len(Players) + 1
  /\ picked \in Conns \cup {None} /\ showing \in BOOLEAN
  /\ picked # None => out # <<>> /\ Head(out) # Gallery
  /\ showing => out # <<>> /\ Head(out) = Gallery
  /\ behind \subseteq PlayerSet

Connected(p) == \E c \in Conns : PlayerOf[c] = p /\ sock[c] = "up"

(* The transport never keeps a connection whose pump has gone, so that     *)
(* Send does not go on writing to a closed socket in place of a player's   *)
(* live one; and it only has connections of the player they stand for.     *)
NoZombie ==
  \A p \in PlayerSet : players[p] # None =>
    pump[players[p]] = "running" /\ PlayerOf[players[p]] = p

(* What the transport does promise: a player whose live connection is in   *)
(* its table does not stay behind, whatever was missed while away, whatever *)
(* a resync has read in mid-turn or written late, and whatever becomes of  *)
(* the other player's connections.                                         *)
Registered(p) == players[p] # None /\ sock[players[p]] = "up"

RegisteredCatchUp == \A p \in PlayerSet : []<>(Registered(p) => p \notin behind)

(* "The session's reconnect path re-attaches and resends a snapshot": a    *)
(* player whose client stays connected does not stay behind.               *)
CatchesUp == \A p \in PlayerSet : []<>(Connected(p) => p \notin behind)
=============================================================================
