------------------------------ MODULE WSProofs ------------------------------
(***************************************************************************)
(* Theorems about WSTransport, for any players and any connections.        *)
(***************************************************************************)
EXTENDS WSTransport, SequenceTheorems, TLAPS

(* One broadcast is out at a time, and it gets shorter.                    *)
LEMMA Audience ==
  ASSUME TransportAssumption
  PROVE  /\ Players \in Seq(PlayerSet \cup {Gallery})
         /\ Append(Players, Gallery) \in Seq(PlayerSet \cup {Gallery})
         /\ Len(Append(Players, Gallery)) = Len(Players) + 1
         /\ Len(Players) \in Nat
<1>1. Len(Players) \in Nat /\ DOMAIN Players = 1..Len(Players)
  BY DEF TransportAssumption
<1>2. \A i \in 1..Len(Players) : Players[i] \in PlayerSet \cup {Gallery}
  BY <1>1 DEF PlayerSet
<1>3. Players \in Seq(PlayerSet \cup {Gallery})
  BY <1>1, <1>2 DEF TransportAssumption
<1> QED
  BY <1>1, <1>3

LEMMA TypeStep == TransportAssumption /\ TypeOK /\ [Next]_vars => TypeOK'
<1> SUFFICES ASSUME TransportAssumption, TypeOK, [Next]_vars PROVE TypeOK'
  OBVIOUS
<1>0. \A c \in Conns : PlayerOf[c] \in PlayerSet
  BY DEF TransportAssumption, PlayerSet
<1> USE DEF TypeOK
<1>1. ASSUME NEW c \in Conns, Attach(c) PROVE TypeOK'
  BY <1>1, <1>0 DEF Attach
<1>2. ASSUME NEW c \in Conns, SocketDies(c) \/ PumpExit(c) PROVE TypeOK'
  <2>1. CASE SocketDies(c)
    BY <2>1 DEF SocketDies
  <2>2. CASE PumpExit(c)
    BY <2>2, <1>0 DEF PumpExit
  <2> QED
    BY <1>2, <2>1, <2>2
<1>3. ASSUME NEW c \in Conns, ResyncRead(c) PROVE TypeOK'
  BY <1>3 DEF ResyncRead
<1>4. ASSUME NEW c \in Conns, ResyncWrite(c) PROVE TypeOK'
  <2>1. behind' \subseteq PlayerSet
    BY <1>4, <1>0 DEF ResyncWrite
  <2> QED
    BY <1>4, <2>1 DEF ResyncWrite
<1>5. CASE Broadcast
  <2>1. reply' \in [Conns -> {None, "current", "wrong"}]
    BY <1>5 DEF Broadcast, Overtaken
  <2>2. ~showing /\ picked = None
    BY <1>5 DEF Broadcast
  <2>3. out' \in Seq(PlayerSet \cup {Gallery}) /\ Len(out') <= Len(Players) + 1
    <3>1. CASE out' = Players
      BY <3>1, Audience
    <3>2. CASE out' = Append(Players, Gallery)
      BY <3>2, Audience
    <3> QED
      BY <1>5, <3>1, <3>2 DEF Broadcast
  <2>4. UNCHANGED <<players, sock, pump, picked, showing>> /\ behind' = PlayerSet
    BY <1>5 DEF Broadcast
  <2> HIDE DEF PlayerSet
  <2> QED
    BY <2>1, <2>2, <2>3, <2>4
<1>6. CASE SendPick
  <2>1. out # <<>> /\ Head(out) # Gallery /\ Head(out) \in PlayerSet
    BY <1>6 DEF SendPick
  <2>2. picked' \in Conns \cup {None}
    BY <1>6, <2>1 DEF SendPick
  <2>3. out' \in Seq(PlayerSet \cup {Gallery}) /\ Len(out') <= Len(Players) + 1
    BY <1>6, <2>1, Audience DEF SendPick
  <2>4. picked' # None => out' = out
    BY <1>6 DEF SendPick
  <2>5. ~showing /\ UNCHANGED <<players, sock, pump, reply, showing, behind>>
    BY <1>6, <2>1 DEF SendPick
  <2> QED
    BY <2>1, <2>2, <2>3, <2>4, <2>5
<1>7. CASE SendWrite
  <2>1. out # <<>> /\ Head(out) # Gallery /\ ~showing
    BY <1>7 DEF SendWrite
  <2>2. out' \in Seq(PlayerSet \cup {Gallery}) /\ Len(out') <= Len(Players) + 1
    BY <1>7, <2>1, Audience DEF SendWrite
  <2>3. behind' \subseteq PlayerSet
    BY <1>7 DEF SendWrite
  <2>4. picked' = None /\ UNCHANGED <<players, sock, pump, reply, showing>>
    BY <1>7 DEF SendWrite
  <2> QED
    BY <2>1, <2>2, <2>3, <2>4
<1>8. CASE Spectate
  BY <1>8 DEF Spectate
<1>9. CASE Spectated
  <2>1. out # <<>> /\ Head(out) = Gallery /\ picked = None
    BY <1>9 DEF Spectated
  <2>2. out' \in Seq(PlayerSet \cup {Gallery}) /\ Len(out') <= Len(Players) + 1
    BY <1>9, <2>1, Audience DEF Spectated
  <2>3. showing' = FALSE /\ UNCHANGED <<players, sock, pump, reply, picked, behind>>
    BY <1>9 DEF Spectated
  <2> QED
    BY <2>1, <2>2, <2>3
<1>10. CASE UNCHANGED vars
  BY <1>10 DEF vars
<1> QED
  BY <1>1, <1>2, <1>3, <1>4, <1>5, <1>6, <1>7, <1>8, <1>9, <1>10 DEF Next

(* Whatever connections and broadcasts do, the run loop is in at most one  *)
(* write at a time, and it is a write to whom the broadcast has got to.    *)
THEOREM TypeCorrect == Spec => []TypeOK
<1>1. Init => TypeOK
  <2>1. Init => out \in Seq(PlayerSet \cup {Gallery}) /\ Len(out) <= Len(Players) + 1
    BY Audience, TransportAssumption DEF Init
  <2> QED
    BY <2>1 DEF Init, TypeOK
<1>2. TypeOK /\ [Next]_vars => TypeOK'
  BY TypeStep, TransportAssumption
<1> QED
  BY <1>1, <1>2, PTL DEF Spec

-----------------------------------------------------------------------------

LEMMA NoZombieStep ==
  TransportAssumption /\ TypeOK /\ NoZombie /\ [Next]_vars => NoZombie'
<1> SUFFICES ASSUME TransportAssumption, TypeOK, NoZombie, [Next]_vars,
                    NEW p \in PlayerSet, players'[p] # None
             PROVE  pump'[players'[p]] = "running" /\ PlayerOf[players'[p]] = p
  BY DEF NoZombie, PlayerSet
<1> USE DEF TypeOK, NoZombie
<1>1. ASSUME NEW c \in Conns, Attach(c) PROVE pump'[players'[p]] = "running" /\ PlayerOf[players'[p]] = p
  <2>1. CASE PlayerOf[c] = p
    BY <1>1, <2>1 DEF Attach
  <2>2. CASE PlayerOf[c] # p
    BY <1>1, <2>2 DEF Attach
  <2> QED
    BY <2>1, <2>2
<1>2. ASSUME NEW c \in Conns, PumpExit(c) PROVE pump'[players'[p]] = "running" /\ PlayerOf[players'[p]] = p
  <2>1. PlayerOf[c] # p
    BY <1>2 DEF PumpExit
  <2>2. players'[p] = players[p] /\ players[p] # c
    BY <1>2, <2>1 DEF PumpExit
  <2> QED
    BY <1>2, <2>2 DEF PumpExit
<1>3. ASSUME NEW c \in Conns, SocketDies(c) \/ ResyncRead(c) \/ ResyncWrite(c)
      PROVE  pump'[players'[p]] = "running" /\ PlayerOf[players'[p]] = p
  BY <1>3 DEF SocketDies, ResyncRead, ResyncWrite
<1>4. CASE Broadcast \/ SendPick \/ SendWrite \/ Spectate \/ Spectated
  BY <1>4 DEF Broadcast, SendPick, SendWrite, Spectate, Spectated
<1>5. CASE UNCHANGED vars
  BY <1>5 DEF vars
<1> QED
  BY <1>1, <1>2, <1>3, <1>4, <1>5 DEF Next

(* However the connections of a player overlap, the table has, for each    *)
(* player, no connection or one of that player whose pump still runs.      *)
THEOREM TableIsLive == Spec => []NoZombie
<1>1. Init => NoZombie
  BY DEF Init, NoZombie
<1>2. TypeOK /\ NoZombie /\ [Next]_vars => NoZombie'
  BY NoZombieStep, TransportAssumption
<1> QED
  BY <1>1, <1>2, TypeCorrect, PTL DEF Spec
=============================================================================
