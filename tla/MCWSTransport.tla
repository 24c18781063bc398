--------------------------- MODULE MCWSTransport ---------------------------
(* Instances of WSTransport for TLC.                                       *)
EXTENDS WSTransport

BothSides == <<1, 2>>

(* Player 1 connects up to three times, player 2 once.                     *)
Sockets == [c \in {"a1", "a2", "a3", "b1"} |-> IF c = "b1" THEN 2 ELSE 1]

(* Player 1 reconnects once, player 2 stays away.                          *)
OneReconnect == [c \in {"a1", "a2"} |-> 1]
=============================================================================
