----------------------------- MODULE MCGameAcks -----------------------------
(* A small game for TLC.                                                   *)
EXTENDS GameAcks, TLC

CONSTANTS c1, c2

(* Two players who are in the lobby from the start; stragglers are out of  *)
(* reach.                                                                  *)
TwoPlayers == {[seated |-> c1 :> 1 @@ c2 :> 2, observers |-> {}, limit |-> 9]}
=============================================================================
