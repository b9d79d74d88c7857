-------------------------- MODULE MCHandPositions --------------------------
(* HandPositions with the counters of a leg and of the PnL capped.         *)
EXTENDS HandPositions, TLC

CONSTANTS
  MaxCount,    \* filled entries of one leg
  MaxCloses    \* closes added to RealizedPnL

Bounded(h) ==
  /\ h.closes =< MaxCloses
  /\ \A t \in DOMAIN h.legs : h.legs[t].count =< MaxCount

Symmetry == Permutations(TradeIDs) \cup Permutations(OrderIDs)

MCSpec == Init /\ [][Next /\ Bounded(hp')]_hp
=============================================================================
