------------------------------ MODULE Position ------------------------------
(***************************************************************************)
(* The position state machine of one hand: the legs it holds, and what one *)
(* position-log event does to them.  Everything here is a pure function of *)
(* a HandPositions value and an event; HandPositions (the state machine)   *)
(* and Hand (the actor that emits the events) apply it.                    *)
(*                                                                         *)
(* Prices, symbols and sides are left out (one symbol, long only); the     *)
(* stop-loss/take-profit pair of a leg is one abstract level.  RealizedPnL *)
(* is represented by the number of closes that were added to it.           *)
(***************************************************************************)
EXTENDS Integers, FiniteSets

CONSTANTS
  TradeIDs,   \* position ids; an entry order's client id names its leg
  OrderIDs,   \* client order ids and exchange order ids
  NoID,       \* the empty id
  Levels      \* stop-loss/take-profit levels; 0 is "none"

ASSUME PositionAssumption ==
  /\ NoID \notin OrderIDs
  /\ Levels \subseteq Nat
  /\ 0 \in Levels

Phases == {"idle", "entering", "open", "adding", "exiting"}

LegType ==
  [phase : Phases, pending : OrderIDs \cup {NoID}, qty : Nat, count : Nat,
   openedAt : Nat, level : Levels, addLevel : Levels,
   bracketIDs : SUBSET OrderIDs, bracketClid : OrderIDs \cup {NoID}]

IdleLeg ==
  [phase |-> "idle", pending |-> NoID, qty |-> 0, count |-> 0, openedAt |-> 0,
   level |-> 0, addLevel |-> 0, bracketIDs |-> {}, bracketClid |-> NoID]

(* One record type for every kind of event; a kind ignores the fields its  *)
(* payload does not have.                                                  *)
Kinds == {"order_place", "order_placed", "order_filled", "order_cancelled",
          "sl_updated", "position_closed", "position_orphaned",
          "bracket_place", "bracket_placed"}

(* What an order is to its leg: IsClose, IsPyramidAdd, or neither.         *)
Roles == {"open", "add", "close"}

EventType ==
  [kind : Kinds, trade : TradeIDs, order : OrderIDs \cup {NoID},
   clid : OrderIDs \cup {NoID}, role : Roles,
   level : Levels, qty : Nat, at : Nat, ids : SUBSET OrderIDs]

HasPendingOrder(l) == l.phase \in {"entering", "adding", "exiting"}

----------------------------------------------------------------------------
(* LegState.Apply: when a transition is valid, and what it does.           *)

(* Mutant: an intent is accepted while another order is pending.           *)
MutPlaceValid(l, e) == e.role = "open" => l.phase = "idle"

PlaceValid(l, e) ==
  l.phase = IF e.role = "open" THEN "idle" ELSE "open"

applyOrderPlace(l, e) ==
  IF e.role = "close"
  THEN [l EXCEPT !.pending = e.clid, !.phase = "exiting"]
  ELSE IF e.role = "add"
       THEN [l EXCEPT !.pending = e.clid, !.addLevel = e.level,
                      !.phase = "adding"]
       ELSE [l EXCEPT !.pending = e.clid, !.level = e.level,
                      !.phase = "entering"]

(* order_placed stands in for a missing order_place when the leg is idle   *)
(* or open, and otherwise only swaps the client id for the exchange id.    *)
PlacedValid(l, e) == l.phase \in {"idle", "open"} \/ e.clid = l.pending

applyOrderPlaced(l, e) ==
  IF l.phase \in {"idle", "open"}
  THEN applyOrderPlace(l, [e EXCEPT !.clid = e.order])
  ELSE [l EXCEPT !.pending = e.order]

(* Mutant: a fill is accepted whether or not the leg waits for it.         *)
MutFilledValid(l, e) == l.phase # "idle"

FilledValid(l, e) == HasPendingOrder(l) /\ e.order = l.pending

reset(l) == [IdleLeg EXCEPT !.bracketIDs = l.bracketIDs,
                            !.bracketClid = l.bracketClid]

(* Mutant: the fill of an add replaces the quantity.                       *)
MutAddReplacesQty(l, e) ==
  IF l.phase = "exiting" THEN reset(l)
  ELSE [l EXCEPT !.qty = e.qty, !.openedAt = IF @ = 0 THEN e.at ELSE @,
                 !.level = IF l.phase = "adding" THEN l.addLevel ELSE @,
                 !.addLevel = 0, !.count = @ + 1, !.phase = "open", !.pending = NoID]

applyOrderFilled(l, e) ==
  IF l.phase = "exiting" THEN reset(l)
  ELSE IF l.phase = "entering"
       THEN [l EXCEPT !.qty = e.qty, !.openedAt = e.at, !.count = @ + 1,
                      !.phase = "open", !.pending = NoID]
       ELSE [l EXCEPT !.qty = @ + e.qty, !.level = l.addLevel,
                      !.addLevel = 0, !.count = @ + 1,
                      !.phase = "open", !.pending = NoID]

(* The cancelled order's id is not compared with the pending one.          *)
CancelledValid(l, e) == HasPendingOrder(l)

applyOrderCancelled(l, e) ==
  IF l.phase = "entering" THEN reset(l)
  ELSE [l EXCEPT !.addLevel = IF l.phase = "adding" THEN 0 ELSE @,
                 !.pending = NoID, !.phase = "open"]

SLUpdatedValid(l, e) == l.phase = "open"

applySLUpdated(l, e) == [l EXCEPT !.level = e.level]

LegValid(l, e) ==
  \/ e.kind = "order_place"     /\ PlaceValid(l, e)
  \/ e.kind = "order_placed"    /\ PlacedValid(l, e)
  \/ e.kind = "order_filled"    /\ FilledValid(l, e)
  \/ e.kind = "order_cancelled" /\ CancelledValid(l, e)
  \/ e.kind = "sl_updated"      /\ SLUpdatedValid(l, e)

LegApply(l, e) ==
  CASE e.kind = "order_place"     -> applyOrderPlace(l, e)
    [] e.kind = "order_placed"    -> applyOrderPlaced(l, e)
    [] e.kind = "order_filled"    -> applyOrderFilled(l, e)
    [] e.kind = "order_cancelled" -> applyOrderCancelled(l, e)
    [] e.kind = "sl_updated"      -> applySLUpdated(l, e)

----------------------------------------------------------------------------
(* HandPositions: legs is the map of active legs, closes counts what was   *)
(* added to RealizedPnL.                                                   *)

IsHandPositions(hp) ==
  /\ hp = [legs |-> hp.legs, closes |-> hp.closes]
  /\ DOMAIN hp.legs \subseteq TradeIDs
  /\ hp.legs \in [DOMAIN hp.legs -> LegType]
  /\ hp.closes \in Nat

NewHandPositions == [legs |-> [t \in {} |-> IdleLeg], closes |-> 0]

(* m with key k removed, and m with m[k] = v, for any map m.               *)
Delete(m, k) == [u \in DOMAIN m \ {k} |-> m[u]]

Put(m, k, v) ==
  [u \in DOMAIN m \cup {k} |-> IF u = k THEN v ELSE m[u]]

(* The leg an event addresses; a new one for an opening order_place or     *)
(* order_placed.                                                           *)
Addressable(hp, e) ==
  \/ e.trade \in DOMAIN hp.legs
  \/ e.kind \in {"order_place", "order_placed"} /\ e.role = "open"

Addressed(hp, e) ==
  IF e.trade \in DOMAIN hp.legs THEN hp.legs[e.trade] ELSE IdleLeg

(* A leg event that fails leaves the map alone, except that the new leg of *)
(* an opening event was already put into it.                               *)
ApplyToLeg(hp, e) ==
  LET l  == Addressed(hp, e)
      l2 == LegApply(l, e)
  IN IF ~Addressable(hp, e) THEN hp
     ELSE IF ~LegValid(l, e)
          THEN [hp EXCEPT !.legs = Put(@, e.trade, l)]
          ELSE IF e.kind = "order_filled" /\ l.phase = "exiting"
               THEN [legs |-> Delete(hp.legs, e.trade),
                     closes |-> hp.closes + 1]
               ELSE IF e.kind = "order_cancelled" /\ l.phase = "entering"
                    THEN [hp EXCEPT !.legs = Delete(@, e.trade)]
                    ELSE [hp EXCEPT !.legs = Put(@, e.trade, l2)]

applyPositionClosed(hp, e) ==
  IF e.trade \notin DOMAIN hp.legs \/ hp.legs[e.trade].phase = "idle"
  THEN hp
  ELSE [legs |-> Delete(hp.legs, e.trade), closes |-> hp.closes + 1]

ApplyOrphaned(hp, e) == [hp EXCEPT !.legs = Delete(@, e.trade)]

ApplyBracketPlace(hp, e) ==
  IF e.trade \notin DOMAIN hp.legs THEN hp
  ELSE [hp EXCEPT !.legs[e.trade].bracketClid = e.clid]

ApplyBracketPlaced(hp, e) ==
  IF e.trade \notin DOMAIN hp.legs THEN hp
  ELSE [hp EXCEPT !.legs[e.trade].bracketIDs = e.ids,
                  !.legs[e.trade].bracketClid = NoID]

Apply(hp, e) ==
  CASE e.kind = "position_closed"   -> applyPositionClosed(hp, e)
    [] e.kind = "position_orphaned" -> ApplyOrphaned(hp, e)
    [] e.kind = "bracket_place"     -> ApplyBracketPlace(hp, e)
    [] e.kind = "bracket_placed"    -> ApplyBracketPlaced(hp, e)
    [] OTHER                        -> ApplyToLeg(hp, e)

----------------------------------------------------------------------------
(* Queries.                                                                *)

ActiveLegs(hp) == {t \in DOMAIN hp.legs : hp.legs[t].phase # "idle"}

IsFlat(hp) == ActiveLegs(hp) = {}

LegPhase(hp, t) ==
  IF t \in DOMAIN hp.legs THEN hp.legs[t].phase ELSE "idle"

(* The legs PrimaryLeg may return: the least OpenedAt, a pending entry     *)
(* having the zero time; ties fall to the map's iteration order.           *)
PrimaryLegs(hp) ==
  {t \in ActiveLegs(hp) :
     \A u \in ActiveLegs(hp) : hp.legs[t].openedAt =< hp.legs[u].openedAt}
=============================================================================
