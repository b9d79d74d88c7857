--------------------------- MODULE HandPositions ---------------------------
(***************************************************************************)
(* HandPositions.Apply as a state machine: the legs of one hand under an   *)
(* arbitrary sequence of position-log events.  A behaviour is a live hand  *)
(* applying what it publishes, and just as well ReplayHand running over    *)
(* any log: events may be missing (a publish failed), repeated (published  *)
(* again outside the de-duplication window) or out of place, because       *)
(* ReplayHand skips the events Apply refuses.                              *)
(***************************************************************************)
EXTENDS Position

CONSTANTS
  Qtys,    \* quantities a fill can report
  Times    \* event timestamps

ASSUME HandPositionsAssumption ==
  /\ Qtys \subseteq Nat \ {0}
  /\ Times \subseteq Nat \ {0}

VARIABLE hp    \* the hand's HandPositions

(* The events of each kind; the fields a payload does not have are blank.  *)
OrderPlaceEvents ==
  [kind : {"order_place"}, trade : TradeIDs, order : {NoID},
   clid : OrderIDs, role : Roles, level : Levels,
   qty : {0}, at : {0}, ids : {{}}]

OrderPlacedEvents ==
  [kind : {"order_placed"}, trade : TradeIDs, order : OrderIDs,
   clid : OrderIDs \cup {NoID}, role : Roles, level : Levels,
   qty : {0}, at : {0}, ids : {{}}]

OrderFilledEvents ==
  [kind : {"order_filled"}, trade : TradeIDs, order : OrderIDs,
   clid : {NoID}, role : {"open"}, level : {0},
   qty : Qtys, at : Times, ids : {{}}]

OrderCancelledEvents ==
  [kind : {"order_cancelled"}, trade : TradeIDs, order : OrderIDs,
   clid : {NoID}, role : {"open"}, level : {0},
   qty : {0}, at : {0}, ids : {{}}]

SLUpdatedEvents ==
  [kind : {"sl_updated"}, trade : TradeIDs, order : {NoID},
   clid : {NoID}, role : {"open"}, level : Levels,
   qty : {0}, at : {0}, ids : {{}}]

PositionEndEvents ==
  [kind : {"position_closed", "position_orphaned"}, trade : TradeIDs, order : {NoID},
   clid : {NoID}, role : {"open"}, level : {0},
   qty : {0}, at : {0}, ids : {{}}]

BracketPlaceEvents ==
  [kind : {"bracket_place"}, trade : TradeIDs, order : {NoID},
   clid : OrderIDs, role : {"open"}, level : {0},
   qty : {0}, at : {0}, ids : {{}}]

BracketPlacedEvents ==
  [kind : {"bracket_placed"}, trade : TradeIDs, order : {NoID},
   clid : {NoID}, role : {"open"}, level : {0},
   qty : {0}, at : {0}, ids : SUBSET OrderIDs]

Events ==
  UNION {OrderPlaceEvents, OrderPlacedEvents, OrderFilledEvents,
         OrderCancelledEvents, SLUpdatedEvents, PositionEndEvents,
         BracketPlaceEvents, BracketPlacedEvents}

----------------------------------------------------------------------------
Init == hp = NewHandPositions

ApplyEvent(e) == hp' = Apply(hp, e)

Next ==
  \/ \E e \in OrderPlaceEvents     : ApplyEvent(e)
  \/ \E e \in OrderPlacedEvents    : ApplyEvent(e)
  \/ \E e \in OrderFilledEvents    : ApplyEvent(e)
  \/ \E e \in OrderCancelledEvents : ApplyEvent(e)
  \/ \E e \in SLUpdatedEvents      : ApplyEvent(e)
  \/ \E e \in PositionEndEvents    : ApplyEvent(e)
  \/ \E e \in BracketPlaceEvents   : ApplyEvent(e)
  \/ \E e \in BracketPlacedEvents  : ApplyEvent(e)

Spec == Init /\ [][Next]_hp

----------------------------------------------------------------------------
(* Every reachable value of the map and of the PnL counter is well typed.  *)
TypeOK == IsHandPositions(hp)

LegWellFormed(l) ==
  /\ l.phase # "idle"
  /\ HasPendingOrder(l) <=> l.pending # NoID
  /\ l.phase # "entering" => l.count > 0 /\ l.qty > 0 /\ l.openedAt > 0

WellFormed(h) == \A t \in DOMAIN h.legs : LegWellFormed(h.legs[t])

(* Whatever events were applied, skipped or lost, the map holds no idle    *)
(* leg, a leg names a pending order exactly while it waits for a fill, and *)
(* a leg past its entry has a filled entry, a quantity and an opening time *)
(* (HandPositions.Apply evicts a leg in the step that makes it idle).      *)
LegsWellFormed == WellFormed(hp)

(* The same event applied twice in a row is the same as applied once:      *)
(* an event that reaches the log again after the 2-minute de-duplication   *)
(* window, or is both published and replayed, books no second fill, close, *)
(* or phase change.                                                        *)
DuplicateHarmless ==
  \A e \in Events : Apply(Apply(hp, e), e) = Apply(hp, e)

PhaseEdge(p, q) ==
  \/ p = q
  \/ p = "idle"     /\ q = "entering"
  \/ p = "entering" /\ q \in {"open", "idle"}
  \/ p = "open"     /\ q \in {"adding", "exiting", "entering", "idle"}
  \/ p = "adding"   /\ q \in {"open", "idle"}
  \/ p = "exiting"  /\ q \in {"open", "idle"}

(* No event takes a leg between two pending phases, or opens a leg that    *)
(* was not entering or resting a working order: a fill, a cancel or an end *)
(* always lies between two orders of a leg (the phase checks of            *)
(* applyOrderPlace/Placed/Filled/Cancelled).                               *)
PhaseEdges ==
  [][\A t \in TradeIDs : PhaseEdge(LegPhase(hp, t), LegPhase(hp', t))]_hp

(* RealizedPnL moves only in the step that removes one leg from the map,   *)
(* and by one close: the order_filled of an exit and the position_closed   *)
(* that publishOrderFilled emits right after it credit one close, not two. *)
PnLOnlyOnEviction ==
  [][hp'.closes # hp.closes =>
       /\ hp'.closes = hp.closes + 1
       /\ \E t \in DOMAIN hp.legs : hp'.legs = Delete(hp.legs, t)]_hp

(* The quantity a leg holds only changes in the step that fills one of its *)
(* orders: no order intent, acknowledgement, cancel, stop or bracket event *)
(* moves it.                                                               *)
QtyOnlyOnFill ==
  [][\A t \in DOMAIN hp.legs \cap DOMAIN hp'.legs :
       hp'.legs[t].qty # hp.legs[t].qty =>
         /\ hp.legs[t].phase \in {"entering", "adding"}
         /\ hp'.legs[t].phase = "open"
         /\ hp'.legs[t].count = hp.legs[t].count + 1]_hp

\* What the positions are at any moment: of their type, well formed, and such
\* that an event applied a second time changes nothing.
PositionsSound == TypeOK /\ LegsWellFormed /\ DuplicateHarmless

\* What one event may do to a leg: move it along an edge of the phases, book a
\* close only as the leg goes, change its quantity only by an entry's fill.
StepDiscipline == PhaseEdges /\ PnLOnlyOnEviction /\ QtyOnlyOnFill
=============================================================================
