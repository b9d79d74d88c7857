------------------------ MODULE HandPositionsProofs ------------------------
(***************************************************************************)
(* Proofs about HandPositions: for any sets of trades, orders, levels,     *)
(* quantities and times, and any sequence of events, hence for the live    *)
(* hand and for ReplayHand over any log.                                   *)
(***************************************************************************)
EXTENDS HandPositions, TLAPS

(* The inductive invariant: the map is well typed and its legs are.        *)
IInv == TypeOK /\ LegsWellFormed

(* Facts about the payload of an event that the transitions rely on: the   *)
(* ids an order event carries are never empty, and a fill moves something. *)
PayloadOK(e) ==
  /\ e.kind = "order_place"  => e.clid # NoID
  /\ e.kind = "order_placed" => e.order # NoID
  /\ e.kind = "order_filled" => e.qty > 0 /\ e.at > 0

(* The events of the machine are typed and their payloads are sound.       *)
LEMMA EventsTyped ==
  \A e \in Events : e \in EventType /\ PayloadOK(e)
<1> USE PositionAssumption, HandPositionsAssumption
        DEF EventType, Kinds, Roles, PayloadOK
<1>1. \A e \in OrderPlaceEvents : e \in EventType /\ PayloadOK(e)
  BY DEF OrderPlaceEvents
<1>2. \A e \in OrderPlacedEvents : e \in EventType /\ PayloadOK(e)
  BY DEF OrderPlacedEvents
<1>3. \A e \in OrderFilledEvents : e \in EventType /\ PayloadOK(e)
  <2>1. /\ \A q \in Qtys : q \in Nat /\ q > 0
        /\ \A s \in Times : s \in Nat /\ s > 0
    OBVIOUS
  <2>2. QED
    BY <2>1 DEF OrderFilledEvents
<1>4. \A e \in OrderCancelledEvents : e \in EventType /\ PayloadOK(e)
  BY DEF OrderCancelledEvents
<1>5. \A e \in SLUpdatedEvents : e \in EventType /\ PayloadOK(e)
  BY DEF SLUpdatedEvents
<1>6. \A e \in PositionEndEvents : e \in EventType /\ PayloadOK(e)
  BY DEF PositionEndEvents
<1>7. \A e \in BracketPlaceEvents : e \in EventType /\ PayloadOK(e)
  BY DEF BracketPlaceEvents
<1>8. \A e \in BracketPlacedEvents : e \in EventType /\ PayloadOK(e)
  BY DEF BracketPlacedEvents
<1>9. QED
  BY <1>1, <1>2, <1>3, <1>4, <1>5, <1>6, <1>7, <1>8 DEF Events

(* Every step applies one event of the machine.                            *)
LEMMA NextApplies == Next => \E e \in Events : hp' = Apply(hp, e)
BY DEF Next, ApplyEvent, Events

(* A valid transition of a leg yields a leg.                               *)
LEMMA LegApplyTyped ==
  ASSUME NEW l \in LegType, NEW e \in EventType, LegValid(l, e)
  PROVE  LegApply(l, e) \in LegType
<1> USE PositionAssumption DEF LegType, EventType, Phases, Roles
<1>1. CASE e.kind = "order_place"
  BY <1>1 DEF LegApply, applyOrderPlace
<1>2. CASE e.kind = "order_placed"
  <2>1. e.order \in OrderIDs \cup {NoID}
    OBVIOUS
  <2>2. [e EXCEPT !.clid = e.order] \in EventType
    BY <2>1
  <2>3. QED
    BY <1>2, <2>2 DEF LegApply, applyOrderPlaced, applyOrderPlace
<1>3. CASE e.kind = "order_filled"
  <2>1. l.phase \in {"entering", "adding", "exiting"}
    BY <1>3 DEF LegValid, FilledValid, HasPendingOrder
  <2> DEFINE n == l.count + 1
             q == l.qty + e.qty
  <2>0. n \in Nat /\ q \in Nat
    OBVIOUS
  <2>2. CASE l.phase = "exiting"
    BY <1>3, <2>2 DEF LegApply, applyOrderFilled, reset, IdleLeg
  <2>3. CASE l.phase = "entering"
    <3>1. LegApply(l, e) = [l EXCEPT !.qty = e.qty, !.openedAt = e.at,
                                     !.count = n, !.phase = "open",
                                     !.pending = NoID]
      BY <1>3, <2>3 DEF LegApply, applyOrderFilled
    <3>2. QED
      BY <3>1, <2>0 DEF LegType
  <2>4. CASE l.phase = "adding"
    <3>1. LegApply(l, e) = [l EXCEPT !.qty = q, !.level = l.addLevel,
                                     !.addLevel = 0, !.count = n,
                                     !.phase = "open", !.pending = NoID]
      BY <1>3, <2>4 DEF LegApply, applyOrderFilled
    <3> HIDE DEF n, q
    <3>2. QED
      BY <3>1, <2>0
  <2>5. QED
    BY <2>1, <2>2, <2>3, <2>4
<1>4. CASE e.kind = "order_cancelled"
  BY <1>4 DEF LegApply, applyOrderCancelled, reset, IdleLeg
<1>5. CASE e.kind = "sl_updated"
  BY <1>5 DEF LegApply, applySLUpdated
<1>6. QED
  BY <1>1, <1>2, <1>3, <1>4, <1>5 DEF LegValid

(* A valid transition keeps a leg well formed, unless it is the close fill *)
(* or the entry cancel after which HandPositions.Apply evicts it.  It may  *)
(* also start from the idle leg an opening order creates.                  *)
LEMMA LegApplyWellFormed ==
  ASSUME NEW l \in LegType, NEW e \in EventType, PayloadOK(e), LegValid(l, e),
         \/ LegWellFormed(l)
         \/ l = IdleLeg /\ e.kind \in {"order_place", "order_placed"}
                        /\ e.role = "open",
         ~(e.kind = "order_filled" /\ l.phase = "exiting"),
         ~(e.kind = "order_cancelled" /\ l.phase = "entering")
  PROVE  LegWellFormed(LegApply(l, e))
<1> USE PositionAssumption
        DEF LegType, EventType, Phases, Roles, PayloadOK, LegWellFormed,
            HasPendingOrder, IdleLeg
<1>1. CASE e.kind = "order_place"
  BY <1>1 DEF LegApply, applyOrderPlace, LegValid, PlaceValid
<1>2. CASE e.kind = "order_placed"
  BY <1>2 DEF LegApply, applyOrderPlaced, applyOrderPlace, LegValid, PlacedValid
<1>3. CASE e.kind = "order_filled"
  BY <1>3 DEF LegApply, applyOrderFilled, LegValid, FilledValid
<1>4. CASE e.kind = "order_cancelled"
  BY <1>4 DEF LegApply, applyOrderCancelled, LegValid, CancelledValid
<1>5. CASE e.kind = "sl_updated"
  BY <1>5 DEF LegApply, applySLUpdated, LegValid, SLUpdatedValid
<1>6. QED
  BY <1>1, <1>2, <1>3, <1>4, <1>5 DEF LegValid

(* Putting a leg into the map, or evicting one, keeps the map well typed   *)
(* and, if the leg put is, well formed.                                    *)
LEMMA MapUpdates ==
  ASSUME NEW h, IsHandPositions(h), WellFormed(h), NEW t \in TradeIDs,
         NEW n \in Nat
  PROVE  /\ LET g == [legs |-> Delete(h.legs, t), closes |-> n]
            IN  IsHandPositions(g) /\ WellFormed(g)
         /\ \A l \in LegType :
              LET g == [legs |-> Put(h.legs, t, l), closes |-> n]
              IN  IsHandPositions(g) /\ (LegWellFormed(l) => WellFormed(g))
BY DEF IsHandPositions, WellFormed, Delete, Put

(* One event keeps HandPositions well typed and well formed.               *)
LEMMA ApplyInvariant ==
  ASSUME NEW h, IsHandPositions(h), WellFormed(h),
         NEW e \in EventType, PayloadOK(e)
  PROVE  IsHandPositions(Apply(h, e)) /\ WellFormed(Apply(h, e))
<1> DEFINE t == e.trade
<1>1. t \in TradeIDs
  BY DEF EventType
<1>2. h = [legs |-> h.legs, closes |-> h.closes] /\ h.closes \in Nat
  BY DEF IsHandPositions
<1>3. h.closes + 1 \in Nat
  BY <1>2
<1>4. CASE e.kind = "position_closed"
  <2>1. Apply(h, e) \in {h, [legs |-> Delete(h.legs, t), closes |-> h.closes + 1]}
    BY <1>4 DEF Apply, applyPositionClosed
  <2>2. QED
    BY <2>1, <1>1, <1>3, MapUpdates
<1>5. CASE e.kind = "position_orphaned"
  <2>1. Apply(h, e) = [legs |-> Delete(h.legs, t), closes |-> h.closes]
    BY <1>2, <1>5 DEF Apply, ApplyOrphaned
  <2>2. QED
    BY <2>1, <1>1, <1>2, MapUpdates
<1>6. CASE e.kind \in {"bracket_place", "bracket_placed"}
  <2>1. CASE t \notin DOMAIN h.legs
    BY <1>6, <2>1 DEF Apply, ApplyBracketPlace, ApplyBracketPlaced
  <2>2. CASE t \in DOMAIN h.legs
    <3> DEFINE l == h.legs[t]
               m == IF e.kind = "bracket_place"
                    THEN [l EXCEPT !.bracketClid = e.clid]
                    ELSE [l EXCEPT !.bracketIDs = e.ids, !.bracketClid = NoID]
    <3>1. l \in LegType /\ LegWellFormed(l)
      BY <2>2 DEF IsHandPositions, WellFormed
    <3>2. m \in LegType /\ LegWellFormed(m)
      BY <3>1 DEF LegType, EventType, LegWellFormed, HasPendingOrder
    <3>3. Apply(h, e) = [legs |-> Put(h.legs, t, m), closes |-> h.closes]
      BY <1>2, <1>6, <2>2
         DEF Apply, ApplyBracketPlace, ApplyBracketPlaced, Put, IsHandPositions
    <3>4. QED
      BY <3>2, <3>3, <1>1, <1>2, MapUpdates
  <2>3. QED
    BY <2>1, <2>2
<1>7. CASE e.kind \notin {"position_closed", "position_orphaned",
                          "bracket_place", "bracket_placed"}
  <2> DEFINE l == Addressed(h, e)
  <2>1. Apply(h, e) = ApplyToLeg(h, e)
    BY <1>7 DEF Apply
  <2>2. CASE ~Addressable(h, e)
    BY <2>1, <2>2 DEF ApplyToLeg
  <2>3. CASE Addressable(h, e)
    <3>1. l \in LegType
      BY PositionAssumption DEF Addressed, IsHandPositions, IdleLeg, LegType, Phases
    <3>2. \/ LegWellFormed(l)
          \/ l = IdleLeg /\ e.kind \in {"order_place", "order_placed"}
                         /\ e.role = "open"
      BY <2>3 DEF Addressed, Addressable, WellFormed
    <3>3. CASE ~LegValid(l, e)
      <4>1. LegWellFormed(l)
        BY <3>2, <3>3 DEF LegValid, PlaceValid, PlacedValid, IdleLeg
      <4>2. Apply(h, e) = [legs |-> Put(h.legs, t, l), closes |-> h.closes]
        BY <1>2, <2>1, <2>3, <3>3 DEF ApplyToLeg
      <4>3. QED
        BY <4>1, <4>2, <3>1, <1>1, <1>2, MapUpdates
    <3>4. CASE LegValid(l, e) /\ e.kind = "order_filled" /\ l.phase = "exiting"
      <4>1. Apply(h, e) = [legs |-> Delete(h.legs, t), closes |-> h.closes + 1]
        BY <2>1, <2>3, <3>4 DEF ApplyToLeg
      <4>2. QED
        BY <4>1, <1>1, <1>3, MapUpdates
    <3>5. CASE LegValid(l, e) /\ e.kind = "order_cancelled" /\ l.phase = "entering"
      <4>1. Apply(h, e) = [legs |-> Delete(h.legs, t), closes |-> h.closes]
        BY <1>2, <2>1, <2>3, <3>5 DEF ApplyToLeg
      <4>2. QED
        BY <4>1, <1>1, <1>2, MapUpdates
    <3>6. CASE /\ LegValid(l, e)
               /\ ~(e.kind = "order_filled" /\ l.phase = "exiting")
               /\ ~(e.kind = "order_cancelled" /\ l.phase = "entering")
      <4>1. LegApply(l, e) \in LegType /\ LegWellFormed(LegApply(l, e))
        BY <3>1, <3>2, <3>6, LegApplyTyped, LegApplyWellFormed
      <4>2. Apply(h, e) = [legs |-> Put(h.legs, t, LegApply(l, e)),
                           closes |-> h.closes]
        BY <1>2, <2>1, <2>3, <3>6 DEF ApplyToLeg
      <4>3. QED
        BY <4>1, <4>2, <1>1, <1>2, MapUpdates
    <3>7. QED
      BY <3>3, <3>4, <3>5, <3>6
  <2>4. QED
    BY <2>2, <2>3
<1>8. QED
  BY <1>4, <1>5, <1>6, <1>7

(* Spec implies that HandPositions is always well typed and that its legs  *)
(* are always well formed.                                                 *)
THEOREM Invariance == Spec => [](TypeOK /\ LegsWellFormed)
<1>1. Init => IInv
  BY DEF Init, IInv, TypeOK, LegsWellFormed, IsHandPositions, WellFormed,
         NewHandPositions
<1>2. IInv /\ [Next]_hp => IInv'
  <2> SUFFICES ASSUME IInv, [Next]_hp
               PROVE  IInv'
    OBVIOUS
  <2>1. CASE UNCHANGED hp
    BY <2>1 DEF IInv, TypeOK, LegsWellFormed
  <2>2. CASE Next
    <3>1. PICK e \in Events : hp' = Apply(hp, e)
      BY <2>2, NextApplies
    <3>2. IsHandPositions(Apply(hp, e)) /\ WellFormed(Apply(hp, e))
      BY ApplyInvariant, EventsTyped DEF IInv, TypeOK, LegsWellFormed
    <3>3. QED
      BY <3>1, <3>2 DEF IInv, TypeOK, LegsWellFormed
  <2>3. QED
    BY <2>1, <2>2
<1>3. QED
  BY <1>1, <1>2, PTL DEF Spec, IInv

----------------------------------------------------------------------------
(* What a step does to one leg, and why a repeated event changes nothing.  *)

(* The events after which HandPositions.Apply evicts the leg.              *)
Evicts(l, e) ==
  \/ e.kind = "order_filled" /\ l.phase = "exiting"
  \/ e.kind = "order_cancelled" /\ l.phase = "entering"

(* Applying a valid leg event again is refused or changes nothing.         *)
LEMMA LegTwice ==
  ASSUME NEW l \in LegType, NEW e \in EventType, PayloadOK(e), LegValid(l, e),
         ~Evicts(l, e)
  PROVE  \/ ~LegValid(LegApply(l, e), e)
         \/ /\ LegApply(LegApply(l, e), e) = LegApply(l, e)
            /\ ~Evicts(LegApply(l, e), e)
<1> DEFINE m == LegApply(l, e)
<1> USE PositionAssumption DEF LegType, EventType, Phases, Roles, PayloadOK, Evicts
<1>1. CASE e.kind = "order_place"
  BY <1>1 DEF LegApply, applyOrderPlace, LegValid, PlaceValid
<1>2. CASE e.kind = "order_placed"
  <2>1. CASE l.phase \in {"idle", "open"}
    <3>1. m = applyOrderPlace(l, [e EXCEPT !.clid = e.order])
      BY <1>2, <2>1 DEF LegApply, applyOrderPlaced
    <3>2. m.phase \in {"entering", "adding", "exiting"} /\ m.pending = e.order
      BY <3>1 DEF applyOrderPlace
    <3>6. m \in LegType
      BY LegApplyTyped
    <3>3. LegApply(m, e) = [m EXCEPT !.pending = e.order]
      BY <1>2, <3>2 DEF LegApply, applyOrderPlaced
    <3>4. LegApply(m, e) = m
      BY <3>2, <3>3, <3>6
    <3>5. QED
      BY <1>2, <3>4
  <2>2. CASE l.phase \notin {"idle", "open"}
    <3>1. m = [l EXCEPT !.pending = e.order]
      BY <1>2, <2>2 DEF LegApply, applyOrderPlaced
    <3>2. LegApply(m, e) = [m EXCEPT !.pending = e.order]
      BY <1>2, <2>2, <3>1 DEF LegApply, applyOrderPlaced
    <3>3. LegApply(m, e) = m
      BY <3>1, <3>2
    <3>4. QED
      BY <1>2, <3>3
  <2>3. QED
    BY <2>1, <2>2
<1>3. CASE e.kind = "order_filled"
  <2>1. m.phase = "open"
    BY <1>3 DEF LegApply, applyOrderFilled, LegValid, FilledValid, HasPendingOrder
  <2>2. ~LegValid(m, e)
    BY <1>3, <2>1 DEF LegValid, FilledValid, HasPendingOrder
  <2>3. QED
    BY <2>2
<1>4. CASE e.kind = "order_cancelled"
  <2>1. m.phase = "open"
    BY <1>4 DEF LegApply, applyOrderCancelled, LegValid, CancelledValid, HasPendingOrder
  <2>2. ~LegValid(m, e)
    BY <1>4, <2>1 DEF LegValid, CancelledValid, HasPendingOrder
  <2>3. QED
    BY <2>2
<1>5. CASE e.kind = "sl_updated"
  BY <1>5 DEF LegApply, applySLUpdated
<1>6. QED
  BY <1>1, <1>2, <1>3, <1>4, <1>5 DEF LegValid

(* A valid leg event that does not evict follows an edge of the phases and *)
(* moves the quantity only when it fills an entry or an add.  Only an      *)
(* opening order reaches an idle leg, see Addressable.                     *)
LEMMA LegStep ==
  ASSUME NEW l \in LegType, NEW e \in EventType, LegValid(l, e), ~Evicts(l, e),
         l.phase = "idle" => e.role = "open"
  PROVE  /\ PhaseEdge(l.phase, LegApply(l, e).phase)
         /\ LegApply(l, e).qty # l.qty =>
              /\ l.phase \in {"entering", "adding"}
              /\ LegApply(l, e).phase = "open"
              /\ LegApply(l, e).count = l.count + 1
<1> USE DEF LegType, EventType, Phases, Roles, Evicts, PhaseEdge
<1>1. CASE e.kind = "order_place"
  BY <1>1 DEF LegApply, applyOrderPlace, LegValid, PlaceValid
<1>2. CASE e.kind = "order_placed"
  BY <1>2 DEF LegApply, applyOrderPlaced, applyOrderPlace, LegValid, PlacedValid
<1>3. CASE e.kind = "order_filled"
  BY <1>3 DEF LegApply, applyOrderFilled, LegValid, FilledValid, HasPendingOrder
<1>4. CASE e.kind = "order_cancelled"
  BY <1>4 DEF LegApply, applyOrderCancelled, LegValid, CancelledValid, HasPendingOrder
<1>5. CASE e.kind = "sl_updated"
  BY <1>5 DEF LegApply, applySLUpdated
<1>6. QED
  BY <1>1, <1>2, <1>3, <1>4, <1>5 DEF LegValid

(* Putting what is there, and deleting what is not, changes nothing.       *)
LEMMA MapSame ==
  ASSUME NEW h, IsHandPositions(h), NEW t
  PROVE  /\ t \in DOMAIN h.legs => Put(h.legs, t, h.legs[t]) = h.legs
         /\ t \notin DOMAIN h.legs => Delete(h.legs, t) = h.legs
BY DEF IsHandPositions, Put, Delete

(* What one event can do to the map: nothing, evict the leg it addresses,  *)
(* with or without a close, or put in its place a leg one edge away.       *)
LEMMA ApplyOutcome ==
  ASSUME NEW h, IsHandPositions(h), WellFormed(h),
         NEW e \in EventType, PayloadOK(e)
  PROVE  \/ Apply(h, e) = h
         \/ /\ e.trade \in DOMAIN h.legs
            /\ \E n \in {h.closes, h.closes + 1} :
                 Apply(h, e) = [legs |-> Delete(h.legs, e.trade), closes |-> n]
         \/ \E m \in LegType :
              /\ Apply(h, e) = [legs |-> Put(h.legs, e.trade, m), closes |-> h.closes]
              /\ PhaseEdge(Addressed(h, e).phase, m.phase)
              /\ e.trade \in DOMAIN h.legs /\ m.qty # h.legs[e.trade].qty =>
                   /\ h.legs[e.trade].phase \in {"entering", "adding"}
                   /\ m.phase = "open"
                   /\ m.count = h.legs[e.trade].count + 1
<1> DEFINE t == e.trade
           l == Addressed(h, e)
<1>1. h = [legs |-> h.legs, closes |-> h.closes] /\ h.closes \in Nat
  BY DEF IsHandPositions
<1>2. CASE e.kind = "position_closed"
  BY <1>2 DEF Apply, applyPositionClosed
<1>3. CASE e.kind = "position_orphaned"
  <2>1. Apply(h, e) = [legs |-> Delete(h.legs, t), closes |-> h.closes]
    BY <1>1, <1>3 DEF Apply, ApplyOrphaned
  <2>2. t \notin DOMAIN h.legs => Apply(h, e) = h
    BY <1>1, <2>1, MapSame
  <2>3. QED
    BY <2>1, <2>2
<1>4. CASE e.kind \in {"bracket_place", "bracket_placed"}
  <2>1. CASE t \notin DOMAIN h.legs
    BY <1>4, <2>1 DEF Apply, ApplyBracketPlace, ApplyBracketPlaced
  <2>2. CASE t \in DOMAIN h.legs
    <3> DEFINE m == IF e.kind = "bracket_place"
                    THEN [h.legs[t] EXCEPT !.bracketClid = e.clid]
                    ELSE [h.legs[t] EXCEPT !.bracketIDs = e.ids, !.bracketClid = NoID]
    <3>1. h.legs[t] \in LegType /\ l = h.legs[t]
      BY <2>2 DEF IsHandPositions, Addressed
    <3>2. /\ m \in LegType /\ m.phase = h.legs[t].phase
          /\ m.qty = h.legs[t].qty
      BY <3>1 DEF LegType, EventType
    <3>3. Apply(h, e) = [legs |-> Put(h.legs, t, m), closes |-> h.closes]
      BY <1>1, <1>4, <2>2
         DEF Apply, ApplyBracketPlace, ApplyBracketPlaced, Put, IsHandPositions
    <3> HIDE DEF m
    <3>4. QED
      BY <3>1, <3>2, <3>3 DEF PhaseEdge
  <2>3. QED
    BY <2>1, <2>2
<1>5. CASE e.kind \notin {"position_closed", "position_orphaned",
                          "bracket_place", "bracket_placed"}
  <2>1. Apply(h, e) = ApplyToLeg(h, e)
    BY <1>5 DEF Apply
  <2>2. CASE ~Addressable(h, e)
    BY <2>1, <2>2 DEF ApplyToLeg
  <2>3. CASE Addressable(h, e)
    <3>1. l \in LegType
      BY PositionAssumption DEF Addressed, IsHandPositions, IdleLeg, LegType, Phases
    <3>2. l.phase = "idle" => e.role = "open"
      BY <2>3 DEF Addressed, Addressable, WellFormed, LegWellFormed
    <3>3. t \in DOMAIN h.legs => l = h.legs[t]
      BY DEF Addressed
    <3>4. CASE ~LegValid(l, e)
      <4>1. Apply(h, e) = [legs |-> Put(h.legs, t, l), closes |-> h.closes]
        BY <1>1, <2>1, <2>3, <3>4 DEF ApplyToLeg
      <4>2. QED
        BY <3>1, <3>3, <4>1 DEF PhaseEdge
    <3>5. CASE LegValid(l, e) /\ Evicts(l, e)
      <4>1. t \in DOMAIN h.legs
        BY <2>3, <3>5 DEF Evicts, Addressable
      <4>2. \E n \in {h.closes, h.closes + 1} :
              Apply(h, e) = [legs |-> Delete(h.legs, t), closes |-> n]
        BY <1>1, <2>1, <2>3, <3>5 DEF ApplyToLeg, Evicts
      <4>3. QED
        BY <4>1, <4>2
    <3>6. CASE LegValid(l, e) /\ ~Evicts(l, e)
      <4> DEFINE m == LegApply(l, e)
      <4>1. Apply(h, e) = [legs |-> Put(h.legs, t, m), closes |-> h.closes]
        BY <1>1, <2>1, <2>3, <3>6 DEF ApplyToLeg, Evicts
      <4>2. m \in LegType
        BY <3>1, <3>6, LegApplyTyped
      <4>3. /\ PhaseEdge(l.phase, m.phase)
            /\ m.qty # l.qty => /\ l.phase \in {"entering", "adding"}
                                /\ m.phase = "open" /\ m.count = l.count + 1
        BY <3>1, <3>2, <3>6, LegStep
      <4> HIDE DEF m
      <4>4. QED
        BY <3>3, <4>1, <4>2, <4>3
    <3>7. QED
      BY <3>4, <3>5, <3>6
  <2>4. QED
    BY <2>2, <2>3
<1>6. QED
  BY <1>2, <1>3, <1>4, <1>5

(* An event applied to its own result changes nothing.                     *)
LEMMA ApplyTwice ==
  ASSUME NEW h, IsHandPositions(h), WellFormed(h),
         NEW e \in EventType, PayloadOK(e)
  PROVE  Apply(Apply(h, e), e) = Apply(h, e)
<1> DEFINE t == e.trade
           l == Addressed(h, e)
           g == Apply(h, e)
<1> SUFFICES Apply(g, e) = g
  OBVIOUS
<1>0. g = Apply(h, e)
  OBVIOUS
<1> HIDE DEF g
<1>1. h = [legs |-> h.legs, closes |-> h.closes] /\ h.closes \in Nat
  BY DEF IsHandPositions
<1>2. IsHandPositions(g)
  BY <1>0, ApplyInvariant
<1>3. g = [legs |-> g.legs, closes |-> g.closes]
  BY <1>2 DEF IsHandPositions
<1>4. CASE e.kind \in {"position_closed", "position_orphaned"}
  <2>1. g = h \/ g.legs = Delete(h.legs, t)
    BY <1>0, <1>1, <1>4 DEF Apply, applyPositionClosed, ApplyOrphaned
  <2>2. CASE g = h
    BY <1>0, <2>2
  <2>3. CASE g.legs = Delete(h.legs, t)
    <3>1. t \notin DOMAIN g.legs
      BY <2>3 DEF Delete
    <3>2. Delete(g.legs, t) = g.legs
      BY <1>2, <3>1, MapSame
    <3>3. QED
      BY <1>3, <1>4, <3>1, <3>2 DEF Apply, applyPositionClosed, ApplyOrphaned
  <2>4. QED
    BY <2>1, <2>2, <2>3
<1>5. CASE e.kind \in {"bracket_place", "bracket_placed"}
  <2>1. CASE t \notin DOMAIN h.legs
    BY <1>0, <1>5, <2>1 DEF Apply, ApplyBracketPlace, ApplyBracketPlaced
  <2>2. CASE t \in DOMAIN h.legs
    <3> DEFINE Set(k) == IF e.kind = "bracket_place"
                         THEN [k EXCEPT !.bracketClid = e.clid]
                         ELSE [k EXCEPT !.bracketIDs = e.ids, !.bracketClid = NoID]
    <3>1. g = [legs |-> Put(h.legs, t, Set(h.legs[t])), closes |-> h.closes]
      BY <1>0, <1>1, <1>5, <2>2
         DEF Apply, ApplyBracketPlace, ApplyBracketPlaced, Put, IsHandPositions
    <3>2. t \in DOMAIN g.legs /\ g.legs[t] = Set(h.legs[t])
      BY <3>1 DEF Put
    <3>3. Set(g.legs[t]) = g.legs[t]
      <4>1. h.legs[t] \in LegType
        BY <2>2 DEF IsHandPositions
      <4>2. QED
        BY <3>2, <4>1 DEF LegType
    <3>4. t \in DOMAIN g.legs
      BY <3>2
    <3>5. Apply(g, e) = [legs |-> Put(g.legs, t, Set(g.legs[t])), closes |-> g.closes]
      BY <1>2, <1>3, <1>5, <3>4
         DEF Apply, ApplyBracketPlace, ApplyBracketPlaced, Put, IsHandPositions
    <3>6. Put(g.legs, t, g.legs[t]) = g.legs
      BY <1>2, <3>2, MapSame
    <3>7. QED
      BY <1>3, <3>3, <3>5, <3>6
  <2>3. QED
    BY <2>1, <2>2
<1>6. CASE e.kind \notin {"position_closed", "position_orphaned",
                          "bracket_place", "bracket_placed"}
  <2>1. g = ApplyToLeg(h, e) /\ Apply(g, e) = ApplyToLeg(g, e)
    BY <1>0, <1>6 DEF Apply
  <2>2. CASE ~Addressable(h, e)
    BY <2>1, <2>2 DEF ApplyToLeg
  <2>3. CASE Addressable(h, e)
    <3>1. l \in LegType
      BY PositionAssumption DEF Addressed, IsHandPositions, IdleLeg, LegType, Phases
    <3>2. CASE LegValid(l, e) /\ Evicts(l, e)
      <4>1. g.legs = Delete(h.legs, t)
        BY <1>1, <2>1, <2>3, <3>2 DEF ApplyToLeg, Evicts
      <4>2. ~Addressable(g, e)
        BY <3>2, <4>1 DEF Addressable, Evicts, Delete
      <4>3. QED
        BY <2>1, <4>2 DEF ApplyToLeg
    <3>3. CASE ~(LegValid(l, e) /\ Evicts(l, e))
      <4> DEFINE m == IF LegValid(l, e) THEN LegApply(l, e) ELSE l
      <4>1. g = [legs |-> Put(h.legs, t, m), closes |-> h.closes]
        BY <1>1, <2>1, <2>3, <3>3 DEF ApplyToLeg, Evicts
      <4>2. \/ ~LegValid(m, e)
            \/ LegApply(m, e) = m /\ ~Evicts(m, e)
        BY <3>1, <3>3, LegTwice
      <4> HIDE DEF m
      <4>3. t \in DOMAIN g.legs /\ g.legs[t] = m
        BY <4>1 DEF Put
      <4>4. Put(g.legs, t, m) = g.legs
        BY <1>2, <4>3, MapSame
      <4>5. Addressable(g, e) /\ Addressed(g, e) = m
        BY <4>3 DEF Addressable, Addressed
      <4>6. ApplyToLeg(g, e) = [legs |-> Put(g.legs, t, m), closes |-> g.closes]
        BY <1>3, <4>2, <4>5 DEF ApplyToLeg, Evicts
      <4>7. QED
        BY <1>3, <2>1, <4>4, <4>6
    <3>4. QED
      BY <3>2, <3>3
  <2>4. QED
    BY <2>2, <2>3
<1>7. QED
  BY <1>4, <1>5, <1>6

(* Whatever the log held before, a repeated event is harmless: Apply never *)
(* books a second fill, close or phase change for it.                      *)
THEOREM Soundness == Spec => []PositionsSound
<1>1. IInv => PositionsSound
  BY ApplyTwice, EventsTyped DEF IInv, TypeOK, LegsWellFormed, DuplicateHarmless, PositionsSound
<1>2. QED
  BY <1>1, Invariance, PTL DEF IInv

(* Every step of any log moves each leg along an edge of the phases,       *)
(* credits a close only when it evicts one leg, and changes a quantity     *)
(* only by filling an entry or an add.                                     *)
THEOREM StepsAreDisciplined == Spec => StepDiscipline
<1> DEFINE Edges == \A t \in TradeIDs : PhaseEdge(LegPhase(hp, t), LegPhase(hp', t))
           PnL == hp'.closes # hp.closes =>
                    /\ hp'.closes = hp.closes + 1
                    /\ \E t \in DOMAIN hp.legs : hp'.legs = Delete(hp.legs, t)
           Qty == \A t \in DOMAIN hp.legs \cap DOMAIN hp'.legs :
                    hp'.legs[t].qty # hp.legs[t].qty =>
                      /\ hp.legs[t].phase \in {"entering", "adding"}
                      /\ hp'.legs[t].phase = "open"
                      /\ hp'.legs[t].count = hp.legs[t].count + 1
<1>1. IInv /\ [Next]_hp => [Edges /\ PnL /\ Qty]_hp
  <2> SUFFICES ASSUME IInv, Next
               PROVE  Edges /\ PnL /\ Qty
    OBVIOUS
  <2>1. PICK e \in Events : hp' = Apply(hp, e)
    BY NextApplies
  <2>2. /\ IsHandPositions(hp) /\ WellFormed(hp)
        /\ e \in EventType /\ PayloadOK(e)
    BY EventsTyped DEF IInv, TypeOK, LegsWellFormed
  <2> DEFINE t0 == e.trade
  <2>3. hp.closes \in Nat
    BY <2>2 DEF IsHandPositions
  <2>4. CASE hp' = hp
    BY <2>4 DEF PhaseEdge
  <2>5. CASE /\ t0 \in DOMAIN hp.legs
             /\ \E n \in {hp.closes, hp.closes + 1} :
                  hp' = [legs |-> Delete(hp.legs, t0), closes |-> n]
    <3>1. hp'.legs = Delete(hp.legs, t0) /\ hp'.closes \in {hp.closes, hp.closes + 1}
      BY <2>5
    <3>2. PnL
      BY <2>5, <3>1
    <3>3. \A t \in DOMAIN hp'.legs : t \in DOMAIN hp.legs /\ hp'.legs[t] = hp.legs[t]
      BY <3>1 DEF Delete
    <3>4. Qty
      BY <3>3
    <3>5. \A t \in TradeIDs : LegPhase(hp', t) \in {LegPhase(hp, t), "idle"}
      BY <3>1 DEF LegPhase, Delete
    <3>6. \A t \in TradeIDs : LegPhase(hp, t) \in Phases
      BY <2>2 DEF LegPhase, IsHandPositions, LegType, Phases
    <3>7. Edges
      BY <3>5, <3>6 DEF PhaseEdge, Phases
    <3>8. QED
      BY <3>2, <3>4, <3>7
  <2>6. CASE \E m \in LegType :
              /\ hp' = [legs |-> Put(hp.legs, t0, m), closes |-> hp.closes]
              /\ PhaseEdge(Addressed(hp, e).phase, m.phase)
              /\ t0 \in DOMAIN hp.legs /\ m.qty # hp.legs[t0].qty =>
                   /\ hp.legs[t0].phase \in {"entering", "adding"}
                   /\ m.phase = "open"
                   /\ m.count = hp.legs[t0].count + 1
    <3>1. PICK m \in LegType :
              /\ hp' = [legs |-> Put(hp.legs, t0, m), closes |-> hp.closes]
              /\ PhaseEdge(Addressed(hp, e).phase, m.phase)
              /\ t0 \in DOMAIN hp.legs /\ m.qty # hp.legs[t0].qty =>
                   /\ hp.legs[t0].phase \in {"entering", "adding"}
                   /\ m.phase = "open"
                   /\ m.count = hp.legs[t0].count + 1
      BY <2>6
    <3>2. hp'.legs = Put(hp.legs, t0, m) /\ hp'.closes = hp.closes
      BY <3>1
    <3>3. /\ DOMAIN hp'.legs = DOMAIN hp.legs \cup {t0}
          /\ hp'.legs[t0] = m
          /\ \A t \in DOMAIN hp.legs : t # t0 => hp'.legs[t] = hp.legs[t]
      BY <3>2 DEF Put
    <3>4. Qty
      BY <3>1, <3>3
    <3>5. \A t \in TradeIDs : t # t0 => LegPhase(hp', t) = LegPhase(hp, t)
      BY <3>3 DEF LegPhase
    <3>6. LegPhase(hp', t0) = m.phase /\ LegPhase(hp, t0) = Addressed(hp, e).phase
      BY <3>3 DEF LegPhase, Addressed, IdleLeg
    <3>7. Edges
      BY <3>1, <3>5, <3>6 DEF PhaseEdge
    <3>8. QED
      BY <3>2, <3>4, <3>7
  <2>7. QED
    BY <2>1, <2>2, <2>4, <2>5, <2>6, ApplyOutcome
<1>2. QED
  BY <1>1, Invariance, PTL DEF Spec, IInv, StepDiscipline, PhaseEdges, PnLOnlyOnEviction, QtyOnlyOnFill
=============================================================================
