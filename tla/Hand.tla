-------------------------------- MODULE Hand --------------------------------
(***************************************************************************)
(* One hand of the helm service, trading one symbol long-only on a spot    *)
(* exchange with market orders that fill completely and without brackets:  *)
(* the actor loop, the placement, poll and log-purge goroutines it starts, *)
(* the exchange, the runtime that routes the exchange's fill events to the *)
(* hand, the durable position log, and crash and restart with reconcile.   *)
(*                                                                         *)
(* Every action on the loop is one atomic step, as the loop's handlers are *)
(* for each other; the goroutines' steps interleave with it.  The loop's   *)
(* select is taken to serve any ready channel (its priority for fills is   *)
(* not relied upon).  Faults names the adverse conditions a run allows.    *)
(***************************************************************************)
EXTENDS Integers, Sequences, FiniteSets, FiniteSetsExt, SequencesExt

CONSTANTS
  Orders,       \* the orders the hand may place
  Setups        \* what a behaviour runs under: [max_units, pyramid, faults,
                \* crashes, orders]

(* overlap       a signal is handled while a placement or purge goroutine  *)
(*               is still running                                          *)
(* busy_leg      a signal is handled while a leg waits for a fill          *)
(* ambiguous     PlaceOrder times out though the order landed, and the     *)
(*               lookup by client id finds it                              *)
(* lookup_fails  PlaceOrder times out and every such lookup fails          *)
(* balance_fails GetFreeBalance returns an error                           *)
(* outage        NATS is unreachable once, for a while                     *)
(* busy_restart  the process restarts while an order is open               *)
(* reconcile_fails  the exchange does not answer the reconciler            *)
FaultKinds == {"overlap", "busy_leg", "ambiguous", "lookup_fails",
               "balance_fails", "outage", "busy_restart", "reconcile_fails"}

ASSUME HandAssumption ==
  /\ IsFiniteSet(Orders)
  /\ \A s \in Setups :
       /\ s.max_units \in Nat \ {0} /\ s.pyramid \in BOOLEAN
       /\ s.faults \subseteq FaultKinds /\ s.crashes \in Nat /\ s.orders \in Nat

(* An order's client id (clid.New), its exchange id, and the id that       *)
(* closeLegAsDust makes up.  A leg is named by its entry's client id.      *)
Clid(o)   == <<"clid", o>>
Xid(o)    == <<"id", o>>
DustID(o) == <<"dust", o>>

TradeIDs == {Clid(o) : o \in Orders}
OrderIDs == TradeIDs \cup {Xid(o) : o \in Orders} \cup {DustID(o) : o \in Orders}
NoID     == <<>>
Levels   == {0}

INSTANCE Position

VARIABLES
  setup,   \* the one of Setups in force
  book,    \* the hand's pos, its pendingOrderPos (pop), and the durable log
  pl,      \* the placement goroutine of each order (pendingPlace)
  loop,    \* fills mailbox, seenFills, wsFillCache, h.orders: statuses, and
           \* which entries the reconciler put there
  poll,    \* the poll goroutine and the batch it brings back
  rt,      \* the runtime: order router, published fills, ReportFill calls
  ws,      \* the exchange's event for each order on its way to the hand
  exch,    \* each order at the exchange
  purge,   \* log-purge goroutines before and after their IsFlat check
  audit,   \* trade records, quantity disowned, and whether an entry was let
           \* in while the count of units lacked another one
  env      \* process running or down, crashes so far, NATS up, down or back

vars == <<book, pl, loop, poll, rt, ws, exch, purge, audit, env>>

MaxUnits   == setup.max_units    \* cfg.maxUnits
Pyramid    == setup.pyramid      \* cfg.pyramid
Faults     == setup.faults       \* the adverse conditions allowed
MaxCrashes == setup.crashes      \* bound on crashes of the process
MaxOrders  == setup.orders       \* bound on the orders placed

----------------------------------------------------------------------------
(* The position log and publishAndApply.                                   *)

Event(kind, t, id) ==
  [kind |-> kind, trade |-> t, order |-> id, clid |-> NoID, role |-> "open",
   level |-> 0, qty |-> 0, at |-> 0, ids |-> {}]

(* Event.ID, the message id JetStream de-duplicates by: the client id of   *)
(* an intent, the exchange id of an acknowledgement, and derived ids.      *)
EventID(e) ==
  CASE e.kind = "order_place"     -> <<"", e.clid>>
    [] e.kind = "order_placed"    -> <<"", e.order>>
    [] e.kind = "order_filled"    -> <<"_filled", e.order>>
    [] e.kind = "order_cancelled" -> <<"_cancelled", e.order>>
    [] e.kind = "position_closed" -> <<"_closed_", e.order, e.trade>>
    [] OTHER                      -> <<"_orphan_", e.trade>>

Publish(log, e) ==
  IF \E i \in DOMAIN log : EventID(log[i]) = EventID(e) THEN log
  ELSE Append(log, e)

ReplayHand(log) == FoldLeft(Apply, NewHandPositions, log)

(* A fill or a cancel forgets every order id that maps to the same leg.    *)
SyncPending(pop, e) ==
  CASE e.kind = "order_place"  -> Put(pop, e.clid, e.trade)
    [] e.kind = "order_placed" ->
         LET p == Put(pop, e.order, e.trade)
         IN IF e.clid = NoID THEN p ELSE Put(p, e.clid, e.trade)
    [] e.kind \in {"order_filled", "order_cancelled"} ->
         IF e.order \in DOMAIN pop
         THEN [k \in {k \in DOMAIN pop : pop[k] # pop[e.order]} |-> pop[k]]
         ELSE pop
    [] OTHER -> pop

NatsUp == env.nats # "down"

publishAndApply(b, e) ==
  [pos |-> Apply(b.pos, e),
   pop |-> SyncPending(b.pop, e),
   log |-> IF NatsUp THEN Publish(b.log, e) ELSE b.log]

(* The role of order o, and the legs publishOrderPlace(d) may address: an  *)
(* exit or an add goes to the primary leg, an entry opens its own.         *)
Role(b, o) ==
  IF pl[o].exit THEN "close"
  ELSE IF Pyramid /\ ~IsFlat(b.pos) THEN "add" ELSE "open"

LegsFor(b, o) ==
  IF Role(b, o) = "open" THEN {Clid(o)} ELSE PrimaryLegs(b.pos)

PlaceEvent(b, o, kind, t) ==
  [Event(kind, t, IF kind = "order_place" THEN NoID ELSE Xid(o))
     EXCEPT !.clid = Clid(o), !.role = Role(b, o)]

(* Without a leg to address nothing is published.                          *)
PublishPlace(b, o, kind) ==
  IF LegsFor(b, o) = {} THEN {b}
  ELSE {publishAndApply(b, PlaceEvent(b, o, kind, t)) : t \in LegsFor(b, o)}

Mapped(b, id) == id \in DOMAIN b.pop

(* Mutant: every fill of a known order counts as a close.                  *)
MutIsClosingFill(b, id) == Mapped(b, id)

IsClosingFill(b, id) ==
  Mapped(b, id) /\ LegPhase(b.pos, b.pop[id]) = "exiting"

Now(b) == 1 + Max({0} \cup {b.pos.legs[t].openedAt : t \in DOMAIN b.pos.legs})

publishOrderFilled(b, id, qty) ==
  LET t      == b.pop[id]
      filled == [Event("order_filled", t, id) EXCEPT !.qty = qty, !.at = Now(b)]
  IN IF ~Mapped(b, id) THEN b
     ELSE FoldLeft(publishAndApply, b,
                   IF IsClosingFill(b, id)
                   THEN <<filled, Event("position_closed", t, id)>>
                   ELSE <<filled>>)

(* publishOrderFilled ends a closing fill with appendTradeRecord, which    *)
(* starts the purge goroutine once the record is in JetStream.             *)
appendTradeRecord(o, closing, disowned) ==
  LET n == IF closing /\ NatsUp THEN 1 ELSE 0
  IN /\ audit' = [audit EXCEPT !.records[o] = @ + n, !.disowned = @ + disowned]
     /\ purge' = [purge EXCEPT !.check = @ + n]

----------------------------------------------------------------------------
(* Queries.                                                                *)

pos == book.pos

EntryCount ==
  IF ~Pyramid THEN {Cardinality(ActiveLegs(pos))}
  ELSE IF IsFlat(pos) THEN {0}
       ELSE {pos.legs[t].count : t \in PrimaryLegs(pos)}

LegQty == MapThenSumSet(LAMBDA t : pos.legs[t].qty, ActiveLegs(pos))

(* appendOrphanTradeRecord, for each leg given up: the purge goroutine is  *)
(* started whether or not the record could be written.                     *)
appendOrphanTradeRecords(o, legs) ==
  /\ audit' = [audit EXCEPT !.records[o] = @ + (IF NatsUp THEN Cardinality(legs) ELSE 0),
                            !.disowned = @ + LegQty]
  /\ purge' = [purge EXCEPT !.check = @ + Cardinality(legs)]

FilledQty(S) == MapThenSumSet(LAMBDA o : pl[o].qty, S)

(* What the orders that filled have left in the wallet, and how much of it *)
(* no open sell order locks.                                               *)
Held ==
  FilledQty({o \in Orders : exch[o] = "filled" /\ ~pl[o].exit})
    - FilledQty({o \in Orders : exch[o] = "filled" /\ pl[o].exit})

Free == Held - FilledQty({o \in Orders : exch[o] = "open" /\ pl[o].exit})

OnWire == {"balance", "wal", "rest", "lookup", "result"}

InFlight == \E o \in Orders : pl[o].pc \in OnWire

Running == env.mode = "running"

(* applyPolledOrders holds the loop for one step per polled order.         *)
LoopFree == Running /\ poll.pc # "apply"

----------------------------------------------------------------------------
NoPlacement == [pc |-> "none", exit |-> FALSE, qty |-> 0, res |-> "none"]

IdlePoll == [pc |-> "idle", got |-> [o \in {} |-> "open"]]

Init ==
  /\ setup \in Setups
  /\ book = [pos |-> NewHandPositions, pop |-> [k \in {} |-> NoID], log |-> <<>>]
  /\ pl = [o \in Orders |-> NoPlacement]
  /\ loop = [fills |-> <<>>, seen |-> {}, cache |-> {},
             orders |-> [o \in Orders |-> "none"], restored |-> {}]
  /\ poll = IdlePoll
  /\ rt = [router |-> {}, published |-> {}, reported |-> [o \in Orders |-> 0]]
  /\ ws = [o \in Orders |-> "none"]
  /\ exch = [o \in Orders |-> "none"]
  /\ purge = [check |-> 0, act |-> 0]
  /\ audit = [records |-> [o \in Orders |-> 0], disowned |-> 0, raced |-> FALSE]
  /\ env = [mode |-> "running", crashes |-> 0, nats |-> "up"]

----------------------------------------------------------------------------
(* handleSignal: size the order, track its client id, start its placement. *)

(* When signals come is not the hand's choice: a run without the faults    *)
(* named has them spaced out.  handleSignal itself asks nothing of this.   *)
SignalComes ==
  /\ "overlap" \in Faults \/ (~InFlight /\ purge = [check |-> 0, act |-> 0])
  /\ "busy_leg" \in Faults \/ \A t \in ActiveLegs(pos) : ~HasPendingOrder(pos.legs[t])

StartPlacement(o, pc, exit, qty) ==
  /\ pl[o].pc = "none"
  /\ Cardinality({x \in Orders : pl[x].pc # "none"}) < MaxOrders
  /\ pl' = [pl EXCEPT ![o] = [pc |-> pc, exit |-> exit, qty |-> qty, res |-> "none"]]
  /\ rt' = [rt EXCEPT !.router = @ \cup {Clid(o)}]
  /\ UNCHANGED <<book, loop, poll, ws, exch, purge, env>>

(* EntryCount lacks an entry until its intent is logged, and a pyramid's   *)
(* until its fill is booked.                                               *)
Uncounted ==
  \/ \E o \in Orders : ~pl[o].exit /\ pl[o].pc \in IF Pyramid THEN OnWire ELSE {"wal"}
  \/ Pyramid /\ \E t \in ActiveLegs(pos) : HasPendingOrder(pos.legs[t])

HandleEntrySignal(o) ==
  /\ LoopFree /\ SignalComes
  /\ \E n \in EntryCount : n < MaxUnits
  /\ StartPlacement(o, "wal", FALSE, 1)
  /\ audit' = [audit EXCEPT !.raced = @ \/ Uncounted]

(* An exit needs an open or adding leg and is sized for all active legs.   *)
HandleExitSignal(o) ==
  /\ LoopFree /\ SignalComes
  /\ \E t \in ActiveLegs(pos) : pos.legs[t].phase \in {"open", "adding"}
  /\ StartPlacement(o, "balance", TRUE, LegQty)
  /\ UNCHANGED audit

----------------------------------------------------------------------------
(* runPlaceREST, off the loop.                                             *)

MovePlacement(o, pc, res) ==
  pl' = [pl EXCEPT ![o].pc = pc, ![o].res = res]

(* The free balance is read once; an error reads as zero.                  *)
CheckBalance(o) ==
  /\ Running /\ pl[o].pc = "balance"
  /\ \E free \in {Free} \cup (IF "balance_fails" \in Faults THEN {0} ELSE {}) :
       IF free >= pl[o].qty THEN MovePlacement(o, "wal", "none")
       ELSE MovePlacement(o, "result", "orphan")
  /\ UNCHANGED <<book, loop, poll, rt, ws, exch, purge, audit, env>>

PublishOrderPlace(o) ==
  /\ Running /\ pl[o].pc = "wal"
  /\ book' \in PublishPlace(book, o, "order_place")
  /\ MovePlacement(o, "rest", "none")
  /\ UNCHANGED <<loop, poll, rt, ws, exch, purge, audit, env>>

PlaceOrder(o) ==
  /\ Running /\ pl[o].pc = "rest"
  /\ \/ MovePlacement(o, "result", "open") /\ exch' = [exch EXCEPT ![o] = "open"]
     \/ MovePlacement(o, "result", "err")  /\ UNCHANGED exch
     \/ /\ pl[o].exit
        /\ MovePlacement(o, "result", "lot_size") /\ UNCHANGED exch
     \/ /\ Faults \cap {"ambiguous", "lookup_fails"} # {}
        /\ MovePlacement(o, "lookup", "none") /\ exch' = [exch EXCEPT ![o] = "open"]
  /\ UNCHANGED <<book, loop, poll, rt, ws, purge, audit, env>>

(* The lookup returns the order with the status it has by then.            *)
RecoverAmbiguousPlace(o) ==
  /\ Running /\ pl[o].pc = "lookup"
  /\ \/ "ambiguous" \in Faults    /\ MovePlacement(o, "result", exch[o])
     \/ "lookup_fails" \in Faults /\ MovePlacement(o, "result", "err")
  /\ UNCHANGED <<book, loop, poll, rt, ws, exch, purge, audit, env>>

----------------------------------------------------------------------------
(* applyPlaceResult, on the loop.                                          *)

PlaceSucceeded(o) ==
  /\ LoopFree /\ pl[o].pc = "result" /\ pl[o].res \in {"open", "filled", "cancelled"}
  /\ MovePlacement(o, "done", pl[o].res)
  /\ \E b \in PublishPlace(book, o, "order_placed") :
       IF o \in loop.cache
       THEN /\ book' = publishOrderFilled(b, Xid(o), pl[o].qty)
            /\ appendTradeRecord(o, IsClosingFill(b, Xid(o)), 0)
       ELSE book' = b /\ UNCHANGED <<audit, purge>>
  /\ loop' = [loop EXCEPT !.orders[o] = pl[o].res, !.cache = @ \ {o}]
  /\ UNCHANGED <<poll, rt, ws, exch, env>>

(* position_orphaned for every active leg; the coins stay where they are.  *)
PlaceOrphaned(o) ==
  /\ LoopFree /\ pl[o].pc = "result" /\ pl[o].res = "orphan"
  /\ MovePlacement(o, "done", "orphan")
  /\ book' = FoldLeft(publishAndApply, book,
                      SetToSeq({Event("position_orphaned", t, NoID) : t \in ActiveLegs(pos)}))
  /\ rt' = [rt EXCEPT !.router = @ \ {Clid(o)}]
  /\ appendOrphanTradeRecords(o, ActiveLegs(pos))
  /\ UNCHANGED <<loop, poll, ws, exch, env>>

(* order_cancelled goes to the primary leg, whichever order it waits for.  *)
CancelPlacement(b, o) ==
  LET T == IF IsFlat(b.pos) THEN {Clid(o)} ELSE PrimaryLegs(b.pos)
  IN {publishAndApply(b, Event("order_cancelled", t, Clid(o))) : t \in T}

PlaceFailed(o) ==
  /\ LoopFree /\ pl[o].pc = "result" /\ pl[o].res = "err"
  /\ MovePlacement(o, "done", "err")
  /\ rt' = [rt EXCEPT !.router = @ \ {Clid(o)}]
  /\ book' \in CancelPlacement(book, o)
  /\ UNCHANGED <<loop, poll, ws, exch, purge, audit, env>>

(* closeLegAsDust makes up an exit order of an open or adding leg ...      *)
PlaceDust(b, o, t) ==
  publishAndApply([b EXCEPT !.pop = Put(@, DustID(o), t)],
                  [Event("order_placed", t, DustID(o)) EXCEPT !.role = "close"])

(* ... and fills it, when an exit is too small for the exchange.           *)
PlaceTooSmall(o) ==
  /\ LoopFree /\ pl[o].pc = "result" /\ pl[o].res = "lot_size"
  /\ MovePlacement(o, "done", "lot_size")
  /\ rt' = [rt EXCEPT !.router = @ \ {Clid(o)}]
  /\ \E b \in CancelPlacement(book, o) :
       LET T == {t \in ActiveLegs(b.pos) : b.pos.legs[t].phase \in {"open", "adding"}}
       IN IF T = {} THEN book' = b /\ UNCHANGED <<audit, purge>>
          ELSE \E d \in {PlaceDust(b, o, t) : t \in T} :
                 LET closing == IsClosingFill(d, DustID(o))
                     dust    == d.pos.legs[d.pop[DustID(o)]].qty
                 IN /\ book' = publishOrderFilled(d, DustID(o), pl[o].qty)
                    /\ appendTradeRecord(o, closing, IF closing THEN dust ELSE 0)
  /\ UNCHANGED <<loop, poll, ws, exch, env>>

----------------------------------------------------------------------------
(* The exchange, and the runtime that carries its events to the hand.      *)

ExchangeFill(o) ==
  /\ exch[o] = "open"
  /\ exch' = [exch EXCEPT ![o] = "filled"]
  /\ ws' = [ws EXCEPT ![o] = IF Running THEN "fill" ELSE "lost"]
  /\ UNCHANGED <<book, pl, loop, poll, rt, purge, audit, env>>

ExchangeCancel(o) ==
  /\ exch[o] = "open"
  /\ exch' = [exch EXCEPT ![o] = "cancelled"]
  /\ ws' = [ws EXCEPT ![o] = IF Running THEN "cancel" ELSE "lost"]
  /\ UNCHANGED <<book, pl, loop, poll, rt, purge, audit, env>>

LoseEvent(o) ==
  /\ ws[o] \in {"fill", "cancel"}
  /\ ws' = [ws EXCEPT ![o] = "lost"]
  /\ UNCHANGED <<book, pl, loop, poll, rt, exch, purge, audit, env>>

Untracked(o) == rt.router \ {Clid(o), Xid(o)}

(* A fill of a tracked order goes to the hand's mailbox and is marked as   *)
(* published in a later step; any other fill is reported by the runtime.   *)
RouteFill(o) ==
  /\ Running /\ ws[o] = "fill"
  /\ IF Clid(o) \in rt.router
     THEN /\ loop' = [loop EXCEPT !.fills = Append(@, o)]
          /\ rt' = [rt EXCEPT !.router = Untracked(o)]
          /\ ws' = [ws EXCEPT ![o] = "mark"]
     ELSE /\ rt' = [rt EXCEPT !.router = Untracked(o), !.published = @ \cup {o},
                              !.reported[o] = @ + 1]
          /\ ws' = [ws EXCEPT ![o] = "done"]
          /\ UNCHANGED loop
  /\ UNCHANGED <<book, pl, poll, exch, purge, audit, env>>

MarkOrderFillPublished(o) ==
  /\ Running /\ ws[o] = "mark"
  /\ ws' = [ws EXCEPT ![o] = "done"]
  /\ rt' = [rt EXCEPT !.published = @ \cup {o}]
  /\ UNCHANGED <<book, pl, loop, poll, exch, purge, audit, env>>

(* The cancel of a tracked order is delivered to the loop a second later.  *)
RouteCancel(o) ==
  /\ Running /\ ws[o] = "cancel"
  /\ ws' = [ws EXCEPT ![o] = IF Clid(o) \in rt.router THEN "deliver" ELSE "done"]
  /\ rt' = [rt EXCEPT !.router = Untracked(o)]
  /\ UNCHANGED <<book, pl, loop, poll, exch, purge, audit, env>>

----------------------------------------------------------------------------
(* HandleExitOrderCanceled, handleWsFill and applyFill, on the loop.       *)

(* Only the cancel of an entry or an add is booked here; an exit's is left *)
(* to the poll.                                                            *)
HandleExitOrderCanceled(o) ==
  /\ LoopFree /\ ws[o] = "deliver"
  /\ ws' = [ws EXCEPT ![o] = "done"]
  /\ book' = IF Mapped(book, Xid(o))
                 /\ LegPhase(pos, book.pop[Xid(o)]) \in {"entering", "adding"}
             THEN publishAndApply(book, Event("order_cancelled", book.pop[Xid(o)], Xid(o)))
             ELSE book
  /\ UNCHANGED <<pl, loop, poll, rt, exch, purge, audit, env>>

(* The effects of applyFill on order o but for the mailbox and the router: *)
(* the order's leg is found by the exchange id, and a fill without one is  *)
(* cached for applyPlaceResult.                                            *)
ApplyFillToBook(o) ==
  /\ book' = publishOrderFilled(book, Xid(o), pl[o].qty)
  /\ appendTradeRecord(o, IsClosingFill(book, Xid(o)), 0)

CacheAfterFill(o) ==
  IF Mapped(book, Xid(o)) THEN loop.cache ELSE loop.cache \cup {o}

HandleWsFill ==
  /\ LoopFree /\ loop.fills # <<>>
  /\ LET o == Head(loop.fills)
     IN IF o \in loop.seen
        THEN /\ loop' = [loop EXCEPT !.fills = Tail(@)]
             /\ UNCHANGED <<book, rt, audit, purge>>
        ELSE /\ ApplyFillToBook(o)
             /\ loop' = [loop EXCEPT !.fills = Tail(@), !.seen = @ \cup {o},
                                     !.cache = CacheAfterFill(o)]
             /\ rt' = [rt EXCEPT !.reported[o] = @ + 1]
  /\ UNCHANGED <<pl, poll, ws, exch, env>>

(* checkStale forgets a fill after two minutes, by when its events are in. *)
PruneSeenFill(o) ==
  /\ LoopFree /\ o \in loop.seen
  /\ ws[o] \in {"done", "lost"} /\ o \notin Range(loop.fills)
  /\ o \notin DOMAIN poll.got
  /\ loop' = [loop EXCEPT !.seen = @ \ {o}]
  /\ UNCHANGED <<book, pl, poll, rt, ws, exch, purge, audit, env>>

----------------------------------------------------------------------------
(* Polling: GetOrder off the loop for every open order, then               *)
(* applyPolledOrders on the loop, then the compaction of h.orders.         *)

PollOrders ==
  /\ LoopFree /\ poll.pc = "idle"
  /\ \E o \in Orders : loop.orders[o] # "none"
  /\ poll' = [pc |-> "fetch",
              got |-> [o \in {p \in Orders : loop.orders[p] = "open"} |-> "todo"]]
  /\ UNCHANGED <<book, pl, loop, rt, ws, exch, purge, audit, env>>

FetchOrder(o) ==
  /\ Running /\ poll.pc = "fetch" /\ o \in DOMAIN poll.got /\ poll.got[o] = "todo"
  /\ poll' = [poll EXCEPT !.got[o] = exch[o]]
  /\ UNCHANGED <<book, pl, loop, rt, ws, exch, purge, audit, env>>

FetchOrderFails(o) ==
  /\ Running /\ poll.pc = "fetch" /\ o \in DOMAIN poll.got /\ poll.got[o] = "todo"
  /\ poll' = [poll EXCEPT !.got = Delete(@, o)]
  /\ UNCHANGED <<book, pl, loop, rt, ws, exch, purge, audit, env>>

TakeBatch ==
  /\ LoopFree /\ poll.pc = "fetch"
  /\ \A o \in DOMAIN poll.got : poll.got[o] # "todo"
  /\ poll' = [poll EXCEPT !.pc = "apply"]
  /\ UNCHANGED <<book, pl, loop, rt, ws, exch, purge, audit, env>>

Polled(o, status) ==
  /\ Running /\ poll.pc = "apply" /\ o \in DOMAIN poll.got /\ poll.got[o] = status
  /\ poll' = [poll EXCEPT !.got = Delete(@, o)]

PolledOpen(o) ==
  /\ Polled(o, "open")
  /\ UNCHANGED <<book, pl, loop, rt, ws, exch, purge, audit, env>>

(* seenFills and HasOrderFillPublished guard against the stream's copy.    *)
PolledFilled(o) ==
  /\ Polled(o, "filled")
  /\ IF o \in loop.seen \cup rt.published
     THEN /\ loop' = [loop EXCEPT !.orders[o] = "filled"]
          /\ UNCHANGED <<book, rt, audit, purge>>
     ELSE /\ ApplyFillToBook(o)
          /\ loop' = [loop EXCEPT !.orders[o] = "filled", !.seen = @ \cup {o},
                                  !.cache = CacheAfterFill(o)]
          /\ rt' = [router |-> rt.router \ {Xid(o)},
                    published |-> IF NatsUp THEN rt.published \cup {o}
                                  ELSE rt.published,
                    reported |-> [rt.reported EXCEPT ![o] = @ + 1]]
  /\ UNCHANGED <<pl, ws, exch, env>>

PolledCancelled(o) ==
  /\ Polled(o, "cancelled")
  /\ book' = IF Mapped(book, Xid(o))
             THEN publishAndApply(book, Event("order_cancelled", book.pop[Xid(o)], Xid(o)))
             ELSE book
  /\ loop' = [loop EXCEPT !.orders[o] = "cancelled"]
  /\ rt' = [rt EXCEPT !.router = @ \ {Xid(o)}]
  /\ UNCHANGED <<pl, ws, exch, purge, audit, env>>

(* Mutant: compaction forgets the open orders, too.                        *)
MutCompactsAll ==
  /\ Running /\ poll.pc = "apply" /\ DOMAIN poll.got = {}
  /\ loop' = [loop EXCEPT !.orders = [o \in Orders |-> "none"]]
  /\ poll' = IdlePoll
  /\ UNCHANGED <<book, pl, rt, ws, exch, purge, audit, env>>

(* Terminal orders leave h.orders and the router; an order the reconciler  *)
(* restored carries no client id to untrack.                               *)
CompactOrders ==
  /\ Running /\ poll.pc = "apply" /\ DOMAIN poll.got = {}
  /\ LET gone == {o \in Orders : loop.orders[o] \in {"filled", "cancelled"}}
     IN /\ loop' = [loop EXCEPT !.orders = [o \in Orders |-> IF o \in gone THEN "none" ELSE @[o]]]
        /\ rt' = [rt EXCEPT !.router = @ \ ({Xid(o) : o \in gone}
                                \cup {Clid(o) : o \in gone \ loop.restored})]
  /\ poll' = IdlePoll
  /\ UNCHANGED <<book, pl, ws, exch, purge, audit, env>>

----------------------------------------------------------------------------
(* The purge goroutine: an IsFlat check, then PurgeHand.                   *)

PurgeCheck ==
  /\ Running /\ purge.check > 0
  /\ purge' = [check |-> purge.check - 1,
               act   |-> purge.act + IF IsFlat(pos) THEN 1 ELSE 0]
  /\ UNCHANGED <<book, pl, loop, poll, rt, ws, exch, audit, env>>

PurgeHand ==
  /\ Running /\ purge.act > 0
  /\ purge' = [purge EXCEPT !.act = @ - 1]
  /\ book' = [book EXCEPT !.log = IF NatsUp THEN <<>> ELSE @]
  /\ UNCHANGED <<pl, loop, poll, rt, ws, exch, audit, env>>

----------------------------------------------------------------------------
(* Outage, crash, and restart.                                             *)

NatsFails ==
  /\ "outage" \in Faults /\ env.nats = "up"
  /\ env' = [env EXCEPT !.nats = "down"]
  /\ UNCHANGED <<book, pl, loop, poll, rt, ws, exch, purge, audit>>

NatsReturns ==
  /\ env.nats = "down"
  /\ env' = [env EXCEPT !.nats = "back"]
  /\ UNCHANGED <<book, pl, loop, poll, rt, ws, exch, purge, audit>>

(* Memory, goroutines and undelivered events are gone; the log stays.      *)
Crash ==
  /\ Running /\ env.crashes < MaxCrashes
  /\ env' = [env EXCEPT !.mode = "down", !.crashes = @ + 1]
  /\ book' = [pos |-> NewHandPositions, pop |-> [k \in {} |-> NoID], log |-> book.log]
  /\ pl' = [o \in Orders |-> [pl[o] EXCEPT !.pc = IF @ \in OnWire THEN "done" ELSE @]]
  /\ loop' = [fills |-> <<>>, seen |-> {}, cache |-> {},
              orders |-> [o \in Orders |-> "none"], restored |-> {}]
  /\ poll' = IdlePoll
  /\ rt' = [rt EXCEPT !.router = {}, !.published = {}]
  /\ ws' = [o \in Orders |-> IF ws[o] = "none" THEN "none" ELSE "lost"]
  /\ purge' = [check |-> 0, act |-> 0]
  /\ UNCHANGED <<exch, audit>>

Owner(id) == CHOOSE o \in Orders : id \in {Clid(o), Xid(o)}

(* Mutants: every pending order counts as cancelled; one the exchange does *)
(* not know is left pending; a fill is logged without the acknowledgement  *)
(* that makes it the leg's.                                                *)
MutPendingIsCancelled(hp, t) ==
  <<Event("order_cancelled", t, hp.legs[t].pending)>>

MutUnknownStaysPending(hp, t) ==
  LET o == Owner(hp.legs[t].pending)
  IN IF exch[o] = "none" THEN <<>>
     ELSE <<[Event("order_placed", t, Xid(o)) EXCEPT !.clid = Clid(o)],
            [Event(IF exch[o] = "filled" THEN "order_filled" ELSE "order_cancelled", t, Xid(o))
               EXCEPT !.qty = pl[o].qty, !.at = 1]>>

MutFillWithoutAck(hp, t) ==
  LET o == Owner(hp.legs[t].pending)
  IN <<[Event(IF exch[o] = "filled" THEN "order_filled" ELSE "order_cancelled", t, Xid(o))
          EXCEPT !.qty = pl[o].qty, !.at = 1]>>

(* reconcileLeg: the events that bring leg t of hp up to what the exchange *)
(* says of its pending order, or of the position.                          *)
ReconcilePendingOrder(hp, t) ==
  LET l      == hp.legs[t]
      o      == Owner(l.pending)
      role   == CASE l.phase = "exiting" -> "close"
                  [] l.phase = "adding"  -> "add"
                  [] OTHER               -> "open"
      placed == IF l.pending = Xid(o) THEN <<>>
                ELSE <<[Event("order_placed", t, Xid(o))
                          EXCEPT !.clid = Clid(o), !.role = role]>>
      filled == [Event("order_filled", t, Xid(o))
                   EXCEPT !.qty = pl[o].qty, !.at = Now([pos |-> hp])]
  IN CASE exch[o] = "none"   -> <<Event("order_cancelled", t, Clid(o))>>
       [] exch[o] = "open"   -> placed
       [] exch[o] = "filled" -> Append(placed, filled)
       [] OTHER -> Append(placed, Event("order_cancelled", t, Xid(o)))

ReconcileLeg(hp, t) ==
  IF HasPendingOrder(hp.legs[t]) THEN ReconcilePendingOrder(hp, t)
  ELSE IF Held = 0 THEN <<Event("position_closed", t, NoID)>> ELSE <<>>

ReconciledLog(legs) ==
  LET hp == ReplayHand(book.log)
  IN FoldLeft(Publish, book.log,
              FlattenSeq([i \in 1 .. Cardinality(legs) |-> ReconcileLeg(hp, SetToSeq(legs)[i])]))

LoggedLegs == ActiveLegs(ReplayHand(book.log))

(* Mutant: the hand starts from the log as it was before reconciling.      *)
MutRestoredPositions == ReplayHand(book.log)

(* The replayed legs are taken over only when the exchange lists a         *)
(* position in the symbol.                                                 *)
RestoredPositions ==
  IF Held = 0 THEN NewHandPositions ELSE ReplayHand(ReconciledLog(LoggedLegs))

(* reconcileHand, which tracks the open orders of the legs it comes to,    *)
(* restorePosition of the legs kept, and the gap-fill recovery after them. *)
ReconcileHand(legs, kept) ==
  LET hp   == ReplayHand(book.log)
      wait == {t \in ActiveLegs(kept) : HasPendingOrder(kept.legs[t])}
      open == {o \in Orders :
                 exch[o] = "open" /\ \E t \in legs : hp.legs[t].pending \in {Clid(o), Xid(o)}}
  IN /\ book' = [pos |-> kept,
                 pop |-> [id \in {kept.legs[t].pending : t \in wait} |->
                            CHOOSE t \in wait : kept.legs[t].pending = id],
                 log |-> ReconciledLog(legs)]
     /\ loop' = [loop EXCEPT !.orders = [o \in Orders |-> IF o \in open THEN "open" ELSE "none"],
                             !.restored = open]
     /\ rt' = [rt EXCEPT !.router = UNION {{Clid(o), Xid(o)} : o \in open},
                         !.published = {o \in Orders : exch[o] = "filled"}]

(* A query that fails ends reconcileHand at its leg: nothing is restored,  *)
(* and StartAllHydrated starts the hand all the same.                      *)
Restart ==
  /\ env.mode = "down" /\ NatsUp
  /\ "busy_restart" \in Faults \/ \A o \in Orders : exch[o] # "open"
  /\ env' = [env EXCEPT !.mode = "running"]
  /\ \/ ReconcileHand(LoggedLegs, RestoredPositions)
     \/ /\ "reconcile_fails" \in Faults
        /\ \E legs \in SUBSET LoggedLegs :
             legs # LoggedLegs /\ ReconcileHand(legs, NewHandPositions)
  /\ UNCHANGED <<pl, poll, ws, exch, purge, audit>>

----------------------------------------------------------------------------
Placement(o) ==
  \/ CheckBalance(o) \/ PublishOrderPlace(o)
  \/ PlaceOrder(o) \/ RecoverAmbiguousPlace(o)

PlaceResult(o) ==
  \/ PlaceSucceeded(o) \/ PlaceOrphaned(o)
  \/ PlaceFailed(o)    \/ PlaceTooSmall(o)

PolledOrder(o) == PolledOpen(o) \/ PolledFilled(o) \/ PolledCancelled(o)

Next ==
  \/ \E o \in Orders :
       \/ HandleEntrySignal(o) \/ HandleExitSignal(o)
       \/ Placement(o) \/ PlaceResult(o)
       \/ ExchangeFill(o) \/ ExchangeCancel(o)
       \/ LoseEvent(o) \/ RouteFill(o) \/ MarkOrderFillPublished(o) \/ RouteCancel(o)
       \/ HandleExitOrderCanceled(o)
       \/ PruneSeenFill(o)
       \/ FetchOrder(o) \/ FetchOrderFails(o) \/ PolledOrder(o)
  \/ HandleWsFill
  \/ PollOrders \/ TakeBatch \/ CompactOrders
  \/ PurgeCheck \/ PurgeHand
  \/ NatsFails \/ NatsReturns \/ Crash \/ Restart

Spec == Init /\ [][Next /\ UNCHANGED setup]_<<setup, vars>>

----------------------------------------------------------------------------
PollStep ==
  PollOrders \/ TakeBatch \/ CompactOrders \/ \E o \in Orders : PolledOrder(o)

(* The loop keeps serving its channels and the placement goroutine keeps   *)
(* running; a poll tick recurs every 30 s and GetOrder does not fail for   *)
(* ever.  Nothing obliges the exchange to fill, or the stream to deliver.  *)
Fairness ==
  /\ \A o \in Orders : WF_vars(Placement(o) \/ PlaceResult(o)) /\ SF_vars(FetchOrder(o))
  /\ WF_vars(HandleWsFill)
  /\ WF_vars(PollStep)

FairSpec == Spec /\ Fairness

----------------------------------------------------------------------------
Statuses == {"none", "open", "filled", "cancelled"}

(* Every variable has its type.                                            *)
TypeOK ==
  /\ IsHandPositions(pos)
  /\ DOMAIN book.pop \subseteq OrderIDs /\ Range(book.pop) \subseteq TradeIDs
  /\ book.log \in Seq(EventType)
  /\ pl \in [Orders -> [pc : OnWire \cup {"none", "done"}, exit : BOOLEAN, qty : Nat,
                        res : Statuses \cup {"err", "lot_size", "orphan"}]]
  /\ loop \in [fills : Seq(Orders), seen : SUBSET Orders, cache : SUBSET Orders,
               orders : [Orders -> Statuses], restored : SUBSET Orders]
  /\ poll.pc \in {"idle", "fetch", "apply"}
  /\ DOMAIN poll.got \subseteq Orders /\ Range(poll.got) \subseteq Statuses \cup {"todo"}
  /\ rt \in [router : SUBSET OrderIDs, published : SUBSET Orders, reported : [Orders -> Nat]]
  /\ ws \in [Orders -> {"none", "fill", "cancel", "mark", "deliver", "done", "lost"}]
  /\ exch \in [Orders -> Statuses]
  /\ purge \in [check : Nat, act : Nat]
  /\ audit \in [records : [Orders -> Nat], disowned : Nat, raced : BOOLEAN]
  /\ env \in [mode : {"running", "down"}, crashes : 0 .. MaxCrashes, nats : {"up", "down", "back"}]

(* Nothing is under way: no order, event, batch or goroutine is left that  *)
(* could still change what the hand believes.                              *)
Settled ==
  /\ LoopFree /\ ~InFlight /\ poll.pc = "idle" /\ loop.fills = <<>>
  /\ \A o \in Orders : loop.orders[o] = "none" /\ ws[o] \in {"none", "done", "lost"}
  /\ purge = [check |-> 0, act |-> 0]

(* Without faults; with those of the exchange's answers and of signals     *)
(* that find a leg waiting; and where the hand may have one leg at most.   *)
Calm       == Faults = {}
Unanswered == Faults \subseteq {"ambiguous", "lookup_fails", "balance_fails", "busy_leg"}
OneLeg     == Pyramid \/ MaxUnits = 1

(* HasPendingOrder "reports whether the leg is waiting for an exchange     *)
(* fill": once nothing is under way no leg is left waiting, whichever of   *)
(* stream, poll and placement result came first or was lost.               *)
NoStuckLeg ==
  Settled /\ Calm => \A t \in ActiveLegs(pos) : ~HasPendingOrder(pos.legs[t])

(* With at most one leg, once nothing is under way it is exactly what the  *)
(* filled orders left in the wallet, but for what was deliberately         *)
(* disowned: no fill is booked twice (stream and poll), dropped, or put on *)
(* a wrong leg.                                                            *)
HoldingsAgree ==
  Settled /\ OneLeg /\ Calm => Held = LegQty + audit.disowned

(* Unless the process crashed, once nothing is under way every exit that   *)
(* filled, or was closed as dust, has exactly one trade record, and no     *)
(* other order has one (appendTradeRecord); an exit that gave its legs up  *)
(* has one for each of them.                                               *)
OneRecordPerClose ==
  Settled /\ Calm /\ env.crashes = 0 => \A o \in {p \in Orders : pl[p].res # "orphan"} :
    audit.records[o] = IF pl[o].exit /\ (exch[o] = "filled" \/ pl[o].res = "lot_size")
                       THEN 1 ELSE 0

(* A restart at any moment replays the very legs the running hand works    *)
(* with: memory and log never drift apart (publishAndApply, PurgeHand,     *)
(* event ids that must not collide), though placements are recovered or    *)
(* taken for failed and legs given up for want of an answer.               *)
LogIsMemory == Running /\ Unanswered => ReplayHand(book.log).legs = pos.legs

(* Whenever the hand may own coins, or is about to because an entry is     *)
(* open at the exchange, the durable log names a leg for it: the intent is *)
(* logged before PlaceOrder, and PurgeHand never drops a live leg.  An     *)
(* order whose lookup fails is taken for failed, and is left out.          *)
LogCoversExposure ==
  Faults \subseteq {"overlap", "ambiguous", "balance_fails", "busy_leg"}
    /\ (Held > audit.disowned \/ \E o \in Orders : exch[o] = "open" /\ ~pl[o].exit)
    => ~IsFlat(ReplayHand(book.log))

(* Claimed by the reconciler ("failed - hand left stopped for manual       *)
(* review", reconcile.go:116), and false when a query of it fails: a hand  *)
(* that runs works with the legs its log names.                            *)
FailedReconcileStops == Running /\ IsFlat(pos) => IsFlat(ReplayHand(book.log))

(* The order a leg waits for is known to pendingOrderPos, so that its fill *)
(* or cancel finds the leg (publishAndApply, restorePosition).             *)
PendingIsMapped ==
  Running /\ Unanswered => \A t \in ActiveLegs(pos) :
    HasPendingOrder(pos.legs[t]) =>
      Mapped(book, pos.legs[t].pending) /\ book.pop[pos.legs[t].pending] = t

(* Claimed by the comment on the MaxUnits guard ("cap concurrent legs ..." *)
(* hand_runner.go:378), and false once signals overlap: at most MaxUnits   *)
(* legs, or filled entries of the pyramid's single leg.                    *)
UnitsAlwaysCapped ==
  IF Pyramid
  THEN /\ Cardinality(ActiveLegs(pos)) =< 1
       /\ \A t \in ActiveLegs(pos) : pos.legs[t].count =< MaxUnits
  ELSE Cardinality(ActiveLegs(pos)) =< MaxUnits

(* A hand with one leg breaks the cap in that one way only: however        *)
(* signals overlap placements, fills and purges, it holds until an entry   *)
(* is let in while EntryCount lacks another one.  With several legs there  *)
(* is a second way, the cancel of a failed placement that goes to the      *)
(* primary leg: their cap is stated for signals that do not overlap.       *)
UnitsCapped ==
  /\ Calm \/ (OneLeg /\ Faults \subseteq {"overlap", "busy_leg"})
  /\ ~audit.raced
  => UnitsAlwaysCapped

(* The portfolio is told of an exchange fill at most once.                 *)
ReportedOnce == \A o \in Orders : rt.reported[o] =< 1

(* An exit gives its leg up as gone only when the wallet no longer holds   *)
(* the quantity it was to sell.                                            *)
OrphanedMeansGone ==
  \A o \in Orders : pl[o].pc = "result" /\ pl[o].res = "orphan" => Held < pl[o].qty

(* A position_closed event is logged for every exit whose fill is logged.  *)
ClosesAreLogged ==
  Settled /\ Calm => \A i \in DOMAIN book.log, o \in Orders :
    (pl[o].exit /\ book.log[i].kind = "order_filled" /\ book.log[i].order = Xid(o))
      => \E j \in DOMAIN book.log :
           book.log[j].kind = "position_closed" /\ book.log[j].order = Xid(o)

(* The hand never counts on coins it did not buy: whatever fails, is lost, *)
(* repeated or misdirected, a leg past its entry has an entry order that   *)
(* filled at the exchange.                                                 *)
OpenLegsWereBought ==
  \A o \in Orders :
    LegPhase(pos, Clid(o)) \in {"open", "adding", "exiting"} => exch[o] = "filled"

WaitsFor(o) == \E t \in ActiveLegs(pos) : pos.legs[t].pending \in {Clid(o), Xid(o)}

(* A filled order is booked: some day no leg waits for it and the          *)
(* portfolio has been told, though the stream may lose its event and       *)
(* GetOrder may fail now and then.                                         *)
FillsAreBooked ==
  \A o \in Orders : exch[o] = "filled" ~> (~WaitsFor(o) /\ rt.reported[o] > 0)

(* What is booked of an order: its fill mapped to a leg until it is over,   *)
(* one trade record and one log entry for every close, and units capped for *)
(* as long as the count of them is complete.                               *)
OrderBooks == OneRecordPerClose /\ ClosesAreLogged /\ PendingIsMapped /\ UnitsCapped

(* Legs across crashes: of their type, none waiting for an order that is    *)
(* over, and none open that was not bought.                                *)
LegsAreReal == TypeOK /\ NoStuckLeg /\ OpenLegsWereBought
=============================================================================
