--------------------------- MODULE BacktestEngine ---------------------------
(***************************************************************************)
(* The single-symbol backtest: Engine::run driving EngineCore, its broker,  *)
(* its portfolio and its exit trackers.  A bar is two steps, as in the run  *)
(* loop: Tick is run_base_tick (fill what is pending at the open, run the   *)
(* exit rules), Dispatch is dispatch_signals on whatever the strategy       *)
(* answers.  EndOfData is the end of Engine::run and Reset is what          *)
(* walk_forward calls before it runs the same engine over the next window.  *)
(*                                                                         *)
(* The strategy and the sizer are environment: any signals, any size, zero  *)
(* included (a size of zero is also what a sizer's cash check or the        *)
(* max_position_pct cap amounts to).  MAE, MFE, regimes and timestamps are  *)
(* left out.  Leg 1 is the base symbol, leg n is `SYM#n`.                   *)
(***************************************************************************)
EXTENDS Portfolio, Sequences, FiniteSetsExt, SequencesExt

CONSTANTS
    Configs,        \* engine configurations, each with its environment: the
                    \* exit levels its strategy's signals carry (levels), how
                    \* many it gives a bar (per_bar), what risk.size answers
    BarLevels,      \* prices a bar is made of
    Scale,          \* the denominator of the percentages
    CommissionPct,
    SlippagePct,
    MaxHeld         \* bars_held is not counted beyond this

VARIABLES
    cfg,    \* single_entry, reverse_policy, max_units, ...
    phase,  \* where Engine::run is: "warm", "bar", "signals", "ended"
    core,   \* EngineCore
    bar,    \* the last bar of the run
    exits   \* the exit rules that fired on it

engineVars == <<cfg, phase, core, bar, exits>>

None == -100

NoLevels == [target |-> None, stop |-> None, trail |-> None, max |-> None,
             offset |-> FALSE]

Bars == {b \in [open : BarLevels, high : BarLevels, low : BarLevels,
                close : BarLevels] :
            /\ b.low <= b.open /\ b.open <= b.high
            /\ b.low <= b.close /\ b.close <= b.high}

NoBar == [open |-> None, high |-> None, low |-> None, close |-> None]

Is_long(pos) == pos.qty > 0

\* The side that closes a position.
ClosingSide(pos) == IF Is_long(pos) THEN "sell" ELSE "buy"

\* A map without a key.
Without(map, key) == [k \in DOMAIN map \ {key} |-> map[k]]

\* A map with a key set.
With(map, key, value) ==
    [k \in DOMAIN map \cup {key} |-> IF k = key THEN value ELSE map[k]]

EngineCoreNew == [cash |-> 0, realized |-> 0, positions |-> <<>>,
                  trackers |-> <<>>, levels |-> <<>>, pending |-> <<>>,
                  last_price |-> 0]

-----------------------------------------------------------------------------
(* SimBroker                                                               *)

Slipped(price, side) == (price * (Scale + Sign(side) * SlippagePct)) \div Scale

\* A fill of qty on a leg, at a price slipped against the side.
FillAt(leg, side, qty, price) ==
    LET p == Slipped(price, side)
    IN  [leg |-> leg, side |-> side, qty |-> qty, price |-> p,
         commission |-> (p * qty * CommissionPct) \div Scale]

\* Portfolio::apply_fill on the leg's entry of positions.
Apply_fill(st, f) ==
    LET pos == IF f.leg \in DOMAIN st.positions THEN st.positions[f.leg] ELSE Flat
        new == Filled(pos, f)
    IN  [st EXCEPT !.cash = @ + CashImpact(f),
                   !.realized = @ + Pnl(pos, f),
                   !.positions = IF new.qty = 0 THEN Without(@, f.leg)
                                                ELSE With(@, f.leg, new)]

-----------------------------------------------------------------------------
(* PositionTracker                                                         *)

\* Offsets become prices on the side the direction gives them.
Resolve_offset_levels(price, lv, long) ==
    LET way == IF long THEN 1 ELSE -1
    IN  IF ~lv.offset THEN lv
        ELSE [lv EXCEPT !.target = IF @ = None THEN None ELSE price + way * Abs(@),
                        !.stop = IF @ = None THEN None ELSE price - way * Abs(@),
                        !.offset = FALSE]

\* with_levels: the tracker of a new position.  entry is also last_entry_price.
With_levels(price, lv, long) ==
    [long |-> long, entry |-> price, lv |-> lv, held |-> 0, extreme |-> price,
     legs |-> 1]

\* Mutant: the levels stay those of the first entry.
AddLegOldLevels(tr, price, lv) ==
    [tr EXCEPT !.legs = @ + 1, !.entry = price, !.held = 0, !.extreme = price]

\* A pyramided leg: the levels follow the latest entry.
Add_leg(tr, price, lv) ==
    [tr EXCEPT !.legs = @ + 1, !.entry = price, !.lv = lv, !.held = 0,
               !.extreme = price]

TrailPrice(tr) ==
    IF tr.lv.trail = None THEN None
    ELSE (tr.extreme * (IF tr.long THEN Scale - tr.lv.trail ELSE Scale + tr.lv.trail))
            \div Scale

\* The bar reached a stop-side, or a target-side, level.
StopHit(tr, b, level) ==
    level # None /\ (IF tr.long THEN b.low <= level ELSE b.high >= level)

TargetHit(tr, b, level) ==
    level # None /\ (IF tr.long THEN b.high >= level ELSE b.low <= level)

\* The first half of update_and_check: the counter and the running extremum.
Watched(tr, b) ==
    [tr EXCEPT !.held = Lesser(@ + 1, MaxHeld),
               !.extreme = IF tr.long THEN (IF b.high > @ THEN b.high ELSE @)
                                      ELSE (IF b.low < @ THEN b.low ELSE @)]

Exit(price, reason) == [price |-> price, reason |-> reason]

NoExit == Exit(None, "none")

\* The stop side: trailing stop, then signal stop.
FindStop(tr, b) ==
    CASE StopHit(tr, b, TrailPrice(tr)) -> Exit(TrailPrice(tr), "trailing_stop")
      [] ~StopHit(tr, b, TrailPrice(tr)) /\ StopHit(tr, b, tr.lv.stop) ->
            Exit(tr.lv.stop, "stop_loss")
      [] OTHER -> NoExit

FindTarget(tr, b) ==
    IF TargetHit(tr, b, tr.lv.target) THEN Exit(tr.lv.target, "take_profit")
    ELSE NoExit

\* In OhlcHeuristic mode, the bar's direction says the target came first.
TpFirst(tr, b, mode) ==
    /\ mode = "ohlc"
    /\ \/ tr.long /\ b.close < b.open
       \/ ~tr.long /\ b.close > b.open

\* Mutant: a time exit one bar late.
CheckLateTimeout(tr, b, mode) ==
    LET stop == FindStop(tr, b)
    IN  IF stop # NoExit THEN stop
        ELSE IF FindTarget(tr, b) # NoExit THEN FindTarget(tr, b)
        ELSE IF tr.lv.max # None /\ tr.held > tr.lv.max
             THEN Exit(b.close, "max_bars") ELSE NoExit

\* The second half of update_and_check: which rule fires, and at what price.
Check(tr, b, mode) ==
    LET stop == FindStop(tr, b)
        target == FindTarget(tr, b)
        level == IF TpFirst(tr, b, mode)
                 THEN (IF target # NoExit THEN target ELSE stop)
                 ELSE (IF stop # NoExit THEN stop ELSE target)
    IN  CASE level # NoExit -> level
          [] level = NoExit /\ tr.lv.max # None /\ tr.held >= tr.lv.max ->
                Exit(b.close, "max_bars")
          [] OTHER -> NoExit

-----------------------------------------------------------------------------
(* run_base_tick                                                           *)

\* on_fill.  A leg still open takes the levels stored for it: a new tracker,
\* or another leg of the one there when pyramiding is on.  A leg now closed
\* drops its tracker and any levels stored under its key.
On_fill(st, f) ==
    LET after == Apply_fill(st, f)
        open == f.leg \in DOMAIN after.positions
        long == Is_long(after.positions[f.leg])
        lv == Resolve_offset_levels(f.price,
                  IF f.leg \in DOMAIN st.levels THEN st.levels[f.leg] ELSE NoLevels,
                  long)
        tracker == IF f.leg \notin DOMAIN st.trackers
                   THEN With_levels(f.price, lv, long)
                   ELSE IF cfg.max_units > 1
                        THEN Add_leg(st.trackers[f.leg], f.price, lv)
                        ELSE st.trackers[f.leg]
    IN  [after EXCEPT !.levels = Without(@, f.leg),
                      !.trackers = IF open THEN With(@, f.leg, tracker)
                                           ELSE Without(@, f.leg)]

\* process_pending: every order of the symbol fills at the bar's open.
FillPending(st, b) ==
    FoldLeft(LAMBDA acc, o : On_fill(acc, FillAt(o.leg, o.side, o.qty, b.open)),
             [st EXCEPT !.pending = <<>>], st.pending)

\* The legs whose exit rule fires on b, with the exit.
Fired(st, b) ==
    {[leg |-> k, exit |-> Check(Watched(st.trackers[k], b), b, cfg.mode),
      tracker |-> Watched(st.trackers[k], b)] : k \in DOMAIN st.trackers}

\* force_close of a whole leg, booked at once.
CloseLeg(st, leg, price) ==
    Apply_fill(st, FillAt(leg, ClosingSide(st.positions[leg]),
                          Abs(st.positions[leg].qty), price))

\* run_exit_checks: every tracker sees the bar; the legs that fire are closed
\* at their level, their orders cancelled and their trackers dropped.
\* last_price becomes the level of the one closed last, in no fixed order.
Run_exit_checks(st, b, fired, lastFired) ==
    LET legs == {e.leg : e \in fired}
        price(k) == (CHOOSE e \in fired : e.leg = k).exit.price
        closed == FoldSet(LAMBDA k, acc : CloseLeg(acc, k, price(k)), st,
                          legs \cap DOMAIN st.positions)
    IN  [closed EXCEPT
            !.trackers = [k \in DOMAIN st.trackers \ legs |-> Watched(st.trackers[k], b)],
            !.pending = SelectSeq(@, LAMBDA o : o.leg \notin legs),
            !.last_price = IF lastFired = None THEN @ ELSE price(lastFired)]

\* Only the difference of cash and realized pnl matters: keep that.
Settled(st) == [st EXCEPT !.cash = @ - st.realized, !.realized = 0]

\* run_base_tick on a trading bar.
Tick(b) ==
    /\ phase \in {"warm", "bar"}
    /\ LET filled == FillPending([core EXCEPT !.last_price = b.close], b)
           fired == {e \in Fired(filled, b) : e.exit # NoExit}
           legs == {e.leg : e \in fired} \cap DOMAIN filled.positions
       IN  /\ \E lastFired \in IF legs = {} THEN {None} ELSE legs :
                 core' = Settled(Run_exit_checks(filled, b, fired, lastFired))
           /\ exits' = fired
    /\ bar' = b
    /\ phase' = "signals"
    /\ UNCHANGED cfg

\* run_base_tick on a bar before warmup_until: only the last price moves.
WarmUp(b) ==
    /\ phase = "warm"
    /\ core' = [core EXCEPT !.last_price = b.close]
    /\ bar' = [NoBar EXCEPT !.close = b.close]
    /\ UNCHANGED <<cfg, phase, exits>>

-----------------------------------------------------------------------------
(* dispatch_signals                                                        *)

LegsOf(st, long) ==
    {k \in DOMAIN st.positions : Is_long(st.positions[k]) = long}

Order(leg, side, qty, asked) ==
    [leg |-> leg, side |-> side, qty |-> qty, asked |-> asked]

\* Market orders that close the given legs.
ClosingOrders(st, legs) ==
    [i \in 1..Cardinality(legs) |->
        LET k == SetToSortSeq(legs, <)[i]
        IN  Order(k, ClosingSide(st.positions[k]), Abs(st.positions[k].qty), NoLevels)]

\* The first `base#n` that is not a key of positions.
Mint_leg_key(st) ==
    Min({n \in 2..(Cardinality(DOMAIN st.positions) + 2) : n \notin DOMAIN st.positions})

\* The sizers' common validate: no second position in the same direction
\* under the base symbol, and room for one more.
Validate(positions, long) ==
    /\ ~(1 \in DOMAIN positions /\ Is_long(positions[1]) = long)
    /\ Cardinality(DOMAIN positions) < cfg.max_positions

\* The price has moved beyond the last leg: against the tracker's entry when
\* legs are merged, against the best of their average prices otherwise.
Advanced(st, long, legs) ==
    IF cfg.merge
    THEN 1 \in DOMAIN st.trackers /\
         IF long THEN st.last_price > st.trackers[1].entry
                 ELSE st.last_price < st.trackers[1].entry
    ELSE \A k \in legs :
            LET pos == st.positions[k]
            IN  IF long THEN st.last_price * pos.qty > pos.cost
                        ELSE st.last_price * Abs(pos.qty) < Abs(pos.cost)

\* Legs already entered, as the pyramiding limit counts them.
UnitCount(st, legs) ==
    IF cfg.merge
    THEN IF 1 \in DOMAIN st.trackers THEN st.trackers[1].legs ELSE 1
    ELSE Cardinality(legs)

\* The pyramiding guards.
MayAdd(st, long, legs) ==
    cfg.max_units > 1 /\ UnitCount(st, legs) < cfg.max_units /\ Advanced(st, long, legs)

\* The Exit policy: a signal against an open position only closes it.
PolicyStops(st, opposite) == cfg.reverse = "exit" /\ opposite # {}

\* open_position.
Open_position(st, sig) ==
    LET long == sig.dir = "long"
        side == IF long THEN "buy" ELSE "sell"
        opposite == IF cfg.reverse = "none" THEN {} ELSE LegsOf(st, ~long)
        closing == [st EXCEPT !.pending = @ \o ClosingOrders(st, opposite)]
        rest == [k \in DOMAIN st.positions \ opposite |-> st.positions[k]]
        legs == LegsOf(st, long)
        add == legs # {} /\ MayAdd(st, long, legs)
        leg == IF add /\ ~cfg.merge THEN Mint_leg_key(st) ELSE 1
        allowed == IF legs # {}
                   THEN add \/ (cfg.max_units = 1 /\ ~cfg.single /\ Validate(rest, long))
                   ELSE Validate(rest, long)
    IN  IF PolicyStops(st, opposite) \/ ~allowed \/ sig.size = 0 THEN closing
        ELSE [closing EXCEPT
                !.levels = IF sig.lv = NoLevels THEN @ ELSE With(@, leg, sig.lv),
                !.pending = Append(@, Order(leg, side, sig.size, sig.lv))]

\* on_signal; close_position_market closes every leg.
On_signal(st, sig) ==
    IF sig.dir = "exit"
    THEN [st EXCEPT !.pending = @ \o ClosingOrders(st, DOMAIN st.positions)]
    ELSE Open_position(st, sig)

Signals ==
    [dir : {"exit"}, size : {0}, lv : {NoLevels}]
      \cup [dir : {"long", "short"}, size : cfg.sizes, lv : cfg.levels]

\* The strategy's answer to the bar.  Its signals are all handled before the
\* first of the orders they cause, so each sees the same portfolio.  Of the
\* bar, only the close is read again.
Dispatch(sigs) ==
    /\ phase = "signals"
    /\ core' = FoldLeft(On_signal, core, sigs)
    /\ phase' = "bar"
    /\ bar' = [NoBar EXCEPT !.close = bar.close]
    /\ exits' = {}
    /\ UNCHANGED cfg

\* The feed is empty: force_close_all at the last close, and the report.
\* Orders still pending stay with the broker.
EndOfData ==
    /\ phase \in {"warm", "bar"}
    /\ bar # NoBar
    /\ core' = Settled(
          [FoldSet(LAMBDA k, acc : CloseLeg(acc, k, bar.close), core, DOMAIN core.positions)
             EXCEPT !.trackers = [k \in DOMAIN @ \ DOMAIN core.positions |-> @[k]]])
    /\ phase' = "ended"
    /\ UNCHANGED <<cfg, bar, exits>>

\* Engine::reset before the next window: a new portfolio, no trackers, no
\* stored levels, no bars.  The broker and last_price are not touched.
Reset ==
    /\ phase = "ended"
    /\ core' = [core EXCEPT !.cash = 0, !.realized = 0, !.positions = <<>>,
                            !.trackers = <<>>, !.levels = <<>>]
    /\ phase' = "warm"
    /\ bar' = NoBar
    /\ exits' = {}
    /\ UNCHANGED cfg

EngineInit ==
    /\ cfg \in Configs
    /\ phase = "warm"
    /\ core = EngineCoreNew
    /\ bar = NoBar
    /\ exits = {}

EngineNext ==
    \/ \E b \in Bars : Tick(b)
    \/ \E b \in Bars : WarmUp(b)
    \/ \E sigs \in BoundedSeq(Signals, cfg.per_bar) : Dispatch(sigs)
    \/ EndOfData
    \/ Reset

EngineSpec == EngineInit /\ [][EngineNext]_engineVars

-----------------------------------------------------------------------------
(* Properties                                                              *)

\* Type invariant of the engine.
EngineTypeOK ==
    /\ phase \in {"warm", "bar", "signals", "ended"}
    /\ core.realized = 0
    /\ \A k \in DOMAIN core.positions : core.positions[k].qty # 0
    /\ \A k \in DOMAIN core.trackers :
          core.trackers[k].legs >= 1 /\ core.trackers[k].held \in 0..MaxHeld
    /\ \A i \in DOMAIN core.pending : core.pending[i].qty > 0

Invested == MapThenSumSet(LAMBDA k : core.positions[k].cost + core.positions[k].commission,
                          DOMAIN core.positions)

\* Across all legs, and through fills, exit rules and forced closes, the cash
\* less the trades' pnl is what the open legs cost: a run that ends flat has
\* exactly its capital plus its trades.
EngineBooks == core.cash - core.realized + Invested = 0

\* Between bars every open leg has the tracker that runs its exit rules, and
\* no tracker outlives its leg (a leftover one would close a later position
\* of the same key at an old level).
EveryLegWatched ==
    phase \in {"bar", "signals"} => DOMAIN core.trackers = DOMAIN core.positions

\* The tracker of a leg looks at the leg's own direction, when a strategy gives
\* one signal a bar and a reverse policy is set (the net-quantity default
\* turns a position round under the old tracker).
TrackerSide ==
    cfg.per_bar = 1 /\ cfg.reverse # "none" =>
        \A k \in DOMAIN core.positions \cap DOMAIN core.trackers :
            core.trackers[k].long = Is_long(core.positions[k])

\* Under the Exit policy pyramiding exceeds max_units by no more than the signals
\* of one bar: they are all counted against the legs there are, and the orders of
\* the ones before are not legs yet.  With one signal a bar it is the limit itself.
UnitLimit ==
    cfg.max_units > 1 /\ cfg.reverse = "exit" =>
        LET most == cfg.max_units + cfg.per_bar - 1
        IN  /\ \A k \in DOMAIN core.trackers : core.trackers[k].legs <= most
            /\ \A long \in BOOLEAN : Cardinality(LegsOf(core, long)) <= most

\* No position survives a bar that reached one of its exit levels: whatever is
\* still open after the exit rules was never beyond its stop or its target on
\* this bar, nor out of time -- a position filled at this bar's open included.
NoMissedExit ==
    phase = "signals" =>
        \A k \in DOMAIN core.trackers :
            LET tr == core.trackers[k]
            IN  /\ tr.lv.stop # None =>
                      IF tr.long THEN bar.low > tr.lv.stop ELSE bar.high < tr.lv.stop
                /\ tr.lv.target # None =>
                      IF tr.long THEN bar.high < tr.lv.target
                                 ELSE bar.low > tr.lv.target
                /\ tr.lv.max # None => tr.held < tr.lv.max

\* In Pessimistic mode a bar that reaches both the stop and the target of a
\* position is booked as the stop.
StopBeforeTarget ==
    cfg.mode = "pessimistic" =>
        \A e \in exits :
            e.exit.reason = "take_profit" /\ e.tracker.lv.stop # None =>
                IF e.tracker.long THEN bar.low > e.tracker.lv.stop
                                  ELSE bar.high < e.tracker.lv.stop

\* Under the Exit policy a position never turns round in one step and never
\* opens against the side it closes: it goes through flat.
NoTurnAround ==
    [][cfg.per_bar = 1 /\ cfg.reverse = "exit" =>
        \A k \in DOMAIN core.positions \cap DOMAIN core'.positions :
            Is_long(core.positions[k]) = Is_long(core'.positions[k])]_engineVars

\* A position opened, or enlarged, by a signal's order watches the levels that
\* signal asked for, resolved at the price it was filled at -- under the Exit
\* policy, for one signal a bar, and from the second bar of a run on (the
\* first may fill an order left by an earlier run, see FreshRun).
LevelsFollowEntry ==
    [][cfg.per_bar = 1 /\ cfg.reverse = "exit"
         /\ phase = "bar" /\ phase' = "signals" =>
        \A i \in DOMAIN core.pending :
            LET o == core.pending[i]
                long == o.side = "buy"
                price == Slipped(bar'.open, o.side)
            IN  o.leg \in DOMAIN core'.positions
                  /\ Is_long(core'.positions[o.leg]) = long
                => core'.trackers[o.leg].lv = Resolve_offset_levels(price, o.asked, long)
       ]_engineVars

\* What walk_forward says of reset, "Each probe fully resets the engine, so
\* results are correct": a run starts with nothing pending.
FreshRun == phase = "warm" => core.pending = <<>>

\* The engine's exits: every open leg is watched by a tracker of its side, within
\* the unit limit, no level or timeout is passed by, and the stop comes first.
ExitsWatch == EngineTypeOK /\ EveryLegWatched /\ TrackerSide /\ UnitLimit /\ NoMissedExit /\ StopBeforeTarget
=============================================================================
