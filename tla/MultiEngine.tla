----------------------------- MODULE MultiEngine -----------------------------
(*************************************************************************)
(* The backtest of several symbols: the sizers and the engine.           *)
(*************************************************************************)
EXTENDS BacktestEngine

(***************************************************************************)
(* The position sizers (crate alm-engine, risk/): whether a signal may open *)
(* a position and how large.  A sizer is a record with a kind; a book is    *)
(* what it reads of the portfolio: cash, the equity last recorded, the open *)
(* positions and the pnl of the trades so far.  Quantities are whole units, *)
(* so the code's fractional sizes are rounded down to one; fractions are    *)
(* over Scale, a trade's pnl_pct is in hundredths.                          *)
(***************************************************************************)

NoTrades == [wins |-> 0, gain |-> 0, losses |-> 0, loss |-> 0]

\* A closed trade in the statistics Kelly reads: is_winner is pnl > 0.
Recorded(stats, pnl, basis) ==
    LET pct == (100 * pnl) \div Abs(basis)
    IN  IF pnl > 0 THEN [stats EXCEPT !.wins = @ + 1, !.gain = @ + pct]
                   ELSE [stats EXCEPT !.losses = @ + 1, !.loss = @ + Abs(pct)]

SameSide(positions, symbol, long) ==
    symbol \in DOMAIN positions /\ Is_long(positions[symbol]) = long

\* validate, the same in every sizer but for the cash FixedUsd asks for.
SizerValidate(z, book, symbol, long) ==
    /\ ~SameSide(book.positions, symbol, long)
    /\ z.kind = "fixed_usd" => book.cash >= z.amount
    /\ Cardinality(DOMAIN book.positions) < z.max_positions

Lots(raw, lot) == (raw \div lot) * lot

\* strength_sizing off stands for a signal of full strength.
Strength(z, sig) == IF z.strength_sizing THEN sig.strength ELSE Scale

FixedFractional(z, book, sig, price) ==
    LET dist == IF sig.lv.offset THEN Abs(sig.lv.stop) ELSE Abs(price - sig.lv.stop)
    IN  IF sig.lv.stop = None \/ dist = 0 THEN 0
        ELSE Lots((book.equity * z.pct) \div (Scale * dist), z.lot)

PercentEquity(z, book, sig, price) ==
    Lots((book.cash * z.pct * Strength(z, sig)) \div (Scale * Scale * price), z.lot)

FixedUsd(z, book, sig, price) == Lots(z.amount \div price, z.lot)

EqualWeight(z, book, sig, price) ==
    IF z.max_positions = 0 THEN 0
    ELSE Lots((book.equity * Strength(z, sig)) \div (z.max_positions * Scale * price), z.lot)

AtrSizing(z, book, sig, price) ==
    IF sig.atr * z.mult = 0 THEN 0
    ELSE (book.equity * z.pct) \div (Scale * sig.atr * z.mult)

\* f* = W - (1 - W) / R as a fraction: w of n trades won, an average win of
\* winSum / winN, an average loss of lossSum / lossN.
Kelly_f(w, n, winSum, winN, lossSum, lossN) ==
    IF winSum = 0 \/ lossSum = 0 THEN [num |-> 0, den |-> 1]
    ELSE [num |-> w * winSum * lossN - (n - w) * lossSum * winN,
          den |-> n * winSum * lossN]

\* The trades' own statistics once there is one, else the priors; a side
\* without a trade keeps its prior.
KellyStake(z, stats) ==
    IF stats.wins + stats.losses = 0
    THEN Kelly_f(z.win_rate, Scale, z.avg_win, 1, z.avg_loss, 1)
    ELSE Kelly_f(stats.wins, stats.wins + stats.losses,
                 IF stats.wins = 0 THEN z.avg_win ELSE stats.gain,
                 IF stats.wins = 0 THEN 1 ELSE stats.wins,
                 IF stats.losses = 0 THEN z.avg_loss ELSE stats.loss,
                 IF stats.losses = 0 THEN 1 ELSE stats.losses)

KellySizing(z, book, sig, price) ==
    LET f == KellyStake(z, book.stats)
        all == book.equity * Strength(z, sig)
    IN  IF f.num <= 0 THEN 0
        ELSE IF z.pct * f.num >= Scale * f.den THEN all \div (Scale * price)
        ELSE (all * z.pct * f.num) \div (Scale * Scale * f.den * price)

\* AnySizer::size.  FixedQuantity alone does not look at the price.
SizerSize(z, book, sig, price) ==
    CASE z.kind = "fixed_qty" -> z.amount
      [] z.kind # "fixed_qty" /\ price = 0 -> 0
      [] z.kind = "fixed_fractional" /\ price > 0 -> FixedFractional(z, book, sig, price)
      [] z.kind = "percent_equity" /\ price > 0 -> PercentEquity(z, book, sig, price)
      [] z.kind = "fixed_usd" /\ price > 0 -> FixedUsd(z, book, sig, price)
      [] z.kind = "equal_weight" /\ price > 0 -> EqualWeight(z, book, sig, price)
      [] z.kind = "atr" /\ price > 0 -> AtrSizing(z, book, sig, price)
      [] z.kind = "kelly" /\ price > 0 -> KellySizing(z, book, sig, price)

-----------------------------------------------------------------------------
(***************************************************************************)
(* The backtest of several symbols (engine/src/multi_engine.rs): a heap     *)
(* merges the feeds by time, one portfolio and one sizer serve all symbols. *)
(* A symbol is a number in the order of the names, and the key of its       *)
(* position; broker, portfolio and tracker are BacktestEngine's, whose      *)
(* state core, bar, exits and phase this module drives.  A feed is the      *)
(* sequence of its bars' timestamps, the prices are the environment's.      *)
(* The strategy answers every bar with at most one signal, of any symbol.   *)
(***************************************************************************)

CONSTANTS
    Feeds,          \* the registered feeds: symbol -> its bars' timestamps
    MultiBars,      \* the bars a feed may give
    SizerChoices,   \* the sizers, each with the signals of its strategy
    MultiCapital    \* initial_capital

VARIABLES
    heap,       \* the next bar of each feed, as [ts, sym]
    feeds,      \* what the feeds still hold
    at,         \* the bar being dispatched, as [ts, sym]
    quotes,     \* last_prices
    sizer,
    pnl,        \* sum of the recorded trades' pnl
    stats       \* what Kelly reads of the trades

multiVars == <<engineVars, heap, feeds, at, quotes, sizer, pnl, stats>>

Entry(sym, ts) == [ts |-> ts, sym |-> sym]

\* HeapEntry's order through BinaryHeap: the smallest timestamp first, and of
\* two equal ones the greatest name.
Pops(e) == \A o \in heap : e.ts < o.ts \/ (e.ts = o.ts /\ e.sym >= o.sym)

\* add_feed primes the heap with each feed's first bar.
MultiInit ==
    /\ EngineInit
    /\ feeds = [s \in DOMAIN Feeds |-> Tail(Feeds[s])]
    /\ heap = {Entry(s, Head(Feeds[s])) : s \in DOMAIN Feeds}
    /\ at = Entry(0, 0)
    /\ quotes = <<>>
    /\ sizer \in SizerChoices
    /\ pnl = 0
    /\ stats = NoTrades

\* Mutant: a feed is only asked again when the heap has run empty.
RefillLast(e) ==
    /\ heap' = IF heap # {e} \/ feeds[e.sym] = <<>> THEN heap \ {e}
               ELSE {Entry(e.sym, Head(feeds[e.sym]))}
    /\ feeds' = IF heap # {e} \/ feeds[e.sym] = <<>> THEN feeds
                ELSE [feeds EXCEPT ![e.sym] = Tail(@)]

\* The feed that gave the bar gives its next one.
Refill(e) ==
    IF feeds[e.sym] = <<>> THEN heap' = heap \ {e} /\ UNCHANGED feeds
    ELSE /\ heap' = (heap \ {e}) \cup {Entry(e.sym, Head(feeds[e.sym]))}
         /\ feeds' = [feeds EXCEPT ![e.sym] = Tail(@)]

\* A fill booked, with the trade it may complete.
Booked(st, f) ==
    LET pos == IF f.leg \in DOMAIN st.core.positions THEN st.core.positions[f.leg] ELSE Flat
    IN  [core |-> st.core,
         pnl |-> st.pnl + Pnl(pos, f),
         stats |-> IF Closes(pos, f) /\ sizer.kind = "kelly"
                   THEN Recorded(st.stats, Pnl(pos, f), Basis(pos, f)) ELSE st.stats]

\* Event::Fill; max_units is 1 here, so a tracker that exists stays.
MultiFill(st, f) == [Booked(st, f) EXCEPT !.core = On_fill(st.core, f)]

\* process_pending: the orders of the bar's symbol only.
MultiPending(st, sym, b) ==
    FoldLeft(LAMBDA acc, o : MultiFill(acc, FillAt(o.leg, o.side, o.qty, b.open)),
             [st EXCEPT !.core.pending = SelectSeq(@, LAMBDA o : o.leg # sym)],
             SelectSeq(st.core.pending, LAMBDA o : o.leg = sym))

\* force_close of a symbol's whole position.
MultiClose(st, sym, price) ==
    LET pos == st.core.positions[sym]
        f == FillAt(sym, ClosingSide(pos), Abs(pos.qty), price)
    IN  [Booked(st, f) EXCEPT !.core = Apply_fill(st.core, f)]

\* The exit rules: the bar of one symbol is shown to the tracker of every
\* symbol; whichever fires is closed at its level and its orders cancelled.
MultiExits(st, b, fired) ==
    LET legs == {e.leg : e \in fired}
        price(k) == (CHOOSE e \in fired : e.leg = k).exit.price
        closed == FoldSet(LAMBDA k, acc : MultiClose(acc, k, price(k)), st,
                          legs \cap DOMAIN st.core.positions)
    IN  [closed EXCEPT
            !.core.trackers = [k \in DOMAIN st.core.trackers \ legs |->
                                  Watched(st.core.trackers[k], b)],
            !.core.pending = SelectSeq(@, LAMBDA o : o.leg \notin legs)]

\* One turn of run(): pop, refill, and Event::Market up to the strategy.
MultiTick(e, b) ==
    /\ phase \in {"warm", "bar"}
    /\ e \in heap /\ Pops(e)
    /\ Refill(e)
    /\ at' = e
    /\ quotes' = With(quotes, e.sym, b.close)
    /\ LET filled == MultiPending([core |-> core, pnl |-> pnl, stats |-> stats], e.sym, b)
           fired == {x \in Fired(filled.core, b) : x.exit # NoExit}
           done == MultiExits(filled, b, fired)
       IN  /\ core' = Settled(done.core)
           /\ pnl' = done.pnl
           /\ stats' = done.stats
           /\ exits' = fired
    /\ bar' = b
    /\ phase' = "signals"
    /\ UNCHANGED <<cfg, sizer>>

\* equity: a symbol without a quote is valued at its entry.
MarketValue(k) ==
    IF k \in DOMAIN quotes THEN core.positions[k].qty * quotes[k]
                           ELSE core.positions[k].cost

\* The portfolio as the sizer sees it.
Book ==
    LET money == MultiCapital + pnl + core.cash
    IN  [cash |-> money, positions |-> core.positions, stats |-> stats,
         equity |-> money + MapThenSumSet(MarketValue, DOMAIN core.positions)]

MultiSignals ==
    [sym : DOMAIN Feeds, dir : {"exit"}, strength : {Scale}, atr : {0}, lv : {NoLevels}]
      \cup [sym : DOMAIN Feeds, dir : {"long", "short"}, strength : sizer.strengths,
            atr : sizer.atrs, lv : sizer.levels]

\* Event::Signal and the Event::Order it sends.
MultiSignal(sig) ==
    LET long == sig.dir = "long"
        price == IF sig.sym \in DOMAIN quotes THEN quotes[sig.sym] ELSE 0
        size == SizerSize(sizer, Book, sig, price)
    IN  IF sig.dir = "exit"
        THEN [core EXCEPT !.pending =
                 @ \o ClosingOrders(core, {sig.sym} \cap DOMAIN core.positions)]
        ELSE IF \/ cfg.single /\ SameSide(core.positions, sig.sym, long)
                \/ ~SizerValidate(sizer, Book, sig.sym, long)
                \/ size <= 0
             THEN core
        ELSE [core EXCEPT
                !.levels = IF sig.lv = NoLevels THEN @ ELSE With(@, sig.sym, sig.lv),
                !.pending = Append(@, Order(sig.sym, IF long THEN "buy" ELSE "sell",
                                            size, sig.lv))]

\* The strategy's answer; a patient one waits until nothing is pending.
MultiDispatch(sigs) ==
    /\ phase = "signals"
    /\ sizer.patient => sigs = {} \/ core.pending = <<>>
    /\ core' = IF sigs = {} THEN core ELSE MultiSignal(CHOOSE s \in sigs : TRUE)
    /\ phase' = "bar"
    /\ bar' = NoBar
    /\ exits' = {}
    /\ UNCHANGED <<cfg, heap, feeds, at, quotes, sizer, pnl, stats>>

\* Every position with a last bar is closed at that bar's close.
Force_close_all(st) ==
    FoldSet(LAMBDA k, acc : MultiClose(acc, k, quotes[k]), st,
            DOMAIN quotes \cap DOMAIN core.positions)

MultiEnd ==
    /\ phase = "bar"
    /\ heap = {}
    /\ LET done == Force_close_all([core |-> core, pnl |-> pnl, stats |-> stats])
       IN  /\ core' = Settled([done.core EXCEPT !.trackers =
                         [k \in DOMAIN @ \ DOMAIN core.positions |-> @[k]]])
           /\ pnl' = done.pnl
           /\ stats' = done.stats
    /\ phase' = "ended"
    /\ UNCHANGED <<cfg, bar, exits, heap, feeds, at, quotes, sizer>>

MultiNext ==
    \/ \E e \in heap, b \in MultiBars : MultiTick(e, b)
    \/ \E sigs \in {{}} \cup {{s} : s \in MultiSignals} : MultiDispatch(sigs)
    \/ MultiEnd

MultiSpec == MultiInit /\ [][MultiNext]_multiVars

-----------------------------------------------------------------------------
(* Properties                                                              *)

\* The merge is by time and loses nothing: a bar not dispatched yet, in the
\* heap or in a feed, is not older than the one being dispatched.
MergeInOrder ==
    /\ \A e \in heap : e.ts >= at.ts
    /\ \A s \in DOMAIN feeds : feeds[s] # <<>> =>
          /\ Head(feeds[s]) >= at.ts
          /\ \E e \in heap : e.sym = s

\* What the crate's documentation says of the pop, "always smallest
\* (timestamp, symbol) pair": equal timestamps go by name.
TiesByName ==
    [][at' # at /\ at'.ts = at.ts => at'.sym > at.sym]_multiVars

\* A run ends flat: a position can only have been opened by a bar of its
\* symbol, so the closing loop never skips one.
FlatAtEnd == phase = "ended" => DOMAIN core.positions = {}

\* max_positions holds when the strategy waits for its orders to be filled.
\* (Orders in flight are not counted, so an impatient one exceeds it.)
SlotsHold == sizer.patient => Cardinality(DOMAIN core.positions) <= sizer.max_positions

\* Under Kelly a flat account whose trades lost more than they won never
\* trades again: its stake stays at zero because only trades would change it.
KellyNeverResumes ==
    [][/\ sizer.kind = "kelly" /\ stats.losses > 0 /\ stats.loss >= stats.gain
       /\ DOMAIN core.positions = {} /\ core.pending = <<>>
       => core'.pending = <<>> /\ DOMAIN core'.positions = {}]_multiVars

\* What a step of either engine may not do: turn a leg round where a policy
\* forbids it, give a leg another signal's levels, or resume after Kelly's stop.
EngineSteps == NoTurnAround /\ LevelsFollowEntry /\ KellyNeverResumes
=============================================================================
