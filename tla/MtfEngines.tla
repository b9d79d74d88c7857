----------------------------- MODULE MtfEngines ------------------------------
(*************************************************************************)
(* The multi-timeframe backtest: the script strategy, the feeds both engines *)
(* share, the pointer-synchronised engine and the heap engine.           *)
(*************************************************************************)
EXTENDS Naturals, Sequences, FiniteSets, SequencesExt

(***************************************************************************)
(* The v2 script strategy as the multi-timeframe engines drive it: one      *)
(* FeedVarBinding per timeframe, each with its indicator, its confirmed     *)
(* history and, for a higher timeframe, the bucket that is still forming.   *)
(*                                                                         *)
(* Of an indicator only the bars it was fed are kept; a value is pushed to  *)
(* the history from its WarmBars-th bar on.  A forming bar is its bucket    *)
(* and its open, high, low, close and number of base bars; the volume is a  *)
(* sum like the number.  Candle transforms, series collection and what the  *)
(* script itself computes are left out.                                    *)
(***************************************************************************)

CONSTANTS
    Base,       \* the base timeframe
    WarmBars,   \* bars before the indicators yield
    Depth       \* buf_depth, also of the bar buffer

\* The price of a base bar: any fixed path will do, this one turns often.
Price(ts) == (ts * 3) % 5

Larger(a, b) == IF a > b THEN a ELSE b

Smaller(a, b) == IF a < b THEN a ELSE b

Floor(ts, tf) == (ts \div tf) * tf

NoBucket == [bucket |-> {}, o |-> 0, h |-> 0, l |-> 0, c |-> 0, n |-> 0]

-----------------------------------------------------------------------------
(* LiveBucketAggregator                                                    *)

\* accumulate: a base bar of another bucket starts afresh.
Accumulate(agg, ts, tf) ==
    IF agg.bucket # {Floor(ts, tf)}
    THEN [bucket |-> {Floor(ts, tf)}, o |-> Price(ts), h |-> Price(ts),
          l |-> Price(ts), c |-> Price(ts), n |-> 1]
    ELSE [agg EXCEPT !.h = Larger(@, Price(ts)), !.l = Smaller(@, Price(ts)),
                     !.c = Price(ts), !.n = @ + 1]

-----------------------------------------------------------------------------
(* FeedVarBinding                                                          *)

BindingNew(tf) == [tf |-> tf, fed |-> <<>>, len |-> 0, last |-> {}, agg |-> NoBucket]

\* feed_confirmed: the indicator advances, and the forming bucket is dropped.
Feed_confirmed(b, ts) ==
    [b EXCEPT !.fed = Append(@, ts),
              !.last = {ts},
              !.len = IF Len(b.fed) + 1 >= WarmBars THEN Smaller(@ + 1, Depth) ELSE @,
              !.agg = NoBucket]

\* tick_live: fold a base bar in, unless its bucket is confirmed already.  The
\* projection reads a clone of the indicator, so nothing else changes.
Tick_live(b, ts) ==
    IF \E last \in b.last : Floor(ts, b.tf) <= last THEN b
    ELSE [b EXCEPT !.agg = Accumulate(@, ts, b.tf)]

Is_warm(b) == b.len >= Depth

-----------------------------------------------------------------------------
(* MtfScriptStrategy                                                       *)

StrategyNew(tfs) == [bindings |-> [tf \in tfs |-> BindingNew(tf)], buf |-> 0,
                     ran |-> FALSE]

\* on_bars on the bars that closed at this tick, largest timeframe first: the
\* higher timeframes are fed, and only a base bar lets the strategy go on to
\* feed the base, update the forming buckets and, once everything is warm,
\* run the script.
On_bars(s, events) ==
    LET fedHtf == FoldLeft(
            LAMBDA bs, e : IF e.tf = Base THEN bs
                           ELSE [bs EXCEPT ![e.tf] = Feed_confirmed(@, e.ts)],
            s.bindings, events)
        base == SelectSeq(events, LAMBDA e : e.tf = Base)
        ts == base[1].ts
        fedAll == [tf \in DOMAIN fedHtf |->
                      IF tf = Base THEN Feed_confirmed(fedHtf[tf], ts)
                                   ELSE Tick_live(fedHtf[tf], ts)]
        buf == Smaller(s.buf + 1, Depth)
    IN  IF base = <<>> THEN [s EXCEPT !.bindings = fedHtf, !.ran = FALSE]
        ELSE [bindings |-> fedAll, buf |-> buf,
              ran |-> buf = Depth /\ \A tf \in DOMAIN fedAll : Is_warm(fedAll[tf])]

-----------------------------------------------------------------------------
(* Properties of a strategy's state                                        *)

\* The base bars of a bucket among those fed so far.
BarsOfBucket(s, bucket, tf) ==
    SelectSeq(s.bindings[Base].fed, LAMBDA ts : Floor(ts, tf) = bucket)

\* A forming bar is the exact aggregate of the base bars of its bucket.
FormingExact(s) ==
    \A tf \in DOMAIN s.bindings \ {Base} :
        LET agg == s.bindings[tf].agg
        IN  \A bucket \in agg.bucket :
                LET bars == BarsOfBucket(s, bucket, tf)
                    prices == {Price(bars[i]) : i \in DOMAIN bars}
                IN  /\ agg.n = Len(bars) /\ agg.n <= tf \div Base
                    /\ agg.o = Price(bars[1]) /\ agg.c = Price(Last(bars))
                    /\ agg.h \in prices /\ \A p \in prices : agg.h >= p
                    /\ agg.l \in prices /\ \A p \in prices : agg.l <= p

\* What clone-and-project promises, "no double-counting": the bucket a live
\* value is projected from is newer than every bar the indicator was fed.
NoDoubleCount(s) ==
    \A tf \in DOMAIN s.bindings \ {Base} :
        \A bucket \in s.bindings[tf].agg.bucket :
            \A i \in DOMAIN s.bindings[tf].fed : s.bindings[tf].fed[i] < bucket

-----------------------------------------------------------------------------
(***************************************************************************)
(* What HeapMtfEngine and PointerSyncMtfEngine have in common: one feed per *)
(* timeframe, a window of confirmed bars for each, the strategy, and an     *)
(* EngineCore that at every base bar fills what is pending and runs the     *)
(* exits.  BacktestEngine models what the core does; here only the moment   *)
(* the pending order's signal was given is kept.  Feeds are in time order.  *)
(***************************************************************************)

CONSTANTS
    TFs,        \* the timeframes, as durations
    Feeds,      \* what the feeds may hold: functions from TFs to sets of bars
    WindowSize, \* bars a window retains
    Warmups     \* values of warmup_until: {} for none, or {ts}

ASSUME MtfAssumption ==
    /\ TFs \subseteq Nat \ {0}
    /\ Base \in TFs
    /\ Feeds \subseteq [TFs -> SUBSET Nat]
    /\ WindowSize \in Nat

\* Bars of every timeframe open, and so close, where a base bar opens.
ASSUME OnGrid ==
    \A tf \in TFs : tf % Base = 0 /\ \A f \in Feeds : \A ts \in f[tf] : ts % Base = 0

VARIABLES
    feeds,      \* what the feeds hold
    warmup,     \* warmup_until
    left,       \* per timeframe, the bars not consumed yet
    windows,    \* per timeframe, the confirmed bars
    now,        \* close_ts of the last tick
    strategy,
    signalled,  \* when the signal of the pending order was given: {} or {time}
    base        \* the base bar of the last tick: {} or {ts}

mtfVars == <<feeds, warmup, left, windows, now, strategy, signalled, base>>

\* The last WindowSize bars of a set.
Newest(bars) == {ts \in bars : Cardinality({u \in bars : u > ts}) < WindowSize}

\* push_bounded of new bars.
Pushed(window, bars) == Newest(window \cup bars)

AsOf == INSTANCE AsOfView WITH Retain <- Newest, clock <- now, view <- windows

\* An engine as it is built.
Fresh ==
    /\ windows = [tf \in TFs |-> {}]
    /\ now = 0
    /\ strategy = StrategyNew(TFs)
    /\ signalled = {}
    /\ base = {}

MtfInit ==
    /\ feeds \in Feeds
    /\ warmup \in Warmups
    /\ Fresh

\* A set of bars, one per timeframe, as events: largest timeframe first.
EventsOf(batch) == SetToSortSeq(batch, LAMBDA a, b : a.tf > b.tf)

\* A base bar before warmup_until is not traded; a tick without a base bar is
\* traded only when there is no warm-up.
Is_trading(baseBars) ==
    \A until \in warmup : baseBars # {} /\ \A ts \in baseBars : ts >= until

\* What follows the merge: the core's base tick fills the pending order, then
\* the strategy answers (sig: whether with a signal) and the answer is
\* dispatched if the tick is traded.
Deliver(batch, close, sig) ==
    LET baseBars == {e.ts : e \in {e \in batch : e.tf = Base}}
        unfilled == IF Is_trading(baseBars) /\ baseBars # {} THEN {} ELSE signalled
    IN  /\ strategy' = On_bars(strategy, EventsOf(batch))
        /\ signalled' = IF Is_trading(baseBars) /\ sig THEN {close} ELSE unfilled
        /\ base' = baseBars
        /\ now' = close

-----------------------------------------------------------------------------
(* Properties                                                              *)

\* Either engine implements the as-of view: the windows at every tick are the
\* newest bars closed by then, with no look-ahead and nothing left behind.
ImplementsAsOf == AsOf!Spec

-----------------------------------------------------------------------------
(***************************************************************************)
(* PointerSyncMtfEngine::run.  The base feed drives; each higher timeframe  *)
(* is advanced past every bar that has closed by the base bar's close, and  *)
(* the last of those is the timeframe's event.  A peeked bar counts as not  *)
(* consumed.                                                               *)
(***************************************************************************)

PointerInit == MtfInit /\ left = feeds

\* Mutant: a higher timeframe is advanced as soon as its bar has opened.
DueAtOpen(tf, close) == {ts \in left[tf] : ts <= close}

\* The bars a tick at the given time pulls from a feed.
Due(tf, close) == {ts \in left[tf] : ts + tf <= close}

\* One turn of the run loop.
PointerTick(sig) ==
    \E b \in left[Base] :
        /\ \A c \in left[Base] : b <= c
        /\ LET close == b + Base
               pulled(tf) == IF tf = Base THEN {b} ELSE Due(tf, close)
               last(tf) == {ts \in pulled(tf) : \A u \in pulled(tf) : u <= ts}
               batch == UNION {{[tf |-> tf, ts |-> ts] : ts \in last(tf)} : tf \in TFs}
           IN  /\ left' = [tf \in TFs |-> left[tf] \ pulled(tf)]
               /\ windows' = [tf \in TFs |-> Pushed(windows[tf], pulled(tf))]
               /\ Deliver(batch, close, sig)
        /\ UNCHANGED <<feeds, warmup>>

PointerNext == \E sig \in BOOLEAN : PointerTick(sig)

PointerSpec == PointerInit /\ [][PointerNext]_mtfVars

-----------------------------------------------------------------------------
(* Properties                                                              *)

\* Where a base bar closes with every bar of a higher timeframe, the strategy
\* is fed the same bars as under the heap engine.  (Where base bars are
\* missing only the last of the bars closed meanwhile is an event, and the
\* indicators skip the others.)
PointerDelivers ==
    \A tf \in TFs :
        (\A ts \in AsOf!ClosedBy(feeds[tf], tf, now) : ts + tf - Base \in feeds[Base]) =>
            strategy.bindings[tf].fed =
                SetToSortSeq(AsOf!ClosedBy(feeds[tf], tf, now), <)

-----------------------------------------------------------------------------
(***************************************************************************)
(* HeapMtfEngine::run.  The heap holds at most one bar of each feed; a tick *)
(* takes all that close first, refills from their feeds and hands them on.  *)
(***************************************************************************)

VARIABLE heap   \* the entries of the heap

heapVars == <<mtfVars, heap>>

Entry(tf, ts) == [tf |-> tf, ts |-> ts]

\* close_ts of a heap entry.
CloseTs(e) == e.ts + e.tf

\* What refill pulls from a feed that still has the given bars.
Refill(tf, bars) == {Entry(tf, ts) : ts \in {ts \in bars : \A u \in bars : ts <= u}}

HeapInit ==
    /\ MtfInit
    /\ heap = UNION {Refill(tf, feeds[tf]) : tf \in TFs}
    /\ left = [tf \in TFs |-> {ts \in feeds[tf] : Entry(tf, ts) \notin heap}]

\* Mutant: only the first timeframe of a batch is refilled.
HeapTickRefillsOne(sig) ==
    \E top \in heap :
        /\ \A e \in heap : CloseTs(top) <= CloseTs(e)
        /\ LET batch == {e \in heap : CloseTs(e) = CloseTs(top)}
               refilled == Refill(top.tf, left[top.tf])
               bars(tf) == {e.ts : e \in {e \in batch : e.tf = tf}}
           IN  /\ heap' = (heap \ batch) \cup refilled
               /\ left' = [tf \in TFs |-> {ts \in left[tf] : Entry(tf, ts) \notin refilled}]
               /\ windows' = [tf \in TFs |-> Pushed(windows[tf], bars(tf))]
               /\ Deliver(batch, CloseTs(top), sig)
        /\ UNCHANGED <<feeds, warmup>>

\* Mutant: bars come in the order they open.
HeapTickByOpen(sig) ==
    \E top \in heap :
        /\ \A e \in heap : top.ts < e.ts \/ (top.ts = e.ts /\ CloseTs(top) >= CloseTs(e))
        /\ LET batch == {e \in heap : e.ts = top.ts}
               refilled == UNION {Refill(e.tf, left[e.tf]) : e \in batch}
               bars(tf) == {e.ts : e \in {e \in batch : e.tf = tf}}
           IN  /\ heap' = (heap \ batch) \cup refilled
               /\ left' = [tf \in TFs |-> {ts \in left[tf] : Entry(tf, ts) \notin refilled}]
               /\ windows' = [tf \in TFs |-> Pushed(windows[tf], bars(tf))]
               /\ Deliver(batch, CloseTs(top), sig)
        /\ UNCHANGED <<feeds, warmup>>

\* One turn of the run loop: every bar that closes first, together.
HeapTick(sig) ==
    \E top \in heap :
        /\ \A e \in heap : CloseTs(top) <= CloseTs(e)
        /\ LET batch == {e \in heap : CloseTs(e) = CloseTs(top)}
               refilled == UNION {Refill(e.tf, left[e.tf]) : e \in batch}
               bars(tf) == {e.ts : e \in {e \in batch : e.tf = tf}}
           IN  /\ heap' = (heap \ batch) \cup refilled
               /\ left' = [tf \in TFs |-> {ts \in left[tf] : Entry(tf, ts) \notin refilled}]
               /\ windows' = [tf \in TFs |-> Pushed(windows[tf], bars(tf))]
               /\ Deliver(batch, CloseTs(top), sig)
        /\ UNCHANGED <<feeds, warmup>>

HeapNext == \E sig \in BOOLEAN : HeapTick(sig)

HeapSpec == HeapInit /\ [][HeapNext]_heapVars

-----------------------------------------------------------------------------
(* Properties                                                              *)

\* Every bar of every feed reaches the strategy as an event, once and in time
\* order: an indicator on any timeframe has been fed exactly the bars of its
\* feed that have closed.
HeapDelivers ==
    \A tf \in TFs :
        strategy.bindings[tf].fed =
            SetToSortSeq(AsOf!ClosedBy(feeds[tf], tf, now), <)

\* A signal is filled at a base bar that opens no earlier than the moment the
\* signal was given.
NoPastFill ==
    [][\A t \in signalled : t \notin signalled' => \A ts \in base' : ts >= t]_heapVars
=============================================================================
