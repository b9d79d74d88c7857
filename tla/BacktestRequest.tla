-------------------------- MODULE BacktestRequest ---------------------------
(***************************************************************************)
(* A backtest request (backtest::run, run_mtf, run_mtf_script): how much     *)
(* history each feed is loaded with before `from`, from which files, and    *)
(* the engine's run over it.  A script is its indicator declarations, each   *)
(* with the timeframe it names, 0 for none; a named strategy is its numeric  *)
(* parameters.  Time is in base bars.  The files of a store hold every bar   *)
(* once: a bar in two files would be fed twice.                              *)
(* The single-timeframe run is the pointer engine's with the base feed      *)
(* alone.                                                                  *)
(***************************************************************************)
EXTENDS MtfEngines, FiniteSetsExt

CONSTANTS
    Requests,       \* [kind, decls, htfs, from, to, overrides]
    Stores,         \* timeframe |-> files [start, end, bars]
    DayLen,         \* 86_400_000 ms
    MAX_WARMUP_BARS,
    MTF_NAMED_WARMUP,
    MAX_BARS

ASSUME RequestAssumption ==
    DayLen \in Nat \ {0} /\ MAX_WARMUP_BARS \in Nat /\ MTF_NAMED_WARMUP \in Nat /\ MAX_BARS \in Nat

VARIABLES
    request, store,
    traded          \* base bars traded so far

requestVars == <<request, store, traded>>

-----------------------------------------------------------------------------
(* Warm-up                                                                 *)

From(r) == {d * DayLen : d \in r.from}
To(r) == {d * DayLen + DayLen - 1 : d \in r.to}      \* to the end of the day

\* period * warmup_factor, rounded up: 2.5 for the exponential family; an
\* argument below 1.5 is not taken for a period.
Warmed(d) == IF d.period < 2 THEN 0
             ELSE IF d.ema THEN (5 * d.period + 1) \div 2 ELSE d.period

Most(decls) == Smaller(Max({0} \cup {Warmed(d) : d \in decls}), MAX_WARMUP_BARS)

\* compute_warmup_bars: every parameter of a named strategy counts as a period
\* of the exponential family.
Compute_warmup_bars(r) ==
    IF r.kind = "script" THEN Most(r.decls)
    ELSE Most({[d EXCEPT !.ema = TRUE] : d \in r.decls})

\* A declaration that names no timeframe warms on the base feed.
Script_warmup_per_tf(r, tf) == Most({d \in r.decls : d.tf = tf \/ (d.tf = 0 /\ tf = Base)})

\* probe_script_htfs: every timeframe that is named, the base too if it is.
Htfs(r) == IF r.kind = "script" THEN {d.tf : d \in r.decls} \ {0} ELSE r.htfs

\* run sends a script that names a timeframe to run_mtf_script.
Route(r) == IF r.kind = "mtf" THEN "run_mtf"
         ELSE IF r.kind = "script" /\ Htfs(r) # {} THEN "run_mtf_script" ELSE "run"

WarmupOf(r, tf) ==
    CASE Route(r) = "run" -> Compute_warmup_bars(r)
      [] Route(r) = "run_mtf" -> MTF_NAMED_WARMUP
      [] Route(r) = "run_mtf_script" -> Script_warmup_per_tf(r, tf)

Warm_from(r, tf) == {f - WarmupOf(r, tf) * tf : f \in From(r)}

Earliest_load_from(r) ==
    LET froms == UNION {Warm_from(r, tf) : tf \in Htfs(r) \cup {Base}}
    IN  IF froms = {} THEN {} ELSE {Min(froms)}

\* Where base_bars start: as far back as the deepest of the warm-ups.
Base_load_from(r) == IF Route(r) = "run" THEN Warm_from(r, Base) ELSE Earliest_load_from(r)

\* Where a feed starts.  A timeframe that is named is added from its own warm-up
\* on, and the base, if it is named, in place of the feed of base_bars.
LoadFrom(r, tf) == IF tf \in Htfs(r) THEN Warm_from(r, tf) ELSE Base_load_from(r)

-----------------------------------------------------------------------------
(* Loading                                                                 *)

\* Mutant: without the day of padding.
PrunedTight(files, from, to) ==
    {f \in files : (\A t \in from : f.end >= t) /\ (\A t \in to : f.start <= t)}

\* load_bars: the files whose name is out of the range are not opened, with a
\* day of padding on either side.
Pruned(files, from, to) ==
    {f \in files : (\A t \in from : f.end >= t - DayLen) /\ (\A t \in to : f.start <= t + DayLen)}

InRange(from, to, ts) == (\A t \in from : ts >= t) /\ (\A t \in to : ts <= t)

\* load_bars_for_tf: history handed in with the request is taken as it is.
Load_bars_for_tf(r, st, tf, from) ==
    IF tf \in r.overrides THEN UNION {f.bars : f \in st[tf]}
    ELSE UNION {{ts \in f.bars : InRange(from, To(r), ts)} : f \in Pruned(st[tf], from, To(r))}

Base_bars(r, st) == Load_bars_for_tf(r, st, Base, Base_load_from(r))
FeedOf(r, st, tf) == Load_bars_for_tf(r, st, tf, LoadFrom(r, tf))

\* The requests that end in an error: a feed without bars, too many bars (not
\* for a named multi-timeframe strategy), no higher timeframe for one.
Bails(r, st) ==
    \/ Base_bars(r, st) = {}
    \/ \E tf \in Htfs(r) : FeedOf(r, st, tf) = {}
    \/ Route(r) = "run_mtf" /\ Htfs(r) = {}
    \/ Route(r) # "run_mtf" /\ Cardinality(Base_bars(r, st)) > MAX_BARS

\* with_warmup_until: 0 is none.
Warmup_until(r) == {f \in From(r) : f > 0}

LoadedFeeds(r, st) ==
    LET loaded == IF Bails(r, st) THEN {} ELSE Htfs(r) \cup {Base}
    IN  [tf \in TFs |-> IF tf \in loaded THEN FeedOf(r, st, tf) ELSE {}]

RequestInit ==
    /\ request \in Requests /\ store \in Stores
    /\ feeds = LoadedFeeds(request, store)
    /\ left = feeds
    /\ warmup = Warmup_until(request)
    /\ Fresh
    /\ traded = 0

RequestNext ==
    /\ PointerNext
    /\ traded' = traded + IF Is_trading(base') THEN 1 ELSE 0
    /\ UNCHANGED <<request, store>>

\* bar_count of the response, if there is one: of base_bars.
Bar_count ==
    IF Bails(request, store) THEN 0
    ELSE Cardinality({ts \in Base_bars(request, store) : \A f \in From(request) : ts >= f})

-----------------------------------------------------------------------------
(* Properties                                                              *)

Stored(tf) == UNION {f.bars : f \in store[tf]}

\* Every bar of a higher timeframe that is fed closes with a base bar of the store.
Paced == \A tf \in Htfs(request) : \A ts \in feeds[tf] : ts + tf - Base \in Stored(Base)

\* The claim of run_mtf_script that the base feed "must reach back at least as
\* far as the deepest HTF warm-up": a request trades with indicators that have
\* seen the warm-up the loader computed for their timeframe, as far as the store
\* goes back and has no gaps.  Refuted for a request that names its base
\* timeframe: its base feed is the one from the base's own warm-up on, and the
\* first tick swallows the history of the higher timeframes.  (Besides, on_bars
\* feeds an indicator that names the base timeframe from no feed; the bindings
\* of the model are the others.)
ConvergedWhateverNamed ==
    (base # {} /\ Is_trading(base) /\ request.overrides = {} /\ Paced) =>
        \A tf \in Htfs(request) : \A f \in From(request) :
            LET history == {ts \in Stored(tf) : ts + tf <= now /\ ts >= f - WarmupOf(request, tf) * tf}
            IN  history \subseteq ToSet(strategy.bindings[tf].fed)

\* Whatever its route, a request that does not name its base timeframe trades
\* with its indicators warmed: the base feed reaches back far enough to pace the
\* higher timeframes through their history.
ConvergedAtFrom == Base \notin Htfs(request) => ConvergedWhateverNamed

\* The bar count of the response is the number of bars traded.
ReportsTraded == left[Base] = {} => traded = Bar_count

\* No bar in the requested range is lost to the choice of files, although a
\* file's bars may be off its name by up to a day.
PruningLossless ==
    \A tf \in TFs : (feeds[tf] # {} /\ tf \notin request.overrides) =>
        feeds[tf] = {ts \in Stored(tf) : InRange(LoadFrom(request, tf), To(request), ts)}

\* The claim of load_bars_warmed that it loads as many extra bars as the
\* warm-up asks for, where the store has them.
WarmupInBars ==
    \A f \in From(request) : ~Bails(request, store) /\ request.overrides = {} =>
        LET before == {ts \in Stored(Base) : ts < f}
        IN  Cardinality({ts \in feeds[Base] : ts < f}) >= Smaller(WarmupOf(request, Base), Cardinality(before))
=============================================================================
