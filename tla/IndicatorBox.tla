---------------------------- MODULE IndicatorBox -----------------------------
(*************************************************************************)
(* The indicators, from how each warms up to the box they are used through. *)
(*************************************************************************)
EXTENDS Naturals, Sequences, FiniteSets, SequencesExt

(***************************************************************************)
(* The warm-up of every indicator of alm-indicator: which of its smoothers *)
(* and windows is fed on which bar, and on which bar update() returns its  *)
(* first value.  The values themselves are left out (IndicatorValues has   *)
(* the ones that matter); what is kept of the data is whether a guard on   *)
(* it (a zero range, a zero divisor) lets the bar through.                 *)
(*                                                                         *)
(* A smoother, window or remembered value is a counter with a period: it   *)
(* yields from its period-th input on.  A lane is a tuple of periods, each *)
(* fed by the one before it; a stage is a tuple of lanes fed side by side, *)
(* and an indicator a tuple of stages, each fed when all lanes of the one  *)
(* before it yield.                                                        *)
(***************************************************************************)

Later(a, b) == IF a > b THEN a ELSE b

\* A value remembered from the previous bar is there from the second bar on.
Prev == 2

Stage(lanes) == [lanes |-> lanes, guarded |-> FALSE]
\* A stage whose result is dropped when a guard on the data does not hold.
Guarded(lanes) == [lanes |-> lanes, guarded |-> TRUE]

\* stages; first: the bar of the first value; doc: the bar the indicator's
\* documentation gives; is_ready: the <<stage, lane, place>> of the counters
\* that is_ready() looks at.
Indicator(stages, first, doc, is_ready) ==
    [stages |-> stages, first |-> first, doc |-> doc, is_ready |-> is_ready]
\* Most document the bar they start at.
Warms(stages, first, is_ready) == Indicator(stages, first, first, is_ready)

-----------------------------------------------------------------------------
\* signal/trend
Ema(p) == Warms(<<Stage(<< <<p>> >>)>>, p, {<<1, 1, 1>>})
Sma(p) == Warms(<<Stage(<< <<p>> >>)>>, p, {<<1, 1, 1>>})
Smma(p) == Warms(<<Stage(<< <<p>> >>)>>, p, {<<1, 1, 1>>})
Wma(p) == Warms(<<Stage(<< <<p>> >>)>>, p, {<<1, 1, 1>>})
Dema(p) == Warms(<<Stage(<< <<p, p>> >>)>>, 2 * (p - 1) + 1, {})
Tema(p) == Warms(<<Stage(<< <<p, p, p>> >>)>>, 3 * (p - 1) + 1, {})
\* is_ready() is that of the slow average, not of the smoothing after it.
\* The smoothing is over the rounded square root of the period.
Root(p) == CHOOSE r \in 1..p : (2 * r - 1) * (2 * r - 1) <= 4 * p /\ 4 * p < (2 * r + 1) * (2 * r + 1)
Hma(p) ==
    Indicator(<<Stage(<< <<p \div 2>>, <<p>> >>), Stage(<< <<Root(p)>> >>)>>,
              p + Root(p) - 1, p + Root(p), {<<1, 2, 1>>})
Alma(p) == Warms(<<Stage(<< <<p>> >>)>>, p, {<<1, 1, 1>>})
Lsma(p) == Warms(<<Stage(<< <<p>> >>)>>, p, {<<1, 1, 1>>})
Kama(er) == Warms(<<Stage(<< <<er + 1>> >>)>>, er + 1, {<<1, 1, 1>>})
McGinleyDynamic(p) == Warms(<<Stage(<< <<p>> >>)>>, p, {<<1, 1, 1>>})
Vwma(p) == Warms(<<Stage(<< <<p>> >>)>>, p, {<<1, 1, 1>>})
KalmanFilter == Warms(<<Stage(<< <<1>> >>)>>, 1, {<<1, 1, 1>>})
\* Until the true range has moved, ADX itself is not fed.
Adx(p) ==
    Warms(<<Guarded(<< <<Prev, p>>, <<Prev, p>>, <<Prev, p>> >>), Stage(<< <<p>> >>)>>,
          2 * p, {<<2, 1, 1>>})
Dmi(p) == Warms(<<Guarded(<< <<Prev, p>>, <<Prev, p>>, <<Prev, p>> >>)>>, p + 1, {<<1, 1, 2>>})
Aroon(p) == Warms(<<Stage(<< <<p + 1>>, <<p + 1>> >>)>>, p + 1, {})
AroonOscillator(p) == Aroon(p)
Kdj(p, k, d) ==
    Warms(<<Stage(<< <<p>>, <<p>> >>), Stage(<< <<k, d>> >>)>>, p + k + d - 2, {})
Macd(fast, slow, signal) ==
    Warms(<<Stage(<< <<fast>>, <<slow>> >>), Stage(<< <<signal>> >>)>>, slow + signal - 1,
          {<<1, 1, 1>>, <<1, 2, 1>>, <<2, 1, 1>>})
Trix(p, signal) ==
    Indicator(<<Stage(<< <<p, p, p, Prev, signal>> >>)>>, 3 * (p - 1) + signal + 1,
              3 * (p - 1) + signal, {})
Vortex(p) == Warms(<<Guarded(<< <<Prev, p>> >>)>>, p + 1, {<<1, 1, 2>>})

\* signal/channel
BBands(p) == Warms(<<Stage(<< <<p>> >>)>>, p, {<<1, 1, 1>>})
Donchian(p) == Warms(<<Stage(<< <<p>>, <<p>> >>)>>, p, {})
Keltner(p, atr) == Warms(<<Stage(<< <<p>>, <<atr>> >>)>>, Later(p, atr), {})

\* signal/volume
Cmf(p) == Warms(<<Guarded(<< <<p>> >>)>>, p, {})
Obv == Warms(<<Stage(<< <<1>> >>)>>, 1, {})
Vwap == Warms(<<Stage(<< <<1>> >>)>>, 1, {})

\* signal/pattern
ElderRay(p) == Warms(<<Stage(<< <<p>> >>)>>, p, {})
\* Only the senkou_b period decides how many bars are kept: a longer tenkan
\* or kijun never finds its bars.
Never == 1000
Ichimoku(tenkan, kijun, senkou_b) ==
    LET kept(p) == IF p <= senkou_b THEN p ELSE Never
    IN  Indicator(<<Stage(<< <<kept(tenkan)>>, <<kept(kijun)>>, <<senkou_b>> >>)>>,
                  Later(kept(tenkan), Later(kept(kijun), senkou_b)), senkou_b, {})
Rwi(p) == Warms(<<Stage(<< <<p + 1>> >>)>>, p + 1, {})
StochasticRsi(rsi, k, d) ==
    Indicator(<<Stage(<< <<Prev, rsi, rsi, k, d>> >>)>>, 2 * rsi + k + d - 2, 2 * rsi + k + d,
              {<<1, 1, 5>>})
WilliamsFractal == Warms(<<Stage(<< <<5>> >>)>>, 5, {<<1, 1, 1>>})
-----------------------------------------------------------------------------
\* signal/momentum
AwesomeOscillator(fast, slow) == Warms(<<Stage(<< <<fast>>, <<slow>> >>)>>, Later(fast, slow), {})
Bop == Warms(<<Guarded(<< <<1>> >>)>>, 1, {})
BullBearPower(p) == Warms(<<Stage(<< <<p>> >>)>>, p, {<<1, 1, 1>>})
Cci(p) == Warms(<<Stage(<< <<p>> >>)>>, p, {<<1, 1, 1>>})
Cmo(p) == Warms(<<Stage(<< <<Prev, p>> >>)>>, p + 1, {<<1, 1, 2>>})
\* RSI of the close, RSI of the streak, and the rank among rank + 1 changes.
ConnorsRsi(rsi, streak, rank) ==
    Indicator(<<Stage(<< <<Prev, rsi>>, <<Prev, Prev, streak>>, <<Prev, rank + 1>> >>)>>,
              Later(rsi + 1, Later(streak, rank) + 2), Later(rsi, streak) + rank + 1,
              {<<1, 1, 2>>, <<1, 2, 3>>, <<1, 3, 2>>})
Coppock(short, long, wma) ==
    Warms(<<Stage(<< <<short + 1>>, <<long + 1>> >>), Stage(<< <<wma>> >>)>>, long + wma,
          {<<2, 1, 1>>, <<1, 2, 1>>})
Dpo(p) == Warms(<<Stage(<< <<p + p \div 2 + 1>> >>)>>, p + p \div 2 + 1, {<<1, 1, 1>>})
Fisher(p) == Warms(<<Stage(<< <<p>> >>)>>, p, {<<1, 1, 1>>})
Kst(roc, sma, signal) ==
    Warms(<<Stage([i \in 1..4 |-> <<roc[i] + 1, sma[i]>>]), Stage(<< <<signal>> >>)>>,
          Later(Later(roc[1] + sma[1], roc[2] + sma[2]), Later(roc[3] + sma[3], roc[4] + sma[4])) + signal - 1,
          {<<2, 1, 1>>})
\* The first bar counts as a neutral flow: no previous price is needed.
Mfi(p) == Indicator(<<Stage(<< <<p>> >>)>>, p, p + 1, {})
Mom(p) == Warms(<<Stage(<< <<p + 1>> >>)>>, p + 1, {<<1, 1, 1>>})
Pmo(s1, s2, signal) ==
    Warms(<<Guarded(<< <<Prev>> >>), Stage(<< <<s1, s2, signal>> >>)>>, s1 + s2 + signal - 1,
          {<<2, 1, 3>>})
Ppo(fast, slow, signal) ==
    Warms(<<Guarded(<< <<fast>>, <<slow>> >>), Stage(<< <<signal>> >>)>>, slow + signal - 1,
          {<<2, 1, 1>>})
Rci(p) == Warms(<<Stage(<< <<p>> >>)>>, p, {<<1, 1, 1>>})
RciRibbon(short, medium, long) ==
    Warms(<<Stage(<< <<short>>, <<medium>>, <<long>> >>)>>, Later(short, Later(medium, long)), {})
Roc(p) == Warms(<<Stage(<< <<p + 1>> >>)>>, p + 1, {<<1, 1, 1>>})
Rsi(p) == Warms(<<Stage(<< <<Prev, p>> >>)>>, p + 1, {<<1, 1, 2>>})
\* Four bars for the weighting, p for the sums, four values for the signal.
Rvi(p) == Indicator(<<Guarded(<< <<4, p>> >>), Stage(<< <<4>> >>)>>, p + 6, p + 3, {<<2, 1, 1>>, <<1, 1, 2>>})
Smi(p, s1, s2, signal) ==
    Warms(<<Stage(<< <<p>> >>), Guarded(<< <<s1, s2>>, <<s1, s2>> >>), Stage(<< <<signal>> >>)>>,
          p + s1 + s2 + signal - 3, {<<3, 1, 1>>})
Stochastic(k, smooth, d) ==
    Warms(<<Stage(<< <<k>>, <<k>> >>), Stage(<< <<smooth, d>> >>)>>, k + smooth + d - 2,
          {<<2, 1, 2>>})
Tsi(first, second) ==
    Indicator(<<Stage(<< <<Prev, first>>, <<Prev, first>> >>), Stage(<< <<second>>, <<second>> >>)>>,
              first + second, first + second + 1, {<<2, 1, 1>>, <<2, 2, 1>>})
Uo(slow) == Warms(<<Stage(<< <<slow>> >>)>>, slow, {<<1, 1, 1>>})
WilliamsR(p) == Warms(<<Stage(<< <<p>>, <<p>> >>)>>, p, {<<1, 1, 1>>})

\* regime
Chop(p) == Warms(<<Stage(<< <<p + 1>> >>)>>, p + 1, {<<1, 1, 1>>})
\* is_ready() asks for the average and for a previous one, which the bar
\* of the first average stores.
ChopZone(p) ==
    Warms(<<Stage(<< <<p>>, <<1>> >>), Stage(<< <<Prev>> >>)>>, p + 1, {<<1, 1, 1>>})
\* Warm as soon as ADX and CHOP are: the two ATR only refine the value.
RegimeDetector(p) ==
    Warms(<<Guarded(<< <<Prev, p>>, <<Prev, p>>, <<Prev, p>> >>), Stage(<< <<p>> >>)>>, 2 * p, {})
VolatilityRatio(p) == Warms(<<Stage(<< <<p>> >>)>>, p, {})

\* risk
Atr(p) == Warms(<<Stage(<< <<p>> >>)>>, p, {<<1, 1, 1>>})
ChandeKrollStop(atr, stop) ==
    Warms(<<Stage(<< <<atr>>, <<atr>> >>), Stage(<< <<stop>> >>)>>, atr + stop - 1, {<<2, 1, 1>>})
ChandelierExit(p) == Warms(<<Stage(<< <<p>>, <<p>> >>)>>, p, {<<1, 1, 1>>, <<1, 2, 1>>})
ParabolicSar == Warms(<<Stage(<< <<Prev>> >>)>>, 2, {})
SuperTrend(p) == Warms(<<Stage(<< <<p>> >>)>>, p, {})

\* viewing: each line of the alligator is shifted by its own number of bars.
Alligator(jaw, teeth, lips) ==
    Warms(<<Stage(<< <<jaw, 8 + 1>>, <<teeth, 5 + 1>>, <<lips, 3 + 1>> >>)>>,
          Later(jaw + 8, Later(teeth + 5, lips + 3)), {})
ShortPeriods == <<3, 5, 8, 10, 12, 15>>
LongPeriods == <<30, 35, 40, 45, 50, 60>>
\* The documentation describes a cascade in which each EMA waits for the
\* one before it; the code feeds all twelve on every bar.
Gmma(short, long) ==
    LET all == short \o long
    IN  Indicator(<<Stage([i \in 1..12 |-> <<all[i]>>])>>,
                  CHOOSE p \in {all[i] : i \in 1..12} : \A i \in 1..12 : all[i] <= p,
                  302, {})
HeikenAshi(smooth) ==
    Warms(<<Stage(<< <<smooth>>, <<smooth>>, <<smooth>>, <<smooth>> >>)>>, smooth, {})

-----------------------------------------------------------------------------
(***************************************************************************)
(* IndicatorBox, the wrapper through which the ledger, scripts and charts  *)
(* use an indicator: from_config builds one from a type name and a few     *)
(* parameters, which may be anything while a user is editing them; update  *)
(* feeds it a bar and returns its fields or nothing; reset clears it.      *)
(***************************************************************************)

CONSTANTS
    Types,      \* the indicator types that are configured
    Edits,      \* the values a user may type for a period
    MaxLost,    \* how many bars a guard on the data may drop
    MaxResets   \* how often the indicator is reset

VARIABLES
    config,     \* [type, params, at]: params as given, at: the one a user edited, or 0
    ind,        \* the indicator: its stages, and its documented warm-up
    counts,     \* per stage, lane and place, the inputs so far (up to the period)
    bars,       \* bars since it was built or reset
    some,       \* the last update returned its fields
    refused,    \* a guard dropped the last bar
    lost,       \* bars that a guard kept from a later stage
    resets

vars == <<config, ind, counts, bars, some, refused, lost, resets>>

\* The periods of each type, with their defaults.
Defaults ==
    [sma |-> <<20>>, ema |-> <<20>>, wma |-> <<20>>, hma |-> <<20>>, dema |-> <<20>>,
     tema |-> <<20>>, smma |-> <<20>>, alma |-> <<9>>, mcginley |-> <<14>>, lsma |-> <<25>>,
     vwma |-> <<20>>, kama |-> <<10, 2, 30>>, macd |-> <<12, 26, 9>>, trix |-> <<18, 9>>,
     adx |-> <<14>>, dmi |-> <<14>>, aroon |-> <<25>>, aroon_osc |-> <<25>>, vortex |-> <<14>>,
     alligator |-> <<13, 8, 5>>, gmma |-> ShortPeriods \o LongPeriods, kdj |-> <<9, 3, 3>>,
     kalman |-> <<>>, rsi |-> <<14>>, cci |-> <<20>>, roc |-> <<10>>, mom |-> <<10>>,
     cmo |-> <<14>>, dpo |-> <<20>>, mfi |-> <<14>>, bop |-> <<>>, williams_r |-> <<14>>,
     stochastic |-> <<14, 1, 3>>, stoch_rsi |-> <<14, 3>>, tsi |-> <<25, 13>>, rci |-> <<9>>,
     bull_bear |-> <<13>>, fisher |-> <<9>>, kst |-> <<10, 13, 14, 15, 10, 13, 14, 15, 9>>,
     pmo |-> <<35, 20, 10>>, ppo |-> <<12, 26, 9>>, rvi |-> <<10>>, smi |-> <<13, 25, 2, 9>>,
     uo |-> <<7, 14, 28>>, connors_rsi |-> <<3, 2, 100>>, ao |-> <<5, 34>>,
     coppock |-> <<11, 14, 10>>, atr |-> <<14>>, bbands |-> <<20>>, keltner |-> <<20, 10>>,
     supertrend |-> <<10>>, donchian |-> <<20>>, chop |-> <<14>>, chop_zone |-> <<34>>,
     chandelier_exit |-> <<22>>, chande_kroll |-> <<10, 9>>, volatility_ratio |-> <<10>>,
     obv |-> <<>>, cmf |-> <<20>>, vwap |-> <<>>, ichimoku |-> <<9, 26, 52>>,
     parabolic_sar |-> <<>>, rwi |-> <<14>>, fractal |-> <<>>, elder_ray |-> <<13>>]

\* get_usize, get_usize_arr4, get_usize_arr6: a period is never below 1.
Clamped(params) == [i \in DOMAIN params |-> Later(params[i], 1)]

\* What the constructors assert; a failed assertion is an error of from_config.
Accepts(type, p) ==
    CASE type = "hma" -> p[1] >= 4
      [] type \in {"lsma", "vortex", "rwi", "fisher", "dpo", "rci", "bbands", "chop",
                   "volatility_ratio"} -> p[1] >= 2
      [] type = "kama" -> p[2] < p[3]
      [] type \in {"macd", "ppo", "coppock"} -> p[1] < p[2]
      [] type = "uo" -> p[1] < p[2] /\ p[2] < p[3]
      [] OTHER -> TRUE

Trend(type, p) ==
    CASE type = "sma" -> Sma(p[1]) [] type = "ema" -> Ema(p[1]) [] type = "wma" -> Wma(p[1])
      [] type = "hma" -> Hma(p[1]) [] type = "dema" -> Dema(p[1]) [] type = "tema" -> Tema(p[1])
      [] type = "smma" -> Smma(p[1]) [] type = "alma" -> Alma(p[1])
      [] type = "mcginley" -> McGinleyDynamic(p[1]) [] type = "lsma" -> Lsma(p[1])
      [] type = "vwma" -> Vwma(p[1]) [] type = "kama" -> Kama(p[1])
      [] type = "macd" -> Macd(p[1], p[2], p[3]) [] type = "trix" -> Trix(p[1], p[2])
      [] type = "adx" -> Adx(p[1]) [] type = "dmi" -> Dmi(p[1]) [] type = "aroon" -> Aroon(p[1])
      [] type = "aroon_osc" -> AroonOscillator(p[1]) [] type = "vortex" -> Vortex(p[1])
      [] type = "alligator" -> Alligator(p[1], p[2], p[3])
      [] type = "gmma" -> Gmma(SubSeq(p, 1, 6), SubSeq(p, 7, 12))
      [] type = "kdj" -> Kdj(p[1], p[2], p[3]) [] type = "kalman" -> KalmanFilter
TrendTypes ==
    {"sma", "ema", "wma", "hma", "dema", "tema", "smma", "alma", "mcginley", "lsma", "vwma",
     "kama", "macd", "trix", "adx", "dmi", "aroon", "aroon_osc", "vortex", "alligator", "gmma",
     "kdj", "kalman"}

Momentum(type, p) ==
    CASE type = "rsi" -> Rsi(p[1]) [] type = "cci" -> Cci(p[1]) [] type = "roc" -> Roc(p[1])
      [] type = "mom" -> Mom(p[1]) [] type = "cmo" -> Cmo(p[1]) [] type = "dpo" -> Dpo(p[1])
      [] type = "mfi" -> Mfi(p[1]) [] type = "bop" -> Bop
      [] type = "williams_r" -> WilliamsR(p[1])
      [] type = "stochastic" -> Stochastic(p[1], p[2], p[3])
      [] type = "stoch_rsi" -> StochasticRsi(p[1], 3, p[2]) [] type = "tsi" -> Tsi(p[1], p[2])
      [] type = "rci" -> Rci(p[1]) [] type = "bull_bear" -> BullBearPower(p[1])
      [] type = "fisher" -> Fisher(p[1])
      [] type = "kst" -> Kst(SubSeq(p, 1, 4), SubSeq(p, 5, 8), p[9])
      [] type = "pmo" -> Pmo(p[1], p[2], p[3]) [] type = "ppo" -> Ppo(p[1], p[2], p[3])
      [] type = "rvi" -> Rvi(p[1]) [] type = "smi" -> Smi(p[1], p[2], p[3], p[4])
      [] type = "uo" -> Uo(p[3]) [] type = "connors_rsi" -> ConnorsRsi(p[1], p[2], p[3])
      [] type = "ao" -> AwesomeOscillator(p[1], p[2])
      [] type = "coppock" -> Coppock(p[1], p[2], p[3])
MomentumTypes ==
    {"rsi", "cci", "roc", "mom", "cmo", "dpo", "mfi", "bop", "williams_r", "stochastic",
     "stoch_rsi", "tsi", "rci", "bull_bear", "fisher", "kst", "pmo", "ppo", "rvi", "smi", "uo",
     "connors_rsi", "ao", "coppock"}

Other(type, p) ==
    CASE type = "atr" -> Atr(p[1]) [] type = "bbands" -> BBands(p[1])
      [] type = "keltner" -> Keltner(p[1], p[2]) [] type = "supertrend" -> SuperTrend(p[1])
      [] type = "donchian" -> Donchian(p[1]) [] type = "chop" -> Chop(p[1])
      [] type = "chop_zone" -> ChopZone(p[1])
      [] type = "chandelier_exit" -> ChandelierExit(p[1])
      [] type = "chande_kroll" -> ChandeKrollStop(p[1], p[2])
      [] type = "volatility_ratio" -> VolatilityRatio(p[1])
      [] type = "obv" -> Obv [] type = "cmf" -> Cmf(p[1]) [] type = "vwap" -> Vwap
      [] type = "ichimoku" -> Ichimoku(p[1], p[2], p[3])
      [] type = "parabolic_sar" -> ParabolicSar [] type = "rwi" -> Rwi(p[1])
      [] type = "fractal" -> WilliamsFractal [] type = "elder_ray" -> ElderRay(p[1])

BuildVariant(type, p) ==
    IF type \in TrendTypes THEN Trend(type, p)
    ELSE IF type \in MomentumTypes THEN Momentum(type, p) ELSE Other(type, p)

\* The indicators that no type name reaches: they are built directly.
Direct ==
    [rci_ribbon |-> RciRibbon(9, 26, 52), regime_detector |-> RegimeDetector(14),
     heiken_ashi |-> HeikenAshi(10), heiken_ashi_raw |-> HeikenAshi(1)]
-----------------------------------------------------------------------------
\* Feeds one lane: each place is fed when the one before it yields.
FeedLane(lane, count) ==
    FoldLeft(LAMBDA acc, i :
                 LET n == IF acc.fed /\ count[i] < lane[i] THEN count[i] + 1 ELSE count[i]
                 IN  [fed |-> acc.fed /\ n = lane[i], count |-> Append(acc.count, n)],
             [fed |-> TRUE, count |-> <<>>], [i \in DOMAIN lane |-> i])

\* Mutant: the lanes of a stage short-circuit, each waits for the one before it.
FeedStageCascade(stage, count) ==
    LET all == FoldLeft(LAMBDA acc, l : acc \o l, <<>>, stage.lanes)
        fed == FeedLane(all, FoldLeft(LAMBDA acc, c : acc \o c, <<>>, count))
        start(i) == FoldLeft(LAMBDA n, j : n + Len(stage.lanes[j]), 0, [j \in 1..(i - 1) |-> j])
    IN  [fed |-> fed.fed,
         count |-> [i \in DOMAIN stage.lanes |->
                       SubSeq(fed.count, start(i) + 1, start(i) + Len(stage.lanes[i]))]]

\* Feeds all lanes of a stage, whether or not the others yield.
FeedStage(stage, count) ==
    LET lanes == [i \in DOMAIN stage.lanes |-> FeedLane(stage.lanes[i], count[i])]
    IN  [fed |-> \A i \in DOMAIN lanes : lanes[i].fed,
         count |-> [i \in DOMAIN lanes |-> lanes[i].count]]

\* update(): pass says whether the data gets through the guards.
Feed(stages, count, pass) ==
    FoldLeft(LAMBDA acc, i :
                 LET fed == FeedStage(stages[i], count[i])
                     held == fed.fed /\ stages[i].guarded /\ ~pass
                 IN  IF ~acc.fed THEN [acc EXCEPT !.count = Append(@, count[i])]
                     ELSE [fed |-> fed.fed /\ ~held, count |-> Append(acc.count, fed.count),
                           held |-> held, lost |-> held /\ i < Len(stages)],
             [fed |-> TRUE, count |-> <<>>, held |-> FALSE, lost |-> FALSE],
             [i \in DOMAIN stages |-> i])

Unfed(stages) ==
    [i \in DOMAIN stages |->
        [j \in DOMAIN stages[i].lanes |-> [k \in DOMAIN stages[i].lanes[j] |-> 0]]]

IsReady ==
    \A at \in ind.is_ready : counts[at[1]][at[2]][at[3]] = ind.stages[at[1]].lanes[at[2]][at[3]]
-----------------------------------------------------------------------------
Configs ==
    {[type |-> t, params |-> Defaults[t], at |-> 0] : t \in Types \cap DOMAIN Defaults}
    \cup UNION {{[type |-> t, params |-> [Defaults[t] EXCEPT ![i] = v], at |-> i]
                    : i \in DOMAIN Defaults[t], v \in Edits} : t \in Types \cap DOMAIN Defaults}

\* from_config: the type's constructor on the clamped periods.
FromConfig ==
    \E c \in Configs :
        /\ Accepts(c.type, Clamped(c.params))
        /\ config = c
        /\ ind = BuildVariant(c.type, Clamped(c.params))

BuiltDirectly ==
    \E t \in Types \cap DOMAIN Direct :
        /\ config = [type |-> t, params |-> <<>>, at |-> 0]
        /\ ind = Direct[t]

Init ==
    /\ FromConfig \/ BuiltDirectly
    /\ counts = Unfed(ind.stages)
    /\ bars = 0 /\ lost = 0 /\ resets = 0
    /\ some = FALSE /\ refused = FALSE

\* A few bars past the first value, or past the documented one.
Horizon == (IF ind.first = Never THEN ind.doc ELSE ind.first) + MaxLost + 2

Update(pass) ==
    /\ bars < Horizon
    /\ LET fed == Feed(ind.stages, counts, pass)
       IN  /\ fed.held => lost < MaxLost
           /\ ~pass => fed.held
           /\ counts' = fed.count
           /\ some' = fed.fed
           /\ refused' = fed.held
           /\ lost' = IF fed.lost THEN lost + 1 ELSE lost
    /\ bars' = bars + 1
    /\ UNCHANGED <<config, ind, resets>>

\* reset(): every part is cleared or built again with its own periods,
\* except that GMMA goes back to the standard ones.
Reset ==
    /\ resets < MaxResets
    /\ bars > 0
    /\ ind' = IF config.type = "gmma" THEN Gmma(ShortPeriods, LongPeriods) ELSE ind
    /\ counts' = Unfed(ind'.stages)
    /\ bars' = 0 /\ lost' = 0 /\ resets' = resets + 1
    /\ some' = FALSE /\ refused' = FALSE
    /\ UNCHANGED config

Next == (\E pass \in BOOLEAN : Update(pass)) \/ Reset

Spec == Init /\ [][Next]_vars
-----------------------------------------------------------------------------
\* Every counter stays within its period, and a value needs a bar.
TypeOK ==
    /\ config.type \in Types
    /\ \A i \in DOMAIN ind.stages : \A j \in DOMAIN ind.stages[i].lanes :
          \A k \in DOMAIN ind.stages[i].lanes[j] :
              counts[i][j][k] \in 0..ind.stages[i].lanes[j][k]
    /\ bars \in 0..Horizon /\ lost \in 0..MaxLost /\ resets \in 0..MaxResets
    /\ some \in BOOLEAN /\ refused \in BOOLEAN
    /\ some => bars > 0 /\ ~refused

\* What the configuration asked for.
Asked ==
    IF config.type \in DOMAIN Direct THEN Direct[config.type]
    ELSE BuildVariant(config.type, Clamped(config.params))

\* reset() of a GMMA forgets the periods it was configured with.
Forgetful == {"gmma"}

\* The first value comes on exactly the bar the configured periods call for,
\* for a new indicator and for one that was reset; every bar that a guard
\* keeps from a later stage delays it by one bar, and from then on every bar
\* the guards let through has a value.  No part waits for a part beside it.
FirstValue ==
    bars > 0 /\ (resets = 0 \/ config.type \notin Forgetful)
        => (some <=> bars - lost >= Asked.first /\ ~refused)

\* is_ready() of these looks at a part that is warm before the value is.
EarlyReady == {"hma", "chop_zone"}

\* A value is only returned by an indicator that says it is ready, and one
\* that is ready returns a value for every bar its guards let through.
Readiness ==
    ind.is_ready /= {} /\ bars > 0 /\ ~refused
        => /\ some => IsReady
           /\ IsReady /\ config.type \notin EarlyReady => some

\* The warm-up that the documentation of each indicator gives.
DocumentedWarmup ==
    bars > 0 /\ resets = 0 /\ lost = 0 /\ ~refused => (some <=> bars >= ind.doc)

\* An indicator yields on the bar its smoothers are all fed, and says it is ready
\* exactly then, after any reset and any edit of its parameters -- but for hma and
\* chop_zone, which say so before they have a value, and gmma, whose reset goes back
\* to the default periods.
WarmUp == TypeOK /\ FirstValue /\ Readiness
=============================================================================
