---------------------------- MODULE MCIndicators ----------------------------
(***************************************************************************)
(* One of the models of the indicator, pattern and chart crates runs, the  *)
(* others rest.                                                            *)
(***************************************************************************)
EXTENDS IndicatorBox, ParabolicSar, IndicatorValues, ChartState, Patterns, ScriptTa

VARIABLE model

AllTypes == DOMAIN Defaults \cup DOMAIN Direct
SomePrices == 0..3

\* Prices of the chart patterns, in quarters of 2520ths: every line through two of
\* eleven bars then has an integer value at a third.  One alphabet has prices far
\* apart, so that two are similar when they are equal; the other has swings at
\* 100, 102.5 and 103.25, which differ and are, or just are not, within 3%.
A_bar(lo, hi, close) == [lo |-> lo * 2520, hi |-> hi * 2520, close |-> close * 2520]
Flat(p) == A_bar(4 * p, 4 * p, 4 * p)
FarApart == {Flat(p) : p \in {90, 100, 120, 130}} \cup {A_bar(360, 520, 440)}
Close_by == {A_bar(400, 402, 400), A_bar(410, 440, 424), A_bar(413, 416, 414), A_bar(406, 406, 406),
             A_bar(396, 420, 418)}
FarHistory == <<Flat(90), Flat(100), Flat(120), Flat(120), Flat(100)>>
CloseHistory == <<Flat(104), Flat(102), A_bar(400, 402, 400), A_bar(402, 404, 404), A_bar(403, 403, 403)>>
SomeHistories == {FarHistory, CloseHistory}
SomeBarsAfter(w) == IF w[1] = Flat(90) THEN FarApart ELSE Close_by
TheCentre == 440 * 2520

\* Sticks of three ranges, after seven bars that close high and low in turn.
SomeSticks ==
    UNION {[o : r[1]..r[2], c : r[1]..r[2], l : {r[1]}, h : {r[2]}] : r \in {<<0, 3>>, <<1, 3>>, <<2, 4>>}}
SomeOpenings == {[i \in 1..7 |-> [o |-> 1, h |-> 3, l |-> 0, c |-> IF i % 2 = 0 THEN 3 ELSE 0]]}

\* Every ta.* function on its own, and a script with a regime block whose main
\* block has two declarations, one of them read through highest().
A_ta(key, func, n, buf) == [key |-> key, func |-> func, period |-> n, buf |-> buf, strict |-> 0]
SomeScripts ==
    {[regime |-> <<>>, main |-> <<A_ta("a", func, 3, 2)>>] :
        func \in {"ema", "smma", "decay", "sma", "rsum", "stdev", "highest", "lowest", "wma", "hma", "vwma"}}
    \cup {[regime |-> <<>>, main |-> <<A_ta("a", func, 1, 2)>>] : func \in {"stdev", "vwma"}}
    \cup {[regime |-> <<A_ta("r", "rsum", 2, 0)>>,
           main |-> <<A_ta("a", "sma", 2, 2), [A_ta("b", "ema", 3, 2) EXCEPT !.strict = 1]>>]}
SomeInputs == {<<0, 2>>, <<3, 1>>}

others == <<vars, sarVars, valueVars, chartVars, window, sticks, taVars>>

MCInit ==
    /\ model \in {"box", "sar", "values", "chart", "pattern", "candle", "ta"}
    /\ Init /\ SarInit /\ ValueInit /\ ChartInit /\ TaInit
    /\ IF model = "pattern" THEN PatternInit ELSE window = <<>>
    /\ IF model = "candle" THEN CandleInit ELSE sticks = <<>>
    /\ model = "box" \/ config = [type |-> "bop", params |-> <<>>, at |-> 0]
    /\ model = "sar" \/ sar = 0
    /\ model = "ta" \/ program = CHOOSE p \in Scripts : TRUE
    /\ model = "values" <=> kind /= "none"

MCNext ==
    \/ model = "box" /\ Next /\ UNCHANGED <<model, sarVars, valueVars, chartVars, window, sticks, taVars>>
    \/ model = "sar" /\ SarNext /\ UNCHANGED <<model, vars, valueVars, chartVars, window, sticks, taVars>>
    \/ model = "values" /\ ValueNext /\ UNCHANGED <<model, vars, sarVars, chartVars, window, sticks, taVars>>
    \/ model = "chart" /\ ChartNext /\ UNCHANGED <<model, vars, sarVars, valueVars, window, sticks, taVars>>
    \/ model = "pattern" /\ PatternNext /\ UNCHANGED <<model, vars, sarVars, valueVars, chartVars, sticks, taVars>>
    \/ model = "candle" /\ CandleNext /\ UNCHANGED <<model, vars, sarVars, valueVars, chartVars, window, taVars>>
    \/ model = "ta" /\ TaNext /\ UNCHANGED <<model, vars, sarVars, valueVars, chartVars, window, sticks>>

MCSpec == MCInit /\ [][MCNext]_<<model, others>>

-----------------------------------------------------------------------------
(* Properties                                                              *)

\* What the indicators compute is what their definitions say of the bars seen,
\* though each keeps only a window or a running value; and the SuperTrend line
\* only tightens within a trend.
ValuesAgree == [](RollingExtremes /\ SuperTrendSide /\ VwapOfSession) /\ SuperTrendTightens

\* The chart and the script see their series in step with the bars: replayed or
\* live, backfilled or not, and when a block of the script fails.
ChartInStep == [](ReplayView /\ SeriesAligned /\ ArraysOfInputs /\ MainInStep) /\ HistoryMerges

\* The detectors treat up and down alike where their tolerances do, and put a stop
\* where it loses or within the tolerance of it.
PatternsSound == MirrorImages /\ CandleMirror /\ StopOnLosingSide
=============================================================================
