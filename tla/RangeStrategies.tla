--------------------------- MODULE RangeStrategies ---------------------------
(*************************************************************************)
(* The named strategies on volatility, volume and patterns, and those that *)
(* combine several indicators.                                           *)
(*************************************************************************)
EXTENDS StrategyKit, FiniteSetsExt

(***************************************************************************)
(* named/volatility: each strategy as the Rust value (XNew, X) and as the  *)
(* Rhai script it publishes (XScript).  band is the place of the close in  *)
(* a channel: lower line 1, middle 3, upper 5, even classes in between.    *)
(* OrbBreakout publishes no script and is among the patterns below.        *)
(***************************************************************************)

Tri == 0..2
Band == 0..6

\* ATR is worth 0 or 1 price steps, the multiplier is 2.  A position starts
\* above the EMA and is trailed from the highest close since.
AtrTrailingStopNew ==
    New([ema |-> In(3, Tri, 1), atr |-> In(1, {0, 1}, 1), close |-> In(1, 0..3, 1)],
        [in_position |-> FALSE, highest |-> 0, stop |-> 0],
        [in_position |-> FALSE, highest |-> 0, stop |-> 0])
Trailed(t, c, atr) ==
    IF c > t.highest THEN [t EXCEPT !.highest = c, !.stop = c - 2 * atr] ELSE t
AtrTrailingStop(st, r) ==
    LET t == Trailed(st, r.close, r.atr) IN
    IF ~Warm({r.ema, r.atr}) THEN Stay(st)
    ELSE IF st.in_position
    THEN IF r.close < t.stop THEN Emit(AtrTrailingStopNew.native, "exit") ELSE Stay(t)
    ELSE IF r.close > r.ema
    THEN Emit([in_position |-> TRUE, highest |-> r.close, stop |-> r.close - 2 * r.atr], "long")
    ELSE Stay(st)
AtrTrailingStopScript(sc, h) ==
    LET t == Trailed(sc, h.close[1], h.atr[1])
        exit == sc.in_position /\ h.close[1] < t.stop
        entry == ~sc.in_position /\ h.close[1] > h.ema[1]
        opened == [in_position |-> TRUE, highest |-> h.close[1],
                   stop |-> h.close[1] - 2 * h.atr[1]] IN
    Script(CASE exit -> AtrTrailingStopNew.script [] entry -> opened
             [] sc.in_position /\ ~exit -> t [] OTHER -> sc, entry, exit)

\* inside: both Bollinger bands are inside the Keltner channel.
BbKeltnerSqueezeNew ==
    New([inside |-> In(1, {0, 1}, 2), close |-> In(1, Tri, 1)],
        [was_squeezed |-> FALSE, in_position |-> FALSE],
        [was_squeezed |-> FALSE, in_position |-> FALSE])
SqueezeStep(s, squeezed, close) ==
    LET long == s.was_squeezed /\ ~squeezed /\ close > 1 /\ ~s.in_position
        exit == close < 1 /\ s.in_position IN
    [st |-> [was_squeezed |-> squeezed, in_position |-> long \/ (s.in_position /\ ~exit)],
     long |-> long, exit |-> exit]
BbKeltnerSqueeze(st, r) ==
    LET d == SqueezeStep(st, r.inside = 1, r.close) IN
    IF ~Warm({r.inside}) THEN Stay(st) ELSE Decide(d.st, d.long, d.exit)
BbKeltnerSqueezeScript(sc, h) ==
    LET d == SqueezeStep(sc, h.inside[1] = 1, h.close[1]) IN Script(d.st, d.long, d.exit)

BbRsiReversalNew == New([band |-> In(3, Band, 1), rsi |-> In(1, 0..4, 1)], Unset, Unset)
BbRsiReversal(st, r) ==
    IF ~Warm({r.band, r.rsi}) THEN Stay(st)
    ELSE Decide(st, r.band < 1 /\ r.rsi < 1, r.band > 3 \/ r.rsi > 3)
BbRsiReversalScript(sc, h) ==
    Script(sc, h.band[1] < 1 /\ h.rsi[1] < 1, h.band[1] > 3 \/ h.rsi[1] > 3)

BbSqueezeNew ==
    New([band |-> In(1, Band, 2), narrow |-> In(1, {0, 1}, 2)],
        [was_squeezed |-> FALSE], [was_squeezed |-> FALSE])
BbSqueeze(st, r) ==
    LET squeezed == st.was_squeezed \/ r.narrow = 1
        long == squeezed /\ r.band > 5 IN
    IF ~Warm({r.band}) THEN Stay(st)
    ELSE Decide([was_squeezed |-> squeezed /\ ~long], long, r.band < 3)
BbSqueezeScript(sc, h) ==
    LET squeezed == sc.was_squeezed \/ h.narrow[1] = 1
        entry == squeezed /\ h.band[1] > 5 IN
    Script([was_squeezed |-> squeezed /\ ~entry], entry, h.band[1] < 3)

BollingerMacdNew == New([band |-> In(1, Band, 1), histogram |-> In(3, Tri, 1)], Unset, Unset)
BollingerMacd(st, r) ==
    IF ~Warm({r.band, r.histogram}) THEN Stay(st)
    ELSE Decide(st, r.band > 5 /\ r.histogram > 1, r.band < 3 \/ r.histogram < 1)
BollingerMacdScript(sc, h) ==
    Script(sc, h.band[1] > 5 /\ h.histogram[1] > 1, h.band[1] < 3 \/ h.histogram[1] < 1)

\* close is the class of the close against the stop (highest high - 3 ATR).
ChandelierExitNew ==
    New([close |-> In(1, Tri, 2)],
        [prev_bull |-> Unset, in_position |-> FALSE], [prev_bull |-> Unset, in_position |-> FALSE])
ChandelierStep(s, bull) ==
    LET prev == s.prev_bull
        long == prev # Unset /\ bull /\ ~prev[1] /\ ~s.in_position
        exit == prev # Unset /\ ~bull /\ prev[1] /\ s.in_position IN
    [st |-> [prev_bull |-> <<bull>>, in_position |-> long \/ (s.in_position /\ ~exit)],
     long |-> long, exit |-> exit]
ChandelierExit(st, r) ==
    LET d == ChandelierStep(st, r.close > 1) IN
    IF ~Warm({r.close}) THEN Stay(st) ELSE Decide(d.st, d.long, d.exit)
ChandelierExitScript(sc, h) ==
    LET d == ChandelierStep(sc, h.close[1] > 1) IN Script(d.st, d.long, d.exit)

\* upper and lower come from two channels of different lengths; the bar's
\* close is compared with the lines of the bar before it.
DonchianBreakoutNew ==
    New([upper |-> In(3, {1, 2}, 2), lower |-> In(1, {0, 1}, 2), close |-> In(1, 0..3, 1)],
        Unset, Unset)
DonchianBreakout(st, r) ==
    IF ~Warm({r.upper, r.lower}) THEN Stay(st)
    ELSE IF st = Unset THEN Stay(<<r.upper, r.lower>>)
    ELSE Decide(<<r.upper, r.lower>>, r.close > st[1], r.close < st[2])
DonchianBreakoutScript(sc, h) ==
    Script(sc, h.close[1] > h.upper[2], h.close[1] < h.lower[2])

\* A lookback of 3 closes stands for the 20 of the code; the script reads
\* one more, the current close.
HighestBreakoutNew == New([close |-> In(1, Tri, 4)], <<>>, Unset)
HighestBreakout(st, r) ==
    LET closes == Push(st, r.close, 4)
        lookback == {closes[i] : i \in 2..4} IN
    IF Len(closes) < 4 THEN Stay(closes)
    ELSE Decide(closes, r.close > Max(lookback), r.close < Min(lookback))
HighestBreakoutScript(sc, h) ==
    Script(sc, \A i \in 2..4 : h.close[1] > h.close[i], \A i \in 2..4 : h.close[1] < h.close[i])

KeltnerBreakoutNew == New([band |-> In(1, Band, 1)], Unset, Unset)
KeltnerBreakout(st, r) ==
    IF ~Warm({r.band}) THEN Stay(st) ELSE Decide(st, r.band > 5, r.band < 1)
KeltnerBreakoutScript(sc, h) == Script(sc, h.band[1] > 5, h.band[1] < 1)

RangeRoverNew == New([k |-> In(1, 0..4, 1), close |-> In(3, Tri, 1)], Unset, Unset)
RangeRover(st, r) ==
    IF ~Warm({r.k, r.close}) THEN Stay(st)
    ELSE Decide(st, r.k < 1 /\ r.close > 1, r.k > 3)
RangeRoverScript(sc, h) == Script(sc, h.k[1] < 1 /\ h.close[1] > 1, h.k[1] > 3)

VolatilityRatioBreakoutNew == New([vr |-> In(3, Tri, 1), close |-> In(1, Tri, 2)], Unset, Unset)
VolatilityRatioBreakout(st, r) ==
    IF ~Warm({r.vr}) THEN Stay(<<r.close>>)
    ELSE Decide(<<r.close>>, r.vr > 1 /\ st # Unset /\ r.close > st[1], r.vr <= 1)
VolatilityRatioBreakoutScript(sc, h) ==
    Script(sc, h.vr[1] > 1 /\ h.close[1] > h.close[2], h.vr[1] <= 1)

VolatilitySqueezerNew == New([atr |-> In(1, Tri, 2), close |-> In(3, Tri, 2)], Unset, Unset)
VolatilitySqueezer(st, r) ==
    IF ~Warm({r.atr, r.close}) THEN Stay(st)
    ELSE IF st = Unset THEN Stay(<<r.atr>>)
    ELSE Decide(<<r.atr>>, r.atr > st[1] /\ r.close > 1, r.close < 1)
VolatilitySqueezerScript(sc, h) ==
    Script(sc, h.atr[1] > h.atr[2] /\ h.close[1] > 1, h.close[1] < 1)

VolatilityVanguardNew == New([atr |-> In(1, Tri, 2), band |-> In(3, Band, 2)], Unset, Unset)
VolatilityVanguard(st, r) ==
    IF ~Warm({r.atr, r.band}) THEN Stay(st)
    ELSE IF st = Unset THEN Stay(<<r.atr>>)
    ELSE Decide(<<r.atr>>, r.band > 5 /\ r.atr > st[1], r.band < 3)
VolatilityVanguardScript(sc, h) ==
    Script(sc, h.band[1] > 5 /\ h.atr[1] > h.atr[2], h.band[1] < 3)

-----------------------------------------------------------------------------
(***************************************************************************)
(* named/volume: each strategy as the Rust value (XNew, X) and as the Rhai *)
(* script it publishes (XScript).                                          *)
(***************************************************************************)

Side == 0..2
Level == 0..4

CmfEmaTrendNew == New([cmf |-> In(1, Level, 1), close |-> In(3, Side, 1)], Unset, Unset)
CmfEmaTrend(st, r) ==
    IF ~Warm({r.cmf, r.close}) THEN Stay(st)
    ELSE Decide(st, r.cmf > 3 /\ r.close > 1, r.cmf < 1)
CmfEmaTrendScript(sc, h) == Script(sc, h.cmf[1] > 3 /\ h.close[1] > 1, h.cmf[1] < 1)

MfiRevertNew == New([mfi |-> In(1, Level, 2)], Unset, Unset)
MfiRevert(st, r) ==
    IF ~Warm({r.mfi}) THEN Stay(st)
    ELSE IF st = Unset THEN Stay(<<r.mfi>>)
    ELSE Decide(<<r.mfi>>, st[1] <= 1 /\ r.mfi > 1, st[1] <= 3 /\ r.mfi > 3)
MfiRevertScript(sc, h) ==
    Script(sc, h.mfi[2] <= 1 /\ h.mfi[1] > 1, h.mfi[2] <= 3 /\ h.mfi[1] > 3)

\* 40 is level 1, 50 is level 3.
MfiTrendNew == New([mfi |-> In(1, Level, 2)], Unset, Unset)
MfiTrend(st, r) ==
    IF ~Warm({r.mfi}) THEN Stay(st)
    ELSE IF st = Unset THEN Stay(<<r.mfi>>)
    ELSE Decide(<<r.mfi>>, st[1] <= 3 /\ r.mfi > 3, r.mfi < 1)
MfiTrendScript(sc, h) == Script(sc, h.mfi[2] <= 3 /\ h.mfi[1] > 3, h.mfi[1] < 1)

\* Real bar numbers, because the script computes EMA(20) of OBV by hand: on
\* its first run it replays the 49 older OBV values of its 50-deep buffer.
\* grow is the class of OBV against that EMA, close that of the close.
ObvEmaTrendNew ==
    New([obv |-> In(1, {0}, 50), grow |-> In(20, {1, 2}, 1), close |-> In(50, {1, 2}, 1)],
        [samples |-> 0, in_position |-> FALSE], [samples |-> None, in_position |-> FALSE])
ObvEmaTrend(st, r) ==
    LET n == IF st.samples < 50 THEN st.samples + 1 ELSE 50
        bullish == r.grow > 1 /\ r.close > 1
        long == bullish /\ ~st.in_position
        exit == st.in_position /\ ~bullish IN
    IF n < 20 \/ ~Warm({r.close}) THEN Stay([st EXCEPT !.samples = n])
    ELSE Decide([samples |-> n, in_position |-> long \/ (st.in_position /\ ~exit)], long, exit)
ObvEmaTrendScript(sc, h) ==
    LET replayed == IF sc.samples = None THEN 49 ELSE sc.samples
        n == IF replayed < 50 THEN replayed + 1 ELSE 50
        bullish == h.grow[1] > 1 /\ h.close[1] > 1
        entry == n >= 20 /\ bullish /\ ~sc.in_position
        exit == n >= 20 /\ sc.in_position /\ ~bullish IN
    Script([samples |-> n, in_position |-> entry \/ (sc.in_position /\ ~exit)], entry, exit)

\* close is the class of the close against the session VWAP.
VwapBounceNew == New([close |-> In(1, Side, 2), rsi |-> In(3, Level, 1)], Unset, Unset)
VwapBounce(st, r) ==
    LET above_vwap == r.close > 1 IN
    IF ~Warm({r.rsi}) THEN Stay(st)
    ELSE IF st = Unset THEN Stay(<<above_vwap>>)
    ELSE Decide(<<above_vwap>>, ~st[1] /\ above_vwap /\ r.rsi < 1,
                (st[1] /\ ~above_vwap) \/ r.rsi > 3)
VwapBounceScript(sc, h) ==
    LET above_vwap == h.close[1] > 1 IN
    IF sc = Unset THEN Script(<<above_vwap>>, FALSE, FALSE)
    ELSE Script(<<above_vwap>>, ~sc[1] /\ above_vwap /\ h.rsi[1] < 1,
                (sc[1] /\ ~above_vwap) \/ h.rsi[1] > 3)

VwapTrendNew ==
    New([vwap |-> In(1, Side, 2), close |-> In(1, Side, 1)],
        [prev_vwap |-> Unset, in_position |-> FALSE], [in_position |-> FALSE])
\* Mutant: a rising average enters whether or not a position is open.
VwapTrendReenters(st, r) ==
    LET long == r.close > r.vwap /\ r.vwap > st.prev_vwap[1]
        exit == ~(r.close > r.vwap) /\ st.in_position IN
    IF st.prev_vwap = Unset THEN Stay([st EXCEPT !.prev_vwap = <<r.vwap>>])
    ELSE Decide([prev_vwap |-> <<r.vwap>>, in_position |-> long \/ (st.in_position /\ ~exit)],
                long, exit)

VwapTrend(st, r) ==
    LET long == r.close > r.vwap /\ r.vwap > st.prev_vwap[1] /\ ~st.in_position
        exit == ~(r.close > r.vwap) /\ st.in_position IN
    IF st.prev_vwap = Unset THEN Stay([st EXCEPT !.prev_vwap = <<r.vwap>>])
    ELSE Decide([prev_vwap |-> <<r.vwap>>, in_position |-> long \/ (st.in_position /\ ~exit)],
                long, exit)
VwapTrendScript(sc, h) ==
    LET above_vwap == h.close[1] > h.vwap[1]
        entry == above_vwap /\ h.vwap[1] > h.vwap[2] /\ ~sc.in_position
        exit == ~above_vwap /\ sc.in_position IN
    Script([in_position |-> entry \/ (sc.in_position /\ ~exit)], entry, exit)

VwmaRsiNew == New([close |-> In(3, Side, 1), rsi |-> In(1, Level, 1)], Unset, Unset)
VwmaRsi(st, r) ==
    IF ~Warm({r.close, r.rsi}) THEN Stay(st)
    ELSE Decide(st, r.close > 1 /\ r.rsi > 3, r.rsi < 1)
VwmaRsiScript(sc, h) == Script(sc, h.close[1] > 1 /\ h.rsi[1] > 3, h.rsi[1] < 1)

\* The MACD line in steps of the two reference lines: t1 is its change.
WaddahAttarNew ==
    New([macd |-> In(3, Side, 2), width |-> In(1, {0, 1}, 2), deadzone |-> In(5, {0, 1}, 2)],
        Unset, Unset)
Confirmed(t1, width, deadzone) ==
    LET power == IF t1 >= 0 THEN t1 ELSE 0 - t1 IN power > width /\ power > deadzone
WaddahAttar(st, r) ==
    LET t1 == r.macd - st[1]
        confirmed == Confirmed(t1, r.width, r.deadzone) IN
    IF ~Warm({r.macd, r.width, r.deadzone}) THEN Stay(st)
    ELSE IF st = Unset THEN Stay(<<r.macd>>)
    ELSE Decide(<<r.macd>>, confirmed /\ t1 > 0, ~confirmed \/ t1 <= 0)
WaddahAttarScript(sc, h) ==
    LET t1 == h.macd[1] - h.macd[2]
        confirmed == Confirmed(t1, h.width[1], h.deadzone[1]) IN
    Script(sc, confirmed /\ t1 > 0, ~confirmed \/ t1 <= 0)

-----------------------------------------------------------------------------
(***************************************************************************)
(* named/pattern: each strategy as the Rust value (XNew, X) and as the     *)
(* Rhai script it publishes (XScript).  The three strategies without a     *)
(* script (orb_breakout of named/volatility, price_action_swing and        *)
(* pattern_breakout) have XNew and X only.                                 *)
(***************************************************************************)

Bull == {0, 1}

\* The configured periods live in the indicator, and reset() replaces it by
\* the default one: params remembers which of the two is being fed.
AlligatorStrategyNew ==
    New([bullish |-> In(1, Bull, 2), standard |-> In(1, Bull, 2)],
        [prev |-> Unset, params |-> "configured"], Unset)
AlligatorStrategy(st, r) ==
    LET v == IF st.params = "configured" THEN r.bullish ELSE r.standard
        e == Edge(st.prev, v = 1) IN
    IF ~Warm({v}) THEN Stay(st) ELSE Emit([st EXCEPT !.prev = e.st], e.sig)
AlligatorStrategyReset == [prev |-> Unset, params |-> "default"]
AlligatorStrategyScript(sc, h) ==
    Script(sc, h.bullish[2] < 1 /\ h.bullish[1] >= 1, h.bullish[2] >= 1 /\ h.bullish[1] < 1)

\* bear_power has two classes below zero (2), so that it can rise there.
ElderRayStrategyNew ==
    New([ema |-> In(1, {0, 1}, 2), bear |-> In(1, 0..2, 2), bull |-> In(1, 0..2, 2)],
        Unset, Unset)
ElderRayStrategy(st, r) ==
    LET now == <<r.ema, r.bear, r.bull>> IN
    IF ~Warm({r.ema}) THEN Stay(st)
    ELSE IF st = Unset THEN Stay(now)
    ELSE Decide(now, r.ema > st[1] /\ r.bear < 2 /\ r.bear > st[2], r.bull < 1 /\ st[3] >= 1)
ElderRayStrategyScript(sc, h) ==
    Script(sc, h.ema[1] > h.ema[2] /\ h.bear[1] < 2 /\ h.bear[1] > h.bear[2],
           h.bull[1] < 1 /\ h.bull[2] >= 1)

\* Counters saturate at consecutive_bars = 2, the only value they are
\* compared with.  The Rust value counts from the first bar, the script
\* from the second: it does not run before its bar buffer holds two bars.
HaBreakoutNew ==
    New([bull |-> In(1, Bull, 2)], [bull |-> 0, bear |-> 0], [bull |-> 0, bear |-> 0])
HaCount(c, bullish) ==
    IF bullish THEN [bull |-> IF c.bull < 2 THEN c.bull + 1 ELSE 2, bear |-> 0]
    ELSE [bear |-> IF c.bear < 2 THEN c.bear + 1 ELSE 2, bull |-> 0]
HaBreakout(st, r) ==
    LET c == HaCount(st, r.bull = 1) IN Decide(c, c.bull >= 2, c.bear >= 2)
HaBreakoutScript(sc, h) ==
    LET c == HaCount(sc, h.bull[1] = 1) IN Script(c, c.bull >= 2, c.bear >= 2)

HaColorNew == New([bull |-> In(1, Bull, 2)], Unset, Unset)
HaColor(st, r) == Edge(st, r.bull = 1)
HaColorScript(sc, h) ==
    Script(sc, h.bull[1] = 1 /\ h.bull[2] # 1, h.bull[1] # 1 /\ h.bull[2] = 1)

\* Real bar numbers, counted up to 50: EMA(50) yields from the 50th close on.
\* The script keeps the EMA by hand, starting from the two bars of its first
\* run.  close is the class of the close against that EMA.
HaHarmonizerNew ==
    New([bull |-> In(1, Bull, 2), close |-> In(1, 0..2, 1)], [samples |-> 0], [samples |-> None])
Sampled(n) == IF n < 50 THEN n + 1 ELSE 50
HaHarmonizer(st, r) ==
    LET n == Sampled(st.samples) IN
    IF n < 50 THEN Stay([samples |-> n])
    ELSE Decide([samples |-> n], r.bull = 1 /\ r.close > 1, r.bull # 1 \/ r.close < 1)
HaHarmonizerScript(sc, h) ==
    LET n == IF sc.samples = None THEN 2 ELSE Sampled(sc.samples)
        ema == n >= 50 IN
    Script([samples |-> n], ema /\ h.bull[1] = 1 /\ h.close[1] > 1,
           ema /\ (h.bull[1] # 1 \/ h.close[1] < 1))

RwiStrategyNew == New([high |-> In(1, 0..2, 1), low |-> In(1, 0..2, 1)], Unset, Unset)
RwiStrategy(st, r) == IF ~Warm({r.high}) THEN Stay(st) ELSE Decide(st, r.high > 1, r.low > 1)
RwiStrategyScript(sc, h) == Script(sc, h.high[1] > 1, h.low[1] > 1)

SarStrategyNew == New([bullish |-> In(1, Bull, 2)], Unset, Unset)
SarStrategy(st, r) == IF ~Warm({r.bullish}) THEN Stay(st) ELSE Edge(st, r.bullish = 1)
SarStrategyScript(sc, h) ==
    LET was_bull == h.bullish[2] >= 1  now_bull == h.bullish[1] >= 1 IN
    Script(sc, ~was_bull /\ now_bull, was_bull /\ ~now_bull)

SupertrendMacdNew == New([bullish |-> In(1, Bull, 1), histogram |-> In(3, 0..2, 1)], Unset, Unset)
SupertrendMacd(st, r) ==
    IF ~Warm({r.bullish, r.histogram}) THEN Stay(st)
    ELSE Decide(st, r.bullish = 1 /\ r.histogram > 1, r.bullish # 1)
SupertrendMacdScript(sc, h) ==
    Script(sc, h.bullish[1] >= 1 /\ h.histogram[1] > 1, h.bullish[1] < 1)

SupertrendStrategyNew == New([bullish |-> In(1, Bull, 2)], Unset, Unset)
SupertrendStrategy(st, r) == IF ~Warm({r.bullish}) THEN Stay(st) ELSE Edge(st, r.bullish = 1)
SupertrendStrategyScript(sc, h) ==
    Script(sc, h.bullish[2] < 1 /\ h.bullish[1] >= 1, h.bullish[2] >= 1 /\ h.bullish[1] < 1)

-----------------------------------------------------------------------------
\* The infinities an opening range and a swing level start from.
NegInf == -1
PosInf == 9

\* range_bars = 2.  gap: more than session_gap_mins since the last bar.
OrbBreakoutNew == [bars |-> 0, or_high |-> NegInf, or_low |-> PosInf, ready |-> FALSE]
OrbBreakout(st, r) ==
    LET s == IF r.gap THEN OrbBreakoutNew ELSE st
        n == s.bars + 1 IN
    IF ~s.ready
    THEN Stay([bars |-> n, or_high |-> Max({s.or_high, r.high}),
               or_low |-> Min({s.or_low, r.low}), ready |-> n >= 2])
    ELSE Decide(s, r.close > s.or_high, r.close < s.or_low)

\* swing_bars = 1: the window holds three bars.  warm: EMA and ATR are.
\* Half an ATR is one price step.
PriceActionSwingNew ==
    [window |-> <<>>, swing_high |-> NegInf, swing_low |-> PosInf,
     in_position |-> FALSE, stop_level |-> 0]
Is_pivot_high(w) == Len(w) = 3 /\ w[1].high < w[2].high /\ w[3].high < w[2].high
Is_pivot_low(w) == Len(w) = 3 /\ w[1].low > w[2].low /\ w[3].low > w[2].low
SwingUpdated(s, w) ==
    [s EXCEPT !.swing_high = IF Is_pivot_high(w) THEN w[2].high ELSE @,
              !.swing_low = IF Is_pivot_low(w) THEN w[2].low ELSE @]
\* The stop of an open position after a bar that did not reach it.
SwingTrailed(s) == [s EXCEPT !.stop_level = Max({@, s.swing_low})]

PriceActionSwing(st, r) ==
    LET bar == [high |-> r.high, low |-> r.low]
        w == SubSeq(<<bar>> \o st.window, 1, Min({3, Len(st.window) + 1}))
        s == SwingUpdated([st EXCEPT !.window = w], w)
        near_support == r.close = s.swing_low
        breakout == r.close > s.swing_high /\ r.above_trend
        bounce == r.pin /\ near_support /\ r.above_trend
        Opened(stop) == [s EXCEPT !.in_position = TRUE, !.stop_level = stop] IN
    IF ~r.warm THEN Stay([st EXCEPT !.window = w])
    ELSE IF s.swing_high = NegInf \/ s.swing_low = PosInf THEN Stay(s)
    ELSE IF s.in_position
    THEN IF r.close < s.stop_level THEN Emit([s EXCEPT !.in_position = FALSE], "exit")
         ELSE Stay(SwingTrailed(s))
    ELSE IF breakout THEN Emit(Opened(s.swing_low), "long")
    ELSE IF bounce THEN Emit(Opened(r.low - 1), "long")
    ELSE Stay(s)

\* A window of detected patterns, each with a direction and a confidence (2
\* is min_confidence); max_by keeps the last of the most confident ones.
PatternBreakoutStrategyNew == Unset
PatternBreakoutStrategy(st, r) ==
    LET clear == {i \in DOMAIN r.found : r.found[i].confidence >= 2}
        best == CHOOSE i \in clear : \A j \in clear \ {i} :
                    \/ r.found[i].confidence > r.found[j].confidence
                    \/ r.found[i].confidence = r.found[j].confidence /\ i > j IN
    IF ~r.enough \/ clear = {} THEN Stay(st)
    ELSE Decide(st, r.found[best].kind = "bullish", r.found[best].kind = "bearish")

-----------------------------------------------------------------------------
(***************************************************************************)
(* named/composite: each strategy as the Rust value (XNew, X) and as the   *)
(* Rhai script it publishes (XScript).                                     *)
(***************************************************************************)

Cmp == 0..2
Two == 0..4

\* prev_fast is remembered even while the slow EMA is warming up.
ChopFilterStrategyNew ==
    New([fast |-> In(1, Cmp, 2), slow |-> In(5, Cmp, 2), chop |-> In(3, Cmp, 1)],
        [fast |-> Unset, slow |-> Unset], Unset)
ChopFilterStrategy(st, r) ==
    LET Keep(old, v) == IF v = None THEN old ELSE <<v>>
        now == [fast |-> Keep(st.fast, r.fast), slow |-> Keep(st.slow, r.slow)] IN
    IF ~Warm({r.fast, r.slow}) \/ st.fast = Unset \/ st.slow = Unset THEN Stay(now)
    ELSE Decide(now, CrossedAbove(st.fast[1], st.slow[1], r.fast, r.slow)
                     /\ (r.chop = None \/ r.chop < 1),
                CrossedBelow(st.fast[1], st.slow[1], r.fast, r.slow))
ChopFilterStrategyScript(sc, h) ==
    Script(sc, h.fast[2] <= h.slow[2] /\ h.fast[1] > h.slow[1] /\ h.chop[1] < 1,
           h.fast[2] >= h.slow[2] /\ h.fast[1] < h.slow[1])

EquilibriumExplorerNew ==
    New([close |-> In(5, Cmp, 1), k |-> In(1, Two, 1), histogram |-> In(3, Cmp, 1)],
        Unset, Unset)
EquilibriumExplorer(st, r) ==
    IF ~Warm({r.close, r.k, r.histogram}) THEN Stay(st)
    ELSE Decide(st, r.close > 1 /\ r.k < 1 /\ r.histogram > 1, r.k > 3 \/ r.histogram < 1)
EquilibriumExplorerScript(sc, h) ==
    Script(sc, h.close[1] > 1 /\ h.k[1] < 1 /\ h.histogram[1] > 1,
           h.k[1] > 3 \/ h.histogram[1] < 1)

\* band: lower line 1, upper line 3.  min_bars is 2 here (4 in the code):
\* the counter is only compared with it.
MeanReversionNew ==
    New([band |-> In(1, Two, 2), rsi |-> In(1, Cmp, 2)],
        [below |-> 0, in_position |-> FALSE], [below |-> 0, in_position |-> FALSE])
MeanReversionStep(s, band, rsi) ==
    LET exit == s.in_position /\ (band >= 3 \/ rsi > 1)
        long == ~s.in_position /\ band > 1 /\ s.below >= 2 IN
    [st |-> CASE exit -> [below |-> 0, in_position |-> FALSE]
              [] s.in_position /\ ~exit -> s
              [] ~s.in_position /\ band < 1 ->
                     [s EXCEPT !.below = IF @ < 2 THEN @ + 1 ELSE 2]
              [] OTHER -> [below |-> 0, in_position |-> long],
     long |-> long, exit |-> exit]
MeanReversion(st, r) ==
    LET d == MeanReversionStep(st, r.band, r.rsi) IN
    IF ~Warm({r.band, r.rsi}) THEN Stay(st) ELSE Decide(d.st, d.long, d.exit)
MeanReversionScript(sc, h) ==
    LET d == MeanReversionStep(sc, h.band[1], h.rsi[1]) IN Script(d.st, d.long, d.exit)

OscillatorOverlordNew ==
    New([rsi |-> In(1, Two, 1), k |-> In(3, Two, 1), cci |-> In(5, Two, 1)],
        [in_position |-> FALSE], [in_position |-> FALSE])
OverlordStep(s, values) ==
    LET os_count == Cardinality({i \in DOMAIN values : values[i] < 1})
        ob_count == Cardinality({i \in DOMAIN values : values[i] > 3})
        long == ~s.in_position /\ os_count >= 2
        exit == s.in_position /\ ob_count >= 2 IN
    [st |-> [in_position |-> long \/ (s.in_position /\ ~exit)], long |-> long, exit |-> exit]
OscillatorOverlord(st, r) ==
    LET d == OverlordStep(st, <<r.rsi, r.k, r.cci>>) IN
    IF ~Warm({r.rsi, r.k, r.cci}) THEN Stay(st) ELSE Decide(d.st, d.long, d.exit)
OscillatorOverlordScript(sc, h) ==
    LET d == OverlordStep(sc, <<h.rsi[1], h.k[1], h.cci[1]>>) IN Script(d.st, d.long, d.exit)

\* The three pixels: the close against the midpoint of each window.
Pixel3New ==
    New([short |-> In(1, Cmp, 1), medium |-> In(3, Cmp, 1), long |-> In(5, Cmp, 1)],
        Unset, Unset)
Greens(values) == Cardinality({i \in DOMAIN values : values[i] > 1})
Pixel3(st, r) ==
    LET green_count == Greens(<<r.short, r.medium, r.long>>) IN
    IF ~Warm({r.long}) THEN Stay(st) ELSE Decide(st, green_count >= 2, green_count = 0)
Pixel3Script(sc, h) ==
    LET green_count == Greens(<<h.short[1], h.medium[1], h.long[1]>>) IN
    Script(sc, green_count >= 2, green_count = 0)

\* 50 is level 1, 70 is level 3; the oscillator warms up one bar after RSI.
ReversalCatcherNew ==
    New([k |-> In(2, Cmp, 2), d |-> In(2, Cmp, 2), rsi |-> In(1, Two, 1)], Unset, Unset)
ReversalCatcher(st, r) ==
    IF ~Warm({r.k, r.rsi}) THEN Stay(st)
    ELSE IF st = Unset THEN Stay(<<r.k, r.d>>)
    ELSE Decide(<<r.k, r.d>>, CrossedAbove(st[1], st[2], r.k, r.d) /\ r.rsi < 1,
                CrossedBelow(st[1], st[2], r.k, r.d) \/ r.rsi > 3)
ReversalCatcherScript(sc, h) ==
    Script(sc, h.k[2] <= h.d[2] /\ h.k[1] > h.d[1] /\ h.rsi[1] < 1,
           (h.k[2] >= h.d[2] /\ h.k[1] < h.d[1]) \/ h.rsi[1] > 3)

\* prev_cci is only remembered once ADX is warm too; the script's buffer of
\* CCI fills while ADX is still warming up.
SwingTraderNew == New([cci |-> In(1, Two, 2), adx |-> In(3, Cmp, 1)], Unset, Unset)
SwingTrader(st, r) ==
    IF ~Warm({r.cci, r.adx}) THEN Stay(st)
    ELSE IF st = Unset THEN Stay(<<r.cci>>)
    ELSE Decide(<<r.cci>>, st[1] <= 3 /\ r.cci > 3 /\ r.adx > 1, st[1] >= 1 /\ r.cci < 1)
SwingTraderScript(sc, h) ==
    Script(sc, h.cci[2] <= 3 /\ h.cci[1] > 3 /\ h.adx[1] > 1, h.cci[2] >= 1 /\ h.cci[1] < 1)

WolfsteinNew ==
    New([adx |-> In(3, Two, 1), plus |-> In(1, Cmp, 1), minus |-> In(1, Cmp, 1)],
        Unset, Unset)
Wolfstein(st, r) ==
    IF ~Warm({r.adx}) THEN Stay(st)
    ELSE Decide(st, r.adx > 3 /\ r.plus > r.minus, r.adx < 1)
WolfsteinScript(sc, h) ==
    Script(sc, h.adx[1] > 3 /\ h.plus[1] > h.minus[1], h.adx[1] < 1)
=============================================================================
