-------------------------- MODULE IndicatorValues ---------------------------
(***************************************************************************)
(* The values of the indicators whose state is more than a window: the     *)
(* monotonic deques of RollingMax and RollingMin (util.rs), which Donchian,*)
(* Williams %R, Stochastic and KDJ use; the bands of SuperTrend; and the   *)
(* session sums of Vwap.  Prices are small integers.                       *)
(***************************************************************************)
EXTENDS Integers, Sequences, SequencesExt, FiniteSetsExt

CONSTANTS
    Levels,     \* prices
    Periods,    \* the periods of the rolling windows
    Widths,     \* the half width of SuperTrend's bands: multiplier * ATR
    MaxBars     \* bars fed to one indicator (Vwap only: its sums are unbounded)

VARIABLES
    kind,       \* the indicator: "rolling", "supertrend", "vwap", or "none"
    st,         \* its state
    fed,        \* the bars it was fed, as many as a property looks back
    out         \* what its last update returned: << >> for nothing

valueVars == <<kind, st, fed, out>>

Candles == {b \in [high : Levels, low : Levels, close : Levels]
                : b.low <= b.close /\ b.close <= b.high}
-----------------------------------------------------------------------------
\* RollingMax / RollingMin.  An entry of the deque keeps its value and its
\* age, which is the distance of its index from the newest one.
RollingNew(period) == [max |-> <<>>, min |-> <<>>, count |-> 0, period |-> period]

Aged(deque) == [i \in DOMAIN deque |-> [deque[i] EXCEPT !.age = @ + 1]]

\* The front entries that left the window are dropped.
EvictLate(deque, period) ==
    LET inside == {i \in DOMAIN deque : deque[i].age <= period}
    IN  SubSeq(deque, Min(inside), Len(deque))
Evict(deque, period) ==
    LET inside == {i \in DOMAIN deque : deque[i].age < period}
    IN  SubSeq(deque, Min(inside), Len(deque))

\* The back entries that the new value beats or ties are dropped first.
RollingMaxPush(deque, val, period) ==
    LET better == {i \in DOMAIN deque : deque[i].val > val} \cup {0}
    IN  Evict(Append(Aged(SubSeq(deque, 1, Max(better))), [val |-> val, age |-> 0]), period)
RollingMinPush(deque, val, period) ==
    LET better == {i \in DOMAIN deque : deque[i].val < val} \cup {0}
    IN  Evict(Append(Aged(SubSeq(deque, 1, Max(better))), [val |-> val, age |-> 0]), period)

RollingUpdate(b) ==
    LET p == st.period
        max == RollingMaxPush(st.max, b.high, p)
        min == RollingMinPush(st.min, b.low, p)
        n == IF st.count < p THEN st.count + 1 ELSE p
    IN  /\ kind = "rolling"
        /\ st' = [st EXCEPT !.max = max, !.min = min, !.count = n]
        /\ out' = IF n >= p THEN <<Head(max).val, Head(min).val>> ELSE <<>>
        /\ fed' = LET all == Append(fed, b)
                  IN  IF Len(all) > p THEN Tail(all) ELSE all
        /\ UNCHANGED kind
-----------------------------------------------------------------------------
\* SuperTrend, on the doubled prices of the mid point (high + low); the ATR
\* is any width.
SuperTrendNew == [lower |-> 0, upper |-> 0, trend |-> "unset"]

SuperTrendUpdate(b, width) ==
    LET basic_lower == b.high + b.low - width
        basic_upper == b.high + b.low + width
        close == 2 * b.close
        to(lower, upper, trend) == [lower |-> lower, upper |-> upper, trend |-> trend]
        next ==
            CASE st.trend = "unset" ->
                     to(basic_lower, basic_upper, IF close > basic_lower THEN "bullish" ELSE "bearish")
              [] st.trend = "bullish" /\ close < st.lower ->
                     to(basic_lower, basic_upper, "bearish")
              [] st.trend = "bullish" /\ close >= st.lower ->
                     to(IF basic_lower > st.lower THEN basic_lower ELSE st.lower, basic_upper, "bullish")
              [] st.trend = "bearish" /\ close > st.upper ->
                     to(basic_lower, basic_upper, "bullish")
              [] OTHER ->
                     to(basic_lower, IF basic_upper < st.upper THEN basic_upper ELSE st.upper, "bearish")
    IN  /\ kind = "supertrend"
        /\ st' = next
        /\ out' = <<next.trend, IF next.trend = "bullish" THEN next.lower ELSE next.upper>>
        /\ fed' = <<[close |-> close, half |-> b.high - b.low, width |-> width]>>
        /\ UNCHANGED kind
-----------------------------------------------------------------------------
\* Vwap: a gap between two bars longer than the session gap starts a session.
\* The typical price is an integer here; volume may be zero.
VwapNew == [cum_tpv |-> 0, cum_vol |-> 0, started |-> FALSE]

VwapUpdate(price, volume, gap) ==
    LET fresh == st.started /\ gap
        cum_tpv == (IF fresh THEN 0 ELSE st.cum_tpv) + price * volume
        cum_vol == (IF fresh THEN 0 ELSE st.cum_vol) + volume
    IN  /\ kind = "vwap"
        /\ Len(fed) < MaxBars
        /\ st' = [cum_tpv |-> cum_tpv, cum_vol |-> cum_vol, started |-> TRUE]
        /\ out' = IF cum_vol > 0 THEN <<cum_tpv, cum_vol>> ELSE <<price, 1>>
        /\ fed' = Append(fed, [price |-> price, volume |-> volume, gap |-> gap])
        /\ UNCHANGED kind
-----------------------------------------------------------------------------
ValueInit ==
    /\ fed = <<>> /\ out = <<>>
    /\ \/ kind = "rolling" /\ \E p \in Periods : st = RollingNew(p)
       \/ kind = "supertrend" /\ st = SuperTrendNew
       \/ kind = "vwap" /\ st = VwapNew
       \/ kind = "none" /\ st = <<>>

\* reset(): the state of a new indicator.
ValueReset ==
    /\ kind /= "none" /\ out /= <<>>
    /\ st' = CASE kind = "rolling" -> RollingNew(st.period)
               [] kind = "supertrend" -> SuperTrendNew
               [] kind = "vwap" -> VwapNew
    /\ fed' = <<>> /\ out' = <<>>
    /\ UNCHANGED kind

ValueNext ==
    \/ \E b \in Candles : RollingUpdate(b)
    \/ \E b \in Candles, w \in Widths : SuperTrendUpdate(b, w)
    \/ \E p \in Levels, v \in 0..1, gap \in BOOLEAN : VwapUpdate(p, v, gap)
    \/ ValueReset

ValueSpec == ValueInit /\ [][ValueNext]_valueVars
-----------------------------------------------------------------------------
\* The rolling extremes are those of exactly the last period bars, and they
\* are there as soon as that many bars were pushed.
RollingExtremes ==
    kind = "rolling" =>
        IF Len(fed) < st.period THEN out = <<>>
        ELSE out = <<Max({fed[i].high : i \in DOMAIN fed}), Min({fed[i].low : i \in DOMAIN fed})>>

\* SuperTrend's line supports a bullish price and caps a bearish one, as long
\* as the band is no narrower than the bar.
SuperTrendSide ==
    kind = "supertrend" /\ fed /= <<>> /\ fed[1].width >= fed[1].half =>
        IF out[1] = "bullish" THEN out[2] <= fed[1].close ELSE out[2] >= fed[1].close

\* A trend that lasts only ever tightens the line.
SuperTrendTightens ==
    [][kind = "supertrend" /\ out /= <<>> /\ out' /= <<>> =>
           /\ out[1] = "bullish" /\ out'[1] = "bullish" => out'[2] >= out[2]
           /\ out[1] = "bearish" /\ out'[1] = "bearish" => out'[2] <= out[2]]_valueVars

\* The bars since the last session gap (a gap before the first bar counts for
\* nothing, there is no bar to measure it from).
Session ==
    LET starts == {i \in 2..Len(fed) : fed[i].gap} \cup {1}
    IN  SubSeq(fed, Max(starts), Len(fed))

\* VWAP is the volume-weighted price of the bars of the current session, and
\* the price itself while the session has no volume.
VwapOfSession ==
    kind = "vwap" /\ fed /= <<>> =>
        LET vol == FoldLeft(LAMBDA a, b : a + b.volume, 0, Session)
            tpv == FoldLeft(LAMBDA a, b : a + b.price * b.volume, 0, Session)
        IN  out = IF vol > 0 THEN <<tpv, vol>> ELSE <<fed[Len(fed)].price, 1>>
=============================================================================
