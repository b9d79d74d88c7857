---------------------------- MODULE ReportMetrics ----------------------------
(***************************************************************************)
(* The report of a backtest (crate alm-report): what its single passes over  *)
(* the equity curve and the closed trades compute.  Money is a whole number  *)
(* and a ratio a fraction <<numerator, denominator>>; roots, and the factors *)
(* of 100 that turn a fraction into a percentage, are left out.              *)
(***************************************************************************)
EXTENDS Integers, Sequences, SequencesExt, FiniteSets, FiniteSetsExt

CONSTANTS
    Subjects,       \* what a behaviour builds up: "curve", "trades", "calendar"
    Equities,       \* equity of a point of the curve
    Gaps,           \* time between two of its points
    PerDay,         \* units of time in a day
    MaxPoints,      \* bound on its length
    InitialCapital,
    Pnls,           \* profit of a trade
    MaxTrades,      \* bound on the trades
    Starts,         \* first days: [day, year], a 1st of January
    MaxDays         \* bound on the days the calendar walks

ASSUME MetricsAssumption ==
    /\ Equities \subseteq Nat \ {0} /\ InitialCapital \in Nat \ {0}
    /\ PerDay \in Nat \ {0} /\ MaxPoints \in Nat /\ MaxTrades \in Nat /\ MaxDays \in Nat

VARIABLES
    subject,
    curve,      \* equity_curve: [ts, equity]
    closed,     \* trades: [pnl, side]
    date        \* a walk through the calendar: [day, year, month, dom]

metricsVars == <<subject, curve, closed, date>>

-----------------------------------------------------------------------------
(* Fractions                                                               *)

QLess(a, b) == a[1] * b[2] < b[1] * a[2]
QEq(a, b) == a[1] * b[2] = b[1] * a[2]
QAdd(a, b) == IF a[2] = b[2] THEN <<a[1] + b[1], a[2]>> ELSE <<a[1] * b[2] + b[1] * a[2], a[2] * b[2]>>
QMul(a, b) == <<a[1] * b[1], a[2] * b[2]>>
QMax(a, b) == IF QLess(a, b) THEN b ELSE a
QZero == <<0, 1>>
QSum(s) == FoldLeft(QAdd, QZero, s)
QProduct(s) == FoldLeft(QMul, <<1, 1>>, s)

Gained(from, to) == <<to - from, from>>     \* (to - from) / from

-----------------------------------------------------------------------------
(* The equity curve                                                        *)

Equity == [i \in DOMAIN curve |-> curve[i].equity]

\* bar_returns.
Bar_returns(equity) == [i \in 1..(Len(equity) - 1) |-> Gained(equity[i], equity[i+1])]

DdStart(equity) == [i |-> 0, peak |-> equity[1], from |-> 0, max |-> QZero, bars |-> 0, sum |-> QZero, count |-> 0]

\* One turn of drawdown_stats's loop.
DdStep(s, eq) ==
    LET peak == Max({s.peak, eq})
        dd == <<peak - eq, peak>>
    IN  [s EXCEPT !.i = @ + 1, !.peak = peak, !.from = IF eq >= s.peak THEN s.i ELSE @,
                  !.bars = IF eq < s.peak THEN Max({@, s.i - s.from}) ELSE @,
                  !.max = QMax(@, dd),
                  !.sum = IF dd[1] > 0 THEN QAdd(@, dd) ELSE @,
                  !.count = IF dd[1] > 0 THEN @ + 1 ELSE @]

Drawdown_stats(equity) ==
    LET s == FoldLeft(DdStep, DdStart(equity), equity)
    IN  [max |-> s.max, bars |-> s.bars,
         avg |-> IF s.count > 0 THEN <<s.sum[1], s.sum[2] * s.count>> ELSE QZero]

\* rolling_drawdown, and the terms of ulcer_index's sum.
Rolling_drawdown(equity) ==
    [i \in DOMAIN equity |-> LET peak == Max({equity[j] : j \in 1..i}) IN <<peak - equity[i], peak>>]

\* Days in order, each with the last equity of it: the BTreeMap of
\* aggregate_to_daily, its keys and values.
Day(p) == p.ts \div PerDay
KeysOf(Key(_)) == SetToSortSeq({Key(curve[i]) : i \in DOMAIN curve}, LAMBDA a, b : a < b)
LastOf(Key(_), k) == curve[Max({i \in DOMAIN curve : Key(curve[i]) = k})].equity

\* aggregate_to_daily: the initial capital goes before the first day.
Aggregate_to_daily == <<InitialCapital>> \o [i \in DOMAIN KeysOf(Day) |-> LastOf(Day, KeysOf(Day)[i])]

\* Mutant: every fourth year is taken for a leap year.
CivilMonthJulian(day) ==
    LET z == day + 719468
        era == z \div 146097
        doe == z - era * 146097
        yoe == (doe - doe \div 1460) \div 365
        doy == doe - (365 * yoe + yoe \div 4)
        mp == (5 * doy + 2) \div 153
        month == IF mp < 10 THEN mp + 3 ELSE mp - 9
    IN  [year |-> yoe + era * 400 + (IF month <= 2 THEN 1 ELSE 0), month |-> month]

\* ts_to_year_month, of a day since 1970: years begin in March.
Ts_to_year_month(day) ==
    LET z == day + 719468
        era == z \div 146097
        doe == z - era * 146097
        yoe == (doe - doe \div 1460 + doe \div 36524 - doe \div 146096) \div 365
        doy == doe - (365 * yoe + yoe \div 4 - yoe \div 100)
        mp == (5 * doy + 2) \div 153
        month == IF mp < 10 THEN mp + 3 ELSE mp - 9
    IN  [year |-> yoe + era * 400 + (IF month <= 2 THEN 1 ELSE 0), month |-> month]

MonthKey(p) == LET c == Ts_to_year_month(Day(p)) IN 12 * c.year + c.month - 1

\* monthly_returns: from the end of one month that has points to the end of the
\* next; the first month has none.
Monthly_returns ==
    LET keys == KeysOf(MonthKey)
    IN  [i \in 1..(Len(keys) - 1) |->
            [year |-> keys[i+1] \div 12,
             ret |-> Gained(LastOf(MonthKey, keys[i]), LastOf(MonthKey, keys[i+1]))]]

Growth(ret) == <<ret[1] + ret[2], ret[2]>>      \* 1 + ret

\* yearly_returns: the months of a year compounded.
YearOf(monthly, y) == SelectSeq(monthly, LAMBDA m : m.year = y)
Yearly_growth(monthly, y) == QProduct([i \in DOMAIN YearOf(monthly, y) |-> Growth(YearOf(monthly, y)[i].ret)])
YearsOf(monthly) == SetToSortSeq({monthly[i].year : i \in DOMAIN monthly}, LAMBDA a, b : a < b)

-----------------------------------------------------------------------------
(* Returns                                                                 *)

QSorted(s) == SortSeq(s, QLess)

\* percentile_interpolated, p as a fraction.
Percentile(sorted, p) ==
    LET n == Len(sorted)
        low == (p[1] * (n - 1)) \div p[2]
        rest == <<p[1] * (n - 1) - low * p[2], p[2]>>
    IN  IF n = 0 THEN QZero
        ELSE IF n = 1 THEN sorted[1]
        ELSE IF rest[1] = 0 THEN sorted[low + 1]
        ELSE QAdd(sorted[low + 1],
                  QMul(rest, QAdd(sorted[low + 2], <<-sorted[low + 1][1], sorted[low + 1][2]>>)))

QMean(s) == IF s = <<>> THEN QZero ELSE LET t == QSum(s) IN <<t[1], t[2] * Len(s)>>

\* var_cvar_95, of two returns or more.
Var_cvar_95(returns) ==
    LET var == Percentile(QSorted(returns), <<1, 20>>)
    IN  [var |-> var, cvar |-> QMean(SelectSeq(QSorted(returns), LAMBDA x : ~QLess(var, x)))]

\* omega_ratio at threshold 0: gains and losses.
Omega(returns) ==
    [gains |-> QSum(SelectSeq(returns, LAMBDA r : r[1] > 0)),
     losses |-> QSum([i \in DOMAIN SelectSeq(returns, LAMBDA r : r[1] < 0) |->
                         LET r == SelectSeq(returns, LAMBDA q : q[1] < 0)[i] IN <<-r[1], r[2]>>])]

-----------------------------------------------------------------------------
(* The trades                                                              *)

Is_winner(t) == t.pnl > 0
Winners(ts) == SelectSeq(ts, LAMBDA t : Is_winner(t))
Losers(ts) == SelectSeq(ts, LAMBDA t : ~Is_winner(t))
Total(ts) == FoldLeft(LAMBDA a, t : a + t.pnl, 0, ts)

\* gross_profit_loss_usd.
Gross_profit(ts) == Total(Winners(ts))
Gross_loss(ts) == FoldLeft(LAMBDA a, t : a + (IF t.pnl < 0 THEN -t.pnl ELSE t.pnl), 0, Losers(ts))

Average(sum, n) == IF n = 0 THEN QZero ELSE <<sum, InitialCapital * n>>

\* trade_stats and side_stats, of one trade or more.
Trade_stats(ts) ==
    LET wins == Len(Winners(ts))
        avg_win == Average(Gross_profit(ts), wins)
        avg_loss == Average(Gross_loss(ts), Len(Losers(ts)))
    IN  [count |-> Len(ts), win_rate |-> <<wins, Len(ts)>>, avg_win |-> avg_win, avg_loss |-> avg_loss,
         expectancy |-> QAdd(QMul(<<wins, Len(ts)>>, avg_win),
                             QMul(<<wins - Len(ts), Len(ts)>>, avg_loss))]

\* direction_stats.
OfSide(side) == SelectSeq(closed, LAMBDA t : t.side = side)

\* payoff_ratio and breakeven_win_rate, where there are losses; kelly_pct before
\* its clamp, where there are gains too.
Payoff_ratio(s) == <<s.avg_win[1] * s.avg_loss[2], s.avg_win[2] * s.avg_loss[1]>>
Breakeven_win_rate(payoff) == <<payoff[2], payoff[1] + payoff[2]>>
Kelly_pct(s) ==
    LET r == Payoff_ratio(s)
        lose == <<s.win_rate[1] - s.win_rate[2], s.win_rate[2]>>
    IN  QAdd(s.win_rate, QMul(lose, <<r[2], r[1]>>))

\* max_consecutive_losses and max_consecutive_wins.
Streak(Hit(_)) ==
    FoldLeft(LAMBDA s, t : IF Hit(t) THEN [run |-> s.run + 1, max |-> Max({s.max, s.run + 1})]
                           ELSE [s EXCEPT !.run = 0],
             [run |-> 0, max |-> 0], closed).max

Max_consecutive_wins == Streak(Is_winner)
Max_consecutive_losses == Streak(LAMBDA t : ~Is_winner(t))

\* largest_win_loss: folds that begin at 0.
Largest(ts) == Max({0} \cup {IF ts[i].pnl < 0 THEN -ts[i].pnl ELSE ts[i].pnl : i \in DOMAIN ts})

-----------------------------------------------------------------------------
(* What is reported on                                                     *)

MetricsInit ==
    /\ subject \in Subjects
    /\ curve = <<>> /\ closed = <<>>
    /\ \E s \in Starts : date = [day |-> s.day, year |-> s.year, month |-> 1, dom |-> 1]

AddPoint ==
    /\ subject = "curve" /\ Len(curve) < MaxPoints
    /\ \E e \in Equities, gap \in Gaps :
        curve' = Append(curve, [equity |-> e,
                                ts |-> IF curve = <<>> THEN date.day * PerDay
                                       ELSE curve[Len(curve)].ts + gap])
    /\ UNCHANGED <<subject, closed, date>>

CloseTrade ==
    /\ subject = "trades" /\ Len(closed) < MaxTrades
    /\ \E pnl \in Pnls, side \in {"buy", "sell"} : closed' = Append(closed, [pnl |-> pnl, side |-> side])
    /\ UNCHANGED <<subject, curve, date>>

\* The Gregorian calendar.
Leap(y) == y % 4 = 0 /\ (y % 100 # 0 \/ y % 400 = 0)
DaysIn(y, m) ==
    IF m = 2 THEN (IF Leap(y) THEN 29 ELSE 28)
    ELSE IF m \in {4, 6, 9, 11} THEN 30 ELSE 31

NextDay ==
    /\ subject = "calendar"
    /\ \E s \in Starts : s.day <= date.day /\ date.day < s.day + MaxDays
    /\ date' = IF date.dom < DaysIn(date.year, date.month)
               THEN [date EXCEPT !.day = @ + 1, !.dom = @ + 1]
               ELSE IF date.month < 12
               THEN [date EXCEPT !.day = @ + 1, !.dom = 1, !.month = @ + 1]
               ELSE [day |-> date.day + 1, year |-> date.year + 1, month |-> 1, dom |-> 1]
    /\ UNCHANGED <<subject, curve, closed>>

MetricsNext == AddPoint \/ CloseTrade \/ NextDay

MetricsSpec == MetricsInit /\ [][MetricsNext]_metricsVars

-----------------------------------------------------------------------------
(* Properties                                                              *)

Pairs(s) == (DOMAIN s) \X (DOMAIN s)
QMaxOf(S) == CHOOSE x \in S : \A y \in S : ~QLess(x, y)

\* The falls of the curve, from a point to a later one.
Falls == {p \in Pairs(curve) : p[1] <= p[2]}
Fall(p) == <<Equity[p[1]] - Equity[p[2]], Equity[p[1]]>>

\* The three ways a report measures losses from the peak agree: drawdown_stats'
\* one pass finds the deepest fall between any two points, which is the largest
\* of rolling_drawdown; and the average lies below the maximum.
DrawdownsAgree ==
    curve # <<>> =>
        LET stats == Drawdown_stats(Equity)
        IN  /\ QEq(stats.max, QMaxOf({Fall(p) : p \in Falls}))
            /\ QEq(stats.max, QMaxOf(Range(Rolling_drawdown(Equity))))
            /\ ~QLess(stats.max, stats.avg)

\* Claimed by drawdown_stats ("max_dd_bars is the number of bars from peak to the
\* deepest trough") and by the metric's description ("Does not include recovery
\* time"): the duration is that of a deepest fall.  Refuted: the code counts the
\* longest time below a peak, the way back and other drawdowns included.
DurationOfDeepest ==
    curve # <<>> =>
        LET stats == Drawdown_stats(Equity)
        IN  stats.bars \in {p[2] - p[1] : p \in {q \in Falls : QEq(Fall(q), stats.max)}}

\* Daily returns lose nothing: with the initial capital before the first day they
\* compound to the whole run's return, however many points a day has.
DailyCompounds ==
    curve # <<>> =>
        LET daily == Bar_returns(Aggregate_to_daily)
        IN  QEq(QProduct([i \in DOMAIN daily |-> Growth(daily[i])]),
                <<curve[Len(curve)].equity, InitialCapital>>)

\* The years a report lists compound to the run's return since the end of its
\* first month: no month is counted twice or in a year it is not of.
YearsCompound ==
    curve # <<>> =>
        LET monthly == Monthly_returns
            years == YearsOf(monthly)
        IN  QEq(QProduct([i \in DOMAIN years |-> Yearly_growth(monthly, years[i])]),
                <<curve[Len(curve)].equity, LastOf(MonthKey, KeysOf(MonthKey)[1])>>)

\* The tail behind VaR is never empty and its mean is no better than VaR; both
\* lie between the worst return and the best; and the gains outweigh the losses
\* in omega exactly when the returns sum to more than nothing.
TailsInOrder ==
    LET returns == Bar_returns(Aggregate_to_daily)
        tails == Var_cvar_95(returns)
        omega == Omega(returns)
    IN  Len(returns) >= 2 =>
            /\ ~QLess(tails.var, tails.cvar)
            /\ ~QLess(tails.cvar, QSorted(returns)[1])
            /\ ~QLess(QSorted(returns)[Len(returns)], tails.var)
            /\ QLess(omega.losses, omega.gains) <=> QSum(returns)[1] > 0

\* Expectancy, put together from four averages, is the mean profit of a trade over
\* the capital; what the winners and the losers made adds up; the sides split the
\* trades.
TradesAddUp ==
    closed # <<>> =>
        /\ QEq(Trade_stats(closed).expectancy, <<Total(closed), InitialCapital * Len(closed)>>)
        /\ Gross_profit(closed) - Gross_loss(closed) = Total(closed)
        /\ Len(OfSide("buy")) + Len(OfSide("sell")) = Len(closed)
        /\ Total(OfSide("buy")) + Total(OfSide("sell")) = Total(closed)

\* The four verdicts on a strategy's edge agree wherever they are defined: win
\* rate above break-even, positive Kelly fraction, profit factor above one and
\* positive expectancy.
EdgeAgrees ==
    Gross_profit(closed) > 0 /\ Gross_loss(closed) > 0 =>
        LET s == Trade_stats(closed)
            edge == Gross_profit(closed) > Gross_loss(closed)
        IN  /\ QLess(Breakeven_win_rate(Payoff_ratio(s)), s.win_rate) <=> edge
            /\ Kelly_pct(s)[1] > 0 <=> edge
            /\ s.expectancy[1] > 0 <=> edge

\* The streaks are the longest stretches of one outcome, and the largest win and
\* loss bound the averages.
StreaksLongest ==
    LET runs(Hit(_)) == {p \in Pairs(closed) :
                            p[1] <= p[2] /\ \A i \in p[1]..p[2] : Hit(closed[i])}
        longest(Hit(_)) == Max({0} \cup {p[2] - p[1] + 1 : p \in runs(Hit)})
    IN  /\ Max_consecutive_wins = longest(Is_winner)
        /\ Max_consecutive_losses = longest(LAMBDA t : ~Is_winner(t))
        /\ Gross_profit(closed) <= Largest(Winners(closed)) * Len(Winners(closed))
        /\ Gross_loss(closed) <= Largest(Losers(closed)) * Len(Losers(closed))

\* The report's own calendar arithmetic agrees with the Gregorian calendar, leap
\* and secular years included.
CalendarAgrees == Ts_to_year_month(date.day) = [year |-> date.year, month |-> date.month]

\* The report's one-pass metrics are the ones their definitions give.
ReportAgrees ==
    /\ DrawdownsAgree /\ DailyCompounds /\ YearsCompound /\ TailsInOrder
    /\ TradesAddUp /\ EdgeAgrees /\ StreaksLongest /\ CalendarAgrees
=============================================================================
