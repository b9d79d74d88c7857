------------------------------ MODULE Patterns -------------------------------
(*************************************************************************)
(* The detectors of crate alm-pattern: candlesticks and chart patterns.  *)
(*************************************************************************)
EXTENDS Integers, Sequences, SequencesExt, FiniteSets, FiniteSetsExt

(***************************************************************************)
(* The candlestick detectors (crate alm-pattern, candlestick.rs) over the   *)
(* last bars of a window.  Ratios are compared by cross-multiplication; a   *)
(* detector is a predicate of the window, its confidence is left out.       *)
(***************************************************************************)

CONSTANTS
    Sticks,     \* the bars that may come: [o, h, l, c]
    Openings,   \* what the window holds when the run starts
    MaxSticks   \* length of the window

VARIABLE sticks

AbsDiff(a, b) == IF a > b THEN a - b ELSE b - a
Top(b) == IF b.o > b.c THEN b.o ELSE b.c
Bottom(b) == IF b.o > b.c THEN b.c ELSE b.o

\* body_ratio, upper_shadow_ratio and lower_shadow_ratio are these parts of the
\* range, and 0 for a bar without one.
Body(b) == AbsDiff(b.c, b.o)
UpperShadow(b) == b.h - Top(b)
LowerShadow(b) == Bottom(b) - b.l
Below(part, b, percent) == b.h = b.l \/ 100 * part < percent * (b.h - b.l)
Above(part, b, percent) == b.h /= b.l /\ 100 * part > percent * (b.h - b.l)

Is_bullish(b) == b.c >= b.o
Is_bearish(b) == b.c < b.o

Bar(w, back) == w[Len(w) - back]

Doji(w) == Below(Body(Bar(w, 0)), Bar(w, 0), 10)

\* The close the trend is judged from: four bars back, or the oldest.
Prev_close(w) == IF Len(w) >= 5 THEN Bar(w, 4).c ELSE w[1].c

HammerShape(b) ==
    Below(UpperShadow(b), b, 20) /\ Above(LowerShadow(b), b, 60) /\ Below(Body(b), b, 35)
Hammer(w) == HammerShape(Bar(w, 0)) /\ Bar(w, 0).c < Prev_close(w)
HangingMan(w) == HammerShape(Bar(w, 0)) /\ Bar(w, 0).c >= Prev_close(w)

StarShape(b) ==
    Above(UpperShadow(b), b, 60) /\ Below(LowerShadow(b), b, 20) /\ Below(Body(b), b, 35)

ShootingStar(w) == StarShape(Bar(w, 0)) /\ Bar(w, 0).c > Prev_close(w)
InvertedHammer(w) == StarShape(Bar(w, 0)) /\ Bar(w, 0).c <= Prev_close(w)

MarubozuBull(w) == Above(Body(Bar(w, 0)), Bar(w, 0), 95) /\ Is_bullish(Bar(w, 0))
MarubozuBear(w) == Above(Body(Bar(w, 0)), Bar(w, 0), 95) /\ Is_bearish(Bar(w, 0))

\* EngulfingDetector: the body strictly covers the body before it.
Covers(w) ==
    /\ Len(w) >= 2
    /\ Top(Bar(w, 0)) > Top(Bar(w, 1)) /\ Bottom(Bar(w, 0)) < Bottom(Bar(w, 1))
EngulfingBull(w) == Covers(w) /\ Is_bullish(Bar(w, 0)) /\ Is_bearish(Bar(w, 1))
EngulfingBear(w) == Covers(w) /\ Is_bearish(Bar(w, 0)) /\ Is_bullish(Bar(w, 1))

\* The sum of the bodies MorningStarDetector averages: the seven bars before the
\* pattern.  The slice bars[n - 10..n - 3] is taken first, so with fewer than
\* ten bars the detector panics, though its min_lookback is 3.
Slices(w) == Len(w) >= 10
Bodies(w) == FoldSeq(LAMBDA b, sum : Body(b) + sum, 0, SubSeq(w, Len(w) - 9, Len(w) - 3))

MorningStar(w) ==
    LET first == Bar(w, 2)  mid == Bar(w, 1)  last == Bar(w, 0)
        floor == IF first.c < last.o THEN first.c ELSE last.o
    IN  /\ Is_bearish(first) /\ 14 * Body(first) > Bodies(w)
        /\ Below(Body(mid), mid, 40)
        /\ 70 * (mid.h - floor) < 3 * Bodies(w)
        /\ Is_bullish(last) /\ 2 * last.c > first.o + first.c

\* EveningStarDetector is not the mirror of it: the average is the oldest bar's
\* body, and no gap is asked for.
EveningStar(w) ==
    LET first == Bar(w, 2)  mid == Bar(w, 1)  last == Bar(w, 0)
    IN  /\ Is_bullish(first) /\ 2 * Body(first) > Body(w[1])
        /\ Below(Body(mid), mid, 40)
        /\ Is_bearish(last) /\ 2 * last.c < first.o + first.c

ThreeWhiteSoldiers(w) ==
    LET a == Bar(w, 2)  b == Bar(w, 1)  c == Bar(w, 0)
    IN  /\ \A x \in {a, b, c} : Is_bullish(x) /\ Above(Body(x), x, 50)
        /\ b.c > a.c /\ c.c > b.c
        /\ b.o > a.o /\ b.o < a.c /\ c.o > b.o /\ c.o < b.c

ThreeBlackCrows(w) ==
    LET a == Bar(w, 2)  b == Bar(w, 1)  c == Bar(w, 0)
    IN  /\ \A x \in {a, b, c} : Is_bearish(x) /\ Above(Body(x), x, 50)
        /\ b.c < a.c /\ c.c < b.c
        /\ b.o < a.o /\ b.o > a.c /\ c.o < b.o /\ c.o > b.c

\* What the detectors report on a window, each from its min_lookback on; "panic"
\* when one of them indexes outside the window.
CandleDetect(w) ==
    (IF Doji(w) THEN {"Doji"} ELSE {})
    \cup (IF Hammer(w) THEN {"Hammer"} ELSE {}) \cup (IF HangingMan(w) THEN {"HangingMan"} ELSE {})
    \cup (IF ShootingStar(w) THEN {"ShootingStar"} ELSE {})
    \cup (IF InvertedHammer(w) THEN {"InvertedHammer"} ELSE {})
    \cup (IF MarubozuBull(w) THEN {"MarubozuBull"} ELSE {})
    \cup (IF MarubozuBear(w) THEN {"MarubozuBear"} ELSE {})
    \cup (IF EngulfingBull(w) THEN {"EngulfingBull"} ELSE {})
    \cup (IF EngulfingBear(w) THEN {"EngulfingBear"} ELSE {})
    \cup (IF Len(w) < 3 THEN {}
          ELSE (IF ~Slices(w) THEN {"panic"} ELSE IF MorningStar(w) THEN {"MorningStar"} ELSE {})
               \cup (IF EveningStar(w) THEN {"EveningStar"} ELSE {})
               \cup (IF ThreeWhiteSoldiers(w) THEN {"ThreeWhiteSoldiers"} ELSE {})
               \cup (IF ThreeBlackCrows(w) THEN {"ThreeBlackCrows"} ELSE {}))

-----------------------------------------------------------------------------

CandleInit == sticks \in Openings

NextStick(b) == Len(sticks) < MaxSticks /\ sticks' = Append(sticks, b)

CandleNext == \E b \in Sticks : NextStick(b)

CandleSpec == CandleInit /\ [][CandleNext]_sticks

-----------------------------------------------------------------------------
(* Properties                                                              *)

Upside(b) == [o |-> 0 - b.o, h |-> 0 - b.l, l |-> 0 - b.h, c |-> 0 - b.c]

Antipode == [Doji |-> "Doji", Hammer |-> "ShootingStar", ShootingStar |-> "Hammer",
             HangingMan |-> "InvertedHammer", InvertedHammer |-> "HangingMan",
             MarubozuBull |-> "MarubozuBear", MarubozuBear |-> "MarubozuBull",
             EngulfingBull |-> "EngulfingBear", EngulfingBear |-> "EngulfingBull",
             ThreeWhiteSoldiers |-> "ThreeBlackCrows", ThreeBlackCrows |-> "ThreeWhiteSoldiers"]

\* Upside down, every candlestick reads as its opposite: the pairs of detectors
\* written out by hand agree bar for bar.  The stars are left out, and so is an
\* engulfed bar without a body, which counts as bullish only.
CandleMirror ==
    LET Seen(w) == {k \in CandleDetect(w) : k \in DOMAIN Antipode}
    IN  sticks /= <<>> =>
            \/ Len(sticks) > 1 /\ Body(Bar(sticks, 1)) = 0 /\ Covers(sticks)
            \/ {Antipode[k] : k \in Seen(sticks)}
                   = Seen([i \in 1..Len(sticks) |-> Upside(sticks[i])])

\* Claimed by PatternDetector's contract, and false of MorningStarDetector: a
\* window of min_lookback() bars is enough for a detector to run.
LookbackSuffices == sticks /= <<>> => "panic" \notin CandleDetect(sticks)

-----------------------------------------------------------------------------
(***************************************************************************)
(* The chart-pattern detectors (crate alm-pattern, chart.rs and pivot.rs)   *)
(* over the sliding window the engine hands them.  A detector is a pure     *)
(* function of the window; a signal keeps its kind, the levels it trades on *)
(* and the swing level its stop is put half a percent beyond.  Prices are   *)
(* integers in a unit that makes every trendline value exact; confidence    *)
(* and the pivots shown on the chart are left out.                          *)
(***************************************************************************)

CONSTANTS
    BarsAfter(_), \* the bars that may come after a window: [hi, lo, close]
    Histories,    \* what the window holds when the run starts
    PivotSize,    \* bars on each side of a swing point
    FlagLookback, \* FlagDetector::lookback
    MaxWindow,    \* length of the engine's window
    Centre        \* the price the mirror image is taken around

VARIABLE window

\* within(a, b, percent): similar price levels.
Within(a, b, percent) == 200 * (IF a > b THEN a - b ELSE b - a) <= percent * (a + b)

\* Mutant: the bars that open the swing may be higher.
PivotHighsRightOnly(w) ==
    {i \in PivotSize + 1 .. Len(w) - PivotSize :
        \A j \in i .. i + PivotSize : w[j].hi <= w[i].hi}

\* find_pivots: no bar within PivotSize on either side is more extreme (an equal
\* one is let through); the last PivotSize bars are not confirmed yet.
PivotHighs(w) ==
    {i \in PivotSize + 1 .. Len(w) - PivotSize :
        \A j \in i - PivotSize .. i + PivotSize : w[j].hi <= w[i].hi}

PivotLows(w) ==
    {i \in PivotSize + 1 .. Len(w) - PivotSize :
        \A j \in i - PivotSize .. i + PivotSize : w[j].lo >= w[i].lo}

\* The swing points strictly between two others.
SwingsBetween(pivots, i, j) == {k \in pivots : i < k /\ k < j}

\* Consecutive swing points, as the detectors scan them, and the last two.
Neighbours(pivots) == {p \in pivots \X pivots : p[1] < p[2] /\ SwingsBetween(pivots, p[1], p[2]) = {}}
LastTwo(pivots) ==
    IF Cardinality(pivots) < 2 THEN {} ELSE {<<Max(pivots \ {Max(pivots)}), Max(pivots)>>}

Lowest(w, at) == Min({w[k].lo : k \in at})
Highest(w, at) == Max({w[k].hi : k \in at})

LastClose(w) == w[Len(w)].close

\* make_signal: the entry is the close of the last bar.
Make_signal(kind, w, target, stop) ==
    [kind |-> kind, entry |-> LastClose(w), target |-> target, stop |-> stop]

DoubleTop(w) ==
    LET lows == PivotLows(w)
        Neckline(p) == Lowest(w, SwingsBetween(lows, p[1], p[2]))
    IN  {Make_signal("DoubleTop", w, 2 * Neckline(p) - (w[p[1]].hi + w[p[2]].hi) \div 2, w[p[2]].hi)
            : p \in {q \in Neighbours(PivotHighs(w)) :
                        /\ Within(w[q[1]].hi, w[q[2]].hi, 3)
                        /\ SwingsBetween(lows, q[1], q[2]) /= {}
                        /\ LastClose(w) < Neckline(q)}}

DoubleBottom(w) ==
    LET highs == PivotHighs(w)
        Neckline(p) == Highest(w, SwingsBetween(highs, p[1], p[2]))
    IN  {Make_signal("DoubleBottom", w, 2 * Neckline(p) - (w[p[1]].lo + w[p[2]].lo) \div 2, w[p[2]].lo)
            : p \in {q \in Neighbours(PivotLows(w)) :
                        /\ Within(w[q[1]].lo, w[q[2]].lo, 3)
                        /\ SwingsBetween(highs, q[1], q[2]) /= {}
                        /\ LastClose(w) > Neckline(q)}}

\* Left shoulder, head and right shoulder are consecutive swing points with an
\* opposite swing between each two; the neckline is the mean of those two.
Triples(pivots, opposite) ==
    LET legs == {p \in Neighbours(pivots) : SwingsBetween(opposite, p[1], p[2]) /= {}}
    IN  {<<p[1][1], p[1][2], p[2][2]>> : p \in {q \in legs \X legs : q[1][2] = q[2][1]}}

HeadAndShoulders(w) ==
    LET lows == PivotLows(w)
        Neckline(t) == (Lowest(w, SwingsBetween(lows, t[1], t[2])) + Lowest(w, SwingsBetween(lows, t[2], t[3]))) \div 2
    IN  {Make_signal("HeadAndShoulders", w, 2 * Neckline(t) - w[t[2]].hi, w[t[3]].hi)
            : t \in {u \in Triples(PivotHighs(w), lows) :
                        /\ w[u[2]].hi > w[u[1]].hi /\ w[u[2]].hi > w[u[3]].hi
                        /\ Within(w[u[1]].hi, w[u[3]].hi, 5)
                        /\ LastClose(w) < Neckline(u)}}

InverseHeadAndShoulders(w) ==
    LET highs == PivotHighs(w)
        Neckline(t) == (Highest(w, SwingsBetween(highs, t[1], t[2])) + Highest(w, SwingsBetween(highs, t[2], t[3]))) \div 2
    IN  {Make_signal("InverseHeadAndShoulders", w, 2 * Neckline(t) - w[t[2]].lo, w[t[3]].lo)
            : t \in {u \in Triples(PivotLows(w), highs) :
                        /\ w[u[2]].lo < w[u[1]].lo /\ w[u[2]].lo < w[u[3]].lo
                        /\ Within(w[u[1]].lo, w[u[3]].lo, 5)
                        /\ LastClose(w) > Neckline(u)}}

-----------------------------------------------------------------------------
(* Continuation patterns, on the last two swing highs h and lows l         *)

\* trendline_at: the line through two swing points, at bar x.
Trendline_at(i, a, j, b, x) == a + ((b - a) * (x - i)) \div (j - i)

UpperLine(w, h) == Trendline_at(h[1], w[h[1]].hi, h[2], w[h[2]].hi, Len(w))
LowerLine(w, l) == Trendline_at(l[1], w[l[1]].lo, l[2], w[l[2]].lo, Len(w))

Swings(w) == LastTwo(PivotHighs(w)) \X LastTwo(PivotLows(w))

AscendingTriangle(w) ==
    UNION {LET h == s[1]  l == s[2]
               resistance == (w[h[1]].hi + w[h[2]].hi) \div 2
           IN  IF /\ Within(w[h[1]].hi, w[h[2]].hi, 2)
                  /\ w[l[2]].lo > w[l[1]].lo
                  /\ LastClose(w) > resistance
               THEN {Make_signal("AscendingTriangle", w, 2 * resistance - w[l[1]].lo, w[l[2]].lo)}
               ELSE {} : s \in Swings(w)}

DescendingTriangle(w) ==
    UNION {LET h == s[1]  l == s[2]
               support == (w[l[1]].lo + w[l[2]].lo) \div 2
           IN  IF /\ w[h[2]].hi < w[h[1]].hi
                  /\ Within(w[l[1]].lo, w[l[2]].lo, 2)
                  /\ LastClose(w) < support
               THEN {Make_signal("DescendingTriangle", w, 2 * support - w[h[1]].hi, w[h[2]].hi)}
               ELSE {} : s \in Swings(w)}

\* Only the upward breakout is detected.
SymmetricTriangle(w) ==
    UNION {LET h == s[1]  l == s[2]
           IN  IF /\ w[h[2]].hi < w[h[1]].hi /\ w[l[2]].lo > w[l[1]].lo
                  /\ UpperLine(w, h) > LowerLine(w, l)
                  /\ LastClose(w) > UpperLine(w, h)
               THEN {Make_signal("SymmetricTriangle", w, UpperLine(w, h) + w[h[1]].hi - w[l[1]].lo,
                                 LowerLine(w, l))}
               ELSE {} : s \in Swings(w)}

\* WedgeDetector: both lines slope the same way and converge.  Nothing asks
\* whether they have crossed before the breakout.
Wedge(w, rising) ==
    UNION {LET h == s[1]  l == s[2]
               dh == w[h[2]].hi - w[h[1]].hi
               dl == w[l[2]].lo - w[l[1]].lo
               narrowing == dl * (h[2] - h[1]) > dh * (l[2] - l[1])
               upper == UpperLine(w, h)
               lower == LowerLine(w, l)
               height == Max({upper - lower, 0})
           IN  IF rising /\ dh > 0 /\ dl > 0 /\ narrowing /\ LastClose(w) < lower
               THEN {Make_signal("RisingWedge", w, lower - height, upper)}
               ELSE IF ~rising /\ dh < 0 /\ dl < 0 /\ narrowing /\ LastClose(w) > upper
               THEN {Make_signal("FallingWedge", w, upper + height, lower)}
               ELSE {} : s \in Swings(w)}

\* FlagDetector: the first 40% of the lookback is the pole, the rest the flag
\* (the current bar included); the pole moves at least 4% (of its base for a bull
\* flag, of its top for a bear flag), the flag retraces at most half of it, and
\* the close leaves the pole.
PoleEnd == Max({(FlagLookback * 2) \div 5, 2})
Pole(w) == Len(w) - FlagLookback + 1 .. Len(w) - FlagLookback + PoleEnd
PoleMoves(w, price) == 100 * (Highest(w, Pole(w)) - Lowest(w, Pole(w))) >= 4 * price

Flag(w, bullish) ==
    IF Len(w) < FlagLookback THEN {}
    ELSE LET top == Highest(w, Pole(w))
             base == Lowest(w, Pole(w))
             flag == Len(w) - FlagLookback + PoleEnd + 1 .. Len(w)
         IN  IF PoleEnd >= FlagLookback THEN {}
             ELSE IF bullish /\ PoleMoves(w, base)
                             /\ 2 * (top - Lowest(w, flag)) <= top - base
                             /\ LastClose(w) > top
             THEN {Make_signal("BullFlag", w, 2 * top - base, Lowest(w, flag))}
             ELSE IF ~bullish /\ PoleMoves(w, top)
                              /\ 2 * (Highest(w, flag) - base) <= top - base
                              /\ LastClose(w) < base
             THEN {Make_signal("BearFlag", w, 2 * base - top, Highest(w, flag))}
             ELSE {}

\* CompositeDetector::detect: every detector whose min_lookback the window has.
CompositeDetect(w) ==
    (IF Len(w) >= 4 * PivotSize + 5
     THEN DoubleTop(w) \cup DoubleBottom(w) \cup AscendingTriangle(w) \cup DescendingTriangle(w)
              \cup SymmetricTriangle(w) \cup Wedge(w, TRUE) \cup Wedge(w, FALSE)
     ELSE {})
    \cup (IF Len(w) >= 6 * PivotSize + 5 THEN HeadAndShoulders(w) \cup InverseHeadAndShoulders(w) ELSE {})
    \cup Flag(w, TRUE) \cup Flag(w, FALSE)

-----------------------------------------------------------------------------

PatternInit == window \in Histories

\* The engine appends the bar to the window it hands to on_window.
NextCandle(c) ==
    /\ Len(window) < MaxWindow
    /\ window' = Append(window, c)

PatternNext == \E c \in BarsAfter(window) : NextCandle(c)

PatternSpec == PatternInit /\ [][PatternNext]_window

-----------------------------------------------------------------------------
(* Properties                                                              *)

Flip(p) == 2 * Centre - p

Twin == [DoubleTop |-> "DoubleBottom", DoubleBottom |-> "DoubleTop",
         HeadAndShoulders |-> "InverseHeadAndShoulders", InverseHeadAndShoulders |-> "HeadAndShoulders",
         AscendingTriangle |-> "DescendingTriangle", DescendingTriangle |-> "AscendingTriangle",
         RisingWedge |-> "FallingWedge", FallingWedge |-> "RisingWedge",
         BullFlag |-> "BearFlag", BearFlag |-> "BullFlag"]

BullishKinds == {"DoubleBottom", "InverseHeadAndShoulders", "AscendingTriangle", "SymmetricTriangle", "BullFlag"}
BearishKinds == {"DoubleTop", "HeadAndShoulders", "DescendingTriangle", "BearFlag"}

Flipped(w) ==
    [i \in 1..Len(w) |-> [hi |-> Flip(w[i].lo), lo |-> Flip(w[i].hi), close |-> Flip(w[i].close)]]

\* The tolerances are fractions of the prices they compare, so the same distance
\* may pass below the centre and not above it: these windows' verdicts agree.
TolerancesAgree(w) ==
    /\ \A percent \in {2, 3, 5} :
         /\ \A i, j \in PivotHighs(w) :
               Within(w[i].hi, w[j].hi, percent) <=> Within(Flip(w[i].hi), Flip(w[j].hi), percent)
         /\ \A i, j \in PivotLows(w) :
               Within(w[i].lo, w[j].lo, percent) <=> Within(Flip(w[i].lo), Flip(w[j].lo), percent)
    /\ Len(w) >= FlagLookback =>
         \A price \in {Highest(w, Pole(w)), Lowest(w, Pole(w))} :
             PoleMoves(w, price) <=> PoleMoves(w, Flip(price))

\* Claimed by "Mirror of Double Top" (chart.rs:141), and false of windows whose
\* swings are just within a tolerance: the detectors see upside down what they
\* see, upside down.
MirrorEverywhere ==
    {[kind |-> Twin[s.kind], entry |-> Flip(s.entry), target |-> Flip(s.target), stop |-> Flip(s.stop)]
        : s \in {t \in CompositeDetect(window) : t.kind /= "SymmetricTriangle"}}
    = {t \in CompositeDetect(Flipped(window)) : t.kind /= "SymmetricTriangle"}

\* Where the relative tolerances judge a window and its reflection alike, every
\* bearish detector is the exact mirror of its bullish twin, levels included
\* (each is written out by hand, with every comparison and extremum turned round).
MirrorImages == TolerancesAgree(window) => MirrorEverywhere

\* Claimed of stop_loss, and false of a double bottom, for one: the stop, half a
\* percent beyond the swing the pattern ends on, is on the losing side of the
\* entry.  Nothing compares that swing with the close: a right bottom within 3%
\* of the left one may lie above the neckline and the close above it.
StopAlwaysLoses ==
    \A s \in CompositeDetect(window) :
        /\ s.kind \in BullishKinds => 199 * s.stop <= 200 * s.entry
        /\ s.kind \in BearishKinds => 201 * s.stop >= 200 * s.entry

\* What does hold of the stop: a flag's and a symmetric triangle's is on the
\* losing side of the entry.  A double bottom's or top's may be on the other
\* side, but never further than the 3% by which the two swings may differ: no
\* bar between two consecutive swings is beyond both, so the neckline is not.
StopOnLosingSide ==
    \A s \in CompositeDetect(window) :
        /\ s.kind \in {"SymmetricTriangle", "BullFlag"} => s.stop <= s.entry
        /\ s.kind = "BearFlag" => s.stop >= s.entry
        /\ s.kind = "DoubleBottom" => s.stop <= s.entry \/ Within(s.stop, s.entry, 3)
        /\ s.kind = "DoubleTop" => s.stop >= s.entry \/ Within(s.stop, s.entry, 3)
=============================================================================
