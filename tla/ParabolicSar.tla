---------------------------- MODULE ParabolicSar ----------------------------
(***************************************************************************)
(* The trailing stop of ParabolicSar::update, on integer prices.  The      *)
(* acceleration factor is only known to lie between 0 and 1: the new stop  *)
(* is any price between the old one and the extreme point.                 *)
(***************************************************************************)
EXTENDS Integers

CONSTANT SarPrices
ASSUME SarAssumption == SarPrices \subseteq Int

VARIABLES
    seen,       \* bars so far, up to two: prev_high, then sar, are set
    sar, ep,
    trend,      \* is_bullish
    prev,       \* [high, low] of the last bar, which the next one looks back at
    prev2,      \* and of the one before it
    flipped     \* 1 when the last bar reversed the trend

sarVars == <<seen, sar, ep, trend, prev, prev2, flipped>>

Bullish == "bullish"
Bearish == "bearish"

BarsOf(P) == {b \in [high : P, low : P] : b.low <= b.high}

Lower(a, b) == IF a < b THEN a ELSE b
Upper(a, b) == IF a > b THEN a ELSE b

SarInit ==
    /\ seen = 0
    /\ sar \in SarPrices /\ ep = sar /\ trend = Bullish /\ flipped = 0
    /\ prev = [high |-> sar, low |-> sar] /\ prev2 = prev

\* The first bar is only remembered.
SarFirst(b) ==
    /\ seen = 0
    /\ seen' = 1
    /\ prev' = b
    /\ UNCHANGED <<sar, ep, trend, prev2, flipped>>

\* The second one starts a bullish trend below both bars.
SarSecond(b) ==
    /\ seen = 1
    /\ seen' = 2
    /\ sar' = Lower(prev.low, b.low) /\ ep' = b.high /\ trend' = Bullish
    /\ prev2' = prev /\ prev' = b
    /\ UNCHANGED flipped

\* Mutant: the stop is not held back by the two bars before.
SarUnclamped(b, stop) ==
    /\ seen = 2 /\ trend = Bullish
    /\ IF b.low < stop
       THEN trend' = Bearish /\ flipped' = 1 /\ sar' = ep /\ ep' = b.low
       ELSE trend' = Bullish /\ flipped' = 0 /\ sar' = stop /\ ep' = Upper(b.high, ep)
    /\ prev2' = prev /\ prev' = b
    /\ UNCHANGED seen
\* The stop accelerates towards the extreme point, but not past the lows of
\* the two bars before; a bar that falls through it turns the trend.
SarBullish(b, stop) ==
    LET clamped == Lower(stop, Lower(prev.low, prev2.low))
    IN  /\ seen = 2 /\ trend = Bullish
        /\ IF b.low < clamped
           THEN /\ trend' = Bearish /\ flipped' = 1
                /\ sar' = ep /\ ep' = b.low
           ELSE /\ trend' = Bullish /\ flipped' = 0
                /\ sar' = clamped /\ ep' = Upper(b.high, ep)
        /\ prev2' = prev /\ prev' = b
        /\ UNCHANGED seen

SarBearish(b, stop) ==
    LET clamped == Upper(stop, Upper(prev.high, prev2.high))
    IN  /\ seen = 2 /\ trend = Bearish
        /\ IF b.high > clamped
           THEN /\ trend' = Bullish /\ flipped' = 1
                /\ sar' = ep /\ ep' = b.high
           ELSE /\ trend' = Bearish /\ flipped' = 0
                /\ sar' = clamped /\ ep' = Lower(b.low, ep)
        /\ prev2' = prev /\ prev' = b
        /\ UNCHANGED seen

Between(a, b) == {p \in SarPrices : Lower(a, b) <= p /\ p <= Upper(a, b)}

SarReset ==
    /\ seen = 2
    /\ seen' = 0 /\ trend' = Bullish /\ flipped' = 0
    /\ UNCHANGED <<sar, ep, prev, prev2>>

SarNext ==
    \/ \E b \in BarsOf(SarPrices) : SarFirst(b) \/ SarSecond(b)
    \/ \E b \in BarsOf(SarPrices) : \E stop \in Between(sar, ep) : SarBullish(b, stop) \/ SarBearish(b, stop)
    \/ SarReset

SarSpec == SarInit /\ [][SarNext]_sarVars
-----------------------------------------------------------------------------
SarTypeOK ==
    /\ seen \in 0..2
    /\ sar \in SarPrices /\ ep \in SarPrices
    /\ trend \in {Bullish, Bearish} /\ flipped \in {0, 1}
    /\ {prev, prev2} \subseteq BarsOf(SarPrices)

\* The stop lies below the bar in a bullish trend and above it in a bearish
\* one, unless this very bar turned the trend: then it is the old extreme,
\* which the same bar may have passed on its other side.
SarSide ==
    seen = 2 /\ flipped = 0 =>
        IF trend = Bullish THEN sar <= prev.low /\ sar <= prev2.low
        ELSE sar >= prev.high /\ sar >= prev2.high

\* The stop never passes the extreme point of the trend, so that it always
\* accelerates in the direction of the trend.
SarBehindExtreme ==
    seen = 2 => IF trend = Bullish THEN sar <= ep ELSE sar >= ep

\* What makes the three inductive: the extreme point covers the last bar,
\* and the stop of a reversal bar covers the bar before it.
SarInv ==
    /\ SarTypeOK
    /\ SarSide
    /\ SarBehindExtreme
    /\ seen = 2 => IF trend = Bullish THEN ep >= prev.high /\ sar <= prev2.low
                   ELSE ep <= prev.low /\ sar >= prev2.high

\* While a trend lasts the stop never moves back, except on the bar after a
\* reversal bar that itself went past the new stop.
SarRatchets ==
    [][seen = 2 /\ seen' = 2 /\ trend = trend'
           => \/ IF trend = Bullish THEN sar' >= sar ELSE sar' <= sar
              \/ flipped = 1 /\ (IF trend = Bullish THEN prev.low < sar ELSE prev.high > sar)]_sarVars

\* The documentation: the stop is below the price when bullish, above it
\* otherwise.
SarSideClaim ==
    seen = 2 => IF trend = Bullish THEN sar <= prev.low ELSE sar >= prev.high

\* The stop stays on its side of the bars and behind the extreme point, and only
\* ever follows the trend.
SarFollows == [](SarTypeOK /\ SarSide /\ SarBehindExtreme) /\ SarRatchets
=============================================================================
