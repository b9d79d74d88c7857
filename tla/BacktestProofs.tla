--------------------------- MODULE BacktestProofs ----------------------------
(***************************************************************************)
(* What is proved of the parts a backtest is computed with: the stop of the *)
(* parabolic SAR follows its trend for all prices and accelerations, the    *)
(* books balance for every capital and every set of prices, sizes and       *)
(* commissions, and the windows of a walk-forward validation are sound for  *)
(* every configuration and every number of bars.                            *)
(***************************************************************************)
EXTENDS ParabolicSar, Account, WalkForward, TLAPS

-----------------------------------------------------------------------------
(* The parabolic SAR                                                        *)

\* The lower and the upper of two integers are one of them and bound both.
LEMMA LowerUpper ==
    ASSUME NEW a \in Int, NEW b \in Int
    PROVE  /\ Lower(a, b) \in {a, b} /\ Lower(a, b) <= a /\ Lower(a, b) <= b
           /\ Upper(a, b) \in {a, b} /\ Upper(a, b) >= a /\ Upper(a, b) >= b
BY DEF Lower, Upper

\* A new indicator, which has seen no bar, satisfies the invariant.
LEMMA SarInitInv == SarInit => SarInv
BY SarAssumption DEF SarInit, SarInv, SarTypeOK, SarSide, SarBehindExtreme, BarsOf, Bullish

\* One bar of a bullish trend keeps the invariant.
LEMMA SarBullishInv ==
    ASSUME SarInv, NEW b \in BarsOf(SarPrices), NEW stop \in Between(sar, ep), SarBullish(b, stop)
    PROVE  SarInv'
<1> DEFINE clamped == Lower(stop, Lower(prev.low, prev2.low))
<1>1. /\ seen = 2 /\ trend = Bullish /\ seen' = 2
      /\ sar \in SarPrices /\ ep \in SarPrices /\ stop \in SarPrices
      /\ prev \in BarsOf(SarPrices) /\ prev2 \in BarsOf(SarPrices)
      /\ prev2' = prev /\ prev' = b
      /\ sar <= ep /\ ep >= prev.high /\ sar <= prev2.low
  BY DEF SarInv, SarTypeOK, SarBehindExtreme, SarBullish, Between
<1>2. /\ sar \in Int /\ ep \in Int /\ stop \in Int
      /\ b.high \in SarPrices /\ b.low \in SarPrices /\ b.high \in Int /\ b.low \in Int
      /\ prev.high \in SarPrices /\ prev.low \in SarPrices /\ prev.high \in Int /\ prev.low \in Int
      /\ prev2.low \in SarPrices /\ prev2.low \in Int
      /\ b.low <= b.high /\ prev.low <= prev.high
  BY <1>1, SarAssumption DEF BarsOf
<1>3. /\ clamped \in SarPrices /\ clamped \in Int
      /\ clamped <= stop /\ clamped <= prev.low /\ clamped <= prev2.low
  BY <1>2, <1>1, LowerUpper DEF Lower
<1>4. stop <= ep
  BY <1>1, <1>2, LowerUpper DEF Between, Lower, Upper
<1>5. CASE b.low < clamped
  <2>1. /\ trend' = Bearish /\ flipped' = 1 /\ sar' = ep /\ ep' = b.low
    BY <1>5 DEF SarBullish
  <2>2. SarTypeOK'
    BY <2>1, <1>1, <1>2 DEF SarTypeOK
  <2>3. sar' >= ep' /\ ep' <= prev'.low /\ sar' >= prev2'.high
    BY <2>1, <1>1, <1>2, <1>3, <1>4, <1>5
  <2> QED BY <2>1, <2>2, <2>3, <1>1 DEF SarInv, SarSide, SarBehindExtreme, Bullish, Bearish
<1>6. CASE ~(b.low < clamped)
  <2>1. /\ trend' = Bullish /\ flipped' = 0 /\ sar' = clamped
        /\ ep' = Upper(b.high, ep)
    BY <1>6 DEF SarBullish
  <2>2. /\ ep' \in SarPrices /\ ep' >= b.high /\ ep' >= ep /\ ep' \in Int
    BY <2>1, <1>1, <1>2, LowerUpper
  <2>3. SarTypeOK'
    BY <2>1, <2>2, <1>1, <1>3 DEF SarTypeOK
  <2>4. sar' <= ep' /\ sar' <= prev'.low /\ sar' <= prev2'.low /\ ep' >= prev'.high
    BY <2>1, <2>2, <1>1, <1>2, <1>3, <1>4, <1>6
  <2> QED BY <2>1, <2>3, <2>4, <1>1 DEF SarInv, SarSide, SarBehindExtreme, Bullish, Bearish
<1> QED BY <1>5, <1>6

\* One bar of a bearish trend keeps the invariant.
LEMMA SarBearishInv ==
    ASSUME SarInv, NEW b \in BarsOf(SarPrices), NEW stop \in Between(sar, ep), SarBearish(b, stop)
    PROVE  SarInv'
<1> DEFINE clamped == Upper(stop, Upper(prev.high, prev2.high))
<1>1. /\ seen = 2 /\ trend = Bearish /\ seen' = 2
      /\ sar \in SarPrices /\ ep \in SarPrices /\ stop \in SarPrices
      /\ prev \in BarsOf(SarPrices) /\ prev2 \in BarsOf(SarPrices)
      /\ prev2' = prev /\ prev' = b
      /\ sar >= ep /\ ep <= prev.low /\ sar >= prev2.high
  BY DEF SarInv, SarTypeOK, SarBehindExtreme, SarBearish, Between, Bullish, Bearish
<1>2. /\ sar \in Int /\ ep \in Int /\ stop \in Int
      /\ b.low \in SarPrices /\ b.high \in SarPrices /\ b.low \in Int /\ b.high \in Int
      /\ prev.low \in SarPrices /\ prev.high \in SarPrices /\ prev.low \in Int /\ prev.high \in Int
      /\ prev2.high \in SarPrices /\ prev2.high \in Int
      /\ b.low <= b.high /\ prev.low <= prev.high
  BY <1>1, SarAssumption DEF BarsOf
<1>3. /\ clamped \in SarPrices /\ clamped \in Int
      /\ clamped >= stop /\ clamped >= prev.high /\ clamped >= prev2.high
  BY <1>2, <1>1, LowerUpper DEF Upper
<1>4. stop >= ep
  BY <1>1, <1>2, LowerUpper DEF Between, Lower, Upper
<1>5. CASE b.high > clamped
  <2>1. /\ trend' = Bullish /\ flipped' = 1 /\ sar' = ep /\ ep' = b.high
    BY <1>5 DEF SarBearish
  <2>2. SarTypeOK'
    BY <2>1, <1>1, <1>2 DEF SarTypeOK
  <2>3. sar' <= ep' /\ ep' >= prev'.high /\ sar' <= prev2'.low
    BY <2>1, <1>1, <1>2, <1>3, <1>4, <1>5
  <2> QED BY <2>1, <2>2, <2>3, <1>1 DEF SarInv, SarSide, SarBehindExtreme, Bullish, Bearish
<1>6. CASE ~(b.high > clamped)
  <2>1. /\ trend' = Bearish /\ flipped' = 0 /\ sar' = clamped
        /\ ep' = Lower(b.low, ep)
    BY <1>6 DEF SarBearish
  <2>2. /\ ep' \in SarPrices /\ ep' <= b.low /\ ep' <= ep /\ ep' \in Int
    BY <2>1, <1>1, <1>2, LowerUpper
  <2>3. SarTypeOK'
    BY <2>1, <2>2, <1>1, <1>3 DEF SarTypeOK
  <2>4. sar' >= ep' /\ sar' >= prev'.high /\ sar' >= prev2'.high /\ ep' <= prev'.low
    BY <2>1, <2>2, <1>1, <1>2, <1>3, <1>4, <1>6
  <2> QED BY <2>1, <2>3, <2>4, <1>1 DEF SarInv, SarSide, SarBehindExtreme, Bullish, Bearish
<1> QED BY <1>5, <1>6

\* Every step keeps the invariant.
LEMMA SarNextInv == SarInv /\ [SarNext]_sarVars => SarInv'
<1> SUFFICES ASSUME SarInv, [SarNext]_sarVars PROVE SarInv'
  OBVIOUS
<1>1. ASSUME NEW b \in BarsOf(SarPrices), SarFirst(b) PROVE SarInv'
  BY <1>1 DEF SarFirst, SarInv, SarTypeOK, SarSide, SarBehindExtreme
<1>2. ASSUME NEW b \in BarsOf(SarPrices), SarSecond(b) PROVE SarInv'
  <2>1. /\ seen' = 2 /\ trend' = Bullish /\ flipped' = flipped
        /\ sar' = Lower(prev.low, b.low) /\ ep' = b.high /\ prev2' = prev /\ prev' = b
        /\ prev \in BarsOf(SarPrices) /\ flipped \in {0, 1}
    BY <1>2 DEF SarSecond, SarInv, SarTypeOK
  <2>2. /\ b.high \in SarPrices /\ b.low \in SarPrices /\ b.high \in Int /\ b.low \in Int
        /\ prev.low \in SarPrices /\ prev.low \in Int /\ b.low <= b.high
    BY <2>1, SarAssumption DEF BarsOf
  <2>3. /\ sar' \in SarPrices /\ sar' \in Int /\ sar' <= prev.low /\ sar' <= b.low
    BY <2>1, <2>2, LowerUpper
  <2>4. SarTypeOK'
    BY <2>1, <2>2, <2>3 DEF SarTypeOK
  <2> QED BY <2>1, <2>2, <2>3, <2>4 DEF SarInv, SarSide, SarBehindExtreme
<1>3. ASSUME SarReset PROVE SarInv'
  BY <1>3 DEF SarReset, SarInv, SarTypeOK, SarSide, SarBehindExtreme
<1>4. ASSUME UNCHANGED sarVars PROVE SarInv'
  BY <1>4 DEF sarVars, SarInv, SarTypeOK, SarSide, SarBehindExtreme
<1> QED BY <1>1, <1>2, <1>3, <1>4, SarBullishInv, SarBearishInv DEF SarNext

\* The stop only moves with the trend, except right after a reversal bar
\* that went past the new stop.
THEOREM SarMonotone == SarSpec => SarRatchets
<1> DEFINE Ratchet ==
        seen = 2 /\ seen' = 2 /\ trend = trend'
            => \/ IF trend = Bullish THEN sar' >= sar ELSE sar' <= sar
               \/ flipped = 1 /\ (IF trend = Bullish THEN prev.low < sar ELSE prev.high > sar)
<1>1. ASSUME SarInv, SarNext PROVE Ratchet
  <2> SUFFICES ASSUME seen = 2, seen' = 2, trend = trend',
                      ~(flipped = 1 /\ (IF trend = Bullish THEN prev.low < sar ELSE prev.high > sar))
               PROVE  IF trend = Bullish THEN sar' >= sar ELSE sar' <= sar
    OBVIOUS
  <2>1. PICK b \in BarsOf(SarPrices), stop \in Between(sar, ep) :
            SarBullish(b, stop) \/ SarBearish(b, stop)
    BY <1>1 DEF SarNext, SarFirst, SarSecond, SarReset
  <2>2. /\ sar \in Int /\ ep \in Int /\ stop \in Int
        /\ prev.low \in Int /\ prev2.low \in Int /\ prev.high \in Int /\ prev2.high \in Int
        /\ Lower(sar, ep) <= stop /\ stop <= Upper(sar, ep)
    BY <1>1, SarAssumption DEF SarInv, SarTypeOK, BarsOf, Between
  <2>3. flipped \in {0, 1} /\ trend \in {Bullish, Bearish}
    BY <1>1 DEF SarInv, SarTypeOK
  <2>4. CASE trend = Bullish
    <3>1. sar <= ep /\ sar <= prev2.low /\ sar <= prev.low
      BY <1>1, <2>2, <2>3, <2>4 DEF SarInv, SarSide, SarBehindExtreme
    <3>2. sar' = Lower(stop, Lower(prev.low, prev2.low))
      BY <2>1, <2>4 DEF SarBullish, SarBearish, Bullish, Bearish
    <3> QED BY <3>1, <3>2, <2>2, <2>4 DEF Lower
  <2>5. CASE trend = Bearish
    <3>1. sar >= ep /\ sar >= prev2.high /\ sar >= prev.high
      BY <1>1, <2>2, <2>3, <2>5 DEF SarInv, SarSide, SarBehindExtreme, Bullish, Bearish
    <3>2. sar' = Upper(stop, Upper(prev.high, prev2.high))
      BY <2>1, <2>5 DEF SarBullish, SarBearish, Bullish, Bearish
    <3>3. sar' <= sar
      BY <3>1, <3>2, <2>2 DEF Lower, Upper
    <3> QED BY <3>3, <2>5 DEF Bullish, Bearish
  <2> QED BY <2>3, <2>4, <2>5
<1>2. ASSUME SarInv, [SarNext]_sarVars PROVE [Ratchet]_sarVars
  BY <1>1, <1>2
<1> QED BY <1>2, SarInitInv, SarNextInv, PTL DEF SarSpec, SarRatchets

\* The stop of ParabolicSar::update is on its side of the last two bars
\* whenever the bar did not turn the trend, is never ahead of the extreme
\* point and never moves back, whatever the prices and the acceleration factor.
THEOREM SarStop == SarSpec => SarFollows
<1>1. SarSpec => []SarInv
  BY SarInitInv, SarNextInv, PTL DEF SarSpec
<1>2. SarInv => SarTypeOK /\ SarSide /\ SarBehindExtreme
  BY DEF SarInv
<1> QED BY <1>1, <1>2, SarMonotone, PTL DEF SarFollows

-----------------------------------------------------------------------------
(* The account                                                              *)

\* A share of an integer is an integer.
LEMMA ShareType ==
    ASSUME NEW total \in Int, NEW part \in Nat, NEW whole \in Nat,
           part = whole \/ whole > 0
    PROVE  Share(total, part, whole) \in Int
<1>1. CASE part = whole
    BY <1>1 DEF Share
<1>2. CASE part # whole
    <2>1. total * part \in Int
        OBVIOUS
    <2> DEFINE product == total * part
    <2>2. product \in Int
        BY <2>1
    <2> HIDE DEF product
    <2>3. whole > 0
        BY <1>2
    <2>4. product \div whole \in Int
        BY <2>2, <2>3
    <2> QED
        BY <1>2, <2>4 DEF Share, product
<1> QED
    BY <1>1, <1>2

\* A share of a total lies between nothing and the whole of it, on its side
\* of zero, rounding included.
LEMMA ShareBounds ==
    ASSUME NEW total \in Int, NEW part \in Nat, NEW whole \in Nat,
           part <= whole, whole > 0
    PROVE  /\ total >= 0 => 0 <= Share(total, part, whole) /\ Share(total, part, whole) <= total
           /\ total <= 0 => total <= Share(total, part, whole) /\ Share(total, part, whole) <= 0
<1>1. CASE part = whole
    BY <1>1 DEF Share
<1>2. CASE part # whole
    <2> DEFINE share == (total * part) \div whole
    <2>1. CASE total >= 0
        <3>1. 0 <= share /\ share <= total
            BY <2>1
        <3> QED
            BY <1>2, <2>1, <3>1 DEF Share
    <2>2. CASE total <= 0
        <3>1. total <= share /\ share <= 0
            BY <2>2
        <3> QED
            BY <1>2, <2>2, <3>1 DEF Share
    <2> QED
        BY <2>1, <2>2
<1> QED
    BY <1>1, <1>2

\* A fill is a well-typed record with a positive quantity.
LEMMA FillType ==
    ASSUME NEW f \in Fills
    PROVE  /\ f.side \in {"buy", "sell"}
           /\ f.qty \in Nat /\ f.qty > 0
           /\ f.price \in Nat
           /\ f.commission \in Nat
<1>1. /\ f.side \in Side /\ f.qty \in Sizes
      /\ f.price \in Prices /\ f.commission \in Fees
    BY DEF Fills
<1>2. f.qty \in Nat \ {0} /\ f.price \in Nat /\ f.commission \in Nat
    BY <1>1, AccountAssumption
<1> QED
    BY <1>1, <1>2 DEF Side

\* The type of a position.
PositionType == [qty : Int, cost : Int, commission : Nat]

\* A fill never covers more than it has, nor more than the position holds.
LEMMA CoveredBounds ==
    ASSUME NEW pos \in PositionType, NEW f \in Fills
    PROVE  /\ Covered(pos, f) \in Nat
           /\ Covered(pos, f) <= f.qty
           /\ Covered(pos, f) <= Abs(pos.qty)
           /\ Abs(pos.qty) \in Nat
           /\ Closes(pos, f) => Abs(pos.qty) > 0
BY FillType DEF PositionType, Covered, Closes, Lesser, Abs

\* The shares of a fill that closes are integers, and no larger than what they
\* are shares of.
LEMMA SharesType ==
    ASSUME NEW pos \in PositionType, NEW f \in Fills, Closes(pos, f)
    PROVE  /\ EntryFee(pos, f) \in Int /\ EntryFee(pos, f) <= pos.commission
           /\ ExitFee(pos, f) \in Int /\ ExitFee(pos, f) <= f.commission
           /\ Basis(pos, f) \in Int
           /\ pos.cost >= 0 => Basis(pos, f) <= pos.cost
           /\ pos.cost <= 0 => pos.cost <= Basis(pos, f)
<1>1. /\ pos.qty \in Int /\ pos.cost \in Int /\ pos.commission \in Int
      /\ f.commission \in Int /\ pos.commission >= 0 /\ f.commission >= 0
    BY FillType DEF PositionType
<1>2. EntryFee(pos, f) \in Int /\ EntryFee(pos, f) <= pos.commission
    BY <1>1, CoveredBounds, ShareType, ShareBounds DEF EntryFee
<1>3. ExitFee(pos, f) \in Int /\ ExitFee(pos, f) <= f.commission
    BY <1>1, FillType, CoveredBounds, ShareType, ShareBounds DEF ExitFee
<1>4. /\ Basis(pos, f) \in Int
      /\ pos.cost >= 0 => Basis(pos, f) <= pos.cost
      /\ pos.cost <= 0 => pos.cost <= Basis(pos, f)
    BY <1>1, CoveredBounds, ShareType, ShareBounds DEF Basis
<1> QED
    BY <1>2, <1>3, <1>4

\* One fill keeps the position an integer record.
LEMMA FilledType ==
    ASSUME NEW pos \in PositionType, NEW f \in Fills
    PROVE  Filled(pos, f) \in PositionType /\ Pnl(pos, f) \in Int
<1> DEFINE covered == Covered(pos, f)
           paid == f.price * f.qty
           left == f.price * (f.qty - covered)
           shut == f.price * covered
<1>1. /\ f.qty \in Int /\ f.price \in Int /\ f.commission \in Int
      /\ covered \in Int /\ Sign(f.side) \in {1, -1}
      /\ pos.qty \in Int /\ pos.cost \in Int
      /\ pos.commission \in Nat /\ f.commission \in Nat
    BY FillType, CoveredBounds DEF Sign, PositionType
<1>2. paid \in Int /\ left \in Int /\ shut \in Int
    BY <1>1
<1>3. Sign(f.side) * f.qty \in Int /\ Sign(f.side) * (f.qty - covered) \in Int
    BY <1>1
<1>4. /\ Sign(f.side) * paid \in Int
      /\ Sign(f.side) * left \in Int
      /\ Sign(f.side) * shut \in Int
    BY <1>1, <1>2
<1> HIDE DEF paid, left, shut
<1>5. CASE ~Closes(pos, f)
    BY <1>1, <1>3, <1>4, <1>5 DEF Filled, Pnl, PositionType, paid
<1>6. CASE Closes(pos, f)
    BY <1>1, <1>3, <1>4, <1>6, SharesType
       DEF Filled, Pnl, PositionType, paid, left, shut
<1> QED
    BY <1>5, <1>6

\* What a fill takes from the cash is what it leaves in the position, less
\* what it realizes: the law behind Books, for one fill.
LEMMA FillBalance ==
    ASSUME NEW pos \in PositionType, NEW f \in Fills
    PROVE  CashImpact(f) + Filled(pos, f).cost + Filled(pos, f).commission
             = pos.cost + pos.commission + Pnl(pos, f)
<1> DEFINE covered == Covered(pos, f)
           paid == f.price * f.qty
           left == f.price * (f.qty - covered)
           shut == f.price * covered
           s == Sign(f.side)
<1>1. /\ f.qty \in Int /\ f.price \in Int /\ f.commission \in Int
      /\ covered \in Int
      /\ pos.qty \in Int /\ pos.cost \in Int /\ pos.commission \in Int
    BY FillType, CoveredBounds DEF PositionType
<1>2. paid \in Int /\ left \in Int /\ shut \in Int /\ paid = left + shut
    BY <1>1
<1>3. s = 1 \/ s = -1
    BY DEF Sign
<1>4. f.qty - covered = 0 => shut = paid
    BY <1>1
<1> HIDE DEF paid, left, shut, s
<1>5. CASE ~Closes(pos, f)
    <2>1. Filled(pos, f).cost = pos.cost + s * paid
        BY <1>5 DEF Filled, s, paid
    <2>2. Filled(pos, f).commission = pos.commission + f.commission
        BY <1>5 DEF Filled
    <2>3. CashImpact(f) = -(s * paid) - f.commission
        BY DEF CashImpact, s, paid
    <2>4. Pnl(pos, f) = 0
        BY <1>5 DEF Pnl
    <2> QED
        BY <1>1, <1>2, <1>3, <2>1, <2>2, <2>3, <2>4
<1>6. CASE Closes(pos, f)
    <2> DEFINE entry == EntryFee(pos, f)
               exit == ExitFee(pos, f)
               basis == Basis(pos, f)
    <2>1. entry \in Int /\ exit \in Int /\ basis \in Int
        BY <1>6, SharesType
    <2>2. CashImpact(f) = -(s * paid) - f.commission
        BY DEF CashImpact, s, paid
    <2>3. Pnl(pos, f) = -(s * shut) - basis - entry - exit
        BY <1>6 DEF Pnl, s, shut
    <2>4. CASE f.qty - covered > 0
        <3>1. covered < Abs(pos.qty) => FALSE
            BY <1>1, <1>6, <2>4, CoveredBounds DEF Covered, Lesser
        <3>2. covered = Abs(pos.qty)
            BY <1>1, <3>1, CoveredBounds
        <3>3. entry = pos.commission /\ basis = pos.cost
            BY <3>2 DEF EntryFee, Basis, Share
        <3>4. Filled(pos, f).cost = s * left
            BY <1>6, <2>4 DEF Filled, s, left
        <3>5. Filled(pos, f).commission = f.commission - exit
            BY <1>6, <2>4 DEF Filled
        <3> HIDE DEF entry, exit, basis, covered
        <3> QED
            BY <1>1, <1>2, <1>3, <2>1, <2>2, <2>3, <3>3, <3>4, <3>5
    <2>5. CASE ~(f.qty - covered > 0)
        <3>1. f.qty - covered = 0
            BY <1>1, <2>5, CoveredBounds
        <3>2. shut = paid
            BY <1>4, <3>1
        <3>3. covered = f.qty
            BY <1>1, <3>1
        <3>4. exit = f.commission
            BY <3>3 DEF ExitFee, Share
        <3>5. Filled(pos, f).cost = pos.cost - basis
            BY <1>6, <2>5 DEF Filled
        <3>6. Filled(pos, f).commission = pos.commission - entry
            BY <1>6, <2>5 DEF Filled
        <3> HIDE DEF entry, exit, basis, covered
        <3> QED
            BY <1>1, <1>2, <1>3, <2>1, <2>2, <2>3, <3>2, <3>4, <3>5, <3>6
    <2> QED
        BY <2>4, <2>5
<1> QED
    BY <1>5, <1>6

\* A fill that leaves the symbol flat leaves nothing in its position.
LEMMA FilledFlat ==
    ASSUME NEW pos \in PositionType, NEW f \in Fills,
           pos.qty = 0 => pos = Flat
    PROVE  Filled(pos, f).qty = 0 => Filled(pos, f) = Flat
<1> DEFINE covered == Covered(pos, f)
<1>1. /\ f.qty \in Nat /\ f.qty > 0 /\ f.side \in {"buy", "sell"}
      /\ covered \in Nat /\ pos.qty \in Int
      /\ pos.cost \in Int /\ pos.commission \in Int
    BY FillType, CoveredBounds DEF PositionType
<1>2. CASE ~Closes(pos, f)
    <2>1. Filled(pos, f).qty = pos.qty + Sign(f.side) * f.qty
        BY <1>2 DEF Filled
    <2>2. pos.qty + Sign(f.side) * f.qty # 0
        BY <1>1, <1>2 DEF Closes, Sign
    <2> QED
        BY <2>1, <2>2
<1>3. CASE Closes(pos, f) /\ f.qty - covered > 0
    <2>1. Filled(pos, f).qty = Sign(f.side) * (f.qty - covered)
        BY <1>3 DEF Filled
    <2>2. Sign(f.side) * (f.qty - covered) # 0
        BY <1>1, <1>3 DEF Sign
    <2> QED
        BY <2>1, <2>2
<1>4. CASE Closes(pos, f) /\ ~(f.qty - covered > 0)
    <2>1. Filled(pos, f) = [qty |-> pos.qty + Sign(f.side) * f.qty,
                            cost |-> pos.cost - Basis(pos, f),
                            commission |-> pos.commission - EntryFee(pos, f)]
        BY <1>4 DEF Filled
    <2>2. covered = f.qty
        BY <1>1, <1>4, CoveredBounds
    <2> HIDE DEF covered
    <2> SUFFICES ASSUME pos.qty + Sign(f.side) * f.qty = 0
                 PROVE  Filled(pos, f) = Flat
        BY <2>1
    <2>3. f.qty = Abs(pos.qty)
        BY <1>1, <1>4 DEF Closes, Sign, Abs
    <2>4. Basis(pos, f) = pos.cost /\ EntryFee(pos, f) = pos.commission
        BY <2>2, <2>3 DEF Basis, EntryFee, Share, covered
    <2> QED
        BY <1>1, <2>1, <2>4 DEF Flat
<1> QED
    BY <1>2, <1>3, <1>4

\* A fill keeps the cost on the side of the quantity.
LEMMA FilledSide ==
    ASSUME NEW pos \in PositionType, NEW f \in Fills,
           pos.qty = 0 => pos = Flat,
           pos.qty > 0 => pos.cost >= 0, pos.qty < 0 => pos.cost <= 0
    PROVE  /\ Filled(pos, f).qty > 0 => Filled(pos, f).cost >= 0
           /\ Filled(pos, f).qty < 0 => Filled(pos, f).cost <= 0
<1> DEFINE covered == Covered(pos, f)
           paid == f.price * f.qty
           left == f.price * (f.qty - covered)
<1>1. /\ f.qty \in Nat /\ f.qty > 0 /\ f.side \in {"buy", "sell"}
      /\ covered \in Nat /\ covered <= f.qty /\ covered <= Abs(pos.qty)
      /\ pos.qty \in Int /\ pos.cost \in Int
    BY FillType, CoveredBounds DEF PositionType
<1>2. paid \in Nat /\ left \in Nat
    BY <1>1, FillType
<1>3. pos.qty = 0 => pos.cost = 0
    BY DEF Flat
<1> HIDE DEF paid, left
<1>4. CASE ~Closes(pos, f)
    <2>1. /\ Filled(pos, f).qty = pos.qty + Sign(f.side) * f.qty
          /\ Filled(pos, f).cost = pos.cost + Sign(f.side) * paid
        BY <1>4 DEF Filled, paid
    <2> QED
        BY <1>1, <1>2, <1>3, <1>4, <2>1 DEF Closes, Sign
<1>5. CASE Closes(pos, f) /\ f.qty - covered > 0
    <2>1. /\ Filled(pos, f).qty = Sign(f.side) * (f.qty - covered)
          /\ Filled(pos, f).cost = Sign(f.side) * left
        BY <1>5 DEF Filled, left
    <2> HIDE DEF covered
    <2> QED
        BY <1>1, <1>2, <1>5, <2>1 DEF Sign
<1>6. CASE Closes(pos, f) /\ ~(f.qty - covered > 0)
    <2>1. /\ Filled(pos, f).qty = pos.qty + Sign(f.side) * f.qty
          /\ Filled(pos, f).cost = pos.cost - Basis(pos, f)
        BY <1>6 DEF Filled
    <2>2. f.qty <= Abs(pos.qty)
        BY <1>1, <1>6
    <2> HIDE DEF covered
    <2> QED
        BY <1>1, <1>6, <2>1, <2>2, SharesType DEF Closes, Sign, Abs
<1> QED
    BY <1>4, <1>5, <1>6

\* The inductive invariant of the account.
AccountInv == AccountTypeOK /\ Books /\ FlatIsEmpty /\ CostSide

\* The books of a symbol balance, and a flat symbol holds nothing back, for
\* every capital, price, size and commission: Portfolio::apply_fill neither
\* creates nor loses money, whatever the order of entries, pyramids, partial
\* closes and reversals.
THEOREM BooksBalance == AccountSpec => []AccountSound
<1>1. AccountInit => AccountInv
    BY AccountAssumption
       DEF AccountInit, AccountInv, AccountTypeOK, Books, FlatIsEmpty, CostSide, Flat
<1>2. AccountInv /\ [AccountNext]_accountVars => AccountInv'
    <2> SUFFICES ASSUME AccountInv, [AccountNext]_accountVars
                 PROVE  AccountInv'
        OBVIOUS
    <2>1. position \in PositionType /\ cash \in Int /\ realized \in Int
        BY DEF AccountInv, AccountTypeOK, PositionType
    <2>2. CASE AccountNext
        <3>1. PICK f \in Fills : ApplyFill(f)
            BY <2>2 DEF AccountNext
        <3>2. Filled(position, f) \in PositionType /\ Pnl(position, f) \in Int
            BY <2>1, FilledType
        <3>3. CashImpact(f) \in Int
            <4>1. f.price * f.qty \in Int /\ f.commission \in Int
                BY FillType
            <4> DEFINE paid == f.price * f.qty
            <4>2. paid \in Int
                BY <4>1
            <4> HIDE DEF paid
            <4>3. -(Sign(f.side) * paid) \in Int
                BY <4>2 DEF Sign
            <4> QED
                BY <4>1, <4>3 DEF CashImpact, paid
        <3>4. AccountTypeOK'
            BY <2>1, <3>1, <3>2, <3>3 DEF ApplyFill, AccountTypeOK, PositionType
        <3>5. Books'
            <4>1. CashImpact(f) + Filled(position, f).cost
                    + Filled(position, f).commission
                    = position.cost + position.commission + Pnl(position, f)
                BY <2>1, FillBalance
            <4>2. /\ position.cost \in Int /\ position.commission \in Int
                  /\ Filled(position, f).cost \in Int
                  /\ Filled(position, f).commission \in Int
                BY <2>1, <3>2 DEF PositionType
            <4>3. cash + position.cost + position.commission = Capital + realized
                BY DEF AccountInv, Books
            <4>4. (cash + CashImpact(f)) + Filled(position, f).cost
                    + Filled(position, f).commission
                    = Capital + (realized + Pnl(position, f))
                BY <2>1, <3>2, <3>3, <4>1, <4>2, <4>3, AccountAssumption
            <4> QED
                BY <3>1, <4>4 DEF ApplyFill, Books
        <3>6. FlatIsEmpty'
            BY <2>1, <3>1, FilledFlat DEF ApplyFill, FlatIsEmpty, AccountInv
        <3>7. CostSide'
            BY <2>1, <3>1, FilledSide DEF ApplyFill, FlatIsEmpty, CostSide, AccountInv
        <3> QED
            BY <3>4, <3>5, <3>6, <3>7 DEF AccountInv
    <2>3. CASE UNCHANGED accountVars
        BY <2>3 DEF accountVars, AccountInv, AccountTypeOK, Books, FlatIsEmpty, CostSide
    <2> QED
        BY <2>2, <2>3
<1>3. AccountInv => AccountSound
    BY DEF AccountInv, AccountSound
<1> QED
    BY <1>1, <1>2, <1>3, PTL DEF AccountSpec

-----------------------------------------------------------------------------
(* Walk-forward validation                                                  *)

WindowFormat == [is : Nat \X Nat, oos : Nat \X Nat]

WfType ==
    /\ wf \in [cfg : WfConfigs, n : BarCounts]
    /\ index \in Nat /\ oosEnd \in Nat
    /\ windows \in Seq(WindowFormat)

\* The window being measured: it starts within the data, is as long as asked or
\* ends with the data, and is not longer without probes.
Measured ==
    wfAt \in {"probe", "run", "panic"} =>
        /\ EmbargoEnd < wf.n /\ oosEnd <= wf.n
        /\ oosEnd >= Least(OosStart + wf.cfg.oos_bars, wf.n)
        /\ wf.cfg.min_trades = 0 => oosEnd <= OosStart + wf.cfg.oos_bars /\ wfAt # "probe"

\* Windows that do not overlap have all ended before the next one starts.
EndedBefore ==
    wf.cfg.min_trades = 0 /\ wf.cfg.step_bars >= wf.cfg.oos_bars =>
        \A i \in DOMAIN windows : windows[i].oos[2] <= OosStart

WfInv == WfType /\ Measured /\ EndedBefore /\ WindowsSound

\* The windows advance by step_bars.
LEMMA NextProduct ==
    ASSUME NEW a \in Nat, NEW b \in Nat
    PROVE  a * b \in Nat /\ (a + 1) * b = a * b + b
OBVIOUS

\* The bounds of the current window are bar numbers, in this order.
LEMMA Bounds ==
    ASSUME WfType
    PROVE  /\ wf.n \in Nat /\ wf.cfg.oos_bars \in Nat /\ wf.cfg.step_bars \in Nat /\ wf.cfg.embargo \in Nat
           /\ OosStart \in Nat /\ IsStart \in Nat /\ EmbargoEnd \in Nat
           /\ IsStart <= OosStart /\ OosStart <= EmbargoEnd /\ EmbargoEnd = OosStart + wf.cfg.embargo
<1>1. /\ wf.n \in Nat /\ wf.cfg.is_bars \in Nat /\ wf.cfg.oos_bars \in Nat
      /\ wf.cfg.step_bars \in Nat /\ wf.cfg.embargo \in Nat /\ index \in Nat
    BY WalkForwardAssumption DEF WfType
<1>2. PICK p \in Nat : p = index * wf.cfg.step_bars
    BY <1>1, NextProduct
<1>3. OosStart = wf.cfg.is_bars + p /\ IsStart \in {0, p}
    BY <1>2 DEF OosStart, IsStart
<1>4. OosStart \in Nat /\ IsStart \in Nat /\ IsStart <= OosStart
    BY <1>1, <1>3
<1> QED
    BY <1>1, <1>4 DEF EmbargoEnd

\* The loop starts before the first window.
LEMMA WfStart ==
    ASSUME WfInit
    PROVE  WfInv
<1>1. WfType
    BY DEF WfInit, WfType
<1>2. Measured /\ EndedBefore /\ WindowsSound
    BY DEF WfInit, Measured, EndedBefore, WindowsSound, NoLookAhead, StitchedInOrder, PanicsOnlyOnEmbargo
<1> QED
    BY <1>1, <1>2 DEF WfInv

\* A step that records nothing.
LEMMA NothingRecorded ==
    ASSUME WfInv, UNCHANGED <<wf, index, windows>>, oosEnd' \in Nat, Measured', PanicsOnlyOnEmbargo'
    PROVE  WfInv'
<1>1. WfType' /\ OosStart' = OosStart
    BY DEF WfInv, WfType, OosStart
<1>2. EndedBefore'
    BY <1>1 DEF WfInv, EndedBefore
<1>3. NoLookAhead' /\ StitchedInOrder'
    BY DEF WfInv, WindowsSound, NoLookAhead, StitchedInOrder
<1> QED
    BY <1>1, <1>2, <1>3 DEF WfInv, WindowsSound

\* A window is run and recorded: it starts after its own sample, and after the
\* windows before it, which the next start is still past.
LEMMA WindowRecorded ==
    ASSUME WfInv, RunWindow, EmbargoEnd <= oosEnd
    PROVE  WfInv'
<1>1. /\ windows' = Append(windows, RecordedWindow) /\ index' = index + 1
      /\ wfAt' \in {"done", "window"} /\ wfAt = "run" /\ UNCHANGED <<wf, oosEnd>>
      /\ wf.n \in Nat /\ wf.cfg.oos_bars \in Nat /\ wf.cfg.step_bars \in Nat /\ wf.cfg.embargo \in Nat
      /\ OosStart \in Nat /\ IsStart \in Nat /\ EmbargoEnd \in Nat /\ oosEnd \in Nat /\ index \in Nat
      /\ IsStart <= OosStart /\ OosStart <= EmbargoEnd
    <2>1. WfType /\ ~(EmbargoEnd > oosEnd)
        BY Bounds DEF WfInv, WfType
    <2> QED
        BY <2>1, Bounds DEF RunWindow, WfType
<1>2. PICK w : w = RecordedWindow
    OBVIOUS
<1>3. /\ w \in WindowFormat
      /\ w.is[1] = IsStart /\ w.is[2] = OosStart /\ w.oos[1] = EmbargoEnd /\ w.oos[2] = oosEnd
    BY <1>1, <1>2 DEF RecordedWindow, WindowFormat
<1>4. /\ windows \in Seq(WindowFormat) /\ Len(windows) \in Nat
      /\ \A i \in DOMAIN windows : windows[i].oos[2] \in Nat
    <2>1. windows \in Seq(WindowFormat) /\ Len(windows) \in Nat
        BY DEF WfInv, WfType
    <2>2. \A x \in WindowFormat : x.oos[2] \in Nat
        BY DEF WindowFormat
    <2> QED
        BY <2>1, <2>2
<1>5. /\ DOMAIN windows' = 1..(Len(windows) + 1) /\ DOMAIN windows = 1..Len(windows)
      /\ windows'[Len(windows) + 1] = w
      /\ \A i \in DOMAIN windows : windows'[i] = windows[i]
    <2>1. windows' = Append(windows, w)
        BY <1>1, <1>2
    <2> QED
        BY <1>3, <1>4, <2>1
<1>6. \A i \in DOMAIN windows' : i \in DOMAIN windows \/ i = Len(windows) + 1
    BY <1>4, <1>5
<1>7. WfType'
    BY <1>1, <1>2, <1>3, <1>4 DEF WfInv, WfType
<1>8. Measured' /\ PanicsOnlyOnEmbargo'
    BY <1>1 DEF Measured, PanicsOnlyOnEmbargo
<1>9. NoLookAhead'
    <2>1. w.is[1] <= w.is[2] /\ w.is[2] <= w.oos[1] /\ w.oos[1] <= w.oos[2] /\ w.oos[2] <= wf.n
        BY <1>1, <1>3 DEF WfInv, Measured
    <2> QED
        BY <1>1, <1>5, <1>6, <2>1 DEF WfInv, WindowsSound, NoLookAhead
<1>10. ASSUME wf.cfg.min_trades = 0, wf.cfg.step_bars >= wf.cfg.oos_bars
       PROVE  \A i \in DOMAIN windows' : windows'[i].oos[2] <= OosStart'
    <2>1. OosStart' = OosStart + wf.cfg.step_bars
        <3>1. (index + 1) * wf.cfg.step_bars = index * wf.cfg.step_bars + wf.cfg.step_bars
            BY <1>1, NextProduct
        <3>2. wf.cfg.is_bars \in Nat /\ index * wf.cfg.step_bars \in Nat
            BY <1>1, NextProduct, WalkForwardAssumption DEF WfInv, WfType
        <3>3. OosStart' = wf.cfg.is_bars + (index + 1) * wf.cfg.step_bars
            BY <1>1 DEF OosStart
        <3>4. PICK p \in Nat : p = index * wf.cfg.step_bars
            BY <3>2
        <3>5. OosStart = wf.cfg.is_bars + p /\ OosStart' = wf.cfg.is_bars + (p + wf.cfg.step_bars)
            BY <3>1, <3>3, <3>4 DEF OosStart
        <3>6. PICK a \in Nat, b \in Nat : a = wf.cfg.is_bars /\ b = wf.cfg.step_bars
            BY <1>1, <3>2
        <3>7. a + (p + b) = (a + p) + b
            OBVIOUS
        <3> QED
            BY <3>5, <3>6, <3>7
    <2>2. w.oos[2] <= OosStart + wf.cfg.step_bars
        BY <1>1, <1>3, <1>10 DEF WfInv, Measured
    <2>3. \A i \in DOMAIN windows : windows[i].oos[2] \in Nat /\ windows[i].oos[2] <= OosStart
        BY <1>4, <1>10 DEF WfInv, EndedBefore
    <2>4. \A i \in DOMAIN windows : windows[i].oos[2] <= OosStart + wf.cfg.step_bars
        BY <1>1, <2>3
    <2> QED
        BY <1>5, <1>6, <2>1, <2>2, <2>4
<1>11. EndedBefore'
    BY <1>1, <1>10 DEF EndedBefore
<1>12. StitchedInOrder'
    <2>1. SUFFICES ASSUME wf.cfg.min_trades = 0, wf.cfg.step_bars >= wf.cfg.oos_bars,
                          NEW i \in DOMAIN windows', NEW j \in DOMAIN windows', i < j
                   PROVE  windows'[i].oos[2] <= windows'[j].oos[1]
        BY <1>1 DEF StitchedInOrder
    <2>2. i \in DOMAIN windows
        BY <1>4, <1>5, <2>1
    <2>3. CASE j \in DOMAIN windows
        BY <1>5, <2>1, <2>2, <2>3 DEF WfInv, WindowsSound, StitchedInOrder
    <2>4. CASE j = Len(windows) + 1
        <3>1. windows[i].oos[2] \in Nat /\ windows[i].oos[2] <= OosStart
            BY <1>4, <2>1, <2>2 DEF WfInv, EndedBefore
        <3> QED
            BY <1>1, <1>3, <1>5, <2>2, <2>4, <3>1
    <2> QED
        BY <1>6, <2>3, <2>4
<1> QED
    BY <1>7, <1>8, <1>9, <1>11, <1>12 DEF WfInv, WindowsSound

\* Every step of the loop.
LEMMA WfStep ==
    ASSUME WfInv, [WfNext]_wfVars
    PROVE  WfInv'
<1>1. /\ wf.n \in Nat /\ wf.cfg.oos_bars \in Nat /\ wf.cfg.embargo \in Nat /\ oosEnd \in Nat
      /\ OosStart \in Nat /\ EmbargoEnd \in Nat /\ EmbargoEnd = OosStart + wf.cfg.embargo
    BY Bounds DEF WfInv, WfType
<1>2. ASSUME UNCHANGED <<wf, index>>
      PROVE  OosStart' = OosStart /\ EmbargoEnd' = EmbargoEnd
    BY <1>2 DEF OosStart, EmbargoEnd
<1>3. CASE Window
    <2>1. UNCHANGED <<wf, index, windows>> /\ wfAt' \in {"done", "run", "probe"}
        BY <1>3 DEF Window
    <2>2. oosEnd' \in Nat
        BY <1>1, <1>3 DEF Window, Least
    <2>3. Measured'
        BY <1>1, <1>2, <1>3, <2>1 DEF Window, Least, Measured
    <2> QED
        BY <2>1, <2>2, <2>3, NothingRecorded DEF PanicsOnlyOnEmbargo
<1>4. ASSUME NEW trades \in 0..2, Probe(trades)
      PROVE  WfInv'
    <2>1. UNCHANGED <<wf, index, windows>> /\ wfAt = "probe" /\ wfAt' \in {"run", "probe"}
        BY <1>4 DEF Probe
    <2>2. oosEnd' \in Nat
        BY <1>1, <1>4 DEF Probe, Least
    <2>3. Measured'
        BY <1>1, <1>2, <1>4, <2>1 DEF Probe, Least, Measured, WfInv
    <2> QED
        BY <2>1, <2>2, <2>3, NothingRecorded DEF PanicsOnlyOnEmbargo
<1>5. CASE RunWindow /\ EmbargoEnd > oosEnd
    <2>1. UNCHANGED <<wf, index, windows, oosEnd>> /\ wfAt = "run" /\ wfAt' = "panic"
        BY <1>5 DEF RunWindow
    <2>2. Measured'
        BY <1>2, <2>1 DEF Measured, WfInv
    <2>3. wf.cfg.embargo > wf.cfg.oos_bars
        BY <1>1, <1>5, <2>1 DEF WfInv, Measured, Least
    <2>4. oosEnd' \in Nat
        BY <1>1, <2>1
    <2> QED
        BY <2>1, <2>2, <2>3, <2>4, NothingRecorded DEF PanicsOnlyOnEmbargo
<1>6. CASE RunWindow /\ ~(EmbargoEnd > oosEnd)
    BY <1>1, <1>6, WindowRecorded
<1>7. CASE UNCHANGED wfVars
    <2>1. UNCHANGED <<wf, wfAt, index, oosEnd, windows>>
        BY <1>7 DEF wfVars
    <2> QED
        BY <1>1, <1>2, <2>1, NothingRecorded DEF WfInv, Measured, WindowsSound, PanicsOnlyOnEmbargo
<1> QED
    BY <1>3, <1>4, <1>5, <1>6, <1>7 DEF WfNext

\* Walk-forward validation never judges a window on bars of its own sample, keeps
\* its ranges within the data, does not overlap windows that advance by their
\* length, and panics only for an embargo longer than the window.
THEOREM WindowsAreSound == WfSpec => []WindowsSound
<1>1. WfInit => WfInv
    BY WfStart
<1>2. WfInv /\ [WfNext]_wfVars => WfInv'
    BY WfStep
<1>3. WfInv => WindowsSound
    BY DEF WfInv
<1> QED
    BY <1>1, <1>2, <1>3, PTL DEF WfSpec
=============================================================================
