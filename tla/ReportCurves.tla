---------------------------- MODULE ReportCurves -----------------------------
(*************************************************************************)
(* The curves of a report: their compression and the bootstrap over them. *)
(*************************************************************************)
EXTENDS Integers, Sequences, SequencesExt, FiniteSets, FiniteSetsExt

(***************************************************************************)
(* The curve compressions of engine/src/helper/curve_compress.rs: which      *)
(* points of a curve each keeps.  A curve is a sequence of points [t, v]     *)
(* that grows a point at a time; indices begin at 1.                         *)
(***************************************************************************)

CONSTANTS
    CurveValues,    \* values of a point
    MaxCurve,       \* bound on the points
    Targets         \* buckets and target counts asked for

\* With a target of 1 the number of buckets, target - 2, wraps around; lttb has no
\* caller but its tests so far, and the targets here are those it is meant for.
ASSUME CompressAssumption == CurveValues \subseteq Int /\ MaxCurve \in Nat /\ Targets \subseteq Nat \ {0, 1}

VARIABLE pts

V(i) == pts[i].v
T(i) == pts[i].t
N == Len(pts)

\* Where the run of equal values that begins at i ends.
RunEnd(i) == Max({j \in i..N : \A k \in i..j : V(k) = V(i)})

\* The loop of dedup_flat from i on: a run's first point and, behind it, its last.
FlatEdges[i \in 1..(MaxCurve + 1)] ==
    IF i > N THEN <<>>
    ELSE (IF RunEnd(i) > i THEN <<i, RunEnd(i)>> ELSE <<i>>) \o FlatEdges[RunEnd(i) + 1]

\* dedup_flat, which is all compress does.
Dedup_flat == IF N <= 2 THEN [i \in 1..N |-> i] ELSE FlatEdges[1]

\* change_only: the first, every point that differs from the one before, the last.
Change_only ==
    IF N <= 1 THEN [i \in 1..N |-> i]
    ELSE LET out == SelectSeq([i \in 1..N |-> i], LAMBDA i : i = 1 \/ V(i) # V(i-1))
         IN  IF T(out[Len(out)]) # T(N) THEN Append(out, N) ELSE out

Rounded(a, b) == (2 * a + b) \div (2 * b)

\* The first of the points from..to that is lowest, or highest.
FirstLowest(from, to) == CHOOSE i \in from..to :
    \A j \in from..to : V(i) < V(j) \/ (V(i) = V(j) /\ i <= j)
FirstHighest(from, to) == CHOOSE i \in from..to :
    \A j \in from..to : V(i) > V(j) \/ (V(i) = V(j) /\ i <= j)

\* Bucket b of time_bucket, from 0 on.
BucketOf(b, buckets) == <<1 + Rounded(b * N, buckets), Min({N, Rounded((b + 1) * N, buckets)})>>

\* time_bucket: the lowest and the highest point of each bucket, in time order.
Time_bucket(buckets) ==
    IF buckets = 0 \/ N <= buckets * 2 THEN [i \in 1..N |-> i]
    ELSE FlattenSeq([b \in 1..buckets |->
            LET r == BucketOf(b - 1, buckets)
                kept == {FirstLowest(r[1], r[2]), FirstHighest(r[1], r[2])}
            IN  IF r[1] > r[2] THEN <<>> ELSE SetToSortSeq(kept, LAMBDA x, y : x < y)])

\* Mutant: the buckets begin with the first point, which is kept anyway.
LttbRangeFromFirst(b, target) ==
    LET at(k) == (k * (N - 2)) \div (target - 2)
    IN  [start |-> at(b), end |-> Min({N - 1, at(b + 1)}), next_end |-> Min({N, at(b + 2)})]

\* The ranges of bucket b of lttb, from 0 on, as the code's own indices: start
\* up to end, and end up to next_end for the bucket that follows.
LttbRange(b, target) ==
    LET at(k) == ((k * (N - 2)) \div (target - 2)) + 1
    IN  [start |-> at(b), end |-> Min({N - 1, at(b + 1)}), next_end |-> Min({N, at(b + 2)})]

Magnitude(x) == IF x < 0 THEN -x ELSE x

\* The triangle over prev, k and the mean of the following bucket, its area times
\* the number of points in that; the last of the largest is taken.
LargestTriangle(r, prev) ==
    LET next == IF r.end < r.next_end THEN (r.end + 1)..r.next_end ELSE {N}
        len == Cardinality(next)
        sumT == MapThenSumSet(T, next)
        sumV == MapThenSumSet(V, next)
        area(k) == Magnitude((T(prev) * len - sumT) * (V(k) - V(prev))
                             - (T(prev) - T(k)) * (sumV - V(prev) * len))
    IN  CHOOSE k \in (r.start + 1)..r.end :
            \A j \in (r.start + 1)..r.end : area(j) < area(k) \/ (area(j) = area(k) /\ j <= k)

\* lttb.
Lttb(target) ==
    IF target = 0 \/ N <= target THEN [i \in 1..N |-> i]
    ELSE FoldLeft(LAMBDA out, b :
                     LET r == LttbRange(b - 1, target)
                     IN  IF r.start >= r.end THEN out
                         ELSE Append(out, LargestTriangle(r, out[Len(out)])),
                  <<1>>, [b \in 1..(target - 2) |-> b])
         \o <<N>>

CompressInit == pts = <<>>

NextPoint ==
    /\ N < MaxCurve
    /\ \E v \in CurveValues : pts' = Append(pts, [t |-> N, v |-> v])

CompressSpec == CompressInit /\ [][NextPoint]_pts

-----------------------------------------------------------------------------
(* Properties                                                              *)

InOrder(s) == \A i, j \in DOMAIN s : i < j => s[i] < s[j]

\* dedup_flat drops a point only between two of its own value, so that a line
\* drawn through what is kept goes through every point of the curve.
FlatLossless ==
    Dedup_flat = SelectSeq([i \in 1..N |-> i],
                    LAMBDA i : N <= 2 \/ i = 1 \/ i = N \/ V(i) # V(i-1) \/ V(i) # V(i+1))

\* change_only keeps the ends, and the value at any point is that of the last
\* point kept before it.
ChangesKept ==
    N > 0 =>
        /\ InOrder(Change_only)
        /\ Change_only[1] = 1 /\ Change_only[Len(Change_only)] = N
        /\ \A i \in 1..N : V(Max({k \in Range(Change_only) : k <= i})) = V(i)

\* time_bucket's buckets leave no point between them, so the curve's peak and
\* trough survive at no more than two points a bucket.
PeaksSurvive ==
    \A buckets \in Targets : N > 0 =>
        LET kept == Time_bucket(buckets)
        IN  /\ InOrder(kept)
            /\ N > 2 * buckets => Len(kept) <= 2 * buckets
            /\ {Max({V(i) : i \in 1..N}), Min({V(i) : i \in 1..N})} \subseteq {V(k) : k \in Range(kept)}

\* lttb returns exactly the number of points asked for, the first and the last
\* among them, in order and none twice: no bucket is ever empty.
LttbExact ==
    \A target \in Targets : N > target =>
        LET kept == Lttb(target)
        IN  /\ Len(kept) = target
            /\ InOrder(kept)
            /\ kept[1] = 1 /\ kept[target] = N

-----------------------------------------------------------------------------
(***************************************************************************)
(* The bootstrap of a report (monte_carlo::run): paths of equity drawn with  *)
(* replacement from the trades' returns, and the bands over them.  A return *)
(* is kept as its factor in halves; the generator may draw any trade.       *)
(***************************************************************************)

CONSTANTS
    TradeFactors,   \* the trades of a backtest: sequences of factors, in halves
    StartCapital,   \* a multiple of 2^(number of trades)
    RuinFloor,      \* ruin_threshold * initial_capital
    Iterations      \* cfg.n_iter

ASSUME MonteCarloAssumption ==
    /\ StartCapital \in Nat /\ RuinFloor \in Nat /\ Iterations \in Nat \ {0}
    /\ \A f \in TradeFactors : StartCapital % (2 ^ Len(f)) = 0

VARIABLES
    factors,
    path,           \* curve of the iteration under way
    ruined,         \* of that iteration
    all_curves,
    ruin_count

mcarloVars == <<factors, path, ruined, all_curves, ruin_count>>

MonteCarloInit ==
    /\ factors \in TradeFactors
    /\ path = <<StartCapital>> /\ ruined = FALSE
    /\ all_curves = <<>> /\ ruin_count = 0

Running == Len(factors) >= 2 /\ Len(all_curves) < Iterations

\* One step of the inner loop.
Draw ==
    /\ Running /\ Len(path) <= Len(factors)
    /\ \E idx \in DOMAIN factors :
        LET equity == (Last(path) * factors[idx]) \div 2
        IN  path' = Append(path, equity) /\ ruined' = (ruined \/ equity <= RuinFloor)
    /\ UNCHANGED <<factors, all_curves, ruin_count>>

\* The end of an iteration.
EndPath ==
    /\ Running /\ Len(path) = Len(factors) + 1
    /\ all_curves' = Append(all_curves, path)
    /\ ruin_count' = IF ruined THEN ruin_count + 1 ELSE ruin_count
    /\ path' = <<StartCapital>> /\ ruined' = FALSE
    /\ UNCHANGED factors

MonteCarloNext == Draw \/ EndPath

MonteCarloSpec == MonteCarloInit /\ [][MonteCarloNext]_mcarloVars

-----------------------------------------------------------------------------
(* The result                                                              *)

\* percentile_sorted, in hundredths.
Percentile_sorted(sorted, pct) ==
    LET at == pct * (Len(sorted) - 1)
        lo == at \div 100
        hi == IF lo + 1 < Len(sorted) THEN lo + 1 ELSE Len(sorted) - 1
    IN  sorted[lo + 1] * (100 - (at % 100)) + sorted[hi + 1] * (at % 100)

\* The values of all paths at one step, sorted.
Step_vals(t) == SortSeq([i \in DOMAIN all_curves |-> all_curves[i][t]], LAMBDA a, b : a < b)

Pcts == <<5, 10, 25, 50, 75, 90, 95>>

\* curve_p5 .. curve_p95; final_p5 .. final_p95, of all_finals, are their last
\* points.
Band(pct) == [t \in 1..(Len(factors) + 1) |-> Percentile_sorted(Step_vals(t), pct)]

-----------------------------------------------------------------------------
(* Properties                                                              *)

\* The fan chart is one: at every step the bands are in order and between the
\* worst and the best path, and all of them start at the capital.
FanChart ==
    all_curves # <<>> =>
        \A t \in 1..(Len(factors) + 1) :
            LET vals == {all_curves[i][t] : i \in DOMAIN all_curves}
            IN  /\ \A i \in 1..6 : Band(Pcts[i])[t] <= Band(Pcts[i + 1])[t]
                /\ \E v \in vals : 100 * v <= Band(5)[t]
                /\ \E v \in vals : 100 * v >= Band(95)[t]
                /\ t = 1 => Band(50)[t] = 100 * StartCapital

\* Ruin counts the paths that ever fell to the floor, wherever they ended; so
\* with no ruined path even the lowest band stays above it.
RuinAgrees ==
    /\ ruin_count = Cardinality({i \in DOMAIN all_curves :
                                    \E t \in 2..Len(all_curves[i]) : all_curves[i][t] <= RuinFloor})
    /\ (all_curves # <<>> /\ ruin_count = 0) =>
          \A t \in 2..(Len(factors) + 1) : Band(5)[t] > 100 * RuinFloor

\* A compressed curve keeps what its method promises, and the bootstrap's bands
\* and ruin count are those of the paths drawn.
CurvesSound == FlatLossless /\ ChangesKept /\ PeaksSurvive /\ LttbExact /\ FanChart /\ RuinAgrees
=============================================================================
