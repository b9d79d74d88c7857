------------------------------ MODULE ScriptTa ------------------------------
(***************************************************************************)
(* ta.*: the incremental primitives of scripts.  Each declaration           *)
(* `let NAME = ta.FUNC(..)` owns the slot NAME of the map ta_state, which    *)
(* on_bar copies into the scope and writes back when the script succeeds.   *)
(* Numbers are fractions <<numerator, denominator>>, exact where the code's *)
(* are f64 (a KahanSum is its sum); stdev is kept as its square.            *)
(***************************************************************************)
EXTENDS Integers, Sequences, SequencesExt, FiniteSetsExt

CONSTANTS
    Scripts,    \* [regime, main]: declarations [key, func, period, buf, strict]
    TaInputs,   \* <<value, weight>> of a bar
    Raises,     \* whether a script may end in errors of its own
    MaxTaBars   \* bars of a run

ASSUME ScriptTaAssumption ==
    MaxTaBars \in Nat /\ Raises \in BOOLEAN /\ \A x \in TaInputs : x[1] \in Int /\ x[2] \in Int

VARIABLES
    program,
    ta_state,   \* key |-> slot, for the keys called since the last reset
    fedTo,      \* ghost: the inputs of a slot since it was made
    advances,   \* ghost: calls of a declaration that were kept
    fedBars,    \* bound
    failed      \* whether the last bar ended in a runtime error

taVars == <<program, ta_state, fedTo, advances, fedBars, failed>>

-----------------------------------------------------------------------------
(* Fractions and windows                                                   *)

Frac(n) == <<n, 1>>
RECURSIVE Gcd(_, _)
Gcd(a, b) == IF b = 0 THEN a ELSE Gcd(b, a % b)
Reduced(n, d) == LET g == Gcd(IF n < 0 THEN -n ELSE n, d) IN <<n \div g, d \div g>>
Plus(a, b) == Reduced(a[1] * b[2] + b[1] * a[2], a[2] * b[2])
Mult(a, b) == Reduced(a[1] * b[1], a[2] * b[2])
Same(a, b) == a[1] * b[2] = b[1] * a[2]
PlusAll(s) == FoldLeft(Plus, Frac(0), s)

\* A value while warming up is (), here {}.
Warm(v, ready) == IF ready THEN {v} ELSE {}

AtLeast(n, least) == IF n < least THEN least ELSE n

-----------------------------------------------------------------------------
(* The slots: every struct of ta.rs has the fields it needs of this record  *)

Slot(d) == [period |-> AtLeast(d.period, IF d.func = "hma" THEN 4 ELSE 1),
            val |-> {}, buffer |-> <<>>, half |-> <<>>, raws |-> <<>>,
            sum |-> 0, sum_sq |-> 0, hist |-> <<>>]

\* The struct after an update, and what the update returned.
Stepped(slot, out) == [slot |-> slot, out |-> out]

\* TaEma, TaSmma, TaDecay: update.  The first value is the seed.
Blend(s, alpha, value) ==
    LET rest == <<alpha[2] - alpha[1], alpha[2]>>
        v == IF s.val = {} THEN Frac(value)
             ELSE Plus(Mult(Frac(value), alpha), Mult(CHOOSE x \in s.val : TRUE, rest))
    IN  Stepped([s EXCEPT !.val = {v}], {v})

\* push_back, and pop_front of what is beyond the period.
Pushed(buffer, x, period) ==
    LET b == Append(buffer, x) IN IF Len(b) > period THEN Tail(b) ELSE b

\* TaWindowSum::push and TaStdev::push: the sums follow the buffer.
WindowPush(s, x) ==
    LET old == IF Len(s.buffer) = s.period THEN Head(s.buffer) ELSE 0
    IN  [s EXCEPT !.buffer = Pushed(@, x, s.period),
                  !.sum = @ + x - old, !.sum_sq = @ + x * x - old * old]

IsFull(s) == Len(s.buffer) = s.period

Variance(s) == <<s.sum_sq * s.period - s.sum * s.sum, s.period * s.period>>

\* Wma::update on a full buffer: weights 1 .. period, the newest heaviest.
WmaOf(buffer) ==
    LET n == Len(buffer)
    IN  Mult(PlusAll([i \in 1..n |-> Mult(Frac(i), buffer[i])]), <<2, n * (n + 1)>>)

\* (period as f64).sqrt().round()
SqrtRounded(n) == CHOOSE r \in 0..n : (2 * r - 1) * (2 * r - 1) <= 4 * n /\ 4 * n < (2 * r + 1) * (2 * r + 1)

\* Hma::update: 2 * WMA(n/2) - WMA(n), smoothed by WMA(sqrt n).
HmaUpdate(s, value) ==
    LET full == Pushed(s.buffer, Frac(value), s.period)
        half == Pushed(s.half, Frac(value), AtLeast(s.period \div 2, 1))
        raw == Plus(Mult(Frac(2), WmaOf(half)), Mult(Frac(-1), WmaOf(full)))
        raws == IF Len(full) < s.period THEN s.raws ELSE Pushed(s.raws, raw, SqrtRounded(s.period))
    IN  Stepped([s EXCEPT !.buffer = full, !.half = half, !.raws = raws],
               Warm(WmaOf(raws), Len(raws) = SqrtRounded(s.period)))

\* Vwma::update: a negative weight counts as none, and with no weight in the
\* window it is the plain mean.
VwmaUpdate(s, value, weight) ==
    LET b == Pushed(s.buffer, <<value, AtLeast(weight, 0)>>, s.period)
        price == FoldLeft(LAMBDA a, x : a + x[1], 0, b)
        priced == FoldLeft(LAMBDA a, x : a + x[1] * x[2], 0, b)
        weights == FoldLeft(LAMBDA a, x : a + x[2], 0, b)
    IN  Stepped([s EXCEPT !.buffer = b],
               Warm(IF weights = 0 THEN <<price, s.period>> ELSE <<priced, weights>>, Len(b) = s.period))

\* ta_ema .. ta_vwma: the update of the slot.  The alpha of decay is an
\* argument of every call (half of the weight here); a period is that of the
\* call that made the slot.
TaUpdate(func, s, value, weight) ==
    LET w == WindowPush(s, value)
    IN  CASE func = "ema" -> Blend(s, <<2, s.period + 1>>, value)
          [] func = "smma" -> Blend(s, <<1, s.period>>, value)
          [] func = "decay" -> Blend(s, <<weight, 2>>, value)
          [] func = "sma" -> Stepped(w, Warm(<<w.sum, w.period>>, IsFull(w)))
          [] func = "rsum" -> Stepped(w, {Frac(w.sum)})
          [] func = "stdev" -> Stepped(w, Warm(Variance(w), IsFull(w)))
          [] func = "highest" -> Stepped(w, Warm(Frac(Max(ToSet(w.buffer))), IsFull(w)))
          [] func = "lowest" -> Stepped(w, Warm(Frac(Min(ToSet(w.buffer))), IsFull(w)))
          [] func = "wma" -> Stepped([s EXCEPT !.buffer = Pushed(@, Frac(value), s.period)],
                                    Warm(WmaOf(Pushed(s.buffer, Frac(value), s.period)),
                                         Len(Pushed(s.buffer, Frac(value), s.period)) = s.period))
          [] func = "hma" -> HmaUpdate(s, value)
          [] func = "vwma" -> VwmaUpdate(s, value, weight)

\* ring_push: newest first, at most buf results.
Ring_push(hist, out, depth) ==
    LET h == <<out>> \o hist IN SubSeq(h, 1, IF Len(h) > AtLeast(depth, 1) THEN AtLeast(depth, 1) ELSE Len(h))

-----------------------------------------------------------------------------
(* on_bar                                                                  *)

Declarations == program.regime \o program.main
Keys == {Declarations[i].key : i \in DOMAIN Declarations}

\* One call: the slot is made by the first one, and later ones use it as it is.
Called(scope, d, x) ==
    LET slot == IF d.key \in DOMAIN scope.ta THEN scope.ta[d.key] ELSE Slot(d)
        u == TaUpdate(d.func, slot, x[1], x[2])
    IN  [ta |-> [k \in DOMAIN scope.ta \cup {d.key} |->
                    IF k = d.key THEN [u.slot EXCEPT !.hist = Ring_push(@, u.out, d.buf)] ELSE scope.ta[k]],
         fed |-> [scope.fed EXCEPT ![d.key] = Append(@, x)],
         kept |-> [scope.kept EXCEPT ![d.key] = @ + 1]]

Block(scope, decls, x) == FoldLeft(LAMBDA sc, d : Called(sc, d, x), scope, decls)

\* The built-in highest(NAME, n) that the script may read its array with is an
\* error when the array is shorter than n.  The block ends behind that call.
TooShort(scope, decls, x) ==
    {i \in DOMAIN decls : Len(Block(scope, decls, x).ta[decls[i].key].hist) < decls[i].strict}
EndsAt(scope, decls, x) ==
    IF TooShort(scope, decls, x) = {} THEN Len(decls) ELSE Min(TooShort(scope, decls, x))

Scope == [ta |-> ta_state, fed |-> fedTo, kept |-> advances]

TaInit ==
    /\ program \in Scripts
    /\ ta_state = [k \in {} |-> 0]
    /\ fedTo = [k \in Keys |-> <<>>]
    /\ advances = [k \in Keys |-> 0]
    /\ fedBars = 0
    /\ failed = FALSE

\* The ta map is written back.
Keep(scope) == ta_state' = scope.ta /\ fedTo' = scope.fed /\ advances' = scope.kept

\* The main block ends in an error: nothing is written back, on_bar returns no
\* signal.
FailBar(after, x) == UNCHANGED <<ta_state, fedTo, advances>>

\* ta.reset(key)
Ta_reset(scope, keys) ==
    [scope EXCEPT !.ta = [k \in DOMAIN scope.ta \ keys |-> scope.ta[k]],
                  !.fed = [k \in Keys |-> IF k \in keys THEN <<>> ELSE scope.fed[k]]]

\* on_bar.  The regime block runs first, in the same scope; an error there, of
\* whatever cause and after n declarations, leaves what it did in place.  The
\* main block may fail of a cause of its own, and may reset slots as it ends.
On_bar ==
    /\ fedBars < MaxTaBars
    /\ fedBars' = fedBars + 1
    /\ \E x \in TaInputs : \E n \in 0..EndsAt(Scope, program.regime, x) :
         LET last == EndsAt(Scope, program.regime, x)
             after == Block(Scope, SubSeq(program.regime, 1, n), x)
         IN  /\ Raises \/ n = last
             /\ \/ /\ Raises \/ TooShort(after, program.main, x) # {}
                   /\ failed' = TRUE
                   /\ FailBar(after, x)
                \/ /\ TooShort(after, program.main, x) = {}
                   /\ failed' = FALSE
                   /\ \E keys \in {{}, {Head(Declarations).key}} :
                         Keep(Ta_reset(Block(after, program.main, x), keys))
    /\ UNCHANGED program

\* Strategy::reset between runs.
TaReset ==
    /\ ta_state # [k \in {} |-> 0]
    /\ ta_state' = [k \in {} |-> 0]
    /\ fedTo' = [k \in Keys |-> <<>>]
    /\ advances' = [k \in Keys |-> 0]
    /\ UNCHANGED <<program, fedBars, failed>>

TaNext == On_bar \/ TaReset

TaSpec == TaInit /\ [][TaNext]_taVars

-----------------------------------------------------------------------------
(* Properties                                                              *)

Decl(key) == Declarations[CHOOSE i \in DOMAIN Declarations : Declarations[i].key = key]

\* The values behind an array, in closed form over the inputs `in` of a slot.
Weighted(in, alpha(_)) ==   \* of an average with smoothing alpha(input)
    LET rest(j) == <<alpha(in[j])[2] - alpha(in[j])[1], alpha(in[j])[2]>>
        faded(i) == FoldLeft(Mult, Frac(1), [j \in 1..(Len(in) - i) |-> rest(i + j)])
    IN  PlusAll([i \in DOMAIN in |-> Mult(Frac(in[i][1]), Mult(IF i = 1 THEN Frac(1) ELSE alpha(in[i]), faded(i)))])

Values(in, p) == [i \in 1..p |-> Frac(in[Len(in) - p + i][1])]
MeanOf(s) == Mult(PlusAll(s), <<1, Len(s)>>)
MeanSquare(s) ==
    MeanOf([i \in DOMAIN s |-> LET dev == Plus(s[i], Mult(Frac(-1), MeanOf(s))) IN Mult(dev, dev)])
WeightedMean(s) == Mult(PlusAll([i \in DOMAIN s |-> Mult(Frac(i), s[i])]), <<2, Len(s) * (Len(s) + 1)>>)
HullRaw(in, p) == Plus(Mult(Frac(2), WeightedMean(Values(in, p \div 2))), Mult(Frac(-1), WeightedMean(Values(in, p))))
Least(p) == IF p < 4 THEN 4 ELSE p

\* The functions that return a number from the first call on.
Ungated(func, p, in) ==
    CASE func = "ema" -> Weighted(in, LAMBDA x : <<2, p + 1>>)
      [] func = "smma" -> Weighted(in, LAMBDA x : <<1, p>>)
      [] func = "decay" -> Weighted(in, LAMBDA x : <<x[2], 2>>)
      [] func = "rsum" -> PlusAll(Values(in, Min({p, Len(in)})))

\* The others, over the last p inputs.
OverWindow(func, last) ==
    LET v == [i \in DOMAIN last |-> Frac(last[i][1])]
        w == [i \in DOMAIN last |-> Frac(Max({last[i][2], 0}))]
        weight == PlusAll(w)[1]
    IN  CASE func = "sma" -> MeanOf(v)
          [] func = "stdev" -> MeanSquare(v)
          [] func = "highest" -> Frac(Max({last[i][1] : i \in DOMAIN last}))
          [] func = "lowest" -> Frac(Min({last[i][1] : i \in DOMAIN last}))
          [] func = "wma" -> WeightedMean(v)
          [] func = "vwma" -> IF weight = 0 THEN MeanOf(v)
                              ELSE Mult(PlusAll([i \in DOMAIN v |-> Mult(v[i], w[i])]), <<1, weight>>)

Reference(func, p, in) ==
    LET n == Len(in)
        r == SqrtRounded(Least(p))
    IN  IF func \in {"ema", "smma", "decay", "rsum"} THEN {Ungated(func, p, in)}
        ELSE IF func = "hma"
             THEN IF n < Least(p) + r - 1 THEN {}
                  ELSE {WeightedMean([i \in 1..r |-> HullRaw(SubSeq(in, 1, n - r + i), Least(p))])}
             ELSE IF n < p THEN {} ELSE {OverWindow(func, SubSeq(in, n - p + 1, n))}

\* The array of a declaration holds, newest first, what its formula gives for
\* the bars its slot was fed, () where the window was not full: over calls of
\* other declarations, failed bars, resets and periods that change later.
ArraysOfInputs ==
    \A key \in DOMAIN ta_state :
        LET d == Decl(key)
            in == fedTo[key]
            hist == ta_state[key].hist
        IN  /\ Len(hist) = Min({Len(in), Max({d.buf, 1})})
            /\ \A i \in DOMAIN hist :
                  LET expected == Reference(d.func, d.period, SubSeq(in, 1, Len(in) - i + 1))
                  IN  /\ hist[i] = {} <=> expected = {}
                      /\ \A v \in hist[i], e \in expected : Same(v, e)

\* A bar advances every declaration of the main block or none: an error in the
\* middle never leaves one average a bar ahead of another.
MainInStep ==
    \A i, j \in DOMAIN program.main :
        advances[program.main[i].key] = advances[program.main[j].key]

\* The claim of the module's documentation that the lookback helpers work on
\* what ta.* returns: a script whose buf is large enough can read its array
\* once that many bars have come.
LookbackHelpersWork ==
    \A i \in DOMAIN program.main :
        LET d == program.main[i]
        IN  d.buf >= d.strict /\ fedBars >= d.strict => \A x \in TaInputs : TooShort(Scope, program.main, x) = {}
=============================================================================
