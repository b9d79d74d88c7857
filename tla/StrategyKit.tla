----------------------------- MODULE StrategyKit -----------------------------
(***************************************************************************)
(* What every named strategy of alm-strategy is built from, and what its   *)
(* Rhai script is run with.  A bar reaches both implementations as a       *)
(* record of READINGS: for every indicator field the class of its value    *)
(* (an ordinal: only comparisons with other fields and with thresholds     *)
(* are ever made), or None while the indicator is warming up.              *)
(***************************************************************************)
EXTENDS Naturals, Integers, Sequences, FiniteSets

\* An indicator that has not warmed up yet: update() returned None.
None == -1

\* One input field: the bar (counted after the first reading of any field)
\* from which the indicator yields values, the classes its values fall in,
\* and the depth of the buffer the script declares for it.
In(from, classes, buf) == [from |-> from, classes |-> classes, buf |-> buf]

\* A freshly built strategy: its inputs, the state of the Rust value, and
\* the persistent `state` map of its script.
New(inputs, native, script) ==
    [inputs |-> inputs, native |-> native, script |-> script]

\* What on_bar leaves behind: the new state and the direction it signals.
Emit(st, sig) == [st |-> st, sig |-> sig]
Stay(st) == Emit(st, "none")

\* Long wins over exit when both conditions hold: the long is returned first.
Decide(st, long, exit) ==
    Emit(st, IF long THEN "long" ELSE IF exit THEN "exit" ELSE "none")

Warm(values) == None \notin values

\* Option<T> of the source: <<>> is None, <<x>> (or a longer tuple) is Some.
Unset == <<>>

CrossedAbove(pa, pb, a, b) == pa <= pb /\ a > b
CrossedBelow(pa, pb, a, b) == pa >= pb /\ a < b

\* The pair crossover shared by many strategies: prev_fast / prev_slow are
\* remembered on every warm bar, a signal needs a remembered pair.
PairCross(prev, a, b, gate) ==
    IF prev = Unset THEN Stay(<<a, b>>)
    ELSE Decide(<<a, b>>, CrossedAbove(prev[1], prev[2], a, b) /\ gate,
                CrossedBelow(prev[1], prev[2], a, b))

\* The edge detector shared by others: Option<bool> remembered, a signal on
\* the bar on which the condition turns on or off.
Edge(prev, now) ==
    IF prev = Unset THEN Stay(<<now>>)
    ELSE Decide(<<now>>, now /\ ~prev[1], ~now /\ prev[1])

-----------------------------------------------------------------------------
\* Mutant: two values that were level do not cross.
CrossAboveStrict(a, b) == a[2] < b[2] /\ a[1] > b[1]

\* The script side.  h[x] is the buffer of field x, newest first, so h.x[1]
\* is the script's x[0] and h.x[2] its x[1].
Cross_above(a, b) == CrossedAbove(a[2], b[2], a[1], b[1])
Cross_below(a, b) == CrossedBelow(a[2], b[2], a[1], b[1])

\* The output variables of one run of a script.
Script(sc, entry, exit) == [sc |-> sc, entry |-> entry, exit |-> exit]

\* How ScriptStrategy.on_bar turns the output variables into one signal.
ScriptSignal(o) ==
    IF o.entry THEN "long" ELSE IF o.exit THEN "exit" ELSE "none"

\* History::push: newest first here, the oldest value falls off at the
\* declared depth; a field that is still warming up pushes nothing.
Push(buf, v, depth) ==
    IF v = None THEN buf ELSE SubSeq(<<v>> \o buf, 1, IF Len(buf) < depth THEN Len(buf) + 1 ELSE depth)
=============================================================================
