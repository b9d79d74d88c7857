---------------------------- MODULE MtfStrategies ----------------------------
(***************************************************************************)
(* named/mtf: the strategies that read minute bars and hourly bars, each as *)
(* the Rust value (XNew, X) and as the Rhai script it publishes (XScript).  *)
(* A tick brings an hourly bar, a minute bar or both, as the readings of    *)
(* StrategyKit; close is where the close lies among the lines it is         *)
(* compared with.  The two feeds need not start together.                   *)
(***************************************************************************)
EXTENDS StrategyKit, TLC

CONSTANT MtfNames   \* the strategies under test

VARIABLES
    mtf,        \* the strategy under test
    ages,       \* per timeframe, bars since new() or reset(), up to its maturity
    buffers,    \* the script's bindings
    rust,       \* the fields of the Rust value
    signalled,  \* what each of the two signalled on the last tick
    baseFirst   \* the minute buffers were always full before the hourly ones

mtfVars == <<mtf, ages, buffers, rust, signalled, baseFirst>>

\* A field of the hourly or of the minute bars; of the values buffered the
\* newest ones that the script reads are kept, and how many there are.
Hourly(from, classes, buf, reads) == [tf |-> "H1", in |-> In(from, classes, buf), reads |-> reads]
Minute(from, classes, buf, reads) == [tf |-> "M1", in |-> In(from, classes, buf), reads |-> reads]

\* A count of the values an indicator has yielded, as far as it is compared.
Counted(n, event, f, cap) ==
    IF \A r \in event : r[f] = None THEN n ELSE IF n < cap THEN n + 1 ELSE n

\* Option::unwrap_or.
Unwrap_or(v, default) == IF v = None THEN default ELSE v

\* A tick without a minute bar signals nothing.
OnBase(st, event, Step(_)) == IF event = {} THEN Stay(st) ELSE Step(CHOOSE r \in event : TRUE)

MtfMaCrossNew ==
    [inputs |-> [h1 |-> Hourly(2, {0}, 2, 0), fast |-> Minute(1, 0..2, 2, 2), slow |-> Minute(2, 0..2, 2, 2),
                 close |-> Minute(1, 0..2, 2, 1)],
     native |-> [h1_count |-> 0, fast |-> None, slow |-> None]]
MtfMaCross(st, h, m) ==
    LET s == [st EXCEPT !.h1_count = Counted(@, h, "h1", 2)]
        Step(r) ==
            LET now == [s EXCEPT !.fast = r.fast, !.slow = r.slow] IN
            IF s.h1_count < 2 \/ ~Warm({s.fast, s.slow, r.fast, r.slow}) THEN Stay(now)
            ELSE Decide(now, r.close > 1 /\ CrossedAbove(s.fast, s.slow, r.fast, r.slow),
                        r.close < 1 \/ CrossedBelow(s.fast, s.slow, r.fast, r.slow))
    IN  OnBase(s, m, Step)
MtfMaCrossScript(b) ==
    Script(Unset, b.close[1] > 1 /\ Cross_above(b.fast, b.slow),
           b.close[1] < 1 \/ Cross_below(b.fast, b.slow))

\* rsi: 0 below 40, 2 above 70.  An RSI that is not warm reads as 0.0.
MtfEmaRsiNew ==
    [inputs |-> [h1 |-> Hourly(2, 0..2, 2, 2), rsi |-> Minute(2, 0..2, 2, 1)],
     native |-> [h1_count |-> 0, prev |-> 0, curr |-> 0]]
MtfEmaRsi(st, h, m) ==
    LET s == [h1_count |-> Counted(st.h1_count, h, "h1", 2),
              prev |-> IF \E r \in h : r.h1 /= None THEN st.curr ELSE st.prev,
              curr |-> IF \E r \in h : r.h1 /= None THEN (CHOOSE r \in h : TRUE).h1 ELSE st.curr]
        Step(r) ==
            IF s.h1_count < 2 THEN Stay(s)
            ELSE Decide(s, s.curr > s.prev /\ Unwrap_or(r.rsi, 0) < 1,
                        s.curr < s.prev \/ Unwrap_or(r.rsi, 0) > 1)
    IN  OnBase(s, m, Step)
MtfEmaRsiScript(b) ==
    Script(Unset, b.h1[1] > b.h1[2] /\ b.rsi[1] < 1, b.h1[1] < b.h1[2] \/ b.rsi[1] > 1)

\* adx: 0 below 20, 2 above 25.
MtfAdxPullbackNew ==
    [inputs |-> [adx |-> Hourly(1, 0..2, 2, 1), h1 |-> Hourly(2, {0}, 2, 0),
                 rsi |-> Minute(2, 0..2, 2, 1), close |-> Minute(1, 0..2, 2, 1)],
     native |-> [adx |-> 0, adx_count |-> 0, ema_count |-> 0]]
MtfAdxPullback(st, h, m) ==
    LET s == [adx |-> IF \E r \in h : r.adx /= None THEN (CHOOSE r \in h : TRUE).adx ELSE st.adx,
              adx_count |-> Counted(st.adx_count, h, "adx", 2),
              ema_count |-> Counted(st.ema_count, h, "h1", 2)]
        Step(r) ==
            IF s.adx_count < 2 \/ s.ema_count < 2 THEN Stay(s)
            ELSE Decide(s, s.adx > 1 /\ r.close > 1 /\ Unwrap_or(r.rsi, 0) < 1,
                        s.adx < 1 \/ r.close < 1 \/ Unwrap_or(r.rsi, 0) > 1)
    IN  OnBase(s, m, Step)
MtfAdxPullbackScript(b) ==
    Script(Unset, b.adx[1] > 1 /\ b.close[1] > 1 /\ b.rsi[1] < 1,
           b.adx[1] < 1 \/ b.close[1] < 1 \/ b.rsi[1] > 1)

\* close: 0 below the middle band, 2 above the upper; rsi: 0 below 55.
MtfBbMacdNew ==
    [inputs |-> [bb |-> Hourly(2, {0}, 2, 0), histogram |-> Minute(3, 0..2, 2, 1),
                 rsi |-> Minute(2, 0..1, 2, 1), close |-> Minute(1, 0..2, 2, 1)],
     native |-> [bb_count |-> 0]]
MtfBbMacd(st, h, m) ==
    LET s == [bb_count |-> Counted(st.bb_count, h, "bb", 2)]
        Step(r) ==
            IF s.bb_count < 2 \/ r.histogram = None THEN Stay(s)
            ELSE Decide(s, r.close > 1 /\ r.histogram > 1 /\ Unwrap_or(r.rsi, 0) < 1,
                        r.close < 1 \/ r.histogram < 1)
    IN  OnBase(s, m, Step)
MtfBbMacdScript(b) ==
    Script(Unset, b.close[1] > 1 /\ b.histogram[1] > 1 /\ b.rsi[1] < 1,
           b.close[1] < 1 \/ b.histogram[1] < 1)

\* cross: 0 ema9 crosses below ema21 on this bar, 2 above; adx: 0 fell twice, 2
\* above 25 and rose three times; rsi: 1 between 50 and 70, 3 above 80; gate:
\* momentum, squeeze, breakout and the two EMA comparisons of the entry.  What a
\* helper says of a history counts once the history is long enough for it.
KitchenSinkNew ==
    [inputs |-> [h1 |-> Hourly(1, {0}, 3, 0), ema |-> Minute(3, {0}, 4, 0), cross |-> Minute(3, 0..2, 4, 1),
                 rsi |-> Minute(1, {0, 1, 3}, 4, 1), adx |-> Minute(2, 0..2, 5, 1), gate |-> Minute(3, 0..1, 4, 1)],
     native |-> [h1_hist |-> 0, hist |-> 0]]
KitchenSink(st, h, m) ==
    LET s == [st EXCEPT !.h1_hist = Counted(@, h, "h1", 3)]
        Step(r) ==
            IF ~Warm({r.ema, r.rsi, r.adx}) THEN Stay(s)
            ELSE LET now == [s EXCEPT !.hist = IF @ < 4 THEN @ + 1 ELSE @] IN
                 IF now.h1_hist < 3 THEN Stay(now)
                 ELSE Decide(now, now.hist >= 4 /\ r.cross = 2 /\ r.rsi = 1 /\ r.adx = 2 /\ r.gate = 1,
                             \/ now.hist >= 2 /\ r.cross = 0
                             \/ r.rsi = 3
                             \/ now.hist >= 3 /\ r.adx = 0)
    IN  OnBase(s, m, Step)
KitchenSinkScript(b) ==
    Script(Unset, b.cross[1] = 2 /\ b.rsi[1] = 1 /\ b.adx[1] = 2 /\ b.gate[1] = 1,
           b.cross[1] = 0 \/ b.rsi[1] = 3 \/ b.adx[1] = 0)

MtfCatalog ==
    [MtfMaCross |-> MtfMaCrossNew, MtfEmaRsi |-> MtfEmaRsiNew, MtfAdxPullback |-> MtfAdxPullbackNew,
     MtfBbMacd |-> MtfBbMacdNew, KitchenSink |-> KitchenSinkNew]

-----------------------------------------------------------------------------

FieldsOf(s, tf) == {f \in DOMAIN MtfCatalog[s].inputs : MtfCatalog[s].inputs[f].tf = tf}
InputOf(s, f) == MtfCatalog[s].inputs[f].in

\* No field of these strategies warms up later.
MtfMaturity == 3

\* The readings the a-th bar of a timeframe may bring.
MtfReadingsOf(s, tf, a) ==
    {r \in [FieldsOf(s, tf) -> None..3] :
        \A f \in FieldsOf(s, tf) : r[f] \in IF a < InputOf(s, f).from THEN {None} ELSE InputOf(s, f).classes}

FullBuffers(s, tf, b) == \A f \in FieldsOf(s, tf) : b[f].len >= InputOf(s, f).buf

\* FeedVarBinding::feed_confirmed, and the bar buffer's push.
Buffered(s, f, b, v) ==
    IF v = None THEN b
    ELSE [len |-> IF b.len < InputOf(s, f).buf THEN b.len + 1 ELSE b.len,
          vals |-> Push(b.vals, v, MtfCatalog[s].inputs[f].reads)]
EmptyBuffers(s) == [f \in DOMAIN MtfCatalog[s].inputs |-> [len |-> 0, vals |-> <<>>]]

MtfFresh(s) ==
    /\ ages = [H1 |-> 0, M1 |-> 0]
    /\ buffers = EmptyBuffers(s)
    /\ rust = MtfCatalog[s].native
    /\ signalled = [native |-> "none", script |-> "none"]
    /\ baseFirst = TRUE

MtfInit == mtf \in MtfNames /\ MtfFresh(mtf)

\* on_bars of both: the hourly bars of the tick are applied first; the script
\* runs when a minute bar closed and every binding is full.
MtfTick(s, Native(_, _, _), Run(_)) ==
    /\ mtf = s
    /\ \E closed \in {{"H1"}, {"M1"}, {"H1", "M1"}} :
         /\ ages' = [tf \in {"H1", "M1"} |->
                        IF tf \in closed /\ ages[tf] < MtfMaturity THEN ages[tf] + 1 ELSE ages[tf]]
         /\ \E h \in IF "H1" \in closed THEN {{r} : r \in MtfReadingsOf(s, "H1", ages'["H1"])} ELSE {{}},
               m \in IF "M1" \in closed THEN {{r} : r \in MtfReadingsOf(s, "M1", ages'["M1"])} ELSE {{}} :
              /\ buffers' = [f \in DOMAIN buffers |->
                    LET event == IF MtfCatalog[s].inputs[f].tf = "H1" THEN h ELSE m IN
                    IF event = {} THEN buffers[f]
                    ELSE Buffered(s, f, buffers[f], (CHOOSE r \in event : TRUE)[f])]
              /\ \E n \in {Native(rust, h, m)} :
                   /\ rust' = n.st
                   /\ signalled' = [native |-> n.sig,
                                    script |-> IF m /= {} /\ FullBuffers(s, "H1", buffers')
                                                          /\ FullBuffers(s, "M1", buffers')
                                               THEN ScriptSignal(Run([f \in DOMAIN buffers |-> buffers'[f].vals])) ELSE "none"]
    /\ baseFirst' = (baseFirst /\ (FullBuffers(s, "H1", buffers') => FullBuffers(s, "M1", buffers')))
    /\ UNCHANGED mtf

MtfBars ==
    \/ MtfTick("MtfMaCross", MtfMaCross, MtfMaCrossScript)
    \/ MtfTick("MtfEmaRsi", MtfEmaRsi, MtfEmaRsiScript)
    \/ MtfTick("MtfAdxPullback", MtfAdxPullback, MtfAdxPullbackScript)
    \/ MtfTick("MtfBbMacd", MtfBbMacd, MtfBbMacdScript)
    \/ MtfTick("KitchenSink", KitchenSink, KitchenSinkScript)

\* reset() between two runs of a batch.
MtfReset ==
    /\ ages /= [H1 |-> 0, M1 |-> 0]
    /\ ages' = [H1 |-> 0, M1 |-> 0]
    /\ buffers' = EmptyBuffers(mtf)
    /\ rust' = MtfCatalog[mtf].native
    /\ signalled' = [native |-> "none", script |-> "none"]
    /\ baseFirst' = TRUE
    /\ UNCHANGED mtf

MtfNext == MtfBars \/ MtfReset

MtfSpec == MtfInit /\ [][MtfNext]_mtfVars

-----------------------------------------------------------------------------
(* Properties                                                              *)

\* Whatever the interleaving of hourly and minute bars, the script signals what
\* the Rust value signals, provided the minute indicators were warm first: only
\* mtf_ma_cross waits for both timeframes (README.md tells what the others do).
MtfParity == baseFirst \/ mtf = "MtfMaCross" => signalled.native = signalled.script
=============================================================================
