------------------------------- MODULE MCMtf --------------------------------
(* Both multi-timeframe engines, and the resampled feed, on every choice of *)
(* missing bars; and whole requests on stores of complete and of thin data. *)
EXTENDS MtfEngines, BacktestRequest, Aggregator

CONSTANT Horizon    \* the last close of any bar

VARIABLE engine     \* "heap", "pointer", "resample" or "request"

mcVars == <<engine, heapVars, aggVars, requestVars>>

Grid(tf) == {k * tf : k \in 0..(Horizon \div tf - 1)}

AllFeeds == {f \in [TFs -> SUBSET Grid(Base)] : \A tf \in TFs : f[tf] \subseteq Grid(tf)}

\* Without a bar an engine has nothing to do.
NoFeeds == [tf \in TFs |-> {}]

\* Files of two bars' time; their bars are off the files' names by `shift`, and
\* those of the base timeframe in `hole` are missing.
FilesOf(tf, shift, hole) ==
    {[start |-> 2 * k - 1, end |-> 2 * k + 1,
      bars |-> {ts \in Grid(tf) : (tf = Base => ts \notin hole) /\ 2 * k - 1 + shift <= ts /\ ts < 2 * k + 1 + shift}]
         : k \in 0..3}
SomeStores == {[tf \in TFs |-> FilesOf(tf, shift, hole)] : shift \in {-1, 0, 1}, hole \in {{}, {1, 2}, {3}}}

\* A timeframe of 0 is none; one script names its base timeframe.
Declared(period, ema, tf) == [period |-> period, ema |-> ema, tf |-> tf]
SomeRequests ==
    {r \in [kind : {"script", "named", "mtf"}, htfs : {{}, {2, 4}}, from : {{}, {3}, {4}}, to : {{}, {4}},
            overrides : {{}, {1}, {2}},
            decls : {{}, {Declared(2, FALSE, 0)}, {Declared(2, FALSE, 0), Declared(2, FALSE, 4)},
                     {Declared(1, TRUE, 1), Declared(2, FALSE, 2)},
                     {Declared(3, TRUE, 0), Declared(1, TRUE, 4)}, {Declared(2, TRUE, 2), Declared(2, FALSE, 4)}}] :
        /\ r.htfs # {} => r.kind = "mtf"
        /\ r.kind = "named" => \A d \in r.decls : d.tf = 0
        /\ r.kind = "mtf" => r.decls = {}
        /\ r.overrides # {} => r.to = {}}

NoRequest == /\ request = [kind |-> "named", htfs |-> {}, from |-> {}, to |-> {}, overrides |-> {}, decls |-> {}]
             /\ store = NoFeeds /\ traded = 0

MCInit == /\ AggInit
          /\ \/ engine = "heap" /\ feeds \in AllFeeds /\ HeapInit /\ NoRequest
             \/ engine = "pointer" /\ feeds \in AllFeeds /\ PointerInit /\ heap = {} /\ NoRequest
             \/ engine = "resample" /\ feeds = NoFeeds /\ PointerInit /\ heap = {} /\ warmup = {} /\ NoRequest
             \/ engine = "request" /\ RequestInit /\ heap = {}

MCNext == \/ engine = "heap" /\ HeapNext /\ UNCHANGED <<engine, aggVars, requestVars>>
          \/ engine = "pointer" /\ PointerNext /\ UNCHANGED <<engine, heap, aggVars, requestVars>>
          \/ engine = "resample" /\ AggNext /\ UNCHANGED <<engine, heapVars, requestVars>>
          \/ engine = "request" /\ RequestNext /\ UNCHANGED <<engine, heap, aggVars>>

\* The run loops do not stop before their feeds are empty.
MCSpec == MCInit /\ [][MCNext]_mcVars /\ WF_mcVars(MCNext)

-----------------------------------------------------------------------------
(* Properties                                                              *)

\* Heap: every indicator is fed every closed bar of its feed, in order.
HeapFeedsAll == engine = "heap" => HeapDelivers

\* Pointer: the same, where base bars close with the higher timeframes' bars.
PointerFeedsAll == engine \in {"pointer", "request"} => PointerDelivers

\* Requests: trading starts with the warm-up done, the response counts the bars
\* that were traded, and the choice of files loses no bar.
WarmRequests == engine = "request" => ConvergedAtFrom
CountedRequests == engine = "request" => ReportsTraded
LosslessRequests == engine = "request" => PruningLossless

\* The forming bar a live value is projected from is the exact aggregate of
\* the base bars of its bucket.
Forming == FormingExact(strategy)

\* And its bucket is never one whose confirmed bar the indicator has had.
NoDoubleCounting == NoDoubleCount(strategy)

\* Every feed is consumed: the heap engine ends with all bars delivered, the
\* pointer engine with all base bars.
FeedsDrained == <>(/\ left[Base] = {}
                   /\ engine = "heap" => heap = {} /\ \A tf \in TFs : left[tf] = {})

\* What a multi-timeframe strategy is given: every bar once, and a forming bar
\* that is the exact aggregate of its base bars, resampled ones included.
StrategyFed == HeapFeedsAll /\ PointerFeedsAll /\ Forming /\ NoDoubleCounting /\ ExactResampling

\* Requests: warmed up, counted and loaded without a loss.
RequestsSound == WarmRequests /\ CountedRequests /\ LosslessRequests
=============================================================================
