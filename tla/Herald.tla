------------------------------- MODULE Herald -------------------------------
(***************************************************************************)
(* The live signal service for one symbol: the exchange closes bars, the    *)
(* WebSocket feed queues them, and three tasks advance the ledger -- the    *)
(* start-up gap-fill, the handler loop draining the queue, and the feed     *)
(* task's own gap-fill after a reconnect.  Every accepted bar is then       *)
(* evaluated by the advancing task: it reads the newest bar, picks up the   *)
(* symbol's group and runs its hands under the group's lock.  The control   *)
(* plane registers and removes hands meanwhile.  Time is counted in base    *)
(* bars; a bar is [tf, ts].                                                 *)
(***************************************************************************)
EXTENDS Ledger, FiniteSets

CONSTANTS
    Base,        \* the base timeframe, 1
    Htf,         \* the higher timeframe, a multiple of it
    Started,     \* base bars closed before the service starts
    MaxTime,     \* bound on base bars closed
    MaxOutages,  \* bound on lost connections
    MaxControl,  \* bound on control-plane requests
    Kinds        \* the hands that may be registered: [tf, htfs]

ASSUME HeraldAssumption ==
    /\ Base = 1 /\ Htf \in Nat \ {0, 1} /\ TFs = {Base, Htf}
    /\ MaxTime \in Nat /\ Started \in 0..MaxTime
    /\ MaxOutages \in Nat /\ MaxControl \in Nat
    /\ Kinds \subseteq [tf : TFs, htfs : SUBSET TFs]

VARIABLES
    clock,      \* base bars the exchange has closed
    htfLeads,   \* whether the stream sends an HTF close before the base close
    wire,       \* the WebSocket: "up", "down", or "filling" before it is up again
    queue,      \* the bar channel
    fetched,    \* per gap-filling task, what REST returned and is not advanced yet
    task,       \* per advancing task, where it is in advance and evaluate
    groups,     \* every SymbolGroup there has been, as a set of hands
    current,    \* the index of the one the registry maps the symbol to, or 0
    pending,    \* the hand register has warmed and not added yet: {} or {hand}
    outages, requests,  \* bounds
    dark,       \* ghost: bars closed since the connection was lost, not fetched
    lost,       \* ghost: bars an outage left behind for good
    dropped     \* ghost: groups reset(symbol) took out of the map as they were

heraldVars == <<log, clock, htfLeads, wire, queue, fetched, task, groups, current, pending,
                outages, requests, dark, lost, dropped>>

Tasks == {"handler", "feed", "startup"}
Idle == [at |-> "idle"]
Waiting == [at |-> "waiting", tf |-> 0]   \* start_gap_fill has not asked yet

Bar(tf, ts) == [tf |-> tf, ts |-> ts]

\* The bars of a timeframe that open from a time on and have closed by now.
ClosedBars(tf, from, now) ==
    LET first == tf * ((from + tf - 1) \div tf)
    IN  [i \in 1..(IF now < first THEN 0 ELSE (now - first) \div tf) |->
            Bar(tf, first + tf * (i - 1))]

\* What gap_fill_symbol brings: the base timeframe from the newest bar on, then
\* the whole of the other one; each fetch may fail.
Rest(now, ok) ==
    LET from == {last + Base : last \in Back(log[Base])}
    IN  (IF Base \in ok THEN ClosedBars(Base, IF from = {} THEN 0 ELSE CHOOSE t \in from : TRUE, now)
                        ELSE <<>>)
        \o (IF Htf \in ok THEN ClosedBars(Htf, 0, now) ELSE <<>>)

BarsOf(bars) == {bars[i] : i \in 1..Len(bars)}

HeraldInit ==
    /\ LedgerInit
    /\ clock = Started
    /\ htfLeads \in BOOLEAN
    /\ wire = "filling"
    /\ queue = <<>>
    /\ fetched = [t \in {"feed", "startup"} |-> <<>>]
    /\ task = [t \in Tasks |-> IF t = "startup" THEN Waiting ELSE Idle]
    /\ groups = <<>>
    /\ current = 0
    /\ pending = {}
    /\ outages = 0 /\ requests = 0
    /\ dark = UNION {BarsOf(ClosedBars(tf, 0, Started)) : tf \in TFs}
    /\ lost = {} /\ dropped = {}

-----------------------------------------------------------------------------
(* The exchange and the feed task                                          *)

\* A base bar closes, and the higher bar with it; the stream carries both if
\* it is up.
CloseBar ==
    /\ clock < MaxTime
    /\ LET base == <<Bar(Base, clock)>>
           higher == IF (clock + 1) % Htf = 0 THEN <<Bar(Htf, clock + 1 - Htf)>> ELSE <<>>
           closed == IF htfLeads THEN higher \o base ELSE base \o higher
       IN  IF wire = "up"
           THEN queue' = queue \o closed /\ dark' = dark
           ELSE queue' = queue /\ dark' = dark \cup BarsOf(closed)
    /\ clock' = clock + 1
    /\ UNCHANGED <<log, htfLeads, wire, fetched, task, groups, current, pending,
                   outages, requests, lost, dropped>>

\* run_once returns an error: the task sleeps and starts over.
Disconnect ==
    /\ wire = "up"
    /\ outages < MaxOutages
    /\ wire' = "down"
    /\ outages' = outages + 1
    /\ UNCHANGED <<log, clock, htfLeads, queue, fetched, task, groups, current, pending,
                   requests, dark, lost, dropped>>

\* The reconnect gap-fill asks REST for what it missed up to now.
GapFill ==
    /\ wire = "down"
    /\ \E ok \in SUBSET TFs :
        /\ fetched' = [fetched EXCEPT !["feed"] = Rest(clock, ok)]
        /\ dark' = dark \ BarsOf(Rest(clock, ok))
    /\ wire' = "filling"
    /\ UNCHANGED <<log, clock, htfLeads, queue, task, groups, current, pending,
                   outages, requests, lost, dropped>>

\* The gap-fill is over and the stream is connected again: what closed after
\* the fetch, or was not fetched, is never asked for again.
Connect ==
    /\ wire = "filling"
    /\ fetched["feed"] = <<>>
    /\ task["feed"] = Idle
    /\ wire' = "up"
    /\ lost' = lost \cup dark
    /\ dark' = {}
    /\ UNCHANGED <<log, clock, htfLeads, queue, fetched, task, groups, current, pending,
                   outages, requests, dropped>>

\* start_gap_fill: what closed before the service was there, and while the
\* stream was connecting.
StartupFill ==
    /\ task["startup"] = Waiting
    /\ \E ok \in SUBSET TFs :
        /\ fetched' = [fetched EXCEPT !["startup"] = Rest(clock, ok)]
        /\ dark' = dark \ BarsOf(Rest(clock, ok))
        /\ lost' = lost \ BarsOf(Rest(clock, ok))
    /\ task' = [task EXCEPT !["startup"] = Idle]
    /\ UNCHANGED <<log, clock, htfLeads, wire, queue, groups, current, pending,
                   outages, requests, dropped>>

-----------------------------------------------------------------------------
(* Advancing and evaluating                                                *)

\* The bars a task has before it.  The handler runs once start-up is over.
Work(t) ==
    IF t # "handler" THEN fetched[t]
    ELSE IF fetched["startup"] = <<>> /\ task["startup"] = Idle THEN queue ELSE <<>>

\* Mutant: the handler takes one bar of a burst and drops the others.
TakeBurst(t) ==
    /\ Work(t) # <<>>
    /\ queue' = IF t = "handler" THEN <<>> ELSE queue
    /\ fetched' = IF t = "handler" THEN fetched ELSE [fetched EXCEPT ![t] = Tail(@)]

Take(t) ==
    /\ Work(t) # <<>>
    /\ queue' = IF t = "handler" THEN Tail(queue) ELSE queue
    /\ fetched' = IF t = "handler" THEN fetched ELSE [fetched EXCEPT ![t] = Tail(@)]

\* Another task is between its advance and its evaluation on the timeframe.
Overlap(t, tf) == \E u \in Tasks \ {t} : task[u] # Idle /\ task[u].tf = tf

\* The hands that a race of two advances, or of an advance and a registration,
\* may have confused.
Confused(hands, tf) == {IF h.tf = tf THEN [h EXCEPT !.clean = FALSE] ELSE h : h \in hands}

\* Ledger::advance: the bar is taken under the state's lock and the observers
\* are called after it, or it is skipped.
Advance(t) ==
    /\ task[t] = Idle
    /\ Take(t)
    /\ LET bar == Head(Work(t))
       IN  IF Accepts(log[bar.tf], bar.ts)
           THEN /\ AdvanceLog(bar.tf, bar.ts)
                /\ task' = [task EXCEPT ![t] = [at |-> "notified", tf |-> bar.tf, ts |-> bar.ts]]
                /\ pending' = Confused(pending, bar.tf)
                /\ groups' = IF Overlap(t, bar.tf)
                             THEN [g \in DOMAIN groups |-> Confused(groups[g], bar.tf)]
                             ELSE groups
           ELSE UNCHANGED <<log, task, pending, groups>>
    /\ UNCHANGED <<clock, htfLeads, wire, current, outages, requests, dark, lost, dropped>>

\* evaluate_and_publish fetches the newest bar of the ring, whichever it is.
ReadBar(t) ==
    /\ task[t].at = "notified"
    /\ task' = [task EXCEPT ![t] = [at |-> "read", tf |-> @.tf, ts |-> @.ts,
                                    bar |-> log[@.tf][Len(log[@.tf])]]]
    /\ UNCHANGED <<log, clock, htfLeads, wire, queue, fetched, groups, current, pending,
                   outages, requests, dark, lost, dropped>>

\* It clones the group the symbol maps to; without one there is nothing to do.
PickGroup(t) ==
    /\ task[t].at = "read"
    /\ task' = [task EXCEPT ![t] =
                    IF current = 0 THEN Idle
                    ELSE [at |-> "picked", tf |-> @.tf, ts |-> @.ts, bar |-> @.bar,
                          group |-> current]]
    /\ UNCHANGED <<log, clock, htfLeads, wire, queue, fetched, groups, current, pending,
                   outages, requests, dark, lost, dropped>>

\* Mutant: alignment asked of the bar's opening time.
AlignedAtOpen(ts, tf, htf) == ts % htf = 0

\* is_htf_align_point.
Aligned(ts, tf, htf) == (ts + tf) % htf = 0

\* on_bar_base: a v2 hand also gets, at an alignment point, the newest bar of
\* each higher timeframe.
On_bar_base(h, ts) ==
    [h EXCEPT !.fed = Append(@, ts),
              !.higher = IF h.htfs # {} /\ Aligned(ts, h.tf, Htf) /\ log[Htf] # <<>>
                         THEN Append(@, log[Htf][Len(log[Htf])]) ELSE @]

\* Mutant: the hands of every timeframe are evaluated.
EvaluateEveryHand(t) ==
    /\ task[t].at = "picked"
    /\ groups' = [groups EXCEPT ![task[t].group] = {On_bar_base(h, task[t].bar) : h \in @}]
    /\ task' = [task EXCEPT ![t] = Idle]
    /\ UNCHANGED <<log, clock, htfLeads, wire, queue, fetched, current, pending,
                   outages, requests, dark, lost, dropped>>

\* evaluate_all under the group's lock: the hands of this timeframe.
Evaluate(t) ==
    /\ task[t].at = "picked"
    /\ groups' = [groups EXCEPT ![task[t].group] =
                    {IF h.tf = task[t].tf THEN On_bar_base(h, task[t].bar) ELSE h : h \in @}]
    /\ task' = [task EXCEPT ![t] = Idle]
    /\ UNCHANGED <<log, clock, htfLeads, wire, queue, fetched, current, pending,
                   outages, requests, dark, lost, dropped>>

-----------------------------------------------------------------------------
(* The control plane: one task, one request at a time                      *)

\* It starts with the handler loop.
Serving == fetched["startup"] = <<>> /\ task["startup"] = Idle

\* warmup_v2: the window's bars in order; a higher bar that closed before the
\* window starts alone, the others with the window's bar they close by.
WarmHigher(kind) ==
    IF kind.htfs = {} \/ log[kind.tf] = <<>> THEN <<>>
    ELSE LET last == log[kind.tf][Len(log[kind.tf])] + kind.tf
         IN  SelectSeq(Window(log[Htf]), LAMBDA ts : ts + Htf <= last)

\* A v1 hand whose own timeframe has no bar in the ledger yet is warmed with the
\* base bars that close when its bars do.
StandIns(kind) ==
    IF kind.htfs = {} /\ kind.tf # Base /\ Window(log[kind.tf]) = <<>>
    THEN SelectSeq(Window(log[Base]), LAMBDA ts : Aligned(ts, Base, kind.tf))
    ELSE <<>>

\* Handle::new: built and warmed from the ledger, before it is in any group.
\* The strategy is given the stand-ins first, then what is fed.
Warm(kind) ==
    [tf |-> kind.tf, htfs |-> kind.htfs, standIns |-> StandIns(kind),
     from |-> Len(log[kind.tf]) - Len(Window(log[kind.tf])),
     fed |-> Window(log[kind.tf]),
     higherFrom |-> Len(log[Htf]) - Len(Window(log[Htf])),
     higher |-> WarmHigher(kind),
     level |-> \A last \in Back(log[kind.tf]) :
                  BarsOf(ClosedBars(Htf, 0, last + kind.tf))
                      \subseteq {Bar(Htf, log[Htf][i]) : i \in 1..Len(log[Htf])},
     clean |-> \A t \in Tasks : task[t] = Idle \/ task[t].tf # kind.tf]

\* The first half of Registry::register; Handle::new refuses a script that
\* declares a timeframe that is not above the hand's.
RegisterWarm ==
    /\ Serving
    /\ pending = {}
    /\ requests < MaxControl
    /\ requests' = requests + 1
    /\ \E kind \in Kinds : (\A htf \in kind.htfs : htf > kind.tf) /\ pending' = {Warm(kind)}
    /\ UNCHANGED <<log, clock, htfLeads, wire, queue, fetched, task, groups, current,
                   outages, dark, lost, dropped>>

\* The second half: the symbol's group, made if there is none, gets the hand in
\* place of one with its id.
RegisterAdd ==
    /\ pending # {}
    /\ IF current = 0
       THEN groups' = Append(groups, pending) /\ current' = Len(groups) + 1
       ELSE groups' = [groups EXCEPT ![current] = pending] /\ current' = current
    /\ pending' = {}
    /\ UNCHANGED <<log, clock, htfLeads, wire, queue, fetched, task, outages, requests,
                   dark, lost, dropped>>

\* deregister, of a hand or of all, and reset of all: hands are removed under
\* the lock and an empty group leaves the map.
Deregister ==
    /\ Serving
    /\ pending = {} /\ current # 0 /\ requests < MaxControl
    /\ requests' = requests + 1
    /\ groups' = [groups EXCEPT ![current] = {}]
    /\ current' = 0
    /\ UNCHANGED <<log, clock, htfLeads, wire, queue, fetched, task, pending, outages,
                   dark, lost, dropped>>

\* reset of a symbol: the group leaves the map as it is.
ResetSymbol ==
    /\ Serving
    /\ pending = {} /\ current # 0 /\ requests < MaxControl
    /\ requests' = requests + 1
    /\ dropped' = dropped \cup {current}
    /\ current' = 0
    /\ UNCHANGED <<log, clock, htfLeads, wire, queue, fetched, task, groups, pending, outages,
                   dark, lost>>

-----------------------------------------------------------------------------
HeraldNext ==
    \/ CloseBar \/ Disconnect \/ GapFill \/ Connect \/ StartupFill
    \/ \E t \in Tasks : Advance(t) \/ ReadBar(t) \/ PickGroup(t) \/ Evaluate(t)
    \/ RegisterWarm \/ RegisterAdd \/ Deregister \/ ResetSymbol

HeraldSpec == HeraldInit /\ [][HeraldNext]_heraldVars

-----------------------------------------------------------------------------
(* Properties                                                              *)

HeraldTypeOK ==
    /\ clock \in 0..MaxTime
    /\ wire \in {"up", "down", "filling"}
    /\ \A t \in Tasks : task[t].at \in {"waiting", "idle", "notified", "read", "picked"}
    /\ current \in 0..Len(groups)
    /\ \A hands \in {pending} \cup {groups[g] : g \in DOMAIN groups} : \A h, k \in hands : h = k

Logged == UNION {{Bar(tf, log[tf][i]) : i \in 1..Len(log[tf])} : tf \in TFs}

\* Nothing is lost but what closed while the connection was down and REST did
\* not return: however the gap-fill and the handler's backlog interleave, the
\* bars either of them holds are not turned away as out of order before they
\* are in the ledger.
NothingElseLost ==
    \A tf \in TFs : BarsOf(ClosedBars(tf, 0, clock)) \subseteq
        Logged \cup BarsOf(queue) \cup BarsOf(fetched["feed"]) \cup BarsOf(fetched["startup"])
               \cup dark \cup lost

\* The bar a hand is evaluated on is never older than the advance it is
\* notified of (it may be newer: the ring is read after the lock is released).
BarNotOlder ==
    \A t \in Tasks : task[t].at \in {"read", "picked"} => task[t].bar >= task[t].ts

\* The bars of a hand's timeframe it has still to be told of.
Owed(tf) ==
    LET behind == {t \in Tasks : task[t] # Idle /\ task[t].tf = tf}
    IN  IF behind = {} THEN <<>> ELSE <<task[CHOOSE t \in behind : TRUE].ts>>

\* Outside the two races -- two tasks between advance and evaluation on one
\* timeframe, and a bar between a registration's warm-up and its insertion --
\* a hand is fed every bar its timeframe has in the ledger from its warm-up on,
\* once and in order.  One warmed with stand-ins is fed all of them, on top of
\* the stand-ins it was given before: what those are of the same periods is the
\* subject of PeriodsOnce.
FedOnce ==
    \A g \in DOMAIN groups : g = current => \A h \in groups[g] :
        h.clean => /\ h.fed \o Owed(h.tf) = SubSeq(log[h.tf], h.from + 1, Len(log[h.tf]))
                   /\ h.standIns # <<>> => h.from = 0

\* What the warm-up's comment ("Read from ledger target_tf ring if populated;
\* otherwise derive from base_tf history via alignment") takes for granted: the
\* two are one history, and no period is given to a strategy twice.  Refuted: the
\* bars that the stand-ins stood for reach the ledger after the warm-up, are
\* accepted into its empty window and evaluated again, after later periods.
PeriodsOnce ==
    \A g \in DOMAIN groups : g = current => \A h \in groups[g] : h.clean =>
        \A i \in 1..Len(h.standIns), j \in 1..Len(h.fed) : h.standIns[i] + Base < h.fed[j] + h.tf

\* The same without the exception: strategies "get notified exactly once per
\* ingested bar".
ExactlyOnce ==
    \A g \in DOMAIN groups : g = current => \A h \in groups[g] :
        Owed(h.tf) = <<>> => h.fed = SubSeq(log[h.tf], h.from + 1, Len(log[h.tf]))

\* While the connection has held and the stream sends the higher close first, a
\* multi-timeframe hand that was warmed with no higher bar missing gets every
\* one since with the base bar it closes with.
HigherInStep ==
    (htfLeads /\ outages = 0) => \A g \in DOMAIN groups : g = current => \A h \in groups[g] :
        (h.clean /\ h.level /\ h.htfs # {} /\ lost = {} /\ Owed(Base) = <<>> /\ h.fed # <<>>) =>
            h.higher = SelectSeq(SubSeq(log[Htf], h.higherFrom + 1, Len(log[Htf])),
                                 LAMBDA ts : ts + Htf <= h.fed[Len(h.fed)] + h.tf)

\* A group that is no longer the symbol's has no hands, unless reset(symbol)
\* dropped it: a task that picked it up before a deregister evaluates nothing.
NoGhostHands ==
    \A g \in DOMAIN groups : g # current /\ g \notin dropped => groups[g] = {}

\* What a hand works with is current: the bar it is evaluated on, the group it
\* is in, and what it has been fed of its own timeframe.
HandsCurrent == HeraldTypeOK /\ BarNotOlder /\ NoGhostHands /\ FedOnce
=============================================================================
