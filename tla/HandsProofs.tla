---------------------------- MODULE HandsProofs ----------------------------
(***************************************************************************)
(* What is proved of the hands of the live service, whatever is registered  *)
(* and removed while three tasks advance the ledger: the bar a hand gets is *)
(* not older than the advance it is told of, a group that was removed has   *)
(* no hands, and outside the two races a hand is fed every bar of its own   *)
(* timeframe once and in order.                                             *)
(***************************************************************************)
EXTENDS HeraldProofs

-----------------------------------------------------------------------------
(* Ends of a log                                                           *)

\* A log with its newest bar, from some bar on.
LEMMA EndAppend ==
    ASSUME NEW s \in Seq(Nat), NEW from \in Nat, from <= Len(s), NEW ts \in Nat
    PROVE  /\ SubSeq(s, from + 1, Len(s)) \in Seq(Nat)
           /\ SubSeq(Append(s, ts), from + 1, Len(Append(s, ts)))
                = SubSeq(s, from + 1, Len(s)) \o <<ts>>
<1> DEFINE n == Len(s)
           r == Append(s, ts)
           a == SubSeq(s, from + 1, n)
           b == SubSeq(r, from + 1, n + 1)
<1>1. /\ n \in Nat /\ r \in Seq(Nat) /\ Len(r) = n + 1
      /\ (\A i \in 1..n : r[i] = s[i] /\ s[i] \in Nat) /\ r[n + 1] = ts
    BY Appended
<1>2. a \in Seq(Nat) /\ Len(a) = n - from /\ \A i \in 1..(n - from) : a[i] = s[from + i]
    BY <1>1
<1>3. b \in Seq(Nat) /\ Len(b) = n + 1 - from /\ \A i \in 1..(n + 1 - from) : b[i] = r[from + i]
    BY <1>1
<1> HIDE DEF n, r, a, b
<1>4. /\ a \o <<ts>> \in Seq(Nat) /\ Len(a \o <<ts>>) = n + 1 - from
      /\ \A i \in 1..(n - from) : (a \o <<ts>>)[i] = a[i]
      /\ (a \o <<ts>>)[n - from + 1] = ts
    <2>1. <<ts>> \in Seq(Nat) /\ Len(<<ts>>) = 1 /\ <<ts>>[1] = ts
        OBVIOUS
    <2>2. /\ a \o <<ts>> \in Seq(Nat) /\ Len(a \o <<ts>>) = Len(a) + 1
          /\ \A i \in 1..Len(a) : (a \o <<ts>>)[i] = a[i]
          /\ (a \o <<ts>>)[Len(a) + 1] = ts
        BY <1>2, <2>1
    <2>3. n - from \in Nat
        BY <1>1 DEF n
    <2> QED
        BY <1>1, <1>2, <2>2, <2>3
<1>5. ASSUME NEW i \in 1..(n + 1 - from) PROVE b[i] = (a \o <<ts>>)[i]
    <2>1. CASE i = n - from + 1
        <3>1. from + i = n + 1 /\ i \in 1..(n + 1 - from)
            BY <1>1, <2>1
        <3>2. b[i] = ts
            BY <1>1, <1>3, <3>1
        <3>3. (a \o <<ts>>)[i] = ts
            BY <1>4, <2>1
        <3> QED
            BY <3>2, <3>3
    <2>2. CASE i # n - from + 1
        <3>1. i \in 1..(n - from) /\ from + i \in 1..n
            BY <1>1, <2>2 DEF n
        <3> QED
            BY <1>1, <1>2, <1>3, <1>4, <3>1
    <2> QED
        BY <2>1, <2>2
<1>6. b = a \o <<ts>>
    <2> DEFINE c == a \o <<ts>>
    <2>1. \A x \in Seq(Nat) : x \in [1..Len(x) -> Nat]
        OBVIOUS
    <2>2. c \in Seq(Nat) /\ Len(c) = n + 1 - from /\ \A i \in 1..(n + 1 - from) : b[i] = c[i]
        BY <1>4, <1>5
    <2> HIDE DEF c
    <2>3. b \in [1..(n + 1 - from) -> Nat] /\ c \in [1..(n + 1 - from) -> Nat]
        BY <1>3, <2>1, <2>2
    <2>4. b = c
        BY <2>2, <2>3
    <2> QED
        BY <2>4 DEF c
<1> QED
    BY <1>1, <1>2, <1>6 DEF n, r, a, b

\* The window is the end of the log.
LEMMA WindowIsEnd ==
    ASSUME NEW s \in Seq(Nat)
    PROVE  LET from == Len(s) - Len(Window(s))
           IN  /\ Window(s) \in Seq(Nat) /\ from \in Nat /\ from <= Len(s)
               /\ Window(s) = SubSeq(s, from + 1, Len(s))
<1>1. Capacity \in Nat \ {0} /\ Len(s) \in Nat /\ \A i \in 1..Len(s) : s[i] \in Nat
    BY LedgerAssumption
<1> DEFINE k == IF Len(s) > Capacity THEN Len(s) - Capacity + 1 ELSE 1
<1>2. Window(s) = SubSeq(s, k, Len(s)) /\ k \in 1..(Len(s) + 1)
    BY <1>1 DEF Window
<1> HIDE DEF k
<1>3. Window(s) \in Seq(Nat) /\ Len(Window(s)) = Len(s) - k + 1
    BY <1>1, <1>2
<1>4. Len(s) - Len(Window(s)) = k - 1
    BY <1>1, <1>2, <1>3
<1> QED
    BY <1>1, <1>2, <1>3, <1>4

\* The window is empty only of a log that is.
LEMMA WindowEmpty ==
    ASSUME NEW s \in Seq(Nat)
    PROVE  Window(s) = <<>> => Len(s) - Len(Window(s)) = 0
<1>1. Capacity \in Nat \ {0} /\ Len(s) \in Nat
    BY LedgerAssumption
<1> DEFINE k == IF Len(s) > Capacity THEN Len(s) - Capacity + 1 ELSE 1
<1>2. Window(s) = SubSeq(s, k, Len(s)) /\ k \in 1..(Len(s) + 1) /\ (k = Len(s) + 1 => Len(s) = 0)
    BY <1>1 DEF Window
<1> HIDE DEF k
<1>3. Len(Window(s)) = Len(s) - k + 1
    BY <1>1, <1>2
<1>4. Window(s) = <<>> => Len(Window(s)) = 0
    OBVIOUS
<1> QED
    BY <1>1, <1>2, <1>3, <1>4

-----------------------------------------------------------------------------
(* The invariant                                                           *)

NotifiedTask == [at : {"notified"}, tf : TFs, ts : Nat]
ReadTask == [at : {"read"}, tf : TFs, ts : Nat, bar : Nat]
PickedTask == [at : {"picked"}, tf : TFs, ts : Nat, bar : Nat, group : Nat]
BusyTask == NotifiedTask \cup ReadTask \cup PickedTask

\* The tasks between their advance and their evaluation on a timeframe.
Behind(tf) == {t \in Tasks : task[t] # Idle /\ task[t].tf = tf}

Last(bars) == bars[Len(bars)]
EndOf(bars, from) == SubSeq(bars, from + 1, Len(bars))

\* Whoever is behind is behind an advance that is in the ledger.
TasksInv ==
    /\ task \in [Tasks -> {Idle, Waiting} \cup BusyTask]
    /\ \A t \in Tasks : task[t] \in BusyTask =>
        /\ log[task[t].tf] # <<>>
        /\ task[t].ts <= Last(log[task[t].tf])
    /\ BarNotOlder

IsHand(h) ==
    /\ h = [tf |-> h.tf, htfs |-> h.htfs, standIns |-> h.standIns, from |-> h.from, fed |-> h.fed,
            higherFrom |-> h.higherFrom, higher |-> h.higher,
            level |-> h.level, clean |-> h.clean]
    /\ h.tf \in TFs /\ h.from \in Nat /\ h.fed \in Seq(Nat)
    /\ h.standIns # <<>> => h.from = 0

\* One symbol and one id: a group has a hand or none.
OneHand(hands) == hands = {} \/ \E h : IsHand(h) /\ hands = {h}

GroupsInv ==
    /\ \E S : groups \in Seq(S)
    /\ current \in 0..Len(groups)
    /\ OneHand(pending)
    /\ \A g \in 1..Len(groups) : OneHand(groups[g])
    /\ NoGhostHands

CleanOf(hands) == {h \in hands : h.clean}

\* A hand that no race has confused: what is being registered has been fed the
\* whole ledger; what is registered, all but the bar of the one task behind.
FedAll(h) ==
    /\ h.from <= Len(log[h.tf])
    /\ Behind(h.tf) = {}
    /\ h.fed = EndOf(log[h.tf], h.from)

FedBut(h) ==
    /\ h.from <= Len(log[h.tf])
    /\ \A t, u \in Behind(h.tf) : t = u
    /\ \A t \in Behind(h.tf) :
        /\ task[t].ts = Last(log[h.tf])
        /\ task[t].at \in {"read", "picked"} => task[t].bar = task[t].ts
        /\ task[t].at = "picked" => task[t].group = current
    /\ h.fed \o Owed(h.tf) = EndOf(log[h.tf], h.from)

FedInv ==
    /\ \A h \in CleanOf(pending) : FedAll(h)
    /\ current # 0 => \A h \in CleanOf(groups[current]) : FedBut(h)

HandsInv == TasksInv /\ GroupsInv /\ FedInv

-----------------------------------------------------------------------------
(* Tasks and hands                                                         *)

\* The stages of a task tell what it is.
LEMMA TaskKinds ==
    /\ Idle.at = "idle" /\ Waiting.at = "waiting" /\ Waiting.tf = 0 /\ 0 \notin TFs
    /\ Idle \notin BusyTask /\ Waiting \notin BusyTask
    /\ \A k \in BusyTask : k.at \in {"notified", "read", "picked"} /\ k.tf \in TFs /\ k.ts \in Nat
    /\ \A k \in ReadTask \cup PickedTask : k.bar \in Nat
<1>1. Idle.at = "idle" /\ Waiting.at = "waiting" /\ Waiting.tf = 0
    BY DEF Idle, Waiting
<1>2. 0 \notin TFs
    BY LedgerAssumption
<1>3. \A k \in BusyTask : k.at \in {"notified", "read", "picked"} /\ k.tf \in TFs /\ k.ts \in Nat
    BY DEF BusyTask, NotifiedTask, ReadTask, PickedTask
<1>4. \A k \in ReadTask \cup PickedTask : k.bar \in Nat
    BY DEF ReadTask, PickedTask
<1> QED
    BY <1>1, <1>2, <1>3, <1>4

\* Who is behind on a timeframe is busy with it.
LEMMA BehindIsBusy ==
    ASSUME TasksInv, NEW tf \in TFs
    PROVE  Behind(tf) = {t \in Tasks : task[t] \in BusyTask /\ task[t].tf = tf}
    BY TaskKinds DEF TasksInv, Behind

\* What a timeframe is owed is what the one task behind it advanced.
LEMMA OwedIs ==
    ASSUME NEW tf
    PROVE  /\ Behind(tf) = {} => Owed(tf) = <<>>
           /\ \A t : Behind(tf) = {t} => Owed(tf) = <<task[t].ts>>
    BY DEF Owed, Behind

\* The same, after the step.
LEMMA OwedAfter ==
    ASSUME NEW tf
    PROVE  /\ Behind(tf)' = {} => Owed(tf)' = <<>>
           /\ \A t : Behind(tf)' = {t} => Owed(tf)' = <<task'[t].ts>>
    BY DEF Owed, Behind

\* Marking the hands of a timeframe leaves none of them clean.
LEMMA ConfusedIs ==
    ASSUME NEW hands, OneHand(hands), NEW tf
    PROVE  /\ OneHand(Confused(hands, tf))
           /\ hands = {} => Confused(hands, tf) = {}
           /\ \A h \in CleanOf(Confused(hands, tf)) : h \in CleanOf(hands) /\ h.tf # tf
<1>1. CASE hands = {}
    BY <1>1 DEF Confused, CleanOf, OneHand
<1>2. ASSUME NEW h, IsHand(h), hands = {h}
      PROVE  /\ OneHand(Confused(hands, tf))
             /\ \A k \in CleanOf(Confused(hands, tf)) : k \in CleanOf(hands) /\ k.tf # tf
    <2>1. PICK no : no = FALSE
        OBVIOUS
    <2> DEFINE m == [h EXCEPT !.clean = no]
    <2>2. /\ m.tf = h.tf /\ m.from = h.from /\ m.fed = h.fed /\ m.clean = no
          /\ m.standIns = h.standIns
          /\ m = [tf |-> m.tf, htfs |-> m.htfs, standIns |-> m.standIns, from |-> m.from, fed |-> m.fed,
                  higherFrom |-> m.higherFrom, higher |-> m.higher,
                  level |-> m.level, clean |-> m.clean]
        BY <1>2 DEF IsHand
    <2>3. Confused(hands, tf) = {IF h.tf = tf THEN m ELSE h}
        BY <1>2, <2>1, Zenon DEF Confused
    <2> HIDE DEF m
    <2>4. IsHand(m)
        BY <1>2, <2>2 DEF IsHand
    <2>5. CASE h.tf = tf
        <3>1. Confused(hands, tf) = {m}
            BY <2>3, <2>5
        <3>2. CleanOf({m}) = {}
            BY <2>1, <2>2, Zenon DEF CleanOf
        <3> QED
            BY <2>4, <3>1, <3>2 DEF OneHand
    <2>6. CASE h.tf # tf
        <3>1. Confused(hands, tf) = hands
            BY <1>2, <2>3, <2>6
        <3> QED
            BY <1>2, <2>6, <3>1 DEF OneHand, CleanOf
    <2> QED
        BY <2>5, <2>6
<1> QED
    BY <1>1, <1>2 DEF OneHand

\* What evaluate_all does to a group.
Evaluated(hands, tf, bar) == {IF h.tf = tf THEN On_bar_base(h, bar) ELSE h : h \in hands}

\* Evaluation feeds the bar to the hands of the timeframe and to no other.
LEMMA EvaluatedIs ==
    ASSUME NEW hands, OneHand(hands), NEW tf, NEW bar \in Nat
    PROVE  /\ OneHand(Evaluated(hands, tf, bar))
           /\ hands = {} => Evaluated(hands, tf, bar) = {}
           /\ \A k \in CleanOf(Evaluated(hands, tf, bar)) : \E h \in CleanOf(hands) :
                /\ k.tf = h.tf /\ k.from = h.from
                /\ k.fed = IF h.tf = tf THEN Append(h.fed, bar) ELSE h.fed
<1>1. CASE hands = {}
    BY <1>1 DEF Evaluated, CleanOf, OneHand
<1>2. ASSUME NEW h, IsHand(h), hands = {h}
      PROVE  /\ OneHand(Evaluated(hands, tf, bar))
             /\ \A k \in CleanOf(Evaluated(hands, tf, bar)) : \E e \in CleanOf(hands) :
                  /\ k.tf = e.tf /\ k.from = e.from
                  /\ k.fed = IF e.tf = tf THEN Append(e.fed, bar) ELSE e.fed
    <2> DEFINE m == On_bar_base(h, bar)
    <2>1. PICK higher : m = [h EXCEPT !.fed = Append(h.fed, bar), !.higher = higher]
        BY DEF On_bar_base
    <2> HIDE DEF m
    <2>2. /\ m.tf = h.tf /\ m.from = h.from /\ m.fed = Append(h.fed, bar) /\ m.clean = h.clean
          /\ m.standIns = h.standIns
          /\ m = [tf |-> m.tf, htfs |-> m.htfs, standIns |-> m.standIns, from |-> m.from, fed |-> m.fed,
                  higherFrom |-> m.higherFrom, higher |-> m.higher,
                  level |-> m.level, clean |-> m.clean]
        BY <1>2, <2>1 DEF IsHand
    <2>3. IsHand(m)
        <3>1. Append(h.fed, bar) \in Seq(Nat)
            BY <1>2, Appended DEF IsHand
        <3> QED
            BY <1>2, <2>2, <3>1 DEF IsHand
    <2>4. Evaluated(hands, tf, bar) = {IF h.tf = tf THEN m ELSE h}
        BY <1>2 DEF Evaluated, m
    <2>5. CASE h.tf = tf
        <3>1. Evaluated(hands, tf, bar) = {m}
            BY <2>4, <2>5
        <3>2. \A k \in CleanOf({m}) : k = m /\ h \in CleanOf(hands)
            BY <1>2, <2>2, Zenon DEF CleanOf
        <3>3. OneHand({m})
            BY <2>3 DEF OneHand
        <3> QED
            BY <2>2, <2>5, <3>1, <3>2, <3>3
    <2>6. CASE h.tf # tf
        <3>1. Evaluated(hands, tf, bar) = hands
            BY <1>2, <2>4, <2>6
        <3>2. \A k \in CleanOf(hands) : k = h
            BY <1>2 DEF CleanOf
        <3>3. OneHand(hands)
            OBVIOUS
        <3> QED
            BY <2>6, <3>1, <3>2, <3>3
    <2> QED
        BY <2>5, <2>6
<1> QED
    BY <1>1, <1>2 DEF OneHand

\* A hand that is built while a task is behind on its timeframe is not clean.
LEMMA WarmIs ==
    ASSUME LogType, NEW kind \in Kinds
    PROVE  /\ IsHand(Warm(kind)) /\ Warm(kind).tf = kind.tf
           /\ Warm(kind).from <= Len(log[kind.tf])
           /\ Warm(kind).fed = EndOf(log[kind.tf], Warm(kind).from)
           /\ CleanOf({Warm(kind)}) # {} => Behind(kind.tf) = {}
<1> DEFINE w == Warm(kind)
<1>1. kind.tf \in TFs /\ log[kind.tf] \in Seq(Nat)
    BY HeraldAssumption DEF LogType
<1>2. /\ Window(log[kind.tf]) \in Seq(Nat)
      /\ Len(log[kind.tf]) - Len(Window(log[kind.tf])) \in Nat
      /\ Len(log[kind.tf]) - Len(Window(log[kind.tf])) <= Len(log[kind.tf])
      /\ Window(log[kind.tf]) = EndOf(log[kind.tf], Len(log[kind.tf]) - Len(Window(log[kind.tf])))
    BY <1>1, WindowIsEnd DEF EndOf
<1>3. /\ w.tf = kind.tf /\ w.standIns = StandIns(kind) /\ w.from = Len(log[kind.tf]) - Len(Window(log[kind.tf]))
      /\ w.fed = Window(log[kind.tf])
      /\ w = [tf |-> w.tf, htfs |-> w.htfs, standIns |-> w.standIns, from |-> w.from, fed |-> w.fed,
              higherFrom |-> w.higherFrom, higher |-> w.higher,
              level |-> w.level, clean |-> w.clean]
    BY DEF Warm
<1>4. w.clean = (\A t \in Tasks : task[t] = Idle \/ task[t].tf # kind.tf)
    BY DEF Warm
<1> HIDE DEF w
<1>5. IsHand(w)
    <2>1. StandIns(kind) # <<>> => Window(log[kind.tf]) = <<>>
        BY DEF StandIns
    <2>2. Window(log[kind.tf]) = <<>> => w.from = 0
        BY <1>1, <1>3, WindowEmpty
    <2> QED
        BY <1>1, <1>2, <1>3, <2>1, <2>2 DEF IsHand
<1>6. CleanOf({w}) # {} => Behind(kind.tf) = {}
    BY <1>4, Zenon DEF CleanOf, Behind
<1> QED
    BY <1>2, <1>3, <1>5, <1>6 DEF w

\* The hands of the invariant are hands.
LEMMA HandsAre ==
    ASSUME GroupsInv
    PROVE  /\ \A h \in CleanOf(pending) : IsHand(h) /\ h \in pending
           /\ current # 0 => current \in 1..Len(groups)
           /\ current # 0 => \A h \in CleanOf(groups[current]) : IsHand(h) /\ h \in groups[current]
<1>1. \A hands : OneHand(hands) => \A h \in CleanOf(hands) : IsHand(h) /\ h \in hands
    BY DEF OneHand, CleanOf
<1>2. current # 0 => current \in 1..Len(groups)
    BY DEF GroupsInv
<1> QED
    BY <1>1, <1>2 DEF GroupsInv

-----------------------------------------------------------------------------
(* The steps                                                               *)

\* What was owed is owed while those behind stay where they are.
LEMMA FedSame ==
    ASSUME NEW h, log'[h.tf] = log[h.tf], Behind(h.tf)' = Behind(h.tf),
           \A t \in Behind(h.tf) : task'[t] = task[t]
    PROVE  /\ FedAll(h) => FedAll(h)'
           /\ FedBut(h) /\ current' = current => FedBut(h)'
<1>1. Owed(h.tf)' = Owed(h.tf)
    <2> DEFINE b == Behind(h.tf)
    <2>1. Owed(h.tf) = IF b = {} THEN <<>> ELSE <<task[CHOOSE t \in b : TRUE].ts>>
        BY DEF Owed, Behind
    <2>2. Owed(h.tf)' = IF b' = {} THEN <<>> ELSE <<task'[CHOOSE t \in b' : TRUE].ts>>
        BY DEF Owed, Behind
    <2>3. b' = b /\ \A t \in b : task'[t] = task[t]
        OBVIOUS
    <2> HIDE DEF b
    <2>4. b # {} => (CHOOSE t \in b : TRUE) \in b
        OBVIOUS
    <2> QED
        BY <2>1, <2>2, <2>3, <2>4
<1>2. FedAll(h) => FedAll(h)'
    BY DEF FedAll
<1>3. FedBut(h) /\ current' = current => FedBut(h)'
    BY <1>1 DEF FedBut
<1> QED
    BY <1>2, <1>3

\* The steps that touch neither ledger nor hands; the start-up task may begin.
LEMMA QuietStep ==
    ASSUME HandsInv, UNCHANGED <<log, groups, current, pending, dropped>>,
           \/ task' = task
           \/ task["startup"] = Waiting /\ task' = [task EXCEPT !["startup"] = Idle]
    PROVE  HandsInv'
<1>1. task \in [Tasks -> {Idle, Waiting} \cup BusyTask] /\ "startup" \in Tasks
    BY DEF HandsInv, TasksInv, Tasks
<1>2. \A t \in Tasks : task'[t] = task[t] \/ (task[t] = Waiting /\ task'[t] = Idle)
    BY <1>1
<1>3. task' \in [Tasks -> {Idle, Waiting} \cup BusyTask]
    BY <1>1
<1>4. \A t \in Tasks : task'[t] \in BusyTask => task'[t] = task[t]
    BY <1>2, TaskKinds
<1>5. BarNotOlder'
    BY <1>2, TaskKinds DEF HandsInv, TasksInv, BarNotOlder
<1>6. TasksInv'
    BY <1>3, <1>4, <1>5 DEF HandsInv, TasksInv
<1>7. GroupsInv'
    BY DEF HandsInv, GroupsInv, NoGhostHands
<1>8. ASSUME NEW h, IsHand(h)
      PROVE  Behind(h.tf)' = Behind(h.tf) /\ \A t \in Behind(h.tf) : task'[t] = task[t]
    BY <1>2, <1>8, TaskKinds DEF Behind, IsHand
<1>9. FedInv'
    <2>1. \A h \in CleanOf(pending) : IsHand(h)
        BY HandsAre DEF HandsInv
    <2>2. current # 0 => \A h \in CleanOf(groups[current]) : IsHand(h)
        BY HandsAre DEF HandsInv
    <2> QED
        BY <1>8, <2>1, <2>2, FedSame DEF HandsInv, FedInv
<1> QED
    BY <1>6, <1>7, <1>9 DEF HandsInv

\* A task that is told to go on: what the others are behind does not change.
LEMMA OtherTasks ==
    ASSUME TasksInv, NEW t \in Tasks, NEW to, task' = [task EXCEPT ![t] = to],
           NEW tf
    PROVE  /\ \A u \in Tasks \ {t} : task'[u] = task[u]
           /\ task'[t] = to
           /\ task[t] # Idle /\ task[t].tf = tf /\ to # Idle /\ to.tf = tf => Behind(tf)' = Behind(tf)
           /\ (task[t] = Idle \/ task[t].tf # tf) /\ (to = Idle \/ to.tf # tf) =>
                Behind(tf)' = Behind(tf) /\ t \notin Behind(tf)
           /\ to = Idle => Behind(tf)' = Behind(tf) \ {t}
           /\ task[t] = Idle /\ to # Idle /\ to.tf = tf => Behind(tf)' = Behind(tf) \cup {t} /\ t \notin Behind(tf)
<1>1. (\A u \in Tasks \ {t} : task'[u] = task[u]) /\ task'[t] = to
    BY DEF TasksInv
<1> QED
    BY <1>1 DEF Behind

\* A task that moves on one timeframe leaves the others as they were.
LEMMA OtherTimeframes ==
    ASSUME TasksInv, NEW t \in Tasks, NEW to, task' = [task EXCEPT ![t] = to], NEW tf,
           task[t].tf # tf, to = Idle \/ to.tf # tf
    PROVE  Behind(tf)' = Behind(tf)
<1>1. (\A u \in Tasks \ {t} : task'[u] = task[u]) /\ task'[t] = to
    BY OtherTasks
<1>2. t \notin Behind(tf) /\ t \notin Behind(tf)'
    BY <1>1 DEF Behind
<1> QED
    BY <1>1, <1>2 DEF Behind

\* The tasks' invariant after one of them has moved, with the ledger as it was.
LEMMA TasksMove ==
    ASSUME TasksInv, log' = log, NEW t \in Tasks, NEW to \in {Idle} \cup BusyTask,
           task' = [task EXCEPT ![t] = to],
           to \in BusyTask => task[t] \in BusyTask /\ to.tf = task[t].tf /\ to.ts = task[t].ts,
           to.at \in {"read", "picked"} => to.bar >= to.ts
    PROVE  TasksInv'
<1>1. (\A u \in Tasks \ {t} : task'[u] = task[u]) /\ task'[t] = to
    BY OtherTasks
<1>2. task' \in [Tasks -> {Idle, Waiting} \cup BusyTask]
    BY DEF TasksInv
<1>3. \A u \in Tasks : task'[u] \in BusyTask =>
        log[task'[u].tf] # <<>> /\ task'[u].ts <= Last(log[task'[u].tf])
    BY <1>1 DEF TasksInv
<1>4. BarNotOlder'
    BY <1>1 DEF TasksInv, BarNotOlder
<1> QED
    BY <1>2, <1>3, <1>4 DEF TasksInv

\* The newest bar is read.
LEMMA ReadStep ==
    ASSUME LogType, HandsInv, NEW t \in Tasks, ReadBar(t)
    PROVE  HandsInv'
<1>1. /\ task[t].at = "notified" /\ UNCHANGED <<log, groups, current, pending, dropped>>
      /\ task[t] \in {Idle, Waiting} \cup BusyTask
    BY DEF ReadBar, HandsInv, TasksInv
<1>2. task[t] \in BusyTask
    BY <1>1, TaskKinds
<1>3. PICK tf \in TFs, ts \in Nat : task[t].tf = tf /\ task[t].ts = ts
    BY <1>2, TaskKinds
<1>4. log[tf] # <<>> /\ ts <= Last(log[tf]) /\ log[tf] \in Seq(Nat)
    BY <1>2, <1>3 DEF HandsInv, TasksInv, LogType
<1>5. Last(log[tf]) \in Nat
    BY <1>4 DEF Last
<1> DEFINE to == [at |-> "read", tf |-> tf, ts |-> ts, bar |-> Last(log[tf])]
<1>6. task' = [task EXCEPT ![t] = to]
    BY <1>3 DEF ReadBar, Last
<1>7. /\ to \in BusyTask /\ to.tf = tf /\ to.ts = ts /\ to.at = "read" /\ to.bar = Last(log[tf])
      /\ to # Idle
    BY <1>5, TaskKinds DEF BusyTask, ReadTask
<1> HIDE DEF to
<1>8. TasksInv'
    BY <1>1, <1>2, <1>3, <1>4, <1>6, <1>7, TasksMove DEF HandsInv
<1>9. GroupsInv'
    BY <1>1 DEF HandsInv, GroupsInv, NoGhostHands
<1>10. task[t] # Idle /\ t \in Behind(tf)
    BY <1>2, <1>3, TaskKinds DEF Behind
<1>11. ASSUME NEW u PROVE Behind(u)' = Behind(u)
    <2>1. CASE u = tf
        BY <1>3, <1>6, <1>7, <1>10, <2>1, OtherTasks DEF HandsInv
    <2>2. CASE u # tf
        <3>1. task[t].tf # u /\ to.tf # u
            BY <1>3, <1>7, <2>2
        <3> QED
            BY <1>6, <3>1, OtherTimeframes DEF HandsInv
    <2> QED
        BY <2>1, <2>2
<1>12. \A u \in Tasks \ {t} : task'[u] = task[u]
    BY <1>6, OtherTasks DEF HandsInv
<1>13. ASSUME NEW h, FedAll(h) PROVE FedAll(h)'
    <2>1. Behind(h.tf)' = Behind(h.tf) /\ Behind(h.tf) = {}
        BY <1>11, <1>13 DEF FedAll
    <2> QED
        BY <1>1, <1>13, <2>1, FedSame
<1>14. ASSUME NEW h, FedBut(h) PROVE FedBut(h)'
    <2>1. CASE h.tf # tf
        <3>1. t \notin Behind(h.tf) /\ Behind(h.tf) \subseteq Tasks
            BY <1>3, <2>1 DEF Behind
        <3>2. \A u \in Behind(h.tf) : task'[u] = task[u]
            BY <1>12, <3>1
        <3> QED
            BY <1>1, <1>11, <1>14, <3>2, FedSame
    <2>2. CASE h.tf = tf
        <3>1. Behind(h.tf) = {t} /\ Behind(h.tf)' = {t}
            BY <1>10, <1>11, <1>14, <2>2 DEF FedBut
        <3>2. Owed(h.tf) = <<ts>>
            BY <1>3, <3>1, OwedIs
        <3>3. task'[t] = to
            BY <1>6, OtherTasks DEF HandsInv
        <3>4. Owed(h.tf)' = <<ts>>
            BY <1>7, <3>1, <3>3, OwedAfter
        <3>5. ts = Last(log[tf])
            BY <1>3, <1>14, <2>2, <3>1 DEF FedBut
        <3> QED
            BY <1>1, <1>7, <1>14, <2>2, <3>1, <3>2, <3>3, <3>4, <3>5 DEF FedBut
    <2> QED
        BY <2>1, <2>2
<1>15. FedInv'
    BY <1>1, <1>13, <1>14 DEF HandsInv, FedInv
<1> QED
    BY <1>8, <1>9, <1>15 DEF HandsInv

\* The symbol's group is picked up, if there is one.
LEMMA PickStep ==
    ASSUME HandsInv, NEW t \in Tasks, PickGroup(t)
    PROVE  HandsInv'
<1>1. /\ task[t].at = "read" /\ UNCHANGED <<log, groups, current, pending, dropped>>
      /\ task[t] \in {Idle, Waiting} \cup BusyTask
    BY DEF PickGroup, HandsInv, TasksInv
<1>2. task[t] \in ReadTask
    BY <1>1, TaskKinds DEF BusyTask, NotifiedTask, PickedTask
<1>3. PICK tf \in TFs, ts \in Nat, bar \in Nat :
        task[t].tf = tf /\ task[t].ts = ts /\ task[t].bar = bar /\ bar >= ts
    BY <1>1, <1>2, TaskKinds DEF HandsInv, TasksInv, BarNotOlder, ReadTask
<1>4. current \in Nat
    BY DEF HandsInv, GroupsInv
<1> DEFINE picked == [at |-> "picked", tf |-> tf, ts |-> ts, bar |-> bar, group |-> current]
           to == IF current = 0 THEN Idle ELSE picked
<1>5. task' = [task EXCEPT ![t] = to]
    BY <1>3 DEF PickGroup
<1>6. /\ picked \in BusyTask /\ picked.tf = tf /\ picked.ts = ts /\ picked.at = "picked"
      /\ picked.bar = bar /\ picked.group = current
    BY <1>4 DEF BusyTask, PickedTask
<1>7. /\ current = 0 => to = Idle
      /\ current # 0 => to = picked
      /\ to \in {Idle} \cup BusyTask /\ picked # Idle
    BY <1>6, TaskKinds
<1> HIDE DEF picked, to
<1>8. task[t] \in BusyTask /\ task[t] # Idle /\ t \in Behind(tf)
    BY <1>2, <1>3, TaskKinds DEF BusyTask, Behind
<1>9. TasksInv'
    <2>1. to \in BusyTask => to = picked
        BY <1>7, TaskKinds
    <2>2. to.at \in {"read", "picked"} => to = picked
        BY <1>7, TaskKinds
    <2> QED
        BY <1>1, <1>3, <1>5, <1>6, <1>7, <1>8, <2>1, <2>2, TasksMove DEF HandsInv
<1>10. GroupsInv'
    BY <1>1 DEF HandsInv, GroupsInv, NoGhostHands
<1>11. \A u \in Tasks \ {t} : task'[u] = task[u]
    BY <1>5, OtherTasks DEF HandsInv
<1>12. ASSUME NEW h, FedAll(h) PROVE FedAll(h)'
    <2>1. h.tf # tf /\ Behind(h.tf) = {}
        BY <1>8, <1>12 DEF FedAll
    <2>2. Behind(h.tf)' = Behind(h.tf)
        <3>1. to = Idle \/ to.tf # h.tf
            BY <1>6, <1>7, <2>1
        <3>2. PICK u : u = h.tf
            OBVIOUS
        <3>3. task[t].tf # u /\ (to = Idle \/ to.tf # u)
            BY <1>3, <2>1, <3>1, <3>2
        <3>4. Behind(u)' = Behind(u)
            BY <1>5, <3>3, OtherTimeframes DEF HandsInv
        <3> QED
            BY <3>2, <3>4
    <2> QED
        BY <1>1, <1>12, <2>1, <2>2, FedSame
<1>13. ASSUME NEW h, FedBut(h), current # 0 PROVE FedBut(h)'
    <2>1. to = picked
        BY <1>7, <1>13
    <2>2. CASE h.tf # tf
        <3>1. Behind(h.tf)' = Behind(h.tf) /\ t \notin Behind(h.tf)
            BY <1>3, <1>5, <1>6, <2>1, <2>2, OtherTasks DEF HandsInv
        <3>2. \A u \in Behind(h.tf) : task'[u] = task[u]
            BY <1>11, <3>1 DEF Behind
        <3> QED
            BY <1>1, <1>13, <3>1, <3>2, FedSame
    <2>3. CASE h.tf = tf
        <3>1. Behind(h.tf)' = Behind(h.tf)
            BY <1>3, <1>5, <1>6, <1>7, <1>8, <2>1, <2>3, OtherTasks DEF HandsInv
        <3>2. Behind(h.tf) = {t} /\ Behind(h.tf)' = {t}
            BY <1>8, <1>13, <2>3, <3>1 DEF FedBut
        <3>3. Owed(h.tf) = <<ts>>
            BY <1>3, <3>2, OwedIs
        <3>4. task'[t] = picked
            BY <1>5, <2>1, OtherTasks DEF HandsInv
        <3>5. Owed(h.tf)' = <<ts>>
            BY <1>6, <3>2, <3>4, OwedAfter
        <3>6. ts = Last(log[tf]) /\ bar = ts
            BY <1>1, <1>3, <1>13, <2>3, <3>2 DEF FedBut
        <3> QED
            BY <1>1, <1>6, <1>13, <2>3, <3>2, <3>3, <3>4, <3>5, <3>6 DEF FedBut
    <2> QED
        BY <2>2, <2>3
<1>14. FedInv'
    BY <1>1, <1>12, <1>13 DEF HandsInv, FedInv
<1> QED
    BY <1>9, <1>10, <1>14 DEF HandsInv

\* The group's hands are evaluated: the one task that was behind a clean hand
\* of the symbol's group has picked that group, and feeds it what it is owed.
LEMMA EvaluateStep ==
    ASSUME HandsInv, NEW t \in Tasks, Evaluate(t)
    PROVE  HandsInv'
<1>1. /\ task[t].at = "picked" /\ UNCHANGED <<log, current, pending, dropped>>
      /\ task[t] \in {Idle, Waiting} \cup BusyTask
      /\ task' = [task EXCEPT ![t] = Idle]
    BY DEF Evaluate, HandsInv, TasksInv
<1>2. task[t] \in PickedTask
    BY <1>1, TaskKinds DEF BusyTask, NotifiedTask, ReadTask
<1>3. PICK tf \in TFs, ts \in Nat, bar \in Nat, g \in Nat :
        task[t].tf = tf /\ task[t].ts = ts /\ task[t].bar = bar /\ task[t].group = g
    BY <1>2 DEF PickedTask
<1>4. groups' = [groups EXCEPT ![g] = Evaluated(groups[g], tf, bar)]
    BY <1>3 DEF Evaluate, Evaluated
<1>5. PICK S : groups \in Seq(S)
    BY DEF HandsInv, GroupsInv
<1>6. /\ groups' \in Seq(S \cup {Evaluated(groups[g], tf, bar)})
      /\ Len(groups') = Len(groups)
      /\ \A i \in 1..Len(groups) : groups'[i] = IF i = g THEN Evaluated(groups[g], tf, bar) ELSE groups[i]
    <2>1. PICK e : e = Evaluated(groups[g], tf, bar)
        OBVIOUS
    <2>2. groups' = [groups EXCEPT ![g] = e]
        BY <1>4, <2>1
    <2>3. groups \in Seq(S \cup {e}) /\ DOMAIN groups = 1..Len(groups) /\ Len(groups) \in Nat
        BY <1>5
    <2>4. /\ groups' \in Seq(S \cup {e}) /\ Len(groups') = Len(groups)
          /\ \A i \in 1..Len(groups) : groups'[i] = IF i = g THEN e ELSE groups[i]
        <3>1. CASE g \in 1..Len(groups)
            BY <2>2, <2>3, <3>1
        <3>2. CASE g \notin 1..Len(groups)
            <4>1. groups' = groups
                BY <2>2, <2>3, <3>2
            <4> QED
                BY <2>3, <3>2, <4>1
        <3> QED
            BY <3>1, <3>2
    <2> QED
        BY <2>1, <2>4
<1>7. task[t] \in BusyTask /\ task[t] # Idle /\ t \in Behind(tf)
    BY <1>2, <1>3, TaskKinds DEF BusyTask, Behind
<1>8. TasksInv'
    BY <1>1, TaskKinds, TasksMove DEF HandsInv
<1>9. GroupsInv'
    <2>1. \A i \in 1..Len(groups) : OneHand(groups'[i]) /\ (groups[i] = {} => groups'[i] = {})
        BY <1>6, EvaluatedIs DEF HandsInv, GroupsInv
    <2>2. DOMAIN groups' = 1..Len(groups) /\ DOMAIN groups = 1..Len(groups)
        BY <1>5, <1>6
    <2>3. NoGhostHands'
        BY <1>1, <2>1, <2>2 DEF HandsInv, GroupsInv, NoGhostHands
    <2> QED
        BY <1>1, <1>6, <2>1, <2>3 DEF HandsInv, GroupsInv
<1>10. /\ \A u \in Tasks \ {t} : task'[u] = task[u]
       /\ \A d : Behind(d)' = Behind(d) \ {t}
    BY <1>1, OtherTasks DEF HandsInv
<1>11. ASSUME NEW h, FedAll(h) PROVE FedAll(h)'
    <2>1. Behind(h.tf)' = Behind(h.tf) /\ Behind(h.tf) = {}
        BY <1>10, <1>11 DEF FedAll
    <2> QED
        BY <1>1, <1>11, <2>1, FedSame
<1>12. ASSUME NEW h, FedBut(h), h.tf # tf PROVE FedBut(h)'
    <2>1. t \notin Behind(h.tf)
        BY <1>3, <1>12 DEF Behind
    <2>2. Behind(h.tf)' = Behind(h.tf) /\ \A u \in Behind(h.tf) : task'[u] = task[u]
        BY <1>10, <2>1 DEF Behind
    <2> QED
        BY <1>1, <1>12, <2>2, FedSame
<1>13. ASSUME NEW h, FedBut(h), h.tf = tf
       PROVE  /\ g = current /\ Behind(tf)' = {}
              /\ h.fed \o <<bar>> = EndOf(log[tf], h.from) /\ h.from <= Len(log[tf])
    <2>1. Behind(tf) = {t} /\ g = current /\ bar = ts
        BY <1>1, <1>3, <1>7, <1>13, SMTT(30) DEF FedBut
    <2>2. Owed(tf) = <<ts>>
        BY <1>3, <2>1, OwedIs
    <2> QED
        BY <1>10, <1>13, <2>1, <2>2 DEF FedBut
<1>14. ASSUME current # 0, NEW k \in CleanOf(groups'[current]) PROVE FedBut(k)'
    <2>1. current \in 1..Len(groups) /\ \A h \in CleanOf(groups[current]) : IsHand(h) /\ FedBut(h)
        BY <1>14, HandsAre DEF HandsInv, FedInv
    <2>2. CASE g # current
        <3>1. k \in CleanOf(groups[current])
            BY <1>6, <1>14, <2>1, <2>2
        <3>2. k.tf # tf
            BY <1>13, <2>1, <2>2, <3>1
        <3> QED
            BY <1>12, <2>1, <3>1, <3>2
    <2>3. CASE g = current
        <3>1. groups'[current] = Evaluated(groups[current], tf, bar)
            BY <1>6, <2>1, <2>3
        <3>2. OneHand(groups[current])
            BY <2>1 DEF HandsInv, GroupsInv
        <3>3. PICK h \in CleanOf(groups[current]) :
                /\ k.tf = h.tf /\ k.from = h.from
                /\ k.fed = IF h.tf = tf THEN Append(h.fed, bar) ELSE h.fed
            BY <1>14, <3>1, <3>2, EvaluatedIs
        <3>4. CASE h.tf # tf
            <4>1. FedBut(h)'
                BY <1>12, <2>1, <3>4
            <4>2. k.fed = h.fed
                BY <3>3, <3>4
            <4> QED
                BY <3>3, <4>1, <4>2 DEF FedBut
        <3>5. CASE h.tf = tf
            <4>1. /\ Behind(tf)' = {} /\ h.from <= Len(log[tf])
                  /\ h.fed \o <<bar>> = EndOf(log[tf], h.from)
                BY <1>13, <2>1, <3>5
            <4>2. h.fed \in Seq(Nat) /\ k.fed = Append(h.fed, bar)
                BY <2>1, <3>3, <3>5 DEF IsHand
            <4>3. Append(h.fed, bar) = h.fed \o <<bar>> /\ Append(h.fed, bar) \o <<>> = Append(h.fed, bar)
                BY <4>2
            <4>4. Owed(tf)' = <<>>
                BY <4>1, OwedAfter
            <4> QED
                BY <1>1, <3>3, <3>5, <4>1, <4>2, <4>3, <4>4 DEF FedBut
        <3> QED
            BY <3>4, <3>5
    <2> QED
        BY <2>2, <2>3
<1>15. FedInv'
    BY <1>1, <1>11, <1>14 DEF HandsInv, FedInv
<1> QED
    BY <1>8, <1>9, <1>15 DEF HandsInv

\* A bar is taken: whoever it would race with loses its clean hands.
LEMMA TakenStep ==
    ASSUME LogType, HandsInv, NEW t \in Tasks, NEW tf \in TFs, NEW ts \in Nat, task[t] = Idle,
           AdvanceLog(tf, ts),
           task' = [task EXCEPT ![t] = [at |-> "notified", tf |-> tf, ts |-> ts]],
           pending' = Confused(pending, tf),
           groups' = IF Overlap(t, tf) THEN [g \in DOMAIN groups |-> Confused(groups[g], tf)] ELSE groups,
           UNCHANGED <<current, dropped>>
    PROVE  HandsInv'
<1> DEFINE to == [at |-> "notified", tf |-> tf, ts |-> ts]
<1>1. to \in BusyTask /\ to.tf = tf /\ to.ts = ts /\ to.at = "notified" /\ to # Idle
    BY TaskKinds DEF BusyTask, NotifiedTask
<1>2. task' = [task EXCEPT ![t] = to]
    OBVIOUS
<1> HIDE DEF to
<1>3. /\ log[tf] \in Seq(Nat) /\ Accepts(log[tf], ts)
      /\ log'[tf] = Append(log[tf], ts) /\ \A u \in TFs \ {tf} : log'[u] = log[u]
    BY DEF LogType, AdvanceLog
<1>4. log'[tf] # <<>> /\ Last(log'[tf]) = ts /\ (log[tf] # <<>> => Last(log[tf]) < ts /\ Last(log[tf]) \in Nat)
    BY <1>3, Appended DEF Last, Accepts, Back
<1>5. (\A u \in Tasks \ {t} : task'[u] = task[u]) /\ task'[t] = to
    BY <1>2, OtherTasks DEF HandsInv
<1>6. TasksInv'
    <2>1. task' \in [Tasks -> {Idle, Waiting} \cup BusyTask]
        BY <1>1, <1>2 DEF HandsInv, TasksInv
    <2>2. ASSUME NEW u \in Tasks, task'[u] \in BusyTask
          PROVE  log'[task'[u].tf] # <<>> /\ task'[u].ts <= Last(log'[task'[u].tf])
        <3>1. CASE u = t
            BY <1>1, <1>4, <1>5, <3>1
        <3>2. CASE u # t
            <4>1. task'[u] = task[u] /\ task[u].tf \in TFs /\ task[u].ts \in Nat
                BY <1>5, <2>2, <3>2, TaskKinds
            <4>2. log[task[u].tf] # <<>> /\ task[u].ts <= Last(log[task[u].tf])
                BY <2>2, <4>1 DEF HandsInv, TasksInv
            <4>3. CASE task[u].tf = tf
                BY <1>4, <4>1, <4>2, <4>3
            <4>4. CASE task[u].tf # tf
                BY <1>3, <4>1, <4>2, <4>4
            <4> QED
                BY <4>3, <4>4
        <3> QED
            BY <3>1, <3>2
    <2>3. BarNotOlder'
        BY <1>1, <1>5 DEF HandsInv, TasksInv, BarNotOlder
    <2> QED
        BY <2>1, <2>2, <2>3 DEF TasksInv
<1>7. PICK S : groups \in Seq(S)
    BY DEF HandsInv, GroupsInv
<1>8. /\ \E R : groups' \in Seq(R)
      /\ Len(groups') = Len(groups) /\ DOMAIN groups' = 1..Len(groups) /\ DOMAIN groups = 1..Len(groups)
      /\ \A g \in 1..Len(groups) : groups'[g] = IF Overlap(t, tf) THEN Confused(groups[g], tf) ELSE groups[g]
    <2>1. CASE Overlap(t, tf)
        <3>1. groups' = [g \in 1..Len(groups) |-> Confused(groups[g], tf)] /\ Len(groups) \in Nat
            BY <1>7, <2>1
        <3>2. groups' \in Seq({Confused(r, tf) : r \in S})
            BY <1>7, <3>1
        <3>3. Len(groups') = Len(groups) /\ DOMAIN groups' = 1..Len(groups) /\ DOMAIN groups = 1..Len(groups)
            BY <1>7, <3>1
        <3> QED
            BY <2>1, <3>1, <3>2, <3>3
    <2>2. CASE ~Overlap(t, tf)
        BY <1>7, <2>2
    <2> QED
        BY <2>1, <2>2
<1>9. GroupsInv'
    <2>1. \A g \in 1..Len(groups) : OneHand(groups'[g]) /\ (groups[g] = {} => groups'[g] = {})
        BY <1>8, ConfusedIs DEF HandsInv, GroupsInv
    <2>2. OneHand(pending')
        BY ConfusedIs DEF HandsInv, GroupsInv
    <2>3. NoGhostHands'
        BY <1>8, <2>1 DEF HandsInv, GroupsInv, NoGhostHands
    <2> QED
        BY <1>8, <2>1, <2>2, <2>3 DEF HandsInv, GroupsInv
<1>10. ASSUME NEW h, h.tf # tf, IsHand(h)
       PROVE  /\ FedAll(h) => FedAll(h)'
              /\ FedBut(h) => FedBut(h)'
    <2>1. Behind(h.tf)' = Behind(h.tf) /\ t \notin Behind(h.tf)
        BY <1>1, <1>2, <1>10, OtherTasks DEF HandsInv
    <2>2. log'[h.tf] = log[h.tf] /\ \A u \in Behind(h.tf) : task'[u] = task[u]
        BY <1>3, <1>5, <1>10, <2>1 DEF IsHand, Behind
    <2> QED
        BY <2>1, <2>2, FedSame
<1>11. ASSUME NEW h \in CleanOf(pending') PROVE FedAll(h)'
    <2>1. h \in CleanOf(pending) /\ h.tf # tf
        BY <1>11, ConfusedIs DEF HandsInv, GroupsInv
    <2>2. IsHand(h) /\ FedAll(h)
        BY <2>1, HandsAre DEF HandsInv, FedInv
    <2> QED
        BY <1>10, <2>1, <2>2
<1>12. ASSUME current # 0, NEW h \in CleanOf(groups'[current]) PROVE FedBut(h)'
    <2>1. current \in 1..Len(groups) /\ OneHand(groups[current])
        BY <1>12, HandsAre DEF HandsInv, GroupsInv
    <2>2. CASE Overlap(t, tf)
        <3>1. h \in CleanOf(groups[current]) /\ h.tf # tf
            BY <1>8, <1>12, <2>1, <2>2, ConfusedIs
        <3>2. IsHand(h) /\ FedBut(h)
            BY <1>12, <3>1, HandsAre DEF HandsInv, FedInv
        <3> QED
            BY <1>10, <3>1, <3>2
    <2>3. CASE ~Overlap(t, tf)
        <3>1. h \in CleanOf(groups[current])
            BY <1>8, <1>12, <2>1, <2>3
        <3>2. IsHand(h) /\ FedBut(h)
            BY <1>12, <3>1, HandsAre DEF HandsInv, FedInv
        <3>3. CASE h.tf # tf
            BY <1>10, <3>2, <3>3
        <3>4. CASE h.tf = tf
            <4>1. Behind(tf) = {}
                BY <2>3 DEF Overlap, Behind
            <4>2. Behind(tf)' = {t}
                <5>1. t \in Behind(tf)'
                    BY <1>1, <1>5 DEF Behind
                <5>2. \A u \in Tasks \ {t} : u \notin Behind(tf)'
                    BY <1>5, <4>1 DEF Behind
                <5>3. Behind(tf)' \subseteq Tasks
                    BY DEF Behind
                <5> QED
                    BY <5>1, <5>2, <5>3
            <4>3. Owed(tf) = <<>> /\ Owed(tf)' = <<ts>>
                BY <1>1, <1>5, <4>1, <4>2, OwedIs, OwedAfter
            <4>4. h.fed \in Seq(Nat) /\ h.from \in Nat /\ h.from <= Len(log[tf])
                BY <3>2, <3>4 DEF IsHand, FedBut
            <4>5. h.fed = EndOf(log[tf], h.from)
                BY <3>2, <3>4, <4>3, <4>4 DEF FedBut
            <4>6. EndOf(log'[tf], h.from) = EndOf(log[tf], h.from) \o <<ts>>
                <5>1. EndOf(Append(log[tf], ts), h.from) = EndOf(log[tf], h.from) \o <<ts>>
                    BY <1>3, <4>4, EndAppend DEF EndOf
                <5> QED
                    BY <1>3, <5>1
            <4>7. h.from <= Len(log'[tf])
                BY <1>3, <4>4, Appended
            <4> QED
                BY <1>1, <1>4, <1>5, <3>4, <4>2, <4>3, <4>5, <4>6, <4>7, SMTT(30) DEF FedBut
        <3> QED
            BY <3>3, <3>4
    <2> QED
        BY <2>2, <2>3
<1>13. FedInv'
    BY <1>11, <1>12 DEF FedInv
<1> QED
    BY <1>6, <1>9, <1>13 DEF HandsInv

\* A task advances the ledger, or finds that another already has.
LEMMA AdvanceHands ==
    ASSUME BooksInv, HandsInv, NEW t \in Tasks, Advance(t)
    PROVE  HandsInv'
<1>1. Work(t) # <<>> /\ Work(t) \in Seq(BarType)
    BY DEF Advance, Take, Work, BooksInv, BooksType, Tasks, Fetchers
<1>2. PICK b \in BarType : b = Head(Work(t))
    BY <1>1, HeadTail
<1>3. b.tf \in TFs /\ b.ts \in Nat
    BY BarIs
<1>4. task[t] = Idle /\ UNCHANGED <<current, dropped>> /\ LogType
    BY DEF Advance, BooksInv, BooksType
<1>5. CASE Accepts(log[b.tf], b.ts)
    <2>1. /\ AdvanceLog(b.tf, b.ts)
          /\ task' = [task EXCEPT ![t] = [at |-> "notified", tf |-> b.tf, ts |-> b.ts]]
          /\ pending' = Confused(pending, b.tf)
          /\ groups' = IF Overlap(t, b.tf)
                       THEN [g \in DOMAIN groups |-> Confused(groups[g], b.tf)] ELSE groups
        BY <1>2, <1>5 DEF Advance
    <2> QED
        BY <1>3, <1>4, <2>1, TakenStep
<1>6. CASE ~Accepts(log[b.tf], b.ts)
    <2>1. UNCHANGED <<log, task, pending, groups>>
        BY <1>2, <1>6 DEF Advance
    <2> QED
        BY <1>4, <2>1, QuietStep
<1> QED
    BY <1>5, <1>6

\* A hand is built and warmed: it is clean only when no task is behind.
LEMMA WarmStep ==
    ASSUME LogType, HandsInv, RegisterWarm
    PROVE  HandsInv'
<1>1. UNCHANGED <<log, task, groups, current, dropped>>
    BY DEF RegisterWarm
<1>2. PICK kind \in Kinds : pending' = {Warm(kind)}
    BY DEF RegisterWarm
<1>3. PICK w : w = Warm(kind)
    OBVIOUS
<1>4. /\ IsHand(w) /\ w.tf = kind.tf
      /\ w.from <= Len(log[kind.tf])
      /\ w.fed = EndOf(log[kind.tf], w.from)
      /\ CleanOf({w}) # {} => Behind(kind.tf) = {}
    BY <1>3, WarmIs
<1>5. pending' = {w}
    BY <1>2, <1>3
<1>6. \A tf : Behind(tf)' = Behind(tf) /\ Owed(tf)' = Owed(tf)
    BY <1>1 DEF Behind, Owed
<1>7. TasksInv'
    BY <1>1 DEF HandsInv, TasksInv, BarNotOlder
<1>8. GroupsInv'
    BY <1>1, <1>4, <1>5 DEF HandsInv, GroupsInv, OneHand, NoGhostHands
<1>9. \A h \in CleanOf(pending') : FedAll(h)'
    <2>1. \A h \in CleanOf({w}) : h = w
        BY DEF CleanOf
    <2> QED
        BY <1>1, <1>4, <1>5, <1>6, <2>1 DEF FedAll
<1>10. \A h : FedBut(h) => FedBut(h)'
    BY <1>1, <1>6 DEF FedBut
<1>11. FedInv'
    BY <1>1, <1>9, <1>10 DEF HandsInv, FedInv
<1> QED
    BY <1>7, <1>8, <1>11 DEF HandsInv

\* The warmed hand takes its place: what is clean has been fed everything.
LEMMA AddStep ==
    ASSUME HandsInv, RegisterAdd
    PROVE  HandsInv'
<1>1. UNCHANGED <<log, task, dropped>> /\ pending' = {}
    BY DEF RegisterAdd
<1>2. PICK S : groups \in Seq(S)
    BY DEF HandsInv, GroupsInv
<1>3. /\ \E R : groups' \in Seq(R)
      /\ Len(groups) \in Nat /\ Len(groups') \in Nat /\ Len(groups) <= Len(groups')
      /\ current' \in 1..Len(groups') /\ groups'[current'] = pending
      /\ \A g \in 1..Len(groups') : g # current' => g \in 1..Len(groups) /\ groups'[g] = groups[g] /\ g # current
      /\ DOMAIN groups' = 1..Len(groups') /\ DOMAIN groups = 1..Len(groups)
    <2>1. CASE current = 0
        <3>1. groups' = Append(groups, pending) /\ current' = Len(groups) + 1
            BY <2>1 DEF RegisterAdd
        <3>2. groups \in Seq(S \cup {pending}) /\ pending \in S \cup {pending}
            BY <1>2
        <3>3. /\ groups' \in Seq(S \cup {pending}) /\ Len(groups) \in Nat /\ Len(groups') = Len(groups) + 1
              /\ (\A g \in 1..Len(groups) : groups'[g] = groups[g]) /\ groups'[Len(groups) + 1] = pending
            BY <3>1, <3>2, Appended
        <3> QED
            BY <1>2, <2>1, <3>1, <3>3
    <2>2. CASE current # 0
        <3>1. groups' = [groups EXCEPT ![current] = pending] /\ current' = current /\ current \in 1..Len(groups)
            BY <2>2, HandsAre DEF RegisterAdd, HandsInv
        <3>2. groups' \in Seq(S \cup {pending}) /\ Len(groups') = Len(groups) /\ Len(groups) \in Nat
            BY <1>2, <3>1
        <3> QED
            BY <1>2, <3>1, <3>2
    <2> QED
        BY <2>1, <2>2
<1>4. \A tf : Behind(tf)' = Behind(tf) /\ Owed(tf)' = Owed(tf)
    BY <1>1 DEF Behind, Owed
<1>5. TasksInv'
    BY <1>1 DEF HandsInv, TasksInv, BarNotOlder
<1>6. GroupsInv'
    <2>1. \A g \in 1..Len(groups') : OneHand(groups'[g])
        BY <1>3 DEF HandsInv, GroupsInv
    <2>2. NoGhostHands'
        BY <1>1, <1>3 DEF HandsInv, GroupsInv, NoGhostHands
    <2>3. OneHand(pending')
        BY <1>1 DEF OneHand
    <2> QED
        BY <1>3, <2>1, <2>2, <2>3 DEF GroupsInv
<1>7. ASSUME NEW h \in CleanOf(groups'[current']) PROVE FedBut(h)'
    <2>1. h \in CleanOf(pending)
        BY <1>3, <1>7
    <2>2. FedAll(h) /\ h.fed \in Seq(Nat)
        BY <2>1, HandsAre DEF HandsInv, FedInv, IsHand
    <2>3. Behind(h.tf)' = {} /\ Owed(h.tf)' = <<>>
        BY <1>4, <2>2, OwedIs DEF FedAll
    <2>4. h.fed \o <<>> = h.fed
        BY <2>2
    <2> QED
        BY <1>1, <2>2, <2>3, <2>4 DEF FedAll, FedBut
<1>8. FedInv'
    BY <1>1, <1>7 DEF FedInv, CleanOf
<1> QED
    BY <1>5, <1>6, <1>8 DEF HandsInv

\* The group leaves the map, without its hands or dropped with them.
LEMMA RemoveStep ==
    ASSUME HandsInv, Deregister \/ ResetSymbol
    PROVE  HandsInv'
<1>1. /\ UNCHANGED <<log, task, pending>> /\ current # 0 /\ current' = 0
      /\ \/ groups' = [groups EXCEPT ![current] = {}] /\ dropped' = dropped
         \/ groups' = groups /\ dropped' = dropped \cup {current}
    BY DEF Deregister, ResetSymbol
<1>2. PICK S : groups \in Seq(S)
    BY DEF HandsInv, GroupsInv
<1>3. groups' \in Seq(S \cup {{}}) /\ Len(groups') = Len(groups) /\ Len(groups) \in Nat
    BY <1>1, <1>2
<1>4. /\ DOMAIN groups' = 1..Len(groups) /\ DOMAIN groups = 1..Len(groups)
      /\ \A g \in 1..Len(groups) : groups'[g] = groups[g] \/ groups'[g] = {}
      /\ \A g \in 1..Len(groups) : g # current => groups'[g] = groups[g]
      /\ groups'[current] = {} \/ current \in dropped'
      /\ dropped \subseteq dropped'
    BY <1>1, <1>2, <1>3, HandsAre DEF HandsInv
<1>5. TasksInv'
    BY <1>1 DEF HandsInv, TasksInv, BarNotOlder
<1>6. GroupsInv'
    <2>1. \A g \in 1..Len(groups') : OneHand(groups'[g])
        BY <1>3, <1>4 DEF HandsInv, GroupsInv, OneHand
    <2>2. NoGhostHands'
        BY <1>4 DEF HandsInv, GroupsInv, NoGhostHands
    <2> QED
        BY <1>1, <1>3, <2>1, <2>2 DEF HandsInv, GroupsInv
<1>7. \A tf : Behind(tf)' = Behind(tf)
    BY <1>1 DEF Behind
<1>8. FedInv'
    BY <1>1, <1>7 DEF HandsInv, FedInv, FedAll
<1> QED
    BY <1>5, <1>6, <1>8 DEF HandsInv

\* Every step of the service keeps the invariant of the hands.
LEMMA HandsStep ==
    ASSUME BooksInv, HandsInv, [HeraldNext]_heraldVars
    PROVE  HandsInv'
<1>1. LogType
    BY DEF BooksInv, BooksType
<1>2. CASE CloseBar \/ Disconnect \/ GapFill \/ Connect \/ UNCHANGED heraldVars
    <2>1. UNCHANGED <<log, task, groups, current, pending, dropped>>
        BY <1>2 DEF CloseBar, Disconnect, GapFill, Connect, heraldVars
    <2> QED
        BY <2>1, QuietStep
<1>3. CASE StartupFill
    <2>1. /\ UNCHANGED <<log, groups, current, pending, dropped>>
          /\ task["startup"] = Waiting /\ task' = [task EXCEPT !["startup"] = Idle]
        BY <1>3 DEF StartupFill
    <2> QED
        BY <2>1, QuietStep
<1>4. ASSUME NEW t \in Tasks, Advance(t) \/ ReadBar(t) \/ PickGroup(t) \/ Evaluate(t)
      PROVE  HandsInv'
    BY <1>1, <1>4, AdvanceHands, ReadStep, PickStep, EvaluateStep
<1>5. CASE RegisterWarm \/ RegisterAdd \/ Deregister \/ ResetSymbol
    BY <1>1, <1>5, WarmStep, AddStep, RemoveStep
<1> QED
    BY <1>2, <1>3, <1>4, <1>5 DEF HeraldNext

\* It holds when the service starts.
LEMMA HandsStart ==
    ASSUME HeraldInit
    PROVE  HandsInv
<1>1. /\ task = [t \in Tasks |-> IF t = "startup" THEN Waiting ELSE Idle]
      /\ groups = <<>> /\ current = 0 /\ pending = {}
    BY DEF HeraldInit
<1>2. \A t \in Tasks : task[t] = Waiting \/ task[t] = Idle
    BY <1>1
<1>3. BarNotOlder
    BY <1>2, TaskKinds DEF BarNotOlder
<1>4. TasksInv
    BY <1>1, <1>2, <1>3, TaskKinds DEF TasksInv
<1>5. GroupsInv
    <2>1. groups \in Seq({}) /\ Len(groups) = 0 /\ DOMAIN groups = {}
        BY <1>1
    <2> QED
        BY <1>1, <2>1 DEF GroupsInv, OneHand, NoGhostHands
<1>6. FedInv
    BY <1>1 DEF FedInv, CleanOf
<1> QED
    BY <1>4, <1>5, <1>6 DEF HandsInv

ClockOK == clock \in 0..MaxTime /\ wire \in {"up", "down", "filling"}

\* The clock and the connection keep their types.
LEMMA ClockStep ==
    ASSUME ClockOK, [HeraldNext]_heraldVars
    PROVE  ClockOK'
<1>1. CASE CloseBar
    BY <1>1, HeraldAssumption DEF ClockOK, CloseBar
<1>2. CASE clock' = clock /\ wire' \in {wire, "up", "down", "filling"}
    BY <1>2 DEF ClockOK
<1>3. CloseBar \/ (clock' = clock /\ wire' \in {wire, "up", "down", "filling"})
    BY DEF HeraldNext, heraldVars, Disconnect, GapFill, Connect, StartupFill, Advance, ReadBar,
           PickGroup, Evaluate, RegisterWarm, RegisterAdd, Deregister, ResetSymbol
<1> QED
    BY <1>1, <1>2, <1>3

\* The invariant gives the property.
LEMMA HandsAreCurrent ==
    ASSUME HandsInv, ClockOK
    PROVE  HandsCurrent
<1>1. \A hands : OneHand(hands) => \A h, k \in hands : h = k
    BY Zenon DEF OneHand
<1>2. DOMAIN groups = 1..Len(groups)
    BY DEF HandsInv, GroupsInv
<1>3. \A t \in Tasks : task[t].at \in {"waiting", "idle", "notified", "read", "picked"}
    BY TaskKinds DEF HandsInv, TasksInv
<1>4. HeraldTypeOK
    BY <1>1, <1>2, <1>3 DEF HandsInv, GroupsInv, ClockOK, HeraldTypeOK
<1>5. FedOnce
    <2> SUFFICES ASSUME NEW g \in DOMAIN groups, g = current, NEW h \in groups[g], h.clean
                 PROVE  /\ h.fed \o Owed(h.tf) = SubSeq(log[h.tf], h.from + 1, Len(log[h.tf]))
                        /\ h.standIns # <<>> => h.from = 0
        BY DEF FedOnce
    <2>1. current # 0 /\ h \in CleanOf(groups[current])
        <3>1. g # 0
            BY <1>2
        <3> QED
            BY <3>1, Zenon DEF CleanOf
    <2>2. IsHand(h)
        BY <1>2 DEF HandsInv, GroupsInv, OneHand
    <2> QED
        BY <2>1, <2>2 DEF HandsInv, FedInv, FedBut, EndOf, IsHand
<1> QED
    BY <1>4, <1>5 DEF HandsInv, TasksInv, GroupsInv, HandsCurrent

\* Whatever is registered, deregistered and reset while the tasks advance the
\* ledger: an evaluation works on a bar that is not older than its advance, a
\* removed group has no hands, and a hand that neither of the two races has
\* touched is fed every bar of its own timeframe since its warm-up once and in
\* order, all of them if base bars stood in for them in its warm-up
\* (evaluate_and_publish, Registry::register, deregister and reset).
THEOREM HandsStayCurrent == HeraldSpec => []HandsCurrent
<1>1. HeraldInit => BooksInv /\ HandsInv /\ ClockOK
    <2>1. HeraldInit => ClockOK
        BY HeraldAssumption DEF HeraldInit, ClockOK
    <2> QED
        BY <2>1, BooksStart, HandsStart
<1>2. BooksInv /\ HandsInv /\ ClockOK /\ [HeraldNext]_heraldVars => BooksInv' /\ HandsInv' /\ ClockOK'
    BY BooksStep, HandsStep, ClockStep
<1>3. HandsInv /\ ClockOK => HandsCurrent
    BY HandsAreCurrent
<1> QED
    BY <1>1, <1>2, <1>3, PTL DEF HeraldSpec
=============================================================================
