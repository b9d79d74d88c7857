---------------------------- MODULE HeraldProofs ----------------------------
(***************************************************************************)
(* What is proved of the live service for every higher timeframe, window,   *)
(* number of outages and of requests: it implements the ledger, whose logs  *)
(* are in time order and only grow, and it loses no bar but to an outage.   *)
(***************************************************************************)
EXTENDS Herald, TLAPS

-----------------------------------------------------------------------------
(* Sequences                                                               *)

\* The parts of a sequence that is not empty.
LEMMA HeadTail ==
    ASSUME NEW S, NEW s \in Seq(S), s # <<>>
    PROVE  /\ Tail(s) \in Seq(S) /\ Head(s) \in S /\ Head(s) = s[1]
           /\ Len(s) \in Nat /\ Len(s) > 0
           /\ Len(Tail(s)) = Len(s) - 1
           /\ \A i \in 1..Len(Tail(s)) : Tail(s)[i] = s[i + 1]
    OBVIOUS

\* A sequence and one more element.
LEMMA Appended ==
    ASSUME NEW S, NEW s \in Seq(S), NEW e \in S
    PROVE  /\ Append(s, e) \in Seq(S)
           /\ Len(s) \in Nat
           /\ Len(Append(s, e)) = Len(s) + 1
           /\ \A i \in 1..Len(s) : Append(s, e)[i] = s[i]
           /\ Append(s, e)[Len(s) + 1] = e
    OBVIOUS

\* Two sequences joined.
LEMMA Joined ==
    ASSUME NEW S, NEW r \in Seq(S), NEW s \in Seq(S)
    PROVE  /\ r \o s \in Seq(S)
           /\ Len(r) \in Nat /\ Len(s) \in Nat
           /\ Len(r \o s) = Len(r) + Len(s)
           /\ \A i \in 1..Len(r) : (r \o s)[i] = r[i]
           /\ \A i \in 1..Len(s) : (r \o s)[Len(r) + i] = s[i]
           /\ \A i \in 1..Len(r \o s) : i > Len(r) => (r \o s)[i] = s[i - Len(r)]
    OBVIOUS

-----------------------------------------------------------------------------
(* Multiples of a timeframe                                                *)

\* A multiple is its quotient's.
LEMMA Multiple ==
    ASSUME NEW tf \in Nat \ {0}, NEW x \in Nat, x % tf = 0
    PROVE  x \div tf \in Nat /\ x = tf * (x \div tf)
    OBVIOUS

\* The multiples are what they are called.
LEMMA IsMultiple ==
    ASSUME NEW tf \in Nat \ {0}, NEW k \in Nat
    PROVE  tf * k \in Nat /\ (tf * k) % tf = 0
    OBVIOUS

\* Rounding a multiple up leaves it where it is.
LEMMA Rounded ==
    ASSUME NEW tf \in Nat \ {0}, NEW k \in Nat
    PROVE  (tf * k + tf - 1) \div tf = k
    OBVIOUS

\* How many multiples fit.
LEMMA Quotient ==
    ASSUME NEW tf \in Nat \ {0}, NEW n \in Nat, NEW i \in Nat
    PROVE  n \div tf \in Nat /\ (tf * i <= n <=> i <= n \div tf)
    OBVIOUS

\* Multiples are as far apart as their quotients.
LEMMA Spacing ==
    ASSUME NEW tf \in Nat \ {0}, NEW i \in Nat, NEW j \in Nat
    PROVE  /\ tf * i \in Nat /\ tf * (i + 1) = tf * i + tf
           /\ tf * (i + j) = tf * i + tf * j
           /\ i < j <=> tf * i < tf * j
    OBVIOUS

\* The neighbours of a multiple are multiples.
LEMMA Neighbours ==
    ASSUME NEW tf \in Nat \ {0}, NEW x \in Nat, x % tf = 0
    PROVE  (x + tf) % tf = 0 /\ (x > 0 => x >= tf /\ (x - tf) % tf = 0)
<1>1. x \div tf \in Nat /\ x = tf * (x \div tf)
    BY Multiple
<1> DEFINE k == x \div tf
<1> HIDE DEF k
<1>2. k \in Nat /\ x = tf * k
    BY <1>1 DEF k
<1>3. (x + tf) % tf = 0
    BY <1>2, Spacing, IsMultiple, k + 1 \in Nat
<1>4. ASSUME x > 0
      PROVE  x >= tf /\ (x - tf) % tf = 0
    <2>1. k # 0
        BY <1>2, <1>4
    <2>2. k - 1 \in Nat /\ (k - 1) + 1 = k
        BY <1>2, <2>1
    <2>3. tf * (k - 1) \in Nat /\ tf * k = tf * (k - 1) + tf /\ (tf * (k - 1)) % tf = 0
        <3>1. PICK j \in Nat : j = k - 1 /\ k = j + 1
            BY <2>2
        <3>2. tf * j \in Nat /\ tf * (j + 1) = tf * j + tf
            BY Spacing
        <3>3. (tf * j) % tf = 0
            BY IsMultiple
        <3> QED
            BY <3>1, <3>2, <3>3
    <2> QED
        BY <1>2, <2>3
<1> QED
    BY <1>3, <1>4

-----------------------------------------------------------------------------
(* The ledger                                                              *)

LogType == log \in [TFs -> Seq(Nat)]

\* No log repeats a bar or has one out of order.
InTimeOrder == \A tf \in TFs : Rising(log[tf])

\* What advance accepts is later than all that the log has.
LEMMA RisingAppend ==
    ASSUME NEW s \in Seq(Nat), Rising(s), NEW ts \in Nat, Accepts(s, ts)
    PROVE  Rising(Append(s, ts))
<1> DEFINE n == Len(s)
           r == Append(s, ts)
<1>1. n \in Nat /\ (\A i \in 1..n : s[i] \in Nat)
    OBVIOUS
<1>2. Len(r) = n + 1 /\ (\A i \in 1..n : r[i] = s[i]) /\ r[n + 1] = ts
    BY Appended
<1>3. n > 0 => s[n] < ts
    BY DEF Accepts, Back
<1>4. \A i, j \in 1..n : i < j => s[i] < s[j]
    BY DEF Rising
<1> HIDE DEF n, r
<1>5. ASSUME NEW i \in 1..n PROVE s[i] < ts
    <2>1. CASE i = n
        BY <1>1, <1>3, <2>1
    <2>2. CASE i # n
        <3>1. n \in 1..n /\ i < n
            BY <1>1, <2>2
        <3>2. s[i] < s[n] /\ s[n] < ts /\ s[i] \in Nat /\ s[n] \in Nat
            BY <1>1, <1>3, <1>4, <3>1
        <3> QED
            BY <3>2
    <2> QED
        BY <2>1, <2>2
<1>6. ASSUME NEW i \in 1..(n + 1), NEW j \in 1..(n + 1), i < j
      PROVE  r[i] < r[j]
    <2>1. i \in 1..n /\ r[i] = s[i]
        BY <1>1, <1>2, <1>6
    <2>2. CASE j = n + 1
        BY <1>2, <1>5, <2>1, <2>2
    <2>3. CASE j # n + 1
        <3>1. j \in 1..n /\ r[j] = s[j]
            BY <1>1, <1>2, <2>3
        <3> QED
            BY <1>4, <1>6, <2>1, <3>1
    <2> QED
        BY <2>2, <2>3
<1> QED
    BY <1>2, <1>6 DEF Rising, r

\* A bar that is accepted keeps the log in order.
LEMMA LedgerStep ==
    ASSUME LogType, InTimeOrder, NEW tf \in TFs, NEW ts \in Nat, AdvanceLog(tf, ts)
    PROVE  LogType' /\ InTimeOrder'
<1>1. log[tf] \in Seq(Nat) /\ Rising(log[tf]) /\ Accepts(log[tf], ts)
    BY DEF LogType, InTimeOrder, AdvanceLog
<1>2. Rising(Append(log[tf], ts)) /\ Append(log[tf], ts) \in Seq(Nat)
    BY <1>1, RisingAppend, Appended
<1>3. log' = [log EXCEPT ![tf] = Append(log[tf], ts)]
    BY DEF AdvanceLog
<1>4. LogType'
    BY <1>2, <1>3 DEF LogType
<1>5. log'[tf] = Append(log[tf], ts) /\ \A u \in TFs \ {tf} : log'[u] = log[u]
    BY <1>3 DEF LogType
<1>6. ASSUME NEW u \in TFs PROVE Rising(log'[u])
    BY <1>2, <1>5 DEF InTimeOrder
<1> QED
    BY <1>4, <1>6 DEF InTimeOrder

\* What a step of the ledger leaves of each log.
LEMMA LogKept ==
    ASSUME LogType, [LedgerNext]_log, NEW tf \in TFs
    PROVE  Len(log[tf]) <= Len(log'[tf]) /\ \A i \in 1..Len(log[tf]) : log'[tf][i] = log[tf][i]
<1>1. log[tf] \in Seq(Nat) /\ Len(log[tf]) \in Nat
    BY DEF LogType
<1>2. CASE log' = log
    BY <1>1, <1>2
<1>3. ASSUME NEW u \in TFs, NEW ts \in Nat, AdvanceLog(u, ts)
      PROVE  Len(log[tf]) <= Len(log'[tf]) /\ \A i \in 1..Len(log[tf]) : log'[tf][i] = log[tf][i]
    <2>1. log'[tf] = IF tf = u THEN Append(log[tf], ts) ELSE log[tf]
        BY <1>3 DEF AdvanceLog, LogType
    <2>2. CASE tf = u
        BY <1>1, <2>1, <2>2, Appended
    <2>3. CASE tf # u
        BY <1>1, <2>1, <2>3
    <2> QED
        BY <2>2, <2>3
<1> QED
    BY <1>2, <1>3 DEF LedgerNext

\* Whoever advances the ledger, each log is in time order without repetition
\* and keeps what it has (Ledger::advance).
THEOREM LedgerOrder == LedgerSpec => LedgerSound
<1> DEFINE Grows == \A tf \in TFs : Len(log[tf]) <= Len(log'[tf])
                       /\ \A i \in 1..Len(log[tf]) : log'[tf][i] = log[tf][i]
<1>1. LedgerInit => LogType /\ InTimeOrder
    BY DEF LedgerInit, LogType, InTimeOrder, Rising
<1>2. LogType /\ InTimeOrder /\ [LedgerNext]_log => LogType' /\ InTimeOrder'
    BY LedgerStep DEF LedgerNext, LogType, InTimeOrder
<1>3. LogType /\ [LedgerNext]_log => [Grows]_log
    BY LogKept
<1>4. InTimeOrder => \A tf \in TFs : Rising(log[tf])
    BY DEF InTimeOrder
<1> QED
    BY <1>1, <1>2, <1>3, <1>4, PTL DEF LedgerSpec, LedgerSound, LogGrows

-----------------------------------------------------------------------------
(* Bars                                                                    *)

BarType == [tf : TFs, ts : Nat]

\* The timeframes are durations, of which the base is the unit.
LEMMA Durations == Base = 1 /\ Htf \in Nat \ {0, 1} /\ \A tf \in TFs : tf \in Nat \ {0}
    BY LedgerAssumption, HeraldAssumption

\* A bar is its timeframe and its time.
LEMMA BarIs ==
    /\ \A tf \in TFs, x \in Nat : Bar(tf, x) \in BarType
    /\ \A b \in BarType : b.tf \in TFs /\ b.ts \in Nat /\ b = Bar(b.tf, b.ts)
    /\ \A tf, x : Bar(tf, x).tf = tf /\ Bar(tf, x).ts = x
    BY DEF BarType, Bar

\* What ClosedBars holds: from a multiple on, every multiple whose bar is over,
\* in order.
LEMMA ClosedBarsAre ==
    ASSUME NEW tf \in TFs, NEW k \in Nat, NEW now \in Nat
    PROVE  LET bars == ClosedBars(tf, tf * k, now)
           IN  /\ bars \in Seq(BarType)
               /\ \A i \in 1..Len(bars) :
                    /\ bars[i] = Bar(tf, tf * (k + i - 1))
                    /\ tf * (k + i - 1) \in Nat /\ tf * (k + i - 1) + tf <= now
               /\ \A j \in Nat : j >= k /\ tf * j + tf <= now =>
                    j - k + 1 \in 1..Len(bars)
<1> DEFINE first == tf * k
           n == IF now < first THEN 0 ELSE (now - first) \div tf
           bars == ClosedBars(tf, tf * k, now)
<1>1. tf \in Nat \ {0} /\ first \in Nat
    BY Durations, Spacing
<1>2. n \in Nat
    <2>1. CASE now < first
        BY <2>1
    <2>2. CASE ~(now < first)
        BY <1>1, <2>2, Quotient, now - first \in Nat, 0 \in Nat
    <2> QED
        BY <2>1, <2>2
<1>3. bars = [i \in 1..n |-> Bar(tf, first + tf * (i - 1))]
    BY <1>1, Rounded DEF ClosedBars
<1> HIDE DEF bars, n
<1>4. ASSUME NEW i \in 1..n
      PROVE  /\ first + tf * (i - 1) = tf * (k + i - 1)
             /\ first + tf * (i - 1) \in Nat
             /\ tf * (k + i - 1) + tf <= now
    <2>1. i - 1 \in Nat /\ i \in Nat /\ k + i - 1 = k + (i - 1)
        BY <1>2
    <2>2. tf * (k + (i - 1)) = tf * k + tf * (i - 1) /\ tf * (i - 1) \in Nat
        BY <1>1, <2>1, Spacing
    <2>3. tf * i = tf * (i - 1) + tf
        BY <1>1, <2>1, Spacing, (i - 1) + 1 = i
    <2>4. ~(now < first) /\ n = (now - first) \div tf /\ now - first \in Nat
        BY <1>1, <1>2, <2>1 DEF n
    <2>5. tf * i <= now - first
        BY <1>1, <2>1, <2>4, Quotient
    <2> QED
        BY <1>1, <2>1, <2>2, <2>3, <2>4, <2>5
<1>5. bars \in Seq(BarType) /\ Len(bars) = n
    BY <1>2, <1>3, <1>4, BarIs
<1>6. ASSUME NEW j \in Nat, j >= k, tf * j + tf <= now
      PROVE  j - k + 1 \in 1..n
    <2> DEFINE d == j - k + 1
    <2>1. d \in Nat /\ d >= 1 /\ j + 1 = k + d
        BY <1>6
    <2>2. tf * (j + 1) = tf * j + tf /\ tf * (k + d) = tf * k + tf * d /\ tf * d \in Nat
        BY <1>1, <2>1, Spacing
    <2>3. tf * (k + d) = tf * j + tf
        BY <2>1, <2>2
    <2> HIDE DEF d
    <2>4. now - first \in Nat /\ tf * d <= now - first
        BY <1>1, <1>6, <2>2, <2>3
    <2>5. d <= (now - first) \div tf /\ ~(now < first)
        BY <1>1, <2>1, <2>4, Quotient
    <2> QED
        BY <1>2, <2>1, <2>5 DEF n, d
<1>7. \A i \in 1..Len(bars) :
        /\ bars[i] = Bar(tf, tf * (k + i - 1))
        /\ tf * (k + i - 1) \in Nat /\ tf * (k + i - 1) + tf <= now
    BY <1>3, <1>4, <1>5
<1>8. \A j \in Nat : j >= k /\ tf * j + tf <= now => j - k + 1 \in 1..Len(bars)
    BY <1>5, <1>6
<1> QED
    BY <1>5, <1>7, <1>8 DEF bars

-----------------------------------------------------------------------------
(* No bar is lost but to an outage                                         *)

Fetchers == {"feed", "startup"}

\* A bar the ledger would take, one that is over, and one that it has.
Newer(books, tf, x) == Accepts(books[tf], x)
Over(now, tf, x) == x % tf = 0 /\ x + tf <= now
InLog(books, tf, x) == \E i \in 1..Len(books[tf]) : books[tf][i] = x

\* A bar among the first ones of a sequence, and among all of them.
Among(bars, n, tf, x) == \E i \in 1..n : bars[i] = Bar(tf, x)
Holds(bars, tf, x) == Among(bars, Len(bars), tf, x)

BooksType ==
    /\ LogType
    /\ clock \in Nat
    /\ queue \in Seq(BarType)
    /\ fetched \in [Fetchers -> Seq(BarType)]
    /\ task = [t \in Tasks |-> task[t]]

AllOver ==
    /\ \A i \in 1..Len(queue) : Over(clock, queue[i].tf, queue[i].ts)
    /\ \A t \in Fetchers : \A i \in 1..Len(fetched[t]) : Over(clock, fetched[t][i].tf, fetched[t][i].ts)
    /\ \A tf \in TFs : \A i \in 1..Len(log[tf]) : Over(clock, tf, log[tf][i])

Stages ==
    /\ wire = "up" => dark = {}
    /\ wire \in {"up", "down"} => fetched["feed"] = <<>>
    /\ task["startup"] = Waiting => fetched["startup"] = <<>>

\* What closed in the dark is newer than anything on its way.
DarkIsNew ==
    \A tf \in TFs, x \in Nat : Bar(tf, x) \in dark =>
        /\ Over(clock, tf, x) /\ Newer(log, tf, x)
        /\ \A i \in 1..Len(queue) : queue[i].tf = tf => queue[i].ts < x
        /\ \A t \in Fetchers : \A i \in 1..Len(fetched[t]) : fetched[t][i].tf = tf => fetched[t][i].ts < x

\* What REST returned has no holes but those the ledger has filled.
NoSkip ==
    \A t \in Fetchers : \A i \in 1..Len(fetched[t]) : \A x \in Nat :
        (x < fetched[t][i].ts /\ x % fetched[t][i].tf = 0 /\ Newer(log, fetched[t][i].tf, x))
            => Among(fetched[t], i - 1, fetched[t][i].tf, x)

\* The queue has holes, but they are the outages'.
QueueSkips ==
    \A i \in 1..Len(queue) : \A x \in Nat :
        (x < queue[i].ts /\ x % queue[i].tf = 0 /\ Newer(log, queue[i].tf, x))
            => \/ Among(queue, i - 1, queue[i].tf, x)
               \/ Bar(queue[i].tf, x) \in lost
               \/ Holds(fetched["startup"], queue[i].tf, x)

\* The ledger has holes, but they are the outages'.
Gaps ==
    \A tf \in TFs, x \in Nat : Over(clock, tf, x) /\ ~Newer(log, tf, x) =>
        \/ InLog(log, tf, x)
        \/ task["startup"] # Waiting /\ Bar(tf, x) \in lost

\* What is still to come is somewhere.
Kept ==
    \A tf \in TFs, x \in Nat : Over(clock, tf, x) /\ Newer(log, tf, x) =>
        \/ Holds(queue, tf, x) \/ Holds(fetched["feed"], tf, x) \/ Holds(fetched["startup"], tf, x)
        \/ Bar(tf, x) \in dark \cup lost

\* NothingElseLost is not inductive: a step of the ledger passes by every older
\* bar, so the invariant says of each holder of bars what it may be missing.
BooksInv ==
    BooksType /\ AllOver /\ Stages /\ DarkIsNew /\ NoSkip /\ QueueSkips /\ Gaps /\ Kept

\* A bar leaves the head of its sequence and the others move up.
LEMMA Popped ==
    ASSUME NEW s \in Seq(BarType), s # <<>>
    PROVE  /\ \A tf, x : Holds(s, tf, x) => Head(s) = Bar(tf, x) \/ Holds(Tail(s), tf, x)
           /\ \A i \in 1..Len(Tail(s)) :
                /\ i + 1 \in 1..Len(s) /\ Tail(s)[i] = s[i + 1]
                /\ \A tf, x : Among(s, i, tf, x) =>
                        Head(s) = Bar(tf, x) \/ Among(Tail(s), i - 1, tf, x)
<1>1. /\ Tail(s) \in Seq(BarType) /\ Head(s) = s[1]
      /\ Len(s) \in Nat /\ Len(s) > 0
      /\ Len(Tail(s)) = Len(s) - 1
      /\ \A i \in 1..Len(Tail(s)) : Tail(s)[i] = s[i + 1]
    BY HeadTail
<1>2. ASSUME NEW tf, NEW x, NEW n \in 1..Len(s), Among(s, n, tf, x)
      PROVE  Head(s) = Bar(tf, x) \/ Among(Tail(s), n - 1, tf, x)
    <2>1. PICK i \in 1..n : s[i] = Bar(tf, x)
        BY <1>2 DEF Among
    <2>2. CASE i = 1
        BY <1>1, <2>1, <2>2
    <2>3. CASE i # 1
        <3>1. i - 1 \in 1..(n - 1) /\ i - 1 \in 1..Len(Tail(s)) /\ (i - 1) + 1 = i
            BY <1>1, <2>3
        <3> QED
            BY <1>1, <2>1, <3>1 DEF Among
    <2> QED
        BY <2>2, <2>3
<1>3. ASSUME NEW i \in 1..Len(Tail(s))
      PROVE  i + 1 \in 1..Len(s) /\ i \in 1..Len(s)
    BY <1>1
<1>4. \A tf, x : Holds(s, tf, x) => Head(s) = Bar(tf, x) \/ Holds(Tail(s), tf, x)
    BY <1>1, <1>2, Len(s) \in 1..Len(s) DEF Holds
<1> QED
    BY <1>1, <1>2, <1>3, <1>4

\* What a step of the ledger does to the bars it would take.
LEMMA Taken ==
    ASSUME LogType, NEW tf \in TFs, NEW ts \in Nat, AdvanceLog(tf, ts)
    PROVE  /\ LogType'
           /\ InLog(log', tf, ts)
           /\ \A u \in TFs, x \in Nat : InLog(log, u, x) => InLog(log', u, x)
           /\ \A u \in TFs, x \in Nat : InLog(log', u, x) => InLog(log, u, x) \/ (u = tf /\ x = ts)
           /\ \A u \in TFs, x \in Nat : Newer(log', u, x) => Newer(log, u, x) /\ (u = tf => x > ts)
           /\ \A u \in TFs, x \in Nat : Newer(log, u, x) => Newer(log', u, x) \/ (u = tf /\ x <= ts)
<1> DEFINE old == log[tf]
           new == Append(old, ts)
<1>1. old \in Seq(Nat) /\ Accepts(old, ts) /\ log' = [log EXCEPT ![tf] = new]
    BY DEF LogType, AdvanceLog
<1>2. /\ new \in Seq(Nat) /\ Len(old) \in Nat
      /\ Len(new) = Len(old) + 1
      /\ \A i \in 1..Len(old) : new[i] = old[i]
      /\ new[Len(old) + 1] = ts
    BY <1>1, Appended
<1> HIDE DEF new
<1>3. log'[tf] = new /\ \A u \in TFs \ {tf} : log'[u] = log[u]
    BY <1>1 DEF LogType
<1>4. Back(new) = {ts}
    BY <1>2 DEF Back
<1>5. LogType'
    BY <1>1, <1>2 DEF LogType
<1>6. InLog(log', tf, ts)
    BY <1>2, <1>3 DEF InLog
<1>7. ASSUME NEW u \in TFs, NEW x \in Nat, InLog(log, u, x) PROVE InLog(log', u, x)
    <2>1. PICK i \in 1..Len(log[u]) : log[u][i] = x
        BY <1>7 DEF InLog
    <2>2. CASE u = tf
        <3>1. i \in 1..Len(old) /\ i \in 1..Len(new)
            BY <1>2, <2>1, <2>2
        <3>2. new[i] = x
            BY <1>2, <2>1, <2>2, <3>1
        <3> QED
            BY <1>3, <2>2, <3>1, <3>2 DEF InLog
    <2>3. CASE u # tf
        BY <1>3, <2>1, <2>3 DEF InLog
    <2> QED
        BY <2>2, <2>3
<1>8. ASSUME NEW u \in TFs, NEW x \in Nat, InLog(log', u, x)
      PROVE  InLog(log, u, x) \/ (u = tf /\ x = ts)
    <2>1. PICK i \in 1..Len(log'[u]) : log'[u][i] = x
        BY <1>8 DEF InLog
    <2>2. CASE u = tf
        <3>1. i \in 1..(Len(old) + 1) /\ new[i] = x
            BY <1>2, <1>3, <2>1, <2>2
        <3>2. CASE i = Len(old) + 1
            BY <1>2, <2>2, <3>1, <3>2
        <3>3. CASE i # Len(old) + 1
            <4>1. i \in 1..Len(old)
                BY <1>2, <3>1, <3>3
            <4>2. old[i] = x
                BY <1>2, <3>1, <4>1
            <4> QED
                BY <2>2, <4>1, <4>2 DEF InLog
        <3> QED
            BY <3>2, <3>3
    <2>3. CASE u # tf
        BY <1>3, <2>1, <2>3 DEF InLog
    <2> QED
        BY <2>2, <2>3
<1>9. \A x \in Nat : x > ts => Accepts(old, x)
    <2>1. Back(old) \subseteq Nat
        BY <1>1, <1>2 DEF Back
    <2> QED
        BY <1>1, <2>1 DEF Accepts
<1>10. \A x \in Nat : Newer(log', tf, x) <=> x > ts
    BY <1>3, <1>4 DEF Newer, Accepts
<1>11. \A u \in TFs \ {tf}, x \in Nat : Newer(log', u, x) <=> Newer(log, u, x)
    BY <1>3 DEF Newer
<1> QED
    BY <1>5, <1>6, <1>7, <1>8, <1>9, <1>10, <1>11 DEF Newer

\* From a multiple on, what REST returns of one timeframe: bars that are over,
\* all of them, in order.
LEMMA Fetched ==
    ASSUME NEW tf \in TFs, NEW k \in Nat, clock \in Nat
    PROVE  LET bars == ClosedBars(tf, tf * k, clock)
           IN  /\ bars \in Seq(BarType)
               /\ \A i \in 1..Len(bars) : bars[i].tf = tf /\ bars[i].ts \in Nat /\ Over(clock, tf, bars[i].ts)
               /\ \A x \in Nat : x >= tf * k /\ Over(clock, tf, x) => Holds(bars, tf, x)
               /\ \A i \in 1..Len(bars) : \A x \in Nat :
                    x >= tf * k /\ x % tf = 0 /\ x < bars[i].ts => Among(bars, i - 1, tf, x)
<1> DEFINE bars == ClosedBars(tf, tf * k, clock)
<1>1. /\ bars \in Seq(BarType)
      /\ \A i \in 1..Len(bars) :
            /\ bars[i] = Bar(tf, tf * (k + i - 1))
            /\ tf * (k + i - 1) \in Nat /\ tf * (k + i - 1) + tf <= clock
      /\ \A j \in Nat : j >= k /\ tf * j + tf <= clock => j - k + 1 \in 1..Len(bars)
    BY ClosedBarsAre
<1> HIDE DEF bars
<1>2. tf \in Nat \ {0} /\ Len(bars) \in Nat
    BY <1>1, Durations
<1>3. ASSUME NEW i \in 1..Len(bars)
      PROVE  bars[i].tf = tf /\ bars[i].ts = tf * (k + i - 1) /\ bars[i].ts \in Nat /\ Over(clock, tf, bars[i].ts)
    <2>1. k + i - 1 \in Nat
        BY <1>2
    <2>2. (tf * (k + i - 1)) % tf = 0
        BY <1>2, <2>1, IsMultiple
    <2> QED
        BY <1>1, <2>2, BarIs DEF Over
<1>4. ASSUME NEW x \in Nat, x >= tf * k, x % tf = 0
      PROVE  x \div tf \in Nat /\ x = tf * (x \div tf) /\ x \div tf >= k
    <2>1. x \div tf \in Nat /\ x = tf * (x \div tf)
        BY <1>2, <1>4, Multiple
    <2>2. ~(x \div tf < k)
        BY <1>2, <1>4, <2>1, Spacing
    <2> QED
        BY <2>1, <2>2
<1>5. ASSUME NEW x \in Nat, x >= tf * k, Over(clock, tf, x)
      PROVE  Holds(bars, tf, x)
    <2> DEFINE j == x \div tf
    <2>1. j \in Nat /\ x = tf * j /\ j >= k
        BY <1>4, <1>5 DEF Over
    <2> HIDE DEF j
    <2>2. j - k + 1 \in 1..Len(bars) /\ k + (j - k + 1) - 1 = j
        BY <1>1, <1>5, <2>1 DEF Over
    <2> QED
        BY <1>1, <2>1, <2>2 DEF Holds, Among
<1>6. ASSUME NEW i \in 1..Len(bars), NEW x \in Nat, x >= tf * k, x % tf = 0, x < bars[i].ts
      PROVE  Among(bars, i - 1, tf, x)
    <2> DEFINE j == x \div tf
    <2>1. j \in Nat /\ x = tf * j /\ j >= k
        BY <1>4, <1>6
    <2> HIDE DEF j
    <2>2. k + i - 1 \in Nat /\ tf * j < tf * (k + i - 1)
        <3>1. bars[i].ts = tf * (k + i - 1)
            BY <1>3
        <3>2. tf * j < tf * (k + i - 1)
            BY <1>6, <2>1, <3>1
        <3>3. k + i - 1 \in Nat
            BY <1>2
        <3> QED
            BY <3>2, <3>3
    <2>3. j < k + i - 1
        BY <1>2, <2>1, <2>2, Spacing
    <2>4. j - k + 1 \in 1..(i - 1) /\ j - k + 1 \in 1..Len(bars) /\ k + (j - k + 1) - 1 = j
        BY <1>2, <2>1, <2>3
    <2> QED
        BY <1>1, <2>1, <2>4 DEF Among
<1>7. \A i \in 1..Len(bars) : bars[i].tf = tf /\ bars[i].ts \in Nat /\ Over(clock, tf, bars[i].ts)
    BY <1>3
<1> QED
    BY <1>1, <1>5, <1>6, <1>7 DEF bars

\* Where the base fetch begins: with the first bar the ledger would take.
LEMMA FetchFrom ==
    ASSUME LogType
    PROVE  \E k \in Nat :
              /\ LET from == {last + Base : last \in Back(log[Base])}
                 IN  (IF from = {} THEN 0 ELSE CHOOSE t \in from : TRUE) = Base * k
              /\ \A x \in Nat : Newer(log, Base, x) => x >= Base * k
<1>1. Base \in TFs /\ Base = 1
    BY HeraldAssumption
<1>2. log[Base] \in Seq(Nat)
    BY <1>1 DEF LogType
<1>3. CASE log[Base] = <<>>
    <2>1. Back(log[Base]) = {}
        BY <1>3 DEF Back
    <2>2. {last + Base : last \in Back(log[Base])} = {}
        BY <2>1
    <2> QED
        BY <1>1, <2>2
<1>4. CASE log[Base] # <<>>
    <2> DEFINE last == log[Base][Len(log[Base])]
    <2>1. Back(log[Base]) = {last}
        BY <1>4 DEF Back
    <2>2. last \in Nat
        BY <1>2, <1>4
    <2> HIDE DEF last
    <2>3. {l + Base : l \in Back(log[Base])} = {last + 1}
        BY <1>1, <2>1
    <2>4. \A x \in Nat : Newer(log, Base, x) => x >= last + 1
        BY <2>1, <2>2 DEF Newer, Accepts
    <2>5. last + 1 \in Nat /\ Base * (last + 1) = last + 1
        BY <1>1, <2>2
    <2>6. {last + 1} # {} /\ (CHOOSE t \in {last + 1} : TRUE) = last + 1
        OBVIOUS
    <2> QED
        BY <2>3, <2>4, <2>5, <2>6
<1> QED
    BY <1>3, <1>4

\* What gap_fill_symbol brings of the timeframes whose fetch succeeds: only bars
\* that are over, every one the ledger would take, and none before an older one.
LEMMA RestIs ==
    ASSUME LogType, clock \in Nat, NEW ok \in SUBSET TFs
    PROVE  LET bars == Rest(clock, ok)
           IN  /\ bars \in Seq(BarType)
               /\ \A i \in 1..Len(bars) : bars[i].tf \in ok /\ Over(clock, bars[i].tf, bars[i].ts)
               /\ \A tf \in ok, x \in Nat : Over(clock, tf, x) /\ Newer(log, tf, x) => Holds(bars, tf, x)
               /\ \A i \in 1..Len(bars) : \A x \in Nat :
                    (x < bars[i].ts /\ x % bars[i].tf = 0 /\ Newer(log, bars[i].tf, x))
                        => Among(bars, i - 1, bars[i].tf, x)
<1>1. PICK k \in Nat :
              /\ LET from == {last + Base : last \in Back(log[Base])}
                 IN  (IF from = {} THEN 0 ELSE CHOOSE t \in from : TRUE) = Base * k
              /\ \A x \in Nat : Newer(log, Base, x) => x >= Base * k
    BY FetchFrom
<1> DEFINE base == ClosedBars(Base, Base * k, clock)
           higher == ClosedBars(Htf, Htf * 0, clock)
           a == IF Base \in ok THEN base ELSE <<>>
           b == IF Htf \in ok THEN higher ELSE <<>>
           bars == a \o b
<1>2. Base \in TFs /\ Htf \in TFs /\ Base # Htf /\ Htf * 0 = 0 /\ TFs = {Base, Htf}
    BY HeraldAssumption
<1>3. Rest(clock, ok) = bars
    BY <1>1, <1>2 DEF Rest
<1>4. /\ base \in Seq(BarType)
      /\ \A i \in 1..Len(base) : base[i].tf = Base /\ base[i].ts \in Nat /\ Over(clock, Base, base[i].ts)
      /\ \A x \in Nat : x >= Base * k /\ Over(clock, Base, x) => Holds(base, Base, x)
      /\ \A i \in 1..Len(base) : \A x \in Nat :
           x >= Base * k /\ x % Base = 0 /\ x < base[i].ts => Among(base, i - 1, Base, x)
    BY <1>2, Fetched
<1>5. /\ higher \in Seq(BarType)
      /\ \A i \in 1..Len(higher) : higher[i].tf = Htf /\ higher[i].ts \in Nat /\ Over(clock, Htf, higher[i].ts)
      /\ \A x \in Nat : x >= Htf * 0 /\ Over(clock, Htf, x) => Holds(higher, Htf, x)
      /\ \A i \in 1..Len(higher) : \A x \in Nat :
           x >= Htf * 0 /\ x % Htf = 0 /\ x < higher[i].ts => Among(higher, i - 1, Htf, x)
    BY <1>2, Fetched, 0 \in Nat
<1> HIDE DEF base, higher
<1>6. /\ a \in Seq(BarType)
      /\ \A i \in 1..Len(a) : a[i].tf = Base /\ Base \in ok /\ Over(clock, Base, a[i].ts)
      /\ \A x \in Nat : Base \in ok /\ Over(clock, Base, x) /\ Newer(log, Base, x) => Holds(a, Base, x)
      /\ \A i \in 1..Len(a) : \A x \in Nat :
           x < a[i].ts /\ x % Base = 0 /\ Newer(log, Base, x) => Among(a, i - 1, Base, x)
    <2>1. CASE Base \in ok
        BY <1>1, <1>4, <2>1
    <2>2. CASE Base \notin ok
        BY <2>2
    <2> QED
        BY <2>1, <2>2
<1>7. /\ b \in Seq(BarType)
      /\ \A i \in 1..Len(b) : b[i].tf = Htf /\ Htf \in ok /\ Over(clock, Htf, b[i].ts)
      /\ \A x \in Nat : Htf \in ok /\ Over(clock, Htf, x) => Holds(b, Htf, x)
      /\ \A i \in 1..Len(b) : \A x \in Nat :
           x < b[i].ts /\ x % Htf = 0 => Among(b, i - 1, Htf, x)
    <2>1. CASE Htf \in ok
        BY <1>2, <1>5, <2>1
    <2>2. CASE Htf \notin ok
        BY <2>2
    <2> QED
        BY <2>1, <2>2
<1> HIDE DEF a, b
<1>8. /\ bars \in Seq(BarType)
      /\ Len(a) \in Nat /\ Len(b) \in Nat
      /\ Len(bars) = Len(a) + Len(b)
      /\ \A i \in 1..Len(a) : bars[i] = a[i]
      /\ \A i \in 1..Len(b) : bars[Len(a) + i] = b[i]
      /\ \A i \in 1..Len(bars) : i > Len(a) => bars[i] = b[i - Len(a)]
    BY <1>6, <1>7, Joined
<1> HIDE DEF bars
<1>9. ASSUME NEW i \in 1..Len(bars)
      PROVE  /\ bars[i].tf \in ok /\ Over(clock, bars[i].tf, bars[i].ts)
             /\ \A x \in Nat : (x < bars[i].ts /\ x % bars[i].tf = 0 /\ Newer(log, bars[i].tf, x))
                   => Among(bars, i - 1, bars[i].tf, x)
    <2>1. CASE i <= Len(a)
        <3>1. i \in 1..Len(a) /\ bars[i] = a[i] /\ \A j \in 1..(i - 1) : bars[j] = a[j]
            BY <1>8, <2>1
        <3> QED
            BY <1>6, <3>1 DEF Among
    <2>2. CASE i > Len(a)
        <3> DEFINE d == i - Len(a)
        <3>1. d \in 1..Len(b) /\ bars[i] = b[d] /\ i = Len(a) + d
            BY <1>8, <2>2
        <3>2. \A j \in 1..(d - 1) : Len(a) + j \in 1..(i - 1) /\ j \in 1..Len(b)
            BY <1>8, <3>1
        <3> HIDE DEF d
        <3>3. ASSUME NEW x \in Nat, Among(b, d - 1, Htf, x)
              PROVE  Among(bars, i - 1, Htf, x)
            <4>1. PICK j \in 1..(d - 1) : b[j] = Bar(Htf, x)
                BY <3>3 DEF Among
            <4>2. bars[Len(a) + j] = Bar(Htf, x) /\ Len(a) + j \in 1..(i - 1)
                BY <1>8, <3>2, <4>1
            <4> QED
                BY <4>2 DEF Among
        <3> QED
            BY <1>7, <3>1, <3>3
    <2>3. i \in Nat /\ Len(a) \in Nat
        BY <1>8
    <2> QED
        BY <2>1, <2>2, <2>3
<1>10. ASSUME NEW tf \in ok, NEW x \in Nat, Over(clock, tf, x), Newer(log, tf, x)
       PROVE  Holds(bars, tf, x)
    <2>1. CASE tf = Base
        <3>1. PICK i \in 1..Len(a) : a[i] = Bar(tf, x)
            BY <1>6, <1>10, <2>1 DEF Holds, Among
        <3>2. i \in 1..Len(bars) /\ bars[i] = a[i]
            BY <1>8, <3>1
        <3> QED
            BY <3>1, <3>2 DEF Holds, Among
    <2>2. CASE tf = Htf
        <3>1. PICK i \in 1..Len(b) : b[i] = Bar(tf, x)
            BY <1>7, <1>10, <2>2 DEF Holds, Among
        <3>2. Len(a) + i \in 1..Len(bars) /\ bars[Len(a) + i] = b[i]
            BY <1>8, <3>1
        <3> QED
            BY <3>1, <3>2 DEF Holds, Among
    <2> QED
        BY <1>2, <1>10, <2>1, <2>2
<1> QED
    BY <1>3, <1>8, <1>9, <1>10

\* A gap-fill takes over every bar of its timeframes that was in the dark, and at
\* start-up those given up for lost as well.
LEMMA FillStep ==
    ASSUME BooksInv, NEW t \in Fetchers, fetched[t] = <<>>, NEW ok \in SUBSET TFs,
           fetched' = [fetched EXCEPT ![t] = Rest(clock, ok)],
           dark' = dark \ BarsOf(Rest(clock, ok)),
           lost' = IF t = "startup" THEN lost \ BarsOf(Rest(clock, ok)) ELSE lost,
           UNCHANGED <<log, clock, queue>>,
           task' = [u \in Tasks |-> task'[u]],
           t = "feed" => wire' = "filling" /\ task'["startup"] = task["startup"],
           t = "startup" => wire' = wire /\ task["startup"] = Waiting /\ task'["startup"] # Waiting
    PROVE  BooksInv'
<1> DEFINE bars == Rest(clock, ok)
<1>1. BooksType
    BY DEF BooksInv
<1>2. /\ bars \in Seq(BarType)
      /\ \A i \in 1..Len(bars) : bars[i].tf \in ok /\ Over(clock, bars[i].tf, bars[i].ts)
      /\ \A tf \in ok, x \in Nat : Over(clock, tf, x) /\ Newer(log, tf, x) => Holds(bars, tf, x)
      /\ \A i \in 1..Len(bars) : \A x \in Nat :
           (x < bars[i].ts /\ x % bars[i].tf = 0 /\ Newer(log, bars[i].tf, x))
               => Among(bars, i - 1, bars[i].tf, x)
    BY <1>1, RestIs DEF BooksType
<1>3. \A tf, x : Bar(tf, x) \in BarsOf(bars) <=> Holds(bars, tf, x)
    BY DEF BarsOf, Holds, Among
<1>4. /\ fetched' = [fetched EXCEPT ![t] = bars] /\ dark' = dark \ BarsOf(bars)
      /\ lost' = IF t = "startup" THEN lost \ BarsOf(bars) ELSE lost
    OBVIOUS
<1> HIDE DEF bars
<1>5. fetched'[t] = bars /\ (\A u \in Fetchers \ {t} : fetched'[u] = fetched[u])
    BY <1>1, <1>4 DEF BooksType
<1>6. BooksType'
    BY <1>1, <1>2, <1>4 DEF BooksType, LogType
<1>7. /\ \A tf, x : Newer(log', tf, x) <=> Newer(log, tf, x)
      /\ \A tf, x : Over(clock', tf, x) <=> Over(clock, tf, x)
      /\ \A tf, x : InLog(log', tf, x) <=> InLog(log, tf, x)
    BY DEF Newer, Over, InLog
<1>8. AllOver'
    BY <1>2, <1>5, <1>7 DEF BooksInv, AllOver
<1>9. Stages'
    BY <1>4, <1>5 DEF BooksInv, Stages, Fetchers
<1>10. DarkIsNew'
    <2> SUFFICES ASSUME NEW tf \in TFs, NEW x \in Nat, Bar(tf, x) \in dark'
                 PROVE  /\ Over(clock', tf, x) /\ Newer(log', tf, x)
                        /\ \A i \in 1..Len(queue') : queue'[i].tf = tf => queue'[i].ts < x
                        /\ \A u \in Fetchers : \A i \in 1..Len(fetched'[u]) :
                              fetched'[u][i].tf = tf => fetched'[u][i].ts < x
        BY DEF DarkIsNew
    <2>1. Bar(tf, x) \in dark /\ ~Holds(bars, tf, x)
        BY <1>3, <1>4
    <2>2. /\ Over(clock, tf, x) /\ Newer(log, tf, x)
          /\ \A i \in 1..Len(queue) : queue[i].tf = tf => queue[i].ts < x
          /\ \A u \in Fetchers : \A i \in 1..Len(fetched[u]) : fetched[u][i].tf = tf => fetched[u][i].ts < x
        BY <2>1 DEF BooksInv, DarkIsNew
    <2>3. tf \notin ok
        BY <1>2, <2>1, <2>2
    <2>4. \A i \in 1..Len(bars) : bars[i].tf # tf
        BY <1>2, <2>3
    <2> QED
        BY <1>5, <1>7, <2>2, <2>4
<1>11. NoSkip'
    BY <1>2, <1>5, <1>7 DEF BooksInv, NoSkip
<1>12. QueueSkips'
    <2> SUFFICES ASSUME NEW i \in 1..Len(queue), NEW x \in Nat,
                        x < queue[i].ts, x % queue[i].tf = 0, Newer(log, queue[i].tf, x)
                 PROVE  \/ Among(queue, i - 1, queue[i].tf, x)
                        \/ Bar(queue[i].tf, x) \in lost'
                        \/ Holds(fetched'["startup"], queue[i].tf, x)
        BY <1>7 DEF QueueSkips
    <2>1. \/ Among(queue, i - 1, queue[i].tf, x)
          \/ Bar(queue[i].tf, x) \in lost
          \/ Holds(fetched["startup"], queue[i].tf, x)
        BY DEF BooksInv, QueueSkips
    <2>2. CASE t = "startup"
        <3>1. ~Holds(fetched["startup"], queue[i].tf, x)
            BY <2>2 DEF Holds, Among
        <3>2. Bar(queue[i].tf, x) \in lost => Bar(queue[i].tf, x) \in lost' \/ Holds(bars, queue[i].tf, x)
            BY <1>3, <1>4
        <3> QED
            BY <1>5, <2>1, <2>2, <3>1, <3>2
    <2>3. CASE t = "feed"
        BY <1>4, <1>5, <2>1, <2>3 DEF Fetchers
    <2> QED
        BY <2>2, <2>3 DEF Fetchers
<1>13. Gaps'
    <2> SUFFICES ASSUME NEW tf \in TFs, NEW x \in Nat, Over(clock, tf, x), ~Newer(log, tf, x), ~InLog(log, tf, x)
                 PROVE  task'["startup"] # Waiting /\ Bar(tf, x) \in lost'
        BY <1>7 DEF Gaps
    <2>1. task["startup"] # Waiting /\ Bar(tf, x) \in lost
        BY DEF BooksInv, Gaps
    <2> QED
        BY <1>4, <2>1 DEF Fetchers
<1>14. Kept'
    <2> SUFFICES ASSUME NEW tf \in TFs, NEW x \in Nat, Over(clock, tf, x), Newer(log, tf, x)
                 PROVE  \/ Holds(queue, tf, x) \/ Holds(fetched'["feed"], tf, x)
                        \/ Holds(fetched'["startup"], tf, x)
                        \/ Bar(tf, x) \in dark' \cup lost'
        BY <1>7 DEF Kept
    <2>1. \/ Holds(queue, tf, x) \/ Holds(fetched["feed"], tf, x)
          \/ Holds(fetched["startup"], tf, x)
          \/ Bar(tf, x) \in dark \cup lost
        BY DEF BooksInv, Kept
    <2>2. ~Holds(fetched[t], tf, x)
        BY DEF Holds, Among
    <2>3. Bar(tf, x) \in dark \cup lost => Bar(tf, x) \in dark' \cup lost' \/ Holds(bars, tf, x)
        BY <1>3, <1>4
    <2>4. Holds(bars, tf, x) => Holds(fetched'[t], tf, x)
        BY <1>5
    <2>5. \A u \in Fetchers : Holds(fetched[u], tf, x) => Holds(fetched'[u], tf, x)
        BY <1>5, <2>2
    <2> QED
        BY <2>1, <2>3, <2>4, <2>5 DEF Fetchers
<1> QED
    BY <1>6, <1>8, <1>9, <1>10, <1>11, <1>12, <1>13, <1>14 DEF BooksInv

\* A bar leaves a holder for the ledger, which takes it or has passed it: every
\* hole this makes in the ledger was a hole of its holder, an outage's.
LEMMA AdvanceStep ==
    ASSUME BooksInv, NEW t \in Tasks, Advance(t)
    PROVE  BooksInv'
<1> DEFINE src == Work(t)
<1>1. BooksType
    BY DEF BooksInv
<1>2. /\ src # <<>> /\ src = (IF t = "handler" THEN queue ELSE fetched[t])
      /\ t = "handler" => fetched["startup"] = <<>> /\ task["startup"] = Idle
      /\ t # "handler" => t \in Fetchers
      /\ queue' = (IF t = "handler" THEN Tail(queue) ELSE queue)
      /\ fetched' = (IF t = "handler" THEN fetched ELSE [fetched EXCEPT ![t] = Tail(@)])
    BY DEF Advance, Take, Work, Tasks, Fetchers
<1>3. /\ task[t] = Idle
      /\ UNCHANGED <<clock, wire, dark, lost>>
      /\ \A bar : bar = Head(src) =>
            IF Newer(log, bar.tf, bar.ts)
            THEN /\ AdvanceLog(bar.tf, bar.ts)
                 /\ task' = [task EXCEPT ![t] = [at |-> "notified", tf |-> bar.tf, ts |-> bar.ts]]
            ELSE UNCHANGED <<log, task>>
    BY DEF Advance, Newer
<1> HIDE DEF src
<1>4. src \in Seq(BarType)
    BY <1>1, <1>2 DEF BooksType
<1>5. PICK b \in BarType : b = Head(src)
    BY <1>2, <1>4, HeadTail
<1>6. /\ Tail(src) \in Seq(BarType) /\ b = src[1] /\ 1 \in 1..Len(src)
      /\ IF Newer(log, b.tf, b.ts)
         THEN /\ AdvanceLog(b.tf, b.ts)
              /\ task' = [task EXCEPT ![t] = [at |-> "notified", tf |-> b.tf, ts |-> b.ts]]
         ELSE UNCHANGED <<log, task>>
    BY <1>2, <1>3, <1>4, <1>5, HeadTail
<1>7. b.tf \in TFs /\ b.ts \in Nat /\ b = Bar(b.tf, b.ts)
    BY <1>5, BarIs
<1>8. /\ \A tf, x : Holds(src, tf, x) => b = Bar(tf, x) \/ Holds(Tail(src), tf, x)
      /\ \A i \in 1..Len(Tail(src)) :
            /\ i + 1 \in 1..Len(src) /\ Tail(src)[i] = src[i + 1]
            /\ \A tf, x : Among(src, i, tf, x) => b = Bar(tf, x) \/ Among(Tail(src), i - 1, tf, x)
    BY <1>2, <1>4, <1>5, Popped
<1>9. /\ LogType'
      /\ ~Newer(log', b.tf, b.ts)
      /\ \A u \in TFs, x \in Nat : InLog(log, u, x) => InLog(log', u, x)
      /\ \A u \in TFs, x \in Nat : InLog(log', u, x) => InLog(log, u, x) \/ (u = b.tf /\ x = b.ts)
      /\ \A u \in TFs, x \in Nat : Newer(log', u, x) => Newer(log, u, x)
      /\ \A u \in TFs, x \in Nat : Newer(log, u, x) /\ ~Newer(log', u, x) =>
            u = b.tf /\ x <= b.ts /\ Newer(log, b.tf, b.ts) /\ InLog(log', b.tf, b.ts)
    <2>1. CASE Newer(log, b.tf, b.ts)
        <3>1. AdvanceLog(b.tf, b.ts)
            BY <1>3, <1>6, <2>1
        <3>2. /\ LogType'
              /\ InLog(log', b.tf, b.ts)
              /\ \A u \in TFs, x \in Nat : InLog(log, u, x) => InLog(log', u, x)
              /\ \A u \in TFs, x \in Nat : InLog(log', u, x) => InLog(log, u, x) \/ (u = b.tf /\ x = b.ts)
              /\ \A u \in TFs, x \in Nat : Newer(log', u, x) => Newer(log, u, x) /\ (u = b.tf => x > b.ts)
              /\ \A u \in TFs, x \in Nat : Newer(log, u, x) => Newer(log', u, x) \/ (u = b.tf /\ x <= b.ts)
            BY <1>1, <1>7, <3>1, Taken DEF BooksType
        <3>3. ~Newer(log', b.tf, b.ts)
            BY <1>7, <3>2
        <3> QED
            BY <1>7, <2>1, <3>2, <3>3
    <2>2. CASE ~Newer(log, b.tf, b.ts)
        <3>1. /\ \A u, x : Newer(log', u, x) <=> Newer(log, u, x)
              /\ \A u, x : InLog(log', u, x) <=> InLog(log, u, x)
            BY <1>3, <1>6, <2>2 DEF Newer, InLog
        <3> QED
            BY <1>1, <1>3, <1>6, <2>2, <3>1 DEF BooksType, LogType
    <2> QED
        BY <2>1, <2>2
<1>10. \A tf, x : Over(clock', tf, x) <=> Over(clock, tf, x)
    BY <1>3, <1>6 DEF Over
<1>11. /\ t = "handler" => queue' = Tail(src) /\ \A u \in Fetchers : fetched'[u] = fetched[u]
       /\ t # "handler" => /\ queue' = queue /\ fetched'[t] = Tail(src)
                           /\ \A u \in Fetchers \ {t} : fetched'[u] = fetched[u]
    BY <1>1, <1>2 DEF BooksType
<1>12. BooksType'
    <2>1. queue' \in Seq(BarType) /\ fetched' \in [Fetchers -> Seq(BarType)]
        BY <1>1, <1>2, <1>5, <1>6 DEF BooksType
    <2>2. task' = [u \in Tasks |-> task'[u]]
        BY <1>1, <1>3, <1>6 DEF BooksType
    <2> QED
        BY <1>1, <1>3, <1>6, <1>9, <2>1, <2>2 DEF BooksType
<1>13. task'["startup"] = Waiting <=> task["startup"] = Waiting
    <2>1. CASE task' = task
        BY <2>1
    <2>2. CASE task' = [task EXCEPT ![t] = [at |-> "notified", tf |-> b.tf, ts |-> b.ts]]
        <3>1. Idle # Waiting /\ [at |-> "notified", tf |-> b.tf, ts |-> b.ts] # Waiting
            <4>1. Idle.at = "idle" /\ Waiting.at = "waiting"
                BY DEF Idle, Waiting
            <4>2. [at |-> "notified", tf |-> b.tf, ts |-> b.ts].at = "notified"
                OBVIOUS
            <4> QED
                BY <4>1, <4>2
        <3>2. "startup" \in Tasks
            BY DEF Tasks
        <3>3. t = "startup" => task'["startup"] = [at |-> "notified", tf |-> b.tf, ts |-> b.ts]
            BY <1>1, <2>2, <3>2 DEF BooksType
        <3>4. t # "startup" => task'["startup"] = task["startup"]
            BY <1>1, <2>2, <3>2 DEF BooksType
        <3> QED
            BY <1>3, <1>6, <3>1, <3>3, <3>4
    <2> QED
        BY <1>3, <1>6, <2>1, <2>2
<1>14. /\ Over(clock, b.tf, b.ts)
       /\ \A x \in Nat : Bar(b.tf, x) \in dark => b.ts < x
    <2>1. CASE t = "handler"
        BY <1>2, <1>5, <1>6, <2>1 DEF BooksInv, AllOver, DarkIsNew, BarType
    <2>2. CASE t # "handler"
        BY <1>2, <1>5, <1>6, <2>2 DEF BooksInv, AllOver, DarkIsNew, BarType
    <2> QED
        BY <2>1, <2>2
<1>15. AllOver'
    <2>1. ASSUME NEW i \in 1..Len(queue') PROVE Over(clock, queue'[i].tf, queue'[i].ts)
        BY <1>2, <1>8, <1>11, <2>1 DEF BooksInv, AllOver
    <2>2. ASSUME NEW u \in Fetchers, NEW i \in 1..Len(fetched'[u])
          PROVE  Over(clock, fetched'[u][i].tf, fetched'[u][i].ts)
        <3>1. CASE u = t
            <4>1. fetched'[u] = Tail(src) /\ src = fetched[u]
                BY <1>2, <1>11, <3>1 DEF Fetchers
            <4>2. i + 1 \in 1..Len(src) /\ fetched'[u][i] = src[i + 1]
                BY <1>8, <2>2, <4>1
            <4> QED
                BY <4>1, <4>2 DEF BooksInv, AllOver
        <3>2. CASE u # t
            BY <1>2, <1>11, <2>2, <3>2 DEF BooksInv, AllOver
        <3> QED
            BY <3>1, <3>2
    <2>3. ASSUME NEW tf \in TFs, NEW i \in 1..Len(log'[tf])
          PROVE  Over(clock, tf, log'[tf][i])
        <3>1. log'[tf][i] \in Nat
            BY <1>9, <2>3 DEF LogType
        <3>2. InLog(log', tf, log'[tf][i])
            BY <2>3 DEF InLog
        <3>3. InLog(log, tf, log'[tf][i]) \/ (tf = b.tf /\ log'[tf][i] = b.ts)
            BY <1>9, <3>1, <3>2
        <3> QED
            BY <1>14, <3>3 DEF BooksInv, AllOver, InLog
    <2> QED
        BY <1>10, <2>1, <2>2, <2>3 DEF AllOver
<1>16. Stages'
    <2>1. CASE t = "handler"
        BY <1>3, <1>6, <1>11, <1>13, <2>1 DEF BooksInv, Stages, Fetchers
    <2>2. CASE t = "feed"
        BY <1>2, <1>3, <1>6, <1>11, <1>13, <2>2 DEF BooksInv, Stages, Fetchers
    <2>3. CASE t = "startup"
        <3>1. task["startup"] # Waiting
            <4>1. Idle.at = "idle" /\ Waiting.at = "waiting"
                BY DEF Idle, Waiting
            <4> QED
                BY <1>3, <1>6, <2>3, <4>1
        <3> QED
            BY <1>3, <1>6, <1>11, <1>13, <2>3, <3>1 DEF BooksInv, Stages, Fetchers
    <2> QED
        BY <2>1, <2>2, <2>3 DEF Tasks
<1>17. DarkIsNew'
    <2> SUFFICES ASSUME NEW tf \in TFs, NEW x \in Nat, Bar(tf, x) \in dark
                 PROVE  /\ Over(clock, tf, x) /\ Newer(log', tf, x)
                        /\ \A i \in 1..Len(queue') : queue'[i].tf = tf => queue'[i].ts < x
                        /\ \A u \in Fetchers : \A i \in 1..Len(fetched'[u]) :
                              fetched'[u][i].tf = tf => fetched'[u][i].ts < x
        BY <1>3, <1>6, <1>10 DEF DarkIsNew
    <2>1. /\ Over(clock, tf, x) /\ Newer(log, tf, x)
          /\ \A i \in 1..Len(queue) : queue[i].tf = tf => queue[i].ts < x
          /\ \A u \in Fetchers : \A i \in 1..Len(fetched[u]) : fetched[u][i].tf = tf => fetched[u][i].ts < x
        BY DEF BooksInv, DarkIsNew
    <2>2. Newer(log', tf, x)
        BY <1>7, <1>9, <1>14, <2>1, SMTT(30)
    <2>3. \A i \in 1..Len(queue') : queue'[i].tf = tf => queue'[i].ts < x
        BY <1>2, <1>8, <1>11, <2>1
    <2>4. \A u \in Fetchers : \A i \in 1..Len(fetched'[u]) : fetched'[u][i].tf = tf => fetched'[u][i].ts < x
        <3> TAKE u \in Fetchers
        <3>1. CASE u = t
            BY <1>2, <1>8, <1>11, <2>1, <3>1, SMTT(30) DEF Fetchers
        <3>2. CASE u # t
            BY <1>2, <1>11, <2>1, <3>2
        <3> QED
            BY <3>1, <3>2
    <2> QED
        BY <2>1, <2>2, <2>3, <2>4
<1>18. ASSUME NEW tf \in TFs, NEW x \in Nat, Newer(log', tf, x) PROVE b # Bar(tf, x)
    BY <1>7, <1>9, <1>18, BarIs
<1>19. NoSkip'
    <2> SUFFICES ASSUME NEW u \in Fetchers, NEW i \in 1..Len(fetched'[u]), NEW x \in Nat,
                        x < fetched'[u][i].ts, x % fetched'[u][i].tf = 0,
                        Newer(log', fetched'[u][i].tf, x)
                 PROVE  Among(fetched'[u], i - 1, fetched'[u][i].tf, x)
        BY DEF NoSkip
    <2> DEFINE tf == fetched'[u][i].tf
    <2>1. fetched'[u] \in Seq(BarType) /\ fetched'[u][i] \in BarType /\ tf \in TFs
        BY <1>12, BarIs DEF BooksType
    <2>2. Newer(log, tf, x)
        BY <1>9, <2>1
    <2>3. CASE u = t
        <3>1. fetched'[u] = Tail(src) /\ src = fetched[u]
            BY <1>2, <1>11, <2>3 DEF Fetchers
        <3>2. i + 1 \in 1..Len(src) /\ fetched'[u][i] = src[i + 1] /\ (i + 1) - 1 = i
            BY <1>8, <3>1
        <3>3. Among(src, i, tf, x)
            BY <2>2, <3>1, <3>2 DEF BooksInv, NoSkip
        <3>4. b # Bar(tf, x)
            BY <1>18, <2>1
        <3> QED
            BY <1>8, <3>1, <3>3, <3>4
    <2>4. CASE u # t
        <3>1. fetched'[u] = fetched[u]
            BY <1>2, <1>11, <2>4
        <3> QED
            BY <2>2, <3>1 DEF BooksInv, NoSkip
    <2> QED
        BY <2>3, <2>4
<1>20. ASSUME NEW tf \in TFs, NEW x \in Nat, Newer(log', tf, x)
       PROVE  /\ \A u \in Fetchers : Holds(fetched[u], tf, x) => Holds(fetched'[u], tf, x)
              /\ Holds(queue, tf, x) => Holds(queue', tf, x)
    <2>1. Holds(src, tf, x) => Holds(Tail(src), tf, x)
        BY <1>8, <1>18, <1>20
    <2>2. ASSUME NEW u \in Fetchers, Holds(fetched[u], tf, x) PROVE Holds(fetched'[u], tf, x)
        <3>1. CASE u = t
            BY <1>2, <1>11, <2>1, <2>2, <3>1 DEF Fetchers
        <3>2. CASE u # t
            BY <1>2, <1>11, <2>2, <3>2
        <3> QED
            BY <3>1, <3>2
    <2>3. Holds(queue, tf, x) => Holds(queue', tf, x)
        BY <1>2, <1>11, <2>1
    <2> QED
        BY <2>2, <2>3
<1>21. QueueSkips'
    <2> SUFFICES ASSUME NEW i \in 1..Len(queue'), NEW x \in Nat,
                        x < queue'[i].ts, x % queue'[i].tf = 0, Newer(log', queue'[i].tf, x)
                 PROVE  \/ Among(queue', i - 1, queue'[i].tf, x)
                        \/ Bar(queue'[i].tf, x) \in lost
                        \/ Holds(fetched'["startup"], queue'[i].tf, x)
        BY <1>3, <1>6 DEF QueueSkips
    <2> DEFINE tf == queue'[i].tf
    <2>1. queue'[i] \in BarType /\ tf \in TFs
        BY <1>12, BarIs DEF BooksType
    <2>2. Newer(log, tf, x)
        BY <1>9, <2>1
    <2>3. Holds(fetched["startup"], tf, x) => Holds(fetched'["startup"], tf, x)
        BY <1>20, <2>1 DEF Fetchers
    <2>4. CASE t = "handler"
        <3>1. queue' = Tail(src) /\ src = queue
            BY <1>2, <1>11, <2>4
        <3>2. i + 1 \in 1..Len(src) /\ queue'[i] = src[i + 1] /\ (i + 1) - 1 = i
            BY <1>8, <3>1
        <3>3. Among(src, i, tf, x) \/ Bar(tf, x) \in lost \/ Holds(fetched["startup"], tf, x)
            BY <2>2, <3>1, <3>2 DEF BooksInv, QueueSkips
        <3>4. b # Bar(tf, x)
            BY <1>18, <2>1
        <3> QED
            BY <1>8, <2>3, <3>1, <3>3, <3>4
    <2>5. CASE t # "handler"
        <3>1. queue' = queue
            BY <1>11, <2>5
        <3>2. Among(queue, i - 1, tf, x) \/ Bar(tf, x) \in lost \/ Holds(fetched["startup"], tf, x)
            BY <2>2, <3>1 DEF BooksInv, QueueSkips
        <3> QED
            BY <2>3, <3>1, <3>2
    <2> QED
        BY <2>4, <2>5
<1>22. Gaps'
    <2> SUFFICES ASSUME NEW tf \in TFs, NEW x \in Nat, Over(clock, tf, x), ~Newer(log', tf, x), ~InLog(log', tf, x)
                 PROVE  task["startup"] # Waiting /\ Bar(tf, x) \in lost
        BY <1>3, <1>6, <1>10, <1>13 DEF Gaps
    <2>1. ~InLog(log, tf, x)
        BY <1>9
    <2>2. CASE ~Newer(log, tf, x)
        BY <2>1, <2>2 DEF BooksInv, Gaps
    <2>3. CASE Newer(log, tf, x)
        <3>1. tf = b.tf /\ x <= b.ts /\ x # b.ts
            BY <1>9, <2>3
        <3>2. x < b.ts /\ x % b.tf = 0
            BY <1>7, <3>1 DEF Over
        <3>3. \A y, z : ~Among(src, 1 - 1, y, z)
            BY DEF Among
        <3>4. CASE t = "handler"
            <4>1. src = queue /\ task["startup"] = Idle /\ fetched["startup"] = <<>>
                BY <1>2, <3>4
            <4>2. Bar(tf, x) \in lost \/ Holds(fetched["startup"], tf, x)
                BY <1>5, <1>6, <2>3, <3>1, <3>2, <3>3, <4>1 DEF BooksInv, QueueSkips
            <4>3. ~Holds(fetched["startup"], tf, x)
                BY <4>1 DEF Holds, Among
            <4>4. Idle.at = "idle" /\ Waiting.at = "waiting"
                BY DEF Idle, Waiting
            <4> QED
                BY <4>1, <4>2, <4>3, <4>4
        <3>5. CASE t # "handler"
            BY <1>2, <1>5, <1>6, <2>3, <3>1, <3>2, <3>3, <3>5 DEF BooksInv, NoSkip
        <3> QED
            BY <3>4, <3>5
    <2> QED
        BY <2>2, <2>3
<1>23. Kept'
    <2> SUFFICES ASSUME NEW tf \in TFs, NEW x \in Nat, Over(clock, tf, x), Newer(log', tf, x)
                 PROVE  \/ Holds(queue', tf, x) \/ Holds(fetched'["feed"], tf, x)
                        \/ Holds(fetched'["startup"], tf, x)
                        \/ Bar(tf, x) \in dark \cup lost
        BY <1>3, <1>6, <1>10 DEF Kept
    <2>1. \/ Holds(queue, tf, x) \/ Holds(fetched["feed"], tf, x)
          \/ Holds(fetched["startup"], tf, x)
          \/ Bar(tf, x) \in dark \cup lost
        BY <1>9 DEF BooksInv, Kept
    <2> QED
        BY <1>20, <2>1 DEF Fetchers
<1> QED
    BY <1>12, <1>15, <1>16, <1>17, <1>19, <1>21, <1>22, <1>23 DEF BooksInv

\* What closes with the next base bar, whichever of the two the stream sends first.
LEMMA Closing ==
    ASSUME clock \in Nat, NEW closed,
           LET base == <<Bar(Base, clock)>>
               higher == IF (clock + 1) % Htf = 0 THEN <<Bar(Htf, clock + 1 - Htf)>> ELSE <<>>
           IN  closed = higher \o base \/ closed = base \o higher
    PROVE  /\ closed \in Seq(BarType)
           /\ \A i \in 1..Len(closed) :
                closed[i].ts + closed[i].tf = clock + 1 /\ Over(clock + 1, closed[i].tf, closed[i].ts)
           /\ \A tf \in TFs, x \in Nat : Over(clock + 1, tf, x) =>
                Over(clock, tf, x) \/ Holds(closed, tf, x)
<1> DEFINE base == <<Bar(Base, clock)>>
           higher == IF (clock + 1) % Htf = 0 THEN <<Bar(Htf, clock + 1 - Htf)>> ELSE <<>>
<1>1. Base = 1 /\ Htf \in Nat \ {0} /\ TFs = {Base, Htf} /\ clock + 1 \in Nat
    BY HeraldAssumption
<1>2. /\ base \in Seq(BarType) /\ Len(base) = 1 /\ base[1] = Bar(Base, clock)
      /\ Over(clock + 1, Base, clock)
    BY <1>1, BarIs DEF Over
<1>3. ASSUME (clock + 1) % Htf = 0
      PROVE  /\ clock + 1 - Htf \in Nat /\ Over(clock + 1, Htf, clock + 1 - Htf)
             /\ higher \in Seq(BarType) /\ Len(higher) = 1 /\ higher[1] = Bar(Htf, clock + 1 - Htf)
    <2>1. clock + 1 >= Htf /\ (clock + 1 - Htf) % Htf = 0
        <3>1. PICK next \in Nat : next = clock + 1
            BY <1>1
        <3>2. next % Htf = 0 /\ next > 0
            BY <1>3, <3>1
        <3>3. next >= Htf /\ (next - Htf) % Htf = 0
            BY <1>1, <3>2, Neighbours
        <3>4. next - Htf = clock + 1 - Htf
            BY <1>1, <3>1
        <3> QED
            BY <1>1, <3>1, <3>3, <3>4
    <2>2. clock + 1 - Htf \in Nat
        BY <1>1, <2>1
    <2>3. Bar(Htf, clock + 1 - Htf) \in BarType
        BY <1>1, <2>2, BarIs
    <2> QED
        BY <1>1, <1>3, <2>1, <2>2, <2>3 DEF Over
<1>4. ASSUME (clock + 1) % Htf # 0
      PROVE  higher \in Seq(BarType) /\ Len(higher) = 0
    BY <1>4
<1>5. closed = higher \o base \/ closed = base \o higher
    OBVIOUS
<1> HIDE DEF base, higher
<1>6. higher \in Seq(BarType) /\ Len(higher) \in Nat
    BY <1>3, <1>4
<1>7. closed \in Seq(BarType)
    BY <1>2, <1>5, <1>6, Joined
<1>8. /\ Len(closed) = 1 + Len(higher)
      /\ \E i \in 1..Len(closed) : closed[i] = base[1]
      /\ \A j \in 1..Len(higher) : \E i \in 1..Len(closed) : closed[i] = higher[j]
      /\ \A i \in 1..Len(closed) : closed[i] = base[1] \/ \E j \in 1..Len(higher) : closed[i] = higher[j]
    <2>1. CASE closed = base \o higher
        <3>1. /\ Len(base \o higher) = Len(base) + Len(higher)
              /\ \A i \in 1..Len(base) : (base \o higher)[i] = base[i]
              /\ \A i \in 1..Len(higher) : (base \o higher)[Len(base) + i] = higher[i]
              /\ \A i \in 1..Len(base \o higher) : i > Len(base) => (base \o higher)[i] = higher[i - Len(base)]
            <4>1. base \in Seq(BarType) /\ higher \in Seq(BarType)
                BY <1>2, <1>6
            <4> QED
                BY <4>1, Joined
        <3>2. /\ Len(closed) = Len(base) + Len(higher)
              /\ \A i \in 1..Len(base) : closed[i] = base[i]
              /\ \A i \in 1..Len(higher) : closed[Len(base) + i] = higher[i]
              /\ \A i \in 1..Len(closed) : i > Len(base) => closed[i] = higher[i - Len(base)]
            BY <2>1, <3>1
        <3>3. /\ Len(closed) = 1 + Len(higher)
              /\ closed[1] = base[1]
              /\ \A j \in 1..Len(higher) : closed[1 + j] = higher[j] /\ 1 + j \in 1..(1 + Len(higher))
              /\ \A i \in 1..(1 + Len(higher)) : i > 1 => closed[i] = higher[i - 1] /\ i - 1 \in 1..Len(higher)
            BY <1>2, <1>6, <3>2, SMTT(30)
        <3>4. 1 \in 1..Len(closed) /\ \A i \in 1..Len(closed) : i = 1 \/ i > 1
            BY <1>6, <3>3
        <3> QED
            BY <3>3, <3>4
    <2>2. CASE closed = higher \o base
        <3> DEFINE n == Len(higher)
        <3>1. /\ Len(higher \o base) = Len(higher) + Len(base)
              /\ \A i \in 1..Len(higher) : (higher \o base)[i] = higher[i]
              /\ \A i \in 1..Len(base) : (higher \o base)[Len(higher) + i] = base[i]
              /\ \A i \in 1..Len(higher \o base) : i > Len(higher) => (higher \o base)[i] = base[i - Len(higher)]
            <4>1. higher \in Seq(BarType) /\ base \in Seq(BarType)
                BY <1>2, <1>6
            <4> QED
                BY <4>1, Joined
        <3>2. /\ Len(closed) = Len(higher) + Len(base)
              /\ \A i \in 1..Len(higher) : closed[i] = higher[i]
              /\ \A i \in 1..Len(base) : closed[Len(higher) + i] = base[i]
            BY <2>2, <3>1
        <3>3. /\ Len(closed) = 1 + n
              /\ closed[n + 1] = base[1]
              /\ \A j \in 1..n : closed[j] = higher[j] /\ j \in 1..(1 + n)
            BY <1>2, <1>6, <3>2
        <3>4. 1 + n \in 1..Len(closed) /\ \A i \in 1..Len(closed) : i = n + 1 \/ i \in 1..n
            BY <1>6, <3>3
        <3> QED
            BY <3>3, <3>4
    <2> QED
        BY <1>5, <2>1, <2>2
<1>9. ASSUME NEW i \in 1..Len(closed)
      PROVE  closed[i].ts + closed[i].tf = clock + 1 /\ Over(clock + 1, closed[i].tf, closed[i].ts)
    <2>1. CASE closed[i] = base[1]
        BY <1>1, <1>2, <2>1, BarIs, SMTT(30)
    <2>2. CASE \E j \in 1..Len(higher) : closed[i] = higher[j]
        <3>1. (clock + 1) % Htf = 0 /\ closed[i] = Bar(Htf, clock + 1 - Htf)
            BY <1>3, <1>4, <2>2
        <3>2. closed[i].tf = Htf /\ closed[i].ts = clock + 1 - Htf
            BY <3>1, BarIs
        <3>3. Over(clock + 1, Htf, clock + 1 - Htf)
            BY <1>3, <3>1
        <3> QED
            BY <1>1, <3>2, <3>3
    <2> QED
        BY <1>8, <2>1, <2>2
<1>10. ASSUME NEW tf \in TFs, NEW x \in Nat, Over(clock + 1, tf, x), ~Over(clock, tf, x)
       PROVE  Holds(closed, tf, x)
    <2>1. tf \in Nat \ {0} /\ x % tf = 0 /\ x + tf = clock + 1
        BY <1>1, <1>10 DEF Over
    <2>2. CASE tf = Base
        BY <1>1, <1>2, <1>8, <2>1, <2>2 DEF Holds, Among
    <2>3. CASE tf = Htf
        <3>1. (clock + 1) % Htf = 0 /\ x = clock + 1 - Htf
            BY <1>1, <2>1, <2>3, Neighbours
        <3>2. Len(higher) = 1 /\ higher[1] = Bar(tf, x)
            BY <1>3, <2>3, <3>1
        <3>3. 1 \in 1..Len(higher)
            BY <3>2
        <3> QED
            BY <1>8, <3>2, <3>3 DEF Holds, Among
    <2> QED
        BY <1>1, <2>2, <2>3
<1> QED
    BY <1>7, <1>9, <1>10

\* A bar that closes is newer than all before it and is queued, or in the dark.
LEMMA CloseStep ==
    ASSUME BooksInv, CloseBar
    PROVE  BooksInv'
<1>1. BooksType
    BY DEF BooksInv
<1>2. clock' = clock + 1 /\ UNCHANGED <<log, wire, fetched, task, lost>>
    BY DEF CloseBar
<1>3. PICK closed :
        /\ LET base == <<Bar(Base, clock)>>
               higher == IF (clock + 1) % Htf = 0 THEN <<Bar(Htf, clock + 1 - Htf)>> ELSE <<>>
           IN  closed = higher \o base \/ closed = base \o higher
        /\ wire = "up" => queue' = queue \o closed /\ dark' = dark
        /\ wire # "up" => queue' = queue /\ dark' = dark \cup BarsOf(closed)
    BY Zenon DEF CloseBar
<1>4. /\ closed \in Seq(BarType)
      /\ \A i \in 1..Len(closed) :
            closed[i].ts + closed[i].tf = clock + 1 /\ Over(clock + 1, closed[i].tf, closed[i].ts)
      /\ \A tf \in TFs, x \in Nat : Over(clock + 1, tf, x) => Over(clock, tf, x) \/ Holds(closed, tf, x)
    BY <1>1, <1>3, Closing DEF BooksType
<1>5. \A tf, x : Bar(tf, x) \in BarsOf(closed) <=> Holds(closed, tf, x)
    BY DEF BarsOf, Holds, Among
<1>6. /\ clock \in Nat /\ queue \in Seq(BarType) /\ fetched \in [Fetchers -> Seq(BarType)]
      /\ \A tf \in TFs : log[tf] \in Seq(Nat) /\ tf \in Nat \ {0}
    BY <1>1, Durations DEF BooksType, LogType
<1>7. ASSUME NEW tf \in TFs, NEW x \in Nat, Over(clock, tf, x) PROVE Over(clock + 1, tf, x)
    BY <1>6, <1>7 DEF Over
<1>8. ASSUME NEW tf \in TFs, NEW x \in Nat, Holds(closed, tf, x)
      PROVE  x + tf = clock + 1 /\ Over(clock + 1, tf, x) /\ Newer(log, tf, x)
    <2>1. x + tf = clock + 1 /\ Over(clock + 1, tf, x)
        BY <1>4, <1>8, BarIs DEF Holds, Among
    <2>2. ASSUME NEW last \in Back(log[tf]) PROVE x > last
        <3>1. log[tf] # <<>> /\ last = log[tf][Len(log[tf])]
            BY <2>2 DEF Back
        <3>2. Len(log[tf]) \in 1..Len(log[tf]) /\ last \in Nat
            BY <1>6, <3>1
        <3>3. last + tf <= clock
            BY <3>1, <3>2 DEF BooksInv, AllOver, Over
        <3> QED
            BY <1>6, <2>1, <3>2, <3>3
    <2> QED
        BY <2>1, <2>2 DEF Newer, Accepts
<1>9. \A i \in 1..Len(queue') : \/ i \in 1..Len(queue) /\ queue'[i] = queue[i]
                                \/ /\ wire = "up" /\ i > Len(queue) /\ i - Len(queue) \in 1..Len(closed)
                                   /\ queue'[i] = closed[i - Len(queue)]
    <2>1. CASE wire = "up"
        <3>1. /\ Len(queue) \in Nat /\ Len(closed) \in Nat /\ Len(queue') = Len(queue) + Len(closed)
              /\ \A i \in 1..Len(queue) : queue'[i] = queue[i]
              /\ \A i \in 1..Len(queue') : i > Len(queue) => queue'[i] = closed[i - Len(queue)]
            BY <1>3, <1>4, <1>6, <2>1, Joined
        <3> TAKE i \in 1..Len(queue')
        <3>2. CASE i <= Len(queue)
            BY <3>1, <3>2
        <3>3. CASE i > Len(queue)
            BY <2>1, <3>1, <3>3
        <3> QED
            BY <3>1, <3>2, <3>3
    <2>2. CASE wire # "up"
        BY <1>3, <2>2
    <2> QED
        BY <2>1, <2>2
<1>10. \A i \in 1..Len(queue) : i \in 1..Len(queue') /\ queue'[i] = queue[i]
    <2>1. CASE wire = "up"
        <3>1. /\ Len(queue) \in Nat /\ Len(closed) \in Nat /\ Len(queue') = Len(queue) + Len(closed)
              /\ \A i \in 1..Len(queue) : queue'[i] = queue[i]
            BY <1>3, <1>4, <1>6, <2>1, Joined
        <3> QED
            BY <3>1
    <2>2. CASE wire # "up"
        BY <1>3, <2>2
    <2> QED
        BY <2>1, <2>2
<1>11. \A tf, x : Holds(queue, tf, x) => Holds(queue', tf, x)
    BY <1>10 DEF Holds, Among
<1>12. ASSUME NEW tf, NEW x, Holds(closed, tf, x)
       PROVE  Holds(queue', tf, x) \/ Bar(tf, x) \in dark'
    <2>1. CASE wire = "up"
        <3>1. PICK j \in 1..Len(closed) : closed[j] = Bar(tf, x)
            BY <1>12 DEF Holds, Among
        <3>2. Len(queue) + j \in 1..Len(queue') /\ queue'[Len(queue) + j] = closed[j]
            BY <1>3, <1>4, <1>6, <2>1, <3>1, Joined, SMTT(90)
        <3> QED
            BY <3>1, <3>2 DEF Holds, Among
    <2>2. CASE wire # "up"
        BY <1>3, <1>5, <1>12, <2>2
    <2> QED
        BY <2>1, <2>2
<1>13. BooksType'
    <2>1. queue' \in Seq(BarType)
        <3>1. queue \o closed \in Seq(BarType)
            BY <1>4, <1>6, Joined
        <3>2. queue' = queue \o closed \/ queue' = queue
            BY <1>3
        <3> QED
            BY <1>6, <3>1, <3>2
    <2> QED
        BY <1>1, <1>2, <2>1 DEF BooksType, LogType
<1>14. AllOver'
    <2>1. ASSUME NEW i \in 1..Len(queue') PROVE Over(clock + 1, queue'[i].tf, queue'[i].ts)
        <3>1. CASE i \in 1..Len(queue) /\ queue'[i] = queue[i]
            <4>1. queue[i].tf \in TFs /\ queue[i].ts \in Nat /\ Over(clock, queue[i].tf, queue[i].ts)
                BY <1>6, <3>1, BarIs DEF BooksInv, AllOver
            <4> QED
                BY <1>7, <3>1, <4>1
        <3>2. CASE i - Len(queue) \in 1..Len(closed) /\ queue'[i] = closed[i - Len(queue)]
            BY <1>4, <3>2
        <3> QED
            BY <1>9, <2>1, <3>1, <3>2
    <2>2. ASSUME NEW u \in Fetchers, NEW i \in 1..Len(fetched[u])
          PROVE  Over(clock + 1, fetched[u][i].tf, fetched[u][i].ts)
        <3>1. fetched[u] \in Seq(BarType) /\ fetched[u][i].tf \in TFs /\ fetched[u][i].ts \in Nat
            BY <1>6, <2>2, BarIs
        <3>2. Over(clock, fetched[u][i].tf, fetched[u][i].ts)
            BY <2>2 DEF BooksInv, AllOver
        <3> QED
            BY <1>7, <3>1, <3>2
    <2>3. ASSUME NEW tf \in TFs, NEW i \in 1..Len(log[tf]) PROVE Over(clock + 1, tf, log[tf][i])
        <3>1. log[tf][i] \in Nat /\ Over(clock, tf, log[tf][i])
            BY <1>6, <2>3 DEF BooksInv, AllOver
        <3> QED
            BY <1>7, <3>1
    <2> QED
        BY <1>2, <2>1, <2>2, <2>3 DEF AllOver
<1>15. Stages'
    BY <1>2, <1>3 DEF BooksInv, Stages
<1>16. DarkIsNew'
    <2> SUFFICES ASSUME NEW tf \in TFs, NEW x \in Nat, Bar(tf, x) \in dark'
                 PROVE  /\ Over(clock + 1, tf, x) /\ Newer(log, tf, x)
                        /\ \A i \in 1..Len(queue') : queue'[i].tf = tf => queue'[i].ts < x
                        /\ \A u \in Fetchers : \A i \in 1..Len(fetched[u]) :
                              fetched[u][i].tf = tf => fetched[u][i].ts < x
        BY <1>2 DEF DarkIsNew
    <2>1. wire # "up" /\ queue' = queue
        BY <1>3 DEF BooksInv, Stages
    <2>2. CASE Bar(tf, x) \in dark
        <3>1. Over(clock, tf, x)
            BY <2>2 DEF BooksInv, DarkIsNew
        <3> QED
            BY <1>7, <2>1, <2>2, <3>1 DEF BooksInv, DarkIsNew
    <2>3. CASE Bar(tf, x) \notin dark
        <3>1. Holds(closed, tf, x)
            BY <1>3, <1>5, <2>1, <2>3
        <3>2. x + tf = clock + 1 /\ Over(clock + 1, tf, x) /\ Newer(log, tf, x) /\ tf \in Nat
            BY <1>6, <1>8, <3>1
        <3>3. ASSUME NEW i \in 1..Len(queue), queue[i].tf = tf PROVE queue[i].ts < x
            <4>1. queue[i].ts \in Nat /\ queue[i].ts + tf <= clock
                BY <1>6, <3>3, BarIs, SMTT(30) DEF BooksInv, AllOver, Over
            <4> QED
                BY <1>6, <3>2, <4>1
        <3>4. ASSUME NEW u \in Fetchers, NEW i \in 1..Len(fetched[u]), fetched[u][i].tf = tf
              PROVE  fetched[u][i].ts < x
            <4>1. fetched[u] \in Seq(BarType) /\ fetched[u][i].ts \in Nat
                BY <1>6, <3>4, BarIs
            <4>2. fetched[u][i].ts + tf <= clock
                BY <3>4 DEF BooksInv, AllOver, Over
            <4> QED
                BY <1>6, <3>2, <4>1, <4>2
        <3> QED
            BY <2>1, <3>2, <3>3, <3>4
    <2> QED
        BY <2>2, <2>3
<1>17. NoSkip'
    BY <1>2 DEF BooksInv, NoSkip
<1>18. QueueSkips'
    <2> SUFFICES ASSUME NEW i \in 1..Len(queue'), NEW x \in Nat,
                        x < queue'[i].ts, x % queue'[i].tf = 0, Newer(log, queue'[i].tf, x)
                 PROVE  \/ Among(queue', i - 1, queue'[i].tf, x)
                        \/ Bar(queue'[i].tf, x) \in lost
                        \/ Holds(fetched["startup"], queue'[i].tf, x)
        BY <1>2 DEF QueueSkips
    <2>1. CASE i \in 1..Len(queue) /\ queue'[i] = queue[i]
        <3>1. \/ Among(queue, i - 1, queue[i].tf, x)
              \/ Bar(queue[i].tf, x) \in lost
              \/ Holds(fetched["startup"], queue[i].tf, x)
            BY <2>1 DEF BooksInv, QueueSkips
        <3>2. \A j \in 1..(i - 1) : j \in 1..Len(queue) /\ queue'[j] = queue[j]
            BY <1>6, <1>10, <2>1, SMTT(30)
        <3> QED
            BY <2>1, <3>1, <3>2 DEF Among
    <2>2. CASE /\ wire = "up" /\ i > Len(queue) /\ i - Len(queue) \in 1..Len(closed)
               /\ queue'[i] = closed[i - Len(queue)]
        <3> DEFINE tf == queue'[i].tf
        <3>1. tf \in TFs /\ queue'[i].ts \in Nat /\ queue'[i].ts + tf = clock + 1
              /\ Over(clock + 1, tf, queue'[i].ts)
            BY <1>4, <2>2, BarIs, SMTT(30)
        <3>2. x + tf <= queue'[i].ts
            <4> DEFINE y == queue'[i].ts
            <4>1. tf \in Nat \ {0} /\ y \in Nat /\ y % tf = 0 /\ x % tf = 0 /\ x < y
                BY <1>6, <3>1 DEF Over
            <4> HIDE DEF tf, y
            <4>2. /\ x \div tf \in Nat /\ x = tf * (x \div tf)
                  /\ y \div tf \in Nat /\ y = tf * (y \div tf)
                BY <4>1, Multiple
            <4>3. (x \div tf) < (y \div tf)
                BY <4>1, <4>2, Spacing
            <4>4. PICK a \in Nat, c \in Nat : x = tf * a /\ y = tf * c /\ a < c
                BY <4>2, <4>3
            <4>5. tf * (a + 1) = x + tf /\ (a + 1 = c \/ a + 1 < c) /\ a + 1 \in Nat
                BY <4>1, <4>4, Spacing
            <4>6. x + tf <= y
                <5>1. CASE a + 1 = c
                    BY <4>4, <4>5, <5>1, <4>1
                <5>2. CASE a + 1 < c
                    <6>1. tf * (a + 1) < tf * c
                        BY <4>1, <4>4, <4>5, <5>2, Spacing
                    <6> QED
                        BY <4>4, <4>5, <6>1, <4>1
                <5> QED
                    BY <4>5, <5>1, <5>2
            <4> QED
                BY <4>6 DEF y
        <3>3. Over(clock, tf, x)
            BY <1>6, <3>1, <3>2, SMTT(30) DEF Over
        <3>4. /\ fetched["feed"] = <<>> /\ dark = {}
            BY <2>2 DEF BooksInv, Stages
        <3>5. ~Holds(fetched["feed"], tf, x)
            BY <3>4 DEF Holds, Among
        <3>6. Holds(queue, tf, x) \/ Holds(fetched["startup"], tf, x) \/ Bar(tf, x) \in lost
            BY <3>1, <3>3, <3>4, <3>5 DEF BooksInv, Kept
        <3>7. Holds(queue, tf, x) => Among(queue', i - 1, tf, x)
            <4>1. \A j \in 1..Len(queue) : j \in 1..(i - 1) /\ queue'[j] = queue[j]
                BY <1>6, <1>10, <2>2
            <4> QED
                BY <4>1 DEF Holds, Among
        <3> QED
            BY <3>6, <3>7
    <2> QED
        BY <1>9, <2>1, <2>2
<1>19. Gaps'
    <2> SUFFICES ASSUME NEW tf \in TFs, NEW x \in Nat, Over(clock + 1, tf, x), ~Newer(log, tf, x)
                 PROVE  \/ InLog(log, tf, x)
                        \/ task["startup"] # Waiting /\ Bar(tf, x) \in lost
        BY <1>2 DEF Gaps
    <2>1. Over(clock, tf, x)
        BY <1>4, <1>8
    <2> QED
        BY <2>1 DEF BooksInv, Gaps
<1>20. Kept'
    <2> SUFFICES ASSUME NEW tf \in TFs, NEW x \in Nat, Over(clock + 1, tf, x), Newer(log, tf, x)
                 PROVE  \/ Holds(queue', tf, x) \/ Holds(fetched["feed"], tf, x)
                        \/ Holds(fetched["startup"], tf, x)
                        \/ Bar(tf, x) \in dark' \cup lost
        BY <1>2 DEF Kept
    <2>1. CASE Over(clock, tf, x)
        <3>1. \/ Holds(queue, tf, x) \/ Holds(fetched["feed"], tf, x)
              \/ Holds(fetched["startup"], tf, x)
              \/ Bar(tf, x) \in dark \cup lost
            BY <2>1 DEF BooksInv, Kept
        <3>2. dark \subseteq dark'
            BY <1>3
        <3> QED
            BY <1>11, <3>1, <3>2
    <2>2. CASE Holds(closed, tf, x)
        BY <1>12, <2>2
    <2> QED
        BY <1>4, <2>1, <2>2
<1> QED
    BY <1>13, <1>14, <1>15, <1>16, <1>17, <1>18, <1>19, <1>20 DEF BooksInv

\* The stream is up again: what is still in the dark will not be asked for.
LEMMA ConnectStep ==
    ASSUME BooksInv, Connect
    PROVE  BooksInv'
<1>1. /\ wire = "filling" /\ fetched["feed"] = <<>> /\ wire' = "up"
      /\ lost' = lost \cup dark /\ dark' = {}
      /\ UNCHANGED <<log, clock, queue, fetched, task>>
    BY DEF Connect
<1>2. BooksType' /\ AllOver' /\ Stages' /\ DarkIsNew'
    BY <1>1 DEF BooksInv, BooksType, LogType, AllOver, Stages, DarkIsNew
<1>3. NoSkip' /\ QueueSkips' /\ Gaps' /\ Kept'
    BY <1>1 DEF BooksInv, NoSkip, QueueSkips, Gaps, Kept
<1> QED
    BY <1>2, <1>3 DEF BooksInv

\* The steps that move no bar.
LEMMA OtherStep ==
    ASSUME BooksInv, UNCHANGED <<log, clock, queue, fetched, dark, lost>>,
           wire' = wire \/ (wire = "up" /\ wire' = "down"),
           task' = [u \in Tasks |-> task'[u]],
           task'["startup"] = Waiting <=> task["startup"] = Waiting
    PROVE  BooksInv'
<1>1. BooksType' /\ AllOver' /\ Stages' /\ DarkIsNew'
    BY DEF BooksInv, BooksType, LogType, AllOver, Stages, DarkIsNew
<1>2. NoSkip' /\ QueueSkips' /\ Gaps' /\ Kept'
    BY DEF BooksInv, NoSkip, QueueSkips, Gaps, Kept
<1> QED
    BY <1>1, <1>2 DEF BooksInv

\* No step breaks the books: only CloseBar, the fills, Connect and Advance move
\* a bar.
LEMMA BooksStep ==
    ASSUME BooksInv, [HeraldNext]_heraldVars
    PROVE  BooksInv'
<1>1. Waiting # Idle /\ Waiting.at = "waiting" /\ Idle.at = "idle" /\ Tasks = Fetchers \cup {"handler"}
    BY DEF Waiting, Idle, Tasks, Fetchers
<1>2. task = [t \in Tasks |-> task[t]] /\ Stages
    BY DEF BooksInv, BooksType
<1>3. CASE GapFill
    <2>1. PICK ok \in SUBSET TFs :
            /\ fetched' = [fetched EXCEPT !["feed"] = Rest(clock, ok)]
            /\ dark' = dark \ BarsOf(Rest(clock, ok))
        BY <1>3 DEF GapFill
    <2>2. /\ UNCHANGED <<log, clock, queue>> /\ task' = task /\ lost' = lost
          /\ wire' = "filling" /\ fetched["feed"] = <<>>
        BY <1>2, <1>3 DEF GapFill, Stages
    <2> QED
        BY <1>2, <2>1, <2>2, FillStep DEF Fetchers
<1>4. CASE StartupFill
    <2>1. PICK ok \in SUBSET TFs :
            /\ fetched' = [fetched EXCEPT !["startup"] = Rest(clock, ok)]
            /\ dark' = dark \ BarsOf(Rest(clock, ok))
            /\ lost' = lost \ BarsOf(Rest(clock, ok))
        BY <1>4 DEF StartupFill
    <2>2. /\ UNCHANGED <<log, clock, queue>> /\ task["startup"] = Waiting
          /\ wire' = wire /\ fetched["startup"] = <<>>
        BY <1>2, <1>4 DEF StartupFill, Stages
    <2>3. task' = [u \in Tasks |-> task'[u]] /\ task'["startup"] # Waiting
        BY <1>1, <1>2, <1>4 DEF StartupFill, Fetchers
    <2> QED
        BY <2>1, <2>2, <2>3, FillStep DEF Fetchers
<1>5. ASSUME NEW t \in Tasks, ReadBar(t) \/ PickGroup(t) \/ Evaluate(t)
      PROVE  BooksInv'
    <2>1. UNCHANGED <<log, clock, queue, fetched, dark, lost, wire>>
        BY <1>5 DEF ReadBar, PickGroup, Evaluate
    <2>2. task[t] # Waiting
        BY <1>1, <1>5 DEF ReadBar, PickGroup, Evaluate
    <2>3. PICK to : task' = [task EXCEPT ![t] = to] /\ to # Waiting
        <3> DEFINE read == [at |-> "read", tf |-> task[t].tf, ts |-> task[t].ts,
                            bar |-> log[task[t].tf][Len(log[task[t].tf])]]
                   picked == [at |-> "picked", tf |-> task[t].tf, ts |-> task[t].ts,
                              bar |-> task[t].bar, group |-> current]
        <3>1. read # Waiting /\ picked # Waiting
            <4>1. read.at = "read" /\ picked.at = "picked"
                OBVIOUS
            <4> HIDE DEF read, picked
            <4> QED
                BY <1>1, <4>1
        <3>2. \/ task' = [task EXCEPT ![t] = read]
              \/ task' = [task EXCEPT ![t] = picked]
              \/ task' = [task EXCEPT ![t] = Idle]
            <4>1. CASE ReadBar(t)
                BY <4>1 DEF ReadBar
            <4>2. CASE PickGroup(t)
                BY <4>2 DEF PickGroup
            <4>3. CASE Evaluate(t)
                BY <4>3 DEF Evaluate
            <4> QED
                BY <1>5, <4>1, <4>2, <4>3
        <3> HIDE DEF read, picked
        <3> QED
            BY <1>1, <3>1, <3>2
    <2>4. task' = [u \in Tasks |-> task'[u]] /\ (task'["startup"] = Waiting <=> task["startup"] = Waiting)
        BY <1>1, <1>2, <2>2, <2>3 DEF Fetchers
    <2> QED
        BY <2>1, <2>4, OtherStep
<1>6. CASE RegisterWarm \/ RegisterAdd \/ Deregister \/ ResetSymbol \/ Disconnect
    <2>1. UNCHANGED <<log, clock, queue, fetched, dark, lost, task>>
        BY <1>6 DEF RegisterWarm, RegisterAdd, Deregister, ResetSymbol, Disconnect
    <2>2. wire' = wire \/ (wire = "up" /\ wire' = "down")
        BY <1>6 DEF RegisterWarm, RegisterAdd, Deregister, ResetSymbol, Disconnect
    <2> QED
        BY <1>2, <2>1, <2>2, OtherStep
<1>7. CASE UNCHANGED heraldVars
    BY <1>2, <1>7, OtherStep DEF heraldVars
<1> QED
    BY <1>3, <1>4, <1>5, <1>6, <1>7, CloseStep, ConnectStep, AdvanceStep DEF HeraldNext

\* The bars of a timeframe that have closed so far are those that are over.
LEMMA ClosedSoFar ==
    ASSUME clock \in Nat, NEW tf \in TFs
    PROVE  /\ \A b \in BarsOf(ClosedBars(tf, 0, clock)) :
                b = Bar(tf, b.ts) /\ b.ts \in Nat /\ Over(clock, tf, b.ts)
           /\ \A x \in Nat : Over(clock, tf, x) => Bar(tf, x) \in BarsOf(ClosedBars(tf, 0, clock))
<1> DEFINE bars == ClosedBars(tf, 0, clock)
<1>1. tf \in Nat /\ tf * 0 = 0 /\ 0 \in Nat
    BY Durations
<1>2. /\ bars \in Seq(BarType)
      /\ \A i \in 1..Len(bars) : bars[i].tf = tf /\ bars[i].ts \in Nat /\ Over(clock, tf, bars[i].ts)
      /\ \A x \in Nat : x >= tf * 0 /\ Over(clock, tf, x) => Holds(bars, tf, x)
    <2>1. PICK k \in Nat : k = 0
        OBVIOUS
    <2>2. ClosedBars(tf, tf * k, clock) = bars
        BY <1>1, <2>1
    <2> QED
        BY <2>1, <2>2, Fetched, SMTT(90)
<1> HIDE DEF bars
<1>3. \A i \in 1..Len(bars) : bars[i] = Bar(tf, bars[i].ts)
    BY <1>2, BarIs, SMTT(30)
<1>4. \A x \in Nat : x >= tf * 0
    BY <1>1
<1>5. \A b \in BarsOf(bars) : b = Bar(tf, b.ts) /\ b.ts \in Nat /\ Over(clock, tf, b.ts)
    BY <1>2, <1>3 DEF BarsOf
<1>6. \A x \in Nat : Over(clock, tf, x) => Bar(tf, x) \in BarsOf(bars)
    BY <1>2, <1>4 DEF BarsOf, Holds, Among
<1> QED
    BY <1>5, <1>6 DEF bars

\* At the start every bar that is over is in the dark.
LEMMA BooksStart ==
    ASSUME HeraldInit
    PROVE  BooksInv
<1>1. /\ log = [tf \in TFs |-> <<>>] /\ clock = Started /\ queue = <<>>
      /\ fetched = [t \in Fetchers |-> <<>>] /\ wire = "filling"
      /\ dark = UNION {BarsOf(ClosedBars(tf, 0, Started)) : tf \in TFs}
      /\ Started \in Nat
    BY HeraldAssumption DEF HeraldInit, LedgerInit, Fetchers
<1>2. task = [t \in Tasks |-> task[t]]
    BY DEF HeraldInit
<1>3. BooksType
    BY <1>1, <1>2 DEF BooksType, LogType
<1>4. \A tf \in TFs, x \in Nat : Newer(log, tf, x)
    BY <1>1 DEF Newer, Accepts, Back
<1>5. \A tf \in TFs, x \in Nat : Bar(tf, x) \in dark <=> Over(clock, tf, x)
    <2> TAKE tf \in TFs, x \in Nat
    <2>1. dark = UNION {BarsOf(ClosedBars(u, 0, clock)) : u \in TFs} /\ clock \in Nat
        BY <1>1
    <2>2. ASSUME NEW u \in TFs, Bar(tf, x) \in BarsOf(ClosedBars(u, 0, clock))
          PROVE  Over(clock, tf, x)
        <3>1. Bar(tf, x) = Bar(u, Bar(tf, x).ts) /\ Over(clock, u, Bar(tf, x).ts)
            BY <2>1, <2>2, ClosedSoFar
        <3>2. u = tf /\ Bar(tf, x).ts = x
            BY <3>1, BarIs
        <3> QED
            BY <3>1, <3>2
    <2>3. Over(clock, tf, x) => Bar(tf, x) \in BarsOf(ClosedBars(tf, 0, clock))
        BY <2>1, ClosedSoFar
    <2> QED
        BY <2>1, <2>2, <2>3
<1>6. AllOver /\ Stages
    BY <1>1 DEF AllOver, Stages, Fetchers
<1>7. DarkIsNew
    BY <1>1, <1>4, <1>5, SMTT(30) DEF DarkIsNew, Fetchers
<1>8. NoSkip /\ QueueSkips
    BY <1>1, SMTT(30) DEF NoSkip, QueueSkips, Fetchers
<1>9. Gaps /\ Kept
    BY <1>4, <1>5 DEF Gaps, Kept
<1> QED
    BY <1>3, <1>6, <1>7, <1>8, <1>9 DEF BooksInv

\* A bar that has closed is newer than the ledger, and on its way; or the ledger
\* has it; or an outage took it.
LEMMA BooksClosed ==
    ASSUME BooksInv
    PROVE  NothingElseLost
<1> SUFFICES ASSUME NEW tf \in TFs, NEW b \in BarsOf(ClosedBars(tf, 0, clock))
             PROVE  b \in Logged \cup BarsOf(queue) \cup BarsOf(fetched["feed"])
                             \cup BarsOf(fetched["startup"]) \cup dark \cup lost
    BY DEF NothingElseLost
<1>1. clock \in Nat
    BY DEF BooksInv, BooksType
<1>2. PICK x \in Nat : b = Bar(tf, x) /\ Over(clock, tf, x)
    BY <1>1, ClosedSoFar
<1>3. CASE Newer(log, tf, x)
    <2>1. \/ Holds(queue, tf, x) \/ Holds(fetched["feed"], tf, x)
          \/ Holds(fetched["startup"], tf, x)
          \/ Bar(tf, x) \in dark \cup lost
        BY <1>2, <1>3 DEF BooksInv, Kept
    <2>2. \A bars : Holds(bars, tf, x) => b \in BarsOf(bars)
        BY <1>2 DEF Holds, Among, BarsOf
    <2> QED
        BY <1>2, <2>1, <2>2
<1>4. CASE ~Newer(log, tf, x)
    <2>1. InLog(log, tf, x) \/ Bar(tf, x) \in lost
        BY <1>2, <1>4 DEF BooksInv, Gaps
    <2>2. InLog(log, tf, x) => b \in Logged
        BY <1>2 DEF InLog, Logged
    <2> QED
        BY <1>2, <2>1, <2>2
<1> QED
    BY <1>3, <1>4

\* However the stream, the two gap-fills and the handler's backlog interleave, a
\* bar that has closed is in the ledger, on its way to it, or in the gap of an
\* outage (Ledger::advance, the OKX feed, gap_fill_symbol).
THEOREM OnlyOutagesLose == HeraldSpec => []NothingElseLost
<1>1. HeraldInit => BooksInv
    BY BooksStart
<1>2. BooksInv /\ [HeraldNext]_heraldVars => BooksInv'
    BY BooksStep
<1>3. BooksInv => NothingElseLost
    BY BooksClosed
<1> QED
    BY <1>1, <1>2, <1>3, PTL DEF HeraldSpec

\* Herald advances the ledger by whole bars of its timeframes, or not at all.
LEMMA AdvancesLedger ==
    ASSUME BooksInv, [HeraldNext]_heraldVars
    PROVE  [LedgerNext]_log
<1>1. ASSUME NEW t \in Tasks, Advance(t) PROVE [LedgerNext]_log
    <2>1. Work(t) # <<>> /\ Work(t) \in Seq(BarType)
        BY <1>1 DEF Advance, Take, Work, BooksInv, BooksType, Tasks, Fetchers
    <2>2. PICK b \in BarType : b = Head(Work(t))
        BY <2>1, HeadTail
    <2>3. b.tf \in TFs /\ b.ts \in Nat
        BY BarIs
    <2>4. AdvanceLog(b.tf, b.ts) \/ log' = log
        BY <1>1, <2>2 DEF Advance
    <2> QED
        BY <2>3, <2>4 DEF LedgerNext
<1>2. CASE log' = log
    BY <1>2
<1>3. log' = log \/ \E t \in Tasks : Advance(t)
    BY DEF HeraldNext, heraldVars, CloseBar, Disconnect, GapFill, Connect, StartupFill, ReadBar,
           PickGroup, Evaluate, RegisterWarm, RegisterAdd, Deregister, ResetSymbol
<1> QED
    BY <1>1, <1>2, <1>3

\* Herald's three tasks together implement the ledger.
THEOREM ImplementsLedger == HeraldSpec => LedgerSpec
<1>1. HeraldInit => LedgerInit
    BY DEF HeraldInit
<1> QED
    BY <1>1, BooksStart, BooksStep, AdvancesLedger, PTL DEF HeraldSpec, LedgerSpec

\* However the three tasks that advance the ledger interleave, the window a
\* hand is warmed from is in time order, and no confirmed bar is ever revised.
THEOREM LogsAreSound == HeraldSpec => LedgerSound
    BY ImplementsLedger, LedgerOrder
=============================================================================
