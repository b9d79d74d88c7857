----------------------------- MODULE MtfProofs ------------------------------
(***************************************************************************)
(* Both multi-timeframe engines implement the as-of view, for every set of  *)
(* timeframes, every choice of missing bars and every window size; and      *)
(* neither fills a signal at a price from before it was given.              *)
(***************************************************************************)
EXTENDS MtfEngines, FiniteSetTheorems, WellFoundedInduction, TLAPS

-----------------------------------------------------------------------------
(* Facts about sets of bars                                                *)

\* A non-empty set of bars has a first one: what feed.next() returns.
LEMMA FirstBar ==
    ASSUME NEW bars \in SUBSET Nat, bars # {}
    PROVE  \E ts \in bars : \A u \in bars : ts <= u
<1>1. PICK ts \in bars : \A u \in bars : ~(<<u, ts>> \in OpToRel(<, Nat))
  BY NatLessThanWellFounded, WFMin
<1>2. ASSUME NEW u \in bars PROVE ts <= u
  <2>1. ~(<<u, ts>> \in OpToRel(<, Nat))
    BY <1>1
  <2>2. u \in Nat /\ ts \in Nat /\ <<u, ts>> \in Nat \X Nat
    OBVIOUS
  <2>3. ~(u < ts)
    BY <2>1, <2>2 DEF OpToRel
  <2> QED
    BY <2>2, <2>3
<1> QED
  BY <1>2

\* The bars closed by a time are finitely many.
LEMMA ClosedFinite ==
    ASSUME NEW bars \in SUBSET Nat, NEW tf \in Nat, NEW time \in Nat
    PROVE  /\ IsFiniteSet(AsOf!ClosedBy(bars, tf, time))
           /\ AsOf!ClosedBy(bars, tf, time) \in SUBSET Nat
<1> DEFINE S == AsOf!ClosedBy(bars, tf, time)
<1>1. S \in SUBSET Nat
  BY DEF AsOf!ClosedBy
<1>1a. ASSUME NEW s \in S PROVE s <= time
  <2>1. s \in Nat /\ s + tf <= time
    BY DEF AsOf!ClosedBy
  <2> QED
    BY <2>1
<1> HIDE DEF S
<1>2. IsFiniteSet(S)
  BY <1>1, <1>1a, FS_BoundedSetOfNaturals
<1> QED
  BY <1>1, <1>2 DEF S

\* Pushing later bars onto a bounded window gives the bounded window of the
\* whole: what was evicted before would be evicted again.
LEMMA PushNewest ==
    ASSUME NEW old \in SUBSET Nat, IsFiniteSet(old),
           NEW new \in SUBSET Nat, IsFiniteSet(new),
           \A x \in old, y \in new : x < y
    PROVE  Pushed(Newest(old), new) = Newest(old \cup new)
<1> DEFINE Above(S, x) == {u \in S : u > x}
           kept == Newest(old) \cup new
           all == old \cup new
<1>0. IsFiniteSet(all) /\ all \in SUBSET Nat /\ WindowSize \in Nat
  BY FS_Union, MtfAssumption
<1>1. ASSUME NEW S \in SUBSET all, NEW x
      PROVE  IsFiniteSet(Above(S, x)) /\ Cardinality(Above(S, x)) \in Nat
  <2>1. Above(S, x) \in SUBSET all
    OBVIOUS
  <2>2. IsFiniteSet(Above(S, x))
    BY <2>1, <1>0, FS_Subset
  <2> QED
    BY <2>2, FS_CardinalityType
<1>2. \A x \in old : x \in Newest(old) <=> Cardinality(Above(old, x)) < WindowSize
  BY DEF Newest
<1>3. kept \in SUBSET all
  BY DEF Newest
<1>4. ASSUME NEW x \in kept
      PROVE  Above(kept, x) = Above(all, x)
  <2>1. CASE x \in new
    <3>1. ASSUME NEW u \in all, u > x PROVE u \in kept
      <4>1. u \notin old
        BY <2>1, <3>1, <1>0
      <4> QED
        BY <4>1
    <3> QED
      BY <3>1, <1>3
  <2>2. CASE x \in Newest(old)
    <3>1. x \in old
      BY <2>2 DEF Newest
    <3>2. ASSUME NEW u \in old, u > x
          PROVE  u \in Newest(old)
      <4>0. x \in Nat /\ u \in Nat /\ \A w \in old : w \in Nat
        BY <3>1
      <4>1. Above(old, u) \in SUBSET Above(old, x)
        <5>1. ASSUME NEW w \in old, w > u PROVE w > x
          <6>1. w \in Nat /\ u \in Nat /\ x \in Nat /\ u > x
            BY <3>2, <4>0
          <6> QED
            BY <5>1, <6>1
        <5> QED
          BY <5>1
      <4>2. Cardinality(Above(old, u)) <= Cardinality(Above(old, x))
        BY <4>1, <1>1, FS_Subset
      <4>3. Cardinality(Above(old, u)) \in Nat /\ Cardinality(Above(old, x)) \in Nat
        BY <1>1
      <4>4. Cardinality(Above(old, x)) < WindowSize
        BY <1>2, <2>2, <3>1
      <4>5. Cardinality(Above(old, u)) < WindowSize
        BY <4>2, <4>3, <4>4, <1>0
      <4> QED
        BY <1>2, <4>5
    <3> QED
      BY <3>2, <1>3
  <2> QED
    BY <2>1, <2>2
<1>5. ASSUME NEW x \in all, Cardinality(Above(all, x)) < WindowSize
      PROVE  x \in kept
  <2>1. CASE x \in new
    BY <2>1
  <2>2. CASE x \in old
    <3>1. Above(old, x) \in SUBSET Above(all, x)
      OBVIOUS
    <3>1a. IsFiniteSet(Above(all, x))
      BY <1>1
    <3>2. Cardinality(Above(old, x)) <= Cardinality(Above(all, x))
      <4> HIDE DEF Above, all
      <4> QED
        BY <3>1, <3>1a, FS_Subset
    <3>3. Cardinality(Above(old, x)) \in Nat /\ Cardinality(Above(all, x)) \in Nat
      BY <1>1
    <3>4. Cardinality(Above(old, x)) < WindowSize
      BY <3>2, <3>3, <1>5, <1>0
    <3> QED
      BY <3>4, <2>2, <1>2
  <2> QED
    BY <2>1, <2>2
<1>6. Pushed(Newest(old), new)
        = {x \in kept : Cardinality(Above(kept, x)) < WindowSize}
  BY DEF Pushed, Newest
<1>7. Newest(old \cup new) = {x \in all : Cardinality(Above(all, x)) < WindowSize}
  BY DEF Newest
<1> HIDE DEF kept, all, Above
<1> QED
  BY <1>3, <1>4, <1>5, <1>6, <1>7

\* A tick that pushes exactly the bars that closed since the last one moves
\* the windows to the as-of view of its time.
LEMMA WindowStep ==
    ASSUME NEW bars \in SUBSET Nat, NEW tf \in Nat, NEW t \in Nat, NEW u \in Nat, t < u,
           NEW new, new = {ts \in bars : t < ts + tf /\ ts + tf <= u}
    PROVE  Pushed(Newest(AsOf!ClosedBy(bars, tf, t)), new)
             = Newest(AsOf!ClosedBy(bars, tf, u))
<1> DEFINE old == AsOf!ClosedBy(bars, tf, t)
           all == AsOf!ClosedBy(bars, tf, u)
<1>1. IsFiniteSet(old) /\ old \in SUBSET Nat /\ IsFiniteSet(all) /\ all \in SUBSET Nat
  BY ClosedFinite
<1>2. all = old \cup new /\ new \in SUBSET all /\ new \in SUBSET Nat
  <2>1. ASSUME NEW ts \in bars
        PROVE  ts + tf <= u <=> (ts + tf <= t \/ (t < ts + tf /\ ts + tf <= u))
    <3>1. ts + tf \in Nat
      OBVIOUS
    <3> DEFINE c == ts + tf
    <3> HIDE DEF c
    <3> QED
      BY <3>1 DEF c
  <2>2. all = {ts \in bars : ts + tf <= u} /\ old = {ts \in bars : ts + tf <= t}
    BY DEF AsOf!ClosedBy
  <2> QED
    BY <2>1, <2>2
<1>3. \A x \in old, y \in new : x < y
  BY DEF AsOf!ClosedBy
<1> HIDE DEF old, all
<1>4. IsFiniteSet(new)
  BY <1>1, <1>2, FS_Subset
<1>5. Pushed(Newest(old), new) = Newest(old \cup new)
  BY <1>1, <1>2, <1>3, <1>4, PushNewest
<1> QED
  BY <1>2, <1>5 DEF old, all

\* The engines start with empty windows, which is the view at time zero.
LEMMA ViewAtZero ==
    ASSUME NEW f \in Feeds
    PROVE  [tf \in TFs |-> {}] = AsOf!ViewAt(f, 0)
<1>1. ASSUME NEW tf \in TFs PROVE AsOf!ClosedBy(f[tf], tf, 0) = {}
  <2>1. tf \in Nat /\ tf > 0 /\ f[tf] \in SUBSET Nat
    BY MtfAssumption
  <2>2. ASSUME NEW ts \in f[tf] PROVE ~(ts + tf <= 0)
    BY <2>1
  <2> QED
    BY <2>2 DEF AsOf!ClosedBy
<1>2. Newest({}) = {}
  BY DEF Newest
<1> QED
  BY <1>1, <1>2 DEF AsOf!ViewAt

\* An engine whose tick pushes, for every timeframe, the bars that closed
\* since the last tick makes a step of the as-of view.
LEMMA TickIsStep ==
    ASSUME feeds \in Feeds, now \in Nat, windows = AsOf!ViewAt(feeds, now),
           NEW close \in Nat, now < close, now' = close, feeds' = feeds,
           windows' = [tf \in TFs |-> Pushed(windows[tf],
                          {ts \in feeds[tf] : now < ts + tf /\ ts + tf <= close})]
    PROVE  AsOf!Next /\ windows' = AsOf!ViewAt(feeds, close)
<1> DEFINE pushed(tf) == {ts \in feeds[tf] : now < ts + tf /\ ts + tf <= close}
<1>1. ASSUME NEW tf \in TFs
      PROVE  Pushed(windows[tf], pushed(tf)) = Newest(AsOf!ClosedBy(feeds[tf], tf, close))
  <2>1. feeds[tf] \in SUBSET Nat /\ tf \in Nat
    BY MtfAssumption
  <2>2. windows[tf] = Newest(AsOf!ClosedBy(feeds[tf], tf, now))
    BY DEF AsOf!ViewAt
  <2> QED
    BY <2>1, <2>2, WindowStep
<1>2. windows' = AsOf!ViewAt(feeds, close)
  BY <1>1 DEF AsOf!ViewAt
<1> QED
  BY <1>2 DEF AsOf!Next

-----------------------------------------------------------------------------
(* PointerSyncMtfEngine                                                    *)

\* Between ticks a feed has left exactly the bars that have not closed yet.
PointerInv ==
    /\ feeds \in Feeds
    /\ now \in Nat
    /\ windows = AsOf!ViewAt(feeds, now)
    /\ left = [tf \in TFs |-> {ts \in feeds[tf] : now < ts + tf}]

\* The pointer engine starts with nothing shown.
LEMMA PointerStarts == PointerInit => PointerInv /\ AsOf!Init
<1> SUFFICES ASSUME PointerInit PROVE PointerInv /\ AsOf!Init
  OBVIOUS
<1>1. feeds \in Feeds /\ now = 0 /\ windows = [tf \in TFs |-> {}] /\ left = feeds
  BY DEF PointerInit, MtfInit, Fresh
<1>2. feeds = [tf \in TFs |-> {ts \in feeds[tf] : 0 < ts + tf}]
  <2>1. feeds \in [TFs -> SUBSET Nat]
    BY <1>1, MtfAssumption
  <2>2. ASSUME NEW tf \in TFs, NEW ts \in feeds[tf] PROVE 0 < ts + tf
    <3>1. ts \in Nat /\ tf \in Nat /\ tf > 0
      BY <2>1, MtfAssumption
    <3> QED
      BY <3>1
  <2> QED
    BY <2>1, <2>2
<1>3. windows = AsOf!ViewAt(feeds, 0)
  BY <1>1, ViewAtZero
<1> QED
  BY <1>1, <1>2, <1>3 DEF PointerInv, AsOf!Init

\* One base bar of the pointer engine is one step of the view, or none.
LEMMA PointerTicks ==
    ASSUME PointerInv, NEW sig \in BOOLEAN, PointerTick(sig)
    PROVE  PointerInv' /\ AsOf!Next
<1>1. PICK b \in left[Base] :
        /\ \A c \in left[Base] : b <= c
        /\ LET close == b + Base
               pulled(tf) == IF tf = Base THEN {b} ELSE Due(tf, close)
           IN  /\ left' = [tf \in TFs |-> left[tf] \ pulled(tf)]
               /\ windows' = [tf \in TFs |-> Pushed(windows[tf], pulled(tf))]
               /\ now' = close
        /\ UNCHANGED feeds
  BY DEF PointerTick, Deliver
<1> DEFINE close == b + Base
           pulled(tf) == IF tf = Base THEN {b} ELSE Due(tf, close)
<1>2. /\ feeds \in [TFs -> SUBSET Nat] /\ now \in Nat /\ TFs \in SUBSET Nat /\ Base \in TFs
      /\ \A tf \in TFs : left[tf] = {ts \in feeds[tf] : now < ts + tf}
  BY MtfAssumption DEF PointerInv
<1>3. b \in feeds[Base] /\ close \in Nat /\ now < close
  BY <1>2
<1>4. ASSUME NEW tf \in TFs
      PROVE  pulled(tf) = {ts \in feeds[tf] : now < ts + tf /\ ts + tf <= close}
  <2>1. CASE tf = Base
    <3>1. ASSUME NEW ts \in feeds[Base], now < ts + Base, ts + Base <= close PROVE ts = b
      <4>1. b <= ts
        BY <1>1, <1>2, <3>1
      <4>2. ts \in Nat /\ b \in Nat /\ Base \in Nat
        BY <1>2, <1>3
      <4> QED
        BY <3>1, <4>1, <4>2
    <3>2. now < b + Base /\ b + Base <= close
      BY <1>3
    <3> QED
      BY <2>1, <3>1, <3>2, <1>3
  <2>2. CASE tf # Base
    BY <2>2, <1>2 DEF Due
  <2> QED
    BY <2>1, <2>2
<1>5. AsOf!Next /\ windows' = AsOf!ViewAt(feeds, close)
  <2>1. windows' = [tf \in TFs |-> Pushed(windows[tf], pulled(tf))] /\ now' = close /\ feeds' = feeds
    BY <1>1
  <2>2. feeds \in Feeds /\ windows = AsOf!ViewAt(feeds, now)
    BY DEF PointerInv
  <2> HIDE DEF pulled, close
  <2>3. windows' = [tf \in TFs |-> Pushed(windows[tf],
                       {ts \in feeds[tf] : now < ts + tf /\ ts + tf <= close})]
    BY <1>4, <2>1
  <2> QED
    BY <1>2, <1>3, <2>1, <2>2, <2>3, TickIsStep
<1>6. left' = [tf \in TFs |-> {ts \in feeds[tf] : close < ts + tf}]
  <2>1. left' = [tf \in TFs |-> left[tf] \ pulled(tf)]
    BY <1>1
  <2>2. ASSUME NEW tf \in TFs
        PROVE  left[tf] \ pulled(tf) = {ts \in feeds[tf] : close < ts + tf}
    <3>1. ASSUME NEW ts \in feeds[tf]
          PROVE  ts \in left[tf] \ pulled(tf) <=> close < ts + tf
      <4>1. ts + tf \in Nat
        BY <1>2
      <4>2. ts \in left[tf] <=> now < ts + tf
        BY <1>2
      <4>3. ts \in pulled(tf) <=> (now < ts + tf /\ ts + tf <= close)
        BY <1>4
      <4> HIDE DEF pulled, close
      <4> QED
        BY <4>1, <4>2, <4>3, <1>3, <1>2
    <3>2. left[tf] \in SUBSET feeds[tf]
      BY <1>2
    <3> HIDE DEF pulled, close
    <3> QED
      BY <3>1, <3>2
  <2> HIDE DEF pulled, close
  <2> QED
    BY <2>1, <2>2
<1> QED
  <2>1. feeds' = feeds /\ now' = close
    BY <1>1
  <2>2. feeds \in Feeds
    BY DEF PointerInv
  <2> HIDE DEF close
  <2> QED
    BY <1>3, <1>5, <1>6, <2>1, <2>2 DEF PointerInv, AsOf!ViewAt

\* PointerSyncMtfEngine::run shows its strategy, at every base bar, exactly the
\* newest closed bars of every timeframe: no look-ahead, nothing left behind,
\* whatever bars are missing from the feeds.
THEOREM PointerImplements == PointerSpec => ImplementsAsOf
<1>1. PointerInit => PointerInv /\ AsOf!Init
  BY PointerStarts
<1>2. PointerInv /\ [PointerNext]_mtfVars => PointerInv' /\ [AsOf!Next]_<<feeds, now, windows>>
  <2> SUFFICES ASSUME PointerInv, [PointerNext]_mtfVars
               PROVE  PointerInv' /\ [AsOf!Next]_<<feeds, now, windows>>
    OBVIOUS
  <2>1. CASE PointerNext
    BY <2>1, PointerTicks DEF PointerNext
  <2>2. CASE UNCHANGED mtfVars
    BY <2>2 DEF mtfVars, PointerInv, AsOf!ViewAt
  <2> QED
    BY <2>1, <2>2
<1> QED
  BY <1>1, <1>2, PTL DEF PointerSpec, ImplementsAsOf, AsOf!Spec

-----------------------------------------------------------------------------
(* HeapMtfEngine                                                           *)

\* A bar that has not closed is in the heap or still in its feed, and a feed
\* that has bars left has an earlier one in the heap: the heap's minimum is
\* the next bar to close of all.
HeapInv ==
    /\ feeds \in Feeds
    /\ now \in Nat
    /\ windows = AsOf!ViewAt(feeds, now)
    /\ \A e \in heap :
        /\ e = Entry(e.tf, e.ts)
        /\ e.tf \in TFs
        /\ e.ts \in feeds[e.tf]
        /\ now < e.ts + e.tf
    /\ \A tf \in TFs : \A ts \in feeds[tf] :
        now < ts + tf => Entry(tf, ts) \in heap \/ ts \in left[tf]
    /\ \A tf \in TFs : \A ts \in left[tf] :
        ts \in feeds[tf] /\ \E e \in heap : e.tf = tf /\ e.ts < ts

\* refill pulls the first bar a feed has left, if there is one.
LEMMA RefillFirst ==
    ASSUME NEW tf \in Nat, NEW bars \in SUBSET Nat
    PROVE  /\ \A e \in Refill(tf, bars) :
                e = Entry(tf, e.ts) /\ e.tf = tf /\ e.ts \in bars
           /\ \A ts \in bars : Entry(tf, ts) \in Refill(tf, bars)
                \/ \E e \in Refill(tf, bars) : e.tf = tf /\ e.ts < ts
<1>1. ASSUME NEW e \in Refill(tf, bars)
      PROVE  e = Entry(tf, e.ts) /\ e.tf = tf /\ e.ts \in bars
  BY DEF Refill, Entry
<1>2. ASSUME NEW ts \in bars, Entry(tf, ts) \notin Refill(tf, bars)
      PROVE  \E e \in Refill(tf, bars) : e.tf = tf /\ e.ts < ts
  <2>1. PICK first \in bars : \A u \in bars : first <= u
    BY FirstBar
  <2>2. Entry(tf, first) \in Refill(tf, bars)
    BY <2>1 DEF Refill
  <2>3. first # ts /\ first <= ts /\ first \in Nat /\ ts \in Nat
    BY <2>1, <2>2, <1>2
  <2>4. Entry(tf, first).tf = tf /\ Entry(tf, first).ts < ts
    BY <2>3 DEF Entry
  <2> QED
    BY <2>2, <2>4
<1> QED
  BY <1>1, <1>2

\* The heap engine starts with nothing shown.
LEMMA HeapStarts == HeapInit => HeapInv /\ AsOf!Init
<1> SUFFICES ASSUME HeapInit PROVE HeapInv /\ AsOf!Init
  OBVIOUS
<1>1. /\ feeds \in Feeds /\ now = 0 /\ windows = [tf \in TFs |-> {}]
      /\ heap = UNION {Refill(tf, feeds[tf]) : tf \in TFs}
      /\ left = [tf \in TFs |-> {ts \in feeds[tf] : Entry(tf, ts) \notin heap}]
  BY DEF HeapInit, MtfInit, Fresh
<1>2. feeds \in [TFs -> SUBSET Nat] /\ \A tf \in TFs : tf \in Nat /\ tf > 0
  BY <1>1, MtfAssumption
<1>3. windows = AsOf!ViewAt(feeds, 0)
  BY <1>1, ViewAtZero
<1>4. ASSUME NEW e \in heap
      PROVE  e = Entry(e.tf, e.ts) /\ e.tf \in TFs /\ e.ts \in feeds[e.tf] /\ 0 < e.ts + e.tf
  <2>1. PICK tf \in TFs : e \in Refill(tf, feeds[tf])
    BY <1>1
  <2>2. e = Entry(tf, e.ts) /\ e.tf = tf /\ e.ts \in feeds[tf]
    BY <1>2, <2>1, RefillFirst
  <2>3. e.ts \in Nat /\ tf \in Nat /\ tf > 0
    BY <1>2, <2>2
  <2> QED
    BY <2>2, <2>3
<1>5. ASSUME NEW tf \in TFs, NEW ts \in left[tf]
      PROVE  ts \in feeds[tf] /\ \E e \in heap : e.tf = tf /\ e.ts < ts
  <2>1. ts \in feeds[tf] /\ Entry(tf, ts) \notin heap /\ Refill(tf, feeds[tf]) \in SUBSET heap
    BY <1>1
  <2>2. \E e \in Refill(tf, feeds[tf]) : e.tf = tf /\ e.ts < ts
    BY <1>2, <2>1, RefillFirst
  <2> QED
    BY <2>1, <2>2
<1>6. \A tf \in TFs : \A ts \in feeds[tf] : Entry(tf, ts) \in heap \/ ts \in left[tf]
  BY <1>1
<1> QED
  BY <1>1, <1>3, <1>4, <1>5, <1>6 DEF HeapInv, AsOf!Init

\* One tick of the heap engine is one step of the view, or none.
LEMMA HeapTicks ==
    ASSUME HeapInv, NEW sig \in BOOLEAN, HeapTick(sig)
    PROVE  HeapInv' /\ AsOf!Next
<1>1. PICK top \in heap :
        /\ \A e \in heap : CloseTs(top) <= CloseTs(e)
        /\ LET batch == {e \in heap : CloseTs(e) = CloseTs(top)}
               refilled == UNION {Refill(e.tf, left[e.tf]) : e \in batch}
               bars(tf) == {e.ts : e \in {e \in batch : e.tf = tf}}
           IN  /\ heap' = (heap \ batch) \cup refilled
               /\ left' = [tf \in TFs |-> {ts \in left[tf] : Entry(tf, ts) \notin refilled}]
               /\ windows' = [tf \in TFs |-> Pushed(windows[tf], bars(tf))]
               /\ now' = CloseTs(top)
        /\ UNCHANGED feeds
  BY DEF HeapTick, Deliver
<1> DEFINE close == CloseTs(top)
           batch == {e \in heap : CloseTs(e) = close}
           refilled == UNION {Refill(e.tf, left[e.tf]) : e \in batch}
           bars(tf) == {e.ts : e \in {e \in batch : e.tf = tf}}
<1>2. /\ feeds \in [TFs -> SUBSET Nat] /\ now \in Nat /\ TFs \in SUBSET Nat
      /\ \A tf \in TFs : left[tf] \in SUBSET feeds[tf] /\ feeds[tf] \in SUBSET Nat
  BY MtfAssumption DEF HeapInv
<1>3. ASSUME NEW e \in heap
      PROVE  /\ e = Entry(e.tf, e.ts) /\ e.tf \in TFs /\ e.ts \in feeds[e.tf]
             /\ e.ts \in Nat /\ e.tf \in Nat /\ CloseTs(e) = e.ts + e.tf
             /\ now < e.ts + e.tf /\ close <= e.ts + e.tf
  BY <1>1, <1>2 DEF HeapInv, CloseTs
<1>4. close \in Nat /\ now < close
  BY <1>3
<1>5. ASSUME NEW tf \in TFs, NEW ts \in left[tf]
      PROVE  close < ts + tf
  <2>1. PICK e \in heap : e.tf = tf /\ e.ts < ts
    BY DEF HeapInv
  <2>2. e.ts \in Nat /\ ts \in Nat /\ tf \in Nat /\ close <= e.ts + tf
    BY <1>2, <1>3, <2>1
  <2> HIDE DEF close
  <2> QED
    BY <1>4, <2>1, <2>2
<1>6. ASSUME NEW tf \in TFs
      PROVE  bars(tf) = {ts \in feeds[tf] : now < ts + tf /\ ts + tf <= close}
  <2>1. ASSUME NEW e \in batch, e.tf = tf
        PROVE  e.ts \in feeds[tf] /\ now < e.ts + tf /\ e.ts + tf <= close
    <3>1. e \in heap /\ CloseTs(e) = close
      OBVIOUS
    <3> QED
      BY <3>1, <2>1, <1>3, <1>4
  <2>2. ASSUME NEW ts \in feeds[tf], now < ts + tf, ts + tf <= close
        PROVE  Entry(tf, ts) \in batch /\ Entry(tf, ts).tf = tf /\ Entry(tf, ts).ts = ts
    <3>1. ts + tf \in Nat
      BY <1>2
    <3>2. ts \notin left[tf]
      BY <1>4, <1>5, <2>2, <3>1
    <3>3. Entry(tf, ts) \in heap
      BY <2>2, <3>2 DEF HeapInv
    <3>4. Entry(tf, ts).tf = tf /\ Entry(tf, ts).ts = ts
      BY DEF Entry
    <3>5. CloseTs(Entry(tf, ts)) = ts + tf /\ close <= ts + tf
      BY <1>3, <3>3, <3>4
    <3>6. ts + tf = close
      BY <1>4, <2>2, <3>1, <3>5
    <3> QED
      BY <3>3, <3>4, <3>5, <3>6
  <2> HIDE DEF batch, close
  <2> QED
    BY <2>1, <2>2
<1>7. AsOf!Next /\ windows' = AsOf!ViewAt(feeds, close)
  <2>1. windows' = [tf \in TFs |-> Pushed(windows[tf], bars(tf))] /\ now' = close /\ feeds' = feeds
    BY <1>1
  <2>2. feeds \in Feeds /\ windows = AsOf!ViewAt(feeds, now)
    BY DEF HeapInv
  <2> HIDE DEF bars, batch, close
  <2>3. windows' = [tf \in TFs |-> Pushed(windows[tf],
                       {ts \in feeds[tf] : now < ts + tf /\ ts + tf <= close})]
    BY <1>6, <2>1
  <2> QED
    BY <1>2, <1>4, <2>1, <2>2, <2>3, TickIsStep
<1>8. /\ heap' = (heap \ batch) \cup refilled
      /\ left' = [tf \in TFs |-> {ts \in left[tf] : Entry(tf, ts) \notin refilled}]
      /\ now' = close /\ feeds' = feeds
  BY <1>1
<1>9. ASSUME NEW f \in refilled
      PROVE  f = Entry(f.tf, f.ts) /\ f.tf \in TFs /\ f.ts \in left[f.tf]
  <2>1. PICK e \in batch : f \in Refill(e.tf, left[e.tf])
    OBVIOUS
  <2>2. e.tf \in TFs /\ e.tf \in Nat /\ left[e.tf] \in SUBSET Nat
    BY <1>2, <1>3
  <2> QED
    BY <2>1, <2>2, RefillFirst
<1>10. ASSUME NEW f \in heap'
       PROVE  f = Entry(f.tf, f.ts) /\ f.tf \in TFs /\ f.ts \in feeds[f.tf] /\ close < f.ts + f.tf
  <2>1. CASE f \in heap \ batch
    <3>1. f \in heap /\ CloseTs(f) # close
      BY <2>1
    <3>2. f.ts + f.tf \in Nat /\ f.ts + f.tf # close /\ close <= f.ts + f.tf
      BY <1>3, <3>1
    <3>3. close < f.ts + f.tf
      BY <1>4, <3>2
    <3> QED
      BY <1>3, <3>1, <3>3
  <2>2. CASE f \in refilled
    BY <1>2, <1>5, <1>9, <2>2
  <2> HIDE DEF batch, refilled
  <2> QED
    BY <1>8, <2>1, <2>2
<1>11. ASSUME NEW tf \in TFs, NEW ts \in feeds[tf], close < ts + tf
       PROVE  Entry(tf, ts) \in heap' \/ ts \in left'[tf]
  <2>1. ts + tf \in Nat
    BY <1>2
  <2>2. Entry(tf, ts) \in heap \/ ts \in left[tf]
    <3>1. now < ts + tf
      BY <1>2, <1>4, <1>11, <2>1
    <3> QED
      BY <3>1 DEF HeapInv
  <2>3. CASE Entry(tf, ts) \in heap
    <3>1. CloseTs(Entry(tf, ts)) = ts + tf
      BY DEF CloseTs, Entry
    <3>2. Entry(tf, ts) \notin batch
      BY <1>4, <1>11, <2>1, <3>1
    <3> HIDE DEF batch, refilled
    <3> QED
      BY <1>8, <2>3, <3>2
  <2>4. CASE ts \in left[tf]
    <3> HIDE DEF batch, refilled
    <3> QED
      BY <1>8, <2>4
  <2> QED
    BY <2>2, <2>3, <2>4
<1>12. ASSUME NEW tf \in TFs, NEW ts \in left'[tf]
       PROVE  ts \in feeds[tf] /\ \E e \in heap' : e.tf = tf /\ e.ts < ts
  <2>1. ts \in left[tf] /\ Entry(tf, ts) \notin refilled
    <3> HIDE DEF refilled
    <3> QED
      BY <1>8
  <2>2. PICK e \in heap : e.tf = tf /\ e.ts < ts
    BY <2>1 DEF HeapInv
  <2>3. CASE e \in batch
    <3>1. Refill(tf, left[tf]) \in SUBSET refilled
      BY <2>2, <2>3
    <3>2. tf \in Nat /\ left[tf] \in SUBSET Nat
      BY <1>2
    <3>3. PICK f \in Refill(tf, left[tf]) : f.tf = tf /\ f.ts < ts
      BY <2>1, <3>1, <3>2, RefillFirst
    <3> HIDE DEF refilled, batch
    <3> QED
      BY <1>2, <1>8, <2>1, <3>1, <3>3
  <2>4. CASE e \notin batch
    <3> HIDE DEF refilled, batch
    <3> QED
      BY <1>2, <1>8, <2>1, <2>2, <2>4
  <2> QED
    BY <2>3, <2>4
<1>13. HeapInv'
  <2>1. feeds \in Feeds
    BY DEF HeapInv
  <2>2. now' = close /\ feeds' = feeds
    BY <1>8
  <2> HIDE DEF close
  <2> QED
    BY <1>4, <1>7, <1>10, <1>11, <1>12, <2>1, <2>2 DEF HeapInv, AsOf!ViewAt, Entry
<1> QED
  BY <1>7, <1>13

\* HeapMtfEngine::run shows its strategy, at every tick, exactly the newest
\* closed bars of every timeframe: taking the heap's minimum and refilling from
\* the feeds it came from never lets a later bar overtake.
THEOREM HeapImplements == HeapSpec => ImplementsAsOf
<1>1. HeapInit => HeapInv /\ AsOf!Init
  BY HeapStarts
<1>2. HeapInv /\ [HeapNext]_heapVars => HeapInv' /\ [AsOf!Next]_<<feeds, now, windows>>
  <2> SUFFICES ASSUME HeapInv, [HeapNext]_heapVars
               PROVE  HeapInv' /\ [AsOf!Next]_<<feeds, now, windows>>
    OBVIOUS
  <2>1. CASE HeapNext
    BY <2>1, HeapTicks DEF HeapNext
  <2>2. CASE UNCHANGED heapVars
    BY <2>2 DEF heapVars, mtfVars, HeapInv, AsOf!ViewAt
  <2> QED
    BY <2>1, <2>2
<1> QED
  BY <1>1, <1>2, PTL DEF HeapSpec, ImplementsAsOf, AsOf!Spec

-----------------------------------------------------------------------------
(* Signals                                                                 *)

\* Two points of a grid are a cell apart, and their sum is one of it.
LEMMA GridPoints ==
    ASSUME NEW cell \in Nat \ {0}, NEW x \in Nat, NEW y \in Nat, x % cell = 0, y % cell = 0
    PROVE  (x + y) % cell = 0 /\ (x < y => x + cell <= y)
<1>1. PICK i \in Nat, j \in Nat : x = cell * i /\ y = cell * j
  <2>1. x \div cell \in Nat /\ x = cell * (x \div cell)
    OBVIOUS
  <2>2. y \div cell \in Nat /\ y = cell * (y \div cell)
    OBVIOUS
  <2> QED
    BY <2>1, <2>2
<1>2. cell * (i + j) = cell * i + cell * j /\ i + j \in Nat
  OBVIOUS
<1>3. \A k \in Nat : (cell * k) % cell = 0
  OBVIOUS
<1>4. (x + y) % cell = 0
  BY <1>1, <1>2, <1>3
<1>5. ASSUME x < y PROVE x + cell <= y
  <2>1. i < j
    BY <1>1, <1>5
  <2>2. PICK d \in Nat : j = (i + 1) + d
    <3>1. j - (i + 1) \in Nat /\ j = (i + 1) + (j - (i + 1))
      BY <2>1
    <3> QED
      BY <3>1
  <2>3. cell * j = (cell * i + cell) + cell * d /\ cell * d \in Nat /\ cell * i \in Nat
    BY <2>2
  <2> QED
    BY <1>1, <2>3
<1> QED
  BY <1>4, <1>5

\* Ticks are on the grid, and a pending signal was given at one of them.
SignalInv ==
    /\ now \in Nat /\ now % Base = 0
    /\ \A t \in signalled : t \in Nat /\ t <= now

\* What a tick fills opened no earlier than the tick before it closed.
LEMMA Delivered ==
    ASSUME SignalInv, NEW batch, NEW close \in Nat, NEW sig \in BOOLEAN, Deliver(batch, close, sig),
           now < close, close % Base = 0,
           \A e \in batch : e.tf = Base => e.ts \in Nat /\ e.ts + Base = close
    PROVE  SignalInv' /\ \A t \in signalled : \A ts \in base' : ts >= t
<1>1. Base \in Nat \ {0}
  BY MtfAssumption
<1>2. now' = close /\ base' = {e.ts : e \in {e \in batch : e.tf = Base}}
  BY DEF Deliver
<1>3. signalled' \in {{close}, {}, signalled}
  <2> DEFINE baseBars == {e.ts : e \in {e \in batch : e.tf = Base}}
             trading == Is_trading(baseBars)
  <2>1. signalled' = IF trading /\ sig THEN {close}
                     ELSE IF trading /\ baseBars # {} THEN {} ELSE signalled
    BY DEF Deliver
  <2> HIDE DEF trading, baseBars
  <2> QED
    BY <2>1, Zenon
<1>4. now + Base <= close
  BY <1>1, GridPoints DEF SignalInv
<1>5. SignalInv'
  BY <1>2, <1>3 DEF SignalInv
<1>6. ASSUME NEW t \in signalled, NEW ts \in base'
      PROVE  ts >= t
  <2>1. ts \in Nat /\ ts + Base = close
    BY <1>2
  <2>2. t \in Nat /\ t <= now /\ now \in Nat
    BY DEF SignalInv
  <2> QED
    BY <1>1, <1>4, <2>1, <2>2
<1> QED
  BY <1>5, <1>6

\* A tick of the pointer engine.
LEMMA PointerSignals ==
    ASSUME PointerInv, SignalInv, NEW sig \in BOOLEAN, PointerTick(sig)
    PROVE  SignalInv' /\ \A t \in signalled : \A ts \in base' : ts >= t
<1>1. PICK b \in left[Base] : \E batch :
        /\ Deliver(batch, b + Base, sig)
        /\ \A e \in batch : e.tf = Base => e.ts = b
  <2>1. PICK b \in left[Base] :
          LET close == b + Base
              pulled(tf) == IF tf = Base THEN {b} ELSE Due(tf, close)
              last(tf) == {ts \in pulled(tf) : \A u \in pulled(tf) : u <= ts}
          IN  Deliver(UNION {{[tf |-> tf, ts |-> ts] : ts \in last(tf)} : tf \in TFs}, close, sig)
    BY DEF PointerTick
  <2> DEFINE pulled(tf) == IF tf = Base THEN {b} ELSE Due(tf, b + Base)
             last(tf) == {ts \in pulled(tf) : \A u \in pulled(tf) : u <= ts}
             batch == UNION {{[tf |-> tf, ts |-> ts] : ts \in last(tf)} : tf \in TFs}
  <2>2. ASSUME NEW e \in batch, e.tf = Base PROVE e.ts = b
    <3>1. PICK tf \in TFs : \E ts \in last(tf) : e = [tf |-> tf, ts |-> ts]
      OBVIOUS
    <3>2. tf = Base /\ e.ts \in last(tf)
      BY <2>2, <3>1
    <3> QED
      BY <3>2
  <2>3. Deliver(batch, b + Base, sig)
    BY <2>1
  <2> HIDE DEF batch
  <2> QED
    BY <2>2, <2>3
<1>2. PICK batch : Deliver(batch, b + Base, sig) /\ \A e \in batch : e.tf = Base => e.ts = b
  BY <1>1
<1>3. /\ Base \in Nat \ {0} /\ Base \in TFs /\ feeds \in Feeds /\ b \in feeds[Base] /\ b \in Nat
      /\ now < b + Base
  BY MtfAssumption DEF PointerInv
<1>4. b + Base \in Nat /\ (b + Base) % Base = 0
  BY <1>3, OnGrid, GridPoints
<1>5. \A e \in batch : e.tf = Base => e.ts \in Nat /\ e.ts + Base = b + Base
  BY <1>2, <1>3
<1> QED
  BY <1>2, <1>3, <1>4, <1>5, Delivered

\* A tick of the heap engine.
LEMMA HeapSignals ==
    ASSUME HeapInv, SignalInv, NEW sig \in BOOLEAN, HeapTick(sig)
    PROVE  SignalInv' /\ \A t \in signalled : \A ts \in base' : ts >= t
<1>1. PICK top \in heap : Deliver({e \in heap : CloseTs(e) = CloseTs(top)}, CloseTs(top), sig)
  BY DEF HeapTick
<1>2. PICK batch : batch = {e \in heap : CloseTs(e) = CloseTs(top)}
  OBVIOUS
<1>3. /\ Base \in Nat \ {0} /\ feeds \in Feeds /\ now \in Nat
      /\ \A e \in heap : /\ e.tf \in TFs /\ e.tf \in Nat /\ e.ts \in feeds[e.tf] /\ e.ts \in Nat
                         /\ CloseTs(e) = e.ts + e.tf /\ now < e.ts + e.tf
  <2>1. Base \in Nat \ {0} /\ feeds \in Feeds /\ now \in Nat /\ feeds \in [TFs -> SUBSET Nat]
    BY MtfAssumption DEF HeapInv
  <2>2. ASSUME NEW e \in heap
        PROVE  /\ e.tf \in TFs /\ e.tf \in Nat /\ e.ts \in feeds[e.tf] /\ e.ts \in Nat
               /\ now < e.ts + e.tf
    <3>1. e.tf \in TFs /\ e.ts \in feeds[e.tf] /\ now < e.ts + e.tf
      BY DEF HeapInv
    <3>2. e.tf \in Nat /\ feeds[e.tf] \in SUBSET Nat
      BY <2>1, <3>1, MtfAssumption
    <3> QED
      BY <3>1, <3>2
  <2> QED
    BY <2>1, <2>2 DEF CloseTs
<1>4. PICK close \in Nat : close = CloseTs(top) /\ now < close /\ close = top.ts + top.tf
  BY <1>3
<1>5. top.ts % Base = 0 /\ top.tf % Base = 0
  BY <1>3, OnGrid
<1>6. close % Base = 0
  BY <1>3, <1>4, <1>5, GridPoints
<1>7. \A e \in batch : e.tf = Base => e.ts \in Nat /\ e.ts + Base = close
  BY <1>2, <1>3, <1>4
<1>8. Deliver(batch, close, sig)
  BY <1>1, <1>2, <1>4
<1> QED
  BY <1>4, <1>6, <1>7, <1>8, Delivered

\* At the start no signal is pending.
LEMMA NoSignalYet == MtfInit => SignalInv
  BY MtfAssumption DEF MtfInit, Fresh, SignalInv

\* The pointer engine fills no signal at an open from before it was given,
\* whatever bars are missing and wherever the warm-up ends.
THEOREM PointerFillsAhead == PointerSpec => NoPastFill
<1>1. PointerInit => PointerInv /\ SignalInv
  BY PointerStarts, NoSignalYet DEF PointerInit
<1>2. ASSUME PointerInv, SignalInv, [PointerNext]_mtfVars
      PROVE  /\ PointerInv' /\ SignalInv'
             /\ [\A t \in signalled : t \notin signalled' => \A ts \in base' : ts >= t]_heapVars
  <2>1. CASE PointerNext
    BY <1>2, <2>1, PointerTicks, PointerSignals DEF PointerNext
  <2>2. CASE UNCHANGED mtfVars
    BY <1>2, <2>2 DEF mtfVars, PointerInv, SignalInv, AsOf!ViewAt
  <2> QED
    BY <1>2, <2>1, <2>2
<1> QED
  BY <1>1, <1>2, PTL DEF PointerSpec, NoPastFill

\* Nor does the heap engine, although it also ticks where only a higher bar closes.
THEOREM HeapFillsAhead == HeapSpec => NoPastFill
<1>1. HeapInit => HeapInv /\ SignalInv
  BY HeapStarts, NoSignalYet DEF HeapInit
<1>2. ASSUME HeapInv, SignalInv, [HeapNext]_heapVars
      PROVE  /\ HeapInv' /\ SignalInv'
             /\ [\A t \in signalled : t \notin signalled' => \A ts \in base' : ts >= t]_heapVars
  <2>1. CASE HeapNext
    BY <1>2, <2>1, HeapTicks, HeapSignals DEF HeapNext
  <2>2. CASE UNCHANGED heapVars
    BY <1>2, <2>2 DEF heapVars, mtfVars, HeapInv, SignalInv, AsOf!ViewAt
  <2> QED
    BY <1>2, <2>1, <2>2
<1> QED
  BY <1>1, <1>2, PTL DEF HeapSpec, NoPastFill
=============================================================================
