--------------------------- MODULE OkxFeedProofs ----------------------------
(***************************************************************************)
(* What is proved of the OKX feed for any number of bars, trades and lost   *)
(* connections: it sends closed bars only; and while the connection holds,  *)
(* all of them, each as soon as a newer bar is seen to form.                *)
(***************************************************************************)
EXTENDS OkxFeed, TLAPS

-----------------------------------------------------------------------------
(* Sequences                                                               *)

\* A queue without its first element.
LEMMA Popped ==
    ASSUME NEW S, NEW s \in Seq(S), s # <<>>
    PROVE  /\ Tail(s) \in Seq(S) /\ Head(s) \in S /\ Head(s) = s[1]
           /\ Len(s) \in Nat /\ Len(s) > 0
           /\ Len(Tail(s)) = Len(s) - 1
           /\ \A i \in 1..Len(Tail(s)) : Tail(s)[i] = s[i + 1] /\ i + 1 \in 1..Len(s)
    OBVIOUS

\* A queue with one more element.
LEMMA Pushed ==
    ASSUME NEW S, NEW s \in Seq(S), NEW e \in S
    PROVE  /\ Append(s, e) \in Seq(S) /\ s \o <<e>> = Append(s, e) /\ s \o <<>> = s
           /\ Len(s) \in Nat /\ Len(Append(s, e)) = Len(s) + 1
           /\ \A i \in 1..Len(s) : Append(s, e)[i] = s[i]
           /\ Append(s, e)[Len(s) + 1] = e
    OBVIOUS

-----------------------------------------------------------------------------
(* Only closed bars                                                        *)

Times == Nat \ {0}
BarType == [ts : Times, rev : Nat]
RowType == [bar : BarType, confirm : {0, 1}]

FeedType ==
    /\ forming \in BarType /\ forming.ts <= MaxBars /\ forming.rev <= Trades
    /\ \A x \in unconfirmed : x \in Times /\ x + 1 = forming.ts
    /\ link \in {"up", "down", "filling"}
    /\ drops \in 0..MaxDrops
    /\ \E a, b \in Times : gap = <<a, b>> /\ b <= forming.ts
    /\ pushes \in Seq(RowType) /\ events \in Seq(BarType) /\ book \in Seq(BarType)
    /\ last_forming \subseteq BarType
    /\ \A f, g \in last_forming : f = g

\* Nothing that is pushed, kept or sent is newer than the bar that forms, and
\* what is confirmed, sent or in the ledger is older.
NotAhead ==
    /\ \A i \in 1..Len(pushes) : pushes[i].bar.ts + pushes[i].confirm <= forming.ts
    /\ \A f \in last_forming : f.ts <= forming.ts
    /\ \A i \in 1..Len(events) : events[i].ts < forming.ts
    /\ \A i \in 1..Len(book) : book[i].ts < forming.ts

FeedInv == FeedType /\ NotAhead

\* The bars and rows as the actions build them.
LEMMA Built ==
    /\ \A ts \in Times, rev \in Nat : OkxBar(ts, rev) \in BarType
            /\ OkxBar(ts, rev).ts = ts /\ OkxBar(ts, rev).rev = rev
    /\ \A b \in BarType, c \in {0, 1} : Row(b, c) \in RowType
            /\ Row(b, c).bar = b /\ Row(b, c).confirm = c
    /\ \A b \in BarType : b.ts \in Times /\ b.rev \in Nat
    /\ \A r \in RowType : r.bar \in BarType /\ r.confirm \in {0, 1} /\ r.bar.ts \in Times
    BY DEF OkxBar, Row, BarType, RowType, Times

\* What the ledger makes of a bar.
LEMMA Ingested ==
    ASSUME NEW b \in Seq(BarType), NEW bar \in BarType, NEW n, \A i \in 1..Len(b) : b[i].ts < n, bar.ts < n
    PROVE  /\ Ingest(b, bar) \in Seq(BarType)
           /\ \A i \in 1..Len(Ingest(b, bar)) : Ingest(b, bar)[i].ts < n
<1>1. CASE Ingest(b, bar) = b
    BY <1>1
<1>2. CASE Ingest(b, bar) = Append(b, bar)
    <2>1. /\ Append(b, bar) \in Seq(BarType) /\ Len(b) \in Nat /\ Len(Append(b, bar)) = Len(b) + 1
          /\ (\A i \in 1..Len(b) : Append(b, bar)[i] = b[i]) /\ Append(b, bar)[Len(b) + 1] = bar
        BY Pushed
    <2>2. \A i \in 1..(Len(b) + 1) : i \in 1..Len(b) \/ i = Len(b) + 1
        BY <2>1
    <2> QED
        BY <1>2, <2>1, <2>2
<1> QED
    BY <1>1, <1>2 DEF Ingest

\* A row more in the queue of pushes, if anyone listens.
LEMMA PushKeeps ==
    ASSUME pushes \in Seq(RowType), NEW row \in RowType, Push(row), NEW n,
           \A i \in 1..Len(pushes) : pushes[i].bar.ts + pushes[i].confirm <= n,
           row.bar.ts + row.confirm <= n
    PROVE  /\ pushes' \in Seq(RowType)
           /\ \A i \in 1..Len(pushes') : pushes'[i].bar.ts + pushes'[i].confirm <= n
<1>1. CASE pushes' = pushes
    BY <1>1
<1>2. CASE pushes' = Append(pushes, row)
    <2>1. /\ pushes' \in Seq(RowType) /\ Len(pushes) \in Nat /\ Len(pushes') = Len(pushes) + 1
          /\ (\A i \in 1..Len(pushes) : pushes'[i] = pushes[i]) /\ pushes'[Len(pushes) + 1] = row
        BY <1>2, Pushed
    <2>2. \A i \in 1..(Len(pushes) + 1) : i \in 1..Len(pushes) \/ i = Len(pushes) + 1
        BY <2>1
    <2> QED
        BY <2>1, <2>2
<1> QED
    BY <1>1, <1>2 DEF Push

\* A bar more on its way to the ledger, or none.
LEMMA SendKeeps ==
    ASSUME events \in Seq(BarType), NEW send, NEW n,
           events' = events \o send,
           send = <<>> \/ \E b \in BarType : send = <<b>> /\ b.ts < n,
           \A i \in 1..Len(events) : events[i].ts < n
    PROVE  /\ events' \in Seq(BarType)
           /\ \A i \in 1..Len(events') : events'[i].ts < n
<1>1. CASE send = <<>>
    BY <1>1
<1>2. ASSUME NEW b \in BarType, send = <<b>>, b.ts < n
      PROVE  events' \in Seq(BarType) /\ \A i \in 1..Len(events') : events'[i].ts < n
    <2>1. /\ events' \in Seq(BarType) /\ Len(events) \in Nat /\ Len(events') = Len(events) + 1
          /\ (\A i \in 1..Len(events) : events'[i] = events[i]) /\ events'[Len(events) + 1] = b
        BY <1>2, Pushed
    <2>2. \A i \in 1..(Len(events) + 1) : i \in 1..Len(events) \/ i = Len(events) + 1
        BY <2>1
    <2> QED
        BY <1>2, <2>1, <2>2
<1> QED
    BY <1>1, <1>2

\* Handling one row, whichever it is.
LEMMA HandleKeeps ==
    ASSUME FeedInv, Handle_push
    PROVE  FeedInv'
<1>1. UNCHANGED <<forming, unconfirmed, silent, link, gap, book, drops>>
    BY DEF Handle_push, Handled, exchange
<1>2. pushes # <<>> /\ pushes \in Seq(RowType) /\ pushes' = Tail(pushes)
    BY DEF Handle_push, Handled, FeedInv, FeedType
<1>3. /\ pushes' \in Seq(RowType) /\ Head(pushes) \in RowType /\ Head(pushes) = pushes[1] /\ 1 \in 1..Len(pushes)
      /\ \A i \in 1..Len(pushes') : pushes'[i] = pushes[i + 1] /\ i + 1 \in 1..Len(pushes)
    BY <1>2, Popped
<1>4. PICK row \in RowType : row = Head(pushes)
    BY <1>3
<1>5. row.bar \in BarType /\ row.confirm \in {0, 1} /\ row.bar.ts \in Times /\ forming.ts \in Times
    BY Built DEF FeedInv, FeedType
<1>6. row.bar.ts + row.confirm <= forming.ts /\ row.bar.ts <= forming.ts
    <2>1. row.bar.ts + row.confirm <= forming.ts
        BY <1>3, <1>4 DEF FeedInv, NotAhead
    <2> QED
        BY <1>5, <2>1 DEF Times
<1>7. PICK send, slot :
        /\ events' = events \o send /\ last_forming' = slot
        /\ \/ row.confirm = 1 /\ send = <<row.bar>> /\ slot = last_forming \ SameBar(row)
           \/ row.confirm = 0 /\ send = <<>> /\ slot = {row.bar}
           \/ row.confirm = 0 /\ slot = {row.bar} /\ \E f \in Older(row) : send = <<f>>
    BY <1>4, Zenon DEF Handle_push, Handled
<1>8. /\ slot \subseteq BarType /\ (\A f, g \in slot : f = g)
      /\ \A f \in slot : f.ts <= forming.ts
    <2>1. CASE slot = {row.bar}
        BY <1>5, <1>6, <2>1
    <2>2. CASE slot \subseteq last_forming
        BY <2>2 DEF FeedInv, FeedType, NotAhead
    <2> QED
        BY <1>7, <2>1, <2>2
<1>9. send = <<>> \/ \E b \in BarType : send = <<b>> /\ b.ts < forming.ts
    <2>1. CASE row.confirm = 1 /\ send = <<row.bar>>
        <3>1. row.bar.ts < forming.ts
            BY <1>5, <1>6, <2>1 DEF Times
        <3> QED
            BY <1>5, <2>1, <3>1
    <2>2. ASSUME NEW f \in Older(row), send = <<f>>
          PROVE  \E b \in BarType : send = <<b>> /\ b.ts < forming.ts
        <3>1. f \in BarType /\ f.ts < row.bar.ts /\ f.ts \in Times
            BY Built DEF Older, FeedInv, FeedType
        <3>2. f.ts < forming.ts
            BY <1>5, <1>6, <3>1 DEF Times
        <3> QED
            BY <2>2, <3>1, <3>2
    <2> QED
        BY <1>7, <2>1, <2>2
<1>10. events' \in Seq(BarType) /\ \A i \in 1..Len(events') : events'[i].ts < forming.ts
    BY <1>7, <1>9, SendKeeps DEF FeedInv, FeedType, NotAhead
<1>11. FeedType'
    BY <1>1, <1>3, <1>7, <1>8, <1>10 DEF FeedInv, FeedType
<1>12. NotAhead'
    BY <1>1, <1>3, <1>7, <1>8, <1>10 DEF FeedInv, NotAhead
<1> QED
    BY <1>11, <1>12 DEF FeedInv

\* Every step keeps the types and sends only what is closed.
LEMMA FeedStep ==
    ASSUME FeedInv, [OkxNext]_okxVars
    PROVE  FeedInv'
<1> USE OkxAssumption
<1>1. /\ forming \in BarType /\ forming.ts \in Times /\ forming.rev \in Nat
      /\ pushes \in Seq(RowType) /\ events \in Seq(BarType) /\ book \in Seq(BarType)
      /\ \A i \in 1..Len(book) : book[i].ts < forming.ts
    BY Built DEF FeedInv, FeedType, NotAhead
<1>2. CASE Trade
    <2>1. /\ forming' = OkxBar(forming.ts, forming.rev + 1)
          /\ UNCHANGED <<unconfirmed, silent, link, gap, last_forming, events, book, drops>>
          /\ Push(Row(forming', 0)) /\ forming.rev < Trades
        BY <1>1, <1>2 DEF Trade, OkxBar, BarType
    <2>2. PICK new \in BarType : new = forming'
        <3>1. forming.rev + 1 \in Nat
            BY <1>1
        <3> QED
            BY <1>1, <2>1, <3>1, Built
    <2>3. forming'.ts = forming.ts /\ forming'.rev = forming.rev + 1 /\ new.ts = forming.ts
        <3>1. forming.rev + 1 \in Nat
            BY <1>1
        <3> QED
            BY <1>1, <2>1, <2>2, <3>1, Built
    <2>4. PICK row \in RowType : row = Row(new, 0) /\ row.bar.ts = new.ts /\ row.confirm = 0
        BY <2>2, Built
    <2>5. /\ pushes' \in Seq(RowType)
          /\ \A i \in 1..Len(pushes') : pushes'[i].bar.ts + pushes'[i].confirm <= forming.ts
        <3>1. row.bar.ts + row.confirm <= forming.ts
            BY <1>1, <2>3, <2>4 DEF Times
        <3>2. Push(row)
            BY <2>1, <2>2, <2>4
        <3> QED
            BY <1>1, <3>1, <3>2, PushKeeps DEF FeedInv, NotAhead
    <2>6. FeedType'
        BY <1>1, <2>1, <2>2, <2>3, <2>5 DEF FeedInv, FeedType
    <2>7. NotAhead'
        BY <2>1, <2>3, <2>5 DEF FeedInv, NotAhead
    <2> QED
        BY <2>6, <2>7 DEF FeedInv
<1>3. CASE Roll
    <2>1. /\ forming.ts < MaxBars /\ unconfirmed' = {forming.ts}
          /\ UNCHANGED <<link, gap, pushes, last_forming, events, book, drops>>
          /\ forming' = OkxBar(forming.ts + 1, 0)
        BY <1>3 DEF Roll
    <2>2. forming' \in BarType /\ forming'.ts = forming.ts + 1 /\ forming'.rev = 0
        <3>1. forming.ts + 1 \in Times /\ 0 \in Nat
            BY <1>1 DEF Times
        <3> QED
            BY <2>1, <3>1, Built
    <2>3. /\ \A i \in 1..Len(pushes) : pushes[i].bar.ts + pushes[i].confirm \in Nat
          /\ \A i \in 1..Len(events) : events[i].ts \in Nat
          /\ \A i \in 1..Len(book) : book[i].ts \in Nat
          /\ \A f \in last_forming : f.ts \in Nat
        <3>1. \A i \in 1..Len(pushes) : pushes[i] \in RowType
            BY <1>1
        <3>2. \A r \in RowType : r.bar.ts + r.confirm \in Nat
            BY DEF RowType, BarType, Times
        <3>3. (\A i \in 1..Len(events) : events[i] \in BarType) /\ \A i \in 1..Len(book) : book[i] \in BarType
            BY <1>1
        <3>4. last_forming \subseteq BarType
            BY DEF FeedInv, FeedType
        <3> QED
            BY <3>1, <3>2, <3>3, <3>4, Built DEF Times
    <2>4. \A m \in Nat : m <= forming.ts => m < forming.ts + 1 /\ m <= forming.ts + 1
        BY <1>1 DEF Times
    <2>5. \A m \in Nat : m < forming.ts => m < forming.ts + 1
        BY <1>1 DEF Times
    <2>6. NotAhead'
        BY <2>1, <2>2, <2>3, <2>4, <2>5 DEF FeedInv, NotAhead
    <2>7. PICK a \in Times, b \in Times : gap = <<a, b>> /\ b <= forming.ts
        BY DEF FeedInv, FeedType
    <2>8. b <= forming'.ts /\ forming'.ts <= MaxBars /\ forming'.rev <= Trades
        BY <1>1, <2>1, <2>2, <2>7 DEF Times
    <2>9. FeedType'
        BY <1>1, <2>1, <2>2, <2>7, <2>8 DEF FeedInv, FeedType
    <2> QED
        BY <2>6, <2>9 DEF FeedInv
<1>4. CASE Confirm
    <2>1. /\ UNCHANGED <<forming, silent, link, gap, last_forming, events, book, drops>>
          /\ unconfirmed' = {}
        BY <1>4 DEF Confirm
    <2>2. PICK x \in unconfirmed : Push(Row(OkxBar(x, Trades), 1))
        BY <1>4 DEF Confirm
    <2>3. x \in Times /\ x + 1 = forming.ts
        BY DEF FeedInv, FeedType
    <2>4. PICK row \in RowType : row = Row(OkxBar(x, Trades), 1) /\ row.bar.ts = x /\ row.confirm = 1
        BY <2>3, Built
    <2>5. /\ pushes' \in Seq(RowType)
          /\ \A i \in 1..Len(pushes') : pushes'[i].bar.ts + pushes'[i].confirm <= forming.ts
        <3>1. row.bar.ts + row.confirm <= forming.ts
            BY <1>1, <2>3, <2>4 DEF Times
        <3> QED
            BY <1>1, <2>2, <2>4, <3>1, PushKeeps DEF FeedInv, NotAhead
    <2>6. FeedType'
        BY <2>1, <2>5 DEF FeedInv, FeedType
    <2>7. NotAhead'
        BY <2>1, <2>5 DEF FeedInv, NotAhead
    <2> QED
        BY <2>6, <2>7 DEF FeedInv
<1>5. CASE Handle_push
    BY <1>5, HandleKeeps
<1>6. CASE Deliver
    <2>1. /\ UNCHANGED <<forming, unconfirmed, silent, link, gap, pushes, last_forming, drops>>
          /\ events # <<>> /\ events' = Tail(events)
        BY <1>6 DEF Deliver, exchange
    <2>2. PICK bar : bar = Head(events)
        OBVIOUS
    <2>3. /\ events' \in Seq(BarType) /\ bar \in BarType /\ bar = events[1] /\ 1 \in 1..Len(events)
          /\ \A i \in 1..Len(events') : events'[i] = events[i + 1] /\ i + 1 \in 1..Len(events)
        BY <1>1, <2>1, <2>2, Popped
    <2>4. book' = Ingest(book, bar) /\ bar.ts < forming.ts
        BY <1>6, <2>2, <2>3 DEF Deliver, FeedInv, NotAhead
    <2>5. book' \in Seq(BarType) /\ \A i \in 1..Len(book') : book'[i].ts < forming.ts
        BY <1>1, <2>3, <2>4, Ingested
    <2>6. FeedType'
        BY <2>1, <2>3, <2>5 DEF FeedInv, FeedType
    <2>7. NotAhead'
        BY <2>1, <2>3, <2>5 DEF FeedInv, NotAhead
    <2> QED
        BY <2>6, <2>7 DEF FeedInv
<1>7. CASE Drop
    <2>1. /\ UNCHANGED <<forming, unconfirmed, silent, gap, last_forming, events, book>>
          /\ pushes' = <<>> /\ link' = "down" /\ drops < MaxDrops /\ drops' = drops + 1
        BY <1>7 DEF Drop, exchange
    <2>2. pushes' \in Seq(RowType) /\ Len(pushes') = 0 /\ drops' \in 0..MaxDrops
        BY <2>1 DEF FeedInv, FeedType
    <2>3. FeedType'
        BY <2>1, <2>2 DEF FeedInv, FeedType
    <2>4. NotAhead'
        BY <2>1, <2>2 DEF FeedInv, NotAhead
    <2> QED
        BY <2>3, <2>4 DEF FeedInv
<1>8. CASE AskRest
    <2>1. /\ UNCHANGED <<forming, unconfirmed, silent, pushes, last_forming, events, book, drops>>
          /\ link' = "filling"
        BY <1>8 DEF AskRest, exchange
    <2>2. PICK first \in Times : first = IF book = <<>> THEN 1 ELSE book[Len(book)].ts + 1
        <3>1. CASE book = <<>>
            BY <3>1 DEF Times
        <3>2. CASE book # <<>>
            <4>1. book[Len(book)] \in BarType
                BY <1>1, <3>2
            <4> QED
                BY <3>2, <4>1, Built DEF Times
        <3> QED
            BY <3>1, <3>2
    <2>3. \/ gap' = <<first, forming.ts>>
          \/ gap' = <<1, 1>>
        BY <1>8, <2>2 DEF AskRest
    <2>4. \E a, b \in Times : gap' = <<a, b>> /\ b <= forming.ts
        <3>1. 1 \in Times /\ 1 <= forming.ts /\ forming.ts <= forming.ts
            BY <1>1 DEF Times
        <3> QED
            BY <1>1, <2>3, <3>1
    <2>5. FeedType'
        BY <2>1, <2>4 DEF FeedInv, FeedType
    <2>6. NotAhead'
        BY <2>1 DEF FeedInv, NotAhead
    <2> QED
        BY <2>5, <2>6 DEF FeedInv
<1>9. CASE FillGap
    <2>1. /\ UNCHANGED <<forming, unconfirmed, silent, link, pushes, last_forming, events, drops>>
          /\ gap[1] < gap[2] /\ book' = Ingest(book, OkxBar(gap[1], Trades)) /\ gap' = <<gap[1] + 1, gap[2]>>
        BY <1>9 DEF FillGap, exchange
    <2>2. PICK a \in Times, b \in Times : gap = <<a, b>> /\ b <= forming.ts
        BY DEF FeedInv, FeedType
    <2>3. a < b /\ book' = Ingest(book, OkxBar(a, Trades)) /\ gap' = <<a + 1, b>>
        BY <2>1, <2>2
    <2>4. PICK bar \in BarType : bar = OkxBar(a, Trades) /\ bar.ts = a
        BY Built
    <2>5. bar.ts < forming.ts /\ a + 1 \in Times
        BY <1>1, <2>2, <2>3, <2>4 DEF Times
    <2>6. book' \in Seq(BarType) /\ \A i \in 1..Len(book') : book'[i].ts < forming.ts
        BY <1>1, <2>3, <2>4, <2>5, Ingested
    <2>7. FeedType'
        BY <2>1, <2>2, <2>3, <2>5, <2>6 DEF FeedInv, FeedType
    <2>8. NotAhead'
        BY <2>1, <2>6 DEF FeedInv, NotAhead
    <2> QED
        BY <2>7, <2>8 DEF FeedInv
<1>10. CASE Reconnect \/ UNCHANGED okxVars
    <2>1. /\ UNCHANGED <<forming, unconfirmed, gap, pushes, last_forming, events, book, drops>>
          /\ link' \in {link, "up"}
        BY <1>10 DEF Reconnect, exchange, okxVars
    <2> QED
        BY <2>1 DEF FeedInv, FeedType, NotAhead
<1> QED
    BY <1>2, <1>3, <1>4, <1>5, <1>6, <1>7, <1>8, <1>9, <1>10 DEF OkxNext

\* It holds when the service starts.
LEMMA FeedStart ==
    ASSUME OkxInit
    PROVE  FeedInv
<1>1. /\ forming = OkxBar(1, 0) /\ unconfirmed = {} /\ link = "up" /\ gap = <<1, 1>>
      /\ pushes = <<>> /\ events = <<>> /\ book = <<>> /\ last_forming = {} /\ drops = 0
    BY DEF OkxInit
<1>2. forming \in BarType /\ forming.ts = 1 /\ forming.rev = 0
    BY <1>1, Built DEF Times
<1>3. FeedType
    BY <1>1, <1>2, OkxAssumption DEF FeedType, Times
<1>4. NotAhead
    BY <1>1 DEF NotAhead
<1> QED
    BY <1>3, <1>4 DEF FeedInv

\* Over any number of reconnections no bar that still forms at the exchange is
\* sent as closed: not by the push that follows it, nor by its confirmation, nor
\* by the gap-fill (handle_push, gap_fill).
THEOREM SendsClosedBars == OkxSpec => []OnlyClosedBars
<1>1. FeedInv => OnlyClosedBars
    <2> SUFFICES ASSUME FeedInv PROVE OnlyClosedBars
        OBVIOUS
    <2>1. DOMAIN book = 1..Len(book) /\ DOMAIN events = 1..Len(events)
        BY DEF FeedInv, FeedType
    <2>2. forming.ts \in 1..MaxBars /\ forming.rev \in 0..Trades
        <3>1. forming.ts \in Times /\ forming.rev \in Nat /\ forming.ts <= MaxBars /\ forming.rev <= Trades
            BY Built DEF FeedInv, FeedType
        <3> QED
            BY <3>1, OkxAssumption DEF Times
    <2> QED
        BY <2>1, <2>2 DEF FeedInv, FeedType, NotAhead, OnlyClosedBars, OkxTypeOK, ClosedIsClosed
<1> QED
    BY <1>1, FeedStart, FeedStep, PTL DEF OkxSpec

-----------------------------------------------------------------------------
(* All bars, while the connection holds                                    *)

\* Bar x is in the ledger or among the first n on their way to it.
SentBefore(n, x) == x \in 1..Len(book) \/ \E j \in 1..n : events[j].ts = x
Sent(x) == SentBefore(Len(events), x)
\* It is among the first n rows, confirmed (c = 1) or forming (c = 0).
Queued(n, c, x) == \E j \in 1..n : pushes[j].bar.ts = x /\ pushes[j].confirm = c
InSlot(x) == \E f \in last_forming : f.ts = x
\* The feed has it, will by the time it has read n rows, or it has no trade.
Came(n, x) == Sent(x) \/ x \in silent \/ Queued(n, 1, x) \/ Queued(n, 0, x) \/ InSlot(x)

BookWhole == \A i \in 1..Len(book) : book[i].ts = i
EventsWhole == \A i \in 1..Len(events), x \in Times : x < events[i].ts => SentBefore(i - 1, x)

\* What is due when row i is read: a confirmed bar comes after the confirmation
\* of all before it, a forming one after those of all but the last, which came
\* forming if it traded.
RowDue(i, x) ==
    /\ \/ pushes[i].confirm = 1 /\ x < pushes[i].bar.ts
       \/ x + 1 < pushes[i].bar.ts
       => Sent(x) \/ Queued(i - 1, 1, x)
    /\ pushes[i].confirm = 0 /\ x + 1 = pushes[i].bar.ts => Came(i - 1, x)
RowsDue == \A i \in 1..Len(pushes), x \in Times : RowDue(i, x)

\* Forming rows come in the order of their bars, after the slot's.
RowsInOrder ==
    \A i \in 1..Len(pushes) : pushes[i].confirm = 0 =>
        /\ \A f \in last_forming : f.ts <= pushes[i].bar.ts
        /\ \A j \in 1..Len(pushes) : pushes[j].confirm = 0 /\ i <= j =>
               pushes[i].bar.ts <= pushes[j].bar.ts

\* The same for what the exchange pushes next.
NextDue ==
    \A x \in Times :
        /\ x < forming.ts => Sent(x) \/ Queued(Len(pushes), 1, x) \/ x \in unconfirmed
        /\ x + 1 = forming.ts \/ (x = forming.ts /\ forming.rev # 0) => Came(Len(pushes), x)

SlotDue ==
    \A f \in last_forming, x \in Times :
        /\ x + 1 < f.ts => Sent(x)
        /\ x + 1 = f.ts => Sent(x) \/ x \in silent

Whole ==
    /\ link = "up"
    /\ BookWhole /\ EventsWhole /\ RowsDue /\ RowsInOrder /\ NextDue /\ SlotDue

\* A row more: what was queued still is, and it is.
LEMMA QueuedMore ==
    ASSUME pushes \in Seq(RowType), NEW row \in RowType, pushes' = Append(pushes, row)
    PROVE  /\ Len(pushes) \in Nat /\ Len(pushes') = Len(pushes) + 1
           /\ pushes'[Len(pushes) + 1] = row
           /\ \A i \in 1..Len(pushes) : pushes'[i] = pushes[i]
           /\ \A n \in 0..Len(pushes), c \in {0, 1}, x \in Times : Queued(n, c, x) => Queued(n, c, x)'
           /\ \A x \in Times, c \in {0, 1} :
                 \/ Queued(Len(pushes), c, x)
                 \/ row.bar.ts = x /\ row.confirm = c
                 => Queued(Len(pushes), c, x)'
<1>1. /\ Len(pushes) \in Nat /\ Len(pushes') = Len(pushes) + 1 /\ pushes'[Len(pushes) + 1] = row
      /\ \A i \in 1..Len(pushes) : pushes'[i] = pushes[i]
    BY Pushed
<1>2. ASSUME NEW n \in 0..Len(pushes), NEW c \in {0, 1}, NEW x \in Times, Queued(n, c, x)
      PROVE  Queued(n, c, x)' /\ Queued(Len(pushes), c, x)'
    <2>1. PICK j \in 1..n : pushes[j].bar.ts = x /\ pushes[j].confirm = c
        BY <1>2 DEF Queued
    <2>2. j \in 1..Len(pushes) /\ pushes'[j] = pushes[j] /\ j \in 1..Len(pushes')
        BY <1>1
    <2> QED
        BY <2>1, <2>2 DEF Queued
<1>3. ASSUME NEW c \in {0, 1}, NEW x \in Times, row.bar.ts = x, row.confirm = c
      PROVE  Queued(Len(pushes), c, x)'
    <2>1. Len(pushes) + 1 \in 1..Len(pushes')
        BY <1>1
    <2> QED
        BY <1>1, <1>3, <2>1 DEF Queued
<1>4. Len(pushes) \in 0..Len(pushes)
    BY <1>1
<1> QED
    BY <1>1, <1>2, <1>3, <1>4

\* The exchange pushes a row that is due: the rows stay due and in order.
LEMMA RowMore ==
    ASSUME FeedInv, Whole, NEW row \in RowType, pushes' = Append(pushes, row),
           UNCHANGED <<silent, events, book, last_forming>>,
           row.confirm = 0 => row.bar.ts = forming.ts,
           row.confirm = 1 => row.bar.ts + 1 = forming.ts,
           \A x \in Times : x \in unconfirmed => x + 1 = forming.ts
    PROVE  /\ RowsDue' /\ RowsInOrder'
           /\ \A x \in Times : Sent(x)' <=> Sent(x)
           /\ \A n \in 0..Len(pushes), x \in Times : Came(n, x) => Came(n, x)'
           /\ \A x \in Times : Came(Len(pushes), x) => Came(Len(pushes), x)'
<1>1. /\ Len(pushes) \in Nat /\ Len(pushes') = Len(pushes) + 1
      /\ pushes'[Len(pushes) + 1] = row
      /\ \A i \in 1..Len(pushes) : pushes'[i] = pushes[i]
    BY QueuedMore DEF FeedInv, FeedType
<1>2. \A n \in 0..Len(pushes), c \in {0, 1}, x \in Times : Queued(n, c, x) => Queued(n, c, x)'
    BY QueuedMore DEF FeedInv, FeedType
<1>3. \A x \in Times, c \in {0, 1} : Queued(Len(pushes), c, x) => Queued(Len(pushes), c, x)'
    BY <1>1, QueuedMore DEF FeedInv, FeedType
<1>4. \A x \in Times : (Sent(x)' <=> Sent(x)) /\ (InSlot(x)' <=> InSlot(x))
    BY DEF Sent, SentBefore, InSlot
<1>5. \A n \in 0..Len(pushes), x \in Times : Came(n, x) => Came(n, x)'
    BY <1>2, <1>4 DEF Came
<1>6. \A x \in Times : Came(Len(pushes), x) => Came(Len(pushes), x)'
    BY <1>3, <1>4 DEF Came
<1>7. \A i \in 1..Len(pushes) : i \in Nat /\ i - 1 \in 0..Len(pushes)
    BY <1>1
<1>8. PICK m \in Nat : m = Len(pushes) /\ \A i \in 1..(m + 1) : i \in 1..m \/ i = m + 1
    BY <1>1
<1>9. forming.ts \in Times /\ row.bar.ts \in Times /\ row.confirm \in {0, 1}
    BY Built DEF FeedInv, FeedType
<1>10. ASSUME NEW i \in 1..Len(pushes), NEW x \in Times
       PROVE  RowDue(i, x)'
    <2>1. RowDue(i, x)
        BY DEF Whole, RowsDue
    <2>2. pushes'[i] = pushes[i] /\ i - 1 \in 0..Len(pushes)
        BY <1>1, <1>7
    <2> QED
        BY <1>2, <1>4, <1>5, <2>1, <2>2 DEF RowDue
<1>11. ASSUME NEW x \in Times
       PROVE  RowDue(m + 1, x)'
    <2>1. /\ x < forming.ts => Sent(x) \/ Queued(Len(pushes), 1, x) \/ x \in unconfirmed
          /\ x + 1 = forming.ts => Came(Len(pushes), x)
        BY DEF Whole, NextDue
    <2>2. x + 1 < forming.ts => Sent(x)' \/ Queued(m, 1, x)'
        <3>1. m \in 0..Len(pushes)
            BY <1>8
        <3>2. x + 1 < forming.ts => x < forming.ts /\ x + 1 # forming.ts
            BY <1>9 DEF Times
        <3> QED
            BY <1>2, <1>4, <1>8, <2>1, <3>1, <3>2
    <2>3. x + 1 = forming.ts => Came(m, x)'
        <3>1. m \in 0..Len(pushes)
            BY <1>8
        <3> QED
            BY <1>5, <1>8, <2>1, <3>1
    <2>4. (m + 1) - 1 = m /\ pushes'[m + 1] = row
        BY <1>1, <1>8
    <2>5. CASE row.confirm = 0
        BY <2>2, <2>3, <2>4, <2>5 DEF RowDue
    <2>6. CASE row.confirm = 1
        <3>1. x < row.bar.ts \/ x + 1 < row.bar.ts => x + 1 < forming.ts
            BY <1>9, <2>6 DEF Times
        <3> QED
            BY <2>2, <2>4, <2>6, <3>1 DEF RowDue
    <2> QED
        BY <1>9, <2>5, <2>6
<1>12. RowsDue'
    BY <1>1, <1>8, <1>10, <1>11 DEF RowsDue
<1>13. /\ \A i \in 1..Len(pushes) : pushes[i].bar.ts <= forming.ts
       /\ \A f \in last_forming : f.ts <= forming.ts
    <2>1. \A i \in 1..Len(pushes) : pushes[i] \in RowType /\ pushes[i].bar.ts + pushes[i].confirm <= forming.ts
        BY DEF FeedInv, FeedType, NotAhead
    <2>2. \A i \in 1..Len(pushes) : pushes[i].bar.ts \in Nat /\ pushes[i].confirm \in {0, 1}
        BY <2>1, Built DEF Times
    <2> QED
        BY <1>9, <2>1, <2>2, SMTT(30) DEF FeedInv, NotAhead, Times
<1>14. RowsInOrder'
    <2>1. \A i \in 1..Len(pushes) : ~(Len(pushes) + 1 <= i)
        BY <1>1
    <2>2. RowsInOrder /\ last_forming' = last_forming
        BY DEF Whole
    <2>3. ASSUME NEW i \in 1..(Len(pushes) + 1), pushes'[i].confirm = 0
          PROVE  \A f \in last_forming : f.ts <= pushes'[i].bar.ts
        BY <1>1, <1>8, <1>13, <2>2, <2>3 DEF RowsInOrder
    <2>4. ASSUME NEW i \in 1..(Len(pushes) + 1), NEW j \in 1..(Len(pushes) + 1),
                 pushes'[i].confirm = 0, pushes'[j].confirm = 0, i <= j
          PROVE  pushes'[i].bar.ts <= pushes'[j].bar.ts
        <3>1. CASE j = Len(pushes) + 1 /\ i = j
            BY <1>1, <1>9, <3>1 DEF Times
        <3>2. CASE j = Len(pushes) + 1 /\ i \in 1..Len(pushes)
            BY <1>1, <1>13, <2>4, <3>2
        <3>3. CASE j \in 1..Len(pushes)
            <4>1. i \in 1..Len(pushes)
                BY <1>8, <2>1, <2>4, <3>3
            <4> QED
                BY <1>1, <2>2, <2>4, <3>3, <4>1 DEF RowsInOrder
        <3> QED
            BY <1>8, <3>1, <3>2, <3>3
    <2> QED
        BY <1>1, <2>2, <2>3, <2>4 DEF RowsInOrder
<1> QED
    BY <1>4, <1>5, <1>6, <1>12, <1>14

\* A trade revises the forming bar, whose row is pushed with it.
LEMMA TradeWhole ==
    ASSUME FeedInv, Whole, Trade
    PROVE  Whole'
<1>1. /\ forming' = OkxBar(forming.ts, forming.rev + 1)
      /\ UNCHANGED <<unconfirmed, silent, link, last_forming, events, book>>
      /\ Push(Row(forming', 0))
    BY DEF Trade, OkxBar, FeedInv, FeedType, BarType
<1>2. forming.ts \in Times /\ forming.rev \in Nat /\ forming' \in BarType /\ forming'.ts = forming.ts
    <2>1. forming.ts \in Times /\ forming.rev \in Nat
        BY Built DEF FeedInv, FeedType
    <2>2. forming.rev + 1 \in Nat
        BY <2>1
    <2> QED
        BY <1>1, <2>1, <2>2, Built
<1>3. PICK new \in BarType : new = forming'
    BY <1>2
<1>4. PICK row \in RowType : row = Row(new, 0) /\ row.bar = new /\ row.confirm = 0
    BY Built
<1>5. pushes' = Append(pushes, row)
    BY <1>1, <1>3, <1>4 DEF Push, Whole
<1>6. row.bar.ts = forming.ts /\ \A x \in Times : x \in unconfirmed => x + 1 = forming.ts
    BY <1>2, <1>3, <1>4 DEF FeedInv, FeedType
<1>7. /\ RowsDue' /\ RowsInOrder'
      /\ \A x \in Times : Sent(x)' <=> Sent(x)
      /\ \A x \in Times : Came(Len(pushes), x) => Came(Len(pushes), x)'
    BY <1>1, <1>4, <1>5, <1>6, RowMore
<1>8. /\ Len(pushes') = Len(pushes) + 1
      /\ \A x \in Times : Queued(Len(pushes), 1, x) => Queued(Len(pushes), 1, x)'
      /\ Queued(Len(pushes), 0, new.ts)'
    <2>1. \A x \in Times, c \in {0, 1} : Queued(Len(pushes), c, x) \/ (row.bar.ts = x /\ row.confirm = c)
              => Queued(Len(pushes), c, x)'
        BY <1>5, QueuedMore DEF FeedInv, FeedType
    <2>2. Len(pushes') = Len(pushes) + 1
        BY <1>5, QueuedMore DEF FeedInv, FeedType
    <2> QED
        BY <1>2, <1>3, <1>4, <1>6, <2>1, <2>2
<1>9. NextDue'
    <2>1. ASSUME NEW x \in Times
          PROVE  /\ x < forming.ts => Sent(x)' \/ Queued(Len(pushes), 1, x)' \/ x \in unconfirmed'
                 /\ x + 1 = forming.ts => Came(Len(pushes), x)'
                 /\ x = forming.ts => Came(Len(pushes), x)'
        BY <1>1, <1>2, <1>3, <1>7, <1>8 DEF Whole, NextDue, Came
    <2> QED
        BY <1>2, <2>1 DEF NextDue
<1>10. BookWhole' /\ EventsWhole' /\ SlotDue'
    BY <1>1, SMTT(30) DEF Whole, BookWhole, EventsWhole, SlotDue, SentBefore, Sent
<1> QED
    BY <1>1, <1>7, <1>9, <1>10 DEF Whole

\* The bar that closes is due from its confirmation on.
LEMMA RollWhole ==
    ASSUME FeedInv, Whole, Roll
    PROVE  Whole'
<1>1. /\ forming' = OkxBar(forming.ts + 1, 0) /\ unconfirmed = {} /\ unconfirmed' = {forming.ts}
      /\ UNCHANGED <<link, pushes, last_forming, events, book>>
      /\ silent \subseteq silent' /\ (forming.rev = 0 => forming.ts \in silent')
    BY DEF Roll
<1>2. forming.ts \in Times /\ forming'.ts = forming.ts + 1 /\ forming'.rev = 0
    BY <1>1, Built, SMTT(30) DEF FeedInv, FeedType, Times
<1>3. /\ \A n, x : (SentBefore(n, x)' <=> SentBefore(n, x)) /\ (Sent(x)' <=> Sent(x)) /\ (InSlot(x)' <=> InSlot(x))
      /\ \A n, c, x : Queued(n, c, x)' <=> Queued(n, c, x)
    BY <1>1 DEF SentBefore, Sent, InSlot, Queued
<1>4. \A n, x : Came(n, x) => Came(n, x)'
    BY <1>1, <1>3 DEF Came
<1>5. NextDue'
    <2>1. ASSUME NEW x \in Times, x < forming.ts + 1
          PROVE  Sent(x)' \/ Queued(Len(pushes), 1, x)' \/ x \in unconfirmed'
        <3>1. x < forming.ts \/ x = forming.ts
            BY <1>2, <2>1 DEF Times
        <3> QED
            BY <1>1, <1>3, <3>1 DEF Whole, NextDue
    <2>2. ASSUME NEW x \in Times, x = forming.ts
          PROVE  Came(Len(pushes), x)'
        <3>1. CASE forming.rev = 0
            BY <1>1, <2>2, <3>1 DEF Came
        <3>2. CASE forming.rev # 0
            <4>1. Came(Len(pushes), x)
                BY <2>2, <3>2 DEF Whole, NextDue
            <4> QED
                BY <1>1, <1>3, <4>1 DEF Came
        <3> QED
            BY <3>1, <3>2
    <2>3. \A x \in Times : x + 1 = forming.ts + 1 => x = forming.ts
        BY <1>2 DEF Times
    <2> QED
        BY <1>1, <1>2, <2>1, <2>2, <2>3 DEF NextDue
<1>6. RowsDue'
    BY <1>1, <1>3, <1>4 DEF Whole, RowsDue, RowDue
<1>7. BookWhole' /\ EventsWhole' /\ SlotDue' /\ RowsInOrder'
    BY <1>1, <1>3 DEF Whole, BookWhole, EventsWhole, SlotDue, RowsInOrder
<1> QED
    BY <1>1, <1>5, <1>6, <1>7 DEF Whole

\* The confirming push is queued behind the rows of its bar.
LEMMA ConfirmWhole ==
    ASSUME FeedInv, Whole, Confirm
    PROVE  Whole'
<1>1. unconfirmed' = {} /\ UNCHANGED <<forming, silent, link, last_forming, events, book>>
    BY DEF Confirm
<1>2. PICK u \in unconfirmed : Push(Row(OkxBar(u, Trades), 1))
    BY DEF Confirm
<1>3. forming.ts \in Times /\ \A x \in unconfirmed : x \in Times /\ x + 1 = forming.ts
    BY Built DEF FeedInv, FeedType
<1>4. \A x \in unconfirmed : x = u
    BY <1>3 DEF Times
<1>5. PICK row \in RowType : row = Row(OkxBar(u, Trades), 1) /\ row.bar.ts = u /\ row.confirm = 1
    BY <1>3, Built, OkxAssumption
<1>6. pushes' = Append(pushes, row)
    BY <1>2, <1>5 DEF Push, Whole
<1>7. /\ RowsDue' /\ RowsInOrder'
      /\ \A x \in Times : Sent(x)' <=> Sent(x)
      /\ \A x \in Times : Came(Len(pushes), x) => Came(Len(pushes), x)'
    BY <1>1, <1>3, <1>5, <1>6, RowMore, SMTT(30)
<1>8. /\ \A x \in Times : Queued(Len(pushes), 1, x) => Queued(Len(pushes), 1, x)'
      /\ Queued(Len(pushes), 1, u)'
    <2>1. \A x \in Times, c \in {0, 1} : Queued(Len(pushes), c, x) \/ (row.bar.ts = x /\ row.confirm = c)
              => Queued(Len(pushes), c, x)'
        BY <1>6, QueuedMore DEF FeedInv, FeedType
    <2>2. Len(pushes') = Len(pushes) + 1
        BY <1>6, QueuedMore DEF FeedInv, FeedType
    <2> QED
        BY <1>3, <1>5, <2>1, <2>2
<1>9. NextDue'
    <2>1. ASSUME NEW x \in Times
          PROVE  /\ x < forming.ts => Sent(x)' \/ Queued(Len(pushes), 1, x)'
                 /\ x + 1 = forming.ts \/ (x = forming.ts /\ forming.rev # 0) => Came(Len(pushes), x)'
        BY <1>4, <1>7, <1>8 DEF Whole, NextDue
    <2> QED
        BY <1>1, <2>1 DEF NextDue
<1>10. BookWhole' /\ EventsWhole' /\ SlotDue'
    BY <1>1 DEF Whole, BookWhole, EventsWhole, SlotDue, SentBefore, Sent
<1> QED
    BY <1>1, <1>7, <1>9, <1>10 DEF Whole

\* A bar more on its way: what was sent still is, and it is.
LEMMA SentMore ==
    ASSUME events \in Seq(BarType), NEW b \in BarType, events' = events \o <<b>>, book' = book
    PROVE  /\ Len(events) \in Nat /\ Len(events') = Len(events) + 1
           /\ events'[Len(events) + 1] = b
           /\ \A i \in 1..Len(events) : events'[i] = events[i]
           /\ \A n \in 0..Len(events), x \in Times : SentBefore(n, x) => SentBefore(n, x)'
           /\ \A x \in Times : Sent(x) \/ x = b.ts => Sent(x)'
<1>1. /\ Len(events) \in Nat /\ Len(events') = Len(events) + 1 /\ events'[Len(events) + 1] = b
      /\ \A i \in 1..Len(events) : events'[i] = events[i]
    BY Pushed
<1>2. ASSUME NEW n \in 0..Len(events), NEW x \in Times, SentBefore(n, x)
      PROVE  SentBefore(n, x)' /\ Sent(x)'
    <2>1. CASE x \in 1..Len(book)
        BY <2>1 DEF SentBefore, Sent
    <2>2. ASSUME NEW j \in 1..n, events[j].ts = x
          PROVE  SentBefore(n, x)' /\ Sent(x)'
        <3>1. j \in 1..Len(events) /\ events'[j] = events[j] /\ j \in 1..Len(events')
            BY <1>1
        <3> QED
            BY <2>2, <3>1 DEF SentBefore, Sent
    <2> QED
        BY <1>2, <2>1, <2>2 DEF SentBefore
<1>3. Sent(b.ts)'
    <2>1. Len(events) + 1 \in 1..Len(events')
        BY <1>1
    <2> QED
        BY <1>1, <2>1 DEF SentBefore, Sent
<1>4. Len(events) \in 0..Len(events)
    BY <1>1
<1>5. \A x \in Times : Sent(x) \/ x = b.ts => Sent(x)'
    <2>1. ASSUME NEW x \in Times, Sent(x)
          PROVE  Sent(x)'
        <3>1. PICK n \in 0..Len(events) : SentBefore(n, x)
            BY <1>4, <2>1 DEF Sent
        <3> QED
            BY <1>2, <3>1
    <2> QED
        BY <1>3, <2>1
<1> QED
    BY <1>1, <1>2, <1>5

\* Sending a bar after all before it, or nothing, keeps the channel whole.
LEMMA SendWhole ==
    ASSUME FeedInv, EventsWhole, NEW send, events' = events \o send, book' = book,
           send = <<>> \/ \E b \in BarType : send = <<b>> /\ \A x \in Times : x < b.ts => Sent(x)
    PROVE  /\ EventsWhole'
           /\ \A x \in Times : Sent(x) => Sent(x)'
           /\ \A b \in BarType : send = <<b>> => Sent(b.ts)'
<1> USE DEF FeedInv, FeedType
<1>1. CASE send = <<>>
    <2>1. events' = events
        BY <1>1
    <2>2. \A b \in BarType : send # <<b>>
        BY <1>1
    <2> QED
        BY <2>1, <2>2 DEF EventsWhole, Sent, SentBefore
<1>2. ASSUME NEW b \in BarType, send = <<b>>, \A x \in Times : x < b.ts => Sent(x)
      PROVE  /\ EventsWhole'
             /\ \A x \in Times : Sent(x) => Sent(x)'
             /\ \A c \in BarType : send = <<c>> => Sent(c.ts)'
    <2>1. events' = events \o <<b>> /\ \A c \in BarType : send = <<c>> => c = b
        BY <1>2
    <2>2. /\ Len(events) \in Nat /\ Len(events') = Len(events) + 1
          /\ events'[Len(events) + 1] = b
          /\ \A i \in 1..Len(events) : events'[i] = events[i]
        BY <2>1, SentMore
    <2>3. \A n \in 0..Len(events), x \in Times : SentBefore(n, x) => SentBefore(n, x)'
        BY <2>1, SentMore
    <2>4. \A x \in Times : Sent(x) \/ x = b.ts => Sent(x)'
        BY <2>1, SentMore
    <2>5. ASSUME NEW i \in 1..Len(events'), NEW x \in Times, x < events'[i].ts
          PROVE  SentBefore(i - 1, x)'
        <3>1. CASE i \in 1..Len(events)
            <4>1. i - 1 \in 0..Len(events) /\ events'[i] = events[i]
                BY <2>2, <3>1
            <4> QED
                BY <2>3, <2>5, <3>1, <4>1 DEF EventsWhole
        <3>2. CASE i = Len(events) + 1
            <4>1. i - 1 = Len(events) /\ Len(events) \in 0..Len(events)
                BY <2>2, <3>2
            <4>2. SentBefore(Len(events), x)
                BY <1>2, <2>2, <2>5, <3>2 DEF Sent
            <4> QED
                BY <2>3, <4>1, <4>2
        <3> QED
            BY <2>2, <3>1, <3>2
    <2>6. EventsWhole'
        BY <2>5 DEF EventsWhole
    <2> QED
        BY <2>1, <2>4, <2>6, Built
<1> QED
    BY <1>1, <1>2

\* A row less: what was queued is the row that was read or still queued.
LEMMA QueuedLess ==
    ASSUME pushes \in Seq(RowType), pushes # <<>>, pushes' = Tail(pushes)
    PROVE  /\ Len(pushes) \in Nat /\ Len(pushes') = Len(pushes) - 1 /\ 1 \in 1..Len(pushes)
           /\ Head(pushes) = pushes[1]
           /\ \A i \in 1..Len(pushes') : pushes'[i] = pushes[i + 1] /\ i + 1 \in 1..Len(pushes)
           /\ \A n \in 0..Len(pushes'), c \in {0, 1}, x \in Times : Queued(n + 1, c, x) =>
                 \/ Queued(n, c, x)'
                 \/ pushes[1].bar.ts = x /\ pushes[1].confirm = c
<1>1. /\ Len(pushes) \in Nat /\ Len(pushes') = Len(pushes) - 1 /\ 1 \in 1..Len(pushes)
      /\ Head(pushes) = pushes[1]
      /\ \A i \in 1..Len(pushes') : pushes'[i] = pushes[i + 1] /\ i + 1 \in 1..Len(pushes)
    BY Popped
<1>2. ASSUME NEW n \in 0..Len(pushes'), NEW c \in {0, 1}, NEW x \in Times, Queued(n + 1, c, x)
      PROVE  Queued(n, c, x)' \/ (pushes[1].bar.ts = x /\ pushes[1].confirm = c)
    <2>1. PICK j \in 1..(n + 1) : pushes[j].bar.ts = x /\ pushes[j].confirm = c
        BY <1>2 DEF Queued
    <2>2. CASE j = 1
        BY <2>1, <2>2
    <2>3. CASE j # 1
        <3>1. PICK k \in 1..n : j = k + 1
            <4>1. j - 1 \in 1..n /\ j = (j - 1) + 1
                BY <1>1, <2>3
            <4> QED
                BY <4>1
        <3>2. k \in 1..Len(pushes')
            BY <1>1
        <3>3. pushes'[k] = pushes[j]
            BY <1>1, <3>1, <3>2
        <3> QED
            BY <2>1, <3>1, <3>3 DEF Queued
    <2> QED
        BY <2>2, <2>3
<1> QED
    BY <1>1, <1>2

\* The row that leaves the queue is sent, or kept as the newest forming one.
LEMMA HandleWhole ==
    ASSUME FeedInv, Whole, Handle_push
    PROVE  Whole'
<1>1. UNCHANGED <<forming, unconfirmed, silent, link, book>>
    BY DEF Handle_push, Handled, exchange
<1>2. pushes # <<>> /\ pushes \in Seq(RowType) /\ pushes' = Tail(pushes)
    BY DEF Handle_push, Handled, FeedInv, FeedType
<1>3. /\ Len(pushes) \in Nat /\ Len(pushes') = Len(pushes) - 1 /\ 1 \in 1..Len(pushes)
      /\ Head(pushes) = pushes[1]
      /\ \A i \in 1..Len(pushes') : pushes'[i] = pushes[i + 1] /\ i + 1 \in 1..Len(pushes)
    BY <1>2, QueuedLess
<1>4. PICK row \in RowType : row = Head(pushes) /\ row = pushes[1]
    BY <1>2, <1>3, Popped
<1>5. /\ row.bar \in BarType /\ row.confirm \in {0, 1} /\ row.bar.ts \in Times
      /\ last_forming \subseteq BarType /\ \A f \in last_forming : f.ts \in Times
    BY Built DEF FeedInv, FeedType
<1>6. \A n \in 0..Len(pushes'), c \in {0, 1}, x \in Times : Queued(n + 1, c, x) =>
          Queued(n, c, x)' \/ (row.bar.ts = x /\ row.confirm = c)
    BY <1>2, <1>4, QueuedLess
<1>7. PICK send, slot :
        /\ events' = events \o send /\ last_forming' = slot
        /\ \/ row.confirm = 1 /\ send = <<row.bar>> /\ slot = last_forming \ SameBar(row)
           \/ row.confirm = 0 /\ Older(row) = {} /\ send = <<>> /\ slot = {row.bar}
           \/ row.confirm = 0 /\ slot = {row.bar} /\ \E f \in Older(row) : send = <<f>>
    BY <1>4, Zenon DEF Handle_push, Handled
<1>8. \A x \in Times : RowDue(1, x) /\ ~Queued(0, 1, x) /\ ~Queued(0, 0, x)
    BY <1>3 DEF Whole, RowsDue, Queued
<1>9. \A x \in Times :
        /\ (row.confirm = 1 /\ x < row.bar.ts) \/ x + 1 < row.bar.ts => Sent(x)
        /\ row.confirm = 0 /\ x + 1 = row.bar.ts => Sent(x) \/ x \in silent \/ InSlot(x)
    <2>1. 1 - 1 = 0
        OBVIOUS
    <2> QED
        BY <1>4, <1>8, <2>1 DEF RowDue, Came
\* What is sent comes after all before it.
<1>10. send = <<>> \/ \E b \in BarType : send = <<b>> /\ \A x \in Times : x < b.ts => Sent(x)
    <2>1. CASE row.confirm = 1 /\ send = <<row.bar>>
        BY <1>5, <1>9, <2>1
    <2>2. ASSUME NEW f \in Older(row), send = <<f>>
          PROVE  \E b \in BarType : send = <<b>> /\ \A x \in Times : x < b.ts => Sent(x)
        <3>1. f \in BarType /\ f.ts < row.bar.ts /\ f.ts \in Times
            BY <1>5 DEF Older
        <3>2. \A x \in Times : x < f.ts => x + 1 < row.bar.ts
            BY <1>5, <3>1 DEF Times
        <3> QED
            BY <1>9, <2>2, <3>1, <3>2
    <2> QED
        BY <1>7, <2>1, <2>2
<1>11. /\ EventsWhole'
       /\ \A x \in Times : Sent(x) => Sent(x)'
       /\ \A b \in BarType : send = <<b>> => Sent(b.ts)'
    BY <1>1, <1>7, <1>10, SendWhole DEF Whole
\* The row that is read is sent or in the slot.
<1>12. row.confirm = 1 => Sent(row.bar.ts)'
    BY <1>5, <1>7, <1>11
<1>13. row.confirm = 0 => slot = {row.bar} /\ InSlot(row.bar.ts)'
    BY <1>7 DEF InSlot
<1>14. ASSUME NEW x \in Times, InSlot(x)
       PROVE  InSlot(x)' \/ Sent(x)'
    <2>1. PICK f \in last_forming : f.ts = x
        BY <1>14 DEF InSlot
    <2>2. CASE row.confirm = 1
        <3>1. CASE x = row.bar.ts
            BY <1>12, <2>2, <3>1
        <3>2. CASE x # row.bar.ts
            <4>1. f \in slot
                BY <1>7, <2>1, <2>2, <3>2 DEF SameBar
            <4> QED
                BY <1>7, <2>1, <4>1 DEF InSlot
        <3> QED
            BY <3>1, <3>2
    <2>3. CASE row.confirm = 0
        <3>1. f.ts <= row.bar.ts
            BY <1>3, <1>4, <2>3 DEF Whole, RowsInOrder
        <3>2. CASE f.ts = row.bar.ts
            BY <1>13, <2>1, <2>3, <3>2
        <3>3. CASE f.ts < row.bar.ts
            <4>1. f \in Older(row)
                BY <3>3 DEF Older
            <4>2. \A g \in Older(row) : g = f
                BY DEF Older, FeedInv, FeedType
            <4>3. send = <<f>>
                BY <1>7, <2>3, <4>1, <4>2
            <4> QED
                BY <1>5, <1>11, <2>1, <4>3
        <3> QED
            BY <1>5, <3>1, <3>2, <3>3 DEF Times
    <2> QED
        BY <1>5, <2>2, <2>3
<1>15. \A n \in 0..Len(pushes'), x \in Times :
         /\ Queued(n + 1, 1, x) => Sent(x)' \/ Queued(n, 1, x)'
         /\ Queued(n + 1, 0, x) => InSlot(x)' \/ Queued(n, 0, x)'
    BY <1>6, <1>12, <1>13
<1>16. \A n \in 0..Len(pushes'), x \in Times : Came(n + 1, x) => Came(n, x)'
    BY <1>1, <1>11, <1>14, <1>15 DEF Came
<1>17. RowsDue'
    <2>1. ASSUME NEW i \in 1..Len(pushes'), NEW x \in Times
          PROVE  RowDue(i, x)'
        <3>1. pushes'[i] = pushes[i + 1] /\ i + 1 \in 1..Len(pushes) /\ RowDue(i + 1, x)
            BY <1>3 DEF Whole, RowsDue
        <3>2. i - 1 \in 0..Len(pushes') /\ (i - 1) + 1 = i /\ (i + 1) - 1 = i
            BY <1>3
        <3>3. Queued(i, 1, x) => Sent(x)' \/ Queued(i - 1, 1, x)'
            BY <1>15, <3>2
        <3>4. Came(i, x) => Came(i - 1, x)'
            BY <1>16, <3>2
        <3> QED
            BY <1>11, <3>1, <3>2, <3>3, <3>4 DEF RowDue
    <2> QED
        BY <2>1 DEF RowsDue
<1>18. RowsInOrder'
    <2>1. ASSUME NEW i \in 1..Len(pushes'), pushes'[i].confirm = 0
          PROVE  \A f \in slot : f.ts <= pushes'[i].bar.ts
        <3>1. pushes'[i] = pushes[i + 1] /\ i + 1 \in 1..Len(pushes) /\ 1 <= i + 1
            BY <1>3
        <3>2. row.confirm = 0 => row.bar.ts <= pushes'[i].bar.ts
            BY <1>3, <1>4, <2>1, <3>1 DEF Whole, RowsInOrder
        <3>3. row.confirm = 1 => slot \subseteq last_forming
            BY <1>7
        <3> QED
            BY <1>5, <1>13, <2>1, <3>1, <3>2, <3>3 DEF Whole, RowsInOrder
    <2>2. ASSUME NEW i \in 1..Len(pushes'), NEW j \in 1..Len(pushes'), i <= j,
                 pushes'[i].confirm = 0, pushes'[j].confirm = 0
          PROVE  pushes'[i].bar.ts <= pushes'[j].bar.ts
        <3>1. /\ pushes'[i] = pushes[i + 1] /\ i + 1 \in 1..Len(pushes)
              /\ pushes'[j] = pushes[j + 1] /\ j + 1 \in 1..Len(pushes) /\ i + 1 <= j + 1
            BY <1>3, <2>2
        <3> QED
            BY <2>2, <3>1 DEF Whole, RowsInOrder
    <2> QED
        BY <1>7, <2>1, <2>2 DEF RowsInOrder
<1>19. NextDue'
    <2>1. Len(pushes') \in 0..Len(pushes') /\ Len(pushes) = Len(pushes') + 1
        BY <1>3
    <2>2. \A x \in Times : /\ Queued(Len(pushes), 1, x) => Sent(x)' \/ Queued(Len(pushes), 1, x)'
                           /\ Came(Len(pushes), x) => Came(Len(pushes), x)'
        BY <1>15, <1>16, <2>1
    <2> QED
        BY <1>1, <1>11, <2>2 DEF Whole, NextDue
<1>20. SlotDue'
    <2>1. CASE slot \subseteq last_forming
        BY <1>1, <1>7, <1>11, <2>1 DEF Whole, SlotDue
    <2>2. CASE row.confirm = 0 /\ slot = {row.bar}
        <3>1. \A x \in Times : x + 1 < row.bar.ts => Sent(x)'
            BY <1>9, <1>11
        <3>2. ASSUME NEW x \in Times, x + 1 = row.bar.ts
              PROVE  Sent(x)' \/ x \in silent'
            <4>1. ~InSlot(x)'
                <5>1. row.bar.ts # x
                    BY <1>5, <3>2 DEF Times
                <5> QED
                    BY <1>7, <2>2, <5>1 DEF InSlot
            <4> QED
                BY <1>1, <1>9, <1>11, <1>14, <2>2, <3>2, <4>1
        <3> QED
            BY <1>7, <2>2, <3>1, <3>2 DEF SlotDue
    <2> QED
        BY <1>7, <2>1, <2>2
<1>21. BookWhole'
    BY <1>1 DEF Whole, BookWhole
<1> QED
    BY <1>1, <1>11, <1>17, <1>18, <1>19, <1>20, <1>21 DEF Whole

\* The ledger takes the next bar, or has it.
LEMMA DeliverWhole ==
    ASSUME FeedInv, Whole, Deliver
    PROVE  Whole'
<1>1. /\ UNCHANGED <<forming, unconfirmed, silent, link, pushes, last_forming>>
      /\ events # <<>> /\ events' = Tail(events)
    BY DEF Deliver, exchange
<1>2. PICK bar : bar = Head(events)
    OBVIOUS
<1>3. /\ events \in Seq(BarType) /\ book \in Seq(BarType) /\ Len(book) \in Nat
      /\ bar \in BarType /\ bar = events[1] /\ 1 \in 1..Len(events) /\ bar.ts \in Times
      /\ Len(events) \in Nat /\ Len(events') = Len(events) - 1
      /\ \A i \in 1..Len(events') : events'[i] = events[i + 1] /\ i + 1 \in 1..Len(events)
    BY <1>1, <1>2, Popped, Built DEF FeedInv, FeedType
<1>4. \A x \in Times : x < bar.ts => x \in 1..Len(book)
    <2>1. \A x \in Times : x < bar.ts => SentBefore(1 - 1, x)
        BY <1>3 DEF Whole, EventsWhole
    <2>2. 1..(1 - 1) = {}
        OBVIOUS
    <2> QED
        BY <2>1, <2>2 DEF SentBefore
<1>5. bar.ts <= Len(book) + 1
    <2>1. CASE bar.ts = 1
        BY <1>3, <2>1
    <2>2. CASE bar.ts # 1
        <3>1. bar.ts - 1 \in Times /\ bar.ts - 1 < bar.ts
            BY <1>3, <2>2 DEF Times
        <3>2. bar.ts - 1 \in 1..Len(book)
            BY <1>4, <3>1
        <3> QED
            BY <1>3, <3>2 DEF Times
    <2> QED
        BY <2>1, <2>2
<1>6. book' = IF book = <<>> \/ bar.ts > book[Len(book)].ts THEN Append(book, bar) ELSE book
    BY <1>2 DEF Deliver, Ingest
<1>7. BookWhole' /\ Len(book') \in Nat /\ Len(book) <= Len(book') /\ bar.ts <= Len(book')
    <2>1. CASE book = <<>> \/ bar.ts > book[Len(book)].ts
        <3>1. /\ book' = Append(book, bar) /\ Len(book') = Len(book) + 1 /\ book'[Len(book) + 1] = bar
              /\ \A i \in 1..Len(book) : book'[i] = book[i]
            BY <1>3, <1>6, <2>1, Pushed
        <3>2. bar.ts = Len(book) + 1
            <4>1. CASE book = <<>>
                <5>1. Len(book) = 0
                    BY <4>1
                <5> QED
                    BY <1>3, <1>5, <5>1 DEF Times
            <4>2. CASE book # <<>>
                <5>1. Len(book) \in 1..Len(book)
                    BY <1>3, <4>2
                <5>2. book[Len(book)].ts = Len(book)
                    BY <5>1 DEF Whole, BookWhole
                <5> QED
                    BY <1>3, <1>5, <2>1, <4>2, <5>2 DEF Times
            <4> QED
                BY <4>1, <4>2
        <3>3. \A i \in 1..(Len(book) + 1) : i \in 1..Len(book) \/ i = Len(book) + 1
            BY <1>3
        <3>4. BookWhole'
            BY <3>1, <3>2, <3>3 DEF Whole, BookWhole
        <3> QED
            BY <1>3, <3>1, <3>2, <3>4
    <2>2. CASE ~(book = <<>> \/ bar.ts > book[Len(book)].ts)
        <3>1. book' = book /\ Len(book) \in 1..Len(book)
            BY <1>3, <1>6, <2>2
        <3>2. book[Len(book)].ts = Len(book)
            BY <3>1 DEF Whole, BookWhole
        <3> QED
            BY <1>3, <2>2, <3>1, <3>2 DEF Whole, BookWhole, Times
    <2> QED
        BY <2>1, <2>2
<1>8. ASSUME NEW n \in 0..Len(events'), NEW x \in Times, SentBefore(n + 1, x)
      PROVE  SentBefore(n, x)'
    <2>1. CASE x \in 1..Len(book)
        <3>1. x \in 1..Len(book')
            BY <1>3, <1>7, <2>1
        <3> QED
            BY <3>1 DEF SentBefore
    <2>2. ASSUME NEW j \in 1..(n + 1), events[j].ts = x
          PROVE  SentBefore(n, x)'
        <3>1. CASE j = 1
            <4>1. x \in 1..Len(book')
                BY <1>3, <1>7, <2>2, <3>1 DEF Times
            <4> QED
                BY <4>1 DEF SentBefore
        <3>2. CASE j # 1
            <4>1. PICK k \in 1..n : j = k + 1
                <5>1. j - 1 \in 1..n /\ j = (j - 1) + 1
                    BY <1>3, <3>2
                <5> QED
                    BY <5>1
            <4>2. k \in 1..Len(events')
                BY <1>3
            <4>3. events'[k] = events[j]
                BY <1>3, <4>1, <4>2
            <4> QED
                BY <2>2, <4>1, <4>3 DEF SentBefore
        <3> QED
            BY <3>1, <3>2
    <2> QED
        BY <1>8, <2>1, <2>2 DEF SentBefore
<1>9. \A x \in Times : Sent(x) => Sent(x)'
    <2>1. Len(events') \in 0..Len(events') /\ Len(events) = Len(events') + 1
        BY <1>3
    <2> QED
        BY <1>8, <2>1 DEF Sent
<1>10. EventsWhole'
    <2>1. ASSUME NEW i \in 1..Len(events'), NEW x \in Times, x < events'[i].ts
          PROVE  SentBefore(i - 1, x)'
        <3>1. /\ events'[i] = events[i + 1] /\ i + 1 \in 1..Len(events) /\ i - 1 \in 0..Len(events')
              /\ (i + 1) - 1 = (i - 1) + 1
            BY <1>3
        <3>2. SentBefore((i - 1) + 1, x)
            BY <2>1, <3>1 DEF Whole, EventsWhole
        <3> QED
            BY <1>8, <3>1, <3>2
    <2> QED
        BY <2>1 DEF EventsWhole
<1>11. \A n, c, x : (Queued(n, c, x)' <=> Queued(n, c, x)) /\ (InSlot(x)' <=> InSlot(x))
    BY <1>1 DEF Queued, InSlot
<1>12. \A n, x : x \in Times /\ Came(n, x) => Came(n, x)'
    BY <1>1, <1>9, <1>11 DEF Came
<1>13. RowsDue' /\ NextDue'
    BY <1>1, <1>9, <1>11, <1>12 DEF Whole, RowsDue, RowDue, NextDue
<1>14. RowsInOrder' /\ SlotDue'
    BY <1>1, <1>9 DEF Whole, RowsInOrder, SlotDue
<1> QED
    BY <1>1, <1>7, <1>10, <1>13, <1>14 DEF Whole

\* Until the first lost connection everything the exchange has closed is in the
\* ledger or on its way.
FeedIInv == FeedInv /\ (drops = 0 => Whole)

\* Without a lost connection every step keeps the feed whole.
LEMMA WholeStep ==
    ASSUME FeedIInv, [OkxNext]_okxVars
    PROVE  FeedIInv'
<1>1. FeedInv /\ FeedInv' /\ drops \in Nat /\ MaxDrops \in Nat
    BY FeedStep, OkxAssumption DEF FeedIInv, FeedInv, FeedType
<1>2. SUFFICES ASSUME drops' = 0 PROVE Whole'
    BY <1>1 DEF FeedIInv
<1>3. CASE Drop
    <2>1. drops' = drops + 1
        BY <1>3 DEF Drop
    <2> QED
        BY <1>1, <1>2, <2>1
<1>4. CASE ~Drop
    <2>1. drops' = drops
        BY <1>4 DEF OkxNext, Trade, Roll, Confirm, Handle_push, Handled, Deliver, AskRest, FillGap, Reconnect, okxVars
    <2>2. Whole /\ link = "up"
        BY <1>2, <2>1 DEF FeedIInv, Whole
    <2>3. CASE AskRest \/ FillGap \/ Reconnect
        BY <2>2, <2>3 DEF AskRest, FillGap, Reconnect
    <2>4. CASE UNCHANGED okxVars
        <3>1. UNCHANGED <<forming, unconfirmed, link, pushes, last_forming, events, book, silent>>
            BY <2>4 DEF okxVars
        <3>2. /\ \A n, x : (SentBefore(n, x)' <=> SentBefore(n, x)) /\ (Sent(x)' <=> Sent(x)) /\ (InSlot(x)' <=> InSlot(x))
              /\ \A n, c, x : Queued(n, c, x)' <=> Queued(n, c, x)
            BY <3>1 DEF SentBefore, Sent, InSlot, Queued
        <3>3. \A n, x : Came(n, x)' <=> Came(n, x)
            BY <3>1, <3>2 DEF Came
        <3>4. RowsDue' /\ NextDue'
            BY <2>2, <3>1, <3>2, <3>3 DEF Whole, RowsDue, RowDue, NextDue
        <3> QED
            BY <2>2, <3>1, <3>2, <3>4 DEF Whole, BookWhole, EventsWhole, RowsInOrder, SlotDue
    <2> QED
        BY <1>1, <1>4, <2>2, <2>3, <2>4, TradeWhole, RollWhole, ConfirmWhole, HandleWhole, DeliverWhole DEF OkxNext
<1> QED
    BY <1>3, <1>4

\* Nothing has closed and nothing is due.
LEMMA WholeStart ==
    ASSUME OkxInit
    PROVE  FeedIInv
<1>1. /\ forming = OkxBar(1, 0) /\ unconfirmed = {} /\ link = "up"
      /\ pushes = <<>> /\ events = <<>> /\ book = <<>> /\ last_forming = {}
    BY DEF OkxInit
<1>2. forming.ts = 1 /\ forming.rev = 0
    BY <1>1, Built DEF Times
<1>3. Len(pushes) = 0 /\ Len(events) = 0 /\ Len(book) = 0 /\ 1..0 = {}
    BY <1>1
<1>4. \A x \in Times : ~(x < 1) /\ x + 1 # 1
    BY DEF Times
<1>5. NextDue
    BY <1>2, <1>4 DEF NextDue
<1>6. Whole
    BY <1>1, <1>3, <1>5 DEF Whole, BookWhole, EventsWhole, RowsDue, RowsInOrder, SlotDue
<1> QED
    BY <1>6, FeedStart DEF FeedIInv

\* While the connection holds every bar the exchange closes reaches the ledger: a
\* bar that traded as soon as a newer one is seen to form, one that did not with
\* its confirmation (handle_push, Ledger::advance).
THEOREM ConnectedMissesNothing == OkxSpec => []NothingMissed
<1>1. FeedIInv => NothingMissed
    <2> SUFFICES ASSUME FeedIInv, drops = 0, events = <<>>
                 PROVE  /\ \A f \in last_forming : 1..(f.ts - 1) \subseteq BookTs \cup silent
                        /\ pushes = <<>> /\ unconfirmed = {} => BookTs = 1..(forming.ts - 1)
        BY DEF NothingMissed, Prompt, Complete
    <2>1. Whole /\ FeedInv /\ DOMAIN book = 1..Len(book) /\ Len(book) \in Nat
        BY DEF FeedIInv, FeedInv, FeedType
    <2>2. \A x \in Times : Sent(x) <=> x \in BookTs
        <3>1. Len(events) = 0 /\ 1..0 = {}
            OBVIOUS
        <3>2. \A x \in Times : Sent(x) <=> x \in 1..Len(book)
            BY <3>1 DEF Sent, SentBefore
        <3>3. \A x : x \in 1..Len(book) <=> x \in BookTs
            BY <2>1 DEF BookTs, Whole, BookWhole
        <3> QED
            BY <3>2, <3>3
    <2>3. ASSUME NEW f \in last_forming, NEW x \in 1..(f.ts - 1)
          PROVE  x \in BookTs \cup silent
        <3>1. f.ts \in Times
            BY <2>1, Built DEF FeedInv, FeedType
        <3>2. x \in Times /\ (x + 1 < f.ts \/ x + 1 = f.ts)
            BY <3>1 DEF Times
        <3> QED
            BY <2>1, <2>2, <3>2 DEF Whole, SlotDue
    <2>4. ASSUME pushes = <<>>, unconfirmed = {}
          PROVE  BookTs = 1..(forming.ts - 1)
        <3>1. forming.ts \in Times
            BY <2>1, Built DEF FeedInv, FeedType
        <3>2. ASSUME NEW x \in 1..(forming.ts - 1)
              PROVE  x \in BookTs
            <4>1. x \in Times /\ x < forming.ts
                BY <3>1 DEF Times
            <4>2. ~Queued(Len(pushes), 1, x)
                <5>1. Len(pushes) = 0 /\ 1..0 = {}
                    BY <2>4
                <5> QED
                    BY <5>1 DEF Queued
            <4> QED
                BY <2>1, <2>2, <2>4, <4>1, <4>2 DEF Whole, NextDue
        <3>3. ASSUME NEW x \in BookTs
              PROVE  x \in 1..(forming.ts - 1)
            <4>1. PICK i \in 1..Len(book) : x = book[i].ts
                BY <2>1 DEF BookTs
            <4>2. x = i /\ x < forming.ts
                BY <2>1, <4>1 DEF Whole, BookWhole, FeedInv, NotAhead
            <4> QED
                BY <2>1, <3>1, <4>2 DEF Times
        <3> QED
            BY <3>2, <3>3
    <2> QED
        BY <2>3, <2>4
<1> QED
    BY <1>1, WholeStart, WholeStep, PTL DEF OkxSpec
=============================================================================
