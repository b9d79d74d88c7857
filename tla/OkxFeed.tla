------------------------------ MODULE OkxFeed ------------------------------
(***************************************************************************)
(* The OKX candle feed of one symbol on the base timeframe: the exchange     *)
(* pushes the forming bar with every trade and confirms it after the next    *)
(* one has begun; the feed closes a bar itself as soon as it sees a newer    *)
(* one form, and sends what is closed to the task that feeds the ledger.     *)
(* A bar is [ts, rev]: when it opens and how many of its trades are in it;   *)
(* the exchange confirms it with all its Trades.                             *)
(***************************************************************************)
EXTENDS Naturals, Sequences

CONSTANTS
    MaxBars,        \* bound on bars the exchange opens
    Trades,         \* the trades of a bar, the late ones included
    MaxDrops        \* bound on lost connections

ASSUME OkxAssumption == MaxBars \in Nat \ {0} /\ Trades \in Nat \ {0} /\ MaxDrops \in Nat

VARIABLES
    forming,        \* the bar forming at the exchange
    unconfirmed,    \* {} or {ts}: the bar that is over and not confirmed yet
    link,           \* "up"; "down"; "filling" while the gap-fill is under way
    gap,            \* the bars it has still to advance: <<first, one after the last>>
    pushes,         \* rows pushed and not read yet
    last_forming,   \* the feed's slot: {} or {bar}
    events,         \* the bar channel: closed bars on their way to the ledger
    book,           \* the ledger's bars
    drops,          \* bound
    silent          \* ghost: the bars that ended without a trade

okxVars == <<forming, unconfirmed, link, gap, pushes, last_forming, events, book, drops, silent>>
exchange == <<forming, unconfirmed, silent>>

OkxBar(ts, rev) == [ts |-> ts, rev |-> rev]
Row(bar, confirm) == [bar |-> bar, confirm |-> confirm]

OkxInit ==
    /\ forming = OkxBar(1, 0)
    /\ unconfirmed = {} /\ silent = {}
    /\ link = "up" /\ gap = <<1, 1>>
    /\ pushes = <<>> /\ events = <<>>
    /\ last_forming = {} /\ book = <<>>
    /\ drops = 0

-----------------------------------------------------------------------------
(* The exchange                                                            *)

Push(row) == pushes' = IF link = "up" THEN Append(pushes, row) ELSE pushes

\* A trade: the forming bar is pushed.
Trade ==
    /\ forming.rev < Trades
    /\ forming' = [forming EXCEPT !.rev = @ + 1]
    /\ Push(Row(forming', 0))
    /\ UNCHANGED <<unconfirmed, silent, link, gap, last_forming, events, book, drops>>

\* The period is over.  The confirmation comes within half a period.
Roll ==
    /\ forming.ts < MaxBars /\ unconfirmed = {}
    /\ forming' = OkxBar(forming.ts + 1, 0)
    /\ unconfirmed' = {forming.ts}
    /\ silent' = IF forming.rev = 0 THEN silent \cup {forming.ts} ELSE silent
    /\ UNCHANGED <<link, gap, pushes, last_forming, events, book, drops>>

\* confirm=1.
Confirm ==
    /\ \E ts \in unconfirmed : Push(Row(OkxBar(ts, Trades), 1))
    /\ unconfirmed' = {}
    /\ UNCHANGED <<forming, silent, link, gap, last_forming, events, book, drops>>

-----------------------------------------------------------------------------
(* The feed                                                                *)

Handled(send, slot) ==
    /\ pushes' = Tail(pushes)
    /\ events' = events \o send
    /\ last_forming' = slot
    /\ UNCHANGED <<exchange, link, gap, book, drops>>

SameBar(row) == {f \in last_forming : f.ts = row.bar.ts}
Older(row) == {f \in last_forming : f.ts < row.bar.ts}

\* Mutant: a confirmation is taken for granted once bars are closed by their
\* successors.
HandlePushNoConfirm ==
    /\ pushes # <<>>
    /\ LET row == Head(pushes)
       IN  \/ row.confirm = 1 /\ Handled(<<>>, last_forming \ SameBar(row))
           \/ row.confirm = 0 /\ Older(row) = {} /\ Handled(<<>>, {row.bar})
           \/ row.confirm = 0 /\ \E f \in Older(row) : Handled(<<f>>, {row.bar})

\* Mutant: any later push of a bar closes it.
HandlePushEager ==
    /\ pushes # <<>>
    /\ LET row == Head(pushes)
       IN  \/ row.confirm = 1 /\ Handled(<<row.bar>>, last_forming \ SameBar(row))
           \/ row.confirm = 0 /\ last_forming = {} /\ Handled(<<>>, {row.bar})
           \/ row.confirm = 0 /\ \E f \in last_forming : Handled(<<f>>, {row.bar})

\* handle_push of one row.  A confirmed bar is sent on, and clears the slot if it
\* is the one there.  A forming bar newer than the slot's sends that one, and
\* takes its place in any case.
Handle_push ==
    /\ pushes # <<>>
    /\ LET row == Head(pushes)
       IN  \/ row.confirm = 1 /\ Handled(<<row.bar>>, last_forming \ SameBar(row))
           \/ row.confirm = 0 /\ Older(row) = {} /\ Handled(<<>>, {row.bar})
           \/ row.confirm = 0 /\ \E f \in Older(row) : Handled(<<f>>, {row.bar})

\* Ledger::advance takes what is newer than its last bar.
Ingest(b, bar) == IF b = <<>> \/ bar.ts > b[Len(b)].ts THEN Append(b, bar) ELSE b

\* The task at the other end of the bar channel.
Deliver ==
    /\ events # <<>>
    /\ events' = Tail(events)
    /\ book' = Ingest(book, Head(events))
    /\ UNCHANGED <<exchange, link, gap, pushes, last_forming, drops>>

\* run_once fails (a read timeout, a close frame, a failed ping): what was pushed
\* and not read is gone; the slot survives.
Drop ==
    /\ link = "up" /\ drops < MaxDrops
    /\ drops' = drops + 1
    /\ link' = "down"
    /\ pushes' = <<>>
    /\ UNCHANGED <<exchange, gap, last_forming, events, book>>

\* spawn, after the pause: the gap-fill asks for what is over and newer than the
\* ledger's last bar, and gets nothing if the request fails.
AskRest ==
    /\ link = "down"
    /\ link' = "filling"
    /\ \/ gap' = <<IF book = <<>> THEN 1 ELSE book[Len(book)].ts + 1, forming.ts>>
       \/ gap' = <<1, 1>>
    /\ UNCHANGED <<exchange, pushes, last_forming, events, book, drops>>

\* advance_bars: the bars of the answer one by one, next to the other task.
FillGap ==
    /\ link = "filling" /\ gap[1] < gap[2]
    /\ book' = Ingest(book, OkxBar(gap[1], Trades))
    /\ gap' = <<gap[1] + 1, gap[2]>>
    /\ UNCHANGED <<exchange, link, pushes, last_forming, events, drops>>

\* run_once connects.
Reconnect ==
    /\ link = "filling" /\ gap[1] >= gap[2]
    /\ link' = "up"
    /\ UNCHANGED <<exchange, gap, pushes, last_forming, events, book, drops>>

OkxNext ==
    \/ Trade \/ Roll \/ Confirm
    \/ Handle_push \/ Deliver \/ Drop \/ AskRest \/ FillGap \/ Reconnect

OkxSpec == OkxInit /\ [][OkxNext]_okxVars

-----------------------------------------------------------------------------
(* Properties                                                              *)

BookTs == {book[i].ts : i \in DOMAIN book}

OkxTypeOK ==
    /\ forming.ts \in 1..MaxBars /\ forming.rev \in 0..Trades
    /\ link \in {"up", "down", "filling"}
    /\ \A f \in last_forming : f.ts <= forming.ts
    /\ \A f, g \in last_forming : f = g
    /\ drops \in 0..MaxDrops

\* No bar that still forms at the exchange is ever sent as closed, by the push
\* that follows it, by its confirmation or by the gap-fill, over any number of
\* reconnections.
ClosedIsClosed ==
    /\ \A i \in DOMAIN book : book[i].ts < forming.ts
    /\ \A i \in DOMAIN events : events[i].ts < forming.ts

\* While the connection holds, a bar that traded is closed as soon as a newer one
\* is seen to form: its confirmation, half a minute later, is not waited for.
Prompt ==
    drops = 0 /\ events = <<>> =>
        \A f \in last_forming : 1..(f.ts - 1) \subseteq BookTs \cup silent

\* While the connection holds nothing is lost, bars without a trade included:
\* what is confirmed and delivered is the whole of what is over.
Complete ==
    drops = 0 /\ pushes = <<>> /\ events = <<>> /\ unconfirmed = {} =>
        BookTs = 1..(forming.ts - 1)

\* A bar the feed closes is "definitively closed": it has the trades the exchange
\* confirms it with.
Definitive == \A i \in DOMAIN book : book[i].rev = Trades

\* The feed sends on closed bars only, and holds at most one that forms.
OnlyClosedBars == OkxTypeOK /\ ClosedIsClosed

\* While the connection holds every bar comes, and at once.
NothingMissed == Prompt /\ Complete
=============================================================================
