--------------------------- MODULE SignalPublisher ---------------------------
(***************************************************************************)
(* A signal's way out of herald: evaluate_and_publish puts it in a bounded   *)
(* channel without waiting, signal_publisher takes it out and hands it to a  *)
(* task of its own, of which only so many run at once, and the task          *)
(* publishes to the JetStream stream, trying three times.  An attempt whose  *)
(* acknowledgement is lost has stored the signal all the same.  Signals are  *)
(* numbered in the order they are emitted.                                   *)
(***************************************************************************)
EXTENDS Naturals, Sequences, Functions, FiniteSets, FiniteSetTheorems, TLAPS

CONSTANTS
    MaxSignals,     \* bound on signals emitted
    ChannelSize,    \* mpsc::channel(8192)
    MaxInFlight,    \* MAX_IN_FLIGHT_PUBLISHES
    MaxRetries      \* MAX_RETRIES

ASSUME PublisherAssumption ==
    /\ MaxSignals \in Nat
    /\ ChannelSize \in Nat \ {0} /\ MaxInFlight \in Nat \ {0} /\ MaxRetries \in Nat \ {0}

VARIABLES
    emitted,    \* signals emitted so far
    channel,    \* the bounded channel
    loop,       \* what signal_publisher received and has no permit for yet: <<>> or <<s>>
    flights,    \* the spawned tasks: signal -> attempts made
    stream,     \* the SIGNALS stream
    fate        \* per signal emitted: "on its way", "published", "error", "full" or "stale"

pubVars == <<emitted, channel, loop, flights, stream, fate>>

PublisherInit ==
    /\ emitted = 0
    /\ channel = <<>> /\ loop = <<>>
    /\ flights = <<>>
    /\ stream = <<>>
    /\ fate = <<>>

\* One signal of evaluate_and_publish: suppressed when its bar is stale, dropped
\* when the channel is full.
Emit ==
    /\ emitted < MaxSignals
    /\ emitted' = emitted + 1
    /\ \E stale \in BOOLEAN :
        IF stale \/ Len(channel) = ChannelSize
        THEN /\ channel' = channel
             /\ fate' = Append(fate, IF stale THEN "stale" ELSE "full")
        ELSE /\ channel' = Append(channel, emitted + 1)
             /\ fate' = Append(fate, "on its way")
    /\ UNCHANGED <<loop, flights, stream>>

\* rx.recv().
Receive ==
    /\ loop = <<>> /\ channel # <<>>
    /\ loop' = <<Head(channel)>>
    /\ channel' = Tail(channel)
    /\ UNCHANGED <<emitted, flights, stream, fate>>

\* With a permit the publish task is spawned, and holds it until it ends.
Spawn ==
    /\ loop # <<>> /\ Cardinality(DOMAIN flights) < MaxInFlight
    /\ flights' = [t \in DOMAIN flights \cup {loop[1]} |->
                    IF t = loop[1] THEN 0 ELSE flights[t]]
    /\ loop' = <<>>
    /\ UNCHANGED <<emitted, channel, stream, fate>>

Land(s) == flights' = [t \in DOMAIN flights \ {s} |-> flights[t]]

\* An attempt that is not acknowledged is repeated, up to MaxRetries of them.
Failed(s) ==
    IF flights[s] + 1 < MaxRetries
    THEN /\ flights' = [flights EXCEPT ![s] = @ + 1]
         /\ fate' = fate
    ELSE /\ Land(s)
         /\ fate' = [fate EXCEPT ![s] = "error"]

\* Mutant: a signal whose publish fails is forgotten without the error.
AttemptForgets(s) ==
    /\ s \in DOMAIN flights
    /\ \/ stream' = Append(stream, s) /\ Land(s) /\ fate' = [fate EXCEPT ![s] = "published"]
       \/ stream' = stream /\ Land(s) /\ fate' = fate
    /\ UNCHANGED <<emitted, channel, loop>>

\* One attempt of publish_signal_with_retry: acknowledged, refused, or stored
\* with its acknowledgement lost.
Attempt(s) ==
    /\ s \in DOMAIN flights
    /\ \/ stream' = Append(stream, s) /\ Land(s) /\ fate' = [fate EXCEPT ![s] = "published"]
       \/ stream' = stream /\ Failed(s)
       \/ stream' = Append(stream, s) /\ Failed(s)
    /\ UNCHANGED <<emitted, channel, loop>>

PublisherNext == Emit \/ Receive \/ Spawn \/ \E s \in 1..MaxSignals : Attempt(s)

\* The publisher's loop and its tasks run; a publish ends, if only by its
\* timeout.
PublisherFairness ==
    /\ WF_pubVars(Receive) /\ WF_pubVars(Spawn)
    /\ \A s \in 1..MaxSignals : WF_pubVars(Attempt(s))

PublisherSpec == PublisherInit /\ [][PublisherNext]_pubVars /\ PublisherFairness

-----------------------------------------------------------------------------
(* Properties                                                              *)

PublisherTypeOK ==
    /\ Len(fate) = emitted
    /\ Len(channel) <= ChannelSize
    /\ Range(channel) \cup Range(loop) \cup DOMAIN flights \subseteq 1..emitted

Stored(s) == Cardinality({i \in DOMAIN stream : stream[i] = s})

\* Every signal emitted is in exactly one place -- suppressed, dropped, queued,
\* being published, published or given up with an error -- and what the counters
\* call published is in the stream: a full channel, exhausted permits and
\* retries never lose one without a trace.
Accounted ==
    \A s \in 1..emitted :
        /\ (fate[s] = "on its way") <=> (s \in Range(channel) \cup Range(loop) \cup DOMAIN flights)
        /\ fate[s] = "published" => Stored(s) > 0
        /\ fate[s] \in {"full", "stale"} => Stored(s) = 0

\* However NATS misbehaves, a stalled server holds at most MaxInFlight tasks, and
\* a signal is stored at most MaxRetries times.
BoundedWork ==
    /\ Cardinality(DOMAIN flights) <= MaxInFlight
    /\ \A s \in 1..emitted : Stored(s) <= MaxRetries

\* A signal that is accepted is published or reported as given up.
Settles == \A s \in 1..MaxSignals : (s <= emitted) ~> (s <= emitted /\ fate[s] # "on its way")

\* "signal DROPPED after {MAX_RETRIES} publish attempts — trading bot will not
\* receive this signal".
DroppedIsDropped == \A s \in 1..emitted : fate[s] = "error" => Stored(s) = 0

\* Signals are accounted for and the work on them is bounded.
PublisherSound == PublisherTypeOK /\ Accounted /\ BoundedWork

-----------------------------------------------------------------------------
(* The proof: a channel, and the copies of a signal                        *)

\* What a channel holds once a signal is put in.
LEMMA PutIn ==
    ASSUME NEW s \in Seq(Nat), NEW e \in Nat, e \notin Range(s),
           \A i, j \in 1..Len(s) : s[i] = s[j] => i = j
    PROVE  /\ Append(s, e) \in Seq(Nat) /\ Len(Append(s, e)) = Len(s) + 1
           /\ Range(Append(s, e)) = Range(s) \cup {e}
           /\ \A i, j \in 1..Len(Append(s, e)) : Append(s, e)[i] = Append(s, e)[j] => i = j
<1>1. /\ Append(s, e) \in Seq(Nat) /\ Len(s) \in Nat /\ Len(Append(s, e)) = Len(s) + 1
      /\ DOMAIN s = 1..Len(s) /\ DOMAIN Append(s, e) = 1..(Len(s) + 1)
      /\ \A i \in 1..Len(s) : Append(s, e)[i] = s[i] /\ s[i] # e
      /\ Append(s, e)[Len(s) + 1] = e
    BY DEF Range
<1>2. \A i \in 1..(Len(s) + 1) : i \in 1..Len(s) \/ i = Len(s) + 1
    BY <1>1
<1>3. Range(Append(s, e)) = Range(s) \cup {e}
    BY <1>1, <1>2 DEF Range
<1> QED
    BY <1>1, <1>2, <1>3

\* What it holds once its first signal is taken out.
LEMMA TakenOut ==
    ASSUME NEW s \in Seq(Nat), s # <<>>,
           \A i, j \in 1..Len(s) : s[i] = s[j] => i = j
    PROVE  /\ Tail(s) \in Seq(Nat) /\ Len(Tail(s)) = Len(s) - 1 /\ Len(s) \in Nat
           /\ Head(s) \in Range(s) /\ Head(s) \in Nat
           /\ Range(Tail(s)) = Range(s) \ {Head(s)}
           /\ \A i, j \in 1..Len(Tail(s)) : Tail(s)[i] = Tail(s)[j] => i = j
<1>1. /\ Tail(s) \in Seq(Nat) /\ Len(s) \in Nat /\ Len(s) > 0 /\ Len(Tail(s)) = Len(s) - 1
      /\ Head(s) = s[1] /\ Head(s) \in Nat
      /\ DOMAIN s = 1..Len(s) /\ DOMAIN Tail(s) = 1..(Len(s) - 1)
      /\ \A i \in 1..(Len(s) - 1) : Tail(s)[i] = s[i + 1]
    OBVIOUS
<1>2. \A i \in 1..(Len(s) - 1) : i + 1 \in 1..Len(s) /\ i + 1 # 1
    BY <1>1
<1>3. \A i \in 1..Len(s) : i = 1 \/ (i - 1 \in 1..(Len(s) - 1) /\ (i - 1) + 1 = i)
    BY <1>1
<1>4. 1 \in 1..Len(s)
    BY <1>1
<1>5. Head(s) \in Range(s)
    BY <1>1, <1>4 DEF Range
<1>6. Range(Tail(s)) \subseteq Range(s) \ {Head(s)}
    BY <1>1, <1>2, <1>4 DEF Range
<1>7. Range(s) \ {Head(s)} \subseteq Range(Tail(s))
    <2>1. SUFFICES ASSUME NEW i \in 1..Len(s), s[i] # s[1]
                   PROVE  s[i] \in Range(Tail(s))
        BY <1>1 DEF Range
    <2>2. i - 1 \in 1..(Len(s) - 1) /\ Tail(s)[i - 1] = s[i]
        BY <1>1, <1>3, <2>1
    <2> QED
        BY <1>1, <2>2 DEF Range
<1>8. \A i, j \in 1..Len(Tail(s)) : Tail(s)[i] = Tail(s)[j] => i = j
    BY <1>1, <1>2
<1> QED
    BY <1>1, <1>5, <1>6, <1>7, <1>8

\* The places of a stream that hold a signal.
Copies(st, s) == {i \in DOMAIN st : st[i] = s}

\* One more signal is stored.
LEMMA OneMore ==
    ASSUME NEW st \in Seq(Nat), NEW e \in Nat, NEW s \in Nat
    PROVE  /\ Cardinality(Copies(st, s)) \in Nat
           /\ Cardinality(Copies(Append(st, e), s))
                = Cardinality(Copies(st, s)) + (IF s = e THEN 1 ELSE 0)
<1>1. /\ Len(st) \in Nat /\ DOMAIN st = 1..Len(st) /\ DOMAIN Append(st, e) = 1..(Len(st) + 1)
      /\ \A i \in 1..Len(st) : Append(st, e)[i] = st[i]
      /\ Append(st, e)[Len(st) + 1] = e
    OBVIOUS
<1>2. \A i \in 1..(Len(st) + 1) : i \in 1..Len(st) \/ i = Len(st) + 1
    BY <1>1
<1>3. IsFiniteSet(Copies(st, s)) /\ Len(st) + 1 \notin Copies(st, s)
    <2>1. IsFiniteSet(1..Len(st))
        BY <1>1, FS_Interval
    <2>2. Copies(st, s) \in SUBSET (1..Len(st))
        BY <1>1 DEF Copies
    <2> QED
        BY <1>1, <2>1, <2>2, FS_Subset
<1>4. Cardinality(Copies(st, s)) \in Nat
    BY <1>3, FS_CardinalityType
<1>5. CASE s = e
    <2>1. Copies(Append(st, e), s) = Copies(st, s) \cup {Len(st) + 1}
        BY <1>1, <1>2, <1>5 DEF Copies
    <2> QED
        BY <1>3, <1>4, <1>5, <2>1, FS_AddElement
<1>6. CASE s # e
    <2>1. Copies(Append(st, e), s) = Copies(st, s)
        BY <1>1, <1>2, <1>6 DEF Copies
    <2> QED
        BY <1>4, <1>6, <2>1
<1> QED
    BY <1>5, <1>6

-----------------------------------------------------------------------------
(* The proof: where a signal is                                            *)

InChannel == Range(channel)
Received == Range(loop)
Flying == DOMAIN flights
Carried == InChannel \cup Received \cup Flying

ChannelOK ==
    /\ channel \in Seq(Nat) /\ Len(channel) <= ChannelSize
    /\ \A i, j \in 1..Len(channel) : channel[i] = channel[j] => i = j

Fates == {"on its way", "published", "error", "full", "stale"}

FateType == fate \in Seq(Fates) /\ Len(fate) = emitted

PublisherType ==
    /\ emitted \in Nat
    /\ ChannelOK
    /\ loop = <<>> \/ \E x \in Nat : loop = <<x>>
    /\ \A t \in Flying : flights[t] \in Nat /\ flights[t] < MaxRetries
    /\ stream \in Seq(Nat)
    /\ FateType

\* A signal is carried in one place, once, and the tasks have their permits.
OnePlace ==
    /\ Carried \subseteq 1..emitted
    /\ InChannel \cap Received = {} /\ InChannel \cap Flying = {} /\ Received \cap Flying = {}
    /\ Cardinality(Flying) <= MaxInFlight

\* A signal not tried yet is not stored, and one that is being tried at most as
\* often as it was tried.
Tried ==
    /\ \A s \in Nat : s \notin 1..emitted => Stored(s) = 0
    /\ \A s \in InChannel \cup Received : Stored(s) = 0
    /\ \A s \in Flying : Stored(s) <= flights[s]
    /\ \A s \in Nat : Stored(s) <= MaxRetries

FateOK(s) ==
    /\ (fate[s] = "on its way") <=> (s \in Carried)
    /\ fate[s] = "published" => Stored(s) > 0
    /\ fate[s] \in {"full", "stale"} => Stored(s) = 0

PublisherInv == PublisherType /\ OnePlace /\ Tried /\ \A s \in 1..emitted : FateOK(s)

\* The number of copies in an unchanged stream, and in one with a signal more.
LEMMA StoredIs ==
    ASSUME PublisherType
    PROVE  /\ \A s \in Nat : Stored(s) \in Nat
           /\ stream' = stream => \A s \in Nat : Stored(s)' = Stored(s)
           /\ \A e \in Nat : stream' = Append(stream, e) =>
                  \A s \in Nat : Stored(s)' = Stored(s) + (IF s = e THEN 1 ELSE 0)
<1>1. \A s : Stored(s) = Cardinality(Copies(stream, s)) /\ Stored(s)' = Cardinality(Copies(stream', s))
    BY DEF Stored, Copies
<1>2. stream \in Seq(Nat)
    BY DEF PublisherType
<1>3. ASSUME NEW s \in Nat
      PROVE  Stored(s) \in Nat
    BY <1>1, <1>2, OneMore
<1>4. ASSUME NEW e \in Nat, stream' = Append(stream, e), NEW s \in Nat
      PROVE  Stored(s)' = Stored(s) + (IF s = e THEN 1 ELSE 0)
    BY <1>1, <1>2, <1>4, OneMore
<1>5. ASSUME stream' = stream, NEW s \in Nat
      PROVE  Stored(s)' = Stored(s)
    BY <1>1, <1>5
<1> QED
    BY <1>3, <1>4, <1>5

\* The tasks are finitely many.
LEMMA FlightsFinite ==
    ASSUME PublisherType, OnePlace
    PROVE  IsFiniteSet(Flying) /\ Cardinality(Flying) \in Nat
<1>1. IsFiniteSet(1..emitted)
    BY FS_Interval DEF PublisherType
<1>2. Flying \in SUBSET (1..emitted)
    BY DEF OnePlace, Carried
<1>3. IsFiniteSet(Flying)
    BY <1>1, <1>2, FS_Subset
<1> QED
    BY <1>3, FS_CardinalityType

\* A new signal has its fate, and the others keep theirs.
LEMMA FateAdded ==
    ASSUME FateType, emitted \in Nat, emitted' = emitted + 1,
           NEW f \in Fates, fate' = Append(fate, f)
    PROVE  FateType' /\ fate'[emitted + 1] = f /\ \A s \in 1..emitted : fate'[s] = fate[s]
<1>1. ASSUME NEW S, NEW q \in Seq(S), NEW e \in S
      PROVE  /\ Append(q, e) \in Seq(S) /\ Len(Append(q, e)) = Len(q) + 1
             /\ Append(q, e)[Len(q) + 1] = e /\ \A i \in 1..Len(q) : Append(q, e)[i] = q[i]
    OBVIOUS
<1> QED
    BY <1>1 DEF FateType

\* A signal is suppressed, dropped, or queued as a new one.
LEMMA Emitted ==
    ASSUME PublisherInv, Emit
    PROVE  PublisherInv'
<1>1. PublisherType /\ OnePlace /\ Tried /\ ChannelSize \in Nat
    BY PublisherAssumption DEF PublisherInv
<1>2. PICK n \in Nat : n = emitted + 1
    BY <1>1 DEF PublisherType
<1>3. emitted' = emitted + 1 /\ UNCHANGED <<loop, flights, stream>>
    BY DEF Emit
<1>4. /\ emitted \in Nat /\ emitted' = n /\ n \in 1..n /\ n \notin 1..emitted
      /\ \A s \in 1..n : s \in 1..emitted \/ s = n
      /\ \A s \in 1..emitted : s \in 1..n /\ s \in Nat
    BY <1>1, <1>2, <1>3 DEF PublisherType
<1>5. n \notin Carried
    BY <1>1, <1>4 DEF OnePlace
<1>6. PICK f \in Fates : /\ fate' = Append(fate, f)
                          /\ \/ f \in {"full", "stale"} /\ channel' = channel
                             \/ f = "on its way" /\ channel' = Append(channel, n)
                                  /\ Len(channel) # ChannelSize
    <2>1. PICK stale \in BOOLEAN :
              IF stale \/ Len(channel) = ChannelSize
              THEN channel' = channel /\ fate' = Append(fate, IF stale THEN "stale" ELSE "full")
              ELSE channel' = Append(channel, emitted + 1) /\ fate' = Append(fate, "on its way")
        BY DEF Emit
    <2>2. CASE stale
        <3>1. channel' = channel /\ fate' = Append(fate, "stale")
            BY <2>1, <2>2
        <3> QED
            BY <3>1 DEF Fates
    <2>3. CASE ~stale
        <3>1. CASE Len(channel) = ChannelSize
            <4>1. channel' = channel /\ fate' = Append(fate, "full")
                BY <2>1, <2>3, <3>1
            <4> QED
                BY <4>1 DEF Fates
        <3>2. CASE Len(channel) # ChannelSize
            <4>1. channel' = Append(channel, n) /\ fate' = Append(fate, "on its way")
                BY <1>2, <2>1, <2>3, <3>2
            <4> QED
                BY <3>2, <4>1 DEF Fates
        <3> QED
            BY <3>1, <3>2
    <2> QED
        BY <2>2, <2>3
<1>7. FateType' /\ fate'[n] = f /\ \A s \in 1..emitted : fate'[s] = fate[s]
    BY <1>1, <1>2, <1>3, <1>6, FateAdded DEF PublisherType
<1>8. ChannelOK' /\ InChannel' = InChannel \cup (IF f = "on its way" THEN {n} ELSE {})
    <2>1. CASE f = "on its way"
        <3>1. channel' = Append(channel, n) /\ Len(channel) # ChannelSize /\ n \notin Range(channel)
            BY <1>5, <1>6, <2>1 DEF Carried, InChannel
        <3>2. channel \in Seq(Nat) /\ Len(channel) \in Nat /\ Len(channel) <= ChannelSize
            BY <1>1 DEF PublisherType, ChannelOK
        <3>3. /\ channel' \in Seq(Nat) /\ Len(channel') = Len(channel) + 1
              /\ \A i, j \in 1..Len(channel') : channel'[i] = channel'[j] => i = j
              /\ Range(channel') = Range(channel) \cup {n}
            BY <1>1, <3>1, PutIn DEF PublisherType, ChannelOK
        <3>4. Len(channel') <= ChannelSize
            BY <1>1, <3>1, <3>2, <3>3
        <3>5. InChannel' = Range(channel')
            BY DEF InChannel, Range
        <3> QED
            BY <2>1, <3>3, <3>4, <3>5 DEF ChannelOK, InChannel
    <2>2. CASE f # "on its way"
        <3>1. channel' = channel
            BY <1>6, <2>2
        <3> QED
            BY <1>1, <2>2, <3>1 DEF PublisherType, ChannelOK, InChannel, Range
    <2> QED
        BY <2>1, <2>2
<1>9. Received' = Received /\ Flying' = Flying /\ flights' = flights
    BY <1>3 DEF Received, Flying, Range
<1>10. Carried' = Carried \cup (IF f = "on its way" THEN {n} ELSE {})
    BY <1>8, <1>9 DEF Carried
<1>11. \A s \in Nat : Stored(s) \in Nat /\ Stored(s)' = Stored(s)
    BY <1>1, <1>3, StoredIs
<1>12. Stored(n)' = 0
    BY <1>1, <1>4, <1>11 DEF Tried
<1>13. PublisherType'
    BY <1>1, <1>3, <1>4, <1>7, <1>8, <1>9 DEF PublisherType
<1>14. OnePlace'
    <2>1. Carried' \subseteq 1..emitted'
        BY <1>1, <1>4, <1>10 DEF OnePlace
    <2>2. InChannel' \cap Received' = {} /\ InChannel' \cap Flying' = {} /\ Received' \cap Flying' = {}
        BY <1>1, <1>5, <1>8, <1>9 DEF OnePlace, Carried
    <2>3. Cardinality(Flying)' <= MaxInFlight
        BY <1>1, <1>9 DEF OnePlace
    <2> QED
        BY <2>1, <2>2, <2>3 DEF OnePlace
<1>15. Tried'
    <2>1. \A s \in Carried : s \in Nat
        BY <1>1, <1>4 DEF OnePlace
    <2>2. \A s \in InChannel' \cup Received' : Stored(s)' = 0
        BY <1>1, <1>8, <1>9, <1>11, <1>12, <2>1 DEF Tried, Carried
    <2>3. \A s \in Flying' : Stored(s)' <= flights'[s]
        BY <1>1, <1>9, <1>11, <2>1 DEF Tried, Carried
    <2>4. \A s \in Nat : Stored(s)' <= MaxRetries /\ (s \notin 1..emitted' => Stored(s)' = 0)
        BY <1>1, <1>4, <1>11 DEF Tried
    <2> QED
        BY <2>2, <2>3, <2>4 DEF Tried
<1>16. ASSUME NEW s \in 1..emitted'
       PROVE  FateOK(s)'
    <2>1. CASE s = n
        BY <1>5, <1>6, <1>7, <1>10, <1>12, <2>1 DEF FateOK
    <2>2. CASE s \in 1..emitted /\ s # n
        <3>1. FateOK(s) /\ fate'[s] = fate[s]
            BY <1>7, <2>2 DEF PublisherInv
        <3>2. Stored(s)' = Stored(s) /\ (s \in Carried' <=> s \in Carried)
            BY <1>4, <1>10, <1>11, <2>2
        <3> QED
            BY <3>1, <3>2 DEF FateOK
    <2> QED
        BY <1>4, <2>1, <2>2
<1> QED
    BY <1>13, <1>14, <1>15, <1>16 DEF PublisherInv

\* A signal that moves on is carried still, and nothing happens to the others.
LEMMA Moves ==
    ASSUME PublisherInv, UNCHANGED <<emitted, stream, fate>>, PublisherType', OnePlace',
           Carried' = Carried, InChannel' \cup Received' \subseteq InChannel \cup Received,
           \A s \in Flying' : Stored(s) <= flights'[s]
    PROVE  PublisherInv'
<1>1. PublisherType /\ OnePlace /\ Tried
    BY DEF PublisherInv
<1>2. \A s \in Nat : Stored(s) \in Nat /\ Stored(s)' = Stored(s)
    BY <1>1, StoredIs
<1>3. \A s \in Carried : s \in Nat /\ s \in 1..emitted
    BY <1>1 DEF OnePlace, PublisherType
<1>4. Tried'
    <2>1. \A s \in InChannel' \cup Received' : Stored(s)' = 0
        BY <1>1, <1>2, <1>3 DEF Tried, Carried
    <2>2. \A s \in Flying' : Stored(s)' <= flights'[s]
        BY <1>2, <1>3 DEF Carried
    <2> QED
        BY <1>1, <1>2, <2>1, <2>2 DEF Tried
<1>5. ASSUME NEW s \in 1..emitted'
      PROVE  FateOK(s)'
    <2>1. FateOK(s) /\ s \in Nat
        BY <1>1, <1>5 DEF PublisherInv, PublisherType
    <2> QED
        BY <1>2, <2>1 DEF FateOK
<1> QED
    BY <1>4, <1>5 DEF PublisherInv

\* The publisher's loop receives the first signal of the channel.
LEMMA Receives ==
    ASSUME PublisherInv, Receive
    PROVE  PublisherInv'
<1>1. PublisherType /\ OnePlace /\ Tried /\ ChannelSize \in Nat
    BY PublisherAssumption DEF PublisherInv
<1>2. /\ loop = <<>> /\ channel # <<>> /\ loop' = <<Head(channel)>> /\ channel' = Tail(channel)
      /\ UNCHANGED <<emitted, flights, stream, fate>>
    BY DEF Receive
<1>3. PICK x : x = Head(channel)
    OBVIOUS
<1>4. /\ channel' \in Seq(Nat) /\ Len(channel') = Len(channel) - 1 /\ Len(channel) \in Nat
      /\ x \in Range(channel) /\ x \in Nat /\ Range(channel') = Range(channel) \ {x}
      /\ \A i, j \in 1..Len(channel') : channel'[i] = channel'[j] => i = j
    BY <1>1, <1>2, <1>3, TakenOut DEF PublisherType, ChannelOK
<1>5. ChannelOK'
    <2>1. Len(channel) <= ChannelSize
        BY <1>1 DEF PublisherType, ChannelOK
    <2>2. Len(channel') <= ChannelSize
        BY <1>1, <1>4, <2>1
    <2> QED
        BY <1>4, <2>2 DEF ChannelOK
<1>6. loop' = <<x>> /\ Received = {} /\ Received' = {x} /\ Flying' = Flying
    BY <1>2, <1>3 DEF Received, Flying, Range
<1>7. InChannel' = InChannel \ {x} /\ x \in InChannel
    <2>1. InChannel' = Range(channel') /\ InChannel = Range(channel)
        BY DEF InChannel, Range
    <2> QED
        BY <1>4, <2>1
<1>8. PublisherType'
    BY <1>1, <1>2, <1>4, <1>5, <1>6 DEF PublisherType, FateType
<1>9. Carried' = Carried /\ InChannel' \cup Received' \subseteq InChannel \cup Received
    BY <1>6, <1>7 DEF Carried
<1>10. OnePlace'
    BY <1>1, <1>2, <1>6, <1>7, <1>9 DEF OnePlace
<1>11. \A s \in Flying' : Stored(s) <= flights'[s]
    BY <1>1, <1>2, <1>6 DEF Tried
<1> QED
    BY <1>2, <1>8, <1>9, <1>10, <1>11, Moves

\* With a permit it is handed to a task, which has not tried yet.
LEMMA Spawns ==
    ASSUME PublisherInv, Spawn
    PROVE  PublisherInv'
<1>1. PublisherType /\ OnePlace /\ Tried /\ MaxInFlight \in Nat /\ MaxRetries \in Nat \ {0}
    BY PublisherAssumption DEF PublisherInv
<1>2. /\ loop # <<>> /\ loop' = <<>> /\ Cardinality(Flying) < MaxInFlight
      /\ flights' = [t \in Flying \cup {loop[1]} |-> IF t = loop[1] THEN 0 ELSE flights[t]]
      /\ UNCHANGED <<emitted, channel, stream, fate>>
    BY DEF Spawn, Flying
<1>3. PICK x \in Nat : loop = <<x>>
    BY <1>1, <1>2 DEF PublisherType
<1>4. loop[1] = x /\ Received = {x} /\ Received' = {}
    BY <1>2, <1>3 DEF Received, Range
<1>5. x \notin Flying /\ Stored(x) = 0
    BY <1>1, <1>4 DEF OnePlace, Tried
<1>6. /\ Flying' = Flying \cup {x} /\ flights'[x] = 0 /\ \A t \in Flying : flights'[t] = flights[t]
    BY <1>2, <1>4, <1>5 DEF Flying
<1>7. InChannel' = InChannel
    BY <1>2 DEF InChannel, Range
<1>8. PublisherType'
    <2>1. ChannelOK' /\ FateType'
        BY <1>1, <1>2 DEF PublisherType, ChannelOK, FateType
    <2>2. \A t \in Flying' : flights'[t] \in Nat /\ flights'[t] < MaxRetries
        BY <1>1, <1>6 DEF PublisherType
    <2> QED
        BY <1>1, <1>2, <2>1, <2>2 DEF PublisherType
<1>9. Carried' = Carried /\ InChannel' \cup Received' \subseteq InChannel \cup Received
    BY <1>4, <1>6, <1>7 DEF Carried
<1>10. Cardinality(Flying') <= MaxInFlight
    <2>1. IsFiniteSet(Flying) /\ Cardinality(Flying) \in Nat
        BY <1>1, FlightsFinite
    <2>2. Cardinality(Flying \cup {x}) = Cardinality(Flying) + 1
        BY <1>5, <2>1, FS_AddElement
    <2> QED
        BY <1>1, <1>2, <1>6, <2>1, <2>2
<1>11. OnePlace'
    <2>1. Cardinality(Flying)' = Cardinality(Flying')
        OBVIOUS
    <2> QED
        BY <1>1, <1>2, <1>4, <1>6, <1>7, <1>9, <1>10, <2>1 DEF OnePlace
<1>12. \A s \in Flying' : Stored(s) <= flights'[s]
    BY <1>1, <1>5, <1>6 DEF Tried
<1> QED
    BY <1>2, <1>8, <1>9, <1>11, <1>12, Moves

\* A task ends, with its signal stored or not: its permit is free, and its
\* signal is carried no more.
LEMMA Lands ==
    ASSUME PublisherInv, NEW s \in Flying, Land(s), UNCHANGED <<emitted, channel, loop>>,
           NEW f \in {"published", "error"}, fate' = [fate EXCEPT ![s] = f],
           stream' = Append(stream, s) \/ (stream' = stream /\ f = "error")
    PROVE  PublisherInv'
<1>1. PublisherType /\ OnePlace /\ Tried /\ MaxInFlight \in Nat /\ MaxRetries \in Nat \ {0}
    BY PublisherAssumption DEF PublisherInv
<1>2. /\ s \in 1..emitted /\ s \in Nat /\ emitted \in Nat /\ flights[s] \in Nat /\ flights[s] < MaxRetries
      /\ \A t \in Carried : t \in Nat /\ t \in 1..emitted
    BY <1>1 DEF OnePlace, Carried, PublisherType
<1>3. Flying' = Flying \ {s} /\ \A t \in Flying' : flights'[t] = flights[t]
    BY DEF Land, Flying
<1>4. InChannel' = InChannel /\ Received' = Received
    BY DEF InChannel, Received, Range
<1>5. Carried' = Carried \ {s} /\ s \in Carried
    BY <1>1, <1>3, <1>4 DEF Carried, OnePlace
<1>6. FateType' /\ fate'[s] = f /\ \A t \in 1..emitted : t # s => fate'[t] = fate[t]
    <2>1. fate \in Seq(Fates) /\ Len(fate) = emitted /\ f \in Fates
        BY <1>1 DEF PublisherType, FateType, Fates
    <2>2. fate' \in Seq(Fates) /\ Len(fate') = emitted
        BY <1>2, <2>1
    <2> QED
        BY <1>2, <2>1, <2>2 DEF FateType
<1>7. /\ \A t \in Nat : Stored(t) \in Nat
      /\ Stored(s)' \in Nat
      /\ \A t \in Nat : t # s => Stored(t)' = Stored(t)
      /\ Stored(s)' = Stored(s) + 1 \/ (Stored(s)' = Stored(s) /\ f = "error")
    <2>1. \A t \in Nat : Stored(t) \in Nat
        BY <1>1, StoredIs
    <2>2. CASE stream' = Append(stream, s)
        <3>1. \A t \in Nat : Stored(t)' = Stored(t) + (IF t = s THEN 1 ELSE 0)
            BY <1>1, <1>2, <2>2, StoredIs
        <3>2. Stored(s)' = Stored(s) + 1
            BY <1>2, <3>1
        <3>3. ASSUME NEW t \in Nat, t # s
              PROVE  Stored(t)' = Stored(t)
            <4>1. Stored(t)' = Stored(t) + 0 /\ Stored(t) \in Nat
                BY <2>1, <3>1, <3>3
            <4> QED
                BY <4>1
        <3>4. PICK a \in Nat : a = Stored(s)
            BY <1>2, <2>1
        <3>5. Stored(s)' = a + 1
            BY <3>2, <3>4
        <3>6. Stored(s)' \in Nat
            BY <3>5
        <3> QED
            BY <2>1, <3>2, <3>3, <3>6
    <2>3. CASE stream' = stream /\ f = "error"
        <3>1. \A t \in Nat : Stored(t)' = Stored(t)
            BY <1>1, <2>3, StoredIs
        <3> QED
            BY <1>2, <2>1, <2>3, <3>1
    <2> QED
        BY <2>2, <2>3
<1>8. stream' \in Seq(Nat)
    <2>1. stream \in Seq(Nat) /\ \A q \in Seq(Nat) : Append(q, s) \in Seq(Nat)
        BY <1>1, <1>2 DEF PublisherType
    <2> QED
        BY <2>1
<1>9. PublisherType'
    BY <1>1, <1>3, <1>6, <1>8 DEF PublisherType, ChannelOK
<1>10. Cardinality(Flying') <= MaxInFlight
    <2>1. IsFiniteSet(Flying) /\ Cardinality(Flying) \in Nat /\ Cardinality(Flying) <= MaxInFlight
        BY <1>1, FlightsFinite DEF OnePlace
    <2>2. Cardinality(Flying \ {s}) = Cardinality(Flying) - 1
        BY <2>1, FS_RemoveElement
    <2> QED
        BY <1>1, <1>3, <2>1, <2>2
<1>11. OnePlace'
    <2>1. Cardinality(Flying)' = Cardinality(Flying')
        OBVIOUS
    <2> QED
        BY <1>1, <1>3, <1>4, <1>5, <1>10, <2>1 DEF OnePlace
<1>12. Stored(s) < MaxRetries /\ Stored(s)' <= MaxRetries
    <2>1. Stored(s) <= flights[s]
        BY <1>1 DEF Tried
    <2>2. PICK a \in Nat, b \in Nat : a = Stored(s) /\ b = Stored(s)'
        BY <1>2, <1>7
    <2>3. b = a + 1 \/ b = a
        BY <1>7, <2>2
    <2>4. a <= flights[s]
        BY <2>1, <2>2
    <2>5. a < MaxRetries /\ b <= MaxRetries
        BY <1>1, <1>2, <2>3, <2>4
    <2> QED
        BY <2>2, <2>5
<1>13. Tried'
    <2>1. \A t \in InChannel' \cup Received' : t # s /\ Stored(t)' = 0
        BY <1>1, <1>2, <1>4, <1>7 DEF Tried, OnePlace, Carried
    <2>2. \A t \in Flying' : Stored(t)' <= flights'[t]
        <3>1. \A t \in Flying' : t \in Flying /\ t # s /\ t \in Nat
            BY <1>2, <1>3 DEF Carried
        <3>2. \A t \in Flying' : Stored(t)' = Stored(t) /\ Stored(t) <= flights[t]
            BY <1>1, <1>7, <3>1 DEF Tried
        <3> QED
            BY <1>3, <3>2
    <2>3. \A t \in Nat : Stored(t)' <= MaxRetries /\ (t \notin 1..emitted' => Stored(t)' = 0)
        BY <1>1, <1>2, <1>7, <1>12 DEF Tried
    <2> QED
        BY <2>1, <2>2, <2>3 DEF Tried
<1>14. ASSUME NEW t \in 1..emitted'
       PROVE  FateOK(t)'
    <2>1. CASE t = s
        <3>1. fate'[t] = f /\ t \notin Carried' /\ (f = "published" => Stored(t)' > 0)
            BY <1>2, <1>5, <1>6, <1>7, <2>1
        <3> QED
            BY <3>1 DEF FateOK
    <2>2. CASE t # s
        <3>1. FateOK(t) /\ t \in Nat /\ fate'[t] = fate[t]
            BY <1>2, <1>6, <1>14, <2>2 DEF PublisherInv
        <3>2. Stored(t)' = Stored(t) /\ (t \in Carried' <=> t \in Carried)
            BY <1>5, <1>7, <2>2, <3>1
        <3> QED
            BY <3>1, <3>2 DEF FateOK
    <2> QED
        BY <2>1, <2>2
<1> QED
    BY <1>9, <1>11, <1>13, <1>14 DEF PublisherInv

\* One more attempt of a task: its signal may have been stored once more.
LEMMA Retries ==
    ASSUME PublisherInv, NEW s \in Flying, flights[s] + 1 < MaxRetries,
           flights' = [flights EXCEPT ![s] = @ + 1], UNCHANGED <<emitted, channel, loop, fate>>,
           stream' = Append(stream, s) \/ stream' = stream
    PROVE  PublisherInv'
<1>1. PublisherType /\ OnePlace /\ Tried /\ MaxRetries \in Nat \ {0}
    BY PublisherAssumption DEF PublisherInv
<1>2. /\ s \in 1..emitted /\ s \in Nat /\ emitted \in Nat /\ flights[s] \in Nat
      /\ \A t \in Carried : t \in Nat /\ t \in 1..emitted
    BY <1>1 DEF OnePlace, Carried, PublisherType
<1>3. Flying' = Flying /\ flights'[s] = flights[s] + 1 /\ \A t \in Flying : t # s => flights'[t] = flights[t]
    BY DEF Flying
<1>4. InChannel' = InChannel /\ Received' = Received
    BY DEF InChannel, Received, Range
<1>5. Carried' = Carried
    BY <1>3, <1>4 DEF Carried
<1>6. /\ \A t \in Nat : Stored(t) \in Nat
      /\ \A t \in Nat : t # s => Stored(t)' = Stored(t)
      /\ Stored(s)' \in {Stored(s), Stored(s) + 1}
    <2>1. \A t \in Nat : Stored(t) \in Nat
        BY <1>1, StoredIs
    <2>2. CASE stream' = Append(stream, s)
        <3>1. \A t \in Nat : Stored(t)' = Stored(t) + (IF t = s THEN 1 ELSE 0)
            BY <1>1, <1>2, <2>2, StoredIs
        <3>2. Stored(s)' = Stored(s) + 1
            BY <1>2, <3>1
        <3>3. ASSUME NEW t \in Nat, t # s
              PROVE  Stored(t)' = Stored(t)
            <4>1. Stored(t)' = Stored(t) + 0 /\ Stored(t) \in Nat
                BY <2>1, <3>1, <3>3
            <4> QED
                BY <4>1
        <3> QED
            BY <2>1, <3>2, <3>3
    <2>3. CASE stream' = stream
        <3>1. \A t \in Nat : Stored(t)' = Stored(t)
            BY <1>1, <2>3, StoredIs
        <3> QED
            BY <1>2, <2>1, <3>1
    <2> QED
        BY <2>2, <2>3
<1>7. stream' \in Seq(Nat)
    <2>1. stream \in Seq(Nat) /\ \A q \in Seq(Nat) : Append(q, s) \in Seq(Nat)
        BY <1>1, <1>2 DEF PublisherType
    <2> QED
        BY <2>1
<1>8. \A t \in Flying' : flights'[t] \in Nat /\ flights'[t] < MaxRetries
    BY <1>1, <1>2, <1>3 DEF PublisherType
<1>9. PublisherType'
    BY <1>1, <1>7, <1>8 DEF PublisherType, ChannelOK, FateType
<1>10. OnePlace'
    <2>1. Cardinality(Flying)' = Cardinality(Flying')
        OBVIOUS
    <2> QED
        BY <1>1, <1>3, <1>4, <1>5, <2>1 DEF OnePlace
<1>11. Stored(s)' <= flights'[s] /\ Stored(s)' <= MaxRetries
    <2>1. Stored(s) <= flights[s]
        BY <1>1 DEF Tried
    <2>2. PICK a \in Nat, b \in Nat : a = Stored(s) /\ b = Stored(s)'
        BY <1>2, <1>6
    <2>3. b = a + 1 \/ b = a
        BY <1>6, <2>2
    <2> QED
        BY <1>1, <1>2, <1>3, <2>1, <2>2, <2>3
<1>12. Tried'
    <2>1. \A t \in InChannel' \cup Received' : Stored(t)' = 0
        BY <1>1, <1>2, <1>4, <1>6 DEF Tried, OnePlace, Carried
    <2>2. \A t \in Flying' : Stored(t)' <= flights'[t]
        BY <1>1, <1>2, <1>3, <1>6, <1>11 DEF Tried, Carried
    <2>3. \A t \in Nat : Stored(t)' <= MaxRetries /\ (t \notin 1..emitted' => Stored(t)' = 0)
        BY <1>1, <1>2, <1>6, <1>11 DEF Tried
    <2> QED
        BY <2>1, <2>2, <2>3 DEF Tried
<1>13. ASSUME NEW t \in 1..emitted'
       PROVE  FateOK(t)'
    <2>1. FateOK(t) /\ t \in Nat /\ fate'[t] = fate[t]
        BY <1>2, <1>13 DEF PublisherInv
    <2>2. CASE t = s
        <3>1. fate[t] = "on its way" /\ t \in Carried'
            BY <1>5, <2>1, <2>2 DEF FateOK, Carried
        <3> QED
            BY <2>1, <3>1 DEF FateOK
    <2>3. CASE t # s
        <3>1. Stored(t)' = Stored(t)
            BY <1>6, <2>1, <2>3
        <3> QED
            BY <1>5, <2>1, <3>1 DEF FateOK
    <2> QED
        BY <2>2, <2>3
<1> QED
    BY <1>9, <1>10, <1>12, <1>13 DEF PublisherInv

\* Every step of the publisher.
LEMMA PublisherStep ==
    ASSUME PublisherInv, [PublisherNext]_pubVars
    PROVE  PublisherInv'
<1>1. ASSUME NEW s \in 1..MaxSignals, Attempt(s)
      PROVE  PublisherInv'
    <2>1. s \in Flying /\ UNCHANGED <<emitted, channel, loop>>
        BY <1>1 DEF Attempt, Flying
    <2>2. CASE stream' = Append(stream, s) /\ Land(s) /\ fate' = [fate EXCEPT ![s] = "published"]
        BY <2>1, <2>2, Lands
    <2>3. CASE (stream' = stream \/ stream' = Append(stream, s)) /\ Failed(s)
        <3>1. CASE flights[s] + 1 < MaxRetries
            <4>1. flights' = [flights EXCEPT ![s] = @ + 1] /\ fate' = fate
                BY <2>3, <3>1 DEF Failed
            <4> QED
                BY <2>1, <2>3, <3>1, <4>1, Retries
        <3>2. CASE ~(flights[s] + 1 < MaxRetries)
            <4>1. Land(s) /\ fate' = [fate EXCEPT ![s] = "error"]
                BY <2>3, <3>2 DEF Failed
            <4> QED
                BY <2>1, <2>3, <4>1, Lands
        <3> QED
            BY <3>1, <3>2
    <2> QED
        BY <1>1, <2>2, <2>3 DEF Attempt
<1>2. CASE UNCHANGED pubVars
    <2>1. UNCHANGED <<emitted, channel, loop, flights, stream, fate>>
        BY <1>2 DEF pubVars
    <2>2. InChannel' = InChannel /\ Received' = Received /\ Flying' = Flying /\ Carried' = Carried
        BY <2>1 DEF InChannel, Received, Flying, Carried, Range
    <2>3. Cardinality(Flying)' = Cardinality(Flying')
        OBVIOUS
    <2>4. PublisherType' /\ OnePlace'
        BY <2>1, <2>2, <2>3 DEF PublisherInv, PublisherType, ChannelOK, FateType, OnePlace
    <2>5. \A s \in Flying' : Stored(s) <= flights'[s]
        BY <2>1, <2>2 DEF PublisherInv, Tried
    <2> QED
        BY <2>1, <2>2, <2>4, <2>5, Moves
<1> QED
    BY <1>1, <1>2, Emitted, Receives, Spawns DEF PublisherNext

\* Nothing is emitted yet.
LEMMA PublisherStart ==
    ASSUME PublisherInit
    PROVE  PublisherInv
<1>1. emitted = 0 /\ channel = <<>> /\ loop = <<>> /\ flights = <<>> /\ stream = <<>> /\ fate = <<>>
    BY DEF PublisherInit
<1>2. /\ InChannel = {} /\ Received = {} /\ Flying = {} /\ Carried = {} /\ 1..0 = {}
      /\ Cardinality(Flying) = 0
    <2>1. InChannel = {} /\ Received = {} /\ Flying = {}
        BY <1>1 DEF InChannel, Received, Flying, Range
    <2> QED
        BY <2>1, FS_EmptySet DEF Carried
<1>3. \A s : Stored(s) = 0
    <2>1. \A s : {i \in DOMAIN stream : stream[i] = s} = {}
        BY <1>1
    <2> QED
        BY <2>1, FS_EmptySet DEF Stored
<1>4. PublisherType /\ OnePlace /\ Tried
    <2>1. ChannelOK /\ FateType
        BY <1>1, PublisherAssumption DEF ChannelOK, FateType
    <2>2. PublisherType
        BY <1>1, <1>2, <2>1 DEF PublisherType
    <2>3. OnePlace
        BY <1>2, PublisherAssumption DEF OnePlace
    <2> QED
        BY <1>2, <1>3, <2>2, <2>3, PublisherAssumption DEF Tried
<1> QED
    BY <1>1, <1>2, <1>4 DEF PublisherInv

\* Through a full channel, exhausted permits, refused attempts and lost
\* acknowledgements, for every size of the channel, number of permits and of
\* retries: every signal emitted is in exactly one place, what is called published
\* is stored, and neither the tasks nor the copies of a signal exceed their bound.
THEOREM SignalsAccounted == PublisherSpec => []PublisherSound
<1>1. PublisherInit => PublisherInv
    BY PublisherStart
<1>2. PublisherInv /\ [PublisherNext]_pubVars => PublisherInv'
    BY PublisherStep
<1>3. ASSUME PublisherInv PROVE PublisherSound
    <2>1. PublisherType /\ OnePlace /\ Tried /\ \A s \in 1..emitted : FateOK(s) /\ s \in Nat
        BY <1>3 DEF PublisherInv, PublisherType
    <2>2. Carried = Range(channel) \cup Range(loop) \cup DOMAIN flights
        BY DEF Carried, InChannel, Received, Flying
    <2>3. PublisherTypeOK
        BY <2>1, <2>2 DEF PublisherTypeOK, PublisherType, ChannelOK, FateType, OnePlace
    <2>4. Accounted
        BY <2>1, <2>2 DEF Accounted, FateOK
    <2>5. BoundedWork
        BY <2>1 DEF BoundedWork, OnePlace, Tried, Flying
    <2> QED
        BY <2>3, <2>4, <2>5 DEF PublisherSound
<1> QED
    BY <1>1, <1>2, <1>3, PTL DEF PublisherSpec
=============================================================================
