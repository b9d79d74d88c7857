------------------------ MODULE StrategyStoreProofs -------------------------
(***************************************************************************)
(* The strategy table is sound for any number of users, names and racing    *)
(* requests, on either backend.                                             *)
(***************************************************************************)
EXTENDS StrategyStore, WellFoundedInduction, TLAPS

\* A bounded set of numbers has a greatest one: what MAX(version) returns.
LEMMA Greatest ==
    ASSUME NEW S \in SUBSET Int, S # {}, NEW b \in Int, \A s \in S : s <= b
    PROVE  Max(S) \in S /\ \A s \in S : s <= Max(S)
<1>1. PICK e \in S : e \in Int
    OBVIOUS
<1> DEFINE Bounds == {d \in Nat : \A s \in S : s <= e + d}
<1>2. Bounds \in SUBSET Nat /\ Bounds # {}
    <2>1. b - e \in Nat /\ \A s \in S : s <= e + (b - e)
        BY <1>1
    <2> QED
        BY <2>1 DEF Bounds
<1>3. PICK d \in Bounds : \A k \in Bounds : ~(<<k, d>> \in OpToRel(<, Nat))
    BY <1>2, NatLessThanWellFounded, WFMin
<1>4. d \in Nat /\ \A s \in S : s <= e + d
    BY DEF Bounds
<1>5. e + d \in S
    <2>1. SUFFICES ASSUME e + d \notin S PROVE FALSE
        OBVIOUS
    <2>2. d - 1 \in Nat /\ \A s \in S : s <= e + (d - 1)
        BY <1>1, <1>4, <2>1
    <2>3. d - 1 \in Bounds
        BY <2>2 DEF Bounds
    <2>4. <<d - 1, d>> \in OpToRel(<, Nat)
        BY <1>4, <2>2 DEF OpToRel
    <2> QED
        BY <1>3, <2>3, <2>4
<1>6. \E x \in S : \A y \in S : x >= y
    BY <1>1, <1>4, <1>5
<1>7. Max(S) \in S /\ \A y \in S : Max(S) >= y
    BY <1>6 DEF Max
<1> QED
    BY <1>7

-----------------------------------------------------------------------------
(* The invariant                                                           *)

Edits == {"newest", "number", "check", "insert"}
EditFormat == [id : Nat, at : Edits, op : {"create", "upsert"}, name : Names, version : I32, previous : SUBSET Nat]
UpdateFormat == [id : Nat, at : {"read", "write"}, op : {"update"}, row : Nat,
                 fields : SUBSET {"label", "notes"}, label : {0, 1}, notes : {0, 1}]
FindFormat == [id : Nat, at : {"find"}, op : {"delete"}, row : Nat]
SweepFormat == [id : Nat, at : {"sweep"}, op : {"delete"}, name : Names]
CallFormat == {NoCall} \cup EditFormat \cup UpdateFormat \cup FindFormat \cup SweepFormat

RowFormat == [id : Nat, name : Names, version : I32, previous : SUBSET Nat, owner : Users,
              op : {"create", "upsert"}, label : {0, 1}, notes : {0, 1}]

StoreFormat ==
    /\ backend \in Backends
    /\ made \in Nat /\ made <= MaxCalls
    /\ rows \subseteq RowFormat
    /\ calls \in [Users -> CallFormat]

\* Ids are those of past requests and never used twice.
RowsOK ==
    /\ \A r \in rows :
         /\ r.id # 0 /\ r.id <= made
         /\ \A x \in r.previous : x <= made /\ \A y \in r.previous : x = y
    /\ \A r, s \in rows : r.id = s.id => r = s

\* A number that next_version found over another one: above it, or wrapped around.
Above(v, w) == w < v \/ v = MinVersion

Editing(u) == calls[u].at \in Edits

\* A request that is going to create a row: nothing refers to its id before it
\* is there, and the version an upsert is saved over has its name and, once the
\* number is read, one that this number is above.
EditOK(u, c, m) ==
    /\ c.id # 0 /\ c.id <= m
    /\ \A x \in c.previous : x <= m /\ x # c.id /\ \A y \in c.previous : x = y
    /\ c.at = "check" => c.op = "create"
    /\ \A r \in rows : r.id # c.id /\ c.id \notin r.previous
    /\ \A v \in Users : v # u /\ Editing(v) =>
          calls[v].id # c.id /\ c.id \notin calls[v].previous /\ calls[v].id \notin c.previous
    /\ \A p \in rows : c.op = "upsert" /\ c.previous = {p.id} =>
          p.name = c.name /\ (c.at = "insert" => Above(c.version, p.version))

CallsOK ==
    \A u \in Users :
        /\ Editing(u) => EditOK(u, calls[u], made)
        /\ calls[u].at = "sweep" => backend = "mem"

StoreInv == StoreFormat /\ RowsOK /\ CallsOK /\ TableIntegrity /\ PreviousIsOlder

\* The stage of a request tells what it carries.
LEMMA Stages ==
    ASSUME NEW c \in CallFormat
    PROVE  /\ c.at \in Edits => c \in EditFormat
           /\ c.at \in {"read", "write"} => c \in UpdateFormat
           /\ c.at = "find" => c \in FindFormat
           /\ c.at = "sweep" => c \in SweepFormat
<1>1. CASE c = NoCall
    BY <1>1 DEF NoCall, Edits
<1>2. CASE c \in EditFormat
    <2>1. c.at \in Edits
        BY <1>2 DEF EditFormat
    <2> QED
        BY <1>2, <2>1 DEF Edits
<1>3. CASE c \in UpdateFormat
    <2>1. c.at \in {"read", "write"}
        BY <1>3 DEF UpdateFormat
    <2> QED
        BY <1>3, <2>1 DEF Edits
<1>4. CASE c \in FindFormat
    <2>1. c.at = "find"
        BY <1>4 DEF FindFormat
    <2> QED
        BY <1>4, <2>1 DEF Edits
<1>5. CASE c \in SweepFormat
    <2>1. c.at = "sweep"
        BY <1>5 DEF SweepFormat
    <2> QED
        BY <1>5, <2>1 DEF Edits
<1> QED
    BY <1>1, <1>2, <1>3, <1>4, <1>5 DEF CallFormat

\* A request goes on and the rows stay: what is to show is its own next stage.
LEMMA CallMoves ==
    ASSUME StoreInv, NEW u \in Users, NEW c \in CallFormat, NEW m \in Nat,
           calls' = [calls EXCEPT ![u] = c], made' = m, made <= m, m <= MaxCalls,
           UNCHANGED <<backend, rows>>,
           c.at \in Edits => EditOK(u, c, m),
           c.at = "sweep" => backend = "mem"
    PROVE  StoreInv'
<1>1. /\ calls \in [Users -> CallFormat] /\ made \in Nat
      /\ calls'[u] = c /\ \A v \in Users : v # u => calls'[v] = calls[v]
    BY DEF StoreInv, StoreFormat
<1>2. StoreFormat'
    BY DEF StoreInv, StoreFormat
<1>3. RowsOK'
    <2>1. \A r \in rows : r.id \in Nat /\ r.previous \subseteq Nat
        BY DEF StoreInv, StoreFormat, RowFormat
    <2>2. \A x \in Nat : x <= made => x <= m
        BY <1>1
    <2>3. \A r \in rows :
            /\ r.id # 0 /\ r.id <= m
            /\ \A x \in r.previous : x <= m /\ \A y \in r.previous : x = y
        BY <2>1, <2>2 DEF StoreInv, RowsOK
    <2> QED
        BY <2>3 DEF StoreInv, RowsOK
<1>4. CallsOK'
    <2>1. ASSUME NEW v \in Users, v # u, calls[v].at \in Edits
          PROVE  EditOK(v, calls[v], made)'
        <3>1. PICK d \in EditFormat : d = calls[v] /\ d = calls'[v]
            BY <1>1, <2>1, Stages
        <3>2. EditOK(v, d, made)
            BY <2>1, <3>1 DEF StoreInv, CallsOK, Editing
        <3>3. d.id \in Nat /\ d.previous \subseteq Nat
            BY DEF EditFormat
        <3>4. d.id <= m /\ \A x \in d.previous : x <= m
            BY <1>1, <3>2, <3>3 DEF EditOK
        <3>5. ASSUME NEW w \in Users, w # v, Editing(w)'
              PROVE  calls'[w].id # d.id /\ d.id \notin calls'[w].previous /\ calls'[w].id \notin d.previous
            <4>1. CASE w = u
                <5>1. EditOK(u, c, m) /\ calls'[w] = c
                    BY <1>1, <3>5, <4>1 DEF Editing
                <5> QED
                    BY <2>1, <3>1, <5>1 DEF EditOK, Editing
            <4>2. CASE w # u
                <5>1. calls'[w] = calls[w] /\ Editing(w)
                    BY <1>1, <3>5, <4>2 DEF Editing
                <5> QED
                    BY <3>2, <3>5, <5>1 DEF EditOK
            <4> QED
                BY <4>1, <4>2
        <3>6. EditOK(v, d, m)'
            BY <3>2, <3>4, <3>5 DEF EditOK
        <3> QED
            BY <3>1, <3>6 DEF EditOK, Editing
    <2>2. ASSUME c.at \in Edits
          PROVE  EditOK(u, calls[u], made)'
        <3>1. EditOK(u, c, m)
            BY <2>2
        <3>2. \A v \in Users : v # u => (Editing(v)' <=> Editing(v)) /\ calls'[v] = calls[v]
            BY <1>1 DEF Editing
        <3>3. EditOK(u, c, m)'
            BY <3>1, <3>2 DEF EditOK
        <3> QED
            BY <1>1, <3>3 DEF EditOK, Editing
    <2>3. \A v \in Users : Editing(v)' => EditOK(v, calls[v], made)'
        BY <1>1, <2>1, <2>2 DEF Editing
    <2>4. \A v \in Users : calls'[v].at = "sweep" => backend' = "mem"
        BY <1>1 DEF StoreInv, CallsOK
    <2> QED
        BY <2>3, <2>4 DEF CallsOK
<1>5. TableIntegrity' /\ PreviousIsOlder'
    BY DEF StoreInv, TableIntegrity, PreviousIsOlder, Ids
<1> QED
    BY <1>2, <1>3, <1>4, <1>5 DEF StoreInv

\* The same strategy, whatever its label and notes.
Alike(r, s) ==
    /\ r.id = s.id /\ r.name = s.name /\ r.version = s.version
    /\ r.previous = s.previous /\ r.owner = s.owner /\ r.op = s.op

SameId == \A r \in rows, s \in rows' : r.id = s.id => Identity(r) = Identity(s)

\* The last stage of a request that deletes rows or rewrites labels.
LEMMA RowsRewritten ==
    ASSUME StoreInv, NEW u \in Users, calls' = [calls EXCEPT ![u] = NoCall], UNCHANGED <<backend, made>>,
           rows' \subseteq RowFormat,
           \A s \in rows' : \E r \in rows : Alike(r, s),
           \A s, t \in rows' : s.id = t.id => s = t,
           backend = "pg" => \A s \in rows' : \A x \in s.previous : \E t \in rows' : t.id = x
    PROVE  StoreInv' /\ SameId
<1>1. /\ calls \in [Users -> CallFormat]
      /\ calls'[u] = NoCall /\ \A v \in Users : v # u => calls'[v] = calls[v]
    BY DEF StoreInv, StoreFormat
<1>2. NoCall \in CallFormat /\ NoCall.at \notin Edits /\ NoCall.at # "sweep"
    BY DEF CallFormat, NoCall, Edits
<1>3. StoreFormat'
    BY <1>1, <1>2 DEF StoreInv, StoreFormat
<1>4. RowsOK'
    <2>1. \A s \in rows' :
            /\ s.id # 0 /\ s.id <= made
            /\ \A x \in s.previous : x <= made /\ \A y \in s.previous : x = y
        BY DEF StoreInv, RowsOK, Alike
    <2> QED
        BY <2>1 DEF RowsOK
<1>5. CallsOK'
    <2>1. ASSUME NEW v \in Users, Editing(v)'
          PROVE  EditOK(v, calls[v], made)'
        <3>1. v # u /\ calls'[v] = calls[v] /\ Editing(v)
            BY <1>1, <1>2, <2>1 DEF Editing
        <3>2. PICK d \in EditFormat : d = calls[v]
            BY <1>1, <3>1, Stages DEF Editing
        <3>3. EditOK(v, d, made)
            BY <3>1, <3>2 DEF StoreInv, CallsOK
        <3>4. \A w \in Users : Editing(w)' => Editing(w) /\ calls'[w] = calls[w]
            BY <1>1, <1>2 DEF Editing
        <3>5. \A r \in rows' : r.id # d.id /\ d.id \notin r.previous
            BY <3>3 DEF EditOK, Alike
        <3>6. \A p \in rows' : d.op = "upsert" /\ d.previous = {p.id} =>
                  p.name = d.name /\ (d.at = "insert" => Above(d.version, p.version))
            BY <3>3 DEF EditOK, Alike
        <3>7. \A w \in Users : w # v /\ Editing(w)' =>
                  calls'[w].id # d.id /\ d.id \notin calls'[w].previous /\ calls'[w].id \notin d.previous
            BY <3>3, <3>4 DEF EditOK
        <3> QED
            BY <3>1, <3>2, <3>3, <3>5, <3>6, <3>7 DEF EditOK
    <2>2. \A v \in Users : calls'[v].at = "sweep" => backend' = "mem"
        BY <1>1, <1>2 DEF StoreInv, CallsOK
    <2> QED
        BY <2>1, <2>2 DEF CallsOK
<1>6. TableIntegrity'
    <2>1. SUFFICES ASSUME backend = "pg"
                   PROVE  /\ \A s, t \in rows' : s.name = t.name /\ s.version = t.version => s = t
                          /\ \A s \in rows' : s.previous \subseteq Ids'
        BY DEF TableIntegrity
    <2>2. ASSUME NEW s \in rows', NEW t \in rows', s.name = t.name, s.version = t.version
          PROVE  s = t
        <3>1. PICK p \in rows : Alike(p, s)
            OBVIOUS
        <3>2. PICK q \in rows : Alike(q, t)
            OBVIOUS
        <3>3. p = q
            BY <2>1, <2>2, <3>1, <3>2 DEF StoreInv, TableIntegrity, Alike
        <3> QED
            BY <3>1, <3>2, <3>3 DEF Alike
    <2>3. \A s \in rows' : s.previous \subseteq Ids'
        BY <2>1 DEF Ids
    <2> QED
        BY <2>2, <2>3
<1>7. PreviousIsOlder'
    <2>1. ASSUME NEW s \in rows', NEW t \in rows', s.op = "upsert", s.previous = {t.id}
          PROVE  t.name = s.name /\ (t.version < s.version \/ s.version = MinVersion)
        <3>1. PICK p \in rows : Alike(p, s)
            OBVIOUS
        <3>2. PICK q \in rows : Alike(q, t)
            OBVIOUS
        <3> QED
            BY <2>1, <3>1, <3>2 DEF StoreInv, PreviousIsOlder, Alike
    <2> QED
        BY <2>1 DEF PreviousIsOlder
<1>8. SameId
    <2>1. ASSUME NEW r \in rows, NEW s \in rows', r.id = s.id
          PROVE  Identity(r) = Identity(s)
        <3>1. PICK q \in rows : Alike(q, s)
            OBVIOUS
        <3>2. q = r
            BY <2>1, <3>1 DEF StoreInv, RowsOK, Alike
        <3> QED
            BY <3>1, <3>2 DEF Alike, Identity
    <2> QED
        BY <2>1 DEF SameId
<1> QED
    BY <1>3, <1>4, <1>5, <1>6, <1>7, <1>8 DEF StoreInv

\* A deletion.
LEMMA RowsDeleted ==
    ASSUME StoreInv, NEW u \in Users, calls' = [calls EXCEPT ![u] = NoCall], UNCHANGED <<backend, made>>,
           rows' \subseteq rows,
           backend = "pg" => \A s \in rows' : \A x \in s.previous : \E t \in rows' : t.id = x
    PROVE  StoreInv' /\ SameId
<1>1. rows' \subseteq RowFormat
    BY DEF StoreInv, StoreFormat
<1>2. \A s \in rows' : \E r \in rows : Alike(r, s)
    BY DEF Alike
<1>3. \A s, t \in rows' : s.id = t.id => s = t
    BY DEF StoreInv, RowsOK
<1> QED
    BY <1>1, <1>2, <1>3, RowsRewritten

\* A request that ends without a row changed.
LEMMA CallEnds ==
    ASSUME StoreInv, NEW u \in Users, Done(u), UNCHANGED rows
    PROVE  StoreInv'
<1>1. calls' = [calls EXCEPT ![u] = NoCall] /\ UNCHANGED <<backend, made>> /\ made \in Nat /\ made <= MaxCalls
    BY DEF Done, Goto, StoreInv, StoreFormat
<1>2. NoCall \in CallFormat /\ NoCall.at \notin Edits /\ NoCall.at # "sweep"
    BY DEF CallFormat, NoCall, Edits
<1>3. PICK m \in Nat : m = made /\ made <= m /\ m <= MaxCalls
    BY <1>1
<1>4. made' = m /\ UNCHANGED <<backend, rows>>
    BY <1>1, <1>3
<1> QED
    BY <1>1, <1>2, <1>3, <1>4, CallMoves

\* The row of a request is added.
LEMMA RowAdded ==
    ASSUME StoreInv, NEW u \in Users, InsertRow(u)
    PROVE  StoreInv' /\ SameId
<1>1. /\ calls \in [Users -> CallFormat] /\ calls[u].at = "insert"
      /\ calls' = [calls EXCEPT ![u] = NoCall] /\ UNCHANGED <<backend, made>>
    BY DEF InsertRow, Done, Goto, StoreInv, StoreFormat
<1>2. PICK c \in EditFormat : c = calls[u]
    BY <1>1, Stages DEF Edits
<1>3. EditOK(u, c, made) /\ c.at = "insert" /\ made \in Nat
    BY <1>1, <1>2 DEF StoreInv, StoreFormat, CallsOK, Editing, Edits
<1>4. PICK row : row = [id |-> c.id, name |-> c.name, version |-> c.version,
                        previous |-> c.previous, owner |-> u, op |-> c.op,
                        label |-> 0, notes |-> 0]
    OBVIOUS
<1>5. /\ row \in RowFormat /\ row.id = c.id /\ row.name = c.name /\ row.version = c.version
      /\ row.previous = c.previous /\ row.op = c.op
      /\ c.version \in I32 /\ c.id \in Nat /\ c.previous \subseteq Nat
    BY <1>4 DEF EditFormat, RowFormat
<1>6. CASE Refuses(c)
    <2>1. rows' = rows /\ Done(u)
        BY <1>2, <1>6 DEF InsertRow
    <2>2. SameId
        BY <2>1 DEF SameId, StoreInv, RowsOK
    <2> QED
        BY <2>1, <2>2, CallEnds
<1>7. CASE ~Refuses(c)
    <2>1. rows' = rows \cup {row}
        BY <1>2, <1>4, <1>7 DEF InsertRow
    <2>2. \A r \in rows : r.id # row.id /\ row.id \notin r.previous
        BY <1>3, <1>5 DEF EditOK
    <2>3. NoCall \in CallFormat /\ NoCall.at \notin Edits /\ NoCall.at # "sweep"
        BY DEF CallFormat, NoCall, Edits
    <2>4. calls'[u] = NoCall /\ \A v \in Users : v # u => calls'[v] = calls[v]
        BY <1>1
    <2>5. StoreFormat'
        BY <1>1, <1>5, <2>1, <2>3 DEF StoreInv, StoreFormat
    <2>6. RowsOK'
        <3>1. /\ row.id # 0 /\ row.id <= made
              /\ \A x \in row.previous : x <= made /\ \A y \in row.previous : x = y
            BY <1>3, <1>5 DEF EditOK
        <3>5. \A r, s \in rows' : r.id = s.id => r = s
            BY <2>1, <2>2 DEF StoreInv, RowsOK
        <3>7. \A r \in rows' :
                /\ r.id # 0 /\ r.id <= made
                /\ \A x \in r.previous : x <= made /\ \A y \in r.previous : x = y
            BY <2>1, <3>1 DEF StoreInv, RowsOK
        <3> QED
            BY <1>1, <3>5, <3>7 DEF RowsOK
    <2>7. CallsOK'
        <3>1. ASSUME NEW v \in Users, Editing(v)'
              PROVE  EditOK(v, calls[v], made)'
            <4>1. v # u /\ calls'[v] = calls[v] /\ Editing(v)
                BY <2>3, <2>4, <3>1 DEF Editing
            <4>2. PICK d \in EditFormat : d = calls[v]
                BY <1>1, <4>1, Stages DEF Editing
            <4>3. EditOK(v, d, made)
                BY <4>1, <4>2 DEF StoreInv, CallsOK
            <4>4. \A w \in Users : Editing(w)' => Editing(w) /\ calls'[w] = calls[w]
                BY <2>3, <2>4 DEF Editing
            <4>5. c.id # d.id /\ c.id \notin d.previous /\ d.id \notin c.previous
                BY <1>2, <1>3, <4>1, <4>2 DEF EditOK
            <4>6. \A r \in rows' : r.id # d.id /\ d.id \notin r.previous
                BY <1>5, <2>1, <4>3, <4>5 DEF EditOK
            <4>7. \A p \in rows' : d.op = "upsert" /\ d.previous = {p.id} =>
                      p.name = d.name /\ (d.at = "insert" => Above(d.version, p.version))
                <5>1. d.previous # {row.id}
                    BY <1>5, <4>5
                <5> QED
                    BY <2>1, <4>3, <5>1 DEF EditOK
            <4>8. \A w \in Users : w # v /\ Editing(w)' =>
                      calls'[w].id # d.id /\ d.id \notin calls'[w].previous /\ calls'[w].id \notin d.previous
                BY <4>3, <4>4 DEF EditOK
            <4> QED
                BY <1>1, <4>1, <4>2, <4>3, <4>6, <4>7, <4>8 DEF EditOK
        <3>2. \A v \in Users : calls'[v].at = "sweep" => backend' = "mem"
            BY <1>1, <2>3, <2>4 DEF StoreInv, CallsOK
        <3> QED
            BY <3>1, <3>2 DEF CallsOK
    <2>8. TableIntegrity'
        <3>1. SUFFICES ASSUME backend = "pg"
                       PROVE  /\ \A s, t \in rows' : s.name = t.name /\ s.version = t.version => s = t
                              /\ \A s \in rows' : s.previous \subseteq Ids'
            BY <1>1 DEF TableIntegrity
        <3>2. \A r \in rows : ~(r.name = row.name /\ r.version = row.version)
            BY <1>5, <1>7, <3>1 DEF Refuses, Taken, OfName
        <3>3. \A s, t \in rows' : s.name = t.name /\ s.version = t.version => s = t
            BY <2>1, <3>1, <3>2 DEF StoreInv, TableIntegrity
        <3>4. Ids \subseteq Ids' /\ row.previous \subseteq Ids
            BY <1>5, <1>7, <2>1, <3>1 DEF Refuses, Ids
        <3> QED
            BY <2>1, <3>1, <3>3, <3>4 DEF StoreInv, TableIntegrity
    <2>9. PreviousIsOlder'
        <3>1. \A p \in rows : row.op = "upsert" /\ row.previous = {p.id} => p.name = row.name /\ Above(row.version, p.version)
            BY <1>3, <1>5 DEF EditOK
        <3>2. row.previous # {row.id} /\ \A r \in rows : r.previous # {row.id}
            BY <1>3, <1>5, <2>2 DEF EditOK
        <3> QED
            BY <2>1, <3>1, <3>2 DEF StoreInv, PreviousIsOlder, Above
    <2>10. SameId
        <3>1. \A r, s \in rows : r.id = s.id => r = s
            BY DEF StoreInv, RowsOK
        <3> QED
            BY <2>1, <2>2, <3>1 DEF SameId
    <2> QED
        BY <2>5, <2>6, <2>7, <2>8, <2>9, <2>10 DEF StoreInv
<1> QED
    BY <1>6, <1>7

\* A new request has an id of its own.
LEMMA CallBegins ==
    ASSUME StoreInv, NEW u \in Users, NEW c \in CallFormat, Begin(u, c),
           c.at # "sweep",
           c.at \in Edits => /\ c.id = made + 1
                             /\ c.at = "check" => c.op = "create"
                             /\ c.at # "insert"
                             /\ \/ c.previous = {} \/ (c.previous = {0} /\ c.op = "create")
                                \/ \E r \in rows : c.previous = {r.id} /\ (c.op = "upsert" => c.name = r.name)
    PROVE  StoreInv'
<1>1. /\ made \in Nat /\ MaxCalls \in Nat /\ made < MaxCalls /\ made' = made + 1
      /\ calls' = [calls EXCEPT ![u] = c] /\ UNCHANGED <<backend, rows>>
    BY StoreAssumption DEF Begin, StoreInv, StoreFormat
<1>2. PICK m \in Nat : m = made + 1 /\ made <= m /\ m <= MaxCalls /\ m # 0 /\ m <= m
    BY <1>1
<1>3. \A x \in Nat : x <= made => x <= m /\ x # m
    BY <1>1, <1>2
<1>4. ASSUME c.at \in Edits
      PROVE  EditOK(u, c, m)
    <2>1. c.id = m
        BY <1>2, <1>4
    <2>2. \A r \in rows : r.id \in Nat /\ r.id <= made /\ r.id # 0 /\ r.previous \subseteq Nat /\ \A x \in r.previous : x <= made
        BY DEF StoreInv, StoreFormat, RowFormat, RowsOK
    <2>3. \A x \in c.previous : x <= m /\ x # c.id /\ \A y \in c.previous : x = y
        BY <1>2, <1>3, <1>4, <2>1, <2>2
    <2>4. \A r \in rows : r.id # c.id /\ c.id \notin r.previous
        BY <1>3, <2>1, <2>2
    <2>5. ASSUME NEW v \in Users, v # u, Editing(v)
          PROVE  calls[v].id # c.id /\ c.id \notin calls[v].previous /\ calls[v].id \notin c.previous
        <3>1. PICK d \in EditFormat : d = calls[v]
            BY <2>5, Stages DEF StoreInv, StoreFormat, Editing
        <3>2. EditOK(v, d, made)
            BY <2>5, <3>1 DEF StoreInv, CallsOK
        <3>3. /\ d.id \in Nat /\ d.previous \subseteq Nat /\ d.id <= made /\ d.id # 0
              /\ (\A x \in d.previous : x <= made) /\ \A r \in rows : r.id # d.id
            BY <3>2 DEF EditOK, EditFormat
        <3> QED
            BY <1>3, <1>4, <2>1, <3>1, <3>3
    <2>6. \A p \in rows : c.op = "upsert" /\ c.previous = {p.id} => p.name = c.name
        <3>1. \A r, s \in rows : r.id = s.id => r = s
            BY DEF StoreInv, RowsOK
        <3> QED
            BY <1>4, <3>1
    <2> QED
        BY <1>2, <1>4, <2>1, <2>3, <2>4, <2>5, <2>6 DEF EditOK
<1> QED
    BY <1>1, <1>2, <1>4, CallMoves

\* A stage of a request that is going to create a row.
LEMMA EditMoves ==
    ASSUME StoreInv, NEW u \in Users, Editing(u), NEW c \in EditFormat, Goto(u, c), UNCHANGED rows,
           c.id = calls[u].id, c.op = calls[u].op, c.name = calls[u].name,
           \/ c.previous = calls[u].previous
           \/ \E r \in rows : c.previous = {r.id} /\ (c.op = "upsert" => r.name = c.name),
           c.at = "check" => c.op = "create",
           \A p \in rows : c.at = "insert" /\ c.op = "upsert" /\ c.previous = {p.id} => Above(c.version, p.version)
    PROVE  StoreInv'
<1>1. /\ made \in Nat /\ made <= MaxCalls /\ made' = made
      /\ calls' = [calls EXCEPT ![u] = c] /\ UNCHANGED <<backend, rows>>
    BY DEF Goto, StoreInv, StoreFormat
<1>2. PICK m \in Nat : m = made /\ made <= m /\ m <= MaxCalls
    BY <1>1
<1>3. PICK d \in EditFormat : d = calls[u]
    BY Stages DEF StoreInv, StoreFormat, Editing
<1>4. EditOK(u, d, m)
    BY <1>2, <1>3 DEF StoreInv, CallsOK
<1>5. c \in CallFormat /\ c.at # "sweep"
    <2>1. c.at \in Edits
        BY DEF EditFormat
    <2> QED
        BY <2>1 DEF CallFormat, Edits
<1>6. EditOK(u, c, m)
    <2>1. CASE c.previous = d.previous
        BY <1>3, <1>4, <2>1 DEF EditOK
    <2>2. ASSUME NEW r \in rows, c.previous = {r.id}, c.op = "upsert" => r.name = c.name
          PROVE  EditOK(u, c, m)
        <3>1. r.id <= m /\ r.id # d.id
            BY <1>2, <1>4 DEF EditOK, StoreInv, RowsOK
        <3>2. \A v \in Users : v # u /\ Editing(v) => calls[v].id # r.id
            BY DEF StoreInv, CallsOK, EditOK
        <3>3. \A p \in rows : c.op = "upsert" /\ c.previous = {p.id} => p.name = c.name
            BY <2>2 DEF StoreInv, RowsOK
        <3> QED
            BY <1>3, <1>4, <2>2, <3>1, <3>2, <3>3 DEF EditOK
    <2> QED
        BY <1>3, <2>1, <2>2
<1> QED
    BY <1>1, <1>2, <1>5, <1>6, CallMoves

\* The number a request without one carries.
LEMMA ZeroIsANumber == 0 \in I32
BY StoreAssumption DEF I32, MinVersion

\* The number read for a new version is above all of its name, or wrapped around.
LEMMA NumberIsNew ==
    ASSUME StoreInv, NEW n
    PROVE  /\ Next_version(n) \in I32
           /\ \A p \in rows : p.name = n => Above(Next_version(n), p.version)
<1> DEFINE S == {r.version : r \in OfName(n)}
           max == IF S = {} THEN 0 ELSE Max(S)
<1>1. MaxVersion \in Nat /\ MaxVersion # 0 /\ MinVersion = -MaxVersion - 1
    BY StoreAssumption DEF MinVersion
<1>2. \A r \in rows : r.version \in I32
    BY DEF StoreInv, StoreFormat, RowFormat
<1>3. S \subseteq I32 /\ \A p \in rows : p.name = n => p.version \in S
    BY <1>2 DEF OfName
<1>4. Next_version(n) = IF max = MaxVersion THEN MinVersion ELSE max + 1
    BY DEF Next_version
<1> HIDE DEF S
<1>5. S \in SUBSET Int /\ \A s \in S : s <= MaxVersion
    BY <1>1, <1>3 DEF I32
<1>6. S # {} => Max(S) \in S /\ \A s \in S : s <= Max(S)
    BY <1>1, <1>5, Greatest
<1>7. max \in I32 /\ \A s \in S : s <= max
    <2>1. CASE S = {}
        <3>1. max = 0
            BY <2>1
        <3> QED
            BY <2>1, <3>1, ZeroIsANumber
    <2>2. CASE S # {}
        <3>1. max = Max(S)
            BY <2>2
        <3> QED
            BY <1>3, <1>6, <2>2, <3>1
    <2> QED
        BY <2>1, <2>2
<1> HIDE DEF max
<1>8. Next_version(n) \in I32
    BY <1>1, <1>4, <1>7 DEF I32
<1>9. \A s \in S : Above(Next_version(n), s)
    BY <1>1, <1>4, <1>5, <1>7 DEF Above, I32
<1> QED
    BY <1>3, <1>8, <1>9

-----------------------------------------------------------------------------
(* The steps                                                               *)

\* Rows that stay keep their identity.
LEMMA SameRows ==
    ASSUME StoreInv, UNCHANGED rows
    PROVE  SameId
BY DEF SameId, StoreInv, RowsOK

\* The five handlers that start a request.
LEMMA Requests ==
    ASSUME StoreInv, NEW u \in Users,
           \/ Create_strategy(u) \/ Upsert_newest(u) \/ Upsert_version(u)
           \/ Update_strategy(u) \/ Delete_strategy(u)
    PROVE  StoreInv' /\ SameId
<1>1. made \in Nat /\ made + 1 \in Nat
    BY DEF StoreInv, StoreFormat
<1>2. \A r \in rows : r.id \in Nat /\ r.name \in Names
    BY DEF StoreInv, StoreFormat, RowFormat
<1>3. ASSUME NEW c \in CallFormat, Begin(u, c), c.at # "sweep",
             c.at \in Edits => /\ c.id = made + 1
                               /\ c.at = "check" => c.op = "create"
                               /\ c.at # "insert"
                               /\ \/ c.previous = {} \/ (c.previous = {0} /\ c.op = "create")
                                  \/ \E r \in rows : c.previous = {r.id} /\ (c.op = "upsert" => c.name = r.name)
      PROVE  StoreInv' /\ SameId
    <2>1. UNCHANGED rows
        BY <1>3 DEF Begin
    <2>2. StoreInv'
        BY <1>3, CallBegins
    <2> QED
        BY <2>1, <2>2, SameRows
<1>4. CASE Create_strategy(u)
    <2>1. PICK n \in Names, previous \in Options(Ids \cup {0}), version \in I32, at \in {"number", "check"} :
            Begin(u, [id |-> made + 1, at |-> at, op |-> "create",
                      name |-> n, version |-> version, previous |-> previous])
        BY <1>4, ZeroIsANumber, StoreAssumption DEF Create_strategy
    <2>2. PICK c : c = [id |-> made + 1, at |-> at, op |-> "create",
                        name |-> n, version |-> version, previous |-> previous]
        OBVIOUS
    <2>3. previous \in SUBSET Nat
        BY <1>2 DEF Options, Ids
    <2>4. c \in EditFormat
        BY <1>1, <2>2, <2>3 DEF EditFormat, Edits
    <2>5. \/ c.previous = {} \/ c.previous = {0}
          \/ \E r \in rows : c.previous = {r.id}
        BY <2>2 DEF Options, Ids
    <2>6. c.op = "create" /\ c.id = made + 1 /\ c.at # "insert" /\ c.at # "sweep" /\ c \in CallFormat
        BY <2>2, <2>4 DEF CallFormat
    <2>7. Begin(u, c)
        BY <2>1, <2>2
    <2> QED
        BY <1>3, <2>5, <2>6, <2>7
<1>5. CASE Upsert_newest(u)
    <2>1. PICK n \in Names : Begin(u, [id |-> made + 1, at |-> "newest", op |-> "upsert", name |-> n,
                                       version |-> 0, previous |-> {}])
        BY <1>5 DEF Upsert_newest
    <2>2. PICK c : c = [id |-> made + 1, at |-> "newest", op |-> "upsert", name |-> n,
                        version |-> 0, previous |-> {}]
        OBVIOUS
    <2>3. c \in EditFormat
        BY <1>1, <2>2, ZeroIsANumber DEF EditFormat, Edits
    <2>4. /\ c \in CallFormat /\ c.id = made + 1 /\ Begin(u, c)
          /\ c.at # "sweep" /\ c.at # "check" /\ c.at # "insert"
        BY <2>1, <2>2, <2>3 DEF CallFormat
    <2>5. \/ c.previous = {} \/ (c.previous = {0} /\ c.op = "create")
          \/ \E r \in rows : c.previous = {r.id} /\ (c.op = "upsert" => c.name = r.name)
        BY <2>2
    <2> QED
        BY <1>3, <2>4, <2>5
<1>6. CASE Upsert_version(u)
    <2>1. PICK r \in rows : Begin(u, [id |-> made + 1, at |-> "number", op |-> "upsert", name |-> r.name,
                                      version |-> 0, previous |-> {r.id}])
        BY <1>6 DEF Upsert_version
    <2>2. PICK c : c = [id |-> made + 1, at |-> "number", op |-> "upsert", name |-> r.name,
                        version |-> 0, previous |-> {r.id}]
        OBVIOUS
    <2>3. {r.id} \in SUBSET Nat /\ r.name \in Names
        BY <1>2
    <2>4. c \in EditFormat
        BY <1>1, <2>2, <2>3, ZeroIsANumber DEF EditFormat, Edits
    <2> QED
        BY <1>3, <2>1, <2>2, <2>4 DEF CallFormat
<1>7. CASE Update_strategy(u)
    <2>1. PICK r \in rows, fields \in {{"label"}, {"notes"}, {"label", "notes"}} :
            Begin(u, [id |-> made + 1, at |-> IF backend = "mem" THEN "write" ELSE "read", op |-> "update",
                      row |-> r.id, fields |-> fields, label |-> 1, notes |-> 1])
        BY <1>7 DEF Update_strategy
    <2>2. PICK c : c = [id |-> made + 1, at |-> IF backend = "mem" THEN "write" ELSE "read", op |-> "update",
                        row |-> r.id, fields |-> fields, label |-> 1, notes |-> 1]
        OBVIOUS
    <2>3. fields \in SUBSET {"label", "notes"} /\ r.id \in Nat
        BY <1>2
    <2>4. c \in UpdateFormat /\ c.at \in {"read", "write"}
        BY <1>1, <2>2, <2>3 DEF UpdateFormat
    <2> QED
        BY <1>3, <2>1, <2>2, <2>4 DEF CallFormat, Edits
<1>8. CASE Delete_strategy(u)
    <2>1. PICK r \in rows : Begin(u, [id |-> made + 1, at |-> "find", op |-> "delete", row |-> r.id])
        BY <1>8 DEF Delete_strategy
    <2>2. PICK c : c = [id |-> made + 1, at |-> "find", op |-> "delete", row |-> r.id]
        OBVIOUS
    <2>3. c \in FindFormat /\ c.at = "find"
        BY <1>1, <1>2, <2>2 DEF FindFormat
    <2> QED
        BY <1>3, <2>1, <2>2, <2>3 DEF CallFormat, Edits
<1> QED
    BY <1>4, <1>5, <1>6, <1>7, <1>8

\* The stages of a request that is going to create a row.
LEMMA Creating ==
    ASSUME StoreInv, NEW u \in Users, ReadNewest(u) \/ ReadVersion(u) \/ Check_exists(u)
    PROVE  StoreInv' /\ SameId
<1>1. Editing(u) /\ calls[u].at \in {"newest", "number", "check"} /\ UNCHANGED rows
    BY DEF ReadNewest, ReadVersion, Check_exists, Editing, Edits
<1>2. PICK d \in EditFormat : d = calls[u]
    BY <1>1, Stages DEF StoreInv, StoreFormat, Editing
<1>3. EditOK(u, d, made)
    BY <1>1, <1>2 DEF StoreInv, CallsOK
<1>4. SameId
    BY <1>1, SameRows
<1>5. CASE ReadNewest(u)
    <2>1. CASE Goto(u, [d EXCEPT !.at = "number"])
        <3>1. PICK c : c = [d EXCEPT !.at = "number"]
            OBVIOUS
        <3>2. /\ c \in EditFormat /\ c.at = "number" /\ c.id = d.id /\ c.op = d.op
              /\ c.name = d.name /\ c.previous = d.previous
            BY <3>1 DEF EditFormat, Edits
        <3>3. Goto(u, c)
            BY <2>1, <3>1
        <3> QED
            BY <1>1, <1>2, <1>4, <3>2, <3>3, EditMoves
    <2>2. ASSUME NEW r \in Newest(d.name), Goto(u, [d EXCEPT !.at = "number", !.previous = {r.id}])
          PROVE  StoreInv'
        <3>1. PICK c : c = [d EXCEPT !.at = "number", !.previous = {r.id}]
            OBVIOUS
        <3>2. r \in rows /\ r.name = d.name /\ {r.id} \in SUBSET Nat
            BY DEF Newest, OfName, StoreInv, StoreFormat, RowFormat
        <3>3. /\ c \in EditFormat /\ c.at = "number" /\ c.id = d.id /\ c.op = d.op
              /\ c.name = d.name /\ c.previous = {r.id}
            BY <3>1, <3>2 DEF EditFormat, Edits
        <3>4. Goto(u, c)
            BY <2>2, <3>1
        <3> QED
            BY <1>1, <1>2, <3>2, <3>3, <3>4, EditMoves
    <2> QED
        BY <1>2, <1>4, <1>5, <2>1, <2>2 DEF ReadNewest
<1>6. CASE ReadVersion(u)
    <2>1. PICK v : v = Next_version(d.name)
        OBVIOUS
    <2>2. v \in I32 /\ \A p \in rows : p.name = d.name => Above(v, p.version)
        BY <2>1, NumberIsNew
    <2>3. PICK c : c = [d EXCEPT !.version = v, !.at = IF d.op = "create" THEN "check" ELSE "insert"]
        OBVIOUS
    <2>4. Goto(u, c)
        BY <1>2, <1>6, <2>1, <2>3 DEF ReadVersion
    <2>5. /\ c \in EditFormat /\ c.id = d.id /\ c.op = d.op /\ c.name = d.name /\ c.version = v
          /\ c.previous = d.previous /\ (c.at = "check" => c.op = "create")
        BY <2>2, <2>3 DEF EditFormat, Edits
    <2>6. \A p \in rows : c.op = "upsert" /\ c.previous = {p.id} => Above(c.version, p.version)
        BY <1>3, <2>2, <2>5 DEF EditOK
    <2> QED
        BY <1>1, <1>2, <1>4, <2>2, <2>4, <2>5, <2>6, EditMoves
<1>7. CASE Check_exists(u)
    <2>1. CASE Done(u)
        BY <1>1, <1>4, <2>1, CallEnds
    <2>2. CASE Goto(u, [d EXCEPT !.at = "insert"])
        <3>1. PICK c : c = [d EXCEPT !.at = "insert"]
            OBVIOUS
        <3>2. d.at = "check" /\ d.op = "create"
            BY <1>2, <1>3, <1>7 DEF EditOK, Check_exists
        <3>3. /\ c \in EditFormat /\ c.at = "insert" /\ c.id = d.id /\ c.op = "create"
              /\ c.name = d.name /\ c.previous = d.previous /\ c.version = d.version
            BY <3>1, <3>2 DEF EditFormat, Edits
        <3>4. Goto(u, c) /\ c.op # "upsert"
            BY <2>2, <3>1, <3>2, <3>3
        <3> QED
            BY <1>1, <1>2, <1>4, <3>2, <3>3, <3>4, EditMoves
    <2> QED
        BY <1>2, <1>7, <2>1, <2>2 DEF Check_exists
<1> QED
    BY <1>5, <1>6, <1>7

\* Update: the row is read, on the table, and rewritten.
LEMMA Updating ==
    ASSUME StoreInv, NEW u \in Users, ReadCurrent(u) \/ WriteUpdate(u)
    PROVE  StoreInv' /\ SameId
<1>1. calls[u].at \in {"read", "write"} /\ calls \in [Users -> CallFormat]
    BY DEF ReadCurrent, WriteUpdate, StoreInv, StoreFormat
<1>2. PICK d \in UpdateFormat : d = calls[u]
    BY <1>1, Stages
<1>3. \A r \in rows : r \in RowFormat
    BY DEF StoreInv, StoreFormat
<1>4. CASE ReadCurrent(u)
    <2>1. SameId /\ UNCHANGED rows
        BY <1>4, SameRows DEF ReadCurrent
    <2>2. CASE Done(u)
        BY <2>1, <2>2, CallEnds
    <2>3. ASSUME NEW r \in WithId(d.row),
                 Goto(u, [d EXCEPT !.at = "write", !.label = IF "label" \in d.fields THEN 1 ELSE r.label,
                                   !.notes = IF "notes" \in d.fields THEN 1 ELSE r.notes])
          PROVE  StoreInv'
        <3>1. PICK c : c = [d EXCEPT !.at = "write", !.label = IF "label" \in d.fields THEN 1 ELSE r.label,
                                     !.notes = IF "notes" \in d.fields THEN 1 ELSE r.notes]
            OBVIOUS
        <3>2. r.label \in {0, 1} /\ r.notes \in {0, 1}
            BY <1>3 DEF WithId, RowFormat
        <3>3. c \in UpdateFormat /\ c.at = "write"
            BY <3>1, <3>2 DEF UpdateFormat
        <3>4. c \in CallFormat /\ c.at \notin Edits /\ c.at # "sweep"
            BY <3>3 DEF CallFormat, Edits
        <3>5. PICK m \in Nat : m = made /\ made <= m /\ m <= MaxCalls
            BY DEF StoreInv, StoreFormat
        <3>6. made' = m /\ calls' = [calls EXCEPT ![u] = c] /\ UNCHANGED <<backend, rows>>
            BY <2>1, <2>3, <3>1, <3>5 DEF Goto
        <3> QED
            BY <3>4, <3>5, <3>6, CallMoves
    <2> QED
        BY <1>2, <1>4, <2>1, <2>2, <2>3 DEF ReadCurrent
<1>5. CASE WriteUpdate(u)
    <2>1. /\ rows' = {IF r.id = d.row THEN Updated(d, r) ELSE r : r \in rows}
          /\ calls' = [calls EXCEPT ![u] = NoCall] /\ UNCHANGED <<backend, made>>
        BY <1>2, <1>5 DEF WriteUpdate, Done, Goto
    <2>2. ASSUME NEW r \in rows
          PROVE  Updated(d, r) \in RowFormat /\ Alike(r, Updated(d, r))
        <3>1. r \in RowFormat
            BY <1>3
        <3>2. CASE backend = "mem"
            BY <3>1, <3>2 DEF Updated, RowFormat, Alike
        <3>3. CASE backend # "mem"
            <4>1. d.label \in {0, 1} /\ d.notes \in {0, 1}
                BY DEF UpdateFormat
            <4> QED
                BY <3>1, <3>3, <4>1 DEF Updated, RowFormat, Alike
        <3> QED
            BY <3>2, <3>3
    <2>3. rows' \subseteq RowFormat
        BY <1>3, <2>1, <2>2
    <2>4. \A r \in rows : Alike(r, r)
        BY DEF Alike
    <2>5. \A s \in rows' : \E r \in rows : Alike(r, s) /\ s = IF r.id = d.row THEN Updated(d, r) ELSE r
        BY <2>1, <2>2, <2>4
    <2>6. \A r \in rows : \E s \in rows' : Alike(r, s)
        BY <2>1, <2>2, <2>4
    <2>7. ASSUME NEW s \in rows', NEW t \in rows', s.id = t.id
          PROVE  s = t
        <3>1. PICK p \in rows : Alike(p, s) /\ s = IF p.id = d.row THEN Updated(d, p) ELSE p
            BY <2>5
        <3>2. PICK q \in rows : Alike(q, t) /\ t = IF q.id = d.row THEN Updated(d, q) ELSE q
            BY <2>5
        <3>3. p = q
            BY <2>7, <3>1, <3>2 DEF Alike, StoreInv, RowsOK
        <3> QED
            BY <3>1, <3>2, <3>3
    <2>8. ASSUME backend = "pg", NEW s \in rows', NEW x \in s.previous
          PROVE  \E t \in rows' : t.id = x
        <3>1. PICK p \in rows : Alike(p, s)
            BY <2>5
        <3>2. PICK q \in rows : q.id = x
            BY <2>8, <3>1 DEF Alike, StoreInv, TableIntegrity, Ids
        <3>3. PICK t \in rows' : Alike(q, t)
            BY <2>6
        <3> QED
            BY <3>2, <3>3 DEF Alike
    <2> QED
        BY <2>1, <2>3, <2>5, <2>7, <2>8, RowsRewritten
<1> QED
    BY <1>4, <1>5

\* Delete: the name is found, and its versions are removed, on the table in one
\* statement and only if nothing would be left pointing at them.
LEMMA Deleting ==
    ASSUME StoreInv, NEW u \in Users, FindName(u) \/ Sweep(u)
    PROVE  StoreInv' /\ SameId
<1>1. calls \in [Users -> CallFormat]
    BY DEF StoreInv, StoreFormat
<1>2. CASE Sweep(u)
    <2>1. rows' \subseteq rows /\ calls' = [calls EXCEPT ![u] = NoCall] /\ UNCHANGED <<backend, made>>
        BY <1>2 DEF Sweep, Done, Goto
    <2>2. backend = "mem"
        BY <1>2 DEF StoreInv, CallsOK, Sweep
    <2> QED
        BY <2>1, <2>2, RowsDeleted
<1>3. CASE FindName(u)
    <2>1. PICK d \in FindFormat : d = calls[u]
        BY <1>1, <1>3, Stages DEF FindName
    <2>2. CASE Done(u) /\ UNCHANGED rows
        BY <2>2, CallEnds, SameRows
    <2>3. ASSUME NEW r \in WithId(d.row), backend = "mem", UNCHANGED rows,
                 Goto(u, [id |-> d.id, at |-> "sweep", op |-> "delete", name |-> r.name])
          PROVE  StoreInv' /\ SameId
        <3>1. PICK c : c = [id |-> d.id, at |-> "sweep", op |-> "delete", name |-> r.name]
            OBVIOUS
        <3>2. r.name \in Names /\ d.id \in Nat
            BY DEF WithId, StoreInv, StoreFormat, RowFormat, FindFormat
        <3>3. c \in SweepFormat /\ c.at = "sweep"
            BY <3>1, <3>2 DEF SweepFormat
        <3>4. c \in CallFormat /\ c.at \notin Edits
            BY <3>3 DEF CallFormat, Edits
        <3>5. PICK m \in Nat : m = made /\ made <= m /\ m <= MaxCalls
            BY DEF StoreInv, StoreFormat
        <3>6. made' = m /\ calls' = [calls EXCEPT ![u] = c] /\ UNCHANGED <<backend, rows>>
            BY <2>3, <3>1, <3>5 DEF Goto
        <3>7. StoreInv'
            BY <2>3, <3>4, <3>5, <3>6, CallMoves
        <3> QED
            BY <2>3, <3>7, SameRows
    <2>4. ASSUME NEW r \in WithId(d.row), backend # "mem", Done(u), ~Referenced(r.name),
                 rows' = rows \ OfName(r.name)
          PROVE  StoreInv' /\ SameId
        <3>1. rows' \subseteq rows /\ calls' = [calls EXCEPT ![u] = NoCall] /\ UNCHANGED <<backend, made>>
            BY <2>4 DEF Done, Goto
        <3>2. ASSUME backend = "pg", NEW s \in rows', NEW x \in s.previous
              PROVE  \E t \in rows' : t.id = x
            <4>1. PICK q \in rows : q.id = x
                BY <3>1, <3>2 DEF StoreInv, TableIntegrity, Ids
            <4>2. s.previous = {x}
                BY <3>1, <3>2 DEF StoreInv, RowsOK
            <4>3. q \notin OfName(r.name)
                BY <2>4, <4>1, <4>2 DEF Referenced
            <4> QED
                BY <2>4, <4>1, <4>3
        <3> QED
            BY <3>1, <3>2, RowsDeleted
    <2> QED
        BY <1>3, <2>1, <2>2, <2>3, <2>4 DEF FindName
<1> QED
    BY <1>2, <1>3

\* The empty store.
LEMMA StoreStart ==
    ASSUME StoreInit
    PROVE  StoreInv
<1>1. StoreFormat
    BY StoreAssumption DEF StoreInit, StoreFormat, CallFormat
<1>2. RowsOK
    BY DEF StoreInit, RowsOK
<1>3. CallsOK
    BY DEF StoreInit, CallsOK, Editing, NoCall, Edits
<1>4. TableIntegrity /\ PreviousIsOlder
    BY DEF StoreInit, TableIntegrity, PreviousIsOlder
<1> QED
    BY <1>1, <1>2, <1>3, <1>4 DEF StoreInv

\* Every step of every request keeps the invariant and the identity of the rows.
LEMMA StoreStep ==
    ASSUME StoreInv, [StoreNext]_storeVars
    PROVE  StoreInv' /\ SameId
<1>1. CASE UNCHANGED storeVars
    <2>1. UNCHANGED <<backend, rows, calls, made>>
        BY <1>1 DEF storeVars
    <2>2. SameId
        BY <2>1, SameRows
    <2>3. StoreFormat' /\ RowsOK'
        BY <2>1 DEF StoreInv, StoreFormat, RowsOK
    <2>4. CallsOK'
        BY <2>1 DEF StoreInv, CallsOK, EditOK, Editing
    <2>5. TableIntegrity' /\ PreviousIsOlder'
        BY <2>1 DEF StoreInv, TableIntegrity, PreviousIsOlder, Ids
    <2> QED
        BY <2>2, <2>3, <2>4, <2>5 DEF StoreInv
<1>2. CASE StoreNext
    BY <1>2, Requests, Creating, RowAdded, Updating, Deleting DEF StoreNext
<1> QED
    BY <1>1, <1>2

\* The table under racing requests, on either backend: rows with ids of past requests,
\* no version of a name twice and no previous_id missing in Postgres, a version saved
\* over another one newer than it, and no strategy turned into another.
THEOREM TableIsSound == StoreSpec => TableSound
<1>1. StoreInit => StoreInv
    BY StoreStart
<1>2. StoreInv /\ [StoreNext]_storeVars => StoreInv' /\ SameId
    BY StoreStep
<1>3. StoreInv => StoreTypeOK /\ TableIntegrity /\ PreviousIsOlder
    <2>1. ASSUME StoreInv PROVE StoreTypeOK
        <3>1. backend \in Backends /\ made \in 0..MaxCalls
            BY <2>1, StoreAssumption DEF StoreInv, StoreFormat
        <3>2. \A r \in rows : r.id \in Nat /\ r.name \in Names /\ r.version \in I32
            BY <2>1 DEF StoreInv, StoreFormat, RowFormat
        <3>3. \A r \in rows : r.id \in 1..made
            BY <2>1, <3>1, <3>2 DEF StoreInv, RowsOK
        <3> QED
            BY <3>1, <3>2, <3>3 DEF StoreTypeOK
    <2> QED
        BY <2>1 DEF StoreInv
<1>4. SameId => [\A r \in rows, s \in rows' : r.id = s.id => Identity(r) = Identity(s)]_storeVars
    BY DEF SameId
<1> QED
    BY <1>1, <1>2, <1>3, <1>4, PTL DEF StoreSpec, TableSound, IdentityKept
=============================================================================
