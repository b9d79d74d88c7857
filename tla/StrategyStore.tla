---------------------------- MODULE StrategyStore ----------------------------
(***************************************************************************)
(* Herald's strategy store: the same operations over a map in memory behind  *)
(* a read-write lock, and over a Postgres table with a unique (name,         *)
(* version) and previous_id as a foreign key.  Handlers run concurrently;    *)
(* a step here is one lock held or one SQL statement.  A client is a user    *)
(* with one request at a time; a script is not looked at: whether it is the  *)
(* stored one is the client's choice.  create_strategy is the handler of the *)
(* POST route; upsert_strategy, with its own way of numbering and linking,   *)
(* is part of the store's interface but no route calls it yet.               *)
(***************************************************************************)
EXTENDS Integers, Sequences, FiniteSets, FiniteSetsExt

CONSTANTS
    Users,          \* each with one request at a time
    Names,          \* strategy names, as numbers: they are sorted
    Backends,       \* "mem", "pg"
    Asked,          \* the version numbers a client may ask for
    MaxVersion,     \* the greatest number of a version's type, i32
    MaxCalls        \* bound on requests; a request creates at most one row

MinVersion == -MaxVersion - 1

\* The numbers a version can be.
I32 == MinVersion..MaxVersion

ASSUME StoreAssumption ==
    /\ Names \subseteq Nat /\ Backends \subseteq {"mem", "pg"} /\ MaxCalls \in Nat
    /\ MaxVersion \in Nat \ {0} /\ Asked \subseteq I32

VARIABLES
    backend,    \* the backend in use
    rows,       \* the strategies
    calls,      \* per user, the request being served, or NoCall
    made        \* requests so far; the id of a row is the number of its request

storeVars == <<backend, rows, calls, made>>

NoCall == [at |-> "idle"]

StoreInit ==
    /\ backend \in Backends
    /\ rows = {}
    /\ calls = [u \in Users |-> NoCall]
    /\ made = 0

-----------------------------------------------------------------------------
(* Reading                                                                 *)

OfName(n) == {r \in rows : r.name = n}
WithId(id) == {r \in rows : r.id = id}

\* MAX(version) + 1 in 32 bits, 1 for a new name.  The release build wraps around.
Next_version(n) ==
    LET versions == {r.version : r \in OfName(n)}
        max == IF versions = {} THEN 0 ELSE Max(versions)
    IN  IF max = MaxVersion THEN MinVersion ELSE max + 1

\* The newest version of a name: one of them, if versions repeat.
Newest(n) == {r \in OfName(n) : \A s \in OfName(n) : s.version <= r.version}

\* ORDER BY name ASC, version DESC.
ByNameNewestFirst(a, b) == a.name < b.name \/ (a.name = b.name /\ a.version > b.version)

\* Mutant: ordered by version alone.
SortedByVersion(S) ==
    CHOOSE q \in [1..Cardinality(S) -> S] :
        \A i, j \in DOMAIN q : i < j => q[i] # q[j] /\ q[i].version >= q[j].version

\* The rows sorted, those of equal name and version in any order.
Sorted(S) ==
    CHOOSE q \in [1..Cardinality(S) -> S] :
        \A i, j \in DOMAIN q : i < j => q[i] # q[j] /\ ~ByNameNewestFirst(q[j], q[i])

\* list_my_chains: the caller's rows, consecutive ones of one name together.
List_my_chains(u) ==
    LET list == Sorted({r \in rows : r.owner = u})
        chains[i \in 0..Len(list)] ==
            IF i = 0 THEN <<>>
            ELSE LET before == chains[i-1]
                 IN  IF before # <<>> /\ before[Len(before)][1].name = list[i].name
                     THEN [before EXCEPT ![Len(before)] = Append(@, list[i])]
                     ELSE Append(before, <<list[i]>>)
    IN  chains[Len(list)]

\* The recursive queries of list_strategy_chain: up from id over previous_id to a
\* row without one, and down from there through rows of the user.
ChainStep(S, u) == S \cup {r \in rows : r.owner = u /\ \E p \in S : r.previous = {p.id}}
Ancestors(S) == S \cup {r \in rows : \E c \in S : c.previous = {r.id}}
Closed(F(_), S) ==
    LET after[i \in 0..MaxCalls] == IF i = 0 THEN S ELSE F(after[i-1])
    IN  after[MaxCalls]

List_strategy_chain(id, u) ==
    IF backend = "mem"
    THEN {r \in rows : r.owner = u /\ \E s \in WithId(id) : s.name = r.name}
    ELSE LET roots == {r \in Closed(Ancestors, WithId(id)) : r.previous = {}}
         IN  Closed(LAMBDA S : ChainStep(S, u), {r \in roots : r.owner = u})

-----------------------------------------------------------------------------
(* Requests                                                                *)

Begin(u, call) ==
    /\ calls[u] = NoCall /\ made < MaxCalls
    /\ made' = made + 1
    /\ calls' = [calls EXCEPT ![u] = call]
    /\ UNCHANGED <<backend, rows>>

Goto(u, call) ==
    /\ calls' = [calls EXCEPT ![u] = call]
    /\ UNCHANGED <<backend, made>>

Done(u) == Goto(u, NoCall)

Ids == {r.id : r \in rows}
Options(S) == {{}} \cup {{x} : x \in S}

\* POST: a name, maybe a version, which may be any number, and maybe the version
\* it derives from, which need not exist (0).
Create_strategy(u) ==
    \E n \in Names, previous \in Options(Ids \cup {0}) :
        \/ Begin(u, [id |-> made + 1, at |-> "number", op |-> "create",
                     name |-> n, version |-> 0, previous |-> previous])
        \/ \E version \in Asked :
             Begin(u, [id |-> made + 1, at |-> "check", op |-> "create",
                       name |-> n, version |-> version, previous |-> previous])

\* upsert_strategy without a strategy_id: the newest version is read first.
Upsert_newest(u) ==
    \E n \in Names : Begin(u, [id |-> made + 1, at |-> "newest", op |-> "upsert", name |-> n,
                              version |-> 0, previous |-> {}])

\* upsert_strategy with one: found, of that name, and with another script --
\* otherwise nothing is written.
Upsert_version(u) ==
    \E r \in rows : Begin(u, [id |-> made + 1, at |-> "number", op |-> "upsert", name |-> r.name,
                              version |-> 0, previous |-> {r.id}])

ReadNewest(u) ==
    /\ calls[u].at = "newest"
    /\ \/ Newest(calls[u].name) = {} /\ Goto(u, [calls[u] EXCEPT !.at = "number"])
       \/ \E r \in Newest(calls[u].name) :
            Goto(u, [calls[u] EXCEPT !.at = "number", !.previous = {r.id}])
    /\ UNCHANGED rows

\* next_version, a statement of its own.
ReadVersion(u) ==
    /\ calls[u].at = "number"
    /\ Goto(u, [calls[u] EXCEPT !.version = Next_version(calls[u].name),
                                !.at = IF calls[u].op = "create" THEN "check" ELSE "insert"])
    /\ UNCHANGED rows

Taken(n, version) == \E r \in OfName(n) : r.version = version

\* create_strategy's own test, only in memory, with the lock released after it.
Check_exists(u) ==
    /\ calls[u].at = "check"
    /\ IF backend = "mem" /\ Taken(calls[u].name, calls[u].version)
       THEN Done(u)
       ELSE Goto(u, [calls[u] EXCEPT !.at = "insert"])
    /\ UNCHANGED rows

\* Mutant: the schema without its UNIQUE (name, version).
RefusesDangling(c) == backend = "pg" /\ ~(c.previous \subseteq Ids)

\* What the table refuses: a second row of a name and version, and a previous_id
\* that is not there.
Refuses(c) ==
    /\ backend = "pg"
    /\ Taken(c.name, c.version) \/ ~(c.previous \subseteq Ids)

InsertRow(u) ==
    /\ calls[u].at = "insert"
    /\ LET c == calls[u]
       IN  rows' = IF Refuses(c) THEN rows
                   ELSE rows \cup {[id |-> c.id, name |-> c.name, version |-> c.version,
                                    previous |-> c.previous, owner |-> u, op |-> c.op,
                                    label |-> 0, notes |-> 0]}
    /\ Done(u)

\* PUT: the label, the notes or both.  The table is read first and both columns
\* written back; the map is changed under its lock.
Update_strategy(u) ==
    \E r \in rows, fields \in {{"label"}, {"notes"}, {"label", "notes"}} :
        Begin(u, [id |-> made + 1, at |-> IF backend = "mem" THEN "write" ELSE "read", op |-> "update",
                  row |-> r.id, fields |-> fields, label |-> 1, notes |-> 1])

ReadCurrent(u) ==
    /\ calls[u].at = "read"
    /\ IF calls[u].row \in Ids
       THEN \E r \in WithId(calls[u].row) :
              Goto(u, [calls[u] EXCEPT !.at = "write",
                                       !.label = IF "label" \in calls[u].fields THEN 1 ELSE r.label,
                                       !.notes = IF "notes" \in calls[u].fields THEN 1 ELSE r.notes])
       ELSE Done(u)
    /\ UNCHANGED rows

Updated(c, r) ==
    IF backend = "mem"
    THEN [r EXCEPT !.label = IF "label" \in c.fields THEN 1 ELSE @,
                   !.notes = IF "notes" \in c.fields THEN 1 ELSE @]
    ELSE [r EXCEPT !.label = c.label, !.notes = c.notes]

WriteUpdate(u) ==
    /\ calls[u].at = "write"
    /\ rows' = {IF r.id = calls[u].row THEN Updated(calls[u], r) ELSE r : r \in rows}
    /\ Done(u)

\* DELETE: every version of the name the id belongs to.  The map is read for the
\* name, then swept; the table does both in one statement, and refuses it when a
\* row of another name would be left pointing at one of them.
Delete_strategy(u) ==
    \E r \in rows : Begin(u, [id |-> made + 1, at |-> "find", op |-> "delete", row |-> r.id])

Referenced(n) == \E r \in rows \ OfName(n) : \E p \in OfName(n) : r.previous = {p.id}

FindName(u) ==
    /\ calls[u].at = "find"
    /\ IF calls[u].row \notin Ids
       THEN Done(u) /\ UNCHANGED rows
       ELSE \E r \in WithId(calls[u].row) :
              IF backend = "mem"
              THEN Goto(u, [id |-> calls[u].id, at |-> "sweep", op |-> "delete", name |-> r.name]) /\ UNCHANGED rows
              ELSE Done(u) /\ rows' = IF Referenced(r.name) THEN rows ELSE rows \ OfName(r.name)

Sweep(u) ==
    /\ calls[u].at = "sweep"
    /\ rows' = rows \ OfName(calls[u].name)
    /\ Done(u)

StoreNext ==
    \E u \in Users :
        \/ Create_strategy(u) \/ Upsert_newest(u) \/ Upsert_version(u)
        \/ Update_strategy(u) \/ Delete_strategy(u)
        \/ ReadNewest(u) \/ ReadVersion(u) \/ Check_exists(u) \/ InsertRow(u)
        \/ ReadCurrent(u) \/ WriteUpdate(u) \/ FindName(u) \/ Sweep(u)

StoreSpec == StoreInit /\ [][StoreNext]_storeVars

-----------------------------------------------------------------------------
(* Properties                                                              *)

StoreTypeOK ==
    /\ backend \in Backends
    /\ made \in 0..MaxCalls
    /\ \A r \in rows : r.id \in 1..made /\ r.name \in Names /\ r.version \in I32

\* Whatever requests race, the table numbers the versions of a name without
\* repetition and keeps every previous_id in it, deletions included.
TableIntegrity ==
    backend = "pg" =>
        /\ \A r, s \in rows : r.name = s.name /\ r.version = s.version => r = s
        /\ \A r \in rows : r.previous \subseteq Ids

\* A version saved over another one is of its name and newer than it, on either
\* backend, though the two statements that look up predecessor and number are not
\* one -- unless a client has used up the numbers and this one wrapped around.
PreviousIsOlder ==
    \A r, p \in rows : r.op = "upsert" /\ r.previous = {p.id} =>
        p.name = r.name /\ (p.version < r.version \/ r.version = MinVersion)

\* The grouping of list_my_chains shows a user each of their strategies once, a
\* name in one group and its versions from the newest down.
ChainsPartition ==
    \A u \in Users :
        LET chains == List_my_chains(u)
        IN  /\ UNION {{chains[i][k] : k \in DOMAIN chains[i]} : i \in DOMAIN chains} = {r \in rows : r.owner = u}
            /\ \A i, j \in DOMAIN chains : i < j => chains[i][1].name < chains[j][1].name
            /\ \A i \in DOMAIN chains : \A k \in 2..Len(chains[i]) :
                 /\ chains[i][k].name = chains[i][1].name
                 /\ chains[i][k].version <= chains[i][k-1].version

\* An update changes a strategy's label and notes and nothing else of it.
Identity(r) == <<r.name, r.version, r.previous, r.owner>>
IdentityKept == [][\A r \in rows, s \in rows' : r.id = s.id => Identity(r) = Identity(s)]_storeVars

\* "Returns an empty vec if `id` doesn't exist or belongs to a different user":
\* and the lineage of one's own strategy holds at least that strategy.
OwnChain == \A r \in rows : r \in List_strategy_chain(r.id, r.owner)

\* "auto-increments from the highest existing version for that `name`": a number
\* that next_version gives is above the versions it was read from, in any order of
\* requests.  A client that asks for the greatest number breaks this for its name.
NumbersGrow == \A r, p \in rows : r.op = "upsert" /\ r.previous = {p.id} => p.version < r.version

\* "version already exists" is answered with a conflict on either backend.
VersionsUnique == \A r, s \in rows : r.name = s.name /\ r.version = s.version => r = s

\* The table under racing requests: sound at every moment, and no strategy turned
\* into another.
TableSound == [](StoreTypeOK /\ TableIntegrity /\ PreviousIsOlder) /\ IdentityKept
=============================================================================
