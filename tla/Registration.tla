---------------------------- MODULE Registration ----------------------------
(***************************************************************************)
(* How the helm (Go) and the herald (Rust) keep agreeing on which hands are  *)
(* registered for signals.  The operator starts, stops and kills hands; the  *)
(* heartbeat compares herald's list with the running hands every 30 s; an    *)
(* engine.ready event after a restart of herald re-registers every running   *)
(* hand.  All three talk to herald by request and reply over NATS: a caller  *)
(* waits for one answer at a time and gives up on a timeout, and a request   *)
(* it has given up on may still be served, in any order with later ones      *)
(* since every subject has a subscription of its own.                        *)
(***************************************************************************)
EXTENDS Naturals, Sequences, SequencesExt, FiniteSets

CONSTANTS
    Hands,       \* the hands of the fleet
    Symbols,     \* per hand, the sequence of its symbols
    Refused,     \* the hands whose script herald rejects
    MaxCommands, \* bound on operator commands
    MaxFaults    \* bound on crashes of herald and on requests given up

Callers == {"operator", "heartbeat", "ready"}

VARIABLES
    status,     \* per hand: "stopped", "running" or "gone" from the runtime
    registry,   \* herald's registrations: <<hand, symbol>>
    herald,     \* "up" or "down"
    heraldId,   \* how often herald has started
    announced,  \* the engine.ready event on its way: {} or {id}
    lastId,     \* lastHeraldID of the subscription
    net,        \* requests in flight: [op, hand, symbol, by]
    plan,       \* per caller, the requests it has still to make
    waiting,    \* per caller, whether the head of its plan is in flight
    command,    \* the operator's command: {} or {[op, hand]}
    listed,     \* the answer to engine.list being compared: {} or {ids}
    commands, faults    \* bounds

syncVars == <<status, registry, herald, heraldId, announced, lastId, net, plan, waiting,
              command, listed, commands, faults>>

Running == {h \in Hands : status[h] = "running"}

\* RegisterHand asks for one symbol after the other.
Registers(h) == [i \in 1..Len(Symbols[h]) |-> [op |-> "register", hand |-> h, symbol |-> Symbols[h][i]]]
Deregisters(h) == <<[op |-> "deregister", hand |-> h, symbol |-> ""]>>
List == <<[op |-> "list", hand |-> "", symbol |-> ""]>>

\* Not a request yet: heraldReregisterByIDs is still to be called with these hands.
Missing(hands) == <<[op |-> "missing", hands |-> hands]>>

\* The requests for a set of hands, one hand after the other.
ForAll(Of(_), hands) == FlattenSeq([i \in 1..Cardinality(hands) |-> Of(SetToSeq(hands)[i])])

RegistrationInit ==
    /\ status \in [Hands -> {"stopped", "running"}]
    /\ registry = {}
    /\ herald = "up" /\ heraldId = 1
    /\ announced = {1} /\ lastId = 0
    /\ net = {}
    /\ plan = [c \in Callers |-> <<>>]
    /\ waiting = [c \in Callers |-> FALSE]
    /\ command = {} /\ listed = {}
    /\ commands = 0 /\ faults = 0

-----------------------------------------------------------------------------
(* The calls                                                               *)

\* A request is published.  With herald down nobody receives it.  ReregisterHand
\* leaves out a hand that has left the runtime.
Send(c) ==
    /\ plan[c] # <<>> /\ ~waiting[c] /\ Head(plan[c]).op # "missing"
    /\ LET req == Head(plan[c])
       IN  IF req.op = "register" /\ c # "operator" /\ status[req.hand] = "gone"
           THEN /\ plan' = [plan EXCEPT ![c] = Tail(@)]
                /\ UNCHANGED <<net, waiting>>
           ELSE /\ net' = IF herald = "up" THEN net \cup {[by |-> c] @@ req} ELSE net
                /\ waiting' = [waiting EXCEPT ![c] = TRUE]
                /\ plan' = plan
    /\ UNCHANGED <<status, registry, herald, heraldId, announced, lastId, command, listed,
                   commands, faults>>

\* After a failed request RegisterHand returns: the other symbols are not asked for.
SkipHand(reqs) ==
    IF Head(reqs).op # "register" THEN Tail(reqs)
    ELSE LET others == {i \in 1..Len(reqs) : reqs[i].hand # Head(reqs).hand}
         IN  IF others = {} THEN <<>>
             ELSE SubSeq(reqs, CHOOSE i \in others : \A j \in others : i <= j, Len(reqs))

\* StartHand returns the error of a rejected registration and starts nothing.
Answered(c, ok) ==
    /\ plan' = [plan EXCEPT ![c] = IF ok = "ok" THEN Tail(@) ELSE SkipHand(@)]
    /\ waiting' = [waiting EXCEPT ![c] = FALSE]
    /\ command' = IF c = "operator" /\ ok = "rejected" THEN {} ELSE command

\* herald's control plane serves one request: Registry::register, deregister or
\* list_hands, and the reply if somebody still waits for it.
Serve(req) ==
    /\ herald = "up"
    /\ req \in net
    /\ net' = net \ {req}
    /\ registry' = CASE req.op = "register" /\ req.hand \notin Refused
                            -> registry \cup {<<req.hand, req.symbol>>}
                     [] req.op = "deregister"
                            -> {r \in registry : r[1] # req.hand}
                     [] OTHER -> registry
    /\ listed' = IF req.op = "list" /\ req.by = "heartbeat" THEN {{r[1] : r \in registry}} ELSE listed
    /\ IF req.by = ""
       THEN UNCHANGED <<plan, waiting, command>>
       ELSE Answered(req.by, IF req.op = "register" /\ req.hand \in Refused
                             THEN "rejected" ELSE "ok")
    /\ UNCHANGED <<status, herald, heraldId, announced, lastId, commands, faults>>

\* The context's deadline passes first: ErrUnavailable.  The request, if it is
\* still under way, is no longer waited for.
GiveUp(c) ==
    /\ waiting[c]
    /\ LET mine == {r \in net : r.by = c}
       IN  /\ mine # {} => faults < MaxFaults
           /\ faults' = IF mine = {} THEN faults ELSE faults + 1
           /\ net' = (net \ mine) \cup {[r EXCEPT !.by = ""] : r \in mine}
    /\ Answered(c, "unavailable")
    /\ UNCHANGED <<status, registry, herald, heraldId, announced, lastId, listed, commands>>

\* A request nobody waits for is lost on the way.
Lose ==
    /\ \E r \in net : r.by = "" /\ net' = net \ {r}
    /\ UNCHANGED <<status, registry, herald, heraldId, announced, lastId, plan, waiting,
                   command, listed, commands, faults>>

-----------------------------------------------------------------------------
(* herald's life                                                           *)

Crash ==
    /\ herald = "up" /\ faults < MaxFaults
    /\ faults' = faults + 1
    /\ herald' = "down"
    /\ registry' = {} /\ net' = {} /\ announced' = {}
    /\ UNCHANGED <<status, heraldId, lastId, plan, waiting, command, listed, commands>>

\* control_plane_task subscribes to everything and then announces itself; the
\* event is published once, and may be lost.
Restart ==
    /\ herald = "down"
    /\ herald' = "up" /\ heraldId' = heraldId + 1
    /\ announced' \in {{}, {heraldId + 1}}
    /\ UNCHANGED <<status, registry, lastId, net, plan, waiting, command, listed, commands, faults>>

\* subscribeHeraldReady: another herald than the last one seen means that every
\* running hand is registered again.
Ready ==
    /\ announced # {} /\ plan["ready"] = <<>>
    /\ announced' = {}
    /\ lastId' \in announced
    /\ plan' = IF lastId \in announced THEN plan
               ELSE [plan EXCEPT !["ready"] = ForAll(Registers, Running)]
    /\ UNCHANGED <<status, registry, herald, heraldId, net, waiting, command, listed,
                   commands, faults>>

-----------------------------------------------------------------------------
(* The heartbeat                                                           *)

\* doHeraldHeartbeat begins with engine.list, unless a beat is under way.
Beat ==
    /\ plan["heartbeat"] = <<>> /\ listed = {}
    /\ plan' = [plan EXCEPT !["heartbeat"] = List]
    /\ UNCHANGED <<status, registry, herald, heraldId, announced, lastId, net, waiting,
                   command, listed, commands, faults>>

\* Mutant: hands that herald lists and that do not run are left there.
CompareMissingOnly ==
    /\ listed # {} /\ plan["heartbeat"] = <<>>
    /\ LET ids == CHOOSE s \in listed : TRUE
       IN  plan' = [plan EXCEPT !["heartbeat"] = Missing(Running \ ids)]
    /\ listed' = {}
    /\ UNCHANGED <<status, registry, herald, heraldId, announced, lastId, net, waiting,
                   command, commands, faults>>

\* The answer is compared with the hands that run by now: those herald has not
\* got are to be registered, then those that do not run deregistered.
Compare ==
    /\ listed # {} /\ plan["heartbeat"] = <<>>
    /\ LET ids == CHOOSE s \in listed : TRUE
       IN  plan' = [plan EXCEPT !["heartbeat"] =
                        Missing(Running \ ids) \o ForAll(Deregisters, ids \ Running)]
    /\ listed' = {}
    /\ UNCHANGED <<status, registry, herald, heraldId, announced, lastId, net, waiting,
                   command, commands, faults>>

\* heraldReregisterByIDs asks again which hands run, and registers the missing
\* ones among them.
ReregisterByIDs ==
    /\ plan["heartbeat"] # <<>> /\ Head(plan["heartbeat"]).op = "missing"
    /\ plan' = [plan EXCEPT !["heartbeat"] =
                   ForAll(Registers, Running \cap Head(@).hands) \o Tail(@)]
    /\ UNCHANGED <<status, registry, herald, heraldId, announced, lastId, net, waiting,
                   command, listed, commands, faults>>

-----------------------------------------------------------------------------
(* The operator                                                            *)

\* StartHand registers first; StopHand, KillHand and ReleaseHand deregister first.
Command(op, h) ==
    /\ command = {} /\ plan["operator"] = <<>>
    /\ commands < MaxCommands
    /\ commands' = commands + 1
    /\ status[h] # "gone"
    /\ command' = {[op |-> op, hand |-> h]}
    /\ plan' = [plan EXCEPT !["operator"] = IF op = "start" THEN Registers(h) ELSE Deregisters(h)]
    /\ UNCHANGED <<status, registry, herald, heraldId, announced, lastId, net, waiting, listed, faults>>

\* With the calls behind it, whatever became of them, the command takes effect.
Effect ==
    /\ command # {} /\ plan["operator"] = <<>>
    /\ \E cmd \in command :
        status' = [status EXCEPT ![cmd.hand] =
                      CASE cmd.op = "start" -> "running" [] cmd.op = "stop" -> "stopped"
                        [] cmd.op = "kill" -> "gone"]
    /\ command' = {}
    /\ UNCHANGED <<registry, herald, heraldId, announced, lastId, net, plan, waiting, listed,
                   commands, faults>>

RegistrationNext ==
    \/ \E c \in Callers : Send(c) \/ GiveUp(c)
    \/ \E req \in net : Serve(req)
    \/ Lose \/ Crash \/ Restart \/ Ready \/ Beat \/ Compare \/ ReregisterByIDs \/ Effect
    \/ \E op \in {"start", "stop", "kill"}, h \in Hands : Command(op, h)

\* herald comes back and serves what it receives; a deadline passes; the
\* heartbeat's ticker never stops.
RegistrationFairness ==
    /\ WF_syncVars(Restart) /\ WF_syncVars(Beat) /\ WF_syncVars(Compare)
    /\ WF_syncVars(ReregisterByIDs)
    /\ WF_syncVars(Ready) /\ WF_syncVars(Effect)
    /\ \A c \in Callers : WF_syncVars(Send(c))
    /\ \A c \in Callers : WF_syncVars(GiveUp(c) /\ {r \in net : r.by = c} = {})
    /\ WF_syncVars(\E req \in net : Serve(req))

RegistrationSpec == RegistrationInit /\ [][RegistrationNext]_syncVars /\ RegistrationFairness

-----------------------------------------------------------------------------
(* Properties                                                              *)

RegistrationTypeOK ==
    /\ status \in [Hands -> {"stopped", "running", "gone"}]
    /\ registry \subseteq UNION {{h} \X Range(Symbols[h]) : h \in Hands}
    /\ lastId <= heraldId
    /\ \A r \in net : r.by \in Callers \cup {""}
    /\ \A c \in Callers : Cardinality({r \in net : r.by = c}) <= 1
    /\ \A c \in Callers : waiting[c] => plan[c] # <<>>

Agreed == {r[1] : r \in registry} = Running \ Refused

\* Once commands, crashes and lost requests are over, the heartbeat brings herald
\* and helm to agree on the hands for good, whatever races went before: a late
\* deregister of a hand started again, a hand started between list and compare,
\* a lost engine.ready.  On the way there a caller has at most one request out and
\* herald knows only symbols of helm's hands.
Converges == []RegistrationTypeOK /\ <>[]Agreed

\* "hand will re-register on next heartbeat", of a hand with several symbols too.
EverySymbol ==
    <>[](\A h \in Running \ Refused : \A i \in DOMAIN Symbols[h] : <<h, Symbols[h][i]>> \in registry)
=============================================================================
