----------------------------- MODULE MCServices -----------------------------
(* What herald and helm exchange, on small instances: registrations, and    *)
(* signals on their way out.                                                *)
EXTENDS Registration, SignalPublisher

CONSTANT Services   \* the specifications checked

VARIABLE service    \* which of them this behaviour is of

servicesVars == <<service, syncVars, pubVars>>

\* Hand b trades two symbols, the others one.
OneAndTwo == [h \in {"a", "b", "c"} |-> IF h = "b" THEN <<"x", "y">> ELSE <<"x">>]

ServicesInit ==
    /\ service \in Services
    /\ RegistrationInit /\ PublisherInit
    /\ service # "registration" => Running = {}

\* Bounds the runs: a second command only where no refused hand is concerned.
SecondCommand ==
    commands = 0 \/ \A h \in Refused : status[h] = "stopped" /\ \A c \in command' : c.hand # h

ServicesNext ==
    \/ /\ service = "registration" /\ RegistrationNext /\ UNCHANGED <<service, pubVars>>
       /\ commands' > commands => SecondCommand
    \/ service = "publisher" /\ PublisherNext /\ UNCHANGED <<service, syncVars>>

InRegistration(A) == service = "registration" /\ A
InPublisher(A) == service = "publisher" /\ A

\* RegistrationFairness and PublisherFairness, each for its own behaviours.
ServicesFairness ==
    /\ WF_syncVars(InRegistration(Restart)) /\ WF_syncVars(InRegistration(Beat))
    /\ WF_syncVars(InRegistration(Compare)) /\ WF_syncVars(InRegistration(Ready))
    /\ WF_syncVars(InRegistration(ReregisterByIDs)) /\ WF_syncVars(InRegistration(Effect))
    /\ \A c \in Callers : WF_syncVars(InRegistration(Send(c)))
    /\ \A c \in Callers : WF_syncVars(InRegistration(GiveUp(c) /\ {r \in net : r.by = c} = {}))
    /\ WF_syncVars(InRegistration(\E req \in net : Serve(req)))
    /\ WF_pubVars(InPublisher(Receive)) /\ WF_pubVars(InPublisher(Spawn))
    /\ \A s \in 1..MaxSignals : WF_pubVars(InPublisher(Attempt(s)))

ServicesSpec == ServicesInit /\ [][ServicesNext]_servicesVars /\ ServicesFairness

\* The same with a herald that keeps no caller waiting for the sake of another.
AttentiveSpec ==
    /\ ServicesSpec
    /\ \A c \in Callers : WF_syncVars(InRegistration(\E req \in net : req.by = c /\ Serve(req)))
=============================================================================
