------------------------------ MODULE MCHerald ------------------------------
(* The live service of one symbol, the OKX feed and the strategy store on   *)
(* small instances.                                                         *)
EXTENDS Herald, OkxFeed, StrategyStore

CONSTANT HeraldParts    \* the specifications checked

VARIABLE running        \* which of them this behaviour is of

mcHeraldVars == <<running, heraldVars, okxVars, storeVars>>

\* A hand on the base that reads the higher timeframe, and one on that.
AllKinds == {[tf |-> Base, htfs |-> {Htf}], [tf |-> Htf, htfs |-> {}]}

\* A version number below all that next_version gives, and the greatest one.
LowestAndHighest == {-1, MaxVersion}

MCHeraldInit ==
    /\ running \in HeraldParts
    /\ HeraldInit /\ OkxInit /\ StoreInit
    /\ running # "herald" => htfLeads
    /\ running # "store" => backend = CHOOSE b \in Backends : TRUE

MCHeraldNext ==
    \/ running = "herald" /\ HeraldNext /\ UNCHANGED <<running, okxVars, storeVars>>
    \/ running = "okx" /\ OkxNext /\ UNCHANGED <<running, heraldVars, storeVars>>
    \/ running = "store" /\ StoreNext /\ UNCHANGED <<running, heraldVars, okxVars>>

MCHeraldSpec == MCHeraldInit /\ [][MCHeraldNext]_mcHeraldVars
=============================================================================
