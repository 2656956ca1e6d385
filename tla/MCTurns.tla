-------------------------------- MODULE MCTurns --------------------------------
(***************************************************************************)
(* What the provider does around a turn, for TLC: the numbering with its   *)
(* retractions, and Prefetch.  They share no state; part says which of     *)
(* them a behaviour is about.  In Prefetch the turns' calls and the        *)
(* questions asked ahead meet in the connection lock only: a behaviour has *)
(* one of them in full, and with questions one call and no commit.         *)
(***************************************************************************)
EXTENDS TurnRetraction, Prefetch, TLC

VARIABLE part

Begun == calls + (IF call = NoCall THEN 0 ELSE 1)

MCInit ==
    /\ part \in {"undo", "calls", "asks"}
    /\ Init
    /\ PrefetchInit
    /\ part # "calls" => live = {}
    /\ session = CHOOSE s \in Sessions : TRUE    \* sessions are alike

MCNext ==
    /\ part' = part
    /\ IF part = "undo" THEN Next /\ UNCHANGED prefetchVars ELSE PrefetchNext /\ UNCHANGED vars
    /\ part = "calls" => asked' = <<>> /\ closed' = "no"
    /\ part = "asks"  => Begun' <= 1 /\ generation' = 0

MCSpec ==
    /\ MCInit /\ [][MCNext]_<<part, vars, prefetchVars>>
    /\ WF_vars(Work) /\ PrefetchFairness
=============================================================================
