-------------------------- MODULE MCTurnRetraction --------------------------
(***************************************************************************)
(* Instances of TurnRetraction for TLC.                                    *)
(***************************************************************************)
EXTENDS TurnRetraction, TLC

CONSTANTS s1, s2

TwoSessions == {s1, s2}

EveryOrigin == {"tool", "auto", "window"}
=============================================================================
