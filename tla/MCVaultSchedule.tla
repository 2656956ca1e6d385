--------------------------- MODULE MCVaultSchedule ---------------------------
(* Instances of VaultSchedule for TLC.                                     *)
EXTENDS VaultSchedule, TLC

CONSTANTS w1, w2

(* Retries wait one tick, whatever the attempt. *)
MCBackoff == [a \in 1..MaxAttempts |-> 1]

OneWorker == {w1}

=============================================================================
