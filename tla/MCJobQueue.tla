----------------------------- MODULE MCJobQueue -----------------------------
(* Small instances of JobQueue.                                            *)
EXTENDS JobQueue, TLC

CONSTANTS w1, w2, k1, embed, backup

MCWorkers == {w1, w2}
MCKeys == {k1}

(* An older build (w2) that registers only one of two types. *)
MCTypes == {embed, backup}
MCHandles == (w1 :> {embed, backup}) @@ (w2 :> {embed})
MCLease == (embed :> 0) @@ (backup :> 1)

(* BACKOFF_BASE * 2^(a-1), capped. *)
MCBackoff == [a \in 0..MaxAttempts |-> IF a <= 1 THEN 1 ELSE 2]

Symmetry == Permutations(MCWorkers)
=============================================================================
