----------------------------- MODULE MCVaultPair -----------------------------
(***************************************************************************)
(* VaultSchedule, VaultPages and NoteIndex for TLC, side by side: when a   *)
(* pass runs, what it writes, and what the refresh makes of the vault are  *)
(* models of handlers which share no state here.                           *)
(* part says what a behaviour is about.                                    *)
(*   one, split, two: VaultSchedule with one worker that carries both      *)
(*     kinds of job; with two workers, one per kind, so that a refresh     *)
(*     runs beside a projection; or with both of them projecting (and no   *)
(*     refresh is ever requested), so that a row is taken over while its   *)
(*     first worker runs.                                                  *)
(*   page: VaultPages.  moves counts what the store and the user do.       *)
(*   notes: NoteIndex.                                                     *)
(***************************************************************************)
EXTENDS MCVaultSchedule, VaultPages, NoteIndex

CONSTANT MaxMoves

VARIABLES part, moves

TwoWorkers == {w1, w2}

(* When a row is next run does not matter to what is asked here. *)
AtOnce == [a \in 1..MaxAttempts |-> 0]

Carries(w) ==
    CASE part = "one"   -> IF w = w1 THEN Kinds ELSE {}
      [] part = "split" -> IF w = w1 THEN {"project"} ELSE {"reindex"}
      [] OTHER          -> {"project"}

\* Every memory makes a statement of its own.
OwnStatement == [m \in {"m1", "m2"} |-> m]

MCInit == part \in {"one", "split", "two", "page", "notes"} /\ moves = 0
          /\ Init /\ PagesInit /\ IndexInit
          /\ handles = [w \in Workers |-> Carries(w)]

Scheduling ==
    /\ Next
    /\ part = "two" => \A i \in 1..MaxChain : status'[<<"reindex", i>>] = "none"
    /\ UNCHANGED <<pageVars, moves, indexVars>>

Writing ==
    /\ PagesNext
    /\ moves' = IF StoreStep \/ UserStep THEN moves + 1 ELSE moves
    /\ moves' <= MaxMoves
    /\ UNCHANGED <<vars, indexVars>>

\* Notes are alike, and so are titles: the first file written is "m", titled
\* "X".  A file links to one title at most.  After what taints the index nothing
\* is asked of it before it is rebuilt, so nothing else is done.
Refreshing ==
    /\ IndexNext
    /\ saves = 0 /\ saves' = 1 => file'["m"].title = "X"
    /\ \A n \in Notes : Cardinality(file'[n].links) <= 1
    /\ tainted /\ stage \in {"idle", "walk"} =>
           stage' \in {"walk", "relink"} /\ UNCHANGED <<file, noted, met>>
    /\ UNCHANGED <<vars, pageVars, moves>>

MCNext ==
    /\ part' = part
    /\ \/ part \in {"one", "split", "two"} /\ Scheduling
       \/ part = "page" /\ Writing
       \/ part = "notes" /\ Refreshing

MCSpec == MCInit /\ [][MCNext]_<<part, moves, vars, pageVars, indexVars>>
=============================================================================
