----------------------------- MODULE WorkLedger -----------------------------
(***************************************************************************)
(* What the durable queue promises to the code that hands it work          *)
(* (em/store/jobs.py, module docstring): a piece of work, once accepted,   *)
(* is tried a bounded number of times, is settled as done only out of a    *)
(* try, is given up only out of a try, and a settled piece of work is      *)
(* never tried again unless an operator asks for it.                       *)
(*                                                                         *)
(* Workers, leases, clocks, priorities and dedupe keys do not exist here.  *)
(* JobQueue implements this module (JobQueue!LedgerSpec).                  *)
(***************************************************************************)
EXTENDS Naturals

CONSTANTS Work,        \* identities of the pieces of work
          MaxTries     \* tries before a piece of work is given up

VARIABLES state,       \* state[j]: where the ledger has piece j
          tries        \* tries[j]: tries charged to j since it was last accepted

ledgerVars == <<state, tries>>

LedgerInit ==
    /\ state = [j \in Work |-> "absent"]
    /\ tries = [j \in Work |-> 0]

(* Work is accepted once. *)
Accept(j) ==
    /\ state[j] = "absent"
    /\ state' = [state EXCEPT ![j] = "owed"]
    /\ tries' = [tries EXCEPT ![j] = 0]

(* A try is charged before it runs, and only while some are left.  The     *)
(* same step may give up on other work whose last try never reported.      *)
Try(j, givenUp) ==
    /\ state[j] = "owed"
    /\ tries[j] < MaxTries
    /\ j \notin givenUp
    /\ \A i \in givenUp : state[i] = "owed" /\ tries[i] = MaxTries
    /\ tries' = [tries EXCEPT ![j] = @ + 1]
    /\ state' = [i \in Work |-> IF i \in givenUp THEN "dead" ELSE state[i]]

GiveUp(givenUp) ==
    /\ \A i \in givenUp : state[i] = "owed" /\ tries[i] = MaxTries
    /\ state' = [i \in Work |-> IF i \in givenUp THEN "dead" ELSE state[i]]
    /\ UNCHANGED tries

(* An interrupted try is handed back uncharged. *)
HandBack(j) ==
    /\ state[j] = "owed"
    /\ tries[j] > 0
    /\ tries' = [tries EXCEPT ![j] = @ - 1]
    /\ UNCHANGED state

Settle(j, outcome) ==
    /\ state[j] = "owed"
    /\ tries[j] > 0
    /\ state' = [state EXCEPT ![j] = outcome]
    /\ UNCHANGED tries

Revive(j) ==
    /\ state[j] = "dead"
    /\ state' = [state EXCEPT ![j] = "owed"]
    /\ tries' = [tries EXCEPT ![j] = 0]

Forget(gone) ==
    /\ \A i \in gone : state[i] \in {"done", "dead"}
    /\ state' = [i \in Work |-> IF i \in gone THEN "forgotten" ELSE state[i]]
    /\ tries' = [i \in Work |-> IF i \in gone THEN 0 ELSE tries[i]]

LedgerNext ==
    \/ \E j \in Work :
          \/ Accept(j)
          \/ HandBack(j)
          \/ Settle(j, "done")
          \/ Settle(j, "dead")
          \/ Revive(j)
          \/ \E givenUp \in SUBSET Work : Try(j, givenUp)
    \/ \E them \in SUBSET Work : GiveUp(them) \/ Forget(them)

LedgerSpec == LedgerInit /\ [][LedgerNext]_ledgerVars
=============================================================================
