------------------------------- MODULE MCUpkeep -------------------------------
(***************************************************************************)
(* What must come to an end in the background, for TLC: the projection of  *)
(* the vault (VaultSchedule, one worker) and the upgrade of a store that   *)
(* several processes open (Migrations), and the shadow read, whose copy    *)
(* must recover from a refresh that broke off (Shadow): collecting lines,  *)
(* and scoring every short log.  They share no state; part says which of   *)
(* them a behaviour is about.                                              *)
(***************************************************************************)
EXTENDS Migrations, Shadow, TLC

CONSTANTS p1, p2, p3
CONSTANTS Workers, NPages, MaxChain, Debounce, MaxWait, MaxAttempts, Backoff, w1

VARIABLES part,
          handles, status, due, age, attempts, holder, late, page, index, job, pos, snap, givenUp

V == INSTANCE VaultSchedule

ASSUME V!VaultConstants /\ ShadowConstants

(* A worker of a build that has no index refresh, whose retries wait one   *)
(* tick.  *)
OneWorker   == {w1}
ProjectOnly == [w \in Workers |-> {"project"}]
MCBackoff   == [a \in 1..MaxAttempts |-> 1]

(* One that opens without the lock, has the migrations in a text of its own
   and is not allowed to migrate data, and two that take the lock, one of them
   of an older build.  The store is new.  *)
MCProcess == {p1, p2, p3}
MCTarget  == (p1 :> 2) @@ (p2 :> 2) @@ (p3 :> 1)

vaultVars == <<handles, status, due, age, attempts, holder, late, page, index, job, pos, snap,
               givenUp>>

MCInit ==
    /\ part \in {"vault", "migrate", "collect", "score"}
    /\ V!Init /\ handles = ProjectOnly /\ MigrationsInit /\ ShadowInit
    /\ part # "migrate" => lockFile = "none"

(* Collecting: a sample of one line.  What the store holds and what a
   turn costs do not matter for whether a line is left.  *)
Collect ==
    /\ ShadowNext
    /\ DOMAIN log' \subseteq {1}
    /\ \A i \in DOMAIN log' : log'[i].build = "this" /\ ~log'[i].slow
    /\ held' # {} => log' # <<>> /\ UNCHANGED <<copy, turn>>

(* Scoring: every line a turn can leave, of any age within the bound, and
   every line of somebody else.  *)
Lines ==
    {LineOf(x, v2, old, refreshed, slow) :
        x \in Outcomes(Memory) \cup Outcomes({}), v2 \in SUBSET Memory,
        old \in {0}, refreshed \in BOOLEAN, slow \in BOOLEAN}

Score ==
    \/ \E l \in Lines : AppendLine(l) /\ UNCHANGED <<held, copy, turn, breaks>>
    \/ \E l \in Others : Foreign(l)

MCNext ==
    /\ part' = part
    /\ \/ part = "vault" /\ V!Next /\ UNCHANGED <<migrationVars, shadowVars>>
       \/ part = "migrate" /\ MigrationsNext /\ UNCHANGED <<vaultVars, shadowVars>>
       \/ part = "collect" /\ Collect /\ UNCHANGED <<vaultVars, migrationVars>>
       \/ part = "score" /\ Score /\ UNCHANGED <<vaultVars, migrationVars>>

(* The fairness of the modules, each in its own part.  In a vault behaviour
   the store is never opened; in a migration no write ever queues a
   projection.  Turns keep coming, a turn's shadow goes on, and time passes. *)
MCSpec ==
    /\ MCInit /\ [][MCNext]_<<part, vaultVars, migrationVars, shadowVars>>
    /\ V!Fairness
    /\ \A p \in Process : /\ WF_migrationVars(part = "migrate" /\ Open(p))
                          /\ WF_migrationVars(part = "migrate" /\ Proceed(p))
    /\ WF_migrationVars(Age)
    /\ \A t \in Thread : /\ WF_shadowVars(part = "collect" /\ log = <<>> /\ Answer(t))
                         /\ WF_shadowVars(part = "collect" /\ log = <<>> /\ GoOn(t) /\ Collect)
    /\ WF_shadowVars(part = "collect" /\ MinutesPass)

(* A queued projection or refresh runs, however fast writes come, and the   *)
(* pages catch up when they stop (VaultSchedule). *)
VaultCatchesUp == V!QueuedRuns /\ V!PagesCatchUp

(* A store that is opened again and again by builds it does not refuse is  *)
(* brought up to date (Migrations). *)
Upgraded == part = "migrate" => EndsUpToDate

(* A sample that was begun gets a line (Shadow). *)
LinesAreLeft == part = "collect" => TurnsAreMeasured
=============================================================================
