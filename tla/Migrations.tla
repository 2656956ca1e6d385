------------------------------ MODULE Migrations ------------------------------
(***************************************************************************)
(* Opening a store and bringing its schema up to date (em/store/db.py,     *)
(* em/store/migrations/__init__.py).  Processes of different builds open   *)
(* the same file.  Some go through ensure_schema, which holds a lock file  *)
(* while it migrates; V3Engine and `memory upgrade` call migrate without   *)
(* it.  A lock file older than ten minutes counts as abandoned, whether    *)
(* its owner lives or not, and whoever leaves removes the file that is     *)
(* there, so migrators can overlap even among those who lock.              *)
(*                                                                         *)
(* What keeps an overlap harmless is that a migration, its row in          *)
(* schema_migrations (keyed by version) and the user_version bump are one  *)
(* write transaction.  A transaction is one step here: a crash inside it   *)
(* is a crash before it.                                                   *)
(***************************************************************************)
EXTENDS Integers, Sequences

CONSTANTS
    Process,
    Target,       \* the latest migration each process's build knows
    Locking,      \* the processes that open through ensure_schema
    Edited,       \* those whose build has the migrations in another text
    Allowed,      \* those the path guard lets migrate a store with data: it
                  \*   is in a scratch path, or the environment permits it
    FirstVersion, \* user_version of the store at the start
    HasData,      \* that store has tables of data
    MaxFailures   \* bound: crashes and failed steps

ASSUME MigrationConstants ==
    /\ Target \in [Process -> Nat \ {0}]
    /\ Locking \subseteq Process /\ Edited \subseteq Process /\ Allowed \subseteq Process
    /\ FirstVersion \in Nat /\ MaxFailures \in Nat
    /\ HasData \in BOOLEAN

VARIABLES
    version,      \* PRAGMA user_version
    recorded,     \* schema_migrations: the text (checksum) of each version
    applied,      \* history: the migrations the data went through, in order
    backups,      \* pre-migrate copies: their label, and the version inside
    lockFile,     \* migration.lock: "none", "fresh", "stale"
    pc, from, next,
    failures

migrationVars == <<version, recorded, applied, backups, lockFile, pc, from, next,
                   failures>>

Latest == CHOOSE v \in {Target[p] : p \in Process} :
              \A p \in Process : Target[p] <= v

Steps == {"closed", "lock", "takeover", "retry", "takeagain", "read", "backup",
          "apply"}

Go(p, step) == pc' = [pc EXCEPT ![p] = step]

(* The end of a call, in whatever way: one that locked unlinks the file, even
   one that another process created since.  *)
Leave(p) ==
    /\ Go(p, "closed")
    /\ lockFile' = IF p \in Locking THEN "none" ELSE lockFile

MigrationsInit ==
    /\ version = FirstVersion
    /\ recorded = [v \in 1..FirstVersion |-> "released"]
    /\ applied = [v \in 1..FirstVersion |-> v]
    /\ backups = {}
    /\ lockFile \in {"none", "stale"}    \* possibly one a crashed migrator left
    /\ pc = [p \in Process |-> "closed"]
    /\ from = [p \in Process |-> 0]
    /\ next = [p \in Process |-> 0]
    /\ failures = 0

-----------------------------------------------------------------------------
(* ensure_schema's look at user_version, before the lock; a current store, or
   one of a later build (DowngradeError), is not touched.  migrate itself
   starts at "read".  *)
Open(p) ==
    /\ pc[p] = "closed"
    /\ p \in Locking => version < Target[p]
    /\ Go(p, IF p \in Locking THEN "lock" ELSE "read")
    /\ UNCHANGED <<version, recorded, applied, backups, lockFile, from, next, failures>>

(* The two attempts of _create_lock_exclusive.  A fresh file means somebody is
   migrating, and the open is refused at once.  *)
Lock(p) ==
    /\ pc[p] \in {"lock", "retry"}
    /\ CASE lockFile = "none"  -> Go(p, "read") /\ lockFile' = "fresh"
         [] lockFile = "fresh" -> Go(p, "closed") /\ UNCHANGED lockFile
         [] lockFile = "stale" -> /\ Go(p, IF pc[p] = "lock" THEN "takeover" ELSE "takeagain")
                                  /\ UNCHANGED lockFile
    /\ UNCHANGED <<version, recorded, applied, backups, from, next, failures>>

(* The unlink, of whatever file is there by now. *)
TakeOver(p) ==
    /\ pc[p] \in {"takeover", "takeagain"}
    /\ lockFile' = "none"
    /\ Go(p, IF pc[p] = "takeover" THEN "retry" ELSE "closed")
    /\ UNCHANGED <<version, recorded, applied, backups, from, next, failures>>

Text(p) == IF p \in Edited THEN "edited" ELSE "released"

(* _verify_checksums: what the store went through is what p's build has.    *)
Verified(p) == \A v \in DOMAIN recorded : v <= Target[p] => recorded[v] = Text(p)

(* The path guard, which spares a store without tables of data; the first   *)
(* migration makes such tables. *)
Guarded(p) == p \notin Allowed /\ (version > 0 \/ HasData)

(* The head of migrate: what is pending, by the version of this moment, and
   the refusals.  *)
Read(p) ==
    /\ pc[p] = "read"
    /\ from' = [from EXCEPT ![p] = version]
    /\ IF version >= Target[p] \/ ~Verified(p) \/ Guarded(p)
       THEN Leave(p)
       ELSE Go(p, "backup") /\ UNCHANGED lockFile
    /\ UNCHANGED <<version, recorded, applied, backups, next, failures>>

(* _backup: a verified copy of the store of this moment, labelled with the
   versions read before.  *)
Backup(p) ==
    /\ pc[p] = "backup"
    /\ backups' = backups \cup
                  {[from |-> from[p], to |-> Target[p], holds |-> version]}
    /\ next' = [next EXCEPT ![p] = from[p] + 1]
    /\ Go(p, "apply")
    /\ UNCHANGED <<version, recorded, applied, lockFile, from, failures>>

(* One pending migration, its row and the bump.  A row that is already there
   rolls the transaction back and ends the call.  *)
Recorded(p) == [v \in DOMAIN recorded \cup {next[p]} |->
                   IF v = next[p] THEN Text(p) ELSE recorded[v]]

(* Variant: the row is INSERT OR REPLACE. *)
ApplyOver(p) ==
    /\ pc[p] = "apply"
    /\ recorded' = Recorded(p)
    /\ applied' = Append(applied, next[p])
    /\ version' = next[p]
    /\ next' = [next EXCEPT ![p] = @ + 1]
    /\ IF next[p] < Target[p] THEN UNCHANGED <<pc, lockFile>> ELSE Leave(p)
    /\ UNCHANGED <<backups, from, failures>>

Apply(p) ==
    /\ pc[p] = "apply"
    /\ IF next[p] \in DOMAIN recorded
       THEN Leave(p) /\ UNCHANGED <<version, recorded, applied, next>>
       ELSE /\ recorded' = Recorded(p)
            /\ applied' = Append(applied, next[p])
            /\ version' = next[p]
            /\ next' = [next EXCEPT ![p] = @ + 1]
            /\ IF next[p] < Target[p] THEN UNCHANGED <<pc, lockFile>> ELSE Leave(p)
    /\ UNCHANGED <<backups, from, failures>>

(* The copy does not verify, or a migration raises: its transaction is rolled
   back and the exception ends the call.  *)
Fail(p) ==
    /\ pc[p] \in {"backup", "apply"}
    /\ failures < MaxFailures
    /\ failures' = failures + 1
    /\ Leave(p)
    /\ UNCHANGED <<version, recorded, applied, backups, from, next>>

(* The process dies; its lock file stays. *)
Crash(p) ==
    /\ pc[p] # "closed"
    /\ failures < MaxFailures
    /\ failures' = failures + 1
    /\ Go(p, "closed")
    /\ UNCHANGED <<version, recorded, applied, backups, lockFile, from, next>>

(* Ten minutes pass.  Variant: a lock is never old. *)
AgeNever ==
    /\ lockFile = "stale" /\ lockFile' = "fresh"
    /\ UNCHANGED <<version, recorded, applied, backups, pc, from, next, failures>>

Age ==
    /\ lockFile = "fresh" /\ lockFile' = "stale"
    /\ UNCHANGED <<version, recorded, applied, backups, pc, from, next, failures>>

Proceed(p) == Lock(p) \/ TakeOver(p) \/ Read(p) \/ Backup(p) \/ Apply(p)

MigrationsNext ==
    \/ \E p \in Process : Open(p) \/ Proceed(p) \/ Fail(p) \/ Crash(p)
    \/ Age

(* Every process keeps opening the store, and one that is running goes on. *)
MigrationsFairness ==
    /\ \A p \in Process : WF_migrationVars(Open(p)) /\ WF_migrationVars(Proceed(p))
    /\ WF_migrationVars(Age)

MigrationsSpec == MigrationsInit /\ [][MigrationsNext]_migrationVars /\ MigrationsFairness

-----------------------------------------------------------------------------
(* Every variable has its type. *)
TypeOK ==
    /\ version \in 0..Latest
    /\ DOMAIN recorded \subseteq 1..Latest
    /\ \A v \in DOMAIN recorded : recorded[v] \in {"released", "edited"}
    /\ applied \in Seq(1..Latest)
    /\ backups \subseteq [from : 0..Latest, to : 0..Latest, holds : 0..Latest]
    /\ lockFile \in {"none", "fresh", "stale"}
    /\ pc \in [Process -> Steps]
    /\ from \in [Process -> 0..Latest]
    /\ next \in [Process -> 0..Latest + 1]
    /\ failures \in 0..MaxFailures

(* The data went through the migrations one to user_version, each once and in
   order, all of one text, and schema_migrations says so: whatever overlaps,
   fails or dies, and whichever builds meet.  *)
AppliedInOrder ==
    /\ DOMAIN recorded = 1..version
    /\ applied = [v \in 1..version |-> v]
    /\ \A v, w \in DOMAIN recorded : recorded[v] = recorded[w]

(* A migration that commits belongs to a run whose own backup holds the store
   as the run's label says, although another run may have been migrating it
   when the backup was made.  *)
StartIsKept ==
    \A p \in Process :
        version' # version /\ next'[p] # next[p] =>
            \E b \in backups : b.from = from[p] /\ b.holds = from[p]

(* Each migration was applied once and in order, and is recorded, all of one
   text, and the run that committed it has a backup of the store as the run
   found it.  *)
MigratedWhole == [][AppliedInOrder' /\ StartIsKept]_migrationVars

(* Whoever keeps opening a store, and is refused neither for its path nor for
   its text of the migrations, ends with a schema as new as its build's, though
   migrators die holding the lock.  Failures end (MaxFailures): a migration the
   data makes fail every time, as LegacyStore has one, is not meant.  *)
EndsUpToDate == <>[](\A p \in Allowed : Verified(p) => version >= Target[p])
=============================================================================
