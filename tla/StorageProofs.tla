---------------------------- MODULE StorageProofs -----------------------------
(***************************************************************************)
(* Theorems about the files of the store and its upgrade: Migrations, for  *)
(* any processes, builds and failures, and whatever the lock file does     *)
(* (nothing here depends on it); Backups, for any contents, any limits of  *)
(* the rotation, any days, and any engines, kills and failing disks; and   *)
(* LegacyStore, for any texts and likenesses and any number of writes.     *)
(* The three share no state.                                               *)
(***************************************************************************)
EXTENDS Migrations, Backups, LegacyStore, FiniteSetTheorems, WellFoundedInduction, TLAPS

-----------------------------------------------------------------------------
(* The strengthening. *)

Bookkeeping ==
    /\ version \in Nat
    /\ lockFile \in {"none", "fresh", "stale"}
    /\ pc \in [Process -> Steps]
    /\ from \in [Process -> Nat]
    /\ next \in [Process -> Nat]

(* What a run has read is not ahead of the store, and its next migration is *)
(* not past the store's next one. *)
NotAhead ==
    \A p \in Process :
        /\ pc[p] = "backup" => from[p] <= version
        /\ pc[p] = "apply"  => from[p] < next[p] /\ next[p] <= version + 1

(* A run that could still commit a migration found the store at the version *)
(* it read when it made its backup. *)
BackedUp ==
    \A p \in Process :
        pc[p] = "apply" => \/ next[p] <= version
                           \/ \E b \in backups : b.from = from[p] /\ b.holds = from[p]

(* A run that could still commit a migration has the text the store went    *)
(* through: it looked, and nobody has moved the store since but itself. *)
SameText ==
    \A p \in Process :
        /\ pc[p] = "backup" => from[p] < version \/ Verified(p)
        /\ pc[p] = "apply"  => next[p] <= version \/ Verified(p)

SchemaInv == Bookkeeping /\ AppliedInOrder /\ NotAhead /\ BackedUp /\ SameText

LEMMA SchemaInit == MigrationsInit => SchemaInv
  BY MigrationConstants
     DEF MigrationsInit, SchemaInv, Bookkeeping, AppliedInOrder, NotAhead, BackedUp, SameText,
         Steps

-----------------------------------------------------------------------------
(* A step of p that leaves the store alone, or moves it up, keeps what is   *)
(* known of the other runs. *)
LEMMA OthersKept ==
  ASSUME SchemaInv, NEW p \in Process, version' \in Nat, version <= version',
         backups \subseteq backups', version' = version => recorded' = recorded,
         \A q \in Process \ {p} : pc'[q] = pc[q] /\ from'[q] = from[q] /\ next'[q] = next[q],
         pc'[p] = "backup" => from'[p] <= version' /\ (from'[p] < version' \/ Verified(p)'),
         pc'[p] = "apply" => /\ from'[p] < next'[p] /\ next'[p] <= version' + 1
                             /\ \/ next'[p] <= version'
                                \/ \E b \in backups' : b.from = from'[p] /\ b.holds = from'[p]
                             /\ next'[p] <= version' \/ Verified(p)'
  PROVE  NotAhead' /\ BackedUp' /\ SameText'
<1>1. \A q \in Process : from[q] \in Nat /\ next[q] \in Nat
  BY DEF SchemaInv, Bookkeeping
<1>2. version \in Nat
  BY DEF SchemaInv, Bookkeeping
<1>3. NotAhead'
  BY <1>1, <1>2 DEF SchemaInv, NotAhead
<1>4. BackedUp'
  BY <1>1, <1>2 DEF SchemaInv, BackedUp
<1>5. SameText'
  <2>1. ASSUME NEW q \in Process \ {p}
        PROVE  /\ pc'[q] = "backup" => from'[q] < version' \/ Verified(q)'
               /\ pc'[q] = "apply" => next'[q] <= version' \/ Verified(q)'
    <3>1. CASE version' = version
      BY <3>1 DEF SchemaInv, SameText, Verified
    <3>2. CASE version' # version
      BY <1>1, <1>2, <3>2 DEF SchemaInv, NotAhead
    <3> QED  BY <3>1, <3>2
  <2> QED  BY <2>1 DEF SameText
<1> QED  BY <1>3, <1>4, <1>5

(* The end of a call, a refused lock, a death: p gives up, and the store    *)
(* stays. *)
LEMMA Closing ==
  ASSUME SchemaInv, NEW p \in Process, NEW s \in Steps \ {"backup", "apply"}, Go(p, s),
         UNCHANGED <<version, recorded, applied, backups, next>>,
         lockFile' \in {"none", "fresh", "stale"}, from' \in [Process -> Nat], \A q \in Process \ {p} : from'[q] = from[q]
  PROVE  SchemaInv'
<1>1. /\ pc' \in [Process -> Steps] /\ pc'[p] = s
      /\ \A q \in Process \ {p} : pc'[q] = pc[q]
  BY DEF SchemaInv, Bookkeeping, Go
<1>2. NotAhead' /\ BackedUp' /\ SameText'
  <2>1. version' \in Nat /\ version <= version' /\ backups \subseteq backups'
        /\ s # "backup" /\ s # "apply"
        /\ \A q \in Process \ {p} : next'[q] = next[q]
    BY DEF SchemaInv, Bookkeeping
  <2> QED  BY <1>1, <2>1, OthersKept
<1>3. Bookkeeping' /\ AppliedInOrder'
  BY <1>1 DEF SchemaInv, Bookkeeping, AppliedInOrder
<1> QED  BY <1>2, <1>3 DEF SchemaInv

LEMMA BackupInv == ASSUME SchemaInv, NEW p \in Process, Backup(p) PROVE SchemaInv'
<1>1. /\ version \in Nat /\ from[p] \in Nat /\ from[p] <= version
      /\ version' = version /\ from' = from
      /\ next' = [next EXCEPT ![p] = from[p] + 1] /\ pc' = [pc EXCEPT ![p] = "apply"]
      /\ backups' = backups \cup {[from |-> from[p], to |-> Target[p], holds |-> version]}
  BY DEF Backup, Go, SchemaInv, Bookkeeping, NotAhead
<1>2. Bookkeeping' /\ AppliedInOrder'
  BY <1>1 DEF Backup, SchemaInv, Bookkeeping, Steps, AppliedInOrder
<1>3. /\ pc'[p] = "apply" /\ next'[p] = from[p] + 1
      /\ \A q \in Process \ {p} : pc'[q] = pc[q] /\ from'[q] = from[q] /\ next'[q] = next[q]
  BY <1>1 DEF SchemaInv, Bookkeeping
<1>4. next'[p] <= version' \/ \E b \in backups' : b.from = from'[p] /\ b.holds = from'[p]
  <2>1. CASE from[p] < version
    BY <1>1, <1>3, <2>1
  <2>2. CASE from[p] = version
    <3> DEFINE copy == [from |-> from[p], to |-> Target[p], holds |-> version]
    <3>1. copy \in backups' /\ copy.from = from'[p] /\ copy.holds = from'[p]
      BY <1>1, <2>2
    <3> QED  BY <3>1
  <2> QED  BY <1>1, <2>1, <2>2
<1>5. /\ version' \in Nat /\ version <= version' /\ backups \subseteq backups'
      /\ pc'[p] # "backup" /\ from'[p] < next'[p] /\ next'[p] <= version' + 1
      /\ recorded' = recorded /\ (next'[p] <= version' \/ Verified(p)')
  BY <1>1, <1>3 DEF Backup, SchemaInv, SameText, Verified
<1>6. NotAhead' /\ BackedUp' /\ SameText'
  BY <1>3, <1>4, <1>5, OthersKept
<1> QED  BY <1>2, <1>6 DEF SchemaInv

(* The migration that commits is the store's next one. *)
LEMMA CommitsNext ==
  ASSUME SchemaInv, NEW p \in Process, Apply(p), next[p] \notin DOMAIN recorded
  PROVE  /\ next[p] = version + 1
         /\ \E b \in backups : b.from = from[p] /\ b.holds = from[p]
         /\ Verified(p)
<1>1. /\ DOMAIN recorded = 1..version /\ version \in Nat /\ next[p] \in Nat /\ from[p] \in Nat
      /\ from[p] < next[p] /\ next[p] <= version + 1
      /\ next[p] <= version \/ \E b \in backups : b.from = from[p] /\ b.holds = from[p]
      /\ next[p] <= version \/ Verified(p)
  BY DEF SchemaInv, Bookkeeping, AppliedInOrder, NotAhead, BackedUp, SameText, Apply
<1> QED  BY <1>1

LEMMA ApplyInv == ASSUME SchemaInv, NEW p \in Process, Apply(p) PROVE SchemaInv'
<1>1. CASE next[p] \in DOMAIN recorded
  BY <1>1, Closing DEF Apply, Leave, Steps, SchemaInv, Bookkeeping
<1>2. CASE next[p] \notin DOMAIN recorded
  <2>1. /\ next[p] = version + 1 /\ version \in Nat /\ from[p] < next[p] /\ from[p] \in Nat
        /\ \E b \in backups : b.from = from[p] /\ b.holds = from[p]
        /\ Verified(p)
    BY <1>2, CommitsNext DEF SchemaInv, Bookkeeping, NotAhead, Apply
  <2>2. /\ version' = version + 1 /\ recorded' = Recorded(p)
        /\ applied' = Append(applied, version + 1)
        /\ next' = [next EXCEPT ![p] = @ + 1] /\ from' = from /\ backups' = backups
        /\ pc' = pc \/ pc' = [pc EXCEPT ![p] = "closed"]
    BY <1>2, <2>1 DEF Apply, Leave, Go
  <2>3. Bookkeeping'
    <3>1. /\ pc \in [Process -> Steps] /\ next \in [Process -> Nat]
          /\ from \in [Process -> Nat] /\ lockFile \in {"none", "fresh", "stale"}
          /\ "closed" \in Steps
      BY DEF SchemaInv, Bookkeeping, Steps
    <3>2. pc' \in [Process -> Steps]
      BY <2>2, <3>1
    <3>3. next' \in [Process -> Nat] /\ from' \in [Process -> Nat] /\ version' \in Nat
      BY <2>1, <2>2, <3>1
    <3>4. lockFile' \in {"none", "fresh", "stale"}
      BY <1>2, <3>1 DEF Apply, Leave
    <3> QED  BY <3>2, <3>3, <3>4 DEF Bookkeeping
  <2>4. /\ DOMAIN recorded' = 1..version'
        /\ \A v \in 1..version : recorded'[v] = recorded[v]
        /\ recorded'[version + 1] = Text(p)
    BY <2>1, <2>2 DEF SchemaInv, AppliedInOrder, Recorded
  <2>8. /\ \A v, w \in DOMAIN recorded' : recorded'[v] = recorded'[w]
        /\ Verified(p)'
    <3>1. \A v \in 1..version : v <= Target[p] => recorded[v] = Text(p)
      BY <2>1 DEF Verified, SchemaInv, AppliedInOrder
    <3>2. version = 0 \/ (1 \in 1..version /\ 1 <= Target[p])
      BY <2>1, MigrationConstants
    <3>3. \A v \in 1..version : recorded[v] = Text(p)
      BY <2>1, <3>1, <3>2 DEF SchemaInv, AppliedInOrder
    <3>4. \A v \in 1..version' : recorded'[v] = Text(p)
      BY <2>1, <2>2, <2>4, <3>3
    <3> QED  BY <2>4, <3>4 DEF Verified, Text
  <2>5. applied' = [v \in 1..version' |-> v]
    <3>1. applied = [v \in 1..version |-> v] /\ applied \in Seq(Nat) /\ Len(applied) = version
      BY <2>1 DEF SchemaInv, AppliedInOrder
    <3> QED  BY <2>1, <2>2, <3>1
  <2>6. /\ \A q \in Process \ {p} : pc'[q] = pc[q] /\ from'[q] = from[q] /\ next'[q] = next[q]
        /\ next'[p] = version' + 1 /\ pc'[p] \in {"apply", "closed"}
    BY <2>1, <2>2 DEF SchemaInv, Bookkeeping, Apply
  <2>7. NotAhead' /\ BackedUp' /\ SameText'
    BY <2>1, <2>2, <2>6, <2>8, OthersKept
  <2> QED  BY <2>3, <2>4, <2>5, <2>7, <2>8 DEF SchemaInv, AppliedInOrder
<1> QED  BY <1>1, <1>2

LEMMA SchemaNext == SchemaInv /\ [MigrationsNext]_migrationVars => SchemaInv'
<1> SUFFICES ASSUME SchemaInv, [MigrationsNext]_migrationVars PROVE SchemaInv'
  OBVIOUS
<1>a. from \in [Process -> Nat] /\ lockFile \in {"none", "fresh", "stale"}
  BY DEF SchemaInv, Bookkeeping
<1>1. ASSUME NEW p \in Process, Open(p) PROVE SchemaInv'
  BY <1>1, <1>a, Closing DEF Open, Steps
<1>2. ASSUME NEW p \in Process, Lock(p) PROVE SchemaInv'
  <2>1. \E s \in Steps \ {"backup", "apply"} : Go(p, s)
    <3>1. \/ Go(p, "read") \/ Go(p, "closed") \/ Go(p, "takeover") \/ Go(p, "takeagain")
      <4>1. CASE lockFile = "none"
        BY <1>2, <4>1 DEF Lock
      <4>2. CASE lockFile = "fresh"
        BY <1>2, <4>2 DEF Lock
      <4>3. CASE lockFile = "stale"
        BY <1>2, <4>3 DEF Lock
      <4> QED  BY <1>a, <4>1, <4>2, <4>3
    <3> QED  BY <3>1 DEF Steps
  <2>2. lockFile' \in {"none", "fresh", "stale"}
    BY <1>2, <1>a DEF Lock
  <2> QED  BY <1>2, <1>a, <2>1, <2>2, Closing DEF Lock
<1>3. ASSUME NEW p \in Process, TakeOver(p) PROVE SchemaInv'
  <2>1. \E s \in Steps \ {"backup", "apply"} : Go(p, s)
    BY <1>3 DEF TakeOver, Steps
  <2> QED  BY <1>3, <1>a, <2>1, Closing DEF TakeOver
<1>4. ASSUME NEW p \in Process, Read(p) PROVE SchemaInv'
  <2>1. /\ version \in Nat /\ from' = [from EXCEPT ![p] = version]
        /\ UNCHANGED <<version, recorded, applied, backups, next>>
    BY <1>4 DEF Read, SchemaInv, Bookkeeping
  <2>2. from' \in [Process -> Nat] /\ from'[p] = version
        /\ \A q \in Process \ {p} : from'[q] = from[q]
    BY <1>a, <2>1
  <2>3. CASE version >= Target[p] \/ ~Verified(p) \/ Guarded(p)
    <3>1. Go(p, "closed") /\ lockFile' \in {"none", "fresh", "stale"}
      BY <1>a, <1>4, <2>3 DEF Read, Leave
    <3> QED  BY <2>1, <2>2, <3>1, Closing DEF Steps
  <2>4. CASE ~(version >= Target[p] \/ ~Verified(p) \/ Guarded(p))
    <3>1. /\ pc' \in [Process -> Steps] /\ pc'[p] = "backup"
          /\ \A q \in Process \ {p} : pc'[q] = pc[q]
      BY <1>4, <2>4 DEF Read, Go, SchemaInv, Bookkeeping, Steps
    <3>2. NotAhead' /\ BackedUp' /\ SameText'
      <4>1. /\ version' \in Nat /\ version <= version' /\ from'[p] <= version'
            /\ Verified(p)'
        BY <2>1, <2>2, <2>4 DEF Verified
      <4> QED  BY <2>1, <2>2, <3>1, <4>1, OthersKept
    <3>3. lockFile' \in {"none", "fresh", "stale"}
      BY <1>a, <1>4, <2>4 DEF Read
    <3> QED  BY <2>1, <2>2, <3>1, <3>2, <3>3 DEF SchemaInv, Bookkeeping, AppliedInOrder
  <2> QED  BY <2>3, <2>4
<1>5. ASSUME NEW p \in Process, Backup(p) PROVE SchemaInv'
  BY <1>5, BackupInv
<1>6. ASSUME NEW p \in Process, Apply(p) PROVE SchemaInv'
  BY <1>6, ApplyInv
<1>7. ASSUME NEW p \in Process, Fail(p) \/ Crash(p) PROVE SchemaInv'
  BY <1>7, <1>a, Closing DEF Fail, Crash, Leave, Steps
<1>8. CASE Age \/ UNCHANGED migrationVars
  BY <1>8 DEF Age, migrationVars, SchemaInv, Bookkeeping, AppliedInOrder, NotAhead, BackedUp,
             SameText, Verified
<1> QED  BY <1>1, <1>2, <1>3, <1>4, <1>5, <1>6, <1>7, <1>8 DEF MigrationsNext, Proceed

LEMMA SchemaStays == MigrationsSpec => []SchemaInv
  BY SchemaInit, SchemaNext, PTL DEF MigrationsSpec

-----------------------------------------------------------------------------
(* The theorems. *)

(* Whoever overlaps, fails or dies: the data went through the migrations    *)
(* one to user_version, each once and in order and all of one text, and     *)
(* schema_migrations says so. *)
THEOREM InOrder == MigrationsSpec => []AppliedInOrder
  BY SchemaStays, PTL DEF SchemaInv

(* And each migration that commits belongs to a run with a backup of the    *)
(* store as the run found it. *)
THEOREM MigratedInOrder == MigrationsSpec => MigratedWhole
<1>1. ASSUME SchemaInv, SchemaInv', MigrationsNext, NEW p \in Process,
             version' # version, next'[p] # next[p]
      PROVE  \E b \in backups : b.from = from[p] /\ b.holds = from[p]
  <2>1. PICK q \in Process : Apply(q) /\ next[q] \notin DOMAIN recorded
    BY <1>1 DEF MigrationsNext, Open, Proceed, Lock, TakeOver, Read, Backup, Apply, Fail, Crash, Age
  <2>2. q = p
    BY <1>1, <2>1 DEF Apply, SchemaInv, Bookkeeping
  <2> QED  BY <1>1, <2>1, <2>2, CommitsNext
<1>2. SchemaInv /\ SchemaInv' /\ [MigrationsNext]_migrationVars
      => [AppliedInOrder' /\ StartIsKept]_migrationVars
  BY <1>1 DEF SchemaInv, StartIsKept
<1> QED  BY SchemaStays, <1>2, PTL DEF MigrationsSpec, MigratedWhole

-----------------------------------------------------------------------------
(* Types. *)

Contents == 0..MaxContents \cup {Mixed}
Indexes  == Contents \cup {None}
Reasons  == {"", "scheduled", "pre-forget", "pre-restore", "pre-import", "pre-migrate"}
Drafts   == [id : Nat, reason : Reasons, day : Nat, memory : Int, index : Int]
CommandSteps    == {"idle", "memory", "index", "publish", "rotate", "delete", "stage", "unlog",
             "swap", "swapindex", "move", "moveindex"}
Ops      == {"none", "daily", "forget", "restore", "import"}

StoreOK ==
    /\ file \in Contents /\ wal \in 0..MaxContents \cup {None} /\ index \in Indexes
    /\ foreign \in BOOLEAN /\ damaged \in BOOLEAN /\ attached \in BOOLEAN
    /\ engine \in {"none", "v2", "writing", "v3"} /\ last \in 0..MaxContents
    /\ foreign => wal # None /\ ~(Alive /\ attached)

StepsOK ==
    /\ op \in [Actors -> Ops] /\ step \in [Actors -> CommandSteps] /\ snap \in [Actors -> Drafts]
    /\ \A a \in Actors : op[a] = "none" <=> step[a] = "idle"
    /\ op["job"] = "daily" <=> step["job"] \in {"memory", "index", "publish", "rotate"}
    /\ op["tool"] = "forget" <=> step["tool"] \in {"memory", "index", "publish", "delete"}
    /\ op["cli"] = "restore" =>
          step["cli"] \in {"memory", "index", "publish", "stage", "unlog", "swap", "swapindex"}
    /\ op["cli"] = "import" =>
          step["cli"] \in {"memory", "index", "publish", "move", "moveindex"}
    /\ op["job"] \in {"none", "daily"} /\ op["tool"] \in {"none", "forget"}
    /\ op["cli"] \in {"none", "restore", "import"}
    /\ step["job"] # "idle" \/ step["tool"] # "idle" => Alive

CopiesOK ==
    /\ clock \in 0..MaxSnapshots
    /\ stored \subseteq Drafts
    /\ \A s \in stored : s.id <= clock /\ s.memory \in Contents /\ s.index \in Indexes
    /\ \A a \in Actors :
          /\ snap[a].id <= clock
          /\ step[a] \in {"index", "publish"} => snap[a].memory \in Contents
          /\ step[a] = "publish" => snap[a].index \in Indexes
    /\ step["cli"] # "idle" => chosen.memory \in Contents /\ chosen.index \in Indexes
    /\ touched \in [start : BOOLEAN, copy : BOOLEAN]

DaysOK ==
    /\ day \in 1..MaxDay
    /\ queued \subseteq 1..day /\ made \subseteq queued
    /\ step["job"] # "idle" => payload \in queued
    /\ troubles \in 0..MaxTroubles

Shape == StoreOK /\ StepsOK /\ CopiesOK /\ DaysOK

LEMMA LiveIs ==
    ASSUME Shape
    PROVE  /\ Visible = IF wal = None THEN file ELSE IF foreign THEN Mixed ELSE wal
           /\ Visible \in Contents
<1>1. foreign \in BOOLEAN
  BY DEF Shape, StoreOK
<1>2. Visible = IF wal = None THEN file ELSE IF foreign THEN Mixed ELSE wal
  BY <1>1 DEF Visible
<1> QED BY <1>2 DEF Shape, StoreOK, Contents

LEMMA NextLiveIs ==
    ASSUME foreign' \in BOOLEAN
    PROVE  Visible' = IF wal' = None THEN file' ELSE IF foreign' THEN Mixed ELSE wal'
BY DEF Visible

LEMMA NoSnapIs == NoSnap \in Drafts /\ NoSnap.id = 0
<1>1. None \in Int
  BY DEF None
<1>2. "" \in Reasons
  BY DEF Reasons
<1> QED BY <1>1, <1>2 DEF NoSnap, Drafts

LEMMA ChangedIs == ASSUME Changed PROVE touched' \in [start : BOOLEAN, copy : BOOLEAN]
<1>1. (step["cli"] # "idle") \in BOOLEAN
  OBVIOUS
<1>2. \A b \in BOOLEAN : [start |-> b, copy |-> b] \in [start : BOOLEAN, copy : BOOLEAN]
  OBVIOUS
<1> QED BY <1>1, <1>2 DEF Changed

LEMMA StoreStays ==
    ASSUME BackupConstants, Shape, [BackupsNext]_backupVars PROVE StoreOK'
<1> USE DEF Shape, StoreOK, Contents, Indexes, None, Mixed, Alive
<1>0. MaxContents \in Nat /\ Visible \in Contents
  BY LiveIs DEF BackupConstants
<1>1. CASE Write \/ Delete
  BY <1>0, <1>1 DEF Write, Delete, Commit, StepsOK, Actors
<1>2. CASE Reindex
  BY <1>0, <1>2 DEF Reindex, process
<1>3. ASSUME NEW e \in {"v2", "v3"}, Start(e) PROVE StoreOK'
  BY <1>0, <1>3 DEF Start
<1>4. CASE Stop
  BY <1>0, <1>4 DEF Stop
<1>5. CASE Kill
  BY <1>0, <1>5 DEF Kill, store
<1>6. CASE Damage
  BY <1>0, <1>6 DEF Damage, process
<1>7. CASE Unlog
  BY <1>0, <1>7 DEF Unlog
<1>8. CASE Swap \/ MoveIn
  BY <1>0, <1>8 DEF Swap, MoveIn, CopiesOK
<1>9. CASE SwapIndex \/ MoveIndex
  BY <1>0, <1>9 DEF SwapIndex, MoveIndex, CopiesOK, process, IndexAfter
<1>10. CASE Acquire
  BY <1>10 DEF Acquire, store
<1>11. CASE Import
  BY <1>0, <1>11 DEF Import, store, process
<1>12. CASE UNCHANGED <<store, process, last>>
  BY <1>12 DEF store, process
<1>13. ASSUME NEW a \in Actors, CopyMemory(a) \/ CopyIndex(a) \/ Publish(a) \/ CopyFails(a)
       PROVE  UNCHANGED <<store, process, last>>
  BY <1>13 DEF CopyMemory, CopyIndex, Publish, CopyFails
<1>14. CASE SafeForget \/ NewDay \/ Enqueue \/ Daily \/ Rotate \/ Stage \/ Abandon \/ \E b \in stored : RunRestore(b)
  <2>1. UNCHANGED <<store, process, last>>
    BY <1>14 DEF SafeForget, NewDay, Enqueue, Daily, Rotate, Stage, Abandon, RunRestore
  <2> QED BY <1>12, <2>1
<1>15. CASE UNCHANGED backupVars
  BY <1>12, <1>15 DEF backupVars, store, process
<1> QED BY <1>1, <1>2, <1>3, <1>4, <1>5, <1>6, <1>7, <1>8, <1>9, <1>10, <1>11, <1>12, <1>13, <1>14, <1>15
        DEF BackupsNext

LEMMA StepsStay ==
    ASSUME BackupConstants, Shape, [BackupsNext]_backupVars PROVE StepsOK'
<1> USE DEF Shape, StepsOK, Actors, Ops, CommandSteps, Alive
<1>0. /\ NoSnap \in Drafts /\ Visible \in Int /\ index \in Int /\ clock + 1 \in Nat
      /\ day \in Nat
  <2>1. NoSnap \in Drafts
    BY NoSnapIs
  <2>2. \A c \in Indexes : c \in Int
    BY DEF Indexes, Contents, Mixed, None
  <2>3. Visible \in Contents /\ index \in Indexes
    BY LiveIs DEF StoreOK
  <2>4. clock + 1 \in Nat /\ day \in Nat
    BY DEF CopiesOK, DaysOK
  <2> QED BY <2>1, <2>2, <2>3, <2>4 DEF Indexes
<1>1. ASSUME NEW a \in Actors, CopyMemory(a) PROVE StepsOK'
  <2>1. snap' \in [Actors -> Drafts]
    BY <1>0, <1>1 DEF CopyMemory, Drafts
  <2> QED BY <1>1, <2>1 DEF CopyMemory, Goto, process
<1>2. ASSUME NEW a \in Actors, CopyIndex(a) PROVE StepsOK'
  <2>1. snap' \in [Actors -> Drafts]
    BY <1>0, <1>2 DEF CopyIndex, Drafts
  <2> QED BY <1>2, <2>1 DEF CopyIndex, Goto, process
<1>3. ASSUME NEW a \in Actors, Publish(a) PROVE StepsOK'
  BY <1>0, <1>3 DEF Publish, Goto, process, After
<1>4. ASSUME NEW a \in Actors, CopyFails(a) PROVE StepsOK'
  BY <1>0, <1>4 DEF CopyFails, Goto, process, EndCommand, Quit
<1>5. ASSUME NEW a \in Actors, NEW o, NEW r \in Reasons, BeginSnap(a, o, r)
      PROVE  snap' \in [Actors -> Drafts]
  BY <1>0, <1>5 DEF BeginSnap, Drafts, NoSnap
<1>6. CASE SafeForget
  <2>1. snap' \in [Actors -> Drafts]
    BY <1>5, <1>6 DEF SafeForget, Reasons
  <2> QED BY <1>6, <2>1 DEF SafeForget, Goto, process, BeginSnap
<1>7. CASE Daily
  <2>1. snap' \in [Actors -> Drafts]
    BY <1>5, <1>7 DEF Daily, Reasons
  <2> QED BY <1>7, <2>1 DEF Daily, process, BeginSnap
<1>8. ASSUME NEW b \in stored, RunRestore(b) PROVE StepsOK'
  <2>1. snap' \in [Actors -> Drafts]
    BY <1>5, <1>8 DEF RunRestore, Reasons
  <2> QED BY <1>8, <2>1 DEF RunRestore, process, BeginSnap
<1>9. CASE Import
  <2>1. snap' \in [Actors -> Drafts]
    BY <1>5, <1>9 DEF Import, Reasons
  <2> QED BY <1>9, <2>1 DEF Import, process, BeginSnap
<1>10. CASE Delete \/ Kill \/ Rotate
  BY <1>0, <1>10 DEF Delete, Kill, Rotate, Quit, process, Commit
<1>11. CASE Stage
  BY <1>0, <1>11 DEF Stage, EndCommand, Quit, process, Goto
<1>12. CASE SwapIndex \/ MoveIndex \/ Abandon
  BY <1>0, <1>12 DEF SwapIndex, MoveIndex, Abandon, EndCommand, Quit, process
<1>13. CASE Unlog \/ Swap \/ MoveIn
  BY <1>13 DEF Unlog, Swap, MoveIn, Goto
<1>14. CASE Write \/ Acquire
  BY <1>14 DEF Write, Acquire
<1>15. CASE Reindex \/ Damage \/ NewDay \/ Enqueue
  BY <1>15 DEF Reindex, Damage, NewDay, Enqueue, process
<1>16. CASE Stop
  BY <1>16 DEF Stop
<1>17. ASSUME NEW e \in {"v2", "v3"}, Start(e) PROVE StepsOK'
  BY <1>17 DEF Start
<1>18. CASE UNCHANGED backupVars
  BY <1>18 DEF backupVars
<1> QED BY <1>1, <1>2, <1>3, <1>4, <1>6, <1>7, <1>8, <1>9, <1>10, <1>11, <1>12, <1>13, <1>14,
           <1>15, <1>16, <1>17, <1>18
        DEF BackupsNext

LEMMA CopiesStay ==
    ASSUME BackupConstants, Shape, [BackupsNext]_backupVars PROVE CopiesOK'
<1> USE DEF Shape, CopiesOK
<1>0. /\ Visible \in Contents /\ index \in Indexes /\ clock \in Nat /\ MaxSnapshots \in Nat
      /\ StepsOK' /\ last \in 0..MaxContents /\ MaxContents \in Nat
      /\ \A s \in stored : s.id \in Nat
      /\ \A a \in Actors : snap[a].id \in Nat /\ snap[a] \in Drafts
  BY LiveIs, StepsStay DEF StoreOK, BackupConstants, StepsOK, Drafts
<1>1. ASSUME NEW a \in Actors, CopyMemory(a) PROVE CopiesOK'
  <2>1. /\ \A b \in Actors \ {a} : snap'[b] = snap[b] /\ step'[b] = step[b]
        /\ snap'[a].id = snap[a].id /\ snap'[a].memory = Visible /\ step'[a] = "index"
    BY <1>0, <1>1 DEF CopyMemory, Goto, StepsOK, Drafts
  <2>2. touched' \in [start : BOOLEAN, copy : BOOLEAN]
    BY <1>1 DEF CopyMemory
  <2> QED BY <1>0, <1>1, <2>1, <2>2 DEF CopyMemory, Actors
<1>2. ASSUME NEW a \in Actors, CopyIndex(a) PROVE CopiesOK'
  <2>1. /\ \A b \in Actors \ {a} : snap'[b] = snap[b] /\ step'[b] = step[b]
        /\ snap'[a].id = snap[a].id /\ snap'[a].memory = snap[a].memory
        /\ snap'[a].index = index /\ step'[a] = "publish"
    BY <1>0, <1>2 DEF CopyIndex, Goto, StepsOK, Drafts
  <2> QED BY <1>0, <1>2, <2>1 DEF CopyIndex, command, Actors
<1>3. ASSUME NEW a \in Actors, Publish(a) PROVE CopiesOK'
  <2>1. /\ \A b \in Actors \ {a} : snap'[b] = snap[b] /\ step'[b] = step[b]
        /\ snap'[a] = NoSnap /\ step'[a] \notin {"index", "publish", "idle"}
    BY <1>0, <1>3 DEF Publish, Goto, StepsOK, After, Actors
  <2>2. NoSnap.id = 0
    BY DEF NoSnap
  <2>3. stored' \subseteq Drafts /\ \A s \in stored' : s.id <= clock /\ s.memory \in Contents /\ s.index \in Indexes
    BY <1>0, <1>3 DEF Publish
  <2>4. \A b \in Actors : /\ snap'[b].id <= clock
                          /\ step'[b] \in {"index", "publish"} => snap'[b].memory \in Contents
                          /\ step'[b] = "publish" => snap'[b].index \in Indexes
    BY <1>0, <2>1, <2>2
  <2>5. step'["cli"] # "idle" => step["cli"] # "idle"
    BY <1>3, <2>1 DEF Publish, Actors
  <2> QED BY <1>0, <1>3, <2>3, <2>4, <2>5 DEF Publish, command
<1>4. ASSUME NEW A \in SUBSET Actors, Quit(A)
      PROVE  \A b \in Actors : /\ b \in A => snap'[b] = NoSnap /\ step'[b] = "idle"
                               /\ b \notin A => snap'[b] = snap[b] /\ step'[b] = step[b]
  BY <1>4 DEF Quit
<1>5. ASSUME NEW A \in SUBSET Actors, Quit(A), clock' = clock
      PROVE  \A b \in Actors : /\ snap'[b].id <= clock'
                               /\ step'[b] \in {"index", "publish"} => snap'[b].memory \in Contents
                               /\ step'[b] = "publish" => snap'[b].index \in Indexes
                               /\ b \in A => step'[b] = "idle"
                               /\ b \notin A => step'[b] = step[b]
  <2>1. NoSnap.id = 0
    BY DEF NoSnap
  <2> QED BY <1>0, <1>4, <1>5, <2>1
<1>6. ASSUME NEW a \in Actors, CopyFails(a) PROVE CopiesOK'
  <2>1. CASE op[a] = "restore"
    <3>1. /\ \A b \in Actors \ {a} : snap'[b] = snap[b] /\ step'[b] = step[b]
          /\ snap'[a] = NoSnap /\ step'[a] = "stage" /\ step[a] = "memory"
      BY <1>6, <2>1 DEF CopyFails, Goto, StepsOK
    <3>2. NoSnap.id = 0
      BY DEF NoSnap
    <3>3. touched' \in [start : BOOLEAN, copy : BOOLEAN]
      BY <1>6, <2>1 DEF CopyFails
    <3>4. step'["cli"] # "idle" => step["cli"] # "idle"
      BY <3>1 DEF Actors
    <3> QED BY <1>0, <1>6, <2>1, <3>1, <3>2, <3>3, <3>4 DEF CopyFails
  <2>2. CASE op[a] # "restore"
    <3>1. CASE a = "cli"
      <4>1. Quit({"cli"}) /\ touched' = NotSince /\ clock' = clock /\ stored' = stored
        BY <1>6, <2>2, <3>1 DEF CopyFails, EndCommand
      <4>2. touched' \in [start : BOOLEAN, copy : BOOLEAN]
        BY <4>1 DEF NotSince
      <4>3. {"cli"} \in SUBSET Actors /\ "cli" \in Actors
        BY DEF Actors
      <4> QED BY <1>0, <1>5, <4>1, <4>2, <4>3
    <3>2. CASE a # "cli"
      <4>1. Quit({a}) /\ UNCHANGED command /\ clock' = clock /\ stored' = stored
        BY <1>6, <2>2, <3>2 DEF CopyFails
      <4>2. {a} \in SUBSET Actors /\ "cli" \in Actors /\ "cli" \notin {a}
        BY <3>2 DEF Actors
      <4> QED BY <1>0, <1>5, <4>1, <4>2 DEF command
    <3> QED BY <3>1, <3>2
  <2> QED BY <2>1, <2>2
<1>7. ASSUME NEW a \in Actors, NEW o, NEW r \in Reasons, BeginSnap(a, o, r)
      PROVE  /\ clock' \in 0..MaxSnapshots /\ clock <= clock'
             /\ \A b \in Actors : /\ snap'[b].id <= clock'
                                  /\ step'[b] \in {"index", "publish"} => snap'[b].memory \in Contents
                                  /\ step'[b] = "publish" => snap'[b].index \in Indexes
                                  /\ b # a => step'[b] = step[b]
  <2>1. /\ \A b \in Actors \ {a} : snap'[b] = snap[b] /\ step'[b] = step[b]
        /\ snap'[a].id = clock + 1 /\ step'[a] = "memory" /\ clock' = clock + 1
        /\ clock < MaxSnapshots
    BY <1>7 DEF BeginSnap, StepsOK, NoSnap
  <2> QED BY <1>0, <2>1
<1>8. CASE SafeForget
  <2>1. CASE Due("pre-forget")
    <3>1. BeginSnap("tool", "forget", "pre-forget") /\ UNCHANGED <<stored, command>>
      BY <1>8, <2>1 DEF SafeForget
    <3>2. "tool" \in Actors /\ "cli" \in Actors /\ "pre-forget" \in Reasons
      BY DEF Actors, Reasons
    <3> QED BY <1>0, <1>7, <3>1, <3>2 DEF command
  <2>2. CASE ~Due("pre-forget")
    <3>1. /\ UNCHANGED <<stored, command, clock, snap>>
          /\ step' = [step EXCEPT !["tool"] = "delete"]
      BY <1>8, <2>2 DEF SafeForget, Goto
    <3> QED BY <3>1 DEF command, StepsOK, Actors
  <2> QED BY <2>1, <2>2
<1>9. CASE Daily
  <2>1. CASE UNCHANGED <<clock, step, snap>>
    BY <1>9, <2>1 DEF Daily, command
  <2>2. CASE BeginSnap("job", "daily", "scheduled")
    <3>1. "job" \in Actors /\ "cli" \in Actors /\ "scheduled" \in Reasons
      BY DEF Actors, Reasons
    <3> QED BY <1>0, <1>7, <1>9, <2>2, <3>1 DEF command, Daily
  <2> QED BY <1>9, <2>1, <2>2 DEF Daily
<1>10. ASSUME NEW b \in stored, RunRestore(b) PROVE CopiesOK'
  <2>1. BeginSnap("cli", "restore", "pre-restore") /\ chosen' = b /\ touched' = NotSince /\ stored' = stored
    BY <1>10 DEF RunRestore
  <2>2. "cli" \in Actors /\ "pre-restore" \in Reasons
    BY DEF Actors, Reasons
  <2> QED BY <1>0, <1>7, <2>1, <2>2 DEF NotSince
<1>11. CASE Import
  <2>1. /\ BeginSnap("cli", "import", "pre-import") /\ touched' = NotSince /\ stored' = stored
        /\ \E i \in {last + 1, None} : chosen' = [NoSnap EXCEPT !.memory = last + 1, !.index = i]
        /\ last < MaxContents
    BY <1>11 DEF Import
  <2>2. "cli" \in Actors /\ "pre-import" \in Reasons
    BY DEF Actors, Reasons
  <2>3. chosen'.memory = last + 1 /\ chosen'.index \in {last + 1, None} /\ last + 1 \in Contents
    BY <1>0, <2>1 DEF NoSnap, Contents
  <2> QED BY <1>0, <1>7, <2>1, <2>2, <2>3 DEF NotSince, Indexes
<1>12. CASE Rotate
  <2>1. Quit({"job"}) /\ stored' \subseteq stored /\ UNCHANGED <<clock, command>>
    BY <1>12 DEF Rotate
  <2>2. {"job"} \in SUBSET Actors /\ "cli" \in Actors
    BY DEF Actors
  <2> QED BY <1>0, <1>5, <2>1, <2>2 DEF command
<1>13. CASE Delete
  <2>1. /\ Quit({"tool"}) /\ UNCHANGED <<clock, stored, chosen>>
        /\ touched' \in [start : BOOLEAN, copy : BOOLEAN]
    BY <1>13, ChangedIs DEF Delete, Commit
  <2>2. {"tool"} \in SUBSET Actors /\ "cli" \in Actors
    BY DEF Actors
  <2> QED BY <1>0, <1>5, <2>1, <2>2
<1>14. CASE Kill
  <2>1. Quit({"job", "tool"}) /\ UNCHANGED <<clock, stored, command>>
    BY <1>14 DEF Kill
  <2>2. {"job", "tool"} \in SUBSET Actors /\ "cli" \in Actors
    BY DEF Actors
  <2> QED BY <1>0, <1>5, <2>1, <2>2 DEF command
<1>15. CASE EndCommand /\ UNCHANGED <<clock, stored>>
  <2>1. {"cli"} \in SUBSET Actors /\ "cli" \in Actors
    BY DEF Actors
  <2> QED BY <1>0, <1>5, <1>15, <2>1 DEF EndCommand, NotSince
<1>16. CASE Stage
  <2>1. CASE chosen \in stored
    BY <1>16, <2>1 DEF Stage, Goto, command, StepsOK
  <2> QED BY <1>15, <1>16, <2>1 DEF Stage
<1>17. CASE SwapIndex \/ MoveIndex \/ Abandon
  BY <1>15, <1>17 DEF SwapIndex, MoveIndex, Abandon
<1>18. CASE Unlog \/ Swap \/ MoveIn
  BY <1>18 DEF Unlog, Swap, MoveIn, Goto, command, StepsOK
<1>19. CASE Write \/ Reindex
  BY <1>19, ChangedIs DEF Write, Commit, Reindex
<1>20. CASE UNCHANGED <<clock, stored, snap, step, chosen, touched>>
  BY <1>20
<1>21. CASE Acquire \/ Stop \/ Damage \/ NewDay \/ Enqueue
  BY <1>20, <1>21 DEF Acquire, Stop, Damage, NewDay, Enqueue, command
<1>22. ASSUME NEW e \in {"v2", "v3"}, Start(e) PROVE CopiesOK'
  BY <1>20, <1>22 DEF Start, command
<1>23. CASE UNCHANGED backupVars
  BY <1>20, <1>23 DEF backupVars
<1> QED BY <1>1, <1>2, <1>3, <1>6, <1>8, <1>9, <1>10, <1>11, <1>12, <1>13, <1>14,
           <1>16, <1>17, <1>18, <1>19, <1>21, <1>22, <1>23
        DEF BackupsNext

LEMMA DaysStay ==
    ASSUME BackupConstants, Shape, [BackupsNext]_backupVars PROVE DaysOK'
<1> USE DEF Shape, DaysOK
<1>1. CASE UNCHANGED <<jobs, troubles>> /\ (step'["job"] # "idle" => step["job"] # "idle")
  BY <1>1 DEF jobs
<1>2. CASE NewDay
  BY <1>2 DEF NewDay, BackupConstants
<1>3. CASE Enqueue
  BY <1>3 DEF Enqueue
<1>4. CASE Daily
  BY <1>4 DEF Daily, BeginSnap, StepsOK, Actors
<1>5. CASE Rotate
  BY <1>5 DEF Rotate, Quit, Actors
<1>6. CASE Kill \/ Damage \/ Abandon
  <2>1. UNCHANGED jobs /\ troubles' \in 0..MaxTroubles
    BY <1>6 DEF Kill, Damage, Abandon, Trouble, BackupConstants
  <2>2. step'["job"] # "idle" => step["job"] # "idle"
    BY <1>6 DEF Kill, Damage, Abandon, Quit, EndCommand, Actors
  <2> QED BY <2>1, <2>2 DEF jobs
<1>7. ASSUME NEW a \in Actors, CopyMemory(a) \/ CopyIndex(a) \/ Publish(a) \/ CopyFails(a)
      PROVE  UNCHANGED <<jobs, troubles>> /\ (step'["job"] # "idle" => step["job"] # "idle")
  BY <1>7 DEF CopyMemory, CopyIndex, Publish, CopyFails, Goto, EndCommand, Quit, StepsOK, Actors
<1>8. CASE Write \/ Acquire \/ Reindex \/ Stop \/ Unlog \/ Swap \/ MoveIn
  BY <1>1, <1>8 DEF Write, Acquire, Reindex, Stop, Unlog, Swap, MoveIn, Goto, StepsOK, Actors
<1>9. CASE SafeForget \/ Delete
  BY <1>1, <1>9 DEF SafeForget, Delete, BeginSnap, Goto, Quit, StepsOK, Actors
<1>10. ASSUME NEW b \in stored, RunRestore(b) PROVE DaysOK'
  BY <1>1, <1>10 DEF RunRestore, BeginSnap, StepsOK, Actors
<1>11. CASE Import
  BY <1>1, <1>11 DEF Import, BeginSnap, StepsOK, Actors
<1>12. CASE Stage \/ SwapIndex \/ MoveIndex
  BY <1>1, <1>12 DEF Stage, SwapIndex, MoveIndex, EndCommand, Quit, Goto, StepsOK, Actors
<1>13. ASSUME NEW e \in {"v2", "v3"}, Start(e) PROVE DaysOK'
  BY <1>1, <1>13 DEF Start
<1>14. CASE UNCHANGED backupVars
  BY <1>1, <1>14 DEF backupVars, jobs
<1> QED BY <1>1, <1>2, <1>3, <1>4, <1>5, <1>6, <1>7, <1>8, <1>9, <1>10, <1>11, <1>12, <1>13, <1>14
        DEF BackupsNext

LEMMA ShapeStays ==
    ASSUME BackupConstants, Shape, [BackupsNext]_backupVars PROVE Shape'
BY StoreStays, StepsStay, CopiesStay, DaysStay DEF Shape

LEMMA ShapeInit == ASSUME BackupConstants, BackupsInit PROVE Shape
<1>1. NoSnap \in Drafts /\ NoSnap.id = 0
  BY NoSnapIs
<1>2. StoreOK
  <2>1. 0 \in 0..MaxContents /\ 0 \in Contents
    BY DEF Contents, BackupConstants
  <2> QED BY <2>1 DEF BackupsInit, StoreOK, Alive, Indexes
<1>3. StepsOK
  BY <1>1 DEF BackupsInit, StepsOK, Actors, Ops, CommandSteps
<1>4. CopiesOK
  <2>1. ASSUME NEW i \in {0, None},
               NEW s, s = [NoSnap EXCEPT !.reason = "pre-migrate", !.memory = 0, !.index = i]
        PROVE  s \in Drafts /\ s.id = 0 /\ s.memory = 0 /\ s.index \in {0, None}
    <3>1. "pre-migrate" \in Reasons /\ i \in Int
      BY DEF Reasons, None
    <3>2. s = [id |-> 0, reason |-> "pre-migrate", day |-> 0, memory |-> 0, index |-> i]
      BY <2>1 DEF NoSnap
    <3> QED BY <3>1, <3>2 DEF Drafts
  <2>2. 0 \in Contents /\ {0, None} \subseteq Indexes
    BY DEF Contents, Indexes, BackupConstants
  <2>3. stored \subseteq Drafts /\ \A s \in stored : s.id <= 0 /\ s.memory = 0 /\ s.index \in {0, None}
    BY <2>1 DEF BackupsInit
  <2> QED BY <1>1, <2>2, <2>3 DEF BackupsInit, CopiesOK, NotSince, BackupConstants, Actors
<1>5. DaysOK
  BY DEF BackupsInit, DaysOK, BackupConstants, Actors
<1> QED BY <1>2, <1>3, <1>4, <1>5 DEF Shape

(* Files, copies, days and the three commands keep their types through      *)
(* every step of the backups. *)
THEOREM BackupTypes == BackupConstants => (BackupsSpec => []BackupsTypeOK)
<1> SUFFICES ASSUME BackupConstants PROVE BackupsSpec => []BackupsTypeOK
  OBVIOUS
<1>1. BackupsInit => Shape
  BY ShapeInit
<1>2. Shape /\ [BackupsNext]_backupVars => Shape'
  BY ShapeStays
<1>3. Shape => BackupsTypeOK
  <2>1. Shape => {s.id : s \in stored} \subseteq 0..clock
    BY DEF Shape, CopiesOK, Drafts
  <2> QED BY <2>1 DEF Shape, StoreOK, CopiesOK, DaysOK, BackupsTypeOK, Contents, Indexes
<1> QED BY <1>1, <1>2, <1>3, PTL DEF BackupsSpec

-----------------------------------------------------------------------------
(* What the other two actors and the engine do beside a command. *)

(* They commit, which the command's flags remember, or leave what the store *)
(* shows; their snapshots are of no safety class, and rotation takes none   *)
(* of that class but for a later one. *)
BesideCommand ==
    /\ UNCHANGED <<chosen, entry, raw>>
    /\ op'["cli"] = op["cli"] /\ step'["cli"] = step["cli"] /\ snap'["cli"] = snap["cli"]
    /\ \/ /\ touched' = touched /\ Visible' = Visible /\ index' = index
          /\ wal = None => wal' = None /\ file' = file
       \/ step["cli"] # "idle" => touched'.start /\ touched'.copy
    /\ stored \subseteq stored' \/ \A s \in stored \ stored' : s \in Surplus
    /\ \A s \in stored' \ stored : ~Safe(s)

(* The reasons of the snapshots that are being made. *)
Labelled ==
    /\ step["job"] \in {"memory", "index", "publish"} => snap["job"].reason = "scheduled"
    /\ step["tool"] \in {"memory", "index", "publish"} => snap["tool"].reason = "pre-forget"
    /\ op["cli"] = "import" /\ step["cli"] \in {"memory", "index", "publish"} =>
          snap["cli"].reason = "pre-import"
    /\ op["cli"] = "restore" /\ step["cli"] \in {"memory", "index", "publish"} =>
          snap["cli"].reason = "pre-restore"

Commands ==
    \/ CopyMemory("cli") \/ CopyIndex("cli") \/ Publish("cli") \/ CopyFails("cli")
    \/ \E b \in stored : RunRestore(b)
    \/ Stage \/ Unlog \/ Swap \/ SwapIndex \/ Import \/ MoveIn \/ MoveIndex \/ Abandon

LEMMA SameStore ==
    ASSUME Shape, UNCHANGED store
    PROVE  Visible' = Visible /\ index' = index /\ wal' = wal /\ file' = file
BY DEF store, Visible

LEMMA CommitsAre ==
    ASSUME Shape, Commit, Alive, NEW c, c = step["cli"]
    PROVE  /\ UNCHANGED <<file, foreign, damaged, index, attached>>
           /\ \/ touched' = touched /\ wal' = wal /\ Visible' = Visible
              \/ c # "idle" => touched'.start /\ touched'.copy
<1>1. CASE attached
  <2>1. Changed /\ UNCHANGED <<file, foreign, damaged, index, attached>>
    BY <1>1 DEF Commit
  <2>2. CASE c # "idle"
    <3>1. (step["cli"] # "idle") = TRUE
      BY <2>2
    <3>2. touched' = [start |-> TRUE, copy |-> TRUE]
      BY <2>1, <3>1 DEF Changed
    <3> QED BY <2>1, <3>2
  <2> QED BY <2>1, <2>2
<1>2. CASE ~attached
  BY <1>2 DEF Commit, Visible
<1> QED BY <1>1, <1>2 DEF Commit

LEMMA OthersAre ==
    ASSUME BackupConstants, Shape, Labelled, [BackupsNext]_backupVars, ~Commands
    PROVE  BesideCommand
<1> USE DEF Actors
<1>0. op \in [Actors -> Ops] /\ step \in [Actors -> CommandSteps] /\ snap \in [Actors -> Drafts]
  BY DEF Shape, StepsOK
<1>1. ASSUME UNCHANGED store, UNCHANGED <<command, raw>>,
             op'["cli"] = op["cli"], step'["cli"] = step["cli"], snap'["cli"] = snap["cli"],
             stored' = stored
      PROVE  BesideCommand
  BY <1>1, SameStore DEF BesideCommand, command
<1>2. ASSUME NEW A \in SUBSET {"job", "tool"}, Quit(A)
      PROVE  op'["cli"] = op["cli"] /\ step'["cli"] = step["cli"] /\ snap'["cli"] = snap["cli"]
  BY <1>2 DEF Quit
<1>3. CASE Write
  <2>1. Alive
    BY <1>3 DEF Write, Alive
  <2> QED BY <1>3, <2>1, CommitsAre DEF Write, BesideCommand
<1>4. CASE Delete
  <2>1. Alive
    BY <1>4 DEF Delete, Shape, StepsOK
  <2>2. {"tool"} \in SUBSET {"job", "tool"} /\ Quit({"tool"})
    BY <1>4 DEF Delete
  <2> QED BY <1>2, <1>4, <2>1, <2>2, CommitsAre DEF Delete, BesideCommand
<1>5. CASE Reindex
  BY <1>5 DEF Reindex, Changed, BesideCommand
<1>6. ASSUME NEW e \in {"v2", "v3"}, Start(e) PROVE BesideCommand
  <2>1. /\ UNCHANGED <<index, stored, raw, op, step, snap, command>>
        /\ \/ foreign /\ file' = Mixed /\ wal' = None /\ foreign' = FALSE
           \/ ~foreign /\ UNCHANGED <<file, wal, foreign>>
    BY <1>6 DEF Start
  <2>2. Visible' = Visible /\ (wal = None => wal' = None /\ file' = file)
    <3>1. CASE foreign /\ file' = Mixed /\ wal' = None /\ foreign' = FALSE
      <4>1. wal # None
        BY <3>1 DEF Shape, StoreOK
      <4> QED BY <3>1, <4>1, LiveIs, NextLiveIs
    <3>2. CASE UNCHANGED <<file, wal, foreign>>
      BY <3>2 DEF Visible
    <3> QED BY <2>1, <3>1, <3>2
  <2> QED BY <2>1, <2>2 DEF BesideCommand, command
<1>7. CASE Stop
  <2>1. /\ UNCHANGED <<index, foreign, stored, raw, op, step, snap, command>>
        /\ \/ attached /\ wal # None /\ file' = wal /\ wal' = None
           \/ ~(attached /\ wal # None) /\ UNCHANGED <<file, wal>>
    BY <1>7 DEF Stop
  <2>2. Alive
    BY <1>7 DEF Stop, Alive
  <2>3. Visible' = Visible /\ (wal = None => wal' = None /\ file' = file)
    <3>1. CASE attached /\ wal # None
      <4>1. foreign = FALSE /\ foreign' = FALSE
        BY <2>1, <2>2, <3>1 DEF Shape, StoreOK
      <4> QED BY <2>1, <3>1, <4>1, LiveIs, NextLiveIs
    <3>2. CASE ~(attached /\ wal # None)
      BY <2>1, <3>2 DEF Visible
    <3> QED BY <3>1, <3>2
  <2> QED BY <2>1, <2>3 DEF BesideCommand, command
<1>8. CASE Acquire
  BY <1>1, <1>8 DEF Acquire
<1>9. CASE Damage
  <2>1. UNCHANGED <<file, wal, foreign, index, stored, raw, op, step, snap, command>>
    BY <1>9 DEF Damage
  <2>2. Visible' = Visible
    BY <2>1 DEF Visible
  <2> QED BY <2>1, <2>2 DEF BesideCommand, command
<1>10. CASE Kill
  <2>1. {"job", "tool"} \in SUBSET {"job", "tool"} /\ Quit({"job", "tool"})
    BY <1>10 DEF Kill
  <2> QED BY <1>1, <1>2, <1>10, <2>1 DEF Kill
<1>11. ASSUME NEW a \in {"job", "tool"}, CopyMemory(a) \/ CopyIndex(a) PROVE BesideCommand
  <2>1. /\ UNCHANGED <<store, raw, op, stored, chosen, entry>>
        /\ step'["cli"] = step["cli"] /\ snap'["cli"] = snap["cli"] /\ touched' = touched
    BY <1>0, <1>11 DEF CopyMemory, CopyIndex, Goto, command
  <2> QED BY <1>1, <2>1 DEF command
<1>12. ASSUME NEW a \in {"job", "tool"}, CopyFails(a) PROVE BesideCommand
  <2>1. op[a] # "restore"
    BY DEF Shape, StepsOK
  <2>2. {a} \in SUBSET {"job", "tool"} /\ Quit({a}) /\ UNCHANGED <<store, raw, stored, command>>
    BY <1>12, <2>1 DEF CopyFails
  <2> QED BY <1>1, <1>2, <2>2
<1>13. ASSUME NEW a \in {"job", "tool"}, Publish(a) PROVE BesideCommand
  <2>1. /\ UNCHANGED <<store, raw, op, command>> /\ stored' = stored \cup {snap[a]}
        /\ step'["cli"] = step["cli"] /\ snap'["cli"] = snap["cli"] /\ step[a] = "publish"
    BY <1>0, <1>13 DEF Publish, Goto
  <2>2. ~Safe(snap[a])
    BY <2>1 DEF Labelled, Safe
  <2> QED BY <2>1, <2>2, SameStore DEF BesideCommand, command
<1>14. CASE SafeForget
  <2>1. /\ UNCHANGED <<store, raw, stored, command>>
        /\ op'["cli"] = op["cli"] /\ step'["cli"] = step["cli"] /\ snap'["cli"] = snap["cli"]
    BY <1>0, <1>14 DEF SafeForget, BeginSnap, Goto
  <2> QED BY <1>1, <2>1
<1>15. CASE Daily
  <2>1. /\ UNCHANGED <<store, raw, stored, command>>
        /\ op'["cli"] = op["cli"] /\ step'["cli"] = step["cli"] /\ snap'["cli"] = snap["cli"]
    BY <1>0, <1>15 DEF Daily, BeginSnap
  <2> QED BY <1>1, <2>1
<1>16. CASE NewDay \/ Enqueue
  BY <1>1, <1>16 DEF NewDay, Enqueue
<1>17. CASE Rotate
  <2>1. /\ UNCHANGED <<store, raw, command>> /\ stored' = stored \ Surplus
        /\ {"job"} \in SUBSET {"job", "tool"} /\ Quit({"job"})
    BY <1>17 DEF Rotate
  <2> QED BY <1>2, <2>1, SameStore DEF BesideCommand, command
<1>18. CASE UNCHANGED backupVars
  BY <1>1, <1>18 DEF backupVars, store, command
<1> QED BY <1>3, <1>4, <1>5, <1>6, <1>7, <1>8, <1>9, <1>10, <1>11, <1>12, <1>13, <1>14, <1>15,
           <1>16, <1>17, <1>18
        DEF BackupsNext, Commands

LEMMA LabelledStays ==
    ASSUME BackupConstants, Shape, Labelled, [BackupsNext]_backupVars PROVE Labelled'
<1> USE DEF Labelled, Actors
<1>0. op \in [Actors -> Ops] /\ step \in [Actors -> CommandSteps] /\ snap \in [Actors -> Drafts]
  BY DEF Shape, StepsOK
<1>1. ASSUME NEW a \in Actors, CopyMemory(a) PROVE Labelled'
  <2>1. /\ \A b \in Actors \ {a} : snap'[b] = snap[b] /\ step'[b] = step[b]
        /\ snap'[a].reason = snap[a].reason /\ step[a] = "memory" /\ op' = op
    BY <1>0, <1>1 DEF CopyMemory, Goto, Drafts
  <2> QED BY <2>1
<1>2. ASSUME NEW a \in Actors, CopyIndex(a) PROVE Labelled'
  <2>1. /\ \A b \in Actors \ {a} : snap'[b] = snap[b] /\ step'[b] = step[b]
        /\ snap'[a].reason = snap[a].reason /\ step[a] = "index" /\ op' = op
    BY <1>0, <1>2 DEF CopyIndex, Goto, Drafts
  <2> QED BY <2>1
<1>3. ASSUME NEW a \in Actors, Publish(a) PROVE Labelled'
  <2>1. /\ \A b \in Actors \ {a} : snap'[b] = snap[b] /\ step'[b] = step[b]
        /\ step'[a] \notin {"memory", "index", "publish"} /\ op' = op
    BY <1>0, <1>3 DEF Publish, Goto, After, Shape, StepsOK
  <2> QED BY <2>1
<1>4. ASSUME NEW A \in SUBSET Actors, Quit(A) PROVE Labelled'
  <2>1. \A b \in Actors : /\ b \in A => step'[b] = "idle"
                          /\ b \notin A => snap'[b] = snap[b] /\ step'[b] = step[b] /\ op'[b] = op[b]
    BY <1>4 DEF Quit
  <2> QED BY <2>1
<1>5. CASE EndCommand
  BY <1>4, <1>5 DEF EndCommand
<1>6. ASSUME NEW a \in Actors, CopyFails(a) PROVE Labelled'
  <2>1. CASE op[a] = "restore"
    <3>1. /\ \A b \in Actors \ {a} : snap'[b] = snap[b] /\ step'[b] = step[b]
          /\ step'[a] = "stage" /\ op' = op
      BY <1>0, <1>6, <2>1 DEF CopyFails, Goto
    <3> QED BY <3>1
  <2>2. CASE op[a] # "restore"
    BY <1>4, <1>5, <1>6, <2>2 DEF CopyFails
  <2> QED BY <2>1, <2>2
<1>7. ASSUME NEW a \in Actors, NEW o \in Ops, NEW r, BeginSnap(a, o, r)
      PROVE  /\ \A b \in Actors \ {a} : snap'[b] = snap[b] /\ step'[b] = step[b] /\ op'[b] = op[b]
             /\ snap'[a].reason = r /\ step'[a] = "memory" /\ op'[a] = o
  BY <1>0, <1>7 DEF BeginSnap, NoSnap
<1>8. CASE SafeForget
  <2>1. CASE Due("pre-forget")
    BY <1>7, <1>8, <2>1 DEF SafeForget, Ops
  <2>2. CASE ~Due("pre-forget")
    BY <1>0, <1>8, <2>2 DEF SafeForget, Goto
  <2> QED BY <2>1, <2>2
<1>9. CASE Daily
  <2>1. CASE BeginSnap("job", "daily", "scheduled")
    BY <1>7, <2>1 DEF Ops
  <2> QED BY <1>9, <2>1 DEF Daily
<1>10. ASSUME NEW b \in stored, RunRestore(b) PROVE Labelled'
  BY <1>7, <1>10 DEF RunRestore, Ops
<1>11. CASE Import
  BY <1>7, <1>11 DEF Import, Ops
<1>12. CASE Delete \/ Kill \/ Rotate
  BY <1>4, <1>12 DEF Delete, Kill, Rotate
<1>13. CASE SwapIndex \/ MoveIndex \/ Abandon
  BY <1>5, <1>13 DEF SwapIndex, MoveIndex, Abandon
<1>14. CASE Stage
  BY <1>0, <1>5, <1>14 DEF Stage, Goto
<1>15. CASE Unlog \/ Swap \/ MoveIn
  BY <1>0, <1>15 DEF Unlog, Swap, MoveIn, Goto
<1>16. CASE Write \/ Acquire \/ Reindex \/ Stop \/ Damage \/ NewDay \/ Enqueue
  BY <1>16 DEF Write, Acquire, Reindex, Stop, Damage, NewDay, Enqueue
<1>17. ASSUME NEW e \in {"v2", "v3"}, Start(e) PROVE Labelled'
  BY <1>17 DEF Start
<1>18. CASE UNCHANGED backupVars
  BY <1>18 DEF backupVars
<1> QED BY <1>1, <1>2, <1>3, <1>6, <1>8, <1>9, <1>10, <1>11, <1>12, <1>13, <1>14, <1>15, <1>16,
           <1>17, <1>18
        DEF BackupsNext

-----------------------------------------------------------------------------
(* The safety copy. *)

(* A safety snapshot of what the store shows, later than any other.         *)
NewestIsLive ==
    \E s \in stored : /\ Safe(s) /\ s.memory = Visible
                      /\ \A t \in stored : Safe(t) => t.id <= s.id

CopyIsThere ==
    op["cli"] = "restore" =>
        /\ step["cli"] \in {"memory", "index", "publish"} =>
              \A t \in stored : Safe(t) => t.id <= snap["cli"].id
        /\ step["cli"] \in {"index", "publish"} => touched.copy \/ snap["cli"].memory = Visible
        /\ step["cli"] \in {"stage", "unlog"} => touched.copy \/ Visible \in raw \/ NewestIsLive

(* What the store shows at each step of a restore that no commit met.       *)
OneOrOther ==
    op["cli"] = "restore" /\ ~touched.start =>
        /\ step["cli"] \in {"memory", "index", "publish", "stage", "unlog"} => Visible = entry.live
        /\ step["cli"] # "idle" => index = entry.index
        /\ step["cli"] \in {"swap", "swapindex"} => wal = None
        /\ step["cli"] = "swapindex" => file = chosen.memory

LEMMA RotationSpares ==
    ASSUME BackupConstants, Shape, NEW s \in stored, Safe(s), \A t \in stored : Safe(t) => t.id <= s.id
    PROVE  s \notin Surplus
<1>1. s.id \in Nat /\ \A t \in stored : t.id \in Nat
  BY DEF Shape, CopiesOK, Drafts
<1>2. {t \in stored : Safe(t) = Safe(s) /\ t.id > s.id} = {}
  <2>1. \A t \in stored : (Safe(t) = Safe(s)) => t.id <= s.id
    BY Zenon
  <2>2. \A t \in stored : ~(t.id > s.id) \/ ~(t.id <= s.id)
    BY <1>1
  <2> QED BY <2>1, <2>2, Zenon
<1>3. Cardinality({t \in stored : Safe(t) = Safe(s) /\ t.id > s.id}) = 0
  BY <1>2, FS_EmptySet
<1>4. KeepSafety \in Nat \ {0}
  BY DEF BackupConstants
<1> QED BY <1>3, <1>4 DEF Surplus

LEMMA OthersKeep ==
    ASSUME BackupConstants, Shape, CopyIsThere, OneOrOther, BesideCommand
    PROVE  CopyIsThere' /\ OneOrOther'
<1>0. \A t \in stored' : Safe(t) => t \in stored
  BY DEF BesideCommand
<1>1. OneOrOther'
  <2>1. CASE /\ touched' = touched /\ Visible' = Visible /\ index' = index
             /\ wal = None => wal' = None /\ file' = file
    BY <2>1 DEF OneOrOther, BesideCommand
  <2>2. CASE step["cli"] # "idle" => touched'.start /\ touched'.copy
    BY <2>2 DEF OneOrOther, BesideCommand
  <2> QED BY <2>1, <2>2 DEF BesideCommand
<1>2. CopyIsThere'
  <2> SUFFICES ASSUME op["cli"] = "restore" PROVE CopyIsThere'
    BY DEF CopyIsThere, BesideCommand
  <2>1. CASE step["cli"] # "idle" /\ touched'.start /\ touched'.copy
    BY <1>0, <2>1 DEF CopyIsThere, BesideCommand
  <2>2. CASE touched' = touched /\ Visible' = Visible
    <3>1. ASSUME NewestIsLive PROVE NewestIsLive'
      <4>1. PICK s \in stored : /\ Safe(s) /\ s.memory = Visible
                               /\ \A t \in stored : Safe(t) => t.id <= s.id
        BY <3>1 DEF NewestIsLive
      <4>2. s \in stored'
        BY <4>1, RotationSpares DEF BesideCommand
      <4>3. \A t \in stored' : Safe(t) => t.id <= s.id
        BY <1>0, <4>1
      <4> QED BY <2>2, <4>1, <4>2, <4>3 DEF NewestIsLive, Safe
    <3>2. \A t \in stored' : Safe(t) /\ step["cli"] \in {"memory", "index", "publish"} => t.id <= snap["cli"].id
      BY <1>0 DEF CopyIsThere
    <3> QED BY <2>2, <3>1, <3>2 DEF CopyIsThere, BesideCommand, Safe
  <2> QED BY <2>1, <2>2 DEF BesideCommand, Shape, StepsOK, Actors
<1> QED BY <1>1, <1>2

FilesInv == Shape /\ Labelled /\ CopyIsThere /\ OneOrOther

(* A command that ends, or is an import. *)
LEMMA NoRestore ==
    ASSUME op'["cli"] # "restore" PROVE CopyIsThere' /\ OneOrOther'
BY DEF CopyIsThere, OneOrOther

LEMMA EndsAre ==
    ASSUME EndCommand PROVE op'["cli"] = "none"
BY DEF EndCommand, Quit, Actors

LEMMA CommandsKeep ==
    ASSUME BackupConstants, FilesInv, [BackupsNext]_backupVars, Commands
    PROVE  CopyIsThere' /\ OneOrOther'
<1> USE DEF Actors
<1>0. /\ op \in [Actors -> Ops] /\ step \in [Actors -> CommandSteps] /\ snap \in [Actors -> Drafts]
      /\ touched \in [start : BOOLEAN, copy : BOOLEAN] /\ clock \in Nat /\ StoreOK
      /\ stored \subseteq Drafts /\ \A t \in stored : t.id <= clock
  BY DEF FilesInv, Shape, StepsOK, CopiesOK
<1>1. CASE CopyMemory("cli")
  <2>1. /\ UNCHANGED <<store, op, stored, raw, entry, chosen>>
        /\ step'["cli"] = "index" /\ step["cli"] = "memory"
        /\ snap'["cli"].memory = Visible /\ snap'["cli"].id = snap["cli"].id
        /\ touched'.start = touched.start
    BY <1>0, <1>1 DEF CopyMemory, Goto, Drafts
  <2>2. Visible' = Visible /\ index' = index
    BY <2>1, SameStore DEF FilesInv
  <2> QED BY <2>1, <2>2 DEF FilesInv, CopyIsThere, OneOrOther, Safe
<1>2. CASE CopyIndex("cli")
  <2>1. /\ UNCHANGED <<store, op, stored, raw, entry, chosen, touched>>
        /\ step'["cli"] = "publish" /\ step["cli"] = "index"
        /\ snap'["cli"].memory = snap["cli"].memory /\ snap'["cli"].id = snap["cli"].id
    BY <1>0, <1>2 DEF CopyIndex, Goto, command, Drafts
  <2>2. Visible' = Visible /\ index' = index
    BY <2>1, SameStore DEF FilesInv
  <2> QED BY <2>1, <2>2 DEF FilesInv, CopyIsThere, OneOrOther, Safe
<1>3. CASE Publish("cli")
  <2>0. CASE op["cli"] # "restore"
    BY <1>3, <2>0, NoRestore DEF Publish
  <2>1. CASE op["cli"] = "restore"
    <3>1. /\ UNCHANGED <<store, op, raw, entry, chosen, touched>>
          /\ stored' = stored \cup {snap["cli"]}
          /\ step'["cli"] = "stage" /\ step["cli"] = "publish"
      BY <1>0, <1>3, <2>1 DEF Publish, Goto, command, After
    <3>2. Visible' = Visible /\ index' = index
      BY <3>1, SameStore DEF FilesInv
    <3>3. Safe(snap["cli"])
      BY <2>1, <3>1 DEF FilesInv, Labelled, Safe
    <3>4. snap["cli"].id <= snap["cli"].id /\ \A t \in stored : Safe(t) => t.id <= snap["cli"].id
      BY <1>0, <2>1, <3>1 DEF FilesInv, CopyIsThere, Drafts
    <3>5. touched.copy \/ snap["cli"].memory = Visible
      BY <2>1, <3>1 DEF FilesInv, CopyIsThere
    <3>6. snap["cli"].memory = Visible => NewestIsLive'
      BY <3>1, <3>2, <3>3, <3>4 DEF NewestIsLive, Safe
    <3>7. CopyIsThere'
      BY <3>1, <3>5, <3>6 DEF CopyIsThere
    <3>8. OneOrOther'
      BY <2>1, <3>1, <3>2 DEF FilesInv, OneOrOther
    <3> QED BY <3>7, <3>8
  <2> QED BY <2>0, <2>1
<1>4. CASE CopyFails("cli")
  <2>0. CASE op["cli"] # "restore"
    BY <1>4, <2>0, NoRestore, EndsAre DEF CopyFails
  <2>1. CASE op["cli"] = "restore"
    <3>1. /\ UNCHANGED <<store, op, stored, entry, chosen>>
          /\ raw' = raw \cup {Visible} /\ touched'.start = touched.start
          /\ step'["cli"] = "stage" /\ step["cli"] = "memory"
      BY <1>0, <1>4, <2>1 DEF CopyFails, Goto
    <3>2. Visible' = Visible /\ index' = index
      BY <3>1, SameStore DEF FilesInv
    <3> QED BY <2>1, <3>1, <3>2 DEF FilesInv, CopyIsThere, OneOrOther
  <2> QED BY <2>0, <2>1
<1>5. ASSUME NEW b \in stored, RunRestore(b) PROVE CopyIsThere' /\ OneOrOther'
  <2>1. /\ UNCHANGED <<store, stored, raw>> /\ entry' = [live |-> Visible, index |-> index]
        /\ step'["cli"] = "memory" /\ snap'["cli"].id = clock + 1
    BY <1>0, <1>5 DEF RunRestore, BeginSnap, NoSnap
  <2>2. Visible' = Visible /\ index' = index
    BY <2>1, SameStore DEF FilesInv
  <2>3. \A t \in stored : t.id <= clock + 1
    BY <1>0 DEF Drafts
  <2> QED BY <2>1, <2>2, <2>3 DEF CopyIsThere, OneOrOther, Safe
<1>6. CASE Import
  BY <1>0, <1>6, NoRestore DEF Import, BeginSnap
<1>7. CASE Stage
  <2>1. CASE chosen \in stored
    <3>1. /\ UNCHANGED <<store, op, stored, raw, entry, chosen, touched>>
          /\ step'["cli"] = "unlog" /\ step["cli"] = "stage"
      BY <1>0, <1>7, <2>1 DEF Stage, Goto, command
    <3>2. Visible' = Visible /\ index' = index
      BY <3>1, SameStore DEF FilesInv
    <3>3. NewestIsLive' <=> NewestIsLive
      BY <3>1, <3>2 DEF NewestIsLive, Safe
    <3> QED BY <3>1, <3>2, <3>3 DEF FilesInv, CopyIsThere, OneOrOther
  <2>2. CASE chosen \notin stored
    BY <1>7, <2>2, NoRestore, EndsAre DEF Stage
  <2> QED BY <2>1, <2>2
<1>8. CASE Unlog
  <2>1. /\ step'["cli"] = "swap" /\ wal' = None /\ op' = op /\ touched' = touched
        /\ step["cli"] = "unlog" /\ index' = index /\ entry' = entry
    BY <1>0, <1>8 DEF Unlog, Goto, command
  <2> QED BY <2>1 DEF FilesInv, CopyIsThere, OneOrOther
<1>9. CASE Swap
  <2>1. /\ step'["cli"] = "swapindex" /\ step["cli"] = "swap" /\ wal' = wal /\ op' = op
        /\ touched' = touched /\ file' = chosen.memory /\ chosen' = chosen
        /\ index' = index /\ entry' = entry
    BY <1>0, <1>9 DEF Swap, Goto, command
  <2> QED BY <2>1 DEF FilesInv, CopyIsThere, OneOrOther
<1>10. CASE MoveIn
  <2>1. op' = op /\ op["cli"] # "restore"
    BY <1>10 DEF MoveIn, FilesInv, Shape, StepsOK
  <2> QED BY <2>1, NoRestore
<1>11. CASE SwapIndex \/ MoveIndex \/ Abandon
  BY <1>11, NoRestore, EndsAre DEF SwapIndex, MoveIndex, Abandon
<1> QED BY <1>1, <1>2, <1>3, <1>4, <1>5, <1>6, <1>7, <1>8, <1>9, <1>10, <1>11 DEF Commands

LEMMA FilesStay ==
    ASSUME BackupConstants, FilesInv, [BackupsNext]_backupVars PROVE FilesInv'
<1>1. Shape' /\ Labelled'
  BY ShapeStays, LabelledStays DEF FilesInv
<1>2. CASE Commands
  BY <1>1, <1>2, CommandsKeep DEF FilesInv
<1>3. CASE ~Commands
  <2>1. BesideCommand
    BY <1>3, OthersAre DEF FilesInv
  <2> QED BY <1>1, <2>1, OthersKeep DEF FilesInv
<1> QED BY <1>2, <1>3

LEMMA FilesInit == ASSUME BackupConstants, BackupsInit PROVE FilesInv
<1>1. Shape
  BY ShapeInit
<1>2. Labelled /\ CopyIsThere /\ OneOrOther
  BY DEF BackupsInit, Labelled, CopyIsThere, OneOrOther, Actors
<1> QED BY <1>1, <1>2 DEF FilesInv

KeptFirst ==
    step["cli"] = "unlog" /\ step'["cli"] = "swap" => Visible \in Kept \/ touched.copy

OneOfTwo ==
    op["cli"] = "restore" /\ op'["cli"] = "none" /\ ~touched.start
         /\ (troubles' # troubles => step["cli"] \in {"memory", "index", "publish", "stage"}) =>
       \/ Visible' = chosen.memory /\ index' = IndexAfter(chosen, entry.index)
       \/ Visible' = entry.live /\ index' = entry.index

LEMMA RestoreSteps ==
    ASSUME BackupConstants, FilesInv, [BackupsNext]_backupVars PROVE KeptFirst /\ OneOfTwo
<1>1. KeptFirst
  <2> SUFFICES ASSUME step["cli"] = "unlog" PROVE Visible \in Kept \/ touched.copy
    BY DEF KeptFirst
  <2>1. op["cli"] = "restore"
    BY DEF FilesInv, Shape, StepsOK, Actors, Ops
  <2>2. touched.copy \/ Visible \in raw \/ NewestIsLive
    BY <2>1 DEF FilesInv, CopyIsThere
  <2>3. NewestIsLive => Visible \in {s.memory : s \in stored}
    BY DEF NewestIsLive
  <2> QED BY <2>2, <2>3 DEF Kept
<1>2. OneOfTwo
  <2> SUFFICES ASSUME op["cli"] = "restore", op'["cli"] = "none", ~touched.start,
                      troubles' # troubles => step["cli"] \in {"memory", "index", "publish", "stage"}
               PROVE  \/ Visible' = chosen.memory /\ index' = IndexAfter(chosen, entry.index)
                      \/ Visible' = entry.live /\ index' = entry.index
    BY DEF OneOfTwo
  <2> USE DEF Actors
  <2>0. op \in [Actors -> Ops] /\ step \in [Actors -> CommandSteps] /\ StoreOK
    BY DEF FilesInv, Shape, StepsOK
  <2>1. Commands
    BY OthersAre DEF FilesInv, BesideCommand
  <2>2. op' # op
    OBVIOUS
  <2>3. CASE SwapIndex
    <3>1. /\ step["cli"] = "swapindex" /\ UNCHANGED <<file, wal, foreign>>
          /\ index' = IndexAfter(chosen, index)
      BY <2>3 DEF SwapIndex
    <3>2. wal = None /\ file = chosen.memory /\ index = entry.index
      BY <3>1 DEF FilesInv, OneOrOther
    <3>3. Visible' = file
      BY <2>0, <3>1, <3>2, NextLiveIs DEF StoreOK
    <3> QED BY <3>1, <3>2, <3>3
  <2>4. CASE Stage \/ Abandon
    <3>1. /\ UNCHANGED store
          /\ step["cli"] \in {"memory", "index", "publish", "stage"}
      BY <2>4 DEF Stage, Abandon, Trouble, FilesInv, Shape, DaysOK
    <3>2. Visible' = Visible /\ index' = index
      BY <3>1, SameStore DEF FilesInv
    <3> QED BY <3>1, <3>2 DEF FilesInv, OneOrOther
  <2>5. CASE CopyFails("cli")
    BY <2>2, <2>5 DEF CopyFails
  <2>6. ~(CopyMemory("cli") \/ CopyIndex("cli") \/ Publish("cli") \/ Unlog \/ Swap \/ MoveIn)
    BY <2>2 DEF CopyMemory, CopyIndex, Publish, Unlog, Swap, MoveIn
  <2>7. ~(Import \/ MoveIndex \/ \E b \in stored : RunRestore(b))
    BY <2>0 DEF Import, MoveIndex, RunRestore, FilesInv, Shape, StepsOK
  <2> QED BY <2>1, <2>3, <2>4, <2>5, <2>6, <2>7 DEF Commands
<1> QED BY <1>1, <1>2

(* What a restore replaces is in a listed snapshot or a raw copy the moment *)
(* it begins to replace it, and a restore that is not killed between its    *)
(* moves (store/backup.py) leaves what the snapshot holds in its place or   *)
(* changes nothing: whatever engines, the daily job, forgets, rotations,       *)
(* kills and failing disks do beside it. *)
THEOREM RestoresAreSafe == BackupConstants => (BackupsSpec => RestoreIsSafe)
<1> SUFFICES ASSUME BackupConstants PROVE BackupsSpec => RestoreIsSafe
  OBVIOUS
<1>1. BackupsInit => FilesInv
  BY FilesInit
<1>2. FilesInv /\ [BackupsNext]_backupVars => FilesInv'
  BY FilesStay
<1>3. FilesInv /\ [BackupsNext]_backupVars => [KeptFirst]_backupVars
  BY RestoreSteps
<1>4. FilesInv /\ [BackupsNext]_backupVars => [OneOfTwo]_backupVars
  BY RestoreSteps
<1> QED BY <1>1, <1>2, <1>3, <1>4, PTL
        DEF BackupsSpec, RestoreIsSafe, ReplacedKept, AllOrNothing, KeptFirst, OneOfTwo

-----------------------------------------------------------------------------
(* LegacyStore.                                                            *)

(* The rows of the three tables, none of them written later than now. *)
Tabled ==
    /\ writes \in Nat
    /\ facts \in [Texts -> FactRow \cup {NoRow}]
    /\ pending \in [Texts -> PendingRow \cup {NoRow}]
    /\ archive \in [Texts -> PendingRow \cup {NoRow}]
    /\ \A t \in Texts : /\ facts[t] # NoRow => facts[t].at <= writes
                        /\ pending[t] # NoRow => pending[t].at <= writes

(* The v3 table is what the three were turned into, and they stay so. *)
UpgradedWhole ==
    upgrade = "done" =>
        \E of \in [Texts -> Profiles] : migrated = [t \in Texts |-> Memory(t, of)]

LegacyInv == Tabled /\ UpgradedWhole

(* A set of numbers has a least one. *)
LEMMA LeastNumber ==
    ASSUME NEW T, T \subseteq Nat, T # {}
    PROVE  \E b \in T : \A c \in T : b <= c
<1>1. PICK R : IsWellFoundedOn(R, Nat) /\ \A i, j \in Nat : i < j => <<i, j>> \in R
  <2>1. \A i, j \in Nat : i < j => <<i, j>> \in OpToRel(<, Nat)
    BY DEF OpToRel
  <2> QED BY <2>1, NatLessThanWellFounded
<1>2. PICK b \in T : \A y \in T : ~ (<<y, b>> \in R)
  <2>1. IsWellFoundedOn(R, Nat)
    BY <1>1
  <2> QED BY <2>1, WFMin, Zenon
<1>3. ASSUME NEW c \in T PROVE b <= c
  <2>1. b \in Nat /\ c \in Nat /\ ~ (<<c, b>> \in R)
    BY <1>2
  <2>2. ~(c < b)
    BY <1>1, <2>1
  <2> QED BY <2>1, <2>2
<1> QED BY <1>3

-----------------------------------------------------------------------------
(* The tables.                                                             *)

(* What a write may do to the tables. *)
Moves ==
    /\ writes' = writes + 1
    /\ facts' \in [Texts -> FactRow \cup {NoRow}] /\ pending' \in [Texts -> PendingRow \cup {NoRow}]
    /\ archive' \in [Texts -> PendingRow \cup {NoRow}]
    /\ \A t \in Texts : /\ facts'[t] \in {facts[t], NoRow} \/ facts'[t].at = writes + 1
                        /\ pending'[t] \in {pending[t], NoRow} \/ pending'[t].at = writes + 1

LEMMA MovesKeep ==
    ASSUME Tabled, Moves
    PROVE  Tabled'
<1>1. writes \in Nat /\ writes' = writes + 1 /\ writes' \in Nat
  BY DEF Tabled, Moves
<1>2. ASSUME NEW t \in Texts
      PROVE  /\ facts'[t] # NoRow => facts'[t].at <= writes'
             /\ pending'[t] # NoRow => pending'[t].at <= writes'
  <2>1. facts[t] # NoRow => facts[t].at \in Nat /\ facts[t].at <= writes
    BY DEF Tabled, FactRow
  <2>2. pending[t] # NoRow => pending[t].at \in Nat /\ pending[t].at <= writes
    BY DEF Tabled, PendingRow
  <2>3. /\ facts'[t] \in {facts[t], NoRow} \/ facts'[t].at = writes + 1
        /\ pending'[t] \in {pending[t], NoRow} \/ pending'[t].at = writes + 1
    BY DEF Moves
  <2> QED BY <1>1, <2>1, <2>2, <2>3
<1> QED BY <1>1, <1>2 DEF Tabled, Moves

LEMMA RowTyped ==
    ASSUME Tabled, NEW f \in Texts, NEW t \in Texts, NEW tier \in Tiers
    PROVE  Row(f, t, tier) \in FactRow /\ Row(f, t, tier).at = writes + 1
<1>1. writes \in Nat /\ (facts[f] # NoRow => facts[f].version \in Nat)
  BY DEF Tabled, FactRow
<1> QED BY <1>1 DEF Row, Now, FactRow

LEMMA PendingTyped ==
    ASSUME Tabled, NEW t \in Texts
    PROVE  [text |-> t, at |-> Now] \in PendingRow /\ Now = writes + 1
BY DEF Tabled, Now, PendingRow

(* A fact is put into the row of an id. *)
LEMMA PutTyped ==
    ASSUME Tabled, NEW f \in Texts, NEW t \in Texts, NEW tier \in Tiers, PutRow(f, t, tier)
    PROVE  /\ facts' \in [Texts -> FactRow \cup {NoRow}]
           /\ \A u \in Texts : facts'[u] = facts[u] \/ facts'[u].at = writes + 1
<1> DEFINE row == Row(f, t, tier)
<1>1. row \in FactRow /\ row.at = writes + 1
  BY RowTyped
<1>2. facts' = [facts EXCEPT ![f] = row] /\ facts \in [Texts -> FactRow \cup {NoRow}]
  BY DEF PutRow, Tabled
<1> HIDE DEF row
<1> QED BY <1>1, <1>2

LEMMA HomesAre == ASSUME NEW t \in Texts PROVE Homes(t) \subseteq Texts
BY DEF Homes, Stored

(* The quarantine of a text. *)
LEMMA PendingKept ==
    ASSUME Tabled, NEW t \in Texts,
           pending' \in {pending, [pending EXCEPT ![t] = [text |-> t, at |-> Now]],
                         [pending EXCEPT ![t] = NoRow]}
    PROVE  /\ pending' \in [Texts -> PendingRow \cup {NoRow}]
           /\ \A u \in Texts : pending'[u] \in {pending[u], NoRow} \/ pending'[u].at = writes + 1
<1> DEFINE row == [text |-> t, at |-> Now]
<1>1. row \in PendingRow /\ row.at = writes + 1
  BY PendingTyped
<1>2. /\ pending' \in {pending, [pending EXCEPT ![t] = row], [pending EXCEPT ![t] = NoRow]}
      /\ pending \in [Texts -> PendingRow \cup {NoRow}]
  BY DEF Tabled
<1> HIDE DEF row
<1> QED BY <1>1, <1>2

(* Every operation of the engine moves the tables, and none after the      *)
(* upgrade. *)
Operation ==
    \/ \E t \in Texts, tier \in Tiers :
          \/ Remember(t, tier) \/ RememberCut(t, tier)
          \/ Extract(t, tier) \/ Promote(t, tier)
    \/ \E t \in Texts : Quarantine(t) \/ Discard(t) \/ Forget(t)
    \/ \E before \in 2..LegacyWrites : PrunePending(before)
    \/ \E S \in SUBSET Texts : Consolidate(S)

LEMMA OperationMoves ==
    ASSUME Tabled, Operation
    PROVE  Moves /\ upgrade # "done" /\ upgrade' = upgrade
<1>0. /\ writes \in Nat /\ facts \in [Texts -> FactRow \cup {NoRow}]
      /\ pending \in [Texts -> PendingRow \cup {NoRow}]
      /\ archive \in [Texts -> PendingRow \cup {NoRow}]
  BY DEF Tabled
<1>1. Writes
  BY DEF Operation, Remember, RememberCut, Extract, Promote, Quarantine, Discard, Forget,
         PrunePending, Consolidate
<1>2. writes' = writes + 1 /\ upgrade # "done" /\ upgrade' = upgrade
  BY <1>1 DEF Writes, Now
<1>3. ASSUME NEW t \in Texts, NEW tier \in Tiers, NEW f \in Homes(t), PutRow(f, t, tier),
             archive' = archive,
             pending' \in {pending, [pending EXCEPT ![t] = [text |-> t, at |-> Now]],
                           [pending EXCEPT ![t] = NoRow]}
      PROVE  Moves
  BY <1>0, <1>2, <1>3, HomesAre, PutTyped, PendingKept DEF Moves
<1>4. ASSUME NEW t \in Texts, NEW tier \in Tiers,
             Remember(t, tier) \/ RememberCut(t, tier) \/ Extract(t, tier) \/ Promote(t, tier)
      PROVE  Moves
  <2>1. \E f \in Homes(t) : PutRow(f, t, tier) /\ archive' = archive
    BY <1>4 DEF Remember, RememberCut, Extract, Promote, Remembered
  <2>2. pending' \in {pending, [pending EXCEPT ![t] = [text |-> t, at |-> Now]],
                      [pending EXCEPT ![t] = NoRow]}
    BY <1>4 DEF Remember, RememberCut, Extract, Promote
  <2> QED BY <1>3, <2>1, <2>2
<1>5. ASSUME NEW t \in Texts, Quarantine(t) \/ Discard(t)
      PROVE  Moves
  <2>1. facts' = facts /\ archive' = archive
    BY <1>5 DEF Quarantine, Discard
  <2>2. pending' \in {pending, [pending EXCEPT ![t] = [text |-> t, at |-> Now]],
                      [pending EXCEPT ![t] = NoRow]}
    BY <1>5 DEF Quarantine, Discard
  <2> QED BY <1>0, <1>2, <2>1, <2>2, PendingKept DEF Moves
<1>6. ASSUME NEW t \in Texts, Forget(t)
      PROVE  Moves
  <2>1. facts' = [facts EXCEPT ![t] = NoRow] /\ pending' = pending /\ archive' = archive
    BY <1>6 DEF Forget
  <2> QED BY <1>0, <1>2, <2>1 DEF Moves
<1>7. ASSUME NEW before, PrunePending(before)
      PROVE  Moves
  <2>1. /\ facts' = facts /\ archive' = archive
        /\ pending' = [t \in Texts |-> IF pending[t] # NoRow /\ pending[t].at < before
                                       THEN NoRow ELSE pending[t]]
    BY <1>7 DEF PrunePending
  <2> QED BY <1>0, <1>2, <2>1 DEF Moves
<1>8. ASSUME NEW S \in SUBSET Texts, Consolidate(S)
      PROVE  Moves
  <2>1. /\ S \subseteq Stored(facts) /\ pending' = pending
        /\ archive' = [t \in Texts |-> IF t \in S
                                       THEN [text |-> facts[t].text, at |-> Now] ELSE archive[t]]
        /\ facts' = [t \in Texts |-> IF t \in S THEN NoRow ELSE facts[t]]
    BY <1>8 DEF Consolidate
  <2>2. \A t \in S : [text |-> facts[t].text, at |-> Now] \in PendingRow
    <3> TAKE t \in S
    <3>1. facts[t] \in FactRow
      BY <1>0, <2>1 DEF Stored
    <3>2. facts[t].text \in Texts
      BY <3>1 DEF FactRow
    <3>3. Now \in Nat
      BY <1>0 DEF Now
    <3> QED BY <3>2, <3>3 DEF PendingRow
  <2>3. archive' \in [Texts -> PendingRow \cup {NoRow}]
    BY <1>0, <2>1, <2>2
  <2> QED BY <1>0, <1>2, <2>1, <2>3 DEF Moves
<1>9. Moves
  BY <1>4, <1>5, <1>6, <1>7, <1>8 DEF Operation
<1> QED BY <1>2, <1>9

-----------------------------------------------------------------------------
(* The upgrade.                                                            *)

LEMMA LegacyStart == LegacyInit => LegacyInv
BY DEF LegacyInit, LegacyInv, Tabled, UpgradedWhole

LEMMA LegacyStep == LegacyInv /\ [LegacyNext]_legacyVars => LegacyInv'
<1> SUFFICES ASSUME LegacyInv, [LegacyNext]_legacyVars PROVE LegacyInv'
  OBVIOUS
<1>0. Tabled /\ UpgradedWhole
  BY DEF LegacyInv
<1>1. ASSUME Operation
      PROVE  LegacyInv'
  BY <1>0, <1>1, OperationMoves, MovesKeep DEF LegacyInv, UpgradedWhole
<1>2. ASSUME UNCHANGED <<facts, pending, archive, writes, migrated, upgrade>>
      PROVE  LegacyInv'
  <2>1. Tabled'
    BY <1>0, <1>2 DEF Tabled
  <2>2. \A of : \A t \in Texts : Memory(t, of)' = Memory(t, of)
    BY <1>2 DEF Memory, LiveId, LiveRow, Winner, Group
  <2> QED BY <1>0, <1>2, <2>1, <2>2 DEF LegacyInv, UpgradedWhole
<1>3. ASSUME Upgrade
      PROVE  LegacyInv'
  <2>1. UNCHANGED <<facts, pending, archive, writes>>
    BY <1>3 DEF Upgrade
  <2>2. Tabled'
    BY <1>0, <2>1 DEF Tabled
  <2>3. \A of : \A t \in Texts : Memory(t, of)' = Memory(t, of)
    BY <2>1 DEF Memory, LiveId, LiveRow, Winner, Group
  <2>4. upgrade' = "done" =>
            \E of \in [Texts -> Profiles] : migrated' = [t \in Texts |-> Memory(t, of)]
    BY <1>3 DEF Upgrade, Scopings
  <2> QED BY <2>2, <2>3, <2>4 DEF LegacyInv, UpgradedWhole
<1>4. PublishLog \/ PublishCut \/ Backfill \/ Pull \/ UNCHANGED legacyVars
        => UNCHANGED <<facts, pending, archive, writes, migrated, upgrade>>
  BY DEF PublishLog, PublishCut, Published, Backfill, Pull, legacyVars
<1> QED BY <1>1, <1>2, <1>3, <1>4 DEF LegacyNext, Operation

LEMMA LegacyInvariant == LegacySpec => []LegacyInv
BY LegacyStart, LegacyStep, PTL DEF LegacySpec

LEMMA MemoriesAreRows == NoRow \notin MemoryRow
BY LegacyConstants, Zenon DEF LegacyConstants

(* Of the rows that say the same, one was written last. *)
LEMMA WinnerIs ==
    ASSUME Tabled, NEW of \in [Texts -> Profiles], NEW t \in Texts, LiveId(t)
    PROVE  /\ Winner(t, of) \in Group(t, of)
           /\ \A u \in Group(t, of) : LiveRow(u).at <= LiveRow(Winner(t, of)).at
<1>1. ASSUME NEW u \in Group(t, of)
      PROVE  LiveRow(u).at \in Nat /\ LiveRow(u).at <= writes
  <2>1. u \in Texts /\ (facts[u] # NoRow \/ pending[u] # NoRow)
    BY DEF Group, LiveId
  <2>2. /\ facts[u] # NoRow => facts[u].at \in Nat /\ facts[u].at <= writes
        /\ pending[u] # NoRow => pending[u].at \in Nat /\ pending[u].at <= writes
    BY <2>1 DEF Tabled, FactRow, PendingRow
  <2> QED BY <2>1, <2>2 DEF LiveRow
<1> DEFINE Ages == {writes - LiveRow(u).at : u \in Group(t, of)}
<1>2. writes \in Nat /\ t \in Group(t, of)
  BY DEF Tabled, Group
<1>3. Ages \subseteq Nat /\ Ages # {}
  BY <1>1, <1>2
<1>4. PICK b \in Ages : \A c \in Ages : b <= c
  <2> HIDE DEF Ages
  <2> QED BY <1>3, LeastNumber
<1>5. PICK w \in Group(t, of) : b = writes - LiveRow(w).at
  BY <1>4
<1>6. \A u \in Group(t, of) : LiveRow(u).at <= LiveRow(w).at
  <2> TAKE u \in Group(t, of)
  <2>1. writes - LiveRow(w).at <= writes - LiveRow(u).at
    BY <1>4, <1>5
  <2>2. LiveRow(u).at \in Nat /\ LiveRow(w).at \in Nat
    BY <1>1
  <2> QED BY <1>2, <2>1, <2>2
<1> QED BY <1>6 DEF Winner

(* Rows that say the same have one winner. *)
LEMMA WinnersMeet ==
    ASSUME NEW of, NEW t \in Texts, NEW u \in Group(t, of)
    PROVE  Group(u, of) = Group(t, of) /\ Winner(u, of) = Winner(t, of)
<1>1. Group(u, of) = Group(t, of)
  BY DEF Group
<1> QED BY <1>1 DEF Winner

(* What a row becomes. *)
LEMMA MemoryTyped ==
    ASSUME Tabled, NEW of \in [Texts -> Profiles], NEW t \in Texts, LiveId(t)
    PROVE  /\ Memory(t, of) \in MemoryRow /\ Memory(t, of).by = Winner(t, of)
           /\ Memory(t, of).status \in {"active", "pending"} <=> Winner(t, of) = t
<1>1. Winner(t, of) \in Texts
  BY WinnerIs DEF Group
<1>2. LiveRow(t).text \in Texts /\ (facts[t] # NoRow => facts[t].version \in Nat)
  BY DEF Tabled, FactRow, PendingRow, LiveRow, LiveId
<1> HIDE DEF Winner
<1> DEFINE v == IF facts[t] # NoRow THEN facts[t].version ELSE 1
           s == IF Winner(t, of) # t THEN "superseded" ELSE IF facts[t] # NoRow THEN "active" ELSE "pending"
<1>3. v \in Nat /\ s \in {"active", "superseded", "pending"}
      /\ (s \in {"active", "pending"} <=> Winner(t, of) = t)
  BY <1>2
<1>4. Memory(t, of) = [text |-> LiveRow(t).text, by |-> Winner(t, of), profile |-> of[t],
                       version |-> v, status |-> s]
  BY DEF Memory
<1> HIDE DEF v, s
<1> QED BY <1>1, <1>2, <1>3, <1>4 DEF MemoryRow

LEMMA ArchivedTyped ==
    ASSUME Tabled, NEW of \in [Texts -> Profiles], NEW t \in Texts, archive[t] # NoRow, ~LiveId(t)
    PROVE  Memory(t, of) \in MemoryRow
<1>1. archive[t].text \in Texts
  BY DEF Tabled, PendingRow
<1> QED BY <1>1 DEF Memory, MemoryRow

LEMMA NewestWins == LegacyInv => NewestStaysLive
<1> SUFFICES ASSUME LegacyInv, upgrade = "done" PROVE
        /\ \A t \in Texts : LiveId(t) =>
              /\ migrated[t] # NoRow
              /\ \E w \in Texts :
                    /\ {w} = {u \in Group(t, Scoped) : migrated[u].status \in {"active", "pending"}}
                    /\ LiveRow(t).at <= LiveRow(w).at
                    /\ migrated[t].by = w
        /\ Stored(archive) \subseteq Stored(migrated)
  BY DEF NewestStaysLive
<1> PICK of \in [Texts -> Profiles] : migrated = [t \in Texts |-> Memory(t, of)]
  BY DEF LegacyInv, UpgradedWhole
<1>0. Tabled /\ \A t \in Texts : migrated[t] = Memory(t, of)
  BY DEF LegacyInv
<1>3. ASSUME NEW t \in Texts, LiveId(t)
      PROVE  Group(t, Scoped) = Group(t, of)
  <2>1. \A u \in Texts : LiveId(u) => Scoped[u] = of[u]
    BY <1>0 DEF Scoped, Memory
  <2> QED BY <1>3, <2>1 DEF Group
<1>1. ASSUME NEW t \in Texts, LiveId(t)
      PROVE  /\ migrated[t] # NoRow
             /\ \E w \in Texts :
                   /\ {w} = {u \in Group(t, Scoped) : migrated[u].status \in {"active", "pending"}}
                   /\ LiveRow(t).at <= LiveRow(w).at
                   /\ migrated[t].by = w
  <2>1. migrated[t] # NoRow /\ migrated[t].by = Winner(t, of)
    BY <1>0, <1>1, MemoryTyped, MemoriesAreRows
  <2>2. /\ Winner(t, of) \in Group(t, of) /\ t \in Group(t, of)
        /\ \A u \in Group(t, of) : LiveRow(u).at <= LiveRow(Winner(t, of)).at
    <3>1. t \in Group(t, of)
      BY <1>1 DEF Group
    <3> QED BY <1>0, <1>1, <3>1, WinnerIs
  <2>3. ASSUME NEW u \in Group(t, of)
        PROVE  migrated[u].status \in {"active", "pending"} <=> Winner(t, of) = u
    <3>1. u \in Texts /\ LiveId(u)
      BY DEF Group
    <3>2. Winner(u, of) = Winner(t, of)
      BY WinnersMeet
    <3> QED BY <1>0, <3>1, <3>2, MemoryTyped
  <2>4. Winner(t, of) \in Texts
    BY <2>2 DEF Group
  <2>5. Group(t, Scoped) = Group(t, of)
    BY <1>1, <1>3
  <2> QED BY <2>1, <2>2, <2>3, <2>4, <2>5
<1>2. ASSUME NEW t \in Stored(archive)
      PROVE  t \in Stored(migrated)
  <2>1. t \in Texts /\ archive[t] # NoRow
    BY DEF Stored
  <2>2. Memory(t, of) \in MemoryRow
    BY <1>0, <2>1, MemoryTyped, ArchivedTyped
  <2> QED BY <1>0, <2>1, <2>2, MemoriesAreRows DEF Stored
<1> QED BY <1>1, <1>2

(* After the upgrade every text that was live is live once in its profile, *)
(* in the row written last, its other rows there point to it, and no row   *)
(* of the archive is lost (0002_v3_core, _resolve_duplicates). *)
THEOREM UpgradeKeepsNewest == LegacySpec => []NewestStaysLive
BY LegacyInvariant, NewestWins, PTL

-----------------------------------------------------------------------------
(* The log.                                                                *)

Event == [op : {"create", "update", "delete"}, fact : Texts, version : Nat, text : Texts]

(* Events and what is shown keep their types, and no version is ahead of the
   writes.  *)
Synced ==
    /\ outbox \in Seq(Event) /\ log \subseteq Event /\ pulled \subseteq log
    /\ shared \in [Texts -> SharedRow \cup {NoRow}]
    /\ \A t \in Texts : facts[t] # NoRow => facts[t].version <= writes
    /\ \A e \in Told : e.version <= writes

(* The events of a fact end with its row, or with a tombstone. *)
EndsWithRow(t) ==
    /\ PublishAllowed(facts[t].tier)
    /\ \E e \in Told : e.fact = t /\ e.version = facts[t].version
    /\ \A e \in Told : e.fact = t =>
          /\ e.version <= facts[t].version
          /\ e.version = facts[t].version => e.op # "delete" /\ e.text = facts[t].text

EndsDeleted(t) ==
    \A e \in Told : e.fact = t /\ e.op # "delete" =>
        \E d \in Told : d.fact = t /\ d.version > e.version

TellsTrue(t) == IF facts[t] # NoRow THEN EndsWithRow(t) ELSE EndsDeleted(t)

LogIsTrue == \A t \in Texts \ untold : TellsTrue(t)

(* Of what the puller is past, the newest event is shown. *)
ShownIsNewest ==
    \A t \in Texts :
        /\ shared[t] = NoRow => \A e \in pulled : e.fact # t
        /\ shared[t] # NoRow =>
              \E e \in pulled : /\ e.fact = t /\ shared[t] = ShownAs(e)
                                /\ \A d \in pulled : d.fact = t => d.version <= e.version

PeersInv == Synced /\ LogIsTrue /\ ShownIsNewest

LEMMA ToldEvents ==
    ASSUME Synced
    PROVE  Told \subseteq Event /\ \A i \in DOMAIN outbox : outbox[i] \in Told
BY DEF Synced, Told, ToSet

(* Nothing is told and the puller rests: what the rows that can be told have
   become does not matter to the rest.  *)
LEMMA NothingTold ==
    ASSUME PeersInv, Tabled, Tabled', writes <= writes', untold \subseteq untold',
           UNCHANGED <<outbox, log, pulled, shared>>,
           \A t \in Texts \ untold' : facts'[t] = facts[t],
           \A t \in Texts : facts'[t] # NoRow => facts'[t].version <= writes'
    PROVE  PeersInv'
<1>1. Told' = Told
  BY DEF Told
<1>2. writes \in Nat /\ writes' \in Nat /\ Told \subseteq Event
  BY ToldEvents DEF Tabled, PeersInv
<1>3. Synced'
  <2>1. \A e \in Told : e.version <= writes'
    <3> TAKE e \in Told
    <3>1. e.version \in Nat /\ e.version <= writes
      BY <1>2 DEF Event, PeersInv, Synced
    <3> QED BY <1>2, <3>1
  <2> QED BY <1>1, <2>1 DEF PeersInv, Synced
<1>4. LogIsTrue'
  <2> SUFFICES ASSUME NEW t \in Texts, t \notin untold' PROVE TellsTrue(t)'
    BY DEF LogIsTrue
  <2>1. TellsTrue(t) /\ facts'[t] = facts[t]
    BY DEF PeersInv, LogIsTrue
  <2> QED BY <1>1, <2>1 DEF TellsTrue, EndsWithRow, EndsDeleted
<1>5. ShownIsNewest'
  BY DEF PeersInv, ShownIsNewest
<1> QED BY <1>3, <1>4, <1>5 DEF PeersInv

(* A row is written or deleted, and its event put into the outbox. *)
LEMMA OneIsTold ==
    ASSUME PeersInv, Tabled, Tabled', writes' = writes + 1, untold \subseteq untold',
           UNCHANGED <<log, pulled, shared>>,
           NEW f \in Texts, NEW e \in Event, e.fact = f, e.version <= writes + 1,
           outbox' = Append(outbox, e),
           \A t \in Texts \ {f} : facts'[t] = facts[t],
           facts'[f] # NoRow => facts'[f].version <= writes + 1,
           f \notin untold' => TellsTrue(f)'
    PROVE  PeersInv'
<1>1. outbox \in Seq(Event) /\ Told \subseteq Event /\ writes \in Nat
  BY ToldEvents DEF Tabled, PeersInv, Synced
<1>2. Told' = Told \cup {e} /\ outbox' \in Seq(Event)
  <2>1. ToSet(outbox') = ToSet(outbox) \cup {e} /\ outbox' \in Seq(Event)
    BY <1>1 DEF ToSet
  <2> QED BY <2>1 DEF Told
<1>3. Synced'
  <2>1. \A d \in Told' : d.version <= writes'
    <3> TAKE d \in Told'
    <3>1. CASE d \in Told
      <4>1. d.version \in Nat /\ d.version <= writes
        BY <1>1, <3>1 DEF Event, PeersInv, Synced
      <4> QED BY <1>1, <4>1
    <3> QED BY <1>2, <3>1
  <2>2. ASSUME NEW t \in Texts, facts'[t] # NoRow
        PROVE  facts'[t].version <= writes'
    <3>1. CASE t = f
      BY <2>2, <3>1
    <3>2. CASE t # f
      <4>1. facts[t] \in FactRow /\ facts[t].version <= writes /\ facts'[t] = facts[t]
        BY <2>2, <3>2 DEF PeersInv, Synced, Tabled
      <4> QED BY <1>1, <4>1 DEF FactRow
    <3> QED BY <3>1, <3>2
  <2> QED BY <1>2, <2>1, <2>2 DEF PeersInv, Synced
<1>4. LogIsTrue'
  <2> SUFFICES ASSUME NEW t \in Texts, t \notin untold' PROVE TellsTrue(t)'
    BY DEF LogIsTrue
  <2>1. CASE t # f
    <3>1. TellsTrue(t) /\ facts'[t] = facts[t]
      BY <2>1 DEF PeersInv, LogIsTrue
    <3>2. \A d : d \in Told' /\ d.fact = t <=> d \in Told /\ d.fact = t
      BY <1>2, <2>1
    <3>3. CASE facts[t] # NoRow
      BY <3>1, <3>2, <3>3 DEF TellsTrue, EndsWithRow
    <3>4. CASE facts[t] = NoRow
      BY <3>1, <3>2, <3>4 DEF TellsTrue, EndsDeleted
    <3> QED BY <3>3, <3>4
  <2> QED BY <2>1
<1>5. ShownIsNewest'
  BY DEF PeersInv, ShownIsNewest
<1> QED BY <1>3, <1>4, <1>5 DEF PeersInv

(* Events reach the log: each of the outbox finds its slot taken, and what
   else comes is a row as it is.  *)
LEMMA LogGrows ==
    ASSUME PeersInv, Tabled, UNCHANGED <<facts, pending, archive, untold, writes, pulled, shared>>,
           outbox' \in {outbox, <<>>}, log \subseteq log', log' \subseteq Event,
           \A e \in log' \ Told : /\ facts[e.fact] # NoRow /\ e.op = "create"
                                  /\ e.version = facts[e.fact].version
                                  /\ e.text = facts[e.fact].text,
           \A e \in Told : \E d \in Told' : SameSlot(d, e)
    PROVE  PeersInv'
<1>1. outbox \in Seq(Event) /\ Told \subseteq Event /\ writes \in Nat
  BY ToldEvents DEF Tabled, PeersInv, Synced
<1>2. Told' \subseteq log' \cup Told /\ Told' \subseteq Event
  <2>1. ToSet(outbox') \subseteq ToSet(outbox)
    BY DEF ToSet
  <2>2. ToSet(outbox) \subseteq Told
    BY DEF Told
  <2>3. Told' = log' \cup ToSet(outbox')
    BY DEF Told
  <2> QED BY <1>1, <2>1, <2>2, <2>3
<1>3. ASSUME NEW e \in Told', e \notin Told
      PROVE  /\ e.fact \in Texts /\ facts[e.fact] # NoRow /\ e.op = "create"
             /\ e.version = facts[e.fact].version /\ e.text = facts[e.fact].text
  BY <1>2, <1>3 DEF Event
<1>4. Synced'
  <2>1. \A e \in Told' : e.version <= writes
    BY <1>3 DEF PeersInv, Synced
  <2>2. outbox' \in Seq(Event)
    <3>1. <<>> \in Seq(Event)
      OBVIOUS
    <3> QED BY <1>1, <3>1
  <2> QED BY <2>1, <2>2 DEF PeersInv, Synced
<1>5. LogIsTrue'
  <2> SUFFICES ASSUME NEW t \in Texts, t \notin untold PROVE TellsTrue(t)'
    BY DEF LogIsTrue
  <2>0. TellsTrue(t)
    BY DEF PeersInv, LogIsTrue
  <2>1. CASE facts[t] # NoRow
    <3>1. EndsWithRow(t)
      BY <2>0, <2>1 DEF TellsTrue
    <3>2. \E d \in Told' : d.fact = t /\ d.version = facts[t].version
      BY <3>1 DEF EndsWithRow, SameSlot
    <3>3. facts[t].version \in Nat
      BY <2>1 DEF Tabled, FactRow
    <3>4. ASSUME NEW e \in Told', e.fact = t
          PROVE  /\ e.version <= facts[t].version
                 /\ e.version = facts[t].version => e.op # "delete" /\ e.text = facts[t].text
      <4>1. CASE e \in Told
        BY <3>1, <3>4, <4>1 DEF EndsWithRow
      <4>2. CASE e \notin Told
        BY <1>3, <3>3, <3>4, <4>2
      <4> QED BY <4>1, <4>2
    <3>5. EndsWithRow(t)'
      BY <3>1, <3>2, <3>4 DEF EndsWithRow
    <3> QED BY <2>1, <3>5 DEF TellsTrue
  <2>2. CASE facts[t] = NoRow
    <3>1. EndsDeleted(t)
      BY <2>0, <2>2 DEF TellsTrue
    <3>2. ASSUME NEW e \in Told', e.fact = t, e.op # "delete"
          PROVE  \E d \in Told' : d.fact = t /\ d.version > e.version
      <4>1. e \in Told
        BY <1>3, <2>2, <3>2
      <4>2. PICK c \in Told : c.fact = t /\ c.version > e.version
        BY <3>1, <3>2, <4>1 DEF EndsDeleted
      <4>3. PICK d \in Told' : SameSlot(d, c)
        OBVIOUS
      <4> QED BY <4>2, <4>3 DEF SameSlot
    <3>3. EndsDeleted(t)'
      BY <3>2 DEF EndsDeleted
    <3> QED BY <2>2, <3>3 DEF TellsTrue
  <2> QED BY <2>1, <2>2
<1>6. ShownIsNewest'
  BY DEF PeersInv, ShownIsNewest
<1> QED BY <1>4, <1>5, <1>6 DEF PeersInv

(* Every event of the outbox has its slot in the log after the publishing. *)
LEMMA EmittedHasSlots ==
    ASSUME NEW events \in Seq(Event), NEW k \in DOMAIN events
    PROVE  \E d \in Emitted(events) : SameSlot(d, events[k])
<1> DEFINE Same == {i \in DOMAIN events : SameSlot(events[i], events[k])}
<1>1. DOMAIN events \subseteq Nat /\ k \in Same
  BY DEF SameSlot
<1>2. PICK i \in Same : \A j \in Same : i <= j
  <2>1. Same \subseteq Nat /\ Same # {}
    BY <1>1
  <2> HIDE DEF Same
  <2> QED BY <2>1, LeastNumber
<1>3. CASE \E d \in log : SameSlot(d, events[i])
  BY <1>3, <1>2 DEF Emitted, SameSlot
<1>4. CASE \A d \in log : ~SameSlot(d, events[i])
  <2>1. ASSUME NEW j \in DOMAIN events, j < i
        PROVE  ~SameSlot(events[j], events[i])
    <3>1. j \notin Same
      BY <1>1, <1>2, <2>1
    <3>2. SameSlot(events[i], events[k])
      BY <1>2
    <3> QED BY <3>1, <3>2 DEF SameSlot
  <2>2. events[i] \in Emitted(events)
    BY <1>2, <1>4, <2>1 DEF Emitted
  <2> QED BY <1>2, <2>2
<1> QED BY <1>3, <1>4

LEMMA EmittedAre ==
    ASSUME NEW events
    PROVE  log \subseteq Emitted(events) /\ Emitted(events) \subseteq log \cup ToSet(events)
BY DEF Emitted, ToSet

-----------------------------------------------------------------------------
(* The steps.                                                              *)

LEMMA RowsAreRows == NoRow \notin FactRow /\ NoRow \notin SharedRow
BY LegacyConstants, Zenon DEF LegacyConstants

(* The event of a row that is stored. *)
LEMMA RememberedTells ==
    ASSUME PeersInv, Tabled, Tabled', Writes,
           NEW t \in Texts, NEW tier \in Tiers, NEW f \in Homes(t), Remembered(f, t, tier)
    PROVE  PeersInv'
<1> DEFINE row == Row(f, t, tier)
           e == [op |-> IF facts[f] = NoRow THEN "create" ELSE "update",
                 fact |-> f, version |-> row.version, text |-> t]
<1>1. f \in Texts /\ writes \in Nat /\ facts \in [Texts -> FactRow \cup {NoRow}]
  BY HomesAre DEF Tabled
<1>2. /\ row \in FactRow /\ row # NoRow /\ row.text = t /\ row.tier = tier
      /\ row.version = IF facts[f] = NoRow THEN 1 ELSE facts[f].version + 1
  <2>1. row \in FactRow
    BY <1>1, RowTyped
  <2> QED BY <2>1, RowsAreRows DEF Row
<1>3. /\ facts' = [facts EXCEPT ![f] = row] /\ untold' = Untold(f, tier) /\ writes' = writes + 1
      /\ outbox' = IF PublishAllowed(tier) THEN Append(outbox, e) ELSE outbox
      /\ UNCHANGED <<log, pulled, shared>>
  BY DEF Remembered, PutRow, EnqueueEvent, Writes, Now
<1>4. e \in Event /\ e.fact = f /\ e.version = row.version /\ e.text = t /\ e.op # "delete"
  BY <1>1, <1>2 DEF Event, FactRow
<1>5. row.version <= writes + 1 /\ row.version \in Nat
  <2>1. facts[f] # NoRow => facts[f].version <= writes /\ facts[f].version \in Nat
    BY <1>1 DEF PeersInv, Synced, FactRow
  <2> QED BY <1>1, <1>2, <2>1
<1>6. untold \subseteq untold' /\ facts'[f] = row
      /\ \A u \in Texts \ {f} : facts'[u] = facts[u]
  BY <1>1, <1>3 DEF Untold
<1>7. \A u \in Texts : facts'[u] # NoRow => facts'[u].version <= writes'
  <2> TAKE u \in Texts
  <2>1. facts[u] # NoRow => facts[u].version <= writes /\ facts[u].version \in Nat
    BY <1>1 DEF PeersInv, Synced, FactRow
  <2> QED BY <1>1, <1>3, <1>5, <1>6, <2>1
<1>8. CASE ~PublishAllowed(tier)
  <2>1. f \in untold' /\ outbox' = outbox
    BY <1>3, <1>8 DEF Untold
  <2>2. writes <= writes'
    BY <1>1, <1>3
  <2>3. \A u \in Texts \ untold' : facts'[u] = facts[u]
    BY <1>6, <2>1
  <2> HIDE DEF row, e
  <2> QED BY <1>3, <1>6, <1>7, <2>1, <2>2, <2>3, NothingTold
<1>9. CASE PublishAllowed(tier)
  <2> HIDE DEF e, row
  <2>1. Told' = Told \cup {e} /\ Told \subseteq Event
    <3>1. outbox \in Seq(Event) /\ Told \subseteq Event
      BY ToldEvents DEF PeersInv, Synced
    <3>2. ToSet(outbox') = ToSet(outbox) \cup {e}
      BY <1>3, <1>4, <1>9, <3>1 DEF ToSet
    <3> QED BY <1>3, <3>1, <3>2 DEF Told
  <2>2. ASSUME f \notin untold'
        PROVE  TellsTrue(f)'
    <3>1. f \notin untold /\ TellsTrue(f)
      BY <1>1, <1>6, <2>2 DEF PeersInv, LogIsTrue
    <3>2. ASSUME NEW d \in Told, d.fact = f
          PROVE  d.version < row.version
      <4>1. facts[f] # NoRow
        <5>1. facts[f] = NoRow => \A c \in Told : c.fact # f
          BY <1>3, <1>9, <2>2 DEF Untold
        <5> QED BY <3>2, <5>1
      <4>2. d.version <= facts[f].version /\ d.version \in Nat /\ facts[f].version \in Nat
        BY <1>1, <2>1, <3>1, <3>2, <4>1 DEF TellsTrue, EndsWithRow, FactRow, Event
      <4> QED BY <1>2, <4>1, <4>2
    <3>3. \A d \in Told : d.fact = f => d.version \in Nat
      BY <2>1 DEF Event
    <3>4. ASSUME NEW d \in Told', d.fact = f
          PROVE  /\ d.version <= row.version
                 /\ d.version = row.version => d.op # "delete" /\ d.text = row.text
      <4>1. CASE d \in Told
        BY <1>5, <3>2, <3>3, <3>4, <4>1
      <4>2. CASE d = e
        BY <1>2, <1>4, <1>5, <4>2
      <4> QED BY <2>1, <4>1, <4>2
    <3>5. PublishAllowed(row.tier)
      BY <1>2, <1>9
    <3>6. \E d \in Told' : d.fact = f /\ d.version = row.version
      BY <1>4, <2>1
    <3>7. EndsWithRow(f)'
      BY <1>6, <3>4, <3>5, <3>6 DEF EndsWithRow, PublishAllowed
    <3> QED BY <1>2, <1>6, <3>7 DEF TellsTrue
  <2>3. outbox' = Append(outbox, e) /\ e.version <= writes + 1
    BY <1>3, <1>4, <1>5, <1>9
  <2> QED BY <1>1, <1>3, <1>4, <1>5, <1>6, <2>2, <2>3, OneIsTold
<1> QED BY <1>8, <1>9

(* The row of a text whose event a crash cuts off. *)
LEMMA CutTells ==
    ASSUME PeersInv, Tabled, Tabled', NEW t \in Texts, NEW tier \in Tiers, RememberCut(t, tier)
    PROVE  PeersInv'
<1>1. PICK f \in Homes(t) : PutRow(f, t, tier) /\ untold' = untold \cup {f}
  BY DEF RememberCut
<1> DEFINE row == Row(f, t, tier)
<1>2. f \in Texts /\ writes \in Nat /\ facts \in [Texts -> FactRow \cup {NoRow}]
  BY HomesAre DEF Tabled
<1>3. /\ facts' = [facts EXCEPT ![f] = row] /\ writes' = writes + 1
      /\ UNCHANGED <<outbox, log, pulled, shared>>
  BY <1>1 DEF RememberCut, PutRow, Writes, Now
<1>4. row.version <= writes + 1
  <2>1. facts[f] # NoRow => facts[f].version <= writes /\ facts[f].version \in Nat
    BY <1>2 DEF PeersInv, Synced, FactRow
  <2> QED BY <1>2, <2>1 DEF Row
<1> HIDE DEF row
<1>5. \A u \in Texts : facts'[u] # NoRow => facts'[u].version <= writes'
  <2> TAKE u \in Texts
  <2>1. facts[u] # NoRow => facts[u].version <= writes /\ facts[u].version \in Nat
    BY <1>2 DEF PeersInv, Synced, FactRow
  <2> QED BY <1>2, <1>3, <1>4, <2>1
<1>6. writes <= writes' /\ untold \subseteq untold' /\ \A u \in Texts \ untold' : facts'[u] = facts[u]
  BY <1>1, <1>2, <1>3
<1> QED BY <1>3, <1>5, <1>6, NothingTold

(* The tombstone. *)
LEMMA ForgetTells ==
    ASSUME PeersInv, Tabled, Tabled', NEW f \in Texts, Forget(f)
    PROVE  PeersInv'
<1> DEFINE v == facts[f].version + 1
           e == [op |-> "delete", fact |-> f, version |-> v, text |-> facts[f].text]
<1>1. /\ writes \in Nat /\ facts \in [Texts -> FactRow \cup {NoRow}] /\ facts[f] # NoRow
      /\ facts[f] \in FactRow /\ facts[f].version \in Nat /\ facts[f].text \in Texts
      /\ facts[f].version <= writes
  BY DEF Tabled, Forget, FactRow, PeersInv, Synced
<1>2. /\ facts' = [facts EXCEPT ![f] = NoRow] /\ untold' = untold /\ writes' = writes + 1
      /\ outbox' = IF PublishAllowed(facts[f].tier) THEN Append(outbox, e) ELSE outbox
      /\ UNCHANGED <<log, pulled, shared>>
  BY DEF Forget, EnqueueEvent, Writes, Now
<1>3. v \in Nat /\ v <= writes + 1 /\ v > facts[f].version
  BY <1>1
<1>4. e \in Event /\ e.fact = f /\ e.version = v /\ e.op = "delete"
  BY <1>1, <1>3 DEF Event
<1>5. facts'[f] = NoRow /\ \A u \in Texts \ {f} : facts'[u] = facts[u]
  BY <1>1, <1>2
<1> HIDE DEF e, v
<1>6. CASE ~PublishAllowed(facts[f].tier)
  <2>1. f \in untold
    BY <1>1, <1>6 DEF PeersInv, LogIsTrue, TellsTrue, EndsWithRow
  <2>2. writes <= writes' /\ outbox' = outbox
    BY <1>1, <1>2, <1>6
  <2>3. \A u \in Texts \ untold' : facts'[u] = facts[u]
    BY <1>2, <1>5, <2>1
  <2>4. \A u \in Texts : facts'[u] # NoRow => facts'[u].version <= writes'
    <3> TAKE u \in Texts
    <3>1. facts[u] # NoRow => facts[u].version <= writes /\ facts[u].version \in Nat
      BY <1>1 DEF PeersInv, Synced, FactRow
    <3> QED BY <1>1, <1>2, <1>5, <3>1
  <2> QED BY <1>2, <2>2, <2>3, <2>4, NothingTold
<1>7. CASE PublishAllowed(facts[f].tier)
  <2>1. Told' = Told \cup {e} /\ Told \subseteq Event
    <3>1. outbox \in Seq(Event) /\ Told \subseteq Event
      BY ToldEvents DEF PeersInv, Synced
    <3>2. ToSet(outbox') = ToSet(outbox) \cup {e}
      BY <1>2, <1>4, <1>7, <3>1 DEF ToSet
    <3> QED BY <1>2, <3>1, <3>2 DEF Told
  <2>2. ASSUME f \notin untold'
        PROVE  TellsTrue(f)'
    <3>1. EndsWithRow(f)
      BY <1>1, <1>2, <2>2 DEF PeersInv, LogIsTrue, TellsTrue
    <3>2. ASSUME NEW d \in Told', d.fact = f, d.op # "delete"
          PROVE  e \in Told' /\ e.fact = f /\ e.version > d.version
      <4>1. d \in Told
        BY <1>4, <2>1, <3>2
      <4>2. d.version <= facts[f].version /\ d.version \in Nat
        BY <2>1, <3>1, <3>2, <4>1 DEF EndsWithRow, Event
      <4> QED BY <1>1, <1>3, <1>4, <2>1, <4>2
    <3>3. EndsDeleted(f)'
      BY <3>2 DEF EndsDeleted
    <3> QED BY <1>5, <3>3 DEF TellsTrue
  <2>3. outbox' = Append(outbox, e) /\ e.version <= writes + 1
    BY <1>2, <1>3, <1>4, <1>7
  <2> QED BY <1>2, <1>4, <1>5, <2>2, <2>3, OneIsTold
<1> QED BY <1>6, <1>7

LEMMA ConsolidateTells ==
    ASSUME PeersInv, Tabled, Tabled', NEW S \in SUBSET Texts, Consolidate(S)
    PROVE  PeersInv'
<1>1. /\ facts' = [t \in Texts |-> IF t \in S THEN NoRow ELSE facts[t]]
      /\ untold' = untold \cup S /\ writes' = writes + 1
      /\ UNCHANGED <<outbox, log, pulled, shared>>
  BY DEF Consolidate, Writes, Now
<1>2. writes \in Nat
  BY DEF Tabled
<1>3. \A u \in Texts : facts'[u] # NoRow => facts'[u].version <= writes'
  <2> TAKE u \in Texts
  <2>1. facts[u] # NoRow => facts[u].version <= writes /\ facts[u].version \in Nat
    BY DEF PeersInv, Synced, Tabled, FactRow
  <2> QED BY <1>1, <1>2, <2>1
<1>4. \A u \in Texts \ untold' : facts'[u] = facts[u]
  BY <1>1
<1> QED BY <1>1, <1>2, <1>3, <1>4, NothingTold

(* What leaves the facts and the log alone. *)
LEMMA FactsStand ==
    ASSUME PeersInv, Tabled, Tabled', writes <= writes',
           UNCHANGED <<facts, outbox, log, pulled, shared, untold>>
    PROVE  PeersInv'
<1>1. \A t \in Texts : facts'[t] # NoRow => facts'[t].version <= writes'
  <2> TAKE t \in Texts
  <2>1. facts[t] # NoRow => facts[t].version <= writes /\ facts[t].version \in Nat
    BY DEF PeersInv, Synced, Tabled, FactRow
  <2>2. writes \in Nat /\ writes' \in Nat
    BY DEF Tabled
  <2> QED BY <2>1, <2>2
<1> QED BY <1>1, NothingTold

LEMMA PublishTells ==
    ASSUME PeersInv, Tabled, Published, outbox' \in {outbox, <<>>}
    PROVE  PeersInv'
<1>1. /\ log' = Emitted(outbox)
      /\ UNCHANGED <<facts, pending, archive, untold, writes, pulled, shared>>
  BY DEF Published
<1>2. outbox \in Seq(Event) /\ Told \subseteq Event /\ log \subseteq Event
  BY ToldEvents DEF PeersInv, Synced
<1>3. log \subseteq log' /\ log' \subseteq Told
  BY <1>1, EmittedAre DEF Told
<1>4. ASSUME NEW e \in Told
      PROVE  \E d \in Told' : SameSlot(d, e)
  <2>1. log' \subseteq Told'
    BY DEF Told
  <2>2. CASE e \in log
    BY <1>3, <2>1, <2>2 DEF SameSlot
  <2>3. CASE e \notin log
    <3>1. PICK k \in DOMAIN outbox : e = outbox[k]
      BY <2>3 DEF Told, ToSet
    <3>2. PICK d \in Emitted(outbox) : SameSlot(d, outbox[k])
      BY <1>2, EmittedHasSlots
    <3> QED BY <1>1, <2>1, <3>1, <3>2
  <2> QED BY <2>2, <2>3
<1>5. log' \subseteq Event
  BY <1>2, <1>3
<1> QED BY <1>1, <1>3, <1>4, <1>5, LogGrows

LEMMA BackfillTells ==
    ASSUME PeersInv, Tabled, Backfill
    PROVE  PeersInv'
<1>1. /\ log' = log \cup Backfilled(Stored(facts)) /\ outbox' = outbox
      /\ UNCHANGED <<facts, pending, archive, untold, writes, pulled, shared>>
  BY DEF Backfill
<1>2. Told \subseteq Event /\ log \subseteq Event
  BY ToldEvents DEF PeersInv, Synced
<1>3. ASSUME NEW e \in Backfilled(Stored(facts))
      PROVE  /\ e \in Event /\ facts[e.fact] # NoRow /\ e.op = "create"
             /\ e.version = facts[e.fact].version /\ e.text = facts[e.fact].text
  <2>1. PICK t \in Stored(facts) : e = FactEvent(t)
    BY DEF Backfilled
  <2>2. t \in Texts /\ facts[t] # NoRow /\ facts[t] \in FactRow
    BY DEF Stored, Tabled
  <2> QED BY <2>1, <2>2 DEF FactEvent, Event, FactRow
<1>4. Told \subseteq Told' /\ log \subseteq Told
  BY <1>1 DEF Told
<1>5. \A e \in Told : \E d \in Told' : SameSlot(d, e)
  BY <1>4 DEF SameSlot
<1>6. log' \subseteq Event /\ log \subseteq log'
  BY <1>1, <1>2, <1>3
<1>7. \A e \in log' \ Told : /\ facts[e.fact] # NoRow /\ e.op = "create"
                             /\ e.version = facts[e.fact].version
                             /\ e.text = facts[e.fact].text
  BY <1>1, <1>3, <1>4
<1> QED BY <1>1, <1>5, <1>6, <1>7, LogGrows

(* Of events with bounded versions one is highest. *)
LEMMA HighestIs ==
    ASSUME NEW events \in SUBSET Event, events # {}, NEW n \in Nat,
           \A e \in events : e.version <= n
    PROVE  Highest(events) \in events /\ \A d \in events : d.version <= Highest(events).version
<1> DEFINE Gaps == {n - e.version : e \in events}
<1>1. \A e \in events : e.version \in Nat
  BY DEF Event
<1>2. Gaps \subseteq Nat /\ Gaps # {}
  BY <1>1
<1>3. PICK b \in Gaps : \A c \in Gaps : b <= c
  <2> HIDE DEF Gaps
  <2> QED BY <1>2, LeastNumber
<1>4. PICK e \in events : b = n - e.version
  BY <1>3
<1>5. \A d \in events : d.version <= e.version
  <2> TAKE d \in events
  <2>1. n - e.version <= n - d.version
    BY <1>3, <1>4
  <2> QED BY <1>1, <2>1
<1> QED BY <1>5 DEF Highest

LEMMA PullTells ==
    ASSUME PeersInv, Tabled, Pull
    PROVE  PeersInv'
<1>1. /\ shared' = [f \in Texts |-> IF News(f) = {} THEN shared[f] ELSE ShownAs(Highest(News(f)))]
      /\ pulled' = log /\ UNCHANGED <<facts, outbox, log, untold, writes>>
  BY DEF Pull
<1>2. Told \subseteq Event /\ log \subseteq Told /\ log \subseteq Event /\ writes \in Nat
  BY ToldEvents DEF Told, PeersInv, Tabled
<1>3. ASSUME NEW t \in Texts, News(t) # {}
      PROVE  /\ Highest(News(t)) \in News(t)
             /\ \A d \in News(t) : d.version <= Highest(News(t)).version
  <2>1. News(t) \subseteq log
    BY DEF News
  <2>2. \A e \in News(t) : e.version <= writes
    BY <1>2, <2>1 DEF PeersInv, Synced
  <2> QED BY <1>2, <1>3, <2>1, <2>2, HighestIs
<1>4. ASSUME NEW e \in Event
      PROVE  ShownAs(e) \in SharedRow /\ ShownAs(e) # NoRow
  <2>1. e.version \in Nat /\ e.text \in Texts /\ (e.op = "delete") \in BOOLEAN
    BY DEF Event
  <2>2. ShownAs(e) \in SharedRow
    BY <2>1 DEF ShownAs, SharedRow
  <2> QED BY <2>2, RowsAreRows
<1>5. shared' \in [Texts -> SharedRow \cup {NoRow}]
  <2>1. ASSUME NEW t \in Texts, News(t) # {}
        PROVE  ShownAs(Highest(News(t))) \in SharedRow
    <3>1. Highest(News(t)) \in log
      BY <1>3, <2>1 DEF News
    <3> QED BY <1>2, <1>4, <3>1
  <2> QED BY <1>1, <2>1 DEF PeersInv, Synced
<1>6. Told' = Told
  BY <1>1 DEF Told
<1>7. Synced'
  BY <1>1, <1>5, <1>6 DEF PeersInv, Synced
<1>8. LogIsTrue'
  BY <1>1, <1>6 DEF PeersInv, LogIsTrue, TellsTrue, EndsWithRow, EndsDeleted
<1>9. ShownIsNewest'
  <2> SUFFICES ASSUME NEW t \in Texts
               PROVE  /\ shared'[t] = NoRow => \A e \in log : e.fact # t
                      /\ shared'[t] # NoRow =>
                            \E e \in log : /\ e.fact = t /\ shared'[t] = ShownAs(e)
                                           /\ \A d \in log : d.fact = t => d.version <= e.version
    BY <1>1 DEF ShownIsNewest, ShownAs
  <2>0. /\ shared[t] = NoRow => \A e \in pulled : e.fact # t
        /\ shared[t] # NoRow =>
              \E e \in pulled : /\ e.fact = t /\ shared[t] = ShownAs(e)
                                /\ \A d \in pulled : d.fact = t => d.version <= e.version
    BY DEF PeersInv, ShownIsNewest
  <2>1. pulled \subseteq log /\ \A d \in log : d.version \in Nat
    BY <1>2 DEF PeersInv, Synced, Event
  <2>2. CASE News(t) = {}
    <3>1. shared'[t] = shared[t]
      BY <1>1, <2>2
    <3>2. CASE shared[t] = NoRow
      BY <2>0, <2>2, <3>1, <3>2 DEF News
    <3>3. CASE shared[t] # NoRow
      <4>1. PICK e \in pulled : /\ e.fact = t /\ shared[t] = ShownAs(e)
                                /\ \A d \in pulled : d.fact = t => d.version <= e.version
        BY <2>0, <3>3
      <4>2. shared[t].version = e.version
        BY <4>1 DEF ShownAs
      <4>3. ASSUME NEW d \in log, d.fact = t
            PROVE  d.version <= e.version
        <5>1. CASE d \in pulled
          BY <4>1, <4>3, <5>1
        <5>2. CASE d \notin pulled
          <6>1. ~(d.version > shared[t].version)
            BY <2>2, <3>3, <4>3, <5>2 DEF News
          <6> QED BY <2>1, <4>2, <6>1
        <5> QED BY <5>1, <5>2
      <4> QED BY <2>1, <3>1, <3>3, <4>1, <4>3
    <3> QED BY <3>2, <3>3
  <2>3. CASE News(t) # {}
    <3> DEFINE e == Highest(News(t))
    <3>1. e \in News(t) /\ \A d \in News(t) : d.version <= e.version
      BY <1>3, <2>3
    <3>2. shared'[t] = ShownAs(e)
      BY <1>1, <2>3
    <3> HIDE DEF e
    <3>3. e \in log /\ e.fact = t /\ (shared[t] # NoRow => e.version > shared[t].version)
      BY <3>1 DEF News
    <3>4. shared'[t] # NoRow
      BY <1>2, <1>4, <3>2, <3>3
    <3>5. ASSUME NEW d \in log, d.fact = t
          PROVE  d.version <= e.version
      <4>1. CASE d \in News(t)
        BY <3>1, <4>1
      <4>2. CASE d \notin News(t)
        <5>1. CASE shared[t] = NoRow
          BY <2>0, <3>5, <4>2, <5>1 DEF News
        <5>2. CASE shared[t] # NoRow
          <6>1. PICK c \in pulled : /\ c.fact = t /\ shared[t] = ShownAs(c)
                                    /\ \A b \in pulled : b.fact = t => b.version <= c.version
            BY <2>0, <5>2
          <6>2. shared[t].version = c.version /\ c.version \in Nat
            BY <2>1, <6>1 DEF ShownAs
          <6>3. d.version <= c.version
            <7>1. CASE d \in pulled
              BY <3>5, <6>1, <7>1
            <7>2. CASE d \notin pulled
              <8>1. ~(d.version > shared[t].version)
                BY <3>5, <4>2, <5>2, <7>2 DEF News
              <8> QED BY <2>1, <6>2, <8>1
            <7> QED BY <7>1, <7>2
          <6> QED BY <2>1, <3>3, <5>2, <6>2, <6>3
        <5> QED BY <5>1, <5>2
      <4> QED BY <4>1, <4>2
    <3> QED BY <3>2, <3>3, <3>4, <3>5
  <2> QED BY <2>2, <2>3
<1> QED BY <1>7, <1>8, <1>9 DEF PeersInv

LEMMA PeersStart == LegacyInit => PeersInv
<1> SUFFICES ASSUME LegacyInit PROVE PeersInv
  OBVIOUS
<1>1. /\ outbox = <<>> /\ log = {} /\ pulled = {} /\ writes = 0 /\ untold = {}
      /\ \A t \in Texts : facts[t] = NoRow /\ shared[t] = NoRow
      /\ shared \in [Texts -> SharedRow \cup {NoRow}]
  BY DEF LegacyInit
<1>2. Told = {} /\ outbox \in Seq(Event)
  BY <1>1 DEF Told, ToSet
<1> QED BY <1>1, <1>2 DEF PeersInv, Synced, LogIsTrue, TellsTrue, EndsDeleted, ShownIsNewest

LEMMA PeersStep == LegacyInv /\ PeersInv /\ [LegacyNext]_legacyVars => PeersInv'
<1> SUFFICES ASSUME LegacyInv, PeersInv, [LegacyNext]_legacyVars PROVE PeersInv'
  OBVIOUS
<1>0. Tabled /\ Tabled' /\ writes \in Nat
  BY LegacyStep DEF LegacyInv, Tabled
<1>1. ASSUME NEW t \in Texts, NEW tier \in Tiers,
             Remember(t, tier) \/ Extract(t, tier) \/ Promote(t, tier)
      PROVE  PeersInv'
  <2>1. Writes /\ \E f \in Homes(t) : Remembered(f, t, tier)
    BY <1>1 DEF Remember, Extract, Promote
  <2> QED BY <1>0, <2>1, RememberedTells
<1>2. ASSUME NEW t \in Texts, NEW tier \in Tiers, RememberCut(t, tier)
      PROVE  PeersInv'
  BY <1>0, <1>2, CutTells
<1>3. ASSUME NEW t \in Texts, Forget(t)
      PROVE  PeersInv'
  BY <1>0, <1>3, ForgetTells
<1>4. ASSUME NEW S \in SUBSET Texts, Consolidate(S)
      PROVE  PeersInv'
  BY <1>0, <1>4, ConsolidateTells
<1>5. ASSUME \/ \E t \in Texts : Quarantine(t) \/ Discard(t)
             \/ \E before \in 2..LegacyWrites : PrunePending(before)
      PROVE  PeersInv'
  <2>1. UNCHANGED <<facts, outbox, log, pulled, shared, untold>> /\ writes' = writes + 1
    BY <1>5 DEF Quarantine, Discard, PrunePending, Writes, Now
  <2>2. writes <= writes'
    BY <1>0, <2>1
  <2> QED BY <1>0, <2>1, <2>2, FactsStand
<1>6. ASSUME Upgrade \/ UNCHANGED legacyVars
      PROVE  PeersInv'
  <2>1. UNCHANGED <<facts, outbox, log, pulled, shared, untold, writes>>
    BY <1>6 DEF Upgrade, legacyVars
  <2> QED BY <1>0, <2>1, FactsStand
<1>7. ASSUME PublishLog \/ PublishCut
      PROVE  PeersInv'
  BY <1>0, <1>7, PublishTells DEF PublishLog, PublishCut
<1>8. ASSUME Backfill
      PROVE  PeersInv'
  BY <1>0, <1>8, BackfillTells
<1>9. ASSUME Pull
      PROVE  PeersInv'
  BY <1>0, <1>9, PullTells
<1> QED BY <1>1, <1>2, <1>3, <1>4, <1>5, <1>6, <1>7, <1>8, <1>9 DEF LegacyNext

LEMMA PeersFollow == LegacyInv /\ PeersInv => PeersAgree
<1> SUFFICES ASSUME LegacyInv, PeersInv, outbox = <<>>, pulled = log,
                    NEW t \in Texts, t \notin untold
             PROVE  IF facts[t] # NoRow
                    THEN shared[t] = [version |-> facts[t].version, text |-> facts[t].text,
                                      deleted |-> FALSE]
                    ELSE shared[t] # NoRow => shared[t].deleted
  BY DEF PeersAgree
<1>1. Told = pulled /\ Tabled /\ Told \subseteq Event
  <2>1. ToSet(outbox) = {}
    BY DEF ToSet
  <2> QED BY <2>1, ToldEvents DEF Told, LegacyInv, PeersInv
<1>2. /\ shared[t] = NoRow => \A e \in pulled : e.fact # t
      /\ shared[t] # NoRow =>
            \E e \in pulled : /\ e.fact = t /\ shared[t] = ShownAs(e)
                              /\ \A d \in pulled : d.fact = t => d.version <= e.version
  BY DEF PeersInv, ShownIsNewest
<1>3. TellsTrue(t)
  BY DEF PeersInv, LogIsTrue
<1>4. CASE facts[t] # NoRow
  <2>1. EndsWithRow(t) /\ facts[t].version \in Nat
    BY <1>1, <1>3, <1>4 DEF TellsTrue, Tabled, FactRow
  <2>2. PICK c \in pulled : c.fact = t /\ c.version = facts[t].version
    BY <1>1, <2>1 DEF EndsWithRow
  <2>3. PICK e \in pulled : /\ e.fact = t /\ shared[t] = ShownAs(e)
                            /\ \A d \in pulled : d.fact = t => d.version <= e.version
    BY <1>2, <2>2
  <2>4. e.version = facts[t].version
    <3>1. c.version <= e.version /\ e.version <= facts[t].version
      BY <1>1, <2>1, <2>2, <2>3 DEF EndsWithRow
    <3>2. e.version \in Nat
      BY <1>1 DEF Event
    <3> QED BY <2>1, <2>2, <3>1, <3>2
  <2>5. e.op # "delete" /\ e.text = facts[t].text
    BY <1>1, <2>1, <2>3, <2>4 DEF EndsWithRow
  <2>6. shared[t] = [version |-> e.version, text |-> e.text, deleted |-> FALSE]
    <3>1. (e.op = "delete") = FALSE
      BY <2>5
    <3> QED BY <2>3, <3>1 DEF ShownAs
  <2> QED BY <1>4, <2>4, <2>5, <2>6
<1>5. CASE facts[t] = NoRow /\ shared[t] # NoRow
  <2>1. EndsDeleted(t)
    BY <1>3, <1>5 DEF TellsTrue
  <2>2. PICK e \in pulled : /\ e.fact = t /\ shared[t] = ShownAs(e)
                            /\ \A d \in pulled : d.fact = t => d.version <= e.version
    BY <1>2, <1>5
  <2>3. \A d \in pulled : d.version \in Nat
    BY <1>1 DEF Event
  <2>4. e.op = "delete"
    BY <1>1, <2>1, <2>2, <2>3 DEF EndsDeleted
  <2>5. shared[t].deleted
    <3>1. (e.op = "delete") = TRUE
      BY <2>4
    <3>2. shared[t] = [version |-> e.version, text |-> e.text, deleted |-> TRUE]
      BY <2>2, <3>1 DEF ShownAs
    <3>3. shared[t].deleted = TRUE
      BY <3>2
    <3> QED BY <3>3
  <2> QED BY <1>5, <2>5
<1> QED BY <1>4, <1>5

(* Once everything is emitted and pulled, the other store shows every fact *)
(* the log was told of as it is here, and none that is gone (publish,      *)
(* backfill, pull): the events of a fact end with its row or with a        *)
(* tombstone, however often and in whatever order they are sent. *)
THEOREM PeersComeToAgree == LegacySpec => []PeersAgree
<1>1. LegacySpec => [](LegacyInv /\ PeersInv)
  BY LegacyStart, LegacyStep, PeersStart, PeersStep, PTL DEF LegacySpec
<1> QED BY <1>1, PeersFollow, PTL
=============================================================================
