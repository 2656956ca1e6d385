------------------------------- MODULE Backups -------------------------------
(***************************************************************************)
(* Snapshots of a store and the two operations that replace it             *)
(* (em/store/backup.py; import_capsule and the forget of the facade).      *)
(*                                                                         *)
(* A store is memory.db with its write-ahead log, and index.db.  Every     *)
(* committed content of the memory has a number of its own.  A commit goes *)
(* to the log, which reaches the file when the engine is stopped and stays *)
(* beside it when the engine is killed.  A log that is still there when    *)
(* another file has taken the place of its own is replayed over that file  *)
(* by whoever opens it next.                                               *)
(*                                                                         *)
(* Three actors make snapshots: the engine's job worker (the daily         *)
(* backup), a tool call inside the engine (forget), and a command of the   *)
(* user (restore, import).  A snapshot is taken in three steps, its files  *)
(* at different moments; an index that is not there is left out, and the   *)
(* old flat backups hold the memory only.  Only a v2 engine ever holds     *)
(* <db>.lock, and only while it writes; a v3 provider never does.          *)
(*                                                                         *)
(* Two snapshots of one reason are taken in different milliseconds (they   *)
(* would share the .partial directory).                                    *)
(***************************************************************************)
EXTENDS Integers, FiniteSets, FiniteSetsExt

CONSTANTS
    Keep, KeepSafety,    \* limits of rotate, for each class
    MaxContents,         \* bounds: contents of the memory, snapshots, days,
    MaxSnapshots,        \*   crashes and kills and failures of the disk
    MaxDay,
    MaxTroubles

BackupConstants ==
    /\ Keep \in Nat \ {0} /\ KeepSafety \in Nat \ {0}
    /\ {MaxContents, MaxSnapshots, MaxTroubles} \subseteq Nat /\ MaxDay \in Nat \ {0}

VARIABLES
    file,       \* content of memory.db without its log
    wal,        \* content with its log, None when there is no log
    foreign,    \* the log belongs to a file that was replaced
    damaged,    \* memory.db has corrupt pages
    index,      \* the content index.db was built from, None when there is none
    engine,     \* "none", "v2", "writing" (v2, lock held), "v3"
    attached,   \* the engine's file is the one at the path
    last,       \* contents so far
    stored,     \* the snapshots list() returns
    raw,        \* contents kept as raw copies
    clock,      \* snapshots begun
    day, queued, made,   \* the daily backup's jobs
    payload,             \* the day of the job that runs
    op, step, snap,      \* of each actor
    chosen,     \* what the command puts in place
    entry,      \* history: the store as the command found it, and whether
    touched,    \*   it changed since then, and since the safety copy
    troubles

backupVars == <<file, wal, foreign, damaged, index, engine, attached, last, stored,
                raw, clock, day, queued, made, payload, op, step, snap, chosen, entry,
                touched, troubles>>
store   == <<file, wal, foreign, damaged, index>>
process == <<engine, attached>>
jobs    == <<day, queued, made, payload>>
command == <<chosen, entry, touched>>

None   == 0 - 1
Mixed  == 0 - 2     \* pages of two stores
Actors == {"job", "tool", "cli"}
Held   == engine = "writing"     \* what FileLock.probe sees
Alive  == engine # "none"

Visible ==
    CASE wal = None             -> file
      [] wal # None /\ foreign  -> Mixed
      [] wal # None /\ ~foreign -> wal

Safe(s) == s.reason \in {"pre-restore", "pre-migrate"}   \* SAFETY_PREFIXES
Kept    == {s.memory : s \in stored} \cup raw

Newest(reason) ==
    LET of == {s \in stored : s.reason = reason}
    IN  IF of = {} THEN {} ELSE {CHOOSE s \in of : \A t \in of : t.id <= s.id}

NoSnap == [id |-> 0, reason |-> "", day |-> 0, memory |-> None, index |-> None]
NoEntry  == [live |-> 0, index |-> 0]
NotSince == [start |-> FALSE, copy |-> FALSE]

BackupsInit ==
    /\ file = 0 /\ wal = None /\ foreign = FALSE /\ damaged = FALSE /\ index \in {0, None}
    /\ engine \in {"none", "v2", "v3"} /\ attached = TRUE
    /\ last = 0
    /\ stored \in {{}} \cup {{[NoSnap EXCEPT !.reason = "pre-migrate", !.memory = 0, !.index = i]} :
                              i \in {0, None}}
    /\ raw = {} /\ clock = 0
    /\ day = 1 /\ queued = {} /\ made = {} /\ payload = 0
    /\ op = [a \in Actors |-> "none"]
    /\ step = [a \in Actors |-> "idle"]
    /\ snap = [a \in Actors |-> NoSnap]
    /\ chosen = NoSnap /\ entry = NoEntry /\ touched = NotSince
    /\ troubles = 0

-----------------------------------------------------------------------------
(* The engine.  A v3 provider commits without the lock; once its file was
   replaced under it, its commits reach a file without a name.  *)
Changed == touched' = [start |-> step["cli"] # "idle", copy |-> step["cli"] # "idle"]

Commit ==
    /\ last < MaxContents
    /\ last' = last + 1
    /\ IF attached
       THEN wal' = last + 1 /\ Changed
       ELSE UNCHANGED <<wal, touched>>
    /\ UNCHANGED <<file, foreign, damaged, index, attached>>

Write ==
    /\ \/ engine = "v3" /\ UNCHANGED engine
       \/ engine = "writing" /\ engine' = "v2"
    /\ Commit
    /\ UNCHANGED <<stored, raw, clock, jobs, op, step, snap, chosen, entry, troubles>>

Acquire ==
    /\ engine = "v2" /\ engine' = "writing"
    /\ UNCHANGED <<store, attached, last, stored, raw, clock, jobs, op, step, snap,
                   command, troubles>>

(* The index is brought up to the memory. *)
Reindex ==
    /\ Alive /\ attached /\ index # Visible
    /\ index' = Visible
    /\ Changed
    /\ UNCHANGED <<file, wal, foreign, damaged, process, last, stored, raw, clock,
                   jobs, op, step, snap, chosen, entry, troubles>>

(* Opening the store recovers its log, whosever it is. *)
Start(e) ==
    /\ ~Alive /\ engine' = e /\ attached' = TRUE
    /\ IF foreign
       THEN file' = Mixed /\ wal' = None /\ foreign' = FALSE
       ELSE UNCHANGED <<file, wal, foreign>>
    /\ UNCHANGED <<damaged, index, last, stored, raw, clock, jobs, op, step, snap,
                   command, troubles>>

(* Closing the last connection moves the log into the file. *)
Stop ==
    /\ engine \in {"v2", "v3"} /\ engine' = "none"
    /\ step["job"] = "idle" /\ step["tool"] = "idle"
    /\ attached' = TRUE
    /\ IF attached /\ wal # None
       THEN file' = wal /\ wal' = None
       ELSE UNCHANGED <<file, wal>>
    /\ UNCHANGED <<foreign, damaged, index, last, stored, raw, clock, jobs, op, step,
                   snap, command, troubles>>

Quit(who) ==
    /\ op' = [a \in Actors |-> IF a \in who THEN "none" ELSE op[a]]
    /\ step' = [a \in Actors |-> IF a \in who THEN "idle" ELSE step[a]]
    /\ snap' = [a \in Actors |-> IF a \in who THEN NoSnap ELSE snap[a]]

EndCommand ==
    /\ Quit({"cli"})
    /\ chosen' = NoSnap /\ entry' = NoEntry /\ touched' = NotSince

Trouble == troubles < MaxTroubles /\ troubles' = troubles + 1

Kill ==
    /\ Alive /\ Trouble
    /\ engine' = "none" /\ attached' = TRUE
    /\ Quit({"job", "tool"})
    /\ UNCHANGED <<store, last, stored, raw, clock, jobs, command>>

Damage ==
    /\ ~damaged /\ Trouble /\ damaged' = TRUE
    /\ UNCHANGED <<file, wal, foreign, index, process, last, stored, raw, clock, jobs,
                   op, step, snap, command>>

-----------------------------------------------------------------------------
(* _snapshot: a new name, each file copied and verified, then the manifest and
   the rename that makes it visible.  *)
BeginSnap(a, o, reason) ==
    /\ clock < MaxSnapshots /\ clock' = clock + 1
    /\ op' = [op EXCEPT ![a] = o]
    /\ step' = [step EXCEPT ![a] = "memory"]
    /\ snap' = [snap EXCEPT ![a] = [NoSnap EXCEPT !.id = clock + 1,
                                                  !.reason = reason, !.day = day]]

Goto(a, s) == step' = [step EXCEPT ![a] = s]

CopyMemory(a) ==
    /\ step[a] = "memory" /\ ~damaged
    /\ snap' = [snap EXCEPT ![a].memory = Visible]
    /\ Goto(a, "index")
    /\ touched' = IF a = "cli" THEN [touched EXCEPT !.copy = FALSE] ELSE touched
    /\ UNCHANGED <<store, process, last, stored, raw, clock, jobs, op, chosen, entry,
                   troubles>>

CopyIndex(a) ==
    /\ step[a] = "index"
    /\ snap' = [snap EXCEPT ![a].index = index]
    /\ Goto(a, "publish")
    /\ UNCHANGED <<store, process, last, stored, raw, clock, jobs, op, command, troubles>>

After == [daily |-> "rotate", forget |-> "delete", restore |-> "stage",
          import |-> "move"]

Publish(a) ==
    /\ step[a] = "publish"
    /\ stored' = stored \cup {snap[a]}
    /\ snap' = [snap EXCEPT ![a] = NoSnap]
    /\ Goto(a, After[op[a]])
    /\ UNCHANGED <<store, process, last, raw, clock, jobs, op, command, troubles>>

(* A copy that does not verify is removed.  For a restore the raw files are
   copied instead (_safety_copy); anybody else gets the exception.  *)
CopyFails(a) ==
    /\ step[a] = "memory" /\ damaged
    /\ IF op[a] = "restore"
       THEN /\ raw' = raw \cup {Visible}
            /\ Goto(a, "stage")
            /\ snap' = [snap EXCEPT ![a] = NoSnap]
            /\ touched' = [touched EXCEPT !.copy = FALSE]
            /\ UNCHANGED <<op, chosen, entry>>
       ELSE /\ IF a = "cli" THEN EndCommand ELSE Quit({a}) /\ UNCHANGED command
            /\ UNCHANGED raw
    /\ UNCHANGED <<store, process, last, stored, clock, jobs, troubles>>

(* snapshot_if_due: no second snapshot of a routine reason in its window (a day
   here); then the deletion, which is one more commit.  *)
Due(reason) == \A s \in Newest(reason) : s.day < day

SafeForget ==
    /\ Alive /\ engine # "writing" /\ step["tool"] = "idle"
    /\ IF Due("pre-forget")
       THEN BeginSnap("tool", "forget", "pre-forget")
       ELSE /\ op' = [op EXCEPT !["tool"] = "forget"]
            /\ Goto("tool", "delete")
            /\ UNCHANGED <<clock, snap>>
    /\ UNCHANGED <<store, process, last, stored, raw, jobs, command, troubles>>

Delete ==
    /\ step["tool"] = "delete" /\ engine # "writing"
    /\ Commit
    /\ Quit({"tool"})
    /\ UNCHANGED <<engine, stored, raw, clock, jobs, chosen, entry, troubles>>

-----------------------------------------------------------------------------
(* The daily backup: one job for each day, run on that day or later. *)
NewDay ==
    /\ day < MaxDay /\ day' = day + 1
    /\ UNCHANGED <<store, process, last, stored, raw, clock, queued, made, payload,
                   op, step, snap, command, troubles>>

Enqueue ==
    /\ Alive /\ queued' = queued \cup {day} /\ queued' # queued
    /\ UNCHANGED <<store, process, last, stored, raw, clock, day, made, payload, op,
                   step, snap, command, troubles>>

Made(d) == \E s \in stored : s.reason = "scheduled" /\ s.day = d

Daily ==
    /\ Alive /\ step["job"] = "idle"
    /\ \E d \in queued \ made :
          IF Made(d)
          THEN /\ made' = made \cup {d}
               /\ UNCHANGED <<clock, op, step, snap, payload>>
          ELSE /\ BeginSnap("job", "daily", "scheduled")
               /\ payload' = d
               /\ UNCHANGED made
    /\ UNCHANGED <<store, process, last, stored, raw, day, queued, command, troubles>>

(* The oldest of each class beyond its limit. *)
Surplus ==
    {s \in stored : Cardinality({t \in stored : Safe(t) = Safe(s) /\ t.id > s.id})
                    >= IF Safe(s) THEN KeepSafety ELSE Keep}

(* rotate, and the job ends; a crash before leaves it to be run again. *)
Rotate ==
    /\ step["job"] = "rotate"
    /\ stored' = stored \ Surplus
    /\ made' = made \cup {payload}
    /\ Quit({"job"})
    /\ UNCHANGED <<store, process, last, raw, clock, day, queued, payload, command,
                   troubles>>

-----------------------------------------------------------------------------
(* restore.  Refused while the lock is held; the snapshot's hashes are checked,
   and what will be overwritten is kept first. *)
RunRestore(b) ==
    /\ step["cli"] = "idle" /\ ~Held
    /\ chosen' = b
    /\ entry' = [live |-> Visible, index |-> index]
    /\ touched' = NotSince
    /\ BeginSnap("cli", "restore", "pre-restore")
    /\ UNCHANGED <<store, process, last, stored, raw, jobs, troubles>>

(* Every file is copied beside its target and verified before the first one is
   moved; a snapshot that is gone by now fails the copy.  *)
Stage ==
    /\ step["cli"] = "stage"
    /\ IF chosen \in stored
       THEN Goto("cli", "unlog") /\ UNCHANGED <<op, snap, command>>
       ELSE EndCommand
    /\ UNCHANGED <<store, process, last, stored, raw, clock, jobs, troubles>>

(* The old log goes before the new file comes.  Variant: it stays. *)
UnlogSkipped ==
    /\ step["cli"] = "unlog" /\ Goto("cli", "swap")
    /\ UNCHANGED <<store, process, last, stored, raw, clock, jobs, op, snap, command,
                   troubles>>

Unlog ==
    /\ step["cli"] = "unlog" /\ Goto("cli", "swap")
    /\ wal' = None /\ foreign' = FALSE
    /\ attached' = ~Alive
    /\ UNCHANGED <<file, damaged, index, engine, last, stored, raw, clock, jobs, op,
                   snap, command, troubles>>

Swap ==
    /\ step["cli"] = "swap" /\ Goto("cli", "swapindex")
    /\ file' = chosen.memory /\ damaged' = FALSE
    /\ foreign' = (wal # None)
    /\ attached' = ~Alive
    /\ UNCHANGED <<wal, index, engine, last, stored, raw, clock, jobs, op, snap,
                   command, troubles>>

(* What is beside a memory that was put in place: a snapshot or a capsule  *)
(* without an index leaves the index that is there.                        *)
IndexAfter(b, present) == IF b.index = None THEN present ELSE b.index

SwapIndex ==
    /\ step["cli"] = "swapindex"
    /\ index' = IndexAfter(chosen, index)
    /\ EndCommand
    /\ UNCHANGED <<file, wal, foreign, damaged, process, last, stored, raw, clock, jobs,
                   troubles>>

(* import_capsule: another store's files are moved in after a routine snapshot;
   the log of the old one is left where it is.  *)
Import ==
    /\ step["cli"] = "idle" /\ ~Held
    /\ last < MaxContents /\ last' = last + 1
    /\ \E i \in {last + 1, None} : chosen' = [NoSnap EXCEPT !.memory = last + 1, !.index = i]
    /\ entry' = [live |-> Visible, index |-> index]
    /\ touched' = NotSince
    /\ BeginSnap("cli", "import", "pre-import")
    /\ UNCHANGED <<store, process, stored, raw, jobs, troubles>>

MoveIn ==
    /\ step["cli"] = "move" /\ Goto("cli", "moveindex")
    /\ file' = chosen.memory /\ damaged' = FALSE
    /\ foreign' = (wal # None)
    /\ attached' = ~Alive
    /\ UNCHANGED <<wal, index, engine, last, stored, raw, clock, jobs, op, snap, command,
                   troubles>>

MoveIndex ==
    /\ step["cli"] = "moveindex"
    /\ index' = IndexAfter(chosen, index)
    /\ EndCommand
    /\ UNCHANGED <<file, wal, foreign, damaged, process, last, stored, raw, clock, jobs,
                   troubles>>

(* The command dies, or the disk refuses a copy. *)
Abandon ==
    /\ step["cli"] # "idle" /\ Trouble
    /\ EndCommand
    /\ UNCHANGED <<store, process, last, stored, raw, clock, jobs>>

BackupsNext ==
    \/ Write \/ Acquire \/ Reindex \/ Stop \/ Kill \/ Damage
    \/ \E e \in {"v2", "v3"} : Start(e)
    \/ \E a \in Actors : CopyMemory(a) \/ CopyIndex(a) \/ Publish(a) \/ CopyFails(a)
    \/ SafeForget \/ Delete
    \/ NewDay \/ Enqueue \/ Daily \/ Rotate
    \/ \E b \in stored : RunRestore(b)
    \/ Stage \/ Unlog \/ Swap \/ SwapIndex
    \/ Import \/ MoveIn \/ MoveIndex
    \/ Abandon

BackupsSpec == BackupsInit /\ [][BackupsNext]_backupVars

-----------------------------------------------------------------------------
(* Every variable has its type. *)
BackupsTypeOK ==
    /\ file \in 0..MaxContents \cup {Mixed}
    /\ wal \in 0..MaxContents \cup {None}
    /\ index \in 0..MaxContents \cup {Mixed, None}
    /\ {foreign, damaged, attached, touched.start, touched.copy} \subseteq BOOLEAN
    /\ engine \in {"none", "v2", "writing", "v3"}
    /\ last \in 0..MaxContents
    /\ clock \in 0..MaxSnapshots /\ day \in 1..MaxDay
    /\ {s.id : s \in stored} \subseteq 0..clock
    /\ queued \subseteq 1..day /\ made \subseteq queued
    /\ troubles \in 0..MaxTroubles

(* The moment a restore begins to replace the store, what the store held is in a
   listed snapshot or a raw copy, damaged or not, however often a restore was
   begun and died before; except commits made after that copy.  *)
ReplacedKept ==
    [][step["cli"] = "unlog" /\ step'["cli"] = "swap" =>
       Visible \in Kept \/ touched.copy]_backupVars

(* A restore that is not killed between its moves leaves the store of the  *)
(* snapshot, memory and index and no log, or the store it found; unless an *)
(* engine committed meanwhile.  A snapshot that has no index leaves the    *)
(* one that was there.                                                     *)
AllOrNothing ==
    [][op["cli"] = "restore" /\ op'["cli"] = "none" /\ ~touched.start
         /\ (troubles' # troubles => step["cli"] \in {"memory", "index", "publish", "stage"}) =>
       \/ Visible' = chosen.memory /\ index' = IndexAfter(chosen, entry.index)
       \/ Visible' = entry.live /\ index' = entry.index]_backupVars

(* What a restore replaces is kept first, and a restore that is not killed *)
(* between its moves leaves what the snapshot holds in its place, or       *)
(* nothing changed.                                                        *)
RestoreIsSafe == ReplacedKept /\ AllOrNothing

(* Expected, and refuted: a finished restore leaves no part of another     *)
(* store ("a half-restored store would be worse than none").               *)
RestoredIsWhole ==
    [][step["cli"] = "swapindex" /\ op'["cli"] = "none" /\ troubles' = troubles =>
       index' = chosen.index]_backupVars

(* Rotation takes a pre-migrate or pre-restore copy only when enough later ones of
   that class remain: routine backups never push it out.  *)
SafetyOutlives ==
    [][\A s \in stored \ stored' :
          Safe(s) => Cardinality({t \in stored' : Safe(t) /\ t.id > s.id})
                     >= KeepSafety]_backupVars

(* A day whose job is done has a routine backup of that day or a later one, also
   when the job ran late or twice and others were rotated away.  *)
DoneHasBackup ==
    \A d \in made : \E s \in stored : ~Safe(s) /\ s.day >= d

(* Expected, and refuted: opening the store after an import shows the imported one,
   no log of the old store being replayed over it.  *)
ImportedIsWhole == file # Mixed
=============================================================================
