------------------------------ MODULE JobQueue ------------------------------
(***************************************************************************)
(* The durable job queue (em/store/jobs.py) and the workers that drain it  *)
(* (em/jobs/worker.py).                                                    *)
(*                                                                         *)
(* Every queue operation runs in one BEGIN IMMEDIATE transaction, so each  *)
(* is one action.  A handler runs between two transactions, the claim and  *)
(* the one that records its outcome; anything may happen in between: the   *)
(* lease may run out, another worker may take the job over, the process    *)
(* may be killed.                                                          *)
(*                                                                         *)
(* Time.  run_after and locked_until are kept relative to the current time *)
(* (ticks left), so the clock needs no bound: `due' <= 0 is run_after <=   *)
(* now, and `left' < 0 is locked_until < now.  A passed run_after keeps    *)
(* its age up to AgeCap ticks, which is what orders the ready jobs.        *)
(***************************************************************************)
EXTENDS Integers, FiniteSets

CONSTANTS
    Workers,       \* worker processes
    MaxJobs,       \* bound: rows ever inserted (ids are time-ordered ULIDs)
    Keys,          \* dedupe keys
    NoKey,         \* a job enqueued without a dedupe key
    NoWorker,      \* locked_by IS NULL
    Types,         \* job types
    Handles,       \* Handles[w]: the job types registered with worker w
    Lease,         \* Lease[t]: the registered lease of type t, in ticks
    Backoff,       \* Backoff[a]: ticks before the retry after attempt a
    MaxAttempts,   \* max_attempts of every row
    Priorities,    \* priorities used (lower runs first)
    Delays,        \* run_after offsets used by producers, in ticks
    AgeCap,        \* bound: ticks of age kept for a passed run_after
    MaxRetries     \* bound: operator retries of one dead job

JobIds == 1..MaxJobs

ASSUME QueueConstants ==
    /\ MaxJobs \in Nat
    /\ NoKey \notin Keys
    /\ NoWorker \notin Workers
    /\ Types # {}
    /\ Handles \in [Workers -> SUBSET Types]
    /\ Lease \in [Types -> Nat]
    /\ MaxAttempts \in Nat \ {0}
    /\ Backoff \in [0..MaxAttempts -> Nat]
    /\ Priorities \subseteq Int
    /\ Delays \subseteq Nat
    /\ AgeCap \in Nat
    /\ MaxRetries \in Nat

VARIABLES
    status,        \* the jobs table, one entry per row id: its status,
    what,          \*   what its producer asked for,
    due,           \*   run_after,
    attempts,      \*   attempts,
    lock,          \*   and locked_by, locked_until
    run,           \* run[w]: the job whose handler w is executing (0: none),
                   \*   and what is left of the lease w last obtained for it
    crashes,       \* history: crashes[j], processes killed while running j
    retries        \* history: retries[j], operator retries of j

table == <<status, what, due, attempts, lock>>
history == <<crashes, retries>>
vars == <<status, what, due, attempts, lock, run, crashes, retries>>

Statuses == {"queued", "running", "done", "failed", "dead"}
RowKeys == Keys \cup {NoKey}
Unlocked == [by |-> NoWorker, left |-> -1]
Idle == [job |-> 0, left |-> -1]

(* Every variable has its type. *)
TypeOK ==
    /\ status \in [JobIds -> Statuses \cup {"none", "pruned"}]
    /\ what \in [JobIds -> [key : RowKeys, type : Types, prio : Int]]
    /\ due \in [JobIds -> Int]
    /\ attempts \in [JobIds -> Nat]
    /\ lock \in [JobIds -> [by : Workers \cup {NoWorker}, left : Int]]
    /\ run \in [Workers -> [job : JobIds \cup {0}, left : Int]]
    /\ crashes \in [JobIds -> Nat]
    /\ retries \in [JobIds -> Nat]

Init ==
    /\ status = [j \in JobIds |-> "none"]
    /\ what = [j \in JobIds |-> [key |-> NoKey, type |-> CHOOSE t \in Types : TRUE,
                                  prio |-> 0]]
    /\ due = [j \in JobIds |-> 0]
    /\ attempts = [j \in JobIds |-> 0]
    /\ lock = [j \in JobIds |-> Unlocked]
    /\ run = [w \in Workers |-> Idle]
    /\ crashes = [j \in JobIds |-> 0]
    /\ retries = [j \in JobIds |-> 0]

-----------------------------------------------------------------------------
(* The row predicates of claim's WHERE and ORDER BY clauses.               *)

Exists(j)    == status[j] \in Statuses
Settled(j)   == status[j] \in {"done", "dead"}
Waiting(j)   == status[j] \in {"queued", "failed"}
(* Variant: a lease counts as expired in its last instant. *)
ExpiredEarly(j) == status[j] = "running" /\ lock[j].left <= 0
Expired(j)   == status[j] = "running" /\ lock[j].left < 0
Exhausted(j) == status[j] = "running" /\ attempts[j] >= MaxAttempts

(* Variant: expired leases are not reclaimed. *)
ReadyNoReclaim(w) == {j \in JobIds : what[j].type \in Handles[w] /\ Waiting(j) /\ due[j] <= 0}

Ready(w) == {j \in JobIds : /\ what[j].type \in Handles[w]
                            /\ \/ Waiting(j) /\ due[j] <= 0
                               \/ Expired(j)}

Before(i, j) ==
    \/ what[i].prio < what[j].prio
    \/ /\ what[i].prio = what[j].prio
       /\ due[i] < due[j] \/ (due[i] = due[j] /\ i < j)

Holds(w, j) == status[j] = "running" /\ lock[j].by = w

-----------------------------------------------------------------------------
(* Producers.                                                              *)

(* enqueue of a key no row has (or of no key at all): a new row. *)
EnqueueNew(j, t, k, p, d) ==
    /\ status[j] = "none"
    /\ \A i \in JobIds : i < j => status[i] # "none"
    /\ \A i \in JobIds : ~(Exists(i) /\ k # NoKey /\ what[i].key = k)
    /\ status' = [status EXCEPT ![j] = "queued"]
    /\ what' = [what EXCEPT ![j] = [key |-> k, type |-> t, prio |-> p]]
    /\ due' = [due EXCEPT ![j] = d]
    /\ attempts' = [attempts EXCEPT ![j] = 0]
    /\ UNCHANGED <<lock, run, history>>

(* enqueue of a key whose row still waits: schedule and priority are       *)
(* replaced, status and attempts stay.  A row that runs or is settled is   *)
(* left alone, which is a step that changes nothing.                       *)
EnqueueRefresh(j, p, d) ==
    /\ Waiting(j)
    /\ what[j].key # NoKey
    /\ what' = [what EXCEPT ![j].prio = p]
    /\ due' = [due EXCEPT ![j] = d]
    /\ UNCHANGED <<status, attempts, lock, run, history>>

-----------------------------------------------------------------------------
(* Workers.                                                                *)

(* Exhausted rows whose last attempt let its lease run out become dead. *)
Bury(rows) ==
    /\ status' = [i \in JobIds |-> IF i \in rows THEN "dead" ELSE status[i]]
    /\ lock' = [i \in JobIds |-> IF i \in rows THEN Unlocked ELSE lock[i]]

(* Variant: the attempt is charged when it fails, not when it is claimed. *)
ClaimUncharged(w, j) ==
    LET ready == Ready(w)
        lease == Lease[what[j].type]
    IN /\ run[w] = Idle
       /\ j \in ready
       /\ ~Exhausted(j)
       /\ \A i \in ready \ {j} : Exhausted(i) \/ Before(j, i)
       /\ status' = [status EXCEPT ![j] = "running"]
       /\ lock' = [lock EXCEPT ![j] = [by |-> w, left |-> lease]]
       /\ run' = [run EXCEPT ![w] = [job |-> j, left |-> lease]]
       /\ UNCHANGED <<what, due, attempts, history>>

(* The claim loop buries every exhausted row it meets before the job it    *)
(* can claim, in the same transaction.  The claim is made with the longest *)
(* registered lease and cut to the type's own lease before the commit.     *)
Claim(w, j) ==
    LET ready  == Ready(w)
        buried == {i \in ready : Exhausted(i) /\ Before(i, j)}
        lease  == Lease[what[j].type]
    IN /\ run[w] = Idle
       /\ j \in ready
       /\ ~Exhausted(j)
       /\ \A i \in ready \ {j} : Exhausted(i) \/ Before(j, i)
       /\ status' = [i \in JobIds |-> IF i = j THEN "running"
                                      ELSE IF i \in buried THEN "dead" ELSE status[i]]
       /\ lock' = [i \in JobIds |-> IF i = j THEN [by |-> w, left |-> lease]
                                    ELSE IF i \in buried THEN Unlocked ELSE lock[i]]
       /\ attempts' = [attempts EXCEPT ![j] = @ + 1]
       /\ run' = [run EXCEPT ![w] = [job |-> j, left |-> lease]]
       /\ UNCHANGED <<what, due, history>>

(* The same loop when nothing is left to claim but exhausted rows. *)
ClaimNothing(w) ==
    /\ run[w] = Idle
    /\ Ready(w) # {}
    /\ \A i \in Ready(w) : Exhausted(i)
    /\ Bury(Ready(w))
    /\ UNCHANGED <<what, due, attempts, run, history>>

(* JobContext.heartbeat: extends a lease that is still held; on a lost one *)
(* it changes nothing.                                                     *)
Heartbeat(w) ==
    LET j == run[w].job
        lease == Lease[what[j].type]
    IN /\ j # 0
       /\ Holds(w, j)
       /\ lock' = [lock EXCEPT ![j] = [by |-> w, left |-> lease]]
       /\ run' = [run EXCEPT ![w] = [job |-> j, left |-> lease]]
       /\ UNCHANGED <<status, what, due, attempts, history>>

(* The transaction that records how the handler ended: the row is written  *)
(* only if this worker still holds it.                                     *)
Record(w, j, s) ==
    /\ j = run[w].job
    /\ Holds(w, j)
    /\ status' = [status EXCEPT ![j] = s]
    /\ lock' = [lock EXCEPT ![j] = Unlocked]
    /\ run' = [run EXCEPT ![w] = Idle]
    /\ UNCHANGED <<what, history>>

(* The handler returned. *)
Complete(w, j) ==
    /\ Record(w, j, "done")
    /\ UNCHANGED <<due, attempts>>

(* The handler raised; PermanentJobError is not retried. *)
FailForGood(w, j) ==
    /\ Record(w, j, "dead")
    /\ due' = [due EXCEPT ![j] = 0]
    /\ UNCHANGED attempts

FailTransient(w, j) ==
    IF attempts[j] >= MaxAttempts
    THEN FailForGood(w, j)
    ELSE /\ Record(w, j, "failed")
         /\ due' = [due EXCEPT ![j] = Backoff[attempts[j]]]
         /\ UNCHANGED attempts

(* The handler was interrupted (KeyboardInterrupt, SystemExit). *)
Release(w, j) ==
    /\ Record(w, j, "queued")
    /\ attempts' = [attempts EXCEPT ![j] = IF @ > 0 THEN @ - 1 ELSE 0]
    /\ UNCHANGED due

(* Any of them, by a worker whose job was taken over: outcome "lost". *)
EndLost(w, j) ==
    /\ j = run[w].job
    /\ ~Holds(w, j)
    /\ run' = [run EXCEPT ![w] = Idle]
    /\ UNCHANGED <<table, history>>

(* The process dies (OOM, segfault, kill -9) and a new one takes its place. *)
Crash(w, j) ==
    /\ j = run[w].job
    /\ run' = [run EXCEPT ![w] = Idle]
    /\ crashes' = [crashes EXCEPT ![j] = @ + 1]
    /\ UNCHANGED <<table, retries>>

-----------------------------------------------------------------------------
(* The operator, retention and time.                                       *)

RetryDead(j) ==
    /\ status[j] = "dead"
    /\ retries[j] < MaxRetries
    /\ status' = [status EXCEPT ![j] = "queued"]
    /\ attempts' = [attempts EXCEPT ![j] = 0]
    /\ due' = [due EXCEPT ![j] = 0]
    /\ retries' = [retries EXCEPT ![j] = @ + 1]
    /\ UNCHANGED <<what, lock, run, crashes>>

(* Variant: failed rows are deleted too. *)
PruneFailed(old) ==
    /\ old # {}
    /\ \A j \in old : Settled(j) \/ status[j] = "failed"
    /\ status' = [j \in JobIds |-> IF j \in old THEN "pruned" ELSE status[j]]
    /\ due' = [j \in JobIds |-> IF j \in old THEN 0 ELSE due[j]]
    /\ attempts' = [j \in JobIds |-> IF j \in old THEN 0 ELSE attempts[j]]
    /\ UNCHANGED <<what, lock, run, history>>

(* Retention is days and a lease is minutes, so on this clock any settled  *)
(* rows may be the old ones.  Ids are never used again.                    *)
Prune(old) ==
    /\ old # {}
    /\ \A j \in old : Settled(j)
    /\ status' = [j \in JobIds |-> IF j \in old THEN "pruned" ELSE status[j]]
    /\ due' = [j \in JobIds |-> IF j \in old THEN 0 ELSE due[j]]
    /\ attempts' = [j \in JobIds |-> IF j \in old THEN 0 ELSE attempts[j]]
    /\ UNCHANGED <<what, lock, run, history>>

Down(n, floor) == IF n > floor THEN n - 1 ELSE n

(* A settled row's run_after is never read again, so only rows with work   *)
(* ahead of them age.                                                      *)
Tick ==
    /\ due' = [j \in JobIds |-> IF Waiting(j) \/ status[j] = "running"
                                THEN Down(due[j], -AgeCap) ELSE due[j]]
    /\ lock' = [j \in JobIds |-> [by |-> lock[j].by, left |-> Down(lock[j].left, -1)]]
    /\ run' = [w \in Workers |-> [job |-> run[w].job, left |-> Down(run[w].left, -1)]]
    /\ UNCHANGED <<status, what, attempts, history>>

-----------------------------------------------------------------------------
Enqueue == \E j \in JobIds, p \in Priorities, d \in Delays :
              \/ EnqueueRefresh(j, p, d)
              \/ \E t \in Types, k \in RowKeys : EnqueueNew(j, t, k, p, d)

ClaimStep(w) == ClaimNothing(w) \/ \E j \in JobIds : Claim(w, j)

EndRun(w) == \E j \in JobIds : \/ Complete(w, j)
                               \/ FailForGood(w, j)
                               \/ FailTransient(w, j)
                               \/ Release(w, j)
                               \/ EndLost(w, j)
                               \/ Crash(w, j)

Operate == (\E j \in JobIds : RetryDead(j)) \/ (\E old \in SUBSET JobIds : Prune(old))

Next ==
    \/ Enqueue
    \/ \E w \in Workers : ClaimStep(w) \/ Heartbeat(w) \/ EndRun(w)
    \/ Operate
    \/ Tick

Spec == Init /\ [][Next]_vars

(* JobWorker.run polls for as long as it is not stopped, a handler returns *)
(* or its process dies, and time passes.  Nothing obliges a producer, an   *)
(* operator or a heartbeat.                                                *)
Fairness ==
    /\ WF_vars(Tick)
    /\ \A w \in Workers : WF_vars(ClaimStep(w)) /\ WF_vars(EndRun(w))

FairSpec == Spec /\ Fairness

-----------------------------------------------------------------------------
(* Properties.                                                             *)

Running(w, j) == run[w].job = j /\ run[w].left >= 0

(* Two handlers of one job overlap only when one of them has outlived the  *)
(* lease it last obtained: a worker within its lease is alone on its job.  *)
OneLeasedRunner ==
    \A v, w \in Workers, j \in JobIds : Running(v, j) /\ Running(w, j) => v = w

(* A worker within its lease still owns the row, with exactly the lease it *)
(* believes it has: nothing (burial, refresh, prune, an operator) takes a  *)
(* job from under a worker that keeps its lease.                           *)
LeaseIsHonoured ==
    \A w \in Workers, j \in JobIds :
        Running(w, j) => Holds(w, j) /\ lock[j].left = run[w].left

(* No sequence of claims, failures, take-overs and hand-backs charges a    *)
(* row more attempts than it has, and a waiting row always has one left.   *)
AttemptsBounded ==
    \A j \in JobIds : /\ attempts[j] <= MaxAttempts
                      /\ Waiting(j) => attempts[j] < MaxAttempts

(* A job whose handler kills the process stops doing so: it takes down at  *)
(* most max_attempts workers, and that many again per operator retry.      *)
PoisonBounded ==
    \A j \in JobIds : crashes[j] <= MaxAttempts * (1 + retries[j])

(* One dedupe key, one row. *)
OneRowPerKey ==
    \A i, j \in JobIds :
        /\ Exists(i) /\ Exists(j)
        /\ what[i].key = what[j].key /\ what[i].key # NoKey
        => i = j

(* A running row leaves its owner only by the owner's own hand or after    *)
(* its lease has run out; a late finisher changes nothing.                 *)
HolderEnds ==
    [][\A j \in JobIds :
          status[j] = "running" /\ (status'[j] # "running" \/ lock'[j].by # lock[j].by) =>
             \/ Expired(j)
             \/ \E w \in Workers : Holds(w, j) /\ run[w].job = j /\ run'[w] = Idle]_vars

(* A done job is never queued or run again, whatever is enqueued with its  *)
(* key, and a dead one comes back only by the operator's retry.            *)
SettledIsFinal ==
    [][\A j \in JobIds :
          /\ status[j] = "done" => status'[j] \in {"done", "pruned"}
          /\ status[j] = "dead" => \/ status'[j] \in {"dead", "pruned"}
                                   \/ retries'[j] > retries[j]]_vars

(* Every accepted job that some worker can run is eventually done or dead, *)
(* however often workers crash or overrun their leases, unless producers   *)
(* keep pushing run_after back or interrupts keep handing the job back for *)
(* ever.                                                                   *)
Postponed == \E j \in JobIds :
                \/ \E p \in Priorities, d \in Delays : EnqueueRefresh(j, p, d)
                \/ \E w \in Workers : Release(w, j)
Served(j) == \E w \in Workers : what[j].type \in Handles[w]
JobsSettle ==
    \/ []<><<Postponed>>_vars
    \/ \A j \in JobIds : (Exists(j) /\ Served(j)) ~> (Settled(j) \/ ~Exists(j))

-----------------------------------------------------------------------------
(* The queue implements the ledger its producers rely on.                  *)

LedgerState(j) ==
    CASE status[j] = "none"   -> "absent"
      [] status[j] = "pruned" -> "forgotten"
      [] Settled(j)           -> status[j]
      [] OTHER                -> "owed"

Ledger == INSTANCE WorkLedger WITH
    Work <- JobIds, MaxTries <- MaxAttempts,
    state <- [j \in JobIds |-> LedgerState(j)],
    tries <- attempts

(* Seen without workers, leases and time, the queue tries accepted work a  *)
(* bounded number of times and settles it only out of a try.               *)
LedgerSpec == Ledger!LedgerSpec
=============================================================================
