--------------------------- MODULE BackgroundProofs ---------------------------
(***************************************************************************)
(* Theorems about what runs in the background: JobQueue, for any workers,  *)
(* jobs, keys, types, leases, backoffs and attempt limits that satisfy     *)
(* QueueConstants; and Shadow, for any memories, threads, bounds and       *)
(* thresholds, whatever lines others leave.  The two share no state.       *)
(***************************************************************************)
EXTENDS JobQueue, Shadow, FiniteSetTheorems, TLAPS

-----------------------------------------------------------------------------
(* Type correctness. *)

LEMMA InitType == Init => TypeOK
<1>1. (CHOOSE t \in Types : TRUE) \in Types
  BY QueueConstants DEF QueueConstants
<1> QED  BY <1>1 DEF Init, TypeOK, Idle, Unlocked, RowKeys

(* What the steps that end a run have in common. *)
LEMMA RecordType ==
  ASSUME TypeOK, NEW w \in Workers, NEW j \in JobIds, NEW s \in Statuses, Record(w, j, s)
  PROVE  /\ status' \in [JobIds -> Statuses \cup {"none", "pruned"}]
         /\ what' \in [JobIds -> [key : RowKeys, type : Types, prio : Int]]
         /\ lock' \in [JobIds -> [by : Workers \cup {NoWorker}, left : Int]]
         /\ run' \in [Workers -> [job : JobIds \cup {0}, left : Int]]
         /\ crashes' \in [JobIds -> Nat]
         /\ retries' \in [JobIds -> Nat]
  BY DEF TypeOK, Record, Unlocked, Idle, history

LEMMA NextType == TypeOK /\ [Next]_vars => TypeOK'
<1> SUFFICES ASSUME TypeOK, [Next]_vars PROVE TypeOK'
    OBVIOUS
<1>1. ASSUME NEW j \in JobIds, NEW t \in Types, NEW k \in RowKeys,
             NEW p \in Priorities, NEW d \in Delays, EnqueueNew(j, t, k, p, d)
      PROVE  TypeOK'
  <2>1. [key |-> k, type |-> t, prio |-> p] \in [key : RowKeys, type : Types, prio : Int]
    BY QueueConstants DEF QueueConstants
  <2>2. d \in Int
    BY QueueConstants DEF QueueConstants
  <2> QED  BY <1>1, <2>1, <2>2 DEF EnqueueNew, TypeOK, Statuses, history
<1>2. ASSUME NEW j \in JobIds, NEW p \in Priorities, NEW d \in Delays, EnqueueRefresh(j, p, d)
      PROVE  TypeOK'
  <2>1. what[j] \in [key : RowKeys, type : Types, prio : Int] /\ p \in Int /\ d \in Int
    BY QueueConstants DEF QueueConstants, TypeOK
  <2>2. [what[j] EXCEPT !.prio = p] \in [key : RowKeys, type : Types, prio : Int]
    BY <2>1
  <2>3. what' = [what EXCEPT ![j] = [what[j] EXCEPT !.prio = p]]
    BY <1>2 DEF EnqueueRefresh
  <2> QED  BY <1>2, <2>1, <2>2, <2>3 DEF EnqueueRefresh, TypeOK, history
<1>3. ASSUME NEW w \in Workers, NEW j \in JobIds, Claim(w, j) PROVE TypeOK'
  <2>1. Lease[what[j].type] \in Nat
    BY QueueConstants DEF QueueConstants, TypeOK
  <2> QED  BY <1>3, <2>1 DEF Claim, TypeOK, Statuses, Unlocked, history
<1>4. ASSUME NEW w \in Workers, ClaimNothing(w) PROVE TypeOK'
  BY <1>4 DEF ClaimNothing, Bury, TypeOK, Statuses, Unlocked, history
<1>5. ASSUME NEW w \in Workers, Heartbeat(w) PROVE TypeOK'
  <2>1. run[w].job \in JobIds /\ Lease[what[run[w].job].type] \in Nat
    BY <1>5, QueueConstants DEF QueueConstants, Heartbeat, TypeOK
  <2> QED  BY <1>5, <2>1 DEF Heartbeat, TypeOK, history
<1>6. ASSUME NEW w \in Workers, EndRun(w) PROVE TypeOK'
  <2> PICK j \in JobIds : \/ Complete(w, j) \/ FailForGood(w, j) \/ FailTransient(w, j)
                          \/ Release(w, j) \/ EndLost(w, j) \/ Crash(w, j)
    BY <1>6 DEF EndRun
  <2>1. CASE Complete(w, j)
    BY <2>1, RecordType DEF Complete, Statuses, TypeOK
  <2>2. CASE FailForGood(w, j)
    BY <2>2, RecordType DEF FailForGood, Statuses, TypeOK
  <2>3. CASE FailTransient(w, j) /\ ~FailForGood(w, j)
    <3>1. ~(attempts[j] >= MaxAttempts) /\ Record(w, j, "failed")
      BY <2>3 DEF FailTransient
    <3>2. Backoff[attempts[j]] \in Nat
      <4>1. attempts[j] \in 0..MaxAttempts
        BY <3>1, QueueConstants DEF QueueConstants, TypeOK
      <4> QED  BY <4>1, QueueConstants DEF QueueConstants
    <3> QED  BY <2>3, <3>1, <3>2, RecordType DEF FailTransient, Statuses, TypeOK
  <2>4. CASE Release(w, j)
    BY <2>4, RecordType DEF Release, Statuses, TypeOK
  <2>5. CASE EndLost(w, j)
    BY <2>5 DEF EndLost, TypeOK, Idle, table, history
  <2>6. CASE Crash(w, j)
    BY <2>6 DEF Crash, TypeOK, Idle, table
  <2> QED  BY <2>1, <2>2, <2>3, <2>4, <2>5, <2>6
<1>7. ASSUME NEW j \in JobIds, RetryDead(j) PROVE TypeOK'
  BY <1>7 DEF RetryDead, TypeOK, Statuses
<1>8. ASSUME NEW old \in SUBSET JobIds, Prune(old) PROVE TypeOK'
  BY <1>8 DEF Prune, TypeOK, history
<1>9. CASE Tick
  BY <1>9 DEF Tick, Down, TypeOK, history
<1>10. CASE UNCHANGED vars
  BY <1>10 DEF vars, TypeOK
<1> QED
  BY <1>1, <1>2, <1>3, <1>4, <1>5, <1>6, <1>7, <1>8, <1>9, <1>10
     DEF Next, Enqueue, ClaimStep, Operate

(* Every reachable state is well typed. *)
THEOREM TypeCorrect == Spec => []TypeOK
  BY InitType, NextType, PTL DEF Spec

-----------------------------------------------------------------------------
(* Leases.  LeaseIsHonoured is inductive: a row is taken from its owner    *)
(* only when its own lease has run out, and a running worker's idea of its *)
(* lease is the row's.                                                     *)

LEMMA LeaseInit == Init => LeaseIsHonoured
  BY DEF Init, LeaseIsHonoured, Running, Idle

(* A step that touches neither the runs nor the row of any running job. *)
LEMMA LeaseUntouched ==
  ASSUME LeaseIsHonoured, UNCHANGED <<run, lock>>,
         \A j \in JobIds : status[j] = "running" => status'[j] = "running"
  PROVE  LeaseIsHonoured'
  BY DEF LeaseIsHonoured, Running, Holds

(* A step by which w writes row j, which it holds, and stops running. *)
LEMMA LeaseRecord ==
  ASSUME TypeOK, LeaseIsHonoured, NEW w \in Workers, NEW j \in JobIds, NEW s, Record(w, j, s)
  PROVE  LeaseIsHonoured'
<1> SUFFICES ASSUME NEW v \in Workers, NEW i \in JobIds, Running(v, i)'
             PROVE  (Holds(v, i) /\ lock[i].left = run[v].left)'
    BY DEF LeaseIsHonoured
<1>1. v # w /\ run'[v] = run[v] /\ Running(v, i)
  BY DEF Record, Running, TypeOK, Idle
<1>2. Holds(v, i) /\ lock[i].left = run[v].left
  BY <1>1 DEF LeaseIsHonoured
<1>3. i # j
  BY <1>1, <1>2 DEF Record, Holds
<1> QED  BY <1>1, <1>2, <1>3 DEF Record, Holds, TypeOK

LEMMA LeaseNext == TypeOK /\ LeaseIsHonoured /\ [Next]_vars => LeaseIsHonoured'
<1> SUFFICES ASSUME TypeOK, LeaseIsHonoured, [Next]_vars PROVE LeaseIsHonoured'
    OBVIOUS
<1>1. ASSUME NEW j \in JobIds, NEW t \in Types, NEW k \in RowKeys,
             NEW p \in Priorities, NEW d \in Delays, EnqueueNew(j, t, k, p, d)
      PROVE  LeaseIsHonoured'
  BY <1>1, LeaseUntouched DEF EnqueueNew, TypeOK
<1>2. ASSUME NEW j \in JobIds, NEW p \in Priorities, NEW d \in Delays, EnqueueRefresh(j, p, d)
      PROVE  LeaseIsHonoured'
  BY <1>2, LeaseUntouched DEF EnqueueRefresh
<1>3. ASSUME NEW w \in Workers, NEW j \in JobIds, Claim(w, j) PROVE LeaseIsHonoured'
  <2> SUFFICES ASSUME NEW v \in Workers, NEW i \in JobIds, Running(v, i)'
               PROVE  (Holds(v, i) /\ lock[i].left = run[v].left)'
      BY DEF LeaseIsHonoured
  <2>1. CASE v = w
    <3>1. i = j
      BY <1>3, <2>1 DEF Claim, Running, TypeOK
    <3> QED  BY <1>3, <2>1, <3>1 DEF Claim, Holds, TypeOK
  <2>2. CASE v # w
    <3>1. Running(v, i) /\ run'[v] = run[v]
      BY <1>3, <2>2 DEF Claim, Running, TypeOK
    <3>2. Holds(v, i) /\ lock[i].left = run[v].left
      BY <3>1 DEF LeaseIsHonoured
    <3>3. i \notin Ready(w)
      BY <3>1, <3>2 DEF Ready, Running, Holds, Expired, Waiting, TypeOK
    <3>4. status'[i] = status[i] /\ lock'[i] = lock[i]
      BY <1>3, <3>3 DEF Claim
    <3> QED  BY <3>1, <3>2, <3>4 DEF Holds
  <2> QED  BY <2>1, <2>2
<1>4. ASSUME NEW w \in Workers, ClaimNothing(w) PROVE LeaseIsHonoured'
  <2> SUFFICES ASSUME NEW v \in Workers, NEW i \in JobIds, Running(v, i)
               PROVE  (Holds(v, i) /\ lock[i].left = run[v].left)'
      BY <1>4 DEF LeaseIsHonoured, ClaimNothing, Running
  <2>1. Holds(v, i) /\ lock[i].left = run[v].left
    BY DEF LeaseIsHonoured
  <2>2. i \notin Ready(w)
    BY <2>1 DEF Ready, Running, Holds, Expired, Waiting, TypeOK
  <2> QED  BY <1>4, <2>1, <2>2 DEF ClaimNothing, Bury, Holds
<1>5. ASSUME NEW w \in Workers, Heartbeat(w) PROVE LeaseIsHonoured'
  <2> SUFFICES ASSUME NEW v \in Workers, NEW i \in JobIds, Running(v, i)'
               PROVE  (Holds(v, i) /\ lock[i].left = run[v].left)'
      BY DEF LeaseIsHonoured
  <2>1. run[w].job \in JobIds
    BY <1>5 DEF Heartbeat, TypeOK
  <2>2. CASE v = w
    <3>1. i = run[w].job
      BY <1>5, <2>2 DEF Heartbeat, Running, TypeOK
    <3> QED  BY <1>5, <2>1, <2>2, <3>1 DEF Heartbeat, Holds, TypeOK
  <2>3. CASE v # w
    <3>1. Running(v, i) /\ run'[v] = run[v]
      BY <1>5, <2>3 DEF Heartbeat, Running, TypeOK
    <3>2. Holds(v, i) /\ lock[i].left = run[v].left
      BY <3>1 DEF LeaseIsHonoured
    <3>3. i # run[w].job
      BY <1>5, <2>3, <3>2 DEF Heartbeat, Holds
    <3> QED  BY <1>5, <2>1, <3>1, <3>2, <3>3 DEF Heartbeat, Holds, TypeOK
  <2> QED  BY <2>2, <2>3
<1>6. ASSUME NEW w \in Workers, EndRun(w) PROVE LeaseIsHonoured'
  <2> PICK j \in JobIds : \/ Complete(w, j) \/ FailForGood(w, j) \/ FailTransient(w, j)
                          \/ Release(w, j) \/ EndLost(w, j) \/ Crash(w, j)
    BY <1>6 DEF EndRun
  <2>1. CASE \E s : Record(w, j, s)
    BY <2>1, LeaseRecord
  <2>2. CASE EndLost(w, j) \/ Crash(w, j)
    <3>1. UNCHANGED <<status, lock>> /\ run' = [run EXCEPT ![w] = Idle]
      BY <2>2 DEF EndLost, Crash, table
    <3> SUFFICES ASSUME NEW v \in Workers, NEW i \in JobIds, Running(v, i)'
                 PROVE  (Holds(v, i) /\ lock[i].left = run[v].left)'
        BY DEF LeaseIsHonoured
    <3>2. run'[v] = run[v] /\ Running(v, i)
      BY <3>1 DEF Running, TypeOK, Idle
    <3> QED  BY <3>1, <3>2 DEF LeaseIsHonoured, Holds
  <2> QED  BY <2>1, <2>2 DEF Complete, FailForGood, FailTransient, Release
<1>7. ASSUME NEW j \in JobIds, RetryDead(j) PROVE LeaseIsHonoured'
  BY <1>7, LeaseUntouched DEF RetryDead, TypeOK
<1>8. ASSUME NEW old \in SUBSET JobIds, Prune(old) PROVE LeaseIsHonoured'
  BY <1>8, LeaseUntouched DEF Prune, Settled
<1>9. CASE Tick
  <2> SUFFICES ASSUME NEW v \in Workers, NEW i \in JobIds, Running(v, i)'
               PROVE  (Holds(v, i) /\ lock[i].left = run[v].left)'
      BY DEF LeaseIsHonoured
  <2>1. run[v].left \in Int /\ lock[i].left \in Int
    BY DEF TypeOK
  <2>2. /\ run'[v].job = run[v].job /\ run'[v].left = Down(run[v].left, -1)
        /\ lock'[i].by = lock[i].by /\ lock'[i].left = Down(lock[i].left, -1)
        /\ status' = status
    BY <1>9 DEF Tick
  <2>3. Running(v, i)
    BY <2>1, <2>2 DEF Running, Down
  <2> QED  BY <2>2, <2>3 DEF LeaseIsHonoured, Holds
<1>10. CASE UNCHANGED vars
  BY <1>10, LeaseUntouched DEF vars
<1> QED
  BY <1>1, <1>2, <1>3, <1>4, <1>5, <1>6, <1>7, <1>8, <1>9, <1>10
     DEF Next, Enqueue, ClaimStep, Operate

(* A worker within its lease owns the row it is working on. *)
THEOREM LeasesHonoured == Spec => []LeaseIsHonoured
  BY InitType, NextType, LeaseInit, LeaseNext, PTL DEF Spec

(* Two handlers of one job never run inside their leases together. *)
THEOREM LeaseExclusion == Spec => []OneLeasedRunner
<1>1. LeaseIsHonoured => OneLeasedRunner
  BY DEF LeaseIsHonoured, OneLeasedRunner, Holds
<1> QED  BY <1>1, LeasesHonoured, PTL

-----------------------------------------------------------------------------
(* Attempts.  AttemptsBounded is inductive: a job is claimed only with an  *)
(* attempt left, and returns to waiting only with one left.                *)

LEMMA AttemptsNext == TypeOK /\ AttemptsBounded /\ [Next]_vars => AttemptsBounded'
<1> SUFFICES ASSUME TypeOK, AttemptsBounded, [Next]_vars, NEW i \in JobIds
             PROVE  (attempts[i] <= MaxAttempts /\ (Waiting(i) => attempts[i] < MaxAttempts))'
    BY DEF AttemptsBounded
<1> DEFINE Bound == attempts'[i] <= MaxAttempts /\ (Waiting(i)' => attempts'[i] < MaxAttempts)
<1>a. /\ attempts[i] \in Nat /\ attempts[i] <= MaxAttempts
      /\ Waiting(i) => attempts[i] < MaxAttempts
  BY DEF AttemptsBounded, TypeOK
<1>b. MaxAttempts \in Nat /\ MaxAttempts > 0
  BY QueueConstants DEF QueueConstants
<1>c. ASSUME attempts'[i] = attempts[i], Waiting(i)' => Waiting(i) PROVE Bound
  BY <1>a, <1>c
<1>1. ASSUME NEW j \in JobIds, NEW t \in Types, NEW k \in RowKeys,
             NEW p \in Priorities, NEW d \in Delays, EnqueueNew(j, t, k, p, d)
      PROVE  Bound
  <2>1. CASE i = j
    BY <1>1, <2>1, <1>b DEF EnqueueNew, TypeOK
  <2>2. CASE i # j
    BY <1>1, <2>2, <1>c DEF EnqueueNew, Waiting, TypeOK
  <2> QED  BY <2>1, <2>2
<1>2. ASSUME NEW j \in JobIds, NEW p \in Priorities, NEW d \in Delays, EnqueueRefresh(j, p, d)
      PROVE  Bound
  BY <1>2, <1>c DEF EnqueueRefresh, Waiting
<1>3. ASSUME NEW w \in Workers, NEW j \in JobIds, Claim(w, j) PROVE Bound
  <2>1. CASE i = j
    <3>1. attempts[i] < MaxAttempts
      BY <1>3, <2>1, <1>a, <1>b DEF Claim, Ready, Expired, Exhausted
    <3>2. attempts'[i] = attempts[i] + 1 /\ ~Waiting(i)'
      BY <1>3, <2>1 DEF Claim, Waiting, TypeOK
    <3> QED  BY <1>a, <1>b, <3>1, <3>2
  <2>2. CASE i # j
    BY <1>3, <2>2, <1>c DEF Claim, Waiting, TypeOK
  <2> QED  BY <2>1, <2>2
<1>4. ASSUME NEW w \in Workers, ClaimNothing(w) PROVE Bound
  BY <1>4, <1>c DEF ClaimNothing, Bury, Waiting
<1>5. ASSUME NEW w \in Workers, Heartbeat(w) PROVE Bound
  BY <1>5, <1>c DEF Heartbeat, Waiting
<1>6. ASSUME NEW w \in Workers, EndRun(w) PROVE Bound
  <2> PICK j \in JobIds : \/ Complete(w, j) \/ FailForGood(w, j) \/ FailTransient(w, j)
                          \/ Release(w, j) \/ EndLost(w, j) \/ Crash(w, j)
    BY <1>6 DEF EndRun
  <2>1. CASE Complete(w, j) \/ FailForGood(w, j)
    BY <2>1, <1>c DEF Complete, FailForGood, Record, Waiting, TypeOK
  <2>2. CASE FailTransient(w, j) /\ ~FailForGood(w, j)
    BY <2>2, <1>a, <1>b, <1>c DEF FailTransient, Record, Waiting, TypeOK
  <2>3. CASE Release(w, j)
    <3>1. CASE i = j
      BY <2>3, <3>1, <1>a, <1>b DEF Release, TypeOK
    <3>2. CASE i # j
      BY <2>3, <3>2, <1>c DEF Release, Record, Waiting, TypeOK
    <3> QED  BY <3>1, <3>2
  <2>4. CASE EndLost(w, j) \/ Crash(w, j)
    BY <2>4, <1>c DEF EndLost, Crash, table, Waiting
  <2> QED  BY <2>1, <2>2, <2>3, <2>4
<1>7. ASSUME NEW j \in JobIds, RetryDead(j) PROVE Bound
  BY <1>7, <1>b, <1>c DEF RetryDead, Waiting, TypeOK
<1>8. ASSUME NEW old \in SUBSET JobIds, Prune(old) PROVE Bound
  BY <1>8, <1>b, <1>c DEF Prune, Waiting
<1>9. CASE Tick
  BY <1>9, <1>c DEF Tick, Waiting
<1>10. CASE UNCHANGED vars
  BY <1>10, <1>c DEF vars, Waiting
<1> QED
  BY <1>1, <1>2, <1>3, <1>4, <1>5, <1>6, <1>7, <1>8, <1>9, <1>10
     DEF Next, Enqueue, ClaimStep, Operate

(* No row is charged more attempts than max_attempts, and a waiting row    *)
(* always has one left.                                                    *)
THEOREM AttemptsAreBounded == Spec => []AttemptsBounded
<1>1. Init => AttemptsBounded
  BY QueueConstants DEF QueueConstants, Init, AttemptsBounded, Waiting
<1> QED  BY <1>1, InitType, NextType, AttemptsNext, PTL DEF Spec

-----------------------------------------------------------------------------
(* Dedupe keys. *)

LEMMA KeyNext == TypeOK /\ OneRowPerKey /\ [Next]_vars => OneRowPerKey'
<1> SUFFICES ASSUME TypeOK, OneRowPerKey, [Next]_vars PROVE OneRowPerKey'
    OBVIOUS
(* Every step but the insertion keeps the keys and adds no row. *)
<1>a. ASSUME \A j \in JobIds : what'[j].key = what[j].key /\ (Exists(j)' => Exists(j))
      PROVE  OneRowPerKey'
  BY <1>a DEF OneRowPerKey
<1>1. ASSUME NEW j \in JobIds, NEW t \in Types, NEW k \in RowKeys,
             NEW p \in Priorities, NEW d \in Delays, EnqueueNew(j, t, k, p, d)
      PROVE  OneRowPerKey'
  <2>1. /\ what'[j].key = k
        /\ \A i \in JobIds \ {j} : what'[i] = what[i] /\ (Exists(i)' <=> Exists(i))
    BY <1>1 DEF EnqueueNew, Exists, TypeOK
  <2>2. \A i \in JobIds : ~(Exists(i) /\ k # NoKey /\ what[i].key = k)
    BY <1>1 DEF EnqueueNew
  <2> QED  BY <2>1, <2>2 DEF OneRowPerKey
<1>2. ASSUME NEW j \in JobIds, NEW p \in Priorities, NEW d \in Delays, EnqueueRefresh(j, p, d)
      PROVE  OneRowPerKey'
  BY <1>2, <1>a DEF EnqueueRefresh, Exists, TypeOK
<1>3. ASSUME NEW w \in Workers, NEW j \in JobIds, Claim(w, j) PROVE OneRowPerKey'
  BY <1>3, <1>a DEF Claim, Ready, Waiting, Expired, Exists, Statuses
<1>4. ASSUME NEW w \in Workers, ClaimNothing(w) PROVE OneRowPerKey'
  BY <1>4, <1>a DEF ClaimNothing, Bury, Ready, Waiting, Expired, Exists, Statuses
<1>5. ASSUME NEW w \in Workers, Heartbeat(w) PROVE OneRowPerKey'
  BY <1>5, <1>a DEF Heartbeat, Exists
<1>6. ASSUME NEW w \in Workers, EndRun(w) PROVE OneRowPerKey'
  <2> PICK j \in JobIds : \/ Complete(w, j) \/ FailForGood(w, j) \/ FailTransient(w, j)
                          \/ Release(w, j) \/ EndLost(w, j) \/ Crash(w, j)
    BY <1>6 DEF EndRun
  <2>1. CASE \E s : Record(w, j, s)
    BY <2>1, <1>a DEF Record, Holds, Exists, Statuses, TypeOK
  <2>2. CASE EndLost(w, j) \/ Crash(w, j)
    BY <2>2, <1>a DEF EndLost, Crash, table, Exists
  <2> QED  BY <2>1, <2>2 DEF Complete, FailForGood, FailTransient, Release
<1>7. ASSUME NEW j \in JobIds, RetryDead(j) PROVE OneRowPerKey'
  BY <1>7, <1>a DEF RetryDead, Exists, Statuses, TypeOK
<1>8. ASSUME NEW old \in SUBSET JobIds, Prune(old) PROVE OneRowPerKey'
  BY <1>8, <1>a DEF Prune, Settled, Exists, Statuses
<1>9. CASE Tick
  BY <1>9, <1>a DEF Tick, Exists
<1>10. CASE UNCHANGED vars
  BY <1>10, <1>a DEF vars, Exists
<1> QED
  BY <1>1, <1>2, <1>3, <1>4, <1>5, <1>6, <1>7, <1>8, <1>9, <1>10
     DEF Next, Enqueue, ClaimStep, Operate

(* Enqueueing is idempotent: a dedupe key never has two rows. *)
THEOREM KeysAreUnique == Spec => []OneRowPerKey
<1>1. Init => OneRowPerKey
  BY DEF Init, OneRowPerKey, Exists, Statuses
<1> QED  BY <1>1, InitType, NextType, KeyNext, PTL DEF Spec

-----------------------------------------------------------------------------
(* Steps. *)

(* A row leaves its owner only by the owner's hand or on an expired lease. *)
THEOREM OnlyHolderEnds == Spec => HolderEnds
<1> DEFINE Ends(j) ==
      status[j] = "running" /\ (status'[j] # "running" \/ lock'[j].by # lock[j].by) =>
             \/ Expired(j)
             \/ \E w \in Workers : Holds(w, j) /\ run[w].job = j /\ run'[w] = Idle
<1>1. ASSUME TypeOK, Next, NEW i \in JobIds PROVE Ends(i)
  <2>1. ASSUME NEW j \in JobIds, NEW t \in Types, NEW k \in RowKeys,
               NEW p \in Priorities, NEW d \in Delays, EnqueueNew(j, t, k, p, d)
        PROVE  Ends(i)
    BY <1>1, <2>1 DEF EnqueueNew, TypeOK
  <2>2. ASSUME NEW j \in JobIds, NEW p \in Priorities, NEW d \in Delays, EnqueueRefresh(j, p, d)
        PROVE  Ends(i)
    BY <2>2 DEF EnqueueRefresh
  <2>3. ASSUME NEW w \in Workers, NEW j \in JobIds, Claim(w, j) PROVE Ends(i)
    <3>1. status[i] = "running" /\ i \in Ready(w) => Expired(i)
      BY DEF Ready, Waiting
    <3>2. i \notin Ready(w) => status'[i] = status[i] /\ lock'[i] = lock[i]
      BY <2>3 DEF Claim
    <3> QED  BY <3>1, <3>2
  <2>4. ASSUME NEW w \in Workers, ClaimNothing(w) PROVE Ends(i)
    BY <2>4 DEF ClaimNothing, Bury, Ready, Waiting
  <2>5. ASSUME NEW w \in Workers, Heartbeat(w) PROVE Ends(i)
    BY <1>1, <2>5 DEF Heartbeat, Holds, TypeOK
  <2>6. ASSUME NEW w \in Workers, EndRun(w) PROVE Ends(i)
    <3> PICK j \in JobIds : \/ Complete(w, j) \/ FailForGood(w, j) \/ FailTransient(w, j)
                            \/ Release(w, j) \/ EndLost(w, j) \/ Crash(w, j)
      BY <2>6 DEF EndRun
    <3>1. CASE \E s : Record(w, j, s)
      BY <1>1, <3>1 DEF Record, TypeOK
    <3>2. CASE EndLost(w, j) \/ Crash(w, j)
      BY <3>2 DEF EndLost, Crash, table
    <3> QED  BY <3>1, <3>2 DEF Complete, FailForGood, FailTransient, Release
  <2>7. ASSUME NEW j \in JobIds, RetryDead(j) PROVE Ends(i)
    BY <1>1, <2>7 DEF RetryDead, TypeOK
  <2>8. ASSUME NEW old \in SUBSET JobIds, Prune(old) PROVE Ends(i)
    BY <2>8 DEF Prune, Settled
  <2>9. CASE Tick
    BY <2>9 DEF Tick
  <2> QED
    BY <1>1, <2>1, <2>2, <2>3, <2>4, <2>5, <2>6, <2>7, <2>8, <2>9
       DEF Next, Enqueue, ClaimStep, Operate
<1>2. TypeOK /\ [Next]_vars => [\A j \in JobIds : Ends(j)]_vars
  BY <1>1
<1> QED  BY <1>2, TypeCorrect, PTL DEF Spec, HolderEnds

(* A done job never runs again; a dead one only after an operator's retry. *)
THEOREM SettledStaysSettled == Spec => SettledIsFinal
<1> DEFINE Final(j) ==
      /\ status[j] = "done" => status'[j] \in {"done", "pruned"}
      /\ status[j] = "dead" => \/ status'[j] \in {"dead", "pruned"}
                               \/ retries'[j] > retries[j]
<1> DEFINE Kept(i) == \/ status'[i] = status[i] \/ status'[i] = "pruned"
                      \/ status[i] = "dead" /\ retries'[i] > retries[i]
<1>1. ASSUME TypeOK, Next, NEW i \in JobIds, Settled(i)
      PROVE  Kept(i)
  <2>1. CASE Enqueue
    BY <1>1, <2>1 DEF Enqueue, EnqueueNew, EnqueueRefresh, Settled, TypeOK
  <2>2. ASSUME NEW w \in Workers, NEW j \in JobIds, Claim(w, j) PROVE Kept(i)
    BY <1>1, <2>2 DEF Claim, Ready, Waiting, Expired, Settled
  <2>3. ASSUME NEW w \in Workers, ClaimNothing(w) \/ Heartbeat(w) PROVE Kept(i)
    BY <1>1, <2>3 DEF ClaimNothing, Bury, Ready, Waiting, Expired, Settled, Heartbeat
  <2>4. ASSUME NEW w \in Workers, EndRun(w) PROVE Kept(i)
    BY <1>1, <2>4 DEF EndRun, Complete, FailForGood, FailTransient, Release, Record, Holds,
                      EndLost, Crash, table, Settled, TypeOK
  <2>5. ASSUME NEW j \in JobIds, RetryDead(j)
        PROVE Kept(i)
    BY <1>1, <2>5 DEF RetryDead, TypeOK
  <2>6. ASSUME NEW old \in SUBSET JobIds, Prune(old)
        PROVE Kept(i)
    BY <2>6 DEF Prune
  <2>7. CASE Tick
    BY <2>7 DEF Tick
  <2> QED  BY <1>1, <2>1, <2>2, <2>3, <2>4, <2>5, <2>6, <2>7 DEF Next, ClaimStep, Operate
<1>2. TypeOK /\ [Next]_vars => [\A j \in JobIds : Final(j)]_vars
  BY <1>1 DEF Settled
<1> QED  BY <1>2, TypeCorrect, PTL DEF Spec, SettledIsFinal

-----------------------------------------------------------------------------
(* A running row has been charged for the run: what makes every settlement *)
(* the settlement of a try.                                                *)
RunningIsCharged == \A j \in JobIds : status[j] = "running" => attempts[j] > 0

LEMMA ChargedNext == TypeOK /\ RunningIsCharged /\ [Next]_vars => RunningIsCharged'
<1> SUFFICES ASSUME TypeOK, RunningIsCharged, [Next]_vars, NEW i \in JobIds,
                    status'[i] = "running"
             PROVE  attempts'[i] > 0
    BY DEF RunningIsCharged
<1>a. attempts[i] \in Nat /\ (status[i] = "running" => attempts[i] > 0)
  BY DEF RunningIsCharged, TypeOK
<1>1. ASSUME NEW w \in Workers, NEW j \in JobIds, Claim(w, j) PROVE attempts'[i] > 0
  BY <1>1, <1>a DEF Claim, TypeOK
<1>2. ASSUME NEW w \in Workers, EndRun(w) PROVE attempts'[i] > 0
  BY <1>2, <1>a DEF EndRun, Complete, FailForGood, FailTransient, Release, Record,
                    EndLost, Crash, table, TypeOK
<1>3. CASE Enqueue \/ Operate
  BY <1>3, <1>a DEF Enqueue, EnqueueNew, EnqueueRefresh, Operate, RetryDead, Prune, Settled, TypeOK
<1>4. ASSUME NEW w \in Workers, ClaimNothing(w) \/ Heartbeat(w) PROVE attempts'[i] > 0
  BY <1>4, <1>a DEF ClaimNothing, Bury, Heartbeat
<1>5. CASE Tick \/ UNCHANGED vars
  BY <1>5, <1>a DEF Tick, vars
<1> QED  BY <1>1, <1>2, <1>3, <1>4, <1>5 DEF Next, ClaimStep

-----------------------------------------------------------------------------
(* Jobs that kill their process.  Every run and every crash of a row was    *)
(* charged an attempt, and an attempt is handed back only with its run:     *)
(* runs and crashes together never exceed what was charged since the last   *)
(* retry and what the retries allowed.  A pruned row forgets its attempts,  *)
(* while late runs of it may still go on.                                   *)

Runners(j) == {w \in Workers : run[w].job = j}

Spent(j) == (IF status[j] = "pruned" THEN MaxAttempts ELSE attempts[j]) + MaxAttempts * retries[j]

CrashesAreCharged ==
    \A j \in JobIds :
        /\ IsFiniteSet(Runners(j))
        /\ Cardinality(Runners(j)) + crashes[j] <= Spent(j)
        /\ status[j] = "none" => attempts[j] = 0

LEMMA CrashInit == Init => CrashesAreCharged
<1> SUFFICES ASSUME Init, NEW j \in JobIds
             PROVE  /\ IsFiniteSet(Runners(j))
                    /\ Cardinality(Runners(j)) + crashes[j] <= Spent(j)
                    /\ status[j] = "none" => attempts[j] = 0
  BY DEF CrashesAreCharged
<1>1. Runners(j) = {}
  BY DEF Init, Runners, Idle, JobIds
<1>2. Spent(j) = 0 /\ crashes[j] = 0 /\ attempts[j] = 0
  BY QueueConstants DEF QueueConstants, Init, Spent
<1> QED  BY <1>1, <1>2, FS_EmptySet

(* Nothing starts or ends, no row is charged less. *)
LEMMA CrashUntouched ==
  ASSUME CrashesAreCharged, UNCHANGED crashes,
         \A w \in Workers : run'[w].job = run[w].job,
         NEW i \in JobIds, Spent(i) <= Spent(i)', Spent(i) \in Int, Spent(i)' \in Int,
         crashes[i] \in Int
  PROVE  IsFiniteSet(Runners(i)') /\ Cardinality(Runners(i)') + crashes'[i] <= Spent(i)'
<1>1. Runners(i)' = Runners(i)
  BY DEF Runners
<1>2. /\ IsFiniteSet(Runners(i)) /\ Cardinality(Runners(i)) + crashes[i] <= Spent(i)
      /\ Cardinality(Runners(i)) \in Nat
  BY FS_CardinalityType DEF CrashesAreCharged
<1> QED  BY <1>1, <1>2

(* The run of w ends, and one attempt or one crash accounts for it. *)
LEMMA CrashEnded ==
  ASSUME TypeOK, CrashesAreCharged, NEW w \in Workers, NEW j \in JobIds, run[w].job = j,
         run' = [run EXCEPT ![w] = Idle],
         NEW i \in JobIds, crashes'[i] \in Nat, Spent(i) \in Int, Spent(i)' \in Int,
         i = j => crashes'[i] - crashes[i] <= 1 + Spent(i)' - Spent(i),
         i # j => crashes'[i] = crashes[i] /\ Spent(i) <= Spent(i)'
  PROVE  IsFiniteSet(Runners(i)') /\ Cardinality(Runners(i)') + crashes'[i] <= Spent(i)'
<1>1. /\ IsFiniteSet(Runners(i)) /\ Cardinality(Runners(i)) + crashes[i] <= Spent(i)
      /\ Cardinality(Runners(i)) \in Nat /\ crashes[i] \in Nat
  BY FS_CardinalityType DEF CrashesAreCharged, TypeOK
<1>2. CASE i = j
  <2>1. Runners(i)' = Runners(i) \ {w} /\ w \in Runners(i)
    BY <1>2 DEF Runners, TypeOK, Idle, JobIds
  <2>2. /\ IsFiniteSet(Runners(i) \ {w})
        /\ Cardinality(Runners(i) \ {w}) = Cardinality(Runners(i)) - 1
    BY <1>1, <2>1, FS_RemoveElement
  <2> QED  BY <1>1, <1>2, <2>1, <2>2
<1>3. CASE i # j
  <2>1. Runners(i)' = Runners(i)
    BY <1>3 DEF Runners, TypeOK, Idle, JobIds
  <2> QED  BY <1>1, <1>3, <2>1
<1> QED  BY <1>2, <1>3

LEMMA CrashNext ==
  TypeOK /\ AttemptsBounded /\ RunningIsCharged /\ CrashesAreCharged /\ [Next]_vars
    => CrashesAreCharged'
<1> SUFFICES ASSUME TypeOK, AttemptsBounded, RunningIsCharged, CrashesAreCharged, [Next]_vars,
                    NEW i \in JobIds
             PROVE  /\ IsFiniteSet(Runners(i)')
                    /\ Cardinality(Runners(i)') + crashes'[i] <= Spent(i)'
                    /\ status'[i] = "none" => attempts'[i] = 0
  BY DEF CrashesAreCharged
<1> DEFINE Kept == /\ IsFiniteSet(Runners(i)')
                   /\ Cardinality(Runners(i)') + crashes'[i] <= Spent(i)'
           None == status'[i] = "none" => attempts'[i] = 0
<1>a. /\ attempts[i] \in Nat /\ retries[i] \in Nat /\ crashes[i] \in Nat
      /\ MaxAttempts \in Nat /\ attempts[i] <= MaxAttempts
      /\ MaxAttempts * retries[i] \in Nat
      /\ status[i] = "none" => attempts[i] = 0
  BY QueueConstants DEF QueueConstants, TypeOK, AttemptsBounded, CrashesAreCharged
<1>b. Spent(i) \in Int
  BY <1>a DEF Spent
<1>c. ASSUME UNCHANGED crashes, \A w \in Workers : run'[w].job = run[w].job,
             attempts'[i] = attempts[i], retries'[i] = retries[i],
             status'[i] = status[i] \/ status[i] # "pruned"
      PROVE  Kept
  <2>1. Spent(i)' \in Int /\ Spent(i) <= Spent(i)'
    BY <1>a, <1>c DEF Spent
  <2> QED  BY <1>a, <1>b, <1>c, <2>1, CrashUntouched
<1>1. ASSUME NEW j \in JobIds, NEW t \in Types, NEW k \in RowKeys,
             NEW p \in Priorities, NEW d \in Delays, EnqueueNew(j, t, k, p, d)
      PROVE  Kept /\ None
  <2>1. attempts'[i] = attempts[i] /\ (status'[i] = status[i] \/ status[i] = "none")
    BY <1>1, <1>a DEF EnqueueNew, TypeOK, CrashesAreCharged
  <2> QED  BY <1>1, <2>1, <1>a, <1>c DEF EnqueueNew, history
<1>2. ASSUME NEW j \in JobIds, NEW p \in Priorities, NEW d \in Delays, EnqueueRefresh(j, p, d)
      PROVE  Kept /\ None
  BY <1>2, <1>a, <1>c DEF EnqueueRefresh, history
<1>3. ASSUME NEW w \in Workers, NEW j \in JobIds, Claim(w, j) PROVE Kept /\ None
  <2>1. CASE i = j
    <3>1. status[i] # "none" /\ status[i] # "pruned" /\ status'[i] = "running"
      BY <1>3, <2>1 DEF Claim, Ready, Waiting, Expired
    <3>2. Runners(i)' = Runners(i) \cup {w} /\ w \notin Runners(i)
      BY <1>3, <2>1 DEF Claim, Runners, Idle, TypeOK, JobIds
    <3>3. attempts'[i] = attempts[i] + 1 /\ crashes' = crashes /\ retries' = retries
      BY <1>3, <2>1 DEF Claim, TypeOK, history
    <3>4. Spent(i)' = Spent(i) + 1
      BY <1>a, <3>1, <3>3 DEF Spent
    <3>5. /\ IsFiniteSet(Runners(i)) /\ Cardinality(Runners(i)) \in Nat
          /\ Cardinality(Runners(i)) + crashes[i] <= Spent(i)
      BY FS_CardinalityType DEF CrashesAreCharged
    <3>6. /\ IsFiniteSet(Runners(i)')
          /\ Cardinality(Runners(i)') = Cardinality(Runners(i)) + 1
      BY <3>2, <3>5, FS_AddElement
    <3> QED  BY <1>a, <1>b, <3>1, <3>3, <3>4, <3>5, <3>6
  <2>2. CASE i # j
    <3>1. Runners(i)' = Runners(i)
      BY <1>3, <2>2 DEF Claim, Runners, Idle, TypeOK, JobIds
    <3>2. attempts'[i] = attempts[i] /\ retries'[i] = retries[i] /\ crashes' = crashes
      BY <1>3, <2>2 DEF Claim, TypeOK, history
    <3>3. status'[i] = status[i] \/ (status[i] \notin {"none", "pruned"} /\ status'[i] = "dead")
      BY <1>3, <2>2 DEF Claim, Exhausted
    <3>4. Spent(i)' = Spent(i)
      BY <3>2, <3>3 DEF Spent
    <3> QED  BY <1>a, <3>1, <3>2, <3>3, <3>4 DEF CrashesAreCharged
  <2> QED  BY <2>1, <2>2
<1>4. ASSUME NEW w \in Workers, ClaimNothing(w) PROVE Kept /\ None
  <2>1. status'[i] = status[i] \/ (status[i] = "running" /\ status'[i] = "dead")
    BY <1>4 DEF ClaimNothing, Bury, Exhausted
  <2> QED  BY <1>4, <2>1, <1>a, <1>c DEF ClaimNothing, history
<1>5. ASSUME NEW w \in Workers, Heartbeat(w) PROVE Kept /\ None
  <2>1. \A v \in Workers : run'[v].job = run[v].job
    BY <1>5 DEF Heartbeat, TypeOK
  <2> QED  BY <1>5, <2>1, <1>a, <1>c DEF Heartbeat, history
<1>6. ASSUME NEW w \in Workers, EndRun(w) PROVE Kept /\ None
  <2> PICK j \in JobIds : \/ Complete(w, j) \/ FailForGood(w, j) \/ FailTransient(w, j)
                          \/ Release(w, j) \/ EndLost(w, j) \/ Crash(w, j)
    BY <1>6 DEF EndRun
  <2>a. run[w].job = j /\ run' = [run EXCEPT ![w] = Idle] /\ UNCHANGED retries
    BY DEF Complete, FailForGood, FailTransient, Release, Record, EndLost, Crash, history
  <2>b. ASSUME NEW s \in Statuses, Record(w, j, s)
        PROVE  crashes' = crashes /\ (i # j => status'[i] = status[i])
               /\ (i = j => status[i] = "running" /\ status'[i] = s)
    BY <2>b DEF Record, Holds, history, TypeOK
  <2>1. CASE \E s \in Statuses : Record(w, j, s) /\ UNCHANGED attempts
    <3>1. /\ crashes' = crashes
          /\ status'[i] = status[i] \/ (status[i] = "running" /\ status'[i] \in Statuses)
      BY <2>1, <2>b
    <3>2. Spent(i)' = Spent(i) /\ None
      BY <1>a, <2>1, <2>a, <3>1 DEF Spent, Statuses
    <3>3. /\ crashes'[i] \in Nat /\ Spent(i)' \in Int
          /\ i = j => crashes'[i] - crashes[i] <= 1 + Spent(i)' - Spent(i)
          /\ i # j => crashes'[i] = crashes[i] /\ Spent(i) <= Spent(i)'
      BY <1>a, <1>b, <3>1, <3>2
    <3> QED  BY <1>b, <2>a, <3>2, <3>3, CrashEnded
  <2>2. CASE Release(w, j)
    <3>1. /\ crashes' = crashes /\ (i # j => status'[i] = status[i])
          /\ i = j => status[i] = "running" /\ status'[i] = "queued"
      BY <2>2, <2>b DEF Release, Statuses
    <3>2. i # j => attempts'[i] = attempts[i]
      BY <2>2 DEF Release, TypeOK
    <3>3. i = j => attempts[i] > 0 /\ attempts'[i] = attempts[i] - 1
      BY <2>2, <3>1 DEF Release, RunningIsCharged, TypeOK
    <3>4. Spent(i)' \in Int /\ Spent(i)' = IF i = j THEN Spent(i) - 1 ELSE Spent(i)
      BY <1>a, <2>a, <3>1, <3>2, <3>3 DEF Spent
    <3>5. /\ crashes'[i] \in Nat /\ Spent(i)' \in Int
          /\ i = j => crashes'[i] - crashes[i] <= 1 + Spent(i)' - Spent(i)
          /\ i # j => crashes'[i] = crashes[i] /\ Spent(i) <= Spent(i)'
      BY <1>a, <1>b, <3>1, <3>4
    <3>6. None
      BY <1>a, <3>1, <3>2
    <3> QED  BY <1>b, <2>a, <3>5, <3>6, CrashEnded
  <2>3. CASE EndLost(w, j)
    <3>1. Spent(i)' = Spent(i) /\ crashes' = crashes /\ None
      BY <1>a, <2>3 DEF EndLost, table, history, Spent
    <3>2. /\ crashes'[i] \in Nat /\ Spent(i)' \in Int
          /\ i = j => crashes'[i] - crashes[i] <= 1 + Spent(i)' - Spent(i)
          /\ i # j => crashes'[i] = crashes[i] /\ Spent(i) <= Spent(i)'
      BY <1>a, <1>b, <3>1
    <3> QED  BY <1>b, <2>a, <3>1, <3>2, CrashEnded
  <2>4. CASE Crash(w, j)
    <3>1. /\ Spent(i)' = Spent(i) /\ None
          /\ crashes'[i] = IF i = j THEN crashes[i] + 1 ELSE crashes[i]
      BY <1>a, <2>4 DEF Crash, table, Spent, TypeOK
    <3>2. /\ crashes'[i] \in Nat /\ Spent(i)' \in Int
          /\ i = j => crashes'[i] - crashes[i] <= 1 + Spent(i)' - Spent(i)
          /\ i # j => crashes'[i] = crashes[i] /\ Spent(i) <= Spent(i)'
      BY <1>a, <1>b, <3>1
    <3> QED  BY <1>b, <2>a, <3>1, <3>2, CrashEnded
  <2>5. \/ \E s \in Statuses : Record(w, j, s) /\ UNCHANGED attempts
        \/ Release(w, j) \/ EndLost(w, j) \/ Crash(w, j)
    BY DEF Complete, FailForGood, FailTransient, Statuses
  <2> QED  BY <2>1, <2>2, <2>3, <2>4, <2>5
<1>7. ASSUME NEW j \in JobIds, RetryDead(j) PROVE Kept /\ None
  <2>1. CASE i = j
    <3>1. /\ status[i] = "dead" /\ status'[i] = "queued" /\ attempts'[i] = 0
          /\ retries'[i] = retries[i] + 1
      BY <1>7, <2>1 DEF RetryDead, TypeOK
    <3>2. MaxAttempts * (retries[i] + 1) = MaxAttempts * retries[i] + MaxAttempts
      BY <1>a
    <3>3. Spent(i)' = MaxAttempts * retries[i] + MaxAttempts
      BY <1>a, <3>1, <3>2 DEF Spent
    <3>4. Spent(i) = attempts[i] + MaxAttempts * retries[i]
      BY <3>1 DEF Spent
    <3>5. Spent(i)' \in Int /\ Spent(i) <= Spent(i)'
      BY <1>a, <3>3, <3>4
    <3> QED  BY <1>7, <1>a, <1>b, <3>1, <3>5, CrashUntouched DEF RetryDead
  <2>2. CASE i # j
    BY <1>7, <2>2, <1>a, <1>c DEF RetryDead, TypeOK
  <2> QED  BY <2>1, <2>2
<1>8. ASSUME NEW old \in SUBSET JobIds, Prune(old) PROVE Kept /\ None
  <2>1. CASE i \in old
    <3>1. status[i] \in {"done", "dead"} /\ status'[i] = "pruned" /\ retries' = retries
      BY <1>8, <2>1 DEF Prune, Settled, history
    <3>2. Spent(i)' \in Int /\ Spent(i) <= Spent(i)'
      BY <1>a, <3>1 DEF Spent
    <3> QED  BY <1>8, <1>a, <1>b, <3>1, <3>2, CrashUntouched DEF Prune, history
  <2>2. CASE i \notin old
    BY <1>8, <2>2, <1>a, <1>c DEF Prune, history
  <2> QED  BY <2>1, <2>2
<1>9. CASE Tick
  <2>1. \A v \in Workers : run'[v].job = run[v].job
    BY <1>9 DEF Tick
  <2> QED  BY <1>9, <2>1, <1>a, <1>c DEF Tick, history
<1>10. CASE UNCHANGED vars
  BY <1>10, <1>a, <1>c DEF vars
<1> QED
  BY <1>1, <1>2, <1>3, <1>4, <1>5, <1>6, <1>7, <1>8, <1>9, <1>10
     DEF Next, Enqueue, ClaimStep, Operate

(* A job whose handler kills its process takes down at most max_attempts    *)
(* workers, and that many again per operator retry.                         *)
THEOREM PoisonIsBounded == Spec => []PoisonBounded
<1>1. Init => RunningIsCharged
  BY DEF Init, RunningIsCharged
<1>2. Spec => []CrashesAreCharged
  BY <1>1, InitType, NextType, ChargedNext, CrashInit, CrashNext, AttemptsAreBounded, PTL DEF Spec
<1>3. TypeOK /\ AttemptsBounded /\ CrashesAreCharged => PoisonBounded
  <2> SUFFICES ASSUME TypeOK, AttemptsBounded, CrashesAreCharged, NEW j \in JobIds
               PROVE  crashes[j] <= MaxAttempts * (1 + retries[j])
    BY DEF PoisonBounded
  <2>1. /\ attempts[j] \in Nat /\ retries[j] \in Nat /\ crashes[j] \in Nat
        /\ MaxAttempts \in Nat /\ attempts[j] <= MaxAttempts /\ MaxAttempts * retries[j] \in Nat
    BY QueueConstants DEF QueueConstants, TypeOK, AttemptsBounded
  <2>2. /\ Cardinality(Runners(j)) \in Nat
        /\ Cardinality(Runners(j)) + crashes[j] <= Spent(j)
    BY FS_CardinalityType DEF CrashesAreCharged
  <2>3. Spent(j) <= MaxAttempts + MaxAttempts * retries[j] /\ Spent(j) \in Int
    BY <2>1 DEF Spent
  <2>4. MaxAttempts * (1 + retries[j]) = MaxAttempts + MaxAttempts * retries[j]
    BY <2>1
  <2> QED  BY <2>1, <2>2, <2>3, <2>4
<1> QED  BY <1>2, <1>3, TypeCorrect, AttemptsAreBounded, PTL

-----------------------------------------------------------------------------
(* Refinement: every step of the queue is a step of the ledger or none.    *)

LEMMA LedgerUntouched ==
  ASSUME \A j \in JobIds : LedgerState(j)' = LedgerState(j), UNCHANGED attempts
  PROVE  UNCHANGED Ledger!ledgerVars
  BY DEF Ledger!ledgerVars

(* The step that records the end of a run, seen by the ledger. *)
LEMMA LedgerRecord ==
  ASSUME TypeOK, NEW w \in Workers, NEW j \in JobIds, NEW s \in Statuses, Record(w, j, s)
  PROVE  /\ LedgerState(j) = "owed"
         /\ \A i \in JobIds \ {j} : LedgerState(i)' = LedgerState(i)
         /\ s \in {"queued", "failed"} => LedgerState(j)' = "owed"
         /\ s \in {"done", "dead"} => LedgerState(j)' = s
<1>1. status[j] = "running" /\ status' = [status EXCEPT ![j] = s]
  BY DEF Record, Holds
<1>2. status'[j] = s /\ \A i \in JobIds \ {j} : status'[i] = status[i]
  BY <1>1 DEF TypeOK
<1> QED  BY <1>1, <1>2 DEF LedgerState, Settled

LEMMA LedgerStep ==
  ASSUME TypeOK, AttemptsBounded, RunningIsCharged, [Next]_vars
  PROVE  [Ledger!LedgerNext]_(Ledger!ledgerVars)
<1> DEFINE LS(i) == LedgerState(i)
<1>a. /\ \A i \in JobIds : attempts[i] \in Nat /\ attempts[i] <= MaxAttempts
      /\ MaxAttempts \in Nat
  BY QueueConstants DEF QueueConstants, AttemptsBounded, TypeOK
<1>1. ASSUME NEW j \in JobIds, NEW t \in Types, NEW k \in RowKeys,
             NEW p \in Priorities, NEW d \in Delays, EnqueueNew(j, t, k, p, d)
      PROVE  Ledger!Accept(j)
  <2>1. LS(j) = "absent" /\ LS(j)' = "owed" /\ \A i \in JobIds \ {j} : LS(i)' = LS(i)
    BY <1>1 DEF EnqueueNew, LedgerState, Settled, TypeOK
  <2> QED  BY <1>1, <2>1 DEF EnqueueNew, Ledger!Accept
<1>2. ASSUME NEW j \in JobIds, NEW p \in Priorities, NEW d \in Delays, EnqueueRefresh(j, p, d)
      PROVE  UNCHANGED Ledger!ledgerVars
  BY <1>2, LedgerUntouched DEF EnqueueRefresh, LedgerState, Settled
<1>3. ASSUME NEW w \in Workers, NEW j \in JobIds, Claim(w, j)
      PROVE  \E givenUp \in SUBSET JobIds : Ledger!Try(j, givenUp)
  <2> DEFINE buried == {i \in Ready(w) : Exhausted(i) /\ Before(i, j)}
  <2>1. buried \in SUBSET JobIds /\ j \notin buried
    BY <1>3 DEF Ready, Claim
  <2>2. LS(j) = "owed" /\ attempts[j] < MaxAttempts
    BY <1>3, <1>a DEF Claim, Ready, Waiting, Expired, Exhausted, LedgerState, Settled, AttemptsBounded
  <2>3. \A i \in buried : LS(i) = "owed" /\ attempts[i] = MaxAttempts
    BY <1>a, <2>1 DEF Exhausted, LedgerState, Settled
  <2>4. \A i \in JobIds : LS(i)' = IF i \in buried THEN "dead" ELSE LS(i)
    BY <1>3, <2>1, <2>2 DEF Claim, LedgerState, Settled
  <2>5. attempts' = [attempts EXCEPT ![j] = @ + 1]
    BY <1>3 DEF Claim
  <2>6. Ledger!Try(j, buried)
    BY <2>1, <2>2, <2>3, <2>4, <2>5 DEF Ledger!Try
  <2> QED  BY <2>1, <2>6
<1>4. ASSUME NEW w \in Workers, ClaimNothing(w)
      PROVE  \E givenUp \in SUBSET JobIds : Ledger!GiveUp(givenUp)
  <2>1. Ready(w) \in SUBSET JobIds
    BY DEF Ready
  <2>2. \A i \in Ready(w) : LS(i) = "owed" /\ attempts[i] = MaxAttempts
    BY <1>4, <1>a, <2>1 DEF ClaimNothing, Exhausted, LedgerState, Settled
  <2>3. \A i \in JobIds : LS(i)' = IF i \in Ready(w) THEN "dead" ELSE LS(i)
    BY <1>4, <2>1 DEF ClaimNothing, Bury, LedgerState, Settled
  <2>4. Ledger!GiveUp(Ready(w))
    BY <1>4, <2>1, <2>2, <2>3 DEF ClaimNothing, Ledger!GiveUp
  <2> QED  BY <2>1, <2>4
<1>5. ASSUME NEW w \in Workers, Heartbeat(w) PROVE UNCHANGED Ledger!ledgerVars
  BY <1>5, LedgerUntouched DEF Heartbeat, LedgerState, Settled
<1>6. ASSUME NEW w \in Workers, EndRun(w)
      PROVE  [Ledger!LedgerNext]_(Ledger!ledgerVars)
  <2> PICK j \in JobIds : \/ Complete(w, j) \/ FailForGood(w, j) \/ FailTransient(w, j)
                          \/ Release(w, j) \/ EndLost(w, j) \/ Crash(w, j)
    BY <1>6 DEF EndRun
  <2>a. ASSUME NEW s \in Statuses, Record(w, j, s) PROVE attempts[j] > 0
    BY <2>a DEF Record, Holds, RunningIsCharged
  <2>1. CASE Complete(w, j)
    <3>1. Ledger!Settle(j, "done")
      BY <2>1, <2>a, LedgerRecord DEF Complete, Statuses, Ledger!Settle
    <3> QED  BY <3>1 DEF Ledger!LedgerNext
  <2>2. CASE FailForGood(w, j)
    <3>1. Ledger!Settle(j, "dead")
      BY <2>2, <2>a, LedgerRecord DEF FailForGood, Statuses, Ledger!Settle
    <3> QED  BY <3>1 DEF Ledger!LedgerNext
  <2>3. CASE FailTransient(w, j) /\ ~FailForGood(w, j)
    <3>1. Record(w, j, "failed") /\ UNCHANGED attempts
      BY <2>3 DEF FailTransient
    <3>2. \A i \in JobIds : LS(i)' = LS(i)
      BY <3>1, LedgerRecord DEF Statuses
    <3> QED  BY <3>1, <3>2, LedgerUntouched
  <2>4. CASE Release(w, j)
    <3>1. attempts[j] > 0 /\ attempts' = [attempts EXCEPT ![j] = @ - 1]
      BY <2>4, <2>a DEF Release, Statuses
    <3>2. LS(j) = "owed" /\ \A i \in JobIds : LS(i)' = LS(i)
      BY <2>4, LedgerRecord DEF Release, Statuses
    <3>3. Ledger!HandBack(j)
      BY <3>1, <3>2 DEF Ledger!HandBack
    <3> QED  BY <3>3 DEF Ledger!LedgerNext
  <2>5. CASE EndLost(w, j) \/ Crash(w, j)
    BY <2>5, LedgerUntouched DEF EndLost, Crash, table, LedgerState, Settled
  <2> QED  BY <2>1, <2>2, <2>3, <2>4, <2>5
<1>7. ASSUME NEW j \in JobIds, RetryDead(j) PROVE Ledger!Revive(j)
  <2>1. LS(j) = "dead" /\ LS(j)' = "owed" /\ \A i \in JobIds \ {j} : LS(i)' = LS(i)
    BY <1>7 DEF RetryDead, LedgerState, Settled, TypeOK
  <2> QED  BY <1>7, <2>1 DEF RetryDead, Ledger!Revive
<1>8. ASSUME NEW old \in SUBSET JobIds, Prune(old) PROVE Ledger!Forget(old)
  <2>1. \A i \in old : LS(i) \in {"done", "dead"}
    BY <1>8 DEF Prune, Settled, LedgerState
  <2>2. \A i \in JobIds : LS(i)' = IF i \in old THEN "forgotten" ELSE LS(i)
    BY <1>8 DEF Prune, LedgerState, Settled
  <2> QED  BY <1>8, <2>1, <2>2 DEF Prune, Ledger!Forget
<1>9. CASE Tick \/ UNCHANGED vars
  BY <1>9, LedgerUntouched DEF Tick, vars, LedgerState, Settled
<1> QED
  BY <1>1, <1>2, <1>3, <1>4, <1>5, <1>6, <1>7, <1>8, <1>9
     DEF Next, Enqueue, ClaimStep, Operate, Ledger!LedgerNext

(* The job queue implements the work ledger. *)
THEOREM ImplementsLedger == Spec => LedgerSpec
<1>1. Init => Ledger!LedgerInit
  <2>1. Init => \A j \in JobIds : LedgerState(j) = "absent"
    BY DEF Init, LedgerState, Settled
  <2> QED  BY <2>1 DEF Init, Ledger!LedgerInit
<1>2. Init => RunningIsCharged
  BY DEF Init, RunningIsCharged
<1>3. Spec => []RunningIsCharged
  BY <1>2, InitType, NextType, ChargedNext, PTL DEF Spec
<1>4. TypeOK /\ AttemptsBounded /\ RunningIsCharged /\ [Next]_vars
      => [Ledger!LedgerNext]_(Ledger!ledgerVars)
  BY LedgerStep
<1> QED
  BY <1>1, <1>3, <1>4, TypeCorrect, AttemptsAreBounded, PTL
     DEF Spec, LedgerSpec, Ledger!LedgerSpec

-----------------------------------------------------------------------------
(* Shadow: types. *)

(* A line is a record of marks. *)
LEMMA LineOfIsLine ==
    ASSUME ShadowConstants,
           NEW rows \in SUBSET Memory, NEW x \in Outcomes(rows), NEW v2 \in SUBSET Memory,
           NEW age \in 0..AgeBound + 1, NEW refreshed \in BOOLEAN, NEW slow \in BOOLEAN
    PROVE  LineOf(x, v2, age, refreshed, slow) \in LogLine
<1>1. x.ids \in SUBSET Memory /\ x.gate \in {"pass", "abstain", "no-candidates"}
    BY DEF Outcomes
<1>2. (age > AgeBound) \in BOOLEAN
    OBVIOUS
<1> QED
    BY <1>1, <1>2 DEF LineOf, LogLine

(* Every variable has its type (_shadow.py run, refresh, _append). *)
THEOREM ShadowTypes ==
    ASSUME ShadowConstants
    PROVE  ShadowSpec => []ShadowTypeOK
<1>1. ShadowInit => ShadowTypeOK
    BY ShadowConstants DEF ShadowConstants, ShadowInit, ShadowTypeOK, Copies, NoTurn
<1>2. ShadowTypeOK /\ [ShadowNext]_shadowVars => ShadowTypeOK'
    <2> SUFFICES ASSUME ShadowTypeOK, [ShadowNext]_shadowVars
                 PROVE  ShadowTypeOK'
        OBVIOUS
    <2> USE ShadowConstants DEF ShadowConstants
    <2>1. ASSUME NEW m \in Memory, StoreMoves(m)
          PROVE  ShadowTypeOK'
        BY <2>1 DEF StoreMoves, ShadowTypeOK
    <2>2. ASSUME NEW t \in Thread, Answer(t)
          PROVE  ShadowTypeOK'
        <3>1. PICK v2 \in SUBSET held :
                turn' = [turn EXCEPT ![t] = [NoTurn EXCEPT !.at = "look", !.v2 = v2]]
            BY <2>2 DEF Answer
        <3>2. v2 \in SUBSET Memory /\ 0 \in 0..AgeBound + 1
            BY DEF ShadowTypeOK
        <3> QED
            BY <2>2, <3>1, <3>2 DEF Answer, ShadowTypeOK, NoTurn
    <2>3. ASSUME NEW t \in Thread, Look(t)
          PROVE  ShadowTypeOK'
        BY <2>3 DEF Look, ShadowTypeOK, Copies
    <2>4. ASSUME NEW t \in Thread, Overwrite(t)
          PROVE  ShadowTypeOK'
        <3>1. held \in SUBSET Memory /\ 0 \in 0..AgeBound + 1
            BY DEF ShadowTypeOK
        <3>2. copy' \in Copies
            BY <2>4, <3>1 DEF Overwrite, Copies
        <3> QED
            BY <2>4, <3>2 DEF Overwrite, ShadowTypeOK
    <2>5. ASSUME NEW t \in Thread, MigrateCopy(t)
          PROVE  ShadowTypeOK'
        BY <2>5 DEF MigrateCopy, ShadowTypeOK, Copies
    <2>6. ASSUME NEW t \in Thread, BreakOff(t)
          PROVE  ShadowTypeOK'
        BY <2>6 DEF BreakOff, ShadowTypeOK, NoTurn
    <2>7. ASSUME NEW t \in Thread, ReadCopy(t)
          PROVE  ShadowTypeOK'
        <3>1. log' \in Seq(LogLine)
            <4>1. CASE copy.schema = "v2"
                BY <2>7, <4>1 DEF ReadCopy, ShadowTypeOK
            <4>2. CASE copy.schema # "v2"
                <5>1. PICK x \in Outcomes(copy.rows), slow \in BOOLEAN :
                        AppendLine(LineOf(x, turn[t].v2, turn[t].age, turn[t].refreshed, slow))
                    BY <2>7, <4>2 DEF ReadCopy
                <5>2. /\ copy.rows \in SUBSET Memory /\ turn[t].v2 \in SUBSET Memory
                      /\ turn[t].age \in 0..AgeBound + 1 /\ turn[t].refreshed \in BOOLEAN
                    BY DEF ShadowTypeOK, Copies
                <5>3. LineOf(x, turn[t].v2, turn[t].age, turn[t].refreshed, slow) \in LogLine
                    BY <5>2, LineOfIsLine
                <5> QED
                    BY <5>1, <5>3 DEF AppendLine, ShadowTypeOK
            <4> QED
                BY <4>1, <4>2
        <3> QED
            BY <2>7, <3>1 DEF ReadCopy, ShadowTypeOK, NoTurn
    <2>8. CASE MinutesPass
        <3>1. copy' \in Copies
            <4>1. copy.age + 1 \in 0..AgeBound + 1
                BY <2>8 DEF MinutesPass, ShadowTypeOK, Copies
            <4>2. copy' = [rows |-> copy.rows, schema |-> copy.schema, age |-> copy.age + 1]
                BY <2>8 DEF MinutesPass, ShadowTypeOK, Copies
            <4> QED
                BY <4>1, <4>2 DEF ShadowTypeOK, Copies
        <3>2. ASSUME NEW t \in Thread
              PROVE  /\ turn'[t] \in [at : {"idle", "look", "copy", "migrate", "read"},
                                      v2 : SUBSET Memory, age : 0..AgeBound + 1,
                                      refreshed : BOOLEAN, late : BOOLEAN]
            <4>1. turn'[t] = [turn[t] EXCEPT !.late = @ \/ turn[t].at # "idle"]
                BY <2>8 DEF MinutesPass
            <4>2. (turn[t].late \/ turn[t].at # "idle") \in BOOLEAN
                OBVIOUS
            <4> QED
                BY <4>1, <4>2 DEF ShadowTypeOK
        <3>3. turn' = [t \in Thread |-> turn'[t]]
            BY <2>8 DEF MinutesPass
        <3> QED
            BY <2>8, <3>1, <3>2, <3>3 DEF MinutesPass, ShadowTypeOK
    <2>9. CASE NewSample
        BY <2>9 DEF NewSample, ShadowTypeOK
    <2>10. ASSUME NEW l \in LogLine, Foreign(l)
           PROVE  ShadowTypeOK'
        BY <2>10 DEF Foreign, AppendLine, ShadowTypeOK
    <2>11. CASE UNCHANGED shadowVars
        BY <2>11 DEF shadowVars, ShadowTypeOK
    <2> QED
        BY <2>1, <2>2, <2>3, <2>4, <2>5, <2>6, <2>7, <2>8, <2>9, <2>10, <2>11
        DEF ShadowNext, GoOn
<1> QED
    BY <1>1, <1>2, PTL DEF ShadowSpec

-----------------------------------------------------------------------------
(* What one more line leaves of the rest. *)

(* The lines that are scored are finitely many. *)
LEMMA FinitelyScored ==
    ASSUME NEW s \in Seq(LogLine)
    PROVE  /\ IsFiniteSet(Usable(s)) /\ IsFiniteSet(Timed(s))
           /\ IsFiniteSet({i \in Timed(s) : s[i].slow})
<1>1. IsFiniteSet(DOMAIN s)
    <2>1. Len(s) \in Nat /\ DOMAIN s = 1..Len(s)
        OBVIOUS
    <2> QED
        BY <2>1, FS_Interval
<1>2. /\ Usable(s) \subseteq DOMAIN s /\ Timed(s) \subseteq DOMAIN s
      /\ {i \in Timed(s) : s[i].slow} \subseteq DOMAIN s
    BY DEF Usable, Timed
<1> QED
    BY <1>1, <1>2, FS_Subset

(* The lines that were there stay as they were. *)
LEMMA AppendKeeps ==
    ASSUME NEW s \in Seq(LogLine), NEW l \in LogLine, NEW r, r = Append(s, l)
    PROVE  /\ r \in Seq(LogLine) /\ Len(s) + 1 \notin DOMAIN s
           /\ DOMAIN r = DOMAIN s \cup {Len(s) + 1}
           /\ \A i \in DOMAIN s : r[i] = s[i]
           /\ r[Len(s) + 1] = l
    OBVIOUS

(* A sample with one line more: what is counted over the lines of this build
   is unchanged when these are the same.  *)
SameScores(s, r) ==
    /\ Usable(r) = Usable(s) /\ Disagree(r) = Disagree(s) /\ Inconsistent(r) = Inconsistent(s)
    /\ CopyVerdict(r) = CopyVerdict(s) /\ MissVerdict(r) = MissVerdict(s)
    /\ \A active : Fabricated(r, active) = Fabricated(s, active)
    /\ CostVerdict(r) = CostVerdict(s)

LEMMA SameServing ==
    ASSUME NEW s, NEW r, Serving(r) = Serving(s), Inconsistent(r) = Inconsistent(s),
           \A i \in Serving(s) : r[i] = s[i]
    PROVE  MissVerdict(r) = MissVerdict(s)
<1>1. [i \in Serving(r) |-> Cardinality(r[i].v2)] = [i \in Serving(s) |-> Cardinality(s[i].v2)]
    OBVIOUS
<1>2. [i \in Serving(r) |-> Cardinality(r[i].v2 \ r[i].v3)]
        = [i \in Serving(s) |-> Cardinality(s[i].v2 \ s[i].v3)]
    OBVIOUS
<1>3. Injected(r) = Injected(s)
    BY <1>1 DEF Injected
<1>4. Dropped(r) = Dropped(s)
    BY <1>2 DEF Dropped
<1> QED
    BY <1>3, <1>4 DEF MissVerdict

(* A line that is not of this build changes no score. *)
LEMMA OthersLeaveScores ==
    ASSUME NEW s \in Seq(LogLine), NEW l \in LogLine, NEW r, r = Append(s, l),
           l.build # "this"
    PROVE  SameScores(s, r)
<1>1. /\ Len(s) + 1 \notin DOMAIN s /\ DOMAIN r = DOMAIN s \cup {Len(s) + 1}
      /\ \A i \in DOMAIN s : r[i] = s[i]
      /\ r[Len(s) + 1] = l
    BY AppendKeeps
<1>2. Usable(r) = Usable(s) /\ \A i \in Usable(s) : r[i] = s[i]
    BY <1>1 DEF Usable
<1>3. Disagree(r) = Disagree(s)
    BY <1>2 DEF Disagree
<1>4. Inconsistent(r) = Inconsistent(s)
    BY <1>2 DEF Inconsistent
<1>5. Serving(r) = Serving(s) /\ \A i \in Serving(s) : r[i] = s[i]
    BY <1>2 DEF Serving
<1>6. CopyVerdict(r) = CopyVerdict(s)
    BY <1>2, <1>3 DEF CopyVerdict
<1>7. MissVerdict(r) = MissVerdict(s)
    BY <1>4, <1>5, SameServing
<1>8. ASSUME NEW active
      PROVE  Fabricated(r, active) = Fabricated(s, active)
    BY <1>2 DEF Fabricated
<1>9. CostVerdict(r) = CostVerdict(s)
    <2>1. Timed(r) = Timed(s) /\ \A i \in Timed(s) : r[i] = s[i]
        BY <1>2 DEF Timed
    <2>2. {i \in Timed(r) : r[i].slow} = {i \in Timed(s) : s[i].slow}
        BY <2>1
    <2> QED
        BY <2>1, <2>2 DEF CostVerdict
<1> QED
    BY <1>2, <1>3, <1>4, <1>6, <1>7, <1>8, <1>9 DEF SameScores

(* What the verdicts are made of. *)
LEMMA VerdictCases ==
    ASSUME NEW s, NEW active
    PROVE  /\ Verdict(s, active) = "not met" <=>
                \/ CopyVerdict(s) = "not met" \/ MissVerdict(s) = "not met"
                \/ Fabricated(s, active) # {} \/ CostVerdict(s) = "not met"
           /\ Verdict(s, active) = "met" <=>
                /\ CopyVerdict(s) = "met" /\ MissVerdict(s) = "met"
                /\ Fabricated(s, active) = {} /\ CostVerdict(s) = "met"
                /\ ~(Cardinality(Usable(s)) < MinTurns) /\ Malformed(s) = {}
                /\ Disagree(s) = {} /\ Inconsistent(s) = {}
<1>1. CopyVerdict(s) \in {"met", "not met", "no signal"}
    BY DEF CopyVerdict
<1>2. MissVerdict(s) \in {"met", "not met", "no signal"}
    BY DEF MissVerdict
<1>3. CostVerdict(s) \in {"met", "not met", "no signal"}
    BY DEF CostVerdict
<1>4. /\ FabricationVerdict(s, active) \in {"met", "not met"}
      /\ FabricationVerdict(s, active) = "met" <=> Fabricated(s, active) = {}
    BY DEF FabricationVerdict
<1> QED
    BY <1>1, <1>2, <1>3, <1>4 DEF Verdict

(* An honest line of a turn on which the gate abstained. *)
Abstained(l) ==
    l.build = "this" /\ l.gate = "abstain" /\ l.only = {} /\ ~l.stale /\ ~l.slow

LEMMA CostOfAFastTurn ==
    ASSUME NEW s \in Seq(LogLine), NEW l \in LogLine, NEW r, r = Append(s, l),
           l.build = "this", ~l.slow, CostVerdict(s) = "met"
    PROVE  CostVerdict(r) = "met"
<1>1. /\ Len(s) + 1 \notin DOMAIN s /\ DOMAIN r = DOMAIN s \cup {Len(s) + 1}
      /\ \A i \in DOMAIN s : r[i] = s[i]
      /\ r[Len(s) + 1] = l /\ r \in Seq(LogLine)
    BY AppendKeeps
<1> DEFINE T == Timed(s)
           U == Timed(r)
           Slow(q) == {i \in Timed(q) : q[i].slow}
<1>2. (U = T \/ U = T \cup {Len(s) + 1}) /\ T \subseteq DOMAIN s
    BY <1>1 DEF Timed, Usable
<1>3. Slow(r) = Slow(s)
    <2>1. ASSUME NEW i \in DOMAIN s
          PROVE  i \in U <=> i \in T
        BY <1>1, <2>1 DEF Timed, Usable
    <2> QED
        BY <1>1, <1>2, <2>1
<1>4. /\ Cardinality(T) \in Nat /\ Cardinality(U) \in Nat
      /\ Cardinality(Slow(s)) \in Nat /\ Cardinality(U) >= Cardinality(T)
    <2>1. IsFiniteSet(T) /\ IsFiniteSet(U) /\ IsFiniteSet(Slow(s))
        BY <1>1, FinitelyScored
    <2>2. T \subseteq U
        BY <1>2
    <2> QED
        BY <2>1, <2>2, FS_CardinalityType, FS_Subset
<1>5. T # {} /\ ~(Cardinality(Slow(s)) > (5 * Cardinality(T)) \div 100)
    BY DEF CostVerdict
<1>6. (5 * Cardinality(U)) \div 100 >= (5 * Cardinality(T)) \div 100
    <2> DEFINE a == Cardinality(T)
               b == Cardinality(U)
    <2>1. a \in Nat /\ b \in Nat /\ b >= a
        BY <1>4
    <2> HIDE DEF a, b
    <2>2. (5 * b) \div 100 >= (5 * a) \div 100
        BY <2>1
    <2> QED
        BY <2>2 DEF a, b
<1>7. U # {} /\ ~(Cardinality(Slow(r)) > (5 * Cardinality(U)) \div 100)
    <2>1. U # {}
        BY <1>2, <1>5
    <2> DEFINE n == Cardinality(Slow(s))
               f == (5 * Cardinality(T)) \div 100
               g == (5 * Cardinality(U)) \div 100
    <2>2. n \in Nat /\ f \in Int /\ g \in Int /\ g >= f /\ ~(n > f)
        BY <1>4, <1>5, <1>6
    <2> HIDE DEF n, f, g
    <2>3. ~(n > g)
        BY <2>2
    <2> QED
        BY <2>1, <2>3, <1>3 DEF n, g
<1> QED
    BY <1>7 DEF CostVerdict

(* It fails nothing that passed. *)
LEMMA AbstainingFailsNothing ==
    ASSUME ShadowConstants,
           NEW s \in Seq(LogLine), NEW l \in LogLine, NEW r, r = Append(s, l),
           Abstained(l), l.only = l.v3 \ l.v2, l.stale = (l.age > AgeBound),
           Verdict(s, {}) = "met"
    PROVE  Verdict(r, {}) = "met"
<1>1. /\ Len(s) + 1 \notin DOMAIN s /\ DOMAIN r = DOMAIN s \cup {Len(s) + 1}
      /\ \A i \in DOMAIN s : r[i] = s[i]
      /\ r[Len(s) + 1] = l /\ r \in Seq(LogLine)
    BY AppendKeeps
<1>2. /\ l.build = "this" /\ l.gate = "abstain" /\ l.only = {} /\ ~l.stale /\ ~l.slow
    BY DEF Abstained
<1>3. /\ Usable(r) = Usable(s) \cup {Len(s) + 1} /\ Usable(s) \subseteq DOMAIN s
      /\ \A i \in Usable(s) : r[i] = s[i]
    BY <1>1, <1>2 DEF Usable
<1>4. /\ CopyVerdict(s) = "met" /\ MissVerdict(s) = "met"
      /\ Fabricated(s, {}) = {} /\ CostVerdict(s) = "met"
      /\ ~(Cardinality(Usable(s)) < MinTurns) /\ Malformed(s) = {}
      /\ Disagree(s) = {} /\ Inconsistent(s) = {}
    BY VerdictCases
<1>5. Disagree(r) = {}
    BY <1>1, <1>2, <1>3, <1>4 DEF Disagree
<1>6. Inconsistent(r) = {}
    BY <1>1, <1>2, <1>3, <1>4 DEF Inconsistent
<1>7. Serving(r) = Serving(s) /\ \A i \in Serving(s) : r[i] = s[i]
    BY <1>1, <1>2, <1>3 DEF Serving
<1>8. CopyVerdict(r) = "met"
    <2>1. Usable(s) # {} /\ \A i \in Usable(s) : ~(s[i].age > AgeBound)
        BY <1>4 DEF CopyVerdict
    <2>2. ~(l.age > AgeBound)
        BY <1>2
    <2>3. \A i \in Usable(r) : ~(r[i].age > AgeBound)
        BY <1>1, <1>3, <2>1, <2>2
    <2>4. Usable(r) # {}
        BY <1>3
    <2> QED
        BY <1>5, <2>3, <2>4 DEF CopyVerdict
<1>9. MissVerdict(r) = "met"
    BY <1>4, <1>6, <1>7, SameServing
<1>10. Fabricated(r, {}) = {}
    BY <1>1, <1>2, <1>3, <1>4 DEF Fabricated
<1>11. CostVerdict(r) = "met"
    BY <1>2, <1>4, CostOfAFastTurn
<1>12. Malformed(r) = {}
    BY <1>1, <1>2, <1>4 DEF Malformed
<1>13. ~(Cardinality(Usable(r)) < MinTurns)
    <2>1. IsFiniteSet(Usable(r)) /\ IsFiniteSet(Usable(s)) /\ Usable(s) \subseteq Usable(r)
        BY <1>1, <1>3, FinitelyScored
    <2>2. /\ Cardinality(Usable(r)) \in Nat /\ Cardinality(Usable(s)) \in Nat
          /\ Cardinality(Usable(s)) <= Cardinality(Usable(r))
        BY <2>1, FS_CardinalityType, FS_Subset
    <2>3. MinTurns \in Nat
        BY ShadowConstants DEF ShadowConstants
    <2> QED
        BY <1>4, <2>2, <2>3
<1> QED
    BY <1>5, <1>6, <1>8, <1>9, <1>10, <1>11, <1>12, <1>13, VerdictCases

(* What v3 made up stays made up. *)
LEMMA FabricationStays ==
    ASSUME NEW s \in Seq(LogLine), NEW l \in LogLine, NEW r, r = Append(s, l),
           Fabricated(s, {}) # {}
    PROVE  Verdict(r, {}) = "not met"
<1>1. /\ DOMAIN r = DOMAIN s \cup {Len(s) + 1}
      /\ \A i \in DOMAIN s : r[i] = s[i]
    BY AppendKeeps
<1>2. Fabricated(s, {}) \subseteq Fabricated(r, {})
    BY <1>1 DEF Fabricated, Usable
<1> QED
    BY <1>2, VerdictCases

LEMMA OtherBuildsDoNotCount ==
    ASSUME NEW s \in Seq(LogLine), NEW l \in LogLine, NEW r, r = Append(s, l),
           l.build = "other"
    PROVE  Verdict(r, {}) = Verdict(s, {})
<1>1. /\ Len(s) + 1 \notin DOMAIN s /\ DOMAIN r = DOMAIN s \cup {Len(s) + 1}
      /\ \A i \in DOMAIN s : r[i] = s[i]
      /\ r[Len(s) + 1] = l
    BY AppendKeeps
<1>2. Malformed(r) = Malformed(s)
    BY <1>1 DEF Malformed
<1>3. SameScores(s, r)
    BY OthersLeaveScores
<1>4. FabricationVerdict(r, {}) = FabricationVerdict(s, {})
    BY <1>3 DEF SameScores, FabricationVerdict
<1> QED
    BY <1>2, <1>3, <1>4 DEF SameScores, Verdict

LEMMA TornLinesPassNothing ==
    ASSUME NEW s \in Seq(LogLine), NEW l \in LogLine, NEW r, r = Append(s, l),
           l.build = "torn"
    PROVE  /\ Verdict(r, {}) # "met"
           /\ Verdict(s, {}) = "not met" => Verdict(r, {}) = "not met"
<1>1. /\ DOMAIN r = DOMAIN s \cup {Len(s) + 1} /\ r[Len(s) + 1] = l
    BY AppendKeeps
<1>2. Malformed(r) # {}
    BY <1>1 DEF Malformed
<1>3. SameScores(s, r)
    BY OthersLeaveScores
<1> QED
    BY <1>2, <1>3, VerdictCases DEF SameScores

-----------------------------------------------------------------------------
(* The line a step leaves: one of somebody else, or one of a turn, whose
   marks agree with the numbers beside them.  *)
Left(l) ==
    /\ l \in LogLine
    /\ Abstained(l) => l.only = l.v3 \ l.v2 /\ l.stale = (l.age > AgeBound)

LEMMA StepsLeaveALine ==
    ASSUME ShadowConstants, ShadowTypeOK, [ShadowNext]_shadowVars, Len(log') = Len(log) + 1
    PROVE  \E l : Left(l) /\ log' = Append(log, l)
<1>1. log \in Seq(LogLine) /\ Len(log) \in Nat
    BY DEF ShadowTypeOK
<1>2. ASSUME log' = log \/ log' = <<>>
      PROVE  FALSE
    BY <1>1, <1>2
<1>3. ASSUME NEW l \in LogLine, Foreign(l)
      PROVE  Left(l) /\ log' = Append(log, l)
    <2>1. l.gate = "pass"
        BY <1>3 DEF Foreign, Others
    <2> QED
        BY <1>3, <2>1 DEF Foreign, AppendLine, Left, Abstained
<1>4. ASSUME NEW t \in Thread, ReadCopy(t)
      PROVE  \E l : Left(l) /\ log' = Append(log, l)
    <2>1. copy.schema # "v2"
        BY <1>2, <1>4 DEF ReadCopy
    <2>2. PICK x \in Outcomes(copy.rows), slow \in BOOLEAN :
            AppendLine(LineOf(x, turn[t].v2, turn[t].age, turn[t].refreshed, slow))
        BY <1>4, <2>1 DEF ReadCopy
    <2>3. /\ copy.rows \in SUBSET Memory /\ turn[t].v2 \in SUBSET Memory
          /\ turn[t].age \in 0..AgeBound + 1 /\ turn[t].refreshed \in BOOLEAN
        BY DEF ShadowTypeOK, Copies
    <2> DEFINE l == LineOf(x, turn[t].v2, turn[t].age, turn[t].refreshed, slow)
    <2>4. l \in LogLine
        BY <2>3, LineOfIsLine
    <2>5. l.only = l.v3 \ l.v2 /\ l.stale = (l.age > AgeBound)
        BY DEF LineOf
    <2>6. log' = Append(log, l)
        BY <2>2 DEF AppendLine
    <2> HIDE DEF l
    <2> QED
        BY <2>4, <2>5, <2>6 DEF Left
<1> QED
    BY <1>2, <1>3, <1>4
    DEF ShadowNext, GoOn, StoreMoves, Answer, Look, Overwrite, MigrateCopy, BreakOff,
        MinutesPass, NewSample, shadowVars

LEMMA LastOfAppend ==
    ASSUME NEW s \in Seq(LogLine), NEW l \in LogLine, NEW r, r = Append(s, l)
    PROVE  r[Len(r)] = l
    OBVIOUS

(* What one more line of the log does to the verdict on a promotion
   (_shadow.py evaluate), whatever turns, refreshes that break off, other
   builds and torn writes made of the sample.  *)
THEOREM VerdictsAreSound ==
    ASSUME ShadowConstants
    PROVE  ShadowSpec => VerdictIsSound
<1>1. ShadowTypeOK /\ [ShadowNext]_shadowVars => [OneMoreLine]_shadowVars
    <2> SUFFICES ASSUME ShadowTypeOK, [ShadowNext]_shadowVars, Len(log') = Len(log) + 1
                 PROVE  OneMoreLine
        BY DEF OneMoreLine
    <2>1. PICK l : Left(l) /\ log' = Append(log, l)
        BY StepsLeaveALine
    <2>2. log \in Seq(LogLine) /\ l \in LogLine
        BY <2>1 DEF ShadowTypeOK, Left
    <2> DEFINE s == log
               r == log'
    <2>3. s \in Seq(LogLine) /\ r = Append(s, l)
        BY <2>1, <2>2
    <2> HIDE DEF s, r
    <2>4. r[Len(r)] = l
        BY <2>2, <2>3, LastOfAppend
    <2>5. l.build = "other" => Verdict(r, {}) = Verdict(s, {})
        BY <2>2, <2>3, OtherBuildsDoNotCount
    <2>6. l.build = "torn" => /\ Verdict(r, {}) # "met"
                              /\ Verdict(s, {}) = "not met" => Verdict(r, {}) = "not met"
        BY <2>2, <2>3, TornLinesPassNothing
    <2>7. Fabricated(s, {}) # {} => Verdict(r, {}) = "not met"
        BY <2>2, <2>3, FabricationStays
    <2>8. Abstained(l) /\ Verdict(s, {}) = "met" => Verdict(r, {}) = "met"
        <3>1. Abstained(l) => l.only = l.v3 \ l.v2 /\ l.stale = (l.age > AgeBound)
            BY <2>1 DEF Left
        <3> QED
            BY <2>2, <2>3, <3>1, AbstainingFailsNothing
    <2>9. log'[Len(log')] = l
        BY <2>4 DEF r
    <2> QED
        BY <2>5, <2>6, <2>7, <2>8, <2>9 DEF OneMoreLine, Abstained, s, r
<1>2. ShadowSpec => []ShadowTypeOK
    BY ShadowTypes
<1> QED
    BY <1>1, <1>2, PTL DEF ShadowSpec, VerdictIsSound
=============================================================================
