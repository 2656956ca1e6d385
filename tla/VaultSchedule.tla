---------------------------- MODULE VaultSchedule ----------------------------
(***************************************************************************)
(* The vault view of one scope: how a write reaches the Markdown pages and *)
(* the search index over them (em/vault/schedule.py, the render loop of    *)
(* em/vault/projection.py, the refresh of em_internal/index.py).           *)
(*                                                                         *)
(* A write queues a debounced projection in its own transaction.  Rows are *)
(* found through a chain of dedupe keys: the base key, then base:<row id>  *)
(* of each row that already runs or is settled.  Row <<k, i>> below is the *)
(* row at position i of the chain of kind k.                               *)
(*                                                                         *)
(* Content is abstracted to freshness.  page[p] says whether the generated *)
(* sections of page p show the present store, index[p] whether the index   *)
(* shows the present page; a handler that has read its source for p and    *)
(* not yet written holds a snapshot, current until the source changes.     *)
(* Pages keep their markers (a gutted page is skipped by the projection    *)
(* and left to lint).                                                      *)
(*                                                                         *)
(* The queue underneath is the one of module JobQueue, reduced to what     *)
(* this component sees.  Other jobs compete for the workers, so which      *)
(* ready row is claimed next is left open.  Time is in ticks: due is what  *)
(* is left until run_after, age what has passed since created_at (kept up  *)
(* to MaxWait, and only while the row is queued, where it is read).        *)
(***************************************************************************)
EXTENDS Integers, FiniteSets

CONSTANTS
    Workers,       \* worker processes
    NPages,        \* pages of the vault, in the order they are rendered
    MaxChain,      \* _MAX_CHAIN
    Debounce,      \* DEBOUNCE_SECONDS
    MaxWait,       \* MAX_WAIT_SECONDS
    MaxAttempts,   \* max_attempts of every row
    Backoff        \* Backoff[a]: ticks before the retry after attempt a

Kinds == {"project", "reindex"}
Pages == 1..NPages
Rows  == Kinds \X (1..MaxChain)
NoRow == <<"none", 0>>
Nobody == "nobody"

ASSUME VaultConstants ==
    /\ NPages \in Nat \ {0}
    /\ MaxChain \in Nat \ {0}
    /\ Debounce \in Nat
    /\ MaxWait \in Nat
    /\ Debounce <= MaxWait
    /\ MaxAttempts \in Nat \ {0}
    /\ Backoff \in [1..MaxAttempts -> Nat]
    /\ Nobody \notin Workers

VARIABLES
    handles,                    \* handles[w]: the kinds of job registered with w
    status, due, age, attempts, \* the chain rows: status, run_after, created_at,
    holder, late,               \*   attempts, locked_by, lease run out
    page, index,                \* freshness of the vault pages and of the index
    job, pos,                   \* per worker: the row it handles and the page
                                \*   it is at (NPages + 1: past the last one)
    snap,                       \* snap[w][p]: what w holds of p's source
    givenUp                     \* history: per kind, a request was dropped or a
                                \*   row died since the last accepted request

chain == <<status, due, age, attempts, holder, late>>
files == <<page, index>>
work  == <<job, pos, snap>>
vars  == <<handles, status, due, age, attempts, holder, late, page, index,
           job, pos, snap, givenUp>>

(* Every variable has its type, and no row is attempted too often. *)
TypeOK ==
    /\ handles \in [Workers -> SUBSET Kinds]
    /\ status \in [Rows -> {"none", "queued", "running", "failed", "done", "dead"}]
    /\ due \in [Rows -> Nat]
    /\ age \in [Rows -> 0..MaxWait]
    /\ attempts \in [Rows -> 0..MaxAttempts]
    /\ holder \in [Rows -> Workers \cup {Nobody}]
    /\ late \in [Rows -> BOOLEAN]
    /\ page \in [Pages -> BOOLEAN]
    /\ index \in [Pages -> BOOLEAN]
    /\ job \in [Workers -> Rows \cup {NoRow}]
    /\ pos \in [Workers -> 1..(NPages + 2)]
    /\ snap \in [Workers -> [Pages -> {"none", "current", "stale"}]]
    /\ givenUp \in [Kinds -> BOOLEAN]

NoSnap == [p \in Pages |-> "none"]

(* An empty store: the first projection has nothing to show.  Any worker   *)
(* may carry any of the kinds; it registers them once. *)
Init ==
    /\ handles \in [Workers -> SUBSET Kinds]
    /\ status = [r \in Rows |-> "none"]
    /\ due = [r \in Rows |-> 0]
    /\ age = [r \in Rows |-> 0]
    /\ attempts = [r \in Rows |-> 0]
    /\ holder = [r \in Rows |-> Nobody]
    /\ late = [r \in Rows |-> FALSE]
    /\ page = [p \in Pages |-> TRUE]
    /\ index = [p \in Pages |-> TRUE]
    /\ job = [w \in Workers |-> NoRow]
    /\ pos = [w \in Workers |-> 1]
    /\ snap = [w \in Workers |-> NoSnap]
    /\ givenUp = [k \in Kinds |-> FALSE]

-----------------------------------------------------------------------------
(* The chain walk of enqueue_projection and enqueue_reindex.               *)

Waiting(r) == status[r] \in {"queued", "failed"}

(* Variant: the row in flight is taken to satisfy the request, as a plain  *)
(* enqueue under one key would.                                            *)
OpenPlain(k) == {i \in 1..MaxChain : status[<<k, i>>] \in {"none", "queued", "failed", "running"}}

(* The positions at which the walk would stop. *)
Open(k) == {i \in 1..MaxChain : status[<<k, i>>] \in {"none", "queued", "failed"}}

First(S) == CHOOSE i \in S : \A j \in S : i <= j

(* Variant: the slide has no ceiling. *)
RunAtUnclamped(r) == Debounce

(* run_after of a projection request: a queued row slides, never past      *)
(* MaxWait after its creation.                                             *)
RunAt(r) ==
    IF status[r] = "queued" /\ MaxWait - age[r] < Debounce
    THEN MaxWait - age[r] ELSE Debounce

(* One request of kind k; when[r] is the run_after it asks for.  A new    *)
(* row is inserted or the waiting one rescheduled.  With the chain used up *)
(* the RuntimeError is swallowed by the caller.                            *)
Request(k, when) ==
    IF Open(k) = {}
    THEN /\ givenUp' = [givenUp EXCEPT ![k] = TRUE]
         /\ UNCHANGED <<status, due, age>>
    ELSE LET r == <<k, First(Open(k))>>
         IN /\ status' = [status EXCEPT ![r] = IF @ = "none" THEN "queued" ELSE @]
            /\ due' = [due EXCEPT ![r] = when[r]]
            /\ age' = [age EXCEPT ![r] = IF status[r] = "none" THEN 0 ELSE @]
            /\ givenUp' = [givenUp EXCEPT ![k] = FALSE]

-----------------------------------------------------------------------------
(* The memory tools and the user.                                          *)

Handling(w, k) == job[w][1] = k

(* What each handler of kind k still holds once the source of S changed. *)
Outdated(k, S) ==
    [w \in Workers |-> [p \in Pages |->
        IF Handling(w, k) /\ p \in S /\ snap[w][p] = "current" THEN "stale" ELSE snap[w][p]]]

(* remember, update and forget: the store changes under the pages S and    *)
(* the projection is requested, in one transaction.                        *)
Write(S) ==
    /\ page' = [p \in Pages |-> page[p] /\ p \notin S]
    /\ snap' = Outdated("project", S)
    /\ Request("project", [r \in Rows |-> RunAt(r)])
    /\ UNCHANGED <<handles, attempts, holder, late, index, job, pos>>

-----------------------------------------------------------------------------
(* The worker: claim, and the ways a run ends.                             *)

Ready(w) == {r \in Rows : /\ r[1] \in handles[w]
                          /\ \/ Waiting(r) /\ due[r] = 0
                             \/ status[r] = "running" /\ late[r]}

Exhausted(r) == status[r] = "running" /\ attempts[r] >= MaxAttempts

(* claim takes one ready row and buries the exhausted ones it met first. *)
Claim(w, r) ==
    /\ job[w] = NoRow
    /\ r \in Ready(w) /\ ~Exhausted(r)
    /\ \E met \in SUBSET {q \in Ready(w) : Exhausted(q)} :
         /\ status' = [q \in Rows |-> CASE q = r     -> "running"
                                        [] q \in met -> "dead"
                                        [] OTHER     -> status[q]]
         /\ holder' = [q \in Rows |-> IF q = r THEN w ELSE IF q \in met THEN Nobody ELSE holder[q]]
         /\ givenUp' = [k \in Kinds |-> givenUp[k] \/ \E q \in met : q[1] = k]
         /\ late' = [q \in Rows |-> late[q] /\ q # r /\ q \notin met]
    /\ attempts' = [attempts EXCEPT ![r] = @ + 1]
    /\ age' = [age EXCEPT ![r] = 0]
    /\ job' = [job EXCEPT ![w] = r]
    /\ pos' = [pos EXCEPT ![w] = 1]
    /\ UNCHANGED <<handles, due, files, snap>>

(* A claim that finds exhausted rows only buries them and returns None. *)
ClaimNothing(w) ==
    /\ job[w] = NoRow
    /\ Ready(w) # {}
    /\ \A r \in Ready(w) : Exhausted(r)
    /\ status' = [r \in Rows |-> IF r \in Ready(w) THEN "dead" ELSE status[r]]
    /\ holder' = [r \in Rows |-> IF r \in Ready(w) THEN Nobody ELSE holder[r]]
    /\ late' = [r \in Rows |-> late[r] /\ r \notin Ready(w)]
    /\ givenUp' = [k \in Kinds |-> givenUp[k] \/ \E r \in Ready(w) : r[1] = k]
    /\ UNCHANGED <<handles, due, age, attempts, files, work>>

Holds(w, r) == status[r] = "running" /\ holder[r] = w

PutDown(w) ==
    /\ job' = [job EXCEPT ![w] = NoRow]
    /\ pos' = [pos EXCEPT ![w] = 1]
    /\ snap' = [snap EXCEPT ![w] = NoSnap]

(* The handler returned: complete. *)
Complete(w) ==
    LET r == job[w]
    IN /\ r # NoRow
       /\ pos[w] = NPages + 2
       /\ Holds(w, r)
       /\ status' = [status EXCEPT ![r] = "done"]
       /\ holder' = [holder EXCEPT ![r] = Nobody]
       /\ late' = [late EXCEPT ![r] = FALSE]
       /\ PutDown(w)
       /\ UNCHANGED <<handles, due, age, attempts, files, givenUp>>

(* The handler raised: a retry with backoff, or dead when the error is     *)
(* permanent (a missing root, no reader, an index that cannot be opened)   *)
(* or the attempts are used up. *)
Fail(w, permanent) ==
    LET r == job[w]
        dead == permanent \/ attempts[r] >= MaxAttempts
    IN /\ r # NoRow
       /\ permanent => pos[w] = 1 /\ snap[w] = NoSnap
       /\ Holds(w, r)
       /\ status' = [status EXCEPT ![r] = IF dead THEN "dead" ELSE "failed"]
       /\ due' = [due EXCEPT ![r] = IF dead THEN @ ELSE Backoff[attempts[r]]]
       /\ holder' = [holder EXCEPT ![r] = Nobody]
       /\ late' = [late EXCEPT ![r] = FALSE]
       /\ givenUp' = [givenUp EXCEPT ![r[1]] = @ \/ dead]
       /\ PutDown(w)
       /\ UNCHANGED <<handles, age, attempts, files>>

(* The handler ended, but another worker took the row over: not recorded. *)
Lost(w) ==
    /\ job[w] # NoRow
    /\ pos[w] = NPages + 2
    /\ ~Holds(w, job[w])
    /\ PutDown(w)
    /\ UNCHANGED <<handles, chain, files, givenUp>>

(* The process is killed (or the handler raised after losing its row). *)
Crash(w) ==
    /\ job[w] # NoRow
    /\ PutDown(w)
    /\ UNCHANGED <<handles, chain, files, givenUp>>

(* The lease of a running row runs out; neither handler renews it. *)
LeaseRunsOut(r) ==
    /\ status[r] = "running" /\ ~late[r]
    /\ late' = [late EXCEPT ![r] = TRUE]
    /\ UNCHANGED <<handles, status, due, age, attempts, holder, files, work, givenUp>>

(* One tick for every waiting row.  A row that is ready just stays ready. *)
Tick ==
    /\ \E r \in Rows : Waiting(r) /\ due[r] > 0
    /\ due' = [r \in Rows |-> IF Waiting(r) /\ due[r] > 0 THEN due[r] - 1 ELSE due[r]]
    /\ age' = [r \in Rows |-> IF status[r] = "queued" /\ age[r] < MaxWait
                              THEN age[r] + 1 ELSE age[r]]
    /\ UNCHANGED <<handles, status, attempts, holder, late, files, work, givenUp>>

-----------------------------------------------------------------------------
(* project(): page after page, the rows are queried, the file is read and  *)
(* replaced.  An entity page reads the file first; the journal queries the *)
(* rows of all its pages first.                                            *)

Rendering(w) == Handling(w, "project") /\ pos[w] <= NPages

(* The queries behind the pages from the present one to last. *)
QueryRows(w, last) ==
    /\ Rendering(w)
    /\ last >= pos[w]
    /\ snap[w][pos[w]] = "none"
    /\ snap' = [snap EXCEPT ![w] = [p \in Pages |->
                   IF p \in pos[w]..last THEN "current" ELSE @[p]]]
    /\ UNCHANGED <<handles, chain, files, job, pos, givenUp>>

(* merge and _commit: the page is replaced from the rows queried before; a *)
(* file that would not change is left alone. *)
Replace(w) ==
    LET p    == pos[w]
        same == page[p] /\ snap[w][p] = "current"
    IN /\ Rendering(w)
       /\ snap[w][p] # "none"
       /\ page' = [page EXCEPT ![p] = snap[w][p] = "current"]
       /\ index' = [index EXCEPT ![p] = @ /\ same]
       /\ snap' = [IF same THEN snap ELSE Outdated("reindex", {p}) EXCEPT ![w][p] = "none"]
       /\ pos' = [pos EXCEPT ![w] = p + 1]
       /\ UNCHANGED <<handles, chain, job, givenUp>>

(* The pages are written: request the index refresh, due now.  The request *)
(* is fail-soft: whatever it raises, the projection still succeeds. *)
RequestRefresh(w) ==
    /\ Handling(w, "project")
    /\ pos[w] = NPages + 1
    /\ \/ Request("reindex", [r \in Rows |-> 0])
       \/ /\ givenUp' = [givenUp EXCEPT !["reindex"] = TRUE]
          /\ UNCHANGED <<status, due, age>>
    /\ pos' = [pos EXCEPT ![w] = @ + 1]
    /\ UNCHANGED <<handles, attempts, holder, late, files, job, snap>>

(* rebuild(): every moved note is read, then the index is written at once. *)
ReadNote(w) ==
    /\ Handling(w, "reindex")
    /\ pos[w] <= NPages
    /\ snap' = [snap EXCEPT ![w][pos[w]] = "current"]
    /\ pos' = [pos EXCEPT ![w] = @ + 1]
    /\ UNCHANGED <<handles, chain, files, job, givenUp>>

CommitIndex(w) ==
    /\ Handling(w, "reindex")
    /\ pos[w] = NPages + 1
    /\ index' = [p \in Pages |-> snap[w][p] = "current"]
    /\ pos' = [pos EXCEPT ![w] = @ + 1]
    /\ UNCHANGED <<handles, chain, page, job, snap, givenUp>>

HandlerStep(w) ==
    \/ \E last \in Pages : QueryRows(w, last)
    \/ Replace(w)
    \/ RequestRefresh(w)
    \/ ReadNote(w)
    \/ CommitIndex(w)
    \/ Complete(w)
    \/ Lost(w)

Next ==
    \/ \E S \in SUBSET Pages \ {{}} : Write(S)
    \/ Tick
    \/ \E r \in Rows : LeaseRunsOut(r)
    \/ \E w \in Workers :
         \/ \E r \in Rows : Claim(w, r)
         \/ ClaimNothing(w)
         \/ HandlerStep(w)
         \/ \E permanent \in BOOLEAN : Fail(w, permanent)
         \/ Crash(w)

Spec == Init /\ [][Next]_vars

(* Scheduling: time passes, a worker thread keeps running its handler, an  *)
(* abandoned lease runs out, and the claim query, which takes the row that *)
(* has been due longest, does not pass over a ready row for ever.  Writes, *)
(* edits, failures and crashes are under no obligation. *)
Fairness ==
    /\ WF_vars(Tick)
    /\ \A r \in Rows : WF_vars(LeaseRunsOut(r))
    /\ \A w \in Workers :
         /\ \A r \in Rows : SF_vars(Claim(w, r))
         /\ WF_vars(ClaimNothing(w))
         /\ WF_vars(HandlerStep(w))

FairSpec == Spec /\ Fairness

-----------------------------------------------------------------------------
(* Properties.                                                             *)

(* A run of row r that its queue will accept, or one whose worker is gone  *)
(* and whose row will be taken back. *)
StillAhead(r, Ahead(_)) ==
    \/ Waiting(r)
    \/ /\ status[r] = "running"
       /\ \A w \in Workers : job[w] = r /\ Holds(w, r) => Ahead(w)

(* No write is lost: while a page does not show the present store, some    *)
(* projection is waiting, or is running and has yet to read that page's    *)
(* rows, unless a request was dropped or a row died.  This is the module's *)
(* "a write that lands mid-projection is re-queued, not lost" *)
(* (vault/schedule.py:19). *)
WriteCovered ==
    \A p \in Pages : ~page[p] =>
        \/ givenUp["project"]
        \/ \E i \in 1..MaxChain :
             StillAhead(<<"project", i>>,
                        LAMBDA w : pos[w] <= p /\ snap[w][p] # "stale")

(* The same for the index: while it does not show a page, a refresh is     *)
(* ahead, or a projection is ahead that will request one. *)
IndexCovered ==
    \A p \in Pages : ~index[p] =>
        \/ givenUp["reindex"] \/ givenUp["project"]
        \/ \E i \in 1..MaxChain :
             \/ StillAhead(<<"reindex", i>>,
                           LAMBDA w : pos[w] <= NPages + 1
                                      /\ (pos[w] <= p \/ snap[w][p] = "current"))
             \/ StillAhead(<<"project", i>>, LAMBDA w : pos[w] <= NPages + 1)

(* Each kind of job is carried by one worker at most.  Of two projections  *)
(* the older rows may be written last. *)
Alone == \A v, w \in Workers : handles[v] \cap handles[w] # {} => v = w

(* The pages show the store and the index the pages, or a job that will    *)
(* see to it is ahead. *)
AloneCovered == Alone => WriteCovered /\ IndexCovered

(* A queued row of a kind some worker carries is eventually run, however   *)
(* many writes keep arriving: the slide ends, and crashed or overrun       *)
(* workers are replaced. *)
Carried(r) == \E w \in Workers : r[1] \in handles[w]
QueuedRuns ==
    \A r \in Rows : Carried(r) => (status[r] = "queued" ~> status[r] # "queued")

(* Once the writes stop, every page that fell behind is brought up to date *)
(* or the module has given up on it: the chain is used up or a row is      *)
(* dead.  (While writes go on, a failed row can be pushed back for ever.)  *)
WritesStop == <>[][\A S \in SUBSET Pages \ {{}} : ~Write(S)]_vars
PagesCatchUp ==
    WritesStop => \A p \in Pages : (~page[p] ~> page[p] \/ givenUp["project"])

(* What the comments say and the code does not do.                         *)

(* "Reaching this means writes arrived faster than the projection could    *)
(* render, thousands of times over" (vault/schedule.py:77): a request is   *)
(* refused only while an earlier render is going on or has died. *)
RefusedOnlyWhenBusy ==
    [][Open("project") = {} /\ givenUp' # givenUp /\ givenUp'["project"]
         => \E i \in 1..MaxChain : status[<<"project", i>>] \in {"running", "dead"}]_vars

=============================================================================
