------------------------------ MODULE EmbedJobs ------------------------------
(***************************************************************************)
(* The embed, embed_backfill and prune jobs (em/embeddings/jobs.py,        *)
(* em/embeddings/prune.py) beside the writers of the memories table        *)
(* (em/store/memories.py) and the model stamp in meta                      *)
(* (em/store/embeddings.py).                                               *)
(*                                                                         *)
(* A handler reads, embeds outside every transaction, and writes in a      *)
(* transaction of its own: each is a step here, and anything may happen    *)
(* between them.  A text is named by the version of the row that wrote it, *)
(* so a vector is the version whose text it was made from.                 *)
(*                                                                         *)
(* The queue is JobQueue's, reduced to what matters here: a job is queued  *)
(* until a worker reports it, a worker inside its lease has it for itself, *)
(* a key is used once (no code path prunes settled rows).  Failed attempts *)
(* are crashes; attempts do not run out.  Episodes, whose jobs carry a     *)
(* stamp instead of a version, rows without text, and the vacuum after a   *)
(* prune are left out.                                                     *)
(***************************************************************************)
EXTENDS Integers, FiniteSets

CONSTANTS
    Memories,
    Models,
    Configured,      \* the models the provider's configuration ever names
    NoModel,
    Workers,
    MaxVersion,      \* bound: versions of a row
    BatchSize        \* BATCH_SIZE

ASSUME EmbedConstants ==
    /\ NoModel \notin Models
    /\ Models # {} /\ Configured \subseteq Models
    /\ MaxVersion \in Nat \ {0}
    /\ BatchSize \in Nat \ {0}

EmbedsOf == [kind : {"embed"}, memory : Memories, version : 1..MaxVersion]
Fills    == [kind : {"embed_backfill"}, model : Configured]
Prunes   == [kind : {"prune"}, model : Configured]
Jobs     == EmbedsOf \cup Fills \cup Prunes
NoJob    == [kind |-> "none"]

VARIABLES
    status,      \* the memories rows: status,
    version,     \*   version,
    text,        \*   the version that wrote the content
    vector,      \* the embeddings rows: vector[m][k] (0: no row)
    stored,      \* meta embedding_model,
    previous,    \*   embedding_model_previous,
    aged,        \*   the grace since the last switch is over
    own,         \* the model of the workers' EmbeddingService, which the
                 \*   registry builds from the environment, not from the config
    queue,       \* jobs that wait or run
    keys,        \* every dedupe key ever used
    job,         \* what each worker runs,
    lease,       \*   whether its claim holds,
    step,        \*   how far it is,
    batch,       \*   the texts it has read (0: not read),
    doomed,      \*   the models it will prune
    lost,        \* history: memories whose job was run without a backend, or
                 \*   whose vector a backfill or a prune took away
    arrived      \* history, per worker: memories that became active, or lost
                 \*   their vector to a prune, while its backfill goes on

memories == <<status, version, text>>
meta     == <<stored, previous, aged>>
workers  == <<job, lease, step, batch, doomed>>
vars == <<status, version, text, vector, stored, previous, aged, own,
          queue, keys, job, lease, step, batch, doomed, lost, arrived>>

Nothing == [m \in Memories |-> 0]

(* Every variable has its type, and a worker without a job has nothing left *)
(* of the last one. *)
TypeOK ==
    /\ status \in [Memories -> {"none", "pending", "active", "retired", "purged"}]
    /\ version \in [Memories -> 0..MaxVersion]
    /\ text \in [Memories -> 0..MaxVersion]
    /\ vector \in [Memories -> [Models -> 0..MaxVersion]]
    /\ stored \in Models \cup {NoModel}
    /\ previous \in Models \cup {NoModel}
    /\ aged \in BOOLEAN
    /\ own \in Models
    /\ queue \subseteq Jobs
    /\ keys \subseteq Jobs
    /\ job \in [Workers -> Jobs \cup {NoJob}]
    /\ lease \in [Workers -> {"held", "expired", "lost"}]
    /\ step \in [Workers -> {"idle", "claimed", "embedding", "looking", "stamping", "doomed", "returned"}]
    /\ batch \in [Workers -> [Memories -> 0..MaxVersion]]
    /\ doomed \in [Workers -> SUBSET Models]
    /\ lost \subseteq Memories
    /\ arrived \in [Workers -> SUBSET Memories]
    /\ \A w \in Workers : job[w] = NoJob =>
           step[w] = "idle" /\ batch[w] = Nothing /\ doomed[w] = {} /\ arrived[w] = {}

Init ==
    /\ status = [m \in Memories |-> "none"]
    /\ version = Nothing
    /\ text = Nothing
    /\ vector = [m \in Memories |-> [k \in Models |-> 0]]
    /\ own \in Models
    /\ stored \in Configured \cup {NoModel}
    /\ previous = NoModel
    /\ aged = FALSE
    /\ queue = {}
    /\ keys = {}
    /\ job = [w \in Workers |-> NoJob]
    /\ lease = [w \in Workers |-> "lost"]
    /\ step = [w \in Workers |-> "idle"]
    /\ batch = [w \in Workers |-> Nothing]
    /\ doomed = [w \in Workers |-> {}]
    /\ lost = {}
    /\ arrived = [w \in Workers |-> {}]

(* The workers that are filling the store with a model. *)
Filling == {w \in Workers : job[w].kind = "embed_backfill"}

(* Those that fill it with one of the models ks will have missed ms. *)
Missed(ms, ks) ==
    arrived' = [w \in Workers |-> IF w \in Filling /\ job[w].model \in ks
                                   THEN arrived[w] \cup ms ELSE arrived[w]]

(* enqueue: a key that was ever used is not queued again. *)
Asking(j) ==
    /\ queue' = IF j \in keys THEN queue ELSE queue \cup {j}
    /\ keys' = keys \cup {j}

Embed(m, v) == [kind |-> "embed", memory |-> m, version |-> v]
Fill(k)     == [kind |-> "embed_backfill", model |-> k]
Prune(k)    == [kind |-> "prune", model |-> k]

-----------------------------------------------------------------------------
(* The writers.                                                            *)

Live(m) == status[m] \in {"pending", "active"}

(* Row m moves to status st, under its next version. *)
Bump(m, st) ==
    /\ version[m] < MaxVersion
    /\ version' = [version EXCEPT ![m] = @ + 1]
    /\ status' = [status EXCEPT ![m] = st]
    /\ IF st = "active" /\ status[m] # "active" THEN Missed({m}, Models) ELSE UNCHANGED arrived

(* The row has a text of its own version. *)
Rewritten(m) == text' = [text EXCEPT ![m] = version[m] + 1]

(* A new live row: its embed job is queued with it. *)
Add(m) ==
    /\ status[m] = "none"
    /\ Bump(m, "active") /\ Rewritten(m)
    /\ Asking(Embed(m, 1))
    /\ UNCHANGED <<vector, meta, own, workers, lost>>

(* A proposal: no job. *)
Propose(m) ==
    /\ status[m] = "none"
    /\ Bump(m, "pending") /\ Rewritten(m)
    /\ UNCHANGED <<vector, meta, own, queue, keys, workers, lost>>

(* Variant: the new content has no job. *)
EditUnasked(m) ==
    /\ Live(m)
    /\ Bump(m, status[m]) /\ Rewritten(m)
    /\ UNCHANGED <<vector, meta, own, queue, keys, workers, lost>>

(* update with a content. *)
Edit(m) ==
    /\ Live(m)
    /\ Bump(m, status[m]) /\ Rewritten(m)
    /\ Asking(Embed(m, version[m] + 1))
    /\ lost' = lost \ {m}
    /\ UNCHANGED <<vector, meta, own, workers>>

(* update of anything else, and add of the same content again: a version,  *)
(* no job. *)
Touch(m) ==
    /\ Live(m)
    /\ Bump(m, status[m])
    /\ UNCHANGED <<text, vector, meta, own, queue, keys, workers, lost>>

(* set_status, whichever caller: no embed job. *)
Move(m, from, to) ==
    /\ status[m] = from
    /\ Bump(m, to)
    /\ UNCHANGED <<text, vector, meta, own, queue, keys, workers, lost>>

(* purge: the row and its vectors of every model; its jobs are left. *)
Purge(m) ==
    /\ status[m] \notin {"none", "purged"}
    /\ status' = [status EXCEPT ![m] = "purged"]
    /\ version' = [version EXCEPT ![m] = 0]
    /\ text' = [text EXCEPT ![m] = 0]
    /\ vector' = [vector EXCEPT ![m] = [k \in Models |-> 0]]
    /\ UNCHANGED <<meta, own, queue, keys, workers, lost, arrived>>

Write(m) ==
    \/ Add(m) \/ Propose(m) \/ Edit(m) \/ Touch(m) \/ Purge(m)
    \/ Move(m, "pending", "active")       \* promote
    \/ Move(m, "active", "retired")       \* archive, forget, supersede, retract
    \/ Move(m, "retired", "active")       \* restore

-----------------------------------------------------------------------------
(* The configuration.                                                      *)

(* ensure_embedding_model: a session starts with model k configured. *)
Ensure(k) ==
    /\ k # stored
    /\ Asking(Fill(k))
    /\ UNCHANGED <<memories, vector, meta, own, workers, lost, arrived>>

(* The days of the grace pass; no prune takes as long between its look and  *)
(* its delete. *)
Age ==
    /\ stored # NoModel /\ ~aged
    /\ \A w \in Workers : doomed[w] = {}
    /\ aged' = TRUE
    /\ UNCHANGED <<memories, vector, stored, previous, own, queue, keys, workers, lost, arrived>>

-----------------------------------------------------------------------------
(* The worker.                                                             *)

(* claim: a job whose lease is free; who had it before has lost it. *)
Claim(w, j) ==
    /\ job[w] = NoJob
    /\ j \in queue
    /\ \A v \in Workers : job[v] = j => lease[v] # "held"
    /\ job' = [job EXCEPT ![w] = j]
    /\ lease' = [v \in Workers |-> IF v = w THEN "held" ELSE IF job[v] = j THEN "lost" ELSE lease[v]]
    /\ step' = [step EXCEPT ![w] = "claimed"]
    /\ UNCHANGED <<memories, vector, meta, own, queue, keys, batch, doomed, lost, arrived>>

(* The lease runs out while the handler goes on. *)
Expire(w) ==
    /\ lease[w] = "held"
    /\ lease' = [lease EXCEPT ![w] = "expired"]
    /\ UNCHANGED <<memories, vector, meta, own, queue, keys, job, step, batch, doomed, lost, arrived>>

(* w has no job any more. *)
Freed(w) ==
    /\ job' = [job EXCEPT ![w] = NoJob]
    /\ lease' = [lease EXCEPT ![w] = "lost"]
    /\ step' = [step EXCEPT ![w] = "idle"]
    /\ batch' = [batch EXCEPT ![w] = Nothing]
    /\ doomed' = [doomed EXCEPT ![w] = {}]
    /\ arrived' = [arrived EXCEPT ![w] = {}]

(* The handler has returned (or failed for good): the job is settled unless *)
(* another worker has claimed it since. *)
Report(w) ==
    /\ step[w] = "returned"
    /\ queue' = IF lease[w] = "lost" THEN queue ELSE queue \ {job[w]}
    /\ Freed(w)
    /\ UNCHANGED <<memories, vector, meta, own, keys, lost>>

(* The worker dies, or the backend raises: the job will run again. *)
Crash(w) ==
    /\ job[w] # NoJob
    /\ Freed(w)
    /\ UNCHANGED <<memories, vector, meta, own, queue, keys, lost>>

(* w, whose job is of a kind, goes from one step of its handler to the next. *)
At(w, kind, s) == job[w].kind = kind /\ step[w] = s
Goes(w, s)     == step' = [step EXCEPT ![w] = s]

-----------------------------------------------------------------------------
(* embed: one memory.                                                      *)

Outdated(w) == version[job[w].memory] # job[w].version

(* Nothing to do: purged, not active, overtaken, or no backend, which may  *)
(* come and go at any time. *)
EmbedSkip(w) ==
    /\ At(w, "embed", "claimed")
    /\ LET m == job[w].memory IN
         \/ /\ status[m] # "active" \/ Outdated(w)
            /\ UNCHANGED lost
         \/ /\ status[m] = "active" /\ ~Outdated(w)
            /\ lost' = lost \cup {m}
    /\ Goes(w, "returned")
    /\ UNCHANGED <<memories, vector, meta, own, queue, keys, job, lease, batch, doomed, arrived>>

(* The text is read; the backend works outside every transaction. *)
EmbedRead(w) ==
    /\ At(w, "embed", "claimed")
    /\ LET m == job[w].memory IN
         /\ status[m] = "active" /\ ~Outdated(w)
         /\ batch' = [batch EXCEPT ![w][m] = text[m]]
    /\ Goes(w, "embedding")
    /\ UNCHANGED <<memories, vector, meta, own, queue, keys, job, lease, doomed, lost, arrived>>

(* Variant: no second look at the version. *)
EmbedWriteUnchecked(w) ==
    /\ At(w, "embed", "embedding")
    /\ vector' = [vector EXCEPT ![job[w].memory][own] = batch[w][job[w].memory]]
    /\ lost' = lost \ {job[w].memory}
    /\ Goes(w, "returned")
    /\ UNCHANGED <<memories, meta, own, queue, keys, job, lease, batch, doomed, arrived>>

(* The vector is written if the version is still the job's. *)
EmbedWrite(w) ==
    /\ At(w, "embed", "embedding")
    /\ LET m == job[w].memory IN
         IF Outdated(w)
         THEN UNCHANGED <<vector, lost>>
         ELSE /\ vector' = [vector EXCEPT ![m][own] = batch[w][m]]
              /\ lost' = lost \ {m}
    /\ Goes(w, "returned")
    /\ UNCHANGED <<memories, meta, own, queue, keys, job, lease, batch, doomed, arrived>>

-----------------------------------------------------------------------------
(* embed_backfill: every active memory without a vector of the job's model. *)

(* No backend: the model is not recorded, and the job is done. *)
FillWithoutBackend(w) ==
    /\ At(w, "embed_backfill", "claimed")
    /\ Goes(w, "returned")
    /\ UNCHANGED <<memories, vector, meta, own, queue, keys, job, lease, batch, doomed, lost, arrived>>

Missing(k) == {m \in Memories : status[m] = "active" /\ vector[m][k] = 0}

(* A batch is read, if the heartbeat says the job is still this worker's.   *)
(* The code takes the first by id; here any of them. *)
FillRead(w) ==
    /\ \/ At(w, "embed_backfill", "claimed")
       \/ At(w, "embed_backfill", "looking")
    /\ \/ /\ lease[w] = "lost"
          /\ Goes(w, "returned")
          /\ UNCHANGED <<lease, batch, arrived>>
       \/ /\ lease[w] # "lost"
          /\ lease' = [lease EXCEPT ![w] = "held"]
          /\ arrived' = [arrived EXCEPT ![w] = {}]
          /\ IF Missing(job[w].model) = {}
             THEN Goes(w, "stamping") /\ UNCHANGED batch
             ELSE \E B \in SUBSET Missing(job[w].model) :
                    /\ B # {} /\ Cardinality(B) <= BatchSize
                    /\ B # Missing(job[w].model) => Cardinality(B) = BatchSize
                    /\ batch' = [batch EXCEPT ![w] = [m \in Memories |-> IF m \in B THEN text[m] ELSE 0]]
                    /\ Goes(w, "embedding")
    /\ UNCHANGED <<memories, vector, meta, own, queue, keys, job, doomed, lost>>

(* The batch is written, whatever became of its rows and of their vectors,  *)
(* under the name of the job's model. *)
FillWrite(w) ==
    /\ At(w, "embed_backfill", "embedding")
    /\ vector' = [m \in Memories |->
           IF batch[w][m] = 0 THEN vector[m] ELSE [vector[m] EXCEPT ![job[w].model] = batch[w][m]]]
    /\ lost' = lost \cup {m \in Memories : job[w].model = own /\ batch[w][m] \notin {0, text[m]}}
    /\ batch' = [batch EXCEPT ![w] = Nothing]
    /\ Goes(w, "looking")
    /\ UNCHANGED <<memories, meta, own, queue, keys, job, lease, doomed, arrived>>

(* record_model_switch, and the prune job after every switch but the first. *)
Stamp(w) ==
    /\ At(w, "embed_backfill", "stamping")
    /\ stored' = job[w].model
    /\ previous' = stored
    /\ aged' = FALSE
    /\ IF stored = NoModel THEN UNCHANGED <<queue, keys>> ELSE Asking(Prune(job[w].model))
    /\ Goes(w, "returned")
    /\ UNCHANGED <<memories, vector, own, job, lease, batch, doomed, lost, arrived>>

-----------------------------------------------------------------------------
(* prune: the vectors of every model but the last two.                     *)

Kept == {stored, previous}

PruneRead(w) ==
    /\ At(w, "prune", "claimed")
    /\ LET models == {k \in Models : \E m \in Memories : vector[m][k] # 0} \ Kept IN
         IF NoModel \in {stored, previous} \/ ~aged \/ models = {}
         THEN Goes(w, "returned") /\ UNCHANGED doomed
         ELSE Goes(w, "doomed") /\ doomed' = [doomed EXCEPT ![w] = models]
    /\ UNCHANGED <<memories, vector, meta, own, queue, keys, job, lease, batch, lost, arrived>>

PruneWrite(w) ==
    /\ At(w, "prune", "doomed")
    /\ vector' = [m \in Memories |-> [k \in Models |-> IF k \in doomed[w] THEN 0 ELSE vector[m][k]]]
    /\ lost' = IF own \in doomed[w] THEN Memories ELSE lost
    /\ Missed(Memories, doomed[w])
    /\ Goes(w, "returned")
    /\ UNCHANGED <<memories, meta, own, queue, keys, job, lease, batch, doomed>>

-----------------------------------------------------------------------------
Work(w) ==
    \/ \E j \in queue : Claim(w, j)
    \/ EmbedSkip(w) \/ EmbedRead(w) \/ EmbedWrite(w)
    \/ FillWithoutBackend(w) \/ FillRead(w) \/ FillWrite(w) \/ Stamp(w)
    \/ PruneRead(w) \/ PruneWrite(w)
    \/ Report(w)

Next ==
    \/ \E m \in Memories : Write(m)
    \/ \E k \in Configured : Ensure(k)
    \/ Age
    \/ \E w \in Workers : Work(w) \/ Expire(w) \/ Crash(w)

Spec == Init /\ [][Next]_vars

-----------------------------------------------------------------------------
(* The embed job looks at the version again when it writes, so a late one   *)
(* never replaces a newer vector; only the batch of a backfill, which does  *)
(* not look again, can. *)
NeverOlder ==
    [][\A m \in Memories, k \in Models :
          vector'[m][k] # 0 /\ vector'[m][k] < vector[m][k] =>
              \E w \in Filling : batch[w][m] = vector'[m][k] /\ batch'[w][m] = 0]_vars

(* Only a purge takes a vector of the current or of the previous model, or  *)
(* a prune that looked before the last switch, whose grace is still on. *)
RollbackKept ==
    [][\A m \in Memories, k \in {stored, previous} \ {NoModel} :
          vector[m][k] # 0 /\ vector'[m][k] = 0 => status'[m] = "purged" \/ ~aged]_vars

(* When a backfill records its model, every active memory has a vector of   *)
(* it, but for those that became active, or lost it to a prune, since the   *)
(* backfill last looked. *)
StampedFilled ==
    [][\A k \in Models : stored' = k /\ stored # k =>
          \E w \in Filling :
              \A m \in Memories \ arrived[w] : status[m] = "active" => vector[m][k] # 0]_vars

(* A vector that is wanted is not replaced by one of an older text, nor     *)
(* taken, and no model is recorded before its vectors are there. *)
VectorsKept == NeverOlder /\ RollbackKept /\ StampedFilled

(* An active memory whose row is as its text left it has the vector of that *)
(* text from the workers' model, or a job that will make it, whatever       *)
(* expired or crashed; unless that job found no backend, or a backfill or a *)
(* prune of the workers' model took the vector. *)
CurrentOrAsked ==
    \A m \in Memories \ lost :
        status[m] = "active" /\ version[m] = text[m] =>
            vector[m][own] = text[m] \/ Embed(m, text[m]) \in queue

(* "A newer version has its own job; this one is stale"                     *)
(* (embeddings/jobs.py): when the job of an active memory's text is over,   *)
(* in a store filled with the workers' model, the vector is there or a job  *)
(* of a later version is.  Checked to fail: a change of anything but the    *)
(* content moves the version without a job, and the memory is never         *)
(* embedded. *)
OvertakenByAJob ==
    \A m \in Memories :
        /\ status[m] = "active" /\ m \notin lost /\ own = stored
        /\ Embed(m, text[m]) \in keys \ queue
        => \/ vector[m][own] = text[m]
           \/ \E v \in text[m]..version[m] : Embed(m, v) \in queue
=============================================================================
