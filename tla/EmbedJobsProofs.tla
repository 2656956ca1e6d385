----------------------------- MODULE EmbedJobsProofs -----------------------------
(***************************************************************************)
(* Theorems about EmbedJobs, for any memories, models, workers, versions   *)
(* and batches: any number of workers may run any jobs beside one another, *)
(* the same one too.                                                       *)
(***************************************************************************)
EXTENDS EmbedJobs, TLAPS

-----------------------------------------------------------------------------
(* Jobs. *)

LEMMA JobShape ==
  ASSUME NEW j \in Jobs \cup {NoJob}
  PROVE  /\ j.kind = "embed" => /\ j \in Jobs /\ j.memory \in Memories
                                /\ j.version \in 1..MaxVersion
                                /\ j = Embed(j.memory, j.version)
         /\ j.kind = "embed_backfill" => j \in Jobs /\ j.model \in Configured
         /\ j.kind = "prune" => j \in Jobs /\ j.model \in Configured
         /\ j = NoJob <=> j.kind = "none"
         /\ j \in Jobs <=> j # NoJob
  BY DEF Jobs, EmbedsOf, Fills, Prunes, NoJob, Embed

LEMMA EmbedShape ==
  ASSUME NEW m \in Memories, NEW v \in 1..MaxVersion
  PROVE  /\ Embed(m, v) \in Jobs /\ Embed(m, v) # NoJob /\ Embed(m, v).kind = "embed"
         /\ Embed(m, v).memory = m /\ Embed(m, v).version = v
  BY DEF Jobs, EmbedsOf, NoJob, Embed

LEMMA OtherShape ==
  ASSUME NEW k \in Configured
  PROVE  /\ Fill(k) \in Jobs /\ Fill(k).kind = "embed_backfill"
         /\ Prune(k) \in Jobs /\ Prune(k).kind = "prune"
  BY DEF Jobs, Fills, Prunes, Fill, Prune

LEMMA NoJobShape == NoJob.kind = "none"
  BY DEF NoJob

-----------------------------------------------------------------------------
(* Types. *)

LEMMA AskingType ==
  ASSUME TypeOK, NEW j \in Jobs, Asking(j)
  PROVE  queue' \subseteq Jobs /\ keys' \subseteq Jobs
  BY DEF Asking, TypeOK

LEMMA MissedType ==
  ASSUME TypeOK, UNCHANGED workers,
         NEW ms \in SUBSET Memories, NEW ks, Missed(ms, ks) \/ UNCHANGED arrived
  PROVE  /\ arrived' \in [Workers -> SUBSET Memories]
         /\ \A w \in Workers : job'[w] = NoJob => arrived'[w] = {}
<1>1. arrived \in [Workers -> SUBSET Memories]
      /\ \A w \in Workers : w \in Filling => job[w] # NoJob
  BY NoJobShape DEF TypeOK, Filling
<1>2. \A w \in Workers : job[w] = NoJob => arrived[w] = {}
  BY DEF TypeOK
<1>3. job' = job
  BY DEF workers
<1>4. CASE Missed(ms, ks)
  BY <1>1, <1>2, <1>3, <1>4 DEF Missed
<1> QED  BY <1>1, <1>2, <1>3, <1>4

LEMMA InitType == Init => TypeOK
<1> SUFFICES ASSUME Init PROVE TypeOK
  OBVIOUS
<1>1. /\ status \in [Memories -> {"none", "pending", "active", "retired", "purged"}]
      /\ version \in [Memories -> 0..MaxVersion] /\ text \in [Memories -> 0..MaxVersion]
      /\ vector \in [Memories -> [Models -> 0..MaxVersion]]
  BY EmbedConstants DEF Init, Nothing
<1>2. /\ stored \in Models \cup {NoModel} /\ previous \in Models \cup {NoModel}
      /\ aged \in BOOLEAN /\ own \in Models /\ queue \subseteq Jobs /\ keys \subseteq Jobs
      /\ lost \subseteq Memories
  BY EmbedConstants DEF Init
<1>3. /\ job \in [Workers -> Jobs \cup {NoJob}] /\ lease \in [Workers -> {"held", "expired", "lost"}]
      /\ step \in [Workers -> {"idle", "claimed", "embedding", "looking", "stamping", "doomed", "returned"}]
      /\ doomed \in [Workers -> SUBSET Models] /\ arrived \in [Workers -> SUBSET Memories]
  BY DEF Init
<1>4. batch \in [Workers -> [Memories -> 0..MaxVersion]]
  BY EmbedConstants DEF Init, Nothing
<1>5. \A w \in Workers : step[w] = "idle" /\ batch[w] = Nothing /\ doomed[w] = {} /\ arrived[w] = {}
  BY DEF Init
<1> QED  BY <1>1, <1>2, <1>3, <1>4, <1>5 DEF TypeOK

LEMMA WriteType == ASSUME TypeOK, NEW m \in Memories, Write(m) PROVE TypeOK'
<1> USE EmbedConstants
<1>1. /\ status \in [Memories -> {"none", "pending", "active", "retired", "purged"}]
      /\ version \in [Memories -> 0..MaxVersion] /\ text \in [Memories -> 0..MaxVersion]
      /\ vector \in [Memories -> [Models -> 0..MaxVersion]] /\ lost \subseteq Memories
  BY DEF TypeOK
<1>2. UNCHANGED <<meta, own, workers>>
  BY DEF Write, Add, Propose, Edit, Touch, Move, Purge
<1>3. version' \in [Memories -> 0..MaxVersion]
  BY <1>1 DEF Write, Add, Propose, Edit, Touch, Move, Purge, Bump
<1>4. text' \in [Memories -> 0..MaxVersion]
  BY <1>1 DEF Write, Add, Propose, Edit, Touch, Move, Purge, Bump, Rewritten
<1>5. status' \in [Memories -> {"none", "pending", "active", "retired", "purged"}]
  BY <1>1 DEF Write, Add, Propose, Edit, Touch, Move, Purge, Bump
<1>6. vector' \in [Memories -> [Models -> 0..MaxVersion]] /\ lost' \subseteq Memories
  BY <1>1 DEF Write, Add, Propose, Edit, Touch, Move, Purge
<1>7. queue' \subseteq Jobs /\ keys' \subseteq Jobs
  <2>1. CASE UNCHANGED <<queue, keys>>
    BY <2>1 DEF TypeOK
  <2>2. CASE Add(m)
    BY <2>2, EmbedShape, AskingType DEF Add
  <2>3. CASE Edit(m)
    <3>1. version[m] + 1 \in 1..MaxVersion
      BY <1>1, <2>3 DEF Edit, Bump
    <3> QED  BY <2>3, <3>1, EmbedShape, AskingType DEF Edit
  <2> QED  BY <2>1, <2>2, <2>3 DEF Write, Propose, Touch, Move, Purge
<1>8. /\ arrived' \in [Workers -> SUBSET Memories]
      /\ \A w \in Workers : job'[w] = NoJob => arrived'[w] = {}
  <2>1. UNCHANGED arrived \/ Missed({m}, Models)
    BY DEF Write, Add, Propose, Edit, Touch, Move, Purge, Bump
  <2> QED  BY <1>2, <2>1, MissedType
<1> QED  BY <1>1, <1>2, <1>3, <1>4, <1>5, <1>6, <1>7, <1>8 DEF TypeOK, meta, workers

(* A step of worker w, by what it sets. *)
LEMMA WorkerType ==
  ASSUME TypeOK, NEW w \in Workers, UNCHANGED <<memories, own>>,
         vector' \in [Memories -> [Models -> 0..MaxVersion]],
         stored' \in Models \cup {NoModel}, previous' \in Models \cup {NoModel},
         aged' \in BOOLEAN, queue' \subseteq Jobs, keys' \subseteq Jobs, lost' \subseteq Memories,
         job' \in [Workers -> Jobs \cup {NoJob}],
         lease' \in [Workers -> {"held", "expired", "lost"}],
         arrived' \in [Workers -> SUBSET Memories],
         NEW s \in {"idle", "claimed", "embedding", "looking", "stamping", "doomed", "returned"},
         Goes(w, s),
         NEW b \in [Memories -> 0..MaxVersion], batch' = [batch EXCEPT ![w] = b],
         NEW d \in SUBSET Models, doomed' = [doomed EXCEPT ![w] = d],
         job'[w] = NoJob => s = "idle" /\ b = Nothing /\ d = {} /\ arrived'[w] = {},
         \A v \in Workers \ {w} : job'[v] = job[v] /\ (job[v] = NoJob => arrived'[v] = {})
  PROVE  TypeOK'
<1>1. /\ step' \in [Workers -> {"idle", "claimed", "embedding", "looking", "stamping", "doomed", "returned"}]
      /\ batch' \in [Workers -> [Memories -> 0..MaxVersion]]
      /\ doomed' \in [Workers -> SUBSET Models]
  BY DEF TypeOK, Goes
<1>2. \A v \in Workers : job'[v] = NoJob =>
           step'[v] = "idle" /\ batch'[v] = Nothing' /\ doomed'[v] = {} /\ arrived'[v] = {}
  BY DEF TypeOK, Goes, Nothing
<1> QED  BY <1>1, <1>2 DEF TypeOK, memories

LEMMA HandlerType ==
  ASSUME TypeOK, NEW w \in Workers,
         EmbedSkip(w) \/ EmbedRead(w) \/ EmbedWrite(w) \/ FillWithoutBackend(w) \/ FillRead(w)
         \/ FillWrite(w) \/ Stamp(w) \/ PruneRead(w) \/ PruneWrite(w)
  PROVE  TypeOK'
<1> DEFINE j == job[w]
<1>1. /\ j \in Jobs \cup {NoJob} /\ own \in Models /\ Configured \subseteq Models
      /\ text \in [Memories -> 0..MaxVersion] /\ vector \in [Memories -> [Models -> 0..MaxVersion]]
      /\ batch \in [Workers -> [Memories -> 0..MaxVersion]] /\ doomed \in [Workers -> SUBSET Models]
      /\ batch[w] \in [Memories -> 0..MaxVersion] /\ Nothing \in [Memories -> 0..MaxVersion]
      /\ lost \subseteq Memories /\ arrived \in [Workers -> SUBSET Memories]
      /\ lease \in [Workers -> {"held", "expired", "lost"}]
  BY EmbedConstants DEF TypeOK, Nothing
<1>2. j # NoJob /\ UNCHANGED <<memories, own, job>>
  BY NoJobShape DEF EmbedSkip, EmbedRead, EmbedWrite, FillWithoutBackend, FillRead, FillWrite,
                    Stamp, PruneRead, PruneWrite, At
<1>3. PICK s \in {"idle", "claimed", "embedding", "looking", "stamping", "doomed", "returned"} :
         Goes(w, s)
  BY DEF EmbedSkip, EmbedRead, EmbedWrite, FillWithoutBackend, FillRead, FillWrite,
         Stamp, PruneRead, PruneWrite
<1>4. \A v \in Workers : job[v] = NoJob => arrived'[v] = {}
  <2>1. \A v \in Workers : job[v] = NoJob => arrived[v] = {} /\ v # w /\ v \notin Filling
    BY <1>2, NoJobShape DEF TypeOK, Filling
  <2>2. CASE UNCHANGED arrived
    BY <2>1, <2>2
  <2>3. CASE FillRead(w)
    BY <1>1, <2>1, <2>3 DEF FillRead
  <2>4. CASE PruneWrite(w)
    BY <1>1, <2>1, <2>4 DEF PruneWrite, Missed
  <2> QED  BY <2>2, <2>3, <2>4 DEF EmbedSkip, EmbedRead, EmbedWrite, FillWithoutBackend,
                                   FillWrite, Stamp, PruneRead
<1>5. arrived' \in [Workers -> SUBSET Memories]
  <2>1. CASE UNCHANGED arrived
    BY <1>1, <2>1
  <2>2. CASE FillRead(w)
    BY <1>1, <2>2 DEF FillRead
  <2>3. CASE PruneWrite(w)
    BY <1>1, <2>3 DEF PruneWrite, Missed
  <2> QED  BY <2>1, <2>2, <2>3 DEF EmbedSkip, EmbedRead, EmbedWrite, FillWithoutBackend,
                                   FillWrite, Stamp, PruneRead
<1>6. PICK b \in [Memories -> 0..MaxVersion] : batch' = [batch EXCEPT ![w] = b]
  <2>1. CASE UNCHANGED batch
    BY <1>1, <2>1
  <2>2. CASE EmbedRead(w)
    <3>1. j.memory \in Memories
      BY <1>1, <2>2, JobShape DEF EmbedRead, At
    <3>2. batch' = [batch EXCEPT ![w] = [batch[w] EXCEPT ![j.memory] = text[j.memory]]]
      BY <1>1, <2>2 DEF EmbedRead
    <3> QED  BY <1>1, <3>1, <3>2
  <2>3. CASE FillRead(w)
    <3>1. CASE UNCHANGED batch
      BY <1>1, <3>1
    <3>2. CASE ~UNCHANGED batch
      <4>1. PICK B \in SUBSET Memories :
               batch' = [batch EXCEPT ![w] = [m \in Memories |-> IF m \in B THEN text[m] ELSE 0]]
        BY <2>3, <3>2 DEF FillRead, Missing
      <4>2. [m \in Memories |-> IF m \in B THEN text[m] ELSE 0] \in [Memories -> 0..MaxVersion]
        BY <1>1, EmbedConstants
      <4> QED  BY <4>1, <4>2
    <3> QED  BY <3>1, <3>2
  <2>4. CASE FillWrite(w)
    BY <1>1, <2>4 DEF FillWrite
  <2> QED  BY <2>1, <2>2, <2>3, <2>4 DEF EmbedSkip, EmbedWrite, FillWithoutBackend, Stamp,
                                         PruneRead, PruneWrite
<1>7. PICK d \in SUBSET Models : doomed' = [doomed EXCEPT ![w] = d]
  <2>1. CASE UNCHANGED doomed
    BY <1>1, <2>1
  <2>2. CASE PruneRead(w) /\ ~UNCHANGED doomed
    BY <2>2 DEF PruneRead
  <2> QED  BY <2>1, <2>2 DEF EmbedSkip, EmbedRead, EmbedWrite, FillWithoutBackend, FillRead,
                             FillWrite, Stamp, PruneWrite
<1>8. vector' \in [Memories -> [Models -> 0..MaxVersion]]
  <2>1. CASE UNCHANGED vector
    BY <1>1, <2>1
  <2>2. CASE EmbedWrite(w)
    <3>1. j.memory \in Memories
      BY <1>1, <2>2, JobShape DEF EmbedWrite, At
    <3>2. batch[w][j.memory] \in 0..MaxVersion /\ vector[j.memory] \in [Models -> 0..MaxVersion]
      BY <1>1, <3>1
    <3>3. PICK row \in [Models -> 0..MaxVersion] :
             vector' = vector \/ vector' = [vector EXCEPT ![j.memory] = row]
      <4>1. [vector[j.memory] EXCEPT ![own] = batch[w][j.memory]] \in [Models -> 0..MaxVersion]
        BY <1>1, <3>2
      <4>2. \/ vector' = vector
            \/ vector' = [vector EXCEPT ![j.memory] =
                             [vector[j.memory] EXCEPT ![own] = batch[w][j.memory]]]
        BY <1>1, <2>2, <3>1 DEF EmbedWrite
      <4> QED  BY <4>1, <4>2
    <3> QED  BY <1>1, <3>1, <3>3
  <2>3. CASE FillWrite(w)
    BY <1>1, <2>3 DEF FillWrite
  <2>4. CASE PruneWrite(w)
    BY <1>1, <2>4, EmbedConstants DEF PruneWrite
  <2> QED  BY <2>1, <2>2, <2>3, <2>4 DEF EmbedSkip, EmbedRead, FillWithoutBackend, FillRead,
                                         Stamp, PruneRead
<1>9. /\ lost' \subseteq Memories /\ lease' \in [Workers -> {"held", "expired", "lost"}]
  <2>1. CASE EmbedSkip(w)
    <3>1. j.memory \in Memories
      BY <1>1, <2>1, JobShape DEF EmbedSkip, At
    <3> QED  BY <1>1, <2>1, <3>1 DEF EmbedSkip
  <2> QED  BY <1>1, <2>1 DEF EmbedRead, EmbedWrite, FillWithoutBackend, FillRead, FillWrite,
                             Stamp, PruneRead, PruneWrite
<1>10. /\ stored' \in Models \cup {NoModel} /\ previous' \in Models \cup {NoModel}
       /\ aged' \in BOOLEAN /\ queue' \subseteq Jobs /\ keys' \subseteq Jobs
  <2>1. CASE Stamp(w)
    <3>1. j.model \in Configured
      BY <1>1, <2>1, JobShape DEF Stamp, At
    <3>2. queue' \subseteq Jobs /\ keys' \subseteq Jobs
      BY <2>1, <3>1, AskingType, OtherShape DEF Stamp, TypeOK
    <3> QED  BY <1>1, <2>1, <3>1, <3>2 DEF Stamp, TypeOK
  <2>2. CASE ~Stamp(w)
    <3>1. UNCHANGED <<meta, queue, keys>>
      BY <2>2 DEF EmbedSkip, EmbedRead, EmbedWrite, FillWithoutBackend, FillRead, FillWrite,
                  PruneRead, PruneWrite
    <3> QED  BY <3>1 DEF TypeOK, meta
  <2> QED  BY <2>1, <2>2
<1>11. job' \in [Workers -> Jobs \cup {NoJob}] /\ job'[w] # NoJob
       /\ \A v \in Workers \ {w} : job'[v] = job[v] /\ (job[v] = NoJob => arrived'[v] = {})
  BY <1>2, <1>4 DEF TypeOK
<1> QED  BY <1>2, <1>3, <1>5, <1>6, <1>7, <1>8, <1>9, <1>10, <1>11, WorkerType

LEMMA QueueType ==
  ASSUME TypeOK, NEW w \in Workers,
         (\E j \in queue : Claim(w, j)) \/ Report(w) \/ Crash(w) \/ Expire(w)
  PROVE  TypeOK'
<1>1. CASE \E j \in queue : Claim(w, j)
  <2>1. PICK j \in queue : Claim(w, j)
    BY <1>1
  <2>2. j \in Jobs /\ j # NoJob /\ Jobs \subseteq Jobs \cup {NoJob}
    <3>1. j \in Jobs
      BY DEF TypeOK
    <3> QED  BY <3>1, JobShape
  <2>3. job' \in [Workers -> Jobs \cup {NoJob}] /\ job'[w] = j
        /\ \A v \in Workers \ {w} : job'[v] = job[v]
    BY <2>1, <2>2 DEF Claim, TypeOK
  <2>4. lease' \in [Workers -> {"held", "expired", "lost"}]
    BY <2>1 DEF Claim, TypeOK
  <2>5. step' \in [Workers -> {"idle", "claimed", "embedding", "looking", "stamping", "doomed", "returned"}]
        /\ \A v \in Workers \ {w} : step'[v] = step[v]
    BY <2>1 DEF Claim, TypeOK
  <2> QED  BY <2>1, <2>2, <2>3, <2>4, <2>5 DEF Claim, TypeOK, memories, meta, Nothing
<1>2. CASE Report(w) \/ Crash(w)
  <2>1. Freed(w) /\ UNCHANGED <<memories, vector, meta, own, keys, lost>> /\ queue' \subseteq queue
    BY <1>2 DEF Report, Crash
  <2>2. /\ job' \in [Workers -> Jobs \cup {NoJob}] /\ job'[w] = NoJob
        /\ lease' \in [Workers -> {"held", "expired", "lost"}]
        /\ arrived' \in [Workers -> SUBSET Memories] /\ arrived'[w] = {}
        /\ \A v \in Workers \ {w} : job'[v] = job[v] /\ arrived'[v] = arrived[v]
    BY <2>1 DEF Freed, TypeOK
  <2>3. /\ Goes(w, "idle") /\ batch' = [batch EXCEPT ![w] = Nothing]
        /\ doomed' = [doomed EXCEPT ![w] = {}] /\ Nothing \in [Memories -> 0..MaxVersion]
    BY <2>1, EmbedConstants DEF Freed, Goes, Nothing
  <2>4. /\ vector' \in [Memories -> [Models -> 0..MaxVersion]]
        /\ stored' \in Models \cup {NoModel} /\ previous' \in Models \cup {NoModel}
        /\ aged' \in BOOLEAN /\ queue' \subseteq Jobs /\ keys' \subseteq Jobs /\ lost' \subseteq Memories
        /\ UNCHANGED <<memories, own>>
    BY <2>1 DEF TypeOK, meta
  <2>5. \A v \in Workers \ {w} : job'[v] = job[v] /\ (job[v] = NoJob => arrived'[v] = {})
    BY <2>2 DEF TypeOK
  <2> QED  BY <2>2, <2>3, <2>4, <2>5, WorkerType
<1>3. CASE Expire(w)
  BY <1>3 DEF Expire, TypeOK, memories, meta, Nothing
<1> QED  BY <1>1, <1>2, <1>3

LEMMA NextType == TypeOK /\ [Next]_vars => TypeOK'
<1> SUFFICES ASSUME TypeOK, [Next]_vars PROVE TypeOK'
  OBVIOUS
<1>1. CASE \E m \in Memories : Write(m)
  BY <1>1, WriteType
<1>2. CASE \E k \in Configured : Ensure(k)
  <2>1. queue' \subseteq Jobs /\ keys' \subseteq Jobs
    BY <1>2, OtherShape, AskingType DEF Ensure
  <2> QED  BY <1>2, <2>1 DEF Ensure, TypeOK, memories, meta, workers, Nothing
<1>3. CASE Age \/ UNCHANGED vars
  BY <1>3 DEF Age, vars, TypeOK, memories, meta, workers, Nothing
<1>4. CASE \E w \in Workers : Work(w) \/ Expire(w) \/ Crash(w)
  BY <1>4, HandlerType, QueueType DEF Work
<1> QED  BY <1>1, <1>2, <1>3, <1>4 DEF Next

-----------------------------------------------------------------------------
(* The invariant. *)

(* A live or retired row has a text, of a version it had. *)
RowsFilled ==
    \A m \in Memories :
        IF status[m] \in {"none", "purged"}
        THEN version[m] = 0 /\ text[m] = 0
        ELSE 0 < text[m] /\ text[m] <= version[m]

(* No vector, and nothing a worker has read, is of a text still to come; a  *)
(* purge alone may leave a worker with the text of what is gone. *)
VectorsBelow ==
    \A m \in Memories, k \in Models :
        vector[m][k] # 0 =>
            status[m] # "none" /\ (status[m] = "purged" \/ vector[m][k] <= text[m])

(* No job was ever asked for a version that is still to come, so the job of *)
(* a new text is never taken for an old one. *)
KeysBelow ==
    /\ queue \subseteq keys
    /\ \A m \in Memories, v \in 1..MaxVersion :
           Embed(m, v) \in keys =>
               status[m] # "none" /\ (status[m] = "purged" \/ v <= version[m])

ReadBelow(w) ==
    \A m \in Memories :
        batch[w][m] # 0 =>
            status[m] # "none" /\ (status[m] = "purged" \/ batch[w][m] <= text[m])

(* What an embed job has read is the text, if the version has not moved. *)
ReadExact(w) ==
    At(w, "embed", "embedding") =>
        LET m == job[w].memory IN
            batch[w][m] # 0 /\ (Outdated(w) \/ batch[w][m] = text[m])

(* An embed job that has returned has left nothing to do. *)
Ended(w) ==
    At(w, "embed", "returned") =>
        LET m == job[w].memory IN
            \/ status[m] # "active" \/ Outdated(w) \/ version[m] # text[m] \/ m \in lost
            \/ vector[m][own] = text[m]

(* A backfill that goes to record its model has found no gap. *)
FilledUp(w) ==
    At(w, "embed_backfill", "stamping") =>
        \A m \in Memories \ arrived[w] : status[m] = "active" => vector[m][job[w].model] # 0

HandlerOK(w) ==
    (job[w] = NoJob \/ job[w] \in keys) /\ ReadBelow(w) /\ ReadExact(w) /\ Ended(w) /\ FilledUp(w)

(* A prune that looked after the last switch has spared its two models. *)
DoomedOld ==
    aged => \A w \in Workers : doomed[w] \cap {stored, previous} = {}

IInv ==
    /\ TypeOK /\ RowsFilled /\ VectorsBelow /\ KeysBelow /\ DoomedOld /\ CurrentOrAsked
    /\ \A w \in Workers : HandlerOK(w)

LEMMA InitInv == Init => IInv
<1> SUFFICES ASSUME Init PROVE IInv
  OBVIOUS
<1>1. TypeOK
  BY InitType
<1>2. RowsFilled /\ VectorsBelow /\ KeysBelow /\ DoomedOld /\ CurrentOrAsked
  BY DEF Init, Nothing, RowsFilled, VectorsBelow, KeysBelow, DoomedOld, CurrentOrAsked
<1>3. \A w \in Workers : HandlerOK(w)
  BY NoJobShape DEF Init, Nothing, HandlerOK, ReadBelow, ReadExact, Ended, FilledUp, At
<1> QED  BY <1>1, <1>2, <1>3 DEF IInv

-----------------------------------------------------------------------------
(* The writers.  All but a purge move a row to its next version.            *)

Moved(m) ==
    /\ status[m] # "purged" /\ status'[m] \notin {"none", "purged"}
    /\ version'[m] = version[m] + 1
    /\ \/ text'[m] = text[m] /\ status[m] # "none" /\ (version'[m] = text'[m] => FALSE)
          /\ UNCHANGED <<queue, keys, lost>>
       \/ text'[m] = version[m] + 1 /\ status'[m] # "active" /\ UNCHANGED <<queue, keys, lost>>
       \/ /\ text'[m] = version[m] + 1
          /\ Asking(Embed(m, version[m] + 1)) /\ lost' \in {lost, lost \ {m}}
    /\ status[m] # "active" /\ status'[m] = "active" =>
           \A w \in Filling : m \in arrived'[w]
    /\ \A w \in Workers : arrived[w] \subseteq arrived'[w]
    /\ \A n \in Memories \ {m} :
           status'[n] = status[n] /\ version'[n] = version[n] /\ text'[n] = text[n]
    /\ UNCHANGED <<vector, meta, own, workers>>

LEMMA WriteMoves ==
  ASSUME IInv, NEW m \in Memories, Write(m), ~Purge(m)
  PROVE  Moved(m) /\ version[m] + 1 \in 1..MaxVersion
<1>1. /\ status \in [Memories -> {"none", "pending", "active", "retired", "purged"}]
      /\ version \in [Memories -> 0..MaxVersion] /\ text \in [Memories -> 0..MaxVersion]
      /\ arrived \in [Workers -> SUBSET Memories] /\ MaxVersion \in Nat
      /\ \A w \in Filling : w \in Workers /\ job[w].model \in Models
  <2>1. \A w \in Workers : job[w] \in Jobs \cup {NoJob}
    BY DEF IInv, TypeOK
  <2> QED  BY <2>1, JobShape, EmbedConstants DEF IInv, TypeOK, Filling
<1>2. IF status[m] \in {"none", "purged"}
      THEN version[m] = 0 /\ text[m] = 0
      ELSE 0 < text[m] /\ text[m] <= version[m]
  BY DEF IInv, RowsFilled
<1>3. PICK st \in {"pending", "active", "retired"} : Bump(m, st) /\ status[m] # "purged"
  BY <1>1 DEF Write, Add, Propose, Edit, Touch, Move, Live
<1>4. /\ status[m] # "active" /\ st = "active" => \A w \in Filling : m \in arrived'[w]
      /\ \A w \in Workers : arrived[w] \subseteq arrived'[w]
  BY <1>1, <1>3 DEF Bump, Missed
<1>5. /\ version'[m] = version[m] + 1 /\ status'[m] = st /\ version[m] < MaxVersion
      /\ \A n \in Memories \ {m} : status'[n] = status[n] /\ version'[n] = version[n]
  BY <1>1, <1>3 DEF Bump
<1>6. /\ UNCHANGED <<vector, meta, own, workers>>
      /\ \A n \in Memories \ {m} : text'[n] = text[n]
  BY <1>1 DEF Write, Add, Propose, Edit, Touch, Move, Rewritten
<1>7. \/ text'[m] = text[m] /\ status[m] # "none" /\ (version'[m] = text'[m] => FALSE)
         /\ UNCHANGED <<queue, keys, lost>>
      \/ text'[m] = version[m] + 1 /\ status'[m] # "active" /\ UNCHANGED <<queue, keys, lost>>
      \/ /\ text'[m] = version[m] + 1
         /\ Asking(Embed(m, version[m] + 1)) /\ lost' \in {lost, lost \ {m}}
  <2>1. CASE Add(m)
    BY <1>1, <1>2, <2>1 DEF Add, Rewritten
  <2>2. CASE Propose(m)
    BY <1>1, <2>2 DEF Propose, Rewritten, Bump
  <2>3. CASE Edit(m)
    BY <1>1, <2>3 DEF Edit, Rewritten
  <2>4. CASE Touch(m)
    BY <1>1, <1>2, <1>5, <2>4 DEF Touch, Live
  <2>5. CASE \E a, b : a # "none" /\ Move(m, a, b)
    BY <1>1, <1>2, <1>3, <1>5, <2>5 DEF Move
  <2> QED  BY <2>1, <2>2, <2>3, <2>4, <2>5 DEF Write
<1> QED  BY <1>1, <1>3, <1>4, <1>5, <1>6, <1>7 DEF Moved

LEMMA MovedInv ==
  ASSUME IInv, NEW m \in Memories, Moved(m), version[m] + 1 \in 1..MaxVersion, TypeOK'
  PROVE  IInv'
<1> DEFINE e == Embed(m, version[m] + 1)
<1>1. /\ version \in [Memories -> 0..MaxVersion] /\ text \in [Memories -> 0..MaxVersion]
      /\ vector \in [Memories -> [Models -> 0..MaxVersion]] /\ MaxVersion \in Nat
      /\ batch \in [Workers -> [Memories -> 0..MaxVersion]] /\ own \in Models
      /\ \A w \in Workers : job[w] \in Jobs \cup {NoJob}
  BY EmbedConstants DEF IInv, TypeOK
<1>2. \A n \in Memories :
         IF status[n] \in {"none", "purged"}
         THEN version[n] = 0 /\ text[n] = 0
         ELSE 0 < text[n] /\ text[n] <= version[n]
  BY DEF IInv, RowsFilled
<1>3. UNCHANGED <<vector, stored, previous, aged, own, job, lease, step, batch, doomed>>
  BY DEF Moved, meta, workers
<1>4. \A n \in Memories \ {m} :
         status'[n] = status[n] /\ version'[n] = version[n] /\ text'[n] = text[n]
  BY DEF Moved
<1>5. /\ status[m] # "purged" /\ status'[m] \notin {"none", "purged"}
      /\ version'[m] = version[m] + 1 /\ text'[m] \in {text[m], version[m] + 1}
      /\ status[m] = "none" => text'[m] = version[m] + 1
  BY DEF Moved
<1>6. keys \subseteq keys' /\ queue \subseteq queue' /\ keys' \subseteq keys \cup {e}
      /\ queue' \subseteq queue \cup {e} /\ (queue' = queue \/ e \in keys')
      /\ (e \notin keys /\ keys' # keys => e \in queue')
  BY DEF Moved, Asking
<1>7. RowsFilled'
  BY <1>1, <1>2, <1>4, <1>5 DEF RowsFilled
<1>8. VectorsBelow'
  <2> SUFFICES ASSUME NEW n \in Memories, NEW k \in Models, vector[n][k] # 0
               PROVE  status'[n] # "none" /\ (status'[n] = "purged" \/ vector[n][k] <= text'[n])
    BY <1>3 DEF VectorsBelow
  <2>1. status[n] # "none" /\ (status[n] = "purged" \/ vector[n][k] <= text[n])
    BY DEF IInv, VectorsBelow
  <2>2. vector[n][k] \in Nat
    BY <1>1
  <2> QED  BY <1>1, <1>2, <1>4, <1>5, <2>1, <2>2
<1>9. KeysBelow'
  <2>1. queue' \subseteq keys'
    BY <1>6 DEF IInv, KeysBelow
  <2>2. ASSUME NEW n \in Memories, NEW v \in 1..MaxVersion, Embed(n, v) \in keys'
        PROVE  status'[n] # "none" /\ (status'[n] = "purged" \/ v <= version'[n])
    <3>1. CASE Embed(n, v) \in keys
      <4>1. status[n] # "none" /\ (status[n] = "purged" \/ v <= version[n])
        BY <3>1 DEF IInv, KeysBelow
      <4> QED  BY <1>1, <1>4, <1>5, <4>1
    <3>2. CASE Embed(n, v) = e
      <4>1. n = m /\ v = version[m] + 1
        BY <3>2, EmbedShape
      <4> QED  BY <1>1, <1>5, <4>1
    <3> QED  BY <1>6, <2>2, <3>1, <3>2
  <2> QED  BY <2>1, <2>2 DEF KeysBelow
<1>10. DoomedOld'
  BY <1>3 DEF IInv, DoomedOld
<1>11. CurrentOrAsked'
  <2> SUFFICES ASSUME NEW n \in Memories \ lost', status'[n] = "active", version'[n] = text'[n]
               PROVE  vector'[n][own'] = text'[n] \/ Embed(n, text'[n]) \in queue'
    BY DEF CurrentOrAsked, Embed
  <2>1. CASE n = m
    <3>1. Asking(e) /\ text'[m] = version[m] + 1
      BY <2>1 DEF Moved
    <3>2. e \notin keys
      <4>1. e \in keys => status[m] # "none" /\ (status[m] = "purged" \/ version[m] + 1 <= version[m])
        BY DEF IInv, KeysBelow
      <4> QED  BY <1>1, <1>2, <1>5, <4>1
    <3>3. e \in queue'
      BY <3>1, <3>2 DEF Asking
    <3> QED  BY <2>1, <3>1, <3>3
  <2>2. CASE n # m
    <3>1. n \in Memories \ lost
      BY <2>2 DEF Moved
    <3>2. vector[n][own] = text[n] \/ Embed(n, text[n]) \in queue
      BY <1>4, <2>2, <3>1 DEF IInv, CurrentOrAsked
    <3> QED  BY <1>3, <1>4, <1>6, <2>2, <3>2
  <2> QED  BY <2>1, <2>2
<1>12. ASSUME NEW w \in Workers PROVE HandlerOK(w)'
  <2> DEFINE n == job[w].memory
  <2>1. HandlerOK(w)
    BY DEF IInv
  <2>2. job'[w] = NoJob \/ job'[w] \in keys'
    BY <1>3, <1>6, <2>1 DEF HandlerOK
  <2>3. ReadBelow(w)'
    <3> SUFFICES ASSUME NEW q \in Memories, batch[w][q] # 0
                 PROVE  status'[q] # "none" /\ (status'[q] = "purged" \/ batch[w][q] <= text'[q])
      BY <1>3 DEF ReadBelow
    <3>1. status[q] # "none" /\ (status[q] = "purged" \/ batch[w][q] <= text[q])
      BY <2>1 DEF HandlerOK, ReadBelow
    <3>2. batch[w][q] \in Nat
      BY <1>1
    <3> QED  BY <1>1, <1>2, <1>4, <1>5, <3>1, <3>2
  <2>4. job[w].kind = "embed" =>
          /\ n \in Memories /\ job[w].version \in 1..MaxVersion
          /\ status[n] # "none" /\ (status[n] = "purged" \/ job[w].version <= version[n])
    BY <1>1, <2>1, JobShape DEF HandlerOK, IInv, KeysBelow
  <2>5. job[w].kind = "embed" => (n = m => Outdated(w)') /\ (n # m => Outdated(w)' = Outdated(w))
    BY <1>1, <1>3, <1>4, <1>5, <2>4 DEF Outdated
  <2>6. ReadExact(w)'
    BY <1>3, <1>4, <2>1, <2>4, <2>5 DEF HandlerOK, ReadExact, At
  <2>7. Ended(w)'
    <3>1. \A q \in Memories \ {m} : q \in lost => q \in lost'
      BY DEF Moved
    <3> QED  BY <1>3, <1>4, <2>1, <2>4, <2>5, <3>1 DEF HandlerOK, Ended, At
  <2>8. FilledUp(w)'
    <3> SUFFICES ASSUME At(w, "embed_backfill", "stamping"),
                        NEW q \in Memories, q \notin arrived'[w], status'[q] = "active"
                 PROVE  vector[q][job[w].model] # 0
      BY <1>3 DEF FilledUp, At
    <3>1. w \in Filling /\ q \notin arrived[w]
      BY DEF Moved, Filling, At
    <3>2. status[q] = "active"
      BY <1>4, <3>1 DEF Moved
    <3> QED  BY <2>1, <3>1, <3>2 DEF HandlerOK, FilledUp
  <2> QED  BY <2>2, <2>3, <2>6, <2>7, <2>8 DEF HandlerOK
<1> QED  BY <1>7, <1>8, <1>9, <1>10, <1>11, <1>12 DEF IInv

LEMMA PurgeInv ==
  ASSUME IInv, NEW m \in Memories, Purge(m), TypeOK'
  PROVE  IInv'
<1>1. /\ version \in [Memories -> 0..MaxVersion] /\ text \in [Memories -> 0..MaxVersion]
      /\ status \in [Memories -> {"none", "pending", "active", "retired", "purged"}]
      /\ vector \in [Memories -> [Models -> 0..MaxVersion]]
      /\ \A w \in Workers : job[w] \in Jobs \cup {NoJob}
  BY DEF IInv, TypeOK
<1>2. UNCHANGED <<stored, previous, aged, own, queue, keys, job, lease, step, batch, doomed,
                  lost, arrived>>
  BY DEF Purge, meta, workers
<1>3. /\ status[m] \notin {"none", "purged"} /\ status'[m] = "purged"
      /\ version'[m] = 0 /\ text'[m] = 0 /\ \A k \in Models : vector'[m][k] = 0
      /\ \A n \in Memories \ {m} : /\ status'[n] = status[n] /\ version'[n] = version[n]
                                    /\ text'[n] = text[n] /\ vector'[n] = vector[n]
  BY <1>1 DEF Purge
<1>4. RowsFilled' /\ VectorsBelow'
  BY <1>3 DEF IInv, RowsFilled, VectorsBelow
<1>5. KeysBelow' /\ DoomedOld'
  <2>1. ASSUME NEW n \in Memories, NEW v \in 1..MaxVersion, Embed(n, v) \in keys
        PROVE  status'[n] # "none" /\ (status'[n] = "purged" \/ v <= version'[n])
    BY <1>3, <2>1 DEF IInv, KeysBelow
  <2> QED  BY <1>2, <2>1 DEF IInv, KeysBelow, DoomedOld, Embed
<1>6. CurrentOrAsked'
  <2> SUFFICES ASSUME NEW n \in Memories \ lost, status'[n] = "active", version'[n] = text'[n]
               PROVE  vector'[n][own] = text'[n] \/ Embed(n, text'[n]) \in queue
    BY <1>2 DEF CurrentOrAsked, Embed
  <2>1. n # m
    BY <1>3
  <2> QED  BY <1>3, <2>1 DEF IInv, CurrentOrAsked
<1>7. ASSUME NEW w \in Workers PROVE HandlerOK(w)'
  <2>1. HandlerOK(w) /\ (job[w].kind = "embed" => job[w].memory \in Memories /\ job[w].version # 0)
    <3>1. job[w].kind = "embed" => job[w].memory \in Memories /\ job[w].version \in 1..MaxVersion
      BY <1>1, JobShape
    <3> QED  BY <3>1, EmbedConstants DEF IInv
  <2>2. ReadBelow(w)'
    BY <1>2, <1>3, <2>1 DEF HandlerOK, ReadBelow
  <2>3. ReadExact(w)' /\ Ended(w)'
    BY <1>2, <1>3, <2>1 DEF HandlerOK, ReadExact, Ended, Outdated, At
  <2>4. FilledUp(w)'
    BY <1>2, <1>3, <2>1 DEF HandlerOK, FilledUp, At
  <2> QED  BY <1>2, <2>1, <2>2, <2>3, <2>4 DEF HandlerOK
<1> QED  BY <1>4, <1>5, <1>6, <1>7 DEF IInv

-----------------------------------------------------------------------------
(* The workers.  A step of w keeps the invariant if it leaves w in order,   *)
(* and does to the vectors, the queue and the others' records no more than  *)
(* this. *)

LEMMA StepInv ==
  ASSUME IInv, TypeOK', NEW w \in Workers, UNCHANGED <<memories, own>>,
         HandlerOK(w)',
         queue' \subseteq keys', keys \subseteq keys',
         \A m \in Memories, v \in 1..MaxVersion : Embed(m, v) \in keys' => Embed(m, v) \in keys,
         \A v \in Workers \ {w} : /\ job'[v] = job[v] /\ step'[v] = step[v] /\ batch'[v] = batch[v]
                                  /\ arrived[v] \subseteq arrived'[v],
         \A m \in Memories, k \in Models : vector'[m][k] \in {vector[m][k], 0, batch[w][m]},
         \A m \in Memories \ lost' :
             vector'[m][own] = text[m] \/ (m \notin lost /\ vector'[m][own] = vector[m][own]),
         \A v \in Filling \ {w} : \A m \in Memories \ arrived'[v] :
             vector'[m][job[v].model] = 0 => vector[m][job[v].model] = 0,
         \A m \in Memories \ lost' :
             Embed(m, text[m]) \in queue \ queue' =>
                 status[m] # "active" \/ version[m] # text[m] \/ vector'[m][own] = text[m],
         DoomedOld'
  PROVE  IInv'
<1>1. UNCHANGED <<status, version, text, own>>
  BY DEF memories
<1>2. RowsFilled' /\ VectorsBelow'
  <2>1. RowsFilled'
    BY <1>1 DEF IInv, RowsFilled
  <2>2. ASSUME NEW m \in Memories, NEW k \in Models, vector'[m][k] # 0
        PROVE  status[m] # "none" /\ (status[m] = "purged" \/ vector'[m][k] <= text[m])
    <3>1. CASE vector'[m][k] = vector[m][k]
      BY <2>2, <3>1 DEF IInv, VectorsBelow
    <3>2. CASE vector'[m][k] = batch[w][m]
      BY <2>2, <3>2 DEF IInv, HandlerOK, ReadBelow
    <3> QED  BY <2>2, <3>1, <3>2
  <2> QED  BY <1>1, <2>1, <2>2 DEF VectorsBelow
<1>3. KeysBelow'
  BY <1>1 DEF IInv, KeysBelow, Embed
<1>4. CurrentOrAsked'
  <2> SUFFICES ASSUME NEW m \in Memories \ lost', status[m] = "active", version[m] = text[m],
                      vector'[m][own] # text[m]
               PROVE  Embed(m, text[m]) \in queue'
    BY <1>1 DEF CurrentOrAsked, Embed
  <2>1. m \in Memories \ lost /\ vector[m][own] # text[m]
    OBVIOUS
  <2>2. Embed(m, text[m]) \in queue
    BY <2>1 DEF IInv, CurrentOrAsked
  <2> QED  BY <2>2
<1>5. ASSUME NEW v \in Workers \ {w} PROVE HandlerOK(v)'
  <2>1. /\ HandlerOK(v) /\ job'[v] = job[v] /\ step'[v] = step[v] /\ batch'[v] = batch[v]
        /\ job[v].kind = "embed" => job[v].memory \in Memories
    <3>1. job[v] \in Jobs \cup {NoJob}
      BY DEF IInv, TypeOK
    <3> QED  BY <3>1, JobShape DEF IInv
  <2>2. ReadBelow(v)' /\ ReadExact(v)'
    BY <1>1, <2>1 DEF HandlerOK, ReadBelow, ReadExact, Outdated, At
  <2>3. Ended(v)'
    <3> SUFFICES ASSUME At(v, "embed", "returned"), job[v].memory \notin lost',
                        status[job[v].memory] = "active", ~Outdated(v),
                        version[job[v].memory] = text[job[v].memory]
                 PROVE  vector'[job[v].memory][own] = text[job[v].memory]
      BY <1>1, <2>1 DEF Ended, Outdated, At
    <3>1. job[v].memory \in Memories \ lost'
      BY <2>1 DEF At
    <3>2. job[v].memory \notin lost => vector[job[v].memory][own] = text[job[v].memory]
      BY <2>1 DEF HandlerOK, Ended
    <3> QED  BY <3>1, <3>2
  <2>4. FilledUp(v)'
    <3> SUFFICES ASSUME At(v, "embed_backfill", "stamping"),
                        NEW m \in Memories \ arrived'[v], status[m] = "active"
                 PROVE  vector'[m][job[v].model] # 0
      BY <1>1, <2>1 DEF FilledUp, At
    <3>1. v \in Filling \ {w} /\ m \in Memories \ arrived[v]
      BY DEF Filling, At
    <3>2. vector[m][job[v].model] # 0
      BY <2>1, <3>1 DEF HandlerOK, FilledUp
    <3> QED  BY <3>1, <3>2
  <2> QED  BY <2>1, <2>2, <2>3, <2>4 DEF HandlerOK
<1> QED  BY <1>2, <1>3, <1>4, <1>5 DEF IInv

(* A step that leaves the vectors, the queue and the models alone. *)
LEMMA QuietInv ==
  ASSUME IInv, TypeOK', NEW w \in Workers,
         UNCHANGED <<memories, vector, meta, own, queue, keys, arrived>>, HandlerOK(w)',
         lost \subseteq lost',
         \A v \in Workers \ {w} : job'[v] = job[v] /\ step'[v] = step[v] /\ batch'[v] = batch[v],
         aged => doomed'[w] \cap {stored, previous} = {},
         \A v \in Workers \ {w} : doomed'[v] = doomed[v]
  PROVE  IInv'
<1>1. /\ queue \subseteq keys /\ own \in Models
      /\ \A m \in Memories, k \in Models : vector'[m][k] = vector[m][k]
      /\ \A v \in Workers : arrived'[v] = arrived[v]
  BY DEF IInv, KeysBelow, TypeOK
<1>2. DoomedOld'
  BY DEF IInv, DoomedOld, meta
<1> QED  BY <1>1, <1>2, StepInv

(* What a worker holds, by its job. *)
LEMMA JobOf ==
  ASSUME IInv, NEW w \in Workers
  PROVE  /\ job[w] \in Jobs \cup {NoJob} /\ HandlerOK(w)
         /\ job[w].kind = "embed" => /\ job[w].memory \in Memories /\ job[w].version \in 1..MaxVersion
                                     /\ job[w] = Embed(job[w].memory, job[w].version)
         /\ job[w].kind \in {"embed_backfill", "prune"} => job[w].model \in Models
         /\ \A v \in Workers : job[v].kind = "embed_backfill" => job[v].model \in Models
<1>1. \A v \in Workers : job[v] \in Jobs \cup {NoJob}
  BY DEF IInv, TypeOK
<1> QED  BY <1>1, JobShape, EmbedConstants DEF IInv

LEMMA EmbedSkipInv == ASSUME IInv, TypeOK', NEW w \in Workers, EmbedSkip(w) PROVE IInv'
<1>1. /\ UNCHANGED <<memories, vector, meta, own, queue, keys, job, batch, doomed, arrived>>
      /\ step' = [step EXCEPT ![w] = "returned"] /\ At(w, "embed", "claimed") /\ lost \subseteq lost'
      /\ status[job[w].memory] # "active" \/ Outdated(w) \/ job[w].memory \in lost'
  BY DEF EmbedSkip, Goes
<1>2. step'[w] = "returned" /\ \A v \in Workers \ {w} : step'[v] = step[v]
  BY <1>1 DEF IInv, TypeOK
<1>3. HandlerOK(w)'
  BY <1>1, <1>2, JobOf DEF HandlerOK, ReadBelow, ReadExact, Ended, FilledUp, At, Outdated, memories
<1> QED  BY <1>1, <1>2, <1>3, QuietInv DEF IInv, DoomedOld

LEMMA EmbedReadInv == ASSUME IInv, TypeOK', NEW w \in Workers, EmbedRead(w) PROVE IInv'
<1> DEFINE m == job[w].memory
<1>1. /\ UNCHANGED <<memories, vector, meta, own, queue, keys, job, doomed, lost, arrived>>
      /\ step' = [step EXCEPT ![w] = "embedding"] /\ At(w, "embed", "claimed")
      /\ status[m] = "active" /\ batch' = [batch EXCEPT ![w][m] = text[m]]
  BY DEF EmbedRead, Goes
<1>2. /\ step'[w] = "embedding" /\ m \in Memories
      /\ \A n \in Memories : batch'[w][n] = IF n = m THEN text[m] ELSE batch[w][n]
      /\ \A v \in Workers \ {w} : step'[v] = step[v] /\ batch'[v] = batch[v]
  BY <1>1, JobOf DEF IInv, TypeOK, At
<1>3. text[m] # 0 /\ text[m] \in Nat
  <2>1. text[m] \in 0..MaxVersion /\ 0 < text[m]
    BY <1>1, <1>2 DEF IInv, RowsFilled, TypeOK
  <2> QED  BY <2>1, EmbedConstants
<1>4. ReadBelow(w)'
  BY <1>1, <1>2, <1>3, JobOf DEF HandlerOK, ReadBelow, memories
<1>5. ReadExact(w)' /\ Ended(w)' /\ FilledUp(w)'
  BY <1>1, <1>2, <1>3 DEF ReadExact, Ended, FilledUp, At, memories
<1>6. HandlerOK(w)'
  BY <1>1, <1>4, <1>5, JobOf DEF HandlerOK
<1> QED  BY <1>1, <1>2, <1>6, QuietInv DEF IInv, DoomedOld

LEMMA FillQuietInv ==
  ASSUME IInv, TypeOK', NEW w \in Workers, FillWithoutBackend(w) \/ PruneRead(w)
  PROVE  IInv'
<1>1. /\ UNCHANGED <<memories, vector, meta, own, queue, keys, job, batch, lost, arrived>>
      /\ step'[w] \in {"returned", "doomed"} /\ job[w].kind # "embed"
      /\ \A v \in Workers \ {w} : step'[v] = step[v] /\ doomed'[v] = doomed[v]
      /\ doomed'[w] = doomed[w] \/ doomed'[w] \cap {stored, previous} = {}
  BY DEF FillWithoutBackend, PruneRead, Goes, At, IInv, TypeOK, Kept
<1>2. HandlerOK(w)'
  BY <1>1, JobOf DEF HandlerOK, ReadBelow, ReadExact, Ended, FilledUp, At, memories
<1>3. aged => doomed'[w] \cap {stored, previous} = {}
  BY <1>1 DEF IInv, DoomedOld
<1> QED  BY <1>1, <1>2, <1>3, QuietInv

LEMMA EmbedWriteInv == ASSUME IInv, TypeOK', NEW w \in Workers, EmbedWrite(w) PROVE IInv'
<1> DEFINE m == job[w].memory
<1>1. /\ UNCHANGED <<memories, meta, own, queue, keys, job, batch, doomed, arrived>>
      /\ step' = [step EXCEPT ![w] = "returned"] /\ At(w, "embed", "embedding")
  BY DEF EmbedWrite, Goes
<1>2. /\ step'[w] = "returned" /\ m \in Memories /\ own \in Models
      /\ \A v \in Workers \ {w} : step'[v] = step[v]
      /\ vector \in [Memories -> [Models -> 0..MaxVersion]]
  BY <1>1, JobOf DEF IInv, TypeOK, At
<1>3. batch[w][m] # 0 /\ (Outdated(w) \/ batch[w][m] = text[m])
  BY <1>1, JobOf DEF HandlerOK, ReadExact
<1>4. CASE Outdated(w)
  <2>1. UNCHANGED <<vector, lost>>
    BY <1>4 DEF EmbedWrite
  <2>2. HandlerOK(w)'
    BY <1>1, <1>2, <1>4, <2>1, JobOf
       DEF HandlerOK, ReadBelow, ReadExact, Ended, FilledUp, At, Outdated, memories
  <2> QED  BY <1>1, <1>2, <2>1, <2>2, QuietInv DEF IInv, DoomedOld
<1>5. CASE ~Outdated(w)
  <2>1. /\ lost' = lost \ {m} /\ vector'[m][own] = text[m] /\ batch[w][m] = text[m]
        /\ \A n \in Memories, k \in Models :
               vector'[n][k] = IF n = m /\ k = own THEN text[m] ELSE vector[n][k]
    BY <1>2, <1>3, <1>5 DEF EmbedWrite
  <2>2. HandlerOK(w)'
    BY <1>1, <1>2, <2>1, JobOf
       DEF HandlerOK, ReadBelow, ReadExact, Ended, FilledUp, At, Outdated, memories
  <2>3. \A v \in Filling : job[v].model \in Models
    BY JobOf DEF Filling
  <2>4. text[m] # 0
    BY <1>3, <2>1
  <2>5. DoomedOld'
    BY <1>1 DEF IInv, DoomedOld, meta
  <2>6. queue' \subseteq keys' /\ keys' = keys /\ queue' = queue
    BY <1>1 DEF IInv, KeysBelow
  <2> QED  BY <1>1, <1>2, <2>1, <2>2, <2>3, <2>4, <2>5, <2>6, StepInv
<1> QED  BY <1>4, <1>5

LEMMA FillReadInv == ASSUME IInv, TypeOK', NEW w \in Workers, FillRead(w) PROVE IInv'
<1> DEFINE k == job[w].model
<1>1. /\ UNCHANGED <<memories, vector, meta, own, queue, keys, job, doomed, lost>>
      /\ job[w].kind = "embed_backfill" /\ step[w] \in {"claimed", "looking"}
  BY DEF FillRead, At
<1>2. CASE step' = [step EXCEPT ![w] = "returned"] /\ UNCHANGED <<batch, arrived>>
  <2>1. step'[w] = "returned" /\ \A v \in Workers \ {w} : step'[v] = step[v]
    BY <1>2 DEF IInv, TypeOK
  <2>2. HandlerOK(w)'
    BY <1>1, <1>2, <2>1, JobOf DEF HandlerOK, ReadBelow, ReadExact, Ended, FilledUp, At, memories
  <2> QED  BY <1>1, <1>2, <2>1, <2>2, QuietInv DEF IInv, DoomedOld
<1>3. CASE /\ arrived' = [arrived EXCEPT ![w] = {}]
           /\ IF Missing(k) = {}
              THEN Goes(w, "stamping") /\ UNCHANGED batch
              ELSE /\ Goes(w, "embedding")
                   /\ \E B \in SUBSET Missing(k) :
                        batch' = [batch EXCEPT ![w] = [m \in Memories |-> IF m \in B THEN text[m] ELSE 0]]
  <2>1. /\ \A v \in Workers \ {w} : step'[v] = step[v] /\ batch'[v] = batch[v] /\ arrived'[v] = arrived[v]
        /\ step'[w] \in {"stamping", "embedding"} /\ (step'[w] = "stamping" => Missing(k) = {})
    BY <1>3 DEF IInv, TypeOK, Goes
  <2>2. ReadBelow(w)'
    <3>1. CASE UNCHANGED batch
      BY <1>1, <3>1, JobOf DEF HandlerOK, ReadBelow, memories
    <3>2. CASE ~UNCHANGED batch
      <4>1. PICK B \in SUBSET Missing(k) :
               batch' = [batch EXCEPT ![w] = [m \in Memories |-> IF m \in B THEN text[m] ELSE 0]]
        BY <1>3, <3>2
      <4>2. \A m \in Memories : batch'[w][m] # 0 => status[m] = "active" /\ batch'[w][m] = text[m]
        BY <4>1 DEF Missing, IInv, TypeOK
      <4>3. \A m \in Memories : text[m] <= text[m]
        BY DEF IInv, TypeOK
      <4> QED  BY <1>1, <4>2, <4>3 DEF ReadBelow, memories
    <3> QED  BY <3>1, <3>2
  <2>3. FilledUp(w)'
    BY <1>1, <2>1 DEF FilledUp, At, Missing, memories
  <2>4. HandlerOK(w)'
    BY <1>1, <2>2, <2>3, JobOf DEF HandlerOK, ReadExact, Ended, At
  <2>5. DoomedOld' /\ queue' \subseteq keys' /\ own \in Models
    BY <1>1 DEF IInv, DoomedOld, meta, KeysBelow, TypeOK
  <2> QED  BY <1>1, <2>1, <2>4, <2>5, StepInv
<1> QED  BY <1>2, <1>3 DEF FillRead, Goes

LEMMA FillWriteInv == ASSUME IInv, TypeOK', NEW w \in Workers, FillWrite(w) PROVE IInv'
<1> DEFINE k == job[w].model
<1>1. /\ UNCHANGED <<memories, meta, own, queue, keys, job, doomed, arrived>>
      /\ job[w].kind = "embed_backfill" /\ k \in Models /\ own \in Models
      /\ lost' = lost \cup {m \in Memories : k = own /\ batch[w][m] \notin {0, text[m]}}
  BY JobOf DEF FillWrite, At, IInv, TypeOK
<1>2. /\ step'[w] = "looking" /\ batch'[w] = Nothing
      /\ \A v \in Workers \ {w} : step'[v] = step[v] /\ batch'[v] = batch[v]
  BY DEF FillWrite, Goes, IInv, TypeOK
<1>3. \A m \in Memories, q \in Models :
         vector'[m][q] = IF q = k /\ batch[w][m] # 0 THEN batch[w][m] ELSE vector[m][q]
  BY <1>1 DEF FillWrite, IInv, TypeOK
<1>4. HandlerOK(w)'
  BY <1>1, <1>2, JobOf DEF HandlerOK, ReadBelow, ReadExact, Ended, FilledUp, At, Nothing
<1>5. \A m \in Memories \ lost' :
         vector'[m][own] = text[m] \/ (m \notin lost /\ vector'[m][own] = vector[m][own])
  BY <1>1, <1>3
<1>6. \A v \in Filling : job[v].model \in Models
  BY JobOf DEF Filling
<1>7. \A v \in Filling \ {w} : \A m \in Memories \ arrived'[v] :
         vector'[m][job[v].model] = 0 => vector[m][job[v].model] = 0
  BY <1>3, <1>6
<1>8. DoomedOld' /\ queue' \subseteq keys'
  BY <1>1 DEF IInv, DoomedOld, meta, KeysBelow
<1> QED  BY <1>1, <1>2, <1>3, <1>4, <1>5, <1>7, <1>8, StepInv

LEMMA StampInv == ASSUME IInv, TypeOK', NEW w \in Workers, Stamp(w) PROVE IInv'
<1>1. /\ UNCHANGED <<memories, vector, own, job, batch, doomed, lost, arrived>>
      /\ At(w, "embed_backfill", "stamping") /\ aged' = FALSE
      /\ UNCHANGED <<queue, keys>> \/ Asking(Prune(job[w].model))
  BY DEF Stamp
<1>2. step'[w] = "returned" /\ \A v \in Workers \ {w} : step'[v] = step[v]
  BY DEF Stamp, Goes, IInv, TypeOK
<1>3. /\ queue' \subseteq keys' /\ keys \subseteq keys' /\ queue \subseteq queue'
      /\ \A m \in Memories, v \in 1..MaxVersion : Embed(m, v) \in keys' => Embed(m, v) \in keys
  <2>1. queue \subseteq keys
    BY DEF IInv, KeysBelow
  <2>2. \A m \in Memories, v \in 1..MaxVersion : Embed(m, v) # Prune(job[w].model)
    BY DEF Embed, Prune
  <2> QED  BY <1>1, <2>1, <2>2 DEF Asking
<1>4. HandlerOK(w)'
  BY <1>1, <1>2, <1>3, JobOf DEF HandlerOK, ReadBelow, ReadExact, Ended, FilledUp, At, memories
<1>5. DoomedOld' /\ own \in Models
  BY <1>1 DEF DoomedOld, IInv, TypeOK
<1> QED  BY <1>1, <1>2, <1>3, <1>4, <1>5, StepInv

LEMMA PruneWriteInv == ASSUME IInv, TypeOK', NEW w \in Workers, PruneWrite(w) PROVE IInv'
<1>1. /\ UNCHANGED <<memories, meta, own, queue, keys, job, batch, doomed>>
      /\ job[w].kind = "prune" /\ own \in Models
      /\ lost' = IF own \in doomed[w] THEN Memories ELSE lost
      /\ Missed(Memories, doomed[w])
  BY DEF PruneWrite, At, IInv, TypeOK
<1>2. step'[w] = "returned" /\ \A v \in Workers \ {w} : step'[v] = step[v]
  BY DEF PruneWrite, Goes, IInv, TypeOK
<1>3. \A m \in Memories, q \in Models :
         vector'[m][q] = IF q \in doomed[w] THEN 0 ELSE vector[m][q]
  BY DEF PruneWrite
<1>4. \A v \in Workers :
         arrived'[v] = IF v \in Filling /\ job[v].model \in doomed[w]
                       THEN arrived[v] \cup Memories ELSE arrived[v]
  BY <1>1 DEF Missed
<1>5. HandlerOK(w)'
  BY <1>1, <1>2, JobOf DEF HandlerOK, ReadBelow, ReadExact, Ended, FilledUp, At, memories
<1>6. \A v \in Filling : v \in Workers /\ job[v].model \in Models
  BY JobOf DEF Filling
<1>7. \A v \in Filling \ {w} : \A m \in Memories \ arrived'[v] :
         vector'[m][job[v].model] = 0 => vector[m][job[v].model] = 0
  BY <1>3, <1>4, <1>6
<1>8. DoomedOld' /\ queue' \subseteq keys'
  BY <1>1 DEF IInv, DoomedOld, meta, KeysBelow
<1>9. \A v \in Workers : arrived[v] \subseteq arrived'[v]
  BY <1>4
<1>10. \A m \in Memories \ lost' : m \notin lost /\ vector'[m][own] = vector[m][own]
  BY <1>1, <1>3 DEF IInv, TypeOK
<1> QED  BY <1>1, <1>2, <1>3, <1>5, <1>7, <1>8, <1>9, <1>10, StepInv

LEMMA ClaimInv ==
  ASSUME IInv, TypeOK', NEW w \in Workers, NEW j \in queue, Claim(w, j)
  PROVE  IInv'
<1>1. /\ UNCHANGED <<memories, vector, meta, own, queue, keys, batch, doomed, lost, arrived>>
      /\ job[w] = NoJob
  BY DEF Claim
<1>2. /\ job'[w] = j /\ step'[w] = "claimed"
      /\ \A v \in Workers \ {w} : job'[v] = job[v] /\ step'[v] = step[v]
  BY DEF Claim, IInv, TypeOK
<1>3. j \in keys
  BY DEF IInv, KeysBelow
<1>4. HandlerOK(w)'
  BY <1>1, <1>2, <1>3, JobOf DEF HandlerOK, ReadBelow, ReadExact, Ended, FilledUp, At, memories
<1> QED  BY <1>1, <1>2, <1>4, QuietInv DEF IInv, DoomedOld

(* A job that is settled had nothing left to do; a crash settles nothing.   *)
LEMMA FreedInv ==
  ASSUME IInv, TypeOK', NEW w \in Workers, Report(w) \/ Crash(w)
  PROVE  IInv'
<1>1. /\ Freed(w) /\ UNCHANGED <<memories, vector, meta, own, keys, lost>>
      /\ queue' = queue \/ (step[w] = "returned" /\ queue' = queue \ {job[w]})
  BY DEF Report, Crash
<1>2. /\ job'[w] = NoJob /\ step'[w] = "idle" /\ batch'[w] = Nothing /\ doomed'[w] = {}
      /\ \A v \in Workers \ {w} : /\ job'[v] = job[v] /\ step'[v] = step[v] /\ batch'[v] = batch[v]
                                   /\ doomed'[v] = doomed[v] /\ arrived'[v] = arrived[v]
  BY <1>1 DEF Freed, IInv, TypeOK
<1>3. HandlerOK(w)'
  BY <1>2, NoJobShape DEF HandlerOK, ReadBelow, ReadExact, Ended, FilledUp, At, Nothing
<1>4. ASSUME NEW m \in Memories \ lost, Embed(m, text[m]) \in queue \ queue',
             status[m] = "active", version[m] = text[m]
      PROVE  vector[m][own] = text[m]
  <2>1. text[m] \in 1..MaxVersion
    <3>1. text[m] \in 0..MaxVersion /\ 0 < text[m]
      BY <1>4 DEF IInv, RowsFilled, TypeOK
    <3> QED  BY <3>1, EmbedConstants
  <2>2. step[w] = "returned" /\ job[w] = Embed(m, text[m])
    BY <1>1, <1>4
  <2>3. job[w].kind = "embed" /\ job[w].memory = m /\ job[w].version = text[m]
    BY <2>1, <2>2, EmbedShape
  <2> QED  BY <1>4, <2>2, <2>3, JobOf DEF HandlerOK, Ended, At, Outdated
<1>5. DoomedOld' /\ queue' \subseteq keys' /\ own \in Models
  BY <1>1, <1>2 DEF IInv, DoomedOld, meta, KeysBelow, TypeOK
<1> QED  BY <1>1, <1>2, <1>3, <1>4, <1>5, StepInv

LEMMA NextInv == IInv /\ [Next]_vars => IInv'
<1> SUFFICES ASSUME IInv, [Next]_vars PROVE IInv'
  OBVIOUS
<1>1. TypeOK'
  BY NextType DEF IInv
<1>2. ASSUME NEW m \in Memories, Write(m) PROVE IInv'
  BY <1>1, <1>2, WriteMoves, MovedInv, PurgeInv
<1>3. ASSUME NEW k \in Configured, Ensure(k) PROVE IInv'
  <2>1. \A m \in Memories, v \in 1..MaxVersion : Embed(m, v) # Fill(k)
    BY DEF Embed, Fill
  <2>2. KeysBelow'
    BY <1>3, <2>1 DEF Ensure, Asking, IInv, KeysBelow, memories, Embed
  <2>3. RowsFilled' /\ VectorsBelow' /\ DoomedOld'
    BY <1>3 DEF Ensure, IInv, RowsFilled, VectorsBelow, DoomedOld, memories, meta, workers
  <2>4. CurrentOrAsked'
    BY <1>3 DEF Ensure, Asking, IInv, CurrentOrAsked, memories, Embed
  <2>5. \A w \in Workers : HandlerOK(w)'
    BY <1>3 DEF Ensure, Asking, IInv, HandlerOK, ReadBelow, ReadExact, Ended, FilledUp, At, Outdated,
                memories, workers
  <2> QED  BY <1>1, <2>2, <2>3, <2>4, <2>5 DEF IInv
<1>4. CASE Age \/ UNCHANGED vars \/ \E w \in Workers : Expire(w)
  <2>1. /\ UNCHANGED <<status, version, text, vector, stored, previous, own, queue, keys, job, step,
                       batch, doomed, lost, arrived>>
        /\ aged' = aged \/ \A w \in Workers : doomed[w] = {}
    BY <1>4 DEF Age, vars, Expire, memories, meta, workers
  <2>2. RowsFilled' /\ VectorsBelow' /\ DoomedOld' /\ KeysBelow' /\ CurrentOrAsked'
    BY <2>1 DEF IInv, RowsFilled, VectorsBelow, DoomedOld, KeysBelow, CurrentOrAsked, Embed
  <2>3. \A w \in Workers : HandlerOK(w)'
    BY <2>1 DEF IInv, HandlerOK, ReadBelow, ReadExact, Ended, FilledUp, At, Outdated
  <2> QED  BY <1>1, <2>2, <2>3 DEF IInv
<1>5. ASSUME NEW w \in Workers, Work(w) \/ Crash(w) PROVE IInv'
  BY <1>1, <1>5, ClaimInv, FreedInv, EmbedSkipInv, EmbedReadInv, EmbedWriteInv, FillQuietInv,
     FillReadInv, FillWriteInv, StampInv, PruneWriteInv DEF Work
<1> QED  BY <1>2, <1>3, <1>4, <1>5 DEF Next

LEMMA Invariance == Spec => []IInv
  BY InitInv, NextInv, PTL DEF Spec

-----------------------------------------------------------------------------
(* The theorems. *)

(* Rows, vectors, jobs and workers keep their types.                        *)
THEOREM TypeCorrect == Spec => []TypeOK
  BY Invariance, PTL DEF IInv

(* Whatever expires, crashes and overlaps, a text that is to be found has   *)
(* its vector, or the job that will make it. *)
THEOREM TextsAreAsked == Spec => []CurrentOrAsked
  BY Invariance, PTL DEF IInv

(* A late embed job replaces no newer vector, the current and the previous  *)
(* model keep theirs, and a model is recorded when it is filled. *)
THEOREM VectorsAreKept == Spec => VectorsKept
<1>1. ASSUME IInv, NEW m \in Memories, NEW k \in Models, Next, vector'[m][k] # vector[m][k]
      PROVE  \/ Purge(m) /\ vector'[m][k] = 0
             \/ \E w \in Workers :
                   \/ EmbedWrite(w) /\ ~Outdated(w) /\ m = job[w].memory /\ k = own
                      /\ vector'[m][k] = batch[w][m]
                   \/ FillWrite(w) /\ batch[w][m] # 0 /\ vector'[m][k] = batch[w][m]
                   \/ PruneWrite(w) /\ k \in doomed[w] /\ vector'[m][k] = 0
  <2>0. vector \in [Memories -> [Models -> 0..MaxVersion]] /\ \A w \in Workers :
           job[w].kind = "embed" => job[w].memory \in Memories
    BY <1>1, JobOf DEF IInv, TypeOK
  <2>1. CASE \E n \in Memories : Write(n)
    BY <1>1, <2>0, <2>1 DEF Write, Add, Propose, Edit, Touch, Move, Purge
  <2>2. ASSUME NEW w \in Workers, EmbedWrite(w)
        PROVE  ~Outdated(w) /\ m = job[w].memory /\ k = own /\ vector'[m][k] = batch[w][m]
    BY <1>1, <2>0, <2>2 DEF EmbedWrite, At
  <2>3. ASSUME NEW w \in Workers, FillWrite(w)
        PROVE  batch[w][m] # 0 /\ vector'[m][k] = batch[w][m]
    BY <1>1, <2>0, <2>3 DEF FillWrite
  <2>4. ASSUME NEW w \in Workers, PruneWrite(w)
        PROVE  k \in doomed[w] /\ vector'[m][k] = 0
    BY <1>1, <2>0, <2>4 DEF PruneWrite
  <2>5. \/ \E n \in Memories : Write(n)
        \/ \E w \in Workers : EmbedWrite(w) \/ FillWrite(w) \/ PruneWrite(w)
    BY <1>1 DEF Next, Ensure, Age, Work, Claim, EmbedSkip, EmbedRead, FillWithoutBackend, FillRead,
                Stamp, PruneRead, Report, Expire, Crash
  <2> QED  BY <2>1, <2>2, <2>3, <2>4, <2>5
<1>2. ASSUME IInv, NEW m \in Memories, NEW w \in Workers, EmbedWrite(w), ~Outdated(w),
             m = job[w].memory
      PROVE  /\ batch[w][m] # 0 /\ batch[w][m] = text[m]
             /\ \A k \in Models : vector[m][k] <= text[m]
  <2>1. batch[w][m] # 0 /\ batch[w][m] = text[m]
    BY <1>2, JobOf DEF HandlerOK, ReadExact, EmbedWrite
  <2>2. status[m] \notin {"none", "purged"}
    <3>1. version[m] \in 1..MaxVersion
      BY <1>2, JobOf DEF EmbedWrite, At, Outdated
    <3> QED  BY <1>2, <3>1, EmbedConstants DEF IInv, RowsFilled
  <2>3. \A k \in Models : vector[m][k] # 0 => vector[m][k] <= text[m]
    BY <1>2, <2>2 DEF IInv, VectorsBelow
  <2>4. text[m] \in 0..MaxVersion
    BY <1>2 DEF IInv, TypeOK
  <2> QED  BY <2>1, <2>3, <2>4, EmbedConstants
<1>3. IInv /\ [Next]_vars =>
        [\A m \in Memories, k \in Models :
            vector'[m][k] # 0 /\ vector'[m][k] < vector[m][k] =>
                \E w \in Filling : batch[w][m] = vector'[m][k] /\ batch'[w][m] = 0]_vars
  <2> SUFFICES ASSUME IInv, Next, NEW m \in Memories, NEW k \in Models,
                      vector'[m][k] # 0, vector'[m][k] < vector[m][k]
               PROVE  \E w \in Filling : batch[w][m] = vector'[m][k] /\ batch'[w][m] = 0
    OBVIOUS
  <2>1. vector[m][k] \in Nat /\ vector'[m][k] # vector[m][k]
    <3>1. vector[m][k] \in 0..MaxVersion
      BY DEF IInv, TypeOK
    <3> QED  BY <3>1, EmbedConstants
  <2>2. PICK w \in Workers :
           \/ EmbedWrite(w) /\ ~Outdated(w) /\ m = job[w].memory /\ vector'[m][k] = batch[w][m]
           \/ FillWrite(w) /\ vector'[m][k] = batch[w][m]
    BY <1>1, <2>1
  <2>3. CASE EmbedWrite(w) /\ ~Outdated(w) /\ m = job[w].memory /\ vector'[m][k] = batch[w][m]
    <3>1. batch[w][m] = text[m] /\ vector[m][k] <= text[m] /\ text[m] \in Nat
      <4>1. text[m] \in 0..MaxVersion
        BY DEF IInv, TypeOK
      <4> QED  BY <1>2, <2>3, <4>1, EmbedConstants
    <3> QED  BY <2>1, <2>3, <3>1
  <2>4. CASE FillWrite(w) /\ vector'[m][k] = batch[w][m]
    <3>1. w \in Filling /\ batch'[w] = Nothing
      BY <2>4 DEF FillWrite, At, Filling, IInv, TypeOK
    <3> QED  BY <2>4, <3>1 DEF Nothing
  <2> QED  BY <2>2, <2>3, <2>4
<1>4. IInv /\ [Next]_vars =>
        [\A m \in Memories, k \in {stored, previous} \ {NoModel} :
            vector[m][k] # 0 /\ vector'[m][k] = 0 => status'[m] = "purged" \/ ~aged]_vars
  <2> SUFFICES ASSUME IInv, Next, NEW m \in Memories, NEW k \in {stored, previous} \ {NoModel},
                      vector[m][k] # 0, vector'[m][k] = 0, aged
               PROVE  status'[m] = "purged"
    OBVIOUS
  <2>1. k \in Models
    BY DEF IInv, TypeOK
  <2>2. CASE Purge(m)
    BY <2>2 DEF Purge, IInv, TypeOK
  <2>3. ASSUME NEW w \in Workers, PruneWrite(w), k \in doomed[w] PROVE FALSE
    BY <2>3 DEF IInv, DoomedOld
  <2> QED  BY <1>1, <1>2, <2>1, <2>2, <2>3
<1>5. IInv /\ [Next]_vars =>
        [\A k \in Models : stored' = k /\ stored # k =>
            \E w \in Filling :
                \A m \in Memories \ arrived[w] : status[m] = "active" => vector[m][k] # 0]_vars
  <2> SUFFICES ASSUME IInv, Next, NEW k \in Models, stored' = k, stored # k
               PROVE  \E w \in Filling :
                          \A m \in Memories \ arrived[w] : status[m] = "active" => vector[m][k] # 0
    OBVIOUS
  <2>1. PICK w \in Workers : Stamp(w)
    BY DEF Next, Write, Add, Propose, Edit, Touch, Move, Purge, Ensure, Age, Work, Claim, EmbedSkip,
           EmbedRead, EmbedWrite, FillWithoutBackend, FillRead, FillWrite, PruneRead, PruneWrite,
           Report, Expire, Crash, meta
  <2> QED  BY <2>1, JobOf DEF Stamp, At, Filling, HandlerOK, FilledUp
<1> QED  BY Invariance, <1>3, <1>4, <1>5, PTL
         DEF Spec, VectorsKept, NeverOlder, RollbackKept, StampedFilled
=============================================================================
