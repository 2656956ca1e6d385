------------------------------ MODULE Reconcile ------------------------------
(***************************************************************************)
(* From candidate to memory (em/formation/extract_jobs.py, reconcile.py).  *)
(* An extraction stores what it found as pending rows of its scope and     *)
(* queues a reconcile job; the job goes through the pending rows once and  *)
(* publishes, merges or keeps each, in one write transaction.              *)
(*                                                                         *)
(* A text is a model value.  Two texts of one Topic state different values *)
(* of one attribute (Changed), unless they are Alike: near duplicates with *)
(* the same numbers and negations, of one topic or of two, for no subject  *)
(* is compared then.  "own" is the scope of the job, "wide" the rows it    *)
(* reads besides.  What retrieval finds for a candidate is any set of      *)
(* active rows.  The hash of a text covers its scope, and a scope has one  *)
(* live row per text, so the exact-duplicate answer of decide is never     *)
(* given here; CONFLICT is the model's answer only, and no language model  *)
(* is passed to this job.                                                  *)
(***************************************************************************)
EXTENDS Naturals, Sequences, SequencesExt

CONSTANTS
    Candidates,   \* texts
    Topic,        \* the subject and attribute of a text
    Alike,        \* pairs of near duplicates
    Confident,    \* texts the commit policy lets through
    Limit,        \* candidates a pass lists
    MaxBatches    \* bound: extractions

Buckets == {"own", "wide"}

ReconcileConstants ==
    /\ DOMAIN Topic = Candidates
    /\ Alike \subseteq (Candidates \X Candidates)
    /\ \A p \in Alike : <<p[2], p[1]>> \in Alike
    /\ Confident \subseteq Candidates
    /\ Limit \in Nat \ {0}
    /\ MaxBatches \in Nat

ASSUME ReconcileConstants

VARIABLES
    active,    \* per bucket, the texts of active rows
    batches,   \* pending rows of "own" by extraction, oldest first
    job,       \* the job under the key reconcile:<profile>:<user>:<chat>
    pass,      \* the transaction of a pass: rows not reached yet, and the
               \*   store as it is inside
    extracted  \* extractions so far

reconcileVars == <<active, batches, job, pass, extracted>>

NoPass == [open |-> FALSE]

Waiting(bs) == UNION Range(bs)
LiveIn(st, b) == st.active[b] \cup IF b = "own" THEN Waiting(st.batches) ELSE {}

(* Every variable has its type, and a text has one live row per scope.     *)
ReconcileTypeOK ==
    /\ active \in [Buckets -> SUBSET Candidates]
    /\ batches \in Seq(SUBSET Candidates)
    /\ \A i, j \in DOMAIN batches : i # j => batches[i] \cap batches[j] = {}
    /\ active["own"] \cap Waiting(batches) = {}
    /\ job \in {"none", "queued", "done"}
    /\ pass.open => /\ Range(pass.left) \subseteq Candidates
                    /\ pass.active["own"] \cap Waiting(pass.batches) = {}
    /\ extracted \in 0..MaxBatches

ReconcileInit ==
    /\ active \in {a \in [Buckets -> SUBSET Candidates] :
                     \A b \in Buckets : \A c, d \in a[b] : c # d => Topic[c] # Topic[d]}
    /\ batches = <<>>
    /\ job = "none"
    /\ pass = NoPass
    /\ extracted = 0

Without(bs, c) == [i \in DOMAIN bs |-> bs[i] \ {c}]

(* _write_candidates and _enqueue_reconcile in one transaction.  A text    *)
(* that is live is not stored again; a key is queued once.                 *)
Extract ==
    /\ ~pass.open
    /\ extracted < MaxBatches
    /\ \E found \in SUBSET Candidates \ {{}} :
         batches' = Append(batches, found \ (active["own"] \cup Waiting(batches)))
    /\ job' = IF job = "none" THEN "queued" ELSE job
    /\ extracted' = extracted + 1
    /\ UNCHANGED <<active, pass>>

(* A person accepts a pending row or refuses it, states a fact, or has one *)
(* forgotten.                                                              *)
Accept ==
    /\ ~pass.open
    /\ \E c \in Waiting(batches) :
         /\ batches' = Without(batches, c)
         /\ active' \in {active, [active EXCEPT !["own"] = @ \cup {c}]}
    /\ UNCHANGED <<job, pass, extracted>>

State ==
    /\ ~pass.open
    /\ \E b \in Buckets, c \in Candidates :
         /\ b = "own" => c \notin Waiting(batches)
         /\ active' \in {[active EXCEPT ![b] = @ \cup {c}],
                         [active EXCEPT ![b] = @ \ {c}]}
    /\ UNCHANGED <<batches, job, pass, extracted>>

(* The order of updated_at, newest first; the rows of one extraction carry *)
(* instants too close to tell apart.                                       *)
Listed(bs, l) ==
    \E flat \in SetToSeqs({p \in (DOMAIN bs) \X Candidates : p[2] \in bs[p[1]]}) :
        /\ \A i, j \in DOMAIN flat : i < j => flat[i][1] >= flat[j][1]
        /\ l = [i \in 1..(IF Len(flat) < Limit THEN Len(flat) ELSE Limit) |-> flat[i][2]]

(* reconcile_pending lists the candidates once. *)
PassBegin ==
    /\ ~pass.open /\ job = "queued"
    /\ \E l \in UNION {[1..n -> Candidates] : n \in 0..Limit} :
         /\ Listed(batches, l)
         /\ pass' = [open |-> TRUE, left |-> l, active |-> active, batches |-> batches]
    /\ UNCHANGED <<active, batches, job, extracted>>

ChangedValue(c, d) == c # d /\ Topic[c] = Topic[d] /\ <<c, d>> \notin Alike
Near(c, d)    == c = d \/ <<c, d>> \in Alike

ActiveRows(a) == {r \in Buckets \X Candidates : r[2] \in a[r[1]]}

(* set_status deleted, then MemoryStore.supersede: a new active row in     *)
(* "own"; the old row is taken down.                                       *)
SupersedeRow(st, c, r) ==
    [st EXCEPT !.batches = Without(@, c),
               !.active = [b \in Buckets |-> (@[b] \ (IF b = r[1] THEN {r[2]} ELSE {}))
                                               \cup (IF b = "own" THEN {c} ELSE {})]]

(* set_status deleted, then MemoryStore.update of the target, which        *)
(* refuses a text that is live in the target's scope.                      *)
Merge(st, c, r) ==
    LET gone == [st EXCEPT !.batches = Without(@, c)]
    IN  IF c \in LiveIn(gone, r[1]) THEN gone
        ELSE [gone EXCEPT !.active[r[1]] = (@ \ {r[2]}) \cup {c}]

PublishRow(st, c) ==
    [st EXCEPT !.batches = Without(@, c), !.active["own"] = @ \cup {c}]

(* Variant: the candidate is discarded before the plan is looked at. *)
OutcomesDiscardFirst(st, c, near) ==
    LET changed == {r \in near : ChangedValue(c, r[2])}
        alike   == {r \in near : Near(c, r[2])}
    IN  IF c \notin Confident THEN {[st EXCEPT !.batches = Without(@, c)]}
        ELSE IF changed # {} THEN {SupersedeRow(st, c, r) : r \in changed}
        ELSE IF alike # {} THEN {Merge(st, c, r) : r \in alike}
        ELSE {PublishRow(st, c)}

(* decide and apply_decision.  A text that is near to a row is closest to  *)
(* the row that says the same; otherwise a row with other numbers may be   *)
(* closer than the near duplicate, and the candidate is then added.        *)
Outcomes(st, c, near) ==
    LET changed == {r \in near : ChangedValue(c, r[2])}
        alike   == {r \in near : Near(c, r[2])}
        same    == {r \in alike : r[2] = c}
    IN  IF c \notin Confident THEN {st}
        ELSE IF changed # {} THEN {SupersedeRow(st, c, r) : r \in changed}
        ELSE IF same # {} THEN {Merge(st, c, r) : r \in same}
        ELSE {Merge(st, c, r) : r \in alike}
               \cup (IF near = alike /\ near # {} THEN {} ELSE {PublishRow(st, c)})

PassRow ==
    /\ pass.open /\ pass.left # <<>>
    /\ \E near \in SUBSET ActiveRows(pass.active) :
         \E st \in Outcomes(pass, Head(pass.left), near) :
            pass' = [st EXCEPT !.left = Tail(@)]
    /\ UNCHANGED <<active, batches, job, extracted>>

(* The transaction commits and the worker settles the job. *)
PassCommit ==
    /\ pass.open /\ pass.left = <<>>
    /\ active' = pass.active
    /\ batches' = pass.batches
    /\ job' = "done"
    /\ pass' = NoPass
    /\ UNCHANGED extracted

(* A row raises or the process ends: the transaction is rolled back, and   *)
(* the job runs again.                                                     *)
PassAbort ==
    /\ pass.open
    /\ pass' = NoPass
    /\ UNCHANGED <<active, batches, job, extracted>>

ReconcileNext == Extract \/ Accept \/ State \/ PassBegin \/ PassRow \/ PassCommit \/ PassAbort

ReconcileSpec == ReconcileInit /\ [][ReconcileNext]_reconcileVars
-----------------------------------------------------------------------------
(* Properties.                                                             *)

(* Texts that belong together: with a text, all of its topic and its near  *)
(* duplicates.                                                             *)
Family(S) ==
    \A c \in S, d \in Candidates :
        Topic[c] = Topic[d] \/ <<c, d>> \in Alike => d \in S

(* Some of the texts S is in a row that can be read or reviewed. *)
Known(S) == S \cap (active["own"] \cup active["wide"] \cup Waiting(batches)) # {}

(* A pass loses no fact: of what was known about a topic, or about another *)
(* one a near duplicate joins it to, something is still there when the     *)
(* pass commits, whatever retrieval found and however the merges of        *)
(* earlier candidates changed the rows later ones are compared with        *)
(* (apply_decision discards the candidate before a write that may be       *)
(* refused).                                                               *)
TopicKept ==
    [][ \A S \in SUBSET Candidates :
          pass.open /\ Family(S) /\ Known(S) => Known(S)' ]_reconcileVars

(* Expected, and refuted: something is still there of each topic.  decide  *)
(* answers UPDATE for a near duplicate without comparing what the two      *)
(* texts are about, and the row of the one becomes a row of the other.     *)
EachTopicKept ==
    [][ \A c \in Candidates :
          LET S == {d \in Candidates : Topic[d] = Topic[c]}
          IN  pass.open /\ Known(S) => Known(S)' ]_reconcileVars

(* A candidate the policy would commit has a pass ahead of it: "the        *)
(* extraction handler's enqueue that connects extract -> reconcile ->      *)
(* commit" (tests/unit/test_em503_wiring.py).                              *)
CandidatesHaveAPass ==
    \A c \in Waiting(batches) \cap Confident : job = "queued"
=============================================================================
