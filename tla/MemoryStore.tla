----------------------------- MODULE MemoryStore -----------------------------
(***************************************************************************)
(* The memories repository (em/store/memories.py): the life of a memory    *)
(* row, its version trail, and the jobs its writes ask for.  Every public  *)
(* operation runs inside one write transaction, so each is one action.     *)
(*                                                                         *)
(* One scope: the content hash contains the scope, so rows of different    *)
(* scopes never meet.  Content is an element of Contents, after redaction; *)
(* the write policy and the injection screen are reduced to their verdict, *)
(* live or pending (a blocked write changes nothing).  Scores, tags, the   *)
(* sync outbox, relations and the audit chain are left out.                *)
(*                                                                         *)
(* The database has rules of its own: content is unique among active and   *)
(* pending rows (ux_mem_hash_scope), and superseded_by is a foreign key.   *)
(* An operation that breaks one raises and its transaction is rolled back. *)
(* Embed jobs are queued where link jobs are, but not on a status change:  *)
(* what comes of them is not this module's subject.                        *)
(***************************************************************************)
EXTENDS Integers, FiniteSets

CONSTANTS
    Contents,     \* what a memory can say
    NoText,       \* the content of a row that is not there
    MaxRows,      \* bound: rows ever inserted
    MaxVersion    \* bound: versions of one row

Ids == 1..MaxRows

ASSUME StoreConstants ==
    /\ MaxRows \in Nat
    /\ MaxVersion \in Nat \ {0}
    /\ NoText \notin Contents

VARIABLES
    status,       \* the memories table: status,
    text,         \*   content,
    version,      \*   version,
    successor,    \*   superseded_by (0: NULL)
    trail,        \* memory_versions, per row
    linked,       \* the version of the row's newest link job (0: none)
    held,         \* history: every content the row has had
    since,        \* history: the version at which the row last became live
                  \*   or changed its content
    forgotten     \* history: rows the user removed for good

history == <<held, since, forgotten>>
vars == <<status, text, version, successor, trail, linked,
          held, since, forgotten>>

Statuses == {"pending", "active", "superseded", "archived", "deleted"}
Reasons  == {"created", "quarantined", "edit", "supersede", "promote", "discard",
             "archive", "forget", "retracted_by_undo", "restore"}

(* Every variable has its type. *)
TypeOK ==
    /\ status \in [Ids -> Statuses \cup {"none", "purged"}]
    /\ text \in [Ids -> Contents \cup {NoText}]
    /\ version \in [Ids -> 0..MaxVersion]
    /\ successor \in [Ids -> Ids \cup {0}]
    /\ trail \in [Ids -> SUBSET [n : 1..MaxVersion, text : Contents,
                                 status : Statuses, why : Reasons]]
    /\ linked \in [Ids -> 0..MaxVersion]
    /\ held \in [Ids -> SUBSET Contents]
    /\ since \in [Ids -> 0..MaxVersion]
    /\ forgotten \subseteq Ids

Init ==
    /\ status = [i \in Ids |-> "none"]
    /\ text = [i \in Ids |-> NoText]
    /\ version = [i \in Ids |-> 0]
    /\ successor = [i \in Ids |-> 0]
    /\ trail = [i \in Ids |-> {}]
    /\ linked = [i \in Ids |-> 0]
    /\ held = [i \in Ids |-> {}]
    /\ since = [i \in Ids |-> 0]
    /\ forgotten = {}

-----------------------------------------------------------------------------

Stored(i) == status[i] \in Statuses
Live(i)   == status[i] \in {"active", "pending"}

(* _find_duplicate: the row the partial index would collide with. *)
Duplicates(c) == {i \in Ids : Live(i) /\ text[i] = c}

(* The row with the next id. *)
Fresh(i) == status[i] = "none" /\ \A j \in Ids : j < i => status[j] # "none"

(* A version row of i, numbered one past its present version. *)
Snapshot(i, c, st, why) ==
    [n |-> version[i] + 1, text |-> c, status |-> st, why |-> why]

(* ux_mem_hash_scope would refuse c in another live row than i. *)
Collides(i, c) == Duplicates(c) \ {i} # {}

(* add, policy verdict live: an exact duplicate only has its counters and  *)
(* version bumped; a new row is inserted active, and its jobs are queued.  *)
AddLive(c) ==
    \/ \E i \in Duplicates(c) :
         /\ version[i] < MaxVersion
         /\ version' = [version EXCEPT ![i] = @ + 1]
         /\ UNCHANGED <<status, text, successor, trail, linked, history>>
    \/ \E i \in Ids :
         /\ Duplicates(c) = {} /\ Fresh(i)
         /\ status' = [status EXCEPT ![i] = "active"]
         /\ text' = [text EXCEPT ![i] = c]
         /\ version' = [version EXCEPT ![i] = 1]
         /\ trail' = [trail EXCEPT ![i] = {Snapshot(i, c, "active", "created")}]
         /\ linked' = [linked EXCEPT ![i] = 1]
         /\ held' = [held EXCEPT ![i] = {c}]
         /\ since' = [since EXCEPT ![i] = 1]
         /\ UNCHANGED <<successor, forgotten>>

(* add, policy verdict quarantine: a proposal, unless the content is there *)
(* already, live or proposed.  No jobs.  *)
AddPending(c) ==
    \E i \in Ids :
         /\ Duplicates(c) = {} /\ Fresh(i)
         /\ status' = [status EXCEPT ![i] = "pending"]
         /\ text' = [text EXCEPT ![i] = c]
         /\ version' = [version EXCEPT ![i] = 1]
         /\ trail' = [trail EXCEPT ![i] = {Snapshot(i, c, "pending", "quarantined")}]
         /\ held' = [held EXCEPT ![i] = {c}]
         /\ since' = [since EXCEPT ![i] = 1]
         /\ UNCHANGED <<successor, linked, forgotten>>

(* The row UPDATE of a content edit, with the version rows it writes. *)
Rewrite(i, c, snapshots) ==
    /\ text' = [text EXCEPT ![i] = c]
    /\ version' = [version EXCEPT ![i] = @ + 1]
    /\ trail' = [trail EXCEPT ![i] = @ \cup snapshots]
    /\ linked' = [linked EXCEPT ![i] = version[i] + 1]
    /\ held' = [held EXCEPT ![i] = @ \cup {c}]
    /\ since' = [since EXCEPT ![i] = version[i] + 1]
    /\ UNCHANGED <<status, successor, forgotten>>

(* Variant: the clash with another live row is not looked up first. *)
EditUnchecked(i, c) ==
    /\ Live(i) /\ version[i] < MaxVersion
    /\ Rewrite(i, c, {Snapshot(i, text[i], status[i], "edit")})

(* Variant: no version row. *)
EditUnrecorded(i, c) ==
    /\ Live(i) /\ version[i] < MaxVersion
    /\ ~Collides(i, c)
    /\ Rewrite(i, c, {})

(* update with a content: the old content goes to the trail under the new  *)
(* version number.  Content another live row has is refused beforehand.    *)
Edit(i, c) ==
    /\ Live(i) /\ version[i] < MaxVersion
    /\ ~Collides(i, c)
    /\ Rewrite(i, c, {Snapshot(i, text[i], status[i], "edit")})

(* update of anything else: versioned, but it queues no job. *)
EditMetadata(i) ==
    /\ Live(i) /\ version[i] < MaxVersion
    /\ version' = [version EXCEPT ![i] = @ + 1]
    /\ trail' = [trail EXCEPT ![i] = @ \cup {Snapshot(i, text[i], status[i], "edit")}]
    /\ UNCHANGED <<status, text, successor, linked, history>>

(* supersede: the replacement is added like any live row; if its content   *)
(* is there already the old row stays as it is. *)
Supersede(old, c) ==
    /\ Live(old) /\ version[old] < MaxVersion
    /\ \/ Duplicates(c) # {} /\ AddLive(c)
       \/ \E i \in Ids :
            /\ Duplicates(c) = {} /\ Fresh(i)
            /\ status' = [status EXCEPT ![i] = "active", ![old] = "superseded"]
            /\ text' = [text EXCEPT ![i] = c]
            /\ version' = [version EXCEPT ![i] = 1, ![old] = @ + 1]
            /\ successor' = [successor EXCEPT ![old] = i]
            /\ trail' = [trail EXCEPT
                    ![i]   = {Snapshot(i, c, "active", "supersede")},
                    ![old] = @ \cup {Snapshot(old, text[old], "superseded", "supersede")}]
            /\ linked' = [linked EXCEPT ![i] = 1]
            /\ held' = [held EXCEPT ![i] = {c}]
            /\ since' = [since EXCEPT ![i] = 1]
            /\ UNCHANGED forgotten

(* set_status for each row of S, in one transaction.  Becoming active      *)
(* queues the link job, not the embed job; successor is left as it is. *)
Move(S, to, why) ==
    /\ \A i \in S : version[i] < MaxVersion
    /\ status' = [i \in Ids |-> IF i \in S THEN to ELSE status[i]]
    /\ version' = [i \in Ids |-> IF i \in S THEN version[i] + 1 ELSE version[i]]
    /\ trail' = [i \in Ids |-> IF i \in S THEN trail[i] \cup {Snapshot(i, text[i], to, why)} ELSE trail[i]]
    /\ linked' = [i \in Ids |-> IF i \in S /\ to = "active" THEN version[i] + 1 ELSE linked[i]]
    /\ since' = [i \in Ids |-> IF i \in S /\ to = "active" THEN version[i] + 1 ELSE since[i]]
    /\ UNCHANGED <<text, successor, held>>

(* The review queue, reconcile and the TTL. *)
Promote(i) ==
    /\ status[i] = "pending"
    /\ Move({i}, "active", "promote")
    /\ UNCHANGED forgotten

Discard(S) ==
    /\ \A i \in S : status[i] = "pending"
    /\ Move(S, "deleted", "discard")
    /\ forgotten' = forgotten \cup S

Archive(S) ==
    /\ \A i \in S : status[i] = "active"
    /\ Move(S, "archived", "archive")
    /\ UNCHANGED forgotten

(* entropicmem_forget takes a row in any state but pending and deleted. *)
Forget(i) ==
    /\ status[i] \in {"active", "superseded", "archived"}
    /\ Move({i}, "deleted", "forget")
    /\ forgotten' = forgotten \cup {i}

(* retract_session: the active rows of the undone turns. *)
Retract(S) ==
    /\ \A i \in S : status[i] = "active"
    /\ Move(S, "deleted", "retracted_by_undo")
    /\ UNCHANGED forgotten

Deletions(i) == {r \in trail[i] : r.status = "deleted"}

(* Variant: any deletion of the row counts. *)
ReversibleEver(i) == \E r \in Deletions(i) : r.why = "retracted_by_undo"

(* check_deletion_reversal: the latest deletion was a retraction. *)
Reversible(i) ==
    \E r \in Deletions(i) :
        r.why = "retracted_by_undo" /\ \A q \in Deletions(i) : q.n <= r.n

(* review's restore: set_status to active with reason restore.  Nothing    *)
(* looks for another live row with the content: the unique index aborts    *)
(* the restore then. *)
Restore(i) ==
    /\ \/ status[i] = "superseded"
       \/ status[i] = "deleted" /\ Reversible(i)
    /\ ~Collides(i, text[i])
    /\ Move({i}, "active", "restore")
    /\ UNCHANGED forgotten

(* purge: the row and its trail are gone.  A row that another one's        *)
(* superseded_by refers to cannot be: the foreign key aborts the purge. *)
Purge(i) ==
    /\ Stored(i)
    /\ \A j \in Ids \ {i} : successor[j] # i
    /\ status' = [status EXCEPT ![i] = "purged"]
    /\ text' = [text EXCEPT ![i] = NoText]
    /\ version' = [version EXCEPT ![i] = 0]
    /\ successor' = [successor EXCEPT ![i] = 0]
    /\ trail' = [trail EXCEPT ![i] = {}]
    /\ linked' = [linked EXCEPT ![i] = 0]
    /\ held' = [held EXCEPT ![i] = {}]
    /\ since' = [since EXCEPT ![i] = 0]
    /\ UNCHANGED forgotten

Next ==
    \/ \E c \in Contents : AddLive(c) \/ AddPending(c)
    \/ \E i \in Ids :
         \/ \E c \in Contents : Edit(i, c) \/ Supersede(i, c)
         \/ EditMetadata(i) \/ Promote(i) \/ Forget(i) \/ Restore(i) \/ Purge(i)
    \/ \E S \in SUBSET Ids \ {{}} : Discard(S) \/ Archive(S) \/ Retract(S)

Spec == Init /\ [][Next]_vars

-----------------------------------------------------------------------------
(* Properties.                                                             *)

(* No two live rows say the same thing.  Only restore leaves this to the    *)
(* database; add, update, supersede and promotion look for themselves, so   *)
(* none of them is ever aborted by the unique index. *)
LiveContentUnique ==
    \A i, j \in Ids : Live(i) /\ Live(j) /\ text[i] = text[j] => i = j

(* "No overwrite without a version row": until a purge, every content a    *)
(* row ever had is its present content or in its trail. *)
NoContentLost ==
    \A i \in Ids : held[i] \subseteq {text[i]} \cup {r.text : r \in trail[i]}

(* The next version number of a row is always free in its trail, whatever  *)
(* mix of edits, duplicate bumps and status changes went before: the       *)
(* UNIQUE(memory_id, version) constraint never aborts a write. *)
TrailNumbersFree ==
    \A i \in Ids : \A r \in trail[i] : r.n <= version[i]

(* The trail of a row has all its contents, and room for the next. *)
TrailIsWhole == NoContentLost /\ TrailNumbersFree

(* A memory the user forgot or discarded never comes back, also when it    *)
(* had once been retracted by an undo and restored. *)
ForgottenStaysGone ==
    \A i \in forgotten : status[i] \in {"deleted", "purged"}

(* Every active row has a link job for the version at which it last became *)
(* live or changed its content, or for a later one. *)
LinkJobAsked ==
    \A i \in Ids : status[i] = "active" => linked[i] >= since[i]

=============================================================================
