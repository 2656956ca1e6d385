----------------------------- MODULE StoreProofs ------------------------------
(***************************************************************************)
(* Theorems about the rows of the store: MemoryStore, for any contents,    *)
(* rows and versions; and Episodes, for any providers, sessions, salient   *)
(* turns and number of turns and writes, and any clock.  The two share no  *)
(* state.                                                                  *)
(***************************************************************************)
EXTENDS MemoryStore, Episodes, FiniteSetTheorems, WellFoundedInduction, TLAPS

-----------------------------------------------------------------------------
(* MemoryStore.                                                            *)
(* Nine of the twelve operations are one of three effects on the rows: a   *)
(* new row, the rewriting of a row, the move of a set of rows to another   *)
(* status.  What an effect preserves is proved once, and the operations    *)
(* supply what their guards know.                                          *)

-----------------------------------------------------------------------------
(* The strengthening.                                                      *)

(* A row that is there has a text; one that is not there has neither a     *)
(* version nor a trail. *)
RowsFilled ==
    \A i \in Ids :
        /\ Stored(i) => text[i] \in Contents
        /\ ~Stored(i) => version[i] = 0 /\ trail[i] = {} /\ held[i] = {} /\ text[i] = NoText

(* The latest deletion of a row that was forgotten is not a retraction, and *)
(* no other deletion has its number. *)
GoneForGood ==
    \A i \in forgotten :
        \/ status[i] = "purged"
        \/ /\ status[i] = "deleted"
           /\ \E r \in Deletions(i) :
                /\ r.why # "retracted_by_undo"
                /\ \A q \in Deletions(i) : q = r \/ q.n < r.n

MemoryInv ==
    /\ TypeOK /\ RowsFilled
    /\ TrailNumbersFree /\ NoContentLost
    /\ LiveContentUnique
    /\ GoneForGood
    /\ LinkJobAsked

-----------------------------------------------------------------------------
(* A row is inserted. *)
Inserted(i, c, st, why) ==
    /\ Fresh(i) /\ i \in Ids /\ c \in Contents /\ Duplicates(c) = {}
    /\ status' = [status EXCEPT ![i] = st]
    /\ text' = [text EXCEPT ![i] = c]
    /\ version' = [version EXCEPT ![i] = 1]
    /\ trail' = [trail EXCEPT ![i] = {Snapshot(i, c, st, why)}]
    /\ held' = [held EXCEPT ![i] = {c}]
    /\ since' = [since EXCEPT ![i] = 1]

(* A duplicate is met: the row is only counted. *)
Bump(i) ==
    /\ Live(i) /\ version[i] < MaxVersion
    /\ version' = [version EXCEPT ![i] = @ + 1]
    /\ UNCHANGED <<status, text, successor, trail, linked, history>>

LEMMA SnapshotType ==
  ASSUME TypeOK, NEW i \in Ids, version[i] < MaxVersion, NEW c \in Contents,
         NEW st \in Statuses, NEW why \in Reasons
  PROVE  /\ Snapshot(i, c, st, why) \in [n : 1..MaxVersion, text : Contents,
                                         status : Statuses, why : Reasons]
         /\ version[i] + 1 \in 0..MaxVersion
  BY StoreConstants DEF TypeOK, Snapshot

-----------------------------------------------------------------------------
(* Types and filled rows. *)

LEMMA InitInv == Init => MemoryInv
<1> SUFFICES ASSUME Init PROVE MemoryInv
  OBVIOUS
<1>1. TypeOK
  BY StoreConstants DEF Init, TypeOK
<1>2. RowsFilled /\ TrailNumbersFree /\ NoContentLost /\ LinkJobAsked
  BY DEF Init, RowsFilled, TrailNumbersFree, NoContentLost, LinkJobAsked, Stored, Statuses
<1>3. LiveContentUnique /\ GoneForGood
  BY DEF Init, LiveContentUnique, GoneForGood, Live
<1> QED  BY <1>1, <1>2, <1>3 DEF MemoryInv

LEMMA InsertType ==
  ASSUME TypeOK, RowsFilled, NEW i, NEW c, NEW st \in {"active", "pending"},
         NEW why \in Reasons, Inserted(i, c, st, why), UNCHANGED <<successor, forgotten>>,
         linked' \in [Ids -> 0..MaxVersion]
  PROVE  TypeOK' /\ RowsFilled'
<1>1. i \in Ids /\ c \in Contents /\ version[i] = 0 /\ version[i] < MaxVersion
  BY StoreConstants DEF Inserted, Fresh, RowsFilled, Stored, Statuses, TypeOK
<1>2. Snapshot(i, c, st, why) \in [n : 1..MaxVersion, text : Contents,
                                   status : Statuses, why : Reasons]
  BY <1>1, SnapshotType DEF Statuses
<1>3. 1 \in 0..MaxVersion
  BY StoreConstants
<1>4. TypeOK'
  BY <1>1, <1>2, <1>3 DEF Inserted, TypeOK, Statuses
<1>5. RowsFilled'
  BY <1>1 DEF Inserted, TypeOK, RowsFilled, Stored, Statuses
<1> QED  BY <1>4, <1>5

LEMMA RewriteType ==
  ASSUME TypeOK, RowsFilled, NEW i \in Ids, NEW c \in Contents, Live(i),
         version[i] < MaxVersion, Rewrite(i, c, {Snapshot(i, text[i], status[i], "edit")})
  PROVE  TypeOK' /\ RowsFilled'
<1>1. status[i] \in Statuses /\ text[i] \in Contents
  BY DEF Live, RowsFilled, Stored, Statuses
<1>2. /\ Snapshot(i, text[i], status[i], "edit")
            \in [n : 1..MaxVersion, text : Contents, status : Statuses, why : Reasons]
      /\ version[i] + 1 \in 0..MaxVersion
  BY <1>1, SnapshotType DEF Reasons
<1>3. TypeOK'
  BY <1>1, <1>2 DEF Rewrite, TypeOK
<1>4. RowsFilled'
  BY <1>1 DEF Rewrite, TypeOK, RowsFilled, Stored
<1> QED  BY <1>3, <1>4

LEMMA MoveType ==
  ASSUME TypeOK, RowsFilled, NEW S \in SUBSET Ids, \A i \in S : Stored(i),
         NEW to \in Statuses, NEW why \in Reasons, Move(S, to, why), forgotten' \subseteq Ids
  PROVE  TypeOK' /\ RowsFilled'
<1>1. \A i \in S : /\ Snapshot(i, text[i], to, why)
                        \in [n : 1..MaxVersion, text : Contents, status : Statuses, why : Reasons]
                   /\ version[i] + 1 \in 0..MaxVersion
  BY SnapshotType DEF Move, RowsFilled
<1>2. TypeOK'
  <2>1. trail' \in [Ids -> SUBSET [n : 1..MaxVersion, text : Contents,
                                   status : Statuses, why : Reasons]]
    BY <1>1 DEF Move, TypeOK
  <2>2. /\ version' \in [Ids -> 0..MaxVersion] /\ linked' \in [Ids -> 0..MaxVersion]
        /\ since' \in [Ids -> 0..MaxVersion]
    BY <1>1 DEF Move, TypeOK
  <2>3. status' \in [Ids -> Statuses \cup {"none", "purged"}]
    BY DEF Move, TypeOK
  <2> QED  BY <2>1, <2>2, <2>3 DEF Move, TypeOK
<1>3. RowsFilled'
  BY DEF Move, TypeOK, RowsFilled, Stored
<1> QED  BY <1>2, <1>3

LEMMA PurgeType ==
  ASSUME TypeOK, RowsFilled, NEW i \in Ids, Purge(i)
  PROVE  TypeOK' /\ RowsFilled'
<1>1. TypeOK'
  BY StoreConstants DEF Purge, TypeOK
<1>2. RowsFilled'
  BY DEF Purge, TypeOK, RowsFilled, Stored, Statuses
<1> QED  BY <1>1, <1>2

-----------------------------------------------------------------------------
(* The numbers and the texts of the trail, and the link jobs. *)

TrailInv == TrailNumbersFree /\ NoContentLost /\ LinkJobAsked

LEMMA InsertTrail ==
  ASSUME TypeOK, RowsFilled, TrailInv, NEW i, NEW c, NEW st \in {"active", "pending"},
         NEW why \in Reasons, Inserted(i, c, st, why),
         linked' = IF st = "active" THEN [linked EXCEPT ![i] = 1] ELSE linked
  PROVE  TrailInv'
<1>1. i \in Ids /\ version[i] = 0
  BY DEF Inserted, Fresh, RowsFilled, Stored, Statuses
<1>2. TrailNumbersFree'
  BY <1>1 DEF Inserted, TypeOK, TrailInv, TrailNumbersFree, Snapshot
<1>3. NoContentLost'
  BY <1>1 DEF Inserted, TypeOK, TrailInv, NoContentLost
<1>4. LinkJobAsked'
  BY <1>1 DEF Inserted, TypeOK, TrailInv, LinkJobAsked
<1> QED  BY <1>2, <1>3, <1>4 DEF TrailInv

LEMMA RewriteTrail ==
  ASSUME TypeOK, RowsFilled, TrailInv, NEW i \in Ids, NEW c \in Contents,
         Rewrite(i, c, {Snapshot(i, text[i], status[i], "edit")})
  PROVE  TrailInv'
<1>1. TrailNumbersFree'
  BY DEF Rewrite, TypeOK, TrailInv, TrailNumbersFree, Snapshot
<1>2. NoContentLost'
  <2> SUFFICES ASSUME NEW j \in Ids, NEW d \in held'[j]
               PROVE  d = text'[j] \/ \E r \in trail'[j] : r.text = d
    BY DEF NoContentLost
  <2>1. CASE j = i /\ d = text[i]
    <3>1. Snapshot(i, text[i], status[i], "edit") \in trail'[i]
      BY DEF Rewrite, TypeOK
    <3>2. Snapshot(i, text[i], status[i], "edit").text = text[i]
      BY DEF Snapshot
    <3> QED  BY <2>1, <3>1, <3>2
  <2>2. CASE j = i /\ d # text[i]
    <3>1. d = c \/ d \in held[i]
      BY <2>2 DEF Rewrite, TypeOK
    <3>2. d \in held[i] => \E r \in trail[i] : r.text = d
      BY <2>2 DEF TrailInv, NoContentLost
    <3> QED  BY <2>2, <3>1, <3>2 DEF Rewrite, TypeOK
  <2>3. CASE j # i
    BY <2>3 DEF Rewrite, TypeOK, TrailInv, NoContentLost
  <2> QED  BY <2>1, <2>2, <2>3
<1>3. LinkJobAsked'
  BY DEF Rewrite, TypeOK, TrailInv, LinkJobAsked
<1> QED  BY <1>1, <1>2, <1>3 DEF TrailInv

LEMMA MoveTrail ==
  ASSUME TypeOK, RowsFilled, TrailInv, NEW S \in SUBSET Ids, NEW to, NEW why,
         Move(S, to, why)
  PROVE  TrailInv'
<1>1. TrailNumbersFree'
  BY DEF Move, TypeOK, TrailInv, TrailNumbersFree, Snapshot
<1>2. NoContentLost'
  BY DEF Move, TypeOK, TrailInv, NoContentLost
<1>3. LinkJobAsked'
  BY DEF Move, TypeOK, TrailInv, LinkJobAsked
<1> QED  BY <1>1, <1>2, <1>3 DEF TrailInv

-----------------------------------------------------------------------------
(* Live rows differ in what they say. *)

LEMMA InsertUnique ==
  ASSUME TypeOK, LiveContentUnique, NEW i, NEW c, NEW st, NEW why,
         Inserted(i, c, st, why)
  PROVE  LiveContentUnique'
BY DEF Inserted, TypeOK, LiveContentUnique, Duplicates, Live

LEMMA RewriteUnique ==
  ASSUME TypeOK, LiveContentUnique, NEW i \in Ids, NEW c, Live(i), ~Collides(i, c),
         NEW snapshots, Rewrite(i, c, snapshots)
  PROVE  LiveContentUnique'
BY DEF Rewrite, TypeOK, LiveContentUnique, Collides, Duplicates, Live

(* A row that moves stays live, leaves, or comes back without meeting its text. *)
LEMMA MoveUnique ==
  ASSUME TypeOK, LiveContentUnique, NEW S \in SUBSET Ids, NEW to, NEW why,
         Move(S, to, why),
         \/ to \notin {"active", "pending"}
         \/ \A i \in S : Live(i)
         \/ \E i \in Ids : S = {i} /\ ~Collides(i, text[i])
  PROVE  LiveContentUnique'
<1>1. CASE to \notin {"active", "pending"} \/ \A i \in S : Live(i)
  BY <1>1 DEF Move, TypeOK, LiveContentUnique, Live
<1>2. CASE \E i \in Ids : S = {i} /\ ~Collides(i, text[i])
  BY <1>2 DEF Move, TypeOK, LiveContentUnique, Live, Collides, Duplicates
<1> QED  BY <1>1, <1>2

-----------------------------------------------------------------------------
(* What was forgotten. *)

(* A row that is gone for good cannot be restored. *)
LEMMA GoneIsIrreversible ==
  ASSUME TypeOK, GoneForGood, NEW i \in forgotten
  PROVE  /\ status[i] \in {"deleted", "purged"}
         /\ status[i] = "deleted" => ~Reversible(i)
<1>1. status[i] \in {"deleted", "purged"}
  BY DEF GoneForGood
<1>2. ASSUME status[i] = "deleted", Reversible(i) PROVE FALSE
  <2>1. PICK r \in Deletions(i) : r.why # "retracted_by_undo"
                                 /\ \A q \in Deletions(i) : q = r \/ q.n < r.n
    BY <1>2 DEF GoneForGood
  <2>2. PICK p \in Deletions(i) : p.why = "retracted_by_undo"
                                 /\ \A q \in Deletions(i) : q.n <= p.n
    BY <1>2 DEF Reversible
  <2>3. p # r /\ p.n < r.n /\ r.n <= p.n
    BY <2>1, <2>2
  <2>4. p.n \in Int /\ r.n \in Int
    BY DEF TypeOK, Deletions
  <2> QED  BY <2>3, <2>4
<1> QED  BY <1>1, <1>2

(* No row of forgotten is touched. *)
LEMMA UntouchedGone ==
  ASSUME GoneForGood, forgotten' = forgotten,
         \A i \in forgotten : status'[i] = status[i] /\ trail'[i] = trail[i]
  PROVE  GoneForGood'
BY DEF GoneForGood, Deletions

(* A deletion that is not a retraction is the row's last. *)
LEMMA DeletedGone ==
  ASSUME TypeOK, TrailNumbersFree, GoneForGood, NEW S \in SUBSET Ids, NEW why,
         Move(S, "deleted", why), why # "retracted_by_undo", S \cap forgotten = {},
         forgotten' = forgotten \cup S
  PROVE  GoneForGood'
<1>1. ASSUME NEW i \in S
      PROVE  /\ status'[i] = "deleted"
             /\ \E r \in Deletions(i)' :
                   /\ r.why # "retracted_by_undo"
                   /\ \A q \in Deletions(i)' : q = r \/ q.n < r.n
  <2> DEFINE r == Snapshot(i, text[i], "deleted", why)
  <2>1. trail'[i] = trail[i] \cup {r} /\ status'[i] = "deleted"
    BY DEF Move, TypeOK
  <2>2. r \in Deletions(i)' /\ r.why # "retracted_by_undo" /\ r.n = version[i] + 1
    BY <2>1 DEF Deletions, Snapshot
  <2>3. \A q \in Deletions(i)' : q = r \/ q.n < r.n
    BY <2>1, <2>2 DEF Deletions, TrailNumbersFree, TypeOK
  <2> QED  BY <2>1, <2>2, <2>3
<1>2. ASSUME NEW i \in forgotten
      PROVE  status'[i] = status[i] /\ trail'[i] = trail[i]
  BY DEF Move, TypeOK
<1> QED  BY <1>1, <1>2 DEF GoneForGood, Deletions

-----------------------------------------------------------------------------
(* One lemma per operation. *)

LEMMA BumpInv ==
  ASSUME MemoryInv, NEW i \in Ids, Bump(i)
  PROVE  MemoryInv'
<1> USE DEF MemoryInv
<1>1. TypeOK' /\ RowsFilled'
  <2>1. version[i] + 1 \in 0..MaxVersion
    BY StoreConstants DEF Bump, TypeOK
  <2>2. TypeOK'
    BY <2>1 DEF Bump, TypeOK, history
  <2>3. RowsFilled'
    BY DEF Bump, TypeOK, history, RowsFilled, Stored, Live, Statuses
  <2> QED  BY <2>2, <2>3
<1>2. TrailNumbersFree' /\ NoContentLost' /\ LinkJobAsked'
  <2>1. TrailNumbersFree'
    <3> SUFFICES ASSUME NEW j \in Ids, NEW r \in trail[j] PROVE r.n <= version'[j]
      BY DEF Bump, TrailNumbersFree
    <3>1. r.n <= version[j] /\ r.n \in Int /\ version[j] \in Int
      BY DEF TrailNumbersFree, TypeOK
    <3> QED  BY <3>1 DEF Bump, TypeOK
  <2>2. NoContentLost' /\ LinkJobAsked'
    BY DEF Bump, history, NoContentLost, LinkJobAsked
  <2> QED  BY <2>1, <2>2
<1>3. LiveContentUnique'
  BY DEF Bump, LiveContentUnique, Live
<1>4. GoneForGood'
  BY UntouchedGone DEF Bump, history
<1> QED  BY <1>1, <1>2, <1>3, <1>4

(* A fresh row was never forgotten. *)
LEMMA InsertInv ==
  ASSUME MemoryInv, NEW i, NEW c, NEW st \in {"active", "pending"}, NEW why \in Reasons,
         Inserted(i, c, st, why), UNCHANGED <<successor, forgotten>>,
         linked' = IF st = "active" THEN [linked EXCEPT ![i] = 1] ELSE linked
  PROVE  MemoryInv'
<1> USE DEF MemoryInv
<1>1. linked' \in [Ids -> 0..MaxVersion]
  <2>1. 1 \in 0..MaxVersion /\ linked \in [Ids -> 0..MaxVersion]
    BY StoreConstants DEF TypeOK
  <2> QED  BY <2>1
<1>2. TypeOK' /\ RowsFilled'
  BY <1>1, InsertType
<1>3. TrailInv'
  BY InsertTrail DEF TrailInv
<1>4. LiveContentUnique'
  BY InsertUnique
<1>5. i \notin forgotten
  BY GoneIsIrreversible DEF Inserted, Fresh
<1>6. GoneForGood'
  BY <1>5, UntouchedGone DEF Inserted, TypeOK
<1> QED  BY <1>2, <1>3, <1>4, <1>6 DEF TrailInv

LEMMA AddLiveInv == ASSUME MemoryInv, NEW c \in Contents, AddLive(c) PROVE MemoryInv'
<1>1. CASE \E i \in Duplicates(c) : /\ version[i] < MaxVersion
                                    /\ version' = [version EXCEPT ![i] = @ + 1]
                                    /\ UNCHANGED <<status, text, successor, trail, linked, history>>
  BY <1>1, BumpInv DEF Bump, Duplicates
<1>2. ASSUME NEW i \in Ids,
             Duplicates(c) = {}, Fresh(i),
             status' = [status EXCEPT ![i] = "active"],
             text' = [text EXCEPT ![i] = c],
             version' = [version EXCEPT ![i] = 1],
             trail' = [trail EXCEPT ![i] = {Snapshot(i, c, "active", "created")}],
             linked' = [linked EXCEPT ![i] = 1],
             held' = [held EXCEPT ![i] = {c}],
             since' = [since EXCEPT ![i] = 1],
             UNCHANGED <<successor, forgotten>>
      PROVE  MemoryInv'
  <2>1. Inserted(i, c, "active", "created")
    BY <1>2 DEF Inserted
  <2>2. "created" \in Reasons
    BY DEF Reasons
  <2> QED  BY <1>2, <2>1, <2>2, InsertInv
<1> QED  BY <1>1, <1>2 DEF AddLive

LEMMA AddPendingInv == ASSUME MemoryInv, NEW c \in Contents, AddPending(c) PROVE MemoryInv'
<1>1. PICK i \in Ids :
        /\ Inserted(i, c, "pending", "quarantined")
        /\ UNCHANGED <<successor, linked, forgotten>>
  BY DEF AddPending, Inserted
<1>2. "quarantined" \in Reasons
  BY DEF Reasons
<1> QED  BY <1>1, <1>2, InsertInv

LEMMA EditInv == ASSUME MemoryInv, NEW i \in Ids, NEW c \in Contents, Edit(i, c) PROVE MemoryInv'
<1> USE DEF MemoryInv, Edit
<1>1. TypeOK' /\ RowsFilled'
  BY RewriteType
<1>2. TrailInv'
  BY RewriteTrail DEF TrailInv
<1>3. LiveContentUnique'
  BY RewriteUnique
<1>4. i \notin forgotten
  BY GoneIsIrreversible DEF Live
<1>5. GoneForGood'
  BY <1>4, UntouchedGone DEF Rewrite, TypeOK
<1> QED  BY <1>1, <1>2, <1>3, <1>5 DEF TrailInv

LEMMA EditMetadataInv == ASSUME MemoryInv, NEW i \in Ids, EditMetadata(i) PROVE MemoryInv'
<1> USE DEF MemoryInv, history
<1> DEFINE r == Snapshot(i, text[i], status[i], "edit")
<1>1. status[i] \in Statuses /\ text[i] \in Contents /\ version[i] < MaxVersion
  BY DEF EditMetadata, Live, RowsFilled, Stored, Statuses
<1>2. /\ r \in [n : 1..MaxVersion, text : Contents, status : Statuses, why : Reasons]
      /\ version[i] + 1 \in 0..MaxVersion
  BY <1>1, SnapshotType DEF Reasons
<1>3. TypeOK' /\ RowsFilled'
  <2>1. TypeOK'
    BY <1>2 DEF EditMetadata, TypeOK
  <2>2. RowsFilled'
    BY <1>1 DEF EditMetadata, TypeOK, RowsFilled, Stored
  <2> QED  BY <2>1, <2>2
<1>4. TrailNumbersFree'
  BY DEF EditMetadata, TypeOK, TrailNumbersFree, Snapshot
<1>5. NoContentLost' /\ LinkJobAsked' /\ LiveContentUnique'
  <2>1. \A j \in Ids : trail[j] \subseteq trail'[j]
    BY DEF EditMetadata, TypeOK
  <2>2. NoContentLost'
    BY <2>1 DEF EditMetadata, NoContentLost
  <2>3. LinkJobAsked' /\ LiveContentUnique'
    BY DEF EditMetadata, LinkJobAsked, LiveContentUnique, Live
  <2> QED  BY <2>2, <2>3
<1>6. i \notin forgotten
  BY GoneIsIrreversible DEF EditMetadata, Live
<1>7. GoneForGood'
  BY <1>6, UntouchedGone DEF EditMetadata, TypeOK
<1> QED  BY <1>3, <1>4, <1>5, <1>7

(* Only the new row can clash, and its text was not there; the old row      *)
(* leaves a snapshot of its text. *)
LEMMA SupersedeInv ==
  ASSUME MemoryInv, NEW old \in Ids, NEW c \in Contents, Supersede(old, c)
  PROVE  MemoryInv'
<1>1. CASE AddLive(c)
  BY <1>1, AddLiveInv
<1>2. ASSUME NEW i \in Ids, Live(old), version[old] < MaxVersion,
             Duplicates(c) = {}, Fresh(i),
             status' = [status EXCEPT ![i] = "active", ![old] = "superseded"],
             text' = [text EXCEPT ![i] = c],
             version' = [version EXCEPT ![i] = 1, ![old] = @ + 1],
             successor' = [successor EXCEPT ![old] = i],
             trail' = [trail EXCEPT
                 ![i]   = {Snapshot(i, c, "active", "supersede")},
                 ![old] = @ \cup {Snapshot(old, text[old], "superseded", "supersede")}],
             linked' = [linked EXCEPT ![i] = 1],
             held' = [held EXCEPT ![i] = {c}],
             since' = [since EXCEPT ![i] = 1],
             forgotten' = forgotten
      PROVE  MemoryInv'
  <2> USE DEF MemoryInv
  <2>1. /\ status[i] = "none" /\ i # old /\ version[i] = 0 /\ version[i] < MaxVersion
        /\ text[old] \in Contents
    BY <1>2, StoreConstants DEF Fresh, Live, RowsFilled, Stored, Statuses
  <2>2. /\ Snapshot(i, c, "active", "supersede")
              \in [n : 1..MaxVersion, text : Contents, status : Statuses, why : Reasons]
        /\ Snapshot(old, text[old], "superseded", "supersede")
              \in [n : 1..MaxVersion, text : Contents, status : Statuses, why : Reasons]
        /\ 1 \in 0..MaxVersion /\ version[old] + 1 \in 0..MaxVersion
    BY <1>2, <2>1, SnapshotType, StoreConstants DEF Statuses, Reasons
  <2>3. \A j \in Ids : /\ j # i /\ j # old => /\ status'[j] = status[j]
                                               /\ version'[j] = version[j]
                                               /\ trail'[j] = trail[j]
                       /\ j # i => /\ text'[j] = text[j] /\ held'[j] = held[j]
                                   /\ linked'[j] = linked[j] /\ since'[j] = since[j]
    BY <1>2 DEF TypeOK
  <2>4. /\ status'[i] = "active" /\ status'[old] = "superseded"
        /\ version'[i] = 1 /\ version'[old] = version[old] + 1
        /\ text'[i] = c /\ held'[i] = {c} /\ linked'[i] = 1 /\ since'[i] = 1
        /\ trail'[i] = {Snapshot(i, c, "active", "supersede")}
        /\ trail'[old] = trail[old] \cup {Snapshot(old, text[old], "superseded", "supersede")}
    BY <1>2, <2>1 DEF TypeOK
  <2>5. TypeOK'
    <3>1. /\ status' \in [Ids -> Statuses \cup {"none", "purged"}]
          /\ text' \in [Ids -> Contents \cup {NoText}]
          /\ successor' \in [Ids -> Ids \cup {0}]
          /\ held' \in [Ids -> SUBSET Contents] /\ forgotten' \subseteq Ids
      BY <1>2 DEF TypeOK, Statuses
    <3>2. /\ version' \in [Ids -> 0..MaxVersion] /\ linked' \in [Ids -> 0..MaxVersion]
          /\ since' \in [Ids -> 0..MaxVersion]
      BY <1>2, <2>2 DEF TypeOK
    <3>3. trail' \in [Ids -> SUBSET [n : 1..MaxVersion, text : Contents,
                                     status : Statuses, why : Reasons]]
      BY <1>2, <2>2 DEF TypeOK
    <3> QED  BY <3>1, <3>2, <3>3 DEF TypeOK
  <2>6. RowsFilled'
    <3> SUFFICES ASSUME NEW j \in Ids
                 PROVE  /\ Stored(j)' => text'[j] \in Contents
                        /\ ~Stored(j)' => /\ version'[j] = 0 /\ trail'[j] = {}
                                           /\ held'[j] = {} /\ text'[j] = NoText
      BY DEF RowsFilled
    <3>1. CASE j = i
      BY <3>1, <2>4 DEF Stored, Statuses
    <3>2. CASE j = old
      BY <3>2, <2>1, <2>3, <2>4 DEF Stored, Statuses
    <3>3. CASE j # i /\ j # old
      BY <3>3, <2>3 DEF RowsFilled, Stored
    <3> QED  BY <3>1, <3>2, <3>3
  <2>7. TrailNumbersFree'
    <3> SUFFICES ASSUME NEW j \in Ids, NEW r \in trail'[j] PROVE r.n <= version'[j]
      BY DEF TrailNumbersFree
    <3>1. CASE j = i
      BY <3>1, <2>1, <2>4 DEF Snapshot
    <3>2. CASE j = old
      BY <3>2, <2>1, <2>4 DEF Snapshot, TrailNumbersFree, TypeOK
    <3>3. CASE j # i /\ j # old
      BY <3>3, <2>3 DEF TrailNumbersFree
    <3> QED  BY <3>1, <3>2, <3>3
  <2>8. NoContentLost'
    <3>1. \A j \in Ids : j # i => trail[j] \subseteq trail'[j]
      BY <2>3, <2>4
    <3> QED  BY <2>3, <2>4, <3>1 DEF NoContentLost
  <2>9. LinkJobAsked'
    BY <2>3, <2>4 DEF LinkJobAsked
  <2>10. LiveContentUnique'
    <3>1. \A j \in Ids : Live(j)' /\ j # i => Live(j) /\ text'[j] = text[j]
      BY <2>3, <2>4 DEF Live
    <3>2. \A j \in Ids : Live(j) => text[j] # c
      BY <1>2 DEF Duplicates
    <3> QED  BY <2>4, <3>1, <3>2 DEF LiveContentUnique, Live
  <2>11. i \notin forgotten /\ old \notin forgotten
    BY <1>2, <2>1, GoneIsIrreversible DEF Live
  <2>12. GoneForGood'
    <3>1. forgotten \subseteq Ids
      BY DEF TypeOK
    <3> QED  BY <1>2, <2>3, <2>11, <3>1, UntouchedGone
  <2> QED  BY <2>5, <2>6, <2>7, <2>8, <2>9, <2>10, <2>12
<1> QED  BY <1>1, <1>2 DEF Supersede

(* A move keeps the invariant when it cannot make two live rows alike and   *)
(* what is forgotten is still gone for good. *)
LEMMA MoveInv ==
  ASSUME MemoryInv, NEW S \in SUBSET Ids, \A i \in S : Stored(i),
         NEW to \in Statuses, NEW why \in Reasons, Move(S, to, why), forgotten' \subseteq Ids,
         \/ to \notin {"active", "pending"}
         \/ \E i \in Ids : S = {i} /\ ~Collides(i, text[i]),
         GoneForGood'
  PROVE  MemoryInv'
<1> USE DEF MemoryInv
<1>1. TypeOK' /\ RowsFilled'
  BY MoveType
<1>2. TrailInv'
  BY MoveTrail DEF TrailInv
<1>3. LiveContentUnique'
  BY MoveUnique
<1> QED  BY <1>1, <1>2, <1>3 DEF TrailInv

(* A move of rows that were not forgotten leaves those alone. *)
LEMMA MoveBesideGone ==
  ASSUME MemoryInv, NEW S \in SUBSET Ids, NEW to, NEW why, Move(S, to, why),
         S \cap forgotten = {}, forgotten' = forgotten
  PROVE  GoneForGood'
<1>1. \A i \in forgotten : status'[i] = status[i] /\ trail'[i] = trail[i]
  BY DEF Move, MemoryInv, TypeOK
<1> QED  BY <1>1, UntouchedGone DEF MemoryInv

(* A pending row may be published: its text is in no other live row. *)
LEMMA PromoteInv == ASSUME MemoryInv, NEW i \in Ids, Promote(i) PROVE MemoryInv'
<1>1. ~Collides(i, text[i])
  BY DEF Promote, MemoryInv, LiveContentUnique, Collides, Duplicates, Live
<1>2. i \notin forgotten
  BY GoneIsIrreversible DEF Promote, MemoryInv
<1>3. GoneForGood' /\ forgotten' \subseteq Ids
  BY <1>2, MoveBesideGone DEF Promote, MemoryInv, TypeOK
<1>4. Stored(i) /\ "active" \in Statuses /\ "promote" \in Reasons
  BY DEF Promote, Stored, Statuses, Reasons
<1> QED  BY <1>1, <1>3, <1>4, MoveInv DEF Promote

LEMMA DiscardInv == ASSUME MemoryInv, NEW S \in SUBSET Ids, Discard(S) PROVE MemoryInv'
<1>1. S \cap forgotten = {} /\ \A i \in S : Stored(i)
  BY GoneIsIrreversible DEF Discard, MemoryInv, Stored, Statuses
<1>2. GoneForGood' /\ forgotten' \subseteq Ids
  BY <1>1, DeletedGone DEF Discard, MemoryInv, TypeOK
<1>3. "deleted" \in Statuses /\ "discard" \in Reasons
  BY DEF Statuses, Reasons
<1> QED  BY <1>1, <1>2, <1>3, MoveInv DEF Discard

LEMMA ForgetInv == ASSUME MemoryInv, NEW i \in Ids, Forget(i) PROVE MemoryInv'
<1>1. {i} \cap forgotten = {} /\ Stored(i)
  BY GoneIsIrreversible DEF Forget, MemoryInv, Stored, Statuses
<1>2. GoneForGood' /\ forgotten' \subseteq Ids
  BY <1>1, DeletedGone DEF Forget, MemoryInv, TypeOK
<1>3. "deleted" \in Statuses /\ "forget" \in Reasons
  BY DEF Statuses, Reasons
<1> QED  BY <1>1, <1>2, <1>3, MoveInv DEF Forget

LEMMA ArchiveInv == ASSUME MemoryInv, NEW S \in SUBSET Ids, Archive(S) PROVE MemoryInv'
<1>1. S \cap forgotten = {} /\ \A i \in S : Stored(i)
  BY GoneIsIrreversible DEF Archive, MemoryInv, Stored, Statuses
<1>2. GoneForGood' /\ forgotten' \subseteq Ids
  BY <1>1, MoveBesideGone DEF Archive, MemoryInv, TypeOK
<1>3. "archived" \in Statuses /\ "archive" \in Reasons
  BY DEF Statuses, Reasons
<1> QED  BY <1>1, <1>2, <1>3, MoveInv DEF Archive

LEMMA RetractInv == ASSUME MemoryInv, NEW S \in SUBSET Ids, Retract(S) PROVE MemoryInv'
<1>1. S \cap forgotten = {} /\ \A i \in S : Stored(i)
  BY GoneIsIrreversible DEF Retract, MemoryInv, Stored, Statuses
<1>2. GoneForGood' /\ forgotten' \subseteq Ids
  BY <1>1, MoveBesideGone DEF Retract, MemoryInv, TypeOK
<1>3. "deleted" \in Statuses /\ "retracted_by_undo" \in Reasons
  BY DEF Statuses, Reasons
<1> QED  BY <1>1, <1>2, <1>3, MoveInv DEF Retract

(* Neither a superseded row nor one whose latest deletion was a retraction  *)
(* was forgotten. *)
LEMMA RestoreInv == ASSUME MemoryInv, NEW i \in Ids, Restore(i) PROVE MemoryInv'
<1>1. {i} \cap forgotten = {} /\ Stored(i)
  BY GoneIsIrreversible DEF Restore, MemoryInv, Stored, Statuses
<1>2. GoneForGood' /\ forgotten' \subseteq Ids
  BY <1>1, MoveBesideGone DEF Restore, MemoryInv, TypeOK
<1>3. "active" \in Statuses /\ "restore" \in Reasons
  BY DEF Statuses, Reasons
<1> QED  BY <1>1, <1>2, <1>3, MoveInv DEF Restore

LEMMA PurgeInv == ASSUME MemoryInv, NEW i \in Ids, Purge(i) PROVE MemoryInv'
<1> USE DEF MemoryInv
<1>1. TypeOK' /\ RowsFilled'
  BY PurgeType
<1>2. TrailNumbersFree' /\ NoContentLost' /\ LinkJobAsked'
  BY DEF Purge, TypeOK, TrailNumbersFree, NoContentLost, LinkJobAsked
<1>3. LiveContentUnique'
  BY DEF Purge, TypeOK, LiveContentUnique, Live
<1>4. GoneForGood'
  BY DEF Purge, TypeOK, GoneForGood, Deletions
<1> QED  BY <1>1, <1>2, <1>3, <1>4

-----------------------------------------------------------------------------
(* The theorems. *)

LEMMA NextInv == MemoryInv /\ [Next]_vars => MemoryInv'
<1> SUFFICES ASSUME MemoryInv, [Next]_vars PROVE MemoryInv'
  OBVIOUS
<1>1. CASE \E c \in Contents : AddLive(c) \/ AddPending(c)
  BY <1>1, AddLiveInv, AddPendingInv
<1>2. CASE \E i \in Ids, c \in Contents : Edit(i, c) \/ Supersede(i, c)
  BY <1>2, EditInv, SupersedeInv
<1>3. CASE \E i \in Ids : EditMetadata(i) \/ Promote(i) \/ Forget(i) \/ Restore(i) \/ Purge(i)
  BY <1>3, EditMetadataInv, PromoteInv, ForgetInv, RestoreInv, PurgeInv
<1>4. CASE \E S \in SUBSET Ids \ {{}} : Discard(S) \/ Archive(S) \/ Retract(S)
  BY <1>4, DiscardInv, ArchiveInv, RetractInv
<1>5. CASE UNCHANGED vars
  BY <1>5 DEF vars, MemoryInv, TypeOK, RowsFilled, TrailNumbersFree, NoContentLost,
              LiveContentUnique, GoneForGood, LinkJobAsked, Stored, Live, Deletions
<1> QED  BY <1>1, <1>2, <1>3, <1>4, <1>5 DEF Next

LEMMA Invariance == Spec => []MemoryInv
  BY InitInv, NextInv, PTL DEF Spec

(* The table, the trails and the history stay what they are, for any        *)
(* contents, rows and versions. *)
THEOREM MemoryTypes == Spec => []TypeOK
  BY Invariance, PTL DEF MemoryInv

(* The unique index is never met by add, update, supersede or promotion     *)
(* (store/memories.py): no two live rows ever say the same. *)
THEOREM LiveContentIsUnique == Spec => []LiveContentUnique
  BY Invariance, PTL DEF MemoryInv

(* Every content a row had is in the row or in its version trail, and the   *)
(* next version number is free (memory_versions). *)
THEOREM TrailStaysWhole == Spec => []TrailIsWhole
<1>1. MemoryInv => TrailIsWhole
  BY DEF MemoryInv, TrailIsWhole
<1> QED  BY Invariance, <1>1, PTL

(* What the user forgot or discarded stays gone: restore takes a deleted    *)
(* row back only when its latest deletion was an undo's. *)
THEOREM ForgottenAreGone == Spec => []ForgottenStaysGone
<1>1. MemoryInv => ForgottenStaysGone
  BY GoneIsIrreversible DEF MemoryInv, ForgottenStaysGone
<1> QED  BY Invariance, <1>1, PTL

(* A row that is active has a link job for its present text or for a later  *)
(* version. *)
THEOREM LinkJobsAreAsked == Spec => []LinkJobAsked
  BY Invariance, PTL DEF MemoryInv

-----------------------------------------------------------------------------
(* The strengthening. *)

(* A row has all its columns. *)
Whole(r) == r = [kind |-> r.kind, session |-> r.session, window |-> r.window,
                 text |-> r.text, stamp |-> r.stamp]

Kinds == {"session", "manual", "delegation", "precompress"}

RowsOK ==
    /\ IsFiniteSet(DOMAIN episodes)
    /\ \A k \in DOMAIN episodes :
           /\ Whole(episodes[k])
           /\ episodes[k].kind \in Kinds /\ episodes[k].session \in Sessions
           /\ episodes[k].text \subseteq 1..turns \cup Pins
           /\ episodes[k].stamp \in 1..now
           /\ episodes[k].kind = "manual" <=> episodes[k].session = ""

(* What the embed jobs and their runs are about is a row. *)
JobsOK ==
    /\ \A j \in jobs : j = <<j[1], j[2]>> /\ j[1] \in DOMAIN episodes /\ j[2] \in 1..now
    /\ \A r \in reading : r = <<r[1], r[2]>> /\ r[1][1] \in DOMAIN episodes /\ r[1][2] \in 1..now
    /\ DOMAIN embedded \subseteq DOMAIN episodes

TalkOK ==
    /\ sid \in [Providers -> Sessions]
    /\ talk \in [Providers -> SUBSET (1..turns)]
    /\ toSync \in [Providers -> SUBSET (1..turns)] /\ buffer \in [Providers -> SUBSET (1..turns)]
    /\ DOMAIN flush = Providers
    /\ \A p \in Providers : flush[p] # NoFlush =>
           /\ flush[p].session = sid[p] /\ flush[p].text \subseteq 1..turns
    /\ turns \in 0..MaxTurns /\ now \in 0..MaxWrites

Shape == RowsOK /\ JobsOK /\ TalkOK

-----------------------------------------------------------------------------
(* What a write does to the rows. *)
Put(key, kind, s, words) ==
    /\ now' \in {now, now + 1} /\ now' \in 1..MaxWrites
    /\ ~SameMoment => now' = now + 1
    /\ jobs' = jobs \cup {<<key, now'>>}
    /\ DOMAIN episodes' = DOMAIN episodes \cup {key}
    /\ \A k \in DOMAIN episodes : k # key => episodes'[k] = episodes[k]
    /\ Whole(episodes'[key])
    /\ episodes'[key].text = words /\ episodes'[key].stamp = now'
    /\ key \in DOMAIN episodes =>
           /\ episodes'[key].session = episodes[key].session
           /\ episodes'[key].kind = episodes[key].kind
           /\ episodes[key].kind # "manual"
    /\ key \notin DOMAIN episodes =>
           /\ episodes'[key].session = s
           /\ episodes'[key].kind = IF s = "" THEN "manual" ELSE kind
           /\ s = "" => kind = "session"

LEMMA WriteFacts ==
    ASSUME EpisodeConstants, Shape, NEW key, NEW kind \in Kinds \ {"manual"},
           NEW s \in Sessions, NEW words, WriteEpisode(key, kind, s, words)
    PROVE  Put(key, kind, s, words)
<1> DEFINE window == Cardinality({k \in DOMAIN episodes :
                      episodes[k].kind = kind /\ episodes[k].session = s})
           row(t) == IF key \in DOMAIN episodes THEN [episodes[key] EXCEPT !.text = words, !.stamp = t]
                  ELSE [kind |-> IF s = "" THEN "manual" ELSE kind, session |-> s,
                        window |-> IF s = "" THEN 0 ELSE window, text |-> words, stamp |-> t]
           stamp  == IF SameMoment THEN {now, now + 1} \cap 1..MaxWrites ELSE {now + 1}
<1>1. PICK t \in stamp : /\ now' = t
                         /\ episodes' = [k \in DOMAIN episodes \cup {key} |->
                                   IF k = key THEN row(t) ELSE episodes[k]]
                         /\ jobs' = jobs \cup {<<key, t>>}
                         /\ now < MaxWrites /\ ~Raises(key, kind, s)
  BY Zenon DEF WriteEpisode
<1> USE DEF Put
<1>2. now \in Nat /\ MaxWrites \in Nat /\ SameMoment \in BOOLEAN
  BY DEF Shape, TalkOK, EpisodeConstants
<1>3. t \in {now, now + 1} /\ t \in 1..MaxWrites /\ (~SameMoment => t = now + 1)
  <2>1. CASE SameMoment
    BY <1>1, <1>2, <2>1
  <2>2. CASE ~SameMoment
    <3>1. t \in {now + 1}
      BY <2>2, Zenon
    <3> HIDE DEF stamp, row
    <3> QED BY <1>1, <1>2, <2>2, <3>1
  <2> QED BY <1>2, <2>1, <2>2
<1>4. episodes'[key] = row(t)
  BY <1>1
<1>5. CASE key \in DOMAIN episodes
  <2>1. Whole(episodes[key])
    BY <1>5 DEF Shape, RowsOK
  <2>2. episodes'[key] = [episodes[key] EXCEPT !.text = words, !.stamp = t]
    BY <1>4, <1>5
  <2>3. episodes'[key] = [kind |-> episodes[key].kind, session |-> episodes[key].session,
                          window |-> episodes[key].window, text |-> words, stamp |-> t]
    BY <2>1, <2>2 DEF Whole
  <2> QED BY <1>1, <1>3, <1>5, <2>3 DEF Whole, Raises
<1>6. CASE key \notin DOMAIN episodes
  <2>1. episodes'[key] = [kind |-> IF s = "" THEN "manual" ELSE kind, session |-> s,
                          window |-> IF s = "" THEN 0 ELSE window, text |-> words, stamp |-> t]
    BY <1>4, <1>6
  <2> HIDE DEF window
  <2> QED BY <1>1, <1>3, <1>6, <2>1 DEF Whole, Raises
<1> QED BY <1>5, <1>6

(* A hook writes nothing, or one row of its own session. *)
Hooked ==
    \/ Unwritten
    \/ \E key : \E kind \in Kinds \ {"manual"}, s \in Sessions, words \in SUBSET (1..turns \cup Pins) :
           WriteEpisode(key, kind, s, words)

LEMMA HookKeepsRows ==
    ASSUME EpisodeConstants, Shape, turns' \in Nat, turns <= turns', Beside, Hooked
    PROVE  RowsOK' /\ JobsOK' /\ now' \in 0..MaxWrites
<1>0. turns \in Nat /\ now \in Nat /\ MaxWrites \in Nat
  BY DEF Shape, TalkOK, EpisodeConstants
<1>1. CASE Unwritten
  <2>0. \A k \in DOMAIN episodes : episodes[k].text \subseteq 1..turns' \cup Pins
    <3>1. 1..turns \subseteq 1..turns'
      BY <1>0
    <3> QED BY <3>1 DEF Shape, RowsOK
  <2>1. RowsOK'
    BY <1>0, <1>1, <2>0 DEF Unwritten, Shape, RowsOK, Whole
  <2>2. JobsOK'
    BY <1>0, <1>1 DEF Unwritten, Beside, Shape, JobsOK
  <2>3. now' \in 0..MaxWrites
    BY <1>0, <1>1 DEF Unwritten, Shape, TalkOK
  <2> QED BY <2>1, <2>2, <2>3
<1>2. ASSUME NEW key, NEW kind \in Kinds \ {"manual"}, NEW s \in Sessions,
             NEW words \in SUBSET (1..turns \cup Pins), WriteEpisode(key, kind, s, words)
      PROVE  RowsOK' /\ JobsOK' /\ now' \in 0..MaxWrites
  <2>1. Put(key, kind, s, words)
    BY <1>2, WriteFacts
  <2>2. now' \in Nat /\ now <= now' /\ now' \in 1..MaxWrites
    <3>1. now' \in {now, now + 1} /\ now' \in 1..MaxWrites
      BY <2>1 DEF Put
    <3> QED BY <1>0, <3>1
  <2>3. DOMAIN episodes' = DOMAIN episodes \cup {key} /\ IsFiniteSet(DOMAIN episodes)
    BY <2>1 DEF Put, Shape, RowsOK
  <2>4. IsFiniteSet(DOMAIN episodes')
    BY <2>3, FS_AddElement
  <2>5. ASSUME NEW k \in DOMAIN episodes'
        PROVE  /\ Whole(episodes'[k])
               /\ episodes'[k].kind \in Kinds /\ episodes'[k].session \in Sessions
               /\ episodes'[k].text \subseteq 1..turns \cup Pins
               /\ episodes'[k].stamp \in 1..now'
               /\ episodes'[k].kind = "manual" <=> episodes'[k].session = ""
    <3>1. CASE k # key
      <4>1. k \in DOMAIN episodes /\ episodes'[k] = episodes[k]
        BY <2>1, <2>3, <3>1 DEF Put
      <4>2. episodes[k].stamp \in 1..now
        BY <4>1 DEF Shape, RowsOK
      <4>3. episodes'[k].stamp \in 1..now'
        BY <1>0, <2>2, <4>1, <4>2
      <4> QED BY <4>1, <4>3 DEF Shape, RowsOK
    <3>2. CASE k = key
      <4>1. /\ Whole(episodes'[k]) /\ episodes'[k].text \subseteq 1..turns \cup Pins
            /\ episodes'[k].stamp = now'
        BY <2>1, <3>2 DEF Put
      <4>2. episodes'[k].stamp \in 1..now'
        BY <2>2, <4>1
      <4>3. CASE key \in DOMAIN episodes
        <5>1. episodes'[k].session = episodes[k].session /\ episodes'[k].kind = episodes[k].kind
          BY <2>1, <3>2, <4>3 DEF Put
        <5> QED BY <3>2, <4>1, <4>2, <4>3, <5>1 DEF Shape, RowsOK
      <4>4. CASE key \notin DOMAIN episodes
        <5>1. /\ episodes'[k].session = s
              /\ episodes'[k].kind = IF s = "" THEN "manual" ELSE kind
          BY <2>1, <3>2, <4>4 DEF Put
        <5> QED BY <4>1, <4>2, <5>1 DEF Kinds
      <4> QED BY <4>3, <4>4
    <3> QED BY <3>1, <3>2
  <2>6. RowsOK'
    <3>1. 1..turns \subseteq 1..turns'
      BY <1>0
    <3> QED BY <2>4, <2>5, <3>1 DEF RowsOK
  <2>7. jobs' = jobs \cup {<<key, now'>>}
    BY <2>1 DEF Put
  <2>8. JobsOK'
    BY <1>0, <2>2, <2>3, <2>7 DEF Shape, JobsOK, Beside
  <2> QED BY <2>2, <2>6, <2>8
<1> QED BY <1>1, <1>2 DEF Hooked

(* The steps of a provider, and of the worker. *)
Talks(p) ==
    \/ Say(p) \/ Sync(p) \/ Undo(p) \/ Restart(p) \/ Cadence(p)
    \/ \E s \in Sessions : Resume(p, s) \/ NewSession(p, s)

WriterStep(p) == FlushWave(p) \/ EndSession(p) \/ Compress(p) \/ Delegate(p)

Embeds ==
    \/ \E j \in jobs : EmbedStarts(j)
    \/ \E r \in reading : EmbedEnds(r) \/ EmbedDies(r)

LEMMA NextIs == EpisodesNext <=> Embeds \/ \E p \in Providers : Talks(p) \/ WriterStep(p)
BY DEF EpisodesNext, Embeds, Talks, WriterStep

LEMMA NewestIn == ASSUME NEW S, NEW n PROVE Newest(S, n) \subseteq S
BY DEF Newest

LEMMA TalkWritesNothing ==
    ASSUME NEW p \in Providers, Talks(p)
    PROVE  Unwritten /\ Beside /\ UNCHANGED <<chunks, handed>>
BY DEF Talks, Say, Sync, Undo, Restart, Cadence, Resume, NewSession

LEMMA WritersAre ==
    ASSUME Shape, NEW p \in Providers, WriterStep(p)
    PROVE  Hooked /\ Beside /\ UNCHANGED <<sid, talk, toSync, turns, undone>>
<1> USE DEF Shape, TalkOK, Hooked, Kinds
<1>1. CASE FlushWave(p)
  <2>1. flush[p].session \in Sessions /\ flush[p].text \in SUBSET (1..turns)
    BY <1>1 DEF FlushWave
  <2> QED BY <1>1, <2>1 DEF FlushWave
<1>2. CASE EndSession(p)
  BY <1>2 DEF EndSession
<1>3. CASE Compress(p)
  <2>1. /\ sid[p] \in Sessions
        /\ \A pins \in SUBSET Pins : (talk[p] \cap Salient) \cup pins \in SUBSET (1..turns \cup Pins)
    OBVIOUS
  <2> QED BY <1>3, <2>1 DEF Compress
<1>4. CASE Delegate(p)
  <2>1. Newest(talk[p], 1) \in SUBSET (1..turns)
    BY NewestIn
  <2> QED BY <1>4, <2>1 DEF Delegate
<1> QED BY <1>1, <1>2, <1>3, <1>4 DEF WriterStep

LEMMA TalkStays ==
    ASSUME EpisodeConstants, Shape, NEW p \in Providers, Talks(p) \/ WriterStep(p),
           now' \in 0..MaxWrites
    PROVE  TalkOK' /\ turns' \in Nat /\ turns <= turns'
<1> USE DEF Shape, TalkOK, EpisodeConstants
<1>1. CASE Say(p)
  BY <1>1 DEF Say
<1>2. CASE Sync(p)
  <2>1. \A t \in toSync[p] : Newest(buffer[p] \cup {t}, BufferMax) \in SUBSET (1..turns)
    BY NewestIn
  <2> QED BY <1>2, <2>1 DEF Sync
<1>3. CASE Undo(p)
  BY <1>3 DEF Undo
<1>4. CASE Restart(p)
  BY <1>4 DEF Restart
<1>5. CASE Cadence(p)
  BY <1>5 DEF Cadence
<1>6. ASSUME NEW s \in Sessions, Resume(p, s) PROVE TalkOK' /\ turns' = turns
  BY <1>6 DEF Resume
<1>7. ASSUME NEW s \in Sessions, NewSession(p, s) PROVE TalkOK' /\ turns' = turns
  BY <1>7 DEF NewSession
<1>8. CASE FlushWave(p)
  BY <1>8 DEF FlushWave
<1>9. CASE EndSession(p)
  BY <1>9 DEF EndSession
<1>10. CASE Compress(p)
  BY <1>10 DEF Compress
<1>11. CASE Delegate(p)
  BY <1>11 DEF Delegate
<1> QED BY <1>1, <1>2, <1>3, <1>4, <1>5, <1>6, <1>7, <1>8, <1>9, <1>10, <1>11
        DEF Talks, WriterStep

LEMMA EmbedStays == ASSUME Shape, Embeds PROVE Shape'
<1> USE DEF Shape, RowsOK, JobsOK, TalkOK, Whole
<1>1. ASSUME NEW j \in jobs, EmbedStarts(j) PROVE Shape'
  <2>1. UNCHANGED <<sid, talk, toSync, buffer, flush, episodes, embedded, now, turns>>
    BY <1>1 DEF EmbedStarts
  <2>2. RowsOK' /\ TalkOK'
    BY <2>1
  <2>3. JobsOK'
    <3> HIDE DEF RowsOK, TalkOK, Whole
    <3> QED BY <1>1, <2>1 DEF EmbedStarts
  <2> QED BY <2>2, <2>3
<1>2. ASSUME NEW r \in reading, EmbedEnds(r) PROVE Shape'
  BY <1>2 DEF EmbedEnds
<1>3. ASSUME NEW r \in reading, EmbedDies(r) PROVE Shape'
  BY <1>3 DEF EmbedDies
<1> QED BY <1>1, <1>2, <1>3 DEF Embeds

LEMMA ShapeStays == ASSUME EpisodeConstants, Shape, [EpisodesNext]_episodeVars PROVE Shape'
<1>1. CASE Embeds
  BY <1>1, EmbedStays
<1>2. ASSUME NEW p \in Providers, Talks(p) \/ WriterStep(p) PROVE Shape'
  <2>1. Hooked /\ Beside
    BY <1>2, TalkWritesNothing, WritersAre DEF Hooked
  <2>2. turns' \in Nat /\ turns <= turns'
    <3>1. CASE WriterStep(p)
      BY <3>1, WritersAre DEF Shape, TalkOK
    <3>2. CASE Talks(p)
      BY <3>2 DEF Talks, Say, Sync, Undo, Restart, Cadence, Resume, NewSession, Shape, TalkOK
    <3> QED BY <1>2, <3>1, <3>2
  <2>3. RowsOK' /\ JobsOK' /\ now' \in 0..MaxWrites
    BY <2>1, <2>2, HookKeepsRows
  <2> QED BY <1>2, <2>3, TalkStays DEF Shape
<1>3. CASE UNCHANGED episodeVars
  BY <1>3 DEF episodeVars, Shape, RowsOK, JobsOK, TalkOK, Whole
<1> QED BY <1>1, <1>2, <1>3, NextIs

LEMMA ShapeInit == EpisodeConstants /\ EpisodesInit => Shape
BY FS_EmptySet DEF EpisodesInit, Shape, RowsOK, JobsOK, TalkOK, EpisodeConstants

(* Conversations, buffers, episodes, jobs and runs keep their types through *)
(* every hook. *)
THEOREM EpisodeTypes == EpisodeConstants => (EpisodesSpec => []EpisodesTypeOK)
<1> SUFFICES ASSUME EpisodeConstants PROVE EpisodesSpec => []EpisodesTypeOK
  OBVIOUS
<1>1. Shape => EpisodesTypeOK
  BY DEF Shape, RowsOK, JobsOK, TalkOK, EpisodesTypeOK, Kinds
<1>2. EpisodesInit => Shape
  BY ShapeInit
<1>3. Shape /\ [EpisodesNext]_episodeVars => Shape'
  BY ShapeStays
<1> QED BY <1>1, <1>2, <1>3, PTL DEF EpisodesSpec

-----------------------------------------------------------------------------
(* What a compression was given. *)

(* A turn is in the talk of one process, and what was handed over of a      *)
(* session is never in the talk of another. *)
TalkIsOwn ==
    /\ \A p, q \in Providers : p # q => talk[p] \cap talk[q] = {}
    /\ \A h \in handed, p \in Providers : talk[p] \cap h[2] # {} => sid[p] = h[1]

(* What was handed over, once for each evidence, its keys, and the rows of  *)
(* these. *)
PreKeys == {PreOf(h[1], h[2]) : h \in handed}

HandedOK ==
    /\ IsFiniteSet(handed)
    /\ \A h \in handed : /\ h = <<h[1], h[2], h[3]>>
                         /\ h[2] \subseteq 1..turns /\ h[2] # {}
                         /\ \A t \in h[2] : <<h[1], t>> \in chunks
    /\ \A h, g \in handed : h[2] = g[2] => h = g

PreRows ==
    /\ {k \in DOMAIN episodes : k[1] = "pre"} = PreKeys
    /\ \A h \in handed : /\ episodes[PreOf(h[1], h[2])].session = h[1]
                         /\ episodes[PreOf(h[1], h[2])].kind = "precompress"
                         /\ h[3] \subseteq Pins
                         /\ episodes[PreOf(h[1], h[2])].text = (h[2] \cap Salient) \cup h[3]

Handoffs == TalkIsOwn /\ HandedOK /\ PreRows

LEMMA OneRowEach == ASSUME HandedOK, PreRows PROVE HandedKept
<1> SUFFICES ASSUME NEW h \in handed
             PROVE  /\ \A t \in h[2] : <<h[1], t>> \in chunks
                    /\ \E k \in DOMAIN episodes : /\ episodes[k].session = h[1]
                                                 /\ episodes[k].text = (h[2] \cap Salient) \cup h[3]
                                                 /\ episodes[k].kind = "precompress"
                    /\ Cardinality({k \in DOMAIN episodes : k[1] = "pre" /\ episodes[k].session = h[1]})
                         = Cardinality({g \in handed : g[1] = h[1]})
  BY DEF HandedKept
<1> DEFINE G == {g \in handed : g[1] = h[1]}
           K == {k \in DOMAIN episodes : k[1] = "pre" /\ episodes[k].session = h[1]}
           f == [g \in G |-> PreOf(g[1], g[2])]
<1>1. PreOf(h[1], h[2]) \in DOMAIN episodes
  BY DEF PreRows, PreKeys
<1>2. IsFiniteSet(G)
  BY FS_Subset DEF HandedOK
<1>3. \A g \in G : PreOf(g[1], g[2]) \in K
  BY DEF PreRows, PreKeys
<1>4. \A k \in K : \E g \in G : k = PreOf(g[1], g[2])
  BY DEF PreRows, PreKeys
<1>5. \A g, e \in G : PreOf(g[1], g[2]) = PreOf(e[1], e[2]) => g = e
  <2> SUFFICES ASSUME NEW g \in G, NEW e \in G, PreOf(g[1], g[2]) = PreOf(e[1], e[2])
               PROVE  g = e
    OBVIOUS
  <2>1. g[2] = e[2]
    BY DEF PreOf
  <2> QED BY <2>1 DEF HandedOK
<1>6. f \in Bijection(G, K)
  BY <1>3, <1>4, <1>5 DEF Bijection, Injection, Surjection, IsInjective
<1>7. Cardinality(G) = Cardinality(K)
  BY <1>2, <1>6, FS_Bijection DEF ExistsBijection
<1> QED BY <1>1, <1>7 DEF HandedOK, PreRows

(* A write under a key of another form leaves the handoffs' rows. *)
LEMMA OtherKeys ==
    ASSUME EpisodeConstants, Shape, Handoffs, handed' = handed,
           NEW key, NEW kind \in Kinds \ {"manual"}, NEW s \in Sessions, NEW words,
           WriteEpisode(key, kind, s, words), key[1] # "pre"
    PROVE  PreRows'
<1>1. Put(key, kind, s, words)
  BY WriteFacts
<1>2. /\ DOMAIN episodes' = DOMAIN episodes \cup {key}
      /\ \A k \in DOMAIN episodes : k # key => episodes'[k] = episodes[k]
  BY <1>1 DEF Put
<1>3. {k \in DOMAIN episodes' : k[1] = "pre"} = {k \in DOMAIN episodes : k[1] = "pre"}
  BY <1>2
<1>4. \A h \in handed : /\ PreOf(h[1], h[2]) \in DOMAIN episodes
                        /\ PreOf(h[1], h[2])[1] = "pre"
  BY DEF Handoffs, PreRows, PreKeys, PreOf
<1>5. \A h \in handed : episodes'[PreOf(h[1], h[2])] = episodes[PreOf(h[1], h[2])]
  BY <1>2, <1>4
<1> QED BY <1>3, <1>5 DEF Handoffs, PreRows, PreKeys

LEMMA CompressKeeps ==
    ASSUME EpisodeConstants, Shape, Handoffs, NEW p \in Providers, Compress(p)
    PROVE  Handoffs'
<1> DEFINE e == talk[p]
           key == PreOf(sid[p], e)
           archived == {<<sid[p], t>> : t \in e}
           retried == {h \in handed : h[1] = sid[p] /\ h[2] = e}
           x(pins) == <<sid[p], e, pins>>
<1>0. /\ e \subseteq 1..turns /\ e # {} /\ sid[p] \in Sessions
      /\ UNCHANGED <<sid, talk, turns>>
  BY DEF Compress, Shape, TalkOK
<1>1. CASE Unwritten /\ UNCHANGED handed /\ chunks \subseteq chunks'
  BY <1>0, <1>1 DEF Handoffs, TalkIsOwn, HandedOK, PreRows, PreKeys, Unwritten
<1>2. ASSUME NEW pins \in SUBSET Pins,
             WriteEpisode(key, "precompress", sid[p], (e \cap Salient) \cup pins),
             chunks' = chunks \cup archived, handed' = (handed \ retried) \cup {x(pins)}
      PROVE  Handoffs'
  <2>1. Put(key, "precompress", sid[p], (e \cap Salient) \cup pins)
    BY <1>0, <1>2, WriteFacts DEF Kinds
  <2>2. \A h \in handed : h[2] = e => h[1] = sid[p] /\ h \in retried
    BY <1>0 DEF Handoffs, TalkIsOwn
  <2>a. \A h \in handed' : h = x(pins) \/ (h \in handed /\ h[2] # e)
    <3> HIDE DEF x
    <3>1. \A h \in handed' : h = x(pins) \/ (h \in handed /\ h \notin retried)
      BY <1>2
    <3> QED BY <2>2, <3>1
  <2>b. \A h \in handed : h[2] # e => h \in handed'
    BY <1>2
  <2>c. x(pins) \in handed' /\ x(pins)[1] = sid[p] /\ x(pins)[2] = e /\ x(pins)[3] = pins
    BY <1>2
  <2>d. x(pins) = <<x(pins)[1], x(pins)[2], x(pins)[3]>>
    OBVIOUS
  <2> HIDE DEF x
  <2>3. TalkIsOwn'
    <3>1. \A q \in Providers : talk[q] \cap e # {} => q = p
      BY DEF Handoffs, TalkIsOwn
    <3>2. ASSUME NEW h \in handed', NEW q \in Providers, talk[q] \cap h[2] # {}
          PROVE  sid[q] = h[1]
      <4>1. CASE h \in handed
        BY <3>2, <4>1 DEF Handoffs, TalkIsOwn
      <4>2. CASE h = x(pins)
        BY <2>c, <3>1, <3>2, <4>2
      <4> QED BY <2>a, <4>1, <4>2
    <3> QED BY <1>0, <3>2 DEF Handoffs, TalkIsOwn
  <2>4. HandedOK'
    <3>1. IsFiniteSet(handed')
      <4>1. IsFiniteSet(handed \ retried)
        BY FS_Subset DEF Handoffs, HandedOK
      <4> QED BY <1>2, <4>1, FS_AddElement
    <3>2. ASSUME NEW h \in handed'
          PROVE  /\ h = <<h[1], h[2], h[3]>>
                 /\ h[2] \subseteq 1..turns /\ h[2] # {}
                 /\ \A t \in h[2] : <<h[1], t>> \in chunks'
      <4>1. CASE h \in handed
        BY <1>2, <4>1 DEF Handoffs, HandedOK
      <4>2. CASE h = x(pins)
        BY <1>0, <1>2, <2>c, <2>d, <4>2
      <4> QED BY <2>a, <4>1, <4>2
    <3>3. ASSUME NEW h \in handed', NEW g \in handed', h[2] = g[2]
          PROVE  h = g
      BY <2>a, <2>c, <3>3 DEF Handoffs, HandedOK
    <3> QED BY <1>0, <3>1, <3>2, <3>3 DEF HandedOK
  <2>5. /\ DOMAIN episodes' = DOMAIN episodes \cup {key}
        /\ \A k \in DOMAIN episodes : k # key => episodes'[k] = episodes[k]
        /\ episodes'[key].text = (e \cap Salient) \cup pins
    BY <2>1 DEF Put
  <2>6. key[1] = "pre"
    BY DEF PreOf
  <2>7. {k \in DOMAIN episodes' : k[1] = "pre"} = PreKeys'
    <3>1. PreKeys' = PreKeys \cup {key}
      <4>1. \A h \in handed' : PreOf(h[1], h[2]) \in PreKeys \cup {key}
        BY <2>a, <2>c DEF PreKeys
      <4>2. key \in PreKeys'
        BY <2>c DEF PreKeys
      <4>3. \A h \in handed : PreOf(h[1], h[2]) \in PreKeys'
        <5>1. ASSUME NEW h \in handed, h[2] = e PROVE PreOf(h[1], h[2]) = key
          BY <2>2, <5>1
        <5>2. ASSUME NEW h \in handed, h[2] # e PROVE PreOf(h[1], h[2]) \in PreKeys'
          BY <2>b, <5>2 DEF PreKeys
        <5> QED BY <4>2, <5>1, <5>2
      <4> HIDE DEF key
      <4> QED BY <4>1, <4>2, <4>3 DEF PreKeys
    <3>2. {k \in DOMAIN episodes' : k[1] = "pre"} = {k \in DOMAIN episodes : k[1] = "pre"} \cup {key}
      BY <2>5, <2>6
    <3> QED BY <3>1, <3>2 DEF Handoffs, PreRows
  <2>8. episodes'[key].session = sid[p] /\ episodes'[key].kind = "precompress"
    <3>1. CASE key \in DOMAIN episodes
      <4>1. PICK h \in handed : key = PreOf(h[1], h[2])
        BY <2>6, <3>1 DEF Handoffs, PreRows, PreKeys
      <4>2. h[2] = e
        BY <4>1 DEF PreOf
      <4>3. episodes[key].session = sid[p] /\ episodes[key].kind = "precompress"
        BY <2>2, <4>1, <4>2 DEF Handoffs, PreRows
      <4> QED BY <2>1, <3>1, <4>3 DEF Put
    <3>2. CASE key \notin DOMAIN episodes
      BY <2>1, <3>2 DEF Put
    <3> QED BY <3>1, <3>2
  <2>9. ASSUME NEW h \in handed'
        PROVE  /\ episodes'[PreOf(h[1], h[2])].session = h[1]
               /\ episodes'[PreOf(h[1], h[2])].kind = "precompress"
               /\ h[3] \subseteq Pins
               /\ episodes'[PreOf(h[1], h[2])].text = (h[2] \cap Salient) \cup h[3]
    <3>1. CASE h = x(pins)
      BY <2>5, <2>8, <2>c, <3>1
    <3>2. CASE h # x(pins)
      <4>1. h \in handed /\ h[2] # e
        BY <2>a, <3>2
      <4>2. PreOf(h[1], h[2]) # key /\ PreOf(h[1], h[2]) \in DOMAIN episodes
        BY <4>1 DEF PreOf, Handoffs, PreRows, PreKeys
      <4> QED BY <2>5, <4>1, <4>2 DEF Handoffs, PreRows
    <3> QED BY <3>1, <3>2
  <2> QED BY <2>3, <2>4, <2>7, <2>9 DEF Handoffs, PreRows
<1> QED BY <1>1, <1>2 DEF Compress, Unwritten

LEMMA HandoffsStay ==
    ASSUME EpisodeConstants, Shape, Handoffs, [EpisodesNext]_episodeVars
    PROVE  Handoffs'
<1>1. CASE Embeds
  <2>1. UNCHANGED <<sid, talk, episodes, chunks, turns, handed>>
    BY <1>1 DEF Embeds, EmbedStarts, EmbedEnds, EmbedDies
  <2> QED BY <2>1 DEF Handoffs, TalkIsOwn, HandedOK, PreRows, PreKeys
<1>2. ASSUME NEW p \in Providers, Talks(p) PROVE Handoffs'
  <2>1. UNCHANGED <<episodes, chunks, handed>>
    BY <1>2, TalkWritesNothing DEF Unwritten
  <2>2. PreRows'
    BY <2>1 DEF Handoffs, PreRows, PreKeys
  <2>3. turns \in Nat /\ turns' \in Nat /\ turns <= turns'
    BY <1>2 DEF Talks, Say, Sync, Undo, Restart, Cadence, Resume, NewSession, Shape, TalkOK
  <2>4. HandedOK'
    <3>1. \A S : S \subseteq 1..turns => S \subseteq 1..turns'
      BY <2>3
    <3> QED BY <2>1, <3>1 DEF Handoffs, HandedOK
  <2>5. TalkIsOwn'
    <3>1. CASE Say(p)
      <4>1. /\ \A q \in Providers : turns + 1 \notin talk[q]
            /\ \A h \in handed : turns + 1 \notin h[2]
        BY <2>3 DEF Shape, TalkOK, Handoffs, HandedOK
      <4> QED BY <2>1, <3>1, <4>1 DEF Say, Shape, TalkOK, Handoffs, TalkIsOwn
    <3>2. CASE Sync(p) \/ Restart(p) \/ Cadence(p)
      BY <2>1, <3>2 DEF Sync, Restart, Cadence, Handoffs, TalkIsOwn
    <3>3. CASE Undo(p)
      BY <2>1, <3>3 DEF Undo, Shape, TalkOK, Handoffs, TalkIsOwn
    <3>4. ASSUME NEW s \in Sessions, Resume(p, s) \/ NewSession(p, s) PROVE TalkIsOwn'
      BY <2>1, <3>4 DEF Resume, NewSession, Shape, TalkOK, Handoffs, TalkIsOwn
    <3> QED BY <1>2, <3>1, <3>2, <3>3, <3>4 DEF Talks
  <2> QED BY <2>2, <2>4, <2>5 DEF Handoffs
<1>3. ASSUME NEW p \in Providers, FlushWave(p) \/ EndSession(p) \/ Delegate(p)
      PROVE  Handoffs'
  <2>1. UNCHANGED <<sid, talk, turns, chunks, handed>>
    BY <1>3 DEF FlushWave, EndSession, Delegate
  <2>2. \/ Unwritten
        \/ \E key : \E kind \in Kinds \ {"manual"}, s \in Sessions, words \in SUBSET (1..turns \cup Pins) :
              key[1] # "pre" /\ WriteEpisode(key, kind, s, words)
    <3>1. CASE FlushWave(p)
      <4>1. /\ flush[p].session \in Sessions /\ flush[p].text \in SUBSET (1..turns)
            /\ WaveOf(flush[p].session, flush[p].wave)[1] # "pre" /\ "session" \in Kinds \ {"manual"}
        BY <3>1 DEF FlushWave, Shape, TalkOK, WaveOf, Kinds
      <4> QED BY <3>1, <4>1 DEF FlushWave
    <3>2. CASE EndSession(p)
      <4>1. /\ sid[p] \in Sessions /\ talk[p] \in SUBSET (1..turns)
            /\ EndOf(sid[p])[1] # "pre" /\ "session" \in Kinds \ {"manual"}
        BY DEF Shape, TalkOK, EndOf, Kinds
      <4> QED BY <3>2, <4>1 DEF EndSession
    <3>3. CASE Delegate(p)
      <4>1. /\ sid[p] \in Sessions /\ Newest(talk[p], 1) \in SUBSET (1..turns)
            /\ NewKey(Cardinality(DOMAIN episodes))[1] # "pre" /\ "delegation" \in Kinds \ {"manual"}
        BY NewestIn DEF Shape, TalkOK, NewKey, Kinds
      <4> QED BY <3>3, <4>1 DEF Delegate
    <3> QED BY <1>3, <3>1, <3>2, <3>3
  <2>3. PreRows'
    <3>1. CASE Unwritten
      BY <2>1, <3>1 DEF Unwritten, Handoffs, PreRows, PreKeys
    <3> QED BY <2>1, <2>2, <3>1, OtherKeys
  <2> QED BY <2>1, <2>3 DEF Handoffs, TalkIsOwn, HandedOK
<1>4. CASE UNCHANGED episodeVars
  BY <1>4 DEF episodeVars, Handoffs, TalkIsOwn, HandedOK, PreRows, PreKeys
<1> QED BY <1>1, <1>2, <1>3, <1>4, CompressKeeps, NextIs DEF WriterStep

LEMMA HandoffsInit == EpisodesInit => Handoffs
BY FS_EmptySet DEF EpisodesInit, Handoffs, TalkIsOwn, HandedOK, PreRows, PreKeys

-----------------------------------------------------------------------------
(* Vectors. *)

(* Who embeds the text a row still has embeds that words. *)
ReadsItsText ==
    \A r \in reading :
        episodes[r[1][1]].stamp = r[1][2] => r[2] = episodes[r[1][1]].text

LEMMA AskedStays ==
    ASSUME EpisodeConstants, ~SameMoment, Shape, ReadsItsText, EpisodeAsked,
           [EpisodesNext]_episodeVars
    PROVE  ReadsItsText' /\ EpisodeAsked'
<1>0. now \in Nat
  BY DEF Shape, TalkOK
<1>1. ASSUME NEW j \in jobs, EmbedStarts(j) PROVE ReadsItsText' /\ EpisodeAsked'
  <2>1. UNCHANGED <<episodes, embedded>>
    BY <1>1 DEF EmbedStarts
  <2>2. CASE episodes[j[1]].stamp = j[2]
    <3>1. reading' = reading \cup {<<j, episodes[j[1]].text>>} /\ jobs' = jobs
      BY <1>1, <2>2 DEF EmbedStarts
    <3> QED BY <2>1, <3>1 DEF ReadsItsText, EpisodeAsked
  <2>3. CASE episodes[j[1]].stamp # j[2]
    <3>1. reading' = reading /\ jobs' = jobs \ {j}
      BY <1>1, <2>3 DEF EmbedStarts
    <3>2. \A k \in DOMAIN episodes : <<k, episodes[k].stamp>> # j
      BY <2>3
    <3> QED BY <2>1, <3>1, <3>2 DEF ReadsItsText, EpisodeAsked
  <2> QED BY <2>2, <2>3
<1>2. ASSUME NEW r \in reading, EmbedEnds(r) PROVE ReadsItsText' /\ EpisodeAsked'
  <2> DEFINE key == r[1][1]
  <2>1. /\ UNCHANGED episodes /\ reading' \subseteq reading /\ jobs' = jobs \ {r[1]}
        /\ embedded' = IF episodes[key].stamp # r[1][2] THEN embedded
                     ELSE [k \in DOMAIN embedded \cup {key} |-> IF k = key THEN r[2] ELSE embedded[k]]
    BY <1>2 DEF EmbedEnds
  <2>2. ReadsItsText'
    BY <2>1 DEF ReadsItsText
  <2>3. ASSUME NEW k \in DOMAIN episodes
        PROVE  \/ k \in DOMAIN embedded' /\ embedded'[k] = episodes[k].text
               \/ <<k, episodes[k].stamp>> \in jobs'
    <3>1. CASE k = key /\ episodes[key].stamp = r[1][2]
      BY <2>1, <3>1 DEF ReadsItsText
    <3>2. CASE ~(k = key /\ episodes[key].stamp = r[1][2])
      <4>1. <<k, episodes[k].stamp>> # r[1]
        BY <3>2
      <4>2. k \in DOMAIN embedded => k \in DOMAIN embedded' /\ embedded'[k] = embedded[k]
        BY <2>1, <3>2
      <4> QED BY <2>1, <4>1, <4>2 DEF EpisodeAsked
    <3> QED BY <3>1, <3>2
  <2> QED BY <2>1, <2>2, <2>3 DEF EpisodeAsked
<1>3. ASSUME NEW r \in reading, EmbedDies(r) PROVE ReadsItsText' /\ EpisodeAsked'
  BY <1>3 DEF EmbedDies, ReadsItsText, EpisodeAsked
<1>4. ASSUME NEW p \in Providers, Talks(p) \/ WriterStep(p) PROVE ReadsItsText' /\ EpisodeAsked'
  <2>1. Hooked /\ Beside
    BY <1>4, TalkWritesNothing, WritersAre DEF Hooked
  <2>2. CASE Unwritten
    BY <2>1, <2>2 DEF Unwritten, Beside, ReadsItsText, EpisodeAsked
  <2>3. ASSUME NEW key, NEW kind \in Kinds \ {"manual"}, NEW s \in Sessions,
               NEW words \in SUBSET (1..turns \cup Pins), WriteEpisode(key, kind, s, words)
        PROVE  ReadsItsText' /\ EpisodeAsked'
    <3>1. Put(key, kind, s, words)
      BY <2>3, WriteFacts
    <3>2. /\ now' = now + 1 /\ jobs' = jobs \cup {<<key, now + 1>>}
          /\ DOMAIN episodes' = DOMAIN episodes \cup {key}
          /\ \A k \in DOMAIN episodes : k # key => episodes'[k] = episodes[k]
          /\ episodes'[key].stamp = now + 1
      BY <3>1 DEF Put
    <3>3. \A r \in reading : r[1][1] \in DOMAIN episodes /\ r[1][2] # now + 1
      BY <1>0 DEF Shape, JobsOK
    <3>4. ReadsItsText'
      BY <2>1, <3>2, <3>3 DEF Beside, ReadsItsText
    <3>5. EpisodeAsked'
      BY <2>1, <3>2 DEF Beside, EpisodeAsked
    <3> QED BY <3>4, <3>5
  <2> QED BY <2>1, <2>2, <2>3 DEF Hooked
<1>5. CASE UNCHANGED episodeVars
  BY <1>5 DEF episodeVars, ReadsItsText, EpisodeAsked
<1> QED BY <1>1, <1>2, <1>3, <1>4, <1>5, NextIs DEF Embeds

(* What a compression was handed is archived and has its episode            *)
(* (on_pre_compress), and an episode has the vector of its text or a job    *)
(* that will see to it, although a row is written again while its text is   *)
(* embedded: as long as no two writes fall into one millisecond, which is   *)
(* all that tells an old job key from a new one. *)
THEOREM CheckpointsAreKept ==
    EpisodeConstants /\ ~SameMoment => (EpisodesSpec => []CheckpointKept)
<1> SUFFICES ASSUME EpisodeConstants, ~SameMoment
             PROVE  EpisodesSpec => []CheckpointKept
  OBVIOUS
<1> DEFINE IInv == Shape /\ Handoffs /\ ReadsItsText /\ EpisodeAsked
<1>1. EpisodesInit => IInv
  <2>1. EpisodesInit => ReadsItsText /\ EpisodeAsked
    BY DEF EpisodesInit, ReadsItsText, EpisodeAsked
  <2> QED BY <2>1, ShapeInit, HandoffsInit
<1>2. IInv /\ [EpisodesNext]_episodeVars => IInv'
  BY ShapeStays, HandoffsStay, AskedStays
<1>3. IInv => CheckpointKept
  BY OneRowEach DEF Handoffs, CheckpointKept
<1> QED BY <1>1, <1>2, <1>3, PTL DEF EpisodesSpec

-----------------------------------------------------------------------------
(* Rows that stay. *)

(* No two processes are in one session, and no two sessions have one name. *)
Apart == \A p, q \in Providers : p # q => sid[p] # sid[q]

DistinctNames == \A s, u \in Sessions : Slug[s] = Slug[u] => s = u

(* The numbers of waves and of random ids are below the next one; a digest  *)
(* is of the session whose name is in its id. *)
Numbered ==
    \A k \in DOMAIN episodes :
        /\ k[1] = "wave" => k[3] \in 1..now /\ k[2] = Slug[episodes[k].session]
        /\ k[1] = "end" => k[2] = Slug[episodes[k].session]
        /\ k[1] = "made" => k[3] \in Nat /\ k[3] < Cardinality(DOMAIN episodes)

(* The wave that is being written is not there yet. *)
WaveIsNew ==
    \A p \in Providers : flush[p] # NoFlush =>
        /\ flush[p].wave \in 1..now + 1
        /\ WaveOf(flush[p].session, flush[p].wave) \notin DOMAIN episodes

LEMMA LeastNumber ==
    ASSUME NEW T, T \subseteq Nat, T # {}
    PROVE  \E b \in T : \A c \in T : b <= c
<1>1. PICK R : IsWellFoundedOn(R, Nat) /\ \A i, j \in Nat : i < j => <<i, j>> \in R
  <2>1. \A i, j \in Nat : i < j => <<i, j>> \in OpToRel(<, Nat)
    BY DEF OpToRel
  <2> QED BY <2>1, NatLessThanWellFounded
<1>2. PICK b \in T : \A y \in T : ~ (<<y, b>> \in R)
  <2>1. IsWellFoundedOn(R, Nat)
    BY <1>1
  <2> QED BY <2>1, WFMin, Zenon
<1>3. ASSUME NEW c \in T PROVE b <= c
  <2>1. b \in Nat /\ c \in Nat /\ ~ (<<c, b>> \in R)
    BY <1>2
  <2>2. ~(c < b)
    BY <1>1, <2>1
  <2> QED BY <2>1, <2>2
<1> QED BY <1>3

LEMMA NextWaveIsNew ==
    ASSUME EpisodeConstants, Shape, Numbered, NEW s \in Sessions
    PROVE  /\ NextWave(s) \in 1..now + 1
           /\ WaveOf(s, NextWave(s)) \notin DOMAIN episodes
<1> DEFINE taken == {k[3] : k \in {l \in DOMAIN episodes : l[1] = "wave" /\ l[2] = Slug[s]}}
           above == {b \in Nat : \A m \in taken : m < b}
           good(n) == n - 1 \in taken \cup {0} /\ \A m \in taken : m < n
<1>1. now \in 0..MaxWrites /\ MaxWrites \in Nat /\ now \in Nat
  BY DEF Shape, TalkOK, EpisodeConstants
<1>2. taken \subseteq 1..now
  BY DEF Numbered
<1> HIDE DEF taken
<1>3. now + 1 \in above
  BY <1>1, <1>2
<1>4. PICK b \in above : \A c \in above : b <= c
  <2>1. above \in SUBSET Nat /\ above # {}
    BY <1>3
  <2> HIDE DEF above
  <2> QED BY <2>1, LeastNumber
<1>5. b \in Nat /\ b <= now + 1 /\ \A m \in taken : m < b
  BY <1>3, <1>4
<1>6. \E n \in 1..now + 1 : good(n)
  <2>1. CASE b = 0
    <3>1. taken = {}
      BY <1>1, <1>2, <1>5, <2>1
    <3> QED BY <1>1, <3>1
  <2>2. CASE b # 0
    <3>1. b - 1 \notin above
      BY <1>4, <1>5, <2>2
    <3>2. PICK m \in taken : ~(m < b - 1)
      BY <1>5, <2>2, <3>1
    <3>3. m = b - 1
      BY <1>1, <1>2, <1>5, <2>2, <3>2
    <3> QED BY <1>1, <1>5, <2>2, <3>2, <3>3
  <2> QED BY <2>1, <2>2
<1>7. NextWave(s) = CHOOSE n \in 1..MaxWrites + 1 : good(n)
  BY DEF NextWave, taken
<1>8. NextWave(s) \in 1..MaxWrites + 1 /\ good(NextWave(s))
  <2>1. \E n \in 1..MaxWrites + 1 : good(n)
    BY <1>1, <1>6
  <2> HIDE DEF good
  <2> QED BY <1>7, <2>1
<1>9. NextWave(s) \in 1..now + 1
  BY <1>1, <1>2, <1>8
<1>10. WaveOf(s, NextWave(s)) \in DOMAIN episodes => NextWave(s) \in taken
  BY DEF WaveOf, taken
<1> QED BY <1>8, <1>9, <1>10

Rows == Numbered /\ WaveIsNew

(* A write leaves the numbering right if its key does. *)
LEMMA WriteNumbers ==
    ASSUME EpisodeConstants, ~SameMoment, Shape, Numbered,
           NEW key, NEW kind \in Kinds \ {"manual"}, NEW s \in Sessions, NEW words,
           WriteEpisode(key, kind, s, words),
           key[1] = "wave" => key \notin DOMAIN episodes /\ key[3] \in 1..now + 1,
           key[1] \in {"wave", "end"} => key[2] = Slug[s],
           key[1] = "made" => key[3] = Cardinality(DOMAIN episodes)
    PROVE  Numbered'
<1>1. Put(key, kind, s, words)
  BY WriteFacts
<1>2. /\ now \in Nat /\ now' = now + 1 /\ DOMAIN episodes' = DOMAIN episodes \cup {key}
      /\ \A k \in DOMAIN episodes : k # key => episodes'[k] = episodes[k]
      /\ key \in DOMAIN episodes => episodes'[key].session = episodes[key].session
      /\ key \notin DOMAIN episodes => episodes'[key].session = s
      /\ IsFiniteSet(DOMAIN episodes)
  <2>0. now \in Nat
    BY DEF Shape, TalkOK
  <2>1. now \in Nat /\ now' = now + 1
    BY <1>1, <2>0, Zenon DEF Put
  <2>2. IsFiniteSet(DOMAIN episodes)
    BY DEF Shape, RowsOK
  <2> QED BY <1>1, <2>1, <2>2 DEF Put
<1>3. /\ Cardinality(DOMAIN episodes) \in Nat
      /\ Cardinality(DOMAIN episodes \cup {key})
            = IF key \in DOMAIN episodes THEN Cardinality(DOMAIN episodes)
              ELSE Cardinality(DOMAIN episodes) + 1
  BY <1>2, FS_AddElement, FS_CardinalityType
<1>4. /\ Cardinality(DOMAIN episodes') \in Nat
      /\ Cardinality(DOMAIN episodes) <= Cardinality(DOMAIN episodes')
      /\ key \notin DOMAIN episodes =>
             Cardinality(DOMAIN episodes') = Cardinality(DOMAIN episodes) + 1
  BY <1>2, <1>3
<1>5. key[1] = "made" => key \notin DOMAIN episodes
  BY <1>3 DEF Numbered
<1>6. ASSUME NEW k \in DOMAIN episodes'
      PROVE  /\ k[1] = "wave" => k[3] \in 1..now' /\ k[2] = Slug[episodes'[k].session]
             /\ k[1] = "end" => k[2] = Slug[episodes'[k].session]
             /\ k[1] = "made" => k[3] \in Nat /\ k[3] < Cardinality(DOMAIN episodes')
  <2>1. CASE k # key
    <3>1. k \in DOMAIN episodes /\ episodes'[k] = episodes[k]
      BY <1>2, <2>1
    <3>2. k[1] = "wave" => k[3] \in 1..now'
      BY <1>2, <3>1 DEF Numbered
    <3>3. k[1] = "made" => k[3] \in Nat /\ k[3] < Cardinality(DOMAIN episodes')
      BY <1>3, <1>4, <3>1 DEF Numbered
    <3> QED BY <3>1, <3>2, <3>3 DEF Numbered
  <2>2. CASE k = key
    <3>1. k[1] = "made" => k[3] \in Nat /\ k[3] < Cardinality(DOMAIN episodes')
      BY <1>3, <1>4, <1>5, <2>2
    <3>2. k[1] = "wave" => k[3] \in 1..now' /\ k[2] = Slug[episodes'[k].session]
      BY <1>2, <2>2
    <3>3. k[1] = "end" => k[2] = Slug[episodes'[k].session]
      BY <1>2, <2>2 DEF Numbered
    <3> QED BY <3>1, <3>2, <3>3
  <2> QED BY <2>1, <2>2
<1> QED BY <1>6 DEF Numbered

(* What a hook writes under: a wave that is new, a digest, a handoff, or a  *)
(* number that nothing has. *)
HookKey(p, key, words) ==
    \/ FlushWave(p) /\ key = WaveOf(sid[p], flush[p].wave)
    \/ EndSession(p) /\ key = EndOf(sid[p])
    \/ Delegate(p) /\ key = NewKey(Cardinality(DOMAIN episodes))
    \/ /\ Compress(p) /\ key = PreOf(sid[p], talk[p])
       /\ words \ Pins = (talk[p] \cap Salient) \ Pins

LEMMA HookKeys ==
    ASSUME EpisodeConstants, Shape, Rows, NEW p \in Providers, WriterStep(p), ~Unwritten
    PROVE  \E key, kind, words : /\ kind \in Kinds \ {"manual"}
                               /\ WriteEpisode(key, kind, sid[p], words)
                               /\ HookKey(p, key, words)
<1>1. {"session", "delegation", "precompress"} \subseteq Kinds \ {"manual"}
  BY DEF Kinds
<1>2. CASE FlushWave(p)
  <2>1. flush[p].session = sid[p]
    BY <1>2 DEF FlushWave, Shape, TalkOK
  <2> QED BY <1>1, <1>2, <2>1 DEF FlushWave, HookKey
<1>3. CASE EndSession(p)
  <2>1. WriteEpisode(EndOf(sid[p]), "session", sid[p], talk[p])
    BY <1>3 DEF EndSession
  <2> QED BY <1>1, <1>3, <2>1 DEF HookKey
<1>4. CASE Compress(p)
  <2>1. PICK pins \in SUBSET Pins :
            WriteEpisode(PreOf(sid[p], talk[p]), "precompress", sid[p], (talk[p] \cap Salient) \cup pins)
    BY <1>4 DEF Compress
  <2>2. ((talk[p] \cap Salient) \cup pins) \ Pins = (talk[p] \cap Salient) \ Pins
    OBVIOUS
  <2> QED BY <1>1, <1>4, <2>1, <2>2 DEF HookKey
<1>5. CASE Delegate(p)
  <2>1. WriteEpisode(NewKey(Cardinality(DOMAIN episodes)), "delegation", sid[p], Newest(talk[p], 1))
    BY <1>5 DEF Delegate
  <2> QED BY <1>1, <1>5, <2>1 DEF HookKey
<1> QED BY <1>2, <1>3, <1>4, <1>5 DEF WriterStep

LEMMA RowsStay ==
    ASSUME EpisodeConstants, ~SameMoment, DistinctNames, Apart, Shape, Rows,
           [EpisodesNext]_episodeVars
    PROVE  Rows'
<1>0. now \in Nat
  BY DEF Shape, TalkOK
<1>1. CASE Embeds \/ UNCHANGED episodeVars
  <2>1. UNCHANGED <<sid, flush, episodes, now>>
    BY <1>1 DEF Embeds, EmbedStarts, EmbedEnds, EmbedDies, episodeVars
  <2> QED BY <2>1 DEF Rows, Numbered, WaveIsNew
<1>2. ASSUME NEW p \in Providers, Talks(p) PROVE Rows'
  <2>1. UNCHANGED <<episodes, now>>
    BY <1>2, TalkWritesNothing DEF Unwritten
  <2>2. CASE Cadence(p)
    <3>1. sid[p] \in Sessions
      BY DEF Shape, TalkOK
    <3>2. /\ flush'[p] = [text |-> buffer[p], session |-> sid[p], wave |-> NextWave(sid[p])]
          /\ \A q \in Providers : q # p => flush'[q] = flush[q]
      BY <2>2 DEF Cadence, Shape, TalkOK
    <3>3. /\ NextWave(sid[p]) \in 1..now + 1
          /\ WaveOf(sid[p], NextWave(sid[p])) \notin DOMAIN episodes
      BY <3>1, NextWaveIsNew DEF Rows
    <3>4. WaveIsNew'
      BY <2>1, <3>2, <3>3 DEF Rows, WaveIsNew
    <3> QED BY <2>1, <3>4 DEF Rows, Numbered
  <2>3. CASE ~Cadence(p)
    <3>1. \A q \in Providers : flush'[q] \in {flush[q], NoFlush}
      BY <1>2, <2>3 DEF Talks, Say, Sync, Undo, Restart, Resume, NewSession, Shape, TalkOK
    <3>2. WaveIsNew'
      BY <2>1, <3>1 DEF Rows, WaveIsNew
    <3> QED BY <2>1, <3>2 DEF Rows, Numbered
  <2> QED BY <2>2, <2>3
<1>3. ASSUME NEW p \in Providers, WriterStep(p) PROVE Rows'
  <2>1. /\ \A q \in Providers : flush'[q] \in {flush[q], NoFlush}
        /\ FlushWave(p) => flush'[p] = NoFlush
    BY <1>3 DEF WriterStep, FlushWave, EndSession, Compress, Delegate, Shape, TalkOK
  <2>2. CASE Unwritten
    <3>1. WaveIsNew'
      BY <2>1, <2>2 DEF Unwritten, Rows, WaveIsNew
    <3> QED BY <2>2, <3>1 DEF Unwritten, Rows, Numbered
  <2>3. CASE ~Unwritten
    <3>0. sid[p] \in Sessions
      BY DEF Shape, TalkOK
    <3>1. PICK key, kind, words : /\ kind \in Kinds \ {"manual"}
                               /\ WriteEpisode(key, kind, sid[p], words)
                               /\ HookKey(p, key, words)
      BY <1>3, <2>3, HookKeys
    <3>2. /\ kind \in Kinds \ {"manual"}
          /\ WriteEpisode(key, kind, sid[p], words)
          /\ \/ FlushWave(p) /\ key = WaveOf(sid[p], flush[p].wave)
             \/ EndSession(p) /\ key = EndOf(sid[p])
             \/ Delegate(p) /\ key = NewKey(Cardinality(DOMAIN episodes))
             \/ Compress(p) /\ key = PreOf(sid[p], talk[p])
      BY <3>1 DEF HookKey
    <3>3. FlushWave(p) => flush[p] # NoFlush /\ flush[p].session = sid[p]
      BY DEF FlushWave, Shape, TalkOK
    <3>4. /\ key[1] = "wave" => /\ FlushWave(p) /\ key = WaveOf(sid[p], flush[p].wave)
                                /\ key \notin DOMAIN episodes /\ key[3] \in 1..now + 1
          /\ key[1] \in {"wave", "end"} => key[2] = Slug[sid[p]]
          /\ key[1] = "made" => key[3] = Cardinality(DOMAIN episodes)
      <4>1. CASE FlushWave(p) /\ key = WaveOf(sid[p], flush[p].wave)
        <5>1. key \notin DOMAIN episodes /\ flush[p].wave \in 1..now + 1
          BY <3>3, <4>1 DEF Rows, WaveIsNew
        <5> QED BY <4>1, <5>1 DEF WaveOf
      <4>2. CASE EndSession(p) /\ key = EndOf(sid[p])
        BY <4>2 DEF EndOf
      <4>3. CASE Delegate(p) /\ key = NewKey(Cardinality(DOMAIN episodes))
        BY <4>3 DEF NewKey
      <4>4. CASE Compress(p) /\ key = PreOf(sid[p], talk[p])
        BY <4>4 DEF PreOf
      <4> QED BY <3>2, <4>1, <4>2, <4>3, <4>4
    <3>5. Numbered'
      BY <3>0, <3>2, <3>4, WriteNumbers DEF Rows
    <3>6. Put(key, kind, sid[p], words)
      BY <3>0, <3>2, WriteFacts
    <3>7. DOMAIN episodes' = DOMAIN episodes \cup {key} /\ now' = now + 1
      BY <3>6 DEF Put
    <3>8. ASSUME NEW q \in Providers, flush'[q] # NoFlush
          PROVE  /\ flush'[q].wave \in 1..now' + 1
                 /\ WaveOf(flush'[q].session, flush'[q].wave) \notin DOMAIN episodes'
      <4>1. flush'[q] = flush[q] /\ flush[q] # NoFlush
        BY <2>1, <3>8
      <4>2. flush[q].wave \in 1..now + 1 /\ flush[q].session = sid[q] /\ sid[q] \in Sessions
        BY <4>1 DEF Rows, WaveIsNew, Shape, TalkOK
      <4>3. WaveOf(flush[q].session, flush[q].wave) # key
        <5>1. CASE key[1] # "wave"
          BY <5>1 DEF WaveOf
        <5>2. CASE key[1] = "wave"
          <6>1. q # p
            BY <2>1, <3>4, <3>8, <5>2
          <6>2. Slug[sid[q]] # Slug[sid[p]]
            BY <3>0, <4>2, <6>1 DEF Apart, DistinctNames
          <6> QED BY <3>4, <4>2, <5>2, <6>2 DEF WaveOf
        <5> QED BY <5>1, <5>2
      <4>4. flush'[q].wave \in 1..now' + 1
        BY <1>0, <3>7, <4>1, <4>2
      <4> QED BY <3>7, <4>1, <4>3, <4>4 DEF Rows, WaveIsNew
    <3> QED BY <3>5, <3>8 DEF Rows, WaveIsNew
  <2> QED BY <2>2, <2>3
<1> QED BY <1>1, <1>2, <1>3, NextIs

KeptStep ==
    \A k \in DOMAIN episodes :
       /\ episodes'[k].session = episodes[k].session
       /\ episodes'[k].text # episodes[k].text =>
              \E p \in Providers :
                  /\ sid[p] = episodes[k].session
                  /\ \/ k[1] = "end"
                     \/ /\ k[1] = "pre" /\ k[4] = talk[p]
                        /\ episodes'[k].text \ Pins = episodes[k].text \ Pins

LEMMA RowsAreKept ==
    ASSUME EpisodeConstants, DistinctNames, Shape, Handoffs, Rows, [EpisodesNext]_episodeVars
    PROVE  KeptStep
<1>1. CASE UNCHANGED episodes
  BY <1>1 DEF KeptStep
<1>2. ASSUME NEW p \in Providers, WriterStep(p), ~Unwritten PROVE KeptStep
  <2>0. sid[p] \in Sessions
    BY DEF Shape, TalkOK
  <2>1. PICK key, kind, words : /\ kind \in Kinds \ {"manual"}
                             /\ WriteEpisode(key, kind, sid[p], words)
                             /\ HookKey(p, key, words)
    BY <1>2, HookKeys
  <2>2. /\ kind \in Kinds \ {"manual"}
        /\ WriteEpisode(key, kind, sid[p], words)
        /\ \/ FlushWave(p) /\ key = WaveOf(sid[p], flush[p].wave)
           \/ EndSession(p) /\ key = EndOf(sid[p])
           \/ Delegate(p) /\ key = NewKey(Cardinality(DOMAIN episodes))
           \/ /\ Compress(p) /\ key = PreOf(sid[p], talk[p])
              /\ words \ Pins = (talk[p] \cap Salient) \ Pins
    BY <2>1 DEF HookKey
  <2>3. Put(key, kind, sid[p], words)
    BY <2>0, <2>2, WriteFacts
  <2>4. /\ \A k \in DOMAIN episodes : k # key => episodes'[k] = episodes[k]
        /\ key \in DOMAIN episodes => episodes'[key].session = episodes[key].session
        /\ episodes'[key].text = words
    BY <2>3 DEF Put
  <2>5. ASSUME key \in DOMAIN episodes, words # episodes[key].text
        PROVE  /\ sid[p] = episodes[key].session
               /\ \/ key[1] = "end"
                  \/ key[1] = "pre" /\ key[4] = talk[p] /\ words \ Pins = episodes[key].text \ Pins
    <3>1. CASE FlushWave(p) /\ key = WaveOf(sid[p], flush[p].wave)
      <4>1. flush[p] # NoFlush /\ flush[p].session = sid[p]
        BY <3>1 DEF FlushWave, Shape, TalkOK
      <4> QED BY <2>5, <3>1, <4>1 DEF Rows, WaveIsNew
    <3>2. CASE EndSession(p) /\ key = EndOf(sid[p])
      <4>1. key[1] = "end" /\ key[2] = Slug[sid[p]]
        BY <3>2 DEF EndOf
      <4>2. Slug[episodes[key].session] = Slug[sid[p]] /\ episodes[key].session \in Sessions
        BY <2>5, <4>1 DEF Rows, Numbered, Shape, RowsOK
      <4> QED BY <2>0, <4>1, <4>2 DEF DistinctNames
    <3>3. CASE Delegate(p) /\ key = NewKey(Cardinality(DOMAIN episodes))
      <4>1. Cardinality(DOMAIN episodes) \in Nat
        BY FS_CardinalityType DEF Shape, RowsOK
      <4>2. key[1] = "made" /\ key[3] = Cardinality(DOMAIN episodes)
        BY <3>3 DEF NewKey
      <4> QED BY <2>5, <4>1, <4>2 DEF Rows, Numbered
    <3>4. CASE /\ Compress(p) /\ key = PreOf(sid[p], talk[p])
               /\ words \ Pins = (talk[p] \cap Salient) \ Pins
      <4>1. key[1] = "pre" /\ key[4] = talk[p]
        BY <3>4 DEF PreOf
      <4>2. PICK h \in handed : key = PreOf(h[1], h[2])
        BY <2>5, <4>1 DEF Handoffs, PreRows, PreKeys
      <4>3. h[2] = talk[p] /\ talk[p] # {}
        BY <3>4, <4>2 DEF PreOf, Compress
      <4>4. sid[p] = h[1]
        BY <4>3 DEF Handoffs, TalkIsOwn
      <4>5. /\ episodes[key].session = h[1] /\ h[3] \subseteq Pins
            /\ episodes[key].text = (h[2] \cap Salient) \cup h[3]
        BY <4>2 DEF Handoffs, PreRows
      <4>6. episodes[key].text \ Pins = (talk[p] \cap Salient) \ Pins
        BY <4>3, <4>5
      <4> QED BY <3>4, <4>1, <4>4, <4>5, <4>6
    <3> QED BY <2>2, <3>1, <3>2, <3>3, <3>4
  <2> QED BY <2>4, <2>5 DEF KeptStep
<1>3. ASSUME NEW p \in Providers, Talks(p) PROVE KeptStep
  BY <1>1, <1>3, TalkWritesNothing DEF Unwritten
<1>4. CASE Embeds
  BY <1>1, <1>4 DEF Embeds, EmbedStarts, EmbedEnds, EmbedDies
<1>5. CASE UNCHANGED episodeVars
  BY <1>1, <1>5 DEF episodeVars
<1> QED BY <1>1, <1>2, <1>3, <1>4, <1>5, NextIs DEF Unwritten

(* An episode is never given to another session, and no hook changes its    *)
(* text but the digest at a session's end and the retry of a compression of *)
(* the same evidence, the latter in what is pinned only, and either while a *)
(* provider is in that session (write_episode upserts by id): as long as no *)
(* two sessions have one name in an episode id, no two providers are in one *)
(* session at a time, and no two writes fall into one millisecond. *)
THEOREM EpisodesAreKept ==
    EpisodeConstants /\ ~SameMoment /\ DistinctNames => (EpisodesSpec /\ []Apart => EpisodesKept)
<1> SUFFICES ASSUME EpisodeConstants, ~SameMoment, DistinctNames
             PROVE  EpisodesSpec /\ []Apart => EpisodesKept
  OBVIOUS
<1> DEFINE IInv == Shape /\ Handoffs /\ Rows
<1>1. EpisodesInit => IInv
  <2>1. EpisodesInit => Rows
    BY DEF EpisodesInit, Rows, Numbered, WaveIsNew
  <2> QED BY <2>1, ShapeInit, HandoffsInit
<1>2. IInv /\ Apart /\ [EpisodesNext]_episodeVars => IInv'
  BY ShapeStays, HandoffsStay, RowsStay
<1>3. IInv /\ [EpisodesNext]_episodeVars => KeptStep
  BY RowsAreKept
<1>4. IInv /\ [EpisodesNext]_episodeVars => [KeptStep]_episodeVars
  BY <1>3
<1> QED BY <1>1, <1>2, <1>4, PTL DEF EpisodesSpec, EpisodesKept, KeptStep
=============================================================================
