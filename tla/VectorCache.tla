----------------------------- MODULE VectorCache -----------------------------
(***************************************************************************)
(* The vector snapshot a process keeps for its searches                    *)
(* (em/embeddings/cache.py), beside the writers of the embeddings and the  *)
(* memories.  A search compares the snapshot's fingerprint with the count  *)
(* and the largest rowid of the table, and with the number of vectors this *)
(* process has put; it reads the vectors again only when they differ.      *)
(*                                                                         *)
(* One model, one scope, one width.  A vector is the text it was made of.  *)
(* A put counts when it is executed, before its transaction commits; other *)
(* processes' puts are not counted.  While a transaction is open the store *)
(* takes no other write.                                                   *)
(***************************************************************************)
EXTENDS Integers, FiniteSets, FiniteSetsExt, Functions

CONSTANTS
    Embeddable,   \* the memories, as the owners of vectors
    MaxTexts,     \* bounds: texts of a memory, puts of this process,
    MaxPuts,      \*   rows
    MaxRowid

CacheConstants == MaxTexts \in Nat \ {0} /\ {MaxPuts, MaxRowid} \subseteq Nat

Wordings == 1..MaxTexts
NoTx     == [open |-> FALSE]
NoSnap   == [fp |-> <<>>, served |-> {}]

ASSUME CacheConstants

VARIABLES
    wording,   \* the current text of a memory
    active,    \* memories with status active
    vectors,   \* embeddings: owner -> its text and rowid
    puts,      \* _WRITE_GENERATION of this process
    tx,        \* a put of this process that is not committed
    snapshot,  \* the cached snapshot, with its fingerprint
    search,    \* where a search is
    used,      \* what the last search used, as <<owner, text>>
    settled    \* history: the memories whose current vector this process put
               \*   with no search between the put and its commit

cacheVars == <<wording, active, vectors, puts, tx, snapshot, search, used, settled>>
store     == <<wording, active, vectors, puts, tx>>

Rowids == {vectors[m].rowid : m \in DOMAIN vectors}
Newest == IF DOMAIN vectors = {} THEN 0 ELSE Max(Rowids)

(* Every variable has its type; rowids are distinct. *)
CacheTypeOK ==
    /\ wording \in [Embeddable -> Wordings]
    /\ active \subseteq Embeddable
    /\ DOMAIN vectors \subseteq Embeddable
    /\ \A m \in DOMAIN vectors : vectors[m] \in [text : Wordings, rowid : 1..MaxRowid]
    /\ \A m, n \in DOMAIN vectors : m # n => vectors[m].rowid # vectors[n].rowid
    /\ puts \in 0..MaxPuts
    /\ tx = NoTx \/ tx \in [open : {TRUE}, of : Embeddable, text : Wordings, quiet : BOOLEAN]
    /\ snapshot.served \subseteq (Embeddable \X Wordings)
    /\ search.step \in {"none", "build", "use"}
    /\ used \subseteq (Embeddable \X Wordings)
    /\ settled \subseteq Embeddable

CacheInit ==
    /\ wording = [m \in Embeddable |-> 1]
    /\ active = Embeddable
    /\ vectors = <<>>
    /\ puts = 0
    /\ tx = NoTx
    /\ snapshot = NoSnap
    /\ search = [step |-> "none"]
    /\ used = {}
    /\ settled = {}

(* INSERT OR REPLACE: the new row is numbered after all that are there,    *)
(* the one it replaces among them, and then that one goes.                 *)
Replaced(m, t) ==
    [n \in DOMAIN vectors \cup {m} |->
        IF n = m THEN [text |-> t, rowid |-> Newest + 1] ELSE vectors[n]]

(* An edit changes the text; its vector is out of date until a job puts    *)
(* the next one.                                                           *)
EditText ==
    /\ ~tx.open
    /\ \E m \in active :
         /\ wording[m] < MaxTexts
         /\ wording' = [wording EXCEPT ![m] = @ + 1]
         /\ settled' = settled \ {m}
    /\ UNCHANGED <<active, vectors, puts, tx, snapshot, search, used>>

(* A memory is forgotten, archived or restored; its vector stays. *)
SetStatus ==
    /\ ~tx.open
    /\ \E m \in Embeddable :
         /\ active' = IF m \in active THEN active \ {m} ELSE active \cup {m}
         /\ settled' = settled \ {m}
    /\ UNCHANGED <<wording, vectors, puts, tx, snapshot, search, used>>

(* purge removes the row of an inactive memory and its vector. *)
PurgeVector ==
    /\ ~tx.open
    /\ \E m \in DOMAIN vectors \ active : vectors' = Restrict(vectors, DOMAIN vectors \ {m})
    /\ UNCHANGED <<wording, active, puts, tx, snapshot, search, used, settled>>

(* Variant: a put is not counted. *)
PutUncounted ==
    /\ ~tx.open /\ puts < MaxPuts
    /\ \E m \in active : tx' = [open |-> TRUE, of |-> m, text |-> wording[m], quiet |-> TRUE]
    /\ puts' = puts
    /\ UNCHANGED <<wording, active, vectors, snapshot, search, used, settled>>

(* put_embedding in an embed job of this process: executed and counted. *)
Put ==
    /\ ~tx.open /\ puts < MaxPuts
    /\ \E m \in active : tx' = [open |-> TRUE, of |-> m, text |-> wording[m], quiet |-> TRUE]
    /\ puts' = puts + 1
    /\ UNCHANGED <<wording, active, vectors, snapshot, search, used, settled>>

PutCommit ==
    /\ tx.open
    /\ Newest < MaxRowid
    /\ vectors' = Replaced(tx.of, tx.text)
    /\ settled' = IF tx.quiet /\ search.step = "none" THEN settled \cup {tx.of} ELSE settled \ {tx.of}
    /\ tx' = NoTx
    /\ UNCHANGED <<wording, active, puts, snapshot, search, used>>

PutRollback ==
    /\ tx.open
    /\ tx' = NoTx
    /\ UNCHANGED <<wording, active, vectors, puts, snapshot, search, used, settled>>

(* A worker of another process puts a vector. *)
PutElsewhere ==
    /\ ~tx.open /\ Newest < MaxRowid
    /\ \E m \in active : vectors' = Replaced(m, wording[m])
    /\ UNCHANGED <<wording, active, puts, tx, snapshot, search, used, settled>>

Fingerprint == <<Cardinality(DOMAIN vectors), Newest, puts>>

(* cached_vectors takes the fingerprint and looks the snapshot up. *)
Look ==
    /\ search.step = "none"
    /\ search' = IF snapshot.fp = Fingerprint
                 THEN [step |-> "use", served |-> snapshot.served]
                 ELSE [step |-> "build", fp |-> Fingerprint]
    /\ used' = {}
    /\ tx' = IF tx.open THEN [tx EXCEPT !.quiet = FALSE] ELSE tx
    /\ UNCHANGED <<wording, active, vectors, puts, snapshot, settled>>

(* load_vectors: active memories, and vectors of their present text. *)
Loaded == {<<m, wording[m]>> : m \in {m \in active \cap DOMAIN vectors : vectors[m].text = wording[m]}}

Build ==
    /\ search.step = "build"
    /\ snapshot' = [fp |-> search.fp, served |-> Loaded]
    /\ search' = [step |-> "use", served |-> Loaded]
    /\ UNCHANGED <<store, used, settled>>

(* The hits are joined with the memories that are active by then           *)
(* (load_features).                                                        *)
Use ==
    /\ search.step = "use"
    /\ used' = {p \in search.served : p[1] \in active}
    /\ search' = [step |-> "none"]
    /\ UNCHANGED <<store, snapshot, settled>>

CacheNext ==
    \/ EditText \/ SetStatus \/ PurgeVector
    \/ Put \/ PutCommit \/ PutRollback \/ PutElsewhere
    \/ Look \/ Build \/ Use

CacheSpec == CacheInit /\ [][CacheNext]_cacheVars
-----------------------------------------------------------------------------
(* Properties.                                                             *)

(* A vector this process has put is in the next search, also when it took  *)
(* the number of one that was purged and so left the table's count and     *)
(* largest rowid as they were ("is still seen", _WRITE_GENERATION), unless *)
(* a search ran between the put and its commit, or the memory has changed. *)
OwnPutSeen ==
    [][ search.step = "none" /\ search'.step = "use" =>
          \A m \in settled : \E p \in search'.served : p = <<m, wording[m]>> ]_cacheVars

(* Expected, and refuted: a search uses a vector only for the text it was  *)
(* made of: "every read verifies the vector belongs to the text it says it *)
(* does [...] An out-of-date vector is excluded, never mixed"              *)
(* (load_vectors).                                                         *)
VectorOfItsText ==
    [][ search.step = "none" /\ search'.step = "use" =>
          \A p \in search'.served : p[1] \in active => p[2] = wording[p[1]] ]_cacheVars
=============================================================================
