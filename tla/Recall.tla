-------------------------------- MODULE Recall --------------------------------
(***************************************************************************)
(* One retrieval (em/retrieval/pipeline.py) beside the writers of the      *)
(* memories it reads.  A retrieval is no transaction: the generators, the  *)
(* features, the rows, the predecessors and the text for the packer are a  *)
(* statement each, and commits fall between them.                          *)
(*                                                                         *)
(* The order of the ranking, and what the support test of the gate         *)
(* lets through are any; a pinned row passes it.  Two generators stand for *)
(* six, in any order: the pinned rows, and the rows a query finds.  A row  *)
(* is the reader's own (Narrow) or profile-wide; its tier, which may be    *)
(* one that only the owner reads, and whether it is pinned are edited like *)
(* its text.  Text is unique among the live rows of a bucket.              *)
(***************************************************************************)
EXTENDS Naturals, Sequences, FiniteSets, Functions

CONSTANTS
    Memories, Texts,
    Narrow,       \* rows of the reader's own bucket
    PinnedLimit,  \* what the pinned generator returns at most (10)
    MaxWrites     \* bound: writes beside the retrieval

RecallConstants ==
    /\ IsFiniteSet(Memories) /\ Narrow \subseteq Memories
    /\ PinnedLimit \in Nat /\ MaxWrites \in Nat

Generators == {"pinned", "bm25"}
Nobody     == "nobody"
Idle       == [step |-> "none"]
NoAnswer   == [whole |-> FALSE, rows |-> <<>>, items |-> <<>>, quoted |-> <<>>]

ASSUME RecallConstants

VARIABLES
    status, text,
    private,      \* rows of an owner-only tier (sensitivity)
    pinned,       \* rows pinned, or of kind constraint
    successor,    \* superseded_by
    reader,
    pass,         \* where the retrieval is, with what it has read
    answer,       \* what passed the gate, the items for the packer, the
                  \*   quoted predecessors, each with its text
    steady,       \* history: memories no write has touched since it began,
    seen,         \*   what its reader could read meanwhile, and the rest
    writes

recallVars == <<status, text, private, pinned, successor, reader, pass, answer, steady, seen,
                writes>>
reading    == <<reader, pass, answer>>

States == {"absent", "active", "superseded", "deleted", "purged"}

(* Every variable has its type; who is superseded has a successor. *)
RecallTypeOK ==
    /\ status \in [Memories -> States]
    /\ text \in [Memories -> Texts]
    /\ private \subseteq Memories /\ pinned \subseteq Memories
    /\ successor \in [Memories -> Memories \cup {Nobody}]
    /\ \A m \in Memories : status[m] = "superseded" => successor[m] \in Memories
    /\ reader \in {"owner", "guest"}
    /\ pass.step \in {"none", "find", "features", "rows", "predecessors", "items"}
    /\ DOMAIN answer.items \subseteq DOMAIN answer.rows
    /\ DOMAIN answer.quoted \subseteq Memories
    /\ steady \subseteq Memories
    /\ seen \subseteq (Memories \X Texts \X {"active", "superseded"} \X BOOLEAN)
    /\ writes \in 0..MaxWrites

Live          == {m \in Memories : status[m] = "active"}
SameBucket(m) == {n \in Memories : n \in Narrow <=> m \in Narrow}
Free(m, t)    == \A n \in (Live \cap SameBucket(m)) \ {m} : text[n] # t

(* scope_sql, for a reader of this profile.                                *)
Readable(m) == m \in private => reader = "owner"
Admitted    == {m \in Live : Readable(m)}

(* What there is to read or to quote, and whether the reader may.          *)
Texted(ids) == [m \in ids |-> text[m]]
Sight       == {<<m, text[m], status[m], Readable(m)>> :
                   m \in {n \in Memories : status[n] \in {"active", "superseded"}}}

RecallInit ==
    /\ status \in [Memories -> {"absent", "active"}]
    /\ text \in [Memories -> Texts]
    /\ \A m \in Live : Free(m, text[m])
    /\ private \in SUBSET Memories /\ pinned \in SUBSET Memories
    /\ successor = [m \in Memories |-> Nobody]
    /\ reader \in {"owner", "guest"}
    /\ pass = Idle
    /\ answer = NoAnswer
    /\ steady = {}
    /\ seen = {}
    /\ writes = 0
-----------------------------------------------------------------------------
(* The writers.                                                            *)

Written(touched) ==
    /\ writes < MaxWrites /\ writes' = writes + 1
    /\ UNCHANGED reading
    /\ steady' = steady \ touched
    /\ seen' = IF pass = Idle THEN seen ELSE seen \cup Sight'

\* The text, the tier and the pin of one row.
Worded(m, t, tier, pin) ==
    /\ text' = [text EXCEPT ![m] = t]
    /\ private' = IF tier = "owner" THEN private \cup {m} ELSE private \ {m}
    /\ pinned' = IF pin THEN pinned \cup {m} ELSE pinned \ {m}

Add ==
    \E m \in Memories, t \in Texts, tier \in {"owner", "any"}, pin \in BOOLEAN :
        /\ status[m] = "absent" /\ Free(m, t)
        /\ status' = [status EXCEPT ![m] = "active"]
        /\ Worded(m, t, tier, pin)
        /\ successor' = successor
        /\ Written({m})

(* A patch of any of the three. *)
Edit ==
    \E m \in Live, t \in Texts, tier \in {"owner", "any"}, pin \in BOOLEAN :
        /\ Free(m, t)
        /\ Worded(m, t, tier, pin)
        /\ <<text', private', pinned'>> # <<text, private, pinned>>
        /\ UNCHANGED <<status, successor>>
        /\ Written({m})

(* MemoryStore.supersede: the new row is live before the old one goes. *)
Replace ==
    \E old \in Live, new \in Memories, t \in Texts, tier \in {"owner", "any"}, pin \in BOOLEAN :
        /\ status[new] = "absent" /\ Free(new, t)
        /\ status' = [status EXCEPT ![old] = "superseded", ![new] = "active"]
        /\ Worded(new, t, tier, pin)
        /\ successor' = [successor EXCEPT ![old] = new]
        /\ Written({old, new})

Forget ==
    \E m \in Memories :
        /\ status[m] \in {"active", "superseded"}
        /\ status' = [status EXCEPT ![m] = "deleted"]
        /\ UNCHANGED <<text, private, pinned, successor>>
        /\ Written({m})

(* The review tool's restore: the status alone is set back. *)
Restore ==
    \E m \in Memories :
        /\ status[m] = "superseded" /\ Free(m, text[m])
        /\ status' = [status EXCEPT ![m] = "active"]
        /\ UNCHANGED <<text, private, pinned, successor>>
        /\ Written({m})

Purge ==
    \E m \in Memories :
        /\ status[m] = "deleted"
        /\ \A n \in Memories : successor[n] # m
        /\ status' = [status EXCEPT ![m] = "purged"]
        /\ successor' = [successor EXCEPT ![m] = Nobody]
        /\ UNCHANGED <<text, private, pinned>>
        /\ Written({m})
-----------------------------------------------------------------------------
(* The retrieval.                                                          *)

stored == <<status, text, private, pinned, successor, reader, writes>>

Begin ==
    /\ pass = Idle
    /\ pass' = [step |-> "find", left |-> Generators, found |-> {}, whole |-> TRUE]
    /\ answer' = NoAnswer
    /\ steady' = Memories
    /\ seen' = Sight
    /\ UNCHANGED stored

Crowded(g) == g = "pinned" /\ Cardinality(Admitted \cap pinned) > PinnedLimit

(* What a generator returns in time: of the pinned rows no more than its   *)
(* limit, of what a query finds any.                                       *)
Returned(g) ==
    IF g = "bm25" THEN SUBSET Admitted
    ELSE IF Crowded(g) THEN {S \in SUBSET (Admitted \cap pinned) : Cardinality(S) = PinnedLimit}
    ELSE {Admitted \cap pinned}

(* A generator runs, and the next one after it.  Or the deadline passes:   *)
(* what this one has found by then is kept, or nothing of it, and the      *)
(* others are skipped.                                                     *)
Find ==
    /\ pass.step = "find"
    /\ \/ \E g \in pass.left, hits \in SUBSET Admitted :
             /\ hits \in Returned(g)
             /\ pass' = [pass EXCEPT !.left = @ \ {g}, !.found = @ \cup hits,
                                    !.whole = @ /\ ~Crowded(g)]
       \/ /\ pass.left = {}
          /\ pass' = [pass EXCEPT !.step = "features"]
       \/ \E g \in pass.left, hits \in SUBSET Admitted :
             /\ \E all \in Returned(g) : hits \subseteq all
             /\ pass' = [pass EXCEPT !.step = "features", !.found = @ \cup hits, !.whole = FALSE]
    /\ UNCHANGED <<stored, answer, steady, seen>>

(* load_features drops what is gone, and rank orders the rest. *)
Rank ==
    /\ pass.step = "features"
    /\ LET left == pass.found \cap Admitted
       IN  \E place \in Injection(left, 1..Cardinality(left)) :
               pass' = [step |-> "rows", place |-> place, whole |-> pass.whole]
    /\ UNCHANGED <<stored, answer, steady, seen>>

Gated(passed) ==
    pass' = [step  |-> "predecessors", place |-> Restrict(pass.place, passed),
             texts |-> Texted(passed), whole |-> pass.whole]

(* Variant: a pinned row has to pass the support test as well. *)
GateAll ==
    /\ pass.step = "rows"
    /\ \E passed \in SUBSET (DOMAIN pass.place \cap Admitted) : Gated(passed)
    /\ UNCHANGED <<stored, answer, steady, seen>>

(* load_rows and apply_gate: a ranking without its row is dropped, a       *)
(* pinned one passes, the others may.                                      *)
Gate ==
    /\ pass.step = "rows"
    /\ \E passed \in SUBSET (DOMAIN pass.place \cap Admitted) :
         /\ DOMAIN pass.place \cap Admitted \cap pinned \subseteq passed
         /\ Gated(passed)
    /\ UNCHANGED <<stored, answer, steady, seen>>

(* Variant: whatever the row replaced is quoted. *)
PredecessorsUnscoped(m) ==
    {p \in Memories : status[p] = "superseded" /\ successor[p] = m}

(* load_predecessors. *)
Predecessors(m) ==
    {p \in Memories : status[p] = "superseded" /\ successor[p] = m /\ Readable(p)}

(* Of the rows with one text, the reader's own, then the better placed. *)
Beats(place, texts, m, n) ==
    /\ texts[m] = texts[n]
    /\ \/ m \in Narrow /\ n \notin Narrow
       \/ (m \in Narrow <=> n \in Narrow) /\ place[m] < place[n]

(* collapse: one row for a text, and none that a kept row has replaced.    *)
Collapsed(place, texts) ==
    LET single == {n \in DOMAIN place : \A m \in DOMAIN place : ~Beats(place, texts, m, n)}
    IN  {m \in single : \A s \in single \ {m} : m \notin Predecessors(s)}

(* Of what is kept, which mmr only orders, the predecessors that changed   *)
(* lately are quoted.                                                      *)
Diversify ==
    /\ pass.step = "predecessors"
    /\ LET kept == Collapsed(pass.place, pass.texts)
       IN  \E lately \in SUBSET UNION {Predecessors(m) : m \in kept} :
             pass' = [step |-> "items", texts |-> Restrict(pass.texts, kept),
                      quoted |-> Texted(lately), whole |-> pass.whole]
    /\ UNCHANGED <<stored, answer, steady, seen>>

(* load_pack_items reads the rows by id, whatever has become of them. *)
Items ==
    /\ pass.step = "items"
    /\ answer' = [whole  |-> pass.whole, rows |-> pass.texts, quoted |-> pass.quoted,
                  items  |-> Texted({m \in DOMAIN pass.texts : status[m] # "purged"})]
    /\ pass' = Idle
    /\ UNCHANGED <<stored, steady, seen>>

RecallNext ==
    \/ Add \/ Edit \/ Replace \/ Forget \/ Restore \/ Purge
    \/ Begin \/ Find \/ Rank \/ Gate \/ Diversify \/ Items

RecallSpec == RecallInit /\ [][RecallNext]_recallVars
-----------------------------------------------------------------------------
(* Properties, of an answer at the moment it is given.                     *)

(* What passed the gate was live with that text at some moment of the call *)
(* and could be read then, and so was, as a replaced row, what is quoted   *)
(* ("a note must not quote text the caller may not read",                  *)
(* load_predecessors).  The packer reads the texts again, by id: what it   *)
(* is given was live with that text meanwhile, and differs from what       *)
(* passed only in rows that were written during the call.                  *)
AnswerIsReadable ==
    pass.step = "none" =>
        /\ \A m \in DOMAIN answer.rows : <<m, answer.rows[m], "active", TRUE>> \in seen
        /\ \A m \in DOMAIN answer.quoted : <<m, answer.quoted[m], "superseded", TRUE>> \in seen
        /\ \A m \in DOMAIN answer.items :
              /\ \E may \in BOOLEAN : <<m, answer.items[m], "active", may>> \in seen
              /\ m \in steady => answer.items[m] = answer.rows[m]

(* A pinned row nobody touched during a retrieval that left nothing out,   *)
(* neither for its deadline nor for the limit of the pinned, is in the     *)
(* answer, or a row with its text is ("bypasses gate", generator table).   *)
PinnedKept ==
    [][ answer'.whole /\ pass.step = "items" =>
          \A m \in pinned \cap Admitted \cap steady :
             \/ m \in DOMAIN answer'.items
             \/ \E n \in DOMAIN answer'.rows : answer'.rows[n] = text[m] ]_recallVars

(* Expected, and refuted: what is shown could be read with that text       *)
(* during the call (load_rows applies the scope again "because this is the *)
(* last point before the text would be shown").  The packer's own read     *)
(* comes after it, with no scope: a row that was given another text and an *)
(* owner-only tier meanwhile is shown to a guest.                          *)
ShownIsReadable ==
    pass.step = "none" =>
        \A m \in DOMAIN answer.items : <<m, answer.items[m], "active", TRUE>> \in seen

(* Expected, and refuted: of a memory and the one that replaced it, both   *)
(* untouched and live, only the newer is in an answer: "a restore can      *)
(* leave two live members of one chain; the older one goes"                *)
(* (tests/unit/test_em_retrieval_diversity.py).                            *)
ChainCollapsed ==
    [][ pass.step = "items" =>
          \A m, n \in DOMAIN answer'.items \cap Live \cap steady :
             m # n => successor[m] # n ]_recallVars
=============================================================================
