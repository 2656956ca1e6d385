------------------------------ MODULE VaultPages ------------------------------
(***************************************************************************)
(* What stands on the vault's pages: the pass of the project_vault job     *)
(* (em/vault/schedule.py), which reads the user's edits of an entity page  *)
(* (em/vault/ingest.py) and then renders that page                         *)
(* (em/vault/projection.py), beside a user who edits the page and a store  *)
(* that changes.  Module VaultSchedule says when a pass runs; this one     *)
(* says what it does.                                                      *)
(*                                                                         *)
(* One entity of one scope, and one projecting worker.  A page is the set  *)
(* of statements in its human region and the sets of memories its two      *)
(* sections show; intact says whether its markers still line up.  The      *)
(* ingestion runs in one transaction; a rendering reads the page, then the *)
(* rows, and then replaces the file.  Relations, journal pages and line    *)
(* endings are left out, and so are the unfiled pages: the modes a job is  *)
(* given (schedule.py, modes_for) never name them.                         *)
(***************************************************************************)
EXTENDS Integers, FiniteSets

CONSTANTS
    Memories,      \* memory rows
    Says,          \* Says[m]: the statement memory m makes
    Withheld,      \* memories of the owner-only tiers
    HistoryLimit   \* HISTORY_LIMIT

Statements == {Says[m] : m \in Memories}

PagesConstants ==
    /\ IsFiniteSet(Memories)
    /\ Withheld \subseteq Memories
    /\ HistoryLimit \in Nat

ASSUME PagesConstants

VARIABLES
    standing,      \* the memories table: status
    linked,        \* the memories linked to the entity
    entityPage,    \* the entity's page (or NoPage)
    seen, hints,   \* meta: the lines of the last pass, the removal hints
    pass, got,     \* the projecting worker: where it is, what it has read
    quiet,         \* history: nothing but the pass has moved since it began
    leaving,       \* history: per memory, how far its erasure has come
    shown          \* history: memories the page has ever shown

store    == <<standing, linked>>
notes    == <<seen, hints>>
pageVars == <<store, entityPage, notes, pass, got, quiet, leaving, shown>>

Page == [there : BOOLEAN, intact : BOOLEAN, human : SUBSET Statements,
         facts : SUBSET Memories, past : SUBSET Memories]
NoPage == [there |-> FALSE, intact |-> FALSE, human |-> {}, facts |-> {}, past |-> {}]
Stages == {"idle", "ingest", "read", "rows", "write", "crashed"}

PagesTypeOK ==
    /\ standing \in [Memories -> {"new", "pending", "active", "superseded",
                                  "retracted", "forgotten", "purged"}]
    /\ linked \subseteq Memories
    /\ entityPage \in Page
    /\ seen \subseteq Memories /\ hints \subseteq Memories /\ shown \subseteq Memories
    /\ pass \in Stages
    /\ quiet \in BOOLEAN
    /\ leaving \in [Memories -> {"here", "asked", "passing", "left"}]

Nothing == [page |-> NoPage, facts |-> {}, past |-> {}]

PagesInit ==
    /\ standing = [m \in Memories |-> "new"]
    /\ linked = {}
    /\ entityPage = NoPage
    /\ seen = {} /\ hints = {} /\ shown = {}
    /\ pass = "idle" /\ got = Nothing
    /\ quiet = TRUE
    /\ leaving = [m \in Memories |-> "here"]

-----------------------------------------------------------------------------
(* The store, as the tools and the other jobs change it.                   *)

Active == {m \in Memories : standing[m] = "active"}
Live   == {m \in Memories : standing[m] \in {"active", "pending"}}
Free(m) == \A n \in Live : Says[n] = Says[m] => n = m

Becomes(m, st) ==
    /\ standing' = [standing EXCEPT ![m] = st]
    /\ leaving' = [leaving EXCEPT ![m] = IF st \in {"retracted", "forgotten"} THEN "asked" ELSE "here"]

Remember(m)  == standing[m] = "new" /\ Free(m) /\ Becomes(m, "active") /\ linked' = linked
Promote(m)   == standing[m] = "pending" /\ Becomes(m, "active") /\ linked' = linked
Discard(m)   == standing[m] = "pending" /\ Becomes(m, "forgotten") /\ linked' = linked
Supersede(m) == standing[m] = "active" /\ Becomes(m, "superseded") /\ linked' = linked
Retract(m)   == standing[m] = "active" /\ Becomes(m, "retracted") /\ linked' = linked
Forget(m)    == m \in Live /\ Becomes(m, "forgotten") /\ linked' = linked
Restore(m)   == standing[m] = "retracted" /\ Free(m) /\ Becomes(m, "active") /\ linked' = linked

(* The row goes, and its links with it. *)
Purge(m) ==
    /\ standing[m] \notin {"new", "purged"}
    /\ Becomes(m, "purged")
    /\ linked' = linked \ {m}

(* The link job of a memory that is still live. *)
Link(m) == m \in Active \ linked /\ linked' = linked \cup {m} /\ UNCHANGED <<standing, leaving>>

StoreStep ==
    /\ \E m \in Memories : \/ Remember(m) \/ Promote(m) \/ Discard(m) \/ Supersede(m)
                           \/ Retract(m) \/ Forget(m) \/ Restore(m) \/ Purge(m)
                           \/ Link(m)
    /\ quiet' = FALSE
    /\ UNCHANGED <<entityPage, notes, pass, got, shown>>

-----------------------------------------------------------------------------
(* The user's editor. *)

Edit(p) ==
    /\ entityPage.there /\ entityPage' = p /\ quiet' = FALSE
    /\ UNCHANGED <<store, notes, pass, got, leaving, shown>>

WriteLine(s) == entityPage.there /\ s \notin entityPage.human /\ Edit([entityPage EXCEPT !.human = @ \cup {s}])
Erase(s)     == entityPage.there /\ s \in entityPage.human /\ Edit([entityPage EXCEPT !.human = @ \ {s}])
Strike(m)    == entityPage.there /\ m \in entityPage.facts /\ Edit([entityPage EXCEPT !.facts = @ \ {m}])
Gut          == entityPage.there /\ entityPage.intact /\ Edit([entityPage EXCEPT !.intact = FALSE])
Remove       == entityPage.there /\ Edit(NoPage)

UserStep == \/ \E s \in Statements : WriteLine(s) \/ Erase(s)
            \/ \E m \in Memories : Strike(m)
            \/ Gut \/ Remove

-----------------------------------------------------------------------------
(* The ingestion.                                                          *)

Start ==
    /\ pass \in {"idle", "crashed"}
    /\ pass' = "ingest" /\ got' = Nothing /\ quiet' = TRUE
    /\ leaving' = [m \in Memories |-> IF leaving[m] = "asked" THEN "passing" ELSE leaving[m]]
    /\ UNCHANGED <<store, entityPage, notes, shown>>

(* What store.add makes of the statements of a page: the live row that     *)
(* says it already, or else a new pending one.  A bound: a statement no    *)
(* unused row is left for is not proposed.                                 *)
Said(S)     == {m \in Live : Says[m] \in S}
Unsaid(S)   == S \ {Says[m] : m \in Live}
Proposed(S) == {m \in Memories : /\ standing[m] = "new" /\ Says[m] \in Unsaid(S)
                                 /\ m = CHOOSE n \in Memories : standing[n] = "new" /\ Says[n] = Says[m]}

(* Variant: whatever is live is taken to have been on the page. *)
RemovedFromLive(linkedNow) == (linkedNow \cap Active) \ entityPage.facts

(* The lines whose absence from the page is a removal: on the page at the  *)
(* last pass, linked to a live memory, and gone. *)
Removed(linkedNow) == ((seen \cap linkedNow) \cap Active) \ entityPage.facts

(* The hints of before and of this pass whose memory is still live. *)
Ingest ==
    /\ pass = "ingest" /\ pass' = "read"
    /\ IF ~entityPage.there \/ ~entityPage.intact
       THEN hints' = hints \cap Active /\ UNCHANGED <<store, seen>>
       ELSE LET fresh == Proposed(entityPage.human)
                met   == Said(entityPage.human)
            IN /\ standing' = [m \in Memories |-> IF m \in fresh THEN "pending" ELSE standing[m]]
               /\ linked' = linked \cup fresh \cup met
               /\ hints' = (hints \cup Removed(linked')) \cap Active
               /\ seen' = entityPage.facts
    /\ UNCHANGED <<entityPage, got, quiet, leaving, shown>>

-----------------------------------------------------------------------------
(* The rendering of the entity page. *)

Shows(m) == m \notin Withheld

(* Variant: only live rows make their entity a candidate. *)
VisitedLive == linked \cap Active # {}

(* The entity is visited while any row of the scope is linked to it. *)
Visited == linked # {}

EndPass ==
    /\ pass' = "idle" /\ got' = Nothing
    /\ leaving' = [m \in Memories |-> IF leaving[m] = "passing" THEN "left" ELSE leaving[m]]

(* The page is read, if the entity is visited at all. *)
Read ==
    /\ pass = "read"
    /\ IF Visited
       THEN pass' = "rows" /\ got' = [got EXCEPT !.page = entityPage] /\ leaving' = leaving
       ELSE EndPass
    /\ UNCHANGED <<store, entityPage, notes, quiet, shown>>

(* The live rows, and the latest of the superseded ones: updated_at, the   *)
(* order they are listed in, may be any. *)
Past      == {m \in linked : standing[m] = "superseded" /\ Shows(m)}
Latest(S) == {T \in SUBSET S : IF Cardinality(S) <= HistoryLimit THEN T = S
                               ELSE Cardinality(T) = HistoryLimit}

ReadRows ==
    /\ pass = "rows" /\ pass' = "write"
    /\ \E past \in Latest(Past) :
           got' = [got EXCEPT !.facts = {m \in linked \cap Active : Shows(m)}, !.past = past]
    /\ UNCHANGED <<store, entityPage, notes, quiet, leaving, shown>>

(* merge and the replacing rename: only the two sections are new, and a    *)
(* gutted page or an empty new one is not written.  What replaces the file *)
(* is built from the page as it was read. *)
Merged ==
    [(IF got.page.there THEN got.page ELSE [NoPage EXCEPT !.there = TRUE, !.intact = TRUE])
        EXCEPT !.facts = got.facts, !.past = got.past]

ReplacePage ==
    /\ pass = "write" /\ EndPass
    /\ IF \/ ~got.page.there /\ got.facts = {} /\ got.past = {}
          \/ ~Merged.intact
       THEN UNCHANGED <<entityPage, shown>>
       ELSE entityPage' = Merged /\ shown' = shown \cup got.facts
    /\ UNCHANGED <<store, notes, quiet>>

(* The worker dies; the pass is run again from its start. *)
CrashPass ==
    /\ pass \notin {"idle", "crashed"} /\ pass' = "crashed" /\ got' = Nothing
    /\ leaving' = [m \in Memories |-> IF leaving[m] = "passing" THEN "asked" ELSE leaving[m]]
    /\ UNCHANGED <<store, entityPage, notes, quiet, shown>>

PagesNext ==
    \/ StoreStep \/ UserStep
    \/ Start \/ Ingest \/ Read \/ ReadRows \/ ReplacePage \/ CrashPass

PagesSpec == PagesInit /\ [][PagesNext]_pageVars

-----------------------------------------------------------------------------

OnPage(m) == entityPage.there /\ m \in entityPage.facts \cup entityPage.past

(* What was forgotten or retracted is not on the entity's page once a pass *)
(* that began afterwards has ended, whatever else happened meanwhile; a    *)
(* page whose markers the user broke is the user's (projection.py,         *)
(* "Forgetting erases, not just hides"). *)
ForgottenLeavesPages ==
    \A m \in Memories : leaving[m] = "left" /\ OnPage(m) => ~entityPage.intact

(* A hint says that the user removed the line of a live memory; a memory   *)
(* whose line never stood on the page is not hinted at (ingest.py: a       *)
(* freshly written fact can never read as removed). *)
HintsEarned == hints \subseteq shown

(* A pass beside which nothing moved leaves the page showing the store:    *)
(* the entity's live rows, and of its superseded ones all, or as many as   *)
(* the section holds. *)
QuietPassIsTrue ==
    quiet /\ pass = "idle" /\ entityPage.there /\ entityPage.intact /\ linked # {} =>
        /\ entityPage.facts = (linked \cap Active) \ Withheld
        /\ entityPage.past \in Latest(Past)

PagesAreTrue == ForgottenLeavesPages /\ QuietPassIsTrue

(* Expected, and refuted: what was purged is on no page after a pass.  An  *)
(* entity without rows is not visited. *)
PurgedLeavesPages ==
    quiet /\ pass = "idle" =>
        \A m \in Memories : standing[m] = "purged" /\ OnPage(m) => ~entityPage.intact

(* Expected, and refuted: a statement the user turned down is not proposed *)
(* again from the unchanged page. *)
DiscardedStaysDiscarded ==
    [][\A m \in Memories : standing[m] = "new" /\ standing'[m] = "pending" =>
          ~\E n \in Memories : Says[n] = Says[m] /\ standing[n] = "forgotten"]_pageVars
=============================================================================
