------------------------------ MODULE MCRetrieval ------------------------------
(***************************************************************************)
(* Recall, Ranking, VectorCache, Scopes and Entities for TLC.  A search's  *)
(* candidates are any in Recall, and Ranking computes from any candidates, *)
(* so the five meet nowhere and are checked side by side: part says which  *)
(* of them a behaviour is about, and the others stay as they begin.  Those *)
(* that RetrievalProofs proves about are extended; Ranking is an instance. *)
(***************************************************************************)
EXTENDS Scopes, Recall, VectorCache, Entities

CONSTANT Parts

VARIABLES part,
          found, row, rstage, order

\* Rows of earlier sessions: every bucket, chat, tier and visibility a reader may meet.
EarlierRows == {[turn |-> 0, user |-> u, chat |-> c, tier |-> t, visibility |-> v, via |-> "old"] :
                u \in {"u", ""}, c \in {"", "elsewhere"}, t \in {"internal", "sensitive"},
                v \in {"profile", "user"}}

\* A name, and a longer phrase that contains it: within a sentence it is proposed as it
\* stands, at its beginning without its first word, and the name alone not at all.  A
\* title is too long to be a gram of its own.  One memory is another profile's.
OtherForC == [m \in {"a", "b", "c"} |-> IF m = "c" THEN "q" ELSE "p"]
LongAndShort == [p \in {"title", "long", "short"} |->
                    IF p = "short" THEN <<"short">> ELSE <<"long", "short">>]
SomeTexts == {[names |-> {"title"}, proposes |-> {"title"}], [names |-> {"long"}, proposes |-> {"long"}],
              [names |-> {"long"}, proposes |-> {"short"}], [names |-> {"short"}, proposes |-> {}]}

\* A plain memory, and what differs from it: of two with one text the older is the
\* reader's own; one too poor to pass at a second place; a constraint; an episode.
Plain == [kind |-> "fact", pinned |-> FALSE, narrow |-> FALSE, text |-> {"x"}, importance |-> 5,
          confidence |-> 8, decay |-> "standard", age |-> 0, helpful |-> 0, unhelpful |-> 0,
          updated |-> 1, bodies |-> <<3>>, loops |-> <<>>]
FoundRows == {[Plain EXCEPT !.narrow = TRUE, !.bodies = <<3, 1>>],
              [Plain EXCEPT !.importance = 9, !.updated = 2, !.age = 2],
              [Plain EXCEPT !.text = {"x", "y"}, !.importance = 0, !.confidence = 0, !.unhelpful = 3,
                            !.decay = "volatile", !.age = 1, !.bodies = <<2>>],
              [Plain EXCEPT !.kind = "constraint", !.text = {"y"}, !.bodies = <<2>>],
              [Plain EXCEPT !.kind = "episode", !.text = {"y"}, !.bodies = <<4>>, !.loops = <<1>>]}

K == INSTANCE Ranking
        WITH Hits <- {1, 2, 3}, Generators <- {"bm25", "entity"}, Weight <- [bm25 |-> 10, entity |-> 7],
             Depth <- 2, Rows <- FoundRows, Terms <- {"x"}, Top <- 2, Budget <- 7, stage <- rstage

ASSUME K!RankingConstants

rankVars == <<found, row, rstage, order>>

\* One memory may get an owner-only tier, which is nothing to the owner, and be pinned
\* beside the one that is.
OneOfEach == /\ private \subseteq (IF reader = "owner" THEN {} ELSE {"b"})
             /\ {"a"} \subseteq pinned /\ pinned \subseteq {"a", "b"}

MCInit ==
    /\ part \in Parts
    /\ RecallInit
    /\ IF part = "recall" THEN OneOfEach /\ text["a"] = 1   \* the texts are alike
       ELSE /\ status = [m \in Memories |-> "absent"] /\ reader = "owner"
            /\ text = [m \in Memories |-> CHOOSE t \in Texts : TRUE]
            /\ private = {} /\ pinned = {}
    /\ CacheInit /\ Init /\ EntitiesInit
    /\ IF part = "ranking" THEN K!Init
       ELSE /\ found = [g \in {"bm25", "entity"} |-> <<>>] /\ row = [h \in {1, 2, 3} |-> Plain]
            /\ rstage = "found" /\ order = <<>>
    /\ IF part = "scopes" THEN ctx.chat = "here"
       ELSE ctx = FromInit("profile", NoOne, "here")

\* One window is extracted at a time; of the last turn only what it reads is of interest.
LastTurnReads ==
    /\ Cardinality(jobs') <= 1
    /\ Len(turns) = MaxTurns => jobs' \subseteq jobs /\ \A r \in rows' : r.turn < MaxTurns

MCNext ==
    /\ part' = part
    /\ IF part = "recall"   THEN RecallNext /\ OneOfEach' ELSE UNCHANGED recallVars
    /\ IF part = "vectors"  THEN CacheNext ELSE UNCHANGED cacheVars
    /\ IF part = "scopes"   THEN Next /\ LastTurnReads ELSE UNCHANGED scopeVars
    /\ IF part = "entities" THEN EntitiesNext ELSE UNCHANGED entityVars
    /\ IF part = "ranking"  THEN K!Next ELSE UNCHANGED rankVars

MCSpec == MCInit /\ [][MCNext]_<<part, recallVars, cacheVars, scopeVars, entityVars, rankVars>>

(* A hit that is better in every respect comes first, and the block is     *)
(* filled.                                                                 *)
RankedInFull == part = "ranking" => K!BetterIsFirst /\ K!BlockIsFull
=============================================================================
