----------------------------- MODULE MCEmbedJobs -----------------------------
(***************************************************************************)
(* Instances of EmbedJobs, Episodes and LegacyStore for TLC; they share no *)
(* state.  part says what a behaviour is about: two workers on the embed   *)
(* jobs of a filled store with one model (two), one worker through model   *)
(* switches, backfills and prunes of an empty one (switch), a backfill and *)
(* a prune beside an embed job (race), a v2 store (legacy), what the hooks *)
(* write of three sessions, one of them a host's that has none (hooks), or *)
(* the embed jobs of one session's episodes (episodes).                    *)
(***************************************************************************)
EXTENDS EmbedJobs, Episodes, LegacyStore, TLC

CONSTANTS m1, w1, w2, k1, k2, k3, t1, t2

VARIABLE part

ASSUME EpisodeConstants

TwoWorkers  == {w1, w2}
TwoModels   == {k1, k2}
ThreeModels == {k1, k2, k3}

\* Names of sessions that stay as they are.
OwnName == [s \in Sessions |-> s]

\* Two texts that differ in case only, say.
TwoTexts == {t1, t2}
OneClass == [t \in TwoTexts |-> t1]
OnePair  == {TwoTexts}

MCInit ==
    /\ part \in {"two", "switch", "race", "legacy", "hooks", "episodes"}
    /\ Init /\ LegacyInit /\ EpisodesInit
    /\ CASE part = "two"  -> stored = own
         [] part = "race" -> own \in Configured /\ stored \in Configured \ {own}
         [] OTHER         -> stored = NoModel
    /\ part \in {"legacy", "hooks", "episodes"} => own = k3
    /\ part # "hooks" => sid = [p \in Providers |-> "s"]

MCNext ==
    /\ part' = part
    /\ IF part \in {"two", "switch", "race"} THEN Next ELSE UNCHANGED vars
    /\ IF part = "legacy" THEN LegacyNext ELSE UNCHANGED legacyVars
    /\ IF part \in {"hooks", "episodes"} THEN EpisodesNext ELSE UNCHANGED episodeVars
    /\ part = "two" => queue' \subseteq EmbedsOf
    /\ part = "switch" => job'[w2] = NoJob
    /\ part = "race" => /\ job'[w1].kind # "embed" /\ job'[w2].kind \in {"none", "embed"}
                        /\ lease'[w2] # "expired" /\ keys' \cap Fills \subseteq {Fill(own)}
    /\ part \in {"switch", "race"} => \A m \in Memories : version'[m] < MaxVersion
    /\ part = "hooks" => reading' = {} /\ jobs \subseteq jobs'
    /\ part = "episodes" => UNCHANGED <<sid, flush, chunks, undone, handed>>

MCSpec == MCInit /\ [][MCNext]_<<part, vars, legacyVars, episodeVars>>

\* The two configured models are interchangeable.
Alike == Permutations(TwoModels)
=============================================================================
