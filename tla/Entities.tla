------------------------------- MODULE Entities -------------------------------
(***************************************************************************)
(* Entities and their links (em/store/entities.py), as the link jobs       *)
(* (em/formation/entity_linker.py) and the article ingestion make them:    *)
(* the name lookup, the sighting lists that decide when a name becomes an  *)
(* entity, and what a purge takes with it.                                 *)
(*                                                                         *)
(* Each operation is one write transaction.  A text is the set of phrases  *)
(* a memory's content mentions, and the set of those it proposes: the      *)
(* same, but that a phrase which opens a sentence has lost its first word. *)
(* A phrase has n-grams, of which it is one itself unless it is too long.  *)
(* Jobs are delivered at least once: a worker may die between the commit   *)
(* and the completion, and the job is run again.  Relations, kinds, the    *)
(* cards and the seed dictionary (off by default) are left out.            *)
(***************************************************************************)
EXTENDS Integers, FiniteSets, Sequences, SequencesExt

CONSTANTS
    MemoryRows,    \* memory rows
    Profile,       \* Profile[m]: scope_profile of the row
    RowTexts,      \* what a memory may say: [names, proposes]
    Grams,         \* Grams[p]: the n-grams of phrase p, longest first
    SeenCap,       \* _SEEN_CAP
    MaxSays        \* bound: texts ever stored

Phrases  == DOMAIN Grams
Profiles == {Profile[m] : m \in MemoryRows}
Unsaid   == [names |-> {}, proposes |-> {}]

EntityConstants ==
    /\ \A t \in RowTexts : t.proposes \subseteq Phrases /\ t.names \subseteq Phrases
    /\ SeenCap \in Nat \ {0, 1}
    /\ IsFiniteSet(MemoryRows)

ASSUME EntityConstants

VARIABLES
    rowStatus, rowText,   \* the memories table
    linkJobs,      \* memories with a link job that has not been completed
    entities,      \* the entities and their own alias: <<profile, phrase>>
    links,         \* memory_entities: <<memory, entity>>
    sighted,       \* meta entity_seen:<profile>:<phrase>, oldest first
    said,          \* history: <<memory, phrase>> a row has proposed
    says           \* bound: texts stored so far

entityVars == <<rowStatus, rowText, linkJobs, entities, links, sighted, said, says>>

EntitiesTypeOK ==
    /\ rowStatus \in [MemoryRows -> {"none", "pending", "active", "deleted", "purged"}]
    /\ rowText \in [MemoryRows -> RowTexts \cup {Unsaid}]
    /\ linkJobs \subseteq MemoryRows
    /\ entities \subseteq Profiles \X Phrases
    /\ links \subseteq MemoryRows \X entities
    /\ \A key \in Profiles \X Phrases : sighted[key] \in Seq(MemoryRows) /\ Len(sighted[key]) <= SeenCap
    /\ said \subseteq MemoryRows \X Phrases

EntitiesInit ==
    /\ rowStatus = [m \in MemoryRows |-> "none"]
    /\ rowText = [m \in MemoryRows |-> Unsaid]
    /\ linkJobs = {} /\ entities = {} /\ links = {} /\ said = {}
    /\ sighted = [key \in Profiles \X Phrases |-> <<>>]
    /\ says = 0

-----------------------------------------------------------------------------
(* The store's writers. *)

Says(m, t) ==
    /\ says < MaxSays /\ says' = says + 1
    /\ rowText' = [rowText EXCEPT ![m] = t]
    /\ said' = said \cup ({m} \X t.proposes)

(* A row goes in, live or as a candidate; both ask for a link job only     *)
(* where they are live. *)
AddRow(m, t, st) ==
    /\ rowStatus[m] = "none"
    /\ Says(m, t)
    /\ rowStatus' = [rowStatus EXCEPT ![m] = st]
    /\ linkJobs' = IF st = "active" THEN linkJobs \cup {m} ELSE linkJobs
    /\ UNCHANGED <<entities, links, sighted>>

(* An edit of a live row or of a candidate. *)
EditRow(m, t) ==
    /\ rowStatus[m] \in {"active", "pending"} /\ t # rowText[m]
    /\ Says(m, t)
    /\ linkJobs' = linkJobs \cup {m}
    /\ UNCHANGED <<rowStatus, entities, links, sighted>>

(* A promotion or a restore asks for a job as well. *)
Revive(m) ==
    /\ rowStatus[m] \in {"pending", "deleted"}
    /\ rowStatus' = [rowStatus EXCEPT ![m] = "active"]
    /\ linkJobs' = linkJobs \cup {m}
    /\ UNCHANGED <<rowText, entities, links, sighted, said, says>>

ForgetRow(m) ==
    /\ rowStatus[m] \in {"active", "pending"}
    /\ rowStatus' = [rowStatus EXCEPT ![m] = "deleted"]
    /\ UNCHANGED <<rowText, linkJobs, entities, links, sighted, said, says>>

(* The ids of a list are distinct: one goes at most. *)
Without(seq, m) ==
    IF m \in ToSet(seq) THEN RemoveAt(seq, CHOOSE i \in DOMAIN seq : seq[i] = m) ELSE seq

(* forget_sightings: the lists of the row's profile lose it. *)
ForgetSightings(m) ==
    [key \in DOMAIN sighted |->
        IF key[1] = Profile[m] THEN Without(sighted[key], m) ELSE sighted[key]]

PurgeRow(m) ==
    /\ rowStatus[m] \notin {"none", "purged"}
    /\ rowStatus' = [rowStatus EXCEPT ![m] = "purged"]
    /\ rowText' = [rowText EXCEPT ![m] = Unsaid]
    /\ links' = {l \in links : l[1] # m}
    /\ sighted' = ForgetSightings(m)
    /\ UNCHANGED <<linkJobs, entities, said, says>>

-----------------------------------------------------------------------------
(* EntityStore.link. *)

(* find_entity: any entity the name is an alias of. *)
Called(gram) == {e \in entities : e[2] = gram}

(* The entities a phrase may resolve to: those of its longest known gram. *)
Resolved(p) ==
    LET known == {i \in DOMAIN Grams[p] : Called(Grams[p][i]) # {}}
    IN IF known = {} THEN {}
       ELSE Called(Grams[p][CHOOSE i \in known : \A j \in known : i <= j])

(* One entity per phrase that resolves. *)
Resolutions(names) ==
    {f \in [{p \in names : Resolved(p) # {}} -> entities] : \A p \in DOMAIN f : f[p] \in Resolved(p)}

(* Variant: the same memory counts again. *)
BumpedRaw(key, m) == Append(sighted[key], m)

(* _bump_seen: distinct memories, the newest SeenCap of them. *)
Bumped(key, m) ==
    LET all == IF m \in ToSet(sighted[key]) THEN sighted[key] ELSE Append(sighted[key], m)
    IN SubSeq(all, Max({1, Len(all) - SeenCap + 1}), Len(all))

(* The known names are linked; a name unknown under any profile is sighted *)
(* and, at its second memory, becomes an entity of the row's profile. *)
Link(m) ==
    LET unknown == {p \in rowText[m].proposes : Called(p) = {}}
        key(p)  == <<Profile[m], p>>
        born    == {p \in unknown : Len(Bumped(key(p), m)) >= 2}
    IN /\ entities' = entities \cup {key(p) : p \in born}
       /\ \E f \in Resolutions(rowText[m].names) :
            links' = links \cup {<<m, e>> : e \in {f[p] : p \in DOMAIN f} \cup {key(p) : p \in born}}
       /\ sighted' = [k \in DOMAIN sighted |->
                         IF k[1] # Profile[m] \/ k[2] \notin unknown THEN sighted[k]
                         ELSE IF k[2] \in born THEN <<>> ELSE Bumped(k, m)]

(* The link job.  A row that is not live, or gone, leaves it without work; *)
(* a worker that dies after the commit leaves the job to be run again. *)
RunJob(m) ==
    /\ m \in linkJobs
    /\ linkJobs' \in {linkJobs, linkJobs \ {m}}
    /\ IF rowStatus[m] = "active" THEN Link(m) ELSE UNCHANGED <<entities, links, sighted>>
    /\ UNCHANGED <<rowStatus, rowText, said, says>>

(* The article ingestion links its candidates at once. *)
LinkCandidate(m) ==
    /\ rowStatus[m] = "pending"
    /\ Link(m)
    /\ UNCHANGED <<rowStatus, rowText, linkJobs, said, says>>

EntitiesNext ==
    \E m \in MemoryRows :
        \/ \E t \in RowTexts : EditRow(m, t) \/ \E st \in {"active", "pending"} : AddRow(m, t, st)
        \/ Revive(m) \/ ForgetRow(m) \/ PurgeRow(m)
        \/ RunJob(m) \/ LinkCandidate(m)

EntitiesSpec == EntitiesInit /\ [][EntitiesNext]_entityVars

-----------------------------------------------------------------------------

Proposers(prof, p) == {m \in MemoryRows : Profile[m] = prof /\ <<m, p>> \in said}

(* A name becomes an entity by two different memories of its profile and   *)
(* not by one, however often its job is run; and two live memories whose   *)
(* jobs are done never leave a name they both propose without an entity    *)
(* (entities.py, "once it has been seen in two different memories"). *)
EntitiesAreEarned ==
    /\ \A e \in entities : Cardinality(Proposers(e[1], e[2])) >= 2
    /\ \A m, n \in MemoryRows : \A p \in rowText[m].proposes \cap rowText[n].proposes :
           /\ m # n /\ Profile[m] = Profile[n]
           /\ rowStatus[m] = "active" /\ rowStatus[n] = "active" /\ {m, n} \cap linkJobs = {}
           => Called(p) # {}

(* A purged memory is in no sighting list and in no link, in whatever      *)
(* order its purge and its jobs run (entities.py, forget_sightings). *)
PurgedLeavesNoTrace ==
    \A m \in MemoryRows : rowStatus[m] = "purged" =>
        /\ \A l \in links : l[1] # m
        /\ \A key \in DOMAIN sighted : m \notin ToSet(sighted[key])

EntitiesAreTrue == EntitiesAreEarned /\ PurgedLeavesNoTrace

(* Expected, and refuted: a memory is linked to entities of its own        *)
(* profile.  The lookup of a name does not ask for the profile.            *)
LinkedInItsProfile == \A l \in links : l[2][1] = Profile[l[1]]
=============================================================================
