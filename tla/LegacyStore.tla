----------------------------- MODULE LegacyStore -----------------------------
(***************************************************************************)
(* The v2 engine (memory_engine.py) and what becomes of its store: the     *)
(* facts with their quarantine and archive, the log through which another  *)
(* profile's store learns of them, and the one-way upgrade to v3           *)
(* (store/migrations/0002_v3_core.py).                                     *)
(*                                                                         *)
(* A fact's id is the hash of the text it was first stored with; a fuzzy   *)
(* update puts another text under it.  The engine's operations hold one    *)
(* file lock over all processes, so each is one step, but `audit` commits: *)
(* where it is called inside an operation a crash leaves that half of it.  *)
(* One store publishes here and one pulls; an event of the puller itself,  *)
(* which it would skip, does not occur.  Whom a fact was stored for        *)
(* (profile_id) is nothing to the engine, and chosen when the upgrade      *)
(* reads it.                                                               *)
(***************************************************************************)
EXTENDS Integers, Sequences, FiniteSets, SequencesExt

CONSTANTS
    Texts,         \* sanitised texts, and with them the ids
    Class,         \* what v3 takes for the same text (content_hash normalises)
    Near,          \* pairs that pass _safe_fuzzy_update, as sets
    NoRow,
    LegacyWrites   \* bound on writes, which also serve as the clock

(* The rows: of the facts, of the quarantine and the archive, of the puller's
   projection; and of the v3 table, with the row its text has its winner in.  *)
Tiers      == {"internal", "sensitive"}    \* the policy blocks a secret
FactRow    == [text : Texts, tier : Tiers, at : Nat, version : Nat]
PendingRow == [text : Texts, at : Nat]
SharedRow  == [version : Nat, text : Texts, deleted : BOOLEAN]
Profiles   == {"own", "default"}
MemoryRow == [text : Texts, by : Texts, version : Nat, profile : Profiles,
              status : {"active", "superseded", "pending", "archived"}]

LegacyConstants ==
    /\ Class \in [Texts -> Texts]
    /\ Near \subseteq SUBSET Texts
    /\ LegacyWrites \in Nat
    /\ NoRow \notin MemoryRow \cup FactRow \cup SharedRow

ASSUME LegacyConstants

VARIABLES
    facts, pending, archive,   \* the three tables, by id
    snapshots,                 \* rows of fact_versions, by id
    outbox,                    \* sync_outbox, the rows not emitted yet
    log,                       \* sync_events
    pulled, shared,            \* the puller: the events it is past, its projection
    writes,
    migrated, upgrade,         \* the v3 table, and how upgrading went so far
    untold                     \* history: ids the log may be wrong about, see Untold

legacyVars == <<facts, pending, archive, snapshots, outbox, log, pulled, shared, writes,
                migrated, upgrade, untold>>

LegacyInit ==
    /\ facts = [t \in Texts |-> NoRow]
    /\ pending = facts /\ archive = facts /\ shared = facts /\ migrated = facts
    /\ snapshots = [t \in Texts |-> 0]
    /\ outbox = <<>> /\ log = {} /\ pulled = {}
    /\ writes = 0
    /\ upgrade = "never"
    /\ untold = {}

Stored(table) == {t \in Texts : table[t] # NoRow}

Now == writes + 1

Writes ==
    /\ writes < LegacyWrites /\ writes' = Now
    /\ upgrade # "done"
    /\ UNCHANGED <<log, pulled, shared, migrated, upgrade>>

-----------------------------------------------------------------------------
PublishAllowed(tier) == tier # "sensitive"

EnqueueEvent(op, f, version, text, tier) ==
    outbox' = IF PublishAllowed(tier)
              THEN Append(outbox, [op |-> op, fact |-> f, version |-> version, text |-> text])
              ELSE outbox

(* The rows a text may end up in: the one of its id, else a near-duplicate
   the search hit upon (it looks at some rows and takes the first that is
   similar, so it may miss), else a new one.  *)
Homes(t) ==
    IF facts[t] # NoRow THEN {t}
    ELSE {t} \cup {f \in Stored(facts) : facts[f].text = t \/ {facts[f].text, t} \in Near}

Row(f, t, tier) ==
    [text |-> t, tier |-> tier, at |-> Now,
     version |-> IF facts[f] = NoRow THEN 1 ELSE facts[f].version + 1]

PutRow(f, t, tier) ==
    /\ facts' = [facts EXCEPT ![f] = Row(f, t, tier)]
    /\ snapshots' = IF facts[f] = NoRow THEN snapshots ELSE [snapshots EXCEPT ![f] = @ + 1]

(* The events that are in the log or on their way. *)
Told == log \cup ToSet(outbox)

(* What the log cannot tell the other store, or tells it wrong:
     - a row that stays local, and whatever was published before;
     - a row stored again under an id that had one (the versions start over,
       and their slots in the log are taken);
     - an archived row (no event), and a row whose event a crash cut off.  *)
Untold(f, tier) ==
    IF \/ ~PublishAllowed(tier)
       \/ /\ facts[f] = NoRow
          /\ \/ archive[f] # NoRow
             \/ \E e \in Told : e.fact = f
    THEN untold \cup {f} ELSE untold

Remembered(f, t, tier) ==
    /\ PutRow(f, t, tier)
    /\ EnqueueEvent(IF facts[f] = NoRow THEN "create" ELSE "update", f,
                    Row(f, t, tier).version, t, tier)
    /\ untold' = Untold(f, tier)
    /\ UNCHANGED archive

Remember(t, tier) ==
    /\ Writes
    /\ \E f \in Homes(t) : Remembered(f, t, tier)
    /\ UNCHANGED pending

(* A crash after the audit of a fuzzy update or of a possible duplicate, which
   commits the row, and before its outbox row.  *)
RememberCut(t, tier) ==
    /\ Writes
    /\ facts[t] = NoRow /\ Stored(facts) # {}
    /\ \E f \in Homes(t) : PutRow(f, t, tier) /\ untold' = untold \cup {f}
    /\ UNCHANGED <<pending, archive, outbox>>

(* The quarantine of an extraction or a proposal, again if it is there. *)
Quarantine(t) ==
    /\ Writes
    /\ pending' = [pending EXCEPT ![t] = [text |-> t, at |-> Now]]
    /\ UNCHANGED <<facts, archive, snapshots, outbox, untold>>

(* extract_and_store: the candidate goes to the quarantine and, promoted, to
   the facts as well; its pending row stays as the record of the extraction.
   Without promotion, or with a process in between, it is Quarantine and then
   Remember.  *)
Extract(t, tier) ==
    /\ facts[t] = NoRow /\ pending[t] = NoRow
    /\ Writes
    /\ pending' = [pending EXCEPT ![t] = [text |-> t, at |-> Now]]
    /\ \E f \in Homes(t) : Remembered(f, t, tier)

(* promote_pending; a crash in between leaves Remember alone. *)
Promote(t, tier) ==
    /\ pending[t] # NoRow
    /\ Writes
    /\ \E f \in Homes(t) : Remembered(f, t, tier)
    /\ pending' = [pending EXCEPT ![t] = NoRow]

(* discard_pending, and prune_pending with its age. *)
Discard(t) ==
    /\ pending[t] # NoRow
    /\ Writes
    /\ pending' = [pending EXCEPT ![t] = NoRow]
    /\ UNCHANGED <<facts, archive, snapshots, outbox, untold>>

PrunePending(before) ==
    /\ \E t \in Stored(pending) : pending[t].at < before
    /\ Writes
    /\ pending' = [t \in Texts |-> IF pending[t] # NoRow /\ pending[t].at < before
                                   THEN NoRow ELSE pending[t]]
    /\ UNCHANGED <<facts, archive, snapshots, outbox, untold>>

(* The row goes, its snapshots stay; the tombstone takes a version of its own.
   Variant: it has the row's version. *)
ForgetSameVersion(f) ==
    /\ facts[f] # NoRow
    /\ Writes
    /\ EnqueueEvent("delete", f, facts[f].version, facts[f].text, facts[f].tier)
    /\ facts' = [facts EXCEPT ![f] = NoRow]
    /\ UNCHANGED <<pending, archive, snapshots, untold>>

Forget(f) ==
    /\ facts[f] # NoRow
    /\ Writes
    /\ EnqueueEvent("delete", f, facts[f].version + 1, facts[f].text, facts[f].tier)
    /\ facts' = [facts EXCEPT ![f] = NoRow]
    /\ UNCHANGED <<pending, archive, snapshots, untold>>

(* Facts that are old, unused and unimportant move to the archive, where the
   version starts over; the log hears nothing of it.  *)
Consolidate(S) ==
    /\ S # {} /\ S \subseteq Stored(facts)
    /\ Writes
    /\ archive' = [t \in Texts |-> IF t \in S
                                   THEN [text |-> facts[t].text, at |-> Now] ELSE archive[t]]
    /\ facts' = [t \in Texts |-> IF t \in S THEN NoRow ELSE facts[t]]
    /\ untold' = untold \cup S
    /\ UNCHANGED <<pending, snapshots, outbox>>

-----------------------------------------------------------------------------
(* The log is a set: an event's number only tells the puller what is new.
   sync_events is unique by fact and version.  *)
SameSlot(d, e) == d.fact = e.fact /\ d.version = e.version

(* INSERT OR IGNORE, row by row: of the events of a slot the first stays. *)
Emitted(events) ==
    log \cup {events[i] : i \in {i \in DOMAIN events :
                 /\ \A d \in log : ~SameSlot(d, events[i])
                 /\ \A j \in DOMAIN events : j < i => ~SameSlot(events[j], events[i])}}

Published ==
    /\ outbox # <<>> /\ upgrade # "done"
    /\ log' = Emitted(outbox)
    /\ UNCHANGED <<facts, pending, archive, snapshots, pulled, shared, writes, migrated,
                   upgrade, untold>>

PublishLog == Published /\ outbox' = <<>>

(* A crash after the commit in the shared log, and before the local mark. *)
PublishCut == Published /\ UNCHANGED outbox

(* publish --backfill: the facts as they are, outbox or not. *)
FactEvent(t) == [op |-> "create", fact |-> t, version |-> facts[t].version,
                 text |-> facts[t].text]

Backfilled(S) ==
    {FactEvent(t) : t \in {u \in S : /\ PublishAllowed(facts[u].tier)
                                    /\ \A d \in log : ~SameSlot(d, FactEvent(u))}}

Backfill ==
    /\ upgrade # "done"
    /\ log' = log \cup Backfilled(Stored(facts))
    /\ UNCHANGED <<facts, pending, archive, snapshots, outbox, pulled, shared, writes,
                   migrated, upgrade, untold>>

(* The events the puller has not seen that are newer than what it shows of the
   fact.  It goes through them in order and the newer version stays; slots are
   unique, so written_at never decides.  *)
News(f) == {e \in log \ pulled : e.fact = f /\ (shared[f] # NoRow => e.version > shared[f].version)}

Highest(events) == CHOOSE e \in events : \A d \in events : d.version <= e.version

ShownAs(e) == [version |-> e.version, text |-> e.text, deleted |-> e.op = "delete"]

Pull ==
    /\ pulled # log
    /\ shared' = [f \in Texts |-> IF News(f) = {} THEN shared[f] ELSE ShownAs(Highest(News(f)))]
    /\ pulled' = log
    /\ UNCHANGED <<facts, pending, archive, snapshots, outbox, log, writes, migrated,
                   upgrade, untold>>

-----------------------------------------------------------------------------
(* The upgrade.  An id in two of the tables breaks the UNIQUE on legacy_id and
   the transaction is rolled back.  *)
Clash == \E t \in Texts :
    Cardinality({table \in {1, 2, 3} : t \in Stored(<<facts, pending, archive>>[table])}) > 1

LiveId(t) == facts[t] # NoRow \/ pending[t] # NoRow

LiveRow(t) == IF facts[t] # NoRow THEN facts[t] ELSE pending[t]

(* A fact has the profile it was stored for.  A pending row has none, and is
   the registered profile's if there is one, else the default's.  *)
Scopings ==
    {of \in [Texts -> Profiles] : \A t, u \in Stored(pending) : of[t] = of[u]}

Group(t, of) ==
    {u \in Texts : /\ LiveId(u) /\ of[u] = of[t]
                   /\ Class[LiveRow(u).text] = Class[LiveRow(t).text]}

(* _resolve_duplicates.  Variant: the sort is not reversed. *)
WinnerOldest(t, of) ==
    CHOOSE w \in Group(t, of) : \A u \in Group(t, of) : LiveRow(w).at <= LiveRow(u).at

Winner(t, of) ==
    CHOOSE w \in Group(t, of) : \A u \in Group(t, of) : LiveRow(u).at <= LiveRow(w).at

Memory(t, of) ==
    IF LiveId(t)
    THEN [text |-> LiveRow(t).text, by |-> Winner(t, of), profile |-> of[t],
          version |-> IF facts[t] # NoRow THEN facts[t].version ELSE 1,
          status |-> IF Winner(t, of) # t THEN "superseded"
                     ELSE IF facts[t] # NoRow THEN "active" ELSE "pending"]
    ELSE IF archive[t] # NoRow
    THEN [text |-> archive[t].text, by |-> t, profile |-> of[t], version |-> 1,
          status |-> "archived"]
    ELSE NoRow

Upgrade ==
    /\ upgrade # "done"
    /\ IF Clash
       THEN upgrade' = "failed" /\ UNCHANGED migrated
       ELSE /\ upgrade' = "done"
            /\ \E of \in Scopings : migrated' = [t \in Texts |-> Memory(t, of)]
    /\ UNCHANGED <<facts, pending, archive, snapshots, outbox, log, pulled, shared, writes,
                   untold>>

LegacyNext ==
    \/ \E t \in Texts, tier \in Tiers :
          \/ Remember(t, tier) \/ RememberCut(t, tier)
          \/ Extract(t, tier) \/ Promote(t, tier)
    \/ \E t \in Texts : Quarantine(t) \/ Discard(t) \/ Forget(t)
    \/ \E before \in 2..LegacyWrites : PrunePending(before)
    \/ \E S \in SUBSET Texts : Consolidate(S)
    \/ PublishLog \/ PublishCut \/ Backfill \/ Pull
    \/ Upgrade

LegacySpec == LegacyInit /\ [][LegacyNext]_legacyVars
-----------------------------------------------------------------------------
(* Once everything is emitted and pulled, the other store shows each fact as
   it is here and none that is gone, although publishing, backfilling and
   pulling interleave, repeat and are cut off: but for the ids that Untold
   names, where the protocol does not reach.  *)
PeersAgree ==
    outbox = <<>> /\ pulled = log =>
        \A t \in Texts \ untold :
            IF facts[t] # NoRow
            THEN shared[t] = [version |-> facts[t].version, text |-> facts[t].text,
                              deleted |-> FALSE]
            ELSE shared[t] # NoRow => shared[t].deleted

(* After an upgrade each text that was live is live once in its profile, in
   the row written last, to which its other rows there point; and no row is
   lost.  *)
Scoped == [t \in {u \in Texts : LiveId(u)} |-> migrated[t].profile]

NewestStaysLive ==
    upgrade = "done" =>
        /\ \A t \in Texts : LiveId(t) =>
              /\ migrated[t] # NoRow
              /\ \E w \in Texts :
                    /\ {w} = {u \in Group(t, Scoped) : migrated[u].status \in {"active", "pending"}}
                    /\ LiveRow(t).at <= LiveRow(w).at
                    /\ migrated[t].by = w
        /\ Stored(archive) \subseteq Stored(migrated)

(* Expected and not so: the upgrade takes every store the v2 engine makes. *)
EveryStoreUpgrades == upgrade # "failed"
=============================================================================
