# EntropicMem: a verification development

EntropicMem is a memory system for an agent host (Hermes). It keeps memories,
episodes and transcript chunks in one SQLite store, captures conversation turns
through host hooks, extracts candidate memories in background jobs, embeds
them, and projects them into a Markdown vault a person can edit. This directory
holds TLA+ modules translated from that code, the TLC configurations that check
them and proofs that TLAPS checks. Paths below are relative to
`src/plugins/entropicmem/scripts/em/` unless they start with `src/`.

## Contents

1. Inventory of the system
2. Modules, and how they correspond to the code
3. Runs: what is checked, on which instances
4. Fairness
5. Proofs
6. Where code and comments disagree
7. Known limits of the code, outside the checked properties
8. Not modelled, and the plan

## 1. Inventory

### How the parts interact

The host calls the **provider** (`provider/provider.py`, `provider/tools.py`):
turn hooks, memory tools and `/undo` on the agent thread, `sync_turn` on one
background thread of the host. The provider writes to the **repositories**
(`store/memories.py`, `store/episodes.py`, `store/entities.py`), each operation
inside one `BEGIN IMMEDIATE` transaction, and hands slow work to the **job
queue** (`store/jobs.py`), often in the same transaction as the write that needs
it. **Workers** (`jobs/worker.py`), one thread per provider and one per `em jobs`
command, claim rows, run a **handler** outside any transaction and record the
outcome. Handlers are in `embeddings/` (vectors), `formation/` (extraction,
reconciliation, entity links), `vault/` (pages and the index over them),
`store/retract.py` (undo) and `store/backup.py`. **Retrieval** and the **prefetch
service** only read, on the agent thread and on threads of their own. The **v2
engine** serves databases that were not upgraded, with a **shadow read** of the
v3 engine beside it.

Shared state is the database, the vault directory and, per process, the vector
cache, the prefetch cache and `ProviderState`. There is no other communication:
components meet in tables, in dedupe keys and in `meta` rows.

### Components

| Component | State it keeps | Operations | Hard behaviours | What makes it correct | Module |
|---|---|---|---|---|---|
| Job queue and workers | `jobs` rows (status, lease, attempts, run_after, dedupe key); the row a worker runs | enqueue, claim, heartbeat, complete, fail, release, retry_dead, prune | lease expiry under a running handler, crashes, takeovers | one leased runner per row; only the holder records an outcome; attempts bounded; served jobs settle | JobQueue, WorkLedger |
| Vault projection schedule | chains of `project_vault` and `reindex_vault` rows; page and index files | enqueue_projection, enqueue_reindex, both handlers | debounce, writes during a render, two workers | no write is left without a render ahead; pages catch up | VaultSchedule |
| Memories repository | `memories`, `memory_versions`, unique index of live content | add, update, supersede, set_status, retract_session, restore, purge | status graph, versions, constraints that abort a transaction | live content unique, no content lost, forgotten stays gone | MemoryStore |
| Turn numbering and `/undo` | `ProviderState.turn_index`, its `meta` row, `source_turn`, `retract_turns` jobs | on_turn_start, sync_turn, on_session_switch, remember, retraction | background thread, restarts, delayed and repeated retraction | what was undone goes, what came before stays | TurnRetraction |
| Embedding jobs | `embeddings` rows, three `meta` keys | embed, embed_backfill, prune, ensure_embedding_model | read / compute / write over a slow call, stale jobs, model switches | no older vector replaces a newer one; a recorded model is filled; rollback models survive | EmbedJobs |
| Vector cache | arrays per process, a fingerprint | cached_vectors | writers in other processes | no mixture of two snapshots; own writes are seen | VectorCache |
| Window formation | window counters, `meta` ledger, chunks | seal, extract_window | crash between seal, ledger and enqueue; two threads | each message offered to one extraction | Windows |
| Reconciliation | pending candidates | decide, apply, auto-commit | stale lists, once-only key | a pass loses no fact | Reconcile |
| Episodes | `episodes`, `transcript_chunks` | upsert, append, checkpoint, delegation | keys, stamps against jobs, retries with other pins | an episode stays what it was; a checkpoint handed over is whole | Episodes |
| Entities and linker | `entities`, aliases, links, sighting lists | resolve, sight, link, purge | stale and repeated link jobs | a link is a mention of the row's text | Entities |
| Retrieval pipeline | vocabulary cache | analyze, generate, fuse, gate, collapse, MMR, pack | statements of one retrieval between commits; numeric edges | what is shown may be read; order and budget | Recall, Ranking |
| Prefetch service | result cache, topics, recent injections, two worker threads | prefetch, queue_precompute, close | deadlines, late answers, abandoned generators | nothing shown that was gone before the call; nothing repeated within its distance | Prefetch |
| Scopes and policy | the session's scope, the block cache's key | move to an author, `can_read`, `scope_sql` | background writers that read a moved scope | nobody reads another person's rows | Scopes |
| Migrations, opening, lock | `user_version`, `schema_migrations`, lock file | migrate, open, FileLock | two processes, stale locks, crash between steps | every migration once and in order, after a backup | Migrations |
| Backup and restore | snapshot directories | create, rotate, restore, import | interruption between steps, kills with a log left | what is replaced is kept; all the snapshot holds is in place, or nothing changed | Backups |
| v2 engine and upgrade | v2 tables, outbox, shared log | remember, forget, consolidate, publish, pull, upgrade | crashes between commit points | the other store agrees; the upgrade keeps the newest | LegacyStore |
| Vault content and ingest | marked sections, baselines, hints | merge, ingest, render | hand edits beside renders | human text kept; hints are earned | VaultPages |
| Vault index | index database | refresh, rescans, fallback | partial refresh, edits meanwhile | a full refresh shows the files | NoteIndex |
| Facade | content-named rows (`legacy_id`) | remember, forget, mirror | host events that arrive after the fact, swallowed errors | the host's memory is mirrored; a confirmation forgets what was shown | Facade |
| Shadow read | a copy of the store, a log | refresh, read, evaluate | threads that share the copy, a refresh that breaks off | verdicts move only as they should; collecting goes on | Shadow |
| LLM formation, audit chain, provider start and shutdown, graph, article ingest, screening, text helpers, configuration, CLI, evaluations | see section 8 | | | | none |

`PROJECT.json` lists every one with its sources and status.

## 2. Modules

Each module opens with what it abstracts. A definition preceded by a comment
*Variant:* is a plausible bug of the definition after it; no specification uses
it. Substituting it breaks the property it is paired with in `PROJECT.json`,
which shows that the property depends on that code. Operators commented
*Expected, and refuted* state what one would expect or a comment says; the model
violates them, and section 7 says how.

| Module | Models |
|---|---|
| `JobQueue`, an instance of `WorkLedger` | `store/jobs.py`, `jobs/worker.py` |
| `WorkLedger` | what the queue promises its producers |
| `VaultSchedule` | `vault/schedule.py`, the render loop of `vault/projection.py`, the refresh of `em_internal/index.py` as reads and writes |
| `VaultPages` | `vault/ingest.py`, `vault/projection.py`: what one pass does |
| `NoteIndex` | `em_internal/index.py`, `em_internal/vault.py`, the note commands |
| `MemoryStore` | `store/memories.py`, its callers in `provider/tools.py` and `facade/engine.py`, the constraints of migration 0002 |
| `Facade` | `facade/engine.py`, the tools' remember, update and forget, `on_memory_write` |
| `TurnRetraction` | turn hooks of `provider/provider.py`, `store/retract.py`, the stamp of `formation/extract_jobs.py` |
| `Windows` | window counters, ledger and seals of `provider/provider.py`, `extract_window` |
| `Reconcile` | `formation/reconcile.py`, the pending rows and key of `formation/extract_jobs.py` |
| `Episodes` | episode hooks of the provider, `store/episodes.py`, the facade's keys |
| `Scopes` | `policy/scopes.py`, the provider's scope per turn, its block cache |
| `EmbedJobs` | `embeddings/jobs.py`, `embeddings/prune.py`, model keys of `store/embeddings.py` |
| `VectorCache` | `embeddings/cache.py` |
| `Recall`, `Ranking` | `retrieval/pipeline.py` statement by statement; `fusion.py`, `gate.py`, `diversity.py`, `packer.py` as functions |
| `Prefetch` | `provider/prefetch_service.py` |
| `Entities` | `store/entities.py`, `formation/entity_linker.py` |
| `Migrations`, `Backups` | `store/db.py`, `store/migrations/__init__.py`; `store/backup.py`, `import_capsule` |
| `LegacyStore` | `memory_engine.py`, `store/migrations/0002_v3_core.py` |
| `Shadow` | `src/plugins/entropicmem/_shadow.py`, `_spawn_shadow` |
| `...Proofs` | theorems about the modules they extend (section 5) |
| `MC...` | constants for TLC, symmetry, and parts side by side |

Composition. Components that meet in one table are one module: `JobQueue` has
the queue and its workers, `EmbedJobs` the handlers beside the writers of the
rows they read, `Recall` a retrieval beside the writers, `Facade` the tools
beside the host's mirror, `Shadow` the threads beside the copy they share. Where
components only meet through the queue, each carries the part of the queue it
depends on (claim, takeover, late finish), with the guarantees JobQueue has:
one leased runner, takeover only of an expired lease, no effect of a late
finisher. Leaving out priorities and attempt counts only adds orders of runs,
so what holds of the reduced queue holds of the full one. The product of all is
beyond TLC.

The MC modules `MCVaultPair`, `MCUpkeep`, `MCStore`, `MCTurns`, `MCEmbedJobs`
and `MCRetrieval` each hold several components of one neighbourhood that share
no variable. A variable `part` is chosen in the first state and says which of
them moves; the others stay in their first states. A behaviour of such a run is
a behaviour of one component, and every property of a component is checked over
all of its behaviours. A component whose properties are also proved is extended
by its MC module, so that the run checks the very definition the theorem states:
`MCStore` extends `MemoryStore`, `Windows`, `Backups`, `Reconcile` and `Facade`,
`MCTurns` `TurnRetraction` and `Prefetch`, `MCEmbedJobs` `EmbedJobs`, `Episodes`
and `LegacyStore`, `MCRetrieval` `Scopes`, `Recall`, `VectorCache` and `Entities`,
`MCVaultPair` `VaultSchedule`, `VaultPages` and `NoteIndex`, `MCUpkeep`
`Migrations` and `Shadow`. Instances are `Ranking` in `MCRetrieval`, and
`VaultSchedule` in `MCUpkeep`, which checks its liveness.

**JobQueue.** A row is the functions `status`, `what`, `due`, `attempts`,
`lock`; a worker is `run[w]`, the job it handles and what it believes is left
of its lease. Every queue method is one action because each runs in one
immediate transaction. `Claim` buries exhausted expired rows first, as
`claim` does, and charges the attempt. Between `Claim` and `Record` (complete,
fail, release) any other action may happen, `Tick` and `Crash` included. Time is
relative to now, so there is no clock to bound. `EndLost` is a handler that
returns after its row was taken.

**WorkLedger.** Work is absent, owed, done, dead or forgotten, and tries are
counted. No worker, lease, clock or key. `JobQueue!LedgerSpec` is the refinement.

**VaultSchedule.** Row `<<k, i>>` is the i-th row of the dedupe-key chain of a
kind (`enqueue_projection` walks `base`, then `base:<id>`). `Write` makes pages
stale and requests a projection in one step, as the provider does in one
transaction. `QueryRows` reads for a page, `Replace` writes it, and a write in
between turns the worker's snapshot stale. `handles` is what each worker
registered when it began; it never changes. `RequestRefresh`, `ReadNote` and
`CommitIndex` do the same for the index. Page content is a Boolean: it shows
the present store or not.

**MemoryStore.** `AddLive`, `AddPending`, `Edit`, `Supersede`, `Move` (every
`set_status`, through `Promote`, `Discard`, `Archive`, `Forget`, `Retract`,
`Restore`) and `Purge`. `Move` takes a set of rows because a caller changes
several in one transaction, and one that breaks the unique index undoes them
all. `trail` is `memory_versions` as a set of numbered entries.

**TurnRetraction.** `StartTurn` and `EndTurn` are the host's exchange,
`SyncTurn` its background thread, `Undo` the rewound `on_session_switch`
(enqueue, step the counter back, persist), `Switch` and `Restart` read the
`meta` row. `Remember`, `SyncTurn` and `Extract` write memories stamped the way
each of the three writers stamps them. `Retract` may run and not be reported,
so it runs again. Exchanges have identities the provider does not see; the
properties are stated with them.

**EmbedJobs.** A text is named by the version that wrote it and a vector by the
text it was made from, so "older" is a number. Each handler is cut where the
code leaves a transaction: `EmbedRead`, `EmbedWrite`; `FillRead`, `FillWrite`,
`Stamp`; `PruneRead`, `PruneWrite`. The writers are those of MemoryStore reduced
to what they do to status, version and text. The histories `lost` and `arrived`
say where a vector is missing by the code's own doing (section 7), so that the
properties can ask for it everywhere else. `Age` ends the grace of a switch while
no prune is between its look and its delete: the grace is days, a prune seconds.

**Windows, Reconcile.** A seal is cut where `provider.py` leaves the lock, the
ledger write and the enqueue; the other thread counts, persists and captures. A
pass of `Reconcile` lists once, decides each candidate on that list, and commits
all in one transaction.

**Recall, VectorCache, Prefetch, Scopes.** A read is cut at each statement,
writers commit in between, and the properties compare what is shown with what
could be read during the call (`Recall`: the pairs of row and text it had before
it, `seen`) or at its start. The writers of `Recall` change a row's text, its tier
and its pin, as a patch in the code may. `Ranking` has the arithmetic (integers,
exact) that `Recall` leaves open.

**Migrations, Backups, LegacyStore.** Transactions and file operations are
steps; a crash falls between any two. `Backups` keeps the write-ahead log as
state of its own, because a file put in the place of another one meets it. The
shared log of the v2 stores is a set of events and the puller's place in it the
set of those it is past: an event's number only says what is new, and the newer
version of a fact stays whatever order they come in.

**VaultPages, NoteIndex, Entities, Facade, Episodes, Shadow.** Cut at the
transactions and file replacements of the code, with the user's editor, the
host's own memory and the host's hooks as external actors.

## 3. Runs

| Run | Instance | Properties |
|---|---|---|
| `queue` | 2 workers, the second without one of the job types; 2 rows, 1 key, 2 attempts, fairness | `OneLeasedRunner`, `PoisonBounded`, `LedgerSpec`, `JobsSettle` |
| `vault` | schedule with one worker that does both, with a projecting and a refreshing one, and with two projecting ones; a page with 2 memories, 1 line of history and 6 moves of the user and the store; 2 notes with 3 saves | `AloneCovered`, `PagesAreTrue`, `HintsEarned`, `RefreshIsFull` |
| `upkeep` | schedule with one worker, debounce 2, ceiling 3, fairness; 3 processes on a new store (one without the lock, with edited migrations and without leave to migrate data; one of an older build), 1 failure; a shadow copy with 2 threads, 1 broken refresh; logs of at most 3 lines | `VaultCatchesUp`, `MigratedWhole`, `Upgraded`, `LinesAreLeft` (`Shadow!TurnsAreMeasured`), `VerdictIsSound` |
| `store` | 2 rows, 2 contents, 5 versions; 2 sessions with 3 exchanges, 1 fault; 4 texts of 3 topics, two of them near duplicates across topics, with 2 extractions; 3 snapshots with one kept of each class; 3 texts of the host's memory; 2 confirmation tokens | `LiveContentUnique`, `TrailIsWhole`, `ForgottenStaysGone`, `OfferedOnce`, `TopicKept`, `RestoreIsSafe`, `MirrorFollows`, `ConfirmedWasShown` |
| `turns` | 2 sessions, 3 exchanges, 1 memory of any of three writers; 6 prefetch calls, 2 commits, distances 2 and 5; 3 questions asked ahead, queue of 2 | `LeftoversCovered`, `EarlierTurnsKept`, `LeftoversGo`, `HitIsCurrent`, `GapKept`, `AsksEnd` |
| `embed` | 1 memory with 3 versions: 2 workers on its embed jobs, 1 worker over model switches, and a backfill or prune beside an embed job; a v2 store with 2 texts and 3 writes and its puller; the hooks of a conversation | `NewestStaysLive`, `VectorsKept`, `CurrentOrAsked`, `PeersAgree`, `CheckpointKept`, `EpisodesKept` |
| `retrieval` | 3 memories, 2 texts, 2 writes, at most 1 pinned row found; 2 processes with 2 puts; 2 people, a bot and no author in 3 turns; entities with 3 memories in 2 profiles, a long phrase, a short one inside it and a title longer than any n-gram; 3 hits of 2 generators | `AnswerIsReadable`, `PinnedKept`, `OwnPutSeen`, `ScopeIsKept`, `SyncedOfItsAuthor`, `EntitiesAreTrue`, `RankedInFull` |
| `vault_chain`, `turn_seq`, `embed_bump`, `formation_key`, `upgrade` | small | a statement of the repository fails (section 6) |

What they show, in the order of the table:

* Two runners of a row never meet inside their leases; a job that kills its
  process is tried `max_attempts` times and buried; the queue implements the
  ledger; what some worker can run settles.
* With one worker per kind of job every write has a render and a refresh ahead of
  it. What was forgotten leaves the page of its entity, only lines that stood on
  the page are hinted as removed, and after an undisturbed pass the page shows the
  store.
  A refresh beside which no file moved leaves the index a rebuild would make.
* A projection runs although writes never stop, and pages catch up when they do. A
  store several builds open is migrated in order and by migrations of one text, each
  run keeps a backup of where it started, and whoever keeps opening and is refused
  neither for its path nor for the text of its migrations ends at the schema of its
  build. One more
  line of the shadow log never turns a failure into a pass by being torn or of
  another build, and a refresh that broke off ends no collecting.
* No two live rows say the same; no content is overwritten without a version row
  and no version number is used twice; forgotten rows stay gone. Each message is
  in one extraction. A pass over the candidates loses no topic, but to one a
  near duplicate joins it to. A restore keeps what it replaces, and
  puts all that its snapshot holds in place or nothing. The host's memory is mirrored by live rows; a
  confirmation forgets what was shown.
* While something an undone exchange wrote is live, a queued retraction reaches
  it; it goes in the end; earlier exchanges are kept. A prefetch shows nothing
  that was gone before the call began, repeats nothing within its distance, and
  every question asked ahead ends.
* A text that is to be found has its vector or the job that makes it, unless the
  job found no backend or a backfill or prune took the vector; a late embed job
  never replaces a newer vector; a recorded model is filled; prunes spare the
  rollback set. A v2 store and its puller agree; the upgrade keeps the newest row
  of each text live in its profile. An episode is not rewritten by another one, and a checkpoint
  that was handed over is whole.
* What passes the gate of a retrieval, and what it quotes, its reader could read
  with that text at some moment of it. What is shown was live with its text
  meanwhile, and is what passed unless the row was written during the call. A
  pinned row nobody touched is in an answer that left nothing out; a
  process sees its own puts; nobody reads another person's rows, though background
  writers run after the scope moved; a name becomes an entity when two memories of
  its profile called it, and a purged one is in no list; a better hit never loses
  to a worse one, and a row is left out of a block only when it does not fit.

Bounds. Two workers give every pairwise race and takeover of a row; a third would
only repeat the second's part, because a row has one holder. Two attempts separate
the first, the retried and the exhausted run. Two rows suffice for deduplication
and for burial beside a claim. In the vault one page distinguishes "before it is
read", "between read and write" and "after"; a chain of two rows has a running and
a waiting member at once. Five versions let a row be added, edited, forgotten or
retracted, restored and removed again. Three exchanges allow an undo, a further
turn under the same number and another undo. One memory is enough for `EmbedJobs`:
no handler step compares two. A retrieval compares at most a row, its replacement
and one that shares its text: three memories, which also overrun a pinned limit of
one. Six prefetch calls reach past both
distances. Two people, a bot and an unsigned turn are the kinds of author the
scope rule tells apart; three turns let a background writer be two behind. Two
notes give every pair of titles a link can join or miss; twins of a title with a
third note that links to them are beyond the run and inside the proof (section 7).
Three hits over two generators of different weight have ties, absent ranks and a
duplicate at once. Three processes give a runner, a taker of its stale lock and
one without the lock. Backups keep one of each class, so the fourth snapshot is
the first that something must go for. Every bound is a constant commented *bound*;
bounds stop the writers, never a worker or a handler. The stops they cause are why
most configurations do not check deadlock; the queue's does.

Symmetry. `MCStore` declares sessions and contents interchangeable, `MCEmbedJobs`
the two configured models; the runs with liveness declare none. In `MCVaultPair`
the first saved note is always the same one, which is symmetry by hand.

Defined and not in a run: the type invariants (those of `Migrations`, `NoteIndex`
and `Ranking` were checked while the module was written, all others are proved),
`LinkJobAsked` and `Scopes!ReadsBack` (proved), `Prefetch!WorkersLeave`,
`Backups!SafetyOutlives`, `Backups!DoneHasBackup`.

## 4. Fairness

* `JobQueue!FairSpec`: time passes, and a worker that can keep claiming does claim
  (its loop polls for ever) and ends its runs. Crashes, heartbeats, releases and
  producers are under no obligation. Weak fairness of the claim is enough: which
  row it takes is decided by the order of the claim query, which the module has.
* `VaultSchedule!Fairness`: the same, and each handler takes its next step or
  fails. Leases run out. The module leaves the order among ready rows open, as
  other jobs compete for the worker, so the claim of each row is strongly fair:
  the query's order puts a ready row ahead of all later ones. Writes are not fair;
  `QueuedRuns` holds although they never stop, `PagesCatchUp` once they do.
* `TurnRetraction`: queued work is done eventually, which is what the queue's
  `JobsSettle` says while attempts remain.
* `Migrations`: who has not yet opened the store keeps opening it (a refused
  one too), who runs goes on or fails, and a lock file ages. Failures and deaths are not fair.
* `Prefetch`: its threads run, and the connection lock, which several threads
  take, is strongly fair: no thread holds it for ever and each comes back for it.
* `Shadow`: turns keep coming, a turn's thread goes on, and time passes. Without
  further turns a broken copy stays as it is.

## 5. Proofs

Eight modules prove what the runs check on small instances, for every value of the
constants. Each theorem assumes only the named assumption of its component
(`QueueConstants`, `TurnConstants`, ...), which TLC evaluates on a run; the three
that assume more say so below. The proofs are built alike: an inductive invariant,
first checked by TLC; a lemma per action (or per effect several actions share)
that keeps it; then the theorems. Below, what had to be added to the property to
make it inductive, which is where the argument is.

### BackgroundProofs: JobQueue, Shadow

*The queue*, for any workers, rows, keys, types, leases and delays.

* `TypeCorrect`.
* `LeaseExclusion` (`OneLeasedRunner`). Two runners of one row cannot be excluded
  from what the runners believe. `LeaseIsHonoured` (theorem `LeasesHonoured`) can:
  a worker within its lease owns the row with exactly the lease it believes in.
  Two such workers would be one `locked_by`, hence the same.
* `AttemptsAreBounded`: a waiting row has an attempt left, so a claim never
  charges one too many.
* `PoisonIsBounded` (`PoisonBounded`). Crashes alone are not bounded by anything
  in the row; crashes so far plus runners now are, by the attempts charged plus
  `MaxAttempts` per operator retry (`CrashesAreCharged`). A crash moves one unit
  between the two, a claim pays for its own.
* `KeysAreUnique`: inserting looks for the key in the same transaction.
* `OnlyHolderEnds`, `SettledStaysSettled`: action properties.
* `ImplementsLedger` (`LedgerSpec`): with `RunningIsCharged` (a running row was
  charged) every step is a step of `WorkLedger` or a stutter.

*The shadow read*, for any memories, threads and thresholds. `ShadowTypes`,
`VerdictsAreSound` (`VerdictIsSound`). What one more line can do to the verdict is
read off the line and the score: the lines before it keep their places, so one of
another build or a torn one leaves every score (`SameScores`), a turn on which the
gate abstained adds to the number of usable turns and to nothing else, and what
was made up stays counted. The line a turn leaves carries marks that agree with
the numbers beside them (`Left`), which is what keeps an abstained turn from
counting as inconsistent.

### VaultProofs: VaultSchedule, VaultPages, NoteIndex

*The schedule*, for any pages, chain length, delays, attempts and workers.

* `TypeCorrect`, with `Counted`: a running row was attempted, a waiting one may be
  once more.
* `WritesAreCovered` (`AloneCovered`). That a stale page has a render ahead is not
  inductive, because a page can be fresh now and be written in the next step from
  rows read before the last write. `PagesCovered` therefore speaks of pages that
  are *behind*: stale, or about to be written from stale rows; so `NotesCovered`
  for the index. When `Replace` puts the older rows on the page, the page was
  behind already, and what was ahead of it is another row, since the one that
  writes is past it. `Owned` (who runs a job holds its row) and `Alone` rule out a
  second handler of the kind. A step that only moves other rows is dealt with
  once, in `AheadStays` and `BehindBefore`.

*The pages and their ingest*, for any memories, statements and length of the
history. `PagesTypes`, `PagesStayTrue` (`PagesAreTrue`), `HintsAreEarned`
(`HintsEarned`).

* A hint comes from a line of the last pass, and every line there, or on the page,
  was shown (`LinesWereShown`).
* A pass that begins after a row became unreadable reads nothing of it
  (`ErasedIsUnread`), and when it ends the row has left the page and stays away
  (`ErasedIsGone`). A rendering that is thrown away leaves nothing to
  erase, because nobody else makes a page or mends one (`NoPageComesBack`). What
  the page shows is linked to the entity while its row is there (`ShownIsLinked`),
  so the pass that would erase it does visit the entity.
* `QuietSoFar` says how far the page shows the store, step by step of a pass
  beside which nothing moved.

*The index of notes*, for any notes, titles and saves. `RefreshesAreFull`
(`RefreshIsFull`). Per stage of a refresh the invariant says what it has read
(`ReadingOK`), what the rows are then (`RowsOK`), that of files nobody moved what
it has walked is seen and in the end shown (`StillOK`), and that every row but
those still to be read (`Unlinked`) has the edges of its links (`LinksOK`).
`NotesOK` is the types; `FilesOK` says that no two files of the vault have one
title, which does not hold of the rows.

### StoreProofs: MemoryStore, Episodes

*The memories*, for any contents, rows and versions: `MemoryTypes`,
`LiveContentIsUnique` (`LiveContentUnique`), `TrailStaysWhole` (`TrailIsWhole`),
`ForgottenAreGone` (`ForgottenStaysGone`), `LinkJobsAreAsked` (`LinkJobAsked`).

* One invariant serves all: a row that is there has a text and one that is not has
  no trail (`RowsFilled`), trail numbers are free above the version, every content
  is in the row or the trail.
* `GoneForGood`: the latest deletion of a forgotten row is not a retraction.
  Restore takes back only what an undo deleted, and decides by the latest entry of
  the trail, so a row that was retracted, restored and then forgotten has to be
  told from one retracted last: the numbers of deletions are what tells them.
* Nine of the operations are an insertion, a rewriting or a move of rows; what an
  effect keeps is proved once.

*The episodes*, for any processes, sessions, names and writes. `EpisodeTypes`,
`CheckpointsAreKept` (`CheckpointKept`), `EpisodesAreKept` (`EpisodesKept`).

* `CheckpointsAreKept` assumes `~SameMoment`, that no two writes fall into one
  millisecond: its stamp is all that tells the key of a new embed job from that of
  an old one. `Handoffs` says that the precompress rows are those of what was
  handed over, one for each evidence, and that each has its text, pins included; `ReadsItsText`, that a job whose stamp
  is still the row's embeds the words the row has.
* `EpisodesAreKept` assumes, besides `~SameMoment`, that no two sessions have one
  name (`DistinctNames`) and, of the behaviour, that no two processes are in one
  session (`[]Apart`). A handoff is keyed by its evidence, so a retry with other
  pins writes over it; the theorem says that nothing else does, and that no more
  than the pins changes. Section 7 says what happens otherwise. `Numbered`: wave
  numbers are no later than the clock, a digest is of the session whose name is in
  its id; `WaveIsNew`: the wave that is being written is not there yet.

### IntakeProofs: Windows, Reconcile, Facade

*The windows*, for any sessions, exchanges and length of a window. `WindowTypes`,
`MessagesAreOfferedOnce` (`OfferedOnce`). The second assumes `~LedgerMayFail`: a
write of the ledger that fails silently lets positions be used again, which
section 7 describes. The written ledger is behind the one in memory, and what the
two threads have of it is behind or past their own write of it (`Behind`); what is
stored has numbers the written ledger has passed, what is under way later ones
(`Passed`). Hence windows do not overlap (`WindowsDisjoint`), and what is sealed
is in a window or accounted for (`SealedIsOffered`).

*The reconciliation*, for any candidates, topics, duplicates (within a topic or
across topics) and limit. `ReconcileTypes`, `TopicsAreKept` (`TopicKept`). A pass
works on the store as it is inside its transaction. That a commit loses no family
of topics and near duplicates is not inductive; that the store inside knows every
family the store outside knows of is (`KeepsTopics`), for each decision on each
candidate, whatever earlier merges made of the rows (`StoreShape`, `PassHeld`). The
row a decision takes down is of the candidate's topic or nearly its text
(`Joined`), so it belongs to every family the candidate belongs to.

*The facade*, for any texts, rows, tokens and times. `FacadeTypes`,
`MirrorsFollow` (`MirrorFollows`), `ConfirmationsWereShown` (`ConfirmedWasShown`).
`RowsMakeSense`: no two live rows say the same, and a row not named after its text
was changed by a tool. `TokensWereShown`: what a token promises was shown, and no
longer ago than the token is good for. `MirrorFollows` speaks of texts that are
`Alone`, with no part in common with another's: that neither contains the other is
not enough, as the hook takes the first mirror that contains the part it was
given.

### TurnsProofs: TurnRetraction, Prefetch

*The retraction*, for any sessions, turns, memories and origins.

* `RetractionTypes` and `CounterFollows`. They need each other and two more facts
  (`Numbered`): conversations and transcripts are no longer than the exchanges
  begun allow (`Bounded`), and an exchange stands in its own session only
  (`Placed`).
* `NothingEscapes` (`LeftoversCovered`): the invariant is `RetractionInv`:
  `Numbered`; every queued job's number is past every exchange that stood when it
  was queued and still stands (`Aimed`); what the tool wrote carries the number of
  its exchange (`Stamped`); a row that is not there has no writer (`Fresh`).
* `EarlierTurnsStay` (`EarlierTurnsKept`): the action property, from `Aimed` and
  `Stamped`.

*The prefetch*, for any memories, distances, length of the queue, calls, commits
and questions. `PrefetchTypes`, `HitsAreCurrent` (`HitIsCurrent`), `GapsAreKept`
(`GapKept`), `NoQuestionIsLost` (`NoneForgotten`, the safety half of `AsksEnd`).

* A call that began at the present generation knows that nothing was committed
  since, so what it found is live; an entry of the present generation holds live
  memories only (`CallIsCurrent`, `CacheIsCurrent`).
* What the history has lost is further back than both distances (`HistoryIsLong`):
  it is trimmed by the longer of the two, and one more call.
* A question waits, is in hand, was answered or dropped, or ended with a newer one
  of its session, because only such a one is cancelled (`CancelledHasNewer`).

### EmbedJobsProofs: EmbedJobs

For any memories, models, versions and batch size, and any workers on any jobs
(the run restricts who does what). `TypeCorrect`, `TextsAreAsked`
(`CurrentOrAsked`), `VectorsAreKept` (`VectorsKept`).

* An embed job compares versions twice, before the backend and after; the
  invariant says what the comparisons are worth. What a handler holds is never of
  a text still to come (`ReadBelow`, `VectorsBelow`), it is the present text if
  the version has not moved (`ReadExact`), and no key was ever asked for a version
  still to come (`KeysBelow`), so a new text always gets its job. A job that
  returned left nothing to do (`Ended`), so removing it from the queue is safe
  whoever removes it.
* A backfill that goes to record its model found no gap (`FilledUp`); a prune that
  looked after the last switch spares its two models (`DoomedOld`).

### RetrievalProofs: Scopes, Recall, VectorCache, Entities

*The scopes*, for any people, chats, rows and number of turns. `TypeCorrect`,
`ScopesAreKept` (`ScopeIsKept`), `SyncsAreOfTheirAuthor` (`SyncedOfItsAuthor`),
`AuthorsReadBack` (`ReadsBack`). That predicate and clause agree is a lemma about
the two operators (`ClauseIsPredicate`). A cached block is what *some* context
with its key may read (`CacheIsReadable`), and two contexts with one key may read
the same. Between turns the scope lags behind; it is the author's while a turn is
open (`TurnHasScope`), which is when tools write (`ToolsAreOfTheirTurn`).

*A retrieval beside the writers*, for any memories, texts, limit of the pinned and
writes to texts, tiers and pins.
`RecallTypes`, `AnswersAreReadable` (`AnswerIsReadable`), `PinnedIsAnswered`
(`PinnedKept`). Each statement of a pass sees the store of another moment. The
history `seen` has the present at every moment of a call (`SightIsSeen`); the
invariant says, step by step, that what the pass holds was live during the call
(`HeldWasLive`) and from the gate on readable with its text (`GatedIsReadable`), so
with what it quotes (`QuotedIsReadable`); and that, when nothing was left out, a
pinned row nobody touched is among what it holds (`PinnedIsHeld`). A row may be held when it is already replaced, but never
together with the row that replaced it since (`ReplacedByOthers`), so dropping
predecessors drops no pinned row that stood throughout.

*The vector cache*, for any memories, texts, puts and rowids. `CacheTypes`,
`PutsAreSeen` (`OwnPutSeen`). A put that is not committed is of the present text
(`OpenPutIsCurrent`), one that is settled is in the table (`SettledIsStored`). No
fingerprint counts a put that has not happened, nor an open one no search has
looked at (`FingerprintsAreBehind`), so a snapshot whose fingerprint is the
present one holds every settled vector (`SnapshotHasSettled`).

*The entities*, for any rows, profiles, texts and cap. `EntityTypes`,
`EntitiesStayTrue` (`EntitiesAreTrue`). What a row proposes was said
(`ProposedIsSaid`), a sighting is of a row that said it and is not purged
(`Sightings`), an entity was proposed by two rows of its profile (`EntityHasTwo`),
and what a live row proposes is known or sighted in it once its job is done
(`LinkedOrSighted`). A purged row has no link (`LinksAreOfRows`).

### StorageProofs: Migrations, Backups, LegacyStore

*The migrations*, for any processes, builds and failures. `InOrder`
(`AppliedInOrder`) and `MigratedInOrder` (`MigratedWhole`, an invariant and an
action property). `NotAhead` says that nobody's next migration is past the
store's, so a runner that was overtaken meets its own row in `schema_migrations`,
and the transaction is rolled back; `BackedUp`, that a runner that can still
commit has a backup of what it found; `SameText`, that it has the text of the
migrations the store went through, which it compared before. None mentions the lock file: the order of
migrations does not depend on it.

*The backups*, for any limits of rotation, days and troubles. `BackupTypes`,
`RestoresAreSafe` (`RestoreIsSafe`). The snapshot a restore makes first is a
safety copy (`Labelled`), later than any other of its class, and rotation spares
the latest; so what the restore is about to replace is still in a snapshot when
the file is swapped, unless somebody wrote meanwhile (`CopyIsThere`). At every
step of a restore the store is the one it met, until the swap, and the index until
its own (`OneOrOther`); a snapshot or a capsule without an index leaves it there.

*The v2 engine's stores*, for any texts, classes, near duplicates and writes.

* `UpgradeKeepsNewest` (`NewestStaysLive`): the rows of the three tables are none
  of them written later than now (`Tabled`), and once upgraded they are what they
  were turned into, under some choice of profiles for the pending rows
  (`UpgradedWhole`). Of the rows of one class and profile a newest exists.
* `PeersComeToAgree` (`PeersAgree`). No version is ahead of the writes (`Synced`),
  so a new event of a fact is its highest. The events of a fact, emitted or not,
  end with its row, or with a tombstone when it is gone (`LogIsTrue`), and of the
  events the puller is past the newest is shown (`ShownIsNewest`). An event that
  finds its slot taken tells nothing the log does not have.

### What is assumed, and what is only model-checked

The named assumptions say what type a constant has and that sets are finite where
the code loads them whole; that a name for nothing is not a thing (`NoRow` is no
row, the facade stores no empty text, no note has the empty title); and, of what
is an input here because it is text work in the code, that likeness is mutual.
No theorem rests on a bound: bounds are constants of the components, of any size.

Every safety property of a passing run but one is stated by a theorem. Out of the
provers' reach, and only model-checked, are

* liveness, and what needs `ENABLED`: `JobsSettle`, `VaultCatchesUp`,
  `LeftoversGo`, `Upgraded`, `AsksEnd`, `LinesAreLeft` (`TurnsAreMeasured`);
* `RankedInFull`: the sums, the sorting and the packing of `Ranking` are folds
  over sequences, and what a fold computes for every input takes induction over
  data.

## 6. Where code and comments disagree

* `vault_chain`. The chain of dedupe keys has eight rows and counts finished
  ones; nothing shortens it. The ninth projection of a scope raises, the provider
  swallows the error, and the vault stays stale. The comment at
  `vault/schedule.py:77` takes this for a sign of overload.
* `turn_seq`. Window extraction stores a message number in `source_turn`
  (`formation/extract_jobs.py`), `retract_session` compares it with a turn
  number. A turn has two messages, so undoing turn N also takes committed
  memories extracted from earlier turns.
* `embed_bump`. An embed job whose version was passed ends as stale, "a newer
  version has its own job" (`embeddings/jobs.py:98`). Changes of status or
  metadata and duplicate adds move the version without a job. A memory whose
  confidence is edited before it was embedded never is. The properties of
  `EmbedJobs` are therefore stated for rows whose version is that of their text.
* `formation_key`. Every extraction of a scope queues the reconcile job under a
  key that names the scope only. The first pass settles the key, and candidates
  of later extractions wait for a person or for their time to run out.
* `upgrade`. A fact, a pending row and an archived one of the same v2 id get one
  `legacy_id`, which is unique, so the upgrade is rolled back every time.
  `extract_and_store(promote=True)` makes such a pair by design.

## 7. Known limits of the code

Behaviour seen while modelling that no checked property covers, because the
repository states nothing to the contrary, or because the property that would
is refuted (named in brackets, "run": also confirmed by running the code).

Jobs and vault
* Two workers that both render a page write it in any order; the older rows can
  land last with both jobs done. `AloneCovered` asks for one worker per kind.
* A projection that failed once is pushed back by every write without the
  ceiling of first runs (`vault/schedule.py:187`).
* A page saved by a person between the projection's read and its replace is
  overwritten (`vault/projection.py`).
* Ingestion's baseline is what the page showed before the pass's own projection,
  though the docstring says "at the end of the previous pass": a line written and
  removed between two passes is never hinted, and a memory retracted, projected
  away and restored is hinted though nobody removed it. Hints are never cleared
  while the memory lives.
* A statement of the page whose proposal was discarded is proposed again at every
  pass, and a pending one gets a version and an audit row
  [`VaultPages!DiscardedStaysDiscarded`].
* The line of a purged memory stays on its entity page when it was the page's
  last [`PurgedLeavesPages`, run]; purge has no caller in production.
* No scheduled projection renders the unfiled pages: `vault.projection` selects the
  entity pages, or those and the journal (`vault/schedule.py:79-104`), so an active
  row of no entity is on no page, though `projection.py` describes `Unfiled.md`. Only
  the tests call `project()` with its default modes. `VaultPages` leaves them out.
* Only remember, update and forget of the tools ask for a projection. Promote,
  discard, restore, undo, reconcile and the mirror hook leave the pages as they
  are until the next tool write.
* Index: notes indexed by hand with stamp (0, 0) count as touched at the next
  refresh and their links are never read until a full rebuild
  [`NoteIndex!AnyRefreshIsFull`, run]; a refresh that dies between stamps and
  links leaves the links out; a title that moves from one note to another under a
  walk stands in two rows, and when the next refresh removes one of the twins its
  in-edges go with it and no note is linked to the other
  [`NoteIndex!RemovalsAreFull`, run], against `src/tests/test_graph_incremental.py:9`
  ("added / removed / renamed notes leave the same edge set a full rebuild would
  produce"); `RefreshIsFull` leaves such a removal out (`widowed`); a note edited and edited back around a rescan; the
  rescan's limit of 200 notes per title; the fallback wipes triple edges;
  `cmd_forget` deletes "x.md" where ids carry no suffix.

Memories, tools, facade
* Restoring a memory whose content was written again meanwhile violates the
  unique index, and the tool handles another exception. Purging a row another
  one names as successor is rolled back.
* A memory replaced in a turn stays superseded when the turn is undone and the
  replacement retracted.
* An exception in the loop of a confirmed forget leaves the earlier ids forgotten
  and the token spent. A mirrored pending row cannot be forgotten by the hook;
  with several authors the hook looks in the current author's bucket only. What
  the hook adds may be dropped, taken from another row or forgotten unseen
  [`Facade!AddedIsRemembered`, `TakesItsOwn`, `ForgetsWhatWasShown`].
* MemoryStore leaves `legacy_id UNIQUE` to Facade.

Turns and formation
* A retraction names only the first turn to take, and the next turn gets that
  number. If it runs after that turn has begun it takes that turn's memories
  too. `EarlierTurnsKept` speaks of turns that had begun at the undo.
* `sync_turn` reads the turn counter when it runs, which can be after the next
  turn began; the comment at `provider/provider.py:1187` wants it captured
  earlier. Its candidates then carry the later turn's number.
* The three writes of `/undo` each swallow their errors; a retract job can use up
  its attempts. Chunks of undone turns are still extracted.
* A ledger write that fails silently, followed by a crash, lets positions be used
  again, though `provider/state.py` says ranges never repeat. A seal can take
  positions whose chunks are not captured yet. Evidence chunks of a compaction
  are numbered by themselves and mixed with turn chunks by `read_chunks`.
* `decide` answers UPDATE for a near duplicate with the same numbers without
  comparing what the two texts are about (`formation/reconcile.py:213-224`): "The
  testing port is 8080 since …" overwrites the row "The staging port is 8080
  since …" when enough of the rest is shared, though the prompt of the same module
  reads UPDATE as "same fact, better wording or more detail"
  [`Reconcile!EachTopicKept`, run; `decide` was also called on such a pair].
  `TopicKept` counts texts that near duplicates join as one family.
* Pending rows are listed newest first, so the older of two pending values wins.
  A candidate of a user's scope replaces and edits profile-wide rows.
* Episodes: in a host without sessions the second flush raises and digest and
  extraction are lost; checkpoint and delegation raise. A switch without reset
  keeps the turn buffer, so a later wave holds turns of the session before.
  Undone turns stay in the buffer [`Episodes!UndoneIsNotDigested`]. A retry with
  other pins rewrites the handoff of the same evidence, so a handoff returned
  earlier may be in no episode any more (`HandedKept` is of the last one). Wave numbers are looked
  up outside the write's transaction. Session ids cut to 80 characters can meet.

Vectors and retrieval
* A backfill labels vectors with the model of its job while the worker's service,
  built from the environment (`jobs/registry.py`), makes them; the two differ
  when `embeddings.model` is configured and the environment is not.
* A backfill writes its batch without a second look (`embeddings/jobs.py:171`):
  beside another worker it can put an old vector over a newer one, which is then
  never repaired (the second look that `embeddings/jobs.py:11` describes is the embed
  job's only), and it revives the vector of a purged row. (The history
  `lost` of `EmbedJobs` marks the row, and `NeverOlder` excepts the backfill.) Run again after its
  stamp it makes the current model its own predecessor.
* A prune that looks, is overtaken by a switch back to what it is about to
  delete, and deletes, takes the vectors of the current model: the two steps are
  separate statements, and `RollbackKept` excepts this while the grace is on.
* A prune is queued right after the switch, runs inside the grace, does nothing,
  and its key is spent; so with every once-only key: a backfill that found no
  backend, a switch back to an earlier model.
* Status changes, restores and content edits do not move the cache's fingerprint,
  so a search ranks by the vector of an earlier text until the next put
  [`VectorCache!VectorOfItsText`]. A put is counted before it commits.
* `load_predecessors` filters on status, so a chain of replacements does not
  collapse onto its newest row when a middle one was archived
  [`Recall!ChainCollapsed`].
* The packer reads the rows again by id, without scope or tier
  (`retrieval/packer.py:217-226`), after the filter that its comment calls "the last
  point before the text would be shown": a row that gets another text and an
  owner-only tier in between is shown to a guest with a text the guest could at no
  moment read [`Recall!ShownIsReadable`]. `AnswerIsReadable` promises of the packer's
  text only that it was live.
* The pinned generator returns ten rows at most (`retrieval/candidates.py:93`): of
  more pinned rows and constraints the rest is missing from an answer that says
  nothing of it. `PinnedKept` excepts such an answer.
* An open loop can be shown without its episode when the episode does not fit
  [`Ranking!LoopWithItsEpisode`, run]. The packer sorts by score again, so the
  order of diversity never reaches the block [`DiverseFirst`, run]. A retrieval
  with fewer generators in time gives higher scores.
* Prefetch: the deadline is computed before the connection lock is taken, which a
  precompute holds without one; closing with a full queue loses the sentinel and
  may wait for the lock; nothing calls `reset` or `note_write`; the one
  in-flight Event is cleared by the first of two overlapping calls; a dropped
  precompute never sets its handle.
* Scopes: a window with several authors goes to the bucket of the turn that
  sealed it [`Scopes!WindowOfItsAuthor`]; an unsigned turn keeps the bucket of
  the author before; a guest's own sensitive row is readable by nobody.
* Entities: `find_entity` ignores the profile, so a link may join two profiles,
  against `entity_linker.py`'s own comment [`Entities!LinkedInItsProfile`]. The
  first memory that mentions a name is not linked unless its job runs again;
  edits leave old links; consolidation works on a stale candidate list.

Storage, v2, shadow
* `ensure_schema`, `migration_lock`, `enqueue_daily_backup` and
  `BackupManager.restore` have no caller in production. Snapshots before a forget
  pile up, as rotation runs in the backup job only, which nothing queues.
* Nothing in v3 holds `<db>.lock`, so restore and import never refuse beside a v3
  provider. Writes between the safety copy and the swap are lost; a crash between
  the two swaps mixes memory and index; an import leaves an old `-wal` beside the
  new file, which the next opener replays [`Backups!ImportedIsWhole`, run].
* A snapshot taken when no `index.db` was there (`store/backup.py:404`), and any flat
  backup of the old format, holds the memory only. Restoring it leaves the present
  `index.db` beside the restored memory, though the restore says "a half-restored
  store would be worse than none" [`Backups!RestoredIsWhole`, run]; the index is right
  again after its next refresh. `AllOrNothing` says so of such a snapshot.
* A store with data is migrated only in a scratch path or with an environment
  variable set (`store/migrations/__init__.py:366-368`), and never by a build whose
  text of an applied migration differs (348): such an opener fails for ever, and
  `Upgraded` excepts it. So does the migration that fails on a pair of v2 rows every
  time (`upgrade`). The first migrations of a new store are several transactions: if
  the process dies between two of them, the store has tables of data, and the next
  opener outside a scratch path is refused. A refused opener holds the lock for its
  moment, and whoever meets it there is refused as well; in the run it takes none.
* The taker of a stale lock and whoever leaves remove the file that is there.
  Under overlap a backup's label can name an older version than it holds; writes
  between backup and migration are not in it. Two snapshots of one reason in one
  millisecond share their temporary directory.
* v2: forget or consolidate and then remember resets the version while history
  stays, and after the upgrade every update of that memory hits
  UNIQUE(memory_id, version) (run). Facts carry a profile id and pending rows do not:
  the upgrade gives these the one registered profile, or `default` when there are
  several, and duplicates are sought within a profile only, so a pending duplicate of a
  fact can stay live beside it. A pending duplicate in other letters replaces
  the active fact and then expires. Another store misses what `untold` names:
  events under reused version numbers, facts that turned sensitive, archived
  facts. `audit()` commits inside remember, so a crash leaves a fact without its
  outbox row.
* Shadow: a stale copy also makes v3 look more diverged, against the docstring's
  "lower bound" [`Shadow!LagOnlyHides`]; a report against a later copy counts
  honest hits on memories forgotten since as fabricated [`SettledWhenWritten`]. A
  refresh that broke off costs every turn its line until the copy is too old
  (run). Each refresh leaves a backup beside the copy. The parity audit compares
  counts, so forgotten facts in the log can hide a missing one.

## 8. Not modelled, and the plan

Left out for good: pure I/O, text and presentation (graph, article fetching,
screening, PII, HTML, configuration, CLI parsing, evaluations) keep no state
others rely on. Feature arithmetic of FTS5 and of vectors is an input.

Left out for now, most important first: the call protocol and budget of
`formation/llm.py`; the start and shutdown of the provider; the audit chain
(one append inside the caller's transaction); relations and merges of entities;
the parity audit; the rest of the v2 engine (ranking, triples, reinforcement);
the remaining steps of migration 0002.
