-------------------------------- MODULE Scopes --------------------------------
(***************************************************************************)
(* Who a turn reads and writes as (em/policy/scopes.py, em/provider/       *)
(* provider.py).  A session has one ScopeContext, which every turn moves   *)
(* to the bucket of its author; tools and recall use it at once, but the   *)
(* background sync of a turn runs when later turns may have moved it, and  *)
(* a window of several turns is extracted under the scope of its seal.     *)
(*                                                                         *)
(* One profile, one session with its chat.  A row keeps the turn whose     *)
(* words it holds and the way it was written.  Recall finds every row the  *)
(* scope admits; its block is cached under the scope's key and one         *)
(* question.  The order of an extraction's own thread is left out: its     *)
(* scope is bound when sync_turn starts it.                                *)
(***************************************************************************)
EXTENDS Naturals, Sequences, FiniteSets, SequencesExt

CONSTANTS
    People, Bot,
    Owners,      \* owner_user_ids
    MaxTurns,    \* bound
    OldRows      \* rows of earlier sessions, whose turns are not counted here

LocalOwner == "owner"    \* DEFAULT_OWNER_USER_ID
NoOne      == ""         \* no author, no gateway user, profile-wide
Authors    == People \cup {Bot, NoOne}
Buckets    == Authors \cup {LocalOwner}
Chats      == {"", "here", "elsewhere"}

Rows == [turn : 0..MaxTurns, user : Buckets, chat : Chats, tier : {"internal", "sensitive"},
         visibility : {"profile", "user"}, via : {"old", "tool", "sync", "window"}]

ScopeConstants ==
    /\ {Bot, NoOne, LocalOwner} \cap People = {} /\ Bot \notin {NoOne, LocalOwner}
    /\ Owners \subseteq People
    /\ MaxTurns \in Nat
    /\ OldRows \subseteq Rows /\ \A r \in OldRows : r.via = "old"

ASSUME ScopeConstants

VARIABLES
    ctx,      \* ProviderState.scope: user, author, bot, owner, chat
    turns,    \* the author of each turn so far
    open,     \* the last turn is going on
    synced,   \* turns sync_turn has had
    window,   \* turns of the unsealed window
    jobs,     \* queued extractions: their turns and their scope
    rows,
    cache,    \* blocks by scope key
    block     \* what recall gave the turn

scopeVars == <<ctx, turns, open, synced, window, jobs, rows, cache, block>>

Contexts == [user : Buckets, author : Authors, bot : BOOLEAN, owner : BOOLEAN,
             chat : Chats \ {"elsewhere"}]

(* Every variable has its type. *)
TypeOK ==
    /\ ctx \in Contexts
    /\ turns \in Seq(Authors) /\ Len(turns) <= MaxTurns
    /\ open \in BOOLEAN
    /\ synced \in 0..Len(turns)
    /\ window \subseteq 1..synced
    /\ \A j \in jobs : j.turns \subseteq 1..synced /\ j.scope \in Contexts
    /\ rows \subseteq Rows
    /\ \A e \in cache : e.block \subseteq Rows
    /\ block \subseteq Rows

(* _is_owner_for: guests exist only with a list of owners. *)
IsOwner(u) == ~(u # NoOne /\ Owners # {} /\ u \notin Owners)

(* from_init_kwargs: the mode is configured or follows from the gateway.   *)
FromInit(mode, gateway, chat) ==
    [user   |-> IF mode = "profile" THEN NoOne
                ELSE IF gateway # NoOne THEN gateway ELSE LocalOwner,
     author |-> NoOne,
     bot    |-> FALSE,
     owner  |-> IF gateway = NoOne /\ mode # "profile" THEN TRUE ELSE IsOwner(gateway),
     chat   |-> IF mode = "chat" THEN chat ELSE ""]

Init ==
    /\ \E mode \in {"profile", "user", "chat"}, gateway \in People \cup {NoOne} :
         ctx = FromInit(mode, gateway, "here")
    /\ turns = <<>>
    /\ open = FALSE
    /\ synced = 0
    /\ window = {}
    /\ jobs = {}
    /\ rows = OldRows
    /\ cache = {}
    /\ block = {}

(* with_author: without one the bucket stays where the last turn left it.  *)
WithAuthor(c, a) ==
    IF a = NoOne THEN [c EXCEPT !.author = NoOne, !.bot = FALSE]
    ELSE [c EXCEPT !.user = a, !.author = a, !.bot = (a = Bot), !.owner = IsOwner(a)]

(* write_scope: a bot writes profile-wide. *)
WriteScope(c) == IF c.bot THEN [c EXCEPT !.user = NoOne, !.owner = FALSE] ELSE c

(* MemoryStore.add stamps the row with the scope (_resolved_visibility). *)
Row(t, scope, via) ==
    [turn |-> t, user |-> scope.user, chat |-> scope.chat, tier |-> "internal",
     visibility |-> IF scope.user = NoOne THEN "profile" ELSE "user", via |-> via]

(* row_is_owner_only, may_read_owner_only, chat_in_scope, and _in_scope    *)
(* over them.                                                              *)
RowOwnerOnly(r)  == r.tier = "sensitive" \/ (r.user = NoOne /\ r.visibility = "user")
MayReadOwner(c)  == c.user = NoOne \/ c.owner
InScope(c, r) ==
    /\ RowOwnerOnly(r) => MayReadOwner(c)
    /\ c.chat = "" \/ r.chat \in {c.chat, ""}
    /\ r.user \in {c.user, NoOne}

(* scope_sql: what a query with its clause selects. *)
ScopeSql(c) ==
    {r \in rows : /\ r.user = c.user \/ r.user = NoOne
                  /\ c.chat # "" => (r.chat = c.chat \/ r.chat = "")
                  /\ ~MayReadOwner(c) => ~(\/ r.tier = "sensitive"
                                           \/ r.user = NoOne /\ r.visibility = "user")}
-----------------------------------------------------------------------------
(* The turn.                                                               *)

(* _seal_window queues the extraction under the scope of the moment        *)
(* (_scope_payload, from to_scope).                                        *)
Sealed(scope) == jobs \cup {[turns |-> window, scope |-> scope]}

(* on_turn_start: the idle seal comes before the scope moves, the cadence  *)
(* seal after.                                                             *)
TurnStart ==
    /\ ~open /\ Len(turns) < MaxTurns
    /\ \E a \in Authors :
         /\ turns' = Append(turns, a)
         /\ ctx' = WithAuthor(ctx, a)
         /\ \/ window' = window /\ jobs' = jobs
            \/ window # {} /\ window' = {} /\ jobs' \in {Sealed(ctx), Sealed(ctx')}
    /\ open' = TRUE
    /\ block' = {}
    /\ UNCHANGED <<synced, rows, cache>>

(* Variant: a block is cached for the session. *)
KeyOfSession(c) == <<c.chat>>

(* scope_key, with the one question. *)
Key(c) == <<c.user, c.chat, c.author, c.owner, c.bot>>

(* prefetch: the cached block of this scope, or what the scope admits. *)
Prefetch ==
    /\ open
    /\ LET hits == {e \in cache : e.key = Key(ctx)}
       IN  IF hits # {}
           THEN block' = (CHOOSE e \in hits : TRUE).block /\ cache' = cache
           ELSE /\ block' = ScopeSql(ctx)
                /\ cache' = cache \cup {[key |-> Key(ctx), block |-> block']}
    /\ UNCHANGED <<ctx, turns, open, synced, window, jobs, rows>>

(* The remember tool. *)
Remember ==
    /\ open
    /\ rows' = rows \cup {Row(Len(turns), WriteScope(ctx), "tool")}
    /\ UNCHANGED <<ctx, turns, open, synced, window, jobs, cache, block>>

TurnEnd ==
    /\ open /\ open' = FALSE
    /\ UNCHANGED <<ctx, turns, synced, window, jobs, rows, cache, block>>
-----------------------------------------------------------------------------
(* The background.                                                         *)

Ended == IF open THEN Len(turns) - 1 ELSE Len(turns)

(* Variant: the scope of the session is used as it is. *)
SyncUnderSession ==
    /\ synced < Ended
    /\ synced' = synced + 1
    /\ window' = window \cup {synced'}
    /\ rows' = rows \cup {Row(synced', WriteScope(ctx), "sync")}
    /\ UNCHANGED <<ctx, turns, open, jobs, cache, block>>

(* sync_turn of the next turn: its messages join the window, and what is   *)
(* extracted from it at once is its author's.                              *)
Sync ==
    /\ synced < Ended
    /\ synced' = synced + 1
    /\ window' = window \cup {synced'}
    /\ rows' = rows \cup {Row(synced', WriteScope(WithAuthor(ctx, turns[synced'])), "sync")}
    /\ UNCHANGED <<ctx, turns, open, jobs, cache, block>>

(* The extract_window job: every candidate under the scope of the payload. *)
ExtractWindow ==
    \E j \in jobs :
        /\ jobs' = jobs \ {j}
        /\ rows' = rows \cup {Row(t, j.scope, "window") : t \in j.turns}
        /\ UNCHANGED <<ctx, turns, open, synced, window, cache, block>>

Next == TurnStart \/ Prefetch \/ Remember \/ TurnEnd \/ Sync \/ ExtractWindow

Spec == Init /\ [][Next]_scopeVars
-----------------------------------------------------------------------------
(* Properties.                                                             *)

(* The predicate and the clause admit the same rows in every context the   *)
(* turns lead to: "the SQL form and the row-by-row form cannot disagree    *)
(* about who may read what" (scope_sql).                                   *)
SqlAgrees == ScopeSql(ctx) = {r \in rows : InScope(ctx, r)}

(* No turn is shown a row its own scope does not admit, also when the      *)
(* block was built for another turn of the session ("one key => one        *)
(* readable set, so a hit is always safe", _cache_key).                    *)
BlockIsReadable == \A r \in block : InScope(ctx, r)

(* Both forms of the scope admit the same rows, and no turn is shown a row  *)
(* its own does not admit. *)
ScopeIsKept == SqlAgrees /\ BlockIsReadable

(* An author reads back what a tool wrote in an earlier turn of theirs,    *)
(* whoever spoke in between, and whether they are a guest or a bot.        *)
ReadsBack ==
    open => \A r \in rows : r.via = "tool" /\ turns[Len(turns)] # NoOne
                            /\ turns[r.turn] = turns[Len(turns)] => InScope(ctx, r)

Belongs(r) == r.user = IF turns[r.turn] = Bot THEN NoOne ELSE turns[r.turn]

(* What sync_turn extracts from an author's turn is in the author's        *)
(* bucket, however far the session has moved on; a bot's is profile-wide   *)
(* ("the sync worker can land after the next turn's on_turn_start").       *)
SyncedOfItsAuthor ==
    \A r \in rows : r.via = "sync" /\ turns[r.turn] # NoOne => Belongs(r)

(* Expected, and refuted: so is what a window extracts: "the author is the *)
(* user bucket [...] for the attribution of extracted memories, and a bot  *)
(* author never creates user-scoped memories" (on_turn_start).             *)
WindowOfItsAuthor ==
    \A r \in rows : r.via = "window" /\ turns[r.turn] # NoOne => Belongs(r)
=============================================================================
